-------------------------------- MODULE Args --------------------------------
(***************************************************************************)
(* madbfs::args::parse (include/madbfs/args.hpp): the start-up procedure   *)
(* that starts the adb server, parses the command line with libfuse,      *)
(* handles --help, checks the log level, settles on a device serial       *)
(* (check_serial for a given one, get_serial and its stdin prompt         *)
(* otherwise) and normalises the cache and page sizes.                    *)
(*                                                                         *)
(* One coroutine runs it before anything else exists, so its steps are    *)
(* sequential: pc names the step, one action per step.  The inputs of one *)
(* start (the world the procedure reads) are the record in, fixed for the *)
(* run.  Widths are constants: usize has SizeBits bits (64 in the code),  *)
(* the prompt's unsigned choice ChoiceBits (32).                           *)
(***************************************************************************)
EXTENDS Naturals, Integers, Sequences

CONSTANTS
    Serials,        \* device serials
    NoSerial,       \* no --serial and no ANDROID_SERIAL
    DeviceLists,    \* what list_devices may return: sequences of [serial, status]
    ListError,      \* list_devices failed
    StdinInputs,    \* what stdin may hold: sequences of numbers and Junk, then EOF
    Junk,           \* a token that is not a number (or one out of range of unsigned)
    LevelArgs,      \* words log_level may hold after fuse_opt_parse ("warn" unless given)
    CacheArgs,      \* values --cache-size=%d may give (an int, MiB)
    PageArgs,       \* values --page-size=%d may give (an int, KiB)
    CacheMin,       \* 128 (MiB) in the code
    PageMin,        \* 64 (KiB) in the code
    SizeBits,       \* width of usize
    ChoiceBits,     \* width of the unsigned choice
    BitCeilUB,      \* what std::bit_ceil of a value above 2^(SizeBits-1) gives
    Pending,
    Abort

USize == 2^SizeBits

\* The spdlog::level::level_enum value parse_level_str gives for each word.
LevelEnum ==
    [trace |-> "trace", debug |-> "debug", info |-> "info", warn |-> "warn",
     error |-> "err", critical |-> "critical", off |-> "off"]

\* parse_level_str: the level a word names, std::optional as a set of at
\* most one.
ParseLevelStr(w) == IF w \in DOMAIN LevelEnum THEN {LevelEnum[w]} ELSE {}

LevelNames == {LevelEnum[w] : w \in DOMAIN LevelEnum}

Inputs ==
    [adbOk: BOOLEAN, optOk: BOOLEAN, help: BOOLEAN, fullHelp: BOOLEAN, level: LevelArgs,
     serial: Serials \cup {NoSerial}, devices: DeviceLists \cup {ListError},
     stdin: StdinInputs, cache: CacheArgs, page: PageArgs]

Exit(status) == [kind |-> "exit", status |-> status]

\* ParsedOpt, with the log file left out.
ParsedOpt(serial, level, cache, page) ==
    [kind |-> "opt", serial |-> serial, log_level |-> level, cache |-> cache, page |-> page]

VARIABLES
    in,         \* the inputs of this start
    pc,         \* the step parse is at
    owned,      \* parse owns a fuse_args it must free or hand over
    online,     \* the serials get_serial offers at the prompt
    pos,        \* the next stdin token
    failed,     \* std::cin is in its fail state
    choice,     \* the prompt's choice variable
    chosen,     \* the serial settled on
    result      \* the ParseResult returned, Pending before

vars == <<in, pc, owned, online, pos, failed, choice, chosen, result>>

\* static_cast<usize>(int)
ToUSize(n) == n % USize

\* std::bit_ceil: the least power of two not below x; above 2^(SizeBits-1)
\* the result is not representable and the behaviour is undefined.
PowersOfTwo == {2^k : k \in 0 .. SizeBits - 1}
BitCeil(x) ==
    IF x > 2^(SizeBits - 1) THEN BitCeilUB
    ELSE {CHOOSE p \in PowersOfTwo : p >= x /\ \A q \in PowersOfTwo : q >= x => p <= q}

\* std::bit_ceil(std::max(static_cast<usize>(n), least))
NormalisedSize(n, least) ==
    BitCeil(IF ToUSize(n) >= least THEN ToUSize(n) ELSE least)

\* Mutant of OnlineSerials: the status filter dropped.
AllSerials(devs) == [k \in DOMAIN devs |-> devs[k].serial]

\* get_serial: the serials of the listed devices whose status is Device.
OnlineSerials(devs) ==
    LET on == SelectSeq(devs, LAMBDA d : d.status = "Device")
    IN  [k \in DOMAIN on |-> on[k].serial]

\* check_serial: the status of the first listed device with the serial,
\* Unknown when none is or the listing fails.
CheckSerial(devs, s) ==
    IF devs = ListError \/ \A k \in DOMAIN devs : devs[k].serial # s THEN "Unknown"
    ELSE devs[CHOOSE k \in DOMAIN devs :
                 devs[k].serial = s /\ \A j \in 1 .. k - 1 : devs[j].serial # s].status

\* Mutant of ChoiceValid: the upper bound off by one.
ChoiceBelow(c, n) == c > 0 /\ c < n

\* choice > 0 and choice <= devices.size()
ChoiceValid(c, n) == c > 0 /\ c <= n

\* Mutant of Extract: a negative number stored as it is.
ExtractNoWrap(tok) == IF tok = Junk THEN 0 ELSE tok

\* std::cin >> choice on an unsigned: a number is taken modulo 2^ChoiceBits
\* (a negative one wraps), a word stores 0 and sets the fail state. At EOF,
\* or once failed, the stream's sentry fails first and choice is left as it
\* is (Prompt).
Extract(tok) == IF tok = Junk THEN 0 ELSE tok % (2^ChoiceBits)

-----------------------------------------------------------------------------
Init ==
    /\ in \in Inputs
    /\ pc = "connect"
    /\ owned = FALSE
    /\ online = <<>>
    /\ pos = 1
    /\ failed = FALSE
    /\ choice = 1
    /\ chosen = NoSerial
    /\ result = Pending

\* Return a ParseResult, freeing the fuse_args on the way out (the Exit paths
\* after a successful fuse_opt_parse).
ExitWith(status, free) ==
    /\ pc' = "done"
    /\ result' = Exit(status)
    /\ owned' = (owned /\ ~free)

\* co_await data::start_connection()
StartConnection ==
    /\ pc = "connect"
    /\ IF in.adbOk THEN pc' = "opt" /\ UNCHANGED <<owned, result>>
       ELSE ExitWith(1, FALSE)
    /\ UNCHANGED <<in, online, pos, failed, choice, chosen>>

\* fuse_opt_parse: on failure libfuse frees what it built, nothing is owned.
OptParse ==
    /\ pc = "opt"
    /\ IF in.optOk THEN pc' = "help" /\ owned' = TRUE /\ UNCHANGED result
       ELSE ExitWith(1, FALSE)
    /\ UNCHANGED <<in, online, pos, failed, choice, chosen>>

\* --help / --full-help
Help ==
    /\ pc = "help"
    /\ IF in.help \/ in.fullHelp THEN ExitWith(0, TRUE)
       ELSE pc' = "level" /\ UNCHANGED <<owned, result>>
    /\ UNCHANGED <<in, online, pos, failed, choice, chosen>>

\* Mutant of LogLevel: the invalid-level exit keeps the fuse_args.
LogLevelLeaks ==
    /\ pc = "level"
    /\ IF ParseLevelStr(in.level) # {} THEN pc' = "serial" /\ UNCHANGED <<owned, result>>
       ELSE ExitWith(1, FALSE)
    /\ UNCHANGED <<in, online, pos, failed, choice, chosen>>

\* parse_level_str(log_level)
LogLevel ==
    /\ pc = "level"
    /\ IF ParseLevelStr(in.level) # {} THEN pc' = "serial" /\ UNCHANGED <<owned, result>>
       ELSE ExitWith(1, TRUE)
    /\ UNCHANGED <<in, online, pos, failed, choice, chosen>>

\* No serial given: co_await get_serial(); an empty answer is an exit.
GetSerial ==
    /\ pc = "serial"
    /\ in.serial = NoSerial
    /\ LET on == IF in.devices = ListError THEN <<>> ELSE OnlineSerials(in.devices)
       IN  CASE Len(on) = 0 -> ExitWith(1, TRUE) /\ UNCHANGED <<online, chosen>>
             [] Len(on) = 1 -> pc' = "finish" /\ chosen' = on[1]
                               /\ UNCHANGED <<owned, result, online>>
             [] OTHER       -> pc' = "prompt" /\ online' = on
                               /\ UNCHANGED <<owned, result, chosen>>
    /\ UNCHANGED <<in, pos, failed, choice>>

\* A serial given: co_await check_serial(serial) must say Device.
CheckGivenSerial ==
    /\ pc = "serial"
    /\ in.serial # NoSerial
    /\ IF CheckSerial(in.devices, in.serial) = "Device"
       THEN pc' = "finish" /\ chosen' = in.serial /\ UNCHANGED <<owned, result>>
       ELSE ExitWith(1, TRUE) /\ UNCHANGED chosen
    /\ UNCHANGED <<in, online, pos, failed, choice>>

\* One turn of get_serial's while (true) { std::cin >> choice; ... } loop.
Prompt ==
    /\ pc = "prompt"
    /\ LET eof   == pos > Len(in.stdin)
           fails == failed \/ eof \/ in.stdin[pos] = Junk
           c     == IF failed \/ eof THEN choice ELSE Extract(in.stdin[pos])
       IN  /\ choice' = c
           /\ failed' = fails
           /\ pos' = IF eof \/ failed THEN pos ELSE pos + 1
           /\ IF ChoiceValid(c, Len(online))
              THEN pc' = "finish" /\ chosen' = online[c]
              ELSE UNCHANGED <<pc, chosen>>
    /\ UNCHANGED <<in, owned, online, result>>

\* co_return ParseResult::Opt{...}: the sizes normalised, the fuse_args
\* handed to the caller.
Finish ==
    /\ pc = "finish"
    /\ pc' = "done"
    /\ \E cache \in NormalisedSize(in.cache, CacheMin), page \in NormalisedSize(in.page, PageMin),
         level \in ParseLevelStr(in.level) :
          result' = IF cache = Abort \/ page = Abort THEN Abort
                    ELSE ParsedOpt(chosen, level, cache, page)
    /\ UNCHANGED <<in, owned, online, pos, failed, choice, chosen>>

\* The program goes on with the result; parse takes no more steps.
Returned ==
    /\ pc = "done"
    /\ UNCHANGED vars

Next ==
    \/ StartConnection \/ OptParse \/ Help \/ LogLevel
    \/ GetSerial \/ CheckGivenSerial \/ Prompt \/ Finish
    \/ Returned

\* One coroutine, driven by the executor until it returns.
Spec == Init /\ [][Next]_vars /\ WF_vars(Next)

-----------------------------------------------------------------------------
(* Properties                                                              *)

OptResults == {r \in {result} : r # Pending /\ r # Abort /\ r.kind = "opt"}

TypeOK ==
    /\ in \in Inputs
    /\ pc \in {"connect", "opt", "help", "level", "serial", "prompt", "finish", "done"}
    /\ owned \in BOOLEAN
    /\ online \in Seq(Serials)
    /\ pos \in Nat \ {0}
    /\ failed \in BOOLEAN
    /\ choice \in 0 .. 2^ChoiceBits - 1
    /\ chosen \in Serials \cup {NoSerial}
    /\ result \in {Pending, Abort} \cup {Exit(0), Exit(1)}
                    \cup [kind: {"opt"}, serial: Serials, log_level: LevelNames,
                          cache: Nat, page: Nat]

(***************************************************************************)
(* The fuse_args parse builds are freed on every Exit path and handed to   *)
(* the caller with Opt, never both, never neither (the doc comment of      *)
(* parse: the caller frees them after an Opt).                             *)
(***************************************************************************)
ArgsOwnership ==
    pc = "done" /\ result # Abort => (owned <=> OptResults # {})

(***************************************************************************)
(* The sizes handed on are powers of two, at least the minimum (128 MiB,  *)
(* 64 KiB) and at least what was asked for, as --help promises: "minimum: *)
(* 128", "value will be rounded to the next power of 2".                   *)
(***************************************************************************)
SizesNormalised ==
    \A r \in OptResults :
        /\ r.cache \in PowersOfTwo /\ r.cache >= CacheMin /\ r.cache >= in.cache
        /\ r.page \in PowersOfTwo /\ r.page >= PageMin /\ r.page >= in.page

(***************************************************************************)
(* Once the prompt has a valid answer ahead of it on stdin, with nothing  *)
(* unreadable before it, parse returns (get_serial's loop ends).           *)
(***************************************************************************)
AnswerAhead ==
    /\ pc = "prompt"
    /\ ~failed
    /\ \E k \in pos .. Len(in.stdin) :
          /\ Extract(in.stdin[k]) \in 1 .. Len(online)
          /\ \A j \in pos .. k - 1 : in.stdin[j] # Junk
PromptAnswered == AnswerAhead ~> (pc = "done")

(***************************************************************************)
(* parse returns, whatever stdin holds: start-up never hangs.              *)
(***************************************************************************)
ParseTerminates == <>(pc = "done")

(***************************************************************************)
(* The procedure implements ParseContract: its result, once returned, is  *)
(* one the contract allows for the same inputs.                            *)
(***************************************************************************)
ContractIn(i) ==
    [adbOk |-> i.adbOk, optOk |-> i.optOk, help |-> i.help, fullHelp |-> i.fullHelp,
     level |-> ParseLevelStr(i.level), serial |-> i.serial, devices |-> i.devices]

Contract == INSTANCE ParseContract
                WITH in <- ContractIn(in), Inputs <- {ContractIn(i) : i \in Inputs},
                     outcome <- IF pc = "done" THEN result ELSE Pending
ImplementsContract == Contract!Spec
=============================================================================
