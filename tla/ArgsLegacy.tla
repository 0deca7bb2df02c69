----------------------------- MODULE ArgsLegacy -----------------------------
(***************************************************************************)
(* adbfsm::args::parse (source/args.hpp), the earlier, synchronous version *)
(* of the start-up procedure: no adb start, the devices read from the     *)
(* text `adb devices` prints, the cache size passed on as given.           *)
(*                                                                         *)
(* The output of `adb devices` is a sequence of lines: Header ("List of    *)
(* devices attached"), a device line [serial, status] with status the     *)
(* word adb prints, or Malformed (fewer than two words, e.g. a blank      *)
(* line).  cmd::exec's return code is asserted to be 0: with NDEBUG the   *)
(* output of a failed adb is read as it is (empty), without it the        *)
(* process aborts; ExecFailure says which the build does.                 *)
(***************************************************************************)
EXTENDS Naturals, Integers, Sequences

CONSTANTS
    Serials, NoSerial,
    Outputs,        \* what `adb devices` may print
    Header, Malformed,
    StdinInputs, Junk,
    LevelArgs,      \* words log_level may hold after fuse_opt_parse ("warn" unless given)
    CacheArgs,      \* values --cachesize=%d may give
    SizeBits, ChoiceBits,
    ExecFailure,    \* {"empty"} with NDEBUG, {"abort"} without
    Pending, Abort

USize == 2^SizeBits

\* The spdlog::level::level_enum value parse_level_str gives for each word.
LevelEnum ==
    [trace |-> "trace", debug |-> "debug", info |-> "info", warn |-> "warn",
     error |-> "err", critical |-> "critical", off |-> "off"]

\* parse_level_str: the level a word names, std::optional as a set of at
\* most one.
ParseLevelStr(w) == IF w \in DOMAIN LevelEnum THEN {LevelEnum[w]} ELSE {}

LevelNames == {LevelEnum[w] : w \in DOMAIN LevelEnum}

Inputs ==
    [execOk: BOOLEAN, optOk: BOOLEAN, help: BOOLEAN, fullHelp: BOOLEAN, level: LevelArgs,
     serial: Serials \cup {NoSerial}, output: Outputs, stdin: StdinInputs, cache: CacheArgs]

Exit(status) == [kind |-> "exit", status |-> status]

\* ParsedOpt, with the log file and the rescan flag left out.
ParsedOpt(serial, level, cache) ==
    [kind |-> "opt", serial |-> serial, log_level |-> level, cache |-> cache]

IsDeviceLine(l) == l # Header /\ l # Malformed

VARIABLES in, pc, owned, online, pos, failed, choice, chosen, result

vars == <<in, pc, owned, online, pos, failed, choice, chosen, result>>

\* The lines cmd::exec({"adb", "devices"}) hands back: the output when adb
\* succeeds, nothing (NDEBUG) or an abort at the assert when it fails.
ExecOutcomes(i) == IF i.execOk THEN {i.output} ELSE {IF f = "abort" THEN Abort ELSE <<>> : f \in ExecFailure}

\* The loop of check_serial from line k: a line of fewer than two words
\* ends it with NotExist, the line of the serial ends it with its status.
RECURSIVE CheckSerialLines(_, _, _)
CheckSerialLines(lines, s, k) ==
    CASE k > Len(lines)              -> "NotExist"
      [] lines[k] = Malformed        -> "NotExist"
      [] lines[k] = Header           -> CheckSerialLines(lines, s, k + 1)
      [] lines[k].serial # s         -> CheckSerialLines(lines, s, k + 1)
      [] lines[k].status \in {"offline", "unauthorized", "device"} -> lines[k].status
      [] OTHER                       -> "NotExist"

\* Mutant of GetSerialLines: every listed serial taken, whatever its status.
RECURSIVE GetSerialAny(_, _)
GetSerialAny(lines, k) ==
    IF k > Len(lines) \/ lines[k] = Malformed THEN <<>>
    ELSE IF lines[k] # Header THEN <<lines[k].serial>> \o GetSerialAny(lines, k + 1)
    ELSE GetSerialAny(lines, k + 1)

\* The loop of get_serial from line k (the first line skipped): stop at a
\* line of fewer than two words, keep the serials whose status is device.
RECURSIVE GetSerialLines(_, _)
GetSerialLines(lines, k) ==
    IF k > Len(lines) \/ lines[k] = Malformed THEN <<>>
    ELSE IF lines[k] # Header /\ lines[k].status = "device"
         THEN <<lines[k].serial>> \o GetSerialLines(lines, k + 1)
         ELSE GetSerialLines(lines, k + 1)

\* Mutant of Extract: a negative number stored as it is.
ExtractNoWrap(tok) == IF tok = Junk THEN 0 ELSE tok

\* std::cin >> choice, as in module Args.
Extract(tok) == IF tok = Junk THEN 0 ELSE tok % (2^ChoiceBits)

-----------------------------------------------------------------------------
Init ==
    /\ in \in Inputs
    /\ pc = "opt"
    /\ owned = FALSE
    /\ online = <<>>
    /\ pos = 1
    /\ failed = FALSE
    /\ choice = 1
    /\ chosen = NoSerial
    /\ result = Pending

ExitWith(status, free) ==
    /\ pc' = "done"
    /\ result' = Exit(status)
    /\ owned' = (owned /\ ~free)

OptParse ==
    /\ pc = "opt"
    /\ IF in.optOk THEN pc' = "help" /\ owned' = TRUE /\ UNCHANGED result
       ELSE ExitWith(1, FALSE)
    /\ UNCHANGED <<in, online, pos, failed, choice, chosen>>

\* Mutant of Help: --full-help returns without freeing.
HelpLeaks ==
    /\ pc = "help"
    /\ CASE in.help     -> ExitWith(0, TRUE)
         [] in.fullHelp -> ExitWith(0, FALSE)
         [] OTHER       -> pc' = "level" /\ UNCHANGED <<owned, result>>
    /\ UNCHANGED <<in, online, pos, failed, choice, chosen>>

Help ==
    /\ pc = "help"
    /\ IF in.help \/ in.fullHelp THEN ExitWith(0, TRUE)
       ELSE pc' = "level" /\ UNCHANGED <<owned, result>>
    /\ UNCHANGED <<in, online, pos, failed, choice, chosen>>

LogLevel ==
    /\ pc = "level"
    /\ IF ParseLevelStr(in.level) # {} THEN pc' = "serial" /\ UNCHANGED <<owned, result>>
       ELSE ExitWith(1, TRUE)
    /\ UNCHANGED <<in, online, pos, failed, choice, chosen>>

\* get_serial(): run adb, skip the first line, collect; prompt when several.
GetSerial ==
    /\ pc = "serial"
    /\ in.serial = NoSerial
    /\ \E out \in ExecOutcomes(in) :
         IF out = Abort THEN pc' = "done" /\ result' = Abort /\ UNCHANGED <<owned, online, chosen>>
         ELSE LET on == GetSerialLines(out, 2)
              IN  CASE Len(on) = 0 -> ExitWith(1, TRUE) /\ UNCHANGED <<online, chosen>>
                    [] Len(on) = 1 -> pc' = "finish" /\ chosen' = on[1]
                                      /\ UNCHANGED <<owned, result, online>>
                    [] OTHER       -> pc' = "prompt" /\ online' = on
                                      /\ UNCHANGED <<owned, result, chosen>>
    /\ UNCHANGED <<in, pos, failed, choice>>

\* check_serial(serial) must say Device.
CheckGivenSerial ==
    /\ pc = "serial"
    /\ in.serial # NoSerial
    /\ \E out \in ExecOutcomes(in) :
         CASE out = Abort -> pc' = "done" /\ result' = Abort /\ UNCHANGED <<owned, chosen>>
           [] CheckSerialLines(out, in.serial, 1) = "device" ->
                 pc' = "finish" /\ chosen' = in.serial /\ UNCHANGED <<owned, result>>
           [] OTHER -> ExitWith(1, TRUE) /\ UNCHANGED chosen
    /\ UNCHANGED <<in, online, pos, failed, choice>>

\* One turn of get_serial's prompt loop (source/args.hpp 185-191).
Prompt ==
    /\ pc = "prompt"
    /\ LET eof   == pos > Len(in.stdin)
           fails == failed \/ eof \/ in.stdin[pos] = Junk
           c     == IF failed \/ eof THEN choice ELSE Extract(in.stdin[pos])
       IN  /\ choice' = c
           /\ failed' = fails
           /\ pos' = IF eof \/ failed THEN pos ELSE pos + 1
           /\ IF c > 0 /\ c <= Len(online)
              THEN pc' = "finish" /\ chosen' = online[c]
              ELSE UNCHANGED <<pc, chosen>>
    /\ UNCHANGED <<in, owned, online, result>>

\* return ParseResult::Opt{...}: the cache size cast to usize as it is.
Finish ==
    /\ pc = "finish"
    /\ pc' = "done"
    /\ \E level \in ParseLevelStr(in.level) :
          result' = ParsedOpt(chosen, level, in.cache % USize)
    /\ UNCHANGED <<in, owned, online, pos, failed, choice, chosen>>

Returned == pc = "done" /\ UNCHANGED vars

Next ==
    \/ OptParse \/ Help \/ LogLevel \/ GetSerial \/ CheckGivenSerial
    \/ Prompt \/ Finish \/ Returned

Spec == Init /\ [][Next]_vars /\ WF_vars(Next)

-----------------------------------------------------------------------------
(* Properties                                                              *)

OptResults == {r \in {result} : r # Pending /\ r # Abort /\ r.kind = "opt"}

TypeOK ==
    /\ in \in Inputs
    /\ pc \in {"opt", "help", "level", "serial", "prompt", "finish", "done"}
    /\ owned \in BOOLEAN
    /\ online \in Seq(Serials)
    /\ pos \in Nat \ {0}
    /\ failed \in BOOLEAN
    /\ choice \in 0 .. 2^ChoiceBits - 1
    /\ chosen \in Serials \cup {NoSerial}
    /\ result \in {Pending, Abort, Exit(0), Exit(1)}
                    \cup [kind: {"opt"}, serial: Serials, log_level: LevelNames,
                          cache: 0 .. USize - 1]

(***************************************************************************)
(* As in module Args: the fuse_args are freed on every Exit path after a  *)
(* successful fuse_opt_parse and handed over with Opt.                     *)
(***************************************************************************)
ArgsOwnership ==
    pc = "done" /\ result # Abort => (owned <=> OptResults # {})

\* The device list the text shows, in ParseContract's terms.
Listing(i) ==
    IF ~i.execOk THEN <<>>
    ELSE LET ls == SelectSeq(i.output, IsDeviceLine)
         IN  [k \in DOMAIN ls |->
                [serial |-> ls[k].serial,
                 status |-> IF ls[k].status = "device" THEN "Device" ELSE ls[k].status]]

ContractIn(i) ==
    [adbOk |-> TRUE, optOk |-> i.optOk, help |-> i.help, fullHelp |-> i.fullHelp,
     level |-> ParseLevelStr(i.level), serial |-> i.serial, devices |-> Listing(i)]

(***************************************************************************)
(* The earlier parse implements the same contract as the current one: it  *)
(* settles on a device `adb devices` lists as "device", the given one if  *)
(* any, and exits 1 when there is none (adb's start is not its business: *)
(* it never fails here).                                                   *)
(***************************************************************************)
Contract == INSTANCE ParseContract
                WITH in <- ContractIn(in), Inputs <- {ContractIn(i) : i \in Inputs},
                     ListError <- Malformed,
                     outcome <- IF pc = "done" THEN result ELSE Pending
ImplementsContract == Contract!Spec
=============================================================================
