---------------------------- MODULE ParseContract ----------------------------
(***************************************************************************)
(* What option parsing promises its caller (main), stated without the      *)
(* order of its steps: given the inputs of one start of the program (adb  *)
(* server up or not, the command line, the devices adb lists), parse      *)
(* decides once, and its decision is                                       *)
(*   - Exit 1 when adb cannot be started or the command line is invalid,   *)
(*   - Exit 0 when help was asked for,                                     *)
(*   - Exit 1 when the log level is invalid or no usable device is found,  *)
(*   - otherwise options naming a device adb lists as online ("device"),   *)
(*     the one given by --serial / ANDROID_SERIAL when one was given, and  *)
(*     the log level --log-level names (warn when none is given).          *)
(* A decision may also be a process abort (Abort).  Module Args, the parse *)
(* procedure step by step, is checked to implement this.                   *)
(***************************************************************************)
EXTENDS Naturals, Sequences

CONSTANTS
    Inputs,     \* the inputs one start of the program may see; their
                \* level is the set of log levels the level word names
    NoSerial,   \* no serial given
    ListError,  \* list_devices failed
    Pending,    \* not decided yet
    Abort       \* the process aborted while deciding

VARIABLES in, outcome

Exit(status) == [kind |-> "exit", status |-> status]

\* The serials a device list shows online.
OnlineSet(devs) ==
    IF devs = ListError THEN {}
    ELSE {devs[k].serial : k \in {k \in DOMAIN devs : devs[k].status = "Device"}}

\* The devices parse may settle on for inputs i.
Candidates(i) ==
    IF i.serial = NoSerial THEN OnlineSet(i.devices)
    ELSE {i.serial} \cap OnlineSet(i.devices)

Allowed(i, o) ==
    CASE ~i.adbOk \/ ~i.optOk  -> o = Exit(1)
      [] i.help \/ i.fullHelp  -> o = Exit(0)
      [] i.level = {}          -> o = Exit(1)
      [] Candidates(i) = {}    -> o = Exit(1)
      [] OTHER                 -> \/ o = Abort
                                  \/ /\ o.kind = "opt"
                                     /\ o.serial \in Candidates(i)
                                     /\ o.log_level \in i.level

Init == in \in Inputs /\ outcome = Pending

Decide ==
    /\ outcome = Pending
    /\ outcome' # Pending
    /\ Allowed(in, outcome')
    /\ UNCHANGED in

Spec == Init /\ [][Decide]_<<in, outcome>>
=============================================================================
