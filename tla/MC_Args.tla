------------------------------- MODULE MC_Args -------------------------------
(* Instantiates Args for two devices and widths scaled down: usize of 5    *)
(* bits (32), minimums 4 and 2 standing for 128 MiB and 64 KiB, an        *)
(* unsigned choice of 3 bits.                                              *)
EXTENDS Args

CONSTANTS s1, s2

MCSerials == {s1, s2}

\* list_devices answers: none, one online, one offline, two online, one of
\* each (the order of adb's listing kept).
MCDeviceLists ==
    { <<>>,
      <<[serial |-> s1, status |-> "Device"]>>,
      <<[serial |-> s1, status |-> "Offline"]>>,
      <<[serial |-> s1, status |-> "Device"], [serial |-> s2, status |-> "Device"]>>,
      <<[serial |-> s1, status |-> "Unauthorized"], [serial |-> s2, status |-> "Device"]>> }

\* Answers a user gives at the prompt, each followed by EOF: a valid one
\* after an out-of-range one and a wrapped negative one.
MCAnswers == { <<2>>, <<3, -1, 1>> }
\* Answers with no valid choice: EOF at once (choice keeps its initial 1,
\* so device 1 is taken), a word, a number out of range then EOF.
MCBadAnswers == { <<>>, <<Junk, 1>>, <<0>> }

MCCacheArgs == {0, 5, 8}
MCPageArgs  == {2, 3}
MCNegCacheArgs == {-1, 5}
=============================================================================
