---------------------------- MODULE MC_ArgsLegacy ----------------------------
(* Instantiates ArgsLegacy for two devices, usize of 5 bits, an unsigned   *)
(* choice of 3 bits.                                                       *)
EXTENDS ArgsLegacy

CONSTANTS s1, s2

Dev(s, st) == [serial |-> s, status |-> st]

\* What `adb devices` prints: the header, device lines in adb's order, and
\* at times the blank line that ends the listing.
MCOutputs ==
    { <<Header>>,
      <<Header, Dev(s1, "offline")>>,
      <<Header, Dev(s1, "device"), Malformed>>,
      <<Header, Dev(s1, "unauthorized"), Dev(s2, "device")>>,
      <<Header, Dev(s1, "device"), Dev(s2, "device"), Malformed>> }

MCAnswers == { <<2>>, <<3, -1, 1>> }
MCCacheArgs == {500, -1}
=============================================================================
