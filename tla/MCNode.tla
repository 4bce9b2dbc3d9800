-------------------------------- MODULE MCNode --------------------------------
(***************************************************************************)
(* Instances of NodeParts.  Three runtimes, of which the first has no      *)
(* metadata API and the last offers a format this build cannot read.       *)
(***************************************************************************)
EXTENDS NodeParts

CONSTANTS w1, w2, p1, p2, g1, g2

ThreeOffers(spec) == CASE spec = 1 -> {}
                       [] spec = 2 -> {14, 15}
                       [] OTHER    -> {14, 15, 16}

(***************************************************************************)
(* Blocks begin with the inherent that sets the timestamp.  Of the others  *)
(* one leaves no events, one has arguments that cannot be decoded and one  *)
(* a fee, and one tries to set another timestamp.                          *)
(***************************************************************************)
Extrinsic(call, origin, raw, ends, pays, now) ==
    [call |-> call, origin |-> origin, raw |-> raw, ends |-> ends, pays |-> pays, now |-> now]

Inherent == Extrinsic("Timestamp.set", "none", FALSE, "ExtrinsicSuccess", Nothing, 7)

Others == {Extrinsic("Other", "none", FALSE, "silently", Nothing, Nothing),
           Extrinsic("Other", "account", TRUE, "ExtrinsicSuccess", 5, Nothing),
           Extrinsic("Other", "other", FALSE, "ExtrinsicFailed", Raw, Nothing),
           Extrinsic("Timestamp.set", "account", FALSE, "ExtrinsicFailed", 6, 9)}

AllBodies ==
    {<<>>, <<Inherent>>} \cup {<<Inherent, x>> : x \in Others}
    \cup {<<Inherent, x, y>> : x, y \in Others}
=============================================================================
