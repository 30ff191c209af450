----------------------------- MODULE MCNudgeGate -----------------------------
(* Instances of NudgeGate for TLC.                                         *)
EXTENDS NudgeGate

CONSTANTS h1, h2, server, s1, s2, n1, n2

TwoAndOne == {<<s1, n1>>, <<s1, n2>>, <<s2, n1>>}
=============================================================================
