----------------------------- MODULE MCTailIngest -----------------------------
(* Instances of TailIngest for TLC.                                        *)
EXTENDS TailIngest

CONSTANTS s1, s2, d1

MessagesOnly == {"message"}
AnyLine      == {"message", "other"}
=============================================================================
