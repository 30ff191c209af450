---------------------------- MODULE MCServerMemory ----------------------------
(* Instances of ServerMemory for TLC.                                      *)
EXTENDS ServerMemory

CONSTANTS r1, r2, a, b

\* One time zone.
Itself == [s \in {a, b} |-> s]
=============================================================================
