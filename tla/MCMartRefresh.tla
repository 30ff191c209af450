---------------------------- MODULE MCMartRefresh ----------------------------
(* Instances of MartRefresh for TLC: which marts, workers and jobs.        *)
EXTENDS MartRefresh, TLC

CONSTANTS w1, w2

\* Two messages of one group and one of another.
MCGroup == [x \in Messages |-> IF x <= 2 THEN "g1" ELSE "g2"]

SumReplace == <<"sum", "replace">>
EveryKind  == <<"sum", "replace", "bucket", "ignore">>

\* The watcher thread beside an ingest and a plain backfill.
WatchAndIngest == (w1 :> {"cycle", "touch"}) @@ (w2 :> {"ingest", "backfill"})
\* One process at a time, every job.
OneOfAll       == (w1 :> JobKinds)
=============================================================================
