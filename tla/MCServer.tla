------------------------------ MODULE MCServer ------------------------------
(* Small instances of the server for TLC.                                  *)
EXTENDS Server

Two == 1..2
First == {1}
Several == {"train", "tune", "bench"}
Nothing == {}

\* Jobs or videos, and a move beside either: they share the process, the rows'
\* lock and what goes wrong, and neither looks at the other's rows.
NoJobs == starters = {} /\ \A p \in Place : db[p].job = NoRows.job
NoNewVideos == deleting = {} /\ \A p \in Place : db[p].film \in {NoRows.film, FirstRows.film}
EitherKind == NoJobs \/ NoNewVideos
=============================================================================
