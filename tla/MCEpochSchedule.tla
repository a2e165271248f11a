--------------------------- MODULE MCEpochSchedule ---------------------------
(***************************************************************************)
(* Slots on both sides of every boundary of an epoch or an era, and the    *)
(* slots the boundary test looks for.                                      *)
(***************************************************************************)
EXTENDS EpochSchedule

CONSTANTS w1, w2

TwoWorkers == {w1, w2}

Edges == {21600, 4492800, 4752000, 4924800, 16588738, 16588800, 23068800, 39916800,
          72316800, 126748800, 133660800}

EdgeSlots == {0} \cup Edges \cup {s - 1 : s \in Edges}
=============================================================================
