----------------------------- MODULE MCStateQuery -----------------------------
(***************************************************************************)
(* An instance of StateQuery for TLC: one pool of the first Shelley slot   *)
(* and one registered late, epochs on both sides of the check's limits.    *)
(***************************************************************************)
EXTENDS StateQuery

TwoPools == {"p", "q"}
TheEpochs == {207, 401, 402}
TheSlots == {4492799, 4492800, 89856000}
EarlyAndLate == [p \in TwoPools |-> IF p = "p" THEN 4492800 ELSE 89856000]
Joined == [e \in TheEpochs |-> IF e = 402 THEN TwoPools ELSE {"p"}]
=============================================================================
