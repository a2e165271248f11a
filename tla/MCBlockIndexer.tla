--------------------------- MODULE MCBlockIndexer ---------------------------
(***************************************************************************)
(* Instances of BlockIndexer for TLC.  Blocks are named a1, a2, ... on the *)
(* chain first followed and b2, b3 on its fork; the chains are small       *)
(* enough for every interleaving of two workers with the handlers.         *)
(***************************************************************************)
EXTENDS BlockIndexer, TLC

CONSTANTS a1, a2, a3, a4, b2, b3, t1, t2, t3, w1, w2

ThePast == a1 :> {a1} @@ a2 :> {a1, a2} @@ a3 :> {a1, a2, a3} @@ a4 :> {a1, a2, a3, a4}
             @@ b2 :> {a1, b2} @@ b3 :> {a1, b2, b3}

\* The slots of a2 and b2 collide; a transaction of a2 is in b3 as well
TheSlot == a1 :> 1 @@ a2 :> 2 @@ a3 :> 3 @@ a4 :> 5 @@ b2 :> 2 @@ b3 :> 4
TheTxs == a1 :> << >> @@ a2 :> <<t1, t2>> @@ a3 :> <<t3>> @@ a4 :> <<t2>> @@ b2 :> <<t3>> @@ b3 :> <<t1>>

On(f, S) == [b \in S |-> f[b]]

ShortFork  == {a1, a2, b2, b3}
Line       == {a1, a2, a3, a4}

ShortSlot == On(TheSlot, ShortFork)
ShortPast == On(ThePast, ShortFork)
ShortTxs  == On(TheTxs, ShortFork)
LineSlot  == On(TheSlot, Line)
LinePast  == On(ThePast, Line)
LineTxs   == On(TheTxs, Line)

\* Blocks of at most one transaction
LightTxs == a1 :> << >> @@ a2 :> <<t1>> @@ b2 :> << >> @@ b3 :> <<t1>>

Fourth == {<<w1, a2>>}

WorkerSymmetry == Permutations(Workers)
=============================================================================
