------------------------- MODULE BlockIndexerProofs -------------------------
(***************************************************************************)
(* Proofs about BlockIndexer, for every set of blocks and forks, every     *)
(* number of workers, capacity and bound.                                  *)
(***************************************************************************)
EXTENDS BlockIndexer, FiniteSetTheorems, TLAPS

-----------------------------------------------------------------------------
(* Sequences as sets                                                       *)

\* The elements of a sequence with one more at its end
LEMMA ToSetAppend ==
    ASSUME NEW S, NEW s \in Seq(S), NEW e \in S
    PROVE  /\ Append(s, e) \in Seq(S)
           /\ ToSet(Append(s, e)) = ToSet(s) \cup {e}
<1>1. /\ Append(s, e) \in Seq(S) /\ Len(s) \in Nat
      /\ Len(Append(s, e)) = Len(s) + 1
      /\ Append(s, e)[Len(s) + 1] = e
      /\ \A i \in 1 .. Len(s) : Append(s, e)[i] = s[i]
  OBVIOUS
<1>2. DOMAIN s = 1 .. Len(s) /\ DOMAIN Append(s, e) = 1 .. Len(s) + 1
  BY <1>1
<1>3. 1 .. Len(s) + 1 = 1 .. Len(s) \cup {Len(s) + 1}
  BY <1>1
<1>4. ASSUME NEW x \in ToSet(Append(s, e)) PROVE x \in ToSet(s) \cup {e}
  BY <1>1, <1>2, <1>3 DEF ToSet
<1>5. ASSUME NEW x \in ToSet(s) PROVE x \in ToSet(Append(s, e))
  BY <1>1, <1>2, <1>3 DEF ToSet
<1>6. e \in ToSet(Append(s, e))
  BY <1>1, <1>2, <1>3 DEF ToSet
<1>7. QED
  BY <1>1, <1>4, <1>5, <1>6

\* Taking the head off a sequence loses no other element
LEMMA ToSetTail ==
    ASSUME NEW S, NEW s \in Seq(S), s # << >>
    PROVE  /\ Head(s) \in S
           /\ Tail(s) \in Seq(S)
           /\ ToSet(s) = ToSet(Tail(s)) \cup {Head(s)}
<1>1. Head(s) \in S /\ Tail(s) \in Seq(S) /\ Len(s) \in Nat \ {0}
  OBVIOUS
<1>2. Len(Tail(s)) = Len(s) - 1 /\ \A i \in 1 .. Len(s) - 1 : Tail(s)[i] = s[i + 1]
  OBVIOUS
<1>3. ASSUME NEW x \in ToSet(s) PROVE x = Head(s) \/ x \in ToSet(Tail(s))
  <2>1. PICK i \in 1 .. Len(s) : x = s[i]
    BY DEF ToSet
  <2>2. CASE i = 1
    BY <1>1, <2>1, <2>2
  <2>3. CASE i # 1
    <3>1. i - 1 \in 1 .. Len(Tail(s)) /\ Tail(s)[i - 1] = x
      BY <1>1, <1>2, <2>1, <2>3
    <3>2. i - 1 \in DOMAIN Tail(s)
      BY <1>1, <3>1
    <3>3. x \in ToSet(Tail(s))
      BY <3>1, <3>2 DEF ToSet
    <3>4. QED
      BY <3>3
  <2>4. QED
    BY <2>1, <2>2, <2>3, Zenon
<1>4. ASSUME NEW x \in ToSet(Tail(s)) PROVE x \in ToSet(s)
  <2>1. PICK i \in 1 .. Len(Tail(s)) : x = Tail(s)[i]
    BY <1>1 DEF ToSet
  <2>2. i + 1 \in 1 .. Len(s) /\ s[i + 1] = x
    BY <1>1, <1>2, <2>1
  <2>3. QED
    BY <2>2 DEF ToSet
<1>5. Head(s) \in ToSet(s)
  BY <1>1 DEF ToSet
<1>6. QED
  BY <1>1, <1>3, <1>4, <1>5

-----------------------------------------------------------------------------
(* Type correctness                                                        *)

\* What Insert and InsertTx yield
LEMMA InsertType ==
    ASSUME NEW b \in Blocks, rows \in SUBSET Blocks
    PROVE  Insert(b) \in SUBSET Blocks /\ rows \subseteq Insert(b)
BY DEF Insert

LEMMA InsertTxType ==
    ASSUME NEW b \in Blocks, NEW t \in Txs, txRow \in [Txs -> Blocks \cup {NoBlock}]
    PROVE  InsertTx(t, b) \in [Txs -> Blocks \cup {NoBlock}]
BY DEF InsertTx

\* A worker in an attempt holds a block
LEMMA InAttempt ==
    ASSUME TypeOK, NEW w \in Workers, pc[w] \in {"check", "header", "txs"}
    PROVE  /\ blk[w] \in Blocks
           /\ txi[w] \in Nat \ {0}
           /\ TxSeq[blk[w]] \in Seq(Txs)
           /\ ~AllTxsStored(w) => TxSeq[blk[w]][txi[w]] \in Txs
           /\ proc # "down"
<1>1. blk[w] \in Blocks \cup {NoBlock} /\ blk[w] # NoBlock /\ proc # "down"
  BY DEF TypeOK, VarTypes, AttemptHasBlock, DownIsEmpty
<1>2. txi[w] \in Nat \ {0}
  BY DEF TypeOK, VarTypes
<1>3. TxSeq[blk[w]] \in Seq(Txs)
  BY <1>1, PipelineAssumption
<1>4. QED
  BY <1>1, <1>2, <1>3 DEF AllTxsStored

\* A step that fails changes the tables within their types only
LEMMA StepFailsType ==
    ASSUME TypeOK, NEW w \in Workers, StepFails(w)
    PROVE  /\ rows' \in SUBSET Blocks /\ rows \subseteq rows'
           /\ txRow' \in [Txs -> Blocks \cup {NoBlock}]
           /\ pc[w] \in {"check", "header", "txs"}
           /\ blk[w] \in Blocks /\ proc # "down"
           /\ \A t \in Txs : txRow[t] # NoBlock => txRow'[t] = txRow[t]
<1> USE DEF StepFails
<1>0. pc[w] \in {"check", "header", "txs"}
  OBVIOUS
<1>a. blk[w] \in Blocks /\ proc # "down"
  BY <1>0, InAttempt
<1>b. rows \in SUBSET Blocks /\ txRow \in [Txs -> Blocks \cup {NoBlock}]
  BY DEF TypeOK, VarTypes
<1>1. CASE pc[w] = "check"
  BY <1>0, <1>a, <1>b, <1>1 DEF tables
<1>2. CASE pc[w] = "header"
  BY <1>0, <1>a, <1>b, <1>2, InsertType
<1>3. CASE pc[w] = "txs"
  <2>1. TxSeq[blk[w]][txi[w]] \in Txs
    BY <1>0, <1>3, InAttempt
  <2>2. InsertTx(TxSeq[blk[w]][txi[w]], blk[w]) \in [Txs -> Blocks \cup {NoBlock}]
    BY <1>a, <1>b, <2>1, InsertTxType
  <2>3. \A t \in Txs : txRow[t] # NoBlock
                         => InsertTx(TxSeq[blk[w]][txi[w]], blk[w])[t] = txRow[t]
    BY <1>b DEF InsertTx
  <2>4. QED
    BY <1>0, <1>a, <1>b, <1>3, <2>2, <2>3
<1>4. QED
  BY <1>0, <1>1, <1>2, <1>3

\* A rollback takes effect, with or without a reply
RolledBack ==
    /\ \E p \in Points : RollbackRequest(p) /\ RollbackTo(p)
    /\ link' \in {link, "failed"}

LEMMA HandlerCases ==
    ASSUME Handler
    PROVE  ChainSyncRollForward \/ RolledBack \/ RollbackFails
BY Zenon
   DEF Handler, Rollback, ChainSyncRollBackward, RollbackReplyLost, RolledBack

\* The next-state relation, one disjunct for each action
LEMMA StepCases ==
    ASSUME Next
    PROVE  \/ SwitchChain \/ Start \/ Shutdown \/ Exit
           \/ ChainSyncRollForward \/ RolledBack \/ RollbackFails
           \/ EnqueueWaiting \/ EnqueueTimeout \/ EnqueueCancelled
           \/ \E w \in Workers :
                \/ Take(w) \/ Preflight(w) \/ RetryBlock(w) \/ StoreHeader(w)
                \/ StoreTx(w) \/ Finish(w) \/ GiveUp(w) \/ TryLastChance(w)
                \/ WorkerStop(w)
BY HandlerCases DEF Next, Enqueue, Worker, Attempt

LEMMA TypeInit == Init => TypeOK
<1> SUFFICES ASSUME Init PROVE TypeOK
  OBVIOUS
<1> USE DEF Init
<1>1. crashes \in 0 .. MaxCrashes /\ tries \in [Workers -> 0 .. MaxRetries + 1]
  BY PipelineAssumption
<1>2. queue \in Seq(Blocks) /\ txi \in [Workers -> Nat \ {0}]
  OBVIOUS
<1>3. VarTypes
  BY <1>1, <1>2 DEF VarTypes, Points
<1>4. AttemptHasBlock /\ DownIsEmpty
  BY DEF AttemptHasBlock, DownIsEmpty
<1>5. QED
  BY <1>3, <1>4 DEF TypeOK

LEMMA TypeStep == TypeOK /\ [Next]_vars => TypeOK'
<1> SUFFICES ASSUME TypeOK, [Next]_vars PROVE TypeOK'
  OBVIOUS
<1>0. NoBlock \notin Blocks
  BY ChainAssumption
<1>00. \A p \in Points : ChainTo(p) \subseteq Blocks
  BY ChainAssumption DEF Points, ChainTo
<1> USE <1>0, PipelineAssumption
    DEF TypeOK, VarTypes, AttemptHasBlock, DownIsEmpty, Points, node, workers, tables,
        reports
<1>1. CASE SwitchChain
  BY <1>1 DEF SwitchChain
<1>2. CASE Start
  <2>1. cursor' \in Points
    BY <1>2 DEF Start, ResumeFrom, Intersection
  <2>2. skipped' \in SUBSET Blocks
    BY <1>00, <1>2, <2>1 DEF Start
  <2>3. QED
    BY <1>2, <2>1, <2>2 DEF Start, LaunchedWorkers
<1>3. CASE ChainSyncRollForward
  <2>1. PICK b \in Blocks :
          /\ cursor' = b
          /\ \/ queue' = Append(queue, b) /\ UNCHANGED waiting
             \/ waiting' = b /\ UNCHANGED queue
    BY <1>3, Zenon DEF ChainSyncRollForward
  <2>2. Append(queue, b) \in Seq(Blocks)
    BY ToSetAppend
  <2>3. queue' \in Seq(Blocks) /\ waiting' \in Blocks \cup {NoBlock} /\ cursor' \in Points
    BY <2>1, <2>2
  <2>4. link = "open" /\ proc # "down"
    BY <1>3 DEF ChainSyncRollForward, Listening
  <2>5. QED
    BY <1>3, <2>3, <2>4 DEF ChainSyncRollForward
<1>4. CASE EnqueueWaiting
  BY <1>4 DEF EnqueueWaiting
<1>5. CASE EnqueueTimeout
  BY <1>5 DEF EnqueueTimeout
<1>6. CASE EnqueueCancelled
  BY <1>6 DEF EnqueueCancelled
<1>7. CASE RolledBack
  <2>1. PICK p \in Points : RollbackTo(p)
    BY <1>7 DEF RolledBack
  <2>2. rows' \in SUBSET Blocks
    BY <2>1 DEF RollbackTo, RollbackKeeps, RowsUpTo
  <2>3. link = "open" /\ link' \in {link, "failed"}
    BY <1>7 DEF RolledBack, RollbackRequest, Listening
  <2>4. proc # "down" /\ clean' \in BOOLEAN
    BY <2>1, <2>3, Zenon DEF RollbackTo
  <2>5. /\ cursor' \in Points /\ skipped' \in SUBSET Blocks
        /\ rowless' \in SUBSET Blocks /\ inherited' \in SUBSET Blocks /\ resync' \in BOOLEAN
    BY <2>1, <2>2 DEF RollbackTo
  <2>u. UNCHANGED <<nodeTip, proc, waiting, queue, pc, blk, tries, txi, txRow, crashes, failed,
                    acked, torn>>
    BY <2>1 DEF RollbackTo
  <2>6. QED
    BY <2>2, <2>3, <2>4, <2>5, <2>u
<1>8. CASE RollbackFails
  BY <1>8 DEF RollbackFails, RollbackRequest, Listening
<1>9. CASE Shutdown
  BY <1>9 DEF Shutdown
<1>10. CASE Exit
  <2>1. crashes' \in 0 .. MaxCrashes /\ tries' \in [Workers -> 0 .. MaxRetries + 1]
    BY <1>10 DEF Exit
  <2>2. queue' \in Seq(Blocks) /\ txi' \in [Workers -> Nat \ {0}]
    BY <1>10 DEF Exit
  <2>3. AttemptHasBlock' /\ DownIsEmpty'
    BY <1>10 DEF Exit
  <2>4. QED
    BY <1>10, <2>1, <2>2, <2>3 DEF Exit
<1>11. ASSUME NEW w \in Workers, Take(w) PROVE TypeOK'
  <2>1. Head(queue) \in Blocks /\ queue' \in Seq(Blocks)
    BY <1>11, ToSetTail DEF Take
  <2>2. tries' \in [Workers -> 0 .. MaxRetries + 1]
    BY <1>11 DEF Take
  <2>3. blk' \in [Workers -> Blocks \cup {NoBlock}] /\ AttemptHasBlock' /\ proc # "down"
    BY <1>11, <2>1 DEF Take
  <2>4. QED
    BY <1>11, <2>1, <2>2, <2>3 DEF Take
<1>12. ASSUME NEW w \in Workers, Preflight(w) PROVE TypeOK'
  BY <1>12 DEF Preflight
<1>13. ASSUME NEW w \in Workers, RetryBlock(w) PROVE TypeOK'
  <2>1. tries[w] + 1 \in 0 .. MaxRetries + 1
    BY <1>13 DEF RetryBlock
  <2>2. tries' \in [Workers -> 0 .. MaxRetries + 1]
    BY <1>13, <2>1 DEF RetryBlock
  <2>3. QED
    BY <1>13, <2>2 DEF RetryBlock
<1>14. ASSUME NEW w \in Workers, StoreHeader(w) PROVE TypeOK'
  <2>1. rows' \in SUBSET Blocks /\ proc # "down"
    BY <1>14, InsertType, InAttempt DEF StoreHeader
  <2>2. txi' \in [Workers -> Nat \ {0}]
    BY <1>14 DEF StoreHeader
  <2>3. /\ rowless' \in SUBSET Blocks
        /\ pc' \in [Workers -> {"exited", "idle", "check", "header", "txs"}]
    <3>1. rowless \in SUBSET Blocks /\ blk[w] \in Blocks
      BY <1>14, InAttempt DEF StoreHeader
    <3>2. rowless' \in SUBSET Blocks
      BY <1>14, <3>1 DEF StoreHeader
    <3>3. pc' \in [Workers -> {"exited", "idle", "check", "header", "txs"}]
      BY <1>14 DEF StoreHeader
    <3>4. QED
      BY <3>2, <3>3
  <2>4. AttemptHasBlock' /\ DownIsEmpty'
    BY <1>14, <2>1 DEF StoreHeader
  <2>u. UNCHANGED <<nodeTip, cursor, resync, proc, link, waiting, queue, blk, tries, txRow,
                    crashes, skipped, failed, acked, clean, inherited, torn>>
    BY <1>14 DEF StoreHeader
  <2>5. VarTypes'
    BY <2>u, <2>1, <2>2, <2>3
  <2>6. QED
    BY <2>4, <2>5
<1>15. ASSUME NEW w \in Workers, StoreTx(w) PROVE TypeOK'
  <2>1. blk[w] \in Blocks /\ TxSeq[blk[w]][txi[w]] \in Txs /\ txi[w] \in Nat
    BY <1>15, InAttempt DEF StoreTx
  <2>2. txRow' \in [Txs -> Blocks \cup {NoBlock}] /\ torn' \in SUBSET Txs
    <3>1. txRow \in [Txs -> Blocks \cup {NoBlock}] /\ torn \in SUBSET Txs
      OBVIOUS
    <3>2. CASE txRow' = InsertTx(TxSeq[blk[w]][txi[w]], blk[w]) /\ UNCHANGED torn
      BY <2>1, <3>1, <3>2, InsertTxType
    <3>3. CASE torn' = torn \cup {TxSeq[blk[w]][txi[w]]} /\ UNCHANGED txRow
      BY <2>1, <3>1, <3>3
    <3>4. QED
      BY <1>15, <3>2, <3>3 DEF StoreTx
  <2>3. txi[w] + 1 \in Nat \ {0}
    BY <2>1
  <2>4. txi' \in [Workers -> Nat \ {0}]
    BY <1>15, <2>3 DEF StoreTx
  <2>5. VarTypes'
    BY <1>15, <2>2, <2>4, SMT DEF StoreTx
  <2>6. AttemptHasBlock' /\ DownIsEmpty'
    BY <1>15, SMT DEF StoreTx
  <2>7. QED
    BY <2>5, <2>6
<1>16. ASSUME NEW w \in Workers, Finish(w) PROVE TypeOK'
  <2>1. acked' \in SUBSET Blocks /\ AttemptHasBlock' /\ DownIsEmpty'
    BY <1>16, InAttempt DEF Finish
  <2>2. pc' \in [Workers -> {"exited", "idle", "check", "header", "txs"}]
    BY <1>16 DEF Finish
  <2>3. blk' \in [Workers -> Blocks \cup {NoBlock}]
    BY <1>16 DEF Finish
  <2>u. UNCHANGED <<nodeTip, cursor, resync, proc, link, waiting, queue, txi, tries, rows,
                    txRow, crashes, skipped, failed, clean, rowless, inherited, torn>>
    BY <1>16 DEF Finish
  <2>4. VarTypes'
    BY <2>1, <2>2, <2>3, <2>u
  <2>5. QED
    BY <2>1, <2>4
<1>17. ASSUME NEW w \in Workers, GiveUp(w) PROVE TypeOK'
  <2>1. /\ rows' \in SUBSET Blocks /\ txRow' \in [Txs -> Blocks \cup {NoBlock}]
        /\ pc[w] \in {"check", "header", "txs"} /\ blk[w] \in Blocks /\ proc # "down"
    BY <1>17, StepFailsType DEF GiveUp
  <2>2. failed' \in SUBSET Blocks /\ AttemptHasBlock'
    BY <1>17, <2>1 DEF GiveUp
  <2>3. AttemptHasBlock'
    BY <1>17, <2>1 DEF GiveUp
  <2>4. QED
    BY <1>17, <2>1, <2>2, <2>3 DEF GiveUp
<1>18. ASSUME NEW w \in Workers, TryLastChance(w) PROVE TypeOK'
  <2>1. /\ rows' \in SUBSET Blocks /\ txRow' \in [Txs -> Blocks \cup {NoBlock}]
        /\ pc[w] \in {"check", "header", "txs"} /\ blk[w] \in Blocks /\ proc # "down"
    BY <1>18, StepFailsType DEF TryLastChance
  <2>2. tries' \in [Workers -> 0 .. MaxRetries + 1]
    BY <1>18, <2>1 DEF TryLastChance
  <2>3. AttemptHasBlock'
    BY <1>18, <2>1 DEF TryLastChance
  <2>4. QED
    BY <1>18, <2>1, <2>2, <2>3 DEF TryLastChance
<1>19. ASSUME NEW w \in Workers, WorkerStop(w) PROVE TypeOK'
  BY <1>19 DEF WorkerStop
<1>20. CASE UNCHANGED vars
  BY <1>20 DEF vars
<1>21. QED
  BY <1>1, <1>2, <1>3, <1>4, <1>5, <1>6, <1>7, <1>8, <1>9, <1>10, <1>11, <1>12, <1>13, <1>14, <1>15, <1>16, <1>17, <1>18, <1>19, <1>20, StepCases

\* The type invariant holds in every reachable state
THEOREM TypeCorrect == Spec => []TypeOK
<1>1. QED
  BY TypeInit, TypeStep, PTL DEF Spec

-----------------------------------------------------------------------------
(* No block is lost without a trace                                        *)

\* A chain ends above all its blocks, and what is before one of its blocks is
\* part of it.
LEMMA ChainFacts ==
    ASSUME NEW p \in Points
    PROVE  /\ ChainTo(p) \subseteq Blocks
           /\ p \in Blocks => \A c \in ChainTo(p) : Slot[c] <= Slot[p]
BY ChainAssumption DEF ChainTo, Points

LEMMA NoSilentLossStep == TypeOK /\ NoSilentLoss /\ [Next]_vars => NoSilentLoss'
<1> SUFFICES ASSUME TypeOK, NoSilentLoss, [Next]_vars, (proc = "up")',
                    NEW b \in (ChainTo(cursor) \ skipped)'
             PROVE  Accounted(b)'
  BY DEF NoSilentLoss
<1> USE DEF node, workers, tables, reports
<1>t. VarTypes
  BY DEF TypeOK
<1>o. ASSUME proc = "up", cursor' = cursor, skipped' = skipped PROVE Accounted(b)
  BY <1>o DEF NoSilentLoss
<1>1. CASE SwitchChain
  BY <1>1, <1>o DEF SwitchChain, Accounted, Unsettled, SlotTaken
<1>2. CASE Start
  BY <1>2 DEF Start
<1>3. CASE Shutdown
  BY <1>3 DEF Shutdown
<1>4. CASE Exit
  BY <1>4 DEF Exit
<1>5. CASE ChainSyncRollForward
  <2>1. PICK c \in Blocks :
          /\ IsNext(c) /\ cursor' = c
          /\ \/ queue' = Append(queue, c) /\ UNCHANGED waiting
             \/ waiting = NoBlock /\ waiting' = c /\ UNCHANGED queue
    BY <1>5, Zenon DEF ChainSyncRollForward, Listening
  <2>2. b = c \/ b \in ChainTo(cursor) \ skipped
    BY <1>5, <2>1 DEF ChainSyncRollForward, IsNext, ChainTo
  <2>3. ToSet(queue) \subseteq ToSet(queue)' /\ (c \in ToSet(queue)' \/ waiting' = c)
    <3>1. ToSet(Append(queue, c)) = ToSet(queue) \cup {c}
      BY <1>t, ToSetAppend DEF VarTypes
    <3>2. QED
      BY <2>1, <3>1
  <2>4. CASE b = c
    BY <2>3, <2>4 DEF Accounted, Unsettled
  <2>5. CASE b \in ChainTo(cursor) \ skipped
    <3>1. Accounted(b) /\ b # NoBlock
      BY <1>5, <2>5, <1>t, ChainFacts, ChainAssumption
         DEF NoSilentLoss, ChainSyncRollForward, VarTypes
    <3>2. waiting = NoBlock
      BY <1>5 DEF ChainSyncRollForward, Listening
    <3>3. QED
      BY <1>5, <2>3, <3>1, <3>2
         DEF Accounted, Unsettled, SlotTaken, ChainSyncRollForward
  <2>6. QED
    BY <2>2, <2>4, <2>5
<1>6. CASE RolledBack
  <2>1. PICK p \in Points :
          /\ IsMeet(p) /\ cursor' = p /\ rows' = RollbackKeeps(p)
          /\ skipped' = skipped \cap ChainTo(p)
          /\ UNCHANGED <<proc, waiting, queue, workers, failed>>
    BY <1>6, Zenon DEF RolledBack, RollbackTo, RollbackRequest
  <2>2. b \in ChainTo(p) /\ b \in ChainTo(cursor) \ skipped
    BY <2>1 DEF IsMeet
  <2>3. Accounted(b)
    BY <2>1, <2>2 DEF NoSilentLoss
  <2>4. p \in Blocks /\ b \in Blocks /\ Slot[b] <= Slot[p]
    BY <2>2, ChainFacts DEF ChainTo, Points
  <2>5. \A r \in rows : Slot[r] = Slot[b] => r \in rows'
    BY <2>1, <2>4, ChainAssumption DEF RollbackKeeps, FreshSync, RowsUpTo
  <2>6. QED
    BY <2>1, <2>3, <2>5 DEF Accounted, Unsettled, SlotTaken
<1>7. CASE RollbackFails
  BY <1>7, <1>o DEF RollbackFails, Accounted, Unsettled, SlotTaken
<1>8. CASE EnqueueWaiting
  <2>1. ToSet(queue') = ToSet(queue) \cup {waiting}
    BY <1>8, <1>t, ToSetAppend DEF EnqueueWaiting, VarTypes
  <2>2. QED
    BY <1>8, <1>o, <2>1 DEF EnqueueWaiting, Accounted, Unsettled, SlotTaken
<1>9. CASE EnqueueTimeout
  BY <1>9, <1>o DEF EnqueueTimeout, Accounted, Unsettled, SlotTaken
<1>10. CASE EnqueueCancelled
  BY <1>10 DEF EnqueueCancelled
<1>11. ASSUME NEW w \in Workers, Take(w) PROVE Accounted(b)'
  <2>1. ToSet(queue) = ToSet(queue') \cup {Head(queue)} /\ Head(queue) \in Blocks
    BY <1>11, <1>t, ToSetTail DEF Take, VarTypes
  <2>2. /\ blk'[w] = Head(queue) /\ pc'[w] = "check"
        /\ \A v \in Workers : v # w => blk'[v] = blk[v] /\ pc'[v] = pc[v]
    BY <1>11, <1>t DEF Take, VarTypes
  <2>3. pc[w] = "idle"
    BY <1>11 DEF Take
  <2>4. QED
    BY <1>11, <1>o, <2>1, <2>2, <2>3 DEF Take, Accounted, Unsettled, SlotTaken
<1>12. ASSUME NEW w \in Workers, Preflight(w) PROVE Accounted(b)'
  <2>1. /\ pc'[w] = "header"
        /\ \A v \in Workers : v # w => pc'[v] = pc[v]
    BY <1>12, <1>t DEF Preflight, VarTypes
  <2>2. QED
    BY <1>12, <1>o, <2>1 DEF Preflight, Accounted, Unsettled, SlotTaken
<1>13. ASSUME NEW w \in Workers, RetryBlock(w) PROVE Accounted(b)'
  BY <1>13, <1>o DEF RetryBlock, Accounted, Unsettled, SlotTaken
<1>14. ASSUME NEW w \in Workers, StoreHeader(w) PROVE Accounted(b)'
  <2>1. \A v \in Workers : v # w => pc'[v] = pc[v]
    BY <1>14, <1>t DEF StoreHeader, VarTypes
  <2>2. rows \subseteq rows' /\ \E r \in rows' : Slot[r] = Slot[blk[w]]
    BY <1>14 DEF StoreHeader, Insert
  <2>3. QED
    BY <1>14, <1>o, <2>1, <2>2 DEF StoreHeader, Accounted, Unsettled, SlotTaken
<1>15. ASSUME NEW w \in Workers, StoreTx(w) PROVE Accounted(b)'
  BY <1>15, <1>o DEF StoreTx, Accounted, Unsettled, SlotTaken
<1>16. ASSUME NEW w \in Workers, Finish(w) PROVE Accounted(b)'
  <2>1. \A v \in Workers : v # w => pc'[v] = pc[v] /\ blk'[v] = blk[v]
    BY <1>16, <1>t DEF Finish, VarTypes
  <2>2. QED
    BY <1>16, <1>o, <2>1 DEF Finish, Accounted, Unsettled, SlotTaken
<1>17. ASSUME NEW w \in Workers, GiveUp(w) PROVE Accounted(b)'
  <2>1. \A v \in Workers : v # w => pc'[v] = pc[v] /\ blk'[v] = blk[v]
    BY <1>17, <1>t DEF GiveUp, VarTypes
  <2>2. rows \subseteq rows'
    BY <1>17, StepFailsType DEF GiveUp
  <2>3. QED
    BY <1>17, <1>o, <2>1, <2>2 DEF GiveUp, Accounted, Unsettled, SlotTaken
<1>18. ASSUME NEW w \in Workers, TryLastChance(w) PROVE Accounted(b)'
  <2>1. pc'[w] = "check" /\ \A v \in Workers : v # w => pc'[v] = pc[v]
    BY <1>18, <1>t DEF TryLastChance, VarTypes
  <2>2. rows \subseteq rows'
    BY <1>18, StepFailsType DEF TryLastChance
  <2>3. QED
    BY <1>18, <1>o, <2>1, <2>2 DEF TryLastChance, Accounted, Unsettled, SlotTaken
<1>19. ASSUME NEW w \in Workers, WorkerStop(w) PROVE Accounted(b)'
  BY <1>19 DEF WorkerStop
<1>20. CASE UNCHANGED vars
  BY <1>20, <1>o DEF vars, Accounted, Unsettled, SlotTaken
<1>21. QED
  BY <1>1, <1>2, <1>3, <1>4, <1>5, <1>6, <1>7, <1>8, <1>9, <1>10, <1>11, <1>12, <1>13, <1>14, <1>15, <1>16, <1>17, <1>18, <1>19, <1>20, StepCases

\* For any number of workers, any queue and any forks: each block of the chain
\* sent since the resume point is on its way, has a row at its slot, or has an
\* error logged for it.
THEOREM NothingLostSilently == Spec => []NoSilentLoss
<1>1. Init => NoSilentLoss
  BY DEF Init, NoSilentLoss
<1>2. QED
  BY <1>1, TypeCorrect, NoSilentLossStep, PTL DEF Spec

-----------------------------------------------------------------------------
(* A processed block has all its transactions                              *)

\* In the given table b's transactions before the n-th have a row, but for the lost ones
TxsBefore(table, lost, b, n) ==
    \A i \in 1 .. Len(TxSeq[b]) :
        i < n => table[TxSeq[b][i]] # NoBlock \/ TxSeq[b][i] \in lost

\* A worker that is at the n-th transaction of a block has stored those before
TxsStored == \A w \in Workers : pc[w] = "txs" => TxsBefore(txRow, torn, blk[w], txi[w])

\* The rows of transactions stay, whatever the step
LEMMA TxRowsStay ==
    ASSUME TypeOK, [Next]_vars
    PROVE  \A t \in Txs : txRow[t] # NoBlock => txRow'[t] = txRow[t]
<1>t. txRow \in [Txs -> Blocks \cup {NoBlock}]
  BY DEF TypeOK, VarTypes
<1>1. ASSUME NEW w \in Workers, StoreTx(w)
      PROVE  \A t \in Txs : txRow[t] # NoBlock => txRow'[t] = txRow[t]
  BY <1>1, <1>t DEF StoreTx, InsertTx
<1>2. ASSUME NEW w \in Workers, GiveUp(w) \/ TryLastChance(w)
      PROVE  \A t \in Txs : txRow[t] # NoBlock => txRow'[t] = txRow[t]
  BY <1>2, StepFailsType DEF GiveUp, TryLastChance
<1>3. QED
  BY <1>1, <1>2, StepCases
     DEF vars, tables, SwitchChain, Start, Shutdown, Exit, ChainSyncRollForward,
         RolledBack, RollbackTo, RollbackFails, EnqueueWaiting, EnqueueTimeout,
         EnqueueCancelled, Take, Preflight, RetryBlock, StoreHeader, Finish, WorkerStop

LEMMA TornStays ==
    ASSUME [Next]_vars
    PROVE  torn \subseteq torn'
  BY StepCases
     DEF vars, reports, SwitchChain, Start, Shutdown, Exit, ChainSyncRollForward,
         RolledBack, RollbackTo, RollbackFails, EnqueueWaiting, EnqueueTimeout,
         EnqueueCancelled, Take, Preflight, RetryBlock, StoreHeader, StoreTx, Finish, GiveUp,
         TryLastChance, WorkerStop

\* ... and so do the transactions a block has behind it
LEMMA TxsBeforeStays ==
    ASSUME TypeOK, [Next]_vars, NEW b \in Blocks, NEW n, TxsBefore(txRow, torn, b, n)
    PROVE  TxsBefore(txRow', torn', b, n)
<1>1. \A i \in 1 .. Len(TxSeq[b]) : TxSeq[b][i] \in Txs
  BY PipelineAssumption
<1>2. QED
  BY <1>1, TxRowsStay, TornStays DEF TxsBefore

LEMMA TxsStoredStep == TypeOK /\ TxsStored /\ [Next]_vars => TxsStored'
<1> SUFFICES ASSUME TypeOK, TxsStored, [Next]_vars, NEW v \in Workers, pc'[v] = "txs"
             PROVE  TxsBefore(txRow', torn', blk'[v], txi'[v])
  BY DEF TxsStored
<1> USE DEF node, workers, tables, reports
<1>t. VarTypes /\ VarTypes'
  BY TypeStep DEF TypeOK
<1>k. ASSUME pc[v] = "txs", blk'[v] = blk[v], txi'[v] = txi[v]
      PROVE  TxsBefore(txRow', torn', blk'[v], txi'[v])
  <2>1. blk[v] \in Blocks /\ TxsBefore(txRow, torn, blk[v], txi[v])
    BY <1>k, InAttempt DEF TxsStored
  <2>2. TxsBefore(txRow', torn', blk[v], txi[v])
    BY <2>1, TxsBeforeStays
  <2>3. QED
    BY <1>k, <2>2
<1>1. CASE \/ SwitchChain \/ Shutdown \/ ChainSyncRollForward \/ RolledBack
           \/ RollbackFails \/ EnqueueWaiting \/ EnqueueTimeout \/ EnqueueCancelled
           \/ UNCHANGED vars
  BY <1>1, <1>k
     DEF vars, SwitchChain, Shutdown, ChainSyncRollForward, RolledBack,
         RollbackTo, RollbackFails, EnqueueWaiting, EnqueueTimeout, EnqueueCancelled
<1>2. CASE Start \/ Exit
  BY <1>2 DEF Start, LaunchedWorkers, Exit
<1>3. ASSUME NEW w \in Workers,
             \/ Take(w) \/ Preflight(w) \/ RetryBlock(w) \/ Finish(w) \/ GiveUp(w)
             \/ TryLastChance(w) \/ WorkerStop(w)
      PROVE  TxsBefore(txRow', torn', blk'[v], txi'[v])
  <2>1. pc[v] = "txs" /\ blk'[v] = blk[v] /\ txi'[v] = txi[v]
    BY <1>3, <1>t
       DEF VarTypes, Take, Preflight, RetryBlock, Finish, GiveUp, TryLastChance, WorkerStop
  <2>2. QED
    BY <2>1, <1>k
<1>4. ASSUME NEW w \in Workers, StoreHeader(w) PROVE TxsBefore(txRow', torn', blk'[v], txi'[v])
  <2>1. CASE v = w
    BY <1>4, <1>t, <2>1 DEF StoreHeader, VarTypes, TxsBefore
  <2>2. CASE v # w
    BY <1>4, <1>t, <1>k, <2>2 DEF StoreHeader, VarTypes
  <2>3. QED
    BY <2>1, <2>2
<1>5. ASSUME NEW w \in Workers, StoreTx(w) PROVE TxsBefore(txRow', torn', blk'[v], txi'[v])
  <2>1. CASE v = w
    <3>1. /\ blk[v] \in Blocks /\ blk' = blk /\ txi'[v] = txi[v] + 1 /\ txi[v] \in Nat
          /\ TxSeq[blk[v]] \in Seq(Txs) /\ TxSeq[blk[v]][txi[v]] \in Txs
          /\ TxsBefore(txRow, torn, blk[v], txi[v])
      BY <1>5, <1>t, <2>1, InAttempt DEF StoreTx, VarTypes, TxsStored
    <3>2. \/ txRow'[TxSeq[blk[v]][txi[v]]] # NoBlock
          \/ TxSeq[blk[v]][txi[v]] \in torn'
      BY <1>5, <1>t, <2>1, <3>1, ChainAssumption DEF StoreTx, InsertTx, VarTypes
    <3>3. TxsBefore(txRow', torn', blk[v], txi[v])
      BY <3>1, TxsBeforeStays
    <3>4. QED
      BY <3>1, <3>2, <3>3 DEF TxsBefore
  <2>2. CASE v # w
    BY <1>5, <1>t, <1>k, <2>2 DEF StoreTx, VarTypes
  <2>3. QED
    BY <2>1, <2>2
<1>6. QED
  BY <1>1, <1>2, <1>3, <1>4, <1>5, StepCases

LEMMA AckedHasTxsStep == TypeOK /\ TxsStored /\ AckedHasTxs /\ [Next]_vars => AckedHasTxs'
<1> SUFFICES ASSUME TypeOK, TxsStored, AckedHasTxs, [Next]_vars, NEW b \in acked'
             PROVE  \A i \in 1 .. Len(TxSeq[b]) :
                        txRow'[TxSeq[b][i]] # NoBlock \/ TxSeq[b][i] \in torn'
  BY DEF AckedHasTxs
<1> USE DEF node, workers, tables, reports
<1>1. \/ b \in acked
      \/ \E w \in Workers : Finish(w) /\ b = blk[w]
  BY StepCases
     DEF vars, SwitchChain, Start, Shutdown, Exit, ChainSyncRollForward,
         RolledBack, RollbackTo, RollbackFails, EnqueueWaiting, EnqueueTimeout,
         EnqueueCancelled, Take, Preflight, RetryBlock, StoreHeader, StoreTx, Finish,
         GiveUp, TryLastChance, WorkerStop
<1>2. b \in Blocks
  BY TypeStep DEF TypeOK, VarTypes
<1>3. \A i \in 1 .. Len(TxSeq[b]) : TxSeq[b][i] \in Txs
  BY <1>2, PipelineAssumption
<1>4. CASE b \in acked
  BY <1>3, <1>4, TxRowsStay, TornStays DEF AckedHasTxs
<1>5. ASSUME NEW w \in Workers, Finish(w), b = blk[w]
      PROVE  \A i \in 1 .. Len(TxSeq[b]) :
                 txRow'[TxSeq[b][i]] # NoBlock \/ TxSeq[b][i] \in torn'
  <2>1. pc[w] = "txs" /\ txi[w] > Len(TxSeq[b]) /\ txi[w] \in Nat /\ TxSeq[b] \in Seq(Txs)
    BY <1>5, InAttempt DEF Finish, AllTxsStored
  <2>2. TxsBefore(txRow, torn, b, txi[w])
    BY <1>5, <2>1 DEF TxsStored
  <2>3. QED
    BY <1>3, <2>1, <2>2, TxRowsStay, TornStays DEF TxsBefore
<1>6. QED
  BY <1>1, <1>4, <1>5

\* In every reachable state, through retries, lost replies, crashes and rollbacks,
\* a block reported as processed has a row for each of its transactions, but for those
\* a deadlock has torn.
THEOREM ProcessedHasTransactions == Spec => []AckedHasTxs
<1>1. Init => TxsStored /\ AckedHasTxs
  BY DEF Init, TxsStored, AckedHasTxs
<1>2. QED
  BY <1>1, TypeCorrect, TxsStoredStep, AckedHasTxsStep, PTL DEF Spec

-----------------------------------------------------------------------------
(* Rows of transactions without a row of their block                       *)

\* A worker goes on to a block's transactions once its row is there, or never will be
HeaderDone == \A w \in Workers : pc[w] = "txs" => blk[w] \in rows \cup rowless

\* A row that goes away is remembered
LEMMA RowsRemembered ==
    ASSUME TypeOK, [Next]_vars
    PROVE  rows \cup rowless \subseteq rows' \cup rowless'
<1> USE DEF tables, reports
<1>1. ASSUME NEW w \in Workers, StoreHeader(w)
      PROVE  rows \cup rowless \subseteq rows' \cup rowless'
  BY <1>1 DEF StoreHeader, Insert
<1>2. ASSUME NEW w \in Workers, GiveUp(w) \/ TryLastChance(w)
      PROVE  rows \cup rowless \subseteq rows' \cup rowless'
  BY <1>2, StepFailsType DEF GiveUp, TryLastChance
<1>3. CASE RolledBack
  BY <1>3, Zenon DEF RolledBack, RollbackTo
<1>4. QED
  BY <1>1, <1>2, <1>3, StepCases
     DEF vars, SwitchChain, Start, Shutdown, Exit, ChainSyncRollForward, RollbackFails,
         EnqueueWaiting, EnqueueTimeout, EnqueueCancelled, Take, Preflight, RetryBlock,
         StoreTx, Finish, WorkerStop

LEMMA HeaderDoneStep == TypeOK /\ HeaderDone /\ [Next]_vars => HeaderDone'
<1> SUFFICES ASSUME TypeOK, HeaderDone, [Next]_vars, NEW v \in Workers, pc'[v] = "txs"
             PROVE  blk'[v] \in rows' \cup rowless'
  BY DEF HeaderDone
<1> USE DEF node, workers, tables, reports
<1>t. VarTypes
  BY DEF TypeOK
<1>k. ASSUME pc[v] = "txs", blk'[v] = blk[v] PROVE blk'[v] \in rows' \cup rowless'
  BY <1>k, RowsRemembered DEF HeaderDone
<1>1. CASE \/ SwitchChain \/ Shutdown \/ ChainSyncRollForward \/ RolledBack
           \/ RollbackFails \/ EnqueueWaiting \/ EnqueueTimeout \/ EnqueueCancelled
           \/ UNCHANGED vars
  BY <1>1, <1>k
     DEF vars, SwitchChain, Shutdown, ChainSyncRollForward, RolledBack,
         RollbackTo, RollbackFails, EnqueueWaiting, EnqueueTimeout, EnqueueCancelled
<1>2. CASE Start \/ Exit
  BY <1>2 DEF Start, LaunchedWorkers, Exit
<1>3. ASSUME NEW w \in Workers,
             \/ Take(w) \/ Preflight(w) \/ RetryBlock(w) \/ StoreTx(w) \/ Finish(w)
             \/ GiveUp(w) \/ TryLastChance(w) \/ WorkerStop(w)
      PROVE  blk'[v] \in rows' \cup rowless'
  <2>1. pc[v] = "txs" /\ blk'[v] = blk[v]
    BY <1>3, <1>t
       DEF VarTypes, Take, Preflight, RetryBlock, StoreTx, Finish, GiveUp, TryLastChance,
           WorkerStop
  <2>2. QED
    BY <2>1, <1>k
<1>4. ASSUME NEW w \in Workers, StoreHeader(w) PROVE blk'[v] \in rows' \cup rowless'
  <2>1. CASE v = w
    BY <1>4, <2>1 DEF StoreHeader
  <2>2. CASE v # w
    BY <1>4, <1>t, <1>k, <2>2 DEF StoreHeader, VarTypes
  <2>3. QED
    BY <2>1, <2>2
<1>5. QED
  BY <1>1, <1>2, <1>3, <1>4, StepCases

\* A transaction's new row names the block of a worker that has done with the header
LEMMA NewTxRow ==
    ASSUME TypeOK, HeaderDone, [Next]_vars, NEW t \in Txs, txRow'[t] # txRow[t]
    PROVE  txRow'[t] \in rows \cup rowless
<1>t. txRow \in [Txs -> Blocks \cup {NoBlock}]
  BY DEF TypeOK, VarTypes
<1> USE DEF tables
<1>1. ASSUME NEW w \in Workers, StoreTx(w) PROVE txRow'[t] \in rows \cup rowless
  BY <1>1, <1>t DEF StoreTx, InsertTx, HeaderDone
<1>2. ASSUME NEW w \in Workers, GiveUp(w) \/ TryLastChance(w)
      PROVE  txRow'[t] \in rows \cup rowless
  BY <1>2, <1>t DEF GiveUp, TryLastChance, StepFails, InsertTx, HeaderDone
<1>3. QED
  BY <1>1, <1>2, StepCases
     DEF vars, SwitchChain, Start, Shutdown, Exit, ChainSyncRollForward,
         RolledBack, RollbackTo, RollbackFails, EnqueueWaiting, EnqueueTimeout,
         EnqueueCancelled, Take, Preflight, RetryBlock, StoreHeader, Finish, WorkerStop

LEMMA OrphansStep ==
    TypeOK /\ HeaderDone /\ OrphansHaveCause /\ [Next]_vars => OrphansHaveCause'
<1> SUFFICES ASSUME TypeOK, HeaderDone, OrphansHaveCause, [Next]_vars,
                    NEW t \in Txs, txRow'[t] # NoBlock
             PROVE  txRow'[t] \in rows' \cup rowless'
  BY DEF OrphansHaveCause
<1>1. txRow'[t] \in rows \cup rowless
  BY NewTxRow DEF OrphansHaveCause
<1>2. QED
  BY <1>1, RowsRemembered

\* In every reachable state a transaction's row is under a block that has a row, or that
\* lost it to a rollback or its slot to another block, whatever crashes and errors.
THEOREM OrphansAreExplained == Spec => []OrphansHaveCause
<1>1. Init => HeaderDone /\ OrphansHaveCause
  BY DEF Init, HeaderDone, OrphansHaveCause
<1>2. QED
  BY <1>1, TypeCorrect, HeaderDoneStep, OrphansStep, PTL DEF Spec

-----------------------------------------------------------------------------
(* Only races leave rows of an abandoned fork                              *)

\* Slots rise along a chain.  In Byron the first block of an epoch shares its slot with
\* the block after it: there a rollback to one may leave the other.
SlotsRise == \A b \in Blocks : \A c \in Past[b] \ {b} : Slot[c] < Slot[b]

\* The blocks the handler, the queue and the workers hold
Held == Underway \cup ({waiting} \ {NoBlock})

OneChain(S) == \A r, s \in S : r \in Past[s] \/ s \in Past[r]

\* While no rollback has met a race, the rows are of one chain, that of the cursor once
\* the node has announced it, and so is all that is held.
QuietChain ==
    clean =>
      /\ OneChain(rows)
      /\ proc # "down" /\ ~resync => rows \cup Held \subseteq ChainTo(cursor)
      /\ proc # "down" /\ resync => /\ Held = {}
                                    /\ cursor = Origin \/ rows \subseteq ChainTo(cursor)

\* A chain is one, and so is any part of it
LEMMA PartOfChain ==
    ASSUME NEW p \in Points, NEW S, S \subseteq ChainTo(p)
    PROVE  OneChain(S)
BY ChainAssumption DEF OneChain, ChainTo, Points

\* Of one chain, what is not above a block's slot is part of its past
LEMMA BelowIsPast ==
    ASSUME SlotsRise, NEW b \in Blocks, NEW r \in Blocks, r \in Past[b] \/ b \in Past[r],
           Slot[r] <= Slot[b]
    PROVE  r \in Past[b]
<1>1. Slot[r] \in Nat /\ Slot[b] \in Nat /\ b \in Past[b]
  BY ChainAssumption
<1>2. b \in Past[r] /\ b # r => Slot[b] < Slot[r]
  BY DEF SlotsRise
<1>3. QED
  BY <1>1, <1>2

\* A worker that stores a header or fails adds no row but that of its block
LEMMA OneRowMore ==
    ASSUME TypeOK, NEW w \in Workers, StoreHeader(w) \/ GiveUp(w) \/ TryLastChance(w)
    PROVE  rows' \subseteq rows \cup {blk[w]} /\ blk[w] \in Held
<1>1. pc[w] \in {"check", "header", "txs"}
  BY DEF StoreHeader, GiveUp, TryLastChance, StepFails
<1>2. blk[w] \in Underway
  BY <1>1, InAttempt, ChainAssumption DEF Underway
<1>3. rows' \subseteq rows \cup {blk[w]}
  BY DEF StoreHeader, GiveUp, TryLastChance, StepFails, Insert, tables
<1>4. QED
  BY <1>2, <1>3 DEF Held

\* What the steps of a worker do to what is held
LEMMA HeldByWorkers ==
    ASSUME TypeOK, NEW w \in Workers, Worker(w)
    PROVE  Held' \subseteq Held /\ UNCHANGED <<cursor, resync, proc, clean>>
<1>t. VarTypes
  BY DEF TypeOK
<1> USE DEF node, workers, tables, reports
<1>1. CASE Take(w)
  <2>1. ToSet(queue) = ToSet(queue') \cup {Head(queue)} /\ Head(queue) \in Blocks
    BY <1>1, <1>t, ToSetTail DEF Take, VarTypes
  <2>2. \A v \in Workers : blk'[v] = blk[v] \/ blk'[v] = Head(queue)
    BY <1>1, <1>t DEF Take, VarTypes
  <2>3. QED
    BY <1>1, <2>1, <2>2 DEF Take, Held, Underway
<1>2. CASE Preflight(w) \/ RetryBlock(w) \/ StoreHeader(w) \/ StoreTx(w)
           \/ TryLastChance(w) \/ WorkerStop(w)
  BY <1>2
     DEF Held, Underway, Preflight, RetryBlock, StoreHeader, StoreTx, TryLastChance, WorkerStop
<1>3. CASE Finish(w) \/ GiveUp(w)
  <2>1. \A v \in Workers : blk'[v] = blk[v] \/ blk'[v] = NoBlock
    BY <1>3, <1>t DEF Finish, GiveUp, VarTypes
  <2>2. UNCHANGED <<queue, waiting, cursor, resync, proc, clean>>
    BY <1>3 DEF Finish, GiveUp
  <2>3. QED
    BY <2>1, <2>2 DEF Held, Underway
<1>4. QED
  BY <1>1, <1>2, <1>3 DEF Worker, Attempt

\* The rows after a worker's step
LEMMA RowsByWorkers ==
    ASSUME TypeOK, NEW w \in Workers, Worker(w)
    PROVE  rows' \subseteq rows \cup Held
<1>1. CASE StoreHeader(w) \/ GiveUp(w) \/ TryLastChance(w)
  BY <1>1, OneRowMore
<1>2. CASE ~(StoreHeader(w) \/ GiveUp(w) \/ TryLastChance(w))
  BY <1>2 DEF Worker, Attempt, Take, Preflight, RetryBlock, StoreTx, Finish, WorkerStop, tables
<1>3. QED
  BY <1>1, <1>2

\* A process that is down holds nothing
LEMMA NothingHeld == TypeOK /\ proc = "down" => Held = {}
<1> SUFFICES ASSUME TypeOK, proc = "down" PROVE Held = {}
  OBVIOUS
<1>1. waiting = NoBlock /\ queue = << >> /\ \A w \in Workers : blk[w] = NoBlock
  BY DEF TypeOK, DownIsEmpty, AttemptHasBlock
<1>2. ToSet(queue) = {}
  BY <1>1 DEF ToSet
<1>3. QED
  BY <1>1, <1>2 DEF Held, Underway

LEMMA QuietRollback ==
    SlotsRise /\ TypeOK /\ QuietChain /\ RolledBack => QuietChain'
<1> SUFFICES ASSUME SlotsRise, TypeOK, QuietChain, RolledBack, clean'
             PROVE  /\ OneChain(rows')
                    /\ resync' = FALSE /\ rows' \cup Held' \subseteq ChainTo(cursor')
  BY DEF QuietChain
<1>1. PICK p \in Points :
        /\ RollbackRequest(p) /\ cursor' = p /\ resync' = FALSE
        /\ rows' = RollbackKeeps(p)
        /\ clean /\ Underway \subseteq ChainTo(p) /\ (FreshSync(p) => rows = {})
        /\ UNCHANGED <<proc, waiting, queue, workers>>
  BY Zenon DEF RolledBack, RollbackTo
<1>2. waiting = NoBlock /\ proc # "down" /\ IsMeet(p) /\ link = "open"
  BY <1>1 DEF RollbackRequest, Listening, TypeOK, DownIsEmpty
<1>3. Held' \subseteq ChainTo(p)
  BY <1>1, <1>2 DEF Held, Underway, workers
<1>4. rows' \subseteq ChainTo(p)
  <2>1. CASE FreshSync(p)
    BY <1>1, <2>1 DEF RollbackKeeps
  <2>2. CASE ~FreshSync(p)
    <3>1. p \in Blocks /\ p \in ChainTo(p) /\ ChainTo(p) = Past[p] /\ p \in ChainTo(cursor)
      BY <1>2, <2>2, ChainAssumption DEF FreshSync, Points, ChainTo, IsMeet
    <3>2. rows \subseteq ChainTo(cursor) /\ cursor \in Blocks /\ ChainTo(cursor) = Past[cursor]
      BY <1>1, <1>2, <3>1 DEF QuietChain, ChainTo, TypeOK, VarTypes, Points
    <3>3. \A r \in rows : r \in Blocks /\ (r \in Past[p] \/ p \in Past[r])
      BY <3>1, <3>2, ChainAssumption
    <3>4. \A r \in rows' : r \in rows /\ Slot[r] <= Slot[p]
      BY <1>1, <2>2 DEF RollbackKeeps, RowsUpTo
    <3>5. QED
      BY <3>1, <3>3, <3>4, BelowIsPast
  <2>3. QED
    BY <2>1, <2>2
<1>5. QED
  BY <1>1, <1>3, <1>4, PartOfChain

LEMMA QuietStart == SlotsRise /\ TypeOK /\ QuietChain /\ Start => QuietChain'
<1> SUFFICES ASSUME SlotsRise, TypeOK, QuietChain, Start, clean'
             PROVE  /\ OneChain(rows') /\ resync' /\ Held' = {}
                    /\ cursor' = Origin \/ rows' \subseteq ChainTo(cursor')
  BY DEF QuietChain
<1>1. clean /\ UNCHANGED <<rows, queue, waiting, blk>> /\ resync' /\ proc = "down"
  BY DEF Start, tables
<1>2. OneChain(rows) /\ Held' = {}
  BY <1>1, NothingHeld DEF QuietChain, Held, Underway
<1>3. PICK p \in Points : ResumeFrom(p) /\ cursor' = Intersection(p)
  BY DEF Start
<1>4. CASE cursor' = p /\ p # Origin
  <2>1. p \in Blocks /\ MaxSlotRow(p) /\ ChainTo(p) = Past[p] /\ rows \subseteq Blocks
    BY <1>3, <1>4 DEF ResumeFrom, Points, ChainTo, TypeOK, VarTypes
  <2>2. \A r \in rows : (r \in Past[p] \/ p \in Past[r]) /\ Slot[r] <= Slot[p]
    BY <1>2, <2>1 DEF OneChain, MaxSlotRow
  <2>3. rows \subseteq Past[p]
    BY <2>1, <2>2, BelowIsPast
  <2>4. QED
    BY <1>1, <1>2, <1>4, <2>1, <2>3 DEF OneChain
<1>5. CASE cursor' = Origin
  BY <1>1, <1>2, <1>5 DEF OneChain
<1>6. QED
  BY <1>3, <1>4, <1>5 DEF Intersection

LEMMA QuietForward == TypeOK /\ QuietChain /\ ChainSyncRollForward => QuietChain'
<1> SUFFICES ASSUME TypeOK, QuietChain, ChainSyncRollForward, clean'
             PROVE  /\ OneChain(rows')
                    /\ resync' = FALSE /\ rows' \cup Held' \subseteq ChainTo(cursor')
  BY DEF QuietChain
<1>1. PICK b \in Blocks :
        /\ IsNext(b) /\ cursor' = b
        /\ \/ queue' = Append(queue, b) /\ UNCHANGED waiting
           \/ waiting' = b /\ UNCHANGED queue
  BY Zenon DEF ChainSyncRollForward
<1>2. clean /\ ~resync /\ UNCHANGED <<rows, blk, resync>> /\ proc # "down"
  BY DEF ChainSyncRollForward, Listening, TypeOK, VarTypes, DownIsEmpty, tables, workers, reports
<1>3. Held' \subseteq Held \cup {b}
  <2>1. ToSet(Append(queue, b)) = ToSet(queue) \cup {b}
    BY ToSetAppend DEF TypeOK, VarTypes
  <2>2. QED
    BY <1>1, <1>2, <2>1 DEF Held, Underway
<1>4. ChainTo(b) = ChainTo(cursor) \cup {b}
  BY <1>1, ChainAssumption DEF IsNext, ChainTo
<1>5. rows' \cup Held' \subseteq ChainTo(b)
  BY <1>2, <1>3, <1>4 DEF QuietChain
<1>6. QED
  BY <1>1, <1>2, <1>5, PartOfChain DEF Points, TypeOK, VarTypes

LEMMA QuietStep == SlotsRise /\ TypeOK /\ QuietChain /\ [Next]_vars => QuietChain'
<1> SUFFICES ASSUME SlotsRise, TypeOK, QuietChain, [Next]_vars PROVE QuietChain'
  OBVIOUS
<1> USE DEF node, workers, tables, reports
<1>o. ASSUME UNCHANGED <<rows, clean, cursor, resync, proc>>, Held' \subseteq Held
      PROVE  QuietChain'
  <2>1. ChainTo(cursor') = ChainTo(cursor)
    BY <1>o
  <2>2. QED
    BY <1>o, <2>1 DEF QuietChain, OneChain
<1>1. CASE SwitchChain \/ RollbackFails \/ UNCHANGED vars
  BY <1>1, <1>o DEF SwitchChain, RollbackFails, vars, Held, Underway
<1>2. CASE Start
  BY <1>2, QuietStart
<1>3. CASE Shutdown
  <2>1. TypeOK /\ proc = "up" /\ proc' = "stopping" /\ Held' = Held
    BY <1>3 DEF Shutdown, Held, Underway
  <2>2. UNCHANGED <<rows, clean, cursor, resync>>
    BY <1>3 DEF Shutdown
  <2>3. QED
    BY <2>1, <2>2 DEF QuietChain, OneChain, ChainTo
<1>4. CASE Exit
  BY <1>4 DEF Exit, QuietChain, OneChain
<1>5. CASE ChainSyncRollForward
  BY <1>5, QuietForward
<1>6. CASE RolledBack
  BY <1>6, QuietRollback
<1>7. CASE EnqueueWaiting
  <2>1. ToSet(queue') = ToSet(queue) \cup {waiting}
    BY <1>7, ToSetAppend DEF EnqueueWaiting, TypeOK, VarTypes
  <2>2. Held' \subseteq Held
    BY <1>7, <2>1 DEF EnqueueWaiting, Held, Underway
  <2>3. QED
    BY <1>7, <2>2, <1>o DEF EnqueueWaiting
<1>8. CASE EnqueueTimeout \/ EnqueueCancelled
  BY <1>8, <1>o DEF EnqueueTimeout, EnqueueCancelled, Held, Underway
<1>9. ASSUME NEW w \in Workers, Worker(w) PROVE QuietChain'
  <2>1. /\ Held' \subseteq Held /\ UNCHANGED <<cursor, resync, proc, clean>>
        /\ rows' \subseteq rows \cup Held
    BY <1>9, HeldByWorkers, RowsByWorkers
  <2>2. ChainTo(cursor') = ChainTo(cursor) /\ cursor \in Points
    BY <2>1 DEF TypeOK, VarTypes
  <2>3. CASE clean /\ proc # "down" /\ ~resync
    <3>1. rows' \cup Held' \subseteq ChainTo(cursor)
      BY <2>1, <2>3 DEF QuietChain
    <3>2. QED
      BY <2>1, <2>2, <2>3, <3>1, PartOfChain DEF QuietChain
  <2>4. CASE clean /\ (proc = "down" \/ resync)
    <3>1. Held = {}
      BY <2>4, NothingHeld DEF QuietChain
    <3>2. QED
      BY <2>1, <2>2, <2>4, <3>1 DEF QuietChain, OneChain
  <2>5. QED
    BY <2>1, <2>3, <2>4 DEF QuietChain, TypeOK, VarTypes
<1>10. QED
  BY <1>1, <1>2, <1>3, <1>4, <1>5, <1>6, <1>7, <1>8, <1>9, HandlerCases DEF Next, Enqueue

\* Where slots rise along a chain: in every reachable state in which no rollback has met
\* blocks underway above its point nor been taken for a fresh sync with blocks stored, the
\* table holds blocks of the node's chain only, for any forks, workers, crashes and errors.
THEOREM QuietRollbacksLeaveNoRow ==
    ASSUME SlotsRise
    PROVE  Spec => []OnlyRacesLeaveStaleRows
<1>1. Init => QuietChain
  BY DEF Init, QuietChain, OneChain
<1>2. TypeOK /\ QuietChain /\ [Next]_vars => QuietChain'
  BY QuietStep
<1>3. TypeOK /\ QuietChain => OnlyRacesLeaveStaleRows
  BY DEF QuietChain, OnlyRacesLeaveStaleRows
<1>4. QED
  BY <1>1, <1>2, <1>3, TypeCorrect, PTL DEF Spec

-----------------------------------------------------------------------------
(* Without forks the pipeline is a pool                                    *)

\* One chain, and so many workers
OneLine ==
    /\ OneChain(Blocks)
    /\ \A b \in Blocks : IsFiniteSet(Past[b])
    /\ IsFiniteSet(Workers)

\* ... of slots that tell its blocks apart
NoForks == OneLine /\ SlotsRise

Before(c, d) == c \in Past[d] /\ c # d

LEMMA BeforeIsOrder ==
    ASSUME NEW c \in Blocks, NEW d \in Blocks, Before(c, d)
    PROVE  d \notin Past[c]
BY ChainAssumption DEF Before

\* A sequence in the order of the chain
Ordered(s) == \A i, j \in 1 .. Len(s) : i < j => Before(s[i], s[j])

LEMMA OrderedAppend ==
    ASSUME NEW s \in Seq(Blocks), Ordered(s), NEW e \in Blocks,
           \A x \in ToSet(s) : Before(x, e)
    PROVE  Ordered(Append(s, e))
<1>1. /\ Len(s) \in Nat /\ Len(Append(s, e)) = Len(s) + 1
      /\ Append(s, e)[Len(s) + 1] = e
      /\ \A i \in 1 .. Len(s) : Append(s, e)[i] = s[i] /\ s[i] \in ToSet(s)
  BY DEF ToSet
<1>2. SUFFICES ASSUME NEW i \in 1 .. Len(s) + 1, NEW j \in 1 .. Len(s) + 1, i < j
               PROVE  Before(Append(s, e)[i], Append(s, e)[j])
  BY <1>1 DEF Ordered
<1>3. i \in 1 .. Len(s) /\ (j \in 1 .. Len(s) \/ j = Len(s) + 1)
  BY <1>1, <1>2
<1>4. CASE j \in 1 .. Len(s)
  <2>1. Before(s[i], s[j])
    BY <1>2, <1>3, <1>4 DEF Ordered
  <2>2. QED
    BY <1>1, <1>3, <1>4, <2>1
<1>5. CASE j = Len(s) + 1
  <2>1. s[i] \in ToSet(s) /\ Append(s, e)[i] = s[i] /\ Append(s, e)[j] = e
    BY <1>1, <1>3, <1>5
  <2>2. QED
    BY <2>1
<1>6. QED
  BY <1>3, <1>4, <1>5

LEMMA OrderedTail ==
    ASSUME NEW s \in Seq(Blocks), Ordered(s), s # << >>
    PROVE  Ordered(Tail(s)) /\ \A x \in ToSet(Tail(s)) : Before(Head(s), x)
<1>1. /\ Len(s) \in Nat \ {0} /\ Len(Tail(s)) = Len(s) - 1 /\ Head(s) = s[1]
      /\ \A i \in 1 .. Len(s) - 1 : Tail(s)[i] = s[i + 1]
  OBVIOUS
<1>2. DOMAIN Tail(s) = 1 .. Len(s) - 1
  BY <1>1
<1>3. Ordered(Tail(s))
  <2>1. SUFFICES ASSUME NEW i \in 1 .. Len(s) - 1, NEW j \in 1 .. Len(s) - 1, i < j
                 PROVE  Before(Tail(s)[i], Tail(s)[j])
    BY <1>1 DEF Ordered
  <2>2. i + 1 \in 1 .. Len(s) /\ j + 1 \in 1 .. Len(s) /\ i + 1 < j + 1
    BY <1>1, <2>1
  <2>3. Before(s[i + 1], s[j + 1])
    BY <2>2 DEF Ordered
  <2>4. QED
    BY <1>1, <2>3
<1>4. \A i \in 1 .. Len(s) - 1 : 1 \in 1 .. Len(s) /\ i + 1 \in 1 .. Len(s) /\ 1 < i + 1
  BY <1>1
<1>5. \A i \in 1 .. Len(s) - 1 : Before(Head(s), Tail(s)[i])
  BY <1>1, <1>4 DEF Ordered
<1>6. QED
  BY <1>2, <1>3, <1>5 DEF ToSet

\* The node's chain goes on from the cursor, which is ahead of all that is held; a
\* session that begins holds nothing and is past every row, or at the origin.
CursorInv ==
    /\ link = "open" => proc = "up"
    /\ OnChain(cursor)
    /\ proc # "down" => Held \subseteq ChainTo(cursor)
    /\ proc # "down" /\ resync =>
         Held = {} /\ (cursor = Origin \/ \A r \in rows : Slot[r] <= Slot[cursor])

\* What is held is in the order of the chain: workers, queue, the block that waits.
OrderInv ==
    /\ Ordered(queue)
    /\ \A w \in Workers : blk[w] # NoBlock => \A x \in ToSet(queue) : Before(blk[w], x)
    /\ \A v, w \in Workers : v # w /\ blk[v] = blk[w] => blk[v] = NoBlock
    /\ waiting # NoBlock => \A x \in Underway : Before(x, waiting)

\* A worker at the transactions of a block has stored its header.
HeaderStored == \A w \in Workers : pc[w] = "txs" => blk[w] \in rows

OrderedLine == TypeOK /\ CursorInv /\ OrderInv

LineInv == OrderedLine /\ HeaderStored

\* What a block's row does to a table without forks
LEMMA InsertOnLine ==
    ASSUME NoForks, TypeOK, NEW b \in Blocks
    PROVE  Insert(b) = rows \cup {b}
<1>1. ASSUME NEW r \in rows, Slot[r] = Slot[b] PROVE r = b
  <2>1. r \in Blocks /\ Slot[r] \in Nat /\ Slot[b] \in Nat
    BY ChainAssumption DEF TypeOK, VarTypes
  <2>2. r # b => Slot[r] < Slot[b] \/ Slot[b] < Slot[r]
    BY <2>1 DEF NoForks, OneLine, OneChain, SlotsRise
  <2>3. QED
    BY <1>1, <2>1, <2>2
<1>2. QED
  BY <1>1 DEF Insert

\* The node moves along the chain
LEMMA SwitchOnLine ==
    ASSUME OneLine, TypeOK, SwitchChain
    PROVE  ChainTo(nodeTip) \subseteq ChainTo(nodeTip')
<1>1. PICK b \in Blocks : Cardinality(ChainTo(nodeTip)) < Cardinality(Past[b]) /\ nodeTip' = b
  BY DEF SwitchChain
<1>2. b # Origin /\ ChainTo(nodeTip') = Past[b]
  BY <1>1, ChainAssumption DEF ChainTo
<1>3. CASE nodeTip = Origin
  BY <1>3 DEF ChainTo
<1>4. CASE nodeTip \in Blocks
  <2>1. ChainTo(nodeTip) = Past[nodeTip]
    BY <1>4, ChainAssumption DEF ChainTo
  <2>2. b \notin Past[nodeTip]
    <3> SUFFICES ASSUME b \in Past[nodeTip] PROVE FALSE
      OBVIOUS
    <3>1. Past[b] \subseteq Past[nodeTip] /\ IsFiniteSet(Past[nodeTip])
      BY <1>4, ChainAssumption DEF OneLine
    <3>2. /\ Cardinality(Past[b]) \in Nat /\ Cardinality(Past[nodeTip]) \in Nat
          /\ Cardinality(Past[b]) <= Cardinality(Past[nodeTip])
      BY <3>1, FS_Subset, FS_CardinalityType
    <3>3. QED
      BY <1>1, <2>1, <3>2
  <2>3. nodeTip \in Past[b]
    BY <1>4, <2>2 DEF OneLine, OneChain
  <2>4. QED
    BY <1>2, <2>1, <2>3, ChainAssumption
<1>5. QED
  BY <1>3, <1>4 DEF TypeOK, VarTypes, Points

\* The chain to a point of the node's chain is part of it
LEMMA ChainOfPoint ==
    ASSUME TypeOK, NEW p \in Points, OnChain(p)
    PROVE  ChainTo(p) \subseteq ChainTo(nodeTip)
BY ChainAssumption DEF OnChain, ChainTo, Points, TypeOK, VarTypes

\* A rollback only announces where the session begins: it changes no row
LEMMA RollbackOnLine ==
    ASSUME OneLine, TypeOK, CursorInv, NEW p \in Points, RollbackRequest(p)
    PROVE  /\ resync /\ Held = {} /\ OnChain(p) /\ ChainTo(p) = ChainTo(cursor)
           /\ RollbackKeeps(p) = rows
<1>1. resync /\ proc # "down" /\ IsMeet(p)
  BY DEF RollbackRequest, Listening, CursorInv
<1>2. ChainTo(p) = ChainTo(cursor)
  BY <1>1, ChainOfPoint DEF IsMeet, CursorInv, TypeOK, VarTypes
<1>3. Held = {} /\ (cursor = Origin \/ \A r \in rows : Slot[r] <= Slot[cursor])
  BY <1>1 DEF CursorInv
<1>4. p = Origin \/ (p \in Blocks /\ p \in ChainTo(p) /\ ChainTo(p) = Past[p])
  BY ChainAssumption DEF Points, ChainTo
<1>5. OnChain(p)
  BY <1>2, <1>4, ChainOfPoint DEF OnChain, CursorInv, TypeOK, VarTypes
<1>6. CASE FreshSync(p)
  BY <1>1, <1>2, <1>3, <1>5, <1>6 DEF RollbackKeeps
<1>7. CASE ~FreshSync(p)
  <2>1. p \in Blocks /\ p \in Past[p] /\ ChainTo(p) = Past[p]
    BY <1>4, <1>7 DEF FreshSync
  <2>2. cursor \in Blocks /\ ChainTo(cursor) = Past[cursor]
    BY <1>2, <2>1 DEF ChainTo, TypeOK, VarTypes, Points
  <2>3. p \in Past[cursor] /\ cursor \in Past[p]
    BY <1>2, <2>1, <2>2, ChainAssumption
  <2>4. p = cursor
    BY <2>1, <2>2, <2>3, BeforeIsOrder DEF Before
  <2>5. \A r \in rows : Slot[r] <= Slot[p]
    BY <1>3, <2>2, <2>4, ChainAssumption
  <2>6. RollbackKeeps(p) = rows
    BY <1>7, <2>5 DEF RollbackKeeps, RowsUpTo
  <2>7. QED
    BY <1>1, <1>2, <1>3, <1>5, <2>6
<1>8. QED
  BY <1>6, <1>7

\* What the handler sends on is after all that is held
LEMMA ForwardOnLine ==
    ASSUME TypeOK, CursorInv, NEW b \in Blocks, IsNext(b), proc # "down"
    PROVE  /\ ChainTo(b) = ChainTo(cursor) \cup {b} /\ b \notin Held
           /\ \A x \in Held : Before(x, b)
<1>1. ChainTo(b) = ChainTo(cursor) \cup {b} /\ ChainTo(b) = Past[b] /\ b \notin ChainTo(cursor)
  BY ChainAssumption DEF IsNext, ChainTo
<1>2. Held \subseteq ChainTo(cursor)
  BY DEF CursorInv
<1>3. QED
  BY <1>1, <1>2 DEF Before

LEMMA HeldForward ==
    ASSUME TypeOK, NEW b \in Blocks, UNCHANGED blk,
           \/ queue' = Append(queue, b) /\ UNCHANGED waiting
           \/ waiting = NoBlock /\ waiting' = b /\ UNCHANGED queue
    PROVE  Held' = Held \cup {b}
<1>1. ToSet(Append(queue, b)) = ToSet(queue) \cup {b} /\ b # NoBlock
  BY ToSetAppend, ChainAssumption DEF TypeOK, VarTypes
<1>2. CASE queue' = Append(queue, b) /\ UNCHANGED waiting
  <2>1. Underway' = Underway \cup {b}
    BY <1>1, <1>2 DEF Underway
  <2>2. QED
    BY <1>2, <2>1 DEF Held
<1>3. CASE waiting = NoBlock /\ waiting' = b /\ UNCHANGED queue
  <2>1. Underway' = Underway
    BY <1>3 DEF Underway
  <2>2. QED
    BY <1>1, <1>3, <2>1 DEF Held
<1>4. QED
  BY <1>2, <1>3

LEMMA CursorStep == OneLine /\ TypeOK /\ CursorInv /\ [Next]_vars => CursorInv'
<1> SUFFICES ASSUME OneLine, TypeOK, CursorInv, [Next]_vars PROVE CursorInv'
  OBVIOUS
<1> USE DEF node, workers, tables, reports
<1>o. ASSUME UNCHANGED <<cursor, resync, proc, nodeTip>>, link' = link \/ link' # "open",
             Held' \subseteq Held, rows' \subseteq rows \cup Held
      PROVE  CursorInv'
  <2>1. OnChain(cursor)' /\ ChainTo(cursor') = ChainTo(cursor)
    BY <1>o DEF CursorInv, OnChain, ChainTo
  <2>2. (link = "open" => proc = "up")'
    BY <1>o DEF CursorInv
  <2>3. proc' # "down" => Held' \subseteq ChainTo(cursor')
    BY <1>o, <2>1 DEF CursorInv
  <2>4. ASSUME proc # "down", resync
        PROVE  Held' = {} /\ (cursor' = Origin \/ \A r \in rows' : Slot[r] <= Slot[cursor'])
    BY <1>o, <2>4 DEF CursorInv
  <2>5. QED
    BY <1>o, <2>1, <2>2, <2>3, <2>4 DEF CursorInv
<1>1. CASE SwitchChain
  <2>1. UNCHANGED <<cursor, resync, proc, link, rows>> /\ Held' = Held
    BY <1>1 DEF SwitchChain, Held, Underway
  <2>2. OnChain(cursor)' /\ ChainTo(cursor') = ChainTo(cursor)
    BY <1>1, <2>1, SwitchOnLine DEF CursorInv, OnChain, ChainTo
  <2>3. QED
    BY <2>1, <2>2 DEF CursorInv
<1>2. CASE Start
  <2>1. /\ link' = "open" /\ proc' = "up" /\ proc = "down"
        /\ UNCHANGED <<rows, nodeTip, queue, waiting, blk>>
    BY <1>2 DEF Start
  <2>2. Held' = {}
    BY <2>1, NothingHeld DEF Held, Underway
  <2>3. PICK p \in Points : ResumeFrom(p) /\ cursor' = Intersection(p)
    BY <1>2 DEF Start
  <2>4. OnChain(cursor)'
    BY <2>1, <2>3 DEF Intersection, OnChain, ChainTo
  <2>5. cursor' = Origin \/ \A r \in rows' : Slot[r] <= Slot[cursor']
    BY <2>1, <2>3 DEF Intersection, ResumeFrom, MaxSlotRow
  <2>6. QED
    BY <2>1, <2>2, <2>4, <2>5 DEF CursorInv
<1>3. CASE Shutdown
  <2>1. /\ proc = "up" /\ proc' = "stopping" /\ link' = "closed" /\ Held' = Held
        /\ UNCHANGED <<cursor, resync, nodeTip, rows>>
    BY <1>3 DEF Shutdown, Held, Underway
  <2>2. QED
    BY <2>1 DEF CursorInv, OnChain, ChainTo
<1>4. CASE Exit
  <2>1. proc' = "down" /\ link' = "closed" /\ UNCHANGED <<cursor, nodeTip>>
    BY <1>4 DEF Exit
  <2>2. QED
    BY <2>1 DEF CursorInv, OnChain, ChainTo
<1>5. CASE ChainSyncRollForward
  <2>1. PICK b \in Blocks :
          /\ IsNext(b) /\ cursor' = b
          /\ \/ queue' = Append(queue, b) /\ UNCHANGED waiting
             \/ waiting = NoBlock /\ waiting' = b /\ UNCHANGED queue
    BY <1>5, Zenon DEF ChainSyncRollForward, Listening
  <2>2. ~resync /\ proc = "up" /\ UNCHANGED <<resync, proc, link, nodeTip, blk>>
    BY <1>5 DEF ChainSyncRollForward, Listening, CursorInv
  <2>3. Held' \subseteq ChainTo(cursor')
    BY <2>1, <2>2, ForwardOnLine, HeldForward DEF CursorInv
  <2>4. OnChain(cursor)'
    BY <2>1, <2>2 DEF IsNext, OnChain, ChainTo
  <2>5. QED
    BY <2>2, <2>3, <2>4 DEF CursorInv
<1>6. CASE RolledBack
  <2>1. PICK p \in Points :
          /\ RollbackRequest(p) /\ cursor' = p /\ resync' = FALSE
          /\ UNCHANGED <<proc, nodeTip, waiting, queue, blk>> /\ link' \in {link, "failed"}
    BY <1>6, Zenon DEF RolledBack, RollbackTo
  <2>2. Held' = {} /\ OnChain(p)
    BY <2>1, RollbackOnLine DEF Held, Underway
  <2>3. OnChain(cursor)'
    BY <2>1, <2>2 DEF OnChain, ChainTo
  <2>4. QED
    BY <2>1, <2>2, <2>3 DEF CursorInv
<1>7. CASE RollbackFails \/ UNCHANGED vars
  BY <1>7, <1>o DEF RollbackFails, vars, Held, Underway
<1>8. CASE EnqueueWaiting
  <2>1. ToSet(queue') = ToSet(queue) \cup {waiting}
    BY <1>8, ToSetAppend DEF EnqueueWaiting, TypeOK, VarTypes
  <2>2. Held' \subseteq Held
    BY <1>8, <2>1 DEF EnqueueWaiting, Held, Underway
  <2>3. QED
    BY <1>8, <2>2, <1>o DEF EnqueueWaiting
<1>9. CASE EnqueueTimeout \/ EnqueueCancelled
  <2>1. Held' \subseteq Held
    BY <1>9 DEF EnqueueTimeout, EnqueueCancelled, Held, Underway
  <2>2. QED
    BY <1>9, <2>1, <1>o DEF EnqueueTimeout, EnqueueCancelled
<1>10. ASSUME NEW w \in Workers, Worker(w) PROVE CursorInv'
  <2>1. /\ Held' \subseteq Held /\ UNCHANGED <<cursor, resync, proc>>
        /\ rows' \subseteq rows \cup Held
    BY <1>10, HeldByWorkers, RowsByWorkers
  <2>2. UNCHANGED <<nodeTip, link>>
    BY <1>10 DEF Worker, Attempt, Take, Preflight, RetryBlock, StoreHeader, StoreTx, Finish,
                 GiveUp, TryLastChance, WorkerStop
  <2>3. QED
    BY <1>o, <2>1, <2>2
<1>11. QED
  BY <1>1, <1>2, <1>3, <1>4, <1>5, <1>6, <1>7, <1>8, <1>9, <1>10, HandlerCases DEF Next, Enqueue

\* The order stays when the queue, the block that waits and what the workers hold do
LEMMA SameOrder ==
    ASSUME OrderInv, UNCHANGED <<queue, waiting, blk>>
    PROVE  OrderInv'
BY DEF OrderInv, Underway

\* ... when the block that waits is let go
LEMMA LessWaiting ==
    ASSUME OrderInv, UNCHANGED <<queue, blk>>, waiting' = NoBlock
    PROVE  OrderInv'
BY DEF OrderInv

\* ... when a worker lets its block go
LEMMA LessHeld ==
    ASSUME TypeOK, OrderInv, NEW w \in Workers, blk' = [blk EXCEPT ![w] = NoBlock],
           UNCHANGED <<queue, waiting>>
    PROVE  OrderInv'
<1>1. \A v \in Workers : blk'[v] = IF v = w THEN NoBlock ELSE blk[v]
  BY DEF TypeOK, VarTypes
<1>2. Underway' \subseteq Underway
  BY <1>1 DEF Underway
<1>3. QED
  BY <1>1, <1>2 DEF OrderInv

\* ... and when a block comes after all that is held
LEMMA OneMore ==
    ASSUME TypeOK, OrderInv, NEW b \in Blocks, UNCHANGED blk, \A x \in Underway : Before(x, b),
           waiting' = NoBlock, queue' = Append(queue, b)
    PROVE  OrderInv'
<1>1. ToSet(queue') = ToSet(queue) \cup {b} /\ queue \in Seq(Blocks)
  BY ToSetAppend DEF TypeOK, VarTypes
<1>2. Ordered(queue')
  BY <1>1, OrderedAppend DEF OrderInv, Underway
<1>3. \A w \in Workers : blk[w] # NoBlock => blk[w] \in Underway
  BY DEF Underway
<1>4. \A w \in Workers : blk[w] # NoBlock => \A x \in ToSet(queue') : Before(blk[w], x)
  BY <1>1, <1>3 DEF OrderInv
<1>5. QED
  BY <1>2, <1>4 DEF OrderInv

\* A worker takes the first of the queue: after what the others hold.
LEMMA TakeInOrder ==
    ASSUME TypeOK, OrderInv, NEW w \in Workers, Take(w)
    PROVE  OrderInv'
<1> DEFINE h == Head(queue)
<1>1. /\ h \in Blocks /\ ToSet(queue) = ToSet(queue') \cup {h} /\ h # NoBlock
      /\ Ordered(queue') /\ \A x \in ToSet(queue') : Before(h, x)
  BY ToSetTail, OrderedTail, ChainAssumption DEF TypeOK, VarTypes, OrderInv, Take
<1> HIDE DEF h
<1>2. /\ pc[w] = "idle" /\ blk[w] = NoBlock /\ waiting' = waiting
      /\ \A v \in Workers : blk'[v] = IF v = w THEN h ELSE blk[v]
  BY DEF Take, TypeOK, VarTypes, AttemptHasBlock, h
<1>3. Underway' \subseteq Underway
  BY <1>1, <1>2 DEF Underway
<1>4. \A v \in Workers : blk'[v] # NoBlock => \A x \in ToSet(queue') : Before(blk'[v], x)
  BY <1>1, <1>2 DEF OrderInv
<1>5. \A v \in Workers : blk[v] # h
  BY <1>1 DEF OrderInv, Before
<1>6. \A u, v \in Workers : u # v /\ blk'[u] = blk'[v] => blk'[u] = NoBlock
  BY <1>2, <1>5 DEF OrderInv
<1>7. QED
  BY <1>1, <1>2, <1>3, <1>4, <1>6 DEF OrderInv

LEMMA OrderStep == TypeOK /\ CursorInv /\ OrderInv /\ [Next]_vars => OrderInv'
<1> SUFFICES ASSUME TypeOK, CursorInv, OrderInv, [Next]_vars PROVE OrderInv'
  OBVIOUS
<1> USE DEF node, workers, tables, reports
<1>1. CASE \/ SwitchChain \/ Start \/ Shutdown \/ RollbackFails \/ UNCHANGED vars
           \/ RolledBack
  BY <1>1, SameOrder
     DEF SwitchChain, Start, Shutdown, RollbackFails, vars, RolledBack, RollbackTo
<1>2. CASE Exit
  <2>1. /\ queue' = << >> /\ waiting' = NoBlock /\ \A w \in Workers : blk'[w] = NoBlock
    BY <1>2 DEF Exit
  <2>2. ToSet(queue') = {} /\ Ordered(queue')
    BY <2>1 DEF ToSet, Ordered
  <2>3. QED
    BY <2>1, <2>2 DEF OrderInv
<1>3. CASE ChainSyncRollForward
  <2>1. PICK b \in Blocks :
          /\ IsNext(b)
          /\ \/ queue' = Append(queue, b) /\ waiting' = NoBlock
             \/ waiting' = b /\ UNCHANGED queue
    BY <1>3, Zenon DEF ChainSyncRollForward, Listening
  <2>2. waiting = NoBlock /\ proc # "down" /\ UNCHANGED blk
    BY <1>3 DEF ChainSyncRollForward, Listening, CursorInv
  <2>3. \A x \in Underway : Before(x, b)
    BY <2>1, <2>2, ForwardOnLine DEF Held
  <2>4. CASE queue' = Append(queue, b) /\ waiting' = NoBlock
    BY <2>2, <2>3, <2>4, OneMore
  <2>5. CASE waiting' = b /\ UNCHANGED queue
    BY <2>2, <2>3, <2>5 DEF OrderInv, Underway
  <2>6. QED
    BY <2>1, <2>4, <2>5
<1>4. CASE EnqueueWaiting
  <2>1. waiting \in Blocks /\ \A x \in Underway : Before(x, waiting)
    BY <1>4 DEF EnqueueWaiting, OrderInv, TypeOK, VarTypes
  <2>2. QED
    BY <1>4, <2>1, OneMore DEF EnqueueWaiting
<1>5. CASE EnqueueTimeout \/ EnqueueCancelled
  BY <1>5, LessWaiting DEF EnqueueTimeout, EnqueueCancelled
<1>6. ASSUME NEW w \in Workers, Worker(w) PROVE OrderInv'
  <2>1. CASE Take(w)
    BY <2>1, TakeInOrder
  <2>2. CASE \/ Preflight(w) \/ RetryBlock(w) \/ StoreHeader(w) \/ StoreTx(w)
             \/ TryLastChance(w) \/ WorkerStop(w)
    BY <2>2, SameOrder DEF Preflight, RetryBlock, StoreHeader, StoreTx, TryLastChance, WorkerStop
  <2>3. CASE Finish(w) \/ GiveUp(w)
    BY <2>3, LessHeld DEF Finish, GiveUp
  <2>4. QED
    BY <1>6, <2>1, <2>2, <2>3 DEF Worker, Attempt
<1>7. QED
  BY <1>1, <1>2, <1>3, <1>4, <1>5, <1>6, HandlerCases DEF Next, Enqueue

LEMMA RowsOnLine ==
    ASSUME OneLine, TypeOK, CursorInv, [Next]_vars
    PROVE  rows \subseteq rows'
<1>1. CASE RolledBack
  <2>1. PICK p \in Points : RollbackRequest(p) /\ rows' = RollbackKeeps(p)
    BY <1>1, Zenon DEF RolledBack, RollbackTo
  <2>2. QED
    BY <2>1, RollbackOnLine
<1>2. ASSUME NEW w \in Workers, GiveUp(w) \/ TryLastChance(w) PROVE rows \subseteq rows'
  BY <1>2, StepFailsType DEF GiveUp, TryLastChance
<1>3. ASSUME NEW w \in Workers, StoreHeader(w) PROVE rows \subseteq rows'
  BY <1>3 DEF StoreHeader, Insert
<1>4. QED
  BY <1>1, <1>2, <1>3, StepCases
     DEF vars, tables, SwitchChain, Start, Shutdown, Exit, ChainSyncRollForward, RollbackFails,
         EnqueueWaiting, EnqueueTimeout, EnqueueCancelled, Take, Preflight, RetryBlock,
         StoreTx, Finish, WorkerStop

LEMMA HeaderStoredStep ==
    NoForks /\ TypeOK /\ CursorInv /\ HeaderStored /\ [Next]_vars => HeaderStored'
<1> SUFFICES ASSUME NoForks, TypeOK, CursorInv, HeaderStored, [Next]_vars,
                    NEW v \in Workers, pc'[v] = "txs"
             PROVE  blk'[v] \in rows'
  BY DEF HeaderStored
<1> USE DEF node, workers, tables, reports
<1>t. VarTypes
  BY DEF TypeOK
<1>k. ASSUME pc[v] = "txs", blk'[v] = blk[v] PROVE blk'[v] \in rows'
  BY <1>k, RowsOnLine DEF HeaderStored, NoForks
<1>1. CASE \/ SwitchChain \/ Shutdown \/ ChainSyncRollForward \/ RolledBack
           \/ RollbackFails \/ EnqueueWaiting \/ EnqueueTimeout \/ EnqueueCancelled
           \/ UNCHANGED vars
  BY <1>1, <1>k
     DEF vars, SwitchChain, Shutdown, ChainSyncRollForward, RolledBack,
         RollbackTo, RollbackFails, EnqueueWaiting, EnqueueTimeout, EnqueueCancelled
<1>2. CASE Start \/ Exit
  BY <1>2 DEF Start, LaunchedWorkers, Exit
<1>3. ASSUME NEW w \in Workers,
             \/ Take(w) \/ Preflight(w) \/ RetryBlock(w) \/ StoreTx(w) \/ Finish(w)
             \/ GiveUp(w) \/ TryLastChance(w) \/ WorkerStop(w)
      PROVE  blk'[v] \in rows'
  <2>1. pc[v] = "txs" /\ blk'[v] = blk[v]
    BY <1>3, <1>t
       DEF VarTypes, Take, Preflight, RetryBlock, StoreTx, Finish, GiveUp, TryLastChance,
           WorkerStop
  <2>2. QED
    BY <2>1, <1>k
<1>4. ASSUME NEW w \in Workers, StoreHeader(w) PROVE blk'[v] \in rows'
  <2>1. CASE v = w
    <3>1. blk[w] \in Blocks /\ rows' = Insert(blk[w]) /\ blk' = blk
      BY <1>4, InAttempt DEF StoreHeader
    <3>2. QED
      BY <2>1, <3>1, InsertOnLine
  <2>2. CASE v # w
    BY <1>4, <1>t, <1>k, <2>2 DEF StoreHeader, VarTypes
  <2>3. QED
    BY <2>1, <2>2
<1>5. QED
  BY <1>1, <1>2, <1>3, <1>4, StepCases

LEMMA LineInit == Init => LineInv
<1> SUFFICES ASSUME Init PROVE LineInv
  OBVIOUS
<1>1. CursorInv
  BY DEF Init, CursorInv, OnChain
<1>2. ToSet(queue) = {} /\ Ordered(queue)
  BY DEF Init, ToSet, Ordered
<1>3. OrderInv /\ HeaderStored
  BY <1>2 DEF Init, OrderInv, HeaderStored
<1>4. QED
  BY <1>1, <1>3, TypeInit DEF LineInv, OrderedLine

LEMMA OrderedLineStep == OneLine /\ OrderedLine /\ [Next]_vars => OrderedLine'
  BY TypeStep, CursorStep, OrderStep DEF OrderedLine

LEMMA LineStep == NoForks /\ LineInv /\ [Next]_vars => LineInv'
  BY OrderedLineStep, HeaderStoredStep DEF LineInv, OrderedLine, NoForks

\* A worker's block is among as many of the oldest as there are workers
LEMMA WorkedOnInTurn ==
    ASSUME NoForks, LineInv, NEW w \in Workers, blk[w] # NoBlock
    PROVE  Pool!AtWork(blk[w]) /\ blk[w] \in Blocks
<1> DEFINE T == {blk[v] : v \in Workers}
<1> DEFINE older == Held \cap Past[blk[w]]
<1>1. blk[w] \in Blocks /\ blk[w] \in Held /\ blk \in [Workers -> Blocks \cup {NoBlock}]
  BY DEF LineInv, OrderedLine, TypeOK, VarTypes, Held, Underway
<1>2. older \subseteq T
  <2> SUFFICES ASSUME NEW x \in Held, x \in Past[blk[w]] PROVE x \in T
    OBVIOUS
  <2>1. x \in Blocks
    BY <1>1, ChainAssumption
  <2>2. ~Before(blk[w], x)
    BY <1>1, <2>1, BeforeIsOrder
  <2>3. x \notin ToSet(queue) /\ x # waiting
    BY <1>1, <2>1, <2>2, ChainAssumption DEF LineInv, OrderedLine, OrderInv, Underway
  <2>4. QED
    BY <2>3 DEF Held, Underway
<1>3. blk \in Surjection(Workers, T)
  BY <1>1 DEF Surjection
<1>4. IsFiniteSet(T) /\ Cardinality(T) <= Cardinality(Workers) /\ IsFiniteSet(Workers)
  BY <1>3, FS_Surjection DEF NoForks, OneLine
<1>5. IsFiniteSet(older) /\ Cardinality(older) <= Cardinality(T)
  BY <1>2, <1>4, FS_Subset
<1>6. /\ Cardinality(older) \in Nat /\ Cardinality(T) \in Nat /\ Cardinality(Workers) \in Nat
  BY <1>4, <1>5, FS_CardinalityType
<1>7. Cardinality(older) <= Cardinality(Workers)
  BY <1>4, <1>5, <1>6
<1>8. Pool!Cardinality(older) = Cardinality(older)
  BY DEF Pool!Cardinality, Cardinality
<1>9. QED
  BY <1>1, <1>7, <1>8 DEF Pool!AtWork, Held

\* What a worker lets go is held by nobody else
LEMMA LetGo ==
    ASSUME OrderedLine, NEW w \in Workers, blk[w] # NoBlock, blk' = [blk EXCEPT ![w] = NoBlock],
           UNCHANGED <<queue, waiting>>
    PROVE  Held' = Held \ {blk[w]}
<1>1. \A v \in Workers : blk'[v] = IF v = w THEN NoBlock ELSE blk[v]
  BY DEF OrderedLine, TypeOK, VarTypes
<1>2. blk[w] \notin ToSet(queue) /\ blk[w] # waiting /\ \A v \in Workers \ {w} : blk[v] # blk[w]
  <2>1. blk[w] \in Underway
    BY DEF Underway
  <2>2. QED
    BY <2>1 DEF OrderedLine, OrderInv, Before
<1>3. Underway' = Underway \ {blk[w]}
  BY <1>1, <1>2 DEF Underway
<1>4. QED
  BY <1>2, <1>3 DEF Held

LEMMA WorkerInPool ==
    ASSUME NoForks, LineInv, NEW w \in Workers, Worker(w)
    PROVE  [Pool!Next]_Pool!vars
<1> USE DEF node, workers, tables, reports
<1>t. OrderedLine /\ TypeOK
  BY DEF LineInv, OrderedLine
<1>1. CASE Take(w)
  <2>1. ToSet(queue) = ToSet(queue') \cup {Head(queue)} /\ Head(queue) # NoBlock
    BY <1>1, <1>t, ToSetTail, ChainAssumption DEF Take, TypeOK, VarTypes
  <2>2. \A v \in Workers : blk'[v] = IF v = w THEN Head(queue) ELSE blk[v]
    BY <1>1, <1>t DEF Take, TypeOK, VarTypes
  <2>3. blk[w] = NoBlock
    BY <1>1, <1>t DEF Take, TypeOK, AttemptHasBlock
  <2>4. Underway' = Underway
    BY <2>1, <2>2, <2>3 DEF Underway
  <2>5. QED
    BY <1>1, <2>4 DEF Take, Pool!vars
<1>2. CASE Preflight(w) \/ RetryBlock(w) \/ StoreTx(w) \/ WorkerStop(w)
  BY <1>2 DEF Preflight, RetryBlock, StoreTx, WorkerStop, Underway, Pool!vars
<1>3. CASE StoreHeader(w)
  <2>1. blk[w] \in Blocks /\ blk[w] # NoBlock /\ rows' = rows \cup {blk[w]}
    BY <1>3, <1>t, InAttempt, InsertOnLine, ChainAssumption DEF StoreHeader
  <2>2. UNCHANGED <<proc, failed, queue, waiting, blk>>
    BY <1>3 DEF StoreHeader
  <2>3. Pool!Store(blk[w])
    BY <2>1, <2>2, WorkedOnInTurn DEF Pool!Store, Underway
  <2>4. QED
    BY <2>1, <2>3 DEF Pool!Next
<1>4. CASE Finish(w)
  <2>1. blk[w] \in rows /\ blk[w] # NoBlock
    BY <1>4, <1>t DEF Finish, LineInv, OrderedLine, HeaderStored, TypeOK, AttemptHasBlock
  <2>2. Held' = Held \ {blk[w]} /\ UNCHANGED <<proc, rows, failed>>
    BY <1>4, <2>1, <1>t, LetGo DEF Finish
  <2>3. Pool!Release(blk[w]) /\ blk[w] \in Blocks
    BY <2>1, <2>2, WorkedOnInTurn DEF Pool!Release, Held
  <2>4. QED
    BY <2>3 DEF Pool!Next
<1>5. CASE GiveUp(w)
  <2>1. blk[w] \in Blocks /\ blk[w] # NoBlock /\ Insert(blk[w]) = rows \cup {blk[w]}
    BY <1>5, <1>t, StepFailsType, InsertOnLine, ChainAssumption DEF GiveUp
  <2>2. rows' \in {rows, rows \cup {blk[w]}}
    BY <1>5, <2>1 DEF GiveUp, StepFails
  <2>3. Held' = Held \ {blk[w]} /\ proc' = proc /\ failed' = failed \cup {blk[w]}
    BY <1>5, <2>1, <1>t, LetGo DEF GiveUp
  <2>4. Pool!Fail(blk[w])
    BY <2>1, <2>2, <2>3, WorkedOnInTurn DEF Pool!Fail, Held
  <2>5. QED
    BY <2>1, <2>4 DEF Pool!Next
<1>6. CASE TryLastChance(w)
  <2>1. blk[w] \in Blocks /\ blk[w] # NoBlock /\ Insert(blk[w]) = rows \cup {blk[w]}
    BY <1>6, <1>t, StepFailsType, InsertOnLine, ChainAssumption DEF TryLastChance
  <2>2. rows' \in {rows, rows \cup {blk[w]}} /\ UNCHANGED <<proc, failed, queue, waiting, blk>>
    BY <1>6, <2>1 DEF TryLastChance, StepFails
  <2>3. CASE rows' = rows
    BY <2>2, <2>3 DEF Underway, Pool!vars
  <2>4. CASE rows' = rows \cup {blk[w]}
    <3>1. Pool!Store(blk[w])
      BY <2>1, <2>2, <2>4, WorkedOnInTurn DEF Pool!Store, Underway
    <3>2. QED
      BY <2>1, <3>1 DEF Pool!Next
  <2>5. QED
    BY <2>2, <2>3, <2>4
<1>7. QED
  BY <1>1, <1>2, <1>3, <1>4, <1>5, <1>6 DEF Worker, Attempt

LEMMA StepInPool == NoForks /\ LineInv /\ [Next]_vars => [Pool!Next]_Pool!vars
<1> SUFFICES ASSUME NoForks, LineInv, [Next]_vars PROVE [Pool!Next]_Pool!vars
  OBVIOUS
<1> USE DEF node, workers, tables, reports
<1>t. TypeOK /\ CursorInv
  BY DEF LineInv, OrderedLine
<1>1. CASE SwitchChain \/ RollbackFails \/ UNCHANGED vars
  BY <1>1 DEF SwitchChain, RollbackFails, vars, Underway, Pool!vars
<1>2. CASE Start
  <2>1. Held = {} /\ UNCHANGED <<queue, waiting, blk, rows>> /\ proc' = "up" /\ failed' = {}
    BY <1>2, <1>t, NothingHeld DEF Start
  <2>2. Pool!Begin
    BY <2>1 DEF Pool!Begin, Held, Underway
  <2>3. QED
    BY <2>2 DEF Pool!Next
<1>3. CASE Shutdown
  BY <1>3 DEF Shutdown, Underway, Pool!Stop, Pool!Next
<1>4. CASE Exit
  <2>1. /\ queue' = << >> /\ waiting' = NoBlock /\ \A w \in Workers : blk'[w] = NoBlock
        /\ proc' = "down" /\ UNCHANGED <<rows, failed>>
    BY <1>4 DEF Exit
  <2>2. ToSet(queue') = {}
    BY <2>1 DEF ToSet
  <2>3. Held' = {}
    BY <2>1, <2>2 DEF Held, Underway
  <2>4. Pool!End
    BY <2>1, <2>3 DEF Pool!End, Held
  <2>5. QED
    BY <2>4 DEF Pool!Next
<1>5. CASE ChainSyncRollForward
  <2>1. PICK b \in Blocks :
          /\ IsNext(b)
          /\ \/ queue' = Append(queue, b) /\ UNCHANGED waiting
             \/ waiting = NoBlock /\ waiting' = b /\ UNCHANGED queue
    BY <1>5, Zenon DEF ChainSyncRollForward, Listening
  <2>2. proc = "up" /\ UNCHANGED <<proc, rows, failed, blk>>
    BY <1>5, <1>t DEF ChainSyncRollForward, Listening, CursorInv
  <2>3. Held' = Held \cup {b} /\ b \notin Held /\ \A x \in Held : Before(x, b)
    BY <1>t, <2>1, <2>2, HeldForward, ForwardOnLine
  <2>4. Pool!Offer(b)
    BY <2>2, <2>3 DEF Pool!Offer, Pool!Youngest, Held, Before
  <2>5. QED
    BY <2>4 DEF Pool!Next
<1>6. CASE RolledBack
  <2>1. PICK p \in Points :
          /\ RollbackRequest(p) /\ rows' = RollbackKeeps(p)
          /\ UNCHANGED <<proc, waiting, queue, blk, failed>>
    BY <1>6, Zenon DEF RolledBack, RollbackTo
  <2>2. rows' = rows
    BY <1>t, <2>1, RollbackOnLine DEF NoForks
  <2>3. QED
    BY <2>1, <2>2 DEF Underway, Pool!vars
<1>7. CASE EnqueueWaiting
  <2>1. ToSet(queue') = ToSet(queue) \cup {waiting} /\ waiting # NoBlock /\ waiting' = NoBlock
    BY <1>7, <1>t, ToSetAppend DEF EnqueueWaiting, TypeOK, VarTypes
  <2>2. Held' = Held
    BY <1>7, <2>1 DEF EnqueueWaiting, Held, Underway
  <2>3. QED
    BY <1>7, <2>2 DEF EnqueueWaiting, Held, Pool!vars
<1>8. CASE EnqueueTimeout \/ EnqueueCancelled
  <2>1. /\ waiting \in Blocks /\ waiting # NoBlock /\ waiting' = NoBlock
        /\ UNCHANGED <<proc, rows, queue, blk>>
    BY <1>8, <1>t DEF EnqueueTimeout, EnqueueCancelled, TypeOK, VarTypes
  <2>2. \A x \in Underway : Before(x, waiting)
    BY <2>1 DEF LineInv, OrderedLine, OrderInv
  <2>3. Held' = Held \ {waiting} /\ waiting \in Held
    BY <2>1, <2>2 DEF Held, Underway, Before
  <2>4. Pool!Youngest(waiting)
    BY <2>1, <2>2, ChainAssumption DEF Pool!Youngest, Before
  <2>5. failed' = failed \cup {waiting} \/ (proc # "up" /\ failed' = failed)
    BY <1>8 DEF EnqueueTimeout, EnqueueCancelled
  <2>6. Pool!TurnAway(waiting)
    BY <2>1, <2>3, <2>4, <2>5 DEF Pool!TurnAway, Held
  <2>7. QED
    BY <2>1, <2>6 DEF Pool!Next
<1>9. QED
  BY <1>1, <1>2, <1>3, <1>4, <1>5, <1>6, <1>7, <1>8, WorkerInPool, HandlerCases DEF Next, Enqueue

\* While the node extends one chain of rising slots the pipeline (main.go, blockWorker and the
\* ChainSync handlers) implements BlockPool, for any number of blocks and workers, any queue and any
\* crashes and errors: blocks are worked on in the order of the chain give or take one for
\* each worker, and let go only once stored or reported.
THEOREM PipelineIsPool ==
    ASSUME NoForks
    PROVE  Spec => ImplementsPool
<1>1. Init => Pool!Init
  <2> SUFFICES ASSUME Init PROVE Pool!Init
    OBVIOUS
  <2>1. ToSet(queue) = {}
    BY DEF Init, ToSet
  <2>2. QED
    BY <2>1 DEF Init, Pool!Init, Underway
<1>2. LineInv /\ [Next]_vars => LineInv'
  BY LineStep
<1>3. LineInv /\ [Next]_vars => [Pool!Next]_Pool!vars
  BY StepInPool
<1>4. QED
  BY <1>1, <1>2, <1>3, LineInit, PTL DEF Spec, ImplementsPool, Pool!Spec

-----------------------------------------------------------------------------
(* A run leaves no more unfinished blocks than it has workers              *)

\* Below a block held, or a row of this run, all is finished, reported, or held as well.
BelowIsKnown ==
    proc # "down" =>
        \A b \in Held \cup NewRows : Past[b] \subseteq acked \cup failed \cup skipped \cup Held

\* The rows of this run are of the chain sent, and before all that waits for a worker.
AheadOfRows ==
    proc # "down" =>
        /\ NewRows \subseteq ChainTo(cursor)
        /\ resync => NewRows = {}
        /\ \A b \in NewRows : \A x \in ToSet(queue) \cup ({waiting} \ {NoBlock}) : Before(b, x)

\* A worker without a connection never runs
Unlaunched == \A w \in Workers \ Connected : pc[w] = "exited"

\* What the node has sent is finished, reported, or held.
SentIsKnown ==
    proc = "up" => ChainTo(cursor) \subseteq acked \cup failed \cup skipped \cup Held

HolesInv == BelowIsKnown /\ AheadOfRows /\ Unlaunched /\ SentIsKnown

\* A worker's step that may store a row stores that of its block, or none
LEMMA RowOfWorker ==
    ASSUME TypeOK, NEW w \in Workers, Worker(w)
    PROVE  /\ rows' \in {rows, rows \cup {blk[w]}}
           /\ rows' # rows => blk[w] \in Blocks /\ blk[w] \in Held
           /\ UNCHANGED <<inherited, skipped>> /\ failed \subseteq failed' /\ acked \subseteq acked'
<1> USE DEF node, workers, tables, reports
<1>1. CASE StoreHeader(w) \/ GiveUp(w) \/ TryLastChance(w)
  <2>1. pc[w] \in {"check", "header", "txs"}
    BY <1>1 DEF StoreHeader, GiveUp, TryLastChance, StepFails
  <2>2. /\ blk[w] \in Blocks /\ blk[w] \in Held
        /\ Insert(blk[w]) \in {rows, rows \cup {blk[w]}}
    BY <1>1, <2>1, InAttempt, OneRowMore DEF Insert
  <2>3. rows' \in {rows, Insert(blk[w])}
    BY <1>1 DEF StoreHeader, GiveUp, TryLastChance, StepFails
  <2>4. UNCHANGED <<inherited, skipped>> /\ failed \subseteq failed' /\ acked \subseteq acked'
    BY <1>1 DEF StoreHeader, GiveUp, TryLastChance
  <2>5. QED
    BY <2>2, <2>3, <2>4
<1>2. CASE \/ Take(w) \/ Preflight(w) \/ RetryBlock(w) \/ StoreTx(w) \/ Finish(w)
           \/ WorkerStop(w)
  BY <1>2 DEF Take, Preflight, RetryBlock, StoreTx, Finish, WorkerStop
<1>3. QED
  BY <1>1, <1>2 DEF Worker, Attempt

\* A worker lets a block go only once it is finished or reported
LEMMA LetGoIsKnown ==
    ASSUME OrderedLine, NEW w \in Workers, Worker(w)
    PROVE  Held \subseteq acked' \cup failed' \cup Held'
<1> USE DEF node, workers, tables, reports
<1>t. TypeOK
  BY DEF OrderedLine
<1>1. CASE Take(w)
  <2>1. ToSet(queue) = ToSet(queue') \cup {Head(queue)} /\ Head(queue) # NoBlock
    BY <1>1, <1>t, ToSetTail, ChainAssumption DEF Take, TypeOK, VarTypes
  <2>2. /\ \A v \in Workers : blk'[v] = IF v = w THEN Head(queue) ELSE blk[v]
        /\ blk[w] = NoBlock
    BY <1>1, <1>t DEF Take, TypeOK, VarTypes, AttemptHasBlock
  <2>3. QED
    BY <1>1, <2>1, <2>2 DEF Take, Held, Underway
<1>2. CASE \/ Preflight(w) \/ RetryBlock(w) \/ StoreHeader(w) \/ StoreTx(w)
           \/ TryLastChance(w) \/ WorkerStop(w)
  BY <1>2
     DEF Held, Underway, Preflight, RetryBlock, StoreHeader, StoreTx, TryLastChance, WorkerStop
<1>3. CASE Finish(w) \/ GiveUp(w)
  <2>1. blk[w] # NoBlock /\ blk[w] \in acked' \cup failed'
    BY <1>3, <1>t, InAttempt, StepFailsType, ChainAssumption DEF Finish, GiveUp
  <2>2. Held' = Held \ {blk[w]}
    BY <1>3, <2>1, LetGo DEF Finish, GiveUp
  <2>3. QED
    BY <2>1, <2>2
<1>4. QED
  BY <1>1, <1>2, <1>3 DEF Worker, Attempt

\* What is known stays known, when no block comes to be held and no row but of a held one
LEMMA StaysKnown ==
    ASSUME BelowIsKnown, proc # "down", UNCHANGED <<inherited, skipped>>,
           acked \subseteq acked', failed \subseteq failed', Held' \subseteq Held,
           rows' \subseteq rows \cup Held, Held \subseteq acked' \cup failed' \cup Held'
    PROVE  BelowIsKnown'
<1>1. Held' \cup NewRows' \subseteq Held \cup NewRows
  BY DEF NewRows
<1>2. QED
  BY <1>1 DEF BelowIsKnown

LEMMA BelowIsKnownStep ==
    OneLine /\ OrderedLine /\ AheadOfRows /\ BelowIsKnown /\ SentIsKnown' /\ [Next]_vars
        => BelowIsKnown'
<1> SUFFICES ASSUME OneLine, OrderedLine, AheadOfRows, BelowIsKnown, SentIsKnown', [Next]_vars
             PROVE  BelowIsKnown'
  OBVIOUS
<1> USE DEF node, workers, tables, reports
<1>t. TypeOK /\ CursorInv
  BY DEF OrderedLine
<1>1. CASE SwitchChain \/ Shutdown \/ RollbackFails \/ UNCHANGED vars
  <2>1. /\ UNCHANGED <<rows, acked, failed, skipped, inherited, queue, waiting, blk>>
        /\ proc' # "down" => proc # "down"
    BY <1>1 DEF SwitchChain, Shutdown, RollbackFails, vars
  <2>2. QED
    BY <2>1 DEF BelowIsKnown, NewRows, Held, Underway
<1>2. CASE Start
  <2>1. UNCHANGED <<rows, queue, waiting, blk>> /\ inherited' = rows /\ proc = "down"
    BY <1>2 DEF Start
  <2>2. Held' = {} /\ NewRows' = {}
    BY <2>1, <1>t, NothingHeld DEF NewRows, Held, Underway
  <2>3. QED
    BY <2>2 DEF BelowIsKnown
<1>3. CASE Exit
  BY <1>3 DEF Exit, BelowIsKnown
<1>4. CASE ChainSyncRollForward
  <2>1. PICK b \in Blocks :
          /\ IsNext(b) /\ cursor' = b
          /\ \/ queue' = Append(queue, b) /\ UNCHANGED waiting
             \/ waiting = NoBlock /\ waiting' = b /\ UNCHANGED queue
    BY <1>4, Zenon DEF ChainSyncRollForward, Listening
  <2>2. proc = "up" /\ UNCHANGED <<proc, rows, inherited, blk>>
    BY <1>4, <1>t DEF ChainSyncRollForward, Listening, CursorInv
  <2>3. Held' = Held \cup {b} /\ ChainTo(b) = ChainTo(cursor) \cup {b}
    BY <1>t, <2>1, <2>2, HeldForward, ForwardOnLine
  <2>4. Held' \cup NewRows' \subseteq ChainTo(cursor')
    BY <1>t, <2>1, <2>2, <2>3 DEF AheadOfRows, CursorInv, NewRows
  <2>5. ChainTo(cursor') \subseteq acked' \cup failed' \cup skipped' \cup Held'
    BY <2>2 DEF SentIsKnown
  <2>6. \A b1 \in ChainTo(cursor') : Past[b1] \subseteq ChainTo(cursor')
    BY <2>1, ChainAssumption DEF ChainTo
  <2>7. QED
    BY <2>4, <2>5, <2>6 DEF BelowIsKnown
<1>5. CASE RolledBack
  <2>1. PICK p \in Points :
          /\ RollbackRequest(p) /\ rows' = RollbackKeeps(p) /\ inherited' = inherited \cap rows'
          /\ UNCHANGED <<proc, waiting, queue, blk>>
    BY <1>5, Zenon DEF RolledBack, RollbackTo
  <2>2. proc # "down" /\ resync /\ Held = {} /\ rows' = rows
    BY <1>t, <2>1, RollbackOnLine DEF RollbackRequest, Listening, CursorInv
  <2>3. Held' = {} /\ NewRows' = {}
    BY <2>1, <2>2 DEF AheadOfRows, NewRows, Held, Underway
  <2>4. QED
    BY <2>3 DEF BelowIsKnown
<1>6. CASE EnqueueWaiting
  <2>1. ToSet(queue') = ToSet(queue) \cup {waiting} /\ waiting # NoBlock /\ waiting' = NoBlock
    BY <1>6, <1>t, ToSetAppend DEF EnqueueWaiting, TypeOK, VarTypes
  <2>2. Held' = Held /\ UNCHANGED <<proc, rows, acked, failed, skipped, inherited>>
    BY <1>6, <2>1 DEF EnqueueWaiting, Held, Underway
  <2>3. QED
    BY <2>2 DEF BelowIsKnown, NewRows
<1>7. CASE EnqueueTimeout \/ EnqueueCancelled
  <2>1. /\ waiting \in Blocks /\ waiting # NoBlock /\ waiting' = NoBlock /\ proc # "down"
        /\ UNCHANGED <<proc, rows, acked, queue, blk, skipped, inherited>>
        /\ failed \subseteq failed' /\ (proc' = "up" => waiting \in failed')
    BY <1>7, <1>t DEF EnqueueTimeout, EnqueueCancelled, TypeOK, VarTypes, DownIsEmpty
  <2>2. Held = Held' \cup {waiting} /\ NewRows' = NewRows /\ waiting \notin Held'
    <3>1. \A x \in Underway : Before(x, waiting)
      BY <2>1 DEF OrderedLine, OrderInv
    <3>2. QED
      BY <2>1, <3>1 DEF Held, Underway, NewRows, Before
  <2>3. ASSUME NEW b \in Held' \cup NewRows' PROVE waiting \notin Past[b]
    <3>1. Before(b, waiting)
      BY <2>1, <2>2, <2>3 DEF OrderedLine, OrderInv, AheadOfRows, Held, Underway
    <3>2. b \in Blocks
      BY <2>1, <3>1, ChainAssumption DEF Before
    <3>3. QED
      BY <2>1, <3>1, <3>2, BeforeIsOrder
  <2>4. QED
    BY <2>1, <2>2, <2>3 DEF BelowIsKnown
<1>8. ASSUME NEW w \in Workers, Worker(w) PROVE BelowIsKnown'
  <2>1. Held' \subseteq Held /\ UNCHANGED proc /\ rows' \subseteq rows \cup Held
    BY <1>t, <1>8, HeldByWorkers, RowsByWorkers
  <2>2. /\ UNCHANGED <<inherited, skipped>> /\ acked \subseteq acked' /\ failed \subseteq failed'
        /\ Held \subseteq acked' \cup failed' \cup Held'
    BY <1>t, <1>8, RowOfWorker, LetGoIsKnown
  <2>3. CASE proc # "down"
    BY <2>1, <2>2, <2>3, StaysKnown
  <2>4. CASE proc = "down"
    BY <2>1, <2>4 DEF BelowIsKnown
  <2>5. QED
    BY <2>3, <2>4
<1>9. QED
  BY <1>1, <1>2, <1>3, <1>4, <1>5, <1>6, <1>7, <1>8, HandlerCases DEF Next, Enqueue

LEMMA SentIsKnownStep == OneLine /\ OrderedLine /\ SentIsKnown /\ [Next]_vars => SentIsKnown'
<1> SUFFICES ASSUME OneLine, OrderedLine, SentIsKnown, [Next]_vars, proc' = "up"
             PROVE  ChainTo(cursor') \subseteq acked' \cup failed' \cup skipped' \cup Held'
  BY DEF SentIsKnown
<1> USE DEF node, workers, tables, reports
<1>t. TypeOK /\ CursorInv
  BY DEF OrderedLine
<1>o. ASSUME UNCHANGED <<proc, cursor, skipped>>, acked \subseteq acked', failed \subseteq failed',
             Held \subseteq acked' \cup failed' \cup Held'
      PROVE  ChainTo(cursor') \subseteq acked' \cup failed' \cup skipped' \cup Held'
  <2>1. ChainTo(cursor') = ChainTo(cursor)
    BY <1>o
  <2>2. QED
    BY <1>o, <2>1 DEF SentIsKnown
<1>1. CASE SwitchChain \/ RollbackFails \/ UNCHANGED vars
  BY <1>1, <1>o DEF SwitchChain, RollbackFails, vars, Held, Underway
<1>2. CASE Start
  BY <1>2 DEF Start
<1>3. CASE Shutdown \/ Exit
  BY <1>3 DEF Shutdown, Exit
<1>4. CASE ChainSyncRollForward
  <2>1. PICK b \in Blocks :
          /\ IsNext(b) /\ cursor' = b
          /\ \/ queue' = Append(queue, b) /\ UNCHANGED waiting
             \/ waiting = NoBlock /\ waiting' = b /\ UNCHANGED queue
    BY <1>4, Zenon DEF ChainSyncRollForward, Listening
  <2>2. proc = "up" /\ UNCHANGED <<proc, acked, failed, skipped, blk>>
    BY <1>4, <1>t DEF ChainSyncRollForward, Listening, CursorInv
  <2>3. Held' = Held \cup {b} /\ ChainTo(b) = ChainTo(cursor) \cup {b}
    BY <1>t, <2>1, <2>2, HeldForward, ForwardOnLine
  <2>4. QED
    BY <2>1, <2>2, <2>3 DEF SentIsKnown
<1>5. CASE RolledBack
  <2>1. PICK p \in Points :
          /\ RollbackRequest(p) /\ cursor' = p /\ skipped' = skipped \cap ChainTo(p)
          /\ UNCHANGED <<proc, waiting, queue, blk, acked, failed>>
    BY <1>5, Zenon DEF RolledBack, RollbackTo
  <2>2. ChainTo(p) = ChainTo(cursor) /\ Held' = Held
    BY <1>t, <2>1, RollbackOnLine DEF Held, Underway
  <2>3. QED
    BY <2>1, <2>2 DEF SentIsKnown
<1>6. CASE EnqueueWaiting
  <2>1. ToSet(queue') = ToSet(queue) \cup {waiting} /\ waiting # NoBlock /\ waiting' = NoBlock
    BY <1>6, <1>t, ToSetAppend DEF EnqueueWaiting, TypeOK, VarTypes
  <2>2. Held' = Held
    BY <1>6, <2>1 DEF EnqueueWaiting, Held, Underway
  <2>3. QED
    BY <1>6, <1>o, <2>2 DEF EnqueueWaiting
<1>7. CASE EnqueueTimeout
  <2>1. Held \subseteq Held' \cup {waiting} /\ failed' = failed \cup {waiting}
    BY <1>7 DEF EnqueueTimeout, Held, Underway
  <2>2. QED
    BY <1>7, <1>o, <2>1 DEF EnqueueTimeout
<1>8. CASE EnqueueCancelled
  BY <1>8 DEF EnqueueCancelled
<1>9. ASSUME NEW w \in Workers, Worker(w)
      PROVE  ChainTo(cursor') \subseteq acked' \cup failed' \cup skipped' \cup Held'
  <2>1. UNCHANGED <<proc, cursor, skipped>> /\ acked \subseteq acked' /\ failed \subseteq failed'
    BY <1>t, <1>9, HeldByWorkers, RowOfWorker
  <2>2. Held \subseteq acked' \cup failed' \cup Held'
    BY <1>9, LetGoIsKnown
  <2>3. QED
    BY <1>o, <2>1, <2>2
<1>10. QED
  BY <1>1, <1>2, <1>3, <1>4, <1>5, <1>6, <1>7, <1>8, <1>9, HandlerCases DEF Next, Enqueue

LEMMA AheadStep == OneLine /\ OrderedLine /\ AheadOfRows /\ [Next]_vars => AheadOfRows'
<1> SUFFICES ASSUME OneLine, OrderedLine, AheadOfRows, [Next]_vars PROVE AheadOfRows'
  OBVIOUS
<1> USE DEF node, workers, tables, reports
<1>t. TypeOK /\ CursorInv
  BY DEF OrderedLine
<1> DEFINE Ahead == ToSet(queue) \cup ({waiting} \ {NoBlock})
<1>o. ASSUME proc' # "down" => proc # "down", UNCHANGED <<cursor, resync, rows, inherited>>,
             Ahead' \subseteq Ahead
      PROVE  AheadOfRows'
  BY <1>o DEF AheadOfRows, NewRows, ChainTo
<1>1. CASE SwitchChain \/ Shutdown \/ RollbackFails \/ UNCHANGED vars
  BY <1>1, <1>o DEF SwitchChain, Shutdown, RollbackFails, vars
<1>2. CASE Start
  BY <1>2 DEF Start, AheadOfRows, NewRows
<1>3. CASE Exit
  BY <1>3 DEF Exit, AheadOfRows
<1>4. CASE ChainSyncRollForward
  <2>1. PICK b \in Blocks :
          /\ IsNext(b) /\ cursor' = b
          /\ \/ queue' = Append(queue, b) /\ UNCHANGED waiting
             \/ waiting' = b /\ UNCHANGED queue
    BY <1>4, Zenon DEF ChainSyncRollForward
  <2>2. proc = "up" /\ UNCHANGED <<proc, rows, inherited, resync>> /\ ~resync
    BY <1>4, <1>t DEF ChainSyncRollForward, Listening, CursorInv
  <2>3. ToSet(Append(queue, b)) = ToSet(queue) \cup {b}
    BY <1>t, ToSetAppend DEF TypeOK, VarTypes
  <2>4. Ahead' \subseteq Ahead \cup {b}
    BY <2>1, <2>3
  <2>5. ChainTo(b) = ChainTo(cursor) \cup {b} /\ ChainTo(b) = Past[b] /\ b \notin ChainTo(cursor)
    BY <2>1, ChainAssumption DEF IsNext, ChainTo
  <2>6. \A r \in NewRows : Before(r, b)
    BY <2>2, <2>5 DEF AheadOfRows, Before
  <2>7. QED
    BY <2>1, <2>2, <2>4, <2>5, <2>6 DEF AheadOfRows, NewRows
<1>5. CASE RolledBack
  <2>1. PICK p \in Points :
          /\ RollbackRequest(p) /\ rows' = RollbackKeeps(p) /\ inherited' = inherited \cap rows'
    BY <1>5, Zenon DEF RolledBack, RollbackTo
  <2>2. proc # "down" /\ resync /\ rows' = rows
    BY <1>t, <2>1, RollbackOnLine DEF RollbackRequest, Listening, CursorInv
  <2>3. NewRows' = {}
    BY <2>1, <2>2 DEF AheadOfRows, NewRows
  <2>4. QED
    BY <2>3 DEF AheadOfRows
<1>6. CASE EnqueueWaiting
  <2>1. ToSet(queue') = ToSet(queue) \cup {waiting} /\ waiting # NoBlock /\ waiting' = NoBlock
    BY <1>6, <1>t, ToSetAppend DEF EnqueueWaiting, TypeOK, VarTypes
  <2>2. QED
    BY <1>6, <1>o, <2>1 DEF EnqueueWaiting
<1>7. CASE EnqueueTimeout \/ EnqueueCancelled
  BY <1>7, <1>o DEF EnqueueTimeout, EnqueueCancelled
<1>8. ASSUME NEW w \in Workers, Worker(w) PROVE AheadOfRows'
  <2>1. UNCHANGED <<cursor, resync, proc, waiting, inherited>>
    BY <1>t, <1>8, HeldByWorkers, RowOfWorker
       DEF Worker, Attempt, Take, Preflight, RetryBlock, StoreHeader, StoreTx, Finish, GiveUp,
           TryLastChance, WorkerStop
  <2>2. Ahead' \subseteq Ahead
    <3>1. CASE Take(w)
      <4>1. ToSet(queue) = ToSet(queue') \cup {Head(queue)}
        BY <1>t, <3>1, ToSetTail DEF Take, TypeOK, VarTypes
      <4>2. QED
        BY <2>1, <4>1
    <3>2. CASE ~Take(w)
      BY <1>8, <2>1, <3>2
         DEF Worker, Attempt, Preflight, RetryBlock, StoreHeader, StoreTx, Finish, GiveUp,
             TryLastChance, WorkerStop
    <3>3. QED
      BY <3>1, <3>2
  <2>3. CASE rows' = rows
    BY <1>o, <2>1, <2>2, <2>3
  <2>4. CASE rows' # rows
    <3>1. rows' = rows \cup {blk[w]} /\ blk[w] \in Blocks /\ blk[w] \in Held
      BY <1>t, <1>8, <2>4, RowOfWorker
    <3>2. NewRows' \subseteq NewRows \cup {blk[w]}
      BY <2>1, <3>1 DEF NewRows
    <3>3. blk[w] # NoBlock /\ blk[w] \in Underway
      BY <3>1, ChainAssumption DEF Underway
    <3>4. \A x \in Ahead : Before(blk[w], x)
      BY <3>3 DEF OrderedLine, OrderInv
    <3>5. proc # "down" => blk[w] \in ChainTo(cursor) /\ ~resync
      BY <1>t, <3>1 DEF CursorInv
    <3>6. ChainTo(cursor') = ChainTo(cursor)
      BY <2>1
    <3>7. QED
      BY <2>1, <2>2, <3>2, <3>4, <3>5, <3>6 DEF AheadOfRows
  <2>5. QED
    BY <2>3, <2>4
<1>9. QED
  BY <1>1, <1>2, <1>3, <1>4, <1>5, <1>6, <1>7, <1>8, HandlerCases DEF Next, Enqueue

LEMMA UnlaunchedStep == TypeOK /\ Unlaunched /\ [Next]_vars => Unlaunched'
<1> SUFFICES ASSUME TypeOK, Unlaunched, [Next]_vars, NEW v \in Workers \ Connected
             PROVE  pc'[v] = "exited"
  BY DEF Unlaunched
<1>t. VarTypes /\ pc[v] = "exited"
  BY DEF TypeOK, Unlaunched
<1>1. CASE Start \/ Exit
  BY <1>1 DEF Start, LaunchedWorkers, Exit
<1>2. ASSUME NEW w \in Workers, Worker(w) PROVE pc'[v] = "exited"
  <2>1. w # v
    BY <1>t, <1>2
       DEF Worker, Attempt, Take, Preflight, RetryBlock, StoreHeader, StoreTx, Finish, GiveUp,
           TryLastChance, WorkerStop, StepFails
  <2>2. pc'[v] = pc[v]
    BY <1>t, <1>2, <2>1
       DEF VarTypes, Worker, Attempt, Take, Preflight, RetryBlock, StoreHeader, StoreTx, Finish,
           GiveUp, TryLastChance, WorkerStop
  <2>3. QED
    BY <1>t, <2>2
<1>3. CASE \/ SwitchChain \/ Shutdown \/ Handler \/ Enqueue \/ UNCHANGED vars
  BY <1>t, <1>3, HandlerCases
     DEF vars, workers, SwitchChain, Shutdown, ChainSyncRollForward,
         RolledBack, RollbackTo, RollbackFails, Enqueue, EnqueueWaiting, EnqueueTimeout,
         EnqueueCancelled
<1>4. QED
  BY <1>1, <1>2, <1>3 DEF Next

\* While the process runs, the unfinished blocks are in the hands of workers
LEMMA HolesInHands ==
    ASSUME OneLine, OrderedLine, HolesInv, proc # "down"
    PROVE  HolesBounded
<1>t. TypeOK
  BY DEF OrderedLine
<1> DEFINE T == {blk[w] : w \in Connected}
<1>1. Unfinished \subseteq T
  <2> SUFFICES ASSUME NEW c \in Unfinished PROVE c \in T
    OBVIOUS
  <2>1. PICK b \in NewRows : c \in Past[b]
    BY DEF Unfinished
  <2>2. c \in Held /\ c \in Blocks /\ b \in Blocks
    BY <1>t, <2>1 DEF Unfinished, HolesInv, BelowIsKnown, NewRows, TypeOK, VarTypes
  <2>3. ~Before(b, c)
    BY <2>1, <2>2, BeforeIsOrder
  <2>4. c \notin ToSet(queue) /\ c # waiting
    BY <2>1, <2>2, <2>3, ChainAssumption DEF HolesInv, AheadOfRows
  <2>5. PICK w \in Workers : blk[w] = c /\ c # NoBlock
    BY <2>2, <2>4, ChainAssumption DEF Held, Underway
  <2>6. w \in Connected
    BY <1>t, <2>5 DEF HolesInv, Unlaunched, TypeOK, AttemptHasBlock
  <2>7. QED
    BY <2>5, <2>6
<1>2. IsFiniteSet(Connected)
  BY PipelineAssumption, FS_Subset DEF OneLine
<1>3. [w \in Connected |-> blk[w]] \in Surjection(Connected, T)
  BY DEF Surjection
<1>4. IsFiniteSet(T) /\ Cardinality(T) <= Cardinality(Connected)
  BY <1>2, <1>3, FS_Surjection
<1>5. IsFiniteSet(Unfinished) /\ Cardinality(Unfinished) <= Cardinality(T)
  BY <1>1, <1>4, FS_Subset
<1>6. /\ Cardinality(Unfinished) \in Nat /\ Cardinality(T) \in Nat
      /\ Cardinality(Connected) \in Nat
  BY <1>2, <1>4, <1>5, FS_CardinalityType
<1>7. QED
  BY <1>4, <1>5, <1>6 DEF HolesBounded

\* A process that is down changes no hole
LEMMA HolesStayDown ==
    ASSUME TypeOK, HolesBounded, [Next]_vars, proc' = "down"
    PROVE  HolesBounded'
<1>1. UNCHANGED <<rows, acked, failed, skipped, inherited>>
  <2>1. CASE Exit
    BY <2>1 DEF Exit, tables, reports
  <2>2. CASE ~Exit
    <3>1. proc = "down" /\ ~Start
      BY <2>2, StepCases
         DEF vars, node, SwitchChain, Start, Shutdown, ChainSyncRollForward,
             RolledBack, RollbackTo, RollbackFails, EnqueueWaiting, EnqueueTimeout,
             EnqueueCancelled, Take, Preflight, RetryBlock, StoreHeader, StoreTx, Finish, GiveUp,
             TryLastChance, WorkerStop
    <3>2. waiting = NoBlock /\ link = "closed" /\ \A w \in Workers : pc[w] = "exited"
      BY <3>1 DEF TypeOK, DownIsEmpty
    <3>3. QED
      BY <2>2, <3>1, <3>2, StepCases
         DEF vars, tables, reports, SwitchChain, Shutdown, ChainSyncRollForward, Listening,
             RolledBack, RollbackTo, RollbackRequest, RollbackFails, EnqueueWaiting,
             EnqueueTimeout, EnqueueCancelled, Take, Preflight, RetryBlock, StoreHeader,
             StoreTx, Finish, GiveUp, StepFails, TryLastChance, WorkerStop
  <2>3. QED
    BY <2>1, <2>2
<1>2. Unfinished' = Unfinished
  BY <1>1 DEF Unfinished, NewRows
<1>3. QED
  BY <1>2 DEF HolesBounded

\* While the node extends one chain, its slots rising or not, a run of the process leaves
\* no more blocks without their row or some of their transactions, below the rows it has
\* stored or among them, than it has workers with a connection (main.go,
\* startBlockWorkers), apart from those it has reported, for any blocks, workers, queue,
\* errors, shutdowns and crashes.
THEOREM HolesAreFew ==
    ASSUME OneLine
    PROVE  Spec => []HolesBounded
<1>1. Init => OrderedLine /\ HolesInv /\ HolesBounded
  <2> SUFFICES ASSUME Init PROVE OrderedLine /\ HolesInv /\ HolesBounded
    OBVIOUS
  <2>1. /\ NewRows = {} /\ Unfinished = {} /\ proc = "down"
        /\ \A w \in Workers : pc[w] = "exited"
    BY DEF Init, NewRows, Unfinished
  <2>2. IsFiniteSet(Connected)
    BY PipelineAssumption, FS_Subset DEF OneLine
  <2>3. Cardinality(Unfinished) <= Cardinality(Connected)
    BY <2>1, <2>2, FS_EmptySet, FS_CardinalityType
  <2>4. QED
    BY <2>1, <2>3, LineInit
       DEF LineInv, HolesInv, BelowIsKnown, AheadOfRows, Unlaunched, SentIsKnown, HolesBounded
<1>2. OrderedLine /\ [Next]_vars => OrderedLine'
  BY OrderedLineStep
<1>3. OrderedLine /\ HolesInv /\ [Next]_vars => HolesInv'
  BY BelowIsKnownStep, AheadStep, UnlaunchedStep, SentIsKnownStep DEF HolesInv, OrderedLine
<1> DEFINE DownBounded == proc = "down" => HolesBounded
<1>4. OrderedLine /\ HolesInv /\ DownBounded => HolesBounded
  BY HolesInHands
<1>5. TypeOK /\ HolesBounded /\ [Next]_vars => DownBounded'
  BY HolesStayDown
<1>6. HolesBounded => DownBounded
  OBVIOUS
<1> HIDE DEF DownBounded
<1>7. OrderedLine => TypeOK
  BY DEF OrderedLine
<1>8. QED
  BY <1>1, <1>2, <1>3, <1>4, <1>5, <1>6, <1>7, PTL DEF Spec
=============================================================================
