----------------------- MODULE WorkerConnectionsProofs -----------------------
(***************************************************************************)
(* Proofs about WorkerConnections, for any number of workers: type         *)
(* correctness, that no pool outlives its replacement, that a block is     *)
(* given up only for a cause, and that a worker that hangs does for good.  *)
(***************************************************************************)
EXTENDS WorkerConnections, TLAPS

-----------------------------------------------------------------------------
(* The type invariant and the pools                                        *)

\* There is always a number for a new pool, and it is the number of no pool in use.
LEMMA FreshIsNew ==
    ASSUME TypeOK, NEW w \in Workers
    PROVE  Fresh(w) \in PoolNumbers /\ Fresh(w) # slot[w] /\ Fresh(w) # held[w]
<1> DEFINE used == {slot[w], held[w]} \cup (IF w = 1 THEN {rpool} ELSE {})
                                      \cup (IF w = hworker THEN {hpool} ELSE {})
<1>1. \E p \in PoolNumbers : p \notin used
  <2> DEFINE a == slot[w]  b == held[w]  c == rpool  d == hpool
  <2>1. used \subseteq {a, b, c, d}
    OBVIOUS
  <2>2. \E p \in {1, 2, 3, 4, 5} : p # a /\ p # b /\ p # c /\ p # d
    OBVIOUS
  <2>3. PoolNumbers = {1, 2, 3, 4, 5}
    BY DEF PoolNumbers
  <2> QED
    BY <2>1, <2>2, <2>3
<1>2. Fresh(w) = CHOOSE p \in PoolNumbers : p \notin used
  BY DEF Fresh
<1> QED
  BY <1>1, <1>2

\* RecoverConnection leaves the pools well typed, and open only those of the slice.
LEMMA RecoverKeepsPools ==
    ASSUME TypeOK, OpenPoolsAreCurrent, NEW w \in Workers, RecoverConnection(w)
    PROVE  /\ slot' \in [Workers -> PoolNumbers]
           /\ open' \subseteq Workers \X PoolNumbers
           /\ OpenPoolsAreCurrent'
           /\ server = "up" => <<w, slot'[w]>> \in open'
<1>1. CASE server = "up"
  <2>1. Fresh(w) \in PoolNumbers
    BY FreshIsNew
  <2>2. /\ slot' = [slot EXCEPT ![w] = Fresh(w)]
        /\ open' = (open \ {<<w, slot[w]>>}) \cup {<<w, Fresh(w)>>}
    BY <1>1 DEF RecoverConnection
  <2>3. slot' \in [Workers -> PoolNumbers] /\ slot'[w] = Fresh(w)
    BY <2>1, <2>2 DEF TypeOK
  <2>4. open' \subseteq Workers \X PoolNumbers
    BY <2>1, <2>2 DEF TypeOK
  <2>5. OpenPoolsAreCurrent'
    <3> SUFFICES ASSUME NEW v \in Workers, NEW p \in PoolNumbers, <<v, p>> \in open'
                 PROVE  p = slot'[v]
      BY DEF OpenPoolsAreCurrent, IsOpen
    <3>1. CASE v = w
      BY <2>2, <2>3, <3>1 DEF OpenPoolsAreCurrent, IsOpen
    <3>2. CASE v # w
      BY <2>2, <3>2 DEF OpenPoolsAreCurrent, IsOpen, TypeOK
    <3> QED
      BY <3>1, <3>2
  <2> QED
    BY <2>2, <2>3, <2>4, <2>5
<1>2. CASE server # "up"
  BY <1>2 DEF RecoverConnection, OpenPoolsAreCurrent, IsOpen, TypeOK
<1> QED
  BY <1>1, <1>2

PoolInv == TypeOK /\ OpenPoolsAreCurrent

LEMMA InitPoolInv == Init => PoolInv
<1> USE ConnectionAssumption
<1> SUFFICES ASSUME Init PROVE PoolInv
  OBVIOUS
<1>1. N \in Workers /\ 1 \in PoolNumbers /\ 1 \in 1 .. Stages
  BY DEF Workers, PoolNumbers
<1>2. 0 \in 0 .. MaxRetries + 1 /\ 0 \in 0 .. MaxTxRetries
  OBVIOUS
<1>3. TypeOK
  BY <1>1, <1>2 DEF Init, TypeOK
<1>4. OpenPoolsAreCurrent
  BY <1>1 DEF Init, OpenPoolsAreCurrent, IsOpen
<1> QED
  BY <1>3, <1>4 DEF PoolInv

\* Where the pools are left alone, so is the invariant about them.
LEMMA SamePools ==
    ASSUME OpenPoolsAreCurrent, UNCHANGED pools
    PROVE  OpenPoolsAreCurrent'
  BY DEF pools, OpenPoolsAreCurrent, IsOpen

LEMMA StepPoolInv == PoolInv /\ [Next]_vars => PoolInv'
<1> SUFFICES ASSUME TypeOK, OpenPoolsAreCurrent, [Next]_vars
             PROVE  TypeOK' /\ OpenPoolsAreCurrent'
  BY DEF PoolInv
<1> USE ConnectionAssumption
<1>1. ASSUME NEW w \in Workers, PickBlock(w)
      PROVE  TypeOK' /\ UNCHANGED pools
  BY <1>1 DEF PickBlock, Goto, TypeOK, server_, pools, handler, checker
<1>2. ASSUME NEW w \in Workers, HealthCheck(w)
      PROVE  TypeOK' /\ UNCHANGED pools
  BY <1>2 DEF HealthCheck, Goto, TypeOK, server_, pools, handler, checker
<1>3. ASSUME NEW w \in Workers, Recover(w)
      PROVE  TypeOK' /\ OpenPoolsAreCurrent'
  <2>1. RecoverConnection(w)
    BY <1>3 DEF Recover
  <2>2. /\ slot' \in [Workers -> PoolNumbers]
        /\ open' \subseteq Workers \X PoolNumbers
        /\ OpenPoolsAreCurrent'
    BY <2>1, RecoverKeepsPools
  <2>3. held' \in [Workers -> PoolNumbers]
    BY <1>3, <2>2 DEF Recover, TypeOK
  <2> QED
    BY <1>3, <2>2, <2>3 DEF Recover, Goto, TypeOK, server_, handler, checker
<1>4. ASSUME NEW w \in Workers, Preflight(w) \/ PreflightFails(w)
      PROVE  TypeOK' /\ UNCHANGED pools
  BY <1>4 DEF Preflight, PreflightFails, Drop, Goto, TypeOK, server_, pools, handler, checker
<1>5. ASSUME NEW w \in Workers, PreflightRetry(w)
      PROVE  TypeOK' /\ UNCHANGED pools
  <2>1. tries[w] + 1 \in 0 .. MaxRetries + 1
    BY <1>5 DEF PreflightRetry, TypeOK
  <2>2. tries' \in [Workers -> 0 .. MaxRetries + 1]
    BY <1>5, <2>1 DEF PreflightRetry, TypeOK
  <2> QED
    BY <1>5, <2>2 DEF PreflightRetry, Goto, TypeOK, server_, pools, handler, checker
<1>6. ASSUME NEW w \in Workers, BeginTx(w) \/ AsksPool(w) \/ NestedQuery(w)
      PROVE  TypeOK' /\ UNCHANGED pools
  BY <1>6 DEF BeginTx, AsksPool, NestedQuery, Goto, TypeOK, server_, pools, handler,
              checker
<1>7. ASSUME NEW w \in Workers, BeginFails(w) \/ TxRefused(w) \/ CutTx(w)
      PROVE  TypeOK' /\ UNCHANGED pools
  <2>1. \/ RetryTx(w)
        \/ Drop(w) /\ UNCHANGED txTries
    BY <1>7 DEF BeginFails, TxRefused, CutTx
  <2>2. txTries' \in [Workers -> 0 .. MaxTxRetries]
    <3>1. txTries[w] < MaxTxRetries => txTries[w] + 1 \in 0 .. MaxTxRetries
      BY DEF TypeOK
    <3> QED
      BY <2>1, <3>1 DEF RetryTx, TypeOK
  <2>3. /\ pc' \in [Workers -> {"idle", "health", "recover", "retry", "preflight", "begin",
                                "open", "nested", "answered", "last"}]
        /\ result' \in [Workers -> {"none", "done", "dropped"}]
    BY <2>1 DEF RetryTx, Drop, Goto, TypeOK
  <2> QED
    BY <1>7, <2>2, <2>3 DEF BeginFails, TxRefused, CutTx, TypeOK, server_, pools, handler, checker
<1>8. ASSUME NEW w \in Workers, CommitTx(w)
      PROVE  TypeOK' /\ UNCHANGED pools
  <2>1. stage[w] < Stages => stage[w] + 1 \in 1 .. Stages
    BY DEF TypeOK
  <2>2. stage' \in [Workers -> 1 .. Stages]
    BY <1>8, <2>1 DEF CommitTx, TypeOK
  <2> QED
    BY <1>8, <2>2 DEF CommitTx, Goto, TypeOK, server_, pools, handler, checker
<1>9. ASSUME RollbackStarts \/ RollbackBegins \/ RollbackEnds
      PROVE  TypeOK' /\ UNCHANGED pools
  <2>1. 1 \in Workers
    BY DEF Workers
  <2> QED
    BY <1>9, <2>1 DEF RollbackStarts, RollbackBegins, RollbackEnds, TypeOK, server_, pools,
                      worker, checker
<1>10. ASSUME CheckNext
       PROVE  TypeOK' /\ UNCHANGED pools
  <2>1. hworker' \in Workers
    BY <1>10 DEF CheckNext, TypeOK, Workers
  <2> QED
    BY <1>10, <2>1 DEF CheckNext, TypeOK, server_, pools, worker, handler
<1>11. ASSUME CheckEnds
       PROVE  TypeOK' /\ UNCHANGED pools
  BY <1>11 DEF CheckEnds, TypeOK, server_, pools, worker, handler
<1>12. ASSUME CheckerRecovers
       PROVE  TypeOK' /\ OpenPoolsAreCurrent'
  <2>1. hworker \in Workers /\ RecoverConnection(hworker)
    BY <1>12 DEF CheckerRecovers, TypeOK
  <2>2. /\ slot' \in [Workers -> PoolNumbers]
        /\ open' \subseteq Workers \X PoolNumbers
        /\ OpenPoolsAreCurrent'
    BY <2>1, RecoverKeepsPools
  <2> QED
    BY <1>12, <2>2 DEF CheckerRecovers, TypeOK, server_, worker, handler
<1>13. ASSUME ServerStops \/ ServerStarts
       PROVE  TypeOK' /\ UNCHANGED pools
  BY <1>13 DEF ServerStops, ServerStarts, TypeOK, pools, worker, handler, checker
<1>14. ASSUME NEW w \in Workers, LastAttempt(w)
       PROVE  TypeOK' /\ OpenPoolsAreCurrent'
  <2>1. RecoverConnection(w)
    BY <1>14 DEF LastAttempt
  <2>2. /\ slot' \in [Workers -> PoolNumbers]
        /\ open' \subseteq Workers \X PoolNumbers
        /\ OpenPoolsAreCurrent'
    BY <2>1, RecoverKeepsPools
  <2>3. /\ held' \in [Workers -> PoolNumbers]
        /\ tries' \in [Workers -> 0 .. MaxRetries + 1]
        /\ stage' \in [Workers -> 1 .. Stages]
    <3>1. MaxRetries + 1 \in 0 .. MaxRetries + 1 /\ 1 \in 1 .. Stages
      OBVIOUS
    <3> QED
      BY <1>14, <2>2, <3>1 DEF LastAttempt, TypeOK
  <2> QED
    BY <1>14, <2>2, <2>3 DEF LastAttempt, Goto, TypeOK, server_, handler, checker
<1>15. ASSUME UNCHANGED vars
       PROVE  TypeOK' /\ UNCHANGED pools
  BY <1>15 DEF vars, TypeOK, server_, pools, worker, handler, checker
<1> QED
  BY <1>1, <1>2, <1>3, <1>4, <1>5, <1>6, <1>7, <1>8, <1>9, <1>10, <1>11, <1>12, <1>13,
     <1>14, <1>15, SamePools DEF Next, Attempt

\* Every reachable state is well typed.
THEOREM ConnectionsTyped == Spec => []TypeOK
  BY InitPoolInv, StepPoolInv, PTL DEF Spec, PoolInv

\* At most one pool is open for a worker, and it is the one the manager keeps, for any
\* number of workers, retries and transactions.
THEOREM NoPoolOutlivesReplacement == Spec => []OpenPoolsAreCurrent
  BY InitPoolInv, StepPoolInv, PTL DEF Spec, PoolInv

-----------------------------------------------------------------------------
(* Blocks are given up only for a cause                                    *)

\* A worker at work remembers an outage; an attempt past its check has an open pool
\* unless there was an outage or someone else replaced the pool.
Excused(w) == trouble[w] \/ slot[w] # held[w]

PastCheck == {"preflight", "begin"} \cup InTransaction

CauseInv ==
    \A w \in Workers :
        /\ pc[w] # "idle" /\ server = "down" => trouble[w]
        /\ w \in broken => trouble[w] /\ pc[w] \in InTransaction
        /\ pc[w] \in PastCheck /\ ~IsOpen(w, held[w])
             => Excused(w)

\* RecoverConnection of one worker leaves the pools of another alone, and its new
\* pool is not the one the worker holds.
LEMMA RecoverIsLocal ==
    ASSUME TypeOK, NEW w \in Workers, RecoverConnection(w)
    PROVE  /\ \A v \in Workers : v # w =>
                 /\ slot'[v] = slot[v]
                 /\ \A p : <<v, p>> \in open' <=> <<v, p>> \in open
           /\ server = "up" => slot'[w] # held[w] /\ <<w, slot'[w]>> \in open'
           /\ server # "up" => UNCHANGED slot
  BY FreshIsNew DEF RecoverConnection, TypeOK

\* A worker that is left alone, with the pools and the server
LEMMA SameWorker ==
    ASSUME CauseInv, NEW w \in Workers, UNCHANGED <<server, pools>>,
           pc'[w] = pc[w], held'[w] = held[w], trouble'[w] = trouble[w],
           w \in broken' <=> w \in broken
    PROVE  /\ pc'[w] # "idle" /\ server' = "down" => trouble'[w]
           /\ w \in broken' => trouble'[w] /\ pc'[w] \in InTransaction
           /\ pc'[w] \in PastCheck /\ ~IsOpen(w, held[w])'
                => Excused(w)'
  BY DEF CauseInv, IsOpen, Excused, pools

LEMMA StepCauseInv == TypeOK /\ CauseInv /\ [Next]_vars => CauseInv'
<1> USE DEF PastCheck, InTransaction
<1> SUFFICES ASSUME TypeOK, CauseInv, [Next]_vars, NEW v \in Workers
             PROVE  /\ pc'[v] # "idle" /\ server' = "down" => trouble'[v]
                    /\ v \in broken' => trouble'[v] /\ pc'[v] \in InTransaction
                    /\ pc'[v] \in PastCheck
                         /\ ~IsOpen(v, held[v])' => Excused(v)'
  BY DEF CauseInv
<1> DEFINE Good == /\ pc'[v] # "idle" /\ server' = "down" => trouble'[v]
                   /\ v \in broken' => trouble'[v] /\ pc'[v] \in InTransaction
                   /\ pc'[v] \in PastCheck
                        /\ ~IsOpen(v, held[v])' => Excused(v)'
<1>1. ASSUME NEW w \in Workers, PickBlock(w)
      PROVE  Good
  <2>1. CASE v = w
    BY <1>1, <2>1 DEF PickBlock, Goto, TypeOK, CauseInv, server_
  <2>2. CASE v # w
    BY <1>1, <2>2, SameWorker DEF PickBlock, Goto, TypeOK, server_
  <2> QED
    BY <2>1, <2>2
<1>2. ASSUME NEW w \in Workers, HealthCheck(w)
      PROVE  Good
  <2>1. CASE v = w
    BY <1>2, <2>1 DEF HealthCheck, Goto, Answers, TypeOK, CauseInv, IsOpen, server_, pools
  <2>2. CASE v # w
    BY <1>2, <2>2, SameWorker DEF HealthCheck, Goto, TypeOK, server_
  <2> QED
    BY <2>1, <2>2
<1>3. ASSUME NEW w \in Workers, Recover(w)
      PROVE  Good
  <2>1. RecoverConnection(w)
    BY <1>3 DEF Recover
  <2>2. CASE v = w
    <3>1. CASE server = "up"
      <4>1. held'[w] = slot'[w] /\ <<w, slot'[w]>> \in open'
        BY <1>3, <2>1, <3>1, RecoverIsLocal DEF Recover, TypeOK
      <4>2. v \notin broken'
        BY <1>3, <2>2 DEF Recover, server_, CauseInv
      <4> QED
        BY <1>3, <2>2, <3>1, <4>1, <4>2 DEF Recover, server_, IsOpen
    <3>2. CASE server # "up"
      <4>1. server = "down" /\ trouble[v]
        BY <1>3, <2>2, <3>2 DEF Recover, CauseInv, TypeOK
      <4> QED
        BY <1>3, <2>2, <4>1 DEF Recover, server_, CauseInv, Excused
    <3> QED
      BY <3>1, <3>2
  <2>3. CASE v # w
    <3>1. slot'[v] = slot[v] /\ held'[v] = held[v] /\ pc'[v] = pc[v]
      BY <1>3, <2>1, <2>3, RecoverIsLocal DEF Recover, Goto, TypeOK
    <3>2. IsOpen(v, held[v])' <=> IsOpen(v, held[v])
      BY <2>1, <2>3, <3>1, RecoverIsLocal DEF IsOpen
    <3> QED
      BY <1>3, <3>1, <3>2 DEF Recover, server_, CauseInv, Excused
  <2> QED
    BY <2>2, <2>3
<1>4. ASSUME NEW w \in Workers,
             \/ Preflight(w) \/ PreflightRetry(w) \/ PreflightFails(w)
             \/ BeginTx(w) \/ BeginFails(w) \/ CommitTx(w) \/ TxRefused(w) \/ CutTx(w)
             \/ AsksPool(w) \/ NestedQuery(w)
      PROVE  Good
  <2>1. UNCHANGED <<server, pools, held>> /\ \A u \in Workers : trouble[u] => trouble'[u]
    <3>1. UNCHANGED <<server, pools, held>>
      BY <1>4 DEF Preflight, PreflightRetry, PreflightFails, BeginTx, BeginFails,
                  CommitTx, TxRefused, CutTx, AsksPool, NestedQuery, server_
    <3>2. UNCHANGED trouble \/ trouble' = [trouble EXCEPT ![w] = TRUE]
      BY <1>4 DEF Preflight, PreflightRetry, PreflightFails, BeginTx, BeginFails,
                  CommitTx, TxRefused, CutTx, AsksPool, NestedQuery
    <3> QED
      BY <3>1, <3>2 DEF TypeOK
  <2>2. CASE v = w
    <3>1. pc[v] \in PastCheck
      BY <1>4, <2>2 DEF Preflight, PreflightRetry, PreflightFails, BeginTx, BeginFails,
                        CommitTx, TxRefused, CutTx, AsksPool, NestedQuery
    <3>2. v \in broken' => v \in broken /\ pc'[v] \in InTransaction
      <4>1. CASE CutTx(w)
        BY <2>2, <4>1 DEF CutTx
      <4>2. CASE NestedQuery(w) \/ AsksPool(w) \/ BeginTx(w)
        BY <2>2, <4>2 DEF NestedQuery, AsksPool, BeginTx, Goto, server_, TypeOK, CauseInv
      <4>3. CASE Preflight(w) \/ PreflightRetry(w) \/ PreflightFails(w) \/ BeginFails(w)
                 \/ CommitTx(w) \/ TxRefused(w)
        BY <2>2, <4>3 DEF Preflight, PreflightRetry, PreflightFails, BeginFails, CommitTx,
                          TxRefused, server_, CauseInv
      <4> QED
        BY <1>4, <4>1, <4>2, <4>3
    <3> QED
      BY <2>1, <3>1, <3>2 DEF CauseInv, Excused, IsOpen, pools
  <2>3. CASE v # w
    <3>1. pc'[v] = pc[v]
      BY <1>4, <2>3 DEF Preflight, PreflightRetry, PreflightFails, BeginTx, BeginFails,
                        CommitTx, TxRefused, CutTx, AsksPool, NestedQuery, RetryTx, Drop,
                        Goto, TypeOK
    <3>2. v \in broken' <=> v \in broken
      BY <1>4, <2>3 DEF Preflight, PreflightRetry, PreflightFails, BeginTx, BeginFails,
                        CommitTx, TxRefused, CutTx, AsksPool, NestedQuery, server_
    <3>3. trouble'[v] = trouble[v]
      BY <1>4, <2>3 DEF Preflight, PreflightRetry, PreflightFails, BeginTx, BeginFails,
                        CommitTx, TxRefused, CutTx, AsksPool, NestedQuery, TypeOK
    <3> QED
      BY <2>1, <3>1, <3>2, <3>3, SameWorker
  <2> QED
    BY <2>2, <2>3
<1>5. ASSUME RollbackStarts \/ RollbackBegins \/ RollbackEnds \/ CheckNext \/ CheckEnds
      PROVE  Good
  BY <1>5, SameWorker DEF RollbackStarts, RollbackBegins, RollbackEnds, CheckNext, CheckEnds,
                          server_, worker
<1>6. ASSUME CheckerRecovers
      PROVE  Good
  <2>1. hworker \in Workers /\ RecoverConnection(hworker)
    BY <1>6 DEF CheckerRecovers, TypeOK
  <2>2. UNCHANGED <<server, broken, trouble, pc, held>>
    BY <1>6 DEF CheckerRecovers, server_, worker
  <2>3. CASE v = hworker
    <3>1. CASE server = "up"
      BY <2>1, <2>2, <2>3, <3>1, RecoverIsLocal DEF CauseInv, Excused
    <3>2. CASE server # "up"
      BY <2>2, <3>2 DEF CauseInv, Excused, TypeOK
    <3> QED
      BY <3>1, <3>2
  <2>4. CASE v # hworker
    <3>1. slot'[v] = slot[v]
      BY <2>1, <2>4, RecoverIsLocal
    <3>2. IsOpen(v, held[v])' <=> IsOpen(v, held[v])
      BY <2>1, <2>2, <2>4, RecoverIsLocal DEF IsOpen
    <3> QED
      BY <2>2, <3>1, <3>2 DEF CauseInv, Excused
  <2> QED
    BY <2>3, <2>4
<1>7. ASSUME ServerStops \/ ServerStarts
      PROVE  Good
  <2>1. CASE ServerStops
    BY <2>1 DEF ServerStops, worker, CauseInv, Excused
  <2>2. CASE ServerStarts
    BY <2>2 DEF ServerStarts, worker, pools, CauseInv, Excused, IsOpen
  <2> QED
    BY <1>7, <2>1, <2>2
<1>8. ASSUME NEW w \in Workers, LastAttempt(w)
      PROVE  Good
  <2>1. RecoverConnection(w) /\ pc[w] = "last"
    BY <1>8 DEF LastAttempt
  <2>2. CASE v = w
    <3>1. CASE server = "up"
      <4>1. held'[w] = slot'[w] /\ <<w, slot'[w]>> \in open'
        BY <1>8, <2>1, <3>1, RecoverIsLocal DEF LastAttempt, TypeOK
      <4>2. v \notin broken'
        BY <1>8, <2>1, <2>2 DEF LastAttempt, server_, CauseInv
      <4> QED
        BY <1>8, <2>2, <3>1, <4>1, <4>2 DEF LastAttempt, server_, IsOpen
    <3>2. CASE server # "up"
      <4>1. v \notin broken' /\ pc'[v] = "idle"
        BY <1>8, <2>1, <2>2, <3>2 DEF LastAttempt, Goto, server_, CauseInv, TypeOK
      <4> QED
        BY <4>1
    <3> QED
      BY <3>1, <3>2
  <2>3. CASE v # w
    <3>1. slot'[v] = slot[v] /\ held'[v] = held[v] /\ pc'[v] = pc[v]
      BY <1>8, <2>1, <2>3, RecoverIsLocal DEF LastAttempt, Goto, TypeOK
    <3>2. IsOpen(v, held[v])' <=> IsOpen(v, held[v])
      BY <2>1, <2>3, <3>1, RecoverIsLocal DEF IsOpen
    <3> QED
      BY <1>8, <3>1, <3>2 DEF LastAttempt, server_, CauseInv, Excused
  <2> QED
    BY <2>2, <2>3
<1>9. ASSUME UNCHANGED vars
      PROVE  Good
  BY <1>9, SameWorker DEF vars, server_, worker
<1> QED
  BY <1>1, <1>2, <1>3, <1>4, <1>5, <1>6, <1>7, <1>8, <1>9 DEF Next, Attempt

\* A step that gives a block up is one of five, each with a cause.
LEMMA DropStep ==
    ASSUME TypeOK, CauseInv, [Next]_vars, NEW w \in Workers,
           result'[w] = "dropped", result[w] = "none"
    PROVE  trouble'[w] \/ slot[w] # held[w]
<1> USE DEF PastCheck, InTransaction
<1>1. result' # result
  OBVIOUS
<1>2. PICK v \in Workers : PickBlock(v) \/ PreflightFails(v) \/ BeginFails(v)
                           \/ CommitTx(v) \/ TxRefused(v) \/ CutTx(v) \/ LastAttempt(v)
  BY <1>1, Zenon DEF Next, Attempt, HealthCheck, Recover, Preflight, PreflightRetry, BeginTx,
              AsksPool, NestedQuery, RollbackStarts, RollbackBegins, RollbackEnds,
              CheckNext, CheckEnds, CheckerRecovers, ServerStops, ServerStarts, vars, worker
<1>3. v = w
  BY <1>2 DEF PickBlock, PreflightFails, BeginFails, CommitTx, TxRefused, CutTx, LastAttempt,
              RetryTx, Drop, TypeOK
<1>4. ~PickBlock(w) /\ ~CommitTx(w)
  BY DEF PickBlock, CommitTx, TypeOK
<1>5. CASE PreflightFails(w)
  BY <1>5 DEF PreflightFails, Refuses, CauseInv, Excused
<1>6. CASE BeginFails(w)
  BY <1>6 DEF BeginFails, Refuses, CauseInv, Excused
<1>7. CASE TxRefused(w)
  BY <1>7 DEF TxRefused, TypeOK
<1>8. CASE CutTx(w)
  BY <1>8 DEF CutTx, CauseInv, Excused
<1>9. CASE LastAttempt(w)
  <2>1. server = "down" /\ pc[w] = "last" /\ UNCHANGED trouble
    BY <1>9 DEF LastAttempt, TypeOK
  <2> QED
    BY <2>1 DEF CauseInv
<1> QED
  BY <1>2, <1>3, <1>4, <1>5, <1>6, <1>7, <1>8, <1>9

\* A block is given up only if, since the worker took it, the server was down or refused
\* one of its transactions, or the health checker replaced the worker's pool, for any
\* number of workers and retries.
THEOREM DropsHaveCause == Spec => DropNeedsCause
<1>1. Init => CauseInv
  BY DEF Init, CauseInv, PastCheck, InTransaction
<1>2. TypeOK /\ CauseInv /\ [Next]_vars =>
         [\A w \in Workers : result'[w] = "dropped" /\ result[w] = "none"
                             => trouble'[w] \/ slot[w] # held[w]]_vars
  BY DropStep
<1> QED
  BY <1>1, <1>2, ConnectionsTyped, StepCauseInv, PTL DEF Spec, DropNeedsCause

-----------------------------------------------------------------------------
(* Workers that hang                                                       *)

\* Nobody gets the connection of a worker that hangs, or an error instead.
LEMMA HangsBusy ==
    ASSUME NEW v \in Workers, Hangs(v)
    PROVE  ~Answers(v, held[v]) /\ ~Refuses(v, held[v])
  BY DEF Hangs, Busy, Answers, Refuses, InTransaction

\* What a step has to leave alone for a worker to go on hanging.
LEMMA StillHangs ==
    ASSUME NEW v \in Workers, Hangs(v), pc'[v] = pc[v],
           held'[v] = held[v], IsOpen(v, held[v]) => IsOpen(v, held[v])', UNCHANGED checker
    PROVE  Hangs(v)'
  BY DEF Hangs, IsOpen, checker

LEMMA HangsStep ==
    ASSUME TypeOK, OpenPoolsAreCurrent, [Next]_vars, NEW v \in Workers, Hangs(v)
    PROVE  Hangs(v)' /\ (hworker = v /\ hpc = "check" => UNCHANGED checker)
<1>0. pc[v] = "nested" /\ IsOpen(v, held[v]) /\ held[v] = slot[v]
  BY DEF Hangs, OpenPoolsAreCurrent, TypeOK
<1>1. ASSUME NEW w \in Workers, PickBlock(w)
      PROVE  Hangs(v)' /\ UNCHANGED checker
  <2>1. w # v
    BY <1>0, <1>1 DEF PickBlock
  <2>2. pc'[v] = pc[v]
    BY <1>1, <2>1 DEF PickBlock, Goto, TypeOK
  <2> QED
    BY <1>1, <2>2, StillHangs DEF PickBlock, pools, IsOpen
<1>2. ASSUME NEW w \in Workers, Recover(w) \/ LastAttempt(w)
      PROVE  Hangs(v)' /\ UNCHANGED checker
  <2>1. w # v /\ RecoverConnection(w)
    BY <1>0, <1>2 DEF Recover, LastAttempt
  <2>2. pc'[v] = pc[v] /\ held'[v] = held[v]
    BY <1>2, <2>1 DEF Recover, LastAttempt, Goto, TypeOK
  <2>3. IsOpen(v, held[v]) => IsOpen(v, held[v])'
    BY <2>1, <2>2, RecoverIsLocal DEF IsOpen
  <2> QED
    BY <1>2, <2>2, <2>3, StillHangs DEF Recover, LastAttempt
<1>3. ASSUME NEW w \in Workers,
             \/ HealthCheck(w) \/ Preflight(w) \/ PreflightRetry(w) \/ PreflightFails(w)
             \/ BeginTx(w) \/ BeginFails(w) \/ CommitTx(w) \/ TxRefused(w) \/ CutTx(w)
             \/ AsksPool(w) \/ NestedQuery(w)
      PROVE  Hangs(v)' /\ UNCHANGED checker
  <2>1. UNCHANGED <<pools, held, checker>>
    BY <1>3 DEF HealthCheck, Preflight, PreflightRetry, PreflightFails, BeginTx, BeginFails,
                CommitTx, TxRefused, CutTx, AsksPool, NestedQuery
  <2>2. w # v
    <3>1. ~NestedQuery(v)
      BY HangsBusy DEF NestedQuery
    <3> QED
      BY <1>0, <1>3, <3>1 DEF HealthCheck, Preflight, PreflightRetry, PreflightFails, BeginTx,
                              BeginFails, CommitTx, TxRefused, CutTx, AsksPool
  <2>3. pc'[v] = pc[v]
    BY <1>3, <2>2 DEF HealthCheck, Preflight, PreflightRetry, PreflightFails, BeginTx,
                      BeginFails, CommitTx, TxRefused, CutTx, AsksPool, NestedQuery, RetryTx,
                      Drop, Goto, TypeOK
  <2> QED
    BY <2>1, <2>3, StillHangs DEF pools, IsOpen
<1>4. ASSUME RollbackStarts \/ RollbackBegins \/ RollbackEnds \/ ServerStops \/ ServerStarts
             \/ UNCHANGED vars
      PROVE  Hangs(v)' /\ UNCHANGED checker
  <2>1. UNCHANGED <<pools, held, pc, checker>>
    BY <1>4 DEF RollbackStarts, RollbackBegins, RollbackEnds, ServerStops, ServerStarts, vars,
                worker
  <2> QED
    BY <2>1, StillHangs DEF pools, IsOpen
<1>5. ASSUME CheckNext
      PROVE  Hangs(v)' /\ hpc # "check"
  BY <1>0, <1>5 DEF CheckNext, Hangs, pools, worker, IsOpen
<1>6. ASSUME CheckEnds
      PROVE  Hangs(v)' /\ hworker # v
  <2>1. hworker # v
    BY <1>6, HangsBusy DEF CheckEnds, Hangs
  <2> QED
    BY <1>6, <2>1 DEF CheckEnds, Hangs, pools, worker, IsOpen
<1>7. ASSUME CheckerRecovers
      PROVE  Hangs(v)' /\ hworker # v
  <2>1. hworker # v /\ hworker \in Workers /\ RecoverConnection(hworker)
    BY <1>7 DEF CheckerRecovers, Hangs, TypeOK
  <2>2. IsOpen(v, held[v]) => IsOpen(v, held[v])'
    BY <1>7, <2>1, RecoverIsLocal DEF IsOpen, CheckerRecovers, worker
  <2> QED
    BY <1>7, <2>1, <2>2 DEF CheckerRecovers, Hangs, worker
<1> QED
  BY <1>1, <1>2, <1>3, <1>4, <1>5, <1>6, <1>7 DEF Next, Attempt

\* The exception of OnlyNestedQueriesHang and RollbackIsServed has no end, for any number of
\* workers and retries: a worker whose transaction asks its own pool for a second
\* connection stays there, and takes the health checker with it.
THEOREM HangsHaveNoEnd == Spec => HangsForGood
<1>1. TypeOK /\ OpenPoolsAreCurrent /\ [Next]_vars =>
         [\A w \in Workers : Hangs(w) =>
             /\ Hangs(w)'
             /\ hworker = w /\ hpc = "check" => UNCHANGED checker]_vars
  BY HangsStep
<1> QED
  BY <1>1, ConnectionsTyped, NoPoolOutlivesReplacement, PTL DEF Spec, HangsForGood
=============================================================================
