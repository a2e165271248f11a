-------------------------- MODULE WorkerConnections --------------------------
(***************************************************************************)
(* The database connections of the block workers.  Each worker has a pool  *)
(* of its own, of one connection; the pool manager keeps the pools in a    *)
(* slice and replaces them, on behalf of a worker that meets an error or   *)
(* of its own health checker, while the database server comes and goes.    *)
(* The rollback handler borrows the pool of worker 1 (0 in the code).      *)
(*                                                                         *)
(* A pool is closed but once; transactions that are open at that moment go *)
(* on to their end, as database/sql lets them, and everything later fails. *)
(* A connection the server has cut is replaced by the pool itself when the *)
(* server is back.  Whoever needs the connection of a pool waits while     *)
(* another uses it.  Delays are left out: they may end at any moment.      *)
(***************************************************************************)
EXTENDS Naturals, FiniteSets

CONSTANTS
    N,              \* the number of workers
    MaxRetries,     \* further attempts at a block after a connection error
    MaxTxRetries,   \* further attempts RetryTransaction makes
    Stages,         \* database transactions of a block: its header, its transactions
    NestedQueries,  \* TRUE: transactions occur that ask the pool for a connection of
                    \* their own: headers at an epoch boundary, votes, proposals
    LastChance      \* the workers that may meet the one slot with a last attempt

ASSUME ConnectionAssumption ==
    /\ N \in Nat \ {0}
    /\ MaxRetries \in Nat
    /\ MaxTxRetries \in Nat
    /\ Stages \in Nat \ {0}
    /\ NestedQueries \in BOOLEAN
    /\ LastChance \subseteq 1 .. N

VARIABLES
    server,     \* the database server: "up" or "down"
    slot,       \* the pool the manager keeps for each worker
    held,       \* the pool each worker's processor uses
    open,       \* the pools that are not closed
    pc,         \* where each worker is
    tries,      \* the attempt at its block; MaxRetries + 1 is the last chance
    txTries,    \* the attempt at its transaction
    stage,      \* the transaction of the block it is at
    broken,     \* the workers whose open transaction the server has cut
    rpc,        \* the rollback handler: "idle", "waits" or "open"
    rpool,      \* the pool it uses
    hpc,        \* the health checker: "idle", "check" or "recover"
    hworker,    \* the worker whose connection it is at
    hpool       \* the pool it has read from the slice

\* For the properties only
VARIABLES
    trouble,    \* whether, since the worker took its block, the server was down or
                \* refused a statement of one of its transactions
    result      \* how the last block of a worker ended: "none", "done" or "dropped"

server_ == <<server, broken>>
pools   == <<slot, open>>
worker  == <<held, pc, tries, txTries, stage, trouble, result>>
handler == <<rpc, rpool>>
checker == <<hpc, hworker, hpool>>
vars    == <<server_, pools, worker, handler, checker>>

Workers == 1 .. N

\* A worker's pools in the order of their creation, the numbers of pools nobody
\* refers to used again
PoolNumbers == 1 .. 5
NoPool == 0

\* A transaction is open; "nested": it waits for a second connection of its pool,
\* "answered": it has waited.
InTransaction == {"open", "nested", "answered"}

Busy(w, p) ==
    \/ pc[w] \in InTransaction /\ held[w] = p
    \/ w = 1 /\ rpc = "open" /\ rpool = p

IsOpen(w, p) == <<w, p>> \in open

\* Someone asks the pool for its connection: it fails at once when the pool is
\* closed, and otherwise when it is his turn and the server is down.
Answers(w, p) == IsOpen(w, p) /\ ~Busy(w, p) /\ server = "up"
Refuses(w, p) == ~IsOpen(w, p) \/ (~Busy(w, p) /\ server = "down")

-----------------------------------------------------------------------------
(* The pool manager                                                        *)

Fresh(w) ==
    CHOOSE p \in PoolNumbers :
        p \notin {slot[w], held[w]} \cup (IF w = 1 THEN {rpool} ELSE {})
                                    \cup (IF w = hworker THEN {hpool} ELSE {})

\* Mutant: the replaced pool is left open
RecoverLeaks(w) ==
    IF server = "up"
      THEN /\ slot' = [slot EXCEPT ![w] = Fresh(w)]
           /\ open' = open \cup {<<w, Fresh(w)>>}
      ELSE UNCHANGED pools

\* RecoverConnection, under the manager's mutex: the pool in the slice is closed,
\* and replaced if the server can be reached.
RecoverConnection(w) ==
    IF server = "up"
      THEN /\ slot' = [slot EXCEPT ![w] = Fresh(w)]
           /\ open' = (open \ {<<w, slot[w]>>}) \cup {<<w, Fresh(w)>>}
      ELSE /\ open' = open \ {<<w, slot[w]>>}
           /\ UNCHANGED slot

-----------------------------------------------------------------------------
(* A worker                                                                *)

Goto(w, p) == pc' = [pc EXCEPT ![w] = p]

PickBlock(w) ==
    /\ pc[w] = "idle"
    /\ Goto(w, "health")
    /\ tries' = [tries EXCEPT ![w] = 0]
    /\ stage' = [stage EXCEPT ![w] = 1]
    /\ trouble' = [trouble EXCEPT ![w] = server = "down"]
    /\ result' = [result EXCEPT ![w] = "none"]
    /\ UNCHANGED <<server_, pools, held, txTries, handler, checker>>

\* Mutant: a closed pool passes the check
CheckPassesClosed(w) ==
    /\ pc[w] = "health"
    /\ \/ (Answers(w, held[w]) \/ ~IsOpen(w, held[w])) /\ Goto(w, "preflight")
       \/ IsOpen(w, held[w]) /\ Refuses(w, held[w]) /\ Goto(w, "recover")
    /\ UNCHANGED <<server_, pools, held, tries, txTries, stage, trouble, result,
                   handler, checker>>

\* The worker's own check before an attempt
HealthCheck(w) ==
    /\ pc[w] = "health"
    /\ \/ Answers(w, held[w]) /\ Goto(w, "preflight")
       \/ Refuses(w, held[w]) /\ Goto(w, "recover")
    /\ UNCHANGED <<server_, pools, held, tries, txTries, stage, trouble, result,
                   handler, checker>>

\* The worker has its connection replaced; it adopts the new pool, if there is
\* one, and goes on in either case: "recover" after the check, "retry" after a
\* connection error.
Recover(w) ==
    /\ pc[w] \in {"recover", "retry"}
    /\ RecoverConnection(w)
    /\ held' = IF server = "up" THEN [held EXCEPT ![w] = slot'[w]] ELSE held
    /\ Goto(w, IF pc[w] = "recover" THEN "preflight" ELSE "health")
    /\ UNCHANGED <<server_, tries, txTries, stage, trouble, result, handler, checker>>

\* The block ends with an error in the log, but for one slot with one worker, which
\* has a last chance.
Drop(w) ==
    \/ /\ Goto(w, "idle")
       /\ result' = [result EXCEPT ![w] = "dropped"]
    \/ /\ w \in LastChance
       /\ tries[w] <= MaxRetries
       /\ Goto(w, "last")
       /\ UNCHANGED result

\* The connection is replaced by force, and the block tried once more if there is a
\* new one
LastAttempt(w) ==
    /\ pc[w] = "last"
    /\ RecoverConnection(w)
    /\ IF server = "up"
         THEN /\ held' = [held EXCEPT ![w] = slot'[w]]
              /\ tries' = [tries EXCEPT ![w] = MaxRetries + 1]
              /\ stage' = [stage EXCEPT ![w] = 1]
              /\ Goto(w, "preflight")
              /\ UNCHANGED result
         ELSE /\ Goto(w, "idle")
              /\ result' = [result EXCEPT ![w] = "dropped"]
              /\ UNCHANGED <<held, tries, stage>>
    /\ UNCHANGED <<server_, txTries, trouble, handler, checker>>

\* EnsureHealthyConnection in ProcessBlock
Preflight(w) ==
    /\ pc[w] = "preflight"
    /\ Answers(w, held[w])
    /\ Goto(w, "begin")
    /\ txTries' = [txTries EXCEPT ![w] = 0]
    /\ UNCHANGED <<server_, pools, held, tries, stage, trouble, result, handler,
                   checker>>

\* The worker tries again after an error whose text it knows.  "connection
\* refused" and "database is closed" are not among these texts.
PreflightRetry(w) ==
    /\ pc[w] = "preflight"
    /\ IsOpen(w, held[w]) /\ Refuses(w, held[w])
    /\ tries[w] < MaxRetries
    /\ tries' = [tries EXCEPT ![w] = @ + 1]
    /\ stage' = [stage EXCEPT ![w] = 1]
    /\ Goto(w, "retry")
    /\ UNCHANGED <<server_, pools, held, txTries, trouble, result, handler, checker>>

PreflightFails(w) ==
    /\ pc[w] = "preflight"
    /\ Refuses(w, held[w])
    /\ Drop(w)
    /\ UNCHANGED <<server_, pools, held, tries, txTries, stage, trouble, handler,
                   checker>>

\* RetryTransaction: each attempt begins a transaction of its own
BeginTx(w) ==
    /\ pc[w] = "begin"
    /\ Answers(w, held[w])
    /\ Goto(w, "open")
    /\ UNCHANGED <<server_, pools, held, tries, txTries, stage, trouble, result,
                   handler, checker>>

\* Mutant: the attempts at a transaction are not counted
RetriesUncounted(w) ==
    /\ Goto(w, "begin")
    /\ UNCHANGED <<txTries, result>>

\* Whether RetryTransaction tries again or ends with an error of its own, which
\* the worker does not know as a connection error
RetryTx(w) ==
    \/ /\ txTries[w] < MaxTxRetries
       /\ txTries' = [txTries EXCEPT ![w] = @ + 1]
       /\ Goto(w, "begin")
       /\ UNCHANGED result
    \/ /\ txTries[w] = MaxTxRetries
       /\ Drop(w)
       /\ UNCHANGED txTries

\* A server that is down is worth a retry, a closed pool is not
BeginFails(w) ==
    /\ pc[w] = "begin"
    /\ Refuses(w, held[w])
    /\ IF IsOpen(w, held[w]) THEN RetryTx(w) ELSE Drop(w) /\ UNCHANGED txTries
    /\ UNCHANGED <<server_, pools, held, tries, stage, trouble, handler, checker>>

\* The transaction commits: the next one, or the block is done
CommitTx(w) ==
    /\ pc[w] \in {"open", "answered"}
    /\ w \notin broken
    /\ IF stage[w] < Stages
         THEN /\ Goto(w, "begin")
              /\ stage' = [stage EXCEPT ![w] = @ + 1]
              /\ txTries' = [txTries EXCEPT ![w] = 0]
              /\ UNCHANGED result
         ELSE /\ Goto(w, "idle")
              /\ result' = [result EXCEPT ![w] = "done"]
              /\ UNCHANGED <<stage, txTries>>
    /\ UNCHANGED <<server_, pools, held, tries, trouble, handler, checker>>

\* The server refuses a statement without which the transaction cannot be, or its
\* commit; it may do so for good or ask for another attempt.
TxRefused(w) ==
    /\ pc[w] \in {"open", "answered"}
    /\ w \notin broken
    /\ trouble' = [trouble EXCEPT ![w] = TRUE]
    /\ RetryTx(w) \/ (Drop(w) /\ UNCHANGED txTries)
    /\ UNCHANGED <<server_, pools, held, tries, stage, handler, checker>>

\* The transaction meets a connection the server has cut
CutTx(w) ==
    /\ pc[w] \in {"open", "answered"}
    /\ w \in broken
    /\ broken' = broken \ {w}
    /\ RetryTx(w)
    /\ UNCHANGED <<server, pools, held, tries, stage, trouble, handler, checker>>

\* The function of the transaction asks the pool itself for a connection:
\* processEpochBoundary in the header's, where CalculateAdaPotsForEpoch and what
\* follows do not use the transaction, and in those of votes and proposals the caches
\* of the hashes of DReps and of the committee.
AsksPool(w) ==
    /\ NestedQueries
    /\ pc[w] = "open"
    /\ Goto(w, "nested")
    /\ UNCHANGED <<server_, pools, held, tries, txTries, stage, trouble, result,
                   handler, checker>>

\* With or without an error, which is only logged, the transaction goes on.  Further
\* queries of the same transaction meet what the first has met: the pool is closed.
NestedQuery(w) ==
    /\ pc[w] = "nested"
    /\ Answers(w, held[w]) \/ Refuses(w, held[w])
    /\ Goto(w, "answered")
    /\ UNCHANGED <<server_, pools, held, tries, txTries, stage, trouble, result,
                   handler, checker>>

Attempt(w) ==
    \/ HealthCheck(w) \/ Recover(w)
    \/ Preflight(w) \/ PreflightRetry(w) \/ PreflightFails(w)
    \/ BeginTx(w) \/ BeginFails(w) \/ CommitTx(w) \/ TxRefused(w) \/ CutTx(w)
    \/ AsksPool(w) \/ NestedQuery(w) \/ LastAttempt(w)

-----------------------------------------------------------------------------
(* The rollback handler, on the pool of the first worker's processor       *)

RollbackStarts ==
    /\ rpc = "idle"
    /\ rpc' = "waits"
    /\ rpool' = held[1]
    /\ UNCHANGED <<server_, pools, worker, checker>>

RollbackBegins ==
    /\ rpc = "waits"
    /\ Answers(1, rpool)
    /\ rpc' = "open"
    /\ UNCHANGED <<rpool, server_, pools, worker, checker>>

\* Mutant: a rollback that has its transaction never ends it
RollbackLeftOpen ==
    /\ rpc = "waits" /\ Refuses(1, rpool)
    /\ rpc' = "idle"
    /\ rpool' = NoPool
    /\ UNCHANGED <<server_, pools, worker, checker>>

RollbackEnds ==
    /\ rpc = "open" \/ (rpc = "waits" /\ Refuses(1, rpool))
    /\ rpc' = "idle"
    /\ rpool' = NoPool
    /\ UNCHANGED <<server_, pools, worker, checker>>

-----------------------------------------------------------------------------
(* The health checker, one connection after the other                      *)

CheckNext ==
    /\ hpc = "idle"
    /\ hpc' = "check"
    /\ hworker' = (hworker % N) + 1
    /\ hpool' = slot[hworker']
    /\ UNCHANGED <<server_, pools, worker, handler>>

CheckEnds ==
    /\ hpc = "check"
    /\ \/ Answers(hworker, hpool) /\ hpc' = "idle"
       \/ Refuses(hworker, hpool) /\ hpc' = "recover"
    /\ hpool' = NoPool
    /\ UNCHANGED <<hworker, server_, pools, worker, handler>>

\* The pool that is replaced is the one in the slice now, not the one checked
CheckerRecovers ==
    /\ hpc = "recover"
    /\ hpc' = "idle"
    /\ RecoverConnection(hworker)
    /\ UNCHANGED <<hworker, hpool, server_, worker, handler>>

-----------------------------------------------------------------------------
(* The server                                                              *)

ServerStops ==
    /\ server = "up"
    /\ server' = "down"
    /\ broken' = {w \in Workers : pc[w] \in InTransaction}
    /\ trouble' = [w \in Workers |-> trouble[w] \/ pc[w] # "idle"]
    /\ UNCHANGED <<pools, held, pc, tries, txTries, stage, result, handler, checker>>

ServerStarts ==
    /\ server = "down"
    /\ server' = "up"
    /\ UNCHANGED <<broken, pools, worker, handler, checker>>

Init ==
    /\ server = "up"
    /\ slot = [w \in Workers |-> 1]
    /\ held = [w \in Workers |-> 1]
    /\ open = Workers \X {1}
    /\ pc = [w \in Workers |-> "idle"]
    /\ tries = [w \in Workers |-> 0]
    /\ txTries = [w \in Workers |-> 0]
    /\ stage = [w \in Workers |-> 1]
    /\ broken = {}
    /\ rpc = "idle" /\ rpool = NoPool
    /\ hpc = "idle" /\ hworker = N /\ hpool = NoPool
    /\ trouble = [w \in Workers |-> FALSE]
    /\ result = [w \in Workers |-> "none"]

Next ==
    \/ \E w \in Workers : PickBlock(w) \/ Attempt(w)
    \/ RollbackStarts \/ RollbackBegins \/ RollbackEnds
    \/ CheckNext \/ CheckEnds \/ CheckerRecovers
    \/ ServerStops \/ ServerStarts

Spec == Init /\ [][Next]_vars

\* Goroutines run, and database/sql serves those who wait for a connection in
\* turn, so that whoever can have it again and again gets it in the end.  The
\* server may stay down, or come and go.
FairSpec ==
    /\ Spec
    /\ \A w \in Workers : SF_vars(Attempt(w))
    /\ SF_vars(RollbackBegins \/ RollbackEnds)
    /\ SF_vars(CheckEnds) /\ WF_vars(CheckerRecovers)

-----------------------------------------------------------------------------
(* Properties                                                              *)

\* Every variable has its type: a worker, the manager and whoever borrows a pool name one of
\* the pools that the worker has had (tidb.go:377-420).
TypeOK ==
    /\ server \in {"up", "down"}
    /\ slot \in [Workers -> PoolNumbers]
    /\ held \in [Workers -> PoolNumbers]
    /\ open \subseteq Workers \X PoolNumbers
    /\ pc \in [Workers -> {"idle", "health", "recover", "retry", "preflight", "begin",
                           "open", "nested", "answered", "last"}]
    /\ tries \in [Workers -> 0 .. MaxRetries + 1]
    /\ txTries \in [Workers -> 0 .. MaxTxRetries]
    /\ stage \in [Workers -> 1 .. Stages]
    /\ broken \subseteq Workers
    /\ rpc \in {"idle", "waits", "open"}
    /\ rpool \in PoolNumbers \cup {NoPool}
    /\ hpc \in {"idle", "check", "recover"}
    /\ hworker \in Workers
    /\ hpool \in PoolNumbers \cup {NoPool}
    /\ trouble \in [Workers -> BOOLEAN]
    /\ result \in [Workers -> {"none", "done", "dropped"}]

\* No connection outlives its replacement: whatever the worker and the health
\* checker replace at the same time, a pool that is open is the one in the slice,
\* one for each worker (tidb.go:377, "exactly ONE dedicated connection").
OpenPoolsAreCurrent == \A w \in Workers, p \in PoolNumbers : IsOpen(w, p) => p = slot[w]

\* A worker gives a block up only if, since the worker took it, the server was down or
\* refused a statement of the block's transactions, or someone else replaced the worker's
\* pool: a pool that was closed before, when the worker was idle, is noticed and replaced
\* before it does harm (main.go:1408-1438, 1470-1513).
DropNeedsCause ==
    [][\A w \in Workers :
          result'[w] = "dropped" /\ result[w] = "none" => trouble'[w] \/ slot[w] # held[w]]_vars

\* Worker w's transaction waits for the connection it has itself, and the health checker
\* is not about to close the pool under it.
Hangs(w) ==
    /\ pc[w] = "nested" /\ IsOpen(w, held[w])
    /\ hworker = w => hpc = "idle" \/ (hpc = "check" /\ hpool = held[w])

\* Such a worker never gets on, through outages and restarts of the server, and when the
\* health checker comes to it, it waits for the same connection for ever, so that no
\* other connection is checked any more (tidb.go:437-470).
HangsForGood ==
    [][\A w \in Workers : Hangs(w) =>
          /\ Hangs(w)'
          /\ hworker = w /\ hpc = "check" => UNCHANGED checker]_vars

\* Whatever the server does, a worker comes to an end with each block, done or given
\* up: no attempt waits for ever or is repeated for ever (main.go:1405-1513), unless
\* its transaction asks its own pool: at an epoch boundary, for a vote or a proposal
\* (block_processor.go:1057; governance_processor.go:57, 104, 466).
OnlyNestedQueriesHang ==
    /\ \A w \in Workers : pc[w] # "idle" ~> pc[w] = "idle" \/ Hangs(w)
    /\ HangsForGood

\* The rollback handler gets worker 1's connection, or an error, and never blocks
\* ChainSync for ever behind the worker (main.go:1244-1247), unless that worker's transaction
\* asks its own pool.
RollbackIsServed == rpc = "waits" ~> rpc = "idle" \/ Hangs(1)

\* RESTART_PLAN.md:150, "Complete Alonzo era without manual intervention": no attempt
\* waits for ever.
AttemptEnds == \A w \in Workers : pc[w] # "idle" ~> pc[w] = "idle"
=============================================================================
