-------------------------- MODULE TransactionStore --------------------------
(***************************************************************************)
(* How the block processors store a unit of work, a block's header or one  *)
(* of its transactions, each in a database transaction of its own: the     *)
(* statements a unit makes, the caches of rows known to exist, errors that *)
(* are reported and passed over, repeated statements, repeated             *)
(* transactions, and what the database does when it refuses a statement,   *)
(* loses a connection or resolves a deadlock.                              *)
(*                                                                         *)
(* The statements of a unit are given by Steps (TransactionParts derives   *)
(* them from the processors).  A step is a record:                         *)
(*   do      "insert"  an existing row is no error: INSERT IGNORE, ON      *)
(*                     CONFLICT DO NOTHING, with a look before it or not   *)
(*           "keep"    the same, and after an error a look for the row: if *)
(*                     it is there, the next `skip` steps are left out     *)
(*           "find"    a look for the row, then a plain INSERT             *)
(*           "create"  a plain INSERT: an existing row is an error         *)
(*           "reject"  a statement that the database never takes           *)
(*           "outside" a query that asks the pool for another connection:  *)
(*                     the only one is the transaction's, so it waits until *)
(*                     somebody closes the pool, and fails                 *)
(*   row     the row; cache: the cache asked before and told after, or     *)
(*           NoCache                                                       *)
(*   own     whether the row belongs to this unit alone                    *)
(*   needs   rows this one refers to                                       *)
(*   repeats whether RetryOperation repeats the statement                  *)
(*   aborts  whether its error ends the database transaction; if not it is *)
(*           reported and the next `skip` steps are left out               *)
(***************************************************************************)
EXTENDS Naturals, Sequences, FiniteSets

CONSTANTS
    Workers,        \* the block workers, each with its processor and connection
    Units,          \* the units of work
    Steps,          \* the steps of each unit
    NoUnit,         \* not a unit
    Workloads,      \* bound: how often each unit comes (a block may come twice)
    MaxRepeats,     \* further attempts of RetryOperation
    MaxRetries,     \* further attempts of RetryTransaction
    MaxRefusals,    \* bound: statements the server refuses
    MaxLosses       \* bound: connections that break and pools that are closed

StepKinds == {"insert", "keep", "find", "create", "reject", "outside"}
NoCache   == "none"

Length(u) == Len(Steps[u])
HasStep(u, i) == i \in 1 .. Length(u)

\* The assumptions on a unit's steps, for steps of any origin
StepsTyped(steps) ==
    \A u \in Units :
        /\ Len(steps[u]) \in Nat
        /\ \A i \in 1 .. Len(steps[u]) :
            /\ steps[u][i].do \in StepKinds
            /\ {steps[u][i].own, steps[u][i].repeats, steps[u][i].aborts} \subseteq BOOLEAN
            /\ steps[u][i].skip \in 0 .. Len(steps[u]) - i

\* What a row refers to is ensured by an earlier step; a row of its own belongs to
\* this unit, without a cache; what a kept row may leave out is not its own; and a unit's
\* first own row, its head, is inserted or the attempt is over, as is any error before it.
StepsOfUnits(steps) ==
    /\ \A u \in Units : \A i \in 1 .. Len(steps[u]) : \A p \in steps[u][i].needs :
        \E j \in 1 .. i - 1 : steps[u][j].row = p /\ ~steps[u][j].own
    /\ \A u \in Units : \A i \in 1 .. Len(steps[u]) : steps[u][i].own =>
        /\ steps[u][i].cache = NoCache
        /\ \A v \in Units : \A j \in 1 .. Len(steps[v]) :
            steps[v][j].row = steps[u][i].row => v = u /\ steps[v][j].own
    /\ \A u \in Units : \A i \in 1 .. Len(steps[u]) : steps[u][i].do = "keep" =>
        \A j \in i + 1 .. Len(steps[u]) : ~steps[u][j].own
    /\ \A u \in Units : \E h \in 1 .. Len(steps[u]) :
        /\ steps[u][h].own /\ steps[u][h].aborts
        /\ \A j \in 1 .. h - 1 : ~steps[u][j].own /\ steps[u][j].aborts

ASSUME StoreAssumption ==
    /\ NoUnit \notin Units
    /\ {MaxRepeats, MaxRetries, MaxRefusals, MaxLosses} \subseteq Nat
    /\ Workloads \subseteq [Units -> Nat]
    /\ DOMAIN Steps = Units
    /\ StepsTyped(Steps)

ASSUME UnitAssumption == StepsOfUnits(Steps)

VARIABLES
    db,         \* the committed rows
    unit,       \* the unit each worker is at, or NoUnit
    pos,        \* its next step
    repeat,     \* how often RetryOperation has repeated that step
    retry,      \* how often RetryTransaction has begun again
    session,    \* "open", "autocommit" once the server has rolled back, "gone"
    pending,    \* the rows of the open transaction, which it holds locked
    waits,      \* the workers whose statement waits for another's lock
    cached,     \* the rows each worker's caches hold, with the cache
    due,        \* how often each unit is still to come
    refusals,   \* the statements refused so far
    losses,     \* the connections broken and pools closed so far
    closed      \* the workers whose processor has a pool that was closed

\* For the properties only
VARIABLES
    stored,     \* the units some worker has finished without an error
    reported,   \* the rows of units an error was reported for
    undone,     \* rows that were rolled back
    killed      \* the units whose transaction the server ended in a deadlock

progress == <<unit, pos, repeat, retry>>
server   == <<db, session, pending, waits>>
bounds   == <<due, refusals, losses, closed>>
history  == <<stored, reported, undone, killed>>
vars     == <<progress, server, cached, bounds, history>>

Step(w) == Steps[unit[w]][pos[w]]
AtStep(w) == unit[w] # NoUnit /\ HasStep(unit[w], pos[w])
AtEnd(w)  == unit[w] # NoUnit /\ ~HasStep(unit[w], pos[w])

Rows(u)    == {Steps[u][i].row : i \in 1 .. Length(u)}
OwnRows(u) == {Steps[u][i].row : i \in {j \in 1 .. Length(u) : Steps[u][j].own}}
\* What the steps for a row refer to: several votes of one transaction have one row
NeedsOf(u, r) == {Steps[u][i].needs : i \in {j \in 1 .. Length(u) : Steps[u][j].row = r}}
HeadAt(u)  == CHOOSE h \in 1 .. Length(u) :
                /\ Steps[u][h].own
                /\ \A j \in 1 .. h - 1 : ~Steps[u][j].own
HeadRow(u) == Steps[u][HeadAt(u)].row
AllRows    == UNION {Rows(u) : u \in Units}
CacheKeys  ==
    UNION {{<<Steps[u][i].cache, Steps[u][i].row>> :
                i \in {j \in 1 .. Length(u) : Steps[u][j].cache # NoCache}} : u \in Units}

Sees(w, r)    == r \in db \cup pending[w]
Holders(w, r) == {v \in Workers \ {w} : r \in pending[v]}
Hit(w)        == <<Step(w).cache, Step(w).row>> \in cached[w]

\* The step asks for a connection of the pool, whose only one this transaction has: it
\* waits as long as the pool is not closed
AsksOutside(w) == AtStep(w) /\ ~Hit(w) /\ Step(w).do = "outside"
WaitsOutside(w) == AsksOutside(w) /\ w \notin closed

\* The step sends a statement to the server
Sends(w) == AtStep(w) /\ ~AsksOutside(w) /\ ~Hit(w)

-----------------------------------------------------------------------------
(* Progress through a unit                                                 *)

Advance(w, n) ==
    /\ pos' = [pos EXCEPT ![w] = @ + n]
    /\ repeat' = [repeat EXCEPT ![w] = 0]
    /\ UNCHANGED <<unit, retry>>

Leave(w) ==
    /\ unit' = [unit EXCEPT ![w] = NoUnit]
    /\ pos' = [pos EXCEPT ![w] = 1]
    /\ repeat' = [repeat EXCEPT ![w] = 0]
    /\ retry' = [retry EXCEPT ![w] = 0]

Session(w, s, rows) ==
    /\ session' = [session EXCEPT ![w] = s]
    /\ pending' = [pending EXCEPT ![w] = rows]
    /\ waits' = waits \ {w}

RollsBack(w) == undone' = undone \cup pending[w]

\* Mutant: the next attempt goes on where the last one stopped
RetryGoesOn(w, retryable) ==
    IF retryable /\ retry[w] < MaxRetries
      THEN /\ retry' = [retry EXCEPT ![w] = @ + 1]
           /\ repeat' = [repeat EXCEPT ![w] = 0]
           /\ UNCHANGED <<unit, pos>>
      ELSE Leave(w)

\* RetryTransaction, after an attempt that ended with an error: the unit is begun
\* again if the error may go away, attempts are left and the pool begins another
\* transaction, and otherwise given up.
RetryTransaction(w, retryable) ==
    IF retryable /\ retry[w] < MaxRetries /\ w \notin closed
      THEN /\ retry' = [retry EXCEPT ![w] = @ + 1]
           /\ pos' = [pos EXCEPT ![w] = 1]
           /\ repeat' = [repeat EXCEPT ![w] = 0]
           /\ UNCHANGED unit
      ELSE Leave(w)

\* The worker has a closed pool replaced before its next block
Begin(w, u) ==
    /\ unit[w] = NoUnit
    /\ w \notin closed
    /\ due[u] > 0
    /\ due' = [due EXCEPT ![u] = @ - 1]
    /\ unit' = [unit EXCEPT ![w] = u]
    /\ pos' = [pos EXCEPT ![w] = 1]
    /\ repeat' = [repeat EXCEPT ![w] = 0]
    /\ retry' = [retry EXCEPT ![w] = 0]
    /\ UNCHANGED <<server, cached, refusals, losses, closed, history>>

\* After a connection error the worker makes a new processor for the pool it has now,
\* whose caches are empty but for the pool hashes: these it loads.
NewProcessor(w) ==
    /\ unit[w] = NoUnit
    /\ losses > 0
    /\ cached' = [cached EXCEPT ![w] = {k \in CacheKeys : k[1] = "pools" /\ k[2] \in db}]
    /\ closed' = closed \ {w}
    /\ UNCHANGED <<progress, server, due, refusals, losses, history>>

-----------------------------------------------------------------------------
(* Statements                                                              *)

\* Mutant: of the parts left out only the first is reported
ReportsOne(w) == {<<unit[w], Step(w).row>>}

Reports(w) ==
    {<<unit[w], Steps[unit[w]][i].row>> : i \in pos[w] .. pos[w] + Step(w).skip}

\* Mutants: every error is passed over, ...
FailsPassesOver(w, retryable, s, rows) ==
    /\ Advance(w, 1 + Step(w).skip)
    /\ Session(w, s, rows)
    /\ reported' = reported \cup Reports(w)

\* ... and repetitions are not counted
FailsUncounted(w, retryable, s, rows) ==
    IF retryable /\ Step(w).repeats
      THEN /\ Session(w, s, rows)
           /\ UNCHANGED <<progress, reported>>
      ELSE IF Step(w).aborts
        THEN /\ RetryTransaction(w, retryable)
             /\ Session(w, "open", {})
             /\ UNCHANGED reported
        ELSE FailsPassesOver(w, retryable, s, rows)

\* RetryOperation repeats the statement, or its error ends the attempt, or it is
\* reported and the steps that depend on it are left out.  The session is then s,
\* its transaction's rows are rows.
Fails(w, retryable, s, rows) ==
    IF retryable /\ Step(w).repeats /\ repeat[w] < MaxRepeats
      THEN /\ repeat' = [repeat EXCEPT ![w] = @ + 1]
           /\ Session(w, s, rows)
           /\ UNCHANGED <<unit, pos, retry, reported>>
      ELSE IF Step(w).aborts
        THEN /\ RetryTransaction(w, retryable)
             /\ Session(w, "open", {})
             /\ UNCHANGED reported
        ELSE /\ Advance(w, 1 + Step(w).skip)
             /\ Session(w, s, rows)
             /\ reported' = reported \cup Reports(w)

CacheHit(w) ==
    /\ AtStep(w)
    /\ Hit(w)
    /\ Advance(w, 1)
    /\ UNCHANGED <<server, cached, bounds, history>>

\* Another transaction has inserted the row and not ended
WaitForLock(w) ==
    /\ Sends(w)
    /\ session[w] # "gone"
    /\ w \notin waits
    /\ Holders(w, Step(w).row) # {}
    /\ waits' = waits \cup {w}
    /\ UNCHANGED <<progress, db, session, pending, cached, bounds, history>>

Caches(w) ==
    cached' = [cached EXCEPT ![w] =
        @ \cup (IF Step(w).cache = NoCache THEN {} ELSE {<<Step(w).cache, Step(w).row>>})]

Answered(w) ==
    /\ Sends(w)
    /\ session[w] # "gone"
    /\ Holders(w, Step(w).row) = {}

Rejected(w) == Step(w).do = "reject"

\* Mutant: the row is stored outside the transaction
StoreOutside(w) ==
    /\ Answered(w)
    /\ ~Sees(w, Step(w).row) /\ ~Rejected(w)
    /\ Advance(w, 1)
    /\ Caches(w)
    /\ db' = db \cup {Step(w).row}
    /\ Session(w, session[w], pending[w])
    /\ UNCHANGED <<bounds, history>>

\* A row that is new: it becomes visible to others at the commit, or at once when
\* the server has ended the transaction.
StoreRow(w) ==
    /\ Answered(w)
    /\ ~Sees(w, Step(w).row) /\ ~Rejected(w)
    /\ Advance(w, 1)
    /\ Caches(w)
    /\ IF session[w] = "open"
         THEN /\ Session(w, "open", pending[w] \cup {Step(w).row})
              /\ UNCHANGED db
         ELSE /\ db' = db \cup {Step(w).row}
              /\ Session(w, session[w], pending[w])
    /\ UNCHANGED <<bounds, history>>

\* A plain INSERT that meets the row, also one that waited while another stored it
Duplicate(w) == Step(w).do = "create" \/ (Step(w).do = "find" /\ w \in waits)

FindRow(w) ==
    /\ Answered(w)
    /\ Sees(w, Step(w).row)
    /\ ~Duplicate(w) /\ ~Rejected(w)
    /\ Advance(w, 1)
    /\ Caches(w)
    /\ Session(w, session[w], pending[w])
    /\ UNCHANGED <<db, bounds, history>>

\* The row is there, or it would not be taken in any case
MeetDuplicate(w) ==
    /\ Answered(w)
    /\ (Sees(w, Step(w).row) /\ Duplicate(w)) \/ Rejected(w)
    /\ Fails(w, FALSE, session[w], pending[w])
    /\ IF Step(w).aborts THEN RollsBack(w) ELSE UNCHANGED undone
    /\ UNCHANGED <<db, cached, bounds, stored, killed>>

\* Mutant: the cache is told before the answer
RefusedCached(w) ==
    /\ refusals < MaxRefusals
    /\ refusals' = refusals + 1
    /\ Sends(w)
    /\ session[w] # "gone"
    /\ \E retryable \in BOOLEAN : Fails(w, retryable, session[w], pending[w])
    /\ Caches(w)
    /\ UNCHANGED <<db, due, losses, closed, stored, undone, killed>>

\* The server refuses the statement: a conflict, a timeout, a value it does not
\* take.
Refused(w) ==
    /\ refusals < MaxRefusals
    /\ refusals' = refusals + 1
    /\ Sends(w)
    /\ session[w] # "gone"
    /\ IF Step(w).do = "keep" /\ Sees(w, Step(w).row)
         THEN /\ Advance(w, 1 + Step(w).skip)
              /\ Session(w, session[w], pending[w])
              /\ UNCHANGED <<undone, reported>>
         ELSE /\ \E retryable \in BOOLEAN : Fails(w, retryable, session[w], pending[w])
              /\ IF pending'[w] # pending[w] THEN RollsBack(w) ELSE UNCHANGED undone
    /\ UNCHANGED <<db, cached, due, losses, closed, stored, killed>>

\* The health checker, which has found the server down, closes the worker's pool; its
\* open transaction goes on.
PoolCloses(w) ==
    /\ losses < MaxLosses
    /\ losses' = losses + 1
    /\ unit[w] # NoUnit
    /\ w \notin closed
    /\ closed' = closed \cup {w}
    /\ UNCHANGED <<progress, server, cached, due, refusals, history>>

\* Who asks a closed pool for a connection gets an error
OutsideFails(w) ==
    /\ AsksOutside(w)
    /\ w \in closed
    /\ Fails(w, FALSE, session[w], pending[w])
    /\ IF Step(w).aborts THEN RollsBack(w) ELSE UNCHANGED undone
    /\ UNCHANGED <<db, cached, bounds, stored, killed>>

\* A wait for a lock lasts too long: the statement fails, its transaction stays
LockTimeout(w) ==
    /\ w \in waits
    /\ Fails(w, TRUE, session[w], pending[w])
    /\ IF pending'[w] # pending[w] THEN RollsBack(w) ELSE UNCHANGED undone
    /\ UNCHANGED <<db, cached, bounds, stored, killed>>

\* The connection breaks and the server rolls back
Cut(w) ==
    /\ losses < MaxLosses
    /\ losses' = losses + 1
    /\ unit[w] # NoUnit
    /\ session[w] # "gone"
    /\ Session(w, "gone", {})
    /\ RollsBack(w)
    /\ UNCHANGED <<progress, db, cached, due, refusals, closed, stored, reported, killed>>

OnDeadConnection(w) ==
    /\ Sends(w)
    /\ session[w] = "gone"
    /\ Fails(w, TRUE, "gone", {})
    /\ UNCHANGED <<db, cached, bounds, stored, undone, killed>>

\* The server ends one of the transactions that wait for each other.  The session
\* goes on without one if the program goes on.
Deadlock(w) ==
    /\ \E S \in SUBSET waits :
        /\ w \in S
        /\ \A v \in S : Holders(v, Step(v).row) \cap S # {}
    /\ Fails(w, TRUE, "autocommit", {})
    /\ RollsBack(w)
    /\ killed' = IF session'[w] = "autocommit" THEN killed \cup {unit[w]} ELSE killed
    /\ UNCHANGED <<db, cached, bounds, stored>>

Commit(w) ==
    /\ AtEnd(w)
    /\ session[w] # "gone"
    /\ db' = db \cup pending[w]
    /\ stored' = stored \cup {unit[w]}
    /\ Leave(w)
    /\ Session(w, "open", {})
    /\ UNCHANGED <<cached, bounds, reported, undone, killed>>

\* Mutant: the answer to the commit is not looked at
CommitFailsUnseen(w) ==
    /\ AtEnd(w)
    /\ session[w] = "gone"
    /\ stored' = stored \cup {unit[w]}
    /\ Leave(w)
    /\ Session(w, "open", {})
    /\ UNCHANGED <<db, cached, bounds, reported, undone, killed>>

CommitFails(w) ==
    /\ AtEnd(w)
    /\ session[w] = "gone"
    /\ RetryTransaction(w, TRUE)
    /\ Session(w, "open", {})
    /\ UNCHANGED <<db, cached, bounds, history>>

\* The connection breaks at the commit, before the server has made it or after
CommitLost(w) ==
    /\ losses < MaxLosses
    /\ losses' = losses + 1
    /\ AtEnd(w)
    /\ session[w] # "gone"
    /\ RetryTransaction(w, TRUE)
    /\ Session(w, "open", {})
    /\ \/ db' = db \cup pending[w] /\ UNCHANGED undone
       \/ RollsBack(w) /\ UNCHANGED db
    /\ UNCHANGED <<cached, due, refusals, closed, stored, reported, killed>>

-----------------------------------------------------------------------------

Init ==
    /\ db = {}
    /\ unit = [w \in Workers |-> NoUnit]
    /\ pos = [w \in Workers |-> 1]
    /\ repeat = [w \in Workers |-> 0]
    /\ retry = [w \in Workers |-> 0]
    /\ session = [w \in Workers |-> "open"]
    /\ pending = [w \in Workers |-> {}]
    /\ waits = {}
    /\ cached = [w \in Workers |-> {}]
    /\ due \in Workloads
    /\ refusals = 0
    /\ losses = 0
    /\ closed = {}
    /\ stored = {} /\ reported = {} /\ undone = {} /\ killed = {}

\* What the worker does next, the server answering
Proceed(w) ==
    \/ CacheHit(w) \/ WaitForLock(w) \/ StoreRow(w) \/ FindRow(w) \/ MeetDuplicate(w)
    \/ LockTimeout(w) \/ OnDeadConnection(w) \/ Deadlock(w) \/ Commit(w) \/ CommitFails(w)
    \/ OutsideFails(w)

Next ==
    \E w \in Workers :
        \/ \E u \in Units : Begin(w, u)
        \/ NewProcessor(w)
        \/ Proceed(w)
        \/ Refused(w) \/ Cut(w) \/ CommitLost(w) \/ PoolCloses(w)

\* A goroutine runs on and the server answers
Fairness == \A w \in Workers : WF_vars(Proceed(w))

Spec == Init /\ [][Next]_vars /\ Fairness

-----------------------------------------------------------------------------
(* Properties                                                              *)

\* Every variable has its type, a worker without a unit has a live connection and no rows
\* pending, rows are pending only in an open transaction, and only a worker that has sent
\* a statement waits for a lock (retry.go:71-100).
TypeOK ==
    /\ db \subseteq AllRows
    /\ unit \in [Workers -> Units \cup {NoUnit}]
    /\ pos \in [Workers -> Nat \ {0}]
    /\ \A w \in Workers : pos[w] <= (IF unit[w] = NoUnit THEN 1 ELSE Length(unit[w]) + 1)
    /\ repeat \in [Workers -> 0 .. MaxRepeats]
    /\ retry \in [Workers -> 0 .. MaxRetries]
    /\ session \in [Workers -> {"open", "autocommit", "gone"}]
    /\ \A w \in Workers : unit[w] = NoUnit => session[w] = "open"
    /\ pending \in [Workers -> SUBSET AllRows]
    /\ \A w \in Workers : session[w] # "open" \/ unit[w] = NoUnit => pending[w] = {}
    /\ waits \subseteq {w \in Workers : Sends(w)}
    /\ cached \in [Workers -> SUBSET CacheKeys]
    /\ due \in [Units -> Nat]
    /\ refusals \in 0 .. MaxRefusals
    /\ losses \in 0 .. MaxLosses
    /\ closed \subseteq Workers
    /\ stored \subseteq Units
    /\ reported \subseteq Units \X AllRows
    /\ undone \subseteq AllRows
    /\ killed \subseteq Units

\* A unit that was stored without an error has all its own rows in the database but
\* those an error was reported for, unless a deadlock ended its transaction midway:
\* repeated blocks, repeated statements, lost connections and lost commits leave
\* nothing out silently.
MissingIsReported ==
    \A u \in stored \ killed : \A r \in OwnRows(u) :
        r \in db \/ <<u, r>> \in reported

\* A part of a unit is in the database only together with the unit's block or
\* transaction row, whichever attempt wrote it, again but for a deadlock.
OrphansOnlyAfterDeadlock ==
    \A u \in Units \ killed : OwnRows(u) \cap db # {} => HeadRow(u) \in db

\* The rows that a stored row refers to and that are missing, addresses, pools,
\* scripts, were rolled back while a cache kept them, or an error was reported.
ParentsLostOnlyByRollback ==
    \A u \in Units : \A r \in OwnRows(u) \cap db : \E needs \in NeedsOf(u, r) :
        \A p \in needs : p \in db \cup undone \/ <<u, p>> \in reported

\* A unit becomes visible to others at once: a step that adds rows of its own to the
\* database adds the last of them, but for reported ones and after a deadlock.
VisibleAtOnce ==
    [][\A u \in Units \ killed' :
        OwnRows(u) \cap db' # OwnRows(u) \cap db =>
            \A r \in OwnRows(u) : r \in db' \/ <<u, r>> \in reported]_vars

\* A unit with all its statements, repetitions and lost connections is one step of
\* UnitStore: what BlockIndexer takes it for.
Whole == INSTANCE UnitStore
            WITH rows <- {u \in Units : HeadRow(u) \in db}, told <- stored, torn <- killed

\* A unit's row comes by one commit and stays, and a worker is told that the unit is stored
\* only when the row is there or a deadlock has torn the unit (retry.go:71-100).
ImplementsUnits == Whole!Spec

\* Worker w is further on with its unit: it has begun again, which it may MaxRetries times,
\* or is at a later step, or repeats one, or waits for a lock that it did not wait for.
Further(w) ==
    \/ retry'[w] > retry[w]
    \/ retry'[w] = retry[w] /\ pos'[w] > pos[w]
    \/ retry'[w] = retry[w] /\ pos'[w] = pos[w] /\ repeat'[w] > repeat[w]
    \/ retry'[w] = retry[w] /\ pos'[w] = pos[w] /\ repeat'[w] = repeat[w]
       /\ w \notin waits /\ w \in waits'

\* Whatever the server and the other workers do, a worker never falls back with its unit,
\* stops waiting without an answer only because its connection breaks, and each of its own
\* steps takes it further (retry.go:71-132, block_processor.go:132, 255).
NeverFallsBack ==
    [][\A w \in Workers : unit[w] # NoUnit /\ unit'[w] = unit[w] =>
          \/ Further(w)
          \/ /\ ~Proceed(w)
             /\ retry'[w] = retry[w] /\ pos'[w] = pos[w] /\ repeat'[w] = repeat[w]
             /\ w \in waits => w \in waits' \/ session'[w] = "gone"]_vars

\* A worker that asks its pool for a second connection stays there, with the rows of its
\* transaction locked, as long as the pool is not closed: no answer, no timeout and no
\* other worker ends that wait (governance_processor.go:57, block_processor.go:1056,
\* tidb.go:415).
OutsideUntilClosed ==
    [][\A w \in Workers : WaitsOutside(w) =>
          /\ AsksOutside(w)' /\ unit'[w] = unit[w] /\ pos'[w] = pos[w]
          /\ pending'[w] = pending[w] \/ session'[w] = "gone"]_vars

\* Every attempt at a unit ends, waits for locks are broken, repetitions run out, but
\* for one that asks its pool, which nobody closes, for a second connection, and that one
\* does not end.
TransactionEnds ==
    /\ \A w \in Workers : unit[w] # NoUnit ~> unit[w] = NoUnit \/ WaitsOutside(w)
    /\ NeverFallsBack /\ OutsideUntilClosed
=============================================================================
