---------------------------- MODULE BlockIndexer ----------------------------
(***************************************************************************)
(* The block pipeline of the indexer: a Cardano node streams its chain     *)
(* through the two ChainSync handlers, the roll forward handler puts       *)
(* blocks on a bounded queue, workers take them off it and write them to   *)
(* the database, and the roll backward handler deletes rows on its own,    *)
(* next to the workers.  The process may be shut down or crash at any      *)
(* point and resumes from what the database holds.                         *)
(*                                                                         *)
(* Time is abstracted: the five second limit of the roll forward handler   *)
(* and the delays between attempts may end at any moment.  A database      *)
(* transaction, with the retries RetryTransaction makes, is one step that  *)
(* either commits or reports an error.                                     *)
(***************************************************************************)
EXTENDS Naturals, FiniteSets, SequencesExt

CONSTANTS
    Blocks,         \* the blocks of every fork the node may follow
    Slot,           \* the slot number of a block
    Past,           \* the chain that ends in a block, that block included
    Txs,            \* transaction hashes
    TxSeq,          \* the transactions of a block, in order
    Workers,        \* the block workers Start launches
    Connected,      \* the workers that have a dedicated connection
    QueueCap,       \* capacity of the block queue (10000 in the code)
    MaxRetries,     \* further attempts at a block after a connection error
    LastChance,     \* <<worker, block>> given one more attempt (worker 4, slot 4492900)
    SafetyMargin,   \* slots below which a database counts as empty (20 in the code)
    MaxCrashes,     \* bound on the crashes of a behaviour
    DatabaseFaults, \* TRUE: database operations may fail
    DeadlockProne,  \* the transactions whose row a deadlock may undo
    Origin,         \* the point before the first block
    NoBlock         \* no block

ASSUME ChainAssumption ==
    /\ Slot \in [Blocks -> Nat]
    /\ Past \in [Blocks -> SUBSET Blocks]
    /\ \A b \in Blocks :
         /\ b \in Past[b]
         /\ \A c \in Past[b] : Past[c] \subseteq Past[b] /\ Slot[c] <= Slot[b]
         /\ \A c \in Past[b] : b \in Past[c] => c = b
         /\ \A c, d \in Past[b] : c \in Past[d] \/ d \in Past[c]
    /\ Origin \notin Blocks
    /\ NoBlock \notin Blocks

ASSUME PipelineAssumption ==
    /\ TxSeq \in [Blocks -> Seq(Txs)]
    /\ Connected \subseteq Workers
    /\ QueueCap \in Nat
    /\ MaxRetries \in Nat
    /\ LastChance \subseteq Workers \X Blocks
    /\ SafetyMargin \in Nat
    /\ MaxCrashes \in Nat
    /\ DatabaseFaults \in BOOLEAN
    /\ DeadlockProne \subseteq Txs

VARIABLES
    nodeTip,    \* the tip of the node's current chain
    cursor,     \* the last point the node sent to the handlers
    resync,     \* TRUE: the node has found an intersection and will announce it
    proc,       \* the indexer process: "down", "up" or "stopping"
    link,       \* the ChainSync connection: "open", "closed" or "failed"
    waiting,    \* the block the roll forward handler cannot queue yet
    queue,      \* blockQueue
    pc,         \* where each worker is
    blk,        \* the block each worker holds
    tries,      \* the attempt each worker is at
    txi,        \* the next transaction of the block each worker holds
    rows,       \* the blocks table
    txRow,      \* the txes table: the block_hash of a transaction's row
    crashes     \* how often the process has crashed

\* What the process has reported, for the properties only
VARIABLES
    skipped,    \* the blocks below the point this run of the process resumed from
    failed,     \* the blocks this run has logged an error for and given up
    acked,      \* the blocks a worker has finished with no error, in any run
    clean,      \* no rollback has met work in flight or left the table alone
    rowless,    \* the blocks that lost their row to a rollback, or their slot to another
    inherited,  \* the rows that were there when this run of the process began
    torn        \* the transactions that counted as stored after a deadlock undid their row

node    == <<nodeTip, cursor, resync>>
workers == <<pc, blk, tries, txi>>
tables  == <<rows, txRow>>
reports == <<skipped, failed, acked, clean, rowless, inherited, torn>>
vars    == <<node, proc, link, waiting, queue, workers, tables, crashes, reports>>

Points == Blocks \cup {Origin}

ChainTo(p) == IF p = Origin THEN {} ELSE Past[p]

-----------------------------------------------------------------------------
(* The node: it may switch to any longer chain, and tells a client whose   *)
(* cursor is not on its chain to roll back to the last common point.       *)

SwitchChain ==
    /\ \E b \in Blocks :
         /\ Cardinality(ChainTo(nodeTip)) < Cardinality(Past[b])
         /\ nodeTip' = b
    /\ UNCHANGED <<cursor, resync, proc, link, waiting, queue, workers, tables,
                   crashes, reports>>

OnChain(p) == p = Origin \/ p \in ChainTo(nodeTip)

\* The block after the cursor on the node's chain
IsNext(b) == b \in ChainTo(nodeTip) /\ Past[b] = ChainTo(cursor) \cup {b}
                                    /\ b \notin ChainTo(cursor)

\* The last point the cursor's chain and the node's chain share
IsMeet(p) == ChainTo(p) = ChainTo(cursor) \cap ChainTo(nodeTip)

-----------------------------------------------------------------------------
(* Start: connect, start the workers, ask for the resume point.            *)

MaxSlotRow(b) == b \in rows /\ \A c \in rows : Slot[c] <= Slot[b]

\* buildIntersectionPoints: the latest stored block; the origin when the table
\* is empty, when its last slot is within the safety margin, or when the query
\* fails.
ResumeFrom(p) ==
    \/ p = Origin /\ \/ DatabaseFaults
                     \/ \A b \in rows : Slot[b] <= SafetyMargin
    \/ MaxSlotRow(p) /\ Slot[p] > SafetyMargin

\* startReferenceChainSync sends the resume point, then the origin: the node
\* takes the first of the two that is on its chain.
Intersection(p) == IF OnChain(p) THEN p ELSE Origin

\* A worker without a connection of its own exits at once
LaunchedWorkers ==
    [w \in Workers |-> IF w \in Connected THEN "idle" ELSE "exited"]

Start ==
    /\ proc = "down"
    /\ proc' = "up"
    /\ link' = "open"
    /\ \E p \in Points : ResumeFrom(p) /\ cursor' = Intersection(p)
    /\ resync' = TRUE
    /\ pc' = LaunchedWorkers
    /\ skipped' = ChainTo(cursor')
    /\ failed' = {}
    /\ inherited' = rows
    /\ UNCHANGED <<nodeTip, waiting, queue, blk, tries, txi, tables, crashes,
                   acked, clean, rowless, torn>>

-----------------------------------------------------------------------------
(* The ChainSync handlers.  They run one at a time, on the connection's    *)
(* goroutine: none runs while the roll forward handler waits.              *)

Listening == link = "open" /\ waiting = NoBlock

ChainSyncRollForward ==
    /\ Listening
    /\ ~resync
    /\ \E b \in Blocks :
         /\ IsNext(b)
         /\ cursor' = b
         /\ IF Len(queue) < QueueCap
              THEN queue' = Append(queue, b) /\ UNCHANGED waiting
              ELSE waiting' = b /\ UNCHANGED queue
    /\ UNCHANGED <<nodeTip, resync, proc, link, workers, tables, crashes, reports>>

EnqueueWaiting ==
    /\ waiting # NoBlock
    /\ Len(queue) < QueueCap
    /\ queue' = Append(queue, waiting)
    /\ waiting' = NoBlock
    /\ UNCHANGED <<node, proc, link, workers, tables, crashes, reports>>

\* Mutant: a block that does not fit in time is skipped
EnqueueTimeoutSkips ==
    /\ waiting # NoBlock
    /\ waiting' = NoBlock
    /\ UNCHANGED <<node, proc, link, queue, workers, tables, crashes, reports>>

\* Five seconds pass: the handler returns an error, which ends the connection,
\* and nothing opens it again.
EnqueueTimeout ==
    /\ waiting # NoBlock
    /\ waiting' = NoBlock
    /\ link' = "failed"
    /\ failed' = failed \cup {waiting}
    /\ UNCHANGED <<node, proc, queue, workers, tables, crashes, skipped, acked, clean,
                   rowless, inherited, torn>>

\* The context is cancelled while the handler waits
EnqueueCancelled ==
    /\ proc = "stopping"
    /\ waiting # NoBlock
    /\ waiting' = NoBlock
    /\ UNCHANGED <<node, proc, link, queue, workers, tables, crashes, reports>>

\* The blocks queued or in a worker's hands
Underway == ToSet(queue) \cup {blk[w] : w \in {v \in Workers : blk[v] # NoBlock}}

\* Mutants: the rollback deletes its target too, or spares one slot too many
RowsBelow(slot) == {b \in rows : Slot[b] < slot}
RowsUpToNext(slot) == {b \in rows : Slot[b] <= slot + 1}

\* What deleting the blocks above a slot leaves
RowsUpTo(slot) == {b \in rows : Slot[b] <= slot}

\* A rollback's transaction looks the point up first.  Missing and with slot 0, as the
\* origin always is, it is taken for the start of a fresh sync.
FreshSync(p) == p = Origin \/ (Slot[p] = 0 /\ p \notin rows)

\* What a rollback to p leaves of the table: nothing is deleted for a fresh sync, else
\* every block above the point's slot is, the point found or not.
RollbackKeeps(p) == IF FreshSync(p) THEN rows ELSE RowsUpTo(Slot[p])

RollbackRequest(p) ==
    /\ Listening
    /\ resync \/ ~OnChain(cursor)
    /\ IsMeet(p)

\* The handler works on the table alone: the queue and the workers go on, and
\* the rows of the transactions of a deleted block stay.
RollbackTo(p) ==
    /\ cursor' = p
    /\ resync' = FALSE
    /\ rows' = RollbackKeeps(p)
    /\ skipped' = skipped \cap ChainTo(p)
    /\ rowless' = rowless \cup (rows \ rows')
    /\ inherited' = inherited \cap rows'
    /\ clean' = (clean /\ Underway \subseteq ChainTo(p) /\ (FreshSync(p) => rows = {}))
    /\ UNCHANGED <<nodeTip, proc, waiting, queue, workers, txRow, crashes, failed, acked,
                   torn>>

ChainSyncRollBackward ==
    /\ \E p \in Points : RollbackRequest(p) /\ RollbackTo(p)
    /\ UNCHANGED link

\* The rollback's transaction fails: the handler's error ends the connection
RollbackFails ==
    /\ DatabaseFaults
    /\ \E p \in Points : RollbackRequest(p)
    /\ link' = "failed"
    /\ UNCHANGED <<node, proc, waiting, queue, workers, tables, crashes, reports>>

\* ... as it does when the transaction has been committed and the reply is lost
RollbackReplyLost ==
    /\ DatabaseFaults
    /\ \E p \in Points : RollbackRequest(p) /\ RollbackTo(p)
    /\ link' = "failed"

-----------------------------------------------------------------------------
(* The workers.  A worker makes attempts at the block it holds until one   *)
(* succeeds or it gives up; an attempt checks the connection, stores the   *)
(* header, then the transactions one by one, each in a database            *)
(* transaction of its own.                                                 *)

\* FastCreate, an INSERT IGNORE: the slot of a block is unique in the table, so
\* a block whose slot is taken leaves it as it is.
Insert(b) ==
    IF \E r \in rows : Slot[r] = Slot[b] THEN rows ELSE rows \cup {b}

\* A transaction's hash is the key of its table
InsertTx(t, b) ==
    IF txRow[t] = NoBlock THEN [txRow EXCEPT ![t] = b] ELSE txRow

Take(w) ==
    /\ pc[w] = "idle"
    /\ queue # << >>
    /\ blk' = [blk EXCEPT ![w] = Head(queue)]
    /\ queue' = Tail(queue)
    /\ tries' = [tries EXCEPT ![w] = 0]
    /\ pc' = [pc EXCEPT ![w] = "check"]
    /\ UNCHANGED <<node, proc, link, waiting, txi, tables, crashes, reports>>

\* EnsureHealthyConnection in ProcessBlock
Preflight(w) ==
    /\ pc[w] = "check"
    /\ pc' = [pc EXCEPT ![w] = "header"]
    /\ UNCHANGED <<node, proc, link, waiting, queue, blk, tries, txi, tables,
                   crashes, reports>>

\* An error the worker knows as a connection error.  Only the check can report
\* one: RetryTransaction ends such errors in one of its own.
RetryBlock(w) ==
    /\ DatabaseFaults
    /\ pc[w] = "check"
    /\ tries[w] < MaxRetries
    /\ tries' = [tries EXCEPT ![w] = @ + 1]
    /\ UNCHANGED <<node, proc, link, waiting, queue, pc, blk, txi, tables, crashes,
                   reports>>

\* Mutant: an error of the header is logged and does not end the attempt
StoreHeaderUnchecked(w) ==
    /\ pc[w] = "header"
    /\ \/ /\ rows' = Insert(blk[w])
          /\ rowless' = rowless \cup ({blk[w]} \ rows')
          /\ UNCHANGED failed
       \/ UNCHANGED <<rows, rowless>> /\ failed' = failed \cup {blk[w]}
    /\ pc' = [pc EXCEPT ![w] = "txs"]
    /\ txi' = [txi EXCEPT ![w] = 1]
    /\ UNCHANGED <<node, proc, link, waiting, queue, blk, tries, txRow, crashes,
                   skipped, acked, clean, inherited, torn>>

\* The statement succeeds also when it leaves the table as it is: the worker goes on
\* to the transactions of a block that has no row.
StoreHeader(w) ==
    /\ pc[w] = "header"
    /\ rows' = Insert(blk[w])
    /\ rowless' = rowless \cup ({blk[w]} \ rows')
    /\ pc' = [pc EXCEPT ![w] = "txs"]
    /\ txi' = [txi EXCEPT ![w] = 1]
    /\ UNCHANGED <<node, proc, link, waiting, queue, blk, tries, txRow, crashes,
                   skipped, failed, acked, clean, inherited, torn>>

\* Mutant: the loop over the transactions ends one early
LastTxReached(w) == txi[w] >= Len(TxSeq[blk[w]])

AllTxsStored(w) == txi[w] > Len(TxSeq[blk[w]])

\* The errors of a transaction's parts are passed over.  After a deadlock at one of them,
\* which ends the whole transaction at the database, the commit succeeds without its row
\* (TransactionStore shows how).
StoreTx(w) ==
    /\ pc[w] = "txs"
    /\ ~AllTxsStored(w)
    /\ LET t == TxSeq[blk[w]][txi[w]]
       IN  \/ txRow' = InsertTx(t, blk[w]) /\ UNCHANGED torn
           \/ /\ t \in DeadlockProne /\ txRow[t] = NoBlock
              /\ torn' = torn \cup {t}
              /\ UNCHANGED txRow
    /\ txi' = [txi EXCEPT ![w] = @ + 1]
    /\ UNCHANGED <<node, proc, link, waiting, queue, pc, blk, tries, rows, crashes,
                   skipped, failed, acked, clean, rowless, inherited>>

Finish(w) ==
    /\ pc[w] = "txs"
    /\ AllTxsStored(w)
    /\ acked' = acked \cup {blk[w]}
    /\ pc' = [pc EXCEPT ![w] = "idle"]
    /\ blk' = [blk EXCEPT ![w] = NoBlock]
    /\ UNCHANGED <<node, proc, link, waiting, queue, tries, txi, tables, crashes,
                   skipped, failed, clean, rowless, inherited, torn>>

\* The step worker w is at reports an error.  A transaction that did may have
\* been committed all the same, its reply lost with the connection.
StepFails(w) ==
    /\ DatabaseFaults
    /\ \/ pc[w] = "check" /\ UNCHANGED tables
       \/ pc[w] = "header" /\ rows' \in {rows, Insert(blk[w])} /\ UNCHANGED txRow
       \/ /\ pc[w] = "txs"
          /\ ~AllTxsStored(w)
          /\ txRow' \in {txRow, InsertTx(TxSeq[blk[w]][txi[w]], blk[w])}
          /\ UNCHANGED rows

\* Mutant: a block that failed goes back to the end of the queue
GiveUpRequeues(w) ==
    /\ StepFails(w)
    /\ queue' = Append(queue, blk[w])
    /\ pc' = [pc EXCEPT ![w] = "idle"]
    /\ blk' = [blk EXCEPT ![w] = NoBlock]
    /\ UNCHANGED <<node, proc, link, waiting, tries, txi, crashes, reports>>

\* The worker logs the error and drops the block
GiveUp(w) ==
    /\ StepFails(w)
    /\ failed' = failed \cup {blk[w]}
    /\ pc' = [pc EXCEPT ![w] = "idle"]
    /\ blk' = [blk EXCEPT ![w] = NoBlock]
    /\ UNCHANGED <<node, proc, link, waiting, queue, tries, txi, crashes, skipped,
                   acked, clean, rowless, inherited, torn>>

\* One worker makes one further attempt at one block, on a fresh connection
TryLastChance(w) ==
    /\ StepFails(w)
    /\ <<w, blk[w]>> \in LastChance
    /\ tries[w] <= MaxRetries
    /\ tries' = [tries EXCEPT ![w] = MaxRetries + 1]
    /\ pc' = [pc EXCEPT ![w] = "check"]
    /\ UNCHANGED <<node, proc, link, waiting, queue, blk, txi, crashes, reports>>

\* Mutant: the workers stop when ChainSync does
WorkerStopsWithSync(w) ==
    /\ link # "open"
    /\ pc[w] = "idle"
    /\ pc' = [pc EXCEPT ![w] = "exited"]
    /\ UNCHANGED <<node, proc, link, waiting, queue, blk, tries, txi, tables,
                   crashes, reports>>

\* The context is cancelled; a worker notices between two blocks
WorkerStop(w) ==
    /\ proc = "stopping"
    /\ pc[w] = "idle"
    /\ pc' = [pc EXCEPT ![w] = "exited"]
    /\ UNCHANGED <<node, proc, link, waiting, queue, blk, tries, txi, tables,
                   crashes, reports>>

Attempt(w) ==
    \/ Preflight(w) \/ RetryBlock(w) \/ StoreHeader(w) \/ StoreTx(w) \/ Finish(w)
    \/ GiveUp(w) \/ TryLastChance(w)

Worker(w) == Take(w) \/ Attempt(w) \/ WorkerStop(w)

-----------------------------------------------------------------------------
(* The process.                                                            *)

\* Shutdown cancels the context and closes the connection; it waits for nobody
Shutdown ==
    /\ proc = "up"
    /\ proc' = "stopping"
    /\ link' = "closed"
    /\ UNCHANGED <<node, waiting, queue, workers, tables, crashes, reports>>

\* os.Exit after Shutdown, a failed Start, or a crash: all that is not in the
\* database is gone.
Exit ==
    /\ proc # "down"
    /\ crashes < MaxCrashes
    /\ crashes' = crashes + 1
    /\ proc' = "down"
    /\ link' = "closed"
    /\ resync' = FALSE
    /\ waiting' = NoBlock
    /\ queue' = << >>
    /\ pc' = [w \in Workers |-> "exited"]
    /\ blk' = [w \in Workers |-> NoBlock]
    /\ tries' = [w \in Workers |-> 0]
    /\ txi' = [w \in Workers |-> 1]
    /\ UNCHANGED <<nodeTip, cursor, tables, reports>>

Init ==
    /\ nodeTip = Origin
    /\ cursor = Origin
    /\ resync = FALSE
    /\ proc = "down"
    /\ link = "closed"
    /\ waiting = NoBlock
    /\ queue = << >>
    /\ pc = [w \in Workers |-> "exited"]
    /\ blk = [w \in Workers |-> NoBlock]
    /\ tries = [w \in Workers |-> 0]
    /\ txi = [w \in Workers |-> 1]
    /\ rows = {}
    /\ txRow = [t \in Txs |-> NoBlock]
    /\ crashes = 0
    /\ skipped = {}
    /\ failed = {}
    /\ acked = {}
    /\ clean = TRUE
    /\ rowless = {}
    /\ inherited = {}
    /\ torn = {}

Rollback == ChainSyncRollBackward \/ RollbackFails \/ RollbackReplyLost

Handler == ChainSyncRollForward \/ Rollback

\* Mutant: the handler waits for room without a limit
EnqueueNoTimeout == EnqueueWaiting \/ EnqueueCancelled

Enqueue == EnqueueWaiting \/ EnqueueTimeout \/ EnqueueCancelled

Next ==
    \/ SwitchChain
    \/ Start \/ Shutdown \/ Exit
    \/ Handler
    \/ Enqueue
    \/ \E w \in Workers : Worker(w)

Spec == Init /\ [][Next]_vars

\* Go schedules every goroutine that can run, and five seconds pass: a roll forward
\* handler that can take a step takes one, whatever the workers do.
HandlersFair == WF_vars(Enqueue) /\ WF_vars(ChainSyncRollForward)

HandlersFairSpec == Spec /\ HandlersFair

\* A rollback gets the connection of the first worker, on which its transaction is, or an
\* error.  It has no limit of time: it waits for ever behind a worker that hangs
\* (WorkerConnections, RollbackIsServed).
RollbacksAnswered == WF_vars(Rollback)

\* Database operations end, so that a worker that can take a step takes one.
\* Nothing is assumed of an attempt's outcome, nor of the node, of shutdowns and of
\* crashes.
WorkersFair == \A w \in Workers : WF_vars(Worker(w))

-----------------------------------------------------------------------------
(* Properties                                                              *)

VarTypes ==
    /\ nodeTip \in Points /\ cursor \in Points /\ resync \in BOOLEAN
    /\ proc \in {"down", "up", "stopping"}
    /\ link \in {"open", "closed", "failed"}
    /\ waiting \in Blocks \cup {NoBlock}
    /\ queue \in Seq(Blocks)
    /\ pc \in [Workers -> {"exited", "idle", "check", "header", "txs"}]
    /\ blk \in [Workers -> Blocks \cup {NoBlock}]
    /\ tries \in [Workers -> 0 .. MaxRetries + 1]
    /\ txi \in [Workers -> Nat \ {0}]
    /\ rows \in SUBSET Blocks
    /\ txRow \in [Txs -> Blocks \cup {NoBlock}]
    /\ crashes \in 0 .. MaxCrashes
    /\ skipped \in SUBSET Blocks /\ failed \in SUBSET Blocks
    /\ acked \in SUBSET Blocks /\ clean \in BOOLEAN /\ rowless \in SUBSET Blocks
    /\ inherited \in SUBSET Blocks /\ torn \in SUBSET Txs

\* A worker holds a block exactly when it is in an attempt
AttemptHasBlock ==
    \A w \in Workers : blk[w] = NoBlock <=> pc[w] \in {"exited", "idle"}

DownIsEmpty ==
    proc = "down" => /\ link = "closed" /\ waiting = NoBlock /\ queue = << >>
                     /\ \A w \in Workers : pc[w] = "exited"

\* Every variable has its type, a worker holds a block exactly when it is in an
\* attempt, and a process that is down leaves nothing in memory.
TypeOK == VarTypes /\ AttemptHasBlock /\ DownIsEmpty

\* A block whose row has yet to be tried
Unsettled(b) ==
    \/ b = waiting
    \/ b \in ToSet(queue)
    \/ \E w \in Workers : blk[w] = b /\ pc[w] \in {"check", "header"}

\* The block's slot has a row, its own or that of another block
SlotTaken(b) == \E r \in rows : Slot[r] = Slot[b]

Accounted(b) == Unsettled(b) \/ SlotTaken(b) \/ b \in failed

\* No block of the chain the node has sent is lost without a trace: until the
\* process stops, each one since the resume point is on its way to a worker's
\* first write, has a row at its slot, or has an error logged for it.  Backpressure,
\* retries and rollbacks (which delete above the cursor only) keep it so.
NoSilentLoss ==
    proc = "up" => \A b \in ChainTo(cursor) \ skipped : Accounted(b)

\* A block a worker has reported as processed has a row for each of its
\* transactions, through retries, crashes, rollbacks and the same transaction
\* arriving in blocks of two forks, but for those a deadlock has torn.
AckedHasTxs ==
    \A b \in acked : \A i \in 1 .. Len(TxSeq[b]) :
        txRow[TxSeq[b][i]] # NoBlock \/ TxSeq[b][i] \in torn

\* As long as no rollback has met blocks underway above its point, nor
\* been taken for a fresh sync with blocks stored, the table holds blocks of the
\* node's chain only: a fork that is rolled back in a quiet moment leaves no row.
OnlyRacesLeaveStaleRows ==
    clean /\ proc = "up" /\ ~resync => rows \subseteq ChainTo(cursor)

\* A transaction's row names a block without a row only if a rollback deleted that row,
\* which "will cascade" to nothing (main.go:1268), or the block's slot was taken when its
\* header was to be stored: neither a crash nor an error between the two transactions of
\* the database makes such a row, and one that is there may stand for the transaction in
\* a later block.
OrphansHaveCause ==
    \A t \in Txs : txRow[t] # NoBlock => txRow[t] \in rows \cup rowless

\* The rows this run of the process has stored
NewRows == rows \ inherited

\* The blocks of the chain up to one of them that are not finished, with a header or
\* without: no worker has reported them processed, nor logged an error for them
Unfinished ==
    {c \in Blocks : /\ \E b \in NewRows : c \in Past[b]
                    /\ c \notin acked \cup failed \cup skipped}

\* However the workers overtake one another, and wherever a crash stops them, a run
\* of the process leaves no more unfinished blocks up to the last row it has stored than
\* it has workers: as many blocks, at most, stay without their header or some of their
\* transactions for good when the next run resumes above them (main.go:2108).  (A block
\* that a taken slot keeps out is none of them: it is lost without a crash, its worker
\* having reported it processed.)
HolesBounded == Cardinality(Unfinished) <= Cardinality(Connected)

\* Without forks, and with slots that rise, the pipeline implements BlockPool: the pool
\* is what the handler, the queue and the workers hold.
Pool == INSTANCE BlockPool WITH
    Width   <- Cardinality(Workers),
    running <- proc = "up",
    pool    <- Underway \cup ({waiting} \ {NoBlock}),
    stored  <- rows

\* Blocks are stored in the order of the chain up to the number of workers, and
\* let go only once stored or reported as failed.
ImplementsPool == Pool!Spec

\* With fair workers, a block that waits for one gets it: it is stored, its slot is
\* taken, an error is logged for it, or the process stops first.
BlocksSettle ==
    WorkersFair =>
        \A b \in Blocks : (proc = "up" /\ Unsettled(b))
                            ~> (SlotTaken(b) \/ b \in failed \/ proc # "up")

\* While the process is up and the connection holds, the handlers always catch up with a
\* node whose chain has stopped growing, even if workers hang, provided that rollbacks are
\* answered: backpressure delays ChainSync or ends it, it cannot block it.
CatchesUp ==
    RollbacksAnswered => []<>(link # "open" \/ (cursor = nodeTip /\ waiting = NoBlock))

-----------------------------------------------------------------------------
(* What a message of the code says, which it does not keep                 *)

\* "Skipping already-processed blocks": a run that resumes from the latest
\* stored block has all the blocks below it.
ResumeSkipsOnlyStored == proc = "up" => skipped \subseteq rows
=============================================================================
