----------------------- MODULE TransactionStoreProofs -----------------------
(***************************************************************************)
(* Proofs about TransactionStore, for any workers, units and steps: type   *)
(* correctness, and that stored units lack nothing, that their parts are   *)
(* there only with their head, become visible at once, and have the rows   *)
(* they refer to, each with the exceptions its property names; that a unit *)
(* is a single step of UnitStore; and that the steps TransactionParts      *)
(* derives, from any header or transaction, satisfy what these proofs      *)
(* assume of steps.                                                        *)
(***************************************************************************)
EXTENDS TransactionStore, TransactionParts, WellFoundedInduction, TLAPS

-----------------------------------------------------------------------------
(* The assumptions, in the terms of the module                             *)

LEMMA StoreFacts ==
    /\ NoUnit \notin Units
    /\ {MaxRepeats, MaxRetries, MaxRefusals, MaxLosses} \subseteq Nat
    /\ Workloads \subseteq [Units -> Nat]
    /\ \A u \in Units :
        /\ Length(u) \in Nat
        /\ \A i \in 1 .. Length(u) :
            /\ Steps[u][i].own \in BOOLEAN
            /\ Steps[u][i].skip \in 0 .. Length(u) - i
  BY StoreAssumption DEF StepsTyped, Length

LEMMA UnitFacts ==
    /\ \A u \in Units : \A i \in 1 .. Length(u) : \A p \in Steps[u][i].needs :
        \E j \in 1 .. i - 1 : Steps[u][j].row = p /\ ~Steps[u][j].own
    /\ \A u \in Units : \A i \in 1 .. Length(u) : Steps[u][i].own =>
        /\ Steps[u][i].cache = NoCache
        /\ \A v \in Units : \A j \in 1 .. Length(v) :
            Steps[v][j].row = Steps[u][i].row => v = u /\ Steps[v][j].own
    /\ \A u \in Units : \A i \in 1 .. Length(u) : Steps[u][i].do = "keep" =>
        \A j \in i + 1 .. Length(u) : ~Steps[u][j].own
    /\ \A u \in Units : \E h \in 1 .. Length(u) :
        /\ Steps[u][h].own /\ Steps[u][h].aborts
        /\ \A j \in 1 .. h - 1 : ~Steps[u][j].own /\ Steps[u][j].aborts
  BY UnitAssumption DEF StepsOfUnits, Length

-----------------------------------------------------------------------------
(* The inductive invariant                                                 *)

\* The row of step j of u is where worker w finds it, or its absence has a cause: the last
\* one is that the step may be left out after a row that was found
Kept(w, u, j) ==
    \/ Steps[u][j].row \in db \cup pending[w]
    \/ <<u, Steps[u][j].row>> \in reported
    \/ Steps[u][j].own /\ u \in killed
    \/ ~Steps[u][j].own /\ Steps[u][j].row \in undone
    \/ \E i \in 1 .. j - 1 : Steps[u][i].do = "keep"

\* The steps an attempt has taken left their rows
StepsKept(w) ==
    unit[w] # NoUnit /\ session[w] # "gone" =>
        \A j \in 1 .. pos[w] - 1 : Kept(w, unit[w], j)

\* The head is among them as long as the transaction is open
HeadKept(w) ==
    unit[w] # NoUnit /\ session[w] = "open" /\ pos[w] > HeadAt(unit[w]) =>
        HeadRow(unit[w]) \in db \cup pending[w]

\* Caches hold rows that are there, or were
CachesKept(w) == \A k \in cached[w] : k[2] \in db \cup pending[w] \cup undone

\* The server has ended the transaction only in a deadlock
Autocommits(w) == session[w] = "autocommit" => unit[w] \in killed

\* A transaction holds no own rows but those of its unit
PendingOwn(w) ==
    \A u \in Units : \A i \in 1 .. Length(u) :
        Steps[u][i].own /\ Steps[u][i].row \in pending[w] => u = unit[w]

\* What a step for row r of u refers to is among these rows, or was reported
NeedsMet(u, r, rows) ==
    \E needs \in NeedsOf(u, r) : \A p \in needs : p \in rows \/ <<u, p>> \in reported

\* What its own rows refer to is there too, or its absence has a cause
PendingNeeds(w) ==
    \A u \in Units : \A r \in OwnRows(u) \cap pending[w] :
        NeedsMet(u, r, db \cup pending[w] \cup undone)

WaitsConnected(w) == w \in waits => session[w] # "gone"

WorkerInv(w) ==
    /\ StepsKept(w) /\ HeadKept(w) /\ CachesKept(w) /\ Autocommits(w)
    /\ PendingOwn(w) /\ PendingNeeds(w) /\ WaitsConnected(w)

StoreInv ==
    /\ TypeOK
    /\ \A w \in Workers : WorkerInv(w)
    /\ MissingIsReported /\ OrphansOnlyAfterDeadlock /\ ParentsLostOnlyByRollback

-----------------------------------------------------------------------------
(* Types                                                                   *)

ProgressTyped ==
    /\ unit \in [Workers -> Units \cup {NoUnit}]
    /\ pos \in [Workers -> Nat \ {0}]
    /\ \A w \in Workers : pos[w] <= (IF unit[w] = NoUnit THEN 1 ELSE Length(unit[w]) + 1)
    /\ repeat \in [Workers -> 0 .. MaxRepeats]
    /\ retry \in [Workers -> 0 .. MaxRetries]

SessionsTyped ==
    /\ session \in [Workers -> {"open", "autocommit", "gone"}]
    /\ \A w \in Workers : unit[w] = NoUnit => session[w] = "open"
    /\ pending \in [Workers -> SUBSET AllRows]
    /\ \A w \in Workers : session[w] # "open" \/ unit[w] = NoUnit => pending[w] = {}

WaitsTyped == waits \subseteq {w \in Workers : Sends(w)}

BoundsTyped ==
    /\ due \in [Units -> Nat]
    /\ refusals \in 0 .. MaxRefusals
    /\ losses \in 0 .. MaxLosses
    /\ closed \subseteq Workers

RowsTyped ==
    /\ db \subseteq AllRows
    /\ cached \in [Workers -> SUBSET CacheKeys]
    /\ stored \subseteq Units
    /\ reported \subseteq Units \X AllRows
    /\ undone \subseteq AllRows
    /\ killed \subseteq Units

LEMMA TypeParts ==
    /\ TypeOK <=> ProgressTyped /\ SessionsTyped /\ WaitsTyped /\ BoundsTyped /\ RowsTyped
    /\ TypeOK' <=> ProgressTyped' /\ SessionsTyped' /\ WaitsTyped' /\ BoundsTyped' /\ RowsTyped'
  BY DEF TypeOK, ProgressTyped, SessionsTyped, WaitsTyped, BoundsTyped, RowsTyped

\* A step of worker w leaves the others as they are
Others(w) ==
    \A v \in Workers \ {w} :
        /\ unit'[v] = unit[v] /\ pos'[v] = pos[v] /\ session'[v] = session[v]
        /\ pending'[v] = pending[v] /\ cached'[v] = cached[v]
        /\ v \in waits' => v \in waits

\* What is known of the step a worker is at.
LEMMA StepFacts ==
    ASSUME ProgressTyped, NEW w \in Workers, AtStep(w)
    PROVE  /\ unit[w] \in Units
           /\ pos[w] \in 1 .. Length(unit[w]) /\ Length(unit[w]) \in Nat
           /\ Step(w).skip \in 0 .. Length(unit[w]) - pos[w]
           /\ Step(w).row \in AllRows
           /\ Step(w).cache # NoCache => <<Step(w).cache, Step(w).row>> \in CacheKeys
<1>1. unit[w] \in Units /\ pos[w] \in 1 .. Length(unit[w])
  BY DEF ProgressTyped, AtStep, HasStep
<1>2. Length(unit[w]) \in Nat /\ Step(w).skip \in 0 .. Length(unit[w]) - pos[w]
  BY <1>1, StoreFacts DEF Step
<1>3. Step(w).row \in AllRows
  BY <1>1 DEF AllRows, Rows, Step
<1>4. Step(w).cache # NoCache => <<Step(w).cache, Step(w).row>> \in CacheKeys
  <2> SUFFICES ASSUME Step(w).cache # NoCache
               PROVE  <<Step(w).cache, Step(w).row>> \in CacheKeys
    OBVIOUS
  <2> DEFINE u == unit[w]
  <2>1. pos[w] \in {j \in 1 .. Length(u) : Steps[u][j].cache # NoCache}
    BY <1>1 DEF Step
  <2>2. <<Step(w).cache, Step(w).row>> \in {<<Steps[u][i].cache, Steps[u][i].row>> :
            i \in {j \in 1 .. Length(u) : Steps[u][j].cache # NoCache}}
    BY <2>1 DEF Step
  <2> QED
    BY <1>1, <2>2 DEF CacheKeys
<1> QED
  BY <1>1, <1>2, <1>3, <1>4

LEMMA AdvanceTyped ==
    ASSUME ProgressTyped, NEW w \in Workers, AtStep(w),
           NEW n \in 1 .. Length(unit[w]) + 1 - pos[w], Advance(w, n)
    PROVE  ProgressTyped' /\ unit'[w] \in Units
<1>1. unit[w] \in Units /\ pos[w] \in Nat \ {0} /\ Length(unit[w]) \in Nat
  BY StepFacts DEF ProgressTyped
<1>2. pos[w] + n \in Nat \ {0} /\ pos[w] + n <= Length(unit[w]) + 1
  BY <1>1
<1>3. 0 \in 0 .. MaxRepeats /\ unit[w] # NoUnit
  BY <1>1, StoreFacts
<1>4. pos' \in [Workers -> Nat \ {0}] /\ pos'[w] = pos[w] + n
  BY <1>2 DEF Advance, ProgressTyped
<1>5. \A v \in Workers : pos'[v] <= (IF unit'[v] = NoUnit THEN 1 ELSE Length(unit'[v]) + 1)
  BY <1>2, <1>3, <1>4 DEF Advance, ProgressTyped
<1> QED
  BY <1>1, <1>3, <1>4, <1>5 DEF Advance, ProgressTyped

LEMMA RetryTyped ==
    ASSUME ProgressTyped, NEW w \in Workers, unit[w] \in Units,
           NEW r \in BOOLEAN, RetryTransaction(w, r)
    PROVE  ProgressTyped' /\ unit'[w] \in {unit[w], NoUnit}
<1>1. 0 \in 0 .. MaxRepeats /\ 0 \in 0 .. MaxRetries /\ Length(unit[w]) \in Nat
  BY StoreFacts
<1>2. CASE Leave(w)
  BY <1>1, <1>2 DEF Leave, ProgressTyped
<1>3. CASE /\ retry[w] < MaxRetries
           /\ retry' = [retry EXCEPT ![w] = @ + 1]
           /\ pos' = [pos EXCEPT ![w] = 1]
           /\ repeat' = [repeat EXCEPT ![w] = 0]
           /\ UNCHANGED unit
  <2>1. retry[w] + 1 \in 0 .. MaxRetries
    BY <1>3, StoreFacts DEF ProgressTyped
  <2>2. 1 <= (IF unit[w] = NoUnit THEN 1 ELSE Length(unit[w]) + 1)
    BY <1>1
  <2> QED
    BY <1>1, <1>3, <2>1, <2>2 DEF ProgressTyped
<1> QED
  BY <1>2, <1>3 DEF RetryTransaction

\* A new session of w keeps the sessions well typed.
LEMMA SessionTyped ==
    ASSUME SessionsTyped, NEW w \in Workers, NEW s \in {"open", "autocommit", "gone"},
           NEW rows \in SUBSET AllRows, Session(w, s, rows),
           s # "open" \/ unit'[w] = NoUnit => rows = {},
           unit'[w] = NoUnit => s = "open",
           \A v \in Workers \ {w} : unit'[v] = unit[v]
    PROVE  SessionsTyped'
<1>1. /\ session' \in [Workers -> {"open", "autocommit", "gone"}] /\ session'[w] = s
      /\ pending' \in [Workers -> SUBSET AllRows] /\ pending'[w] = rows
      /\ \A v \in Workers \ {w} : session'[v] = session[v] /\ pending'[v] = pending[v]
  BY DEF Session, SessionsTyped
<1> QED
  BY <1>1 DEF SessionsTyped

\* Who waits still sends, if the others stay as they are.
LEMMA StillWait ==
    ASSUME WaitsTyped, NEW w \in Workers, Others(w), w \notin waits', waits' \subseteq Workers
    PROVE  WaitsTyped'
<1> SUFFICES ASSUME NEW v \in waits' PROVE v \in Workers /\ Sends(v)'
  BY DEF WaitsTyped
<1>1. v \in Workers \ {w}
  OBVIOUS
<1>2. v \in waits /\ Sends(v)
  BY <1>1 DEF Others, WaitsTyped
<1> QED
  BY <1>1, <1>2 DEF Others, Sends, AsksOutside, AtStep, Step, Hit, HasStep

\* What becomes of worker w's progress, session and reports when its step fails.
LEMMA FailsCases ==
    ASSUME NEW w \in Workers, NEW r \in BOOLEAN, NEW s, NEW rows, Fails(w, r, s, rows)
    PROVE  \/ /\ repeat[w] < MaxRepeats /\ repeat' = [repeat EXCEPT ![w] = @ + 1]
              /\ Session(w, s, rows) /\ UNCHANGED <<unit, pos, retry, reported>>
           \/ /\ Step(w).aborts
              /\ RetryTransaction(w, r) /\ Session(w, "open", {}) /\ UNCHANGED reported
           \/ /\ ~Step(w).aborts
              /\ Advance(w, 1 + Step(w).skip) /\ Session(w, s, rows)
              /\ reported' = reported \cup Reports(w)
  BY DEF Fails

LEMMA ReportsTyped ==
    ASSUME ProgressTyped, NEW w \in Workers, AtStep(w)
    PROVE  Reports(w) \subseteq Units \X AllRows
<1> SUFFICES ASSUME NEW i \in pos[w] .. pos[w] + Step(w).skip
             PROVE  <<unit[w], Steps[unit[w]][i].row>> \in Units \X AllRows
  BY DEF Reports
<1>0. /\ unit[w] \in Units
      /\ pos[w] \in 1 .. Length(unit[w]) /\ Length(unit[w]) \in Nat
      /\ Step(w).skip \in 0 .. Length(unit[w]) - pos[w]
  BY StepFacts
<1>1. unit[w] \in Units /\ i \in 1 .. Length(unit[w])
  BY <1>0
<1> QED
  BY <1>1 DEF AllRows, Rows

LEMMA FailsTyped ==
    ASSUME ProgressTyped, SessionsTyped, RowsTyped, NEW w \in Workers, AtStep(w),
           NEW r \in BOOLEAN, NEW s \in {"open", "autocommit", "gone"},
           NEW rows \in SUBSET AllRows, s # "open" => rows = {}, Fails(w, r, s, rows),
           \A v \in Workers \ {w} : cached'[v] = cached[v]
    PROVE  /\ ProgressTyped' /\ SessionsTyped' /\ Others(w) /\ w \notin waits'
           /\ waits' \subseteq waits
           /\ reported \subseteq reported' /\ reported' \subseteq Units \X AllRows
<1>1. unit[w] \in Units /\ unit[w] # NoUnit
  BY StepFacts DEF AtStep
<1>2. CASE /\ repeat[w] < MaxRepeats /\ repeat' = [repeat EXCEPT ![w] = @ + 1]
           /\ Session(w, s, rows) /\ UNCHANGED <<unit, pos, retry, reported>>
  <2>1. repeat[w] + 1 \in 0 .. MaxRepeats
    BY <1>2, StoreFacts DEF ProgressTyped
  <2>2. ProgressTyped'
    BY <1>2, <2>1 DEF ProgressTyped
  <2>3. SessionsTyped'
    BY <1>1, <1>2, SessionTyped
  <2> QED
    BY <1>2, <2>2, <2>3 DEF Others, Session, SessionsTyped, RowsTyped
<1>3. CASE RetryTransaction(w, r) /\ Session(w, "open", {}) /\ UNCHANGED reported
  <2>1. ProgressTyped' /\ unit'[w] \in {unit[w], NoUnit}
    BY <1>1, <1>3, RetryTyped
  <2>2. \A v \in Workers \ {w} : unit'[v] = unit[v] /\ pos'[v] = pos[v]
    BY <1>3 DEF RetryTransaction, Leave, ProgressTyped
  <2>3. SessionsTyped'
    BY <1>3, <2>2, SessionTyped
  <2> QED
    BY <1>3, <2>1, <2>2, <2>3 DEF Others, Session, SessionsTyped, RowsTyped
<1>4. CASE /\ Advance(w, 1 + Step(w).skip) /\ Session(w, s, rows)
           /\ reported' = reported \cup Reports(w)
  <2>0. /\ unit[w] \in Units
        /\ pos[w] \in 1 .. Length(unit[w]) /\ Length(unit[w]) \in Nat
        /\ Step(w).skip \in 0 .. Length(unit[w]) - pos[w]
    BY StepFacts
  <2>1. 1 + Step(w).skip \in 1 .. Length(unit[w]) + 1 - pos[w]
    BY <2>0
  <2>2. ProgressTyped' /\ unit'[w] \in Units
    BY <1>4, <2>1, AdvanceTyped
  <2>3. \A v \in Workers \ {w} : unit'[v] = unit[v] /\ pos'[v] = pos[v]
    BY <1>4 DEF Advance, ProgressTyped
  <2>4. SessionsTyped'
    BY <1>1, <1>4, <2>3, SessionTyped DEF Advance
  <2>5. reported' \subseteq Units \X AllRows
    BY <1>4, ReportsTyped DEF RowsTyped
  <2> QED
    BY <1>4, <2>2, <2>3, <2>4, <2>5 DEF Others, Session, SessionsTyped
<1> QED
  BY <1>2, <1>3, <1>4, FailsCases

\* A step that ends well: worker w goes on, its transaction holding these rows.
LEMMA AdvancesTyped ==
    ASSUME ProgressTyped, SessionsTyped, NEW w \in Workers, AtStep(w),
           NEW n \in {0, Step(w).skip}, Advance(w, 1 + n),
           NEW rows \in SUBSET AllRows, Session(w, session[w], rows),
           session[w] # "open" => rows = {},
           \A v \in Workers \ {w} : cached'[v] = cached[v]
    PROVE  /\ ProgressTyped' /\ SessionsTyped' /\ Others(w) /\ w \notin waits'
           /\ waits' \subseteq waits
<1>0. /\ pos[w] \in 1 .. Length(unit[w]) /\ Length(unit[w]) \in Nat
      /\ Step(w).skip \in 0 .. Length(unit[w]) - pos[w]
  BY StepFacts
<1>1. 1 + n \in 1 .. Length(unit[w]) + 1 - pos[w] /\ unit[w] # NoUnit
  BY <1>0 DEF AtStep
<1>2. ProgressTyped' /\ unit'[w] \in Units
  BY <1>1, AdvanceTyped
<1>3. \A v \in Workers \ {w} : unit'[v] = unit[v] /\ pos'[v] = pos[v]
  BY DEF Advance, ProgressTyped
<1>4. SessionsTyped'
  BY <1>1, <1>3, SessionTyped DEF Advance, SessionsTyped
<1> QED
  BY <1>2, <1>3, <1>4 DEF Others, Session, SessionsTyped

LEMMA CachesTyped ==
    ASSUME ProgressTyped, RowsTyped, NEW w \in Workers, AtStep(w), Caches(w)
    PROVE  /\ cached' \in [Workers -> SUBSET CacheKeys]
           /\ \A v \in Workers \ {w} : cached'[v] = cached[v]
  BY StepFacts DEF Caches, RowsTyped

\* Nothing that was recorded is forgotten
Grows == db \subseteq db' /\ reported \subseteq reported' /\ undone \subseteq undone'
         /\ killed \subseteq killed'

Act(w) ==
    \/ \E u \in Units : Begin(w, u)
    \/ NewProcessor(w)
    \/ Proceed(w)
    \/ Refused(w) \/ Cut(w) \/ CommitLost(w) \/ PoolCloses(w)

\* Every action of a worker keeps the types, the other workers and the records.
LEMMA ActTyped ==
    ASSUME TypeOK, NEW w \in Workers, Act(w)
    PROVE  TypeOK' /\ Others(w) /\ Grows
<1>0. ProgressTyped /\ SessionsTyped /\ WaitsTyped /\ BoundsTyped /\ RowsTyped
  BY TypeParts
<1> USE <1>0
<1>1. ASSUME NEW u \in Units, Begin(w, u)
      PROVE  /\ ProgressTyped' /\ SessionsTyped' /\ WaitsTyped' /\ BoundsTyped' /\ RowsTyped'
             /\ Others(w) /\ Grows
  <2>1. /\ 0 \in 0 .. MaxRepeats /\ 0 \in 0 .. MaxRetries /\ Length(u) \in Nat /\ u # NoUnit
        /\ due[u] - 1 \in Nat
    BY <1>1, StoreFacts DEF Begin, BoundsTyped
  <2>2. ProgressTyped'
    BY <1>1, <2>1 DEF Begin, ProgressTyped
  <2>3. SessionsTyped'
    BY <1>1, <2>1 DEF Begin, server, SessionsTyped, ProgressTyped
  <2>4. w \notin waits' /\ waits' \subseteq Workers
    BY <1>1 DEF Begin, server, WaitsTyped, Sends, AtStep
  <2>5. Others(w)
    BY <1>1 DEF Begin, server, Others, ProgressTyped
  <2>6. BoundsTyped' /\ RowsTyped' /\ Grows
    BY <1>1, <2>1 DEF Begin, server, history, BoundsTyped, RowsTyped, Grows
  <2> QED
    BY <2>2, <2>3, <2>4, <2>5, <2>6, StillWait
<1>2. ASSUME NewProcessor(w)
      PROVE  /\ ProgressTyped' /\ SessionsTyped' /\ WaitsTyped' /\ BoundsTyped' /\ RowsTyped'
             /\ Others(w) /\ Grows
  <2>1. w \notin waits' /\ waits' \subseteq Workers
    BY <1>2 DEF NewProcessor, server, WaitsTyped, Sends, AtStep
  <2>2. Others(w)
    BY <1>2 DEF NewProcessor, server, progress, Others, RowsTyped
  <2>3. ProgressTyped' /\ SessionsTyped'
    BY <1>2 DEF NewProcessor, server, progress, ProgressTyped, SessionsTyped
  <2>4. BoundsTyped' /\ RowsTyped' /\ Grows
    BY <1>2 DEF NewProcessor, server, bounds, history, BoundsTyped, RowsTyped, Grows
  <2> QED
    BY <2>1, <2>2, <2>3, <2>4, StillWait
<1>3. ASSUME CacheHit(w)
      PROVE  /\ ProgressTyped' /\ SessionsTyped' /\ WaitsTyped' /\ BoundsTyped' /\ RowsTyped'
             /\ Others(w) /\ Grows
  <2>0. pos[w] \in 1 .. Length(unit[w]) /\ Length(unit[w]) \in Nat
    BY <1>3, StepFacts DEF CacheHit
  <2>1. 1 \in 1 .. Length(unit[w]) + 1 - pos[w] /\ AtStep(w) /\ Advance(w, 1)
    BY <1>3, <2>0 DEF CacheHit
  <2>2. ProgressTyped'
    BY <2>1, AdvanceTyped
  <2>3. w \notin waits' /\ waits' \subseteq Workers
    BY <1>3 DEF CacheHit, server, WaitsTyped, Sends
  <2>4. Others(w)
    BY <1>3 DEF CacheHit, Advance, server, Others, ProgressTyped
  <2>5. SessionsTyped'
    BY <1>3 DEF CacheHit, Advance, server, SessionsTyped
  <2>6. BoundsTyped' /\ RowsTyped' /\ Grows
    BY <1>3 DEF CacheHit, server, bounds, history, BoundsTyped, RowsTyped, Grows
  <2> QED
    BY <2>2, <2>3, <2>4, <2>5, <2>6, StillWait
<1>4. ASSUME WaitForLock(w)
      PROVE  /\ ProgressTyped' /\ SessionsTyped' /\ WaitsTyped' /\ BoundsTyped' /\ RowsTyped'
             /\ Others(w) /\ Grows
  <2>1. ProgressTyped' /\ SessionsTyped'
    BY <1>4 DEF WaitForLock, progress, ProgressTyped, SessionsTyped
  <2>2. WaitsTyped'
    BY <1>4 DEF WaitForLock, progress, WaitsTyped, Sends, AsksOutside, AtStep, HasStep, Step, Hit
  <2>3. Others(w)
    BY <1>4 DEF WaitForLock, progress, Others
  <2>4. BoundsTyped' /\ RowsTyped' /\ Grows
    BY <1>4 DEF WaitForLock, bounds, history, BoundsTyped, RowsTyped, Grows
  <2> QED
    BY <2>1, <2>2, <2>3, <2>4
<1>5. ASSUME StoreRow(w)
      PROVE  /\ ProgressTyped' /\ SessionsTyped' /\ WaitsTyped' /\ BoundsTyped' /\ RowsTyped'
             /\ Others(w) /\ Grows
  <2>1. AtStep(w) /\ Advance(w, 1) /\ Caches(w) /\ UNCHANGED <<bounds, history>>
    BY <1>5 DEF StoreRow, Answered, Sends
  <2>2. /\ cached' \in [Workers -> SUBSET CacheKeys]
        /\ \A v \in Workers \ {w} : cached'[v] = cached[v]
    BY <2>1, CachesTyped
  <2>3. Step(w).row \in AllRows
    BY <2>1, StepFacts
  <2>4. \E rows \in SUBSET AllRows :
            Session(w, session[w], rows) /\ (session[w] # "open" => rows = {})
    BY <1>5, <2>3 DEF StoreRow, SessionsTyped
  <2>5. ProgressTyped' /\ SessionsTyped' /\ Others(w) /\ w \notin waits' /\ waits' \subseteq waits
    BY <2>1, <2>2, <2>4, 1 + 0 = 1, AdvancesTyped
  <2>6. WaitsTyped'
    BY <2>5, StillWait DEF WaitsTyped
  <2>7. BoundsTyped' /\ RowsTyped' /\ Grows
    BY <1>5, <2>1, <2>2, <2>3 DEF StoreRow, bounds, history, BoundsTyped, RowsTyped, Grows
  <2> QED
    BY <2>5, <2>6, <2>7
<1>6. ASSUME FindRow(w)
      PROVE  /\ ProgressTyped' /\ SessionsTyped' /\ WaitsTyped' /\ BoundsTyped' /\ RowsTyped'
             /\ Others(w) /\ Grows
  <2>1. /\ AtStep(w) /\ Advance(w, 1) /\ Caches(w) /\ UNCHANGED <<db, bounds, history>>
        /\ Session(w, session[w], pending[w])
    BY <1>6 DEF FindRow, Answered, Sends
  <2>2. /\ cached' \in [Workers -> SUBSET CacheKeys]
        /\ \A v \in Workers \ {w} : cached'[v] = cached[v]
    BY <2>1, CachesTyped
  <2>3. pending[w] \in SUBSET AllRows /\ (session[w] # "open" => pending[w] = {})
    BY DEF SessionsTyped
  <2>4. ProgressTyped' /\ SessionsTyped' /\ Others(w) /\ w \notin waits' /\ waits' \subseteq waits
    BY <2>1, <2>2, <2>3, 1 + 0 = 1, AdvancesTyped
  <2>5. WaitsTyped'
    BY <2>4, StillWait DEF WaitsTyped
  <2>6. BoundsTyped' /\ RowsTyped' /\ Grows
    BY <2>1, <2>2 DEF bounds, history, BoundsTyped, RowsTyped, Grows
  <2> QED
    BY <2>4, <2>5, <2>6
<1>7. ASSUME MeetDuplicate(w)
      PROVE  /\ ProgressTyped' /\ SessionsTyped' /\ WaitsTyped' /\ BoundsTyped' /\ RowsTyped'
             /\ Others(w) /\ Grows
  <2>1. AtStep(w) /\ UNCHANGED <<db, cached, bounds, stored, killed>>
    BY <1>7 DEF MeetDuplicate, Answered, Sends
  <2>2. /\ session[w] \in {"open", "autocommit", "gone"} /\ pending[w] \in SUBSET AllRows
        /\ session[w] # "open" => pending[w] = {}
    BY DEF SessionsTyped
  <2>3. /\ ProgressTyped' /\ SessionsTyped' /\ Others(w) /\ w \notin waits' /\ waits' \subseteq waits
        /\ reported \subseteq reported' /\ reported' \subseteq Units \X AllRows
    BY <1>7, <2>1, <2>2, FailsTyped DEF MeetDuplicate
  <2>4. WaitsTyped'
    BY <2>3, StillWait DEF WaitsTyped
  <2>5. undone' = undone \cup pending[w] \/ undone' = undone
    BY <1>7 DEF MeetDuplicate, RollsBack
  <2>6. BoundsTyped' /\ RowsTyped' /\ Grows
    BY <2>1, <2>2, <2>3, <2>5 DEF bounds, BoundsTyped, RowsTyped, Grows
  <2> QED
    BY <2>3, <2>4, <2>6
<1>8. ASSUME OnDeadConnection(w)
      PROVE  /\ ProgressTyped' /\ SessionsTyped' /\ WaitsTyped' /\ BoundsTyped' /\ RowsTyped'
             /\ Others(w) /\ Grows
  <2>1. AtStep(w) /\ UNCHANGED <<db, cached, bounds, stored, undone, killed>>
    BY <1>8 DEF OnDeadConnection, Sends
  <2>2. /\ ProgressTyped' /\ SessionsTyped' /\ Others(w) /\ w \notin waits' /\ waits' \subseteq waits
        /\ reported \subseteq reported' /\ reported' \subseteq Units \X AllRows
    <3>1. Fails(w, TRUE, "gone", {}) /\ {} \in SUBSET AllRows /\ TRUE \in BOOLEAN
      BY <1>8 DEF OnDeadConnection
    <3>2. \A v \in Workers \ {w} : cached'[v] = cached[v]
      BY <2>1
    <3> QED
      BY <2>1, <3>1, <3>2, FailsTyped
  <2>3. WaitsTyped'
    BY <2>2, StillWait DEF WaitsTyped
  <2>4. BoundsTyped' /\ RowsTyped' /\ Grows
    BY <2>1, <2>2 DEF bounds, BoundsTyped, RowsTyped, Grows
  <2> QED
    BY <2>2, <2>3, <2>4
<1>9. ASSUME Deadlock(w)
      PROVE  /\ ProgressTyped' /\ SessionsTyped' /\ WaitsTyped' /\ BoundsTyped' /\ RowsTyped'
             /\ Others(w) /\ Grows
  <2>1. AtStep(w) /\ unit[w] \in Units
    BY <1>9, StepFacts DEF Deadlock, WaitsTyped, Sends
  <2>2. /\ ProgressTyped' /\ SessionsTyped' /\ Others(w) /\ w \notin waits' /\ waits' \subseteq waits
        /\ reported \subseteq reported' /\ reported' \subseteq Units \X AllRows
    <3>1. Fails(w, TRUE, "autocommit", {}) /\ {} \in SUBSET AllRows /\ TRUE \in BOOLEAN
      BY <1>9 DEF Deadlock
    <3>2. \A v \in Workers \ {w} : cached'[v] = cached[v]
      BY <1>9 DEF Deadlock
    <3> QED
      BY <2>1, <3>1, <3>2, FailsTyped
  <2>3. WaitsTyped'
    BY <2>2, StillWait DEF WaitsTyped
  <2>4. killed \subseteq killed' /\ killed' \subseteq Units
    BY <1>9, <2>1 DEF Deadlock, RowsTyped
  <2>5. BoundsTyped' /\ RowsTyped' /\ Grows
    BY <1>9, <2>2, <2>4 DEF Deadlock, RollsBack, bounds, BoundsTyped, SessionsTyped, RowsTyped, Grows
  <2> QED
    BY <2>2, <2>3, <2>5
<1>10. ASSUME Commit(w)
      PROVE  /\ ProgressTyped' /\ SessionsTyped' /\ WaitsTyped' /\ BoundsTyped' /\ RowsTyped'
             /\ Others(w) /\ Grows
  <2>1. 0 \in 0 .. MaxRepeats /\ 0 \in 0 .. MaxRetries /\ unit[w] \in Units
    BY <1>10, StoreFacts DEF Commit, AtEnd, ProgressTyped
  <2>2. ProgressTyped'
    BY <1>10, <2>1 DEF Commit, Leave, ProgressTyped
  <2>3. \A v \in Workers \ {w} : unit'[v] = unit[v] /\ pos'[v] = pos[v]
    BY <1>10 DEF Commit, Leave, ProgressTyped
  <2>4. Session(w, "open", {}) /\ UNCHANGED cached
    BY <1>10 DEF Commit
  <2>5. SessionsTyped'
    BY <2>3, <2>4, SessionTyped
  <2>6. Others(w) /\ w \notin waits' /\ waits' \subseteq waits
    BY <2>3, <2>4 DEF Others, Session, SessionsTyped
  <2>7. WaitsTyped'
    BY <2>6, StillWait DEF WaitsTyped
  <2>8. BoundsTyped' /\ RowsTyped' /\ Grows
    BY <1>10, <2>1 DEF Commit, bounds, BoundsTyped, SessionsTyped, RowsTyped, Grows
  <2> QED
    BY <2>2, <2>5, <2>6, <2>7, <2>8
<1>11. ASSUME CommitFails(w) \/ CommitLost(w)
      PROVE  /\ ProgressTyped' /\ SessionsTyped' /\ WaitsTyped' /\ BoundsTyped' /\ RowsTyped'
             /\ Others(w) /\ Grows
  <2>1. /\ RetryTransaction(w, TRUE) /\ Session(w, "open", {}) /\ unit[w] \in Units
        /\ UNCHANGED <<cached, due, refusals, closed, stored, reported, killed>>
    BY <1>11 DEF CommitFails, CommitLost, AtEnd, ProgressTyped, bounds, history
  <2>2. ProgressTyped'
    BY <2>1, RetryTyped
  <2>3. \A v \in Workers \ {w} : unit'[v] = unit[v] /\ pos'[v] = pos[v]
    BY <2>1 DEF RetryTransaction, Leave, ProgressTyped
  <2>4. SessionsTyped'
    BY <2>1, <2>3, SessionTyped
  <2>5. Others(w) /\ w \notin waits' /\ waits' \subseteq waits
    BY <2>1, <2>3 DEF Others, Session, SessionsTyped
  <2>6. WaitsTyped'
    BY <2>5, StillWait DEF WaitsTyped
  <2>7. losses' \in 0 .. MaxLosses
    <3>1. CASE CommitFails(w)
      BY <3>1 DEF CommitFails, bounds, BoundsTyped
    <3>2. CASE CommitLost(w)
      BY <3>2, StoreFacts DEF CommitLost, BoundsTyped
    <3> QED
      BY <1>11, <3>1, <3>2
  <2>8. /\ db' = db \/ db' = db \cup pending[w]
        /\ undone' = undone \/ undone' = undone \cup pending[w]
    BY <1>11 DEF CommitFails, CommitLost, RollsBack, history
  <2>9. BoundsTyped' /\ RowsTyped' /\ Grows
    BY <2>1, <2>7, <2>8 DEF BoundsTyped, SessionsTyped, RowsTyped, Grows
  <2> QED
    BY <2>2, <2>4, <2>5, <2>6, <2>9
<1>12. ASSUME Refused(w)
      PROVE  /\ ProgressTyped' /\ SessionsTyped' /\ WaitsTyped' /\ BoundsTyped' /\ RowsTyped'
             /\ Others(w) /\ Grows
  <2>1. /\ AtStep(w) /\ UNCHANGED <<db, cached, due, losses, closed, stored, killed>>
        /\ refusals' \in 0 .. MaxRefusals
    BY <1>12, StoreFacts DEF Refused, Sends, BoundsTyped
  <2>2. /\ session[w] \in {"open", "autocommit", "gone"} /\ pending[w] \in SUBSET AllRows
        /\ session[w] # "open" => pending[w] = {}
    BY DEF SessionsTyped
  <2>3. /\ ProgressTyped' /\ SessionsTyped' /\ Others(w) /\ w \notin waits' /\ waits' \subseteq waits
        /\ reported \subseteq reported' /\ reported' \subseteq Units \X AllRows
    <3>1. CASE /\ Advance(w, 1 + Step(w).skip) /\ Session(w, session[w], pending[w])
               /\ UNCHANGED <<undone, reported>>
      BY <2>1, <2>2, <3>1, AdvancesTyped DEF RowsTyped
    <3>2. ASSUME NEW r \in BOOLEAN, Fails(w, r, session[w], pending[w])
          PROVE  /\ ProgressTyped' /\ SessionsTyped' /\ Others(w) /\ w \notin waits'
                 /\ waits' \subseteq waits
                 /\ reported \subseteq reported' /\ reported' \subseteq Units \X AllRows
      BY <2>1, <2>2, <3>2, FailsTyped
    <3> QED
      BY <1>12, <3>1, <3>2 DEF Refused
  <2>4. WaitsTyped'
    BY <2>3, StillWait DEF WaitsTyped
  <2>5. undone' = undone \cup pending[w] \/ undone' = undone
    BY <1>12 DEF Refused, RollsBack
  <2>6. BoundsTyped' /\ RowsTyped' /\ Grows
    BY <2>1, <2>2, <2>3, <2>5 DEF BoundsTyped, RowsTyped, Grows
  <2> QED
    BY <2>3, <2>4, <2>6
<1>13. ASSUME Cut(w)
      PROVE  /\ ProgressTyped' /\ SessionsTyped' /\ WaitsTyped' /\ BoundsTyped' /\ RowsTyped'
             /\ Others(w) /\ Grows
  <2>1. /\ Session(w, "gone", {}) /\ unit[w] # NoUnit
        /\ UNCHANGED <<progress, db, cached, due, refusals, closed, stored, reported, killed>>
    BY <1>13 DEF Cut
  <2>2. ProgressTyped'
    BY <2>1 DEF progress, ProgressTyped
  <2>3. SessionsTyped'
    BY <2>1, SessionTyped DEF progress
  <2>4. Others(w) /\ w \notin waits' /\ waits' \subseteq waits
    BY <2>1 DEF progress, Others, Session, SessionsTyped
  <2>5. WaitsTyped'
    BY <2>4, StillWait DEF WaitsTyped
  <2>6. losses' \in 0 .. MaxLosses
    BY <1>13, StoreFacts DEF Cut, BoundsTyped
  <2>7. BoundsTyped' /\ RowsTyped' /\ Grows
    BY <1>13, <2>1, <2>6 DEF Cut, RollsBack, BoundsTyped, SessionsTyped, RowsTyped, Grows
  <2> QED
    BY <2>2, <2>3, <2>4, <2>5, <2>7
<1>14. ASSUME LockTimeout(w)
      PROVE  /\ ProgressTyped' /\ SessionsTyped' /\ WaitsTyped' /\ BoundsTyped' /\ RowsTyped'
             /\ Others(w) /\ Grows
  <2>1. /\ Fails(w, TRUE, session[w], pending[w])
        /\ UNCHANGED <<db, cached, bounds, stored, killed>>
    BY <1>14 DEF LockTimeout
  <2>2. /\ AtStep(w)
        /\ session[w] \in {"open", "autocommit", "gone"} /\ pending[w] \in SUBSET AllRows
        /\ session[w] # "open" => pending[w] = {}
    BY <1>14 DEF LockTimeout, WaitsTyped, Sends, SessionsTyped
  <2>3. /\ ProgressTyped' /\ SessionsTyped' /\ Others(w) /\ w \notin waits' /\ waits' \subseteq waits
        /\ reported \subseteq reported' /\ reported' \subseteq Units \X AllRows
    BY <2>1, <2>2, FailsTyped
  <2>4. WaitsTyped'
    BY <2>3, StillWait DEF WaitsTyped
  <2>5. undone' = undone \cup pending[w] \/ undone' = undone
    BY <1>14 DEF LockTimeout, RollsBack
  <2>6. BoundsTyped' /\ RowsTyped' /\ Grows
    BY <2>1, <2>2, <2>3, <2>5 DEF bounds, BoundsTyped, RowsTyped, Grows
  <2> QED
    BY <2>3, <2>4, <2>6
<1>15. ASSUME PoolCloses(w)
      PROVE  /\ ProgressTyped' /\ SessionsTyped' /\ WaitsTyped' /\ BoundsTyped' /\ RowsTyped'
             /\ Others(w) /\ Grows
  <2>1. UNCHANGED <<progress, server, cached, due, refusals, history>>
    BY <1>15 DEF PoolCloses
  <2>2. ProgressTyped' /\ SessionsTyped' /\ RowsTyped'
    BY <2>1 DEF progress, server, history, ProgressTyped, SessionsTyped, RowsTyped
  <2>3. WaitsTyped'
    BY <2>1 DEF progress, server, WaitsTyped, Sends, AsksOutside, AtStep, HasStep, Step, Hit
  <2>4. BoundsTyped'
    BY <1>15, <2>1, StoreFacts DEF PoolCloses, BoundsTyped
  <2>5. Others(w) /\ Grows
    BY <2>1 DEF progress, server, history, Others, Grows
  <2> QED
    BY <2>2, <2>3, <2>4, <2>5
<1>16. ASSUME OutsideFails(w)
      PROVE  /\ ProgressTyped' /\ SessionsTyped' /\ WaitsTyped' /\ BoundsTyped' /\ RowsTyped'
             /\ Others(w) /\ Grows
  <2>1. AtStep(w) /\ UNCHANGED <<db, cached, bounds, stored, killed>>
    BY <1>16 DEF OutsideFails, AsksOutside
  <2>2. /\ session[w] \in {"open", "autocommit", "gone"} /\ pending[w] \in SUBSET AllRows
        /\ session[w] # "open" => pending[w] = {}
    BY DEF SessionsTyped
  <2>3. /\ ProgressTyped' /\ SessionsTyped' /\ Others(w) /\ w \notin waits' /\ waits' \subseteq waits
        /\ reported \subseteq reported' /\ reported' \subseteq Units \X AllRows
    BY <1>16, <2>1, <2>2, FailsTyped DEF OutsideFails
  <2>4. WaitsTyped'
    BY <2>3, StillWait DEF WaitsTyped
  <2>5. undone' = undone \cup pending[w] \/ undone' = undone
    BY <1>16 DEF OutsideFails, RollsBack
  <2>6. BoundsTyped' /\ RowsTyped' /\ Grows
    BY <2>1, <2>2, <2>3, <2>5 DEF bounds, BoundsTyped, RowsTyped, Grows
  <2> QED
    BY <2>3, <2>4, <2>6
<1> HIDE <1>0
<1> QED
  BY <1>1, <1>2, <1>3, <1>4, <1>5, <1>6, <1>7, <1>8, <1>9, <1>10, <1>11, <1>12, <1>13, <1>14,
     <1>15, <1>16, TypeParts DEF Act, Proceed

LEMMA InitTyped == Init => TypeOK
<1> SUFFICES ASSUME Init PROVE TypeOK
  OBVIOUS
<1> USE StoreFacts
<1>1. ProgressTyped /\ SessionsTyped /\ BoundsTyped
  BY DEF Init, ProgressTyped, SessionsTyped, BoundsTyped
<1>2. WaitsTyped /\ RowsTyped
  BY DEF Init, WaitsTyped, RowsTyped
<1> QED
  BY <1>1, <1>2, TypeParts

LEMMA SameTyped == TypeOK /\ UNCHANGED vars => TypeOK'
<1> SUFFICES ASSUME TypeOK, UNCHANGED vars PROVE TypeOK'
  OBVIOUS
<1> USE DEF vars, progress, server, bounds, history
<1>0. ProgressTyped /\ SessionsTyped /\ WaitsTyped /\ BoundsTyped /\ RowsTyped
  BY TypeParts
<1>1. ProgressTyped' /\ SessionsTyped' /\ BoundsTyped'
  BY <1>0 DEF ProgressTyped, SessionsTyped, BoundsTyped
<1>2. WaitsTyped' /\ RowsTyped'
  BY <1>0 DEF WaitsTyped, RowsTyped, Sends, AsksOutside, AtStep, HasStep, Step, Hit
<1> QED
  BY <1>1, <1>2, TypeParts

\* All variables keep their types: workers go on within their units, and hold rows
\* only in transactions that are open.
THEOREM StoreTyped == Spec => []TypeOK
<1>1. TypeOK /\ [Next]_vars => TypeOK'
  BY ActTyped, SameTyped DEF Next, Act
<1> QED
  BY InitTyped, <1>1, PTL DEF Spec

-----------------------------------------------------------------------------
(* What a step does to the worker that takes it                            *)

\* A unit's head is a step of its own that ends the attempt if it fails, as do
\* those before it, which are not its own.
LEMMA HeadFacts ==
    ASSUME NEW u \in Units
    PROVE  /\ HeadAt(u) \in 1 .. Length(u)
           /\ Steps[u][HeadAt(u)].own /\ Steps[u][HeadAt(u)].aborts
           /\ \A j \in 1 .. HeadAt(u) - 1 : Steps[u][j].aborts
<1>1. PICK h \in 1 .. Length(u) :
        /\ Steps[u][h].own /\ Steps[u][h].aborts
        /\ \A j \in 1 .. h - 1 : ~Steps[u][j].own /\ Steps[u][j].aborts
  BY UnitFacts
<1>2. /\ HeadAt(u) \in 1 .. Length(u) /\ Steps[u][HeadAt(u)].own
      /\ \A j \in 1 .. HeadAt(u) - 1 : ~Steps[u][j].own
  BY <1>1 DEF HeadAt
<1>3. HeadAt(u) = h
  <2>1. ~(h < HeadAt(u))
    BY <1>1, <1>2, StoreFacts
  <2>2. ~(HeadAt(u) < h)
    BY <1>1, <1>2, StoreFacts
  <2>3. HeadAt(u) \in Nat /\ h \in Nat
    BY <1>2, StoreFacts
  <2> QED
    BY <2>1, <2>2, <2>3
<1> QED
  BY <1>1, <1>2, <1>3

\* Nothing that comes before an own step, or is one, is ever left out.
LEMMA BeforeOwn ==
    ASSUME NEW u \in Units, NEW k \in 1 .. Length(u), NEW i \in 1 .. Length(u), Steps[u][i].own,
           Steps[u][k].row = Steps[u][i].row, NEW j \in 1 .. k
    PROVE  \A h \in 1 .. j - 1 : Steps[u][h].do # "keep"
<1>1. Steps[u][k].own
  BY UnitFacts
<1> SUFFICES ASSUME NEW h \in 1 .. j - 1, Steps[u][h].do = "keep" PROVE FALSE
  OBVIOUS
<1>2. h \in 1 .. Length(u) /\ k \in h + 1 .. Length(u)
  BY StoreFacts
<1> QED
  BY <1>1, <1>2, UnitFacts

\* A worker that keeps its rows keeps what they refer to.
LEMMA PendingKept ==
    ASSUME NEW w \in Workers, PendingOwn(w), PendingNeeds(w), Grows,
           unit'[w] = unit[w], pending'[w] = pending[w]
    PROVE  PendingOwn(w)' /\ PendingNeeds(w)'
<1>1. PendingOwn(w)'
  BY DEF PendingOwn
<1>2. PendingNeeds(w)'
  <2> SUFFICES ASSUME NEW u \in Units, NEW r \in OwnRows(u), r \in pending'[w]
               PROVE  \E needs \in NeedsOf(u, r) : \A p \in needs :
                        p \in db' \cup pending'[w] \cup undone' \/ <<u, p>> \in reported'
    BY DEF PendingNeeds, NeedsMet, NeedsOf, OwnRows, Length
  <2>1. NeedsMet(u, r, db \cup pending[w] \cup undone)
    BY DEF PendingNeeds
  <2> QED
    BY <2>1 DEF NeedsMet, Grows
<1> QED
  BY <1>1, <1>2

\* The steps of other workers do not disturb what is known of a worker.
LEMMA OthersInv ==
    ASSUME NEW w \in Workers, Others(w), Grows, NEW v \in Workers \ {w}, WorkerInv(v)
    PROVE  WorkerInv(v)'
<1> USE DEF Others, Grows
<1>1. StepsKept(v)' /\ HeadKept(v)'
  BY DEF WorkerInv, StepsKept, HeadKept, Kept
<1>2. CachesKept(v)' /\ Autocommits(v)' /\ WaitsConnected(v)'
  BY DEF WorkerInv, CachesKept, Autocommits, WaitsConnected
<1>3. PendingOwn(v)' /\ PendingNeeds(v)'
  BY PendingKept DEF WorkerInv
<1> QED
  BY <1>1, <1>2, <1>3 DEF WorkerInv

\* The attempt of w is over and another one begins, or none
Ends(w) ==
    /\ unit'[w] = NoUnit \/ pos'[w] = 1
    /\ session'[w] = "open" /\ pending'[w] = {} /\ w \notin waits'
    /\ cached'[w] = cached[w] /\ pending[w] \subseteq db' \cup undone'

LEMMA EndsInv ==
    ASSUME NEW w \in Workers, TypeOK', Grows, WorkerInv(w), Ends(w)
    PROVE  WorkerInv(w)'
<1>1. StepsKept(w)'
  BY DEF Ends, StepsKept
<1>2. HeadKept(w)'
  <2>1. ~(1 > HeadAt(unit'[w])) \/ unit'[w] = NoUnit
    <3>1. unit'[w] \in Units \cup {NoUnit}
      BY DEF TypeOK
    <3>2. unit'[w] \in Units => HeadAt(unit'[w]) \in 1 .. Length(unit'[w])
      BY HeadFacts
    <3> QED
      BY <3>1, <3>2, StoreFacts
  <2> QED
    BY <2>1 DEF Ends, HeadKept
<1>3. CachesKept(w)' /\ Autocommits(w)' /\ WaitsConnected(w)'
  BY DEF Ends, WorkerInv, CachesKept, Autocommits, WaitsConnected, Grows
<1>4. PendingOwn(w)' /\ PendingNeeds(w)'
  BY DEF Ends, PendingOwn, PendingNeeds
<1> QED
  BY <1>1, <1>2, <1>3, <1>4 DEF WorkerInv

\* The attempt of w at unit u goes on, in the same session or one that the server
\* has ended, with the row of the step added to its transaction or not.
GoesOn(w, u) ==
    /\ unit[w] = u /\ unit'[w] = u /\ pos'[w] >= pos[w] /\ w \notin waits'
    /\ \/ session'[w] = session[w] /\ pending[w] \subseteq pending'[w]
       \/ session'[w] = "gone"
       \/ session'[w] = "autocommit" /\ session[w] # "gone" /\ u \in killed'
    /\ pending[w] \subseteq pending'[w] \cup undone'
    /\ pending'[w] \subseteq pending[w] \cup {Step(w).row}
    /\ pending'[w] \subseteq pending[w] \/ session[w] # "gone"
    /\ \A k \in cached'[w] \ cached[w] : k[2] \in db' \cup pending'[w]
    /\ session'[w] # "gone" => \A j \in pos[w] .. pos'[w] - 1 : Kept(w, u, j)'
    /\ session'[w] = "open" /\ pos[w] <= HeadAt(u) /\ pos'[w] > HeadAt(u) =>
            HeadRow(u) \in db' \cup pending'[w]

LEMMA GoesOnInv ==
    ASSUME TypeOK, TypeOK', NEW w \in Workers, AtStep(w), Grows, WorkerInv(w),
           NEW u, GoesOn(w, u)
    PROVE  WorkerInv(w)'
<1>0. /\ u \in Units /\ u # NoUnit /\ pos[w] \in 1 .. Length(u) /\ pos'[w] \in Nat
      /\ Length(u) \in Nat /\ pending'[w] # {} => session'[w] = "open"
  BY StoreFacts DEF TypeOK, AtStep, HasStep, GoesOn
<1>1. StepsKept(w)'
  <2> SUFFICES ASSUME session'[w] # "gone", NEW j \in 1 .. pos'[w] - 1 PROVE Kept(w, u, j)'
    BY DEF StepsKept, GoesOn, Kept
  <2>1. CASE j >= pos[w]
    BY <1>0, <2>1 DEF GoesOn
  <2>2. CASE j < pos[w]
    <3>1. Kept(w, u, j)
      BY <1>0, <2>2 DEF WorkerInv, StepsKept, GoesOn, TypeOK
    <3>2. CASE pending[w] \subseteq pending'[w]
      BY <3>1, <3>2 DEF Kept, Grows
    <3>3. CASE u \in killed' /\ pending[w] \subseteq pending'[w] \cup undone'
      <4>1. Steps[u][j].own \in BOOLEAN
        BY <1>0, <2>2, StoreFacts
      <4> QED
        BY <3>1, <3>3, <4>1 DEF Kept, Grows
    <3> QED
      BY <3>2, <3>3 DEF GoesOn
  <2> QED
    BY <1>0, <2>1, <2>2
<1>2. HeadKept(w)'
  <2> SUFFICES ASSUME session'[w] = "open", pos'[w] > HeadAt(u)
               PROVE  HeadRow(u) \in db' \cup pending'[w]
    BY DEF HeadKept, GoesOn, HeadRow, HeadAt, Length
  <2>1. HeadAt(u) \in Nat
    BY <1>0, HeadFacts
  <2>2. CASE pos[w] <= HeadAt(u)
    BY <2>2 DEF GoesOn
  <2>3. CASE pos[w] > HeadAt(u)
    BY <1>0, <2>3 DEF GoesOn, WorkerInv, HeadKept, Grows
  <2> QED
    BY <1>0, <2>1, <2>2, <2>3
<1>3. CachesKept(w)' /\ Autocommits(w)' /\ WaitsConnected(w)'
  BY DEF GoesOn, WorkerInv, CachesKept, Autocommits, WaitsConnected, Grows
<1>4. ASSUME NEW v \in Units, NEW i \in 1 .. Length(v), Steps[v][i].own,
             Steps[v][i].row \in pending'[w], Steps[v][i].row \notin pending[w]
      PROVE  v = u /\ Steps[v][i].row = Step(w).row
  <2>1. Steps[v][i].row = Steps[u][pos[w]].row
    BY <1>4 DEF GoesOn, Step
  <2> QED
    BY <1>0, <1>4, <2>1, UnitFacts DEF GoesOn, Step
<1>5. PendingOwn(w)'
  BY <1>4 DEF PendingOwn, GoesOn, WorkerInv
<1>6. PendingNeeds(w)'
  <2> SUFFICES ASSUME NEW v \in Units, NEW r \in OwnRows(v), r \in pending'[w]
               PROVE  \E needs \in NeedsOf(v, r) : \A p \in needs :
                        p \in db' \cup pending'[w] \cup undone' \/ <<v, p>> \in reported'
    BY DEF PendingNeeds, NeedsMet, NeedsOf, OwnRows, Length
  <2>1. pending[w] \subseteq pending'[w] \cup undone'
    BY DEF GoesOn
  <2>2. CASE r \in pending[w]
    <3>1. NeedsMet(v, r, db \cup pending[w] \cup undone)
      BY <2>2 DEF WorkerInv, PendingNeeds
    <3> QED
      BY <2>1, <3>1 DEF NeedsMet, Grows
  <2>3. CASE r \notin pending[w]
    <3>1. PICK i \in 1 .. Length(v) : Steps[v][i].own /\ Steps[v][i].row = r
      BY DEF OwnRows
    <3>2. v = u /\ r = Steps[u][pos[w]].row /\ session[w] # "gone"
      BY <1>4, <2>3, <3>1 DEF GoesOn, Step
    <3>3. Steps[u][pos[w]].needs \in NeedsOf(v, r)
      BY <1>0, <3>2 DEF NeedsOf
    <3>4. ASSUME NEW p \in Steps[u][pos[w]].needs
          PROVE  p \in db' \cup pending'[w] \cup undone' \/ <<v, p>> \in reported'
      <4>1. PICK j \in 1 .. pos[w] - 1 : Steps[u][j].row = p /\ ~Steps[u][j].own
        BY <1>0, UnitFacts
      <4>2. Kept(w, u, j)
        BY <1>0, <3>2, <4>1 DEF WorkerInv, StepsKept, GoesOn
      <4>3. \A h \in 1 .. j - 1 : Steps[u][h].do # "keep"
        BY <1>0, <3>1, <3>2, <4>1, BeforeOwn
      <4> QED
        BY <2>1, <3>2, <4>1, <4>2, <4>3 DEF Kept, Grows
    <3> QED
      BY <3>3, <3>4
  <2> QED
    BY <2>2, <2>3
<1> QED
  BY <1>1, <1>2, <1>3, <1>5, <1>6 DEF WorkerInv

\* A failing step repeats, ends the attempt, or is reported with those that depend
\* on it.
LEMMA FailsInv ==
    ASSUME TypeOK, TypeOK', NEW w \in Workers, AtStep(w), Grows, WorkerInv(w),
           NEW r \in BOOLEAN, NEW s, NEW rows, Fails(w, r, s, rows), w \notin waits',
           cached'[w] = cached[w],
           \/ s = session[w] /\ rows = pending[w]
           \/ /\ s = "autocommit" /\ rows = {} /\ session[w] # "gone"
              /\ session'[w] = "autocommit" => unit[w] \in killed',
           pending[w] \subseteq pending'[w] \cup undone'
    PROVE  WorkerInv(w)'
<1> DEFINE u == unit[w]
<1>0. /\ u \in Units /\ u # NoUnit /\ pos[w] \in 1 .. Length(u) /\ Length(u) \in Nat
      /\ Step(w).skip \in 0 .. Length(u) - pos[w]
  BY StepFacts, TypeParts DEF AtStep
<1>1. Session(w, s, rows) => session'[w] = s /\ pending'[w] = rows
  BY DEF Session, TypeOK
<1>2. CASE Session(w, s, rows) /\ UNCHANGED <<unit, pos, retry, reported>>
  <2>1. unit[w] = u /\ unit'[w] = u /\ pos'[w] = pos[w] /\ session'[w] = s /\ pending'[w] = rows
    BY <1>1, <1>2
  <2>2. /\ pos'[w] >= pos[w] /\ \A j \in pos[w] .. pos'[w] - 1 : Kept(w, u, j)'
        /\ ~(pos[w] <= HeadAt(u) /\ pos'[w] > HeadAt(u))
    <3>1. HeadAt(u) \in Nat
      BY <1>0, HeadFacts
    <3> QED
      BY <1>0, <2>1, <3>1
  <2>3. GoesOn(w, u)
    BY <2>1, <2>2 DEF GoesOn
  <2> QED
    BY <2>3, GoesOnInv
<1>3. CASE RetryTransaction(w, r) /\ Session(w, "open", {})
  <2>1. unit'[w] = NoUnit \/ pos'[w] = 1
    BY <1>3 DEF RetryTransaction, Leave, TypeOK
  <2>2. session'[w] = "open" /\ pending'[w] = {}
    BY <1>3 DEF Session, TypeOK
  <2>3. Ends(w)
    BY <2>1, <2>2 DEF Ends
  <2> QED
    BY <2>3, EndsInv
<1>4. CASE /\ ~Step(w).aborts /\ Advance(w, 1 + Step(w).skip) /\ Session(w, s, rows)
           /\ reported' = reported \cup Reports(w)
  <2>1. unit'[w] = u /\ pos'[w] = pos[w] + 1 + Step(w).skip
    BY <1>0, <1>4 DEF Advance, TypeOK
  <2>2. ASSUME NEW j \in pos[w] .. pos'[w] - 1
        PROVE  Kept(w, u, j)'
    <3>1. j \in pos[w] .. pos[w] + Step(w).skip
      BY <1>0, <2>1
    <3>2. <<u, Steps[u][j].row>> \in reported'
      BY <1>4, <3>1 DEF Reports
    <3> QED
      BY <2>1, <3>2 DEF Kept
  <2>3. pos[w] > HeadAt(u)
    <3>1. /\ HeadAt(u) \in 1 .. Length(u) /\ Steps[u][HeadAt(u)].aborts
          /\ \A j \in 1 .. HeadAt(u) - 1 : Steps[u][j].aborts
      BY <1>0, HeadFacts
    <3>2. ~Steps[u][pos[w]].aborts
      BY <1>4 DEF Step
    <3> QED
      BY <1>0, <3>1, <3>2
  <2>4. pos'[w] >= pos[w] /\ HeadAt(u) \in Nat
    BY <1>0, <2>1, HeadFacts
  <2>5. GoesOn(w, u)
    <3>1. session'[w] = s /\ pending'[w] = rows
      BY <1>1, <1>4
    <3>2. ~(pos[w] <= HeadAt(u))
      BY <1>0, <2>3, <2>4
    <3>3. \A j \in pos[w] .. pos'[w] - 1 : Kept(w, u, j)'
      BY <2>2
    <3>4. \/ session'[w] = session[w] /\ pending'[w] = pending[w]
          \/ /\ session'[w] = "autocommit" /\ session[w] # "gone" /\ u \in killed'
             /\ pending'[w] = {}
      BY <3>1
    <3> QED
      BY <2>1, <2>4, <3>2, <3>3, <3>4 DEF GoesOn
  <2> QED
    BY <2>5, GoesOnInv
<1> QED
  BY <1>2, <1>3, <1>4, FailsCases

\* A step that leaves its row where the worker finds it goes on.
LEMMA FoundInv ==
    ASSUME TypeOK, TypeOK', NEW w \in Workers, AtStep(w), Grows, WorkerInv(w), Advance(w, 1),
           w \notin waits', session'[w] = session[w], session[w] # "gone",
           pending[w] \subseteq pending'[w],
           pending'[w] \subseteq pending[w] \cup {Step(w).row},
           Step(w).row \in db' \cup pending'[w],
           cached'[w] \subseteq cached[w] \cup {<<Step(w).cache, Step(w).row>>}
    PROVE  WorkerInv(w)'
<1> DEFINE u == unit[w]
<1>0. u \in Units /\ pos[w] \in 1 .. Length(u) /\ Length(u) \in Nat
  BY StepFacts, TypeParts
<1>1. unit'[w] = u /\ pos'[w] = pos[w] + 1
  BY DEF Advance, TypeOK
<1>2. ASSUME NEW j \in pos[w] .. pos'[w] - 1
      PROVE  Kept(w, u, j)'
  BY <1>0, <1>1, <1>2 DEF Kept, Step
<1>3. ASSUME pos[w] <= HeadAt(u), pos'[w] > HeadAt(u)
      PROVE  HeadRow(u) \in db' \cup pending'[w]
  <2>1. HeadAt(u) = pos[w]
    BY <1>0, <1>1, <1>3, HeadFacts
  <2> QED
    BY <2>1 DEF HeadRow, Step
<1>4. pos'[w] >= pos[w]
  BY <1>0, <1>1
<1>5. GoesOn(w, u)
  BY <1>1, <1>2, <1>3, <1>4 DEF GoesOn
<1> QED
  BY <1>5, GoesOnInv

\* A row that is found after an error: what is left out is nobody's own.
LEMMA KeepsInv ==
    ASSUME TypeOK, TypeOK', NEW w \in Workers, AtStep(w), Grows, WorkerInv(w),
           Step(w).do = "keep", Step(w).row \in db \cup pending[w], Advance(w, 1 + Step(w).skip),
           w \notin waits', session'[w] = session[w], session[w] # "gone",
           pending'[w] = pending[w], cached'[w] = cached[w]
    PROVE  WorkerInv(w)'
<1> DEFINE u == unit[w]
<1>0. /\ u \in Units /\ pos[w] \in 1 .. Length(u) /\ Length(u) \in Nat
      /\ Step(w).skip \in 0 .. Length(u) - pos[w]
  BY StepFacts, TypeParts
<1>1. unit'[w] = u /\ pos'[w] = pos[w] + 1 + Step(w).skip
  BY <1>0 DEF Advance, TypeOK
<1>2. ASSUME NEW j \in pos[w] .. pos'[w] - 1
      PROVE  Kept(w, u, j)'
  <2>1. CASE j = pos[w]
    BY <1>1, <2>1 DEF Kept, Step, Grows
  <2>2. CASE j # pos[w]
    <3>1. pos[w] \in 1 .. j - 1
      BY <1>0, <1>1, <1>2, <2>2
    <3> QED
      BY <1>1, <3>1 DEF Kept, Step
  <2> QED
    BY <2>1, <2>2
<1>3. ASSUME pos[w] <= HeadAt(u), pos'[w] > HeadAt(u)
      PROVE  HeadRow(u) \in db' \cup pending'[w]
  <2>1. HeadAt(u) \in 1 .. Length(u) /\ Steps[u][HeadAt(u)].own
    BY <1>0, HeadFacts
  <2>2. ~(HeadAt(u) \in pos[w] + 1 .. Length(u))
    BY <1>0, <2>1, UnitFacts DEF Step
  <2>3. HeadAt(u) = pos[w]
    BY <1>0, <1>3, <2>1, <2>2
  <2> QED
    BY <2>3 DEF HeadRow, Step, Grows
<1>4. pos'[w] >= pos[w]
  BY <1>0, <1>1
<1>5. GoesOn(w, u)
  BY <1>1, <1>2, <1>3, <1>4 DEF GoesOn
<1> QED
  BY <1>5, GoesOnInv

\* So every action keeps what is known of the worker that takes it.
LEMMA ActWorkerInv ==
    ASSUME TypeOK, TypeOK', NEW w \in Workers, Act(w), Grows, WorkerInv(w)
    PROVE  WorkerInv(w)'
<1>0. ProgressTyped /\ SessionsTyped /\ WaitsTyped /\ BoundsTyped /\ RowsTyped
  BY TypeParts
<1>1. ASSUME NEW u \in Units, Begin(w, u)
      PROVE  WorkerInv(w)'
  <2>1. unit[w] = NoUnit /\ pos'[w] = 1 /\ UNCHANGED <<server, cached, history>>
    BY <1>1 DEF Begin, TypeOK
  <2>2. session[w] = "open" /\ pending[w] = {} /\ w \notin waits
    BY <2>1 DEF TypeOK, Sends, AtStep
  <2>3. Ends(w)
    BY <2>1, <2>2 DEF Ends, server, TypeOK
  <2> QED
    BY <2>3, EndsInv
<1>2. ASSUME NewProcessor(w)
      PROVE  WorkerInv(w)'
  <2>1. /\ unit[w] = NoUnit /\ UNCHANGED <<progress, server, history>>
        /\ \A k \in cached'[w] : k[2] \in db
    BY <1>2 DEF NewProcessor, TypeOK
  <2>2. StepsKept(w)' /\ HeadKept(w)' /\ CachesKept(w)'
    BY <2>1 DEF StepsKept, HeadKept, CachesKept, progress, server
  <2>3. Autocommits(w)' /\ WaitsConnected(w)'
    BY <2>1 DEF WorkerInv, Autocommits, WaitsConnected, progress, server, history
  <2>4. PendingOwn(w)' /\ PendingNeeds(w)'
    BY <2>1, PendingKept DEF WorkerInv, progress, server
  <2> QED
    BY <2>2, <2>3, <2>4 DEF WorkerInv
<1>3. ASSUME CacheHit(w)
      PROVE  WorkerInv(w)'
  <2> DEFINE u == unit[w]
  <2>0. u \in Units /\ pos[w] \in 1 .. Length(u) /\ Length(u) \in Nat
    BY <1>0, <1>3, StepFacts DEF CacheHit
  <2>1. unit'[w] = u /\ pos'[w] = pos[w] + 1 /\ UNCHANGED <<server, cached, history>>
    BY <1>3 DEF CacheHit, Advance, TypeOK
  <2>2. ~Steps[u][pos[w]].own
    <3>1. <<Step(w).cache, Step(w).row>> \in CacheKeys
      BY <1>3 DEF CacheHit, Hit, TypeOK
    <3>2. Step(w).cache # NoCache
      BY <3>1 DEF CacheKeys
    <3> QED
      BY <2>0, <3>2, UnitFacts DEF Step
  <2>3. Step(w).row \in db \cup pending[w] \cup undone
    BY <1>3 DEF CacheHit, Hit, WorkerInv, CachesKept
  <2>4. ASSUME NEW j \in pos[w] .. pos'[w] - 1
        PROVE  Kept(w, u, j)'
    <3>1. j = pos[w]
      BY <2>0, <2>1
    <3> QED
      BY <2>1, <2>2, <2>3, <3>1 DEF Kept, Step, server, history
  <2>5. pos'[w] >= pos[w] /\ ~(pos[w] <= HeadAt(u) /\ pos'[w] > HeadAt(u))
    <3>1. HeadAt(u) \in 1 .. Length(u) /\ Steps[u][HeadAt(u)].own
      BY <2>0, HeadFacts
    <3>2. HeadAt(u) # pos[w]
      BY <2>2, <3>1
    <3> QED
      BY <2>0, <2>1, <3>1, <3>2
  <2>6. w \notin waits
    BY <1>3 DEF CacheHit, TypeOK, Sends
  <2>7. GoesOn(w, u)
    BY <2>1, <2>4, <2>5, <2>6 DEF GoesOn, server
  <2> QED
    BY <1>3, <2>7, GoesOnInv DEF CacheHit
<1>4. ASSUME WaitForLock(w)
      PROVE  WorkerInv(w)'
  <2>1. StepsKept(w)' /\ HeadKept(w)' /\ CachesKept(w)'
    BY <1>4 DEF WaitForLock, WorkerInv, StepsKept, HeadKept, CachesKept, Kept, progress, history
  <2>2. Autocommits(w)' /\ WaitsConnected(w)'
    BY <1>4 DEF WaitForLock, WorkerInv, Autocommits, WaitsConnected, progress, history
  <2>3. PendingOwn(w)' /\ PendingNeeds(w)'
    BY <1>4, PendingKept DEF WaitForLock, WorkerInv, progress
  <2> QED
    BY <2>1, <2>2, <2>3 DEF WorkerInv
<1>5. ASSUME StoreRow(w) \/ FindRow(w)
      PROVE  WorkerInv(w)'
  <2>1. /\ AtStep(w) /\ Advance(w, 1) /\ Caches(w) /\ session[w] # "gone"
        /\ \E rows : /\ Session(w, session[w], rows) /\ pending[w] \subseteq rows
                     /\ rows \subseteq pending[w] \cup {Step(w).row}
                     /\ Step(w).row \in db' \cup rows
    BY <1>5 DEF StoreRow, FindRow, Answered, Sends, Sees, TypeOK
  <2>2. /\ w \notin waits' /\ session'[w] = session[w] /\ pending[w] \subseteq pending'[w]
        /\ pending'[w] \subseteq pending[w] \cup {Step(w).row}
        /\ Step(w).row \in db' \cup pending'[w]
    BY <2>1 DEF Session, TypeOK
  <2>3. cached'[w] \subseteq cached[w] \cup {<<Step(w).cache, Step(w).row>>}
    BY <2>1 DEF Caches, TypeOK
  <2> QED
    BY <2>1, <2>2, <2>3, FoundInv
<1>6. ASSUME MeetDuplicate(w)
      PROVE  WorkerInv(w)'
  <2>1. AtStep(w) /\ Fails(w, FALSE, session[w], pending[w]) /\ cached' = cached
    BY <1>6 DEF MeetDuplicate, Answered, Sends
  <2>2. w \notin waits'
    BY <2>1, FailsCases DEF Session
  <2>3. pending[w] \subseteq pending'[w] \cup undone'
    <3>1. CASE Step(w).aborts
      BY <1>6, <3>1 DEF MeetDuplicate, RollsBack
    <3>2. CASE ~Step(w).aborts
      <4>1. Session(w, session[w], pending[w])
        BY <2>1, <3>2, FailsCases
      <4>2. pending'[w] = pending[w]
        BY <4>1 DEF Session, TypeOK
      <4> QED
        BY <4>2
    <3> QED
      BY <3>1, <3>2
  <2> QED
    BY <2>1, <2>2, <2>3, FailsInv
<1>7. ASSUME OnDeadConnection(w)
      PROVE  WorkerInv(w)'
  <2>1. /\ AtStep(w) /\ Fails(w, TRUE, "gone", {}) /\ cached' = cached
        /\ session[w] = "gone" /\ pending[w] = {}
    BY <1>7 DEF OnDeadConnection, Sends, TypeOK
  <2>2. w \notin waits'
    BY <2>1, FailsCases DEF Session
  <2> QED
    BY <2>1, <2>2, FailsInv
<1>8. ASSUME Deadlock(w)
      PROVE  WorkerInv(w)'
  <2>1. /\ AtStep(w) /\ Fails(w, TRUE, "autocommit", {}) /\ cached' = cached
        /\ session[w] # "gone" /\ pending[w] \subseteq undone'
        /\ session'[w] = "autocommit" => unit[w] \in killed'
    BY <1>8 DEF Deadlock, RollsBack, TypeOK, Sends, WorkerInv, WaitsConnected
  <2>2. w \notin waits'
    BY <2>1, FailsCases DEF Session
  <2> QED
    BY <2>1, <2>2, FailsInv
<1>9. ASSUME Commit(w) \/ CommitFails(w) \/ CommitLost(w)
      PROVE  WorkerInv(w)'
  <2>1. unit'[w] = NoUnit \/ pos'[w] = 1
    BY <1>9 DEF Commit, CommitFails, CommitLost, RetryTransaction, Leave, TypeOK
  <2>2. /\ session'[w] = "open" /\ pending'[w] = {} /\ w \notin waits' /\ cached'[w] = cached[w]
    BY <1>9 DEF Commit, CommitFails, CommitLost, Session, TypeOK
  <2>3. pending[w] \subseteq db' \cup undone'
    BY <1>9 DEF Commit, CommitFails, CommitLost, RollsBack, TypeOK
  <2>4. Ends(w)
    BY <2>1, <2>2, <2>3 DEF Ends
  <2> QED
    BY <2>4, EndsInv
<1>10. ASSUME Refused(w)
       PROVE  WorkerInv(w)'
  <2>1. AtStep(w) /\ UNCHANGED <<db, cached>> /\ session[w] # "gone"
    BY <1>10 DEF Refused, Sends
  <2>2. CASE /\ Step(w).do = "keep" /\ Sees(w, Step(w).row)
             /\ Advance(w, 1 + Step(w).skip) /\ Session(w, session[w], pending[w])
    <3>1. w \notin waits' /\ session'[w] = session[w] /\ pending'[w] = pending[w]
      BY <2>2 DEF Session, TypeOK
    <3> QED
      BY <2>1, <2>2, <3>1, KeepsInv DEF Sees
  <2>3. ASSUME NEW r \in BOOLEAN, Fails(w, r, session[w], pending[w]),
               IF pending'[w] # pending[w] THEN RollsBack(w) ELSE UNCHANGED undone
        PROVE  WorkerInv(w)'
    <3>1. w \notin waits'
      BY <2>3, FailsCases DEF Session
    <3>2. pending[w] \subseteq pending'[w] \cup undone'
      BY <2>3 DEF RollsBack
    <3> QED
      BY <2>1, <2>3, <3>1, <3>2, FailsInv
  <2> QED
    BY <1>10, <2>2, <2>3 DEF Refused
<1>11. ASSUME Cut(w)
       PROVE  WorkerInv(w)'
  <2>1. /\ Session(w, "gone", {}) /\ unit[w] # NoUnit /\ undone' = undone \cup pending[w]
        /\ UNCHANGED <<progress, db, cached, reported, killed>>
    BY <1>11 DEF Cut, RollsBack
  <2>2. session'[w] = "gone" /\ pending'[w] = {} /\ w \notin waits'
    BY <2>1 DEF Session, TypeOK
  <2>3. StepsKept(w)' /\ HeadKept(w)' /\ Autocommits(w)' /\ WaitsConnected(w)'
    BY <2>2 DEF StepsKept, HeadKept, Autocommits, WaitsConnected
  <2>4. CachesKept(w)' /\ PendingOwn(w)' /\ PendingNeeds(w)'
    BY <2>1, <2>2 DEF WorkerInv, CachesKept, PendingOwn, PendingNeeds
  <2> QED
    BY <2>3, <2>4 DEF WorkerInv
<1>12. ASSUME LockTimeout(w)
       PROVE  WorkerInv(w)'
  <2>1. /\ w \in waits /\ AtStep(w) /\ cached' = cached /\ Fails(w, TRUE, session[w], pending[w])
        /\ pending[w] \subseteq pending'[w] \cup undone'
    BY <1>12 DEF LockTimeout, RollsBack, TypeOK, Sends
  <2>2. session[w] # "gone"
    BY <2>1 DEF WorkerInv, WaitsConnected
  <2>3. w \notin waits'
    BY <2>1, FailsCases DEF Session
  <2> QED
    BY <2>1, <2>2, <2>3, FailsInv
<1>13. ASSUME PoolCloses(w)
       PROVE  WorkerInv(w)'
  <2>1. UNCHANGED <<progress, server, cached, history>>
    BY <1>13 DEF PoolCloses
  <2>2. StepsKept(w)' /\ HeadKept(w)' /\ CachesKept(w)'
    BY <2>1 DEF WorkerInv, StepsKept, HeadKept, CachesKept, Kept, progress, server, history
  <2>3. Autocommits(w)' /\ WaitsConnected(w)'
    BY <2>1 DEF WorkerInv, Autocommits, WaitsConnected, progress, server, history
  <2>4. PendingOwn(w)' /\ PendingNeeds(w)'
    BY <2>1, PendingKept DEF WorkerInv, progress, server
  <2> QED
    BY <2>2, <2>3, <2>4 DEF WorkerInv
<1>14. ASSUME OutsideFails(w)
       PROVE  WorkerInv(w)'
  <2>1. AtStep(w) /\ Fails(w, FALSE, session[w], pending[w]) /\ cached' = cached
    BY <1>14 DEF OutsideFails, AsksOutside
  <2>2. w \notin waits'
    BY <2>1, FailsCases DEF Session
  <2>3. pending[w] \subseteq pending'[w] \cup undone'
    <3>1. CASE Step(w).aborts
      BY <1>14, <3>1 DEF OutsideFails, RollsBack
    <3>2. CASE ~Step(w).aborts
      <4>1. Session(w, session[w], pending[w])
        BY <2>1, <3>2, FailsCases
      <4>2. pending'[w] = pending[w]
        BY <4>1 DEF Session, TypeOK
      <4> QED
        BY <4>2
    <3> QED
      BY <3>1, <3>2
  <2> QED
    BY <2>1, <2>2, <2>3, FailsInv
<1> QED
  BY <1>1, <1>2, <1>3, <1>4, <1>5, <1>6, <1>7, <1>8, <1>9, <1>10, <1>11, <1>12, <1>13, <1>14
     DEF Act, Proceed

-----------------------------------------------------------------------------
(* What a step does to the database                                        *)

RowsInv == MissingIsReported /\ OrphansOnlyAfterDeadlock /\ ParentsLostOnlyByRollback

\* A unit's steps are behind it when its transaction is committed.
LEMMA EndFacts ==
    ASSUME TypeOK, NEW w \in Workers, AtEnd(w), session[w] # "gone", WorkerInv(w)
    PROVE  /\ unit[w] \in Units
           /\ \A i \in 1 .. Length(unit[w]) : Kept(w, unit[w], i)
           /\ session[w] = "open" => HeadRow(unit[w]) \in db \cup pending[w]
<1> DEFINE u == unit[w]
<1>1. u \in Units /\ u # NoUnit /\ Length(u) \in Nat /\ pos[w] \in Nat /\ pos[w] > Length(u)
  BY StoreFacts DEF AtEnd, HasStep, TypeOK
<1>2. \A i \in 1 .. Length(u) : i \in 1 .. pos[w] - 1
  BY <1>1
<1>3. HeadAt(u) \in 1 .. Length(u)
  BY <1>1, HeadFacts
<1>4. pos[w] > HeadAt(u)
  BY <1>1, <1>3
<1> QED
  BY <1>1, <1>2, <1>4 DEF WorkerInv, StepsKept, HeadKept

\* Own rows of a unit that come into the database come from its own transaction,
\* at the commit, or one at a time after a deadlock.
LEMMA NewRows ==
    ASSUME TypeOK, NEW w \in Workers, Act(w), WorkerInv(w), Grows,
           NEW u \in Units, NEW i \in 1 .. Length(u), Steps[u][i].own,
           Steps[u][i].row \in db', Steps[u][i].row \notin db
    PROVE  /\ u = unit[w]
           /\ \/ u \in killed'
              \/ /\ AtEnd(w) /\ session[w] = "open" /\ db' = db \cup pending[w]
                 /\ reported' = reported /\ killed' = killed
           /\ \E needs \in NeedsOf(u, Steps[u][i].row) : \A p \in needs :
                p \in db' \cup undone' \/ <<u, p>> \in reported'
<1>1. db' # db
  OBVIOUS
<1>2. CASE StoreRow(w)
  <2>1. /\ AtStep(w) /\ session[w] = "autocommit" /\ db' = db \cup {Step(w).row}
        /\ pending[w] = {}
    BY <1>1, <1>2 DEF StoreRow, Answered, Sends, TypeOK
  <2>2. unit[w] \in Units /\ pos[w] \in 1 .. Length(unit[w])
    BY <2>1, StepFacts, TypeParts
  <2>3. Steps[u][i].row = Steps[unit[w]][pos[w]].row
    BY <2>1 DEF Step
  <2>4. u = unit[w]
    BY <2>2, <2>3, UnitFacts
  <2>5. u \in killed'
    BY <2>1, <2>4 DEF WorkerInv, Autocommits, Grows
  <2>6. Steps[u][pos[w]].needs \in NeedsOf(u, Steps[u][i].row)
    BY <2>2, <2>3, <2>4 DEF NeedsOf
  <2>7. ASSUME NEW p \in Steps[u][pos[w]].needs
        PROVE  p \in db' \cup undone' \/ <<u, p>> \in reported'
    <3>1. PICK j \in 1 .. pos[w] - 1 : Steps[u][j].row = p /\ ~Steps[u][j].own
      BY <2>2, <2>4, UnitFacts
    <3>2. u # NoUnit
      BY StoreFacts
    <3>3. Kept(w, u, j)
      BY <2>1, <2>4, <3>1, <3>2 DEF WorkerInv, StepsKept
    <3>4. \A h \in 1 .. j - 1 : Steps[u][h].do # "keep"
      BY <2>2, <2>3, <2>4, <3>1, BeforeOwn
    <3> QED
      BY <2>1, <3>1, <3>3, <3>4 DEF Kept, Grows
  <2> QED
    BY <2>4, <2>5, <2>6, <2>7
<1>3. CASE Commit(w) \/ CommitLost(w)
  <2>1. /\ AtEnd(w) /\ session[w] # "gone" /\ db' = db \cup pending[w]
        /\ reported' = reported /\ killed' = killed
    BY <1>1, <1>3 DEF Commit, CommitLost
  <2>2. Steps[u][i].row \in pending[w]
    BY <2>1
  <2>3. session[w] = "open"
    BY <2>2 DEF TypeOK
  <2>4. u = unit[w]
    BY <2>2 DEF WorkerInv, PendingOwn
  <2>5. Steps[u][i].row \in OwnRows(u)
    BY DEF OwnRows
  <2>6. NeedsMet(u, Steps[u][i].row, db \cup pending[w] \cup undone)
    BY <2>2, <2>5 DEF WorkerInv, PendingNeeds
  <2>7. \E needs \in NeedsOf(u, Steps[u][i].row) : \A p \in needs :
            p \in db' \cup undone' \/ <<u, p>> \in reported'
    BY <2>1, <2>6 DEF NeedsMet, Grows
  <2> QED
    BY <2>1, <2>3, <2>4, <2>7
<1> QED
  BY <1>1, <1>2, <1>3 DEF Act, Proceed, Begin, NewProcessor, CacheHit, WaitForLock, FindRow,
     MeetDuplicate, LockTimeout, OnDeadConnection, Deadlock, CommitFails, Refused, Cut,
     OutsideFails, PoolCloses, server

LEMMA ActRowsInv ==
    ASSUME TypeOK, NEW w \in Workers, Act(w), WorkerInv(w), Grows, RowsInv
    PROVE  RowsInv'
<1>1. MissingIsReported'
  <2> SUFFICES ASSUME NEW u \in stored' \ killed', NEW r \in OwnRows(u)
               PROVE  r \in db' \/ <<u, r>> \in reported'
    BY DEF MissingIsReported, OwnRows, Length
  <2>1. CASE u \in stored
    BY <2>1 DEF RowsInv, MissingIsReported, Grows
  <2>2. CASE u \notin stored
    <3>1. Commit(w)
      BY <2>2 DEF Act, Proceed, Begin, NewProcessor, CacheHit, WaitForLock, StoreRow, FindRow,
         MeetDuplicate, LockTimeout, OnDeadConnection, Deadlock, CommitFails, Refused, Cut,
         CommitLost, OutsideFails, PoolCloses, history
    <3>2. u = unit[w] /\ AtEnd(w) /\ session[w] # "gone" /\ db' = db \cup pending[w]
      BY <2>2, <3>1 DEF Commit
    <3>3. PICK i \in 1 .. Length(u) : Steps[u][i].own /\ Steps[u][i].row = r
      BY DEF OwnRows
    <3>4. Kept(w, u, i) /\ \A h \in 1 .. i - 1 : Steps[u][h].do # "keep"
      BY <3>2, <3>3, EndFacts, BeforeOwn, StoreFacts
    <3> QED
      BY <3>2, <3>3, <3>4 DEF Kept, Grows
  <2> QED
    BY <2>1, <2>2
<1>2. OrphansOnlyAfterDeadlock'
  <2> SUFFICES ASSUME NEW u \in Units, u \notin killed', NEW r \in OwnRows(u), r \in db'
               PROVE  HeadRow(u) \in db'
    BY DEF OrphansOnlyAfterDeadlock, OwnRows, HeadRow, HeadAt, Length
  <2>1. CASE r \in db
    BY <2>1 DEF RowsInv, OrphansOnlyAfterDeadlock, Grows
  <2>2. CASE r \notin db
    <3>1. PICK i \in 1 .. Length(u) : Steps[u][i].own /\ Steps[u][i].row = r
      BY DEF OwnRows
    <3>2. u = unit[w] /\ AtEnd(w) /\ session[w] = "open" /\ db' = db \cup pending[w]
      BY <2>2, <3>1, NewRows
    <3> QED
      BY <3>2, EndFacts
  <2> QED
    BY <2>1, <2>2
<1>3. ParentsLostOnlyByRollback'
  <2> SUFFICES ASSUME NEW u \in Units, NEW r \in OwnRows(u), r \in db'
               PROVE  \E needs \in NeedsOf(u, r) : \A p \in needs :
                        p \in db' \cup undone' \/ <<u, p>> \in reported'
    BY DEF ParentsLostOnlyByRollback, NeedsOf, OwnRows, Length
  <2>1. CASE r \in db
    BY <2>1 DEF RowsInv, ParentsLostOnlyByRollback, Grows
  <2>2. CASE r \notin db
    <3>1. PICK i \in 1 .. Length(u) : Steps[u][i].own /\ Steps[u][i].row = r
      BY DEF OwnRows
    <3> QED
      BY <2>2, <3>1, NewRows
  <2> QED
    BY <2>1, <2>2
<1> QED
  BY <1>1, <1>2, <1>3 DEF RowsInv

-----------------------------------------------------------------------------
(* The theorems                                                            *)

LEMMA InitStoreInv == Init => StoreInv
<1> SUFFICES ASSUME Init PROVE StoreInv
  OBVIOUS
<1>1. TypeOK
  BY InitTyped
<1>2. MissingIsReported /\ OrphansOnlyAfterDeadlock /\ ParentsLostOnlyByRollback
  BY DEF Init, MissingIsReported, OrphansOnlyAfterDeadlock, ParentsLostOnlyByRollback
<1>3. ASSUME NEW w \in Workers
      PROVE  WorkerInv(w)
  <2>1. StepsKept(w) /\ HeadKept(w) /\ CachesKept(w) /\ Autocommits(w)
    BY DEF Init, StepsKept, HeadKept, CachesKept, Autocommits
  <2>2. PendingOwn(w) /\ PendingNeeds(w) /\ WaitsConnected(w)
    BY DEF Init, PendingOwn, PendingNeeds, WaitsConnected
  <2> QED
    BY <2>1, <2>2 DEF WorkerInv
<1> QED
  BY <1>1, <1>2, <1>3 DEF StoreInv

LEMMA ActStoreInv ==
    ASSUME StoreInv, NEW w \in Workers, Act(w)
    PROVE  StoreInv'
<1>1. TypeOK' /\ Others(w) /\ Grows
  BY ActTyped DEF StoreInv
<1>2. RowsInv'
  BY <1>1, ActRowsInv DEF StoreInv, RowsInv
<1>3. WorkerInv(w)'
  BY <1>1, ActWorkerInv DEF StoreInv
<1>4. \A v \in Workers \ {w} : WorkerInv(v)'
  BY <1>1, OthersInv DEF StoreInv
<1> QED
  BY <1>1, <1>2, <1>3, <1>4 DEF StoreInv, RowsInv

LEMMA SameStoreInv == StoreInv /\ UNCHANGED vars => StoreInv'
<1> SUFFICES ASSUME StoreInv, UNCHANGED vars PROVE StoreInv'
  OBVIOUS
<1> USE DEF vars, progress, server, bounds, history
<1>1. TypeOK'
  BY SameTyped DEF StoreInv
<1>2. RowsInv'
  BY DEF StoreInv, RowsInv, MissingIsReported, OrphansOnlyAfterDeadlock, ParentsLostOnlyByRollback,
         OwnRows, HeadRow, HeadAt
<1>3. ASSUME NEW w \in Workers
      PROVE  WorkerInv(w)'
  <2>1. StepsKept(w)' /\ HeadKept(w)' /\ CachesKept(w)' /\ Autocommits(w)' /\ WaitsConnected(w)'
    BY DEF StoreInv, WorkerInv, StepsKept, HeadKept, CachesKept, Autocommits, WaitsConnected, Kept
  <2>2. PendingOwn(w)' /\ PendingNeeds(w)'
    BY PendingKept DEF StoreInv, WorkerInv, Grows
  <2> QED
    BY <2>1, <2>2 DEF WorkerInv
<1> QED
  BY <1>1, <1>2, <1>3 DEF StoreInv, RowsInv

LEMMA NextStoreInv == StoreInv /\ [Next]_vars => StoreInv'
  BY ActStoreInv, SameStoreInv DEF Next, Act

\* The inductive invariant holds: what the steps taken left, what caches hold and what
\* transactions are about to commit.
THEOREM StoreInvariant == Spec => []StoreInv
  BY InitStoreInv, NextStoreInv, PTL DEF Spec

\* A unit that was stored lacks none of its rows without a report, but for a deadlock.
THEOREM StoredIsCompleteOrReported == Spec => []MissingIsReported
<1>1. StoreInv => MissingIsReported
  BY DEF StoreInv
<1> QED
  BY StoreInvariant, <1>1, PTL

\* Parts of a unit are in the database only with its head, but for a deadlock.
THEOREM PartsHaveHead == Spec => []OrphansOnlyAfterDeadlock
<1>1. StoreInv => OrphansOnlyAfterDeadlock
  BY DEF StoreInv
<1> QED
  BY StoreInvariant, <1>1, PTL

\* A stored row lacks none of the rows it refers to but those a rollback took from a
\* cache's back, and those an error was reported for.
THEOREM ParentsAreStored == Spec => []ParentsLostOnlyByRollback
<1>1. StoreInv => ParentsLostOnlyByRollback
  BY DEF StoreInv
<1> QED
  BY StoreInvariant, <1>1, PTL

\* A unit becomes visible to others at once, but for reported parts and deadlocks.
THEOREM UnitsVisibleAtOnce == Spec => VisibleAtOnce
<1> DEFINE AtOnce == \A u \in Units \ killed' :
                        OwnRows(u) \cap db' # OwnRows(u) \cap db =>
                            \A r \in OwnRows(u) : r \in db' \/ <<u, r>> \in reported
<1>1. ASSUME StoreInv, NEW w \in Workers, Act(w)
      PROVE  AtOnce
  <2> SUFFICES ASSUME NEW u \in Units, u \notin killed',
                      OwnRows(u) \cap db' # OwnRows(u) \cap db, NEW r \in OwnRows(u)
               PROVE  r \in db' \/ <<u, r>> \in reported
    OBVIOUS
  <2>1. TypeOK /\ WorkerInv(w) /\ Grows
    BY <1>1, ActTyped DEF StoreInv
  <2>2. PICK q \in OwnRows(u) : q \in db' /\ q \notin db
    BY <2>1 DEF Grows
  <2>3. PICK i \in 1 .. Length(u) : Steps[u][i].own /\ Steps[u][i].row = q
    BY DEF OwnRows
  <2>4. /\ u = unit[w] /\ AtEnd(w) /\ session[w] = "open" /\ db' = db \cup pending[w]
        /\ reported' = reported
    BY <1>1, <2>1, <2>2, <2>3, NewRows
  <2>5. PICK j \in 1 .. Length(u) : Steps[u][j].own /\ Steps[u][j].row = r
    BY DEF OwnRows
  <2>6. Kept(w, u, j) /\ \A h \in 1 .. j - 1 : Steps[u][h].do # "keep"
    <3>1. Kept(w, u, j)
      BY <2>1, <2>4, <2>5, EndFacts
    <3>2. j \in 1 .. j
      OBVIOUS
    <3>3. \A h \in 1 .. j - 1 : Steps[u][h].do # "keep"
      BY <2>5, <3>2, BeforeOwn
    <3> QED
      BY <3>1, <3>3
  <2> QED
    BY <2>1, <2>4, <2>5, <2>6 DEF Kept, Grows
<1>2. StoreInv /\ [Next]_vars => [AtOnce]_vars
  <2> HIDE DEF AtOnce
  <2>1. Next => \E w \in Workers : Act(w)
    BY DEF Next, Act
  <2> QED
    BY <1>1, <2>1
<1> QED
  BY StoreInvariant, <1>2, PTL DEF Spec, VisibleAtOnce

-----------------------------------------------------------------------------
(* Units are stored whole                                                  *)

\* A worker's step is one of UnitStore, or nothing that UnitStore sees.
LEMMA StepIsWhole ==
    ASSUME StoreInv, NEW w \in Workers, Act(w)
    PROVE  [Whole!Next]_(Whole!vars)
<1> DEFINE Heads == {u \in Units : HeadRow(u) \in db}
<1>1. TypeOK /\ WorkerInv(w) /\ Grows
  BY ActTyped DEF StoreInv
<1>2. Heads' = {u \in Units : HeadRow(u) \in db'}
  BY DEF HeadRow, HeadAt, Length
<1>3. CASE db' = db /\ stored' = stored /\ killed' = killed
  BY <1>2, <1>3 DEF Whole!vars
<1>4. CASE Deadlock(w)
  <2>1. unit[w] \in Units
    BY <1>1, <1>4 DEF Deadlock, TypeOK, Sends, AtStep
  <2>2. db' = db /\ stored' = stored /\ killed' \in {killed, killed \cup {unit[w]}}
    BY <1>4 DEF Deadlock, bounds
  <2>3. Heads' = Heads
    BY <1>2, <2>2
  <2> QED
    BY <1>3, <2>1, <2>2, <2>3 DEF Whole!Next, Whole!Tear
<1>5. ASSUME NEW u \in Units, u \in Heads', u \notin Heads
      PROVE  u = unit[w]
  <2>1. HeadAt(u) \in 1 .. Length(u) /\ Steps[u][HeadAt(u)].own
    BY HeadFacts
  <2>2. Steps[u][HeadAt(u)].row \in db' /\ Steps[u][HeadAt(u)].row \notin db
    BY <1>2, <1>5 DEF HeadRow
  <2> QED
    BY <1>1, <2>1, <2>2, NewRows
<1>6. Heads \subseteq Heads'
  BY <1>1, <1>2 DEF Grows
<1>7. CASE StoreRow(w) \/ CommitLost(w)
  <2>1. stored' = stored /\ killed' = killed
    BY <1>7 DEF StoreRow, CommitLost, history
  <2>2. CASE Heads' = Heads
    BY <2>1, <2>2 DEF Whole!vars
  <2>3. CASE Heads' # Heads
    <3>1. unit[w] \in Units /\ Heads' = Heads \cup {unit[w]}
      BY <1>5, <1>6, <2>3
    <3> QED
      BY <2>1, <3>1 DEF Whole!Next, Whole!Insert
  <2> QED
    BY <2>2, <2>3
<1>8. CASE Commit(w)
  <2>1. /\ AtEnd(w) /\ session[w] # "gone" /\ db' = db \cup pending[w]
        /\ stored' = stored \cup {unit[w]} /\ killed' = killed
    BY <1>8 DEF Commit
  <2>2. unit[w] \in Units /\ (session[w] = "open" => HeadRow(unit[w]) \in db')
    BY <1>1, <2>1, EndFacts
  <2>3. CASE session[w] = "open"
    <3>1. Heads' = Heads \cup {unit[w]}
      BY <1>2, <1>5, <1>6, <2>2, <2>3
    <3> QED
      BY <2>1, <2>2, <3>1 DEF Whole!Next, Whole!Insert
  <2>4. CASE session[w] = "autocommit"
    <3>1. unit[w] \in killed /\ pending[w] = {}
      BY <1>1, <2>1, <2>4 DEF WorkerInv, Autocommits, TypeOK
    <3>2. Heads' = Heads
      BY <1>2, <2>1, <3>1
    <3> QED
      BY <2>1, <2>2, <3>1, <3>2 DEF Whole!Next, Whole!Tell
  <2>5. session[w] = "open" \/ session[w] = "autocommit"
    BY <1>1, <2>1 DEF TypeOK
  <2> QED
    BY <2>3, <2>4, <2>5
<1> QED
  BY <1>3, <1>4, <1>7, <1>8 DEF Act, Proceed, Begin, NewProcessor, CacheHit, WaitForLock, FindRow,
     MeetDuplicate, LockTimeout, OnDeadConnection, CommitFails, Refused, Cut, OutsideFails,
     PoolCloses, server, history

\* A unit, with all its statements, its repetitions, lost commits and deadlocks, is one step
\* of UnitStore: what BlockIndexer takes it for.
THEOREM UnitsAreWhole == Spec => ImplementsUnits
<1>1. Init => Whole!Init
  BY DEF Init, Whole!Init
<1>2. StoreInv /\ [Next]_vars => [Whole!Next]_(Whole!vars)
  <2>1. Next => \E w \in Workers : Act(w)
    BY DEF Next, Act
  <2>2. UNCHANGED vars => UNCHANGED Whole!vars
    BY DEF vars, server, history, Whole!vars, HeadRow, HeadAt, Length
  <2> QED
    BY <2>1, <2>2, StepIsWhole
<1> QED
  BY StoreInvariant, <1>1, <1>2, PTL DEF Spec, ImplementsUnits, Whole!Spec

\* A unit that counts as stored has its row, but for one a deadlock has torn.
THEOREM UnitsToldAreStored == Spec => []Whole!ToldIsStored
<1>1. Whole!Init => Whole!ToldIsStored
  BY DEF Whole!Init, Whole!ToldIsStored
<1>2. Whole!ToldIsStored /\ [Whole!Next]_(Whole!vars) => Whole!ToldIsStored'
  BY DEF Whole!ToldIsStored, Whole!Next, Whole!vars, Whole!Insert, Whole!Tell, Whole!Tear
<1> QED
  BY UnitsAreWhole, <1>1, <1>2, PTL DEF ImplementsUnits, Whole!Spec

-----------------------------------------------------------------------------
(* Progress                                                                *)

\* An attempt that fails has a later one, unless the unit is given up.
LEMMA RetryFurther ==
    ASSUME ProgressTyped, NEW w \in Workers, unit[w] # NoUnit, unit'[w] = unit[w],
           NEW r \in BOOLEAN, RetryTransaction(w, r)
    PROVE  Further(w)
<1>1. ~Leave(w)
  BY DEF Leave, ProgressTyped
<1>2. retry' = [retry EXCEPT ![w] = @ + 1] /\ retry[w] \in Nat
  BY <1>1, StoreFacts DEF RetryTransaction, ProgressTyped
<1>3. retry'[w] > retry[w]
  BY <1>2 DEF ProgressTyped
<1> QED
  BY <1>3 DEF Further

LEMMA AdvanceFurther ==
    ASSUME ProgressTyped, NEW w \in Workers, NEW n \in Nat \ {0}, Advance(w, n)
    PROVE  Further(w)
<1>1. pos[w] \in Nat /\ pos'[w] = pos[w] + n /\ retry'[w] = retry[w]
  BY DEF Advance, ProgressTyped
<1> QED
  BY <1>1 DEF Further

\* A step that fails is repeated, left out with what depends on it, or ends the attempt.
LEMMA FailsFurther ==
    ASSUME ProgressTyped, NEW w \in Workers, AtStep(w), unit'[w] = unit[w],
           NEW r \in BOOLEAN, NEW s, NEW rows, Fails(w, r, s, rows)
    PROVE  Further(w)
<1>1. CASE repeat' = [repeat EXCEPT ![w] = @ + 1] /\ UNCHANGED <<unit, pos, retry, reported>>
  <2>1. repeat[w] \in Nat /\ repeat'[w] = repeat[w] + 1
    BY <1>1, StoreFacts DEF ProgressTyped
  <2> QED
    BY <1>1, <2>1 DEF Further
<1>2. CASE RetryTransaction(w, r)
  BY <1>2, RetryFurther DEF AtStep
<1>3. CASE Advance(w, 1 + Step(w).skip)
  <2>1. 1 + Step(w).skip \in Nat \ {0}
    <3>1. /\ pos[w] \in 1 .. Length(unit[w]) /\ Length(unit[w]) \in Nat
          /\ Step(w).skip \in 0 .. Length(unit[w]) - pos[w]
      BY StepFacts
    <3> QED
      BY <3>1
  <2> QED
    BY <1>3, <2>1, AdvanceFurther
<1> QED
  BY <1>1, <1>2, <1>3, FailsCases

\* A worker's own step, the server answering, takes it further or ends the unit.
LEMMA ProceedFurther ==
    ASSUME TypeOK, NEW w \in Workers, unit[w] # NoUnit, unit'[w] = unit[w], Proceed(w)
    PROVE  Further(w)
<1>0. ProgressTyped /\ WaitsTyped
  BY TypeParts
<1>1. \/ CacheHit(w) \/ StoreRow(w) \/ FindRow(w) => Advance(w, 1)
  BY DEF CacheHit, StoreRow, FindRow
<1>2. CASE Advance(w, 1)
  BY <1>0, <1>2, AdvanceFurther
<1>3. CASE WaitForLock(w)
  BY <1>3 DEF WaitForLock, progress, Further
<1>4. CASE MeetDuplicate(w)
  <2>1. AtStep(w) /\ Fails(w, FALSE, session[w], pending[w])
    BY <1>4 DEF MeetDuplicate, Answered, Sends
  <2> QED
    BY <1>0, <2>1, FailsFurther
<1>5. CASE LockTimeout(w)
  <2>1. AtStep(w) /\ Fails(w, TRUE, session[w], pending[w])
    BY <1>0, <1>5 DEF LockTimeout, WaitsTyped, Sends
  <2> QED
    BY <1>0, <2>1, FailsFurther
<1>6. CASE OnDeadConnection(w)
  <2>1. AtStep(w) /\ Fails(w, TRUE, "gone", {})
    BY <1>6 DEF OnDeadConnection, Sends
  <2> QED
    BY <1>0, <2>1, FailsFurther
<1>7. CASE Deadlock(w)
  <2>1. AtStep(w) /\ Fails(w, TRUE, "autocommit", {})
    BY <1>0, <1>7 DEF Deadlock, WaitsTyped, Sends
  <2> QED
    BY <1>0, <2>1, FailsFurther
<1>8. CASE Commit(w)
  BY <1>0, <1>8 DEF Commit, Leave, ProgressTyped
<1>9. CASE CommitFails(w)
  BY <1>0, <1>9, RetryFurther DEF CommitFails
<1>10. CASE OutsideFails(w)
  <2>1. AtStep(w) /\ Fails(w, FALSE, session[w], pending[w])
    BY <1>10 DEF OutsideFails, AsksOutside
  <2> QED
    BY <1>0, <2>1, FailsFurther
<1> QED
  BY <1>1, <1>2, <1>3, <1>4, <1>5, <1>6, <1>7, <1>8, <1>9, <1>10 DEF Proceed

Stays(w) ==
    /\ unit'[w] = unit[w] /\ retry'[w] = retry[w] /\ pos'[w] = pos[w] /\ repeat'[w] = repeat[w]
    /\ w \in waits => w \in waits' \/ session'[w] = "gone"

\* A step of one worker leaves the others where they are with their units.
LEMMA RetryOthers ==
    ASSUME ProgressTyped, NEW w \in Workers, NEW r \in BOOLEAN, RetryTransaction(w, r)
    PROVE  \A v \in Workers \ {w} : retry'[v] = retry[v] /\ repeat'[v] = repeat[v]
  BY DEF RetryTransaction, Leave, ProgressTyped

LEMMA FailsOthers ==
    ASSUME ProgressTyped, NEW w \in Workers, NEW r \in BOOLEAN, NEW s, NEW rows,
           Fails(w, r, s, rows)
    PROVE  /\ \A v \in Workers \ {w} : retry'[v] = retry[v] /\ repeat'[v] = repeat[v]
           /\ waits' = waits \ {w}
<1>1. CASE repeat' = [repeat EXCEPT ![w] = @ + 1] /\ Session(w, s, rows)
           /\ UNCHANGED <<unit, pos, retry, reported>>
  BY <1>1 DEF Session, ProgressTyped
<1>2. CASE RetryTransaction(w, r) /\ Session(w, "open", {})
  BY <1>2, RetryOthers DEF Session
<1>3. CASE Advance(w, 1 + Step(w).skip) /\ Session(w, s, rows)
  BY <1>3 DEF Advance, Session, ProgressTyped
<1> QED
  BY <1>1, <1>2, <1>3, FailsCases

LEMMA OthersStay ==
    ASSUME TypeOK, NEW w \in Workers, Act(w), NEW v \in Workers, v # w
    PROVE  Stays(v)
<1>0. ProgressTyped /\ v \in Workers \ {w}
  BY TypeParts
<1>1. unit'[v] = unit[v] /\ pos'[v] = pos[v]
  BY ActTyped DEF Others
<1> SUFFICES /\ retry'[v] = retry[v] /\ repeat'[v] = repeat[v]
             /\ v \in waits => v \in waits'
  BY <1>1 DEF Stays
<1>2. CASE \E u \in Units : Begin(w, u)
  BY <1>0, <1>2 DEF Begin, server, ProgressTyped
<1>3. CASE NewProcessor(w) \/ WaitForLock(w) \/ CacheHit(w) \/ PoolCloses(w)
  BY <1>0, <1>3 DEF NewProcessor, WaitForLock, CacheHit, PoolCloses, Advance, progress, server,
     ProgressTyped
<1>4. CASE StoreRow(w) \/ FindRow(w)
  BY <1>0, <1>4 DEF StoreRow, FindRow, Advance, Session, ProgressTyped
<1>5. CASE MeetDuplicate(w) \/ LockTimeout(w) \/ OnDeadConnection(w) \/ Deadlock(w)
           \/ OutsideFails(w)
  <2>1. \E r \in BOOLEAN, s \in {session[w], "gone", "autocommit"}, rows \in {pending[w], {}} :
            Fails(w, r, s, rows)
    BY <1>5 DEF MeetDuplicate, LockTimeout, OnDeadConnection, Deadlock, OutsideFails
  <2> QED
    BY <1>0, <2>1, FailsOthers
<1>6. CASE Commit(w)
  BY <1>0, <1>6 DEF Commit, Leave, Session, ProgressTyped
<1>7. CASE CommitFails(w) \/ CommitLost(w)
  BY <1>0, <1>7, RetryOthers DEF CommitFails, CommitLost, Session
<1>8. CASE Refused(w)
  <2>1. CASE Advance(w, 1 + Step(w).skip) /\ Session(w, session[w], pending[w])
    BY <1>0, <2>1 DEF Advance, Session, ProgressTyped
  <2>2. CASE \E r \in BOOLEAN : Fails(w, r, session[w], pending[w])
    BY <1>0, <2>2, FailsOthers
  <2> QED
    BY <1>8, <2>1, <2>2 DEF Refused
<1>9. CASE Cut(w)
  BY <1>0, <1>9 DEF Cut, Session, progress
<1> QED
  BY <1>2, <1>3, <1>4, <1>5, <1>6, <1>7, <1>8, <1>9 DEF Act, Proceed

\* What its own steps and the server's make of a worker that stays with its unit.
LEMMA OwnStep ==
    ASSUME TypeOK, NEW w \in Workers, Act(w), unit[w] # NoUnit, unit'[w] = unit[w]
    PROVE  Further(w) \/ Stays(w)
<1>0. ProgressTyped /\ SessionsTyped
  BY TypeParts
<1>1. CASE Proceed(w)
  BY <1>1, ProceedFurther
<1>2. CASE (\E u \in Units : Begin(w, u)) \/ NewProcessor(w) \/ PoolCloses(w)
  BY <1>2 DEF Begin, NewProcessor, PoolCloses, progress, server, Stays
<1>3. CASE Refused(w)
  <2>1. CASE Advance(w, 1 + Step(w).skip)
    <3>1. AtStep(w)
      BY <1>3 DEF Refused, Sends
    <3>2. 1 + Step(w).skip \in Nat \ {0}
      <4>1. /\ pos[w] \in 1 .. Length(unit[w]) /\ Length(unit[w]) \in Nat
            /\ Step(w).skip \in 0 .. Length(unit[w]) - pos[w]
        BY <1>0, <3>1, StepFacts
      <4> QED
        BY <4>1
    <3> QED
      BY <1>0, <2>1, <3>2, AdvanceFurther
  <2>2. CASE \E r \in BOOLEAN : Fails(w, r, session[w], pending[w])
    <3>1. AtStep(w)
      BY <1>3 DEF Refused, Sends
    <3> QED
      BY <1>0, <2>2, <3>1, FailsFurther
  <2> QED
    BY <1>3, <2>1, <2>2 DEF Refused
<1>4. CASE Cut(w)
  <2>1. session'[w] = "gone"
    BY <1>0, <1>4 DEF Cut, Session, SessionsTyped
  <2> QED
    BY <1>4, <2>1 DEF Cut, progress, Stays
<1>5. CASE CommitLost(w)
  BY <1>0, <1>5, RetryFurther DEF CommitLost
<1> QED
  BY <1>1, <1>2, <1>3, <1>4, <1>5 DEF Act

LEMMA ActStays ==
    ASSUME TypeOK, NEW w \in Workers, Act(w), NEW v \in Workers,
           unit[v] # NoUnit, unit'[v] = unit[v], ~Further(v)
    PROVE  Stays(v) /\ ~Proceed(v)
<1>1. ~Proceed(v)
  BY ProceedFurther
<1>2. CASE v = w
  BY <1>1, <1>2, OwnStep
<1>3. CASE v # w
  BY <1>1, <1>3, OthersStay
<1> QED
  BY <1>2, <1>3

\* A worker never falls back with its unit, and each of its own steps takes it further,
\* however many workers, steps, repetitions and attempts there are: with the bounds of
\* TypeOK the safety half of every unit's end.
THEOREM UnitsNeverFallBack == Spec => NeverFallsBack
<1> DEFINE Forward ==
        \A w \in Workers : unit[w] # NoUnit /\ unit'[w] = unit[w] =>
          \/ Further(w)
          \/ /\ ~Proceed(w)
             /\ retry'[w] = retry[w] /\ pos'[w] = pos[w] /\ repeat'[w] = repeat[w]
             /\ w \in waits => w \in waits' \/ session'[w] = "gone"
<1>1. ASSUME TypeOK, NEW w \in Workers, Act(w)
      PROVE  Forward
  BY <1>1, ActStays DEF Stays
<1>2. TypeOK /\ [Next]_vars => [Forward]_vars
  <2> HIDE DEF Forward
  <2>1. Next => \E w \in Workers : Act(w)
    BY DEF Next, Act
  <2> QED
    BY <1>1, <2>1
<1> QED
  BY StoreTyped, <1>2, PTL DEF Spec, NeverFallsBack

\* Who waits for a second connection of its pool does nothing any more.
LEMMA OutsideStuck ==
    ASSUME TypeOK, NEW w \in Workers, WaitsOutside(w), Act(w)
    PROVE  Cut(w) \/ PoolCloses(w)
<1>1. AtStep(w) /\ ~Hit(w) /\ ~Sends(w) /\ ~AtEnd(w) /\ unit[w] # NoUnit /\ w \notin closed
  BY DEF WaitsOutside, AsksOutside, Sends, AtStep, AtEnd
<1>2. w \notin waits
  BY <1>1, TypeParts DEF WaitsTyped
<1> QED
  BY <1>1, <1>2 DEF Act, Proceed, Begin, NewProcessor, CacheHit, WaitForLock, StoreRow, FindRow,
                    MeetDuplicate, Answered, LockTimeout, OnDeadConnection, Deadlock, Commit,
                    CommitFails, Refused, CommitLost, OutsideFails

LEMMA OutsideStays ==
    ASSUME TypeOK, NEW w \in Workers, Act(w), NEW v \in Workers, WaitsOutside(v)
    PROVE  /\ AsksOutside(v)' /\ unit'[v] = unit[v] /\ pos'[v] = pos[v]
           /\ pending'[v] = pending[v] \/ session'[v] = "gone"
<1>1. /\ unit'[v] = unit[v] /\ pos'[v] = pos[v] /\ cached'[v] = cached[v]
      /\ pending'[v] = pending[v] \/ session'[v] = "gone"
  <2>1. CASE v = w /\ Cut(w)
    BY <2>1 DEF Cut, Session, progress, TypeOK
  <2>2. CASE v = w /\ PoolCloses(w)
    BY <2>2 DEF PoolCloses, progress, server
  <2>3. CASE v # w
    BY <2>3, ActTyped DEF Others
  <2> QED
    BY <2>1, <2>2, <2>3, OutsideStuck
<1> QED
  BY <1>1 DEF WaitsOutside, AsksOutside, AtStep, Step, Hit, HasStep

\* A worker that asks its pool for a second connection inside its transaction stays there
\* with its rows locked, whatever else happens, until somebody closes that pool.
THEOREM OutsideHasNoEnd == Spec => OutsideUntilClosed
<1> DEFINE Stuck == \A w \in Workers : WaitsOutside(w) =>
                        /\ AsksOutside(w)' /\ unit'[w] = unit[w] /\ pos'[w] = pos[w]
                        /\ pending'[w] = pending[w] \/ session'[w] = "gone"
<1>1. ASSUME TypeOK, NEW w \in Workers, Act(w)
      PROVE  Stuck
  BY <1>1, OutsideStays
<1>2. TypeOK /\ [Next]_vars => [Stuck]_vars
  <2> HIDE DEF Stuck
  <2>1. Next => \E w \in Workers : Act(w)
    BY DEF Next, Act
  <2> QED
    BY <1>1, <2>1
<1> QED
  BY StoreTyped, <1>2, PTL DEF Spec, OutsideUntilClosed

-----------------------------------------------------------------------------
(* Induction over numbers and joined sequences                             *)

\* A set of numbers that is not empty has a least one.
LEMMA Least ==
    ASSUME NEW T, T \subseteq Nat, T # {}
    PROVE  \E n \in T : \A m \in T : n <= m
<1> DEFINE Less == OpToRel(<, Nat)
<1>1. \A m, n \in Nat : m < n => <<m, n>> \in Less
  BY DEF OpToRel
<1>2. IsWellFoundedOn(Less, Nat)
  BY NatLessThanWellFounded
<1> HIDE DEF Less
<1>3. PICK n \in T : \A m \in T : ~ (<<m, n>> \in Less)
  BY <1>2, WFMin
<1>4. ASSUME NEW m \in T
      PROVE  n <= m
  <2>1. m \in Nat /\ n \in Nat
    OBVIOUS
  <2>2. ~ (m < n)
    BY <1>1, <1>3, <2>1, Zenon
  <2> QED
    BY <2>1, <2>2
<1> QED
  BY <1>4

\* What FlattenSeq computes: each sequence is joined to those before it.
LEMMA Joined ==
    ASSUME NEW seqs, Len(seqs) \in Nat, Len(seqs) # 0
    PROVE  \E f : /\ f = [i \in 1 .. Len(seqs) |-> IF i = 1 THEN seqs[i] ELSE f[i-1] \o seqs[i]]
                  /\ FlattenSeq(seqs) = f[Len(seqs)]
<1> DEFINE Of(n, f) == f = [i \in 1 .. n |-> IF i = 1 THEN seqs[i] ELSE f[i-1] \o seqs[i]]
           T == {n \in Nat : ~ \E f : Of(n, f)}
<1>1. T = {}
  <2> SUFFICES ASSUME T # {} PROVE FALSE
    OBVIOUS
  <2>1. PICK n \in T : \A m \in T : n <= m
    BY Least
  <2>2. n # 0
    <3>1. Of(0, << >>)
      OBVIOUS
    <3>2. QED
      BY <2>1, <3>1
  <2>3. n - 1 \in Nat /\ ~ (n <= n - 1)
    BY <2>1, <2>2
  <2>4. n - 1 \notin T
    BY <2>1, <2>3
  <2>5. PICK f : Of(n - 1, f)
    BY <2>3, <2>4
  <2> DEFINE g == [i \in 1 .. n |-> IF i # n THEN f[i]
                                   ELSE IF n = 1 THEN seqs[n] ELSE f[n-1] \o seqs[n]]
  <2>6. Of(n, g)
    <3>1. ASSUME NEW i \in 1 .. n PROVE g[i] = IF i = 1 THEN seqs[i] ELSE g[i-1] \o seqs[i]
      <4>1. CASE i = n
        <5>1. i # 1 => i - 1 \in 1 .. n /\ g[i-1] = f[i-1]
          BY <2>1, <3>1, <4>1
        <5> QED
          BY <4>1, <3>1, <5>1, <2>1
      <4>2. CASE i # n
        <5>0. i \in 1 .. n-1
          BY <3>1, <4>2, <2>1
        <5>1. f[i] = IF i = 1 THEN seqs[i] ELSE f[i-1] \o seqs[i]
          BY <2>5, <5>0, Zenon
        <5>2. i # 1 => i - 1 \in 1 .. n /\ g[i-1] = f[i-1]
          BY <5>0, <2>1
        <5>3. g[i] = f[i]
          BY <4>2
        <5> QED
          BY <5>1, <5>2, <5>3
      <4> QED
        BY <4>1, <4>2
    <3> QED
      BY <3>1, Zenon
  <2> QED
    BY <2>1, <2>6
<1>2. \E f : Of(Len(seqs), f)
  BY <1>1
<1>3. QED
  BY <1>2, Zenon DEF FlattenSeq

\* Induction, for the members of a set.
LEMMA Upwards ==
    ASSUME NEW n \in Nat, NEW S, 1 \in S, \A i \in 1 .. n - 1 : i \in S => i + 1 \in S
    PROVE  \A i \in 1 .. n : i \in S
<1> DEFINE T == {i \in 1 .. n : i \notin S}
<1> SUFFICES ASSUME T # {} PROVE FALSE
  OBVIOUS
<1>1. T \subseteq Nat
  OBVIOUS
<1>2. PICK i \in T : \A j \in T : i <= j
  BY <1>1, Least
<1>3. i # 1 /\ i \in 1 .. n
  BY <1>2
<1>4. i - 1 \in 1 .. n - 1 /\ ~(i <= i - 1)
  BY <1>3
<1>5. i - 1 \in S
  BY <1>2, <1>4
<1>6. i \in S
  BY <1>4, <1>3, <1>5
<1> QED
  BY <1>2, <1>6

-----------------------------------------------------------------------------
(* Steps in order                                                          *)

\* The rows for others that the first n steps ensure
RowsShared(s, n) == {s[j].row : j \in {k \in 1 .. n : ~s[k].own}}
Shared(s) == RowsShared(s, Len(s))

\* The kinds of steps that leave nothing out without a report
Kinds == StepKinds \ {"keep"}

\* A step of u that needs no more than the rows in before
GoodStep(u, before, e) ==
    /\ e = [do |-> e.do, row |-> e.row, cache |-> e.cache, own |-> e.own, needs |-> e.needs,
            repeats |-> e.repeats, aborts |-> e.aborts, skip |-> e.skip]
    /\ e.do \in Kinds
    /\ e.own \in BOOLEAN /\ e.repeats \in BOOLEAN /\ e.aborts \in BOOLEAN
    /\ e.needs \subseteq before
    /\ e.own => e.cache = None /\ Len(e.row) = 3 /\ e.row[2] = u
    /\ ~e.own => Len(e.row) = 2

\* Steps of u that need what is in before or ensured by an earlier one, and leave out
\* no more than n steps have
GoodUpTo(u, before, s, n) ==
    /\ \E X : s \in Seq(X)
    /\ \A i \in 1 .. Len(s) :
        /\ GoodStep(u, before \cup RowsShared(s, i - 1), s[i])
        /\ s[i].skip \in 0 .. n - i

\* Steps of u that are in order after the rows in before
Good(u, before, s) == GoodUpTo(u, before, s, Len(s))

\* A step that needs no more than b needs no more than what includes b.
LEMMA GoodStepWeaker ==
    ASSUME NEW u, NEW b, NEW c, b \subseteq c, NEW e, GoodStep(u, b, e)
    PROVE  GoodStep(u, c, e)
  BY DEF GoodStep

\* No steps are in order.
LEMMA NoneGood == ASSUME NEW u, NEW b PROVE Good(u, b, << >>)
<1>1. << >> \in Seq({})
  OBVIOUS
<1> QED
  BY <1>1 DEF Good, GoodUpTo

\* What the steps of joined sequences are, and the shared rows before each
Joint(s, t, st) ==
    /\ Len(s) \in Nat /\ Len(t) \in Nat /\ Len(st) = Len(s) + Len(t)
    /\ \A i \in 1 .. Len(s) : st[i] = s[i]
    /\ \A i \in 1 .. Len(t) : st[Len(s) + i] = t[i]
    /\ \A i \in 0 .. Len(s) : RowsShared(st, i) = RowsShared(s, i)
    /\ \A i \in 0 .. Len(t) : RowsShared(st, Len(s) + i) = Shared(s) \cup RowsShared(t, i)

\* Two sequences that are joined.
LEMMA SharedJoin ==
    ASSUME NEW X, NEW Y, NEW s \in Seq(X), NEW t \in Seq(Y)
    PROVE  s \o t \in Seq(X \cup Y) /\ Joint(s, t, s \o t)
<1>1. /\ s \in Seq(X \cup Y) /\ t \in Seq(X \cup Y) /\ s \o t \in Seq(X \cup Y)
      /\ Len(s) \in Nat /\ Len(t) \in Nat /\ Len(s \o t) = Len(s) + Len(t)
  OBVIOUS
<1>2. \A i \in 1 .. Len(s) : (s \o t)[i] = s[i]
  BY <1>1
<1>3. \A i \in 1 .. Len(t) : (s \o t)[Len(s) + i] = t[i]
  BY <1>1
<1>4. ASSUME NEW i \in 0 .. Len(s) PROVE RowsShared(s \o t, i) = RowsShared(s, i)
  BY <1>1, <1>2 DEF RowsShared
<1>5. ASSUME NEW i \in 0 .. Len(t)
      PROVE  RowsShared(s \o t, Len(s) + i) = Shared(s) \cup RowsShared(t, i)
  <2> HIDE DEF Shared
  <2> DEFINE st == s \o t
  <2>1. ASSUME NEW r \in RowsShared(st, Len(s) + i) PROVE r \in Shared(s) \cup RowsShared(t, i)
    <3>1. PICK j \in 1 .. Len(s) + i : ~st[j].own /\ r = st[j].row
      BY <2>1 DEF RowsShared
    <3>2. CASE j <= Len(s)
      BY <1>1, <1>2, <3>1, <3>2 DEF RowsShared, Shared
    <3>3. CASE j > Len(s)
      <4>1. j - Len(s) \in 1 .. i /\ j - Len(s) \in 1 .. Len(t) /\ j = Len(s) + (j - Len(s))
        BY <1>1, <3>3
      <4>2. st[j] = t[j - Len(s)]
        BY <1>3, <4>1
      <4> QED
        BY <3>1, <4>1, <4>2 DEF RowsShared
    <3> QED
      BY <1>1, <3>2, <3>3
  <2>2. ASSUME NEW r \in Shared(s) PROVE r \in RowsShared(st, Len(s) + i)
    <3>1. PICK j \in 1 .. Len(s) : ~s[j].own /\ r = s[j].row
      BY <2>2 DEF RowsShared, Shared
    <3>2. j \in 1 .. Len(s) + i /\ st[j] = s[j]
      BY <1>1, <1>2
    <3> QED
      BY <3>1, <3>2 DEF RowsShared
  <2>3. ASSUME NEW r \in RowsShared(t, i) PROVE r \in RowsShared(st, Len(s) + i)
    <3>1. PICK j \in 1 .. i : ~t[j].own /\ r = t[j].row
      BY <2>3 DEF RowsShared
    <3>2. j \in 1 .. Len(t) /\ Len(s) + j \in 1 .. Len(s) + i
      BY <1>1
    <3>3. st[Len(s) + j] = t[j]
      BY <1>3, <3>2
    <3> QED
      BY <3>1, <3>2, <3>3 DEF RowsShared
  <2> QED
    BY <2>1, <2>2, <2>3
<1> QED
  BY <1>1, <1>2, <1>3, <1>4, <1>5 DEF Joint

\* Joined steps are in order if the later ones rely on the earlier ones only, and the
\* earlier ones leave out no more than all that follow.
LEMMA JoinGood ==
    ASSUME NEW u, NEW b, NEW c, NEW s, NEW t, NEW n \in Nat,
           GoodUpTo(u, b, s, n), n <= Len(s) + Len(t), Good(u, c, t), c \subseteq b \cup Shared(s)
    PROVE  Good(u, b, s \o t) /\ Shared(s \o t) = Shared(s) \cup Shared(t)
<1>0. PICK X, Y : s \in Seq(X) /\ t \in Seq(Y)
  BY DEF Good, GoodUpTo
<1> DEFINE st == s \o t
<1>a. st \in Seq(X \cup Y) /\ Joint(s, t, st)
  BY <1>0, SharedJoin
<1>1. /\ st \in Seq(X \cup Y) /\ Len(st) = Len(s) + Len(t) /\ Len(s) \in Nat /\ Len(t) \in Nat
      /\ \A i \in 1 .. Len(s) : st[i] = s[i]
      /\ \A i \in 1 .. Len(t) : st[Len(s) + i] = t[i]
      /\ \A i \in 0 .. Len(s) : RowsShared(st, i) = RowsShared(s, i)
      /\ \A i \in 0 .. Len(t) : RowsShared(st, Len(s) + i) = Shared(s) \cup RowsShared(t, i)
  BY <1>a DEF Joint
<1> HIDE DEF st
<1>2. ASSUME NEW i \in 1 .. Len(st)
      PROVE  GoodStep(u, b \cup RowsShared(st, i - 1), st[i]) /\ st[i].skip \in 0 .. Len(st) - i
  <2>1. CASE i <= Len(s)
    <3>1. i \in 1 .. Len(s) /\ i - 1 \in 0 .. Len(s)
      BY <1>1, <2>1
    <3>2. st[i] = s[i] /\ RowsShared(st, i - 1) = RowsShared(s, i - 1)
      BY <1>1, <3>1
    <3>3. s[i].skip \in 0 .. n - i /\ GoodStep(u, b \cup RowsShared(s, i - 1), s[i])
      BY <3>1 DEF GoodUpTo
    <3>4. s[i].skip \in 0 .. Len(st) - i
      BY <1>1, <3>1, <3>3
    <3> QED
      BY <3>2, <3>3, <3>4
  <2>2. CASE i > Len(s)
    <3> DEFINE k == i - Len(s)
    <3>1. k \in 1 .. Len(t) /\ k - 1 \in 0 .. Len(t) /\ i = Len(s) + k /\ i - 1 = Len(s) + (k - 1)
          /\ Len(st) - i = Len(t) - k
      BY <1>1, <2>2
    <3> HIDE DEF k
    <3>2. st[i] = t[k] /\ RowsShared(st, i - 1) = Shared(s) \cup RowsShared(t, k - 1)
      BY <1>1, <3>1
    <3>3. t[k].skip \in 0 .. Len(t) - k /\ GoodStep(u, c \cup RowsShared(t, k - 1), t[k])
      BY <3>1 DEF Good, GoodUpTo
    <3>4. GoodStep(u, b \cup RowsShared(st, i - 1), t[k])
      <4>1. c \cup RowsShared(t, k - 1) \subseteq b \cup RowsShared(st, i - 1)
        BY <3>2
      <4> QED
        BY <3>3, <4>1, GoodStepWeaker
    <3> QED
      BY <3>1, <3>2, <3>3, <3>4
  <2> QED
    BY <1>1, <2>1, <2>2
<1>3. Shared(st) = Shared(s) \cup Shared(t)
  <2>1. Len(t) \in 0 .. Len(t) /\ Len(st) = Len(s) + Len(t)
    BY <1>1
  <2> QED
    BY <1>1, <2>1 DEF Shared
<1>4. \E Z : st \in Seq(Z)
  BY <1>1
<1>5. Good(u, b, st)
  BY <1>2, <1>4 DEF Good, GoodUpTo
<1> QED
  BY <1>3, <1>5 DEF st

\* Joined steps that do not rely on each other.
LEMMA JoinBoth ==
    ASSUME NEW u, NEW b, NEW s, NEW t, Good(u, b, s), Good(u, b, t)
    PROVE  /\ Good(u, b, s \o t)
           /\ \A r : r \in Shared(s) \/ r \in Shared(t) => r \in Shared(s \o t)
<1>1. Len(s) \in Nat /\ Len(t) \in Nat /\ Len(s) <= Len(s) + Len(t)
  BY DEF Good, GoodUpTo
<1> QED
  BY <1>1, JoinGood DEF Good

\* Joined steps, the later of which rely on the earlier ones.
LEMMA JoinAfter ==
    ASSUME NEW u, NEW b, NEW c, NEW s, NEW t, Good(u, b, s), Good(u, c, t),
           c \subseteq b \cup Shared(s)
    PROVE  Good(u, b, s \o t)
<1>1. Len(s) \in Nat /\ Len(t) \in Nat /\ Len(s) <= Len(s) + Len(t)
  BY DEF Good, GoodUpTo
<1> QED
  BY <1>1, JoinGood DEF Good

\* A step alone, which leaves out what is to come up to n.
LEMMA OneStep ==
    ASSUME NEW u, NEW b, NEW e, GoodStep(u, b, e), NEW n \in Nat, e.skip \in 0 .. n - 1
    PROVE  /\ GoodUpTo(u, b, <<e>>, n) /\ Len(<<e>>) = 1
           /\ ~e.own => e.row \in Shared(<<e>>)
<1>1. <<e>> \in Seq({e}) /\ Len(<<e>>) = 1 /\ <<e>>[1] = e
  OBVIOUS
<1> DEFINE s == <<e>>
<1> HIDE DEF s
<1>2. s \in Seq({e}) /\ Len(s) = 1 /\ s[1] = e
  BY <1>1 DEF s
<1>3. GoodStep(u, b \cup RowsShared(s, 0), e)
  BY GoodStepWeaker
<1>4. GoodUpTo(u, b, s, n)
  BY <1>2, <1>3 DEF GoodUpTo
<1>5. ~e.own => e.row \in Shared(s)
  BY <1>2 DEF Shared, RowsShared
<1> QED
  BY <1>2, <1>4, <1>5 DEF s

\* A step alone.
LEMMA OneGood ==
    ASSUME NEW u, NEW b, NEW e, GoodStep(u, b, e), e.skip = 0
    PROVE  Good(u, b, <<e>>) /\ (~e.own => e.row \in Shared(<<e>>))
<1>1. 1 \in Nat /\ e.skip \in 0 .. 1 - 1
  OBVIOUS
<1> QED
  BY <1>1, OneStep DEF Good

\* Then: the rest may rely on the row of the step that it is left out without.
LEMMA ThenGood ==
    ASSUME NEW u, NEW b, NEW c, NEW e, NEW rest, GoodStep(u, b, e), Good(u, c, rest),
           c \subseteq b \/ (~e.own /\ c \subseteq b \cup {e.row})
    PROVE  Good(u, b, Then(e, rest))
<1> DEFINE f == [e EXCEPT !.skip = Len(rest)]
<1>1. Len(rest) \in Nat
  BY DEF Good, GoodUpTo
<1>2. GoodStep(u, b, f) /\ f.skip = Len(rest) /\ f.own = e.own /\ f.row = e.row
  BY DEF GoodStep
<1> HIDE DEF f
<1>3. /\ GoodUpTo(u, b, <<f>>, 1 + Len(rest)) /\ Len(<<f>>) = 1
      /\ ~f.own => f.row \in Shared(<<f>>)
  <2>1. 1 + Len(rest) \in Nat /\ f.skip \in 0 .. (1 + Len(rest)) - 1
    BY <1>1, <1>2
  <2> QED
    BY <1>2, <2>1, OneStep
<1>4. c \subseteq b \cup Shared(<<f>>)
  BY <1>2, <1>3
<1>5. 1 + Len(rest) \in Nat /\ 1 + Len(rest) <= Len(<<f>>) + Len(rest)
  BY <1>1, <1>3
<1>6. Good(u, b, <<f>> \o rest)
  BY <1>3, <1>4, <1>5, JoinGood
<1> QED
  BY <1>6 DEF Then, f

\* Many sequences that do not rely on each other.
LEMMA FlattenGood ==
    ASSUME NEW u, NEW b, NEW n \in Nat, NEW parts, Len(parts) = n, n = 0 => parts = << >>,
           \A i \in 1 .. n : Good(u, b, parts[i])
    PROVE  /\ Good(u, b, FlattenSeq(parts))
           /\ \A i \in 1 .. n : Shared(parts[i]) \subseteq Shared(FlattenSeq(parts))
<1>3. CASE n = 0
  <2>1. FlattenSeq(parts) = << >>
    BY <1>3 DEF FlattenSeq
  <2> QED
    BY <1>3, <2>1, NoneGood
<1>4. CASE n # 0
  <2>1. PICK f : /\ f = [i \in 1 .. n |-> IF i = 1 THEN parts[i] ELSE f[i-1] \o parts[i]]
                 /\ FlattenSeq(parts) = f[n]
    BY <1>4, Joined, Zenon
  <2> DEFINE S == {k \in 1 .. n : /\ Good(u, b, f[k])
                                  /\ \A i \in 1 .. k : Shared(parts[i]) \subseteq Shared(f[k])}
  <2>2. \A i \in 1 .. n : f[i] = IF i = 1 THEN parts[i] ELSE f[i-1] \o parts[i]
    BY <2>1, Zenon
  <2>3. 1 \in S
    BY <1>4, <2>2
  <2>4. ASSUME NEW k \in 1 .. n - 1, k \in S PROVE k + 1 \in S
    <3>1. k + 1 \in 1 .. n /\ k + 1 # 1 /\ (k + 1) - 1 = k
      OBVIOUS
    <3>2. f[k + 1] = f[k] \o parts[k + 1]
      BY <2>2, <3>1
    <3>3. Good(u, b, f[k]) /\ Good(u, b, parts[k + 1])
      BY <2>4, <3>1
    <3>4. Good(u, b, f[k] \o parts[k + 1])
      BY <3>3, JoinBoth
    <3>5. \A r : r \in Shared(f[k]) \/ r \in Shared(parts[k + 1])
                => r \in Shared(f[k] \o parts[k + 1])
      BY <3>3, JoinBoth
    <3>6. \A i \in 1 .. k : Shared(parts[i]) \subseteq Shared(f[k])
      BY <2>4
    <3>7. \A i \in 1 .. k + 1 : Shared(parts[i]) \subseteq Shared(f[k + 1])
      BY <3>2, <3>5, <3>6
    <3>8. Good(u, b, f[k + 1])
      BY <3>2, <3>4
    <3> QED
      BY <3>1, <3>7, <3>8
  <2> HIDE DEF S
  <2>5. \A k \in 1 .. n : k \in S
    BY <2>3, <2>4, Upwards
  <2>6. n \in S
    BY <1>4, <2>5
  <2> QED
    BY <2>1, <2>6 DEF S
<1> QED
  BY <1>3, <1>4

\* Each: the steps of all members of a sequence.
LEMMA EachGood ==
    ASSUME NEW u, NEW b, NEW s, IsSeq(s), NEW parts, parts = [i \in DOMAIN s |-> parts[i]],
           \A i \in DOMAIN s : Good(u, b, parts[i])
    PROVE  /\ Good(u, b, FlattenSeq(parts))
           /\ \A i \in DOMAIN s : Shared(parts[i]) \subseteq Shared(FlattenSeq(parts))
<1> DEFINE n == Len(s)
<1>1. n \in Nat /\ DOMAIN s = 1 .. n
  BY DEF IsSeq
<1>2. Len(parts) = n /\ (n = 0 => parts = << >>)
  BY <1>1
<1> QED
  BY <1>1, <1>2, FlattenGood

\* A step, by its fields.
LEMMA RecordGood ==
    ASSUME NEW u, NEW b, NEW do \in Kinds, NEW row, NEW cache, NEW own \in BOOLEAN,
           NEW needs \in SUBSET b, NEW repeats \in BOOLEAN, NEW aborts \in BOOLEAN, NEW skip,
           own => cache = None /\ Len(row) = 3 /\ row[2] = u,
           ~own => Len(row) = 2
    PROVE  GoodStep(u, b, [do |-> do, row |-> row, cache |-> cache, own |-> own, needs |-> needs,
                           repeats |-> repeats, aborts |-> aborts, skip |-> skip])
  BY DEF GoodStep

\* A statement for a row that others use is in order wherever it stands.
LEMMA StatementGood ==
    ASSUME NEW u, NEW b, NEW do \in Kinds, NEW table, NEW key, NEW cache, NEW e,
           e = Statement(do, <<table, key>>, cache)
    PROVE  GoodStep(u, b, e) /\ e.row = <<table, key>> /\ ~e.own /\ e.skip = 0
<1>1. e = [do |-> do, row |-> <<table, key>>, cache |-> cache, own |-> FALSE, needs |-> {},
                  repeats |-> FALSE, aborts |-> FALSE, skip |-> 0]
  BY DEF Statement
<1>2. Len(<<table, key>>) = 2 /\ {} \in SUBSET b
  OBVIOUS
<1>3. \A own \in BOOLEAN : own = FALSE =>
        GoodStep(u, b, [do |-> do, row |-> <<table, key>>, cache |-> cache, own |-> own,
                        needs |-> {}, repeats |-> FALSE, aborts |-> FALSE, skip |-> 0])
  BY <1>2, RecordGood
<1>4. GoodStep(u, b, e)
  BY <1>1, <1>3
<1> QED
  BY <1>1, <1>4

\* A statement for a row of u's own is in order after those it needs.
LEMMA OwnGood ==
    ASSUME NEW u, NEW b, NEW do \in Kinds, NEW table, NEW i, NEW needs, needs \subseteq b, NEW e,
           e \in {Own(do, table, u, i, needs), Repeated(Own(do, table, u, i, needs)),
                  Ending(Own(do, table, u, i, needs))}
    PROVE  GoodStep(u, b, e) /\ e.own /\ e.skip = 0
<1>1. PICK repeats \in BOOLEAN, aborts \in BOOLEAN :
        e = [do |-> do, row |-> <<table, u, i>>, cache |-> None, own |-> TRUE, needs |-> needs,
             repeats |-> repeats, aborts |-> aborts, skip |-> 0]
  BY DEF Own, Statement, Repeated, Ending
<1>2. Len(<<table, u, i>>) = 3 /\ <<table, u, i>>[2] = u
  OBVIOUS
<1>3. GoodStep(u, b, e)
  BY <1>1, <1>2, RecordGood
<1> QED
  BY <1>1, <1>3


\* A step that ensures a shared row, and one for a row of u's own
Ensures(u, e, row) == GoodStep(u, {}, e) /\ ~e.own /\ e.row = row /\ e.skip = 0
Owns(u, b, e) == GoodStep(u, b, e) /\ e.own /\ e.skip = 0

\* What follows a step that ensures a row may rely on it.
LEMMA EnsuresFirst ==
    ASSUME NEW u, NEW b, NEW e, NEW row, Ensures(u, e, row)
    PROVE  /\ Good(u, b, <<e>>)
           /\ \A rest : Good(u, b \cup {row}, rest) => Good(u, b, Then(e, rest))
<1>1. GoodStep(u, b, e) /\ ~e.own /\ e.row = row /\ e.skip = 0
  BY GoodStepWeaker DEF Ensures
<1>2. Good(u, b, <<e>>)
  BY <1>1, OneGood
<1>3. ASSUME NEW rest, Good(u, b \cup {row}, rest)
      PROVE  Good(u, b, Then(e, rest))
  BY <1>1, <1>3, ThenGood
<1> QED
  BY <1>2, <1>3

\* Nothing relies on an own row.
LEMMA OwnsFirst ==
    ASSUME NEW u, NEW b, NEW e, Owns(u, b, e)
    PROVE  /\ Good(u, b, <<e>>)
           /\ \A rest : Good(u, b, rest) => Good(u, b, Then(e, rest))
<1>1. GoodStep(u, b, e) /\ e.own /\ e.skip = 0
  BY DEF Owns
<1>2. Good(u, b, <<e>>)
  BY <1>1, OneGood
<1>3. ASSUME NEW rest, Good(u, b, rest)
      PROVE  Good(u, b, Then(e, rest))
  BY <1>1, <1>3, ThenGood
<1> QED
  BY <1>2, <1>3

\* Statements ensure their rows.
LEMMA StatementEnsures ==
    ASSUME NEW u, NEW do \in Kinds, NEW table, NEW key, NEW cache
    PROVE  Ensures(u, Statement(do, <<table, key>>, cache), <<table, key>>)
<1>1. ASSUME NEW e, e = Statement(do, <<table, key>>, cache)
      PROVE  Ensures(u, e, <<table, key>>)
  BY <1>1, StatementGood DEF Ensures
<1> QED
  BY <1>1

\* Own statements, repeated or ending the transaction.
LEMMA OwnOwns ==
    ASSUME NEW u, NEW b, NEW do \in Kinds, NEW table, NEW i, NEW needs, needs \subseteq b
    PROVE  /\ Owns(u, b, Own(do, table, u, i, needs))
           /\ Owns(u, b, Repeated(Own(do, table, u, i, needs)))
           /\ Owns(u, b, Ending(Own(do, table, u, i, needs)))
  BY OwnGood DEF Owns

\* The operators for the rows that many units refer to.
LEMMA SharedRows ==
    ASSUME NEW u
    PROVE  /\ \A h : Ensures(u, GetOrCreateSlotLeader(h), Leader(h))
           /\ \A cache, a : Ensures(u, EnsureStakeAddress(cache, a), Address(a))
           /\ \A p : Ensures(u, EnsurePoolHash(p), Pool(p))
           /\ \A a : Ensures(u, GetOrCreateMultiAsset(a), Asset(a))
           /\ \A s : Ensures(u, EnsureScript(s), <<"scripts", s>>)
           /\ \A d : Ensures(u, EnsureDatum(d), <<"data", d>>)
           /\ \A a : Ensures(u, ProcessVotingAnchor(a), <<"voting_anchors", a>>)
           /\ \A h : Ensures(u, EnsureDRepHash(h), <<"d_rep_hashes", h>>)
           /\ \A h : Ensures(u, EnsureCommitteeHash(h), <<"committee_hashes", h>>)
<1>1. {"insert", "find", "reject", "outside"} \subseteq Kinds
  BY DEF Kinds, StepKinds
<1>2. /\ \A h : Ensures(u, GetOrCreateSlotLeader(h), Leader(h))
      /\ \A cache, a : Ensures(u, EnsureStakeAddress(cache, a), Address(a))
  BY <1>1, StatementEnsures DEF GetOrCreateSlotLeader, Leader, EnsureStakeAddress, Address
<1>3. /\ \A p : Ensures(u, EnsurePoolHash(p), Pool(p))
      /\ \A a : Ensures(u, GetOrCreateMultiAsset(a), Asset(a))
  BY <1>1, StatementEnsures DEF EnsurePoolHash, Pool, GetOrCreateMultiAsset, Asset
<1>4. /\ \A s : Ensures(u, EnsureScript(s), <<"scripts", s>>)
      /\ \A d : Ensures(u, EnsureDatum(d), <<"data", d>>)
      /\ \A a : Ensures(u, ProcessVotingAnchor(a), <<"voting_anchors", a>>)
  BY <1>1, StatementEnsures DEF EnsureScript, EnsureDatum, ProcessVotingAnchor
<1>5. /\ \A h : Ensures(u, EnsureDRepHash(h), <<"d_rep_hashes", h>>)
      /\ \A h : Ensures(u, EnsureCommitteeHash(h), <<"committee_hashes", h>>)
  BY <1>1, StatementEnsures DEF EnsureDRepHash, EnsureCommitteeHash
<1> QED
  BY <1>2, <1>3, <1>4, <1>5

\* The parts of a block type are parts of the transaction.
LEMMA SinceSeq ==
    ASSUME NEW era, NEW blockType, NEW s, IsSeq(s)
    PROVE  /\ IsSeq(Since(era, blockType, s))
           /\ \A i \in DOMAIN Since(era, blockType, s) :
                i \in DOMAIN s /\ Since(era, blockType, s)[i] = s[i]
  BY DEF Since, IsSeq

\* Assets of outputs, minted ones and those of a collateral return.
LEMMA AssetsGood ==
    ASSUME NEW u, NEW b, NEW o, NEW assets, IsSeq(assets)
    PROVE  /\ Good(u, b, ProcessOutputAssets(u, o, assets))
           /\ Good(u, b, ProcessMint(u, assets))
           /\ Good(u, b, ProcessCollateralOutputAssets(assets))
<1>0. "insert" \in Kinds
  BY DEF Kinds, StepKinds
<1>1. \A i, a : Good(u, b, ProcessOutputAsset(u, o, i, a))
  BY <1>0, SharedRows, EnsuresFirst, OwnOwns, OwnsFirst DEF ProcessOutputAsset
<1>2. Good(u, b, FlattenSeq([i \in DOMAIN assets |-> ProcessOutputAsset(u, o, i, assets[i])]))
  BY <1>1, EachGood
<1>3. \A a : Good(u, b, ProcessMintOperation(u, a))
  BY <1>0, SharedRows, EnsuresFirst, OwnOwns, OwnsFirst DEF ProcessMintOperation
<1>4. Good(u, b, FlattenSeq([i \in DOMAIN assets |-> ProcessMintOperation(u, assets[i])]))
  BY <1>3, EachGood
<1>5. \A a : Good(u, b, ProcessCollateralOutputAsset(a))
  BY SharedRows, EnsuresFirst DEF ProcessCollateralOutputAsset
<1>6. Good(u, b, FlattenSeq([i \in DOMAIN assets |-> ProcessCollateralOutputAsset(assets[i])]))
  BY <1>5, EachGood
<1> QED
  BY <1>2, <1>4, <1>6 DEF ProcessOutputAssets, ProcessMint, ProcessCollateralOutputAssets, Each

\* The address of an output is ensured, if it has one.
LEMMA EnsureStakeGood ==
    ASSUME NEW u, NEW b, NEW output
    PROVE  /\ Good(u, b, EnsureStakeOf(output))
           /\ output.stake # None => Address(output.stake) \in Shared(EnsureStakeOf(output))
<1> DEFINE e == EnsureStakeAddress("addresses", output.stake)
<1>1. Ensures(u, e, Address(output.stake))
  BY SharedRows
<1> HIDE DEF e
<1>2. GoodStep(u, b, e) /\ ~e.own /\ e.row = Address(output.stake) /\ e.skip = 0
  BY <1>1, GoodStepWeaker DEF Ensures
<1>3. Good(u, b, <<e>>) /\ Address(output.stake) \in Shared(<<e>>)
  BY <1>2, OneGood
<1> QED
  BY <1>3, NoneGood DEF EnsureStakeOf, If, e

\* Outputs: the batch needs the addresses that were ensured before it.
LEMMA OutputsGood ==
    ASSUME NEW u, NEW b, NEW outputs, IsSeq(outputs), \A i \in DOMAIN outputs : IsOutput(outputs[i])
    PROVE  Good(u, b, ProcessOutputs(u, outputs))
<1> DEFINE stakes == FlattenSeq([i \in DOMAIN outputs |-> EnsureStakeOf(outputs[i])])
           assets == FlattenSeq([o \in DOMAIN outputs |->
                                    ProcessOutputAssets(u, o, outputs[o].assets)])
           batch  == Repeated(Own("insert", "tx_outs", u, 0, AddressesOf(outputs)))
           c == AddressesOf(outputs)
<1>1. /\ Good(u, b, stakes)
      /\ \A i \in DOMAIN outputs : Shared(EnsureStakeOf(outputs[i])) \subseteq Shared(stakes)
  BY EnsureStakeGood, EachGood
<1>2. \A o \in DOMAIN outputs : Good(u, c, ProcessOutputAssets(u, o, outputs[o].assets))
  BY AssetsGood DEF IsOutput
<1>3. Good(u, c, assets)
  BY <1>2, EachGood
<1> HIDE DEF stakes, assets, c
<1>4. c \subseteq Shared(stakes)
  BY <1>1, EnsureStakeGood DEF AddressesOf, c
<1>5. Owns(u, c, batch)
  BY OwnOwns DEF Kinds, StepKinds, c
<1>6. Good(u, c, Then(batch, assets))
  BY <1>3, <1>5, OwnsFirst
<1>7. Good(u, c, If(outputs # << >>, Then(batch, assets)))
  BY <1>6, NoneGood DEF If
<1>8. Good(u, b, stakes \o If(outputs # << >>, Then(batch, assets)))
  BY <1>1, <1>4, <1>7, JoinAfter
<1> QED
  BY <1>8 DEF ProcessOutputs, Each, stakes, assets

\* Lists of plain values: metadata, withdrawals, datums, references to metadata.
LEMMA ValuesGood ==
    ASSUME NEW u, NEW b, NEW s, IsSeq(s)
    PROVE  /\ Good(u, b, ProcessMetadata(u, s))
           /\ Good(u, b, ProcessWithdrawals(u, s))
           /\ Good(u, b, ProcessWitnessDatums(s))
           /\ Good(u, b, ProcessPoolMetadata(s))
<1>0. {"insert", "create"} \subseteq Kinds
  BY DEF Kinds, StepKinds
<1>1. \A i : Good(u, b, <<Own("create", "tx_metadata", u, s[i], {})>>)
  BY <1>0, OwnOwns, OwnsFirst
<1>2. Good(u, b, FlattenSeq([i \in DOMAIN s |-> <<Own("create", "tx_metadata", u, s[i], {})>>]))
  BY <1>1, EachGood
<1>3. \A a : Good(u, b, ProcessWithdrawal(u, a))
  BY <1>0, SharedRows, EnsuresFirst, OwnOwns, OwnsFirst DEF ProcessWithdrawal
<1>4. \A a : Good(u, b, If(a # None, ProcessWithdrawal(u, a)))
  BY <1>3, NoneGood DEF If
<1>5. Good(u, b, FlattenSeq([i \in DOMAIN s |-> If(s[i] # None, ProcessWithdrawal(u, s[i]))]))
  BY <1>4, EachGood
<1>6. \A d : Good(u, b, <<EnsureDatum(d)>>)
  BY SharedRows, EnsuresFirst
<1>7. Good(u, b, FlattenSeq([i \in DOMAIN s |-> <<EnsureDatum(s[i])>>]))
  BY <1>6, EachGood
<1>8. \A h : Good(u, b, <<Statement("insert", <<"pool_metadata_refs", h>>, None)>>)
  BY <1>0, StatementEnsures, EnsuresFirst
<1>9. Good(u, b, FlattenSeq([i \in DOMAIN s |->
            <<Statement("insert", <<"pool_metadata_refs", s[i]>>, None)>>]))
  BY <1>8, EachGood
<1> QED
  BY <1>2, <1>5, <1>7, <1>9 DEF ProcessMetadata, ProcessWithdrawals, ProcessWitnessDatums,
     ProcessPoolMetadata, Each

\* Scripts, by language.
LEMMA ScriptsGood ==
    ASSUME NEW u, NEW b, NEW t, IsSeq(t.scripts)
    PROVE  Good(u, b, ProcessTransactionScripts(t))
<1>1. \A s : Good(u, b, ProcessScript(s))
  BY SharedRows, EnsuresFirst DEF ProcessScript
<1>2. ASSUME NEW language
      PROVE  Good(u, b, FlattenSeq([i \in DOMAIN t.scripts |->
                  If(t.scripts[i].language = language, ProcessScript(t.scripts[i]))]))
  <2>1. \A i \in DOMAIN t.scripts :
            Good(u, b, If(t.scripts[i].language = language, ProcessScript(t.scripts[i])))
    BY <1>1, NoneGood DEF If
  <2> QED
    BY <2>1, EachGood
<1>3. /\ Good(u, b, ProcessNativeScripts(t.scripts)) /\ Good(u, b, ProcessPlutusV1Scripts(t.scripts))
      /\ Good(u, b, ProcessPlutusV2Scripts(t.scripts)) /\ Good(u, b, ProcessPlutusV3Scripts(t.scripts))
  BY <1>2 DEF ProcessNativeScripts, ProcessPlutusV1Scripts, ProcessPlutusV2Scripts,
     ProcessPlutusV3Scripts, Each
<1> QED
  BY <1>3, JoinBoth DEF ProcessTransactionScripts

\* Redeemers, by tag.
LEMMA RedeemersGood ==
    ASSUME NEW u, NEW b, NEW redeemers, IsSeq(redeemers)
    PROVE  Good(u, b, ProcessRedeemers(u, redeemers))
<1> DEFINE tags == <<"spend", "mint", "cert", "reward">>
           ofTag(tag) == FlattenSeq([i \in DOMAIN redeemers |->
                            If(redeemers[i].tag = tag, ProcessRedeemer(u, redeemers[i]))])
<1>1. \A r : Good(u, b, ProcessRedeemer(u, r))
  <2> SUFFICES ASSUME NEW r PROVE Good(u, b, ProcessRedeemer(u, r))
    OBVIOUS
  <2> DEFINE data == <<"redeemer_data", r.data>>
  <2>1. "create" \in Kinds
    BY DEF Kinds, StepKinds
  <2>2. Ensures(u, Statement("create", data, None), data)
    BY <2>1, StatementEnsures
  <2>3. Owns(u, b \cup {data}, Own("create", "redeemers", u, <<r.tag, r.index>>, {data}))
    BY <2>1, OwnOwns
  <2>4. Good(u, b \cup {data}, <<Own("create", "redeemers", u, <<r.tag, r.index>>, {data})>>)
    BY <2>3, OwnsFirst
  <2> QED
    BY <2>2, <2>4, EnsuresFirst DEF ProcessRedeemer
<1>2. ASSUME NEW tag PROVE Good(u, b, ofTag(tag))
  <2>1. \A i \in DOMAIN redeemers :
            Good(u, b, If(redeemers[i].tag = tag, ProcessRedeemer(u, redeemers[i])))
    BY <1>1, NoneGood DEF If
  <2> QED
    BY <2>1, EachGood
<1>3. IsSeq(tags)
  BY DEF IsSeq
<1> HIDE DEF ofTag, tags
<1>4. Good(u, b, FlattenSeq([n \in DOMAIN tags |-> ofTag(tags[n])]))
  BY <1>2, <1>3, EachGood
<1> QED
  BY <1>4 DEF ProcessRedeemers, Each, tags, ofTag

\* Datums of outputs.
LEMMA InlineDatumsGood ==
    ASSUME NEW u, NEW b, NEW outputs, IsSeq(outputs), \A i \in DOMAIN outputs : IsOutput(outputs[i])
    PROVE  Good(u, b, ProcessInlineDatums(outputs))
<1>1. ASSUME NEW o \in DOMAIN outputs
      PROVE  Good(u, b, FlattenSeq([i \in DOMAIN outputs[o].datums |->
                                        <<EnsureDatum(outputs[o].datums[i])>>]))
  <2>1. IsSeq(outputs[o].datums)
    BY DEF IsOutput
  <2>2. \A d : Good(u, b, <<EnsureDatum(d)>>)
    BY SharedRows, EnsuresFirst
  <2> QED
    BY <2>1, <2>2, EachGood
<1>2. Good(u, b, FlattenSeq([o \in DOMAIN outputs |->
          FlattenSeq([i \in DOMAIN outputs[o].datums |-> <<EnsureDatum(outputs[o].datums[i])>>])]))
  BY <1>1, EachGood
<1> QED
  BY <1>2 DEF ProcessInlineDatums, Each

\* All that ProcessScripts does.
LEMMA ProcessScriptsGood ==
    ASSUME NEW u, NEW b, NEW blockType, NEW t, IsTransaction(t)
    PROVE  Good(u, b, ProcessScripts(u, blockType, t))
<1>1. Good(u, b, ProcessTransactionScripts(t)) /\ Good(u, b, ProcessRedeemers(u, t.redeemers))
  BY ScriptsGood, RedeemersGood DEF IsTransaction
<1>2. Good(u, b, ProcessWitnessDatums(Since(Alonzo, blockType, t.datums)))
  BY SinceSeq, ValuesGood DEF IsTransaction
<1>3. Good(u, b, ProcessInlineDatums(Since(Babbage, blockType, t.outputs)))
  BY SinceSeq, InlineDatumsGood DEF IsTransaction
<1> QED
  BY <1>1, <1>2, <1>3, JoinBoth DEF ProcessScripts

\* Inputs, collateral, references and signers.
LEMMA CollateralGood ==
    ASSUME NEW u, NEW b, NEW blockType, NEW t, IsTransaction(t)
    PROVE  /\ Good(u, b, ProcessInputs(u))
           /\ Good(u, b, ProcessCollateralInputs(u, blockType, t))
           /\ Good(u, b, ProcessCollateralReturn(u, blockType, t))
           /\ Good(u, b, ProcessReferenceInputs(u, blockType, t))
           /\ Good(u, b, ProcessRequiredSigners(u, blockType, t))
<1>0. "insert" \in Kinds
  BY DEF Kinds, StepKinds
<1>1. \A table, i : Good(u, b, <<Own("insert", table, u, i, {})>>)
                 /\ Good(u, b, <<Repeated(Own("insert", table, u, i, {}))>>)
  BY <1>0, OwnOwns, OwnsFirst
<1>2. /\ Good(u, b, ProcessInputs(u))
      /\ Good(u, b, ProcessCollateralInputs(u, blockType, t))
      /\ Good(u, b, ProcessReferenceInputs(u, blockType, t))
      /\ Good(u, b, ProcessRequiredSigners(u, blockType, t))
  BY <1>1, NoneGood DEF ProcessInputs, ProcessCollateralInputs, ProcessReferenceInputs,
     ProcessRequiredSigners, If
<1> DEFINE outputs == Since(Babbage, blockType, t.collateralReturn)
           return(o) == Own("insert", "collateral_tx_outs", u, 0, AddressesOf(<<o>>))
           rest(o) == Then(return(o), ProcessCollateralOutputAssets(o.assets))
<1>3. IsSeq(outputs) /\ \A i \in DOMAIN outputs : IsOutput(outputs[i])
  BY SinceSeq DEF IsTransaction
<1>4. ASSUME NEW o, IsOutput(o)
      PROVE  Good(u, b, EnsureStakeOf(o) \o rest(o))
  <2>1. Good(u, b, EnsureStakeOf(o))
    BY EnsureStakeGood
  <2>2. AddressesOf(<<o>>) \subseteq Shared(EnsureStakeOf(o))
    <3>1. \A i \in DOMAIN <<o>> : <<o>>[i] = o
      OBVIOUS
    <3> QED
      BY <3>1, EnsureStakeGood DEF AddressesOf
  <2>3. Owns(u, AddressesOf(<<o>>), return(o))
    BY <1>0, OwnOwns
  <2> HIDE DEF return
  <2>4. Good(u, AddressesOf(<<o>>), ProcessCollateralOutputAssets(o.assets))
    BY <1>4, AssetsGood DEF IsOutput
  <2>5. Good(u, AddressesOf(<<o>>), rest(o))
    BY <2>3, <2>4, OwnsFirst
  <2> HIDE DEF rest
  <2> QED
    BY <2>1, <2>2, <2>5, JoinAfter
<1> HIDE DEF outputs, rest
<1>5. Good(u, b, FlattenSeq([i \in DOMAIN outputs |-> EnsureStakeOf(outputs[i]) \o rest(outputs[i])]))
  BY <1>3, <1>4, EachGood
<1>6. Good(u, b, ProcessCollateralReturn(u, blockType, t))
  BY <1>5 DEF ProcessCollateralReturn, Each, outputs, rest
<1> QED
  BY <1>2, <1>6

\* A pool with its metadata, relays and owners.
LEMMA PoolRegistrationGood ==
    ASSUME NEW u, NEW b, NEW i, NEW c, IsSeq(c.metadata), IsSeq(c.relays), IsSeq(c.owners)
    PROVE  Good(u, b, ProcessPoolRegistration(u, i, c))
<1> DEFINE d == b \cup {Pool(c.pool)}
<1>0. "insert" \in Kinds
  BY DEF Kinds, StepKinds
<1>1. \A j, r : Good(u, d, If(r \in RelayTypes, <<Own("insert", "pool_relays", u, <<i, j>>, {})>>))
  BY <1>0, OwnOwns, OwnsFirst, NoneGood DEF If
<1>2. Good(u, d, ProcessPoolRelays(u, i, c.relays))
  <2>1. Good(u, d, FlattenSeq([j \in DOMAIN c.relays |->
            If(c.relays[j] \in RelayTypes, <<Own("insert", "pool_relays", u, <<i, j>>, {})>>)]))
    BY <1>1, EachGood
  <2> QED
    BY <2>1 DEF ProcessPoolRelays, Each
<1>3. \A a : Good(u, d, Then(EnsureStakeAddress("addresses", a),
                             <<Own("insert", "pool_owners", u, <<i, a>>, {Address(a)})>>))
  BY <1>0, SharedRows, EnsuresFirst, OwnOwns, OwnsFirst
<1>4. Good(u, d, ProcessPoolOwners(u, i, c.owners))
  <2>1. Good(u, d, FlattenSeq([j \in DOMAIN c.owners |->
            Then(EnsureStakeAddress("addresses", c.owners[j]),
                 <<Own("insert", "pool_owners", u, <<i, c.owners[j]>>, {Address(c.owners[j])})>>)]))
    BY <1>3, EachGood
  <2> QED
    BY <2>1 DEF ProcessPoolOwners, Each
<1>5. Good(u, d, ProcessPoolMetadata(c.metadata))
  BY ValuesGood
<1> HIDE DEF d
<1>6. Good(u, d, ProcessPoolMetadata(c.metadata) \o ProcessPoolRelays(u, i, c.relays)
                    \o ProcessPoolOwners(u, i, c.owners))
  BY <1>2, <1>4, <1>5, JoinBoth
<1>7. Owns(u, d, Own("insert", "pool_updates", u, i, {Pool(c.pool)}))
  BY <1>0, OwnOwns DEF d
<1>8. Good(u, d, Then(Own("insert", "pool_updates", u, i, {Pool(c.pool)}),
                 ProcessPoolMetadata(c.metadata) \o ProcessPoolRelays(u, i, c.relays)
                    \o ProcessPoolOwners(u, i, c.owners)))
  BY <1>6, <1>7, OwnsFirst
<1> QED
  BY <1>8, SharedRows, EnsuresFirst DEF ProcessPoolRegistration, d

\* Certificates of every kind.
LEMMA CertificateGood ==
    ASSUME NEW u, NEW b, NEW i, NEW c, IsCertificate(c)
    PROVE  Good(u, b, ProcessCertificate(u, i, c))
<1>0. "insert" \in Kinds
  BY DEF Kinds, StepKinds
<1> USE <1>0
<1>1. /\ Good(u, b, ProcessStakeRegistration(u, i, c))
      /\ Good(u, b, ProcessStakeDeregistration(u, i, c))
  BY SharedRows, EnsuresFirst, OwnOwns, OwnsFirst
     DEF ProcessStakeRegistration, ProcessStakeDeregistration
<1>2. /\ Good(u, b, ProcessConwayRegistration(u, i, c))
      /\ Good(u, b, ProcessConwayDeregistration(u, i, c))
  BY <1>1 DEF ProcessConwayRegistration, ProcessConwayDeregistration
<1>3. Good(u, b, ProcessStakeDelegation(u, i, c))
  <2> DEFINE d == (b \cup {Address(c.stake)}) \cup {Pool(c.pool)}
             own == Own("insert", "delegations", u, i, {Address(c.stake), Pool(c.pool)})
  <2>1. Good(u, d, <<own>>)
    BY OwnOwns, OwnsFirst
  <2> HIDE DEF own
  <2>2. Good(u, b \cup {Address(c.stake)}, Then(EnsurePoolHash(c.pool), <<own>>))
    BY <2>1, SharedRows, EnsuresFirst
  <2> QED
    BY <2>2, SharedRows, EnsuresFirst DEF ProcessStakeDelegation, own
<1>4. Good(u, b, ProcessPoolRetirement(u, i, c))
  BY SharedRows, EnsuresFirst, OwnOwns, OwnsFirst DEF ProcessPoolRetirement
<1>5. c.kind = "pool" => Good(u, b, ProcessPoolRegistration(u, i, c))
  BY PoolRegistrationGood DEF IsCertificate
<1>6. /\ Good(u, b, If(c.kind = "registration", ProcessStakeRegistration(u, i, c)))
      /\ Good(u, b, If(c.kind = "deregistration", ProcessStakeDeregistration(u, i, c)))
      /\ Good(u, b, If(c.kind = "delegation", ProcessStakeDelegation(u, i, c)))
      /\ Good(u, b, If(c.kind = "pool", ProcessPoolRegistration(u, i, c)))
      /\ Good(u, b, If(c.kind = "retirement", ProcessPoolRetirement(u, i, c)))
      /\ Good(u, b, If(c.kind = "conway registration", ProcessConwayRegistration(u, i, c)))
      /\ Good(u, b, If(c.kind = "conway deregistration", ProcessConwayDeregistration(u, i, c)))
  BY <1>1, <1>2, <1>3, <1>4, <1>5, NoneGood DEF If
<1> QED
  BY <1>6, JoinBoth DEF ProcessCertificate

\* All certificates.
LEMMA CertificatesGood ==
    ASSUME NEW u, NEW b, NEW certificates, IsSeq(certificates),
           \A i \in DOMAIN certificates : IsCertificate(certificates[i])
    PROVE  Good(u, b, ProcessCertificates(u, certificates))
<1>1. Good(u, b, FlattenSeq([i \in DOMAIN certificates |->
                                ProcessCertificate(u, i, certificates[i])]))
  BY CertificateGood, EachGood
<1> QED
  BY <1>1 DEF ProcessCertificates, Each

\* Anchors.
LEMMA AnchorsGood ==
    ASSUME NEW u, NEW b, NEW anchors, IsSeq(anchors)
    PROVE  Good(u, b, FlattenSeq([j \in DOMAIN anchors |-> <<ProcessVotingAnchor(anchors[j])>>]))
<1>1. \A a : Good(u, b, <<ProcessVotingAnchor(a)>>)
  BY SharedRows, EnsuresFirst
<1> QED
  BY <1>1, EachGood

\* A vote needs its voter, of whatever role.
LEMMA VoteGood ==
    ASSUME NEW u, NEW b, NEW v, IsVote(v)
    PROVE  Good(u, b, ProcessVotingProcedure(u, v))
<1> DEFINE voter == EnsureVoter(v)
           d == b \cup {voter.row}
           own == Own("create", "voting_procedures", u, getNextVotingProcedureIndex, {voter.row})
           anchors == FlattenSeq([j \in DOMAIN v.anchors |-> <<ProcessVotingAnchor(v.anchors[j])>>])
<1>1. {"create", "outside"} \subseteq Kinds
  BY DEF Kinds, StepKinds
<1>2. PICK row : Ensures(u, voter, row)
  <2>1. CASE v.role = "committee"
    BY <2>1, SharedRows DEF EnsureVoter
  <2>2. CASE v.role = "drep"
    BY <2>2, SharedRows DEF EnsureVoter
  <2>3. CASE v.role = "pool"
    BY <1>1, <2>3, StatementEnsures DEF EnsureVoter, Pool
  <2> QED
    BY <2>1, <2>2, <2>3 DEF IsVote
<1> HIDE DEF voter
<1>3. row = voter.row
  BY <1>2 DEF Ensures
<1>4. Good(u, d, <<own>>)
  BY <1>1, OwnOwns, OwnsFirst
<1>5. Good(u, d, anchors)
  BY AnchorsGood DEF IsVote
<1> HIDE DEF anchors, own
<1>6. Good(u, d, anchors \o <<own>>)
  BY <1>4, <1>5, JoinBoth
<1>7. Good(u, b, Then(voter, anchors \o <<own>>))
  BY <1>2, <1>3, <1>6, EnsuresFirst
<1> QED
  BY <1>7 DEF ProcessVotingProcedure, Each, voter, own, anchors

\* A proposal of whatever action.
LEMMA ProposalGood ==
    ASSUME NEW u, NEW b, NEW i, NEW p, IsProposal(p)
    PROVE  Good(u, b, ProcessProposalProcedure(u, i, p))
<1>0. {"create", "reject"} \subseteq Kinds
  BY DEF Kinds, StepKinds
<1>1. p.action = "ParameterChange" => Good(u, b, ProcessParameterChange(u, i, p))
  <2>1. Good(u, b, <<Statement("reject", <<"prev_gov_action_hash", <<u, i>>>>, None)>>)
    BY <1>0, StatementEnsures, EnsuresFirst
  <2>2. IsSeq(p.previous) => Good(u, b, FlattenSeq([j \in DOMAIN p.previous |->
                <<Statement("reject", <<"prev_gov_action_hash", <<u, i>>>>, None)>>]))
    BY <2>1, EachGood
  <2> QED
    BY <2>2 DEF IsProposal, ProcessParameterChange, Each
<1>2. p.action = "TreasuryWithdrawal" => Good(u, b, ProcessTreasuryWithdrawals(u, i, p))
  <2>1. \A a : Good(u, b, If(a # None, <<Own("create", "treasury_withdrawals", u, <<i, a>>, {})>>))
    BY <1>0, OwnOwns, OwnsFirst, NoneGood DEF If
  <2>2. IsSeq(p.accounts) => Good(u, b, FlattenSeq([j \in DOMAIN p.accounts |->
            If(p.accounts[j] # None,
               <<Own("create", "treasury_withdrawals", u, <<i, p.accounts[j]>>, {})>>)]))
    BY <2>1, EachGood
  <2> QED
    BY <2>2 DEF IsProposal, ProcessTreasuryWithdrawals, Each
<1>3. p.action = "UpdateCommittee" => Good(u, b, ProcessNewCommittee(u, i, p))
  <2>1. \A m : Good(u, b, Then(EnsureCommitteeHash(m),
                               <<Statement("create", <<"committee_members", m>>, None)>>))
    BY <1>0, SharedRows, StatementEnsures, EnsuresFirst
  <2>2. IsSeq(p.members) => Good(u, b, FlattenSeq([j \in DOMAIN p.members |->
            Then(EnsureCommitteeHash(p.members[j]),
                 <<Statement("create", <<"committee_members", p.members[j]>>, None)>>)]))
    BY <2>1, EachGood
  <2>3. Owns(u, b, Own("create", "committees", u, i, {}))
    BY <1>0, OwnOwns
  <2> QED
    BY <2>2, <2>3, OwnsFirst DEF IsProposal, ProcessNewCommittee, Each
<1>4. p.action = "NewConstitution" => Good(u, b, ProcessNewConstitution(u, i, p))
  <2>1. Good(u, b, <<Own("create", "constitutions", u, i, {})>>)
    BY <1>0, OwnOwns, OwnsFirst
  <2> QED
    BY <2>1, AnchorsGood, JoinBoth DEF IsProposal, ProcessNewConstitution, Each
<1> DEFINE rest == If(p.action = "ParameterChange", ProcessParameterChange(u, i, p)) \o
                   If(p.action = "TreasuryWithdrawal", ProcessTreasuryWithdrawals(u, i, p)) \o
                   If(p.action = "UpdateCommittee", ProcessNewCommittee(u, i, p)) \o
                   If(p.action = "NewConstitution", ProcessNewConstitution(u, i, p))
<1>5. Good(u, b, rest)
  <2>1. /\ Good(u, b, If(p.action = "ParameterChange", ProcessParameterChange(u, i, p)))
        /\ Good(u, b, If(p.action = "TreasuryWithdrawal", ProcessTreasuryWithdrawals(u, i, p)))
        /\ Good(u, b, If(p.action = "UpdateCommittee", ProcessNewCommittee(u, i, p)))
        /\ Good(u, b, If(p.action = "NewConstitution", ProcessNewConstitution(u, i, p)))
    BY <1>1, <1>2, <1>3, <1>4, NoneGood DEF If
  <2> QED
    BY <2>1, JoinBoth
<1> HIDE DEF rest
<1>6. Good(u, b, Then(Own("create", "gov_action_proposals", u, i, {}), rest))
  BY <1>0, <1>5, OwnOwns, OwnsFirst
<1>7. Good(u, b, <<ProcessVotingAnchor(p.anchor)>>)
  BY SharedRows, EnsuresFirst
<1> QED
  BY <1>6, <1>7, JoinBoth DEF ProcessProposalProcedure, rest

\* All votes and proposals.
LEMMA GovernanceGood ==
    ASSUME NEW u, NEW b, NEW t, IsTransaction(t)
    PROVE  Good(u, b, ProcessGovernance(u, t))
<1>1. Good(u, b, FlattenSeq([i \in DOMAIN t.votes |-> ProcessVotingProcedure(u, t.votes[i])]))
  BY VoteGood, EachGood DEF IsTransaction
<1>2. Good(u, b, FlattenSeq([i \in DOMAIN t.proposals |->
                                ProcessProposalProcedure(u, i, t.proposals[i])]))
  BY ProposalGood, EachGood DEF IsTransaction
<1> QED
  BY <1>1, <1>2, JoinBoth DEF ProcessGovernance, ProcessVotingProcedures,
     ProcessProposalProcedures, Each

-----------------------------------------------------------------------------
(* Headers and transactions                                                *)

\* One step joined to another.
LEMMA PairJoined ==
    ASSUME NEW y, NEW z
    PROVE  <<y>> \o <<z>> = <<y, z>>
<1> DEFINE j == <<y>> \o <<z>>
<1>1. <<y>> \in Seq({y, z}) /\ <<z>> \in Seq({y, z})
  OBVIOUS
<1>2. j \in Seq({y, z}) /\ Len(j) = 2 /\ j[1] = y /\ j[2] = z
  BY <1>1
<1> HIDE DEF j
<1>3. j = <<j[1], j[2]>>
  BY <1>2
<1> QED
  BY <1>2, <1>3 DEF j

\* Two steps joined to others.
LEMMA TwoFirst ==
    ASSUME NEW x, NEW y, NEW X, NEW rest \in Seq(X), NEW s, s = <<x>> \o (<<y>> \o rest)
    PROVE  /\ Len(s) = 2 + Len(rest) /\ s[1] = x /\ s[2] = y
           /\ \A i \in 3 .. 2 + Len(rest) : s[i] = rest[i - 2]
<1>1. <<x>> \in Seq({x}) /\ <<y>> \in Seq({y}) /\ Len(rest) \in Nat
  OBVIOUS
<1>2. PICK t : t = <<y>> \o rest
  OBVIOUS
<1>3. /\ t \in Seq({y} \cup X) /\ Len(t) = 1 + Len(rest) /\ t[1] = y
      /\ \A i \in 2 .. 1 + Len(rest) : t[i] = rest[i - 1]
  BY <1>1, <1>2
<1>4. s = <<x>> \o t
  BY <1>2
<1>5. /\ Len(s) = 2 + Len(rest) /\ s[1] = x
      /\ \A i \in 2 .. 2 + Len(rest) : s[i] = t[i - 1]
  BY <1>1, <1>3, <1>4
<1>6. s[2] = y
  BY <1>1, <1>3, <1>5
<1>7. ASSUME NEW i \in 3 .. 2 + Len(rest)
      PROVE  s[i] = rest[i - 2]
  <2>1. i \in 2 .. 2 + Len(rest) /\ i - 1 \in 2 .. 1 + Len(rest) /\ (i - 1) - 1 = i - 2
    BY <1>1
  <2>2. s[i] = t[i - 1]
    BY <1>5, <2>1
  <2>3. t[i - 1] = rest[(i - 1) - 1]
    BY <1>3, <2>1
  <2> QED
    BY <2>1, <2>2, <2>3
<1> QED
  BY <1>5, <1>6, <1>7

\* What comes at an epoch's boundary is shared with all.
LEMMA BoundaryGood ==
    ASSUME NEW u, NEW b, NEW blockType, NEW epoch, NEW s,
           s = If(epoch # None, ProcessEpochBoundary(blockType, epoch))
    PROVE  Good(u, b, s) /\ \A i \in 1 .. Len(s) : ~s[i].own
<1>0. {"insert", "outside"} \subseteq Kinds
  BY DEF Kinds, StepKinds
<1>1. CASE s = << >>
  BY <1>1, NoneGood
<1>2. CASE s = Then(Statement("insert", <<"epochs", epoch>>, None),
                    <<CalculateAdaPotsForEpoch(epoch), ProvideEpochParams(epoch)>>)
  <2>1. PICK x, y, z : /\ x = Statement("insert", <<"epochs", epoch>>, None)
                       /\ y = CalculateAdaPotsForEpoch(epoch) /\ z = ProvideEpochParams(epoch)
    OBVIOUS
  <2>2. /\ Ensures(u, x, <<"epochs", epoch>>) /\ Ensures(u, y, <<"ada_pots", epoch>>)
        /\ Ensures(u, z, <<"epoch_params", epoch>>)
    BY <1>0, <2>1, StatementEnsures DEF CalculateAdaPotsForEpoch, ProvideEpochParams
  <2>3. \A c : Good(u, c, <<y>>) /\ Good(u, c, <<z>>)
    BY <2>2, EnsuresFirst
  <2>4. \A c : Good(u, c, <<y>> \o <<z>>)
    BY <2>3, JoinBoth
  <2>5. <<y>> \o <<z>> = <<y, z>>
    BY PairJoined
  <2>6. Good(u, b, Then(x, <<y, z>>))
    BY <2>2, <2>4, <2>5, EnsuresFirst
  <2>7. s = Then(x, <<y, z>>)
    BY <1>2, <2>1, Zenon
  <2>8. \A i \in 1 .. Len(s) : ~s[i].own
    <3> DEFINE f == [x EXCEPT !.skip = Len(<<y, z>>)]
    <3>1. ~f.own
      BY <2>1 DEF Statement
    <3>2. ~y.own /\ ~z.own
      BY <2>2 DEF Ensures
    <3>3. s = <<f>> \o <<y, z>>
      BY <2>7 DEF Then
    <3> HIDE DEF f
    <3>4. Len(s) = 3 /\ s[1] = f /\ s[2] = y /\ s[3] = z
      BY <3>3
    <3>5. \A i \in 1 .. 3 : i = 1 \/ i = 2 \/ i = 3
      OBVIOUS
    <3> QED
      BY <3>1, <3>2, <3>4, <3>5
  <2> QED
    BY <2>6, <2>7, <2>8
<1> QED
  BY <1>1, <1>2 DEF If, ProcessEpochBoundary, Since

\* Steps like t, but that an error of the second one, the head, may leave out what follows
\* when its row is found: nothing that is its own.
KeptHead(s, t) ==
    /\ Len(s) = Len(t) /\ 2 <= Len(t)
    /\ \A i \in 1 .. Len(t) : i # 2 => s[i] = t[i]
    /\ s[2] = [do |-> "keep", row |-> t[2].row, cache |-> t[2].cache, own |-> t[2].own,
               needs |-> t[2].needs, repeats |-> t[2].repeats, aborts |-> t[2].aborts,
               skip |-> t[2].skip]
    /\ t[2].own /\ t[2].aborts /\ ~t[1].own /\ t[1].aborts
    /\ \A i \in 3 .. Len(t) : ~t[i].own

\* A block's header: its leader, its head, and what comes at a boundary.
LEMMA HeaderGood ==
    ASSUME NEW u, NEW blockType, NEW leader, NEW epoch, NEW s,
           s = ProcessBlockHeader(u, blockType, leader, epoch)
    PROVE  \E t : Good(u, {}, t) /\ KeptHead(s, t)
<1>0. "insert" \in Kinds
  BY DEF Kinds, StepKinds
<1>1. ASSUME NEW first, first = Ending(GetOrCreateSlotLeader(leader))
      PROVE  /\ Good(u, {}, <<first>>) /\ Leader(leader) \in Shared(<<first>>)
             /\ ~first.own /\ first.aborts
  <2>1. first = [do |-> "insert", row |-> Leader(leader), cache |-> "leaders", own |-> FALSE,
                 needs |-> {}, repeats |-> FALSE, aborts |-> TRUE, skip |-> 0]
    BY <1>1 DEF Ending, GetOrCreateSlotLeader, Statement
  <2>2. Len(Leader(leader)) = 2
    BY DEF Leader
  <2>3. GoodStep(u, {}, first)
    BY <1>0, <2>1, <2>2 DEF GoodStep
  <2> QED
    BY <2>1, <2>3, OneGood
<1>2. PICK first, head, plain, rest :
        /\ first = Ending(GetOrCreateSlotLeader(leader))
        /\ head = Ending(Own("keep", "blocks", u, 0, {Leader(leader)}))
        /\ plain = Ending(Own("insert", "blocks", u, 0, {Leader(leader)}))
        /\ rest = If(epoch # None, ProcessEpochBoundary(blockType, epoch))
  OBVIOUS
<1>3. /\ Good(u, {Leader(leader)}, rest) /\ Len(rest) \in Nat
      /\ \A i \in 1 .. Len(rest) : ~rest[i].own
  <2>1. /\ Good(u, {Leader(leader)}, rest)
        /\ \A i \in 1 .. Len(rest) : ~rest[i].own
    BY <1>2, BoundaryGood
  <2>2. PICK X : rest \in Seq(X)
    BY <2>1 DEF Good, GoodUpTo
  <2> QED
    BY <2>1, <2>2
<1>4. Owns(u, {Leader(leader)}, plain)
  BY <1>0, <1>2, OwnOwns
<1> DEFINE h == [head EXCEPT !.skip = Len(rest)]
           g == [plain EXCEPT !.skip = Len(rest)]
           t == <<first>> \o (<<g>> \o rest)
<1>5. /\ g.own /\ g.aborts
      /\ h = [do |-> "keep", row |-> g.row, cache |-> g.cache, own |-> g.own, needs |-> g.needs,
              repeats |-> g.repeats, aborts |-> g.aborts, skip |-> g.skip]
  <2>1. ASSUME NEW n, NEW do, NEW e,
               e = [Ending(Own(do, "blocks", u, 0, {Leader(leader)})) EXCEPT !.skip = n]
        PROVE  e = [do |-> do, row |-> <<"blocks", u, 0>>, cache |-> None, own |-> TRUE,
                    needs |-> {Leader(leader)}, repeats |-> FALSE, aborts |-> TRUE, skip |-> n]
    BY <2>1 DEF Ending, Own, Statement
  <2>2. h = [do |-> "keep", row |-> <<"blocks", u, 0>>, cache |-> None, own |-> TRUE,
             needs |-> {Leader(leader)}, repeats |-> FALSE, aborts |-> TRUE, skip |-> Len(rest)]
    BY <1>2, <2>1
  <2>3. g = [do |-> "insert", row |-> <<"blocks", u, 0>>, cache |-> None, own |-> TRUE,
             needs |-> {Leader(leader)}, repeats |-> FALSE, aborts |-> TRUE, skip |-> Len(rest)]
    BY <1>2, <2>1
  <2> HIDE DEF g, h
  <2> QED
    BY <2>2, <2>3
<1>6. Good(u, {Leader(leader)}, <<g>> \o rest)
  <2>1. Good(u, {Leader(leader)}, Then(plain, rest))
    BY <1>3, <1>4, OwnsFirst
  <2> QED
    BY <2>1 DEF Then
<1>7. s = <<first>> \o (<<h>> \o rest)
  BY <1>2, Zenon DEF ProcessBlockHeader, Then
<1> HIDE DEF g, h
<1>8. Good(u, {}, t)
  <2>1. Good(u, {}, <<first>>) /\ {Leader(leader)} \subseteq {} \cup Shared(<<first>>)
    BY <1>1, <1>2
  <2> QED
    BY <1>6, <2>1, JoinAfter
<1>9. /\ Len(s) = 2 + Len(rest) /\ Len(t) = 2 + Len(rest)
      /\ s[1] = first /\ t[1] = first /\ s[2] = h /\ t[2] = g
      /\ \A i \in 3 .. Len(t) : s[i] = rest[i - 2] /\ t[i] = rest[i - 2]
  <2>1. PICK X : rest \in Seq(X)
    BY <1>3 DEF Good, GoodUpTo
  <2>2. \A x, y : /\ Len(<<x>> \o (<<y>> \o rest)) = 2 + Len(rest)
                  /\ (<<x>> \o (<<y>> \o rest))[1] = x /\ (<<x>> \o (<<y>> \o rest))[2] = y
                  /\ \A i \in 3 .. 2 + Len(rest) : (<<x>> \o (<<y>> \o rest))[i] = rest[i - 2]
    BY <2>1, TwoFirst
  <2> QED
    BY <1>7, <2>2
<1> HIDE DEF t
<1>10. KeptHead(s, t)
  <2>1. ~first.own /\ first.aborts
    BY <1>1, <1>2
  <2>2. \A i \in 1 .. Len(t) : i # 2 => s[i] = t[i]
    <3>1. \A i \in 1 .. Len(t) : i = 1 \/ i = 2 \/ i \in 3 .. Len(t)
      BY <1>3, <1>9
    <3> QED
      BY <1>9, <3>1
  <2>3. \A i \in 3 .. Len(t) : ~t[i].own
    <3>1. \A i \in 3 .. Len(t) : i - 2 \in 1 .. Len(rest)
      BY <1>3, <1>9
    <3> QED
      BY <1>3, <1>9, <3>1
  <2>4. Len(s) = Len(t) /\ 2 <= Len(t)
    BY <1>3, <1>9
  <2>5. s[2] = [do |-> "keep", row |-> t[2].row, cache |-> t[2].cache, own |-> t[2].own,
                needs |-> t[2].needs, repeats |-> t[2].repeats, aborts |-> t[2].aborts,
                skip |-> t[2].skip]
    BY <1>5, <1>9, Zenon
  <2>6. t[2].own /\ t[2].aborts /\ ~t[1].own /\ t[1].aborts
    BY <1>5, <1>9, <2>1, Zenon
  <2> QED
    BY <2>1, <2>2, <2>3, <2>4, <2>5, <2>6, Zenon DEF KeptHead
<1> QED
  BY <1>8, <1>10

\* A transaction: its head first, and then every part.
LEMMA TransactionGood ==
    ASSUME NEW u, NEW blockType, NEW t, IsTransaction(t), NEW s,
           s = ProcessTransaction(u, blockType, t)
    PROVE  Good(u, {}, s) /\ 1 <= Len(s) /\ s[1].own /\ s[1].aborts
<1> DEFINE head == Ending(Own("insert", "txes", u, 0, {}))
           a == If(t.inputs, ProcessInputs(u))
           c == ProcessOutputs(u, t.outputs)
           d == ProcessMetadata(u, t.metadata)
           e == ProcessWithdrawals(u, getTransactionWithdrawals(blockType, t))
           f == ProcessMint(u, getTransactionMint(blockType, t))
           g == ProcessScripts(u, blockType, t)
           h == ProcessCollateralInputs(u, blockType, t)
           i == ProcessCollateralReturn(u, blockType, t)
           j == ProcessReferenceInputs(u, blockType, t)
           k == ProcessRequiredSigners(u, blockType, t)
           l == ProcessCertificates(u, getTransactionCertificates(blockType, t))
           m == If(hasGovernanceData(blockType, t), ProcessGovernance(u, t))
<1>1. Good(u, {}, <<head>>) /\ head.own /\ head.aborts
  <2>1. ASSUME NEW x, x = Ending(Own("insert", "txes", u, 0, {}))
        PROVE  Good(u, {}, <<x>>) /\ x.own /\ x.aborts
    <3>1. Owns(u, {}, x)
      BY <2>1, OwnOwns DEF Kinds, StepKinds
    <3>2. x.aborts
      BY <2>1 DEF Ending, Own, Statement
    <3> QED
      BY <3>1, <3>2, OwnsFirst DEF Owns
  <2> QED
    BY <2>1
<1>2. Good(u, {}, a) /\ Good(u, {}, h) /\ Good(u, {}, i) /\ Good(u, {}, j) /\ Good(u, {}, k)
  BY CollateralGood, NoneGood DEF If
<1>3. Good(u, {}, c)
  BY OutputsGood DEF IsTransaction
<1>4. Good(u, {}, d) /\ Good(u, {}, e) /\ Good(u, {}, f)
  BY ValuesGood, AssetsGood, SinceSeq
     DEF IsTransaction, getTransactionWithdrawals, getTransactionMint
<1>5. Good(u, {}, g)
  BY ProcessScriptsGood
<1>6. Good(u, {}, l)
  BY CertificatesGood, SinceSeq DEF IsTransaction, getTransactionCertificates
<1>7. Good(u, {}, m)
  BY GovernanceGood, NoneGood DEF If
<1>8. s = <<head>> \o a \o c \o d \o e \o f \o g \o h \o i \o j \o k \o l \o m
  BY DEF ProcessTransaction
<1> HIDE DEF head, a, c, d, e, f, g, h, i, j, k, l, m
<1> DEFINE Headed(r) == Good(u, {}, r) /\ 1 <= Len(r) /\ r[1] = head
<1>9. Headed(<<head>>)
  BY <1>1
<1>10. ASSUME NEW r, NEW q, Headed(r), Good(u, {}, q)
       PROVE  Headed(r \o q)
  <2>1. PICK X, Y : r \in Seq(X) /\ q \in Seq(Y)
    BY <1>10 DEF Good, GoodUpTo
  <2>2. Good(u, {}, r \o q)
    BY <1>10, JoinBoth
  <2>3. 1 <= Len(r \o q) /\ (r \o q)[1] = r[1]
    BY <1>10, <2>1, SharedJoin DEF Joint
  <2> QED
    BY <1>10, <2>2, <2>3
<1> HIDE DEF Headed
<1>11. Headed(<<head>> \o a \o c \o d \o e)
  BY <1>2, <1>3, <1>4, <1>9, <1>10, Zenon
<1>12. Headed(<<head>> \o a \o c \o d \o e \o f \o g \o h \o i)
  BY <1>2, <1>4, <1>5, <1>10, <1>11, Zenon
<1>13. Headed(<<head>> \o a \o c \o d \o e \o f \o g \o h \o i \o j \o k \o l \o m)
  BY <1>2, <1>6, <1>7, <1>10, <1>12, Zenon
<1> QED
  BY <1>1, <1>8, <1>13 DEF Headed

\* Steps that are derived from block headers and transactions, any of them, satisfy the
\* assumptions that the theorems above rest on: every own row has the unit's hash in it
\* and its head first, whose error ends the attempt, and what a row refers to is ensured
\* by an earlier step of the same unit.
THEOREM DerivedSteps ==
    ASSUME NEW steps,
           \A u \in Units :
                \/ \E blockType, leader, epoch :
                        steps[u] = ProcessBlockHeader(u, blockType, leader, epoch)
                \/ \E blockType, t : /\ IsTransaction(t)
                                      /\ steps[u] = ProcessTransaction(u, blockType, t)
    PROVE  StepsTyped(steps) /\ StepsOfUnits(steps)
<1> DEFINE Facts(u, s) ==
        /\ Len(s) \in Nat
        /\ \A i \in 1 .. Len(s) :
            /\ s[i].do \in StepKinds /\ s[i].own \in BOOLEAN
            /\ s[i].repeats \in BOOLEAN /\ s[i].aborts \in BOOLEAN
            /\ s[i].skip \in 0 .. Len(s) - i
            /\ s[i].needs \subseteq RowsShared(s, i - 1)
            /\ s[i].own => s[i].cache = None /\ Len(s[i].row) = 3 /\ s[i].row[2] = u
            /\ ~s[i].own => Len(s[i].row) = 2
            /\ s[i].do = "keep" => \A j \in i + 1 .. Len(s) : ~s[j].own
        /\ \E h \in 1 .. Len(s) :
            /\ s[h].own /\ s[h].aborts
            /\ \A j \in 1 .. h - 1 : ~s[j].own /\ s[j].aborts
<1>1. ASSUME NEW u \in Units, NEW s, NEW t, Good(u, {}, t), KeptHead(s, t)
      PROVE  Facts(u, s)
  <2>1. /\ Len(t) \in Nat /\ Len(s) = Len(t) /\ 2 <= Len(t)
        /\ \A i \in 1 .. Len(t) : GoodStep(u, RowsShared(t, i - 1), t[i]) /\ t[i].skip \in 0 .. Len(t) - i
    BY <1>1 DEF Good, GoodUpTo, KeptHead
  <2>2. /\ s[2].do = "keep" /\ s[2].row = t[2].row /\ s[2].cache = t[2].cache
        /\ s[2].own = t[2].own /\ s[2].needs = t[2].needs /\ s[2].repeats = t[2].repeats
        /\ s[2].aborts = t[2].aborts /\ s[2].skip = t[2].skip
    BY <1>1 DEF KeptHead
  <2>3. \A i \in 1 .. Len(t) :
            /\ i # 2 => s[i].do = t[i].do
            /\ s[i].row = t[i].row /\ s[i].cache = t[i].cache /\ s[i].own = t[i].own
            /\ s[i].needs = t[i].needs /\ s[i].repeats = t[i].repeats
            /\ s[i].aborts = t[i].aborts /\ s[i].skip = t[i].skip
    BY <1>1, <2>2 DEF KeptHead
  <2>4. \A i \in 1 .. Len(t) : RowsShared(s, i - 1) = RowsShared(t, i - 1)
    BY <2>1, <2>3 DEF RowsShared
  <2>5. \A i \in 1 .. Len(t) : s[i].do \in StepKinds /\ (s[i].do = "keep" => i = 2)
    BY <2>1, <2>2, <2>3 DEF GoodStep, Kinds, StepKinds
  <2>6. \A i \in 1 .. Len(s) :
            /\ s[i].own \in BOOLEAN
            /\ s[i].repeats \in BOOLEAN /\ s[i].aborts \in BOOLEAN
            /\ s[i].skip \in 0 .. Len(s) - i
            /\ s[i].needs \subseteq RowsShared(s, i - 1)
            /\ s[i].own => s[i].cache = None /\ Len(s[i].row) = 3 /\ s[i].row[2] = u
            /\ ~s[i].own => Len(s[i].row) = 2
    BY <2>1, <2>3, <2>4 DEF GoodStep
  <2>7. \A j \in 3 .. Len(s) : ~s[j].own
    BY <1>1, <2>1, <2>3 DEF KeptHead
  <2>8. \E h \in 1 .. Len(s) :
            /\ s[h].own /\ s[h].aborts
            /\ \A j \in 1 .. h - 1 : ~s[j].own /\ s[j].aborts
    <3>1. s[2].own /\ s[2].aborts /\ ~s[1].own /\ s[1].aborts
      BY <1>1, <2>1, <2>3 DEF KeptHead
    <3>2. 2 \in 1 .. Len(s) /\ \A j \in 1 .. 2 - 1 : j = 1
      BY <2>1
    <3> QED
      BY <3>1, <3>2
  <2> QED
    BY <2>1, <2>5, <2>6, <2>7, <2>8
<1>2. ASSUME NEW u \in Units, NEW s, Good(u, {}, s), 1 <= Len(s), s[1].own, s[1].aborts
      PROVE  Facts(u, s)
  <2>1. /\ Len(s) \in Nat
        /\ \A i \in 1 .. Len(s) : GoodStep(u, RowsShared(s, i - 1), s[i]) /\ s[i].skip \in 0 .. Len(s) - i
    BY <1>2 DEF Good, GoodUpTo
  <2>2. 1 \in 1 .. Len(s) /\ \A j \in 1 .. 1 - 1 : FALSE
    BY <1>2, <2>1
  <2> QED
    BY <1>2, <2>1, <2>2 DEF GoodStep, Kinds
<1> HIDE DEF Facts
<1>3. ASSUME NEW u \in Units
      PROVE  Facts(u, steps[u])
  BY <1>1, <1>2, HeaderGood, TransactionGood
<1> USE DEF Facts
<1>4. StepsTyped(steps)
  BY <1>3 DEF StepsTyped
<1>5. ASSUME NEW u \in Units, NEW i \in 1 .. Len(steps[u]), NEW p \in steps[u][i].needs
      PROVE  \E j \in 1 .. i - 1 : steps[u][j].row = p /\ ~steps[u][j].own
  <2>1. p \in RowsShared(steps[u], i - 1)
    BY <1>3, <1>5
  <2> QED
    BY <2>1 DEF RowsShared
<1>6. ASSUME NEW u \in Units, NEW i \in 1 .. Len(steps[u]), steps[u][i].own
      PROVE  /\ steps[u][i].cache = NoCache
             /\ \A v \in Units : \A j \in 1 .. Len(steps[v]) :
                    steps[v][j].row = steps[u][i].row => v = u /\ steps[v][j].own
  <2>1. /\ steps[u][i].cache = NoCache
        /\ Len(steps[u][i].row) = 3 /\ steps[u][i].row[2] = u
    BY <1>3, <1>6 DEF NoCache, None
  <2>2. ASSUME NEW v \in Units, NEW j \in 1 .. Len(steps[v]), steps[v][j].row = steps[u][i].row
        PROVE  v = u /\ steps[v][j].own
    <3>1. /\ steps[v][j].own \in BOOLEAN
          /\ ~steps[v][j].own => Len(steps[v][j].row) = 2
          /\ steps[v][j].own => steps[v][j].row[2] = v
      BY <1>3
    <3>2. Len(steps[v][j].row) = 3 /\ steps[v][j].row[2] = u
      BY <2>1, <2>2, Zenon
    <3>3. Len(steps[v][j].row) # 2
      BY <3>2
    <3> QED
      BY <3>1, <3>2, <3>3, Zenon
  <2> QED
    BY <2>1, <2>2
<1>7. \A u \in Units : \A i \in 1 .. Len(steps[u]) : steps[u][i].do = "keep" =>
        \A j \in i + 1 .. Len(steps[u]) : ~steps[u][j].own
  BY <1>3
<1>8. \A u \in Units : \E h \in 1 .. Len(steps[u]) :
        /\ steps[u][h].own /\ steps[u][h].aborts
        /\ \A j \in 1 .. h - 1 : ~steps[u][j].own /\ steps[u][j].aborts
  BY <1>3
<1> HIDE DEF Facts
<1>9. StepsOfUnits(steps)
  BY <1>5, <1>6, <1>7, <1>8 DEF StepsOfUnits
<1> QED
  BY <1>4, <1>9
=============================================================================
