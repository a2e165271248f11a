------------------------ MODULE MetadataFetcherProofs ------------------------
(***************************************************************************)
(* Proofs about MetadataFetcher, for any references, URLs and workers and  *)
(* every capacity and bound.                                               *)
(***************************************************************************)
EXTENDS MetadataFetcher, TLAPS

-----------------------------------------------------------------------------
(* Queues without repetitions                                              *)

\* A new element at the end
LEMMA AppendFacts ==
    ASSUME NEW S, NEW q \in Seq(S), IsInjective(q), NEW j \in S, j \notin ToSet(q)
    PROVE  /\ Append(q, j) \in Seq(S) /\ IsInjective(Append(q, j))
           /\ ToSet(Append(q, j)) = ToSet(q) \cup {j}
           /\ Len(Append(q, j)) = Len(q) + 1 /\ Len(q) \in Nat
<1> DEFINE r == Append(q, j)
<1>1. /\ r \in Seq(S) /\ Len(q) \in Nat /\ Len(r) = Len(q) + 1
      /\ DOMAIN q = 1 .. Len(q) /\ DOMAIN r = 1 .. Len(q) + 1
      /\ r[Len(q) + 1] = j /\ \A i \in 1 .. Len(q) : r[i] = q[i]
  OBVIOUS
<1> HIDE DEF r
<1>2. \A i \in 1 .. Len(q) + 1 : i \in 1 .. Len(q) \/ i = Len(q) + 1
  BY <1>1
<1>3. \A i \in 1 .. Len(q) : q[i] \in ToSet(q) /\ i \in DOMAIN r
  BY <1>1 DEF ToSet
<1>4. ToSet(r) \subseteq ToSet(q) \cup {j}
  BY <1>1, <1>2, <1>3 DEF ToSet
<1>5. ToSet(q) \cup {j} \subseteq ToSet(r)
  <2>1. Len(q) + 1 \in DOMAIN r
    BY <1>1
  <2> QED
    BY <1>1, <1>3, <2>1 DEF ToSet
<1>6. IsInjective(r)
  <2> SUFFICES ASSUME NEW a \in 1 .. Len(q) + 1, NEW b \in 1 .. Len(q) + 1, r[a] = r[b]
               PROVE  a = b
    BY <1>1 DEF IsInjective
  <2>1. CASE a \in 1 .. Len(q) /\ b \in 1 .. Len(q)
    BY <1>1, <2>1 DEF IsInjective
  <2> QED
    BY <1>1, <1>2, <1>3, <2>1
<1> QED
  BY <1>1, <1>4, <1>5, <1>6 DEF r

\* The queue without its head
LEMMA TailFacts ==
    ASSUME NEW S, NEW q \in Seq(S), IsInjective(q), q # << >>
    PROVE  /\ Head(q) \in S /\ Head(q) \in ToSet(q)
           /\ Tail(q) \in Seq(S) /\ IsInjective(Tail(q))
           /\ ToSet(Tail(q)) = ToSet(q) \ {Head(q)}
           /\ Len(Tail(q)) = Len(q) - 1 /\ Len(q) \in Nat
<1> DEFINE r == Tail(q)
<1>1. /\ Head(q) \in S /\ Head(q) = q[1] /\ r \in Seq(S) /\ Len(q) \in Nat \ {0}
      /\ Len(r) = Len(q) - 1 /\ DOMAIN q = 1 .. Len(q) /\ DOMAIN r = 1 .. Len(q) - 1
      /\ \A i \in 1 .. Len(q) - 1 : r[i] = q[i + 1]
  OBVIOUS
<1> HIDE DEF r
<1>2. Head(q) \in ToSet(q)
  BY <1>1 DEF ToSet
<1>3. \A i \in 1 .. Len(q) - 1 : i + 1 \in DOMAIN q /\ i + 1 # 1 /\ 1 \in DOMAIN q
  BY <1>1
<1>4. ToSet(r) \subseteq ToSet(q) \ {Head(q)}
  <2> SUFFICES ASSUME NEW i \in 1 .. Len(q) - 1
               PROVE  r[i] \in ToSet(q) /\ r[i] # Head(q)
    BY <1>1 DEF ToSet
  <2> QED
    BY <1>1, <1>3 DEF ToSet, IsInjective
<1>5. ToSet(q) \ {Head(q)} \subseteq ToSet(r)
  <2> SUFFICES ASSUME NEW i \in 1 .. Len(q), q[i] # Head(q)
               PROVE  q[i] \in ToSet(r)
    BY <1>1 DEF ToSet
  <2>1. i - 1 \in 1 .. Len(q) - 1 /\ i = (i - 1) + 1
    BY <1>1
  <2>2. r[i - 1] = q[i]
    BY <1>1, <2>1
  <2> QED
    BY <1>1, <2>1, <2>2 DEF ToSet
<1>6. IsInjective(r)
  <2> SUFFICES ASSUME NEW a \in 1 .. Len(q) - 1, NEW b \in 1 .. Len(q) - 1, r[a] = r[b]
               PROVE  a = b
    BY <1>1 DEF IsInjective
  <2>1. q[a + 1] = q[b + 1] /\ a + 1 \in DOMAIN q /\ b + 1 \in DOMAIN q
    BY <1>1, <1>3
  <2>2. a + 1 = b + 1
    BY <2>1 DEF IsInjective
  <2> QED
    BY <2>2
<1> QED
  BY <1>1, <1>2, <1>4, <1>5, <1>6 DEF r

-----------------------------------------------------------------------------
(* Types and places                                                        *)

\* What a worker that is not idle holds
LEMMA HeldFacts ==
    ASSUME TypeOK, NEW w \in Workers, pc[w] # "idle"
    PROVE  /\ job[w] \in Jobs /\ job[w] # NoJob /\ job[w] \notin Free
           /\ Held(w) \in Request /\ Held(w).ref \in Refs /\ Url[Held(w).ref] \in Urls
           /\ job[w] \notin ToSet(queue) \cup asleep
           /\ \A v \in Workers \ {w} : job[v] # job[w]
<1>1. job[w] \in Jobs /\ job[w] # NoJob
  BY DEF TypeOK, VarTypes, OnePlace
<1>2. job[w] \in Range(job)
  BY DEF TypeOK, VarTypes, Range
<1>3. job[w] \notin Free
  BY <1>1, <1>2 DEF TypeOK, OnePlace
<1>4. Held(w) \in Request
  BY <1>1, <1>3 DEF TypeOK, VarTypes, Free, Held
<1>5. Held(w).ref \in Refs /\ Url[Held(w).ref] \in Urls
  BY <1>4, FetcherAssumption DEF Request
<1> QED
  BY <1>1, <1>3, <1>4, <1>5 DEF TypeOK, OnePlace

\* A request that is queued anew takes a free job.
LEMMA QueueTyped ==
    ASSUME TypeOK, NEW r \in Refs, QueuePoolMetadata(r), UNCHANGED loop
    PROVE  /\ request' \in [Jobs -> Request \cup {NoRequest}]
           /\ queue' \in Seq(Jobs) /\ Len(queue') <= QueueCap /\ asleep' \subseteq Jobs
           /\ again' \subseteq Refs
           /\ OnePlace'
           /\ \A w \in Workers : pc[w] # "idle" => request'[job[w]] = request[job[w]]
<1>1. CASE UNCHANGED <<fetch, again>>
  <2>1. OnePlace'
    BY <1>1 DEF TypeOK, OnePlace, fetch, loop, Free, Range
  <2> QED
    BY <1>1, <2>1 DEF TypeOK, VarTypes, fetch
<1>2. ASSUME Len(queue) < QueueCap, NEW j \in Free,
             request' = [request EXCEPT ![j] = [ref |-> r, tries |-> 0]],
             queue' = Append(queue, j), asleep' = asleep, again' = again \cup ({r} \cap (Alive \cup Settled))
      PROVE  /\ request' \in [Jobs -> Request \cup {NoRequest}]
             /\ queue' \in Seq(Jobs) /\ Len(queue') <= QueueCap /\ asleep' \subseteq Jobs
             /\ again' \subseteq Refs
             /\ OnePlace'
             /\ \A w \in Workers : pc[w] # "idle" => request'[job[w]] = request[job[w]]
  <2>1. j \in Jobs /\ j \notin ToSet(queue) \cup asleep \cup (Range(job) \ {NoJob})
    BY <1>2 DEF TypeOK, OnePlace, Free
  <2>2. [ref |-> r, tries |-> 0] \in Request
    BY FetcherAssumption DEF Request
  <2>3. request' \in [Jobs -> Request \cup {NoRequest}]
    BY <1>2, <2>1, <2>2 DEF TypeOK, VarTypes
  <2>4. /\ queue' \in Seq(Jobs) /\ IsInjective(queue') /\ ToSet(queue') = ToSet(queue) \cup {j}
        /\ Len(queue') = Len(queue) + 1 /\ Len(queue) \in Nat
    BY <1>2, <2>1, AppendFacts DEF TypeOK, VarTypes, OnePlace
  <2>5. Len(queue') <= QueueCap
    BY <1>2, <2>4, FetcherAssumption
  <2>6. Free' = Free \ {j}
    BY <1>2, <2>1, <2>2, NoRequestAssumption DEF TypeOK, VarTypes, Free
  <2>7. job' = job /\ pc' = pc
    BY DEF loop
  <2>8. \A w \in Workers : job[w] # j
    <3> SUFFICES ASSUME NEW w \in Workers, job[w] = j PROVE FALSE
      OBVIOUS
    <3>1. job[w] \in Range(job)
      BY DEF TypeOK, VarTypes, Range
    <3> QED
      BY <2>1, <3>1, FetcherAssumption
  <2>9. OnePlace'
    <3>1. (Jobs \ Free)' = (ToSet(queue) \cup asleep \cup (Range(job) \ {NoJob}))'
      BY <1>2, <2>1, <2>4, <2>6, <2>7 DEF TypeOK, OnePlace, Range, Free
    <3>2. ToSet(queue') \cap asleep' = {}
      BY <1>2, <2>1, <2>4 DEF TypeOK, OnePlace
    <3>3. \A w \in Workers :
             /\ job[w] = NoJob <=> pc[w] = "idle"
             /\ job[w] \notin ToSet(queue') \cup asleep'
             /\ \A v \in Workers \ {w} : job[v] = job[w] => job[w] = NoJob
      BY <1>2, <2>4, <2>8 DEF TypeOK, OnePlace
    <3> QED
      BY <2>4, <2>7, <3>1, <3>2, <3>3 DEF OnePlace
  <2>10. again' \subseteq Refs /\ asleep' \subseteq Jobs
    BY <1>2 DEF TypeOK, VarTypes
  <2>11. \A w \in Workers : pc[w] # "idle" => request'[job[w]] = request[job[w]]
    BY <1>2, <2>8, HeldFacts DEF TypeOK, VarTypes
  <2> QED
    BY <2>3, <2>4, <2>5, <2>9, <2>10, <2>11
<1> QED
  BY <1>1, <1>2 DEF QueuePoolMetadata

\* The jobs held when one worker takes or lays down a job
LEMMA RangeFacts ==
    ASSUME TypeOK, NEW w \in Workers, NEW j \in Jobs \cup {NoJob},
           \A v \in Workers \ {w} : job[v] # job[w] \/ job[w] = NoJob
    PROVE  Range([job EXCEPT ![w] = j]) \ {NoJob}
             = ((Range(job) \ {job[w]}) \cup {j}) \ {NoJob}
  BY DEF TypeOK, VarTypes, Range

\* A worker that is through with its request forgets it.
LEMMA DropTyped ==
    ASSUME TypeOK, NEW w \in Workers, pc[w] # "idle", Forget(job[w]),
           job' = [job EXCEPT ![w] = NoJob], Goes(w, "idle"), UNCHANGED <<queue, asleep>>
    PROVE  /\ request' \in [Jobs -> Request \cup {NoRequest}]
           /\ OnePlace'
           /\ \A v \in Workers \ {w} : pc[v] # "idle" => request'[job[v]] = request[job[v]]
<1>1. /\ job[w] \in Jobs /\ job[w] \notin ToSet(queue) \cup asleep
      /\ \A v \in Workers \ {w} : job[v] # job[w]
  BY HeldFacts
<1>2. request' \in [Jobs -> Request \cup {NoRequest}] /\ Free' = Free \cup {job[w]}
  BY <1>1 DEF TypeOK, VarTypes, Forget, Free
<1>3. Range(job') \ {NoJob} = (Range(job) \ {NoJob}) \ {job[w]}
  BY <1>1, RangeFacts, FetcherAssumption
<1>4. (Jobs \ Free)' = (ToSet(queue) \cup asleep \cup (Range(job) \ {NoJob}))'
  BY <1>1, <1>2, <1>3 DEF TypeOK, OnePlace
<1>5. \A u \in Workers :
        /\ job'[u] = NoJob <=> pc'[u] = "idle"
        /\ job'[u] \notin ToSet(queue) \cup asleep
        /\ \A v \in Workers \ {u} : job'[v] = job'[u] => job'[u] = NoJob
  <2>1. NoJob \notin ToSet(queue) \cup asleep
    BY FetcherAssumption DEF TypeOK, OnePlace
  <2> QED
    BY <1>1, <2>1 DEF TypeOK, VarTypes, OnePlace, Goes
<1>6. OnePlace'
  BY <1>4, <1>5 DEF TypeOK, OnePlace
<1> QED
  BY <1>1, <1>2, <1>6, HeldFacts DEF TypeOK, VarTypes, Forget

\* A worker whose request failed lets it sleep.
LEMMA RetryTyped ==
    ASSUME TypeOK, NEW w \in Workers, Retry(w)
    PROVE  /\ request' \in [Jobs -> Request \cup {NoRequest}]
           /\ asleep' \subseteq Jobs
           /\ OnePlace'
           /\ \A v \in Workers \ {w} : pc[v] # "idle" => request'[job[v]] = request[job[v]]
<1>1. /\ job[w] \in Jobs /\ job[w] \notin ToSet(queue) \cup asleep /\ job[w] \notin Free
      /\ Held(w) \in Request /\ \A v \in Workers \ {w} : job[v] # job[w]
  BY HeldFacts DEF Retry
<1>2. [Held(w) EXCEPT !.tries = @ + 1] \in Request
  BY <1>1, FetcherAssumption DEF Retry, Request
<1>3. /\ request' = [request EXCEPT ![job[w]] = [Held(w) EXCEPT !.tries = @ + 1]]
      /\ asleep' = asleep \cup {job[w]} /\ queue' = queue
  BY DEF Retry, Held
<1>4. /\ request' \in [Jobs -> Request \cup {NoRequest}] /\ Free' = Free
  BY <1>1, <1>2, <1>3, NoRequestAssumption DEF TypeOK, VarTypes, Free
<1>5. Range(job') \ {NoJob} = (Range(job) \ {NoJob}) \ {job[w]}
  BY <1>1, RangeFacts, FetcherAssumption DEF Retry
<1>6. job[w] \in Range(job) \ {NoJob}
  BY <1>1, FetcherAssumption DEF TypeOK, VarTypes, Range
<1>7. (Jobs \ Free)' = (ToSet(queue) \cup asleep \cup (Range(job) \ {NoJob}))'
  BY <1>1, <1>3, <1>4, <1>5, <1>6 DEF TypeOK, OnePlace
<1>8. \A u \in Workers :
        /\ job'[u] = NoJob <=> pc'[u] = "idle"
        /\ job'[u] \notin ToSet(queue) \cup asleep'
        /\ \A v \in Workers \ {u} : job'[v] = job'[u] => job'[u] = NoJob
  <2>1. NoJob \notin ToSet(queue) \cup asleep'
    BY <1>1, <1>3, FetcherAssumption DEF TypeOK, OnePlace
  <2> QED
    BY <1>1, <1>3, <2>1 DEF TypeOK, VarTypes, OnePlace, Goes, Retry
<1>9. OnePlace'
  BY <1>1, <1>3, <1>7, <1>8 DEF TypeOK, OnePlace
<1> QED
  BY <1>1, <1>3, <1>4, <1>9, HeldFacts DEF TypeOK, VarTypes

\* A worker takes the next request, or lets it sleep.
LEMMA TakeTyped ==
    ASSUME TypeOK, NEW w \in Workers, Take(w)
    PROVE  /\ queue' \in Seq(Jobs) /\ Len(queue') <= QueueCap /\ asleep' \subseteq Jobs
           /\ pc' \in [Workers -> {"idle", "checked", "fetching", "failed"}]
           /\ job' \in [Workers -> Jobs \cup {NoJob}]
           /\ raced' \subseteq Urls
           /\ OnePlace'
<1> DEFINE j == Head(queue)
<1>1. /\ j \in Jobs /\ j \in ToSet(queue)
      /\ queue' \in Seq(Jobs) /\ IsInjective(queue') /\ ToSet(queue') = ToSet(queue) \ {j}
      /\ Len(queue') = Len(queue) - 1 /\ Len(queue) \in Nat /\ request' = request
  BY TailFacts DEF Take, TypeOK, VarTypes, OnePlace
<1>2. Len(queue') <= QueueCap
  BY <1>1, FetcherAssumption DEF TypeOK, VarTypes
<1>3. j \notin Free /\ UrlOf(j) \in Urls
  BY <1>1, FetcherAssumption DEF TypeOK, VarTypes, OnePlace, Free, UrlOf, Request
<1>4. j \notin asleep /\ \A v \in Workers : job[v] # j
  BY <1>1 DEF TypeOK, OnePlace
<1>5. Free' = Free
  BY <1>1 DEF Free
<1> HIDE DEF j
<1>6. CASE asleep' = asleep \cup {j} /\ UNCHANGED <<loop, raced>>
  <2>1. OnePlace'
    BY <1>1, <1>4, <1>5, <1>6 DEF TypeOK, OnePlace, loop, Range
  <2> QED
    BY <1>1, <1>2, <1>6, <2>1 DEF TypeOK, VarTypes, loop
<1>7. CASE /\ job' = [job EXCEPT ![w] = j] /\ Goes(w, "checked")
           /\ raced' \in {raced, raced \cup {UrlOf(j)}} /\ asleep' = asleep
  <2>1. pc[w] = "idle" /\ job[w] = NoJob
    BY DEF Take, TypeOK, OnePlace
  <2>2. Range(job') \ {NoJob} = (Range(job) \ {NoJob}) \cup {j}
    <3>1. Range(job') \ {NoJob} = ((Range(job) \ {job[w]}) \cup {j}) \ {NoJob}
      BY <1>1, <1>7, <2>1, RangeFacts
    <3>2. j # NoJob
      BY <1>1, FetcherAssumption
    <3> QED
      BY <2>1, <3>1, <3>2
  <2>3. (Jobs \ Free)' = (ToSet(queue) \cup asleep \cup (Range(job) \ {NoJob}))'
    <3>1. Jobs \ Free = ToSet(queue) \cup asleep \cup (Range(job) \ {NoJob})
      BY DEF TypeOK, OnePlace
    <3>2. Jobs \ Free = (ToSet(queue) \ {j}) \cup asleep \cup ((Range(job) \ {NoJob}) \cup {j})
      BY <1>1, <3>1
    <3> QED
      BY <1>1, <1>5, <1>7, <2>2, <3>2
  <2>4. \A u \in Workers :
          /\ job'[u] = NoJob <=> pc'[u] = "idle"
          /\ job'[u] \notin ToSet(queue') \cup asleep
          /\ \A v \in Workers \ {u} : job'[v] = job'[u] => job'[u] = NoJob
    BY <1>1, <1>4, <1>7, <2>1, FetcherAssumption DEF TypeOK, VarTypes, OnePlace, Goes
  <2>5. OnePlace'
    BY <1>1, <1>7, <2>3, <2>4 DEF TypeOK, OnePlace
  <2> QED
    BY <1>1, <1>2, <1>3, <1>7, <2>5 DEF TypeOK, VarTypes, Goes
<1> QED
  BY <1>6, <1>7 DEF Take, j

LEMMA TypeInit == Init => TypeOK
<1> SUFFICES ASSUME Init PROVE TypeOK
  OBVIOUS
<1>1. VarTypes
  BY FetcherAssumption DEF Init, VarTypes
<1>2. Free = Jobs /\ ToSet(queue) = {} /\ Range(job) \subseteq {NoJob} /\ IsInjective(queue)
  BY DEF Init, Free, ToSet, Range, IsInjective
<1>3. OnePlace
  BY <1>2 DEF Init, OnePlace
<1> QED
  BY <1>1, <1>3 DEF TypeOK

\* A step of a worker
LEMMA WorkerTyped ==
    ASSUME TypeOK, NEW w \in Workers, Worker(w)
    PROVE  TypeOK'
<1>1. CASE Take(w)
  <2>1. /\ OnePlace' /\ raced' \subseteq Urls
        /\ queue' \in Seq(Jobs) /\ Len(queue') <= QueueCap /\ asleep' \subseteq Jobs
        /\ pc' \in [Workers -> {"idle", "checked", "fetching", "failed"}]
        /\ job' \in [Workers -> Jobs \cup {NoJob}]
    BY <1>1, TakeTyped
  <2>2. UNCHANGED <<request, rows, processing, found, bounds, again, unseen>>
    BY <1>1 DEF Take
  <2> QED
    BY <2>1, <2>2 DEF TypeOK, VarTypes, rows, bounds
<1>2. CASE MarkProcessing(w)
  <2>1. Url[Held(w).ref] \in Urls
    BY <1>2, HeldFacts DEF MarkProcessing
  <2>2. VarTypes'
    BY <1>2, <2>1 DEF TypeOK, VarTypes, MarkProcessing, Goes, fetch, rows, bounds, ghosts
  <2>3. OnePlace'
    BY <1>2 DEF TypeOK, VarTypes, OnePlace, MarkProcessing, Goes, fetch, Free
  <2> QED
    BY <2>2, <2>3 DEF TypeOK
<1>3. CASE StorePoolMetadata(w)
  <2>1. /\ request' \in [Jobs -> Request \cup {NoRequest}] /\ OnePlace'
    BY <1>3, DropTyped DEF StorePoolMetadata
  <2>2. Held(w).ref \in Refs
    BY <1>3, HeldFacts DEF StorePoolMetadata
  <2>3. VarTypes'
    BY <1>3, <2>1, <2>2 DEF TypeOK, VarTypes, StorePoolMetadata, Goes, Unmark, bounds
  <2> QED
    BY <2>1, <2>3 DEF TypeOK
<1>4. CASE FetchFails(w)
  <2>1. VarTypes'
    BY <1>4 DEF TypeOK, VarTypes, FetchFails, Goes, Unmark, fetch, rows, bounds
  <2>2. OnePlace'
    BY <1>4 DEF TypeOK, VarTypes, OnePlace, FetchFails, Goes, fetch, Free
  <2> QED
    BY <2>1, <2>2 DEF TypeOK
<1>5. CASE Retry(w)
  <2>1. /\ request' \in [Jobs -> Request \cup {NoRequest}] /\ OnePlace' /\ asleep' \subseteq Jobs
    BY <1>5, RetryTyped
  <2>2. VarTypes'
    BY <1>5, <2>1 DEF TypeOK, VarTypes, Retry, Goes, rows, bounds, ghosts
  <2> QED
    BY <2>1, <2>2 DEF TypeOK
<1>6. CASE RecordFetchError(w) \/ RecordRefused(w)
  <2>1. /\ request' \in [Jobs -> Request \cup {NoRequest}] /\ OnePlace'
    BY <1>6, DropTyped DEF RecordFetchError, RecordRefused, GiveUp
  <2>2. Held(w).ref \in Refs
    BY <1>6, HeldFacts DEF RecordFetchError, RecordRefused, GiveUp
  <2>3. errors' \subseteq Refs
    BY <1>6, <2>2 DEF RecordFetchError, RecordRefused, TypeOK, VarTypes
  <2>4. VarTypes'
    BY <1>6, <2>1, <2>3
       DEF TypeOK, VarTypes, RecordFetchError, RecordRefused, GiveUp, Goes, bounds, ghosts
  <2> QED
    BY <2>1, <2>4 DEF TypeOK
<1>7. CASE StoreReplyLost(w)
  <2>1. Held(w).ref \in Refs /\ faults' \in 0 .. MaxFaults
    BY <1>7, HeldFacts, FetcherAssumption DEF StoreReplyLost, TypeOK, VarTypes
  <2>2. VarTypes'
    BY <1>7, <2>1 DEF TypeOK, VarTypes, StoreReplyLost, Goes, Unmark, fetch
  <2>3. OnePlace'
    BY <1>7 DEF TypeOK, VarTypes, OnePlace, StoreReplyLost, Goes, fetch, Free
  <2> QED
    BY <2>2, <2>3 DEF TypeOK
<1> QED
  BY <1>1, <1>2, <1>3, <1>4, <1>5, <1>6, <1>7 DEF Worker

\* A goroutine that wakes moves its request from the sleepers to the queue.
LEMMA WakeTyped ==
    ASSUME TypeOK, NEW j \in Jobs, Wake(j)
    PROVE  TypeOK'
<1>1. j \in asleep /\ j \notin ToSet(queue) /\ \A w \in Workers : job[w] # j
  BY DEF Wake, TypeOK, OnePlace
<1>2. /\ queue' \in Seq(Jobs) /\ IsInjective(queue') /\ ToSet(queue') = ToSet(queue) \cup {j}
      /\ Len(queue') = Len(queue) + 1 /\ Len(queue) \in Nat
  BY <1>1, AppendFacts DEF Wake, TypeOK, VarTypes, OnePlace
<1>3. Len(queue') <= QueueCap
  BY <1>2, FetcherAssumption DEF Wake
<1>4. VarTypes'
  BY <1>2, <1>3 DEF TypeOK, VarTypes, Wake, rows, loop, bounds, ghosts
<1>5. ToSet(queue') \cup asleep' = ToSet(queue) \cup asleep /\ ToSet(queue') \cap asleep' = {}
  BY <1>1, <1>2 DEF Wake, TypeOK, OnePlace
<1>6. job' = job /\ pc' = pc /\ Free' = Free
  BY DEF Wake, loop, Free
<1>7. OnePlace'
  <2>1. Jobs \ Free' = ToSet(queue') \cup asleep' \cup (Range(job') \ {NoJob})
    BY <1>5, <1>6 DEF TypeOK, OnePlace
  <2>2. \A w \in Workers :
           /\ job'[w] = NoJob <=> pc'[w] = "idle"
           /\ job'[w] \notin ToSet(queue') \cup asleep'
           /\ \A v \in Workers \ {w} : job'[v] = job'[w] => job'[w] = NoJob
    BY <1>5, <1>6 DEF TypeOK, OnePlace
  <2> QED
    BY <1>2, <1>5, <2>1, <2>2 DEF OnePlace
<1> QED
  BY <1>4, <1>7 DEF TypeOK

\* The steps that leave requests where they are
LEMMA Unmoved ==
    ASSUME TypeOK, UNCHANGED <<fetch, loop>>
    PROVE  OnePlace'
  BY DEF TypeOK, OnePlace, fetch, loop, Free, Range

LEMMA TypeStep == TypeOK /\ [Next]_vars => TypeOK'
<1> SUFFICES ASSUME TypeOK, [Next]_vars PROVE TypeOK'
  OBVIOUS
<1>1. ASSUME NEW r \in Refs, ProcessPoolMetadata(r) PROVE TypeOK'
  <2>1. /\ request' \in [Jobs -> Request \cup {NoRequest}] /\ again' \subseteq Refs
        /\ queue' \in Seq(Jobs) /\ Len(queue') <= QueueCap /\ asleep' \subseteq Jobs
        /\ OnePlace'
    BY <1>1, QueueTyped DEF ProcessPoolMetadata
  <2>2. calls' \in 0 .. MaxCalls
    BY <1>1, FetcherAssumption DEF ProcessPoolMetadata, TypeOK, VarTypes
  <2>3. VarTypes'
    BY <1>1, <2>1, <2>2 DEF TypeOK, VarTypes, ProcessPoolMetadata, loop
  <2> QED
    BY <2>1, <2>3 DEF TypeOK
<1>2. ASSUME NEW r \in Refs, TransactionEnds(r) PROVE TypeOK'
  <2>1. VarTypes'
    BY <1>2 DEF TypeOK, VarTypes, TransactionEnds, fetch, loop, bounds, ghosts
  <2> QED
    BY <1>2, <2>1, Unmoved DEF TypeOK, TransactionEnds
<1>3. CASE ScanUnfetchedMetadata
  <2>1. VarTypes'
    BY <1>3 DEF TypeOK, VarTypes, ScanUnfetchedMetadata, Unfetched, rows, fetch, loop, bounds, ghosts
  <2> QED
    BY <1>3, <2>1, Unmoved DEF TypeOK, ScanUnfetchedMetadata
<1>4. CASE QueueUnfetched
  <2>1. PICK r \in found : /\ QueuePoolMetadata(r)
                           /\ found' = found \ {r}
                           /\ UNCHANGED <<rows, loop, processing, bounds, raced, unseen>>
    BY <1>4 DEF QueueUnfetched
  <2>2. r \in Refs
    BY DEF TypeOK, VarTypes
  <2>3. /\ request' \in [Jobs -> Request \cup {NoRequest}] /\ again' \subseteq Refs
        /\ queue' \in Seq(Jobs) /\ Len(queue') <= QueueCap /\ asleep' \subseteq Jobs
        /\ OnePlace'
    BY <2>1, <2>2, QueueTyped
  <2>4. VarTypes'
    BY <2>1, <2>3 DEF TypeOK, VarTypes, rows, loop, bounds
  <2> QED
    BY <2>3, <2>4 DEF TypeOK
<1>5. CASE CleanupProcessingMap
  <2>1. VarTypes'
    BY <1>5 DEF TypeOK, VarTypes, CleanupProcessingMap, rows, fetch, loop, bounds
  <2> QED
    BY <1>5, <2>1, Unmoved DEF TypeOK, CleanupProcessingMap
<1>6. CASE Restart
  <2>1. VarTypes'
    BY <1>6, FetcherAssumption DEF TypeOK, VarTypes, Restart
  <2>2. Free' = Jobs /\ ToSet(queue') = {} /\ Range(job') \subseteq {NoJob} /\ IsInjective(queue')
    BY <1>6 DEF Restart, Free, ToSet, Range, IsInjective
  <2>3. OnePlace'
    BY <1>6, <2>2 DEF Restart, OnePlace
  <2> QED
    BY <2>1, <2>3 DEF TypeOK
<1>7. CASE UNCHANGED vars
  <2>1. VarTypes'
    BY <1>7 DEF TypeOK, VarTypes, vars, rows, fetch, loop, bounds, ghosts
  <2> QED
    BY <1>7, <2>1, Unmoved DEF TypeOK, vars
<1> QED
  BY <1>1, <1>2, <1>3, <1>4, <1>5, <1>6, <1>7, WorkerTyped, WakeTyped DEF Next

\* Whatever the steps, every variable has its type and every request that is alive is in
\* one place: the queue, the sleepers or one worker (fetcher.go, worker).
THEOREM FetcherTyped == Spec => []TypeOK
  BY TypeInit, TypeStep, PTL DEF Spec

-----------------------------------------------------------------------------
(* One fetch per URL                                                       *)

\* The URL of a worker's request, and what keeps others from it
HeldUrl(w) == Url[Held(w).ref]

OnOnce ==
    \A v, w \in Workers, u \in Urls : v # w /\ On(v, u) /\ On(w, u) => u \in raced

Marked ==
    \A w \in Workers : pc[w] = "fetching" => HeldUrl(w) \in processing \cup raced

FetchInv == TypeOK /\ OnOnce /\ Marked

LEMMA FetchInit == Init => FetchInv
  BY TypeInit DEF Init, FetchInv, OnOnce, Marked, On

\* Where the workers are after a step that leaves their requests' URLs alone
LEMMA SameWork ==
    ASSUME FetchInv, UNCHANGED loop, processing \subseteq processing' \cup raced', raced \subseteq raced',
           \A w \in Workers : pc[w] # "idle" => request'[job[w]] = request[job[w]]
    PROVE  OnOnce' /\ Marked'
<1>1. pc' = pc /\ job' = job
  BY DEF loop
<1>2. \A w \in Workers : pc[w] # "idle" => Held(w)' = Held(w)
  BY <1>1 DEF Held
<1>3. \A w \in Workers, u \in Urls : On(w, u)' => On(w, u)
  BY <1>1, <1>2 DEF On
<1>4. OnOnce'
  BY <1>3 DEF FetchInv, OnOnce
<1>5. Marked'
  <2> SUFFICES ASSUME NEW w \in Workers, pc'[w] = "fetching"
               PROVE  HeldUrl(w)' \in processing' \cup raced'
    BY DEF Marked
  <2>1. HeldUrl(w)' = HeldUrl(w)
    BY <1>1, <1>2 DEF HeldUrl
  <2>2. HeldUrl(w) \in processing \cup raced
    BY <1>1 DEF FetchInv, Marked
  <2> QED
    BY <2>1, <2>2
<1> QED
  BY <1>4, <1>5

\* A worker that takes a request has seen no URL of its own in the map.
LEMMA TakeOnce ==
    ASSUME FetchInv, NEW w \in Workers, Take(w)
    PROVE  OnOnce' /\ Marked'
<1> DEFINE j == Head(queue)
<1>1. request' = request /\ processing' = processing
  BY DEF Take
<1>2. CASE UNCHANGED <<loop, raced>>
  BY <1>1, <1>2, SameWork
<1>3. CASE /\ UrlOf(j) \notin processing
           /\ job' = [job EXCEPT ![w] = j] /\ Goes(w, "checked")
           /\ raced' = IF \E v \in Workers : pc[v] = "checked" /\ On(v, UrlOf(j))
                         THEN raced \cup {UrlOf(j)} ELSE raced
  <2> HIDE DEF j
  <2>1. /\ pc[w] = "idle" /\ pc'[w] = "checked" /\ job'[w] = j
        /\ \A v \in Workers \ {w} : pc'[v] = pc[v] /\ job'[v] = job[v]
    BY <1>3 DEF Take, Goes, FetchInv, TypeOK, VarTypes
  <2>2. HeldUrl(w)' = UrlOf(j) /\ \A v \in Workers \ {w} : HeldUrl(v)' = HeldUrl(v)
    BY <1>1, <2>1 DEF HeldUrl, Held, UrlOf
  <2>3. \A v \in Workers \ {w}, u \in Urls : On(v, u)' => On(v, u)
    BY <2>1, <2>2 DEF On, HeldUrl
  <2>4. \A u \in Urls : On(w, u)' => u = UrlOf(j)
    BY <2>1, <2>2 DEF On, HeldUrl
  <2>5. \A v \in Workers : On(v, UrlOf(j)) => UrlOf(j) \in raced'
    <3> SUFFICES ASSUME NEW v \in Workers, On(v, UrlOf(j)) PROVE UrlOf(j) \in raced'
      OBVIOUS
    <3>1. CASE pc[v] = "checked"
      BY <1>3, <3>1
    <3>2. CASE pc[v] = "fetching"
      BY <1>3, <3>2 DEF FetchInv, Marked, On, HeldUrl
    <3> QED
      BY <3>1, <3>2 DEF On
  <2>6. OnOnce'
    <3> SUFFICES ASSUME NEW v1 \in Workers, NEW v2 \in Workers, NEW u \in Urls,
                        v1 # v2, On(v1, u)', On(v2, u)'
                 PROVE  u \in raced'
      BY DEF OnOnce
    <3>1. CASE v1 = w \/ v2 = w
      BY <2>3, <2>4, <2>5, <3>1
    <3>2. CASE v1 # w /\ v2 # w
      BY <1>3, <2>3, <3>2 DEF FetchInv, OnOnce
    <3> QED
      BY <3>1, <3>2
  <2>7. Marked'
    BY <1>1, <1>3, <2>1, <2>2 DEF FetchInv, Marked
  <2> QED
    BY <2>6, <2>7
<1> QED
  BY <1>2, <1>3 DEF Take

\* A worker that enters its URL into the map
LEMMA MarkOnce ==
    ASSUME FetchInv, NEW w \in Workers, MarkProcessing(w)
    PROVE  OnOnce' /\ Marked'
<1>1. /\ request' = request /\ job' = job /\ raced' = raced
      /\ processing' = processing \cup {HeldUrl(w)}
  BY DEF MarkProcessing, fetch, ghosts, HeldUrl
<1>2. \A v \in Workers : HeldUrl(v)' = HeldUrl(v)
  BY <1>1 DEF HeldUrl, Held
<1>3. /\ pc[w] = "checked" /\ pc'[w] = "fetching" /\ \A v \in Workers \ {w} : pc'[v] = pc[v]
  BY DEF MarkProcessing, Goes, FetchInv, TypeOK, VarTypes
<1>4. \A v \in Workers, u \in Urls : On(v, u)' => On(v, u)
  BY <1>2, <1>3 DEF On, HeldUrl
<1>5. OnOnce'
  BY <1>1, <1>4 DEF FetchInv, OnOnce
<1>6. Marked'
  BY <1>1, <1>2, <1>3 DEF FetchInv, Marked
<1> QED
  BY <1>5, <1>6

\* A worker that deletes its URL from the map
LEMMA UnmarkOnce ==
    ASSUME FetchInv, NEW w \in Workers, pc[w] = "fetching", Unmark(w),
           NEW to \in {"idle", "failed"}, Goes(w, to),
           \A v \in Workers \ {w} : job'[v] = job[v],
           \A v \in Workers \ {w} : pc[v] # "idle" => request'[job[v]] = request[job[v]]
    PROVE  OnOnce' /\ Marked'
<1> DEFINE u == HeldUrl(w)
<1>1. /\ processing' = processing \ {u} /\ u \in Urls
      /\ raced' = IF \E v \in Workers \ {w} : On(v, u) THEN raced ELSE raced \ {u}
  BY HeldFacts DEF Unmark, HeldUrl, FetchInv
<1>2. /\ pc'[w] \in {"idle", "failed"} /\ \A v \in Workers \ {w} : pc'[v] = pc[v]
  BY DEF Goes, FetchInv, TypeOK, VarTypes
<1>3. \A v \in Workers \ {w} : pc[v] # "idle" => HeldUrl(v)' = HeldUrl(v)
  BY DEF HeldUrl, Held
<1>4. \A v \in Workers, x \in Urls : On(v, x)' => v # w /\ On(v, x)
  BY <1>2, <1>3 DEF On, HeldUrl
<1>5. On(w, u)
  BY DEF On, HeldUrl
<1> HIDE DEF u
<1>6. OnOnce'
  <2> SUFFICES ASSUME NEW v1 \in Workers, NEW v2 \in Workers, NEW x \in Urls,
                      v1 # v2, On(v1, x)', On(v2, x)'
               PROVE  x \in raced'
    BY DEF OnOnce
  <2>1. v1 # w /\ v2 # w /\ On(v1, x) /\ On(v2, x) /\ x \in raced
    BY <1>4 DEF FetchInv, OnOnce
  <2> QED
    BY <1>1, <2>1
<1>7. Marked'
  <2> SUFFICES ASSUME NEW v \in Workers, pc'[v] = "fetching"
               PROVE  HeldUrl(v)' \in processing' \cup raced'
    BY DEF Marked
  <2>1. v # w /\ pc[v] = "fetching"
    BY <1>2
  <2>2. HeldUrl(v)' = HeldUrl(v) /\ HeldUrl(v) \in processing \cup raced
    BY <1>3, <2>1 DEF FetchInv, Marked
  <2>3. CASE HeldUrl(v) = u
    <3>1. On(v, u)
      BY <2>1, <2>3 DEF On, HeldUrl
    <3>2. u \in raced /\ raced' = raced
      BY <1>1, <1>5, <2>1, <3>1 DEF FetchInv, OnOnce
    <3> QED
      BY <2>2, <2>3, <3>2
  <2>4. CASE HeldUrl(v) # u
    BY <1>1, <2>2, <2>4
  <2> QED
    BY <2>3, <2>4
<1> QED
  BY <1>6, <1>7

\* A worker that lays down its request while it is not in the map
LEMMA LaidDown ==
    ASSUME FetchInv, NEW w \in Workers, Goes(w, "idle"), UNCHANGED <<processing, raced>>,
           \A v \in Workers \ {w} : job'[v] = job[v],
           \A v \in Workers \ {w} : pc[v] # "idle" => request'[job[v]] = request[job[v]]
    PROVE  OnOnce' /\ Marked'
<1>1. /\ pc'[w] = "idle" /\ \A v \in Workers \ {w} : pc'[v] = pc[v]
  BY DEF Goes, FetchInv, TypeOK, VarTypes
<1>2. \A v \in Workers \ {w} : pc[v] # "idle" => HeldUrl(v)' = HeldUrl(v)
  BY DEF HeldUrl, Held
<1>3. \A v \in Workers, x \in Urls : On(v, x)' => On(v, x)
  BY <1>1, <1>2 DEF On, HeldUrl
<1>4. OnOnce'
  BY <1>3 DEF FetchInv, OnOnce
<1>5. Marked'
  BY <1>1, <1>2 DEF FetchInv, Marked
<1> QED
  BY <1>4, <1>5

LEMMA WorkerOnce ==
    ASSUME FetchInv, NEW w \in Workers, Worker(w)
    PROVE  OnOnce' /\ Marked'
<1>1. CASE Take(w)
  BY <1>1, TakeOnce
<1>2. CASE MarkProcessing(w)
  BY <1>2, MarkOnce
<1>3. CASE StorePoolMetadata(w)
  <2>1. \A v \in Workers \ {w} : pc[v] # "idle" => request'[job[v]] = request[job[v]]
    BY <1>3, DropTyped DEF StorePoolMetadata, FetchInv
  <2>2. \A v \in Workers \ {w} : job'[v] = job[v]
    BY <1>3 DEF StorePoolMetadata, FetchInv, TypeOK, VarTypes
  <2> QED
    BY <1>3, <2>1, <2>2, UnmarkOnce DEF StorePoolMetadata
<1>4. CASE FetchFails(w) \/ StoreReplyLost(w)
  <2>1. request' = request /\ job' = job
    BY <1>4 DEF FetchFails, StoreReplyLost, fetch
  <2> QED
    BY <1>4, <2>1, UnmarkOnce DEF FetchFails, StoreReplyLost
<1>5. CASE Retry(w)
  <2>1. \A v \in Workers \ {w} : pc[v] # "idle" => request'[job[v]] = request[job[v]]
    BY <1>5, RetryTyped DEF FetchInv
  <2>2. \A v \in Workers \ {w} : job'[v] = job[v]
    BY <1>5 DEF Retry, FetchInv, TypeOK, VarTypes
  <2> QED
    BY <1>5, <2>1, <2>2, LaidDown DEF Retry, ghosts
<1>6. CASE GiveUp(w)
  <2>1. \A v \in Workers \ {w} : pc[v] # "idle" => request'[job[v]] = request[job[v]]
    BY <1>6, DropTyped DEF GiveUp, FetchInv
  <2>2. \A v \in Workers \ {w} : job'[v] = job[v]
    BY <1>6 DEF GiveUp, FetchInv, TypeOK, VarTypes
  <2> QED
    BY <1>6, <2>1, <2>2, LaidDown DEF GiveUp, ghosts
<1> QED
  BY <1>1, <1>2, <1>3, <1>4, <1>5, <1>6 DEF Worker, RecordFetchError, RecordRefused

LEMMA FetchStep == FetchInv /\ [Next]_vars => FetchInv'
<1> SUFFICES ASSUME FetchInv, [Next]_vars PROVE OnOnce' /\ Marked'
  BY TypeStep DEF FetchInv
<1>1. ASSUME NEW r \in Refs, ProcessPoolMetadata(r) PROVE OnOnce' /\ Marked'
  BY <1>1, QueueTyped, SameWork DEF ProcessPoolMetadata, FetchInv
<1>2. ASSUME NEW r \in Refs, TransactionEnds(r) PROVE OnOnce' /\ Marked'
  BY <1>2, SameWork DEF TransactionEnds, fetch, ghosts
<1>3. CASE ScanUnfetchedMetadata
  BY <1>3, SameWork DEF ScanUnfetchedMetadata, fetch, ghosts
<1>4. CASE QueueUnfetched
  <2>1. PICK r \in found : QueuePoolMetadata(r) /\ UNCHANGED <<loop, processing, raced>>
    BY <1>4 DEF QueueUnfetched
  <2>2. r \in Refs
    BY DEF FetchInv, TypeOK, VarTypes
  <2> QED
    BY <2>1, <2>2, QueueTyped, SameWork DEF FetchInv
<1>5. CASE CleanupProcessingMap
  BY <1>5, SameWork DEF CleanupProcessingMap, fetch
<1>6. ASSUME NEW j \in Jobs, Wake(j) PROVE OnOnce' /\ Marked'
  BY <1>6, SameWork DEF Wake, ghosts
<1>7. CASE Restart
  BY <1>7 DEF Restart, OnOnce, Marked, On
<1>8. CASE UNCHANGED vars
  BY <1>8, SameWork DEF vars, fetch, ghosts
<1> QED
  BY <1>1, <1>2, <1>3, <1>4, <1>5, <1>6, <1>7, <1>8, WorkerOnce DEF Next

\* Two workers fetch from one URL only where the map could not keep them apart
\* (fetcher.go, worker, isProcessing and setProcessing).
THEOREM FetchesApart == Spec => []OneFetchPerUrl
<1>1. FetchInv => OneFetchPerUrl
  <2> SUFFICES ASSUME FetchInv, NEW v \in Workers, NEW w \in Workers, v # w,
                      pc[v] = "fetching", pc[w] = "fetching",
                      Url[Held(v).ref] = Url[Held(w).ref]
               PROVE  Url[Held(w).ref] \in raced
    BY DEF OneFetchPerUrl
  <2>1. Url[Held(w).ref] \in Urls
    BY HeldFacts DEF FetchInv
  <2> QED
    BY <2>1 DEF FetchInv, OnOnce, On
<1> QED
  BY <1>1, FetchInit, FetchStep, PTL DEF Spec

-----------------------------------------------------------------------------
(* What was asked for twice                                                *)

\* A reference of two requests that are alive has been asked for again, ...
AskedTwice ==
    \A j, k \in Jobs \ Free :
        j # k /\ request[j].ref = request[k].ref => request[j].ref \in again

\* ... and so has one of a request and a row that settles it, or the row came unseen.
AskedLate ==
    \A j \in Jobs \ Free : request[j].ref \in Settled => request[j].ref \in again \cup unseen

CopiesInv == AskedTwice /\ AskedLate /\ OnlyCopiesContradict

\* A step that leaves the requests and the rows alone
LEMMA SameCopies ==
    ASSUME CopiesInv, UNCHANGED <<request, data, errors, again, unseen>>
    PROVE  CopiesInv'
  BY DEF CopiesInv, AskedTwice, AskedLate, OnlyCopiesContradict, Free, Settled

\* A new request: its reference is noted when a request or a row has it already.
LEMMA QueueCopies ==
    ASSUME TypeOK, CopiesInv, NEW r \in Refs, QueuePoolMetadata(r), UNCHANGED <<data, errors, unseen>>
    PROVE  CopiesInv'
<1>1. CASE UNCHANGED <<fetch, again>>
  BY <1>1, SameCopies DEF fetch
<1>2. ASSUME NEW j \in Free, request' = [request EXCEPT ![j] = [ref |-> r, tries |-> 0]],
             again' = again \cup ({r} \cap (Alive \cup Settled))
      PROVE  CopiesInv'
  <2>1. [ref |-> r, tries |-> 0] \in Request /\ j \in Jobs
    BY FetcherAssumption DEF Request, Free
  <2>2. /\ Jobs \ Free' = (Jobs \ Free) \cup {j}
        /\ request'[j].ref = r
        /\ \A k \in Jobs \ Free : k # j /\ request'[k].ref = request[k].ref
    BY <1>2, <2>1, NoRequestAssumption DEF TypeOK, VarTypes, Free
  <2>3. \A k \in Jobs \ Free : request[k].ref \in Alive
    BY DEF Alive
  <2>4. AskedTwice'
    BY <1>2, <2>2, <2>3 DEF CopiesInv, AskedTwice
  <2>5. AskedLate'
    BY <1>2, <2>2 DEF CopiesInv, AskedLate, Settled
  <2>6. OnlyCopiesContradict'
    BY <1>2 DEF CopiesInv, OnlyCopiesContradict
  <2> QED
    BY <2>4, <2>5, <2>6 DEF CopiesInv
<1> QED
  BY <1>1, <1>2 DEF QueuePoolMetadata

\* A worker that settles its request or gives it up: what it contradicts was asked
\* for late, what another request may still contradict, twice.
LEMMA DropCopies ==
    ASSUME TypeOK, CopiesInv, NEW w \in Workers, pc[w] # "idle", Forget(job[w]),
           again' = again, unseen' = unseen,
           \/ data' \subseteq data \cup {Held(w).ref} /\ errors' = errors
           \/ errors' \subseteq errors \cup {Held(w).ref} /\ data' = data
    PROVE  CopiesInv'
<1>1. job[w] \in Jobs \ Free
  BY HeldFacts
<1>2. /\ Jobs \ Free' = (Jobs \ Free) \ {job[w]}
      /\ \A k \in Jobs \ Free' : request'[k] = request[k]
  BY <1>1 DEF TypeOK, VarTypes, Free, Forget
<1>3. AskedTwice'
  BY <1>2 DEF CopiesInv, AskedTwice
<1>4. AskedLate'
  <2> SUFFICES ASSUME NEW k \in Jobs \ Free', request[k].ref \in Settled'
               PROVE  request[k].ref \in again \cup unseen
    BY <1>2 DEF AskedLate
  <2>1. k \in Jobs \ Free /\ k # job[w]
    BY <1>2
  <2>2. CASE request[k].ref \in Settled
    BY <2>1, <2>2 DEF CopiesInv, AskedLate
  <2>3. CASE request[k].ref = Held(w).ref
    BY <1>1, <2>1, <2>3 DEF CopiesInv, AskedTwice, Held
  <2> QED
    BY <2>2, <2>3 DEF Settled
<1>5. OnlyCopiesContradict'
  BY <1>1 DEF CopiesInv, AskedLate, OnlyCopiesContradict, Settled, Held
<1> QED
  BY <1>3, <1>4, <1>5 DEF CopiesInv

\* A request that is tried again keeps its reference.
LEMMA RetryCopies ==
    ASSUME TypeOK, CopiesInv, NEW w \in Workers, Retry(w)
    PROVE  CopiesInv'
<1>1. job[w] \in Jobs \ Free /\ Held(w) \in Request
  BY HeldFacts DEF Retry
<1>2. [Held(w) EXCEPT !.tries = @ + 1] \in Request
  BY <1>1, FetcherAssumption DEF Retry, Request
<1>3. /\ request' = [request EXCEPT ![job[w]] = [Held(w) EXCEPT !.tries = @ + 1]]
      /\ UNCHANGED <<data, errors, again, unseen>>
  BY DEF Retry, Held, rows, ghosts
<1>4. Free' = Free /\ \A k \in Jobs \ Free : request'[k].ref = request[k].ref
  BY <1>1, <1>2, <1>3, NoRequestAssumption DEF TypeOK, VarTypes, Free, Held, Request
<1> QED
  BY <1>3, <1>4 DEF CopiesInv, AskedTwice, AskedLate, OnlyCopiesContradict, Settled

\* A document that is stored unseen: any other request for it was asked for twice.
LEMMA LostCopies ==
    ASSUME TypeOK, CopiesInv, NEW w \in Workers, StoreReplyLost(w)
    PROVE  CopiesInv'
<1>1. /\ UNCHANGED <<request, errors, again>>
      /\ data' = data \cup {Held(w).ref} /\ unseen' = unseen \cup {Held(w).ref}
  BY DEF StoreReplyLost, fetch
<1>2. Free' = Free
  BY <1>1 DEF Free
<1> QED
  BY <1>1, <1>2 DEF CopiesInv, AskedTwice, AskedLate, OnlyCopiesContradict, Settled

LEMMA WorkerCopies ==
    ASSUME TypeOK, CopiesInv, NEW w \in Workers, Worker(w)
    PROVE  CopiesInv'
<1>1. CASE Take(w) \/ MarkProcessing(w) \/ FetchFails(w)
  BY <1>1, SameCopies DEF Take, MarkProcessing, FetchFails, fetch, rows, ghosts
<1>2. CASE StorePoolMetadata(w)
  BY <1>2, DropCopies DEF StorePoolMetadata
<1>3. CASE Retry(w)
  BY <1>3, RetryCopies
<1>4. CASE RecordFetchError(w) \/ RecordRefused(w)
  <2>1. errors' \subseteq errors \cup {Held(w).ref}
    BY <1>4 DEF RecordFetchError, RecordRefused
  <2> QED
    BY <1>4, <2>1, DropCopies DEF RecordFetchError, RecordRefused, GiveUp, ghosts
<1>5. CASE StoreReplyLost(w)
  BY <1>5, LostCopies
<1> QED
  BY <1>1, <1>2, <1>3, <1>4, <1>5 DEF Worker

LEMMA CopiesStep == TypeOK /\ CopiesInv /\ [Next]_vars => CopiesInv'
<1> SUFFICES ASSUME TypeOK, CopiesInv, [Next]_vars PROVE CopiesInv'
  OBVIOUS
<1>1. ASSUME NEW r \in Refs, ProcessPoolMetadata(r) PROVE CopiesInv'
  BY <1>1, QueueCopies DEF ProcessPoolMetadata
<1>2. ASSUME NEW r \in Refs, TransactionEnds(r) PROVE CopiesInv'
  BY <1>2, SameCopies DEF TransactionEnds, fetch, ghosts
<1>3. CASE ScanUnfetchedMetadata \/ CleanupProcessingMap
  BY <1>3, SameCopies DEF ScanUnfetchedMetadata, CleanupProcessingMap, rows, fetch, ghosts
<1>4. CASE QueueUnfetched
  <2>1. PICK r \in found : QueuePoolMetadata(r) /\ UNCHANGED <<rows, unseen>>
    BY <1>4 DEF QueueUnfetched
  <2>2. r \in Refs
    BY DEF TypeOK, VarTypes
  <2> QED
    BY <2>1, <2>2, QueueCopies DEF rows
<1>5. ASSUME NEW j \in Jobs, Wake(j) PROVE CopiesInv'
  BY <1>5, SameCopies DEF Wake, rows, ghosts
<1>6. CASE Restart
  <2>1. Jobs \ Free' = {}
    BY <1>6 DEF Restart, Free
  <2> QED
    BY <1>6, <2>1 DEF Restart, CopiesInv, AskedTwice, AskedLate, OnlyCopiesContradict
<1>7. CASE UNCHANGED vars
  BY <1>7, SameCopies DEF vars, rows, fetch, ghosts
<1> QED
  BY <1>1, <1>2, <1>3, <1>4, <1>5, <1>6, <1>7, WorkerCopies DEF Next

\* A document and a permanent error stand side by side only for a reference that was
\* asked for again, by a scan or by a registration that does not look (fetcher.go,
\* scanUnfetchedMetadata; certificate_processor.go, processPoolMetadata), or whose document
\* was stored with the reply to its INSERT lost (fetcher.go, storePoolMetadata).
THEOREM ContradictionsAreCopies == Spec => []OnlyCopiesContradict
<1>1. Init => CopiesInv
  BY DEF Init, CopiesInv, AskedTwice, AskedLate, OnlyCopiesContradict, Free
<1>2. CopiesInv => OnlyCopiesContradict
  BY DEF CopiesInv
<1> QED
  BY <1>1, <1>2, CopiesStep, FetcherTyped, PTL DEF Spec

-----------------------------------------------------------------------------
(* How requests end                                                        *)

\* The request of job j goes on as it is or tried more often, or it ends as it may.
GoesOn(j) ==
    \/ /\ request'[j] # NoRequest
       /\ request'[j].ref = request[j].ref /\ request'[j].tries >= request[j].tries
    \/ /\ request'[j] = NoRequest
       /\ \/ request[j].ref \in Settled' \/ faults' > faults
          \/ LastFailure(j)

LEMMA Unchanged ==
    ASSUME TypeOK, NEW j \in Jobs \ Free, request'[j] = request[j]
    PROVE  GoesOn(j)
<1>1. request[j] \in Request /\ request[j] # NoRequest
  BY DEF TypeOK, VarTypes, Free
<1>2. request[j].tries \in Nat
  BY <1>1, FetcherAssumption DEF Request
<1> QED
  BY <1>1, <1>2 DEF GoesOn

LEMMA QueueKeeps ==
    ASSUME TypeOK, NEW r \in Refs, QueuePoolMetadata(r), NEW j \in Jobs \ Free
    PROVE  GoesOn(j)
<1>1. request'[j] = request[j]
  BY DEF QueuePoolMetadata, fetch, TypeOK, VarTypes, Free
<1> QED
  BY <1>1, Unchanged

\* A worker that ends a request says why.
LEMMA DropKeeps ==
    ASSUME TypeOK, NEW w \in Workers, pc[w] # "idle", Forget(job[w]),
           Held(w).ref \in Settled' \/ LastFailure(job[w]), NEW j \in Jobs \ Free
    PROVE  GoesOn(j)
<1>1. CASE j = job[w]
  BY <1>1 DEF Forget, Held, GoesOn, TypeOK, VarTypes
<1>2. CASE j # job[w]
  <2>1. request'[j] = request[j]
    BY <1>2 DEF Forget, TypeOK, VarTypes
  <2> QED
    BY <2>1, Unchanged
<1> QED
  BY <1>1, <1>2

LEMMA WorkerKeeps ==
    ASSUME TypeOK, NEW w \in Workers, Worker(w), NEW j \in Jobs \ Free
    PROVE  GoesOn(j)
<1>1. CASE Take(w) \/ MarkProcessing(w) \/ FetchFails(w) \/ StoreReplyLost(w)
  BY <1>1, Unchanged DEF Take, MarkProcessing, FetchFails, StoreReplyLost, fetch
<1>2. CASE StorePoolMetadata(w)
  <2>1. Held(w).ref \in Settled'
    BY <1>2 DEF StorePoolMetadata, Settled
  <2> QED
    BY <1>2, <2>1, DropKeeps DEF StorePoolMetadata
<1>3. CASE Retry(w)
  <2>1. job[w] \in Jobs \ Free /\ Held(w) \in Request
    BY <1>3, HeldFacts DEF Retry
  <2>2. CASE j # job[w]
    <3>1. request'[j] = request[j]
      BY <1>3, <2>2 DEF Retry, TypeOK, VarTypes
    <3> QED
      BY <3>1, Unchanged
  <2>3. CASE j = job[w]
    <3>1. request'[j] = [Held(w) EXCEPT !.tries = @ + 1]
      BY <1>3, <2>1, <2>3 DEF Retry, Held, TypeOK, VarTypes
    <3>2. Held(w).tries \in Nat /\ Held(w).tries < MaxRetries
      BY <1>3, <2>1, FetcherAssumption DEF Retry, Request
    <3>3. [Held(w) EXCEPT !.tries = @ + 1] \in Request
      BY <2>1, <3>2, FetcherAssumption DEF Request
    <3>4. request'[j].ref = Held(w).ref /\ request'[j].tries = Held(w).tries + 1
      BY <2>1, <3>1 DEF Request
    <3> QED
      BY <2>3, <3>1, <3>2, <3>3, <3>4, NoRequestAssumption DEF GoesOn, Held
  <2> QED
    BY <2>2, <2>3
<1>4. CASE GiveUp(w)
  <2>1. LastFailure(job[w])
    BY <1>4 DEF GiveUp, LastFailure, Held
  <2> QED
    BY <1>4, <2>1, DropKeeps DEF GiveUp
<1> QED
  BY <1>1, <1>2, <1>3, <1>4 DEF Worker, RecordFetchError, RecordRefused

\* No request is lost between the queue, the goroutines that sleep and the workers: it
\* ends with its document stored, its error recorded, an exit of the process or the
\* failure of its last retry, for any workers, queue and number of retries.
THEOREM NoRequestIsLost == Spec => RequestsKept
<1> DEFINE AllGoOn == \A j \in Jobs \ Free : GoesOn(j)
<1>1. ASSUME TypeOK, Next, NEW j \in Jobs \ Free PROVE GoesOn(j)
  <2>1. ASSUME NEW r \in Refs, ProcessPoolMetadata(r) PROVE GoesOn(j)
    BY <1>1, <2>1, QueueKeeps DEF ProcessPoolMetadata
  <2>2. ASSUME NEW r \in Refs, TransactionEnds(r) PROVE GoesOn(j)
    BY <1>1, <2>2, Unchanged DEF TransactionEnds, fetch
  <2>3. CASE ScanUnfetchedMetadata \/ CleanupProcessingMap
    BY <1>1, <2>3, Unchanged DEF ScanUnfetchedMetadata, CleanupProcessingMap, fetch
  <2>4. CASE QueueUnfetched
    <3>1. PICK r \in Refs : QueuePoolMetadata(r)
      BY <1>1, <2>4 DEF QueueUnfetched, TypeOK, VarTypes
    <3> QED
      BY <1>1, <3>1, QueueKeeps
  <2>5. ASSUME NEW k \in Jobs, Wake(k) PROVE GoesOn(j)
    BY <1>1, <2>5, Unchanged DEF Wake
  <2>6. CASE Restart
    <3>1. faults' > faults
      BY <1>1, <2>6, FetcherAssumption DEF Restart, TypeOK, VarTypes
    <3> QED
      BY <2>6, <3>1 DEF Restart, GoesOn
  <2> QED
    BY <1>1, <2>1, <2>2, <2>3, <2>4, <2>5, <2>6, WorkerKeeps DEF Next
<1>2. TypeOK /\ [Next]_vars => [AllGoOn]_vars
  <2> HIDE DEF AllGoOn
  <2>1. TypeOK /\ Next => AllGoOn
    BY <1>1 DEF AllGoOn
  <2> QED
    BY <2>1
<1> QED
  BY FetcherTyped, <1>2, PTL DEF Spec, RequestsKept, GoesOn
=============================================================================
