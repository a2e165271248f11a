--------------------------- MODULE MetadataFetcher ---------------------------
(***************************************************************************)
(* The fetcher of the documents that pool registrations refer to: requests *)
(* of the certificate processor and of a periodic scan go through a bounded *)
(* queue to workers that fetch, check and store them, try again a limited  *)
(* number of times, and then record an error.                              *)
(*                                                                         *)
(* A reference (a row of pool_metadata_refs) stands for its hash.  A       *)
(* request that is alive is in the queue, asleep in a goroutine that will  *)
(* send it back to the queue, or held by a worker.  The process ends only  *)
(* by exiting, which no part of the fetcher takes notice of: nothing calls *)
(* Stop.                                                                   *)
(***************************************************************************)
EXTENDS Naturals, FiniteSets, SequencesExt

CONSTANTS
    Refs, Urls,
    Url,            \* where the document of each reference is
    Workers,
    QueueCap,       \* QueueSize
    MaxRetries,
    ScanLimit,      \* how many references a scan reads
    Jobs,           \* bound: the requests alive at a time, by number
    MaxCalls,       \* bound: requests of the certificate processor
    MaxFaults,      \* bound: restarts and lost replies
    NoRequest, NoJob

ASSUME FetcherAssumption ==
    /\ Url \in [Refs -> Urls]
    /\ {QueueCap, MaxRetries, ScanLimit, MaxCalls, MaxFaults} \subseteq Nat
    /\ Jobs \subseteq Nat /\ IsFiniteSet(Jobs)
    /\ NoJob \notin Jobs

Request == [ref : Refs, tries : 0 .. MaxRetries]

ASSUME NoRequestAssumption == NoRequest \notin Request

VARIABLES
    refs,           \* pool_metadata_refs
    writing,        \* references stored by transactions that have not ended
    data,           \* off_chain_pool_data
    errors,         \* off_chain_pool_fetch_errors
    request,        \* each job's reference and retries so far
    queue,          \* the channel
    asleep,         \* the jobs of goroutines that sleep
    pc,             \* where each worker is in its loop
    job,            \* and with which job
    processing,     \* the map of URLs being processed
    found,          \* what the scan has read and not yet queued
    calls, faults,
    again,          \* references asked for while asked for or settled
    raced,          \* URLs that two workers may be fetching
    unseen          \* references whose document was stored without the worker's knowing

fetch  == <<request, queue, asleep>>
loop   == <<pc, job>>
rows   == <<refs, writing, data, errors>>
bounds == <<calls, faults>>
ghosts == <<again, raced, unseen>>
vars   == <<rows, fetch, loop, processing, found, bounds, ghosts>>

-----------------------------------------------------------------------------
(* Requests                                                                *)

Free    == {j \in Jobs : request[j] = NoRequest}
Alive   == {request[j].ref : j \in Jobs \ Free}
Settled == data \cup errors
UrlOf(j) == Url[request[j].ref]
Held(w) == request[job[w]]

\* QueuePoolMetadata: the request is queued, or dropped when the queue is full
QueuePoolMetadata(r) ==
    IF Len(queue) < QueueCap
      THEN /\ \E j \in Free :
                /\ \A k \in Free : j <= k
                /\ request' = [request EXCEPT ![j] = [ref |-> r, tries |-> 0]]
                /\ queue' = Append(queue, j)
           /\ again' = again \cup ({r} \cap (Alive \cup Settled))
           /\ UNCHANGED asleep
      ELSE UNCHANGED <<fetch, again>>

\* The certificate processor stores the reference, or finds it stored, and asks for
\* the document, in a transaction that has yet to end
ProcessPoolMetadata(r) ==
    /\ calls < MaxCalls
    /\ calls' = calls + 1
    /\ writing' = writing \cup ({r} \ refs)
    /\ QueuePoolMetadata(r)
    /\ UNCHANGED <<refs, data, errors, loop, processing, found, faults, raced, unseen>>

TransactionEnds(r) ==
    /\ r \in writing
    /\ writing' = writing \ {r}
    /\ refs' \in {refs, refs \cup {r}}
    /\ UNCHANGED <<data, errors, fetch, loop, processing, found, bounds, ghosts>>

-----------------------------------------------------------------------------
(* The periodic scanner                                                    *)

\* References without a document and without an error of the last retry
Unfetched == refs \ Settled

ScanUnfetchedMetadata ==
    /\ found = {}
    /\ found' \in SUBSET Unfetched
    /\ found' # {}
    /\ Cardinality(found') = ScanLimit \/ found' = Unfetched
    /\ UNCHANGED <<rows, fetch, loop, processing, bounds, ghosts>>

QueueUnfetched ==
    \E r \in found :
        /\ QueuePoolMetadata(r)
        /\ found' = found \ {r}
        /\ UNCHANGED <<rows, loop, processing, bounds, raced, unseen>>

\* Every five minutes, whatever the workers do
CleanupProcessingMap ==
    /\ processing # {}
    /\ processing' = {}
    /\ raced' = raced \cup processing
    /\ UNCHANGED <<rows, fetch, loop, found, bounds, again, unseen>>

-----------------------------------------------------------------------------
(* The workers                                                             *)

Goes(w, to) == pc' = [pc EXCEPT ![w] = to]

\* The worker has looked for the URL in the map and not deleted it
On(w, u) == pc[w] \in {"checked", "fetching"} /\ Url[Held(w).ref] = u

\* Mutant: the map is not asked
TakeUnasked(w) ==
    /\ pc[w] = "idle"
    /\ queue # << >>
    /\ queue' = Tail(queue)
    /\ job' = [job EXCEPT ![w] = Head(queue)]
    /\ Goes(w, "checked")
    /\ UNCHANGED <<request, asleep, rows, processing, found, bounds, ghosts>>

\* A request whose URL is being processed goes to sleep for five seconds
Take(w) ==
    /\ pc[w] = "idle"
    /\ queue # << >>
    /\ queue' = Tail(queue)
    /\ LET j == Head(queue)
       IN  IF UrlOf(j) \in processing
             THEN /\ asleep' = asleep \cup {j}
                  /\ UNCHANGED <<loop, raced>>
             ELSE /\ job' = [job EXCEPT ![w] = j]
                  /\ Goes(w, "checked")
                  /\ raced' = IF \E v \in Workers : pc[v] = "checked" /\ On(v, UrlOf(j))
                                THEN raced \cup {UrlOf(j)} ELSE raced
                  /\ UNCHANGED asleep
    /\ UNCHANGED <<request, rows, processing, found, bounds, again, unseen>>

MarkProcessing(w) ==
    /\ pc[w] = "checked"
    /\ processing' = processing \cup {Url[Held(w).ref]}
    /\ Goes(w, "fetching")
    /\ UNCHANGED <<fetch, job, rows, found, bounds, ghosts>>

Forget(j) == request' = [request EXCEPT ![j] = NoRequest]

\* setProcessing(URL, false), the other workers having seen the URL in the map till then
Unmark(w) ==
    LET u == Url[Held(w).ref]
    IN  /\ processing' = processing \ {u}
        /\ raced' = IF \E v \in Workers \ {w} : On(v, u) THEN raced ELSE raced \ {u}

\* The document comes, is the right one, and is stored
StorePoolMetadata(w) ==
    /\ pc[w] = "fetching"
    /\ Held(w).ref \notin data
    /\ data' = data \cup {Held(w).ref}
    /\ Unmark(w)
    /\ Forget(job[w])
    /\ job' = [job EXCEPT ![w] = NoJob]
    /\ Goes(w, "idle")
    /\ UNCHANGED <<queue, asleep, refs, writing, errors, found, bounds, again, unseen>>

\* Mutant: the URL of a fetch that failed stays in the map
FailsMarked(w) ==
    /\ pc[w] = "fetching"
    /\ Goes(w, "failed")
    /\ UNCHANGED <<fetch, job, rows, processing, found, bounds, ghosts>>

\* No answer, another document, a statement the database refuses, or a document that
\* is stored already: its row has the hash as primary key
FetchFails(w) ==
    /\ pc[w] = "fetching"
    /\ Unmark(w)
    /\ Goes(w, "failed")
    /\ UNCHANGED <<fetch, job, rows, found, bounds, again, unseen>>

\* The document is stored, and the reply to the INSERT lost: for the worker it has failed
StoreReplyLost(w) ==
    /\ pc[w] = "fetching"
    /\ faults < MaxFaults
    /\ faults' = faults + 1
    /\ Held(w).ref \notin data
    /\ data' = data \cup {Held(w).ref}
    /\ unseen' = unseen \cup {Held(w).ref}
    /\ Unmark(w)
    /\ Goes(w, "failed")
    /\ UNCHANGED <<fetch, job, refs, writing, errors, found, calls, again>>

\* Mutant: each failure is recorded
RetryRecorded(w) ==
    /\ pc[w] = "failed"
    /\ Held(w).tries < MaxRetries
    /\ request' = [request EXCEPT ![job[w]].tries = @ + 1]
    /\ asleep' = asleep \cup {job[w]}
    /\ errors' = errors \cup {Held(w).ref}
    /\ job' = [job EXCEPT ![w] = NoJob]
    /\ Goes(w, "idle")
    /\ UNCHANGED <<queue, refs, writing, data, processing, found, bounds, ghosts>>

\* Mutant: one retry too many
RetryOnceMore(w) ==
    /\ pc[w] = "failed"
    /\ Held(w).tries <= MaxRetries
    /\ request' = [request EXCEPT ![job[w]].tries = @ + 1]
    /\ asleep' = asleep \cup {job[w]}
    /\ job' = [job EXCEPT ![w] = NoJob]
    /\ Goes(w, "idle")
    /\ UNCHANGED <<queue, rows, processing, found, bounds, ghosts>>

Retry(w) ==
    /\ pc[w] = "failed"
    /\ Held(w).tries < MaxRetries
    /\ request' = [request EXCEPT ![job[w]].tries = @ + 1]
    /\ asleep' = asleep \cup {job[w]}
    /\ job' = [job EXCEPT ![w] = NoJob]
    /\ Goes(w, "idle")
    /\ UNCHANGED <<queue, rows, processing, found, bounds, ghosts>>

\* The last failure: the request is given up
GiveUp(w) ==
    /\ pc[w] = "failed"
    /\ Held(w).tries = MaxRetries
    /\ Forget(job[w])
    /\ job' = [job EXCEPT ![w] = NoJob]
    /\ Goes(w, "idle")
    /\ UNCHANGED <<queue, asleep, refs, writing, data, processing, found, bounds, ghosts>>

RecordFetchError(w) ==
    /\ GiveUp(w)
    /\ errors' = errors \cup {Held(w).ref}

\* ... and the database refuses the row, as it does every time when the error's text is
\* longer than its column
RecordRefused(w) ==
    /\ GiveUp(w)
    /\ UNCHANGED errors

Worker(w) ==
    \/ Take(w) \/ MarkProcessing(w)
    \/ StorePoolMetadata(w) \/ StoreReplyLost(w) \/ FetchFails(w)
    \/ Retry(w) \/ RecordFetchError(w) \/ RecordRefused(w)

\* A goroutine that slept sends its request, waiting for room in the queue
Wake(j) ==
    /\ j \in asleep
    /\ Len(queue) < QueueCap
    /\ asleep' = asleep \ {j}
    /\ queue' = Append(queue, j)
    /\ UNCHANGED <<request, rows, loop, processing, found, bounds, ghosts>>

-----------------------------------------------------------------------------

Init ==
    /\ refs = {} /\ writing = {} /\ data = {} /\ errors = {}
    /\ request = [j \in Jobs |-> NoRequest]
    /\ queue = << >> /\ asleep = {}
    /\ pc = [w \in Workers |-> "idle"]
    /\ job = [w \in Workers |-> NoJob]
    /\ processing = {} /\ found = {}
    /\ calls = 0 /\ faults = 0
    /\ again = {} /\ raced = {} /\ unseen = {}

\* The process exits, at a signal or in a crash, and is started again with the rows
Restart ==
    /\ faults < MaxFaults
    /\ faults' = faults + 1
    /\ writing' = {}
    /\ request' = [j \in Jobs |-> NoRequest]
    /\ queue' = << >> /\ asleep' = {}
    /\ pc' = [w \in Workers |-> "idle"]
    /\ job' = [w \in Workers |-> NoJob]
    /\ processing' = {} /\ found' = {} /\ raced' = {}
    /\ UNCHANGED <<refs, data, errors, calls, again, unseen>>

Next ==
    \/ \E r \in Refs : ProcessPoolMetadata(r) \/ TransactionEnds(r)
    \/ ScanUnfetchedMetadata \/ QueueUnfetched \/ CleanupProcessingMap
    \/ \E w \in Workers : Worker(w)
    \/ \E j \in Jobs : Wake(j)
    \/ Restart

\* The workers run and HTTP requests end by their timeout; the scanner's ticker goes on;
\* a channel serves those who wait to send in turn.  The certificate processor and the
\* clean-up of the map owe nothing.
Fairness ==
    /\ \A w \in Workers : WF_vars(Worker(w))
    /\ \A j \in Jobs : SF_vars(Wake(j))
    /\ WF_vars(ScanUnfetchedMetadata) /\ SF_vars(QueueUnfetched)

Spec == Init /\ [][Next]_vars /\ Fairness

-----------------------------------------------------------------------------
(* Properties                                                              *)

VarTypes ==
    /\ refs \subseteq Refs /\ writing \subseteq Refs \ refs
    /\ data \subseteq Refs /\ errors \subseteq Refs
    /\ request \in [Jobs -> Request \cup {NoRequest}]
    /\ queue \in Seq(Jobs) /\ Len(queue) <= QueueCap
    /\ asleep \subseteq Jobs
    /\ pc \in [Workers -> {"idle", "checked", "fetching", "failed"}]
    /\ job \in [Workers -> Jobs \cup {NoJob}]
    /\ processing \subseteq Urls /\ raced \subseteq Urls
    /\ found \subseteq refs /\ again \subseteq Refs /\ unseen \subseteq Refs
    /\ calls \in 0 .. MaxCalls /\ faults \in 0 .. MaxFaults

\* A request that is alive is in exactly one place
OnePlace ==
    /\ Jobs \ Free = ToSet(queue) \cup asleep \cup (Range(job) \ {NoJob})
    /\ IsInjective(queue)
    /\ ToSet(queue) \cap asleep = {}
    /\ \A w \in Workers :
          /\ job[w] = NoJob <=> pc[w] = "idle"
          /\ job[w] \notin ToSet(queue) \cup asleep
          /\ \A v \in Workers \ {w} : job[v] = job[w] => job[w] = NoJob

\* Every variable has its type, and requests are neither lost nor doubled between the
\* queue, the goroutines that sleep and the workers.
TypeOK == VarTypes /\ OnePlace

\* "Track URLs being processed" (fetcher.go:83): two workers fetch from one URL at a
\* time only if both had looked for it in the map before either entered it, or the
\* map was cleared meanwhile (fetcher.go:817), and no longer than these fetches last.
OneFetchPerUrl ==
    \A v, w \in Workers :
        v # w /\ pc[v] = "fetching" /\ pc[w] = "fetching" /\ Url[Held(v).ref] = Url[Held(w).ref]
            => Url[Held(w).ref] \in raced

\* A document and a permanent error are recorded for the same reference only if it was
\* asked for again while it was asked for, or settled: scans and pools that register
\* again ask without looking (fetcher.go:694, certificate_processor.go:471); or if the
\* reply to the document's INSERT was lost, so that the retries met its row.
OnlyCopiesContradict == data \cap errors \subseteq again \cup unseen

\* The last retry of a request has failed
LastFailure(j) ==
    \E w \in Workers : job[w] = j /\ pc[w] = "failed" /\ request[j].tries = MaxRetries

\* A request goes its way through queue, sleep and workers without its reference changing
\* or its retries beginning again, and ends only with the document stored or an error
\* recorded, unless the process exits or its last retry fails (fetcher.go, worker).
RequestsKept ==
    [][\A j \in Jobs \ Free :
          \/ /\ request'[j] # NoRequest
             /\ request'[j].ref = request[j].ref /\ request'[j].tries >= request[j].tries
          \/ /\ request'[j] = NoRequest
             /\ \/ request[j].ref \in Settled' \/ faults' > faults
                \/ LastFailure(j)]_vars

\* The database does not refuse the rows of errors for ever: not that of a text that is
\* too long, nor any other
RefusalsEnd == <>[][\A w \in Workers : ~RecordRefused(w)]_vars

\* Every reference that is stored ends up with its document or a recorded error, for good,
\* through a full queue, transactions that outlast the fetch, requests that sleep,
\* lost replies and a restart that forgets them: the scan finds it again, provided that
\* the refusals of error rows end.  (One reference whose error is always refused is asked
\* for by every scan, and can keep others out of the scan's limit and the queue.)
EveryReferenceSettles ==
    /\ RefusalsEnd => <>[](refs \subseteq Settled)
    /\ RequestsKept
=============================================================================
