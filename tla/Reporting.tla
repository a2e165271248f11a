----------------------------- MODULE Reporting -----------------------------
(***************************************************************************)
(* How log lines and errors reach the web dashboard, once it runs.  Every  *)
(* goroutine's log lines go, under the lock of Go's standard logger, to    *)
(* DashboardLogWriter, which makes errors of some and activities of the    *)
(* others; errors are kept once by the error system and handed to the      *)
(* dashboard through a channel; the dashboard broadcasts what it is given  *)
(* to the clients of a hub, whose channel is bounded, and logs a line when *)
(* that channel is full.                                                   *)
(***************************************************************************)
EXTENDS Naturals, FiniteSets, SequencesExt

CONSTANTS
    Loggers,            \* goroutines that log, report errors, add activities or figures
    Hub, Forwarder,     \* the hub's goroutine; the reader of dashboardErrorChan
    Clients,            \* WebSocket connections
    Errors,             \* errors by signature, those the filters let through
    Activity,           \* any other line
    BroadcastCap,       \* capacity of the hub's channel
    SendCap,            \* capacity of a client's channel
    PendingCap,         \* capacity of dashboardErrorChan
    MaxErrors,          \* maxErrors
    NoOne

Goroutines == Loggers \cup {Hub, Forwarder}

ASSUME ReportingAssumption ==
    /\ {BroadcastCap, SendCap, PendingCap, MaxErrors} \subseteq Nat \ {0}
    /\ Hub # Forwarder /\ {Hub, Forwarder} \cap Loggers = {}
    /\ NoOne \notin Goroutines /\ Activity \notin Errors

VARIABLES
    lock,           \* who holds the lock of the standard logger
    pc, line,       \* where each goroutine is in a call that reports, and with which line
    known,          \* the error system's map, the error seen longest ago first
    pending,        \* dashboardErrorChan
    broadcast,      \* the number of messages in the hub's channel
    clients,        \* the hub's map
    channel, buffer,    \* each client's send channel: is it open, how many messages
    reader, writer,     \* where each client's two goroutines are
    crashed         \* a send on a closed channel has ended the process

calls  == <<lock, pc, line>>
errors == <<known, pending>>
conns  == <<channel, buffer, reader, writer>>
vars   == <<calls, errors, broadcast, clients, conns, crashed>>

-----------------------------------------------------------------------------
(* The error system                                                        *)

\* cleanupOldErrors forgets the tenth of the errors seen longest ago, one at least
CleanedUp(k) ==
    LET n == IF Len(k) < 10 THEN 1 ELSE Len(k) \div 10
    IN  SubSeq(k, n + 1, Len(k))

\* An error counts as seen last
Seen(e) ==
    Append(IF e \in ToSet(known) THEN RemoveAt(known, CHOOSE i \in DOMAIN known : known[i] = e)
                                 ELSE known, e)

\* Mutant: the dashboard's callback waits for room
LogErrorWaits(e) ==
    /\ e \notin ToSet(known) => Len(pending) < PendingCap
    /\ known' = IF Len(Seen(e)) > MaxErrors /\ e \notin ToSet(known)
                  THEN CleanedUp(Seen(e)) ELSE Seen(e)
    /\ pending' = IF e \notin ToSet(known) THEN Append(pending, e) ELSE pending

\* LogError, under the system's own lock: a new error is sent on, if there is room
LogError(e) ==
    /\ known' = IF Len(Seen(e)) > MaxErrors /\ e \notin ToSet(known)
                  THEN CleanedUp(Seen(e)) ELSE Seen(e)
    /\ pending' = IF e \notin ToSet(known) /\ Len(pending) < PendingCap
                    THEN Append(pending, e) ELSE pending

\* Once a minute
BackgroundMaintenance ==
    /\ Len(known) > (MaxErrors * 9) \div 10
    /\ known' = CleanedUp(known)
    /\ UNCHANGED <<pending, calls, broadcast, clients, conns, crashed>>

-----------------------------------------------------------------------------
(* Calls that report                                                       *)

Goes(g, to) == pc' = [pc EXCEPT ![g] = to]

\* A call of log.Printf, which first waits for the lock
Logs(g, l) ==
    /\ Goes(g, "logs")
    /\ line' = [line EXCEPT ![g] = l]
    /\ UNCHANGED lock

\* The end of a call, of log.Printf when it holds the lock
Returns(g) ==
    /\ Goes(g, "idle")
    /\ lock' = IF lock = g THEN NoOne ELSE lock
    /\ line' = [line EXCEPT ![g] = Activity]

LogLine(g) ==
    /\ pc[g] = "idle"
    /\ \E l \in Errors \cup {Activity} : Logs(g, l)
    /\ UNCHANGED <<errors, broadcast, clients, conns, crashed>>

\* ProcessingError and its kin
Report(g) ==
    /\ pc[g] = "idle"
    /\ \E e \in Errors : LogError(e)
    /\ UNCHANGED <<calls, broadcast, clients, conns, crashed>>

\* logToActivity, or a figure of a ticker, goes to the dashboard without the logger
Update(g) ==
    /\ pc[g] = "idle"
    /\ Goes(g, "sends")
    /\ UNCHANGED <<lock, line, errors, broadcast, clients, conns, crashed>>

\* log.Logger takes its lock and calls Write
TakeLock(g) ==
    /\ pc[g] \in {"logs", "warns"}
    /\ lock = NoOne
    /\ lock' = g
    /\ Goes(g, "writes")
    /\ line' = [line EXCEPT ![g] = IF pc[g] = "warns" THEN Activity ELSE @]
    /\ UNCHANGED <<errors, broadcast, clients, conns, crashed>>

\* DashboardLogWriter.Write: an error, an activity, or a line that is passed over
Write(g) ==
    /\ pc[g] = "writes"
    /\ \/ line[g] \in Errors /\ LogError(line[g]) /\ Returns(g)
       \/ line[g] = Activity /\ Goes(g, "sends") /\ UNCHANGED <<lock, line, errors>>
       \/ line[g] = Activity /\ Returns(g) /\ UNCHANGED errors
    /\ UNCHANGED <<broadcast, clients, conns, crashed>>

\* Mutant: the update waits for room
BroadcastWaits(g) ==
    /\ pc[g] = "sends"
    /\ broadcast < BroadcastCap
    /\ broadcast' = broadcast + 1
    /\ Returns(g)
    /\ UNCHANGED <<errors, clients, conns, crashed>>

\* The update is sent, or skipped with a line in the log
BroadcastUpdate(g) ==
    /\ pc[g] = "sends"
    /\ IF broadcast < BroadcastCap
         THEN broadcast' = broadcast + 1 /\ Returns(g)
         ELSE Goes(g, "warns") /\ UNCHANGED <<lock, line, broadcast>>
    /\ UNCHANGED <<errors, clients, conns, crashed>>

\* The goroutine between error system and dashboard
Forward ==
    /\ pc[Forwarder] = "idle"
    /\ pending # << >>
    /\ pending' = Tail(pending)
    /\ Goes(Forwarder, "sends")
    /\ UNCHANGED <<lock, line, known, broadcast, clients, conns, crashed>>

-----------------------------------------------------------------------------
(* The hub and its clients                                                 *)

\* HandleWebSocket: a connection waits for the hub to take it
Connect(c) ==
    /\ reader[c] = "none"
    /\ reader' = [reader EXCEPT ![c] = "registering"]
    /\ channel' = [channel EXCEPT ![c] = "open"]
    /\ UNCHANGED <<calls, errors, broadcast, clients, buffer, writer, crashed>>

\* The hub takes it, its goroutines start, and the hub logs that
Register(c) ==
    /\ pc[Hub] = "idle"
    /\ reader[c] = "registering"
    /\ clients' = clients \cup {c}
    /\ reader' = [reader EXCEPT ![c] = "reads"]
    /\ writer' = [writer EXCEPT ![c] = "runs"]
    /\ Logs(Hub, Activity)
    /\ UNCHANGED <<errors, broadcast, channel, buffer, crashed>>

\* Mutant: the hub closes the channel of a client it has dropped before
UnregisterAnyway(c) ==
    /\ pc[Hub] = "idle"
    /\ reader[c] = "leaves"
    /\ reader' = [reader EXCEPT ![c] = "gone"]
    /\ crashed' = (channel[c] = "closed")
    /\ clients' = clients \ {c}
    /\ channel' = [channel EXCEPT ![c] = "closed"]
    /\ Logs(Hub, Activity)
    /\ UNCHANGED <<errors, broadcast, buffer, writer>>

\* The hub lets a client go, unless it has dropped it before
Unregister(c) ==
    /\ pc[Hub] = "idle"
    /\ reader[c] = "leaves"
    /\ reader' = [reader EXCEPT ![c] = "gone"]
    /\ IF c \in clients
         THEN /\ clients' = clients \ {c}
              /\ channel' = [channel EXCEPT ![c] = "closed"]
              /\ Logs(Hub, Activity)
         ELSE UNCHANGED <<clients, channel, calls>>
    /\ UNCHANGED <<errors, broadcast, buffer, writer, crashed>>

\* The hub hands a message to its clients and drops those whose channel is full
Deliver ==
    /\ pc[Hub] = "idle"
    /\ broadcast > 0
    /\ broadcast' = broadcast - 1
    /\ LET full == {c \in clients : buffer[c] = SendCap}
       IN  /\ clients' = clients \ full
           /\ channel' = [c \in Clients |-> IF c \in full THEN "closed" ELSE channel[c]]
           /\ buffer' = [c \in Clients |-> IF c \in clients \ full THEN buffer[c] + 1 ELSE buffer[c]]
           /\ crashed' = (\E c \in clients : channel[c] = "closed")
    /\ UNCHANGED <<calls, errors, reader, writer>>

\* A client's ping is answered through its channel, waiting for room; a closed channel
\* ends the process.
Ping(c) ==
    /\ reader[c] = "reads"
    /\ reader' = [reader EXCEPT ![c] = "answers"]
    /\ UNCHANGED <<calls, errors, broadcast, clients, channel, buffer, writer, crashed>>

Pong(c) ==
    /\ reader[c] = "answers"
    /\ \/ /\ channel[c] = "closed"
          /\ crashed' = TRUE
          /\ UNCHANGED <<reader, buffer>>
       \/ /\ channel[c] = "open" /\ buffer[c] < SendCap
          /\ buffer' = [buffer EXCEPT ![c] = @ + 1]
          /\ reader' = [reader EXCEPT ![c] = "reads"]
          /\ UNCHANGED crashed
    /\ UNCHANGED <<calls, errors, broadcast, clients, channel, writer>>

\* Mutant: the reader ends without a word to the hub
ReadFailsQuietly(c) ==
    /\ reader[c] = "reads"
    /\ reader' = [reader EXCEPT ![c] = "gone"]
    /\ UNCHANGED <<calls, errors, broadcast, clients, channel, buffer, writer, crashed>>

\* The browser leaves, or is silent for sixty seconds, or the connection is closed
ReadFails(c) ==
    /\ reader[c] = "reads"
    /\ reader' = [reader EXCEPT ![c] = "leaves"]
    /\ UNCHANGED <<calls, errors, broadcast, clients, channel, buffer, writer, crashed>>

\* writePump sends what is in the channel; a message or a ping that cannot be sent and
\* a closed channel end it
WritePump(c) ==
    /\ writer[c] = "runs"
    /\ \/ /\ buffer[c] > 0
          /\ buffer' = [buffer EXCEPT ![c] = @ - 1]
          /\ UNCHANGED writer
       \/ /\ writer' = [writer EXCEPT ![c] = "ended"]
          /\ UNCHANGED buffer
    /\ UNCHANGED <<calls, errors, broadcast, clients, channel, reader, crashed>>

-----------------------------------------------------------------------------

Init ==
    /\ lock = NoOne
    /\ pc = [g \in Goroutines |-> "idle"]
    /\ line = [g \in Goroutines |-> Activity]
    /\ known = << >> /\ pending = << >>
    /\ broadcast = 0
    /\ clients = {}
    /\ channel = [c \in Clients |-> "none"]
    /\ buffer = [c \in Clients |-> 0]
    /\ reader = [c \in Clients |-> "none"]
    /\ writer = [c \in Clients |-> "none"]
    /\ crashed = FALSE

Speaks(g) == Write(g) \/ BroadcastUpdate(g)

HubSteps == Deliver \/ \E c \in Clients : Register(c) \/ Unregister(c)

Client(c) == Connect(c) \/ Ping(c) \/ Pong(c) \/ ReadFails(c) \/ WritePump(c)

Next ==
    /\ ~crashed
    /\ \/ BackgroundMaintenance
       \/ \E g \in Loggers : LogLine(g) \/ Report(g) \/ Update(g)
       \/ \E g \in Goroutines : TakeLock(g) \/ Speaks(g)
       \/ Forward
       \/ HubSteps
       \/ \E c \in Clients : Client(c)

\* A mutex and a channel serve those who wait in turn, select takes each ready case in
\* the long run; goroutines run on.  Nobody has to log or connect.
Fairness ==
    /\ \A g \in Goroutines : SF_vars(~crashed /\ TakeLock(g)) /\ WF_vars(~crashed /\ Speaks(g))
    /\ WF_vars(~crashed /\ Forward) /\ SF_vars(~crashed /\ Deliver)
    /\ \A c \in Clients :
          /\ SF_vars(~crashed /\ Unregister(c))
          /\ WF_vars(~crashed /\ writer[c] = "ended" /\ ReadFails(c))

Spec == Init /\ [][Next]_vars /\ Fairness

-----------------------------------------------------------------------------
(* Properties                                                              *)

\* A goroutine that holds the logger's lock waits for it
Jammed == \E g \in Goroutines : lock = g /\ pc[g] = "warns"

\* Types, and that no channel or map holds more than its bound, the map no error twice
TypeOK ==
    /\ lock \in Goroutines \cup {NoOne}
    /\ pc \in [Goroutines -> {"idle", "logs", "writes", "sends", "warns"}]
    /\ line \in [Goroutines -> Errors \cup {Activity}]
    /\ known \in Seq(Errors) /\ Len(known) <= MaxErrors /\ IsInjective(known)
    /\ pending \in Seq(Errors) /\ Len(pending) <= PendingCap
    /\ broadcast \in 0 .. BroadcastCap
    /\ clients \subseteq Clients
    /\ channel \in [Clients -> {"none", "open", "closed"}]
    /\ buffer \in [Clients -> 0 .. SendCap]
    /\ reader \in [Clients -> {"none", "registering", "reads", "answers", "leaves", "gone"}]
    /\ writer \in [Clients -> {"none", "runs", "ended"}]
    /\ crashed \in BOOLEAN

\* The hub serves exactly the clients whose channel is open: it neither sends on nor
\* closes a closed channel (websocket.go:59), so only the answer to a ping, which does
\* not go through the hub, can end the process (websocket.go:158).
OnlyPongsCrash ==
    /\ clients = {c \in Clients : channel[c] = "open" /\ reader[c] # "registering"}
    /\ crashed => \E c \in Clients : reader[c] = "answers" /\ channel[c] = "closed"

\* Such a goroutine has the lock for ever, and so waits whoever waits for it; when the hub
\* does (websocket.go:56, it logs each client), no message leaves its channel and no
\* client its map any more.
JamsForGood ==
    [][Jammed =>
          /\ Jammed' /\ UNCHANGED lock
          /\ \A g \in Goroutines : pc[g] \in {"logs", "warns"} => pc'[g] = pc[g]
          /\ pc[Hub] \in {"logs", "warns"} => clients' = clients /\ broadcast' >= broadcast]_vars

\* Whoever logs gets on, unless a goroutine has found the hub's channel full while it
\* wrote a line of the log (websocket.go:99, main.go:439), and then nobody does.
LogsEnd ==
    /\ \A g \in Loggers : pc[g] = "logs" ~> pc[g] = "idle" \/ Jammed \/ crashed
    /\ JamsForGood

\* An error handed to the dashboard's channel gets out of it, unless logging has stopped:
\* the error system does not wait for the goroutine that reads the channel, which may
\* itself have to log (main.go:847-890).
ErrorsReachDashboard ==
    \A e \in Errors : e \in ToSet(pending) ~> e \notin ToSet(pending) \/ Jammed \/ crashed

\* A client whose connection has ended leaves the hub.
ClientsLeave ==
    \A c \in Clients : writer[c] = "ended" ~> c \notin clients \/ Jammed \/ crashed \/ reader[c] = "answers"
=============================================================================
