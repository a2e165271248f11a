-------------------------------- MODULE Startup --------------------------------
(***************************************************************************)
(* The life of the process (src/main.go: main, NewReferenceAlignedIndexer, *)
(* Start, Shutdown): from the configuration to the workers, and down again *)
(* by an error, a panic or a signal.  Three goroutines matter: main, the   *)
(* one that runs Start, and the one Start leaves behind to start the state *)
(* query service once the chain is past Byron.  The service itself is      *)
(* StateQuery, here with the process around it.                            *)
(*                                                                         *)
(* What the workers do is the subject of BlockIndexer; here they only make *)
(* the chain grow, and they end when the context is cancelled.             *)
(***************************************************************************)
EXTENDS Configuration, FiniteSets

CONSTANTS
  Pools, Epochs, Slots, RegisteredAt, Members, MaxFaults,   \* see StateQuery
  Files,       \* the configuration files considered
  Environments,\* the environments considered
  BlockWorkers,\* the size of the pool of block workers, 8 in Start
  MaxRuns,     \* bound: times the process is started
  MaxFailures  \* bound: failing requests and statements of main and Start

ASSUME StartupConstants ==
  /\ Epochs \subseteq Nat /\ Slots \subseteq Nat
  /\ RegisteredAt \in [Pools -> Nat] /\ Members \in [Epochs -> SUBSET Pools]
  /\ Files \subseteq FileSettings /\ Environments \subseteq Environment
  /\ BlockWorkers \in Nat \ {0}
  /\ {MaxFaults, MaxRuns, MaxFailures} \subseteq Nat

VARIABLES
  stored, reached, known, nodeEpoch, client, at, epochNo, lastEpoch, answer,
  stakes, warned, passed, done, faults,                     \* see StateQuery
  main,        \* where main is; "down" when there is no process
  exit,        \* how the last run ended
  runs,        \* runs so far
  cfg,         \* the loaded configuration, until it is applied
  clear,       \* --clear-shelley is given
  workers,     \* workers of the configuration, then their connections
  dashboard,   \* its type, "none" when disabled
  display,     \* "off", "started" or "running"
  service,     \* the state query service, as main and the starter see it
  logs,        \* the messages of main's and of the constructor's buffer
  jammed,      \* a goroutine has the logger's lock and waits for it (Reporting)
  starting,    \* where the goroutine that runs Start is
  link,        \* the connection to the node: "none", "open" or "closed"
  queue,       \* the block queue exists
  running,     \* block workers that run
  cancelled,   \* the indexer's context is cancelled
  failures

Query == INSTANCE StateQuery

query == <<stored, reached, known, nodeEpoch, client, at, epochNo, lastEpoch, answer,
           stakes, warned, passed, done, faults>>
inputs == <<runs, cfg, clear>>
parts == <<workers, dashboard, display, logs>>
startVars == <<starting, link, queue, running>>
process == <<main, exit, inputs, parts, service, startVars, cancelled, jammed, failures>>
vars == <<query, process>>

NoLogs == [main |-> "none", constructor |-> "none"]

\* The process is gone: with it its goroutines, and what a buffer held.
Exit(how) ==
  /\ main' = "down" /\ exit' = how
  /\ cfg' = {} /\ clear' = FALSE /\ workers' = 0
  /\ dashboard' = "none" /\ display' = "off"
  /\ service' = "absent"
  /\ logs' = [m \in DOMAIN logs |-> IF logs[m] = "held" THEN "lost" ELSE logs[m]]
  /\ starting' = "no" /\ link' = "none" /\ queue' = FALSE /\ running' = 0
  /\ cancelled' = FALSE
  /\ UNCHANGED runs

\* A request or a statement of the start-up that fails.
Failing == failures < MaxFailures /\ failures' = failures + 1 /\ UNCHANGED jammed
Fine == UNCHANGED <<failures, jammed>>

Init ==
  /\ Query!Init
  /\ main = "down" /\ exit = "none" /\ runs = 0
  /\ cfg = {} /\ clear = FALSE
  /\ workers = 0 /\ dashboard = "none" /\ display = "off"
  /\ service = "absent" /\ logs = NoLogs
  /\ starting = "no" /\ link = "none" /\ queue = FALSE /\ running = 0
  /\ cancelled = FALSE /\ jammed = FALSE /\ failures = 0

-----------------------------------------------------------------------------
(* main *)

\* The file is read, the environment put over it, the result checked.
LoadConfig ==
  /\ main = "down" /\ runs < MaxRuns /\ runs' = runs + 1
  /\ clear' \in BOOLEAN /\ logs' = NoLogs
  /\ \E file \in Files, env \in Environments :
       IF Valid(Overridden(file, env))
         THEN cfg' = Overridden(file, env) /\ main' = "apply" /\ exit' = "none"
         ELSE cfg' = {} /\ main' = "down" /\ exit' = "fatal"
  /\ UNCHANGED <<workers, dashboard, display, service, startVars, cancelled>>
  /\ Fine

\* Connections are divided by workers: none is a panic, fewer than none are not
\* noticed.  From here on the log is held back in a buffer of main.
ApplyConfig ==
  /\ main = "apply"
  /\ IF ActiveWorkers(cfg) = 0
       THEN Exit("panic")
       ELSE /\ workers' = ActiveWorkers(cfg)
            /\ dashboard' = Dashboard(cfg)
            /\ cfg' = {} /\ main' = "migrate"
            /\ logs' = [logs EXCEPT !.main = "held"]
            /\ UNCHANGED <<exit, runs, clear, display, service, startVars, cancelled>>
  /\ Fine

\* Tables and, when it can be had, the connection main goes on with.  What
\* fails on the way to indexes, replicas and statistics is only logged.
OpenDatabase ==
  \/ /\ main = "migrate" /\ main' = "clear"
     /\ UNCHANGED <<exit, inputs, parts, service, startVars, cancelled>> /\ Fine
  \/ main = "migrate" /\ Exit("fatal") /\ Failing

\* The statements of the cleanup name columns that the tables do not have
\* (multi_assets.tx_out_id is the first): with a Shelley block in the table
\* the first of them fails, and takes the start-up with it.
ClearShelleyData ==
  /\ main = "clear"
  /\ \/ clear /\ reached > 4492799 /\ Exit("fatal") /\ Fine
     \/ clear /\ Exit("fatal") /\ Failing
     \/ /\ clear => stored <= 4492799
        /\ main' = "construct" /\ clear' = FALSE
        /\ UNCHANGED <<exit, runs, cfg, parts, service, startVars, cancelled>> /\ Fine

\* A web server that cannot be set up leaves the terminal, or nothing.
Dashboards(type) ==
  {type} \cup CASE type = "both" -> {"terminal"} [] type = "web" -> {"none"} [] OTHER -> {}

\* NewReferenceAlignedIndexer: the dashboard, one connection for each worker
\* or none at all, and with connections of their own, if they get them, the
\* metadata fetcher (MetadataFetcher) and the state query service.  Its
\* messages go to the dashboard's list of activities, which only the web keeps.
NewIndexer ==
  /\ main = "construct" /\ workers >= 0
  /\ \/ dashboard' = dashboard /\ service' = "made" /\ Fine
     \/ /\ dashboard' \in Dashboards(dashboard) /\ service' \in {"made", "absent"}
        /\ Failing
  /\ logs' = [logs EXCEPT !.constructor =
                IF dashboard' \in {"web", "both"} THEN "shown" ELSE "lost"]
  /\ main' = "flush"
  /\ UNCHANGED <<exit, inputs, workers, display, startVars, cancelled>>

\* The same, when a worker's connection cannot be had.
NewIndexerFails == main = "construct" /\ workers >= 0 /\ Exit("fatal") /\ Failing

\* The list of connections is made with room for the workers: panic if that is negative.
NewIndexerPanics == main = "construct" /\ workers < 0 /\ Exit("panic") /\ Fine

\* Mutant: what main held back stays in its buffer.
GoOnlineMute ==
  /\ main = "flush" /\ main' = "wait"
  /\ starting' = "connect"
  /\ UNCHANGED <<exit, inputs, parts, service, link, queue, running, cancelled>>
  /\ Fine

\* What main held back goes through the dashboard's writer, which passes it to
\* the terminal since no dashboard runs yet; signals are asked for; Start
\* begins in a goroutine.
GoOnline ==
  /\ main = "flush" /\ main' = "wait"
  /\ logs' = [logs EXCEPT !.main = "shown"]
  /\ starting' = "connect"
  /\ UNCHANGED <<exit, inputs, workers, dashboard, display, service,
                 link, queue, running, cancelled>>
  /\ Fine

\* Before main has asked for signals they end the process at once.
Killed ==
  /\ main \in {"apply", "migrate", "clear", "construct", "flush"}
  /\ Exit("killed") /\ Fine

\* Start came back with an error, which is logged before the process ends.
StartFailed == main = "wait" /\ starting = "failed" /\ ~jammed /\ Exit("fatal") /\ Fine

\* A signal, for which main has asked, ...
Signal ==
  /\ main = "wait" /\ main' = "told"
  /\ UNCHANGED <<exit, inputs, parts, service, startVars, cancelled>> /\ Fine

\* ... is logged first; then Shutdown cancels the context, ...
Shutdown ==
  /\ main = "told" /\ ~jammed
  /\ main' = "close" /\ cancelled' = TRUE
  /\ UNCHANGED <<exit, inputs, parts, service, startVars>> /\ Fine

\* Mutant: without a connection it waits for one.
CloseConnectionWaits ==
  /\ main = "close" /\ main' = "stop"
  /\ link = "open" /\ link' = "closed"
  /\ UNCHANGED <<exit, inputs, parts, service, starting, queue, running, cancelled>> /\ Fine

\* ... closes the connection there is at that moment, ...
CloseConnection ==
  /\ main = "close" /\ main' = "stop"
  /\ link' = IF link = "open" THEN "closed" ELSE link
  /\ UNCHANGED <<exit, inputs, parts, service, starting, queue, running, cancelled>> /\ Fine

\* ... stops the dashboard, whose web server logs that, and the process ends,
\* with workers, fetcher and state query where they are.
Leave == main = "stop" /\ ~jammed /\ Exit("clean") /\ Fine

\* While a web dashboard runs a goroutine may find the hub's channel full as it
\* writes a line of the log, and nobody can log any more (see Reporting).
LoggerJams ==
  /\ display = "running" /\ dashboard \in {"web", "both"}
  /\ ~jammed /\ jammed' = TRUE
  /\ UNCHANGED <<main, exit, inputs, parts, service, startVars, cancelled, failures>>

Main ==
  \/ /\ \/ ApplyConfig \/ OpenDatabase \/ ClearShelleyData \/ NewIndexer \/ NewIndexerFails
        \/ NewIndexerPanics \/ GoOnline \/ Shutdown \/ CloseConnection
     /\ UNCHANGED query
  \/ (StartFailed \/ Leave) /\ (IF at = "off" THEN UNCHANGED query ELSE Query!End)

-----------------------------------------------------------------------------
(* Start *)

Step(from, to) == starting = from /\ starting' = to

\* Find the socket, connect, keep the connection; Shutdown may have passed.
Connect ==
  \/ /\ Step("connect", "services") /\ link' = "open"
     /\ UNCHANGED <<main, exit, inputs, parts, service, queue, running, cancelled>> /\ Fine
  \/ /\ Step("connect", "failed")
     /\ UNCHANGED <<main, exit, inputs, parts, service, link, queue, running, cancelled>>
     /\ Failing

\* Counts for the display are read; the fetcher's goroutines begin; a
\* goroutine is left behind that will start the state query service.
StartServices ==
  /\ Step("services", "dashboard")
  /\ service' = IF service = "made" THEN "waiting" ELSE service
  /\ UNCHANGED <<main, exit, inputs, workers, dashboard, display, logs,
                 link, queue, running, cancelled>>
  /\ Fine

\* A port that is taken is a line in the log: no first start fails.
StartDashboard ==
  /\ \/ /\ dashboard = "none" /\ Step("dashboard", "workers") /\ UNCHANGED display
     \/ dashboard # "none" /\ Step("dashboard", "stabilise") /\ display' = "started"
     \/ Step("stabilise", "workers") /\ display' = "running"
  /\ UNCHANGED <<main, exit, inputs, workers, dashboard, logs, service,
                 link, queue, running, cancelled>>
  /\ Fine

\* Mutant: every worker runs.
StartAllBlockWorkers ==
  /\ Step("workers", "sync")
  /\ queue' = TRUE /\ running' = BlockWorkers
  /\ UNCHANGED <<main, exit, inputs, parts, service, link, cancelled>> /\ Fine

\* The queue and the pool of block workers, whatever was configured; a worker
\* beyond the connections ends at once.
StartBlockWorkers ==
  /\ Step("workers", "sync")
  /\ queue' = TRUE /\ running' = Lesser(BlockWorkers, workers)
  /\ UNCHANGED <<main, exit, inputs, parts, service, link, cancelled>> /\ Fine

\* ChainSync needs the connection still to be there.
StartChainSync ==
  /\ \/ link = "open" /\ Step("sync", "working") /\ Fine
     \/ link # "open" /\ Step("sync", "failed") /\ Fine
     \/ link = "open" /\ Step("sync", "failed") /\ Failing
  /\ UNCHANGED <<main, exit, inputs, parts, service, link, queue, running, cancelled>>

\* A worker sees the cancelled context.
WorkerEnds ==
  /\ cancelled /\ running > 0 /\ running' = running - 1
  /\ UNCHANGED <<main, exit, inputs, parts, service, starting, link, queue, cancelled>> /\ Fine

\* Start waits for the last of them and returns without an error: main, which
\* listens for errors only, is not told.
StartReturns ==
  /\ running = 0 /\ Step("working", "returned")
  /\ UNCHANGED <<main, exit, inputs, parts, service, link, queue, running, cancelled>> /\ Fine

Start ==
  /\ Connect \/ StartServices \/ StartDashboard \/ StartBlockWorkers \/ StartChainSync
  /\ UNCHANGED query

-----------------------------------------------------------------------------
(* The goroutine that starts the state query service *)

BecomesService(s) ==
  /\ service' = s
  /\ UNCHANGED <<main, exit, inputs, parts, startVars, cancelled>>

\* Mutant: an error passes for a chain past Byron.
LookAtChainBlind ==
  /\ service = "waiting"
  /\ \/ cancelled /\ BecomesService("left") /\ Fine
     \/ BecomesService(IF stored <= 4492799 THEN "delayed" ELSE "starting") /\ Fine
     \/ BecomesService("starting") /\ Failing
  /\ UNCHANGED query

\* After half a minute it looks once at the highest stored slot, and takes an
\* error for slot 0; up to the last slot of Byron it leaves for good.
LookAtChain ==
  /\ service = "waiting"
  /\ \/ cancelled /\ BecomesService("left") /\ Fine
     \/ BecomesService(IF stored <= 4492799 THEN "delayed" ELSE "starting") /\ Fine
     \/ BecomesService("delayed") /\ Failing
  /\ UNCHANGED query

StartService ==
  /\ service = "starting"
  /\ \/ BecomesService("started") /\ Fine /\ Query!Connect
     \/ BecomesService("failed") /\ Failing /\ UNCHANGED query

\* The service's own steps and what moves around it; the chain moves only
\* under workers that run.
QueryRuns == Query!Loop /\ UNCHANGED process
WorldMoves ==
  /\ \/ Query!LoseClient \/ Query!NodeAdvances
     \/ /\ starting = "working" /\ running > 0
        /\ Query!ChainGrows \/ Query!ChainRollsBack \/ Query!PoolRegistered
  /\ UNCHANGED process

Next ==
  \/ Main \/ Start
  \/ (LoadConfig \/ Killed \/ Signal \/ LoggerJams \/ WorkerEnds \/ StartReturns)
     /\ UNCHANGED query
  \/ LookAtChain \/ StartService \/ QueryRuns \/ WorldMoves

\* Every goroutine is scheduled, and all of them log: once that is jammed none
\* owes a step.  Nobody has to start or to stop the process.
Spec ==
  /\ Init /\ [][Next]_vars
  /\ WF_vars(~jammed /\ Main) /\ WF_vars(~jammed /\ Start)
  /\ WF_vars(~jammed /\ (LookAtChain \/ StartService))
  /\ WF_vars(~jammed /\ QueryRuns)

-----------------------------------------------------------------------------
\* Every variable of the process has its type; the service's are StateQuery's.
TypeOK ==
  /\ main \in {"down", "apply", "migrate", "clear", "construct", "flush", "wait",
               "told", "close", "stop"}
  /\ exit \in {"none", "fatal", "panic", "killed", "clean"}
  /\ runs \in 0 .. MaxRuns /\ clear \in BOOLEAN
  /\ workers \in Int /\ dashboard \in DashboardTypes
  /\ display \in {"off", "started", "running"}
  /\ service \in {"absent", "made", "waiting", "delayed", "left", "starting", "failed", "started"}
  /\ logs \in [{"main", "constructor"} -> {"none", "held", "shown", "lost"}]
  /\ starting \in {"no", "connect", "services", "dashboard", "stabilise", "workers",
                   "sync", "working", "failed", "returned"}
  /\ link \in {"none", "open", "closed"} /\ queue \in BOOLEAN
  /\ running \in 0 .. BlockWorkers /\ cancelled \in BOOLEAN /\ jammed \in BOOLEAN
  /\ failures \in 0 .. MaxFailures

\* Whatever combination of old and new names, of file and environment there
\* is, a process that gets past the constructor has at least one worker and as
\* many as the operator allows.  The check at config.go:272 lets two mistakes
\* through, and both end in a panic: a limit given without the manual number of
\* the manual mode in the division at main.go:636, and a negative number in the
\* constructor, at tidb.go:307.
LimitsKept ==
  [][/\ main = "apply" =>
          \/ main' = "migrate" /\ workers' \in 1 .. WorkerLimit(cfg)
          \/ main' = "migrate" /\ workers' < 0 /\ NegativeWorkers(cfg)
          \/ main' = "down" /\ exit' = "panic" /\ NoWorkers(cfg)
          \/ main' = "down" /\ exit' = "killed"
          \/ main' = "apply"
     /\ main = "construct" =>
          \/ main' = "flush" /\ workers' >= 1
          \/ main' = "down" /\ (exit' = "panic" => workers < 0)
          \/ main' = "construct"]_vars

\* Once Start has reached ChainSync, and until a signal, there is at least one
\* worker, each on a connection of its own (main.go:1109 asks for eight, the
\* configuration decides about the connections), the queue they read is there
\* before the first block can come, and display and state query are under way.
UpAndWorking ==
  starting \in {"sync", "working"} /\ ~cancelled =>
    /\ queue /\ link = "open"
    /\ 1 <= running /\ running <= workers
    /\ display \in {"off", "running"} /\ (display = "off" <=> dashboard = "none")
    /\ service # "made"

\* What main held back is lost only with a start-up that fails or is killed,
\* the constructor's messages only with it or where no web page keeps them.
MessagesKept ==
  /\ logs.main = "lost" => exit \in {"fatal", "killed", "panic"}
  /\ main \in {"wait", "told", "close", "stop"} =>
       /\ logs.main = "shown"
       /\ logs.constructor = IF dashboard \in {"web", "both"} THEN "shown" ELSE "lost"

\* A process whose Start fails ends, and so does one that got a signal, whatever
\* Start is doing then, unless logging has stopped: main logs before it shuts down
\* (main.go:774, 776), and catches the signals that would end the process.
EndsWhenAsked ==
  (main \in {"told", "close", "stop"} \/ starting = "failed") ~> main = "down" \/ jammed

\* The state query service inside the process, started by the goroutine that
\* Start leaves behind and ended with the process, is the one of StateQuery; its
\* loop goes on as StateQuery has it unless logging has stopped (service.go:199).
ServiceIsStateQuery ==
  /\ Query!Init /\ [][Query!Next]_Query!queryVars
  /\ <>[]jammed \/ WF_Query!queryVars(Query!Loop)
=============================================================================
