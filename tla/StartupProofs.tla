----------------------------- MODULE StartupProofs -----------------------------
(***************************************************************************)
(* Proofs about Startup, for any settings, environments, numbers of        *)
(* workers and chains.  The inductive invariant says, for each place main  *)
(* and Start can be at, what the places before have left behind.           *)
(***************************************************************************)
EXTENDS Startup, TLAPS

Prepared == {"migrate", "clear", "construct", "flush"}
AtWork == {"wait", "told", "close", "stop"}

\* The settings that are applied have been checked; a negative number of workers
\* gets as far as the constructor.
SettingsInv ==
  /\ dashboard \in DashboardTypes /\ workers \in Int
  /\ main = "apply" => cfg \in FileSettings /\ Valid(cfg)
  /\ main \in Prepared => workers # 0
  /\ main \in AtWork \cup {"flush"} => workers >= 1

\* Start runs only while main waits or shuts down, and a signal comes first.
OrderInv ==
  /\ starting # "no" => main \in AtWork
  /\ main \in {"close", "stop"} => cancelled

\* What Start has done when it is at a place.
ProgressInv ==
  /\ starting \in {"services", "dashboard", "stabilise", "workers", "sync", "working"} =>
       cancelled \/ link = "open"
  /\ starting \in {"no", "connect", "services", "dashboard"} => display = "off"
  /\ starting = "stabilise" => dashboard # "none"
  /\ starting \in {"workers", "sync", "working"} =>
       display \in {"off", "running"} /\ (display = "off" <=> dashboard = "none")
  /\ starting \in {"dashboard", "stabilise", "workers", "sync", "working"} => service # "made"
  /\ starting \in {"sync", "working"} =>
       queue /\ (cancelled \/ running = Lesser(BlockWorkers, workers))

Constructed == IF dashboard \in {"web", "both"} THEN "shown" ELSE "lost"

\* Where the two buffers are.
LogsInv ==
  /\ logs \in [{"main", "constructor"} -> {"none", "held", "shown", "lost"}]
  /\ main = "apply" => logs["main"] = "none"
  /\ main \in AtWork => logs["main"] = "shown"
  /\ main \in AtWork \cup {"flush"} => logs["constructor"] = Constructed
  /\ logs["main"] = "lost" => main = "down" /\ exit \in {"fatal", "killed", "panic"}

\* The chain, and what is known of it when the service is about to start.
ChainInv ==
  /\ stored \in Slots /\ reached \in Slots /\ stored <= reached
  /\ service = "starting" => reached > 4492799

ProcessInv == SettingsInv /\ OrderInv /\ ProgressInv /\ LogsInv
StartupInv == ProcessInv /\ ChainInv

-----------------------------------------------------------------------------
(* The numbers *)

\* Old numbers and new: what counts is the limit the operator gave.
LEMMA MigratedLimit ==
    ASSUME NEW c \in FileSettings, Valid(c)
    PROVE  /\ Migrated(c).max_workers =
                IF c.max_workers # 0 THEN c.max_workers ELSE c.worker_count
           /\ Migrated(c).manual_workers =
                IF c.max_workers # 0 THEN c.manual_workers ELSE c.worker_count
  BY DEF Migrated, Valid, FileSettings

\* The number of workers, by the mode: between one and the limit, or none for want
\* of a number, or a negative one.
LEMMA WorkersOfMode ==
    ASSUME NEW c \in FileSettings, Valid(c)
    PROVE  /\ ActiveWorkers(c) \in Int
           /\ \/ ActiveWorkers(c) \in 1 .. WorkerLimit(c)
              \/ ActiveWorkers(c) = 0 /\ NoWorkers(c)
              \/ ActiveWorkers(c) < 0 /\ NegativeWorkers(c)
<1> DEFINE m == Migrated(c)
<1>1. /\ m.max_workers = IF c.max_workers # 0 THEN c.max_workers ELSE c.worker_count
      /\ m.manual_workers = IF c.max_workers # 0 THEN c.manual_workers ELSE c.worker_count
  BY MigratedLimit
<1>2. /\ c.worker_count > 0 /\ c.worker_count \in Int
      /\ c.max_workers \in Int /\ c.manual_workers \in Int
  BY DEF Valid, FileSettings
<1> HIDE DEF m
<1>3. CASE c.mode = "manual"
  BY <1>1, <1>2, <1>3
     DEF ActiveWorkers, ManualWorkers, Lesser, WorkerLimit, NoWorkers, NegativeWorkers, m
<1>4. CASE c.mode = "aggressive"
  BY <1>1, <1>2, <1>4 DEF ActiveWorkers, AggressiveWorkers, WorkerLimit, NegativeWorkers, m
<1>5. CASE c.mode = "conservative"
  <2>1. ActiveWorkers(c) = Greater(4, m.max_workers \div 4)
    BY <1>5 DEF ActiveWorkers, ConservativeWorkers, m
  <2>2. WorkerLimit(c) = Greater(4, m.max_workers)
    BY <1>1, <1>5 DEF WorkerLimit
  <2>3. m.max_workers \in Int
    BY <1>1, <1>2
  <2> QED
    BY <2>1, <2>2, <2>3 DEF Greater
<1>6. CASE c.mode \notin {"manual", "aggressive", "conservative"}
  BY <1>1, <1>2, <1>6
     DEF ActiveWorkers, EraAwareWorkers, Lesser, WorkerLimit, NegativeWorkers, m
<1> QED
  BY <1>3, <1>4, <1>5, <1>6

\* What the environment is put over stays a setting.
LEMMA OverriddenIsSetting ==
    ASSUME NEW file \in FileSettings, NEW env \in Environment
    PROVE  Overridden(file, env) \in FileSettings
<1>1. /\ (IF env.worker_count > 0 THEN env.worker_count ELSE file.worker_count) \in Int
      /\ (IF env.dashboard = "unset" THEN file.dashboard ELSE env.dashboard) \in DashboardTypes
      /\ (file.enabled /\ env.dashboard # "none" /\ ~env.no_dashboard) \in BOOLEAN
  BY DEF FileSettings, Environment
<1> QED
  BY <1>1 DEF Overridden, FileSettings

-----------------------------------------------------------------------------
(* The service as StateQuery has it *)

\* The service's steps leave the chain alone.
LEMMA LoopLeavesChain ==
    Query!Loop \/ Query!End \/ Query!Connect => UNCHANGED <<stored, reached>>
  BY DEF Query!Loop, Query!GetEpochNo, Query!CheckEpoch, Query!GetStakeDistribution,
         Query!StoreStakes, Query!FinishEpoch, Query!End, Query!Connect, Query!environment

\* The chain moves within the slots, and its highest slot only up.
LEMMA ChainMoves ==
    ASSUME ChainInv, UNCHANGED service,
           \/ Query!LoseClient \/ Query!NodeAdvances \/ Query!ChainGrows
           \/ Query!ChainRollsBack \/ Query!PoolRegistered
    PROVE  ChainInv'
<1>1. stored \in Nat /\ reached \in Nat /\ Slots \subseteq Nat
  BY SMT, StartupConstants DEF ChainInv
<1>2. CASE Query!LoseClient \/ Query!NodeAdvances \/ Query!PoolRegistered
  BY SMT, <1>2 DEF ChainInv, Query!LoseClient, Query!NodeAdvances, Query!PoolRegistered,
              Query!environment
<1>3. CASE Query!ChainGrows
  BY SMT, <1>1, <1>3 DEF ChainInv, Query!ChainGrows
<1>4. CASE Query!ChainRollsBack
  BY SMT, <1>1, <1>4 DEF ChainInv, Query!ChainRollsBack
<1> QED
  BY <1>2, <1>3, <1>4

\* Every step of the process is a step of the service, or none of its business: when it
\* is started the chain is past Byron.
LEMMA StepOfService ==
    ASSUME StartupInv, [Next]_vars
    PROVE  [Query!Next]_Query!queryVars
<1> USE DEF Query!queryVars, Query!environment, Query!loop, Query!outcome
<1>1. CASE Main
  BY SMT, <1>1 DEF Main, query, Query!Next
<1>2. CASE Start \/ LookAtChain
  BY SMT, <1>2 DEF Start, LookAtChain, query
<1>3. CASE /\ LoadConfig \/ Killed \/ Signal \/ LoggerJams \/ WorkerEnds \/ StartReturns
           /\ UNCHANGED query
  BY SMT, <1>3 DEF query
<1>4. CASE StartService
  BY SMT, <1>4 DEF StartService, query, StartupInv, ChainInv, Query!Next, Query!Start
<1>5. CASE QueryRuns \/ WorldMoves
  BY SMT, <1>5 DEF QueryRuns, WorldMoves, Query!Next, Query!World
<1>6. CASE UNCHANGED vars
  BY SMT, <1>6 DEF vars, query
<1> QED
  BY SMT, <1>1, <1>2, <1>3, <1>4, <1>5, <1>6 DEF Next

-----------------------------------------------------------------------------
(* The invariant: the initial states and the end of a process *)

LEMMA StartupInit == ASSUME Init PROVE StartupInv
<1>1. ProcessInv
  BY DEF Init, NoLogs, ProcessInv, SettingsInv, OrderInv, ProgressInv, LogsInv, DashboardTypes,
         Prepared, AtWork
<1>2. ChainInv
  BY SMT, StartupConstants DEF Init, Query!Init, ChainInv
<1> QED
  BY <1>1, <1>2 DEF StartupInv

\* What a process that ends takes along; a buffer is lost only by an error or
\* a signal that came too early.
LEMMA ExitKeeps ==
    ASSUME ProcessInv, NEW how, Exit(how),
           how \in {"fatal", "killed", "panic"} \/ logs["main"] \in {"none", "shown"}
    PROVE  ProcessInv'
<1>1. SettingsInv'
  BY DEF Exit, SettingsInv, Prepared, AtWork, DashboardTypes
<1>2. OrderInv' /\ ProgressInv'
  BY DEF Exit, OrderInv, ProgressInv
<1>3. LogsInv'
  BY DEF Exit, ProcessInv, LogsInv, AtWork
<1> QED
  BY <1>1, <1>2, <1>3 DEF ProcessInv

\* The service starts past Byron as long as nobody else touches the chain.
LEMMA ChainKept ==
    ASSUME ChainInv, UNCHANGED <<stored, reached>>,
           service' = "starting" => service = "starting" \/ stored > 4492799
    PROVE  ChainInv'
<1>1. stored \in Nat /\ reached \in Nat
  BY SMT, StartupConstants DEF ChainInv
<1> QED
  BY SMT, <1>1 DEF ChainInv

-----------------------------------------------------------------------------
(* main *)

LEMMA LoadConfigKeeps == ASSUME ProcessInv, LoadConfig PROVE ProcessInv'
<1>1. PICK file \in Files, env \in Environments :
        IF Valid(Overridden(file, env))
          THEN cfg' = Overridden(file, env) /\ main' = "apply" /\ exit' = "none"
          ELSE cfg' = {} /\ main' = "down" /\ exit' = "fatal"
  BY DEF LoadConfig
<1>2. Overridden(file, env) \in FileSettings
  BY OverriddenIsSetting, StartupConstants
<1>3. SettingsInv'
  BY <1>1, <1>2 DEF LoadConfig, ProcessInv, SettingsInv, Prepared, AtWork
<1>4. OrderInv' /\ ProgressInv'
  BY <1>1 DEF LoadConfig, ProcessInv, OrderInv, ProgressInv, AtWork, startVars
<1>5. LogsInv'
  BY <1>1 DEF LoadConfig, NoLogs, LogsInv, AtWork
<1> QED
  BY <1>3, <1>4, <1>5 DEF ProcessInv

\* Settings that pass the check give workers, or the process ends.
LEMMA ApplyConfigKeeps == ASSUME ProcessInv, ApplyConfig PROVE ProcessInv'
<1>1. CASE ActiveWorkers(cfg) = 0
  BY <1>1, ExitKeeps DEF ApplyConfig
<1>2. CASE ActiveWorkers(cfg) # 0
  <2>1. cfg \in FileSettings /\ Valid(cfg)
    BY DEF ApplyConfig, ProcessInv, SettingsInv
  <2>2. ActiveWorkers(cfg) \in Int /\ Dashboard(cfg) \in DashboardTypes
    BY <2>1, WorkersOfMode DEF FileSettings, Dashboard, DashboardTypes
  <2>3. SettingsInv'
    BY <1>2, <2>2 DEF ApplyConfig, SettingsInv, Prepared, AtWork
  <2>4. OrderInv' /\ ProgressInv'
    BY <1>2 DEF ApplyConfig, ProcessInv, OrderInv, ProgressInv, AtWork, startVars
  <2>5. LogsInv'
    BY <1>2 DEF ApplyConfig, ProcessInv, LogsInv, AtWork
  <2> QED
    BY <2>3, <2>4, <2>5 DEF ProcessInv
<1> QED
  BY <1>1, <1>2

LEMMA PreparationKeeps ==
    ASSUME ProcessInv, OpenDatabase \/ ClearShelleyData \/ NewIndexerFails
    PROVE  ProcessInv'
<1>1. CASE Exit("fatal")
  BY SMT, <1>1, ExitKeeps
<1>2. CASE /\ main = "migrate" /\ main' = "clear"
           /\ UNCHANGED <<exit, inputs, parts, service, startVars, cancelled>>
  BY SMT, <1>2 DEF ProcessInv, SettingsInv, OrderInv, ProgressInv, LogsInv, Prepared, AtWork,
              inputs, parts, startVars, Constructed
<1>3. CASE /\ main = "clear" /\ main' = "construct"
           /\ UNCHANGED <<exit, runs, cfg, parts, service, startVars, cancelled>>
  BY SMT, <1>3 DEF ProcessInv, SettingsInv, OrderInv, ProgressInv, LogsInv, Prepared, AtWork,
              parts, startVars, Constructed
<1>4. CASE OpenDatabase
  BY SMT, <1>1, <1>2, <1>4 DEF OpenDatabase
<1>5. CASE ClearShelleyData
  <2>1. CASE Exit("fatal")
    BY <1>1, <2>1
  <2>2. CASE ~Exit("fatal")
    <3>1. /\ main = "clear" /\ main' = "construct"
          /\ UNCHANGED <<exit, runs, cfg, parts, service, startVars, cancelled>>
      BY SMT, <1>5, <2>2 DEF ClearShelleyData
    <3> QED
      BY <1>3, <3>1
  <2> QED
    BY <2>1, <2>2
<1>6. CASE NewIndexerFails
  BY <1>1, <1>6 DEF NewIndexerFails
<1> QED
  BY <1>4, <1>5, <1>6

\* Whatever is left of the dashboard, its kind says where the messages are.
LEMMA NewIndexerKeeps == ASSUME ProcessInv, NewIndexer PROVE ProcessInv'
<1>1. dashboard' \in DashboardTypes
  BY DEF NewIndexer, Dashboards, DashboardTypes, ProcessInv, SettingsInv
<1>2. SettingsInv'
  BY <1>1 DEF NewIndexer, ProcessInv, SettingsInv, Prepared, AtWork, inputs
<1>3. OrderInv' /\ ProgressInv'
  BY DEF NewIndexer, ProcessInv, OrderInv, ProgressInv, AtWork, startVars
<1>4. LogsInv'
  BY DEF NewIndexer, ProcessInv, LogsInv, AtWork, Constructed
<1> QED
  BY <1>2, <1>3, <1>4 DEF ProcessInv

LEMMA GoOnlineKeeps == ASSUME ProcessInv, GoOnline PROVE ProcessInv'
<1>1. SettingsInv'
  BY DEF GoOnline, ProcessInv, SettingsInv, Prepared, AtWork, inputs
<1>2. OrderInv' /\ ProgressInv'
  BY DEF GoOnline, ProcessInv, OrderInv, ProgressInv, AtWork
<1>3. LogsInv'
  BY DEF GoOnline, ProcessInv, LogsInv, AtWork, Constructed
<1> QED
  BY <1>1, <1>2, <1>3 DEF ProcessInv

\* The ways down that pass no buffer over, or are meant to.
LEMMA EndKeeps ==
    ASSUME ProcessInv, Killed \/ StartFailed \/ NewIndexerPanics \/ Leave
    PROVE  ProcessInv'
<1>1. CASE Exit("killed") \/ Exit("fatal") \/ Exit("panic")
  BY <1>1, ExitKeeps
<1>2. CASE Leave
  <2>1. Exit("clean") /\ logs["main"] = "shown"
    BY <1>2 DEF Leave, ProcessInv, LogsInv, AtWork
  <2> QED
    BY <2>1, ExitKeeps
<1> QED
  BY <1>1, <1>2 DEF Killed, StartFailed, NewIndexerPanics

\* A connection is closed only when the context is cancelled; a jam changes nothing else.
LEMMA ShutdownKeeps ==
    ASSUME ProcessInv, Signal \/ Shutdown \/ LoggerJams \/ CloseConnection
    PROVE  ProcessInv'
<1> USE DEF ProcessInv, SettingsInv, OrderInv, ProgressInv, LogsInv, Prepared, AtWork,
            inputs, parts, startVars, Constructed
<1>1. CASE Signal \/ Shutdown
  BY <1>1 DEF Signal, Shutdown
<1>2. CASE CloseConnection
  BY <1>2 DEF CloseConnection
<1>3. CASE LoggerJams
  BY <1>3 DEF LoggerJams
<1> QED
  BY <1>1, <1>2, <1>3

-----------------------------------------------------------------------------
(* Start and the goroutine it leaves behind *)

LEMMA StartKeeps == ASSUME ProcessInv, Start PROVE ProcessInv'
<1> USE DEF ProcessInv, Step, inputs, parts
<1>1. CASE Connect
  BY <1>1 DEF Connect, SettingsInv, OrderInv, ProgressInv, LogsInv, Constructed
<1>2. CASE StartServices
  BY <1>2 DEF StartServices, SettingsInv, OrderInv, ProgressInv, LogsInv, Constructed
<1>3. CASE StartDashboard
  BY <1>3 DEF StartDashboard, SettingsInv, OrderInv, ProgressInv, LogsInv, Constructed
<1>4. CASE StartBlockWorkers
  BY <1>4 DEF StartBlockWorkers, SettingsInv, OrderInv, ProgressInv, LogsInv, Constructed
<1>5. CASE StartChainSync
  BY <1>5 DEF StartChainSync, SettingsInv, OrderInv, ProgressInv, LogsInv, Constructed
<1> QED
  BY <1>1, <1>2, <1>3, <1>4, <1>5 DEF Start

\* Workers end only when the context is cancelled, Start returns behind them.
LEMMA WorkersKeep == ASSUME ProcessInv, WorkerEnds \/ StartReturns PROVE ProcessInv'
<1>1. CASE WorkerEnds
  BY <1>1 DEF WorkerEnds, ProcessInv, SettingsInv, OrderInv, ProgressInv, LogsInv, inputs, parts,
              Constructed
<1>2. CASE StartReturns
  BY <1>2 DEF StartReturns, Step, ProcessInv, SettingsInv, OrderInv, ProgressInv, LogsInv,
              inputs, parts, Constructed
<1> QED
  BY <1>1, <1>2

\* The starter never puts the service back to where the constructor left it.
LEMMA ServiceKeeps == ASSUME ProcessInv, LookAtChain \/ StartService PROVE ProcessInv'
<1>1. PICK s \in {"left", "delayed", "starting", "started", "failed"} : BecomesService(s)
  BY SMT DEF LookAtChain, StartService
<1> QED
  BY SMT, <1>1 DEF BecomesService, ProcessInv, SettingsInv, OrderInv, ProgressInv, LogsInv,
              inputs, parts, startVars, Constructed

-----------------------------------------------------------------------------
(* Every step *)

LEMMA ProcessStep == ASSUME ProcessInv, [Next]_vars PROVE ProcessInv'
<1>1. CASE Main
  BY <1>1, ApplyConfigKeeps, PreparationKeeps, NewIndexerKeeps, GoOnlineKeeps, EndKeeps,
     ShutdownKeeps DEF Main
<1>2. CASE Start
  BY <1>2, StartKeeps
<1>3. CASE LoadConfig \/ Killed \/ Signal \/ LoggerJams \/ WorkerEnds \/ StartReturns
  BY <1>3, LoadConfigKeeps, EndKeeps, ShutdownKeeps, WorkersKeep
<1>4. CASE LookAtChain \/ StartService
  BY <1>4, ServiceKeeps
<1>5. CASE UNCHANGED process
  BY <1>5 DEF process, inputs, parts, startVars, ProcessInv, SettingsInv, OrderInv, ProgressInv,
              LogsInv, Constructed
<1> QED
  BY <1>1, <1>2, <1>3, <1>4, <1>5 DEF Next, QueryRuns, WorldMoves, vars

LEMMA ChainStep == ASSUME ChainInv, [Next]_vars PROVE ChainInv'
<1>1. CASE UNCHANGED <<stored, reached>> /\
           (service' = "starting" => service = "starting" \/ stored > 4492799)
  BY SMT, <1>1, ChainKept
<1>2. CASE UNCHANGED query /\ service' \in {service, "absent", "made", "waiting"}
  BY SMT, <1>1, <1>2 DEF query
<1>3. CASE Main
  <2>1. service' \in {service, "absent", "made"}
    BY SMT, <1>3 DEF Main, ApplyConfig, OpenDatabase, ClearShelleyData, NewIndexer, NewIndexerFails,
                NewIndexerPanics, GoOnline, Shutdown, CloseConnection, StartFailed, Leave, Exit
  <2>2. UNCHANGED <<stored, reached>>
    BY SMT, <1>3, LoopLeavesChain DEF Main, query
  <2> QED
    BY SMT, <1>1, <2>1, <2>2
<1>4. CASE Start
  BY SMT, <1>2, <1>4 DEF Start, Connect, StartServices, StartDashboard, StartBlockWorkers,
                    StartChainSync
<1>5. CASE /\ LoadConfig \/ Killed \/ Signal \/ LoggerJams \/ WorkerEnds \/ StartReturns
           /\ UNCHANGED query
  BY SMT, <1>2, <1>5 DEF LoadConfig, Killed, Exit, Signal, LoggerJams, WorkerEnds, StartReturns
<1>6. CASE LookAtChain
  <2>1. stored \in Nat
    BY SMT, StartupConstants DEF ChainInv
  <2>2. service' = "starting" => stored > 4492799
    BY SMT, <1>6, <2>1 DEF LookAtChain, BecomesService
  <2> QED
    BY SMT, <1>1, <1>6, <2>2 DEF LookAtChain, query
<1>7. CASE StartService
  BY SMT, <1>1, <1>7, LoopLeavesChain DEF StartService, BecomesService, query
<1>8. CASE QueryRuns
  BY SMT, <1>1, <1>8, LoopLeavesChain DEF QueryRuns, process
<1>9. CASE WorldMoves
  BY SMT, <1>9, ChainMoves DEF WorldMoves, process
<1>10. CASE UNCHANGED vars
  BY SMT, <1>2, <1>10 DEF vars, process
<1> QED
  BY SMT, <1>3, <1>4, <1>5, <1>6, <1>7, <1>8, <1>9, <1>10 DEF Next

LEMMA StartupStep == ASSUME StartupInv, [Next]_vars PROVE StartupInv'
  BY ProcessStep, ChainStep DEF StartupInv

LEMMA StartupAlways == Spec => []StartupInv
<1>1. Init => StartupInv
  BY StartupInit
<1>2. StartupInv /\ [Next]_vars => StartupInv'
  BY StartupStep
<1> QED
  BY <1>1, <1>2, PTL DEF Spec

-----------------------------------------------------------------------------
(* Types *)

\* What fails is counted, and jams nothing.
LEMMA FailuresTyped ==
    ASSUME TypeOK, Fine \/ Failing
    PROVE  failures' \in 0 .. MaxFailures /\ jammed' \in BOOLEAN
<1>1. failures' \in 0 .. MaxFailures
  BY StartupConstants DEF TypeOK, Fine, Failing
<1>2. jammed' \in BOOLEAN
  BY DEF TypeOK, Fine, Failing
<1> QED
  BY <1>1, <1>2

\* A process that ends leaves every variable of its own typed.
LEMMA ExitTyped ==
    ASSUME TypeOK, NEW how \in {"fatal", "panic", "killed", "clean"}, Exit(how),
           Fine \/ Failing
    PROVE  TypeOK'
<1>1. failures' \in 0 .. MaxFailures /\ jammed' \in BOOLEAN
  BY FailuresTyped
<1>2. logs' \in [{"main", "constructor"} -> {"none", "held", "shown", "lost"}]
  BY DEF TypeOK, Exit
<1>3. runs' \in 0 .. MaxRuns
  BY DEF TypeOK, Exit
<1>4. clear' \in BOOLEAN /\ queue' \in BOOLEAN /\ cancelled' \in BOOLEAN
  BY DEF Exit
<1>5. running' \in 0 .. BlockWorkers /\ workers' \in Int
  BY StartupConstants DEF Exit
<1>6. /\ main' = "down" /\ exit' = how /\ dashboard' = "none" /\ display' = "off"
      /\ service' = "absent" /\ starting' = "no" /\ link' = "none"
  BY DEF Exit
<1> QED
  BY <1>1, <1>2, <1>3, <1>4, <1>5, <1>6 DEF TypeOK, DashboardTypes

LEMMA MainTyped ==
    ASSUME TypeOK, SettingsInv,
           \/ LoadConfig \/ ApplyConfig \/ OpenDatabase \/ ClearShelleyData \/ NewIndexer
           \/ NewIndexerFails \/ GoOnline \/ CloseConnection \/ StartFailed \/ Leave
           \/ NewIndexerPanics \/ Killed \/ Signal \/ Shutdown \/ LoggerJams
    PROVE  TypeOK'
<1>f. Fine \/ Failing => failures' \in 0 .. MaxFailures /\ jammed' \in BOOLEAN
  BY FailuresTyped
<1>1. CASE LoadConfig
  <2>1. /\ main' \in {"apply", "down"} /\ exit' \in {"none", "fatal"}
        /\ clear' \in BOOLEAN /\ logs' = NoLogs /\ runs' \in 0 .. MaxRuns
    BY <1>1, StartupConstants DEF LoadConfig, TypeOK
  <2> QED
    BY <1>1, <1>f, <2>1 DEF LoadConfig, TypeOK, NoLogs, startVars
<1>2. CASE ApplyConfig
  <2>1. CASE ActiveWorkers(cfg) = 0
    BY <1>2, <2>1, ExitTyped DEF ApplyConfig
  <2>2. CASE ActiveWorkers(cfg) # 0
    <3>1. cfg \in FileSettings /\ Valid(cfg)
      BY <1>2 DEF ApplyConfig, SettingsInv
    <3>2. workers' \in Int /\ dashboard' \in DashboardTypes
      BY <1>2, <2>2, <3>1, WorkersOfMode
         DEF ApplyConfig, FileSettings, Dashboard, DashboardTypes
    <3> QED
      BY <1>2, <1>f, <2>2, <3>2 DEF ApplyConfig, TypeOK, startVars
  <2> QED
    BY <2>1, <2>2
<1>3. CASE OpenDatabase
  <2>1. CASE Exit("fatal") /\ Failing
    BY <2>1, ExitTyped
  <2> QED
    BY <1>3, <1>f, <2>1 DEF OpenDatabase, TypeOK, inputs, parts, startVars
<1>4. CASE ClearShelleyData
  <2>1. CASE Exit("fatal") /\ (Fine \/ Failing)
    BY <2>1, ExitTyped
  <2>2. CASE /\ main' = "construct" /\ clear' = FALSE
             /\ UNCHANGED <<exit, runs, cfg, parts, service, startVars, cancelled>> /\ Fine
    <3>1. clear' \in BOOLEAN
      BY <2>2
    <3> QED
      BY <2>2, <3>1, <1>f DEF TypeOK, parts, startVars
  <2>3. CASE ~(Exit("fatal") /\ (Fine \/ Failing))
    <3>1. /\ main' = "construct" /\ clear' = FALSE
          /\ UNCHANGED <<exit, runs, cfg, parts, service, startVars, cancelled>> /\ Fine
      BY SMT, <1>4, <2>3 DEF ClearShelleyData
    <3> QED
      BY <2>2, <3>1
  <2> QED
    BY <2>1, <2>3
<1>5. CASE NewIndexer
  <2>1. dashboard' \in DashboardTypes /\ service' \in {"made", "absent"}
    BY <1>5 DEF NewIndexer, Dashboards, DashboardTypes, TypeOK
  <2>2. logs' \in [{"main", "constructor"} -> {"none", "held", "shown", "lost"}]
    BY <1>5 DEF NewIndexer, TypeOK
  <2> QED
    BY <1>5, <1>f, <2>1, <2>2 DEF NewIndexer, TypeOK, inputs, startVars
<1>6. CASE GoOnline
  BY <1>6, <1>f DEF GoOnline, TypeOK, inputs
<1>7. CASE CloseConnection
  BY <1>7, <1>f DEF CloseConnection, TypeOK, inputs, parts
<1>8. CASE Signal
  BY <1>8, <1>f DEF Signal, TypeOK, inputs, parts, startVars
<1>9. CASE Shutdown
  <2>1. cancelled' \in BOOLEAN
    BY <1>9 DEF Shutdown
  <2>2. /\ main' = "close" /\ failures' \in 0 .. MaxFailures /\ jammed' \in BOOLEAN
        /\ UNCHANGED <<exit, inputs, parts, service, startVars>>
    BY <1>9, <1>f DEF Shutdown
  <2> QED
    BY <2>1, <2>2 DEF TypeOK, inputs, parts, startVars
<1>10. CASE LoggerJams
  BY <1>10 DEF LoggerJams, TypeOK, inputs, parts, startVars
<1>11. CASE NewIndexerFails \/ NewIndexerPanics \/ StartFailed \/ Leave \/ Killed
  BY <1>11, ExitTyped DEF NewIndexerFails, NewIndexerPanics, StartFailed, Leave, Killed
<1> QED
  BY <1>1, <1>2, <1>3, <1>4, <1>5, <1>6, <1>7, <1>8, <1>9, <1>10, <1>11

\* Start and what it leaves behind: the workers are as many as there are
\* connections for, and no more than the pool has.
LEMMA StartTyped ==
    ASSUME TypeOK, SettingsInv, OrderInv, Start \/ WorkerEnds \/ StartReturns
    PROVE  TypeOK'
<1>f. Fine \/ Failing => failures' \in 0 .. MaxFailures /\ jammed' \in BOOLEAN
  BY FailuresTyped
<1> USE DEF Step, inputs, parts
<1>1. CASE Connect
  BY <1>1, <1>f DEF Connect, TypeOK
<1>2. CASE StartServices
  BY <1>2, <1>f DEF StartServices, TypeOK
<1>3. CASE StartDashboard
  BY <1>3, <1>f DEF StartDashboard, TypeOK
<1>4. CASE StartBlockWorkers
  <2>1. running' \in 0 .. BlockWorkers
    BY <1>4, StartupConstants
       DEF StartBlockWorkers, SettingsInv, OrderInv, AtWork, Lesser
  <2> QED
    BY <1>4, <1>f, <2>1 DEF StartBlockWorkers, TypeOK
<1>5. CASE StartChainSync
  BY <1>5, <1>f DEF StartChainSync, TypeOK
<1>6. CASE WorkerEnds
  <2>1. running' \in 0 .. BlockWorkers
    BY <1>6, StartupConstants DEF WorkerEnds, TypeOK
  <2> QED
    BY <1>6, <1>f, <2>1 DEF WorkerEnds, TypeOK
<1>7. CASE StartReturns
  BY <1>7, <1>f DEF StartReturns, TypeOK
<1> QED
  BY <1>1, <1>2, <1>3, <1>4, <1>5, <1>6, <1>7 DEF Start

LEMMA TypeStep == ASSUME TypeOK, SettingsInv, OrderInv, [Next]_vars PROVE TypeOK'
<1>1. CASE Main \/ LoadConfig \/ Killed \/ Signal \/ LoggerJams
  BY <1>1, MainTyped DEF Main
<1>2. CASE Start \/ WorkerEnds \/ StartReturns
  BY <1>2, StartTyped
<1>3. CASE LookAtChain \/ StartService
  <2>1. PICK s \in {"left", "delayed", "starting", "started", "failed"} :
          BecomesService(s) /\ (Fine \/ Failing)
    BY <1>3, SMT DEF LookAtChain, StartService
  <2>2. failures' \in 0 .. MaxFailures /\ jammed' \in BOOLEAN
    BY <2>1, FailuresTyped
  <2> QED
    BY <2>1, <2>2 DEF BecomesService, TypeOK, inputs, parts, startVars
<1>4. CASE UNCHANGED process
  BY <1>4 DEF process, inputs, parts, startVars, TypeOK
<1> QED
  BY <1>1, <1>2, <1>3, <1>4 DEF Next, QueryRuns, WorldMoves, vars

-----------------------------------------------------------------------------
(* What it is for *)

\* Type correctness of the process (main.go) around the service, for any
\* settings, environments, sizes of the worker pool and bounds.
THEOREM StartupTyped == Spec => []TypeOK
<1>1. Init => TypeOK
  <2> SUFFICES ASSUME Init PROVE TypeOK
    OBVIOUS
  <2>1. /\ runs \in 0 .. MaxRuns /\ failures \in 0 .. MaxFailures
        /\ running \in 0 .. BlockWorkers /\ workers \in Int
    BY StartupConstants DEF Init
  <2>2. clear \in BOOLEAN /\ queue \in BOOLEAN /\ cancelled \in BOOLEAN /\ jammed \in BOOLEAN
    BY DEF Init
  <2>3. /\ main = "down" /\ exit = "none" /\ dashboard = "none" /\ display = "off"
        /\ service = "absent" /\ starting = "no" /\ link = "none" /\ logs = NoLogs
    BY DEF Init
  <2> QED
    BY <2>1, <2>2, <2>3 DEF TypeOK, NoLogs, DashboardTypes
<1>2. TypeOK /\ StartupInv /\ [Next]_vars => TypeOK'
  BY TypeStep DEF StartupInv, ProcessInv
<1> QED
  BY <1>1, <1>2, StartupAlways, PTL DEF Spec

\* Once Start (main.go) has reached ChainSync, and until a signal, at least one
\* block worker runs, each on a connection of its own, with the queue, the
\* connection to the node, the display and the state query in place: for any
\* settings that pass the check and any size of the worker pool.
THEOREM StartupUpAndWorking == Spec => []UpAndWorking
<1>1. StartupInv => UpAndWorking
  <2> SUFFICES ASSUME StartupInv, starting \in {"sync", "working"}, ~cancelled
               PROVE  /\ queue /\ link = "open"
                      /\ 1 <= running /\ running <= workers
                      /\ display \in {"off", "running"} /\ (display = "off" <=> dashboard = "none")
                      /\ service # "made"
    BY DEF UpAndWorking
  <2>1. main \in AtWork /\ workers \in Int /\ workers >= 1
    BY DEF StartupInv, ProcessInv, SettingsInv, OrderInv
  <2>2. /\ queue /\ link = "open" /\ running = Lesser(BlockWorkers, workers)
        /\ display \in {"off", "running"} /\ (display = "off" <=> dashboard = "none")
        /\ service # "made"
    BY DEF StartupInv, ProcessInv, ProgressInv
  <2>3. 1 <= running /\ running <= workers
    BY <2>1, <2>2, StartupConstants DEF Lesser
  <2> QED
    BY <2>2, <2>3
<1> QED
  BY <1>1, StartupAlways, PTL

\* What main held back while the dashboard did not exist (main.go, main) is
\* lost only with a start-up that fails or is killed, and the constructor's
\* messages only with it or where no web page keeps them.
THEOREM StartupMessagesKept == Spec => []MessagesKept
<1>1. StartupInv => MessagesKept
  BY DEF StartupInv, ProcessInv, LogsInv, AtWork, Constructed, MessagesKept
<1> QED
  BY <1>1, StartupAlways, PTL

\* Whatever combination of old and new names, of any sign, the file and the
\* environment give (config.go, migrateLegacyConfig), a process that gets past the
\* constructor has at least one worker and as many as the operator's limit allows,
\* and only a missing or a negative number ends in a panic before.
THEOREM StartupLimitsKept == Spec => LimitsKept
<1> DEFINE Applied ==
             main = "apply" =>
               \/ main' = "migrate" /\ workers' \in 1 .. WorkerLimit(cfg)
               \/ main' = "migrate" /\ workers' < 0 /\ NegativeWorkers(cfg)
               \/ main' = "down" /\ exit' = "panic" /\ NoWorkers(cfg)
               \/ main' = "down" /\ exit' = "killed"
               \/ main' = "apply"
           Constructs ==
             main = "construct" =>
               \/ main' = "flush" /\ workers' >= 1
               \/ main' = "down" /\ (exit' = "panic" => workers < 0)
               \/ main' = "construct"
<1>1. StartupInv /\ [Next]_vars => [Applied /\ Constructs]_vars
  <2> SUFFICES ASSUME StartupInv, [Next]_vars, main \in {"apply", "construct"}
               PROVE  Applied /\ Constructs
    OBVIOUS
  <2>1. /\ main = "apply" => cfg \in FileSettings /\ Valid(cfg)
        /\ starting = "no" /\ workers \in Int /\ (main = "construct" => workers # 0)
    BY DEF StartupInv, ProcessInv, SettingsInv, OrderInv, AtWork, Prepared
  <2>2. CASE ApplyConfig
    <3>1. main = "apply"
      BY <2>2 DEF ApplyConfig
    <3>2. \/ ActiveWorkers(cfg) \in 1 .. WorkerLimit(cfg)
          \/ ActiveWorkers(cfg) = 0 /\ NoWorkers(cfg)
          \/ ActiveWorkers(cfg) < 0 /\ NegativeWorkers(cfg)
      BY <2>1, <3>1, WorkersOfMode
    <3>3. CASE ActiveWorkers(cfg) = 0
      BY <2>2, <3>1, <3>2, <3>3 DEF ApplyConfig, Exit
    <3>4. CASE ActiveWorkers(cfg) # 0
      BY <2>2, <3>1, <3>2, <3>4 DEF ApplyConfig
    <3> QED
      BY <3>3, <3>4
  <2>3. CASE NewIndexer
    BY <2>1, <2>3 DEF NewIndexer
  <2>4. CASE NewIndexerFails \/ NewIndexerPanics \/ Killed
    BY <2>4 DEF NewIndexerFails, NewIndexerPanics, Killed, Exit
  <2>5. CASE UNCHANGED main
    BY <2>5
  <2>6. ApplyConfig \/ NewIndexer \/ NewIndexerFails \/ NewIndexerPanics \/ Killed \/ UNCHANGED main
    <3>1. ~(OpenDatabase \/ ClearShelleyData \/ GoOnline \/ Shutdown \/ CloseConnection
            \/ StartFailed \/ Leave \/ LoadConfig \/ Signal)
      BY SMT DEF OpenDatabase, ClearShelleyData, GoOnline, Shutdown, CloseConnection, StartFailed,
                 Leave, LoadConfig, Signal
    <3>2. Start \/ WorkerEnds \/ StartReturns \/ LoggerJams => UNCHANGED main
      BY DEF Start, Connect, StartServices, StartDashboard, StartBlockWorkers, StartChainSync,
             WorkerEnds, StartReturns, LoggerJams
    <3>3. LookAtChain \/ StartService \/ QueryRuns \/ WorldMoves \/ UNCHANGED vars
            => UNCHANGED main
      BY SMT DEF LookAtChain, StartService, BecomesService, QueryRuns, WorldMoves, process, vars
    <3> QED
      BY <3>1, <3>2, <3>3 DEF Next, Main
  <2> QED
    BY <2>2, <2>3, <2>4, <2>5, <2>6
<1> QED
  BY <1>1, StartupAlways, PTL DEF Spec, LimitsKept

\* The service that the goroutine of Start starts and that ends with the process
\* takes the steps of StateQuery and no others; in particular it is started
\* only when the chain has gone past Byron, which StateQuery assumes.
THEOREM ServiceRefines == Spec => Query!Init /\ [][Query!Next]_Query!queryVars
<1>1. Init => Query!Init
  BY DEF Init
<1>2. StartupInv /\ [Next]_vars => [Query!Next]_Query!queryVars
  BY StepOfService
<1> QED
  BY <1>1, <1>2, StartupAlways, PTL DEF Spec
=============================================================================
