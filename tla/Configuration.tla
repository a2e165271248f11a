----------------------------- MODULE Configuration -----------------------------
(***************************************************************************)
(* The settings the program starts with (src/config/config.go): the file   *)
(* over the defaults, the environment over the file, the check, and the    *)
(* performance settings that main derives for epoch 0.                     *)
(*                                                                         *)
(* A configuration is a record; 0 stands for a number that is not given.   *)
(* Kept are the numbers the count of workers depends on and what decides   *)
(* which services run.  Batch, queue and connection numbers go through the *)
(* same minima and maxima in the code, and nothing reads the results.      *)
(***************************************************************************)
EXTENDS Integers

Lesser(a, b) == IF a < b THEN a ELSE b
Greater(a, b) == IF a > b THEN a ELSE b

Modes == {"auto", "manual", "aggressive", "conservative"}
DashboardTypes == {"none", "terminal", "web", "both"}

\* What a file may say and what the environment may add: numbers of any sign.
FileSettings == [dsn : BOOLEAN, mode : Modes, worker_count : Int, max_workers : Int,
                 manual_workers : Int, enabled : BOOLEAN, dashboard : DashboardTypes]
Environment == [worker_count : Int, dashboard : DashboardTypes \cup {"unset"},
                no_dashboard : BOOLEAN]

\* Nothing in the environment, or no positive number, leaves the file's value;
\* a type of dashboard does not enable what the file disables.
Overridden(file, env) ==
  [file EXCEPT
    !.worker_count = IF env.worker_count > 0 THEN env.worker_count ELSE @,
    !.dashboard    = IF env.dashboard = "unset" THEN @ ELSE env.dashboard,
    !.enabled      = @ /\ env.dashboard # "none" /\ ~env.no_dashboard]

\* The dashboard main asks for
Dashboard(cfg) == IF cfg.enabled THEN cfg.dashboard ELSE "none"

\* The check looks at the old name of the number of workers only.
Valid(cfg) == cfg.dsn /\ cfg.worker_count > 0

\* Mutant: the manual number is left as it is.
MigratedHalf(cfg) ==
  IF cfg.max_workers = 0
    THEN [cfg EXCEPT !.max_workers = cfg.worker_count]
    ELSE cfg

\* The old number of workers stands in for the new one, and replaces the
\* manual one with it; validation has seen to it that it is not 0.
Migrated(cfg) ==
  IF cfg.max_workers = 0
    THEN [cfg EXCEPT !.max_workers = cfg.worker_count,
                     !.manual_workers = cfg.worker_count]
    ELSE cfg

\* Sixteen workers suit Byron, where every run starts counting.
EraAwareWorkers(cfg) == Lesser(16, cfg.max_workers)
ManualWorkers(cfg) == Lesser(cfg.manual_workers, cfg.max_workers)
AggressiveWorkers(cfg) == cfg.max_workers
ConservativeWorkers(cfg) == Greater(4, cfg.max_workers \div 4)

\* The number of workers of the active configuration.
ActiveWorkers(cfg) ==
  LET m == Migrated(cfg) IN
    CASE cfg.mode = "manual"       -> ManualWorkers(m)
      [] cfg.mode = "aggressive"   -> AggressiveWorkers(m)
      [] cfg.mode = "conservative" -> ConservativeWorkers(m)
      [] OTHER                     -> EraAwareWorkers(m)

\* What the operator allows: the new limit, or the old number of workers; the
\* conservative mode goes up to four.
WorkerLimit(cfg) ==
  LET limit == IF cfg.max_workers # 0 THEN cfg.max_workers ELSE cfg.worker_count
  IN  IF cfg.mode = "conservative" THEN Greater(4, limit) ELSE limit

\* A limit, and the manual mode without its number
NoWorkers(cfg) == cfg.mode = "manual" /\ cfg.max_workers > 0 /\ cfg.manual_workers = 0

\* A negative number where the mode takes it
NegativeWorkers(cfg) ==
  /\ cfg.mode # "conservative" /\ cfg.max_workers # 0
  /\ \/ cfg.max_workers < 0
     \/ cfg.mode = "manual" /\ cfg.manual_workers < 0
=============================================================================
