------------------------------- MODULE MCStartup -------------------------------
(***************************************************************************)
(* An instance of Startup for TLC.  The slots lie on both sides of the end *)
(* of Byron and of the slot whose quotient by 432000 is 208.               *)
(***************************************************************************)
EXTENDS Startup

TheEpochs == {207, 401}
TheSlots == {4492799, 4492800, 89856000}
OnePool == {"p"}
FromShelley == [p \in OnePool |-> 4492800]
AlwaysMember == [e \in TheEpochs |-> OnePool]

\* Old and new numbers, negative, given or not, below and above what the modes
\* derive; and what is displayed, or not
TheFiles ==
  [dsn : {TRUE}, mode : Modes, worker_count : {-1, 1}, max_workers : {-1, 0, 1, 16},
   manual_workers : {-1, 0, 12}, enabled : {FALSE}, dashboard : {"web"}]
  \cup [dsn : BOOLEAN, mode : {"auto"}, worker_count : {1}, max_workers : {0},
        manual_workers : {0}, enabled : BOOLEAN, dashboard : DashboardTypes]
TheEnvironments == [worker_count : {0, 1}, dashboard : {"unset", "none", "web"},
                    no_dashboard : BOOLEAN]
=============================================================================
