----------------------------- MODULE UnitStore -----------------------------
(***************************************************************************)
(* What the block pipeline may rely on when it stores a block's header or  *)
(* one of its transactions: the unit's row comes at once or not at all and *)
(* stays; that it is stored may remain unsaid, and is said only of a unit  *)
(* whose row is there, or whose database transaction a deadlock has torn.  *)
(***************************************************************************)
CONSTANTS
    Units       \* the units of work

VARIABLES
    rows,       \* the units whose row is in the database
    told,       \* the units a worker has been told are stored
    torn        \* the units whose transaction a deadlock has undone midway

vars == <<rows, told, torn>>

Init == rows = {} /\ told = {} /\ torn = {}

\* The worker hears of it or, when the connection breaks at the commit, does not
Insert(u) ==
    /\ rows' = rows \cup {u}
    /\ told' \in {told, told \cup {u}}
    /\ UNCHANGED torn

\* A unit that comes again finds its row; a torn one is committed without it
Tell(u) ==
    /\ u \in rows \cup torn
    /\ told' = told \cup {u}
    /\ UNCHANGED <<rows, torn>>

Tear(u) ==
    /\ torn' = torn \cup {u}
    /\ UNCHANGED <<rows, told>>

Next == \E u \in Units : Insert(u) \/ Tell(u) \/ Tear(u)

Spec == Init /\ [][Next]_vars

-----------------------------------------------------------------------------

\* What is said to be stored has its row, but for torn units (block_processor.go:255-279)
ToldIsStored == told \subseteq rows \cup torn
=============================================================================
