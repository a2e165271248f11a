----------------------------- MODULE BlockPool -----------------------------
(***************************************************************************)
(* What the block pipeline promises while the node extends one chain: the  *)
(* blocks it sends are worked on in the order of the chain, give or take   *)
(* one block per worker, and none is let go before it is stored or         *)
(* reported as failed, except by the end of the process.                   *)
(***************************************************************************)
EXTENDS Naturals, FiniteSets

CONSTANTS
    Blocks,     \* the blocks of the chain
    Past,       \* the chain that ends in a block, that block included
    Width       \* how many blocks are worked on at a time

VARIABLES
    running,    \* the process takes blocks
    pool,       \* the blocks sent and not let go
    stored,     \* the blocks stored
    failed      \* the blocks reported as failed since the process started

vars == <<running, pool, stored, failed>>

\* b is the youngest block of the pool, or would be
Youngest(b) == pool \subseteq Past[b]

\* b is one of the Width oldest blocks of the pool
AtWork(b) == b \in pool /\ Cardinality(pool \cap Past[b]) <= Width

Init == running = FALSE /\ pool = {} /\ stored = {} /\ failed = {}

Begin ==
    /\ running' = TRUE /\ failed' = {}
    /\ pool = {}
    /\ UNCHANGED <<pool, stored>>

Offer(b) ==
    /\ running
    /\ b \notin pool
    /\ Youngest(b)
    /\ pool' = pool \cup {b}
    /\ UNCHANGED <<running, stored, failed>>

\* Backpressure: the block sent last is turned away
TurnAway(b) ==
    /\ b \in pool
    /\ Youngest(b)
    /\ pool' = pool \ {b}
    /\ failed' = failed \cup {b} \/ (~running /\ UNCHANGED failed)
    /\ UNCHANGED <<running, stored>>

Store(b) ==
    /\ AtWork(b)
    /\ stored' = stored \cup {b}
    /\ UNCHANGED <<running, pool, failed>>

Release(b) ==
    /\ AtWork(b)
    /\ b \in stored
    /\ pool' = pool \ {b}
    /\ UNCHANGED <<running, stored, failed>>

Fail(b) ==
    /\ AtWork(b)
    /\ pool' = pool \ {b}
    /\ stored' \in {stored, stored \cup {b}}
    /\ failed' = failed \cup {b}
    /\ UNCHANGED running

Stop == running' = FALSE /\ UNCHANGED <<pool, stored, failed>>

End == running' = FALSE /\ pool' = {} /\ UNCHANGED <<stored, failed>>

Next ==
    \/ Begin \/ Stop \/ End
    \/ \E b \in Blocks : Offer(b) \/ TurnAway(b) \/ Store(b) \/ Release(b) \/ Fail(b)

Spec == Init /\ [][Next]_vars
=============================================================================
