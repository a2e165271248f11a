------------------------------ MODULE StateQuery ------------------------------
(***************************************************************************)
(* The state query service (src/statequery/service.go): a goroutine that   *)
(* polls the local node for its epoch and, once per epoch, stores the      *)
(* node's stake distribution in the database the block pipeline fills.     *)
(*                                                                         *)
(* The node answers for its own tip, the pipeline may be years behind.     *)
(* What the service reads of the pipeline is the highest stored slot and   *)
(* the pools whose registration is stored; both are moved here by actions  *)
(* of the environment.  Amounts, delegators (a placeholder in the code)    *)
(* and the replies about rewards, treasury and protocol parameters (only   *)
(* logged) are left out.                                                   *)
(***************************************************************************)
EXTENDS Integers, FiniteSets

CONSTANTS
  Pools,          \* pool keys
  Epochs,         \* epochs the node goes through
  Slots,          \* values of MAX(slot_no)
  RegisteredAt,   \* the slot of a pool's registration
  Members,        \* the pools of the node's distribution, per epoch
  MaxFaults       \* bound: failing requests and statements

ASSUME QueryConstants ==
  /\ Epochs \subseteq Nat /\ Slots \subseteq Nat
  /\ RegisteredAt \in [Pools -> Nat]
  /\ Members \in [Epochs -> SUBSET Pools]
  /\ MaxFaults \in Nat

VARIABLES
  stored,      \* MAX(slot_no) of the blocks table
  reached,     \* history: its highest value so far
  known,       \* pools with a row in pool_hashes
  nodeEpoch,   \* the epoch of the node's tip
  client,      \* the connection to the node: "up" or "lost"
  at,          \* where the query loop is; "off" when it does not run
  epochNo,     \* the loop's local: the epoch it asked for
  lastEpoch,   \* the last epoch it worked through; not kept over a restart
  answer,      \* the distribution the node sent
  stakes,      \* the epoch_stakes table: pairs of an epoch and a pool
  warned,      \* history: pairs covered by a warning in the log
  passed,      \* history: pairs passed over in silence
  done,        \* history: the epochs lastEpoch was set to
  faults

environment == <<stored, reached, known, nodeEpoch>>
loop == <<client, at, epochNo, lastEpoch, answer>>
outcome == <<stakes, warned, passed, done>>
queryVars == <<environment, loop, outcome, faults>>

\* One more failure of a request or a statement.
Fault == faults < MaxFaults /\ faults' = faults + 1

Init ==
  /\ stored \in Slots /\ reached = stored
  /\ known \in SUBSET {p \in Pools : RegisteredAt[p] <= stored}
  /\ nodeEpoch \in Epochs
  /\ client = "lost" /\ at = "off"
  /\ epochNo = 0 /\ lastEpoch = 0 /\ answer = {}
  /\ stakes = {} /\ warned = {} /\ passed = {} /\ done = {}
  /\ faults = 0

\* Connect and run the loop.  When the socket or the handshake fails nothing
\* is left behind and nothing tries again.
Connect ==
  /\ at = "off"
  /\ at' = "idle" /\ client' = "up" /\ lastEpoch' = 0
  /\ UNCHANGED <<environment, epochNo, answer, outcome, faults>>

\* The service may rely on being started past Byron: on main (see Startup).
Start == reached > 4492799 /\ Connect

\* The first statement of a round: at once, then every five minutes.
GetEpochNo ==
  /\ at = "idle" /\ client = "up"
  /\ \/ at' = "check" /\ epochNo' = nodeEpoch /\ UNCHANGED faults
     \/ Fault /\ UNCHANGED <<at, epochNo>>
  /\ UNCHANGED <<environment, client, lastEpoch, answer, outcome>>

\* Mutant: the epoch of the stored chain is computed as the chain has it.
HistoricalByEra(slot, epoch) ==
  /\ epoch > 207
  /\ slot > 0
  /\ 208 + (slot - 4492800) \div 432000 < 208
  /\ epoch > 400

\* The code takes slot / 432000 for the epoch of the stored chain.
Historical(slot, epoch) ==
  /\ epoch > 207
  /\ slot > 0
  /\ slot \div 432000 < 208
  /\ epoch > 400

\* A read that fails counts as no block at all, and passes the check.
CheckEpoch ==
  /\ at = "check"
  /\ \E slot \in {stored, 0} :
       /\ \/ slot = stored /\ UNCHANGED faults
          \/ slot = 0 /\ Fault
       /\ at' = CASE Historical(slot, epochNo) \/ epochNo <= lastEpoch -> "idle"
                  [] OTHER -> IF epochNo >= 208 THEN "stake" ELSE "finish"
  /\ UNCHANGED <<environment, client, epochNo, lastEpoch, answer, outcome>>

\* The node answers for its tip now, which may be in a later epoch.
GetStakeDistribution ==
  /\ at = "stake"
  /\ \/ /\ client = "up"
        /\ answer' = Members[nodeEpoch] /\ at' = "store"
        /\ UNCHANGED <<warned, faults>>
     \/ /\ \/ client = "lost" /\ UNCHANGED faults
           \/ client = "up" /\ Fault
        /\ warned' = warned \cup ({epochNo} \X Pools) /\ at' = "finish"
        /\ UNCHANGED answer
  /\ UNCHANGED <<environment, client, epochNo, lastEpoch, stakes, passed, done>>

\* Mutant: a failing commit is not reported.
StoreStakesUnsaid ==
  /\ at = "store" /\ at' = "finish"
  /\ LET here == answer \cap known
         fresh(found) == {p \in found : <<epochNo, p>> \notin stakes}
     IN  \E found \in SUBSET here : \E rows \in SUBSET fresh(found) :
         \E committed \in BOOLEAN :
           /\ IF found = here /\ rows = fresh(found) /\ committed
              THEN UNCHANGED faults ELSE Fault
           /\ stakes' = IF committed THEN stakes \cup ({epochNo} \X rows) ELSE stakes
           /\ passed' = passed \cup ({epochNo} \X (answer \ found))
           /\ warned' = warned \cup ({epochNo} \X (found \ rows))
  /\ answer' = {}
  /\ UNCHANGED <<environment, client, epochNo, lastEpoch, done>>

\* Mutant: a row is stored whether or not the pool is there.
StoreStakesUnchecked ==
  /\ at = "store" /\ at' = "finish"
  /\ stakes' = stakes \cup ({epochNo} \X answer) /\ answer' = {}
  /\ UNCHANGED <<environment, client, epochNo, lastEpoch, warned, passed, done, faults>>

\* One database transaction.  A pool that is not found, and one whose lookup
\* fails, is passed over without a word; a row that is there already, and one
\* the database refuses, is warned about; so is a commit without an answer,
\* whether or not the rows went in.
StoreStakes ==
  /\ at = "store" /\ at' = "finish"
  /\ LET here == answer \cap known
         fresh(found) == {p \in found : <<epochNo, p>> \notin stakes}
     IN  \E found \in SUBSET here : \E rows \in SUBSET fresh(found) :
         \E committed, told \in BOOLEAN :
           /\ told => committed
           /\ IF found = here /\ rows = fresh(found) /\ told
              THEN UNCHANGED faults ELSE Fault
           /\ stakes' = IF committed THEN stakes \cup ({epochNo} \X rows) ELSE stakes
           /\ passed' = passed \cup ({epochNo} \X (answer \ found))
           /\ warned' = warned \cup ({epochNo} \X IF told THEN found \ rows ELSE answer)
  /\ answer' = {}
  /\ UNCHANGED <<environment, client, epochNo, lastEpoch, done>>

\* Mutant: the epoch is not marked as done.
FinishEpochForgets ==
  /\ at = "finish" /\ at' = "idle"
  /\ done' = done \cup {epochNo}
  /\ UNCHANGED <<environment, client, epochNo, lastEpoch, answer, stakes, warned, passed, faults>>

\* Rewards and treasury are asked for and only logged, whatever comes back;
\* the epoch is done whatever failed.
FinishEpoch ==
  /\ at = "finish" /\ at' = "idle"
  /\ lastEpoch' = epochNo /\ done' = done \cup {epochNo}
  /\ UNCHANGED <<environment, client, epochNo, answer, stakes, warned, passed, faults>>

\* The process ends: nobody stops the loop.
End ==
  /\ at # "off" /\ at' = "off"
  /\ client' = "lost" /\ epochNo' = 0 /\ lastEpoch' = 0 /\ answer' = {}
  /\ UNCHANGED <<environment, outcome, faults>>

\* The connection breaks.  No request brings it back: every later one fails.
LoseClient ==
  /\ at # "off" /\ client = "up" /\ client' = "lost"
  /\ UNCHANGED <<environment, at, epochNo, lastEpoch, answer, outcome, faults>>

ChainGrows ==
  /\ \E s \in Slots : s > stored /\ stored' = s
  /\ reached' = IF stored' > reached THEN stored' ELSE reached
  /\ UNCHANGED <<known, nodeEpoch, loop, outcome, faults>>

\* No node goes back more than its security parameter from its best chain.
ChainRollsBack ==
  /\ \E s \in Slots : s < stored /\ reached - s <= 129600 /\ stored' = s
  /\ UNCHANGED <<reached, known, nodeEpoch, loop, outcome, faults>>

PoolRegistered ==
  /\ \E p \in Pools \ known : RegisteredAt[p] <= stored /\ known' = known \cup {p}
  /\ UNCHANGED <<stored, reached, nodeEpoch, loop, outcome, faults>>

NodeAdvances ==
  /\ \E e \in Epochs : e > nodeEpoch /\ nodeEpoch' = e
  /\ UNCHANGED <<stored, reached, known, loop, outcome, faults>>

Loop == GetEpochNo \/ CheckEpoch \/ GetStakeDistribution \/ StoreStakes \/ FinishEpoch
World == LoseClient \/ ChainGrows \/ ChainRollsBack \/ PoolRegistered \/ NodeAdvances
Next == Start \/ Loop \/ End \/ World

\* The loop is a goroutine of its own: the scheduler and the ticker run it.
Spec == Init /\ [][Next]_queryVars /\ WF_queryVars(Loop)

-----------------------------------------------------------------------------
\* Every variable has its type; what was registered is behind the chain's
\* highest slot, and the chain is no more than a rollback behind it.
TypeOK ==
  /\ stored \in Slots /\ reached \in Slots
  /\ stored <= reached /\ reached - stored <= 129600
  /\ known \subseteq {p \in Pools : RegisteredAt[p] <= reached}
  /\ nodeEpoch \in Epochs
  /\ client \in {"up", "lost"}
  /\ at \in {"off", "idle", "check", "stake", "store", "finish"}
  /\ epochNo \in Epochs \cup {0} /\ lastEpoch \in Epochs \cup {0}
  /\ answer \subseteq Pools
  /\ stakes \subseteq Epochs \X Pools /\ warned \subseteq Epochs \X Pools
  /\ passed \subseteq Epochs \X Pools /\ done \subseteq Epochs
  /\ faults \in 0 .. MaxFaults

Accounted(e) ==
  \E n \in Epochs : n >= e /\ \A p \in Members[n] :
    <<e, p>> \in stakes \cup warned \cup passed

\* An epoch that counts as done (service.go:251, whatever failed before) has a
\* distribution of the node, of that epoch or a later one, of which every pool
\* is stored, is warned about in the log, or was passed over because the
\* database did not show it.
DoneIsStoredOrSaid == \A e \in done : e >= 208 => Accounted(e)

\* A stored row is of a pool the database knows, and the pool was in the
\* node's distribution in the row's epoch or a later one: the epoch is read
\* before the distribution (service.go:193 and 270) and the node may move on
\* between the two.
StakeOfItsEpochOrLater ==
  \A s \in stakes : s[2] \in known /\
    \E n \in Epochs : s[1] <= n /\ n <= nodeEpoch /\ s[2] \in Members[n]

\* The epoch of a slot of the Shelley eras on the main network.
EpochOfSlot(slot) == 208 + (slot - 4492800) \div 432000

\* As long as no request and no statement failed, stake of an epoch past 400
\* is stored only after the stored chain reached epoch 405: the check at
\* service.go:211 divides the slot as if epochs had always been 432000 slots
\* long, and lets a sync run through 197 Shelley epochs without the service.
NoStakeBeforeEpoch405 ==
  faults = 0 =>
    \A s \in stakes : s[1] > 400 => EpochOfSlot(reached) >= 405

\* The connection is lost and no answer of the node is left to store.
Blind == client = "lost" /\ at \notin {"off", "store"}

\* A service without its connection stays so and stores nothing until the process
\* ends: a request that fails does not connect again (service.go:193, 270).
BlindForGood == [][Blind => (Blind' \/ at' = "off") /\ stakes' = stakes]_queryVars

\* Again and again the loop has worked through the node's epoch, or it is
\* held up by a chain that is far behind, by a lost connection, which is not
\* made again, or it is over.
NodeEpochReached ==
  /\ []<>(\/ at = "off" \/ client = "lost"
          \/ lastEpoch >= nodeEpoch \/ Historical(stored, nodeEpoch))
  /\ BlindForGood
=============================================================================
