--------------------------- MODULE StateQueryProofs ---------------------------
(***************************************************************************)
(* Proofs about StateQuery, for all pools, epochs, slots, registrations    *)
(* and distributions.  The inductive invariant says what the loop carries  *)
(* from one of its steps to the next: an epoch the node was in, a          *)
(* distribution of that epoch or a later one, the verdict of the check.    *)
(***************************************************************************)
EXTENDS StateQuery, TLAPS

Busy == {"check", "stake", "store", "finish"}

\* The loop runs only with a chain past Byron behind it.
PastByron == at # "off" => reached > 4492799

\* The epoch at work is one the node was in; the stake is asked for from
\* Shelley on.
EpochAtWork ==
  /\ at \in Busy => epochNo \in Epochs /\ epochNo <= nodeEpoch
  /\ at \in {"stake", "store"} => epochNo >= 208

\* The answer is the distribution of that epoch or a later one.
AnswerInTime ==
  at = "store" =>
    \E n \in Epochs : epochNo <= n /\ n <= nodeEpoch /\ answer = Members[n]

\* When the stake has been dealt with, every pool is accounted for.
Dealt == at = "finish" /\ epochNo >= 208 => Accounted(epochNo)

\* Past the check without a fault, the chain has reached epoch 405.
Checked ==
  faults = 0 /\ at \in {"stake", "store"} /\ epochNo > 400 => EpochOfSlot(reached) >= 405

QueryInv ==
  /\ TypeOK /\ PastByron /\ EpochAtWork /\ AnswerInTime /\ Dealt /\ Checked
  /\ DoneIsStoredOrSaid /\ StakeOfItsEpochOrLater /\ NoStakeBeforeEpoch405

-----------------------------------------------------------------------------
\* The check compares quotients; a slot it lets through is in epoch 405, and
\* so is every later one.
LEMMA QuotientMeansEpoch ==
    ASSUME NEW s \in Nat, NEW r \in Nat, s <= r, ~(s \div 432000 < 208)
    PROVE  EpochOfSlot(r) >= 405
<1>1. s >= 89856000
  BY Z3
<1>2. (r - 4492800) \div 432000 >= 197
  BY <1>1, Z3
<1> QED BY <1>2 DEF EpochOfSlot

\* An epoch of the chain stays reached.
LEMMA EpochGrows ==
    ASSUME NEW r \in Nat, NEW q \in Nat, r <= q, EpochOfSlot(r) >= 405
    PROVE  EpochOfSlot(q) >= 405
<1>1. (r - 4492800) \div 432000 >= 197
  BY DEF EpochOfSlot
<1>2. (q - 4492800) \div 432000 >= 197
  BY <1>1, Z3
<1> QED BY <1>2 DEF EpochOfSlot

\* What is accounted for stays so: warnings and rows are only added.
LEMMA AccountsLast ==
    ASSUME NEW e, Accounted(e), stakes \subseteq stakes',
           warned \subseteq warned', passed \subseteq passed'
    PROVE  Accounted(e)'
  BY DEF Accounted

\* A step that adds no row and marks no epoch keeps the three properties,
\* however the world moves.
LEMMA PropertiesLast ==
    ASSUME QueryInv, TypeOK', known \subseteq known', nodeEpoch <= nodeEpoch',
           reached <= reached', faults <= faults', stakes' = stakes, done' = done,
           warned \subseteq warned', passed \subseteq passed'
    PROVE  DoneIsStoredOrSaid' /\ StakeOfItsEpochOrLater' /\ NoStakeBeforeEpoch405'
<1> USE QueryConstants
<1>1. DoneIsStoredOrSaid'
  <2> SUFFICES ASSUME NEW e \in done, e >= 208 PROVE Accounted(e)'
    BY DEF DoneIsStoredOrSaid
  <2>1. Accounted(e)
    BY DEF QueryInv, DoneIsStoredOrSaid
  <2> QED BY <2>1, AccountsLast
<1>2. StakeOfItsEpochOrLater'
  <2> SUFFICES ASSUME NEW s \in stakes
               PROVE  s[2] \in known' /\ \E n \in Epochs :
                        s[1] <= n /\ n <= nodeEpoch' /\ s[2] \in Members[n]
    BY DEF StakeOfItsEpochOrLater
  <2>1. s[2] \in known /\ \E n \in Epochs : s[1] <= n /\ n <= nodeEpoch /\ s[2] \in Members[n]
    BY DEF QueryInv, StakeOfItsEpochOrLater
  <2>2. nodeEpoch \in Nat /\ nodeEpoch' \in Nat
    BY DEF QueryInv, TypeOK
  <2>3. s[1] \in Nat
    <3>1. s \in Epochs \X Pools
      BY DEF QueryInv, TypeOK
    <3> QED BY <3>1
  <2> QED BY <2>1, <2>2, <2>3
<1>3. NoStakeBeforeEpoch405'
  <2>1. reached \in Nat /\ reached' \in Nat /\ faults \in Nat /\ faults' \in Nat
    BY DEF QueryInv, TypeOK
  <2> SUFFICES ASSUME faults' = 0, NEW s \in stakes, s[1] > 400
               PROVE  EpochOfSlot(reached') >= 405
    BY DEF NoStakeBeforeEpoch405, EpochOfSlot
  <2>2. faults = 0
    BY <2>1
  <2>3. EpochOfSlot(reached) >= 405
    BY <2>2 DEF QueryInv, NoStakeBeforeEpoch405
  <2> QED BY <2>1, <2>3, EpochGrows
<1> QED BY <1>1, <1>2, <1>3

-----------------------------------------------------------------------------
LEMMA QueryInit == Init => QueryInv
<1> SUFFICES ASSUME Init PROVE QueryInv
  OBVIOUS
<1> USE QueryConstants
<1>1. TypeOK
  BY DEF Init, TypeOK
<1> QED BY <1>1 DEF Init, QueryInv, PastByron, EpochAtWork, Busy, AnswerInTime, Dealt, Checked,
           DoneIsStoredOrSaid, StakeOfItsEpochOrLater, NoStakeBeforeEpoch405

\* Steps of the world: slots, registrations, the node's epoch, the connection.
LEMMA WorldKeeps ==
    ASSUME QueryInv, World
    PROVE  QueryInv'
<1> USE QueryConstants
<1>1. TypeOK'
  <2>1. CASE LoseClient
    BY <2>1 DEF LoseClient, environment, outcome, QueryInv, TypeOK
  <2>2. CASE ChainGrows
    <3>1. stored \in Nat /\ stored' \in Slots /\ stored' \in Nat /\ reached \in Nat
      BY <2>2 DEF ChainGrows, QueryInv, TypeOK
    <3>2. reached' \in Slots /\ reached' \in Nat /\ reached <= reached'
          /\ stored' <= reached' /\ reached' - stored' <= 129600
      BY <2>2, <3>1 DEF ChainGrows, QueryInv, TypeOK
    <3>3. known' \subseteq {p \in Pools : RegisteredAt[p] <= reached'}
      BY <2>2, <3>1, <3>2 DEF ChainGrows, QueryInv, TypeOK
    <3> QED BY <2>2, <3>1, <3>2, <3>3 DEF ChainGrows, loop, outcome, QueryInv, TypeOK
  <2>3. CASE ChainRollsBack
    BY <2>3 DEF ChainRollsBack, loop, outcome, QueryInv, TypeOK
  <2>4. CASE PoolRegistered
    <3>1. stored \in Nat /\ reached \in Nat /\ stored <= reached
      BY DEF QueryInv, TypeOK
    <3>2. known' \subseteq {p \in Pools : RegisteredAt[p] <= reached}
      BY <2>4, <3>1 DEF PoolRegistered, QueryInv, TypeOK
    <3> QED BY <2>4, <3>2 DEF PoolRegistered, loop, outcome, QueryInv, TypeOK
  <2>5. CASE NodeAdvances
    BY <2>5 DEF NodeAdvances, loop, outcome, QueryInv, TypeOK
  <2> QED BY <2>1, <2>2, <2>3, <2>4, <2>5 DEF World
<1>2. /\ known \subseteq known' /\ nodeEpoch <= nodeEpoch' /\ reached <= reached'
      /\ UNCHANGED <<at, epochNo, answer, stakes, warned, passed, done, faults>>
  <2>1. nodeEpoch \in Nat /\ reached \in Nat /\ stored \in Nat
    BY DEF QueryInv, TypeOK
  <2> QED BY <2>1 DEF World, LoseClient, ChainGrows, ChainRollsBack, PoolRegistered, NodeAdvances,
             environment, loop, outcome
<1>3. DoneIsStoredOrSaid' /\ StakeOfItsEpochOrLater' /\ NoStakeBeforeEpoch405'
  <2>1. faults <= faults'
    BY <1>2 DEF QueryInv, TypeOK
  <2> QED BY <1>1, <1>2, <2>1, PropertiesLast
<1>4. nodeEpoch \in Nat /\ nodeEpoch' \in Nat /\ epochNo \in Nat /\ reached \in Nat /\ reached' \in Nat
  BY <1>1 DEF QueryInv, TypeOK
<1>5. PastByron' /\ EpochAtWork'
  BY <1>2, <1>4 DEF QueryInv, PastByron, EpochAtWork
<1>6. AnswerInTime'
  BY <1>2, <1>4 DEF QueryInv, AnswerInTime
<1>7. Dealt'
  BY <1>2, AccountsLast DEF QueryInv, Dealt
<1>8. Checked'
  BY <1>2, <1>4, EpochGrows DEF QueryInv, Checked
<1> QED BY <1>1, <1>3, <1>5, <1>6, <1>7, <1>8 DEF QueryInv

\* Start and End: nothing is at work, nothing is stored.
LEMMA StartAndEndKeep ==
    ASSUME QueryInv, Start \/ End
    PROVE  QueryInv'
<1> USE QueryConstants
<1>1. TypeOK'
  <2>1. UNCHANGED <<environment, outcome, faults>>
    BY DEF Start, Connect, End, environment, outcome
  <2>2. /\ client' \in {"up", "lost"} /\ at' \in {"idle", "off"} /\ lastEpoch' = 0
        /\ epochNo' = epochNo \/ epochNo' = 0
        /\ answer' = answer \/ answer' = {}
    BY DEF Start, Connect, End
  <2> QED BY <2>1, <2>2 DEF environment, outcome, QueryInv, TypeOK
<1>2. DoneIsStoredOrSaid' /\ StakeOfItsEpochOrLater' /\ NoStakeBeforeEpoch405'
  <2>1. UNCHANGED <<environment, outcome, faults>>
    BY DEF Start, Connect, End, environment, outcome
  <2>2. nodeEpoch \in Nat /\ reached \in Nat /\ faults \in Nat
    BY DEF QueryInv, TypeOK
  <2> QED BY <1>1, <2>1, <2>2, PropertiesLast DEF environment, outcome
<1>3. PastByron'
  BY DEF Start, Connect, End, environment, PastByron, QueryInv
<1>4. EpochAtWork' /\ AnswerInTime' /\ Dealt' /\ Checked'
  BY DEF Start, Connect, End, Busy, EpochAtWork, AnswerInTime, Dealt, Checked
<1> QED BY <1>1, <1>2, <1>3, <1>4 DEF QueryInv

\* The epoch the loop asks for is the node's.
LEMMA GetEpochNoKeeps ==
    ASSUME QueryInv, GetEpochNo
    PROVE  QueryInv'
<1> USE QueryConstants
<1>1. TypeOK'
  BY DEF GetEpochNo, Fault, environment, outcome, QueryInv, TypeOK
<1>2. /\ nodeEpoch \in Nat /\ reached \in Nat /\ faults \in Nat /\ faults' \in Nat
      /\ faults <= faults'
      /\ UNCHANGED <<environment, outcome, answer>>
  BY <1>1 DEF GetEpochNo, Fault, QueryInv, TypeOK
<1>3. DoneIsStoredOrSaid' /\ StakeOfItsEpochOrLater' /\ NoStakeBeforeEpoch405'
  BY <1>1, <1>2, PropertiesLast DEF environment, outcome
<1>4. PastByron'
  BY <1>2 DEF GetEpochNo, environment, PastByron, QueryInv
<1>5. EpochAtWork' /\ AnswerInTime' /\ Dealt' /\ Checked'
  <2>1. at' \in {"idle", "check"} /\ (at' = "check" => epochNo' = nodeEpoch)
    BY DEF GetEpochNo
  <2>2. nodeEpoch' = nodeEpoch /\ nodeEpoch \in Epochs
    BY <1>2 DEF environment, QueryInv, TypeOK
  <2> QED BY <2>1, <2>2, <1>2 DEF Busy, EpochAtWork, AnswerInTime, Dealt, Checked
<1> QED BY <1>1, <1>3, <1>4, <1>5 DEF QueryInv

\* The check: without a fault it saw the stored chain, which is at most a
\* rollback behind the highest slot, and so past slot 0.
LEMMA CheckEpochKeeps ==
    ASSUME QueryInv, CheckEpoch
    PROVE  QueryInv'
<1> USE QueryConstants
<1> PICK slot \in {stored, 0} :
      /\ (slot = stored /\ UNCHANGED faults) \/ (slot = 0 /\ Fault)
      /\ at' = CASE Historical(slot, epochNo) \/ epochNo <= lastEpoch -> "idle"
                 [] OTHER -> IF epochNo >= 208 THEN "stake" ELSE "finish"
  BY DEF CheckEpoch
<1>1. /\ at' \in {"idle", "stake", "finish"}
      /\ at' = "stake" => epochNo >= 208 /\ ~Historical(slot, epochNo)
      /\ at' = "finish" => ~(epochNo >= 208)
  OBVIOUS
<1>2. /\ UNCHANGED <<environment, client, epochNo, lastEpoch, answer, outcome>>
      /\ faults' = faults \/ Fault
  BY DEF CheckEpoch
<1>3. TypeOK'
  BY <1>1, <1>2 DEF Fault, environment, outcome, QueryInv, TypeOK
<1>4. /\ nodeEpoch \in Nat /\ reached \in Nat /\ stored \in Nat /\ faults \in Nat
      /\ faults' \in Nat /\ faults <= faults' /\ epochNo \in Nat
      /\ stored <= reached /\ reached - stored <= 129600
  BY <1>2, <1>3 DEF Fault, QueryInv, TypeOK
<1>5. DoneIsStoredOrSaid' /\ StakeOfItsEpochOrLater' /\ NoStakeBeforeEpoch405'
  BY <1>2, <1>3, <1>4, PropertiesLast DEF environment, outcome
<1>6. at = "check"
  BY DEF CheckEpoch
<1>7. reached > 4492799
  BY <1>6 DEF QueryInv, PastByron
<1>8. PastByron'
  BY <1>2, <1>7 DEF environment, PastByron
<1>9. EpochAtWork' /\ AnswerInTime' /\ Dealt'
  BY <1>1, <1>2, <1>6 DEF environment, Busy, QueryInv, EpochAtWork, AnswerInTime, Dealt
<1>10. Checked'
  <2> SUFFICES ASSUME faults' = 0, at' = "stake", epochNo > 400
               PROVE  EpochOfSlot(reached) >= 405
    BY <1>1, <1>2 DEF Checked, environment, EpochOfSlot
  <2>1. slot = stored
    BY <1>4 DEF Fault
  <2>2. stored > 0
    BY <1>4, <1>7
  <2>3. ~(stored \div 432000 < 208)
    BY <1>1, <1>4, <2>1, <2>2 DEF Historical
  <2> QED BY <1>4, <2>3, QuotientMeansEpoch
<1> QED BY <1>3, <1>5, <1>8, <1>9, <1>10 DEF QueryInv

\* The distribution is that of the node's epoch, and the node only advances.
LEMMA GetStakeDistributionKeeps ==
    ASSUME QueryInv, GetStakeDistribution
    PROVE  QueryInv'
<1> USE QueryConstants
<1>1. /\ at = "stake" /\ epochNo \in Epochs /\ epochNo \in Nat
      /\ epochNo <= nodeEpoch /\ epochNo >= 208
      /\ nodeEpoch \in Epochs /\ nodeEpoch \in Nat /\ reached \in Nat /\ faults \in Nat
      /\ Members[nodeEpoch] \subseteq Pools
  BY DEF GetStakeDistribution, QueryInv, TypeOK, EpochAtWork, Busy
<1>2. UNCHANGED <<environment, client, epochNo, lastEpoch, stakes, passed, done>>
  BY DEF GetStakeDistribution
<1>3. \/ answer' = Members[nodeEpoch] /\ at' = "store" /\ UNCHANGED <<warned, faults>>
      \/ /\ faults' = faults \/ Fault
         /\ warned' = warned \cup ({epochNo} \X Pools) /\ at' = "finish"
         /\ UNCHANGED answer
  BY DEF GetStakeDistribution
<1>4. TypeOK'
  BY <1>1, <1>2, <1>3 DEF Fault, environment, QueryInv, TypeOK
<1>5. warned \subseteq warned' /\ faults' \in Nat /\ faults <= faults'
  BY <1>1, <1>3 DEF Fault
<1>6. DoneIsStoredOrSaid' /\ StakeOfItsEpochOrLater' /\ NoStakeBeforeEpoch405'
  BY <1>1, <1>2, <1>4, <1>5, PropertiesLast DEF environment
<1>7. PastByron' /\ EpochAtWork'
  BY <1>1, <1>2, <1>3 DEF environment, Busy, QueryInv, PastByron, EpochAtWork
<1>8. AnswerInTime'
  BY <1>1, <1>2, <1>3 DEF environment, AnswerInTime
<1>9. Dealt'
  <2> SUFFICES ASSUME at' = "finish" PROVE Accounted(epochNo)'
    BY <1>2 DEF Dealt, Accounted
  <2>1. warned' = warned \cup ({epochNo} \X Pools)
    BY <1>3
  <2>2. \A p \in Members[nodeEpoch] : <<epochNo, p>> \in warned'
    BY <1>1, <2>1
  <2> QED BY <1>1, <1>2, <2>2 DEF Accounted
<1>10. Checked'
  BY <1>1, <1>2, <1>3, <1>5 DEF environment, QueryInv, Checked, EpochOfSlot
<1> QED BY <1>4, <1>6, <1>7, <1>8, <1>9, <1>10 DEF QueryInv

\* Storing: every pool of the answer is found or passed over, and a found one
\* is stored or warned about.
LEMMA StoreStakesKeeps ==
    ASSUME QueryInv, StoreStakes
    PROVE  QueryInv'
<1> USE QueryConstants
<1> DEFINE here == answer \cap known
           fresh(found) == {p \in found : <<epochNo, p>> \notin stakes}
<1>1. PICK found \in SUBSET here : \E rows \in SUBSET fresh(found) :
           \E committed, told \in BOOLEAN :
             /\ told => committed
             /\ IF found = here /\ rows = fresh(found) /\ told
                THEN UNCHANGED faults ELSE Fault
             /\ stakes' = IF committed THEN stakes \cup ({epochNo} \X rows) ELSE stakes
             /\ passed' = passed \cup ({epochNo} \X (answer \ found))
             /\ warned' = warned \cup ({epochNo} \X IF told THEN found \ rows ELSE answer)
  BY DEF StoreStakes
<1>2. PICK rows \in SUBSET fresh(found), committed \in BOOLEAN, told \in BOOLEAN :
             /\ told => committed
             /\ IF found = here /\ rows = fresh(found) /\ told
                THEN UNCHANGED faults ELSE Fault
             /\ stakes' = IF committed THEN stakes \cup ({epochNo} \X rows) ELSE stakes
             /\ passed' = passed \cup ({epochNo} \X (answer \ found))
             /\ warned' = warned \cup ({epochNo} \X IF told THEN found \ rows ELSE answer)
  BY <1>1
<1>3. /\ at = "store" /\ at' = "finish" /\ answer' = {}
      /\ UNCHANGED <<environment, client, epochNo, lastEpoch, done>>
  BY DEF StoreStakes
<1>4. /\ epochNo \in Epochs /\ epochNo \in Nat /\ epochNo <= nodeEpoch /\ epochNo >= 208
      /\ nodeEpoch \in Nat /\ reached \in Nat /\ faults \in Nat
      /\ answer \subseteq Pools
  BY <1>3 DEF QueryInv, TypeOK, EpochAtWork, Busy
<1>5. PICK n \in Epochs : epochNo <= n /\ n <= nodeEpoch /\ answer = Members[n]
  BY <1>3 DEF QueryInv, AnswerInTime
<1>6. /\ found \subseteq answer /\ rows \subseteq found /\ rows \subseteq known
      /\ faults' = faults \/ Fault
  BY <1>2
<1> HIDE DEF here, fresh
<1>7. TypeOK'
  <2>1. /\ stakes' \subseteq Epochs \X Pools /\ warned' \subseteq Epochs \X Pools
        /\ passed' \subseteq Epochs \X Pools
    <3>1. /\ stakes \subseteq Epochs \X Pools /\ warned \subseteq Epochs \X Pools
          /\ passed \subseteq Epochs \X Pools
      BY DEF QueryInv, TypeOK
    <3>2. {epochNo} \X rows \subseteq Epochs \X Pools
      BY <1>4, <1>6
    <3>3. {epochNo} \X (answer \ found) \subseteq Epochs \X Pools
      BY <1>4
    <3>4. {epochNo} \X (found \ rows) \subseteq Epochs \X Pools
          /\ {epochNo} \X answer \subseteq Epochs \X Pools
      BY <1>4, <1>6
    <3> QED BY <1>2, <3>1, <3>2, <3>3, <3>4
  <2> QED BY <1>3, <1>6, <2>1 DEF Fault, environment, QueryInv, TypeOK
<1>8. Accounted(epochNo)'
  <2>1. ASSUME NEW p \in Members[n]
        PROVE  <<epochNo, p>> \in stakes' \cup warned' \cup passed'
    <3>1. p \in answer
      BY <1>5
    <3>2. CASE ~told
      BY <1>2, <3>1, <3>2
    <3>3. CASE told /\ p \in rows
      BY <1>2, <3>3
    <3>4. CASE told /\ p \in found \ rows
      BY <1>2, <3>4
    <3>5. CASE p \notin found
      BY <1>2, <3>1, <3>5
    <3> QED BY <3>2, <3>3, <3>4, <3>5
  <2> QED BY <1>3, <1>5, <2>1 DEF Accounted
<1>9. stakes \subseteq stakes' /\ warned \subseteq warned' /\ passed \subseteq passed'
  BY <1>2
<1>10. DoneIsStoredOrSaid'
  <2> SUFFICES ASSUME NEW e \in done, e >= 208 PROVE Accounted(e)'
    BY <1>3 DEF DoneIsStoredOrSaid
  <2>1. Accounted(e)
    BY DEF QueryInv, DoneIsStoredOrSaid
  <2> QED BY <1>9, <2>1, AccountsLast
<1>11. \A s \in stakes' : s \in stakes \/ (s[1] = epochNo /\ s[2] \in rows)
  BY <1>2
<1>12. StakeOfItsEpochOrLater'
  <2> SUFFICES ASSUME NEW s \in stakes'
               PROVE  s[2] \in known /\ \E k \in Epochs :
                        s[1] <= k /\ k <= nodeEpoch /\ s[2] \in Members[k]
    BY <1>3 DEF StakeOfItsEpochOrLater, environment
  <2>1. CASE s \in stakes
    BY <2>1 DEF QueryInv, StakeOfItsEpochOrLater
  <2>2. CASE s[1] = epochNo /\ s[2] \in rows
    BY <1>5, <1>6, <2>2
  <2> QED BY <1>11, <2>1, <2>2
<1>13. NoStakeBeforeEpoch405'
  <2> SUFFICES ASSUME faults' = 0, NEW s \in stakes', s[1] > 400
               PROVE  EpochOfSlot(reached) >= 405
    BY <1>3 DEF NoStakeBeforeEpoch405, environment, EpochOfSlot
  <2>1. faults = 0
    BY <1>4, <1>6 DEF Fault
  <2>2. CASE s \in stakes
    BY <2>1, <2>2 DEF QueryInv, NoStakeBeforeEpoch405
  <2>3. CASE s[1] = epochNo
    BY <1>3, <2>1, <2>3 DEF QueryInv, Checked
  <2> QED BY <1>11, <2>2, <2>3
<1>14. PastByron' /\ EpochAtWork' /\ AnswerInTime' /\ Checked'
  BY <1>3, <1>4 DEF environment, Busy, QueryInv, PastByron, EpochAtWork, AnswerInTime, Checked
<1>15. Dealt'
  BY <1>3, <1>8 DEF Dealt, Accounted
<1> QED BY <1>7, <1>10, <1>12, <1>13, <1>14, <1>15 DEF QueryInv

\* The epoch that is done has been dealt with.
LEMMA FinishEpochKeeps ==
    ASSUME QueryInv, FinishEpoch
    PROVE  QueryInv'
<1> USE QueryConstants
<1>1. /\ at = "finish" /\ at' = "idle" /\ lastEpoch' = epochNo
      /\ done' = done \cup {epochNo}
      /\ UNCHANGED <<environment, client, epochNo, answer, stakes, warned, passed, faults>>
  BY DEF FinishEpoch
<1>2. epochNo \in Epochs
  BY <1>1 DEF QueryInv, EpochAtWork, Busy
<1>3. TypeOK'
  BY <1>1, <1>2 DEF environment, QueryInv, TypeOK
<1>4. DoneIsStoredOrSaid'
  <2> SUFFICES ASSUME NEW e \in done \cup {epochNo}, e >= 208 PROVE Accounted(e)
    BY <1>1 DEF DoneIsStoredOrSaid, Accounted
  <2>1. CASE e \in done
    BY <2>1 DEF QueryInv, DoneIsStoredOrSaid
  <2>2. CASE e = epochNo
    BY <1>1, <2>2 DEF QueryInv, Dealt
  <2> QED BY <2>1, <2>2
<1>5. StakeOfItsEpochOrLater' /\ NoStakeBeforeEpoch405'
  BY <1>1 DEF environment, QueryInv, StakeOfItsEpochOrLater, NoStakeBeforeEpoch405, EpochOfSlot
<1>6. PastByron' /\ EpochAtWork' /\ AnswerInTime' /\ Dealt' /\ Checked'
  BY <1>1 DEF environment, Busy, QueryInv, PastByron, EpochAtWork, AnswerInTime, Dealt, Checked
<1> QED BY <1>3, <1>4, <1>5, <1>6 DEF QueryInv

LEMMA StutterKeeps ==
    ASSUME QueryInv, UNCHANGED queryVars
    PROVE  QueryInv'
  BY DEF queryVars, environment, loop, outcome, QueryInv, TypeOK, PastByron, EpochAtWork,
         AnswerInTime, Dealt, Checked, DoneIsStoredOrSaid, Accounted,
         StakeOfItsEpochOrLater, NoStakeBeforeEpoch405, EpochOfSlot

\* The invariant holds in every behaviour.
THEOREM QueryInvariant == Spec => []QueryInv
<1>1. QueryInv /\ [Next]_queryVars => QueryInv'
  BY WorldKeeps, StartAndEndKeep, GetEpochNoKeeps, CheckEpochKeeps, GetStakeDistributionKeeps,
     StoreStakesKeeps, FinishEpochKeeps, StutterKeeps DEF Next, Loop
<1> QED BY QueryInit, <1>1, PTL DEF Spec

-----------------------------------------------------------------------------
\* Every variable has its type in every reachable state of the service
\* (service.go:65), and the stored chain is never more than a rollback behind
\* its highest slot.
THEOREM QueryTyped == Spec => []TypeOK
<1>1. QueryInv => TypeOK
  BY DEF QueryInv
<1> QED BY QueryInvariant, <1>1, PTL

\* An epoch counts as done (service.go:251) only when every pool of one of the
\* node's distributions, of that epoch or a later one, is stored, warned about
\* or passed over.
THEOREM DoneEpochsAccounted == Spec => []DoneIsStoredOrSaid
<1>1. QueryInv => DoneIsStoredOrSaid
  BY DEF QueryInv
<1> QED BY QueryInvariant, <1>1, PTL

\* A stored row is of a known pool and of a distribution the node had in the
\* row's epoch or later (service.go:193 and 270 ask the node twice).
THEOREM StakeIsInTime == Spec => []StakeOfItsEpochOrLater
<1>1. QueryInv => StakeOfItsEpochOrLater
  BY DEF QueryInv
<1> QED BY QueryInvariant, <1>1, PTL

\* Without a fault no stake of an epoch past 400 is stored before the chain
\* has reached epoch 405 (the division of service.go:211).
THEOREM NoEarlyStake == Spec => []NoStakeBeforeEpoch405
<1>1. QueryInv => NoStakeBeforeEpoch405
  BY DEF QueryInv
<1> QED BY QueryInvariant, <1>1, PTL

\* Once the connection is lost the service stores nothing more and never gets it
\* back, until the process ends (service.go:193, 270): the exception of
\* NodeEpochReached has no end but that one.
THEOREM LostClientStaysLost == Spec => BlindForGood
<1> DEFINE Kept == Blind => (Blind' \/ at' = "off") /\ stakes' = stakes
<1>1. ASSUME Start \/ End, Blind PROVE Kept
  BY <1>1 DEF Start, Connect, End, outcome, Blind
<1>2. ASSUME Loop, Blind PROVE Kept
  BY <1>2 DEF Loop, GetEpochNo, CheckEpoch, GetStakeDistribution, StoreStakes, FinishEpoch,
             outcome, Blind
<1>3. ASSUME World, Blind PROVE Kept
  BY <1>3 DEF World, LoseClient, ChainGrows, ChainRollsBack, PoolRegistered, NodeAdvances,
             loop, outcome, Blind
<1>4. [Next]_queryVars => [Kept]_queryVars
  BY <1>1, <1>2, <1>3 DEF Next
<1> QED BY <1>4, PTL DEF Spec, BlindForGood
=============================================================================
