------------------------- MODULE EpochScheduleProofs -------------------------
(***************************************************************************)
(* Proofs about EpochSchedule, for any slots and workers.                  *)
(***************************************************************************)
EXTENDS EpochSchedule, TLAPS

-----------------------------------------------------------------------------
(* The arithmetic                                                          *)

\* The chain has Byron blocks up to the last Byron slot, and later ones after it.
LEMMA TypesSplit ==
    ASSUME NEW slot \in Nat, NEW type \in TypesAt(slot)
    PROVE  /\ type \in ByronTypes <=> slot < 4492800
           /\ type \in BlockTypes
  BY DEF TypesAt, ByronTypes, ShelleyTypes, BlockTypes, GetEraFromSlot, ByronEraEndSlot,
         ShelleyEraEndSlot, AllegraEraEndSlot, MaryEraEndSlot, AlonzoEraEndSlot

\* The definition of a block's epoch by its slot alone
LEMMA EpochBySlot ==
    ASSUME NEW slot \in Nat, NEW type \in TypesAt(slot)
    PROVE  getEpochForSlot(slot, type)
             = IF slot < 4492800 THEN slot \div 21600 ELSE 208 + (slot - 4492800) \div 432000
  BY TypesSplit DEF getEpochForSlot, ByronEraEndSlot

LEMMA TimeBySlot ==
    ASSUME NEW slot \in Nat, NEW type \in TypesAt(slot)
    PROVE  getBlockTime(slot, type) = IF slot < 4492800 THEN 20 * slot ELSE 85363200 + slot
  BY TypesSplit DEF getBlockTime

LEMMA EpochInNat ==
    ASSUME NEW slot \in Nat, NEW type \in TypesAt(slot)
    PROVE  getEpochForSlot(slot, type) \in Nat
  BY EpochBySlot

\* A later slot is in a later epoch or the same, also across the end of Byron.
LEMMA EpochMonotone ==
    ASSUME NEW a \in Nat, NEW b \in Nat, NEW s \in TypesAt(a), NEW t \in TypesAt(b), a < b
    PROVE  getEpochForSlot(a, s) <= getEpochForSlot(b, t)
<1>1. CASE b < 4492800
  BY <1>1, EpochBySlot
<1>2. CASE a < 4492800 /\ b >= 4492800
  <2>1. a \div 21600 <= 208
    BY <1>2
  <2> QED
    BY <1>2, <2>1, EpochBySlot
<1>3. CASE a >= 4492800
  BY <1>3, EpochBySlot
<1> QED
  BY <1>1, <1>2, <1>3

LEMMA TimeMonotone ==
    ASSUME NEW a \in Nat, NEW b \in Nat, NEW s \in TypesAt(a), NEW t \in TypesAt(b), a < b
    PROVE  getBlockTime(a, s) < getBlockTime(b, t)
  BY TimeBySlot

\* The epochs at which batch sizes change begin at the slots at which eras do.
LEMMA ConfigMatchesEra ==
    ASSUME NEW slot \in Nat, NEW type \in TypesAt(slot)
    PROVE  GetEraFromSlot(slot) \in GetEraConfig(getEpochForSlot(slot, type))
<1> DEFINE e == getEpochForSlot(slot, type)
<1>1. CASE slot < 4492800
  <2>1. slot \div 21600 < 208 /\ slot \div 21600 \in Nat
    BY <1>1
  <2> QED
    BY <1>1, <2>1, EpochBySlot DEF GetEraFromSlot, GetEraConfig, ByronEraEndSlot,
       ShelleyEraEndSlot, AllegraEraEndSlot, MaryEraEndSlot, AlonzoEraEndSlot
<1>2. CASE slot >= 4492800
  <2> DEFINE k == (slot - 4492800) \div 432000
  <2>1. e = 208 + k /\ k \in Nat
    BY <1>2, EpochBySlot
  <2>2. /\ k < 28 <=> slot < 16588800
        /\ k < 82 <=> slot < 39916800
        /\ k < 157 <=> slot < 72316800
    BY <1>2
  <2>3. CASE k < 28
    BY <1>2, <2>1, <2>2, <2>3 DEF GetEraFromSlot, GetEraConfig, ByronEraEndSlot,
       ShelleyEraEndSlot, AllegraEraEndSlot, MaryEraEndSlot, AlonzoEraEndSlot
  <2>4. CASE k \in 28 .. 81
    BY <1>2, <2>1, <2>2, <2>4 DEF GetEraFromSlot, GetEraConfig, ByronEraEndSlot,
       ShelleyEraEndSlot, AllegraEraEndSlot, MaryEraEndSlot, AlonzoEraEndSlot
  <2>5. CASE k \in 82 .. 156
    BY <1>2, <2>1, <2>2, <2>5 DEF GetEraFromSlot, GetEraConfig, ByronEraEndSlot,
       ShelleyEraEndSlot, AllegraEraEndSlot, MaryEraEndSlot, AlonzoEraEndSlot
  <2>6. CASE k >= 157
    BY <1>2, <2>1, <2>2, <2>6 DEF GetEraFromSlot, GetEraConfig, ByronEraEndSlot,
       ShelleyEraEndSlot, AllegraEraEndSlot, MaryEraEndSlot, AlonzoEraEndSlot
  <2> QED
    BY <2>1, <2>3, <2>4, <2>5, <2>6
<1> QED
  BY <1>1, <1>2

FirstSlot(epoch) == IF epoch < 208 THEN 21600 * epoch ELSE 4492800 + 432000 * (epoch - 208)

\* A slot since Shelley that passes the boundary test is 259200 slots into its epoch.
LEMMA BoundaryOffset ==
    ASSUME NEW slot \in Nat, NEW type \in TypesAt(slot), slot >= 4492800,
           isEpochBoundary(slot, type)
    PROVE  slot = FirstSlot(getEpochForSlot(slot, type)) + 259200
<1>1. slot % 432000 = 0
  BY TypesSplit DEF isEpochBoundary, ByronTypes
<1>2. getEpochForSlot(slot, type) = 208 + (slot - 4492800) \div 432000
  BY EpochBySlot
<1>3. (slot - 4492800) \div 432000 \in Nat
  OBVIOUS
<1>4. slot = 4492800 + 432000 * ((slot - 4492800) \div 432000) + 259200
  BY <1>1
<1> QED
  BY <1>2, <1>3, <1>4 DEF FirstSlot

\* Since Shelley no block that passes the test of processEpochBoundary is in the first
\* slot of its epoch (block_processor.go:917), although it logs "Epoch boundary: entering
\* epoch %d at slot %d" (block_processor.go:1052): the boundary is processed in the middle
\* of the epoch, or not at all.
THEOREM BoundaryNeverFirst ==
    ASSUME NEW slot \in Nat, NEW type \in TypesAt(slot), slot >= 4492800,
           isEpochBoundary(slot, type)
    PROVE  slot # FirstSlot(getEpochForSlot(slot, type))
<1>1. getEpochForSlot(slot, type) \in Nat
  BY EpochInNat
<1>2. FirstSlot(getEpochForSlot(slot, type)) \in Nat
  BY <1>1 DEF FirstSlot
<1> QED
  BY <1>2, BoundaryOffset

-----------------------------------------------------------------------------
(* The block processors                                                    *)

\* What a row says is what the definitions say of its slot and type; the batch sizes
\* are those of the processor's epoch.
RowInv ==
    /\ row \in [Workers -> {NoRow} \cup
                 {[slot |-> s, type |-> t, epoch |-> getEpochForSlot(s, t),
                   time |-> getBlockTime(s, t)] : s \in Slots, t \in BlockTypes}]
    /\ \A w \in Stored : row[w].type \in TypesAt(row[w].slot)
    /\ currentEpoch \in [Workers -> Nat]
    /\ currentConfig = [w \in Workers |-> GetEraConfig(currentEpoch[w])]

\* What a stored row holds
LEMMA RowFields ==
    ASSUME RowInv, NEW w \in Stored
    PROVE  /\ row[w].slot \in Slots /\ row[w].slot \in Nat
           /\ row[w].type \in TypesAt(row[w].slot)
           /\ row[w].epoch = getEpochForSlot(row[w].slot, row[w].type)
           /\ row[w].time = getBlockTime(row[w].slot, row[w].type)
<1>1. PICK s \in Slots, t \in BlockTypes :
         row[w] = [slot |-> s, type |-> t, epoch |-> getEpochForSlot(s, t),
                   time |-> getBlockTime(s, t)]
  BY DEF RowInv, Stored
<1>2. row[w].slot = s /\ row[w].type = t /\ row[w].epoch = getEpochForSlot(s, t)
      /\ row[w].time = getBlockTime(s, t)
  BY <1>1
<1> QED
  BY <1>2, SlotsAssumption DEF RowInv

LEMMA InitRowInv == Init => RowInv
  BY DEF Init, RowInv, Stored

LEMMA StepRowInv == RowInv /\ [Next]_vars => RowInv'
<1> SUFFICES ASSUME RowInv, [Next]_vars PROVE RowInv'
  OBVIOUS
<1>1. ASSUME NEW w \in Workers, ProcessBlock(w)
      PROVE  RowInv'
  <2>0. PICK slot \in Slots : \E type \in TypesAt(slot) :
           /\ updateEraConfig(w, getEpochForSlot(slot, type))
           /\ row' = [row EXCEPT ![w] =
                [slot |-> slot, type |-> type, epoch |-> getEpochForSlot(slot, type),
                 time |-> getBlockTime(slot, type)]]
    BY <1>1, Zenon DEF ProcessBlock
  <2>1. PICK type \in TypesAt(slot) :
           /\ updateEraConfig(w, getEpochForSlot(slot, type))
           /\ row' = [row EXCEPT ![w] =
                [slot |-> slot, type |-> type, epoch |-> getEpochForSlot(slot, type),
                 time |-> getBlockTime(slot, type)]]
    BY <2>0
  <2> DEFINE e == getEpochForSlot(slot, type)
             r == [slot |-> slot, type |-> type, epoch |-> e,
                   time |-> getBlockTime(slot, type)]
  <2>2. slot \in Nat /\ type \in BlockTypes /\ e \in Nat
    BY SlotsAssumption, TypesSplit, EpochInNat
  <2>3. currentEpoch' \in [Workers -> Nat]
    BY <2>1, <2>2 DEF updateEraConfig, RowInv
  <2>4. currentConfig' = [v \in Workers |-> GetEraConfig(currentEpoch'[v])]
    <3>1. CASE e # currentEpoch[w]
      <4> HIDE DEF e
      <4>1. currentEpoch' = [currentEpoch EXCEPT ![w] = e]
            /\ currentConfig' = [currentConfig EXCEPT ![w] = GetEraConfig(e)]
        BY <2>1, <3>1 DEF updateEraConfig, e
      <4>2. \A v \in Workers :
               currentConfig'[v] = GetEraConfig(currentEpoch'[v])
        BY <4>1 DEF RowInv
      <4>3. currentConfig' = [v \in Workers |-> currentConfig'[v]]
        BY <4>1 DEF RowInv
      <4> QED
        BY <4>2, <4>3
    <3>2. CASE e = currentEpoch[w]
      BY <2>1, <3>2 DEF updateEraConfig, RowInv
    <3> QED
      BY <3>1, <3>2
  <2>5. row' = [row EXCEPT ![w] = r]
    BY <2>1
  <2>6. r \in {[slot |-> s, type |-> t, epoch |-> getEpochForSlot(s, t),
                time |-> getBlockTime(s, t)] : s \in Slots, t \in BlockTypes}
    BY <2>2
  <2>7. row' \in [Workers -> {NoRow} \cup
                 {[slot |-> s, type |-> t, epoch |-> getEpochForSlot(s, t),
                   time |-> getBlockTime(s, t)] : s \in Slots, t \in BlockTypes}]
    BY <2>5, <2>6 DEF RowInv
  <2>8. \A v \in Stored' : row'[v].type \in TypesAt(row'[v].slot)
    <3> SUFFICES ASSUME NEW v \in Workers, row'[v] # NoRow
                 PROVE  row'[v].type \in TypesAt(row'[v].slot)
      BY DEF Stored
    <3>1. CASE v = w
      <4>1. row'[v].slot = slot /\ row'[v].type = type
        BY <2>5, <3>1 DEF RowInv
      <4> QED
        BY <4>1
    <3>2. CASE v # w
      BY <2>5, <3>2 DEF RowInv, Stored
    <3> QED
      BY <3>1, <3>2
  <2> QED
    BY <2>3, <2>4, <2>7, <2>8 DEF RowInv
<1>2. ASSUME NEW w \in Workers, RecoverProcessor(w)
      PROVE  RowInv'
  BY <1>2 DEF RecoverProcessor, RowInv, Stored
<1>3. ASSUME UNCHANGED vars
      PROVE  RowInv'
  BY <1>3 DEF vars, RowInv, Stored
<1> QED
  BY <1>1, <1>2, <1>3 DEF Next

LEMMA AlwaysRowInv == Spec => []RowInv
  BY InitRowInv, StepRowInv, PTL DEF Spec

\* What is stored of a block is well typed.
THEOREM ScheduleTyped == Spec => []TypeOK
<1>1. RowInv => TypeOK
  <2> SUFFICES ASSUME RowInv, NEW w \in Stored
               PROVE  /\ row[w].slot \in Slots /\ row[w].type \in BlockTypes
                      /\ row[w].epoch \in Nat /\ row[w].time \in Nat
    BY DEF TypeOK, RowInv
  <2> QED
    BY RowFields, TypesSplit, EpochInNat, TimeBySlot
<1> QED
  BY <1>1, AlwaysRowInv, PTL

\* The rows of any two blocks are in the same order by slot and by time, and their
\* epochs do not contradict it.
THEOREM RowsAreOrdered == Spec => []RowsInOrder
<1>1. RowInv => RowsInOrder
  BY RowFields, EpochMonotone, TimeMonotone DEF RowsInOrder
<1> QED
  BY <1>1, AlwaysRowInv, PTL

\* Since Shelley at most one slot of an epoch passes the boundary test.
THEOREM OneBoundaryInEpoch == Spec => []OneBoundaryBlock
<1>1. ASSUME RowInv, NEW w \in Stored, row[w].type \in ShelleyTypes,
             isEpochBoundary(row[w].slot, row[w].type)
      PROVE  row[w].slot = FirstSlot(row[w].epoch) + 259200
  <2>1. row[w].type \notin ByronTypes
    BY <1>1 DEF ShelleyTypes, ByronTypes
  <2>2. row[w].slot >= 4492800
    BY <1>1, <2>1, RowFields, TypesSplit
  <2> QED
    BY <1>1, <2>2, RowFields, BoundaryOffset
<1>2. RowInv => OneBoundaryBlock
  BY <1>1 DEF OneBoundaryBlock
<1> QED
  BY <1>2, AlwaysRowInv, PTL

\* A block is stored with the batch sizes of its era.
THEOREM ConfigsFollowEras == Spec => ConfigFollowsEra
<1>1. RowInv /\ RowInv' /\ [Next]_vars =>
         [\A w \in Workers : row'[w] # row[w] =>
             GetEraFromSlot(row'[w].slot) \in currentConfig'[w]]_vars
  <2> SUFFICES ASSUME RowInv, RowInv', [Next]_vars, NEW w \in Workers, row'[w] # row[w]
               PROVE  GetEraFromSlot(row'[w].slot) \in currentConfig'[w]
    OBVIOUS
  <2>1. PICK v \in Workers : ProcessBlock(v)
    BY DEF Next, RecoverProcessor, vars
  <2>a. PICK slot \in Slots : \E type \in TypesAt(slot) :
           /\ updateEraConfig(v, getEpochForSlot(slot, type))
           /\ row' = [row EXCEPT ![v] =
                [slot |-> slot, type |-> type, epoch |-> getEpochForSlot(slot, type),
                 time |-> getBlockTime(slot, type)]]
    BY <2>1 DEF ProcessBlock
  <2>2. PICK type \in TypesAt(slot) :
           /\ updateEraConfig(v, getEpochForSlot(slot, type))
           /\ row' = [row EXCEPT ![v] =
                [slot |-> slot, type |-> type, epoch |-> getEpochForSlot(slot, type),
                 time |-> getBlockTime(slot, type)]]
    BY <2>a
  <2>3. v = w /\ row'[w].slot = slot
    BY <2>2 DEF RowInv
  <2>4. currentEpoch'[w] = getEpochForSlot(slot, type)
    BY <2>2, <2>3 DEF updateEraConfig, RowInv
  <2>5. currentConfig'[w] = GetEraConfig(getEpochForSlot(slot, type))
    BY <2>4 DEF RowInv
  <2> QED
    BY <2>3, <2>5, ConfigMatchesEra, SlotsAssumption
<1> QED
  BY <1>1, AlwaysRowInv, PTL DEF Spec, ConfigFollowsEra

-----------------------------------------------------------------------------
(* The computations that disagree                                          *)

\* An epoch that counts from the start of the chain in Shelley's slots is 197 or 198
\* behind: Byron took 208 epochs for ten of Shelley's and two fifths.
LEMMA LagOfSlot ==
    ASSUME NEW slot \in Nat, slot >= 4492800
    PROVE  208 + (slot - 4492800) \div 432000 - slot \div 432000 \in {197, 198}
<1> DEFINE q == slot \div 432000
           k == (slot - 4492800) \div 432000
<1>1. q \in Int /\ 432000 * q <= slot /\ slot < 432000 * q + 432000
  OBVIOUS
<1>2. k \in Int /\ 432000 * k <= slot - 4492800 /\ slot - 4492800 < 432000 * k + 432000
  OBVIOUS
<1>3. k = q - 11 \/ k = q - 10
  <2> HIDE DEF q, k
  <2> QED BY <1>1, <1>2
<1> QED
  BY <1>1, <1>2, <1>3

\* Since Shelley the epoch stored with a certificate is 197 or 198 behind its block's.
THEOREM CertificatesLag == Spec => []CertificateEpochLags
<1>1. RowInv => CertificateEpochLags
  <2> SUFFICES ASSUME RowInv, NEW w \in Stored, row[w].type \in ShelleyTypes
               PROVE  row[w].epoch - slotToEpoch(row[w].slot) \in {197, 198}
    BY DEF CertificateEpochLags
  <2>1. row[w].type \notin ByronTypes
    BY DEF ShelleyTypes, ByronTypes
  <2>2. row[w].slot \in Nat /\ row[w].slot >= 4492800
    BY <2>1, RowFields, TypesSplit
  <2>3. row[w].epoch = 208 + (row[w].slot - 4492800) \div 432000
    BY <2>2, RowFields, EpochBySlot
  <2> QED
    BY <2>2, <2>3, LagOfSlot DEF slotToEpoch
<1> QED
  BY <1>1, AlwaysRowInv, PTL

\* Each era has its place.
LEMMA Places ==
    /\ Place("Byron") = 1 /\ Place("Shelley") = 2 /\ Place("Allegra") = 3
    /\ Place("Mary") = 4 /\ Place("Alonzo") = 5 /\ Place("Babbage") = 6
    /\ Place("Conway") = 7
<1>1. DOMAIN Eras = 1 .. 7
  BY DEF Eras
<1>2. /\ Eras[1] = "Byron" /\ Eras[2] = "Shelley" /\ Eras[3] = "Allegra"
      /\ Eras[4] = "Mary" /\ Eras[5] = "Alonzo" /\ Eras[6] = "Babbage"
      /\ Eras[7] = "Conway"
  BY DEF Eras
<1>3. ASSUME NEW i \in 1 .. 7, NEW j \in 1 .. 7, Eras[i] = Eras[j]
      PROVE  i = j
  BY <1>2, <1>3
<1>4. ASSUME NEW i \in 1 .. 7
      PROVE  Place(Eras[i]) = i
  <2>1. Place(Eras[i]) \in DOMAIN Eras /\ Eras[Place(Eras[i])] = Eras[i]
    BY <1>1, Zenon DEF Place
  <2> QED
    BY <1>1, <1>3, <2>1
<1> QED
  BY <1>2, <1>4

\* The era a block of a slot has, the parameters of its epoch, the era displayed
LEMMA PlacesOfSlot ==
    ASSUME NEW slot \in Nat, NEW type \in TypesAt(slot)
    PROVE  LET block     == Place(EraOf(type))
               params    == Place(GetEraForEpoch(getEpochForSlot(slot, type)))
               displayed == Place(DisplayedEra(slot))
           IN  /\ block <= params
               /\ block < params => getEpochForSlot(slot, type) \in 491 .. 506
               /\ block <= displayed
               /\ block < displayed => displayed = Place(GetEraFromSlot(slot + 62))
<1> DEFINE e == getEpochForSlot(slot, type)
           k == (slot - 4492800) \div 432000
<1> USE DEF ByronEraEndSlot, ShelleyEraEndSlot, AllegraEraEndSlot, MaryEraEndSlot,
            AlonzoEraEndSlot
<1>1. CASE slot < 4492800
  <2>1. type \in ByronTypes
    BY <1>1, TypesSplit
  <2>2. e = slot \div 21600
    BY <1>1, EpochBySlot
  <2>3. e \in Nat /\ e < 208
    BY <1>1, <2>2
  <2> HIDE DEF e
  <2> QED
    BY <1>1, <2>1, <2>3, Places DEF e, EraOf, GetEraForEpoch, DisplayedEra
<1>2. CASE slot >= 4492800
  <2>1. e = 208 + k
    BY <1>2, EpochBySlot
  <2>2. k \in Nat /\ 432000 * k <= slot - 4492800 /\ slot - 4492800 < 432000 * k + 432000
    BY <1>2
  <2>3. /\ type = IF slot >= 133660800 THEN "Conway" ELSE GetEraFromSlot(slot)
        /\ EraOf(type) = type
    BY <1>2 DEF TypesAt, EraOf, ByronTypes, GetEraFromSlot
  <2> HIDE DEF e, k
  <2>4. /\ k < 28 <=> slot < 16588800
        /\ k < 43 <=> slot < 23068800
        /\ k < 82 <=> slot < 39916800
        /\ k < 157 <=> slot < 72316800
        /\ k < 299 <=> slot < 133660800
    BY <2>2
  <2>5. /\ Place(EraOf(type)) <= Place(GetEraForEpoch(e))
        /\ Place(EraOf(type)) < Place(GetEraForEpoch(e)) => e \in 491 .. 506
    BY <1>2, <2>1, <2>2, <2>3, <2>4, Places DEF GetEraForEpoch, GetEraFromSlot
  <2>6. /\ Place(EraOf(type)) <= Place(DisplayedEra(slot))
        /\ Place(EraOf(type)) < Place(DisplayedEra(slot)) =>
             Place(DisplayedEra(slot)) = Place(GetEraFromSlot(slot + 62))
    BY <1>2, <2>3, Places DEF DisplayedEra, GetEraFromSlot
  <2> QED
    BY <2>5, <2>6 DEF e
<1> QED
  BY <1>1, <1>2

\* Neither parameters nor display are of an era before the block's, and of a later one
\* only where four lists of constants disagree.
THEOREM ErasAreNeverBehind == Spec => []ErasNeverBehind
<1>1. RowInv => ErasNeverBehind
  BY RowFields, PlacesOfSlot DEF ErasNeverBehind
<1> QED
  BY <1>1, AlwaysRowInv, PTL
=============================================================================
