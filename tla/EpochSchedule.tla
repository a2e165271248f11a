---------------------------- MODULE EpochSchedule ----------------------------
(***************************************************************************)
(* What a slot number says about a block of the Cardano mainnet: its       *)
(* epoch, its time, its era, the batch sizes used for it and whether it is *)
(* at an epoch boundary, each as the part of the program that needs it     *)
(* computes it, and the block processors that store the answers.           *)
(*                                                                         *)
(* Times are seconds since the start of Byron.  Batch sizes are            *)
(* represented by the era they are meant for.                              *)
(***************************************************************************)
EXTENDS Integers

CONSTANTS
    Slots,          \* the slots that have blocks
    Workers         \* the workers, each with a block processor

ASSUME SlotsAssumption == Slots \subseteq Nat

-----------------------------------------------------------------------------
(* Eras and block types                                                    *)

ByronEraEndSlot   == 4492799
ShelleyEraEndSlot == 16588799
AllegraEraEndSlot == 23068799
MaryEraEndSlot    == 39916799
AlonzoEraEndSlot  == 72316799

ByronTypes   == {"ByronEBB", "ByronMain"}
ShelleyTypes == {"Shelley", "Allegra", "Mary", "Alonzo", "Babbage", "Conway"}
BlockTypes   == ByronTypes \cup ShelleyTypes

\* GetEraFromSlot of package constants
GetEraFromSlot(slot) ==
    IF slot <= ByronEraEndSlot THEN "Byron"
    ELSE IF slot <= ShelleyEraEndSlot THEN "Shelley"
    ELSE IF slot <= AllegraEraEndSlot THEN "Allegra"
    ELSE IF slot <= MaryEraEndSlot THEN "Mary"
    ELSE IF slot <= AlonzoEraEndSlot THEN "Alonzo"
    ELSE "Babbage"

\* The era the dashboards show
DisplayedEra(slot) ==
    IF slot >= 133660800 THEN "Conway"
    ELSE IF slot >= 72316797 THEN "Babbage"
    ELSE IF slot >= 39916797 THEN "Alonzo"
    ELSE IF slot >= 23068794 THEN "Mary"
    ELSE IF slot >= 16588738 THEN "Allegra"
    ELSE IF slot >= 4492800 THEN "Shelley"
    ELSE "Byron"

\* The types of block the chain has at a slot: an EBB opens each Byron epoch
TypesAt(slot) ==
    IF slot <= ByronEraEndSlot
      THEN {"ByronMain"} \cup {t \in {"ByronEBB"} : slot % 21600 = 0}
      ELSE {IF slot >= 133660800 THEN "Conway" ELSE GetEraFromSlot(slot)}

-----------------------------------------------------------------------------
(* Epochs                                                                  *)

\* The epoch of a block.  Types outside the two lists are treated as Shelley's.
getEpochForSlot(slot, type) ==
    IF slot # ByronEraEndSlot + 1 /\ (type \in ByronTypes \/ slot < 4492800)
      THEN slot \div 21600
      ELSE 208 + (slot - 4492800) \div 432000

\* Mutant: Shelley's slots counted from the start of Byron, one second each
TimeUnadjusted(slot, type) == IF type \in ByronTypes THEN 20 * slot ELSE slot

getBlockTime(slot, type) ==
    IF slot # 4492800 /\ (type \in ByronTypes \/ slot < 4492800)
      THEN 20 * slot
      ELSE 20 * 4492800 + (slot - 4492800)

\* Mutant: Byron's epochs for every block
BoundaryByByron(slot, type) == type = "ByronEBB" \/ slot % 21600 = 0

isEpochBoundary(slot, type) ==
    \/ type = "ByronEBB"
    \/ type = "ByronMain" /\ slot % 21600 = 0
    \/ type \notin ByronTypes /\ slot % 432000 = 0

\* Mutant: Byron's epochs
ByronEpochs(slot) == slot \div 21600

\* The epoch as the certificate and governance processors and the state query
\* service compute it from a slot.  (Where the first cannot read the slot it warns
\* and takes 0, certificate_processor.go:424.)
slotToEpoch(slot) == slot \div 432000

\* The batch sizes a processor uses in an epoch, by the eras they are meant for
GetEraConfig(epoch) ==
    IF epoch < 208 THEN {"Byron"}
    ELSE IF epoch < 236 THEN {"Shelley"}
    ELSE IF epoch < 290 THEN {"Allegra", "Mary"}
    ELSE IF epoch < 365 THEN {"Alonzo"}
    ELSE {"Babbage", "Conway"}

\* Mutant: an era's parameters from its second epoch on
ParamsOneLate(epoch) ==
    IF epoch <= 208 THEN "Byron"
    ELSE IF epoch <= 236 THEN "Shelley"
    ELSE IF epoch <= 251 THEN "Allegra"
    ELSE IF epoch <= 290 THEN "Mary"
    ELSE IF epoch <= 365 THEN "Alonzo"
    ELSE IF epoch <= 491 THEN "Babbage"
    ELSE "Conway"

\* The era whose protocol parameters are stored for an epoch
GetEraForEpoch(epoch) ==
    IF epoch < 208 THEN "Byron"
    ELSE IF epoch < 236 THEN "Shelley"
    ELSE IF epoch < 251 THEN "Allegra"
    ELSE IF epoch < 290 THEN "Mary"
    ELSE IF epoch < 365 THEN "Alonzo"
    ELSE IF epoch < 491 THEN "Babbage"
    ELSE "Conway"

-----------------------------------------------------------------------------
(* The block processors                                                    *)

VARIABLES
    row,            \* the row each worker stored last: slot, type, epoch and time
    currentEpoch,   \* each processor's epoch
    currentConfig   \* and the batch sizes it uses

vars == <<row, currentEpoch, currentConfig>>

NoRow == [slot |-> -1, type |-> "none", epoch |-> 0, time |-> -1]

Stored == {w \in Workers : row[w] # NoRow}

\* Mutant: the batch sizes change with the next block only
ConfigOneLate(w, epoch) ==
    /\ currentEpoch' = [currentEpoch EXCEPT ![w] = epoch]
    /\ currentConfig' = [currentConfig EXCEPT ![w] = GetEraConfig(currentEpoch[w])]

\* Before anything else of a block the processor adapts itself to its epoch
updateEraConfig(w, epoch) ==
    IF epoch # currentEpoch[w]
      THEN /\ currentEpoch' = [currentEpoch EXCEPT ![w] = epoch]
           /\ currentConfig' = [currentConfig EXCEPT ![w] = GetEraConfig(epoch)]
      ELSE UNCHANGED <<currentEpoch, currentConfig>>

\* A worker gets blocks in any order: others take the blocks in between, a block may
\* be tried again, and a rollback or a restart takes the chain back.
ProcessBlock(w) ==
    \E slot \in Slots : \E type \in TypesAt(slot) :
        LET epoch == getEpochForSlot(slot, type)
        IN  /\ updateEraConfig(w, epoch)
            /\ row' = [row EXCEPT ![w] = [slot |-> slot, type |-> type, epoch |-> epoch,
                                          time |-> getBlockTime(slot, type)]]

\* After an error, a worker goes on with a new processor
RecoverProcessor(w) ==
    /\ currentEpoch' = [currentEpoch EXCEPT ![w] = 0]
    /\ currentConfig' = [currentConfig EXCEPT ![w] = GetEraConfig(0)]
    /\ UNCHANGED row

Init ==
    /\ row = [w \in Workers |-> NoRow]
    /\ currentEpoch = [w \in Workers |-> 0]
    /\ currentConfig = [w \in Workers |-> GetEraConfig(0)]

Next == \E w \in Workers : ProcessBlock(w) \/ RecoverProcessor(w)

Spec == Init /\ [][Next]_vars

-----------------------------------------------------------------------------
(* Properties                                                              *)

\* A stored row has a slot and a block type of the chain, and an epoch and a time that are
\* no less than zero: the subtractions never wrap (block_processor.go:813-879).
TypeOK ==
    /\ \A w \in Stored :
          /\ row[w].slot \in Slots /\ row[w].type \in BlockTypes
          /\ row[w].epoch \in Nat /\ row[w].time \in Nat
    /\ currentEpoch \in [Workers -> Nat]

\* Whichever workers stored them, the rows of two blocks are in the same order by
\* slot and by time, and their epochs do not contradict it, across the change from
\* twenty second to one second slots (block_processor.go:813-879).
RowsInOrder ==
    \A v, w \in Stored :
        row[v].slot < row[w].slot =>
            row[v].epoch <= row[w].epoch /\ row[v].time < row[w].time

\* A block is stored with the batch sizes meant for its era: the epochs at which
\* these change are those of the era boundaries (era_config.go:16, eras.go:4-11),
\* also after a processor was replaced.
ConfigFollowsEra ==
    [][\A w \in Workers : row'[w] # row[w] =>
          GetEraFromSlot(row'[w].slot) \in currentConfig'[w]]_vars

\* Since Shelley, no two blocks of one epoch pass the test of processEpochBoundary: ada
\* pots, parameters and rewards are computed once (block_processor.go:215, 910-921).
OneBoundaryBlock ==
    \A v, w \in Stored :
        /\ row[v].type \in ShelleyTypes /\ row[w].type \in ShelleyTypes
        /\ isEpochBoundary(row[v].slot, row[v].type)
        /\ isEpochBoundary(row[w].slot, row[w].type)
        /\ row[v].epoch = row[w].epoch
        => row[v].slot = row[w].slot

\* The era of a block and its place among the eras
EraOf(type) == IF type \in ByronTypes THEN "Byron" ELSE type
Eras == <<"Byron", "Shelley", "Allegra", "Mary", "Alonzo", "Babbage", "Conway">>
Place(era) == CHOOSE i \in DOMAIN Eras : Eras[i] = era

\* Neither the parameters stored for a block's epoch nor the era the dashboards show are
\* ever of an era before the block's; they are of a later one only in the epochs 491 to
\* 506, which get Conway's parameters (epoch_params_provider.go:227), and in the last 62
\* slots before a change of era (main.go:1801-1818).
ErasNeverBehind ==
    \A w \in Stored :
        LET block     == Place(EraOf(row[w].type))
            params    == Place(GetEraForEpoch(row[w].epoch))
            displayed == Place(DisplayedEra(row[w].slot))
        IN  /\ block <= params /\ (block < params => row[w].epoch \in 491 .. 506)
            /\ block <= displayed
            /\ block < displayed => displayed = Place(GetEraFromSlot(row[w].slot + 62))

\* Since Shelley, the epoch stored with a certificate is 197 or 198 behind its block's
\* (certificate_processor.go:429, block_processor.go:833): two certificates of one epoch
\* may differ by one, certificates of two epochs by one more or less than their blocks.
CertificateEpochLags ==
    \A w \in Stored :
        row[w].type \in ShelleyTypes => row[w].epoch - slotToEpoch(row[w].slot) \in {197, 198}
=============================================================================
