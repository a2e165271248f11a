-------------------------- MODULE TransactionParts --------------------------
(***************************************************************************)
(* The statements that the processors make for a block's header and for a  *)
(* transaction, as sequences of the steps TransactionStore runs.  A batch  *)
(* is one statement and one row.  A row is <<table, unit, part>> if the    *)
(* unit's hash is in its key, and <<table, hash>> if others use it too.    *)
(* The parts a transaction has are the fields of a record like Plain.      *)
(***************************************************************************)
EXTENDS Naturals, Sequences, SequencesExt

None == "none"

\* The block types of the eras that bring a part
Shelley == 2
Mary    == 4
Alonzo  == 5
Babbage == 6
Conway  == 7

\* The parts of a block type's transactions, which blocks before `era` do not have
Since(era, blockType, parts) == IF blockType < era THEN << >> ELSE parts

\* A transaction without any part, to be changed with EXCEPT.  What the ledger gives
\* as a map is a sequence here, in the order of one iteration.
Plain == [inputs |-> FALSE, outputs |-> << >>, metadata |-> << >>, withdrawals |-> << >>,
          mint |-> << >>, scripts |-> << >>, redeemers |-> << >>, datums |-> << >>,
          collateral |-> FALSE, collateralReturn |-> << >>, references |-> FALSE,
          signers |-> FALSE, certificates |-> << >>, votes |-> << >>, proposals |-> << >>]

\* An output: the address it pays to, or None, its assets and its inline datums
Output(stake, assets) == [stake |-> stake, assets |-> assets, datums |-> << >>]

IsSeq(s) == s \in Seq({s[i] : i \in DOMAIN s})

\* The parts of a transaction are sequences, and so are the lists within them
IsOutput(output) == IsSeq(output.assets) /\ IsSeq(output.datums)

IsCertificate(c) == c.kind = "pool" => IsSeq(c.metadata) /\ IsSeq(c.relays) /\ IsSeq(c.owners)

IsVote(v) == v.role \in {"committee", "drep", "pool"} /\ IsSeq(v.anchors)

IsProposal(p) ==
    /\ p.action = "ParameterChange"    => IsSeq(p.previous)
    /\ p.action = "TreasuryWithdrawal" => IsSeq(p.accounts)
    /\ p.action = "UpdateCommittee"    => IsSeq(p.members)
    /\ p.action = "NewConstitution"    => IsSeq(p.anchors)

IsTransaction(t) ==
    /\ IsSeq(t.outputs) /\ IsSeq(t.collateralReturn)
    /\ \A i \in DOMAIN t.outputs : IsOutput(t.outputs[i])
    /\ \A i \in DOMAIN t.collateralReturn : IsOutput(t.collateralReturn[i])
    /\ IsSeq(t.metadata) /\ IsSeq(t.withdrawals) /\ IsSeq(t.mint)
    /\ IsSeq(t.scripts) /\ IsSeq(t.redeemers) /\ IsSeq(t.datums)
    /\ IsSeq(t.certificates) /\ \A i \in DOMAIN t.certificates : IsCertificate(t.certificates[i])
    /\ IsSeq(t.votes) /\ \A i \in DOMAIN t.votes : IsVote(t.votes[i])
    /\ IsSeq(t.proposals) /\ \A i \in DOMAIN t.proposals : IsProposal(t.proposals[i])

-----------------------------------------------------------------------------
(* Steps                                                                   *)

Statement(do, row, cache) ==
    [do |-> do, row |-> row, cache |-> cache, own |-> FALSE, needs |-> {},
     repeats |-> FALSE, aborts |-> FALSE, skip |-> 0]

\* A row of unit u alone, which refers to the rows of needs
Own(do, table, u, i, needs) ==
    [Statement(do, <<table, u, i>>, None) EXCEPT !.own = TRUE, !.needs = needs]

Ending(step)   == [step EXCEPT !.aborts = TRUE]
Repeated(step) == [step EXCEPT !.repeats = TRUE]

\* A step whose error leaves out the rest
Then(step, rest) == <<[step EXCEPT !.skip = Len(rest)]>> \o rest

\* The steps of each member of a sequence, one after the other
Each(s, Of(_, _)) == FlattenSeq([i \in DOMAIN s |-> Of(i, s[i])])

If(condition, steps) == IF condition THEN steps ELSE << >>

-----------------------------------------------------------------------------
(* Rows that many units refer to                                           *)

Leader(h)  == <<"slot_leaders", h>>
Address(a) == <<"stake_addresses", a>>
Pool(p)    == <<"pool_hashes", p>>
Asset(a)   == <<"multi_assets", a>>

GetOrCreateSlotLeader(h) == Statement("insert", Leader(h), "leaders")

\* The cache that outputs and certificates use, and the one withdrawals have
EnsureStakeAddress(cache, a) == Statement("insert", Address(a), cache)

EnsurePoolHash(p) == Statement("insert", Pool(p), "pools")
GetOrCreateMultiAsset(a) == Statement("insert", Asset(a), "assets")
EnsureScript(s) == Statement("find", <<"scripts", s>>, "scripts")
EnsureDatum(d)  == Statement("find", <<"data", d>>, "datums")

\* Queries of the pool itself, from within the header's transaction
CalculateAdaPotsForEpoch(epoch) == Statement("outside", <<"ada_pots", epoch>>, None)
ProvideEpochParams(epoch)       == Statement("outside", <<"epoch_params", epoch>>, None)

\* An anchor's key, a hash of its address and its data, is not set, and the database
\* takes no row without one.
ProcessVotingAnchor(a) == Statement("reject", <<"voting_anchors", a>>, None)

-----------------------------------------------------------------------------
(* Parts of a transaction                                                  *)

\* The epoch's row is written again if it is there; every error is passed over.  What
\* the state query service does at a boundary is done in its own connection.
ProcessEpochBoundary(blockType, epoch) ==
    Since(Shelley, blockType,
          Then(Statement("insert", <<"epochs", epoch>>, None),
               <<CalculateAdaPotsForEpoch(epoch), ProvideEpochParams(epoch)>>))

\* The first slot of an epoch has the epoch's number, others None
ProcessBlockHeader(u, blockType, leader, epoch) ==
    <<Ending(GetOrCreateSlotLeader(leader))>> \o
    Then(Ending(Own("keep", "blocks", u, 0, {Leader(leader)})),
         If(epoch # None, ProcessEpochBoundary(blockType, epoch)))

ProcessInputs(u) == <<Repeated(Own("insert", "tx_ins", u, 0, {}))>>

ProcessOutputAsset(u, o, i, a) ==
    Then(GetOrCreateMultiAsset(a),
         <<Own("insert", "ma_tx_outs", u, <<o, i>>, {Asset(a)})>>)

ProcessOutputAssets(u, o, assets) ==
    Each(assets, LAMBDA i, a : ProcessOutputAsset(u, o, i, a))

EnsureStakeOf(output) ==
    If(output.stake # None, <<EnsureStakeAddress("addresses", output.stake)>>)

\* The rows of the addresses that outputs pay to
AddressesOf(outputs) ==
    {Address(outputs[i].stake) : i \in {j \in DOMAIN outputs : outputs[j].stake # None}}

\* The addresses first, an error there is passed over; an error of the batch
\* leaves out the assets.
ProcessOutputs(u, outputs) ==
    Each(outputs, LAMBDA i, output : EnsureStakeOf(output)) \o
    If(outputs # << >>,
       Then(Repeated(Own("insert", "tx_outs", u, 0, AddressesOf(outputs))),
            Each(outputs, LAMBDA o, output : ProcessOutputAssets(u, o, output.assets))))

ProcessMetadata(u, keys) == Each(keys, LAMBDA i, k : <<Own("create", "tx_metadata", u, k, {})>>)

\* Looked for again when it was not seen, in the same cache
ProcessWithdrawal(u, a) ==
    LET ensure == EnsureStakeAddress("withdrawals", a) IN
    Then(ensure, Then(ensure, <<Own("insert", "withdrawals", u, a, {Address(a)})>>))

\* An account without a stake key's hash is passed over
ProcessWithdrawals(u, accounts) ==
    Each(accounts, LAMBDA i, a : If(a # None, ProcessWithdrawal(u, a)))

getTransactionWithdrawals(blockType, t) == Since(Shelley, blockType, t.withdrawals)

ProcessMintOperation(u, a) ==
    Then(GetOrCreateMultiAsset(a), <<Own("insert", "ma_tx_mints", u, a, {Asset(a)})>>)

ProcessMint(u, assets) == Each(assets, LAMBDA i, a : ProcessMintOperation(u, a))

getTransactionMint(blockType, t) == Since(Mary, blockType, t.mint)

ProcessCollateralInputs(u, blockType, t) ==
    If(t.collateral /\ blockType >= Alonzo, <<Own("insert", "collateral_tx_ins", u, 0, {})>>)

\* The relation of asset and output is logged and not stored
ProcessCollateralOutputAsset(a) == <<GetOrCreateMultiAsset(a)>>

ProcessCollateralOutputAssets(assets) ==
    Each(assets, LAMBDA i, a : ProcessCollateralOutputAsset(a))

ProcessCollateralReturn(u, blockType, t) ==
    Each(Since(Babbage, blockType, t.collateralReturn), LAMBDA i, output :
        EnsureStakeOf(output) \o
        Then(Own("insert", "collateral_tx_outs", u, 0, AddressesOf(<<output>>)),
             ProcessCollateralOutputAssets(output.assets)))

ProcessReferenceInputs(u, blockType, t) ==
    If(t.references /\ blockType >= Babbage, <<Own("insert", "reference_tx_ins", u, 0, {})>>)

ProcessRequiredSigners(u, blockType, t) ==
    If(t.signers /\ blockType >= Alonzo, <<Own("insert", "required_signers", u, 0, {})>>)

-----------------------------------------------------------------------------
(* Scripts                                                                 *)

\* An error of one is passed over
ProcessScript(s) == <<EnsureScript(s.hash)>>

ProcessNativeScripts(scripts) ==
    Each(scripts, LAMBDA i, s : If(s.language = "native", ProcessScript(s)))
ProcessPlutusV1Scripts(scripts) ==
    Each(scripts, LAMBDA i, s : If(s.language = "v1", ProcessScript(s)))
ProcessPlutusV2Scripts(scripts) ==
    Each(scripts, LAMBDA i, s : If(s.language = "v2", ProcessScript(s)))
ProcessPlutusV3Scripts(scripts) ==
    Each(scripts, LAMBDA i, s : If(s.language = "v3", ProcessScript(s)))

ProcessTransactionScripts(t) ==
    ProcessNativeScripts(t.scripts) \o ProcessPlutusV1Scripts(t.scripts) \o
    ProcessPlutusV2Scripts(t.scripts) \o ProcessPlutusV3Scripts(t.scripts)

\* The data's row has a key that other redeemers share, and is inserted plainly
ProcessRedeemer(u, r) ==
    Then(Statement("create", <<"redeemer_data", r.data>>, None),
         <<Own("create", "redeemers", u, <<r.tag, r.index>>, {<<"redeemer_data", r.data>>})>>)

\* By tag; those of votes and of proposals are left out
ProcessRedeemers(u, redeemers) ==
    Each(<<"spend", "mint", "cert", "reward">>, LAMBDA n, tag :
        Each(redeemers, LAMBDA i, r : If(r.tag = tag, ProcessRedeemer(u, r))))

ProcessWitnessDatums(datums) == Each(datums, LAMBDA i, d : <<EnsureDatum(d)>>)

ProcessInlineDatums(outputs) ==
    Each(outputs, LAMBDA o, output : Each(output.datums, LAMBDA i, d : <<EnsureDatum(d)>>))

ProcessScripts(u, blockType, t) ==
    ProcessTransactionScripts(t) \o
    ProcessRedeemers(u, t.redeemers) \o
    ProcessWitnessDatums(Since(Alonzo, blockType, t.datums)) \o
    ProcessInlineDatums(Since(Babbage, blockType, t.outputs))

-----------------------------------------------------------------------------
(* Certificates                                                            *)

ProcessStakeRegistration(u, i, c) ==
    Then(EnsureStakeAddress("addresses", c.stake),
         <<Own("insert", "stake_registrations", u, i, {Address(c.stake)})>>)

ProcessStakeDeregistration(u, i, c) ==
    Then(EnsureStakeAddress("addresses", c.stake),
         <<Own("insert", "stake_deregistrations", u, i, {Address(c.stake)})>>)

\* The deposits of Conway's certificates are not stored
ProcessConwayRegistration(u, i, c)   == ProcessStakeRegistration(u, i, c)
ProcessConwayDeregistration(u, i, c) == ProcessStakeDeregistration(u, i, c)

ProcessStakeDelegation(u, i, c) ==
    Then(EnsureStakeAddress("addresses", c.stake),
    Then(EnsurePoolHash(c.pool),
         <<Own("insert", "delegations", u, i, {Address(c.stake), Pool(c.pool)})>>))

\* Hosts by address, by name and by service; a relay of another type is passed over
RelayTypes == {"address", "name", "service"}

ProcessPoolRelays(u, i, relays) ==
    Each(relays, LAMBDA j, r :
        If(r \in RelayTypes, <<Own("insert", "pool_relays", u, <<i, j>>, {})>>))

ProcessPoolMetadata(hashes) ==
    Each(hashes, LAMBDA j, h : <<Statement("insert", <<"pool_metadata_refs", h>>, None)>>)

ProcessPoolOwners(u, i, owners) ==
    Each(owners, LAMBDA j, a :
        Then(EnsureStakeAddress("addresses", a),
             <<Own("insert", "pool_owners", u, <<i, a>>, {Address(a)})>>))

ProcessPoolRegistration(u, i, c) ==
    Then(EnsurePoolHash(c.pool),
    Then(Own("insert", "pool_updates", u, i, {Pool(c.pool)}),
         ProcessPoolMetadata(c.metadata) \o
         ProcessPoolRelays(u, i, c.relays) \o
         ProcessPoolOwners(u, i, c.owners)))

ProcessPoolRetirement(u, i, c) ==
    Then(EnsurePoolHash(c.pool), <<Own("insert", "pool_retires", u, i, {Pool(c.pool)})>>)

\* All others, those of representatives, of the committee and the combined ones,
\* store nothing
ProcessCertificate(u, i, c) ==
    If(c.kind = "registration", ProcessStakeRegistration(u, i, c)) \o
    If(c.kind = "deregistration", ProcessStakeDeregistration(u, i, c)) \o
    If(c.kind = "delegation", ProcessStakeDelegation(u, i, c)) \o
    If(c.kind = "pool", ProcessPoolRegistration(u, i, c)) \o
    If(c.kind = "retirement", ProcessPoolRetirement(u, i, c)) \o
    If(c.kind = "conway registration", ProcessConwayRegistration(u, i, c)) \o
    If(c.kind = "conway deregistration", ProcessConwayDeregistration(u, i, c))

\* None of them returns an error
ProcessCertificates(u, certificates) ==
    Each(certificates, LAMBDA i, c : ProcessCertificate(u, i, c))

getTransactionCertificates(blockType, t) == Since(Shelley, blockType, t.certificates)

-----------------------------------------------------------------------------
(* Governance                                                              *)

EnsureDRepHash(h)      == Statement("outside", <<"d_rep_hashes", h>>, None)
EnsureCommitteeHash(h) == Statement("outside", <<"committee_hashes", h>>, None)

\* A pool's hash is inserted unless this processor's own cache has it; those of the
\* committee and of representatives are looked for outside the transaction.
EnsureVoter(v) ==
    CASE v.role = "committee" -> EnsureCommitteeHash(v.voter)
      [] v.role = "drep"      -> EnsureDRepHash(v.voter)
      [] v.role = "pool"      -> Statement("create", Pool(v.voter), "voters")

\* The query for the greatest index so far names a reserved word, fails, and its error
\* is dropped: every vote gets the first index.
getNextVotingProcedureIndex == 1

ProcessVotingProcedure(u, v) ==
    Then(EnsureVoter(v),
         Each(v.anchors, LAMBDA j, a : <<ProcessVotingAnchor(a)>>) \o
         <<Own("create", "voting_procedures", u, getNextVotingProcedureIndex,
               {EnsureVoter(v).row})>>)

ProcessVotingProcedures(u, votes) == Each(votes, LAMBDA i, v : ProcessVotingProcedure(u, v))

\* The reference to an earlier action goes to a column that the table does not have
ProcessParameterChange(u, i, p) ==
    Each(p.previous, LAMBDA j, a :
        <<Statement("reject", <<"prev_gov_action_hash", <<u, i>>>>, None)>>)

ProcessTreasuryWithdrawals(u, i, p) ==
    Each(p.accounts, LAMBDA j, a :
        If(a # None, <<Own("create", "treasury_withdrawals", u, <<i, a>>, {})>>))

\* The row of a member does not tell for which committee
ProcessNewCommittee(u, i, p) ==
    Then(Own("create", "committees", u, i, {}),
         Each(p.members, LAMBDA j, m :
            Then(EnsureCommitteeHash(m),
                 <<Statement("create", <<"committee_members", m>>, None)>>)))

ProcessNewConstitution(u, i, p) ==
    Each(p.anchors, LAMBDA j, a : <<ProcessVotingAnchor(a)>>) \o
    <<Own("create", "constitutions", u, i, {})>>

\* Hard forks, votes of no confidence and information have no details
ProcessProposalProcedure(u, i, p) ==
    <<ProcessVotingAnchor(p.anchor)>> \o
    Then(Own("create", "gov_action_proposals", u, i, {}),
         If(p.action = "ParameterChange", ProcessParameterChange(u, i, p)) \o
         If(p.action = "TreasuryWithdrawal", ProcessTreasuryWithdrawals(u, i, p)) \o
         If(p.action = "UpdateCommittee", ProcessNewCommittee(u, i, p)) \o
         If(p.action = "NewConstitution", ProcessNewConstitution(u, i, p)))

ProcessProposalProcedures(u, proposals) ==
    Each(proposals, LAMBDA i, p : ProcessProposalProcedure(u, i, p))

EarlierCertificates == {"registration", "deregistration", "delegation", "pool", "retirement",
                        "conway registration"}

\* Certificates of the Conway era count too, and have nothing to be processed
hasGovernanceData(blockType, t) ==
    /\ blockType >= Conway
    /\ \/ t.votes # << >>
       \/ t.proposals # << >>
       \/ \E i \in DOMAIN t.certificates : t.certificates[i].kind \notin EarlierCertificates

ProcessGovernance(u, t) ==
    ProcessVotingProcedures(u, t.votes) \o ProcessProposalProcedures(u, t.proposals)

-----------------------------------------------------------------------------

ProcessTransaction(u, blockType, t) ==
    <<Ending(Own("insert", "txes", u, 0, {}))>> \o
    If(t.inputs, ProcessInputs(u)) \o
    ProcessOutputs(u, t.outputs) \o
    ProcessMetadata(u, t.metadata) \o
    ProcessWithdrawals(u, getTransactionWithdrawals(blockType, t)) \o
    ProcessMint(u, getTransactionMint(blockType, t)) \o
    ProcessScripts(u, blockType, t) \o
    ProcessCollateralInputs(u, blockType, t) \o
    ProcessCollateralReturn(u, blockType, t) \o
    ProcessReferenceInputs(u, blockType, t) \o
    ProcessRequiredSigners(u, blockType, t) \o
    ProcessCertificates(u, getTransactionCertificates(blockType, t)) \o
    If(hasGovernanceData(blockType, t), ProcessGovernance(u, t))
=============================================================================
