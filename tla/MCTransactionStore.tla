------------------------- MODULE MCTransactionStore -------------------------
(***************************************************************************)
(* Instances of TransactionStore for TLC: transactions with the parts that *)
(* meet at shared rows, their steps as TransactionParts derives them.      *)
(***************************************************************************)
EXTENDS TransactionStore, TransactionParts, TLC

CONSTANTS w1, w2

PoolVote == [role |-> "pool", voter |-> "pool", anchors |-> <<"doc">>]

\* A payment to two addresses; a transaction that uses them in the opposite order and a
\* pool; and one in which a representative votes
Meeting ==
    "pay" :> <<Shelley,
        [Plain EXCEPT !.outputs = <<Output("alice", << >>), Output("bob", << >>)>>]>> @@
    "delegate" :> <<Shelley,
        [Plain EXCEPT !.certificates =
            <<[kind |-> "registration", stake |-> "bob"],
              [kind |-> "delegation", stake |-> "alice", pool |-> "pool"]>>]>> @@
    "vote" :> <<Conway,
        [Plain EXCEPT !.votes = <<[role |-> "drep", voter |-> "drep", anchors |-> << >>]>>]>>

\* A transaction of Babbage with a part of each kind
Rich ==
    "rich" :> <<Babbage,
        [inputs |-> TRUE,
         outputs |-> <<[stake |-> "alice", assets |-> <<"gold">>, datums |-> <<"deal">>]>>,
         metadata |-> <<721>>, withdrawals |-> <<"alice", None>>, mint |-> <<"gold">>,
         scripts |-> <<[language |-> "v2", hash |-> "script"],
                       [language |-> "native", hash |-> "all"]>>,
         redeemers |-> <<[tag |-> "vote", index |-> 0, data |-> "unit"],
                         [tag |-> "mint", index |-> 0, data |-> "unit"],
                         [tag |-> "spend", index |-> 1, data |-> "unit"]>>,
         datums |-> <<"deal">>, collateral |-> TRUE,
         collateralReturn |-> <<Output("bob", <<"gold">>)>>,
         references |-> TRUE, signers |-> TRUE,
         certificates |->
            <<[kind |-> "registration", stake |-> "alice"],
              [kind |-> "pool", pool |-> "pool", metadata |-> <<"meta">>,
               relays |-> <<"name", "unknown">>, owners |-> <<"bob">>],
              [kind |-> "retirement", pool |-> "pool"],
              [kind |-> "deregistration", stake |-> "alice"]>>,
         votes |-> <<PoolVote>>, proposals |-> << >>]>>

\* One of Conway that governs: two pools vote in it
Governing ==
    "govern" :> <<Conway,
        [Plain EXCEPT
            !.certificates = <<[kind |-> "conway registration", stake |-> "alice"],
                               [kind |-> "conway deregistration", stake |-> "alice"]>>,
            !.votes = <<PoolVote, [PoolVote EXCEPT !.voter = "other pool"]>>,
            !.proposals =
                <<[anchor |-> "doc", action |-> "ParameterChange", previous |-> <<"earlier">>],
                  [anchor |-> "doc", action |-> "TreasuryWithdrawal", accounts |-> <<"alice", None>>],
                  [anchor |-> "doc", action |-> "NewConstitution", anchors |-> <<"text">>],
                  [anchor |-> "doc", action |-> "UpdateCommittee", members |-> << >>],
                  [anchor |-> "doc", action |-> "Info"]>>]>>

\* One that runs a script
Spending ==
    "spend" :> <<Alonzo,
        [Plain EXCEPT !.scripts = <<[language |-> "v1", hash |-> "script"]>>,
                      !.redeemers = <<[tag |-> "spend", index |-> 0, data |-> "unit"]>>,
                      !.datums = <<"deal">>]>>

Transactions == Meeting @@ Rich @@ Governing @@ Spending

ASSUME TransactionsAssumption == \A u \in DOMAIN Transactions : IsTransaction(Transactions[u][2])

AllSteps ==
    "block" :> ProcessBlockHeader("block", Shelley, "leader", None) @@
    "boundary" :> ProcessBlockHeader("boundary", Conway, "leader", "epoch 507") @@
    [u \in DOMAIN Transactions |-> ProcessTransaction(u, Transactions[u][1], Transactions[u][2])]

\* Which of the units come, and how often
Times(units, n) == [u \in Units |-> IF u \in units THEN n ELSE 0]
MeetAndRepeat == {Times({"pay", "delegate", "vote"}, 1), Times({"block"}, 2),
                  Times({"boundary"}, 2),
                  Times({"rich"}, 1), Times({"govern"}, 1), Times({"spend"}, 2)}

\* What the configurations name; TLC evaluates the definition above once
Every == AllSteps
=============================================================================
