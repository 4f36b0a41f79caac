------------------------------ MODULE MCRules ------------------------------
(***************************************************************************)
(* The rules of the node that need no second process: the pool, the state  *)
(* transition, stateless verification and the other tries, fork choice,    *)
(* the retarget and its arithmetic, the rate limiter and discovery.  Each  *)
(* is a machine of its own; one is chosen at the start and runs, the       *)
(* others rest in their initial states.                                    *)
(***************************************************************************)
EXTENDS MempoolSpec, Witness, Commitments, TipSelection, Difficulty, RateLimiter,
        Discovery

VARIABLE machine

rule_vars ==
    <<machine, vars, ledger_vars, witness_vars, tip_vars, difficulty_vars, rate_vars,
      discovery_vars, commitment_vars>>

-----------------------------------------------------------------------------
\* Transactions of two senders.  The lengths 17, 13 and 10 make each one a
\* valid fee bump of the one before it (factor 1.3), 12 is no bump of 13.
CONSTANTS alice, bob

Tx(s, n, v, l) ==
    [from |-> s, nonce |-> n, amount |-> v, fee |-> 0, len |-> l,
     signed |-> TRUE, chain_id |-> 1]

MCTransaction ==
    {Tx(alice, 1, 1, 17), Tx(alice, 1, 1, 13), Tx(alice, 1, 2, 12), Tx(alice, 1, 1, 10),
     Tx(alice, 2, 1, 17), Tx(alice, 2, 2, 13), Tx(alice, 3, 1, 10),
     Tx(bob, 1, 1, 10), [Tx(bob, 2, 1, 10) EXCEPT !.signed = FALSE],
     [Tx(bob, 2, 1, 13) EXCEPT !.chain_id = 2],
     [Tx(bob, 2, 1, 13) EXCEPT !.fee = 1]}

-----------------------------------------------------------------------------
\* Blocks of a coinbase and at most two transfers among three addresses, as
\* mine_block builds them: one coinbase, in front.
CONSTANTS holder, miner, carol

Coinbase(a, v) == [is_coinbase |-> TRUE, from |-> a, to |-> a, amount |-> v]
Transfer(a, b, v) == [is_coinbase |-> FALSE, from |-> a, to |-> b, amount |-> v]

Rewards == {Coinbase(miner, v) : v \in 0 .. 3} \cup {Coinbase(carol, 1)}
Transfers ==
    {Transfer(holder, miner, 2), Transfer(holder, holder, 3), Transfer(holder, carol, 4),
     Transfer(miner, carol, 2), Transfer(carol, miner, 1)}

MCGenesisBody == <<Coinbase(holder, 5)>>
MCBlockBody ==
    {<<c>> : c \in Rewards}
    \cup {<<c, t>> : c \in Rewards, t \in Transfers}
    \cup {<<c, t, u>> : c \in {Coinbase(miner, 2), Coinbase(carol, 1)},
                        t \in Transfers, u \in Transfers}
MCWitnessBody ==
    {<<c>> : c \in Rewards}
    \cup {<<c, t>> : c \in Rewards, t \in Transfers}
    \cup {<<Coinbase(miner, 1), t, u>> : t \in Transfers, u \in Transfers}

\* Two addresses share all but the last level of the tree.
MCTxIds == {<<0, 0, 0>>, <<0, 0, 1>>, <<1, 1, 0>>}
MCSlotKeys == {<<0, 1, 0>>, <<1, 0, 0>>}
MCKeyHash == (holder :> <<0, 0, 0>>) @@ (miner :> <<0, 0, 1>>) @@ (carol :> <<1, 1, 0>>)

-----------------------------------------------------------------------------
\* Chains with ties at every tier, and tiers that pull in opposite directions.
Info(w, t, h) == [total_work |-> w, tip_timestamp |-> t, tip_hash |-> h]

MCGenesis == Info(1, 0, 0)
MCCandidate ==
    {MCGenesis, Info(2, 2, 1), Info(2, 1, 3), Info(2, 1, 2), Info(3, 3, 4)}

\* Two messages in two seconds, two INVs a second.
MCRateSpecs == ("main" :> <<2, 2>>) @@ ("Inv" :> <<2, 1>>)

-----------------------------------------------------------------------------\* A peer that two nodes met at different addresses, one with a scope that does
\* not travel (3 arrives as 2), one at an address that cannot be dialled (0).
CONSTANTS p1, p2

MCOnWire == [s \in Sockets |-> IF s = 3 THEN 2 ELSE s]
MCEncounters ==
    {<<p1, 1, 1>>, <<p1, 2, 3>>, <<p1, 3, 0>>, <<p2, 1, 2>>, <<p2, 2, 1>>, <<p2, 3, 2>>}

Seeds(ips, domains, required) ==
    [hard_coded_ips |-> ips, dns_seeds |-> domains, dnssec_required |-> required]
MCSeedConfigs == {Seeds({}, {"a"}, FALSE), Seeds({1, 4}, {"a", "b"}, TRUE)}

Answer(addrs, validated) == [addrs |-> addrs, validated |-> validated, hangs |-> FALSE]
NoAnswer == Answer({}, FALSE)
MCResolutions ==
    {[a |-> answer, b |-> Answer({4, 6}, TRUE)] :
        answer \in {NoAnswer, [NoAnswer EXCEPT !.hangs = TRUE],
                    Answer({1, 5}, TRUE), Answer({1, 5}, FALSE)}}

-----------------------------------------------------------------------------
RulesInit ==
    /\ machine \in {"mempool", "ledger", "witness", "tip", "u256", "retarget", "rate", "discovery",
                   "commitments"}
    /\ Init
    /\ machine # "mempool" => account = [s \in Sender |-> [nonce |-> 0, balance |-> Min(Balance)]]
    /\ LedgerInit /\ WitnessInit /\ TipInit /\ RateInit /\ DiscoveryInit
    /\ IF machine = "u256" THEN U256Init ELSE DifficultyInit
    /\ IF machine = "commitments" THEN CommitmentsInit ELSE CommitmentsRest

RulesNext ==
    /\ UNCHANGED <<machine, commitment_vars>>
    /\ \/ /\ machine = "mempool" /\ Next
          /\ UNCHANGED <<ledger_vars, witness_vars, tip_vars, difficulty_vars, rate_vars,
                         discovery_vars>>
       \/ /\ machine = "ledger" /\ LedgerNext
          /\ UNCHANGED <<vars, witness_vars, tip_vars, difficulty_vars, rate_vars, discovery_vars>>
       \/ /\ machine = "witness" /\ WitnessNext
          /\ UNCHANGED <<vars, ledger_vars, tip_vars, difficulty_vars, rate_vars, discovery_vars>>
       \/ /\ machine = "tip" /\ TipNext
          /\ UNCHANGED <<vars, ledger_vars, witness_vars, difficulty_vars, rate_vars, discovery_vars>>
       \/ /\ machine = "retarget" /\ DifficultyNext
          /\ UNCHANGED <<vars, ledger_vars, witness_vars, tip_vars, rate_vars, discovery_vars>>
       \/ /\ machine = "rate" /\ RateNext
          /\ UNCHANGED <<vars, ledger_vars, witness_vars, tip_vars, difficulty_vars,
                         discovery_vars>>
       \/ /\ machine = "discovery" /\ DiscoveryNext
          /\ UNCHANGED <<vars, ledger_vars, witness_vars, tip_vars, difficulty_vars,
                         rate_vars>>

RulesSpec == RulesInit /\ [][RulesNext]_rule_vars

=============================================================================
