------------------------------ MODULE MCChain ------------------------------
(***************************************************************************)
(* Two machines over the chain, one of which is chosen at the start and    *)
(* runs: "network", two nodes that mine, exchange and adopt blocks of      *)
(* transfers; "contracts", one account that deploys up to two contracts    *)
(* and calls them, with one precompile and two interchangeable slots.      *)
(***************************************************************************)
EXTENDS MCNetwork, Contracts

VARIABLE machine

chain_vars == <<machine, vars, contracts_vars>>

-----------------------------------------------------------------------------
CONSTANTS alice, p1, k1, k2

first == derive_contract_address(alice, 0)
second == derive_contract_address(alice, 1)

MCMentioned == {alice, p1, first, second}
MCNonReentrant == {second}

-----------------------------------------------------------------------------
Interchangeable == Permutations(Nodes) \cup Permutations(Keys)

ChainInit == Init /\ ContractsInit /\ machine \in {"network", "contracts"}

ChainNext ==
    /\ UNCHANGED machine
    /\ \/ machine = "network" /\ Next /\ UNCHANGED contracts_vars
       \/ machine = "contracts" /\ ContractsNext /\ UNCHANGED vars

ChainSpec == ChainInit /\ [][ChainNext]_chain_vars

=============================================================================
