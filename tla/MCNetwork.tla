----------------------------- MODULE MCNetwork -----------------------------
EXTENDS Network

CONSTANTS bob, n1, n2

Pay(a, b, n, v, l) ==
    [is_coinbase |-> FALSE, from |-> a, to |-> b, nonce |-> n, amount |-> v,
     fee |-> 0, len |-> l, signed |-> TRUE, chain_id |-> ChainId]

MCTransaction ==
    {Pay(holder, bob, 1, 2, 13), Pay(holder, bob, 1, 1, 10), Pay(holder, bob, 2, 1, 10),
     Pay(bob, holder, 1, 1, 10)}

\* Transactions a wallet with an empty account can send.
FreeTransaction == {Pay(holder, bob, 1, 0, 10), Pay(bob, holder, 1, 0, 10)}

=============================================================================
