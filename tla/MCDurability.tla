----------------------------- MODULE MCDurability -----------------------------
EXTENDS Durability

CONSTANTS bob, n1, n2

Tx(a, b, n, v, l) ==
    [is_coinbase |-> FALSE, from |-> a, to |-> b, nonce |-> n, amount |-> v,
     fee |-> 0, len |-> l, signed |-> TRUE, chain_id |-> ChainId]

\* Two versions of one payment.
MCOnePayment == {Tx(holder, bob, 1, 2, 13), Tx(holder, bob, 1, 1, 10)}

=============================================================================
