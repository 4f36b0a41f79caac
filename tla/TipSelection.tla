---------------------------- MODULE TipSelection ----------------------------
(***************************************************************************)
(* Two nodes learn of the same chains, each in an order of its own, and    *)
(* each keeps the better chain, as adopt_candidate does.  An observer runs *)
(* select_best over the list of all chains a node has been offered.        *)
(***************************************************************************)
EXTENDS ForkChoice, FiniteSets

CONSTANTS
    Node,
    Candidate,    \* the chains on offer
    Genesis,      \* the chain every node starts with
    MaxOffers     \* bound on the offers a node receives

ASSUME CandidateAssumption ==
    Candidate \subseteq ChainInfo /\ Genesis \in Candidate
ASSUME MaxOffersAssumption == MaxOffers \in Nat

VARIABLES
    best,      \* the chain each node is on
    offered    \* the chains each node was offered, in order

tip_vars == <<best, offered>>

TipInit ==
    /\ best = [n \in Node |-> Genesis]
    /\ offered = [n \in Node |-> <<Genesis>>]

\* The fork-choice part of try_adopt_candidate.
Offer(n, c) ==
    /\ Len(offered[n]) <= MaxOffers
    /\ best' = [best EXCEPT ![n] = Choose(@, c)]
    /\ offered' = [offered EXCEPT ![n] = Append(@, c)]

TipNext == \E n \in Node, c \in Candidate : Offer(n, c)

TipSpec == TipInit /\ [][TipNext]_tip_vars

-----------------------------------------------------------------------------
\* Tips and offers are chains on offer.
TipTypeOK ==
    /\ best \in [Node -> Candidate]
    /\ offered \in [Node -> Seq(Candidate)]

Seen(n) == {offered[n][i] : i \in 1 .. Len(offered[n])}

\* The chain a node is on was offered to it and no offered chain beats it.
BestOfSeen ==
    \A n \in Node :
        /\ best[n] \in Seen(n)
        /\ \A c \in Seen(n) : ~is_better(c, best[n])

\* docs/spec/fork_choice.md: "given the same set of candidate chains, all
\* nodes converge on the same tip", in whatever order and however often each
\* node saw them.
SameCandidatesSameTip ==
    \A n, m \in Node : Seen(n) = Seen(m) => best[n] = best[m]

\* Deciding offer by offer and reducing the whole list agree, although the
\* list is reduced in the opposite order.
SelectBestAgrees ==
    \A n \in Node : best[n] = select_best(rev(offered[n]))

=============================================================================
