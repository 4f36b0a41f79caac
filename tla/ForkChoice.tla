----------------------------- MODULE ForkChoice -----------------------------
(***************************************************************************)
(* Fork choice of the core crate, chain_selector.rs.  Work, timestamps and *)
(* hashes are naturals: u256 and byte strings are compared by their order  *)
(* only.                                                                   *)
(***************************************************************************)
EXTENDS Lists

ChainInfo == [total_work: Nat, tip_timestamp: Nat, tip_hash: Nat]

\* Mutant: no tie-break.
MutantWorkOnly(a, b) == a.total_work > b.total_work

\* More work, then the earlier tip, then the lower hash.
is_better(a, b) ==
    \/ a.total_work > b.total_work
    \/ /\ a.total_work = b.total_work
       /\ \/ a.tip_timestamp < b.tip_timestamp
          \/ /\ a.tip_timestamp = b.tip_timestamp
             /\ a.tip_hash < b.tip_hash

\* The better of the best so far and one more candidate.
Choose(best, candidate) == IF is_better(candidate, best) THEN candidate ELSE best

\* reduce over a non-empty list of candidates.
select_best(infos) == fold(Choose, Head(infos), Tail(infos))

=============================================================================
