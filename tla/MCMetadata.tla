----------------------------- MODULE MCMetadata -----------------------------
(***************************************************************************)
(* Instances of Metadata: two keys, one of which matches the other, and    *)
(* names that can be exchanged for each other.                             *)
(***************************************************************************)
EXTENDS Metadata, TLC

TwoKeys == {<<"a">>, <<"#">>}
Names == Permutations(Exchanges) \cup Permutations(Queues)
=============================================================================
