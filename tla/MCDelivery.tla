----------------------------- MODULE MCDelivery -----------------------------
(* Instances of Delivery for TLC. *)
EXTENDS Delivery, TLC

\* Nothing recovered, or one message from before a restart; any one where the
\* messages have to be symmetric.
Fresh == {<<>>}
Recovered == {<<m>> : m \in Msgs}
Either == Fresh \cup Recovered
FreshOrOne == Fresh \cup {<<CHOOSE m \in Msgs : TRUE>>}

Symmetry ==
  Permutations(Workers) \cup Permutations(Channels) \cup Permutations(Tags)
    \cup Permutations(Conns) \cup Permutations(Msgs)
=============================================================================
