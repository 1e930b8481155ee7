------------------------------ MODULE MCRoute ------------------------------
(***************************************************************************)
(* All pairs of keys up to a length, one word more in each step, to        *)
(* compare the topic match with what a match is.                           *)
(***************************************************************************)
EXTENDS Route

CONSTANTS
  RoutingWords, BindingWords, \* the words of the keys
  MaxWords                    \* bound: words of a key

VARIABLES routing_key, binding_key

vars == <<routing_key, binding_key>>

\* The empty string: one word, which is empty.
Init == routing_key = <<"">> /\ binding_key = <<"">>

Longer(key, words) ==
  IF key = <<"">> THEN {<<word>> : word \in words}
  ELSE IF Len(key) < MaxWords THEN {Append(key, word) : word \in words} ELSE {}

GrowRoutingKey ==
  /\ routing_key' \in Longer(routing_key, RoutingWords)
  /\ UNCHANGED binding_key

GrowBindingKey ==
  /\ binding_key' \in Longer(binding_key, BindingWords)
  /\ UNCHANGED routing_key

Next == GrowRoutingKey \/ GrowBindingKey
Spec == Init /\ [][Next]_vars

\* What a match is: the routing key can be cut into as many pieces as the
\* binding key has words, piece i being any words for #, one word for *, and
\* the word itself otherwise.  cut[i] is where piece i ends.
Match(words, pattern) ==
  \E cut \in [0..Len(pattern) -> 0..Len(words)] :
    /\ cut[0] = 0 /\ cut[Len(pattern)] = Len(words)
    /\ \A i \in 1..Len(pattern) :
         IF pattern[i] = "#" THEN cut[i - 1] <= cut[i]
         ELSE /\ cut[i] = cut[i - 1] + 1
              /\ pattern[i] \in {"*", words[cut[i]]}

\* The dynamic program finds the matches and nothing else, for every routing
\* key that is valid, with # at the start, in the middle, at the end and in a
\* row, and for keys with empty words (Route.hpp:90-124).
TopicMatchIsMatch ==
  IsValidRoutingKey(routing_key) =>
    (TopicMatch(routing_key, binding_key) <=> Match(Split(routing_key), Split(binding_key)))
=============================================================================
