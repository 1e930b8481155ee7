------------------------------- MODULE Route -------------------------------
(***************************************************************************)
(* RouteManager (MQServer/Route.hpp): does a message with a routing key go *)
(* to a queue bound with a binding key?                                    *)
(*                                                                         *)
(* A key is the sequence of what stands between its dots, so two dots in a *)
(* row, or one at an end, make an empty word.                              *)
(***************************************************************************)
EXTENDS Naturals, Sequences

Wildcards == {"*", "#"}

\* StrHelper::split with the dot: words that are empty are left out.
Split(key) ==
  LET words[n \in 0..Len(key)] ==
        IF n = 0 THEN <<>>
        ELSE IF key[n] = "" THEN words[n - 1] ELSE Append(words[n - 1], key[n])
  IN words[Len(key)]

\* isValidRoutingKey: no wildcard, no dot at the start, no two dots in a row;
\* a dot at the end is let through.  The server does not call it.
IsValidRoutingKey(key) ==
  \A i \in DOMAIN key : key[i] \notin Wildcards /\ (key[i] = "" => i = Len(key))

\* Faulty variant: the first column is TRUE at each # and not at leading ones
\* only.
TopicMatchAnyHash(routing_key, binding_key) ==
  LET b == Split(binding_key)
      r == Split(routing_key)
      dp[p \in (0..Len(b)) \X (0..Len(r))] ==
        LET i == p[1]
            j == p[2]
        IN  \/ j = 0 /\ (i = 0 \/ b[i] = "#")
            \/ i > 0 /\ j > 0 /\
                 IF b[i] \in {r[j], "*"} THEN dp[<<i - 1, j - 1>>]
                 ELSE b[i] = "#" /\ (\/ dp[<<i - 1, j - 1>>]
                                     \/ dp[<<i, j - 1>>] \/ dp[<<i - 1, j>>])
  IN dp[<<Len(b), Len(r)>>]

\* The dynamic program of the topic exchange: dp[i, j] says that the first i
\* words of the binding key match the first j of the routing key.  A word that
\* is equal or * takes the place of one word; otherwise # takes that of any
\* number, none included.
TopicMatch(routing_key, binding_key) ==
  LET b == Split(binding_key)
      r == Split(routing_key)
      dp[p \in (0..Len(b)) \X (0..Len(r))] ==
        LET i == p[1]
            j == p[2]
        IN  \/ j = 0 /\ \A h \in 1..i : b[h] = "#"
            \/ i > 0 /\ j > 0 /\
                 IF b[i] \in {r[j], "*"} THEN dp[<<i - 1, j - 1>>]
                 ELSE b[i] = "#" /\ (\/ dp[<<i - 1, j - 1>>]
                                     \/ dp[<<i, j - 1>>] \/ dp[<<i - 1, j>>])
  IN dp[<<Len(b), Len(r)>>]

\* route().  It has no result for an exchange of another type, which is
\* undefined: the models declare none.
ExchangeTypes == {"DIRECT", "FANOUT", "TOPIC"}
Routes(type, routing_key, binding_key) ==
  \/ type = "DIRECT" /\ routing_key = binding_key
  \/ type = "FANOUT"
  \/ type = "TOPIC" /\ TopicMatch(routing_key, binding_key)
=============================================================================
