---------------------------- MODULE RouteProofs ----------------------------
(***************************************************************************)
(* The topic match of Route finds the matches and nothing else, for keys   *)
(* of every length and over every set of words.                            *)
(*                                                                         *)
(* Reaches is a match of the first i words of a binding key with the first *)
(* j words of a routing key.  Taking off the last piece gives it by the    *)
(* matches of one word less (LastPiece), from which it follows that        *)
(* Reaches solves the equation of the table, and that every solution of it *)
(* is Reaches.                                                             *)
(***************************************************************************)
EXTENDS MCRoute, SequenceTheorems, WellFoundedInduction, TLAPS

-----------------------------------------------------------------------------
(* Induction over a set of numbers. *)

LEMMA EveryNumber ==
  ASSUME NEW T \in SUBSET Nat, 0 \in T, \A n \in T : n + 1 \in T
  PROVE  T = Nat
<1> SUFFICES ASSUME Nat \ T # {} PROVE FALSE
  OBVIOUS
<1>1. \E n \in Nat \ T : \A m \in Nat \ T : ~(<<m, n>> \in OpToRel(<, Nat))
  BY WFMin, NatLessThanWellFounded, Zenon
<1>2. PICK n \in Nat \ T : \A m \in Nat \ T : ~(<<m, n>> \in OpToRel(<, Nat))
  BY <1>1
<1>3. \A m \in Nat \ T : ~(m < n)
  BY <1>2, Zenon DEF OpToRel
<1>4. n # 0 /\ n - 1 \in Nat
  OBVIOUS
<1>5. n - 1 \in T
  BY <1>3, <1>4
<1>6. (n - 1) + 1 \in T
  BY <1>5
<1> QED
  BY <1>4, <1>6

-----------------------------------------------------------------------------
(* Matches of a part of the keys. *)

Piece(cut, b, r, k) ==
  IF b[k] = "#" THEN cut[k - 1] <= cut[k]
  ELSE /\ cut[k] = cut[k - 1] + 1
       /\ b[k] \in {"*", r[cut[k]]}

Cuts(cut, b, r, i, j) ==
  /\ cut \in [0..i -> 0..j]
  /\ cut[0] = 0 /\ cut[i] = j
  /\ \A k \in 1..i : Piece(cut, b, r, k)

Reaches(b, r, i, j) == \E cut : Cuts(cut, b, r, i, j)

LEMMA MatchReaches ==
  ASSUME NEW words, NEW pattern
  PROVE  Match(words, pattern) <=> Reaches(pattern, words, Len(pattern), Len(words))
BY Zenon DEF Match, Reaches, Cuts, Piece

\* The pieces are in order, so none of them ends after the last.
LEMMA InOrder ==
  ASSUME NEW i \in Nat, NEW cut \in [0..i -> Nat], \A k \in 1..i : cut[k - 1] <= cut[k]
  PROVE  \A k \in 0..i : cut[k] <= cut[i]
<1> DEFINE T == {n \in Nat : n <= i => cut[i - n] <= cut[i]}
<1>1. 0 \in T
  OBVIOUS
<1>2. ASSUME NEW n \in T PROVE n + 1 \in T
  <2> SUFFICES ASSUME n + 1 <= i PROVE cut[i - (n + 1)] <= cut[i]
    OBVIOUS
  <2>1. cut[i - n] <= cut[i]
    OBVIOUS
  <2>2. cut[(i - n) - 1] <= cut[i - n]
    OBVIOUS
  <2>3. (i - n) - 1 = i - (n + 1) /\ i - (n + 1) \in 0..i /\ i - n \in 0..i /\ i \in 0..i
    OBVIOUS
  <2> QED
    BY <2>1, <2>2, <2>3
<1> HIDE DEF T
<1>3. T = Nat
  BY <1>1, <1>2, EveryNumber DEF T
<1>4. ASSUME NEW k \in 0..i PROVE cut[k] <= cut[i]
  <2>1. i - k \in Nat /\ i - k <= i /\ i - (i - k) = k
    OBVIOUS
  <2> QED
    BY <1>3, <2>1 DEF T
<1> QED
  BY <1>4

\* Nothing matches nothing.
LEMMA NoPiece ==
  ASSUME NEW b, NEW r, NEW j \in Nat
  PROVE  Reaches(b, r, 0, j) <=> j = 0
<1>1. ASSUME Reaches(b, r, 0, j) PROVE j = 0
  BY <1>1 DEF Reaches, Cuts
<1>2. ASSUME j = 0 PROVE Reaches(b, r, 0, j)
  <2>1. Cuts([k \in 0..0 |-> 0], b, r, 0, 0)
    BY DEF Cuts
  <2> QED
    BY <1>2, <2>1 DEF Reaches
<1> QED
  BY <1>1, <1>2

\* What the last piece is, and a match of what is before it.
Last(b, r, i, s, j) ==
  IF b[i] = "#" THEN s <= j ELSE j = s + 1 /\ b[i] \in {"*", r[j]}

LEMMA LastPiece ==
  ASSUME NEW b, NEW r, NEW i \in Nat \ {0}, NEW j \in Nat
  PROVE  Reaches(b, r, i, j) <=>
           \E s \in 0..j : Reaches(b, r, i - 1, s) /\ Last(b, r, i, s, j)
<1>1. ASSUME Reaches(b, r, i, j)
      PROVE  \E s \in 0..j : Reaches(b, r, i - 1, s) /\ Last(b, r, i, s, j)
  <2> PICK cut : Cuts(cut, b, r, i, j)
    BY <1>1 DEF Reaches
  <2> DEFINE s == cut[i - 1]
             front == [k \in 0..(i - 1) |-> cut[k]]
  <2>1. cut \in [0..i -> 0..j] /\ i - 1 \in 0..i /\ i - 1 \in Nat
    BY DEF Cuts
  <2>2. s \in 0..j
    BY <2>1
  <2>3. \A k \in 1..i : cut[k - 1] \in Nat /\ cut[k] \in Nat /\ Piece(cut, b, r, k)
    BY <2>1 DEF Cuts
  <2>4. \A k \in 1..i : cut[k - 1] <= cut[k]
    BY <2>3 DEF Piece
  <2>5. front \in [0..(i - 1) -> Nat] /\ \A k \in 0..(i - 1) : front[k] = cut[k]
    BY <2>1
  <2> HIDE DEF front
  <2>6. \A k \in 1..(i - 1) : front[k - 1] = cut[k - 1] /\ front[k] = cut[k] /\ k \in 1..i
    BY <2>1, <2>5
  <2>7. \A k \in 0..(i - 1) : front[k] <= s
    <3>1. \A k \in 1..(i - 1) : front[k - 1] <= front[k]
      BY <2>4, <2>6
    <3>2. \A k \in 0..(i - 1) : front[k] <= front[i - 1]
      BY <2>1, <2>5, <3>1, InOrder
    <3> QED
      BY <2>1, <2>5, <3>2
  <2>8. Cuts(front, b, r, i - 1, s)
    <3>1. front \in [0..(i - 1) -> 0..s]
      BY <2>2, <2>5, <2>7
    <3>2. front[0] = 0 /\ front[i - 1] = s
      BY <2>1, <2>5 DEF Cuts
    <3>3. \A k \in 1..(i - 1) : Piece(front, b, r, k)
      BY <2>3, <2>6 DEF Piece
    <3> QED
      BY <3>1, <3>2, <3>3 DEF Cuts
  <2>9. Last(b, r, i, s, j)
    <3>1. Piece(cut, b, r, i) /\ cut[i] = j
      BY DEF Cuts
    <3> QED
      BY <3>1 DEF Piece, Last
  <2> QED
    BY <2>2, <2>8, <2>9 DEF Reaches
<1>2. ASSUME NEW s \in 0..j, Reaches(b, r, i - 1, s), Last(b, r, i, s, j)
      PROVE  Reaches(b, r, i, j)
  <2> PICK front : Cuts(front, b, r, i - 1, s)
    BY <1>2 DEF Reaches
  <2> DEFINE cut == [k \in 0..i |-> IF k = i THEN j ELSE front[k]]
  <2>1. front \in [0..(i - 1) -> 0..s] /\ front[0] = 0 /\ front[i - 1] = s
    BY DEF Cuts
  <2>2. cut \in [0..i -> 0..j]
    BY <2>1
  <2>3. cut[i] = j /\ \A k \in 0..(i - 1) : cut[k] = front[k]
    OBVIOUS
  <2> HIDE DEF cut
  <2>4. cut[0] = 0
    BY <2>1, <2>3
  <2>5. \A k \in 1..(i - 1) : Piece(cut, b, r, k)
    <3>1. \A k \in 1..(i - 1) : Piece(front, b, r, k)
      BY DEF Cuts
    <3>2. \A k \in 1..(i - 1) : cut[k - 1] = front[k - 1] /\ cut[k] = front[k]
      BY <2>3
    <3> QED
      BY <3>1, <3>2 DEF Piece
  <2>6. Piece(cut, b, r, i)
    <3>1. cut[i - 1] = s /\ cut[i] = j
      BY <2>1, <2>3
    <3> QED
      BY <1>2, <3>1 DEF Piece, Last
  <2>7. \A k \in 1..i : k \in 1..(i - 1) \/ k = i
    OBVIOUS
  <2>8. \A k \in 1..i : Piece(cut, b, r, k)
    BY <2>5, <2>6, <2>7
  <2> QED
    BY <2>2, <2>3, <2>4, <2>8 DEF Reaches, Cuts
<1> QED
  BY <1>1, <1>2

\* Only # matches nothing.
LEMMA NoWord ==
  ASSUME NEW b, NEW r, NEW i \in Nat
  PROVE  Reaches(b, r, i, 0) <=> \A h \in 1..i : b[h] = "#"
<1> DEFINE T == {n \in Nat : Reaches(b, r, n, 0) <=> \A h \in 1..n : b[h] = "#"}
<1>1. 0 \in T
  BY NoPiece
<1>2. ASSUME NEW n \in T PROVE n + 1 \in T
  <2>0. n \in Nat /\ n + 1 \in Nat \ {0} /\ (n + 1) - 1 = n
    OBVIOUS
  <2>1. Reaches(b, r, n + 1, 0) <=>
          \E s \in 0..0 : Reaches(b, r, n, s) /\ Last(b, r, n + 1, s, 0)
    BY <2>0, LastPiece
  <2>2. Last(b, r, n + 1, 0, 0) <=> b[n + 1] = "#"
    BY DEF Last
  <2>3. 0..0 = {0}
    OBVIOUS
  <2>4. Reaches(b, r, n + 1, 0) <=> Reaches(b, r, n, 0) /\ b[n + 1] = "#"
    BY <2>1, <2>2, <2>3
  <2>5. Reaches(b, r, n, 0) <=> \A h \in 1..n : b[h] = "#"
    OBVIOUS
  <2>6. \A h : h \in 1..(n + 1) <=> h \in 1..n \/ h = n + 1
    BY <2>0
  <2> QED
    BY <2>0, <2>4, <2>5, <2>6
<1> HIDE DEF T
<1>3. T = Nat
  BY <1>1, <1>2, EveryNumber DEF T
<1> QED
  BY <1>3 DEF T

-----------------------------------------------------------------------------
(* The table. *)

Cell(t, b, r, i, j) ==
  \/ j = 0 /\ \A h \in 1..i : b[h] = "#"
  \/ i > 0 /\ j > 0 /\
       IF b[i] \in {r[j], "*"} THEN t[<<i - 1, j - 1>>]
       ELSE b[i] = "#" /\ (\/ t[<<i - 1, j - 1>>]
                           \/ t[<<i, j - 1>>] \/ t[<<i - 1, j>>])

Cells(b, r) == (0..Len(b)) \X (0..Len(r))

\* Matches go by the equation of the table, whichever branch its condition
\* takes; a routing key with the word # would be taken by the first branch.
LEMMA ReachesCell ==
  ASSUME NEW b, NEW r, NEW i \in Nat, NEW j \in Nat, \A k \in 1..j : r[k] # "#"
  PROVE  Reaches(b, r, i, j) <=>
           \/ j = 0 /\ \A h \in 1..i : b[h] = "#"
           \/ i > 0 /\ j > 0 /\
                IF b[i] \in {r[j], "*"} THEN Reaches(b, r, i - 1, j - 1)
                ELSE b[i] = "#" /\ (\/ Reaches(b, r, i - 1, j - 1)
                                    \/ Reaches(b, r, i, j - 1) \/ Reaches(b, r, i - 1, j))
<1>1. CASE j = 0
  BY <1>1, NoWord
<1>2. CASE i = 0 /\ j > 0
  BY <1>2, NoPiece
<1>3. CASE i > 0 /\ j > 0
  <2>1. Reaches(b, r, i, j) <=>
          \E s \in 0..j : Reaches(b, r, i - 1, s) /\ Last(b, r, i, s, j)
    BY <1>3, LastPiece
  <2>2. r[j] # "#" /\ j - 1 \in Nat /\ (j - 1) + 1 = j /\ j - 1 \in 0..j /\ j \in 0..j
    BY <1>3
  <2>3. CASE b[i] \in {r[j], "*"}
    <3>1. b[i] # "#" /\ b[i] \in {"*", r[j]}
      BY <2>2, <2>3
    <3>2. \A s \in 0..j : Last(b, r, i, s, j) <=> s = j - 1
      BY <2>2, <3>1 DEF Last
    <3>3. Reaches(b, r, i, j) <=> Reaches(b, r, i - 1, j - 1)
      BY <2>1, <2>2, <3>2
    <3> QED
      BY <1>3, <2>3, <3>3
  <2>4. CASE b[i] \notin {r[j], "*"} /\ b[i] = "#"
    <3>1. \A m \in Nat : \A s \in 0..m : Last(b, r, i, s, m)
      BY <2>4 DEF Last
    <3>2. Reaches(b, r, i, j) <=> \E s \in 0..j : Reaches(b, r, i - 1, s)
      BY <2>1, <3>1
    <3>3. Reaches(b, r, i, j - 1) <=> \E s \in 0..(j - 1) : Reaches(b, r, i - 1, s)
      <4>1. Reaches(b, r, i, j - 1) <=>
              \E s \in 0..(j - 1) : Reaches(b, r, i - 1, s) /\ Last(b, r, i, s, j - 1)
        BY <1>3, <2>2, LastPiece
      <4> QED
        BY <2>2, <3>1, <4>1
    <3>4. \A s : s \in 0..j <=> s \in 0..(j - 1) \/ s = j
      BY <2>2
    <3>5. j - 1 \in 0..(j - 1)
      BY <2>2
    <3>6. Reaches(b, r, i, j) <=> Reaches(b, r, i - 1, j - 1)
                                  \/ Reaches(b, r, i, j - 1) \/ Reaches(b, r, i - 1, j)
      BY <3>2, <3>3, <3>4, <3>5
    <3> QED
      BY <1>3, <2>4, <3>6
  <2>5. CASE b[i] \notin {r[j], "*"} /\ b[i] # "#"
    <3>1. \A s \in 0..j : ~Last(b, r, i, s, j)
      BY <2>5 DEF Last
    <3> QED
      BY <1>3, <2>1, <2>5, <3>1
  <2> QED
    BY <2>3, <2>4, <2>5
<1> QED
  BY <1>1, <1>2, <1>3

\* The equation has a solution, which is what the definition chooses.
LEMMA TableExists ==
  ASSUME NEW S, NEW b \in Seq(S), NEW r \in Seq(S), \A k \in DOMAIN r : r[k] # "#"
  PROVE  \E t : t = [p \in Cells(b, r) |-> Cell(t, b, r, p[1], p[2])]
<1> DEFINE t == [p \in Cells(b, r) |-> Reaches(b, r, p[1], p[2])]
<1>1. ASSUME NEW p \in Cells(b, r)
      PROVE  Reaches(b, r, p[1], p[2]) <=> Cell(t, b, r, p[1], p[2])
  <2> DEFINE i == p[1]
             j == p[2]
  <2>1. /\ i \in 0..Len(b) /\ j \in 0..Len(r) /\ p = <<i, j>>
        /\ i \in Nat /\ j \in Nat /\ Len(b) \in Nat /\ Len(r) \in Nat
    BY LenProperties DEF Cells
  <2> HIDE DEF i, j
  <2>2. \A k \in 1..j : r[k] # "#"
    BY <2>1, LenProperties
  <2>3. \A g \in 0..Len(b), h \in 0..Len(r) : t[<<g, h>>] = Reaches(b, r, g, h)
    BY DEF Cells
  <2> HIDE DEF t
  <2>4. i > 0 /\ j > 0 => /\ t[<<i - 1, j - 1>>] = Reaches(b, r, i - 1, j - 1)
                          /\ t[<<i, j - 1>>] = Reaches(b, r, i, j - 1)
                          /\ t[<<i - 1, j>>] = Reaches(b, r, i - 1, j)
    <3> SUFFICES ASSUME i > 0, j > 0
                 PROVE  /\ t[<<i - 1, j - 1>>] = Reaches(b, r, i - 1, j - 1)
                        /\ t[<<i, j - 1>>] = Reaches(b, r, i, j - 1)
                        /\ t[<<i - 1, j>>] = Reaches(b, r, i - 1, j)
      OBVIOUS
    <3>1. i - 1 \in 0..Len(b) /\ j - 1 \in 0..Len(r)
      BY <2>1
    <3> QED
      BY <2>1, <2>3, <3>1, Zenon
  <2>5. Reaches(b, r, i, j) <=>
          \/ j = 0 /\ \A h \in 1..i : b[h] = "#"
          \/ i > 0 /\ j > 0 /\
               IF b[i] \in {r[j], "*"} THEN Reaches(b, r, i - 1, j - 1)
               ELSE b[i] = "#" /\ (\/ Reaches(b, r, i - 1, j - 1)
                                   \/ Reaches(b, r, i, j - 1) \/ Reaches(b, r, i - 1, j))
    BY <2>1, <2>2, ReachesCell
  <2>6. CASE i > 0 /\ j > 0
    BY <2>4, <2>5, <2>6, Zenon DEF Cell, i, j
  <2>7. CASE ~(i > 0 /\ j > 0)
    BY <2>5, <2>7, Zenon DEF Cell, i, j
  <2> QED
    BY <2>6, <2>7
<1>2. \A p \in Cells(b, r) : Reaches(b, r, p[1], p[2]) = Cell(t, b, r, p[1], p[2])
  BY <1>1 DEF Reaches, Cell
<1>3. t = [p \in Cells(b, r) |-> Cell(t, b, r, p[1], p[2])]
  BY <1>2
<1> QED
  BY <1>3

\* Every solution of the equation is the matches, cell by cell from the first.
LEMMA TableReaches ==
  ASSUME NEW S, NEW b \in Seq(S), NEW r \in Seq(S), \A k \in DOMAIN r : r[k] # "#",
         NEW t, t = [p \in Cells(b, r) |-> Cell(t, b, r, p[1], p[2])]
  PROVE  t[<<Len(b), Len(r)>>] <=> Reaches(b, r, Len(b), Len(r))
<1> DEFINE Good(n) == \A i \in 0..Len(b), j \in 0..Len(r) :
                        i + j < n => (t[<<i, j>>] <=> Reaches(b, r, i, j))
           T == {n \in Nat : Good(n)}
<1>0. Len(b) \in Nat /\ Len(r) \in Nat /\ \A k \in 1..Len(r) : r[k] # "#"
  BY LenProperties
<1>1. \A i \in 0..Len(b), j \in 0..Len(r) : t[<<i, j>>] = Cell(t, b, r, i, j)
  <2> SUFFICES ASSUME NEW i \in 0..Len(b), NEW j \in 0..Len(r)
               PROVE  t[<<i, j>>] = Cell(t, b, r, i, j)
    OBVIOUS
  <2> DEFINE p == <<i, j>>
  <2>1. p \in Cells(b, r) /\ p[1] = i /\ p[2] = j
    BY DEF Cells
  <2> HIDE DEF p
  <2>2. t[p] = Cell(t, b, r, p[1], p[2])
    BY <2>1, Zenon
  <2> QED
    BY <2>1, <2>2 DEF p
<1>2. 0 \in T
  BY <1>0
<1>3. ASSUME NEW n \in T PROVE n + 1 \in T
  <2> SUFFICES ASSUME NEW i \in 0..Len(b), NEW j \in 0..Len(r), i + j < n + 1
               PROVE  t[<<i, j>>] <=> Reaches(b, r, i, j)
    OBVIOUS
  <2>1. i \in Nat /\ j \in Nat /\ \A k \in 1..j : r[k] # "#"
    BY <1>0
  <2>2. i > 0 /\ j > 0 => /\ t[<<i - 1, j - 1>>] <=> Reaches(b, r, i - 1, j - 1)
                          /\ t[<<i, j - 1>>] <=> Reaches(b, r, i, j - 1)
                          /\ t[<<i - 1, j>>] <=> Reaches(b, r, i - 1, j)
    <3> SUFFICES ASSUME i > 0, j > 0
                 PROVE  /\ t[<<i - 1, j - 1>>] <=> Reaches(b, r, i - 1, j - 1)
                        /\ t[<<i, j - 1>>] <=> Reaches(b, r, i, j - 1)
                        /\ t[<<i - 1, j>>] <=> Reaches(b, r, i - 1, j)
      OBVIOUS
    <3>1. Good(n)
      OBVIOUS
    <3>2. /\ i - 1 \in 0..Len(b) /\ j - 1 \in 0..Len(r)
          /\ (i - 1) + (j - 1) < n /\ i + (j - 1) < n /\ (i - 1) + j < n
      BY <1>0, <2>1
    <3> HIDE DEF T
    <3> QED
      BY <3>1, <3>2
  <2> HIDE DEF T, Good
  <2>3. Cell(t, b, r, i, j) <=> Reaches(b, r, i, j)
    <3>1. Reaches(b, r, i, j) <=>
            \/ j = 0 /\ \A h \in 1..i : b[h] = "#"
            \/ i > 0 /\ j > 0 /\
                 IF b[i] \in {r[j], "*"} THEN Reaches(b, r, i - 1, j - 1)
                 ELSE b[i] = "#" /\ (\/ Reaches(b, r, i - 1, j - 1)
                                     \/ Reaches(b, r, i, j - 1) \/ Reaches(b, r, i - 1, j))
      BY <2>1, ReachesCell
    <3>2. CASE i > 0 /\ j > 0
      <4>1. /\ t[<<i - 1, j - 1>>] <=> Reaches(b, r, i - 1, j - 1)
            /\ t[<<i, j - 1>>] <=> Reaches(b, r, i, j - 1)
            /\ t[<<i - 1, j>>] <=> Reaches(b, r, i - 1, j)
        BY <2>2, <3>2
      <4> QED
        BY <3>1, <3>2, <4>1, Zenon DEF Cell
    <3>3. CASE ~(i > 0 /\ j > 0)
      BY <3>1, <3>3, Zenon DEF Cell
    <3> QED
      BY <3>2, <3>3
  <2>4. t[<<i, j>>] = Cell(t, b, r, i, j)
    BY <1>1
  <2> QED
    BY <2>3, <2>4, Zenon
<1> HIDE DEF T, Good
<1>4. T = Nat
  BY <1>2, <1>3, EveryNumber DEF T
<1>5. Good(Len(b) + Len(r) + 1)
  BY <1>0, <1>4 DEF T
<1>6. Len(b) \in 0..Len(b) /\ Len(r) \in 0..Len(r) /\ Len(b) + Len(r) < Len(b) + Len(r) + 1
  BY <1>0
<1> QED
  BY <1>5, <1>6, Zenon DEF Good

-----------------------------------------------------------------------------
(* The words of a key. *)

\* One more word, if it is one.
Word(words, key, n) ==
  IF n = 0 THEN <<>>
  ELSE IF key[n] = "" THEN words[n - 1] ELSE Append(words[n - 1], key[n])

\* What the recursion of Split gives, as far as it was followed.
SplitUpTo(f, key, S, n) ==
  f \in [0..n -> Seq(S)] /\ \A k \in 0..n : f[k] = Word(f, key, k)

LEMMA SplitExists ==
  ASSUME NEW S, NEW key \in Seq(S)
  PROVE  \E f : f = [n \in 0..Len(key) |-> Word(f, key, n)]
<1> DEFINE T == {n \in Nat : n <= Len(key) => \E f : SplitUpTo(f, key, S, n)}
<1>0. Len(key) \in Nat /\ \A k \in 1..Len(key) : key[k] \in S
  BY LenProperties, ElementOfSeq
<1>1. 0 \in T
  <2>1. SplitUpTo([k \in 0..0 |-> <<>>], key, S, 0)
    BY EmptySeq DEF SplitUpTo, Word
  <2> QED
    BY <2>1
<1>2. ASSUME NEW n \in T PROVE n + 1 \in T
  <2> SUFFICES ASSUME n + 1 <= Len(key) PROVE \E f : SplitUpTo(f, key, S, n + 1)
    OBVIOUS
  <2>0. n \in Nat /\ n <= Len(key) /\ n + 1 \in 1..Len(key) /\ (n + 1) - 1 = n
    BY <1>0
  <2>1. PICK f : SplitUpTo(f, key, S, n)
    BY <2>0
  <2> HIDE DEF T
  <2> DEFINE more == IF key[n + 1] = "" THEN f[n] ELSE Append(f[n], key[n + 1])
             g == [k \in 0..(n + 1) |-> IF k = n + 1 THEN more ELSE f[k]]
  <2>2. f \in [0..n -> Seq(S)] /\ f[n] \in Seq(S)
    BY <2>0, <2>1 DEF SplitUpTo
  <2>3. more \in Seq(S)
    BY <1>0, <2>0, <2>2, AppendProperties
  <2> HIDE DEF more
  <2>4. g \in [0..(n + 1) -> Seq(S)]
    BY <2>0, <2>2, <2>3
  <2>5. g[n + 1] = more /\ \A k \in 0..n : g[k] = f[k]
    BY <2>0
  <2> HIDE DEF g
  <2>6. g[n + 1] = Word(g, key, n + 1)
    <3>1. g[(n + 1) - 1] = f[n] /\ n + 1 # 0
      BY <2>0, <2>5
    <3>2. Word(g, key, n + 1) = IF key[n + 1] = "" THEN f[n] ELSE Append(f[n], key[n + 1])
      BY <3>1, Zenon DEF Word
    <3> QED
      BY <2>5, <3>2 DEF more
  <2>7. ASSUME NEW k \in 0..n PROVE g[k] = Word(g, key, k)
    <3>1. g[k] = f[k] /\ (k # 0 => g[k - 1] = f[k - 1])
      BY <2>0, <2>5
    <3>2. f[k] = Word(f, key, k)
      BY <2>1 DEF SplitUpTo
    <3> QED
      BY <3>1, <3>2 DEF Word
  <2>8. \A k \in 0..(n + 1) : k \in 0..n \/ k = n + 1
    BY <2>0
  <2> QED
    BY <2>4, <2>6, <2>7, <2>8 DEF SplitUpTo
<1> HIDE DEF T
<1>3. T = Nat
  BY <1>1, <1>2, EveryNumber DEF T
<1>4. PICK f : SplitUpTo(f, key, S, Len(key))
  BY <1>0, <1>3 DEF T
<1>5. f = [n \in 0..Len(key) |-> Word(f, key, n)]
  BY <1>4 DEF SplitUpTo
<1> QED
  BY <1>5

\* The words among the first n of a key.
Among(key, n) == {key[k] : k \in 1..n} \ {""}

LEMMA AmongMore ==
  ASSUME NEW key, NEW n \in Nat
  PROVE  /\ Among(key, n) \subseteq Among(key, n + 1)
         /\ key[n + 1] # "" => key[n + 1] \in Among(key, n + 1)
<1>1. \A k \in 1..n : k \in 1..(n + 1)
  OBVIOUS
<1>2. n + 1 \in 1..(n + 1)
  OBVIOUS
<1> QED
  BY <1>1, <1>2, Zenon DEF Among

\* The words of a key are words that stand in it, none of them empty.
LEMMA SplitWords ==
  ASSUME NEW S, NEW key \in Seq(S)
  PROVE  /\ Split(key) \in Seq(S)
         /\ \A i \in DOMAIN Split(key) :
              Split(key)[i] # "" /\ \E k \in DOMAIN key : Split(key)[i] = key[k]
<1> DEFINE f == CHOOSE f : f = [n \in 0..Len(key) |-> Word(f, key, n)]
           Good(n) == n <= Len(key) => f[n] \in Seq(Among(key, n))
           T == {n \in Nat : Good(n)}
<1>1. Split(key) = f[Len(key)]
  BY DEF Split, Word
<1>2. f = [n \in 0..Len(key) |-> Word(f, key, n)]
  BY SplitExists, Zenon
<1> HIDE DEF f
<1>0. Len(key) \in Nat /\ DOMAIN key = 1..Len(key) /\ \A k \in 1..Len(key) : key[k] \in S
  BY LenProperties, ElementOfSeq
<1>3. \A n \in 0..Len(key) : f[n] = Word(f, key, n)
  BY <1>2
<1>4. Good(0)
  <2>1. f[0] = Word(f, key, 0)
    BY <1>0, <1>3
  <2>2. Word(f, key, 0) = <<>>
    BY Zenon DEF Word
  <2> QED
    BY <2>1, <2>2, EmptySeq
<1>5. ASSUME NEW n \in Nat, Good(n) PROVE Good(n + 1)
  <2> SUFFICES ASSUME n + 1 <= Len(key) PROVE f[n + 1] \in Seq(Among(key, n + 1))
    OBVIOUS
  <2>1. n + 1 \in 0..Len(key) /\ n + 1 # 0 /\ (n + 1) - 1 = n /\ n <= Len(key)
    BY <1>0
  <2>2. f[n] \in Seq(Among(key, n))
    BY <1>5, <2>1
  <2>3. f[n + 1] = IF key[n + 1] = "" THEN f[n] ELSE Append(f[n], key[n + 1])
    BY <1>3, <2>1 DEF Word
  <2>4. f[n] \in Seq(Among(key, n + 1))
    BY <2>2, AmongMore, SeqMonotonic
  <2>5. key[n + 1] # "" => key[n + 1] \in Among(key, n + 1)
    BY AmongMore
  <2>6. CASE key[n + 1] = ""
    BY <2>3, <2>4, <2>6
  <2>7. CASE key[n + 1] # ""
    <3>1. Append(f[n], key[n + 1]) \in Seq(Among(key, n + 1))
      BY <2>4, <2>5, <2>7, AppendProperties
    <3> QED
      BY <2>3, <2>7, <3>1
  <2> QED
    BY <2>6, <2>7
<1> HIDE DEF Good
<1>6. T = Nat
  <2>1. 0 \in T /\ \A n \in T : n + 1 \in T
    BY <1>4, <1>5
  <2> HIDE DEF T
  <2>2. T \in SUBSET Nat
    BY DEF T
  <2> QED
    BY <2>1, <2>2, EveryNumber
<1>7. Split(key) \in Seq(Among(key, Len(key)))
  <2>1. Good(Len(key))
    BY <1>0, <1>6
  <2> QED
    BY <1>0, <1>1, <2>1 DEF Good
<1> HIDE DEF T
<1>8. Among(key, Len(key)) \subseteq S
  BY <1>0 DEF Among
<1>9. Split(key) \in Seq(S)
  BY <1>7, <1>8, SeqMonotonic
<1>10. ASSUME NEW i \in DOMAIN Split(key) PROVE Split(key)[i] \in Among(key, Len(key))
  BY <1>7, ElementOfSeq, LenProperties
<1> QED
  BY <1>0, <1>9, <1>10 DEF Among

-----------------------------------------------------------------------------
\* For every two keys, over any words, of which the routing key has no # for a
\* word: the table says yes exactly when the binding key matches.
THEOREM TopicMatchFindsMatches ==
  ASSUME NEW S, NEW routing \in Seq(S), NEW binding \in Seq(S),
         \A k \in DOMAIN routing : routing[k] # "#"
  PROVE  TopicMatch(routing, binding) <=> Match(Split(routing), Split(binding))
<1> DEFINE b == Split(binding)
           r == Split(routing)
           t == CHOOSE t : t = [p \in Cells(b, r) |-> Cell(t, b, r, p[1], p[2])]
<1>1. TopicMatch(routing, binding) = t[<<Len(b), Len(r)>>]
  BY DEF TopicMatch, Cells, Cell
<1>2. b \in Seq(S) /\ r \in Seq(S)
  BY SplitWords
<1>3. \A k \in DOMAIN r : r[k] # "#"
  <2>1. \A i \in DOMAIN Split(routing) : \E k \in DOMAIN routing : Split(routing)[i] = routing[k]
    BY SplitWords
  <2> QED
    BY <2>1
<1> HIDE DEF b, r
<1>6. \E u : u = [p \in Cells(b, r) |-> Cell(u, b, r, p[1], p[2])]
  BY <1>2, <1>3, TableExists
<1>7. t = [p \in Cells(b, r) |-> Cell(t, b, r, p[1], p[2])]
  BY <1>6, Zenon
<1> HIDE DEF t
<1>4. t[<<Len(b), Len(r)>>] <=> Reaches(b, r, Len(b), Len(r))
  BY <1>2, <1>3, <1>7, TableReaches
<1>5. Match(r, b) <=> Reaches(b, r, Len(b), Len(r))
  BY MatchReaches
<1> QED
  BY <1>1, <1>4, <1>5, Zenon DEF b, r

KeysOK == routing_key \in Seq(RoutingWords \cup {""}) /\ binding_key \in Seq(BindingWords \cup {""})

LEMMA OneWord ==
  ASSUME NEW S, NEW word \in S
  PROVE  <<word>> \in Seq(S)
BY AppendProperties, EmptySeq

LEMMA LongerKeys ==
  ASSUME NEW words, NEW key \in Seq(words \cup {""}), NEW more \in Longer(key, words)
  PROVE  more \in Seq(words \cup {""})
<1>1. CASE key = <<"">>
  BY <1>1, OneWord DEF Longer
<1>2. CASE key # <<"">>
  BY <1>2, AppendProperties DEF Longer
<1> QED
  BY <1>1, <1>2

\* However long the keys grow, of whatever words: for a valid routing key the
\* topic match is a match.
THEOREM TopicMatchesAreMatches == Spec => []TopicMatchIsMatch
<1>1. Init => KeysOK
  BY OneWord DEF Init, KeysOK
<1>2. KeysOK /\ [Next]_vars => KeysOK'
  <2> SUFFICES ASSUME KeysOK, [Next]_vars PROVE KeysOK'
    OBVIOUS
  <2>1. CASE GrowRoutingKey
    BY <2>1, LongerKeys DEF GrowRoutingKey, KeysOK
  <2>2. CASE GrowBindingKey
    BY <2>2, LongerKeys DEF GrowBindingKey, KeysOK
  <2>3. CASE UNCHANGED vars
    BY <2>3 DEF vars, KeysOK
  <2> QED
    BY <2>1, <2>2, <2>3 DEF Next
<1>3. KeysOK => TopicMatchIsMatch
  <2> SUFFICES ASSUME KeysOK, IsValidRoutingKey(routing_key)
               PROVE  TopicMatch(routing_key, binding_key)
                        <=> Match(Split(routing_key), Split(binding_key))
    BY DEF TopicMatchIsMatch
  <2> DEFINE S == RoutingWords \cup BindingWords \cup {""}
  <2>1. routing_key \in Seq(S) /\ binding_key \in Seq(S)
    <3>1. RoutingWords \cup {""} \subseteq S /\ BindingWords \cup {""} \subseteq S
      OBVIOUS
    <3> HIDE DEF S
    <3> QED
      BY <3>1, SeqMonotonic DEF KeysOK
  <2>2. \A k \in DOMAIN routing_key : routing_key[k] # "#"
    BY DEF IsValidRoutingKey, Wildcards
  <2> HIDE DEF S
  <2> QED
    BY <2>1, <2>2, TopicMatchFindsMatches
<1> QED
  BY <1>1, <1>2, <1>3, PTL DEF Spec
=============================================================================
