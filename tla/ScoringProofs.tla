------------------------------ MODULE ScoringProofs ------------------------------
(***************************************************************************)
(* Proofs about Scoring, for any deck, any number of players and deals of  *)
(* any size: however the cards are dealt and drawn, each is in one place,  *)
(* every hand has the size of a deal, and who is announced as the winner   *)
(* beats everybody.                                                        *)
(***************************************************************************)
EXTENDS Scoring, FiniteSetTheorems, TLAPS

-----------------------------------------------------------------------------
(* Sums and least members: what SumFunction and Min give for finite sets. An  *)
(* induction is by the least number, or the least set, that is a counterexample. *)

LEMMA LeastNumber ==
  ASSUME NEW N \in SUBSET Nat, N # {}
  PROVE  \E n \in N : \A m \in N : n <= m
<1>1. PICK k \in N : TRUE
  OBVIOUS
<1> DEFINE R == StrictSubsetOrdering(0..k)
           T == {0..n : n \in {m \in N : m <= k}}
<1>2. IsWellFoundedOn(R, SUBSET (0..k))
  <2>1. IsFiniteSet(0..k)
    BY FS_Interval
  <2>2. FiniteSubsetsOf(0..k) = SUBSET (0..k)
    BY <2>1, FS_FiniteSubsetsOfFinite
  <2>3. QED
    BY <2>2, FS_StrictSubsetOrderingWellFounded
<1>3. T \subseteq SUBSET (0..k) /\ T # {}
  BY <1>1
<1>4. PICK x \in T : \A y \in T : ~(<<y, x>> \in R)
  <2> HIDE DEF R, T
  <2> QED
    BY <1>2, <1>3, WFMin
<1>5. PICK n \in N : n <= k /\ x = 0..n
  OBVIOUS
<1>6. ASSUME NEW m \in N, m < n  PROVE FALSE
  <2>1. 0..m \in T /\ 0..m \subseteq 0..n /\ n \in 0..n /\ n \notin 0..m
    BY <1>5, <1>6
  <2>2. <<0..m, 0..n>> \in R
    BY <2>1, <1>5 DEF StrictSubsetOrdering
  <2>3. QED
    BY <2>1, <2>2, <1>4, <1>5
<1>7. QED
  BY <1>6

LEMMA LeastOfSet ==
  ASSUME NEW S \in SUBSET Int, IsFiniteSet(S), S # {}
  PROVE  Min(S) \in S /\ \A y \in S : Min(S) <= y
<1> DEFINE R == StrictSubsetOrdering(S)
           below(s) == {t \in S : t <= s}
           T == {below(s) : s \in S}
<1>1. IsWellFoundedOn(R, SUBSET S)
  <2>1. FiniteSubsetsOf(S) = SUBSET S
    BY FS_FiniteSubsetsOfFinite
  <2>2. QED
    BY <2>1, FS_StrictSubsetOrderingWellFounded
<1>2. T \subseteq SUBSET S /\ T # {}
  OBVIOUS
<1>3. PICK x \in T : \A y \in T : ~(<<y, x>> \in R)
  <2> HIDE DEF R, T
  <2> QED
    BY <1>1, <1>2, WFMin
<1>4. PICK s \in S : x = below(s)
  OBVIOUS
<1>5. ASSUME NEW t \in S, t < s  PROVE FALSE
  <2>1. below(t) \in T /\ below(t) \subseteq below(s) /\ s \in below(s) /\ s \notin below(t)
    <3>1. \A u \in S : u <= t => u <= s
      BY <1>5
    <3>2. ~(s <= t) /\ s <= s
      BY <1>5
    <3>3. QED
      BY <3>1, <3>2
  <2>2. <<below(t), below(s)>> \in R
    BY <2>1 DEF StrictSubsetOrdering
  <2>3. QED
    BY <2>1, <2>2, <1>3, <1>4
<1>6. \A y \in S : s <= y
  BY <1>5
<1>7. QED
  BY <1>6 DEF Min

pick(s) == CHOOSE x \in s : TRUE

\* Adding up, one after the other, the values that f gives to the members of s.
Adds(g, f, s) == IF s = {} THEN 0 ELSE f[pick(s)] + g[s \ {pick(s)}]

LEMMA SumOfInts ==
  ASSUME NEW S, IsFiniteSet(S), NEW f \in [S -> Int]
  PROVE  SumFunction(f) \in Int
<1> DEFINE Size(n) == {s \in SUBSET S : Cardinality(s) <= n}
           Upto(n) == \E g \in [SUBSET S -> Int] : \A s \in Size(n) : g[s] = Adds(g, f, s)
           iter == CHOOSE iter : iter = [s \in SUBSET S |-> Adds(iter, f, s)]
<1>0. SumFunction(f) = iter[S]
  BY DEF SumFunction, SumFunctionOnSet, FoldFunctionOnSet, MapThenFoldSet, Adds, pick
<1>1. \A s \in SUBSET S : IsFiniteSet(s) /\ Cardinality(s) \in Nat
  BY FS_Subset, FS_CardinalityType
<1>2. \A s \in SUBSET S : s # {} =>
        /\ pick(s) \in s
        /\ s \ {pick(s)} \in SUBSET S
        /\ Cardinality(s \ {pick(s)}) = Cardinality(s) - 1
  BY <1>1, FS_RemoveElement DEF pick
<1>3. Upto(0)
  <2> DEFINE g == [s \in SUBSET S |-> 0]
  <2>1. \A s \in Size(0) : s = {}
    BY <1>1, FS_EmptySet
  <2>2. g \in [SUBSET S -> Int] /\ \A s \in Size(0) : g[s] = Adds(g, f, s)
    BY <2>1 DEF Adds
  <2>3. QED
    BY <2>2
<1>4. ASSUME NEW n \in Nat, Upto(n)  PROVE Upto(n + 1)
  <2>1. PICK g \in [SUBSET S -> Int] : \A s \in Size(n) : g[s] = Adds(g, f, s)
    BY <1>4
  <2> DEFINE h == [s \in SUBSET S |-> IF Cardinality(s) <= n THEN g[s] ELSE Adds(g, f, s)]
  <2>2. h \in [SUBSET S -> Int]
    BY <1>2 DEF Adds
  <2>3. ASSUME NEW s \in Size(n + 1), s # {}
        PROVE  h[s \ {pick(s)}] = g[s \ {pick(s)}]
    <3>1. s \ {pick(s)} \in SUBSET S /\ Cardinality(s \ {pick(s)}) <= n
      BY <1>1, <1>2, <2>3
    <3>2. QED
      BY <3>1
  <2>4. ASSUME NEW s \in Size(n + 1)  PROVE h[s] = Adds(h, f, s)
    <3>1. h[s] = Adds(g, f, s)
      BY <2>1
    <3>2. QED
      BY <3>1, <2>3 DEF Adds
  <2>5. QED
    BY <2>2, <2>4
<1>5. \A n \in Nat : Upto(n)
  <2> SUFFICES ASSUME NEW b \in Nat, ~Upto(b)  PROVE FALSE
    OBVIOUS
  <2> DEFINE N == {m \in Nat : ~Upto(m)}
  <2> HIDE DEF Upto
  <2>1. PICK n \in N : \A m \in N : n <= m
    BY LeastNumber
  <2>2. n # 0 /\ n - 1 \in Nat
    BY <1>3
  <2>3. Upto(n - 1)
    BY <2>1, <2>2
  <2>4. Upto((n - 1) + 1)
    BY <1>4, <2>2, <2>3
  <2>5. QED
    BY <2>2, <2>4
<1>6. iter = [s \in SUBSET S |-> Adds(iter, f, s)]
  <2>1. Cardinality(S) \in Nat /\ \A s \in SUBSET S : Cardinality(s) <= Cardinality(S)
    BY <1>1, FS_Subset
  <2>2. PICK g \in [SUBSET S -> Int] : \A s \in Size(Cardinality(S)) : g[s] = Adds(g, f, s)
    BY <1>5, <2>1
  <2>3. g = [s \in SUBSET S |-> Adds(g, f, s)]
    BY <2>1, <2>2
  <2> HIDE DEF Size
  <2>4. QED
    BY <2>3
<1> HIDE DEF iter
<1>7. \A s \in SUBSET S : iter[s] \in Int
  <2> SUFFICES ASSUME NEW b \in SUBSET S, iter[b] \notin Int  PROVE FALSE
    OBVIOUS
  <2> DEFINE N == {m \in Nat : \E s \in SUBSET S : iter[s] \notin Int /\ Cardinality(s) = m}
  <2>1. N # {}
    BY <1>1
  <2>2. PICK n \in N : \A m \in N : n <= m
    BY <2>1, LeastNumber
  <2>3. PICK s \in SUBSET S : iter[s] \notin Int /\ Cardinality(s) = n
    OBVIOUS
  <2>4. iter[s] = Adds(iter, f, s)
    BY <1>6
  <2>5. s # {}
    BY <2>3, <2>4 DEF Adds
  <2>6. s \ {pick(s)} \in SUBSET S /\ Cardinality(s \ {pick(s)}) = n - 1 /\ n \in Nat /\ n - 1 \in Nat
    BY <1>1, <1>2, <2>3, <2>5
  <2>7. iter[s \ {pick(s)}] \in Int
    BY <2>2, <2>6
  <2>8. pick(s) \in S
    BY <1>2, <2>5
  <2>9. QED
    BY <2>3, <2>4, <2>5, <2>7, <2>8 DEF Adds
<1>8. QED
  BY <1>0, <1>7

-----------------------------------------------------------------------------
(* The hands. *)

\* A player's cards and the card drawn were taken out of the deck, the deck of
\* before, so later ones cannot be the same.
CardsInv ==
  /\ drawn \intersect deck = {}
  /\ CardsInOnePlace

\* A winner is announced once all hands are dealt, and they have finitely many
\* cards, so that each has a score.
RoundInv ==
  /\ \A p \in Players : IsFiniteSet(cards[p])
  /\ winner # Nobody => Dealt

ScoringInv == TypeOK /\ CardsInv /\ RoundInv /\ WinnerBeatsAll

LEMMA PlayersFinite == IsFiniteSet(Players) /\ Players # {} /\ Players \subseteq Int
<1>1. NumPlayers - 1 \in Int /\ 0 \in 0..(NumPlayers - 1)
  BY ScoringAssumption
<1>2. IsFiniteSet(0..(NumPlayers - 1))
  BY <1>1, FS_Interval
<1>3. QED
  BY <1>1, <1>2 DEF Players

LEMMA TopOfDeck ==
  ASSUME NEW n \in Nat, NEW top \in Tops(n)
  PROVE  top \subseteq deck /\ IsFiniteSet(top) /\ Cardinality(top) = n
<1>1. PICK f \in [1..n -> deck] : IsInjective(f) /\ top = Range(f)
  BY Zenon DEF Tops
<1>2. f \in Bijection(1..n, top)
  BY <1>1 DEF IsInjective, Range, Bijection, Injection, Surjection
<1>3. ExistsBijection(1..n, top) /\ IsFiniteSet(1..n) /\ Cardinality(1..n) = n
  BY <1>2, FS_Interval DEF ExistsBijection
<1>4. IsFiniteSet(top) /\ Cardinality(top) = Cardinality(1..n)
  BY <1>3, FS_Bijection
<1>5. QED
  BY <1>1, <1>3, <1>4 DEF Range

\* Every hand has a score.
LEMMA ScoreType ==
  ASSUME NEW p \in Players, IsFiniteSet(cards[p]), cards[p] \subseteq FULL_DECK
  PROVE  score(p) \in Int
<1> DEFINE f == [c \in cards[p] |-> game_value(c)]
<1>1. \A c \in FULL_DECK : game_value(c) \in Int
  BY DEF FULL_DECK, Jokers, Suits, game_value, color
<1>2. f \in [cards[p] -> Int]
  BY <1>1
<1> HIDE DEF f
<1>3. SumFunction(f) \in Int
  BY <1>2, SumOfInts
<1>4. QED
  BY <1>3 DEF score, f

\* The scores stay while the hands do.
LEMMA ScoresStay ==
  ASSUME cards' = cards
  PROVE  \A p \in Players : score(p)' = score(p)
BY DEF score

LEMMA DealCards ==
  ASSUME ScoringInv, NEW p \in Players, Deal(p)
  PROVE  ScoringInv'
<1>1. PICK top \in Tops(STARTING_DECK_LEN) :
        /\ deck' = deck \ top
        /\ cards' = [cards EXCEPT ![p] = @ \union top]
  BY DEF Deal, take_starting_cards
<1>2. top \subseteq deck /\ IsFiniteSet(top) /\ Cardinality(top) = STARTING_DECK_LEN
  BY TopOfDeck, ScoringAssumption
<1>3. cards[p] = {} /\ drawn' = drawn /\ winner' = winner
  BY DEF Deal
<1>4. cards'[p] = top /\ \A q \in Players \ {p} : cards'[q] = cards[q]
  BY <1>1, <1>3 DEF ScoringInv, TypeOK
<1>5. TypeOK'
  BY <1>1, <1>2, <1>3, <1>4 DEF ScoringInv, TypeOK
<1>6. CardsInv'
  BY <1>1, <1>2, <1>3, <1>4 DEF ScoringInv, TypeOK, CardsInv, CardsInOnePlace
<1>7. winner' = Nobody
  BY <1>3 DEF ScoringInv, RoundInv, Dealt
<1>8. RoundInv' /\ WinnerBeatsAll'
  <2>1. \A q \in Players : IsFiniteSet(cards'[q])
    BY <1>2, <1>4 DEF ScoringInv, RoundInv
  <2>2. QED
    BY <1>7, <2>1 DEF RoundInv, WinnerBeatsAll
<1>9. QED
  BY <1>5, <1>6, <1>8 DEF ScoringInv

LEMMA DrawCards ==
  ASSUME ScoringInv, Draw
  PROVE  ScoringInv'
<1>1. PICK c \in deck :
        deck' = deck \ {c} /\ drawn' = {c} /\ cards' = cards /\ winner' = Nobody
  BY DEF Draw
<1>2. TypeOK'
  <2>1. Cardinality({c}) = 1
    BY FS_Singleton
  <2>2. Cardinality(drawn') <= 1 /\ drawn' \subseteq deck
    BY <1>1, <2>1
  <2>3. QED
    BY <1>1, <2>2 DEF ScoringInv, TypeOK
<1>3. CardsInv' /\ RoundInv' /\ WinnerBeatsAll'
  BY <1>1 DEF ScoringInv, CardsInv, CardsInOnePlace, RoundInv, WinnerBeatsAll
<1>4. QED
  BY <1>2, <1>3 DEF ScoringInv

-----------------------------------------------------------------------------
(* The winner. *)

\* A group is a part of the players: finite, and a group of one is that one.
LEMMA SoleMember ==
  ASSUME NEW best \in SUBSET Players, best # {}
  PROVE  /\ Sole(best) \in {Tied} \union {Winner(p) : p \in best}
         /\ \A p \in Players : Sole(best) = Winner(p) <=> best = {p}
         /\ Sole(best) = Tied <=> \A p \in Players : best # {p}
<1>1. IsFiniteSet(best)
  BY PlayersFinite, FS_Subset
<1>2. \A p \in Players : Winner(p) # Tied
  BY DEF Winner, Tied
<1>3. \A p, q \in Players : Winner(p) = Winner(q) => p = q
  BY DEF Winner
<1>4. CASE Cardinality(best) = 1
  <2>1. PICK b \in Players : best = {b}
    BY <1>1, <1>4, FS_Singleton
  <2>2. b \in Int
    BY PlayersFinite
  <2>3. Min(best) = b
    BY <2>1, <2>2 DEF Min
  <2>4. Sole(best) = Winner(b)
    BY <1>4, <2>3 DEF Sole
  <2>5. QED
    BY <1>2, <1>3, <2>1, <2>4
<1>5. CASE Cardinality(best) # 1
  <2>1. \A p \in Players : best # {p}
    BY <1>5, FS_Singleton
  <2>2. Sole(best) = Tied
    BY <1>5 DEF Sole
  <2>3. QED
    BY <1>2, <2>1, <2>2
<1>6. QED
  BY <1>4, <1>5

\* The lowest of the scores is somebody's.
LEMMA LowestScore ==
  ASSUME \A p \in Players : score(p) \in Int
  PROVE  LET scores == {score(p) : p \in Players}
         IN  /\ Min(scores) \in scores
             /\ \A p \in Players : Min(scores) <= score(p)
<1> DEFINE scores == {score(p) : p \in Players}
           f == [p \in Players |-> score(p)]
<1>1. IsFiniteSet(Players) /\ Players # {}
  BY PlayersFinite
<1>2. f \in Surjection(Players, scores)
  BY DEF Surjection
<1>3. IsFiniteSet(scores)
  <2> HIDE DEF f, scores
  <2> QED
    BY <1>1, <1>2, FS_Surjection
<1>4. scores \in SUBSET Int /\ scores # {}
  BY <1>1
<1>5. Min(scores) \in scores /\ \A y \in scores : Min(scores) <= y
  <2> HIDE DEF scores
  <2> QED
    BY <1>3, <1>4, LeastOfSet
<1>6. QED
  BY <1>5

LEMMA FindWinner ==
  ASSUME ScoringInv, find_winner
  PROVE  ScoringInv'
<1> DEFINE scores == {score(p) : p \in Players}
           group == [s \in scores |-> {p \in Players : score(p) = s}]
           best == group[Min(scores)]
<1>1. winner' = Sole(best) /\ Dealt /\ deck' = deck /\ cards' = cards /\ drawn' = drawn
  BY DEF find_winner
<1>2. \A p \in Players : score(p) \in Int
  BY ScoreType DEF ScoringInv, TypeOK, RoundInv
<1>3. Min(scores) \in scores /\ \A p \in Players : Min(scores) <= score(p)
  BY <1>2, LowestScore
<1>4. best = {p \in Players : score(p) = Min(scores)} /\ best # {}
  BY <1>3
<1> HIDE DEF best, group
<1>5. /\ winner' \in {Tied} \union {Winner(p) : p \in best}
      /\ \A p \in Players : winner' = Winner(p) <=> best = {p}
      /\ winner' = Tied <=> \A p \in Players : best # {p}
  <2>1. best \in SUBSET Players
    BY <1>4
  <2>2. QED
    BY <1>1, <1>4, <2>1, SoleMember
<1>6. ASSUME NEW p \in Players
      PROVE  best = {p} <=> \A q \in Players \ {p} : score(p) < score(q)
  <2> PICK m : m = Min(scores) /\ m \in Int /\ \A q \in Players : m <= score(q)
    BY <1>2, <1>3
  <2> HIDE DEF scores
  <2>1. ASSUME best = {p}, NEW q \in Players \ {p}  PROVE score(p) < score(q)
    BY <1>2, <1>4, <2>1
  <2>2. ASSUME \A q \in Players \ {p} : score(p) < score(q)  PROVE best = {p}
    <3>1. \A q \in best : q = p
      BY <1>2, <1>4, <2>2
    <3>2. QED
      BY <1>4, <3>1
  <2>3. QED
    BY <2>1, <2>2
<1>7. WinnerBeatsAll'
  <2>1. \A p \in Players : score(p)' = score(p)
    BY <1>1, ScoresStay
  <2>2. Players' = Players
    OBVIOUS
  <2>3. QED
    BY <1>5, <1>6, <2>1 DEF WinnerBeatsAll
<1>8. TypeOK'
  BY <1>1, <1>4, <1>5 DEF ScoringInv, TypeOK
<1>9. CardsInv' /\ RoundInv'
  BY <1>1 DEF ScoringInv, CardsInv, CardsInOnePlace, RoundInv, Dealt
<1>10. QED
  BY <1>7, <1>8, <1>9 DEF ScoringInv

-----------------------------------------------------------------------------
(* What may be done with a card. *)

LEMMA AllDecisions ==
  /\ Len(ALL) = 6
  /\ ALL[1] = "Discard" /\ ALL[2] = "Replace" /\ ALL[3] = "LookAtOwn"
  /\ ALL[4] = "LookAtOther" /\ ALL[5] = "BlindSwap" /\ ALL[6] = "LookAndSwap"
BY DEF ALL

\* Every decision has a bit of its own.
LEMMA Bits ==
  /\ to_bit("Discard") = 1 /\ to_bit("Replace") = 2 /\ to_bit("LookAtOwn") = 4
  /\ to_bit("LookAtOther") = 8 /\ to_bit("BlindSwap") = 16 /\ to_bit("LookAndSwap") = 32
<1>1. ASSUME NEW n \in 1..6  PROVE (CHOOSE i \in DOMAIN ALL : ALL[i] = ALL[n]) = n
  <2>1. DOMAIN ALL = 1..6 /\ \A i \in 1..6 : ALL[i] = ALL[n] => i = n
    BY AllDecisions DEF ALL
  <2>2. QED
    BY <2>1
<1>2. \A n \in 1..6 : to_bit(ALL[n]) = 2 ^ (n - 1)
  BY <1>1 DEF to_bit
<1>3. /\ to_bit("Discard") = 2 ^ (1 - 1) /\ to_bit("Replace") = 2 ^ (2 - 1)
      /\ to_bit("LookAtOwn") = 2 ^ (3 - 1) /\ to_bit("LookAtOther") = 2 ^ (4 - 1)
      /\ to_bit("BlindSwap") = 2 ^ (5 - 1) /\ to_bit("LookAndSwap") = 2 ^ (6 - 1)
  BY <1>2, AllDecisions
<1>4. 2 ^ 0 = 1 /\ 2 ^ 1 = 2 /\ 2 ^ 2 = 4 /\ 2 ^ 3 = 8 /\ 2 ^ 4 = 16 /\ 2 ^ 5 = 32
  OBVIOUS
<1>5. QED
  BY <1>3, <1>4

\* The set of a card: to discard and to replace, and the action of its number.
LEMMA ValidSet ==
  ASSUME NEW c \in FULL_DECK
  PROVE  /\ valid_set(c) \in {3, 7, 11, 19, 35}
         /\ valid_set(c) = 7 <=> c.suit # "Joker" /\ c.face \in 7..8
         /\ valid_set(c) = 11 <=> c.suit # "Joker" /\ c.face \in 9..10
         /\ valid_set(c) = 19 <=> c.suit # "Joker" /\ c.face \in 11..12
         /\ valid_set(c) = 35 <=> c.suit # "Joker" /\ c.face \in 13..13
<1>1. and(0, "Discard") = 1
  BY Bits DEF and, contains
<1>2. and(1, "Replace") = 3
  BY Bits DEF and, contains
<1>3. BASE = 3
  BY <1>1, <1>2 DEF BASE
<1>4. /\ and(3, "LookAndSwap") = 35 /\ and(3, "BlindSwap") = 19
      /\ and(3, "LookAtOther") = 11 /\ and(3, "LookAtOwn") = 7
  BY Bits DEF and, contains
<1>5. c.face \in Int /\ (c.suit = "Joker" => c.face \in 1..2)
  BY DEF FULL_DECK, Jokers, Suits
<1> DEFINE n == c.face
           plain == c.suit = "Joker" \/ n \notin 7..13
<1>6. valid_set(c) =
        IF plain THEN 3
        ELSE IF n = 13 THEN 35 ELSE IF n \in 11..12 THEN 19 ELSE IF n \in 9..10 THEN 11 ELSE 7
  <2>1. CASE c.suit = "Joker"
    BY <1>3, <1>5, <2>1 DEF valid_set
  <2>2. CASE c.suit # "Joker" /\ n = 13
    BY <1>3, <1>4, <2>2 DEF valid_set
  <2>3. CASE c.suit # "Joker" /\ n \in 11..12
    BY <1>3, <1>4, <2>3 DEF valid_set
  <2>4. CASE c.suit # "Joker" /\ n \in 9..10
    BY <1>3, <1>4, <2>4 DEF valid_set
  <2>5. CASE c.suit # "Joker" /\ n \in 7..8
    BY <1>3, <1>4, <2>5 DEF valid_set
  <2>6. CASE c.suit # "Joker" /\ n \notin 7..13
    BY <1>3, <1>5, <2>6 DEF valid_set
  <2>7. QED
    BY <1>5, <2>1, <2>2, <2>3, <2>4, <2>5, <2>6
<1>7. QED
  BY <1>5, <1>6

\* The decisions of a set, one after the other.
LEMMA IntoVec ==
  ASSUME NEW bits
  PROVE  LET next(s, n) == IF contains(bits, ALL[n]) THEN Append(s, ALL[n]) ELSE s
         IN into_vec(bits) = next(next(next(next(next(next(<<>>, 1), 2), 3), 4), 5), 6)
<1> DEFINE next(s, n) == IF contains(bits, ALL[n]) THEN Append(s, ALL[n]) ELSE s
           s1 == next(<<>>, 1)
           s2 == next(s1, 2)
           s3 == next(s2, 3)
           s4 == next(s3, 4)
           s5 == next(s4, 5)
           s6 == next(s5, 6)
           step(f) == [i \in 0..Len(ALL) |-> IF i = 0 THEN <<>> ELSE next(f[i - 1], i)]
           kept == CHOOSE f : f = step(f)
           known == [i \in 0..6 |-> CASE i = 0 -> <<>> [] i = 1 -> s1 [] i = 2 -> s2 [] i = 3 -> s3
                                      [] i = 4 -> s4 [] i = 5 -> s5 [] i = 6 -> s6]
<1>1. into_vec(bits) = kept[6]
  BY AllDecisions DEF into_vec
<1>2. known = step(known)
  <2>1. Len(ALL) = 6
    BY AllDecisions
  <2>2. ASSUME NEW i \in 0..6
        PROVE  known[i] = IF i = 0 THEN <<>> ELSE next(known[i - 1], i)
    <3> HIDE DEF next
    <3>1. QED
      OBVIOUS
  <2>3. QED
    BY <2>1, <2>2
<1>3. kept = step(kept)
  BY <1>2
<1> HIDE DEF kept, known
<1>4. \A i \in 0..6 : kept[i] = IF i = 0 THEN <<>> ELSE next(kept[i - 1], i)
  BY <1>3, AllDecisions
<1> HIDE DEF next
<1>5. kept[0] = <<>> /\ kept[1] = s1
  BY <1>4
<1>6. kept[2] = s2 /\ kept[3] = s3
  <2>1. kept[2] = s2
    BY <1>4, <1>5
  <2>2. QED
    BY <1>4, <2>1
<1>7. kept[4] = s4
  BY <1>4, <1>6
<1>8. kept[5] = s5
  BY <1>4, <1>7
<1>9. kept[6] = s6
  BY <1>4, <1>8
<1>10. QED
  BY <1>1, <1>9 DEF next

LEMMA SetContains ==
  ASSUME NEW bits \in {3, 7, 11, 19, 35}
  PROVE  /\ contains(bits, "Discard") /\ contains(bits, "Replace")
         /\ contains(bits, "LookAtOwn") <=> bits = 7
         /\ contains(bits, "LookAtOther") <=> bits = 11
         /\ contains(bits, "BlindSwap") <=> bits = 19
         /\ contains(bits, "LookAndSwap") <=> bits = 35
BY Bits DEF contains

LEMMA Appended ==
  ASSUME NEW S, NEW s \in Seq(S), NEW d \in S, NEW n \in Nat, Len(s) = n
  PROVE  /\ Append(s, d) \in Seq(S) /\ Len(Append(s, d)) = n + 1
         /\ Append(s, d)[n + 1] = d /\ \A i \in 1..n : Append(s, d)[i] = s[i]
OBVIOUS

\* A vector begins with the two decisions every card has, and has one more at most.
LEMMA SetListed ==
  ASSUME NEW bits \in {3, 7, 11, 19, 35}
  PROVE  LET listed == into_vec(bits)
         IN listed[1] = "Discard" /\ listed[2] = "Replace" /\ Len(listed) <= 3
<1> DEFINE next(s, n) == IF contains(bits, ALL[n]) THEN Append(s, ALL[n]) ELSE s
           names == {"Discard", "Replace", "LookAtOwn", "LookAtOther", "BlindSwap", "LookAndSwap"}
           one == Append(<<>>, "Discard")
           two == Append(one, "Replace")
<1>1. {"Discard", "Replace"} \subseteq names
  OBVIOUS
<1>2. one \in Seq(names) /\ one[0 + 1] = "Discard" /\ Len(one) = 0 + 1
  <2> HIDE DEF names
  <2>1. <<>> \in Seq(names) /\ Len(<<>>) = 0
    OBVIOUS
  <2>2. QED
    BY <1>1, <2>1, Appended
<1>3. two \in Seq(names) /\ two[1] = "Discard" /\ two[2] = "Replace" /\ Len(two) = 2
  <2> HIDE DEF names, one
  <2>1. PICK n \in Nat : n = 1
    OBVIOUS
  <2>2. /\ two \in Seq(names) /\ Len(two) = n + 1
        /\ two[n + 1] = "Replace" /\ \A i \in 1..n : two[i] = one[i]
    BY <1>1, <1>2, <2>1, Appended
  <2> HIDE DEF two
  <2>3. QED
    BY <1>2, <2>1, <2>2
<1>4. one = next(<<>>, 1) /\ two = next(one, 2)
  <2> HIDE DEF names
  <2>1. contains(bits, ALL[1]) /\ contains(bits, ALL[2])
    BY SetContains, AllDecisions
  <2>2. QED
    BY <2>1, AllDecisions
<1> HIDE DEF one, two
<1>5. into_vec(bits) = next(next(next(next(two, 3), 4), 5), 6)
  BY <1>4, IntoVec
<1>6. ASSUME NEW s
      PROVE  /\ next(s, 3) = IF bits = 7 THEN Append(s, "LookAtOwn") ELSE s
             /\ next(s, 4) = IF bits = 11 THEN Append(s, "LookAtOther") ELSE s
             /\ next(s, 5) = IF bits = 19 THEN Append(s, "BlindSwap") ELSE s
             /\ next(s, 6) = IF bits = 35 THEN Append(s, "LookAndSwap") ELSE s
  BY SetContains, AllDecisions
<1> HIDE DEF next
<1>7. into_vec(bits) = two \/ \E d \in names : into_vec(bits) = Append(two, d)
  <2>1. into_vec(bits) = IF bits = 7 THEN Append(two, "LookAtOwn")
                         ELSE IF bits = 11 THEN Append(two, "LookAtOther")
                         ELSE IF bits = 19 THEN Append(two, "BlindSwap")
                         ELSE IF bits = 35 THEN Append(two, "LookAndSwap") ELSE two
    <3>1. CASE bits = 7
      BY <1>5, <1>6, <3>1
    <3>2. CASE bits = 11
      BY <1>5, <1>6, <3>2
    <3>3. CASE bits = 19
      BY <1>5, <1>6, <3>3
    <3>4. CASE bits = 35
      BY <1>5, <1>6, <3>4
    <3>5. CASE bits = 3
      BY <1>5, <1>6, <3>5
    <3>6. QED
      BY <3>1, <3>2, <3>3, <3>4, <3>5
  <2>2. QED
    BY <2>1
<1> HIDE DEF names
<1>8. ASSUME NEW d \in names
      PROVE  Append(two, d)[1] = two[1] /\ Append(two, d)[2] = two[2] /\ Len(Append(two, d)) = 3
  <2>1. PICK n \in Nat : n = 2
    OBVIOUS
  <2>2. two \in Seq(names) /\ n \in Nat /\ Len(two) = n
    BY <1>3, <2>1
  <2>3. Len(Append(two, d)) = n + 1 /\ \A i \in 1..n : Append(two, d)[i] = two[i]
    BY <2>2, Appended
  <2>4. QED
    BY <2>1, <2>3
<1>9. QED
  BY <1>3, <1>7, <1>8

-----------------------------------------------------------------------------

\* In every reachable state the hands, the deck and the drawn card have no card
\* in common, every hand is empty or a whole deal, and a winner is the best.
THEOREM ScoringInvariant == Spec => []ScoringInv
<1>1. Init => ScoringInv
  <2>1. SUFFICES ASSUME Init  PROVE ScoringInv
    OBVIOUS
  <2>2. TypeOK
    BY <2>1, ScoringAssumption, FS_EmptySet DEF Init, TypeOK
  <2>3. CardsInv /\ RoundInv /\ WinnerBeatsAll
    BY <2>1, FS_EmptySet DEF Init, CardsInv, CardsInOnePlace, RoundInv, WinnerBeatsAll
  <2>4. QED
    BY <2>2, <2>3 DEF ScoringInv
<1>2. ScoringInv /\ [Next]_vars => ScoringInv'
  <2>1. SUFFICES ASSUME ScoringInv, [Next]_vars  PROVE ScoringInv'
    OBVIOUS
  <2>2. CASE UNCHANGED vars
    <3>1. deck' = deck /\ cards' = cards /\ drawn' = drawn /\ winner' = winner
      BY <2>2 DEF vars
    <3>2. TypeOK' /\ CardsInv' /\ RoundInv'
      BY <2>1, <3>1 DEF ScoringInv, TypeOK, CardsInv, CardsInOnePlace, RoundInv, Dealt
    <3>3. WinnerBeatsAll'
      BY <2>1, <3>1, ScoresStay DEF ScoringInv, WinnerBeatsAll
    <3>4. QED
      BY <3>2, <3>3 DEF ScoringInv
  <2>3. QED
    BY <2>1, <2>2, DealCards, DrawCards, FindWinner DEF Next
<1>3. QED
  BY <1>1, <1>2, PTL DEF Spec

\* Every variable keeps its type: a hand is empty or has as many cards as are
\* dealt (data.rs:104), and the winner is one player, nobody or a tie.
THEOREM ScoringTypeCorrect == Spec => []TypeOK
<1>1. ScoringInv => TypeOK
  BY DEF ScoringInv
<1>2. QED
  BY <1>1, ScoringInvariant, PTL

\* The cards of the players, the deck and the drawn card have none in common:
\* what is drained from the deck (data.rs:104) is in nobody else's hand.
THEOREM CardsApart == Spec => []CardsInOnePlace
<1>1. ScoringInv => CardsInOnePlace
  BY DEF ScoringInv, CardsInv
<1>2. QED
  BY <1>1, ScoringInvariant, PTL

\* The announced winner has fewer points than every other player, and a tie
\* means that nobody has (find_winner, server/src/game.rs).
THEOREM WinnerIsBest == Spec => []WinnerBeatsAll
<1>1. ScoringInv => WinnerBeatsAll
  BY DEF ScoringInv
<1>2. QED
  BY <1>1, ScoringInvariant, PTL

\* What may be done with a drawn card follows its number, and the vector the
\* client chooses from lists the discard first, the replacement next, and one
\* more at most (valid_set and into_vec, common/src/decisions.rs).
THEOREM ActionsFollowNumbers == Spec => []ActionByNumber
<1>1. ASSUME TypeOK  PROVE ActionByNumber
  <2>1. drawn \subseteq FULL_DECK
    BY <1>1 DEF TypeOK
  <2>2. QED
    BY <2>1, ValidSet, SetContains, SetListed DEF ActionByNumber
<1>2. QED
  BY <1>1, ScoringTypeCorrect, PTL

=============================================================================
