------------------------------- MODULE Scoring -------------------------------
(***************************************************************************)
(* The cards of one round: what each is worth (common/src/lib.rs), what    *)
(* may be done with it (common/src/decisions.rs), how the deal hands them  *)
(* out (common/src/data.rs) and who wins with them (find_winner of         *)
(* server/src/game.rs).                                                    *)
(*                                                                         *)
(* A face is its number, with 11, 12 and 13 for jack, queen and king.  The *)
(* deck is shuffled, so the cards taken from it are any of those left.     *)
(***************************************************************************)
EXTENDS Integers, FiniteSetsExt, SequencesExt

CONSTANTS
  Decks,              \* bound: the parts of FULL_DECK played with, one at a time
  NumPlayers,
  STARTING_DECK_LEN

Players == 0..(NumPlayers - 1)

Suits == {"Hearts", "Diamonds", "Clubs", "Spades"}
Jokers == {[suit |-> "Joker", face |-> n] : n \in 1..2}
FULL_DECK == [suit : Suits, face : 1..13] \union Jokers

ASSUME ScoringAssumption ==
  /\ Decks \subseteq SUBSET FULL_DECK
  /\ NumPlayers \in Nat \ {0}
  /\ STARTING_DECK_LEN \in Nat \ {0}
  /\ \A d \in Decks : NumPlayers * STARTING_DECK_LEN < Cardinality(d)

VARIABLES
  deck,   \* the cards left in the deck
  cards,  \* the cards of each player, in any order
  drawn,  \* the card a player drew and decides on, if any
  winner  \* what was announced at the end

vars == <<deck, cards, drawn, winner>>

-----------------------------------------------------------------------------
(* The value of cards. *)

color(suit) == IF suit \in {"Hearts", "Diamonds"} THEN "Red" ELSE "Black"

\* A joker is worth nothing and a red king takes two away.
game_value(card) ==
  CASE card.suit = "Joker"                            -> 0
    [] card.face = 13 /\ color(card.suit) = "Red"     -> -2
    [] OTHER                                          -> card.face

score(p) == SumFunction([c \in cards[p] |-> game_value(c)])

-----------------------------------------------------------------------------
(* Sets of decisions, one bit each. *)

ALL == <<"Discard", "Replace", "LookAtOwn", "LookAtOther", "BlindSwap", "LookAndSwap">>

Decisions == Range(ALL)

to_bit(decision) == 2 ^ ((CHOOSE i \in DOMAIN ALL : ALL[i] = decision) - 1)

\* `bits & bit == bit` for a single bit.
contains(bits, decision) == (bits \div to_bit(decision)) % 2 = 1

\* `bits | bit`
and(bits, decision) ==
  IF contains(bits, decision) THEN bits ELSE bits + to_bit(decision)

\* The decisions of a set, in the order of ALL.
into_vec(bits) ==
  LET kept[i \in 0..Len(ALL)] ==
        IF i = 0 THEN <<>>
        ELSE IF contains(bits, ALL[i]) THEN Append(kept[i - 1], ALL[i]) ELSE kept[i - 1]
  IN kept[Len(ALL)]

BASE == and(and(0, "Discard"), "Replace")

\* Mutated form: the ten swaps instead of looking.
valid_set_ten_swaps(card) ==
  CASE card.suit = "Joker"     -> BASE
    [] card.face = 13          -> and(BASE, "LookAndSwap")
    [] card.face \in 10..12    -> and(BASE, "BlindSwap")
    [] card.face \in {9}       -> and(BASE, "LookAtOther")
    [] card.face \in {7, 8}    -> and(BASE, "LookAtOwn")
    [] OTHER                   -> BASE

valid_set(card) ==
  CASE card.suit = "Joker"     -> BASE
    [] card.face = 13          -> and(BASE, "LookAndSwap")
    [] card.face \in {11, 12}  -> and(BASE, "BlindSwap")
    [] card.face \in {9, 10}   -> and(BASE, "LookAtOther")
    [] card.face \in {7, 8}    -> and(BASE, "LookAtOwn")
    [] OTHER                   -> BASE

-----------------------------------------------------------------------------
(* A round. *)

Tied == [tied |-> TRUE, player |-> 0]
Nobody == [tied |-> FALSE, player |-> -1]
Winner(p) == [tied |-> FALSE, player |-> p]

TypeOK ==
  /\ deck \subseteq FULL_DECK
  /\ cards \in [Players -> SUBSET FULL_DECK]
  /\ \A p \in Players : Cardinality(cards[p]) \in {0, STARTING_DECK_LEN}
  /\ drawn \subseteq FULL_DECK /\ Cardinality(drawn) <= 1
  /\ winner \in {Tied, Nobody} \union {Winner(p) : p \in Players}

Init ==
  /\ deck \in Decks
  /\ cards = [p \in Players |-> {}]
  /\ drawn = {}
  /\ winner = Nobody

\* The sets of n cards that may come off a shuffled deck.
Tops(n) == {Range(top) : top \in {f \in [1..n -> deck] : IsInjective(f)}}

\* Mutated form: an inclusive range drains one card more.
take_one_more(p) ==
  \E top \in Tops(STARTING_DECK_LEN + 1) :
    /\ deck' = deck \ top
    /\ cards' = [cards EXCEPT ![p] = @ \union top]

\* Mutated form: the cards are copied to the player.
take_copies(p) ==
  \E top \in Tops(STARTING_DECK_LEN) :
    /\ deck' = deck
    /\ cards' = [cards EXCEPT ![p] = @ \union top]

take_starting_cards(p) ==
  \E top \in Tops(STARTING_DECK_LEN) :
    /\ deck' = deck \ top
    /\ cards' = [cards EXCEPT ![p] = @ \union top]

\* The players are dealt to in their order.
Deal(p) ==
  /\ cards[p] = {} /\ \A q \in Players : q < p => cards[q] # {}
  /\ take_starting_cards(p)
  /\ UNCHANGED <<drawn, winner>>

Dealt == \A p \in Players : cards[p] # {}

\* Bound: one card is drawn, as no decision is played yet that could change
\* the cards of a player.
Draw ==
  /\ Dealt /\ winner = Nobody /\ drawn = {}
  /\ \E c \in deck : deck' = deck \ {c} /\ drawn' = {c}
  /\ UNCHANGED <<cards, winner>>

\* Mutated form: the first of several best players wins.
FirstOf(best) == Winner(Min(best))

Sole(best) == IF Cardinality(best) = 1 THEN Winner(Min(best)) ELSE Tied

find_winner ==
  /\ Dealt /\ winner = Nobody
  /\ LET scores == {score(p) : p \in Players}
         group  == [s \in scores |-> {p \in Players : score(p) = s}]
     IN winner' = Sole(group[Min(scores)])
  /\ UNCHANGED <<deck, cards, drawn>>

Next == Draw \/ find_winner \/ \E p \in Players : Deal(p)

Spec == Init /\ [][Next]_vars

-----------------------------------------------------------------------------
(* Properties. *)

\* Every card is in one place: in the deck, with one player, or drawn.
CardsInOnePlace ==
  \A p \in Players :
    /\ \A q \in Players \ {p} : cards[p] \intersect cards[q] = {}
    /\ cards[p] \intersect (deck \union drawn) = {}

\* The announced winner beats everybody, and a tie is announced only when
\* nobody does.
WinnerBeatsAll ==
  LET beats(p) == \A q \in Players \ {p} : score(p) < score(q)
  IN winner # Nobody =>
       /\ \A p \in Players : winner = Winner(p) <=> beats(p)
       /\ winner = Tied <=> \A p \in Players : ~beats(p)

\* What may be done with the drawn card follows its number, whatever it is
\* worth: the bits of its set list the discard, which the client chooses, the
\* replacement, and one action for the cards from seven up.
ActionByNumber ==
  \A c \in drawn :
    LET named(d, from, to) ==
          contains(valid_set(c), d) <=> c.suit # "Joker" /\ c.face \in from..to
        listed == into_vec(valid_set(c))
    IN /\ named("LookAtOwn", 7, 8) /\ named("LookAtOther", 9, 10)
       /\ named("BlindSwap", 11, 12) /\ named("LookAndSwap", 13, 13)
       /\ listed[1] = "Discard" /\ listed[2] = "Replace" /\ Len(listed) <= 3

=============================================================================
