----------------------------- MODULE Algorithms ----------------------------
(***************************************************************************)
(* Inputs for the algorithms of Mahjong and Numbers, together with the two *)
(* small concurrent ones, UuidGen and SearchRace.  A behaviour exercises   *)
(* one of them, its topic; the state of the others does not change.        *)
(***************************************************************************)
EXTENDS Mahjong, Numbers, UuidGen, SearchRace

CONSTANTS HandSize, \* bound on the cards that are drawn one by one
          Wild      \* the wild card

ASSUME AlgorithmsAssumption == HandSize \in Nat /\ Wild \in Deck

VARIABLES topic, \* what the behaviour exercises
          hand   \* a sorted hand of cards, at most four of each

inputs == <<topic, hand, numbersVars>>
vars == <<inputs, uuidVars, searchVars>>

Copies(h, c) == Cardinality({i \in DOMAIN h : h[i] = c})

\* The hands of seven pairs of the first type and the last.
PairHands ==
  LET kinds == [v \in 1..Top[1] |-> <<1, v>>] \o [v \in 1..Top[Honor] |-> <<Honor, v>>]
      hands == {n \in [DOMAIN kinds -> 0..2] : FoldFunction(+, 0, n) = 7}
  IN  {FlattenSeq([i \in DOMAIN kinds |-> [j \in 1..(2 * n[i]) |-> kinds[i]]]) : n \in hands}

Topics == {"cards", "numbers", "ids", "search"}

Init ==
  /\ topic \in Topics
  /\ hand \in IF topic = "cards" THEN PairHands \union {<<>>} ELSE {<<>>}
  /\ NumbersInit /\ (topic = "numbers" \/ (x = 0 /\ y = 0))
  /\ UuidInit /\ (topic = "ids" \/ id = 0)
  /\ SearchInit /\ (topic = "search" \/ wins = [b \in Branches |-> <<TRUE>>])

Draw ==
  /\ topic = "cards"
  /\ Len(hand) < HandSize
  /\ \E c \in Deck :
       /\ hand # <<>> => NotAfter(Last(hand), c)
       /\ Copies(hand, c) < 4
       /\ hand' = Append(hand, c)
  /\ UNCHANGED <<topic, numbersVars, uuidVars, searchVars>>
Generate == topic = "ids" /\ UuidNext /\ UNCHANGED <<inputs, searchVars>>
Search == topic = "search" /\ SearchNext /\ UNCHANGED <<inputs, uuidVars>>

Next == Draw \/ Generate \/ Search
Spec == Init /\ [][Next]_vars
FairSpec == Spec /\ WF_vars(Search /\ Caller) /\ \A b \in Branches : WF_vars(Search /\ Branch(b))

-----------------------------------------------------------------------------
NoWild == ExcludCard(hand, Wild)
WildNum == Len(hand) - Len(NoWild)
Playable == Len(hand) % 3 = 2

\* The search that splits in every way and the greedy one that counts agree
\* with each other and with what a winning hand is, and so does trying the first
\* or the last card as if it were a wild one.
SearchesAgree ==
  LET wins3n2 == Playable /\ IsWin(hand)
  IN  /\ AnalyzeNormalCards(hand) = (wins3n2 \/ SevenPairs(hand))
      /\ AnalyzeNormalCardsOpt(hand) = (wins3n2 \/ SevenPairs(hand))
      /\ SplitOpt(hand) = wins3n2
      /\ Playable => \A i \in {1, Len(hand)} :
           AnaWild3NP2CardsOpt(RemoveAt(hand, i), <<hand[i]>>) = wins3n2

\* With wild cards: looking only at the types that lack cards misses no winning
\* hand and reports none that does not win, when one goroutine looks.  The parallel
\* search, which AnalyzeWildCards calls, reports none that does not win either and
\* can find every winning one, but it may miss it where several goroutines look -
\* never one of seven pairs, which are not searched.
WildSearchRight ==
  LET wins3n2 == WildWins(NoWild, WildNum) # {}
      answers == AnalyzeWildCards(hand, Wild)
  IN  /\ Analyze3NP2WildCards(NoWild, WildNum) = wins3n2
      /\ TRUE \in answers <=> wins3n2 \/ SevenPairs(hand)
      /\ FALSE \in answers /\ wins3n2 =>
           Goroutines(PreAna3NP2WildCards(NoWild, WildNum)) > 1
      /\ FALSE \in answers => ~SevenPairs(hand)

\* Both searches for the cards that the wild cards may stand for find them all:
\* skipping the types that are already complete loses none.
WildCardsRight ==
  LET menAna == PreAna3NP2WildCards(NoWild, WildNum)
      useful == UNION {ToSet(f) : f \in WildWins(NoWild, WildNum)}
  IN  /\ Ana3NP2WildMenCards(NoWild, WildNum, menAna) = useful
      /\ AnaWildMenCards(hand, Wild, menAna) = useful

\* Every shortcut of the analysis (mjana.go) answers what the definition of a
\* winning hand says, with and without wild cards, but for the wins that a parallel
\* search may miss.
SearchesRight ==
  /\ SearchesAgree
  /\ Playable /\ WildNum \in 1..3 => WildSearchRight /\ WildCardsRight

\* A parallel search (mjana.go:388-447, 867-971) returns, none of its goroutines is
\* left behind, nobody waits in vain, and although they share isHu without a lock
\* the answer is never a win that is none.
SearchAnswers == topic = "search" => []SearchSafe /\ <>SearchOver
=============================================================================
