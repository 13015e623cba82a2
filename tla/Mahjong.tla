------------------------------ MODULE Mahjong ------------------------------
(***************************************************************************)
(* The analysis of a mahjong hand (component/mjana/mjana.go): is a hand a  *)
(* pair and groups of three, or seven pairs, and which cards may the wild  *)
(* cards stand for?  The code answers with several searches: one that      *)
(* splits the sorted hand in every way (Split), one that counts the cards  *)
(* of each suit and is greedy (HuAnalyser001), and, with wild cards, one   *)
(* that first finds how many each suit lacks and then tries the cards of   *)
(* those suits.  A hand is a sorted sequence of cards <<type, value>>.     *)
(***************************************************************************)
EXTENDS Integers, Sequences, FiniteSets, SequencesExt

CONSTANT Top  \* number of values of each type: <<9, 9, 9, 7>> in the code

ASSUME TopAssumption == Top \in [1..4 -> Nat \ {0}]

Types == 1..4                          \* W, T, S and Z
Honor == 4                             \* CardType_Z: its cards form no run
CardsOf(t) == {t} \X (1..Top[t])
Deck == UNION {CardsOf(t) : t \in Types}

Less(a, b) == a[1] < b[1] \/ (a[1] = b[1] /\ a[2] < b[2])
NotAfter(a, b) == ~Less(b, a)
SortCards(s) == SortSeq(s, Less)

-----------------------------------------------------------------------------
(* Splitting in every way.                                                 *)

\* The first card, the next value and the one after it, where they first
\* occur; <<>> if the first card starts no run.
FindSeq(ts) ==
  LET at(n) == {i \in DOMAIN ts : ts[i] = <<ts[1][1], ts[1][2] + n>>}
  IN  IF Len(ts) < 3 \/ ts[1][1] = Honor \/ at(1) = {} \/ at(2) = {}
      THEN <<>>
      ELSE <<1, Min(at(1)), Min(at(2))>>

Without(ts, idx) == RemoveAt(RemoveAt(RemoveAt(ts, idx[3]), idx[2]), idx[1])

Starts(ts, n) == Len(ts) >= n /\ \A i \in 1..n : ts[i] = ts[1]

\* The ways to take a group with the first card.
RunBranch(ts) ==
  {[seqs |-> 1, threes |-> 0, twos |-> 0, left |-> Without(ts, idx)] :
     idx \in {FindSeq(ts)} \ {<<>>}}
ThreeBranch(ts) ==
  IF Starts(ts, 3) THEN {[seqs |-> 0, threes |-> 1, twos |-> 0, left |-> SubSeq(ts, 4, Len(ts))]}
                   ELSE {}
TwoBranch(ts) ==
  IF Starts(ts, 2) THEN {[seqs |-> 0, threes |-> 0, twos |-> 1, left |-> SubSeq(ts, 3, Len(ts))]}
                   ELSE {}

Merge(x, xs) ==
  {[v EXCEPT !.seqs = @ + x.seqs, !.threes = @ + x.threes, !.twos = @ + x.twos] : v \in xs}

RECURSIVE Split(_)
Split(ts) ==
  LET branches == RunBranch(ts) \union ThreeBranch(ts) \union TwoBranch(ts)
  IN  IF branches = {} THEN {[seqs |-> 0, threes |-> 0, twos |-> 0, left |-> ts]}
                       ELSE UNION {Merge(b, Split(b.left)) : b \in branches}

Is3NP2(r, n) ==
  r.left = <<>> /\ r.twos = 1 /\ r.seqs + r.threes = ((n + 1) \div 3) - 1

SplitOpt(ts) ==
  /\ RunBranch(ts) \union ThreeBranch(ts) \union TwoBranch(ts) # {}
  /\ \E r \in Split(ts) : Is3NP2(r, Len(ts))

AnalyzeNormalCards(ts) ==
  \E r \in Split(ts) :
    \/ Is3NP2(r, Len(ts))
    \/ r.left = <<>> /\ Len(ts) = 14 /\ r.seqs = 0 /\ r.twos = 7

-----------------------------------------------------------------------------
(* Counting.                                                               *)

\* Stops at the first card that is none.
HuInit(ts) ==
  LET bad == {i \in DOMAIN ts : ts[i] \notin Deck}
      read == IF bad = {} THEN ts ELSE SubSeq(ts, 1, Min(bad) - 1)
  IN  [t \in Types |-> [v \in 1..Top[t] |-> Cardinality({i \in DOMAIN read : read[i] = <<t, v>>})]]

CountOf(row) == FoldFunction(+, 0, row)
Take(row, values, n) == [v \in DOMAIN row |-> IF v \in values THEN row[v] - n ELSE row[v]]

\* Greedy: three of the lowest value, or else a run that starts with it.
RECURSIVE Split3NP2(_, _)
Split3NP2(t, row) ==
  \/ CountOf(row) = 0
  \/ LET i == Min({v \in DOMAIN row : row[v] # 0})
     IN  IF row[i] >= 3
         THEN Split3NP2(t, Take(row, {i}, 3))
         ELSE /\ t # Honor
              /\ i + 2 <= Top[t] /\ row[i + 1] > 0 /\ row[i + 2] > 0
              /\ Split3NP2(t, Take(row, i..(i + 2), 1))

FirstLevel(counts) ==
  LET rest == [t \in Types |-> CountOf(counts[t]) % 3]
      pairs == {t \in Types : rest[t] = 2}
      jiang == IF pairs = {} THEN 1 ELSE CHOOSE t \in pairs : TRUE
  IN  /\ \A t \in Types : rest[t] # 1
      /\ Cardinality(pairs) <= 1
      /\ \A t \in Types \ {jiang} : Split3NP2(t, counts[t])
      /\ \E z \in 1..Top[jiang] :
           counts[jiang][z] >= 2 /\ Split3NP2(jiang, Take(counts[jiang], {z}, 2))

Recursive3NP2(ts) == FirstLevel(HuInit(ts))

Is7Dui(ts) == Len(ts) = 14 /\ \A i \in 1..7 : ts[2 * i - 1] = ts[2 * i]

Split001(ts) == Is7Dui(ts) \/ Recursive3NP2(ts)
Split002(ts) == Recursive3NP2(ts)
AnalyzeNormalCardsOpt(ts) == Split001(ts)

-----------------------------------------------------------------------------
(* Wild cards: what each suit lacks.                                       *)

ExcludCard(ts, wild) == SelectSeq(ts, LAMBDA c : c # wild)
NumToBe3N(n) == (3 - (n % 3)) % 3
\* faulty: three cards are missing where none is.
NumToBe3NPlus2OffByOne(n) == 3 - (n % 3)
NumToBe3NPlus2(n) == 2 - (n % 3)

\* For each type as the one with the pair: the cards that each type lacks, or
\* <<>> if they are more than the wild cards.
PreAna3NP2WildCards(noWild, wildNum) ==
  LET size(t) == Cardinality({i \in DOMAIN noWild : noWild[i][1] = t})
      lacks(i) == [t \in Types |-> IF t = i THEN NumToBe3NPlus2(size(t)) ELSE NumToBe3N(size(t))]
  IN  [i \in Types |-> IF wildNum # 0 /\ FoldFunction(+, 0, lacks(i)) <= wildNum
                       THEN lacks(i) ELSE <<>>]

AllZero(menAna) == {k \in Types : menAna[k] # <<>> /\ \A t \in Types : menAna[k][t] = 0}
Normal(menAna) == {k \in Types : menAna[k] # <<>>} \ AllZero(menAna)

\* The cards that fill what is lacking, if they are one, two or three.
Fillings(lacks) ==
  LET types == FlattenSeq([t \in Types |-> [j \in 1..lacks[t] |-> t]])
      values == [1..Len(types) -> 1..Max({Top[t] : t \in Types})]
  IN  IF Len(types) \notin 1..3 THEN {}
      ELSE {[j \in DOMAIN types |-> <<types[j], v[j]>>] :
              v \in {w \in values : \A j \in DOMAIN types : w[j] <= Top[types[j]]}}
Triples(cards) == [1..3 -> cards]

-----------------------------------------------------------------------------
(* Wild cards: trying cards.                                               *)

\* Puts each card before the first that is not less.
InsertCard(s, c) ==
  LET later == {i \in DOMAIN s : ~Less(s[i], c)}
  IN  InsertAt(s, IF later = {} THEN Len(s) + 1 ELSE Min(later), c)
SortInsertCards(noWild, cards) == FoldLeft(InsertCard, noWild, cards)

AnaWild3NP2CardsOpt2(noWild, cards) == Split002(SortCards(noWild \o cards))
AnaWild3NP2Cards(noWild, cards) ==
  LET full == SortInsertCards(noWild, cards)
  IN  {r \in Split(full) : Is3NP2(r, Len(full))}
AnaWild3NP2CardsOpt(noWild, cards) == AnaWild3NP2Cards(noWild, cards) # {}

\* Whether one of the attempts wins, and the cards of those that do.
Exhaustion4Wild3NP2CardsOpt(noWild, lacks) ==
  \E f \in Fillings(lacks) : AnaWild3NP2CardsOpt2(noWild, f)
Winners(noWild, attempts) ==
  UNION {ToSet(f) : f \in {g \in attempts : AnaWild3NP2Cards(noWild, g) # {}}}
Exhaustion4Wild3NP2Cards(noWild, lacks) == Winners(noWild, Fillings(lacks))

\* Nothing is lacking and there are three wild cards: three of one type.
ExhaustionAllZeroWild3NP2CardsOpt(noWild) ==
  \E t \in Types : \E f \in Triples(CardsOf(t)) : AnaWild3NP2CardsOpt2(noWild, f)
ExhaustionAllZeroWild3NP2Cards(noWild, alreadyMatch) ==
  Winners(noWild, UNION {Triples(CardsOf(t)) : t \in {u \in Types : alreadyMatch[u] < Top[u]}})
ExhaustionAllWildCards(noWild) == Winners(noWild, Triples(Deck))

Ana3NP2WildMenCardsOpt(noWild, wildNum, menAna) ==
  /\ wildNum # 0
  /\ \/ \E k \in Normal(menAna) : Exhaustion4Wild3NP2CardsOpt(noWild, menAna[k])
     \/ AllZero(menAna) # {} /\ ExhaustionAllZeroWild3NP2CardsOpt(noWild)

\* The cards that the wild cards may stand for.
Ana3NP2WildMenCards(noWild, wildNum, menAna) ==
  LET normal == UNION {Exhaustion4Wild3NP2Cards(noWild, menAna[k]) : k \in Normal(menAna)}
      alreadyMatch == [t \in Types |-> Cardinality(normal \cap CardsOf(t))]
  IN  IF wildNum = 0 THEN {}
      ELSE normal \union (IF AllZero(menAna) = {} THEN {}
                          ELSE ExhaustionAllZeroWild3NP2Cards(noWild, alreadyMatch))

AnaWildMenCards(ts, wild, menAna) ==
  LET noWild == ExcludCard(ts, wild)
  IN  IF noWild = ts THEN {}
      ELSE IF AllZero(menAna) # {} THEN ExhaustionAllWildCards(noWild)
      ELSE UNION {Exhaustion4Wild3NP2Cards(noWild, menAna[k]) : k \in Normal(menAna)}

Analyze3NP2WildCards(noWild, wildNum) ==
  Ana3NP2WildMenCardsOpt(noWild, wildNum, PreAna3NP2WildCards(noWild, wildNum))

\* The parallel search tries the same cards in goroutines that share isHu, and may
\* answer whatever one of them has written there (SearchRace says how): the set of
\* these answers.  A goroutine of Ana3NP2WildMenCardsOptParallel writes once, one of
\* ExhaustionAllZeroWild3NP2CardsOptParallel once for each triple it tries.
ExhaustionAllZeroWild3NP2CardsOptParallel(noWild) ==
  {AnaWild3NP2CardsOpt2(noWild, f) : f \in UNION {Triples(CardsOf(t)) : t \in Types}}
Ana3NP2WildMenCardsOptParallel(noWild, menAna) ==
  LET normal == {Exhaustion4Wild3NP2CardsOpt(noWild, menAna[k]) : k \in Normal(menAna)}
  IN  IF AllZero(menAna) # {}
      THEN normal \union ExhaustionAllZeroWild3NP2CardsOptParallel(noWild)
      ELSE IF normal = {} THEN {FALSE} ELSE normal
Goroutines(menAna) ==
  Cardinality(Normal(menAna)) + Cardinality(AllZero(menAna)) * Cardinality(Types)

Analyze3NP2WildCardsOpt(noWild, wildNum) ==
  Ana3NP2WildMenCardsOptParallel(noWild, PreAna3NP2WildCards(noWild, wildNum))

\* The answers that AnalyzeWildCards may give.  Four wild cards win by rule.
AnalyzeWildCards(ts, wild) ==
  LET noWild == ExcludCard(ts, wild)
      wildNum == Len(ts) - Len(noWild)
  IN  CASE wildNum = 4 -> {TRUE}
        [] wildNum = 0 -> {AnalyzeNormalCardsOpt(ts)}
        [] OTHER -> {isHu3nP2 \/ Is7Dui(ts) :
                       isHu3nP2 \in Analyze3NP2WildCardsOpt(noWild, wildNum)}

-----------------------------------------------------------------------------
(* What a winning hand is: a pair, and the rest in groups of three.        *)

Amount(ts) == [c \in Deck |-> Cardinality({i \in DOMAIN ts : ts[i] = c})]
Groups ==
  {[c \in Deck |-> IF c = d THEN 3 ELSE 0] : d \in Deck} \union
  {[c \in Deck |-> IF c[1] = d[1] /\ c[2] - d[2] \in 0..2 THEN 1 ELSE 0] :
     d \in {e \in Deck : e[1] # Honor /\ e[2] + 2 <= Top[e[1]]}}

RECURSIVE IsGroups(_)
IsGroups(amount) ==
  \/ \A c \in Deck : amount[c] = 0
  \/ \E g \in Groups : /\ \A c \in Deck : g[c] <= amount[c]
                       /\ IsGroups([c \in Deck |-> amount[c] - g[c]])
IsWin(ts) ==
  LET amount == Amount(ts)
  IN  \E p \in Deck : amount[p] >= 2 /\ IsGroups([amount EXCEPT ![p] = @ - 2])
SevenPairs(ts) == Len(ts) = 14 /\ \A c \in Deck : Amount(ts)[c] % 2 = 0

\* The wild cards may stand for any cards.
WildWins(noWild, wildNum) ==
  {f \in [1..wildNum -> Deck] :
     /\ \A i \in 1..(wildNum - 1) : NotAfter(f[i], f[i + 1])
     /\ IsWin(noWild \o f)}
=============================================================================
