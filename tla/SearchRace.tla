---------------------------- MODULE SearchRace -----------------------------
(***************************************************************************)
(* The parallel searches of the mahjong analysis (component/mjana/mjana.go *)
(* 388-447, 623-678, 867-971): one goroutine per branch tries candidates   *)
(* and sends its answer to the caller, who returns at the first positive   *)
(* answer or after all of them.  All of them, the caller included, write   *)
(* the named result isHu, and no lock protects it: a goroutine sends what  *)
(* is in isHu, which may be the answer of another one.                     *)
(***************************************************************************)
EXTENDS Integers, Sequences, FiniteSets

CONSTANTS Branches,  \* the goroutines of one search
          MaxTries   \* bound on the candidates of a branch

Capacity == 10

\* A search has a goroutine for each value of a type, at most nine.
ASSUME SearchAssumption ==
  /\ Branches # {} /\ IsFiniteSet(Branches) /\ Cardinality(Branches) <= Capacity
  /\ MaxTries \in Nat \ {0}

VARIABLES
  wins,     \* wins[b]: for each candidate of the branch b, whether it wins
  isHu,     \* the shared result
  at,       \* at[b]: where the goroutine of b is
  tried,    \* tried[b]: number of its current candidate
  resChan,  \* answers sent and not yet received
  left,     \* branches: answers that the caller still waits for
  caller,   \* where the caller is
  result    \* what the search returned

searchVars == <<wins, isHu, at, tried, resChan, left, caller, result>>

Candidates == UNION {[1..n -> BOOLEAN] : n \in 1..MaxTries}

SearchInit ==
  /\ wins \in UNION {[S -> Candidates] : S \in (SUBSET Branches) \ {{}}}
  /\ isHu = FALSE
  /\ at = [b \in DOMAIN wins |-> "try"]
  /\ tried = [b \in DOMAIN wins |-> 1]
  /\ resChan = <<>>
  /\ left = Cardinality(DOMAIN wins)
  /\ caller = "wait"
  /\ result = {}

\* A branch analyses its next candidate: isHu = ...
Try(b) ==
  /\ at[b] = "try"
  /\ isHu' = wins[b][tried[b]]
  /\ at' = [at EXCEPT ![b] = "test"]
  /\ UNCHANGED <<wins, tried, resChan, left, caller, result>>

\* It stops if isHu holds or no candidate is left.
Test(b) ==
  /\ at[b] = "test"
  /\ LET stops == isHu \/ tried[b] = Len(wins[b])
     IN  /\ at' = [at EXCEPT ![b] = IF stops THEN "send" ELSE "try"]
         /\ tried' = [tried EXCEPT ![b] = IF stops THEN @ ELSE @ + 1]
  /\ UNCHANGED <<wins, isHu, resChan, left, caller, result>>

\* It sends what is then in isHu.
SendResult(b) ==
  /\ at[b] = "send"
  /\ Len(resChan) < Capacity
  /\ resChan' = Append(resChan, isHu)
  /\ at' = [at EXCEPT ![b] = "done"]
  /\ UNCHANGED <<wins, isHu, tried, left, caller, result>>

ReceiveResult ==
  /\ caller = "wait"
  /\ resChan # <<>>
  /\ isHu' = Head(resChan)
  /\ resChan' = Tail(resChan)
  /\ caller' = "check"
  /\ UNCHANGED <<wins, at, tried, left, result>>

\* faulty: waits for one answer too many.
CheckResultLate ==
  /\ caller = "check"
  /\ left' = IF isHu THEN left ELSE left - 1
  /\ caller' = IF isHu \/ left = 0 THEN "return" ELSE "wait"
  /\ UNCHANGED <<wins, isHu, at, tried, resChan, result>>

CheckResult ==
  /\ caller = "check"
  /\ left' = IF isHu THEN left ELSE left - 1
  /\ caller' = IF isHu \/ left = 1 THEN "return" ELSE "wait"
  /\ UNCHANGED <<wins, isHu, at, tried, resChan, result>>

\* The result is read when the function returns.
Return ==
  /\ caller = "return"
  /\ result' = {isHu}
  /\ caller' = "done"
  /\ UNCHANGED <<wins, isHu, at, tried, resChan, left>>

Branch(b) == b \in DOMAIN wins /\ (Try(b) \/ Test(b) \/ SendResult(b))
Caller == ReceiveResult \/ CheckResult \/ Return
SearchNext == Caller \/ \E b \in Branches : Branch(b)

SearchSpec == SearchInit /\ [][SearchNext]_searchVars

-----------------------------------------------------------------------------

Wins(b) == \E i \in DOMAIN wins[b] : wins[b][i]
WinExists == \E b \in DOMAIN wins : Wins(b)

\* A hand that is reported to win does win, and one that wins is missed only
\* when several branches share isHu.
AnswerIsJustified ==
  /\ TRUE \in result => WinExists
  /\ FALSE \in result /\ WinExists => Cardinality(DOMAIN wins) > 1

\* A goroutine finds room for its answer, also after the caller has returned, and
\* the caller waits only for an answer that is still to come.
NobodyWaitsInVain ==
  /\ \A b \in DOMAIN wins : at[b] = "send" => Len(resChan) < Capacity
  /\ caller = "wait" => resChan # <<>> \/ \E b \in DOMAIN wins : at[b] # "done"

\* However the goroutines write the shared isHu, the answer is justified and nobody
\* waits for ever (mjana.go 388-447, 867-971).
SearchSafe == AnswerIsJustified /\ NobodyWaitsInVain

SearchOver == caller = "done" /\ \A b \in DOMAIN wins : at[b] = "done"
=============================================================================
