------------------------------ MODULE UuidGen ------------------------------
(***************************************************************************)
(* The generator of identifiers (component/uuid/uuid.go): a counter that   *)
(* skips 0.  GenID tests the counter and then adds to it; the addition is  *)
(* atomic, the two together are not.                                       *)
(***************************************************************************)
EXTENDS Integers, Sequences

CONSTANTS Callers, \* goroutines that call GenID
          Modulus, \* 2^32 in the code
          MaxIDs   \* bound on the calls

ASSUME UuidAssumption == Modulus \in Nat /\ Modulus > 2 /\ MaxIDs \in Nat

VARIABLES id,        \* the counter
          step,      \* step[c]: what c is about to add, 0 outside GenID
          given,     \* the identifiers that were returned, in order
          overlapped \* a call began while another one was in progress

uuidVars == <<id, step, given, overlapped>>

UuidInit ==
  /\ id \in 0..(Modulus - 1)
  /\ step = [c \in Callers |-> 0]
  /\ given = <<>>
  /\ overlapped = FALSE

InProgress == {c \in Callers : step[c] # 0}

\* faulty: never skips 0.
GenIDTestsNothing(c) ==
  /\ step[c] = 0
  /\ Len(given) < MaxIDs
  /\ step' = [step EXCEPT ![c] = 1]
  /\ overlapped' = (overlapped \/ InProgress # {})
  /\ UNCHANGED <<id, given>>

\* uuid.go:18: reads the counter.
GenIDTests(c) ==
  /\ step[c] = 0
  /\ Len(given) < MaxIDs
  /\ step' = [step EXCEPT ![c] = IF id = Modulus - 1 THEN 2 ELSE 1]
  /\ overlapped' = (overlapped \/ InProgress # {})
  /\ UNCHANGED <<id, given>>

\* uuid.go:19, 21: atomic.AddUint32 returns the new value.
GenIDAdds(c) ==
  /\ step[c] # 0
  /\ id' = (id + step[c]) % Modulus
  /\ given' = Append(given, id')
  /\ step' = [step EXCEPT ![c] = 0]
  /\ UNCHANGED overlapped

UuidNext == \E c \in Callers : GenIDTests(c) \/ GenIDAdds(c)

UuidSpec == UuidInit /\ [][UuidNext]_uuidVars

\* The reserved value is given only to calls that overlap.
ZeroNeedsOverlap ==
  (\E i \in DOMAIN given : given[i] = 0) => overlapped

\* An identifier is not given twice before the counter has come round, however
\* calls overlap.
NoIDTwice ==
  \A i, j \in DOMAIN given : i < j /\ 2 * (j - i) < Modulus => given[i] # given[j]

\* GenID gives the reserved 0 only to calls that overlap, and, however calls
\* overlap, no identifier twice before the counter has come round.
GeneratedIDs == ZeroNeedsOverlap /\ NoIDTwice
=============================================================================
