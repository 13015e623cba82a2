\* Every hand of up to eight cards, every pair of one word numbers, two callers
\* of GenID, searches of one or two branches.
SPECIFICATION FairSpec
CONSTANTS
  b1 = b1
  b2 = b2
  c1 = c1
  c2 = c2
  Bad = Bad
  Top <- SmallDeck
  Wild <- WildCard
  HandSize = 8
  Half = 4
  BitOr <- BitwiseOr
  Arguments <- OneWord
  Callers = {c1, c2}
  Modulus = 8
  MaxIDs = 5
  Branches = {b1, b2}
  MaxTries = 2
INVARIANTS
  SearchesRight
  ConversionsAgree
  ArithmeticStops
  GeneratedIDs
PROPERTIES
  SearchAnswers
\* Hands are complete, identifiers given, searches over.
CHECK_DEADLOCK FALSE
