------------------------------ MODULE Numbers ------------------------------
(***************************************************************************)
(* The conversions and the checked arithmetic of package utils:            *)
(* identifiers of servers and sessions (server_id.go, session_id.go),      *)
(* numbers in comma separated lists (comma.go) and arithmetic on encoded   *)
(* numbers (buffer.go).  A width is given by how many numbers it can hold: *)
(* Half with 16 bits, Word with 32, Word * Word with 64.  A text is the    *)
(* sequence of its fields, each an integer or Bad, which is no number.     *)
(***************************************************************************)
EXTENDS Integers, SequencesExt

CONSTANTS Half,        \* 2^16 in the code
          BitOr(_, _), \* the operator | of the language
          Bad,
          Arguments    \* the numbers that the functions are called with

Word == Half * Half

ASSUME NumbersAssumption ==
  /\ Half \in Nat \ {0} /\ Half % 2 = 0
  /\ Arguments \subseteq Int
  /\ Bad \notin Int \union Seq(Int) \union [width : Int, value : Int]
ASSUME BitOrAssumption ==
  \A width \in {Half, Word} : \A a, b \in 0..(width - 1) :
    BitOr(a, b) \in 0..(width - 1) /\ BitOr(a, 0) = a

VARIABLES x, y \* two numbers

numbersVars == <<x, y>>

\* The functions keep no state: a behaviour is one choice of their arguments.
NumbersInit == x \in Arguments /\ y \in Arguments
NumbersSpec == NumbersInit /\ [][UNCHANGED numbersVars]_numbersVars

-----------------------------------------------------------------------------
(* Identifiers: two fields, each of Half (server) or Word (session).       *)

Uint32(i) == i % Word

\* s is "f1.f2"; strconv.Atoi also reads negative numbers.
String2Fields(s) ==
  IF Len(s) # 2 \/ Bad \in ToSet(s) THEN Bad ELSE <<Uint32(s[1]), Uint32(s[2])>>
\* The second field is not cut to its width: what exceeds it goes into the first.
String2Number(s, width) ==
  LET f == String2Fields(s)
  IN  IF f = Bad THEN Bad
      ELSE BitOr(f[1] % width, f[2] \div width) * width + (f[2] % width)
Number2Fields(d, width) == <<(d \div width) % width, d % width>>
\* faulty: the first field is not cut to its width.
Fields2NumberUncut(d, width) ==
  IF Len(d) # 2 THEN 0 ELSE d[1] * width + (d[2] % width)
Fields2Number(d, width) ==
  IF Len(d) # 2 THEN 0 ELSE (d[1] % width) * width + (d[2] % width)

ConvertServerIDString2Number(s) == String2Number(s, Half)
ConvertServerIDNumber2String(d) == Number2Fields(d, Half)
ConvertServerIDString2Fields(s) == String2Fields(s)
ConvertServerIDNumber2Fields(d) == Number2Fields(d, Half)
ConvertFields2ServerIDNum(d) == Fields2Number(d, Half)
ConvertSessionIDString2Number(s) == String2Number(s, Word)
ConvertSessionIDNumber2String(d) == Number2Fields(d, Word)
ConvertSessionIDString2Fields(s) == String2Fields(s)
ConvertSessionIDNumber2Fields(d) == Number2Fields(d, Word)
ConvertFields2SessionIDNum(d) == Fields2Number(d, Word)

-----------------------------------------------------------------------------
(* Lists: numbers are read with two words and then cut to one.             *)

ParseUint(f) == IF f # Bad /\ f \in 0..(Word * Word - 1) THEN f ELSE Bad
Cut(n) == IF n = Bad THEN Bad ELSE Uint32(n)

GetFirstUint64(list) == IF Len(list) < 2 THEN Bad ELSE ParseUint(Head(list))
GetFirstUint32(list) == Cut(GetFirstUint64(list))
GetLastUint64(list) == IF Len(list) < 2 THEN Bad ELSE ParseUint(Last(list))
GetLastUint32(list) == Cut(GetLastUint64(list))
GetUint32(list, index) ==
  IF index \in 0..(Len(list) - 1) THEN Cut(ParseUint(list[index + 1])) ELSE Bad

-----------------------------------------------------------------------------
(* Arithmetic: a buffer is a record of its width and its bits, or Bad for  *)
(* nil.  Signed sums wrap around; an error is Bad.                         *)

IntTypes == [signed : BOOLEAN, width : {Word, Word * Word}]
MaxOf(t) == IF t.signed THEN (t.width \div 2) - 1 ELSE t.width - 1
MinOf(t) == IF t.signed THEN -(t.width \div 2) ELSE 0
Wrap(t, n) == ((n - MinOf(t)) % t.width) + MinOf(t)

\* faulty: adding 0 is taken for an overflow.
IntAddStrict(t, d, s) == IF Wrap(t, d + s) <= d THEN MaxOf(t) ELSE Wrap(t, d + s)
IntAdd(t, d, s) == IF Wrap(t, d + s) < d THEN MaxOf(t) ELSE Wrap(t, d + s)
IntSub(t, d, s) == IF Wrap(t, d - s) > d THEN MinOf(t) ELSE Wrap(t, d - s)
IntCompare(t, d, s) == ~(Wrap(t, d - s) > d)

\* Op on two buffers of the type's width.
BuffOp(Op(_, _, _), d, s, t) ==
  IF d = Bad \/ s = Bad \/ t \notin IntTypes THEN Bad
  ELSE IF d.width # t.width \/ s.width # t.width THEN Bad
  ELSE Op(t, Wrap(t, d.value), Wrap(t, s.value))
BufferAdd(d, s, t) == BuffOp(IntAdd, d, s, t)
BufferSub(d, s, t) == BuffOp(IntSub, d, s, t)
BufferCompare(d, s, t) == BuffOp(IntCompare, d, s, t)

-----------------------------------------------------------------------------
(* Properties.                                                             *)

\* The conversions of identifiers are inverse to each other as long as fields fit;
\* a first field that does not fit loses its high bits, and only a second field
\* that does not fit makes the two ways to a number disagree.
RoundTrips(width, ToNumber(_), ToText(_), ToFields(_), Fields(_), Number(_)) ==
  LET d == ToNumber(<<x, y>>)
      f == ToFields(<<x, y>>)
      fits(n) == n \in 0..(width - 1)
  IN  /\ ToNumber(ToText(d)) = d
      /\ fits(x) /\ fits(y) => Fields(d) = f /\ f = <<x, y>>
      /\ fits(f[2]) => d = Number(f)
      /\ Fields(Number(f)) = <<f[1] % width, f[2] % width>>
ServerIDsConvertBack ==
  RoundTrips(Half, ConvertServerIDString2Number, ConvertServerIDNumber2String,
             ConvertServerIDString2Fields, ConvertServerIDNumber2Fields,
             ConvertFields2ServerIDNum)
SessionIDsConvertBack ==
  RoundTrips(Word, ConvertSessionIDString2Number, ConvertSessionIDNumber2String,
             ConvertSessionIDString2Fields, ConvertSessionIDNumber2Fields,
             ConvertFields2SessionIDNum)

\* The three ways to read an element of a list agree, and a value is reduced to
\* 32 bits exactly where the 64 bit variant shows that it does not fit.
ListsAgree ==
  LET list == <<x, Bad, y * y>>
      same(wide, narrow) == IF wide = Bad THEN narrow = Bad
                            ELSE narrow = Uint32(wide) /\ (wide < Word => narrow = wide)
  IN  /\ same(GetFirstUint64(list), GetFirstUint32(list))
      /\ same(GetLastUint64(list), GetLastUint32(list))
      /\ GetUint32(list, 0) = GetFirstUint32(list)
      /\ GetUint32(list, 2) = GetLastUint32(list)

\* The ways to write and to read a number (server_id.go, session_id.go, comma.go)
\* agree, also where a field has more bits than its place.
ConversionsAgree == ServerIDsConvertBack /\ SessionIDsConvertBack /\ ListsAgree

\* Adding and subtracting what is not negative stops at the limits of the type,
\* and the comparison tells beforehand whether a subtraction would (buffer.go).
ArithmeticStops ==
  \A t \in IntTypes :
    LET d == [width |-> t.width, value |-> x * (t.width \div Word) + y]
        n == Wrap(t, d.value)
    IN  \A s \in {v \in {0, y, x * y, MaxOf(t)} : v \in 0..MaxOf(t)} :
          LET b == [width |-> t.width, value |-> s]
          IN  /\ BufferAdd(d, b, t) = Min({n + s, MaxOf(t)})
              /\ BufferSub(d, b, t) = Max({n - s, MinOf(t)})
              /\ BufferCompare(d, b, t) = (n - s >= MinOf(t))
=============================================================================
