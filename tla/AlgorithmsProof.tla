--------------------------- MODULE AlgorithmsProof --------------------------
(***************************************************************************)
(* Proofs about the conversions and the checked arithmetic (Numbers), the  *)
(* generator of identifiers (UuidGen) and the parallel search of the       *)
(* mahjong analysis (SearchRace).                                          *)
(***************************************************************************)
EXTENDS Numbers, UuidGen, SearchRace, FiniteSetTheorems, SequenceTheorems, TLAPS

\* A quotient and a remainder are found again.
LEMMA Divide ==
  ASSUME NEW n \in Nat \ {0}, NEW q \in Int, NEW r \in 0 .. n - 1
  PROVE  (q * n + r) \div n = q /\ (q * n + r) % n = r
OBVIOUS

\* What fits is not changed by a reduction.
LEMMA Reduced ==
  ASSUME NEW n \in Nat \ {0}, NEW r \in 0 .. n - 1
  PROVE  r % n = r /\ r \div n = 0
OBVIOUS

\* A number is reduced to less than the width.
LEMMA Remainder ==
  ASSUME NEW n \in Nat \ {0}, NEW a \in Int
  PROVE  a % n \in 0 .. n - 1
OBVIOUS

\* The product of two widths is a width, and not smaller.
LEMMA Product ==
  ASSUME NEW m \in Nat \ {0}, NEW n \in Nat \ {0}
  PROVE  m * n \in Nat \ {0} /\ m * n >= n
OBVIOUS

\* What fits in two fields has a quotient that fits in one.
LEMMA QuotientFits ==
  ASSUME NEW n \in Nat \ {0}, NEW a \in 0 .. n * n - 1
  PROVE  a \div n \in 0 .. n - 1
OBVIOUS

(***************************************************************************)
(* Identifiers.                                                            *)
(***************************************************************************)
\* The widths are positive, grow, and can be halved.
LEMMA Widths ==
  /\ Half \in Nat \ {0} /\ Word \in Nat \ {0} /\ Word * Word \in Nat \ {0}
  /\ Half <= Word /\ Word <= Word * Word
  /\ Word % 2 = 0 /\ (Word * Word) % 2 = 0
<1>1. Half \in Nat \ {0} /\ Half % 2 = 0
  BY NumbersAssumption
<1>2. Word \in Nat \ {0} /\ Half <= Word
  BY <1>1, Product DEF Word
<1>3. Word * Word \in Nat \ {0} /\ Word <= Word * Word
  BY <1>2, Product
<1>4. \A n \in Nat : n % 2 = 0 => (n * n) % 2 = 0
  OBVIOUS
<1>5. QED
  BY <1>1, <1>2, <1>3, <1>4 DEF Word

\* What a field has to do with its width, for servers and sessions.
LEMMA WidthOf ==
  ASSUME NEW width \in {Half, Word}
  PROVE  /\ width \in Nat \ {0} /\ width <= Word
         /\ \A v \in 0 .. Word - 1 : v \div width \in 0 .. width - 1
         /\ \A u, v \in 0 .. width - 1 : BitOr(u, v) \in 0 .. width - 1 /\ BitOr(u, 0) = u
<1>1. width \in Nat \ {0} /\ width <= Word
  BY Widths
<1>2. \A v \in 0 .. Word - 1 : v \div width \in 0 .. width - 1
  <2>1. CASE width = Half
    BY <2>1, Widths, QuotientFits DEF Word
  <2>2. CASE width = Word
    BY <2>2, Widths, Reduced
  <2>3. QED
    BY <2>1, <2>2
<1>3. QED
  BY <1>1, <1>2, BitOrAssumption

\* Two numbers are fields of a text.
LEMMA FieldsOf ==
  ASSUME NEW u \in Int, NEW v \in Int
  PROVE  String2Fields(<<u, v>>) = <<u % Word, v % Word>>
<1>1. ToSet(<<u, v>>) = {u, v}
  BY DEF ToSet
<1>2. QED
  BY <1>1, NumbersAssumption DEF String2Fields, Uint32

\* The number that a text of two integers is converted to.
LEMMA NumberOf ==
  ASSUME NEW u \in Int, NEW v \in Int, NEW width
  PROVE  String2Number(<<u, v>>, width) =
           BitOr((u % Word) % width, (v % Word) \div width) * width + ((v % Word) % width)
<1>1. <<u % Word, v % Word>> # Bad
  <2>1. <<u % Word, v % Word>> \in Seq(Int)
    BY Widths, Remainder
  <2>2. QED
    BY <2>1, NumbersAssumption
<1>2. QED
  BY <1>1, FieldsOf DEF String2Number

\* The fields of a number put together from two fields.
LEMMA FieldsOfNumber ==
  ASSUME NEW width \in Nat \ {0}, NEW h \in 0 .. width - 1, NEW l \in 0 .. width - 1
  PROVE  Number2Fields(h * width + l, width) = <<h, l>>
<1>1. (h * width + l) \div width = h /\ (h * width + l) % width = l
  BY Divide
<1>2. h % width = h
  BY Reduced
<1>3. QED
  BY <1>1, <1>2 DEF Number2Fields

\* What each direction of a conversion does with numbers of any size.
LEMMA RoundTrip ==
  ASSUME NEW width \in {Half, Word}, NEW u \in Int, NEW v \in Int
  PROVE  LET d == String2Number(<<u, v>>, width)
             f == String2Fields(<<u, v>>)
         IN  /\ String2Number(Number2Fields(d, width), width) = d
             /\ u \in 0 .. width - 1 /\ v \in 0 .. width - 1 =>
                  Number2Fields(d, width) = f /\ f = <<u, v>>
             /\ f[2] \in 0 .. width - 1 => d = Fields2Number(f, width)
             /\ Number2Fields(Fields2Number(f, width), width) = <<f[1] % width, f[2] % width>>
<1> DEFINE a == u % Word
           b == v % Word
           high == BitOr(a % width, b \div width)
           low == b % width
           d == String2Number(<<u, v>>, width)
           f == String2Fields(<<u, v>>)
<1>1. width \in Nat \ {0} /\ width <= Word /\ Word \in Nat \ {0}
  BY WidthOf, Widths
<1>2. a \in 0 .. Word - 1 /\ b \in 0 .. Word - 1
  BY <1>1, Remainder
<1>3. a % width \in 0 .. width - 1 /\ low \in 0 .. width - 1 /\ b \div width \in 0 .. width - 1
  <2>1. a \in Int /\ b \in Int
    BY <1>1, <1>2
  <2>2. a % width \in 0 .. width - 1 /\ low \in 0 .. width - 1
    BY <1>1, <2>1, Remainder
  <2>3. b \div width \in 0 .. width - 1
    BY <1>2, WidthOf
  <2>4. QED
    BY <2>2, <2>3
<1>4. high \in 0 .. width - 1
  BY <1>3, WidthOf
<1>5. f = <<a, b>> /\ d = high * width + low
  BY FieldsOf, NumberOf
<1> HIDE DEF a, b, high, low, d, f
<1>6. Number2Fields(d, width) = <<high, low>>
  BY <1>1, <1>3, <1>4, <1>5, FieldsOfNumber
<1>7. String2Number(<<high, low>>, width) = d
  <2>1. high % Word = high /\ low % Word = low
    BY <1>1, <1>3, <1>4, Reduced
  <2>2. high % width = high /\ low % width = low /\ low \div width = 0
    BY <1>1, <1>3, <1>4, Reduced
  <2>3. BitOr(high, 0) = high
    BY <1>1, <1>4, WidthOf
  <2>4. String2Number(<<high, low>>, width) = BitOr(high, 0) * width + low
    BY <1>3, <1>4, <2>1, <2>2, NumberOf
  <2>5. QED
    BY <1>5, <2>3, <2>4
<1>8. ASSUME u \in 0 .. width - 1, v \in 0 .. width - 1
      PROVE  <<high, low>> = f /\ f = <<u, v>>
  <2>1. a = u /\ b = v
    BY <1>1, <1>8, Reduced DEF a, b
  <2>2. a % width = a /\ low = b /\ b \div width = 0
    BY <1>1, <1>8, <2>1, Reduced DEF low
  <2>3. high = a
    BY <1>3, <2>2, WidthOf DEF high
  <2>4. QED
    BY <1>5, <2>1, <2>2, <2>3
<1>9. Fields2Number(f, width) = (a % width) * width + low
  BY <1>5 DEF Fields2Number, low
<1>10. ASSUME b \in 0 .. width - 1
       PROVE  d = Fields2Number(f, width)
  <2>1. b \div width = 0
    BY <1>1, <1>10, Reduced
  <2>2. high = a % width
    BY <1>3, <2>1, WidthOf DEF high
  <2>3. QED
    BY <1>5, <1>9, <2>2
<1>11. Number2Fields(Fields2Number(f, width), width) = <<a % width, b % width>>
  BY <1>1, <1>3, <1>9, FieldsOfNumber DEF low
<1>12. f[1] = a /\ f[2] = b
  BY <1>5
<1>13. QED
  BY <1>6, <1>7, <1>8, <1>10, <1>11, <1>12 DEF d, f

\* Identifiers convert back, for both widths.
LEMMA IDsConvertBack ==
  ASSUME x \in Int, y \in Int
  PROVE  ServerIDsConvertBack /\ SessionIDsConvertBack
<1>1. ServerIDsConvertBack
  BY RoundTrip DEF ServerIDsConvertBack, RoundTrips, ConvertServerIDString2Number,
     ConvertServerIDNumber2String, ConvertServerIDString2Fields,
     ConvertServerIDNumber2Fields, ConvertFields2ServerIDNum
<1>2. SessionIDsConvertBack
  BY RoundTrip DEF SessionIDsConvertBack, RoundTrips, ConvertSessionIDString2Number,
     ConvertSessionIDNumber2String, ConvertSessionIDString2Fields,
     ConvertSessionIDNumber2Fields, ConvertFields2SessionIDNum
<1>3. QED
  BY <1>1, <1>2

(***************************************************************************)
(* Lists.                                                                  *)
(***************************************************************************)

\* What is read with two words and what is read with one.
LEMMA ParseAndCut ==
  ASSUME NEW n \in Int
  PROVE  LET wide == ParseUint(n)
         IN  IF wide = Bad THEN Cut(wide) = Bad
             ELSE Cut(wide) = Uint32(wide) /\ (wide < Word => Cut(wide) = wide)
<1> DEFINE wide == ParseUint(n)
<1>1. CASE n \in 0 .. Word * Word - 1
  <2>1. wide = n /\ n # Bad
    BY <1>1, NumbersAssumption DEF ParseUint
  <2>2. n < Word => n % Word = n
    BY <1>1, Widths, Reduced
  <2>3. QED
    BY <2>1, <2>2 DEF Cut, Uint32
<1>2. CASE n \notin 0 .. Word * Word - 1
  BY <1>2 DEF ParseUint, Cut
<1>3. QED
  BY <1>1, <1>2

\* The three ways to read an element of a list agree.
LEMMA ListsAlwaysAgree ==
  ASSUME x \in Int, y \in Int
  PROVE  ListsAgree
<1> DEFINE list == <<x, Bad, y * y>>
<1>1. Len(list) = 3 /\ Head(list) = x /\ Last(list) = y * y /\ y * y \in Int
  BY DEF Last
<1>2. /\ GetFirstUint64(list) = ParseUint(x) /\ GetFirstUint32(list) = Cut(ParseUint(x))
      /\ GetLastUint64(list) = ParseUint(y * y) /\ GetLastUint32(list) = Cut(ParseUint(y * y))
  BY <1>1 DEF GetFirstUint64, GetFirstUint32, GetLastUint64, GetLastUint32
<1>3. GetUint32(list, 0) = Cut(ParseUint(x)) /\ GetUint32(list, 2) = Cut(ParseUint(y * y))
  BY <1>1 DEF GetUint32
<1>4. QED
  BY <1>1, <1>2, <1>3, ParseAndCut DEF ListsAgree

\* The ways to write and to read a number agree.
THEOREM ConversionsAgreeCorrect == NumbersSpec => []ConversionsAgree
<1>1. NumbersInit => x \in Int /\ y \in Int
  BY NumbersAssumption DEF NumbersInit
<1>2. x \in Int /\ y \in Int /\ [UNCHANGED numbersVars]_numbersVars => (x \in Int /\ y \in Int)'
  BY DEF numbersVars
<1>3. x \in Int /\ y \in Int => ConversionsAgree
  BY IDsConvertBack, ListsAlwaysAgree DEF ConversionsAgree
<1>4. QED
  BY <1>1, <1>2, <1>3, PTL DEF NumbersSpec

(***************************************************************************)
(* Checked arithmetic.                                                     *)
(***************************************************************************)

\* The limits of a type are width - 1 apart and include 0.
LEMMA Limits ==
  ASSUME NEW t \in IntTypes
  PROVE  /\ t.width \in Nat \ {0}
         /\ MinOf(t) \in Int /\ MaxOf(t) \in Int
         /\ MinOf(t) <= 0 /\ 0 <= MaxOf(t)
         /\ MaxOf(t) = MinOf(t) + t.width - 1
<1>1. /\ t.signed \in BOOLEAN
      /\ t.width \in {Word, Word * Word}
  BY DEF IntTypes
<1>2. t.width \in Nat \ {0} /\ t.width % 2 = 0
  BY <1>1, Widths
<1>3. \A w \in Nat \ {0} : w % 2 = 0 => 2 * (w \div 2) = w /\ w \div 2 \in Nat \ {0}
  OBVIOUS
<1>4. QED
  BY <1>1, <1>2, <1>3 DEF MinOf, MaxOf

\* A number wraps around at most once when it is less than a width away.
LEMMA WrapsOnce ==
  ASSUME NEW t \in IntTypes, NEW n \in Int
  PROVE  /\ Wrap(t, n) \in MinOf(t) .. MaxOf(t)
         /\ n \in MinOf(t) .. MaxOf(t) => Wrap(t, n) = n
         /\ n > MaxOf(t) /\ n <= MaxOf(t) + t.width => Wrap(t, n) = n - t.width
         /\ n < MinOf(t) /\ n >= MinOf(t) - t.width => Wrap(t, n) = n + t.width
<1> DEFINE w == t.width
           low == MinOf(t)
           m == n - low
<1>1. /\ w \in Nat \ {0} /\ low \in Int /\ MaxOf(t) = low + w - 1 /\ m \in Int
      /\ n = m + low
  BY Limits
<1>2. Wrap(t, n) = (m % w) + low
  BY DEF Wrap
<1> HIDE DEF w, low, m
<1>3. m % w \in 0 .. w - 1
  BY <1>1, Remainder
<1>4. /\ m \in 0 .. w - 1 => m % w = m
      /\ m \in w .. 2 * w - 1 => m % w = m - w
      /\ m \in (- w) .. (- 1) => m % w = m + w
  <2>1. m \in 0 .. w - 1 => m % w = m
    BY <1>1, Reduced
  <2>2. m \in w .. 2 * w - 1 => m % w = m - w
    BY <1>1
  <2>3. m \in (- w) .. (- 1) => m % w = m + w
    BY <1>1
  <2>4. QED
    BY <2>1, <2>2, <2>3
<1>5. QED
  BY <1>1, <1>2, <1>3, <1>4 DEF w, low

\* The larger and the smaller of two numbers.
LEMMA MinAndMax ==
  ASSUME NEW a \in Int, NEW b \in Int
  PROVE  /\ Min({a, b}) = IF a <= b THEN a ELSE b
         /\ Max({a, b}) = IF a >= b THEN a ELSE b
BY DEF Min, Max

\* Adding and subtracting what is not negative stops at the limits.
LEMMA Stops ==
  ASSUME NEW t \in IntTypes, NEW n \in MinOf(t) .. MaxOf(t), NEW s \in 0 .. MaxOf(t)
  PROVE  /\ IntAdd(t, n, s) = Min({n + s, MaxOf(t)})
         /\ IntSub(t, n, s) = Max({n - s, MinOf(t)})
         /\ IntCompare(t, n, s) = (n - s >= MinOf(t))
<1> DEFINE w == t.width
           low == MinOf(t)
           high == MaxOf(t)
<1>1. /\ w \in Nat \ {0} /\ low \in Int /\ high \in Int /\ low <= 0 /\ 0 <= high
      /\ high = low + w - 1
  BY Limits
<1>2. n \in Int /\ s \in Int /\ low <= n /\ n <= high /\ 0 <= s /\ s <= high
  BY <1>1
<1>3. /\ Min({n + s, high}) = IF n + s <= high THEN n + s ELSE high
      /\ Max({n - s, low}) = IF n - s >= low THEN n - s ELSE low
  <2> DEFINE sum == n + s
             difference == n - s
  <2>1. sum \in Int /\ difference \in Int
    BY <1>2
  <2> HIDE DEF low, high, sum, difference
  <2>2. Min({sum, high}) = IF sum <= high THEN sum ELSE high
    BY <1>1, <2>1, MinAndMax
  <2>3. Max({difference, low}) = IF difference >= low THEN difference ELSE low
    BY <1>1, <2>1, MinAndMax
  <2>4. QED
    BY <2>2, <2>3 DEF sum, difference
<1> HIDE DEF w, low, high
<1>4. Wrap(t, n + s) = IF n + s <= high THEN n + s ELSE n + s - w
  <2>1. n + s \in Int /\ n + s >= low /\ n + s <= high + w
    BY <1>1, <1>2
  <2>2. QED
    BY <1>1, <2>1, WrapsOnce DEF w, low, high
<1>5. Wrap(t, n - s) = IF n - s >= low THEN n - s ELSE n - s + w
  <2>1. n - s \in Int /\ n - s <= high /\ n - s >= low - w
    BY <1>1, <1>2
  <2>2. QED
    BY <1>1, <2>1, WrapsOnce DEF w, low, high
<1>6. IntAdd(t, n, s) = Min({n + s, high})
  BY <1>1, <1>2, <1>3, <1>4 DEF IntAdd, high
<1>7. IntSub(t, n, s) = Max({n - s, low})
  BY <1>1, <1>2, <1>3, <1>5 DEF IntSub, low
<1>8. IntCompare(t, n, s) = (n - s >= low)
  BY <1>1, <1>2, <1>5 DEF IntCompare
<1>9. QED
  BY <1>6, <1>7, <1>8 DEF low, high

\* Two buffers of the width of the type are read and combined.
LEMMA BuffersRead ==
  ASSUME NEW t \in IntTypes, NEW u \in Int, NEW v \in Int
  PROVE  LET d == [width |-> t.width, value |-> u]
             b == [width |-> t.width, value |-> v]
         IN  /\ BufferAdd(d, b, t) = IntAdd(t, Wrap(t, u), Wrap(t, v))
             /\ BufferSub(d, b, t) = IntSub(t, Wrap(t, u), Wrap(t, v))
             /\ BufferCompare(d, b, t) = IntCompare(t, Wrap(t, u), Wrap(t, v))
<1>1. \A n \in Int : [width |-> t.width, value |-> n] # Bad
  BY Limits, NumbersAssumption
<1>2. QED
  BY <1>1 DEF BufferAdd, BufferSub, BufferCompare, BuffOp

\* Adding and subtracting what is not negative stops at the limits of the type, and the
\* comparison tells beforehand whether a subtraction would (buffer.go).
THEOREM ArithmeticStopsCorrect == NumbersSpec => []ArithmeticStops
<1>1. NumbersInit => x \in Int /\ y \in Int
  BY NumbersAssumption DEF NumbersInit
<1>2. x \in Int /\ y \in Int /\ [UNCHANGED numbersVars]_numbersVars => (x \in Int /\ y \in Int)'
  BY DEF numbersVars
<1>3. x \in Int /\ y \in Int => ArithmeticStops
  <2> SUFFICES ASSUME x \in Int, y \in Int, NEW t \in IntTypes,
                      NEW s \in 0 .. MaxOf(t)
               PROVE  LET d == [width |-> t.width, value |-> x * (t.width \div Word) + y]
                          b == [width |-> t.width, value |-> s]
                          n == Wrap(t, d.value)
                      IN  /\ BufferAdd(d, b, t) = Min({n + s, MaxOf(t)})
                          /\ BufferSub(d, b, t) = Max({n - s, MinOf(t)})
                          /\ BufferCompare(d, b, t) = (n - s >= MinOf(t))
    BY DEF ArithmeticStops
  <2> DEFINE u == x * (t.width \div Word) + y
             n == Wrap(t, u)
  <2>1. u \in Int
    BY Limits, Widths
  <2>2. n \in MinOf(t) .. MaxOf(t)
    BY <2>1, WrapsOnce
  <2>3. s \in Int /\ Wrap(t, s) = s
    BY Limits, WrapsOnce
  <2>4. /\ IntAdd(t, n, s) = Min({n + s, MaxOf(t)})
        /\ IntSub(t, n, s) = Max({n - s, MinOf(t)})
        /\ IntCompare(t, n, s) = (n - s >= MinOf(t))
    BY <2>2, Stops
  <2> HIDE DEF u
  <2>5. LET d == [width |-> t.width, value |-> u]
            b == [width |-> t.width, value |-> s]
        IN  /\ BufferAdd(d, b, t) = IntAdd(t, n, s)
            /\ BufferSub(d, b, t) = IntSub(t, n, s)
            /\ BufferCompare(d, b, t) = IntCompare(t, n, s)
    BY <2>1, <2>3, BuffersRead
  <2>6. QED
    BY <2>4, <2>5 DEF u
<1>4. QED
  BY <1>1, <1>2, <1>3, PTL DEF NumbersSpec

-----------------------------------------------------------------------------
(***************************************************************************)
(* The ids: GenID of UuidGen.  An id moves on by one, or by two past 0, so *)
(* that two ids given one after the other are at most twice as far apart   *)
(* as their places.                                                        *)
(***************************************************************************)
UuidTypeOK ==
  /\ id \in 0 .. Modulus - 1
  /\ step \in [Callers -> 0 .. 2]
  /\ given \in Seq(0 .. Modulus - 1)
  /\ overlapped \in BOOLEAN

\* A call that is alone has seen the counter it adds to, so that it skips 0.
Alone ==
  ~overlapped =>
    /\ \A c \in Callers : step[c] # 0 =>
         /\ step[c] = IF id = Modulus - 1 THEN 2 ELSE 1
         /\ \A d \in Callers : step[d] # 0 => d = c
    /\ \A i \in 1 .. Len(given) : given[i] # 0

\* From a, k ahead and at most once round.
Ahead(a, k) == {a + k, a + k - Modulus} \cap (0 .. Modulus - 1)

Apart ==
  /\ Len(given) > 0 => id = given[Len(given)]
  /\ \A i, j \in 1 .. Len(given) : i <= j /\ 2 * (j - i) < Modulus =>
       \E k \in (j - i) .. (2 * (j - i)) : given[j] \in Ahead(given[i], k)

Generating == UuidTypeOK /\ Alone /\ Apart

\* The addition to the counter, which wraps.
LEMMA Wraps ==
  ASSUME NEW a \in 0 .. Modulus - 1, NEW s \in 1 .. 2
  PROVE  (a + s) % Modulus = IF a + s < Modulus THEN a + s ELSE a + s - Modulus
BY UuidAssumption DEF UuidAssumption

\* One more place, and one or two further ahead.
LEMMA Further ==
  ASSUME NEW d \in Nat, NEW k \in d .. (2 * d), NEW s \in 1 .. 2, 2 * (d + 1) < Modulus
  PROVE  k + s \in (d + 1) .. (2 * (d + 1)) /\ k + s < Modulus /\ k < Modulus /\ k \in Nat
BY UuidAssumption DEF UuidAssumption

\* The distance between places grows with every step.
LEMMA StepsAhead ==
  ASSUME NEW a \in 0 .. Modulus - 1, NEW b \in 0 .. Modulus - 1,
         NEW k \in Nat, NEW s \in 1 .. 2, k + s < Modulus, b \in Ahead(a, k)
  PROVE  (IF b + s < Modulus THEN b + s ELSE b + s - Modulus) \in Ahead(a, k + s)
BY UuidAssumption DEF UuidAssumption, Ahead

\* No call has begun.
LEMMA GeneratingInit == UuidInit => Generating
<1> SUFFICES ASSUME UuidInit PROVE Generating
  OBVIOUS
<1>1. given = <<>> /\ Len(<<>>) = 0 /\ <<>> \in Seq(0 .. Modulus - 1)
  BY DEF UuidInit
<1>2. UuidTypeOK
  <2>1. id \in 0 .. Modulus - 1
    BY DEF UuidInit
  <2>2. step \in [Callers -> 0 .. 2]
    BY DEF UuidInit
  <2>3. overlapped \in BOOLEAN
    BY DEF UuidInit
  <2>4. QED
    BY <1>1, <2>1, <2>2, <2>3 DEF UuidTypeOK
<1>3. Alone /\ Apart
  BY <1>1 DEF UuidInit, Alone, Apart
<1>4. QED
  BY <1>2, <1>3 DEF Generating

\* A call reads the counter.
LEMMA TestsKeepGenerating ==
  ASSUME Generating, NEW c \in Callers, GenIDTests(c)
  PROVE  Generating'
<1>1. /\ step' = [step EXCEPT ![c] = IF id = Modulus - 1 THEN 2 ELSE 1]
      /\ overlapped' = (overlapped \/ InProgress # {})
      /\ UNCHANGED <<id, given>>
  BY DEF GenIDTests
<1>2. UuidTypeOK'
  BY <1>1 DEF Generating, UuidTypeOK
<1>3. Apart'
  BY <1>1 DEF Generating, Apart, Ahead
<1>4. Alone'
  BY <1>1 DEF Generating, UuidTypeOK, Alone, InProgress
<1>5. QED
  BY <1>2, <1>3, <1>4 DEF Generating

\* A call adds to it.
LEMMA AddsKeepGenerating ==
  ASSUME Generating, NEW c \in Callers, GenIDAdds(c)
  PROVE  Generating'
<1> DEFINE s == step[c]
           n == Len(given)
<1>1. /\ s \in 1 .. 2 /\ id \in 0 .. Modulus - 1 /\ given \in Seq(0 .. Modulus - 1)
      /\ n \in Nat /\ Modulus \in Nat /\ Modulus > 2
  BY UuidAssumption, LenProperties DEF UuidAssumption, GenIDAdds, Generating, UuidTypeOK
<1>2. id' = IF id + s < Modulus THEN id + s ELSE id + s - Modulus
  BY <1>1, Wraps DEF GenIDAdds
<1>3. id' \in 0 .. Modulus - 1 /\ id' \in Ahead(id, s)
  BY <1>1, <1>2 DEF Ahead
<1>4. /\ given' \in Seq(0 .. Modulus - 1) /\ Len(given') = n + 1
      /\ \A i \in 1 .. n : given'[i] = given[i]
      /\ given'[n + 1] = id'
  <2>1. given' = Append(given, id')
    BY DEF GenIDAdds
  <2>2. QED
    BY <1>1, <1>3, <2>1, AppendProperties
<1>5. step' = [step EXCEPT ![c] = 0] /\ UNCHANGED overlapped
  BY DEF GenIDAdds
<1>0. /\ ~overlapped => s = IF id = Modulus - 1 THEN 2 ELSE 1
      /\ n > 0 => id = given[n]
  BY <1>1 DEF Generating, Alone, Apart
<1> HIDE DEF s, n
<1>6. UuidTypeOK'
  BY <1>3, <1>4, <1>5 DEF Generating, UuidTypeOK
<1>7. Alone'
  <2>1. SUFFICES ASSUME ~overlapped
                 PROVE  /\ \A d \in Callers : step'[d] = 0
                        /\ \A i \in 1 .. n + 1 : given'[i] # 0
    BY <1>4, <1>5, <2>1 DEF Alone
  <2>2. /\ \A d \in Callers : step[d] # 0 => d = c
        /\ \A i \in 1 .. n : given[i] # 0
    BY <1>1, <2>1 DEF Generating, Alone, s, n
  <2>3. \A d \in Callers : step'[d] = 0
    BY <1>5, <2>2 DEF Generating, UuidTypeOK
  <2>4. id' # 0
    <3>1. s = IF id = Modulus - 1 THEN 2 ELSE 1
      BY <1>0, <2>1
    <3>2. QED
      BY <1>1, <1>2, <3>1
  <2>5. \A i \in 1 .. n + 1 : given'[i] # 0
    BY <1>1, <1>4, <2>2, <2>4
  <2>6. QED
    BY <2>3, <2>5
<1>8. Apart'
  <2>1. id' = given'[Len(given')]
    BY <1>4
  <2>2. ASSUME NEW i \in 1 .. n + 1, NEW j \in 1 .. n + 1, i <= j, 2 * (j - i) < Modulus
        PROVE  \E k \in (j - i) .. (2 * (j - i)) : given'[j] \in Ahead(given'[i], k)
    <3>1. CASE j <= n
      <4>1. i \in 1 .. n /\ j \in 1 .. n
        BY <1>1, <2>2, <3>1
      <4>2. QED
        BY <1>4, <2>2, <4>1 DEF Generating, Apart, n
    <3>2. CASE i = n + 1
      <4>1. j = n + 1 /\ 0 \in (j - i) .. (2 * (j - i))
        BY <1>1, <2>2, <3>2
      <4>2. id' \in Ahead(id', 0)
        <5>1. \A a \in 0 .. Modulus - 1 : a + 0 = a
          BY <1>1
        <5>2. QED
          BY <1>3, <5>1 DEF Ahead
      <4>3. QED
        BY <1>4, <3>2, <4>1, <4>2
    <3>3. CASE i <= n /\ j = n + 1
      <4>1. i \in 1 .. n /\ n \in 1 .. n /\ i <= n /\ 2 * (n - i) < Modulus
        BY <1>1, <2>2, <3>3
      <4>2. PICK k \in (n - i) .. (2 * (n - i)) : given[n] \in Ahead(given[i], k)
        BY <4>1 DEF Generating, Apart, n
      <4>3. id = given[n] /\ given[i] \in 0 .. Modulus - 1
        <5>1. given[i] \in 0 .. Modulus - 1
          BY <1>1, <4>1, ElementOfSeq DEF n
        <5>2. QED
          BY <1>0, <1>1, <4>1, <5>1
      <4>4. k + s \in (j - i) .. (2 * (j - i)) /\ k + s < Modulus /\ k \in Nat
        <5>1. n - i \in Nat /\ j - i = (n - i) + 1
          BY <1>1, <3>3, <4>1
        <5>2. QED
          BY <1>1, <2>2, <4>2, <5>1, Further
      <4>5. id' \in Ahead(given[i], k + s)
        BY <1>1, <1>2, <4>2, <4>3, <4>4, StepsAhead
      <4>6. QED
        BY <1>4, <3>3, <4>1, <4>4, <4>5
    <3>4. QED
      BY <1>1, <2>2, <3>1, <3>2, <3>3
  <2>3. QED
    BY <1>4, <2>1, <2>2 DEF Apart
<1>9. QED
  BY <1>6, <1>7, <1>8 DEF Generating

\* The invariant of the generator holds in every reachable state.
LEMMA GeneratingCorrect == UuidSpec => []Generating
<1>1. Generating /\ [UuidNext]_uuidVars => Generating'
  <2>1. CASE UNCHANGED uuidVars
    BY <2>1 DEF uuidVars, Generating, UuidTypeOK, Alone, Apart, Ahead
  <2>2. QED
    BY <2>1, TestsKeepGenerating, AddsKeepGenerating DEF UuidNext
<1>2. QED
  BY <1>1, GeneratingInit, PTL DEF UuidSpec

\* GenID gives 0 only to calls that overlap, and no id twice before the counter has come
\* round, for every width of the counter and any number of callers (uuid.go 16-22).
THEOREM GeneratedIDsCorrect == UuidSpec => []GeneratedIDs
<1>1. Generating => GeneratedIDs
  <2> SUFFICES ASSUME Generating PROVE GeneratedIDs
    OBVIOUS
  <2>1. DOMAIN given = 1 .. Len(given) /\ Len(given) \in Nat
    BY LenProperties DEF Generating, UuidTypeOK
  <2>2. ZeroNeedsOverlap
    BY <2>1 DEF Generating, Alone, ZeroNeedsOverlap
  <2>3. NoIDTwice
    <3>1. SUFFICES ASSUME NEW i \in 1 .. Len(given), NEW j \in 1 .. Len(given),
                          i < j, 2 * (j - i) < Modulus
                   PROVE  given[i] # given[j]
      BY <2>1 DEF NoIDTwice
    <3>2. PICK k \in (j - i) .. (2 * (j - i)) : given[j] \in Ahead(given[i], k)
      BY <2>1, <3>1 DEF Generating, Apart
    <3>3. k > 0 /\ k < Modulus /\ Modulus \in Nat
      BY <2>1, <3>1, <3>2, UuidAssumption DEF UuidAssumption
    <3>4. given[i] \in 0 .. Modulus - 1
      BY ElementOfSeq DEF Generating, UuidTypeOK
    <3>5. QED
      BY <3>2, <3>3, <3>4 DEF Ahead
  <2>4. QED
    BY <2>2, <2>3 DEF GeneratedIDs
<1>2. QED
  BY <1>1, GeneratingCorrect, PTL

-----------------------------------------------------------------------------
(***************************************************************************)
(* The parallel search.  What the invariant says of every search, of one   *)
(* with a single goroutine, and of the answers that are still to come.     *)
(***************************************************************************)
SearchTypeOK ==
  /\ DOMAIN wins \in (SUBSET Branches) \ {{}}
  /\ wins \in [DOMAIN wins -> Candidates]
  /\ isHu \in BOOLEAN
  /\ at \in [DOMAIN wins -> {"try", "test", "send", "done"}]
  /\ tried \in [DOMAIN wins -> Nat]
  /\ \A b \in DOMAIN wins : tried[b] \in DOMAIN wins[b]
  /\ resChan \in Seq(BOOLEAN)
  /\ left \in Int
  /\ caller \in {"wait", "check", "return", "done"}
  /\ result \in SUBSET BOOLEAN

\* No TRUE comes from nothing.
Positive ==
  /\ isHu => WinExists
  /\ \A i \in DOMAIN resChan : resChan[i] => WinExists
  /\ TRUE \in result => WinExists

\* The only goroutine shares isHu with a caller that waits for it.
Only(b) ==
  LET none(n) == \A i \in DOMAIN wins[b] : i <= n => ~wins[b][i]
      unanswered == caller \in {"wait", "check"} /\ result = {} /\ left = 1
  IN  \/ /\ at[b] # "done" /\ unanswered /\ caller = "wait" /\ resChan = <<>>
         /\ at[b] \in {"try", "test"} => none(tried[b] - 1)
         /\ at[b] = "test" => isHu = wins[b][tried[b]]
         /\ at[b] = "send" => isHu = Wins(b)
      \/ /\ at[b] = "done" /\ unanswered
         /\ caller = "wait" => resChan = <<Wins(b)>>
         /\ caller = "check" => resChan = <<>> /\ isHu = Wins(b)
      \/ /\ at[b] = "done" /\ resChan = <<>>
         /\ \/ caller = "return" /\ result = {} /\ isHu = Wins(b)
            \/ caller = "done" /\ result = {Wins(b)}
Lonely == \A b \in DOMAIN wins : DOMAIN wins = {b} => Only(b)

\* left counts the answers that the caller has not received.
Unsent == {b \in DOMAIN wins : at[b] # "done"}
Counted ==
  /\ Len(resChan) + Cardinality(Unsent) <= Cardinality(DOMAIN wins)
  /\ caller = "wait" => left > 0 /\ left = Len(resChan) + Cardinality(Unsent)
  /\ caller = "check" => left = Len(resChan) + Cardinality(Unsent) + 1

Searching == SearchTypeOK /\ Positive /\ Lonely /\ Counted

\* The candidates of a goroutine are a sequence of at least one.
LEMMA CandidatesAre ==
  ASSUME NEW c \in Candidates
  PROVE  /\ c \in Seq(BOOLEAN) /\ Len(c) \in Nat \ {0} /\ DOMAIN c = 1 .. Len(c)
<1>1. PICK n \in 1 .. MaxTries : c \in [1 .. n -> BOOLEAN]
  BY DEF Candidates
<1>2. n \in Nat \ {0}
  BY <1>1, SearchAssumption
<1>3. QED
  BY <1>1, <1>2

\* Finite sets of goroutines.
LEMMA UnsentFinite ==
  ASSUME SearchTypeOK
  PROVE  /\ IsFiniteSet(DOMAIN wins) /\ IsFiniteSet(Unsent)
         /\ Cardinality(DOMAIN wins) \in Nat /\ Cardinality(Unsent) \in Nat
         /\ Cardinality(DOMAIN wins) \in 1 .. Capacity
<1>1. IsFiniteSet(Branches) /\ Cardinality(Branches) <= Capacity /\ Cardinality(Branches) \in Nat
  BY SearchAssumption, FS_CardinalityType
<1>2. DOMAIN wins \subseteq Branches /\ DOMAIN wins # {} /\ Unsent \subseteq Branches
  BY DEF SearchTypeOK, Unsent
<1>3. IsFiniteSet(DOMAIN wins) /\ IsFiniteSet(Unsent) /\ Cardinality(DOMAIN wins) <= Cardinality(Branches)
  BY <1>1, <1>2, FS_Subset
<1>4. Cardinality(DOMAIN wins) \in Nat /\ Cardinality(Unsent) \in Nat
  BY <1>3, FS_CardinalityType
<1>5. Cardinality(DOMAIN wins) # 0
  BY <1>2, <1>3, FS_EmptySet
<1>6. QED
  BY <1>1, <1>3, <1>4, <1>5 DEF Capacity

\* All goroutines begin and the caller waits for each of them.
LEMMA SearchingInit == SearchInit => Searching
<1> SUFFICES ASSUME SearchInit PROVE Searching
  OBVIOUS
<1>1. PICK S \in (SUBSET Branches) \ {{}} : wins \in [S -> Candidates]
  BY DEF SearchInit
<1>2. DOMAIN wins = S
  BY <1>1
<1>3. \A b \in DOMAIN wins : 1 \in DOMAIN wins[b]
  BY <1>1, <1>2, CandidatesAre
<1>4. Unsent = DOMAIN wins
  BY DEF SearchInit, Unsent
<1>5. IsFiniteSet(DOMAIN wins) /\ Cardinality(DOMAIN wins) \in Nat \ {0}
  <2>1. IsFiniteSet(DOMAIN wins) /\ DOMAIN wins # {}
    BY <1>1, <1>2, SearchAssumption, FS_Subset
  <2>2. QED
    BY <2>1, FS_EmptySet, FS_CardinalityType
<1>6. SearchTypeOK
  <2>1. left \in Int
    BY <1>5 DEF SearchInit
  <2>2. DOMAIN wins \in (SUBSET Branches) \ {{}} /\ wins \in [DOMAIN wins -> Candidates]
    BY <1>1, <1>2
  <2>3. \A b \in DOMAIN wins : tried[b] \in DOMAIN wins[b]
    BY <1>3 DEF SearchInit
  <2>4. /\ at \in [DOMAIN wins -> {"try", "test", "send", "done"}]
        /\ tried \in [DOMAIN wins -> Nat]
    BY DEF SearchInit
  <2>5. isHu \in BOOLEAN /\ resChan \in Seq(BOOLEAN) /\ result \in SUBSET BOOLEAN
    <3>1. isHu = FALSE /\ resChan = <<>> /\ result = {}
      BY DEF SearchInit
    <3>2. <<>> \in Seq(BOOLEAN)
      OBVIOUS
    <3>3. QED
      BY <3>1, <3>2, Zenon
  <2>6. caller = "wait"
    BY DEF SearchInit
  <2>7. QED
    BY <2>1, <2>2, <2>3, <2>4, <2>5, <2>6 DEF SearchTypeOK
<1>7. Positive
  BY DEF SearchInit, Positive
<1>8. Lonely
  <2> SUFFICES ASSUME NEW b \in DOMAIN wins, DOMAIN wins = {b}
               PROVE  Only(b)
    BY DEF Lonely
  <2>1. left = 1
    BY FS_Singleton DEF SearchInit
  <2>2. \A i \in DOMAIN wins[b] : ~(i <= 0)
    BY <1>6, CandidatesAre DEF SearchTypeOK
  <2>3. QED
    BY <2>1, <2>2 DEF SearchInit, Only
<1>9. Counted
  BY <1>4, <1>5 DEF SearchInit, Counted
<1>10. QED
  BY <1>6, <1>7, <1>8, <1>9 DEF Searching
\* A step that keeps what the goroutines have sent and what the caller has
\* received keeps the count.
LEMMA CountKept ==
  ASSUME SearchTypeOK, Counted, UNCHANGED <<wins, resChan, left, caller>>,
         at' \in [DOMAIN wins -> {"try", "test", "send", "done"}],
         \A b \in DOMAIN wins : at'[b] = "done" <=> at[b] = "done"
  PROVE  Counted'
<1>1. Unsent' = Unsent
  BY DEF Unsent
<1>2. QED
  BY <1>1 DEF Counted

\* A goroutine writes the result for its candidate to isHu.
LEMMA TryKeeps ==
  ASSUME Searching, NEW b \in DOMAIN wins, Try(b)
  PROVE  Searching'
<1>1. /\ at[b] = "try" /\ at' = [at EXCEPT ![b] = "test"]
      /\ isHu' = wins[b][tried[b]]
      /\ UNCHANGED <<wins, tried, resChan, left, caller, result>>
  BY DEF Try
<1>2. tried[b] \in DOMAIN wins[b] /\ wins[b] \in Seq(BOOLEAN) /\ SearchTypeOK
  BY CandidatesAre DEF Searching, SearchTypeOK
<1>3. isHu' \in BOOLEAN
  BY <1>1, <1>2
<1>4. SearchTypeOK'
  BY <1>1, <1>2, <1>3 DEF SearchTypeOK
<1>5. WinExists' <=> WinExists
  BY <1>1 DEF WinExists, Wins
<1>6. Positive'
  <2>1. isHu' => WinExists
    BY <1>1, <1>2 DEF WinExists, Wins
  <2>2. QED
    BY <1>1, <1>5, <2>1 DEF Searching, Positive
<1>7. Lonely'
  <2> SUFFICES ASSUME DOMAIN wins = {b} PROVE Only(b)'
    BY <1>1 DEF Lonely
  <2>1. Only(b)
    BY DEF Searching, Lonely
  <2>2. at'[b] = "test"
    BY <1>1, <1>2 DEF SearchTypeOK
  <2>3. QED
    BY <1>1, <2>1, <2>2 DEF Only
<1>8. Counted'
  BY <1>1, <1>2, <1>4, CountKept DEF Searching, SearchTypeOK
<1>9. QED
  BY <1>4, <1>6, <1>7, <1>8 DEF Searching

\* A goroutine reads isHu and goes on or stops.
LEMMA TestKeeps ==
  ASSUME Searching, NEW b \in DOMAIN wins, Test(b)
  PROVE  Searching'
<1> DEFINE stops == isHu \/ tried[b] = Len(wins[b])
<1>1. /\ at[b] = "test" /\ at' = [at EXCEPT ![b] = IF stops THEN "send" ELSE "try"]
      /\ tried' = [tried EXCEPT ![b] = IF stops THEN @ ELSE @ + 1]
      /\ UNCHANGED <<wins, isHu, resChan, left, caller, result>>
  BY DEF Test
<1>2. /\ tried[b] \in DOMAIN wins[b] /\ wins[b] \in Seq(BOOLEAN) /\ SearchTypeOK
      /\ DOMAIN wins[b] = 1 .. Len(wins[b]) /\ Len(wins[b]) \in Nat
  BY CandidatesAre DEF Searching, SearchTypeOK
<1>3. /\ at'[b] = IF stops THEN "send" ELSE "try"
      /\ tried'[b] = IF stops THEN tried[b] ELSE tried[b] + 1
  BY <1>1, <1>2 DEF SearchTypeOK
<1> HIDE DEF stops
<1>4. SearchTypeOK'
  <2>1. tried'[b] \in DOMAIN wins[b] /\ tried'[b] \in Nat
    BY <1>2, <1>3 DEF stops
  <2>2. at' \in [DOMAIN wins -> {"try", "test", "send", "done"}]
    BY <1>1, <1>2 DEF SearchTypeOK
  <2>3. /\ tried' \in [DOMAIN wins -> Nat]
        /\ \A c \in DOMAIN wins : tried'[c] \in DOMAIN wins[c]
    BY <1>1, <1>2, <1>3, <2>1 DEF SearchTypeOK
  <2>4. QED
    BY <1>1, <1>2, <2>2, <2>3 DEF SearchTypeOK
<1>5. Positive'
  BY <1>1 DEF Searching, Positive, WinExists, Wins
<1>6. Lonely'
  <2> SUFFICES ASSUME DOMAIN wins = {b} PROVE Only(b)'
    BY <1>1 DEF Lonely
  <2> DEFINE none(n) == \A i \in DOMAIN wins[b] : i <= n => ~wins[b][i]
  <2>1. /\ caller = "wait" /\ resChan = <<>> /\ result = {} /\ left = 1
        /\ none(tried[b] - 1) /\ isHu = wins[b][tried[b]]
    BY <1>1 DEF Searching, Lonely, Only
  <2>2. CASE stops
    <3>1. isHu = Wins(b)
      <4>1. CASE isHu
        BY <1>2, <2>1, <4>1 DEF Wins
      <4>2. CASE ~isHu
        <5>1. tried[b] = Len(wins[b]) /\ ~wins[b][tried[b]]
          BY <2>1, <2>2, <4>2 DEF stops
        <5>2. \A i \in DOMAIN wins[b] : i <= tried[b] - 1 \/ i = tried[b]
          BY <1>2, <5>1
        <5>3. \A i \in DOMAIN wins[b] : ~wins[b][i]
          BY <2>1, <5>1, <5>2
        <5>4. QED
          BY <1>2, <4>2, <5>3 DEF Wins, SearchTypeOK
      <4>3. QED
        BY <4>1, <4>2
    <3>2. Wins(b)' = Wins(b)
      BY <1>1 DEF Wins
    <3>3. QED
      BY <1>1, <1>3, <2>1, <2>2, <3>1, <3>2 DEF Only
  <2>3. CASE ~stops
    <3>1. none(tried[b])
      BY <1>2, <2>1, <2>3 DEF stops
    <3>2. tried'[b] - 1 = tried[b]
      BY <1>2, <1>3, <2>3
    <3>3. QED
      BY <1>1, <1>3, <2>1, <2>3, <3>1, <3>2 DEF Only
  <2>4. QED
    BY <2>2, <2>3
<1>7. Counted'
  <2>1. \A c \in DOMAIN wins : at'[c] = "done" <=> at[c] = "done"
    BY <1>1, <1>2, <1>3 DEF SearchTypeOK
  <2>2. QED
    BY <1>1, <1>2, <1>4, <2>1, CountKept DEF Searching, SearchTypeOK
<1>8. QED
  BY <1>4, <1>5, <1>6, <1>7 DEF Searching

\* A goroutine sends what is in isHu.
LEMMA SendResultKeeps ==
  ASSUME Searching, NEW b \in DOMAIN wins, SendResult(b)
  PROVE  Searching'
<1>1. /\ at[b] = "send" /\ at' = [at EXCEPT ![b] = "done"]
      /\ resChan' = Append(resChan, isHu)
      /\ UNCHANGED <<wins, isHu, tried, left, caller, result>>
  BY DEF SendResult
<1>2. SearchTypeOK
  BY DEF Searching
<1>3. /\ resChan \in Seq(BOOLEAN) /\ isHu \in BOOLEAN /\ Len(resChan) \in Nat
      /\ resChan' \in Seq(BOOLEAN) /\ Len(resChan') = Len(resChan) + 1
      /\ \A i \in DOMAIN resChan' :
           (i \in DOMAIN resChan /\ resChan'[i] = resChan[i]) \/ resChan'[i] = isHu
  BY <1>1, <1>2 DEF SearchTypeOK
<1>4. SearchTypeOK'
  BY <1>1, <1>2, <1>3 DEF SearchTypeOK
<1>5. Positive'
  BY <1>1, <1>3 DEF Searching, Positive, WinExists, Wins
<1>6. Lonely'
  <2> SUFFICES ASSUME DOMAIN wins = {b} PROVE Only(b)'
    BY <1>1 DEF Lonely
  <2>1. caller = "wait" /\ resChan = <<>> /\ result = {} /\ left = 1 /\ isHu = Wins(b)
    BY <1>1 DEF Searching, Lonely, Only
  <2>2. resChan' = <<isHu>> /\ at'[b] = "done"
    BY <1>1, <1>2, <2>1 DEF SearchTypeOK
  <2>3. Wins(b)' = Wins(b)
    BY <1>1 DEF Wins
  <2>4. QED
    BY <1>1, <2>1, <2>2, <2>3 DEF Only
<1>7. Counted'
  <2>1. Unsent' = Unsent \ {b} /\ b \in Unsent
    BY <1>1, <1>2 DEF Unsent, SearchTypeOK
  <2>2. Cardinality(Unsent') = Cardinality(Unsent) - 1
    BY <1>2, <2>1, UnsentFinite, FS_RemoveElement
  <2>3. QED
    BY <1>1, <1>2, <1>3, <2>2, UnsentFinite DEF Searching, Counted
<1>8. QED
  BY <1>4, <1>5, <1>6, <1>7 DEF Searching

\* The caller writes the first answer to isHu.
LEMMA ReceiveResultKeeps ==
  ASSUME Searching, ReceiveResult
  PROVE  Searching'
<1>1. /\ caller = "wait" /\ resChan # <<>> /\ isHu' = Head(resChan)
      /\ resChan' = Tail(resChan) /\ caller' = "check"
      /\ UNCHANGED <<wins, at, tried, left, result>>
  BY DEF ReceiveResult
<1>2. SearchTypeOK
  BY DEF Searching
<1>3. /\ Len(resChan) \in Nat /\ isHu' \in BOOLEAN /\ resChan' \in Seq(BOOLEAN)
      /\ Len(resChan') = Len(resChan) - 1
      /\ 1 \in DOMAIN resChan /\ isHu' = resChan[1]
      /\ \A i \in DOMAIN resChan' : i + 1 \in DOMAIN resChan /\ resChan'[i] = resChan[i + 1]
  BY <1>1, <1>2 DEF SearchTypeOK
<1>4. SearchTypeOK'
  BY <1>1, <1>2, <1>3 DEF SearchTypeOK
<1>5. Positive'
  BY <1>1, <1>3 DEF Searching, Positive, WinExists, Wins
<1>6. Lonely'
  <2> SUFFICES ASSUME NEW b \in DOMAIN wins, DOMAIN wins = {b} PROVE Only(b)'
    BY <1>1 DEF Lonely
  <2>1. at[b] = "done" /\ resChan = <<Wins(b)>> /\ result = {} /\ left = 1
    BY <1>1 DEF Searching, Lonely, Only
  <2>2. isHu' = Wins(b) /\ resChan' = <<>>
    BY <1>1, <2>1
  <2>3. Wins(b)' = Wins(b)
    BY <1>1 DEF Wins
  <2>4. QED
    BY <1>1, <2>1, <2>2, <2>3 DEF Only
<1>7. Counted'
  <2>1. Unsent' = Unsent
    BY <1>1 DEF Unsent
  <2>2. QED
    BY <1>1, <1>2, <1>3, <2>1, UnsentFinite DEF Searching, Counted
<1>8. QED
  BY <1>4, <1>5, <1>6, <1>7 DEF Searching

\* The caller reads isHu and stops or waits for the next answer.
LEMMA CheckResultKeeps ==
  ASSUME Searching, CheckResult
  PROVE  Searching'
<1>1. /\ caller = "check" /\ left' = IF isHu THEN left ELSE left - 1
      /\ caller' = IF isHu \/ left = 1 THEN "return" ELSE "wait"
      /\ UNCHANGED <<wins, isHu, at, tried, resChan, result>>
  BY DEF CheckResult
<1>2. SearchTypeOK
  BY DEF Searching
<1>3. SearchTypeOK'
  BY <1>1, <1>2 DEF SearchTypeOK
<1>4. Positive'
  BY <1>1 DEF Searching, Positive, WinExists, Wins
<1>5. Lonely'
  <2> SUFFICES ASSUME NEW b \in DOMAIN wins, DOMAIN wins = {b} PROVE Only(b)'
    BY <1>1 DEF Lonely
  <2>1. at[b] = "done" /\ resChan = <<>> /\ result = {} /\ left = 1 /\ isHu = Wins(b)
    BY <1>1 DEF Searching, Lonely, Only
  <2>2. Wins(b)' = Wins(b)
    BY <1>1 DEF Wins
  <2>3. QED
    BY <1>1, <2>1, <2>2 DEF Only
<1>6. Counted'
  <2>1. Unsent' = Unsent
    BY <1>1 DEF Unsent
  <2>2. Len(resChan) \in Nat /\ left \in Int
    BY <1>2 DEF SearchTypeOK
  <2>3. QED
    BY <1>1, <1>2, <2>1, <2>2, UnsentFinite DEF Searching, Counted
<1>7. QED
  BY <1>3, <1>4, <1>5, <1>6 DEF Searching

\* The caller returns what is in isHu.
LEMMA ReturnKeeps ==
  ASSUME Searching, Return
  PROVE  Searching'
<1>1. /\ caller = "return" /\ result' = {isHu} /\ caller' = "done"
      /\ UNCHANGED <<wins, isHu, at, tried, resChan, left>>
  BY DEF Return
<1>2. SearchTypeOK
  BY DEF Searching
<1>3. SearchTypeOK'
  BY <1>1, <1>2 DEF SearchTypeOK
<1>4. Positive'
  BY <1>1 DEF Searching, Positive, WinExists, Wins
<1>5. Lonely'
  <2> SUFFICES ASSUME NEW b \in DOMAIN wins, DOMAIN wins = {b} PROVE Only(b)'
    BY <1>1 DEF Lonely
  <2>1. at[b] = "done" /\ resChan = <<>> /\ isHu = Wins(b)
    BY <1>1 DEF Searching, Lonely, Only
  <2>2. Wins(b)' = Wins(b)
    BY <1>1 DEF Wins
  <2>3. QED
    BY <1>1, <2>1, <2>2 DEF Only
<1>6. Counted'
  <2>1. Unsent' = Unsent
    BY <1>1 DEF Unsent
  <2>2. QED
    BY <1>1, <2>1 DEF Searching, Counted
<1>7. QED
  BY <1>3, <1>4, <1>5, <1>6 DEF Searching

\* The invariant of the search holds in every reachable state.
LEMMA SearchingCorrect == SearchSpec => []Searching
<1>1. Searching /\ [SearchNext]_searchVars => Searching'
  <2>1. CASE UNCHANGED searchVars
    <3>1. UNCHANGED <<wins, isHu, at, tried, resChan, left, caller, result>>
      BY <2>1 DEF searchVars
    <3>2. SearchTypeOK' = SearchTypeOK
      BY <3>1 DEF SearchTypeOK
    <3>3. Positive' = Positive
      BY <3>1 DEF Positive, WinExists, Wins
    <3>4. Lonely' = Lonely
      BY <3>1 DEF Lonely, Only, Wins
    <3>5. Counted' = Counted
      BY <3>1 DEF Counted, Unsent
    <3>6. QED
      BY <3>2, <3>3, <3>4, <3>5 DEF Searching
  <2>2. QED
    BY <2>1, TryKeeps, TestKeeps, SendResultKeeps, ReceiveResultKeeps, CheckResultKeeps,
       ReturnKeeps DEF SearchNext, Branch, Caller
<1>2. QED
  BY <1>1, SearchingInit, PTL DEF SearchSpec

\* However the goroutines of a parallel search write the shared isHu, the answer is
\* justified and nobody waits for ever (mjana.go 388-447, 867-971).
THEOREM SearchSafeCorrect == SearchSpec => []SearchSafe
<1>1. Searching => AnswerIsJustified
  <2> SUFFICES ASSUME Searching, FALSE \in result, WinExists
               PROVE  Cardinality(DOMAIN wins) > 1
    BY DEF AnswerIsJustified, Searching, Positive
  <2>1. SearchTypeOK /\ DOMAIN wins # {}
    BY DEF Searching, SearchTypeOK
  <2>2. PICK b \in DOMAIN wins : Wins(b)
    BY DEF WinExists
  <2>3. DOMAIN wins # {b}
    BY <2>2 DEF Searching, Lonely, Only
  <2>4. PICK c \in DOMAIN wins : c # b
    BY <2>2, <2>3
  <2>5. Cardinality({b, c}) = 2 /\ IsFiniteSet({b, c})
    <3>1. IsFiniteSet({b}) /\ Cardinality({b}) = 1 /\ c \notin {b} /\ {b} \union {c} = {b, c}
      BY <2>4, FS_Singleton
    <3>2. QED
      BY <3>1, FS_AddElement
  <2>6. Cardinality({b, c}) <= Cardinality(DOMAIN wins)
    BY <2>1, <2>2, <2>4, UnsentFinite, FS_Subset
  <2>7. QED
    BY <2>1, <2>5, <2>6, UnsentFinite
<1>2. Searching => NobodyWaitsInVain
  <2> SUFFICES ASSUME Searching PROVE NobodyWaitsInVain
    OBVIOUS
  <2>1. /\ IsFiniteSet(Unsent) /\ Cardinality(Unsent) \in Nat
        /\ Cardinality(DOMAIN wins) \in 1 .. Capacity /\ Len(resChan) \in Nat
        /\ resChan \in Seq(BOOLEAN)
    BY UnsentFinite DEF Searching, SearchTypeOK
  <2>2. ASSUME NEW b \in DOMAIN wins, at[b] = "send" PROVE Len(resChan) < Capacity
    <3>1. b \in Unsent
      BY <2>2 DEF Unsent
    <3>2. Cardinality(Unsent) # 0
      BY <2>1, <3>1, FS_EmptySet
    <3>3. QED
      BY <2>1, <3>2 DEF Searching, Counted, Capacity
  <2>3. ASSUME caller = "wait", resChan = <<>> PROVE \E b \in DOMAIN wins : at[b] # "done"
    <3>1. Cardinality(Unsent) > 0
      BY <2>1, <2>3 DEF Searching, Counted
    <3>2. Unsent # {}
      BY <3>1, FS_EmptySet
    <3>3. QED
      BY <3>2 DEF Unsent
  <2>4. QED
    BY <2>2, <2>3 DEF NobodyWaitsInVain
<1>3. QED
  BY <1>1, <1>2, SearchingCorrect, PTL DEF SearchSafe
=============================================================================
