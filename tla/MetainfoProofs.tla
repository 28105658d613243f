--------------------------- MODULE MetainfoProofs ---------------------------
(***************************************************************************)
(* Proofs about Metainfo: for every file and whatever follows it, the      *)
(* decoder and decodeFile() keep MetainfoInv, from which the theorems at   *)
(* the end follow.  A step of the decoder is compared with the span that   *)
(* stands at its place, so that no induction over the tree is needed: the  *)
(* spans of a file are given, and the stack of activations follows them.   *)
(***************************************************************************)
EXTENDS Metainfo, ListFacts

(***************************************************************************)
(* Digits and numbers.                                                     *)
(***************************************************************************)
LEMMA DigitSet == Digit = {"0", "1", "2", "3", "4", "5", "6", "7", "8", "9"}
<1>1. DOMAIN Digits = 1..10
  BY DEF Digits
<1>2. ASSUME NEW d \in Digit PROVE d \in {"0", "1", "2", "3", "4", "5", "6", "7", "8", "9"}
  <2>1. PICK k \in 1..10 : d = Digits[k]
    BY <1>1 DEF Digit, Range
  <2>2. k = 1 \/ k = 2 \/ k = 3 \/ k = 4 \/ k = 5 \/ k = 6 \/ k = 7 \/ k = 8 \/ k = 9 \/ k = 10
    OBVIOUS
  <2> QED BY <2>1, <2>2 DEF Digits
<1>3. ASSUME NEW k \in 1..10 PROVE Digits[k] \in Digit
  BY <1>1 DEF Digit, Range
<1>4. {"0", "1", "2", "3", "4", "5", "6", "7", "8", "9"} \subseteq Digit
  <2>1. /\ Digits[1] = "0" /\ Digits[2] = "1" /\ Digits[3] = "2" /\ Digits[4] = "3" /\ Digits[5] = "4"
        /\ Digits[6] = "5" /\ Digits[7] = "6" /\ Digits[8] = "7" /\ Digits[9] = "8" /\ Digits[10] = "9"
    BY DEF Digits
  <2> QED BY <1>3, <2>1
<1> QED BY <1>2, <1>4

LEMMA NotDigits ==
    \A c \in {"nul", "blank", "-", "+", ":", "i", "l", "d", "e"} : c \notin Digit
BY DigitSet

\* A digit has a value.
LEMMA DigitValue ==
    ASSUME NEW c \in Digit
    PROVE  (CHOOSE d \in 0..9 : Digits[d + 1] = c) \in 0..9
<1>1. DOMAIN Digits = 1..10
  BY DEF Digits
<1>2. PICK k \in 1..10 : c = Digits[k]
  BY <1>1 DEF Digit, Range
<1>3. k - 1 \in 0..9 /\ Digits[(k - 1) + 1] = c
  BY <1>2
<1> QED BY <1>3

\* A function that is defined by recursion on its argument exists.
LEMMA Recursion ==
    ASSUME NEW n \in Nat, NEW d \in [1..n -> Nat]
    PROVE  \E g \in [0..n -> Nat] :
               g = [k \in 0..n |-> IF k = 0 THEN 0 ELSE 10 * g[k - 1] + d[k]]
<1> DEFINE Solves(g, m) == /\ g \in [0..m -> Nat]
                           /\ \A k \in 0..m : g[k] = IF k = 0 THEN 0 ELSE 10 * g[k - 1] + d[k]
           Solved(m) == \E g : Solves(g, m)
           T == {m \in 0..n : ~Solved(m)}
<1>0. T \in SUBSET Nat /\ \A m \in 0..n : m \in T <=> ~Solved(m)
  <2> HIDE DEF Solved
  <2> QED OBVIOUS
<1>1. T = {}
  <2> HIDE DEF T, Solves
  <2> SUFFICES ASSUME T # {} PROVE FALSE
    OBVIOUS
  <2>1. PICK m \in T : \A a \in T : m <= a
    BY <1>0, LeastNumber
  <2>2. m \in 0..n /\ ~ \E g : Solves(g, m)
    BY <1>0, <2>1 DEF T
  <2>3. CASE m = 0
    <3>1. Solves([k \in 0..0 |-> 0], 0)
      BY DEF Solves
    <3> QED BY <2>2, <2>3, <3>1
  <2>4. CASE m # 0
    <3>1. m - 1 \in 0..n /\ m - 1 \notin T
      <4>1. m - 1 \in 0..n /\ ~(m <= m - 1)
        BY <2>2, <2>4
      <4> QED BY <2>1, <4>1
    <3>2. PICK g : Solves(g, m - 1)
      BY <1>0, <3>1
    <3> DEFINE h == [k \in 0..m |-> IF k = m THEN 10 * g[m - 1] + d[m] ELSE g[k]]
    <3>3. g[m - 1] \in Nat /\ d[m] \in Nat
      BY <2>2, <2>4, <3>1, <3>2 DEF Solves
    <3>4. h \in [0..m -> Nat]
      BY <2>2, <3>2, <3>3 DEF Solves
    <3>5. ASSUME NEW k \in 0..m PROVE h[k] = IF k = 0 THEN 0 ELSE 10 * h[k - 1] + d[k]
      <4>1. CASE k = m
        <5>1. h[m] = 10 * g[m - 1] + d[m] /\ h[m - 1] = g[m - 1]
          BY <2>2, <2>4
        <5> QED BY <4>1, <5>1, <2>4
      <4>2. CASE k # m
        <5>1. h[k] = g[k] /\ (k # 0 => h[k - 1] = g[k - 1]) /\ k \in 0..(m - 1)
          BY <2>2, <4>2
        <5> QED BY <5>1, <3>2 DEF Solves
      <4> QED BY <4>1, <4>2
    <3>6. Solves(h, m)
      BY <3>4, <3>5 DEF Solves
    <3> QED BY <2>2, <3>6
  <2> QED BY <2>3, <2>4
<1>2. PICK g : Solves(g, n)
  <2> HIDE DEF T, Solves
  <2> QED BY <1>0, <1>1
<1>3. g = [k \in 0..n |-> IF k = 0 THEN 0 ELSE 10 * g[k - 1] + d[k]]
  BY <1>2
<1> QED BY <1>2, <1>3

\* The digits that strtoll() reads make a number.
LEMMA ValueNat ==
    ASSUME NEW ds \in Seq(Digit)
    PROVE  ValueOf(ds) \in Nat
<1> DEFINE n == Len(ds)
           val(c) == CHOOSE d \in 0..9 : Digits[d + 1] = c
           d == [k \in 1..n |-> val(ds[k])]
           Eq(v) == v = [k \in 0..n |-> IF k = 0 THEN 0 ELSE 10 * v[k - 1] + val(ds[k])]
           w == CHOOSE v : Eq(v)
<1>1. n \in Nat /\ d \in [1..n -> Nat]
  <2>1. \A k \in 1..n : val(ds[k]) \in 0..9
    BY DigitValue
  <2> HIDE DEF val
  <2> QED BY <2>1
<1> HIDE DEF val
<1>2. PICK g \in [0..n -> Nat] : g = [k \in 0..n |-> IF k = 0 THEN 0 ELSE 10 * g[k - 1] + d[k]]
  <2> HIDE DEF n, d
  <2> QED BY <1>1, Recursion
<1>3. Eq(g)
  <2>1. \A k \in 0..n : k # 0 => d[k] = val(ds[k])
    BY <1>1
  <2> QED BY <1>2, <2>1
<1>4. Eq(w)
  <2> HIDE DEF Eq
  <2> QED BY <1>3
<1>5. w[0] = 0 /\ \A k \in 1..n : w[k] = 10 * w[k - 1] + d[k]
  BY <1>1, <1>4
<1> DEFINE T == {k \in 0..n : w[k] \notin Nat}
<1>6. T = {}
  <2> HIDE DEF w, d, n
  <2> SUFFICES ASSUME T # {} PROVE FALSE
    OBVIOUS
  <2>1. T \in SUBSET Nat
    BY <1>1
  <2>2. PICK m \in T : \A a \in T : m <= a
    BY <2>1, LeastNumber
  <2>3. m # 0 /\ m \in 1..n /\ m - 1 \in 0..n /\ m - 1 \notin T
    BY <1>1, <1>5, <2>2
  <2>4. w[m - 1] \in Nat /\ d[m] \in Nat
    BY <1>1, <2>3
  <2> QED BY <1>5, <2>2, <2>3, <2>4
<1>7. w[n] \in Nat
  <2>1. n \in 0..n
    BY <1>1
  <2> HIDE DEF w, n, d
  <2> QED BY <2>1, <1>6
<1>8. ValueOf(ds) = w[n]
  BY DEF ValueOf, val
<1> QED BY <1>7, <1>8

(***************************************************************************)
(* Reading from memory.                                                    *)
(***************************************************************************)
\* Where a run of bytes in S ends.
LEMMA RunEndFacts ==
    ASSUME memory \in Seq(STRING), NEW p \in Nat, NEW S, "nul" \notin S
    PROVE  /\ RunEnd(p, S) \in Nat /\ RunEnd(p, S) >= p
           /\ At(RunEnd(p, S)) \notin S
           /\ \A r \in p..(RunEnd(p, S) - 1) : At(r) \in S
<1>1. Len(memory) \in Nat
  OBVIOUS
<1>2. CASE p > Len(memory)
  <2>1. RunEnd(p, S) = p /\ At(p) = "nul"
    BY <1>1, <1>2 DEF RunEnd, At
  <2> QED BY <2>1
<1>3. CASE ~(p > Len(memory))
  <2> DEFINE Fits(q) == At(q) \notin S /\ \A r \in p..(q - 1) : At(r) \in S
             T == {q \in p..(Len(memory) + 1) : At(q) \notin S}
  <2>1. T \in SUBSET Nat /\ Len(memory) + 1 \in T
    BY <1>1, <1>3 DEF At
  <2>2. PICK m \in T : \A a \in T : m <= a
    <3> HIDE DEF T
    <3> QED BY <2>1, LeastNumber
  <2>3. m \in p..(Len(memory) + 1) /\ Fits(m)
    <3>1. ASSUME NEW r \in p..(m - 1) PROVE At(r) \in S
      <4>1. r \in p..(Len(memory) + 1) /\ ~(m <= r)
        BY <1>1, <2>1
      <4> QED BY <2>2, <4>1
    <3> QED BY <3>1
  <2>4. RunEnd(p, S) = CHOOSE q \in p..(Len(memory) + 1) : Fits(q)
    BY <1>1, <1>3 DEF RunEnd
  <2>5. RunEnd(p, S) \in p..(Len(memory) + 1) /\ Fits(RunEnd(p, S))
    <3> HIDE DEF Fits
    <3> QED BY <2>3, <2>4
  <2> QED BY <1>1, <2>5
<1> QED BY <1>2, <1>3

LEMMA RunEndIs ==
    ASSUME memory \in Seq(STRING), NEW p \in Nat, NEW S, "nul" \notin S,
           NEW q \in Nat, p <= q, At(q) \notin S, \A r \in p..(q - 1) : At(r) \in S
    PROVE  RunEnd(p, S) = q
<1> DEFINE e == RunEnd(p, S)
<1>1. e \in Nat /\ e >= p /\ At(e) \notin S /\ \A r \in p..(e - 1) : At(r) \in S
  BY RunEndFacts
<1> HIDE DEF e
<1>2. ~(e < q) /\ ~(q < e)
  BY <1>1
<1> QED BY <1>1, <1>2 DEF e

\* The sign and the blanks are no digits, and the end of memory is none of them.
LEMMA NumberPlaces ==
    ASSUME memory \in Seq(STRING), NEW p \in Nat
    PROVE  /\ SignAt(p) \in Nat /\ SignAt(p) >= p
           /\ DigitsAt(p) \in Nat /\ DigitsAt(p) >= p
<1>1. SignAt(p) \in Nat /\ SignAt(p) >= p
  BY RunEndFacts DEF SignAt
<1> QED BY <1>1 DEF DigitsAt

LEMMA MemoryDigits ==
    ASSUME memory \in Seq(STRING), NEW a \in Nat, NEW b \in Nat, 1 <= a, a <= b,
           \A r \in a..(b - 1) : At(r) \in Digit
    PROVE  /\ b <= Len(memory) + 1 \/ b = a
           /\ SubSeq(memory, a, b - 1) \in Seq(Digit)
<1>1. Len(memory) \in Nat
  OBVIOUS
<1>2. \A r \in a..(b - 1) : r <= Len(memory) /\ memory[r] \in Digit
  BY NotDigits, <1>1 DEF At
<1>3. b <= Len(memory) + 1 \/ b = a
  <2>1. CASE b - 1 \in a..(b - 1)
    BY <1>1, <1>2, <2>1
  <2> QED BY <2>1
<1>4. SubSeq(memory, a, b - 1) \in Seq(Digit)
  <2>1. CASE b = a
    <3>1. SubSeq(memory, a, b - 1) = << >>
      BY <1>1, <2>1
    <3>2. \A T : << >> \in Seq(T)
      OBVIOUS
    <3> QED BY <3>1, <3>2
  <2>2. CASE b # a
    <3>1. b - 1 <= Len(memory) /\ b - 1 \in Nat
      BY <1>1, <1>3, <2>2
    <3>2. SubSeq(memory, a, b - 1) = [k \in 1..(b - a) |-> memory[a + k - 1]]
      BY <1>1, <3>1
    <3>3. \A k \in 1..(b - a) : memory[a + k - 1] \in Digit
      <4>1. \A k \in 1..(b - a) : a + k - 1 \in a..(b - 1)
        OBVIOUS
      <4> QED BY <1>2, <4>1
    <3>4. [k \in 1..(b - a) |-> memory[a + k - 1]] \in Seq(Digit)
      BY <3>3
    <3> QED BY <3>2, <3>4
  <2> QED BY <2>1, <2>2
<1> QED BY <1>3, <1>4

\* strtoll() gives a number and moves on or stays.
LEMMA NumberFacts ==
    ASSUME memory \in Seq(STRING), NEW p \in Nat, p >= 1
    PROVE  NumberEnd(p) \in Nat /\ NumberEnd(p) >= p /\ Number(p) \in Int
<1> DEFINE d == DigitsAt(p)
           e == RunEnd(d, Digit)
<1>1. d \in Nat /\ d >= p
  BY NumberPlaces
<1>2. e \in Nat /\ e >= d /\ \A r \in d..(e - 1) : At(r) \in Digit
  <2> HIDE DEF d
  <2> QED BY <1>1, NotDigits, RunEndFacts
<1>3. CASE At(d) \notin Digit
  BY <1>3 DEF NumberEnd, Number
<1>4. CASE At(d) \in Digit
  <2>1. NumberEnd(p) = e
    BY <1>4 DEF NumberEnd
  <2>2. ValueOf(SubSeq(memory, d, e - 1)) \in Nat
    <3> HIDE DEF d, e
    <3>1. SubSeq(memory, d, e - 1) \in Seq(Digit)
      BY <1>1, <1>2, MemoryDigits
    <3> QED BY <3>1, ValueNat
  <2>3. \A n \in Int : Clamp(n) \in Int
    BY SizesAssumption DEF Clamp
  <2>4. Number(p) = Clamp((IF At(SignAt(p)) = "-" THEN -1 ELSE 1) * ValueOf(SubSeq(memory, d, e - 1)))
    BY <1>4, <2>1 DEF Number
  <2>5. (IF At(SignAt(p)) = "-" THEN -1 ELSE 1) * ValueOf(SubSeq(memory, d, e - 1)) \in Int
    <3>1. \A v \in Nat : (IF At(SignAt(p)) = "-" THEN -1 ELSE 1) * v \in Int
      OBVIOUS
    <3> HIDE DEF d, e
    <3> QED BY <2>2, <3>1
  <2> QED BY <1>1, <1>2, <2>1, <2>3, <2>4, <2>5
<1> QED BY <1>3, <1>4

\* What it reads where digits stand, after a minus or without.
LEMMA NumberIs ==
    ASSUME memory \in Seq(STRING), NEW p \in Nat, NEW d \in Nat, NEW q \in Nat,
           d = p \/ (d = p + 1 /\ At(p) = "-"),
           d < q, At(q) \notin Digit, \A r \in d..(q - 1) : At(r) \in Digit
    PROVE  /\ NumberEnd(p) = q
           /\ Number(p) = Clamp((IF d = p THEN 1 ELSE -1) * ValueOf(SubSeq(memory, d, q - 1)))
<1>1. At(d) \in Digit
  OBVIOUS
<1>2. SignAt(p) = p
  <2>1. At(p) \notin {"blank"}
    BY <1>1, NotDigits
  <2>2. "nul" \notin {"blank"} /\ \A r \in p..(p - 1) : At(r) \in {"blank"}
    OBVIOUS
  <2>3. RunEnd(p, {"blank"}) = p
    BY <2>1, <2>2, RunEndIs
  <2> QED BY <2>3 DEF SignAt
<1>3. DigitsAt(p) = d /\ (At(p) = "-" <=> d # p)
  <2>1. CASE d = p
    <3>1. At(p) # "-" /\ At(p) # "+"
      BY <1>1, <2>1, NotDigits
    <3> QED BY <1>2, <2>1, <3>1 DEF DigitsAt
  <2>2. CASE d = p + 1 /\ At(p) = "-"
    <3>1. d # p
      BY <2>2
    <3> QED BY <1>2, <2>2, <3>1 DEF DigitsAt
  <2> QED BY <2>1, <2>2
<1>4. RunEnd(d, Digit) = q
  <2>1. "nul" \notin Digit
    BY NotDigits
  <2> QED BY <2>1, RunEndIs
<1>5. NumberEnd(p) = q
  BY <1>1, <1>3, <1>4 DEF NumberEnd
<1> QED BY <1>1, <1>2, <1>3, <1>5 DEF Number

\* A string moves on or stays too.
LEMMA StringFacts ==
    ASSUME memory \in Seq(STRING), NEW p \in Nat, p >= 1, NEW len
    PROVE  StringAt(p, len).next \in Nat /\ StringAt(p, len).next >= p
<1> DEFINE c == NumberEnd(p)
           n == Number(p)
<1>1. c \in Nat /\ c >= p /\ n \in Int
  BY NumberFacts
<1>2. /\ StringAt(p, len).next \in {c, c + n + 1}
      /\ StringAt(p, len).next = c + n + 1 => n >= 0 \/ StringAt(p, len).next = c
  BY DEF StringAt
<1> HIDE DEF c, n
<1> QED BY <1>1, <1>2

(***************************************************************************)
(* Files and their spans.                                                  *)
(***************************************************************************)
\* The file is one of Files, with something behind it.
FileKept ==
    \E f \in Files, t \in Trailers : input = f.bytes /\ spans = f.spans /\ memory = input \o t

LEMMA FileFacts ==
    ASSUME FileKept
    PROVE  /\ input \in Seq(STRING) /\ memory \in Seq(STRING)
           /\ Len(input) \in Nat /\ Len(memory) \in Nat
           /\ Len(input) <= LongMax /\ Len(input) <= Len(memory)
           /\ \A p \in 1..Len(input) : At(p) = input[p] /\ memory[p] = input[p]
<1>1. PICK f \in Files, t \in Trailers : input = f.bytes /\ spans = f.spans /\ memory = input \o t
  BY DEF FileKept
<1>2. input \in Seq(STRING) /\ t \in Seq(STRING) /\ Len(input) <= LongMax
  BY <1>1, FilesAssumption
<1>3. /\ memory \in Seq(STRING) /\ Len(memory) = Len(input) + Len(t)
      /\ \A p \in 1..Len(input) : memory[p] = input[p]
  BY <1>1, <1>2
<1>4. Len(t) \in Nat /\ Len(input) \in Nat
  BY <1>2
<1> QED BY <1>2, <1>3, <1>4 DEF At

\* A stretch of the file is the same stretch of memory.
LEMMA SameStretch ==
    ASSUME FileKept, NEW a \in Nat, NEW b \in Nat, 1 <= a, b <= Len(input)
    PROVE  SubSeq(memory, a, b) = SubSeq(input, a, b)
<1>1. /\ SubSeq(memory, a, b) = [k \in 1..(b - a + 1) |-> memory[a + k - 1]]
      /\ SubSeq(input, a, b) = [k \in 1..(b - a + 1) |-> input[a + k - 1]]
  BY FileFacts
<1>2. \A k \in 1..(b - a + 1) : a + k - 1 \in 1..Len(input)
  BY FileFacts
<1>3. \A k \in 1..(b - a + 1) : memory[a + k - 1] = input[a + k - 1]
  BY <1>2, FileFacts
<1> QED BY <1>1, <1>3

LEMMA SpanFacts ==
    ASSUME FileKept, NEW x \in spans
    PROVE  \E f \in Files :
              /\ input = f.bytes /\ spans = f.spans
              /\ x.from \in 1..Len(input) /\ x.to \in (x.from + 1)..(Len(input) + 1)
              /\ x.node[1] = "int" => IsInt(f, x)
              /\ x.node[1] = "str" => IsString(f, x)
              /\ x.node[1] \notin {"int", "str"} => IsContainer(f, x)
<1>1. PICK f \in Files, t \in Trailers : input = f.bytes /\ spans = f.spans /\ memory = input \o t
  BY DEF FileKept
<1>2. Parsed(f) /\ x \in f.spans
  BY <1>1, FilesAssumption
<1>3. /\ x.from \in 1..Len(input) /\ x.to \in (x.from + 1)..(Len(input) + 1)
      /\ CASE x.node[1] = "int" -> IsInt(f, x)
           [] x.node[1] = "str" -> IsString(f, x)
           [] OTHER -> IsContainer(f, x)
  BY <1>1, <1>2 DEF Parsed
<1> QED BY <1>1, <1>3

LEMMA SpanBounds ==
    ASSUME FileKept, NEW x \in spans
    PROVE  /\ x.from \in Nat /\ x.to \in Nat /\ 1 <= x.from /\ x.from < x.to
           /\ x.to <= Len(input) + 1
BY SpanFacts, FileFacts

\* The decoder reads an integer where the format has one,
LEMMA IntSpan ==
    ASSUME FileKept, NEW x \in spans, x.node[1] = "int"
    PROVE  /\ At(x.from) = "i" /\ At(x.to - 1) = "e"
           /\ NumberEnd(x.from + 1) = x.to - 1
           /\ x.node = <<"int", Number(x.from + 1)>>
<1>1. PICK f \in Files : input = f.bytes /\ spans = f.spans /\ IsInt(f, x)
  BY SpanFacts
<1>2. x.from \in Nat /\ x.to \in Nat /\ 1 <= x.from /\ x.from < x.to /\ x.to <= Len(input) + 1
  BY SpanBounds
<1> DEFINE d == x.cuts[1]
           v == ValueOf(SubSeq(input, d, x.to - 2))
           n == IF d = x.from + 1 THEN v ELSE -v
<1>3. /\ input[x.from] = "i" /\ input[x.to - 1] = "e"
      /\ d = x.from + 1 \/ (d = x.from + 2 /\ input[x.from + 1] = "-")
      /\ d < x.to - 1 /\ \A p \in d..(x.to - 2) : input[p] \in Digit
      /\ n \in (-LongMax - 1)..LongMax /\ x.node = <<"int", n>>
  BY <1>1 DEF IsInt
<1> HIDE DEF d, v, n
<1>4. d \in Nat /\ x.to - 1 \in Nat /\ x.from + 1 \in Nat /\ 1 <= d
  BY <1>2, <1>3
<1>5. /\ At(x.from) = "i" /\ At(x.to - 1) = "e"
      /\ d = x.from + 1 \/ (d = (x.from + 1) + 1 /\ At(x.from + 1) = "-")
      /\ \A r \in d..((x.to - 1) - 1) : At(r) \in Digit
  <2>1. x.from \in 1..Len(input) /\ x.to - 1 \in 1..Len(input) /\ x.from + 1 \in 1..Len(input)
    <3>1. d >= x.from + 1 /\ d < x.to - 1
      BY <1>2, <1>3
    <3>2. Len(input) \in Nat
      BY FileFacts
    <3> QED BY <1>2, <1>4, <3>1, <3>2
  <2>2. \A r \in d..((x.to - 1) - 1) : r \in d..(x.to - 2) /\ r \in 1..Len(input)
    BY <1>2, <1>4, FileFacts
  <2>3. \A p \in 1..Len(input) : At(p) = input[p]
    BY FileFacts
  <2>4. \A r \in d..((x.to - 1) - 1) : At(r) \in Digit
    BY <1>3, <2>2, <2>3
  <2>5. d = x.from + 1 \/ (d = (x.from + 1) + 1 /\ At(x.from + 1) = "-")
    BY <1>2, <1>3, <1>4, <2>1, <2>3
  <2> QED BY <1>3, <2>1, <2>3, <2>4, <2>5
<1>6. /\ NumberEnd(x.from + 1) = x.to - 1
      /\ Number(x.from + 1) = Clamp((IF d = x.from + 1 THEN 1 ELSE -1) * ValueOf(SubSeq(memory, d, (x.to - 1) - 1)))
  <2>1. At(x.to - 1) \notin Digit
    BY <1>5, NotDigits
  <2>2. memory \in Seq(STRING)
    BY FileFacts
  <2> QED BY <1>3, <1>4, <1>5, <2>1, <2>2, NumberIs
<1>7. SubSeq(memory, d, (x.to - 1) - 1) = SubSeq(input, d, x.to - 2)
  <2>1. x.to - 2 \in Nat /\ x.to - 2 <= Len(input) /\ (x.to - 1) - 1 = x.to - 2
    <3>1. d < x.to - 1
      BY <1>3
    <3>2. Len(input) \in Nat
      BY FileFacts
    <3> QED BY <1>2, <1>4, <3>1, <3>2
  <2> QED BY <1>4, <2>1, SameStretch
<1>8. v \in Nat
  <2> USE DEF v
  <2>1. SubSeq(memory, d, (x.to - 1) - 1) \in Seq(Digit)
    <3>1. d <= x.to - 1 /\ memory \in Seq(STRING)
      BY <1>2, <1>3, <1>4, FileFacts
    <3> QED BY <1>4, <1>5, <3>1, MemoryDigits
  <2> QED BY <1>7, <2>1, ValueNat
<1>9. Clamp((IF d = x.from + 1 THEN 1 ELSE -1) * v) = n
  <2>1. (IF d = x.from + 1 THEN 1 ELSE -1) * v = n
    BY <1>8 DEF n
  <2> QED BY <1>3, <2>1, SizesAssumption DEF Clamp
<1> QED BY <1>3, <1>5, <1>6, <1>7, <1>9 DEF v

\* and a string,
LEMMA StringSpan ==
    ASSUME FileKept, NEW x \in spans, x.node[1] = "str"
    PROVE  /\ At(x.from) \in Digit
           /\ StringAt(x.from, Len(input) + 1 - x.from) = [node |-> x.node, next |-> x.to]
<1>1. PICK f \in Files : input = f.bytes /\ spans = f.spans /\ IsString(f, x)
  BY SpanFacts
<1>2. x.from \in Nat /\ x.to \in Nat /\ 1 <= x.from /\ x.from < x.to /\ x.to <= Len(input) + 1
  BY SpanBounds
<1> DEFINE c == x.cuts[1]
<1>3. /\ c \in (x.from + 1)..(x.to - 1) /\ input[c] = ":"
      /\ \A p \in x.from..(c - 1) : input[p] \in Digit
      /\ ValueOf(SubSeq(input, x.from, c - 1)) = x.to - 1 - c
      /\ x.node = <<"str", SubSeq(input, c + 1, x.to - 1)>>
  BY <1>1 DEF IsString
<1> HIDE DEF c
<1>4. c \in Nat /\ x.from < c /\ c <= x.to - 1 /\ c <= Len(input)
  BY <1>2, <1>3, FileFacts
<1>5. At(c) = ":" /\ \A p \in x.from..(c - 1) : At(p) \in Digit
  <2>1. c \in 1..Len(input) /\ \A p \in x.from..(c - 1) : p \in 1..Len(input)
    BY <1>2, <1>4, FileFacts
  <2> QED BY <1>3, <2>1, FileFacts
<1>6. /\ NumberEnd(x.from) = c
      /\ Number(x.from) = Clamp((IF x.from = x.from THEN 1 ELSE -1) * ValueOf(SubSeq(memory, x.from, c - 1)))
  <2>1. At(c) \notin Digit /\ memory \in Seq(STRING)
    BY <1>5, NotDigits, FileFacts
  <2> QED BY <1>2, <1>4, <1>5, <2>1, NumberIs
<1>7. SubSeq(memory, x.from, c - 1) = SubSeq(input, x.from, c - 1)
  <2>1. c - 1 \in Nat /\ c - 1 <= Len(input)
    BY <1>2, <1>4, FileFacts
  <2> QED BY <1>2, <2>1, SameStretch
<1>8. Number(x.from) = x.to - 1 - c
  <2>1. x.to - 1 - c \in Nat /\ x.to - 1 - c <= LongMax
    BY <1>2, <1>4, FileFacts, SizesAssumption
  <2>2. Number(x.from) = Clamp(1 * (x.to - 1 - c))
    BY <1>3, <1>6, <1>7
  <2> QED BY <2>1, <2>2, SizesAssumption DEF Clamp
<1>9. SubSeq(memory, c + 1, c + (x.to - 1 - c)) = SubSeq(input, c + 1, x.to - 1)
  <2>1. x.to - 1 \in Nat /\ x.to - 1 <= Len(input) /\ c + 1 \in Nat /\ 1 <= c + 1 /\ c + (x.to - 1 - c) = x.to - 1
    BY <1>2, <1>4, FileFacts
  <2> QED BY <2>1, SameStretch
<1>10. /\ x.to - 1 - c >= 0
       /\ x.to - 1 - c <= (Len(input) + 1 - x.from) - (c - x.from) - 1
       /\ c + (x.to - 1 - c) + 1 = x.to
  BY <1>2, <1>4, FileFacts
<1>11. StringAt(x.from, Len(input) + 1 - x.from) =
          [node |-> <<"str", SubSeq(memory, c + 1, c + (x.to - 1 - c))>>, next |-> c + (x.to - 1 - c) + 1]
  BY <1>5, <1>6, <1>8, <1>10 DEF StringAt
<1>12. At(x.from) \in Digit
  BY <1>2, <1>4, <1>5
<1> QED BY <1>3, <1>9, <1>10, <1>11, <1>12

\* and sees by the first byte what comes.
LEMMA ContainerSpan ==
    ASSUME FileKept, NEW x \in spans, x.node[1] \notin {"int", "str"}
    PROVE  /\ x.node[1] \in {"list", "dict"} /\ x.node = <<x.node[1], x.node[2]>>
           /\ IsSeq(x.node[2])
           /\ At(x.from) = IF x.node[1] = "dict" THEN "d" ELSE "l"
           /\ At(x.to - 1) = "e"
           /\ EntryAt(x, 1) = x.from + 1 /\ EntryAt(x, Len(x.node[2]) + 1) = x.to - 1
           /\ \A n \in 1..Len(x.node[2]) :
                 /\ \E y \in spans : IsItem(y, x, n)
                 /\ x.node[1] = "dict" => \E y \in spans : IsKey(y, x, n)
                 /\ x.node[1] = "dict" => x.node[2][n] = <<x.node[2][n][1], x.node[2][n][2]>>
<1>1. PICK f \in Files : input = f.bytes /\ spans = f.spans /\ IsContainer(f, x)
  BY SpanFacts
<1>2. x.from \in Nat /\ x.to \in Nat /\ 1 <= x.from /\ x.from < x.to /\ x.to <= Len(input) + 1
  BY SpanBounds
<1>3. x.from \in 1..Len(input) /\ x.to - 1 \in 1..Len(input)
  BY <1>2, FileFacts
<1>4. x.node = <<IF x.node[1] = "dict" THEN "dict" ELSE "list", x.node[2]>> /\ IsSeq(x.node[2])
  BY <1>1 DEF IsContainer
<1>5. x.node[1] \in {"list", "dict"}
  BY <1>4
<1>6. DOMAIN x.node[2] = 1..Len(x.node[2])
  BY <1>4 DEF IsSeq
<1> QED BY <1>1, <1>3, <1>4, <1>5, <1>6, FileFacts DEF IsContainer

LEMMA SpanStart ==
    ASSUME FileKept, NEW x \in spans
    PROVE  /\ At(x.from) \in {"l", "d", "i"} \cup Digit /\ At(x.from) # "e"
           /\ x.node # Null
           /\ x.node[1] \in {"int", "str", "list", "dict"}
           /\ At(x.from) = "i" <=> x.node[1] = "int"
           /\ At(x.from) \in Digit <=> x.node[1] = "str"
           /\ At(x.from) = "l" <=> x.node[1] = "list"
           /\ At(x.from) = "d" <=> x.node[1] = "dict"
<1>1. CASE x.node[1] = "int"
  BY <1>1, IntSpan, NotDigits DEF Null
<1>2. CASE x.node[1] = "str"
  <2>1. At(x.from) \in Digit
    BY <1>2, StringSpan
  <2>2. At(x.from) # "i" /\ At(x.from) # "l" /\ At(x.from) # "d" /\ At(x.from) # "e"
    BY <2>1, NotDigits
  <2>3. x.node # Null
    BY <1>2 DEF Null
  <2> QED BY <1>2, <2>1, <2>2, <2>3
<1>3. CASE x.node[1] \notin {"int", "str"}
  <2>1. At(x.from) = "d" \/ At(x.from) = "l"
    BY <1>3, ContainerSpan
  <2>2. At(x.from) \notin Digit
    BY <2>1, NotDigits
  <2>3. x.node[1] \in {"list", "dict"} /\ At(x.from) = IF x.node[1] = "dict" THEN "d" ELSE "l"
    BY <1>3, ContainerSpan
  <2> QED BY <2>1, <2>2, <2>3 DEF Null
<1> QED BY <1>1, <1>2, <1>3

(***************************************************************************)
(* Sequences of whatever elements.                                         *)
(***************************************************************************)
LEMMA SeqFacts ==
    ASSUME NEW s, IsSeq(s)
    PROVE  Len(s) \in Nat /\ DOMAIN s = 1..Len(s) /\ (s = << >> <=> Len(s) = 0)
BY DEF IsSeq

LEMMA SeqIn ==
    ASSUME NEW T, NEW s \in Seq(T)
    PROVE  IsSeq(s)
<1>1. \A k \in 1..Len(s) : s[k] \in Range(s)
  BY DEF Range
<1>2. s = [k \in 1..Len(s) |-> s[k]] /\ Len(s) \in Nat
  OBVIOUS
<1>3. [k \in 1..Len(s) |-> s[k]] \in Seq(Range(s))
  BY <1>1, <1>2
<1> QED BY <1>2, <1>3 DEF IsSeq

LEMMA SeqAppend ==
    ASSUME NEW s, IsSeq(s), NEW e
    PROVE  /\ IsSeq(Append(s, e)) /\ Len(Append(s, e)) = Len(s) + 1
           /\ Append(s, e) # << >>
           /\ DOMAIN Append(s, e) = 1..(Len(s) + 1)
           /\ \A k \in 1..Len(s) : Append(s, e)[k] = s[k]
           /\ Append(s, e)[Len(s) + 1] = e
<1> DEFINE T == Range(s) \cup {e}
<1>1. s \in Seq(T) /\ e \in T
  BY DEF IsSeq
<1> HIDE DEF T
<1>2. Append(s, e) \in Seq(T)
  BY <1>1, AppendFacts
<1>3. IsSeq(Append(s, e))
  BY <1>2, SeqIn
<1> QED BY <1>1, <1>3, AppendFacts

LEMMA SeqPrefix ==
    ASSUME NEW s, IsSeq(s), NEW n \in 0..Len(s)
    PROVE  /\ IsSeq(SubSeq(s, 1, n)) /\ Len(SubSeq(s, 1, n)) = n
           /\ DOMAIN SubSeq(s, 1, n) = 1..n
           /\ \A k \in 1..n : SubSeq(s, 1, n)[k] = s[k]
<1>1. s \in Seq(Range(s)) /\ Len(s) \in Nat
  BY DEF IsSeq
<1>2. SubSeq(s, 1, n) = [k \in 1..n |-> s[k]]
  BY <1>1
<1>3. \A k \in 1..n : s[k] \in Range(s)
  BY <1>1
<1>4. SubSeq(s, 1, n) \in Seq(Range(s))
  BY <1>2, <1>3
<1>5. Len(SubSeq(s, 1, n)) = n
  BY <1>1, <1>2
<1> QED BY <1>2, <1>4, <1>5, SeqIn

LEMMA SeqFront ==
    ASSUME NEW s, IsSeq(s), s # << >>
    PROVE  /\ IsSeq(Front(s)) /\ Len(Front(s)) = Len(s) - 1
           /\ DOMAIN Front(s) = 1..(Len(s) - 1)
           /\ \A k \in 1..(Len(s) - 1) : Front(s)[k] = s[k]
<1>1. Len(s) \in Nat /\ Len(s) # 0
  BY SeqFacts
<1>2. Len(s) - 1 \in 0..Len(s) /\ Front(s) = SubSeq(s, 1, Len(s) - 1)
  BY <1>1 DEF Front
<1> QED BY <1>2, SeqPrefix

LEMMA SeqExcept ==
    ASSUME NEW s, IsSeq(s), NEW n \in 1..Len(s), NEW e
    PROVE  /\ IsSeq([s EXCEPT ![n] = e]) /\ Len([s EXCEPT ![n] = e]) = Len(s)
           /\ DOMAIN [s EXCEPT ![n] = e] = 1..Len(s)
           /\ [s EXCEPT ![n] = e][n] = e
           /\ \A k \in 1..Len(s) : k # n => [s EXCEPT ![n] = e][k] = s[k]
<1> DEFINE T == Range(s) \cup {e}
<1>1. s \in Seq(T) /\ e \in T
  BY DEF IsSeq
<1> HIDE DEF T
<1>2. [s EXCEPT ![n] = e] \in Seq(T) /\ Len([s EXCEPT ![n] = e]) = Len(s)
  BY <1>1
<1>3. IsSeq([s EXCEPT ![n] = e])
  BY <1>2, SeqIn
<1> QED BY <1>1, <1>2, <1>3

\* A prefix grows by the next element.
LEMMA PrefixGrows ==
    ASSUME NEW s, IsSeq(s), NEW n \in Nat, n < Len(s)
    PROVE  Append(SubSeq(s, 1, n), s[n + 1]) = SubSeq(s, 1, n + 1)
<1>1. s \in Seq(Range(s)) /\ Len(s) \in Nat
  BY DEF IsSeq
<1>2. SubSeq(s, 1, n) \in Seq(Range(s)) /\ Len(SubSeq(s, 1, n)) = n /\ SubSeq(s, 1, n) = [k \in 1..n |-> s[k]]
  BY <1>1
<1>3. SubSeq(s, 1, n + 1) = [k \in 1..(n + 1) |-> s[k]]
  BY <1>1
<1>4. Append(SubSeq(s, 1, n), s[n + 1]) = [k \in 1..(n + 1) |-> IF k <= n THEN s[k] ELSE s[n + 1]]
  BY <1>2
<1>5. \A k \in 1..(n + 1) : (IF k <= n THEN s[k] ELSE s[n + 1]) = s[k]
  OBVIOUS
<1> QED BY <1>3, <1>4, <1>5

\* The items that a reader of a node sees are the first ones.
LEMMA SeenFacts ==
    ASSUME NEW type, NEW items, IsSeq(items)
    PROVE  \E n \in 0..Len(items) :
              /\ Seen(type, items) = <<type, SubSeq(items, 1, n)>>
              /\ n = Len(items) \/ (IF type = "dict" THEN items[n + 1][2] ELSE items[n + 1]) = Null
<1> DEFINE value(k) == IF type = "dict" THEN items[k][2] ELSE items[k]
           Fits(n) == /\ \A k \in 1..n : value(k) # Null
                      /\ n = Len(items) \/ value(n + 1) = Null
           T == {n \in 0..Len(items) : n = Len(items) \/ value(n + 1) = Null}
<1>1. Len(items) \in Nat
  BY SeqFacts
<1>2. T \in SUBSET Nat /\ Len(items) \in T
  BY <1>1
<1>3. PICK m \in T : \A a \in T : m <= a
  <2> HIDE DEF T
  <2> QED BY <1>2, LeastNumber
<1>4. m \in 0..Len(items) /\ Fits(m)
  <2>1. m \in 0..Len(items) /\ (m = Len(items) \/ value(m + 1) = Null)
    OBVIOUS
  <2> HIDE DEF value
  <2>2. ASSUME NEW k \in 1..m, value(k) = Null PROVE FALSE
    <3>1. k - 1 \in 0..Len(items) /\ (k - 1) + 1 = k /\ ~(m <= k - 1)
      BY <1>1, <2>1
    <3>2. k - 1 \in T
      BY <2>2, <3>1
    <3> QED BY <1>3, <3>1, <3>2
  <2> QED BY <2>1, <2>2
<1> DEFINE w == CHOOSE n \in 0..Len(items) : Fits(n)
<1>5. w \in 0..Len(items) /\ Fits(w)
  <2> HIDE DEF Fits
  <2> QED BY <1>4
<1>6. Seen(type, items) = <<type, SubSeq(items, 1, w)>>
  BY DEF Seen
<1> QED BY <1>5, <1>6

(***************************************************************************)
(* The activations.                                                        *)
(***************************************************************************)
FrameOK(a) ==
    /\ a.type \in {"list", "dict"} /\ IsSeq(a.items)
    /\ a = [type |-> a.type, items |-> a.items, key |-> a.key]
StackOK(s) == IsSeq(s) /\ \A k \in DOMAIN s : FrameOK(s[k])

LEMMA StackAppend ==
    ASSUME NEW s, StackOK(s), NEW a, FrameOK(a)
    PROVE  StackOK(Append(s, a))
<1>1. IsSeq(s) /\ Len(s) \in Nat /\ DOMAIN s = 1..Len(s)
  BY SeqFacts DEF StackOK
<1>2. /\ IsSeq(Append(s, a)) /\ DOMAIN Append(s, a) = 1..(Len(s) + 1)
      /\ \A k \in 1..Len(s) : Append(s, a)[k] = s[k]
      /\ Append(s, a)[Len(s) + 1] = a
  BY <1>1, SeqAppend
<1>3. ASSUME NEW k \in 1..(Len(s) + 1) PROVE FrameOK(Append(s, a)[k])
  <2>1. k \in 1..Len(s) \/ k = Len(s) + 1
    BY <1>1
  <2> QED BY <1>1, <1>2, <2>1 DEF StackOK
<1> QED BY <1>2, <1>3 DEF StackOK

LEMMA StackFront ==
    ASSUME NEW s, StackOK(s), s # << >>
    PROVE  StackOK(Front(s))
<1>1. IsSeq(s) /\ Len(s) \in Nat /\ DOMAIN s = 1..Len(s)
  BY SeqFacts DEF StackOK
<1>2. /\ IsSeq(Front(s)) /\ DOMAIN Front(s) = 1..(Len(s) - 1)
      /\ \A k \in 1..(Len(s) - 1) : Front(s)[k] = s[k]
  BY <1>1, SeqFront
<1>3. ASSUME NEW k \in 1..(Len(s) - 1) PROVE FrameOK(Front(s)[k])
  BY <1>1, <1>2 DEF StackOK
<1> QED BY <1>2, <1>3 DEF StackOK

LEMMA StackExcept ==
    ASSUME NEW s, StackOK(s), NEW n \in 1..Len(s), NEW a, FrameOK(a)
    PROVE  StackOK([s EXCEPT ![n] = a])
<1>1. IsSeq(s) /\ DOMAIN s = 1..Len(s)
  BY SeqFacts DEF StackOK
<1>2. /\ IsSeq([s EXCEPT ![n] = a]) /\ DOMAIN [s EXCEPT ![n] = a] = 1..Len(s)
      /\ [s EXCEPT ![n] = a][n] = a
      /\ \A k \in 1..Len(s) : k # n => [s EXCEPT ![n] = a][k] = s[k]
  BY <1>1, SeqExcept
<1> QED BY <1>1, <1>2 DEF StackOK

\* The innermost activation.
LEMMA TopFacts ==
    ASSUME StackOK(stack), stack # << >>
    PROVE  /\ Len(stack) \in Nat /\ Len(stack) >= 1 /\ Len(stack) \in 1..Len(stack)
           /\ DOMAIN stack = 1..Len(stack)
           /\ FrameOK(Top) /\ IsSeq(Top.items) /\ Len(Top.items) \in Nat
<1>1. IsSeq(stack)
  BY DEF StackOK
<1>2. Len(stack) \in Nat /\ DOMAIN stack = 1..Len(stack) /\ Len(stack) # 0
  BY <1>1, SeqFacts
<1>3. Len(stack) >= 1 /\ Len(stack) \in 1..Len(stack)
  BY <1>2
<1>4. FrameOK(Top) /\ IsSeq(Top.items)
  BY <1>2, <1>3 DEF StackOK, Top, FrameOK
<1>5. Len(Top.items) \in Nat
  BY <1>4, SeqFacts
<1> QED BY <1>2, <1>3, <1>4, <1>5

LEMMA TypeIs ==
    TypeOK <=> /\ pos \in Nat /\ data_len \in Int /\ pos + data_len = Len(input) + 1
               /\ mode \in {"decode", "loop", "return", "file", "info", "end"}
               /\ StackOK(stack) /\ out.state \in {"none", "ok", "undefined"}
BY DEF TypeOK, StackOK, FrameOK

\* The actions on the two ends of an activation, and the one on its key and its items.
LEMMA OpenFrame ==
    ASSUME NEW type \in {"list", "dict"}
    PROVE  /\ FrameOK(Activation(type, Null))
           /\ Activation(type, Null).type = type /\ Activation(type, Null).items = << >>
<1>1. IsSeq(<< >>)
  <2>1. \A T : << >> \in Seq(T)
    OBVIOUS
  <2> QED BY <2>1 DEF IsSeq
<1> QED BY <1>1 DEF FrameOK, Activation

LEMMA TopChange ==
    ASSUME StackOK(stack), stack # << >>, NEW v
    PROVE  /\ [stack EXCEPT ![Len(stack)].key = v] = [stack EXCEPT ![Len(stack)] = [Top EXCEPT !.key = v]]
           /\ [stack EXCEPT ![Len(stack)].items = v] = [stack EXCEPT ![Len(stack)] = [Top EXCEPT !.items = v]]
           /\ FrameOK([Top EXCEPT !.key = v])
           /\ IsSeq(v) => FrameOK([Top EXCEPT !.items = v])
           /\ [Top EXCEPT !.key = v].type = Top.type /\ [Top EXCEPT !.key = v].items = Top.items
           /\ [Top EXCEPT !.key = v].key = v
           /\ [Top EXCEPT !.items = v].type = Top.type /\ [Top EXCEPT !.items = v].items = v
           /\ [Top EXCEPT !.items = v].key = Top.key
<1>1. FrameOK(Top)
  BY TopFacts
<1>2. /\ [stack EXCEPT ![Len(stack)].key = v] = [stack EXCEPT ![Len(stack)] = [Top EXCEPT !.key = v]]
      /\ [stack EXCEPT ![Len(stack)].items = v] = [stack EXCEPT ![Len(stack)] = [Top EXCEPT !.items = v]]
  BY DEF Top
<1> DEFINE t == Top
<1>3. t \in [type : {t.type}, items : {t.items}, key : {t.key}] /\ t.type \in {"list", "dict"}
  BY <1>1 DEF FrameOK
<1> HIDE DEF t
<1>4. /\ [t EXCEPT !.key = v] = [type |-> t.type, items |-> t.items, key |-> v]
      /\ [t EXCEPT !.items = v] = [type |-> t.type, items |-> v, key |-> t.key]
  BY <1>3
<1>5. IsSeq(t.items)
  BY TopFacts DEF t
<1>6. /\ FrameOK([t EXCEPT !.key = v]) /\ (IsSeq(v) => FrameOK([t EXCEPT !.items = v]))
      /\ [t EXCEPT !.key = v].type = t.type /\ [t EXCEPT !.key = v].items = t.items
      /\ [t EXCEPT !.key = v].key = v
      /\ [t EXCEPT !.items = v].type = t.type /\ [t EXCEPT !.items = v].items = v
      /\ [t EXCEPT !.items = v].key = t.key
  BY <1>3, <1>4, <1>5 DEF FrameOK
<1> QED BY <1>2, <1>6 DEF t

(***************************************************************************)
(* Types.                                                                  *)
(***************************************************************************)
Modes == {"decode", "loop", "return", "file", "info", "end"}

\* What TypeOK says of the decoder.
DecoderOK ==
    /\ FileKept /\ pos \in Nat /\ pos >= 1 /\ data_len \in Int
    /\ pos + data_len = Len(input) + 1
    /\ mode \in Modes /\ StackOK(stack)
    /\ mode = "loop" => stack # << >>

LEMMA FileStays ==
    ASSUME FileKept, UNCHANGED file
    PROVE  FileKept' /\ input' = input /\ spans' = spans /\ memory' = memory
BY DEF FileKept, file

LEMMA AdvanceFacts ==
    ASSUME DecoderOK, NEW q \in Nat, q >= 1, UNCHANGED file, Advance(q)
    PROVE  pos' \in Nat /\ pos' >= 1 /\ data_len' \in Int /\ pos' + data_len' = Len(input') + 1
<1>1. Len(input) \in Nat
  BY FileFacts DEF DecoderOK
<1> QED BY <1>1, FileStays DEF DecoderOK, Advance

\* Closing an activation.
LEMMA CloseFacts ==
    ASSUME DecoderOK, stack # << >>, UNCHANGED file, Close
    PROVE  /\ pos' \in Nat /\ pos' >= 1 /\ data_len' \in Int /\ pos' + data_len' = Len(input') + 1
           /\ mode' = "return" /\ StackOK(stack') /\ stack' = Front(stack)
           /\ ret' = Seen(Top.type, Top.items)
<1>1. pos + 1 \in Nat /\ pos + 1 >= 1 /\ Advance(pos + 1)
  BY DEF DecoderOK, Close
<1>2. /\ pos' \in Nat /\ pos' >= 1 /\ data_len' \in Int /\ pos' + data_len' = Len(input') + 1
  BY <1>1, AdvanceFacts
<1>3. StackOK(Front(stack))
  BY StackFront DEF DecoderOK
<1> QED BY <1>2, <1>3 DEF Close, Returns

\* Each action leaves the decoder well formed.
LEMMA DecoderStep ==
    ASSUME DecoderOK, Next
    PROVE  /\ FileKept' /\ pos' \in Nat /\ pos' >= 1 /\ data_len' \in Int
           /\ pos' + data_len' = Len(input') + 1
           /\ mode' \in Modes /\ StackOK(stack')
           /\ mode' = "loop" => stack' # << >>
<1> USE DEF Modes
<1>0. UNCHANGED file
  BY DEF Next, DecodeNothing, DecodeInt, DecodeString, DecodeOpen, NextItem, ItemDone, EndOfItems,
         EndOfEmpty, decodeFile, FileEntry, InfoEntry, StrayWrite, InfoDone, FileDone
<1>1. FileKept' /\ input' = input /\ memory \in Seq(STRING)
  BY <1>0, FileStays, FileFacts DEF DecoderOK
<1>2. CASE DecodeInt
  <2> DEFINE end == NumberEnd(pos + 1)
  <2>1. end \in Nat /\ end >= pos + 1 /\ pos \in Nat
    <3>1. pos + 1 \in Nat /\ pos + 1 >= 1
      BY DEF DecoderOK
    <3> QED BY <1>1, <3>1, NumberFacts DEF DecoderOK
  <2>2. \E q \in {end, end + 1} : Advance(q)
    BY <1>2 DEF DecodeInt
  <2>3. mode' = "return" /\ stack' = stack
    BY <1>2 DEF DecodeInt, Returns
  <2> HIDE DEF end
  <2>4. PICK q \in {end, end + 1} : Advance(q)
    BY <2>2
  <2>5. q \in Nat /\ q >= 1
    BY <2>1
  <2> QED BY <1>0, <1>1, <2>3, <2>4, <2>5, AdvanceFacts DEF DecoderOK
<1>3. CASE DecodeString
  <2> DEFINE q == StringAt(pos, data_len).next
  <2>1. q \in Nat /\ q >= pos
    BY <1>1, StringFacts DEF DecoderOK
  <2>2. Advance(q) /\ mode' = "return" /\ stack' = stack
    BY <1>3 DEF DecodeString, Returns
  <2> HIDE DEF q
  <2>3. q >= 1
    BY <2>1 DEF DecoderOK
  <2> QED BY <1>0, <1>1, <2>1, <2>2, <2>3, AdvanceFacts DEF DecoderOK
<1>4. CASE DecodeOpen
  <2> DEFINE a == Activation(IF At(pos) = "l" THEN "list" ELSE "dict", Null)
  <2>1. FrameOK(a)
    BY OpenFrame
  <2>2. stack' = Append(stack, a) /\ mode' = "loop" /\ Advance(pos + 1)
    BY <1>4 DEF DecodeOpen
  <2> HIDE DEF a
  <2>3. StackOK(stack') /\ stack' # << >>
    <3>1. IsSeq(stack)
      BY DEF DecoderOK, StackOK
    <3>2. StackOK(Append(stack, a))
      BY <2>1, StackAppend DEF DecoderOK
    <3> QED BY <2>2, <3>1, <3>2, SeqAppend
  <2>4. pos + 1 \in Nat /\ pos + 1 >= 1
    BY DEF DecoderOK
  <2> QED BY <1>0, <1>1, <2>2, <2>3, <2>4, AdvanceFacts
<1>5. CASE NextItem
  <2>1. stack # << >> /\ mode' = "decode"
    BY <1>5 DEF DecoderOK, NextItem
  <2>2. CASE Top.type = "dict"
    <3> DEFINE s == StringAt(pos, data_len)
    <3>1. s.next \in Nat /\ s.next >= pos
      BY <1>1, StringFacts DEF DecoderOK
    <3>2. stack' = [stack EXCEPT ![Len(stack)].key = s.node] /\ Advance(s.next)
      BY <1>5, <2>2 DEF NextItem
    <3> HIDE DEF s
    <3>3. s.next >= 1
      BY <3>1 DEF DecoderOK
    <3>4. stack' = [stack EXCEPT ![Len(stack)] = [Top EXCEPT !.key = s.node]] /\ FrameOK([Top EXCEPT !.key = s.node])
      BY <2>1, <3>2, TopChange DEF DecoderOK
    <3>5. StackOK(stack')
      <4>1. Len(stack) \in 1..Len(stack)
        BY <2>1, TopFacts DEF DecoderOK
      <4> QED BY <3>4, <4>1, StackExcept DEF DecoderOK
    <3> QED BY <1>0, <1>1, <2>1, <3>1, <3>2, <3>3, <3>5, AdvanceFacts
  <2>3. CASE Top.type # "dict"
    BY <1>1, <1>5, <2>1, <2>3 DEF NextItem, DecoderOK
  <2> QED BY <2>2, <2>3
<1>6. CASE ItemDone
  <2>1. stack # << >>
    BY <1>6 DEF ItemDone
  <2>2. CASE Close
    BY <1>0, <1>1, <2>1, <2>2, CloseFacts
  <2>3. CASE stack' = [stack EXCEPT ![Len(stack)].items = WithItem] /\ mode' = "loop" /\ UNCHANGED <<pos, data_len, ret>>
    <3>1. IsSeq(WithItem)
      <4>1. IsSeq(Top.items)
        BY <2>1, TopFacts DEF DecoderOK
      <4> QED BY <4>1, SeqAppend DEF WithItem
    <3> DEFINE w == WithItem
    <3>2. stack' = [stack EXCEPT ![Len(stack)].items = w] /\ IsSeq(w)
      BY <2>3, <3>1
    <3> HIDE DEF w
    <3>3. stack' = [stack EXCEPT ![Len(stack)] = [Top EXCEPT !.items = w]] /\ FrameOK([Top EXCEPT !.items = w])
      BY <2>1, <3>2, TopChange DEF DecoderOK
    <3>4. Len(stack) \in 1..Len(stack) /\ IsSeq(stack)
      BY <2>1, TopFacts DEF DecoderOK, StackOK
    <3>5. StackOK(stack')
      BY <3>3, <3>4, StackExcept DEF DecoderOK
    <3>6. stack' # << >>
      <4>1. Len(stack') = Len(stack) /\ IsSeq(stack')
        BY <3>3, <3>4, SeqExcept
      <4> QED BY <3>4, <4>1, SeqFacts
    <3> QED BY <1>1, <2>3, <3>5, <3>6 DEF DecoderOK
  <2> QED BY <1>6, <2>2, <2>3 DEF ItemDone
<1>7. CASE EndOfItems
  <2>1. stack # << >> /\ Close
    BY <1>7 DEF EndOfItems, DecoderOK
  <2> QED BY <1>0, <1>1, <2>1, CloseFacts
<1>8. CASE DecodeNothing
  BY <1>1, <1>8 DEF DecodeNothing, Returns, DecoderOK
<1>9. CASE EndOfEmpty \/ decodeFile \/ FileEntry \/ InfoEntry \/ StrayWrite \/ InfoDone \/ FileDone
  <2>1. UNCHANGED <<pos, data_len, stack>>
    BY <1>9 DEF EndOfEmpty, decodeFile, FileEntry, InfoEntry, StrayWrite, InfoDone, FileDone
  <2>2. mode' \in {"file", "info", "end"}
    BY <1>9 DEF EndOfEmpty, decodeFile, FileEntry, InfoEntry, StrayWrite, InfoDone, FileDone
  <2> QED BY <1>1, <2>1, <2>2 DEF DecoderOK
<1> QED BY <1>2, <1>3, <1>4, <1>5, <1>6, <1>7, <1>8, <1>9 DEF Next

(***************************************************************************)
(* The nodes.                                                              *)
(***************************************************************************)
FrameNodes(a) == a.type = "dict" => \A n \in DOMAIN a.items : AllIntsIn(a.items[n][2])

LEMMA NodesAre ==
    NodesKept <=> AllIntsIn(ret) /\ \A k \in DOMAIN stack : FrameNodes(stack[k])
BY DEF NodesKept, FrameNodes

LEMMA LeafNodes ==
    /\ AllIntsIn(Null)
    /\ \A n \in Int : AllIntsIn(<<"int", n>>)
    /\ \A v : AllIntsIn(<<"str", v>>)
BY DEF AllIntsIn, IntsIn, IntIn, Null

\* A dictionary of entries whose values are known.
LEMMA SeenNodes ==
    ASSUME NEW a, FrameOK(a), FrameNodes(a)
    PROVE  AllIntsIn(Seen(a.type, a.items))
<1>1. IsSeq(a.items) /\ a.type \in {"list", "dict"}
  BY DEF FrameOK
<1>2. PICK n \in 0..Len(a.items) : Seen(a.type, a.items) = <<a.type, SubSeq(a.items, 1, n)>>
  BY <1>1, SeenFacts
<1> DEFINE s == SubSeq(a.items, 1, n)
<1>3. IsSeq(s) /\ DOMAIN s = 1..n /\ \A k \in 1..n : s[k] = a.items[k]
  BY <1>1, SeqPrefix
<1>4. Len(a.items) \in Nat /\ DOMAIN a.items = 1..Len(a.items)
  BY <1>1, SeqFacts
<1>5. Seen(a.type, a.items) = <<a.type, s>>
  BY <1>2
<1> HIDE DEF s
<1>6. CASE a.type = "list"
  BY <1>5, <1>6 DEF AllIntsIn, IntsIn, IntIn
<1>7. CASE a.type = "dict"
  <2>1. ASSUME NEW k \in DOMAIN s PROVE AllIntsIn(s[k][2])
    BY <1>3, <1>4, <1>7 DEF FrameNodes
  <2>2. ASSUME NEW k \in DOMAIN s PROVE IntsIn(s[k][2]) /\ IntIn(s[k][2])
    BY <2>1 DEF AllIntsIn, IntsIn
  <2>3. AllIntsIn(<<"dict", s>>)
    <3> HIDE DEF IntIn
    <3>1. IntIn(<<"dict", s>>)
      BY DEF IntIn
    <3>2. IntsIn(<<"dict", s>>)
      BY <1>3, <2>2, <3>1 DEF IntsIn
    <3> QED BY <2>2, <3>2 DEF AllIntsIn
  <2> QED BY <1>5, <1>7, <2>3
<1> QED BY <1>1, <1>6, <1>7

LEMMA NodesStep ==
    ASSUME DecoderOK, NodesKept, Next
    PROVE  NodesKept'
<1>0. AllIntsIn(ret) /\ \A k \in DOMAIN stack : FrameNodes(stack[k])
  BY NodesAre
<1>1. SUFFICES AllIntsIn(ret') /\ \A k \in DOMAIN stack' : FrameNodes(stack'[k])
  BY DEF NodesKept, FrameNodes
<1>2. IsSeq(stack) /\ DOMAIN stack = 1..Len(stack) /\ Len(stack) \in Nat
  BY SeqFacts DEF DecoderOK, StackOK
<1>3. ASSUME NEW a, stack # << >>, stack' = [stack EXCEPT ![Len(stack)] = a], FrameNodes(a)
      PROVE  \A k \in DOMAIN stack' : FrameNodes(stack'[k])
  <2>1. Len(stack) \in 1..Len(stack)
    BY <1>3, TopFacts DEF DecoderOK
  <2>2. /\ DOMAIN stack' = 1..Len(stack) /\ stack'[Len(stack)] = a
        /\ \A k \in 1..Len(stack) : k # Len(stack) => stack'[k] = stack[k]
    BY <1>2, <1>3, <2>1, SeqExcept
  <2> QED BY <1>0, <1>2, <1>3, <2>2
<1>4. CASE DecodeInt
  <2>1. Number(pos + 1) \in Int
    <3>1. pos + 1 \in Nat /\ pos + 1 >= 1 /\ memory \in Seq(STRING)
      BY FileFacts DEF DecoderOK
    <3> QED BY <3>1, NumberFacts
  <2>2. stack' = stack /\ (ret' = Null \/ ret' = <<"int", Number(pos + 1)>>)
    BY <1>4 DEF DecodeInt, Returns
  <2> QED BY <1>0, <2>1, <2>2, LeafNodes
<1>5. CASE DecodeString
  <2>1. stack' = stack /\ ret' = IF StringAt(pos, data_len).node = Null THEN <<"str", Null>> ELSE StringAt(pos, data_len).node
    BY <1>5 DEF DecodeString, Returns
  <2>2. StringAt(pos, data_len).node = Null \/ \E v : StringAt(pos, data_len).node = <<"str", v>>
    BY DEF StringAt
  <2> QED BY <1>0, <2>1, <2>2, LeafNodes
<1>6. CASE DecodeOpen
  <2> DEFINE a == Activation(IF At(pos) = "l" THEN "list" ELSE "dict", Null)
  <2>1. a.items = << >>
    BY OpenFrame
  <2>2. stack' = Append(stack, a) /\ ret' = ret
    BY <1>6 DEF DecodeOpen
  <2> HIDE DEF a
  <2>3. FrameNodes(a)
    BY <2>1 DEF FrameNodes
  <2>4. /\ DOMAIN Append(stack, a) = 1..(Len(stack) + 1)
        /\ \A k \in 1..Len(stack) : Append(stack, a)[k] = stack[k]
        /\ Append(stack, a)[Len(stack) + 1] = a
    BY <1>2, SeqAppend
  <2>5. ASSUME NEW k \in 1..(Len(stack) + 1) PROVE FrameNodes(stack'[k])
    <3>1. k \in 1..Len(stack) \/ k = Len(stack) + 1
      BY <1>2
    <3> QED BY <1>0, <1>2, <2>2, <2>3, <2>4, <3>1
  <2> QED BY <1>0, <2>2, <2>4, <2>5
<1>7. CASE NextItem
  <2>1. stack # << >> /\ ret' = ret
    BY <1>7 DEF DecoderOK, NextItem
  <2>2. CASE Top.type = "dict"
    <3> DEFINE v == StringAt(pos, data_len).node
    <3>1. stack' = [stack EXCEPT ![Len(stack)].key = v]
      BY <1>7, <2>2 DEF NextItem
    <3> HIDE DEF v
    <3> DEFINE a == [Top EXCEPT !.key = v]
    <3>2. stack' = [stack EXCEPT ![Len(stack)] = a] /\ a.type = Top.type /\ a.items = Top.items
      BY <2>1, <3>1, TopChange DEF DecoderOK
    <3> HIDE DEF a
    <3>3. FrameNodes(Top)
      BY <1>0, <2>1, TopFacts DEF DecoderOK, Top
    <3>4. FrameNodes(a)
      BY <3>2, <3>3 DEF FrameNodes
    <3> QED BY <1>0, <1>3, <2>1, <3>2, <3>4
  <2>3. CASE Top.type # "dict"
    BY <1>0, <1>7, <2>1, <2>3 DEF NextItem
  <2> QED BY <2>2, <2>3
<1>8. ASSUME Close, stack # << >> PROVE AllIntsIn(ret') /\ \A k \in DOMAIN stack' : FrameNodes(stack'[k])
  <2>1. stack' = Front(stack) /\ ret' = Seen(Top.type, Top.items)
    BY <1>8 DEF Close, Returns
  <2>2. FrameNodes(Top) /\ FrameOK(Top)
    BY <1>0, <1>8, TopFacts DEF DecoderOK, Top
  <2>3. AllIntsIn(ret')
    BY <2>1, <2>2, SeenNodes
  <2>4. DOMAIN Front(stack) = 1..(Len(stack) - 1) /\ \A k \in 1..(Len(stack) - 1) : Front(stack)[k] = stack[k]
    BY <1>2, <1>8, SeqFront
  <2>5. \A k \in 1..(Len(stack) - 1) : k \in DOMAIN stack
    BY <1>2
  <2> QED BY <1>0, <2>1, <2>3, <2>4, <2>5
<1>9. CASE ItemDone
  <2>1. stack # << >>
    BY <1>9 DEF ItemDone
  <2>2. CASE Close
    BY <1>8, <2>1, <2>2
  <2>3. CASE stack' = [stack EXCEPT ![Len(stack)].items = WithItem] /\ UNCHANGED ret
    <3> DEFINE w == WithItem
    <3>1. stack' = [stack EXCEPT ![Len(stack)].items = w]
      BY <2>3
    <3>2. IsSeq(Top.items) /\ FrameNodes(Top) /\ FrameOK(Top) /\ Len(Top.items) \in Nat
      BY <1>0, <2>1, TopFacts DEF DecoderOK, Top
    <3>3. Top.type = "dict" => \A n \in DOMAIN w : AllIntsIn(w[n][2])
      <4> SUFFICES ASSUME Top.type = "dict" PROVE \A n \in DOMAIN w : AllIntsIn(w[n][2])
        OBVIOUS
      <4>1. w = Append(Top.items, <<Top.key, ret>>)
        BY DEF WithItem
      <4> HIDE DEF w
      <4>2. /\ DOMAIN w = 1..(Len(Top.items) + 1)
            /\ \A k \in 1..Len(Top.items) : w[k] = Top.items[k]
            /\ w[Len(Top.items) + 1] = <<Top.key, ret>>
        BY <3>2, <4>1, SeqAppend
      <4>3. \A n \in 1..Len(Top.items) : AllIntsIn(Top.items[n][2])
        BY <3>2, SeqFacts DEF FrameNodes
      <4>4. ASSUME NEW n \in 1..(Len(Top.items) + 1) PROVE AllIntsIn(w[n][2])
        <5>1. n \in 1..Len(Top.items) \/ n = Len(Top.items) + 1
          BY <3>2
        <5> QED BY <1>0, <4>2, <4>3, <5>1
      <4> QED BY <4>2, <4>4
    <3> HIDE DEF w
    <3> DEFINE a == [Top EXCEPT !.items = w]
    <3>4. stack' = [stack EXCEPT ![Len(stack)] = a] /\ a.type = Top.type /\ a.items = w
      BY <2>1, <3>1, TopChange DEF DecoderOK
    <3> HIDE DEF a
    <3>5. FrameNodes(a)
      BY <3>3, <3>4 DEF FrameNodes
    <3> QED BY <1>0, <1>3, <2>1, <2>3, <3>4, <3>5
  <2> QED BY <1>9, <2>2, <2>3 DEF ItemDone
<1>10. CASE EndOfItems
  <2>1. stack # << >> /\ Close
    BY <1>10 DEF EndOfItems, DecoderOK
  <2> QED BY <1>8, <2>1
<1>11. CASE DecodeNothing
  <2>1. stack' = stack /\ ret' = Null
    BY <1>11 DEF DecodeNothing, Returns
  <2> QED BY <1>0, <2>1, LeafNodes
<1>12. CASE EndOfEmpty \/ decodeFile \/ FileEntry \/ InfoEntry \/ StrayWrite \/ InfoDone \/ FileDone
  <2>1. UNCHANGED <<stack, ret>>
    BY <1>12 DEF EndOfEmpty, decodeFile, FileEntry, InfoEntry, StrayWrite, InfoDone, FileDone
  <2> QED BY <1>0, <2>1
<1> QED BY <1>4, <1>5, <1>6, <1>7, <1>9, <1>10, <1>11, <1>12 DEF Next

(***************************************************************************)
(* The spans, followed by the activations.  The parts of Reading, with the *)
(* state as parameters, so that two states can be compared.                *)
(***************************************************************************)
Boxes == {x \in spans : x.node[1] \in {"list", "dict"}}

NextIn(s, y, root, path, k) ==
    IF k = 0 THEN y = root ELSE IsItem(y, path[k], Len(s[k].items) + 1)
FollowsIn(s, m, root, path, k) ==
    /\ path[k].node[1] = s[k].type /\ NextIn(s, path[k], root, path, k - 1)
    /\ Len(s[k].items) <= Len(path[k].node[2])
    /\ s[k].items = SubSeq(path[k].node[2], 1, Len(s[k].items))
    /\ k < Len(s) \/ m # "loop" =>
          /\ Len(s[k].items) < Len(path[k].node[2])
          /\ s[k].type = "dict" => s[k].key = path[k].node[2][Len(s[k].items) + 1][1]
ReadingIn(s, m, p, r, root, path) ==
    /\ \A k \in DOMAIN s : FollowsIn(s, m, root, path, k)
    /\ m = "loop" => p = EntryAt(path[Len(s)], Len(s[Len(s)].items) + 1)
    /\ m = "decode" => \E y \in spans : NextIn(s, y, root, path, Len(s)) /\ p = y.from
    /\ m = "return" => \E y \in spans : NextIn(s, y, root, path, Len(s)) /\ p = y.to /\ r = y.node

LEMMA ReadingIs ==
    ASSUME NEW root, NEW path
    PROVE  Reading(root, path) <=> ReadingIn(stack, mode, pos, ret, root, path)
BY DEF Reading, Follows, IsNext, ReadingIn, FollowsIn, NextIn, Top

LEMMA ReadingNext ==
    ASSUME NEW root, NEW path, spans' = spans
    PROVE  Reading(root, path)' <=> ReadingIn(stack', mode', pos', ret', root, path)
BY DEF Reading, Follows, IsNext, ReadingIn, FollowsIn, NextIn, Top

\* An activation that stays as it is goes on following its span.
LEMMA FollowsSame ==
    ASSUME NEW s, NEW t, NEW m, NEW m2, NEW root, NEW path, NEW path2, NEW k \in Nat, k >= 1,
           t[k] = s[k], path2[k] = path[k],
           k > 1 => t[k - 1].items = s[k - 1].items /\ path2[k - 1] = path[k - 1],
           k < Len(t) \/ m2 # "loop" => k < Len(s) \/ m # "loop",
           FollowsIn(s, m, root, path, k)
    PROVE  FollowsIn(t, m2, root, path2, k)
<1>1. NextIn(t, path[k], root, path2, k - 1) <=> NextIn(s, path[k], root, path, k - 1)
  <2>1. CASE k = 1
    BY <2>1 DEF NextIn
  <2>2. CASE k > 1
    BY <2>2 DEF NextIn
  <2> QED BY <2>1, <2>2
<1> QED BY <1>1 DEF FollowsIn

LEMMA WholeSeq ==
    ASSUME NEW s, IsSeq(s)
    PROVE  SubSeq(s, 1, Len(s)) = s /\ SubSeq(s, 1, 0) = << >>
<1>1. s \in Seq(Range(s)) /\ Len(s) \in Nat
  BY DEF IsSeq
<1>2. SubSeq(s, 1, Len(s)) = [k \in 1..Len(s) |-> s[k]] /\ s = [k \in 1..Len(s) |-> s[k]]
  BY <1>1
<1>3. SubSeq(s, 1, 0) = << >>
  BY <1>1
<1> QED BY <1>2, <1>3

\* What stands in a list or dictionary: an item is no NULL, nor is a key, and no entry
\* begins with the closing byte.
LEMMA BoxFacts ==
    ASSUME FileKept, NEW x \in Boxes
    PROVE  /\ x \in spans /\ IsSeq(x.node[2]) /\ Len(x.node[2]) \in Nat
           /\ x.node = <<x.node[1], x.node[2]>> /\ x.node[1] \in {"list", "dict"}
           /\ EntryAt(x, 1) = x.from + 1 /\ EntryAt(x, Len(x.node[2]) + 1) = x.to - 1
           /\ At(x.to - 1) = "e"
<1>1. x \in spans /\ x.node[1] \notin {"int", "str"}
  BY DEF Boxes
<1>2. IsSeq(x.node[2])
  BY <1>1, ContainerSpan
<1> QED BY <1>1, <1>2, ContainerSpan, SeqFacts

LEMMA EntryFacts ==
    ASSUME FileKept, NEW x \in Boxes, NEW n \in Nat, 1 <= n, n <= Len(x.node[2])
    PROVE  /\ \E y \in spans : IsItem(y, x, n)
           /\ x.node[1] = "dict" => /\ \E y \in spans : IsKey(y, x, n)
                                    /\ x.node[2][n] = <<x.node[2][n][1], x.node[2][n][2]>>
                                    /\ x.node[2][n][1] # Null
           /\ Item(x, n) # Null
           /\ At(EntryAt(x, n)) # "e"
<1>1. x \in spans /\ x.node[1] \notin {"int", "str"} /\ x.node[1] \in {"list", "dict"} /\ Len(x.node[2]) \in Nat
  BY BoxFacts DEF Boxes
<1>2. n \in 1..Len(x.node[2])
  BY <1>1
<1>3. PICK y \in spans : IsItem(y, x, n)
  BY <1>1, <1>2, ContainerSpan
<1>4. Item(x, n) # Null /\ At(y.from) # "e" /\ y.from = ItemAt(x, n)
  BY <1>3, SpanStart DEF IsItem
<1>5. CASE x.node[1] = "dict"
  <2>1. PICK z \in spans : IsKey(z, x, n)
    BY <1>1, <1>2, <1>5, ContainerSpan
  <2>2. x.node[2][n] = <<x.node[2][n][1], x.node[2][n][2]>>
    BY <1>1, <1>2, <1>5, ContainerSpan
  <2>3. z.from = EntryAt(x, n) /\ z.node = x.node[2][n][1] /\ z.node # Null /\ At(z.from) # "e"
    BY <2>1, SpanStart DEF IsKey
  <2> QED BY <1>3, <1>4, <2>1, <2>2, <2>3
<1>6. CASE x.node[1] # "dict"
  <2>1. EntryAt(x, n) = ItemAt(x, n)
    BY <1>6 DEF EntryAt, ItemAt
  <2> QED BY <1>3, <1>4, <1>6, <2>1
<1> QED BY <1>5, <1>6

\* Where the spans are followed, each activation reads one.
LEMMA PathFacts ==
    ASSUME DecoderOK, NEW root, NEW path \in [DOMAIN stack -> Boxes],
           ReadingIn(stack, mode, pos, ret, root, path), stack # << >>
    PROVE  /\ Len(stack) \in Nat /\ Len(stack) >= 1 /\ DOMAIN stack = 1..Len(stack)
           /\ path[Len(stack)] \in Boxes /\ path[Len(stack)].node[1] = Top.type
           /\ FollowsIn(stack, mode, root, path, Len(stack))
           /\ Len(Top.items) \in Nat /\ Len(Top.items) <= Len(path[Len(stack)].node[2])
           /\ Top.items = SubSeq(path[Len(stack)].node[2], 1, Len(Top.items))
           /\ \A y : NextIn(stack, y, root, path, Len(stack)) <=>
                         IsItem(y, path[Len(stack)], Len(Top.items) + 1)
<1>1. /\ Len(stack) \in Nat /\ Len(stack) >= 1 /\ Len(stack) \in 1..Len(stack)
      /\ DOMAIN stack = 1..Len(stack) /\ Len(Top.items) \in Nat
  BY TopFacts DEF DecoderOK
<1>2. FollowsIn(stack, mode, root, path, Len(stack))
  BY <1>1 DEF ReadingIn
<1>3. path[Len(stack)] \in Boxes
  BY <1>1
<1>4. Len(stack) # 0
  BY <1>1
<1>5. \A y : NextIn(stack, y, root, path, Len(stack)) <=>
                         IsItem(y, path[Len(stack)], Len(Top.items) + 1)
  BY <1>4 DEF NextIn, Top
<1> QED BY <1>1, <1>2, <1>3, <1>5 DEF FollowsIn, Top

\* A leaf is read to its end,
LEMMA LeafFollowed ==
    ASSUME DecoderOK, NEW root, NEW path \in [DOMAIN stack -> Boxes],
           ReadingIn(stack, mode, pos, ret, root, path),
           DecodeNothing \/ DecodeInt \/ DecodeString
    PROVE  \E path2 \in [DOMAIN stack' -> Boxes] : ReadingIn(stack', mode', pos', ret', root, path2)
<1>1. mode = "decode" /\ mode' = "return" /\ stack' = stack
  BY DEF DecodeNothing, DecodeInt, DecodeString, Returns
<1>2. PICK y \in spans : NextIn(stack, y, root, path, Len(stack)) /\ pos = y.from
  BY <1>1 DEF ReadingIn
<1>3. FileKept /\ data_len = Len(input) + 1 - pos /\ Len(input) \in Nat /\ pos \in Nat
  BY FileFacts DEF DecoderOK
<1>4. y.from < y.to /\ y.to <= Len(input) + 1 /\ y.to \in Nat /\ y.from \in Nat
  BY <1>3, SpanBounds
<1>5. ~DecodeNothing
  <2>1. data_len # 0
    BY <1>2, <1>3, <1>4
  <2>2. At(pos) \in {"l", "d", "i"} \cup Digit
    BY <1>2, <1>3, SpanStart
  <2> QED BY <2>1, <2>2 DEF DecodeNothing
<1>6. pos' = y.to /\ ret' = y.node
  <2>1. CASE DecodeInt
    <3>1. y.node[1] = "int"
      BY <1>2, <1>3, <2>1, SpanStart DEF DecodeInt
    <3>2. At(y.to - 1) = "e" /\ NumberEnd(pos + 1) = y.to - 1 /\ y.node = <<"int", Number(pos + 1)>>
      BY <1>2, <1>3, <3>1, IntSpan
    <3>3. ret' = <<"int", Number(pos + 1)>> /\ pos' = (y.to - 1) + 1
      BY <2>1, <3>2 DEF DecodeInt, Returns, Advance
    <3> QED BY <1>4, <3>2, <3>3
  <2>2. CASE DecodeString
    <3>1. y.node[1] = "str"
      BY <1>2, <1>3, <2>2, SpanStart DEF DecodeString
    <3>2. StringAt(pos, data_len) = [node |-> y.node, next |-> y.to]
      BY <1>2, <1>3, <3>1, StringSpan
    <3>3. y.node # Null
      BY <1>3, SpanStart
    <3>4. LET s == StringAt(pos, data_len)
          IN  ret' = (IF s.node = Null THEN <<"str", Null>> ELSE s.node) /\ pos' = s.next
      BY <2>2 DEF DecodeString, Returns, Advance
    <3> QED BY <3>2, <3>3, <3>4
  <2> QED BY <1>5, <2>1, <2>2
<1>7. \A k \in DOMAIN stack : FollowsIn(stack, "return", root, path, k)
  <2>1. "return" # "loop" /\ "decode" # "loop"
    OBVIOUS
  <2> QED BY <1>1, <2>1 DEF ReadingIn, FollowsIn
<1>8. ReadingIn(stack, "return", y.to, y.node, root, path)
  BY <1>2, <1>7 DEF ReadingIn
<1> QED BY <1>1, <1>6, <1>8

\* a list or dictionary is entered,
LEMMA OpenFollowed ==
    ASSUME DecoderOK, NEW root, NEW path \in [DOMAIN stack -> Boxes],
           ReadingIn(stack, mode, pos, ret, root, path), DecodeOpen
    PROVE  \E path2 \in [DOMAIN stack' -> Boxes] : ReadingIn(stack', mode', pos', ret', root, path2)
<1> DEFINE n == Len(stack)
           type == IF At(pos) = "l" THEN "list" ELSE "dict"
           a == Activation(type, Null)
<1>1. mode = "decode" /\ mode' = "loop" /\ stack' = Append(stack, a) /\ pos' = pos + 1 /\ At(pos) \in {"l", "d"}
  BY DEF DecodeOpen, Advance
<1>2. PICK y \in spans : NextIn(stack, y, root, path, n) /\ pos = y.from
  BY <1>1 DEF ReadingIn
<1>3. FileKept
  BY DEF DecoderOK
<1>4. y.node[1] = type /\ y \in Boxes
  BY <1>1, <1>2, <1>3, SpanStart DEF Boxes
<1>5. a.type = type /\ a.items = << >>
  BY OpenFrame
<1>6. n \in Nat /\ DOMAIN stack = 1..n /\ IsSeq(stack)
  BY SeqFacts DEF DecoderOK, StackOK
<1> HIDE DEF a, type, n
<1>7. /\ DOMAIN stack' = 1..(n + 1) /\ Len(stack') = n + 1
      /\ \A k \in 1..n : stack'[k] = stack[k]
      /\ stack'[n + 1] = a
  BY <1>1, <1>6, SeqAppend DEF n
<1> DEFINE path2 == [k \in 1..(n + 1) |-> IF k = n + 1 THEN y ELSE path[k]]
<1>8. path2 \in [DOMAIN stack' -> Boxes] /\ path2[n + 1] = y /\ \A k \in 1..n : path2[k] = path[k]
  BY <1>4, <1>6, <1>7
<1> HIDE DEF path2
<1>9. ASSUME NEW k \in 1..n PROVE FollowsIn(stack', "loop", root, path2, k)
  <2>1. FollowsIn(stack, "decode", root, path, k)
    BY <1>1, <1>6 DEF ReadingIn
  <2>2. k \in Nat /\ k >= 1 /\ (k > 1 => k - 1 \in 1..n)
    BY <1>6
  <2>3. stack'[k] = stack[k] /\ path2[k] = path[k]
    BY <1>7, <1>8
  <2>4. k > 1 => stack'[k - 1].items = stack[k - 1].items /\ path2[k - 1] = path[k - 1]
    BY <1>7, <1>8, <2>2
  <2>5. "decode" # "loop"
    OBVIOUS
  <2> QED BY <2>1, <2>2, <2>3, <2>4, <2>5, FollowsSame
<1>10. /\ IsSeq(y.node[2]) /\ Len(y.node[2]) \in Nat /\ EntryAt(y, 1) = y.from + 1
  BY <1>3, <1>4, BoxFacts
<1>11. Len(<< >>) = 0
  OBVIOUS
<1>12. FollowsIn(stack', "loop", root, path2, n + 1)
  <2>1. NextIn(stack', y, root, path2, n)
    <3>1. CASE n = 0
      BY <1>2, <3>1 DEF NextIn
    <3>2. CASE n # 0
      <4>1. n \in 1..n
        BY <1>6, <3>2
      <4> QED BY <1>2, <1>7, <1>8, <3>2, <4>1 DEF NextIn
    <3> QED BY <3>1, <3>2
  <2>2. Len(a.items) = 0 /\ a.items = SubSeq(y.node[2], 1, 0)
    BY <1>5, <1>10, <1>11, WholeSeq
  <2>3. (n + 1) - 1 = n /\ ~(n + 1 < Len(stack')) /\ 0 <= Len(y.node[2])
    BY <1>6, <1>7, <1>10
  <2> QED BY <1>4, <1>5, <1>7, <1>8, <2>1, <2>2, <2>3 DEF FollowsIn
<1>13. ASSUME NEW k \in DOMAIN stack' PROVE FollowsIn(stack', "loop", root, path2, k)
  <2>1. k \in 1..n \/ k = n + 1
    BY <1>6, <1>7
  <2> QED BY <1>9, <1>12, <2>1
<1>14. pos' = EntryAt(path2[Len(stack')], Len(stack'[Len(stack')].items) + 1)
  <2>1. 0 + 1 = 1
    OBVIOUS
  <2> QED BY <1>1, <1>2, <1>5, <1>7, <1>8, <1>10, <1>11, <2>1
<1>15. ReadingIn(stack', "loop", pos', ret', root, path2)
  BY <1>13, <1>14 DEF ReadingIn
<1> QED BY <1>1, <1>8, <1>15

\* while the activations below the innermost one wait,
LEMMA BelowFollowed ==
    ASSUME DecoderOK, NEW root, NEW path \in [DOMAIN stack -> Boxes],
           ReadingIn(stack, mode, pos, ret, root, path), stack # << >>,
           NEW t, NEW m2, NEW path2,
           \A k \in 1..(Len(stack) - 1) : t[k] = stack[k] /\ path2[k] = path[k],
           NEW k \in 1..(Len(stack) - 1)
    PROVE  FollowsIn(t, m2, root, path2, k)
<1>1. Len(stack) \in Nat /\ DOMAIN stack = 1..Len(stack)
  BY TopFacts DEF DecoderOK
<1>2. FollowsIn(stack, mode, root, path, k)
  BY <1>1 DEF ReadingIn
<1>3. k \in Nat /\ k >= 1 /\ (k > 1 => k - 1 \in 1..(Len(stack) - 1)) /\ k < Len(stack)
  BY <1>1
<1>4. t[k] = stack[k] /\ path2[k] = path[k]
  OBVIOUS
<1>5. k > 1 => t[k - 1].items = stack[k - 1].items /\ path2[k - 1] = path[k - 1]
  BY <1>3
<1> QED BY <1>2, <1>3, <1>4, <1>5, FollowsSame

\* the key of an entry is read, and its value or the item is next,
LEMMA ItemFollowed ==
    ASSUME DecoderOK, NEW root, NEW path \in [DOMAIN stack -> Boxes],
           ReadingIn(stack, mode, pos, ret, root, path), NextItem
    PROVE  \E path2 \in [DOMAIN stack' -> Boxes] : ReadingIn(stack', mode', pos', ret', root, path2)
<1>1. mode = "loop" /\ mode' = "decode" /\ At(pos) # "e" /\ stack # << >>
  BY DEF NextItem, DecoderOK
<1> DEFINE n == Len(stack)
           x == path[n]
           m == Len(Top.items)
<1>2. /\ n \in Nat /\ n >= 1 /\ DOMAIN stack = 1..n /\ x \in Boxes /\ x.node[1] = Top.type
      /\ FollowsIn(stack, mode, root, path, n)
      /\ m \in Nat /\ m <= Len(x.node[2]) /\ Top.items = SubSeq(x.node[2], 1, m)
  BY <1>1, PathFacts
<1>3. pos = EntryAt(x, m + 1)
  BY <1>1 DEF ReadingIn, Top
<1>4. FileKept /\ data_len = Len(input) + 1 - pos /\ IsSeq(stack)
  BY FileFacts DEF DecoderOK, StackOK
<1> HIDE DEF n, m, x
<1>5. m < Len(x.node[2])
  <2>1. Len(x.node[2]) \in Nat /\ EntryAt(x, Len(x.node[2]) + 1) = x.to - 1 /\ At(x.to - 1) = "e"
    BY <1>2, <1>4, BoxFacts
  <2> QED BY <1>1, <1>2, <1>3, <2>1
<1>6. m + 1 \in Nat /\ 1 <= m + 1 /\ m + 1 <= Len(x.node[2])
  <2>1. Len(x.node[2]) \in Nat
    BY <1>2, <1>4, BoxFacts
  <2> QED BY <1>2, <1>5, <2>1
<1>7. PICK y \in spans : IsItem(y, x, m + 1)
  BY <1>2, <1>4, <1>6, EntryFacts
\* The activation after the step.
<1>8. \E a : /\ stack' = [stack EXCEPT ![n] = a] /\ a.type = Top.type /\ a.items = Top.items
             /\ Top.type = "dict" => a.key = x.node[2][m + 1][1]
             /\ pos' = y.from
  <2>1. CASE Top.type = "dict"
    <3> DEFINE s == StringAt(pos, data_len)
               a == [Top EXCEPT !.key = s.node]
    <3>1. PICK z \in spans : IsKey(z, x, m + 1)
      BY <1>2, <1>4, <1>6, <2>1, EntryFacts
    <3>2. z.from = pos /\ z.to = ItemAt(x, m + 1) /\ z.node[1] = "str" /\ z.node = x.node[2][m + 1][1]
      BY <1>3, <3>1 DEF IsKey
    <3>3. s = [node |-> z.node, next |-> z.to]
      BY <1>4, <3>2, StringSpan
    <3>4. stack' = [stack EXCEPT ![Len(stack)].key = s.node] /\ pos' = s.next
      BY <2>1 DEF NextItem, Advance
    <3> HIDE DEF s
    <3>5. /\ stack' = [stack EXCEPT ![n] = a] /\ a.type = Top.type /\ a.items = Top.items /\ a.key = s.node
      <4>1. StackOK(stack)
        BY DEF DecoderOK
      <4> QED BY <1>1, <3>4, <4>1, TopChange DEF n
    <3>6. s.node = z.node /\ s.next = z.to
      BY <3>3
    <3>7. pos' = y.from
      BY <1>7, <3>2, <3>4, <3>6 DEF IsItem
    <3> QED BY <3>2, <3>5, <3>6, <3>7
  <2>2. CASE Top.type # "dict"
    <3>1. stack' = stack /\ pos' = pos
      BY <2>2 DEF NextItem
    <3>2. stack' = [stack EXCEPT ![n] = Top]
      BY <1>2, <1>4, <3>1 DEF Top, n, IsSeq
    <3>3. pos' = y.from
      BY <1>2, <1>3, <1>7, <2>2, <3>1 DEF IsItem, ItemAt, EntryAt
    <3> QED BY <2>2, <3>2, <3>3
  <2> QED BY <2>1, <2>2
<1>9. PICK a : /\ stack' = [stack EXCEPT ![n] = a] /\ a.type = Top.type /\ a.items = Top.items
               /\ Top.type = "dict" => a.key = x.node[2][m + 1][1]
               /\ pos' = y.from
  BY <1>8
<1>10. /\ DOMAIN stack' = 1..n /\ Len(stack') = n /\ stack'[n] = a
       /\ \A k \in 1..n : k # n => stack'[k] = stack[k]
  <2>1. n \in 1..n
    BY <1>2
  <2> QED BY <1>4, <1>9, <2>1, SeqExcept DEF n
<1>11. \A k \in 1..(n - 1) : stack'[k] = stack[k] /\ path[k] = path[k]
  BY <1>2, <1>10
<1>12. ASSUME NEW k \in 1..(n - 1) PROVE FollowsIn(stack', "decode", root, path, k)
  BY <1>1, <1>11, BelowFollowed DEF n
<1>13. FollowsIn(stack', "decode", root, path, n)
  <2>1. NextIn(stack', x, root, path, n - 1)
    <3>1. NextIn(stack, x, root, path, n - 1)
      BY <1>2 DEF FollowsIn, x
    <3>2. CASE n - 1 = 0
      BY <3>1, <3>2 DEF NextIn
    <3>3. CASE n - 1 # 0
      <4>1. n - 1 \in 1..(n - 1)
        BY <1>2, <3>3
      <4> QED BY <1>11, <3>1, <3>3, <4>1 DEF NextIn
    <3> QED BY <3>2, <3>3
  <2>2. Len(stack'[n].items) = m /\ stack'[n].items = SubSeq(x.node[2], 1, m) /\ stack'[n].type = x.node[1]
    BY <1>2, <1>9, <1>10 DEF m
  <2>3. stack'[n].type = "dict" => stack'[n].key = x.node[2][m + 1][1]
    BY <1>9, <1>10
  <2> QED BY <1>2, <1>5, <2>1, <2>2, <2>3 DEF FollowsIn, x
<1>14. ASSUME NEW k \in DOMAIN stack' PROVE FollowsIn(stack', "decode", root, path, k)
  <2>1. k \in 1..(n - 1) \/ k = n
    BY <1>2, <1>10
  <2> QED BY <1>12, <1>13, <2>1
<1>15. NextIn(stack', y, root, path, Len(stack'))
  <2>1. n # 0 /\ Len(stack'[n].items) = m
    BY <1>2, <1>9, <1>10 DEF m
  <2> QED BY <1>7, <1>10, <2>1 DEF NextIn, x
<1>16. ReadingIn(stack', "decode", pos', ret', root, path)
  BY <1>9, <1>14, <1>15 DEF ReadingIn
<1>17. path \in [DOMAIN stack' -> Boxes]
  BY <1>2, <1>10
<1> QED BY <1>1, <1>16, <1>17

\* comes back and is added: the word that is tested is never NULL,
LEMMA DoneFollowed ==
    ASSUME DecoderOK, NEW root, NEW path \in [DOMAIN stack -> Boxes],
           ReadingIn(stack, mode, pos, ret, root, path), ItemDone
    PROVE  \E path2 \in [DOMAIN stack' -> Boxes] : ReadingIn(stack', mode', pos', ret', root, path2)
<1>1. mode = "return" /\ stack # << >>
  BY DEF ItemDone
<1> DEFINE n == Len(stack)
           x == path[n]
           m == Len(Top.items)
           w == WithItem
           a == [Top EXCEPT !.items = w]
<1>2. /\ n \in Nat /\ n >= 1 /\ DOMAIN stack = 1..n /\ x \in Boxes /\ x.node[1] = Top.type
      /\ FollowsIn(stack, mode, root, path, n)
      /\ m \in Nat /\ Top.items = SubSeq(x.node[2], 1, m)
      /\ \A y : NextIn(stack, y, root, path, n) <=> IsItem(y, x, m + 1)
  BY <1>1, PathFacts
<1>3. m < Len(x.node[2]) /\ (Top.type = "dict" => Top.key = x.node[2][m + 1][1])
  BY <1>1, <1>2 DEF FollowsIn, Top
<1>4. PICK y \in spans : NextIn(stack, y, root, path, n) /\ pos = y.to /\ ret = y.node
  BY <1>1 DEF ReadingIn
<1>5. FileKept /\ IsSeq(stack) /\ StackOK(stack)
  BY DEF DecoderOK, StackOK
<1> HIDE DEF n, m, x, w, a
<1>6. IsItem(y, x, m + 1)
  BY <1>2, <1>4
<1>7. Len(x.node[2]) \in Nat /\ IsSeq(x.node[2]) /\ x.node[1] \in {"list", "dict"}
  BY <1>2, <1>5, BoxFacts
<1>8. w = SubSeq(x.node[2], 1, m + 1)
  <2>1. m + 1 \in Nat /\ 1 <= m + 1 /\ m + 1 <= Len(x.node[2])
    BY <1>2, <1>3, <1>7
  <2>2. (IF Top.type = "dict" THEN <<Top.key, ret>> ELSE ret) = x.node[2][m + 1]
    <3>1. CASE Top.type = "dict"
      <4>1. x.node[2][m + 1] = <<x.node[2][m + 1][1], x.node[2][m + 1][2]>>
        BY <1>2, <1>5, <2>1, <3>1, EntryFacts
      <4>2. ret = x.node[2][m + 1][2]
        BY <1>2, <1>4, <1>6, <3>1 DEF IsItem, Item
      <4> QED BY <1>3, <3>1, <4>1, <4>2
    <3>2. CASE Top.type # "dict"
      BY <1>2, <1>4, <1>6, <3>2 DEF IsItem, Item
    <3> QED BY <3>1, <3>2
  <2>3. w = Append(SubSeq(x.node[2], 1, m), x.node[2][m + 1])
    BY <1>2, <2>2 DEF w, WithItem
  <2> QED BY <1>2, <1>3, <1>7, <2>3, PrefixGrows
<1>9. m + 1 \in 0..Len(x.node[2])
  BY <1>2, <1>3, <1>7
<1>10. IsSeq(w) /\ Len(w) = m + 1 /\ \A k \in 1..(m + 1) : w[k] = x.node[2][k]
  BY <1>7, <1>8, <1>9, SeqPrefix
<1>11. TestedWord # Null
  <2>1. CASE Top.type = "list"
    <3>1. TestedWord = ret
      BY <2>1 DEF TestedWord
    <3> QED BY <1>4, <1>5, <3>1, SpanStart
  <2>2. CASE Top.type = "dict"
    <3> DEFINE k == (m \div 2) + 1
    <3>1. k \in Nat /\ 1 <= k /\ k <= m + 1 /\ (m % 2) + 1 \in {1, 2}
      BY <1>2
    <3>2. TestedWord = w[k][(m % 2) + 1]
      <4>1. Top.type # "list"
        BY <2>2
      <4> QED BY <4>1 DEF TestedWord, w, m
    <3> HIDE DEF k
    <3>3. w[k] = x.node[2][k] /\ k <= Len(x.node[2])
      BY <1>2, <1>3, <1>7, <1>10, <3>1
    <3>4. x.node[2][k][1] # Null /\ Item(x, k) # Null
      BY <1>2, <1>5, <2>2, <3>1, <3>3, EntryFacts
    <3>5. Item(x, k) = x.node[2][k][2]
      BY <1>2, <2>2 DEF Item
    <3> QED BY <3>1, <3>2, <3>3, <3>4, <3>5
  <2> QED BY <1>2, <1>7, <2>1, <2>2
<1>12. stack' = [stack EXCEPT ![Len(stack)].items = w] /\ mode' = "loop" /\ pos' = pos /\ ret' = ret
  BY <1>11 DEF ItemDone, w
<1>13. stack' = [stack EXCEPT ![n] = a] /\ a.type = Top.type /\ a.items = w
  BY <1>1, <1>5, <1>12, TopChange DEF n, a
<1>14. /\ DOMAIN stack' = 1..n /\ Len(stack') = n /\ stack'[n] = a
       /\ \A k \in 1..n : k # n => stack'[k] = stack[k]
  <2>1. n \in 1..n
    BY <1>2
  <2> QED BY <1>5, <1>13, <2>1, SeqExcept DEF n
<1>15. \A k \in 1..(n - 1) : stack'[k] = stack[k] /\ path[k] = path[k]
  BY <1>2, <1>14
<1>16. ASSUME NEW k \in 1..(n - 1) PROVE FollowsIn(stack', "loop", root, path, k)
  BY <1>1, <1>15, BelowFollowed DEF n
<1>17. FollowsIn(stack', "loop", root, path, n)
  <2>1. NextIn(stack', x, root, path, n - 1)
    <3>1. NextIn(stack, x, root, path, n - 1)
      BY <1>2 DEF FollowsIn, x
    <3>2. CASE n - 1 = 0
      BY <3>1, <3>2 DEF NextIn
    <3>3. CASE n - 1 # 0
      <4>1. n - 1 \in 1..(n - 1)
        BY <1>2, <3>3
      <4> QED BY <1>15, <3>1, <3>3, <4>1 DEF NextIn
    <3> QED BY <3>2, <3>3
  <2>2. Len(stack'[n].items) = m + 1 /\ stack'[n].items = SubSeq(x.node[2], 1, m + 1) /\ stack'[n].type = x.node[1]
    BY <1>2, <1>8, <1>10, <1>13, <1>14
  <2>3. ~(n < Len(stack')) /\ m + 1 <= Len(x.node[2])
    BY <1>2, <1>3, <1>7, <1>14
  <2> QED BY <2>1, <2>2, <2>3 DEF FollowsIn, x
<1>18. ASSUME NEW k \in DOMAIN stack' PROVE FollowsIn(stack', "loop", root, path, k)
  <2>1. k \in 1..(n - 1) \/ k = n
    BY <1>2, <1>14
  <2> QED BY <1>16, <1>17, <2>1
<1>19. pos' = EntryAt(path[Len(stack')], Len(stack'[Len(stack')].items) + 1)
  BY <1>4, <1>6, <1>10, <1>12, <1>13, <1>14 DEF IsItem, x
<1>20. ReadingIn(stack', "loop", pos', ret', root, path)
  BY <1>18, <1>19 DEF ReadingIn
<1>21. path \in [DOMAIN stack' -> Boxes]
  BY <1>2, <1>14
<1> QED BY <1>12, <1>20, <1>21

\* and a list or dictionary is left with all its items.
LEMMA EndFollowed ==
    ASSUME DecoderOK, NEW root, NEW path \in [DOMAIN stack -> Boxes],
           ReadingIn(stack, mode, pos, ret, root, path), EndOfItems
    PROVE  \E path2 \in [DOMAIN stack' -> Boxes] : ReadingIn(stack', mode', pos', ret', root, path2)
<1>1. mode = "loop" /\ At(pos) = "e" /\ stack # << >> /\ Close
  BY DEF EndOfItems, DecoderOK
<1> DEFINE n == Len(stack)
           x == path[n]
           m == Len(Top.items)
<1>2. /\ n \in Nat /\ n >= 1 /\ DOMAIN stack = 1..n /\ x \in Boxes /\ x.node[1] = Top.type
      /\ FollowsIn(stack, mode, root, path, n)
      /\ m \in Nat /\ m <= Len(x.node[2]) /\ Top.items = SubSeq(x.node[2], 1, m)
  BY <1>1, PathFacts
<1>3. pos = EntryAt(x, m + 1)
  BY <1>1 DEF ReadingIn, Top
<1>4. FileKept /\ IsSeq(stack)
  BY DEF DecoderOK, StackOK
<1> HIDE DEF n, m, x
<1>5. /\ Len(x.node[2]) \in Nat /\ IsSeq(x.node[2]) /\ x \in spans /\ x.node = <<x.node[1], x.node[2]>>
      /\ EntryAt(x, Len(x.node[2]) + 1) = x.to - 1
  BY <1>2, <1>4, BoxFacts
<1>6. m = Len(x.node[2]) /\ Top.items = x.node[2]
  <2>1. ~(m < Len(x.node[2]))
    <3> SUFFICES ASSUME m < Len(x.node[2]) PROVE FALSE
      OBVIOUS
    <3>1. m + 1 \in Nat /\ 1 <= m + 1 /\ m + 1 <= Len(x.node[2])
      BY <1>2, <1>5
    <3> QED BY <1>1, <1>2, <1>3, <1>4, <3>1, EntryFacts
  <2>2. m = Len(x.node[2])
    BY <1>2, <1>5, <2>1
  <2> QED BY <1>2, <1>5, <2>2, WholeSeq
<1>7. Seen(Top.type, Top.items) = x.node
  <2>1. PICK k \in 0..Len(x.node[2]) :
           /\ Seen(Top.type, x.node[2]) = <<Top.type, SubSeq(x.node[2], 1, k)>>
           /\ k = Len(x.node[2]) \/ (IF Top.type = "dict" THEN x.node[2][k + 1][2] ELSE x.node[2][k + 1]) = Null
    BY <1>5, SeenFacts
  <2>2. k = Len(x.node[2])
    <3> SUFFICES ASSUME k # Len(x.node[2]) PROVE FALSE
      OBVIOUS
    <3>1. k + 1 \in Nat /\ 1 <= k + 1 /\ k + 1 <= Len(x.node[2])
      BY <1>5, <2>1
    <3>2. Item(x, k + 1) # Null
      BY <1>2, <1>4, <3>1, EntryFacts
    <3> QED BY <1>2, <2>1, <3>2 DEF Item
  <2> QED BY <1>2, <1>5, <1>6, <2>1, <2>2, WholeSeq
<1>8. mode' = "return" /\ stack' = Front(stack) /\ ret' = x.node /\ pos' = x.to
  <2>1. x.to \in Nat
    BY <1>4, <1>5, SpanBounds
  <2>2. pos' = (x.to - 1) + 1
    BY <1>1, <1>3, <1>5, <1>6 DEF Close, Advance
  <2> QED BY <1>1, <1>7, <2>1, <2>2 DEF Close, Returns
<1>9. Len(stack') = n - 1 /\ DOMAIN stack' = 1..(n - 1) /\ \A k \in 1..(n - 1) : stack'[k] = stack[k]
  BY <1>1, <1>4, <1>8, SeqFront DEF n
<1> DEFINE path2 == [k \in 1..(n - 1) |-> path[k]]
<1>10. path2 \in [DOMAIN stack' -> Boxes] /\ \A k \in 1..(n - 1) : path2[k] = path[k]
  <2>1. \A k \in 1..(n - 1) : k \in 1..n
    BY <1>2
  <2> QED BY <1>2, <1>9, <2>1
<1> HIDE DEF path2
<1>11. ASSUME NEW k \in 1..(n - 1) PROVE FollowsIn(stack', "return", root, path2, k)
  BY <1>1, <1>9, <1>10, BelowFollowed DEF n
<1>12. NextIn(stack', x, root, path2, Len(stack'))
  <2>1. NextIn(stack, x, root, path, n - 1)
    BY <1>2 DEF FollowsIn, x
  <2>2. CASE n - 1 = 0
    BY <1>9, <2>1, <2>2 DEF NextIn
  <2>3. CASE n - 1 # 0
    <3>1. n - 1 \in 1..(n - 1)
      BY <1>2, <2>3
    <3> QED BY <1>9, <1>10, <2>1, <2>3, <3>1 DEF NextIn
  <2> QED BY <2>2, <2>3
<1>13. ReadingIn(stack', "return", pos', ret', root, path2)
  BY <1>5, <1>8, <1>9, <1>11, <1>12 DEF ReadingIn
<1> QED BY <1>8, <1>10, <1>13

\* So each step of the decoder keeps what it reads with the format.
LEMMA SpansStep ==
    ASSUME DecoderOK, SpansFollowed, Next
    PROVE  SpansFollowed'
<1>1. mode' = "loop" => stack' # << >>
  BY DecoderStep
<1>2. UNCHANGED file
  BY DEF Next, DecodeNothing, DecodeInt, DecodeString, DecodeOpen, NextItem, ItemDone, EndOfItems,
         EndOfEmpty, decodeFile, FileEntry, InfoEntry, StrayWrite, InfoDone, FileDone
<1>3. spans' = spans
  BY <1>2 DEF file
<1>4. ASSUME mode' \in {"decode", "loop", "return"}, NEW root \in spans, root.from = 1
      PROVE  \E path2 \in [DOMAIN stack' -> Boxes] : Reading(root, path2)'
  <2>1. DecodeNothing \/ DecodeInt \/ DecodeString \/ DecodeOpen \/ NextItem \/ ItemDone \/ EndOfItems
    BY <1>4 DEF Next, EndOfEmpty, decodeFile, FileEntry, InfoEntry, StrayWrite, InfoDone, FileDone
  <2>2. mode \in {"decode", "loop", "return"}
    BY <2>1 DEF DecodeNothing, DecodeInt, DecodeString, DecodeOpen, NextItem, ItemDone, EndOfItems
  <2>3. PICK path \in [DOMAIN stack -> Boxes] : Reading(root, path)
    BY <1>4, <2>2 DEF SpansFollowed, Boxes
  <2>4. ReadingIn(stack, mode, pos, ret, root, path)
    BY <2>3, ReadingIs
  <2>5. \E path2 \in [DOMAIN stack' -> Boxes] : ReadingIn(stack', mode', pos', ret', root, path2)
    <3>1. CASE DecodeNothing \/ DecodeInt \/ DecodeString
      BY <2>4, <3>1, LeafFollowed
    <3>2. CASE DecodeOpen
      BY <2>4, <3>2, OpenFollowed
    <3>3. CASE NextItem
      BY <2>4, <3>3, ItemFollowed
    <3>4. CASE ItemDone
      BY <2>4, <3>4, DoneFollowed
    <3>5. CASE EndOfItems
      BY <2>4, <3>5, EndFollowed
    <3> QED BY <2>1, <3>1, <3>2, <3>3, <3>4, <3>5
  <2> QED BY <1>3, <2>5, ReadingNext
<1>5. Boxes' = Boxes
  BY <1>3 DEF Boxes
<1>6. SpansFollowed' <=>
         /\ mode' = "loop" => stack' # << >>
         /\ mode' \in {"decode", "loop", "return"} => \A root \in spans' : root.from = 1 =>
               \E path \in [DOMAIN stack' -> Boxes'] : Reading(root, path)'
  BY DEF SpansFollowed, Boxes
<1> QED BY <1>1, <1>3, <1>4, <1>5, <1>6

(***************************************************************************)
(* The fields of the bt_info_t.                                            *)
(***************************************************************************)
IsInfo(o) ==
    o \in [state : {"none", "ok", "undefined"}, known : SUBSET {"length", "num_pieces", "hashes"},
           announce : {o.announce}, name : {o.name}, length : Int, piece_length : Int,
           num_pieces : Int, hashes : Int]
FieldsIn(o, m, r, a, b) ==
    /\ IsInfo(o)
    /\ m \in {"decode", "loop", "return"} => o.state = "none"
    /\ m \in {"file", "info"} => a \in Nat \ {0} /\ o.state = "ok" /\ r[1] = "dict"
    /\ m = "info" => b \in Nat \ {0} /\ a <= Len(r[2]) /\ Is(r[2][a], Info, "dict")

LEMMA FieldsAre == FieldsKept <=> FieldsIn(out, mode, ret, i, j)
BY DEF FieldsKept, FieldsIn, IsInfo

LEMMA FieldsNext == FieldsKept' <=> FieldsIn(out', mode', ret', i', j')
BY DEF FieldsKept, FieldsIn, IsInfo

\* The numbers are integers.
LEMMA QuotientInt ==
    ASSUME NEW a \in Int, NEW b \in Int, b # 0
    PROVE  Quotient(a, b) \in Int /\ PieceCount(a, b) \in Int
<1>1. Abs(a) \in Nat /\ Abs(b) \in Nat /\ Abs(b) > 0
  BY DEF Abs
<1>2. Abs(a) \div Abs(b) \in Int
  BY <1>1
<1>3. Quotient(a, b) \in Int
  <2> DEFINE q == Abs(a) \div Abs(b)
  <2>1. q \in Int
    BY <1>2
  <2> HIDE DEF q
  <2>2. (IF (a < 0) = (b < 0) THEN 1 ELSE -1) * q \in Int
    <3>1. CASE (a < 0) = (b < 0)
      BY <2>1, <3>1
    <3>2. CASE (a < 0) # (b < 0)
      BY <2>1, <3>2
    <3> QED BY <3>1, <3>2
  <2> QED BY <2>2 DEF Quotient, q
<1> QED BY <1>3 DEF PieceCount

LEMMA ToIntInt ==
    ASSUME NEW n \in Int
    PROVE  ToInt(n) \in Int
BY SizesAssumption DEF ToInt

\* An entry of the info dictionary is one that decodeFile() looks for, another one, or
\* its step is undefined.
LEMMA TakeInfoCases ==
    ASSUME NEW o, NEW e
    PROVE  \/ Is(e, Name, "str") /\ TakeInfo(o, e) = [o EXCEPT !.name = e[2][2]]
           \/ /\ Is(e, Length, "int")
              /\ TakeInfo(o, e) = [o EXCEPT !.length = ToInt(e[2][2]), !.known = @ \cup {"length"}]
           \/ /\ Is(e, PieceLength, "int") /\ "length" \in o.known /\ CanDivide(o.length, ToInt(e[2][2]))
              /\ TakeInfo(o, e) =
                    [o EXCEPT !.piece_length = ToInt(e[2][2]), !.known = @ \cup {"num_pieces"},
                              !.num_pieces = PieceCount(o.length, ToInt(e[2][2]))]
           \/ /\ Is(e, Pieces, "str") /\ "num_pieces" \in o.known
              /\ TakeInfo(o, e) = [o EXCEPT !.hashes = o.num_pieces, !.known = @ \cup {"hashes"}]
           \/ TakeInfo(o, e) = o
           \/ TakeInfo(o, e) = Undefined
<1> DEFINE g1 == Is(e, Name, "str")
           g2 == Is(e, Length, "int")
           g3 == Is(e, PieceLength, "int") /\ "length" \in o.known /\ CanDivide(o.length, ToInt(e[2][2]))
           g4 == Is(e, Pieces, "str") /\ "num_pieces" \in o.known /\ HashSize * o.num_pieces <= Len(e[2][2])
           g5 == Other(e, {Name, Length, PieceLength, Pieces})
           v1 == [o EXCEPT !.name = e[2][2]]
           v2 == [o EXCEPT !.length = ToInt(e[2][2]), !.known = @ \cup {"length"}]
           v3 == [o EXCEPT !.piece_length = ToInt(e[2][2]), !.known = @ \cup {"num_pieces"},
                              !.num_pieces = PieceCount(o.length, ToInt(e[2][2]))]
           v4 == [o EXCEPT !.hashes = o.num_pieces, !.known = @ \cup {"hashes"}]
<1>1. TakeInfo(o, e) = CASE g1 -> v1 [] g2 -> v2 [] g3 -> v3 [] g4 -> v4 [] g5 -> o [] OTHER -> Undefined
  BY DEF TakeInfo
<1>2. g3 => Is(e, PieceLength, "int") /\ "length" \in o.known /\ CanDivide(o.length, ToInt(e[2][2]))
  OBVIOUS
<1>3. g4 => Is(e, Pieces, "str") /\ "num_pieces" \in o.known
  OBVIOUS
<1> HIDE DEF g1, g2, g3, g4, g5, v1, v2, v3, v4
<1>4. \/ g1 /\ TakeInfo(o, e) = v1
      \/ g2 /\ TakeInfo(o, e) = v2
      \/ g3 /\ TakeInfo(o, e) = v3
      \/ g4 /\ TakeInfo(o, e) = v4
      \/ TakeInfo(o, e) = o
      \/ TakeInfo(o, e) = Undefined
  BY <1>1
<1> QED BY <1>2, <1>3, <1>4 DEF g1, g2, v1, v2, v3, v4

LEMMA UndefinedInfo == IsInfo(Undefined) /\ IsInfo(NoInfo) /\ IsInfo([NoInfo EXCEPT !.state = "none"])
                        /\ Undefined.state = "undefined" /\ Undefined.known = {}
                        /\ NoInfo.state = "ok" /\ NoInfo.known = {}
                        /\ [NoInfo EXCEPT !.state = "none"].state = "none"
                        /\ [NoInfo EXCEPT !.state = "none"].known = {}
BY DEF IsInfo, Undefined, NoInfo

\* An entry of an info dictionary is taken.
LEMMA EntryTaken ==
    ASSUME NEW o, IsInfo(o), o.state = "ok", NEW e, IntIn(e[2])
    PROVE  IsInfo(TakeInfo(o, e)) /\ TakeInfo(o, e).state \in {"ok", "undefined"}
<1> DEFINE o2 == TakeInfo(o, e)
           n == ToInt(e[2][2])
<1>0. SUFFICES IsInfo(o2) /\ o2.state \in {"ok", "undefined"}
  OBVIOUS
<1>1. e[2][1] = "int" => n \in Int
  BY ToIntInt DEF IntIn
<1>2. /\ o.length \in Int /\ o.piece_length \in Int /\ o.num_pieces \in Int /\ o.hashes \in Int
      /\ o.known \in SUBSET {"length", "num_pieces", "hashes"}
  BY DEF IsInfo
<1>3. \/ o2 = [o EXCEPT !.name = e[2][2]]
      \/ Is(e, Length, "int") /\ o2 = [o EXCEPT !.length = n, !.known = @ \cup {"length"}]
      \/ /\ Is(e, PieceLength, "int") /\ CanDivide(o.length, n)
         /\ o2 = [o EXCEPT !.piece_length = n, !.known = @ \cup {"num_pieces"}, !.num_pieces = PieceCount(o.length, n)]
      \/ o2 = [o EXCEPT !.hashes = o.num_pieces, !.known = @ \cup {"hashes"}]
      \/ o2 = o
      \/ o2 = Undefined
  BY TakeInfoCases
<1> HIDE DEF o2
<1>4. CASE o2 = o
  BY <1>4
<1>5. CASE o2 = Undefined
  BY <1>5, UndefinedInfo
<1>6. CASE o2 = [o EXCEPT !.name = e[2][2]]
  <2> DEFINE v == e[2][2]
  <2>1. o2 = [o EXCEPT !.name = v]
    BY <1>6
  <2> HIDE DEF v
  <2> QED BY <2>1 DEF IsInfo
<1>7. CASE Is(e, Length, "int") /\ o2 = [o EXCEPT !.length = n, !.known = @ \cup {"length"}]
  <2>1. n \in Int
    BY <1>1, <1>7 DEF Is
  <2> HIDE DEF n
  <2> QED BY <1>7, <2>1 DEF IsInfo
<1>8. CASE /\ Is(e, PieceLength, "int") /\ CanDivide(o.length, n)
           /\ o2 = [o EXCEPT !.piece_length = n, !.known = @ \cup {"num_pieces"}, !.num_pieces = PieceCount(o.length, n)]
  <2>1. n \in Int /\ n # 0
    BY <1>1, <1>8 DEF Is, CanDivide
  <2> HIDE DEF n
  <2> DEFINE q == PieceCount(o.length, n)
  <2>2. q \in Int
    BY <1>2, <2>1, QuotientInt
  <2>3. o2 = [o EXCEPT !.piece_length = n, !.known = @ \cup {"num_pieces"}, !.num_pieces = q]
    BY <1>8
  <2> HIDE DEF q
  <2> QED BY <2>1, <2>2, <2>3 DEF IsInfo
<1>9. CASE o2 = [o EXCEPT !.hashes = o.num_pieces, !.known = @ \cup {"hashes"}]
  BY <1>2, <1>9 DEF IsInfo
<1> QED BY <1>3, <1>4, <1>5, <1>6, <1>7, <1>8, <1>9

\* A dictionary that is walked, and the info dictionary in it.
LEMMA WalkedFacts ==
    ASSUME AllIntsIn(ret), ret[1] = "dict"
    PROVE  /\ IsSeq(ret[2]) /\ Len(ret[2]) \in Nat /\ DOMAIN ret[2] = 1..Len(ret[2])
           /\ \A a \in DOMAIN ret[2] : Is(ret[2][a], Info, "dict") =>
                 /\ IsSeq(ret[2][a][2][2]) /\ Len(ret[2][a][2][2]) \in Nat
                 /\ \A b \in 1..Len(ret[2][a][2][2]) : IntIn(ret[2][a][2][2][b][2])
<1>1. IsSeq(ret[2]) /\ \A a \in DOMAIN ret[2] : IntsIn(ret[2][a][2])
  BY DEF AllIntsIn, IntsIn
<1>2. ASSUME NEW a \in DOMAIN ret[2], Is(ret[2][a], Info, "dict")
      PROVE  /\ IsSeq(ret[2][a][2][2]) /\ Len(ret[2][a][2][2]) \in Nat
             /\ \A b \in 1..Len(ret[2][a][2][2]) : IntIn(ret[2][a][2][2][b][2])
  <2>1. ret[2][a][2][1] = "dict"
    BY <1>2 DEF Is
  <2>2. IsSeq(ret[2][a][2][2]) /\ \A b \in DOMAIN ret[2][a][2][2] : IntIn(ret[2][a][2][2][b][2])
    BY <1>1, <2>1 DEF IntsIn
  <2> QED BY <2>2, SeqFacts
<1> QED BY <1>1, <1>2, SeqFacts

LEMMA FieldsStep ==
    ASSUME NodesKept, FieldsKept, Next
    PROVE  FieldsKept'
<1>0. FieldsIn(out, mode, ret, i, j) /\ AllIntsIn(ret)
  BY FieldsAre, NodesAre
<1>00. SUFFICES FieldsIn(out', mode', ret', i', j')
  BY FieldsNext
<1>1. ASSUME mode \in {"decode", "loop", "return"}, mode' \in {"decode", "loop", "return"}, out' = out
      PROVE  FieldsIn(out', mode', ret', i', j')
  <2>1. out.state = "none" /\ IsInfo(out)
    BY <1>0, <1>1 DEF FieldsIn
  <2> QED BY <1>1, <2>1 DEF FieldsIn
<1>2. CASE DecodeNothing \/ DecodeInt \/ DecodeString \/ DecodeOpen \/ NextItem \/ EndOfItems \/ ItemDone
  <2>1. mode \in {"decode", "loop", "return"} /\ out' = out
    BY <1>2 DEF DecodeNothing, DecodeInt, DecodeString, DecodeOpen, NextItem, EndOfItems, ItemDone
  <2>2. mode' \in {"decode", "loop", "return"}
    BY <1>2 DEF DecodeNothing, DecodeInt, DecodeString, DecodeOpen, NextItem, EndOfItems, ItemDone, Close, Returns
  <2> QED BY <1>1, <2>1, <2>2
<1>3. ASSUME mode' = "end", out' = Undefined PROVE FieldsIn(out', mode', ret', i', j')
  <2>1. out'.state = "undefined" /\ IsInfo(out') /\ out'.known = {}
    BY <1>3, UndefinedInfo
  <2> QED BY <1>3, <2>1 DEF FieldsIn
<1>4. CASE EndOfEmpty
  <2>1. mode' = "end" /\ out' = Undefined
    BY <1>4 DEF EndOfEmpty
  <2> QED BY <1>3, <2>1
<1>5. CASE decodeFile
  <2>1. CASE ret[1] = "dict"
    <3>1. mode' = "file" /\ out' = NoInfo /\ i' = 1 /\ ret' = ret
      BY <1>5, <2>1 DEF decodeFile
    <3>2. IsInfo(out') /\ out'.state = "ok" /\ out'.known = {}
      BY <3>1, UndefinedInfo
    <3> QED BY <2>1, <3>1, <3>2 DEF FieldsIn
  <2>2. CASE ret[1] # "dict"
    <3>1. mode' = "end" /\ out' = Undefined
      BY <1>5, <2>2 DEF decodeFile
    <3> QED BY <1>3, <3>1
  <2> QED BY <2>1, <2>2
<1>6. CASE FileEntry
  <2>1. mode = "file" /\ i <= Len(ret[2]) /\ ret' = ret
    BY <1>6 DEF FileEntry
  <2>2. i \in Nat \ {0} /\ i + 1 \in Nat \ {0} /\ out.state = "ok" /\ ret[1] = "dict" /\ IsInfo(out)
    BY <1>0, <2>1 DEF FieldsIn
  <2>3. CASE out' = [out EXCEPT !.announce = ret[2][i][2][2]] /\ i' = i + 1 /\ UNCHANGED <<mode, j>>
    <3> DEFINE v == ret[2][i][2][2]
    <3>1. out' = [out EXCEPT !.announce = v]
      BY <2>3
    <3> HIDE DEF v
    <3>2. IsInfo(out') /\ out'.state = out.state
      BY <2>2, <3>1 DEF IsInfo
    <3> QED BY <2>1, <2>2, <2>3, <3>2 DEF FieldsIn
  <2>4. CASE Is(ret[2][i], Info, "dict") /\ mode' = "info" /\ j' = 1 /\ UNCHANGED <<i, out>>
    BY <2>1, <2>2, <2>4 DEF FieldsIn
  <2>5. CASE i' = i + 1 /\ UNCHANGED <<mode, j, out>>
    BY <2>1, <2>2, <2>5 DEF FieldsIn
  <2>6. CASE mode' = "end" /\ out' = Undefined
    BY <1>3, <2>6
  <2> QED BY <1>6, <2>3, <2>4, <2>5, <2>6 DEF FileEntry
<1>7. CASE InfoEntry \/ InfoDone
  <2>1. mode = "info" /\ ret' = ret
    BY <1>7 DEF InfoEntry, InfoDone
  <2>2. /\ i \in Nat \ {0} /\ j \in Nat \ {0} /\ out.state = "ok" /\ ret[1] = "dict" /\ IsInfo(out)
        /\ i <= Len(ret[2]) /\ Is(ret[2][i], Info, "dict")
    BY <1>0, <2>1 DEF FieldsIn
  <2> DEFINE entries == ret[2][i][2][2]
  <2>3. CASE InfoEntry
    <3>1. /\ j <= Len(entries) /\ out' = TakeInfo(out, entries[j]) /\ j' = j + 1 /\ i' = i
          /\ mode' = IF out'.state = "ok" THEN "info" ELSE "end"
      BY <2>3 DEF InfoEntry
    <3>2. i \in DOMAIN ret[2]
      <4>1. Len(ret[2]) \in Nat /\ DOMAIN ret[2] = 1..Len(ret[2])
        BY <1>0, <2>2, WalkedFacts
      <4> QED BY <2>2, <4>1
    <3>3. Len(entries) \in Nat /\ \A b \in 1..Len(entries) : IntIn(entries[b][2])
      BY <1>0, <2>2, <3>2, WalkedFacts
    <3> HIDE DEF entries
    <3>4. j \in 1..Len(entries) /\ j' \in Nat \ {0}
      BY <2>2, <3>1, <3>3
    <3>5. IsInfo(out') /\ out'.state \in {"ok", "undefined"}
      BY <2>2, <3>1, <3>3, <3>4, EntryTaken
    <3>6. mode' \in {"info", "end"} /\ (mode' = "info" => out'.state = "ok")
      BY <3>1
    <3> QED BY <2>1, <2>2, <3>1, <3>4, <3>5, <3>6 DEF FieldsIn
  <2>4. CASE InfoDone
    <3>1. mode' = "file" /\ i' = i + 1 /\ out' = out
      BY <2>4 DEF InfoDone
    <3>2. i' \in Nat \ {0}
      BY <2>2, <3>1
    <3> QED BY <2>1, <2>2, <3>1, <3>2 DEF FieldsIn
  <2> QED BY <1>7, <2>3, <2>4
<1>8. CASE FileDone
  <2>1. mode = "file" /\ mode' = "end" /\ ret' = ret /\ out' = out
    BY <1>8 DEF FileDone
  <2> QED BY <1>0, <2>1 DEF FieldsIn
<1>9. CASE StrayWrite
  <2>1. mode' = "end" /\ out' = Undefined
    BY <1>9 DEF StrayWrite
  <2> QED BY <1>3, <2>1
<1> QED BY <1>2, <1>4, <1>5, <1>6, <1>7, <1>8, <1>9 DEF Next

(***************************************************************************)
(* The theorems.                                                           *)
(***************************************************************************)
\* The file stays, the decoder never goes back before it, and the states are well
\* formed and keep what DecodingKept says.
MetainfoInv == FileKept /\ pos >= 1 /\ TypeOK /\ DecodingKept

LEMMA InvStart == Init => MetainfoInv
<1> SUFFICES ASSUME Init PROVE MetainfoInv
  OBVIOUS
<1>1. FileKept
  BY DEF Init, FileKept
<1>2. stack = << >> /\ DOMAIN stack = {} /\ mode = "decode" /\ pos = 1
  BY DEF Init
<1>3. IsSeq(stack)
  <2>1. \A T : << >> \in Seq(T)
    OBVIOUS
  <2> QED BY <1>2, <2>1 DEF IsSeq
<1>4. IsInfo(out) /\ out.state = "none" /\ out.known = {}
  BY UndefinedInfo DEF Init
<1>5. TypeOK
  <2>1. data_len = Len(input) /\ Len(input) \in Nat
    BY <1>1, FileFacts DEF Init
  <2>2. StackOK(stack)
    BY <1>2, <1>3 DEF StackOK
  <2> QED BY <1>2, <1>4, <2>1, <2>2, TypeIs
<1>6. SpansFollowed
  <2> SUFFICES ASSUME NEW root \in spans, root.from = 1
               PROVE  \E path \in [DOMAIN stack -> Boxes] : Reading(root, path)
    BY <1>2 DEF SpansFollowed, Boxes
  <2> DEFINE path == [k \in {} |-> root]
  <2>1. path \in [DOMAIN stack -> Boxes]
    BY <1>2
  <2> HIDE DEF path
  <2>2. Len(stack) = 0
    BY <1>2
  <2>3. NextIn(stack, root, root, path, Len(stack))
    BY <2>2 DEF NextIn
  <2>4. ReadingIn(stack, mode, pos, ret, root, path)
    BY <1>2, <2>3 DEF ReadingIn
  <2> QED BY <2>1, <2>4, ReadingIs
<1>7. NodesKept
  <2>1. AllIntsIn(ret)
    BY LeafNodes DEF Init
  <2> QED BY <1>2, <2>1, NodesAre
<1>8. FieldsKept
  <2>1. FieldsIn(out, mode, ret, i, j)
    BY <1>2, <1>4 DEF FieldsIn
  <2> QED BY <2>1, FieldsAre
<1> QED BY <1>1, <1>2, <1>5, <1>6, <1>7, <1>8 DEF MetainfoInv, DecodingKept

LEMMA InvStep == MetainfoInv /\ [Next]_vars => MetainfoInv'
<1> SUFFICES ASSUME MetainfoInv, [Next]_vars PROVE MetainfoInv'
  OBVIOUS
<1>1. CASE UNCHANGED vars
  <2>1. /\ input' = input /\ spans' = spans /\ memory' = memory /\ pos' = pos /\ data_len' = data_len
        /\ stack' = stack /\ mode' = mode /\ ret' = ret /\ i' = i /\ j' = j /\ out' = out
    BY <1>1 DEF vars, file
  <2>2. FileKept' /\ pos' >= 1
    BY <2>1 DEF MetainfoInv, FileKept
  <2>3. TypeOK'
    BY <2>1 DEF MetainfoInv, TypeOK
  <2>4. SpansFollowed'
    <3>1. SpansFollowed
      BY DEF MetainfoInv, DecodingKept
    <3> QED BY <2>1, <3>1 DEF SpansFollowed, Reading, Follows, IsNext, Top
  <2>5. NodesKept'
    BY <2>1 DEF MetainfoInv, DecodingKept, NodesKept
  <2>6. FieldsKept'
    <3>1. FieldsIn(out, mode, ret, i, j)
      BY FieldsAre DEF MetainfoInv, DecodingKept
    <3> QED BY <2>1, <3>1, FieldsNext
  <2> QED BY <2>2, <2>3, <2>4, <2>5, <2>6 DEF MetainfoInv, DecodingKept
<1>2. CASE Next
  <2>1. SpansFollowed /\ NodesKept /\ FieldsKept
    BY DEF MetainfoInv, DecodingKept
  <2>2. DecoderOK
    BY <2>1, TypeIs DEF MetainfoInv, SpansFollowed, DecoderOK, Modes
  <2>3. SpansFollowed' /\ NodesKept' /\ FieldsKept'
    BY <1>2, <2>1, <2>2, SpansStep, NodesStep, FieldsStep
  <2>4. /\ FileKept' /\ pos' \in Nat /\ pos' >= 1 /\ data_len' \in Int
        /\ pos' + data_len' = Len(input') + 1 /\ mode' \in Modes /\ StackOK(stack')
    BY <1>2, <2>2, DecoderStep
  <2>5. out'.state \in {"none", "ok", "undefined"}
    <3>1. FieldsIn(out', mode', ret', i', j')
      BY <2>3, FieldsNext
    <3> QED BY <3>1 DEF FieldsIn, IsInfo
  <2>6. TypeOK'
    BY <2>4, <2>5 DEF TypeOK, StackOK, FrameOK, Modes
  <2> QED BY <2>3, <2>4, <2>6 DEF MetainfoInv, DecodingKept
<1> QED BY <1>1, <1>2

\* A decoder that has returned to decodeFile() has read the span of the whole tree.
LEMMA InvRoundTrip == MetainfoInv => RoundTrip
<1> SUFFICES ASSUME MetainfoInv, mode = "return", stack = << >>, NEW x \in spans, x.from = 1
             PROVE  ret = x.node /\ pos = x.to
  BY DEF RoundTrip
<1>1. PICK path \in [DOMAIN stack -> Boxes] : Reading(x, path)
  BY DEF MetainfoInv, DecodingKept, SpansFollowed, Boxes
<1>2. ReadingIn(stack, mode, pos, ret, x, path)
  BY <1>1, ReadingIs
<1>3. PICK y \in spans : NextIn(stack, y, x, path, Len(stack)) /\ pos = y.to /\ ret = y.node
  BY <1>2 DEF ReadingIn
<1>4. Len(stack) = 0
  OBVIOUS
<1> QED BY <1>3, <1>4 DEF NextIn

\* Whatever the file and whatever follows it, the decoder and decodeFile() of bencode.c
\* keep the inductive invariant.
THEOREM MetainfoInvariant == Safety => []MetainfoInv
BY InvStart, InvStep, PTL DEF Safety

\* The position and the bytes left of _be_decode() always agree, on any input, also one
\* that is cut short, and where the decoder has left the file.
THEOREM MetainfoTypes == Safety => []TypeOK
<1>1. MetainfoInv => TypeOK
  BY DEF MetainfoInv
<1> QED BY <1>1, MetainfoInvariant, PTL

\* _be_decode() reads every well-formed file as the format does, at any depth and of any
\* length, and stops at its end: be_decoden() returns the tree that was encoded.
THEOREM DecoderReadsFormat == Safety => []RoundTrip
BY InvRoundTrip, MetainfoInvariant, PTL

\* The stack of activations of _be_decode() follows the nesting of the file, nodes keep
\* their numbers, and decodeFile() walks dictionaries only.
THEOREM DecodingIsKept == Safety => []DecodingKept
<1>1. MetainfoInv => DecodingKept
  BY DEF MetainfoInv
<1> QED BY <1>1, MetainfoInvariant, PTL
=============================================================================
