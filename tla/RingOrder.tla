------------------------------ MODULE RingOrder ------------------------------
(***************************************************************************)
(* Facts about sequences of numbers that rise, and about a ring of N       *)
(* places whose contents rise, as the two serial layers of the project     *)
(* need them: bytes are numbered in the order they come, so that "in       *)
(* order" is "rising", and the two ring buffers (sources/avr/ringbuffer.c, *)
(* sources/host/serial.c) are the same structure.                          *)
(*                                                                         *)
(* The ring is given by what ringbuffer_t holds: its array, the place of   *)
(* its first element and the place after the last one, the same one when   *)
(* the ring is empty or full.                                              *)
(***************************************************************************)
EXTENDS Integers, Sequences, Functions, SequenceTheorems, TLAPS

Rising(s) == \A i, j \in DOMAIN s : i < j => s[i] < s[j]

Below(S, T) == \A a \in S, b \in T : a < b

\* The places of a ring that is not full, from first up to last
Span(N, first, last) ==
    {i \in 0 .. N - 1 : \/ first <= last /\ first <= i /\ i < last
                        \/ last < first /\ (first <= i \/ i < last)}

\* Those of a ring that is not empty
FullSpan(N, first, last) == IF first = last THEN 0 .. N - 1 ELSE Span(N, first, last)

\* Of two such places, i comes before j
Before(first, i, j) ==
    \/ first <= i /\ first <= j /\ i < j
    \/ i < first /\ j < first /\ i < j
    \/ first <= i /\ j < first

Elements(base, places) == {base[i] : i \in places}

RisingFrom(base, first, places) ==
    \A i, j \in places : Before(first, i, j) => base[i] < base[j]

NextPlace(N, i) == IF i + 1 = N THEN 0 ELSE i + 1

\* A ring of N numbers
Ring(N, base, first, last) ==
    /\ N \in Nat /\ N > 1
    /\ base \in [0 .. N - 1 -> Int]
    /\ first \in 0 .. N - 1 /\ last \in 0 .. N - 1

\* The array once e is stored in the place i
Stored(base, i, e, after) == after = [base EXCEPT ![i] = e]

\* The number of elements of a ring that is not full, the place of the i-th one,
\* and the elements one after the other
Count(N, first, last) == IF first <= last THEN last - first ELSE last + N - first

PlaceOf(N, first, i) == IF first + i - 1 < N THEN first + i - 1 ELSE first + i - 1 - N

Listed(N, base, first, last) ==
    [i \in 1 .. Count(N, first, last) |-> base[PlaceOf(N, first, i)]]

-----------------------------------------------------------------------------

\* A byte at the end of a sequence.
LEMMA AppendBytes ==
    ASSUME NEW S \in SUBSET Int, NEW s \in Seq(S), NEW e \in S
    PROVE  /\ Append(s, e) \in Seq(S)
           /\ Range(Append(s, e)) = Range(s) \cup {e}
           /\ Rising(s) /\ Below(Range(s), {e}) => Rising(Append(s, e))
<1>1. /\ Append(s, e) \in Seq(S) /\ DOMAIN Append(s, e) = DOMAIN s \cup {Len(s) + 1}
      /\ \A i \in DOMAIN s : Append(s, e)[i] = s[i] /\ i < Len(s) + 1 /\ i \in Int /\ s[i] \in Int
      /\ Append(s, e)[Len(s) + 1] = e /\ Len(s) + 1 \in Int
  <2>1. Len(s) \in Nat /\ DOMAIN s = 1 .. Len(s) /\ DOMAIN Append(s, e) = 1 .. Len(s) + 1
    <3>1. Append(s, e) \in Seq(S) /\ Len(Append(s, e)) = Len(s) + 1
      OBVIOUS
    <3>2. Len(s) \in Nat /\ DOMAIN s = 1 .. Len(s)
      OBVIOUS
    <3>3. DOMAIN Append(s, e) = 1 .. Len(Append(s, e))
      BY <3>1
    <3> QED
      BY <3>1, <3>2, <3>3
  <2>2. DOMAIN Append(s, e) = DOMAIN s \cup {Len(s) + 1}
    BY <2>1
  <2>3. ASSUME NEW i \in DOMAIN s PROVE Append(s, e)[i] = s[i] /\ s[i] \in Int
    <3>1. i \in 1 .. Len(s)
      BY <2>1
    <3>2. s[i] \in S /\ S \subseteq Int
      BY <3>1
    <3>3. Append(s, e)[i] = s[i]
      BY <3>1
    <3> QED
      BY <3>2, <3>3
  <2>4. Append(s, e) \in Seq(S) /\ Append(s, e)[Len(s) + 1] = e
    OBVIOUS
  <2> QED
    BY <2>1, <2>2, <2>3, <2>4
<1>2. Range(Append(s, e)) = Range(s) \cup {e}
  BY <1>1 DEF Range
<1>3. ASSUME Rising(s), Below(Range(s), {e}),
             NEW i \in DOMAIN Append(s, e), NEW j \in DOMAIN Append(s, e), i < j
      PROVE  Append(s, e)[i] < Append(s, e)[j]
  <2>1. CASE j = Len(s) + 1
    <3>1. i \in DOMAIN s
      BY <1>1, <1>3, <2>1
    <3> QED
      BY <1>1, <1>3, <2>1, <3>1 DEF Below, Range
  <2>2. CASE j \in DOMAIN s
    <3>1. i \in DOMAIN s
      BY <1>1, <1>3, <2>2
    <3> QED
      BY <1>1, <1>3, <2>2, <3>1 DEF Rising
  <2> QED
    BY <1>1, <2>1, <2>2
<1> QED
  BY <1>1, <1>2, <1>3 DEF Rising

\* The first byte of a sequence and the others.
LEMMA HeadTail ==
    ASSUME NEW S \in SUBSET Int, NEW s \in Seq(S), s # <<>>
    PROVE  /\ Head(s) \in S /\ Tail(s) \in Seq(S)
           /\ Range(s) = {Head(s)} \cup Range(Tail(s))
           /\ Rising(s) => Rising(Tail(s)) /\ Below({Head(s)}, Range(Tail(s)))
<1>1. /\ Head(s) \in S /\ Tail(s) \in Seq(S) /\ Head(s) = s[1] /\ 1 \in DOMAIN s
      /\ \A i \in DOMAIN Tail(s) : i + 1 \in DOMAIN s /\ Tail(s)[i] = s[i + 1] /\ i \in Int /\ 1 < i + 1
      /\ \A i \in DOMAIN s : i # 1 => i - 1 \in DOMAIN Tail(s) /\ s[i] = Tail(s)[i - 1]
  OBVIOUS
<1>2. Range(s) = {Head(s)} \cup Range(Tail(s))
  <2>1. ASSUME NEW i \in DOMAIN s PROVE s[i] \in {Head(s)} \cup Range(Tail(s))
    BY <1>1, <2>1 DEF Range
  <2>2. ASSUME NEW i \in DOMAIN Tail(s) PROVE Tail(s)[i] \in Range(s)
    BY <1>1, <2>2 DEF Range
  <2>3. Head(s) \in Range(s)
    BY <1>1 DEF Range
  <2> QED
    BY <2>1, <2>2, <2>3 DEF Range
<1>3. ASSUME Rising(s) PROVE Rising(Tail(s))
  <2> SUFFICES ASSUME NEW i \in DOMAIN Tail(s), NEW j \in DOMAIN Tail(s), i < j
               PROVE  Tail(s)[i] < Tail(s)[j]
    BY DEF Rising
  <2>1. i + 1 \in DOMAIN s /\ j + 1 \in DOMAIN s /\ i + 1 < j + 1
    BY <1>1
  <2> QED
    BY <1>1, <1>3, <2>1 DEF Rising
<1>4. ASSUME Rising(s) PROVE Below({Head(s)}, Range(Tail(s)))
  BY <1>1, <1>4 DEF Rising, Below, Range
<1> QED
  BY <1>1, <1>2, <1>3, <1>4

\* A sequence in two parts.
LEMMA Split ==
    ASSUME NEW S \in SUBSET Int, NEW s \in Seq(S), NEW n \in 0 .. Len(s)
    PROVE  LET a == SubSeq(s, 1, n)
               b == SubSeq(s, n + 1, Len(s))
           IN  /\ a \in Seq(S) /\ b \in Seq(S) /\ Len(a) = n
               /\ Range(s) = Range(a) \cup Range(b)
               /\ Rising(s) => Rising(a) /\ Rising(b) /\ Below(Range(a), Range(b))
<1> SUFFICES ASSUME NEW a, NEW b, a = SubSeq(s, 1, n), b = SubSeq(s, n + 1, Len(s))
             PROVE  /\ a \in Seq(S) /\ b \in Seq(S) /\ Len(a) = n
                    /\ Range(s) = Range(a) \cup Range(b)
                    /\ Rising(s) => Rising(a) /\ Rising(b) /\ Below(Range(a), Range(b))
  OBVIOUS
<1>1. /\ a \in Seq(S) /\ b \in Seq(S) /\ Len(a) = n
      /\ \A i \in DOMAIN a : i \in DOMAIN s /\ a[i] = s[i] /\ i \in Int /\ i <= n
      /\ \A i \in DOMAIN b : n + i \in DOMAIN s /\ b[i] = s[n + i] /\ i \in Int /\ n < n + i
      /\ \A i \in DOMAIN s : i <= n => i \in DOMAIN a /\ s[i] = a[i]
      /\ \A i \in DOMAIN s : n < i => i - n \in DOMAIN b /\ s[i] = b[i - n]
      /\ \A i \in DOMAIN s : i \in Int
  OBVIOUS
<1>2. Range(s) = Range(a) \cup Range(b)
  <2>1. ASSUME NEW i \in DOMAIN s PROVE s[i] \in Range(a) \cup Range(b)
    <3>1. CASE i <= n
      BY <1>1, <3>1 DEF Range
    <3>2. CASE n < i
      <4>1. i - n \in DOMAIN b /\ s[i] = b[i - n]
        BY <1>1, <3>2
      <4> QED
        BY <4>1 DEF Range
    <3> QED
      BY <1>1, <3>1, <3>2
  <2>2. ASSUME NEW i \in DOMAIN a PROVE a[i] \in Range(s)
    BY <1>1, <2>2 DEF Range
  <2>3. ASSUME NEW i \in DOMAIN b PROVE b[i] \in Range(s)
    <3>1. n + i \in DOMAIN s /\ b[i] = s[n + i]
      BY <1>1
    <3> QED
      BY <3>1 DEF Range
  <2>4. Range(s) \subseteq Range(a) \cup Range(b)
    BY <2>1 DEF Range
  <2>5. Range(a) \subseteq Range(s) /\ Range(b) \subseteq Range(s)
    BY <2>2, <2>3 DEF Range
  <2> QED
    BY <2>4, <2>5
<1>3. ASSUME Rising(s) PROVE Rising(a) /\ Rising(b)
  <2>1. Rising(a)
    BY <1>1, <1>3 DEF Rising
  <2>2. ASSUME NEW i \in DOMAIN b, NEW j \in DOMAIN b, i < j PROVE b[i] < b[j]
    <3>1. n + i \in DOMAIN s /\ n + j \in DOMAIN s /\ n + i < n + j
      BY <1>1, <2>2
    <3> QED
      BY <1>1, <1>3, <3>1 DEF Rising
  <2> QED
    BY <2>1, <2>2 DEF Rising
<1>4. ASSUME Rising(s) PROVE Below(Range(a), Range(b))
  <2> SUFFICES ASSUME NEW i \in DOMAIN a, NEW j \in DOMAIN b PROVE a[i] < b[j]
    BY DEF Below, Range
  <2>1. i \in DOMAIN s /\ n + j \in DOMAIN s /\ i < n + j
    BY <1>1
  <2> QED
    BY <1>1, <1>4, <2>1 DEF Rising
<1> QED
  BY <1>1, <1>2, <1>3, <1>4

\* Positions and elements of a sequence of bytes
LEMMA BytePositions ==
    ASSUME NEW S \in SUBSET Int, NEW s \in Seq(S)
    PROVE  \A i \in DOMAIN s : s[i] \in Int /\ i \in Int
<1> SUFFICES ASSUME NEW i \in DOMAIN s PROVE s[i] \in Int /\ i \in Int
  OBVIOUS
<1>1. i \in 1 .. Len(s)
  OBVIOUS
<1>2. s[i] \in S /\ S \subseteq Int
  BY <1>1
<1>3. i \in Int
  BY <1>1
<1>4. s[i] \in Int
  BY <1>2
<1> QED
  BY <1>3, <1>4

-----------------------------------------------------------------------------

\* The index of the code, a remainder, is the next place of the ring.
LEMMA RemainderIsNext ==
    ASSUME NEW N \in Nat, N > 1, NEW i \in 0 .. N - 1
    PROVE  (i + 1) % N = NextPlace(N, i) /\ NextPlace(N, i) \in 0 .. N - 1
<1>1. CASE i + 1 = N
  BY <1>1 DEF NextPlace
<1>2. CASE i + 1 # N
  BY <1>2 DEF NextPlace
<1> QED
  BY <1>1, <1>2

\* What a push does to the places in use
LEMMA PushPlaces ==
    ASSUME NEW N, NEW base, NEW first, NEW last, Ring(N, base, first, last)
    PROVE  /\ last \notin Span(N, first, last)
           /\ FullSpan(N, first, NextPlace(N, last)) = Span(N, first, last) \cup {last}
           /\ \A i \in Span(N, first, last) : ~Before(first, last, i)
<1> DEFINE end == NextPlace(N, last)
<1> USE DEF Ring
<1>1. end = (IF last + 1 = N THEN 0 ELSE last + 1) /\ end \in 0 .. N - 1
  BY DEF NextPlace
<1>2. FullSpan(N, first, end) = Span(N, first, last) \cup {last}
  BY <1>1 DEF Span, FullSpan
<1> QED
  BY <1>2 DEF Span, Before

\* A push puts an element behind the others.
LEMMA PushElement ==
    ASSUME NEW N, NEW base, NEW first, NEW last, Ring(N, base, first, last), NEW e \in Int,
           NEW after, Stored(base, last, e, after)
    PROVE  Elements(after, FullSpan(N, first, NextPlace(N, last)))
                = Elements(base, Span(N, first, last)) \cup {e}
<1>1. \A i \in 0 .. N - 1 : after[i] = IF i = last THEN e ELSE base[i]
  BY DEF Ring, Stored
<1>2. \A i \in Span(N, first, last) : i \in 0 .. N - 1 /\ after[i] = base[i]
  BY <1>1, PushPlaces DEF Span
<1>3. after[last] = e
  BY <1>1 DEF Ring
<1>4. FullSpan(N, first, NextPlace(N, last)) = Span(N, first, last) \cup {last}
  BY PushPlaces
<1> QED
  BY <1>2, <1>3, <1>4 DEF Elements

\* A byte later than all in the ring keeps it in order.
LEMMA PushRising ==
    ASSUME NEW N, NEW base, NEW first, NEW last, Ring(N, base, first, last), NEW e \in Int,
           NEW after, Stored(base, last, e, after),
           RisingFrom(base, first, Span(N, first, last)),
           Below(Elements(base, Span(N, first, last)), {e})
    PROVE  RisingFrom(after, first, FullSpan(N, first, NextPlace(N, last)))
<1> DEFINE old == Span(N, first, last)
<1>1. /\ \A i \in 0 .. N - 1 : after[i] = IF i = last THEN e ELSE base[i]
      /\ old \subseteq 0 .. N - 1 /\ last \notin old
      /\ last \in Int /\ first \in Int /\ last \in 0 .. N - 1
  BY DEF Ring, Span, Stored
<1> SUFFICES ASSUME NEW i \in old \cup {last}, NEW j \in old \cup {last}, Before(first, i, j)
             PROVE  after[i] < after[j]
  BY PushPlaces DEF RisingFrom
<1>2. ~(i = last /\ j = last)
  BY <1>1 DEF Before
<1>3. i \in old /\ after[i] = base[i]
  BY <1>1, <1>2, PushPlaces
<1>4. CASE j = last
  BY <1>1, <1>3, <1>4 DEF Below, Elements
<1>5. CASE j \in old
  <2>1. after[j] = base[j]
    BY <1>1, <1>5
  <2> HIDE DEF old
  <2> QED
    BY <1>3, <1>5, <2>1 DEF RisingFrom, old
<1> QED
  BY <1>4, <1>5

\* What a pop does to the places in use
LEMMA PopPlaces ==
    ASSUME NEW N, NEW base, NEW first, NEW last, Ring(N, base, first, last)
    PROVE  /\ first \notin Span(N, NextPlace(N, first), last)
           /\ FullSpan(N, first, last) = Span(N, NextPlace(N, first), last) \cup {first}
           /\ \A i, j \in Span(N, NextPlace(N, first), last) :
                /\ Before(first, first, i)
                /\ Before(NextPlace(N, first), i, j) => Before(first, i, j)
<1> DEFINE start == NextPlace(N, first)
<1> USE DEF Ring
<1>1. start = (IF first + 1 = N THEN 0 ELSE first + 1) /\ start \in 0 .. N - 1
  BY DEF NextPlace
<1>2. first \notin Span(N, start, last)
  BY <1>1 DEF Span
<1>3. FullSpan(N, first, last) = Span(N, start, last) \cup {first}
  BY <1>1 DEF Span, FullSpan
<1>4. \A i \in Span(N, start, last) : i \in 0 .. N - 1 /\ i # first
  BY <1>2 DEF Span
<1> QED
  BY SMTT(20), <1>1, <1>2, <1>3, <1>4 DEF Before

\* A pop takes the element before the others.
LEMMA PopElement ==
    ASSUME NEW N, NEW base, NEW first, NEW last, Ring(N, base, first, last)
    PROVE  Elements(base, FullSpan(N, first, last))
                = Elements(base, Span(N, NextPlace(N, first), last)) \cup {base[first]}
BY PopPlaces DEF Elements

\* What is left behind the byte taken is in order, and later than it.
LEMMA PopRising ==
    ASSUME NEW N, NEW base, NEW first, NEW last, Ring(N, base, first, last),
           RisingFrom(base, first, FullSpan(N, first, last))
    PROVE  /\ RisingFrom(base, NextPlace(N, first), Span(N, NextPlace(N, first), last))
           /\ Below({base[first]}, Elements(base, Span(N, NextPlace(N, first), last)))
BY PopPlaces DEF RisingFrom, Below, Elements

-----------------------------------------------------------------------------

\* What the code computes with remainders
LEMMA Remainders ==
    ASSUME NEW N \in Nat, N > 1, NEW first \in 0 .. N - 1, NEW last \in 0 .. N - 1
    PROVE  /\ (last + N - first) % N = Count(N, first, last)
           /\ \A i \in 1 .. N : (first + i - 1) % N = PlaceOf(N, first, i)
           /\ \A i \in 1 .. N - 1 : (first + 1 + i - 1) % N = PlaceOf(N, NextPlace(N, first), i)
<1>1. \A a \in 0 .. N - 1 : a % N = a /\ (N + a) % N = a
  OBVIOUS
<1>2. (last + N - first) % N = Count(N, first, last)
  <2>1. CASE first <= last
    <3>1. last - first \in 0 .. N - 1 /\ last + N - first = N + (last - first)
      BY <2>1
    <3> QED
      BY <1>1, <2>1, <3>1 DEF Count
  <2>2. CASE last < first
    <3>1. last + N - first \in 0 .. N - 1
      BY <2>2
    <3> QED
      BY <1>1, <2>2, <3>1 DEF Count
  <2> QED
    BY <2>1, <2>2
<1>3. ASSUME NEW i \in 1 .. N PROVE (first + i - 1) % N = PlaceOf(N, first, i)
  <2>1. CASE first + i - 1 < N
    <3>1. first + i - 1 \in 0 .. N - 1
      BY <2>1
    <3> QED
      BY <1>1, <2>1, <3>1 DEF PlaceOf
  <2>2. CASE ~(first + i - 1 < N)
    <3>1. first + i - 1 - N \in 0 .. N - 1 /\ first + i - 1 = N + (first + i - 1 - N)
      BY <2>2
    <3> QED
      BY <1>1, <2>2, <3>1 DEF PlaceOf
  <2> QED
    BY <2>1, <2>2
<1>4. ASSUME NEW i \in 1 .. N - 1
      PROVE  (first + 1 + i - 1) % N = PlaceOf(N, NextPlace(N, first), i)
  <2>1. i + 1 \in 1 .. N /\ first + 1 + i - 1 = first + (i + 1) - 1
    OBVIOUS
  <2>2. PlaceOf(N, first, i + 1) = PlaceOf(N, NextPlace(N, first), i)
    BY DEF PlaceOf, NextPlace
  <2>3. (first + (i + 1) - 1) % N = PlaceOf(N, first, i + 1)
    BY <1>3, <2>1
  <2> QED
    BY <2>1, <2>2, <2>3
<1> QED
  BY <1>2, <1>3, <1>4

\* The list of the elements is one of numbers.
LEMMA ListedType ==
    ASSUME NEW N, NEW base, NEW first, NEW last, Ring(N, base, first, last)
    PROVE  /\ Count(N, first, last) \in 0 .. N - 1
           /\ Listed(N, base, first, last) \in Seq(Int)
           /\ Len(Listed(N, base, first, last)) = Count(N, first, last)
           /\ \A i \in 1 .. Count(N, first, last) :
                 /\ PlaceOf(N, first, i) \in 0 .. N - 1
                 /\ Listed(N, base, first, last)[i] = base[PlaceOf(N, first, i)]
<1> DEFINE n == Count(N, first, last)
<1>1. n \in 0 .. N - 1
  BY DEF Ring, Count
<1> HIDE DEF n
<1>2. \A i \in 1 .. n : PlaceOf(N, first, i) \in 0 .. N - 1 /\ base[PlaceOf(N, first, i)] \in Int
  BY <1>1 DEF Ring, PlaceOf
<1>3. [i \in 1 .. n |-> base[PlaceOf(N, first, i)]] \in [1 .. n -> Int] /\ n \in Nat
  BY <1>1, <1>2 DEF Ring
<1>4. Listed(N, base, first, last) = [i \in 1 .. n |-> base[PlaceOf(N, first, i)]]
  BY DEF Listed, n
<1>5. Listed(N, base, first, last) \in Seq(Int) /\ Len(Listed(N, base, first, last)) = n
  BY <1>3, <1>4
<1> QED
  BY <1>1, <1>2, <1>4, <1>5 DEF n

\* A push appends to the list, a pop takes its head.
LEMMA ListedPush ==
    ASSUME NEW N, NEW base, NEW first, NEW last, Ring(N, base, first, last), NEW e \in Int,
           NEW after, Stored(base, last, e, after), first # NextPlace(N, last)
    PROVE  Listed(N, after, first, NextPlace(N, last)) = Append(Listed(N, base, first, last), e)
<1> DEFINE end == NextPlace(N, last)
           s == Listed(N, base, first, last)
           t == Listed(N, after, first, end)
           n == Count(N, first, last)
<1>1. Ring(N, after, first, end)
  BY DEF Ring, Stored, NextPlace
<1>2. Count(N, first, end) = n + 1 /\ PlaceOf(N, first, n + 1) = last
  BY DEF Ring, NextPlace, Count, PlaceOf
<1>3. ASSUME NEW i \in 1 .. n PROVE PlaceOf(N, first, i) # last
  BY DEF Ring, NextPlace, Count, PlaceOf
<1>4. /\ s \in Seq(Int) /\ Len(s) = n /\ n \in 0 .. N - 1
      /\ \A i \in 1 .. n : PlaceOf(N, first, i) \in 0 .. N - 1 /\ s[i] = base[PlaceOf(N, first, i)]
  BY ListedType
<1>5. /\ t \in Seq(Int) /\ Len(t) = n + 1
      /\ \A i \in 1 .. n + 1 : t[i] = after[PlaceOf(N, first, i)]
  BY <1>1, <1>2, ListedType
<1>6. \A i \in 0 .. N - 1 : after[i] = IF i = last THEN e ELSE base[i]
  BY DEF Ring, Stored
<1>7. last \in 0 .. N - 1
  BY DEF Ring
<1> HIDE DEF end, s, t, n
<1>8. Append(s, e) \in Seq(Int) /\ Len(Append(s, e)) = n + 1
  BY SMTT(20), <1>4
<1>9. ASSUME NEW i \in 1 .. n + 1 PROVE Append(s, e)[i] = t[i]
  <2>1. CASE i = n + 1
    BY SMTT(20), <1>2, <1>4, <1>5, <1>6, <1>7, <2>1
  <2>2. CASE i \in 1 .. n
    <3>1. Append(s, e)[i] = s[i]
      BY <1>4, <2>2
    <3>2. s[i] = base[PlaceOf(N, first, i)] /\ t[i] = after[PlaceOf(N, first, i)]
      BY <1>4, <1>5, <2>2
    <3>3. after[PlaceOf(N, first, i)] = base[PlaceOf(N, first, i)]
      BY <1>3, <1>4, <1>6, <2>2
    <3> QED
      BY <3>1, <3>2, <3>3
  <2> QED
    BY <1>4, <2>1, <2>2
<1>10. Append(s, e) = t
  BY <1>5, <1>8, <1>9, SeqEqual
<1> QED
  BY <1>10 DEF s, t, end

\* The byte at first is the head of the list, those behind it are its tail.
LEMMA ListedPop ==
    ASSUME NEW N, NEW base, NEW first, NEW last, Ring(N, base, first, last), first # last
    PROVE  /\ Listed(N, base, first, last) # <<>>
           /\ Head(Listed(N, base, first, last)) = base[first]
           /\ Tail(Listed(N, base, first, last)) = Listed(N, base, NextPlace(N, first), last)
<1> DEFINE start == NextPlace(N, first)
           s == Listed(N, base, first, last)
           t == Listed(N, base, start, last)
           n == Count(N, first, last)
<1>1. Ring(N, base, start, last)
  BY DEF Ring, NextPlace
<1>2. n # 0 /\ Count(N, start, last) = n - 1 /\ PlaceOf(N, first, 1) = first
  BY DEF Ring, NextPlace, Count, PlaceOf
<1>3. ASSUME NEW i \in 1 .. n - 1 PROVE PlaceOf(N, start, i) = PlaceOf(N, first, i + 1)
  BY DEF Ring, NextPlace, Count, PlaceOf
<1>4. /\ s \in Seq(Int) /\ Len(s) = n /\ n \in 0 .. N - 1
      /\ \A i \in 1 .. n : s[i] = base[PlaceOf(N, first, i)]
  BY ListedType
<1>5. /\ t \in Seq(Int) /\ Len(t) = n - 1
      /\ \A i \in 1 .. n - 1 : t[i] = base[PlaceOf(N, start, i)]
  BY <1>1, <1>2, ListedType
<1> HIDE DEF start, s, t, n
<1>6. s # <<>> /\ Head(s) = base[first] /\ Tail(s) \in Seq(Int) /\ Len(Tail(s)) = n - 1
  <2>1. s # <<>> /\ Head(s) = s[1] /\ 1 \in 1 .. n
    BY <1>2, <1>4
  <2> QED
    BY <1>2, <1>4, <2>1
<1>7. ASSUME NEW i \in 1 .. n - 1 PROVE Tail(s)[i] = t[i]
  <2>1. Tail(s)[i] = s[i + 1] /\ i + 1 \in 1 .. n
    BY <1>4, <1>6
  <2> QED
    BY <1>3, <1>4, <1>5, <2>1
<1>8. Tail(s) = t
  BY <1>5, <1>6, <1>7, SeqEqual
<1> QED
  BY <1>6, <1>8 DEF s, t, start
=============================================================================
