----------------------------- MODULE WireProofs ------------------------------
(***************************************************************************)
(* The wire format, for every set of frames, however deep, and every width *)
(* of the integers: the reference decoder satisfies the equation of a      *)
(* recursive descent, and reads back what Frame::to_bytes writes, whatever *)
(* follows it.                                                             *)
(*                                                                         *)
(* Inductions (on the bytes left, on digits, on the elements of an array   *)
(* and on its depth) are by the smallest counterexample: SmallestOf.       *)
(***************************************************************************)
EXTENDS Wire, ParserProofs

-----------------------------------------------------------------------------
(* The recursive functions *)

NoBytesRead == [count \in Int |-> [bytes \in Seq(Byte) |-> NotRead("Complete")]]

(* One step of each of them, and their first values. *)
AllSteps(before, n) ==
    [digits   |-> MoreDigits(before.digits, n),
     numerals |-> MoreNumerals(before.numerals, n),
     joined   |-> MoreParts(before.joined, n),
     frames   |-> DeeperFrames(before.frames, n),
     written  |-> DeeperWritten(before.written, n),
     reading  |-> MoreBytes(before.reading, n)]

AllBase == [digits   |-> [digits \in Seq(Byte) |-> 0],
            numerals |-> [i \in Nat |-> <<Digits[1]>>],
            joined   |-> [parts \in Seq(Seq(Byte)) |-> <<>>],
            frames   |-> Leaf,
            written  |-> [f \in Leaf |-> LeafBytes(f)],
            reading  |-> NoBytesRead]

(* TLA+ makes f[n \in Nat] == ... a choice of some f that satisfies the    *)
(* equation.  That there is one is proved for all the functions at once:   *)
(* g is what they are up to k.                                             *)
Upto(g, k) == g = [n \in 0 .. k |-> IF n = 0 THEN AllBase ELSE AllSteps(g[n - 1], n)]

(* They exist up to any number, *)
LEMMA UptoExists == \A k \in Nat : \E g : Upto(g, k)
<1> DEFINE T == {k \in Nat : ~ \E g : Upto(g, k)}
<1> SUFFICES ASSUME T # {} PROVE FALSE
  OBVIOUS
<1>1. PICK m \in T : \A n \in T : m <= n
  <2>1. T \in SUBSET Nat
    OBVIOUS
  <2> HIDE DEF T
  <2> QED
    BY <2>1, SmallestOf, Zenon
<1>2. CASE m = 0
  <2>1. Upto([n \in 0 .. 0 |-> AllBase], 0)
    BY DEF Upto
  <2> QED
    BY <1>1, <1>2, <2>1, Zenon
<1>3. CASE m # 0
  <2>1. m - 1 \in Nat /\ m - 1 \notin T
    BY <1>1, <1>3
  <2>2. PICK g : Upto(g, m - 1)
    BY <2>1, Zenon
  <2> DEFINE h == [n \in 0 .. m |-> IF n = m THEN AllSteps(g[m - 1], m) ELSE g[n]]
             hh == [n \in 0 .. m |-> IF n = 0 THEN AllBase ELSE AllSteps(h[n - 1], n)]
  <2>3. ASSUME NEW n \in 0 .. m PROVE h[n] = hh[n]
    <3>1. CASE n = m
      <4>1. h[n - 1] = g[m - 1]
        BY <3>1, <2>1
      <4> QED
        BY <3>1, <4>1, <1>3, Zenon
    <3>2. CASE n # m
      <4>1. n \in 0 .. m - 1
        BY <3>2
      <4>2. g[n] = IF n = 0 THEN AllBase ELSE AllSteps(g[n - 1], n)
        BY <2>2, <4>1, Zenon DEF Upto
      <4>3. n # 0 => h[n - 1] = g[n - 1]
        BY <4>1
      <4> QED
        BY <3>2, <4>2, <4>3, Zenon
    <3> QED
      BY <3>1, <3>2, Zenon
  <2>4. h = hh
    BY <2>3, Zenon
  <2>5. Upto(h, m)
    BY <2>4, Zenon DEF Upto
  <2> QED
    BY <2>5, <1>1, Zenon
<1> QED
  BY <1>2, <1>3, Zenon

(* and two of them agree as far as both go. *)
LEMMA UptoSame ==
  ASSUME NEW k \in Nat, NEW l \in Nat, NEW g, NEW h, Upto(g, k), Upto(h, l)
  PROVE  \A n \in Nat : n <= k /\ n <= l => g[n] = h[n]
<1> DEFINE T == {n \in Nat : n <= k /\ n <= l /\ g[n] # h[n]}
<1> SUFFICES ASSUME T # {} PROVE FALSE
  OBVIOUS
<1>1. PICK m \in T : \A n \in T : m <= n
  <2>1. T \in SUBSET Nat
    OBVIOUS
  <2> HIDE DEF T
  <2> QED
    BY <2>1, SmallestOf, Zenon
<1>2. g[m] = IF m = 0 THEN AllBase ELSE AllSteps(g[m - 1], m)
  BY <1>1 DEF Upto
<1>3. h[m] = IF m = 0 THEN AllBase ELSE AllSteps(h[m - 1], m)
  BY <1>1 DEF Upto
<1>4. m # 0 => g[m - 1] = h[m - 1]
  <2> SUFFICES ASSUME m # 0 PROVE g[m - 1] = h[m - 1]
    OBVIOUS
  <2>1. m - 1 \in Nat /\ m - 1 <= k /\ m - 1 <= l /\ ~(m <= m - 1)
    BY <1>1
  <2> QED
    BY <1>1, <2>1, Zenon
<1> QED
  BY <1>1, <1>2, <1>3, <1>4, Zenon

(* So there are functions on all of Nat that satisfy the equations. *)
LEMMA AllDefined ==
  \E f : f = [n \in Nat |-> IF n = 0 THEN AllBase ELSE AllSteps(f[n - 1], n)]
<1> DEFINE G(k) == CHOOSE g : Upto(g, k)
           f == [n \in Nat |-> G(n)[n]]
           ff == [n \in Nat |-> IF n = 0 THEN AllBase ELSE AllSteps(f[n - 1], n)]
<1>1. \A k \in Nat : Upto(G(k), k)
  BY UptoExists, Zenon
<1> HIDE DEF G
<1>2. ASSUME NEW n \in Nat PROVE f[n] = ff[n]
  <2>1. G(n)[n] = IF n = 0 THEN AllBase ELSE AllSteps(G(n)[n - 1], n)
    <3>1. G(n) = [i \in 0 .. n |-> IF i = 0 THEN AllBase ELSE AllSteps(G(n)[i - 1], i)]
      BY <1>1, Zenon DEF Upto
    <3> QED
      BY <3>1
  <2>2. n # 0 => G(n)[n - 1] = G(n - 1)[n - 1]
    <3> SUFFICES ASSUME n # 0 PROVE G(n)[n - 1] = G(n - 1)[n - 1]
      OBVIOUS
    <3>1. n - 1 \in Nat /\ n - 1 <= n
      OBVIOUS
    <3> QED
      BY <1>1, <3>1, UptoSame
  <2> QED
    BY <2>1, <2>2
<1>3. f = ff
  BY <1>2, Zenon
<1> QED
  BY <1>3, Zenon

(* Each is what its definition says. *)
LEMMA Unfolded ==
    /\ FirstDigits = [n \in Nat |-> IF n = 0 THEN [digits \in Seq(Byte) |-> 0]
                                    ELSE MoreDigits(FirstDigits[n - 1], n)]
    /\ Numerals = [n \in Nat |-> IF n = 0 THEN [i \in Nat |-> <<Digits[1]>>]
                                 ELSE MoreNumerals(Numerals[n - 1], n)]
    /\ Joined = [n \in Nat |-> IF n = 0 THEN [parts \in Seq(Seq(Byte)) |-> <<>>]
                               ELSE MoreParts(Joined[n - 1], n)]
    /\ FramesOf = [n \in Nat |-> IF n = 0 THEN Leaf ELSE DeeperFrames(FramesOf[n - 1], n)]
    /\ Written = [n \in Nat |-> IF n = 0 THEN [f \in Leaf |-> LeafBytes(f)]
                                ELSE DeeperWritten(Written[n - 1], n)]
    /\ Reading = [n \in Nat |-> IF n = 0 THEN NoBytesRead ELSE MoreBytes(Reading[n - 1], n)]
<1> DEFINE d == [digits \in Seq(Byte) |-> 0]
           i == [i \in Nat |-> <<Digits[1]>>]
           j == [parts \in Seq(Seq(Byte)) |-> <<>>]
           w == [f \in Leaf |-> LeafBytes(f)]
<1>1. PICK f : f = [n \in Nat |-> IF n = 0
                      THEN [digits |-> d, numerals |-> i, joined |-> j, frames |-> Leaf,
                            written |-> w, reading |-> NoBytesRead]
                      ELSE AllSteps(f[n - 1], n)]
  BY AllDefined, Zenon DEF AllBase
<1> HIDE DEF d, i, j, w
<1>2. \A n \in Nat : f[n] = IF n = 0
                       THEN [digits |-> d, numerals |-> i, joined |-> j, frames |-> Leaf,
                             written |-> w, reading |-> NoBytesRead]
                       ELSE AllSteps(f[n - 1], n)
  BY <1>1, Zenon
<1>3. ASSUME NEW n \in Nat, n # 0
      PROVE  /\ f[n].digits = MoreDigits(f[n - 1].digits, n)
             /\ f[n].numerals = MoreNumerals(f[n - 1].numerals, n)
             /\ f[n].joined = MoreParts(f[n - 1].joined, n)
             /\ f[n].frames = DeeperFrames(f[n - 1].frames, n)
             /\ f[n].written = DeeperWritten(f[n - 1].written, n)
             /\ f[n].reading = MoreBytes(f[n - 1].reading, n)
  <2>1. f[n] = AllSteps(f[n - 1], n)
    BY <1>2, <1>3, Zenon
  <2> QED
    BY <2>1 DEF AllSteps
<1>4. f[0] = [digits |-> d, numerals |-> i, joined |-> j, frames |-> Leaf,
              written |-> w, reading |-> NoBytesRead]
  BY <1>2, Zenon
<1>5. FirstDigits = [n \in Nat |-> IF n = 0 THEN d ELSE MoreDigits(FirstDigits[n - 1], n)]
  <2> DEFINE g == [n \in Nat |-> f[n].digits]
             h == [n \in Nat |-> IF n = 0 THEN d ELSE MoreDigits(g[n - 1], n)]
  <2>1. ASSUME NEW n \in Nat PROVE g[n] = h[n]
    <3>1. CASE n = 0
      BY <1>4, <3>1
    <3>2. CASE n # 0
      <4>1. g[n - 1] = f[n - 1].digits
        BY <3>2
      <4> QED
        BY <1>3, <3>2, <4>1, Zenon
    <3> QED
      BY <3>1, <3>2, Zenon
  <2>2. g = h
    BY <2>1, Zenon
  <2> HIDE DEF g
  <2> QED
    BY <2>2, Zenon DEF FirstDigits, d
<1>6. Numerals = [n \in Nat |-> IF n = 0 THEN i ELSE MoreNumerals(Numerals[n - 1], n)]
  <2> DEFINE g == [n \in Nat |-> f[n].numerals]
             h == [n \in Nat |-> IF n = 0 THEN i ELSE MoreNumerals(g[n - 1], n)]
  <2>1. ASSUME NEW n \in Nat PROVE g[n] = h[n]
    <3>1. CASE n = 0
      BY <1>4, <3>1
    <3>2. CASE n # 0
      <4>1. g[n - 1] = f[n - 1].numerals
        BY <3>2
      <4> QED
        BY <1>3, <3>2, <4>1, Zenon
    <3> QED
      BY <3>1, <3>2, Zenon
  <2>2. g = h
    BY <2>1, Zenon
  <2> HIDE DEF g
  <2> QED
    BY <2>2, Zenon DEF Numerals, i
<1>7. Joined = [n \in Nat |-> IF n = 0 THEN j ELSE MoreParts(Joined[n - 1], n)]
  <2> DEFINE g == [n \in Nat |-> f[n].joined]
             h == [n \in Nat |-> IF n = 0 THEN j ELSE MoreParts(g[n - 1], n)]
  <2>1. ASSUME NEW n \in Nat PROVE g[n] = h[n]
    <3>1. CASE n = 0
      BY <1>4, <3>1
    <3>2. CASE n # 0
      <4>1. g[n - 1] = f[n - 1].joined
        BY <3>2
      <4> QED
        BY <1>3, <3>2, <4>1, Zenon
    <3> QED
      BY <3>1, <3>2, Zenon
  <2>2. g = h
    BY <2>1, Zenon
  <2> HIDE DEF g
  <2> QED
    BY <2>2, Zenon DEF Joined, j
<1>8. FramesOf = [n \in Nat |-> IF n = 0 THEN Leaf ELSE DeeperFrames(FramesOf[n - 1], n)]
  <2> DEFINE g == [n \in Nat |-> f[n].frames]
             h == [n \in Nat |-> IF n = 0 THEN Leaf ELSE DeeperFrames(g[n - 1], n)]
  <2>1. ASSUME NEW n \in Nat PROVE g[n] = h[n]
    <3>1. CASE n = 0
      BY <1>4, <3>1
    <3>2. CASE n # 0
      <4>1. g[n - 1] = f[n - 1].frames
        BY <3>2
      <4> QED
        BY <1>3, <3>2, <4>1, Zenon
    <3> QED
      BY <3>1, <3>2, Zenon
  <2>2. g = h
    BY <2>1, Zenon
  <2> HIDE DEF g
  <2> QED
    BY <2>2, Zenon DEF FramesOf
<1>9. Written = [n \in Nat |-> IF n = 0 THEN w ELSE DeeperWritten(Written[n - 1], n)]
  <2> DEFINE g == [n \in Nat |-> f[n].written]
             h == [n \in Nat |-> IF n = 0 THEN w ELSE DeeperWritten(g[n - 1], n)]
  <2>1. ASSUME NEW n \in Nat PROVE g[n] = h[n]
    <3>1. CASE n = 0
      BY <1>4, <3>1
    <3>2. CASE n # 0
      <4>1. g[n - 1] = f[n - 1].written
        BY <3>2
      <4> QED
        BY <1>3, <3>2, <4>1, Zenon
    <3> QED
      BY <3>1, <3>2, Zenon
  <2>2. g = h
    BY <2>1, Zenon
  <2> HIDE DEF g
  <2> QED
    BY <2>2, Zenon DEF Written, w
<1>10. Reading = [n \in Nat |-> IF n = 0 THEN NoBytesRead ELSE MoreBytes(Reading[n - 1], n)]
  <2> DEFINE g == [n \in Nat |-> f[n].reading]
             h == [n \in Nat |-> IF n = 0 THEN NoBytesRead ELSE MoreBytes(g[n - 1], n)]
  <2>1. ASSUME NEW n \in Nat PROVE g[n] = h[n]
    <3>1. CASE n = 0
      BY <1>4, <3>1
    <3>2. CASE n # 0
      <4>1. g[n - 1] = f[n - 1].reading
        BY <3>2
      <4> QED
        BY <1>3, <3>2, <4>1, Zenon
    <3> QED
      BY <3>1, <3>2, Zenon
  <2>2. g = h
    BY <2>1, Zenon
  <2> HIDE DEF g
  <2> QED
    BY <2>2, Zenon DEF Reading, NoBytesRead
<1> QED
  BY <1>5, <1>6, <1>7, <1>8, <1>9, <1>10, Zenon DEF d, i, j, w

-----------------------------------------------------------------------------
(* Marks in a byte string *)

(* What is before and after the first mark. *)
LEMMA FirstMark ==
    ASSUME NEW bytes \in Seq(Byte), NEW mark \in Seq(Byte), mark # <<>>, Marks(bytes, mark) # {}
    PROVE  /\ Marks(bytes, mark) \in SUBSET Nat
           /\ Min(Marks(bytes, mark)) \in Marks(bytes, mark)
           /\ Min(Marks(bytes, mark)) \in Nat \ {0}
           /\ Min(Marks(bytes, mark)) - 1 + Len(mark) <= Len(bytes)
           /\ UpTo(bytes, mark) \in Seq(Byte)
           /\ Len(UpTo(bytes, mark)) = Min(Marks(bytes, mark)) - 1
           /\ After(bytes, mark) \in Seq(Byte)
           /\ After(bytes, mark) = SubSeq(bytes, Len(UpTo(bytes, mark)) + Len(mark) + 1, Len(bytes))
           /\ Len(After(bytes, mark)) < Len(bytes)
<1> DEFINE ends == Marks(bytes, mark)
           i == Min(ends)
           k == Len(mark)
           l == Len(bytes)
<1>1. l \in Nat /\ k \in Nat \ {0}
  BY LenProperties, EmptySeq, Zenon
<1> HIDE DEF k, l
<1>2. ends \in SUBSET Nat /\ \A j \in ends : j >= 1 /\ j <= l - k + 1
  BY <1>1 DEF Marks, k, l
<1>3. i \in ends
  <2> HIDE DEF ends
  <2> QED
    BY <1>2, SmallestOf, Zenon DEF ends
<1> HIDE DEF ends, i
<1>4. i \in Nat \ {0} /\ i - 1 + k <= l /\ i - 1 \in 0 .. l /\ i - 1 + k \in 0 .. l /\ i - 1 + k + 1 = i + k
  BY <1>1, <1>2, <1>3
<1>5. SubSeq(bytes, 1, i - 1) \in Seq(Byte) /\ Len(SubSeq(bytes, 1, i - 1)) = i - 1
  BY <1>4, Cut, Zenon DEF l
<1>6. SubSeq(bytes, i + k, l) \in Seq(Byte) /\ Len(SubSeq(bytes, i + k, l)) = l - (i - 1 + k)
  <2> DEFINE n == i - 1 + k
  <2>1. n \in 0 .. l /\ n + 1 = i + k
    BY <1>4, Zenon
  <2> HIDE DEF n
  <2>2. SubSeq(bytes, n + 1, l) \in Seq(Byte) /\ Len(SubSeq(bytes, n + 1, l)) = l - n
    BY <2>1, Cut, Zenon DEF l
  <2> QED
    BY <2>1, <2>2, Zenon DEF n
<1>7. UpTo(bytes, mark) = SubSeq(bytes, 1, i - 1) /\ After(bytes, mark) = SubSeq(bytes, i + k, l)
  BY Zenon DEF UpTo, After, i, k, l, ends
<1>8. l - (i - 1 + k) < l /\ (i - 1) + k + 1 = i + k
  BY <1>1, <1>4
<1>9. /\ ends \in SUBSET Nat /\ i \in ends /\ i \in Nat \ {0} /\ i - 1 + k <= l
      /\ UpTo(bytes, mark) \in Seq(Byte) /\ Len(UpTo(bytes, mark)) = i - 1
      /\ After(bytes, mark) \in Seq(Byte)
      /\ After(bytes, mark) = SubSeq(bytes, Len(UpTo(bytes, mark)) + k + 1, l)
      /\ Len(After(bytes, mark)) < l
  <2>1. Len(UpTo(bytes, mark)) + k + 1 = i + k
    BY <1>5, <1>7, <1>8, Zenon
  <2>2. After(bytes, mark) = SubSeq(bytes, Len(UpTo(bytes, mark)) + k + 1, l)
    BY <1>7, <2>1, Zenon
  <2>3. Len(After(bytes, mark)) < l
    BY <1>6, <1>7, <1>8, Zenon
  <2> QED
    BY <1>2, <1>3, <1>4, <1>5, <1>6, <1>7, <2>2, <2>3, Zenon
<1> QED
  BY <1>9, Zenon DEF i, ends, k, l

(* They do not change when bytes are put behind. *)
LEMMA MarkStays ==
    ASSUME NEW bytes \in Seq(Byte), NEW more \in Seq(Byte), NEW mark \in Seq(Byte), mark # <<>>,
           Marks(bytes, mark) # {}
    PROVE  /\ Marks(bytes \o more, mark) # {}
           /\ UpTo(bytes \o more, mark) = UpTo(bytes, mark)
           /\ After(bytes \o more, mark) = After(bytes, mark) \o more
<1> DEFINE ends == Marks(bytes, mark)
           all == Marks(bytes \o more, mark)
           k == Len(mark)
           l == Len(bytes)
           whole == bytes \o more
           i == Min(ends)
<1>1. /\ l \in Nat /\ k \in Nat \ {0} /\ Len(more) \in Nat
      /\ whole \in Seq(Byte) /\ Len(whole) = l + Len(more)
  BY LenProperties, EmptySeq, ConcatProperties, Zenon
<1>2. /\ ends \in SUBSET Nat /\ i \in ends /\ i \in Nat \ {0} /\ i - 1 + k <= l
      /\ UpTo(bytes, mark) = SubSeq(bytes, 1, i - 1)
      /\ After(bytes, mark) = SubSeq(bytes, i + k, l)
  BY FirstMark, Zenon DEF UpTo, After
<1> HIDE DEF k, l, whole, i
<1>3. ASSUME NEW j \in Nat \ {0}, j - 1 + k <= l PROVE j \in all <=> j \in ends
  <2>1. j \in 1 .. l /\ j + k - 1 \in 1 .. l
    BY <1>1, <1>3
  <2>2. SubSeq(whole, j, j + k - 1) = SubSeq(bytes, j, j + k - 1)
    <3> DEFINE n == j + k - 1
    <3>1. n \in 1 .. l
      BY <2>1, Zenon
    <3> HIDE DEF n
    <3>2. SubSeq(whole, j, n) = SubSeq(bytes, j, n)
      BY <2>1, <3>1, SubSeqOfConcat1, Zenon DEF whole, l
    <3> QED
      BY <3>2, Zenon DEF n
  <2>3. j \in 1 .. l - k + 1 /\ j \in 1 .. Len(whole) - k + 1
    BY <1>1, <1>3
  <2> QED
    BY <2>2, <2>3, Zenon DEF Marks, k, l, whole
<1>4. all \in SUBSET Nat
  BY <1>1 DEF Marks, k, whole
<1>5. ends \subseteq all
  <2>1. \A j \in ends : j \in Nat \ {0} /\ j - 1 + k <= l
    BY <1>1 DEF Marks, k, l
  <2> HIDE DEF ends, all
  <2> QED
    BY <1>3, <2>1, Zenon
<1>6. \A j \in all : j <= i => j \in ends
  <2>1. \A j \in all : j \in Nat \ {0}
    BY <1>1 DEF Marks, k, whole
  <2> HIDE DEF ends, all
  <2> QED
    BY <1>1, <1>2, <1>3, <2>1
<1>7. Min(all) = i
  <2> HIDE DEF ends, all
  <2> QED
    <3>1. ends # {}
      BY <1>2, Zenon
    <3>2. \A t \in all : t <= Min(ends) => t \in ends
      BY <1>6, Zenon DEF i
    <3>3. Min(all) = Min(ends)
      BY <1>2, <1>4, <1>5, <3>1, <3>2, SmallestStays, Zenon
    <3> QED
      BY <3>3, Zenon DEF i
<1>8. UpTo(whole, mark) = SubSeq(whole, 1, i - 1) /\ After(whole, mark) = SubSeq(whole, i + k, Len(whole))
  BY <1>7, Zenon DEF UpTo, After, k, whole
<1>9. SubSeq(whole, 1, i - 1) = SubSeq(bytes, 1, i - 1)
  <2>1. i - 1 \in 0 .. l
    BY <1>1, <1>2
  <2> QED
    BY <2>1, Beginning, Zenon DEF whole, l
<1>10. SubSeq(whole, i + k, Len(whole)) = SubSeq(bytes, i + k, l) \o more
  <2> DEFINE n == i - 1 + k
  <2>1. n \in 0 .. l /\ n + 1 = i + k
    BY <1>1, <1>2
  <2> HIDE DEF n
  <2>2. SubSeq(whole, n + 1, Len(whole)) = SubSeq(bytes, n + 1, l) \o more
    BY <2>1, Ending, Zenon DEF whole, l
  <2> QED
    BY <2>1, <2>2, Zenon
<1>11. all # {}
  BY <1>2, <1>5, Zenon
<1> QED
  BY <1>2, <1>8, <1>9, <1>10, <1>11, Zenon DEF whole

-----------------------------------------------------------------------------
(* What the decoder returns *)

Reasons == {"Complete", "Panicked"} \cup ParseErrors

(* The first frame of a byte string, of which `most` bytes are left. *)
Shape(first, most) ==
    \/ /\ first = IsBlank(first.rest) /\ first.how = "Blank"
       /\ first.rest \in Seq(Byte) /\ Len(first.rest) <= most
    \/ /\ first = IsArray(first.count, first.rest) /\ first.how = "Array"
       /\ first.count \in Nat /\ first.rest \in Seq(Byte) /\ Len(first.rest) <= most
    \/ /\ first = Read(first.frames, first.rest) /\ first.how = "Read"
       /\ IsSeq(first.frames) /\ first.rest \in Seq(Byte) /\ Len(first.rest) <= most
    \/ /\ first = NotRead(first.how) /\ first.how \in Reasons

(* The four of them. *)
LEMMA Shapes ==
    ASSUME NEW most \in Int
    PROVE  /\ \A rest \in Seq(Byte) : Len(rest) <= most => Shape(IsBlank(rest), most)
           /\ \A count \in Nat : \A rest \in Seq(Byte) :
                 Len(rest) <= most => Shape(IsArray(count, rest), most)
           /\ \A frames : \A rest \in Seq(Byte) :
                 IsSeq(frames) /\ Len(rest) <= most => Shape(Read(frames, rest), most)
           /\ \A why \in Reasons : Shape(NotRead(why), most)
<1>1. \A rest \in Seq(Byte) : Len(rest) <= most => Shape(IsBlank(rest), most)
  BY Zenon DEF Shape, IsBlank
<1>2. \A count \in Nat : \A rest \in Seq(Byte) :
         Len(rest) <= most => Shape(IsArray(count, rest), most)
  BY Zenon DEF Shape, IsArray
<1>3. \A frames : \A rest \in Seq(Byte) :
         IsSeq(frames) /\ Len(rest) <= most => Shape(Read(frames, rest), most)
  BY Zenon DEF Shape, Read
<1>4. \A why \in Reasons : Shape(NotRead(why), most)
  BY Zenon DEF Shape, NotRead
<1> QED
  BY <1>1, <1>2, <1>3, <1>4, Zenon

(* One frame is a sequence of frames. *)
LEMMA OneFrame == ASSUME NEW f PROVE IsSeq(<<f>>) /\ IsSeq(<<>>)
<1>1. <<f>> \in Seq({f}) /\ <<>> \in Seq({f})
  OBVIOUS
<1> QED
  BY <1>1, Zenon DEF IsSeq

(* A CRLF and an LF are bytes. *)
LEMMA MarkTypes == CRLF \in Seq(Byte) /\ CRLF # <<>> /\ Len(CRLF) = 2
                   /\ <<LF>> \in Seq(Byte) /\ <<LF>> # <<>> /\ Len(<<LF>>) = 1
<1>1. CR \in Byte /\ LF \in Byte
  BY ByteAssumption, Zenon
<1> QED
  BY <1>1 DEF CRLF

(* A line of text, *)
LEMMA TextShape ==
    ASSUME NEW bytes \in Seq(Byte), NEW type PROVE Shape(DecodeText(type, bytes), Len(bytes))
<1>1. Len(bytes) \in Int /\ "Complete" \in Reasons /\ "UnreadableUtf" \in Reasons
  BY LenProperties DEF Reasons, ParseErrors
<1> DEFINE line == UpTo(bytes, CRLF)
           rest == After(bytes, CRLF)
           f == [type |-> type, text |-> line]
<1>2. ASSUME Marks(bytes, CRLF) # {} PROVE rest \in Seq(Byte) /\ Len(rest) <= Len(bytes)
  <2>1. rest \in Seq(Byte) /\ Len(rest) < Len(bytes)
    BY <1>2, MarkTypes, FirstMark, Zenon
  <2>2. Len(rest) \in Nat
    BY <2>1, LenProperties, Zenon
  <2> HIDE DEF rest
  <2> QED
    BY <1>1, <2>1, <2>2
<1>3. \/ DecodeText(type, bytes) \in {NotRead("Complete"), NotRead("UnreadableUtf")}
      \/ Marks(bytes, CRLF) # {} /\ DecodeText(type, bytes) = Read(<<f>>, rest)
  BY Zenon DEF DecodeText
<1> HIDE DEF f, rest
<1> QED
  BY <1>1, <1>2, <1>3, Shapes, OneFrame, Zenon

(* a line of words, *)
LEMMA InlineShape ==
    ASSUME NEW bytes \in Seq(Byte) PROVE Shape(DecodeInline(bytes), Len(bytes) - 1)
<1> DEFINE line == UpTo(bytes, <<LF>>)
           rest == After(bytes, <<LF>>)
           f == Array([i \in DOMAIN Words(line) |-> Bulk(Words(line)[i])])
<1>1. /\ Len(bytes) \in Int /\ Len(bytes) - 1 \in Int
      /\ "Complete" \in Reasons /\ "UnreadableUtf" \in Reasons
  BY LenProperties DEF Reasons, ParseErrors
<1>2. ASSUME Marks(bytes, <<LF>>) # {} PROVE rest \in Seq(Byte) /\ Len(rest) <= Len(bytes) - 1
  <2>1. rest \in Seq(Byte) /\ Len(rest) < Len(bytes)
    BY <1>2, MarkTypes, FirstMark, Zenon
  <2>2. Len(rest) \in Nat
    BY <2>1, LenProperties, Zenon
  <2> HIDE DEF rest
  <2> QED
    BY <1>1, <2>1, <2>2
<1>3. \/ DecodeInline(bytes) \in {NotRead("Complete"), NotRead("UnreadableUtf")}
      \/ Marks(bytes, <<LF>>) # {} /\ DecodeInline(bytes) \in {IsBlank(rest), Read(<<f>>, rest)}
  BY Zenon DEF DecodeInline
<1> HIDE DEF f, rest
<1> QED
  BY <1>1, <1>2, <1>3, Shapes, OneFrame, Zenon

(* the bytes of a bulk string, *)
LEMMA BulkShape ==
    ASSUME NEW bytes \in Seq(Byte), NEW length \in Nat
    PROVE  Shape(DecodeBulk(length, bytes), Len(bytes))
<1> DEFINE rest == SubSeq(bytes, length + 3, Len(bytes))
           f == Bulk(SubSeq(bytes, 1, length))
           l == Len(bytes)
<1>1. l \in Nat /\ "Complete" \in Reasons /\ "UnreadableBulkString" \in Reasons
  BY LenProperties, Zenon DEF Reasons, ParseErrors
<1>2. ASSUME ~(l < length + 2) PROVE rest \in Seq(Byte) /\ Len(rest) <= l
  <2> DEFINE n == length + 2
  <2>1. n \in 0 .. Len(bytes) /\ n + 1 = length + 3
    BY <1>1, <1>2
  <2> HIDE DEF n
  <2>2. SubSeq(bytes, n + 1, Len(bytes)) \in Seq(Byte) /\ Len(SubSeq(bytes, n + 1, Len(bytes))) = Len(bytes) - n
    BY <2>1, Cut, Zenon
  <2>3. rest \in Seq(Byte) /\ Len(rest) = Len(bytes) - n
    BY <2>1, <2>2, Zenon
  <2> HIDE DEF rest
  <2> QED
    BY <1>1, <2>1, <2>3
<1>3. \/ DecodeBulk(length, bytes) \in {NotRead("Complete"), NotRead("UnreadableBulkString")}
      \/ ~(l < length + 2) /\ DecodeBulk(length, bytes) = Read(<<f>>, rest)
  BY Zenon DEF DecodeBulk
<1> HIDE DEF f, rest, l
<1>4. Shape(DecodeBulk(length, bytes), l)
  BY <1>1, <1>2, <1>3, Shapes, OneFrame
<1> QED
  BY <1>4, Zenon DEF l

(* what follows a length, *)
LEMMA SizedShape ==
    ASSUME NEW bytes \in Seq(Byte), NEW n \in Int, NEW type \in {"$", ":", "*"}
    PROVE  Shape(DecodeSized(type, n, bytes), Len(bytes))
<1>1. /\ Len(bytes) \in Int /\ Len(bytes) <= Len(bytes)
      /\ "InvalidLength" \in Reasons /\ "Panicked" \in Reasons
      /\ CapacityMax \in Nat
  BY LenProperties, WidthAssumption DEF Reasons, ParseErrors
<1>2. CASE type = ":"
  <2>1. DecodeSized(type, n, bytes) = Read(<<Integer(n)>>, bytes)
    BY <1>1, <1>2, Zenon DEF DecodeSized
  <2> QED
    BY <1>1, <2>1, Shapes, OneFrame, Zenon
<1>3. CASE type # ":" /\ n < -1
  <2>1. DecodeSized(type, n, bytes) = NotRead("InvalidLength")
    BY <1>1, <1>3 DEF DecodeSized
  <2> QED
    BY <1>1, <2>1, Shapes, Zenon
<1>4. CASE type = "$" /\ n = -1
  <2>1. DecodeSized(type, n, bytes) = Read(<<Bulk(Null)>>, bytes)
    BY <1>1, <1>4 DEF DecodeSized
  <2> QED
    BY <1>1, <2>1, Shapes, OneFrame, Zenon
<1>5. CASE type = "$" /\ n >= 0
  <2>1. DecodeSized(type, n, bytes) = DecodeBulk(n, bytes) /\ n \in Nat
    BY <1>1, <1>5 DEF DecodeSized
  <2> QED
    BY <2>1, BulkShape, Zenon
<1>6. CASE type = "*" /\ n = -1
  <2>1. DecodeSized(type, n, bytes) = Read(<<Array(Null)>>, bytes)
    BY <1>1, <1>6 DEF DecodeSized
  <2> QED
    BY <1>1, <2>1, Shapes, OneFrame, Zenon
<1>7. CASE type = "*" /\ n \in 0 .. CapacityMax
  <2>1. DecodeSized(type, n, bytes) = IsArray(n, bytes) /\ n \in Nat
    BY <1>1, <1>7 DEF DecodeSized
  <2> QED
    BY <1>1, <2>1, Shapes, Zenon
<1>8. CASE type = "*" /\ n > CapacityMax
  <2>1. DecodeSized(type, n, bytes) = NotRead("Panicked")
    BY <1>1, <1>8 DEF DecodeSized
  <2> QED
    BY <1>1, <2>1, Shapes, Zenon
<1>9. \/ type = ":"
      \/ type # ":" /\ n < -1
      \/ type = "$" /\ (n = -1 \/ n >= 0)
      \/ type = "*" /\ (n = -1 \/ n \in 0 .. CapacityMax \/ n > CapacityMax)
  <2>1. n < -1 \/ n = -1 \/ n >= 0
    OBVIOUS
  <2>2. n >= 0 => n \in 0 .. CapacityMax \/ n > CapacityMax
    BY <1>1
  <2>3. type = "$" \/ type = ":" \/ type = "*"
    OBVIOUS
  <2> QED
    BY <2>1, <2>2, <2>3, Zenon
<1> QED
  BY <1>2, <1>3, <1>4, <1>5, <1>6, <1>7, <1>8, <1>9, Zenon

(* a line with a length and what follows it, *)
LEMMA LengthShape ==
    ASSUME NEW bytes \in Seq(Byte), NEW type \in {"$", ":", "*"}
    PROVE  Shape(DecodeLength(type, bytes), Len(bytes))
<1> DEFINE line == UpTo(bytes, CRLF)
           rest == After(bytes, CRLF)
           l == Len(bytes)
<1>1. l \in Nat /\ "Complete" \in Reasons /\ "InvalidLength" \in Reasons
  BY LenProperties, Zenon DEF Reasons, ParseErrors
<1>2. ASSUME Marks(bytes, CRLF) # {} PROVE rest \in Seq(Byte) /\ Len(rest) \in Nat /\ Len(rest) < l
  <2>1. rest \in Seq(Byte) /\ Len(rest) < l
    BY <1>2, MarkTypes, FirstMark, Zenon
  <2> QED
    BY <2>1, LenProperties, Zenon
<1>3. IsI64(line) => I64Of(line) \in Int
  BY WidthAssumption DEF IsI64
<1>4. \/ DecodeLength(type, bytes) \in {NotRead("Complete"), NotRead("InvalidLength")}
      \/ /\ Marks(bytes, CRLF) # {} /\ IsI64(line)
         /\ DecodeLength(type, bytes) = DecodeSized(type, I64Of(line), rest)
  BY Zenon DEF DecodeLength
<1> HIDE DEF line, rest, l
<1>5. CASE DecodeLength(type, bytes) \in {NotRead("Complete"), NotRead("InvalidLength")}
  BY <1>1, <1>5, Shapes DEF l
<1>6. CASE /\ Marks(bytes, CRLF) # {} /\ IsI64(line)
           /\ DecodeLength(type, bytes) = DecodeSized(type, I64Of(line), rest)
  <2>1. Shape(DecodeSized(type, I64Of(line), rest), Len(rest))
    BY <1>2, <1>3, <1>6, SizedShape, Zenon
  <2>2. \A n : n <= Len(rest) /\ n \in Nat => n <= l
    BY <1>1, <1>2, <1>6
  <2>3. ASSUME NEW first, Shape(first, Len(rest)) PROVE Shape(first, l)
    <3>1. first.rest \in Seq(Byte) => Len(first.rest) \in Nat
      BY LenProperties, Zenon
    <3> QED
      BY <2>2, <2>3, <3>1, Zenon DEF Shape
  <2> QED
    BY <1>6, <2>1, <2>3, Zenon DEF l
<1> QED
  BY <1>4, <1>5, <1>6, Zenon

(* and any frame at all: some bytes are always consumed. *)
LEMMA FirstShape ==
    ASSUME NEW bytes \in Seq(Byte) PROVE Shape(DecodeFirst(bytes), Len(bytes) - 1)
<1>1. Len(bytes) \in Nat /\ Len(bytes) - 1 \in Int /\ "Complete" \in Reasons
  BY LenProperties DEF Reasons
<1>2. CASE bytes = <<>>
  <2>1. DecodeFirst(bytes) = NotRead("Complete")
    BY <1>2, Zenon DEF DecodeFirst
  <2> QED
    BY <1>1, <2>1, Shapes, Zenon
<1>3. CASE bytes # <<>>
  <2>1. Tail(bytes) \in Seq(Byte) /\ Len(Tail(bytes)) = Len(bytes) - 1
    BY <1>3, HeadTailProperties, Zenon
  <2>2. CASE Head(bytes) \in {"+", "-"}
    <3>1. DecodeFirst(bytes) = DecodeText(Head(bytes), Tail(bytes))
      BY <1>3, <2>2, Zenon DEF DecodeFirst
    <3>2. Shape(DecodeText(Head(bytes), Tail(bytes)), Len(Tail(bytes)))
      BY <2>1, TextShape, Zenon
    <3> QED
      BY <2>1, <3>1, <3>2, Zenon
  <2>3. CASE Head(bytes) \in {"$", ":", "*"}
    <3>1. DecodeFirst(bytes) = DecodeLength(Head(bytes), Tail(bytes))
      BY <1>3, <2>3, Zenon DEF DecodeFirst
    <3>2. Shape(DecodeLength(Head(bytes), Tail(bytes)), Len(Tail(bytes)))
      BY <2>1, <2>3, LengthShape, Zenon
    <3> QED
      BY <2>1, <3>1, <3>2, Zenon
  <2>4. CASE Head(bytes) \notin {"+", "-"} \cup {"$", ":", "*"}
    <3>1. DecodeFirst(bytes) = DecodeInline(bytes)
      BY <1>3, <2>4, Zenon DEF DecodeFirst
    <3> QED
      BY <3>1, InlineShape, Zenon
  <2> QED
    BY <2>2, <2>3, <2>4, Zenon
<1> QED
  BY <1>2, <1>3, Zenon

-----------------------------------------------------------------------------
(* The decoder satisfies its equation *)

(* A number of frames, and at most `most` bytes left. *)
Result(r, most) ==
    /\ r = [how |-> r.how, frames |-> r.frames, rest |-> r.rest]
    /\ r.how \in Reasons \cup {"Read"}
    /\ IsSeq(r.frames)
    /\ r.rest \in Seq(Byte) /\ Len(r.rest) <= most

(* A bound on what a result leaves may be a larger one. *)
LEMMA ResultWithin ==
    ASSUME NEW r, NEW least \in Int, NEW most \in Int, Result(r, least), least <= most
    PROVE  Result(r, most)
<1>1. r.rest \in Seq(Byte) /\ Len(r.rest) <= least
  BY Zenon DEF Result
<1>2. Len(r.rest) \in Nat
  BY <1>1, LenProperties, Zenon
<1>3. Len(r.rest) <= most
  BY <1>1, <1>2
<1> QED
  BY <1>1, <1>3, Zenon DEF Result

(* Frames before a result, *)
LEMMA BehindResult ==
    ASSUME NEW frames, IsSeq(frames), NEW most, NEW r, Result(r, most)
    PROVE  /\ Result(Behind(frames, r), most)
           /\ Behind(frames, r).how = r.how /\ Behind(frames, r).rest = r.rest
           /\ Behind(frames, r).frames = frames \o r.frames
           /\ Behind(<<>>, r) = r
<1>1. IsSeq(frames \o r.frames) /\ <<>> \o r.frames = r.frames
  BY Concatenated, Zenon DEF Result
<1> QED
  BY <1>1, Zenon DEF Result, Behind

(* and the array of the frames of one. *)
LEMMA ArrayShape ==
    ASSUME NEW most \in Int, NEW r, Result(r, most)
    PROVE  /\ Shape(AsArray(r), most) /\ AsArray(r).how \notin {"Blank", "Array"}
           /\ AsArray(r).how = r.how
<1>1. r.how \in Reasons \cup {"Read"} /\ r.rest \in Seq(Byte) /\ Len(r.rest) <= most
  BY Zenon DEF Result
<1>2. CASE r.how = "Read"
  <2>1. AsArray(r) = Read(<<Array(r.frames)>>, r.rest)
    BY <1>2, Zenon DEF AsArray
  <2>2. IsSeq(<<Array(r.frames)>>)
    BY OneFrame, Zenon
  <2>3. Shape(AsArray(r), most)
    BY <1>1, <2>1, <2>2, Shapes, Zenon
  <2> QED
    BY <1>2, <2>1, <2>3 DEF Read
<1>3. CASE r.how # "Read"
  <2>1. AsArray(r) = NotRead(r.how) /\ r.how \in Reasons
    BY <1>1, <1>3, Zenon DEF AsArray
  <2>2. Shape(AsArray(r), most)
    BY <2>1, Shapes, Zenon
  <2> QED
    BY <2>1, <2>2 DEF NotRead, Reasons, ParseErrors
<1> QED
  BY <1>2, <1>3, Zenon

(* Two readers that agree on fewer than `size` bytes, *)
Agree(reader, other, size) ==
    \A count \in Int : \A bytes \in Seq(Byte) :
        Len(bytes) < size => /\ reader[count][bytes] = other[count][bytes]
                             /\ Result(reader[count][bytes], Len(bytes))

(* agree on what follows a frame, *)
LEMMA SameReadOn ==
    ASSUME NEW reader, NEW other, NEW size \in Nat, Agree(reader, other, size),
           NEW one, Shape(one, size - 1), one.how \notin {"Blank", "Array"}, NEW count \in Int
    PROVE  /\ ReadOn(reader, count, one) = ReadOn(other, count, one)
           /\ Result(ReadOn(reader, count, one), size)
<1>1. CASE one.how = "Read"
  <2> DEFINE r == reader[count - 1][one.rest]
  <2>1. IsSeq(one.frames) /\ one.rest \in Seq(Byte) /\ Len(one.rest) <= size - 1
    BY <1>1, Zenon DEF Shape, Reasons, ParseErrors
  <2>2. Len(one.rest) \in Nat /\ Len(one.rest) < size /\ count - 1 \in Int
    BY <2>1, LenProperties
  <2>3. r = other[count - 1][one.rest] /\ Result(r, Len(one.rest))
    BY <2>1, <2>2, Zenon DEF Agree
  <2>4. Result(r, size)
    <3>1. Len(one.rest) \in Int /\ size \in Int /\ Len(one.rest) <= size
      BY <2>2
    <3> HIDE DEF r
    <3> QED
      BY <2>3, <3>1, ResultWithin, Zenon
  <2>5. ReadOn(reader, count, one) = Behind(one.frames, r) /\ ReadOn(other, count, one) = Behind(one.frames, r)
    BY <1>1, <2>3, Zenon DEF ReadOn
  <2> HIDE DEF r
  <2> QED
    BY <2>1, <2>4, <2>5, BehindResult
<1>2. CASE one.how # "Read"
  <2>1. one = NotRead(one.how) /\ one.how \in Reasons
    BY <1>2, Zenon DEF Shape
  <2>2. ReadOn(reader, count, one) = one /\ ReadOn(other, count, one) = one
    BY <1>2, Zenon DEF ReadOn
  <2>3. IsSeq(<<>>)
    BY EmptySeq, Zenon DEF IsSeq
  <2>4. <<>> \in Seq(Byte) /\ Len(<<>>) <= size
    OBVIOUS
  <2>5. one.frames = <<>> /\ one.rest = <<>>
        /\ one = [how |-> one.how, frames |-> one.frames, rest |-> one.rest]
    BY <2>1 DEF NotRead
  <2> QED
    BY <2>1, <2>2, <2>3, <2>4, <2>5, Zenon DEF Result
<1> QED
  BY <1>1, <1>2, Zenon

(* and on what is read from there on. *)
LEMMA SameReadFrom ==
    ASSUME NEW reader, NEW other, NEW size \in Nat, Agree(reader, other, size),
           NEW first, Shape(first, size - 1), NEW count \in Int
    PROVE  /\ ReadFrom(reader, count, first) = ReadFrom(other, count, first)
           /\ Result(ReadFrom(reader, count, first), size)
<1>1. CASE first.how = "Blank"
  <2>1. first.rest \in Seq(Byte) /\ Len(first.rest) <= size - 1
    BY <1>1, Zenon DEF Shape, Reasons, ParseErrors
  <2>2. Len(first.rest) \in Nat /\ Len(first.rest) < size
    BY <2>1, LenProperties
  <2> DEFINE r == reader[count][first.rest]
  <2>3. r = other[count][first.rest] /\ Result(r, Len(first.rest))
    BY <2>1, <2>2, Zenon DEF Agree
  <2>4. Result(r, size)
    <3>1. Len(first.rest) \in Int /\ size \in Int /\ Len(first.rest) <= size
      BY <2>2
    <3> HIDE DEF r
    <3> QED
      BY <2>3, <3>1, ResultWithin, Zenon
  <2>5. ReadFrom(reader, count, first) = r /\ ReadFrom(other, count, first) = r
    BY <1>1, <2>3, Zenon DEF ReadFrom
  <2> QED
    BY <2>4, <2>5, Zenon
<1>2. CASE first.how = "Array"
  <2>1. first.count \in Nat /\ first.rest \in Seq(Byte) /\ Len(first.rest) <= size - 1
    BY <1>2, Zenon DEF Shape, Reasons, ParseErrors
  <2>2. first.count \in Int /\ Len(first.rest) \in Nat /\ Len(first.rest) < size
    BY <2>1, LenProperties
  <2> DEFINE r == reader[first.count][first.rest]
             one == AsArray(r)
  <2>3. r = other[first.count][first.rest] /\ Result(r, Len(first.rest))
    BY <2>1, <2>2, Zenon DEF Agree
  <2>4. Result(r, size - 1)
    <3>1. Len(first.rest) \in Int /\ size - 1 \in Int /\ Len(first.rest) <= size - 1
      BY <2>1, <2>2
    <3> HIDE DEF r
    <3> QED
      BY <2>3, <3>1, ResultWithin, Zenon
  <2>5. /\ ReadFrom(reader, count, first) = ReadOn(reader, count, one)
        /\ ReadFrom(other, count, first) = ReadOn(other, count, one)
    BY <1>2, <2>3, Zenon DEF ReadFrom
  <2>6. Shape(one, size - 1) /\ one.how \notin {"Blank", "Array"}
    <3>1. size - 1 \in Int
      OBVIOUS
    <3> HIDE DEF r
    <3> QED
      BY <2>4, <3>1, ArrayShape, Zenon
  <2> HIDE DEF one
  <2> QED
    BY <2>5, <2>6, SameReadOn
<1>3. CASE first.how \notin {"Blank", "Array"}
  <2>1. /\ ReadFrom(reader, count, first) = ReadOn(reader, count, first)
        /\ ReadFrom(other, count, first) = ReadOn(other, count, first)
    BY <1>3, Zenon DEF ReadFrom
  <2> QED
    BY <1>3, <2>1, SameReadOn
<1> QED
  BY <1>1, <1>2, <1>3, Zenon

(* Reading, unfolded. *)
LEMMA ReadingStep ==
    ASSUME NEW n \in Nat \ {0}, NEW count \in Int, NEW bytes \in Seq(Byte)
    PROVE  Reading[n][count][bytes] =
              IF count = 0 THEN Read(<<>>, bytes) ELSE ReadFrom(Reading[n - 1], count, DecodeFirst(bytes))
<1> DEFINE before == Reading[n - 1]
<1>1. Reading = [i \in Nat |-> IF i = 0 THEN NoBytesRead ELSE MoreBytes(Reading[i - 1], i)]
  BY Unfolded, Zenon
<1>2. Reading[n] = MoreBytes(before, n)
  BY <1>1, Zenon
<1> HIDE DEF before
<1>3. MoreBytes(before, n)[count][bytes] =
         IF count = 0 THEN Read(<<>>, bytes) ELSE ReadFrom(before, count, DecodeFirst(bytes))
  BY Zenon DEF MoreBytes
<1> QED
  BY <1>2, <1>3, Zenon DEF before

(* One step of two readers that agree. *)
LEMMA SameStep ==
    ASSUME NEW reader, NEW other, NEW count \in Int, NEW bytes \in Seq(Byte),
           Agree(reader, other, Len(bytes))
    PROVE  LET r == IF count = 0 THEN Read(<<>>, bytes)
                                 ELSE ReadFrom(reader, count, DecodeFirst(bytes))
               o == IF count = 0 THEN Read(<<>>, bytes)
                                 ELSE ReadFrom(other, count, DecodeFirst(bytes))
           IN  r = o /\ Result(r, Len(bytes))
<1>1. Len(bytes) \in Nat /\ Len(bytes) <= Len(bytes)
  BY LenProperties
<1>2. CASE count = 0
  <2>1. IsSeq(<<>>)
    BY EmptySeq, Zenon DEF IsSeq
  <2>2. Result(Read(<<>>, bytes), Len(bytes))
    BY <1>1, <2>1, Zenon DEF Result, Read
  <2> QED
    BY <1>2, <2>2, Zenon
<1>3. CASE count # 0
  <2> DEFINE size == Len(bytes)
             first == DecodeFirst(bytes)
  <2>1. size \in Nat /\ Shape(first, size - 1) /\ Agree(reader, other, size)
    BY <1>1, FirstShape, Zenon
  <2> HIDE DEF size, first
  <2>2. /\ ReadFrom(reader, count, first) = ReadFrom(other, count, first)
        /\ Result(ReadFrom(reader, count, first), size)
    BY <2>1, SameReadFrom, Zenon
  <2> QED
    BY <1>3, <2>2, Zenon DEF first, size
<1> QED
  BY <1>2, <1>3, Zenon

(* Fewer steps than bytes are all the same. *)
LEMMA ReadingStable == \A n \in Nat : \A m \in 0 .. n : Agree(Reading[n], Reading[m], m)
<1> DEFINE P(n) == \A m \in 0 .. n : Agree(Reading[n], Reading[m], m)
           T == {n \in Nat : ~P(n)}
<1> SUFFICES ASSUME T # {} PROVE FALSE
  OBVIOUS
<1>1. PICK n \in T : \A k \in T : n <= k
  <2>1. T \in SUBSET Nat
    OBVIOUS
  <2> HIDE DEF T
  <2> QED
    BY <2>1, SmallestOf, Zenon
<1>2. n \in Nat /\ ~P(n)
  BY <1>1, Zenon
<1>3. n # 0 => n - 1 \in Nat /\ P(n - 1)
  <2> SUFFICES ASSUME n # 0 PROVE n - 1 \in Nat /\ P(n - 1)
    OBVIOUS
  <2>1. n - 1 \in Nat /\ ~(n <= n - 1)
    BY <1>2
  <2>2. n - 1 \notin T
    BY <1>1, <2>1, Zenon
  <2> QED
    BY <2>1, <2>2, Zenon
<1> HIDE DEF P, T
<1>4. ASSUME NEW m \in 0 .. n, NEW count \in Int, NEW bytes \in Seq(Byte), Len(bytes) < m
      PROVE  /\ Reading[n][count][bytes] = Reading[m][count][bytes]
             /\ Result(Reading[n][count][bytes], Len(bytes))
  <2>1. Len(bytes) \in Nat
    BY LenProperties, Zenon
  <2>2. n \in Nat \ {0} /\ m \in Nat \ {0} /\ m - 1 \in 0 .. n - 1 /\ Len(bytes) <= m - 1
    BY <1>2, <1>4, <2>1
  <2>3. Agree(Reading[n - 1], Reading[m - 1], m - 1)
    BY <1>3, <2>2, Zenon DEF P
  <2>4. Agree(Reading[n - 1], Reading[m - 1], Len(bytes))
    <3>1. \A b \in Seq(Byte) : Len(b) \in Nat
      BY LenProperties, Zenon
    <3>2. \A b \in Seq(Byte) : Len(b) < Len(bytes) => Len(b) < m - 1
      BY <2>1, <2>2, <3>1
    <3> QED
      BY <2>3, <3>2, Zenon DEF Agree
  <2> DEFINE reader == Reading[n - 1]
             other == Reading[m - 1]
  <2>5. /\ Reading[n][count][bytes] = IF count = 0 THEN Read(<<>>, bytes)
                                      ELSE ReadFrom(reader, count, DecodeFirst(bytes))
        /\ Reading[m][count][bytes] = IF count = 0 THEN Read(<<>>, bytes)
                                      ELSE ReadFrom(other, count, DecodeFirst(bytes))
    BY <2>2, ReadingStep, Zenon
  <2>6. Agree(reader, other, Len(bytes))
    BY <2>4, Zenon
  <2> HIDE DEF reader, other
  <2> QED
    BY <2>5, <2>6, SameStep, Zenon
<1>5. P(n)
  BY <1>4, Zenon DEF P, Agree
<1> QED
  BY <1>2, <1>5, Zenon

(* What Reader returns, and what it is in terms of itself. *)
LEMMA ReaderEquation ==
    ASSUME NEW count \in Int, NEW bytes \in Seq(Byte)
    PROVE  /\ Reader[count][bytes] =
                IF count = 0 THEN Read(<<>>, bytes) ELSE ReadFrom(Reader, count, DecodeFirst(bytes))
           /\ Result(Reader[count][bytes], Len(bytes))
<1> DEFINE size == Len(bytes)
           before == Reading[size]
<1>1. size \in Nat /\ size + 1 \in Nat \ {0} /\ (size + 1) - 1 = size
  BY LenProperties
<1> HIDE DEF size
<1>2. Agree(before, Reader, size)
  <2> SUFFICES ASSUME NEW c \in Int, NEW b \in Seq(Byte), Len(b) < size
               PROVE  before[c][b] = Reader[c][b] /\ Result(before[c][b], Len(b))
    BY Zenon DEF Agree
  <2>1. Len(b) \in Nat /\ Len(b) + 1 \in 0 .. size /\ Len(b) < Len(b) + 1
    BY <1>1, LenProperties
  <2>2. Agree(before, Reading[Len(b) + 1], Len(b) + 1)
    BY <1>1, <2>1, ReadingStable, Zenon
  <2>3. Reader[c][b] = Reading[Len(b) + 1][c][b]
    BY Zenon DEF Reader
  <2> QED
    BY <2>1, <2>2, <2>3, Zenon DEF Agree
<1>3. Reader[count][bytes] = Reading[size + 1][count][bytes]
  BY Zenon DEF Reader, size
<1>4. Reading[size + 1][count][bytes] =
        IF count = 0 THEN Read(<<>>, bytes) ELSE ReadFrom(before, count, DecodeFirst(bytes))
  BY <1>1, ReadingStep, Zenon
<1> HIDE DEF before
<1> QED
  BY <1>2, <1>3, <1>4, SameStep, ZenonT(40) DEF size

-----------------------------------------------------------------------------
(* Decimal numbers *)

(* The digits are bytes, each with a value of its own. *)
LEMMA DigitFacts ==
    ASSUME NEW i \in 0 .. 9
    PROVE  /\ Digits[i + 1] \in Byte /\ Digits[i + 1] \in Range(Digits)
           /\ DigitValue(Digits[i + 1]) = i
<1>1. i + 1 \in 1 .. 10 /\ DOMAIN Digits = 1 .. 10
  BY DEF Digits
<1>2. Digits[i + 1] \in Byte /\ Digits[i + 1] \in Range(Digits)
  BY <1>1, ByteAssumption, Zenon DEF Range
<1>3. \A n \in 0 .. 9 : Digits[n + 1] = Digits[i + 1] => n = i
  BY DEF Digits
<1>4. DigitValue(Digits[i + 1]) = i
  BY <1>3, Zenon DEF DigitValue
<1> QED
  BY <1>2, <1>4, Zenon

(* None of them is a sign, or a CR. *)
LEMMA NoSigns == {"+", "-", CR} \cap Range(Digits) = {}
<1>1. \A n \in 1 .. 10 : Digits[n] \notin {"+", "-", CR}
  BY DEF Digits, CR
<1>2. DOMAIN Digits = 1 .. 10
  BY DEF Digits
<1> QED
  BY <1>1, <1>2, Zenon DEF Range

(* What digits are worth, *)
LEMMA DigitsWorth ==
    ASSUME NEW s \in Seq(Byte)
    PROVE  /\ FirstDigits[0][s] = 0
           /\ \A n \in Nat \ {0} : FirstDigits[n][s] = 10 * FirstDigits[n - 1][s] + DigitValue(s[n])
<1>1. \A n \in Nat : FirstDigits[n] = IF n = 0 THEN [digits \in Seq(Byte) |-> 0]
                                      ELSE MoreDigits(FirstDigits[n - 1], n)
  BY Unfolded, Zenon
<1>2. FirstDigits[0][s] = 0
  <2>1. FirstDigits[0] = [digits \in Seq(Byte) |-> 0]
    BY <1>1, Zenon
  <2> QED
    BY <2>1, Zenon
<1>3. ASSUME NEW n \in Nat \ {0}
      PROVE  FirstDigits[n][s] = 10 * FirstDigits[n - 1][s] + DigitValue(s[n])
  <2>1. FirstDigits[n] = MoreDigits(FirstDigits[n - 1], n)
    BY <1>1, Zenon
  <2> QED
    BY <2>1, Zenon DEF MoreDigits
<1> QED
  BY <1>2, <1>3, Zenon

(* which does not depend on the ones that follow. *)
LEMMA DigitsBefore ==
    ASSUME NEW s \in Seq(Byte), NEW t \in Seq(Byte)
    PROVE  \A n \in 0 .. Len(s) : FirstDigits[n][s \o t] = FirstDigits[n][s]
<1> DEFINE T == {n \in 0 .. Len(s) : FirstDigits[n][s \o t] # FirstDigits[n][s]}
<1>1. s \o t \in Seq(Byte) /\ Len(s) \in Nat /\ \A i \in 1 .. Len(s) : (s \o t)[i] = s[i]
  BY ConcatProperties, LenProperties
<1>2. T = {}
  <2> SUFFICES ASSUME T # {} PROVE FALSE
    OBVIOUS
  <2> DEFINE n == Min(T)
  <2>1. T \in SUBSET Nat
    BY <1>1
  <2>2. n \in T /\ \A i \in T : n <= i
    <3> HIDE DEF T
    <3> QED
      BY <2>1, SmallestOf, Zenon
  <2> HIDE DEF n
  <2>3. n \in 0 .. Len(s) /\ FirstDigits[n][s \o t] # FirstDigits[n][s]
    BY <2>2, Zenon
  <2>4. CASE n = 0
    BY <1>1, <2>3, <2>4, DigitsWorth, Zenon
  <2>5. CASE n # 0
    <3>1. n \in Nat \ {0} /\ n \in 1 .. Len(s) /\ n - 1 \in 0 .. Len(s) /\ ~(n <= n - 1)
      BY <1>1, <2>3, <2>5
    <3>2. FirstDigits[n - 1][s \o t] = FirstDigits[n - 1][s]
      BY <2>2, <3>1, Zenon
    <3>3. FirstDigits[n][s \o t] = 10 * FirstDigits[n - 1][s \o t] + DigitValue((s \o t)[n])
      BY <1>1, <3>1, DigitsWorth, Zenon
    <3>4. FirstDigits[n][s] = 10 * FirstDigits[n - 1][s] + DigitValue(s[n])
      BY <3>1, DigitsWorth, Zenon
    <3>5. (s \o t)[n] = s[n]
      BY <1>1, <3>1, Zenon
    <3> QED
      BY <2>3, <3>2, <3>3, <3>4, <3>5, Zenon
  <2> QED
    BY <2>4, <2>5, Zenon
<1> QED
  BY <1>2, Zenon

(* Digits that are worth i. *)
IsNumeral(s, i) == /\ s \in Seq(Byte) /\ s # <<>> /\ Range(s) \subseteq Range(Digits)
                   /\ FirstDigits[Len(s)][s] = i

(* One digit, *)
LEMMA OneDigit == ASSUME NEW i \in 0 .. 9 PROVE IsNumeral(<<Digits[i + 1]>>, i)
<1> DEFINE d == Digits[i + 1]
           s == <<d>>
<1>1. d \in Byte /\ d \in Range(Digits) /\ DigitValue(d) = i
  BY DigitFacts, Zenon
<1> HIDE DEF d
<1>2. s \in Seq(Byte) /\ Len(s) = 1 /\ s[1] = d /\ s # <<>> /\ DOMAIN s = 1 .. 1
  BY <1>1
<1> HIDE DEF s
<1>3. Range(s) \subseteq Range(Digits)
  BY <1>1, <1>2 DEF Range
<1>4. FirstDigits[1][s] = 10 * FirstDigits[0][s] + DigitValue(s[1]) /\ FirstDigits[0][s] = 0
  <2>1. 1 \in Nat \ {0} /\ 1 - 1 = 0
    OBVIOUS
  <2>2. FirstDigits[1][s] = 10 * FirstDigits[1 - 1][s] + DigitValue(s[1]) /\ FirstDigits[0][s] = 0
    BY <1>2, <2>1, DigitsWorth, Zenon
  <2> QED
    BY <2>1, <2>2, Zenon
<1>5. IsNumeral(s, i)
  BY <1>1, <1>2, <1>3, <1>4 DEF IsNumeral
<1> QED
  BY <1>5, Zenon DEF s, d

(* and one more. *)
LEMMA DigitMore ==
    ASSUME NEW p, NEW q \in Nat, IsNumeral(p, q), NEW i \in 0 .. 9
    PROVE  IsNumeral(p \o <<Digits[i + 1]>>, 10 * q + i)
<1> DEFINE d == Digits[i + 1]
           t == <<d>>
           s == p \o t
           l == Len(p)
<1>1. d \in Byte /\ d \in Range(Digits) /\ DigitValue(d) = i
  BY DigitFacts, Zenon
<1> HIDE DEF d
<1>2. t \in Seq(Byte) /\ Len(t) = 1 /\ t[1] = d /\ DOMAIN t = 1 .. 1
  BY <1>1
<1> HIDE DEF t
<1>3. p \in Seq(Byte) /\ l \in Nat /\ Range(p) \subseteq Range(Digits) /\ FirstDigits[l][p] = q
  BY LenProperties, Zenon DEF IsNumeral
<1>4. /\ s \in Seq(Byte) /\ Len(s) = l + 1 /\ s[l + 1] = d /\ s # <<>>
  <2> DEFINE k == l + 1
  <2>1. k \in 1 .. l + Len(t) /\ ~(k <= l) /\ k - l = 1 /\ l + Len(t) = k
    BY <1>2, <1>3
  <2> HIDE DEF k
  <2>2. s \in Seq(Byte) /\ Len(s) = l + Len(t) /\ s[k] = t[k - l]
    BY <1>2, <1>3, <2>1, ConcatProperties, Zenon
  <2>3. s # <<>>
    BY <1>3, <2>1, <2>2, EmptySeq DEF k
  <2> QED
    BY <1>2, <2>1, <2>2, <2>3, Zenon DEF k
<1>5. Range(s) \subseteq Range(Digits)
  <2>1. Range(t) \subseteq Range(Digits)
    BY <1>1, <1>2 DEF Range
  <2>2. Range(s) = Range(p) \cup Range(t)
    BY <1>2, <1>3, RangeConcatenation
  <2> QED
    BY <1>3, <2>1, <2>2, Zenon
<1>6. FirstDigits[l][s] = q
  <2>1. l \in 0 .. Len(p)
    BY <1>3
  <2> QED
    BY <1>2, <1>3, <2>1, DigitsBefore, Zenon
<1> HIDE DEF s, l
<1>7. FirstDigits[l + 1][s] = 10 * q + i
  <2> DEFINE k == l + 1
  <2>1. k \in Nat \ {0} /\ k - 1 = l
    BY <1>3
  <2> HIDE DEF k
  <2>2. FirstDigits[k][s] = 10 * FirstDigits[k - 1][s] + DigitValue(s[k])
    BY <1>4, <2>1, DigitsWorth, Zenon
  <2> QED
    BY <1>1, <1>4, <1>6, <2>1, <2>2, Zenon DEF k
<1>8. IsNumeral(s, 10 * q + i)
  BY <1>4, <1>5, <1>7, Zenon DEF IsNumeral
<1> QED
  BY <1>8, Zenon DEF s, t, d

(* What is written for a number reads as it. *)
LEMMA NumeralsRead == \A n \in Nat : \A i \in 0 .. n : IsNumeral(Numerals[n][i], i)
<1> DEFINE P(n) == \A i \in 0 .. n : IsNumeral(Numerals[n][i], i)
           T == {n \in Nat : ~P(n)}
<1>1. \A n \in Nat : Numerals[n] = IF n = 0 THEN [i \in Nat |-> <<Digits[1]>>]
                                   ELSE MoreNumerals(Numerals[n - 1], n)
  BY Unfolded, Zenon
<1>2. T = {}
  <2> SUFFICES ASSUME T # {} PROVE FALSE
    OBVIOUS
  <2> DEFINE n == Min(T)
  <2>1. n \in T /\ \A m \in T : n <= m
    <3>1. T \in SUBSET Nat
      OBVIOUS
    <3> HIDE DEF T
    <3> QED
      BY <3>1, SmallestOf, Zenon
  <2> HIDE DEF n
  <2>2. n \in Nat /\ ~P(n) /\ \A m \in Nat : m < n => P(m)
    <3>1. n \in Nat /\ ~P(n)
      BY <2>1, Zenon
    <3>2. \A m \in Nat : ~P(m) => m \in T
      OBVIOUS
    <3> HIDE DEF P, T
    <3> QED
      BY <2>1, <3>1, <3>2
  <2>3. PICK i \in 0 .. n : ~IsNumeral(Numerals[n][i], i)
    BY <2>2, Zenon
  <2>4. i \in Nat /\ i <= n
    BY <2>2, <2>3
  <2>5. CASE n = 0
    <3>1. Numerals[n][i] = <<Digits[0 + 1]>> /\ i = 0
      BY <1>1, <2>4, <2>5
    <3>2. IsNumeral(<<Digits[0 + 1]>>, 0)
      BY OneDigit
    <3> QED
      BY <2>3, <3>1, <3>2, Zenon
  <2>6. CASE n # 0
    <3>1. Numerals[n] = MoreNumerals(Numerals[n - 1], n)
      BY <1>1, <2>2, <2>6, Zenon
    <3>2. CASE i < 10
      <4>1. i \in 0 .. 9
        BY <2>4, <3>2
      <4>2. Numerals[n][i] = <<Digits[i + 1]>>
        BY <2>4, <3>1, <3>2, Zenon DEF MoreNumerals
      <4> QED
        BY <2>3, <4>1, <4>2, OneDigit, Zenon
    <3>3. CASE ~(i < 10)
      <4> DEFINE q == i \div 10
                 r == i % 10
                 p == Numerals[n - 1][q]
      <4>1. q \in Nat /\ r \in 0 .. 9 /\ 10 * q + r = i
        BY <2>4
      <4>2. Numerals[n][i] = p \o <<Digits[r + 1]>>
        BY <2>4, <3>1, <3>3, Zenon DEF MoreNumerals
      <4> HIDE DEF q, r
      <4>3. n - 1 \in Nat /\ n - 1 < n /\ q \in 0 .. n - 1
        BY <2>2, <2>4, <2>6, <3>3, <4>1
      <4>4. IsNumeral(p, q)
        BY <2>2, <4>3, Zenon
      <4> HIDE DEF p
      <4>5. IsNumeral(p \o <<Digits[r + 1]>>, 10 * q + r)
        BY <4>1, <4>4, DigitMore, Zenon
      <4> QED
        BY <2>3, <4>1, <4>2, <4>5, Zenon
    <3> QED
      BY <3>2, <3>3, Zenon
  <2> QED
    BY <2>5, <2>6, Zenon
<1> QED
  BY <1>2, Zenon

(* A pair of bytes is CRLF if its bytes are. *)
LEMMA LineEndAt ==
    ASSUME NEW s \in Seq(Byte), NEW i \in 1 .. Len(s) - 1
    PROVE  SubSeq(s, i, i + 1) = CRLF <=> s[i] = CR /\ s[i + 1] = LF
<1> DEFINE j == i + 1
           t == SubSeq(s, i, j)
<1>1. /\ Len(s) \in Nat /\ i \in Int /\ j \in Int /\ i \in 1 .. Len(s) /\ j \in 1 .. Len(s)
      /\ i <= j /\ j - i + 1 = 2 /\ i + 1 - 1 = i /\ i + 2 - 1 = j
      /\ \A k \in i .. j : k \in 1 .. Len(s)
  BY LenProperties
<1>2. \A k \in i .. j : s[k] \in Byte
  BY <1>1, ElementOfSeq, Zenon
<1> HIDE DEF j
<1>3. t \in Seq(Byte) /\ Len(t) = 2 /\ t[1] = s[i + 1 - 1] /\ t[2] = s[i + 2 - 1]
  <2>1. /\ t \in Seq(Byte) /\ Len(t) = (IF i <= j THEN j - i + 1 ELSE 0)
        /\ \A k \in 1 .. j - i + 1 : t[k] = s[i + k - 1]
    BY <1>1, <1>2, SubSeqProperties
  <2> HIDE DEF t
  <2>2. 1 \in 1 .. j - i + 1 /\ 2 \in 1 .. j - i + 1
    BY <1>1
  <2> QED
    BY <1>1, <2>1, <2>2, Zenon
<1> HIDE DEF t
<1>4. t[1] = s[i] /\ t[2] = s[j]
  BY <1>1, <1>3, Zenon
<1>5. CRLF \in Seq(Byte) /\ Len(CRLF) = 2 /\ CRLF[1] = CR /\ CRLF[2] = LF
  BY MarkTypes, Zenon DEF CRLF
<1>6. ASSUME t[1] = CR, t[2] = LF PROVE t = CRLF
  <2>1. \A k \in 1 .. Len(t) : t[k] = CRLF[k]
    <3>1. \A k \in 1 .. 2 : k = 1 \/ k = 2
      OBVIOUS
    <3> QED
      BY <1>3, <1>5, <1>6, <3>1, Zenon
  <2> QED
    BY <1>3, <1>5, <2>1, SeqEqual, Zenon
<1>7. t = CRLF <=> s[i] = CR /\ s[j] = LF
  BY <1>4, <1>5, <1>6, Zenon
<1> QED
  BY <1>7, Zenon DEF t, j

(* A CRLF is found behind text without one, *)
LEMMA LineFound ==
    ASSUME NEW text \in Seq(Byte), Marks(text, CRLF) = {}, NEW rest \in Seq(Byte)
    PROVE  /\ Marks(text \o (CRLF \o rest), CRLF) # {}
           /\ UpTo(text \o (CRLF \o rest), CRLF) = text
           /\ After(text \o (CRLF \o rest), CRLF) = rest
<1> DEFINE next == CRLF \o rest
           all == text \o next
           l == Len(text)
           marks == Marks(all, CRLF)
<1>1. /\ CRLF \in Seq(Byte) /\ Len(CRLF) = 2 /\ CRLF[1] = CR /\ CRLF[2] = LF /\ CR # LF
  BY MarkTypes, Zenon DEF CRLF, CR, LF
<1>2. l \in Nat /\ Len(rest) \in Nat
  BY LenProperties, Zenon
<1>3. next \in Seq(Byte) /\ Len(next) = 2 + Len(rest) /\ next[1] = CR /\ next[2] = LF
  <2>1. 1 \in 1 .. 2 + Len(rest) /\ 2 \in 1 .. 2 + Len(rest) /\ 1 <= 2 /\ 2 <= 2
    BY <1>2
  <2>2. /\ next \in Seq(Byte) /\ Len(next) = Len(CRLF) + Len(rest)
        /\ \A i \in 1 .. Len(CRLF) + Len(rest) :
              next[i] = IF i <= Len(CRLF) THEN CRLF[i] ELSE rest[i - Len(CRLF)]
    BY <1>1, ConcatProperties, Zenon
  <2> HIDE DEF next
  <2> QED
    BY <1>1, <2>1, <2>2, Zenon
<1> HIDE DEF next
<1>4. /\ all \in Seq(Byte) /\ Len(all) = l + Len(next)
      /\ \A i \in 1 .. l + Len(next) : all[i] = IF i <= l THEN text[i] ELSE next[i - l]
  BY <1>3, ConcatProperties, ZenonT(40), Zenon
<1> HIDE DEF all, l
<1>5. Len(all) \in Nat /\ Len(all) = l + 2 + Len(rest) /\ l + 1 \in 1 .. Len(all) - 1
  BY <1>2, <1>3, <1>4
<1>6. all[l + 1] = CR /\ all[l + 2] = LF
  <2>1. /\ l + 1 \in 1 .. l + Len(next) /\ ~(l + 1 <= l) /\ (l + 1) - l = 1
        /\ l + 2 \in 1 .. l + Len(next) /\ ~(l + 2 <= l) /\ (l + 2) - l = 2
    BY <1>2, <1>3
  <2> QED
    BY <1>3, <1>4, <2>1, Zenon
<1>7. marks = {i \in 1 .. Len(all) - 1 : all[i] = CR /\ all[i + 1] = LF}
  <2>1. marks = {i \in 1 .. Len(all) - 2 + 1 : SubSeq(all, i, i + 2 - 1) = CRLF}
    BY <1>1, Zenon DEF Marks
  <2>2. Len(all) - 2 + 1 = Len(all) - 1 /\ \A i \in 1 .. Len(all) - 1 : i + 2 - 1 = i + 1
    BY <1>5
  <2>3. \A i \in 1 .. Len(all) - 1 : SubSeq(all, i, i + 2 - 1) = CRLF <=> all[i] = CR /\ all[i + 1] = LF
    <3> SUFFICES ASSUME NEW i \in 1 .. Len(all) - 1
                 PROVE  SubSeq(all, i, i + 2 - 1) = CRLF <=> all[i] = CR /\ all[i + 1] = LF
      OBVIOUS
    <3>1. SubSeq(all, i, i + 1) = CRLF <=> all[i] = CR /\ all[i + 1] = LF
      BY <1>4, LineEndAt, Zenon
    <3> QED
      BY <2>2, <3>1, Zenon
  <2> HIDE DEF marks
  <2>4. marks = {i \in 1 .. Len(all) - 1 : SubSeq(all, i, i + 2 - 1) = CRLF}
    BY <2>1, <2>2, Zenon
  <2> QED
    BY <2>3, <2>4, Zenon
<1>8. \A i \in 1 .. l - 1 : ~(text[i] = CR /\ text[i + 1] = LF)
  <2> SUFFICES ASSUME NEW i \in 1 .. l - 1, text[i] = CR, text[i + 1] = LF PROVE FALSE
    OBVIOUS
  <2>1. SubSeq(text, i, i + 1) = CRLF
    BY LineEndAt, Zenon DEF l
  <2>2. i + 2 - 1 = i + 1 /\ i \in 1 .. l - 2 + 1
    BY <1>2
  <2>3. SubSeq(text, i, i + 2 - 1) = CRLF
    BY <2>1, <2>2, Zenon
  <2>4. i \in Marks(text, CRLF)
    BY <1>1, <2>2, <2>3, Zenon DEF Marks, l
  <2> QED
    BY <2>4, Zenon
<1> HIDE DEF marks
<1>9. l + 1 \in marks /\ marks \in SUBSET Nat
  <2>1. l + 1 + 1 = l + 2
    BY <1>2
  <2> QED
    BY <1>5, <1>6, <1>7, <2>1
<1>10. \A i \in marks : ~(i <= l)
  <2> SUFFICES ASSUME NEW i \in marks, i <= l PROVE FALSE
    OBVIOUS
  <2>1. i \in 1 .. Len(all) - 1 /\ all[i] = CR /\ all[i + 1] = LF
    BY <1>7, Zenon
  <2>2. CASE i = l
    BY <1>1, <1>6, <2>1, <2>2, Zenon
  <2>3. CASE i # l
    <3>1. /\ i \in 1 .. l - 1 /\ i \in 1 .. l + Len(next) /\ i + 1 \in 1 .. l + Len(next)
          /\ i <= l /\ i + 1 <= l
      BY <1>2, <1>4, <1>5, <2>1, <2>3
    <3>2. all[i] = text[i] /\ all[i + 1] = text[i + 1]
      BY <1>4, <3>1, Zenon
    <3> QED
      BY <1>8, <2>1, <3>1, <3>2, Zenon
  <2> QED
    BY <2>2, <2>3, Zenon
<1>11. Min(marks) = l + 1
  <2>1. Min(marks) \in marks /\ \A i \in marks : Min(marks) <= i
    BY <1>9, SmallestOf, Zenon
  <2> DEFINE m == Min(marks)
  <2>2. m \in Nat /\ m <= l + 1 /\ ~(m <= l)
    BY <1>9, <1>10, <2>1, Zenon
  <2> HIDE DEF m
  <2>3. m = l + 1
    BY <1>2, <2>2
  <2> QED
    BY <2>3, Zenon DEF m
<1>12. UpTo(all, CRLF) = text
  <2>1. UpTo(all, CRLF) = SubSeq(all, 1, (l + 1) - 1)
    BY <1>11, Zenon DEF UpTo, marks
  <2>2. (l + 1) - 1 = l /\ l \in 0 .. l
    BY <1>2
  <2>3. SubSeq(all, 1, l) = SubSeq(text, 1, l)
    BY <1>3, <2>2, Beginning, Zenon DEF all, l
  <2>4. SubSeq(text, 1, l) = text
    BY SubSeqFull, Zenon DEF l
  <2> QED
    BY <2>1, <2>2, <2>3, <2>4, Zenon
<1>13. After(all, CRLF) = rest
  <2> DEFINE s == text \o CRLF
             m == l + 2
  <2>1. s \in Seq(Byte) /\ Len(s) = l + 2
    <3>1. s \in Seq(Byte) /\ Len(s) = Len(text) + Len(CRLF)
      BY <1>1, ConcatProperties, Zenon
    <3> QED
      BY <1>1, <3>1, Zenon DEF l
  <2>2. all = s \o rest
    BY <1>1, ConcatAssociative, SMTT(30) DEF all, next
  <2>3. m \in Nat /\ m = Len(s) /\ m \in 0 .. Len(s) /\ m + 1 = l + 1 + 2
    BY <1>2, <2>1
  <2> HIDE DEF s, m
  <2>4. SubSeq(s \o rest, m + 1, Len(s \o rest)) = SubSeq(s, m + 1, Len(s)) \o rest
    BY <2>1, <2>3, Ending, Zenon
  <2>5. SubSeq(s, m + 1, Len(s)) = <<>>
    <3>1. m + 1 \in Int /\ Len(s) \in Int /\ Len(s) < m + 1
      BY <2>3
    <3> QED
      BY <3>1, SubSeqEmpty, Zenon
  <2>6. After(all, CRLF) = SubSeq(all, l + 1 + 2, Len(all))
    BY <1>1, <1>11, Zenon DEF After, marks
  <2>7. <<>> \o rest = rest
    BY ConcatEmptySeq, Zenon
  <2> QED
    BY <2>2, <2>3, <2>4, <2>5, <2>6, <2>7, Zenon
<1> QED
  BY <1>9, <1>12, <1>13, Zenon DEF all, next, marks

(* as in text without a CR. *)
LEMMA NoLineEnd ==
    ASSUME NEW s \in Seq(Byte), CR \notin Range(s) PROVE Marks(s, CRLF) = {}
<1> SUFFICES ASSUME NEW i \in Marks(s, CRLF) PROVE FALSE
  OBVIOUS
<1>1. Len(s) \in Nat /\ DOMAIN s = 1 .. Len(s)
  BY LenProperties, Zenon
<1>2. i \in 1 .. Len(s) - 2 + 1 /\ SubSeq(s, i, i + 2 - 1) = CRLF
  BY MarkTypes, Zenon DEF Marks
<1>3. i \in 1 .. Len(s) - 1 /\ i + 2 - 1 = i + 1 /\ i \in DOMAIN s
  BY <1>1, <1>2
<1>4. SubSeq(s, i, i + 1) = CRLF
  BY <1>2, <1>3, Zenon
<1>5. s[i] = CR
  BY <1>3, <1>4, LineEndAt, Zenon
<1> QED
  BY <1>3, <1>5, Zenon DEF Range

(* The first byte of a sequence, and the others. *)
LEMMA FirstByte ==
    ASSUME NEW b \in Byte, NEW s \in Seq(Byte)
    PROVE  /\ <<b>> \o s \in Seq(Byte) /\ <<b>> \o s # <<>>
           /\ Head(<<b>> \o s) = b /\ Tail(<<b>> \o s) = s
<1> DEFINE t == <<b>>
           all == t \o s
<1>1. t \in Seq(Byte) /\ Len(t) = 1 /\ t[1] = b /\ t # <<>> /\ 1 \in 0 .. Len(t)
  OBVIOUS
<1> HIDE DEF t
<1>2. all \in Seq(Byte) /\ all # <<>> /\ Len(s) \in Nat
  BY <1>1, ConcatProperties, ConcatEqualIffEmpty, LenProperties
<1>3. all[1] = b
  <2>1. 1 \in 1 .. Len(t) + Len(s) /\ 1 <= Len(t)
    BY <1>1, <1>2
  <2>2. all[1] = t[1]
    BY <1>1, <2>1, ConcatProperties
  <2> QED
    BY <1>1, <2>2, Zenon
<1>4. SubSeq(all, 1 + 1, Len(all)) = SubSeq(t, 1 + 1, Len(t)) \o s
  BY <1>1, Ending, Zenon
<1>5. SubSeq(t, 1 + 1, Len(t)) = <<>>
  BY <1>1, SubSeqEmpty
<1>6. <<>> \o s = s
  BY ConcatEmptySeq, Zenon
<1> HIDE DEF all
<1>7. Tail(all) = SubSeq(all, 1 + 1, Len(all))
  BY <1>2, TailIsSubSeq
<1>8. Tail(all) = s
  BY <1>4, <1>5, <1>6, <1>7, Zenon
<1>9. Head(all) = b
  BY <1>2, <1>3
<1> QED
  BY <1>2, <1>8, <1>9, Zenon DEF all, t

(* What is written for an i64 is read as it. *)
LEMMA DecimalRead ==
    ASSUME NEW n \in -I64Max - 1 .. I64Max
    PROVE  /\ Decimal(n) \in Seq(Byte) /\ Marks(Decimal(n), CRLF) = {}
           /\ IsI64(Decimal(n)) /\ I64Of(Decimal(n)) = n
<1>1. I64Max \in Nat /\ n \in Int
  BY WidthAssumption
<1>2. CASE n < 0
  <2> DEFINE m == -n
             s == Numerals[m][m]
             all == <<"-">> \o s
  <2>1. m \in Nat /\ m \in 0 .. m /\ -m = n
    BY <1>1, <1>2
  <2> HIDE DEF m
  <2>2. /\ s \in Seq(Byte) /\ s # <<>> /\ Range(s) \subseteq Range(Digits) /\ FirstDigits[Len(s)][s] = m
    BY <2>1, NumeralsRead, Zenon DEF IsNumeral
  <2> HIDE DEF s
  <2>3. Decimal(n) = all
    BY <1>2, Zenon DEF Decimal, s, m
  <2>4. all \in Seq(Byte) /\ all # <<>> /\ Head(all) = "-" /\ Tail(all) = s
    BY <2>2, ByteAssumption, FirstByte, Zenon
  <2>5. CR \notin Range(all)
    <3>1. <<"-">> \in Seq(Byte) /\ Range(<<"-">>) = {"-"}
      BY ByteAssumption DEF Range
    <3>2. Range(all) = {"-"} \cup Range(s)
      <4> DEFINE t == <<"-">>
      <4>1. t \in Seq(Byte) /\ s \in Seq(Byte) /\ Range(t) = {"-"}
        BY <2>2, <3>1, Zenon
      <4> HIDE DEF t
      <4>2. Range(t \o s) = Range(t) \cup Range(s)
        BY <4>1, RangeConcatenation
      <4> QED
        BY <4>1, <4>2, Zenon DEF t
    <3>3. CR # "-"
      BY Zenon DEF CR
    <3> QED
      BY <2>2, <3>2, <3>3, NoSigns, Zenon
  <2> HIDE DEF all
  <2>6. Unsigned(all) = s
    BY <2>4, Zenon DEF Unsigned
  <2>7. Magnitude(all) = m
    BY <2>2, <2>6, Zenon DEF Magnitude
  <2>8. I64Of(all) = n
    BY <2>1, <2>4, <2>7, Zenon DEF I64Of
  <2>9. IsI64(all)
    BY <2>2, <2>6, <2>8, Zenon DEF IsI64
  <2> QED
    BY <2>3, <2>4, <2>5, <2>8, <2>9, NoLineEnd, Zenon
<1>3. CASE ~(n < 0)
  <2> DEFINE s == Numerals[n][n]
  <2>1. n \in Nat /\ n \in 0 .. n
    BY <1>1, <1>3
  <2>2. /\ s \in Seq(Byte) /\ s # <<>> /\ Range(s) \subseteq Range(Digits) /\ FirstDigits[Len(s)][s] = n
    BY <2>1, NumeralsRead, Zenon DEF IsNumeral
  <2> HIDE DEF s
  <2>3. Decimal(n) = s
    BY <1>3, Zenon DEF Decimal, s
  <2>4. CR \notin Range(s)
    BY <2>2, NoSigns, Zenon
  <2>5. Head(s) \notin {"+", "-"}
    <3>1. 1 \in DOMAIN s /\ Head(s) = s[1]
      BY <2>2, EmptySeq, LenProperties
    <3>2. Head(s) \in Range(s)
      BY <3>1, Zenon DEF Range
    <3> QED
      BY <2>2, <3>2, NoSigns, Zenon
  <2>6. Unsigned(s) = s
    BY <2>5, Zenon DEF Unsigned
  <2>7. Magnitude(s) = n
    BY <2>2, <2>6, Zenon DEF Magnitude
  <2>8. I64Of(s) = n
    BY <2>5, <2>7, Zenon DEF I64Of
  <2>9. IsI64(s)
    BY <2>2, <2>6, <2>8, Zenon DEF IsI64
  <2> QED
    BY <2>2, <2>3, <2>4, <2>8, <2>9, NoLineEnd, Zenon
<1> QED
  BY <1>2, <1>3, Zenon

(* A line that starts with a type. *)
LEMMA TypedLine ==
    ASSUME NEW type \in Byte, NEW text \in Seq(Byte), NEW rest \in Seq(Byte)
    PROVE  /\ <<type>> \o text \o CRLF \in Seq(Byte)
           /\ (<<type>> \o text \o CRLF) \o rest \in Seq(Byte)
           /\ (<<type>> \o text \o CRLF) \o rest # <<>>
           /\ Head((<<type>> \o text \o CRLF) \o rest) = type
           /\ Tail((<<type>> \o text \o CRLF) \o rest) = text \o (CRLF \o rest)
<1> DEFINE t == <<type>>
           c == CRLF
           next == text \o (c \o rest)
           line == t \o text \o c
           all == line \o rest
<1>1. t \in Seq(Byte) /\ c \in Seq(Byte)
  BY MarkTypes
<1> HIDE DEF t, c
<1>2. t \o text \in Seq(Byte) /\ c \o rest \in Seq(Byte)
  BY <1>1, ConcatProperties, Zenon
<1>3. line \in Seq(Byte) /\ next \in Seq(Byte)
  BY <1>1, <1>2, ConcatProperties, Zenon
<1>4. all = (t \o text) \o (c \o rest)
  BY <1>1, <1>2, ConcatAssociative, SMTT(30)
<1>5. (t \o text) \o (c \o rest) = t \o next
  BY <1>1, <1>2, ConcatAssociative, SMTT(30)
<1> HIDE DEF all, next
<1>6. all = t \o next
  BY <1>4, <1>5, Zenon
<1>7. all \in Seq(Byte) /\ all # <<>> /\ Head(all) = type /\ Tail(all) = next
  BY <1>3, <1>6, FirstByte, Zenon DEF t
<1> QED
  BY <1>3, <1>7, Zenon DEF all, next, t, c, line

(* What follows a header. *)
LEMMA HeaderRead ==
    ASSUME NEW type \in {"$", ":", "*"}, NEW n \in -I64Max - 1 .. I64Max, NEW rest \in Seq(Byte)
    PROVE  /\ Header(type, n) \in Seq(Byte)
           /\ DecodeFirst(Header(type, n) \o rest) = DecodeSized(type, n, rest)
<1>1. type \in Byte
  BY ByteAssumption, Zenon
<1> DEFINE text == Decimal(n)
           line == <<type>> \o text \o CRLF
           all == line \o rest
           next == text \o (CRLF \o rest)
<1>2. text \in Seq(Byte) /\ Marks(text, CRLF) = {} /\ IsI64(text) /\ I64Of(text) = n
  BY DecimalRead, Zenon
<1>3. Header(type, n) = line
  BY Zenon DEF Header
<1> HIDE DEF text
<1>4. line \in Seq(Byte) /\ all \in Seq(Byte) /\ all # <<>> /\ Head(all) = type /\ Tail(all) = next
  BY <1>1, <1>2, TypedLine, Zenon
<1>5. Marks(next, CRLF) # {} /\ UpTo(next, CRLF) = text /\ After(next, CRLF) = rest
  BY <1>2, LineFound, Zenon
<1> HIDE DEF line, all, next
<1>6. DecodeFirst(all) = DecodeLength(type, next)
  BY <1>4, Zenon DEF DecodeFirst
<1>7. DecodeLength(type, next) = DecodeSized(type, n, rest)
  BY <1>2, <1>5, Zenon DEF DecodeLength
<1> QED
  BY <1>3, <1>4, <1>6, <1>7, Zenon DEF all

-----------------------------------------------------------------------------
(* Frames that are written and read back *)

(* A frame that is no array of frames. *)
LEMMA LeafRead ==
    ASSUME NEW f \in Leaf
    PROVE  /\ LeafBytes(f) \in Seq(Byte)
           /\ \A rest \in Seq(Byte) : DecodeFirst(LeafBytes(f) \o rest) = Read(<<f>>, rest)
<1>1. /\ I64Max \in Nat /\ -1 \in -I64Max - 1 .. I64Max /\ <<>> \in Seq(Byte)
      /\ {"+", "-"} \subseteq Byte /\ CapacityMax \in Nat
  BY WidthAssumption, ByteAssumption, EmptySeq
<1>2. CASE f \in [type : {"+", "-"}, text : Text]
  <2>1. PICK type \in {"+", "-"}, text \in Text : f = [type |-> type, text |-> text]
    BY <1>2, Zenon
  <2>2. text \in Seq(Byte) /\ Utf8(text) /\ Marks(text, CRLF) = {} /\ type \in Byte
    BY <1>1, <2>1, Zenon DEF Text
  <2>3. LeafBytes(f) = <<type>> \o text \o CRLF
    BY <2>1, Zenon DEF LeafBytes
  <2> DEFINE line == <<type>> \o text \o CRLF
  <2>4. ASSUME NEW rest \in Seq(Byte) PROVE line \in Seq(Byte) /\ DecodeFirst(line \o rest) = Read(<<f>>, rest)
    <3> DEFINE next == text \o (CRLF \o rest)
               all == line \o rest
    <3>1. line \in Seq(Byte) /\ all # <<>> /\ Head(all) = type /\ Tail(all) = next
      BY <2>2, TypedLine, Zenon
    <3>2. Marks(next, CRLF) # {} /\ UpTo(next, CRLF) = text /\ After(next, CRLF) = rest
      BY <2>2, LineFound, Zenon
    <3> HIDE DEF next, line, all
    <3>3. DecodeFirst(all) = DecodeText(type, next)
      BY <2>1, <3>1, Zenon DEF DecodeFirst
    <3>4. DecodeText(type, next) = Read(<<f>>, rest)
      BY <2>1, <2>2, <3>2, Zenon DEF DecodeText
    <3> QED
      BY <3>1, <3>3, <3>4, Zenon DEF all
  <2> HIDE DEF line
  <2> QED
    BY <1>1, <2>3, <2>4, Zenon DEF line
<1>3. CASE f \in [type : {":"}, int : -I64Max - 1 .. I64Max]
  <2>1. PICK n \in -I64Max - 1 .. I64Max : f = [type |-> ":", int |-> n]
    BY <1>3, Zenon
  <2>2. LeafBytes(f) = Header(":", n) /\ f = Integer(n)
    BY <2>1, Zenon DEF LeafBytes, Integer
  <2>3. \A bytes : DecodeSized(":", n, bytes) = Read(<<f>>, bytes)
    BY <2>2, Zenon DEF DecodeSized
  <2> QED
    BY <1>1, <2>2, <2>3, HeaderRead, ZenonT(40)
<1>4. CASE f = [type |-> "$", payload |-> Null]
  <2>1. LeafBytes(f) = Header("$", -1) /\ f = Bulk(Null)
    BY <1>4, Zenon DEF LeafBytes, NullHeader, Bulk
  <2>2. \A bytes : DecodeSized("$", -1, bytes) = Read(<<f>>, bytes)
    BY <1>1, <2>1 DEF DecodeSized
  <2> QED
    BY <1>1, <2>1, <2>2, HeaderRead, Zenon
<1>5. CASE f = [type |-> "*", items |-> Null]
  <2>1. LeafBytes(f) = Header("*", -1) /\ f = Array(Null)
    BY <1>5, Zenon DEF LeafBytes, NullHeader, Array
  <2>2. \A bytes : DecodeSized("*", -1, bytes) = Read(<<f>>, bytes)
    BY <1>1, <2>1 DEF DecodeSized
  <2> QED
    BY <1>1, <2>1, <2>2, HeaderRead, Zenon
<1>6. ASSUME NEW payload \in Payload, payload # Null, f = [type |-> "$", payload |-> payload]
      PROVE  /\ LeafBytes(f) \in Seq(Byte)
             /\ \A rest \in Seq(Byte) : DecodeFirst(LeafBytes(f) \o rest) = Read(<<f>>, rest)
  <2> DEFINE n == Len(payload)
             head == Header("$", n)
             c == CRLF
  <2>1. payload \in Seq(Byte) /\ n \in Nat /\ n \in -I64Max - 1 .. I64Max
    BY <1>1, <1>6, LenProperties DEF Payload
  <2>2. c \in Seq(Byte) /\ Len(c) = 2
    BY MarkTypes, Zenon
  <2>3. head \in Seq(Byte)
    BY <1>1, <2>1, HeaderRead, Zenon
  <2>4. LeafBytes(f) = (head \o payload) \o c
    BY <1>6, Zenon DEF LeafBytes
  <2> HIDE DEF n, head, c
  <2>5. (head \o payload) \o c \in Seq(Byte) /\ head \o payload \in Seq(Byte)
    BY <2>1, <2>2, <2>3, ConcatProperties, Zenon
  <2>6. ASSUME NEW rest \in Seq(Byte)
        PROVE  DecodeFirst(((head \o payload) \o c) \o rest) = Read(<<f>>, rest)
    <3> DEFINE s == payload \o c
               next == s \o rest
    <3>1. s \in Seq(Byte) /\ Len(s) = Len(payload) + Len(c)
      BY <2>1, <2>2, ConcatProperties, Zenon
    <3>2. next \in Seq(Byte) /\ Len(next) = Len(s) + Len(rest) /\ Len(rest) \in Nat
      <4> HIDE DEF s
      <4> QED
        BY <3>1, ConcatProperties, LenProperties, Zenon
    <3>3. ((head \o payload) \o c) \o rest = head \o next
      <4>1. (head \o payload) \o c = head \o s
        BY <2>1, <2>2, <2>3, ConcatAssociative, SMTT(30)
      <4>2. (head \o s) \o rest = head \o (s \o rest)
        <5> HIDE DEF s
        <5>1. s \in Seq(Byte)
          BY <3>1, Zenon
        <5> QED
          BY <2>3, <5>1, ConcatAssociative
      <4> HIDE DEF s
      <4> QED
        BY <4>1, <4>2, Zenon
    <3> DEFINE m == n + 2
               k == n + 1
    <3>4. /\ m \in Nat /\ m = Len(s) /\ m \in 0 .. Len(s) /\ m + 1 = n + 3 /\ ~(Len(next) < n + 2)
          /\ n \in 0 .. Len(payload) /\ n = Len(payload) /\ n \in 0 .. Len(s)
          /\ k \in 1 .. Len(s) /\ m \in 1 .. Len(s) /\ m - n = 2 /\ k - n = 1
          /\ k \in Len(payload) + 1 .. Len(payload) + Len(c)
          /\ m \in Len(payload) + 1 .. Len(payload) + Len(c)
      BY <2>1, <2>2, <3>1, <3>2 DEF n
    <3> HIDE DEF m, k, next
    <3>5. SubSeq(next, 1, n) = payload
      <4>1. SubSeq(next, 1, n) = SubSeq(s, 1, n)
        <5> HIDE DEF s
        <5> QED
          BY <3>1, <3>4, Beginning, Zenon DEF next
      <4>2. SubSeq(s, 1, n) = SubSeq(payload, 1, n)
        BY <2>1, <2>2, <3>4, Beginning, Zenon
      <4>3. SubSeq(payload, 1, n) = payload
        BY <2>1, SubSeqFull, Zenon DEF n
      <4> QED
        BY <4>1, <4>2, <4>3, Zenon
    <3>6. SubSeq(next, k, m) = c
      <4>1. SubSeq(next, k, m) = SubSeq(s, k, m)
        <5> HIDE DEF s
        <5> QED
          BY <3>1, <3>4, SubSeqOfConcat1, Zenon DEF next
      <4>2. SubSeq(s, k, m) = SubSeq(c, k - Len(payload), m - Len(payload))
        BY <2>1, <2>2, <3>4, SubSeqOfConcat2
      <4>3. SubSeq(c, 1, Len(c)) = c
        BY <2>2, SubSeqFull, Zenon
      <4>4. k - Len(payload) = 1 /\ m - Len(payload) = Len(c)
        BY <2>2, <3>4, Zenon
      <4> QED
        BY <4>1, <4>2, <4>3, <4>4, Zenon
    <3>7. SubSeq(next, m + 1, Len(next)) = rest
      <4> HIDE DEF s
      <4>1. SubSeq(next, m + 1, Len(next)) = SubSeq(s, m + 1, Len(s)) \o rest
        BY <3>1, <3>4, Ending, Zenon DEF next
      <4>2. m + 1 \in Int /\ Len(s) \in Int /\ Len(s) < m + 1
        BY <3>4
      <4>3. SubSeq(s, m + 1, Len(s)) = <<>>
        BY <4>2, SubSeqEmpty, Zenon
      <4>4. <<>> \o rest = rest
        BY ConcatEmptySeq, Zenon
      <4> QED
        BY <4>1, <4>3, <4>4, Zenon
    <3>8. DecodeBulk(n, next) = Read(<<f>>, rest)
      <4>1. SubSeq(next, n + 1, n + 2) = CRLF
        BY <3>6, Zenon DEF k, m, c
      <4>2. SubSeq(next, n + 3, Len(next)) = rest
        BY <3>4, <3>7, Zenon
      <4>3. f = Bulk(payload)
        BY <1>6, Zenon DEF Bulk
      <4> QED
        BY <3>4, <3>5, <4>1, <4>2, <4>3, Zenon DEF DecodeBulk
    <3>9. DecodeSized("$", n, next) = DecodeBulk(n, next)
      BY <2>1 DEF DecodeSized
    <3>10. DecodeFirst(head \o next) = DecodeSized("$", n, next)
      BY <2>1, <3>2, HeaderRead, Zenon DEF head
    <3> QED
      BY <3>3, <3>8, <3>9, <3>10, Zenon DEF next
  <2> QED
    BY <2>4, <2>5, <2>6, Zenon
<1>7. \/ f \in [type : {"+", "-"}, text : Text]
      \/ f \in [type : {":"}, int : -I64Max - 1 .. I64Max]
      \/ f = [type |-> "$", payload |-> Null]
      \/ f = [type |-> "*", items |-> Null]
      \/ \E payload \in Payload : payload # Null /\ f = [type |-> "$", payload |-> payload]
  BY Zenon DEF Leaf
<1> QED
  BY <1>2, <1>3, <1>4, <1>5, <1>6, <1>7, Zenon

(* Bytes that are read as the frame f, whatever follows them. *)
ReadAs(bytes, f) ==
    /\ bytes \in Seq(Byte)
    /\ \A rest \in Seq(Byte) : \A count \in Int \ {0} :
          Reader[count][bytes \o rest] = Behind(<<f>>, Reader[count - 1][rest])

(* A frame that can be read whole is one of them, *)
LEMMA ReadWhole ==
    ASSUME NEW bytes \in Seq(Byte), NEW f,
           \A rest \in Seq(Byte) : \A count \in Int \ {0} :
              ReadFrom(Reader, count, DecodeFirst(bytes \o rest)) = ReadOn(Reader, count, Read(<<f>>, rest))
    PROVE  ReadAs(bytes, f)
<1> SUFFICES ASSUME NEW rest \in Seq(Byte), NEW count \in Int \ {0}
             PROVE  Reader[count][bytes \o rest] = Behind(<<f>>, Reader[count - 1][rest])
  BY Zenon DEF ReadAs
<1>1. bytes \o rest \in Seq(Byte)
  BY ConcatProperties, Zenon
<1>2. Reader[count][bytes \o rest] = ReadFrom(Reader, count, DecodeFirst(bytes \o rest))
  BY <1>1, ReaderEquation, Zenon
<1>3. ReadOn(Reader, count, Read(<<f>>, rest)) = Behind(<<f>>, Reader[count - 1][rest])
  BY Zenon DEF ReadOn, Read
<1> QED
  BY <1>2, <1>3, Zenon

(* as are frames one after another. *)
LEMMA JoinedRead ==
    ASSUME NEW F, NEW written, \A f \in F : ReadAs(written[f], f)
    PROVE  \A items \in Seq(F) :
              LET parts == [i \in DOMAIN items |-> written[items[i]]]
                  joined == Joined[Len(items)][parts]
              IN  /\ joined \in Seq(Byte)
                  /\ \A rest \in Seq(Byte) : Reader[Len(items)][joined \o rest] = Read(items, rest)
<1> DEFINE Parts(items) == [i \in DOMAIN items |-> written[items[i]]]
           Good(items, joined) ==
              /\ joined \in Seq(Byte)
              /\ \A rest \in Seq(Byte) : Reader[Len(items)][joined \o rest] = Read(items, rest)
           P(n) == \A items \in Seq(F) : Len(items) = n => Good(items, Joined[n][Parts(items)])
           T == {n \in Nat : ~P(n)}
<1>1. \A n \in Nat : Joined[n] = IF n = 0 THEN [parts \in Seq(Seq(Byte)) |-> <<>>]
                                 ELSE MoreParts(Joined[n - 1], n)
  BY Unfolded, Zenon
<1>2. ASSUME NEW items \in Seq(F)
      PROVE  /\ Parts(items) \in Seq(Seq(Byte)) /\ Len(Parts(items)) = Len(items)
             /\ \A i \in 1 .. Len(items) : Parts(items)[i] = written[items[i]]
  <2>1. Len(items) \in Nat /\ DOMAIN items = 1 .. Len(items) /\ \A i \in 1 .. Len(items) : items[i] \in F
    BY LenProperties, ElementOfSeq, Zenon
  <2>2. \A i \in 1 .. Len(items) : written[items[i]] \in Seq(Byte)
    BY <2>1, Zenon DEF ReadAs
  <2>3. Parts(items) = [i \in 1 .. Len(items) |-> written[items[i]]]
    BY <2>1, Zenon
  <2> QED
    BY <2>1, <2>2, <2>3
<1>3. T = {}
  <2> SUFFICES ASSUME T # {} PROVE FALSE
    OBVIOUS
  <2> DEFINE n == Min(T)
  <2>1. n \in T /\ \A m \in T : n <= m
    <3>1. T \in SUBSET Nat
      OBVIOUS
    <3> HIDE DEF T
    <3> QED
      BY <3>1, SmallestOf, Zenon
  <2> HIDE DEF n
  <2>2. n \in Nat /\ ~P(n) /\ \A m \in Nat : m < n => P(m)
    <3>1. n \in Nat /\ ~P(n)
      BY <2>1, Zenon
    <3>2. \A m \in Nat : ~P(m) => m \in T
      OBVIOUS
    <3> HIDE DEF P, T
    <3> QED
      BY <2>1, <3>1, <3>2
  <2> HIDE DEF T
  <2>3. PICK items \in Seq(F) : Len(items) = n /\ ~Good(items, Joined[n][Parts(items)])
    BY <2>2, Zenon
  <2> DEFINE parts == Parts(items)
             joined == Joined[n][parts]
  <2>4. parts \in Seq(Seq(Byte)) /\ Len(parts) = n /\ \A i \in 1 .. n : parts[i] = written[items[i]]
    BY <1>2, <2>3, Zenon
  <2>5. CASE n = 0
    <3> HIDE DEF parts
    <3>1. joined = <<>>
      <4>1. Joined[n] = [p \in Seq(Seq(Byte)) |-> <<>>]
        BY <1>1, <2>2, <2>5, Zenon
      <4> QED
        BY <2>4, <4>1, Zenon
    <3>2. items = <<>>
      BY <2>3, <2>5, EmptySeq, Zenon
    <3>3. ASSUME NEW rest \in Seq(Byte) PROVE Reader[Len(items)][joined \o rest] = Read(items, rest)
      <4>1. joined \o rest = rest
        BY <3>1, ConcatEmptySeq, Zenon
      <4>2. Reader[0][rest] = Read(<<>>, rest)
        BY ReaderEquation
      <4> QED
        BY <2>3, <2>5, <3>2, <4>1, <4>2, Zenon
    <3>4. joined \in Seq(Byte)
      BY <3>1, EmptySeq, Zenon
    <3> QED
      BY <2>3, <3>3, <3>4, Zenon DEF parts
  <2>6. CASE n # 0
    <3> DEFINE f == Head(items)
               others == Tail(items)
               w == written[f]
               j == Joined[n - 1][Parts(others)]
    <3>1. /\ n - 1 \in Nat /\ n - 1 < n /\ n \in Int \ {0} /\ 1 \in 1 .. n
          /\ \A i \in 1 .. n - 1 : i + 1 \in 1 .. n
      <4>1. n \in Nat
        BY <2>2, Zenon
      <4> QED
        BY <2>6, <4>1
    <3>2. items # <<>> /\ parts # <<>>
      BY <2>3, <2>4, <2>6, EmptySeq, Zenon
    <3>3. /\ f \in F /\ others \in Seq(F) /\ Len(others) = n - 1 /\ f = items[1]
          /\ \A i \in 1 .. n - 1 : others[i] = items[i + 1]
      <4>1. /\ f \in F /\ others \in Seq(F) /\ Len(others) = Len(items) - 1
            /\ \A i \in 1 .. Len(others) : others[i] = items[i + 1]
        BY <3>2, HeadTailProperties, Zenon
      <4>2. f = items[1]
        BY <3>2
      <4> QED
        BY <2>3, <4>1, <4>2, Zenon
    <3>4. w \in Seq(Byte) /\ ReadAs(w, f)
      BY <3>3, Zenon DEF ReadAs
    <3>5. Good(others, j)
      BY <2>2, <3>1, <3>3, Zenon
    <3>6. Head(parts) = w
      <4> HIDE DEF parts
      <4>1. Head(parts) = parts[1]
        BY <2>4, <3>2
      <4> QED
        BY <2>4, <3>1, <3>3, <4>1, Zenon
    <3>7. Tail(parts) = Parts(others)
      <4> DEFINE a == Tail(parts)
                 b == Parts(others)
      <4>1. a \in Seq(Seq(Byte)) /\ Len(a) = n - 1 /\ \A i \in 1 .. Len(a) : a[i] = parts[i + 1]
        <5> HIDE DEF parts
        <5> QED
          BY <2>4, <3>2, HeadTailProperties, Zenon
      <4>2. /\ b \in Seq(Seq(Byte)) /\ Len(b) = Len(others)
            /\ \A i \in 1 .. Len(others) : b[i] = written[others[i]]
        BY <1>2, <3>3, Zenon
      <4> HIDE DEF a, b, parts, others
      <4>3. ASSUME NEW i \in 1 .. Len(a) PROVE a[i] = b[i]
        <5>1. i \in 1 .. n - 1 /\ i + 1 \in 1 .. n /\ i \in 1 .. Len(others)
          BY <3>1, <3>3, <4>1, Zenon
        <5>2. a[i] = written[items[i + 1]]
          BY <2>4, <4>1, <5>1, Zenon
        <5>3. b[i] = written[items[i + 1]]
          BY <3>3, <4>2, <5>1, Zenon
        <5> QED
          BY <5>2, <5>3, Zenon
      <4>4. a = b
        BY <3>3, <4>1, <4>2, <4>3, SeqEqual
      <4> QED
        BY <4>4, Zenon DEF a, b
    <3>8. joined = w \o j
      <4>1. Joined[n] = MoreParts(Joined[n - 1], n)
        BY <1>1, <2>2, <2>6, Zenon
      <4> HIDE DEF parts, w, others
      <4> QED
        BY <2>4, <3>6, <3>7, <4>1, ZenonT(40) DEF MoreParts
    <3> HIDE DEF Parts, parts, joined, w, j
    <3>9. j \in Seq(Byte) /\ joined \in Seq(Byte)
      <4>1. j \in Seq(Byte)
        BY <3>5, Zenon
      <4> QED
        BY <3>4, <3>8, <4>1, ConcatProperties, Zenon
    <3>10. ASSUME NEW rest \in Seq(Byte) PROVE Reader[Len(items)][joined \o rest] = Read(items, rest)
      <4>1. (w \o j) \o rest = w \o (j \o rest) /\ j \o rest \in Seq(Byte)
        <5>1. w \in Seq(Byte) /\ j \in Seq(Byte)
          BY <3>4, <3>9, Zenon
        <5>2. (w \o j) \o rest = w \o (j \o rest)
          BY <5>1, ConcatAssociative
        <5>3. j \o rest \in Seq(Byte)
          BY <5>1, ConcatProperties, Zenon
        <5> QED
          BY <5>2, <5>3, Zenon
      <4>2. Reader[n][w \o (j \o rest)] = Behind(<<f>>, Reader[n - 1][j \o rest])
        <5> HIDE DEF f
        <5> QED
          BY <3>1, <3>4, <4>1, Zenon DEF ReadAs
      <4>3. Reader[n - 1][j \o rest] = Read(others, rest)
        BY <3>3, <3>5, Zenon
      <4>4. <<f>> \o others = items
        <5>1. <<f>> \o Tail(items) = items
          BY <2>3, <3>2
        <5> QED
          BY <5>1, Zenon
      <4> HIDE DEF f, others
      <4>5. Behind(<<f>>, Read(others, rest)) = Read(items, rest)
        BY <4>4, Zenon DEF Behind, Read
      <4> QED
        BY <2>3, <3>8, <4>1, <4>2, <4>3, <4>5, Zenon
    <3> QED
      BY <2>3, <3>9, <3>10, Zenon DEF joined, parts
  <2> QED
    BY <2>5, <2>6, Zenon
<1>4. ASSUME NEW items \in Seq(F) PROVE Good(items, Joined[Len(items)][Parts(items)])
  <2>1. Len(items) \in Nat
    BY LenProperties, Zenon
  <2>2. P(Len(items))
    <3> HIDE DEF P
    <3> QED
      BY <1>3, <2>1, Zenon
  <2> HIDE DEF Good, Parts
  <2> QED
    BY <2>2, Zenon
<1> QED
  BY <1>4, Zenon

(* A frame that is not an array of others, *)
LEMMA LeafReadAs == ASSUME NEW f \in Leaf PROVE ReadAs(LeafBytes(f), f)
<1>1. LeafBytes(f) \in Seq(Byte)
  BY LeafRead, Zenon
<1>2. ASSUME NEW rest \in Seq(Byte), NEW count \in Int \ {0}
      PROVE  ReadFrom(Reader, count, DecodeFirst(LeafBytes(f) \o rest)) = ReadOn(Reader, count, Read(<<f>>, rest))
  <2>1. DecodeFirst(LeafBytes(f) \o rest) = Read(<<f>>, rest)
    BY LeafRead, Zenon
  <2>2. Read(<<f>>, rest).how = "Read"
    BY Zenon DEF Read
  <2> QED
    BY <2>1, <2>2, Zenon DEF ReadFrom
<1> QED
  BY <1>1, <1>2, ReadWhole, Zenon

(* and an array of frames that are read back, are read back. *)
LEMMA ArrayReadAs ==
    ASSUME NEW F, NEW written, \A f \in F : ReadAs(written[f], f), NEW f \in ArraysOf(F)
    PROVE  ReadAs(ArrayBytes(written, f.items), f)
<1>1. PICK items \in Seq(F) : f = [type |-> "*", items |-> items] /\ Len(items) <= CapacityMax
  BY Zenon DEF ArraysOf
<1> DEFINE k == Len(items)
           h == Header("*", k)
           joined == Joined[k][[i \in DOMAIN items |-> written[items[i]]]]
<1>2. /\ k \in Nat /\ k \in 0 .. CapacityMax /\ k \in -I64Max - 1 .. I64Max /\ CapacityMax \in Nat
      /\ ~(k < -1) /\ k # -1 /\ ~(k > CapacityMax)
  BY <1>1, LenProperties, WidthAssumption
<1>3. /\ joined \in Seq(Byte)
      /\ \A rest \in Seq(Byte) : Reader[k][joined \o rest] = Read(items, rest)
  BY JoinedRead, ZenonT(40), Zenon
<1>4. f.items = items /\ f = Array(items)
  BY <1>1, Zenon DEF Array
<1>5. ArrayBytes(written, f.items) = h \o joined
  BY <1>4, Zenon DEF ArrayBytes
<1> HIDE DEF joined, h, k
<1>6. /\ h \in Seq(Byte)
      /\ \A rest \in Seq(Byte) : DecodeFirst(h \o rest) = DecodeSized("*", k, rest)
  <2>1. "*" \in {"$", ":", "*"} /\ <<>> \in Seq(Byte)
    BY EmptySeq, Zenon
  <2>2. h \in Seq(Byte)
    BY <1>2, <2>1, HeaderRead, Zenon DEF h
  <2>3. ASSUME NEW rest \in Seq(Byte) PROVE DecodeFirst(h \o rest) = DecodeSized("*", k, rest)
    BY <1>2, <2>1, HeaderRead, Zenon DEF h
  <2> QED
    BY <2>2, <2>3, Zenon
<1>7. \A rest : DecodeSized("*", k, rest) = IsArray(k, rest)
  BY <1>2, Zenon DEF DecodeSized
<1>8. h \o joined \in Seq(Byte)
  BY <1>3, <1>6, ConcatProperties, Zenon
<1>9. ASSUME NEW rest \in Seq(Byte), NEW count \in Int \ {0}
      PROVE  ReadFrom(Reader, count, DecodeFirst((h \o joined) \o rest)) = ReadOn(Reader, count, Read(<<f>>, rest))
  <2>1. joined \o rest \in Seq(Byte) /\ (h \o joined) \o rest = h \o (joined \o rest)
    BY <1>3, <1>6, ConcatProperties, ConcatAssociative
  <2>2. DecodeFirst((h \o joined) \o rest) = IsArray(k, joined \o rest)
    BY <1>6, <1>7, <2>1, Zenon
  <2>3. ReadFrom(Reader, count, IsArray(k, joined \o rest)) =
           ReadOn(Reader, count, AsArray(Reader[k][joined \o rest]))
    BY Zenon DEF ReadFrom, IsArray
  <2>4. AsArray(Read(items, rest)) = Read(<<f>>, rest)
    BY <1>4, Zenon DEF AsArray, Read
  <2> QED
    BY <1>3, <2>2, <2>3, <2>4, Zenon
<1> QED
  BY <1>5, <1>8, <1>9, ReadWhole, Zenon

(* So is every frame, however deep its arrays are nested: by induction on  *)
(* the depth.                                                              *)
LEMMA WrittenRead == \A n \in Nat : \A f \in FramesOf[n] : ReadAs(Written[n][f], f)
<1> DEFINE P(n) == \A f \in FramesOf[n] : ReadAs(Written[n][f], f)
           T == {n \in Nat : ~P(n)}
<1>1. \A n \in Nat : FramesOf[n] = IF n = 0 THEN Leaf ELSE DeeperFrames(FramesOf[n - 1], n)
  BY Unfolded, Zenon
<1>2. \A n \in Nat : Written[n] = IF n = 0 THEN [f \in Leaf |-> LeafBytes(f)]
                                  ELSE DeeperWritten(Written[n - 1], n)
  BY Unfolded, Zenon
<1> SUFFICES ASSUME T # {} PROVE FALSE
  OBVIOUS
<1> DEFINE n == Min(T)
<1>3. T \in SUBSET Nat
  OBVIOUS
<1>4. n \in T /\ \A m \in T : n <= m
  <2> HIDE DEF T
  <2> QED
    BY <1>3, SmallestOf, Zenon
<1> HIDE DEF n
<1>5. n \in Nat /\ ~P(n) /\ \A m \in Nat : ~(n <= m) => P(m)
  <2> HIDE DEF P
  <2> QED
    BY <1>4, Zenon
<1> HIDE DEF T
<1>6. PICK f \in FramesOf[n] : ~ReadAs(Written[n][f], f)
  BY <1>5, Zenon
<1>7. CASE n = 0
  <2>1. f \in Leaf /\ Written[n][f] = LeafBytes(f)
    BY <1>1, <1>2, <1>5, <1>6, <1>7, Zenon
  <2> QED
    BY <1>6, <2>1, LeafReadAs, Zenon
<1>8. CASE n # 0
  <2>1. n - 1 \in Nat /\ ~(n <= n - 1)
    BY <1>5, <1>8
  <2>2. \A e \in FramesOf[n - 1] : ReadAs(Written[n - 1][e], e)
    BY <1>5, <2>1, Zenon
  <2>3. f \in Leaf \/ f \in ArraysOf(FramesOf[n - 1])
    BY <1>1, <1>5, <1>6, <1>8, Zenon DEF DeeperFrames
  <2>4. Written[n][f] = IF f \in Leaf THEN LeafBytes(f) ELSE ArrayBytes(Written[n - 1], f.items)
    <3>1. n \in Nat
      BY <1>5, Zenon
    <3>2. Written[n] = DeeperWritten(Written[n - 1], n)
      BY <1>2, <1>8, <3>1, Zenon
    <3> QED
      BY <1>6, <3>2, Zenon DEF DeeperWritten
  <2>5. CASE f \in Leaf
    BY <1>6, <2>4, <2>5, LeafReadAs, Zenon
  <2>6. CASE f \notin Leaf
    BY <1>6, <2>2, <2>3, <2>4, <2>6, ArrayReadAs, Zenon
  <2> QED
    BY <2>5, <2>6, Zenon
<1> QED
  BY <1>7, <1>8, Zenon

(* The bytes of a frame, and no others, are decoded as that frame. *)
THEOREM MessageDecoded ==
    ASSUME NEW f \in Message
    PROVE  Decode(ToBytes(f)).how = "Complete" /\ Decode(ToBytes(f)).frames = <<f>>
<1>1. ReadAs(ToBytes(f), f)
  BY MessageAssumption, WrittenRead, Zenon DEF ToBytes
<1>2. ToBytes(f) \in Seq(Byte) /\ <<>> \in Seq(Byte) /\ ToBytes(f) \o <<>> = ToBytes(f)
  BY <1>1, EmptySeq, ConcatEmptySeq, Zenon DEF ReadAs
<1>3. Reader[-1][ToBytes(f) \o <<>>] = Behind(<<f>>, Reader[-2][<<>>])
  <2>1. -1 \in Int \ {0} /\ (-1) - 1 = -2
    OBVIOUS
  <2> QED
    BY <1>1, <1>2, <2>1, Zenon DEF ReadAs
<1>4. Reader[-2][<<>>] = ReadFrom(Reader, -2, DecodeFirst(<<>>))
  <2>1. -2 \in Int /\ -2 # 0
    OBVIOUS
  <2> QED
    BY <1>2, <2>1, ReaderEquation, Zenon
<1>5. DecodeFirst(<<>>) = NotRead("Complete")
  BY Zenon DEF DecodeFirst
<1>6. ReadFrom(Reader, -2, NotRead("Complete")) = NotRead("Complete")
  BY Zenon DEF ReadFrom, ReadOn, NotRead
<1>7. Decode(ToBytes(f)) = Behind(<<f>>, NotRead("Complete"))
  BY <1>2, <1>3, <1>4, <1>5, <1>6, Zenon DEF Decode
<1>8. <<f>> \o <<>> = <<f>>
  OBVIOUS
<1> QED
  BY <1>7, <1>8 DEF Behind, NotRead
=============================================================================
