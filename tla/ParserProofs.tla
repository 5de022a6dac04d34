--------------------------- MODULE ParserProofs ------------------------------
(***************************************************************************)
(* ArraysHaveRoom, proved for every input, every way of cutting it into    *)
(* chunks and every width of the integers: the arrays on the parser's      *)
(* stack always have room for the frame that comes next.                   *)
(*                                                                         *)
(* The invariant, PInv, needs the shape of the stack, and that an error    *)
(* kept in the state is one parse() may return.  A second one, ChunkInv,   *)
(* says what the buffer holds and which errors are kept; it is for         *)
(* ParserRefinement and WireProofs.                                        *)
(***************************************************************************)
EXTENDS Parser, SequenceTheorems, WellFoundedInduction, TLAPS

IsSeq(s) == \E S : s \in Seq(S)

-----------------------------------------------------------------------------
(* Sequences and numbers *)

(* A set of naturals that is not empty has a smallest element. *)
LEMMA SmallestOf ==
    ASSUME NEW S \in SUBSET Nat, S # {}
    PROVE  Min(S) \in S /\ \A n \in S : Min(S) <= n
<1> DEFINE R == {ss \in Nat \X Nat : ss[1] < ss[2]}
<1>1. IsWellFoundedOn(R, Nat)
  BY NatLessThanWellFounded, Zenon DEF OpToRel
<1> HIDE DEF R
<1>2. PICK x \in S : \A y \in S : ~(<<y, x>> \in R)
  BY <1>1, WFMin, Zenon
<1>3. \A m, n \in Nat : <<m, n>> \in R <=> m < n
  BY Zenon DEF R
<1>4. \A y \in S : ~(y < x)
  BY <1>2, <1>3, Zenon
<1>5. \A y \in S : x <= y
  BY <1>4
<1> QED
  BY <1>5, Zenon DEF Min

(* Larger elements do not change the smallest one. *)
LEMMA SmallestStays ==
    ASSUME NEW S \in SUBSET Nat, S # {}, NEW T \in SUBSET Nat, S \subseteq T,
           \A t \in T : t <= Min(S) => t \in S
    PROVE  Min(T) = Min(S)
<1> DEFINE s == Min(S)
           t == Min(T)
<1>1. s \in S /\ \A n \in S : s <= n
  BY SmallestOf, Zenon
<1>2. t \in T /\ \A n \in T : t <= n
  BY SmallestOf, Zenon
<1>3. s \in Nat /\ t \in Nat /\ t <= s
  BY <1>1, <1>2, Zenon
<1>4. t \in S
  BY <1>2, <1>3, Zenon
<1>5. s <= t
  BY <1>1, <1>4, Zenon
<1> HIDE DEF s, t
<1>6. s = t
  BY <1>3, <1>5
<1> QED
  BY <1>6, Zenon DEF s, t

(* The beginning of a sequence that is continued. *)
LEMMA Beginning ==
    ASSUME NEW S, NEW s \in Seq(S), NEW t \in Seq(S), NEW n \in 0 .. Len(s)
    PROVE  SubSeq(s \o t, 1, n) = SubSeq(s, 1, n)
<1>1. CASE n = 0
  BY <1>1, SubSeqEmpty
<1>2. CASE n # 0
  <2>1. n \in 1 .. Len(s) /\ 1 \in 1 .. Len(s)
    BY <1>2
  <2> QED
    BY <2>1, SubSeqOfConcat1, Zenon
<1> QED
  BY <1>1, <1>2, Zenon

(* Both parts of a sequence that is cut in two. *)
LEMMA Cut ==
    ASSUME NEW S, NEW s \in Seq(S), NEW n \in 0 .. Len(s)
    PROVE  /\ SubSeq(s, 1, n) \in Seq(S) /\ Len(SubSeq(s, 1, n)) = n
           /\ SubSeq(s, n + 1, Len(s)) \in Seq(S) /\ Len(SubSeq(s, n + 1, Len(s))) = Len(s) - n
           /\ s = SubSeq(s, 1, n) \o SubSeq(s, n + 1, Len(s))
<1> DEFINE l == Len(s)
<1>1. l \in Nat /\ n \in Nat /\ n <= l
  BY LenProperties
<1>2. \A i \in 1 .. l : s[i] \in S
  BY ElementOfSeq, Zenon
<1>3. SubSeq(s, 1, l) = s
  BY SubSeqFull, Zenon
<1>4. SubSeq(s, 1, n) \o SubSeq(s, n + 1, l) = SubSeq(s, 1, l)
  <2>1. 1 \in 1 .. l + 1 /\ n \in 1 - 1 .. l /\ l \in n .. l
    BY <1>1
  <2> QED
    BY <2>1, ConcatAdjacentSubSeq, Zenon
<1> HIDE DEF l
<1>5. SubSeq(s, 1, n) \in Seq(S) /\ Len(SubSeq(s, 1, n)) = IF 1 <= n THEN n - 1 + 1 ELSE 0
  <2>1. \A i \in 1 .. n : s[i] \in S
    BY <1>1, <1>2
  <2>2. 1 \in Int /\ n \in Int
    BY <1>1
  <2> QED
    BY ONLY <2>1, <2>2, SubSeqProperties
<1>6. /\ SubSeq(s, n + 1, l) \in Seq(S)
      /\ Len(SubSeq(s, n + 1, l)) = IF n + 1 <= l THEN l - (n + 1) + 1 ELSE 0
  <2> DEFINE k == n + 1
  <2>1. \A i \in k .. l : s[i] \in S
    BY <1>1, <1>2
  <2>2. k \in Int /\ l \in Int
    BY <1>1
  <2> HIDE DEF k
  <2>3. SubSeq(s, k, l) \in Seq(S) /\ Len(SubSeq(s, k, l)) = IF k <= l THEN l - k + 1 ELSE 0
    BY ONLY <2>1, <2>2, SubSeqProperties, Zenon
  <2> QED
    BY <2>3, Zenon DEF k
<1>7. Len(SubSeq(s, 1, n)) = n /\ Len(SubSeq(s, n + 1, l)) = l - n
  BY <1>1, <1>5, <1>6
<1> QED
  BY <1>3, <1>4, <1>5, <1>6, <1>7, Zenon DEF l

(* What is left of a sequence that is continued. *)
LEMMA Ending ==
    ASSUME NEW S, NEW s \in Seq(S), NEW t \in Seq(S), NEW n \in 0 .. Len(s)
    PROVE  SubSeq(s \o t, n + 1, Len(s \o t)) = SubSeq(s, n + 1, Len(s)) \o t
<1> DEFINE whole == s \o t
           first == SubSeq(s, 1, n)
           part == SubSeq(s, n + 1, Len(s))
           left == SubSeq(whole, n + 1, Len(whole))
<1>1. whole \in Seq(S) /\ Len(whole) = Len(s) + Len(t) /\ n \in 0 .. Len(whole)
  BY ConcatProperties, LenProperties
<1>2. first \in Seq(S) /\ part \in Seq(S) /\ s = first \o part
  BY Cut, Zenon
<1>3. left \in Seq(S) /\ whole = SubSeq(whole, 1, n) \o left
  <2> HIDE DEF whole
  <2> QED
    BY <1>1, Cut, Zenon
<1>4. SubSeq(whole, 1, n) = first
  BY Beginning, Zenon
<1>5. whole = (first \o part) \o t
  BY <1>2, Zenon
<1> HIDE DEF whole, first, part, left
<1>6. whole = first \o (part \o t) /\ part \o t \in Seq(S)
  <2>1. (first \o part) \o t = first \o (part \o t)
    BY <1>2, ConcatAssociative, SMTT(30)
  <2>2. part \o t \in Seq(S)
    BY <1>2, ConcatProperties, Zenon
  <2> QED
    BY <1>5, <2>1, <2>2, Zenon
<1>7. first \o left = first \o (part \o t)
  BY <1>3, <1>4, <1>6, Zenon
<1>8. left = part \o t
  BY <1>2, <1>3, <1>6, <1>7, ConcatSimplifications, Zenon
<1> QED
  BY <1>8, Zenon DEF left, part, whole

(* An element more. *)
LEMMA Appended ==
    ASSUME NEW s, IsSeq(s), NEW e
    PROVE  /\ IsSeq(Append(s, e))
           /\ Len(s) \in Nat /\ Len(Append(s, e)) = Len(s) + 1
           /\ DOMAIN Append(s, e) = 1 .. Len(s) + 1 /\ DOMAIN s = 1 .. Len(s)
           /\ \A i \in 1 .. Len(s) : Append(s, e)[i] = s[i]
           /\ Append(s, e)[Len(s) + 1] = e
<1>1. PICK S : s \in Seq(S)
  BY Zenon DEF IsSeq
<1>2. s \in Seq(S \cup {e}) /\ e \in S \cup {e}
  BY <1>1
<1>3. Append(s, e) \in Seq(S \cup {e})
  BY <1>2
<1> QED
  BY <1>2, <1>3 DEF IsSeq

(* One sequence after another, and one element more. *)
LEMMA Concatenated ==
    ASSUME NEW s, IsSeq(s), NEW t, IsSeq(t), NEW e
    PROVE  /\ IsSeq(s \o t) /\ <<>> \o s = s /\ <<>> \o (s \o t) = s \o t
           /\ IsSeq(Append(t, e)) /\ Append(s \o t, e) = s \o Append(t, e)
<1>1. PICK S : s \in Seq(S)
  BY Zenon DEF IsSeq
<1>2. PICK T : t \in Seq(T)
  BY Zenon DEF IsSeq
<1> DEFINE U == (S \cup T) \cup {e}
<1>3. s \in Seq(U) /\ t \in Seq(U) /\ e \in U
  BY <1>1, <1>2
<1> HIDE DEF U
<1>4. s \o t \in Seq(U) /\ Append(t, e) \in Seq(U) /\ <<e>> \in Seq(U)
  BY <1>3, ConcatProperties
<1>5. <<>> \o s = s /\ <<>> \o (s \o t) = s \o t
  BY <1>3, <1>4, ConcatEmptySeq, Zenon
<1>6. Append(s \o t, e) = (s \o t) \o <<e>> /\ Append(t, e) = t \o <<e>>
  BY <1>3, <1>4, AppendIsConcat, Zenon
<1>7. (s \o t) \o <<e>> = s \o (t \o <<e>>)
  BY <1>3, <1>4, ConcatAssociative
<1> QED
  BY <1>4, <1>5, <1>6, <1>7, Zenon DEF IsSeq

-----------------------------------------------------------------------------
(* The invariant *)

OpenArray(a) == /\ a.capacity \in Nat
                /\ IsSeq(a.items)
                /\ Len(a.items) < a.capacity

StackOk == /\ IsSeq(stack)
           /\ \A i \in DOMAIN stack : OpenArray(stack[i])

ResultOk == /\ result \in {"Parsing", "Complete", "Panicked"} \cup ParseErrors
            /\ state.name = "Error" => state.arg \in ParseErrors

PInv == StackOk /\ ResultOk

(* The last element less. *)
LEMMA OuterArrays ==
    ASSUME IsSeq(stack), stack # <<>>
    PROVE  /\ IsSeq(Outer)
           /\ Len(stack) \in Nat \ {0} /\ Len(Outer) = Len(stack) - 1
           /\ DOMAIN Outer = 1 .. Len(stack) - 1 /\ DOMAIN stack = 1 .. Len(stack)
           /\ \A i \in 1 .. Len(stack) - 1 : Outer[i] = stack[i]
<1>1. PICK S : stack \in Seq(S)
  BY Zenon DEF IsSeq
<1>2. Len(stack) \in Nat \ {0} /\ DOMAIN stack = 1 .. Len(stack)
  BY <1>1
<1>3. Outer \in Seq(S) /\ Len(Outer) = Len(stack) - 1
  BY <1>1, <1>2 DEF Outer
<1> QED
  BY <1>1, <1>2, <1>3 DEF IsSeq, Outer

(* At first nothing is open. *)
LEMMA InitPInv == Init => PInv
<1> SUFFICES ASSUME Init PROVE PInv
  OBVIOUS
<1>1. stack = <<>> /\ <<>> \in Seq({}) /\ DOMAIN <<>> = {}
  BY DEF Init
<1> QED
  BY <1>1, Zenon DEF Init, PInv, StackOk, ResultOk, IsSeq, Start, State

(* Storing a frame: in the output, in an array with room for more, or in   *)
(* one that is then full and leaves the stack.                             *)
LEMMA PushStack == ASSUME StackOk, PushFrame PROVE StackOk'
<1> DEFINE top == [capacity |-> Innermost.capacity, items |-> Append(Innermost.items, frame[1])]
<1>1. CASE stack = <<>>
  BY <1>1, Zenon DEF PushFrame, StackOk
<1>2. CASE stack # <<>>
  <2>1. /\ IsSeq(Outer) /\ DOMAIN Outer = 1 .. Len(stack) - 1
        /\ Len(Outer) = Len(stack) - 1 /\ Len(stack) \in Nat \ {0}
        /\ DOMAIN stack = 1 .. Len(stack)
        /\ \A i \in 1 .. Len(stack) - 1 : Outer[i] = stack[i]
    BY <1>2, OuterArrays, Zenon DEF StackOk
  <2>2. \A i \in DOMAIN Outer : OpenArray(Outer[i])
    BY <2>1 DEF StackOk
  <2>3. OpenArray(Innermost)
    BY <2>1 DEF StackOk, Innermost
  <2>4. IsSeq(top.items) /\ Len(top.items) \in Nat /\ Len(top.items) <= top.capacity
    BY <2>3, Appended DEF OpenArray
  <2>5. CASE Full(top)
    BY <1>2, <2>1, <2>2, <2>5, Zenon DEF PushFrame, StackOk
  <2>6. CASE ~Full(top)
    <3>1. OpenArray(top)
      BY <2>3, <2>4, <2>6 DEF OpenArray, Full
    <3>2. stack' = Append(Outer, top)
      BY <1>2, <2>6, Zenon DEF PushFrame
    <3> HIDE DEF top
    <3>3. /\ IsSeq(stack') /\ DOMAIN stack' = 1 .. Len(Outer) + 1
          /\ \A i \in 1 .. Len(Outer) : stack'[i] = Outer[i]
          /\ stack'[Len(Outer) + 1] = top
      BY <2>1, <3>2, Appended
    <3> QED
      BY <2>1, <2>2, <3>1, <3>3 DEF StackOk
  <2> QED
    BY <2>5, <2>6, Zenon
<1> QED
  BY <1>1, <1>2, Zenon

(* A new array is open. *)
LEMMA ArrayStack == ASSUME StackOk, ReadArrayLength PROVE StackOk'
<1>1. CASE UNCHANGED stack
  BY <1>1, Zenon DEF StackOk
<1>2. ASSUME NEW length \in 1 .. CapacityMax,
             stack' = Append(stack, [capacity |-> length, items |-> <<>>])
      PROVE  StackOk'
  <2>1. OpenArray([capacity |-> length, items |-> <<>>])
    <3>1. <<>> \in Seq({}) /\ Len(<<>>) = 0
      OBVIOUS
    <3> QED
      BY <1>2, <3>1, WidthAssumption DEF OpenArray, IsSeq
  <2> QED
    BY <1>2, <2>1, Appended DEF StackOk
<1> QED
  BY <1>1, <1>2, Zenon DEF ReadArrayLength, Fails, Returns, Completes

(* The invariant is inductive. *)
LEMMA NextPInv == PInv /\ [Next]_vars => PInv'
<1> SUFFICES ASSUME PInv, [Next]_vars PROVE PInv'
  OBVIOUS
<1>1. StackOk'
  <2>1. CASE UNCHANGED stack
    BY <2>1, Zenon DEF PInv, StackOk
  <2>2. CASE PushFrame
    BY <2>2, PushStack, Zenon DEF PInv
  <2>3. CASE ReadArrayLength
    BY <2>3, ArrayStack, Zenon DEF PInv
  <2> QED
    BY <2>1, <2>2, <2>3, Zenon
    DEF Next, Step, Parse, ReadStart, Starved, ReadText, ReadInline, NotLength, ReadInteger,
        ReadBulkLength, ReadBulkString, FailsAgain, Fails, Returns, Completes, Goes, vars
<1>2. ResultOk'
  <2> USE DEF PInv, ResultOk, ParseErrors
  <2>1. ASSUME NEW n \in 1 .. Len(input) - fed, Parse(n) PROVE ResultOk'
    BY <2>1, Zenon DEF Parse
  <2>2. CASE PushFrame
    BY <2>2, Zenon DEF PushFrame
  <2>3. CASE ReadStart
    <3>1. \A marker \in DOMAIN ReadingOf : ReadingOf[marker] # "Error"
      BY Zenon DEF ReadingOf
    <3>2. PICK name : Goes(State(name, Null)) /\ name # "Error"
      BY <2>3, <3>1 DEF ReadStart
    <3> QED
      BY <3>2, Zenon DEF Goes, State
  <2>4. ASSUME NEW error \in ParseErrors, Fails(error) PROVE ResultOk'
    BY <2>4, Zenon DEF Fails, Returns, State
  <2>5. ASSUME NEW f, Completes(f) PROVE ResultOk'
    BY <2>5, Zenon DEF Completes, Start, State
  <2>6. CASE Starved
    BY <2>6, Zenon DEF Starved, Returns
  <2>7. ASSUME NEW name, NEW made, ReadText(name, made) PROVE ResultOk'
    BY <2>7, <2>4, <2>5, Zenon DEF ReadText
  <2>8. CASE ReadInline
    BY <2>8, <2>4, <2>5 DEF ReadInline, Goes, Start, State
  <2>9. CASE NotLength \/ ReadInteger \/ ReadBulkString
    BY <2>9, <2>4, <2>5, Zenon DEF NotLength, ReadInteger, ReadBulkString
  <2>10. CASE ReadBulkLength
    BY <2>10, <2>4, <2>5 DEF ReadBulkLength, Goes, State
  <2>11. CASE ReadArrayLength
    BY <2>11, <2>4, <2>5 DEF ReadArrayLength, Start, State
  <2>12. CASE FailsAgain
    BY <2>12, <2>4, Zenon DEF FailsAgain, Turn
  <2>13. CASE UNCHANGED vars
    BY <2>13, Zenon DEF vars
  <2> QED
    BY <2>1, <2>2, <2>3, <2>6, <2>7, <2>8, <2>9, <2>10, <2>11, <2>12, <2>13, Zenon DEF Next, Step
<1> QED
  BY <1>1, <1>2, Zenon DEF PInv

(* Whatever the bytes and however they arrive, an open array has room for  *)
(* the frame that comes next (parse, parser.rs:65), so that its capacity   *)
(* is the number of elements its header announced until it is complete;    *)
(* and a call of parse() ends with Ok, one of the three errors, or the     *)
(* panic of an array too long to exist.                                    *)
THEOREM ParserSafe == Spec => []ArraysHaveRoom
<1>1. PInv => ArraysHaveRoom
  BY Zenon DEF PInv, StackOk, ResultOk, OpenArray, ArraysHaveRoom
<1> QED
  BY <1>1, InitPInv, NextPInv, PTL DEF Spec

-----------------------------------------------------------------------------
(* The buffer, and how a call ended *)

Buffered == /\ input \in Seq(Byte) /\ fed \in 0 .. Len(input) /\ buf \in Seq(Byte)

(* An error is kept, and later calls return nothing else. *)
Errors == /\ result \in {"Parsing", "Complete", "Panicked"} \cup ParseErrors
          /\ result \in ParseErrors => state.name = "Error"
          /\ state.name = "Error" => /\ state = State("Error", state.arg)
                                     /\ state.arg \in ParseErrors
                                     /\ frame = None
                                     /\ result \in {"Parsing", state.arg}
                                     /\ result = "Parsing" => output = <<>>

ChunkInv == /\ Buffered /\ Errors
            /\ IsSeq(output) /\ IsSeq(returned)
            /\ state.name = "ReadingBulkString" => state.arg \in Nat

(* What is left of the buffer are bytes, *)
LEMMA DroppedType ==
    ASSUME Buffered, NEW n \in 0 .. Len(buf) PROVE Dropped(n) \in Seq(Byte)
BY Cut, Zenon DEF Buffered, Dropped

(* and a line of it, or its first word, is not longer than it. *)
LEMMA LineInBuffer ==
    ASSUME Buffered
    PROVE  /\ HasLine => Len(Line) \in Nat /\ Len(Line) + 2 <= Len(buf) /\ Line \in Seq(Byte)
           /\ HasLF => Len(LFLine) \in Nat /\ Len(LFLine) + 1 <= Len(buf) /\ LFLine \in Seq(Byte)
<1>1. buf \in Seq(Byte) /\ Len(buf) \in Nat
  BY LenProperties, Zenon DEF Buffered
<1>2. ASSUME HasLine PROVE Len(Line) \in Nat /\ Len(Line) + 2 <= Len(buf) /\ Line \in Seq(Byte)
  <2> DEFINE n == First(LineEnds)
  <2>1. n \in LineEnds
    <3>1. LineEnds \in SUBSET Nat /\ LineEnds # {}
      BY <1>1, <1>2 DEF HasLine, LineEnds
    <3> QED
      BY <3>1, SmallestOf, Zenon DEF First
  <2>2. n \in Nat /\ n - 1 \in 0 .. Len(buf) /\ n + 1 <= Len(buf)
    BY <1>1, <2>1 DEF LineEnds
  <2> HIDE DEF n
  <2>3. SubSeq(buf, 1, n - 1) \in Seq(Byte) /\ Len(SubSeq(buf, 1, n - 1)) = n - 1
    BY <1>1, <2>2, Cut, Zenon
  <2>4. Line = SubSeq(buf, 1, n - 1)
    BY Zenon DEF Line, n
  <2>5. n - 1 \in Nat /\ (n - 1) + 2 = n + 1 /\ (n - 1) + 1 = n
    BY <2>2
  <2> QED
    BY <2>2, <2>3, <2>4, <2>5, Zenon
<1>3. ASSUME HasLF PROVE Len(LFLine) \in Nat /\ Len(LFLine) + 1 <= Len(buf) /\ LFLine \in Seq(Byte)
  <2> DEFINE n == First(LFs)
  <2>1. n \in LFs
    <3>1. LFs \in SUBSET Nat /\ LFs # {}
      BY <1>1, <1>3 DEF HasLF, LFs
    <3> QED
      BY <3>1, SmallestOf, Zenon DEF First
  <2>2. n \in Nat /\ n - 1 \in 0 .. Len(buf) /\ n <= Len(buf)
    BY <1>1, <2>1 DEF LFs
  <2> HIDE DEF n
  <2>3. SubSeq(buf, 1, n - 1) \in Seq(Byte) /\ Len(SubSeq(buf, 1, n - 1)) = n - 1
    BY <1>1, <2>2, Cut, Zenon
  <2>4. LFLine = SubSeq(buf, 1, n - 1)
    BY Zenon DEF LFLine, n
  <2>5. n - 1 \in Nat /\ (n - 1) + 2 = n + 1 /\ (n - 1) + 1 = n
    BY <2>2
  <2> QED
    BY <2>2, <2>3, <2>4, <2>5, Zenon
<1> QED
  BY <1>2, <1>3, Zenon

(* The state machine moves on, *)
LEMMA KeptByGoes ==
    ASSUME ChunkInv, NEW name, Turn(name), NEW next, Goes(next), buf' \in Seq(Byte),
           next.name # "Error", next.name = "ReadingBulkString" => next.arg \in Nat
    PROVE  ChunkInv'
<1>1. /\ result = "Parsing" /\ state' = next
      /\ UNCHANGED <<input, fed, stack, frame, output, returned, result>>
  BY Zenon DEF Turn, Goes, Idle
<1> QED
  BY <1>1, Zenon DEF ChunkInv, Buffered, Errors, ParseErrors

(* a frame is complete, *)
LEMMA KeptByCompletes ==
    ASSUME ChunkInv, NEW name, Turn(name), NEW f, Completes(f), buf' \in Seq(Byte)
    PROVE  ChunkInv'
<1>1. /\ result = "Parsing" /\ state'.name = "Start"
      /\ UNCHANGED <<input, fed, output, returned, result>>
  BY Zenon DEF Turn, Completes, Idle, Start, State
<1> QED
  BY <1>1, Zenon DEF ChunkInv, Buffered, Errors, ParseErrors

(* or an error is met. *)
LEMMA KeptByFails ==
    ASSUME ChunkInv, NEW name, Turn(name), NEW error \in ParseErrors, Fails(error),
           buf' \in Seq(Byte)
    PROVE  ChunkInv'
<1>1. /\ frame = None /\ result' = error /\ returned' = returned \o output
      /\ state' = State("Error", error) /\ state'.name = "Error" /\ state'.arg = error
      /\ UNCHANGED <<input, fed, frame, output>>
  BY Zenon DEF Turn, Fails, Returns, State
<1>2. IsSeq(returned')
  BY <1>1, Concatenated, Zenon DEF ChunkInv
<1> QED
  BY <1>1, <1>2, Zenon DEF ChunkInv, Buffered, Errors, ParseErrors

(* The invariant is inductive. *)
LEMMA InitChunkInv == Init => ChunkInv
<1> SUFFICES ASSUME Init PROVE ChunkInv
  OBVIOUS
<1>1. input \in Seq(Byte) /\ Len(input) \in Nat /\ <<>> \in Seq(Byte) /\ IsSeq(<<>>)
  BY InputAssumption, LenProperties DEF Init, IsSeq
<1>2. state.name = "Start"
  BY Zenon DEF Init, Start, State
<1> QED
  BY <1>1, <1>2 DEF Init, ChunkInv, Buffered, Errors, ParseErrors

(* It is kept by a turn that reads a line. *)
LEMMA KeptByLine ==
    ASSUME ChunkInv,
           \/ ReadText("ReadingSimpleString", SimpleString(Line))
           \/ ReadText("ReadingSimpleError", SimpleError(Line))
           \/ ReadInline
    PROVE  ChunkInv'
<1>1. Buffered /\ Len(buf) \in Nat /\ "UnreadableUtf" \in ParseErrors
  BY LenProperties, Zenon DEF ChunkInv, Buffered, ParseErrors
<1>2. ASSUME NEW name, NEW made, ReadText(name, made) PROVE ChunkInv'
  <2>1. /\ Turn(name) /\ Len(Line) \in 0 .. Len(buf) /\ Len(Line) + 2 \in 0 .. Len(buf)
    BY <1>1, <1>2, LineInBuffer DEF ReadText
  <2>2. Dropped(Len(Line)) \in Seq(Byte) /\ Dropped(Len(Line) + 2) \in Seq(Byte)
    BY <1>1, <2>1, DroppedType, Zenon
  <2>3. \/ buf' \in Seq(Byte) /\ Completes(made)
        \/ buf' \in Seq(Byte) /\ Fails("UnreadableUtf")
    BY <1>2, <2>2, Zenon DEF ReadText
  <2> QED
    BY <1>1, <2>1, <2>3, KeptByCompletes, KeptByFails, Zenon
<1>3. CASE ReadInline
  <2> DEFINE name == "ReadingInline"
  <2>1. Turn(name) /\ Len(LFLine) \in 0 .. Len(buf) /\ Len(LFLine) + 1 \in 0 .. Len(buf)
    BY <1>1, <1>3, LineInBuffer DEF ReadInline
  <2>2. Dropped(Len(LFLine)) \in Seq(Byte) /\ Dropped(Len(LFLine) + 1) \in Seq(Byte)
    BY <1>1, <2>1, DroppedType, Zenon
  <2>3. /\ buf' \in Seq(Byte)
        /\ (\E f : Completes(f)) \/ Fails("UnreadableUtf") \/ Goes(Start)
    BY <1>3, <2>2, Zenon DEF ReadInline, InlineRest
  <2>4. Start.name = "Start"
    BY Zenon DEF Start, State
  <2> HIDE DEF name
  <2> QED
    BY <1>1, <2>1, <2>3, <2>4, KeptByCompletes, KeptByFails, KeptByGoes, Zenon
<1> QED
  BY <1>2, <1>3, Zenon

(* It is kept by a turn that reads a length. *)
LEMMA KeptByLength ==
    ASSUME ChunkInv, NotLength \/ ReadInteger \/ ReadBulkLength \/ ReadArrayLength
    PROVE  ChunkInv'
<1>1. Buffered /\ Len(buf) \in Nat /\ "InvalidLength" \in ParseErrors
  BY LenProperties, Zenon DEF ChunkInv, Buffered, ParseErrors
<1>2. CASE NotLength
  <2>1. PICK name : Turn(name)
    BY <1>2, Zenon DEF NotLength
  <2>2. buf' \in Seq(Byte) /\ Fails("InvalidLength")
    BY <1>1, <1>2, Zenon DEF NotLength, Buffered
  <2> QED
    BY <1>1, <2>1, <2>2, KeptByFails, Zenon
<1>3. ASSUME NEW name, ReadLength(name)
      PROVE  Turn(name) /\ buf' \in Seq(Byte) /\ Lengths \subseteq Int
  <2>1. Len(Line) + 2 \in 0 .. Len(buf)
    BY <1>1, <1>3, LineInBuffer DEF ReadLength
  <2>2. Dropped(Len(Line) + 2) \in Seq(Byte)
    BY <1>1, <2>1, DroppedType, Zenon
  <2>3. Lengths \subseteq Int
    BY WidthAssumption DEF Lengths, IsI64
  <2> QED
    BY <1>3, <2>2, <2>3, Zenon DEF ReadLength
<1>4. CASE ReadInteger
  BY <1>3, <1>4, KeptByCompletes, Zenon DEF ReadInteger
<1>5. CASE ReadBulkLength
  <2>1. PICK length \in Lengths :
                     \/ length < -1 /\ Fails("InvalidLength")
                     \/ length = -1 /\ Completes(Bulk(Null))
                     \/ length >= 0 /\ Goes(State("ReadingBulkString", length))
    BY <1>5, Zenon DEF ReadBulkLength
  <2> DEFINE next == State("ReadingBulkString", length)
             name == "ReadingBulkLength"
  <2>2. length \in Int /\ Turn(name) /\ buf' \in Seq(Byte)
    BY <1>3, <1>5, Zenon DEF ReadBulkLength
  <2>3. next.name # "Error" /\ next.arg = length
    BY Zenon DEF State
  <2>4. length >= 0 => length \in Nat
    BY <2>2
  <2> HIDE DEF next, name
  <2> QED
    BY <1>1, <2>1, <2>2, <2>3, <2>4, KeptByCompletes, KeptByFails, KeptByGoes, Zenon DEF next
<1>6. CASE ReadArrayLength
  <2> DEFINE name == "ReadingArrayLength"
  <2>1. Turn(name) /\ buf' \in Seq(Byte)
    BY <1>3, <1>6, Zenon DEF ReadArrayLength
  <2>2. \/ \E f : Completes(f)
        \/ Fails("InvalidLength")
        \/ state' = Start /\ UNCHANGED <<input, fed, frame, output, returned, result>>
        \/ result' = "Panicked" /\ UNCHANGED <<input, fed, state, stack, frame, output, returned>>
    BY <1>6, Zenon DEF ReadArrayLength
  <2>3. CASE state' = Start /\ UNCHANGED <<input, fed, frame, output, returned, result>>
    BY <2>1, <2>3, Zenon DEF ChunkInv, Buffered, Errors, Turn, Idle, Start, State, ParseErrors
  <2>4. CASE result' = "Panicked" /\ UNCHANGED <<input, fed, state, stack, frame, output, returned>>
    BY <2>1, <2>4, Zenon DEF ChunkInv, Buffered, Errors, Turn, Idle, ParseErrors
  <2> HIDE DEF name
  <2> QED
    BY <1>1, <2>1, <2>2, <2>3, <2>4, KeptByCompletes, KeptByFails, Zenon
<1> QED
  BY <1>2, <1>4, <1>5, <1>6, Zenon

(* It is kept by every step. *)
LEMMA NextChunkInv == ChunkInv /\ [Next]_vars => ChunkInv'
<1> SUFFICES ASSUME ChunkInv, [Next]_vars PROVE ChunkInv'
  OBVIOUS
<1>1. Buffered /\ Len(buf) \in Nat /\ Len(input) \in Nat /\ IsSeq(output) /\ IsSeq(returned)
  BY LenProperties, Zenon DEF ChunkInv, Buffered
<1>2. ASSUME NEW n \in 1 .. Len(input) - fed, Parse(n) PROVE ChunkInv'
  <2>1. fed \in Nat /\ fed + n \in 0 .. Len(input) /\ fed + 1 \in 1 .. Len(input)
    BY <1>1 DEF Buffered
  <2>2. SubSeq(input, fed + 1, fed + n) \in Seq(Byte)
    <3>1. \A i \in fed + 1 .. fed + n : input[i] \in Byte
      BY <1>1, <2>1, ElementOfSeq DEF Buffered
    <3> DEFINE k == fed + 1
               l == fed + n
    <3>2. k \in Int /\ l \in Int
      BY <2>1
    <3> HIDE DEF k, l
    <3>3. SubSeq(input, k, l) \in Seq(Byte)
      BY ONLY <3>1, <3>2, SubSeqProperties, Zenon DEF k, l
    <3> QED
      BY <3>3, Zenon DEF k, l
  <2>3. Extended(n) \in Seq(Byte)
    BY <1>1, <2>2, ConcatProperties, Zenon DEF Extended, Buffered
  <2>4. IsSeq(<<>>)
    BY EmptySeq, Zenon DEF IsSeq
  <2>5. /\ buf' \in Seq(Byte) /\ fed' = fed + n /\ output' = <<>> /\ result' = "Parsing"
        /\ UNCHANGED <<input, state, stack, frame, returned>>
    BY <1>2, <2>3, Zenon DEF Parse
  <2>6. Buffered' /\ IsSeq(output') /\ IsSeq(returned')
    BY <1>1, <2>1, <2>4, <2>5, Zenon DEF Buffered
  <2>7. Errors'
    BY <2>5, Zenon DEF ChunkInv, Errors, ParseErrors
  <2> QED
    BY <2>5, <2>6, <2>7, Zenon DEF ChunkInv
<1>3. CASE PushFrame
  <2>1. IsSeq(output')
    <3>1. output' = output \/ output' = Append(output, frame[1])
      BY <1>3, Zenon DEF PushFrame
    <3>2. IsSeq(Append(output, frame[1]))
      BY <1>1, Appended, Zenon
    <3> QED
      BY <1>1, <3>1, <3>2, Zenon
  <2>2. result = "Parsing" /\ state.name # "Error" /\ UNCHANGED <<input, fed, buf, state, returned, result>>
    BY <1>3, Zenon DEF PushFrame, ChunkInv, Errors, Idle
  <2> QED
    BY <2>1, <2>2, Zenon DEF ChunkInv, Buffered, Errors, ParseErrors
<1>4. CASE ReadStart
  <2>1. Dropped(1) \in Seq(Byte) /\ buf \in Seq(Byte)
    <3>1. buf \in Seq(Byte) /\ buf # <<>>
      BY <1>1, <1>4, Zenon DEF ReadStart, Buffered
    <3>2. 1 \in 0 .. Len(buf)
      BY <1>1, <3>1, EmptySeq
    <3> QED
      BY <1>1, <3>1, <3>2, DroppedType, Zenon
  <2>2. \A marker \in DOMAIN ReadingOf : ReadingOf[marker] \notin {"Error", "ReadingBulkString"}
    BY Zenon DEF ReadingOf
  <2>3. PICK next : Goes(next) /\ next.name \notin {"Error", "ReadingBulkString"}
    BY <1>4, <2>2 DEF ReadStart, State
  <2>4. Turn("Start") /\ buf' \in Seq(Byte)
    BY <1>4, <2>1, Zenon DEF ReadStart
  <2> QED
    BY <2>3, <2>4, KeptByGoes, Zenon
<1>5. CASE Starved
  <2>1. result = "Parsing" /\ state.name # "Error" /\ result' = "Complete"
    BY <1>5, Zenon DEF Starved, Turn, Idle, LineStates, Returns
  <2>2. IsSeq(returned') /\ UNCHANGED <<input, fed, buf, state, frame, output>>
    BY <1>1, <1>5, Concatenated, Zenon DEF Starved, Returns
  <2> QED
    BY <2>1, <2>2, Zenon DEF ChunkInv, Buffered, Errors, ParseErrors
<1>6. CASE \/ ReadText("ReadingSimpleString", SimpleString(Line))
           \/ ReadText("ReadingSimpleError", SimpleError(Line))
           \/ ReadInline
  BY <1>6, KeptByLine, Zenon
<1>7. CASE NotLength \/ ReadInteger \/ ReadBulkLength \/ ReadArrayLength
  BY <1>7, KeptByLength, Zenon
<1>8. CASE ReadBulkString
  <2>1. state.arg \in Nat /\ Turn("ReadingBulkString") /\ Len(buf) >= state.arg + 2
    BY <1>1, <1>8 DEF ReadBulkString, Turn, ChunkInv, NeedsBulk
  <2>2. Dropped(state.arg + 2) \in Seq(Byte) /\ buf \in Seq(Byte)
    <3>1. state.arg + 2 \in 0 .. Len(buf)
      BY <1>1, <2>1
    <3> QED
      BY <1>1, <3>1, DroppedType, Zenon DEF Buffered
  <2>3. "UnreadableBulkString" \in ParseErrors
    BY Zenon DEF ParseErrors
  <2>4. buf' \in Seq(Byte) /\ ((\E f : Completes(f)) \/ Fails("UnreadableBulkString"))
    BY <1>8, <2>2, Zenon DEF ReadBulkString
  <2> QED
    BY <2>1, <2>3, <2>4, KeptByCompletes, KeptByFails, Zenon
<1>9. CASE FailsAgain
  <2>1. /\ state.name = "Error" /\ state = State("Error", state.arg) /\ state.arg \in ParseErrors
        /\ frame = None /\ result = "Parsing" /\ output = <<>>
    BY <1>9, Zenon DEF FailsAgain, Turn, Idle, ChunkInv, Errors
  <2>2. /\ state' = state /\ result' = state.arg /\ returned' = returned \o output
        /\ UNCHANGED <<input, fed, buf, frame, output>>
    BY <1>9, <2>1, Zenon DEF FailsAgain, Fails, Returns
  <2>3. IsSeq(returned')
    BY <1>1, <2>2, Concatenated, Zenon
  <2> QED
    BY <2>1, <2>2, <2>3, Zenon DEF ChunkInv, Buffered, Errors
<1>10. CASE UNCHANGED vars
  BY <1>10, Zenon DEF vars, ChunkInv, Buffered, Errors
<1> QED
  BY <1>2, <1>3, <1>4, <1>5, <1>6, <1>7, <1>8, <1>9, <1>10, Zenon DEF Next, Step
=============================================================================
