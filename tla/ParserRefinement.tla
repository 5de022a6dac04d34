-------------------------- MODULE ParserRefinement ---------------------------
(***************************************************************************)
(* Parsing in chunks implements parsing at once.  The buffer of the one    *)
(* call holds the bytes of all the chunks to come.  A call of parse() that *)
(* ends for want of bytes is invisible to it, but for the last one, and so *)
(* is one that returns an earlier error again.                             *)
(*                                                                         *)
(* The proof rests on what a turn of the parser looks at: the first line   *)
(* of the buffer, or as many bytes as the state asks for.  Neither changes *)
(* when bytes are added behind.                                            *)
(***************************************************************************)
EXTENDS ParserProofs

Unread == SubSeq(input, fed + 1, Len(input))

(* The last call with bytes has wanted more, or there was an error. *)
Exhausted == result = "Complete" /\ fed > 0 /\ fed = Len(input)
Over == Exhausted \/ state.name = "Error"

OnceBuf == buf \o Unread
OnceOutput == IF result \in {"Parsing", "Panicked"} THEN returned \o output ELSE returned
OnceReturned == IF Over THEN returned ELSE <<>>
OnceResult == IF state.name = "Error" THEN state.arg
              ELSE IF result = "Complete" /\ ~Exhausted THEN "Parsing" ELSE result

Once == INSTANCE Parser WITH fed <- Len(input), buf <- OnceBuf, output <- OnceOutput,
                             returned <- OnceReturned, result <- OnceResult

(* However the bytes of a client are cut into chunks, the calls of parse() *)
(* take the very steps, and so return the very frames and the error, of a  *)
(* single call that is given all of them.                                  *)
ImplementsOneCall == Once!OneCallSpec

-----------------------------------------------------------------------------
(* What a turn sees of the buffer *)

(* The bytes to come are bytes. *)
LEMMA UnreadType ==
    ASSUME Buffered
    PROVE  Unread \in Seq(Byte) /\ OnceBuf \in Seq(Byte) /\ Len(OnceBuf) = Len(buf) + Len(Unread)
           /\ Len(buf) \in Nat /\ Len(Unread) \in Nat
<1>1. Unread \in Seq(Byte)
  BY Cut, Zenon DEF Buffered, Unread
<1> QED
  BY <1>1, ConcatProperties, LenProperties, Zenon DEF Buffered, OnceBuf

(* Conversions do not depend on the buffer. *)
LEMMA SameConversions ==
    /\ \A bytes : Once!Utf8(bytes) = Utf8(bytes)
    /\ \A bytes : Once!IsI64(bytes) = IsI64(bytes) /\ Once!I64Of(bytes) = I64Of(bytes)
    /\ \A bytes : Once!Words(bytes) = Words(bytes)
<1>1. \A bytes : Once!Utf8(bytes) = Utf8(bytes)
  BY Zenon DEF Once!Utf8, Utf8, Once!Range, Range, Once!BadByte, BadByte
<1>2. \A bytes : Once!Unsigned(bytes) = Unsigned(bytes)
  BY Zenon DEF Once!Unsigned, Unsigned
<1>3. \A bytes : Once!Magnitude(bytes) = Magnitude(bytes)
  BY Zenon DEF Once!Magnitude, Magnitude, Once!FirstDigits, FirstDigits, Once!MoreDigits, MoreDigits,
         Once!DigitValue, DigitValue, Once!Digits, Digits, Once!Unsigned, Unsigned
<1>4. \A bytes : Once!I64Of(bytes) = I64Of(bytes)
  BY <1>3, Zenon DEF Once!I64Of, I64Of
<1>5. \A f : Once!Range(f) = Range(f)
  BY Zenon DEF Once!Range, Range
<1>6. Once!Digits = Digits
  BY Zenon DEF Once!Digits, Digits
<1>7. \A bytes : Once!IsI64(bytes) = IsI64(bytes)
  BY <1>2, <1>4, <1>5, <1>6, Zenon DEF Once!IsI64, IsI64
<1>8. \A bytes : Once!Words(bytes) = Words(bytes)
  BY Zenon DEF Once!Words, Words, Once!Cardinality, Cardinality, Once!Min, Min, Once!Space, Space, Once!CR, CR, Once!LF, LF
<1> QED
  BY <1>1, <1>4, <1>7, <1>8, Zenon

(* Two bytes of a buffer that more are put behind. *)
LEMMA SamePair ==
    ASSUME Buffered, NEW i \in Nat \ {0}, i + 1 <= Len(buf)
    PROVE  SubSeq(OnceBuf, i, i + 1) = SubSeq(buf, i, i + 1)
<1>1. i \in 1 .. Len(buf) /\ i + 1 \in 1 .. Len(buf)
  BY UnreadType
<1> QED
  BY <1>1, UnreadType, SubSeqOfConcat1, Zenon DEF Buffered, OnceBuf

(* A line that is complete. *)
LEMMA SameLine ==
    ASSUME Buffered, HasLine
    PROVE  /\ Once!HasLine /\ Once!Line = Line /\ Once!Lengths = Lengths
           /\ Len(Line) \in Nat /\ Len(Line) + 2 <= Len(buf)
<1> DEFINE all == Once!LineEnds
           n == First(LineEnds)
<1>1. LineEnds \in SUBSET Nat /\ LineEnds # {}
  BY DEF LineEnds, HasLine
<1>2. n \in LineEnds /\ n = Min(LineEnds)
  BY <1>1, SmallestOf, Zenon DEF First
<1>3. n \in Nat \ {0} /\ n + 1 <= Len(buf)
  BY <1>2, UnreadType DEF LineEnds
<1>4. \A i \in Nat \ {0} : i + 1 <= Len(buf) => (i \in all <=> i \in LineEnds)
  <2> SUFFICES ASSUME NEW i \in Nat \ {0}, i + 1 <= Len(buf)
               PROVE  i \in all <=> i \in LineEnds
    OBVIOUS
  <2>1. i \in 1 .. Len(buf) - 1 /\ i \in 1 .. Len(OnceBuf) - 1
    BY UnreadType
  <2> QED
    BY <2>1, SamePair, Zenon DEF LineEnds, Once!LineEnds, Once!CRLF, CRLF, Once!CR, CR, Once!LF, LF
<1>5. all \in SUBSET Nat /\ \A i \in all : i \in Nat \ {0}
  BY DEF Once!LineEnds
<1>6. LineEnds \subseteq all /\ \A i \in LineEnds : i \in Nat \ {0} /\ i + 1 <= Len(buf)
  <2>1. \A i \in LineEnds : i \in Nat \ {0} /\ i + 1 <= Len(buf)
    BY UnreadType DEF LineEnds
  <2> QED
    BY <1>4, <2>1, Zenon
<1> HIDE DEF all, n
<1>7. \A i \in all : i <= n => i \in LineEnds
  BY <1>3, <1>4, <1>5, UnreadType
<1>8. Min(all) = n
  BY <1>1, <1>2, <1>5, <1>6, <1>7, SmallestStays, Zenon
<1>9. Once!First(all) = n
  BY <1>8, Zenon DEF Once!First, Once!Min, Min
<1>10. n - 1 \in 0 .. Len(buf)
  BY <1>3, UnreadType
<1>11. SubSeq(OnceBuf, 1, n - 1) = SubSeq(buf, 1, n - 1)
  BY <1>10, UnreadType, Beginning, Zenon DEF Buffered, OnceBuf
<1>12. Line = SubSeq(buf, 1, n - 1) /\ Once!Line = SubSeq(OnceBuf, 1, n - 1)
  BY <1>9, Zenon DEF Line, Once!Line, n, all
<1>13. Len(Line) = n - 1
  BY <1>10, <1>12, Cut, Zenon DEF Buffered
<1>14. Once!Lengths = Lengths
  BY <1>11, <1>12, SameConversions, Zenon DEF Once!Lengths, Lengths
<1>15. Once!HasLine
  BY <1>1, <1>6, Zenon DEF Once!HasLine, all
<1> QED
  BY <1>3, <1>11, <1>12, <1>13, <1>14, <1>15, UnreadType

(* A line of an inline command that is complete. *)
LEMMA SameLFLine ==
    ASSUME Buffered, HasLF
    PROVE  /\ Once!HasLF /\ Once!LFLine = LFLine
           /\ Len(LFLine) \in Nat /\ Len(LFLine) + 1 <= Len(buf)
<1> DEFINE all == Once!LFs
           n == First(LFs)
<1>1. LFs \in SUBSET Nat /\ LFs # {}
  BY DEF LFs, HasLF
<1>2. n \in LFs /\ n = Min(LFs)
  BY <1>1, SmallestOf, Zenon DEF First
<1>3. n \in Nat \ {0} /\ n <= Len(buf)
  BY <1>2, UnreadType DEF LFs
<1>4. \A i \in 1 .. Len(buf) : i \in all <=> i \in LFs
  <2> SUFFICES ASSUME NEW i \in 1 .. Len(buf) PROVE i \in all <=> i \in LFs
    OBVIOUS
  <2>1. i \in 1 .. Len(OnceBuf) /\ i \in 1 .. Len(buf) + Len(Unread) /\ i <= Len(buf)
    BY UnreadType
  <2>2. OnceBuf[i] = buf[i]
    BY <2>1, UnreadType, ConcatProperties, Zenon DEF Buffered, OnceBuf
  <2> QED
    BY <2>1, <2>2, Zenon DEF LFs, Once!LFs, Once!LF, LF
<1>5. all \in SUBSET Nat /\ \A i \in all : i \in Nat \ {0}
  BY DEF Once!LFs
<1>6. LFs \subseteq all
  BY <1>4, Zenon DEF LFs
<1> HIDE DEF all, n
<1>7. \A i \in all : i <= n => i \in LFs
  BY <1>3, <1>4, <1>5, UnreadType
<1>8. Min(all) = n
  BY <1>1, <1>2, <1>5, <1>6, <1>7, SmallestStays, Zenon
<1>9. Once!First(all) = n
  BY <1>8, Zenon DEF Once!First, Once!Min, Min
<1>10. n - 1 \in 0 .. Len(buf)
  BY <1>3, UnreadType
<1>11. SubSeq(OnceBuf, 1, n - 1) = SubSeq(buf, 1, n - 1)
  BY <1>10, UnreadType, Beginning, Zenon DEF Buffered, OnceBuf
<1>12. LFLine = SubSeq(buf, 1, n - 1) /\ Once!LFLine = SubSeq(OnceBuf, 1, n - 1)
  BY <1>9, Zenon DEF LFLine, Once!LFLine, n, all
<1>13. Len(LFLine) = n - 1
  BY <1>10, <1>12, Cut, Zenon DEF Buffered
<1>14. Once!HasLF
  BY <1>1, <1>6, Zenon DEF Once!HasLF, all
<1> QED
  BY <1>3, <1>11, <1>12, <1>13, <1>14, UnreadType

(* Taking bytes from the front. *)
LEMMA SameRest ==
    ASSUME Buffered, NEW n \in Nat, n <= Len(buf)
    PROVE  Once!Dropped(n) = Dropped(n) \o Unread /\ Dropped(n) \in Seq(Byte)
<1>1. n \in 0 .. Len(buf)
  BY UnreadType
<1>2. Dropped(n) \in Seq(Byte)
  BY <1>1, Cut, Zenon DEF Buffered, Dropped
<1>3. SubSeq(OnceBuf, n + 1, Len(OnceBuf)) = SubSeq(buf, n + 1, Len(buf)) \o Unread
  BY <1>1, UnreadType, Ending, Zenon DEF Buffered, OnceBuf
<1> QED
  BY <1>2, <1>3, Zenon DEF Once!Dropped, Dropped

-----------------------------------------------------------------------------
(* What a turn does *)

(* While a call is under way and has met no error, so is the one call. *)
LEMMA Underway ==
    ASSUME ChunkInv, ~Idle, state.name # "Error"
    PROVE  OnceOutput = returned \o output /\ OnceReturned = <<>> /\ OnceResult = "Parsing" /\ ~Once!Idle
BY Zenon DEF Idle, Once!Idle, OnceOutput, OnceReturned, OnceResult, Over, Exhausted

(* The state machine moves on. *)
LEMMA SameGoes ==
    ASSUME ChunkInv, NEW name, Turn(name), name # "Error", NEW next, Goes(next),
           next.name # "Error", next.name = "ReadingBulkString" => next.arg \in Nat,
           buf' \in Seq(Byte)
    PROVE  ChunkInv' /\ Once!Turn(name) /\ Once!Goes(next) /\ OnceBuf' = buf' \o Unread
<1>1. /\ ~Idle /\ frame = None /\ state.name = name /\ result = "Parsing"
      /\ state' = next /\ UNCHANGED <<input, fed, stack, frame, output, returned, result>>
  BY Zenon DEF Turn, Goes, Idle
<1>2. OnceOutput = returned \o output /\ OnceReturned = <<>> /\ OnceResult = "Parsing" /\ ~Once!Idle
  BY <1>1, Underway, Zenon
<1>3. OnceOutput' = returned \o output /\ OnceReturned' = <<>> /\ OnceResult' = "Parsing"
  BY <1>1, Zenon DEF OnceOutput, OnceReturned, OnceResult, Over, Exhausted
<1>4. OnceBuf' = buf' \o Unread
  BY <1>1, Zenon DEF OnceBuf, Unread
<1>5. Buffered'
  BY <1>1, Zenon DEF ChunkInv, Buffered
<1>6. Errors'
  BY <1>1, Zenon DEF ChunkInv, Errors
<1>7. ChunkInv'
  BY <1>1, <1>5, <1>6, Zenon DEF ChunkInv
<1>8. Once!Goes(next) /\ Once!Turn(name)
  BY <1>1, <1>2, <1>3, Zenon DEF Once!Goes, Once!Turn, Once!None, None
<1> QED
  BY <1>4, <1>7, <1>8, Zenon

(* A frame is complete. *)
LEMMA SameCompletes ==
    ASSUME ChunkInv, NEW name, Turn(name), name # "Error", NEW f, Completes(f), buf' \in Seq(Byte)
    PROVE  ChunkInv' /\ Once!Turn(name) /\ Once!Completes(f) /\ OnceBuf' = buf' \o Unread
<1>1. /\ ~Idle /\ frame = None /\ state.name = name /\ result = "Parsing"
      /\ frame' = Some(f) /\ state' = Start /\ UNCHANGED <<input, fed, stack, output, returned, result>>
  BY Zenon DEF Turn, Completes, Idle
<1>2. state'.name = "Start" /\ Once!Start = Start
  BY <1>1, Zenon DEF Start, State, Once!Start, Once!State
<1>3. OnceOutput = returned \o output /\ OnceReturned = <<>> /\ OnceResult = "Parsing" /\ ~Once!Idle
  BY <1>1, Underway, Zenon
<1>4. OnceOutput' = returned \o output /\ OnceReturned' = <<>> /\ OnceResult' = "Parsing"
  BY <1>1, <1>2, Zenon DEF OnceOutput, OnceReturned, OnceResult, Over, Exhausted
<1>5. OnceBuf' = buf' \o Unread
  BY <1>1, Zenon DEF OnceBuf, Unread
<1>6. Buffered'
  BY <1>1, Zenon DEF ChunkInv, Buffered
<1>7. Errors'
  BY <1>1, <1>2, Zenon DEF ChunkInv, Errors
<1>8. ChunkInv'
  BY <1>1, <1>2, <1>6, <1>7, Zenon DEF ChunkInv
<1>9. Once!Completes(f) /\ Once!Turn(name)
  BY <1>1, <1>2, <1>3, <1>4, Zenon DEF Once!Completes, Once!Turn, Once!None, None, Once!Some, Some
<1> QED
  BY <1>5, <1>8, <1>9, Zenon

(* An error is met. *)
LEMMA SameFails ==
    ASSUME ChunkInv, NEW name, Turn(name), name # "Error", NEW error \in ParseErrors, Fails(error),
           buf' \in Seq(Byte)
    PROVE  ChunkInv' /\ Once!Turn(name) /\ Once!Fails(error) /\ OnceBuf' = buf' \o Unread
<1>1. /\ ~Idle /\ frame = None /\ state.name = name /\ result = "Parsing"
      /\ state' = State("Error", error) /\ result' = error /\ returned' = returned \o output
      /\ UNCHANGED <<input, fed, stack, frame, output>>
  BY Zenon DEF Turn, Fails, Returns, Idle
<1>2. /\ state'.name = "Error" /\ state'.arg = error /\ state' = State("Error", state'.arg)
      /\ error \notin {"Parsing", "Complete", "Panicked"}
  BY <1>1, Zenon DEF State, ParseErrors
<1>3. OnceOutput = returned \o output /\ OnceReturned = <<>> /\ OnceResult = "Parsing" /\ ~Once!Idle
  BY <1>1, Underway, Zenon
<1>4. OnceOutput' = returned \o output /\ OnceReturned' = returned \o output /\ OnceResult' = error
  BY <1>1, <1>2, Zenon DEF OnceOutput, OnceReturned, OnceResult, Over, Exhausted
<1>5. OnceBuf' = buf' \o Unread
  BY <1>1, Zenon DEF OnceBuf, Unread
<1>6. Buffered'
  BY <1>1, Zenon DEF ChunkInv, Buffered
<1>7. Errors'
  BY <1>1, <1>2, Zenon DEF ChunkInv, Errors
<1>8. IsSeq(returned \o output) /\ <<>> \o (returned \o output) = returned \o output
  BY Concatenated, Zenon DEF ChunkInv
<1>9. ChunkInv'
  BY <1>1, <1>2, <1>6, <1>7, <1>8, Zenon DEF ChunkInv
<1>10. Once!Fails(error) /\ Once!Turn(name)
  BY <1>1, <1>3, <1>4, <1>8, Zenon DEF Once!Fails, Once!Returns, Once!Turn, Once!State, State, Once!None, None
<1> QED
  BY <1>5, <1>9, <1>10, Zenon

-----------------------------------------------------------------------------
(* Turn by turn *)

(* The first byte of a frame. *)
LEMMA SameStart == ASSUME ChunkInv, ReadStart PROVE ChunkInv' /\ Once!ReadStart
<1>1. Buffered /\ buf \in Seq(Byte) /\ buf # <<>> /\ Turn("Start")
  BY Zenon DEF ChunkInv, Buffered, ReadStart
<1>2. Len(buf) \in Nat /\ 1 <= Len(buf)
  BY <1>1
<1>3. OnceBuf # <<>> /\ Head(OnceBuf) = Head(buf)
  <2>1. OnceBuf \in Seq(Byte) /\ Len(OnceBuf) = Len(buf) + Len(Unread) /\ Len(Unread) \in Nat
    BY <1>1, UnreadType, Zenon
  <2>2. OnceBuf[1] = buf[1]
    BY <1>1, <1>2, UnreadType, ConcatProperties DEF OnceBuf
  <2> QED
    BY <1>1, <1>2, <2>1, <2>2
<1>4. Once!ReadingOf = ReadingOf /\ \A n, a : Once!State(n, a) = State(n, a)
  BY Zenon DEF Once!ReadingOf, ReadingOf, Once!State, State
<1>5. CASE /\ Head(buf) \in DOMAIN ReadingOf /\ buf' = Dropped(1)
           /\ Goes(State(ReadingOf[Head(buf)], Null))
  <2> DEFINE next == State(ReadingOf[Head(buf)], Null)
  <2>1. next.name \in LineStates
    BY <1>5, Zenon DEF State, ReadingOf, LineStates
  <2>2. next.name # "Error" /\ next.name # "ReadingBulkString"
    BY <2>1, Zenon DEF LineStates
  <2>3. Once!Dropped(1) = buf' \o Unread /\ buf' \in Seq(Byte)
    BY <1>1, <1>2, <1>5, SameRest, Zenon
  <2> HIDE DEF next
  <2>4. ChunkInv' /\ Once!Turn("Start") /\ Once!Goes(next) /\ OnceBuf' = buf' \o Unread
    BY <1>1, <1>5, <2>2, <2>3, SameGoes, Zenon DEF next
  <2> QED
    BY <1>3, <1>4, <1>5, <2>3, <2>4, Zenon DEF Once!ReadStart, next
<1>6. CASE Head(buf) \notin DOMAIN ReadingOf /\ UNCHANGED buf /\ Goes(State("ReadingInline", Null))
  <2> DEFINE next == State("ReadingInline", Null)
  <2>1. next.name = "ReadingInline"
    BY Zenon DEF State
  <2> HIDE DEF next
  <2>2. ChunkInv' /\ Once!Turn("Start") /\ Once!Goes(next) /\ OnceBuf' = buf' \o Unread
    BY <1>1, <1>6, <2>1, SameGoes, Zenon DEF next
  <2>3. OnceBuf' = OnceBuf
    BY <1>6, <2>2, Zenon DEF OnceBuf
  <2> QED
    BY <1>3, <1>4, <1>6, <2>2, <2>3, Zenon DEF Once!ReadStart, next
<1> QED
  BY <1>5, <1>6, Zenon DEF ReadStart

(* A line of text. *)
LEMMA SameText ==
    ASSUME ChunkInv, NEW name \in LineStates, NEW made, ReadText(name, made)
    PROVE  ChunkInv' /\ Once!ReadText(name, made)
<1>1. Buffered /\ Turn(name) /\ HasLine /\ name # "Error"
  BY Zenon DEF ChunkInv, ReadText, LineStates
<1>2. /\ Once!HasLine /\ Once!Line = Line /\ Len(Line) \in Nat /\ Len(Line) + 2 <= Len(buf)
      /\ Len(buf) \in Nat
  BY <1>1, SameLine, UnreadType, Zenon
<1>3. Once!Utf8(Line) = Utf8(Line)
  BY SameConversions, Zenon
<1>4. CASE Utf8(Line) /\ buf' = Dropped(Len(Line) + 2) /\ Completes(made)
  <2>1. Once!Dropped(Len(Line) + 2) = buf' \o Unread /\ buf' \in Seq(Byte)
    <3> DEFINE n == Len(Line) + 2
    <3>1. n \in Nat /\ n <= Len(buf) /\ buf' = Dropped(n)
      BY <1>2, <1>4
    <3> HIDE DEF n
    <3>2. Once!Dropped(n) = Dropped(n) \o Unread /\ Dropped(n) \in Seq(Byte)
      BY <1>1, <3>1, SameRest, Zenon
    <3> QED
      BY <3>1, <3>2, Zenon DEF n
  <2>2. ChunkInv' /\ Once!Turn(name) /\ Once!Completes(made) /\ OnceBuf' = buf' \o Unread
    BY <1>1, <1>4, <2>1, SameCompletes, Zenon
  <2> QED
    BY <1>2, <1>3, <1>4, <2>1, <2>2, Zenon DEF Once!ReadText
<1>5. CASE ~Utf8(Line) /\ buf' = Dropped(Len(Line)) /\ Fails("UnreadableUtf")
  <2>1. Once!Dropped(Len(Line)) = buf' \o Unread /\ buf' \in Seq(Byte)
    <3> DEFINE n == Len(Line)
    <3>1. n \in Nat /\ n <= Len(buf) /\ buf' = Dropped(n)
      BY <1>2, <1>5
    <3> HIDE DEF n
    <3>2. Once!Dropped(n) = Dropped(n) \o Unread /\ Dropped(n) \in Seq(Byte)
      BY <1>1, <3>1, SameRest, Zenon
    <3> QED
      BY <3>1, <3>2, Zenon DEF n
  <2>2. /\ ChunkInv' /\ Once!Turn(name) /\ Once!Fails("UnreadableUtf")
        /\ OnceBuf' = buf' \o Unread
    <3>1. "UnreadableUtf" \in ParseErrors
      BY Zenon DEF ParseErrors
    <3> QED
      BY <1>1, <1>5, <2>1, <3>1, SameFails, Zenon
  <2> QED
    BY <1>2, <1>3, <1>5, <2>1, <2>2, Zenon DEF Once!ReadText
<1> QED
  BY <1>4, <1>5, Zenon DEF ReadText

(* An inline command. *)
LEMMA SameInline == ASSUME ChunkInv, ReadInline PROVE ChunkInv' /\ Once!ReadInline
<1> DEFINE words == Words(LFLine)
           made == Array([i \in DOMAIN words |-> Bulk(words[i])])
<1>1. Buffered /\ Turn("ReadingInline") /\ HasLF
  BY Zenon DEF ChunkInv, ReadInline
<1>2. /\ Once!HasLF /\ Once!LFLine = LFLine /\ Len(LFLine) \in Nat /\ Len(LFLine) + 1 <= Len(buf)
      /\ Len(buf) \in Nat
  BY <1>1, SameLFLine, UnreadType, Zenon
<1>3. Once!Utf8(LFLine) = Utf8(LFLine) /\ Once!Words(LFLine) = words
  BY SameConversions, Zenon
<1>4. /\ Once!Start = Start /\ Start.name = "Start"
      /\ Once!Array([i \in DOMAIN words |-> Once!Bulk(words[i])]) = made
  BY Zenon DEF Once!Start, Start, Once!State, State, Once!Array, Array, Once!Bulk, Bulk
<1>5. \/ ~Utf8(LFLine) /\ buf' = Dropped(Len(LFLine)) /\ Fails("UnreadableUtf")
      \/ Utf8(LFLine) /\ words = <<>> /\ buf' = InlineRest /\ Goes(Start)
      \/ Utf8(LFLine) /\ words # <<>> /\ buf' = InlineRest /\ Completes(made)
  BY Zenon DEF ReadInline
<1>6. SUFFICES /\ ChunkInv' /\ Once!Turn("ReadingInline")
               /\ \/ /\ ~Utf8(LFLine) /\ OnceBuf' = Once!Dropped(Len(LFLine))
                     /\ Once!Fails("UnreadableUtf")
                  \/ Utf8(LFLine) /\ words = <<>> /\ OnceBuf' = Once!InlineRest /\ Once!Goes(Start)
                  \/ Utf8(LFLine) /\ words # <<>> /\ OnceBuf' = Once!InlineRest /\ Once!Completes(made)
  <2> HIDE DEF made, words
  <2> QED
    BY <1>2, <1>3, <1>4, Zenon DEF Once!ReadInline
<1> HIDE DEF made, words
<1>7. CASE ~Utf8(LFLine) /\ buf' = Dropped(Len(LFLine)) /\ Fails("UnreadableUtf")
  <2>1. Once!Dropped(Len(LFLine)) = buf' \o Unread /\ buf' \in Seq(Byte)
    <3> DEFINE n == Len(LFLine)
    <3>1. n \in Nat /\ n <= Len(buf) /\ buf' = Dropped(n)
      BY <1>2, <1>7
    <3> HIDE DEF n
    <3>2. Once!Dropped(n) = Dropped(n) \o Unread /\ Dropped(n) \in Seq(Byte)
      BY <1>1, <3>1, SameRest, Zenon
    <3> QED
      BY <3>1, <3>2, Zenon DEF n
  <2>2. "UnreadableUtf" \in ParseErrors
    BY Zenon DEF ParseErrors
  <2> QED
    BY <1>1, <1>7, <2>1, <2>2, SameFails, Zenon
<1>8. ASSUME buf' = InlineRest
      PROVE  Once!InlineRest = buf' \o Unread /\ buf' \in Seq(Byte)
  <2>1. Once!Dropped(Len(LFLine) + 1) = buf' \o Unread /\ buf' \in Seq(Byte)
    <3> DEFINE n == Len(LFLine) + 1
    <3>1. n \in Nat /\ n <= Len(buf) /\ buf' = Dropped(n)
      BY <1>2, <1>8 DEF InlineRest
    <3> HIDE DEF n
    <3>2. Once!Dropped(n) = Dropped(n) \o Unread /\ Dropped(n) \in Seq(Byte)
      BY <1>1, <3>1, SameRest, Zenon
    <3> QED
      BY <3>1, <3>2, Zenon DEF n
  <2> QED
    BY <1>2, <2>1, Zenon DEF Once!InlineRest
<1>9. CASE Utf8(LFLine) /\ words = <<>> /\ buf' = InlineRest /\ Goes(Start)
  BY <1>1, <1>4, <1>8, <1>9, SameGoes, Zenon
<1>10. CASE Utf8(LFLine) /\ words # <<>> /\ buf' = InlineRest /\ Completes(made)
  BY <1>1, <1>8, <1>10, SameCompletes, Zenon
<1> QED
  BY <1>5, <1>7, <1>9, <1>10, Zenon

(* A line that is a number. *)
LEMMA SameLength ==
    ASSUME ChunkInv, NEW name \in LineStates, ReadLength(name)
    PROVE  /\ Turn(name) /\ name # "Error"
           /\ Lengths \subseteq Int /\ Once!Lengths = Lengths /\ buf' \in Seq(Byte)
           /\ Once!Turn(name) /\ OnceBuf' = buf' \o Unread => Once!ReadLength(name)
<1>1. Buffered /\ Turn(name) /\ HasLine /\ name # "Error" /\ Lengths # {}
  BY Zenon DEF ChunkInv, ReadLength, LineStates
<1>2. /\ Once!HasLine /\ Once!Line = Line /\ Once!Lengths = Lengths
      /\ Len(Line) \in Nat /\ Len(Line) + 2 <= Len(buf) /\ Len(buf) \in Nat
  BY <1>1, SameLine, UnreadType, Zenon
<1>3. Lengths \subseteq Int
  BY WidthAssumption DEF Lengths, IsI64
<1>4. Once!Dropped(Len(Line) + 2) = buf' \o Unread /\ buf' \in Seq(Byte)
  <2> DEFINE n == Len(Line) + 2
  <2>1. n \in Nat /\ n <= Len(buf) /\ buf' = Dropped(n)
    BY <1>2 DEF ReadLength
  <2> HIDE DEF n
  <2>2. Once!Dropped(n) = Dropped(n) \o Unread /\ Dropped(n) \in Seq(Byte)
    BY <1>1, <2>1, SameRest, Zenon
  <2> QED
    BY <2>1, <2>2, Zenon DEF n
<1>5. Once!Turn(name) /\ OnceBuf' = buf' \o Unread => Once!ReadLength(name)
  BY <1>1, <1>2, <1>4, Zenon DEF Once!ReadLength
<1> QED
  BY <1>1, <1>2, <1>3, <1>4, <1>5, Zenon

(* A line that is not a number. *)
LEMMA SameNotLength == ASSUME ChunkInv, NotLength PROVE ChunkInv' /\ Once!NotLength
<1>1. PICK name \in {"ReadingBulkLength", "ReadingInteger", "ReadingArrayLength"} :
         Turn(name) /\ HasLine /\ Lengths = {}
  BY Zenon DEF NotLength
<1>2. Once!HasLine /\ Once!Lengths = {} /\ buf' \in Seq(Byte) /\ buf' = buf
  BY <1>1, SameLine, Zenon DEF ChunkInv, Buffered, NotLength
<1>3. "InvalidLength" \in ParseErrors /\ name # "Error" /\ Fails("InvalidLength")
  BY Zenon DEF ParseErrors, NotLength
<1>4. /\ ChunkInv' /\ Once!Turn(name) /\ Once!Fails("InvalidLength") /\ OnceBuf' = buf' \o Unread
  BY <1>1, <1>2, <1>3, SameFails, Zenon
<1>5. OnceBuf' = OnceBuf
  BY <1>2, <1>4, Zenon DEF OnceBuf
<1> QED
  BY <1>2, <1>4, <1>5, Zenon DEF Once!NotLength

(* An integer. *)
LEMMA SameInteger == ASSUME ChunkInv, ReadInteger PROVE ChunkInv' /\ Once!ReadInteger
<1>1. ReadLength("ReadingInteger") /\ "ReadingInteger" \in LineStates
  BY Zenon DEF ReadInteger, LineStates
<1>2. PICK length \in Lengths : Completes(Integer(length))
  BY Zenon DEF ReadInteger
<1> DEFINE made == Integer(length)
<1>3. Once!Integer(length) = made
  BY Zenon DEF Once!Integer, Integer
<1> HIDE DEF made
<1>4. /\ ChunkInv' /\ Once!Turn("ReadingInteger") /\ Once!Completes(made)
      /\ OnceBuf' = buf' \o Unread
  BY <1>1, <1>2, SameLength, SameCompletes, Zenon DEF made
<1>5. Once!ReadLength("ReadingInteger") /\ length \in Once!Lengths
  BY <1>1, <1>2, <1>4, SameLength, Zenon
<1> QED
  BY <1>3, <1>4, <1>5, Zenon DEF Once!ReadInteger

(* The length of a bulk string. *)
LEMMA SameBulkLength == ASSUME ChunkInv, ReadBulkLength PROVE ChunkInv' /\ Once!ReadBulkLength
<1> DEFINE name == "ReadingBulkLength"
<1>1. ReadLength(name) /\ name \in LineStates
  BY Zenon DEF ReadBulkLength, LineStates
<1>2. /\ Turn(name) /\ name # "Error" /\ Lengths \subseteq Int /\ Once!Lengths = Lengths
      /\ buf' \in Seq(Byte)
      /\ Once!Turn(name) /\ OnceBuf' = buf' \o Unread => Once!ReadLength(name)
  BY <1>1, SameLength, Zenon
<1>3. PICK length \in Lengths : \/ length < -1 /\ Fails("InvalidLength")
                                \/ length = -1 /\ Completes(Bulk(Null))
                                \/ length >= 0 /\ Goes(State("ReadingBulkString", length))
  BY Zenon DEF ReadBulkLength
<1> HIDE DEF name
<1>4. SUFFICES /\ ChunkInv' /\ Once!Turn(name) /\ OnceBuf' = buf' \o Unread
               /\ \/ length < -1 /\ Once!Fails("InvalidLength")
                  \/ length = -1 /\ Once!Completes(Bulk(Null))
                  \/ length >= 0 /\ Once!Goes(State("ReadingBulkString", length))
  BY <1>2, Zenon DEF Once!ReadBulkLength, Once!Bulk, Bulk, Once!State, State, name
<1>5. CASE length < -1 /\ Fails("InvalidLength")
  <2>1. "InvalidLength" \in ParseErrors
    BY Zenon DEF ParseErrors
  <2> QED
    BY <1>2, <1>5, <2>1, SameFails, Zenon
<1>6. CASE length = -1 /\ Completes(Bulk(Null))
  BY <1>2, <1>6, SameCompletes, Zenon
<1>7. CASE length >= 0 /\ Goes(State("ReadingBulkString", length))
  <2> DEFINE next == State("ReadingBulkString", length)
  <2>1. next.name = "ReadingBulkString" /\ next.arg \in Nat
    BY <1>2, <1>3, <1>7 DEF State
  <2> HIDE DEF next
  <2>2. ChunkInv' /\ Once!Turn(name) /\ Once!Goes(next) /\ OnceBuf' = buf' \o Unread
    BY <1>2, <1>7, <2>1, SameGoes, Zenon DEF next
  <2> QED
    BY <1>7, <2>2, Zenon DEF next
<1> QED
  BY <1>3, <1>5, <1>6, <1>7, Zenon

(* The bytes of a bulk string. *)
LEMMA SameBulkString == ASSUME ChunkInv, ReadBulkString PROVE ChunkInv' /\ Once!ReadBulkString
<1> DEFINE n == state.arg
           name == "ReadingBulkString"
           end == SubSeq(buf, n + 1, n + 2)
           made == Bulk(SubSeq(buf, 1, n))
<1>1. Buffered /\ Turn(name) /\ n \in Nat /\ ~(Len(buf) < n + 2) /\ Len(buf) \in Nat
  BY UnreadType, Zenon DEF ChunkInv, ReadBulkString, Turn, NeedsBulk
<1>2. n + 2 \in Nat /\ n + 2 <= Len(buf) /\ ~(Len(OnceBuf) < n + 2)
  BY <1>1, UnreadType
<1>3. SubSeq(OnceBuf, n + 1, n + 2) = end
  <2> DEFINE i == n + 1
  <2>1. i \in Nat \ {0} /\ i + 1 <= Len(buf) /\ i + 1 = n + 2
    BY <1>1, <1>2
  <2> HIDE DEF i
  <2>2. SubSeq(OnceBuf, i, i + 1) = SubSeq(buf, i, i + 1)
    BY <1>1, <2>1, SamePair, Zenon
  <2> QED
    BY <2>1, <2>2, Zenon DEF i
<1>4. SubSeq(OnceBuf, 1, n) = SubSeq(buf, 1, n)
  <2>1. n \in 0 .. Len(buf) /\ buf \in Seq(Byte) /\ Unread \in Seq(Byte)
    BY <1>1, <1>2, UnreadType DEF Buffered
  <2> QED
    BY <2>1, Beginning, Zenon DEF OnceBuf
<1>5. Once!Bulk(SubSeq(OnceBuf, 1, n)) = made /\ Once!CRLF = CRLF
  BY <1>4, Zenon DEF Once!Bulk, Bulk, Once!CRLF, CRLF, Once!CR, CR, Once!LF, LF
<1>6. \/ end = CRLF /\ buf' = Dropped(n + 2) /\ Completes(made)
      \/ end # CRLF /\ UNCHANGED buf /\ Fails("UnreadableBulkString")
  BY Zenon DEF ReadBulkString
<1> HIDE DEF made, end, n
<1>7. SUFFICES /\ ChunkInv' /\ Once!Turn(name)
               /\ \/ end = CRLF /\ OnceBuf' = Once!Dropped(n + 2) /\ Once!Completes(made)
                  \/ end # CRLF /\ OnceBuf' = OnceBuf /\ Once!Fails("UnreadableBulkString")
  BY <1>2, <1>3, <1>5, Zenon DEF Once!ReadBulkString, Once!NeedsBulk, n
<1>8. CASE end = CRLF /\ buf' = Dropped(n + 2) /\ Completes(made)
  <2> DEFINE k == n + 2
  <2>1. k \in Nat /\ k <= Len(buf) /\ buf' = Dropped(k)
    BY <1>2, <1>8, Zenon
  <2> HIDE DEF k
  <2>2. Once!Dropped(k) = buf' \o Unread /\ buf' \in Seq(Byte)
    BY <1>1, <2>1, SameRest, Zenon
  <2>3. ChunkInv' /\ Once!Turn(name) /\ Once!Completes(made) /\ OnceBuf' = buf' \o Unread
    BY <1>1, <1>8, <2>2, SameCompletes, Zenon
  <2> QED
    BY <1>8, <2>2, <2>3, Zenon DEF k
<1>9. CASE end # CRLF /\ UNCHANGED buf /\ Fails("UnreadableBulkString")
  <2>1. "UnreadableBulkString" \in ParseErrors /\ buf' \in Seq(Byte)
    BY <1>1, <1>9, Zenon DEF ParseErrors, Buffered
  <2>2. /\ ChunkInv' /\ Once!Turn(name) /\ Once!Fails("UnreadableBulkString")
        /\ OnceBuf' = buf' \o Unread
    BY <1>1, <1>9, <2>1, SameFails, Zenon
  <2> QED
    BY <1>9, <2>2, Zenon DEF OnceBuf
<1> QED
  BY <1>6, <1>8, <1>9, Zenon

(* The length of an array. *)
LEMMA SameArrayLength == ASSUME ChunkInv, ReadArrayLength PROVE ChunkInv' /\ Once!ReadArrayLength
<1> DEFINE name == "ReadingArrayLength"
           Opens(length) == /\ length \in 1 .. CapacityMax
                            /\ stack' = Append(stack, [capacity |-> length, items |-> <<>>])
                            /\ state' = Start
<1>1. ReadLength(name) /\ name \in LineStates
  BY Zenon DEF ReadArrayLength, LineStates
<1>2. /\ Turn(name) /\ name # "Error" /\ Once!Lengths = Lengths /\ buf' \in Seq(Byte)
      /\ Once!Turn(name) /\ OnceBuf' = buf' \o Unread => Once!ReadLength(name)
  BY <1>1, SameLength, Zenon
<1>3. PICK length \in Lengths :
         \/ length < -1 /\ Fails("InvalidLength")
         \/ length = -1 /\ Completes(Array(Null))
         \/ length = 0 /\ Completes(Array(<<>>))
         \/ Opens(length) /\ UNCHANGED <<input, fed, frame, output, returned, result>>
         \/ /\ length > CapacityMax /\ result' = "Panicked"
            /\ UNCHANGED <<input, fed, state, stack, frame, output, returned>>
  BY Zenon DEF ReadArrayLength
<1> HIDE DEF name, Opens
<1>4. SUFFICES /\ ChunkInv' /\ Once!Turn(name) /\ OnceBuf' = buf' \o Unread
               /\ \/ length < -1 /\ Once!Fails("InvalidLength")
                  \/ length = -1 /\ Once!Completes(Array(Null))
                  \/ length = 0 /\ Once!Completes(Array(<<>>))
                  \/ Opens(length) /\ UNCHANGED <<input, frame, OnceOutput, OnceReturned, OnceResult>>
                  \/ /\ length > CapacityMax /\ OnceResult' = "Panicked"
                     /\ UNCHANGED <<input, state, stack, frame, OnceOutput, OnceReturned>>
  <2>1. \A items : Once!Array(items) = Array(items)
    BY Zenon DEF Once!Array, Array
  <2>2. Once!Start = Start
    BY Zenon DEF Once!Start, Start, Once!State, State
  <2>3. Once!ReadLength(name) /\ length \in Once!Lengths
    BY <1>2, <1>3, <1>4, Zenon
  <2> QED
    BY <1>4, <2>1, <2>2, <2>3, Zenon DEF Once!ReadArrayLength, name, Opens
<1>5. CASE length < -1 /\ Fails("InvalidLength")
  <2>1. "InvalidLength" \in ParseErrors
    BY Zenon DEF ParseErrors
  <2> QED
    BY <1>2, <1>5, <2>1, SameFails, Zenon
<1>6. CASE length = -1 /\ Completes(Array(Null))
  BY <1>2, <1>6, SameCompletes, Zenon
<1>7. CASE length = 0 /\ Completes(Array(<<>>))
  BY <1>2, <1>7, SameCompletes, Zenon
<1>8. /\ ~Idle /\ frame = None /\ state.name = name /\ result = "Parsing" /\ name # "Error"
      /\ OnceOutput = returned \o output /\ OnceReturned = <<>> /\ OnceResult = "Parsing"
      /\ Once!Turn(name)
  <2>1. ~Idle /\ frame = None /\ state.name = name /\ result = "Parsing" /\ name # "Error"
    BY <1>2, Zenon DEF Turn, Idle
  <2> QED
    BY <2>1, Underway, Zenon DEF Once!Turn, Once!None, None
<1>9. CASE Opens(length) /\ UNCHANGED <<input, fed, frame, output, returned, result>>
  <2>1. state'.name = "Start"
    BY <1>9, Zenon DEF Opens, Start, State
  <2>2. OnceOutput' = returned \o output /\ OnceReturned' = <<>> /\ OnceResult' = "Parsing"
    BY <1>8, <1>9, <2>1, Zenon DEF OnceOutput, OnceReturned, OnceResult, Over, Exhausted
  <2>3. OnceBuf' = buf' \o Unread
    BY <1>9, Zenon DEF OnceBuf, Unread
  <2>4. Buffered' /\ Errors'
    BY <1>2, <1>8, <1>9, <2>1, Zenon DEF ChunkInv, Buffered, Errors
  <2>5. ChunkInv'
    BY <1>9, <2>1, <2>4, Zenon DEF ChunkInv
  <2> QED
    BY <1>8, <1>9, <2>2, <2>3, <2>5, Zenon
<1>10. CASE /\ length > CapacityMax /\ result' = "Panicked"
            /\ UNCHANGED <<input, fed, state, stack, frame, output, returned>>
  <2>1. OnceOutput' = returned \o output /\ OnceReturned' = <<>> /\ OnceResult' = "Panicked"
    BY <1>8, <1>10, Zenon DEF OnceOutput, OnceReturned, OnceResult, Over, Exhausted
  <2>2. OnceBuf' = buf' \o Unread
    BY <1>10, Zenon DEF OnceBuf, Unread
  <2>3. Buffered' /\ Errors'
    BY <1>2, <1>8, <1>10, Zenon DEF ChunkInv, Buffered, Errors, ParseErrors
  <2>4. ChunkInv'
    BY <1>10, <2>3, Zenon DEF ChunkInv
  <2> QED
    BY <1>8, <1>10, <2>1, <2>2, <2>4, Zenon
<1> QED
  BY <1>3, <1>5, <1>6, <1>7, <1>9, <1>10, Zenon

(* Storing a frame. *)
LEMMA SamePush == ASSUME ChunkInv, PushFrame PROVE ChunkInv' /\ Once!PushFrame
<1> DEFINE top == [capacity |-> Innermost.capacity, items |-> Append(Innermost.items, frame[1])]
<1>1. /\ ~Idle /\ result = "Parsing" /\ frame # None /\ state.name # "Error"
      /\ UNCHANGED <<input, fed, buf, state, returned, result>>
  BY Zenon DEF PushFrame, Idle, ChunkInv, Errors
<1>2. OnceOutput = returned \o output /\ OnceReturned = <<>> /\ OnceResult = "Parsing" /\ ~Once!Idle
  BY <1>1, Underway, Zenon
<1>3. OnceOutput' = returned \o output' /\ OnceReturned' = <<>> /\ OnceResult' = "Parsing"
  BY <1>1, Zenon DEF OnceOutput, OnceReturned, OnceResult, Over, Exhausted
<1>4. OnceBuf' = OnceBuf
  BY <1>1, Zenon DEF OnceBuf, Unread
<1>5. \/ stack = <<>> /\ output' = Append(output, frame[1]) /\ frame' = None /\ UNCHANGED stack
      \/ /\ stack # <<>> /\ ~Full(top) /\ stack' = Append(Outer, top) /\ frame' = None
         /\ UNCHANGED output
      \/ /\ stack # <<>> /\ Full(top) /\ stack' = Outer /\ frame' = Some(Array(top.items))
         /\ UNCHANGED output
  BY Zenon DEF PushFrame
<1>6. /\ IsSeq(Append(output, frame[1]))
      /\ Append(returned \o output, frame[1]) = returned \o Append(output, frame[1])
  <2>1. IsSeq(output) /\ IsSeq(returned)
    BY Zenon DEF ChunkInv
  <2>2. IsSeq(Append(output, frame[1]))
    BY ONLY <2>1, Concatenated, Zenon
  <2>3. Append(returned \o output, frame[1]) = returned \o Append(output, frame[1])
    BY ONLY <2>1, Concatenated
  <2> QED
    BY <2>2, <2>3, Zenon
<1>7. Buffered' /\ Errors' /\ IsSeq(output')
  BY <1>1, <1>5, <1>6, Zenon DEF ChunkInv, Buffered, Errors
<1>8. ChunkInv'
  BY <1>1, <1>7, Zenon DEF ChunkInv
<1>9. /\ Once!Innermost = Innermost /\ Once!Outer = Outer /\ Once!None = None
      /\ \A a : Once!Full(a) = Full(a) /\ Once!Array(a) = Array(a) /\ Once!Some(a) = Some(a)
  BY Zenon DEF Once!None, None, Once!Some, Some, Once!Innermost, Innermost, Once!Outer, Outer, Once!Full, Full, Once!Array, Array
<1>10. \/ /\ stack = <<>> /\ OnceOutput' = Append(OnceOutput, frame[1]) /\ frame' = None
          /\ UNCHANGED stack
       \/ /\ stack # <<>> /\ ~Full(top) /\ stack' = Append(Outer, top) /\ frame' = None
          /\ UNCHANGED OnceOutput
       \/ /\ stack # <<>> /\ Full(top) /\ stack' = Outer /\ frame' = Some(Array(top.items))
          /\ UNCHANGED OnceOutput
  <2> HIDE DEF top
  <2> QED
    BY <1>2, <1>3, <1>5, <1>6, Zenon
<1>11. Once!PushFrame
  BY <1>1, <1>2, <1>3, <1>4, <1>9, <1>10, Zenon DEF Once!PushFrame
<1> QED
  BY <1>8, <1>11, Zenon

(* A call that wants more bytes: nothing, for the one call, but when all   *)
(* the bytes are there, and then it wants more as well.                    *)
LEMMA SameStarved ==
    ASSUME ChunkInv, Starved PROVE ChunkInv' /\ (Once!Starved \/ UNCHANGED Once!vars)
<1>1. PICK name : Turn(name) /\ name # "Error"
  BY DEF Starved, LineStates
<1>2. /\ ~Idle /\ frame = None /\ state.name = name /\ result = "Parsing" /\ result' = "Complete"
      /\ returned' = returned \o output /\ UNCHANGED <<input, fed, buf, state, stack, frame, output>>
  BY <1>1, Zenon DEF Turn, Idle, Starved, Returns
<1>3. OnceOutput = returned \o output /\ OnceReturned = <<>> /\ OnceResult = "Parsing" /\ ~Once!Idle
  BY <1>1, <1>2, Underway, Zenon
<1>4. OnceBuf' = OnceBuf /\ OnceOutput' = returned \o output
  BY <1>2, Zenon DEF OnceBuf, Unread, OnceOutput
<1>5. IsSeq(returned \o output) /\ <<>> \o (returned \o output) = returned \o output
  BY Concatenated, Zenon DEF ChunkInv
<1>6. Buffered' /\ Errors'
  BY <1>1, <1>2, Zenon DEF ChunkInv, Buffered, Errors, ParseErrors
<1>7. ChunkInv'
  BY <1>2, <1>5, <1>6, Zenon DEF ChunkInv
<1>8. CASE ~(fed > 0 /\ fed = Len(input))
  <2>1. OnceReturned' = <<>> /\ OnceResult' = "Parsing"
    BY <1>1, <1>2, <1>8, Zenon DEF OnceReturned, OnceResult, Over, Exhausted
  <2> QED
    BY <1>2, <1>3, <1>4, <1>7, <2>1, Zenon DEF Once!vars
<1>9. CASE fed > 0 /\ fed = Len(input)
  <2>1. OnceReturned' = returned \o output /\ OnceResult' = "Complete"
    BY <1>1, <1>2, <1>9, Zenon DEF OnceReturned, OnceResult, Over, Exhausted
  <2>2. OnceBuf = buf
    <3>1. input \in Seq(Byte) /\ buf \in Seq(Byte) /\ Len(input) \in Nat
      BY LenProperties, Zenon DEF ChunkInv, Buffered
    <3>2. Unread = <<>>
      BY <1>9, <3>1, SubSeqEmpty DEF Unread
    <3> QED
      BY <3>1, <3>2, ConcatEmptySeq, Zenon DEF OnceBuf
  <2>3. Once!HasLine = HasLine /\ Once!HasLF = HasLF /\ Once!NeedsBulk = NeedsBulk
    BY <2>2, Zenon DEF Once!HasLine, HasLine, Once!LineEnds, LineEnds, Once!HasLF, HasLF, Once!LFs, LFs,
                Once!CRLF, CRLF, Once!CR, CR, Once!LF, LF, Once!NeedsBulk, NeedsBulk
  <2>4. \A s : Turn(s) => Once!Turn(s)
    BY <1>3, Zenon DEF Turn, Once!Turn, Once!None, None
  <2>5. Once!LineStates = LineStates
    BY Zenon DEF Once!LineStates, LineStates
  <2>6. \/ Once!Turn("Start") /\ OnceBuf = <<>>
        \/ \E s \in Once!LineStates : Once!Turn(s) /\ ~Once!HasLine
        \/ Once!Turn("ReadingInline") /\ ~Once!HasLF
        \/ Once!Turn("ReadingBulkString") /\ Once!NeedsBulk
    BY <2>2, <2>3, <2>4, <2>5, Zenon DEF Starved
  <2>7. Once!Returns("Complete")
    BY <1>2, <1>3, <1>4, <1>5, <2>1, Zenon DEF Once!Returns
  <2> QED
    BY <1>2, <1>4, <1>7, <2>6, <2>7, Zenon DEF Once!Starved
<1> QED
  BY <1>8, <1>9, Zenon

(* The error of an earlier call, again: nothing, for the one call. *)
LEMMA SameFailure == ASSUME ChunkInv, FailsAgain PROVE ChunkInv' /\ UNCHANGED Once!vars
<1>1. /\ state.name = "Error" /\ state = State("Error", state.arg) /\ state.arg \in ParseErrors
      /\ frame = None /\ result = "Parsing" /\ output = <<>>
  BY Zenon DEF FailsAgain, Turn, Idle, ChunkInv, Errors
<1>2. /\ state' = state /\ result' = state.arg /\ returned' = returned \o output
      /\ UNCHANGED <<input, fed, buf, stack, frame, output>>
  BY <1>1, Zenon DEF FailsAgain, Fails, Returns
<1>3. returned \o output = returned
  <2>1. PICK S : returned \in Seq(S)
    BY Zenon DEF ChunkInv, IsSeq
  <2> QED
    BY <1>1, <2>1, ConcatEmptySeq, Zenon
<1>4. state.arg \notin {"Parsing", "Complete", "Panicked"}
  BY <1>1, Zenon DEF ParseErrors
<1>5. UNCHANGED <<OnceBuf, OnceOutput, OnceReturned, OnceResult>>
  BY <1>1, <1>2, <1>3, <1>4, Zenon DEF OnceBuf, Unread, OnceOutput, OnceReturned, OnceResult, Over, Exhausted
<1>6. Buffered' /\ Errors'
  BY <1>1, <1>2, Zenon DEF ChunkInv, Buffered, Errors
<1> QED
  BY <1>1, <1>2, <1>3, <1>5, <1>6, Zenon DEF ChunkInv, Once!vars

(* A chunk arrives: for the one call, its bytes were there already. *)
LEMMA SameChunk ==
    ASSUME ChunkInv, NEW n \in 1 .. Len(input) - fed, Parse(n)
    PROVE  ChunkInv' /\ UNCHANGED Once!vars
<1> DEFINE chunk == SubSeq(input, fed + 1, fed + n)
           later == SubSeq(input, (fed + n) + 1, Len(input))
<1>1. /\ buf' = buf \o chunk /\ fed' = fed + n /\ output' = <<>> /\ result' = "Parsing"
      /\ result # "Parsing" /\ result # "Panicked"
      /\ UNCHANGED <<input, state, stack, frame, returned>>
  BY Zenon DEF Parse, Idle, Extended
<1>2. /\ input \in Seq(Byte) /\ buf \in Seq(Byte) /\ fed \in Nat /\ n \in Nat /\ Len(input) \in Nat
      /\ fed + n <= Len(input) /\ fed # Len(input)
  BY LenProperties DEF ChunkInv, Buffered
<1>3. chunk \in Seq(Byte) /\ later \in Seq(Byte) /\ chunk \o later = Unread
  <2>1. chunk \o later = Unread
    <3> DEFINE m == fed + 1
               k == fed + n
    <3>1. m \in 1 .. Len(input) + 1 /\ k \in m - 1 .. Len(input) /\ Len(input) \in k .. Len(input)
      BY <1>2
    <3> HIDE DEF m, k
    <3>2. SubSeq(input, m, k) \o SubSeq(input, k + 1, Len(input)) = SubSeq(input, m, Len(input))
      BY <1>2, <3>1, ConcatAdjacentSubSeq, Zenon
    <3> QED
      BY <3>2, Zenon DEF m, k, Unread
  <2>2. later \in Seq(Byte)
    <3> DEFINE k == fed + n
    <3>1. k \in 0 .. Len(input)
      BY <1>2
    <3> HIDE DEF k
    <3>2. SubSeq(input, k + 1, Len(input)) \in Seq(Byte)
      BY <1>2, <3>1, Cut, Zenon
    <3> QED
      BY <3>2, Zenon DEF k
  <2>3. chunk \in Seq(Byte)
    <3> DEFINE m == fed + 1
               k == fed + n
    <3>1. m \in Int /\ k \in Int /\ \A i \in m .. k : i \in 1 .. Len(input)
      BY <1>2
    <3>2. \A i \in m .. k : input[i] \in Byte
      BY <1>2, <3>1, ElementOfSeq, Zenon
    <3> HIDE DEF m, k
    <3>3. SubSeq(input, m, k) \in Seq(Byte)
      BY ONLY <3>1, <3>2, SubSeqProperties, Zenon
    <3> QED
      BY <3>3, Zenon DEF m, k
  <2> QED
    BY <2>1, <2>2, <2>3, Zenon
<1>4. OnceBuf' = (buf \o chunk) \o later
  BY <1>1, Zenon DEF OnceBuf, Unread
<1> HIDE DEF chunk, later
<1>5. OnceBuf' = OnceBuf
  <2>1. (buf \o chunk) \o later = buf \o (chunk \o later)
    <3>1. PICK s, t, u : s = buf /\ t = chunk /\ u = later
      BY Zenon
    <3>2. s \in Seq(Byte) /\ t \in Seq(Byte) /\ u \in Seq(Byte)
      BY <1>2, <1>3, <3>1, Zenon
    <3>3. (s \o t) \o u = s \o (t \o u)
      BY ONLY <3>2, SMTT(30)
    <3> QED
      BY <3>1, <3>3, Zenon
  <2> QED
    BY <1>3, <1>4, <2>1, Zenon DEF OnceBuf
<1>6. returned \o <<>> = returned
  <2>1. PICK S : returned \in Seq(S)
    BY Zenon DEF ChunkInv, IsSeq
  <2> QED
    BY <2>1, ConcatEmptySeq, Zenon
<1>7. OnceOutput' = returned /\ OnceOutput = returned
  BY <1>1, <1>6, Zenon DEF OnceOutput
<1>8. OnceReturned' = OnceReturned /\ OnceResult' = OnceResult
  BY <1>1, <1>2, Zenon DEF ChunkInv, Errors, OnceReturned, OnceResult, Over, Exhausted
<1>9. Buffered'
  <2>1. fed' \in 0 .. Len(input')
    BY <1>1, <1>2
  <2>2. buf' \in Seq(Byte)
    BY <1>1, <1>2, <1>3, ConcatProperties, Zenon
  <2> QED
    BY <1>1, <1>2, <2>1, <2>2, Zenon DEF Buffered
<1>10. Errors'
  BY <1>1, Zenon DEF ChunkInv, Errors, ParseErrors
<1>11. IsSeq(<<>>)
  BY DEF IsSeq
<1>12. ChunkInv'
  BY <1>1, <1>9, <1>10, <1>11, Zenon DEF ChunkInv
<1> QED
  BY <1>1, <1>5, <1>7, <1>8, <1>12, Zenon DEF Once!vars

-----------------------------------------------------------------------------
(* The refinement *)

(* Before the first chunk the one call has just been made. *)
LEMMA SameInit == Init => ChunkInv /\ Once!OneCallInit
<1> SUFFICES ASSUME Init PROVE ChunkInv /\ Once!OneCallInit
  OBVIOUS
<1>1. input \in Seq(Byte) /\ Len(input) \in Nat /\ <<>> \in Seq(Byte)
  BY InputAssumption, LenProperties DEF Init
<1>2. OnceBuf = input
  <2>1. Unread = SubSeq(input, 1, Len(input))
    BY DEF Init, Unread
  <2>2. SubSeq(input, 1, Len(input)) = input
    BY <1>1, SubSeqFull, Zenon
  <2> QED
    BY <1>1, <2>1, <2>2, ConcatEmptySeq, Zenon DEF Init, OnceBuf
<1>3. state.name = "Start" /\ Once!Start = Start
  BY Zenon DEF Init, Start, State, Once!Start, Once!State
<1>4. OnceOutput = <<>> /\ OnceReturned = <<>> /\ OnceResult = "Parsing"
  BY <1>3 DEF Init, OnceOutput, OnceReturned, OnceResult, Over, Exhausted
<1>5. Buffered /\ Errors /\ IsSeq(<<>>)
  BY <1>1, <1>3 DEF Init, Buffered, Errors, IsSeq, ParseErrors
<1> QED
  BY <1>2, <1>3, <1>4, <1>5, Zenon DEF Init, ChunkInv, Once!OneCallInit, Once!None, None

(* Every step is a step of the one call, or none. *)
LEMMA SameNext ==
    ASSUME ChunkInv, [Next]_vars PROVE ChunkInv' /\ [Once!Step]_Once!vars
<1>1. CASE PushFrame
  BY <1>1, SamePush, Zenon DEF Once!Step
<1>2. CASE ReadStart
  BY <1>2, SameStart, Zenon DEF Once!Step
<1>3. CASE Starved
  BY <1>3, SameStarved, Zenon DEF Once!Step
<1>4. CASE ReadText("ReadingSimpleString", SimpleString(Line))
  <2>1. Once!ReadText("ReadingSimpleString", SimpleString(Line)) /\ ChunkInv'
    BY <1>4, SameText, Zenon DEF LineStates
  <2>2. Once!SimpleString(Once!Line) = SimpleString(Line)
    BY <1>4, SameLine, Zenon DEF ReadText, ChunkInv, Once!SimpleString, SimpleString
  <2> QED
    BY <2>1, <2>2, Zenon DEF Once!Step
<1>5. CASE ReadText("ReadingSimpleError", SimpleError(Line))
  <2>1. Once!ReadText("ReadingSimpleError", SimpleError(Line)) /\ ChunkInv'
    BY <1>5, SameText, Zenon DEF LineStates
  <2>2. Once!SimpleError(Once!Line) = SimpleError(Line)
    BY <1>5, SameLine, Zenon DEF ReadText, ChunkInv, Once!SimpleError, SimpleError
  <2> QED
    BY <2>1, <2>2, Zenon DEF Once!Step
<1>6. CASE ReadInline
  BY <1>6, SameInline, Zenon DEF Once!Step
<1>7. CASE NotLength
  BY <1>7, SameNotLength, Zenon DEF Once!Step
<1>8. CASE ReadInteger
  BY <1>8, SameInteger, Zenon DEF Once!Step
<1>9. CASE ReadBulkLength
  BY <1>9, SameBulkLength, Zenon DEF Once!Step
<1>10. CASE ReadBulkString
  BY <1>10, SameBulkString, Zenon DEF Once!Step
<1>11. CASE ReadArrayLength
  BY <1>11, SameArrayLength, Zenon DEF Once!Step
<1>12. CASE FailsAgain
  BY <1>12, SameFailure, Zenon
<1>13. CASE \E n \in 1 .. Len(input) - fed : Parse(n)
  BY <1>13, SameChunk, Zenon
<1>14. CASE UNCHANGED vars
  <2>1. UNCHANGED <<OnceBuf, OnceOutput, OnceReturned, OnceResult>>
    BY <1>14, Zenon DEF vars, OnceBuf, Unread, OnceOutput, OnceReturned, OnceResult, Over, Exhausted
  <2>2. ChunkInv'
    BY <1>14, Zenon DEF vars, ChunkInv, Buffered, Errors
  <2> QED
    BY <1>14, <2>1, <2>2, Zenon DEF vars, Once!vars
<1> QED
  BY <1>1, <1>2, <1>3, <1>4, <1>5, <1>6, <1>7, <1>8, <1>9, <1>10, <1>11, <1>12, <1>13, <1>14, Zenon
  DEF Next, Step

(* ImplementsOneCall: whatever a client sends, of whatever length, and     *)
(* however the network cuts it into chunks, the parser takes the steps of  *)
(* one call of parse() that is given everything.                           *)
THEOREM ChunksDoNotMatter == Spec => ImplementsOneCall
<1>1. Init => ChunkInv /\ Once!OneCallInit
  BY SameInit, Zenon
<1>2. ChunkInv /\ [Next]_vars => ChunkInv' /\ [Once!Step]_Once!vars
  BY SameNext, Zenon
<1> QED
  BY <1>1, <1>2, PTL DEF Spec, ImplementsOneCall, Once!OneCallSpec
=============================================================================
