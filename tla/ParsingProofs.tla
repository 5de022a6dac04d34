--------------------------- MODULE ParsingProofs -----------------------------
(***************************************************************************)
(* ParsesAsWhole and RoundTrip, for every input, every way of cutting it   *)
(* into chunks, every set of frames, however deep, and every width of the  *)
(* integers.                                                               *)
(*                                                                         *)
(* The invariant, WInv, says that whatever bytes were to come next, the    *)
(* reference decoder, asked for all the bytes, comes to the place where    *)
(* parse() stands: for each array on the stack there is a level of the     *)
(* descent, holding the frames parsed at that level, and on the innermost  *)
(* the decoder goes on as the parser's state says.  Quantifying over what  *)
(* is to come makes a chunk that arrives a step that changes nothing.      *)
(*                                                                         *)
(* Each turn of the parser is one step of the decoder, or none: a turn     *)
(* looks at the first line of the buffer, or at as many bytes as the state *)
(* asks for, and neither changes when bytes are added behind.              *)
(***************************************************************************)
EXTENDS WireProofs

-----------------------------------------------------------------------------
(* The parser's buffer, and bytes to come *)

(* The ends of lines are marks. *)
LEMMA LineMarks ==
    ASSUME Buffered
    PROVE  LineEnds = Marks(buf, CRLF) /\ LFs = Marks(buf, <<LF>>)
<1> DEFINE l == Len(buf)
<1>1. buf \in Seq(Byte) /\ l \in Nat
  BY LenProperties, Zenon DEF Buffered
<1>2. ASSUME NEW i \in Nat \ {0}, i <= l PROVE SubSeq(buf, i, i) = <<LF>> <=> buf[i] = LF
  <2>1. i \in 1 .. Len(buf) /\ i \in i .. Len(buf)
    BY <1>1, <1>2
  <2>2. SubSeq(buf, i, i) = <<buf[i]>>
    <3>1. \A j \in i .. i : buf[j] \in Byte
      BY <1>1, <2>1, ElementOfSeq
    <3>2. /\ SubSeq(buf, i, i) \in Seq(Byte)
          /\ Len(SubSeq(buf, i, i)) = 1
          /\ SubSeq(buf, i, i)[1] = buf[i]
      BY <3>1, SubSeqProperties
    <3> DEFINE s == SubSeq(buf, i, i)
               t == <<buf[i]>>
    <3>3. t \in Seq(Byte) /\ Len(t) = 1 /\ t[1] = buf[i]
      BY <1>1, <2>1, ElementOfSeq
    <3>4. s \in Seq(Byte) /\ Len(s) = 1 /\ s[1] = t[1]
      BY <3>2, <3>3, Zenon
    <3> HIDE DEF s, t
    <3>5. \A j \in 1 .. Len(s) : s[j] = t[j]
      BY <3>4
    <3>6. s = t
      BY <3>3, <3>4, <3>5, SeqEqual, Zenon
    <3> QED
      BY <3>6, Zenon DEF s, t
  <2>3. <<buf[i]>> = <<LF>> <=> buf[i] = LF
    OBVIOUS
  <2> QED
    BY <2>2, <2>3, Zenon
<1> HIDE DEF l
<1>3. l - 2 + 1 = l - 1 /\ l - 1 + 1 = l /\ \A i \in Nat : i + 2 - 1 = i + 1 /\ i + 1 - 1 = i
  BY <1>1
<1>4. \A i \in 1 .. l - 1 : i + 2 - 1 = i + 1
  BY <1>1
<1>5. LineEnds = Marks(buf, CRLF)
  <2>1. Marks(buf, CRLF) = {i \in 1 .. l - 2 + 1 : SubSeq(buf, i, i + 2 - 1) = CRLF}
    BY MarkTypes, Zenon DEF Marks, l
  <2>2. Marks(buf, CRLF) = {i \in 1 .. l - 1 : SubSeq(buf, i, i + 2 - 1) = CRLF}
    BY <1>3, <2>1, Zenon
  <2>3. \A i \in 1 .. l - 1 : SubSeq(buf, i, i + 2 - 1) = SubSeq(buf, i, i + 1)
    BY <1>4, Zenon
  <2>4. LineEnds = {i \in 1 .. l - 1 : SubSeq(buf, i, i + 1) = CRLF}
    BY Zenon DEF LineEnds, l
  <2> QED
    BY <2>2, <2>3, <2>4, Zenon
<1>6. LFs = Marks(buf, <<LF>>)
  <2>1. Marks(buf, <<LF>>) = {i \in 1 .. l - 1 + 1 : SubSeq(buf, i, i + 1 - 1) = <<LF>>}
    BY MarkTypes, Zenon DEF Marks, l
  <2>2. \A i \in 1 .. l : i + 1 - 1 = i /\ i \in Nat \ {0} /\ i <= l
    BY <1>1
  <2>3. Marks(buf, <<LF>>) = {i \in 1 .. l : SubSeq(buf, i, i + 1 - 1) = <<LF>>}
    BY <1>3, <2>1, Zenon
  <2>4. \A i \in 1 .. l : SubSeq(buf, i, i + 1 - 1) = <<LF>> <=> buf[i] = LF
    <3> SUFFICES ASSUME NEW i \in 1 .. l PROVE SubSeq(buf, i, i + 1 - 1) = <<LF>> <=> buf[i] = LF
      OBVIOUS
    <3>1. i + 1 - 1 = i /\ (SubSeq(buf, i, i) = <<LF>> <=> buf[i] = LF)
      BY <1>2, <2>2, Zenon
    <3> QED
      BY <3>1, Zenon
  <2>5. LFs = {i \in 1 .. l : buf[i] = LF}
    BY Zenon DEF LFs, l
  <2> QED
    BY <2>3, <2>4, <2>5, Zenon
<1> QED
  BY <1>5, <1>6, Zenon

(* A line that is complete, and what follows it. *)
LEMMA LineStays ==
    ASSUME Buffered, NEW more \in Seq(Byte)
    PROVE  /\ HasLine => /\ Marks(buf \o more, CRLF) # {}
                         /\ UpTo(buf \o more, CRLF) = Line
                         /\ After(buf \o more, CRLF) = Dropped(Len(Line) + 2) \o more
                         /\ Dropped(Len(Line) + 2) \in Seq(Byte)
           /\ HasLF => /\ Marks(buf \o more, <<LF>>) # {}
                       /\ UpTo(buf \o more, <<LF>>) = LFLine
                       /\ After(buf \o more, <<LF>>) = Dropped(Len(LFLine) + 1) \o more
                       /\ Dropped(Len(LFLine) + 1) \in Seq(Byte)
<1>1. buf \in Seq(Byte)
  BY Zenon DEF Buffered
<1>2. ASSUME HasLine
      PROVE  /\ Marks(buf \o more, CRLF) # {}
             /\ UpTo(buf \o more, CRLF) = Line
             /\ After(buf \o more, CRLF) = Dropped(Len(Line) + 2) \o more
             /\ Dropped(Len(Line) + 2) \in Seq(Byte)
  <2>1. Marks(buf, CRLF) # {} /\ Line = UpTo(buf, CRLF)
    BY <1>2, LineMarks, Zenon DEF HasLine, Line, UpTo, First
  <2>2. /\ After(buf, CRLF) \in Seq(Byte)
        /\ After(buf, CRLF) = SubSeq(buf, Len(UpTo(buf, CRLF)) + Len(CRLF) + 1, Len(buf))
    BY <1>1, <2>1, MarkTypes, FirstMark, Zenon
  <2>3. After(buf, CRLF) = Dropped(Len(Line) + 2)
    BY <2>1, <2>2, MarkTypes, Zenon DEF Dropped
  <2>4. /\ Marks(buf \o more, CRLF) # {} /\ UpTo(buf \o more, CRLF) = UpTo(buf, CRLF)
        /\ After(buf \o more, CRLF) = After(buf, CRLF) \o more
    BY <1>1, <2>1, MarkTypes, MarkStays, Zenon
  <2> QED
    BY <2>1, <2>2, <2>3, <2>4, Zenon
<1>3. ASSUME HasLF
      PROVE  /\ Marks(buf \o more, <<LF>>) # {}
             /\ UpTo(buf \o more, <<LF>>) = LFLine
             /\ After(buf \o more, <<LF>>) = Dropped(Len(LFLine) + 1) \o more
             /\ Dropped(Len(LFLine) + 1) \in Seq(Byte)
  <2> DEFINE mark == <<LF>>
  <2>0. mark \in Seq(Byte) /\ mark # <<>> /\ Len(mark) = 1
    BY MarkTypes, Zenon
  <2>1. Marks(buf, mark) # {} /\ LFLine = UpTo(buf, mark)
    BY <1>3, LineMarks, Zenon DEF HasLF, LFLine, UpTo, First
  <2> HIDE DEF mark
  <2>2. /\ After(buf, mark) \in Seq(Byte)
        /\ After(buf, mark) = SubSeq(buf, Len(UpTo(buf, mark)) + Len(mark) + 1, Len(buf))
    BY <1>1, <2>0, <2>1, FirstMark, Zenon
  <2>3. After(buf, mark) = Dropped(Len(LFLine) + 1)
    BY <2>0, <2>1, <2>2, Zenon DEF Dropped
  <2>4. /\ Marks(buf \o more, mark) # {} /\ UpTo(buf \o more, mark) = UpTo(buf, mark)
        /\ After(buf \o more, mark) = After(buf, mark) \o more
    BY <1>1, <2>0, <2>1, MarkStays, Zenon
  <2> QED
    BY <2>1, <2>2, <2>3, <2>4, Zenon DEF mark
<1> QED
  BY <1>2, <1>3, Zenon

-----------------------------------------------------------------------------
(* The invariant *)

(* What a state of the parser makes of the bytes that come next. *)
Continued(st, bytes) ==
    CASE st.name = "Start" -> DecodeFirst(bytes)
      [] st.name = "ReadingInline" -> DecodeInline(bytes)
      [] st.name = "ReadingSimpleString" -> DecodeText("+", bytes)
      [] st.name = "ReadingSimpleError" -> DecodeText("-", bytes)
      [] st.name = "ReadingBulkLength" -> DecodeLength("$", bytes)
      [] st.name = "ReadingInteger" -> DecodeLength(":", bytes)
      [] st.name = "ReadingArrayLength" -> DecodeLength("*", bytes)
      [] st.name = "ReadingBulkString" -> DecodeBulk(st.arg, bytes)
      [] st.name = "Error" -> NotRead(st.arg)

(* The frame that is being read, if `more` are the bytes to come. *)
Pending(more) ==
    IF result = "Panicked" THEN NotRead("Panicked")
    ELSE IF frame # None THEN Read(frame, buf \o more)
    ELSE Continued(state, buf \o more)

(* The frames parsed so far. *)
Parsed == IF result \in {"Parsing", "Panicked"} THEN returned \o output ELSE returned

(* The frames of each open array, how many are still to come, and those    *)
(* outside of every array, at level 0.                                     *)
Items(k) == IF k = 0 THEN Parsed ELSE stack[k].items
Count(k) == IF k = 0 THEN -1 - Len(Parsed) ELSE stack[k].capacity - Len(stack[k].items)

(* What the decoder reads at each level from where the parser is: the      *)
(* items, then the frame that is being read, which at the levels outside   *)
(* the innermost is the array of the next level, then the rest.            *)
Chain(levels, first) ==
    /\ levels[Len(stack)] =
          Behind(Items(Len(stack)), ReadFrom(Reader, Count(Len(stack)), first))
    /\ \A k \in 0 .. Len(stack) - 1 :
          levels[k] = Behind(Items(k), ReadOn(Reader, Count(k), AsArray(levels[k + 1])))

(* Whatever comes next, decoding it from here is decoding all the bytes.   *)
DecodesOn ==
    \A more \in Seq(Byte) : \E levels :
        Chain(levels, Pending(more)) /\ levels[0] = Decode(SubSeq(input, 1, fed) \o more)

FrameReady == frame # None => frame = Some(frame[1]) /\ state.name = "Start" /\ result = "Parsing"

WantsMore == result = "Complete" => Pending(<<>>) = NotRead("Complete")

WInv == PInv /\ ChunkInv /\ FrameReady /\ WantsMore /\ DecodesOn

-----------------------------------------------------------------------------
(* What a turn of the parser does to the frame that is being read *)

(* The state machine moves on, *)
LEMMA GoesOn ==
    ASSUME NEW name, Turn(name), NEW next, Goes(next), NEW more
    PROVE  /\ Pending(more) = Continued(state, buf \o more)
           /\ Pending(more)' = Continued(next, buf' \o more)
           /\ UNCHANGED <<input, fed, stack, Parsed>> /\ result' = "Parsing" /\ frame' = None
<1>1. /\ result = "Parsing" /\ frame = None /\ state' = next
      /\ UNCHANGED <<input, fed, stack, frame, output, returned, result>>
  BY Zenon DEF Turn, Goes, Idle
<1> QED
  BY <1>1, Zenon DEF Pending, Parsed

(* a frame is complete, *)
LEMMA CompletesIt ==
    ASSUME NEW name, Turn(name), NEW f, Completes(f), NEW more
    PROVE  /\ Pending(more) = Continued(state, buf \o more)
           /\ Pending(more)' = Read(<<f>>, buf' \o more)
           /\ UNCHANGED <<input, fed, stack, Parsed>> /\ result' = "Parsing" /\ FrameReady'
<1>1. /\ result = "Parsing" /\ frame = None /\ frame' = <<f>> /\ state' = Start
      /\ UNCHANGED <<input, fed, stack, output, returned, result>>
  BY Zenon DEF Turn, Completes, Idle, Some
<1>2. <<f>> # None /\ <<f>>[1] = f /\ Start.name = "Start"
  BY Zenon DEF None, Start, State
<1> QED
  BY <1>1, <1>2, Zenon DEF Pending, Parsed, FrameReady, Some

(* or an error is met. *)
LEMMA FailsAt ==
    ASSUME NEW name, Turn(name), NEW error \in ParseErrors, Fails(error), NEW more
    PROVE  /\ Pending(more) = Continued(state, buf \o more)
           /\ Pending(more)' = NotRead(error)
           /\ UNCHANGED <<input, fed, stack, Parsed>> /\ result' = error /\ frame' = None
<1>1. /\ result = "Parsing" /\ frame = None /\ result' = error /\ returned' = returned \o output
      /\ state' = State("Error", error) /\ UNCHANGED <<input, fed, stack, frame, output>>
  BY Zenon DEF Turn, Fails, Returns, Idle
<1>2. error \notin {"Parsing", "Complete", "Panicked"}
  BY Zenon DEF ParseErrors
<1>3. State("Error", error).name = "Error" /\ State("Error", error).arg = error
  BY Zenon DEF State
<1>4. Continued(State("Error", error), buf' \o more) = NotRead(error)
  BY <1>3, Zenon DEF Continued
<1> QED
  BY <1>1, <1>2, <1>4, Zenon DEF Pending, Parsed

(* A turn that leaves the arrays alone, and reads what the decoder would.  *)
Kept == /\ UNCHANGED <<input, fed, stack, Parsed>>
        /\ \A more \in Seq(Byte) : \A count \in Int \ {0} :
              ReadFrom(Reader, count, Pending(more)') = ReadFrom(Reader, count, Pending(more))
        /\ FrameReady' /\ WantsMore'

(* It is kept when the state machine moves on to read the same, *)
LEMMA GoesKept ==
    ASSUME NEW name, Turn(name), NEW next, Goes(next),
           \A more \in Seq(Byte) : \A count \in Int \ {0} :
              ReadFrom(Reader, count, Continued(next, buf' \o more)) =
                 ReadFrom(Reader, count, Continued(state, buf \o more))
    PROVE  Kept
<1>1. \A more : /\ Pending(more) = Continued(state, buf \o more)
                /\ Pending(more)' = Continued(next, buf' \o more)
                /\ UNCHANGED <<input, fed, stack, Parsed>> /\ result' = "Parsing" /\ frame' = None
  BY GoesOn, Zenon
<1>2. UNCHANGED <<input, fed, stack, Parsed>> /\ FrameReady' /\ WantsMore'
  BY <1>1, Zenon DEF FrameReady, WantsMore
<1> QED
  BY <1>1, <1>2, Zenon DEF Kept

(* when the frame it completes is the one that is read there, *)
LEMMA CompletesKept ==
    ASSUME NEW name, Turn(name), NEW f, Completes(f),
           \A more \in Seq(Byte) : \A count \in Int \ {0} :
              ReadFrom(Reader, count, Read(<<f>>, buf' \o more)) =
                 ReadFrom(Reader, count, Continued(state, buf \o more))
    PROVE  Kept
<1>1. \A more : /\ Pending(more) = Continued(state, buf \o more)
                /\ Pending(more)' = Read(<<f>>, buf' \o more)
                /\ UNCHANGED <<input, fed, stack, Parsed>> /\ result' = "Parsing" /\ FrameReady'
  BY CompletesIt, Zenon
<1>2. UNCHANGED <<input, fed, stack, Parsed>> /\ FrameReady' /\ WantsMore'
  BY <1>1, Zenon DEF WantsMore
<1> QED
  BY <1>1, <1>2, Zenon DEF Kept

(* and when no frame can be read there. *)
LEMMA FailsKept ==
    ASSUME NEW name, Turn(name), NEW error \in ParseErrors, Fails(error),
           \A more \in Seq(Byte) : Continued(state, buf \o more) = NotRead(error)
    PROVE  Kept
<1>1. \A more : /\ Pending(more) = Continued(state, buf \o more)
                /\ Pending(more)' = NotRead(error)
                /\ UNCHANGED <<input, fed, stack, Parsed>> /\ result' = error /\ frame' = None
  BY FailsAt, Zenon
<1>2. UNCHANGED <<input, fed, stack, Parsed>> /\ FrameReady' /\ WantsMore'
  BY <1>1, Zenon DEF FrameReady, WantsMore, ParseErrors
<1> QED
  BY <1>1, <1>2, Zenon DEF Kept

(* The first byte tells what is read. *)
LEMMA StartKept == ASSUME ChunkInv, ReadStart PROVE Kept
<1>1. buf \in Seq(Byte) /\ buf # <<>> /\ Turn("Start") /\ state.name = "Start" /\ 1 \in 0 .. Len(buf)
  BY EmptySeq DEF ReadStart, Turn, ChunkInv, Buffered
<1>2. ASSUME NEW more \in Seq(Byte)
      PROVE  /\ buf \o more # <<>> /\ Head(buf \o more) = Head(buf)
             /\ Tail(buf \o more) = Dropped(1) \o more
  <2>1. buf \o more \in Seq(Byte) /\ buf \o more # <<>>
    BY <1>1, ConcatProperties, ConcatEqualIffEmpty
  <2>2. SubSeq(buf \o more, 1 + 1, Len(buf \o more)) = SubSeq(buf, 1 + 1, Len(buf)) \o more
    BY <1>1, Ending, Zenon
  <2>3. Tail(buf \o more) = SubSeq(buf \o more, 1 + 1, Len(buf \o more))
    BY <2>1, TailIsSubSeq
  <2>4. (buf \o more)[1] = buf[1]
    BY <1>1, ConcatProperties
  <2>5. Head(buf \o more) = Head(buf)
    BY <1>1, <2>1, <2>4
  <2> QED
    BY <2>1, <2>2, <2>3, <2>5, Zenon DEF Dropped
<1>3. ASSUME NEW more \in Seq(Byte) PROVE Continued(state, buf \o more) = DecodeFirst(buf \o more)
  BY <1>1, Zenon DEF Continued
<1>4. CASE Head(buf) \in DOMAIN ReadingOf
  <2>1. PICK m : m = Head(buf)
    OBVIOUS
  <2> DEFINE next == State(ReadingOf[m], Null)
  <2>2. m \in {"+", "$", "*", "-", ":"} /\ Goes(next) /\ buf' = Dropped(1)
    BY <1>4, <2>1, Zenon DEF ReadStart, ReadingOf
  <2>3. next.name = ReadingOf[m]
    BY Zenon DEF State
  <2>4. /\ m = "+" => next.name = "ReadingSimpleString"
        /\ m = "-" => next.name = "ReadingSimpleError"
        /\ m = "$" => next.name = "ReadingBulkLength"
        /\ m = "*" => next.name = "ReadingArrayLength"
        /\ m = ":" => next.name = "ReadingInteger"
    BY <2>2, <2>3, Zenon DEF ReadingOf
  <2> HIDE DEF next
  <2>5. ASSUME NEW more \in Seq(Byte)
        PROVE  DecodeFirst(buf \o more) = Continued(next, buf' \o more)
    <3>1. DecodeFirst(buf \o more) = IF m \in {"+", "-"} THEN DecodeText(m, buf' \o more)
                                     ELSE DecodeLength(m, buf' \o more)
      BY <1>2, <2>1, <2>2, Zenon DEF DecodeFirst
    <3>2. Continued(next, buf' \o more) = IF m \in {"+", "-"} THEN DecodeText(m, buf' \o more)
                                          ELSE DecodeLength(m, buf' \o more)
      BY <2>2, <2>4, Zenon DEF Continued
    <3> QED
      BY <3>1, <3>2
  <2> QED
    BY <1>1, <1>3, <2>2, <2>5, GoesKept, Zenon
<1>5. CASE Head(buf) \notin DOMAIN ReadingOf
  <2> DEFINE next == State("ReadingInline", Null)
  <2>1. Head(buf) \notin {"+", "$", "*", "-", ":"} /\ Goes(next) /\ buf' = buf
    BY <1>5, Zenon DEF ReadStart, ReadingOf
  <2>2. next.name = "ReadingInline"
    BY Zenon DEF State
  <2> HIDE DEF next
  <2>3. ASSUME NEW more \in Seq(Byte)
        PROVE  DecodeFirst(buf \o more) = Continued(next, buf' \o more)
    <3>1. DecodeFirst(buf \o more) = DecodeInline(buf \o more)
      BY <1>2, <2>1, Zenon DEF DecodeFirst
    <3> QED
      BY <2>1, <2>2, <3>1, Zenon DEF Continued
  <2> QED
    BY <1>1, <1>3, <2>1, <2>3, GoesKept, Zenon
<1> QED
  BY <1>4, <1>5, Zenon

(* A line of text, *)
LEMMA TextKept ==
    ASSUME ChunkInv, \/ ReadText("ReadingSimpleString", SimpleString(Line))
                     \/ ReadText("ReadingSimpleError", SimpleError(Line))
    PROVE  Kept
<1>1. Buffered /\ "UnreadableUtf" \in ParseErrors
  BY Zenon DEF ChunkInv, ParseErrors
<1>2. PICK name, type, f :
         /\ ReadText(name, f) /\ f = [type |-> type, text |-> Line]
         /\ \/ name = "ReadingSimpleString" /\ type = "+"
            \/ name = "ReadingSimpleError" /\ type = "-"
  BY Zenon DEF SimpleString, SimpleError
<1>3. HasLine /\ Turn(name) /\ state.name = name
  BY <1>2, Zenon DEF ReadText, Turn
<1>4. ASSUME NEW more \in Seq(Byte)
      PROVE  Continued(state, buf \o more) =
                IF ~Utf8(Line) THEN NotRead("UnreadableUtf")
                ELSE Read(<<f>>, Dropped(Len(Line) + 2) \o more)
  <2>1. Continued(state, buf \o more) = DecodeText(type, buf \o more)
    BY <1>2, <1>3, Zenon DEF Continued
  <2>2. /\ Marks(buf \o more, CRLF) # {} /\ UpTo(buf \o more, CRLF) = Line
        /\ After(buf \o more, CRLF) = Dropped(Len(Line) + 2) \o more
    BY <1>1, <1>3, LineStays, Zenon
  <2> QED
    BY <1>2, <2>1, <2>2, Zenon DEF DecodeText
<1>5. CASE Utf8(Line) /\ buf' = Dropped(Len(Line) + 2) /\ Completes(f)
  <2>1. \A more \in Seq(Byte) : Continued(state, buf \o more) = Read(<<f>>, buf' \o more)
    BY <1>4, <1>5, Zenon
  <2> QED
    BY <1>3, <1>5, <2>1, CompletesKept, Zenon
<1>6. CASE ~Utf8(Line) /\ Fails("UnreadableUtf")
  <2>1. \A more \in Seq(Byte) : Continued(state, buf \o more) = NotRead("UnreadableUtf")
    BY <1>4, <1>6, Zenon
  <2> QED
    BY <1>1, <1>3, <1>6, <2>1, FailsKept, Zenon
<1> QED
  BY <1>2, <1>5, <1>6, Zenon DEF ReadText

(* a line of words, which may be blank, *)
LEMMA InlineKept == ASSUME ChunkInv, ReadInline PROVE Kept
<1>1. Buffered /\ "UnreadableUtf" \in ParseErrors
  BY Zenon DEF ChunkInv, ParseErrors
<1>2. PICK name : name = "ReadingInline"
  OBVIOUS
<1>3. HasLF /\ Turn(name) /\ state.name = name
  BY <1>2, Zenon DEF ReadInline, Turn
<1>4. PICK words : /\ words = Words(LFLine)
                   /\ \/ ~Utf8(LFLine) /\ Fails("UnreadableUtf")
                      \/ /\ Utf8(LFLine) /\ words = <<>> /\ Goes(Start)
                         /\ buf' = Dropped(Len(LFLine) + 1)
                      \/ /\ Utf8(LFLine) /\ words # <<>>
                         /\ buf' = Dropped(Len(LFLine) + 1)
                         /\ Completes(Array([i \in DOMAIN words |-> Bulk(words[i])]))
  BY Zenon DEF ReadInline, InlineRest
<1> DEFINE f == Array([i \in DOMAIN words |-> Bulk(words[i])])
           rest == Dropped(Len(LFLine) + 1)
<1>5. ASSUME NEW more \in Seq(Byte)
      PROVE  Continued(state, buf \o more) =
                IF ~Utf8(LFLine) THEN NotRead("UnreadableUtf")
                ELSE IF words = <<>> THEN IsBlank(rest \o more)
                ELSE Read(<<f>>, rest \o more)
  <2>1. Continued(state, buf \o more) = DecodeInline(buf \o more)
    BY <1>2, <1>3, Zenon DEF Continued
  <2>2. /\ Marks(buf \o more, <<LF>>) # {} /\ UpTo(buf \o more, <<LF>>) = LFLine
        /\ After(buf \o more, <<LF>>) = rest \o more
    BY <1>1, <1>3, LineStays, Zenon
  <2> HIDE DEF rest
  <2> QED
    BY <1>4, <2>1, <2>2, Zenon DEF DecodeInline
<1>6. CASE ~Utf8(LFLine) /\ Fails("UnreadableUtf")
  <2>1. \A more \in Seq(Byte) : Continued(state, buf \o more) = NotRead("UnreadableUtf")
    BY <1>5, <1>6, Zenon
  <2> QED
    BY <1>1, <1>3, <1>6, <2>1, FailsKept, Zenon
<1>7. CASE Utf8(LFLine) /\ words # <<>> /\ buf' = rest /\ Completes(f)
  <2> HIDE DEF f, rest
  <2>1. \A more \in Seq(Byte) : Continued(state, buf \o more) = Read(<<f>>, buf' \o more)
    BY <1>5, <1>7, Zenon
  <2> QED
    BY <1>3, <1>7, <2>1, CompletesKept, Zenon
<1>8. CASE Utf8(LFLine) /\ words = <<>> /\ buf' = rest /\ Goes(Start)
  <2>1. rest \in Seq(Byte)
    BY <1>1, <1>3, <1>8, LineStays, EmptySeq, Zenon
  <2> HIDE DEF f, rest
  <2>2. ASSUME NEW more \in Seq(Byte), NEW count \in Int \ {0}
        PROVE  ReadFrom(Reader, count, Continued(Start, buf' \o more)) =
                  ReadFrom(Reader, count, Continued(state, buf \o more))
    <3> DEFINE bytes == buf' \o more
    <3>1. bytes \in Seq(Byte)
      BY <1>8, <2>1, ConcatProperties, Zenon
    <3>2. Continued(state, buf \o more) = IsBlank(bytes)
      BY <1>5, <1>8, Zenon
    <3> HIDE DEF bytes
    <3>3. ReadFrom(Reader, count, IsBlank(bytes)) = Reader[count][bytes]
      BY Zenon DEF ReadFrom, IsBlank
    <3>4. Reader[count][bytes] = ReadFrom(Reader, count, DecodeFirst(bytes))
      BY <3>1, ReaderEquation, Zenon
    <3>5. Continued(Start, bytes) = DecodeFirst(bytes)
      BY Zenon DEF Continued, Start, State
    <3> QED
      BY <3>2, <3>3, <3>4, <3>5, Zenon DEF bytes
  <2> QED
    BY <1>3, <1>8, <2>2, GoesKept, Zenon
<1> QED
  BY <1>4, <1>6, <1>7, <1>8, Zenon

(* the bytes of a bulk string, *)
LEMMA BulkKept == ASSUME ChunkInv, ReadBulkString PROVE Kept
<1>1. /\ buf \in Seq(Byte) /\ Len(buf) \in Nat /\ "UnreadableBulkString" \in ParseErrors
  BY LenProperties, Zenon DEF ChunkInv, Buffered, ParseErrors
<1>2. PICK n, name : n = state.arg /\ name = "ReadingBulkString"
  OBVIOUS
<1>3. Turn(name) /\ state.name = name /\ n \in Nat /\ ~(Len(buf) < n + 2)
  BY <1>2, Zenon DEF ReadBulkString, Turn, NeedsBulk, ChunkInv
<1>4. PICK f : f = Bulk(SubSeq(buf, 1, n))
  OBVIOUS
<1>5. /\ n \in 0 .. Len(buf) /\ n + 2 \in 0 .. Len(buf) /\ n + 2 + 1 = n + 3
      /\ n + 1 \in 1 .. Len(buf) /\ n + 2 \in 1 .. Len(buf)
  BY <1>1, <1>3
<1>6. ASSUME NEW more \in Seq(Byte)
      PROVE  Continued(state, buf \o more) =
                IF SubSeq(buf, n + 1, n + 2) # CRLF THEN NotRead("UnreadableBulkString")
                ELSE Read(<<f>>, Dropped(n + 2) \o more)
  <2> DEFINE all == buf \o more
             m == n + 2
             l == n + 1
  <2>1. Continued(state, all) = DecodeBulk(n, all)
    BY <1>2, <1>3, Zenon DEF Continued
  <2>2. Len(all) = Len(buf) + Len(more) /\ Len(more) \in Nat
    BY <1>1, ConcatProperties, LenProperties, Zenon
  <2>3. ~(Len(all) < n + 2)
    BY <1>1, <1>3, <2>2
  <2>4. SubSeq(all, 1, n) = SubSeq(buf, 1, n)
    BY <1>1, <1>5, Beginning, Zenon
  <2>5. m \in 0 .. Len(buf) /\ m + 1 = n + 3 /\ l \in 1 .. Len(buf) /\ m \in 1 .. Len(buf)
    BY <1>5, Zenon
  <2> HIDE DEF m, l
  <2>6. SubSeq(all, m + 1, Len(all)) = SubSeq(buf, m + 1, Len(buf)) \o more
    BY <1>1, <2>5, Ending, Zenon
  <2>7. SubSeq(all, l, m) = SubSeq(buf, l, m)
    BY <1>1, <2>5, SubSeqOfConcat1, Zenon
  <2> HIDE DEF all
  <2>8. SubSeq(all, n + 3, Len(all)) = Dropped(n + 2) \o more
    BY <2>5, <2>6, Zenon DEF Dropped, m
  <2>9. SubSeq(all, n + 1, n + 2) = SubSeq(buf, n + 1, n + 2)
    BY <2>7, Zenon DEF l, m
  <2>10. Continued(state, all) =
                IF SubSeq(buf, n + 1, n + 2) # CRLF THEN NotRead("UnreadableBulkString")
                ELSE Read(<<f>>, Dropped(n + 2) \o more)
    BY <1>4, <2>1, <2>3, <2>4, <2>8, <2>9, Zenon DEF DecodeBulk
  <2> QED
    BY <2>10, Zenon DEF all
<1>7. CASE SubSeq(buf, n + 1, n + 2) = CRLF /\ buf' = Dropped(n + 2) /\ Completes(f)
  <2>1. \A more \in Seq(Byte) : Continued(state, buf \o more) = Read(<<f>>, buf' \o more)
    BY <1>6, <1>7, Zenon
  <2> QED
    BY <1>3, <1>7, <2>1, CompletesKept, Zenon
<1>8. CASE SubSeq(buf, n + 1, n + 2) # CRLF /\ Fails("UnreadableBulkString")
  <2>1. \A more \in Seq(Byte) : Continued(state, buf \o more) = NotRead("UnreadableBulkString")
    BY <1>6, <1>8, Zenon
  <2> QED
    BY <1>1, <1>3, <1>8, <2>1, FailsKept, Zenon
<1> QED
  BY <1>2, <1>4, <1>7, <1>8, Zenon DEF ReadBulkString

(* The line of a length, if it is one. *)
LEMMA LengthLine ==
    ASSUME ChunkInv, HasLine, NEW more \in Seq(Byte), NEW type
    PROVE  /\ Lengths = {} => DecodeLength(type, buf \o more) = NotRead("InvalidLength")
           /\ \A n \in Lengths :
                 /\ n \in Int
                 /\ DecodeLength(type, buf \o more) =
                       DecodeSized(type, n, Dropped(Len(Line) + 2) \o more)
<1>1. /\ Marks(buf \o more, CRLF) # {} /\ UpTo(buf \o more, CRLF) = Line
      /\ After(buf \o more, CRLF) = Dropped(Len(Line) + 2) \o more
  BY LineStays, Zenon DEF ChunkInv
<1>2. CASE ~IsI64(Line)
  <2>1. Lengths = {}
    BY <1>2, Zenon DEF Lengths
  <2> QED
    BY <1>1, <1>2, <2>1, Zenon DEF DecodeLength
<1>3. CASE IsI64(Line)
  <2>1. Lengths = {I64Of(Line)}
    BY <1>3, Zenon DEF Lengths
  <2>2. I64Of(Line) \in Int
    BY <1>3, WidthAssumption DEF IsI64
  <2>3. DecodeLength(type, buf \o more) = DecodeSized(type, I64Of(Line), Dropped(Len(Line) + 2) \o more)
    BY <1>1, <1>3, Zenon DEF DecodeLength
  <2> QED
    BY <2>1, <2>2, <2>3, Zenon
<1> QED
  BY <1>2, <1>3, Zenon

(* What the states that read one make of it. *)
LEMMA LengthRead ==
    ASSUME ChunkInv, NEW name, NEW type,
           \/ name = "ReadingBulkLength" /\ type = "$"
           \/ name = "ReadingInteger" /\ type = ":"
           \/ name = "ReadingArrayLength" /\ type = "*",
           state.name = name, HasLine
    PROVE  \A more \in Seq(Byte) :
              /\ Lengths = {} => Continued(state, buf \o more) = NotRead("InvalidLength")
              /\ \A n \in Lengths :
                    /\ n \in Int
                    /\ Continued(state, buf \o more) =
                          DecodeSized(type, n, Dropped(Len(Line) + 2) \o more)
<1> SUFFICES ASSUME NEW more \in Seq(Byte)
             PROVE  /\ Lengths = {} => Continued(state, buf \o more) = NotRead("InvalidLength")
                    /\ \A n \in Lengths :
                          /\ n \in Int
                          /\ Continued(state, buf \o more) =
                                DecodeSized(type, n, Dropped(Len(Line) + 2) \o more)
  OBVIOUS
<1>1. Continued(state, buf \o more) = DecodeLength(type, buf \o more)
  BY Zenon DEF Continued
<1> QED
  BY <1>1, LengthLine, Zenon

(* A line that is not a length, an integer, and the length of a bulk       *)
(* string,                                                                 *)
LEMMA LengthKept ==
    ASSUME ChunkInv, NotLength \/ ReadInteger \/ ReadBulkLength PROVE Kept
<1>1. "InvalidLength" \in ParseErrors
  BY Zenon DEF ParseErrors
<1>2. CASE NotLength
  <2>1. PICK name \in {"ReadingBulkLength", "ReadingInteger", "ReadingArrayLength"} :
           Turn(name) /\ HasLine /\ Lengths = {}
    BY <1>2, Zenon DEF NotLength
  <2>2. state.name = name /\ Fails("InvalidLength")
    BY <1>2, <2>1, Zenon DEF NotLength, Turn
  <2>3. PICK type : \/ name = "ReadingBulkLength" /\ type = "$"
                    \/ name = "ReadingInteger" /\ type = ":"
                    \/ name = "ReadingArrayLength" /\ type = "*"
    BY <2>1, Zenon
  <2>4. \A more \in Seq(Byte) : Continued(state, buf \o more) = NotRead("InvalidLength")
    BY <2>1, <2>2, <2>3, LengthRead, Zenon
  <2> QED
    BY <1>1, <2>1, <2>2, <2>4, FailsKept, Zenon
<1>3. CASE ReadInteger
  <2>1. PICK name : name = "ReadingInteger"
    OBVIOUS
  <2>2. Turn(name) /\ state.name = name /\ HasLine /\ buf' = Dropped(Len(Line) + 2)
    BY <1>3, <2>1, Zenon DEF ReadInteger, ReadLength, Turn
  <2>3. PICK n \in Lengths : Completes(Integer(n))
    BY <1>3, Zenon DEF ReadInteger
  <2>4. \A more \in Seq(Byte) : Continued(state, buf \o more) = DecodeSized(":", n, buf' \o more)
    BY <2>1, <2>2, <2>3, LengthRead, Zenon
  <2>5. \A bytes : DecodeSized(":", n, bytes) = Read(<<Integer(n)>>, bytes)
    BY Zenon DEF DecodeSized
  <2>6. \A more \in Seq(Byte) : Continued(state, buf \o more) = Read(<<Integer(n)>>, buf' \o more)
    BY <2>4, <2>5, Zenon
  <2> QED
    BY <2>2, <2>3, <2>6, CompletesKept, Zenon
<1>4. CASE ReadBulkLength
  <2>1. PICK name : name = "ReadingBulkLength"
    OBVIOUS
  <2>2. Turn(name) /\ state.name = name /\ HasLine /\ buf' = Dropped(Len(Line) + 2)
    BY <1>4, <2>1, Zenon DEF ReadBulkLength, ReadLength, Turn
  <2>3. PICK n \in Lengths : \/ n < -1 /\ Fails("InvalidLength")
                             \/ n = -1 /\ Completes(Bulk(Null))
                             \/ n >= 0 /\ Goes(State("ReadingBulkString", n))
    BY <1>4, Zenon DEF ReadBulkLength
  <2>4. /\ \A more \in Seq(Byte) : Continued(state, buf \o more) = DecodeSized("$", n, buf' \o more)
        /\ n \in Int
    <3>1. <<>> \in Seq(Byte)
      BY EmptySeq, Zenon
    <3> QED
      BY <2>1, <2>2, <2>3, <3>1, LengthRead, Zenon
  <2>5. CASE n < -1 /\ Fails("InvalidLength")
    <3>1. \A bytes : DecodeSized("$", n, bytes) = NotRead("InvalidLength")
      BY <2>4, <2>5 DEF DecodeSized
    <3>2. \A more \in Seq(Byte) : Continued(state, buf \o more) = NotRead("InvalidLength")
      BY <2>4, <3>1, Zenon
    <3> QED
      BY <1>1, <2>2, <2>5, <3>2, FailsKept, Zenon
  <2>6. CASE n = -1 /\ Completes(Bulk(Null))
    <3>1. \A bytes : DecodeSized("$", n, bytes) = Read(<<Bulk(Null)>>, bytes)
      BY <2>4, <2>6 DEF DecodeSized
    <3>2. \A more \in Seq(Byte) : Continued(state, buf \o more) = Read(<<Bulk(Null)>>, buf' \o more)
      BY <2>4, <3>1, Zenon
    <3> QED
      BY <2>2, <2>6, <3>2, CompletesKept, Zenon
  <2>7. CASE n >= 0 /\ Goes(State("ReadingBulkString", n))
    <3> DEFINE next == State("ReadingBulkString", n)
    <3>1. \A bytes : DecodeSized("$", n, bytes) = DecodeBulk(n, bytes)
      BY <2>4, <2>7 DEF DecodeSized
    <3>2. next.name = "ReadingBulkString" /\ next.arg = n
      BY Zenon DEF State
    <3> HIDE DEF next
    <3>3. \A bytes : Continued(next, bytes) = DecodeBulk(n, bytes)
      BY <3>2, Zenon DEF Continued
    <3>4. \A more \in Seq(Byte) : Continued(state, buf \o more) = Continued(next, buf' \o more)
      BY <2>4, <3>1, <3>3, Zenon
    <3>5. Goes(next)
      BY <2>7, Zenon DEF next
    <3> QED
      BY <2>2, <3>4, <3>5, GoesKept, Zenon
  <2> QED
    BY <2>3, <2>5, <2>6, <2>7, Zenon
<1> QED
  BY <1>2, <1>3, <1>4, Zenon

(* an array that is null or empty, or that there is no room for,           *)
LEMMA ArrayKept == ASSUME PInv, ChunkInv, ReadArrayLength, UNCHANGED stack PROVE Kept
<1>1. "InvalidLength" \in ParseErrors /\ CapacityMax \in Nat
  BY WidthAssumption DEF ParseErrors
<1>2. PICK name : name = "ReadingArrayLength"
  OBVIOUS
<1>3. /\ Turn(name) /\ state.name = name /\ HasLine /\ buf' = Dropped(Len(Line) + 2)
      /\ result = "Parsing" /\ frame = None
  BY <1>2, Zenon DEF ReadArrayLength, ReadLength, Turn, Idle
<1>4. PICK n \in Lengths :
         \/ n < -1 /\ Fails("InvalidLength")
         \/ n = -1 /\ Completes(Array(Null))
         \/ n = 0 /\ Completes(Array(<<>>))
         \/ stack' = Append(stack, [capacity |-> n, items |-> <<>>])
         \/ /\ n > CapacityMax /\ result' = "Panicked"
            /\ UNCHANGED <<input, fed, state, stack, frame, output, returned>>
  BY Zenon DEF ReadArrayLength
<1>5. /\ \A more \in Seq(Byte) : Continued(state, buf \o more) = DecodeSized("*", n, buf' \o more)
      /\ n \in Int
  <2>1. <<>> \in Seq(Byte)
    BY EmptySeq, Zenon
  <2> QED
    BY <1>2, <1>3, <1>4, <2>1, LengthRead, Zenon
<1>6. buf' \in Seq(Byte)
  BY <1>3, LineStays, EmptySeq, Zenon DEF ChunkInv
<1>7. CASE n < -1 /\ Fails("InvalidLength")
  <2>1. \A bytes : DecodeSized("*", n, bytes) = NotRead("InvalidLength")
    BY <1>1, <1>5, <1>7 DEF DecodeSized
  <2>2. \A more \in Seq(Byte) : Continued(state, buf \o more) = NotRead("InvalidLength")
    BY <1>5, <2>1, Zenon
  <2> QED
    BY <1>1, <1>3, <1>7, <2>2, FailsKept, Zenon
<1>8. CASE n = -1 /\ Completes(Array(Null))
  <2>1. \A bytes : DecodeSized("*", n, bytes) = Read(<<Array(Null)>>, bytes)
    BY <1>1, <1>5, <1>8 DEF DecodeSized
  <2>2. \A more \in Seq(Byte) : Continued(state, buf \o more) = Read(<<Array(Null)>>, buf' \o more)
    BY <1>5, <2>1, Zenon
  <2> QED
    BY <1>3, <1>8, <2>2, CompletesKept, Zenon
<1>9. CASE n = 0 /\ Completes(Array(<<>>))
  <2>1. \A bytes : DecodeSized("*", n, bytes) = IsArray(0, bytes)
    BY <1>1, <1>5, <1>9 DEF DecodeSized
  <2>2. ASSUME NEW more \in Seq(Byte), NEW count \in Int \ {0}
        PROVE  ReadFrom(Reader, count, Read(<<Array(<<>>)>>, buf' \o more)) =
                  ReadFrom(Reader, count, Continued(state, buf \o more))
    <3> DEFINE bytes == buf' \o more
               one == Read(<<Array(<<>>)>>, bytes)
    <3>1. bytes \in Seq(Byte) /\ Continued(state, buf \o more) = IsArray(0, bytes)
      BY <1>5, <1>6, <2>1, ConcatProperties, Zenon
    <3> HIDE DEF bytes
    <3>2. AsArray(Reader[0][bytes]) = one
      <4>1. Reader[0][bytes] = Read(<<>>, bytes)
        BY <3>1, ReaderEquation
      <4> QED
        BY <4>1 DEF AsArray, Read
    <3>3. ReadFrom(Reader, count, IsArray(0, bytes)) = ReadOn(Reader, count, one)
      BY <3>2, Zenon DEF ReadFrom, IsArray
    <3>4. one.how = "Read"
      BY Zenon DEF Read
    <3> HIDE DEF one
    <3>5. ReadFrom(Reader, count, one) = ReadOn(Reader, count, one)
      BY <3>4, Zenon DEF ReadFrom
    <3> QED
      BY <3>1, <3>3, <3>5, Zenon DEF one, bytes
  <2> QED
    BY <1>3, <1>9, <2>2, CompletesKept, Zenon
<1>10. CASE /\ n > CapacityMax /\ result' = "Panicked"
            /\ UNCHANGED <<input, fed, state, stack, frame, output, returned>>
  <2>1. \A bytes : DecodeSized("*", n, bytes) = NotRead("Panicked")
    BY <1>1, <1>5, <1>10 DEF DecodeSized
  <2>2. \A more \in Seq(Byte) : Continued(state, buf \o more) = NotRead("Panicked")
    BY <1>5, <2>1, Zenon
  <2>3. \A more \in Seq(Byte) : Pending(more) = NotRead("Panicked") /\ Pending(more)' = NotRead("Panicked")
    BY <1>3, <1>10, <2>2, Zenon DEF Pending
  <2>4. FrameReady' /\ WantsMore' /\ UNCHANGED <<input, fed, stack, Parsed>>
    BY <1>3, <1>10, Zenon DEF FrameReady, WantsMore, Parsed
  <2> QED
    BY <2>3, <2>4, Zenon DEF Kept
<1>11. stack' # Append(stack, [capacity |-> n, items |-> <<>>])
  <2> DEFINE a == [capacity |-> n, items |-> <<>>]
  <2>1. Len(stack) \in Nat /\ Len(Append(stack, a)) = Len(stack) + 1
    BY Appended, Zenon DEF PInv, StackOk
  <2> HIDE DEF a
  <2>2. stack # Append(stack, a)
    BY <2>1
  <2> QED
    BY <2>2, Zenon DEF a
<1> QED
  BY <1>4, <1>7, <1>8, <1>9, <1>10, <1>11, Zenon

(* an error that is returned again,                                        *)
LEMMA AgainKept == ASSUME ChunkInv, FailsAgain PROVE Kept
<1>1. PICK e, name : e = state.arg /\ name = "Error"
  OBVIOUS
<1>2. Turn(name) /\ state.name = "Error" /\ e \in ParseErrors /\ Fails(e)
  BY <1>1, Zenon DEF FailsAgain, Turn, ChunkInv, Errors
<1>3. \A more \in Seq(Byte) : Continued(state, buf \o more) = NotRead(e)
  BY <1>1, <1>2, Zenon DEF Continued
<1> QED
  BY <1>2, <1>3, FailsKept, Zenon

(* and a state that needs more bytes.                                      *)
LEMMA StarvedKept == ASSUME ChunkInv, Starved PROVE Kept
<1>1. /\ result = "Parsing" /\ frame = None /\ result' = "Complete" /\ returned' = returned \o output
      /\ UNCHANGED <<input, fed, buf, stack, frame, state, output>>
  BY Zenon DEF Starved, Turn, Returns, Idle
<1>2. UNCHANGED <<input, fed, stack, Parsed>> /\ FrameReady'
  BY <1>1, Zenon DEF Parsed, FrameReady
<1>3. \A more : Pending(more) = Continued(state, buf \o more) /\ Pending(more)' = Pending(more)
  BY <1>1, Zenon DEF Pending
<1>4. buf \in Seq(Byte) /\ <<>> \in Seq(Byte) /\ buf \o <<>> = buf /\ Buffered
  BY EmptySeq, ConcatEmptySeq, Zenon DEF ChunkInv, Buffered
<1>5. LineEnds = Marks(buf, CRLF) /\ LFs = Marks(buf, <<LF>>)
  BY <1>4, LineMarks, Zenon
<1>6. Continued(state, buf) = NotRead("Complete")
  <2>1. CASE Turn("Start") /\ buf = <<>>
    BY <2>1, Zenon DEF Turn, Continued, DecodeFirst
  <2>2. CASE \E name \in LineStates : Turn(name) /\ ~HasLine
    <3>1. state.name \in LineStates /\ Marks(buf, CRLF) = {}
      BY <1>5, <2>2, Zenon DEF HasLine, Turn
    <3>2. \A type : DecodeText(type, buf) = NotRead("Complete") /\ DecodeLength(type, buf) = NotRead("Complete")
      BY <3>1, Zenon DEF DecodeText, DecodeLength
    <3> QED
      BY <3>1, <3>2, Zenon DEF Continued, LineStates
  <2>3. CASE Turn("ReadingInline") /\ ~HasLF
    BY <1>5, <2>3, Zenon DEF HasLF, Turn, Continued, DecodeInline
  <2>4. CASE Turn("ReadingBulkString") /\ NeedsBulk
    BY <2>4, Zenon DEF NeedsBulk, Turn, Continued, DecodeBulk
  <2> QED
    BY <2>1, <2>2, <2>3, <2>4, Zenon DEF Starved
<1>7. WantsMore'
  <2>1. Pending(<<>>)' = Continued(state, buf \o <<>>)
    BY <1>3, Zenon
  <2> QED
    BY <1>4, <1>6, <2>1, Zenon DEF WantsMore
<1> QED
  BY <1>2, <1>3, <1>7, Zenon DEF Kept

-----------------------------------------------------------------------------
(* What it does to the open arrays *)

(* Every open array has frames to come, and there is no end of them        *)
(* outside.                                                                *)
LEMMA LevelTypes ==
    ASSUME PInv, ChunkInv
    PROVE  /\ Len(stack) \in Nat
           /\ \A k \in 0 .. Len(stack) : IsSeq(Items(k)) /\ Count(k) \in Int \ {0}
           /\ \A k \in 1 .. Len(stack) : /\ Items(k) = stack[k].items
                                         /\ Count(k) = stack[k].capacity - Len(stack[k].items)
           /\ Items(0) = Parsed /\ Count(0) = -1 - Len(Parsed) /\ IsSeq(Parsed) /\ Len(Parsed) \in Nat
<1>1. IsSeq(stack) /\ Len(stack) \in Nat /\ \A k \in 1 .. Len(stack) : OpenArray(stack[k])
  BY Appended, Zenon DEF PInv, StackOk
<1>2. IsSeq(Parsed)
  BY Concatenated, Zenon DEF ChunkInv, Parsed
<1>3. Len(Parsed) \in Nat
  BY <1>2, Appended, Zenon
<1>4. ASSUME NEW k \in 1 .. Len(stack)
      PROVE  /\ IsSeq(Items(k)) /\ Count(k) \in Int \ {0}
             /\ Items(k) = stack[k].items /\ Count(k) = stack[k].capacity - Len(stack[k].items)
  <2>1. /\ stack[k].capacity \in Nat /\ IsSeq(stack[k].items) /\ Len(stack[k].items) < stack[k].capacity
        /\ k # 0
    BY <1>1, <1>4 DEF OpenArray
  <2>2. Len(stack[k].items) \in Nat
    BY <2>1, Appended, Zenon
  <2> QED
    BY <2>1, <2>2 DEF Items, Count
<1>5. Items(0) = Parsed /\ Count(0) = -1 - Len(Parsed) /\ Count(0) \in Int \ {0}
  BY <1>3 DEF Items, Count
<1>6. \A k \in 0 .. Len(stack) : k = 0 \/ k \in 1 .. Len(stack)
  BY <1>1
<1> QED
  BY <1>1, <1>2, <1>3, <1>4, <1>5, <1>6, Zenon

(* A turn that leaves them alone. *)
LEMMA KeptDecodes == ASSUME PInv, ChunkInv, DecodesOn, Kept PROVE DecodesOn'
<1>1. /\ input' = input /\ fed' = fed /\ stack' = stack /\ Parsed' = Parsed
      /\ Count(Len(stack)) \in Int \ {0} /\ Len(stack) \in Nat
  BY LevelTypes DEF Kept
<1>2. \A k : Items(k)' = Items(k) /\ Count(k)' = Count(k)
  BY <1>1, Zenon DEF Items, Count
<1>3. ASSUME NEW more \in Seq(Byte)
      PROVE  \E levels : /\ Chain(levels, Pending(more))'
                         /\ levels[0] = Decode(SubSeq(input', 1, fed') \o more)
  <2>1. PICK levels : /\ Chain(levels, Pending(more))
                      /\ levels[0] = Decode(SubSeq(input, 1, fed) \o more)
    BY Zenon DEF DecodesOn
  <2>2. ReadFrom(Reader, Count(Len(stack)), Pending(more)') = ReadFrom(Reader, Count(Len(stack)), Pending(more))
    BY <1>1, Zenon DEF Kept
  <2>3. Chain(levels, Pending(more))'
    BY <1>1, <1>2, <2>1, <2>2, Zenon DEF Chain
  <2> QED
    BY <1>1, <2>1, <2>3, Zenon
<1> QED
  BY <1>3, Zenon DEF DecodesOn

(* A frame is stored: the decoder goes on behind it, *)
LEMMA StoredFrame ==
    ASSUME NEW items, IsSeq(items), NEW count \in Int \ {0, 1}, NEW f, NEW bytes \in Seq(Byte)
    PROVE  Behind(items, ReadFrom(Reader, count, Read(<<f>>, bytes))) =
              Behind(Append(items, f), ReadFrom(Reader, count - 1, DecodeFirst(bytes)))
<1> DEFINE one == Read(<<f>>, bytes)
           r == Reader[count - 1][bytes]
<1>1. one.how = "Read" /\ one.frames = <<f>> /\ one.rest = bytes
  BY Zenon DEF Read
<1>2. ReadFrom(Reader, count, one) = ReadOn(Reader, count, one)
  <2> HIDE DEF one
  <2> QED
    BY <1>1, Zenon DEF ReadFrom
<1>3. ReadOn(Reader, count, one) = Behind(<<f>>, r)
  <2> HIDE DEF one
  <2> QED
    BY <1>1, Zenon DEF ReadOn
<1>4. count - 1 \in Int /\ count - 1 # 0
  OBVIOUS
<1>5. r = ReadFrom(Reader, count - 1, DecodeFirst(bytes)) /\ Result(r, Len(bytes))
  BY <1>4, ReaderEquation, Zenon
<1> HIDE DEF one, r
<1>6. items \o (<<f>> \o r.frames) = Append(items, f) \o r.frames
  <2>1. PICK S : items \in Seq(S)
    BY Zenon DEF IsSeq
  <2>2. PICK T : r.frames \in Seq(T)
    BY <1>5, Zenon DEF Result, IsSeq
  <2> DEFINE U == (S \cup T) \cup {f}
  <2>3. items \in Seq(U) /\ r.frames \in Seq(U) /\ f \in U /\ <<f>> \in Seq(U)
    BY <2>1, <2>2
  <2> HIDE DEF U
  <2>4. Append(items, f) = items \o <<f>>
    BY <2>3, AppendIsConcat, Zenon
  <2>5. (items \o <<f>>) \o r.frames = items \o (<<f>> \o r.frames)
    <3>1. PICK s, g, h : s = items /\ g = <<f>> /\ h = r.frames
      OBVIOUS
    <3>2. s \in Seq(U) /\ g \in Seq(U) /\ h \in Seq(U)
      BY <2>3, <3>1, Zenon
    <3>3. (s \o g) \o h = s \o (g \o h)
      BY <3>2
    <3> QED
      BY <3>1, <3>3, Zenon
  <2> QED
    BY <2>4, <2>5, Zenon
<1>7. Behind(items, Behind(<<f>>, r)) = Behind(Append(items, f), r)
  BY <1>6, Zenon DEF Behind
<1> QED
  BY <1>2, <1>3, <1>5, <1>7, Zenon DEF one

(* or it was the last one. *)
LEMMA LastFrame ==
    ASSUME NEW items, IsSeq(items), NEW f, NEW bytes \in Seq(Byte)
    PROVE  Behind(items, ReadFrom(Reader, 1, Read(<<f>>, bytes))) = Read(Append(items, f), bytes)
<1> DEFINE one == Read(<<f>>, bytes)
           r == Reader[1 - 1][bytes]
<1>1. one.how = "Read" /\ one.frames = <<f>> /\ one.rest = bytes
  BY Zenon DEF Read
<1>2. ReadFrom(Reader, 1, one) = ReadOn(Reader, 1, one)
  <2> HIDE DEF one
  <2> QED
    BY <1>1, Zenon DEF ReadFrom
<1>3. ReadOn(Reader, 1, one) = Behind(<<f>>, r)
  <2> HIDE DEF one
  <2> QED
    BY <1>1, Zenon DEF ReadOn
<1>4. 1 - 1 = 0 /\ 0 \in Int
  OBVIOUS
<1>5. r = Read(<<>>, bytes)
  <2>1. Reader[0][bytes] = Read(<<>>, bytes)
    BY <1>4, ReaderEquation, Zenon
  <2> QED
    BY <1>4, <2>1, Zenon
<1> HIDE DEF one, r
<1>6. items \o (<<f>> \o <<>>) = Append(items, f)
  <2>1. PICK S : items \in Seq(S)
    BY Zenon DEF IsSeq
  <2> DEFINE U == S \cup {f}
  <2>2. items \in Seq(U) /\ f \in U /\ <<f>> \in Seq(U)
    BY <2>1
  <2> HIDE DEF U
  <2>3. Append(items, f) = items \o <<f>> /\ <<f>> \o <<>> = <<f>>
    BY <2>2, AppendIsConcat, ConcatEmptySeq, Zenon
  <2> QED
    BY <2>3, Zenon
<1>7. Behind(items, Behind(<<f>>, r)) = Read(Append(items, f), bytes)
  BY <1>5, <1>6, Zenon DEF Behind, Read
<1> QED
  BY <1>2, <1>3, <1>7, Zenon DEF one

(* The levels after a turn. *)
LEMMA NewLevels ==
    ASSUME NEW levels, NEW more, NEW e, e = Len(stack'),
           levels[e] = Behind(Items(e)', ReadFrom(Reader, Count(e)', Pending(more)')),
           \A k \in 0 .. e - 1 :
              levels[k] = Behind(Items(k)', ReadOn(Reader, Count(k)', AsArray(levels[k + 1])))
    PROVE  Chain(levels, Pending(more))'
BY Zenon DEF Chain, Items, Count

(* Storing a frame. *)
LEMMA PushDecodes ==
    ASSUME WInv, PushFrame PROVE FrameReady' /\ WantsMore' /\ DecodesOn'
<1>1. PICK f : f = frame[1]
  OBVIOUS
<1>2. /\ frame = <<f>> /\ state.name = "Start" /\ result = "Parsing" /\ frame # None
      /\ UNCHANGED <<input, fed, buf, state, returned, result>>
  BY <1>1, Zenon DEF PushFrame, WInv, FrameReady, Some
<1>3. WantsMore'
  BY <1>2, Zenon DEF WantsMore
<1>4. FrameReady'
  <2>1. frame' = None \/ \E g : frame' = <<g>>
    BY Zenon DEF PushFrame, Some
  <2>2. \A g : <<g>>[1] = g
    OBVIOUS
  <2> QED
    BY <1>2, <2>1, <2>2, Zenon DEF FrameReady, Some
<1>5. PInv /\ ChunkInv /\ buf \in Seq(Byte) /\ Parsed = returned \o output /\ Parsed' = returned \o output'
  BY <1>2, Zenon DEF WInv, ChunkInv, Buffered, Parsed
<1> DEFINE d == Len(stack)
           bytes(more) == buf \o more
<1>6. /\ d \in Nat /\ IsSeq(stack) /\ (stack # <<>> => d \in Nat \ {0})
      /\ \A k \in 0 .. d : IsSeq(Items(k)) /\ Count(k) \in Int \ {0}
      /\ \A k \in 1 .. d : /\ Items(k) = stack[k].items
                           /\ Count(k) = stack[k].capacity - Len(stack[k].items)
      /\ Items(0) = Parsed /\ Count(0) = -1 - Len(Parsed) /\ Len(Parsed) \in Nat
  BY <1>5, LevelTypes, OuterArrays, Zenon DEF PInv, StackOk
<1>7. ASSUME NEW more \in Seq(Byte)
      PROVE  /\ bytes(more) \in Seq(Byte)
             /\ Pending(more) = Read(<<f>>, bytes(more))
             /\ frame' = None => Pending(more)' = DecodeFirst(bytes(more))
             /\ \A g : frame' = <<g>> => Pending(more)' = Read(<<g>>, bytes(more))
  <2>1. bytes(more) \in Seq(Byte)
    BY <1>5, ConcatProperties, Zenon
  <2>2. Pending(more) = Read(<<f>>, bytes(more))
    BY <1>2, Zenon DEF Pending
  <2>3. frame' = None => Pending(more)' = DecodeFirst(bytes(more))
    BY <1>2, Zenon DEF Pending, Continued
  <2>4. \A g : <<g>> # None
    BY Zenon DEF None
  <2>5. \A g : frame' = <<g>> => Pending(more)' = Read(<<g>>, bytes(more))
    BY <1>2, <2>4, Zenon DEF Pending
  <2> QED
    BY <2>1, <2>2, <2>3, <2>5, Zenon
<1> HIDE DEF bytes
<1>8. ASSUME NEW more \in Seq(Byte)
      PROVE  \E levels : /\ Chain(levels, Pending(more))'
                         /\ levels[0] = Decode(SubSeq(input', 1, fed') \o more)
  <2>1. PICK levels : /\ Chain(levels, Pending(more))
                      /\ levels[0] = Decode(SubSeq(input, 1, fed) \o more)
    BY Zenon DEF WInv, DecodesOn
  <2>2. /\ levels[d] = Behind(Items(d), ReadFrom(Reader, Count(d), Read(<<f>>, bytes(more))))
        /\ \A k \in 0 .. d - 1 :
              levels[k] = Behind(Items(k), ReadOn(Reader, Count(k), AsArray(levels[k + 1])))
    BY <1>7, <2>1, Zenon DEF Chain
  <2>3. levels[0] = Decode(SubSeq(input', 1, fed') \o more)
    BY <1>2, <2>1, Zenon
  <2>4. CASE stack = <<>> /\ output' = Append(output, f) /\ frame' = None /\ UNCHANGED stack
    <3>1. d = 0 /\ Len(stack') = 0
      BY <2>4, EmptySeq, Zenon
    <3>2. Parsed' = Append(Parsed, f) /\ Len(Parsed') = Len(Parsed) + 1
      BY <1>5, <2>4, Concatenated, Appended DEF ChunkInv
    <3>3. Items(0)' = Append(Parsed, f) /\ Count(0)' = Count(0) - 1
      BY <1>6, <3>2 DEF Items, Count
    <3>4. Count(0) \in Int \ {0, 1} /\ IsSeq(Parsed)
      BY <1>6
    <3>5. levels[0] = Behind(Append(Parsed, f), ReadFrom(Reader, Count(0) - 1, DecodeFirst(bytes(more))))
      BY <1>6, <1>7, <2>2, <3>1, <3>4, StoredFrame
    <3>6. levels[0] = Behind(Items(0)', ReadFrom(Reader, Count(0)', Pending(more)'))
      BY <1>7, <2>4, <3>3, <3>5, Zenon
    <3>7. 0 .. 0 - 1 = {}
      OBVIOUS
    <3>8. Chain(levels, Pending(more))'
      BY <3>1, <3>6, <3>7, NewLevels, Zenon
    <3> QED
      BY <2>3, <3>8, Zenon
  <2> DEFINE top == [capacity |-> stack[d].capacity, items |-> Append(stack[d].items, f)]
  <2>5. CASE stack # <<>> /\ ~Full(top) /\ stack' = Append(Outer, top) /\ frame' = None /\ UNCHANGED output
    <3>1. /\ IsSeq(Outer) /\ d \in Nat \ {0} /\ Len(Outer) = d - 1
          /\ \A k \in 1 .. d - 1 : Outer[k] = stack[k]
      BY <1>6, <2>5, OuterArrays, Zenon
    <3> HIDE DEF top
    <3>2. /\ Len(stack') = (d - 1) + 1 /\ stack'[(d - 1) + 1] = top
          /\ \A k \in 1 .. d - 1 : stack'[k] = Outer[k]
      BY <2>5, <3>1, Appended
    <3>3. Len(stack') = d /\ stack'[d] = top /\ \A k \in 1 .. d - 1 : stack'[k] = stack[k]
      BY <3>1, <3>2
    <3>4. Parsed' = Parsed
      BY <1>5, <2>5, Zenon
    <3>5. \A k \in 0 .. d - 1 : Items(k)' = Items(k) /\ Count(k)' = Count(k)
      <4>1. \A k \in 0 .. d - 1 : k = 0 \/ k \in 1 .. d - 1
        BY <3>1
      <4> QED
        BY <3>3, <3>4, <4>1, Zenon DEF Items, Count
    <3>6. /\ d # 0 /\ d \in 1 .. d /\ d \in 0 .. d /\ IsSeq(Items(d)) /\ Count(d) \in Int \ {0}
          /\ Items(d) = stack[d].items /\ Count(d) = stack[d].capacity - Len(stack[d].items)
          /\ OpenArray(stack[d])
      <4>1. d # 0 /\ d \in 1 .. d /\ d \in 0 .. d
        BY <3>1
      <4>2. d \in DOMAIN stack
        BY <1>6, <4>1, Appended, Zenon
      <4> QED
        <5>1. OpenArray(stack[d])
          BY <1>5, <4>2, Zenon DEF PInv, StackOk
        <5> QED
          BY <1>6, <4>1, <5>1, Zenon
    <3>7. Items(d)' = Append(Items(d), f) /\ Count(d)' = stack[d].capacity - Len(Append(Items(d), f))
      <4>1. Items(d)' = top.items /\ Count(d)' = top.capacity - Len(top.items)
        BY <3>3, <3>6, Zenon DEF Items, Count
      <4>2. top.items = Append(stack[d].items, f) /\ top.capacity = stack[d].capacity
        BY Zenon DEF top
      <4> QED
        BY <3>6, <4>1, <4>2, Zenon
    <3>8. Len(Append(Items(d), f)) = Len(Items(d)) + 1 /\ Len(Items(d)) \in Nat
      BY <3>6, Appended, Zenon
    <3>9. Count(d)' = Count(d) - 1 /\ Count(d) \in Int \ {0, 1}
      <4>1. stack[d].capacity \in Nat
        BY <3>6, Zenon DEF OpenArray
      <4>2. Len(Append(Items(d), f)) # stack[d].capacity
        BY <2>5, <3>6, Zenon DEF Full, top
      <4>3. PICK m, n, cap : /\ m = Len(Append(Items(d), f)) /\ n = Len(Items(d))
                             /\ cap = stack[d].capacity
        BY Zenon
      <4>4. n \in Nat /\ cap \in Nat /\ m = n + 1 /\ m # cap /\ cap - n # 0
        BY <3>6, <3>8, <4>1, <4>2, <4>3, Zenon
      <4>5. cap - m = (cap - n) - 1 /\ cap - n \in Int \ {0, 1}
        BY ONLY <4>4
      <4>6. Count(d) = cap - n /\ Count(d)' = cap - m
        BY <3>6, <3>7, <4>3, Zenon
      <4> QED
        BY <4>5, <4>6, Zenon
    <3>10. levels[d] = Behind(Append(Items(d), f), ReadFrom(Reader, Count(d) - 1, DecodeFirst(bytes(more))))
      <4>1. PICK g, n, b : g = Items(d) /\ n = Count(d) /\ b = bytes(more)
        OBVIOUS
      <4>2. IsSeq(g) /\ n \in Int \ {0, 1} /\ b \in Seq(Byte)
        BY <1>7, <3>6, <3>9, <4>1, Zenon
      <4>3. Behind(g, ReadFrom(Reader, n, Read(<<f>>, b))) =
               Behind(Append(g, f), ReadFrom(Reader, n - 1, DecodeFirst(b)))
        BY <4>2, StoredFrame, Zenon
      <4> QED
        BY <2>2, <4>1, <4>3, Zenon
    <3>11. levels[d] = Behind(Items(d)', ReadFrom(Reader, Count(d)', Pending(more)'))
      BY <1>7, <2>5, <3>7, <3>9, <3>10, Zenon
    <3>12. \A k \in 0 .. d - 1 :
              levels[k] = Behind(Items(k)', ReadOn(Reader, Count(k)', AsArray(levels[k + 1])))
      BY <2>2, <3>5, Zenon
    <3>13. Chain(levels, Pending(more))'
      <4>1. PICK e : e = d
        OBVIOUS
      <4> QED
        BY <3>3, <3>11, <3>12, <4>1, NewLevels, Zenon
    <3> QED
      BY <2>3, <3>13, Zenon
  <2>6. CASE stack # <<>> /\ Full(top) /\ stack' = Outer /\ frame' = Some(Array(top.items)) /\ UNCHANGED output
    <3>1. /\ d \in Nat \ {0} /\ Len(Outer) = d - 1 /\ \A k \in 1 .. d - 1 : Outer[k] = stack[k]
      BY <1>6, <2>6, OuterArrays, Zenon
    <3>2. PICK e : e = d - 1
      OBVIOUS
    <3>3. PICK items : items = stack[d].items
      OBVIOUS
    <3>4. /\ e \in Nat /\ e + 1 = d /\ e = Len(stack') /\ e \in 0 .. d - 1 /\ e \in 0 .. d
          /\ e - 1 \in Int /\ \A k \in 0 .. e - 1 : k \in 0 .. d - 1
          /\ \A k \in 1 .. e : stack'[k] = stack[k]
      BY <2>6, <3>1, <3>2
    <3>5. Parsed' = Parsed
      BY <1>5, <2>6, Zenon
    <3>6. \A k \in 0 .. e : Items(k)' = Items(k) /\ Count(k)' = Count(k)
      <4>1. \A k \in 0 .. e : k = 0 \/ k \in 1 .. e
        BY <3>4
      <4> QED
        BY <3>4, <3>5, <4>1, Zenon DEF Items, Count
    <3>7. IsSeq(items) /\ Items(d) = items /\ Count(d) = 1
      <4>1. d \in 1 .. d /\ d \in DOMAIN stack
        BY <1>6, <3>1, Appended
      <4>2. /\ stack[d].capacity \in Nat /\ IsSeq(items)
            /\ Items(d) = items /\ Count(d) = stack[d].capacity - Len(items)
        BY <1>5, <1>6, <3>3, <4>1, Zenon DEF PInv, StackOk, OpenArray
      <4>3. Len(Append(items, f)) = Len(items) + 1 /\ Len(items) \in Nat
        BY <4>2, Appended, Zenon
      <4>4. Len(Append(items, f)) = stack[d].capacity
        BY <2>6, <3>3, Zenon DEF Full
      <4> QED
        BY <4>2, <4>3, <4>4
    <3>8. PICK g : g = Array(Append(items, f))
      OBVIOUS
    <3>9. frame' = <<g>>
      BY <2>6, <3>3, <3>8, Zenon DEF Some
    <3>10. levels[d] = Read(Append(items, f), bytes(more))
      BY <1>7, <2>2, <3>7, LastFrame
    <3>11. AsArray(levels[d]) = Read(<<g>>, bytes(more))
      BY <3>8, <3>10 DEF AsArray, Read
    <3>12. levels[e] = Behind(Items(e), ReadOn(Reader, Count(e), Read(<<g>>, bytes(more))))
      BY <2>2, <3>4, <3>11, Zenon
    <3>13. ReadOn(Reader, Count(e), Read(<<g>>, bytes(more))) =
              ReadFrom(Reader, Count(e), Read(<<g>>, bytes(more)))
      BY Zenon DEF ReadFrom, Read
    <3>14. levels[e] = Behind(Items(e)', ReadFrom(Reader, Count(e)', Pending(more)'))
      <4>1. e \in 0 .. e
        BY <3>4
      <4>2. Pending(more)' = Read(<<g>>, bytes(more))
        BY <1>7, <3>9, Zenon
      <4> QED
        BY <3>6, <3>12, <3>13, <4>1, <4>2, Zenon
    <3>15. \A k \in 0 .. e - 1 :
              levels[k] = Behind(Items(k)', ReadOn(Reader, Count(k)', AsArray(levels[k + 1])))
      <4>1. \A k \in 0 .. e - 1 : k \in 0 .. e
        BY <3>4
      <4> QED
        BY <2>2, <3>4, <3>6, <4>1, Zenon
    <3>16. Chain(levels, Pending(more))'
      BY <3>4, <3>14, <3>15, NewLevels, Zenon
    <3> QED
      BY <2>3, <3>16, Zenon
  <2> QED
    BY <1>1, <2>4, <2>5, <2>6, Zenon DEF PushFrame, Innermost
<1> QED
  BY <1>3, <1>4, <1>8, Zenon DEF DecodesOn

(* Opening an array. *)
LEMMA OpenDecodes ==
    ASSUME WInv, ReadArrayLength, stack' # stack PROVE FrameReady' /\ WantsMore' /\ DecodesOn'
<1>1. PInv /\ ChunkInv /\ CapacityMax \in Nat
  BY WidthAssumption DEF WInv
<1>2. /\ state.name = "ReadingArrayLength" /\ HasLine /\ buf' = Dropped(Len(Line) + 2)
      /\ result = "Parsing" /\ frame = None
  BY Zenon DEF ReadArrayLength, ReadLength, Turn, Idle
<1>3. PICK n \in Lengths :
         /\ n \in 1 .. CapacityMax
         /\ stack' = Append(stack, [capacity |-> n, items |-> <<>>])
         /\ state' = Start
         /\ UNCHANGED <<input, fed, frame, output, returned, result>>
  BY Zenon DEF ReadArrayLength, Fails, Returns, Completes
<1>4. FrameReady' /\ WantsMore' /\ Parsed' = Parsed
  BY <1>2, <1>3, Zenon DEF FrameReady, WantsMore, Parsed
<1>5. n \in Nat \ {0} /\ n \in Int \ {0}
  BY <1>1, <1>3
<1>6. buf' \in Seq(Byte)
  BY <1>1, <1>2, LineStays, EmptySeq, Zenon DEF ChunkInv
<1>7. ASSUME NEW more \in Seq(Byte)
      PROVE  /\ Pending(more) = IsArray(n, buf' \o more)
             /\ Pending(more)' = DecodeFirst(buf' \o more)
             /\ buf' \o more \in Seq(Byte)
  <2>1. Continued(state, buf \o more) = DecodeSized("*", n, buf' \o more)
    BY <1>1, <1>2, <1>3, LengthRead, Zenon
  <2>2. \A bytes : DecodeSized("*", n, bytes) = IsArray(n, bytes)
    BY <1>1, <1>3, <1>5 DEF DecodeSized
  <2>3. Pending(more) = IsArray(n, buf' \o more)
    BY <1>2, <2>1, <2>2, Zenon DEF Pending
  <2>4. Pending(more)' = DecodeFirst(buf' \o more)
    BY <1>2, <1>3, Zenon DEF Pending, Continued, Start, State
  <2>5. buf' \o more \in Seq(Byte)
    BY <1>6, ConcatProperties, Zenon
  <2> QED
    BY <2>3, <2>4, <2>5, Zenon
<1>8. PICK d : d = Len(stack)
  BY Zenon
<1>9. d \in Nat /\ IsSeq(stack) /\ d \in 0 .. d
  BY <1>1, <1>8, LevelTypes DEF PInv, StackOk
<1> DEFINE a == [capacity |-> n, items |-> <<>>]
           e == d + 1
<1>10. a.capacity = n /\ a.items = <<>> /\ Len(a.items) = 0
  BY EmptySeq, Zenon
<1>11. e \in Nat /\ e # 0 /\ e - 1 = d
  BY <1>9
<1>12. Len(stack') = e /\ stack'[e] = a /\ \A k \in 1 .. d : stack'[k] = stack[k]
  <2> HIDE DEF a
  <2> QED
    BY <1>3, <1>8, <1>9, Appended DEF a
<1> HIDE DEF a, e
<1>13. Items(e)' = <<>> /\ Count(e)' = n
  <2>1. n - 0 = n
    BY <1>5
  <2> QED
    BY <1>10, <1>11, <1>12, <2>1, Zenon DEF Items, Count
<1>14. \A k \in 0 .. d : Items(k)' = Items(k) /\ Count(k)' = Count(k)
  <2>1. \A k \in 0 .. d : k = 0 \/ k \in 1 .. d
    BY <1>9
  <2> QED
    BY <1>4, <1>12, <2>1, Zenon DEF Items, Count
<1>15. ASSUME NEW more \in Seq(Byte)
       PROVE  \E levels : /\ Chain(levels, Pending(more))'
                          /\ levels[0] = Decode(SubSeq(input', 1, fed') \o more)
  <2>1. PICK old : /\ Chain(old, Pending(more))
                   /\ old[0] = Decode(SubSeq(input, 1, fed) \o more)
    BY Zenon DEF WInv, DecodesOn
  <2>2. PICK bytes \in Seq(Byte) : /\ bytes = buf' \o more
                                   /\ Pending(more) = IsArray(n, bytes)
                                   /\ Pending(more)' = DecodeFirst(bytes)
    BY <1>7, Zenon
  <2> DEFINE levels == [k \in 0 .. e |-> IF k = e THEN Reader[n][bytes] ELSE old[k]]
  <2>3. /\ levels[e] = Reader[n][bytes]
        /\ \A k \in 0 .. d : levels[k] = old[k] /\ k \in 0 .. e /\ k # e
        /\ 0 \in 0 .. d /\ 0 .. e - 1 = 0 .. d
        /\ \A k \in 0 .. d : k = d \/ (k \in 0 .. d - 1 /\ k + 1 \in 0 .. d)
        /\ d + 1 = e
    BY <1>9, <1>11 DEF e
  <2> HIDE DEF levels
  <2>4. levels[e] = Behind(Items(e)', ReadFrom(Reader, Count(e)', Pending(more)'))
    <3>1. /\ Reader[n][bytes] = ReadFrom(Reader, n, DecodeFirst(bytes))
          /\ Result(Reader[n][bytes], Len(bytes))
      BY <1>5, ReaderEquation, Zenon
    <3>2. IsSeq(<<>>)
      BY EmptySeq, Zenon DEF IsSeq
    <3>3. Behind(<<>>, Reader[n][bytes]) = Reader[n][bytes]
      BY <3>1, <3>2, BehindResult, Zenon
    <3> QED
      BY <1>13, <2>2, <2>3, <3>1, <3>3, Zenon
  <2>5. levels[d] = Behind(Items(d)', ReadOn(Reader, Count(d)', AsArray(levels[d + 1])))
    <3>1. old[d] = Behind(Items(d), ReadFrom(Reader, Count(d), IsArray(n, bytes)))
      BY <1>8, <2>1, <2>2, Zenon DEF Chain
    <3>2. ReadFrom(Reader, Count(d), IsArray(n, bytes)) =
             ReadOn(Reader, Count(d), AsArray(Reader[n][bytes]))
      BY Zenon DEF ReadFrom, IsArray
    <3> QED
      BY <1>9, <1>14, <2>3, <3>1, <3>2, Zenon
  <2>6. ASSUME NEW k \in 0 .. d - 1
        PROVE  levels[k] = Behind(Items(k)', ReadOn(Reader, Count(k)', AsArray(levels[k + 1])))
    <3>1. old[k] = Behind(Items(k), ReadOn(Reader, Count(k), AsArray(old[k + 1])))
      BY <1>8, <2>1, Zenon DEF Chain
    <3>2. k \in 0 .. d /\ k + 1 \in 0 .. d
      BY <1>9
    <3> QED
      BY <1>14, <2>3, <3>1, <3>2, Zenon
  <2>7. \A k \in 0 .. e - 1 :
           levels[k] = Behind(Items(k)', ReadOn(Reader, Count(k)', AsArray(levels[k + 1])))
    BY <2>3, <2>5, <2>6, Zenon
  <2>8. Chain(levels, Pending(more))'
    <3>1. PICK new, top : new = levels /\ top = e
      BY Zenon DEF levels
    <3>2. Chain(new, Pending(more))'
      BY <1>12, <2>4, <2>7, <3>1, NewLevels, Zenon
    <3> QED
      BY <3>1, <3>2, Zenon
  <2>9. levels[0] = Decode(SubSeq(input', 1, fed') \o more)
    BY <1>3, <2>1, <2>3, Zenon
  <2> QED
    BY <2>8, <2>9, Zenon
<1> QED
  BY <1>4, <1>15, Zenon DEF DecodesOn

(* A chunk arrives: it was among the bytes to come. *)
LEMMA ParseDecodes ==
    ASSUME WInv, NEW n \in 1 .. Len(input) - fed, Parse(n)
    PROVE  FrameReady' /\ WantsMore' /\ DecodesOn'
<1>1. /\ input \in Seq(Byte) /\ fed \in 0 .. Len(input) /\ buf \in Seq(Byte) /\ Len(input) \in Nat
      /\ IsSeq(returned)
  BY LenProperties, Zenon DEF WInv, ChunkInv, Buffered
<1>2. /\ result \notin {"Parsing", "Panicked"} /\ fed' = fed + n /\ output' = <<>> /\ result' = "Parsing"
      /\ buf' = buf \o SubSeq(input, fed + 1, fed + n)
      /\ UNCHANGED <<input, state, stack, frame, returned>>
  BY Zenon DEF Parse, Idle, Extended
<1>3. frame = None /\ FrameReady' /\ WantsMore'
  BY <1>2, Zenon DEF WInv, FrameReady, WantsMore
<1>4. Parsed' = Parsed
  <2>1. PICK S : returned \in Seq(S)
    BY <1>1, Zenon DEF IsSeq
  <2>2. returned \o <<>> = returned
    BY <2>1, ConcatEmptySeq, Zenon
  <2> QED
    BY <1>2, <2>2, Zenon DEF Parsed
<1>5. PICK chunk : chunk = SubSeq(input, fed + 1, fed + n)
  BY Zenon
<1>6. /\ chunk \in Seq(Byte) /\ SubSeq(input, 1, fed) \in Seq(Byte)
      /\ SubSeq(input, 1, fed) \o chunk = SubSeq(input, 1, fed')
  <2> DEFINE m == fed + n
             all == Len(input)
  <2>1. fed \in 1 - 1 .. all /\ m \in fed .. all /\ 1 \in 1 .. all + 1 /\ fed + 1 \in Int /\ m \in Int
    BY <1>1
  <2>2. \A i \in fed + 1 .. m : i \in 1 .. all
    BY <1>1, <2>1
  <2>3. \A i \in fed + 1 .. m : input[i] \in Byte
    BY <1>1, <2>2, ElementOfSeq, Zenon
  <2> HIDE DEF m
  <2>4. SubSeq(input, fed + 1, m) \in Seq(Byte)
    BY <2>1, <2>3, SubSeqProperties, Zenon
  <2>5. SubSeq(input, 1, fed) \o SubSeq(input, fed + 1, m) = SubSeq(input, 1, m)
    BY <1>1, <2>1, ConcatAdjacentSubSeq, Zenon
  <2>6. SubSeq(input, 1, fed) \in Seq(Byte)
    BY <1>1, Cut, Zenon
  <2> QED
    BY <1>2, <1>5, <2>4, <2>5, <2>6, Zenon DEF m
<1>7. ASSUME NEW more \in Seq(Byte)
      PROVE  \E levels : /\ Chain(levels, Pending(more))'
                         /\ levels[0] = Decode(SubSeq(input', 1, fed') \o more)
  <2>1. PICK next : next = chunk \o more
    BY Zenon
  <2>2. next \in Seq(Byte)
    BY <1>6, <2>1, ConcatProperties, Zenon
  <2>3. PICK levels : /\ Chain(levels, Pending(next))
                      /\ levels[0] = Decode(SubSeq(input, 1, fed) \o next)
    BY <2>2, Zenon DEF WInv, DecodesOn
  <2>4. SubSeq(input, 1, fed) \o next = SubSeq(input', 1, fed') \o more
    <3> DEFINE s == SubSeq(input, 1, fed)
    <3>1. s \in Seq(Byte) /\ s \o chunk = SubSeq(input', 1, fed')
      BY <1>2, <1>6, Zenon
    <3> HIDE DEF s
    <3>2. (s \o chunk) \o more = s \o (chunk \o more)
      <4>1. s \in Seq(Byte) /\ chunk \in Seq(Byte)
        BY <1>6, <3>1, Zenon
      <4> QED
        BY <4>1, ConcatAssociative, SMTT(30)
    <3> QED
      BY <2>1, <3>1, <3>2, Zenon DEF s
  <2>5. Pending(more)' = Pending(next)
    <3>1. (buf \o chunk) \o more = buf \o (chunk \o more)
      <4>1. PICK s, t, u : s = buf /\ t = chunk /\ u = more
        BY Zenon
      <4>2. s \in Seq(Byte) /\ t \in Seq(Byte) /\ u \in Seq(Byte)
        BY <1>1, <1>6, <4>1, Zenon
      <4>3. (s \o t) \o u = s \o (t \o u)
        BY ONLY <4>2, SMTT(30)
      <4> QED
        BY <4>1, <4>3, Zenon
    <3>2. buf' \o more = buf \o next
      BY <1>2, <1>5, <2>1, <3>1, Zenon
    <3>3. Pending(more)' = Continued(state, buf' \o more)
      BY <1>2, <1>3, Zenon DEF Pending
    <3>4. Pending(next) = Continued(state, buf \o next)
      BY <1>2, <1>3, Zenon DEF Pending
    <3> QED
      BY <3>2, <3>3, <3>4, Zenon
  <2>6. \A k : Items(k)' = Items(k) /\ Count(k)' = Count(k)
    BY <1>2, <1>4, Zenon DEF Items, Count
  <2>7. Chain(levels, Pending(more))'
    BY <1>2, <2>3, <2>5, <2>6, Zenon DEF Chain
  <2> QED
    BY <2>3, <2>4, <2>7, Zenon
<1> QED
  BY <1>3, <1>7, Zenon DEF DecodesOn

-----------------------------------------------------------------------------
(* The invariant is inductive, and is what was to be shown *)

(* It holds before the first chunk, *)
LEMMA InitWInv == Init => WInv
<1> SUFFICES ASSUME Init PROVE WInv
  OBVIOUS
<1>1. PInv /\ ChunkInv
  BY InitPInv, InitChunkInv, Zenon
<1>2. /\ input \in Seq(Byte) /\ fed = 0 /\ buf = <<>> /\ state = Start /\ stack = <<>> /\ frame = None
      /\ output = <<>> /\ returned = <<>> /\ result = "Complete"
  BY <1>1, Zenon DEF Init, ChunkInv, Buffered
<1>3. Start.name = "Start"
  BY Zenon DEF Start, State
<1>4. ASSUME NEW more \in Seq(Byte) PROVE Pending(more) = DecodeFirst(more)
  <2>1. <<>> \o more = more
    BY ConcatEmptySeq, Zenon
  <2> QED
    BY <1>2, <1>3, <2>1, Zenon DEF Pending, Continued
<1>5. <<>> \in Seq(Byte) /\ IsSeq(<<>>) /\ Len(<<>>) = 0
  BY EmptySeq, Zenon DEF IsSeq
<1>6. FrameReady /\ WantsMore
  <2>1. DecodeFirst(<<>>) = NotRead("Complete")
    BY Zenon DEF DecodeFirst
  <2> QED
    BY <1>2, <1>4, <1>5, <2>1, Zenon DEF FrameReady, WantsMore
<1>7. ASSUME NEW more \in Seq(Byte)
      PROVE  \E levels : /\ Chain(levels, Pending(more))
                         /\ levels[0] = Decode(SubSeq(input, 1, fed) \o more)
  <2> DEFINE levels == [k \in {0} |-> Decode(more)]
  <2>1. levels[0] = Decode(more)
    OBVIOUS
  <2> HIDE DEF levels
  <2>2. SubSeq(input, 1, fed) \o more = more
    <3>1. SubSeq(input, 1, fed) = <<>>
      BY <1>2, SubSeqEmpty
    <3> QED
      BY <3>1, ConcatEmptySeq, Zenon
  <2>3. Len(stack) = 0 /\ Items(0) = <<>> /\ Count(0) = -1 /\ 0 .. 0 - 1 = {}
    BY <1>2, <1>5 DEF Items, Count, Parsed
  <2>4. Decode(more) = ReadFrom(Reader, -1, DecodeFirst(more)) /\ Result(Decode(more), Len(more))
    BY ReaderEquation DEF Decode
  <2>5. Behind(<<>>, Decode(more)) = Decode(more)
    BY <1>5, <2>4, BehindResult, Zenon
  <2>6. levels[0] = Behind(<<>>, ReadFrom(Reader, -1, Pending(more)))
    BY <1>4, <2>1, <2>4, <2>5, Zenon
  <2>7. Chain(levels, Pending(more))
    BY <2>3, <2>6, Zenon DEF Chain
  <2> QED
    BY <2>1, <2>2, <2>7, Zenon
<1> QED
  BY <1>1, <1>6, <1>7, Zenon DEF WInv, DecodesOn

(* and is kept by every step. *)
LEMMA NextWInv == WInv /\ [Next]_vars => WInv'
<1> SUFFICES ASSUME WInv, [Next]_vars PROVE WInv'
  OBVIOUS
<1>1. PInv' /\ ChunkInv' /\ PInv /\ ChunkInv /\ DecodesOn
  BY NextPInv, NextChunkInv, Zenon DEF WInv
<1>2. ASSUME Kept PROVE WInv'
  BY <1>1, <1>2, KeptDecodes, Zenon DEF WInv, Kept
<1>3. ASSUME NEW n \in 1 .. Len(input) - fed, Parse(n) PROVE WInv'
  BY <1>1, <1>3, ParseDecodes, Zenon DEF WInv
<1>4. CASE PushFrame
  BY <1>1, <1>4, PushDecodes, Zenon DEF WInv
<1>5. CASE ReadArrayLength
  BY <1>1, <1>2, <1>5, ArrayKept, OpenDecodes, Zenon DEF WInv
<1>6. CASE \/ ReadStart \/ Starved \/ ReadInline \/ ReadBulkString \/ FailsAgain
           \/ NotLength \/ ReadInteger \/ ReadBulkLength
           \/ ReadText("ReadingSimpleString", SimpleString(Line))
           \/ ReadText("ReadingSimpleError", SimpleError(Line))
  BY <1>1, <1>2, <1>6, StartKept, StarvedKept, InlineKept, BulkKept, AgainKept, LengthKept, TextKept, Zenon
<1>7. CASE UNCHANGED vars
  <2>1. UNCHANGED <<input, fed, buf, state, stack, frame, output, returned, result>>
    BY <1>7, Zenon DEF vars
  <2>2. Parsed' = Parsed
    BY <2>1, Zenon DEF Parsed
  <2>3. \A more : Pending(more)' = Pending(more)
    BY <2>1, Zenon DEF Pending
  <2>4. FrameReady' /\ WantsMore'
    BY <2>1, <2>3, Zenon DEF WInv, FrameReady, WantsMore
  <2>5. Kept
    BY <2>1, <2>2, <2>3, <2>4, Zenon DEF Kept
  <2> QED
    BY <1>2, <2>5, Zenon
<1> QED
  BY <1>3, <1>4, <1>5, <1>6, <1>7, Zenon DEF Next, Step

(* When parse() is not running, no frame can be read from what is left,    *)
(* for the reason it gave.                                                 *)
LEMMA NothingPending == ASSUME WInv, Idle PROVE Pending(<<>>) = NotRead(result) /\ result \in Reasons
<1>1. /\ result \in {"Complete", "Panicked"} \cup ParseErrors /\ result # "Parsing" /\ frame = None
  BY Zenon DEF WInv, FrameReady, Idle, ChunkInv, Errors
<1>2. CASE result = "Panicked"
  BY <1>2, Zenon DEF Pending, Reasons
<1>3. CASE result = "Complete"
  BY <1>3, Zenon DEF WInv, WantsMore, Reasons
<1>4. CASE result \in ParseErrors
  <2>1. state.name = "Error" /\ state.arg = result /\ result # "Panicked"
    BY <1>1, <1>4, Zenon DEF WInv, ChunkInv, Errors, ParseErrors
  <2> QED
    BY <1>1, <1>4, <2>1, Zenon DEF Pending, Continued, Reasons
<1> QED
  BY <1>1, <1>2, <1>3, <1>4, Zenon

(* The reason is that of every level, up to the outermost. *)
LEMMA DecodedWhole == WInv => ParsesAsWhole
<1> SUFFICES ASSUME WInv, Idle
             PROVE  /\ result = Decode(SubSeq(input, 1, fed)).how
                    /\ Decode(SubSeq(input, 1, fed)).frames =
                          IF result = "Panicked" THEN returned \o output ELSE returned
  BY Zenon DEF ParsesAsWhole
<1>1. PInv /\ ChunkInv /\ <<>> \in Seq(Byte) /\ result # "Parsing"
  BY EmptySeq, Zenon DEF WInv, Idle
<1>2. PICK why : why = result
  OBVIOUS
<1>3. Pending(<<>>) = NotRead(why) /\ why \in Reasons /\ why # "Read" /\ why \notin {"Blank", "Array"}
  BY <1>2, NothingPending, Zenon DEF Reasons, ParseErrors
<1>4. PICK levels : /\ Chain(levels, Pending(<<>>))
                    /\ levels[0] = Decode(SubSeq(input, 1, fed) \o <<>>)
  BY <1>1, Zenon DEF WInv, DecodesOn
<1>5. PICK d : d = Len(stack)
  BY Zenon
<1>6. d \in Nat /\ IsSeq(Parsed) /\ Items(0) = Parsed
  BY <1>1, <1>5, LevelTypes, Zenon
<1>7. NotRead(why).how = why /\ NotRead(why).frames = <<>>
  BY Zenon DEF NotRead
<1>8. \A count : ReadOn(Reader, count, NotRead(why)) = NotRead(why)
                 /\ ReadFrom(Reader, count, NotRead(why)) = NotRead(why)
  BY <1>3, <1>7, Zenon DEF ReadOn, ReadFrom
<1>9. \A items : Behind(items, NotRead(why)).how = why
                 /\ AsArray(Behind(items, NotRead(why))) = NotRead(why)
  <2>1. \A items : Behind(items, NotRead(why)).how = why
    BY <1>7, Zenon DEF Behind
  <2> QED
    BY <1>3, <2>1, Zenon DEF AsArray
<1> DEFINE T == {j \in 0 .. d : levels[d - j] # Behind(Items(d - j), NotRead(why))}
<1>10. T = {}
  <2> SUFFICES ASSUME T # {} PROVE FALSE
    OBVIOUS
  <2> DEFINE j == Min(T)
  <2>1. T \in SUBSET Nat
    BY <1>6
  <2>2. j \in T /\ \A i \in T : j <= i
    <3> HIDE DEF T
    <3> QED
      BY <2>1, SmallestOf, Zenon
  <2> HIDE DEF j
  <2>3. j \in 0 .. d /\ levels[d - j] # Behind(Items(d - j), NotRead(why))
    BY <2>2, Zenon
  <2>4. CASE j = 0
    <3>1. d - j = d
      BY <1>6, <2>4
    <3>2. levels[d] = Behind(Items(d), ReadFrom(Reader, Count(d), NotRead(why)))
      BY <1>3, <1>4, <1>5, Zenon DEF Chain
    <3>3. levels[d] = Behind(Items(d), NotRead(why))
      BY <1>8, <3>2, Zenon
    <3> QED
      BY <2>3, <3>1, <3>3, Zenon
  <2>5. CASE j # 0
    <3>1. /\ j - 1 \in 0 .. d /\ ~(j <= j - 1) /\ d - j \in 0 .. d - 1 /\ d - (j - 1) = (d - j) + 1
      BY <1>6, <2>3, <2>5
    <3>2. j - 1 \notin T
      BY <2>2, <3>1, Zenon
    <3>3. levels[d - (j - 1)] = Behind(Items(d - (j - 1)), NotRead(why))
      BY <3>1, <3>2, Zenon
    <3>4. AsArray(levels[(d - j) + 1]) = NotRead(why)
      BY <1>9, <3>1, <3>3, Zenon
    <3>5. levels[d - j] = Behind(Items(d - j), ReadOn(Reader, Count(d - j), AsArray(levels[(d - j) + 1])))
      BY <1>4, <1>5, <3>1, Zenon DEF Chain
    <3>6. levels[d - j] = Behind(Items(d - j), NotRead(why))
      BY <1>8, <3>4, <3>5, Zenon
    <3> QED
      BY <2>3, <3>6, Zenon
  <2> QED
    BY <2>4, <2>5, Zenon
<1>11. levels[0] = Behind(Parsed, NotRead(why))
  <2>1. d \in 0 .. d /\ d - d = 0
    BY <1>6
  <2>2. d \notin T
    BY <1>10, Zenon
  <2>3. levels[d - d] = Behind(Items(d - d), NotRead(why))
    BY <2>1, <2>2, Zenon
  <2> QED
    BY <1>6, <2>1, <2>3, Zenon
<1>12. SubSeq(input, 1, fed) \o <<>> = SubSeq(input, 1, fed)
  <2>1. SubSeq(input, 1, fed) \in Seq(Byte)
    BY <1>1, Cut, Zenon DEF ChunkInv, Buffered
  <2> QED
    BY <2>1, ConcatEmptySeq, Zenon
<1>13. Parsed \o <<>> = Parsed
  <2>1. PICK S : Parsed \in Seq(S)
    BY <1>6, Zenon DEF IsSeq
  <2> QED
    BY <2>1, ConcatEmptySeq, Zenon
<1>14. Decode(SubSeq(input, 1, fed)) = Behind(Parsed, NotRead(why))
  BY <1>4, <1>11, <1>12, Zenon
<1>15. Behind(Parsed, NotRead(why)).how = why /\ Behind(Parsed, NotRead(why)).frames = Parsed
  BY <1>7, <1>13, Zenon DEF Behind
<1> QED
  BY <1>1, <1>2, <1>14, <1>15, Zenon DEF Parsed

(* Whatever the client sends and however it is cut into chunks, the frames *)
(* parse() has returned, and the way its last call ended, are those of     *)
(* decoding all the bytes at once by recursive descent.                    *)
THEOREM ChunksParseAsWhole == Spec => []ParsesAsWhole
BY InitWInv, NextWInv, DecodedWhole, PTL DEF Spec

(* Whatever chunks the bytes that Frame::to_bytes wrote for a frame arrive *)
(* in, parse() has returned that frame and nothing else when they are all  *)
(* fed, and its last call ended with all bytes used and no error.          *)
THEOREM WrittenIsReadBack == Spec => []RoundTrip
<1>1. WInv => RoundTrip
  <2> SUFFICES ASSUME WInv, Idle, fed = Len(input), NEW f \in Message, ToBytes(f) = input
               PROVE  returned = <<f>> /\ result = "Complete"
    BY SMTT(30) DEF RoundTrip, Encoded
  <2>1. input \in Seq(Byte)
    BY Zenon DEF WInv, ChunkInv, Buffered
  <2>2. SubSeq(input, 1, fed) = input
    BY <2>1, SubSeqFull, Zenon
  <2>3. result = Decode(ToBytes(f)).how
        /\ Decode(ToBytes(f)).frames = IF result = "Panicked" THEN returned \o output ELSE returned
    BY <2>2, DecodedWhole, Zenon DEF ParsesAsWhole
  <2> QED
    BY <2>3, MessageDecoded, Zenon
<1>2. Init => WInv
  BY InitWInv, Zenon
<1>3. WInv /\ [Next]_vars => WInv'
  BY NextWInv, Zenon
<1> QED
  BY <1>1, <1>2, <1>3, PTL DEF Spec
=============================================================================
