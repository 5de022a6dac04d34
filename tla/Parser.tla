------------------------------- MODULE Parser -------------------------------
(***************************************************************************)
(* The incremental RESP parser of a connection.  The client's bytes reach  *)
(* it in chunks of any size: parse() appends a chunk to the buffer and     *)
(* takes frames from it until it needs more bytes or meets an error.  One  *)
(* action is one turn of a loop of parse() or try_parse_one_frame().       *)
(*                                                                         *)
(* Vec::with_capacity is taken to reserve exactly what it is asked for, on *)
(* which the closing of arrays relies.                                     *)
(***************************************************************************)
EXTENDS Frame, FiniteSetsExt, Functions

CONSTANTS Input,        \* what clients may send, whole
          I64Max,       \* the largest i64
          CapacityMax   \* the most elements a Vec can be made for

ASSUME WidthAssumption == I64Max \in Nat /\ CapacityMax \in 0 .. I64Max

ASSUME InputAssumption == Input \subseteq Seq(Byte)

VARIABLES input,     \* what this client sends
          fed,       \* how many bytes of it parse() has been given
          buf,       \* bytes given and not consumed
          state,
          stack,     \* the arrays being read, the innermost last
          frame,     \* None, or Some frame that is complete and not yet stored
          output,    \* the frames of this call of parse()
          returned,  \* history: the frames of the calls that returned
          result     \* "Parsing", or how the last call ended

vars == <<input, fed, buf, state, stack, frame, output, returned, result>>

LineStates == {"ReadingSimpleString", "ReadingSimpleError", "ReadingBulkLength",
               "ReadingInteger", "ReadingArrayLength"}
ParseErrors == {"UnreadableUtf", "InvalidLength", "UnreadableBulkString"}

None == <<>>
Some(f) == <<f>>

(* `arg`: the length of ReadingBulkString, the cause of Error. *)
State(name, arg) == [name |-> name, arg |-> arg]
Start == State("Start", Null)

Init == /\ input \in Input
        /\ fed = 0
        /\ buf = <<>>
        /\ state = Start
        /\ stack = <<>>
        /\ frame = None
        /\ output = <<>>
        /\ returned = <<>>
        /\ result = "Complete"

-----------------------------------------------------------------------------
(* Reading the buffer *)

LineEnds == {i \in 1 .. Len(buf) - 1 : SubSeq(buf, i, i + 1) = CRLF}
LFs == {i \in 1 .. Len(buf) : buf[i] = LF}

HasLine == LineEnds # {}
HasLF == LFs # {}

First_Last(ends) == Max(ends)
First(ends) == Min(ends)

(* The bytes before the first CRLF, and before the first LF. *)
Line == SubSeq(buf, 1, First(LineEnds) - 1)
LFLine == SubSeq(buf, 1, First(LFs) - 1)

Dropped(n) == SubSeq(buf, n + 1, Len(buf))

Utf8(bytes) == BadByte \notin Range(bytes)

(* str::parse::<i64>: an optional sign and at least one digit.  What the   *)
(* first n digits are worth is ten times the ones before, and the last.    *)
Unsigned(bytes) == IF bytes # <<>> /\ Head(bytes) \in {"+", "-"} THEN Tail(bytes) ELSE bytes
DigitValue(d) == CHOOSE n \in 0 .. 9 : Digits[n + 1] = d
MoreDigits(value, n) == [digits \in Seq(Byte) |-> 10 * value[digits] + DigitValue(digits[n])]
FirstDigits[n \in Nat] == IF n = 0 THEN [digits \in Seq(Byte) |-> 0]
                                   ELSE MoreDigits(FirstDigits[n - 1], n)
Magnitude(bytes) == FirstDigits[Len(Unsigned(bytes))][Unsigned(bytes)]
I64Of(bytes) == IF Head(bytes) = "-" THEN -Magnitude(bytes) ELSE Magnitude(bytes)
IsI64(bytes) == /\ Unsigned(bytes) # <<>>
                /\ Range(Unsigned(bytes)) \subseteq Range(Digits)
                /\ I64Of(bytes) \in -I64Max - 1 .. I64Max

(* read_length's value: the i64 the line reads as, if it does. *)
Lengths == {I64Of(line) : line \in {bytes \in {Line} : IsI64(bytes)}}

(* split_whitespace: the longest runs without a space. *)
Words(bytes) ==
    LET starts == {i \in DOMAIN bytes : bytes[i] \notin Space /\ (i = 1 \/ bytes[i - 1] \in Space)}
        End(i) == Min({j \in i .. Len(bytes) : j = Len(bytes) \/ bytes[j + 1] \in Space})
        Nth(n) == CHOOSE i \in starts : Cardinality({j \in starts : j <= i}) = n
    IN  [n \in 1 .. Cardinality(starts) |-> SubSeq(bytes, Nth(n), End(Nth(n)))]

-----------------------------------------------------------------------------
(* parse() *)

Idle == result # "Parsing"

(* The buffer with the next n bytes. *)
Extended_Overwritten(n) == SubSeq(input, fed + 1, fed + n)
Extended(n) == buf \o SubSeq(input, fed + 1, fed + n)

Parse(n) == /\ Idle /\ result # "Panicked"
            /\ buf' = Extended(n)
            /\ fed' = fed + n
            /\ output' = <<>>
            /\ result' = "Parsing"
            /\ UNCHANGED <<input, state, stack, frame, returned>>

(* try_parse_one_frame may go on. *)
Turn(name) == ~Idle /\ frame = None /\ state.name = name

Returns(how) == /\ result' = how
                /\ returned' = returned \o output
                /\ UNCHANGED <<input, fed, stack, frame, output>>

(* Err(e): kept as the state, so that every later call fails as well. *)
Fails(error) == state' = State("Error", error) /\ Returns(error)

(* Ok(Some(f)): the state machine is back at the start. *)
Completes(f) == /\ frame' = Some(f)
                /\ state' = Start
                /\ UNCHANGED <<input, fed, stack, output, returned, result>>

Goes(next) == state' = next /\ UNCHANGED <<input, fed, stack, frame, output, returned, result>>

Full_Innermost(array) == Len(array.items) = array.capacity /\ array.items[Len(array.items)].type # "*"
Full(array) == Len(array.items) = array.capacity

Innermost == stack[Len(stack)]
Outer == SubSeq(stack, 1, Len(stack) - 1)

(* Store the frame: in the innermost array, which becomes the frame to     *)
(* store once it is full, or in the output.                                *)
PushFrame ==
    /\ ~Idle /\ frame # None
    /\ LET top == [capacity |-> Innermost.capacity, items |-> Append(Innermost.items, frame[1])]
       IN  \/ /\ stack = <<>>
              /\ output' = Append(output, frame[1])
              /\ frame' = None
              /\ UNCHANGED stack
           \/ /\ stack # <<>> /\ ~Full(top)
              /\ stack' = Append(Outer, top)
              /\ frame' = None
              /\ UNCHANGED output
           \/ /\ stack # <<>> /\ Full(top)
              /\ stack' = Outer
              /\ frame' = Some(Array(top.items))
              /\ UNCHANGED output
    /\ UNCHANGED <<input, fed, buf, state, returned, result>>

-----------------------------------------------------------------------------
(* try_parse_one_frame() *)

ReadingOf == [marker \in {"+", "$", "*", "-", ":"} |->
                CASE marker = "+" -> "ReadingSimpleString"
                  [] marker = "$" -> "ReadingBulkLength"
                  [] marker = "*" -> "ReadingArrayLength"
                  [] marker = "-" -> "ReadingSimpleError"
                  [] marker = ":" -> "ReadingInteger"]

ReadStart == /\ Turn("Start")
             /\ buf # <<>>
             /\ \/ /\ Head(buf) \in DOMAIN ReadingOf
                   /\ buf' = Dropped(1)
                   /\ Goes(State(ReadingOf[Head(buf)], Null))
                \/ /\ Head(buf) \notin DOMAIN ReadingOf
                   /\ UNCHANGED buf
                   /\ Goes(State("ReadingInline", Null))

(* Ok(None): the bytes the state needs are not there yet. *)
NeedsBulk == Len(buf) < state.arg + 2

Starved == /\ \/ Turn("Start") /\ buf = <<>>
              \/ \E name \in LineStates : Turn(name) /\ ~HasLine
              \/ Turn("ReadingInline") /\ ~HasLF
              \/ Turn("ReadingBulkString") /\ NeedsBulk
           /\ Returns("Complete")
           /\ UNCHANGED <<buf, state>>

(* Simple strings and errors: the line is consumed even if it is not text. *)
ReadText(name, made) == /\ Turn(name)
                        /\ HasLine
                        /\ \/ /\ Utf8(Line)
                              /\ buf' = Dropped(Len(Line) + 2)
                              /\ Completes(made)
                           \/ /\ ~Utf8(Line)
                              /\ buf' = Dropped(Len(Line))
                              /\ Fails("UnreadableUtf")

(* A line of words is an array of bulk strings; a blank one is skipped. *)
InlineRest_NotDrained == Dropped(Len(LFLine))
InlineRest == Dropped(Len(LFLine) + 1)

ReadInline == /\ Turn("ReadingInline")
              /\ HasLF
              /\ \E words \in {Words(line) : line \in {LFLine}} :
                 \/ /\ ~Utf8(LFLine)
                    /\ buf' = Dropped(Len(LFLine))
                    /\ Fails("UnreadableUtf")
                 \/ /\ Utf8(LFLine) /\ words = <<>>
                    /\ buf' = InlineRest
                    /\ Goes(Start)
                 \/ /\ Utf8(LFLine) /\ words # <<>>
                    /\ buf' = InlineRest
                    /\ Completes(Array([i \in DOMAIN words |-> Bulk(words[i])]))

(* read_length: a line that is not an i64 is left in the buffer. *)
ReadLength(name) == Turn(name) /\ HasLine /\ Lengths # {} /\ buf' = Dropped(Len(Line) + 2)

NotLength == /\ \E name \in {"ReadingBulkLength", "ReadingInteger", "ReadingArrayLength"} :
                   Turn(name) /\ HasLine /\ Lengths = {}
             /\ UNCHANGED buf
             /\ Fails("InvalidLength")

ReadInteger == /\ ReadLength("ReadingInteger")
               /\ \E length \in Lengths : Completes(Integer(length))

ReadBulkLength == /\ ReadLength("ReadingBulkLength")
                  /\ \E length \in Lengths :
                     \/ length < -1 /\ Fails("InvalidLength")
                     \/ length = -1 /\ Completes(Bulk(Null))
                     \/ length >= 0 /\ Goes(State("ReadingBulkString", length))

ReadBulkString ==
    /\ Turn("ReadingBulkString")
    /\ ~NeedsBulk
    /\ \/ /\ SubSeq(buf, state.arg + 1, state.arg + 2) = CRLF
          /\ buf' = Dropped(state.arg + 2)
          /\ Completes(Bulk(SubSeq(buf, 1, state.arg)))
       \/ /\ SubSeq(buf, state.arg + 1, state.arg + 2) # CRLF
          /\ UNCHANGED buf
          /\ Fails("UnreadableBulkString")

(* Room for the elements is made at once; a Vec that long may not exist,   *)
(* and the panic ends the connection's task.                               *)
ReadArrayLength ==
    /\ ReadLength("ReadingArrayLength")
    /\ \E length \in Lengths :
       \/ length < -1 /\ Fails("InvalidLength")
       \/ length = -1 /\ Completes(Array(Null))
       \/ length = 0 /\ Completes(Array(<<>>))
       \/ /\ length \in 1 .. CapacityMax
          /\ stack' = Append(stack, [capacity |-> length, items |-> <<>>])
          /\ state' = Start
          /\ UNCHANGED <<input, fed, frame, output, returned, result>>
       \/ /\ length > CapacityMax
          /\ result' = "Panicked"
          /\ UNCHANGED <<input, fed, state, stack, frame, output, returned>>

(* The error of an earlier call is returned again. *)
FailsAgain == /\ Turn("Error")
              /\ UNCHANGED buf
              /\ Fails(state.arg)

Step == \/ PushFrame
        \/ ReadStart
        \/ Starved
        \/ ReadText("ReadingSimpleString", SimpleString(Line))
        \/ ReadText("ReadingSimpleError", SimpleError(Line))
        \/ ReadInline
        \/ NotLength \/ ReadInteger \/ ReadBulkLength \/ ReadBulkString \/ ReadArrayLength
        \/ FailsAgain

Next == Step \/ \E n \in 1 .. Len(input) - fed : Parse(n)

Spec == Init /\ [][Next]_vars

(* parse() runs to its end without giving up its thread; nothing is        *)
(* assumed of the client.                                                  *)
FairSpec == Spec /\ WF_vars(Step)

(* One call of parse() that is given all the client sends. *)
OneCallInit == /\ input \in Input
               /\ fed = Len(input)
               /\ buf = input
               /\ state = Start
               /\ stack = <<>>
               /\ frame = None
               /\ output = <<>>
               /\ returned = <<>>
               /\ result = "Parsing"

OneCallSpec == OneCallInit /\ [][Step]_vars

-----------------------------------------------------------------------------
(* Properties *)

(* parse() never stores a frame in an array that has no room for it, and   *)
(* never leaves an array open that is full: the capacity of a Vec is used  *)
(* as the number of elements still to come, and a Vec that is pushed past  *)
(* it would grow and never be full again.                                  *)
ArraysHaveRoom ==
    /\ result \in {"Parsing", "Complete", "Panicked"} \cup ParseErrors
    /\ \A i \in DOMAIN stack : Len(stack[i].items) < stack[i].capacity

(* Every call of parse() returns, or panics: no bytes make its loops spin. *)
ParseReturns == ~Idle ~> Idle
=============================================================================
