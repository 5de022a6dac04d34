-------------------------------- MODULE Wire --------------------------------
(***************************************************************************)
(* The wire format, twice: Frame::to_bytes, and a reference decoder that   *)
(* reads a whole byte string by recursive descent, with no buffer, no      *)
(* stack and no state between calls.                                       *)
(*                                                                         *)
(* Recursion is on a number that bounds what is left to do: f[n] is a      *)
(* function whose values are given by those of f[n - 1].                   *)
(***************************************************************************)
EXTENDS Parser

CONSTANTS Message,   \* frames that are sent
          Depth      \* how deep arrays are nested in them, at most

(* Where mark stands in bytes, and what is before and after its first one. *)
Marks(bytes, mark) == {i \in 1 .. Len(bytes) - Len(mark) + 1 :
                          SubSeq(bytes, i, i + Len(mark) - 1) = mark}
UpTo(bytes, mark) == SubSeq(bytes, 1, Min(Marks(bytes, mark)) - 1)
After(bytes, mark) == SubSeq(bytes, Min(Marks(bytes, mark)) + Len(mark), Len(bytes))

-----------------------------------------------------------------------------
(* The frames the server and its clients may hold.  The text of simple     *)
(* strings and errors is Unicode; a CRLF in it could not be read back.     *)

Text == {text \in Seq(Byte) : Utf8(text) /\ Marks(text, CRLF) = {}}
Payload == {bytes \in Seq(Byte) : Len(bytes) <= I64Max}

Leaf == [type : {"+", "-"}, text : Text]
          \cup [type : {":"}, int : -I64Max - 1 .. I64Max]
          \cup [type : {"$"}, payload : {Null} \cup Payload]
          \cup [type : {"*"}, items : {Null}]

ArraysOf(frames) == [type : {"*"}, items : {items \in Seq(frames) : Len(items) <= CapacityMax}]

DeeperFrames(frames, n) == Leaf \cup ArraysOf(frames)
FramesOf[n \in Nat] == IF n = 0 THEN Leaf ELSE DeeperFrames(FramesOf[n - 1], n)

ASSUME MessageAssumption == Depth \in Nat /\ Message \subseteq FramesOf[Depth]

-----------------------------------------------------------------------------
(* Frame::to_bytes *)

(* Decimal digits; n of them are enough for the number n. *)
MoreNumerals(shorter, n) ==
    [i \in Nat |-> IF i < 10 THEN <<Digits[i + 1]>>
                             ELSE shorter[i \div 10] \o <<Digits[(i % 10) + 1]>>]
Numerals[n \in Nat] == IF n = 0 THEN [i \in Nat |-> <<Digits[1]>>]
                                ELSE MoreNumerals(Numerals[n - 1], n)
Decimal(n) == IF n < 0 THEN <<"-">> \o Numerals[-n][-n] ELSE Numerals[n][n]

Header(type, n) == <<type>> \o Decimal(n) \o CRLF

NullHeader_Empty(type) == Header(type, 0)
NullHeader(type) == Header(type, -1)

LeafBytes(f) ==
    CASE f.type \in {"+", "-"} -> <<f.type>> \o f.text \o CRLF
      [] f.type = ":" -> Header(":", f.int)
      [] f.type = "$" -> IF f.payload = Null THEN NullHeader("$")
                         ELSE Header("$", Len(f.payload)) \o f.payload \o CRLF
      [] f.type = "*" -> NullHeader("*")

(* n byte strings, one after another. *)
MoreParts(joined, n) == [parts \in Seq(Seq(Byte)) |-> Head(parts) \o joined[Tail(parts)]]
Joined[n \in Nat] == IF n = 0 THEN [parts \in Seq(Seq(Byte)) |-> <<>>]
                              ELSE MoreParts(Joined[n - 1], n)

ArrayBytes(written, items) ==
    Header("*", Len(items)) \o Joined[Len(items)][[i \in DOMAIN items |-> written[items[i]]]]

DeeperWritten(written, n) ==
    [f \in FramesOf[n] |-> IF f \in Leaf THEN LeafBytes(f) ELSE ArrayBytes(written, f.items)]
Written[n \in Nat] == IF n = 0 THEN [f \in Leaf |-> LeafBytes(f)]
                               ELSE DeeperWritten(Written[n - 1], n)

ToBytes(f) == Written[Depth][f]

-----------------------------------------------------------------------------
(* The reference decoder.  What is read from bytes is a number of frames   *)
(* and the bytes after them; or the frames before the one that could not   *)
(* be read, and why it could not.                                          *)

Read(frames, rest) == [how |-> "Read", frames |-> frames, rest |-> rest]
NotRead(why) == [how |-> why, frames |-> <<>>, rest |-> <<>>]

(* The first frame of bytes, but for the elements of an array. *)
IsArray(count, rest) == [how |-> "Array", count |-> count, rest |-> rest]
IsBlank(rest) == [how |-> "Blank", rest |-> rest]

DecodeText(type, bytes) ==
    IF Marks(bytes, CRLF) = {} THEN NotRead("Complete")
    ELSE IF ~Utf8(UpTo(bytes, CRLF)) THEN NotRead("UnreadableUtf")
    ELSE Read(<<[type |-> type, text |-> UpTo(bytes, CRLF)]>>, After(bytes, CRLF))

DecodeInline(bytes) ==
    IF Marks(bytes, <<LF>>) = {} THEN NotRead("Complete")
    ELSE IF ~Utf8(UpTo(bytes, <<LF>>)) THEN NotRead("UnreadableUtf")
    ELSE LET words == Words(UpTo(bytes, <<LF>>)) IN
         IF words = <<>> THEN IsBlank(After(bytes, <<LF>>))
         ELSE Read(<<Array([i \in DOMAIN words |-> Bulk(words[i])])>>, After(bytes, <<LF>>))

DecodeBulk(length, bytes) ==
    IF Len(bytes) < length + 2 THEN NotRead("Complete")
    ELSE IF SubSeq(bytes, length + 1, length + 2) # CRLF THEN NotRead("UnreadableBulkString")
    ELSE Read(<<Bulk(SubSeq(bytes, 1, length))>>, SubSeq(bytes, length + 3, Len(bytes)))

DecodeSized(type, n, bytes) ==
    CASE type = ":" -> Read(<<Integer(n)>>, bytes)
      [] type # ":" /\ n < -1 -> NotRead("InvalidLength")
      [] type = "$" /\ n = -1 -> Read(<<Bulk(Null)>>, bytes)
      [] type = "$" /\ n >= 0 -> DecodeBulk(n, bytes)
      [] type = "*" /\ n = -1 -> Read(<<Array(Null)>>, bytes)
      [] type = "*" /\ n \in 0 .. CapacityMax -> IsArray(n, bytes)
      [] type = "*" /\ n > CapacityMax -> NotRead("Panicked")

DecodeLength(type, bytes) ==
    IF Marks(bytes, CRLF) = {} THEN NotRead("Complete")
    ELSE IF ~IsI64(UpTo(bytes, CRLF)) THEN NotRead("InvalidLength")
    ELSE DecodeSized(type, I64Of(UpTo(bytes, CRLF)), After(bytes, CRLF))

DecodeFirst(bytes) ==
    IF bytes = <<>> THEN NotRead("Complete")
    ELSE IF Head(bytes) \in {"+", "-"} THEN DecodeText(Head(bytes), Tail(bytes))
    ELSE IF Head(bytes) \in {"$", ":", "*"} THEN DecodeLength(Head(bytes), Tail(bytes))
    ELSE DecodeInline(bytes)

(* The rest is read by `reader`: the elements of an array, and then the    *)
(* frames up to `count` of them.  A count below zero is never reached.     *)
AsArray(items) == IF items.how = "Read" THEN Read(<<Array(items.frames)>>, items.rest)
                                        ELSE NotRead(items.how)

Behind(frames, more) == [how |-> more.how, frames |-> frames \o more.frames, rest |-> more.rest]

ReadOn(reader, count, one) ==
    IF one.how = "Read" THEN Behind(one.frames, reader[count - 1][one.rest]) ELSE one

ReadFrom(reader, count, first) ==
    CASE first.how = "Blank" -> reader[count][first.rest]
      [] first.how = "Array" -> ReadOn(reader, count, AsArray(reader[first.count][first.rest]))
      [] OTHER -> ReadOn(reader, count, first)

MoreBytes(reader, n) ==
    [count \in Int |-> [bytes \in Seq(Byte) |->
        IF count = 0 THEN Read(<<>>, bytes) ELSE ReadFrom(reader, count, DecodeFirst(bytes))]]
Reading[n \in Nat] == IF n = 0 THEN [count \in Int |-> [bytes \in Seq(Byte) |-> NotRead("Complete")]]
                               ELSE MoreBytes(Reading[n - 1], n)

(* Every call has fewer bytes left. *)
Reader == [count \in Int |-> [bytes \in Seq(Byte) |-> Reading[Len(bytes) + 1][count][bytes]]]

Decode(bytes) == Reader[-1][bytes]

-----------------------------------------------------------------------------
(* Properties *)

(* However the client's bytes are cut into chunks, the frames that parse() *)
(* has returned and the way its last call ended are those of decoding all  *)
(* the bytes at once.  A panic loses the frames of its own call only.      *)
ParsesAsWhole ==
    Idle => LET whole == Decode(SubSeq(input, 1, fed)) IN
            /\ result = whole.how
            /\ whole.frames = IF result = "Panicked" THEN returned \o output ELSE returned

(* What Frame::to_bytes writes is parsed back as the frame it was written  *)
(* from, and nothing else, whichever chunks it arrives in.                 *)
Encoded == {[frame |-> f, bytes |-> ToBytes(f)] : f \in Message}

RoundTrip ==
    Idle /\ fed = Len(input) =>
        \A e \in Encoded : e.bytes = input => returned = <<e.frame>> /\ result = "Complete"
=============================================================================
