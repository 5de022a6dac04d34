------------------------------- MODULE Frame -------------------------------
(***************************************************************************)
(* The protocol's bytes and frames.  A byte is a symbol: the ones the      *)
(* parser looks at have a name of their own, any other one is a letter,    *)
(* and BadByte stands for a byte that is not valid UTF-8.                  *)
(***************************************************************************)
EXTENDS Integers, Sequences

CONSTANTS Null,   \* Option::None
          Byte

CR == "CR"
LF == "LF"
CRLF == <<CR, LF>>
BadByte == "bad"
Digits == <<"0", "1", "2", "3", "4", "5", "6", "7", "8", "9">>
Space == {" ", CR, LF}

ASSUME ByteAssumption ==
    {CR, LF, BadByte, "+", "-", ":", "$", "*"} \cup {Digits[n] : n \in 1 .. 10} \subseteq Byte

SimpleString(text) == [type |-> "+", text |-> text]
SimpleError(text) == [type |-> "-", text |-> text]
Bulk(payload) == [type |-> "$", payload |-> payload]
Integer(int) == [type |-> ":", int |-> int]
Array(items) == [type |-> "*", items |-> items]
=============================================================================
