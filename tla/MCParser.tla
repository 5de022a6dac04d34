------------------------------ MODULE MCParser ------------------------------
(* Parser for TLC: what clients send is any short byte string, any short   *)
(* run of tokens, and the encoding of any message of a few frames.         *)
EXTENDS Wire, ParserRefinement, SequencesExt

Symbol == {"+", "-", ":", "$", "*", CR, LF, " ", "x", BadByte} \cup {Digits[n] : n \in 1 .. 10}

Bytes == {"+", "-", ":", "$", "*", CR, LF, " ", "1", "x", BadByte}

(* Whole lines and pieces that mean something next to one another. *)
Token == {<<"*", "1">> \o CRLF, <<"*", "2">> \o CRLF, <<"*", "+", "0">> \o CRLF,
          <<"*", "-", "2">> \o CRLF, <<"*", "9">> \o CRLF,
          <<"$", "1">> \o CRLF, <<"$", "-", "1">> \o CRLF, <<"$", "2", "2">> \o CRLF,
          <<":", "-", "1", "9">> \o CRLF, <<"x">> \o CRLF, <<"+", "x">> \o CRLF,
          <<"-", BadByte>> \o CRLF, <<" ">> \o CRLF}

Bulks == {<<>>, <<"x">>, CRLF}

Flat == {Bulk(p) : p \in Bulks \cup {Null}} \cup {Integer(-12), SimpleString(<<"x">>), Array(Null)}
Nested == {Array(<<>>)} \cup {Array(<<f>>) : f \in Flat} \cup {Array(<<f, g>>) : f, g \in Flat}
Tree == Flat \cup Nested \cup {Array(<<SimpleError(<<>>), f>>) : f \in Nested}
             \cup {Array(<<f, Integer(21)>>) : f \in Nested}

Sent == BoundedSeq(Bytes, 3)
          \cup {FlattenSeq(t) : t \in BoundedSeq(Token, 3)}
          \cup {e.bytes : e \in Encoded}
=============================================================================
