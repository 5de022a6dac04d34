------------------------------- MODULE Command -------------------------------
(***************************************************************************)
(* From a request frame to a command.  A frame is the sequence of the      *)
(* words of its array; a frame that is no array is the empty sequence,     *)
(* which is refused alike, and NotBulk is an element that is not a bulk    *)
(* string.  Words are opaque; a verb stands for its spellings in upper and *)
(* lower case.                                                             *)
(***************************************************************************)
EXTENDS Naturals, Sequences

CONSTANTS NotBulk,
          U64      \* [the words that read as a u64 -> their value]

(* The commands and the number of their arguments. *)
Arity == [ping |-> 0, quit |-> 0, get |-> 1, set |-> 2, del |-> 1,
          expire |-> 2, ttl |-> 1, auth |-> 1]

BulkArgs(frame) == frame # <<>> /\ \A i \in DOMAIN frame : frame[i] # NotBulk

Error == {"Io", "WrongArity", "UnknownCommand", "InvalidCommandFrame", "WrongArgumentType"}

(* Command::try_from: the error, or "none". *)
CommandError(frame) ==
    IF ~BulkArgs(frame) THEN "InvalidCommandFrame"
    ELSE IF frame[1] \notin DOMAIN Arity THEN "UnknownCommand"
    ELSE IF Len(frame) - 1 # Arity[frame[1]] THEN "WrongArity"
    ELSE IF frame[1] = "expire" /\ frame[3] \notin DOMAIN U64 THEN "WrongArgumentType"
    ELSE "none"
=============================================================================
