----------------------------- MODULE Connection -----------------------------
(***************************************************************************)
(* The connections: each is a task that reads what its client sends,       *)
(* processes the frames of every read in order and writes one reply each.  *)
(* They share the store, which is ExpiringMap here: module StoreProofs     *)
(* shows that Store implements it.                                         *)
(*                                                                         *)
(* stream[c] is all a client has sent on its connection, as the parser     *)
(* will split it; parsing fails at Malformed, and panics at Oversized, an  *)
(* array that there can be no Vec for.  How a read that ends inside a      *)
(* frame is completed later is the parser's business.  A step of a task    *)
(* runs from one await to the next.                                        *)
(***************************************************************************)
EXTENDS Command, Integers, FiniteSetsExt

CONSTANTS Client, Key, Value, Ttl, None, Panicked, Second, MaxClock, InstantMax,
          Frame,       \* the frames clients send
          Malformed, Oversized,
          Password,    \* the configured password, or None
          MaxFrames    \* bound of the model: the length of a stream

(* What the parser makes of a frame is a sequence of words. *)
ASSUME FrameAssumption ==
    \A f \in Frame \ {Malformed, Oversized} :
        Len(f) \in Nat /\ f = [i \in 1 .. Len(f) |-> f[i]]

(* The keys that commands name are keys, and None is no pending DEL. *)
ASSUME KeyAssumption ==
    /\ \A f \in Frame \ {Malformed, Oversized} :
          CommandError(f) = "none" /\ f[1] \notin {"auth", "ping", "quit"} => f[2] \in Key
    /\ None \notin [key : Key, live : BOOLEAN]

ASSUME MaxFramesAssumption == MaxFrames \in Nat

VARIABLES clock, db, del, ret,   \* the store
          shutdown,       \* the cancellation token
          stream, hung,   \* what a client has sent; whether it has hung up
          at,             \* where the task is, or why it has ended
          batch,          \* the frames of the last read that are left: their
                          \* places in the stream, and halting_error
          reply,          \* the response being written
          authenticated,
          answers         \* history: the responses written, with the place
                          \* of the frame they answer

store == <<clock, db, del, ret>>
client == <<stream, hung>>
task == <<at, batch, reply, authenticated, answers>>

Db == INSTANCE ExpiringMap

Ended == {"quit", "invalid", "malformed", "shutdown", "closed", "failed",
          "panicked", "aborted"}

NoBatch == [next |-> 1, upto |-> 0, halting |-> FALSE]

(* No connection; the store is new, or loaded from an archive. *)
ConnectionInit ==
    /\ clock = 0
    /\ db \in [Key -> [value : Value, expiration_time : {None}] \cup {None}]
    /\ del = [c \in Client |-> None]
    /\ ret = <<None, None>>
    /\ shutdown = FALSE
    /\ stream = [c \in Client |-> <<>>]
    /\ hung = [c \in Client |-> FALSE]
    /\ at = [c \in Client |-> "none"]
    /\ batch = [c \in Client |-> NoBatch]
    /\ reply = [c \in Client |-> None]
    /\ authenticated = [c \in Client |-> FALSE]
    /\ answers = [c \in Client |-> <<>>]

-----------------------------------------------------------------------------
(* The clients *)

Submit(c, frame) ==
    /\ at[c] \notin Ended \cup {"none"}
    /\ ~hung[c]
    /\ Len(stream[c]) < MaxFrames
    /\ stream' = [stream EXCEPT ![c] = Append(@, frame)]
    /\ UNCHANGED <<store, shutdown, hung, task>>

HangUp(c) ==
    /\ at[c] \notin Ended \cup {"none"}
    /\ ~hung[c]
    /\ hung' = [hung EXCEPT ![c] = TRUE]
    /\ UNCHANGED <<store, shutdown, stream, task>>

-----------------------------------------------------------------------------
(* The loop of `run`: wait for bytes or for the shutdown *)

End(c, why) == /\ at' = [at EXCEPT ![c] = why]
               /\ UNCHANGED <<batch, reply, authenticated, answers>>

(* The places in new where parsing fails, and the last of the frames that  *)
(* `parse` returns: those before the first such place.                     *)
Failures(c, new) == {i \in new : stream[c][i] = Malformed}

LastFrame_Discarded(c, new) ==
    IF Failures(c, new) = {} THEN batch[c].upto + Cardinality(new) ELSE batch[c].upto
LastFrame(c, new) ==
    IF Failures(c, new) = {} THEN batch[c].upto + Cardinality(new)
                             ELSE Min(Failures(c, new)) - 1

(* Parsing what is new comes to a panic before it fails. *)
Panics(c, new) == \E i \in new : /\ stream[c][i] = Oversized
                                  /\ \A j \in Failures(c, new) : i < j

(* A read returns some of what was sent. *)
Read(c) ==
    /\ at[c] = "select"
    /\ \E m \in batch[c].upto + 1 .. Len(stream[c]) :
          LET new == batch[c].upto + 1 .. m
          IN  /\ ~Panics(c, new)
              /\ batch' = [batch EXCEPT ![c] = [next |-> @.next, upto |-> LastFrame(c, new),
                                                 halting |-> Failures(c, new) # {}]]
    /\ at' = [at EXCEPT ![c] = "frames"]
    /\ UNCHANGED <<store, shutdown, client, reply, authenticated, answers>>

(* The panic of the parser ends the task; of this read nothing is served. *)
ReadPanics(c) ==
    /\ at[c] = "select"
    /\ \E m \in batch[c].upto + 1 .. Len(stream[c]) : Panics(c, batch[c].upto + 1 .. m)
    /\ End(c, "panicked")
    /\ UNCHANGED <<store, shutdown, client>>

(* The client has hung up: the read returns no bytes, or fails. *)
ReadNothing(c) ==
    /\ at[c] = "select"
    /\ hung[c]
    /\ End(c, "closed")
    /\ UNCHANGED <<store, shutdown, client>>

Cancelled(c) ==
    /\ at[c] = "select"
    /\ shutdown
    /\ End(c, "shutdown")
    /\ UNCHANGED <<store, shutdown, client>>

AfterBatch_KeepsReading(c) == "select"
AfterBatch(c) == IF batch[c].halting THEN "malformed" ELSE "select"

(* No frames are left: wait again, or close if parsing has failed. *)
BatchDone(c) ==
    /\ at[c] = "frames"
    /\ batch[c].next > batch[c].upto
    /\ End(c, AfterBatch(c))
    /\ UNCHANGED <<store, shutdown, client>>

-----------------------------------------------------------------------------
(* process_command *)

(* The place of the frame to process: frames are taken in order. *)
Place_LastFirst(c) == batch[c].upto + 1 - batch[c].next
Place(c) == batch[c].next

HasFrame(c) == at[c] = "frames" /\ batch[c].next <= batch[c].upto
This(c) == stream[c][Place(c)]

Respond(c, frame) == /\ reply' = [reply EXCEPT ![c] = frame]
                     /\ at' = [at EXCEPT ![c] = "send"]

IsAuthorized(c) == Password = None \/ authenticated[c]

CanExecute(c) == This(c)[1] \in {"auth", "ping", "quit"} \/ IsAuthorized(c)

(* The errors that end the connection without a reply. *)
Closing == Error \ {"UnknownCommand", "WrongArity", "WrongArgumentType"}

(* A frame that is not a command: answered, unless it is not even an array *)
(* of bulk strings.                                                        *)
NotCommand(c) ==
    /\ HasFrame(c)
    /\ CommandError(This(c)) # "none"
    /\ IF CommandError(This(c)) \in Closing
         THEN End(c, "invalid")
         ELSE /\ Respond(c, <<"SimpleError", CommandError(This(c))>>)
              /\ UNCHANGED <<batch, authenticated, answers>>
    /\ UNCHANGED <<store, shutdown, client>>

Unauthorized(c) ==
    /\ HasFrame(c)
    /\ CommandError(This(c)) = "none"
    /\ ~CanExecute(c)
    /\ Respond(c, <<"SimpleError", "NOAUTH">>)
    /\ UNCHANGED <<store, shutdown, client, batch, authenticated, answers>>

Executes(c, verb) == /\ HasFrame(c)
                     /\ CommandError(This(c)) = "none"
                     /\ CanExecute(c)
                     /\ This(c)[1] = verb

Quit(c) == /\ Executes(c, "quit")
           /\ End(c, "quit")
           /\ UNCHANGED <<store, shutdown, client>>

Ping(c) == /\ Executes(c, "ping")
           /\ Respond(c, <<"SimpleString", "PONG">>)
           /\ UNCHANGED <<store, shutdown, client, batch, authenticated, answers>>

(* A wrong password does not take an earlier right one back. *)
Auth(c) ==
    /\ Executes(c, "auth")
    /\ IF Password = None THEN Respond(c, <<"SimpleError", "no password">>)
       ELSE IF This(c)[2] = Password THEN Respond(c, <<"SimpleString", "OK">>)
       ELSE Respond(c, <<"SimpleError", "invalid password">>)
    /\ authenticated' = [authenticated EXCEPT
                            ![c] = @ \/ (Password # None /\ This(c)[2] = Password)]
    /\ UNCHANGED <<store, shutdown, client, batch, answers>>

Get(c) ==
    /\ Executes(c, "get")
    /\ Db!Get(c, This(c)[2])
    /\ Respond(c, <<"Bulk", ret'[2]>>)
    /\ UNCHANGED <<shutdown, client, batch, authenticated, answers>>

Set(c) ==
    /\ Executes(c, "set")
    /\ Db!Set(c, This(c)[2], This(c)[3])
    /\ Respond(c, <<"SimpleString", "OK">>)
    /\ UNCHANGED <<shutdown, client, batch, authenticated, answers>>

TimeToLive(c) ==
    /\ Executes(c, "ttl")
    /\ Db!TimeToLive(c, This(c)[2])
    /\ Respond(c, <<"Integer", ret'[2]>>)
    /\ UNCHANGED <<shutdown, client, batch, authenticated, answers>>

(* DEL awaits the store. *)
DelCall(c) ==
    /\ Executes(c, "del")
    /\ Db!DelCall(c, This(c)[2])
    /\ at' = [at EXCEPT ![c] = "del"]
    /\ UNCHANGED <<shutdown, client, batch, reply, authenticated, answers>>

DelReturn(c) ==
    /\ at[c] = "del"
    /\ Db!DelReturn(c)
    /\ Respond(c, <<"Integer", IF ret'[2] = None THEN 0 ELSE 1>>)
    /\ UNCHANGED <<shutdown, client, batch, authenticated, answers>>

Expire(c) ==
    /\ Executes(c, "expire")
    /\ Db!Expire(c, This(c)[2], U64[This(c)[3]])
    /\ Respond(c, <<"Integer", ret'[2]>>)
    /\ UNCHANGED <<shutdown, client, batch, authenticated, answers>>

(* The panic ends the task. *)
ExpirePanics(c) ==
    /\ Executes(c, "expire")
    /\ Db!ExpirePanics(c, This(c)[2], U64[This(c)[3]])
    /\ End(c, "panicked")
    /\ UNCHANGED <<shutdown, client>>

Execute(c) ==
    \/ NotCommand(c) \/ Unauthorized(c) \/ Quit(c) \/ Ping(c) \/ Auth(c)
    \/ Get(c) \/ Set(c) \/ TimeToLive(c) \/ DelCall(c) \/ DelReturn(c)
    \/ Expire(c) \/ ExpirePanics(c)

-----------------------------------------------------------------------------
(* send_response *)

SendResponse(c) ==
    /\ at[c] = "send"
    /\ answers' = [answers EXCEPT ![c] = Append(@, <<Place(c), reply[c]>>)]
    /\ batch' = [batch EXCEPT ![c] = [next |-> @.next + 1, upto |-> @.upto,
                                      halting |-> @.halting]]
    /\ reply' = [reply EXCEPT ![c] = None]
    /\ at' = [at EXCEPT ![c] = "frames"]
    /\ UNCHANGED <<store, shutdown, client, authenticated>>

SendFails(c) ==
    /\ at[c] = "send"
    /\ hung[c]
    /\ End(c, "failed")
    /\ UNCHANGED <<store, shutdown, client>>

(* What the task does by itself, and what needs its client to read. *)
Run(c) == Read(c) \/ ReadPanics(c) \/ ReadNothing(c) \/ Cancelled(c) \/ BatchDone(c) \/ Execute(c)
Write(c) == SendResponse(c) \/ SendFails(c)
=============================================================================
