------------------------------- MODULE Server -------------------------------
(***************************************************************************)
(* The server: it accepts connections until the shutdown token is          *)
(* cancelled, waits for the open ones to end, aborts those that do not     *)
(* within the drain timeout, and saves the store.                          *)
(*                                                                         *)
(* The drain timeout may elapse at any moment of the drain: three seconds  *)
(* are long or short, depending on what the connections are doing.  The    *)
(* save is one step here; Archive has its steps and its failures.          *)
(***************************************************************************)
EXTENDS Connection

CONSTANTS NoArchive

VARIABLES server,   \* "accepting", "draining", "aborting", "saving", "stopped"
          open,     \* open_connections: tasks spawned and not joined
          archive   \* what was saved

vars == <<store, shutdown, client, task, server, open, archive>>

Init == /\ ConnectionInit
        /\ server = "accepting"
        /\ open = {}
        /\ archive = NoArchive

-----------------------------------------------------------------------------
(* The accept loop *)

(* main has received a signal. *)
Shutdown == /\ ~shutdown
            /\ shutdown' = TRUE
            /\ UNCHANGED <<store, client, task, server, open, archive>>

NewConnection_KeepsLogin(c) == authenticated[c]
NewConnection(c) == FALSE

(* A client connects, perhaps not for the first time.  The select may      *)
(* still take it after the token was cancelled.                            *)
Accept(c) ==
    /\ server = "accepting"
    /\ c \notin open
    /\ open' = open \cup {c}
    /\ at' = [at EXCEPT ![c] = "select"]
    /\ stream' = [stream EXCEPT ![c] = <<>>]
    /\ hung' = [hung EXCEPT ![c] = FALSE]
    /\ batch' = [batch EXCEPT ![c] = NoBatch]
    /\ reply' = [reply EXCEPT ![c] = None]
    /\ authenticated' = [authenticated EXCEPT ![c] = NewConnection(c)]
    /\ answers' = [answers EXCEPT ![c] = <<>>]
    /\ UNCHANGED <<store, shutdown, server, archive>>

Join(c) ==
    /\ server \in {"accepting", "draining", "aborting"}
    /\ c \in open
    /\ at[c] \in Ended
    /\ open' = open \ {c}
    /\ UNCHANGED <<store, shutdown, client, task, server, archive>>

StopAccepting ==
    /\ server = "accepting"
    /\ shutdown
    /\ server' = "draining"
    /\ UNCHANGED <<store, shutdown, client, task, open, archive>>

-----------------------------------------------------------------------------
(* Drain, abort, save *)

TimesOut_Never == FALSE
TimesOut == server = "draining" /\ open # {}

DrainTimeout == /\ TimesOut
                /\ server' = "aborting"
                /\ UNCHANGED <<store, shutdown, client, task, open, archive>>

(* A task ends at the await it was in, or at the next one it comes to. *)
Aborted(c) ==
    /\ server = "aborting"
    /\ c \in open
    /\ at[c] \notin Ended
    /\ IF at[c] = "del" THEN Db!DelAbort(c) ELSE UNCHANGED store
    /\ End(c, "aborted")
    /\ UNCHANGED <<shutdown, client, server, open, archive>>

AllJoined_AbortedNotAwaited == server = "draining" => open = {}
AllJoined == open = {}

Drained ==
    /\ server \in {"draining", "aborting"}
    /\ AllJoined
    /\ server' = "saving"
    /\ UNCHANGED <<store, shutdown, client, task, open, archive>>

Save == /\ server = "saving"
        /\ server' = "stopped"
        /\ archive' = db
        /\ UNCHANGED <<store, shutdown, client, task, open>>

Tick == /\ server # "stopped"
        /\ Db!Tick
        /\ UNCHANGED <<shutdown, client, task, server, open, archive>>

-----------------------------------------------------------------------------
Connections(c) == /\ Run(c) \/ Write(c) \/ HangUp(c) \/ \E f \in Frame : Submit(c, f)
                  /\ UNCHANGED <<server, open, archive>>

Next == \/ Shutdown \/ StopAccepting \/ DrainTimeout \/ Drained \/ Save \/ Tick
        \/ \E c \in Client : Accept(c) \/ Join(c) \/ Aborted(c) \/ Connections(c)

Spec == Init /\ [][Next]_vars

(* The runtime polls the server and ends aborted tasks, and timeouts       *)
(* elapse.  Connections are not assumed to make progress: a client that    *)
(* does not read its replies blocks send_response for ever.                *)
Fairness == /\ WF_vars(StopAccepting) /\ WF_vars(DrainTimeout)
            /\ WF_vars(Drained) /\ WF_vars(Save)
            /\ \A c \in Client : WF_vars(Join(c)) /\ WF_vars(Aborted(c))

FairSpec == Spec /\ Fairness

-----------------------------------------------------------------------------
(* Every variable keeps its type; a task waits for bytes only when every   *)
(* frame it has read is dealt with and parsing has not failed.             *)
TypeOK ==
    /\ shutdown \in BOOLEAN
    /\ \A c \in Client : /\ Len(stream[c]) <= MaxFrames
                         /\ batch[c].next - 1 <= batch[c].upto
                         /\ batch[c].upto <= Len(stream[c])
    /\ at \in [Client -> Ended \cup {"none", "select", "frames", "del", "send"}]
    /\ authenticated \in [Client -> BOOLEAN]
    /\ \A c \in Client : /\ del[c] # None <=> at[c] = "del"
                         /\ at[c] = "select" => /\ batch[c].next = batch[c].upto + 1
                                                /\ ~batch[c].halting
    /\ server \in {"accepting", "draining", "aborting", "saving", "stopped"}
    /\ open \subseteq Client

(* What is saved is the store as the last client left it: nothing that a   *)
(* client was answered before the server stopped is missing, for no        *)
(* connection, aborted ones included, still runs when the store is dumped. *)
ArchiveIsFinal == archive # NoArchive => archive = db

(* "Commands are processed sequentially per connection": the replies of a  *)
(* connection answer its frames one by one, with none left out, however    *)
(* the frames are spread over reads.                                       *)
AnsweredInOrder ==
    \A c \in Client : \A i \in DOMAIN answers[c] : answers[c][i][1] = i

(* "Any frames completed before the error are still processed, then the    *)
(* connection is closed", for the errors that parse() returns; and the     *)
(* shutdown cuts no batch of frames that was read.                         *)
CompletedFramesServed ==
    \A c \in Client :
        /\ at[c] = "malformed" => /\ Len(answers[c]) < Len(stream[c])
                                  /\ stream[c][Len(answers[c]) + 1] = Malformed
        /\ at[c] = "shutdown" => Len(answers[c]) = batch[c].upto

(* The same claim for an array announced longer than a Vec can be: when    *)
(* the parser fails on it, every frame before it has been answered.        *)
(* parse() panics there with the frames of its read in hand.               *)
FramesBeforePanicServed ==
    [][\A c \in Client : at[c] = "select" /\ at'[c] = "panicked" =>
            stream[c][Len(answers[c]) + 1] = Oversized]_vars

DataCommands == {"get", "set", "del", "expire", "ttl"}

(* "Authentication is scoped to the current TCP connection": a data        *)
(* command is answered with data only if the right password was given      *)
(* before it on the same connection.                                       *)
AuthScoped ==
    Password # None =>
        \A c \in Client : \A i \in DOMAIN answers[c] :
            LET place == answers[c][i][1] IN
            stream[c][place][1] \in DataCommands /\ answers[c][i][2][1] # "SimpleError"
            => \E j \in 1 .. place - 1 : stream[c][j] = <<"auth", Password>>

(* The server stops after a shutdown, whatever its clients do. *)
ShutdownCompletes == shutdown ~> server = "stopped"
=============================================================================
