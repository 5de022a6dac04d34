------------------------------- MODULE Process -------------------------------
(***************************************************************************)
(* The process, over any number of restarts: main reads its configuration, *)
(* binds the listener, loads the archive, spawns the server task, installs *)
(* the signal handlers and waits.  A signal makes it cancel the shutdown   *)
(* token and wait for the server, which drains its connections and saves.  *)
(* A signal that has no handler yet, or SIGKILL, ends the process at once; *)
(* the machine may crash.                                                  *)
(*                                                                         *)
(* The store is the set of writes it holds, each acknowledged to a client. *)
(* The drain is one step, but clients write until it ends: module Server   *)
(* has its details, and shows that nothing is written after it.  Every     *)
(* process is given the same archive path, or none.                        *)
(***************************************************************************)
EXTENDS Archive

CONSTANTS Unset,       \* a setting that is not given; Option::None
          Setting,     \* the settings a command line or an environment gives
          MaxWrites    \* bound of the model

VARIABLES main,      \* where main is, "off" when there is no process
          config,    \* its configuration
          server,    \* the server task
          handled,   \* the signals that have a handler
          pending,   \* the signals caught and not yet received by main
          store,     \* the writes in the store
          writes,    \* the number of writes so far
          content,   \* [Snapshots -> the writes a snapshot was dumped with]
          exit,      \* how the last process ended: "0", or its error
          kept       \* history: the store of the last process that was given
                     \* the archive path and exited with success

signals == <<handled, pending>>
process == <<main, config, server, signals, store, writes, content, exit, kept>>
processVars == <<vars, process>>

Default == [address |-> "127.0.0.1", port |-> 6379, archive_path |-> Unset, auth_password |-> Unset]

ProcessInit == /\ Init
               /\ main = "off"
               /\ config = Default
               /\ server = "none"
               /\ handled = {}
               /\ pending = {}
               /\ store = {}
               /\ writes = 0
               /\ content = [n \in Snapshots |-> {}]
               /\ exit = "none"
               /\ kept = {}

-----------------------------------------------------------------------------
(* Configuration *)

(* The command line first, then the environment, then the default. *)
Given(cli, env) == [option \in DOMAIN Default |->
                        IF cli[option] # Unset THEN cli[option]
                        ELSE IF env[option] # Unset THEN env[option]
                        ELSE Default[option]]

Valid(settings) == settings.port \in 1024 .. 65535 /\ settings.address # "malformed"

Persistent == config.archive_path # Unset

-----------------------------------------------------------------------------
(* main, up to the point at which it waits for a signal *)

(* From<ArchiveError> and From<io::Error> for ServerError. *)
ServerError(error) == IF error \in ArchiveErrors THEN "Archive" ELSE "Io"

(* The process is gone, and with it the server task and the store. *)
Exits(how) == /\ main' = "off"
              /\ exit' = how
              /\ server' = "none"
              /\ handled' = {}
              /\ pending' = {}
              /\ store' = {}
              /\ UNCHANGED <<config, writes, content>>

(* get_config; clap ends the process itself when a setting is not valid. *)
Configure == /\ main = "off"
             /\ saves < MaxSaves
             /\ \E cli, env \in Setting :
                   /\ config' = Given(cli, env)
                   /\ main' = IF Valid(config') THEN "bind" ELSE "off"
                   /\ exit' = IF Valid(config') THEN "none" ELSE "usage"
             /\ UNCHANGED <<vars, server, signals, store, writes, content, kept>>

Bind == /\ main = "bind"
        /\ main' = "load"
        /\ UNCHANGED <<vars, config, server, signals, store, writes, content, exit, kept>>

BindFails == /\ main = "bind"
             /\ Exits(ServerError("bind"))
             /\ UNCHANGED <<vars, kept>>

Holds(bytes) == IF bytes \in Snapshots THEN content[bytes] ELSE {}

(* The listener is bound and the store is ready: spawn the server. *)
Serves(initial) == /\ main' = "spawned"
                   /\ server' = "serving"
                   /\ store' = initial
                   /\ UNCHANGED <<config, signals, writes, content, exit>>

LoadArchive == /\ main = "load"
               /\ Persistent
               /\ Load
               /\ \/ at' = "up" /\ Serves(Holds(loaded'))
                  \/ at' = "down" /\ Exits(ServerError(result'))
               /\ UNCHANGED kept

StartEmpty == /\ main = "load"
              /\ ~Persistent
              /\ Serves({})
              /\ UNCHANGED <<vars, kept>>

Waits(where) == /\ main' = where
                /\ UNCHANGED <<vars, config, server, pending, store, writes, content, exit, kept>>

(* wait_for_shutdown_signal: the handler of SIGTERM, then that of SIGINT,  *)
(* which ctrl_c() installs when the select first polls it.                 *)
Handle(signal, from, to) == /\ main = from
                            /\ handled' = handled \cup {signal}
                            /\ Waits(to)

HandleTerm == Handle("TERM", "spawned", "term")
HandleInt == Handle("INT", "term", "waiting")

(* An error of the first is main's error; one of the second ends the wait  *)
(* as a signal does.                                                       *)
HandleTermFails == /\ main = "spawned"
                   /\ Killed
                   /\ Exits("sigaction")
                   /\ UNCHANGED kept

HandleIntFails == main = "term" /\ Waits("joining") /\ UNCHANGED handled

-----------------------------------------------------------------------------
(* Signals *)

(* A handler, once installed, stays; SIGINT may never come to have one. *)
Caught(signal) == signal \in handled

Signal(signal) == /\ main # "off"
                  /\ \/ /\ Caught(signal)
                        /\ pending' = pending \cup {signal}
                        /\ UNCHANGED <<vars, main, config, server, handled, store, writes, content, exit>>
                     \/ /\ ~Caught(signal)
                        /\ Killed
                        /\ Exits("signal")
                  /\ UNCHANGED kept

Received_Both == pending = {"INT", "TERM"}
Received == pending # {}

(* Either signal ends the wait, a SIGTERM even before ctrl_c() was polled; *)
(* main cancels the token and awaits the server.                           *)
ReceiveSignal == /\ main \in {"term", "waiting"}
                 /\ Received
                 /\ Waits("joining")
                 /\ UNCHANGED handled

-----------------------------------------------------------------------------
(* The server task *)

Write == /\ server \in {"serving", "draining"}
         /\ writes < MaxWrites
         /\ writes' = writes + 1
         /\ store' = store \cup {writes + 1}
         /\ UNCHANGED <<vars, main, config, server, signals, content, exit, kept>>

StopAccepting == /\ server = "serving"
                 /\ main = "joining"
                 /\ server' = "draining"
                 /\ UNCHANGED <<vars, main, config, signals, store, writes, content, exit, kept>>

(* The connections have ended: save the store, if there is an archive. *)
Drained == /\ server = "draining"
           /\ \/ /\ Persistent
                 /\ Dump
                 /\ content' = [content EXCEPT ![saves'] = store]
                 /\ server' = "saving"
              \/ /\ ~Persistent
                 /\ server' = "done"
                 /\ UNCHANGED <<vars, content>>
           /\ UNCHANGED <<main, config, signals, store, writes, exit, kept>>

Save == /\ server = "saving"
        /\ \/ CreateTemp \/ WriteTemp \/ SyncTemp \/ Rename \/ OpenDir \/ SyncDir
           \/ SaveFails
        /\ server' = IF at' = "down" THEN "done" ELSE "saving"
        /\ UNCHANGED <<main, config, signals, store, writes, content, exit, kept>>

(* The server task returned Ok. *)
Succeeded_Ignored == TRUE
Succeeded == Persistent => result = "Ok"

(* `handle.await??`: the error of the server is that of main. *)
Join == /\ main = "joining"
        /\ server = "done"
        /\ Exits(IF Succeeded THEN "0" ELSE ServerError(result))
        /\ kept' = IF Succeeded /\ Persistent THEN store ELSE kept
        /\ UNCHANGED vars

-----------------------------------------------------------------------------
(* SIGKILL; the machine crashing, with or without a process. *)
Kill == /\ main # "off"
        /\ Killed
        /\ Exits("killed")
        /\ UNCHANGED kept

PowerLoss == /\ Crash
             /\ Exits("none")
             /\ UNCHANGED kept

Main == \/ Bind \/ BindFails \/ LoadArchive \/ StartEmpty
        \/ HandleTerm \/ HandleTermFails \/ HandleInt \/ HandleIntFails
        \/ ReceiveSignal \/ Join
Server == StopAccepting \/ Drained \/ Save

ProcessNext == \/ Configure \/ Main \/ Server \/ Write
               \/ \E signal \in {"INT", "TERM"} : Signal(signal)
               \/ Kill \/ PowerLoss

ProcessSpec == ProcessInit /\ [][ProcessNext]_processVars

(* The runtime polls main and the server; the drain ends (Server), and     *)
(* system calls return.                                                    *)
ProcessFairSpec == ProcessSpec /\ WF_processVars(Main) /\ WF_processVars(Server)

-----------------------------------------------------------------------------
(* A process that exits with success has saved every write it had          *)
(* acknowledged: from then on each of them is in whatever archive a crash  *)
(* may leave, and in the store of every server that is given the archive   *)
(* (main, server_from_listener, save, load).                               *)
CleanExitKeepsWrites == /\ \A found \in disk : kept \subseteq Holds(found)
                        /\ server # "none" /\ Persistent => kept \subseteq store

(* A caught signal ends the process. *)
SignalEnds == pending # {} ~> main = "off"

(* "Graceful shutdown currently includes terminal Ctrl-C (SIGINT) and Unix *)
(* SIGTERM": neither of them loses what a server with an archive has       *)
(* acknowledged.                                                           *)
SignalsAreGraceful ==
    [][main # "off" /\ exit' = "signal" /\ Persistent => store \subseteq Holds(archive)]_processVars
=============================================================================
