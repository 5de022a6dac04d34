------------------------------- MODULE Archive -------------------------------
(***************************************************************************)
(* The archive file: `load` when the server starts, `save` when it stops,  *)
(* with every system call able to fail and the machine able to crash       *)
(* between any two of them.                                                *)
(*                                                                         *)
(* Contents are opaque: each save dumps a snapshot of its own, numbered,   *)
(* and Torn stands for bytes that do not restore.  What the path may hold  *)
(* after a crash is the set `disk`: a rename is durable only once the      *)
(* directory is synced, and a file's bytes only once the file is.  The     *)
(* conversion of the store to a snapshot and back is module Snapshot's.    *)
(***************************************************************************)
EXTENDS Integers

CONSTANTS MaxSaves,       \* bound of the model
          Absent, Torn,   \* no file; bytes that do not restore
          NoTemp,
          PathKind,       \* where the archive path may point
          IoErrors        \* whether system calls may fail

(* "in_dir": the path names a file in a directory that exists.             *)
(* "bare": the path is a file name only, so path.parent() is Some("").     *)
(* "no_dir": the path's directory does not exist.                          *)
ASSUME PathAssumption == PathKind \subseteq {"in_dir", "bare", "no_dir"}

ASSUME ContentsAssumption == /\ MaxSaves \in Nat
                             /\ IoErrors \in BOOLEAN
                             /\ Absent \notin Nat
                             /\ Torn \notin Nat \cup {Absent}
                             /\ NoTemp \notin [bytes : Nat \cup {Torn}, synced : BOOLEAN]

Snapshots == 0 .. MaxSaves
Contents == Snapshots \cup {Absent, Torn}
TempFile == [bytes : Snapshots \cup {Torn}, synced : BOOLEAN]

VARIABLES path,      \* the kind of the archive path
          archive,   \* what the path holds now
          disk,      \* what it may hold after a crash
          temp,      \* the temporary file that the save in progress holds
          at,        \* "down", "up", or the next step of a save
          saves,     \* the number of the last snapshot dumped
          loaded,    \* what the running server was started from
          result,    \* what the last load or save returned
          wanted     \* history: the last content known to be durable, and
                     \* the snapshots dumped since

vars == <<path, archive, disk, temp, at, saves, loaded, result, wanted>>

SaveSteps == {"create", "write", "sync", "rename", "open_dir", "sync_dir"}

Init == /\ path \in PathKind
        /\ archive \in IF path = "no_dir" THEN {Absent} ELSE {Absent, 0, Torn}
        /\ disk = {archive}
        /\ temp = NoTemp
        /\ at = "down"
        /\ saves = 0
        /\ loaded = Absent
        /\ result = "none"
        /\ wanted = {archive}

-----------------------------------------------------------------------------
(* load *)

Read == IF archive = Absent THEN {"NotFound"}
        ELSE {"Ok"} \cup (IF IoErrors THEN {"OtherError"} ELSE {})

(* ArchiveError; there is always a JSON form of the store, so InvalidStore *)
(* does not happen.                                                        *)
ArchiveErrors == {"ReadFile", "InvalidArchive", "InvalidStore", "WriteFile"}

(* Store::restore: whether it may accept the bytes.  It refuses those that *)
(* are not the JSON of a snapshot, and a snapshot with a deadline that is  *)
(* too far away when it is read (Snapshot: one the server saved itself may *)
(* be such); load does not tell the reasons apart.                         *)
Restores(bytes) == IF bytes = Torn THEN {FALSE} ELSE BOOLEAN

(* A missing file is a first run, if its directory is there. *)
FirstRun_AnyError(read) == read # "Ok"
FirstRun(read) == read = "NotFound" /\ path # "no_dir"

LoadedStore(store) == /\ at' = "up"
                      /\ loaded' = store
                      /\ result' = "Ok"

(* run_server returns the error and the process ends. *)
LoadError(error) == /\ result' = error
                    /\ UNCHANGED <<at, loaded>>

Load == /\ at = "down"
        /\ \E read \in Read, restored \in Restores(archive) :
              \/ read = "Ok" /\ restored /\ LoadedStore(archive)
              \/ read = "Ok" /\ ~restored /\ LoadError("InvalidArchive")
              \/ FirstRun(read) /\ LoadedStore(Absent)
              \/ read # "Ok" /\ ~FirstRun(read) /\ LoadError("ReadFile")
        /\ UNCHANGED <<path, archive, disk, temp, saves, wanted>>

-----------------------------------------------------------------------------
(* save *)

(* The server stops and dumps the store; serializing a snapshot held in    *)
(* memory does not fail.                                                   *)
Dump == /\ at = "up"
        /\ saves < MaxSaves
        /\ saves' = saves + 1
        /\ at' = "create"
        /\ wanted' = wanted \cup {saves + 1}
        /\ UNCHANGED <<path, archive, disk, temp, loaded, result>>

CreateTemp == /\ at = "create"
              /\ temp' = [bytes |-> Torn, synced |-> FALSE]
              /\ at' = "write"
              /\ UNCHANGED <<path, archive, disk, saves, loaded, result, wanted>>

WriteTemp == /\ at = "write"
             /\ temp' = [bytes |-> saves, synced |-> FALSE]
             /\ at' = "sync"
             /\ UNCHANGED <<path, archive, disk, saves, loaded, result, wanted>>

Synced_Skipped(file) == file
Synced(file) == [bytes |-> file.bytes, synced |-> TRUE]

SyncTemp == /\ at = "sync"
            /\ temp' = Synced(temp)
            /\ at' = "rename"
            /\ UNCHANGED <<path, archive, disk, saves, loaded, result, wanted>>

(* What a crash may leave of a file's bytes. *)
Surviving(file) == {file.bytes} \cup (IF file.synced THEN {} ELSE {Torn})

Rename == /\ at = "rename"
          /\ archive' = temp.bytes
          /\ disk' = disk \cup Surviving(temp)
          /\ temp' = NoTemp
          /\ at' = "open_dir"
          /\ UNCHANGED <<path, saves, loaded, result, wanted>>

(* Only a path with no parent at all falls back to "."; the empty parent   *)
(* of a bare file name is opened as it is, and "" cannot be opened.        *)
OpenDir == /\ at = "open_dir"
           /\ path # "bare"
           /\ at' = "sync_dir"
           /\ UNCHANGED <<path, archive, disk, temp, saves, loaded, result, wanted>>

DirSynced_Skipped == disk
DirSynced == {archive}

SyncDir == /\ at = "sync_dir"
           /\ disk' = DirSynced
           /\ at' = "down"
           /\ result' = "Ok"
           /\ wanted' = {saves}
           /\ UNCHANGED <<path, archive, temp, saves, loaded>>

TempAfterError_Kept == temp
TempAfterError == NoTemp

(* A call fails: `?` returns the error, dropping the temporary file deletes *)
(* it, and the server ends with the error.                                 *)
SaveFails == /\ at \in SaveSteps
             /\ IoErrors \/ (at = "open_dir" /\ path = "bare")
             /\ temp' = TempAfterError
             /\ at' = "down"
             /\ result' = "WriteFile"
             /\ UNCHANGED <<path, archive, disk, saves, loaded, wanted>>

(* The process ends before its work is done: what it wrote stays written.  *)
(* No destructor runs, so the temporary file stays in the directory, but   *)
(* no save holds it any more: its name is fresh and nothing opens it again. *)
Killed == /\ temp' = NoTemp
          /\ at' = "down"
          /\ UNCHANGED <<path, archive, disk, saves, loaded, result, wanted>>

(* The machine stops; it may leave a temporary file as a kill does. *)
Crash == /\ \E found \in disk : archive' = found /\ disk' = {found}
         /\ temp' = NoTemp
         /\ at' = "down"
         /\ result' = "none"
         /\ UNCHANGED <<path, saves, loaded, wanted>>

Next == \/ Load
        \/ Dump \/ CreateTemp \/ WriteTemp \/ SyncTemp \/ Rename \/ OpenDir \/ SyncDir
        \/ SaveFails
        \/ Killed \/ Crash

Spec == Init /\ [][Next]_vars

-----------------------------------------------------------------------------
(* Types; a save holds a temporary file from its creation to the rename    *)
(* and at no other time, so that a save that returns, with success or with *)
(* an error, leaves none behind (save_bytes).                              *)
TypeOK == /\ path \in PathKind
          /\ archive \in Contents
          /\ disk \subseteq Contents
          /\ temp \in IF at \in {"write", "sync", "rename"} THEN TempFile ELSE {NoTemp}
          /\ at \in {"down", "up"} \cup SaveSteps
          /\ saves \in Snapshots
          /\ loaded \in Contents
          /\ result \in {"none", "Ok"} \cup ArchiveErrors
          /\ wanted \subseteq Contents

(* Whatever fails, and whenever the machine crashes, the path holds a      *)
(* whole archive: the last one reported saved, or one that a later save    *)
(* was writing.  Bytes of an unfinished write are never seen there, and a  *)
(* save that reported success is not undone (save_bytes).                  *)
SavedArchiveKept == archive \in disk /\ disk \subseteq wanted

(* A server only comes up with what its archive is known to hold: an       *)
(* archive that cannot be read stops it, where an empty store would be     *)
(* saved over that archive at the next shutdown (load).                    *)
StartsFromArchive == at = "up" => loaded \in wanted

(* A save none of whose system calls can fail reports success; checked     *)
(* with IoErrors = FALSE, where only save_bytes itself can make it fail.   *)
SaveSucceeds == result # "WriteFile"
=============================================================================
