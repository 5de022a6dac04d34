--------------------------- MODULE ProcessProofs -----------------------------
(***************************************************************************)
(* The archive's invariants; that the process uses the archive as module   *)
(* Archive has it, so that what is proved of archives holds of it; and     *)
(* CleanExitKeepsWrites, proved for any number of restarts, saves and      *)
(* writes.                                                                 *)
(*                                                                         *)
(* The inductive invariant says what every archive the path may come to    *)
(* hold contains (wanted, not only disk: a save in progress may replace    *)
(* what is there), and follows the store through the server task: nothing  *)
(* is written after the dump, and success means that only that dump is     *)
(* left to be found.                                                       *)
(***************************************************************************)
EXTENDS Process, TLAPS

SaveInv == /\ at \in SaveSteps => saves \in wanted
           /\ at \in {"sync", "rename"} => temp.bytes = saves
           /\ at = "rename" => temp.synced
           /\ at \in {"open_dir", "sync_dir"} => archive = saves

IInv == TypeOK /\ SaveInv /\ SavedArchiveKept /\ StartsFromArchive

(* The initial archive is whole, or not one. *)
LEMMA InitIInv == Init => IInv
BY PathAssumption, ContentsAssumption
DEF Init, IInv, TypeOK, SaveInv, SavedArchiveKept, StartsFromArchive,
    Contents, Snapshots, SaveSteps, ArchiveErrors

(* Types are kept by every step. *)
LEMMA NextType == TypeOK /\ [Next]_vars => TypeOK'
<1> SUFFICES ASSUME TypeOK, [Next]_vars PROVE TypeOK'
  OBVIOUS
<1> USE ContentsAssumption DEF TypeOK, Contents, Snapshots, TempFile, SaveSteps, ArchiveErrors
<1>1. CASE Load
  BY <1>1, Zenon DEF Load, LoadedStore, LoadError
<1>2. CASE Dump
  BY <1>2 DEF Dump
<1>3. CASE CreateTemp
  BY <1>3, Zenon DEF CreateTemp
<1>4. CASE WriteTemp
  BY <1>4, Zenon DEF WriteTemp
<1>5. CASE SyncTemp
  BY <1>5, Zenon DEF SyncTemp, Synced
<1>6. CASE Rename
  BY <1>6, Zenon DEF Rename, Surviving
<1>7. CASE OpenDir
  BY <1>7, Zenon DEF OpenDir
<1>8. CASE SyncDir
  BY <1>8, Zenon DEF SyncDir, DirSynced
<1>9. CASE SaveFails
  BY <1>9, Zenon DEF SaveFails, TempAfterError
<1>10. CASE Killed \/ Crash
  BY <1>10, Zenon DEF Killed, Crash
<1>11. CASE UNCHANGED vars
  BY <1>11, Zenon DEF vars
<1> QED
  BY <1>1, <1>2, <1>3, <1>4, <1>5, <1>6, <1>7, <1>8, <1>9, <1>10, <1>11, Zenon DEF Next

(* A save in progress keeps to its steps, and nothing else disturbs one. *)
LEMMA NextSave == IInv /\ [Next]_vars => SaveInv'
<1> SUFFICES ASSUME IInv, [Next]_vars PROVE SaveInv'
  OBVIOUS
<1> USE DEF SaveInv, SaveSteps
<1>1. CASE Load
  BY <1>1, Zenon DEF Load, LoadedStore, LoadError, IInv, TypeOK
<1>2. CASE Dump
  BY <1>2, Zenon DEF Dump
<1>3. CASE CreateTemp
  BY <1>3, Zenon DEF CreateTemp, IInv
<1>4. CASE WriteTemp
  BY <1>4, Zenon DEF WriteTemp, IInv
<1>5. CASE SyncTemp
  BY <1>5, Zenon DEF SyncTemp, Synced, IInv
<1>6. CASE Rename
  BY <1>6, Zenon DEF Rename, IInv
<1>7. CASE OpenDir
  BY <1>7, Zenon DEF OpenDir, IInv
<1>8. CASE SyncDir
  BY <1>8, Zenon DEF SyncDir
<1>9. CASE SaveFails
  BY <1>9, Zenon DEF SaveFails
<1>10. CASE Killed \/ Crash
  BY <1>10, Zenon DEF Killed, Crash
<1>11. CASE UNCHANGED vars
  BY <1>11, Zenon DEF vars, IInv
<1> QED
  BY <1>1, <1>2, <1>3, <1>4, <1>5, <1>6, <1>7, <1>8, <1>9, <1>10, <1>11, Zenon DEF Next

(* The rename adds nothing but the synced snapshot to what a crash may     *)
(* bring back, and success is reported only when nothing else is left.     *)
LEMMA NextKept == IInv /\ [Next]_vars => SavedArchiveKept'
<1> SUFFICES ASSUME IInv, [Next]_vars PROVE SavedArchiveKept'
  OBVIOUS
<1> USE DEF IInv, SavedArchiveKept
<1>1. CASE Load
  BY <1>1, Zenon DEF Load
<1>2. CASE Dump
  BY <1>2, Zenon DEF Dump
<1>3. CASE CreateTemp \/ WriteTemp \/ SyncTemp \/ OpenDir \/ SaveFails \/ Killed
  BY <1>3, Zenon DEF CreateTemp, WriteTemp, SyncTemp, OpenDir, SaveFails, Killed
<1>4. CASE Rename
  BY <1>4, Zenon DEF Rename, Surviving, SaveInv, SaveSteps
<1>5. CASE SyncDir
  BY <1>5, Zenon DEF SyncDir, DirSynced, SaveInv
<1>6. CASE Crash
  BY <1>6, Zenon DEF Crash
<1>7. CASE UNCHANGED vars
  BY <1>7, Zenon DEF vars
<1> QED
  BY <1>1, <1>2, <1>3, <1>4, <1>5, <1>6, <1>7, Zenon DEF Next

(* A load that brings the server up gives it what the path holds. *)
LEMMA NextStarts == IInv /\ [Next]_vars => StartsFromArchive'
<1> SUFFICES ASSUME IInv, [Next]_vars PROVE StartsFromArchive'
  OBVIOUS
<1> USE DEF IInv, StartsFromArchive
<1>1. CASE Load
  <2>1. PICK read \in Read, restored \in Restores(archive) :
          \/ read = "Ok" /\ restored /\ LoadedStore(archive)
          \/ read = "Ok" /\ ~restored /\ LoadError("InvalidArchive")
          \/ FirstRun(read) /\ LoadedStore(Absent)
          \/ read # "Ok" /\ ~FirstRun(read) /\ LoadError("ReadFile")
    BY <1>1, Zenon DEF Load
  <2>2. archive \in wanted /\ wanted' = wanted /\ at = "down"
    BY <1>1, Zenon DEF Load, SavedArchiveKept
  <2>3. FirstRun(read) => archive = Absent
    BY <2>1, Zenon DEF FirstRun, Read
  <2> QED
    BY <2>1, <2>2, <2>3, Zenon DEF LoadedStore, LoadError
<1>2. CASE Dump \/ CreateTemp \/ WriteTemp \/ SyncTemp \/ Rename \/ OpenDir
  BY <1>2, Zenon DEF Dump, CreateTemp, WriteTemp, SyncTemp, Rename, OpenDir
<1>3. CASE SyncDir \/ SaveFails \/ Killed \/ Crash
  BY <1>3, Zenon DEF SyncDir, SaveFails, Killed, Crash
<1>4. CASE UNCHANGED vars
  BY <1>4, Zenon DEF vars
<1> QED
  BY <1>1, <1>2, <1>3, <1>4, Zenon DEF Next

(* Saves, loads, failures, kills and crashes all keep the invariant. *)
LEMMA ArchiveInvariant == Spec => []IInv
<1>1. IInv /\ [Next]_vars => IInv'
  BY NextType, NextSave, NextKept, NextStarts, Zenon DEF IInv
<1> QED
  BY InitIInv, <1>1, PTL DEF Spec

(* Every variable keeps its type: in particular a save that returns, with  *)
(* success or with an error, leaves no temporary file (save_bytes, and the *)
(* drop of NamedTempFile).                                                 *)
THEOREM ArchiveTypes == Spec => []TypeOK
<1>1. IInv => TypeOK
  BY Zenon DEF IInv
<1> QED
  BY ArchiveInvariant, <1>1, PTL

(* For any number of saves, with any system call failing and the process   *)
(* killed or the machine crashing at any time: the path holds the last     *)
(* archive reported saved, or a whole one of a later save (save_bytes).    *)
THEOREM ArchiveSafe == Spec => []SavedArchiveKept
<1>1. IInv => SavedArchiveKept
  BY Zenon DEF IInv
<1> QED
  BY ArchiveInvariant, <1>1, PTL

(* A server only comes up with such an archive (load). *)
THEOREM StartsSafe == Spec => []StartsFromArchive
<1>1. IInv => StartsFromArchive
  BY Zenon DEF IInv
<1> QED
  BY ArchiveInvariant, <1>1, PTL

-----------------------------------------------------------------------------
(* The process *)

Serving == {"serving", "draining", "saving", "done"}

ProcessType ==
    /\ server \in Serving \cup {"none"}
    /\ content \in [Snapshots -> SUBSET Nat]
    /\ store \subseteq Nat /\ writes \in Nat

(* The server task and the archive's save are at the same point. *)
InStep ==
    /\ server = "none" => at = "down"
    /\ server # "none" <=> main \in {"spawned", "term", "waiting", "joining"}
    /\ server \in {"serving", "draining"} => at = IF Persistent THEN "up" ELSE "down"
    /\ server = "saving" => Persistent /\ at \in SaveSteps
    /\ server = "done" => at = "down"

(* What was acknowledged before the last clean exit is in every archive,   *)
(* and in the store that was loaded from one.                              *)
WritesKept ==
    /\ \A found \in wanted : kept \subseteq Holds(found)
    /\ server # "none" /\ Persistent => kept \subseteq store

(* The store is as it was dumped until main has joined the server. *)
DumpFinal ==
    server \in {"saving", "done"} /\ Persistent =>
        /\ content[saves] = store
        /\ server = "done" /\ result = "Ok" => wanted = {saves}

PInv == IInv /\ ProcessType /\ InStep /\ WritesKept /\ DumpFinal

-----------------------------------------------------------------------------
(* The archive is only touched by the steps of module Archive. *)
LEMMA ArchiveStep == [ProcessNext]_processVars => [Next]_vars
<1> SUFFICES ASSUME [ProcessNext]_processVars PROVE [Next]_vars
  OBVIOUS
<1>1. CASE Configure \/ Bind \/ BindFails \/ StartEmpty \/ Write \/ StopAccepting \/ Join
  BY <1>1, Zenon DEF Configure, Bind, BindFails, StartEmpty, Write, StopAccepting, Join
<1>2. CASE LoadArchive
  BY <1>2, Zenon DEF LoadArchive, Next
<1>3. CASE HandleTerm \/ HandleInt \/ HandleIntFails \/ ReceiveSignal
  BY <1>3, Zenon DEF HandleTerm, HandleInt, Handle, HandleIntFails, ReceiveSignal, Waits
<1>4. CASE HandleTermFails \/ Kill \/ PowerLoss
  BY <1>4, Zenon DEF HandleTermFails, Kill, PowerLoss, Next
<1>5. ASSUME NEW signal \in {"INT", "TERM"}, Signal(signal) PROVE [Next]_vars
  BY <1>5, Zenon DEF Signal, Next
<1>6. CASE Drained
  BY <1>6, Zenon DEF Drained, Next
<1>7. CASE Save
  BY <1>7, Zenon DEF Save, Next
<1>8. CASE UNCHANGED processVars
  BY <1>8, Zenon DEF processVars
<1> QED
  BY <1>1, <1>2, <1>3, <1>4, <1>5, <1>6, <1>7, <1>8, Zenon DEF ProcessNext, Main, Server

(* A process, however often it is restarted, uses its archive as Archive   *)
(* describes.                                                              *)
THEOREM ImplementsArchive == ProcessSpec => Spec
<1>1. ProcessInit => Init
  BY Zenon DEF ProcessInit
<1> QED
  BY <1>1, ArchiveStep, PTL DEF ProcessSpec, Spec

-----------------------------------------------------------------------------
(* What save_bytes() and load() promise of the archive survives the life   *)
(* of the process around them: starts, failed starts, signals, kills.      *)
THEOREM ProcessKeepsArchive ==
    ProcessSpec => [](TypeOK /\ SavedArchiveKept /\ StartsFromArchive)
BY ImplementsArchive, ArchiveTypes, ArchiveSafe, StartsSafe, PTL

(* PInv holds before the first start: nothing is kept yet. *)
LEMMA ProcessInitPInv == ProcessInit => PInv
<1> SUFFICES ASSUME ProcessInit PROVE PInv
  OBVIOUS
<1>1. IInv
  BY InitIInv, Zenon DEF ProcessInit
<1>2. \A found : Holds(found) = {}
  BY Zenon DEF ProcessInit, Holds
<1> QED
  BY <1>1, <1>2, Zenon
  DEF ProcessInit, PInv, ProcessType, InStep, WritesKept, DumpFinal, Init

(* The archive's invariant survives every step of the process. *)
LEMMA NextIInv == IInv /\ [ProcessNext]_processVars => IInv'
BY ArchiveStep, NextType, NextSave, NextKept, NextStarts, Zenon DEF IInv

(* A process that ends leaves the archive and what was kept alone. *)
LEMMA ExitsPInv ==
    ASSUME PInv, IInv', NEW how, Exits(how), at' = "down",
           UNCHANGED <<wanted, kept>>
    PROVE  PInv'
<1>1. \A found : Holds(found)' = Holds(found)
  BY Zenon DEF Exits, Holds
<1> QED
  BY <1>1, Zenon DEF PInv, Exits, ProcessType, InStep, WritesKept, DumpFinal

(* Steps of main that touch neither the archive nor the store. *)
LEMMA MainPInv ==
    ASSUME PInv, IInv',
           UNCHANGED <<vars, server, store, writes, content, kept>>,
           server # "none" => config' = config,
           server # "none" <=> main' \in {"spawned", "term", "waiting", "joining"}
    PROVE  PInv'
<1>1. \A found : Holds(found)' = Holds(found)
  BY Zenon DEF Holds
<1> QED
  BY <1>1, Zenon DEF PInv, ProcessType, InStep, WritesKept, DumpFinal, vars, Persistent, Serving

(* The inductive step: every step of the process keeps PInv. *)
LEMMA NextPInv == PInv /\ [ProcessNext]_processVars => PInv'
<1> SUFFICES ASSUME PInv, [ProcessNext]_processVars PROVE PInv'
  OBVIOUS
<1>0. IInv'
  BY NextIInv, Zenon DEF PInv
<1>1. CASE Configure
  BY <1>0, <1>1, MainPInv, Zenon DEF Configure, PInv, InStep
<1>2. CASE Bind
  BY <1>0, <1>2, MainPInv, Zenon DEF Bind, PInv, InStep
<1>3. CASE BindFails
  BY <1>0, <1>3, ExitsPInv, Zenon DEF BindFails, PInv, InStep, vars
<1>4. CASE HandleTerm \/ HandleInt \/ HandleIntFails \/ ReceiveSignal
  BY <1>0, <1>4, MainPInv, Zenon
  DEF HandleTerm, HandleInt, Handle, HandleIntFails, ReceiveSignal, Waits, PInv, InStep
<1>5. CASE HandleTermFails \/ Kill
  BY <1>0, <1>5, ExitsPInv, Zenon DEF HandleTermFails, Kill, Killed
<1>6. CASE PowerLoss
  BY <1>0, <1>6, ExitsPInv, Zenon DEF PowerLoss, Crash
<1>7. ASSUME NEW signal \in {"INT", "TERM"}, Signal(signal) PROVE PInv'
  <2>1. CASE Caught(signal)
    BY <1>0, <1>7, <2>1, MainPInv, Zenon DEF Signal, PInv, InStep
  <2>2. CASE ~Caught(signal)
    BY <1>0, <1>7, <2>2, ExitsPInv, Zenon DEF Signal, Killed
  <2> QED
    BY <2>1, <2>2, Zenon
<1>8. CASE UNCHANGED processVars
  BY <1>0, <1>8, MainPInv, Zenon DEF processVars, process, PInv, InStep
<1>9. CASE StopAccepting
  <2>1. \A found : Holds(found)' = Holds(found)
    BY <1>9, Zenon DEF StopAccepting, Holds
  <2> QED
    BY <1>0, <1>9, <2>1, Zenon
    DEF StopAccepting, PInv, ProcessType, InStep, WritesKept, DumpFinal, vars, Persistent, Serving
<1>10. CASE Write
  <2>1. \A found : Holds(found)' = Holds(found)
    BY <1>10, Zenon DEF Write, Holds
  <2> QED
    BY <1>0, <1>10, <2>1
    DEF Write, PInv, ProcessType, InStep, WritesKept, DumpFinal, vars, Persistent
<1>11. CASE StartEmpty
  <2>1. \A found : Holds(found)' = Holds(found)
    BY <1>11, Zenon DEF StartEmpty, Serves, Holds
  <2> QED
    BY <1>0, <1>11, <2>1, Zenon
    DEF StartEmpty, Serves, PInv, ProcessType, InStep, WritesKept, DumpFinal, vars,
        Persistent, Serving
<1>12. CASE LoadArchive
  <2>1. \A found : Holds(found)' = Holds(found)
    BY <1>12, Zenon DEF LoadArchive, Serves, Exits, Holds
  <2>2. UNCHANGED <<wanted, kept, saves>>
    BY <1>12, Zenon DEF LoadArchive, Load
  <2>3. CASE at' = "down"
    BY <1>0, <1>12, <2>2, <2>3, ExitsPInv, Zenon DEF LoadArchive
  <2>4. CASE at' = "up"
    <3>1. Serves(Holds(loaded'))
      BY <1>12, <2>4, Zenon DEF LoadArchive
    <3>2. loaded' \in wanted
      BY <1>0, <2>2, <2>4, Zenon DEF IInv, StartsFromArchive
    <3>3. Holds(loaded') \in SUBSET Nat
      BY Zenon DEF Holds, PInv, ProcessType
    <3> QED
      BY <1>0, <1>12, <2>1, <2>2, <2>4, <3>1, <3>2, <3>3, Zenon
      DEF LoadArchive, Serves, PInv, ProcessType, InStep, WritesKept, DumpFinal, Persistent, Serving
  <2> QED
    BY <1>12, <2>3, <2>4, Zenon DEF LoadArchive
<1>13. CASE Drained /\ ~Persistent
  <2>1. \A found : Holds(found)' = Holds(found)
    BY <1>13, Zenon DEF Drained, Holds
  <2> QED
    BY <1>0, <1>13, <2>1, Zenon
    DEF Drained, PInv, ProcessType, InStep, WritesKept, DumpFinal, vars, Persistent, Serving
<1>14. CASE Drained /\ Persistent
  <2>1. /\ Dump /\ content' = [content EXCEPT ![saves + 1] = store] /\ server' = "saving"
        /\ server = "draining" /\ UNCHANGED <<main, config, store, writes, kept>>
    BY <1>14, Zenon DEF Drained, Dump
  <2>2. saves + 1 \in Snapshots /\ saves' = saves + 1
    BY <2>1, ContentsAssumption DEF Dump, PInv, IInv, TypeOK, Snapshots
  <2>3. content'[saves'] = store /\ content' \in [Snapshots -> SUBSET Nat]
    BY <2>1, <2>2, Zenon DEF PInv, ProcessType
  <2>4. kept \subseteq store
    BY <1>14, <2>1, Zenon DEF PInv, WritesKept
  <2>5. \A found \in wanted' : kept \subseteq Holds(found)'
    BY <2>1, <2>2, <2>4, Zenon DEF Dump, Holds, PInv, WritesKept, ProcessType
  <2>6. at' = "create"
    BY <2>1, Zenon DEF Dump
  <2> QED
    BY <1>0, <1>14, <2>1, <2>3, <2>4, <2>5, <2>6, Zenon
    DEF PInv, ProcessType, InStep, WritesKept, DumpFinal, Persistent, Serving, SaveSteps
<1>15. CASE Save
  <2>1. \A found : Holds(found)' = Holds(found)
    BY <1>15, Zenon DEF Save, Holds
  <2>2. /\ server = "saving" /\ Persistent /\ Persistent' /\ UNCHANGED saves
        /\ at' \in SaveSteps \cup {"down"}
    BY <1>15, Zenon DEF Save, PInv, InStep, CreateTemp, WriteTemp, SyncTemp, Rename, OpenDir, SyncDir,
                 SaveFails, SaveSteps, Persistent
  <2>3. server' = (IF at' = "down" THEN "done" ELSE "saving") /\ "down" \notin SaveSteps
    BY <1>15, Zenon DEF Save, SaveSteps
  <2>4. CASE SyncDir
    <3>1. wanted' = {saves} /\ at' = "down"
      BY <2>4, Zenon DEF SyncDir
    <3>2. saves \in Snapshots /\ content[saves] = store /\ kept \subseteq store
      BY <2>2, Zenon DEF PInv, IInv, TypeOK, DumpFinal, WritesKept
    <3> QED
      BY <1>0, <1>15, <2>1, <2>2, <2>3, <3>1, <3>2, Zenon
      DEF Save, PInv, ProcessType, InStep, WritesKept, DumpFinal, Serving, Holds
  <2>5. CASE SaveFails
    <3>1. UNCHANGED wanted /\ result' = "WriteFile"
      BY <2>5, Zenon DEF SaveFails
    <3> QED
      BY <1>0, <1>15, <2>1, <2>2, <2>3, <3>1, Zenon
      DEF Save, PInv, ProcessType, InStep, WritesKept, DumpFinal, Serving
  <2>6. CASE CreateTemp \/ WriteTemp \/ SyncTemp \/ Rename \/ OpenDir
    <3>1. UNCHANGED wanted /\ at' \in SaveSteps
      BY <2>6, Zenon DEF CreateTemp, WriteTemp, SyncTemp, Rename, OpenDir, SaveSteps
    <3> QED
      BY <1>0, <1>15, <2>1, <2>2, <2>3, <3>1, Zenon
      DEF Save, PInv, ProcessType, InStep, WritesKept, DumpFinal, Serving
  <2> QED
    BY <1>15, <2>4, <2>5, <2>6, Zenon DEF Save
<1>16. CASE Join
  <2>1. CASE Succeeded /\ Persistent
    <3>1. wanted = {saves} /\ content[saves] = store /\ saves \in Snapshots
      BY <1>16, <2>1, Zenon DEF Join, Succeeded, PInv, DumpFinal, IInv, TypeOK
    <3>2. \A found \in wanted' : kept' \subseteq Holds(found)'
      BY <1>16, <2>1, <3>1, Zenon DEF Join, Exits, Holds, vars
    <3> QED
      BY <1>0, <1>16, <3>2, Zenon DEF Join, Exits, PInv, ProcessType, InStep, WritesKept, DumpFinal, vars
  <2>2. CASE ~(Succeeded /\ Persistent)
    BY <1>0, <1>16, <2>2, ExitsPInv, Zenon DEF Join, PInv, InStep, vars
  <2> QED
    BY <2>1, <2>2, Zenon
<1> QED
  BY <1>1, <1>2, <1>3, <1>4, <1>5, <1>6, <1>7, <1>8, <1>9, <1>10, <1>11, <1>12, <1>13, <1>14,
     <1>15, <1>16, Zenon
  DEF ProcessNext, Main, Server

(* A process that exits with success has lost no write it acknowledged,    *)
(* and no later failure, kill, crash or restart loses one of them.         *)
THEOREM CleanExitSafe == ProcessSpec => []CleanExitKeepsWrites
<1>1. PInv => CleanExitKeepsWrites
  BY Zenon DEF PInv, IInv, SavedArchiveKept, WritesKept, CleanExitKeepsWrites
<1> QED
  BY ProcessInitPInv, NextPInv, <1>1, PTL DEF ProcessSpec
=============================================================================
