------------------------------ MODULE Snapshot ------------------------------
(***************************************************************************)
(* What a graceful restart does to the store: `dump` turns expirations,    *)
(* which are Instants of one process, into Unix milliseconds, and `restore`*)
(* turns them back.  Both read the clocks several times, and every reading *)
(* is rounded down to a millisecond.                                       *)
(*                                                                         *)
(* Time is in ticks, Milli of them in a millisecond.  The system clock may *)
(* be stepped, once, by whole milliseconds; Instants do not follow it.     *)
(* Lag bounds how many ticks the clock readings of one dump or restore     *)
(* spread over.  How the bytes get to the disk is Archive's business.      *)
(***************************************************************************)
EXTENDS Integers

CONSTANTS Key, Value, None,
          Deadline,     \* the expirations clients ask for, in ticks
          Milli,        \* ticks in a millisecond
          U64Max,       \* the most milliseconds a Duration is made from
          InstantMax,   \* the last tick an Instant can represent
          Epoch,        \* the system clock at the start, in ms
          Steps,        \* how far it may be stepped, in ms
          Lag, MaxTime, MaxRestarts  \* bounds of the model

ASSUME SnapshotAssumption == /\ Milli \in Nat \ {0}
                             /\ {Epoch, Lag, MaxTime, MaxRestarts, U64Max, InstantMax} \subseteq Nat
                             /\ Deadline \subseteq 0 .. InstantMax
                             /\ \A ms \in Steps : ms \in Int /\ ms >= -Epoch

ASSUME NoneAssumption ==
    /\ None \notin Int
    /\ None \notin [value : Value, expiration_time : Nat \cup {None}]
    /\ None \notin [value : Value, expiration_time_unix : Nat \cup {None}]

VARIABLES time,
          step,      \* how far the system clock was stepped, in ticks
          hashmap,   \* [Key -> StoreValue or None]
          process,   \* "up", "dumping", "down", or why restore refused
          now,       \* the clock `to_snapshot` read before it awaited the map
          snapshot,  \* [Key -> SnapshotValue or None], the entries dumped
          restarts,
          \* History:
          asked,     \* [Key -> the expiration the client asked for, or None;
                     \* a key that waits in the archive follows the clock]
          early,     \* [Key -> how much too early restarts may make it expire]
          late,      \* [Key -> how much too late]
          kept       \* [Key -> the value a client could see when it was dumped]

vars == <<time, step, hashmap, process, now, snapshot, restarts, asked, early, late, kept>>

-----------------------------------------------------------------------------
IsExpired(v, t) == v.expiration_time # None /\ v.expiration_time <= t

SeenAt(k, t) == IF hashmap[k] = None THEN None
                ELSE IF IsExpired(hashmap[k], t) THEN None ELSE hashmap[k].value

(* The snapshot of a map has no duplicate keys: only the first happens. *)
SnapshotError == {"DurationOverflow", "DuplicateKey"}

Saturating(n) == IF n < 0 THEN 0 ELSE n

(* The system clock, at a tick. *)
Unix(t) == t + Epoch * Milli + step

(* From<&StoreValue> for SnapshotValue *)
UnixMillis_RoundedUp(t, unix_now, store_now) ==
    (Saturating(t - store_now) + Milli - 1) \div Milli + unix_now \div Milli
UnixMillis(t, unix_now, store_now) ==
    Saturating(t - store_now) \div Milli + unix_now \div Milli

ToSnapshotValue(v, unix_now, store_now) ==
    [value |-> v.value,
     expiration_time_unix |-> IF v.expiration_time = None THEN None
                              ELSE UnixMillis(v.expiration_time, unix_now, store_now)]

(* TryFrom<SnapshotValue> for StoreValue *)
Remaining(v, unix_now) == Saturating(v.expiration_time_unix - unix_now \div Milli)

DurationOverflow_Ticks(v, unix_now, store_now) ==
    v.expiration_time_unix # None /\ Remaining(v, unix_now) * Milli > U64Max
DurationOverflow_Unchecked(v, unix_now, store_now) ==
    v.expiration_time_unix # None /\ Remaining(v, unix_now) > U64Max
DurationOverflow(v, unix_now, store_now) ==
    /\ v.expiration_time_unix # None
    /\ \/ Remaining(v, unix_now) > U64Max
       \/ store_now + Remaining(v, unix_now) * Milli > InstantMax

ToStoreValue(v, unix_now, store_now) ==
    [value |-> v.value,
     expiration_time |-> IF v.expiration_time_unix = None THEN None
                         ELSE store_now + Remaining(v, unix_now) * Milli]

(* The ticks, counted from the start, at which the two clocks are read for *)
(* one entry: the system clock first.                                      *)
Readings(d) == {r \in (0 .. d) \X (0 .. d) : r[1] <= r[2]}

-----------------------------------------------------------------------------
Init == /\ time = 0
        /\ step = 0
        /\ hashmap = [k \in Key |-> None]
        /\ process = "up"
        /\ now = 0
        /\ snapshot = [k \in Key |-> None]
        /\ restarts = 0
        /\ asked = [k \in Key |-> None]
        /\ early = [k \in Key |-> 0]
        /\ late = [k \in Key |-> 0]
        /\ kept = [k \in Key |-> None]

(* What clients do to a key: SET, perhaps followed by EXPIRE. *)
Write(k, v, t) ==
    /\ process = "up"
    /\ t # None => t >= time
    /\ hashmap' = [hashmap EXCEPT ![k] = [value |-> v, expiration_time |-> t]]
    /\ asked' = [asked EXCEPT ![k] = t]
    /\ early' = [early EXCEPT ![k] = 0]
    /\ late' = [late EXCEPT ![k] = 0]
    /\ kept' = [kept EXCEPT ![k] = None]
    /\ UNCHANGED <<time, step, process, now, snapshot, restarts>>

(* The sweeper removes an expired entry, at any moment after it expired. *)
Sweep(k) ==
    /\ process \in {"up", "dumping"}
    /\ hashmap[k] # None
    /\ IsExpired(hashmap[k], time)
    /\ hashmap' = [hashmap EXCEPT ![k] = None]
    /\ UNCHANGED <<time, step, process, now, snapshot, restarts, asked, early, late, kept>>

Tick == /\ time < MaxTime
        /\ time' = time + 1
        /\ UNCHANGED <<step, hashmap, process, now, snapshot, restarts, asked, early, late, kept>>

(* The system clock is set forwards or backwards. *)
StepClock(ms) ==
    /\ step = 0
    /\ step' = ms * Milli
    /\ asked' = [k \in Key |-> IF process = "down" /\ asked[k] # None
                                 THEN asked[k] - step' ELSE asked[k]]
    /\ UNCHANGED <<time, hashmap, process, now, snapshot, restarts, early, late, kept>>

(* The milliseconds d ticks may reach into. *)
Ceiling(d) == ((d + Milli - 1) \div Milli) * Milli

(* to_snapshot reads the clock, then awaits the map. *)
DumpCall == /\ process = "up"
            /\ restarts < MaxRestarts
            /\ process' = "dumping"
            /\ now' = time
            /\ UNCHANGED <<time, step, hashmap, snapshot, restarts, asked, early, late, kept>>

(* The entries that had not expired when the clock was read are converted, *)
(* each by clocks of its own; one that has expired since is given the time *)
(* of its conversion.  The process then ends.                              *)
Dump(d) ==
    /\ process = "dumping"
    /\ time' = time + d
    /\ \E read \in [Key -> Readings(d)] :
          snapshot' = [k \in Key |->
              IF SeenAt(k, now) = None THEN None
              ELSE ToSnapshotValue(hashmap[k], Unix(time + read[k][1]), time + read[k][2])]
    /\ process' = "down"
    /\ now' = 0
    /\ hashmap' = [k \in Key |-> None]
    /\ kept' = [k \in Key |-> SeenAt(k, time)]
    /\ early' = [k \in Key |-> early[k] + 2 * (Milli - 1) + d]
    /\ late' = [k \in Key |-> IF SeenAt(k, now) = None \/ asked[k] = None THEN late[k]
                                ELSE late[k] + Ceiling(Saturating(time + d - asked[k]))]
    /\ UNCHANGED <<step, restarts, asked>>

Unexpired_Deadlines(v) == v.expiration_time_unix # None /\ v.expiration_time_unix > Unix(time) \div Milli
Unexpired(v) == v.expiration_time_unix # None => v.expiration_time_unix > Unix(time) \div Milli

Loaded == {k \in Key : snapshot[k] # None /\ Unexpired(snapshot[k])}

(* from_snapshot reads the system clock, drops what has expired by it, and *)
(* converts the rest, each entry by clocks of its own.  One entry that     *)
(* does not convert fails the whole restore.                               *)
Restore(d) ==
    /\ process = "down"
    /\ time' = time + d
    /\ \E read \in [Key -> Readings(d)] :
          IF \E k \in Loaded : DurationOverflow(snapshot[k], Unix(time + read[k][1]), time + read[k][2])
            THEN process' = "DurationOverflow" /\ UNCHANGED hashmap
            ELSE /\ process' = "up"
                 /\ hashmap' = [k \in Key |->
                       IF k \notin Loaded THEN None
                       ELSE ToStoreValue(snapshot[k], Unix(time + read[k][1]), time + read[k][2])]
    /\ restarts' = restarts + 1
    /\ late' = [k \in Key |-> late[k] + Ceiling(d)]
    /\ UNCHANGED <<step, now, snapshot, asked, early, kept>>

Next == \/ Tick
        \/ DumpCall
        \/ \E ms \in Steps : StepClock(ms)
        \/ \E d \in 0 .. Lag : Dump(d) \/ Restore(d)
        \/ \E k \in Key : \/ Sweep(k)
                          \/ \E v \in Value, t \in Deadline \cup {None} : Write(k, v, t)

Spec == Init /\ [][Next]_vars

-----------------------------------------------------------------------------
(* Properties *)

(* Every variable keeps its type. *)
TypeOK ==
    /\ time \in Nat /\ step \in Int /\ now \in Nat /\ restarts \in 0 .. MaxRestarts
    /\ hashmap \in [Key -> [value : Value, expiration_time : (0 .. InstantMax) \cup {None}]
                            \cup {None}]
    /\ process \in {"up", "dumping", "down"} \cup SnapshotError
    /\ snapshot \in [Key -> [value : Value, expiration_time_unix : Nat \cup {None}] \cup {None}]
    /\ early \in [Key -> Nat] /\ late \in [Key -> Nat]

LastTickOfMilli(t) == (t \div Milli) * Milli + Milli - 1

(* No key outlives its deadline by more than what is left of the deadline's *)
(* millisecond, however often the server restarts: time spent down counts,  *)
(* and rounding does not add up.  Only clock readings that are a while      *)
(* apart (late) can add to it.  A step of the system clock moves the        *)
(* deadlines of an archive by itself, and those of a running store not at   *)
(* all.                                                                     *)
NeverOutlives ==
    \A k \in Key : hashmap[k] # None =>
        /\ asked[k] = None <=> hashmap[k].expiration_time = None
        /\ asked[k] # None =>
              hashmap[k].expiration_time <= LastTickOfMilli(asked[k]) + late[k]

(* A restart makes a key expire early by less than two milliseconds, and   *)
(* loses no key that is not about to expire.                               *)
NeverCutShort ==
    process = "up" => \A k \in Key :
        /\ hashmap[k] # None /\ asked[k] # None
           => hashmap[k].expiration_time >= asked[k] - early[k]
        /\ kept[k] # None /\ (asked[k] # None => time < asked[k] - early[k])
           => SeenAt(k, time) = kept[k]

(* Only a timeout of more than U64Max milliseconds, or one that does not   *)
(* fit in the Instants of the next process, makes the next start fail.     *)
RefusedOnlyIfHuge ==
    [][process = "down" /\ process' \in SnapshotError =>
         \E k \in Key : /\ snapshot[k] # None
                        /\ asked[k] # None
                        /\ \/ asked[k] + late[k] - time > U64Max * Milli
                           \/ LastTickOfMilli(asked[k]) + late'[k] > InstantMax]_vars

(* "The server loads the archive at startup": what a server has saved, the *)
(* next one accepts.                                                       *)
RestoreAccepts == process \notin SnapshotError
=============================================================================
