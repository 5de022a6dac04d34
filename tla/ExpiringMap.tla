---------------------------- MODULE ExpiringMap ----------------------------
(***************************************************************************)
(* What a client may rely on: a map whose keys vanish at their deadline.   *)
(* There is no sweeper, no heap and no lock here.  An entry whose deadline *)
(* has passed is not in the map, so no reply can ever depend on when the   *)
(* garbage of the implementation is collected.                             *)
(*                                                                         *)
(* DEL is the one operation with a call and a return: its reply may be     *)
(* decided by any moment in between.                                       *)
(***************************************************************************)
EXTENDS Integers

CONSTANTS Client, Key, Value, Ttl, None, Panicked, Second, MaxClock,
          InstantMax   \* the last deadline that can be represented

VARIABLES clock,  \* the time
          db,     \* [Key -> Entry or None], live entries only
          del,    \* [Client -> pending DEL or None]; `live` says whether the
                  \* key was in the map at some moment since the call
          ret     \* the last reply: <<client, reply>>

vars == <<clock, db, del, ret>>

Reply(c, r) == ret' = <<c, r>>

Live(k) == db[k] # None

Entry == [value : Value, expiration_time : Nat \cup {None}]

(* The map may start with entries, those of an archive. *)
Init == /\ clock = 0
        /\ db \in [Key -> Entry \cup {None}]
        /\ \A k \in Key : Live(k) => \/ db[k].expiration_time = None
                                   \/ db[k].expiration_time > clock
        /\ del = [c \in Client |-> None]
        /\ ret = <<None, None>>

Get(c, k) == /\ Reply(c, IF Live(k) THEN db[k].value ELSE None)
             /\ UNCHANGED <<clock, db, del>>

(* The previous value is promised only when there is a live one. *)
Set(c, k, v) ==
    /\ db' = [db EXCEPT ![k] = [value |-> v, expiration_time |-> None]]
    /\ del' = [d \in Client |-> IF del[d] # None /\ del[d].key = k
                                  THEN [key |-> k, live |-> TRUE]
                                  ELSE del[d]]
    /\ \E old \in Value \cup {None} :
          /\ Live(k) => old = db[k].value
          /\ Reply(c, old)
    /\ UNCHANGED clock

DelCall(c, k) == /\ del' = [del EXCEPT ![c] = [key |-> k, live |-> Live(k)]]
                 /\ UNCHANGED <<clock, db, ret>>

(* A live key is deleted and returned.  A value may be returned for a key  *)
(* that is gone, but only if the key was there during the call.            *)
DelReturn(c) ==
    /\ del[c] # None
    /\ LET k == del[c].key IN
          /\ db' = [db EXCEPT ![k] = None]
          /\ \E v \in Value \cup {None} :
                /\ IF Live(k) THEN v = db[k].value
                              ELSE v # None => del[c].live
                /\ Reply(c, v)
    /\ del' = [del EXCEPT ![c] = None]
    /\ UNCHANGED clock

DelAbort(c) == /\ del[c] # None
               /\ del' = [del EXCEPT ![c] = None]
               /\ UNCHANGED <<clock, db, ret>>

Deadline(ttl) == clock + ttl * Second

Expire(c, k, ttl) ==
    /\ IF Live(k)
         THEN /\ Deadline(ttl) <= InstantMax
              /\ Reply(c, 1)
              /\ db' = [db EXCEPT ![k] =
                          IF ttl = 0 THEN None
                          ELSE [value |-> @.value, expiration_time |-> Deadline(ttl)]]
         ELSE Reply(c, 0) /\ UNCHANGED db
    /\ UNCHANGED <<clock, del>>

(* A live key whose deadline cannot be represented is lost. *)
ExpirePanics(c, k, ttl) ==
    /\ Live(k)
    /\ Deadline(ttl) > InstantMax
    /\ Reply(c, Panicked)
    /\ db' = [db EXCEPT ![k] = None]
    /\ UNCHANGED <<clock, del>>

(* The whole seconds left, rounded down. *)
TimeToLive(c, k) ==
    /\ Reply(c, IF ~Live(k) THEN -2
                ELSE IF db[k].expiration_time = None THEN -1
                ELSE (db[k].expiration_time - clock) \div Second)
    /\ UNCHANGED <<clock, db, del>>

(* Keys leave the map the moment their deadline is reached. *)
Tick ==
    /\ clock < MaxClock
    /\ clock' = clock + 1
    /\ db' = [k \in Key |-> IF Live(k) /\ db[k].expiration_time # None
                                       /\ db[k].expiration_time <= clock'
                              THEN None ELSE db[k]]
    /\ UNCHANGED <<del, ret>>

Next == \/ Tick
        \/ \E c \in Client :
              \/ DelReturn(c)
              \/ DelAbort(c)
              \/ /\ del[c] = None
                 /\ \E k \in Key : \/ Get(c, k)
                                   \/ TimeToLive(c, k)
                                   \/ DelCall(c, k)
                                   \/ \E v \in Value : Set(c, k, v)
                                   \/ \E ttl \in Ttl : Expire(c, k, ttl) \/ ExpirePanics(c, k, ttl)

Spec == Init /\ [][Next]_vars
=============================================================================
