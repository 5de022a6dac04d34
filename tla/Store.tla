------------------------------- MODULE Store -------------------------------
(***************************************************************************)
(* The in-memory store: a hash map of values with an optional expiration   *)
(* instant, a heap of expirations, and a background task, the sweeper,     *)
(* that sleeps until the earliest expiration and removes what has expired. *)
(*                                                                         *)
(* Grain of atomicity.  The map's guard is never held across an await, so  *)
(* the section under it is one step.  `expire` awaits the map while it     *)
(* holds the heap, so the heap's guard is state (heap_lock) and `expire`   *)
(* is two steps.  `del` reads the clock before it awaits the map, so it is *)
(* two steps as well.  The sweeper drops the heap before it awaits the map.*)
(* A task may be aborted at any await.                                     *)
(*                                                                         *)
(* The heap is a set of <<when, key>>: equal entries are popped together,  *)
(* so their number cannot be observed.  Values are opaque.  Time is in     *)
(* ticks, Second of them in a second.                                      *)
(***************************************************************************)
EXTENDS Integers

CONSTANTS Client,      \* connection tasks
          Key, Value,
          Ttl,         \* the timeouts clients ask for, in seconds
          None, NoTask, Panicked,
          Second,      \* ticks in a second
          InstantMax,  \* the last tick an Instant can represent
          MaxClock     \* bound of the model: the clock stops here

Instant == 0 .. InstantMax

StoreValue == [value : Value, expiration_time : Nat \cup {None}]

ASSUME TimeAssumption == /\ Second \in Nat \ {0}
                         /\ MaxClock \in Nat
                         /\ InstantMax \in Nat
                         /\ Ttl \subseteq Nat

ASSUME NoneAssumption == /\ None \notin Nat
                         /\ None \notin StoreValue
                         /\ None \notin [key : Key, live : BOOLEAN]
                         /\ NoTask \notin Client

VARIABLES
    clock,            \* what Instant::now() returns
    hashmap,          \* [Key -> StoreValue, or None when the key is absent]
    expiration_heap,  \* set of <<when, key>>
    wakeup,           \* the permit of the Notify
    heap_lock,        \* who holds the heap's write guard across an await
    sweeper,          \* the sweeper's position and locals (reset when they
                      \* go out of scope)
    call,             \* [Client -> the call it has in flight]
    ret,              \* the last return of a call: <<client, result>>
    lived             \* history: when was the key of the DEL in flight live?
                      \* "since" the last write to it, only "before" that
                      \* write, or "never" since the call

vars == <<clock, hashmap, expiration_heap, wakeup, heap_lock, sweeper, call,
          ret, lived>>

Idle == [op |-> "idle"]
Call == {Idle} \cup [op : {"del"}, key : Key, now : Nat]
               \cup [op : {"expire"}, key : Key, ttl : Ttl]

Sweeper == [at : {"heap", "map", "peek", "wait"}, now : Nat,
            candidates : SUBSET Key, next_expire : Nat \cup {None}]

SweeperAt(at, now, candidates, next_expire) ==
    [at |-> at, now |-> now, candidates |-> candidates, next_expire |-> next_expire]

-----------------------------------------------------------------------------
(* Values, and what a caller sees of them *)

IsExpired(v, now) == v.expiration_time # None /\ v.expiration_time <= now

Missing(k, now) == hashmap[k] # None => IsExpired(hashmap[k], now)

Live(k) == ~Missing(k, clock)

(* The expirations of a map, as from_snapshot collects them. *)
ExpirationsOf(map) ==
    {<<map[k].expiration_time, k>> :
        k \in {j \in Key : map[j] # None /\ map[j].expiration_time # None}}

(* Store::new and Store::from_snapshot: a map, empty or restored, its      *)
(* expirations in the heap, and a sweeper about to sweep.                  *)
Init ==
    /\ clock = 0
    /\ hashmap \in [Key -> [value : Value, expiration_time : Instant \cup {None}]
                            \cup {None}]
    /\ expiration_heap = ExpirationsOf(hashmap)
    /\ wakeup = FALSE
    /\ heap_lock = NoTask
    /\ sweeper = SweeperAt("heap", 0, {}, None)
    /\ call = [c \in Client |-> Idle]
    /\ ret = <<None, None>>
    /\ lived = [c \in Client |-> "never"]

-----------------------------------------------------------------------------
(* The operations of the clients *)

Return(c, r) == /\ call' = [call EXCEPT ![c] = Idle]
                /\ ret' = <<c, r>>

Get(c, k) ==
    /\ call[c] = Idle
    /\ Return(c, IF Missing(k, clock) THEN None ELSE hashmap[k].value)
    /\ UNCHANGED <<clock, hashmap, expiration_heap, wakeup, heap_lock, sweeper, lived>>

TimeToLive(c, k) ==
    /\ call[c] = Idle
    /\ Return(c, IF Missing(k, clock) THEN -2
                 ELSE IF hashmap[k].expiration_time = None THEN -1
                 ELSE (hashmap[k].expiration_time - clock) \div Second)
    /\ UNCHANGED <<clock, hashmap, expiration_heap, wakeup, heap_lock, sweeper, lived>>

(* History: the DELs in flight on k learn of a write to k. *)
Witnessed(k, when) ==
    [d \in Client |-> IF call[d].op = "del" /\ call[d].key = k THEN when ELSE lived[d]]

(* The previous value is returned whether it has expired or not. *)
Set(c, k, v) ==
    /\ call[c] = Idle
    /\ hashmap' = [hashmap EXCEPT ![k] = [value |-> v, expiration_time |-> None]]
    /\ Return(c, IF hashmap[k] = None THEN None ELSE hashmap[k].value)
    /\ lived' = Witnessed(k, "since")
    /\ UNCHANGED <<clock, expiration_heap, wakeup, heap_lock, sweeper>>

(* DEL reads the clock, then awaits the map. *)
DelCall(c, k) ==
    /\ call[c] = Idle
    /\ call' = [call EXCEPT ![c] = [op |-> "del", key |-> k, now |-> clock]]
    /\ lived' = [lived EXCEPT ![c] = IF Live(k) THEN "since" ELSE "never"]
    /\ UNCHANGED <<clock, hashmap, expiration_heap, wakeup, heap_lock, sweeper, ret>>

(* DEL removes the entry and judges it by the clock it read. *)
DelReturn(c) ==
    /\ call[c].op = "del"
    /\ LET k == call[c].key IN
          /\ hashmap' = [hashmap EXCEPT ![k] = None]
          /\ Return(c, IF Missing(k, call[c].now) THEN None ELSE hashmap[k].value)
    /\ lived' = [lived EXCEPT ![c] = "never"]
    /\ UNCHANGED <<clock, expiration_heap, wakeup, heap_lock, sweeper>>

(* EXPIRE takes the heap, then awaits the map with the heap in hand. *)
ExpireCall(c, k, ttl) ==
    /\ call[c] = Idle
    /\ heap_lock = NoTask
    /\ heap_lock' = c
    /\ call' = [call EXCEPT ![c] = [op |-> "expire", key |-> k, ttl |-> ttl]]
    /\ UNCHANGED <<clock, hashmap, expiration_heap, wakeup, sweeper, ret, lived>>

Expires(c) == clock + call[c].ttl * Second

Overflows_Unchecked(c) == FALSE
Overflows(c) == Expires(c) > InstantMax

ReleaseHeap_Leaked(c) == UNCHANGED heap_lock
ReleaseHeap(c) == heap_lock' = IF heap_lock = c THEN NoTask ELSE heap_lock

Push_OncePerKey(when, k) ==
    expiration_heap' = expiration_heap \cup
        {e \in {<<when, k>>} : \A f \in expiration_heap : f[2] # k}
Push(when, k) == expiration_heap' = expiration_heap \cup {<<when, k>>}

(* notify_one: one permit, however often it is called. *)
NotifyOne_FirstOnly == wakeup' = (wakeup \/ expiration_heap = {})
NotifyOne == wakeup' = TRUE

(* A missing or expired key; the entry of an expired one is removed. *)
ExpireMissing(c) ==
    /\ call[c].op = "expire"
    /\ Missing(call[c].key, clock)
    /\ hashmap' = [hashmap EXCEPT ![call[c].key] = None]
    /\ Return(c, 0)
    /\ ReleaseHeap(c)
    /\ UNCHANGED <<clock, expiration_heap, wakeup, sweeper, lived>>

(* The entry is out of the map when `now + ttl_duration` overflows and     *)
(* panics; unwinding releases the guards and ends the connection task.     *)
ExpirePanics(c) ==
    /\ call[c].op = "expire"
    /\ ~Missing(call[c].key, clock)
    /\ Overflows(c)
    /\ hashmap' = [hashmap EXCEPT ![call[c].key] = None]
    /\ Return(c, Panicked)
    /\ ReleaseHeap(c)
    /\ UNCHANGED <<clock, expiration_heap, wakeup, sweeper, lived>>

ExpireSets(c) ==
    /\ call[c].op = "expire"
    /\ ~Missing(call[c].key, clock)
    /\ ~Overflows(c)
    /\ hashmap' = [hashmap EXCEPT ![call[c].key] =
                      [value |-> @.value, expiration_time |-> Expires(c)]]
    /\ Push(Expires(c), call[c].key)
    /\ NotifyOne
    /\ Return(c, 1)
    /\ ReleaseHeap(c)
    /\ lived' = Witnessed(call[c].key, IF call[c].ttl = 0 THEN "before" ELSE "since")
    /\ UNCHANGED <<clock, sweeper>>

(* The server aborts a connection task that is waiting for the map. *)
Abort(c) ==
    /\ call[c] # Idle
    /\ call' = [call EXCEPT ![c] = Idle]
    /\ ReleaseHeap(c)
    /\ lived' = [lived EXCEPT ![c] = "never"]
    /\ UNCHANGED <<clock, hashmap, expiration_heap, wakeup, sweeper, ret>>

-----------------------------------------------------------------------------
(* The sweeper *)

Due_Strict == {e \in expiration_heap : e[1] < clock}
Due_KeyPresent == {e \in expiration_heap : e[1] <= clock /\ hashmap[e[2]] # None}
Due == {e \in expiration_heap : e[1] <= clock}

(* Pop every expiration that is due. *)
SweepHeap ==
    /\ sweeper.at = "heap"
    /\ heap_lock = NoTask
    /\ expiration_heap' = expiration_heap \ Due
    /\ sweeper' = SweeperAt("map", clock, {e[2] : e \in Due}, None)
    /\ UNCHANGED <<clock, hashmap, wakeup, heap_lock, call, ret, lived>>

Sweepable_Unchecked(k) == k \in sweeper.candidates
Sweepable(k) == k \in sweeper.candidates /\ Missing(k, sweeper.now)

(* Remove the candidates that were expired when the heap was popped. *)
SweepMap ==
    /\ sweeper.at = "map"
    /\ hashmap' = [k \in Key |-> IF Sweepable(k) THEN None ELSE hashmap[k]]
    /\ sweeper' = SweeperAt("peek", 0, {}, None)
    /\ UNCHANGED <<clock, expiration_heap, wakeup, heap_lock, call, ret, lived>>

Earliest(t) == \A e \in expiration_heap : t <= e[1]

Peek ==
    /\ sweeper.at = "peek"
    /\ heap_lock = NoTask
    /\ \/ /\ expiration_heap = {}
          /\ sweeper' = SweeperAt("wait", 0, {}, None)
       \/ \E e \in expiration_heap :
             /\ Earliest(e[1])
             /\ sweeper' = SweeperAt("wait", 0, {}, e[1])
    /\ UNCHANGED <<clock, hashmap, expiration_heap, wakeup, heap_lock, call, ret, lived>>

(* `wakeup.notified()` takes the permit. *)
Notified ==
    /\ sweeper.at = "wait"
    /\ wakeup
    /\ wakeup' = FALSE
    /\ sweeper' = SweeperAt("heap", 0, {}, None)
    /\ UNCHANGED <<clock, hashmap, expiration_heap, heap_lock, call, ret, lived>>

(* `sleep_until` elapses; a permit stays for the next wait. *)
SleepElapsed ==
    /\ sweeper.at = "wait"
    /\ sweeper.next_expire # None
    /\ sweeper.next_expire <= clock
    /\ sweeper' = SweeperAt("heap", 0, {}, None)
    /\ UNCHANGED <<clock, hashmap, expiration_heap, wakeup, heap_lock, call, ret, lived>>

Tick ==
    /\ clock < MaxClock
    /\ clock' = clock + 1
    /\ UNCHANGED <<hashmap, expiration_heap, wakeup, heap_lock, sweeper, call, ret, lived>>

-----------------------------------------------------------------------------
Sweep == SweepHeap \/ SweepMap \/ Peek \/ Notified \/ SleepElapsed

Start(c) == \E k \in Key : \/ Get(c, k)
                           \/ TimeToLive(c, k)
                           \/ DelCall(c, k)
                           \/ \E v \in Value : Set(c, k, v)
                           \/ \E ttl \in Ttl : ExpireCall(c, k, ttl)

ExpireReturn(c) == ExpireMissing(c) \/ ExpirePanics(c) \/ ExpireSets(c)

Finish(c) == DelReturn(c) \/ ExpireReturn(c)

Next == \/ Tick
        \/ Sweep
        \/ \E c \in Client : Start(c) \/ Finish(c) \/ Abort(c)

Spec == Init /\ [][Next]_vars

(* Tasks are polled; the RwLocks are FIFO, so a task that waits for the    *)
(* heap gets it although others keep taking it.  Nothing is assumed of     *)
(* clients, of aborts or of the clock.                                     *)
Fairness == SF_vars(Sweep) /\ \A c \in Client : WF_vars(Finish(c))

FairSpec == Spec /\ Fairness

-----------------------------------------------------------------------------
(* Properties *)

(* Every variable keeps its type; in particular no entry ever carries an   *)
(* expiration an Instant cannot represent.                                 *)
TypeOK ==
    /\ clock \in Nat
    /\ hashmap \in [Key -> StoreValue \cup {None}]
    /\ \A k \in Key : hashmap[k] # None => hashmap[k].expiration_time \in Instant \cup {None}
    /\ expiration_heap \subseteq (Nat \X Key)
    /\ wakeup \in BOOLEAN
    /\ heap_lock \in Client \cup {NoTask}
    /\ sweeper \in Sweeper
    /\ call \in [Client -> Call]
    /\ lived \in [Client -> {"never", "before", "since"}]

(* The heap's guard is held exactly by the one EXPIRE that waits for the   *)
(* map: a call that returns, panics or is aborted never leaves the heap    *)
(* locked for the other clients and the sweeper.                           *)
HeapLockOwned ==
    \A c \in Client : heap_lock = c <=> call[c].op = "expire"

(* No leak: whatever SET, DEL, EXPIRE and the sweeper do to each other,    *)
(* an entry with an expiration has its own heap entry, or the sweeper has  *)
(* popped it and is about to remove it.                                    *)
ExpirationTracked ==
    \A k \in Key : hashmap[k] # None /\ hashmap[k].expiration_time # None =>
        \/ <<hashmap[k].expiration_time, k>> \in expiration_heap
        \/ /\ sweeper.at = "map"
           /\ k \in sweeper.candidates
           /\ IsExpired(hashmap[k], sweeper.now)

(* The sweeper never sleeps past an expired entry: when one is in the map  *)
(* while it waits, a permit is pending or its sleep has elapsed.  An       *)
(* EXPIRE that lands between its look at the heap and its wait must not    *)
(* be missed.                                                              *)
NoOversleep ==
    sweeper.at = "wait" /\ (\E k \in Key : hashmap[k] # None /\ Missing(k, clock))
    => wakeup \/ (sweeper.next_expire # None /\ sweeper.next_expire <= clock)

(* What the clients can see: the live entries, and the DELs in flight. *)
Visible == [k \in Key |-> IF Live(k) THEN hashmap[k] ELSE None]

PendingDel == [c \in Client |-> IF call[c].op = "del"
                                  THEN [key |-> call[c].key, live |-> lived[c] # "never"]
                                  ELSE None]

Promise == INSTANCE ExpiringMap WITH db <- Visible, del <- PendingDel

(* The store implements the map of ExpiringMap: what the sweeper does, and *)
(* when it does it, shows in no reply and in no live entry.                *)
ImplementsExpiringMap == Promise!Spec

(* Every expired entry is eventually removed from memory (or replaced),    *)
(* even if no client asks for it again and others keep calling EXPIRE.     *)
ExpiredReclaimed ==
    \A k \in Key : LET garbage == hashmap[k] # None /\ Missing(k, clock)
                   IN  garbage ~> ~garbage

(* The heap does not grow without bound: an expiration that is due leaves  *)
(* it, also when its key was deleted or given another expiration since.    *)
HeapDrains == \A e \in (0 .. MaxClock) \X Key :
                LET due == e \in expiration_heap /\ e[1] <= clock IN due ~> ~due

(* "Expired keys are treated as absent" by `del`: a DEL that returns a     *)
(* value can be ordered at a moment of its call at which the key was live  *)
(* and after which nobody wrote to it.                                     *)
DelLinearizable ==
    [][\A c \in Client : DelReturn(c) /\ ret' # <<c, None>> => lived[c] = "since"]_vars

(* As its comment has it: `expire` returns 1 if the timeout was set, or 0  *)
(* if the key does not exist or is already expired.                        *)
ExpireSetsOrFindsNothing ==
    [][\A c \in Client : ExpireReturn(c) =>
         \/ ret' = <<c, 1>> /\ hashmap'[call[c].key] # None
         \/ ret' = <<c, 0>> /\ ~Live(call[c].key)]_vars
=============================================================================
