---------------------------- MODULE StoreProofs ----------------------------
(***************************************************************************)
(* Proofs about Store, for every set of clients, keys, values and          *)
(* timeouts, every clock bound and every range of Instant: its invariants, *)
(* and that it implements ExpiringMap.                                     *)
(***************************************************************************)
EXTENDS Store, TLAPS

(* The sweeper's side of NoOversleep: while it waits, every entry of the   *)
(* heap is no earlier than its alarm, or a permit is pending.              *)
AlarmCoversHeap ==
    sweeper.at = "wait" => \A e \in expiration_heap :
        wakeup \/ (sweeper.next_expire # None /\ sweeper.next_expire <= e[1])

IInv == TypeOK /\ HeapLockOwned /\ ExpirationTracked /\ AlarmCoversHeap

-----------------------------------------------------------------------------
(* A timeout in ticks is a natural number. *)
LEMMA TicksOfTtl == \A ttl \in Ttl : ttl * Second \in Nat
  BY TimeAssumption

(* What `now + ttl_duration` computes for an EXPIRE in flight. *)
LEMMA ExpiresNat ==
    ASSUME TypeOK, NEW c \in Client, call[c].op = "expire"
    PROVE  /\ call[c].key \in Key
           /\ call[c].ttl \in Ttl
           /\ Expires(c) \in Nat
           /\ Expires(c) >= clock
  <1>1. call[c] \in [op : {"expire"}, key : Key, ttl : Ttl]
    BY DEF TypeOK, Call, Idle
  <1>2. call[c].ttl * Second \in Nat
    BY <1>1, TicksOfTtl, Zenon
  <1> QED
    BY <1>1, <1>2 DEF Expires, TypeOK

(* A store, new or restored from a snapshot, has the right types. *)
LEMMA InitType == Init => TypeOK
  <1> SUFFICES ASSUME Init PROVE TypeOK
    OBVIOUS
  <1>1. hashmap \in [Key -> StoreValue \cup {None}]
    BY TimeAssumption DEF Init, StoreValue, Instant
  <1>2. \A k \in Key : hashmap[k] # None => hashmap[k].expiration_time \in Instant \cup {None}
    BY Zenon DEF Init
  <1>3. expiration_heap \subseteq (Nat \X Key)
    BY <1>1, NoneAssumption DEF Init, ExpirationsOf, StoreValue
  <1>4. sweeper \in Sweeper
    BY Zenon DEF Init, Sweeper, SweeperAt
  <1>5. call \in [Client -> Call]
    BY Zenon DEF Init, Call
  <1> QED
    BY <1>1, <1>2, <1>3, <1>4, <1>5, Zenon DEF Init, TypeOK

(* Every step of a client, the sweeper or the clock keeps the types. *)
LEMMA NextType == TypeOK /\ [Next]_vars => TypeOK'
  <1> SUFFICES ASSUME TypeOK, [Next]_vars PROVE TypeOK'
    OBVIOUS
  <1> USE TimeAssumption, NoneAssumption
  <1>1. ASSUME NEW c \in Client, NEW k \in Key, Get(c, k) PROVE TypeOK'
    BY <1>1, Zenon DEF TypeOK, Get, Return, Call
  <1>2. ASSUME NEW c \in Client, NEW k \in Key, TimeToLive(c, k) PROVE TypeOK'
    BY <1>2, Zenon DEF TypeOK, TimeToLive, Return, Call
  <1>3. ASSUME NEW c \in Client, NEW k \in Key, DelCall(c, k) PROVE TypeOK'
    BY <1>3, Zenon DEF TypeOK, DelCall, Call
  <1>4. ASSUME NEW c \in Client, NEW k \in Key, NEW v \in Value, Set(c, k, v)
        PROVE  TypeOK'
    BY <1>4, Zenon DEF TypeOK, Set, Return, Call, StoreValue, Witnessed
  <1>5. ASSUME NEW c \in Client, NEW k \in Key, NEW ttl \in Ttl, ExpireCall(c, k, ttl)
        PROVE  TypeOK'
    BY <1>5, Zenon DEF TypeOK, ExpireCall, Call
  <1>6. ASSUME NEW c \in Client, DelReturn(c) PROVE TypeOK'
    BY <1>6, Zenon DEF TypeOK, DelReturn, Return, Call
  <1>7. ASSUME NEW c \in Client, ExpireMissing(c) PROVE TypeOK'
    BY <1>7, ExpiresNat, Zenon DEF TypeOK, ExpireMissing, Return, Call, ReleaseHeap
  <1>8. ASSUME NEW c \in Client, ExpirePanics(c) PROVE TypeOK'
    BY <1>8, ExpiresNat, Zenon DEF TypeOK, ExpirePanics, Return, Call, ReleaseHeap
  <1>9. ASSUME NEW c \in Client, ExpireSets(c) PROVE TypeOK'
    <2>1. /\ call[c].key \in Key /\ call[c].ttl \in Ttl
          /\ Expires(c) \in Instant
      BY <1>9, ExpiresNat DEF ExpireSets, Overflows, Instant
    <2>2. hashmap' \in [Key -> StoreValue \cup {None}]
      BY <1>9, <2>1 DEF TypeOK, ExpireSets, StoreValue, Missing, Instant
    <2>3. \A k \in Key : hashmap'[k] # None =>
                           hashmap'[k].expiration_time \in Instant \cup {None}
      BY <1>9, <2>1, Zenon DEF TypeOK, ExpireSets, StoreValue, Missing
    <2>4. expiration_heap' \subseteq (Nat \X Key)
      BY <1>9, <2>1 DEF TypeOK, ExpireSets, Push, Instant
    <2> QED
      BY <1>9, <2>2, <2>3, <2>4, Zenon
      DEF TypeOK, ExpireSets, Return, Call, ReleaseHeap, NotifyOne, Witnessed
  <1>10. ASSUME NEW c \in Client, Abort(c) PROVE TypeOK'
    BY <1>10, Zenon DEF TypeOK, Abort, Call, ReleaseHeap
  <1>11. CASE SweepHeap
    BY <1>11 DEF TypeOK, SweepHeap, Due, Sweeper, SweeperAt
  <1>12. CASE SweepMap
    BY <1>12, Zenon DEF TypeOK, SweepMap, Sweeper, SweeperAt
  <1>13. CASE Peek
    BY <1>13 DEF TypeOK, Peek, Sweeper, SweeperAt
  <1>14. CASE Notified
    BY <1>14, Zenon DEF TypeOK, Notified, Sweeper, SweeperAt
  <1>15. CASE SleepElapsed
    BY <1>15, Zenon DEF TypeOK, SleepElapsed, Sweeper, SweeperAt
  <1>16. CASE Tick
    BY <1>16 DEF TypeOK, Tick
  <1>17. CASE UNCHANGED vars
    BY <1>17, Zenon DEF TypeOK, vars
  <1> QED
    BY <1>1, <1>2, <1>3, <1>4, <1>5, <1>6, <1>7, <1>8, <1>9, <1>10, <1>11, <1>12,
       <1>13, <1>14, <1>15, <1>16, <1>17, Zenon
    DEF Next, Sweep, Start, Finish, ExpireReturn

(* Every variable keeps its type in every behaviour of the store. *)
THEOREM TypeCorrect == Spec => []TypeOK
  BY InitType, NextType, PTL DEF Spec

-----------------------------------------------------------------------------
(* The heap's guard *)

(* Every step keeps the heap's guard with exactly the EXPIRE that waits    *)
(* for the map.                                                            *)
LEMMA NextLock == TypeOK /\ HeapLockOwned /\ [Next]_vars => HeapLockOwned'
  <1> SUFFICES ASSUME TypeOK, HeapLockOwned, [Next]_vars PROVE HeapLockOwned'
    OBVIOUS
  <1> USE NoneAssumption DEF HeapLockOwned, TypeOK, Idle
  <1>1. ASSUME NEW c \in Client, NEW k \in Key, Get(c, k) PROVE HeapLockOwned'
    BY <1>1, Zenon DEF Get, Return
  <1>2. ASSUME NEW c \in Client, NEW k \in Key, TimeToLive(c, k) PROVE HeapLockOwned'
    BY <1>2, Zenon DEF TimeToLive, Return
  <1>3. ASSUME NEW c \in Client, NEW k \in Key, DelCall(c, k) PROVE HeapLockOwned'
    BY <1>3 DEF DelCall
  <1>4. ASSUME NEW c \in Client, NEW k \in Key, NEW v \in Value, Set(c, k, v)
        PROVE  HeapLockOwned'
    BY <1>4, Zenon DEF Set, Return
  <1>5. ASSUME NEW c \in Client, NEW k \in Key, NEW ttl \in Ttl, ExpireCall(c, k, ttl)
        PROVE  HeapLockOwned'
    BY <1>5, Zenon DEF ExpireCall
  <1>6. ASSUME NEW c \in Client, DelReturn(c) PROVE HeapLockOwned'
    BY <1>6, Zenon DEF DelReturn, Return
  <1>7. ASSUME NEW c \in Client, ExpireReturn(c) PROVE HeapLockOwned'
    BY <1>7 DEF ExpireReturn, ExpireMissing, ExpirePanics, ExpireSets, Return, ReleaseHeap
  <1>8. ASSUME NEW c \in Client, Abort(c) PROVE HeapLockOwned'
    BY <1>8, Zenon DEF Abort, ReleaseHeap
  <1>9. CASE Sweep
    BY <1>9, Zenon DEF Sweep, SweepHeap, SweepMap, Peek, Notified, SleepElapsed
  <1>10. CASE Tick \/ UNCHANGED vars
    BY <1>10, Zenon DEF Tick, vars
  <1> QED
    BY <1>1, <1>2, <1>3, <1>4, <1>5, <1>6, <1>7, <1>8, <1>9, <1>10, Zenon
    DEF Next, Start, Finish

-----------------------------------------------------------------------------
(* No entry with an expiration is forgotten *)

(* from_snapshot puts the expirations of the restored map in the heap. *)
LEMMA InitTracked == Init => ExpirationTracked
  BY Zenon DEF Init, ExpirationTracked, ExpirationsOf

(* A step that leaves the heap and the sweeper alone and gives no key a    *)
(* new expiration keeps the expirations tracked.                           *)
LEMMA TrackedFrame ==
    ASSUME ExpirationTracked, UNCHANGED <<expiration_heap, sweeper>>,
           \A k \in Key : \/ hashmap'[k] = hashmap[k]
                          \/ hashmap'[k] = None
                          \/ hashmap'[k].expiration_time = None
    PROVE  ExpirationTracked'
  BY Zenon DEF ExpirationTracked, IsExpired

(* Every step keeps each expiration of the map in the heap, or with a      *)
(* sweeper about to remove the entry.                                      *)
LEMMA NextTracked == TypeOK /\ ExpirationTracked /\ [Next]_vars => ExpirationTracked'
  <1> SUFFICES ASSUME TypeOK, ExpirationTracked, [Next]_vars PROVE ExpirationTracked'
    OBVIOUS
  <1>1. ASSUME NEW c \in Client, NEW k \in Key, NEW v \in Value, Set(c, k, v)
        PROVE  ExpirationTracked'
    BY <1>1, TrackedFrame, Zenon DEF Set, TypeOK
  <1>2. ASSUME NEW c \in Client, NEW k \in Key,
               Get(c, k) \/ TimeToLive(c, k) \/ DelCall(c, k)
        PROVE  ExpirationTracked'
    BY <1>2, TrackedFrame, Zenon DEF Get, TimeToLive, DelCall
  <1>10. ASSUME NEW c \in Client, NEW k \in Key, NEW ttl \in Ttl, ExpireCall(c, k, ttl)
         PROVE  ExpirationTracked'
    BY <1>10, TrackedFrame, Zenon DEF ExpireCall
  <1>3. ASSUME NEW c \in Client, DelReturn(c) \/ ExpireMissing(c) \/ ExpirePanics(c)
        PROVE  ExpirationTracked'
    BY <1>3, TrackedFrame, Zenon DEF DelReturn, ExpireMissing, ExpirePanics, TypeOK
  <1>4. ASSUME NEW c \in Client, ExpireSets(c) PROVE ExpirationTracked'
    <2>1. call[c].key \in Key
      BY <1>4, ExpiresNat, Zenon DEF ExpireSets
    <2>2. SUFFICES ASSUME NEW k \in Key, hashmap'[k] # None,
                          hashmap'[k].expiration_time # None
                   PROVE  \/ <<hashmap'[k].expiration_time, k>> \in expiration_heap'
                          \/ /\ sweeper'.at = "map"
                             /\ k \in sweeper'.candidates
                             /\ IsExpired(hashmap[k], sweeper.now)'
      BY Zenon DEF ExpirationTracked
    <2>3. CASE k = call[c].key
      BY <1>4, <2>1, <2>3, Zenon DEF ExpireSets, Push, TypeOK
    <2>4. CASE k # call[c].key
      <3>1. hashmap'[k] = hashmap[k]
        BY <1>4, <2>1, <2>4, Zenon DEF ExpireSets, TypeOK
      <3>2. sweeper' = sweeper /\ expiration_heap \subseteq expiration_heap'
        BY <1>4, Zenon DEF ExpireSets, Push
      <3> QED
        BY <2>2, <3>1, <3>2, Zenon DEF ExpirationTracked, IsExpired
    <2> QED
      BY <2>3, <2>4, Zenon
  <1>5. ASSUME NEW c \in Client, Abort(c) PROVE ExpirationTracked'
    BY <1>5, TrackedFrame, Zenon DEF Abort
  <1>6. CASE SweepHeap
    <2> SUFFICES ASSUME NEW k \in Key, hashmap[k] # None,
                        hashmap[k].expiration_time # None
                 PROVE  \/ <<hashmap[k].expiration_time, k>> \in expiration_heap'
                        \/ /\ sweeper'.at = "map"
                           /\ k \in sweeper'.candidates
                           /\ IsExpired(hashmap[k], sweeper'.now)
      BY <1>6, Zenon DEF ExpirationTracked, SweepHeap, IsExpired
    <2> DEFINE e == <<hashmap[k].expiration_time, k>>
    <2>1. e \in expiration_heap
      BY <1>6, Zenon DEF ExpirationTracked, SweepHeap
    <2>2. CASE e \in Due
      <3>1. k \in {f[2] : f \in Due}
        BY <2>2
      <3> QED
        BY <1>6, <2>2, <3>1, Zenon DEF SweepHeap, SweeperAt, Due, IsExpired
    <2>3. CASE e \notin Due
      BY <1>6, <2>1, <2>3, Zenon DEF SweepHeap
    <2> QED
      BY <2>2, <2>3, Zenon
  <1>7. CASE SweepMap
    BY <1>7, Zenon DEF SweepMap, Sweepable, Missing, ExpirationTracked, IsExpired, TypeOK
  <1>8. CASE Peek \/ Notified \/ SleepElapsed
    BY <1>8, Zenon DEF Peek, Notified, SleepElapsed, SweeperAt, ExpirationTracked, IsExpired
  <1>9. CASE Tick \/ UNCHANGED vars
    BY <1>9, TrackedFrame, Zenon DEF Tick, vars
  <1> QED
    BY <1>1, <1>2, <1>3, <1>4, <1>5, <1>6, <1>7, <1>8, <1>9, <1>10, Zenon
    DEF Next, Sweep, Start, Finish, ExpireReturn

-----------------------------------------------------------------------------
(* No expiration is slept through *)

(* Every step keeps the alarm of a waiting sweeper no later than any       *)
(* entry of the heap, unless a permit is pending.                          *)
LEMMA NextAlarm == TypeOK /\ AlarmCoversHeap /\ [Next]_vars => AlarmCoversHeap'
  <1> SUFFICES ASSUME TypeOK, AlarmCoversHeap, [Next]_vars PROVE AlarmCoversHeap'
    OBVIOUS
  <1> USE DEF AlarmCoversHeap
  <1>1. ASSUME NEW c \in Client, Start(c) PROVE AlarmCoversHeap'
    BY <1>1 DEF Start, Get, TimeToLive, DelCall, Set, ExpireCall
  <1>2. ASSUME NEW c \in Client, DelReturn(c) \/ ExpireMissing(c) \/ ExpirePanics(c) \/ Abort(c)
        PROVE  AlarmCoversHeap'
    BY <1>2 DEF DelReturn, ExpireMissing, ExpirePanics, Abort
  <1>3. ASSUME NEW c \in Client, ExpireSets(c) PROVE AlarmCoversHeap'
    BY <1>3, Zenon DEF ExpireSets, NotifyOne
  <1>4. CASE SweepHeap \/ SweepMap \/ Notified \/ SleepElapsed
    <2>1. CASE SweepHeap
      BY <2>1, Zenon DEF SweepHeap, SweeperAt
    <2>2. CASE SweepMap
      BY <2>2, Zenon DEF SweepMap, SweeperAt
    <2>3. CASE Notified
      BY <2>3, Zenon DEF Notified, SweeperAt
    <2>4. CASE SleepElapsed
      BY <2>4, Zenon DEF SleepElapsed, SweeperAt
    <2> QED
      BY <1>4, <2>1, <2>2, <2>3, <2>4, Zenon
  <1>5. CASE Peek
    BY <1>5, NoneAssumption DEF Peek, Earliest, SweeperAt, TypeOK
  <1>6. CASE Tick \/ UNCHANGED vars
    BY <1>6 DEF Tick, vars
  <1> QED
    BY <1>1, <1>2, <1>3, <1>4, <1>5, <1>6, Zenon DEF Next, Sweep, Finish, ExpireReturn

(* The inductive invariant behind the safety theorem. *)
THEOREM Invariant == Spec => []IInv
  <1>1. Init => IInv
    BY InitType, InitTracked, NoneAssumption
    DEF Init, IInv, HeapLockOwned, AlarmCoversHeap, SweeperAt, Idle
  <1>2. IInv /\ [Next]_vars => IInv'
    BY NextType, NextLock, NextTracked, NextAlarm, Zenon DEF IInv
  <1> QED
    BY <1>1, <1>2, PTL DEF Spec

(* An expired entry is in the heap, and the alarm covers the heap. *)
LEMMA IInvNoOversleep == IInv => NoOversleep
  <1> SUFFICES ASSUME IInv, sweeper.at = "wait",
                      NEW k \in Key, hashmap[k] # None, Missing(k, clock)
               PROVE  wakeup \/ (sweeper.next_expire # None /\ sweeper.next_expire <= clock)
    BY Zenon DEF NoOversleep
  <1> DEFINE e == <<hashmap[k].expiration_time, k>>
  <1>1. hashmap[k].expiration_time \in Nat /\ hashmap[k].expiration_time <= clock
    BY Zenon DEF IInv, TypeOK, StoreValue, Missing, IsExpired
  <1>2. e \in expiration_heap
    BY <1>1, NoneAssumption, Zenon DEF IInv, ExpirationTracked
  <1>3. wakeup \/ (sweeper.next_expire # None /\ sweeper.next_expire <= e[1])
    BY <1>2, Zenon DEF IInv, AlarmCoversHeap
  <1>4. sweeper.next_expire \in Nat \cup {None} /\ clock \in Nat
    BY Zenon DEF IInv, TypeOK, Sweeper
  <1> QED
    BY <1>1, <1>3, <1>4

(* Whoever holds the heap's lock is at a step that gives it back: neither  *)
(* EXPIRE nor the sweeper can leave the heap locked.                       *)
THEOREM HeapLockSafe == Spec => []HeapLockOwned
  BY Invariant, PTL DEF IInv

(* Every expiration time EXPIRE or restore put on an entry is in the heap  *)
(* until the sweeper has taken the entry out of the map.                   *)
THEOREM ExpirationSafe == Spec => []ExpirationTracked
  BY Invariant, PTL DEF IInv

(* The sweeper is never asleep past the end of an entry's life with no     *)
(* notification on its way, whatever the clients did while it looked.      *)
THEOREM SweeperSafe == Spec => []NoOversleep
  BY Invariant, IInvNoOversleep, PTL

-----------------------------------------------------------------------------
(* Store implements ExpiringMap *)

(* Clocks that were read before an await are in the past, and a DEL that   *)
(* will find its key unexpired has seen it live.                           *)
ClocksInThePast ==
    /\ clock <= MaxClock
    /\ sweeper.at = "map" => sweeper.now <= clock
    /\ \A c \in Client : call[c].op = "del" =>
          /\ call[c].now <= clock
          /\ ~Missing(call[c].key, call[c].now) => lived[c] # "never"

RInv == TypeOK /\ ClocksInThePast

-----------------------------------------------------------------------------
(* A DEL in flight has a key and the clock it read. *)
LEMMA DelCallType ==
    ASSUME TypeOK, NEW c \in Client, call[c].op = "del"
    PROVE  call[c].key \in Key /\ call[c].now \in Nat
  BY DEF TypeOK, Call, Idle

(* What has expired stays expired. *)
LEMMA MissingStays ==
    ASSUME TypeOK
    PROVE  \A k \in Key : \A s, t \in Nat : s <= t /\ Missing(k, s) => Missing(k, t)
  <1>1. \A k \in Key : hashmap[k] # None => hashmap[k].expiration_time \in Nat \cup {None}
    BY Zenon DEF TypeOK, StoreValue
  <1> QED
    BY <1>1 DEF Missing, IsExpired

(* A product with a nonzero factor is zero only if the other factor is. *)
LEMMA NoZeroDivisor == \A a \in Nat, b \in Nat \ {0} : a * b = 0 <=> a = 0
  OBVIOUS

(* Every step keeps ClocksInThePast: the clocks in the past, and the DELs  *)
(* in flight witnessed.                                                    *)
LEMMA NextClocks == RInv /\ [Next]_vars => ClocksInThePast'
  <1> SUFFICES ASSUME RInv, [Next]_vars PROVE ClocksInThePast'
    OBVIOUS
  <1> USE DEF RInv, ClocksInThePast
  <1>1. ASSUME NEW c \in Client, NEW k \in Key, Get(c, k) \/ TimeToLive(c, k)
        PROVE  ClocksInThePast'
    BY <1>1 DEF Get, TimeToLive, Return, Idle, TypeOK, Missing, IsExpired
  <1>2. ASSUME NEW c \in Client, NEW k \in Key, DelCall(c, k) PROVE ClocksInThePast'
    BY <1>2 DEF DelCall, TypeOK, Missing, IsExpired, Live
  <1>3. ASSUME NEW c \in Client, NEW k \in Key, NEW v \in Value, Set(c, k, v)
        PROVE  ClocksInThePast'
    BY <1>3, DelCallType, Zenon DEF Set, Return, Idle, TypeOK, Missing, IsExpired, Witnessed
  <1>4. ASSUME NEW c \in Client, NEW k \in Key, NEW ttl \in Ttl, ExpireCall(c, k, ttl)
        PROVE  ClocksInThePast'
    BY <1>4, Zenon DEF ExpireCall, TypeOK, Missing, IsExpired
  <1>5. ASSUME NEW c \in Client, DelReturn(c) PROVE ClocksInThePast'
    BY <1>5, DelCallType, Zenon DEF DelReturn, Return, Idle, TypeOK, Missing, IsExpired
  <1>6. ASSUME NEW c \in Client, ExpireMissing(c) \/ ExpirePanics(c)
        PROVE  ClocksInThePast'
    <2>1. CASE ExpireMissing(c)
      BY <2>1, DelCallType, ExpiresNat, Zenon DEF ExpireMissing, Return, Idle, TypeOK, Missing, IsExpired
    <2>2. CASE ExpirePanics(c)
      BY <2>2, DelCallType, ExpiresNat, Zenon DEF ExpirePanics, Return, Idle, TypeOK, Missing, IsExpired
    <2> QED
      BY <1>6, <2>1, <2>2, Zenon
  <1>7. ASSUME NEW c \in Client, ExpireSets(c) PROVE ClocksInThePast'
    BY <1>7, DelCallType, ExpiresNat, Zenon
    DEF ExpireSets, Return, Idle, TypeOK, Missing, IsExpired, Witnessed
  <1>8. ASSUME NEW c \in Client, Abort(c) PROVE ClocksInThePast'
    BY <1>8, Zenon DEF Abort, Idle, TypeOK, Missing, IsExpired
  <1>9. CASE SweepMap
    BY <1>9, DelCallType, Zenon DEF SweepMap, SweeperAt, TypeOK, Missing, IsExpired
  <1>10. CASE SweepHeap \/ Peek \/ Notified \/ SleepElapsed
    BY <1>10 DEF SweepHeap, Peek, Notified, SleepElapsed, SweeperAt, TypeOK, Missing, IsExpired
  <1>11. CASE Tick
    BY <1>11, DelCallType, TimeAssumption DEF Tick, TypeOK, Sweeper, Missing, IsExpired
  <1>12. CASE UNCHANGED vars
    BY <1>12, Zenon DEF vars, Missing, IsExpired
  <1> QED
    BY <1>1, <1>2, <1>3, <1>4, <1>5, <1>6, <1>7, <1>8, <1>9, <1>10, <1>11, <1>12, Zenon
    DEF Next, Sweep, Start, Finish, ExpireReturn

(* The clocks read before an await stay in the past. *)
THEOREM ClocksOrdered == Spec => []RInv
  <1>1. Init => RInv
    BY InitType, TimeAssumption DEF Init, RInv, ClocksInThePast, SweeperAt, Idle
  <1>2. RInv /\ [Next]_vars => RInv'
    BY NextType, NextClocks, Zenon DEF RInv
  <1> QED
    BY <1>1, <1>2, PTL DEF Spec

-----------------------------------------------------------------------------
(* The mapped state *)

(* The mapping shows a key exactly when it is live, with its entry. *)
LEMMA VisibleLive ==
    ASSUME TypeOK, NEW k \in Key
    PROVE  /\ Promise!Live(k) <=> Live(k)
           /\ Live(k) => Visible[k] = hashmap[k] /\ hashmap[k] \in StoreValue
  BY NoneAssumption, Zenon DEF Promise!Live, Visible, Live, Missing, TypeOK

(* The mapping shows a client's DEL exactly while it is in flight, with    *)
(* its key and whether the key was seen live.                              *)
LEMMA PendingDelOf ==
    ASSUME TypeOK, NEW c \in Client
    PROVE  /\ PendingDel[c] # None <=> call[c].op = "del"
           /\ call[c].op = "del" => /\ PendingDel[c].key = call[c].key
                                    /\ PendingDel[c].live = (lived[c] # "never")
  <1>1. CASE call[c].op = "del"
    <2>1. [key |-> call[c].key, live |-> lived[c] # "never"] \in [key : Key, live : BOOLEAN]
      BY <1>1, DelCallType, Zenon
    <2> QED
      BY <1>1, <2>1, NoneAssumption, Zenon DEF PendingDel
  <1>2. CASE call[c].op # "del"
    BY <1>2, Zenon DEF PendingDel
  <1> QED
    BY <1>1, <1>2, Zenon

(* A client that waits for nothing has no DEL in flight. *)
LEMMA IdleNoDel ==
    ASSUME TypeOK, NEW c \in Client, call[c] = Idle PROVE PendingDel[c] = None
  <1>1. call[c].op # "del"
    BY DEF Idle
  <1> QED
    BY <1>1, PendingDelOf, Zenon

(* A store, empty or restored, shows a map without expired entries and no  *)
(* DEL in flight.                                                          *)
LEMMA InitRefines == Init => Promise!Init
  <1> SUFFICES ASSUME Init PROVE Promise!Init
    OBVIOUS
  <1>0. TypeOK
    BY InitType, Zenon
  <1>1. Visible \in [Key -> Promise!Entry \cup {None}]
    BY <1>0, VisibleLive, Zenon DEF Visible, Promise!Entry, StoreValue
  <1>2. \A k \in Key : Promise!Live(k) => \/ Visible[k].expiration_time = None
                                          \/ Visible[k].expiration_time > clock
    BY <1>0, VisibleLive DEF Live, Missing, IsExpired, StoreValue, TypeOK
  <1>3. PendingDel = [c \in Client |-> None]
    BY Zenon DEF PendingDel, Init, Idle
  <1> QED
    BY <1>1, <1>2, <1>3, Zenon DEF Init, Promise!Init

(* Steps that leave the clock and a key's entry alone leave it as visible  *)
(* as it was; the same for the DELs in flight.                             *)
LEMMA VisibleFrame ==
    ASSUME UNCHANGED <<clock, hashmap>> PROVE Visible' = Visible
  BY Zenon DEF Visible, Live, Missing, IsExpired

(* A write to the hashmap changes what is visible at its key only, and     *)
(* shows the entry only if it has not expired.                             *)
LEMMA VisibleWrite ==
    ASSUME TypeOK, UNCHANGED clock, NEW k \in Key, NEW e,
           hashmap' = [hashmap EXCEPT ![k] = e]
    PROVE  Visible' = [Visible EXCEPT ![k] = IF e # None /\ ~IsExpired(e, clock)
                                               THEN e ELSE None]
  BY Zenon DEF Visible, Live, Missing, IsExpired, TypeOK

(* A step that neither starts nor ends a DEL, and witnesses nothing new,   *)
(* leaves the DELs in flight as they are.                                  *)
LEMMA PendingFrame ==
    ASSUME TypeOK, UNCHANGED lived,
           \A c \in Client : \/ call'[c] = call[c]
                             \/ call[c].op # "del" /\ call'[c].op # "del"
    PROVE  PendingDel' = PendingDel
  BY Zenon DEF PendingDel

-----------------------------------------------------------------------------
(* Every step is a step of ExpiringMap, or invisible *)

(* Every step of the store is a step of ExpiringMap, or invisible in it. *)
LEMMA StepRefines ==
    ASSUME RInv, [Next]_vars
    PROVE  [Promise!Next]_(Promise!vars)
  <1> USE DEF RInv
  <1>1. ASSUME NEW c \in Client, NEW k \in Key, Get(c, k) PROVE Promise!Next
    <2>1. Visible' = Visible /\ PendingDel' = PendingDel
      BY <1>1, VisibleFrame, PendingFrame, Zenon DEF Get, Return, Idle, TypeOK
    <2>2. PendingDel[c] = None
      BY <1>1, IdleNoDel, Zenon DEF Get
    <2>3. Promise!Get(c, k)
      BY <1>1, <2>1, VisibleLive, Zenon DEF Get, Return, Live, Promise!Get, Promise!Reply
    <2> QED
      BY <2>2, <2>3, Zenon DEF Promise!Next
  <1>2. ASSUME NEW c \in Client, NEW k \in Key, TimeToLive(c, k) PROVE Promise!Next
    <2>1. Visible' = Visible /\ PendingDel' = PendingDel
      BY <1>2, VisibleFrame, PendingFrame, Zenon DEF TimeToLive, Return, Idle, TypeOK
    <2>2. PendingDel[c] = None
      BY <1>2, IdleNoDel, Zenon DEF TimeToLive
    <2>3. Promise!TimeToLive(c, k)
      BY <1>2, <2>1, VisibleLive, Zenon
      DEF TimeToLive, Return, Live, Promise!TimeToLive, Promise!Reply
    <2> QED
      BY <2>2, <2>3, Zenon DEF Promise!Next
  <1>3. ASSUME NEW c \in Client, NEW k \in Key, DelCall(c, k) PROVE Promise!Next
    <2>1. Visible' = Visible
      BY <1>3, VisibleFrame, Zenon DEF DelCall
    <2>2. PendingDel[c] = None
      BY <1>3, IdleNoDel, Zenon DEF DelCall
    <2>3. PendingDel' = [PendingDel EXCEPT ![c] = [key |-> k, live |-> Promise!Live(k)]]
      <3>1. (lived'[c] # "never") = Promise!Live(k)
        <4>1. CASE Live(k)
          <5>1. lived'[c] = "since"
            BY <1>3, <4>1, Zenon DEF DelCall, TypeOK
          <5>2. Promise!Live(k) = TRUE
            BY <4>1, VisibleLive, Zenon DEF Promise!Live
          <5> QED
            BY <5>1, <5>2, Zenon
        <4>2. CASE ~Live(k)
          <5>1. lived'[c] = "never"
            BY <1>3, <4>2, Zenon DEF DelCall, TypeOK
          <5>2. Promise!Live(k) = FALSE
            BY <4>2, VisibleLive, Zenon DEF Promise!Live
          <5> QED
            BY <5>1, <5>2, Zenon
        <4> QED
          BY <4>1, <4>2, Zenon
      <3>2. /\ call'[c].op = "del" /\ call'[c].key = k
            /\ \A d \in Client \ {c} : call'[d] = call[d] /\ lived'[d] = lived[d]
        BY <1>3, Zenon DEF DelCall, TypeOK
      <3>3. ASSUME NEW d \in Client
            PROVE  PendingDel'[d] = [PendingDel EXCEPT ![c] =
                                        [key |-> k, live |-> Promise!Live(k)]][d]
        <4>1. CASE d = c
          BY <3>1, <3>2, <4>1, Zenon DEF PendingDel
        <4>2. CASE d # c
          BY <3>2, <4>2, Zenon DEF PendingDel
        <4> QED
          BY <4>1, <4>2, Zenon
      <3> QED
        BY <3>3, Zenon DEF PendingDel
    <2>4. Promise!DelCall(c, k)
      BY <1>3, <2>1, <2>3, Zenon DEF DelCall, Promise!DelCall
    <2> QED
      BY <2>2, <2>4, Zenon DEF Promise!Next
  <1>4. ASSUME NEW c \in Client, NEW k \in Key, NEW v \in Value, Set(c, k, v)
        PROVE  Promise!Next
    <2> DEFINE e == [value |-> v, expiration_time |-> None]
    <2>1. Visible' = [Visible EXCEPT ![k] = e]
      <3>1. e \in StoreValue /\ e # None /\ ~IsExpired(e, clock)
        BY NoneAssumption DEF StoreValue, IsExpired
      <3> QED
        BY <1>4, <3>1, VisibleWrite, Zenon DEF Set
    <2>2. PendingDel[c] = None
      BY <1>4, PendingDelOf DEF Set, Idle
    <2>3. PendingDel' = [d \in Client |-> IF PendingDel[d] # None /\ PendingDel[d].key = k
                                            THEN [key |-> k, live |-> TRUE]
                                            ELSE PendingDel[d]]
      <3>1. \A d \in Client : call'[d] = call[d]
        BY <1>4, Zenon DEF Set, Return, Idle, TypeOK
      <3>2. \A d \in Client : lived'[d] = IF call[d].op = "del" /\ call[d].key = k
                                            THEN "since" ELSE lived[d]
        BY <1>4, Zenon DEF Set, Witnessed
      <3>3. ASSUME NEW d \in Client
            PROVE  PendingDel'[d] = IF PendingDel[d] # None /\ PendingDel[d].key = k
                                      THEN [key |-> k, live |-> TRUE]
                                      ELSE PendingDel[d]
        <4>1. CASE call[d].op = "del" /\ call[d].key = k
          <5>1. (lived'[d] # "never") = TRUE
            BY <3>2, <4>1, Zenon
          <5> QED
            BY <3>1, <4>1, <5>1, PendingDelOf, Zenon DEF PendingDel
        <4>2. CASE ~(call[d].op = "del" /\ call[d].key = k)
          BY <3>1, <3>2, <4>2, PendingDelOf, Zenon DEF PendingDel
        <4> QED
          BY <4>1, <4>2, Zenon
      <3> QED
        BY <3>3, Zenon DEF PendingDel
    <2>4. \E old \in Value \cup {None} :
             /\ Promise!Live(k) => old = Visible[k].value
             /\ Promise!Reply(c, old)
      <3> DEFINE old == IF hashmap[k] = None THEN None ELSE hashmap[k].value
      <3>1. old \in Value \cup {None}
        BY Zenon DEF TypeOK, StoreValue
      <3>2. Promise!Live(k) => old = Visible[k].value
        BY VisibleLive, Zenon DEF Live, Missing
      <3>3. Promise!Reply(c, old)
        BY <1>4, Zenon DEF Set, Return, Promise!Reply
      <3> QED
        BY <3>1, <3>2, <3>3, Zenon
    <2>5. Promise!Set(c, k, v)
      BY <1>4, <2>1, <2>3, <2>4, Zenon DEF Set, Promise!Set
    <2> QED
      BY <2>2, <2>5, Zenon DEF Promise!Next
  <1>5. ASSUME NEW c \in Client, NEW k \in Key, NEW ttl \in Ttl, ExpireCall(c, k, ttl)
        PROVE  UNCHANGED Promise!vars
    BY <1>5, VisibleFrame, PendingFrame DEF ExpireCall, Idle, TypeOK, Promise!vars
  <1>6. ASSUME NEW c \in Client, DelReturn(c) PROVE Promise!Next
    <2> DEFINE k == call[c].key
    <2>1. k \in Key /\ call[c].now \in Nat /\ call[c].now <= clock
      BY <1>6, DelCallType, Zenon DEF DelReturn, ClocksInThePast
    <2>2. PendingDel[c] # None /\ PendingDel[c].key = k /\ PendingDel[c].live = (lived[c] # "never")
      BY <1>6, PendingDelOf, Zenon DEF DelReturn
    <2>3. Visible' = [Visible EXCEPT ![k] = None]
      BY <1>6, <2>1, VisibleWrite, Zenon DEF DelReturn
    <2>4. PendingDel' = [PendingDel EXCEPT ![c] = None]
      BY <1>6, Zenon DEF DelReturn, Return, PendingDel, Idle, TypeOK
    <2>5. \E v \in Value \cup {None} :
             /\ IF Promise!Live(k) THEN v = Visible[k].value
                                   ELSE v # None => PendingDel[c].live
             /\ Promise!Reply(c, v)
      <3> DEFINE v == IF Missing(k, call[c].now) THEN None ELSE hashmap[k].value
      <3>1. v \in Value \cup {None}
        BY <2>1, Zenon DEF Missing, TypeOK, StoreValue
      <3>2. Live(k) => ~Missing(k, call[c].now)
        BY <2>1 DEF Live, Missing, IsExpired, TypeOK, StoreValue
      <3>3. ~Missing(k, call[c].now) => lived[c] # "never"
        BY <1>6, Zenon DEF DelReturn, ClocksInThePast
      <3>4. Promise!Reply(c, v)
        BY <1>6, Zenon DEF DelReturn, Return, Promise!Reply
      <3> QED
        BY <2>1, <2>2, <3>1, <3>2, <3>3, <3>4, VisibleLive, Zenon
    <2>6. Promise!DelReturn(c)
      BY <1>6, <2>2, <2>3, <2>4, <2>5, Zenon DEF DelReturn, Promise!DelReturn
    <2> QED
      BY <2>6, Zenon DEF Promise!Next
  <1>7. ASSUME NEW c \in Client, ExpireMissing(c) PROVE Promise!Next
    <2> DEFINE k == call[c].key
    <2>1. k \in Key /\ call[c].ttl \in Ttl
      BY <1>7, ExpiresNat, Zenon DEF ExpireMissing
    <2>2. PendingDel[c] = None /\ PendingDel' = PendingDel
      BY <1>7, PendingDelOf, PendingFrame, Zenon DEF ExpireMissing, Return, Idle, TypeOK
    <2>3. ~Promise!Live(k)
      BY <1>7, <2>1, VisibleLive, Zenon DEF ExpireMissing, Live
    <2>4. Visible' = Visible
      BY <1>7, <2>1, Zenon DEF ExpireMissing, Visible, Live, Missing, IsExpired, TypeOK
    <2>5. Promise!Expire(c, k, call[c].ttl)
      BY <1>7, <2>2, <2>3, <2>4, Zenon DEF ExpireMissing, Return, Promise!Expire, Promise!Reply
    <2> QED
      BY <2>1, <2>2, <2>5, Zenon DEF Promise!Next
  <1>8. ASSUME NEW c \in Client, ExpirePanics(c) PROVE Promise!Next
    <2> DEFINE k == call[c].key
    <2>1. k \in Key /\ call[c].ttl \in Ttl
      BY <1>8, ExpiresNat, Zenon DEF ExpirePanics
    <2>2. PendingDel[c] = None /\ PendingDel' = PendingDel
      BY <1>8, PendingDelOf, PendingFrame, Zenon DEF ExpirePanics, Return, Idle, TypeOK
    <2>3. Promise!Live(k)
      BY <1>8, <2>1, VisibleLive, Zenon DEF ExpirePanics, Live
    <2>4. Visible' = [Visible EXCEPT ![k] = None]
      BY <1>8, <2>1, VisibleWrite, Zenon DEF ExpirePanics
    <2>5. Promise!ExpirePanics(c, k, call[c].ttl)
      BY <1>8, <2>2, <2>3, <2>4, Zenon
      DEF ExpirePanics, Overflows, Expires, Return,
          Promise!ExpirePanics, Promise!Deadline, Promise!Reply
    <2> QED
      BY <2>1, <2>2, <2>5, Zenon DEF Promise!Next
  <1>9. ASSUME NEW c \in Client, ExpireSets(c) PROVE Promise!Next
    <2> DEFINE k == call[c].key
               ttl == call[c].ttl
               e == [value |-> hashmap[k].value, expiration_time |-> Expires(c)]
    <2>1. k \in Key /\ ttl \in Ttl /\ Expires(c) \in Nat
      BY <1>9, ExpiresNat, Zenon DEF ExpireSets
    <2>2. Live(k)
      BY <1>9, Zenon DEF ExpireSets, Live
    <2>3. e \in StoreValue /\ e # None
      <3>1. hashmap[k].value \in Value
        BY <2>1, <2>2, VisibleLive, Zenon DEF StoreValue
      <3>2. e \in StoreValue
        BY <2>1, <3>1, Zenon DEF StoreValue
      <3> QED
        BY <3>2, NoneAssumption, Zenon
    <2>4. Visible' = [Visible EXCEPT ![k] = IF ttl = 0 THEN None ELSE e]
      <3>1. IsExpired(e, clock) <=> ttl = 0
        <4>1. ttl * Second \in Nat /\ (ttl * Second = 0 <=> ttl = 0)
          BY <2>1, TimeAssumption, TicksOfTtl, NoZeroDivisor, Zenon
        <4>2. e.expiration_time = clock + ttl * Second
          BY Zenon DEF Expires
        <4> QED
          <5>1. clock \in Nat
            BY Zenon DEF TypeOK
          <5> HIDE DEF e, ttl
          <5>2. e.expiration_time \in Nat /\ e.expiration_time # None
            BY <4>1, <4>2, <5>1, NoneAssumption
          <5>3. IsExpired(e, clock) <=> e.expiration_time <= clock
            BY <5>2, Zenon DEF IsExpired
          <5> QED
            BY ONLY <4>1, <4>2, <5>1, <5>3
      <3>2. hashmap' = [hashmap EXCEPT ![k] = e]
        BY <1>9, Zenon DEF ExpireSets
      <3> HIDE DEF e
      <3> QED
        BY <1>9, <2>1, <2>3, <3>1, <3>2, VisibleWrite, Zenon DEF ExpireSets
    <2>5. PendingDel[c] = None
      BY <1>9, PendingDelOf, Zenon DEF ExpireSets
    <2>6. PendingDel' = PendingDel
      <3>1. \A d \in Client : call[d].op = "del" /\ call[d].key = k => lived[d] # "never"
        <4> SUFFICES ASSUME NEW d \in Client, call[d].op = "del", call[d].key = k
                     PROVE  lived[d] # "never"
          OBVIOUS
        <4>1. call[d].now \in Nat /\ clock \in Nat
          BY DelCallType, Zenon DEF TypeOK
        <4>2. /\ call[d].now <= clock
              /\ ~Missing(k, call[d].now) => lived[d] # "never"
          BY Zenon DEF ClocksInThePast
        <4>3. ~Missing(k, call[d].now)
          BY <2>1, <2>2, <4>1, <4>2, MissingStays, Zenon DEF Live
        <4> QED
          BY <4>2, <4>3, Zenon
      <3>2. \A d \in Client : \/ call'[d] = call[d]
                              \/ call[d].op # "del" /\ call'[d].op # "del"
        BY <1>9, Zenon DEF ExpireSets, Return, Idle, TypeOK
      <3>3. \A d \in Client :
               \/ lived'[d] = lived[d]
               \/ call[d].op = "del" /\ call[d].key = k /\ lived'[d] # "never"
        BY <1>9, Zenon DEF ExpireSets, Witnessed
      <3> QED
        BY <3>1, <3>2, <3>3, Zenon DEF PendingDel
    <2>7. Promise!Deadline(ttl) = Expires(c) /\ Promise!Deadline(ttl) <= InstantMax
      BY <1>9, <2>1, TimeAssumption DEF ExpireSets, Overflows, Expires, Promise!Deadline
    <2>8. Promise!Expire(c, k, ttl)
      BY <1>9, <2>1, <2>2, <2>4, <2>6, <2>7, VisibleLive, Zenon
      DEF ExpireSets, Return, Promise!Expire, Promise!Reply
    <2> QED
      BY <2>1, <2>5, <2>8, Zenon DEF Promise!Next
  <1>10. ASSUME NEW c \in Client, Abort(c) PROVE [Promise!Next]_(Promise!vars)
    <2>1. Visible' = Visible
      BY <1>10, VisibleFrame, Zenon DEF Abort
    <2>2. PendingDel' = [PendingDel EXCEPT ![c] = None]
      BY <1>10, Zenon DEF Abort, PendingDel, Idle, TypeOK
    <2>3. CASE call[c].op = "del"
      BY <1>10, <2>1, <2>2, <2>3, PendingDelOf, Zenon DEF Abort, Promise!DelAbort, Promise!Next
    <2>4. CASE call[c].op # "del"
      <3>1. PendingDel[c] = None
        BY <2>4, PendingDelOf, Zenon
      <3>2. PendingDel' = PendingDel
        BY <2>2, <3>1, Zenon DEF PendingDel
      <3>3. clock' = clock /\ ret' = ret
        BY <1>10, Zenon DEF Abort
      <3> QED
        BY <2>1, <3>2, <3>3, Zenon DEF Promise!vars
    <2> QED
      BY <2>3, <2>4, Zenon
  <1>11. CASE SweepMap
    <2>1. \A k \in Key : Live(k) => ~Sweepable(k)
      <3>1. clock \in Nat /\ sweeper.now \in Nat
        BY Zenon DEF TypeOK, Sweeper
      <3>2. sweeper.now <= clock
        BY <1>11, Zenon DEF SweepMap, ClocksInThePast
      <3> QED
        BY <3>1, <3>2, MissingStays, Zenon DEF Sweepable, Live
    <2>2. Visible' = Visible
      BY <1>11, <2>1, Zenon DEF SweepMap, Visible, Live, Missing, IsExpired
    <2> QED
      BY <1>11, <2>2, PendingFrame, Zenon DEF SweepMap, Promise!vars
  <1>12. CASE SweepHeap \/ Peek \/ Notified \/ SleepElapsed
    BY <1>12, VisibleFrame, PendingFrame, Zenon
    DEF SweepHeap, Peek, Notified, SleepElapsed, Promise!vars
  <1>13. CASE Tick
    <2>1. PendingDel' = PendingDel
      BY <1>13, PendingFrame, Zenon DEF Tick
    <2>2. Visible' = [k \in Key |-> IF /\ Promise!Live(k)
                                       /\ Visible[k].expiration_time # None
                                       /\ Visible[k].expiration_time <= clock'
                                      THEN None ELSE Visible[k]]
      <3>1. ASSUME NEW k \in Key
            PROVE  Visible'[k] = IF /\ Promise!Live(k)
                                    /\ Visible[k].expiration_time # None
                                    /\ Visible[k].expiration_time <= clock'
                                   THEN None ELSE Visible[k]
        <4>1. hashmap' = hashmap /\ clock' = clock + 1 /\ clock \in Nat
          BY <1>13, Zenon DEF Tick, TypeOK
        <4>2. CASE ~Live(k)
          <5>1. ~Live(k)'
            BY <4>1, <4>2 DEF Live, Missing, IsExpired, TypeOK, StoreValue
          <5> QED
            BY <4>2, <5>1, VisibleLive, Zenon DEF Visible
        <4>3. CASE Live(k)
          <5>1. Visible[k] = hashmap[k] /\ hashmap[k] \in StoreValue /\ hashmap[k] # None
            BY <4>3, VisibleLive, Zenon DEF Live, Missing
          <5>2. Live(k)' <=> ~(/\ hashmap[k].expiration_time # None
                               /\ hashmap[k].expiration_time <= clock')
            BY <4>1, <5>1, Zenon DEF Live, Missing, IsExpired, StoreValue
          <5>3. Visible'[k] = IF Live(k)' THEN hashmap[k] ELSE None
            BY <4>1, Zenon DEF Visible
          <5> QED
            BY <4>3, <5>1, <5>2, <5>3, VisibleLive, Zenon
        <4> QED
          BY <4>2, <4>3, Zenon
      <3> QED
        BY <3>1, Zenon DEF Visible
    <2> QED
      BY <1>13, <2>1, <2>2, Zenon DEF Tick, Promise!Tick, Promise!Next
  <1>14. CASE UNCHANGED vars
    BY <1>14, VisibleFrame, PendingFrame, Zenon DEF vars, Promise!vars
  <1> QED
    BY <1>1, <1>2, <1>3, <1>4, <1>5, <1>6, <1>7, <1>8, <1>9, <1>10, <1>11, <1>12,
       <1>13, <1>14, Zenon
    DEF Next, Sweep, Start, Finish, ExpireReturn

(* The store implements ExpiringMap: sweeping, and when it happens, is     *)
(* invisible to every client.                                              *)
THEOREM Refinement == Spec => ImplementsExpiringMap
  <1>1. RInv /\ [Next]_vars => [Promise!Next]_(Promise!vars)
    BY StepRefines, Zenon
  <1> QED
    BY <1>1, InitRefines, ClocksOrdered, PTL DEF Spec, ImplementsExpiringMap, Promise!Spec
=============================================================================
