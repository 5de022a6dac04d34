--------------------------- MODULE SnapshotProofs ----------------------------
(***************************************************************************)
(* What restarts do to deadlines, proved for any number of them, any keys  *)
(* and any unit of time: TypeOK, NeverOutlives, NeverCutShort and          *)
(* RefusedOnlyIfHuge.                                                      *)
(*                                                                         *)
(* Between a dump and a restore a deadline is a number of milliseconds of  *)
(* the system clock.  Due turns it into the tick it stands for, which can  *)
(* be compared with the one the client asked for.  That rounding does not  *)
(* add up over restarts rests on everything but the deadline itself being  *)
(* a whole number of milliseconds (Whole).                                 *)
(***************************************************************************)
EXTENDS Snapshot, TLAPS

Whole(n) == n = (n \div Milli) * Milli

Begin == Epoch * Milli

Due(e) == e * Milli - Begin - step

Types == /\ TypeOK
         /\ asked \in [Key -> Int \cup {None}]
         /\ kept \in [Key -> Value \cup {None}]
         /\ step >= -Begin /\ Whole(step)
         /\ \A k \in Key : Whole(late[k])

Running == process \in {"up", "dumping"}

Control == /\ process \in {"dumping", "down"} => restarts < MaxRestarts
           /\ process = "dumping" => now <= time
           /\ ~Running => \A k \in Key : hashmap[k] = None

(* The deadline of an entry that is in memory. *)
InMemory(k) ==
    hashmap[k] # None =>
        /\ asked[k] = None <=> hashmap[k].expiration_time = None
        /\ asked[k] # None =>
              /\ hashmap[k].expiration_time <= LastTickOfMilli(asked[k]) + late[k]
              /\ hashmap[k].expiration_time >= asked[k] - early[k]

(* The deadline of one that waits in the archive; the key is there if a    *)
(* client could see it.                                                    *)
InArchive(k) ==
    /\ snapshot[k] # None =>
          /\ asked[k] = None <=> snapshot[k].expiration_time_unix = None
          /\ asked[k] # None =>
                /\ Due(snapshot[k].expiration_time_unix) <= LastTickOfMilli(asked[k]) + late[k]
                /\ Due(snapshot[k].expiration_time_unix) >= asked[k] - early[k]
    /\ kept[k] # None => snapshot[k] # None /\ snapshot[k].value = kept[k]

StillSeen(k) == kept[k] # None /\ (asked[k] # None => time < asked[k] - early[k])
                => SeenAt(k, time) = kept[k]

SnapshotInv == /\ Types /\ Control
               /\ \A k \in Key : InMemory(k)
               /\ process = "down" => \A k \in Key : InArchive(k)
               /\ process = "up" => \A k \in Key : StillSeen(k)

-----------------------------------------------------------------------------
(* Milliseconds and ticks *)

(* Division rounds down, below zero too. *)
LEMMA Division ==
    ASSUME NEW a \in Int
    PROVE  /\ a \div Milli \in Int
           /\ (a \div Milli) * Milli <= a
           /\ a < (a \div Milli) * Milli + Milli
BY SnapshotAssumption

(* Milliseconds that begin before the end of another begin no later. *)
LEMMA Apart ==
    ASSUME NEW p \in Int, NEW q \in Int, p * Milli < q * Milli + Milli
    PROVE  p <= q
BY SnapshotAssumption

(* A time that is not negative has that many milliseconds. *)
LEMMA DivisionOfNat ==
    ASSUME NEW a \in Nat
    PROVE  a \div Milli \in Nat
<1>1. a \div Milli \in Int /\ a < (a \div Milli) * Milli + Milli
  BY Division
<1>2. 0 * Milli < (a \div Milli) * Milli + Milli
  BY <1>1, SnapshotAssumption
<1>3. 0 <= a \div Milli
  BY <1>1, <1>2, Apart
<1> QED
  BY <1>1, <1>3

(* There is only one way to write a number as milliseconds and a rest. *)
LEMMA DivisionIs ==
    ASSUME NEW a \in Int, NEW q \in Int, q * Milli <= a, a < q * Milli + Milli
    PROVE  a \div Milli = q
<1> DEFINE p == a \div Milli
<1>1. p \in Int /\ p * Milli <= a /\ a < p * Milli + Milli
  BY Division, Zenon
<1> HIDE DEF p
<1>2. p * Milli < q * Milli + Milli /\ q * Milli < p * Milli + Milli
  BY <1>1, SnapshotAssumption
<1>3. p <= q /\ q <= p
  BY <1>1, <1>2, Apart, Zenon
<1> QED
  BY <1>1, <1>3 DEF p

(* Whole is what it should be: the multiples of a millisecond. *)
LEMMA WholeMultiple ==
    ASSUME NEW q \in Int
    PROVE  Whole(q * Milli) /\ q * Milli \in Int
<1>1. (q * Milli) \div Milli = q
  BY DivisionIs, SnapshotAssumption
<1> QED
  BY <1>1, SnapshotAssumption DEF Whole

(* Sums and differences of whole milliseconds are whole milliseconds. *)
LEMMA WholeSum ==
    ASSUME NEW a \in Int, NEW b \in Int, Whole(a), Whole(b)
    PROVE  Whole(a + b) /\ Whole(a - b)
<1> DEFINE p == a \div Milli
           q == b \div Milli
<1>1. p \in Int /\ q \in Int
  BY Division, Zenon
<1>2. a = p * Milli /\ b = q * Milli
  BY Zenon DEF Whole
<1> HIDE DEF p, q
<1>3. a + b = (p + q) * Milli /\ a - b = (p - q) * Milli
  BY <1>1, <1>2, SnapshotAssumption
<1> QED
  BY <1>1, <1>3, WholeMultiple

(* The last tick of a millisecond is at or after any of its ticks, and     *)
(* moves with whole milliseconds.                                          *)
LEMMA LastTick ==
    ASSUME NEW a \in Int
    PROVE  /\ LastTickOfMilli(a) \in Int
           /\ a <= LastTickOfMilli(a)
           /\ LastTickOfMilli(a) <= a + Milli - 1
           /\ Whole(LastTickOfMilli(a) - (Milli - 1))
<1> DEFINE q == a \div Milli
<1>1. q \in Int /\ q * Milli <= a /\ a < q * Milli + Milli
  BY Division, Zenon
<1>2. LastTickOfMilli(a) = q * Milli + Milli - 1
  BY Zenon DEF LastTickOfMilli
<1> HIDE DEF q
<1>3. Whole(q * Milli) /\ q * Milli \in Int
  BY <1>1, WholeMultiple, Zenon
<1>4. LastTickOfMilli(a) - (Milli - 1) = q * Milli
  BY <1>2, <1>3, SnapshotAssumption
<1> QED
  BY <1>1, <1>2, <1>3, <1>4, SnapshotAssumption

(* Moving a tick by whole milliseconds moves the end of its millisecond. *)
LEMMA LastTickMoves ==
    ASSUME NEW a \in Int, NEW s \in Int, Whole(s)
    PROVE  LastTickOfMilli(a - s) = LastTickOfMilli(a) - s
<1> DEFINE q == a \div Milli
           n == s \div Milli
<1>1. q \in Int /\ q * Milli <= a /\ a < q * Milli + Milli /\ n \in Int
  BY Division, Zenon
<1>2. s = n * Milli
  BY Zenon DEF Whole
<1>3. LastTickOfMilli(a) = q * Milli + Milli - 1
  BY Zenon DEF LastTickOfMilli
<1> HIDE DEF q, n
<1>4. (q - n) * Milli = q * Milli - s /\ q * Milli \in Int
  BY <1>1, <1>2, SnapshotAssumption
<1>5. /\ a - s \in Int /\ q - n \in Int
      /\ (q - n) * Milli <= a - s /\ a - s < (q - n) * Milli + Milli
  BY <1>1, <1>4, SnapshotAssumption
<1>6. (a - s) \div Milli = q - n
  BY <1>5, DivisionIs, Zenon
<1> QED
  BY <1>3, <1>4, <1>6, SnapshotAssumption DEF LastTickOfMilli

(* Whole numbers of milliseconds that are less than one apart. *)
LEMMA WholeBelow ==
    ASSUME NEW a \in Int, NEW b \in Int, Whole(a), Whole(b), a <= b + Milli - 1
    PROVE  a <= b
<1> DEFINE p == a \div Milli
           q == b \div Milli
<1>1. p \in Int /\ q \in Int
  BY Division, Zenon
<1>2. a = p * Milli /\ b = q * Milli
  BY Zenon DEF Whole
<1> HIDE DEF p, q
<1>3. p <= q
  BY <1>1, <1>2, Apart, SnapshotAssumption
<1>4. (q - p) * Milli >= 0 /\ (q - p) * Milli = q * Milli - p * Milli
  BY <1>1, <1>3, SnapshotAssumption
<1> QED
  BY <1>2, <1>4, SnapshotAssumption

(* Ceiling rounds up to whole milliseconds. *)
LEMMA CeilingOf ==
    ASSUME NEW d \in Nat
    PROVE  Ceiling(d) \in Nat /\ d <= Ceiling(d) /\ Whole(Ceiling(d))
<1> DEFINE a == d + Milli - 1
           q == a \div Milli
<1>1. a \in Nat
  BY SnapshotAssumption
<1>2. q \in Nat /\ a < q * Milli + Milli
  BY <1>1, Division, DivisionOfNat
<1>3. Ceiling(d) = q * Milli
  BY Zenon DEF Ceiling
<1> HIDE DEF q
<1> QED
  BY <1>1, <1>2, <1>3, WholeMultiple, SnapshotAssumption

-----------------------------------------------------------------------------
(* The two conversions *)

ClockSet == step \in Int /\ step >= -Begin /\ Whole(step)

(* The clock starts at a whole millisecond. *)
LEMMA BeginType == Begin \in Nat /\ Whole(Begin)
<1>1. Epoch \in Nat /\ Milli \in Nat
  BY SnapshotAssumption, Zenon
<1>2. Epoch * Milli \in Nat /\ Whole(Epoch * Milli)
  BY <1>1, WholeMultiple
<1> QED
  BY <1>2, Zenon DEF Begin

(* A deadline of the archive falls on a whole millisecond. *)
LEMMA DueType ==
    ASSUME ClockSet, NEW e \in Int
    PROVE  Due(e) \in Int /\ Whole(Due(e))
<1> DEFINE a == e * Milli
<1>1. Whole(a) /\ a \in Int
  BY WholeMultiple, Zenon
<1>2. Whole(Begin) /\ Begin \in Int
  BY BeginType
<1>3. Due(e) = a - Begin - step
  BY Zenon DEF Due
<1> HIDE DEF a
<1>4. Whole(a - Begin) /\ a - Begin \in Int
  BY <1>1, <1>2, WholeSum
<1> DEFINE b == a - Begin
<1>5. Due(e) = b - step
  BY <1>3, Zenon
<1> HIDE DEF b
<1>6. Whole(b) /\ b \in Int /\ Whole(step) /\ step \in Int
  BY <1>4, Zenon DEF b, ClockSet
<1> QED
  BY <1>5, <1>6, WholeSum

(* A dump makes a deadline earlier by less than two milliseconds and the   *)
(* time between its clock readings, and later only if it has passed.       *)
LEMMA Dumped ==
    ASSUME ClockSet, NEW x \in Nat, NEW t \in Nat, NEW d \in Nat, NEW r \in Readings(d)
    PROVE  LET e == UnixMillis(x, Unix(t + r[1]), t + r[2])
           IN  /\ e \in Nat
               /\ Due(e) >= x - d - 2 * (Milli - 1)
               /\ Due(e) <= x \/ Due(e) <= t + d
<1> DEFINE u == Unix(t + r[1])
           y == Saturating(x - (t + r[2]))
           p == y \div Milli
           q == u \div Milli
           e == p + q
<1>1. r[1] \in Nat /\ r[2] \in Nat /\ r[1] <= r[2] /\ r[2] <= d
  BY DEF Readings
<1>2. u \in Nat /\ u = t + r[1] + Begin + step
  BY <1>1, BeginType DEF Unix, ClockSet, Begin
<1>3. y \in Nat /\ y >= x - (t + r[2]) /\ (y = x - (t + r[2]) \/ y = 0)
  BY <1>1 DEF Saturating
<1>4. p \in Nat /\ p * Milli <= y /\ y < p * Milli + Milli
  BY <1>3, Division, DivisionOfNat
<1>5. q \in Nat /\ q * Milli <= u /\ u < q * Milli + Milli
  BY <1>2, Division, DivisionOfNat
<1>6. UnixMillis(x, Unix(t + r[1]), t + r[2]) = e
  BY Zenon DEF UnixMillis
<1> HIDE DEF p, q, u, y
<1>7. e * Milli = p * Milli + q * Milli /\ p * Milli \in Int /\ q * Milli \in Int
  BY <1>4, <1>5, SnapshotAssumption
<1> HIDE DEF e
<1>8. Due(e) = p * Milli + q * Milli - Begin - step
  BY <1>7, BeginType DEF Due, ClockSet
<1>9. Due(e) >= x - d - 2 * (Milli - 1)
  BY <1>1, <1>2, <1>3, <1>4, <1>5, <1>7, <1>8, BeginType, SnapshotAssumption DEF ClockSet
<1>10. Due(e) <= x \/ Due(e) <= t + d
  BY <1>1, <1>2, <1>3, <1>4, <1>5, <1>7, <1>8, BeginType, SnapshotAssumption DEF ClockSet
<1> QED
  BY <1>4, <1>5, <1>6, <1>9, <1>10 DEF e

(* from_snapshot drops the deadlines that are due. *)
LEMMA UnexpiredIsDue ==
    ASSUME ClockSet, NEW e \in Nat, NEW t \in Nat
    PROVE  e > Unix(t) \div Milli <=> Due(e) > t
<1> DEFINE u == Unix(t)
           q == u \div Milli
<1>1. u \in Int /\ u = t + Begin + step
  BY BeginType DEF Unix, ClockSet, Begin
<1>2. q \in Int /\ q * Milli <= u /\ u < q * Milli + Milli
  BY <1>1, Division, Zenon
<1> HIDE DEF u, q
<1>3. e * Milli \in Int /\ q * Milli \in Int /\ Due(e) = e * Milli - Begin - step
  BY <1>2, SnapshotAssumption DEF Due
<1>4. ASSUME e > q PROVE Due(e) > t
  <2>1. (e - q - 1) * Milli >= 0
    BY <1>2, <1>4, SnapshotAssumption
  <2>2. (e - q - 1) * Milli = e * Milli - q * Milli - Milli
    BY <1>2, SnapshotAssumption
  <2> QED
    BY <1>1, <1>2, <1>3, <2>1, <2>2, BeginType, SnapshotAssumption DEF ClockSet
<1>5. ASSUME Due(e) > t, ~(e > q) PROVE FALSE
  <2>1. (q - e) * Milli >= 0
    BY <1>2, <1>5, SnapshotAssumption
  <2>2. (q - e) * Milli = q * Milli - e * Milli
    BY <1>2, SnapshotAssumption
  <2> QED
    BY <1>1, <1>2, <1>3, <1>5, <2>1, <2>2, BeginType, SnapshotAssumption DEF ClockSet
<1> QED
  BY <1>4, <1>5, Zenon DEF u, q

(* A restore makes no deadline earlier, and one that is not due later by   *)
(* less than a millisecond and the time between its clock readings.        *)
LEMMA Restored ==
    ASSUME ClockSet, NEW v, v.expiration_time_unix \in Nat,
           NEW t \in Nat, NEW d \in Nat, NEW r \in Readings(d)
    PROVE  LET e == v.expiration_time_unix
               rest == Remaining(v, Unix(t + r[1]))
               x == t + r[2] + rest * Milli
           IN  /\ rest \in Nat /\ x \in Nat
               /\ x >= Due(e)
               /\ Due(e) > t => x <= Due(e) + d + Milli - 1
               /\ rest > U64Max => Due(e) - t >= U64Max * Milli + 1
<1> DEFINE e == v.expiration_time_unix
           u == Unix(t + r[1])
           q == u \div Milli
           rest == Saturating(e - q)
           x == t + r[2] + rest * Milli
<1>1. r[1] \in Nat /\ r[2] \in Nat /\ r[1] <= r[2] /\ r[2] <= d
  BY DEF Readings
<1>2. u \in Int /\ u = t + r[1] + Begin + step
  BY <1>1, BeginType DEF Unix, ClockSet, Begin
<1>3. q \in Int /\ q * Milli <= u /\ u < q * Milli + Milli
  BY <1>2, Division, Zenon
<1>4. Remaining(v, u) = rest
  BY Zenon DEF Remaining
<1>5. e \in Nat
  OBVIOUS
<1> HIDE DEF e, u, q
<1>6. rest \in Nat /\ rest >= e - q /\ (rest = e - q \/ rest = 0)
  BY <1>3, <1>5 DEF Saturating
<1> HIDE DEF rest
<1>7. /\ e * Milli \in Int /\ q * Milli \in Int /\ rest * Milli \in Nat
      /\ Due(e) = e * Milli - Begin - step
  BY <1>3, <1>5, <1>6, SnapshotAssumption DEF Due
<1>8. rest * Milli >= e * Milli - q * Milli
  <2>1. (rest - (e - q)) * Milli >= 0
    BY <1>3, <1>5, <1>6, SnapshotAssumption
  <2>2. (rest - (e - q)) * Milli = rest * Milli - (e * Milli - q * Milli)
    BY <1>3, <1>5, <1>6, SnapshotAssumption
  <2> QED
    BY <1>7, <2>1, <2>2
<1>9. rest * Milli = e * Milli - q * Milli \/ rest * Milli = 0
  BY <1>3, <1>5, <1>6, SnapshotAssumption
<1>10. x \in Nat /\ x >= Due(e)
  BY <1>1, <1>2, <1>3, <1>7, <1>8, BeginType, SnapshotAssumption DEF ClockSet
<1>11. Due(e) > t => x <= Due(e) + d + Milli - 1
  BY <1>1, <1>2, <1>3, <1>7, <1>9, BeginType, SnapshotAssumption DEF ClockSet
<1>12. ASSUME rest > U64Max PROVE Due(e) - t >= U64Max * Milli + 1
  <2>1. (rest - U64Max - 1) * Milli >= 0
    BY <1>6, <1>12, SnapshotAssumption
  <2>2. /\ (rest - U64Max - 1) * Milli = rest * Milli - U64Max * Milli - Milli
        /\ U64Max * Milli \in Int
    BY <1>6, SnapshotAssumption
  <2>3. rest * Milli = e * Milli - q * Milli
    BY <1>6, <1>12, <1>3, <1>5, SnapshotAssumption
  <2> QED
    BY <1>1, <1>2, <1>3, <1>7, <2>1, <2>2, <2>3, BeginType, SnapshotAssumption DEF ClockSet
<1> QED
  BY <1>4, <1>6, <1>10, <1>11, <1>12, Zenon DEF e, u

-----------------------------------------------------------------------------
(* The steps *)

(* No time at all is a whole number of milliseconds. *)
LEMMA WholeZero == Whole(0) /\ Milli \in Nat \ {0}
<1>1. 0 = (0 \div Milli) * Milli
  BY SnapshotAssumption
<1> QED
  BY <1>1, SnapshotAssumption, Zenon DEF Whole

(* A new store. *)
LEMMA InitInv == Init => SnapshotInv
<1> SUFFICES ASSUME Init PROVE SnapshotInv
  OBVIOUS
<1>1. TypeOK
  BY SnapshotAssumption DEF Init, TypeOK
<1>2. Types
  BY <1>1, WholeZero, BeginType DEF Init, Types
<1>3. Control /\ \A k \in Key : InMemory(k) /\ StillSeen(k)
  BY Zenon DEF Init, Control, Running, InMemory, StillSeen
<1> QED
  BY <1>2, <1>3, Zenon DEF Init, SnapshotInv

(* Keys that a step leaves alone. *)
LEMMA Untouched ==
    ASSUME NEW k \in Key, hashmap'[k] = hashmap[k], asked'[k] = asked[k],
           early'[k] = early[k], late'[k] = late[k], kept'[k] = kept[k]
    PROVE  /\ InMemory(k) => InMemory(k)'
           /\ StillSeen(k) /\ UNCHANGED time => StillSeen(k)'
<1>1. InMemory(k) => InMemory(k)'
  BY Zenon DEF InMemory, LastTickOfMilli
<1>2. UNCHANGED time => SeenAt(k, time)' = SeenAt(k, time)
  BY Zenon DEF SeenAt, IsExpired
<1>3. StillSeen(k) /\ UNCHANGED time => StillSeen(k)'
  BY <1>2, Zenon DEF StillSeen
<1> QED
  BY <1>1, <1>3, Zenon

(* A deadline that a client has just set is the one it asked for. *)
LEMMA WriteInv ==
    ASSUME SnapshotInv, NEW k \in Key, NEW v \in Value, NEW t \in Deadline \cup {None},
           Write(k, v, t)
    PROVE  SnapshotInv'
<1> DEFINE e == [value |-> v, expiration_time |-> t]
<1>1. /\ process = "up" /\ UNCHANGED <<time, step, process, now, snapshot, restarts>>
      /\ hashmap' = [hashmap EXCEPT ![k] = e]
      /\ asked' = [asked EXCEPT ![k] = t] /\ kept' = [kept EXCEPT ![k] = None]
      /\ early' = [early EXCEPT ![k] = 0] /\ late' = [late EXCEPT ![k] = 0]
  BY Zenon DEF Write
<1>2. Types /\ Control /\ \A j \in Key : InMemory(j) /\ StillSeen(j)
  BY <1>1, Zenon DEF SnapshotInv
<1>3. t \in (0 .. InstantMax) \cup {None} /\ t \in Int \cup {None}
  BY SnapshotAssumption
<1>4. e \in [value : Value, expiration_time : (0 .. InstantMax) \cup {None}]
  BY <1>3, Zenon
<1>5. e.expiration_time = t
  OBVIOUS
<1> HIDE DEF e
<1>6. TypeOK'
  BY <1>1, <1>2, <1>4, Zenon DEF Types, TypeOK
<1>7. Types'
  <2>1. \A j \in Key : Whole(late'[j])
    BY <1>1, <1>2, WholeZero, Zenon DEF Types, TypeOK
  <2> QED
    BY <1>1, <1>2, <1>3, <1>6, <2>1, Zenon DEF Types, Whole
<1>8. \A j \in Key : InMemory(j)' /\ StillSeen(j)'
  <2> SUFFICES ASSUME NEW j \in Key PROVE InMemory(j)' /\ StillSeen(j)'
    OBVIOUS
  <2>1. CASE j = k
    <3>1. hashmap'[k] = e /\ asked'[k] = t /\ late'[k] = 0 /\ early'[k] = 0 /\ kept'[k] = None
      BY <1>1, <1>2, Zenon DEF Types, TypeOK
    <3>2. t # None => /\ LastTickOfMilli(t) \in Int /\ t <= LastTickOfMilli(t)
                      /\ t <= LastTickOfMilli(t) + 0 /\ t >= t - 0
      BY <1>3, LastTick
    <3>3. LastTickOfMilli(asked[k])' = LastTickOfMilli(t)
      BY <3>1, Zenon DEF LastTickOfMilli
    <3> QED
      BY <1>5, <2>1, <3>1, <3>2, <3>3, Zenon DEF InMemory, StillSeen
  <2>2. CASE j # k
    <3>1. /\ hashmap'[j] = hashmap[j] /\ asked'[j] = asked[j] /\ early'[j] = early[j]
          /\ late'[j] = late[j] /\ kept'[j] = kept[j]
      BY <1>1, <1>2, <2>2, Zenon DEF Types, TypeOK
    <3> QED
      BY <1>1, <1>2, <3>1, Untouched, Zenon
  <2> QED
    BY <2>1, <2>2, Zenon
<1> QED
  BY <1>1, <1>2, <1>7, <1>8, Zenon DEF SnapshotInv, Control, Running

(* The sweeper takes only what no client can see any more. *)
LEMMA SweepInv ==
    ASSUME SnapshotInv, NEW k \in Key, Sweep(k)
    PROVE  SnapshotInv'
<1>1. /\ Running /\ UNCHANGED <<time, step, process, now, snapshot, restarts, asked, early, late, kept>>
      /\ hashmap[k] # None /\ IsExpired(hashmap[k], time)
      /\ hashmap' = [hashmap EXCEPT ![k] = None]
  BY Zenon DEF Sweep, Running
<1>2. Types /\ Control /\ \A j \in Key : InMemory(j)
  BY Zenon DEF SnapshotInv
<1>3. /\ hashmap'[k] = None
      /\ \A j \in Key : j # k => hashmap'[j] = hashmap[j]
  BY <1>1, <1>2, Zenon DEF Types, TypeOK
<1>4. Types'
  BY <1>1, <1>2, Zenon DEF Types, TypeOK, Whole
<1>5. \A j \in Key : InMemory(j)'
  <2> SUFFICES ASSUME NEW j \in Key PROVE InMemory(j)'
    OBVIOUS
  <2>1. CASE j = k
    BY <1>3, <2>1, Zenon DEF InMemory
  <2>2. CASE j # k
    BY <1>1, <1>2, <1>3, <2>2, Untouched, Zenon
  <2> QED
    BY <2>1, <2>2, Zenon
<1>6. ASSUME process = "up", NEW j \in Key PROVE StillSeen(j)'
  <2>1. StillSeen(j)
    BY <1>6, Zenon DEF SnapshotInv
  <2>2. CASE j = k
    <3>1. SeenAt(k, time) = None
      BY <1>1, Zenon DEF SeenAt
    <3> QED
      BY <1>1, <2>1, <2>2, <3>1, Zenon DEF StillSeen
  <2>3. CASE j # k
    BY <1>1, <1>3, <2>1, <2>3, Untouched, Zenon
  <2> QED
    BY <2>2, <2>3, Zenon
<1> QED
  BY <1>1, <1>2, <1>4, <1>5, <1>6, Zenon DEF SnapshotInv, Control, Running

(* Time alone: a key is seen until its deadline. *)
LEMMA TickInv ==
    ASSUME SnapshotInv, Tick
    PROVE  SnapshotInv'
<1>1. /\ time' = time + 1
      /\ UNCHANGED <<step, hashmap, process, now, snapshot, restarts, asked, early, late, kept>>
  BY Zenon DEF Tick
<1>2. Types /\ Control /\ \A k \in Key : InMemory(k)
  BY Zenon DEF SnapshotInv
<1>3. Types'
  BY <1>1, <1>2 DEF Types, TypeOK, Whole
<1>4. Control'
  BY <1>1, <1>2 DEF Control, Running, Types, TypeOK
<1>5. \A k \in Key : InMemory(k)'
  BY <1>1, <1>2, Untouched, Zenon
<1>6. ASSUME NEW k \in Key, InArchive(k) PROVE InArchive(k)'
  BY <1>1, <1>6, Zenon DEF InArchive, Due, LastTickOfMilli
<1>7. ASSUME NEW k \in Key, StillSeen(k) PROVE StillSeen(k)'
  <2> SUFFICES ASSUME kept[k] # None, asked[k] # None => time + 1 < asked[k] - early[k]
               PROVE  SeenAt(k, time)' = kept[k]
    BY <1>1, Zenon DEF StillSeen
  <2>1. /\ time \in Nat /\ early[k] \in Nat /\ asked[k] \in Int \cup {None}
        /\ hashmap[k] \in [value : Value, expiration_time : (0 .. InstantMax) \cup {None}]
                            \cup {None}
    BY <1>2, Zenon DEF Types, TypeOK
  <2>2. SeenAt(k, time) = kept[k]
    BY <1>7, <2>1, NoneAssumption DEF StillSeen
  <2>3. hashmap[k] # None /\ kept[k] = hashmap[k].value
    BY <2>2, Zenon DEF SeenAt
  <2>4. ~IsExpired(hashmap[k], time + 1)
    BY <1>2, <2>1, <2>3, NoneAssumption DEF InMemory, IsExpired
  <2> QED
    BY <1>1, <2>3, <2>4, Zenon DEF SeenAt, IsExpired
<1> QED
  BY <1>1, <1>3, <1>4, <1>5, <1>6, <1>7, Zenon DEF SnapshotInv

(* The deadlines in the archive move against the Instants by what the      *)
(* system clock is stepped, which is what asked follows.                   *)
LEMMA StepClockInv ==
    ASSUME SnapshotInv, NEW ms \in Steps, StepClock(ms)
    PROVE  SnapshotInv'
<1>1. /\ step = 0 /\ step' = ms * Milli
      /\ asked' = [k \in Key |-> IF process = "down" /\ asked[k] # None
                                   THEN asked[k] - step' ELSE asked[k]]
      /\ UNCHANGED <<time, hashmap, process, now, snapshot, restarts, early, late, kept>>
  BY Zenon DEF StepClock
<1>2. Types /\ Control /\ \A k \in Key : InMemory(k)
  BY Zenon DEF SnapshotInv
<1>3. ms \in Int /\ ms >= -Epoch /\ Epoch \in Nat /\ Milli \in Nat \ {0}
  BY SnapshotAssumption, Zenon
<1>4. step' \in Int /\ Whole(step)' /\ step' >= -Begin /\ Begin \in Nat
  <2>1. Whole(ms * Milli) /\ ms * Milli \in Int
    BY <1>3, WholeMultiple, Zenon
  <2>2. (ms + Epoch) * Milli >= 0 /\ (ms + Epoch) * Milli = ms * Milli + Epoch * Milli
    BY <1>3
  <2> QED
    BY <1>1, <1>3, <2>1, <2>2, BeginType DEF Whole, Begin
<1>5. asked' \in [Key -> Int \cup {None}]
  BY <1>1, <1>2, <1>4 DEF Types
<1>6. Types'
  BY <1>1, <1>2, <1>4, <1>5, Zenon DEF Types, TypeOK, Whole
<1>7. Control'
  BY <1>1, <1>2, Zenon DEF Control, Running
<1>8. CASE process = "down"
  <2>1. \A k \in Key : InMemory(k)'
    BY <1>1, <1>2, <1>8, Zenon DEF Control, Running, InMemory
  <2>2. ASSUME NEW k \in Key PROVE InArchive(k)'
    <3>1. InArchive(k)
      BY <1>8, Zenon DEF SnapshotInv
    <3>2. CASE asked[k] = None
      <4>1. asked'[k] = None
        BY <1>1, <3>2, Zenon
      <4> QED
        BY <1>1, <3>1, <3>2, <4>1, Zenon DEF InArchive
    <3>3. CASE asked[k] # None
      <4> DEFINE a == asked[k]
                 e == snapshot[k].expiration_time_unix
      <4>1. asked'[k] = a - step' /\ a \in Int /\ asked'[k] # None
        <5>1. a \in Int
          BY <1>2, <3>3, Zenon DEF Types
        <5>2. asked'[k] = a - step'
          BY <1>1, <1>8, <3>3, Zenon
        <5> QED
          BY <1>4, <5>1, <5>2, NoneAssumption
      <4>2. late[k] \in Nat /\ early[k] \in Nat
        BY <1>2, Zenon DEF Types, TypeOK
      <4>3. LastTickOfMilli(asked[k])' = LastTickOfMilli(a) - step' /\ LastTickOfMilli(a) \in Int
        <5>1. LastTickOfMilli(a - step') = LastTickOfMilli(a) - step'
          BY <1>4, <4>1, LastTickMoves, Zenon DEF Whole
        <5> QED
          BY <4>1, <5>1, LastTick, Zenon DEF LastTickOfMilli
      <4>4. ASSUME snapshot[k] # None
            PROVE  Due(e)' = Due(e) - step' /\ Due(e) \in Int /\ e # None
        <5>1. e \in Nat
          BY <1>2, <3>1, <3>3, <4>4, Zenon DEF Types, TypeOK, InArchive
        <5>2. e * Milli \in Int /\ Due(e) = e * Milli - Begin - 0
              /\ Due(e)' = e * Milli - Begin - step'
          BY <1>1, <1>3, <5>1 DEF Due, Begin
        <5> QED
          BY <1>3, <1>4, <5>1, <5>2, NoneAssumption
      <4>5. ASSUME snapshot[k] # None
            PROVE  /\ Due(e)' <= LastTickOfMilli(asked[k])' + late[k]
                   /\ Due(e)' >= asked'[k] - early[k]
        <5>1. Due(e) <= LastTickOfMilli(a) + late[k] /\ Due(e) >= a - early[k]
          BY <3>1, <3>3, <4>5, Zenon DEF InArchive
        <5> HIDE DEF a
        <5> QED
          BY <1>4, <4>1, <4>2, <4>3, <4>4, <4>5, <5>1
      <4> QED
        BY <1>1, <3>1, <4>1, <4>4, <4>5, Zenon DEF InArchive
    <3> QED
      BY <3>2, <3>3, Zenon
  <2> QED
    BY <1>1, <1>6, <1>7, <1>8, <2>1, <2>2, Zenon DEF SnapshotInv
<1>9. CASE process # "down"
  <2>1. asked' = asked
    BY <1>1, <1>2, <1>9, Zenon DEF Types
  <2> QED
    BY <1>1, <1>2, <1>6, <1>7, <1>9, <2>1, Untouched, Zenon DEF SnapshotInv
<1> QED
  BY <1>8, <1>9, Zenon

(* to_snapshot reads the clock before it locks the map. *)
LEMMA DumpCallInv ==
    ASSUME SnapshotInv, DumpCall
    PROVE  SnapshotInv'
<1>1. /\ process = "up" /\ process' = "dumping" /\ now' = time /\ restarts < MaxRestarts
      /\ UNCHANGED <<time, step, hashmap, snapshot, restarts, asked, early, late, kept>>
  BY Zenon DEF DumpCall
<1>2. Types /\ Control /\ \A k \in Key : InMemory(k)
  BY Zenon DEF SnapshotInv
<1>3. Types'
  BY <1>1, <1>2, Zenon DEF Types, TypeOK, Whole
<1>4. \A k \in Key : InMemory(k)'
  BY <1>1, <1>2, Untouched, Zenon
<1>5. Control'
  <2>1. now' <= time'
    BY <1>1, <1>2 DEF Types, TypeOK
  <2> QED
    BY <1>1, <2>1, Zenon DEF Control, Running
<1> QED
  BY <1>1, <1>3, <1>4, <1>5, Zenon DEF SnapshotInv

(* Every entry a client could see is in the snapshot. *)
LEMMA DumpInv ==
    ASSUME SnapshotInv, NEW d \in 0 .. Lag, Dump(d)
    PROVE  SnapshotInv'
<1> DEFINE delay(k) == Ceiling(Saturating(time + d - asked[k]))
<1>1. /\ process = "dumping" /\ process' = "down" /\ time' = time + d /\ now' = 0
      /\ hashmap' = [k \in Key |-> None]
      /\ kept' = [k \in Key |-> SeenAt(k, time)]
      /\ early' = [k \in Key |-> early[k] + 2 * (Milli - 1) + d]
      /\ late' = [k \in Key |-> IF SeenAt(k, now) = None \/ asked[k] = None THEN late[k]
                                ELSE late[k] + delay(k)]
      /\ UNCHANGED <<step, restarts, asked>>
  BY Zenon DEF Dump
<1>2. PICK read \in [Key -> Readings(d)] :
          snapshot' = [k \in Key |->
              IF SeenAt(k, now) = None THEN None
              ELSE ToSnapshotValue(hashmap[k], Unix(time + read[k][1]), time + read[k][2])]
  BY Zenon DEF Dump
<1>3. Types /\ Control /\ \A k \in Key : InMemory(k)
  BY Zenon DEF SnapshotInv
<1>4. /\ d \in Nat /\ time \in Nat /\ now \in Nat /\ now <= time /\ Milli \in Nat \ {0}
      /\ restarts < MaxRestarts /\ ClockSet
  BY <1>1, <1>3, SnapshotAssumption DEF Types, TypeOK, Control, ClockSet
<1>5. \A k \in Key :
          /\ hashmap[k] \in [value : Value, expiration_time : Nat \cup {None}] \cup {None}
          /\ asked[k] \in Int \cup {None} /\ late[k] \in Nat /\ early[k] \in Nat
          /\ Whole(late[k])
  <2> SUFFICES ASSUME NEW k \in Key
               PROVE  /\ hashmap[k] \in [value : Value, expiration_time : Nat \cup {None}]
                                         \cup {None}
                      /\ asked[k] \in Int \cup {None} /\ late[k] \in Nat /\ early[k] \in Nat
                      /\ Whole(late[k])
    OBVIOUS
  <2>1. hashmap[k] \in [value : Value, expiration_time : (0 .. InstantMax) \cup {None}] \cup {None}
    BY <1>3, Zenon DEF Types, TypeOK
  <2>2. hashmap[k] \in [value : Value, expiration_time : Nat \cup {None}] \cup {None}
    BY ONLY <2>1
  <2> QED
    BY <1>3, <2>2, Zenon DEF Types, TypeOK
<1>6. \A k \in Key : asked[k] # None =>
          /\ delay(k) \in Nat /\ Whole(delay(k)) /\ delay(k) >= time + d - asked[k]
  <2> SUFFICES ASSUME NEW k \in Key, asked[k] # None
               PROVE  delay(k) \in Nat /\ Whole(delay(k)) /\ delay(k) >= time + d - asked[k]
    OBVIOUS
  <2>1. /\ Saturating(time + d - asked[k]) \in Nat
        /\ Saturating(time + d - asked[k]) >= time + d - asked[k]
        /\ asked[k] \in Int
    BY <1>4, <1>5 DEF Saturating
  <2>2. /\ delay(k) \in Nat /\ Whole(delay(k))
        /\ delay(k) >= Saturating(time + d - asked[k])
    BY <2>1, CeilingOf, Zenon
  <2> QED
    BY <1>4, <2>1, <2>2
<1> HIDE DEF delay
<1>7. \A k \in Key : /\ late'[k] \in Nat /\ Whole(late'[k]) /\ early'[k] \in Nat
                     /\ late'[k] = IF SeenAt(k, now) = None \/ asked[k] = None THEN late[k]
                                   ELSE late[k] + delay(k)
                     /\ early'[k] = early[k] + 2 * (Milli - 1) + d
  <2> SUFFICES ASSUME NEW k \in Key
               PROVE  late'[k] \in Nat /\ Whole(late'[k]) /\ early'[k] \in Nat
    BY <1>1, Zenon
  <2>1. early'[k] \in Nat
    BY <1>1, <1>4, <1>5
  <2>2. CASE SeenAt(k, now) = None \/ asked[k] = None
    BY <1>1, <1>5, <2>1, <2>2, Zenon
  <2>3. CASE ~(SeenAt(k, now) = None \/ asked[k] = None)
    <3>1. late'[k] = late[k] + delay(k) /\ late[k] \in Nat /\ Whole(late[k])
      BY <1>1, <1>5, <2>3, Zenon
    <3>2. delay(k) \in Nat /\ Whole(delay(k))
      BY <1>6, <2>3, Zenon
    <3>3. Whole(late[k] + delay(k))
      <4>1. late[k] \in Int /\ delay(k) \in Int
        BY <3>1, <3>2
      <4> QED
        BY ONLY <3>1, <3>2, <4>1, WholeSum, Zenon
    <3> QED
      BY <2>1, <3>1, <3>2, <3>3
  <2> QED
    BY <2>2, <2>3, Zenon
(* One entry. *)
<1>8. ASSUME NEW k \in Key, SeenAt(k, now) # None
      PROVE  /\ hashmap[k] # None
             /\ hashmap[k] \in [value : Value, expiration_time : Nat \cup {None}]
             /\ snapshot'[k].value = hashmap[k].value
             /\ snapshot'[k].expiration_time_unix =
                   IF hashmap[k].expiration_time = None THEN None
                   ELSE UnixMillis(hashmap[k].expiration_time, Unix(time + read[k][1]), time + read[k][2])
             /\ snapshot'[k] \in [value : Value, expiration_time_unix : Nat \cup {None}]
             /\ snapshot'[k] # None
  <2> DEFINE x == hashmap[k].expiration_time
             e == UnixMillis(x, Unix(time + read[k][1]), time + read[k][2])
  <2>1. hashmap[k] # None /\ hashmap[k] \in [value : Value, expiration_time : Nat \cup {None}]
    BY <1>5, <1>8, Zenon DEF SeenAt
  <2>2. snapshot'[k] = [value |-> hashmap[k].value,
                        expiration_time_unix |-> IF x = None THEN None ELSE e]
    BY <1>2, <1>8, Zenon DEF ToSnapshotValue
  <2>3. x # None => e \in Nat
    <3>1. x # None => x \in Nat
      BY <2>1, Zenon
    <3>2. read[k] \in Readings(d)
      OBVIOUS
    <3> QED
      BY <1>4, <3>1, <3>2, Dumped, Zenon
  <2> HIDE DEF e
  <2>4. snapshot'[k] \in [value : Value, expiration_time_unix : Nat \cup {None}]
    BY <2>1, <2>2, <2>3
  <2> QED
    BY <2>1, <2>2, <2>4, NoneAssumption DEF e
<1>9. \A k \in Key : SeenAt(k, now) = None => snapshot'[k] = None
  BY <1>2, Zenon
<1>10. snapshot' \in [Key -> [value : Value, expiration_time_unix : Nat \cup {None}] \cup {None}]
  BY <1>2, <1>8, <1>9, Zenon
<1>11. kept' \in [Key -> Value \cup {None}]
  BY <1>1, <1>5, Zenon DEF SeenAt
<1>12. Types'
  <2>1. late' \in [Key -> Nat] /\ early' \in [Key -> Nat]
    BY <1>1, <1>7, Zenon
  <2>2. hashmap' \in [Key -> [value : Value, expiration_time : (0 .. InstantMax) \cup {None}]
                              \cup {None}]
    BY <1>1, Zenon
  <2>3. TypeOK'
    BY <1>1, <1>3, <1>4, <1>10, <2>1, <2>2 DEF Types, TypeOK
  <2> QED
    BY <1>1, <1>3, <1>7, <1>11, <2>3, Zenon DEF Types, Whole
<1>13. Control' /\ \A k \in Key : InMemory(k)'
  BY <1>1, <1>4, Zenon DEF Control, Running, InMemory
<1>14. ASSUME NEW k \in Key, snapshot'[k] # None, asked[k] # None
       PROVE  /\ Due(snapshot'[k].expiration_time_unix) <= LastTickOfMilli(asked[k]) + late'[k]
              /\ Due(snapshot'[k].expiration_time_unix) >= asked[k] - early'[k]
  <2> DEFINE x == hashmap[k].expiration_time
             e == snapshot'[k].expiration_time_unix
             last == LastTickOfMilli(asked[k])
  <2>1. SeenAt(k, now) # None /\ hashmap[k] # None
    BY <1>8, <1>9, <1>14, Zenon
  <2>2. x # None /\ x \in Nat
    BY <1>3, <1>8, <1>14, <2>1, Zenon DEF InMemory
  <2>3. x <= last + late[k] /\ x >= asked[k] - early[k]
    BY <1>3, <1>14, <2>1, Zenon DEF InMemory
  <2>4. e = UnixMillis(x, Unix(time + read[k][1]), time + read[k][2])
    BY <1>8, <2>1, <2>2, Zenon
  <2>5. /\ e \in Nat /\ Due(e) >= x - d - 2 * (Milli - 1)
        /\ Due(e) <= x \/ Due(e) <= time + d
    <3>1. read[k] \in Readings(d)
      OBVIOUS
    <3> HIDE DEF x, e
    <3> QED
      BY <1>4, <2>2, <2>4, <3>1, Dumped, Zenon
  <2>6. asked[k] \in Int /\ last \in Int /\ asked[k] <= last /\ Due(e) \in Int
    BY <1>4, <1>5, <1>14, <2>5, LastTick, DueType
  <2>7. late'[k] = late[k] + delay(k) /\ early'[k] = early[k] + 2 * (Milli - 1) + d
    BY <1>7, <1>14, <2>1, Zenon
  <2>8. delay(k) \in Nat /\ delay(k) >= time + d - asked[k]
    BY <1>6, <1>14, Zenon
  <2> HIDE DEF x, e, last
  <2>9. Due(e) <= last + late'[k]
    BY <1>4, <1>5, <2>2, <2>3, <2>5, <2>6, <2>7, <2>8
  <2>10. Due(e) >= asked[k] - early'[k]
    <3>1. late[k] \in Nat /\ early[k] \in Nat
      BY <1>5, Zenon
    <3> QED
      BY ONLY <1>4, <2>2, <2>3, <2>5, <2>6, <2>7, <3>1
  <2> QED
    BY <2>9, <2>10, Zenon DEF e, last
<1>15. ASSUME NEW k \in Key PROVE InArchive(k)'
  <2>1. snapshot'[k] # None => (asked[k] = None <=> snapshot'[k].expiration_time_unix = None)
    <3> SUFFICES ASSUME snapshot'[k] # None
                 PROVE  asked[k] = None <=> snapshot'[k].expiration_time_unix = None
      OBVIOUS
    <3>1. SeenAt(k, now) # None
      BY <1>9, Zenon
    <3>2. asked[k] = None <=> hashmap[k].expiration_time = None
      BY <1>3, <1>8, <3>1, Zenon DEF InMemory
    <3>3. hashmap[k].expiration_time # None =>
             UnixMillis(hashmap[k].expiration_time, Unix(time + read[k][1]), time + read[k][2]) \in Nat
      BY <1>4, <1>8, <3>1, Dumped, Zenon
    <3> QED
      <4>1. snapshot'[k].expiration_time_unix =
               IF hashmap[k].expiration_time = None THEN None
               ELSE UnixMillis(hashmap[k].expiration_time, Unix(time + read[k][1]), time + read[k][2])
        BY <1>8, <3>1, Zenon
      <4>2. \A n \in Nat : n # None
        BY NoneAssumption
      <4> QED
        BY <3>2, <3>3, <4>1, <4>2, Zenon
  <2>2. kept'[k] # None => snapshot'[k] # None /\ snapshot'[k].value = kept'[k]
    <3> SUFFICES ASSUME SeenAt(k, time) # None
                 PROVE  snapshot'[k] # None /\ snapshot'[k].value = SeenAt(k, time)
      BY <1>1, Zenon
    <3>1. hashmap[k] # None /\ ~IsExpired(hashmap[k], time) /\ SeenAt(k, time) = hashmap[k].value
      BY Zenon DEF SeenAt
    <3>2. ~IsExpired(hashmap[k], now)
      BY <1>4, <1>5, <3>1 DEF IsExpired
    <3>3. SeenAt(k, now) # None
      BY <3>1, <3>2, Zenon DEF SeenAt
    <3> QED
      BY <1>8, <3>1, <3>3, Zenon
  <2>3. /\ Due(snapshot[k].expiration_time_unix)' = Due(snapshot'[k].expiration_time_unix)
        /\ LastTickOfMilli(asked[k])' = LastTickOfMilli(asked[k]) /\ asked'[k] = asked[k]
    BY <1>1, Zenon DEF Due, LastTickOfMilli
  <2> QED
    BY <1>14, <2>1, <2>2, <2>3, Zenon DEF InArchive
<1> QED
  BY <1>1, <1>12, <1>13, <1>15, Zenon DEF SnapshotInv

(* A deadline that waits in the archive is a whole number of milliseconds, *)
(* as is what may have been added to it, so it is no later than the start  *)
(* of the last millisecond it may fall in.                                 *)
LEMMA ArchivedDue ==
    ASSUME Types, ClockSet, NEW k \in Key, InArchive(k), snapshot[k] # None, asked[k] # None
    PROVE  LET e == snapshot[k].expiration_time_unix
               last == LastTickOfMilli(asked[k])
           IN  /\ e \in Nat /\ e # None
               /\ Due(e) \in Int /\ Due(e) <= last - (Milli - 1) + late[k]
               /\ Due(e) >= asked[k] - early[k]
               /\ asked[k] \in Int /\ last \in Int /\ last <= asked[k] + Milli - 1
<1> DEFINE e == snapshot[k].expiration_time_unix
           last == LastTickOfMilli(asked[k])
           first == last - (Milli - 1)
           bound == first + late[k]
<1>1. e # None /\ Due(e) <= last + late[k] /\ Due(e) >= asked[k] - early[k]
  BY Zenon DEF InArchive
<1>2. e \in Nat /\ asked[k] \in Int /\ late[k] \in Nat /\ late[k] \in Int /\ Whole(late[k])
  BY <1>1 DEF Types, TypeOK
<1>3. Due(e) \in Int /\ Whole(Due(e))
  BY <1>2, DueType
<1>4. last \in Int /\ Whole(first) /\ last <= asked[k] + Milli - 1
  BY <1>2, LastTick, Zenon
<1> HIDE DEF e, last
<1>5. first \in Int /\ Milli \in Int
  BY <1>4, SnapshotAssumption
<1>6. Due(e) <= bound + Milli - 1 /\ bound \in Int
  BY ONLY <1>1, <1>2, <1>3, <1>4, <1>5
<1> HIDE DEF first
<1>7. Whole(bound)
  BY ONLY <1>2, <1>4, <1>5, WholeSum, Zenon
<1> HIDE DEF bound
<1>8. Due(e) <= bound
  BY <1>3, <1>6, <1>7, WholeBelow, Zenon
<1> QED
  BY <1>1, <1>2, <1>3, <1>4, <1>8, Zenon DEF e, last, first, bound

(* A restore that fails leaves the map of the new process empty; one that  *)
(* succeeds gives back what was not due, a little later at most.           *)
LEMMA RestoreInv ==
    ASSUME SnapshotInv, NEW d \in 0 .. Lag, Restore(d)
    PROVE  SnapshotInv'
<1>1. /\ process = "down" /\ time' = time + d /\ restarts' = restarts + 1
      /\ late' = [k \in Key |-> late[k] + Ceiling(d)]
      /\ UNCHANGED <<step, now, snapshot, asked, early, kept>>
  BY Zenon DEF Restore
<1>2. PICK read \in [Key -> Readings(d)] :
          IF \E k \in Loaded : DurationOverflow(snapshot[k], Unix(time + read[k][1]), time + read[k][2])
            THEN process' = "DurationOverflow" /\ UNCHANGED hashmap
            ELSE /\ process' = "up"
                 /\ hashmap' = [k \in Key |->
                       IF k \notin Loaded THEN None
                       ELSE ToStoreValue(snapshot[k], Unix(time + read[k][1]), time + read[k][2])]
  BY Zenon DEF Restore
<1>3. Types /\ Control /\ \A k \in Key : InArchive(k)
  BY <1>1, Zenon DEF SnapshotInv
<1>4. /\ d \in Nat /\ time \in Nat /\ Milli \in Nat \ {0} /\ InstantMax \in Nat
      /\ restarts < MaxRestarts /\ ClockSet
  <2>1. d \in Nat /\ Milli \in Nat \ {0} /\ InstantMax \in Nat
    <3>1. d \in Nat
      OBVIOUS
    <3> QED
      BY <3>1, SnapshotAssumption, Zenon
  <2>2. time \in Nat /\ ClockSet
    BY <1>3, Zenon DEF Types, TypeOK, ClockSet
  <2>3. restarts < MaxRestarts
    BY <1>1, <1>3, Zenon DEF Control
  <2> QED
    BY <2>1, <2>2, <2>3, Zenon
<1>5. Ceiling(d) \in Nat /\ d <= Ceiling(d) /\ Whole(Ceiling(d))
  BY <1>4, CeilingOf, Zenon
<1>6. \A k \in Key : /\ late[k] \in Nat /\ Whole(late[k]) /\ early[k] \in Nat
                     /\ late'[k] = late[k] + Ceiling(d)
                     /\ asked[k] \in Int \cup {None}
  BY <1>1, <1>3, Zenon DEF Types, TypeOK
<1>7. \A k \in Key : late'[k] \in Nat /\ Whole(late'[k])
  <2> SUFFICES ASSUME NEW k \in Key PROVE late'[k] \in Nat /\ Whole(late'[k])
    OBVIOUS
  <2>1. late[k] \in Nat /\ Whole(late[k]) /\ late'[k] = late[k] + Ceiling(d)
    BY <1>6, Zenon
  <2>2. late[k] \in Int /\ Ceiling(d) \in Int /\ late[k] + Ceiling(d) \in Nat
    BY ONLY <1>5, <2>1
  <2>3. Whole(late[k] + Ceiling(d))
    BY ONLY <1>5, <2>1, <2>2, WholeSum
  <2> QED
    BY <2>1, <2>2, <2>3, Zenon
<1>8. /\ late' \in [Key -> Nat] /\ (\A k \in Key : Whole(late[k]))' /\ Whole(step)'
      /\ time' \in Nat /\ restarts' \in 0 .. MaxRestarts
  <2>1. late' \in [Key -> Nat]
    BY <1>1, <1>7, Zenon
  <2>2. (\A k \in Key : Whole(late[k]))'
    BY <1>7, Zenon
  <2>3. Whole(step)'
    BY <1>1, <1>3, Zenon DEF Types, Whole
  <2>4. time' \in Nat
    BY <1>1, <1>4
  <2>5. restarts \in 0 .. MaxRestarts /\ MaxRestarts \in Nat
    BY <1>3, SnapshotAssumption, Zenon DEF Types, TypeOK
  <2>6. restarts' \in 0 .. MaxRestarts
    BY <1>1, <1>4, <2>5
  <2> QED
    BY <2>1, <2>2, <2>3, <2>4, <2>6, Zenon
<1>9. CASE process' = "DurationOverflow" /\ UNCHANGED hashmap
  <2>1. TypeOK'
    BY <1>1, <1>3, <1>8, <1>9, Zenon DEF Types, TypeOK, SnapshotError
  <2>2. \A k \in Key : hashmap'[k] = None
    BY <1>1, <1>3, <1>9, Zenon DEF Control, Running
  <2> QED
    BY <1>1, <1>3, <1>8, <1>9, <2>1, <2>2, Zenon
       DEF SnapshotInv, Types, Control, Running, InMemory
<1>10. CASE /\ ~\E k \in Loaded : DurationOverflow(snapshot[k], Unix(time + read[k][1]), time + read[k][2])
            /\ process' = "up"
            /\ hashmap' = [k \in Key |->
                  IF k \notin Loaded THEN None
                  ELSE ToStoreValue(snapshot[k], Unix(time + read[k][1]), time + read[k][2])]
  <2>1. ASSUME NEW k \in Key, k \in Loaded
        PROVE  /\ snapshot[k] # None
               /\ snapshot[k] \in [value : Value, expiration_time_unix : Nat \cup {None}]
               /\ hashmap'[k] = ToStoreValue(snapshot[k], Unix(time + read[k][1]), time + read[k][2])
    BY <1>3, <1>10, <2>1, Zenon DEF Loaded, Types, TypeOK
  (* One entry with a deadline. *)
  <2>2. ASSUME NEW k \in Key, k \in Loaded, snapshot[k].expiration_time_unix # None
        PROVE  /\ hashmap'[k].expiration_time \in 0 .. InstantMax
               /\ hashmap'[k].expiration_time >= Due(snapshot[k].expiration_time_unix)
               /\ hashmap'[k].expiration_time
                     <= Due(snapshot[k].expiration_time_unix) + d + Milli - 1
    <3> DEFINE e == snapshot[k].expiration_time_unix
               rest == Remaining(snapshot[k], Unix(time + read[k][1]))
               x == time + read[k][2] + rest * Milli
    <3>1. e \in Nat /\ read[k] \in Readings(d)
      BY <2>1, <2>2, Zenon
    <3>2. hashmap'[k].expiration_time = x
      <4>1. hashmap'[k] = ToStoreValue(snapshot[k], Unix(time + read[k][1]), time + read[k][2])
        BY <2>1, <2>2, Zenon
      <4> HIDE DEF rest
      <4>2. hashmap'[k] = [value |-> snapshot[k].value, expiration_time |-> x]
        BY <2>2, <4>1, Zenon DEF ToStoreValue, rest
      <4> QED
        BY ONLY <4>2
    <3>3. /\ rest \in Nat /\ x \in Nat /\ x >= Due(e)
          /\ Due(e) > time => x <= Due(e) + d + Milli - 1
      BY <1>4, <3>1, Restored, Zenon
    <3>4. Due(e) > time
      <4>1. e > Unix(time) \div Milli
        BY <2>2, Zenon DEF Loaded, Unexpired
      <4> HIDE DEF e
      <4> QED
        BY <1>4, <3>1, <4>1, UnexpiredIsDue, Zenon
    <3>5. ~(x > InstantMax)
      BY <1>10, <2>2, Zenon DEF DurationOverflow
    <3> HIDE DEF e, x
    <3>6. x \in 0 .. InstantMax
      BY <1>4, <3>3, <3>5
    <3> QED
      BY <3>2, <3>3, <3>4, <3>6, Zenon DEF e
  <2>3. ASSUME NEW k \in Key, k \in Loaded
        PROVE  /\ hashmap'[k].value = snapshot[k].value
               /\ hashmap'[k].expiration_time = None <=> snapshot[k].expiration_time_unix = None
               /\ hashmap'[k] \in [value : Value, expiration_time : (0 .. InstantMax) \cup {None}]
               /\ hashmap'[k] # None
    <3> DEFINE x == hashmap'[k].expiration_time
    <3>1. /\ hashmap'[k] = [value |-> snapshot[k].value, expiration_time |-> x]
          /\ snapshot[k].expiration_time_unix = None => x = None
          /\ snapshot[k].value \in Value
      <4>1. hashmap'[k] = ToStoreValue(snapshot[k], Unix(time + read[k][1]), time + read[k][2])
        BY <2>1, <2>3, Zenon
      <4>2. PICK y : hashmap'[k] = [value |-> snapshot[k].value, expiration_time |-> y]
                     /\ (snapshot[k].expiration_time_unix = None => y = None)
        BY <4>1, Zenon DEF ToStoreValue
      <4>3. x = y
        BY ONLY <4>2
      <4>4. snapshot[k].value \in Value
        BY <2>1, <2>3, Zenon
      <4> QED
        BY <4>2, <4>3, <4>4, Zenon
    <3>2. snapshot[k].expiration_time_unix # None => x \in 0 .. InstantMax /\ x # None
      BY <2>2, <2>3, NoneAssumption
    <3> HIDE DEF x
    <3>3. hashmap'[k] \in [value : Value, expiration_time : (0 .. InstantMax) \cup {None}]
      BY <3>1, <3>2
    <3>4. hashmap'[k] \in [value : Value, expiration_time : Nat \cup {None}]
      BY <3>1, <3>2, <1>4
    <3> QED
      <4>1. hashmap'[k] # None
        BY <3>4, NoneAssumption, Zenon
      <4>2. hashmap'[k].value = snapshot[k].value
        BY <3>1
      <4> QED
        BY <3>1, <3>2, <3>3, <4>1, <4>2, Zenon DEF x
  <2>4. \A k \in Key : k \notin Loaded => hashmap'[k] = None
    BY <1>10, Zenon
  <2>5. Types'
    <3>1. hashmap' \in [Key -> [value : Value, expiration_time : (0 .. InstantMax) \cup {None}]
                                \cup {None}]
      <4>1. \A k \in Key : hashmap'[k] \in
                [value : Value, expiration_time : (0 .. InstantMax) \cup {None}] \cup {None}
        BY <2>3, <2>4, Zenon
      <4> QED
        BY <1>10, <4>1, Zenon
    <3>2. TypeOK'
      BY <1>1, <1>3, <1>8, <1>10, <3>1, Zenon DEF Types, TypeOK
    <3> QED
      BY <1>1, <1>3, <1>8, <3>2, Zenon DEF Types
  <2>6. Control'
    BY <1>10, Zenon DEF Control, Running
  (* One entry with a deadline, against what the client asked for. *)
  <2>7. ASSUME NEW k \in Key, k \in Loaded, asked[k] # None
        PROVE  /\ snapshot[k].expiration_time_unix # None
               /\ hashmap'[k].expiration_time <= LastTickOfMilli(asked[k]) + late'[k]
               /\ hashmap'[k].expiration_time >= asked[k] - early[k]
    <3> DEFINE x == hashmap'[k].expiration_time
               due == Due(snapshot[k].expiration_time_unix)
               last == LastTickOfMilli(asked[k])
    <3>1. /\ snapshot[k].expiration_time_unix # None
          /\ due \in Int /\ due <= last - (Milli - 1) + late[k] /\ due >= asked[k] - early[k]
          /\ last \in Int /\ asked[k] \in Int
      BY <1>3, <1>4, <2>1, <2>7, ArchivedDue, Zenon
    <3>2. x \in Nat /\ x >= due /\ x <= due + d + Milli - 1
      <4>1. x \in 0 .. InstantMax /\ x >= due /\ x <= due + d + Milli - 1
        BY <2>2, <2>7, <3>1, Zenon
      <4> HIDE DEF x, due
      <4> QED
        BY <1>4, <4>1
    <3>3. late[k] \in Nat /\ early[k] \in Nat /\ late'[k] = late[k] + Ceiling(d)
      BY <1>6, Zenon
    <3> HIDE DEF x, due, last
    <3>4. x <= last + late'[k] /\ x >= asked[k] - early[k]
      BY <1>4, <1>5, <3>1, <3>2, <3>3
    <3> QED
      BY <3>1, <3>4, Zenon DEF x, last
  <2>8. ASSUME NEW k \in Key PROVE InMemory(k)'
    <3>1. LastTickOfMilli(asked[k])' = LastTickOfMilli(asked[k]) /\ asked'[k] = asked[k]
          /\ early'[k] = early[k]
      BY <1>1, Zenon DEF LastTickOfMilli
    <3>2. CASE k \in Loaded
      <4>1. asked[k] = None <=> hashmap'[k].expiration_time = None
        BY <1>3, <2>1, <2>3, <3>2, Zenon DEF InArchive
      <4> QED
        BY <2>7, <3>1, <3>2, <4>1, Zenon DEF InMemory
    <3> QED
      BY <2>4, <3>2, Zenon DEF InMemory
  <2>9. ASSUME NEW k \in Key PROVE StillSeen(k)'
    <3> SUFFICES ASSUME kept[k] # None, asked[k] # None => time' < asked[k] - early[k]
                 PROVE  SeenAt(k, time)' = kept[k]
      BY <1>1, Zenon DEF StillSeen
    <3>1. snapshot[k] # None /\ snapshot[k].value = kept[k]
      BY <1>3, Zenon DEF InArchive
    <3>2. CASE asked[k] = None
      <4>1. snapshot[k].expiration_time_unix = None
        BY <1>3, <3>1, <3>2, Zenon DEF InArchive
      <4>2. k \in Loaded
        BY <3>1, <4>1, Zenon DEF Loaded, Unexpired
      <4> QED
        BY <2>3, <3>1, <4>1, <4>2, Zenon DEF SeenAt, IsExpired
    <3>3. CASE asked[k] # None
      <4> DEFINE e == snapshot[k].expiration_time_unix
      <4>1. Due(e) >= asked[k] - early[k] /\ e # None /\ e \in Nat
        BY <1>3, <3>1, <3>3, Zenon DEF InArchive, Types, TypeOK
      <4>2. time + d < asked[k] - early[k] /\ asked[k] \in Int /\ early[k] \in Nat
        BY <1>1, <1>6, <3>3, Zenon
      <4>3. k \in Loaded
        <5>1. Due(e) \in Int
          BY <1>4, <4>1, DueType
        <5>2. Due(e) > time
          BY <1>4, <4>1, <4>2, <5>1
        <5>3. e > Unix(time) \div Milli
          <6> HIDE DEF e
          <6> QED
            BY <1>4, <4>1, <5>2, UnexpiredIsDue, Zenon
        <5> QED
          BY <3>1, <5>3, Zenon DEF Loaded, Unexpired
      <4>4. hashmap'[k].expiration_time >= asked[k] - early[k]
        BY <2>7, <3>3, <4>3, Zenon
      <4>5. hashmap'[k].expiration_time \in Nat
        <5>1. hashmap'[k].expiration_time \in 0 .. InstantMax
          BY <2>2, <4>1, <4>3, Zenon
        <5> QED
          BY ONLY <5>1
      <4>6. ~(hashmap'[k].expiration_time <= time')
        BY <1>1, <1>4, <4>2, <4>4, <4>5
      <4> QED
        BY <2>3, <3>1, <4>3, <4>6, Zenon DEF SeenAt, IsExpired
    <3> QED
      BY <3>2, <3>3, Zenon
  <2> QED
    BY <1>10, <2>5, <2>6, <2>8, <2>9, Zenon DEF SnapshotInv
<1> QED
  BY <1>2, <1>9, <1>10, Zenon

(* Every step of the specification keeps the invariant. *)
LEMMA SnapshotInvNext ==
    ASSUME SnapshotInv, [Next]_vars
    PROVE  SnapshotInv'
<1>1. CASE Tick
  BY <1>1, TickInv, Zenon
<1>2. CASE DumpCall
  BY <1>2, DumpCallInv, Zenon
<1>3. ASSUME NEW ms \in Steps, StepClock(ms) PROVE SnapshotInv'
  BY <1>3, StepClockInv, Zenon
<1>4. ASSUME NEW d \in 0 .. Lag, Dump(d) PROVE SnapshotInv'
  BY <1>4, DumpInv, Zenon
<1>5. ASSUME NEW d \in 0 .. Lag, Restore(d) PROVE SnapshotInv'
  BY <1>5, RestoreInv, Zenon
<1>6. ASSUME NEW k \in Key, Sweep(k) PROVE SnapshotInv'
  BY <1>6, SweepInv, Zenon
<1>7. ASSUME NEW k \in Key, NEW v \in Value, NEW t \in Deadline \cup {None}, Write(k, v, t)
      PROVE  SnapshotInv'
  BY <1>7, WriteInv, Zenon
<1>8. CASE UNCHANGED vars
  BY <1>8, Zenon DEF SnapshotInv, Types, TypeOK, Control, Running, InMemory, InArchive, StillSeen,
              SeenAt, IsExpired, Due, Whole, LastTickOfMilli, vars
<1> QED
  BY <1>1, <1>2, <1>3, <1>4, <1>5, <1>6, <1>7, <1>8, Zenon DEF Next

(* The invariant holds in every state. *)
LEMMA SnapshotInvariant == Spec => []SnapshotInv
<1>1. Init => SnapshotInv
  BY InitInv, Zenon
<1>2. SnapshotInv /\ [Next]_vars => SnapshotInv'
  BY SnapshotInvNext, Zenon
<1> QED
  BY <1>1, <1>2, PTL DEF Spec

(* Only a restore of a timeout that is out of range makes a start fail. *)
LEMMA RefusalIsHuge ==
    ASSUME SnapshotInv, [Next]_vars, process = "down", process' \in SnapshotError
    PROVE  \E k \in Key : /\ snapshot[k] # None
                          /\ asked[k] # None
                          /\ \/ asked[k] + late[k] - time > U64Max * Milli
                             \/ LastTickOfMilli(asked[k]) + late'[k] > InstantMax
<1>1. PICK d \in 0 .. Lag : Restore(d)
  BY Zenon DEF Next, vars, Tick, DumpCall, StepClock, Dump, Sweep, Write, SnapshotError
<1>2. Types /\ Control /\ \A k \in Key : InArchive(k)
  BY Zenon DEF SnapshotInv
<1>3. /\ d \in Nat /\ time \in Nat /\ Milli \in Nat \ {0} /\ U64Max \in Nat /\ InstantMax \in Nat
      /\ U64Max * Milli \in Nat /\ ClockSet
  <2>1. d \in Nat /\ Milli \in Nat \ {0} /\ U64Max \in Nat /\ InstantMax \in Nat
    BY SnapshotAssumption
  <2>2. U64Max * Milli \in Nat
    BY ONLY <2>1
  <2>3. time \in Nat /\ ClockSet
    BY <1>2, Zenon DEF Types, TypeOK, ClockSet
  <2> QED
    BY <2>1, <2>2, <2>3, Zenon
<1>4. PICK read \in [Key -> Readings(d)], k \in Loaded :
          DurationOverflow(snapshot[k], Unix(time + read[k][1]), time + read[k][2])
  BY <1>1, Zenon DEF Restore, SnapshotError
<1> DEFINE e == snapshot[k].expiration_time_unix
           rest == Remaining(snapshot[k], Unix(time + read[k][1]))
           x == time + read[k][2] + rest * Milli
           last == LastTickOfMilli(asked[k])
<1>5. k \in Key /\ snapshot[k] # None /\ read[k] \in Readings(d) /\ e # None
  BY <1>4, Zenon DEF Loaded, DurationOverflow
<1>6. asked[k] # None
  BY <1>2, <1>5, Zenon DEF InArchive
<1>7. /\ e \in Nat /\ Due(e) \in Int /\ Due(e) <= last - (Milli - 1) + late[k]
      /\ asked[k] \in Int /\ last \in Int /\ last <= asked[k] + Milli - 1
  BY <1>2, <1>3, <1>5, <1>6, ArchivedDue, Zenon
<1>8. /\ rest \in Nat /\ x \in Nat
      /\ Due(e) > time => x <= Due(e) + d + Milli - 1
      /\ rest > U64Max => Due(e) - time >= U64Max * Milli + 1
  BY <1>3, <1>5, <1>7, Restored, Zenon
<1>9. Due(e) > time
  <2>1. e > Unix(time) \div Milli
    BY <1>4, <1>5, Zenon DEF Loaded, Unexpired
  <2> HIDE DEF e
  <2> QED
    BY <1>3, <1>7, <2>1, UnexpiredIsDue, Zenon
<1>10. rest > U64Max \/ x > InstantMax
  BY <1>4, Zenon DEF DurationOverflow
<1>11. late'[k] = late[k] + Ceiling(d) /\ late[k] \in Nat
  BY <1>1, <1>2, <1>5, Zenon DEF Restore, Types, TypeOK
<1>12. Ceiling(d) \in Nat /\ d <= Ceiling(d)
  BY <1>3, CeilingOf, Zenon
<1> HIDE DEF e, rest, x, last
<1>13. CASE rest > U64Max
  <2>1. asked[k] + late[k] - time > U64Max * Milli
    BY ONLY <1>3, <1>7, <1>8, <1>11, <1>13
  <2> QED
    BY <1>5, <1>6, <2>1, Zenon
<1>14. CASE x > InstantMax
  <2>1. last + late'[k] > InstantMax
    BY <1>3, <1>7, <1>8, <1>9, <1>11, <1>12, <1>14
  <2> QED
    BY <1>5, <1>6, <2>1, Zenon DEF last
<1> QED
  BY <1>10, <1>13, <1>14, Zenon

-----------------------------------------------------------------------------
(* Every variable of the model of restarts keeps its type; in particular   *)
(* no dump or restore makes a deadline that is no Instant or no number of  *)
(* Unix milliseconds.                                                      *)
THEOREM SnapshotTypes == Spec => []TypeOK
<1>1. SnapshotInv => TypeOK
  BY Zenon DEF SnapshotInv, Types
<1> QED
  BY <1>1, SnapshotInvariant, PTL

(* However often the server restarts, no key outlives the millisecond of   *)
(* the deadline its client asked for, but for the time between the clock   *)
(* readings of one conversion.                                             *)
THEOREM DeadlinesNotOutlived == Spec => []NeverOutlives
<1>1. SnapshotInv => NeverOutlives
  BY Zenon DEF SnapshotInv, InMemory, NeverOutlives
<1> QED
  BY <1>1, SnapshotInvariant, PTL

(* Each restart makes a key expire less than two milliseconds early, and a *)
(* key that is not about to expire comes back with its value.              *)
THEOREM DeadlinesNotCutShort == Spec => []NeverCutShort
<1>1. SnapshotInv => NeverCutShort
  BY Zenon DEF SnapshotInv, InMemory, StillSeen, NeverCutShort
<1> QED
  BY <1>1, SnapshotInvariant, PTL

(* restore refuses an archive of this server only for a timeout of more    *)
(* than U64Max milliseconds or one past the last Instant.                  *)
THEOREM RefusalsAreHuge == Spec => RefusedOnlyIfHuge
<1>1. SnapshotInv /\ [Next]_vars =>
        [process = "down" /\ process' \in SnapshotError =>
           \E k \in Key : /\ snapshot[k] # None
                          /\ asked[k] # None
                          /\ \/ asked[k] + late[k] - time > U64Max * Milli
                             \/ LastTickOfMilli(asked[k]) + late'[k] > InstantMax]_vars
  BY RefusalIsHuge, Zenon
<1> QED
  BY <1>1, SnapshotInvariant, PTL DEF Spec, RefusedOnlyIfHuge
=============================================================================
