---------------------------- MODULE ServerProofs ----------------------------
(***************************************************************************)
(* Proofs about Server for every number of clients, every set of frames    *)
(* and every length of the streams: what a connection answers, in which    *)
(* order and with which rights, and what is saved when the last one ended. *)
(*                                                                         *)
(* The inductive invariant follows each connection through the batches of  *)
(* frames it reads (Session), and says which connections can still run     *)
(* (Idle) and what that means for the archive (Saved).                     *)
(***************************************************************************)
EXTENDS Server, FiniteSetTheorems, WellFoundedInduction, TLAPS

Busy == {"select", "frames", "del", "send"}

IsSequence(s) == \E S : s \in Seq(S)

Typed ==
    /\ at \in [Client -> Ended \cup {"none"} \cup Busy]
    /\ stream \in [Client -> Seq(Frame)]
    /\ batch \in [Client -> [next : Nat \ {0}, upto : Nat, halting : BOOLEAN]]
    /\ reply = [c \in Client |-> reply[c]]
    /\ authenticated \in [Client -> BOOLEAN]
    /\ answers = [c \in Client |-> answers[c]]
    /\ \A c \in Client : IsSequence(answers[c])

(* The frames of the last read: one answer for each frame before the next  *)
(* one; parse returned the frames up to upto, and failed at the one after  *)
(* them if it failed.                                                      *)
Reading(c) ==
    /\ Len(answers[c]) + 1 = batch[c].next
    /\ batch[c].next <= batch[c].upto + 1
    /\ batch[c].upto <= Len(stream[c])
    /\ \A j \in 1 .. batch[c].upto : stream[c][j] \notin {Malformed, Oversized}
    /\ batch[c].halting => /\ batch[c].upto + 1 <= Len(stream[c])
                           /\ stream[c][batch[c].upto + 1] = Malformed

(* Where the task is in its batch. *)
InBatch(c) ==
    /\ at[c] \in {"select", "shutdown", "malformed"} => batch[c].next = batch[c].upto + 1
    /\ at[c] = "select" => ~batch[c].halting
    /\ at[c] = "malformed" => batch[c].halting
    /\ at[c] \in {"del", "send"} => batch[c].next <= batch[c].upto

(* The frame that logs in. *)
RightAuth == <<"auth", Password>>

(* A right password stands in the frames dealt with, the current one       *)
(* included; a data command is executed only after it.                     *)
Rights(c) ==
    /\ Password # None /\ authenticated[c] =>
          \E j \in 1 .. batch[c].next : j <= batch[c].upto /\ stream[c][j] = RightAuth
    /\ at[c] = "del" => IsAuthorized(c)
    /\ at[c] = "send" /\ This(c)[1] \in DataCommands /\ reply[c][1] # "SimpleError"
          => IsAuthorized(c)

(* What was answered. *)
Answered(c) ==
    \A i \in 1 .. Len(answers[c]) :
        /\ answers[c][i][1] = i
        /\ Password # None /\ stream[c][i][1] \in DataCommands
              /\ answers[c][i][2][1] # "SimpleError"
           => \E j \in 1 .. i - 1 : stream[c][j] = RightAuth

Session(c) == Reading(c) /\ InBatch(c) /\ Rights(c) /\ Answered(c)

Idle == \A c \in Client : c \notin open => at[c] \in Ended \cup {"none"}

Saved == /\ server \in {"saving", "stopped"} => open = {}
         /\ archive # NoArchive => server = "stopped" /\ archive = db

ServerInv == Typed /\ (\A c \in Client : Session(c)) /\ Idle /\ Saved

-----------------------------------------------------------------------------
(* Facts about data *)

(* Append, on a sequence of no matter what. *)
LEMMA Appended ==
    ASSUME NEW s, IsSequence(s), NEW e
    PROVE  /\ IsSequence(Append(s, e))
           /\ Len(s) \in Nat
           /\ Len(Append(s, e)) = Len(s) + 1
           /\ \A i \in 1 .. Len(s) : Append(s, e)[i] = s[i]
           /\ Append(s, e)[Len(s) + 1] = e
<1>1. PICK S : s \in Seq(S)
  BY Zenon DEF IsSequence
<1> DEFINE T == S \cup {e}
<1>2. s \in Seq(T) /\ e \in T
  BY <1>1
<1> HIDE DEF T
<1>3. Append(s, e) \in Seq(T)
  BY <1>2
<1> QED
  BY <1>2, <1>3 DEF IsSequence

(* A set of naturals that is not empty has a smallest element. *)
LEMMA SmallestOf ==
    ASSUME NEW S \in SUBSET Nat, S # {}
    PROVE  Min(S) \in S /\ \A n \in S : Min(S) <= n
<1> DEFINE R == {ss \in Nat \X Nat : ss[1] < ss[2]}
<1>1. IsWellFoundedOn(R, Nat)
  BY NatLessThanWellFounded, Zenon DEF OpToRel
<1> HIDE DEF R
<1>2. PICK x \in S : \A y \in S : ~(<<y, x>> \in R)
  BY <1>1, WFMin, Zenon
<1>3. \A m, n \in Nat : <<m, n>> \in R <=> m < n
  BY Zenon DEF R
<1>4. \A y \in S : ~(y < x)
  BY <1>2, <1>3, Zenon
<1>5. \A y \in S : x <= y
  BY <1>4
<1> QED
  BY <1>5, Zenon DEF Min

(* What `parse` makes of a read without a panic: frames only, up to the    *)
(* first failure if there is one.                                          *)
LEMMA Parsed ==
    ASSUME NEW c \in Client, Typed, Reading(c),
           NEW u \in Nat, u = batch[c].upto,
           NEW m \in Nat, u + 1 <= m, m <= Len(stream[c]),
           ~Panics(c, u + 1 .. m)
    PROVE  LET last == LastFrame(c, u + 1 .. m)
           IN  /\ last \in Nat
               /\ u <= last
               /\ last <= Len(stream[c])
               /\ \A j \in 1 .. last : stream[c][j] \notin {Malformed, Oversized}
               /\ Failures(c, u + 1 .. m) # {} => /\ last + 1 <= Len(stream[c])
                                                  /\ stream[c][last + 1] = Malformed
<1> DEFINE new == u + 1 .. m
<1>1. Len(stream[c]) \in Nat
  BY DEF Typed
<1>2. \A j \in 1 .. u : stream[c][j] \notin {Malformed, Oversized}
  BY Zenon DEF Reading
<1>3. /\ \A j \in new : j \in Nat /\ u + 1 <= j /\ j <= m
      /\ \A j \in Nat : u + 1 <= j /\ j <= m => j \in new
  OBVIOUS
<1>4. Cardinality(new) = m - u
  BY FS_Interval
<1>5. ~Panics(c, new)
  OBVIOUS
<1> HIDE DEF new
<1>6. CASE Failures(c, new) = {}
  <2>2. LastFrame(c, new) = m
    BY <1>6, <1>4 DEF LastFrame
  <2>3. \A j \in new : stream[c][j] \notin {Malformed, Oversized}
    BY <1>6, <1>5, Zenon DEF Failures, Panics
  <2>4. \A j \in 1 .. m : j \in 1 .. u \/ j \in new
    BY <1>3
  <2> QED
    BY <1>1, <1>2, <1>6, <2>2, <2>3, <2>4 DEF new
<1>7. CASE Failures(c, new) # {}
  <2> DEFINE f == Min(Failures(c, new))
  <2>1. Failures(c, new) \in SUBSET Nat
    BY <1>3, Zenon DEF Failures
  <2>2. f \in Failures(c, new) /\ \A n \in Failures(c, new) : f <= n
    BY <1>7, <2>1, SmallestOf, Zenon
  <2>3. LastFrame(c, new) = f - 1
    BY <1>7, Zenon DEF LastFrame
  <2> HIDE DEF f
  <2>4. f \in Nat /\ u + 1 <= f /\ f <= m /\ stream[c][f] = Malformed
    BY <1>3, <2>2, Zenon DEF Failures
  <2>5. \A j \in u + 1 .. f - 1 : stream[c][j] \notin {Malformed, Oversized}
    <3> SUFFICES ASSUME NEW j \in u + 1 .. f - 1
                 PROVE  stream[c][j] # Malformed /\ stream[c][j] # Oversized
      OBVIOUS
    <3>1. j \in new /\ j \in Nat /\ f \in Nat /\ j < f
      BY <1>3, <2>4
    <3>2. stream[c][j] # Malformed
      <4>1. j \in Failures(c, new) => f <= j
        BY <2>2, Zenon
      <4> QED
        BY <3>1, <4>1 DEF Failures
    <3>3. \A n \in Failures(c, new) : j < n
      BY <2>1, <2>2, <3>1
    <3> QED
      BY <1>5, <3>1, <3>2, <3>3, Zenon DEF Panics
  <2>6. \A j \in 1 .. f - 1 : j \in 1 .. u \/ j \in u + 1 .. f - 1
    BY <1>1, <2>4
  <2> QED
    <3>1. \A j \in 1 .. f - 1 : stream[c][j] \notin {Malformed, Oversized}
      BY <1>2, <2>5, <2>6, Zenon
    <3>2. f - 1 \in Nat /\ u <= f - 1 /\ f - 1 + 1 = f /\ f <= Len(stream[c])
      BY <1>1, <2>4
    <3> QED
      BY <2>3, <2>4, <3>1, <3>2 DEF new
<1> QED
  BY <1>6, <1>7, Zenon

-----------------------------------------------------------------------------
(* Steps of a session *)

Same(c) == /\ at'[c] = at[c] /\ stream'[c] = stream[c] /\ batch'[c] = batch[c]
           /\ reply'[c] = reply[c] /\ answers'[c] = answers[c]
           /\ authenticated'[c] = authenticated[c]

(* What a step of c has to show: the others are left alone. *)
Kept(c) == Typed' /\ Session(c)' /\ \A d \in Client \ {c} : Same(d)

(* Answers stay right while nothing is sent or answered. *)
LEMMA SameAnswers ==
    ASSUME NEW c, Answered(c), answers'[c] = answers[c], stream'[c] = stream[c]
    PROVE  Answered(c)'
BY DEF Answered

(* A session that is left alone stays right. *)
LEMMA SameSession ==
    ASSUME NEW c \in Client, Session(c), Same(c)
    PROVE  Session(c)'
<1>1. Reading(c)' /\ InBatch(c)'
  BY Zenon DEF Session, Same, Reading, InBatch
<1>2. Rights(c)'
  BY Zenon DEF Session, Same, Rights, IsAuthorized, This, Place
<1>3. Answered(c)'
  BY SameAnswers, Zenon DEF Session, Same
<1> QED
  BY <1>1, <1>2, <1>3, Zenon DEF Session

(* The task moves on, or ends, without a reply. *)
LEMMA Moves ==
    ASSUME NEW c \in Client, Typed, Session(c),
           NEW where \in Ended \cup Busy, where \notin {"del", "send"},
           where \in {"select", "shutdown", "malformed"} => batch[c].next = batch[c].upto + 1,
           where = "select" => ~batch[c].halting,
           where = "malformed" => batch[c].halting,
           End(c, where), UNCHANGED stream
    PROVE  Kept(c)
<1>1. at' = [at EXCEPT ![c] = where] /\ at'[c] = where
  BY Zenon DEF Typed, End
<1>2. UNCHANGED <<stream, batch, reply, authenticated, answers>>
  BY Zenon DEF End
<1>3. Typed'
  BY <1>1, <1>2, Zenon DEF Typed
<1>4. Reading(c)'
  BY <1>2, Zenon DEF Session, Reading
<1>5. InBatch(c)'
  BY <1>1, <1>2, Zenon DEF Session, InBatch
<1>6. Rights(c)'
  BY <1>1, <1>2, Zenon DEF Session, Rights
<1>7. Answered(c)'
  BY <1>2, SameAnswers, Zenon DEF Session
<1>8. \A d \in Client \ {c} : Same(d)
  BY <1>1, <1>2, Zenon DEF Same, Typed
<1> QED
  BY <1>3, <1>4, <1>5, <1>6, <1>7, <1>8, Zenon DEF Kept, Session

(* The task has a reply to a data command only if it was authorized. *)
LEMMA Responds ==
    ASSUME NEW c \in Client, Typed, Session(c), NEW frame,
           batch[c].next <= batch[c].upto,
           This(c)[1] \in DataCommands /\ frame[1] # "SimpleError" => IsAuthorized(c),
           Respond(c, frame), UNCHANGED <<stream, batch, authenticated, answers>>
    PROVE  Kept(c)
<1>1. at' = [at EXCEPT ![c] = "send"] /\ at'[c] = "send"
  BY Zenon DEF Typed, Respond
<1>2. reply' = [reply EXCEPT ![c] = frame] /\ reply'[c] = frame
  BY Zenon DEF Typed, Respond
<1>3. Typed'
  BY <1>1, <1>2, Zenon DEF Typed, Busy
<1>4. Reading(c)'
  BY Zenon DEF Session, Reading
<1>5. InBatch(c)'
  BY <1>1, Zenon DEF Session, InBatch
<1>6. Rights(c)'
  BY <1>1, <1>2, Zenon DEF Session, Rights, IsAuthorized, This, Place
<1>7. Answered(c)'
  BY SameAnswers, Zenon DEF Session
<1>8. \A d \in Client \ {c} : Same(d)
  BY <1>1, <1>2, Zenon DEF Same, Typed
<1> QED
  BY <1>3, <1>4, <1>5, <1>6, <1>7, <1>8, Zenon DEF Kept, Session

(* A read hands `run` a new batch when the last one is dealt with. *)
LEMMA ReadKeeps ==
    ASSUME NEW c \in Client, Typed, Session(c), Read(c)
    PROVE  Kept(c)
<1>1. PICK m \in batch[c].upto + 1 .. Len(stream[c]) :
          /\ ~Panics(c, batch[c].upto + 1 .. m)
          /\ batch' = [batch EXCEPT ![c] =
                          [next |-> @.next, upto |-> LastFrame(c, batch[c].upto + 1 .. m),
                           halting |-> Failures(c, batch[c].upto + 1 .. m) # {}]]
  BY Zenon DEF Read
<1> DEFINE u == batch[c].upto
           last == LastFrame(c, u + 1 .. m)
           fails == Failures(c, u + 1 .. m) # {}
<1>2. u \in Nat /\ batch[c].next \in Nat \ {0} /\ Len(stream[c]) \in Nat
  BY DEF Typed
<1>3. m \in Nat /\ u + 1 <= m /\ m <= Len(stream[c])
  BY <1>2
<1>4. /\ last \in Nat /\ u <= last /\ last <= Len(stream[c])
      /\ \A j \in 1 .. last : stream[c][j] \notin {Malformed, Oversized}
      /\ fails => last + 1 <= Len(stream[c]) /\ stream[c][last + 1] = Malformed
  <2>1. Reading(c) /\ ~Panics(c, u + 1 .. m)
    BY <1>1, Zenon DEF Session
  <2> QED
    BY <1>2, <1>3, <2>1, Parsed
<1>5. fails \in BOOLEAN
  OBVIOUS
<1>6. batch' = [batch EXCEPT ![c] = [next |-> batch[c].next, upto |-> last, halting |-> fails]]
  BY <1>1, Zenon
<1> HIDE DEF last, fails
<1>7. /\ batch'[c].next = batch[c].next /\ batch'[c].upto = last
      /\ batch'[c].halting = fails
  BY <1>6, Zenon DEF Typed
<1>8. /\ at' = [at EXCEPT ![c] = "frames"] /\ at'[c] = "frames" /\ at[c] = "select"
      /\ UNCHANGED <<stream, reply, authenticated, answers>>
  BY Zenon DEF Read, client, Typed
<1>9. batch' \in [Client -> [next : Nat \ {0}, upto : Nat, halting : BOOLEAN]]
  BY <1>2, <1>4, <1>5, <1>6, Zenon DEF Typed
<1>10. Typed'
  BY <1>8, <1>9, Zenon DEF Typed, Busy
<1>11. Reading(c)'
  <2>1. Len(answers[c]) + 1 = batch[c].next /\ batch[c].next <= u + 1
    BY Zenon DEF Session, Reading
  <2>2. batch[c].next <= last + 1
    BY <1>2, <1>4, <2>1
  <2> QED
    BY <1>4, <1>7, <1>8, <2>1, <2>2, Zenon DEF Reading
<1>12. InBatch(c)'
  BY <1>8, Zenon DEF InBatch
<1>13. Rights(c)'
  <2>1. ASSUME Password # None, authenticated[c]
        PROVE  \E j \in 1 .. batch[c].next : j <= last /\ stream[c][j] = RightAuth
    <3>1. PICK j \in 1 .. batch[c].next : j <= u /\ stream[c][j] = RightAuth
      BY <2>1, Zenon DEF Session, Rights
    <3>2. j <= last
      BY <1>2, <1>4, <3>1
    <3> QED
      BY <3>1, <3>2, Zenon
  <2> QED
    BY <1>7, <1>8, <2>1 DEF Rights
<1>14. Answered(c)'
  BY <1>8, SameAnswers, Zenon DEF Session
<1>15. \A d \in Client \ {c} : Same(d)
  BY <1>6, <1>8, Zenon DEF Same, Typed
<1> QED
  BY <1>10, <1>11, <1>12, <1>13, <1>14, <1>15, Zenon DEF Kept, Session

(* The answer is the next one; if it is data, the password stands before   *)
(* its frame, for the frame itself is not an AUTH.                         *)
LEMMA SendResponseKeeps ==
    ASSUME NEW c \in Client, Typed, Session(c), SendResponse(c)
    PROVE  Kept(c)
<1> DEFINE n == batch[c].next
           u == batch[c].upto
           answer == <<n, reply[c]>>
<1>1. n \in Nat \ {0} /\ u \in Nat /\ n <= u /\ Len(answers[c]) + 1 = n
  BY Zenon DEF Typed, Session, Reading, InBatch, SendResponse
<1>2. /\ at' = [at EXCEPT ![c] = "frames"] /\ at'[c] = "frames" /\ at[c] = "send"
      /\ UNCHANGED <<stream, authenticated>>
      /\ reply' = [reply EXCEPT ![c] = None]
  BY Zenon DEF SendResponse, client, Typed
<1>3. answers' = [answers EXCEPT ![c] = Append(@, answer)]
      /\ answers'[c] = Append(answers[c], answer)
  BY Zenon DEF SendResponse, Place, Typed
<1>4. batch' = [batch EXCEPT ![c] = [next |-> n + 1, upto |-> u, halting |-> batch[c].halting]]
  BY Zenon DEF SendResponse
<1>5. /\ batch'[c].next = n + 1 /\ batch'[c].upto = u
      /\ batch'[c].halting = batch[c].halting
  BY <1>4, Zenon DEF Typed
<1>6. /\ IsSequence(answers'[c]) /\ Len(answers'[c]) = n /\ Len(answers[c]) \in Nat
      /\ \A i \in 1 .. n - 1 : answers'[c][i] = answers[c][i]
      /\ answers'[c][n] = answer
  <2>1. IsSequence(answers[c])
    BY Zenon DEF Typed
  <2> HIDE DEF n, answer
  <2>2. /\ IsSequence(Append(answers[c], answer))
        /\ Len(answers[c]) \in Nat
        /\ Len(Append(answers[c], answer)) = Len(answers[c]) + 1
        /\ \A i \in 1 .. Len(answers[c]) : Append(answers[c], answer)[i] = answers[c][i]
        /\ Append(answers[c], answer)[Len(answers[c]) + 1] = answer
    BY <2>1, Appended, Zenon
  <2>3. n - 1 = Len(answers[c])
    BY <1>1, <2>2
  <2> QED
    BY <1>1, <1>3, <2>2, <2>3, Zenon
<1>7. Typed'
  <2>1. batch' \in [Client -> [next : Nat \ {0}, upto : Nat, halting : BOOLEAN]]
    BY <1>1, <1>4 DEF Typed
  <2>2. /\ at' \in [Client -> Ended \cup {"none"} \cup Busy]
        /\ stream' \in [Client -> Seq(Frame)] /\ authenticated' \in [Client -> BOOLEAN]
        /\ reply' = [d \in Client |-> reply'[d]]
    BY <1>2, Zenon DEF Typed, Busy
  <2>3. /\ answers' = [d \in Client |-> answers'[d]]
        /\ \A d \in Client \ {c} : answers'[d] = answers[d]
    BY <1>3, Zenon DEF Typed
  <2>4. \A d \in Client : IsSequence(answers'[d])
    <3> SUFFICES ASSUME NEW d \in Client PROVE IsSequence(answers'[d])
      OBVIOUS
    <3>1. CASE d = c
      BY <1>6, <3>1, Zenon
    <3>2. CASE d # c
      <4>1. IsSequence(answers[d])
        BY Zenon DEF Typed
      <4> QED
        BY <2>3, <3>2, <4>1, Zenon
    <3> QED
      BY <3>1, <3>2, Zenon
  <2> QED
    BY <2>1, <2>2, <2>3, <2>4, Zenon DEF Typed
<1>8. Reading(c)'
  <2>1. /\ \A j \in 1 .. u : stream[c][j] \notin {Malformed, Oversized}
        /\ u <= Len(stream[c])
        /\ batch[c].halting => u + 1 <= Len(stream[c]) /\ stream[c][u + 1] = Malformed
    BY Zenon DEF Session, Reading
  <2>2. Len(answers'[c]) + 1 = n + 1 /\ n + 1 <= u + 1
    BY <1>1, <1>6
  <2> QED
    BY <1>2, <1>5, <2>1, <2>2, Zenon DEF Reading
<1>9. InBatch(c)'
  BY <1>2, Zenon DEF InBatch
<1>10. Rights(c)'
  <2>1. ASSUME Password # None, authenticated[c]
        PROVE  \E j \in 1 .. n + 1 : j <= u /\ stream[c][j] = RightAuth
    <3>1. PICK j \in 1 .. n : j <= u /\ stream[c][j] = RightAuth
      BY <2>1, Zenon DEF Session, Rights
    <3>2. j \in 1 .. n + 1
      BY <1>1, <3>1
    <3> QED
      BY <3>1, <3>2, Zenon
  <2> QED
    BY <1>2, <1>5, <2>1, Zenon DEF Rights
<1>11. Answered(c)'
  <2>1. ASSUME Password # None, stream[c][n][1] \in DataCommands, reply[c][1] # "SimpleError"
        PROVE  \E j \in 1 .. n - 1 : stream[c][j] = RightAuth
    <3>1. authenticated[c]
      BY <1>2, <2>1, Zenon DEF Session, Rights, This, Place, IsAuthorized
    <3>2. PICK j \in 1 .. n : stream[c][j] = RightAuth
      BY <2>1, <3>1, Zenon DEF Session, Rights
    <3>3. stream[c][j][1] \notin DataCommands
      BY <3>2 DEF DataCommands, RightAuth
    <3>4. j # n
      BY <2>1, <3>3, Zenon
    <3> QED
      BY <1>1, <3>2, <3>4
  <2> SUFFICES ASSUME NEW i \in 1 .. n
               PROVE  /\ answers'[c][i][1] = i
                      /\ Password # None /\ stream[c][i][1] \in DataCommands
                            /\ answers'[c][i][2][1] # "SimpleError"
                         => \E j \in 1 .. i - 1 : stream[c][j] = RightAuth
    BY <1>2, <1>6, Zenon DEF Answered
  <2>2. CASE i = n
    <3>1. answer[1] = n /\ answer[2] = reply[c]
      OBVIOUS
    <3> HIDE DEF n, answer
    <3>2. answers'[c][i] = answer
      BY <1>6, <2>2, Zenon
    <3> QED
      BY <2>1, <2>2, <3>1, <3>2, Zenon
  <2>3. CASE i # n
    <3>1. i \in 1 .. n - 1 /\ i \in 1 .. Len(answers[c])
      BY <1>1, <1>6, <2>3
    <3>2. answers'[c][i] = answers[c][i]
      BY <1>6, <3>1, Zenon
    <3> QED
      BY <3>1, <3>2, Zenon DEF Session, Answered
  <2> QED
    BY <2>2, <2>3, Zenon
<1>12. \A d \in Client \ {c} : Same(d)
  BY <1>2, <1>3, <1>4, Zenon DEF Same, Typed
<1> QED
  BY <1>7, <1>8, <1>9, <1>10, <1>11, <1>12, Zenon DEF Kept, Session

(* A login is recorded with the frame that it came in. *)
LEMMA AuthKeeps ==
    ASSUME NEW c \in Client, Typed, Session(c), Auth(c)
    PROVE  Kept(c)
<1> DEFINE n == batch[c].next
           right == Password # None /\ This(c)[2] = Password
<1>1. /\ n \in Nat \ {0} /\ batch[c].upto \in Nat /\ n <= batch[c].upto
      /\ batch[c].upto <= Len(stream[c]) /\ Len(stream[c]) \in Nat
  <2>1. n <= batch[c].upto
    BY Zenon DEF Auth, Executes, HasFrame
  <2> QED
    BY <2>1 DEF Typed, Session, Reading
<1>2. This(c) = stream[c][n] /\ This(c) \in Frame \ {Malformed, Oversized}
  BY <1>1 DEF This, Place, Typed, Session, Reading
<1>3. This(c)[1] = "auth" /\ CommandError(This(c)) = "none"
  BY Zenon DEF Auth, Executes
<1>4. Len(This(c)) = 2
  <2>1. Len(This(c)) \in Nat
    BY <1>2, FrameAssumption, Zenon
  <2>2. Len(This(c)) - 1 = Arity["auth"]
    BY <1>3, Zenon DEF CommandError
  <2> QED
    BY <2>1, <2>2 DEF Arity
<1>5. right => stream[c][n] = RightAuth
  <2>1. This(c) = [i \in 1 .. 2 |-> This(c)[i]]
    BY <1>2, <1>4, FrameAssumption, Zenon
  <2>2. ASSUME right PROVE This(c)[1] = "auth" /\ This(c)[2] = Password
    BY <1>3, <2>2, Zenon
  <2>3. ASSUME right PROVE This(c) = RightAuth
    <3> HIDE DEF right
    <3>1. [i \in 1 .. 2 |-> This(c)[i]] = <<This(c)[1], This(c)[2]>>
      OBVIOUS
    <3> QED
      BY <2>1, <2>2, <2>3, <3>1, Zenon DEF RightAuth
  <2> QED
    BY <1>2, <2>3, Zenon
<1>6. PICK frame : Respond(c, frame)
  BY Zenon DEF Auth
<1>7. /\ at' = [at EXCEPT ![c] = "send"] /\ at'[c] = "send"
      /\ reply' = [reply EXCEPT ![c] = frame]
      /\ UNCHANGED <<stream, batch, answers>>
  BY <1>6, Zenon DEF Auth, Respond, client, Typed
<1>8. authenticated' = [authenticated EXCEPT ![c] = authenticated[c] \/ right]
  BY Zenon DEF Auth
<1>9. (authenticated[c] \/ right) \in BOOLEAN
  OBVIOUS
<1> HIDE DEF right
<1>10. authenticated' \in [Client -> BOOLEAN] /\ authenticated'[c] = (authenticated[c] \/ right)
  BY <1>8, <1>9, Zenon DEF Typed
<1>11. Typed'
  BY <1>7, <1>10, Zenon DEF Typed, Busy
<1>12. Reading(c)'
  BY <1>7, Zenon DEF Session, Reading
<1>13. InBatch(c)'
  BY <1>1, <1>7, Zenon DEF InBatch
<1>14. Rights(c)'
  <2>1. ASSUME Password # None, authenticated'[c]
        PROVE  \E j \in 1 .. n : j <= batch[c].upto /\ stream[c][j] = RightAuth
    <3>1. CASE authenticated[c]
      BY <2>1, <3>1, Zenon DEF Session, Rights
    <3>2. CASE right
      BY <1>1, <1>5, <3>2
    <3> QED
      BY <1>10, <2>1, <3>1, <3>2, Zenon
  <2>2. This(c)' = This(c)
    BY <1>7, Zenon DEF This, Place
  <2>3. This(c)'[1] \notin DataCommands
    BY <1>3, <2>2, Zenon DEF DataCommands
  <2> QED
    BY <1>7, <2>1, <2>3, Zenon DEF Rights
<1>15. Answered(c)'
  BY <1>7, SameAnswers, Zenon DEF Session
<1>16. \A d \in Client \ {c} : Same(d)
  BY <1>7, <1>8, Zenon DEF Same, Typed
<1> QED
  BY <1>11, <1>12, <1>13, <1>14, <1>15, <1>16, Zenon DEF Kept, Session

(* More frames come behind the ones that were read. *)
LEMMA SubmitKeeps ==
    ASSUME NEW c \in Client, Typed, Session(c), NEW f \in Frame, Submit(c, f)
    PROVE  Kept(c)
<1> DEFINE s == stream[c]
<1>1. s \in Seq(Frame) /\ batch[c].upto \in Nat /\ batch[c].next \in Nat \ {0}
  BY Zenon DEF Typed
<1>2. /\ stream' = [stream EXCEPT ![c] = Append(s, f)] /\ stream'[c] = Append(s, f)
      /\ UNCHANGED <<at, batch, reply, authenticated, answers>>
  BY Zenon DEF Submit, task, Typed
<1>3. /\ stream'[c] \in Seq(Frame) /\ Len(stream'[c]) = Len(s) + 1 /\ Len(s) \in Nat
      /\ \A i \in 1 .. Len(s) : stream'[c][i] = stream[c][i]
  BY <1>1, <1>2
<1>4. Typed'
  BY <1>2, <1>3, Zenon DEF Typed
<1>5. batch[c].upto <= Len(s) /\ batch[c].next <= batch[c].upto + 1
      /\ Len(answers[c]) + 1 = batch[c].next
  BY Zenon DEF Session, Reading
<1> HIDE DEF s
<1>6. Reading(c)'
  <2>1. \A j \in 1 .. batch[c].upto : stream'[c][j] \notin {Malformed, Oversized}
    <3>1. \A j \in 1 .. batch[c].upto : stream[c][j] \notin {Malformed, Oversized}
      BY Zenon DEF Session, Reading
    <3>2. \A j \in 1 .. batch[c].upto : j \in 1 .. Len(s)
      BY <1>1, <1>3, <1>5
    <3> QED
      BY <1>3, <3>1, <3>2, Zenon
  <2>2. batch[c].halting => /\ batch[c].upto + 1 <= Len(stream'[c])
                            /\ stream'[c][batch[c].upto + 1] = Malformed
    <3> SUFFICES ASSUME batch[c].halting
                 PROVE  /\ batch[c].upto + 1 <= Len(stream'[c])
                        /\ stream'[c][batch[c].upto + 1] = Malformed
      OBVIOUS
    <3>1. batch[c].upto + 1 <= Len(s) /\ stream[c][batch[c].upto + 1] = Malformed
      BY Zenon DEF Session, Reading, s
    <3>2. batch[c].upto + 1 \in 1 .. Len(s) /\ batch[c].upto + 1 <= Len(stream'[c])
      BY <1>1, <1>3, <3>1
    <3> QED
      BY <1>3, <3>1, <3>2, Zenon
  <2>3. batch[c].upto <= Len(stream'[c])
    BY <1>1, <1>3, <1>5
  <2> QED
    BY <1>2, <1>5, <2>1, <2>2, <2>3, Zenon DEF Reading
<1>7. InBatch(c)'
  BY <1>2, Zenon DEF Session, InBatch
<1>8. Rights(c)'
  <2>1. ASSUME Password # None, authenticated[c]
        PROVE  \E j \in 1 .. batch[c].next :
                   j <= batch[c].upto /\ stream'[c][j] = RightAuth
    <3>1. PICK j \in 1 .. batch[c].next :
              j <= batch[c].upto /\ stream[c][j] = RightAuth
      BY <2>1, Zenon DEF Session, Rights
    <3>2. j \in 1 .. Len(s)
      BY <1>1, <1>3, <1>5, <3>1
    <3> QED
      BY <1>3, <3>1, <3>2, Zenon
  <2>2. at[c] = "send" => This(c)' = This(c)
    <3> SUFFICES ASSUME at[c] = "send" PROVE This(c)' = This(c)
      OBVIOUS
    <3>1. batch[c].next <= batch[c].upto
      BY Zenon DEF Session, InBatch
    <3>2. batch[c].next \in 1 .. Len(s)
      BY <1>1, <1>3, <1>5, <3>1
    <3> QED
      BY <1>2, <1>3, <3>2, Zenon DEF This, Place
  <2> QED
    BY <1>2, <2>1, <2>2, Zenon DEF Session, Rights, IsAuthorized
<1>9. Answered(c)'
  <2> SUFFICES ASSUME NEW i \in 1 .. Len(answers[c])
               PROVE  /\ answers[c][i][1] = i
                      /\ Password # None /\ stream'[c][i][1] \in DataCommands
                            /\ answers[c][i][2][1] # "SimpleError"
                         => \E j \in 1 .. i - 1 : stream'[c][j] = RightAuth
    BY <1>2, Zenon DEF Answered
  <2>1. Len(answers[c]) \in Nat
    <3>1. PICK S : answers[c] \in Seq(S)
      BY Zenon DEF Typed, IsSequence
    <3> QED
      BY <3>1
  <2>2. i \in 1 .. Len(s) /\ \A j \in 1 .. i - 1 : j \in 1 .. Len(s)
    BY <1>1, <1>3, <1>5, <2>1
  <2>3. stream'[c][i] = stream[c][i] /\ \A j \in 1 .. i - 1 : stream'[c][j] = stream[c][j]
    BY <1>3, <2>2, Zenon
  <2> QED
    BY <2>3 DEF Session, Answered
<1>10. \A d \in Client \ {c} : Same(d)
  BY <1>2, Zenon DEF Same, Typed
<1> QED
  BY <1>4, <1>6, <1>7, <1>8, <1>9, <1>10, Zenon DEF Kept, Session

(* A new connection starts with nothing read, answered or allowed. *)
LEMMA AcceptKeeps ==
    ASSUME NEW c \in Client, Typed, Accept(c)
    PROVE  Kept(c)
<1>1. /\ at' = [at EXCEPT ![c] = "select"] /\ stream' = [stream EXCEPT ![c] = <<>>]
      /\ batch' = [batch EXCEPT ![c] = NoBatch] /\ reply' = [reply EXCEPT ![c] = None]
      /\ authenticated' = [authenticated EXCEPT ![c] = FALSE]
      /\ answers' = [answers EXCEPT ![c] = <<>>]
  BY Zenon DEF Accept, NewConnection
<1>2. /\ at'[c] = "select" /\ stream'[c] = <<>> /\ batch'[c] = NoBatch
      /\ authenticated'[c] = FALSE /\ answers'[c] = <<>>
  BY <1>1, Zenon DEF Typed
<1>3. Typed'
  <2>1. \A d \in Client : IsSequence(answers'[d])
    BY <1>1 DEF Typed, IsSequence
  <2>2. NoBatch \in [next : Nat \ {0}, upto : Nat, halting : BOOLEAN]
    BY DEF NoBatch
  <2>3. batch' \in [Client -> [next : Nat \ {0}, upto : Nat, halting : BOOLEAN]]
    BY <1>1, <2>2, Zenon DEF Typed
  <2>4. /\ at' \in [Client -> Ended \cup {"none"} \cup Busy]
        /\ authenticated' \in [Client -> BOOLEAN]
    BY <1>1, Zenon DEF Typed, Busy
  <2>5. stream' \in [Client -> Seq(Frame)]
    BY <1>1 DEF Typed
  <2>6. /\ reply' = [d \in Client |-> reply'[d]]
        /\ answers' = [d \in Client |-> answers'[d]]
    BY <1>1, Zenon DEF Typed
  <2> QED
    BY <2>1, <2>3, <2>4, <2>5, <2>6, Zenon DEF Typed
<1>4. batch'[c].next = 1 /\ batch'[c].upto = 0 /\ batch'[c].halting = FALSE
  BY <1>2 DEF NoBatch
<1>5. Session(c)'
  BY <1>2, <1>4 DEF Session, Reading, InBatch, Rights, Answered
<1>6. \A d \in Client \ {c} : Same(d)
  BY <1>1, Zenon DEF Same, Typed
<1> QED
  BY <1>3, <1>5, <1>6, Zenon DEF Kept

(* The replies to the commands that are executed at once, DEL's too. *)
LEMMA ExecuteKeeps ==
    ASSUME NEW c \in Client, Typed, Session(c), Execute(c)
    PROVE  Kept(c) /\ at[c] \in Busy
<1>1. ASSUME HasFrame(c) PROVE batch[c].next <= batch[c].upto /\ at[c] \in Busy
  BY <1>1, Zenon DEF HasFrame, Busy
<1>2. ASSUME NEW verb \in DataCommands, Executes(c, verb)
      PROVE  IsAuthorized(c) /\ batch[c].next <= batch[c].upto /\ at[c] \in Busy
  BY <1>1, <1>2, Zenon DEF Executes, CanExecute, DataCommands
<1>3. CASE NotCommand(c)
  <2>1. HasFrame(c) /\ UNCHANGED stream
    BY <1>3, Zenon DEF NotCommand, client
  <2>2. CASE CommandError(This(c)) \in Closing
    <3>1. End(c, "invalid")
      BY <1>3, <2>2, Zenon DEF NotCommand
    <3> QED
      BY <1>1, <2>1, <3>1, Moves, Zenon DEF Ended
  <2>3. CASE CommandError(This(c)) \notin Closing
    <3> DEFINE frame == <<"SimpleError", CommandError(This(c))>>
    <3>1. Respond(c, frame) /\ UNCHANGED <<batch, authenticated, answers>>
      BY <1>3, <2>3, Zenon DEF NotCommand
    <3>2. frame[1] = "SimpleError"
      OBVIOUS
    <3> HIDE DEF frame
    <3> QED
      BY <1>1, <2>1, <3>1, <3>2, Responds, Zenon
  <2> QED
    BY <2>2, <2>3, Zenon
<1>4. CASE Unauthorized(c)
  <2>1. HasFrame(c) /\ Respond(c, <<"SimpleError", "NOAUTH">>)
        /\ UNCHANGED <<stream, batch, authenticated, answers>>
    BY <1>4, Zenon DEF Unauthorized, client
  <2> QED
    BY <1>1, <2>1, Responds, Zenon
<1>5. CASE Quit(c)
  <2>1. HasFrame(c) /\ End(c, "quit") /\ UNCHANGED stream
    BY <1>5, Zenon DEF Quit, Executes, client
  <2> QED
    BY <1>1, <2>1, Moves, Zenon DEF Ended
<1>6. CASE Ping(c)
  <2>1. HasFrame(c) /\ Respond(c, <<"SimpleString", "PONG">>)
        /\ UNCHANGED <<stream, batch, authenticated, answers>> /\ This(c)[1] \notin DataCommands
    BY <1>6, Zenon DEF Ping, Executes, client, DataCommands
  <2> QED
    BY <1>1, <2>1, Responds, Zenon
<1>7. CASE Auth(c)
  BY <1>1, <1>7, AuthKeeps, Zenon DEF Auth, Executes
<1>8. CASE Get(c) \/ Set(c) \/ TimeToLive(c) \/ Expire(c)
  <2>1. /\ \E verb \in DataCommands : Executes(c, verb)
        /\ \E frame : Respond(c, frame)
        /\ UNCHANGED <<stream, batch, authenticated, answers>>
    BY <1>8, Zenon DEF Get, Set, TimeToLive, Expire, DataCommands, client
  <2> QED
    BY <1>2, <2>1, Responds, Zenon
<1>9. CASE DelReturn(c)
  <2>1. /\ at[c] = "del" /\ \E frame : Respond(c, frame)
        /\ UNCHANGED <<stream, batch, authenticated, answers>>
    BY <1>9, Zenon DEF DelReturn, client
  <2>2. IsAuthorized(c) /\ batch[c].next <= batch[c].upto
    BY <2>1, Zenon DEF Session, InBatch, Rights
  <2> QED
    BY <2>1, <2>2, Responds, Zenon DEF Busy
<1>10. CASE ExpirePanics(c)
  <2>1. HasFrame(c) /\ End(c, "panicked") /\ UNCHANGED stream
    BY <1>10, Zenon DEF ExpirePanics, Executes, client
  <2> QED
    BY <1>1, <2>1, Moves, Zenon DEF Ended
<1>11. CASE DelCall(c)
  <2>1. /\ Executes(c, "del") /\ at' = [at EXCEPT ![c] = "del"]
        /\ UNCHANGED <<stream, batch, reply, authenticated, answers>>
    BY <1>11, Zenon DEF DelCall, client
  <2>2. IsAuthorized(c) /\ batch[c].next <= batch[c].upto /\ at[c] \in Busy
    BY <1>2, <2>1, Zenon DEF DataCommands
  <2>3. at'[c] = "del"
    BY <2>1, Zenon DEF Typed
  <2>4. Typed'
    BY <2>1, Zenon DEF Typed, Busy
  <2>5. Reading(c)' /\ InBatch(c)'
    BY <2>1, <2>2, <2>3, Zenon DEF Session, Reading, InBatch
  <2>6. Rights(c)'
    BY <2>1, <2>2, <2>3, Zenon DEF Session, Rights, IsAuthorized
  <2>7. Answered(c)'
    BY <2>1, SameAnswers, Zenon DEF Session
  <2>8. \A d \in Client \ {c} : Same(d)
    BY <2>1, Zenon DEF Same, Typed
  <2> QED
    BY <2>2, <2>4, <2>5, <2>6, <2>7, <2>8, Zenon DEF Kept, Session
<1> QED
  BY <1>3, <1>4, <1>5, <1>6, <1>7, <1>8, <1>9, <1>10, <1>11, Zenon DEF Execute

(* Every step of a connection that is not its client's. *)
LEMMA TaskKeeps ==
    ASSUME NEW c \in Client, Typed, Session(c), Run(c) \/ Write(c)
    PROVE  Kept(c) /\ at[c] \in Busy
<1>1. CASE Read(c)
  BY <1>1, ReadKeeps, Zenon DEF Read, Busy
<1>2. CASE ReadPanics(c)
  <2>1. at[c] = "select" /\ End(c, "panicked") /\ UNCHANGED stream
    BY <1>2, Zenon DEF ReadPanics, client
  <2> QED
    BY <2>1, Moves, Zenon DEF Ended, Busy
<1>3. CASE ReadNothing(c)
  <2>1. at[c] = "select" /\ End(c, "closed") /\ UNCHANGED stream
    BY <1>3, Zenon DEF ReadNothing, client
  <2> QED
    BY <2>1, Moves, Zenon DEF Ended, Busy
<1>4. CASE Cancelled(c)
  <2>1. at[c] = "select" /\ End(c, "shutdown") /\ UNCHANGED stream
    BY <1>4, Zenon DEF Cancelled, client
  <2>2. batch[c].next = batch[c].upto + 1
    BY <2>1, Zenon DEF Session, InBatch
  <2> QED
    BY <2>1, <2>2, Moves, Zenon DEF Ended, Busy
<1>5. CASE BatchDone(c)
  <2>1. /\ at[c] = "frames" /\ batch[c].next > batch[c].upto
        /\ End(c, AfterBatch(c)) /\ UNCHANGED stream
    BY <1>5, Zenon DEF BatchDone, client
  <2>2. batch[c].next = batch[c].upto + 1
    BY <2>1 DEF Typed, Session, Reading
  <2>3. CASE batch[c].halting
    BY <2>1, <2>2, <2>3, Moves, Zenon DEF AfterBatch, Ended, Busy
  <2>4. CASE ~batch[c].halting
    BY <2>1, <2>2, <2>4, Moves, Zenon DEF AfterBatch, Ended, Busy
  <2> QED
    BY <2>3, <2>4, Zenon
<1>6. CASE Execute(c)
  BY <1>6, ExecuteKeeps, Zenon
<1>7. CASE SendResponse(c)
  BY <1>7, SendResponseKeeps, Zenon DEF SendResponse, Busy
<1>8. CASE SendFails(c)
  <2>1. at[c] = "send" /\ End(c, "failed") /\ UNCHANGED stream
    BY <1>8, Zenon DEF SendFails, client
  <2> QED
    BY <2>1, Moves, Zenon DEF Ended, Busy
<1> QED
  BY <1>1, <1>2, <1>3, <1>4, <1>5, <1>6, <1>7, <1>8, Zenon DEF Run, Write

-----------------------------------------------------------------------------
(* The invariant *)

(* What a step of c keeps, with what the others keep, is the whole. *)
LEMMA KeptByAll ==
    ASSUME NEW c \in Client, \A d \in Client : Session(d), Kept(c)
    PROVE  Typed' /\ \A d \in Client : Session(d)'
<1> SUFFICES ASSUME NEW d \in Client PROVE Session(d)'
  BY Zenon DEF Kept
<1>1. CASE d = c
  BY <1>1, Zenon DEF Kept
<1>2. CASE d # c
  BY <1>2, SameSession, Zenon DEF Kept
<1> QED
  BY <1>1, <1>2, Zenon

(* Steps of the server that touch no session. *)
LEMMA NoSessionStep ==
    ASSUME Typed, \A c \in Client : Session(c),
           UNCHANGED <<at, stream, batch, reply, authenticated, answers>>
    PROVE  Typed' /\ \A c \in Client : Session(c)'
<1>1. Typed'
  BY Zenon DEF Typed
<1>2. \A c \in Client : Same(c)
  BY Zenon DEF Same
<1> QED
  BY <1>1, <1>2, SameSession, Zenon

(* The server starts with no session and no archive. *)
LEMMA ServerInvInit == Init => ServerInv
<1> SUFFICES ASSUME Init PROVE ServerInv
  OBVIOUS
<1> USE DEF Init, ConnectionInit
<1>1. Typed
  <2>1. batch \in [Client -> [next : Nat \ {0}, upto : Nat, halting : BOOLEAN]]
    BY DEF NoBatch
  <2>2. \A c \in Client : IsSequence(answers[c])
    BY DEF IsSequence
  <2> QED
    BY <2>1, <2>2 DEF Typed
<1>2. \A c \in Client : Session(c)
  BY DEF NoBatch, Session, Reading, InBatch, Rights, Answered
<1>3. Idle /\ Saved
  BY Zenon DEF Idle, Saved
<1> QED
  BY <1>1, <1>2, <1>3, Zenon DEF ServerInv

(* Every step of the server and of its connections keeps the invariant. *)
LEMMA ServerInvNext == ServerInv /\ [Next]_vars => ServerInv'
<1> SUFFICES ASSUME ServerInv, [Next]_vars PROVE ServerInv'
  OBVIOUS
<1>0. Typed /\ (\A c \in Client : Session(c)) /\ Idle /\ Saved
  BY Zenon DEF ServerInv
<1>1. ASSUME UNCHANGED <<task, client>>, Idle', Saved' PROVE ServerInv'
  BY <1>0, <1>1, NoSessionStep, Zenon DEF task, client, ServerInv
<1>2. CASE Shutdown \/ StopAccepting \/ DrainTimeout
  <2>1. UNCHANGED <<task, client, open, archive, store>>
    BY <1>2, Zenon DEF Shutdown, StopAccepting, DrainTimeout
  <2>2. server' = server \/ server' \in {"draining", "aborting"}
    BY <1>2, Zenon DEF Shutdown, StopAccepting, DrainTimeout
  <2>3. server' # server => server # "stopped"
    BY <1>2, Zenon DEF Shutdown, StopAccepting, DrainTimeout, TimesOut
  <2> QED
    BY <1>0, <1>1, <2>1, <2>2, <2>3, Zenon DEF Idle, Saved, task, client, store
<1>3. CASE Drained
  BY <1>0, <1>1, <1>3, Zenon DEF Drained, AllJoined, Idle, Saved, task, client, store
<1>4. CASE Save
  BY <1>0, <1>1, <1>4, Zenon DEF Save, Idle, Saved, task, client, store
<1>5. CASE Tick
  BY <1>0, <1>1, <1>5, Zenon DEF Tick, Idle, Saved, task, client
<1>6. CASE UNCHANGED vars
  BY <1>0, <1>1, <1>6, Zenon DEF vars, Idle, Saved, task, client, store
<1>7. ASSUME NEW c \in Client, Accept(c) PROVE ServerInv'
  <2>1. Kept(c)
    BY <1>0, <1>7, AcceptKeeps, Zenon
  <2>2. Idle'
    BY <1>0, <1>7, <2>1, Zenon DEF Accept, Idle, Kept, Same
  <2>3. Saved'
    BY <1>0, <1>7, Zenon DEF Accept, Saved, store
  <2> QED
    BY <1>0, <2>1, <2>2, <2>3, KeptByAll, Zenon DEF ServerInv
<1>8. ASSUME NEW c \in Client, Join(c) PROVE ServerInv'
  BY <1>0, <1>1, <1>8, Zenon DEF Join, Idle, Saved, task, client, store
<1>9. ASSUME NEW c \in Client, Aborted(c) PROVE ServerInv'
  <2>1. End(c, "aborted") /\ UNCHANGED <<stream, server, open, archive>> /\ server = "aborting"
    BY <1>9, Zenon DEF Aborted, client
  <2>2. Kept(c)
    BY <1>0, <2>1, Moves, Zenon DEF Ended
  <2>3. Idle'
    BY <1>0, <2>1, <2>2, Zenon DEF Idle, Kept, Same, End, Typed, Ended
  <2>4. Saved'
    BY <1>0, <2>1, Zenon DEF Saved
  <2> QED
    BY <1>0, <2>2, <2>3, <2>4, KeptByAll, Zenon DEF ServerInv
<1>10. ASSUME NEW c \in Client, Connections(c) PROVE ServerInv'
  <2>1. UNCHANGED <<server, open, archive>>
    BY <1>10, Zenon DEF Connections
  <2>2. CASE Run(c) \/ Write(c)
    <3>1. Kept(c) /\ at[c] \in Busy
      BY <1>0, <2>2, TaskKeeps, Zenon
    <3>2. c \in open
      BY <1>0, <3>1, Zenon DEF Idle, Busy, Ended
    <3>3. Idle'
      BY <1>0, <2>1, <3>1, <3>2, Zenon DEF Idle, Kept, Same
    <3>4. Saved'
      BY <1>0, <2>1, <3>2, Zenon DEF Saved
    <3> QED
      BY <1>0, <3>1, <3>3, <3>4, KeptByAll, Zenon DEF ServerInv
  <2>3. CASE HangUp(c)
    BY <1>0, <2>1, <2>3, NoSessionStep, Zenon DEF HangUp, Idle, Saved, task, store, ServerInv
  <2>4. ASSUME NEW f \in Frame, Submit(c, f) PROVE ServerInv'
    <3>1. Kept(c)
      BY <1>0, <2>4, SubmitKeeps, Zenon
    <3>2. Idle' /\ Saved'
      BY <1>0, <2>1, <2>4, Zenon DEF Submit, Idle, Saved, task, store
    <3> QED
      BY <1>0, <3>1, <3>2, KeptByAll, Zenon DEF ServerInv
  <2> QED
    BY <1>10, <2>2, <2>3, <2>4, Zenon DEF Connections
<1> QED
  BY <1>2, <1>3, <1>4, <1>5, <1>6, <1>7, <1>8, <1>9, <1>10, Zenon DEF Next

(* ServerInv is an invariant of the server. *)
LEMMA ServerInvariant == Spec => []ServerInv
BY ServerInvInit, ServerInvNext, PTL DEF Spec

-----------------------------------------------------------------------------
(* What is saved when the server stops is the store as the last connection *)
(* left it: no task, an aborted one included, runs behind the dump.        *)
THEOREM SavedIsFinal == Spec => []ArchiveIsFinal
<1>1. ServerInv => ArchiveIsFinal
  BY Zenon DEF ServerInv, Saved, ArchiveIsFinal
<1> QED
  BY <1>1, ServerInvariant, PTL

(* The loop of `run` answers the frames of a connection one by one, in     *)
(* order, however they are spread over reads.                              *)
THEOREM RepliesInOrder == Spec => []AnsweredInOrder
<1>1. ServerInv => AnsweredInOrder
  <2> SUFFICES ASSUME ServerInv, NEW c \in Client, NEW i \in DOMAIN answers[c]
               PROVE  answers[c][i][1] = i
    BY Zenon DEF AnsweredInOrder
  <2>1. PICK S : answers[c] \in Seq(S)
    BY Zenon DEF ServerInv, Typed, IsSequence
  <2>2. i \in 1 .. Len(answers[c])
    BY <2>1
  <2> QED
    BY <2>2, Zenon DEF ServerInv, Session, Answered
<1> QED
  BY <1>1, ServerInvariant, PTL

(* What was completed before a parse error, or read before a shutdown, is  *)
(* answered before the task ends.                                          *)
THEOREM CompletedServed == Spec => []CompletedFramesServed
<1>1. ServerInv => CompletedFramesServed
  <2> SUFFICES ASSUME ServerInv, NEW c \in Client
               PROVE  /\ at[c] = "malformed" => /\ Len(answers[c]) < Len(stream[c])
                                                /\ stream[c][Len(answers[c]) + 1] = Malformed
                      /\ at[c] = "shutdown" => Len(answers[c]) = batch[c].upto
    BY Zenon DEF CompletedFramesServed
  <2>1. PICK S : answers[c] \in Seq(S)
    BY Zenon DEF ServerInv, Typed, IsSequence
  <2>2. Len(answers[c]) \in Nat /\ Len(stream[c]) \in Nat /\ batch[c].upto \in Nat
    BY <2>1 DEF ServerInv, Typed
  <2>3. Reading(c) /\ InBatch(c)
    BY Zenon DEF ServerInv, Session
  <2> QED
    BY <2>2, <2>3 DEF Reading, InBatch
<1> QED
  BY <1>1, ServerInvariant, PTL

(* is_authorized lets a data command through only after the right password *)
(* was given on the same connection, before the command.                   *)
THEOREM AuthIsScoped == Spec => []AuthScoped
<1>1. ServerInv => AuthScoped
  <2> SUFFICES ASSUME ServerInv, Password # None, NEW c \in Client,
                      NEW i \in DOMAIN answers[c],
                      stream[c][answers[c][i][1]][1] \in DataCommands,
                      answers[c][i][2][1] # "SimpleError"
               PROVE  \E j \in 1 .. answers[c][i][1] - 1 : stream[c][j] = RightAuth
    BY Zenon DEF AuthScoped, RightAuth
  <2>1. PICK S : answers[c] \in Seq(S)
    BY Zenon DEF ServerInv, Typed, IsSequence
  <2>2. i \in 1 .. Len(answers[c])
    BY <2>1
  <2>3. Answered(c)
    BY Zenon DEF ServerInv, Session
  <2>4. answers[c][i][1] = i
    BY <2>2, <2>3, Zenon DEF Answered
  <2> QED
    BY <2>2, <2>3, <2>4, Zenon DEF Answered
<1> QED
  BY <1>1, ServerInvariant, PTL

-----------------------------------------------------------------------------
(* Types *)

(* A task is in the middle of a DEL exactly when the store knows of it. *)
Deleting == /\ del = [c \in Client |-> del[c]]
            /\ \A c \in Client : del[c] # None <=> at[c] = "del"

Bounded == /\ shutdown \in BOOLEAN
           /\ \A c \in Client : Len(stream[c]) <= MaxFrames
           /\ server \in {"accepting", "draining", "aborting", "saving", "stopped"}
           /\ open \subseteq Client

(* No connection sends more than the model lets it, and the server goes    *)
(* through its phases.                                                     *)
LEMMA BoundedNext ==
    ASSUME ServerInv, Bounded, [Next]_vars
    PROVE  Bounded'
<1>1. Typed
  BY Zenon DEF ServerInv
<1>2. CASE Shutdown \/ StopAccepting \/ DrainTimeout \/ Drained \/ Save \/ Tick \/ UNCHANGED vars
  BY <1>2, Zenon DEF Bounded, Shutdown, StopAccepting, DrainTimeout, Drained, Save, Tick, client, vars
<1>3. ASSUME NEW c \in Client, Accept(c) PROVE Bounded'
  <2>1. stream' = [stream EXCEPT ![c] = <<>>] /\ open' = open \cup {c}
        /\ UNCHANGED <<shutdown, server>>
    BY <1>3, Zenon DEF Accept
  <2>2. \A d \in Client : Len(stream'[d]) <= MaxFrames
    BY <1>1, <2>1, MaxFramesAssumption DEF Bounded, Typed
  <2> QED
    BY <2>1, <2>2, Zenon DEF Bounded
<1>4. ASSUME NEW c \in Client, Join(c) \/ Aborted(c) PROVE Bounded'
  BY <1>4, Zenon DEF Bounded, Join, Aborted, client
<1>5. ASSUME NEW c \in Client, Connections(c) PROVE Bounded'
  <2>1. UNCHANGED <<server, open>>
    BY <1>5, Zenon DEF Connections
  <2>2. CASE Run(c) \/ Write(c) \/ HangUp(c)
    <3>1. UNCHANGED <<shutdown, stream>>
      BY <2>2, Zenon DEF Run, Write, HangUp, Read, ReadPanics, ReadNothing, Cancelled, BatchDone, Execute,
                  NotCommand, Unauthorized, Quit, Ping, Auth, Get, Set, TimeToLive, DelCall,
                  DelReturn, Expire, ExpirePanics, SendResponse, SendFails, client
    <3> QED
      BY <2>1, <3>1, Zenon DEF Bounded
  <2>3. ASSUME NEW f \in Frame, Submit(c, f) PROVE Bounded'
    <3>1. /\ stream' = [stream EXCEPT ![c] = Append(stream[c], f)] /\ UNCHANGED shutdown
          /\ Len(stream[c]) < MaxFrames /\ stream[c] \in Seq(Frame)
      BY <1>1, <2>3, Zenon DEF Submit, Typed
    <3>2. Len(Append(stream[c], f)) <= MaxFrames
      BY <3>1, MaxFramesAssumption
    <3>3. \A d \in Client : Len(stream'[d]) <= MaxFrames
      BY <1>1, <3>1, <3>2, Zenon DEF Bounded, Typed
    <3> QED
      BY <2>1, <3>1, <3>3, Zenon DEF Bounded
  <2> QED
    BY <1>5, <2>2, <2>3, Zenon DEF Connections
<1> QED
  BY <1>2, <1>3, <1>4, <1>5, Zenon DEF Next

(* A step that leaves the pending DELs alone, and moves no task into a DEL *)
(* or out of one.                                                          *)
LEMMA NotDeleting ==
    ASSUME Typed, Deleting, NEW c \in Client, at[c] # "del",
           NEW where, where # "del", at' = [at EXCEPT ![c] = where], UNCHANGED del
    PROVE  Deleting'
BY Zenon DEF Typed, Deleting

(* The key of a command, when it has one. *)
LEMMA KeyNamed ==
    ASSUME NEW c \in Client, Typed, Session(c),
           NEW verb \in DataCommands, Executes(c, verb)
    PROVE  This(c)[2] \in Key
<1>1. /\ batch[c].next \in Nat \ {0} /\ batch[c].upto \in Nat /\ batch[c].next <= batch[c].upto
      /\ batch[c].upto <= Len(stream[c]) /\ stream[c] \in Seq(Frame)
  <2>1. batch[c].next <= batch[c].upto
    BY Zenon DEF Executes, HasFrame
  <2> QED
    BY <2>1, Zenon DEF Typed, Session, Reading
<1>2. This(c) \in Frame \ {Malformed, Oversized}
  <2>1. This(c) = stream[c][batch[c].next] /\ batch[c].next \in 1 .. batch[c].upto
    BY <1>1 DEF This, Place
  <2>2. stream[c][batch[c].next] \in Frame
    BY <1>1
  <2>3. stream[c][batch[c].next] \notin {Malformed, Oversized}
    BY <2>1, Zenon DEF Session, Reading
  <2> QED
    BY <2>1, <2>2, <2>3, Zenon
<1>3. CommandError(This(c)) = "none" /\ This(c)[1] \notin {"auth", "ping", "quit"}
  BY Zenon DEF Executes, DataCommands
<1> QED
  BY <1>2, <1>3, KeyAssumption, Zenon

(* The store's side of DEL and the connection's agree. *)
LEMMA DeletingNext ==
    ASSUME ServerInv, Deleting, [Next]_vars
    PROVE  Deleting'
<1>1. Typed /\ (\A c \in Client : Session(c)) /\ Idle
  BY Zenon DEF ServerInv
<1>2. CASE Shutdown \/ StopAccepting \/ DrainTimeout \/ Drained \/ Save \/ UNCHANGED vars
  BY <1>2, Zenon DEF Deleting, Shutdown, StopAccepting, DrainTimeout, Drained, Save, store, task, vars
<1>3. CASE Tick
  BY <1>3, Zenon DEF Deleting, Tick, Db!Tick, task
<1>4. ASSUME NEW c \in Client, Accept(c) PROVE Deleting'
  <2>1. at[c] # "del"
    BY <1>1, <1>4, Zenon DEF Accept, Idle, Ended
  <2> QED
    BY <1>1, <1>4, <2>1, NotDeleting, Zenon DEF Accept, store
<1>5. ASSUME NEW c \in Client, Join(c) PROVE Deleting'
  BY <1>5, Zenon DEF Deleting, Join, store, task
<1>6. ASSUME NEW c \in Client, Aborted(c) PROVE Deleting'
  <2>1. at' = [at EXCEPT ![c] = "aborted"]
    BY <1>6, Zenon DEF Aborted, End
  <2>2. CASE at[c] = "del"
    <3>1. del' = [del EXCEPT ![c] = None]
      BY <1>6, <2>2, Zenon DEF Aborted, Db!DelAbort
    <3> QED
      BY <1>1, <2>1, <3>1, Zenon DEF Typed, Deleting
  <2>3. CASE at[c] # "del"
    <3>1. UNCHANGED del
      BY <1>6, <2>3, Zenon DEF Aborted, store
    <3> QED
      BY <1>1, <2>1, <2>3, <3>1, NotDeleting, Zenon
  <2> QED
    BY <2>2, <2>3, Zenon
<1>7. ASSUME NEW c \in Client, Connections(c) PROVE Deleting'
  <2>1. CASE \/ HangUp(c) \/ \E f \in Frame : Submit(c, f)
    BY <2>1, Zenon DEF Deleting, HangUp, Submit, store, task
  <2>2. CASE Read(c) \/ ReadPanics(c) \/ ReadNothing(c) \/ Cancelled(c)
    BY <1>1, <2>2, NotDeleting, Zenon DEF Read, ReadPanics, ReadNothing, Cancelled, End, store
  <2>3. CASE BatchDone(c)
    <3>1. at[c] # "del" /\ at' = [at EXCEPT ![c] = AfterBatch(c)] /\ UNCHANGED del
      BY <2>3, Zenon DEF BatchDone, End, store
    <3>2. AfterBatch(c) # "del"
      BY Zenon DEF AfterBatch
    <3> QED
      BY <1>1, <3>1, <3>2, NotDeleting, Zenon
  <2>4. CASE SendResponse(c) \/ SendFails(c)
    BY <1>1, <2>4, NotDeleting, Zenon DEF SendResponse, SendFails, End, store
  <2>5. CASE \/ NotCommand(c) \/ Unauthorized(c) \/ Quit(c) \/ Ping(c) \/ Auth(c)
             \/ Get(c) \/ TimeToLive(c) \/ Expire(c) \/ ExpirePanics(c)
    <3>1. at[c] # "del" /\ UNCHANGED del
      BY <2>5, Zenon DEF NotCommand, Unauthorized, Quit, Ping, Auth, Get, TimeToLive, Expire,
                  ExpirePanics, Executes, HasFrame, store,
                  Db!Get, Db!TimeToLive, Db!Expire, Db!ExpirePanics
    <3>2. \E where : where # "del" /\ at' = [at EXCEPT ![c] = where]
      BY <2>5, Zenon DEF NotCommand, Unauthorized, Quit, Ping, Auth, Get, TimeToLive, Expire,
                  ExpirePanics, End, Respond
    <3> QED
      BY <1>1, <3>1, <3>2, NotDeleting, Zenon
  <2>6. CASE Set(c)
    <3> DEFINE k == This(c)[2]
               pending == [key |-> k, live |-> TRUE]
    <3>1. /\ at[c] # "del" /\ at' = [at EXCEPT ![c] = "send"]
          /\ del' = [d \in Client |-> IF del[d] # None /\ del[d].key = k THEN pending ELSE del[d]]
      BY <2>6, Zenon DEF Set, Executes, HasFrame, Respond, Db!Set
    <3>2. k \in Key
      BY <1>1, <2>6, KeyNamed, Zenon DEF Set, DataCommands
    <3>3. pending # None
      <4>1. pending \in [key : Key, live : BOOLEAN]
        BY <3>2, Zenon
      <4> QED
        BY <4>1, KeyAssumption, Zenon
    <3> HIDE DEF pending, k
    <3> QED
      BY <1>1, <3>1, <3>3, Zenon DEF Typed, Deleting
  <2>7. CASE DelCall(c)
    <3> DEFINE k == This(c)[2]
               pending == [key |-> k, live |-> Db!Live(k)]
    <3>1. at' = [at EXCEPT ![c] = "del"] /\ del' = [del EXCEPT ![c] = pending]
      BY <2>7, Zenon DEF DelCall, Db!DelCall
    <3>2. k \in Key
      BY <1>1, <2>7, KeyNamed, Zenon DEF DelCall, DataCommands
    <3>3. Db!Live(k) \in BOOLEAN
      BY Zenon DEF Db!Live
    <3>4. pending # None
      BY <3>2, <3>3, KeyAssumption
    <3> HIDE DEF pending, k
    <3> QED
      BY <1>1, <3>1, <3>4, Zenon DEF Typed, Deleting
  <2>8. CASE DelReturn(c)
    <3>1. at' = [at EXCEPT ![c] = "send"] /\ del' = [del EXCEPT ![c] = None]
      BY <2>8, Zenon DEF DelReturn, Respond, Db!DelReturn
    <3> QED
      BY <1>1, <3>1, Zenon DEF Typed, Deleting
  <2> QED
    BY <1>7, <2>1, <2>2, <2>3, <2>4, <2>5, <2>6, <2>7, <2>8, Zenon
       DEF Connections, Run, Write, Execute
<1> QED
  BY <1>2, <1>3, <1>4, <1>5, <1>6, <1>7, Zenon DEF Next

(* Every variable of the server keeps its type: a task waits for bytes     *)
(* only when every frame it has read is dealt with, and the store has a    *)
(* DEL pending for exactly the tasks that await one, whatever was aborted. *)
THEOREM ServerTypes == Spec => []TypeOK
<1>1. Init => Bounded /\ Deleting
  <2> SUFFICES ASSUME Init PROVE Bounded /\ Deleting
    OBVIOUS
  <2>1. \A c \in Client : Len(stream[c]) = 0 /\ at[c] = "none" /\ del[c] = None
    BY Zenon DEF Init, ConnectionInit
  <2>2. del = [c \in Client |-> del[c]]
    BY Zenon DEF Init, ConnectionInit
  <2>3. Deleting
    BY <2>1, <2>2, Zenon DEF Deleting
  <2>4. shutdown \in BOOLEAN /\ server = "accepting" /\ open = {}
    BY Zenon DEF Init, ConnectionInit
  <2> QED
    BY <2>1, <2>3, <2>4, MaxFramesAssumption DEF Bounded
<1>2. ServerInv /\ Bounded /\ Deleting /\ [Next]_vars => Bounded' /\ Deleting'
  BY BoundedNext, DeletingNext, Zenon
<1>3. ServerInv /\ Bounded /\ Deleting => TypeOK
  <2> SUFFICES ASSUME ServerInv, Bounded, Deleting PROVE TypeOK
    OBVIOUS
  <2>1. Typed /\ \A c \in Client : Reading(c) /\ InBatch(c)
    BY Zenon DEF ServerInv, Session
  <2>2. \A c \in Client : batch[c].next - 1 <= batch[c].upto /\ batch[c].upto <= Len(stream[c])
    BY <2>1 DEF Typed, Reading
  <2>3. \A c \in Client : at[c] = "select" => batch[c].next = batch[c].upto + 1 /\ ~batch[c].halting
    BY <2>1, Zenon DEF InBatch
  <2>4. /\ at \in [Client -> Ended \cup {"none", "select", "frames", "del", "send"}]
        /\ authenticated \in [Client -> BOOLEAN]
    BY <2>1, Zenon DEF Typed, Busy
  <2> QED
    BY <2>2, <2>3, <2>4, Zenon DEF TypeOK, Bounded, Deleting
<1> QED
  BY <1>1, <1>2, <1>3, ServerInvariant, PTL DEF Spec
=============================================================================
