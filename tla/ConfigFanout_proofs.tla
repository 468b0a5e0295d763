------------------------- MODULE ConfigFanout_proofs -------------------------
(***************************************************************************)
(* Proofs about ConfigFanout, for any subscribers, options, change sizes   *)
(* and number of versions: queues keep their bounds, their charge and the  *)
(* order of publication, a subscriber that must not lose anything is never *)
(* handed a change that skips one, and a drained one is at the bus's       *)
(* version.                                                                *)
(*                                                                         *)
(* The queue is reasoned about as a value: the first part says what every  *)
(* queue operation does to its charge, its bounds and its order. The       *)
(* inductive invariant then relates each queue to the published version,   *)
(* to the fanout in progress and to what its consumer has applied.         *)
(***************************************************************************)
EXTENDS ConfigFanout, TLAPS, SequenceTheorems, FiniteSetTheorems

Queued == [event : Events, bytes : Nat]

-----------------------------------------------------------------------------
(* What is true of a queue as a value.                                     *)

VersionAt(q, i) == q.events[i].event.version
IsChange(q, i) == q.events[i].event.kind = "change"

(* Within capacity and budget, and charged for what it holds. *)
Bounded(q) ==
  /\ Len(q.events) <= q.options.capacity
  /\ q.bytes = Charge(q.events)
  /\ q.options.budget # None => q.bytes <= q.options.budget

(* In the order of publication, up to version v. *)
Ordered(q, v) ==
  \A i, j \in 1..Len(q.events) :
    /\ VersionAt(q, i) <= v
    /\ i < j /\ IsChange(q, j) => VersionAt(q, i) < VersionAt(q, j)

(* Holds nothing of version v or later. *)
Below(q, v) == \A i \in 1..Len(q.events) : VersionAt(q, i) < v

(* Skips no version between two of its events. *)
Consecutive(q) ==
  \A i \in 1..Len(q.events) :
    i > 1 /\ IsChange(q, i) => VersionAt(q, i) = VersionAt(q, i - 1) + 1

(* Its newest event is version v. *)
EndsAt(q, v) == q.events # <<>> /\ VersionAt(q, Len(q.events)) = v

(* Its oldest event skips nothing after version a. *)
Continues(q, a) == q.events # <<>> /\ IsChange(q, 1) => VersionAt(q, 1) <= a + 1

-----------------------------------------------------------------------------
(* The inductive invariant.                                                *)

Strict(q) == q.options.policy \in {"DisconnectOnLag", "ForceResync"}

(* The policies that never lose the newest event silently. *)
KeepsNewest(q) ==
  \/ Strict(q)
  \/ q.options.policy = "DropOldest" /\ q.options.budget = None

(* The consumer has loaded a snapshot and follows the events. *)
Loaded(s) == rx[s] \notin {"none", "load", "dropped"}

(* The fanout in progress has still to put its event into this queue. *)
Undelivered(s) ==
  \/ fan.stage = "list" /\ s \in listed
  \/ fan.stage = "deliver" /\ s \in fan.todo

(* The worker fans out the version it has just published, to subscribers   *)
(* that are open or were when it listed them.                              *)
FanInv ==
  /\ fan.stage = "none" => fan = NoFan
  /\ fan.stage # "none" => fan.event \in Events /\ fan.event.version = running
  /\ fan.stage = "list" => fan.todo = {} /\ fan.wake = None
  /\ fan.todo \subseteq Opened
  /\ listed \subseteq Opened
  /\ \A s \in Opened : queue[s].closed \/ s \in listed
  /\ missed \subseteq Opened

(* A queue that has still to get a change holds only older events. *)
QueueInv(s) ==
  /\ Bounded(queue[s])
  /\ Ordered(queue[s], running)
  /\ rx[s] = "dropped" => queue[s].closed
  /\ Undelivered(s) /\ fan.event.kind = "change" => Below(queue[s], running)

(* Queue and consumer together reach the bus's version, unless the fanout  *)
(* is on its way or the subscriber was told that it lost something.        *)
NewestInv(s) ==
  KeepsNewest(queue[s]) /\ ~queue[s].closed /\ ~Undelivered(s)
    => \/ EndsAt(queue[s], running)
       \/ queue[s].events = <<>> /\ (Loaded(s) => applied[s] = running)

(* A strict subscriber's events continue what its consumer has applied and *)
(* skip nothing, and the change on its way is the next one.                *)
StrictInv(s) ==
  Strict(queue[s]) =>
    /\ s \notin missed
    /\ Consecutive(queue[s])
    /\ Loaded(s) => Continues(queue[s], applied[s])
    /\ Undelivered(s) /\ fan.event.kind = "change" /\ ~queue[s].closed
         => \/ EndsAt(queue[s], running - 1)
            \/ /\ queue[s].events = <<>>
               /\ Loaded(s) => applied[s] >= running - 1

SubscriberInv(s) == QueueInv(s) /\ NewestInv(s) /\ StrictInv(s)

Inv ==
  /\ TypeOK
  /\ FanInv
  /\ \A s \in Subscribers : applied[s] <= running
  /\ \A s \in Opened : SubscriberInv(s)

-----------------------------------------------------------------------------
(* The charge of a queue.                                                  *)

(* A set of naturals has a least element: the intervals below its members  *)
(* are finite sets, which strict inclusion orders well.                    *)
LEMMA LeastNumber ==
  ASSUME NEW T, T \subseteq Nat, T # {}
  PROVE  \E m \in T : \A n \in T : m <= n
<1> DEFINE U == {0..n - 1 : n \in T}
<1>1. U \subseteq FiniteSubsetsOf(Nat)
  <2>1. ASSUME NEW n \in T PROVE 0..n - 1 \in FiniteSubsetsOf(Nat)
    <3>1. 0 \in Int /\ n - 1 \in Int
      BY n \in Nat
    <3>2. IsFiniteSet(0..n - 1)
      BY <3>1, FS_Interval
    <3> QED BY <3>2 DEF FiniteSubsetsOf
  <2> QED BY <2>1
<1>2. U # {}
  OBVIOUS
<1>3. IsWellFoundedOn(StrictSubsetOrdering(Nat), FiniteSubsetsOf(Nat))
  BY FS_StrictSubsetOrderingWellFounded
<1>4. PICK x \in U : \A y \in U : <<y, x>> \notin StrictSubsetOrdering(Nat)
  <2> HIDE DEF U
  <2> QED BY <1>1, <1>2, <1>3, WFMin
<1>5. PICK m \in T : x = 0..m - 1
  OBVIOUS
<1>6. ASSUME NEW n \in T, n < m PROVE FALSE
  <2>1. 0..n - 1 \in U /\ 0..n - 1 \in SUBSET Nat /\ 0..m - 1 \in SUBSET Nat
    OBVIOUS
  <2>2. 0..n - 1 \subseteq 0..m - 1 /\ n \in 0..m - 1 /\ n \notin 0..n - 1
    BY <1>6
  <2>3. <<0..n - 1, 0..m - 1>> \in StrictSubsetOrdering(Nat)
    BY <2>1, <2>2 DEF StrictSubsetOrdering
  <2> QED BY <1>4, <1>5, <2>1, <2>3
<1> QED BY <1>6

(* Partial sums t of the charges of s. *)
Sums(t, s, n) ==
  /\ t \in [0..n -> Nat]
  /\ t[0] = 0
  /\ \A i \in 1..n : t[i] = t[i - 1] + s[i].bytes

LEMMA SumsExist ==
  ASSUME NEW s \in Seq(Queued), NEW n \in 0..Len(s)
  PROVE  \E t : Sums(t, s, n)
<1> DEFINE T == {m \in 0..Len(s) : ~\E t : Sums(t, s, m)}
<1>1. SUFFICES ASSUME T # {} PROVE FALSE
  OBVIOUS
<1>2. PICK m \in T : \A k \in T : m <= k
  <2>1. T \subseteq Nat
    OBVIOUS
  <2> HIDE DEF T
  <2> QED BY <1>1, <2>1, LeastNumber
<1>3. m # 0
  <2>1. Sums([i \in 0..0 |-> 0], s, 0)
    BY DEF Sums
  <2> QED BY <2>1
<1>4. m \in 0..Len(s) /\ m - 1 \in 0..Len(s) /\ m - 1 \notin T
  BY <1>2, <1>3
<1>5. PICK t : Sums(t, s, m - 1)
  BY <1>4
<1> DEFINE u == [i \in 0..m |-> IF i = m THEN t[m - 1] + s[m].bytes ELSE t[i]]
<1>6. s[m].bytes \in Nat
  <2>1. m \in 1..Len(s)
    BY <1>3, <1>4
  <2>2. s[m] \in Queued
    BY <2>1, ElementOfSeq
  <2> QED BY <2>2 DEF Queued
<1>7. t[m - 1] \in Nat
  BY <1>5, <1>4 DEF Sums
<1>8. u \in [0..m -> Nat]
  BY <1>4, <1>5, <1>6, <1>7 DEF Sums
<1>9. u[0] = 0
  BY <1>3, <1>4, <1>5 DEF Sums
<1>10. ASSUME NEW i \in 1..m PROVE u[i] = u[i - 1] + s[i].bytes
  BY <1>3, <1>4, <1>5 DEF Sums
<1>11. Sums(u, s, m)
  <2> HIDE DEF u
  <2> QED BY <1>8, <1>9, <1>10 DEF Sums
<1> QED BY <1>11, <1>2

(* The charge is the last of the partial sums, whichever function gives    *)
(* them.                                                                   *)
LEMMA ChargeIsSum ==
  ASSUME NEW s \in Seq(Queued), NEW t, Sums(t, s, Len(s))
  PROVE  Charge(s) = t[Len(s)]
<1> DEFINE IsSum(f) == f = [i \in 0..Len(s) |->
                              IF i = 0 THEN 0 ELSE f[i - 1] + s[i].bytes]
           sum == CHOOSE f : IsSum(f)
<1>1. Len(s) \in Nat
  BY LenProperties
<1>2. IsSum(t)
  BY <1>1 DEF Sums
<1>3. IsSum(sum)
  BY <1>2
<1>4. Charge(s) = sum[Len(s)]
  BY DEF Charge
<1> HIDE DEF sum
<1> DEFINE T == {i \in 0..Len(s) : sum[i] # t[i]}
<1>5. SUFFICES ASSUME T # {} PROVE FALSE
  BY <1>1, <1>4
<1>6. PICK m \in T : \A k \in T : m <= k
  <2>1. T \subseteq Nat
    BY <1>1
  <2> HIDE DEF T
  <2> QED BY <1>5, <2>1, LeastNumber
<1>7. m \in 0..Len(s) /\ sum[0] = 0 /\ t[0] = 0
  BY <1>1, <1>2, <1>3, <1>6
<1>8. m - 1 \in 0..Len(s) /\ m - 1 \notin T
  BY <1>1, <1>6, <1>7
<1>9. sum[m - 1] = t[m - 1]
  BY <1>8
<1>10. sum[m] = sum[m - 1] + s[m].bytes /\ t[m] = t[m - 1] + s[m].bytes
  BY <1>2, <1>3, <1>7, <1>6
<1> QED BY <1>6, <1>9, <1>10

LEMMA ChargeType ==
  ASSUME NEW s \in Seq(Queued)
  PROVE  Charge(s) \in Nat
<1>1. Len(s) \in Nat
  BY LenProperties
<1>2. PICK t : Sums(t, s, Len(s))
  BY <1>1, SumsExist
<1> QED BY <1>1, <1>2, ChargeIsSum DEF Sums

LEMMA ChargeEmpty == Charge(<<>>) = 0
<1>1. <<>> \in Seq(Queued) /\ Len(<<>>) = 0
  BY EmptySeq
<1> DEFINE t == [i \in 0..0 |-> 0]
<1>2. Sums(t, <<>>, 0)
  BY DEF Sums
<1> QED BY <1>1, <1>2, ChargeIsSum DEF Sums

(* Charges of a prefix and of the rest add up. *)
LEMMA ChargeSplit ==
  ASSUME NEW s \in Seq(Queued), NEW k \in 0..Len(s)
  PROVE  /\ SubSeq(s, 1, k) \in Seq(Queued)
         /\ SubSeq(s, k + 1, Len(s)) \in Seq(Queued)
         /\ Charge(s) = Charge(SubSeq(s, 1, k)) + Charge(SubSeq(s, k + 1, Len(s)))
<1> DEFINE n == Len(s)
           a == SubSeq(s, 1, k)
           b == SubSeq(s, k + 1, n)
<1>1. n \in Nat /\ k \in Nat /\ \A i \in 1..n : s[i] \in Queued
  BY LenProperties, ElementOfSeq
<1>2. /\ a \in Seq(Queued) /\ Len(a) = k
      /\ \A i \in 1..k : a[i] = s[i]
  BY <1>1, SubSeqProperties
<1>3. /\ b \in Seq(Queued) /\ Len(b) = n - k
      /\ \A i \in 1..n - k : b[i] = s[k + i]
  BY <1>1, SubSeqProperties
<1>4. PICK t : Sums(t, s, n)
  BY <1>1, SumsExist
<1>5. Charge(s) = t[n]
  BY <1>4, ChargeIsSum
<1> HIDE DEF a, b
<1>6. Charge(a) = t[k]
  <2> DEFINE u == [i \in 0..k |-> t[i]]
  <2>1. u \in [0..k -> Nat] /\ u[0] = 0
    BY <1>1, <1>4 DEF Sums
  <2>2. \A i \in 1..k : u[i] = u[i - 1] + a[i].bytes
    BY <1>1, <1>2, <1>4 DEF Sums
  <2>3. Sums(u, a, k)
    <3> HIDE DEF u
    <3> QED BY <2>1, <2>2 DEF Sums
  <2>4. Charge(a) = u[k]
    BY <1>2, <2>3, ChargeIsSum
  <2> QED BY <2>4, <1>1
<1>7. /\ Charge(b) + t[k] = t[n]
      /\ Charge(b) \in Nat
  <2>1. PICK v : Sums(v, b, n - k)
    <3>1. n - k \in 0..Len(b)
      BY <1>1, <1>3
    <3> QED BY <1>3, <3>1, SumsExist
  <2> DEFINE u == [i \in 0..n |-> IF i <= k THEN t[i] ELSE t[k] + v[i - k]]
  <2>2. t \in [0..n -> Nat] /\ v \in [0..n - k -> Nat] /\ t[k] \in Nat
    BY <1>1, <1>4, <2>1 DEF Sums
  <2>3. u \in [0..n -> Nat] /\ u[0] = 0
    BY <1>1, <1>4, <2>2 DEF Sums
  <2>4. ASSUME NEW i \in 1..n PROVE u[i] = u[i - 1] + s[i].bytes
    <3>1. CASE i <= k
      BY <1>1, <1>4, <3>1 DEF Sums
    <3>2. CASE i > k
      <4>1. i - k \in 1..n - k /\ s[i] = b[i - k]
        BY <1>1, <1>3, <3>2
      <4>2. v[i - k] = v[i - k - 1] + s[i].bytes /\ v[0] = 0
        BY <2>1, <4>1 DEF Sums
      <4>3. s[i].bytes \in Nat
        BY <1>1 DEF Queued
      <4>4. v[i - k - 1] \in Nat
        <5>1. i - k - 1 \in 0..n - k
          BY <4>1, <1>1
        <5> QED BY <2>2, <5>1
      <4>5. u[i] = t[k] + v[i - k]
        BY <1>1, <3>2
      <4>6. u[i - 1] = t[k] + v[i - k - 1]
        BY <1>1, <3>2, <4>2, <2>2
      <4> QED BY <2>2, <4>2, <4>3, <4>4, <4>5, <4>6
    <3> QED BY <3>1, <3>2, <1>1
  <2>5. Sums(u, s, n)
    <3> HIDE DEF u
    <3> QED BY <2>3, <2>4 DEF Sums
  <2>6. t[n] = u[n]
    BY <1>5, <2>5, ChargeIsSum
  <2>7. Charge(b) = v[n - k]
    BY <1>3, <2>1, ChargeIsSum
  <2>8. u[n] = t[k] + v[n - k]
    BY <1>1, <2>1, <2>2 DEF Sums
  <2>9. v[n - k] \in Nat
    BY <2>2, <1>1
  <2> QED BY <2>2, <2>6, <2>7, <2>8, <2>9
<1>8. t[k] \in Nat
  BY <1>1, <1>4 DEF Sums
<1> QED BY <1>2, <1>3, <1>5, <1>6, <1>7, <1>8 DEF a, b

LEMMA ChargeAppend ==
  ASSUME NEW s \in Seq(Queued), NEW e \in Queued
  PROVE  Charge(Append(s, e)) = Charge(s) + e.bytes
<1> DEFINE n == Len(s)
           a == Append(s, e)
<1>1. /\ n \in Nat /\ a \in Seq(Queued) /\ Len(a) = n + 1
      /\ a[n + 1] = e /\ \A i \in 1..n : a[i] = s[i]
  BY LenProperties, AppendProperties
<1>2. PICK t : Sums(t, a, n + 1)
  <2>1. n + 1 \in 0..Len(a)
    BY <1>1
  <2> QED BY <1>1, <2>1, SumsExist
<1> HIDE DEF a
<1>3. Charge(a) = t[n + 1]
  BY <1>1, <1>2, ChargeIsSum
<1>4. Sums([i \in 0..n |-> t[i]], s, n)
  BY <1>1, <1>2 DEF Sums
<1>5. Charge(s) = t[n]
  BY <1>4, <1>1, ChargeIsSum
<1>6. t[n + 1] = t[n] + e.bytes
  BY <1>1, <1>2 DEF Sums
<1> QED BY <1>3, <1>5, <1>6 DEF a

LEMMA ChargeTail ==
  ASSUME NEW s \in Seq(Queued), s # <<>>
  PROVE  Charge(Tail(s)) = Charge(s) - Head(s).bytes
<1>1. Len(s) \in Nat /\ Len(s) >= 1
  BY EmptySeq, LenProperties
<1>2. Tail(s) = SubSeq(s, 2, Len(s))
  BY TailIsSubSeq
<1>3. Charge(s) = Charge(SubSeq(s, 1, 1)) + Charge(SubSeq(s, 2, Len(s)))
  BY <1>1, ChargeSplit
<1>4. SubSeq(s, 1, 1) = Append(<<>>, Head(s)) /\ Head(s) \in Queued
  <2>1. s[1] \in Queued /\ Head(s) = s[1] /\ Head(s) \in Queued
    BY <1>1, HeadTailProperties, ElementOfSeq
  <2>2. /\ SubSeq(s, 1, 1) \in Seq(Queued) /\ Len(SubSeq(s, 1, 1)) = 1
        /\ SubSeq(s, 1, 1)[1] = s[1]
    BY <1>1, <2>1, SubSeqProperties
  <2>3. /\ Append(<<>>, s[1]) \in Seq(Queued) /\ Len(Append(<<>>, s[1])) = 1
        /\ Append(<<>>, s[1])[1] = s[1]
    BY <2>1, EmptySeq, AppendProperties
  <2>4. \A i \in 1..1 : SubSeq(s, 1, 1)[i] = Append(<<>>, s[1])[i]
    BY <2>2, <2>3
  <2> QED BY <2>1, <2>2, <2>3, <2>4, SeqEqual
<1>5. Charge(SubSeq(s, 1, 1)) = Head(s).bytes
  <2>1. Charge(SubSeq(s, 1, 1)) = Charge(<<>>) + Head(s).bytes
    BY <1>4, ChargeAppend, EmptySeq
  <2> QED BY <2>1, ChargeEmpty, <1>4 DEF Queued
<1>6. Head(s).bytes \in Nat /\ Charge(SubSeq(s, 2, Len(s))) \in Nat
  <2>1. SubSeq(s, 2, Len(s)) \in Seq(Queued)
    BY <1>2, HeadTailProperties
  <2>2. Charge(SubSeq(s, 2, Len(s))) \in Nat
    BY <2>1, ChargeType
  <2> QED BY <1>4, <2>2 DEF Queued
<1>7. \A x, y, z : x \in Nat /\ y \in Nat /\ z = x + y => y = z - x
  OBVIOUS
<1>8. Charge(s) = Head(s).bytes + Charge(SubSeq(s, 2, Len(s)))
  BY <1>3, <1>5, Zenon
<1> QED BY <1>2, <1>6, <1>7, <1>8, Zenon

-----------------------------------------------------------------------------
(* The queue operations.                                                   *)

LEMMA Constants ==
  /\ MaxVersion \in Nat /\ MarkerSize \in Nat
  /\ \A o \in Options : /\ o.policy \in Policies /\ o.capacity \in Nat
                        /\ o.capacity > 0 /\ o.budget \in Nat \cup {None}
  /\ None \notin Nat /\ None \notin Subscribers
  /\ \A size \in Sizes : size \in Nat \cup {None}
BY FanoutAssumption

(* The fields of a queue and the events in it. *)
LEMMA QueueFields ==
  ASSUME NEW q \in Queues
  PROVE  /\ q.options \in Options /\ q.options.policy \in Policies
         /\ q.options.capacity \in Nat /\ q.options.capacity > 0
         /\ q.options.budget \in Nat \cup {None}
         /\ q.bytes \in Nat /\ q.closed \in BOOLEAN
         /\ q.events \in Seq(Queued) /\ Len(q.events) \in Nat
         /\ q.events = <<>> <=> Len(q.events) = 0
         /\ \A i \in 1..Len(q.events) :
              /\ q.events[i] \in Queued /\ q.events[i].event \in Events
              /\ q.events[i].bytes \in Nat /\ VersionAt(q, i) \in 0..MaxVersion
              /\ VersionAt(q, i) \in Nat
<1>1. q.options \in Options /\ q.bytes \in Nat /\ q.closed \in BOOLEAN
      /\ q.events \in Seq(Queued)
  BY DEF Queues, Queued
<1>2. Len(q.events) \in Nat
  BY <1>1, LenProperties
<1>3. q.events = <<>> <=> Len(q.events) = 0
  BY <1>1, EmptySeq
<1>4. ASSUME NEW i \in 1..Len(q.events)
      PROVE  /\ q.events[i] \in Queued /\ q.events[i].event \in Events
             /\ q.events[i].bytes \in Nat /\ VersionAt(q, i) \in 0..MaxVersion
             /\ VersionAt(q, i) \in Nat
  <2>1. q.events[i] \in Queued
    BY <1>1, ElementOfSeq
  <2>2. q.events[i].event \in Events /\ q.events[i].bytes \in Nat
    BY <2>1 DEF Queued
  <2>3. VersionAt(q, i) \in 0..MaxVersion
    BY <2>2 DEF Events, VersionAt
  <2> QED BY <2>1, <2>2, <2>3, Constants
<1> QED BY <1>1, <1>2, <1>3, <1>4, Constants

(* What a queue looks like after a push: one event longer, for the charge  *)
(* of that event.                                                          *)
LEMMA PushedShape ==
  ASSUME NEW q \in Queues, NEW event \in Events, NEW bytes \in Nat,
         NEW p, p = Pushed(q, event, bytes)
  PROVE  /\ p \in Queues /\ p.options = q.options /\ p.closed = q.closed
         /\ p.events # <<>> /\ Len(p.events) = Len(q.events) + 1
         /\ p.bytes = q.bytes + bytes
         /\ VersionAt(p, Len(p.events)) = event.version
         /\ IsChange(p, Len(p.events)) <=> event.kind = "change"
         /\ \A i \in 1..Len(q.events) : /\ VersionAt(p, i) = VersionAt(q, i)
                                        /\ IsChange(p, i) <=> IsChange(q, i)
         /\ q.bytes = Charge(q.events) => p.bytes = Charge(p.events)
<1> DEFINE e == [event |-> event, bytes |-> bytes]
<1>1. e \in Queued /\ e.event = event /\ e.bytes = bytes
  BY DEF Queued
<1>2. q.events \in Seq(Queued) /\ Len(q.events) \in Nat /\ q.bytes \in Nat
  BY QueueFields
<1>3. /\ p.events = Append(q.events, e) /\ p.bytes = q.bytes + bytes
      /\ p.options = q.options /\ p.closed = q.closed
  BY DEF Pushed, Queues
<1>4. /\ Append(q.events, e) \in Seq(Queued) /\ Append(q.events, e) # <<>>
      /\ Len(Append(q.events, e)) = Len(q.events) + 1
      /\ \A i \in 1..Len(q.events) : Append(q.events, e)[i] = q.events[i]
      /\ Append(q.events, e)[Len(q.events) + 1] = e
  BY <1>1, <1>2, AppendProperties
<1>5. p \in Queues
  <2>1. q.bytes + bytes \in Nat
    BY <1>2
  <2>2. Append(q.events, e) \in Seq([event : Events, bytes : Nat])
    BY <1>4 DEF Queued
  <2> QED BY <2>1, <2>2 DEF Pushed, Queues
<1>6. q.bytes = Charge(q.events) => p.bytes = Charge(p.events)
  BY <1>1, <1>2, <1>3, ChargeAppend
<1> HIDE DEF e
<1>7. /\ VersionAt(p, Len(p.events)) = event.version
      /\ IsChange(p, Len(p.events)) <=> event.kind = "change"
      /\ \A i \in 1..Len(q.events) : /\ VersionAt(p, i) = VersionAt(q, i)
                                     /\ IsChange(p, i) <=> IsChange(q, i)
  BY <1>1, <1>3, <1>4 DEF VersionAt, IsChange
<1>8. p.events # <<>> /\ Len(p.events) = Len(q.events) + 1
  BY <1>3, <1>4
<1> QED BY <1>3, <1>5, <1>6, <1>7, <1>8

(* A queue whose oldest k events are gone. *)
LEMMA SuffixShape ==
  ASSUME NEW q \in Queues, NEW k \in 0..Len(q.events),
         q.bytes = Charge(q.events), NEW p, p = Dropped(q, k)
  PROVE  /\ p \in Queues /\ p.options = q.options /\ p.closed = q.closed
         /\ Len(p.events) = Len(q.events) - k
         /\ \A i \in 1..Len(p.events) :
              /\ VersionAt(p, i) = VersionAt(q, k + i)
              /\ IsChange(p, i) <=> IsChange(q, k + i)
         /\ p.bytes = Charge(p.events) /\ p.bytes <= q.bytes
<1> DEFINE b == SubSeq(q.events, k + 1, Len(q.events))
           a == SubSeq(q.events, 1, k)
<1>1. /\ q.events \in Seq(Queued) /\ Len(q.events) \in Nat /\ q.bytes \in Nat
      /\ \A i \in 1..Len(q.events) : q.events[i] \in Queued
  BY QueueFields
<1>2. /\ p.events = b /\ p.bytes = q.bytes - Charge(a)
      /\ p.options = q.options /\ p.closed = q.closed
  BY DEF Queues, Dropped
<1>3. a \in Seq(Queued) /\ b \in Seq(Queued) /\ q.bytes = Charge(a) + Charge(b)
  BY <1>1, ChargeSplit
<1>4. Charge(a) \in Nat /\ Charge(b) \in Nat
  BY <1>3, ChargeType
<1>5. Len(b) = Len(q.events) - k /\ \A i \in 1..Len(b) : b[i] = q.events[k + i]
  BY <1>1, SubSeqProperties
<1>6. p.bytes = Charge(b) /\ p.bytes <= q.bytes /\ p.bytes \in Nat
  <2> HIDE DEF a, b
  <2> QED BY <1>2, <1>3, <1>4
<1>7. p \in Queues
  <2>1. b \in Seq([event : Events, bytes : Nat])
    BY <1>3 DEF Queued
  <2>2. q.bytes - Charge(a) \in Nat
    BY <1>2, <1>6
  <2> HIDE DEF a
  <2> QED BY <2>1, <2>2 DEF Queues, Dropped, a
<1>8. \A i \in 1..Len(p.events) : /\ VersionAt(p, i) = VersionAt(q, k + i)
                                  /\ IsChange(p, i) <=> IsChange(q, k + i)
  <2> HIDE DEF a, b
  <2> QED BY <1>2, <1>5 DEF VersionAt, IsChange
<1> QED BY <1>2, <1>5, <1>6, <1>7, <1>8

LEMMA PoppedShape ==
  ASSUME NEW q \in Queues, q.events # <<>>, q.bytes = Charge(q.events),
         NEW p, p = Popped(q)
  PROVE  /\ p \in Queues /\ p.options = q.options /\ p.closed = q.closed
         /\ Len(p.events) = Len(q.events) - 1
         /\ \A i \in 1..Len(p.events) :
              /\ VersionAt(p, i) = VersionAt(q, i + 1)
              /\ IsChange(p, i) <=> IsChange(q, i + 1)
         /\ p.bytes = Charge(p.events) /\ p.bytes <= q.bytes
<1>1. /\ q.events \in Seq(Queued) /\ Len(q.events) \in Nat /\ q.bytes \in Nat
  BY QueueFields
<1>2. /\ p.events = Tail(q.events) /\ p.bytes = q.bytes - Head(q.events).bytes
      /\ p.options = q.options /\ p.closed = q.closed
  BY DEF Popped, Queues
<1>3. /\ Head(q.events) \in Queued /\ Tail(q.events) \in Seq(Queued)
      /\ Len(Tail(q.events)) = Len(q.events) - 1
      /\ \A i \in 1..Len(Tail(q.events)) : Tail(q.events)[i] = q.events[i + 1]
  BY <1>1, HeadTailProperties
<1>4. p.bytes = Charge(p.events)
  BY <1>1, <1>2, ChargeTail, Zenon
<1>5. p.bytes \in Nat /\ Head(q.events).bytes \in Nat
  BY <1>2, <1>3, <1>4, ChargeType, Zenon DEF Queued
<1>6. \A x, y, z : x \in Nat /\ y \in Nat /\ z = x - y => z <= x
  OBVIOUS
<1>7. p.bytes <= q.bytes
  BY <1>1, <1>2, <1>5, <1>6, Zenon
<1>8. p \in Queues
  <2>1. Tail(q.events) \in Seq([event : Events, bytes : Nat])
    BY <1>3 DEF Queued
  <2>2. q.bytes - Head(q.events).bytes \in Nat
    BY <1>2, <1>5
  <2> QED BY <2>1, <2>2 DEF Queues, Popped
<1>9. Len(p.events) = Len(q.events) - 1
  BY <1>2, <1>3
<1>10. \A i \in 1..Len(p.events) : /\ VersionAt(p, i) = VersionAt(q, i + 1)
                                   /\ IsChange(p, i) <=> IsChange(q, i + 1)
  BY <1>2, <1>3 DEF VersionAt, IsChange
<1> QED BY <1>2, <1>4, <1>7, <1>8, <1>9, <1>10

LEMMA EmptiedShape ==
  ASSUME NEW q \in Queues
  PROVE  LET p == Emptied(q)
         IN /\ p \in Queues /\ p.options = q.options /\ p.closed = q.closed
            /\ p.events = <<>> /\ Len(p.events) = 0
            /\ p.bytes = 0 /\ p.bytes = Charge(p.events)
            /\ [p EXCEPT !.closed = TRUE] \in Queues
            /\ [p EXCEPT !.closed = TRUE].options = q.options
            /\ [p EXCEPT !.closed = TRUE].closed
            /\ [p EXCEPT !.closed = TRUE].events = <<>>
            /\ [p EXCEPT !.closed = TRUE].bytes = 0
<1> DEFINE p == Emptied(q)
<1>1. <<>> \in Seq([event : Events, bytes : Nat]) /\ Len(<<>>) = 0
  BY EmptySeq
<1>2. p \in Queues /\ [p EXCEPT !.closed = TRUE] \in Queues
  BY <1>1 DEF Emptied, Queues
<1>3. /\ p.options = q.options /\ p.closed = q.closed
      /\ p.events = <<>> /\ p.bytes = 0
  BY DEF Emptied, Queues
<1>4. /\ [p EXCEPT !.closed = TRUE].options = q.options
      /\ [p EXCEPT !.closed = TRUE].closed
      /\ [p EXCEPT !.closed = TRUE].events = <<>>
      /\ [p EXCEPT !.closed = TRUE].bytes = 0
  BY DEF Emptied, Queues
<1> HIDE DEF p
<1> QED BY <1>1, <1>2, <1>3, <1>4, ChargeEmpty DEF p

(* An empty queue satisfies everything that is asked of a queue's events.  *)
LEMMA EmptyKeeps ==
  ASSUME NEW q \in Queues, q.events = <<>>, q.bytes = 0
  PROVE  /\ Bounded(q) /\ Consecutive(q)
         /\ \A v : Ordered(q, v) /\ Below(q, v) /\ Continues(q, v)
<1>1. Len(q.events) = 0
  BY QueueFields
<1> QED BY <1>1, QueueFields, ChargeEmpty
        DEF Bounded, Ordered, Below, Consecutive, Continues

(* Pushing the version just published, where there is room for it. *)
LEMMA PushKeeps ==
  ASSUME NEW q \in Queues, NEW event \in Events, NEW bytes \in Nat,
         HasRoom(q, bytes), Bounded(q), Ordered(q, event.version),
         event.kind = "change" => Below(q, event.version),
         NEW p, p = Pushed(q, event, bytes)
  PROVE  /\ p \in Queues /\ p.options = q.options /\ p.closed = q.closed
         /\ Bounded(p) /\ Ordered(p, event.version) /\ EndsAt(p, event.version)
         /\ Consecutive(q) /\ (q.events = <<>> \/ EndsAt(q, event.version - 1))
              => Consecutive(p)
         /\ \A a \in Nat : Continues(q, a) /\ (q.events = <<>> => a >= event.version - 1)
                             => Continues(p, a)
<1>1. /\ p \in Queues /\ p.options = q.options /\ p.closed = q.closed
      /\ p.events # <<>> /\ Len(p.events) = Len(q.events) + 1
      /\ p.bytes = q.bytes + bytes
      /\ VersionAt(p, Len(p.events)) = event.version
      /\ IsChange(p, Len(p.events)) <=> event.kind = "change"
      /\ \A i \in 1..Len(q.events) : /\ VersionAt(p, i) = VersionAt(q, i)
                                     /\ IsChange(p, i) <=> IsChange(q, i)
      /\ p.bytes = Charge(p.events)
  BY PushedShape DEF Bounded
<1>2. /\ Len(q.events) \in Nat /\ q.bytes \in Nat
      /\ q.options.capacity \in Nat /\ q.options.budget \in Nat \cup {None}
      /\ q.events = <<>> <=> Len(q.events) = 0
      /\ \A i \in 1..Len(q.events) : VersionAt(q, i) \in Nat
  BY QueueFields
<1>3. event.version \in Nat
  BY Constants DEF Events
<1>4. Bounded(p)
  BY <1>1, <1>2, Constants DEF Bounded, HasRoom, Fits
<1>5. Ordered(p, event.version)
  <2> SUFFICES ASSUME NEW i \in 1..Len(p.events), NEW j \in 1..Len(p.events)
               PROVE  /\ VersionAt(p, i) <= event.version
                      /\ i < j /\ IsChange(p, j) => VersionAt(p, i) < VersionAt(p, j)
    BY DEF Ordered
  <2>1. CASE i \in 1..Len(q.events) /\ j \in 1..Len(q.events)
    BY <1>1, <2>1 DEF Ordered
  <2>2. CASE i \in 1..Len(q.events) /\ j = Len(p.events)
    BY <1>1, <2>2 DEF Ordered, Below
  <2>3. CASE i = Len(p.events)
    BY <1>1, <1>2, <1>3, <2>3
  <2> QED BY <2>1, <2>2, <2>3, <1>1, <1>2
<1>6. EndsAt(p, event.version)
  BY <1>1 DEF EndsAt
<1>7. ASSUME Consecutive(q), q.events = <<>> \/ EndsAt(q, event.version - 1)
      PROVE  Consecutive(p)
  <2> SUFFICES ASSUME NEW i \in 1..Len(p.events), i > 1, IsChange(p, i)
               PROVE  VersionAt(p, i) = VersionAt(p, i - 1) + 1
    BY DEF Consecutive
  <2>1. CASE i \in 1..Len(q.events)
    <3>1. i - 1 \in 1..Len(q.events)
      BY <1>2, <2>1
    <3> QED BY <1>1, <1>7, <2>1, <3>1 DEF Consecutive
  <2>2. CASE i = Len(p.events)
    <3>1. i - 1 = Len(q.events) /\ i - 1 \in 1..Len(q.events)
      BY <1>1, <1>2, <2>2
    <3>2. VersionAt(q, i - 1) = event.version - 1
      BY <1>2, <1>7, <3>1 DEF EndsAt
    <3> QED BY <1>1, <1>3, <2>2, <3>1, <3>2
  <2> QED BY <2>1, <2>2, <1>1, <1>2
<1>8. ASSUME NEW a \in Nat, Continues(q, a),
             q.events = <<>> => a >= event.version - 1
      PROVE  Continues(p, a)
  BY <1>1, <1>2, <1>3, <1>8 DEF Continues
<1> QED BY <1>1, <1>4, <1>5, <1>6, <1>7, <1>8

(* Taking the oldest event off. *)
LEMMA PopKeeps ==
  ASSUME NEW q \in Queues, q.events # <<>>, Bounded(q), NEW v \in Nat,
         Ordered(q, v), NEW p, p = Popped(q)
  PROVE  /\ p \in Queues /\ p.options = q.options /\ p.closed = q.closed
         /\ Bounded(p) /\ Ordered(p, v)
         /\ Below(q, v) => Below(p, v)
         /\ Consecutive(q) => /\ Consecutive(p)
                              /\ \A a \in Nat : a >= VersionAt(q, 1) => Continues(p, a)
         /\ \A w : EndsAt(q, w) => \/ EndsAt(p, w)
                                   \/ p.events = <<>> /\ VersionAt(q, 1) = w
<1>1. /\ p \in Queues /\ p.options = q.options /\ p.closed = q.closed
      /\ Len(p.events) = Len(q.events) - 1
      /\ \A i \in 1..Len(p.events) : /\ VersionAt(p, i) = VersionAt(q, i + 1)
                                     /\ IsChange(p, i) <=> IsChange(q, i + 1)
      /\ p.bytes = Charge(p.events) /\ p.bytes <= q.bytes
  BY PoppedShape DEF Bounded
<1>2. /\ Len(q.events) \in Nat /\ q.bytes \in Nat /\ p.bytes \in Nat
      /\ q.options.capacity \in Nat /\ q.options.budget \in Nat \cup {None}
      /\ Len(q.events) # 0 /\ (p.events = <<>> <=> Len(p.events) = 0)
      /\ \A i \in 1..Len(q.events) : VersionAt(q, i) \in Nat
  BY <1>1, QueueFields
<1>3. \A i \in 1..Len(p.events) : i + 1 \in 1..Len(q.events)
  BY <1>1, <1>2
<1>4. Bounded(p)
  BY <1>1, <1>2, Constants DEF Bounded
<1>5. Ordered(p, v)
  BY <1>1, <1>2, <1>3 DEF Ordered
<1>6. Below(q, v) => Below(p, v)
  BY <1>1, <1>3 DEF Below
<1>7. ASSUME Consecutive(q)
      PROVE  /\ Consecutive(p)
             /\ \A a \in Nat : a >= VersionAt(q, 1) => Continues(p, a)
  <2>1. ASSUME NEW i \in 1..Len(p.events), IsChange(p, i)
        PROVE  VersionAt(p, i) = VersionAt(q, i) + 1 /\ i \in 1..Len(q.events)
    <3>1. i + 1 \in 1..Len(q.events) /\ i + 1 > 1 /\ (i + 1) - 1 = i
      BY <1>3, <1>2
    <3> QED BY <2>1, <1>1, <1>2, <1>7, <3>1 DEF Consecutive
  <2>2. Consecutive(p)
    <3> SUFFICES ASSUME NEW i \in 1..Len(p.events), i > 1, IsChange(p, i)
                 PROVE  VersionAt(p, i) = VersionAt(p, i - 1) + 1
      BY DEF Consecutive
    <3>1. i - 1 \in 1..Len(p.events) /\ (i - 1) + 1 = i
      BY <1>1, <1>2
    <3> QED BY <2>1, <3>1, <1>1
  <2>3. ASSUME NEW a \in Nat, a >= VersionAt(q, 1) PROVE Continues(p, a)
    BY <2>1, <2>3, <1>1, <1>2 DEF Continues
  <2> QED BY <2>2, <2>3
<1>8. ASSUME NEW w, EndsAt(q, w)
      PROVE  EndsAt(p, w) \/ (p.events = <<>> /\ VersionAt(q, 1) = w)
  <2>1. CASE Len(p.events) = 0
    <3>1. Len(q.events) = 1
      BY <1>1, <1>2, <2>1
    <3> QED BY <1>2, <1>8, <2>1, <3>1 DEF EndsAt
  <2>2. CASE Len(p.events) # 0
    <3>1. Len(p.events) \in 1..Len(p.events) /\ Len(p.events) + 1 = Len(q.events)
      BY <1>1, <1>2, <2>2
    <3>2. VersionAt(p, Len(p.events)) = VersionAt(q, Len(p.events) + 1)
      BY <1>1, <3>1, Zenon
    <3>3. VersionAt(p, Len(p.events)) = w
      BY <1>8, <3>1, <3>2, Zenon DEF EndsAt
    <3>4. p.events # <<>>
      BY <1>2, <2>2, Zenon
    <3> QED BY <3>3, <3>4, Zenon DEF EndsAt
  <2> QED BY <2>1, <2>2
<1> QED BY <1>1, <1>4, <1>5, <1>6, <1>7, <1>8

(* Dropping the oldest events that leave no room. Without a byte budget    *)
(* there is always room in the end.                                        *)
LEMMA TrimKeeps ==
  ASSUME NEW q \in Queues, NEW bytes \in Nat, Bounded(q), NEW v \in Nat,
         Ordered(q, v), NEW p, p = Trimmed(q, bytes)
  PROVE  /\ p \in Queues /\ p.options = q.options /\ p.closed = q.closed
         /\ Bounded(p) /\ Ordered(p, v)
         /\ Below(q, v) => Below(p, v)
         /\ q.options.budget = None => HasRoom(p, bytes)
<1> DEFINE enough == {k \in 0..Len(q.events) : HasRoom(Dropped(q, k), bytes)}
           least == CHOOSE k \in enough : \A j \in enough : k <= j
<1>1. p = IF enough = {} THEN q ELSE Dropped(q, least)
  BY DEF Trimmed
<1>2. /\ Len(q.events) \in Nat /\ q.bytes \in Nat
      /\ q.options.capacity \in Nat /\ q.options.capacity > 0
      /\ q.options.budget \in Nat \cup {None}
  BY QueueFields
<1>3. ASSUME NEW k \in 0..Len(q.events), NEW a, a = Dropped(q, k)
      PROVE  /\ a \in Queues /\ a.options = q.options /\ a.closed = q.closed
             /\ Len(a.events) = Len(q.events) - k
             /\ Bounded(a) /\ Ordered(a, v) /\ (Below(q, v) => Below(a, v))
  <2>1. /\ a \in Queues /\ a.options = q.options /\ a.closed = q.closed
        /\ Len(a.events) = Len(q.events) - k
        /\ \A i \in 1..Len(a.events) :
             /\ VersionAt(a, i) = VersionAt(q, k + i)
             /\ IsChange(a, i) <=> IsChange(q, k + i)
        /\ a.bytes = Charge(a.events) /\ a.bytes <= q.bytes
    BY <1>3, SuffixShape DEF Bounded
  <2>2. a.bytes \in Nat
    BY <2>1, QueueFields
  <2>3. Bounded(a)
    BY <1>2, <2>1, <2>2, Constants DEF Bounded
  <2>4. \A i \in 1..Len(a.events) : k + i \in 1..Len(q.events)
    BY <1>2, <2>1
  <2>5. Ordered(a, v)
    BY <1>2, <2>1, <2>4 DEF Ordered
  <2>6. Below(q, v) => Below(a, v)
    BY <2>1, <2>4 DEF Below
  <2> QED BY <2>1, <2>3, <2>5, <2>6
<1>4. enough # {} => least \in enough
  <2>1. ASSUME enough # {} PROVE \E k \in enough : \A j \in enough : k <= j
    <3>1. enough \subseteq Nat
      BY <1>2
    <3> HIDE DEF enough
    <3> QED BY <2>1, <3>1, LeastNumber
  <2> HIDE DEF enough
  <2> QED BY <2>1
<1>5. ASSUME q.options.budget = None PROVE enough # {}
  <2> DEFINE n == Len(q.events)
             a == Dropped(q, n)
  <2>1. n \in 0..Len(q.events)
    BY <1>2
  <2>2. a.options = q.options /\ Len(a.events) = n - n
    BY <1>3, <2>1
  <2> HIDE DEF a
  <2>3. HasRoom(a, bytes)
    BY <1>2, <1>5, <2>2 DEF HasRoom, Fits
  <2>4. n \in enough
    BY <2>1, <2>3 DEF a
  <2> QED BY <2>4
<1> HIDE DEF least
<1>6. CASE enough = {}
  BY <1>1, <1>5, <1>6
<1>7. CASE enough # {}
  <2>1. least \in 0..Len(q.events) /\ HasRoom(Dropped(q, least), bytes)
    BY <1>4, <1>7
  <2>2. p = Dropped(q, least)
    BY <1>1, <1>7
  <2> QED BY <1>3, <2>1, <2>2
<1> QED BY <1>6, <1>7

(* Replacing the backlog by a marker: the queue ends at the marker, or is  *)
(* closed.                                                                 *)
LEMMA ResyncKeeps ==
  ASSUME NEW q \in Queues, NEW v \in 0..MaxVersion, NEW p, p = Resynced(q, v)
  PROVE  /\ p \in Queues /\ p.options = q.options
         /\ Bounded(p) /\ Ordered(p, v) /\ Consecutive(p)
         /\ \A a : Continues(p, a)
         /\ p.closed \/ EndsAt(p, v)
         /\ q.closed => p.closed
<1> DEFINE e == Emptied(q)
           c == [Emptied(q) EXCEPT !.closed = TRUE]
           bytes == IF q.options.budget = None THEN 0 ELSE MarkerSize
<1>1. /\ e \in Queues /\ e.options = q.options /\ e.closed = q.closed
      /\ e.events = <<>> /\ Len(e.events) = 0 /\ e.bytes = 0
      /\ c \in Queues /\ c.options = q.options /\ c.closed
      /\ c.events = <<>> /\ c.bytes = 0
  BY EmptiedShape
<1>2. /\ Bounded(e) /\ Consecutive(e)
      /\ \A w : Ordered(e, w) /\ Below(e, w) /\ Continues(e, w)
  BY <1>1, EmptyKeeps
<1>3. /\ Bounded(c) /\ Consecutive(c)
      /\ \A w : Ordered(c, w) /\ Below(c, w) /\ Continues(c, w)
  BY <1>1, EmptyKeeps
<1>4. /\ q.options.capacity \in Nat /\ q.options.capacity > 0
      /\ q.options.budget \in Nat \cup {None} /\ bytes \in Nat
  BY QueueFields, Constants
<1>5. \/ p = c
      \/ /\ q.options.budget # None => bytes <= q.options.budget
         /\ p = Pushed(e, Resync(v), bytes)
  BY DEF Resynced
<1> HIDE DEF e, c, bytes
<1>6. CASE p = c
  BY <1>1, <1>3, <1>6
<1>7. CASE /\ q.options.budget # None => bytes <= q.options.budget
           /\ p = Pushed(e, Resync(v), bytes)
  <2>1. /\ Resync(v) \in Events /\ Resync(v).version = v
        /\ Resync(v).kind = "resync"
    BY DEF Resync, Events
  <2>2. HasRoom(e, bytes)
    BY <1>1, <1>4, <1>7 DEF HasRoom, Fits
  <2>3. /\ p \in Queues /\ p.options = e.options /\ p.closed = e.closed
        /\ Bounded(p) /\ Ordered(p, v) /\ EndsAt(p, v)
    BY <1>1, <1>2, <1>4, <1>7, <2>1, <2>2, PushKeeps
  <2>4. /\ Len(p.events) = 1
        /\ ~IsChange(p, Len(p.events))
    <3>1. PICK ev \in Events : ev = Resync(v)
      BY <2>1
    <3>2. e \in Queues /\ bytes \in Nat /\ p = Pushed(e, ev, bytes)
      BY <1>1, <1>4, <1>7, <3>1
    <3>3. /\ Len(p.events) = Len(e.events) + 1
          /\ IsChange(p, Len(p.events)) <=> ev.kind = "change"
      BY <3>2, PushedShape
    <3> QED BY <1>1, <2>1, <3>1, <3>3
  <2>5. Consecutive(p) /\ \A a : Continues(p, a)
    BY <2>4 DEF Consecutive, Continues
  <2> QED BY <1>1, <2>3, <2>5
<1> QED BY <1>5, <1>6, <1>7

LEMMA CloseKeeps ==
  ASSUME NEW q \in Queues, NEW p, p = [q EXCEPT !.closed = TRUE]
  PROVE  /\ p \in Queues /\ p.options = q.options /\ p.closed
         /\ p.events = q.events /\ p.bytes = q.bytes
         /\ Bounded(q) => Bounded(p)
         /\ \A v : Ordered(q, v) => Ordered(p, v)
         /\ Consecutive(q) => Consecutive(p)
         /\ \A a : Continues(q, a) => Continues(p, a)
<1>1. p \in Queues /\ p.options = q.options /\ p.closed
      /\ p.events = q.events /\ p.bytes = q.bytes
  BY DEF Queues
<1>2. \A i : VersionAt(p, i) = VersionAt(q, i) /\ (IsChange(p, i) <=> IsChange(q, i))
  BY <1>1 DEF VersionAt, IsChange
<1> QED BY <1>1, <1>2 DEF Bounded, Ordered, Consecutive, Continues

(* What enqueue_with_retained_size may do. *)
LEMMA EnqueuedCases ==
  ASSUME NEW q \in Queues, NEW event, NEW size \in Nat \cup {None},
         NEW p, p = Enqueued(q, event, size)
  PROVE  \E bytes \in Nat :
           \/ q.closed /\ p = q
           \/ ~q.closed /\ HasRoom(q, bytes) /\ p = Pushed(q, event, bytes)
           \/ /\ ~q.closed
              /\ \/ /\ q.options.policy = "DropOldest"
                    /\ HasRoom(Trimmed(q, bytes), bytes)
                    /\ p = Pushed(Trimmed(q, bytes), event, bytes)
                 \/ /\ q.options.policy = "DropOldest"
                    /\ q.options.budget # None \/ ~HasRoom(Trimmed(q, bytes), bytes)
                    /\ p = q
                 \/ q.options.policy = "DropNewest" /\ p = q
                 \/ /\ q.options.policy = "DisconnectOnLag"
                    /\ p = [q EXCEPT !.closed = TRUE]
                 \/ /\ q.options.policy = "ForceResync"
                    /\ p = Resynced(q, event.version)
<1> DEFINE sized == q.options.budget = None \/ size # None
           bytes == IF q.options.budget = None \/ size = None THEN 0 ELSE size
<1>1. bytes \in Nat
  OBVIOUS
<1>2. q.options.policy \in Policies /\ q.closed \in BOOLEAN
  BY QueueFields
<1>3. CASE q.closed
  BY <1>1, <1>3 DEF Enqueued
<1>4. CASE ~q.closed /\ sized /\ HasRoom(q, bytes)
  <2>1. p = Pushed(q, event, bytes)
    BY <1>4 DEF Enqueued
  <2> QED BY <1>1, <1>4, <2>1
<1>5. CASE ~q.closed /\ ~(sized /\ HasRoom(q, bytes))
  <2>1. p = CASE q.options.policy = "DropOldest" ->
                   IF sized /\ HasRoom(Trimmed(q, bytes), bytes)
                   THEN Pushed(Trimmed(q, bytes), event, bytes) ELSE q
              [] q.options.policy = "DropNewest" -> q
              [] q.options.policy = "DisconnectOnLag" -> [q EXCEPT !.closed = TRUE]
              [] q.options.policy = "ForceResync" -> Resynced(q, event.version)
    BY <1>5 DEF Enqueued
  <2>2. q.options.budget # None \/ sized
    OBVIOUS
  <2> HIDE DEF sized, bytes
  <2>3. CASE q.options.policy = "DropOldest"
    <3>1. p = IF sized /\ HasRoom(Trimmed(q, bytes), bytes)
              THEN Pushed(Trimmed(q, bytes), event, bytes) ELSE q
      BY <2>1, <2>3
    <3> QED BY <1>1, <1>5, <2>2, <2>3, <3>1
  <2>4. CASE q.options.policy = "DropNewest"
    BY <1>1, <1>5, <2>1, <2>4
  <2>5. CASE q.options.policy = "DisconnectOnLag"
    <3>1. p = [q EXCEPT !.closed = TRUE]
      BY <2>1, <2>5
    <3> QED BY <1>1, <1>5, <2>5, <3>1
  <2>6. CASE q.options.policy = "ForceResync"
    <3>1. p = Resynced(q, event.version)
      BY <2>1, <2>6
    <3> QED BY <1>1, <1>5, <2>6, <3>1
  <2> QED BY <1>2, <2>3, <2>4, <2>5, <2>6 DEF Policies
<1> QED BY <1>2, <1>3, <1>4, <1>5

(* Enqueueing the change just published keeps bounds and order. Where the  *)
(* newest event must not be lost the queue ends with it, or is closed; a   *)
(* strict queue that ended right before it still skips nothing.            *)
LEMMA EnqueueKeeps ==
  ASSUME NEW q \in Queues, NEW event \in Events, event.kind = "change",
         NEW size \in Nat \cup {None},
         Bounded(q), Ordered(q, event.version), Below(q, event.version),
         NEW p, p = Enqueued(q, event, size)
  PROVE  /\ p \in Queues /\ p.options = q.options /\ (q.closed => p.closed)
         /\ Bounded(p) /\ Ordered(p, event.version)
         /\ KeepsNewest(q) => p.closed \/ EndsAt(p, event.version)
         /\ Strict(q) /\ Consecutive(q)
              /\ (q.closed \/ q.events = <<>> \/ EndsAt(q, event.version - 1))
              => /\ Consecutive(p)
                 /\ \A a \in Nat :
                      /\ Continues(q, a)
                      /\ q.closed \/ (q.events = <<>> => a >= event.version - 1)
                      => Continues(p, a)
<1>1. PICK bytes \in Nat :
           \/ q.closed /\ p = q
           \/ ~q.closed /\ HasRoom(q, bytes) /\ p = Pushed(q, event, bytes)
           \/ /\ ~q.closed
              /\ \/ /\ q.options.policy = "DropOldest"
                    /\ HasRoom(Trimmed(q, bytes), bytes)
                    /\ p = Pushed(Trimmed(q, bytes), event, bytes)
                 \/ /\ q.options.policy = "DropOldest"
                    /\ q.options.budget # None \/ ~HasRoom(Trimmed(q, bytes), bytes)
                    /\ p = q
                 \/ q.options.policy = "DropNewest" /\ p = q
                 \/ /\ q.options.policy = "DisconnectOnLag"
                    /\ p = [q EXCEPT !.closed = TRUE]
                 \/ /\ q.options.policy = "ForceResync"
                    /\ p = Resynced(q, event.version)
  BY EnqueuedCases
<1>2. event.version \in 0..MaxVersion /\ event.version \in Nat
  BY Constants DEF Events
<1>3. CASE q.closed /\ p = q
  BY <1>3
<1>4. CASE ~q.closed /\ HasRoom(q, bytes) /\ p = Pushed(q, event, bytes)
  <2>1. /\ p \in Queues /\ p.options = q.options /\ p.closed = q.closed
        /\ Bounded(p) /\ Ordered(p, event.version) /\ EndsAt(p, event.version)
        /\ Consecutive(q) /\ (q.events = <<>> \/ EndsAt(q, event.version - 1))
             => Consecutive(p)
        /\ \A a \in Nat : Continues(q, a) /\ (q.events = <<>> => a >= event.version - 1)
                            => Continues(p, a)
    BY <1>4, PushKeeps
  <2> QED BY <1>4, <2>1
<1>5. CASE /\ ~q.closed
           /\ q.options.policy = "DropOldest"
           /\ HasRoom(Trimmed(q, bytes), bytes)
           /\ p = Pushed(Trimmed(q, bytes), event, bytes)
  <2>1. PICK t : t = Trimmed(q, bytes)
    OBVIOUS
  <2>2. /\ t \in Queues /\ t.options = q.options /\ t.closed = q.closed
        /\ Bounded(t) /\ Ordered(t, event.version) /\ Below(t, event.version)
    BY <1>2, <2>1, TrimKeeps
  <2>3. /\ p \in Queues /\ p.options = t.options /\ p.closed = t.closed
        /\ Bounded(p) /\ Ordered(p, event.version) /\ EndsAt(p, event.version)
    BY <1>5, <2>1, <2>2, PushKeeps
  <2> QED BY <1>5, <2>2, <2>3 DEF Strict
<1>6. CASE /\ ~q.closed
           /\ q.options.policy = "DropOldest"
           /\ q.options.budget # None \/ ~HasRoom(Trimmed(q, bytes), bytes)
           /\ p = q
  <2>1. q.options.budget # None
    BY <1>2, <1>6, TrimKeeps
  <2> QED BY <1>6, <2>1 DEF KeepsNewest, Strict
<1>7. CASE ~q.closed /\ q.options.policy = "DropNewest" /\ p = q
  BY <1>7 DEF KeepsNewest, Strict
<1>8. CASE p = [q EXCEPT !.closed = TRUE]
  BY <1>8, CloseKeeps
<1>9. CASE p = Resynced(q, event.version)
  BY <1>2, <1>9, ResyncKeeps
<1> QED BY <1>1, <1>3, <1>4, <1>5, <1>6, <1>7, <1>8, <1>9

(* A forced resynchronisation leaves a closed queue alone. *)
LEMMA ForceKeeps ==
  ASSUME NEW q \in Queues, NEW v \in 0..MaxVersion,
         Bounded(q), Ordered(q, v), NEW p, p = Forced(q, v)
  PROVE  /\ p \in Queues /\ p.options = q.options /\ (q.closed => p.closed)
         /\ Bounded(p) /\ Ordered(p, v)
         /\ p.closed \/ EndsAt(p, v)
         /\ Consecutive(q) => /\ Consecutive(p)
                              /\ \A a : Continues(q, a) => Continues(p, a)
<1>1. CASE q.closed
  BY <1>1 DEF Forced
<1>2. CASE ~q.closed
  <2>1. p = Resynced(q, v)
    BY <1>2 DEF Forced
  <2> QED BY <2>1, ResyncKeeps
<1> QED BY <1>1, <1>2

-----------------------------------------------------------------------------
(* The invariant is inductive.                                             *)

LEMMA StateTypes ==
  ASSUME TypeOK
  PROVE  /\ running \in 0..MaxVersion /\ running \in Nat
         /\ \A s \in Opened : s \in Subscribers /\ queue[s] \in Queues
         /\ \A s \in Subscribers : applied[s] \in Nat
BY Constants DEF TypeOK, Opened

(* A step that leaves a subscriber's queue and consumer alone, or moves    *)
(* the consumer inside recv, keeps what is known of it.                    *)
LEMMA Frame ==
  ASSUME NEW t, SubscriberInv(t),
         queue'[t] = queue[t], applied'[t] = applied[t], running' = running,
         rx'[t] = rx[t] \/ (Loaded(t) /\ Loaded(t)'),
         t \in missed' <=> t \in missed,
         Undelivered(t)' <=> Undelivered(t),
         Undelivered(t) => fan'.event = fan.event
  PROVE  SubscriberInv(t)'
<1>1. Loaded(t)' <=> Loaded(t)
  BY DEF Loaded
<1>2. rx'[t] = "dropped" => rx[t] = "dropped"
  BY DEF Loaded
<1>3. QueueInv(t)'
  BY <1>2 DEF SubscriberInv, QueueInv
<1>4. NewestInv(t)'
  BY <1>1 DEF SubscriberInv, NewestInv
<1>5. StrictInv(t)'
  BY <1>1 DEF SubscriberInv, StrictInv
<1> QED BY <1>3, <1>4, <1>5 DEF SubscriberInv

LEMMA InitInv == Init => Inv
<1> SUFFICES ASSUME Init PROVE Inv
  OBVIOUS
<1>1. Opened = {}
  BY DEF Init, Opened
<1>2. TypeOK
  BY <1>1, Constants DEF Init, TypeOK, NoFan
<1>3. FanInv
  BY <1>1 DEF Init, FanInv, NoFan
<1>4. \A s \in Subscribers : applied[s] <= running
  <2>1. running = 0 /\ \A s \in Subscribers : applied[s] = 0
    BY DEF Init
  <2>2. 0 <= 0
    OBVIOUS
  <2> QED BY <2>1, <2>2
<1> QED BY <1>1, <1>2, <1>3, <1>4 DEF Inv

(* Between two fanouts nothing is undelivered. *)
LEMMA NothingUndelivered ==
  ASSUME FanInv, fan.stage = "none"
  PROVE  \A s : ~Undelivered(s)
BY DEF FanInv, NoFan, Undelivered

LEMMA OrderedLater ==
  ASSUME NEW q \in Queues, NEW v \in Nat, Ordered(q, v), NEW w \in Nat, v <= w
  PROVE  Ordered(q, w) /\ (v < w => Below(q, w))
<1>1. \A i \in 1..Len(q.events) : VersionAt(q, i) \in Nat /\ VersionAt(q, i) <= v
  BY QueueFields DEF Ordered
<1> QED BY <1>1 DEF Ordered, Below

LEMMA PublishChangeInv ==
  ASSUME Inv, NEW size \in Sizes, PublishChange(size)
  PROVE  Inv'
<1> USE DEF Inv
<1>1. /\ fan.stage = "none" /\ running' = running + 1 /\ running < MaxVersion
      /\ fan' = [NoFan EXCEPT !.stage = "list", !.event = Change(running + 1),
                              !.size = size]
      /\ UNCHANGED <<listed, queue, permit, rx, applied, missed>>
  BY DEF PublishChange
<1>2. running \in Nat /\ running' \in 0..MaxVersion /\ running' \in Nat
  BY <1>1, StateTypes, Constants
<1>3. /\ fan'.stage = "list" /\ fan'.event = Change(running') /\ fan'.todo = {}
      /\ fan'.wake = None /\ fan'.size = size
      /\ fan'.event \in Events /\ fan'.event.version = running'
      /\ fan'.event.kind = "change"
  BY <1>1, <1>2 DEF NoFan, Change, Events
<1>4. Opened' = Opened
  BY <1>1 DEF Opened
<1>5. TypeOK'
  <2>1. fan' \in [stage : {"none", "list", "deliver"}, event : Events \cup {None},
                  size : Nat \cup {None}, todo : SUBSET Subscribers,
                  wake : Subscribers \cup {None}]
    BY <1>1, <1>2, Constants DEF NoFan, Change, Events
  <2> QED BY <1>1, <1>2, <1>4, <2>1 DEF TypeOK
<1>6. FanInv'
  BY <1>1, <1>3, <1>4 DEF FanInv
<1>7. (\A s \in Subscribers : applied[s] <= running)'
  BY <1>1, <1>2, StateTypes
<1>8. ASSUME NEW s \in Opened PROVE SubscriberInv(s)'
  <2>1. queue[s] \in Queues /\ applied[s] \in Nat
    BY StateTypes
  <2>2. ~Undelivered(s) /\ (Undelivered(s)' <=> s \in listed)
    BY <1>1, <1>3, NothingUndelivered DEF Undelivered
  <2>3. Loaded(s)' <=> Loaded(s)
    BY <1>1 DEF Loaded
  <2>4. Ordered(queue[s], running') /\ Below(queue[s], running')
    BY <1>1, <1>2, <2>1, OrderedLater DEF SubscriberInv, QueueInv
  <2>5. queue[s].closed \/ s \in listed
    BY DEF FanInv
  <2>6. QueueInv(s)'
    BY <1>1, <2>4 DEF SubscriberInv, QueueInv
  <2>7. NewestInv(s)'
    BY <1>1, <2>2, <2>5 DEF NewestInv
  <2>8. running' - 1 = running
    BY <1>1, <1>2
  <2>9. StrictInv(s)'
    BY <1>1, <1>2, <2>1, <2>2, <2>3, <2>8
       DEF SubscriberInv, StrictInv, NewestInv, KeepsNewest
  <2> QED BY <2>6, <2>7, <2>9 DEF SubscriberInv
<1> QED BY <1>4, <1>5, <1>6, <1>7, <1>8

LEMMA PublishRebuiltInv ==
  ASSUME Inv, NEW version \in 0..MaxVersion, PublishRebuilt(version)
  PROVE  Inv'
<1> USE DEF Inv
<1>1. /\ fan.stage = "none" /\ version >= running /\ running' = version
      /\ fan' = [NoFan EXCEPT !.stage = "list", !.event = Resync(version)]
      /\ UNCHANGED <<listed, queue, permit, rx, applied, missed>>
  BY DEF PublishRebuilt
<1>2. running \in Nat /\ running' \in 0..MaxVersion /\ running' \in Nat
  BY <1>1, StateTypes, Constants
<1>3. /\ fan'.stage = "list" /\ fan'.todo = {} /\ fan'.wake = None
      /\ fan'.event \in Events /\ fan'.event.version = running'
      /\ fan'.event.kind = "resync"
  BY <1>1, <1>2 DEF NoFan, Resync, Events
<1>4. Opened' = Opened
  BY <1>1 DEF Opened
<1>5. TypeOK'
  <2>1. fan' \in [stage : {"none", "list", "deliver"}, event : Events \cup {None},
                  size : Nat \cup {None}, todo : SUBSET Subscribers,
                  wake : Subscribers \cup {None}]
    BY <1>1, <1>2, Constants DEF NoFan, Resync, Events
  <2> QED BY <1>1, <1>2, <1>4, <2>1 DEF TypeOK
<1>6. FanInv'
  BY <1>1, <1>3, <1>4 DEF FanInv
<1>7. (\A s \in Subscribers : applied[s] <= running)'
  BY <1>1, <1>2, StateTypes
<1>8. ASSUME NEW s \in Opened PROVE SubscriberInv(s)'
  <2>1. queue[s] \in Queues /\ applied[s] \in Nat
    BY StateTypes
  <2>2. Undelivered(s)' <=> s \in listed
    BY <1>1, <1>3 DEF Undelivered
  <2>3. Loaded(s)' <=> Loaded(s)
    BY <1>1 DEF Loaded
  <2>4. Ordered(queue[s], running')
    BY <1>1, <1>2, <2>1, OrderedLater DEF SubscriberInv, QueueInv
  <2>5. queue[s].closed \/ s \in listed
    BY DEF FanInv
  <2>6. QueueInv(s)'
    BY <1>1, <1>3, <2>4 DEF SubscriberInv, QueueInv
  <2>7. NewestInv(s)'
    BY <1>1, <2>2, <2>5 DEF NewestInv
  <2>8. StrictInv(s)'
    BY <1>1, <1>3, <2>3 DEF SubscriberInv, StrictInv
  <2> QED BY <2>6, <2>7, <2>8 DEF SubscriberInv
<1> QED BY <1>4, <1>5, <1>6, <1>7, <1>8

LEMMA ListInv ==
  ASSUME Inv, ListSubscribers
  PROVE  Inv'
<1> USE DEF Inv
<1> DEFINE open == {s \in listed : ~queue[s].closed}
<1>1. /\ fan.stage = "list" /\ listed' = open
      /\ fan' = IF open = {} THEN NoFan
                ELSE [fan EXCEPT !.stage = "deliver", !.todo = open]
      /\ UNCHANGED <<running, queue, permit, rx, applied, missed>>
  BY DEF ListSubscribers
<1>2. Opened' = Opened
  BY <1>1 DEF Opened
<1>3. open \subseteq Subscribers /\ open \subseteq Opened
  BY DEF TypeOK, FanInv
<1>4. \/ open = {} /\ fan' = NoFan
      \/ /\ fan'.stage = "deliver" /\ fan'.event = fan.event /\ fan'.todo = open
         /\ fan'.wake = fan.wake /\ fan'.size = fan.size
  BY <1>1 DEF TypeOK
<1>5. TypeOK'
  <2>1. fan' \in [stage : {"none", "list", "deliver"}, event : Events \cup {None},
                  size : Nat \cup {None}, todo : SUBSET Subscribers,
                  wake : Subscribers \cup {None}]
    BY <1>1, <1>3 DEF TypeOK, NoFan
  <2> QED BY <1>1, <1>2, <1>3, <2>1 DEF TypeOK
<1>6. FanInv'
  <2>1. \A s \in Opened : queue[s].closed \/ s \in open
    BY DEF FanInv
  <2> HIDE DEF open
  <2> QED BY <1>1, <1>2, <1>3, <1>4, <2>1 DEF FanInv, NoFan
<1>7. (\A s \in Subscribers : applied[s] <= running)'
  BY <1>1
<1>8. ASSUME NEW s \in Opened PROVE SubscriberInv(s)'
  <2>1. CASE ~queue[s].closed
    <3>1. s \in open /\ s \in listed
      BY <2>1 DEF FanInv
    <3>2. Undelivered(s)' /\ Undelivered(s) /\ fan'.event = fan.event
      BY <1>1, <1>4, <3>1 DEF Undelivered
    <3> QED BY <1>1, <3>2, Frame
  <2>2. CASE queue[s].closed
    <3>1. ~Undelivered(s)'
      BY <1>4, <2>2 DEF Undelivered, NoFan
    <3>2. Loaded(s)' <=> Loaded(s)
      BY <1>1 DEF Loaded
    <3> QED BY <1>1, <2>2, <3>1, <3>2
            DEF SubscriberInv, QueueInv, NewestInv, StrictInv
  <2> QED BY <2>1, <2>2
<1> QED BY <1>2, <1>5, <1>6, <1>7, <1>8

LEMMA DeliverInv ==
  ASSUME Inv, NEW s \in Subscribers, Deliver(s)
  PROVE  Inv'
<1> USE DEF Inv
<1>1. PICK after :
        /\ after = IF fan.event.kind = "change"
                   THEN Enqueued(queue[s], fan.event, fan.size)
                   ELSE Forced(queue[s], fan.event.version)
        /\ fan.stage = "deliver" /\ s \in fan.todo
        /\ queue' = [queue EXCEPT ![s] = after]
        /\ fan' = IF Wakes(s, after)
                  THEN [fan EXCEPT !.todo = fan.todo \ {s}, !.wake = s]
                  ELSE IF fan.todo \ {s} = {} THEN NoFan
                       ELSE [fan EXCEPT !.todo = fan.todo \ {s}]
        /\ UNCHANGED <<running, listed, permit, rx, applied, missed>>
  BY DEF Deliver
<1>2. Opened' = Opened /\ s \in Opened
  BY <1>1 DEF Opened, FanInv
<1>3. /\ queue[s] \in Queues /\ running \in 0..MaxVersion /\ running \in Nat
      /\ fan.event \in Events /\ fan.event.version = running
      /\ fan.size \in Nat \cup {None} /\ fan.todo \subseteq Subscribers
      /\ applied[s] \in Nat /\ SubscriberInv(s)
  BY <1>1, <1>2, StateTypes DEF TypeOK, FanInv
<1>4. \/ fan' = NoFan /\ fan.todo \ {s} = {}
      \/ /\ fan'.stage = "deliver" /\ fan'.event = fan.event
         /\ fan'.todo = fan.todo \ {s}
  BY <1>1 DEF TypeOK
<1>5. /\ queue'[s] = after
      /\ \A t \in Subscribers : t # s => queue'[t] = queue[t]
  BY <1>1 DEF TypeOK
<1>6. Undelivered(s) /\ ~Undelivered(s)'
  BY <1>1, <1>4 DEF Undelivered, NoFan
<1>7. /\ after \in Queues /\ after.options = queue[s].options
      /\ queue[s].closed => after.closed
      /\ Bounded(after) /\ Ordered(after, running)
      /\ KeepsNewest(queue[s]) => after.closed \/ EndsAt(after, running)
      /\ Strict(queue[s]) => /\ Consecutive(after)
                             /\ Loaded(s) => Continues(after, applied[s])
  <2>1. Bounded(queue[s]) /\ Ordered(queue[s], running)
    BY <1>3 DEF SubscriberInv, QueueInv
  <2>2. CASE fan.event.kind = "change"
    <3>1. Below(queue[s], running) /\ after = Enqueued(queue[s], fan.event, fan.size)
      BY <1>1, <1>3, <1>6, <2>2 DEF SubscriberInv, QueueInv
    <3>2. Strict(queue[s]) =>
            /\ Consecutive(queue[s])
            /\ Loaded(s) => Continues(queue[s], applied[s])
            /\ \/ queue[s].closed \/ EndsAt(queue[s], running - 1)
               \/ queue[s].events = <<>>
            /\ Loaded(s) => \/ queue[s].closed
                            \/ queue[s].events = <<>> => applied[s] >= running - 1
      BY <1>3, <1>6, <2>2 DEF SubscriberInv, StrictInv, EndsAt
    <3>3. /\ after \in Queues /\ after.options = queue[s].options
          /\ queue[s].closed => after.closed
          /\ Bounded(after) /\ Ordered(after, running)
          /\ KeepsNewest(queue[s]) => after.closed \/ EndsAt(after, running)
          /\ Strict(queue[s]) /\ Consecutive(queue[s])
               /\ (queue[s].closed \/ queue[s].events = <<>>
                     \/ EndsAt(queue[s], running - 1))
               => /\ Consecutive(after)
                  /\ \A a \in Nat :
                       /\ Continues(queue[s], a)
                       /\ queue[s].closed
                            \/ (queue[s].events = <<>> => a >= running - 1)
                       => Continues(after, a)
      <4>1. PICK q \in Queues : q = queue[s]
        BY <1>3
      <4>2. PICK event \in Events : event = fan.event
        BY <1>3
      <4>3. PICK size \in Nat \cup {None} : size = fan.size
        BY <1>3
      <4>4. /\ Bounded(q) /\ Ordered(q, event.version) /\ Below(q, event.version)
            /\ event.kind = "change" /\ after = Enqueued(q, event, size)
            /\ event.version = running
        BY <1>3, <2>1, <2>2, <3>1, <4>1, <4>2, <4>3
      <4>5. /\ after \in Queues /\ after.options = q.options
            /\ q.closed => after.closed
            /\ Bounded(after) /\ Ordered(after, event.version)
            /\ KeepsNewest(q) => after.closed \/ EndsAt(after, event.version)
            /\ Strict(q) /\ Consecutive(q)
                 /\ (q.closed \/ q.events = <<>> \/ EndsAt(q, event.version - 1))
                 => /\ Consecutive(after)
                    /\ \A a \in Nat :
                         /\ Continues(q, a)
                         /\ q.closed \/ (q.events = <<>> => a >= event.version - 1)
                         => Continues(after, a)
        BY <4>4, EnqueueKeeps
      <4> QED BY <4>1, <4>4, <4>5
    <3> QED BY <1>3, <3>2, <3>3
  <2>3. CASE fan.event.kind # "change"
    <3>1. after = Forced(queue[s], running)
      BY <1>1, <1>3, <2>3
    <3>2. /\ after \in Queues /\ after.options = queue[s].options
          /\ queue[s].closed => after.closed
          /\ Bounded(after) /\ Ordered(after, running)
          /\ after.closed \/ EndsAt(after, running)
          /\ Consecutive(queue[s]) =>
               /\ Consecutive(after)
               /\ \A a : Continues(queue[s], a) => Continues(after, a)
      BY <1>3, <2>1, <3>1, ForceKeeps
    <3> QED BY <1>3, <3>2 DEF SubscriberInv, StrictInv
  <2> QED BY <2>2, <2>3
<1>8. TypeOK'
  <2>1. fan' \in [stage : {"none", "list", "deliver"}, event : Events \cup {None},
                  size : Nat \cup {None}, todo : SUBSET Subscribers,
                  wake : Subscribers \cup {None}]
    BY <1>1 DEF TypeOK, NoFan
  <2>2. queue' \in [Subscribers -> Queues \cup {None}]
    BY <1>1, <1>7 DEF TypeOK
  <2>3. \A t \in Opened : queue'[t] \in Queues
    BY <1>5, <1>7, StateTypes
  <2> QED BY <1>1, <1>2, <2>1, <2>2, <2>3 DEF TypeOK
<1>9. FanInv'
  <2>1. \A t \in Opened : queue'[t].closed \/ t \in listed
    BY <1>5, <1>7, StateTypes DEF FanInv
  <2>2. /\ fan'.stage = "none" => fan' = NoFan
        /\ fan'.stage # "none" => fan'.event \in Events /\ fan'.event.version = running
        /\ fan'.stage # "list" /\ fan'.todo \subseteq Opened
    BY <1>3, <1>4 DEF FanInv, NoFan
  <2> QED BY <1>1, <1>2, <2>1, <2>2 DEF FanInv
<1>10. (\A t \in Subscribers : applied[t] <= running)'
  BY <1>1
<1>11. ASSUME NEW t \in Opened, t # s PROVE SubscriberInv(t)'
  <2>1. t \in Subscribers /\ SubscriberInv(t)
    BY StateTypes
  <2>2. /\ Undelivered(t)' <=> Undelivered(t)
        /\ Undelivered(t) => fan'.event = fan.event
    BY <1>1, <1>4, <1>11 DEF Undelivered, NoFan
  <2> QED BY <1>1, <1>5, <1>11, <2>1, <2>2, Frame
<1>12. SubscriberInv(s)'
  <2>1. Loaded(s)' <=> Loaded(s)
    BY <1>1 DEF Loaded
  <2>2. QueueInv(s)'
    BY <1>1, <1>3, <1>5, <1>6, <1>7 DEF SubscriberInv, QueueInv
  <2>3. KeepsNewest(after) <=> KeepsNewest(queue[s])
    BY <1>7 DEF KeepsNewest, Strict
  <2>4. NewestInv(s)'
    BY <1>1, <1>5, <1>7, <2>3 DEF NewestInv
  <2>5. StrictInv(s)'
    BY <1>1, <1>3, <1>5, <1>6, <1>7, <2>1 DEF SubscriberInv, StrictInv, Strict
  <2> QED BY <2>2, <2>4, <2>5 DEF SubscriberInv
<1> QED BY <1>2, <1>8, <1>9, <1>10, <1>11, <1>12

LEMMA WakeInv ==
  ASSUME Inv, Wake
  PROVE  Inv'
<1> USE DEF Inv
<1>1. /\ fan.wake # None /\ Notified(fan.wake)
      /\ fan' = IF fan.todo = {} THEN NoFan ELSE [fan EXCEPT !.wake = None]
      /\ UNCHANGED <<running, listed, queue, applied, missed>>
  BY DEF Wake
<1>2. fan.stage = "deliver" /\ fan.wake \in Subscribers
  BY <1>1 DEF FanInv, TypeOK, NoFan
<1>3. \A t \in Subscribers :
        \/ rx'[t] = rx[t]
        \/ rx[t] = "parked" /\ rx'[t] = "recv"
  BY <1>1, <1>2 DEF Notified, TypeOK
<1>4. /\ rx' \in [Subscribers -> {"none", "load", "recv", "empty", "await",
                                  "parked", "closed", "dropped"}]
      /\ permit' \in [Subscribers -> BOOLEAN]
  BY <1>1, <1>2 DEF Notified, TypeOK
<1>5. Opened' = Opened
  BY <1>3 DEF Opened
<1>6. \/ fan' = NoFan /\ fan.todo = {}
      \/ /\ fan'.stage = "deliver" /\ fan'.event = fan.event
         /\ fan'.todo = fan.todo
  BY <1>1, <1>2 DEF TypeOK
<1>7. TypeOK'
  <2>1. fan' \in [stage : {"none", "list", "deliver"}, event : Events \cup {None},
                  size : Nat \cup {None}, todo : SUBSET Subscribers,
                  wake : Subscribers \cup {None}]
    BY <1>1 DEF TypeOK, NoFan
  <2> QED BY <1>1, <1>4, <1>5, <2>1 DEF TypeOK
<1>8. FanInv'
  <2>1. /\ fan'.stage = "none" => fan' = NoFan
        /\ fan'.stage # "none" => fan'.event \in Events /\ fan'.event.version = running
        /\ fan'.stage # "list" /\ fan'.todo \subseteq Opened
    BY <1>2, <1>6 DEF FanInv, NoFan
  <2> QED BY <1>1, <1>5, <2>1 DEF FanInv
<1>9. (\A t \in Subscribers : applied[t] <= running)'
  BY <1>1
<1>10. ASSUME NEW t \in Opened PROVE SubscriberInv(t)'
  <2>1. t \in Subscribers /\ SubscriberInv(t)
    BY StateTypes
  <2>2. /\ Undelivered(t)' <=> Undelivered(t)
        /\ Undelivered(t) => fan'.event = fan.event
    BY <1>2, <1>6 DEF Undelivered, NoFan
  <2>3. rx'[t] = rx[t] \/ (Loaded(t) /\ Loaded(t)')
    BY <1>3, <2>1 DEF Loaded
  <2> QED BY <1>1, <2>1, <2>2, <2>3, Frame
<1> QED BY <1>5, <1>7, <1>8, <1>9, <1>10

(* A step of one consumer leaves the others alone, and what is undelivered *)
(* stays so.                                                               *)
LEMMA OthersKeep ==
  ASSUME Inv, NEW s \in Subscribers, NEW t \in Opened, t # s,
         queue'[t] = queue[t], applied'[t] = applied[t], rx'[t] = rx[t],
         running' = running, fan' = fan,
         t \in listed' <=> t \in listed, t \in missed' <=> t \in missed
  PROVE  SubscriberInv(t)'
<1>1. Undelivered(t)' <=> Undelivered(t)
  BY DEF Undelivered
<1>2. SubscriberInv(t)
  BY DEF Inv
<1> QED BY <1>1, <1>2, Frame

LEMMA SubscribeInv ==
  ASSUME Inv, NEW s \in Subscribers, NEW options \in Options, Subscribe(s, options)
  PROVE  Inv'
<1> USE DEF Inv
<1>1. /\ rx[s] = "none" /\ listed' = listed \cup {s}
      /\ queue' = [queue EXCEPT ![s] = NewQueue(options)]
      /\ rx' = [rx EXCEPT ![s] = "load"]
      /\ UNCHANGED <<running, fan, permit, applied, missed>>
  BY DEF Subscribe
<1>2. PICK q : q = NewQueue(options)
  OBVIOUS
<1>3. q \in Queues /\ q.events = <<>> /\ q.bytes = 0 /\ ~q.closed
  <2>1. <<>> \in Seq([event : Events, bytes : Nat])
    BY EmptySeq
  <2> QED BY <1>2, <2>1 DEF NewQueue, Queues
<1>4. /\ queue'[s] = q /\ rx'[s] = "load"
      /\ \A t \in Subscribers : t # s => queue'[t] = queue[t] /\ rx'[t] = rx[t]
  BY <1>1, <1>2 DEF TypeOK
<1>5. Opened' = Opened \cup {s} /\ s \notin Opened
  BY <1>1, <1>4 DEF Opened
<1>6. TypeOK'
  <2>1. queue' \in [Subscribers -> Queues \cup {None}]
    BY <1>1, <1>2, <1>3 DEF TypeOK
  <2>2. \A t \in Opened' : queue'[t] \in Queues
    BY <1>3, <1>4, <1>5, StateTypes
  <2>3. rx' \in [Subscribers -> {"none", "load", "recv", "empty", "await",
                                 "parked", "closed", "dropped"}]
    BY <1>1 DEF TypeOK
  <2> QED BY <1>1, <2>1, <2>2, <2>3 DEF TypeOK
<1>7. FanInv'
  <2>1. \A t \in Opened' : queue'[t].closed \/ t \in listed'
    BY <1>1, <1>4, <1>5, StateTypes DEF FanInv
  <2> QED BY <1>1, <1>5, <2>1 DEF FanInv
<1>8. (\A t \in Subscribers : applied[t] <= running)'
  BY <1>1
<1>9. ASSUME NEW t \in Opened, t # s PROVE SubscriberInv(t)'
  BY <1>1, <1>4, <1>9, StateTypes, OthersKeep
<1>10. SubscriberInv(s)'
  <2>1. /\ Bounded(q) /\ Consecutive(q)
        /\ \A v : Ordered(q, v) /\ Below(q, v) /\ Continues(q, v)
    BY <1>3, EmptyKeeps
  <2>2. ~Loaded(s)' /\ s \notin missed'
    BY <1>1, <1>4, <1>5 DEF Loaded, FanInv
  <2>3. QueueInv(s)'
    BY <1>4, <2>1 DEF QueueInv
  <2>4. NewestInv(s)'
    BY <1>3, <1>4, <2>2 DEF NewestInv
  <2>5. StrictInv(s)'
    BY <1>3, <1>4, <2>1, <2>2 DEF StrictInv
  <2> QED BY <2>3, <2>4, <2>5 DEF SubscriberInv
<1> QED BY <1>5, <1>6, <1>7, <1>8, <1>9, <1>10

LEMMA LoadInv ==
  ASSUME Inv, NEW s \in Subscribers, LoadSnapshot(s)
  PROVE  Inv'
<1> USE DEF Inv
<1>1. /\ rx[s] = "load" /\ applied' = [applied EXCEPT ![s] = running]
      /\ rx' = [rx EXCEPT ![s] = "recv"]
      /\ UNCHANGED <<running, listed, fan, queue, permit, missed>>
  BY DEF LoadSnapshot
<1>2. /\ applied'[s] = running /\ rx'[s] = "recv"
      /\ \A t \in Subscribers : t # s => applied'[t] = applied[t] /\ rx'[t] = rx[t]
  BY <1>1 DEF TypeOK
<1>3. Opened' = Opened /\ s \in Opened
  BY <1>1, <1>2 DEF Opened
<1>4. /\ queue[s] \in Queues /\ running \in Nat /\ SubscriberInv(s)
  BY <1>3, StateTypes
<1>5. TypeOK'
  BY <1>1, <1>3 DEF TypeOK
<1>6. FanInv'
  BY <1>1, <1>3 DEF FanInv
<1>7. (\A t \in Subscribers : applied[t] <= running)'
  BY <1>1, <1>2, <1>4
<1>8. ASSUME NEW t \in Opened, t # s PROVE SubscriberInv(t)'
  BY <1>1, <1>2, <1>8, StateTypes, OthersKeep
<1>9. SubscriberInv(s)'
  <2>1. Undelivered(s)' <=> Undelivered(s)
    BY <1>1 DEF Undelivered
  <2>2. Continues(queue[s], running)
    <3>1. /\ queue[s].events = <<>> <=> Len(queue[s].events) = 0
          /\ Len(queue[s].events) \in Nat
          /\ \A i \in 1..Len(queue[s].events) : VersionAt(queue[s], i) \in Nat
      BY <1>4, QueueFields
    <3>2. \A i \in 1..Len(queue[s].events) : VersionAt(queue[s], i) <= running
      BY <1>4 DEF SubscriberInv, QueueInv, Ordered
    <3> QED BY <1>4, <3>1, <3>2 DEF Continues
  <2>3. QueueInv(s)'
    BY <1>1, <1>2, <1>4, <2>1 DEF SubscriberInv, QueueInv
  <2>4. NewestInv(s)'
    BY <1>1, <1>2, <1>4, <2>1 DEF SubscriberInv, NewestInv
  <2>5. running >= running - 1
    BY <1>4
  <2>6. StrictInv(s)'
    BY <1>1, <1>2, <1>4, <2>1, <2>2, <2>5 DEF SubscriberInv, StrictInv
  <2> QED BY <2>3, <2>4, <2>6 DEF SubscriberInv
<1> QED BY <1>3, <1>5, <1>6, <1>7, <1>8, <1>9

(* The steps inside recv that touch neither queue nor consumer. *)
LEMMA RecvInv ==
  ASSUME Inv, NEW s \in Subscribers, FindEmpty(s) \/ CheckClosed(s) \/ Await(s)
  PROVE  Inv'
<1> USE DEF Inv
<1>1. /\ rx[s] \in {"recv", "empty", "await"}
      /\ \E pc \in {"empty", "closed", "await", "recv", "parked"} :
           rx' = [rx EXCEPT ![s] = pc]
      /\ permit' = permit \/ permit' = [permit EXCEPT ![s] = FALSE]
      /\ UNCHANGED <<running, listed, fan, queue, applied, missed>>
  BY DEF FindEmpty, CheckClosed, Await
<1>2. /\ rx'[s] \in {"empty", "closed", "await", "recv", "parked"}
      /\ \A t \in Subscribers : t # s => rx'[t] = rx[t]
      /\ rx' \in [Subscribers -> {"none", "load", "recv", "empty", "await",
                                  "parked", "closed", "dropped"}]
      /\ permit' \in [Subscribers -> BOOLEAN]
  BY <1>1 DEF TypeOK
<1>3. Opened' = Opened
  BY <1>1, <1>2 DEF Opened
<1>4. TypeOK'
  BY <1>1, <1>2, <1>3 DEF TypeOK
<1>5. FanInv'
  BY <1>1, <1>3 DEF FanInv
<1>6. (\A t \in Subscribers : applied[t] <= running)'
  BY <1>1
<1>7. ASSUME NEW t \in Opened PROVE SubscriberInv(t)'
  <2>1. t \in Subscribers /\ SubscriberInv(t)
    BY StateTypes
  <2>2. Undelivered(t)' <=> Undelivered(t)
    BY <1>1 DEF Undelivered
  <2>3. rx'[t] = rx[t] \/ (Loaded(t) /\ Loaded(t)')
    BY <1>1, <1>2, <2>1 DEF Loaded
  <2> QED BY <1>1, <2>1, <2>2, <2>3, Frame
<1> QED BY <1>3, <1>4, <1>5, <1>6, <1>7

LEMMA DropInv ==
  ASSUME Inv, NEW s \in Subscribers, DropReceiver(s)
  PROVE  Inv'
<1> USE DEF Inv
<1>1. /\ rx[s] # "none" /\ rx' = [rx EXCEPT ![s] = "dropped"]
      /\ queue' = [queue EXCEPT ![s] = [Emptied(queue[s]) EXCEPT !.closed = TRUE]]
      /\ UNCHANGED <<running, listed, fan, permit, applied, missed>>
  BY DEF DropReceiver
<1>2. PICK q : q = [Emptied(queue[s]) EXCEPT !.closed = TRUE]
  OBVIOUS
<1>3. s \in Opened /\ queue[s] \in Queues /\ SubscriberInv(s)
  BY <1>1, StateTypes DEF Opened
<1>4. /\ q \in Queues /\ q.events = <<>> /\ q.bytes = 0 /\ q.closed
      /\ q.options = queue[s].options
  BY <1>2, <1>3, EmptiedShape
<1>5. /\ queue'[s] = q /\ rx'[s] = "dropped"
      /\ \A t \in Subscribers : t # s => queue'[t] = queue[t] /\ rx'[t] = rx[t]
  BY <1>1, <1>2 DEF TypeOK
<1>6. Opened' = Opened
  BY <1>1, <1>5 DEF Opened
<1>7. TypeOK'
  <2>1. queue' \in [Subscribers -> Queues \cup {None}]
    BY <1>1, <1>2, <1>4 DEF TypeOK
  <2>2. \A t \in Opened : queue'[t] \in Queues
    BY <1>4, <1>5, StateTypes
  <2>3. rx' \in [Subscribers -> {"none", "load", "recv", "empty", "await",
                                 "parked", "closed", "dropped"}]
    BY <1>1 DEF TypeOK
  <2> QED BY <1>1, <1>6, <2>1, <2>2, <2>3 DEF TypeOK
<1>8. FanInv'
  <2>1. \A t \in Opened : queue'[t].closed \/ t \in listed
    BY <1>4, <1>5, StateTypes DEF FanInv
  <2> QED BY <1>1, <1>6, <2>1 DEF FanInv
<1>9. (\A t \in Subscribers : applied[t] <= running)'
  BY <1>1
<1>10. ASSUME NEW t \in Opened, t # s PROVE SubscriberInv(t)'
  BY <1>1, <1>5, <1>10, StateTypes, OthersKeep
<1>11. SubscriberInv(s)'
  <2>1. /\ Bounded(q) /\ Consecutive(q)
        /\ \A v : Ordered(q, v) /\ Below(q, v) /\ Continues(q, v)
    BY <1>4, EmptyKeeps
  <2>2. Strict(q) <=> Strict(queue[s])
    BY <1>4 DEF Strict
  <2>3. QueueInv(s)'
    BY <1>4, <1>5, <2>1 DEF QueueInv
  <2>4. NewestInv(s)'
    BY <1>4, <1>5 DEF NewestInv
  <2>5. StrictInv(s)'
    BY <1>1, <1>3, <1>4, <1>5, <2>1, <2>2 DEF SubscriberInv, StrictInv
  <2> QED BY <2>3, <2>4, <2>5 DEF SubscriberInv
<1> QED BY <1>6, <1>7, <1>8, <1>9, <1>10, <1>11

LEMMA ReceiveInv ==
  ASSUME Inv, NEW s \in Subscribers, Receive(s)
  PROVE  Inv'
<1> USE DEF Inv
<1> DEFINE q == queue[s]
<1>1. PICK p : p = Popped(queue[s])
  OBVIOUS
<1>2. /\ rx[s] = "recv" /\ q.events # <<>>
      /\ queue' = [queue EXCEPT ![s] = p]
      /\ UNCHANGED <<running, listed, fan, permit>>
  BY <1>1 DEF Receive
<1>3. s \in Opened /\ q \in Queues /\ SubscriberInv(s) /\ running \in Nat
      /\ applied[s] \in Nat /\ applied[s] <= running /\ Loaded(s)
  BY <1>2, StateTypes DEF Opened, Loaded
<1>4. /\ Head(q.events).event.version = VersionAt(q, 1)
      /\ Head(q.events).event.kind = "change" <=> IsChange(q, 1)
      /\ VersionAt(q, 1) \in 0..MaxVersion /\ VersionAt(q, 1) \in Nat
      /\ VersionAt(q, 1) <= running
  <2>1. /\ Len(q.events) \in Nat /\ Len(q.events) # 0 /\ q.events \in Seq(Queued)
        /\ \A i \in 1..Len(q.events) : /\ VersionAt(q, i) \in 0..MaxVersion
                                       /\ VersionAt(q, i) \in Nat
    BY <1>2, <1>3, QueueFields
  <2>2. 1 \in 1..Len(q.events)
    BY <2>1
  <2>3. Head(q.events) = q.events[1]
    BY <1>2, <2>1, HeadTailProperties
  <2>4. VersionAt(q, 1) <= running
    BY <1>3, <2>2 DEF SubscriberInv, QueueInv, Ordered
  <2> QED BY <2>1, <2>2, <2>3, <2>4 DEF VersionAt, IsChange
<1>5. \/ /\ ~IsChange(q, 1) /\ rx' = [rx EXCEPT ![s] = "load"]
         /\ UNCHANGED <<applied, missed>>
      \/ /\ IsChange(q, 1) /\ rx' = rx
         /\ applied' = [applied EXCEPT ![s] = IF VersionAt(q, 1) > applied[s]
                                              THEN VersionAt(q, 1) ELSE applied[s]]
         /\ missed' = IF VersionAt(q, 1) > applied[s] + 1
                      THEN missed \cup {s} ELSE missed
  BY <1>4 DEF Receive
<1>6. /\ p \in Queues /\ p.options = q.options /\ p.closed = q.closed
      /\ Bounded(p) /\ Ordered(p, running)
      /\ Below(q, running) => Below(p, running)
      /\ Consecutive(q) => /\ Consecutive(p)
                           /\ \A a \in Nat : a >= VersionAt(q, 1) => Continues(p, a)
      /\ \A w : EndsAt(q, w) => \/ EndsAt(p, w)
                                \/ p.events = <<>> /\ VersionAt(q, 1) = w
  BY <1>1, <1>2, <1>3, PopKeeps DEF SubscriberInv, QueueInv
<1>7. /\ queue'[s] = p
      /\ \A t \in Subscribers : t # s => /\ queue'[t] = queue[t] /\ rx'[t] = rx[t]
                                         /\ applied'[t] = applied[t]
                                         /\ t \in missed' <=> t \in missed
  BY <1>2, <1>5 DEF TypeOK
<1> HIDE DEF q
<1>8. /\ applied'[s] \in 0..MaxVersion /\ applied'[s] \in Nat
      /\ applied'[s] <= running /\ applied'[s] >= applied[s]
      /\ applied' \in [Subscribers -> 0..MaxVersion]
  BY <1>3, <1>4, <1>5 DEF TypeOK
<1>9. rx'[s] \in {"load", "recv"} /\ (rx'[s] = "recv" => IsChange(q, 1))
  BY <1>2, <1>5 DEF TypeOK
<1>10. IsChange(q, 1) => applied'[s] >= VersionAt(q, 1)
  BY <1>3, <1>4, <1>5 DEF TypeOK
<1>11. Opened' = Opened
  BY <1>2, <1>7, <1>9 DEF Opened
<1>12. TypeOK'
  <2>1. queue' \in [Subscribers -> Queues \cup {None}]
    BY <1>2, <1>6 DEF TypeOK
  <2>2. \A t \in Opened : queue'[t] \in Queues
    BY <1>6, <1>7, StateTypes
  <2>3. rx' \in [Subscribers -> {"none", "load", "recv", "empty", "await",
                                 "parked", "closed", "dropped"}]
    BY <1>5 DEF TypeOK
  <2>4. missed' \subseteq Subscribers
    BY <1>5 DEF TypeOK
  <2> QED BY <1>2, <1>8, <1>11, <2>1, <2>2, <2>3, <2>4 DEF TypeOK
<1>13. FanInv'
  <2>1. \A t \in Opened : queue'[t].closed \/ t \in listed
    BY <1>6, <1>7, StateTypes DEF FanInv, q
  <2>2. missed' \subseteq Opened
    BY <1>3, <1>5 DEF FanInv
  <2> QED BY <1>2, <1>11, <2>1, <2>2 DEF FanInv
<1>14. (\A t \in Subscribers : applied[t] <= running)'
  BY <1>2, <1>7, <1>8
<1>15. ASSUME NEW t \in Opened, t # s PROVE SubscriberInv(t)'
  BY <1>2, <1>7, <1>15, StateTypes, OthersKeep
<1>16. Undelivered(s)' <=> Undelivered(s)
  BY <1>2 DEF Undelivered
<1>17. QueueInv(s)'
  BY <1>2, <1>3, <1>6, <1>7, <1>9, <1>16 DEF SubscriberInv, QueueInv, q
<1>18. NewestInv(s)'
  <2> SUFFICES ASSUME KeepsNewest(p), ~p.closed, ~Undelivered(s)
               PROVE  \/ EndsAt(p, running)
                      \/ p.events = <<>> /\ (Loaded(s)' => applied'[s] = running)
    BY <1>2, <1>7, <1>16 DEF NewestInv
  <2>1. KeepsNewest(q) /\ ~q.closed
    BY <1>6 DEF KeepsNewest, Strict
  <2>2. EndsAt(q, running)
    BY <1>2, <1>3, <2>1 DEF SubscriberInv, NewestInv, q
  <2>3. CASE EndsAt(p, running)
    BY <2>3
  <2>4. CASE p.events = <<>> /\ VersionAt(q, 1) = running
    <3>1. Loaded(s)' => applied'[s] = running
      BY <1>3, <1>8, <1>9, <1>10, <2>4 DEF Loaded
    <3> QED BY <2>4, <3>1
  <2> QED BY <1>6, <2>2, <2>3, <2>4
<1>19. StrictInv(s)'
  <2> SUFFICES ASSUME Strict(p)
               PROVE  /\ s \notin missed'
                      /\ Consecutive(p)
                      /\ Loaded(s)' => Continues(p, applied'[s])
                      /\ Undelivered(s) /\ fan.event.kind = "change" /\ ~p.closed
                           => \/ EndsAt(p, running - 1)
                              \/ /\ p.events = <<>>
                                 /\ Loaded(s)' => applied'[s] >= running - 1
    BY <1>2, <1>7, <1>16 DEF StrictInv
  <2>1. Strict(q)
    BY <1>6 DEF Strict
  <2>2. /\ s \notin missed /\ Consecutive(q) /\ Continues(q, applied[s])
        /\ Undelivered(s) /\ fan.event.kind = "change" /\ ~q.closed
             => EndsAt(q, running - 1)
    BY <1>2, <1>3, <2>1 DEF SubscriberInv, StrictInv, q
  <2>3. s \notin missed'
    BY <1>2, <1>3, <1>4, <1>5, <2>2 DEF Continues
  <2>4. Loaded(s)' => IsChange(q, 1)
    BY <1>9 DEF Loaded
  <2>5. Loaded(s)' => Continues(p, applied'[s])
    BY <1>6, <1>8, <1>10, <2>2, <2>4
  <2>6. ASSUME Undelivered(s), fan.event.kind = "change", ~p.closed
        PROVE  \/ EndsAt(p, running - 1)
               \/ /\ p.events = <<>>
                  /\ Loaded(s)' => applied'[s] >= running - 1
    <3>1. \/ EndsAt(p, running - 1)
          \/ p.events = <<>> /\ VersionAt(q, 1) = running - 1
      BY <1>6, <2>2, <2>6
    <3> QED BY <3>1, <1>10, <2>4
  <2> QED BY <1>6, <2>2, <2>3, <2>5, <2>6
<1> QED BY <1>11, <1>12, <1>13, <1>14, <1>15, <1>17, <1>18, <1>19 DEF SubscriberInv

LEMMA NextInv ==
  ASSUME Inv, [Next]_vars
  PROVE  Inv'
<1>1. ASSUME NEW size \in Sizes, PublishChange(size) PROVE Inv'
  BY <1>1, PublishChangeInv
<1>2. ASSUME NEW version \in 0..MaxVersion, PublishRebuilt(version) PROVE Inv'
  BY <1>2, PublishRebuiltInv
<1>3. CASE ListSubscribers
  BY <1>3, ListInv
<1>4. ASSUME NEW s \in Subscribers, Deliver(s) PROVE Inv'
  BY <1>4, DeliverInv
<1>5. CASE Wake
  BY <1>5, WakeInv
<1>6. ASSUME NEW s \in Subscribers, NEW options \in Options, Subscribe(s, options)
      PROVE  Inv'
  BY <1>6, SubscribeInv
<1>7. ASSUME NEW s \in Subscribers, LoadSnapshot(s) PROVE Inv'
  BY <1>7, LoadInv
<1>8. ASSUME NEW s \in Subscribers, Receive(s) PROVE Inv'
  BY <1>8, ReceiveInv
<1>9. ASSUME NEW s \in Subscribers, FindEmpty(s) \/ CheckClosed(s) \/ Await(s)
      PROVE  Inv'
  BY <1>9, RecvInv
<1>10. ASSUME NEW s \in Subscribers, DropReceiver(s) PROVE Inv'
  BY <1>10, DropInv
<1>11. CASE UNCHANGED vars
  <2>1. UNCHANGED <<running, listed, fan, queue, permit, rx, applied, missed>>
    BY <1>11 DEF vars
  <2>2. Opened' = Opened
    BY <2>1 DEF Opened
  <2>3. TypeOK'
    BY <2>1, <2>2 DEF Inv, TypeOK
  <2>4. FanInv'
    BY <2>1, <2>2 DEF Inv, FanInv
  <2>5. ASSUME NEW s \in Opened PROVE SubscriberInv(s)'
    <3>1. Undelivered(s)' <=> Undelivered(s)
      BY <2>1 DEF Undelivered
    <3>2. SubscriberInv(s)
      BY DEF Inv
    <3> QED BY <2>1, <3>1, <3>2, Frame
  <2> QED BY <2>1, <2>2, <2>3, <2>4, <2>5 DEF Inv
<1> QED BY <1>1, <1>2, <1>3, <1>4, <1>5, <1>6, <1>7, <1>8, <1>9, <1>10, <1>11
        DEF Next, WorkerStep, ConsumerStep

(* The queues, the fanout in progress and the consumers stay related as    *)
(* Inv says, whatever the publisher, the worker and the consumers do.      *)
THEOREM Invariance == Spec => []Inv
<1>1. Inv /\ [Next]_vars => Inv'
  BY NextInv
<1> QED BY <1>1, InitInv, PTL DEF Spec

(* Every variable keeps the shape of the state it stands for. *)
THEOREM TypeCorrect == Spec => []TypeOK
<1>1. Inv => TypeOK
  BY DEF Inv
<1> QED BY <1>1, Invariance, PTL

(* No eviction, clearing or refusal takes a queue out of its capacity or   *)
(* its byte budget, or the byte counter away from what the queue holds,    *)
(* and no event in it is out of order or ahead of what can be loaded.      *)
THEOREM QueuesStayFaithful == Spec => []QueuesFaithful
<1>1. ASSUME Inv PROVE QueuesFaithful
  <2> SUFFICES ASSUME NEW s \in Opened
               PROVE  LET q == queue[s]
                          versions == [i \in 1..Len(q.events) |->
                                         q.events[i].event.version]
                      IN /\ Len(q.events) <= q.options.capacity
                         /\ q.bytes = Charge(q.events)
                         /\ q.options.budget # None => q.bytes <= q.options.budget
                         /\ \A i, j \in 1..Len(q.events) :
                              /\ versions[i] <= running
                              /\ i < j /\ q.events[j].event.kind = "change"
                                   => versions[i] < versions[j]
    BY DEF QueuesFaithful
  <2>1. Bounded(queue[s]) /\ Ordered(queue[s], running)
    BY <1>1 DEF Inv, SubscriberInv, QueueInv
  <2> QED BY <2>1 DEF Bounded, Ordered, VersionAt, IsChange
<1> QED BY <1>1, Invariance, PTL

(* A consumer that asked to be disconnected or resynchronised is never     *)
(* handed a change that skips one.                                         *)
THEOREM GapsAreAnnounced == Spec => []NoSilentGap
<1>1. ASSUME Inv PROVE NoSilentGap
  <2> SUFFICES ASSUME NEW s \in missed
               PROVE  queue[s].options.policy \in {"DropOldest", "DropNewest"}
    BY DEF NoSilentGap
  <2>1. s \in Opened
    BY <1>1 DEF Inv, FanInv
  <2>2. ~Strict(queue[s])
    BY <1>1, <2>1 DEF Inv, SubscriberInv, StrictInv
  <2>3. queue[s].options.policy \in Policies
    <3>1. queue[s] \in Queues
      BY <1>1, <2>1, StateTypes DEF Inv
    <3> QED BY <3>1, Constants DEF Queues
  <2> QED BY <2>2, <2>3 DEF Strict, Policies
<1> QED BY <1>1, Invariance, PTL

(* Between fanouts, an open subscriber that has drained its queue is at    *)
(* the bus's version, unless its policy lost the newest event.             *)
THEOREM DrainedQueuesAreCurrent == Spec => []DrainedIsCurrent
<1>1. ASSUME Inv PROVE DrainedIsCurrent
  <2> SUFFICES ASSUME NEW s \in Opened,
                      fan = NoFan,
                      rx[s] \in {"recv", "empty", "await", "parked"},
                      queue[s].events = <<>>, ~queue[s].closed,
                      KeepsNewest(queue[s])
               PROVE  applied[s] = running
    BY DEF DrainedIsCurrent, KeepsNewest, Strict
  <2>1. ~Undelivered(s)
    BY <1>1, NothingUndelivered DEF Inv, NoFan
  <2>2. Loaded(s)
    BY DEF Loaded
  <2>3. ~EndsAt(queue[s], running)
    BY DEF EndsAt
  <2>4. NewestInv(s)
    BY <1>1 DEF Inv, SubscriberInv
  <2> QED BY <2>1, <2>2, <2>3, <2>4 DEF NewestInv
<1> QED BY <1>1, Invariance, PTL

=============================================================================
