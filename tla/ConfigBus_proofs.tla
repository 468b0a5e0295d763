--------------------------- MODULE ConfigBus_proofs ---------------------------
(***************************************************************************)
(* Proofs about ConfigBus, for any buses, requests, configs, faults,       *)
(* crashes and late appends: a retry key yields one record, successes      *)
(* agree, a pending commit is decided once, what a bus shows is durable    *)
(* and never goes back, and a bus that is alone agrees with its datastore. *)
(*                                                                         *)
(* The datastore decides an append by comparing its parent with the head,  *)
(* and a head that was passed never comes back. So everything a job has    *)
(* read is needed only while the head it builds on is still the head: that *)
(* is how the invariant states it, and why a change of the history by      *)
(* another bus or by a late append never disturbs it.                      *)
(***************************************************************************)
EXTENDS ConfigBus, TLAPS, SequenceTheorems, FiniteSetTheorems

-----------------------------------------------------------------------------
(* The history.                                                            *)

Mode(r) == IF r.request = None THEN "automatic" ELSE r.request.mode

(* Versions count up, transactions are distinct, every record names its    *)
(* predecessor, and only the head may be marked.                           *)
Chained(h) ==
  /\ \A i \in 1..Len(h) : h[i].version = i - 1
  /\ \A i, j \in 1..Len(h) : h[i].tx = h[j].tx => i = j
  /\ \A i \in 1..Len(h) : h[i].parent = IF i = 1 THEN None ELSE h[i - 1].tx
  /\ \A i \in 1..Len(h) : h[i].marked => i = Len(h)

KeysUnique(h) ==
  \A i, j \in 1..Len(h) : h[i].key # None /\ h[i].key = h[j].key => i = j

(* The record at i decides the one before it as its mode says. *)
Decides(h, i) ==
  /\ h[i - 1].pending => Mode(h[i]) \notin {"commit", "confirmPending",
                                            "commitConfirmed"}
  /\ Mode(h[i]) = "confirmPending" => /\ ~h[i - 1].pending
                                      /\ h[i].config = h[i - 1].config
  /\ Mode(h[i]) \in {"automatic", "cancelConfirmed"} =>
       /\ h[i - 1].pending
       /\ i > 2
       /\ h[i].config = h[i - 2].config
       /\ ~h[i - 2].pending

OnlyRollbacksTarget(r) ==
  r.request # None /\ r.request.mode # "rollback" => r.request.target = None

HistoryInv(h) ==
  /\ h \in Seq(Records)
  /\ Chained(h)
  /\ KeysUnique(h)
  /\ \A i \in 2..Len(h) : Decides(h, i)
  /\ \A i \in 1..Len(h) : OnlyRollbacksTarget(h[i])

-----------------------------------------------------------------------------
(* An append on its way: in a worker, or lost and still to land.           *)

(* The decision a write carries fits its mode. *)
DecisionFits(w) ==
  LET mode == Mode(w.record)
  IN /\ mode \in {"commit", "confirmPending"} =>
          w.decision = None \/ w.decision.kind = "confirm"
     /\ mode = "commitConfirmed" => w.decision = None
     /\ mode \in {"automatic", "cancelConfirmed", "rollback"} =>
          w.decision = None \/ w.decision.kind = "rollback"

(* A transaction of h, or none. *)
Known(h, tx) == tx = None \/ \E i \in 1..Len(h) : h[i].tx = tx

FreshKey(h, key) == key # None => \A i \in 1..Len(h) : h[i].key # key

(* What a write has to get right if h is what it is appended to. *)
Continues(h, w) ==
  /\ FreshKey(h, w.record.key)
  /\ h = <<>> => w.record.version = 0
  /\ h # <<>> /\ Mode(w.record) = "confirmPending" =>
       w.record.config = h[Len(h)].config
  /\ h # <<>> /\ Mode(w.record) \in {"automatic", "cancelConfirmed"} =>
       /\ w.decision # None
       /\ Len(h) > 1
       /\ w.record.config = h[Len(h) - 1].config
       /\ ~h[Len(h) - 1].pending

WriteInv(h, w) ==
  /\ w \in Writes
  /\ OnlyRollbacksTarget(w.record)
  /\ DecisionFits(w)
  /\ Known(h, w.record.parent)
  /\ LatestTx(h) = w.record.parent => Continues(h, w)

-----------------------------------------------------------------------------
(* A bus: its snapshot s, fence f, timer t and job j over the history h.   *)

(* The record answers the request. *)
Serves(r, q) ==
  /\ IF q.key # None THEN r.key = q.key ELSE r.id = q.id
  /\ r.request # None
  /\ r.request.mode = Fingerprint(q, q.base).mode
  /\ r.request.target = q.target
  /\ q.candidate # None /\ q.mode \in {"commit", "commitConfirmed"} =>
       r.config = q.candidate /\ r.request.base = q.base

Shows(s, r) == s.tx = r.tx /\ s.version = r.version /\ s.config = r.config

SameRecord(r, s) ==
  /\ r.tx = s.tx /\ r.version = s.version /\ r.parent = s.parent
  /\ r.config = s.config /\ r.key = s.key /\ r.id = s.id
  /\ r.request = s.request

Heads == [tx : Tx, version : Nat]

(* The job has a head it builds on. *)
Building(j) ==
  (j.kind = "commit" /\ j.phase # "clear") \/ j.phase = "parent"

Running(j) == j.phase # "down" /\ j.kind # "restore"

SnapInv(h, s, f, j) ==
  \/ s = NeverSeen /\ ~Running(j)
  \/ \E i \in 1..Len(h) :
       /\ Shows(s, h[i])
       /\ Running(j) /\ h[i].marked => f \/ j.phase = "clear"

PhaseInv(j) ==
  CASE j.kind = "none" -> j \in {NoJob, Down}
    [] j.kind = "commit" -> /\ j.phase \in {"lookup", "resolve", "parent",
                                            "append", "relookup", "clear"}
                            /\ j.request \in Requests
    [] j.kind \in {"expiry", "restore"} ->
         j.phase \in {"parent", "append", "clear"}
    [] j.kind = "reconcile" -> j.phase = "rebuild"

(* The head a commit or an expiry builds on is the one the bus shows. *)
BaseInv(h, s, j) ==
  /\ j.kind \in {"commit", "expiry"} /\ j.phase # "clear" => j.base = HeadOf(s)
  /\ Building(j) => j.base \in Heads /\ Known(h, j.base.tx)

(* Past the lookup, the key is unused and the candidate's base current. *)
RequestInv(h, j) ==
  j.kind = "commit" /\ j.phase \in {"resolve", "parent", "append"} =>
    /\ LatestTx(h) = j.base.tx => FreshKey(h, j.request.key)
    /\ j.request.candidate # None /\ j.request.mode \in {"commit", "commitConfirmed"}
         => j.request.base = j.base.version

(* The parent a rollback is about to load is that of the head it builds on. *)
ParentInv(h, t, j) ==
  j.phase = "parent" =>
    /\ j.parent # None
    /\ LatestTx(h) = j.base.tx => h[Len(h)].parent = j.parent
    /\ j.kind = "commit" => j.request.mode = "cancelConfirmed" /\ t # None

AppendInv(h, s, j) ==
  j.phase = "append" =>
    /\ WriteInv(h, j.write)
    /\ j.kind = "commit" => Serves(j.write.record, j.request)
    /\ j.kind = "restore" /\ ~j.write.record.marked => j.write.record.parent = None
    /\ j.kind # "restore" => j.write.record.version = s.version + 1

ClearInv(h, s, j) ==
  j.phase = "clear" =>
    /\ j.write # None
    /\ \E i \in 1..Len(h) : SameRecord(h[i], j.write.record)
    /\ j.kind = "commit" => Serves(j.write.record, j.request)
    /\ IF j.kind = "restore" THEN j.write.record.version >= s.version
       ELSE Shows(s, j.write.record)

LocalInv(h, s, f, t, j) ==
  /\ SnapInv(h, s, f, j)
  /\ PhaseInv(j)
  /\ BaseInv(h, s, j)
  /\ RequestInv(h, j)
  /\ ParentInv(h, t, j)
  /\ AppendInv(h, s, j)
  /\ ClearInv(h, s, j)

BusInv(b) == LocalInv(history, snap[b], fenced[b], timer[b], job[b])

Answered(h, a) == \E i \in 1..Len(h) : h[i].tx = a.tx /\ Serves(h[i], a.request)

Inv ==
  /\ TypeOK
  /\ HistoryInv(history)
  /\ \A w \in limbo : WriteInv(history, w)
  /\ \A a \in answers : Answered(history, a)
  /\ \A b \in Buses : BusInv(b)

-----------------------------------------------------------------------------
(* One bus without late appends.                                           *)

Alone == (\E b \in Buses : Buses = {b}) /\ ~LateWrites

(* The bus shows the head, which is safe, and waits for its deadline. *)
Agrees(h, s, t) ==
  /\ s.tx = LatestTx(h)
  /\ ~h[Len(h)].marked
  /\ t = IF h[Len(h)].pending THEN h[Len(h)].tx ELSE None

AgreeInv(h, s, f, t, j) ==
  /\ Running(j) /\ ~f /\ j.phase # "clear" => Agrees(h, s, t)
  /\ j.phase = "clear" => /\ LatestTx(h) = j.write.record.tx
                          /\ h[Len(h)].pending = j.write.record.pending
  /\ j.phase = "rebuild" => j.base = HeadOf(Latest(h))

LoneInv ==
  Alone => /\ limbo = {}
           /\ \A b \in Buses : AgreeInv(history, snap[b], fenced[b], timer[b], job[b])

-----------------------------------------------------------------------------
(* The reads of the datastore.                                             *)

LEMMA NoneFacts ==
  /\ None \notin Tx /\ None \notin Nat /\ None \notin Configs
  /\ None \notin RetryKeys /\ None \notin RequestIds /\ None \notin Targets
  /\ None \notin Fingerprints /\ None \notin Records /\ None \notin Decisions
  /\ None \notin Writes /\ None \notin Requests
BY NoneAssumption DEF Tx

(* A set of positions has a last one: the intervals above its members are  *)
(* finite sets, which strict inclusion orders well.                        *)
LEMMA LastPosition ==
  ASSUME NEW n \in Nat, NEW T, T \subseteq 1..n, T # {}
  PROVE  \E m \in T : \A k \in T : k <= m
<1> DEFINE U == {m + 1..n : m \in T}
<1>1. U \subseteq FiniteSubsetsOf(Nat)
  <2>1. ASSUME NEW m \in T PROVE m + 1..n \in FiniteSubsetsOf(Nat)
    <3>1. m + 1 \in Int /\ n \in Int /\ m + 1..n \subseteq Nat
      BY m \in 1..n
    <3>2. IsFiniteSet(m + 1..n)
      BY <3>1, FS_Interval
    <3> QED BY <3>1, <3>2 DEF FiniteSubsetsOf
  <2> QED BY <2>1
<1>2. U # {}
  OBVIOUS
<1>3. IsWellFoundedOn(StrictSubsetOrdering(Nat), FiniteSubsetsOf(Nat))
  BY FS_StrictSubsetOrderingWellFounded
<1>4. PICK x \in U : \A y \in U : <<y, x>> \notin StrictSubsetOrdering(Nat)
  <2> HIDE DEF U
  <2> QED BY <1>1, <1>2, <1>3, WFMin
<1>5. PICK m \in T : x = m + 1..n
  OBVIOUS
<1>6. ASSUME NEW k \in T, m < k PROVE FALSE
  <2>1. m \in 1..n /\ k \in 1..n
    OBVIOUS
  <2>2. k + 1..n \in U /\ k + 1..n \in SUBSET Nat /\ m + 1..n \in SUBSET Nat
    BY <2>1
  <2>3. k + 1..n \subseteq m + 1..n /\ k \in m + 1..n /\ k \notin k + 1..n
    BY <1>6, <2>1
  <2>4. <<k + 1..n, m + 1..n>> \in StrictSubsetOrdering(Nat)
    BY <2>2, <2>3 DEF StrictSubsetOrdering
  <2> QED BY <1>4, <1>5, <2>2, <2>4
<1>7. ASSUME NEW k \in T PROVE k <= m
  <2>1. m \in Nat /\ k \in Nat
    BY m \in 1..n, k \in 1..n
  <2> QED BY <1>6, <2>1
<1> QED BY <1>7

LEMMA LastOfFound ==
  ASSUME NEW h \in Seq(Records), NEW found, found \subseteq 1..Len(h)
  PROVE  /\ LastOf(h, found) = None <=> found = {}
         /\ found # {} => \E i \in found : /\ LastOf(h, found) = h[i]
                                           /\ \A j \in found : j <= i
<1>1. CASE found = {}
  BY <1>1 DEF LastOf
<1>2. CASE found # {}
  <2> DEFINE last == CHOOSE i \in found : \A j \in found : j <= i
  <2>1. Len(h) \in Nat
    OBVIOUS
  <2>2. \E i \in found : \A j \in found : j <= i
    BY <1>2, <2>1, LastPosition
  <2>3. last \in found /\ \A j \in found : j <= last
    BY <2>2
  <2>4. LastOf(h, found) = h[last]
    BY <1>2 DEF LastOf
  <2> HIDE DEF last
  <2>5. h[last] \in Records
    BY <2>3, ElementOfSeq
  <2>6. h[last] # None
    BY <2>5, NoneFacts
  <2> QED BY <1>2, <2>3, <2>4, <2>6
<1> QED BY <1>1, <1>2

LEMMA ReadFound ==
  ASSUME NEW h \in Seq(Records)
  PROVE  /\ \A tx : ByTx(h, tx) # None =>
              \E i \in 1..Len(h) : ByTx(h, tx) = h[i] /\ h[i].tx = tx
         /\ \A key : /\ ByKey(h, key) = None => \A i \in 1..Len(h) : h[i].key # key
                     /\ ByKey(h, key) # None =>
                          \E i \in 1..Len(h) : ByKey(h, key) = h[i] /\ h[i].key = key
         /\ \A id : ById(h, id) # None =>
              \E i \in 1..Len(h) : ById(h, id) = h[i] /\ h[i].id = id
<1>1. ASSUME NEW tx, ByTx(h, tx) # None
      PROVE  \E i \in 1..Len(h) : ByTx(h, tx) = h[i] /\ h[i].tx = tx
  <2> DEFINE found == {i \in 1..Len(h) : h[i].tx = tx}
  <2>1. found \subseteq 1..Len(h) /\ LastOf(h, found) # None
    BY <1>1 DEF ByTx
  <2> QED BY <2>1, LastOfFound DEF ByTx
<1>2. ASSUME NEW key
      PROVE  /\ ByKey(h, key) = None => \A i \in 1..Len(h) : h[i].key # key
             /\ ByKey(h, key) # None =>
                  \E i \in 1..Len(h) : ByKey(h, key) = h[i] /\ h[i].key = key
  <2> DEFINE found == {i \in 1..Len(h) : h[i].key = key}
  <2>1. found \subseteq 1..Len(h) /\ LastOf(h, found) = ByKey(h, key)
    BY DEF ByKey
  <2>2. ByKey(h, key) = None <=> found = {}
    <3> HIDE DEF found
    <3> QED BY <2>1, LastOfFound
  <2>3. ByKey(h, key) # None => \E i \in found : ByKey(h, key) = h[i]
    <3> HIDE DEF found
    <3> QED BY <2>1, <2>2, LastOfFound
  <2> QED BY <2>2, <2>3
<1>3. ASSUME NEW id, ById(h, id) # None
      PROVE  \E i \in 1..Len(h) : ById(h, id) = h[i] /\ h[i].id = id
  <2> DEFINE found == {i \in 1..Len(h) : h[i].id = id}
  <2>1. found \subseteq 1..Len(h) /\ LastOf(h, found) # None
    BY <1>3 DEF ById
  <2> QED BY <2>1, LastOfFound DEF ById
<1> QED BY <1>1, <1>2, <1>3

LEMMA RollbackFound ==
  ASSUME NEW h \in Seq(Records), NEW target,
         target.kind \in {"version", "tx", "previous"},
         LoadRollback(h, target) # None
  PROVE  \E i \in 1..Len(h) : /\ LoadRollback(h, target) = h[i]
                              /\ ~h[i].pending
                              /\ target.kind = "tx" => h[i].tx = target.tx
<1>1. CASE target.kind = "tx"
  <2>1. /\ ByTx(h, target.tx) # None /\ ~ByTx(h, target.tx).pending
        /\ LoadRollback(h, target) = ByTx(h, target.tx)
    BY <1>1 DEF LoadRollback
  <2> QED BY <2>1, ReadFound
<1>2. CASE target.kind = "version"
  <2> DEFINE found == {i \in 1..Len(h) : h[i].version = target.version}
  <2>1. /\ LastOf(h, found) # None /\ ~LastOf(h, found).pending
        /\ LoadRollback(h, target) = LastOf(h, found)
    BY <1>2 DEF LoadRollback
  <2>2. found \subseteq 1..Len(h)
    OBVIOUS
  <2>3. \E i \in found : LastOf(h, found) = h[i]
    <3> HIDE DEF found
    <3> QED BY <2>1, <2>2, LastOfFound
  <2> QED BY <1>2, <2>1, <2>3
<1>3. CASE target.kind = "previous"
  <2> DEFINE parent == LastOf(h, {i \in 1..Len(h) : ~h[i].pending}).parent
  <2>1. /\ ByTx(h, parent) # None /\ ~ByTx(h, parent).pending
        /\ LoadRollback(h, target) = ByTx(h, parent)
    BY <1>3 DEF LoadRollback
  <2> HIDE DEF parent
  <2> QED BY <1>3, <2>1, ReadFound
<1> QED BY <1>1, <1>2, <1>3

LEMMA CommittedFound ==
  ASSUME NEW h \in Seq(Records), CommittedLatest(h) # None
  PROVE  \E i \in 1..Len(h) : CommittedLatest(h) = h[i] /\ ~h[i].marked
<1> DEFINE found == {i \in 1..Len(h) : \A j \in 1..i : ~h[j].marked}
<1>1. found \subseteq 1..Len(h) /\ LastOf(h, found) # None
  BY DEF CommittedLatest
<1>2. PICK i \in found : LastOf(h, found) = h[i]
  BY <1>1, LastOfFound
<1>3. i \in 1..i
  OBVIOUS
<1> QED BY <1>2, <1>3 DEF CommittedLatest

-----------------------------------------------------------------------------
(* What appends and cleared markers do to the history.                     *)

LEMMA RecordAt ==
  ASSUME NEW h \in Seq(Records)
  PROVE  /\ Len(h) \in Nat
         /\ \A i \in 1..Len(h) : h[i] \in Records /\ h[i].tx \in Nat
                                 /\ h[i].version \in Nat
                                 /\ h[i].tx # None /\ h[i] # None
         /\ h = <<>> <=> Len(h) = 0
         /\ h # <<>> => Len(h) \in 1..Len(h)
<1>1. ASSUME NEW i \in 1..Len(h)
      PROVE  h[i] \in Records /\ h[i].tx \in Nat /\ h[i].version \in Nat
             /\ h[i].tx # None /\ h[i] # None
  <2>1. h[i] \in Records
    BY ElementOfSeq
  <2> QED BY <2>1, NoneFacts DEF Records, Tx
<1>2. Len(h) \in Nat /\ (h = <<>> <=> Len(h) = 0)
  BY EmptySeq
<1> QED BY <1>1, <1>2

LEMMA FlagsOnly ==
  ASSUME NEW r \in Records
  PROVE  /\ [r EXCEPT !.pending = FALSE] \in Records
         /\ SameRecord([r EXCEPT !.pending = FALSE], r)
         /\ [r EXCEPT !.pending = FALSE].marked = r.marked
         /\ ~[r EXCEPT !.pending = FALSE].pending
         /\ [r EXCEPT !.marked = FALSE] \in Records
         /\ SameRecord([r EXCEPT !.marked = FALSE], r)
         /\ [r EXCEPT !.marked = FALSE].pending = r.pending
         /\ ~[r EXCEPT !.marked = FALSE].marked
         /\ SameRecord(r, r) /\ r.pending \in BOOLEAN /\ r.marked \in BOOLEAN
BY DEF Records, SameRecord

(* g is h with records added or markers cleared: records keep everything   *)
(* but their flags, and a new head is a new transaction.                   *)
Grows(h, g) ==
  /\ Len(h) <= Len(g)
  /\ \A i \in 1..Len(h) : /\ SameRecord(g[i], h[i])
                          /\ g[i].marked => h[i].marked
                          /\ g[i].pending => h[i].pending
  /\ IF Len(g) = Len(h) THEN \A i \in 1..Len(h) : g[i].pending = h[i].pending
     ELSE \A tx : Known(h, tx) => LatestTx(g) # tx

LEMMA AppliedShape ==
  ASSUME NEW h, HistoryInv(h), NEW w \in Writes, Accepts(h, w),
         NEW g, g = Applied(h, w)
  PROVE  /\ g \in Seq(Records)
         /\ Len(g) = Len(h) + 1
         /\ g[Len(h) + 1] = w.record
         /\ \A i \in 1..Len(h) : /\ SameRecord(g[i], h[i])
                                 /\ g[i].marked = h[i].marked
                                 /\ g[i].pending =>  h[i].pending
                                 /\ i # Len(h) => g[i].pending = h[i].pending
         /\ w.decision # None => /\ h # <<>> /\ h[Len(h)].pending
                                 /\ g[Len(h)].pending = (w.decision.kind # "confirm")
         /\ w.decision = None => /\ h # <<>> => ~h[Len(h)].pending
                                 /\ \A i \in 1..Len(h) : g[i].pending = h[i].pending
<1> DEFINE confirmed(i) == /\ w.decision # None
                           /\ w.decision.kind = "confirm"
                           /\ w.decision.tx = h[i].tx
           f == [i \in 1..Len(h) |-> IF confirmed(i)
                                     THEN [h[i] EXCEPT !.pending = FALSE] ELSE h[i]]
<1>1. h \in Seq(Records) /\ Len(h) \in Nat /\ w.record \in Records
  BY RecordAt DEF HistoryInv, Writes
<1>2. g = Append(f, w.record)
  BY DEF Applied
<1>3. \A i \in 1..Len(h) : f[i] \in Records
  BY <1>1, RecordAt, FlagsOnly
<1>4. f \in Seq(Records) /\ Len(f) = Len(h)
  BY <1>1, <1>3, IsASeq, LenProperties
<1>5. \A i \in 1..Len(h) : /\ SameRecord(f[i], h[i])
                           /\ f[i].marked = h[i].marked
                           /\ f[i].pending = (h[i].pending /\ ~confirmed(i))
  BY <1>1, RecordAt, FlagsOnly
<1> HIDE DEF f
<1>6. /\ g \in Seq(Records) /\ Len(g) = Len(h) + 1 /\ g[Len(h) + 1] = w.record
      /\ \A i \in 1..Len(h) : g[i] = f[i]
  BY <1>1, <1>2, <1>4, AppendProperties
<1>7. CASE w.decision = None
  <2>1. h # <<>> => ~h[Len(h)].pending
    BY <1>7 DEF Accepts, LatestPending
  <2>2. \A i \in 1..Len(h) : h[i].pending \in BOOLEAN
    BY <1>1, RecordAt DEF Records
  <2>3. \A i \in 1..Len(h) : f[i].pending = h[i].pending
    BY <1>5, <1>7, <2>2
  <2> QED BY <1>5, <1>6, <1>7, <2>1, <2>3
<1>8. CASE w.decision # None
  <2>1. LatestPending(h) /\ w.decision.tx = LatestTx(h)
    BY <1>8 DEF Accepts
  <2>2. h # <<>> /\ h[Len(h)].pending /\ w.decision.tx = h[Len(h)].tx
    BY <2>1 DEF LatestPending, LatestTx
  <2>3. Len(h) \in 1..Len(h)
    BY <1>1, <2>2, RecordAt
  <2>4. \A i \in 1..Len(h) : confirmed(i) <=> i = Len(h) /\ w.decision.kind = "confirm"
    BY <1>8, <2>2, <2>3 DEF HistoryInv, Chained
  <2>5. \A i \in 1..Len(h) : h[i].pending \in BOOLEAN
    BY <1>1, RecordAt DEF Records
  <2> HIDE DEF confirmed
  <2>6. f[Len(h)].pending = (w.decision.kind # "confirm")
    BY <1>5, <2>2, <2>3, <2>4
  <2>7. \A i \in 1..Len(h) : i # Len(h) => f[i].pending = h[i].pending
    BY <1>5, <2>4, <2>5
  <2> QED BY <1>5, <1>6, <1>8, <2>2, <2>3, <2>6, <2>7
<1> QED BY <1>7, <1>8

LEMMA ClearedShape ==
  ASSUME NEW h \in Seq(Records), NEW tx, NEW g, g = Cleared(h, tx)
  PROVE  /\ g \in Seq(Records)
         /\ Len(g) = Len(h)
         /\ \A i \in 1..Len(h) : /\ SameRecord(g[i], h[i])
                                 /\ g[i].marked = (h[i].marked /\ h[i].tx # tx)
                                 /\ g[i].pending = h[i].pending
<1>1. Len(h) \in Nat
  OBVIOUS
<1>2. \A i \in 1..Len(h) : g[i] \in Records
  BY RecordAt, FlagsOnly DEF Cleared
<1>3. g \in Seq(Records) /\ Len(g) = Len(h)
  BY <1>1, <1>2, IsASeq, LenProperties DEF Cleared
<1>4. ASSUME NEW i \in 1..Len(h)
      PROVE  /\ SameRecord(g[i], h[i])
             /\ g[i].marked = (h[i].marked /\ h[i].tx # tx)
             /\ g[i].pending = h[i].pending
  <2>1. h[i] \in Records
    BY RecordAt
  <2>2. CASE h[i].tx = tx
    <3>1. g[i] = [h[i] EXCEPT !.marked = FALSE]
      BY <2>2 DEF Cleared
    <3> QED BY <2>1, <2>2, <3>1, FlagsOnly
  <2>3. CASE h[i].tx # tx
    <3>1. g[i] = h[i]
      BY <2>3 DEF Cleared
    <3> QED BY <2>1, <2>3, <3>1, FlagsOnly
  <2> QED BY <2>2, <2>3
<1> QED BY <1>3, <1>4

LEMMA AppliedKeeps ==
  ASSUME NEW h, HistoryInv(h), NEW w, WriteInv(h, w), Accepts(h, w),
         NEW g, g = Applied(h, w)
  PROVE  /\ HistoryInv(g)
         /\ Grows(h, g)
         /\ Len(g) = Len(h) + 1
         /\ g[Len(g)] = w.record
<1> DEFINE n == Len(h)
<1>1. h \in Seq(Records) /\ n \in Nat /\ w \in Writes /\ w.record \in Records
      /\ Continues(h, w) /\ DecisionFits(w)
  BY RecordAt DEF HistoryInv, WriteInv, Writes, Accepts
<1>2. /\ g \in Seq(Records)
      /\ Len(g) = n + 1
      /\ g[n + 1] = w.record
      /\ \A i \in 1..n : /\ SameRecord(g[i], h[i])
                         /\ g[i].marked = h[i].marked
                         /\ g[i].pending => h[i].pending
                         /\ i # n => g[i].pending = h[i].pending
      /\ w.decision # None => /\ h # <<>> /\ h[n].pending
                              /\ g[n].pending = (w.decision.kind # "confirm")
      /\ w.decision = None /\ h # <<>> => ~h[n].pending
  BY <1>1, AppliedShape
<1>3. /\ \A i \in 1..n : h[i].tx # w.record.tx /\ h[i].tx # None
      /\ w.record.tx # None
      /\ w.record.parent = LatestTx(h)
      /\ h # <<>> => /\ n \in 1..n /\ ~h[n].marked
                     /\ w.record.version = h[n].version + 1
                     /\ w.record.parent = h[n].tx
      /\ h = <<>> => n = 0 /\ w.record.parent = None
  BY <1>1, RecordAt, NoneFacts DEF Accepts, LatestTx, Records, Tx
<1>4. ASSUME NEW i \in 1..n + 1 PROVE i \in 1..n \/ i = n + 1
  BY <1>1
<1>5. Chained(h) /\ KeysUnique(h) /\ (\A i \in 2..n : Decides(h, i))
      /\ \A i \in 1..n : OnlyRollbacksTarget(h[i])
  BY DEF HistoryInv
<1>6. h # <<>> => n > 0
  BY <1>1, RecordAt
<1> HIDE DEF n
<1>7. Chained(g)
  <2>1. ASSUME NEW i \in 1..n + 1 PROVE g[i].version = i - 1
    <3>1. CASE i \in 1..n
      BY <1>2, <1>5, <3>1 DEF Chained, SameRecord, n
    <3>2. CASE i = n + 1 /\ h = <<>>
      BY <1>1, <1>2, <1>3, <3>2 DEF Continues
    <3>3. CASE i = n + 1 /\ h # <<>>
      <4>1. h[n].version = n - 1
        BY <1>3, <1>5, <3>3 DEF Chained, n
      <4> QED BY <1>1, <1>2, <1>3, <3>3, <4>1
    <3> QED BY <1>4, <3>1, <3>2, <3>3
  <2>2. ASSUME NEW i \in 1..n + 1, NEW j \in 1..n + 1, g[i].tx = g[j].tx
        PROVE  i = j
    <3>1. \A k \in 1..n : g[k].tx = h[k].tx
      BY <1>2 DEF SameRecord
    <3>2. \A k, l \in 1..n : h[k].tx = h[l].tx => k = l
      BY <1>5 DEF Chained, n
    <3> QED BY <1>2, <1>3, <1>4, <2>2, <3>1, <3>2
  <2>3. ASSUME NEW i \in 1..n + 1
        PROVE  g[i].parent = IF i = 1 THEN None ELSE g[i - 1].tx
    <3>1. CASE i \in 1..n
      <4>1. i # 1 => i - 1 \in 1..n
        BY <1>1, <3>1
      <4> QED BY <1>2, <1>5, <3>1, <4>1 DEF Chained, SameRecord, n
    <3>2. CASE i = n + 1 /\ h = <<>>
      BY <1>2, <1>3, <3>2
    <3>3. CASE i = n + 1 /\ h # <<>>
      BY <1>1, <1>2, <1>3, <1>6, <3>3 DEF SameRecord
    <3> QED BY <1>4, <3>1, <3>2, <3>3
  <2>4. ASSUME NEW i \in 1..n + 1, g[i].marked PROVE i = n + 1
    <3>1. ASSUME i \in 1..n PROVE FALSE
      <4>1. h[i].marked
        BY <1>2, <2>4, <3>1
      <4>2. i = n
        BY <1>5, <3>1, <4>1 DEF Chained, n
      <4>3. h # <<>>
        BY <1>3, <3>1
      <4> QED BY <1>3, <4>1, <4>2, <4>3
    <3> QED BY <1>4, <3>1
  <2> QED BY <1>2, <2>1, <2>2, <2>3, <2>4 DEF Chained
<1>8. KeysUnique(g)
  <2>1. ASSUME NEW i \in 1..n + 1, NEW j \in 1..n + 1,
               g[i].key # None, g[i].key = g[j].key
        PROVE  i = j
    <3>1. \A k \in 1..n : g[k].key = h[k].key
      BY <1>2 DEF SameRecord
    <3>2. w.record.key # None => \A k \in 1..n : h[k].key # w.record.key
      BY <1>1 DEF Continues, FreshKey, n
    <3> QED BY <1>2, <1>4, <1>5, <2>1, <3>1, <3>2 DEF KeysUnique, n
  <2> QED BY <1>2, <2>1 DEF KeysUnique
<1>9. ASSUME NEW i \in 2..n + 1 PROVE Decides(g, i)
  <2>1. CASE i \in 2..n
    <3>1. i \in 1..n /\ i - 1 \in 1..n /\ i - 1 # n
      BY <1>1, <2>1
    <3>2. i > 2 => i - 2 \in 1..n /\ i - 2 # n
      BY <1>1, <2>1
    <3>3. Decides(h, i)
      BY <1>5, <2>1
    <3>4. g[i].request = h[i].request /\ g[i].config = h[i].config
      BY <1>2, <3>1 DEF SameRecord
    <3>5. g[i - 1].pending = h[i - 1].pending /\ g[i - 1].config = h[i - 1].config
      BY <1>2, <3>1 DEF SameRecord
    <3>6. i > 2 => /\ g[i - 2].pending = h[i - 2].pending
                   /\ g[i - 2].config = h[i - 2].config
      BY <1>2, <3>2 DEF SameRecord
    <3> QED BY <3>3, <3>4, <3>5, <3>6 DEF Decides, Mode
  <2>2. CASE i = n + 1
    <3>1. h # <<>> /\ n > 0 /\ i - 1 = n /\ n \in 1..n /\ g[i] = w.record
      BY <1>1, <1>2, <1>3, <2>2
    <3>2. g[n].config = h[n].config
      BY <1>2, <3>1 DEF SameRecord
    <3>3. n > 1 => /\ i > 2 /\ i - 2 = n - 1
                   /\ g[n - 1].config = h[n - 1].config
                   /\ g[n - 1].pending = h[n - 1].pending
      <4>1. n > 1 => n - 1 \in 1..n /\ n - 1 # n /\ i > 2 /\ i - 2 = n - 1
        BY <1>1, <2>2
      <4> QED BY <1>2, <4>1 DEF SameRecord
    <3>4. /\ Mode(w.record) = "confirmPending" => w.record.config = h[n].config
          /\ Mode(w.record) \in {"automatic", "cancelConfirmed"} =>
               /\ w.decision # None
               /\ n > 1
               /\ w.record.config = h[n - 1].config
               /\ ~h[n - 1].pending
      BY <1>1, <3>1 DEF Continues, n
    <3>5. /\ Mode(w.record) \in {"commit", "confirmPending"} =>
               w.decision = None \/ w.decision.kind = "confirm"
          /\ Mode(w.record) = "commitConfirmed" => w.decision = None
          /\ Mode(w.record) \in {"automatic", "cancelConfirmed", "rollback"} =>
               w.decision = None \/ w.decision.kind = "rollback"
      BY <1>1 DEF DecisionFits
    <3>6. /\ w.decision # None => g[n].pending = (w.decision.kind # "confirm")
          /\ w.decision = None => ~g[n].pending
      BY <1>2, <3>1
    <3>7. g[n].pending => Mode(w.record) \notin {"commit", "confirmPending",
                                                 "commitConfirmed"}
      BY <3>5, <3>6
    <3>8. Mode(w.record) = "confirmPending" =>
            ~g[n].pending /\ w.record.config = g[n].config
      BY <3>2, <3>4, <3>7
    <3>9. Mode(w.record) \in {"automatic", "cancelConfirmed"} =>
            g[n].pending /\ n > 1 /\ w.record.config = g[n - 1].config
              /\ ~g[n - 1].pending
      BY <3>3, <3>4, <3>5, <3>6
    <3> QED BY <3>1, <3>3, <3>7, <3>8, <3>9 DEF Decides
  <2> QED BY <1>1, <2>1, <2>2
<1>10. ASSUME NEW i \in 1..n + 1 PROVE OnlyRollbacksTarget(g[i])
  <2>1. CASE i \in 1..n
    BY <1>2, <1>5, <2>1 DEF OnlyRollbacksTarget, SameRecord
  <2>2. CASE i = n + 1
    BY <1>2, <2>2 DEF WriteInv
  <2> QED BY <1>4, <2>1, <2>2
<1>11. HistoryInv(g)
  BY <1>2, <1>7, <1>8, <1>9, <1>10 DEF HistoryInv
<1>12. LatestTx(g) = w.record.tx
  BY <1>1, <1>2, RecordAt DEF LatestTx
<1>13. \A tx : Known(h, tx) => LatestTx(g) # tx
  BY <1>3, <1>12 DEF Known, n
<1>14. Len(h) <= Len(g) /\ Len(h) # Len(g)
  BY <1>1, <1>2 DEF n
<1>15. Grows(h, g)
  BY <1>2, <1>13, <1>14 DEF Grows, n
<1> QED BY <1>2, <1>11, <1>15 DEF n

LEMMA ClearedKeeps ==
  ASSUME NEW h, HistoryInv(h), NEW tx, NEW g, g = Cleared(h, tx)
  PROVE  /\ HistoryInv(g)
         /\ Grows(h, g)
         /\ Len(g) = Len(h)
         /\ \A i \in 1..Len(g) : g[i].tx = tx => ~g[i].marked
<1>1. h \in Seq(Records) /\ Len(h) \in Nat
  BY RecordAt DEF HistoryInv
<1>2. /\ g \in Seq(Records)
      /\ Len(g) = Len(h)
      /\ \A i \in 1..Len(h) : /\ SameRecord(g[i], h[i])
                              /\ g[i].marked = (h[i].marked /\ h[i].tx # tx)
                              /\ g[i].pending = h[i].pending
  BY <1>1, ClearedShape
<1>3. Chained(g)
  <2>1. \A i \in 1..Len(h) : i # 1 => i - 1 \in 1..Len(h)
    BY <1>1
  <2>2. Chained(h)
    BY DEF HistoryInv
  <2>3. \A i \in 1..Len(h) : /\ g[i].version = h[i].version /\ g[i].tx = h[i].tx
                             /\ g[i].parent = h[i].parent
                             /\ g[i].marked => h[i].marked
    BY <1>2 DEF SameRecord
  <2> QED BY <1>2, <2>1, <2>2, <2>3 DEF Chained
<1>4. KeysUnique(g)
  BY <1>2 DEF HistoryInv, KeysUnique, SameRecord
<1>5. ASSUME NEW i \in 2..Len(g) PROVE Decides(g, i)
  <2>1. i \in 1..Len(h) /\ i - 1 \in 1..Len(h) /\ (i > 2 => i - 2 \in 1..Len(h))
    BY <1>1, <1>2
  <2>2. Decides(h, i)
    BY <1>2 DEF HistoryInv
  <2>3. /\ g[i].request = h[i].request /\ g[i].config = h[i].config
        /\ g[i - 1].pending = h[i - 1].pending /\ g[i - 1].config = h[i - 1].config
        /\ i > 2 => /\ g[i - 2].pending = h[i - 2].pending
                    /\ g[i - 2].config = h[i - 2].config
    BY <1>2, <2>1 DEF SameRecord
  <2> QED BY <2>2, <2>3 DEF Decides, Mode
<1>6. \A i \in 1..Len(g) : OnlyRollbacksTarget(g[i])
  BY <1>2 DEF HistoryInv, OnlyRollbacksTarget, SameRecord
<1>7. Grows(h, g)
  <2>1. Len(h) <= Len(g)
    BY <1>1, <1>2
  <2>2. \A i \in 1..Len(h) : /\ SameRecord(g[i], h[i])
                             /\ g[i].marked => h[i].marked
                             /\ g[i].pending = h[i].pending
    BY <1>2
  <2> QED BY <1>2, <2>1, <2>2 DEF Grows
<1>8. \A i \in 1..Len(g) : g[i].tx = tx => ~g[i].marked
  BY <1>2 DEF SameRecord
<1> QED BY <1>2, <1>3, <1>4, <1>5, <1>6, <1>7, <1>8 DEF HistoryInv

LEMMA GrowsReflexive ==
  ASSUME NEW h, HistoryInv(h)
  PROVE  Grows(h, h)
<1>1. Len(h) \in Nat
  BY RecordAt DEF HistoryInv
<1> QED BY <1>1 DEF Grows, SameRecord

-----------------------------------------------------------------------------
(* What is known stays known when the history grows.                       *)

LEMMA KnownGrows ==
  ASSUME NEW h, HistoryInv(h), NEW g, HistoryInv(g), Grows(h, g),
         NEW tx, Known(h, tx)
  PROVE  /\ Known(g, tx)
         /\ LatestTx(g) = tx => /\ Len(g) = Len(h) /\ LatestTx(h) = tx
                                /\ g = <<>> <=> h = <<>>
<1>1. Len(h) \in Nat /\ Len(g) \in Nat /\ Len(h) <= Len(g)
      /\ (h = <<>> <=> Len(h) = 0) /\ (g = <<>> <=> Len(g) = 0)
  BY RecordAt DEF HistoryInv, Grows
<1>2. Known(g, tx)
  BY <1>1 DEF Known, Grows, SameRecord
<1>3. ASSUME LatestTx(g) = tx
      PROVE  /\ Len(g) = Len(h) /\ LatestTx(h) = tx
             /\ g = <<>> <=> h = <<>>
  <2>1. Len(g) = Len(h)
    BY <1>3 DEF Grows
  <2>2. Len(h) # 0 => h[Len(h)].tx = g[Len(h)].tx
    <3>1. Len(h) # 0 => Len(h) \in 1..Len(h)
      BY <1>1
    <3> QED BY <3>1 DEF Grows, SameRecord
  <2> QED BY <1>1, <1>3, <2>1, <2>2 DEF LatestTx
<1> QED BY <1>2, <1>3

(* While the length is the same, so is everything a write depends on. *)
LEMMA SameLength ==
  ASSUME NEW h, HistoryInv(h), NEW g, HistoryInv(g), Grows(h, g), Len(g) = Len(h)
  PROVE  /\ Len(h) \in Nat
         /\ \A i \in 1..Len(h) : SameRecord(g[i], h[i]) /\ g[i].pending = h[i].pending
         /\ h = <<>> <=> g = <<>>
         /\ h # <<>> => Len(h) \in 1..Len(h)
BY RecordAt DEF HistoryInv, Grows

LEMMA WriteGrows ==
  ASSUME NEW h, HistoryInv(h), NEW g, HistoryInv(g), Grows(h, g),
         NEW w, WriteInv(h, w)
  PROVE  WriteInv(g, w)
<1>1. Known(h, w.record.parent)
  BY DEF WriteInv
<1>2. Known(g, w.record.parent)
  BY <1>1, KnownGrows
<1>3. ASSUME LatestTx(g) = w.record.parent PROVE Continues(g, w)
  <2>1. Len(g) = Len(h) /\ LatestTx(h) = w.record.parent
    BY <1>1, <1>3, KnownGrows
  <2>2. /\ Len(h) \in Nat
        /\ \A i \in 1..Len(h) : SameRecord(g[i], h[i]) /\ g[i].pending = h[i].pending
        /\ h = <<>> <=> g = <<>>
        /\ h # <<>> => Len(h) \in 1..Len(h)
    BY <2>1, SameLength
  <2>3. Continues(h, w)
    BY <2>1 DEF WriteInv
  <2>4. FreshKey(g, w.record.key)
    BY <2>1, <2>2, <2>3 DEF Continues, FreshKey, SameRecord
  <2>5. h # <<>> => g[Len(h)].config = h[Len(h)].config
    BY <2>2 DEF SameRecord
  <2>6. Len(h) > 1 => /\ g[Len(h) - 1].config = h[Len(h) - 1].config
                      /\ g[Len(h) - 1].pending = h[Len(h) - 1].pending
    <3>1. Len(h) > 1 => Len(h) - 1 \in 1..Len(h)
      BY <2>2
    <3> QED BY <2>2, <3>1 DEF SameRecord
  <2> QED BY <2>1, <2>2, <2>3, <2>4, <2>5, <2>6 DEF Continues
<1> QED BY <1>2, <1>3 DEF WriteInv

LEMMA AnsweredGrows ==
  ASSUME NEW h, HistoryInv(h), NEW g, Grows(h, g), HistoryInv(g),
         NEW a, Answered(h, a)
  PROVE  Answered(g, a)
<1>1. PICK i \in 1..Len(h) : h[i].tx = a.tx /\ Serves(h[i], a.request)
  BY DEF Answered
<1>2. i \in 1..Len(g) /\ SameRecord(g[i], h[i])
  BY RecordAt DEF HistoryInv, Grows
<1>3. g[i].tx = a.tx /\ Serves(g[i], a.request)
  BY <1>1, <1>2 DEF Serves, SameRecord
<1> QED BY <1>2, <1>3 DEF Answered

LEMMA LocalGrows ==
  ASSUME NEW h, HistoryInv(h), NEW g, HistoryInv(g), Grows(h, g),
         NEW s, NEW f, NEW t, NEW j, LocalInv(h, s, f, t, j)
  PROVE  LocalInv(g, s, f, t, j)
<1> USE DEF LocalInv
<1>1. Len(h) \in Nat /\ Len(g) \in Nat /\ Len(h) <= Len(g)
      /\ (h = <<>> <=> Len(h) = 0)
      /\ \A i \in 1..Len(h) : /\ i \in 1..Len(g) /\ SameRecord(g[i], h[i])
                              /\ g[i].marked => h[i].marked
  BY RecordAt DEF HistoryInv, Grows
<1>2. SnapInv(g, s, f, j)
  BY <1>1 DEF SnapInv, Shows, SameRecord
<1>3. BaseInv(g, s, j)
  BY KnownGrows DEF BaseInv
<1>4. ASSUME Building(j), LatestTx(g) = j.base.tx
      PROVE  /\ Len(g) = Len(h) /\ LatestTx(h) = j.base.tx
             /\ \A i \in 1..Len(h) : SameRecord(g[i], h[i])
             /\ Len(h) \in 1..Len(h)
  <2>1. Known(h, j.base.tx) /\ j.base.tx # None
    BY <1>4, NoneFacts DEF BaseInv, Heads
  <2>2. LatestTx(h) # None => Len(h) # 0
    BY <1>1 DEF LatestTx
  <2> QED BY <1>1, <1>4, <2>1, <2>2, KnownGrows
<1>5. RequestInv(g, j)
  <2> SUFFICES ASSUME j.kind = "commit", j.phase \in {"resolve", "parent", "append"},
                      LatestTx(g) = j.base.tx
               PROVE  FreshKey(g, j.request.key)
    BY DEF RequestInv
  <2>1. Building(j)
    BY DEF Building
  <2> QED BY <1>4, <2>1 DEF RequestInv, FreshKey, SameRecord
<1>6. ParentInv(g, t, j)
  <2> SUFFICES ASSUME j.phase = "parent", LatestTx(g) = j.base.tx
               PROVE  g[Len(g)].parent = j.parent
    BY DEF ParentInv
  <2>1. Building(j)
    BY DEF Building
  <2> QED BY <1>4, <2>1 DEF ParentInv, SameRecord
<1>7. AppendInv(g, s, j)
  BY WriteGrows DEF AppendInv
<1>8. ClearInv(g, s, j)
  BY <1>1 DEF ClearInv, SameRecord
<1> QED BY <1>2, <1>3, <1>5, <1>6, <1>7, <1>8

-----------------------------------------------------------------------------
(* A step of one bus.                                                      *)

Counted ==
  /\ due \subseteq Tx /\ nextTx \in Nat
  /\ submits \in Nat /\ faults \in Nat /\ crashes \in Nat

(* What a step does to everything the buses share keeps their part of the  *)
(* invariant.                                                              *)
SharedStep ==
  /\ HistoryInv(history')
  /\ Grows(history, history')
  /\ \A w \in limbo' : w \in limbo \/ WriteInv(history', w)
  /\ \A a \in answers' : \/ a \in answers
                         \/ /\ a \in [request : Requests, tx : Tx]
                            /\ Answered(history', a)
  /\ Counted'

LEMMA SharedUnchanged ==
  ASSUME Inv, UNCHANGED <<history, limbo, due, nextTx, answers>>,
         submits' \in Nat, faults' \in Nat, crashes' \in Nat
  PROVE  SharedStep
<1>1. HistoryInv(history') /\ Grows(history, history')
  BY GrowsReflexive DEF Inv
<1>2. Counted'
  BY DEF Inv, TypeOK, Counted
<1> QED BY <1>1, <1>2 DEF SharedStep

LEMMA SharedInv ==
  ASSUME Inv, SharedStep
  PROVE  /\ history' \in Seq(Records)
         /\ limbo' \subseteq Writes
         /\ answers' \subseteq [request : Requests, tx : Tx]
         /\ \A w \in limbo' : WriteInv(history', w)
         /\ \A a \in answers' : Answered(history', a)
         /\ \A b \in Buses : LocalInv(history', snap[b], fenced[b], timer[b], job[b])
<1>1. HistoryInv(history) /\ HistoryInv(history') /\ Grows(history, history')
  BY DEF Inv, SharedStep
<1>2. history' \in Seq(Records)
  BY <1>1 DEF HistoryInv
<1>3. \A w \in limbo' : WriteInv(history', w)
  BY <1>1, WriteGrows DEF Inv, SharedStep
<1>4. limbo' \subseteq Writes
  BY <1>3 DEF WriteInv
<1>5. \A a \in answers' : Answered(history', a)
  BY <1>1, AnsweredGrows DEF Inv, SharedStep
<1>6. answers' \subseteq [request : Requests, tx : Tx]
  BY DEF Inv, TypeOK, SharedStep
<1>7. \A b \in Buses : LocalInv(history', snap[b], fenced[b], timer[b], job[b])
  BY <1>1, LocalGrows DEF Inv, BusInv
<1> QED BY <1>2, <1>3, <1>4, <1>5, <1>6, <1>7

LEMMA BusStep ==
  ASSUME Inv, SharedStep, NEW b \in Buses,
         NEW s \in Snapshots, snap' = [snap EXCEPT ![b] = s],
         NEW f \in BOOLEAN, fenced' = [fenced EXCEPT ![b] = f],
         NEW t \in Tx \cup {None}, timer' = [timer EXCEPT ![b] = t],
         NEW j \in Jobs, job' = [job EXCEPT ![b] = j],
         LocalInv(history', s, f, t, j)
  PROVE  Inv'
<1>1. /\ history' \in Seq(Records)
      /\ limbo' \subseteq Writes
      /\ answers' \subseteq [request : Requests, tx : Tx]
      /\ \A w \in limbo' : WriteInv(history', w)
      /\ \A a \in answers' : Answered(history', a)
      /\ \A c \in Buses : LocalInv(history', snap[c], fenced[c], timer[c], job[c])
  BY SharedInv
<1>2. /\ snap \in [Buses -> Snapshots] /\ fenced \in [Buses -> BOOLEAN]
      /\ timer \in [Buses -> Tx \cup {None}] /\ job \in [Buses -> Jobs]
  BY DEF Inv, TypeOK
<1>3. TypeOK'
  <2>1. snap' \in [Buses -> Snapshots]
    BY <1>2
  <2>2. fenced' \in [Buses -> BOOLEAN]
    BY <1>2
  <2>3. timer' \in [Buses -> Tx \cup {None}]
    BY <1>2
  <2>4. job' \in [Buses -> Jobs]
    BY <1>2
  <2> QED BY <1>1, <2>1, <2>2, <2>3, <2>4 DEF TypeOK, SharedStep, Counted
<1>4. ASSUME NEW c \in Buses PROVE BusInv(c)'
  <2>1. CASE c = b
    <3>1. snap'[b] = s /\ fenced'[b] = f /\ timer'[b] = t /\ job'[b] = j
      BY <1>2
    <3> QED BY <2>1, <3>1 DEF BusInv
  <2>2. CASE c # b
    <3>1. /\ snap'[c] = snap[c] /\ fenced'[c] = fenced[c]
          /\ timer'[c] = timer[c] /\ job'[c] = job[c]
      BY <1>2, <2>2
    <3> QED BY <1>1, <3>1 DEF BusInv
  <2> QED BY <2>1, <2>2
<1> QED BY <1>1, <1>3, <1>4 DEF Inv, SharedStep

(* What is known of a bus before the step. *)
LEMMA BusFacts ==
  ASSUME Inv, NEW b \in Buses
  PROVE  /\ LocalInv(history, snap[b], fenced[b], timer[b], job[b])
         /\ snap[b] \in Snapshots /\ fenced[b] \in BOOLEAN
         /\ timer[b] \in Tx \cup {None} /\ job[b] \in Jobs
         /\ snap = [snap EXCEPT ![b] = snap[b]]
         /\ fenced = [fenced EXCEPT ![b] = fenced[b]]
         /\ timer = [timer EXCEPT ![b] = timer[b]]
         /\ job = [job EXCEPT ![b] = job[b]]
         /\ HistoryInv(history) /\ history \in Seq(Records)
BY DEF Inv, TypeOK, BusInv, HistoryInv

(* A job is done; what the bus shows may stay marked only behind a fence.  *)
LEMMA Resting ==
  ASSUME NEW h, NEW s, NEW f, NEW t, NEW j, j \in {NoJob, Down}, SnapInv(h, s, f, j)
  PROVE  LocalInv(h, s, f, t, j) /\ j \in Jobs
<1>1. /\ j.kind = "none" /\ j.phase \in {"idle", "down"}
      /\ j \in Jobs
  BY DEF NoJob, Down, Jobs
<1>2. PhaseInv(j)
  BY <1>1 DEF PhaseInv
<1>3. BaseInv(h, s, j) /\ RequestInv(h, j) /\ ParentInv(h, t, j)
      /\ AppendInv(h, s, j) /\ ClearInv(h, s, j)
  BY <1>1 DEF BaseInv, Building, RequestInv, ParentInv, AppendInv, ClearInv
<1> QED BY <1>1, <1>2, <1>3 DEF LocalInv

LEMMA StopsInv ==
  ASSUME Inv, SharedStep, NEW b \in Buses, Stops(b) \/ StopsFenced(b), snap' = snap,
         job[b].phase # "down",
         job[b].kind = "restore" \/ job[b].phase # "clear"
  PROVE  Inv'
<1> DEFINE j == IF job[b].kind = "restore" THEN Down ELSE NoJob
           t == IF job[b].kind = "expiry" THEN None ELSE timer[b]
<1>1. /\ snap[b] \in Snapshots /\ fenced[b] \in BOOLEAN
      /\ timer[b] \in Tx \cup {None}
      /\ snap' = [snap EXCEPT ![b] = snap[b]]
      /\ SnapInv(history', snap[b], fenced[b], job[b])
  BY BusFacts, SharedInv DEF LocalInv
<1>2. PICK f \in BOOLEAN : /\ fenced' = [fenced EXCEPT ![b] = f]
                           /\ job[b].kind # "restore" /\ fenced[b] => f
  BY <1>1 DEF Stops, StopsFenced
<1>3. job' = [job EXCEPT ![b] = j] /\ timer' = [timer EXCEPT ![b] = t]
  BY DEF Stops, StopsFenced
<1>4. SnapInv(history', snap[b], f, j)
  <2>1. CASE job[b].kind = "restore"
    BY <1>1, <2>1 DEF SnapInv, Running, Down, NoJob
  <2>2. CASE job[b].kind # "restore"
    BY <1>1, <1>2, <2>2 DEF SnapInv, Running, NoJob
  <2> QED BY <2>1, <2>2
<1>5. LocalInv(history', snap[b], f, t, j) /\ j \in Jobs
  BY <1>4, Resting
<1>6. t \in Tx \cup {None}
  BY <1>1
<1> HIDE DEF j, t
<1> QED BY <1>1, <1>2, <1>3, <1>5, <1>6, BusStep

-----------------------------------------------------------------------------
(* The actions.                                                            *)

LEMMA InitInv == Init => Inv
<1> SUFFICES ASSUME Init PROVE Inv
  OBVIOUS
<1>1. NeverSeen \in Snapshots /\ Down \in Jobs /\ None \in Tx \cup {None}
  BY DEF Snapshots, Down, NoJob, Jobs
<1>2. TypeOK
  BY <1>1 DEF Init, TypeOK
<1>3. HistoryInv(history)
  <2>1. history = <<>> /\ history \in Seq(Records) /\ Len(history) = 0
    BY DEF Init
  <2>2. 1..Len(history) = {} /\ 2..Len(history) = {}
    BY <2>1
  <2> QED BY <2>1, <2>2 DEF HistoryInv, Chained, KeysUnique
<1>4. ASSUME NEW b \in Buses PROVE BusInv(b)
  <2>1. snap[b] = NeverSeen /\ job[b] = Down
    BY DEF Init
  <2>2. SnapInv(history, snap[b], fenced[b], job[b])
    BY <2>1 DEF SnapInv, Running, Down
  <2> QED BY <2>1, <2>2, Resting DEF BusInv
<1> QED BY <1>2, <1>3, <1>4 DEF Inv, Init

LEMMA JobFacts ==
  ASSUME NEW j \in Jobs, PhaseInv(j)
  PROVE  /\ j.phase \in {"lookup", "resolve", "relookup"} => j.kind = "commit"
         /\ j.phase \in {"parent", "append", "clear"} =>
              j.kind \in {"commit", "expiry", "restore"}
         /\ j.phase = "rebuild" => j.kind = "reconcile"
         /\ j.kind = "commit" => j.request \in Requests
         /\ j.kind = "restore" => j.phase \in {"parent", "append", "clear"}
         /\ j.phase = "down" => j = Down
<1>1. j.kind \in {"none", "commit", "expiry", "reconcile", "restore"}
  BY DEF Jobs
<1>2. CASE j.kind = "none"
  <2>1. j \in {NoJob, Down}
    BY <1>2 DEF PhaseInv
  <2>2. NoJob.phase = "idle" /\ Down.phase = "down" /\ NoJob.kind = "none"
        /\ Down.kind = "none"
    BY DEF NoJob, Down
  <2> QED BY <1>2, <2>1, <2>2
<1>3. CASE j.kind = "commit"
  BY <1>3 DEF PhaseInv
<1>4. CASE j.kind \in {"expiry", "restore"}
  BY <1>4 DEF PhaseInv
<1>5. CASE j.kind = "reconcile"
  BY <1>5 DEF PhaseInv
<1> QED BY <1>1, <1>2, <1>3, <1>4, <1>5

LEMMA RefuseInv ==
  ASSUME Inv, NEW b \in Buses, Refuse(b) \/ Panic(b)
  PROVE  Inv'
<1>1. SharedStep
  BY SharedUnchanged DEF Inv, TypeOK, Refuse, Panic, Fault
<1> QED BY <1>1, StopsInv DEF Refuse, Panic

(* A success named from a stored record. *)
LEMMA RecognisedAnswer ==
  ASSUME NEW h, HistoryInv(h), NEW q \in Requests, NEW i \in 1..Len(h),
         Matches(q, h[i]),
         IF q.key # None THEN h[i].key = q.key ELSE h[i].id = q.id
  PROVE  /\ Answered(h, [request |-> q, tx |-> h[i].tx])
         /\ [request |-> q, tx |-> h[i].tx] \in [request : Requests, tx : Tx]
<1>1. h[i].tx \in Tx /\ h[i] \in Records
  BY RecordAt DEF HistoryInv, Tx
<1>2. q \in RequestShape /\ (q.target = None <=> q.mode # "rollback")
  BY RequestsAssumption
<1>3. OnlyRollbacksTarget(h[i])
  BY DEF HistoryInv
<1>4. h[i].request.mode = "rollback" <=> q.mode = "rollback"
  BY <1>2 DEF Matches, Fingerprint, RequestShape
<1>5. h[i].request.target = q.target
  BY <1>2, <1>3, <1>4 DEF Matches, OnlyRollbacksTarget
<1>6. Serves(h[i], q)
  BY <1>2, <1>5 DEF Serves, Matches
<1> QED BY <1>1, <1>6 DEF Answered

LEMMA ReplayInv ==
  ASSUME Inv, NEW b \in Buses, Replay(b)
  PROVE  Inv'
<1> DEFINE q == job[b].request
<1>1. /\ job[b].phase = "lookup" /\ q.key # None /\ ByKey(history, q.key) # None
      /\ Matches(q, ByKey(history, q.key))
      /\ answers' = answers \cup {[request |-> q, tx |-> ByKey(history, q.key).tx]}
      /\ Stops(b)
      /\ UNCHANGED <<history, limbo, due, nextTx, snap, submits, faults, crashes>>
  BY DEF Replay, Answer
<1>2. q \in Requests
  BY <1>1, BusFacts, JobFacts DEF LocalInv
<1>3. HistoryInv(history) /\ history \in Seq(Records)
  BY BusFacts
<1>4. PICK i \in 1..Len(history) : /\ ByKey(history, q.key) = history[i]
                                   /\ history[i].key = q.key
  BY <1>1, <1>3, ReadFound
<1> HIDE DEF q
<1>5. /\ Answered(history, [request |-> q, tx |-> history[i].tx])
      /\ [request |-> q, tx |-> history[i].tx] \in [request : Requests, tx : Tx]
  BY <1>1, <1>2, <1>3, <1>4, RecognisedAnswer
<1>6. SharedStep
  <2>1. Grows(history, history') /\ HistoryInv(history')
    BY <1>1, <1>3, GrowsReflexive
  <2>2. Counted'
    BY <1>1 DEF Inv, TypeOK, Counted
  <2> QED BY <1>1, <1>4, <1>5, <2>1, <2>2 DEF SharedStep
<1> QED BY <1>1, <1>6, StopsInv

LEMMA RelookupInv ==
  ASSUME Inv, NEW b \in Buses, Relookup(b)
  PROVE  Inv'
<1> DEFINE q == job[b].request
           stored == ReconciliationRecord(q)
           recognised == IF stored = None THEN FALSE ELSE Matches(q, stored)
<1>1. /\ job[b].phase = "relookup"
      /\ Stops(b) \/ StopsFenced(b)
      /\ \/ recognised /\ answers' = answers \cup {[request |-> q, tx |-> stored.tx]}
         \/ answers' = answers
      /\ faults' = faults \/ Fault
      /\ UNCHANGED <<history, limbo, due, nextTx, snap, submits, crashes>>
  BY DEF Relookup, Answer
<1>2. q \in Requests
  BY <1>1, BusFacts, JobFacts DEF LocalInv
<1>3. HistoryInv(history) /\ history \in Seq(Records)
  BY BusFacts
<1>4. faults' \in Nat
  BY <1>1 DEF Fault, Inv, TypeOK
<1> HIDE DEF q
<1>5. CASE answers' = answers
  <2>1. SharedStep
    BY <1>1, <1>4, <1>5, SharedUnchanged DEF Inv, TypeOK
  <2> QED BY <1>1, <2>1, StopsInv
<1>6. CASE recognised /\ answers' = answers \cup {[request |-> q, tx |-> stored.tx]}
  <2>1. stored # None /\ Matches(q, stored)
    BY <1>6
  <2>2. PICK i \in 1..Len(history) :
          /\ stored = history[i]
          /\ IF q.key # None THEN history[i].key = q.key ELSE history[i].id = q.id
    BY <1>3, <2>1, ReadFound DEF ReconciliationRecord
  <2> HIDE DEF stored
  <2>3. /\ Answered(history, [request |-> q, tx |-> history[i].tx])
        /\ [request |-> q, tx |-> history[i].tx] \in [request : Requests, tx : Tx]
    BY <1>2, <1>3, <2>1, <2>2, RecognisedAnswer
  <2>4. Grows(history, history') /\ HistoryInv(history')
    BY <1>1, <1>3, GrowsReflexive
  <2>5. Counted'
    BY <1>1, <1>4 DEF Inv, TypeOK, Counted
  <2>6. SharedStep
    BY <1>1, <1>6, <2>2, <2>3, <2>4, <2>5 DEF SharedStep
  <2> QED BY <1>1, <2>6, StopsInv
<1> QED BY <1>1, <1>5, <1>6

LEMMA TakeInv ==
  ASSUME Inv, NEW b \in Buses, NEW r \in Requests, Take(b, r)
  PROVE  Inv'
<1> DEFINE j == [NoJob EXCEPT !.kind = "commit", !.phase = "lookup", !.request = r,
                              !.base = HeadOf(snap[b])]
<1>1. /\ job[b] = NoJob /\ job' = [job EXCEPT ![b] = j] /\ submits' = submits + 1
      /\ UNCHANGED <<history, limbo, due, nextTx, snap, fenced, timer, answers,
                     faults, crashes>>
  BY DEF Take, Idle
<1>2. SharedStep
  BY <1>1, SharedUnchanged DEF Inv, TypeOK
<1>3. SnapInv(history, snap[b], fenced[b], NoJob)
  BY <1>1, BusFacts DEF LocalInv
<1>4. PICK i \in 1..Len(history) : /\ Shows(snap[b], history[i])
                                   /\ history[i].marked => fenced[b]
  BY <1>3 DEF SnapInv, Running, NoJob
<1>5. HeadOf(snap[b]) \in Heads /\ Known(history, HeadOf(snap[b]).tx)
  <2>1. history[i].tx \in Nat /\ history[i].version \in Nat
    BY BusFacts, RecordAt
  <2> QED BY <1>4, <2>1 DEF HeadOf, Heads, Tx, Shows, Known
<1>6. /\ j \in Jobs /\ j.kind = "commit" /\ j.phase = "lookup"
      /\ j.request = r /\ j.base = HeadOf(snap[b])
  BY <1>5 DEF NoJob, Jobs, Heads
<1> HIDE DEF j
<1>7. LocalInv(history, snap[b], fenced[b], timer[b], j)
  <2>1. SnapInv(history, snap[b], fenced[b], j)
    BY <1>4 DEF SnapInv
  <2>2. PhaseInv(j)
    BY <1>6 DEF PhaseInv
  <2>3. BaseInv(history, snap[b], j)
    BY <1>5, <1>6 DEF BaseInv
  <2> QED BY <1>6, <2>1, <2>2, <2>3
          DEF LocalInv, RequestInv, ParentInv, AppendInv, ClearInv
<1>8. /\ snap[b] \in Snapshots /\ fenced[b] \in BOOLEAN /\ timer[b] \in Tx \cup {None}
      /\ snap' = [snap EXCEPT ![b] = snap[b]]
      /\ fenced' = [fenced EXCEPT ![b] = fenced[b]]
      /\ timer' = [timer EXCEPT ![b] = timer[b]]
      /\ LocalInv(history', snap[b], fenced[b], timer[b], j)
  BY <1>1, <1>7, BusFacts
<1> QED BY <1>1, <1>2, <1>6, <1>8, BusStep

(* A job moves on without touching its bus. *)
OnlyJob ==
  UNCHANGED <<history, limbo, due, nextTx, snap, fenced, timer, answers,
              submits, faults, crashes>>

LEMMA JobStep ==
  ASSUME Inv, NEW b \in Buses, NEW j \in Jobs, job' = [job EXCEPT ![b] = j],
         OnlyJob, LocalInv(history, snap[b], fenced[b], timer[b], j)
  PROVE  Inv'
<1>1. SharedStep
  BY SharedUnchanged DEF OnlyJob, Inv, TypeOK
<1>2. PICK s \in Snapshots, f \in BOOLEAN, t \in Tx \cup {None} :
        /\ snap' = [snap EXCEPT ![b] = s]
        /\ fenced' = [fenced EXCEPT ![b] = f]
        /\ timer' = [timer EXCEPT ![b] = t]
        /\ LocalInv(history', s, f, t, j)
  BY BusFacts DEF OnlyJob
<1> QED BY <1>1, <1>2, BusStep

LEMMA ProceedInv ==
  ASSUME Inv, NEW b \in Buses, Proceed(b)
  PROVE  Inv'
<1> DEFINE j == [job[b] EXCEPT !.phase = "resolve"]
           q == job[b].request
<1>1. /\ job[b].phase = "lookup"
      /\ q.key # None => ByKey(history, q.key) = None
      /\ q.candidate # None /\ q.mode \in {"commit", "commitConfirmed"} =>
           q.base = job[b].base.version
      /\ job' = [job EXCEPT ![b] = j] /\ OnlyJob
  BY DEF Proceed, Proceeds, OnlyJob
<1>2. LocalInv(history, snap[b], fenced[b], timer[b], job[b]) /\ job[b] \in Jobs
      /\ history \in Seq(Records)
  BY BusFacts
<1>3. job[b].kind = "commit" /\ q \in Requests
  BY <1>1, <1>2, JobFacts DEF LocalInv
<1>4. /\ j \in Jobs /\ j.kind = "commit" /\ j.phase = "resolve"
      /\ j.request = q /\ j.base = job[b].base
  BY <1>2, <1>3 DEF Jobs
<1> HIDE DEF j
<1>5. FreshKey(history, q.key)
  BY <1>1, <1>2, ReadFound DEF FreshKey
<1>6. LocalInv(history, snap[b], fenced[b], timer[b], j)
  <2>1. SnapInv(history, snap[b], fenced[b], j)
    BY <1>1, <1>2, <1>3, <1>4 DEF LocalInv, SnapInv, Running
  <2>2. PhaseInv(j)
    BY <1>3, <1>4 DEF PhaseInv
  <2>3. BaseInv(history, snap[b], j)
    BY <1>1, <1>2, <1>3, <1>4 DEF LocalInv, BaseInv, Building
  <2>4. RequestInv(history, j)
    BY <1>1, <1>4, <1>5 DEF RequestInv
  <2> QED BY <1>4, <2>1, <2>2, <2>3, <2>4
          DEF LocalInv, ParentInv, AppendInv, ClearInv
<1> QED BY <1>1, <1>4, <1>6, JobStep

-----------------------------------------------------------------------------
(* The writes a worker prepares.                                           *)

(* What a job that builds on a head knows of it. *)
LEMMA BaseFacts ==
  ASSUME Inv, NEW b \in Buses, Building(job[b]), job[b].kind \in {"commit", "expiry"}
  PROVE  /\ job[b].base \in Heads /\ job[b].base.tx \in Nat
         /\ job[b].base.version \in Nat /\ job[b].base.tx # None
         /\ Known(history, job[b].base.tx)
         /\ job[b].base = HeadOf(snap[b])
         /\ LatestTx(history) = job[b].base.tx =>
              /\ history # <<>> /\ Len(history) \in 1..Len(history)
              /\ Running(job[b]) => snap[b].config = history[Len(history)].config
<1>1. LocalInv(history, snap[b], fenced[b], timer[b], job[b])
      /\ HistoryInv(history) /\ history \in Seq(Records) /\ job[b] \in Jobs
  BY BusFacts
<1>2. job[b].base \in Heads /\ Known(history, job[b].base.tx)
      /\ job[b].base = HeadOf(snap[b]) /\ job[b].phase # "clear"
  BY <1>1 DEF LocalInv, BaseInv, Building
<1>3. job[b].base.tx \in Nat /\ job[b].base.version \in Nat /\ job[b].base.tx # None
  BY <1>2, NoneFacts DEF Heads, Tx
<1>4. ASSUME LatestTx(history) = job[b].base.tx
      PROVE  /\ history # <<>> /\ Len(history) \in 1..Len(history)
             /\ Running(job[b]) => snap[b].config = history[Len(history)].config
  <2>1. history # <<>> /\ Len(history) \in 1..Len(history)
        /\ history[Len(history)].tx = job[b].base.tx
    BY <1>1, <1>3, <1>4, RecordAt DEF LatestTx
  <2>2. ASSUME Running(job[b])
        PROVE  snap[b].config = history[Len(history)].config
    <3>1. PICK i \in 1..Len(history) : Shows(snap[b], history[i])
      BY <1>1, <2>2 DEF LocalInv, SnapInv
    <3>2. history[i].tx = history[Len(history)].tx
      BY <1>2, <2>1, <3>1 DEF Shows, HeadOf
    <3>3. i = Len(history)
      BY <1>1, <2>1, <3>2 DEF HistoryInv, Chained
    <3> QED BY <3>1, <3>3 DEF Shows
  <2> QED BY <2>1, <2>2
<1> QED BY <1>2, <1>3, <1>4

LEMMA CommitWriteInv ==
  ASSUME Inv, NEW b \in Buses, job[b].kind = "commit",
         job[b].phase \in {"resolve", "parent"},
         NEW config \in Configs, NEW q, q = job[b].request,
         q.mode \in {"commit", "commitConfirmed"} /\ q.candidate # None
           => config = q.candidate,
         q.mode = "commit" /\ q.candidate = None => config = snap[b].config,
         q.mode = "cancelConfirmed" =>
           /\ timer[b] # None
           /\ LatestTx(history) = job[b].base.tx =>
                /\ Len(history) > 1 /\ config = history[Len(history) - 1].config
                /\ ~history[Len(history) - 1].pending,
         NEW w, w = CommitWrite(b, config)
  PROVE  /\ WriteInv(history, w) /\ Serves(w.record, q)
         /\ w.record.version = snap[b].version + 1
<1>1. /\ Building(job[b]) /\ Running(job[b])
  BY DEF Building, Running
<1>2. /\ job[b].base.tx \in Nat /\ job[b].base.version \in Nat
      /\ Known(history, job[b].base.tx) /\ job[b].base = HeadOf(snap[b])
      /\ LatestTx(history) = job[b].base.tx =>
           history # <<>> /\ snap[b].config = history[Len(history)].config
  BY <1>1, BaseFacts
<1>3. q \in Requests /\ RequestInv(history, job[b]) /\ timer[b] \in Tx \cup {None}
  BY BusFacts, JobFacts DEF LocalInv
<1>4. /\ q.id \in RequestIds /\ q.key \in RetryKeys \cup {None}
      /\ q.mode \in {"commit", "commitConfirmed", "cancelConfirmed", "rollback"}
      /\ q.candidate \in Configs \cup {None} /\ q.target \in Targets \cup {None}
      /\ q.target = None <=> q.mode # "rollback"
  BY <1>3, RequestsAssumption DEF RequestShape
<1> DEFINE fp == Fingerprint(q, job[b].base.version)
<1>5. /\ w.record.parent = job[b].base.tx /\ w.record.config = config
      /\ w.record.version = job[b].base.version + 1 /\ w.record.key = q.key
      /\ w.record.id = q.id /\ w.record.request = fp
      /\ w.decision = Decision(b, q.mode)
  BY DEF CommitWrite
<1>6. /\ fp \in Fingerprints /\ fp # None
      /\ fp.mode = Fingerprint(q, q.base).mode
      /\ fp.mode = (IF q.mode = "commit" /\ q.candidate = None THEN "confirmPending"
                    ELSE q.mode)
      /\ fp.target = q.target /\ fp.base = job[b].base.version
  <2>1. fp \in Fingerprints
    BY <1>2, <1>4 DEF Fingerprint, Fingerprints
  <2> QED BY <2>1, NoneFacts DEF Fingerprint
<1> HIDE DEF fp
<1>7. /\ w.decision \in Decisions \cup {None}
      /\ w.decision # None =>
           w.decision.kind = IF q.mode = "commit" THEN "confirm" ELSE "rollback"
      /\ q.mode = "commitConfirmed" => w.decision = None
      /\ q.mode = "cancelConfirmed" => w.decision # None
  <2> DEFINE d == [kind |-> IF q.mode = "commit" THEN "confirm" ELSE "rollback",
                   tx |-> job[b].base.tx]
  <2>1. d \in Decisions /\ d.kind = (IF q.mode = "commit" THEN "confirm" ELSE "rollback")
    BY <1>2 DEF Decisions, Tx
  <2>2. d # None
    BY <2>1, NoneFacts
  <2>3. w.decision = IF timer[b] = None \/ q.mode = "commitConfirmed" THEN None ELSE d
    BY <1>5 DEF Decision
  <2> HIDE DEF d
  <2> QED BY <2>1, <2>2, <2>3
<1>8. w \in Writes
  <2>1. w.record \in Records
    BY <1>2, <1>4, <1>6 DEF CommitWrite, Records, Tx, Unstamped, fp
  <2>2. w = [record |-> w.record, decision |-> w.decision]
    BY DEF CommitWrite
  <2> QED BY <1>7, <2>1, <2>2 DEF Writes
<1>9. Mode(w.record) = fp.mode
  BY <1>5, <1>6 DEF Mode
<1>10. OnlyRollbacksTarget(w.record)
  BY <1>4, <1>5, <1>6 DEF OnlyRollbacksTarget
<1>11. DecisionFits(w)
  BY <1>4, <1>6, <1>7, <1>9 DEF DecisionFits
<1>12. ASSUME LatestTx(history) = w.record.parent PROVE Continues(history, w)
  <2>1. FreshKey(history, w.record.key)
    BY <1>3, <1>5, <1>12 DEF RequestInv
  <2>2. Mode(w.record) = "confirmPending" => q.mode = "commit" /\ q.candidate = None
    BY <1>4, <1>6, <1>9
  <2>3. Mode(w.record) \in {"automatic", "cancelConfirmed"} =>
          q.mode = "cancelConfirmed"
    BY <1>4, <1>6, <1>9
  <2> QED BY <1>2, <1>5, <1>7, <1>12, <2>1, <2>2, <2>3 DEF Continues
<1>13. Serves(w.record, q)
  <2>1. q.candidate # None /\ q.mode \in {"commit", "commitConfirmed"} =>
          q.base = job[b].base.version
    BY <1>3 DEF RequestInv
  <2> QED BY <1>5, <1>6, <2>1 DEF Serves
<1>14. w.record.version = snap[b].version + 1
  BY <1>2, <1>5 DEF HeadOf
<1> QED BY <1>2, <1>5, <1>8, <1>10, <1>11, <1>12, <1>13, <1>14 DEF WriteInv

LEMMA PreparedInv ==
  ASSUME Inv, NEW b \in Buses, NEW w, Prepared(b, w),
         job[b].phase \in {"resolve", "parent"},
         WriteInv(history, w),
         job[b].kind = "commit" => Serves(w.record, job[b].request),
         job[b].kind = "restore" => w.record.marked,
         job[b].kind # "restore" => w.record.version = snap[b].version + 1
  PROVE  Inv'
<1> DEFINE j == [job[b] EXCEPT !.phase = "append", !.write = w]
<1>1. LocalInv(history, snap[b], fenced[b], timer[b], job[b]) /\ job[b] \in Jobs
      /\ job \in [Buses -> Jobs]
  BY BusFacts DEF Inv, TypeOK
<1>2. job' = [job EXCEPT ![b] = j] /\ OnlyJob
  BY <1>1 DEF Prepared, OnlyJob
<1>3. /\ job[b].kind \in {"commit", "expiry", "restore"}
      /\ job[b].kind = "commit" => job[b].request \in Requests
  BY <1>1, JobFacts DEF LocalInv
<1>4. w \in Writes
  BY DEF WriteInv
<1>5. /\ j \in Jobs /\ j.kind = job[b].kind /\ j.phase = "append" /\ j.write = w
      /\ j.request = job[b].request /\ j.base = job[b].base
  BY <1>1, <1>4 DEF Jobs
<1> HIDE DEF j
<1>6. SnapInv(history, snap[b], fenced[b], j)
  BY <1>1, <1>3, <1>5 DEF LocalInv, SnapInv, Running
<1>7. PhaseInv(j)
  BY <1>3, <1>5 DEF PhaseInv
<1>8. BaseInv(history, snap[b], j)
  BY <1>1, <1>3, <1>5 DEF LocalInv, BaseInv, Building
<1>9. RequestInv(history, j)
  BY <1>1, <1>5 DEF LocalInv, RequestInv
<1>10. AppendInv(history, snap[b], j)
  BY <1>5 DEF AppendInv
<1>11. LocalInv(history, snap[b], fenced[b], timer[b], j)
  BY <1>5, <1>6, <1>7, <1>8, <1>9, <1>10 DEF LocalInv, ParentInv, ClearInv
<1> QED BY <1>2, <1>5, <1>11, JobStep

LEMMA ResolveGivenInv ==
  ASSUME Inv, NEW b \in Buses, ResolveGiven(b)
  PROVE  Inv'
<1> DEFINE q == job[b].request
<1>1. job[b].phase = "resolve" /\ q.mode \in {"commit", "commitConfirmed"}
  BY DEF ResolveGiven
<1>2. job[b].kind = "commit" /\ q \in Requests
      /\ SnapInv(history, snap[b], fenced[b], job[b])
  BY <1>1, BusFacts, JobFacts DEF LocalInv
<1>3. PICK config : /\ Prepared(b, CommitWrite(b, config))
                    /\ config = IF q.candidate # None THEN q.candidate
                                ELSE snap[b].config
  BY DEF ResolveGiven
<1>4. config \in Configs
  <2>1. q.candidate \in Configs \cup {None}
    BY <1>2, RequestsAssumption DEF RequestShape
  <2>2. PICK i \in 1..Len(history) : Shows(snap[b], history[i])
    BY <1>1, <1>2 DEF SnapInv, Running
  <2>3. history[i] \in Records
    BY BusFacts, RecordAt
  <2> QED BY <1>3, <2>1, <2>2, <2>3 DEF Shows, Records
<1>5. PICK w : w = CommitWrite(b, config)
  OBVIOUS
<1>6. WriteInv(history, w) /\ Serves(w.record, q)
      /\ w.record.version = snap[b].version + 1
  BY <1>1, <1>2, <1>3, <1>4, <1>5, CommitWriteInv
<1> QED BY <1>1, <1>2, <1>3, <1>5, <1>6, PreparedInv

LEMMA ResolveRollbackInv ==
  ASSUME Inv, NEW b \in Buses, ResolveRollback(b)
  PROVE  Inv'
<1> DEFINE q == job[b].request
           stored == LoadRollback(history, q.target)
<1>1. /\ job[b].phase = "resolve" /\ q.mode = "rollback" /\ stored # None
      /\ Prepared(b, CommitWrite(b, stored.config))
  BY DEF ResolveRollback
<1>2. job[b].kind = "commit" /\ q \in Requests
  BY <1>1, BusFacts, JobFacts DEF LocalInv
<1>3. q.target.kind \in {"version", "tx", "previous"}
  <2>1. q.target \in Targets
    BY <1>1, <1>2, RequestsAssumption DEF RequestShape
  <2> QED BY <2>1 DEF Targets
<1>4. PICK i \in 1..Len(history) : stored = history[i]
  BY <1>1, <1>3, BusFacts, RollbackFound
<1>5. PICK config : config = stored.config
  OBVIOUS
<1>6. config \in Configs
  <2>1. history[i] \in Records
    BY BusFacts, RecordAt
  <2> QED BY <1>4, <1>5, <2>1 DEF Records
<1>7. PICK w : w = CommitWrite(b, config)
  OBVIOUS
<1> HIDE DEF stored
<1>8. WriteInv(history, w) /\ Serves(w.record, q)
      /\ w.record.version = snap[b].version + 1
  BY <1>1, <1>2, <1>6, <1>7, CommitWriteInv
<1> QED BY <1>1, <1>2, <1>5, <1>7, <1>8, PreparedInv

LEMMA ResolveCancelInv ==
  ASSUME Inv, NEW b \in Buses, ResolveCancel(b)
  PROVE  Inv'
<1> DEFINE p == Latest(history).parent
           j == [job[b] EXCEPT !.phase = "parent", !.parent = p]
<1>1. LocalInv(history, snap[b], fenced[b], timer[b], job[b]) /\ job[b] \in Jobs
      /\ history \in Seq(Records) /\ job \in [Buses -> Jobs]
  BY BusFacts DEF Inv, TypeOK
<1>2. /\ job[b].phase = "resolve" /\ job[b].request.mode = "cancelConfirmed"
      /\ timer[b] # None /\ history # <<>> /\ p # None
  BY DEF ResolveCancel, LatestPending
<1>3. job' = [job EXCEPT ![b] = j] /\ OnlyJob
  BY <1>1 DEF ResolveCancel, OnlyJob
<1>4. job[b].kind = "commit" /\ job[b].request \in Requests
  BY <1>1, <1>2, JobFacts DEF LocalInv
<1>5. p = history[Len(history)].parent /\ p \in Tx
  <2>1. history[Len(history)] \in Records
    BY <1>1, <1>2, RecordAt
  <2>2. p = history[Len(history)].parent
    BY <1>2 DEF Latest
  <2> QED BY <1>2, <2>1, <2>2 DEF Records
<1> HIDE DEF p
<1>6. /\ j \in Jobs /\ j.kind = "commit" /\ j.phase = "parent" /\ j.parent = p
      /\ j.request = job[b].request /\ j.base = job[b].base
  BY <1>1, <1>4, <1>5 DEF Jobs
<1> HIDE DEF j
<1>7. SnapInv(history, snap[b], fenced[b], j)
  BY <1>1, <1>2, <1>4, <1>6 DEF LocalInv, SnapInv, Running
<1>8. PhaseInv(j)
  BY <1>4, <1>6 DEF PhaseInv
<1>9. BaseInv(history, snap[b], j)
  BY <1>1, <1>2, <1>4, <1>6 DEF LocalInv, BaseInv, Building
<1>10. RequestInv(history, j)
  BY <1>1, <1>2, <1>4, <1>6 DEF LocalInv, RequestInv
<1>11. ParentInv(history, timer[b], j)
  BY <1>2, <1>5, <1>6 DEF ParentInv
<1>12. LocalInv(history, snap[b], fenced[b], timer[b], j)
  BY <1>6, <1>7, <1>8, <1>9, <1>10, <1>11 DEF LocalInv, AppendInv, ClearInv
<1> QED BY <1>3, <1>6, <1>12, JobStep

LEMMA ParentFound ==
  ASSUME Inv, NEW b \in Buses, job[b].phase = "parent", ParentConfig(b) # None
  PROVE  /\ ParentConfig(b) \in Configs
         /\ LatestTx(history) = job[b].base.tx =>
              /\ Len(history) > 1
              /\ ParentConfig(b) = history[Len(history) - 1].config
              /\ ~history[Len(history) - 1].pending
<1> DEFINE target == [kind |-> "tx", tx |-> job[b].parent]
           stored == LoadRollback(history, target)
<1>1. stored # None /\ ParentConfig(b) = stored.config
  BY DEF ParentConfig
<1>2. LocalInv(history, snap[b], fenced[b], timer[b], job[b])
      /\ HistoryInv(history) /\ history \in Seq(Records)
  BY BusFacts
<1>3. PICK i \in 1..Len(history) : /\ stored = history[i] /\ ~history[i].pending
                                   /\ history[i].tx = job[b].parent
  BY <1>1, <1>2, RollbackFound
<1>4. history[i].config \in Configs
  <2>1. history[i] \in Records
    BY <1>2, RecordAt
  <2> QED BY <2>1 DEF Records
<1> HIDE DEF stored
<1>5. ASSUME LatestTx(history) = job[b].base.tx
      PROVE  Len(history) > 1 /\ i = Len(history) - 1
  <2> DEFINE n == Len(history)
  <2>1. job[b].base.tx # None
    BY <1>2, NoneFacts DEF LocalInv, BaseInv, Building, Heads
  <2>2. n \in Nat /\ n \in 1..n /\ history # <<>>
    BY <1>2, <1>5, <2>1, RecordAt DEF LatestTx
  <2>3. history[n].parent = job[b].parent /\ job[b].parent # None
    BY <1>2, <1>5 DEF LocalInv, ParentInv
  <2>4. history[n].parent = IF n = 1 THEN None ELSE history[n - 1].tx
    BY <1>2, <2>2 DEF HistoryInv, Chained
  <2>5. n > 1 /\ n - 1 \in 1..n /\ history[n - 1].tx = history[i].tx
    <3> HIDE DEF n
    <3>1. n # 1
      BY <2>3, <2>4
    <3> QED BY <1>3, <2>2, <2>3, <2>4, <3>1
  <2>6. n - 1 = i
    BY <1>2, <2>5 DEF HistoryInv, Chained
  <2> QED BY <2>5, <2>6
<1> QED BY <1>1, <1>3, <1>4, <1>5

LEMMA RollbackWriteInv ==
  ASSUME Inv, NEW b \in Buses, job[b].phase = "parent", NEW config,
         config = ParentConfig(b), config # None,
         NEW w, w = RollbackWrite(b, config)
  PROVE  /\ WriteInv(history, w) /\ w.record.marked
         /\ job[b].kind = "expiry" => w.record.version = snap[b].version + 1
<1>1. job[b].base \in Heads /\ Known(history, job[b].base.tx)
      /\ (job[b].kind = "expiry" => job[b].base = HeadOf(snap[b]))
  BY BusFacts DEF LocalInv, BaseInv, Building
<1>2. job[b].base.tx \in Tx /\ job[b].base.version \in Nat
  BY <1>1 DEF Heads
<1>3. /\ config \in Configs
      /\ LatestTx(history) = job[b].base.tx =>
           /\ Len(history) > 1
           /\ config = history[Len(history) - 1].config
           /\ ~history[Len(history) - 1].pending
  BY ParentFound
<1>4. /\ w.record.parent = job[b].base.tx /\ w.record.config = config
      /\ w.record.version = job[b].base.version + 1 /\ w.record.key = None
      /\ w.record.request = None /\ w.record.marked
      /\ w.decision = [kind |-> "rollback", tx |-> job[b].base.tx]
  BY DEF RollbackWrite
<1>5. w.decision \in Decisions /\ w.decision # None /\ w.decision.kind = "rollback"
  <2>1. w.decision \in Decisions /\ w.decision.kind = "rollback"
    BY <1>2, <1>4 DEF Decisions
  <2> QED BY <2>1, NoneFacts
<1>6. w \in Writes
  <2>1. w.record \in Records
    BY <1>2, <1>3 DEF RollbackWrite, Records, Tx, Unstamped
  <2>2. w = [record |-> w.record, decision |-> w.decision]
    BY DEF RollbackWrite
  <2> QED BY <1>5, <2>1, <2>2 DEF Writes
<1>7. Mode(w.record) = "automatic"
  BY <1>4 DEF Mode
<1>8. OnlyRollbacksTarget(w.record) /\ DecisionFits(w)
  BY <1>4, <1>5, <1>7 DEF OnlyRollbacksTarget, DecisionFits
<1>9. ASSUME LatestTx(history) = w.record.parent PROVE Continues(history, w)
  <2>1. history # <<>>
    BY <1>2, <1>4, <1>9, NoneFacts DEF LatestTx
  <2>2. FreshKey(history, w.record.key)
    BY <1>4 DEF FreshKey
  <2> QED BY <1>3, <1>4, <1>5, <1>7, <1>9, <2>1, <2>2 DEF Continues
<1>10. job[b].kind = "expiry" => w.record.version = snap[b].version + 1
  BY <1>1, <1>4 DEF HeadOf
<1> QED BY <1>1, <1>4, <1>6, <1>8, <1>9, <1>10 DEF WriteInv

LEMMA LoadParentInv ==
  ASSUME Inv, NEW b \in Buses, LoadParent(b)
  PROVE  Inv'
<1>1. job[b].phase = "parent"
  BY DEF LoadParent
<1>2. LocalInv(history, snap[b], fenced[b], timer[b], job[b])
      /\ job[b].kind \in {"commit", "expiry", "restore"}
  BY <1>1, BusFacts, JobFacts DEF LocalInv
<1>3. PICK config : config = ParentConfig(b)
  OBVIOUS
<1>4. CASE /\ config # None /\ job[b].kind = "commit"
           /\ Prepared(b, CommitWrite(b, config))
  <2>1. PICK w : w = CommitWrite(b, config)
    OBVIOUS
  <2>2. job[b].request.mode = "cancelConfirmed" /\ timer[b] # None
    BY <1>1, <1>2, <1>4 DEF LocalInv, ParentInv
  <2>3. WriteInv(history, w) /\ Serves(w.record, job[b].request)
        /\ w.record.version = snap[b].version + 1
    BY <1>1, <1>3, <1>4, <2>1, <2>2, ParentFound, CommitWriteInv
  <2> QED BY <1>1, <1>4, <2>1, <2>3, PreparedInv
<1>5. CASE /\ config # None /\ job[b].kind # "commit"
           /\ Prepared(b, RollbackWrite(b, config))
  <2>1. PICK w : w = RollbackWrite(b, config)
    OBVIOUS
  <2>2. /\ WriteInv(history, w) /\ w.record.marked
        /\ job[b].kind = "expiry" => w.record.version = snap[b].version + 1
    BY <1>1, <1>3, <1>5, <2>1, RollbackWriteInv
  <2> QED BY <1>1, <1>2, <1>5, <2>1, <2>2, PreparedInv
<1>6. CASE /\ Stops(b) /\ (faults' = faults \/ Fault)
           /\ UNCHANGED <<history, limbo, due, nextTx, snap, answers, submits,
                          crashes>>
  <2>1. SharedStep
    BY <1>6, SharedUnchanged DEF Inv, TypeOK, Fault
  <2> QED BY <1>1, <1>6, <2>1, StopsInv
<1> QED BY <1>3, <1>4, <1>5, <1>6 DEF LoadParent

-----------------------------------------------------------------------------
(* Appends.                                                                *)

LEMMA StampedWrite ==
  ASSUME NEW w, nextTx \in Nat, WriteInv(history, w), NEW sw, sw = Stamped(w)
  PROVE  /\ WriteInv(history, sw) /\ sw.decision = w.decision
         /\ sw.record \in Records /\ sw.record.tx = nextTx
         /\ sw.record.version = w.record.version /\ sw.record.parent = w.record.parent
         /\ sw.record.config = w.record.config /\ sw.record.key = w.record.key
         /\ sw.record.id = w.record.id /\ sw.record.request = w.record.request
         /\ sw.record.marked = w.record.marked
<1>1. w \in Writes
  BY DEF WriteInv
<1>2. /\ sw \in Writes /\ sw.decision = w.decision /\ sw.record \in Records
      /\ sw.record.tx = nextTx
      /\ sw.record.version = w.record.version /\ sw.record.parent = w.record.parent
      /\ sw.record.config = w.record.config /\ sw.record.key = w.record.key
      /\ sw.record.id = w.record.id /\ sw.record.request = w.record.request
      /\ sw.record.marked = w.record.marked
  BY <1>1 DEF Stamped, Writes, Records, Tx
<1>3. OnlyRollbacksTarget(sw.record) /\ DecisionFits(sw)
      /\ Known(history, sw.record.parent)
  BY <1>2 DEF WriteInv, OnlyRollbacksTarget, DecisionFits, Mode
<1>4. LatestTx(history) = sw.record.parent => Continues(history, sw)
  BY <1>2 DEF WriteInv, Continues, Mode
<1> QED BY <1>2, <1>3, <1>4 DEF WriteInv

LEMMA StartsInv ==
  ASSUME Inv, SharedStep, NEW b \in Buses, NEW r \in Records, Starts(b, r),
         \E i \in 1..Len(history') : Shows(r, history'[i]) /\ ~history'[i].marked
  PROVE  Inv'
<1>1. PICK s : s = [tx |-> r.tx, version |-> r.version, config |-> r.config]
  OBVIOUS
<1>2. PICK t : t = IF r.pending THEN r.tx ELSE None
  OBVIOUS
<1>3. s \in Snapshots /\ t \in Tx \cup {None} /\ FALSE \in BOOLEAN
  BY <1>1, <1>2 DEF Snapshots, Records
<1>4. snap' = [snap EXCEPT ![b] = s] /\ fenced' = [fenced EXCEPT ![b] = FALSE]
      /\ timer' = [timer EXCEPT ![b] = t] /\ job' = [job EXCEPT ![b] = NoJob]
  BY <1>1, <1>2 DEF Starts
<1>5. SnapInv(history', s, FALSE, NoJob)
  BY <1>1 DEF SnapInv, Shows
<1>6. LocalInv(history', s, FALSE, t, NoJob) /\ NoJob \in Jobs
  BY <1>5, Resting
<1> QED BY <1>3, <1>4, <1>6, BusStep

(* What an accepted append of a worker's write leaves behind. *)
LEMMA AppendedFacts ==
  ASSUME Inv, NEW w, WriteInv(history, w), Accepts(history, w),
         history' = Applied(history, w)
  PROVE  /\ HistoryInv(history') /\ Grows(history, history')
         /\ Len(history') \in 1..Len(history')
         /\ Len(history') = Len(history) + 1
         /\ history'[Len(history')] = w.record
         /\ \A b \in Buses : snap[b].version <= w.record.version
<1>1. HistoryInv(history)
  BY DEF Inv
<1>2. /\ HistoryInv(history') /\ Grows(history, history')
      /\ Len(history') = Len(history) + 1 /\ history'[Len(history')] = w.record
  BY <1>1, AppliedKeeps
<1>3. Len(history) \in Nat
  BY <1>1, RecordAt DEF HistoryInv
<1>4. Len(history') \in 1..Len(history')
  BY <1>2, <1>3
<1>5. w.record.version = Len(history)
  <2>1. history'[Len(history')].version = Len(history') - 1
    BY <1>2, <1>4 DEF HistoryInv, Chained
  <2> QED BY <1>2, <1>3, <2>1
<1>6. ASSUME NEW b \in Buses PROVE snap[b].version <= w.record.version
  <2>1. SnapInv(history, snap[b], fenced[b], job[b])
    BY BusFacts DEF LocalInv
  <2>2. CASE snap[b] = NeverSeen
    BY <1>3, <1>5, <2>2 DEF NeverSeen
  <2>3. CASE \E i \in 1..Len(history) : Shows(snap[b], history[i])
    <3>1. PICK i \in 1..Len(history) : Shows(snap[b], history[i])
      BY <2>3
    <3>2. snap[b].version = i - 1
      BY <1>1, <3>1 DEF HistoryInv, Chained, Shows
    <3> QED BY <1>3, <1>5, <3>2
  <2> QED BY <2>1, <2>2, <2>3 DEF SnapInv
<1> QED BY <1>2, <1>4, <1>6

LEMMA PersistInv ==
  ASSUME Inv, NEW b \in Buses, Persist(b)
  PROVE  Inv'
<1>1. PICK w : w = Stamped(job[b].write)
  OBVIOUS
<1>2. /\ job[b].phase = "append" /\ Accepts(history, w)
      /\ history' = Applied(history, w) /\ nextTx' = nextTx + 1
      /\ UNCHANGED <<limbo, due, answers, submits, faults, crashes>>
  BY <1>1 DEF Persist
<1>3. LocalInv(history, snap[b], fenced[b], timer[b], job[b]) /\ job[b] \in Jobs
      /\ job \in [Buses -> Jobs] /\ snap[b] \in Snapshots /\ fenced[b] \in BOOLEAN
      /\ timer[b] \in Tx \cup {None}
  BY BusFacts DEF Inv, TypeOK
<1>4. /\ job[b].kind \in {"commit", "expiry", "restore"}
      /\ job[b].kind = "commit" => job[b].request \in Requests
      /\ AppendInv(history, snap[b], job[b])
      /\ SnapInv(history, snap[b], fenced[b], job[b])
  BY <1>2, <1>3, JobFacts DEF LocalInv
<1>5. /\ WriteInv(history, w)
      /\ w.record \in Records
      /\ job[b].kind = "commit" => Serves(w.record, job[b].request)
  <2>1. /\ WriteInv(history, job[b].write)
        /\ job[b].kind = "commit" => Serves(job[b].write.record, job[b].request)
    BY <1>2, <1>4 DEF AppendInv
  <2>2. nextTx \in Nat
    BY DEF Inv, TypeOK
  <2> QED BY <1>1, <2>1, <2>2, StampedWrite DEF Serves
<1>6. /\ HistoryInv(history') /\ Grows(history, history')
      /\ Len(history') \in 1..Len(history')
      /\ history'[Len(history')] = w.record
      /\ snap[b].version <= w.record.version
  BY <1>2, <1>5, AppendedFacts
<1>7. SharedStep
  <2>1. Counted'
    BY <1>2 DEF Inv, TypeOK, Counted
  <2> QED BY <1>2, <1>6, <2>1 DEF SharedStep
<1>8. CASE job[b].kind = "restore" /\ ~w.record.marked
  <2>1. Starts(b, w.record)
    BY <1>1, <1>8 DEF Persist
  <2>2. \E i \in 1..Len(history') : Shows(w.record, history'[i])
                                    /\ ~history'[i].marked
    BY <1>6, <1>8 DEF Shows
  <2> QED BY <1>5, <1>7, <2>1, <2>2, StartsInv
<1> DEFINE j == [job[b] EXCEPT !.phase = "clear", !.write = w]
<1>9. w \in Writes /\ w # None
  BY <1>5, NoneFacts DEF WriteInv
<1>10. /\ j \in Jobs /\ j.kind = job[b].kind /\ j.phase = "clear" /\ j.write = w
       /\ j.request = job[b].request
  BY <1>3, <1>9 DEF Jobs
<1>11. PhaseInv(j)
  <2> HIDE DEF j
  <2> QED BY <1>4, <1>10 DEF PhaseInv
<1>12. \A s : BaseInv(history', s, j) /\ RequestInv(history', j)
              /\ ParentInv(history', timer[b], j) /\ AppendInv(history', s, j)
  <2> HIDE DEF j
  <2> QED BY <1>4, <1>10 DEF BaseInv, Building, RequestInv, ParentInv, AppendInv
<1>13. \E i \in 1..Len(history') : SameRecord(history'[i], w.record)
  BY <1>6 DEF SameRecord
<1>14. CASE job[b].kind = "restore" /\ w.record.marked
  <2>1. job' = [job EXCEPT ![b] = j] /\ UNCHANGED <<snap, fenced, timer>>
    BY <1>1, <1>3, <1>14 DEF Persist
  <2>2. /\ snap' = [snap EXCEPT ![b] = snap[b]]
        /\ fenced' = [fenced EXCEPT ![b] = fenced[b]]
        /\ timer' = [timer EXCEPT ![b] = timer[b]]
    BY <2>1, BusFacts
  <2> HIDE DEF j
  <2>3. SnapInv(history', snap[b], fenced[b], j)
    <3>1. SnapInv(history', snap[b], fenced[b], job[b])
      BY <1>7, SharedInv DEF LocalInv
    <3> QED BY <1>10, <1>14, <3>1 DEF SnapInv, Running
  <2>4. w.record.version >= snap[b].version
    <3>1. w.record.version \in Nat
      BY <1>5 DEF Records
    <3>2. snap[b].version \in Nat
      BY <1>3 DEF Snapshots, NeverSeen
    <3> QED BY <1>6, <3>1, <3>2
  <2>5. ClearInv(history', snap[b], j)
    BY <1>5, <1>9, <1>10, <1>13, <1>14, <2>4 DEF ClearInv
  <2>6. LocalInv(history', snap[b], fenced[b], timer[b], j)
    BY <1>11, <1>12, <2>3, <2>5 DEF LocalInv
  <2> QED BY <1>3, <1>7, <1>10, <2>1, <2>2, <2>6, BusStep
<1>15. CASE job[b].kind # "restore"
  <2>1. PICK s : s = [tx |-> w.record.tx, version |-> w.record.version,
                      config |-> w.record.config]
    OBVIOUS
  <2>2. /\ job' = [job EXCEPT ![b] = j] /\ UNCHANGED <<fenced, timer>>
        /\ snap' = [snap EXCEPT ![b] = s]
    BY <1>1, <1>3, <1>15, <2>1 DEF Persist
  <2>3. /\ fenced' = [fenced EXCEPT ![b] = fenced[b]]
        /\ timer' = [timer EXCEPT ![b] = timer[b]]
    BY <2>2, BusFacts
  <2>4. s \in Snapshots /\ Shows(s, w.record)
    BY <1>5, <2>1 DEF Snapshots, Records, Shows
  <2> HIDE DEF j
  <2>5. SnapInv(history', s, fenced[b], j)
    BY <1>6, <1>10, <2>4 DEF SnapInv, Shows
  <2>6. ClearInv(history', s, j)
    BY <1>5, <1>9, <1>10, <1>13, <1>15, <2>4 DEF ClearInv
  <2>7. LocalInv(history', s, fenced[b], timer[b], j)
    BY <1>11, <1>12, <2>5, <2>6 DEF LocalInv
  <2> QED BY <1>3, <1>7, <1>10, <2>2, <2>3, <2>4, <2>7, BusStep
<1> QED BY <1>4, <1>8, <1>14, <1>15

LEMMA PersistRefusedInv ==
  ASSUME Inv, NEW b \in Buses, PersistRefused(b)
  PROVE  Inv'
<1>1. /\ job[b].phase = "append" /\ (faults' = faults \/ Fault)
      /\ UNCHANGED <<history, limbo, due, nextTx, snap, answers, submits, crashes>>
  BY DEF PersistRefused
<1>2. SharedStep
  BY <1>1, SharedUnchanged DEF Inv, TypeOK, Fault
<1>3. CASE job[b].kind # "commit" /\ Stops(b)
  BY <1>1, <1>2, <1>3, StopsInv
<1>4. CASE /\ job[b].kind = "commit" /\ UNCHANGED <<fenced, timer>>
           /\ job' = [job EXCEPT ![b].phase = "relookup"]
  <2> DEFINE j == [job[b] EXCEPT !.phase = "relookup"]
  <2>1. LocalInv(history, snap[b], fenced[b], timer[b], job[b]) /\ job[b] \in Jobs
    BY BusFacts
  <2>2. job[b].request \in Requests
    BY <1>4, <2>1, JobFacts DEF LocalInv
  <2>3. /\ j \in Jobs /\ j.kind = "commit" /\ j.phase = "relookup"
        /\ j.request = job[b].request /\ j.base = job[b].base
        /\ job' = [job EXCEPT ![b] = j]
    BY <1>4, <2>1 DEF Jobs
  <2> HIDE DEF j
  <2>4. SnapInv(history, snap[b], fenced[b], j)
    BY <1>1, <1>4, <2>1, <2>3 DEF LocalInv, SnapInv, Running
  <2>5. PhaseInv(j)
    BY <2>2, <2>3 DEF PhaseInv
  <2>6. BaseInv(history, snap[b], j)
    BY <1>1, <1>4, <2>1, <2>3 DEF LocalInv, BaseInv, Building
  <2>7. LocalInv(history, snap[b], fenced[b], timer[b], j)
    BY <2>3, <2>4, <2>5, <2>6
       DEF LocalInv, RequestInv, ParentInv, AppendInv, ClearInv
  <2>8. PICK s \in Snapshots, f \in BOOLEAN, t \in Tx \cup {None} :
          /\ snap' = [snap EXCEPT ![b] = s]
          /\ fenced' = [fenced EXCEPT ![b] = f]
          /\ timer' = [timer EXCEPT ![b] = t]
          /\ LocalInv(history', s, f, t, j)
    BY <1>1, <1>4, <2>7, BusFacts
  <2> QED BY <1>2, <2>3, <2>8, BusStep
<1> QED BY <1>3, <1>4 DEF PersistRefused

LEMMA PersistUnknownInv ==
  ASSUME Inv, NEW b \in Buses, PersistUnknown(b)
  PROVE  Inv'
<1>1. PICK w : w = Stamped(job[b].write)
  OBVIOUS
<1>2. /\ job[b].phase = "append" /\ Fault /\ StopsFenced(b)
      /\ UNCHANGED <<due, snap, answers, submits, crashes>>
      /\ \/ /\ Accepts(history, w) /\ history' = Applied(history, w)
            /\ limbo' = limbo
         \/ limbo' = limbo \cup {w} /\ history' = history
         \/ history' = history /\ limbo' = limbo
      /\ nextTx' \in {nextTx, nextTx + 1}
  BY <1>1 DEF PersistUnknown, UnknownEnds
<1>3. WriteInv(history, w)
  <2>1. WriteInv(history, job[b].write)
    BY <1>2, BusFacts DEF LocalInv, AppendInv
  <2>2. nextTx \in Nat
    BY DEF Inv, TypeOK
  <2> QED BY <1>1, <2>1, <2>2, StampedWrite
<1>4. HistoryInv(history') /\ Grows(history, history')
  BY <1>2, <1>3, AppendedFacts, GrowsReflexive DEF Inv
<1>5. Counted'
  BY <1>2 DEF Inv, TypeOK, Counted, Fault
<1>6. \A x \in limbo' : x \in limbo \/ WriteInv(history', x)
  BY <1>2, <1>3
<1>7. SharedStep
  BY <1>2, <1>4, <1>5, <1>6 DEF SharedStep
<1> QED BY <1>2, <1>7, StopsInv

(* Nothing happens to any bus. *)
LEMMA SharedOnly ==
  ASSUME Inv, SharedStep, UNCHANGED <<snap, fenced, timer, job>>
  PROVE  Inv'
<1>1. TypeOK'
  BY SharedInv DEF Inv, TypeOK, SharedStep, Counted
<1>2. \A b \in Buses : BusInv(b)'
  BY SharedInv DEF BusInv
<1> QED BY <1>1, <1>2, SharedInv DEF Inv, SharedStep

LEMMA LandInv ==
  ASSUME Inv, NEW w \in limbo, Land(w)
  PROVE  Inv'
<1>1. WriteInv(history, w) /\ HistoryInv(history)
  BY DEF Inv
<1>2. HistoryInv(history') /\ Grows(history, history')
  BY <1>1, AppendedFacts, GrowsReflexive DEF Land
<1>3. Counted'
  BY DEF Land, Inv, TypeOK, Counted
<1>4. SharedStep
  BY <1>2, <1>3 DEF SharedStep, Land
<1> QED BY <1>4, SharedOnly DEF Land

LEMMA DeadlineInv ==
  ASSUME Inv, NEW i \in 1..Len(history), DeadlinePasses(history[i].tx)
  PROVE  Inv'
<1>1. history[i].tx \in Tx /\ HistoryInv(history)
  BY RecordAt DEF Inv, HistoryInv, Tx
<1>2. Counted'
  BY <1>1 DEF DeadlinePasses, Inv, TypeOK, Counted
<1>3. SharedStep
  BY <1>1, <1>2, GrowsReflexive DEF SharedStep, DeadlinePasses
<1> QED BY <1>3, SharedOnly DEF DeadlinePasses

-----------------------------------------------------------------------------
(* Clearing the marker, deadlines, rebuilds, crashes and restores.         *)

LEMMA ClearActionInv ==
  ASSUME Inv, NEW b \in Buses, Clear(b)
  PROVE  Inv'
<1>1. PICK r : r = job[b].write.record
  OBVIOUS
<1>2. /\ job[b].phase = "clear"
      /\ UNCHANGED <<limbo, due, nextTx, submits, crashes>>
      /\ \/ history' = Cleared(history, r.tx) /\ faults' = faults
         \/ Fault /\ history' \in {history, Cleared(history, r.tx)}
  BY <1>1 DEF Clear
<1>3. LocalInv(history, snap[b], fenced[b], timer[b], job[b]) /\ job[b] \in Jobs
      /\ HistoryInv(history)
  BY BusFacts
<1>4. job[b].kind = "commit" => job[b].request \in Requests
  BY <1>3, JobFacts DEF LocalInv
<1>5. /\ r \in Records
      /\ \E i \in 1..Len(history) : SameRecord(history[i], r)
      /\ job[b].kind = "commit" => Serves(r, job[b].request)
      /\ job[b].kind # "restore" => Shows(snap[b], r)
  <2>1. ClearInv(history, snap[b], job[b])
    BY <1>3 DEF LocalInv
  <2>2. job[b].write \in Writes
    BY <1>2, <1>3, <2>1 DEF ClearInv, Jobs
  <2> QED BY <1>1, <1>2, <2>1, <2>2 DEF ClearInv, Writes
<1>6. HistoryInv(history') /\ Grows(history, history')
  BY <1>2, <1>3, ClearedKeeps, GrowsReflexive
<1>7. PICK i \in 1..Len(history') :
        /\ SameRecord(history'[i], r)
        /\ history' = Cleared(history, r.tx) => ~history'[i].marked
  <2>1. PICK i \in 1..Len(history) : SameRecord(history[i], r)
    BY <1>5
  <2>2. i \in 1..Len(history') /\ SameRecord(history'[i], history[i])
    <3>1. Len(history) \in Nat /\ Len(history') \in Nat
      BY <1>3, <1>6, RecordAt DEF HistoryInv
    <3> QED BY <1>6, <3>1 DEF Grows
  <2>3. SameRecord(history'[i], r)
    BY <2>1, <2>2 DEF SameRecord
  <2>4. history' = Cleared(history, r.tx) => ~history'[i].marked
    BY <1>3, <2>2, <2>3, ClearedKeeps DEF SameRecord
  <2> QED BY <2>2, <2>3, <2>4
<1>8. Counted'
  BY <1>2 DEF Inv, TypeOK, Counted, Fault
<1>9. CASE job[b].kind = "restore"
  <2>1. answers' = answers
    BY <1>9 DEF Clear
  <2>2. SharedStep
    BY <1>2, <1>6, <1>8, <2>1 DEF SharedStep
  <2>3. CASE history' = Cleared(history, r.tx) /\ Starts(b, r)
    BY <1>5, <1>7, <2>2, <2>3, StartsInv DEF Shows, SameRecord
  <2>4. CASE Stops(b) /\ snap' = snap
    BY <1>2, <1>9, <2>2, <2>4, StopsInv
  <2> QED BY <1>1, <1>9, <2>3, <2>4 DEF Clear
<1>10. CASE job[b].kind # "restore"
  <2>1. PICK t : t = TimerAfter(b)
    OBVIOUS
  <2>2. PICK f \in BOOLEAN : /\ fenced' = [fenced EXCEPT ![b] = f]
                             /\ f \/ history' = Cleared(history, r.tx)
    BY <1>1, <1>10, BusFacts DEF Clear
  <2>3. /\ timer' = [timer EXCEPT ![b] = t] /\ job' = [job EXCEPT ![b] = NoJob]
        /\ snap' = snap
        /\ \/ answers' = answers
           \/ /\ job[b].kind = "commit"
              /\ answers' = answers \cup {[request |-> job[b].request, tx |-> r.tx]}
    BY <1>1, <1>10, <2>1 DEF Clear, Answer
  <2>4. t \in Tx \cup {None} /\ snap[b] \in Snapshots
        /\ snap' = [snap EXCEPT ![b] = snap[b]]
    BY <1>1, <1>5, <2>1, <2>3, BusFacts DEF TimerAfter, Records
  <2>5. SharedStep
    <3>1. ASSUME job[b].kind = "commit"
          PROVE  /\ [request |-> job[b].request, tx |-> r.tx]
                      \in [request : Requests, tx : Tx]
                 /\ Answered(history', [request |-> job[b].request, tx |-> r.tx])
      <4>1. Serves(history'[i], job[b].request) /\ history'[i].tx = r.tx
        BY <1>5, <1>7, <3>1 DEF Serves, SameRecord
      <4> QED BY <1>4, <1>5, <3>1, <4>1 DEF Answered, Records
    <3> QED BY <1>2, <1>6, <1>8, <2>3, <3>1 DEF SharedStep
  <2>6. SnapInv(history', snap[b], f, NoJob)
    <3>1. Shows(snap[b], history'[i]) /\ (history'[i].marked => f)
      BY <1>5, <1>7, <1>10, <2>2 DEF Shows, SameRecord
    <3> QED BY <3>1 DEF SnapInv
  <2>7. LocalInv(history', snap[b], f, t, NoJob) /\ NoJob \in Jobs
    BY <2>6, Resting
  <2> QED BY <2>2, <2>3, <2>4, <2>5, <2>7, BusStep
<1> QED BY <1>9, <1>10

LEMMA ExpireInv ==
  ASSUME Inv, NEW b \in Buses, Expire(b)
  PROVE  Inv'
<1> DEFINE j == [NoJob EXCEPT !.kind = "expiry", !.phase = "parent",
                              !.base = HeadOf(snap[b]),
                              !.parent = Latest(history).parent]
<1>1. /\ job[b] = NoJob
      /\ UNCHANGED <<history, limbo, due, nextTx, snap, answers, submits, crashes>>
      /\ \/ /\ ExpiryCurrent(b) /\ job' = [job EXCEPT ![b] = j]
            /\ UNCHANGED <<fenced, timer, faults>>
         \/ /\ faults' = faults \/ Fault
            /\ fenced' = [fenced EXCEPT ![b] = TRUE]
            /\ timer' = [timer EXCEPT ![b] = None]
            /\ job' = job
  BY DEF Expire, Idle
<1>2. SnapInv(history, snap[b], fenced[b], NoJob) /\ history \in Seq(Records)
      /\ HistoryInv(history) /\ snap[b] \in Snapshots
  BY <1>1, BusFacts DEF LocalInv
<1>3. PICK i \in 1..Len(history) : /\ Shows(snap[b], history[i])
                                   /\ history[i].marked => fenced[b]
  BY <1>2 DEF SnapInv, Running, NoJob
<1>4. CASE /\ ExpiryCurrent(b) /\ job' = [job EXCEPT ![b] = j]
           /\ UNCHANGED <<fenced, timer, faults>>
  <2>1. HeadOf(snap[b]) \in Heads /\ Known(history, HeadOf(snap[b]).tx)
    <3>1. history[i].tx \in Nat /\ history[i].version \in Nat
      BY <1>2, RecordAt
    <3> QED BY <1>3, <3>1 DEF HeadOf, Heads, Tx, Shows, Known
  <2>2. /\ history # <<>> /\ Latest(history) = history[Len(history)]
        /\ Latest(history).parent # None /\ Latest(history).parent \in Tx
    <3>1. history # <<>> /\ Latest(history).parent # None
          /\ Latest(history) = history[Len(history)]
      BY <1>4 DEF ExpiryCurrent, Latest
    <3>2. history[Len(history)] \in Records
      BY <1>2, <3>1, RecordAt
    <3> QED BY <3>1, <3>2 DEF Records
  <2>3. /\ j \in Jobs /\ j.kind = "expiry" /\ j.phase = "parent"
        /\ j.base = HeadOf(snap[b]) /\ j.parent = Latest(history).parent
    BY <2>1, <2>2 DEF NoJob, Jobs, Heads
  <2> HIDE DEF j
  <2>4. SnapInv(history, snap[b], fenced[b], j)
    BY <1>3 DEF SnapInv
  <2>5. PhaseInv(j)
    BY <2>3 DEF PhaseInv
  <2>6. BaseInv(history, snap[b], j)
    BY <2>1, <2>3 DEF BaseInv
  <2>7. ParentInv(history, timer[b], j)
    BY <2>2, <2>3 DEF ParentInv
  <2>8. LocalInv(history, snap[b], fenced[b], timer[b], j)
    BY <2>3, <2>4, <2>5, <2>6, <2>7 DEF LocalInv, RequestInv, AppendInv, ClearInv
  <2>9. OnlyJob
    BY <1>1, <1>4 DEF OnlyJob
  <2> QED BY <1>4, <2>3, <2>8, <2>9, JobStep
<1>5. CASE /\ faults' = faults \/ Fault
           /\ fenced' = [fenced EXCEPT ![b] = TRUE]
           /\ timer' = [timer EXCEPT ![b] = None]
           /\ job' = job
  <2>1. SharedStep
    BY <1>1, <1>5, SharedUnchanged DEF Inv, TypeOK, Fault
  <2>2. SnapInv(history', snap[b], TRUE, NoJob)
    BY <1>1, <1>3 DEF SnapInv
  <2>3. LocalInv(history', snap[b], TRUE, None, NoJob) /\ NoJob \in Jobs
    BY <2>2, Resting
  <2>4. /\ snap' = [snap EXCEPT ![b] = snap[b]] /\ job' = [job EXCEPT ![b] = NoJob]
        /\ TRUE \in BOOLEAN /\ None \in Tx \cup {None}
    BY <1>1, <1>5, BusFacts
  <2> QED BY <1>2, <1>5, <2>1, <2>3, <2>4, BusStep
<1> QED BY <1>1, <1>4, <1>5

LEMMA ReconcileInv ==
  ASSUME Inv, NEW b \in Buses, Reconcile(b)
  PROVE  Inv'
<1> DEFINE j == [NoJob EXCEPT !.kind = "reconcile", !.phase = "rebuild",
                              !.base = HeadOf(Latest(history))]
<1>1. job[b] = NoJob /\ job' = [job EXCEPT ![b] = j] /\ OnlyJob /\ history # <<>>
  BY DEF Reconcile, Idle, OnlyJob
<1>2. SnapInv(history, snap[b], fenced[b], NoJob) /\ history \in Seq(Records)
  BY <1>1, BusFacts DEF LocalInv
<1>3. HeadOf(Latest(history)) \in Heads
  BY <1>1, <1>2, RecordAt DEF Latest, HeadOf, Heads, Tx
<1>4. j \in Jobs /\ j.kind = "reconcile" /\ j.phase = "rebuild"
  BY <1>3 DEF NoJob, Jobs, Heads
<1> HIDE DEF j
<1>5. SnapInv(history, snap[b], fenced[b], j)
  BY <1>2, <1>4 DEF SnapInv, Running, NoJob
<1>6. PhaseInv(j)
  BY <1>4 DEF PhaseInv
<1>7. LocalInv(history, snap[b], fenced[b], timer[b], j)
  BY <1>4, <1>5, <1>6
     DEF LocalInv, BaseInv, Building, RequestInv, ParentInv, AppendInv, ClearInv
<1> QED BY <1>1, <1>4, <1>7, JobStep

LEMMA RebuildInv ==
  ASSUME Inv, NEW b \in Buses, Rebuild(b)
  PROVE  Inv'
<1>1. PICK stored : stored = CommittedLatest(history)
  OBVIOUS
<1>2. /\ job[b].phase = "rebuild"
      /\ UNCHANGED <<history, limbo, due, nextTx, answers, submits, faults, crashes>>
      /\ \/ stored # None /\ Starts(b, stored)
         \/ job' = [job EXCEPT ![b] = NoJob] /\ UNCHANGED <<snap, fenced, timer>>
  BY <1>1 DEF Rebuild
<1>3. SharedStep
  BY <1>2, SharedUnchanged DEF Inv, TypeOK
<1>4. CASE stored # None /\ Starts(b, stored)
  <2>1. PICK i \in 1..Len(history) : stored = history[i] /\ ~history[i].marked
    BY <1>1, <1>4, BusFacts, CommittedFound
  <2>2. stored \in Records
    BY <2>1, BusFacts, RecordAt
  <2>3. \E k \in 1..Len(history') : Shows(stored, history'[k])
                                    /\ ~history'[k].marked
    BY <1>2, <2>1 DEF Shows
  <2> QED BY <1>3, <1>4, <2>2, <2>3, StartsInv
<1>5. CASE job' = [job EXCEPT ![b] = NoJob] /\ UNCHANGED <<snap, fenced, timer>>
  <2>1. LocalInv(history, snap[b], fenced[b], timer[b], job[b])
        /\ job[b].kind = "reconcile"
    BY <1>2, BusFacts, JobFacts DEF LocalInv
  <2>2. SnapInv(history, snap[b], fenced[b], NoJob)
    BY <1>2, <2>1 DEF LocalInv, SnapInv, Running, NoJob
  <2>3. LocalInv(history, snap[b], fenced[b], timer[b], NoJob) /\ NoJob \in Jobs
    BY <2>2, Resting
  <2>4. OnlyJob
    BY <1>2, <1>5 DEF OnlyJob
  <2> QED BY <1>5, <2>3, <2>4, JobStep
<1> QED BY <1>2, <1>4, <1>5

LEMMA CrashInv ==
  ASSUME Inv, NEW b \in Buses, Crash(b)
  PROVE  Inv'
<1>1. PICK w : w = Stamped(job[b].write)
  OBVIOUS
<1>2. /\ crashes' = crashes + 1 /\ job' = [job EXCEPT ![b] = Down]
      /\ timer' = [timer EXCEPT ![b] = None] /\ fenced' = [fenced EXCEPT ![b] = FALSE]
      /\ UNCHANGED <<history, due, snap, answers, submits, faults>>
      /\ \/ UNCHANGED <<limbo, nextTx>>
         \/ /\ job[b].phase = "append" /\ limbo' = limbo \cup {w}
            /\ nextTx' = nextTx + 1
  BY <1>1 DEF Crash
<1>3. LocalInv(history, snap[b], fenced[b], timer[b], job[b])
      /\ HistoryInv(history) /\ nextTx \in Nat
  BY BusFacts DEF Inv, TypeOK
<1>4. job[b].phase = "append" => WriteInv(history, w)
  BY <1>1, <1>3, StampedWrite DEF LocalInv, AppendInv
<1>5. Counted'
  BY <1>2 DEF Inv, TypeOK, Counted
<1>6. \A x \in limbo' : x \in limbo \/ WriteInv(history', x)
  BY <1>2, <1>4
<1>7. SharedStep
  BY <1>2, <1>3, <1>5, <1>6, GrowsReflexive DEF SharedStep
<1>8. SnapInv(history', snap[b], FALSE, Down)
  BY <1>2, <1>3 DEF LocalInv, SnapInv, Running, Down
<1>9. LocalInv(history', snap[b], FALSE, None, Down) /\ Down \in Jobs
  BY <1>8, Resting
<1>10. /\ snap' = [snap EXCEPT ![b] = snap[b]] /\ snap[b] \in Snapshots
       /\ FALSE \in BOOLEAN /\ None \in Tx \cup {None}
  BY <1>2, BusFacts
<1> QED BY <1>2, <1>7, <1>9, <1>10, BusStep

LEMMA RestoreEmptyInv ==
  ASSUME Inv, NEW b \in Buses, RestoreEmpty(b)
  PROVE  Inv'
<1> DEFINE record == [tx |-> Unstamped, version |-> 0, parent |-> None,
                      config |-> Initial, marked |-> FALSE, pending |-> FALSE,
                      key |-> None, id |-> None, request |-> None]
<1>1. PICK w : w = [record |-> record, decision |-> None]
  OBVIOUS
<1> DEFINE j == [NoJob EXCEPT !.kind = "restore", !.phase = "append", !.write = w]
<1>2. job[b] = Down /\ history = <<>> /\ job' = [job EXCEPT ![b] = j] /\ OnlyJob
  BY <1>1 DEF RestoreEmpty, OnlyJob
<1>3. SnapInv(history, snap[b], fenced[b], Down)
  BY <1>2, BusFacts DEF LocalInv
<1>4. /\ w \in Writes /\ w.decision = None /\ w.record.request = None
      /\ w.record.parent = None /\ w.record.key = None /\ w.record.version = 0
      /\ ~w.record.marked
  <2>1. record \in Records
    BY BusAssumption DEF Records, Tx, Unstamped
  <2> QED BY <1>1, <2>1 DEF Writes
<1>5. j \in Jobs /\ j.kind = "restore" /\ j.phase = "append" /\ j.write = w
  BY <1>4 DEF NoJob, Jobs
<1> HIDE DEF j, record
<1>6. WriteInv(history, w)
  <2>1. OnlyRollbacksTarget(w.record) /\ DecisionFits(w) /\ Known(history, w.record.parent)
    BY <1>4 DEF OnlyRollbacksTarget, DecisionFits, Mode, Known
  <2>2. Continues(history, w)
    BY <1>2, <1>4 DEF Continues, FreshKey
  <2> QED BY <1>4, <2>1, <2>2 DEF WriteInv
<1>7. SnapInv(history, snap[b], fenced[b], j)
  BY <1>3, <1>5 DEF SnapInv, Running, Down
<1>8. PhaseInv(j)
  BY <1>5 DEF PhaseInv
<1>9. AppendInv(history, snap[b], j)
  BY <1>4, <1>5, <1>6 DEF AppendInv
<1>10. LocalInv(history, snap[b], fenced[b], timer[b], j)
  BY <1>5, <1>7, <1>8, <1>9
     DEF LocalInv, BaseInv, Building, RequestInv, ParentInv, ClearInv
<1> QED BY <1>2, <1>5, <1>10, JobStep

LEMMA RestoreHeadInv ==
  ASSUME Inv, NEW b \in Buses, RestoreHead(b)
  PROVE  Inv'
<1>1. PICK r : r = Latest(history)
  OBVIOUS
<1>2. /\ history # <<>> /\ ~r.marked /\ Starts(b, r)
      /\ UNCHANGED <<history, limbo, due, nextTx, answers, submits, faults, crashes>>
  BY <1>1 DEF RestoreHead
<1>3. SharedStep
  BY <1>2, SharedUnchanged DEF Inv, TypeOK
<1>4. Len(history) \in 1..Len(history) /\ r = history[Len(history)] /\ r \in Records
  BY <1>1, <1>2, BusFacts, RecordAt DEF Latest
<1>5. \E i \in 1..Len(history') : Shows(r, history'[i]) /\ ~history'[i].marked
  BY <1>2, <1>4 DEF Shows
<1> QED BY <1>2, <1>3, <1>4, <1>5, StartsInv

LEMMA RestoreExpiredInv ==
  ASSUME Inv, NEW b \in Buses, RestoreExpired(b)
  PROVE  Inv'
<1>1. PICK r : r = Latest(history)
  OBVIOUS
<1> DEFINE j == [NoJob EXCEPT !.kind = "restore", !.phase = "parent",
                              !.base = HeadOf(r), !.parent = r.parent]
<1>2. /\ job[b] = Down /\ history # <<>> /\ r.parent # None
      /\ job' = [job EXCEPT ![b] = j] /\ OnlyJob
  BY <1>1 DEF RestoreExpired, OnlyJob, LatestPending
<1>3. Len(history) \in 1..Len(history) /\ r = history[Len(history)] /\ r \in Records
  BY <1>1, <1>2, BusFacts, RecordAt DEF Latest
<1>4. HeadOf(r) \in Heads /\ Known(history, HeadOf(r).tx) /\ r.parent \in Tx
  BY <1>2, <1>3 DEF HeadOf, Heads, Known, Records
<1>5. /\ j \in Jobs /\ j.kind = "restore" /\ j.phase = "parent"
      /\ j.base = HeadOf(r) /\ j.parent = r.parent
  BY <1>4 DEF NoJob, Jobs, Heads
<1> HIDE DEF j
<1>6. SnapInv(history, snap[b], fenced[b], Down)
  BY <1>2, BusFacts DEF LocalInv
<1>7. SnapInv(history, snap[b], fenced[b], j)
  BY <1>5, <1>6 DEF SnapInv, Running, Down
<1>8. PhaseInv(j)
  BY <1>5 DEF PhaseInv
<1>9. BaseInv(history, snap[b], j)
  BY <1>4, <1>5 DEF BaseInv
<1>10. ParentInv(history, timer[b], j)
  BY <1>2, <1>3, <1>5 DEF ParentInv
<1>11. LocalInv(history, snap[b], fenced[b], timer[b], j)
  BY <1>5, <1>7, <1>8, <1>9, <1>10 DEF LocalInv, RequestInv, AppendInv, ClearInv
<1> QED BY <1>2, <1>5, <1>11, JobStep

LEMMA NextInv ==
  ASSUME Inv, [Next]_vars
  PROVE  Inv'
<1>1. ASSUME NEW b \in Buses, NEW r \in Requests, Take(b, r) PROVE Inv'
  BY <1>1, TakeInv
<1>2. ASSUME NEW b \in Buses, WorkerStep(b) PROVE Inv'
  BY <1>2, ReplayInv, ProceedInv, RefuseInv, ResolveGivenInv, ResolveRollbackInv,
     ResolveCancelInv, LoadParentInv, PersistInv, PersistRefusedInv,
     PersistUnknownInv, RelookupInv, ClearActionInv, ExpireInv, RebuildInv
     DEF WorkerStep
<1>3. ASSUME NEW b \in Buses, Panic(b) \/ Reconcile(b) \/ Crash(b) PROVE Inv'
  BY <1>3, RefuseInv, ReconcileInv, CrashInv
<1>4. ASSUME NEW b \in Buses, RestoreStep(b) PROVE Inv'
  BY <1>4, RestoreEmptyInv, RestoreHeadInv, RestoreExpiredInv DEF RestoreStep
<1>5. ASSUME NEW w \in limbo, Land(w) PROVE Inv'
  BY <1>5, LandInv
<1>6. ASSUME NEW i \in 1..Len(history), DeadlinePasses(history[i].tx) PROVE Inv'
  BY <1>6, DeadlineInv
<1>7. CASE UNCHANGED vars
  <2>1. /\ UNCHANGED <<history, limbo, due, nextTx, answers>>
        /\ UNCHANGED <<submits, faults, crashes>>
        /\ UNCHANGED <<snap, fenced, timer, job>>
    BY <1>7 DEF vars
  <2>2. SharedStep
    BY <2>1, SharedUnchanged DEF Inv, TypeOK
  <2> QED BY <2>1, <2>2, SharedOnly
<1> QED BY <1>1, <1>2, <1>3, <1>4, <1>5, <1>6, <1>7 DEF Next

-----------------------------------------------------------------------------
(* What the invariant gives for every instance.                            *)

(* The datastore's history, the appends on their way and the jobs of all   *)
(* buses stay related as Inv says.                                         *)
THEOREM Invariance == Spec => []Inv
<1>1. Inv /\ [Next]_vars => Inv'
  BY NextInv
<1> QED BY <1>1, InitInv, PTL DEF Spec

(* Every variable keeps the shape of the state it stands for. *)
THEOREM TypeCorrect == Spec => []TypeOK
<1>1. Inv => TypeOK
  BY DEF Inv
<1> QED BY <1>1, Invariance, PTL

(* A retry key yields one record, although workers look it up in one await *)
(* and append in another and a lost append may land after its retry.       *)
THEOREM KeysYieldOneRecord == Spec => []OneRecordPerKey
<1>1. Inv => OneRecordPerKey
  BY DEF Inv, HistoryInv, KeysUnique, OneRecordPerKey
<1> QED BY <1>1, Invariance, PTL

(* Every success names a durable record of that very request, and all      *)
(* successes of a keyed request name the same transaction, whichever bus   *)
(* answered and however.                                                   *)
THEOREM SuccessesAgree == Spec => []AnswersAgree
<1>1. ASSUME Inv PROVE AnswersAgree
  <2> SUFFICES ASSUME NEW a \in answers
               PROVE  /\ \E i \in 1..Len(history) :
                           history[i].tx = a.tx /\ Serves(history[i], a.request)
                      /\ \A c \in answers :
                           a.request = c.request /\ a.request.key # None => a.tx = c.tx
    BY DEF AnswersAgree, Serves
  <2>1. PICK i \in 1..Len(history) :
          history[i].tx = a.tx /\ Serves(history[i], a.request)
    BY <1>1 DEF Inv, Answered
  <2>2. ASSUME NEW c \in answers, a.request = c.request, a.request.key # None
        PROVE  a.tx = c.tx
    <3>1. PICK k \in 1..Len(history) :
            history[k].tx = c.tx /\ Serves(history[k], c.request)
      BY <1>1 DEF Inv, Answered
    <3>2. history[i].key = a.request.key /\ history[k].key = a.request.key
      BY <2>1, <2>2, <3>1 DEF Serves
    <3>3. i = k
      BY <1>1, <2>2, <3>2 DEF Inv, HistoryInv, KeysUnique
    <3> QED BY <2>1, <3>1, <3>3
  <2> QED BY <2>1, <2>2
<1> QED BY <1>1, Invariance, PTL

(* A pending commit is decided by its successor, once and as the successor *)
(* says; an automatic or cancelling rollback restores exactly the config   *)
(* before it.                                                              *)
THEOREM PendingIsDecidedOnce == Spec => []PendingDecidedOnce
<1>1. ASSUME Inv PROVE PendingDecidedOnce
  <2>1. \A i \in 2..Len(history) : Decides(history, i)
    BY <1>1 DEF Inv, HistoryInv
  <2> QED BY <2>1 DEF PendingDecidedOnce, Decides, Mode
<1> QED BY <1>1, Invariance, PTL

(* What a bus shows is durable, and safe unless the bus is about to clear  *)
(* the marker or is fenced.                                                *)
THEOREM SnapshotsAreDurable == Spec => []SnapshotsDurable
<1>1. ASSUME Inv PROVE SnapshotsDurable
  <2> SUFFICES ASSUME NEW b \in Buses, Up(b)
               PROVE  \E i \in 1..Len(history) :
                        /\ history[i].tx = snap[b].tx
                        /\ history[i].version = snap[b].version
                        /\ history[i].config = snap[b].config
                        /\ history[i].marked => fenced[b] \/ job[b].phase = "clear"
    BY DEF SnapshotsDurable
  <2>1. SnapInv(history, snap[b], fenced[b], job[b]) /\ Running(job[b])
    BY <1>1, BusFacts DEF LocalInv, Up, Running
  <2> QED BY <2>1 DEF SnapInv, Shows
<1> QED BY <1>1, Invariance, PTL

-----------------------------------------------------------------------------
(* Readers never see an older version.                                     *)

LEMMA SnapForward ==
  ASSUME Inv, NEW b \in Buses, NEW s, snap' = [snap EXCEPT ![b] = s],
         s.version \in Nat, s.version >= snap[b].version
  PROVE  \A c \in Buses : snap'[c].version >= snap[c].version
<1>1. snap \in [Buses -> Snapshots]
  BY DEF Inv, TypeOK
<1>2. \A c \in Buses : snap[c].version \in Nat
  BY <1>1 DEF Snapshots, NeverSeen
<1>3. ASSUME NEW c \in Buses PROVE snap'[c].version >= snap[c].version
  <2>1. CASE c = b
    <3>1. snap'[c] = s
      BY <1>1, <2>1
    <3> QED BY <2>1, <3>1
  <2>2. CASE c # b
    <3>1. snap'[c] = snap[c]
      BY <1>1, <2>2
    <3> QED BY <1>2, <3>1
  <2> QED BY <2>1, <2>2
<1> QED BY <1>3

LEMMA StartForward ==
  ASSUME Inv, NEW b \in Buses, NEW r \in Records, Starts(b, r),
         r.version >= snap[b].version
  PROVE  \A c \in Buses : snap'[c].version >= snap[c].version
<1>1. PICK s : s = [tx |-> r.tx, version |-> r.version, config |-> r.config]
  OBVIOUS
<1>2. s.version = r.version /\ s.version \in Nat /\ snap' = [snap EXCEPT ![b] = s]
  BY <1>1 DEF Starts, Records
<1> QED BY <1>2, SnapForward

LEMMA PersistForward ==
  ASSUME Inv, NEW b \in Buses, Persist(b)
  PROVE  \A c \in Buses : snap'[c].version >= snap[c].version
<1>1. PICK w : w = Stamped(job[b].write)
  OBVIOUS
<1>2. /\ job[b].phase = "append" /\ Accepts(history, w)
      /\ history' = Applied(history, w)
  BY <1>1 DEF Persist
<1>3. WriteInv(history, w) /\ w.record \in Records
  <2>1. WriteInv(history, job[b].write)
    BY <1>2, BusFacts DEF LocalInv, AppendInv
  <2>2. nextTx \in Nat
    BY DEF Inv, TypeOK
  <2> QED BY <1>1, <2>1, <2>2, StampedWrite
<1>4. w.record.version \in Nat /\ snap[b].version \in Nat
      /\ w.record.version >= snap[b].version
  <2>1. w.record.version \in Nat
    BY <1>3 DEF Records
  <2>2. snap[b].version \in Nat
    BY BusFacts DEF Snapshots, NeverSeen
  <2>3. snap[b].version <= w.record.version
    BY <1>2, <1>3, AppendedFacts
  <2> QED BY <2>1, <2>2, <2>3
<1>5. PICK s : s = [tx |-> w.record.tx, version |-> w.record.version,
                    config |-> w.record.config]
  OBVIOUS
<1>6. s.version = w.record.version
  BY <1>5
<1>7. CASE Starts(b, w.record)
  BY <1>3, <1>4, <1>7, StartForward
<1>8. CASE snap' = snap
  BY <1>8, BusFacts DEF Snapshots, NeverSeen
<1>9. CASE snap' = [snap EXCEPT ![b] = s]
  BY <1>4, <1>6, <1>9, SnapForward
<1> QED BY <1>1, <1>5, <1>7, <1>8, <1>9 DEF Persist

LEMMA ClearForward ==
  ASSUME Inv, NEW b \in Buses, Clear(b)
  PROVE  \A c \in Buses : snap'[c].version >= snap[c].version
<1>1. PICK r : r = job[b].write.record
  OBVIOUS
<1>2. CASE job[b].kind = "restore" /\ Starts(b, r)
  <2>1. ClearInv(history, snap[b], job[b]) /\ job[b].phase = "clear" /\ job[b] \in Jobs
    BY BusFacts DEF LocalInv, Clear
  <2>2. job[b].write \in Writes /\ r.version >= snap[b].version
    BY <1>1, <1>2, <2>1 DEF ClearInv, Jobs
  <2>3. r \in Records
    BY <1>1, <2>2 DEF Writes
  <2> QED BY <1>2, <2>2, <2>3, StartForward
<1>3. CASE snap' = snap
  BY <1>3, BusFacts DEF Snapshots, NeverSeen
<1> QED BY <1>1, <1>2, <1>3 DEF Clear

LEMMA RebuildForward ==
  ASSUME Inv, NEW b \in Buses, Rebuild(b)
  PROVE  \A c \in Buses : snap'[c].version >= snap[c].version
<1>1. PICK r : r = CommittedLatest(history)
  OBVIOUS
<1>2. CASE r # None /\ NotRegressed(b, r) /\ Starts(b, r)
  <2>1. PICK i \in 1..Len(history) : r = history[i]
    BY <1>1, <1>2, BusFacts, CommittedFound
  <2>2. r \in Records /\ r.version \in Nat
    BY <2>1, BusFacts, RecordAt
  <2>3. snap[b].version \in Nat
    BY BusFacts DEF Snapshots, NeverSeen
  <2>4. r.version >= snap[b].version
    BY <1>2, <2>2, <2>3 DEF NotRegressed
  <2> QED BY <1>2, <2>2, <2>4, StartForward
<1>3. CASE snap' = snap
  BY <1>3, BusFacts DEF Snapshots, NeverSeen
<1> QED BY <1>1, <1>2, <1>3 DEF Rebuild

LEMMA RestoreForward ==
  ASSUME Inv, NEW b \in Buses, RestoreHead(b)
  PROVE  \A c \in Buses : snap'[c].version >= snap[c].version
<1>1. PICK r : r = Latest(history)
  OBVIOUS
<1>2. history # <<>> /\ Starts(b, r)
  BY <1>1 DEF RestoreHead
<1>3. /\ Len(history) \in Nat /\ Len(history) \in 1..Len(history)
      /\ r = history[Len(history)] /\ r \in Records
  BY <1>1, <1>2, BusFacts, RecordAt DEF Latest
<1>4. HistoryInv(history) /\ SnapInv(history, snap[b], fenced[b], job[b])
  BY BusFacts DEF LocalInv
<1>5. r.version = Len(history) - 1
  BY <1>3, <1>4 DEF HistoryInv, Chained
<1>6. r.version >= snap[b].version
  <2>1. CASE snap[b] = NeverSeen
    BY <1>3, <1>5, <2>1 DEF NeverSeen
  <2>2. CASE \E i \in 1..Len(history) : Shows(snap[b], history[i])
    <3>1. PICK i \in 1..Len(history) : Shows(snap[b], history[i])
      BY <2>2
    <3>2. snap[b].version = i - 1
      BY <1>4, <3>1 DEF HistoryInv, Chained, Shows
    <3> QED BY <1>3, <1>5, <3>2
  <2> QED BY <1>4, <2>1, <2>2 DEF SnapInv
<1> QED BY <1>2, <1>3, <1>6, StartForward

LEMMA NextForward ==
  ASSUME Inv, [Next]_vars
  PROVE  \A b \in Buses : snap'[b].version >= snap[b].version
<1>1. CASE snap' = snap
  BY <1>1, BusFacts DEF Snapshots, NeverSeen
<1>2. CASE \E b \in Buses : Persist(b) \/ Clear(b) \/ Rebuild(b) \/ RestoreHead(b)
  BY <1>2, PersistForward, ClearForward, RebuildForward, RestoreForward
<1>3. ASSUME NEW b \in Buses, WorkerStep(b)
      PROVE  snap' = snap \/ Persist(b) \/ Clear(b) \/ Rebuild(b)
  BY <1>3 DEF WorkerStep, Replay, Proceed, Refuse, ResolveGiven, ResolveRollback,
              ResolveCancel, Prepared, LoadParent, PersistRefused, PersistUnknown,
              Relookup, Expire
<1>4. ASSUME NEW b \in Buses, RestoreStep(b)
      PROVE  snap' = snap \/ RestoreHead(b)
  BY <1>4 DEF RestoreStep, RestoreEmpty, RestoreExpired
<1>5. ASSUME NEW b \in Buses, Panic(b) \/ Reconcile(b) \/ Crash(b)
             \/ \E r \in Requests : Take(b, r)
      PROVE  snap' = snap
  BY <1>5 DEF Panic, Reconcile, Crash, Take
<1>6. ASSUME NEW w, Land(w) \/ DeadlinePasses(w) PROVE snap' = snap
  BY <1>6 DEF Land, DeadlinePasses
<1> QED BY <1>1, <1>2, <1>3, <1>4, <1>5, <1>6 DEF Next, vars

(* No reader of a bus sees an older version after a newer one. *)
THEOREM VersionsOnlyAdvance == Spec => VersionsNeverRegress
<1>1. Inv /\ [Next]_vars => [\A b \in Buses : snap'[b].version >= snap[b].version]_vars
  BY NextForward
<1> QED BY <1>1, Invariance, PTL DEF Spec, VersionsNeverRegress

-----------------------------------------------------------------------------
(* One bus, no late appends: the bus agrees with its datastore.            *)

AgreesAt(b) == AgreeInv(history, snap[b], fenced[b], timer[b], job[b])

(* Away from the head, or behind its fence, a bus has nothing to agree to. *)
LEMMA AgreeAside ==
  ASSUME NEW b \in Buses, ~Running(job'[b]) \/ fenced'[b],
         job'[b].phase \notin {"clear", "rebuild"}
  PROVE  AgreesAt(b)'
BY DEF AgreesAt, AgreeInv

LEMMA AgreeQuiet ==
  ASSUME NEW b \in Buses, AgreesAt(b), history' = history, snap' = snap,
         job'[b].phase \notin {"clear", "rebuild"},
         Running(job'[b]) /\ ~fenced'[b] =>
           /\ Running(job[b]) /\ ~fenced[b] /\ job[b].phase # "clear"
           /\ timer'[b] = timer[b]
  PROVE  AgreesAt(b)'
BY DEF AgreesAt, AgreeInv

LEMMA AgreeStarts ==
  ASSUME Inv, NEW b \in Buses, NEW r \in Records, Starts(b, r), history' # <<>>,
         NEW top, top = history'[Len(history')],
         top.tx = r.tx, top.pending = r.pending, ~top.marked
  PROVE  AgreesAt(b)'
<1>1. /\ snap'[b].tx = r.tx /\ ~fenced'[b] /\ job'[b] = NoJob
      /\ timer'[b] = IF r.pending THEN r.tx ELSE None
  BY DEF Inv, TypeOK, Starts
<1>2. NoJob.phase = "idle"
  BY DEF NoJob
<1>3. Agrees(history', snap'[b], timer'[b])
  BY <1>1 DEF Agrees, LatestTx
<1> QED BY <1>1, <1>2, <1>3 DEF AgreesAt, AgreeInv

LEMMA AgreeStops ==
  ASSUME Inv, NEW b \in Buses, AgreesAt(b), job[b].phase \notin {"down", "clear"},
         \/ history' = history /\ snap' = snap /\ Stops(b)
         \/ StopsFenced(b)
  PROVE  AgreesAt(b)'
<1>1. job \in [Buses -> Jobs] /\ fenced \in [Buses -> BOOLEAN]
      /\ timer \in [Buses -> Tx \cup {None}] /\ job[b] \in Jobs /\ PhaseInv(job[b])
  BY BusFacts DEF Inv, TypeOK, LocalInv
<1>2. /\ NoJob.phase = "idle" /\ NoJob.kind = "none" /\ Down.phase = "down"
  BY DEF NoJob, Down
<1>3. job'[b] = IF job[b].kind = "restore" THEN Down ELSE NoJob
  BY <1>1 DEF Stops, StopsFenced
<1>4. CASE job[b].kind = "restore"
  BY <1>2, <1>3, <1>4, AgreeAside DEF Running
<1>5. CASE job[b].kind # "restore" /\ StopsFenced(b)
  <2>1. fenced'[b]
    BY <1>1, <1>5 DEF StopsFenced
  <2> QED BY <1>2, <1>3, <1>5, <2>1, AgreeAside
<1>6. CASE job[b].kind # "restore" /\ Stops(b) /\ history' = history /\ snap' = snap
  <2>1. /\ fenced'[b] = (fenced[b] \/ job[b].kind = "expiry")
        /\ timer'[b] = IF job[b].kind = "expiry" THEN None ELSE timer[b]
    BY <1>1, <1>6 DEF Stops
  <2> QED BY <1>2, <1>3, <1>6, <2>1, AgreeQuiet DEF Running
<1> QED BY <1>4, <1>5, <1>6

(* A step that only moves the job on, short of a marker to clear. *)
LEMMA AgreeOnlyJob ==
  ASSUME Inv, NEW b \in Buses, AgreesAt(b), OnlyJob,
         NEW j, job' = [job EXCEPT ![b] = j],
         j.phase \notin {"clear", "rebuild"},
         Running(j) => Running(job[b]) /\ job[b].phase # "clear"
  PROVE  AgreesAt(b)'
<1>1. job'[b] = j
  BY DEF Inv, TypeOK
<1>2. history' = history /\ snap' = snap /\ fenced'[b] = fenced[b]
      /\ timer'[b] = timer[b]
  BY DEF OnlyJob
<1> QED BY <1>1, <1>2, AgreeQuiet

LEMMA AgreePhase ==
  ASSUME Inv, NEW b \in Buses, AgreesAt(b), OnlyJob, NEW j,
         job' = [job EXCEPT ![b] = j], j.kind = job[b].kind,
         j.phase \notin {"clear", "rebuild"}, job[b].phase \notin {"down", "clear"}
  PROVE  AgreesAt(b)'
<1>1. Running(j) => Running(job[b])
  BY DEF Running
<1> QED BY <1>1, AgreeOnlyJob

LEMMA AgreePrepared ==
  ASSUME Inv, NEW b \in Buses, AgreesAt(b), NEW w, Prepared(b, w),
         job[b].phase \notin {"down", "clear"}
  PROVE  AgreesAt(b)'
<1>1. PICK j : j = [job[b] EXCEPT !.phase = "append", !.write = w]
  OBVIOUS
<1>2. job[b] \in Jobs /\ job \in [Buses -> Jobs]
  BY BusFacts DEF Inv, TypeOK
<1>3. j.kind = job[b].kind /\ j.phase = "append"
  BY <1>1, <1>2 DEF Jobs
<1>4. job' = [job EXCEPT ![b] = j] /\ OnlyJob
  BY <1>1, <1>2 DEF Prepared, OnlyJob
<1> QED BY <1>3, <1>4, AgreePhase

LEMMA TakeAgrees ==
  ASSUME Inv, NEW b \in Buses, AgreesAt(b), NEW r, Take(b, r)
  PROVE  AgreesAt(b)'
<1>1. PICK j : j = [NoJob EXCEPT !.kind = "commit", !.phase = "lookup",
                                 !.request = r, !.base = HeadOf(snap[b])]
  OBVIOUS
<1>2. job' = [job EXCEPT ![b] = j] /\ Idle(b)
      /\ UNCHANGED <<history, snap, fenced, timer>>
  BY <1>1 DEF Take
<1>3. job'[b] = j /\ job[b] = NoJob
  BY <1>2 DEF Inv, TypeOK, Idle
<1>4. j.phase = "lookup" /\ NoJob.phase = "idle" /\ NoJob.kind = "none"
  BY <1>1 DEF NoJob
<1> QED BY <1>2, <1>3, <1>4, AgreeQuiet DEF Running

LEMMA StopAgrees ==
  ASSUME Inv, NEW b \in Buses, AgreesAt(b),
         Refuse(b) \/ Panic(b) \/ Replay(b) \/ Relookup(b) \/ PersistUnknown(b)
  PROVE  AgreesAt(b)'
<1>1. CASE Refuse(b)
  BY <1>1, AgreeStops DEF Refuse
<1>2. CASE Panic(b)
  BY <1>2, AgreeStops DEF Panic
<1>3. CASE Replay(b)
  BY <1>3, AgreeStops DEF Replay
<1>4. CASE Relookup(b)
  BY <1>4, AgreeStops DEF Relookup
<1>5. CASE PersistUnknown(b)
  BY <1>5, AgreeStops DEF PersistUnknown, UnknownEnds
<1> QED BY <1>1, <1>2, <1>3, <1>4, <1>5

LEMMA ResolveAgrees ==
  ASSUME Inv, NEW b \in Buses, AgreesAt(b),
         Proceed(b) \/ ResolveGiven(b) \/ ResolveRollback(b) \/ ResolveCancel(b)
  PROVE  AgreesAt(b)'
<1>1. job[b] \in Jobs /\ job \in [Buses -> Jobs]
  BY BusFacts DEF Inv, TypeOK
<1>2. CASE Proceed(b)
  <2>1. PICK j : j = [job[b] EXCEPT !.phase = "resolve"]
    OBVIOUS
  <2>2. j.kind = job[b].kind /\ j.phase = "resolve"
    BY <1>1, <2>1 DEF Jobs
  <2>3. job' = [job EXCEPT ![b] = j] /\ OnlyJob /\ job[b].phase = "lookup"
    BY <1>1, <1>2, <2>1 DEF Proceed, Proceeds, OnlyJob
  <2> QED BY <2>2, <2>3, AgreePhase
<1>3. CASE ResolveGiven(b)
  BY <1>3, AgreePrepared DEF ResolveGiven
<1>4. CASE ResolveRollback(b)
  BY <1>4, AgreePrepared DEF ResolveRollback
<1>5. CASE ResolveCancel(b)
  <2>1. PICK j : j = [job[b] EXCEPT !.phase = "parent",
                                    !.parent = Latest(history).parent]
    OBVIOUS
  <2>2. j.kind = job[b].kind /\ j.phase = "parent"
    BY <1>1, <2>1 DEF Jobs
  <2>3. job' = [job EXCEPT ![b] = j] /\ OnlyJob /\ job[b].phase = "resolve"
    BY <1>1, <1>5, <2>1 DEF ResolveCancel, OnlyJob
  <2> QED BY <2>2, <2>3, AgreePhase
<1> QED BY <1>2, <1>3, <1>4, <1>5

LEMMA ParentAgrees ==
  ASSUME Inv, NEW b \in Buses, AgreesAt(b), LoadParent(b) \/ PersistRefused(b)
  PROVE  AgreesAt(b)'
<1>1. job[b] \in Jobs /\ job \in [Buses -> Jobs]
  BY BusFacts DEF Inv, TypeOK
<1>2. job[b].phase \notin {"down", "clear"}
  BY DEF LoadParent, PersistRefused
<1>3. CASE \E w : Prepared(b, w)
  BY <1>2, <1>3, AgreePrepared
<1>4. CASE Stops(b) /\ history' = history /\ snap' = snap
  BY <1>2, <1>4, AgreeStops
<1>5. CASE job' = [job EXCEPT ![b].phase = "relookup"]
           /\ UNCHANGED <<history, snap, fenced, timer>>
  <2>1. PICK j : j = [job[b] EXCEPT !.phase = "relookup"]
    OBVIOUS
  <2>2. j.kind = job[b].kind /\ j.phase = "relookup"
    BY <1>1, <2>1 DEF Jobs
  <2>3. job'[b] = j
    BY <1>1, <1>5, <2>1
  <2> QED BY <1>2, <1>5, <2>2, <2>3, AgreeQuiet DEF Running
<1> QED BY <1>3, <1>4, <1>5 DEF LoadParent, PersistRefused

LEMMA ExpireAgrees ==
  ASSUME Inv, NEW b \in Buses, AgreesAt(b), Expire(b)
  PROVE  AgreesAt(b)'
<1>1. /\ job \in [Buses -> Jobs] /\ fenced \in [Buses -> BOOLEAN] /\ job[b] = NoJob
      /\ history' = history /\ snap' = snap
      /\ NoJob.phase = "idle" /\ NoJob.kind = "none"
  BY DEF Inv, TypeOK, Expire, Idle, NoJob
<1>2. PICK j : j = [NoJob EXCEPT !.kind = "expiry", !.phase = "parent",
                                 !.base = HeadOf(snap[b]),
                                 !.parent = Latest(history).parent]
  OBVIOUS
<1>3. CASE job' = [job EXCEPT ![b] = j] /\ UNCHANGED <<fenced, timer>>
  <2>1. job'[b] = j /\ j.phase = "parent"
    BY <1>1, <1>2, <1>3 DEF NoJob
  <2> QED BY <1>1, <1>3, <2>1, AgreeQuiet DEF Running
<1>4. CASE fenced' = [fenced EXCEPT ![b] = TRUE] /\ job' = job
  <2>1. fenced'[b] /\ job'[b] = NoJob
    BY <1>1, <1>4
  <2> QED BY <1>1, <2>1, AgreeAside
<1> QED BY <1>2, <1>3, <1>4 DEF Expire

LEMMA CrashAgrees ==
  ASSUME Inv, NEW b \in Buses, Crash(b)
  PROVE  AgreesAt(b)'
<1>1. job'[b] = Down /\ Down.phase = "down"
  BY DEF Inv, TypeOK, Crash, Down
<1> QED BY <1>1, AgreeAside DEF Running

LEMMA RestoreAgrees ==
  ASSUME Inv, NEW b \in Buses, AgreesAt(b), RestoreStep(b)
  PROVE  AgreesAt(b)'
<1>1. job \in [Buses -> Jobs] /\ history \in Seq(Records)
  BY BusFacts DEF Inv, TypeOK
<1>2. CASE RestoreEmpty(b) \/ RestoreExpired(b)
  <2>1. job'[b].kind = "restore" /\ job'[b].phase \in {"append", "parent"}
    BY <1>1, <1>2 DEF RestoreEmpty, RestoreExpired, NoJob
  <2> QED BY <2>1, AgreeAside DEF Running
<1>3. CASE RestoreHead(b)
  <2>1. PICK r : r = Latest(history)
    OBVIOUS
  <2>2. history # <<>> /\ ~r.marked /\ Starts(b, r) /\ history' = history
    BY <1>3, <2>1 DEF RestoreHead
  <2>3. r = history'[Len(history')] /\ r \in Records
    BY <1>1, <2>1, <2>2, RecordAt DEF Latest
  <2> QED BY <2>2, <2>3, AgreeStarts
<1> QED BY <1>2, <1>3 DEF RestoreStep

LEMMA PersistAgrees ==
  ASSUME Inv, NEW b \in Buses, Persist(b)
  PROVE  AgreesAt(b)'
<1>1. PICK w : w = Stamped(job[b].write)
  OBVIOUS
<1>2. /\ job[b].phase = "append" /\ Accepts(history, w)
      /\ history' = Applied(history, w)
  BY <1>1 DEF Persist
<1>3. WriteInv(history, w) /\ w.record \in Records
  <2>1. WriteInv(history, job[b].write)
    BY <1>2, BusFacts DEF LocalInv, AppendInv
  <2>2. nextTx \in Nat
    BY DEF Inv, TypeOK
  <2> QED BY <1>1, <2>1, <2>2, StampedWrite
<1>4. history'[Len(history')] = w.record /\ history' # <<>>
  <2>1. /\ HistoryInv(history') /\ Len(history') \in 1..Len(history')
        /\ history'[Len(history')] = w.record
    BY <1>2, <1>3, AppendedFacts
  <2>2. history' \in Seq(Records)
    BY <2>1 DEF HistoryInv
  <2> QED BY <2>1, <2>2, RecordAt
<1>5. CASE Starts(b, w.record) /\ ~w.record.marked
  BY <1>3, <1>4, <1>5, AgreeStarts
<1>6. CASE job' = [job EXCEPT ![b].phase = "clear", ![b].write = w]
  <2>1. job'[b].phase = "clear" /\ job'[b].write = w
    BY <1>6 DEF Inv, TypeOK, Jobs
  <2>2. LatestTx(history') = w.record.tx
    BY <1>4 DEF LatestTx
  <2> QED BY <1>4, <2>1, <2>2 DEF AgreesAt, AgreeInv
<1> QED BY <1>1, <1>5, <1>6 DEF Persist

LEMMA ClearAgrees ==
  ASSUME Inv, NEW b \in Buses, AgreesAt(b), Clear(b)
  PROVE  AgreesAt(b)'
<1>1. PICK r : r = job[b].write.record
  OBVIOUS
<1>2. /\ HistoryInv(history) /\ history \in Seq(Records) /\ job[b].phase = "clear"
      /\ LatestTx(history) = r.tx /\ history[Len(history)].pending = r.pending
  BY <1>1, BusFacts DEF Clear, AgreesAt, AgreeInv
<1>3. r \in Records /\ (job[b].kind # "restore" => Shows(snap[b], r))
  <2>1. ClearInv(history, snap[b], job[b]) /\ job[b] \in Jobs
    BY BusFacts DEF LocalInv
  <2>2. job[b].write \in Writes
    BY <1>2, <2>1 DEF ClearInv, Jobs
  <2> QED BY <1>1, <1>2, <2>1, <2>2 DEF ClearInv, Writes
<1>4. history # <<>>
  BY <1>2, <1>3, NoneFacts DEF LatestTx, Records
<1>5. ASSUME NEW top, top = history'[Len(history')], history' = Cleared(history, r.tx)
      PROVE  /\ history' # <<>> /\ top.tx = r.tx /\ top.pending = r.pending
             /\ ~top.marked
  <2>1. /\ HistoryInv(history') /\ Grows(history, history')
        /\ Len(history') = Len(history)
    BY <1>2, <1>5, ClearedKeeps
  <2>2. Len(history) \in 1..Len(history) /\ history[Len(history)].tx = r.tx
    BY <1>2, <1>4, RecordAt DEF LatestTx
  <2>3. SameRecord(top, history[Len(history)])
        /\ top.pending = history[Len(history)].pending
    BY <1>5, <2>1, <2>2 DEF Grows
  <2>4. ~top.marked
    BY <1>2, <1>5, <2>1, <2>2, <2>3, ClearedKeeps DEF SameRecord
  <2>5. history' # <<>>
    BY <1>4, <2>1, <1>2, RecordAt DEF HistoryInv
  <2> QED BY <1>2, <2>2, <2>3, <2>4, <2>5 DEF SameRecord
<1>6. NoJob.phase = "idle" /\ Down.phase = "down"
  BY DEF NoJob, Down
<1>7. CASE job[b].kind = "restore"
  <2>1. CASE history' = Cleared(history, r.tx) /\ Starts(b, r)
    BY <1>3, <1>5, <2>1, AgreeStarts
  <2>2. CASE Stops(b)
    <3>1. job'[b] = Down
      BY <1>7, <2>2 DEF Inv, TypeOK, Stops
    <3> QED BY <1>6, <3>1, AgreeAside DEF Running
  <2> QED BY <1>1, <1>7, <2>1, <2>2 DEF Clear
<1>8. CASE job[b].kind # "restore"
  <2>1. /\ job'[b] = NoJob /\ snap' = snap
        /\ timer'[b] = IF r.pending THEN r.tx ELSE None
    BY <1>1, <1>8 DEF Inv, TypeOK, Clear, TimerAfter
  <2>2. CASE history' = Cleared(history, r.tx)
    <3>1. PICK top : top = history'[Len(history')]
      OBVIOUS
    <3>2. Agrees(history', snap'[b], timer'[b])
      BY <1>3, <1>5, <1>8, <2>1, <2>2, <3>1 DEF Agrees, LatestTx, Shows
    <3> QED BY <1>6, <2>1, <3>2 DEF AgreesAt, AgreeInv
  <2>3. CASE fenced' = [fenced EXCEPT ![b] = TRUE]
    <3>1. fenced'[b]
      BY <2>3 DEF Inv, TypeOK
    <3> QED BY <1>6, <2>1, <3>1, AgreeAside
  <2> QED BY <1>1, <1>8, <2>2, <2>3 DEF Clear
<1> QED BY <1>7, <1>8

LEMMA RebuildAgrees ==
  ASSUME Inv, NEW b \in Buses, AgreesAt(b), Reconcile(b) \/ Rebuild(b)
  PROVE  AgreesAt(b)'
<1>1. /\ job \in [Buses -> Jobs] /\ history \in Seq(Records) /\ HistoryInv(history)
      /\ job[b] \in Jobs /\ PhaseInv(job[b])
      /\ NoJob.phase = "idle" /\ NoJob.kind = "none"
  BY BusFacts DEF Inv, TypeOK, LocalInv, NoJob
<1>2. CASE Reconcile(b)
  <2>1. PICK j : j = [NoJob EXCEPT !.kind = "reconcile", !.phase = "rebuild",
                                   !.base = HeadOf(Latest(history))]
    OBVIOUS
  <2>2. /\ job[b] = NoJob /\ job' = [job EXCEPT ![b] = j]
        /\ UNCHANGED <<history, snap, fenced, timer>>
    BY <1>2, <2>1 DEF Reconcile, Idle
  <2>3. job'[b] = j /\ j.phase = "rebuild" /\ j.base = HeadOf(Latest(history))
    BY <1>1, <2>1, <2>2 DEF NoJob
  <2> QED BY <1>1, <2>2, <2>3 DEF AgreesAt, AgreeInv, Running
<1>3. CASE Rebuild(b)
  <2>1. PICK r : r = CommittedLatest(history)
    OBVIOUS
  <2>2. job[b].phase = "rebuild" /\ history' = history
        /\ job[b].base = HeadOf(Latest(history)) /\ job[b].kind = "reconcile"
    BY <1>1, <1>3, JobFacts DEF Rebuild, AgreesAt, AgreeInv
  <2>3. CASE r # None /\ HeadOf(r) = job[b].base /\ Starts(b, r)
    <3>1. PICK i \in 1..Len(history) : r = history[i] /\ ~history[i].marked
      BY <1>1, <2>1, <2>3, CommittedFound
    <3>2. history # <<>> /\ Len(history) \in 1..Len(history) /\ r \in Records
      <4>1. history # <<>>
        BY <1>1, <3>1, RecordAt
      <4> QED BY <1>1, <3>1, <4>1, RecordAt
    <3>3. history[i].tx = history[Len(history)].tx
      BY <2>2, <2>3, <3>1, <3>2 DEF HeadOf, Latest
    <3>4. i = Len(history)
      BY <1>1, <3>2, <3>3 DEF HistoryInv, Chained
    <3> QED BY <2>2, <2>3, <3>1, <3>2, <3>4, AgreeStarts
  <2>4. CASE job' = [job EXCEPT ![b] = NoJob] /\ UNCHANGED <<snap, fenced, timer>>
    <3>1. job'[b] = NoJob
      BY <1>1, <2>4
    <3> QED BY <1>1, <2>2, <2>4, <3>1, AgreeQuiet DEF Running
  <2> QED BY <1>3, <2>1, <2>3, <2>4 DEF Rebuild
<1> QED BY <1>2, <1>3

LEMMA NextAgrees ==
  ASSUME Inv, LoneInv, [Next]_vars
  PROVE  LoneInv'
<1> SUFFICES ASSUME Alone
             PROVE  limbo' = {} /\ \A b \in Buses : AgreesAt(b)'
  BY DEF LoneInv, AgreesAt
<1>1. limbo = {} /\ ~LateWrites /\ \A b \in Buses : AgreesAt(b)
  BY DEF LoneInv, Alone, AgreesAt
<1>2. PICK a \in Buses : Buses = {a}
  BY DEF Alone
<1>3. limbo' = {}
  BY <1>1 DEF Next, vars, Take, WorkerStep, Replay, Proceed, Refuse, ResolveGiven,
     ResolveRollback, ResolveCancel, Prepared, LoadParent, Persist, PersistRefused,
     PersistUnknown, Relookup, Clear, Expire, Rebuild, Panic, Reconcile, Crash,
     RestoreStep, RestoreEmpty, RestoreHead, RestoreExpired, DeadlinePasses
<1>4. ASSUME NEW b \in Buses,
             \/ WorkerStep(b)
             \/ Panic(b) \/ Reconcile(b) \/ Crash(b) \/ RestoreStep(b)
             \/ \E r \in Requests : Take(b, r)
      PROVE  AgreesAt(b)'
  BY <1>1, <1>4, TakeAgrees, StopAgrees, ResolveAgrees, ParentAgrees, PersistAgrees,
     ClearAgrees, ExpireAgrees, RebuildAgrees, CrashAgrees, RestoreAgrees
     DEF WorkerStep
<1>5. CASE UNCHANGED <<history, snap, fenced, timer, job>>
  BY <1>1, <1>3, <1>5 DEF AgreesAt
<1>6. ASSUME NEW tx, DeadlinePasses(tx)
      PROVE  UNCHANGED <<history, snap, fenced, timer, job>>
  BY <1>6 DEF DeadlinePasses
<1>7. \/ \E b \in Buses :
           \/ WorkerStep(b)
           \/ Panic(b) \/ Reconcile(b) \/ Crash(b) \/ RestoreStep(b)
           \/ \E r \in Requests : Take(b, r)
      \/ UNCHANGED <<history, snap, fenced, timer, job>>
  BY <1>1, <1>6 DEF Next, vars
<1> QED BY <1>2, <1>3, <1>4, <1>5, <1>7

(* Without another bus and without late appends, a bus that is idle and    *)
(* not fenced shows the head of its datastore, the head is safe to         *)
(* publish, and the timer waits for the head's deadline if it has one.     *)
THEOREM LoneBusAgrees ==
  ASSUME Alone
  PROVE  Spec => []IdleBusAgrees
<1>1. Init => LoneInv
  <2> SUFFICES ASSUME Init, NEW b \in Buses PROVE AgreesAt(b)
    BY DEF LoneInv, AgreesAt, Init
  <2>1. job[b] = Down /\ Down.phase = "down"
    BY DEF Init, Down
  <2> QED BY <2>1 DEF AgreesAt, AgreeInv, Running
<1>2. Inv /\ LoneInv /\ [Next]_vars => LoneInv'
  BY NextAgrees
<1>3. Spec => []LoneInv
  BY <1>1, <1>2, Invariance, PTL DEF Spec
<1>4. Inv /\ LoneInv => IdleBusAgrees
  <2> SUFFICES ASSUME Inv, LoneInv, NEW b \in Buses, Idle(b), ~fenced[b]
               PROVE  /\ snap[b].tx = LatestTx(history)
                      /\ ~Latest(history).marked
                      /\ timer[b] = IF Latest(history).pending
                                    THEN Latest(history).tx ELSE None
    BY DEF IdleBusAgrees
  <2>1. Running(job[b]) /\ job[b].phase = "idle"
    BY DEF Idle, NoJob, Running
  <2>2. Agrees(history, snap[b], timer[b])
    BY <2>1 DEF LoneInv, AgreeInv
  <2>3. history # <<>>
    <3>1. SnapInv(history, snap[b], fenced[b], job[b]) /\ history \in Seq(Records)
      BY BusFacts DEF LocalInv
    <3>2. PICK i \in 1..Len(history) : Shows(snap[b], history[i])
      BY <2>1, <3>1 DEF SnapInv
    <3> QED BY <3>1, <3>2, RecordAt
  <2>4. Latest(history) = history[Len(history)]
    BY <2>3 DEF Latest
  <2> QED BY <2>2, <2>4 DEF Agrees
<1> QED BY <1>3, <1>4, Invariance, PTL

=============================================================================
