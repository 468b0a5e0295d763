---------------------------- MODULE SessionStore ----------------------------
(***************************************************************************)
(* The in-memory session backend and lease manager of opc-session-store    *)
(* (fake/mod.rs, fake/read_expiry.rs) with the bounded key history it      *)
(* shares with the persistent backends (key_retention.rs).                 *)
(*                                                                         *)
(* A mutating command takes the backend mutex, samples the command time,   *)
(* stages a pruned copy of the committed state, runs its checks, edits the *)
(* copy, finalizes it (dead keys retire in key order, closed epochs drop   *)
(* their exact history) and publishes it with one replication log entry.   *)
(* The mutex is held for the whole command; the model takes one step for   *)
(* each iteration of the command's loops, so `phase` says where the        *)
(* command that holds the mutex is.                                        *)
(***************************************************************************)
EXTENDS Integers, Sequences, FiniteSets

CONSTANTS
  Keys,                  \* session keys; their order is compare_key_parts
  Owners,                \* lease owners
  Classes,               \* record state classes the inputs use
  None,                  \* an absent record, lease or guard
  RetiredKeysPerEpoch,   \* RETIRED_KEYS_PER_EPOCH
  MaxTrackedKeys,        \* FakeBackendLimits.max_tracked_keys
  MaxReplicationEntries, \* FakeBackendLimits.max_replication_entries
  LeaseTtls,             \* lease time-to-live inputs
  RecordTtls,            \* record time-to-live inputs (past ones as 0)
  Generations,           \* record generation inputs
  MaxTime,               \* bound: largest clock sample
  MaxCommits,            \* bound: committed commands
  MaxBatch               \* bound: successful children of one batch

Never == -1              \* expires_at: None
NotRetired == -1         \* the key is not in retired_keys

Record == [gen : Nat, exp : Int, owner : Owners, fence : Nat, class : Classes]
Lease  == [status : {"active", "released"}, cred : Nat, owner : Owners,
           fence : Nat, exp : Int]
Guard  == [key : Keys, owner : Owners, fence : Nat, exp : Int, cred : Nat]

(* The ReplicationOp variants a direct command writes to the log. *)
LeaseOps == [kind : {"acquire", "renew"}, key : Keys, owner : Owners,
             fence : Nat, cred : Nat, exp : Int]
ReleaseOps == [kind : {"release"}, key : Keys, owner : Owners, fence : Nat,
               cred : Nat]
DataOps == [kind : {"cas"}, key : Keys, expected : Nat \cup {None},
            cred : Nat, guardExp : Int, record : Record]
           \cup [kind : {"delete"}, key : Keys, owner : Owners, fence : Nat]
           \cup [kind : {"refresh"}, key : Keys, owner : Owners, fence : Nat,
                 exp : Int]
BatchOps == [kind : {"batch"}, ops : Seq(DataOps)]
NoOp == [kind |-> "none"]
Ops == LeaseOps \cup ReleaseOps \cup DataOps \cup BatchOps \cup {NoOp}

(* KeyRetention. *)
Retention == [epoch : Nat, floorPrev : Nat, floorCur : Nat,
              retiredMax : Nat, retiredCount : Nat]

(* FakeBackendState without its log: fences[k] = 0 when key_fences has no  *)
(* entry for k.                                                            *)
StoreState == [records    : [Keys -> Record \cup {None}],
               leases     : [Keys -> Lease \cup {None}],
               fences     : [Keys -> Nat],
               retired    : [Keys -> Int],
               candidates : SUBSET Keys,
               retention  : Retention,
               committedTime : Nat,
               nextFence  : Nat,
               nextCred   : Nat]

ASSUME KeysAssumption == Keys \subseteq Nat /\ IsFiniteSet(Keys)
ASSUME NoneAssumption == /\ None \notin Record
                         /\ None \notin Lease
                         /\ None \notin Guard
                         /\ None \notin [owner : Owners, fence : Nat, exp : Int]
ASSUME LimitsAssumption ==
  /\ RetiredKeysPerEpoch \in Nat \ {0}
  /\ MaxTrackedKeys \in Nat
  /\ MaxReplicationEntries \in Nat
ASSUME InputsAssumption ==
  /\ LeaseTtls \subseteq Nat
  /\ RecordTtls \subseteq Nat
  /\ Generations \subseteq Nat
  /\ MaxTime \in Nat /\ MaxCommits \in Nat /\ MaxBatch \in Nat

VARIABLES
  store,      \* the committed FakeBackendState
  staged,     \* the copy the command holding the mutex edits
  phase,      \* "idle", "batch" (children running) or "finalize"
  cmd,        \* the command holding the mutex
  log,        \* replication_log: the retained entries
  lastSeq,    \* last_replication_sequence
  compacted,  \* compacted_replication_sequence
  writerTime, \* writer_time: the newest command time, failed commands too
  hidden,     \* ReadExpiry.records: keys observed expired by a reader
  guards      \* every LeaseGuard ever returned to a caller

vars == <<store, staged, phase, cmd, log, lastSeq, compacted, writerTime,
          hidden, guards>>

-----------------------------------------------------------------------------
(* Reading the state.                                                      *)

MaxOf(a, b) == IF a >= b THEN a ELSE b

Expired(r, now) == r.exp # Never /\ r.exp <= now

Tracked(s) == {k \in Keys : s.fences[k] # 0}

RetiredKeys(s) == {k \in Keys : s.retired[k] # NotRetired}

(* The key holds no record and no lease. *)
Dead(s, k) == s.records[k] = None /\ s.leases[k] = None

(* Mutant: an absent key reads as fence 0, not as the floor. *)
CurrentFenceNoFloor(s, k) == s.fences[k]

CurrentFence(s, k) ==
  IF s.fences[k] # 0 THEN s.fences[k] ELSE s.retention.floorCur

(* Dead keys that finalization of this command will retire. *)
PendingDead(s) ==
  {k \in s.candidates : /\ s.retired[k] = NotRetired
                        /\ Dead(s, k)
                        /\ s.fences[k] # 0
                        /\ s.fences[k] < s.nextFence}

(* Mutant: admits one key more than finalization can make room for. *)
HasCapacityOffByOne(s, k, max) ==
  \/ k \in Tracked(s)
  \/ Cardinality(Tracked(s)) - Cardinality(RetiredKeys(s))
       - Cardinality(PendingDead(s)) <= max

(* ensure_key_capacity: dead history that finalization can drop counts as  *)
(* room.                                                                   *)
HasCapacity(s, k, max) ==
  \/ k \in Tracked(s)
  \/ Cardinality(Tracked(s)) < max
  \/ Cardinality(Tracked(s)) - Cardinality(RetiredKeys(s))
       - Cardinality(PendingDead(s)) < max

(* The lease table entry is the one this guard was returned for. *)
Matches(entry, g) ==
  /\ entry # None
  /\ entry.status = "active"
  /\ entry.cred = g.cred
  /\ entry.owner = g.owner
  /\ entry.fence = g.fence
  /\ entry.exp = g.exp

(* Mutant: believes any unexpired guard of the current owner. *)
ValidatesOwnerOnly(s, g, now) ==
  /\ g.exp > now
  /\ s.leases[g.key] # None
  /\ s.leases[g.key].owner = g.owner

(* validate_fenced_mutation *)
Validates(s, g, now) ==
  /\ g.fence >= CurrentFence(s, g.key)
  /\ g.exp > now
  /\ Matches(s.leases[g.key], g)

-----------------------------------------------------------------------------
(* Editing the state.                                                      *)

Prune(s, now) ==
  LET deadRecords == {k \in Keys : s.records[k] # None
                                     /\ Expired(s.records[k], now)}
      deadLeases  == {k \in Keys : /\ s.leases[k] # None
                                   /\ \/ s.leases[k].status # "active"
                                      \/ s.leases[k].exp <= now}
  IN [s EXCEPT
        !.records = [k \in Keys |-> IF k \in deadRecords THEN None
                                    ELSE s.records[k]],
        !.leases = [k \in Keys |-> IF k \in deadLeases THEN None
                                   ELSE s.leases[k]],
        !.candidates = s.candidates \cup deadRecords \cup deadLeases]

SetFence(s, k, fence) ==
  [s EXCEPT !.fences[k] = fence,
            !.retired[k] = IF Dead(s, k) THEN s.retired[k] ELSE NotRetired,
            !.candidates = s.candidates \cup {k}]

(* KeyRetention::rotate and the removal of the epochs it closes. *)
ClosedFloor(s) == MaxOf(s.retention.floorCur + 1, s.retention.retiredMax + 1)

DroppedKeys(s) ==
  {k \in RetiredKeys(s) : s.retired[k] <= s.retention.epoch + 1 - 2}

Rotate(s) ==
  [s EXCEPT
     !.retention = [epoch |-> s.retention.epoch + 1,
                    floorPrev |-> s.retention.floorCur,
                    floorCur |-> ClosedFloor(s),
                    retiredMax |-> 0,
                    retiredCount |-> 0],
     !.nextFence = MaxOf(s.nextFence, ClosedFloor(s) + 1),
     !.retired = [k \in Keys |-> IF k \in DroppedKeys(s) THEN NotRetired
                                 ELSE s.retired[k]],
     !.fences = [k \in Keys |-> IF k \in DroppedKeys(s) THEN 0
                                ELSE s.fences[k]]]

(* rotate_keys refuses ("exact retirement index differs") unless the rows  *)
(* it drops are below the floor that now stands for them.                  *)
RotationAccepted(s) ==
  \A k \in DroppedKeys(s) : /\ s.fences[k] # 0
                            /\ s.fences[k] < s.retention.floorCur

(* One iteration of retire_dead_keys, before its threshold rotation. *)
Retirable(s, k) ==
  /\ Dead(s, k)
  /\ s.retired[k] = NotRetired
  /\ s.fences[k] # 0
  /\ s.fences[k] < s.nextFence

(* Mutant: a retirement is counted down. *)
RetireCountsDown(s, k) ==
  [s EXCEPT
     !.candidates = s.candidates \ {k},
     !.retired[k] = IF Retirable(s, k) THEN s.retention.epoch ELSE s.retired[k],
     !.retention.retiredCount = s.retention.retiredCount - 1]

Retire(s, k) ==
  [s EXCEPT
     !.candidates = s.candidates \ {k},
     !.retired[k] = IF Retirable(s, k) THEN s.retention.epoch
                    ELSE IF Dead(s, k) THEN s.retired[k] ELSE NotRetired,
     !.retention =
        IF Retirable(s, k)
        THEN [s.retention EXCEPT
                !.retiredCount = s.retention.retiredCount + 1,
                !.retiredMax = MaxOf(s.retention.retiredMax, s.fences[k])]
        ELSE s.retention]

(* The retirement just made fills its epoch. *)
ReachesThreshold(s, k) ==
  Retirable(s, k) /\ s.retention.retiredCount + 1 = RetiredKeysPerEpoch

-----------------------------------------------------------------------------
(* The commands' effect on the staged state, and their checks.             *)

HeldByAnother(s, k, owner, now) ==
  /\ s.leases[k] # None
  /\ s.leases[k].status = "active"
  /\ s.leases[k].owner # owner
  /\ s.leases[k].exp > now

AcquireAccepted(s, k, owner, now) ==
  ~HeldByAnother(s, k, owner, now) /\ HasCapacity(s, k, MaxTrackedKeys)

(* Mutant: fences counted per key instead of globally. *)
AcquiredFencePerKey(s, k) == CurrentFence(s, k) + 1

AcquiredFence(s, k) == MaxOf(s.nextFence, CurrentFence(s, k) + 1)

AcquireLease(s, k, owner, exp) ==
  LET fence == AcquiredFence(s, k)
  IN SetFence([s EXCEPT
                 !.nextFence = fence + 1,
                 !.nextCred = s.nextCred + 1,
                 !.leases[k] = [status |-> "active", cred |-> s.nextCred,
                                owner |-> owner, fence |-> fence,
                                exp |-> exp]],
              k, fence)

RenewAccepted(s, g, now) == g.exp > now /\ Matches(s.leases[g.key], g)

RenewLease(s, g, exp) == [s EXCEPT !.leases[g.key].exp = exp]

ReleaseAccepted(s, g) == Matches(s.leases[g.key], g)

ReleaseLease(s, g) == [s EXCEPT !.leases[g.key].status = "released"]

(* requires_monotonic_generation *)
Monotonic(class) == class # "telemetry"

GenerationAccepted(s, k, expected, r, now) ==
  LET current == s.records[k]
      live == current # None /\ ~Expired(current, now)
  IN /\ (expected = None) = ~live
     /\ live => /\ current.gen = expected
                /\ Monotonic(current.class) \/ Monotonic(r.class)
                     => r.gen > current.gen

(* Mutant: the guard's own deadline stands in for the lease table. *)
CasAcceptedUnfenced(s, g, expected, r, now) ==
  /\ r.owner = g.owner /\ r.fence = g.fence
  /\ g.exp > now
  /\ GenerationAccepted(s, g.key, expected, r, now)

CasAccepted(s, g, expected, r, now) ==
  /\ r.owner = g.owner /\ r.fence = g.fence
  /\ Validates(s, g, now)
  /\ HasCapacity(s, g.key, MaxTrackedKeys)
  /\ GenerationAccepted(s, g.key, expected, r, now)

PutRecord(s, g, r) == SetFence([s EXCEPT !.records[g.key] = r], g.key, g.fence)

DeleteAccepted(s, g, now) == Validates(s, g, now) /\ HasCapacity(s, g.key, MaxTrackedKeys)

DeleteRecord(s, g) ==
  SetFence([s EXCEPT !.records[g.key] = None], g.key, g.fence)

RefreshAccepted(s, g, now) ==
  /\ Validates(s, g, now)
  /\ HasCapacity(s, g.key, MaxTrackedKeys)
  /\ s.records[g.key] # None
  /\ ~Expired(s.records[g.key], now)

RefreshRecord(s, g, exp) ==
  SetFence([s EXCEPT !.records[g.key].exp = exp], g.key, g.fence)

-----------------------------------------------------------------------------
(* Inputs and the command clock.                                           *)

(* Mutant: the raw clock sample. *)
CommandTimeUnclamped(sample) == sample

(* command_time: the sample never moves a writer before an earlier attempt *)
(* or the committed time.                                                  *)
CommandTime(sample) == MaxOf(sample, MaxOf(writerTime, store.committedTime))

(* Records a caller may author under guard g at the command time. *)
RecordInputs(g, now) ==
  {[gen |-> n, exp |-> e, owner |-> g.owner, fence |-> g.fence, class |-> c] :
     n \in Generations, e \in {now + d : d \in RecordTtls} \cup {Never},
     c \in Classes}

(* get_for_read: marks the committed record hidden when it is expired. *)
ObserveExpiry(k, now) ==
  IF store.records[k] # None /\ Expired(store.records[k], now)
  THEN hidden \cup {k} ELSE hidden

(* A command: what it logs, its time, its capacity rotations, the guard it *)
(* returns, and the expired records its batch reads have observed.         *)
NoCommand == [op |-> NoOp, now |-> 0, rotations |-> 0, guard |-> None,
              reads |-> {}]

(* A command whose checks pass stages state s and enters phase p. *)
Stage(s, p, op, guard, now) ==
  /\ staged' = s
  /\ phase' = p
  /\ cmd' = [op |-> op, now |-> now, rotations |-> 0, guard |-> guard,
             reads |-> {}]
  /\ writerTime' = now
  /\ UNCHANGED <<store, log, lastSeq, compacted, guards>>

(* A command its checks refuse leaves nothing but its command time. *)
Refuse(now) ==
  /\ writerTime' = now
  /\ UNCHANGED <<store, staged, phase, cmd, log, lastSeq, compacted, guards>>

Ready == phase = "idle" /\ lastSeq < MaxCommits

-----------------------------------------------------------------------------
(* SessionLeaseManager.                                                    *)

Acquire(k, owner, ttl, sample) ==
  LET now == CommandTime(sample)
      s == Prune(store, now)
      guard == [key |-> k, owner |-> owner, fence |-> AcquiredFence(s, k),
                exp |-> now + ttl, cred |-> s.nextCred]
  IN /\ Ready
     /\ UNCHANGED hidden
     /\ \/ /\ AcquireAccepted(s, k, owner, now)
           /\ Stage(AcquireLease(s, k, owner, now + ttl), "finalize",
                    [kind |-> "acquire", key |-> k, owner |-> owner,
                     fence |-> guard.fence, cred |-> guard.cred,
                     exp |-> guard.exp], guard, now)
        \/ ~AcquireAccepted(s, k, owner, now) /\ Refuse(now)

Renew(g, ttl, sample) ==
  LET now == CommandTime(sample)
      s == Prune(store, now)
  IN /\ Ready
     /\ UNCHANGED hidden
     /\ \/ /\ RenewAccepted(s, g, now)
           /\ Stage(RenewLease(s, g, now + ttl), "finalize",
                    [kind |-> "renew", key |-> g.key, owner |-> g.owner,
                     fence |-> g.fence, cred |-> g.cred, exp |-> now + ttl],
                    [g EXCEPT !.exp = now + ttl], now)
        \/ ~RenewAccepted(s, g, now) /\ Refuse(now)

Release(g, sample) ==
  LET now == CommandTime(sample)
      s == Prune(store, now)
  IN /\ Ready
     /\ UNCHANGED hidden
     /\ \/ /\ ReleaseAccepted(s, g)
           /\ Stage(ReleaseLease(s, g), "finalize",
                    [kind |-> "release", key |-> g.key, owner |-> g.owner,
                     fence |-> g.fence, cred |-> g.cred], None, now)
        \/ ~ReleaseAccepted(s, g) /\ Refuse(now)

-----------------------------------------------------------------------------
(* SessionBackend: reads and single mutations.                             *)

(* A read holds the mutex but samples the raw clock, not the command time. *)
Get(k, sample) ==
  /\ phase = "idle"
  /\ hidden' = ObserveExpiry(k, sample)
  /\ UNCHANGED <<store, staged, phase, cmd, log, lastSeq, compacted,
                 writerTime, guards>>

CasOp(g, expected, r) ==
  [kind |-> "cas", key |-> g.key, expected |-> expected, cred |-> g.cred,
   guardExp |-> g.exp, record |-> r]

DeleteOp(g) == [kind |-> "delete", key |-> g.key, owner |-> g.owner,
                fence |-> g.fence]

RefreshOp(g, exp) == [kind |-> "refresh", key |-> g.key, owner |-> g.owner,
                      fence |-> g.fence, exp |-> exp]

(* The record may have been authored under another guard of the key. *)
CompareAndSet(g, author, expected, sample) ==
  LET now == CommandTime(sample)
      s == Prune(store, now)
  IN /\ Ready
     /\ hidden' = ObserveExpiry(g.key, now)
     /\ \E r \in RecordInputs(author, now) :
          \/ /\ CasAccepted(s, g, expected, r, now)
             /\ Stage(PutRecord(s, g, r), "finalize", CasOp(g, expected, r),
                      None, now)
          \/ ~CasAccepted(s, g, expected, r, now) /\ Refuse(now)

DeleteFenced(g, sample) ==
  LET now == CommandTime(sample)
      s == Prune(store, now)
  IN /\ Ready
     /\ UNCHANGED hidden
     /\ \/ /\ DeleteAccepted(s, g, now)
           /\ Stage(DeleteRecord(s, g), "finalize", DeleteOp(g), None, now)
        \/ ~DeleteAccepted(s, g, now) /\ Refuse(now)

RefreshTtl(g, ttl, sample) ==
  LET now == CommandTime(sample)
      s == Prune(store, now)
  IN /\ Ready
     /\ hidden' = ObserveExpiry(g.key, now)
     /\ \/ /\ RefreshAccepted(s, g, now)
           /\ Stage(RefreshRecord(s, g, now + ttl), "finalize",
                    RefreshOp(g, now + ttl), None, now)
        \/ ~RefreshAccepted(s, g, now) /\ Refuse(now)

-----------------------------------------------------------------------------
(* SessionBackend::batch. A child that fails leaves the staged state as it *)
(* was, so only successful children and expired reads are steps.           *)

BatchStart(sample) ==
  LET now == CommandTime(sample)
  IN /\ Ready
     /\ MaxBatch > 0
     /\ UNCHANGED hidden
     /\ Stage(Prune(store, now), "batch", [kind |-> "batch", ops |-> <<>>],
              None, now)

BatchChild(s, op) ==
  /\ staged' = s
  /\ cmd' = [cmd EXCEPT !.op.ops = Append(cmd.op.ops, op)]
  /\ UNCHANGED <<store, phase, log, lastSeq, compacted, writerTime, hidden,
                 guards>>

InBatch == phase = "batch" /\ Len(cmd.op.ops) < MaxBatch

BatchCas(g, expected) ==
  /\ InBatch
  /\ \E r \in RecordInputs(g, cmd.now) :
       /\ CasAccepted(staged, g, expected, r, cmd.now)
       /\ BatchChild(PutRecord(staged, g, r), CasOp(g, expected, r))

BatchDelete(g) ==
  /\ InBatch
  /\ DeleteAccepted(staged, g, cmd.now)
  /\ BatchChild(DeleteRecord(staged, g), DeleteOp(g))

BatchRefresh(g, ttl) ==
  /\ InBatch
  /\ RefreshAccepted(staged, g, cmd.now)
  /\ BatchChild(RefreshRecord(staged, g, cmd.now + ttl),
                RefreshOp(g, cmd.now + ttl))

(* A read remembers the staged record it found expired, or the committed   *)
(* one when the batch's prune has removed it.                              *)
BatchGet(k) ==
  LET r == IF staged.records[k] # None THEN staged.records[k]
           ELSE store.records[k]
  IN /\ phase = "batch"
     /\ r # None /\ Expired(r, cmd.now)
     /\ cmd' = [cmd EXCEPT !.reads = @ \cup {<<k, r>>}]
     /\ UNCHANGED <<store, staged, phase, log, lastSeq, compacted, writerTime,
                    hidden, guards>>

(* The keys of the expired reads whose record is still the committed one. *)
StillCommitted(reads, records) ==
  {k \in Keys : records[k] # None /\ <<k, records[k]>> \in reads}

(* A batch with a successful child is finalized; one without publishes     *)
(* nothing but its expired reads.                                          *)
BatchEnd ==
  /\ phase = "batch"
  /\ \/ /\ cmd.op.ops # <<>>
        /\ phase' = "finalize"
        /\ UNCHANGED <<staged, cmd, hidden>>
     \/ /\ cmd.op.ops = <<>>
        /\ phase' = "idle"
        /\ staged' = store
        /\ cmd' = NoCommand
        /\ hidden' = hidden \cup StillCommitted(cmd.reads, store.records)
  /\ UNCHANGED <<store, log, lastSeq, compacted, writerTime, guards>>

-----------------------------------------------------------------------------
(* commit_direct_data: retire, make room, log and publish.                 *)

(* retire_dead_keys visits the candidates in key order. *)
RetireDeadKey(k) ==
  LET s == Retire(staged, k)
  IN /\ phase = "finalize"
     /\ \A other \in staged.candidates : k <= other
     /\ \/ ~ReachesThreshold(staged, k) /\ staged' = s
        \/ /\ ReachesThreshold(staged, k)
           /\ RotationAccepted(s)
           /\ staged' = Rotate(s)
     /\ UNCHANGED <<store, phase, cmd, log, lastSeq, compacted, writerTime,
                    hidden, guards>>

OverCapacity(s, max) == Cardinality(Tracked(s)) > max

RotateForCapacity ==
  /\ phase = "finalize"
  /\ staged.candidates = {}
  /\ OverCapacity(staged, MaxTrackedKeys)
  /\ RetiredKeys(staged) # {}
  /\ RotationAccepted(staged)
  /\ staged' = Rotate(staged)
  /\ cmd' = [cmd EXCEPT !.rotations = @ + 1]
  /\ UNCHANGED <<store, phase, log, lastSeq, compacted, writerTime, hidden,
                 guards>>

(* ReplicationReplayPolicy::validate *)
PolicyAccepted == cmd.rotations <= 2

Compact(entries) ==
  IF Len(entries) <= MaxReplicationEntries THEN entries
  ELSE SubSeq(entries, Len(entries) - MaxReplicationEntries + 1, Len(entries))

CompactedThrough(entries) ==
  IF Len(entries) <= MaxReplicationEntries THEN compacted
  ELSE MaxOf(compacted, entries[Len(entries) - MaxReplicationEntries].seq)

(* Mutant: a commit leaves every mark in place. *)
KeptMarksAll(old, new) == hidden

(* publish_staged_data drops the mark of every record the commit changed. *)
KeptMarks(old, new) == {k \in hidden : new.records[k] = old.records[k]}

Commit ==
  /\ phase = "finalize"
  /\ staged.candidates = {}
  /\ ~OverCapacity(staged, MaxTrackedKeys)
  /\ PolicyAccepted
  /\ LET entries == Append(log, [seq |-> lastSeq + 1, op |-> cmd.op,
                                 time |-> cmd.now,
                                 rotations |-> cmd.rotations])
     IN log' = Compact(entries) /\ compacted' = CompactedThrough(entries)
  /\ lastSeq' = lastSeq + 1
  /\ store' = [staged EXCEPT !.committedTime = cmd.now]
  /\ hidden' = KeptMarks(store, staged)
               \cup StillCommitted(cmd.reads, staged.records)
  /\ guards' = IF cmd.guard = None THEN guards ELSE guards \cup {cmd.guard}
  /\ phase' = "idle"
  /\ staged' = store'
  /\ cmd' = NoCommand
  /\ UNCHANGED writerTime

-----------------------------------------------------------------------------
EmptyStore ==
  [records |-> [k \in Keys |-> None],
   leases |-> [k \in Keys |-> None],
   fences |-> [k \in Keys |-> 0],
   retired |-> [k \in Keys |-> NotRetired],
   candidates |-> {},
   retention |-> [epoch |-> 0, floorPrev |-> 0, floorCur |-> 0,
                  retiredMax |-> 0, retiredCount |-> 0],
   committedTime |-> 0,
   nextFence |-> 1,
   nextCred |-> 1]

Init ==
  /\ store = EmptyStore
  /\ staged = EmptyStore
  /\ phase = "idle"
  /\ cmd = NoCommand
  /\ log = <<>>
  /\ lastSeq = 0
  /\ compacted = 0
  /\ writerTime = 0
  /\ hidden = {}
  /\ guards = {}

LeaseStep(sample) ==
  \/ \E k \in Keys, owner \in Owners, ttl \in LeaseTtls :
       Acquire(k, owner, ttl, sample)
  \/ \E g \in guards, ttl \in LeaseTtls : Renew(g, ttl, sample)
  \/ \E g \in guards : Release(g, sample)

DataStep(sample) ==
  \/ \E k \in Keys : Get(k, sample)
  \/ \E g, author \in guards, expected \in Generations \cup {None} :
       author.key = g.key /\ CompareAndSet(g, author, expected, sample)
  \/ \E g \in guards : DeleteFenced(g, sample)
  \/ \E g \in guards, ttl \in RecordTtls : RefreshTtl(g, ttl, sample)
  \/ BatchStart(sample)

BatchStep ==
  \/ \E g \in guards, expected \in Generations \cup {None} :
       BatchCas(g, expected)
  \/ \E g \in guards : BatchDelete(g)
  \/ \E g \in guards, ttl \in RecordTtls : BatchRefresh(g, ttl)
  \/ \E k \in Keys : BatchGet(k)
  \/ BatchEnd

FinalizeStep ==
  \/ \E k \in staged.candidates : RetireDeadKey(k)
  \/ RotateForCapacity
  \/ Commit

Next ==
  \/ \E sample \in 0..MaxTime : LeaseStep(sample) \/ DataStep(sample)
  \/ BatchStep
  \/ FinalizeStep

Spec == Init /\ [][Next]_vars

-----------------------------------------------------------------------------
(* Correctness.                                                            *)

Command == [op : Ops, now : Nat, rotations : Nat, guard : Guard \cup {None},
            reads : SUBSET (Keys \X Record)]
Entry == [seq : Nat, op : Ops, time : Nat, rotations : Nat]

(* Every variable has the shape of the Rust field it stands for. *)
TypeOK ==
  /\ store \in StoreState
  /\ staged \in StoreState
  /\ phase \in {"idle", "batch", "finalize"}
  /\ cmd \in Command
  /\ log \in Seq(Entry)
  /\ lastSeq \in Nat
  /\ compacted \in Nat
  /\ writerTime \in Nat
  /\ hidden \subseteq Keys
  /\ guards \subseteq Guard

(* The fence every observer of a key reads is never below a fence that was *)
(* handed out for it, also after the key's exact history has been dropped  *)
(* and only the absent floor of KeyRetention speaks for it.                *)
IssuedFencesObserved ==
  \A g \in guards : g.fence <= CurrentFence(store, g.key)

(* No two acquisitions share a fence token: one that reappears names the   *)
(* same key, owner and credential (a renewal), across keys, releases,      *)
(* expiries and dropped history.                                           *)
FencesNeverReused ==
  \A g, h \in guards :
    g.fence = h.fence => /\ g.key = h.key
                         /\ g.owner = h.owner
                         /\ g.cred = h.cred

(* A guard that may still mutate its key (validate_fenced_mutation accepts *)
(* it at some command time from now on) holds the newest fence issued for  *)
(* the key: a paused former owner is fenced off by any later acquisition.  *)
HolderIsNewest ==
  \A g, h \in guards :
    /\ g.key = h.key
    /\ Validates(store, g, MaxOf(writerTime, store.committedTime))
    => h.fence <= g.fence

(* The observed fence of a key never goes back. *)
FenceNeverDecreases ==
  [][\A k \in Keys : CurrentFence(store, k) <= CurrentFence(store', k)]_vars

(* A committed record is never replaced by one written under an older      *)
(* fence, whether by a single mutation or inside a batch.                  *)
WritesFollowFences ==
  [][\A k \in Keys :
       store.records[k] # None /\ store'.records[k] # None
         => store.records[k].fence <= store'.records[k].fence]_vars

(* A command admitted by ensure_key_capacity is never refused while it is  *)
(* finalized: the exact index agrees with the floors at every rotation, a  *)
(* retired key is there to drop whenever the tracked keys exceed the       *)
(* limit, and two capacity rotations suffice.                              *)
FinalizationSucceeds ==
  phase = "finalize" =>
    /\ \A k \in staged.candidates :
         ReachesThreshold(staged, k) => RotationAccepted(Retire(staged, k))
    /\ staged.candidates = {} =>
         /\ OverCapacity(staged, MaxTrackedKeys) =>
              RetiredKeys(staged) # {} /\ RotationAccepted(staged)
         /\ ~OverCapacity(staged, MaxTrackedKeys) => PolicyAccepted

(* KeyRetention::valid and valid_retired_fence, which the persistent       *)
(* backends check when they load a state, hold of every staged state: the  *)
(* exact history covers the current and the previous epoch only, below the *)
(* floor that will replace it.                                             *)
RetentionValid(s) ==
  LET r == s.retention
  IN /\ r.floorPrev <= r.floorCur
     /\ r.floorCur < s.nextFence
     /\ r.retiredMax < s.nextFence
     /\ r.retiredCount < RetiredKeysPerEpoch
     /\ r.retiredCount = 0 => r.retiredMax = 0
     /\ r.epoch = 0 => r.floorPrev = 0 /\ r.floorCur = 0
     /\ r.epoch # 0 => r.floorPrev < r.floorCur

RetiredFencesValid(s) ==
  \A k \in RetiredKeys(s) :
    \/ s.retired[k] = s.retention.epoch /\ s.fences[k] <= s.retention.retiredMax
    \/ /\ s.retired[k] = s.retention.epoch - 1
       /\ s.fences[k] < s.retention.floorCur

ExactHistoryValid == RetentionValid(staged) /\ RetiredFencesValid(staged)

(* An expiry a reader has observed survives clock rewinds and unrelated    *)
(* commits until the record changes. It then goes with the record, unless  *)
(* the changing batch itself read the record it left behind as expired: a  *)
(* live record is never born hidden, and the marks stay bounded by the     *)
(* committed records.                                                      *)
ExpiryMarksFollowRecords ==
  /\ [](\A k \in hidden : store.records[k] # None)
  /\ [][\A k \in hidden :
          (k \in hidden') <=>
            \/ store'.records[k] = store.records[k]
            \/ k \in StillCommitted(cmd.reads, store'.records)]_vars

-----------------------------------------------------------------------------
(* The abstract specification.                                             *)

(* The committed lease as its users see it: a released one is none. *)
HeldLease(k) ==
  IF store.leases[k] # None /\ store.leases[k].status = "active"
  THEN [owner |-> store.leases[k].owner, fence |-> store.leases[k].fence,
        exp |-> store.leases[k].exp]
  ELSE None

Leases == INSTANCE FencedLeases WITH
  time <- store.committedTime,
  lease <- [k \in Keys |-> HeldLease(k)],
  record <- store.records,
  issued <- {g.fence : g \in guards}

(* The staged, pruned, batched and history-bounded backend is a fenced     *)
(* lease service: whatever the clock does and whatever finalization drops, *)
(* each commit is one grant with a fresh fence, renewal, release or write  *)
(* in the name of unexpired holders, and nothing else is ever visible.     *)
ImplementsFencedLeases == Leases!LeaseSpec

=============================================================================
