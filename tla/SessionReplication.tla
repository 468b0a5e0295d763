------------------------- MODULE SessionReplication -------------------------
(***************************************************************************)
(* A replica of the session store fed with the source's replication log    *)
(* (fake/mod.rs: replicate_entry, rebuild_replication_state and            *)
(* apply_committed_replication_entry). Entries may reach the replica late, *)
(* again or out of order; every replay recomputes retirement and threshold *)
(* rotations by itself and takes only the capacity rotations from the      *)
(* entry's ReplicationReplayPolicy.                                        *)
(***************************************************************************)
EXTENDS SessionStore

CONSTANT ReplicaLimit  \* the replica's own max_tracked_keys

ASSUME ReplicaLimitAssumption == ReplicaLimit \in Nat
ASSUME NoneIsNoState == None \notin StoreState

VARIABLES
  replica,  \* the replica's FakeBackendState with its log
  sent,     \* every entry the source has committed, by sequence
  history   \* the source's committed state after each sequence

replVars == <<replica, sent, history>>

EmptyReplica ==
  [state |-> EmptyStore, seq |-> 0, log |-> <<>>, compacted |-> 0]

-----------------------------------------------------------------------------
(* apply_replicated_op_with_state. Each operation has a check on the state *)
(* it meets and an effect.                                                 *)

OwnedBy(s, op) ==
  /\ s.fences[op.key] = op.fence /\ op.fence # 0
  /\ s.leases[op.key] # None
  /\ s.leases[op.key].status = "active"
  /\ s.leases[op.key].owner = op.owner
  /\ s.leases[op.key].fence = op.fence

(* Mutant: replay does not advance the fence counter. *)
RaiseNextForgotten(s, op) == s

RaiseNext(s, op) == [s EXCEPT !.nextFence = MaxOf(s.nextFence, op.fence + 1)]

RaiseCred(s, op) == [s EXCEPT !.nextCred = MaxOf(s.nextCred, op.cred + 1)]

LeaseOf(op) == [status |-> "active", cred |-> op.cred, owner |-> op.owner,
                fence |-> op.fence, exp |-> op.exp]

(* The fence a replayed acquisition must exceed: the exact one, or for an  *)
(* absent key the previous floor.                                          *)
ReplayedPrevious(s, k) ==
  IF s.fences[k] # 0 THEN s.fences[k] ELSE s.retention.floorPrev

AcquireReplays(s, op, now) ==
  /\ op.fence > ReplayedPrevious(s, op.key)
  /\ HasCapacity(s, op.key, ReplicaLimit)
  /\ ~HeldByAnother(s, op.key, op.owner, now)

RenewReplays(s, op) ==
  /\ OwnedBy(s, op)
  /\ s.leases[op.key].cred = op.cred
  /\ HasCapacity(s, op.key, ReplicaLimit)

PutLease(s, op) ==
  RaiseCred(RaiseNext(SetFence([s EXCEPT !.leases[op.key] = LeaseOf(op)],
                               op.key, op.fence), op), op)

EndLease(s, op) ==
  RaiseNext(SetFence([s EXCEPT !.leases[op.key].status = "released"],
                     op.key, op.fence), op)

CasReplays(s, op, now) ==
  LET r == op.record
      guard == [key |-> op.key, owner |-> r.owner, fence |-> r.fence,
                cred |-> op.cred, exp |-> op.guardExp]
  IN /\ Validates(s, guard, now)
     /\ HasCapacity(s, op.key, ReplicaLimit)
     /\ GenerationAccepted(s, op.key, op.expected, r, now)

RowReplays(s, op) == OwnedBy(s, op) /\ HasCapacity(s, op.key, ReplicaLimit)

ReplayAccepted(s, op, now) ==
  CASE op.kind = "acquire" -> AcquireReplays(s, op, now)
    [] op.kind \in {"renew", "release"} -> RenewReplays(s, op)
    [] op.kind = "cas" -> CasReplays(s, op, now)
    [] op.kind = "delete" -> RowReplays(s, op)
    [] op.kind = "refresh" -> RowReplays(s, op) /\ s.records[op.key] # None

(* Mutant: a replayed refresh keeps the record's old deadline. *)
ReplayOpKeepsExpiry(s, op) ==
  CASE op.kind \in {"acquire", "renew"} -> PutLease(s, op)
    [] op.kind = "release" -> EndLease(s, op)
    [] op.kind = "cas" -> SetFence([s EXCEPT !.records[op.key] = op.record],
                                   op.key, op.record.fence)
    [] op.kind = "delete" -> SetFence([s EXCEPT !.records[op.key] = None],
                                      op.key, op.fence)
    [] op.kind = "refresh" -> SetFence(s, op.key, op.fence)

ReplayOp(s, op) ==
  CASE op.kind \in {"acquire", "renew"} -> PutLease(s, op)
    [] op.kind = "release" -> EndLease(s, op)
    [] op.kind = "cas" -> SetFence([s EXCEPT !.records[op.key] = op.record],
                                   op.key, op.record.fence)
    [] op.kind = "delete" ->
         RaiseNext(SetFence([s EXCEPT !.records[op.key] = None],
                            op.key, op.fence), op)
    [] op.kind = "refresh" ->
         RaiseNext(SetFence([s EXCEPT !.records[op.key].exp = op.exp],
                            op.key, op.fence), op)

-----------------------------------------------------------------------------
(* apply_committed_replication_entry. None stands for an error: the staged *)
(* copy is thrown away.                                                    *)

ReplayStep(s, op, now) ==
  IF s # None /\ ReplayAccepted(s, op, now) THEN ReplayOp(s, op) ELSE None

(* The operations of an entry, one after the other. *)
ReplayAll(s, ops, now) ==
  LET after[i \in 0..Len(ops)] ==
        IF i = 0 THEN s ELSE ReplayStep(after[i - 1], ops[i], now)
  IN after[Len(ops)]

(* retire_dead_keys at key k, which it passes over unless k is a candidate. *)
VisitKey(s, k) ==
  IF s = None \/ k \notin s.candidates THEN s
  ELSE IF ~ReachesThreshold(s, k) THEN Retire(s, k)
  ELSE IF RotationAccepted(Retire(s, k)) THEN Rotate(Retire(s, k))
  ELSE None

(* One more than the last key. *)
KeysEnd ==
  CHOOSE n \in {0} \cup {k + 1 : k \in Keys} : \A k \in Keys : k < n

(* The candidates in key order: the keys below n, and all of them. *)
RetireBelow(s, n) ==
  LET visited[i \in 0..n] ==
        IF i = 0 THEN s ELSE VisitKey(visited[i - 1], i - 1)
  IN visited[n]

RetireAll(s) == RetireBelow(s, KeysEnd)

RotateStep(s) ==
  IF s # None /\ RetiredKeys(s) # {} /\ RotationAccepted(s)
  THEN Rotate(s) ELSE None

RotateTimes(s, n) ==
  LET rotated[i \in 0..n] ==
        IF i = 0 THEN s ELSE RotateStep(rotated[i - 1])
  IN rotated[n]

EntryOps(entry) == IF entry.op.kind = "batch" THEN entry.op.ops ELSE <<entry.op>>

Replay(s, entry) ==
  LET applied == ReplayAll(Prune(s, entry.time), EntryOps(entry), entry.time)
      rotated == RotateTimes(RetireAll(applied), entry.rotations)
  IN IF rotated = None \/ OverCapacity(rotated, ReplicaLimit) THEN None
     ELSE [rotated EXCEPT !.committedTime = MaxOf(s.committedTime, entry.time)]

(* The replica with one more entry in its compacted log. *)
Extended(r, entry) ==
  LET entries == Append(r.log, entry)
      over == Len(entries) - MaxReplicationEntries
  IN [state |-> Replay(r.state, entry),
      seq |-> entry.seq,
      log |-> Compact(entries),
      compacted |-> IF over <= 0 THEN r.compacted
                    ELSE MaxOf(r.compacted, entries[over].seq)]

-----------------------------------------------------------------------------
ReplInit == Init /\ replica = EmptyReplica /\ sent = <<>> /\ history = <<>>

(* The source runs on its own; a commit ships one entry. *)
SourceStep ==
  /\ Next
  /\ UNCHANGED replica
  /\ IF lastSeq' = lastSeq THEN UNCHANGED <<sent, history>>
     ELSE /\ sent' = Append(sent, [seq |-> lastSeq + 1, op |-> cmd.op,
                                   time |-> cmd.now,
                                   rotations |-> cmd.rotations])
          /\ history' = Append(history, store')

(* replicate_entry with the next sequence: applied, or refused whole. *)
ReplicateNext ==
  /\ phase = "idle"
  /\ replica.seq < Len(sent)
  /\ LET entry == sent[replica.seq + 1]
     IN replica' = IF Replay(replica.state, entry) = None THEN replica
                   ELSE Extended(replica, entry)
  /\ UNCHANGED <<vars, sent, history>>

(* Mutant: looks for a compacted duplicate in the log. *)
DivergentCompacted(entry) ==
  ~\E i \in DOMAIN replica.log : replica.log[i] = entry

(* replicate_entry with a sequence the replica has: a duplicate is         *)
(* accepted below the compaction point or when it equals the logged entry. *)
Divergent(entry) ==
  /\ entry.seq > replica.compacted
  /\ ~\E i \in DOMAIN replica.log : replica.log[i] = entry

(* rebuild_replication_state from a prefix of the source's full log, which *)
(* a compacted source can no longer supply.                                *)
RebuildStep(r, entry) ==
  IF r = None \/ Replay(r.state, entry) = None THEN None
  ELSE Extended(r, entry)

Rebuilt(n) ==
  LET rebuilt[i \in 0..n] ==
        IF i = 0 THEN EmptyReplica ELSE RebuildStep(rebuilt[i - 1], sent[i])
  IN rebuilt[n]

Rebuild(n) ==
  /\ phase = "idle"
  /\ compacted = 0
  /\ replica' = IF Rebuilt(n) = None THEN replica ELSE Rebuilt(n)
  /\ UNCHANGED <<vars, sent, history>>

ReplNext ==
  \/ SourceStep
  \/ ReplicateNext
  \/ \E n \in 0..Len(sent) : Rebuild(n)

ReplSpec == ReplInit /\ [][ReplNext]_<<vars, replVars>>

-----------------------------------------------------------------------------
(* Correctness.                                                            *)

(* At every sequence the replica's records, leases, fences, retired        *)
(* history, floors and counters are exactly the ones the source committed  *)
(* there, although it recomputes expiry, retirement order and threshold    *)
(* rotations from the entries alone; and it never gets stuck: with room    *)
(* for the source's keys it does not refuse the next entry.                *)
ReplicaFollowsSource ==
  /\ replica.state = IF replica.seq = 0 THEN EmptyStore
                     ELSE history[replica.seq]
  /\ ReplicaLimit >= MaxTrackedKeys /\ replica.seq < Len(sent)
       => Replay(replica.state, sent[replica.seq + 1]) # None

(* A redelivered entry is never reported as divergent. *)
RedeliveryIdempotent ==
  \A i \in 1..replica.seq : ~Divergent(sent[i])

=============================================================================
