-------------------------------- MODULE Repin --------------------------------
(***************************************************************************)
(* Ownership of one destination-scoped SA in opc-ipsec-lb: the             *)
(* RePinCoordinator (repin.rs) moves it through the record of a session    *)
(* store (SessionStoreOwnershipFencer, session.rs) and publishes it in the *)
(* maps of the Host-XDP backend it runs beside (xdp.rs).                   *)
(*                                                                         *)
(* A record is born pending, bound to an activation; it is activated, may  *)
(* be moved to other owners by re-pins, and is retired and deleted in two  *)
(* phases.  Each change takes a lease, whose fence becomes the record's,   *)
(* and a compare-and-set on the record's generation number.  A host entry  *)
(* steers when its generation is the key's fence.                          *)
(*                                                                         *)
(* Every await of the code is a step; an operation may be dropped at any   *)
(* of them.  Audit writes, counter proofs and shard-owner reads only       *)
(* decide whether the operation goes on: Fails.                            *)
(***************************************************************************)
EXTENDS Integers, Sequences

CONSTANTS
  Hosts,        \* nodes with a Host-XDP backend
  Procs,        \* coordinator calls in progress at once
  Owners,       \* cluster nodes an SA can be steered to
  None,
  MaxRequests,  \* bound: activation and re-pin requests
  MaxBirths,    \* bound: births of the record
  MaxFence,     \* bound: leases granted
  MaxFaults     \* bound: lost answers, dropped calls, expiries, restarts

ASSUME RepinAssumption ==
  /\ None \notin Owners
  /\ \A n \in {MaxRequests, MaxBirths, MaxFence, MaxFaults} : n \in Nat

VARIABLES
  reqs,      \* the requests made; a request's index is its transition id
  record,    \* the ownership record, or None
  lease,     \* the lease on its key: owner and fence, or None
  nextFence, \* the fence the next lease gets; deletion does not reset it
  late,      \* a compare-and-set still under way after its caller saw an error
  op,        \* the coordinator call of each process
  entry,     \* each host's map entry: key fence, owner, owner generation
  poisoned,  \* hosts whose operation stripe takes no more operations
  births,    \* the number of births so far
  faults,
  commits,   \* history: every activation, re-pin and retirement committed
  floors     \* history: the highest generation each host published and
             \* the last retirement fence it cleaned up under

storeVars == <<record, lease, nextFence, late, commits>>
hostVars  == <<entry, floors>>
vars == <<reqs, storeVars, hostVars, op, poisoned, births, faults>>

-----------------------------------------------------------------------------
(* Host entries.                                                           *)

NoEntry == [fence |-> 0, owner |-> None, gen |-> 0]

Live(e) == e.owner # None /\ e.gen = e.fence

-----------------------------------------------------------------------------
(* Calls.  host is the node of the coordinator; fence the fence being      *)
(* published, or the active fence being retired; retire the retirement     *)
(* fence; gen the generation read; lease the fence of the call's own       *)
(* lease.                                                                  *)

Idle == [pc |-> "idle", host |-> None, tid |-> 0, fence |-> 0,
         retire |-> 0, gen |-> 0, lease |-> 0]

Called(h, t) == [Idle EXCEPT !.host = h, !.tid = t]

(* An armed retirement permit that is not classified yet. *)
Unclassified == {"retireRead", "retireAcquire", "retireCas", "retireRecover"}

(* The operation permit is held for a call's whole duration, not between   *)
(* a partial failure and its retry.                                        *)
HasPermit(p) == op[p].pc \notin {"idle", "partial"}

(* Mutant: the stripe's mutex is not awaited. *)
PermitFreeAlways(h) == ~poisoned[h]

PermitFree(h) ==
  /\ ~poisoned[h]
  /\ \A p \in Procs : op[p].host = h => ~HasPermit(p)

Go(p, pc) == op' = [op EXCEPT ![p].pc = pc]

End(p) == op' = [op EXCEPT ![p] = Idle]

(* A call that ends with the retirement unclassified poisons its stripe. *)
EndPoisoned(p) ==
  /\ End(p)
  /\ poisoned' = [poisoned EXCEPT ![op[p].host] = TRUE]

Fault == faults < MaxFaults /\ faults' = faults + 1

-----------------------------------------------------------------------------
(* What the record says of a request.                                      *)

(* Mutant: a committed activation is not recognised as its own. *)
ActivationStateForgetful(t) ==
  IF record # None /\ record.state # "retiring" /\ record.tid = t
     /\ record.owner = reqs[t].owner
  THEN "open" ELSE "conflict"

(* classify_activation *)
ActivationState(t) ==
  IF record = None \/ record.tid # t \/ record.owner # reqs[t].owner
  THEN "conflict"
  ELSE CASE record.state = "pending" -> "open"
         [] record.state = "active" -> "done"
         [] OTHER -> "conflict"

(* recover *)
RepinState(t) ==
  IF record = None \/ record.state # "active" THEN "conflict"
  ELSE CASE record.owner = reqs[t].previous
              /\ record.fence = reqs[t].previousFence -> "open"
         [] record.owner # reqs[t].previous
              /\ record.owner = reqs[t].owner /\ record.tid = t -> "done"
         [] OTHER -> "conflict"

RequestState(t) ==
  IF reqs[t].kind = "activate" THEN ActivationState(t) ELSE RepinState(t)

(* exact_retirement_grant, the expected active record and                  *)
(* superseded_retirement_proof, in this order.                             *)
RetirementState(t, active) ==
  IF record = None THEN "absent"
  ELSE CASE record.state = "retiring" /\ record.tid = t
              /\ record.active = active /\ record.fence > active -> "granted"
         [] record.state = "active" /\ record.tid = t
              /\ record.fence = active -> "active"
         [] OTHER -> "conflict"

(* classify_retirement_finalization: the exact lineage at or above the     *)
(* grant.                                                                  *)
Finalizable(p) ==
  /\ record # None
  /\ record.state = "retiring"
  /\ record.tid = op[p].tid
  /\ record.active = op[p].fence
  /\ record.fence >= op[p].retire

(* validate_retry_proof *)
ProofHolds(p) ==
  /\ record # None
  /\ record.state = "active"
  /\ record.tid = op[p].tid
  /\ record.fence = op[p].fence

-----------------------------------------------------------------------------
(* The session store, for this key.                                        *)

LeaseFreeFor(owner) == lease # None => lease.owner = owner

LeaseHeld(fence) == lease # None /\ lease.fence = fence

(* acquire_lease_cleanup: a lease is granted when the key is free or the   *)
(* owner's own.                                                            *)
Acquire(p, granted, refused) ==
  LET owner == reqs[op[p].tid].owner
  IN /\ \/ /\ LeaseFreeFor(owner)
           /\ nextFence <= MaxFence
           /\ lease' = [owner |-> owner, fence |-> nextFence]
           /\ nextFence' = nextFence + 1
           /\ op' = [op EXCEPT ![p].pc = granted, ![p].lease = nextFence]
           /\ UNCHANGED poisoned
        \/ /\ ~(LeaseFreeFor(owner) /\ nextFence <= MaxFence)
           /\ refused
           /\ UNCHANGED <<lease, nextFence>>
     /\ UNCHANGED <<reqs, record, late, commits, hostVars, births, faults>>

(* Where a call works under its lease. *)
Leased == {"reread", "cas", "retireCas", "finalReread", "refresh",
           "refreshed", "delete"}

(* A lease is released once its call is done with it, or expires. *)
InUse == \E p \in Procs : /\ lease # None
                          /\ op[p].lease = lease.fence
                          /\ op[p].pc \in Leased

LeaseEnds ==
  /\ lease # None
  /\ lease' = None
  /\ IF InUse THEN Fault ELSE UNCHANGED faults
  /\ UNCHANGED <<reqs, record, nextFence, late, commits, hostVars, op,
                 poisoned, births>>

(* compare_and_set: under the lease that holds, on the generation named.   *)
CasAccepted(c) ==
  /\ LeaseHeld(c.new.fence)
  /\ record # None
  /\ record.gen = c.gen

(* A refreshed Retiring record is no commit of its own. *)
Apply(c) ==
  /\ record' = c.new
  /\ commits' = IF c.refresh THEN commits
                ELSE commits \cup
                  {[tid |-> c.new.tid, state |-> c.new.state,
                    fence |-> c.new.fence, owner |-> c.new.owner,
                    life |-> births, overTid |-> record.tid]}

(* The compare-and-set of call p, which goes on with success or failure;   *)
(* an error may hide one that has been applied, or still will be.          *)
Cas(p, c, success, failure) ==
  /\ \/ CasAccepted(c) /\ Apply(c) /\ success /\ UNCHANGED <<late, faults>>
     \/ CasAccepted(c) /\ Apply(c) /\ failure /\ Fault /\ UNCHANGED late
     \/ ~CasAccepted(c) /\ failure
        /\ UNCHANGED <<record, commits, late, faults>>
     \/ late = None /\ late' = c /\ failure /\ Fault
        /\ UNCHANGED <<record, commits>>
  /\ UNCHANGED <<reqs, lease, nextFence, hostVars, poisoned, births>>

LateCas ==
  /\ late # None
  /\ late' = None
  /\ IF CasAccepted(late) THEN Apply(late) ELSE UNCHANGED <<record, commits>>
  /\ UNCHANGED <<reqs, lease, nextFence, hostVars, op, poisoned, births,
                 faults>>

-----------------------------------------------------------------------------
(* Requests.                                                               *)

(* pending_activation_birth_record, and the create-only compare-and-set of *)
(* its caller under a lease of the owner.                                  *)
Birth(owner) ==
  /\ Len(reqs) < MaxRequests
  /\ births < MaxBirths
  /\ nextFence <= MaxFence
  /\ record = None
  /\ LeaseFreeFor(owner)
  /\ reqs' = Append(reqs, [kind |-> "activate", owner |-> owner,
                           previous |-> None, previousFence |-> 0])
  /\ record' = [gen |-> 1, owner |-> owner, fence |-> nextFence,
                state |-> "pending", tid |-> Len(reqs) + 1, active |-> 0]
  /\ lease' = [owner |-> owner, fence |-> nextFence]
  /\ nextFence' = nextFence + 1
  /\ births' = births + 1
  /\ UNCHANGED <<late, commits, hostVars, op, poisoned, faults>>

(* A re-pin request names the owner and fence its caller reads. *)
PrepareRepin(owner) ==
  /\ Len(reqs) < MaxRequests
  /\ record # None
  /\ record.state = "active"
  /\ record.owner # owner
  /\ reqs' = Append(reqs, [kind |-> "repin", owner |-> owner,
                           previous |-> record.owner,
                           previousFence |-> record.fence])
  /\ UNCHANGED <<storeVars, hostVars, op, poisoned, births, faults>>

-----------------------------------------------------------------------------
(* activate and repin.  Any request may be replayed at any time.           *)

Start(p, h, t) ==
  /\ op[p].pc = "idle"
  /\ PermitFree(h)
  /\ op' = [op EXCEPT ![p] = [Called(h, t) EXCEPT !.pc = "recover"]]
  /\ UNCHANGED <<reqs, storeVars, hostVars, poisoned, births, faults>>

(* A re-pin validates its grant again before it publishes; an activation   *)
(* does not.                                                               *)
Granted(p, fence) ==
  op' = [op EXCEPT ![p].fence = fence, ![p].lease = 0,
                   ![p].pc = IF reqs[op[p].tid].kind = "repin"
                             THEN "validate" ELSE "publish"]

(* recover_fence_grant, recover_activation_grant: before the mutation, and *)
(* after an error of it.                                                   *)
Recover(p) ==
  /\ op[p].pc \in {"recover", "recoverAgain"}
  /\ CASE RequestState(op[p].tid) = "done" -> Granted(p, record.fence)
       [] RequestState(op[p].tid) = "open" /\ op[p].pc = "recover" ->
            Go(p, "read")
       [] OTHER -> End(p)
  /\ UNCHANGED <<reqs, storeVars, hostVars, poisoned, births, faults>>

(* The read of promote or activate before the lease. *)
Read(p) ==
  LET t == op[p].tid
  IN /\ op[p].pc = "read"
     /\ CASE RequestState(t) = "done" /\ reqs[t].kind = "activate" ->
               Granted(p, record.fence)
          [] RequestState(t) = "open" ->
               op' = [op EXCEPT ![p].pc = "acquire", ![p].gen = record.gen]
          [] OTHER -> Go(p, "recoverAgain")
     /\ UNCHANGED <<reqs, storeVars, hostVars, poisoned, births, faults>>

(* Mutant: activate trusts the read it made before the lease. *)
RereadTrusting(p) ==
  /\ op[p].pc = "reread"
  /\ Go(p, "cas")
  /\ UNCHANGED <<reqs, storeVars, hostVars, poisoned, births, faults>>

(* activate reads again under its lease; promote does not. *)
Reread(p) ==
  LET t == op[p].tid
  IN /\ op[p].pc = "reread"
     /\ CASE RequestState(t) = "done" -> Granted(p, record.fence)
          [] RequestState(t) = "open" ->
               op' = [op EXCEPT ![p].pc = "cas", ![p].gen = record.gen]
          [] OTHER -> Go(p, "recoverAgain")
     /\ UNCHANGED <<reqs, storeVars, hostVars, poisoned, births, faults>>

AcquireToCommit(p) ==
  /\ op[p].pc = "acquire"
  /\ Acquire(p, IF reqs[op[p].tid].kind = "activate" THEN "reread" ELSE "cas",
             Go(p, "recoverAgain") /\ UNCHANGED poisoned)

CommitCas(p) ==
  [gen |-> op[p].gen, refresh |-> FALSE,
   new |-> [gen |-> op[p].gen + 1, owner |-> reqs[op[p].tid].owner,
            fence |-> op[p].lease, state |-> "active", tid |-> op[p].tid,
            active |-> 0]]

(* Mutant: an error of the compare-and-set is taken for a commit. *)
CommitHopeful(p) ==
  /\ op[p].pc = "cas"
  /\ Cas(p, CommitCas(p), Granted(p, op[p].lease), Granted(p, op[p].lease))

Commit(p) ==
  /\ op[p].pc = "cas"
  /\ Cas(p, CommitCas(p), Granted(p, op[p].lease),
         Go(p, "recoverAgain"))

(* continue_from_grant and continue_committed: the proof is read again     *)
(* before any side effect.                                                 *)
Validate(p) ==
  /\ op[p].pc = "validate"
  /\ Go(p, IF ProofHolds(p) THEN "publish" ELSE "partial")
  /\ UNCHANGED <<reqs, storeVars, hostVars, poisoned, births, faults>>

(* apply_keyed_owner_under_gate refuses to replace a newer entry and       *)
(* anything else of the generation being published: another owner, or a    *)
(* fence that no owner goes with.                                          *)
Regresses(e, g) == e.fence > g \/ e.gen > g

Conflicts(e, owner, g) ==
  \/ e.gen = g /\ e.owner # owner
  \/ e.fence = g /\ e.owner = None

(* quarantine_equal_generation_conflict: a live pair loses its fence, a    *)
(* single witness stays.                                                   *)
Quarantined(e, g) ==
  IF e.fence = g /\ e.gen = g THEN [e EXCEPT !.fence = 0] ELSE e

(* clear_keyed_state: the fence and the owner are removed one after the    *)
(* other, and each of them may stay.                                       *)
Cleared(e) == {NoEntry, [NoEntry EXCEPT !.fence = e.fence],
               [e EXCEPT !.fence = 0], e}

(* contain_indeterminate_keyed_state: what is still live is cut by the     *)
(* fence being published, everything else is left.                         *)
Contained(e, g) == IF Live(e) THEN [e EXCEPT !.fence = g] ELSE e

(* What a publication that stops half way leaves: of the old entry, or of  *)
(* the new one when it is taken back.  The new pair itself cannot be cut   *)
(* by its own fence: that host is quiesced and detached.                   *)
Interrupted(e, owner, g) ==
  LET new == [fence |-> g, owner |-> owner, gen |-> g]
  IN {Contained(left, g) : left \in Cleared(e) \cup Cleared(new)} \ {new}

(* What follows a publication that failed: nothing for an activation, a    *)
(* retry for a re-pin.                                                     *)
PublishFailed(p) ==
  IF reqs[op[p].tid].kind = "repin" THEN Go(p, "partial") ELSE End(p)

(* apply_fenced_repin_owner: refused, published (an exact entry is left as *)
(* it is), or stopped half way.                                            *)
Publish(p) ==
  LET h == op[p].host
      owner == reqs[op[p].tid].owner
      g == op[p].fence
      e == entry[h]
      exact == [fence |-> g, owner |-> owner, gen |-> g]
      refused == Regresses(e, g) \/ Conflicts(e, owner, g)
  IN /\ op[p].pc = "publish"
     /\ \/ /\ refused
           /\ entry' = IF Regresses(e, g) THEN entry
                       ELSE [entry EXCEPT ![h] = Quarantined(e, g)]
           /\ PublishFailed(p)
           /\ UNCHANGED <<floors, faults>>
        \/ /\ ~refused
           /\ entry' = [entry EXCEPT ![h] = exact]
           /\ floors' = [floors EXCEPT
                           ![h].published = IF g > @ THEN g ELSE @]
           /\ End(p)
           /\ UNCHANGED faults
        \/ /\ ~refused /\ e # exact
           /\ Fault
           /\ \E left \in Interrupted(e, owner, g) :
                entry' = [entry EXCEPT ![h] = left]
           /\ PublishFailed(p)
           /\ UNCHANGED floors
     /\ UNCHANGED <<reqs, storeVars, poisoned, births>>

(* retry: the permit is taken anew and the proof validated under it. *)
Retry(p) ==
  /\ op[p].pc = "partial"
  /\ PermitFree(op[p].host)
  /\ Go(p, "validate")
  /\ UNCHANGED <<reqs, storeVars, hostVars, poisoned, births, faults>>

(* The caller of a partial failure lets it go. *)
Abandon(p) ==
  /\ op[p].pc = "partial"
  /\ End(p)
  /\ UNCHANGED <<reqs, storeVars, hostVars, poisoned, births, faults>>

-----------------------------------------------------------------------------
(* retire_activation.                                                      *)

(* The caller retained the request and a fence it was activated under. *)
StartRetire(p, h, t) ==
  /\ op[p].pc = "idle"
  /\ PermitFree(h)
  /\ reqs[t].kind = "activate"
  /\ \E c \in commits :
       /\ c.tid = t /\ c.state = "active"
       /\ op' = [op EXCEPT ![p] = [Called(h, t) EXCEPT !.pc = "retireRead",
                                                       !.fence = c.fence]]
  /\ UNCHANGED <<reqs, storeVars, hostVars, poisoned, births, faults>>

RetireGranted(p, fence) ==
  op' = [op EXCEPT ![p].pc = "hostRetire", ![p].retire = fence,
                   ![p].lease = 0]

RetireRead(p) ==
  LET state == RetirementState(op[p].tid, op[p].fence)
  IN /\ op[p].pc = "retireRead"
     /\ CASE state = "granted" -> RetireGranted(p, record.fence)
          [] state = "active" ->
               op' = [op EXCEPT ![p].pc = "retireAcquire",
                                ![p].gen = record.gen]
          [] OTHER -> End(p)
     /\ UNCHANGED <<reqs, storeVars, hostVars, poisoned, births, faults>>

RetireAcquire(p) ==
  /\ op[p].pc = "retireAcquire"
  /\ Acquire(p, "retireCas", End(p) /\ UNCHANGED poisoned)

RetireRecord(p) ==
  [gen |-> op[p].gen + 1, owner |-> reqs[op[p].tid].owner,
   fence |-> op[p].lease, state |-> "retiring", tid |-> op[p].tid,
   active |-> op[p].fence]

RetireCas(p) ==
  /\ op[p].pc = "retireCas"
  /\ Cas(p, [gen |-> op[p].gen, refresh |-> FALSE, new |-> RetireRecord(p)],
         RetireGranted(p, op[p].lease), Go(p, "retireRecover"))

(* recover_retirement_after_write: only an exact readback classifies the   *)
(* permit; a missing record or a failed read does not.                     *)
RetireRecover(p) ==
  LET state == RetirementState(op[p].tid, op[p].fence)
  IN /\ op[p].pc = "retireRecover"
     /\ \/ /\ CASE state = "granted" -> /\ RetireGranted(p, record.fence)
                                        /\ UNCHANGED poisoned
                [] state = "absent" -> EndPoisoned(p)
                [] OTHER -> End(p) /\ UNCHANGED poisoned
           /\ UNCHANGED faults
        \/ EndPoisoned(p) /\ Fault
     /\ UNCHANGED <<reqs, storeVars, hostVars, births>>

(* retire_fenced_repin_owner_sync: a newer entry is left alone, a foreign  *)
(* one is only made stale, and the own one is cut by the retirement fence  *)
(* and removed, the fence last.                                            *)
Foreign(e, owner, active, retire) ==
  \/ e.fence \notin {0, active, retire}
  \/ e.owner # None /\ (e.owner # owner \/ e.gen # active)

HostRetire(p) ==
  LET h == op[p].host
      e == entry[h]
      retire == op[p].retire
      foreign == \/ Regresses(e, retire)
                 \/ Foreign(e, reqs[op[p].tid].owner, op[p].fence, retire)
  IN /\ op[p].pc = "hostRetire"
     /\ \/ /\ foreign
           /\ entry' = IF Live(e) /\ ~Regresses(e, retire)
                       THEN [entry EXCEPT ![h].fence = retire] ELSE entry
           /\ End(p)
           /\ UNCHANGED <<floors, faults>>
        \/ /\ ~foreign
           /\ entry' = [entry EXCEPT ![h] = NoEntry]
           /\ floors' = [floors EXCEPT ![h].retired = retire]
           /\ Go(p, "finalRead")
           /\ UNCHANGED faults
        \/ /\ ~foreign
           /\ e # NoEntry
           /\ Fault
           /\ \E left \in {[e EXCEPT !.fence = retire], NoEntry,
                           [NoEntry EXCEPT !.fence = retire]} :
                entry' = [entry EXCEPT ![h] = left]
           /\ End(p)
           /\ UNCHANGED floors
     /\ UNCHANGED <<reqs, storeVars, poisoned, births>>

(* finalize_retirement *)
FinalRead(p) ==
  /\ op[p].pc = "finalRead"
  /\ IF Finalizable(p) THEN Go(p, "finalAcquire") ELSE End(p)
  /\ UNCHANGED <<reqs, storeVars, hostVars, poisoned, births, faults>>

FinalAcquire(p) ==
  /\ op[p].pc = "finalAcquire"
  /\ Acquire(p, "finalReread", End(p) /\ UNCHANGED poisoned)

FinalReread(p) ==
  /\ op[p].pc = "finalReread"
  /\ IF Finalizable(p)
     THEN op' = [op EXCEPT ![p].pc = "refresh", ![p].gen = record.gen]
     ELSE End(p)
  /\ UNCHANGED <<reqs, storeVars, hostVars, poisoned, births, faults>>

Refresh(p) ==
  /\ op[p].pc = "refresh"
  /\ Cas(p, [gen |-> op[p].gen, refresh |-> TRUE, new |-> RetireRecord(p)],
         Go(p, "delete"), Go(p, "refreshed"))

(* The readback after a conflict or an error of the refresh. *)
RefreshReadback(p) ==
  /\ op[p].pc = "refreshed"
  /\ IF record = RetireRecord(p) THEN Go(p, "delete") ELSE End(p)
  /\ UNCHANGED <<reqs, storeVars, hostVars, poisoned, births, faults>>

(* Mutant: a delete that does not check the lease. *)
DeleteUnfenced(p) ==
  /\ op[p].pc = "delete"
  /\ record # None
  /\ record' = None
  /\ End(p)
  /\ UNCHANGED <<reqs, lease, nextFence, late, commits, hostVars, poisoned,
                 births, faults>>

(* delete_fenced; whatever its answer, only the result of the call differs.*)
Delete(p) ==
  /\ op[p].pc = "delete"
  /\ \/ /\ LeaseHeld(op[p].lease)
        /\ record' = None
        /\ UNCHANGED faults
     \/ /\ ~LeaseHeld(op[p].lease)
        /\ UNCHANGED <<record, faults>>
     \/ UNCHANGED record /\ Fault
  /\ End(p)
  /\ UNCHANGED <<reqs, lease, nextFence, late, commits, hostVars, poisoned,
                 births>>

-----------------------------------------------------------------------------
(* Cancellation, read and proof failures, and restarts.                    *)

(* A read, an acquisition, an audit write or a proof fails: promote and    *)
(* activate are followed by a recovery, a committed re-pin is kept for a   *)
(* retry, and every other call ends, its permit classified.                *)
Fails(p) ==
  LET pc == op[p].pc
  IN /\ HasPermit(p)
     /\ pc \notin {"cas", "retireCas", "retireRecover", "refresh", "delete"}
     /\ Fault
     /\ CASE pc \in {"read", "acquire", "reread"} -> Go(p, "recoverAgain")
          [] pc \in {"validate", "publish"} -> PublishFailed(p)
          [] OTHER -> End(p)
     /\ UNCHANGED <<reqs, storeVars, hostVars, poisoned, births>>

(* The call's future is dropped at an await: the permit goes, and an armed *)
(* one that is not classified poisons the stripe.                          *)
Drop(p) ==
  /\ HasPermit(p)
  /\ Fault
  /\ End(p)
  /\ poisoned' = [poisoned EXCEPT
                    ![op[p].host] = @ \/ op[p].pc \in Unclassified]
  /\ UNCHANGED <<reqs, storeVars, hostVars, births>>

(* merge_recovery_namespace: owners are recovered without their fence, a   *)
(* fence is recovered on its own, and a pair that disagrees keeps the host *)
(* from attaching again.                                                   *)
Restart(h) ==
  LET e == entry[h]
      mixed == e.owner # None /\ e.fence \notin {0, e.gen}
  IN /\ Fault
     /\ op' = [p \in Procs |-> IF op[p].host = h THEN Idle ELSE op[p]]
     /\ entry' = IF e.owner = None \/ mixed THEN entry
                 ELSE [entry EXCEPT ![h].fence = 0]
     /\ poisoned' = [poisoned EXCEPT ![h] = mixed]
     /\ UNCHANGED <<reqs, storeVars, floors, births>>

-----------------------------------------------------------------------------
Init ==
  /\ reqs = <<>>
  /\ record = None
  /\ lease = None
  /\ nextFence = 1
  /\ late = None
  /\ op = [p \in Procs |-> Idle]
  /\ entry = [h \in Hosts |-> NoEntry]
  /\ poisoned = [h \in Hosts |-> FALSE]
  /\ births = 0
  /\ faults = 0
  /\ commits = {}
  /\ floors = [h \in Hosts |-> [published |-> 0, retired |-> 0]]

Proceed(p) ==
  \/ Recover(p) \/ Read(p) \/ AcquireToCommit(p) \/ Reread(p) \/ Commit(p)
  \/ Validate(p) \/ Publish(p)
  \/ RetireRead(p) \/ RetireAcquire(p) \/ RetireCas(p) \/ RetireRecover(p)
  \/ HostRetire(p) \/ FinalRead(p) \/ FinalAcquire(p) \/ FinalReread(p)
  \/ Refresh(p) \/ RefreshReadback(p) \/ Delete(p)

Next ==
  \/ \E owner \in Owners : Birth(owner) \/ PrepareRepin(owner)
  \/ \E p \in Procs : \/ Proceed(p) \/ Retry(p) \/ Abandon(p)
                      \/ Fails(p) \/ Drop(p)
                      \/ \E h \in Hosts, t \in DOMAIN reqs :
                           Start(p, h, t) \/ StartRetire(p, h, t)
  \/ LeaseEnds
  \/ LateCas
  \/ \E h \in Hosts : Restart(h)

Spec == Init /\ [][Next]_vars

-----------------------------------------------------------------------------
(* Properties.                                                             *)

Requests == [kind : {"activate", "repin"}, owner : Owners,
             previous : Owners \cup {None}, previousFence : Nat]

Records == [gen : Nat, owner : Owners, fence : Nat,
            state : {"pending", "active", "retiring"}, tid : Nat,
            active : Nat]

(* An absent record is no record. *)
ASSUME NoneIsNoRecord == None \notin Records

Updates == [gen : Nat, refresh : BOOLEAN, new : Records]

Stages == {"idle", "recover", "recoverAgain", "read", "acquire", "validate",
           "publish", "partial", "hostRetire", "finalRead", "finalAcquire"}
            \cup Unclassified \cup Leased

Calls == [pc : Stages,
          host : Hosts \cup {None}, tid : Nat, fence : Nat, retire : Nat,
          gen : Nat, lease : Nat]

Commits == [tid : Nat, state : {"active", "retiring"}, fence : Nat,
            owner : Owners, life : Nat, overTid : Nat]

(* Every variable has the shape of the state it stands for. *)
TypeOK ==
  /\ reqs \in Seq(Requests)
  /\ record \in Records \cup {None}
  /\ lease \in [owner : Owners, fence : Nat] \cup {None}
  /\ nextFence \in 1..(MaxFence + 1)
  /\ late \in Updates \cup {None}
  /\ op \in [Procs -> Calls]
  /\ entry \in [Hosts -> [fence : Nat, owner : Owners \cup {None}, gen : Nat]]
  /\ poisoned \in [Hosts -> BOOLEAN]
  /\ births \in 0..MaxBirths
  /\ faults \in 0..MaxFaults
  /\ commits \subseteq Commits
  /\ floors \in [Hosts -> [published : Nat, retired : Nat]]

(* repin.rs, activate and continue_committed: a host steers only to an     *)
(* owner, under a generation, that was committed to the store, however the *)
(* commit was answered and however often the request was replayed.         *)
SteersOnlyCommitted ==
  \A h \in Hosts :
    Live(entry[h]) =>
      \E c \in commits : /\ c.state = "active"
                         /\ c.fence = entry[h].gen
                         /\ c.owner = entry[h].owner

(* xdp.rs, apply_keyed_owner_under_gate: "destination-scoped owner or      *)
(* fence generation cannot regress"; and, since a retirement leaves both   *)
(* maps empty, nothing at or below a retirement fence comes back on the    *)
(* host that cleaned up under it.                                          *)
SteeringAdvances ==
  \A h \in Hosts :
    Live(entry[h]) => /\ entry[h].gen = floors[h].published
                      /\ entry[h].gen > floors[h].retired

(* xdp.rs, apply_keyed_owner_under_gate and retire_fenced_repin_owner_sync *)
(* refuse what "cannot regress" and what "names a different owner".  Store *)
(* reads under the permit leave one case of that: no call comes to the     *)
(* maps with less than what they hold or for an owner other than theirs;   *)
(* all it can be refused for is a fence without an owner, left behind by   *)
(* an interrupted publication.                                             *)
RefusedOnlyByResidue ==
  \A p \in Procs :
    LET e == entry[op[p].host]
    IN /\ op[p].pc = "publish" =>
            /\ ~Regresses(e, op[p].fence)
            /\ Conflicts(e, reqs[op[p].tid].owner, op[p].fence) =>
                 e = [NoEntry EXCEPT !.fence = op[p].fence]
       /\ op[p].pc = "hostRetire" => ~Regresses(e, op[p].retire)

(* ports.rs, recover_activation_grant and recover_fence_grant: a replayed  *)
(* request never mints a second generation in the life of one record.      *)
CommittedOnce ==
  \A c, d \in commits :
    c.tid = d.tid /\ c.state = d.state /\ c.state = "active"
      /\ c.life = d.life => c = d

(* ports.rs, OwnershipActivationAuthority: a record "committed by a         *)
(* different transition must fail closed ... rather than being             *)
(* overwritten": an activation replaces the pending record bound to it,    *)
(* although a deleted record may be born again with the same generation    *)
(* number.                                                                 *)
ActivationReplacesItsBirth ==
  \A c \in commits :
    c.state = "active" /\ reqs[c.tid].kind = "activate" => c.overTid = c.tid

(* ports.rs, finalize_ownership_retirement: the record is deleted "without *)
(* touching a rebirth": what a finalization deletes is the Retiring record *)
(* it refreshed under its own lease, whatever happened since.  A rebirth   *)
(* that begin_retirement took for its own before that (the violation of    *)
(* RetirementReplacesItsOwn) is such a record.                             *)
RebirthUntouched ==
  [][record # None /\ record' = None =>
       \E p \in Procs : op[p].pc = "delete" /\ record = RetireRecord(p)]_vars

(* ports.rs:319: "begin_ownership_retirement atomically advances an exact  *)
(* Active record": a retirement replaces an activation of its own          *)
(* transition.                                                             *)
RetirementReplacesItsOwn ==
  \A c \in commits : c.state = "retiring" => c.overTid = c.tid

=============================================================================
