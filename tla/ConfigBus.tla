------------------------------ MODULE ConfigBus ------------------------------
(***************************************************************************)
(* The commit workers of opc-config-bus (commit.rs, rollback.rs,           *)
(* restore.rs) over one managed datastore: keyed requests and their        *)
(* retries, commit-confirmed with its expiry timer, appends of unknown     *)
(* outcome, the recovery fence, projection reconciliation, crashes and     *)
(* restores. Each await on the datastore is a step of its own, so several  *)
(* buses (a leadership handoff) interleave between them.                   *)
(*                                                                         *)
(* A worker handles one request at a time and nothing but the worker       *)
(* changes its snapshot, fence and timer. The bounded submission queue is  *)
(* left out: a worker may take any request at any time, so every queue     *)
(* order is covered.                                                       *)
(***************************************************************************)
EXTENDS ConfigStore, FiniteSets

CONSTANTS
  Buses,      \* the processes that may run a commit worker
  Requests,   \* the requests clients submit and retry
  Initial,    \* the bootstrap config
  Port,       \* whether a ConfigAuthorityPort is installed
  LateWrites, \* whether an append of unknown outcome may land later
  MaxSubmits, \* bound: submissions the workers take
  MaxFaults,  \* bound: failing datastore calls and panics
  MaxCrashes  \* bound: crashes

(* A CommitRequest. The target belongs to the rollback mode. *)
RequestShape ==
  [id : RequestIds, key : RetryKeys \cup {None},
   mode : {"commit", "commitConfirmed", "cancelConfirmed", "rollback"},
   base : Nat, candidate : Configs \cup {None}, target : Targets \cup {None}]

ASSUME RequestsAssumption ==
  /\ Requests \subseteq RequestShape
  /\ \A r \in Requests : r.target = None <=> r.mode # "rollback"
ASSUME BusAssumption ==
  /\ IsFiniteSet(Buses)
  /\ Initial \in Configs
  /\ Port \in BOOLEAN /\ LateWrites \in BOOLEAN
  /\ MaxSubmits \in Nat /\ MaxFaults \in Nat /\ MaxCrashes \in Nat
ASSUME NoneAssumption ==
  /\ None \notin Nat \cup Configs \cup RetryKeys \cup RequestIds
  /\ None \notin Targets \cup Fingerprints \cup Records \cup Decisions
  /\ None \notin Writes \cup Requests

VARIABLES
  history,  \* the datastore's records
  limbo,    \* appends of unknown outcome that may still land
  due,      \* transactions whose confirmed_deadline has passed
  nextTx,   \* TxId::new
  snap,     \* each bus's published snapshot; kept as last seen when down
  fenced,   \* RecoveryState.fenced
  timer,    \* pending_fire_at: the transaction whose deadline it waits for
  job,      \* what each worker is doing
  answers,  \* successful results: the request and the transaction it names
  submits, faults, crashes

vars == <<history, limbo, due, nextTx, snap, fenced, timer, job, answers,
          submits, faults, crashes>>

(* A job: its kind, the await it is at, and its local variables. *)
NoJob == [kind |-> "none", phase |-> "idle", request |-> None, base |-> None,
          parent |-> None, write |-> None]
Down == [NoJob EXCEPT !.phase = "down"]

Up(b) == job[b].phase # "down" /\ job[b].kind # "restore"
Idle(b) == job[b] = NoJob

(* The head a job builds on: transaction and version. *)
HeadOf(s) == [tx |-> s.tx, version |-> s.version]

-----------------------------------------------------------------------------
(* Fingerprints.                                                           *)

(* persisted_request_fingerprint *)
Fingerprint(r, base) ==
  [mode |-> IF r.mode = "commit" /\ r.candidate = None THEN "confirmPending"
            ELSE r.mode,
   base |-> base, target |-> r.target]

(* Mutant: the retry is recognised by its key alone. *)
MatchesKeyOnly(r, stored) == stored.request # None

(* request_matches_stored_fingerprint *)
Matches(r, stored) ==
  /\ stored.request # None
  /\ stored.request.mode = Fingerprint(r, r.base).mode
  /\ r.mode \in {"commit", "commitConfirmed"} /\ r.candidate # None =>
       r.base = stored.request.base /\ r.candidate = stored.config
  /\ r.mode = "commitConfirmed" => r.candidate # None
  /\ r.mode = "cancelConfirmed" => r.candidate = None
  /\ r.mode = "rollback" => r.target = stored.request.target

(* load_reconciliation_record *)
ReconciliationRecord(r) ==
  IF r.key # None THEN ByKey(history, r.key) ELSE ById(history, r.id)

-----------------------------------------------------------------------------
(* How a job ends.                                                         *)

Fault == faults < MaxFaults /\ faults' = faults + 1

(* The job stops without a result: a refused commit changes nothing, a     *)
(* failed expiry rollback fences the bus and drops its timer, a failed     *)
(* restore leaves the bus down.                                            *)
Stops(b) ==
  /\ job' = [job EXCEPT ![b] = IF job[b].kind = "restore" THEN Down ELSE NoJob]
  /\ fenced' = [fenced EXCEPT ![b] = fenced[b] \/ job[b].kind = "expiry"]
  /\ timer' = [timer EXCEPT ![b] = IF job[b].kind = "expiry" THEN None
                                   ELSE timer[b]]

(* The same with the fence raised whatever the job was. *)
StopsFenced(b) ==
  /\ job' = [job EXCEPT ![b] = IF job[b].kind = "restore" THEN Down ELSE NoJob]
  /\ fenced' = [fenced EXCEPT ![b] = job[b].kind # "restore"]
  /\ timer' = [timer EXCEPT ![b] = IF job[b].kind = "expiry" THEN None
                                   ELSE timer[b]]

Answer(b, tx) ==
  answers' = answers \cup {[request |-> job[b].request, tx |-> tx]}

(* A restored bus starts with a clear fence and the stored deadline. *)
Starts(b, record) ==
  /\ snap' = [snap EXCEPT ![b] = [tx |-> record.tx, version |-> record.version,
                                  config |-> record.config]]
  /\ fenced' = [fenced EXCEPT ![b] = FALSE]
  /\ timer' = [timer EXCEPT ![b] = IF record.pending THEN record.tx ELSE None]
  /\ job' = [job EXCEPT ![b] = NoJob]

-----------------------------------------------------------------------------
(* process_commit up to the append.                                        *)

(* A fenced bus takes only keyed requests; it refuses the others without   *)
(* effect.                                                                 *)
Take(b, r) ==
  /\ Idle(b)
  /\ submits < MaxSubmits
  /\ fenced[b] => r.key # None
  /\ job' = [job EXCEPT ![b] = [NoJob EXCEPT !.kind = "commit",
                                             !.phase = "lookup",
                                             !.request = r,
                                             !.base = HeadOf(snap[b])]]
  /\ submits' = submits + 1
  /\ UNCHANGED <<history, limbo, due, nextTx, snap, fenced, timer, answers,
                 faults, crashes>>

(* The request's deadline, the authority port, the authorizer, diff,       *)
(* validation, the impact classifier or a datastore read refuses, or one   *)
(* of the guards below does.                                               *)
Refuse(b) ==
  /\ job[b].kind = "commit"
  /\ job[b].phase \in {"lookup", "resolve", "parent", "append"}
  /\ Stops(b)
  /\ UNCHANGED <<history, limbo, due, nextTx, snap, answers, submits, faults,
                 crashes>>

(* A panic before the append: the worker loop catches it and fences. *)
Panic(b) ==
  /\ job[b].kind = "commit"
  /\ job[b].phase \in {"lookup", "resolve", "parent", "append"}
  /\ Fault
  /\ StopsFenced(b)
  /\ UNCHANGED <<history, limbo, due, nextTx, snap, answers, submits, crashes>>

(* An exact retry is answered from the stored record, fenced or not. *)
Replay(b) ==
  LET r == job[b].request
      stored == ByKey(history, r.key)
  IN /\ job[b].phase = "lookup"
     /\ r.key # None
     /\ stored # None
     /\ Matches(r, stored)
     /\ Answer(b, stored.tx)
     /\ Stops(b)
     /\ UNCHANGED <<history, limbo, due, nextTx, snap, submits, faults,
                    crashes>>

(* A new mutation: the key is unused, the bus unfenced, no second          *)
(* commit-confirmed, and a candidate's base is the running version.        *)
Proceeds(b) ==
  LET r == job[b].request
  IN /\ job[b].phase = "lookup"
     /\ r.key # None => ByKey(history, r.key) = None
     /\ ~fenced[b]
     /\ r.mode = "commitConfirmed" => timer[b] = None
     /\ r.candidate # None /\ r.mode \in {"commit", "commitConfirmed"} =>
          r.base = job[b].base.version

Proceed(b) ==
  /\ Proceeds(b)
  /\ job' = [job EXCEPT ![b].phase = "resolve"]
  /\ UNCHANGED <<history, limbo, due, nextTx, snap, fenced, timer, answers,
                 submits, faults, crashes>>

(* With a timer armed, the write decides the pending commit. *)
Decision(b, mode) ==
  IF timer[b] = None \/ mode = "commitConfirmed" THEN None
  ELSE [kind |-> IF mode = "commit" THEN "confirm" ELSE "rollback",
        tx |-> job[b].base.tx]

(* A write gets its transaction identifier when it reaches the datastore;  *)
(* nothing uses the identifier before.                                     *)
Unstamped == 0
Stamped(w) == [w EXCEPT !.record.tx = nextTx]

(* The write of a commit job for the resolved config. *)
CommitWrite(b, config) ==
  LET r == job[b].request
  IN [record |-> [tx |-> Unstamped, version |-> job[b].base.version + 1,
                  parent |-> job[b].base.tx, config |-> config,
                  marked |-> TRUE, pending |-> r.mode = "commitConfirmed",
                  key |-> r.key, id |-> r.id,
                  request |-> Fingerprint(r, job[b].base.version)],
      decision |-> Decision(b, r.mode)]

(* The write of an automatic rollback (expiry or startup). *)
RollbackWrite(b, config) ==
  [record |-> [tx |-> Unstamped, version |-> job[b].base.version + 1,
               parent |-> job[b].base.tx, config |-> config,
               marked |-> TRUE, pending |-> FALSE,
               key |-> None, id |-> None, request |-> None],
   decision |-> [kind |-> "rollback", tx |-> job[b].base.tx]]

Prepared(b, write) ==
  /\ job' = [job EXCEPT ![b].phase = "append", ![b].write = write]
  /\ UNCHANGED <<history, limbo, due, nextTx, snap, fenced, timer, answers,
                 submits, faults, crashes>>

(* resolve_candidate: a given candidate, the running config to confirm,    *)
(* or a stored rollback target.                                            *)
ResolveGiven(b) ==
  /\ job[b].phase = "resolve"
  /\ job[b].request.mode \in {"commit", "commitConfirmed"}
  /\ \/ /\ job[b].request.candidate # None
        /\ Prepared(b, CommitWrite(b, job[b].request.candidate))
     \/ /\ job[b].request.candidate = None
        /\ timer[b] # None
        /\ Prepared(b, CommitWrite(b, snap[b].config))

ResolveRollback(b) ==
  LET stored == LoadRollback(history, job[b].request.target)
  IN /\ job[b].phase = "resolve"
     /\ job[b].request.mode = "rollback"
     /\ stored # None
     /\ Publishable(stored)
     /\ Prepared(b, CommitWrite(b, stored.config))

(* cancel: first the latest record, which must be pending ... *)
ResolveCancel(b) ==
  /\ job[b].phase = "resolve"
  /\ job[b].request.mode = "cancelConfirmed"
  /\ timer[b] # None
  /\ LatestPending(history)
  /\ Latest(history).parent # None
  /\ job' = [job EXCEPT ![b].phase = "parent",
                        ![b].parent = Latest(history).parent]
  /\ UNCHANGED <<history, limbo, due, nextTx, snap, fenced, timer, answers,
                 submits, faults, crashes>>

(* ... then, as in the automatic rollbacks, the config of its parent. *)
ParentConfig(b) ==
  LET stored == LoadRollback(history, [kind |-> "tx", tx |-> job[b].parent])
  IN IF stored = None THEN None
     ELSE IF Publishable(stored) THEN stored.config ELSE None

LoadParent(b) ==
  /\ job[b].phase = "parent"
  /\ \/ /\ ParentConfig(b) # None
        /\ Prepared(b, IF job[b].kind = "commit"
                       THEN CommitWrite(b, ParentConfig(b))
                       ELSE RollbackWrite(b, ParentConfig(b)))
     \/ /\ job[b].kind # "commit"
        /\ ParentConfig(b) = None \/ Fault
        /\ ParentConfig(b) = None => UNCHANGED faults
        /\ Stops(b)
        /\ UNCHANGED <<history, limbo, due, nextTx, snap, answers, submits,
                       crashes>>

-----------------------------------------------------------------------------
(* The append and what follows it.                                         *)

(* An acknowledged append. The bus publishes before it awaits again; a     *)
(* restore publishes at the end.                                           *)
Persist(b) ==
  LET w == Stamped(job[b].write)
  IN /\ job[b].phase = "append"
     /\ Accepts(history, w)
     /\ history' = Applied(history, w)
     /\ \/ /\ job[b].kind = "restore" /\ ~w.record.marked
           /\ Starts(b, w.record)
        \/ /\ job[b].kind = "restore" /\ w.record.marked
           /\ job' = [job EXCEPT ![b].phase = "clear", ![b].write = w]
           /\ UNCHANGED <<snap, fenced, timer>>
        \/ /\ job[b].kind # "restore"
           /\ snap' = [snap EXCEPT ![b] = [tx |-> w.record.tx,
                                           version |-> w.record.version,
                                           config |-> w.record.config]]
           /\ job' = [job EXCEPT ![b].phase = "clear", ![b].write = w]
           /\ UNCHANGED <<fenced, timer>>
     /\ nextTx' = nextTx + 1
     /\ UNCHANGED <<limbo, due, answers, submits, faults, crashes>>

(* A definite refusal: nothing was written. A commit then looks for the    *)
(* record another worker may have written for the same request.            *)
PersistRefused(b) ==
  LET w == Stamped(job[b].write)
  IN /\ job[b].phase = "append"
     /\ \/ ~Accepts(history, w) /\ UNCHANGED faults
        \/ Accepts(history, w) /\ Fault
     /\ \/ /\ job[b].kind = "commit"
           /\ job' = [job EXCEPT ![b].phase = "relookup"]
           /\ UNCHANGED <<fenced, timer>>
        \/ job[b].kind # "commit" /\ Stops(b)
     /\ UNCHANGED <<history, limbo, due, nextTx, snap, answers, submits,
                    crashes>>

(* Mutant: an unknown outcome is treated as a definite failure. *)
UnknownStops(b) == Stops(b)

UnknownEnds(b) == StopsFenced(b)

(* The acknowledgement is lost: the append happened, never will, or is     *)
(* still on its way.                                                       *)
PersistUnknown(b) ==
  LET w == Stamped(job[b].write)
  IN /\ job[b].phase = "append"
     /\ Fault
     /\ \/ /\ Accepts(history, w)
           /\ history' = Applied(history, w)
           /\ nextTx' = nextTx + 1
           /\ UNCHANGED limbo
        \/ /\ LateWrites
           /\ limbo' = limbo \cup {w}
           /\ nextTx' = nextTx + 1
           /\ UNCHANGED history
        \/ UNCHANGED <<history, limbo, nextTx>>
     /\ UnknownEnds(b)
     /\ UNCHANGED <<due, snap, answers, submits, crashes>>

(* A late append is decided by the datastore like any other. *)
Land(w) ==
  /\ limbo' = limbo \ {w}
  /\ history' = IF Accepts(history, w) THEN Applied(history, w) ELSE history
  /\ UNCHANGED <<due, nextTx, snap, fenced, timer, job, answers, submits,
                 faults, crashes>>

(* A matching record answers the request and fences this bus, whose        *)
(* snapshot is behind; a colliding one or none refuses it; a failing       *)
(* lookup leaves the outcome unknown.                                      *)
Relookup(b) ==
  LET stored == ReconciliationRecord(job[b].request)
      recognised == IF stored = None THEN FALSE
                    ELSE Matches(job[b].request, stored)
  IN /\ job[b].phase = "relookup"
     /\ \/ recognised /\ Answer(b, stored.tx) /\ StopsFenced(b)
           /\ UNCHANGED faults
        \/ ~recognised /\ Stops(b) /\ UNCHANGED <<answers, faults>>
        \/ Fault /\ StopsFenced(b) /\ UNCHANGED answers
     /\ UNCHANGED <<history, limbo, due, nextTx, snap, submits, crashes>>

(* Mutant: the timer armed before the commit is left as it was. *)
TimerKept(b) == timer[b]

(* The timer a finished write leaves. *)
TimerAfter(b) ==
  IF job[b].write.record.pending THEN job[b].write.record.tx ELSE None

(* clear_recovery_required. When it fails the marker may or may not be     *)
(* gone; a commit still succeeds, on a fenced bus.                         *)
Clear(b) ==
  LET record == job[b].write.record
      ok == history' = Cleared(history, record.tx) /\ UNCHANGED faults
      failed == /\ Fault
                /\ history' \in {history, Cleared(history, record.tx)}
  IN /\ job[b].phase = "clear"
     /\ \/ /\ job[b].kind = "restore"
           /\ \/ ok /\ Starts(b, record)
              \/ failed /\ Stops(b) /\ UNCHANGED snap
           /\ UNCHANGED answers
        \/ /\ job[b].kind # "restore"
           /\ \/ ok /\ UNCHANGED fenced
              \/ failed /\ fenced' = [fenced EXCEPT ![b] = TRUE]
           /\ timer' = [timer EXCEPT ![b] = TimerAfter(b)]
           /\ job' = [job EXCEPT ![b] = NoJob]
           /\ IF job[b].kind = "commit" THEN Answer(b, record.tx)
              ELSE UNCHANGED answers
           /\ UNCHANGED snap
     /\ UNCHANGED <<limbo, due, nextTx, submits, crashes>>

-----------------------------------------------------------------------------
(* Deadlines, reconciliation, crashes and restores.                        *)

DeadlinePasses(tx) ==
  /\ due' = due \cup {tx}
  /\ UNCHANGED <<history, limbo, nextTx, snap, fenced, timer, job, answers,
                 submits, faults, crashes>>

(* The durable head is the pending commit this bus published. *)
ExpiryCurrent(b) ==
  /\ history # <<>>
  /\ Latest(history).parent # None
  /\ LatestTx(history) = snap[b].tx

(* The timer fires, fenced or not. Without authority, with a failing read  *)
(* or with another head the bus is fenced and the timer gone.              *)
Expire(b) ==
  LET expiry == [NoJob EXCEPT !.kind = "expiry", !.phase = "parent",
                              !.base = HeadOf(snap[b]),
                              !.parent = Latest(history).parent]
  IN /\ Idle(b)
     /\ timer[b] \in due
     /\ \/ /\ ExpiryCurrent(b)
           /\ job' = [job EXCEPT ![b] = expiry]
           /\ UNCHANGED <<fenced, timer, faults>>
        \/ /\ \/ ~ExpiryCurrent(b) /\ UNCHANGED faults
              \/ ExpiryCurrent(b) /\ Fault
           /\ fenced' = [fenced EXCEPT ![b] = TRUE]
           /\ timer' = [timer EXCEPT ![b] = None]
           /\ UNCHANGED job
     /\ UNCHANGED <<history, limbo, due, nextTx, snap, answers, submits,
                    crashes>>

NotRegressed(b, stored) ==
  \/ stored.version > snap[b].version
  \/ stored.version = snap[b].version /\ stored.tx = snap[b].tx

(* reconcile_from: the authority port reads the applied head it will vouch *)
(* for ...                                                                 *)
Reconcile(b) ==
  /\ Port
  /\ Idle(b)
  /\ history # <<>>
  /\ job' = [job EXCEPT ![b] = [NoJob EXCEPT !.kind = "reconcile",
                                             !.phase = "rebuild",
                                             !.base = HeadOf(Latest(history))]]
  /\ UNCHANGED <<history, limbo, due, nextTx, snap, fenced, timer, answers,
                 submits, faults, crashes>>

(* ... and the worker rebuilds its projection if the committed head is     *)
(* that one, else it leaves everything as it was.                          *)
Rebuild(b) ==
  LET stored == CommittedLatest(history)
      accepted == IF stored = None THEN FALSE
                  ELSE NotRegressed(b, stored) /\ HeadOf(stored) = job[b].base
  IN /\ job[b].phase = "rebuild"
     /\ \/ accepted /\ Starts(b, stored)
        \/ job' = [job EXCEPT ![b] = NoJob] /\ UNCHANGED <<snap, fenced, timer>>
     /\ UNCHANGED <<history, limbo, due, nextTx, answers, submits, faults,
                    crashes>>

(* The process dies between any two awaits; an append on its way may       *)
(* still land.                                                             *)
Crash(b) ==
  /\ job[b] # Down
  /\ crashes < MaxCrashes
  /\ crashes' = crashes + 1
  /\ job' = [job EXCEPT ![b] = Down]
  /\ timer' = [timer EXCEPT ![b] = None]
  /\ fenced' = [fenced EXCEPT ![b] = FALSE]
  /\ \/ UNCHANGED <<limbo, nextTx>>
     \/ /\ LateWrites
        /\ job[b].phase = "append"
        /\ limbo' = limbo \cup {Stamped(job[b].write)}
        /\ nextTx' = nextTx + 1
  /\ UNCHANGED <<history, due, snap, answers, submits, faults>>

(* restore_or_new on an empty store appends the bootstrap record. *)
RestoreEmpty(b) ==
  LET record == [tx |-> Unstamped, version |-> 0, parent |-> None,
                 config |-> Initial, marked |-> FALSE, pending |-> FALSE,
                 key |-> None, id |-> None, request |-> None]
  IN /\ job[b] = Down
     /\ history = <<>>
     /\ job' = [job EXCEPT ![b] = [NoJob EXCEPT
                  !.kind = "restore", !.phase = "append",
                  !.write = [record |-> record, decision |-> None]]]
     /\ UNCHANGED <<history, limbo, due, nextTx, snap, fenced, timer, answers,
                    submits, faults, crashes>>

(* A stored head is published with its timer unless it is marked or its    *)
(* deadline has passed.                                                    *)
RestoreHead(b) ==
  /\ job[b] = Down
  /\ history # <<>>
  /\ ~Latest(history).marked
  /\ ~(Latest(history).pending /\ LatestTx(history) \in due)
  /\ Starts(b, Latest(history))
  /\ UNCHANGED <<history, limbo, due, nextTx, answers, submits, faults,
                 crashes>>

(* An expired pending head is first rolled back. *)
RestoreExpired(b) ==
  /\ job[b] = Down
  /\ LatestPending(history)
  /\ LatestTx(history) \in due
  /\ Latest(history).parent # None
  /\ job' = [job EXCEPT ![b] = [NoJob EXCEPT
               !.kind = "restore", !.phase = "parent",
               !.base = HeadOf(Latest(history)),
               !.parent = Latest(history).parent]]
  /\ UNCHANGED <<history, limbo, due, nextTx, snap, fenced, timer, answers,
                 submits, faults, crashes>>

-----------------------------------------------------------------------------
NeverSeen == [tx |-> None, version |-> 0, config |-> None]

Init ==
  /\ history = <<>>
  /\ limbo = {}
  /\ due = {}
  /\ nextTx = 1
  /\ snap = [b \in Buses |-> NeverSeen]
  /\ fenced = [b \in Buses |-> FALSE]
  /\ timer = [b \in Buses |-> None]
  /\ job = [b \in Buses |-> Down]
  /\ answers = {}
  /\ submits = 0 /\ faults = 0 /\ crashes = 0

(* What a worker does on its own once it has a request or a due timer. *)
WorkerStep(b) ==
  \/ Replay(b) \/ Proceed(b) \/ Refuse(b)
  \/ ResolveGiven(b) \/ ResolveRollback(b) \/ ResolveCancel(b)
  \/ LoadParent(b)
  \/ Persist(b) \/ PersistRefused(b) \/ PersistUnknown(b)
  \/ Relookup(b)
  \/ Clear(b)
  \/ Expire(b)
  \/ Rebuild(b)

RestoreStep(b) == RestoreEmpty(b) \/ RestoreHead(b) \/ RestoreExpired(b)

Next ==
  \/ \E b \in Buses :
       \/ \E r \in Requests : Take(b, r)
       \/ WorkerStep(b)
       \/ Panic(b)
       \/ Reconcile(b)
       \/ Crash(b)
       \/ RestoreStep(b)
  \/ \E w \in limbo : Land(w)
  \/ \E i \in 1..Len(history) :
       history[i].pending /\ history[i].tx \notin due
         /\ DeadlinePasses(history[i].tx)

Spec == Init /\ [][Next]_vars

(* The worker task and a restarted process keep running and deadlines      *)
(* pass. The worker's select picks a ready timer sooner or later, however  *)
(* many control requests compete with it.                                  *)
Fairness ==
  /\ \A b \in Buses : /\ WF_vars(WorkerStep(b))
                       /\ WF_vars(RestoreStep(b))
                       /\ SF_vars(Expire(b))
  /\ WF_vars(\E i \in 1..Len(history) :
               history[i].pending /\ history[i].tx \notin due
                 /\ DeadlinePasses(history[i].tx))

FairSpec == Spec /\ Fairness

-----------------------------------------------------------------------------
(* Correctness.                                                            *)

Jobs ==
  [kind : {"none", "commit", "expiry", "reconcile", "restore"},
   phase : {"down", "idle", "lookup", "resolve", "parent", "append",
            "relookup", "clear", "rebuild"},
   request : Requests \cup {None},
   base : [tx : Tx, version : Nat] \cup {None},
   parent : Tx \cup {None},
   write : Writes \cup {None}]

Snapshots == [tx : Tx, version : Nat, config : Configs] \cup {NeverSeen}

(* Every variable has the shape of the state it stands for. *)
TypeOK ==
  /\ history \in Seq(Records)
  /\ limbo \subseteq Writes
  /\ due \subseteq Tx
  /\ nextTx \in Nat
  /\ snap \in [Buses -> Snapshots]
  /\ fenced \in [Buses -> BOOLEAN]
  /\ timer \in [Buses -> Tx \cup {None}]
  /\ job \in [Buses -> Jobs]
  /\ answers \subseteq [request : Requests, tx : Tx]
  /\ submits \in Nat /\ faults \in Nat /\ crashes \in Nat

(* A retry key never yields two records, whichever buses its request was   *)
(* submitted to, retried on and lost in.                                   *)
OneRecordPerKey ==
  \A i, j \in 1..Len(history) :
    history[i].key # None /\ history[i].key = history[j].key => i = j

(* Every success names a durable record of that very request, and all      *)
(* successes of a keyed request name the same transaction.                 *)
AnswersAgree ==
  \A a \in answers :
    /\ \E i \in 1..Len(history) :
         /\ history[i].tx = a.tx
         /\ IF a.request.key # None THEN history[i].key = a.request.key
            ELSE history[i].id = a.request.id
         /\ history[i].request # None
         /\ history[i].request.mode = Fingerprint(a.request, a.request.base).mode
         /\ history[i].request.target = a.request.target
         /\ a.request.candidate # None
              /\ a.request.mode \in {"commit", "commitConfirmed"} =>
              /\ history[i].config = a.request.candidate
              /\ history[i].request.base = a.request.base
    /\ \A c \in answers :
         a.request = c.request /\ a.request.key # None => a.tx = c.tx

(* A pending commit is left undecided only while it is the head. Its       *)
(* successor either confirmed it, or rolled it back; an automatic or       *)
(* cancelling rollback restores exactly the config before the pending one. *)
PendingDecidedOnce ==
  \A i \in 2..Len(history) :
    LET before == history[i - 1]
        mode == IF history[i].request = None THEN "automatic"
                ELSE history[i].request.mode
    IN /\ before.pending => mode \notin {"commit", "confirmPending",
                                         "commitConfirmed"}
       /\ mode = "confirmPending" => /\ ~before.pending
                                     /\ history[i].config = before.config
       /\ mode \in {"automatic", "cancelConfirmed"} =>
            /\ before.pending
            /\ i > 2
            /\ history[i].config = history[i - 2].config
            /\ ~history[i - 2].pending

(* What a bus shows its readers is durable, and is publication-safe unless *)
(* the bus itself is about to clear the marker or is fenced. Another bus,  *)
(* a restore or a rebuild never shows an uncleared record.                 *)
SnapshotsDurable ==
  \A b \in Buses :
    Up(b) => \E i \in 1..Len(history) :
               /\ history[i].tx = snap[b].tx
               /\ history[i].version = snap[b].version
               /\ history[i].config = snap[b].config
               /\ history[i].marked => fenced[b] \/ job[b].phase = "clear"

(* No reader of a bus sees an older version after a newer one, across      *)
(* commits, rollbacks, rebuilds, crashes and restores.                     *)
VersionsNeverRegress ==
  [][\A b \in Buses : snap'[b].version >= snap[b].version]_vars

(* A bus that is alone, idle and unfenced agrees with its datastore: it    *)
(* shows the head, the head is publication-safe, and the timer waits for   *)
(* the head's deadline exactly when the head is pending.                   *)
IdleBusAgrees ==
  \A b \in Buses :
    Idle(b) /\ ~fenced[b] =>
      /\ snap[b].tx = LatestTx(history)
      /\ ~Latest(history).marked
      /\ timer[b] = IF Latest(history).pending THEN Latest(history).tx ELSE None

(* A commit-confirmed does not stay undecided for ever: in the end no head *)
(* is pending unless its marker could not be cleared or its rollback       *)
(* failed, and then the bus is fenced.                                     *)
PendingDecided ==
  <>[](LatestPending(history) =>
         \/ Latest(history).marked
         \/ \E b \in Buses : Up(b) /\ fenced[b] /\ timer[b] = None)

=============================================================================
