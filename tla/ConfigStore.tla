----------------------------- MODULE ConfigStore -----------------------------
(***************************************************************************)
(* The managed datastore of opc-config-bus as its in-memory implementation *)
(* (datastore.rs) keeps it: the history of config records, the             *)
(* compare-and-append of a commit with the decision of a pending           *)
(* commit-confirmed, and the reads the bus makes of the history.           *)
(***************************************************************************)
EXTENDS Integers, Sequences

CONSTANTS
  Configs,  \* config trees
  RetryKeys, \* idempotency keys
  RequestIds, \* request identifiers
  None      \* no transaction, key, record, decision or candidate

Tx == Nat
Targets == [kind : {"previous"}] \cup [kind : {"version"}, version : Nat]

(* StoredRequestFingerprint: ConfirmPending is a commit without candidate. *)
Fingerprints ==
  [mode : {"commit", "confirmPending", "commitConfirmed", "cancelConfirmed",
           "rollback"},
   base : Nat, target : Targets \cup {None}]

(* StoredConfig: `pending` when confirmed_deadline is set, `marked` when   *)
(* recovery_required is.                                                   *)
Records ==
  [tx : Tx, version : Nat, parent : Tx \cup {None}, config : Configs,
   marked : BOOLEAN, pending : BOOLEAN, key : RetryKeys \cup {None},
   id : RequestIds \cup {None}, request : Fingerprints \cup {None}]

(* ConfirmedCommitResolution and CommitWrite. *)
Decisions == [kind : {"confirm", "rollback"}, tx : Tx]
Writes == [record : Records, decision : Decisions \cup {None}]

Latest(h) == IF h = <<>> THEN None ELSE h[Len(h)]
LatestTx(h) == IF h = <<>> THEN None ELSE h[Len(h)].tx
LatestPending(h) == h # <<>> /\ h[Len(h)].pending

-----------------------------------------------------------------------------
(* append_commit_write                                                     *)

(* Mutant: the parent is not compared with the applied head. *)
AcceptsAnyParent(h, w) ==
  /\ \A i \in 1..Len(h) : h[i].tx # w.record.tx
  /\ h # <<>> => ~h[Len(h)].marked

Accepts(h, w) ==
  /\ \A i \in 1..Len(h) : /\ h[i].tx # w.record.tx
                          /\ h[i].version # w.record.version
  /\ LatestTx(h) = w.record.parent
  /\ h # <<>> => /\ ~h[Len(h)].marked
                 /\ w.record.version = h[Len(h)].version + 1
  /\ IF LatestPending(h)
     THEN w.decision # None /\ w.decision.tx = LatestTx(h)
     ELSE w.decision = None

(* Mutant: a confirmation leaves the deadline of the pending record. *)
AppliedUnconfirmed(h, w) == Append(h, w.record)

Applied(h, w) ==
  LET confirmed(i) == /\ w.decision # None
                      /\ w.decision.kind = "confirm"
                      /\ w.decision.tx = h[i].tx
  IN Append([i \in 1..Len(h) |->
               IF confirmed(i) THEN [h[i] EXCEPT !.pending = FALSE] ELSE h[i]],
            w.record)

(* clear_recovery_required *)
Cleared(h, tx) ==
  [i \in 1..Len(h) |->
     IF h[i].tx = tx THEN [h[i] EXCEPT !.marked = FALSE] ELSE h[i]]

-----------------------------------------------------------------------------
(* Reads. Each returns a record or None.                                   *)

(* The last of the records of h at the given positions. *)
LastOf(h, found) ==
  IF found = {} THEN None
  ELSE h[CHOOSE i \in found : \A j \in found : j <= i]

ByTx(h, tx) == LastOf(h, {i \in 1..Len(h) : h[i].tx = tx})

(* load_by_idempotency_key *)
ByKey(h, key) == LastOf(h, {i \in 1..Len(h) : h[i].key = key})

(* load_by_request_id *)
ById(h, id) == LastOf(h, {i \in 1..Len(h) : h[i].id = id})

(* load_rollback refuses a record that is still pending. *)
LoadRollback(h, target) ==
  LET confirmed == LastOf(h, {i \in 1..Len(h) : ~h[i].pending})
      found == CASE target.kind = "version" ->
                      LastOf(h, {i \in 1..Len(h) : h[i].version = target.version})
                 [] target.kind = "tx" -> ByTx(h, target.tx)
                 [] target.kind = "previous" ->
                      IF confirmed = None THEN None
                      ELSE ByTx(h, confirmed.parent)
  IN IF found = None THEN None ELSE IF found.pending THEN None ELSE found

(* Mutant: the mark is ignored. *)
CommittedLatestAny(h) == Latest(h)

(* load_committed_latest: the head of the prefix before the first mark. *)
CommittedLatest(h) ==
  LastOf(h, {i \in 1..Len(h) : \A j \in 1..i : ~h[j].marked})

(* validate_publishable_stored_config *)
Publishable(r) == ~r.marked /\ ~r.pending

=============================================================================
