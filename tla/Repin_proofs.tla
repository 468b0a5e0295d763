----------------------------- MODULE Repin_proofs -----------------------------
(***************************************************************************)
(* Theorems about Repin, for any number of hosts, calls, owners, requests, *)
(* leases and faults: what a host steers by was committed and never goes   *)
(* back, a request commits once in the life of a record, an activation     *)
(* replaces the birth it is bound to, a finalization deletes the record it *)
(* refreshed, and all the host maps can refuse a call for is a fence that  *)
(* an interrupted publication left without an owner.                       *)
(***************************************************************************)
EXTENDS Repin, TLAPS

(* The fence f of owner w was committed as an activation or a re-pin. *)
Committed(f, w) ==
  \E c \in commits : c.state = "active" /\ c.fence = f /\ c.owner = w

(* A fence the store has seen: of the record, a commit or a re-pin's       *)
(* request.                                                                *)
Used(f) ==
  \/ record # None /\ record.fence = f
  \/ \E c \in commits : c.fence = f
  \/ \E t \in DOMAIN reqs : reqs[t].previousFence = f

(* The record has moved on from the retirement fence f. *)
Passed(f) ==
  record # None =>
    /\ f <= record.fence
    /\ record.state # "retiring" => f < record.fence

(* Requests name fences granted before them. *)
ReqsInv == \A t \in DOMAIN reqs : reqs[t].previousFence < nextFence

(* The record belongs to its request, under a fence the store granted; a   *)
(* pending one is not committed yet and an active one is.                  *)
RecordInv ==
  record # None =>
    /\ record.tid \in DOMAIN reqs
    /\ record.owner = reqs[record.tid].owner
    /\ record.fence >= 1 /\ record.fence < nextFence
    /\ record.gen <= record.fence
    /\ record.state = "retiring" => record.active < record.fence
    /\ record.state = "pending" => \A c \in commits : c.tid # record.tid
    /\ record.state = "active" => Committed(record.fence, record.owner)

(* A lease that is held is the last one granted. *)
LeaseInv == lease # None => lease.fence = nextFence - 1

(* A commit is of a life so far, under a fence of its own that the record  *)
(* has reached; a re-pin's is beyond the fence it moves away from.         *)
CommitInv ==
  /\ \A c \in commits :
       /\ c.tid \in DOMAIN reqs
       /\ c.owner = reqs[c.tid].owner
       /\ c.life <= births
       /\ c.fence >= 1 /\ c.fence < nextFence
       /\ record # None => c.fence <= record.fence
       /\ reqs[c.tid].kind = "repin" /\ c.state = "active"
            => c.fence > reqs[c.tid].previousFence
  /\ \A c, d \in commits : c.fence = d.fence => c = d

(* A compare-and-set that a call makes, or that is still under way.        *)
(* While its lease holds, an activation finds the birth it is bound to.    *)
UpdateOK(c) ==
  /\ c.new.gen = c.gen + 1
  /\ c.new.tid \in DOMAIN reqs
  /\ c.new.owner = reqs[c.new.tid].owner
  /\ c.new.state \in {"active", "retiring"}
  /\ c.refresh => c.new.state = "retiring"
  /\ c.new.fence >= 1 /\ c.new.fence < nextFence
  /\ ~Used(c.new.fence)
  /\ c.new.state = "retiring" => c.new.active < c.new.fence
  /\ c.new.state = "active" /\ reqs[c.new.tid].kind = "repin"
       => c.new.fence > reqs[c.new.tid].previousFence
  /\ c.new.state = "active" /\ reqs[c.new.tid].kind = "activate"
       /\ LeaseHeld(c.new.fence)
       => record # None /\ record.state = "pending" /\ record.tid = c.new.tid

LateInv == late # None => UpdateOK(late)

(* A call or a late compare-and-set of re-pin t that goes by generation g. *)
Reader(t, g) ==
  \/ \E p \in Procs : /\ op[p].pc \in {"acquire", "cas"}
                      /\ op[p].tid = t
                      /\ op[p].gen = g
  \/ /\ late # None
     /\ late.new.state = "active"
     /\ late.new.tid = t
     /\ late.gen = g

(* All of them go by the generation the record has as long as it carries   *)
(* the fence the re-pin moves away from; once one has committed, the       *)
(* record is beyond it.                                                    *)
ReaderInv ==
  \A t \in DOMAIN reqs : \A g \in Nat :
    reqs[t].kind = "repin" /\ Reader(t, g) =>
      /\ \A k \in Nat : Reader(t, k) => k = g
      /\ record # None =>
           /\ record.fence = reqs[t].previousFence => record.gen = g
           /\ \A c \in commits :
                c.tid = t /\ c.state = "active" /\ c.life = births
                  => record.gen > g

(* What a host's maps hold is not ahead of the record, and an owner in     *)
(* them was committed under its generation.                                *)
HostInv ==
  \A h \in Hosts :
    /\ record # None => /\ entry[h].fence <= record.fence
                        /\ entry[h].gen <= record.fence
                        /\ floors[h].published <= record.fence
    /\ entry[h].fence < nextFence /\ entry[h].gen < nextFence
    /\ floors[h].published < nextFence /\ floors[h].retired < nextFence
    /\ Passed(floors[h].retired)
    /\ entry[h].owner = None => entry[h].gen = 0
    /\ entry[h].owner # None => Committed(entry[h].gen, entry[h].owner)

(* Where a call holds a lease nothing was written under. *)
Unspent == {"reread", "cas", "retireCas", "finalReread", "refresh"}

(* A call at the store: its request, its fences and its lease. *)
CallOK(o) ==
  /\ o.pc # "idle" => o.host \in Hosts /\ o.tid \in DOMAIN reqs
  /\ o.fence < nextFence /\ o.retire < nextFence /\ o.lease < nextFence
  /\ o.pc \in Leased => o.lease >= 1
  /\ o.pc \in {"retireCas", "finalReread", "refresh", "refreshed", "delete"}
       => o.fence < o.lease
  /\ o.pc = "reread" => reqs[o.tid].kind = "activate"
  /\ o.pc \in Unspent => ~Used(o.lease)
  /\ o.pc \in Leased \ {"refreshed"} /\ late # None
       => o.lease # late.new.fence
  /\ o.pc = "cas" /\ reqs[o.tid].kind = "repin"
       => o.lease > reqs[o.tid].previousFence
  /\ o.pc = "cas" /\ reqs[o.tid].kind = "activate" /\ LeaseHeld(o.lease)
       => record # None /\ record.state = "pending" /\ record.tid = o.tid
  /\ o.pc = "delete" /\ LeaseHeld(o.lease) /\ record # None
       => /\ record.state = "retiring" /\ record.tid = o.tid
          /\ record.fence = o.lease /\ record.active = o.fence
          /\ record.gen = o.gen + 1

(* A call at its host: what it publishes was committed, is not behind the  *)
(* maps and beyond every retirement they saw; what it cleans up under is   *)
(* not behind them either.                                                 *)
HostOK(o) ==
  /\ o.pc \in {"publish", "validate", "partial"}
       => Committed(o.fence, reqs[o.tid].owner)
  /\ o.pc = "publish" =>
       /\ entry[o.host].fence <= o.fence /\ entry[o.host].gen <= o.fence
       /\ floors[o.host].published <= o.fence
       /\ floors[o.host].retired < o.fence
  /\ o.pc = "hostRetire" =>
       /\ o.fence < o.retire
       /\ Passed(o.retire)
       /\ entry[o.host].fence <= o.retire /\ entry[o.host].gen <= o.retire

(* Two calls share neither a host's permit nor a lease. *)
Apart(o, r) ==
  /\ o.pc \notin {"idle", "partial"} /\ r.pc \notin {"idle", "partial"}
       => o.host # r.host
  /\ o.pc \in Leased /\ r.pc \in Leased => o.lease # r.lease

CallsInv ==
  /\ \A p \in Procs : CallOK(op[p]) /\ HostOK(op[p])
  /\ \A p, q \in Procs : p # q => Apart(op[p], op[q])

Inv ==
  /\ TypeOK /\ ReqsInv /\ RecordInv /\ LeaseInv /\ CommitInv /\ LateInv
  /\ ReaderInv /\ HostInv /\ CallsInv
  /\ CommittedOnce /\ ActivationReplacesItsBirth /\ SteeringAdvances

-----------------------------------------------------------------------------
(* Values.                                                                 *)

LEMMA Bounds ==
  /\ MaxRequests \in Nat /\ MaxBirths \in Nat
  /\ MaxFence \in Nat /\ MaxFaults \in Nat
  /\ None \notin Owners
BY RepinAssumption

LEMMA Numbers ==
  ASSUME TypeOK
  PROVE  /\ nextFence \in Nat /\ nextFence >= 1 /\ births \in Nat
         /\ record # None => record \in Records
         /\ late # None => late \in Updates
         /\ lease # None => lease.owner \in Owners /\ lease.fence \in Nat
         /\ \A p \in Procs : op[p] \in Calls
         /\ \A t \in DOMAIN reqs : t \in Nat /\ reqs[t] \in Requests
         /\ \A c \in commits : c \in Commits
         /\ \A h \in Hosts : /\ entry[h].fence \in Nat /\ entry[h].gen \in Nat
                             /\ entry[h].owner \in Owners \cup {None}
                             /\ floors[h].published \in Nat
                             /\ floors[h].retired \in Nat
BY Bounds DEF TypeOK

LEMMA Fields ==
  /\ \A o \in Calls : /\ o.pc \in Stages /\ o.host \in Hosts \cup {None}
                      /\ o.tid \in Nat /\ o.fence \in Nat /\ o.retire \in Nat
                      /\ o.gen \in Nat /\ o.lease \in Nat
  /\ \A r \in Records : /\ r.gen \in Nat /\ r.fence \in Nat /\ r.tid \in Nat
                        /\ r.active \in Nat /\ r.owner \in Owners
                        /\ r.state \in {"pending", "active", "retiring"}
  /\ \A c \in Updates : c.gen \in Nat /\ c.new \in Records
  /\ \A c \in Commits : /\ c.fence \in Nat /\ c.life \in Nat /\ c.tid \in Nat
                        /\ c.state \in {"active", "retiring"}
  /\ \A r \in Requests : /\ r.previousFence \in Nat /\ r.owner \in Owners
                         /\ r.kind \in {"activate", "repin"}
BY DEF Calls, Records, Updates, Commits, Requests

LEMMA IdleCall ==
  /\ Idle \in Calls /\ Idle.pc = "idle" /\ Idle.tid = 0 /\ Idle.fence = 0
  /\ Idle.retire = 0 /\ Idle.gen = 0 /\ Idle.lease = 0
BY DEF Idle, Calls, Stages

LEMMA Faulted ==
  ASSUME TypeOK, Fault PROVE faults' \in 0..MaxFaults
BY Bounds DEF TypeOK, Fault

-----------------------------------------------------------------------------
(* Calls.                                                                  *)

LEMMA CallsNext ==
  ASSUME \A p \in Procs : \E o \in Calls :
           op'[p] = o /\ CallOK(o)' /\ HostOK(o)',
         \A p, q \in Procs : p # q => Apart(op'[p], op'[q])
  PROVE  CallsInv'
<1>1. ASSUME NEW p \in Procs PROVE CallOK(op[p])' /\ HostOK(op[p])'
  <2>1. PICK o \in Calls : op'[p] = o /\ CallOK(o)' /\ HostOK(o)'
    OBVIOUS
  <2>2. CallOK(op[p])'
    BY <2>1 DEF CallOK, Used, LeaseHeld
  <2>3. HostOK(op[p])'
    BY <2>1 DEF HostOK, Committed, Passed
  <2> QED BY <2>2, <2>3
<1>2. ASSUME NEW p \in Procs, NEW q \in Procs, p # q
      PROVE  Apart(op[p], op[q])'
  BY <1>2 DEF Apart
<1> QED BY <1>1, <1>2 DEF CallsInv

(* With store and hosts unchanged, what is known of a call stays known. *)
LEMMA CallFrame ==
  ASSUME UNCHANGED <<reqs, storeVars, hostVars>>, NEW o
  PROVE  CallOK(o) => CallOK(o)'
BY DEF CallOK, Used, LeaseHeld, storeVars, hostVars

LEMMA HostFrame ==
  ASSUME UNCHANGED <<reqs, storeVars, hostVars>>, NEW o
  PROVE  HostOK(o) => HostOK(o)'
BY DEF HostOK, Committed, Passed, storeVars, hostVars

LEMMA IdleOK ==
  ASSUME TypeOK PROVE CallOK(Idle) /\ HostOK(Idle)
BY Numbers, IdleCall DEF CallOK, HostOK, Leased, Unspent

(* Stages at which a call has read nothing it relies on. *)
Plain == {"recover", "recoverAgain", "read", "retireRead", "retireAcquire",
          "retireRecover", "finalRead", "finalAcquire"}

LEMMA PlainOK ==
  ASSUME Inv, NEW p \in Procs, op[p].pc # "idle", NEW o \in Calls,
         o.pc \in Plain,
         o.host = op[p].host, o.tid = op[p].tid, o.fence = op[p].fence,
         o.retire = op[p].retire, o.lease = op[p].lease
  PROVE  CallOK(o) /\ HostOK(o)
<1>1. CallOK(op[p])
  BY DEF Inv, CallsInv
<1> QED BY <1>1 DEF CallOK, HostOK, Plain, Leased, Unspent

(* The re-pins that go by the generation they read are those that did, and *)
(* one that reads the record it wants to move.                             *)
Opens(t, g) == RepinState(t) = "open" /\ g = record.gen

LEMMA ReadersNext ==
  ASSUME Inv, UNCHANGED <<reqs, record, commits, births>>,
         \A t \in DOMAIN reqs : \A g \in Nat :
           reqs[t].kind = "repin" /\ Reader(t, g)' => Reader(t, g) \/ Opens(t, g)
  PROVE  ReaderInv'
<1> SUFFICES ASSUME NEW t \in DOMAIN reqs, NEW g \in Nat,
                    reqs[t].kind = "repin", Reader(t, g)'
             PROVE  /\ \A k \in Nat : Reader(t, k)' => k = g
                    /\ record # None =>
                         /\ record.fence = reqs[t].previousFence => record.gen = g
                         /\ \A c \in commits :
                              c.tid = t /\ c.state = "active" /\ c.life = births
                                => record.gen > g
  BY DEF ReaderInv
<1>1. \A k \in Nat : Opens(t, k) =>
        /\ record # None /\ record.fence = reqs[t].previousFence
        /\ record.gen = k
  BY DEF Opens, RepinState
<1>2. ASSUME NEW k \in Nat, Opens(t, k), NEW c \in commits, c.tid = t,
             c.state = "active"
      PROVE  FALSE
  <2>1. c.fence > reqs[t].previousFence /\ c.fence <= record.fence
    BY <1>1, <1>2 DEF Inv, CommitInv
  <2> QED BY <1>1, <1>2, <2>1, Numbers, Fields DEF Inv
<1>3. CASE Reader(t, g)
  <2>1. /\ \A k \in Nat : Reader(t, k) => k = g
        /\ record # None =>
             /\ record.fence = reqs[t].previousFence => record.gen = g
             /\ \A c \in commits :
                  c.tid = t /\ c.state = "active" /\ c.life = births
                    => record.gen > g
    BY <1>3 DEF Inv, ReaderInv
  <2> QED BY <1>1, <2>1
<1>4. CASE Opens(t, g)
  <2>1. \A k \in Nat : Reader(t, k) => k = g
    BY <1>1, <1>4 DEF Inv, ReaderInv
  <2> QED BY <1>1, <1>2, <1>4, <2>1
<1> QED BY <1>3, <1>4

(* Only one call moves, to o; store and hosts stay as they are. *)
Moves(p, o) ==
  /\ op' = [op EXCEPT ![p] = o]
  /\ UNCHANGED <<reqs, storeVars, hostVars, births>>
  /\ poisoned' \in [Hosts -> BOOLEAN]
  /\ faults' \in 0..MaxFaults

LEMMA CallMoves ==
  ASSUME Inv, NEW p \in Procs, NEW o \in Calls, Moves(p, o),
         CallOK(o), HostOK(o),
         \A q \in Procs \ {p} : Apart(o, op[q]),
         o.pc \in {"acquire", "cas"} /\ reqs[o.tid].kind = "repin" =>
           \/ op[p].pc \in {"acquire", "cas"} /\ op[p].tid = o.tid
                /\ op[p].gen = o.gen
           \/ Opens(o.tid, o.gen)
  PROVE  Inv'
<1>1. TypeOK /\ op \in [Procs -> Calls]
  BY DEF Inv, TypeOK
<1>2. op'[p] = o /\ \A q \in Procs \ {p} : op'[q] = op[q]
  BY <1>1 DEF Moves
<1>3. TypeOK'
  <2>1. op' \in [Procs -> Calls]
    BY <1>1 DEF Moves
  <2> QED BY <1>1, <2>1 DEF TypeOK, Moves, storeVars, hostVars
<1>4. UNCHANGED <<reqs, storeVars, hostVars>>
  BY DEF Moves
<1>5. CallsInv'
  <2>1. ASSUME NEW q \in Procs
        PROVE  \E r \in Calls : op'[q] = r /\ CallOK(r)' /\ HostOK(r)'
    <3>1. CASE q = p
      <4>1. CallOK(o)' /\ HostOK(o)'
        BY <1>4, CallFrame, HostFrame
      <4> QED BY <1>2, <3>1, <4>1
    <3>2. CASE q # p
      <4>1. op[q] \in Calls /\ CallOK(op[q]) /\ HostOK(op[q])
        BY <1>1 DEF Inv, CallsInv
      <4>2. PICK r \in Calls : r = op[q]
        BY <4>1
      <4>3. CallOK(r) /\ HostOK(r)
        BY <4>1, <4>2
      <4>4. CallOK(r)' /\ HostOK(r)'
        BY <1>4, <4>3, CallFrame, HostFrame
      <4> QED BY <1>2, <3>2, <4>2, <4>4
    <3> QED BY <3>1, <3>2
  <2>2. ASSUME NEW q \in Procs, NEW r \in Procs, q # r
        PROVE  Apart(op'[q], op'[r])
    <3>1. CASE q = p
      BY <1>2, <2>2, <3>1
    <3>2. CASE r = p
      <4>1. Apart(o, op[q])
        BY <2>2, <3>2
      <4> QED BY <1>2, <2>2, <3>2, <4>1 DEF Apart
    <3>3. CASE q # p /\ r # p
      BY <1>2, <2>2, <3>3 DEF Inv, CallsInv
    <3> QED BY <3>1, <3>2, <3>3
  <2> QED BY <2>1, <2>2, CallsNext
<1>6. ReaderInv'
  <2>1. ASSUME NEW t \in DOMAIN reqs, NEW g \in Nat, reqs[t].kind = "repin",
               Reader(t, g)'
        PROVE  Reader(t, g) \/ Opens(t, g)
    <3>1. CASE \E q \in Procs : /\ op'[q].pc \in {"acquire", "cas"}
                                /\ op'[q].tid = t
                                /\ op'[q].gen = g
      <4>1. PICK q \in Procs : /\ op'[q].pc \in {"acquire", "cas"}
                               /\ op'[q].tid = t
                               /\ op'[q].gen = g
        BY <3>1
      <4>2. CASE q = p
        BY <1>2, <2>1, <4>1, <4>2 DEF Reader
      <4>3. CASE q # p
        BY <1>2, <4>1, <4>3 DEF Reader
      <4> QED BY <4>2, <4>3
    <3>2. CASE /\ late' # None
               /\ late'.new.state = "active"
               /\ late'.new.tid = t
               /\ late'.gen = g
      BY <1>4, <3>2 DEF Reader, storeVars
    <3> QED BY <2>1, <3>1, <3>2 DEF Reader
  <2>2. UNCHANGED <<reqs, record, commits, births>>
    BY DEF Moves, storeVars
  <2> QED BY <2>1, <2>2, ReadersNext
<1>7. (ReqsInv /\ RecordInv /\ LeaseInv /\ CommitInv)'
  BY DEF Inv, ReqsInv, RecordInv, LeaseInv, CommitInv, Committed, Moves, storeVars
<1>8. LateInv'
  BY <1>4 DEF Inv, LateInv, UpdateOK, Used, LeaseHeld, storeVars
<1>9. HostInv'
  BY <1>4 DEF Inv, HostInv, Passed, Committed, storeVars, hostVars
<1>10. (CommittedOnce /\ ActivationReplacesItsBirth /\ SteeringAdvances)'
  BY <1>4 DEF Inv, CommittedOnce, ActivationReplacesItsBirth, SteeringAdvances,
              Live, storeVars, hostVars
<1> QED BY <1>3, <1>5, <1>6, <1>7, <1>8, <1>9, <1>10 DEF Inv

(* The call goes on at its host, under its lease if it has one, or ends. *)
LEMMA CallGoesOn ==
  ASSUME Inv, NEW p \in Procs, NEW o \in Calls, Moves(p, o),
         CallOK(o), HostOK(o),
         o.pc \notin {"idle", "partial"} =>
           op[p].pc \notin {"idle", "partial"} /\ o.host = op[p].host,
         o.pc \in Leased => op[p].pc \in Leased /\ o.lease = op[p].lease,
         o.pc \in {"acquire", "cas"} /\ reqs[o.tid].kind = "repin" =>
           Opens(o.tid, o.gen)
  PROVE  Inv'
<1>1. ASSUME NEW q \in Procs \ {p} PROVE Apart(o, op[q])
  <2>1. Apart(op[p], op[q])
    BY DEF Inv, CallsInv
  <2> QED BY <2>1 DEF Apart
<1> QED BY <1>1, CallMoves

LEMMA CallEnds ==
  ASSUME Inv, NEW p \in Procs, Moves(p, Idle)
  PROVE  Inv'
BY IdleCall, IdleOK, CallGoesOn DEF Inv, Leased

LEMMA CallGoesPlain ==
  ASSUME Inv, NEW p \in Procs, op[p].pc \notin {"idle", "partial"},
         NEW o \in Calls, Moves(p, o), o.pc \in Plain,
         o.host = op[p].host, o.tid = op[p].tid, o.fence = op[p].fence,
         o.retire = op[p].retire, o.lease = op[p].lease
  PROVE  Inv'
<1>1. CallOK(o) /\ HostOK(o)
  BY PlainOK
<1>2. o.pc \notin Leased \cup {"idle", "partial", "acquire", "cas"}
  BY DEF Plain, Leased
<1> QED BY <1>1, <1>2, CallGoesOn

-----------------------------------------------------------------------------
(* Steps that move one call and nothing else.                              *)

LEMMA Unpoisoned ==
  ASSUME Inv, UNCHANGED <<poisoned, faults>>
  PROVE  poisoned' \in [Hosts -> BOOLEAN] /\ faults' \in 0..MaxFaults
BY DEF Inv, TypeOK

LEMMA DoneMeans ==
  ASSUME NEW t, RequestState(t) = "done"
  PROVE  /\ record # None /\ record.state = "active"
         /\ record.owner = reqs[t].owner
BY DEF RequestState, ActivationState, RepinState

LEMMA OpenMeans ==
  ASSUME NEW t, RequestState(t) = "open"
  PROVE  /\ record # None
         /\ reqs[t].kind = "activate" =>
              record.state = "pending" /\ record.tid = t
BY DEF RequestState, ActivationState, RepinState

(* An active record of the call's owner grants it the record's fence. *)
LEMMA GrantOK ==
  ASSUME Inv, record # None, record.state = "active",
         NEW o \in Calls, o.pc \in {"validate", "publish"},
         o.host \in Hosts, o.tid \in DOMAIN reqs,
         record.owner = reqs[o.tid].owner, o.fence = record.fence,
         o.retire < nextFence, o.lease = 0
  PROVE  CallOK(o) /\ HostOK(o)
<1>1. /\ record.fence < nextFence /\ nextFence >= 1 /\ nextFence \in Nat
      /\ Committed(record.fence, record.owner)
  BY Numbers DEF Inv, RecordInv
<1>2. CallOK(o)
  BY <1>1 DEF CallOK, Leased, Unspent
<1>3. HostOK(o)
  BY <1>1 DEF Inv, HostInv, Passed, HostOK
<1> QED BY <1>2, <1>3

LEMMA Granting ==
  ASSUME Inv, NEW p \in Procs, op[p].pc \notin {"idle", "partial"},
         RequestState(op[p].tid) = "done", Granted(p, record.fence),
         UNCHANGED <<reqs, storeVars, hostVars, poisoned, births, faults>>
  PROVE  Inv'
<1>1. /\ op[p] \in Calls /\ op[p].host \in Hosts /\ op[p].tid \in DOMAIN reqs
      /\ op[p].retire < nextFence
  BY Numbers DEF Inv, CallsInv, CallOK
<1>2. /\ record # None /\ record.state = "active"
      /\ record.owner = reqs[op[p].tid].owner
  BY DoneMeans
<1>3. record.fence \in Nat
  BY <1>2, Numbers, Fields DEF Inv
<1>4. PICK pc \in {"validate", "publish"} :
        op' = [op EXCEPT ![p] = [op[p] EXCEPT !.fence = record.fence,
                                              !.lease = 0, !.pc = pc]]
  <2>1. CASE reqs[op[p].tid].kind = "repin"
    BY <1>1, <2>1 DEF Granted
  <2>2. CASE reqs[op[p].tid].kind # "repin"
    BY <1>1, <2>2 DEF Granted
  <2> QED BY <2>1, <2>2
<1> DEFINE o == [op[p] EXCEPT !.fence = record.fence, !.lease = 0, !.pc = pc]
<1>5. /\ o \in Calls /\ o.pc = pc /\ o.host = op[p].host /\ o.tid = op[p].tid
      /\ o.fence = record.fence /\ o.retire = op[p].retire /\ o.lease = 0
  <2> pc \in Stages
    BY DEF Stages
  <2> QED BY <1>1, <1>3 DEF Calls
<1>6. Moves(p, o)
  BY <1>4, Unpoisoned DEF Moves
<1> HIDE DEF o
<1>7. CallOK(o) /\ HostOK(o)
  BY <1>1, <1>2, <1>5, GrantOK
<1> QED BY <1>5, <1>6, <1>7, CallGoesOn DEF Leased

(* A call that goes to a stage without more, or ends. *)
LEMMA Going ==
  ASSUME Inv, NEW p \in Procs, op[p].pc \notin {"idle", "partial"},
         NEW pc \in Plain, Go(p, pc),
         UNCHANGED <<reqs, storeVars, hostVars, births>>,
         poisoned' \in [Hosts -> BOOLEAN], faults' \in 0..MaxFaults
  PROVE  Inv'
<1> DEFINE o == [op[p] EXCEPT !.pc = pc]
<1>1. /\ o \in Calls /\ o.pc = pc /\ o.host = op[p].host /\ o.tid = op[p].tid
      /\ o.fence = op[p].fence /\ o.retire = op[p].retire
      /\ o.lease = op[p].lease
  <2>1. pc \in Stages
    BY DEF Stages, Plain, Unclassified
  <2>2. op[p] \in Calls
    BY Numbers DEF Inv
  <2> QED BY <2>1, <2>2 DEF Calls
<1>2. Moves(p, o)
  BY DEF Go, Moves
<1> HIDE DEF o
<1> QED BY <1>1, <1>2, CallGoesPlain

LEMMA Ending ==
  ASSUME Inv, NEW p \in Procs, End(p),
         UNCHANGED <<reqs, storeVars, hostVars, births>>,
         poisoned' \in [Hosts -> BOOLEAN], faults' \in 0..MaxFaults
  PROVE  Inv'
BY CallEnds DEF End, Moves

LEMMA PlainStages ==
  /\ {"recover", "recoverAgain", "read", "retireRecover", "finalRead",
      "finalAcquire"} \subseteq Plain
  /\ Plain \cup {"acquire", "cas", "refresh", "publish", "partial", "validate",
                 "hostRetire", "delete", "refreshed"} \subseteq Stages
BY DEF Plain, Stages, Leased, Unclassified

(* The activation or re-pin reads the record it wants to replace. *)
LEMMA Reading ==
  ASSUME Inv, NEW p \in Procs, NEW pc,
         \/ op[p].pc = "read" /\ pc = "acquire"
         \/ op[p].pc = "reread" /\ pc = "cas",
         RequestState(op[p].tid) = "open",
         op' = [op EXCEPT ![p].pc = pc, ![p].gen = record.gen],
         UNCHANGED <<reqs, storeVars, hostVars, poisoned, births, faults>>
  PROVE  Inv'
<1>1. op[p] \in Calls /\ CallOK(op[p])
  BY Numbers DEF Inv, CallsInv
<1>2. record # None /\ record.gen \in Nat
  <2>1. record # None
    BY OpenMeans
  <2> QED BY <2>1, Numbers, Fields DEF Inv
<1> DEFINE o == [op[p] EXCEPT !.pc = pc, !.gen = record.gen]
<1>3. /\ o \in Calls /\ o.pc = pc /\ o.host = op[p].host /\ o.tid = op[p].tid
      /\ o.fence = op[p].fence /\ o.retire = op[p].retire
      /\ o.lease = op[p].lease /\ o.gen = record.gen
  <2> pc \in Stages
    BY PlainStages
  <2> QED BY <1>1, <1>2 DEF Calls
<1>4. Moves(p, o)
  BY Unpoisoned DEF Moves
<1> HIDE DEF o
<1>5. reqs[o.tid].kind = "repin" => Opens(o.tid, o.gen)
  BY <1>3 DEF Opens, RequestState
<1>6. HostOK(o)
  BY <1>3 DEF HostOK
<1>7. CallOK(o)
  <2>1. CASE pc = "acquire"
    BY <1>1, <1>3, <2>1 DEF CallOK, Leased, Unspent
  <2>2. CASE pc = "cas"
    <3>1. reqs[o.tid].kind = "activate"
      BY <1>1, <1>3, <2>2 DEF CallOK
    <3>2. record.state = "pending" /\ record.tid = o.tid
      BY <1>3, <3>1, OpenMeans
    <3> QED BY <1>1, <1>2, <1>3, <2>2, <3>1, <3>2 DEF CallOK, Leased, Unspent
  <2> QED BY <2>1, <2>2
<1>8. o.pc \notin {"idle", "partial"} /\ op[p].pc \notin {"idle", "partial"}
  BY <1>3
<1>9. o.pc \in Leased => op[p].pc \in Leased
  BY <1>3 DEF Leased
<1> QED BY <1>3, <1>4, <1>5, <1>6, <1>7, <1>8, <1>9, CallGoesOn

LEMMA RecoverKeeps ==
  ASSUME Inv, NEW p \in Procs, Recover(p) PROVE Inv'
<1>1. /\ op[p].pc \in {"recover", "recoverAgain"}
      /\ UNCHANGED <<reqs, storeVars, hostVars, poisoned, births, faults>>
  BY DEF Recover
<1>2. poisoned' \in [Hosts -> BOOLEAN] /\ faults' \in 0..MaxFaults
  BY <1>1, Unpoisoned
<1>3. CASE RequestState(op[p].tid) = "done"
  <2>1. Granted(p, record.fence)
    BY <1>3 DEF Recover
  <2> QED BY <1>1, <1>3, <2>1, Granting
<1>4. CASE RequestState(op[p].tid) # "done"
  <2>1. Go(p, "read") \/ End(p)
    BY <1>4 DEF Recover
  <2> QED BY <1>1, <1>2, <2>1, Going, Ending, PlainStages
<1> QED BY <1>3, <1>4

LEMMA ReadKeeps ==
  ASSUME Inv, NEW p \in Procs, Read(p) PROVE Inv'
<1>1. /\ op[p].pc = "read"
      /\ UNCHANGED <<reqs, storeVars, hostVars, poisoned, births, faults>>
  BY DEF Read
<1>2. poisoned' \in [Hosts -> BOOLEAN] /\ faults' \in 0..MaxFaults
  BY <1>1, Unpoisoned
<1>3. CASE RequestState(op[p].tid) = "done" /\ reqs[op[p].tid].kind = "activate"
  <2>1. Granted(p, record.fence)
    BY <1>3 DEF Read
  <2> QED BY <1>1, <1>3, <2>1, Granting
<1>4. CASE RequestState(op[p].tid) = "open"
  <2>1. op' = [op EXCEPT ![p].pc = "acquire", ![p].gen = record.gen]
    BY <1>4 DEF Read
  <2> QED BY <1>1, <1>4, <2>1, Reading
<1>5. CASE /\ ~(RequestState(op[p].tid) = "done"
                  /\ reqs[op[p].tid].kind = "activate")
           /\ RequestState(op[p].tid) # "open"
  <2>1. Go(p, "recoverAgain")
    BY <1>5 DEF Read
  <2> QED BY <1>1, <1>2, <2>1, Going, PlainStages
<1> QED BY <1>3, <1>4, <1>5

LEMMA RereadKeeps ==
  ASSUME Inv, NEW p \in Procs, Reread(p) PROVE Inv'
<1>1. /\ op[p].pc = "reread"
      /\ UNCHANGED <<reqs, storeVars, hostVars, poisoned, births, faults>>
  BY DEF Reread
<1>2. poisoned' \in [Hosts -> BOOLEAN] /\ faults' \in 0..MaxFaults
  BY <1>1, Unpoisoned
<1>3. CASE RequestState(op[p].tid) = "done"
  <2>1. Granted(p, record.fence)
    BY <1>3 DEF Reread
  <2> QED BY <1>1, <1>3, <2>1, Granting
<1>4. CASE RequestState(op[p].tid) = "open"
  <2>1. op' = [op EXCEPT ![p].pc = "cas", ![p].gen = record.gen]
    BY <1>4 DEF Reread
  <2> QED BY <1>1, <1>4, <2>1, Reading
<1>5. CASE RequestState(op[p].tid) \notin {"done", "open"}
  <2>1. Go(p, "recoverAgain")
    BY <1>5 DEF Reread
  <2> QED BY <1>1, <1>2, <2>1, Going, PlainStages
<1> QED BY <1>3, <1>4, <1>5

LEMMA ValidateKeeps ==
  ASSUME Inv, NEW p \in Procs, Validate(p) PROVE Inv'
<1>1. PICK pc \in {"publish", "partial"} :
        Go(p, pc) /\ (pc = "publish" => ProofHolds(p))
  BY DEF Validate
<1>2. /\ op[p].pc = "validate"
      /\ UNCHANGED <<reqs, storeVars, hostVars, poisoned, births, faults>>
  BY DEF Validate
<1>3. op[p] \in Calls /\ CallOK(op[p]) /\ HostOK(op[p])
  BY Numbers DEF Inv, CallsInv
<1> DEFINE o == [op[p] EXCEPT !.pc = pc]
<1>4. /\ o \in Calls /\ o.pc = pc /\ o.host = op[p].host /\ o.tid = op[p].tid
      /\ o.fence = op[p].fence /\ o.retire = op[p].retire
      /\ o.lease = op[p].lease
  <2> pc \in Stages
    BY PlainStages
  <2> QED BY <1>3 DEF Calls
<1>5. Moves(p, o)
  BY <1>1, <1>2, Unpoisoned DEF Moves, Go
<1> HIDE DEF o
<1>6. CallOK(o)
  BY <1>2, <1>3, <1>4 DEF CallOK, Leased, Unspent
<1>7. HostOK(o)
  <2>1. Committed(o.fence, reqs[o.tid].owner)
    BY <1>2, <1>3, <1>4 DEF HostOK
  <2>2. CASE pc = "partial"
    BY <1>4, <2>1, <2>2 DEF HostOK
  <2>3. CASE pc = "publish"
    <3>1. record # None /\ record.state = "active" /\ record.fence = o.fence
      BY <1>1, <1>4, <2>3 DEF ProofHolds
    <3>2. o.host \in Hosts
      BY <1>2, <1>3, <1>4 DEF CallOK
    <3> QED BY <1>4, <2>1, <2>3, <3>1, <3>2 DEF HostOK, Inv, HostInv, Passed
  <2> QED BY <2>2, <2>3
<1> QED BY <1>2, <1>4, <1>5, <1>6, <1>7, CallGoesOn DEF Leased

(* A call takes the permit of its host. *)
LEMMA Permitted ==
  ASSUME Inv, NEW p \in Procs, op[p].pc \in {"idle", "partial"},
         NEW h \in Hosts, PermitFree(h), NEW o \in Calls, o.host = h,
         o.pc \notin Leased
  PROVE  \A q \in Procs \ {p} : Apart(o, op[q])
BY DEF PermitFree, HasPermit, Apart

LEMMA StartKeeps ==
  ASSUME Inv, NEW p \in Procs, NEW h \in Hosts, NEW t \in DOMAIN reqs,
         Start(p, h, t)
  PROVE  Inv'
<1> DEFINE o == [Called(h, t) EXCEPT !.pc = "recover"]
<1>1. /\ o \in Calls /\ o.pc = "recover" /\ o.host = h /\ o.tid = t
      /\ o.fence = 0 /\ o.retire = 0 /\ o.lease = 0
  <2> t \in Nat
    BY Numbers DEF Inv
  <2> QED BY PlainStages DEF Called, Idle, Calls, Plain
<1>2. Moves(p, o)
  BY Unpoisoned DEF Start, Moves
<1> HIDE DEF o
<1>3. CallOK(o) /\ HostOK(o)
  BY <1>1, Numbers DEF Inv, CallOK, HostOK, Leased, Unspent
<1>4. \A q \in Procs \ {p} : Apart(o, op[q])
  BY <1>1, Permitted DEF Start, Leased
<1> QED BY <1>1, <1>2, <1>3, <1>4, CallMoves

LEMMA StartRetireKeeps ==
  ASSUME Inv, NEW p \in Procs, NEW h \in Hosts, NEW t \in DOMAIN reqs,
         StartRetire(p, h, t)
  PROVE  Inv'
<1>1. PICK c \in commits :
        op' = [op EXCEPT ![p] = [Called(h, t) EXCEPT !.pc = "retireRead",
                                                     !.fence = c.fence]]
  BY DEF StartRetire
<1>2. c.fence \in Nat /\ c.fence < nextFence
  BY Numbers, Fields DEF Inv, CommitInv
<1> DEFINE o == [Called(h, t) EXCEPT !.pc = "retireRead", !.fence = c.fence]
<1>3. /\ o \in Calls /\ o.pc = "retireRead" /\ o.host = h /\ o.tid = t
      /\ o.fence = c.fence /\ o.retire = 0 /\ o.lease = 0
  <2> t \in Nat
    BY Numbers DEF Inv
  <2> QED BY <1>2, PlainStages DEF Called, Idle, Calls, Plain
<1>4. Moves(p, o)
  BY <1>1, Unpoisoned DEF StartRetire, Moves
<1> HIDE DEF o
<1>5. CallOK(o) /\ HostOK(o)
  BY <1>2, <1>3, Numbers DEF Inv, CallOK, HostOK, Leased, Unspent
<1>6. \A q \in Procs \ {p} : Apart(o, op[q])
  BY <1>3, Permitted DEF StartRetire, Leased
<1> QED BY <1>3, <1>4, <1>5, <1>6, CallMoves

LEMMA RetryKeeps ==
  ASSUME Inv, NEW p \in Procs, Retry(p) PROVE Inv'
<1>1. op[p] \in Calls /\ CallOK(op[p]) /\ HostOK(op[p]) /\ op[p].pc = "partial"
  BY Numbers DEF Inv, CallsInv, Retry
<1> DEFINE o == [op[p] EXCEPT !.pc = "validate"]
<1>2. /\ o \in Calls /\ o.pc = "validate" /\ o.host = op[p].host
      /\ o.tid = op[p].tid /\ o.fence = op[p].fence
      /\ o.retire = op[p].retire /\ o.lease = op[p].lease
  <2> "validate" \in Stages
    BY PlainStages
  <2> QED BY <1>1 DEF Calls
<1>3. Moves(p, o)
  BY Unpoisoned DEF Retry, Go, Moves
<1> HIDE DEF o
<1>4. CallOK(o) /\ HostOK(o)
  BY <1>1, <1>2 DEF CallOK, HostOK, Leased, Unspent
<1>5. \A q \in Procs \ {p} : Apart(o, op[q])
  <2>1. o.host \in Hosts
    BY <1>1, <1>2 DEF CallOK
  <2> QED BY <1>1, <1>2, <2>1, Permitted DEF Retry, Leased
<1> QED BY <1>2, <1>3, <1>4, <1>5, CallMoves

LEMMA AbandonKeeps ==
  ASSUME Inv, NEW p \in Procs, Abandon(p) PROVE Inv'
BY Unpoisoned, Ending DEF Abandon

(* A retiring record of the call's lineage grants it the record's fence. *)
LEMMA RetireGranting ==
  ASSUME Inv, NEW p \in Procs, op[p].pc \notin {"idle", "partial"},
         RetirementState(op[p].tid, op[p].fence) = "granted",
         RetireGranted(p, record.fence),
         UNCHANGED <<reqs, storeVars, hostVars, poisoned, births, faults>>
  PROVE  Inv'
<1>1. op[p] \in Calls /\ CallOK(op[p])
  BY Numbers DEF Inv, CallsInv
<1>2. record # None /\ record.state = "retiring" /\ record.fence > op[p].fence
  BY DEF RetirementState
<1>3. record.fence \in Nat /\ record.fence < nextFence
  BY <1>2, Numbers, Fields DEF Inv, RecordInv
<1> DEFINE o == [op[p] EXCEPT !.pc = "hostRetire", !.retire = record.fence,
                              !.lease = 0]
<1>4. /\ o \in Calls /\ o.pc = "hostRetire" /\ o.host = op[p].host
      /\ o.tid = op[p].tid /\ o.fence = op[p].fence
      /\ o.retire = record.fence /\ o.lease = 0
  <2> "hostRetire" \in Stages
    BY PlainStages
  <2> QED BY <1>1, <1>3 DEF Calls
<1>5. Moves(p, o)
  BY Unpoisoned DEF RetireGranted, Moves
<1> HIDE DEF o
<1>6. CallOK(o)
  BY <1>1, <1>3, <1>4, Numbers DEF Inv, CallOK, Leased, Unspent
<1>7. HostOK(o)
  <2>1. o.fence < o.retire
    BY <1>1, <1>2, <1>3, <1>4, Fields
  <2>2. Passed(o.retire)
    BY <1>2, <1>3, <1>4 DEF Passed
  <2>3. o.host \in Hosts
    BY <1>1, <1>4 DEF CallOK
  <2> QED BY <1>2, <1>4, <2>1, <2>2, <2>3 DEF HostOK, Inv, HostInv
<1> QED BY <1>4, <1>5, <1>6, <1>7, CallGoesOn DEF Leased

LEMMA RetireReadKeeps ==
  ASSUME Inv, NEW p \in Procs, RetireRead(p) PROVE Inv'
<1> DEFINE state == RetirementState(op[p].tid, op[p].fence)
<1>1. /\ op[p].pc = "retireRead"
      /\ UNCHANGED <<reqs, storeVars, hostVars, poisoned, births, faults>>
  BY DEF RetireRead
<1>2. poisoned' \in [Hosts -> BOOLEAN] /\ faults' \in 0..MaxFaults
  BY <1>1, Unpoisoned
<1>3. CASE state = "granted"
  <2>1. RetireGranted(p, record.fence)
    BY <1>3 DEF RetireRead
  <2> QED BY <1>1, <1>3, <2>1, RetireGranting
<1>4. CASE state = "active"
  <2>1. op' = [op EXCEPT ![p].pc = "retireAcquire", ![p].gen = record.gen]
    BY <1>4 DEF RetireRead
  <2>2. record # None
    BY <1>4 DEF RetirementState
  <2>3. record.gen \in Nat /\ op[p] \in Calls
    BY <2>2, Numbers, Fields DEF Inv
  <2> DEFINE o == [op[p] EXCEPT !.pc = "retireAcquire", !.gen = record.gen]
  <2>4. /\ o \in Calls /\ o.pc = "retireAcquire" /\ o.host = op[p].host
        /\ o.tid = op[p].tid /\ o.fence = op[p].fence
        /\ o.retire = op[p].retire /\ o.lease = op[p].lease
    <3> "retireAcquire" \in Stages
      BY PlainStages DEF Plain
    <3> QED BY <2>3 DEF Calls
  <2>5. Moves(p, o)
    BY <1>1, <1>2, <2>1 DEF Moves
  <2> HIDE DEF o
  <2>6. o.pc \in Plain
    BY <2>4 DEF Plain
  <2> QED BY <1>1, <2>4, <2>5, <2>6, CallGoesPlain
<1>5. CASE state \notin {"granted", "active"}
  <2>1. End(p)
    BY <1>5 DEF RetireRead
  <2> QED BY <1>1, <1>2, <2>1, Ending
<1> QED BY <1>3, <1>4, <1>5

LEMMA Poisoning ==
  ASSUME Inv, NEW h, NEW b \in BOOLEAN,
         poisoned' = [poisoned EXCEPT ![h] = b]
  PROVE  poisoned' \in [Hosts -> BOOLEAN]
BY DEF Inv, TypeOK

LEMMA RetireRecoverKeeps ==
  ASSUME Inv, NEW p \in Procs, RetireRecover(p) PROVE Inv'
<1> DEFINE state == RetirementState(op[p].tid, op[p].fence)
<1>1. op[p].pc = "retireRecover" /\ UNCHANGED <<reqs, storeVars, hostVars, births>>
  BY DEF RetireRecover
<1>2. CASE /\ state = "granted" /\ RetireGranted(p, record.fence)
           /\ UNCHANGED <<poisoned, faults>>
  BY <1>1, <1>2, RetireGranting
<1>3. CASE End(p) /\ UNCHANGED <<poisoned, faults>>
  BY <1>1, <1>3, Unpoisoned, Ending
<1>4. CASE EndPoisoned(p) /\ (Fault \/ UNCHANGED faults)
  <2>1. poisoned' \in [Hosts -> BOOLEAN]
    BY <1>4, Poisoning DEF EndPoisoned
  <2>2. faults' \in 0..MaxFaults
    BY <1>4, Faulted DEF Inv, TypeOK
  <2> QED BY <1>1, <1>4, <2>1, <2>2, Ending DEF EndPoisoned
<1> QED BY <1>2, <1>3, <1>4 DEF RetireRecover

LEMMA FinalReadKeeps ==
  ASSUME Inv, NEW p \in Procs, FinalRead(p) PROVE Inv'
<1>1. /\ op[p].pc = "finalRead" /\ (Go(p, "finalAcquire") \/ End(p))
      /\ UNCHANGED <<reqs, storeVars, hostVars, poisoned, births, faults>>
  BY DEF FinalRead
<1> QED BY <1>1, Unpoisoned, Going, Ending, PlainStages

LEMMA FinalRereadKeeps ==
  ASSUME Inv, NEW p \in Procs, FinalReread(p) PROVE Inv'
<1>1. /\ op[p].pc = "finalReread"
      /\ UNCHANGED <<reqs, storeVars, hostVars, poisoned, births, faults>>
  BY DEF FinalReread
<1>2. CASE Finalizable(p)
  <2>1. op' = [op EXCEPT ![p].pc = "refresh", ![p].gen = record.gen]
    BY <1>2 DEF FinalReread
  <2>2. record # None
    BY <1>2 DEF Finalizable
  <2>3. record.gen \in Nat /\ op[p] \in Calls /\ CallOK(op[p])
    BY <2>2, Numbers, Fields DEF Inv, CallsInv
  <2> DEFINE o == [op[p] EXCEPT !.pc = "refresh", !.gen = record.gen]
  <2>4. /\ o \in Calls /\ o.pc = "refresh" /\ o.host = op[p].host
        /\ o.tid = op[p].tid /\ o.fence = op[p].fence
        /\ o.retire = op[p].retire /\ o.lease = op[p].lease
    <3> "refresh" \in Stages
      BY PlainStages
    <3> QED BY <2>3 DEF Calls
  <2>5. Moves(p, o)
    BY <1>1, <2>1, Unpoisoned DEF Moves
  <2> HIDE DEF o
  <2>6. CallOK(o) /\ HostOK(o)
    BY <1>1, <2>3, <2>4 DEF CallOK, HostOK, Leased, Unspent
  <2> QED BY <1>1, <2>4, <2>5, <2>6, CallGoesOn DEF Leased
<1>3. CASE ~Finalizable(p)
  BY <1>1, <1>3, Unpoisoned, Ending DEF FinalReread
<1> QED BY <1>2, <1>3

LEMMA RetireRecordType ==
  ASSUME Inv, NEW p \in Procs, op[p].pc # "idle"
  PROVE  /\ RetireRecord(p) \in Records
         /\ RetireRecord(p).gen = op[p].gen + 1
         /\ RetireRecord(p).owner = reqs[op[p].tid].owner
         /\ RetireRecord(p).fence = op[p].lease
         /\ RetireRecord(p).state = "retiring"
         /\ RetireRecord(p).tid = op[p].tid
         /\ RetireRecord(p).active = op[p].fence
<1>1. op[p] \in Calls /\ op[p].tid \in DOMAIN reqs
  BY Numbers DEF Inv, CallsInv, CallOK
<1>2. /\ reqs[op[p].tid].owner \in Owners /\ op[p].gen + 1 \in Nat
      /\ op[p].lease \in Nat /\ op[p].tid \in Nat /\ op[p].fence \in Nat
  BY <1>1, Numbers, Fields DEF Inv
<1> QED BY <1>2 DEF RetireRecord, Records

LEMMA RefreshReadbackKeeps ==
  ASSUME Inv, NEW p \in Procs, RefreshReadback(p) PROVE Inv'
<1>1. /\ op[p].pc = "refreshed"
      /\ UNCHANGED <<reqs, storeVars, hostVars, poisoned, births, faults>>
  BY DEF RefreshReadback
<1>2. CASE record = RetireRecord(p)
  <2>1. Go(p, "delete")
    BY <1>2 DEF RefreshReadback
  <2>2. op[p] \in Calls /\ CallOK(op[p])
    BY Numbers DEF Inv, CallsInv
  <2> DEFINE o == [op[p] EXCEPT !.pc = "delete"]
  <2>3. /\ o \in Calls /\ o.pc = "delete" /\ o.host = op[p].host
        /\ o.tid = op[p].tid /\ o.fence = op[p].fence
        /\ o.retire = op[p].retire /\ o.lease = op[p].lease
        /\ o.gen = op[p].gen
    <3> "delete" \in Stages
      BY PlainStages
    <3> QED BY <2>2 DEF Calls
  <2>4. Moves(p, o)
    BY <1>1, <2>1, Unpoisoned DEF Moves, Go
  <2> HIDE DEF o
  <2>5. /\ record.state = "retiring" /\ record.tid = o.tid
        /\ record.fence = o.lease /\ record.active = o.fence
        /\ record.gen = o.gen + 1
    BY <1>2, <2>3 DEF RetireRecord
  <2>6. late # None /\ record # None => o.lease # late.new.fence
    BY <2>5 DEF Inv, LateInv, UpdateOK, Used
  <2>7. record # None
    BY <1>1, <1>2, NoneIsNoRecord, RetireRecordType
  <2>8. CallOK(o) /\ HostOK(o)
    BY <1>1, <2>2, <2>3, <2>5, <2>6, <2>7 DEF CallOK, HostOK, Leased, Unspent
  <2> QED BY <1>1, <2>3, <2>4, <2>8, CallGoesOn DEF Leased
<1>3. CASE record # RetireRecord(p)
  BY <1>1, <1>3, Unpoisoned, Ending DEF RefreshReadback
<1> QED BY <1>2, <1>3

LEMMA FailsKeeps ==
  ASSUME Inv, NEW p \in Procs, Fails(p) PROVE Inv'
<1>1. /\ op[p].pc \notin {"idle", "partial"}
      /\ UNCHANGED <<reqs, storeVars, hostVars, poisoned, births>>
  BY DEF Fails, HasPermit
<1>2. poisoned' \in [Hosts -> BOOLEAN] /\ faults' \in 0..MaxFaults
  BY <1>1, Faulted DEF Inv, TypeOK, Fails
<1>3. CASE op[p].pc \in {"read", "acquire", "reread"}
  <2>1. Go(p, "recoverAgain")
    BY <1>3 DEF Fails
  <2> QED BY <1>1, <1>2, <2>1, Going, PlainStages
<1>4. CASE op[p].pc \in {"validate", "publish"}
  <2>1. PublishFailed(p)
    BY <1>4 DEF Fails
  <2>2. CASE End(p)
    BY <1>1, <1>2, <2>2, Ending
  <2>3. CASE Go(p, "partial")
    <3>1. op[p] \in Calls /\ CallOK(op[p]) /\ HostOK(op[p])
      BY Numbers DEF Inv, CallsInv
    <3> DEFINE o == [op[p] EXCEPT !.pc = "partial"]
    <3>2. /\ o \in Calls /\ o.pc = "partial" /\ o.host = op[p].host
          /\ o.tid = op[p].tid /\ o.fence = op[p].fence
          /\ o.retire = op[p].retire /\ o.lease = op[p].lease
      <4> "partial" \in Stages
        BY PlainStages
      <4> QED BY <3>1 DEF Calls
    <3>3. Moves(p, o)
      BY <1>1, <1>2, <2>3 DEF Moves, Go
    <3> HIDE DEF o
    <3>4. CallOK(o) /\ HostOK(o)
      BY <1>4, <3>1, <3>2 DEF CallOK, HostOK, Leased, Unspent
    <3> QED BY <1>1, <3>2, <3>3, <3>4, CallGoesOn DEF Leased
  <2> QED BY <2>1, <2>2, <2>3 DEF PublishFailed
<1>5. CASE op[p].pc \notin {"read", "acquire", "reread", "validate", "publish"}
  <2>1. End(p)
    BY <1>5 DEF Fails
  <2> QED BY <1>1, <1>2, <2>1, Ending
<1> QED BY <1>3, <1>4, <1>5

LEMMA DropKeeps ==
  ASSUME Inv, NEW p \in Procs, Drop(p) PROVE Inv'
<1>1. poisoned' \in [Hosts -> BOOLEAN]
  <2>1. (poisoned[op[p].host] \/ op[p].pc \in Unclassified) \in BOOLEAN
    OBVIOUS
  <2> QED BY <2>1, Poisoning DEF Drop
<1>2. faults' \in 0..MaxFaults
  BY Faulted DEF Inv, Drop
<1> QED BY <1>1, <1>2, Ending DEF Drop

-----------------------------------------------------------------------------
(* Leases.                                                                 *)

(* A lease is granted under a fence nothing has used. *)
LEMMA FreshFence ==
  ASSUME Inv
  PROVE  ~Used(nextFence) /\ (late # None => late.new.fence < nextFence)
<1>1. /\ nextFence \in Nat
      /\ record # None => record.fence \in Nat /\ record.fence < nextFence
      /\ \A c \in commits : c.fence \in Nat /\ c.fence < nextFence
      /\ \A t \in DOMAIN reqs : /\ reqs[t].previousFence \in Nat
                                /\ reqs[t].previousFence < nextFence
  BY Numbers, Fields DEF Inv, RecordInv, CommitInv, ReqsInv
<1> QED BY <1>1 DEF Used, Inv, LateInv, UpdateOK

(* The lease passes to another call or ends: what was known under the      *)
(* lease of a call is known as long as it holds.                           *)
LEMMA LeaseMoves ==
  ASSUME Inv, UNCHANGED <<reqs, record, late, commits, hostVars, births>>,
         nextFence' \in Nat, nextFence' >= nextFence,
         lease' = None \/ lease'.fence = nextFence
  PROVE  /\ \A o \in Calls : CallOK(o) => CallOK(o)'
         /\ \A o \in Calls : HostOK(o) => HostOK(o)'
         /\ (ReqsInv /\ RecordInv /\ CommitInv /\ LateInv /\ HostInv)'
         /\ (CommittedOnce /\ ActivationReplacesItsBirth /\ SteeringAdvances)'
<1>1. nextFence \in Nat
  BY Numbers DEF Inv
<1>2. ASSUME NEW f \in Nat, f < nextFence
      PROVE  f < nextFence' /\ ~LeaseHeld(f)'
  BY <1>1, <1>2 DEF LeaseHeld
<1>3. ASSUME NEW f PROVE Used(f)' <=> Used(f)
  BY DEF Used
<1>4. ASSUME NEW o \in Calls, CallOK(o) PROVE CallOK(o)'
  <2>1. /\ o.fence < nextFence' /\ o.retire < nextFence' /\ o.lease < nextFence'
        /\ ~LeaseHeld(o.lease)'
    BY <1>2, <1>4, Fields DEF CallOK
  <2> QED BY <1>3, <1>4, <2>1 DEF CallOK
<1>5. ASSUME NEW o \in Calls, HostOK(o) PROVE HostOK(o)'
  BY <1>5 DEF HostOK, Committed, Passed, hostVars
<1>6. ReqsInv'
  BY <1>2, Numbers, Fields DEF Inv, ReqsInv
<1>7. RecordInv'
  BY <1>2, Numbers, Fields DEF Inv, RecordInv, Committed
<1>8. CommitInv'
  BY <1>2, Numbers, Fields DEF Inv, CommitInv
<1>9. LateInv'
  <2> SUFFICES ASSUME late # None PROVE UpdateOK(late)'
    BY DEF LateInv
  <2>1. UpdateOK(late) /\ late.new.fence \in Nat
    BY Numbers, Fields DEF Inv, LateInv
  <2>2. late.new.fence < nextFence' /\ ~LeaseHeld(late.new.fence)'
    BY <1>2, <2>1 DEF UpdateOK
  <2>3. ~Used(late.new.fence)'
    BY <1>3, <2>1 DEF UpdateOK
  <2> QED BY <2>1, <2>2, <2>3 DEF UpdateOK, LeaseHeld, Used
<1>10. HostInv'
  BY <1>2, Numbers DEF Inv, HostInv, Passed, Committed, hostVars
<1>11. (CommittedOnce /\ ActivationReplacesItsBirth /\ SteeringAdvances)'
  BY DEF Inv, CommittedOnce, ActivationReplacesItsBirth, SteeringAdvances,
         Live, hostVars
<1> QED BY <1>4, <1>5, <1>6, <1>7, <1>8, <1>9, <1>10, <1>11

(* The stages of the call p that acquires, and of the one that has. *)
Acquires(p, granted) ==
  \/ op[p].pc = "acquire" /\ granted = "reread"
       /\ reqs[op[p].tid].kind = "activate"
  \/ op[p].pc = "acquire" /\ granted = "cas" /\ reqs[op[p].tid].kind = "repin"
  \/ op[p].pc = "retireAcquire" /\ granted = "retireCas"
  \/ op[p].pc = "finalAcquire" /\ granted = "finalReread"

LEMMA GrantedLease ==
  ASSUME Inv, NEW p \in Procs, NEW granted, Acquires(p, granted),
         nextFence <= MaxFence,
         lease' = [owner |-> reqs[op[p].tid].owner, fence |-> nextFence],
         nextFence' = nextFence + 1,
         op' = [op EXCEPT ![p].pc = granted, ![p].lease = nextFence],
         UNCHANGED <<reqs, record, late, commits, hostVars, births, poisoned,
                     faults>>
  PROVE  Inv'
<1>1. /\ TypeOK /\ op \in [Procs -> Calls] /\ nextFence \in Nat
      /\ op[p] \in Calls /\ CallOK(op[p]) /\ HostOK(op[p])
  BY Numbers DEF Inv, CallsInv, TypeOK
<1>2. op[p].tid \in DOMAIN reqs /\ op[p].host \in Hosts
  BY <1>1 DEF CallOK, Acquires
<1>3. PICK o \in Calls :
        /\ o = [op[p] EXCEPT !.pc = granted, !.lease = nextFence]
        /\ o.pc = granted /\ o.host = op[p].host
        /\ o.tid = op[p].tid /\ o.fence = op[p].fence /\ o.gen = op[p].gen
        /\ o.retire = op[p].retire /\ o.lease = nextFence
  <2> DEFINE o == [op[p] EXCEPT !.pc = granted, !.lease = nextFence]
  <2>1. granted \in Stages
    BY DEF Acquires, Stages, Leased
  <2>2. /\ o \in Calls /\ o.pc = granted /\ o.host = op[p].host
        /\ o.tid = op[p].tid /\ o.fence = op[p].fence /\ o.gen = op[p].gen
        /\ o.retire = op[p].retire /\ o.lease = nextFence
    BY <1>1, <2>1 DEF Calls
  <2> QED BY <2>2
<1>4. op' = [op EXCEPT ![p] = o]
  BY <1>3
<1>5. op'[p] = o /\ \A q \in Procs \ {p} : op'[q] = op[q]
  BY <1>1, <1>4
<1>6. TypeOK'
  <2>1. op' \in [Procs -> Calls]
    BY <1>1, <1>3, <1>4
  <2>2. lease' \in [owner : Owners, fence : Nat]
    BY <1>1, <1>2, Numbers, Fields
  <2>3. nextFence' \in 1..(MaxFence + 1)
    BY <1>1, Bounds
  <2> QED BY <1>1, <2>1, <2>2, <2>3 DEF TypeOK, hostVars
<1>7. LeaseInv'
  BY <1>1 DEF LeaseInv
<1>8. /\ \A r \in Calls : CallOK(r) => CallOK(r)'
      /\ \A r \in Calls : HostOK(r) => HostOK(r)'
      /\ (ReqsInv /\ RecordInv /\ CommitInv /\ LateInv /\ HostInv)'
      /\ (CommittedOnce /\ ActivationReplacesItsBirth /\ SteeringAdvances)'
  <2>1. nextFence' \in Nat /\ nextFence' >= nextFence /\ lease'.fence = nextFence
    BY <1>1
  <2> QED BY <2>1, LeaseMoves
<1>9. CallOK(o)'
  <2>1. /\ o.fence < nextFence /\ o.retire < nextFence /\ nextFence >= 1
        /\ o.fence \in Nat /\ o.retire \in Nat
    BY <1>1, <1>3, Numbers, Fields DEF CallOK
  <2>2. ~Used(nextFence) /\ (late # None => late.new.fence # nextFence)
    BY <1>1, FreshFence, Numbers, Fields
  <2>3. ~Used(o.lease)'
    BY <1>3, <2>2 DEF Used
  <2>4. reqs[o.tid].kind = "repin" => o.lease > reqs[o.tid].previousFence
    BY <1>1, <1>2, <1>3, Numbers, Fields DEF Inv, ReqsInv
  <2>5. o.pc = "cas" => reqs[o.tid].kind # "activate"
    BY <1>3 DEF Acquires
  <2>6. /\ o.pc \in {"reread", "cas", "retireCas", "finalReread"}
        /\ o.pc = "reread" => reqs[o.tid].kind = "activate"
    BY <1>3 DEF Acquires
  <2>7. /\ o.fence < nextFence' /\ o.retire < nextFence' /\ o.lease < nextFence'
    BY <1>1, <1>3, <2>1
  <2> QED BY <1>2, <1>3, <2>1, <2>2, <2>3, <2>4, <2>5, <2>6, <2>7
          DEF CallOK, Unspent, Leased
<1>10. HostOK(o)'
  <2>1. o.pc \notin {"publish", "validate", "partial", "hostRetire"}
    BY <1>3 DEF Acquires
  <2> QED BY <2>1 DEF HostOK
<1>11. CallsInv'
  <2>1. ASSUME NEW q \in Procs
        PROVE  \E r \in Calls : op'[q] = r /\ CallOK(r)' /\ HostOK(r)'
    <3>1. CASE q = p
      BY <1>3, <1>5, <1>9, <1>10, <3>1
    <3>2. CASE q # p
      <4>1. op[q] \in Calls /\ CallOK(op[q]) /\ HostOK(op[q])
        BY <1>1 DEF Inv, CallsInv
      <4>2. PICK r \in Calls : r = op[q]
        BY <4>1
      <4> QED BY <1>5, <1>8, <3>2, <4>1, <4>2
    <3> QED BY <3>1, <3>2
  <2>2. ASSUME NEW q \in Procs \ {p} PROVE Apart(o, op[q]) /\ Apart(op[q], o)
    <3>1. Apart(op[p], op[q]) /\ CallOK(op[q]) /\ op[q] \in Calls
      BY <1>1 DEF Inv, CallsInv
    <3>2. op[q].lease # nextFence
      BY <1>1, <3>1, Fields DEF CallOK
    <3>3. op[p].pc \notin {"idle", "partial"}
      BY DEF Acquires
    <3> QED BY <1>3, <3>1, <3>2, <3>3 DEF Apart
  <2>3. ASSUME NEW q \in Procs, NEW r \in Procs, q # r
        PROVE  Apart(op'[q], op'[r])
    <3>1. CASE q = p
      BY <1>5, <2>2, <2>3, <3>1
    <3>2. CASE r = p
      BY <1>5, <2>2, <2>3, <3>2
    <3>3. CASE q # p /\ r # p
      BY <1>5, <2>3, <3>3 DEF Inv, CallsInv
    <3> QED BY <3>1, <3>2, <3>3
  <2> QED BY <2>1, <2>3, CallsNext
<1>12. ReaderInv'
  <2>1. ASSUME NEW t \in DOMAIN reqs, NEW g \in Nat, reqs[t].kind = "repin",
               Reader(t, g)'
        PROVE  Reader(t, g) \/ Opens(t, g)
    <3>1. CASE \E q \in Procs : /\ op'[q].pc \in {"acquire", "cas"}
                                /\ op'[q].tid = t
                                /\ op'[q].gen = g
      <4>1. PICK q \in Procs : /\ op'[q].pc \in {"acquire", "cas"}
                               /\ op'[q].tid = t
                               /\ op'[q].gen = g
        BY <3>1
      <4>2. CASE q = p
        <5>1. o.pc \in {"acquire", "cas"} /\ op[p].tid = t /\ op[p].gen = g
          BY <1>3, <1>5, <4>1, <4>2
        <5>2. op[p].pc = "acquire"
          BY <1>3, <5>1 DEF Acquires
        <5> QED BY <5>1, <5>2 DEF Reader
      <4>3. CASE q # p
        BY <1>5, <4>1, <4>3 DEF Reader
      <4> QED BY <4>2, <4>3
    <3>2. CASE /\ late' # None
               /\ late'.new.state = "active"
               /\ late'.new.tid = t
               /\ late'.gen = g
      BY <3>2 DEF Reader
    <3> QED BY <2>1, <3>1, <3>2 DEF Reader
  <2> QED BY <2>1, ReadersNext
<1> QED BY <1>6, <1>7, <1>8, <1>11, <1>12 DEF Inv

LEMMA AcquireToCommitKeeps ==
  ASSUME Inv, NEW p \in Procs, AcquireToCommit(p) PROVE Inv'
<1>1. op[p].pc = "acquire"
  BY DEF AcquireToCommit
<1>2. reqs[op[p].tid].kind \in {"activate", "repin"}
  <2>1. op[p].tid \in DOMAIN reqs
    BY <1>1 DEF Inv, CallsInv, CallOK
  <2> QED BY <2>1, Numbers, Fields DEF Inv
<1>3. CASE LeaseFreeFor(reqs[op[p].tid].owner) /\ nextFence <= MaxFence
  <2>1. PICK granted : /\ Acquires(p, granted)
                       /\ op' = [op EXCEPT ![p].pc = granted,
                                           ![p].lease = nextFence]
    <3>1. CASE reqs[op[p].tid].kind = "activate"
      BY <1>1, <1>3, <3>1 DEF AcquireToCommit, Acquire, Acquires
    <3>2. CASE reqs[op[p].tid].kind = "repin"
      BY <1>1, <1>3, <3>2 DEF AcquireToCommit, Acquire, Acquires
    <3> QED BY <1>2, <3>1, <3>2
  <2>2. /\ nextFence <= MaxFence
        /\ lease' = [owner |-> reqs[op[p].tid].owner, fence |-> nextFence]
        /\ nextFence' = nextFence + 1
        /\ UNCHANGED <<reqs, record, late, commits, hostVars, births, poisoned,
                       faults>>
    BY <1>3 DEF AcquireToCommit, Acquire
  <2> QED BY <2>1, <2>2, GrantedLease
<1>4. CASE ~(LeaseFreeFor(reqs[op[p].tid].owner) /\ nextFence <= MaxFence)
  <2>1. /\ Go(p, "recoverAgain")
        /\ UNCHANGED <<reqs, storeVars, hostVars, births, poisoned, faults>>
    BY <1>4 DEF AcquireToCommit, Acquire, storeVars
  <2> QED BY <1>1, <2>1, Unpoisoned, Going, PlainStages
<1> QED BY <1>3, <1>4

LEMMA AcquireToRetireKeeps ==
  ASSUME Inv, NEW p \in Procs, RetireAcquire(p) \/ FinalAcquire(p) PROVE Inv'
<1>1. PICK granted : /\ Acquires(p, granted)
                     /\ Acquire(p, granted, End(p) /\ UNCHANGED poisoned)
  BY DEF RetireAcquire, FinalAcquire, Acquires
<1>2. CASE LeaseFreeFor(reqs[op[p].tid].owner) /\ nextFence <= MaxFence
  <2>1. /\ nextFence <= MaxFence
        /\ lease' = [owner |-> reqs[op[p].tid].owner, fence |-> nextFence]
        /\ nextFence' = nextFence + 1
        /\ op' = [op EXCEPT ![p].pc = granted, ![p].lease = nextFence]
        /\ UNCHANGED <<reqs, record, late, commits, hostVars, births, poisoned,
                       faults>>
    BY <1>1, <1>2 DEF Acquire
  <2> QED BY <1>1, <2>1, GrantedLease
<1>3. CASE ~(LeaseFreeFor(reqs[op[p].tid].owner) /\ nextFence <= MaxFence)
  <2>1. /\ End(p)
        /\ UNCHANGED <<reqs, storeVars, hostVars, births, poisoned, faults>>
    BY <1>1, <1>3 DEF Acquire, storeVars
  <2> QED BY <2>1, Unpoisoned, Ending
<1> QED BY <1>2, <1>3

(* Calls, readers and hosts stay as they are; only the store changes.      *)
LEMMA CallsStay ==
  ASSUME Inv, UNCHANGED op,
         \A p \in Procs : CallOK(op[p]) => \A o \in Calls :
           o = op[p] => CallOK(o)' /\ HostOK(o)'
  PROVE  CallsInv'
<1>1. op \in [Procs -> Calls] /\ \A p \in Procs : op[p] \in Calls
  BY DEF Inv, TypeOK
<1>2. ASSUME NEW p \in Procs
      PROVE  \E o \in Calls : op'[p] = o /\ CallOK(o)' /\ HostOK(o)'
  <2>1. PICK o \in Calls : o = op[p]
    BY <1>1
  <2>2. CallOK(op[p])
    BY DEF Inv, CallsInv
  <2> QED BY <2>1, <2>2
<1>3. \A p, q \in Procs : p # q => Apart(op'[p], op'[q])
  BY DEF Inv, CallsInv
<1> QED BY <1>2, <1>3, CallsNext

LEMMA LeaseEndsKeeps ==
  ASSUME Inv, LeaseEnds PROVE Inv'
<1>1. /\ lease' = None
      /\ UNCHANGED <<reqs, record, nextFence, late, commits, hostVars, op,
                     poisoned, births>>
  BY DEF LeaseEnds
<1>2. TypeOK'
  <2>1. faults' \in 0..MaxFaults
    BY Faulted DEF LeaseEnds, Inv, TypeOK
  <2> QED BY <1>1, <2>1 DEF Inv, TypeOK, hostVars
<1>3. LeaseInv'
  BY <1>1 DEF LeaseInv
<1>4. nextFence' \in Nat /\ nextFence' >= nextFence
  BY <1>1, Numbers DEF Inv
<1>5. /\ \A r \in Calls : CallOK(r) => CallOK(r)'
      /\ \A r \in Calls : HostOK(r) => HostOK(r)'
      /\ (ReqsInv /\ RecordInv /\ CommitInv /\ LateInv /\ HostInv)'
      /\ (CommittedOnce /\ ActivationReplacesItsBirth /\ SteeringAdvances)'
  BY <1>1, <1>4, LeaseMoves
<1>6. CallsInv'
  <2>1. ASSUME NEW p \in Procs, NEW o \in Calls, o = op[p]
        PROVE  CallOK(o)' /\ HostOK(o)'
    <3>1. CallOK(o) /\ HostOK(o)
      BY <2>1 DEF Inv, CallsInv
    <3> QED BY <1>5, <3>1
  <2> QED BY <1>1, <2>1, CallsStay
<1>7. ReaderInv'
  <2>1. \A t \in DOMAIN reqs : \A g \in Nat : Reader(t, g)' => Reader(t, g)
    BY <1>1 DEF Reader
  <2> QED BY <1>1, <2>1, ReadersNext
<1> QED BY <1>2, <1>3, <1>5, <1>6, <1>7 DEF Inv

-----------------------------------------------------------------------------
(* Compare-and-set.                                                        *)

(* A compare-and-set that the store accepts. *)
Accepts(c) ==
  /\ UpdateOK(c)
  /\ CasAccepted(c)
  /\ Apply(c)
  /\ c.new.state = "active" /\ reqs[c.new.tid].kind = "repin"
       => Reader(c.new.tid, c.gen)
  /\ UNCHANGED <<reqs, lease, nextFence, hostVars, births>>

(* It raises the record's fence, and is the only writer that does. *)
LEMMA AppliedShape ==
  ASSUME Inv, NEW c \in Updates, Accepts(c)
  PROVE  /\ record # None /\ record.gen = c.gen /\ c.new.fence = nextFence - 1
         /\ record' = c.new /\ c.new \in Records /\ c.new # None
         /\ record.fence < c.new.fence
         /\ c.new.gen <= c.new.fence
         /\ \E n \in Commits :
              /\ commits' = IF c.refresh THEN commits ELSE commits \cup {n}
              /\ n.tid = c.new.tid /\ n.state = c.new.state
              /\ n.fence = c.new.fence /\ n.owner = c.new.owner
              /\ n.life = births /\ n.overTid = record.tid
<1>1. /\ record # None /\ record.gen = c.gen /\ lease # None
      /\ lease.fence = c.new.fence
  BY DEF Accepts, CasAccepted, LeaseHeld
<1>2. c.new \in Records /\ c.new # None
  BY Fields, NoneIsNoRecord
<1>3. /\ record \in Records /\ record.fence \in Nat /\ record.gen \in Nat
      /\ c.new.fence \in Nat /\ nextFence \in Nat /\ births \in Nat
      /\ record.tid \in Nat /\ c.new.tid \in Nat /\ c.new.owner \in Owners
  BY <1>1, <1>2, Numbers, Fields DEF Inv
<1>4. c.new.fence = nextFence - 1
  BY <1>1 DEF Inv, LeaseInv
<1>5. record.fence # c.new.fence
  BY <1>1 DEF Accepts, UpdateOK, Used
<1>6. record.fence < nextFence /\ record.gen <= record.fence
  BY <1>1 DEF Inv, RecordInv
<1>7. record.fence < c.new.fence
  BY <1>3, <1>4, <1>5, <1>6
<1>8. c.new.gen <= c.new.fence
  <2>1. c.new.gen = record.gen + 1
    BY <1>1 DEF Accepts, UpdateOK
  <2> QED BY <1>3, <1>6, <1>7, <2>1
<1> DEFINE n == [tid |-> c.new.tid, state |-> c.new.state,
                 fence |-> c.new.fence, owner |-> c.new.owner,
                 life |-> births, overTid |-> record.tid]
<1>9. c.new.state \in {"active", "retiring"}
  BY DEF Accepts, UpdateOK
<1>10. n \in Commits
  BY <1>3, <1>9 DEF Commits
<1>11. commits' = IF c.refresh THEN commits ELSE commits \cup {n}
  BY DEF Accepts, Apply
<1>12. record' = c.new
  BY DEF Accepts, Apply
<1> QED BY <1>1, <1>2, <1>4, <1>7, <1>8, <1>10, <1>11, <1>12

LEMMA AppliedUsed ==
  ASSUME Inv, NEW c \in Updates, Accepts(c), NEW f, f # c.new.fence, ~Used(f)
  PROVE  ~Used(f)'
<1>1. PICK n \in Commits :
        /\ commits' = IF c.refresh THEN commits ELSE commits \cup {n}
        /\ n.fence = c.new.fence
  BY AppliedShape
<1>2. record' = c.new /\ reqs' = reqs
  BY AppliedShape DEF Accepts
<1> QED BY <1>1, <1>2 DEF Used

(* What is known of the calls that do not hold its lease. *)
LEMMA AppliedCalls ==
  ASSUME Inv, NEW c \in Updates, Accepts(c), late' \in {late, None}
  PROVE  /\ \A o \in Calls :
              /\ o.pc \in Leased \ {"refreshed"} => o.lease # c.new.fence
              /\ CallOK(o)
              => CallOK(o)'
         /\ \A o \in Calls : HostOK(o) => HostOK(o)'
         /\ \A d \in Updates :
              d.new.fence # c.new.fence /\ UpdateOK(d) => UpdateOK(d)'
<1>1. /\ record # None /\ record' = c.new /\ record.fence < c.new.fence
      /\ record.fence \in Nat /\ c.new.fence \in Nat
      /\ UNCHANGED <<reqs, lease, nextFence, hostVars, births>>
  <2>1. c.new \in Records
    BY Fields
  <2> QED BY <2>1, AppliedShape, Numbers, Fields DEF Inv, Accepts
<1>2. PICK n \in Commits :
        commits' = IF c.refresh THEN commits ELSE commits \cup {n}
  BY AppliedShape
<1>3. LeaseHeld(c.new.fence)
  BY DEF Accepts, CasAccepted
<1>4. ASSUME NEW f, f # c.new.fence PROVE ~LeaseHeld(f)'
  BY <1>1, <1>3, <1>4 DEF LeaseHeld
<1>5. ASSUME NEW o \in Calls, CallOK(o),
             o.pc \in Leased \ {"refreshed"} => o.lease # c.new.fence
      PROVE  CallOK(o)'
  <2>1. o.pc \in Leased \ {"refreshed"} => ~LeaseHeld(o.lease)'
    BY <1>4, <1>5
  <2>2. o.pc \in Unspent => ~Used(o.lease)'
    BY <1>5, AppliedUsed DEF CallOK, Unspent, Leased
  <2>3. "cas" \in Leased \ {"refreshed"} /\ "delete" \in Leased \ {"refreshed"}
    BY DEF Leased
  <2>4. o.pc \in Leased \ {"refreshed"} /\ late' # None => o.lease # late'.new.fence
    BY <1>5 DEF CallOK
  <2> QED BY <1>1, <1>5, <2>1, <2>2, <2>3, <2>4 DEF CallOK
<1>6. ASSUME NEW f, NEW w, Committed(f, w) PROVE Committed(f, w)'
  BY <1>2, <1>6 DEF Committed
<1>7. ASSUME NEW f \in Nat, Passed(f) PROVE Passed(f)'
  BY <1>1, <1>7 DEF Passed
<1>8. ASSUME NEW o \in Calls, HostOK(o) PROVE HostOK(o)'
  <2>1. o.pc = "hostRetire" => Passed(o.retire)'
    BY <1>7, <1>8, Fields DEF HostOK
  <2>2. o.pc \in {"publish", "validate", "partial"}
          => Committed(o.fence, reqs[o.tid].owner)'
    BY <1>1, <1>2, <1>8 DEF HostOK, Committed
  <2> QED BY <1>1, <1>8, <2>1, <2>2 DEF HostOK, hostVars
<1>9. ASSUME NEW d \in Updates, d.new.fence # c.new.fence, UpdateOK(d)
      PROVE  UpdateOK(d)'
  <2>1. ~LeaseHeld(d.new.fence)'
    BY <1>4, <1>9
  <2>2. ~Used(d.new.fence)'
    BY <1>9, AppliedUsed DEF UpdateOK
  <2> QED BY <1>1, <1>9, <2>1, <2>2 DEF UpdateOK
<1> QED BY <1>5, <1>8, <1>9

(* The store and the hosts after it. *)
LEMMA AppliedStore ==
  ASSUME Inv, NEW c \in Updates, Accepts(c)
  PROVE  /\ record' \in Records /\ commits' \subseteq Commits
         /\ (ReqsInv /\ RecordInv /\ LeaseInv /\ CommitInv /\ HostInv)'
         /\ (CommittedOnce /\ ActivationReplacesItsBirth /\ SteeringAdvances)'
<1>1. /\ record # None /\ record.gen = c.gen
      /\ record' = c.new /\ record.fence < c.new.fence
      /\ c.new \in Records /\ c.new.gen <= c.new.fence
      /\ record.fence \in Nat /\ c.new.fence \in Nat
      /\ record.gen \in Nat /\ births \in Nat
      /\ UNCHANGED <<reqs, lease, nextFence, hostVars, births>>
  <2>1. c.new \in Records
    BY Fields
  <2> QED BY <2>1, AppliedShape, Numbers, Fields DEF Inv, Accepts
<1>2. PICK n \in Commits :
        /\ commits' = IF c.refresh THEN commits ELSE commits \cup {n}
        /\ n.tid = c.new.tid /\ n.state = c.new.state
        /\ n.fence = c.new.fence /\ n.owner = c.new.owner
        /\ n.life = births /\ n.overTid = record.tid
  BY AppliedShape
<1>3. UpdateOK(c) /\ LeaseHeld(c.new.fence)
  BY DEF Accepts, CasAccepted
<1>4. commits \subseteq commits' /\ commits' \subseteq commits \cup {n}
  BY <1>2
<1>5. commits' \subseteq Commits
  BY <1>4 DEF Inv, TypeOK
<1>6. ReqsInv' /\ LeaseInv'
  BY <1>1 DEF Inv, ReqsInv, LeaseInv
<1>7. RecordInv'
  <2>1. c.new.state = "active" => Committed(c.new.fence, c.new.owner)'
    BY <1>2, <1>3 DEF UpdateOK, Committed
  <2>2. /\ c.new.tid \in DOMAIN reqs' /\ c.new.owner = reqs'[c.new.tid].owner
        /\ c.new.fence >= 1 /\ c.new.fence < nextFence'
        /\ c.new.state = "retiring" => c.new.active < c.new.fence
        /\ c.new.state # "pending"
    BY <1>1, <1>3 DEF UpdateOK
  <2> QED BY <1>1, <2>1, <2>2 DEF RecordInv, Committed
<1>8. CommitInv'
  <2>1. ASSUME NEW d \in commits' PROVE CommitInv!1!(d)'
    <3>1. CASE d \in commits
      <4>1. /\ d.tid \in DOMAIN reqs /\ d.owner = reqs[d.tid].owner
            /\ d.life <= births /\ d.fence >= 1 /\ d.fence < nextFence
            /\ d.fence <= record.fence
            /\ reqs[d.tid].kind = "repin" /\ d.state = "active"
                 => d.fence > reqs[d.tid].previousFence
        BY <1>1, <3>1 DEF Inv, CommitInv
      <4>2. d.fence \in Nat
        BY <3>1, Numbers, Fields DEF Inv
      <4>3. d.fence <= c.new.fence
        BY <1>1, <4>1, <4>2
      <4> QED BY <1>1, <4>1, <4>3
    <3>2. CASE d = n
      <4>1. n.life <= births /\ n.fence <= c.new.fence
        BY <1>1, <1>2
      <4> QED BY <1>1, <1>2, <1>3, <3>2, <4>1 DEF UpdateOK
    <3> QED BY <1>4, <3>1, <3>2
  <2>2. \A d \in commits : d.fence # n.fence
    BY <1>2, <1>3 DEF UpdateOK, Used
  <2>3. \A d, e \in commits' : d.fence = e.fence => d = e
    BY <1>4, <2>2 DEF Inv, CommitInv
  <2> QED BY <2>1, <2>3 DEF CommitInv
<1>9. HostInv'
  <2> SUFFICES ASSUME NEW h \in Hosts PROVE HostInv!(h)'
    BY DEF HostInv
  <2>1. /\ entry' = entry /\ floors' = floors
        /\ entry[h].fence \in Nat /\ entry[h].gen \in Nat
        /\ floors[h].published \in Nat /\ floors[h].retired \in Nat
    BY <1>1, Numbers DEF Inv, hostVars
  <2>2. /\ entry[h].fence <= record.fence /\ entry[h].gen <= record.fence
        /\ floors[h].published <= record.fence /\ floors[h].retired <= record.fence
    BY <1>1 DEF Inv, HostInv, Passed
  <2>3. /\ entry[h].fence < c.new.fence /\ entry[h].gen < c.new.fence
        /\ floors[h].published < c.new.fence /\ floors[h].retired < c.new.fence
    BY <1>1, <2>1, <2>2
  <2>4. entry[h].owner # None => Committed(entry[h].gen, entry[h].owner)'
    BY <1>4, <2>1 DEF Inv, HostInv, Committed
  <2> QED BY <1>1, <2>1, <2>3, <2>4 DEF Inv, HostInv, Passed
<1>10. CommittedOnce'
  <2>1. ASSUME NEW d \in commits, ~c.refresh, d.tid = n.tid, n.state = "active",
               d.state = "active", d.life = births
        PROVE  FALSE
    <3>1. c.new.tid \in DOMAIN reqs /\ c.new.state = "active"
      BY <1>2, <1>3, <2>1 DEF UpdateOK
    <3>2. CASE reqs[c.new.tid].kind = "activate"
      <4>1. record.state = "pending" /\ record.tid = c.new.tid
        BY <1>3, <3>1, <3>2 DEF UpdateOK
      <4> QED BY <1>1, <1>2, <2>1, <4>1 DEF Inv, RecordInv
    <3>3. CASE reqs[c.new.tid].kind = "repin"
      <4>1. Reader(c.new.tid, c.gen) /\ c.gen \in Nat
        BY <3>1, <3>3, Fields DEF Accepts
      <4>2. record.gen > c.gen
        BY <1>1, <1>2, <2>1, <3>1, <3>3, <4>1 DEF Inv, ReaderInv
      <4> QED BY <1>1, <4>2
    <3> QED BY <3>1, <3>2, <3>3, Numbers, Fields DEF Inv
  <2> SUFFICES ASSUME NEW d \in commits', NEW e \in commits',
                      d.tid = e.tid, d.state = e.state, d.state = "active",
                      d.life = e.life
               PROVE  d = e
    BY DEF CommittedOnce
  <2>2. CASE d \in commits /\ e \in commits
    BY <2>2 DEF Inv, CommittedOnce
  <2>3. CASE c.refresh
    BY <1>2, <2>2, <2>3
  <2>4. CASE ~c.refresh /\ d = n /\ e = n
    BY <2>4
  <2>5. CASE ~c.refresh /\ d \in commits /\ e = n
    BY <1>2, <2>1, <2>5
  <2>6. CASE ~c.refresh /\ d = n /\ e \in commits
    BY <1>2, <2>1, <2>6
  <2> QED BY <1>4, <2>2, <2>3, <2>4, <2>5, <2>6
<1>11. ActivationReplacesItsBirth'
  <2>1. n.state = "active" /\ reqs[n.tid].kind = "activate" => n.overTid = n.tid
    BY <1>2, <1>3 DEF UpdateOK
  <2> QED BY <1>1, <1>4, <2>1 DEF Inv, ActivationReplacesItsBirth
<1>12. SteeringAdvances'
  BY <1>1 DEF Inv, SteeringAdvances, Live, hostVars
<1> QED BY <1>1, <1>5, <1>6, <1>7, <1>8, <1>9, <1>10, <1>11, <1>12

LEMMA AppliedReaders ==
  ASSUME Inv, NEW c \in Updates, Accepts(c),
         \A t \in DOMAIN reqs : \A g \in Nat : Reader(t, g)' => Reader(t, g)
  PROVE  ReaderInv'
<1>1. /\ record # None /\ record.gen = c.gen /\ record' = c.new
      /\ c.new.gen = record.gen + 1 /\ record.gen \in Nat
      /\ reqs' = reqs /\ births' = births
  BY AppliedShape, Numbers, Fields DEF Inv, Accepts, UpdateOK
<1>2. PICK n \in Commits :
        /\ commits' = IF c.refresh THEN commits ELSE commits \cup {n}
        /\ n.tid = c.new.tid /\ n.state = c.new.state
  BY AppliedShape
<1> SUFFICES ASSUME NEW t \in DOMAIN reqs, NEW g \in Nat,
                    reqs[t].kind = "repin", Reader(t, g)'
             PROVE  /\ \A k \in Nat : Reader(t, k)' => k = g
                    /\ c.new.fence # reqs[t].previousFence
                    /\ \A d \in commits' :
                         d.tid = t /\ d.state = "active" /\ d.life = births
                           => c.new.gen > g
  BY <1>1 DEF ReaderInv
<1>3. Reader(t, g) /\ \A k \in Nat : Reader(t, k) => k = g
  BY DEF Inv, ReaderInv
<1>4. c.new.fence # reqs[t].previousFence
  BY DEF Accepts, UpdateOK, Used
<1>5. ASSUME NEW d \in commits', d.tid = t, d.state = "active", d.life = births
      PROVE  c.new.gen > g
  <2>1. CASE d \in commits
    <3>1. record.gen > g
      BY <1>1, <1>3, <1>5, <2>1 DEF Inv, ReaderInv
    <3> QED BY <1>1, <3>1
  <2>2. CASE d \notin commits
    <3>1. c.new.tid = t /\ c.new.state = "active"
      BY <1>2, <1>5, <2>2
    <3>2. Reader(t, c.gen) /\ c.gen \in Nat
      BY <3>1, Fields DEF Accepts
    <3>3. c.gen = g
      BY <1>3, <3>2
    <3> QED BY <1>1, <3>3
  <2> QED BY <2>1, <2>2
<1> QED BY <1>3, <1>4, <1>5

LEMMA LateCasKeeps ==
  ASSUME Inv, LateCas PROVE Inv'
<1>1. /\ late # None /\ late' = None
      /\ UNCHANGED <<reqs, lease, nextFence, hostVars, op, poisoned, births,
                     faults>>
  BY DEF LateCas
<1>2. PICK c \in Updates : c = late
  BY <1>1, Numbers DEF Inv
<1>3. UpdateOK(c)
  BY <1>1, <1>2 DEF Inv, LateInv
<1>4. LateInv'
  BY <1>1 DEF LateInv
<1>5. \A t \in DOMAIN reqs : \A g \in Nat : Reader(t, g)' => Reader(t, g)
  BY <1>1 DEF Reader
<1>6. CASE CasAccepted(late)
  <2>1. Accepts(c)
    BY <1>1, <1>2, <1>3, <1>6 DEF LateCas, Accepts, Reader
  <2>2. /\ record' \in Records /\ commits' \subseteq Commits
        /\ (ReqsInv /\ RecordInv /\ LeaseInv /\ CommitInv /\ HostInv)'
        /\ (CommittedOnce /\ ActivationReplacesItsBirth /\ SteeringAdvances)'
    BY <2>1, AppliedStore
  <2>3. ReaderInv'
    BY <1>5, <2>1, AppliedReaders
  <2>4. TypeOK'
    BY <1>1, <2>2 DEF Inv, TypeOK, hostVars
  <2>5. CallsInv'
    <3>1. ASSUME NEW p \in Procs, NEW o \in Calls, o = op[p]
          PROVE  CallOK(o)' /\ HostOK(o)'
      <4>1. CallOK(o) /\ HostOK(o)
        BY <3>1 DEF Inv, CallsInv
      <4>2. o.pc \in Leased \ {"refreshed"} => o.lease # c.new.fence
        BY <1>1, <1>2, <4>1 DEF CallOK
      <4> QED BY <1>1, <2>1, <4>1, <4>2, AppliedCalls
    <3> QED BY <1>1, <3>1, CallsStay
  <2> QED BY <1>4, <2>2, <2>3, <2>4, <2>5 DEF Inv
<1>7. CASE ~CasAccepted(late)
  <2>1. UNCHANGED <<record, commits>>
    BY <1>7 DEF LateCas
  <2>2. TypeOK'
    BY <1>1, <2>1 DEF Inv, TypeOK, hostVars
  <2>3. (ReqsInv /\ RecordInv /\ LeaseInv /\ CommitInv /\ HostInv)'
    BY <1>1, <2>1 DEF Inv, ReqsInv, RecordInv, LeaseInv, CommitInv, HostInv,
                      Committed, Passed, hostVars
  <2>4. (CommittedOnce /\ ActivationReplacesItsBirth /\ SteeringAdvances)'
    BY <1>1, <2>1 DEF Inv, CommittedOnce, ActivationReplacesItsBirth,
                      SteeringAdvances, Live, hostVars
  <2>5. ReaderInv'
    BY <1>1, <1>5, <2>1, ReadersNext
  <2>6. CallsInv'
    <3>1. ASSUME NEW p \in Procs, NEW o \in Calls, o = op[p]
          PROVE  CallOK(o)' /\ HostOK(o)'
      <4>1. CallOK(o) /\ HostOK(o)
        BY <3>1 DEF Inv, CallsInv
      <4>2. CallOK(o)'
        BY <1>1, <2>1, <4>1 DEF CallOK, Used, LeaseHeld
      <4>3. HostOK(o)'
        BY <1>1, <2>1, <4>1 DEF HostOK, Committed, Passed, hostVars
      <4> QED BY <4>2, <4>3
    <3> QED BY <1>1, <3>1, CallsStay
  <2> QED BY <1>4, <2>2, <2>3, <2>4, <2>5, <2>6 DEF Inv
<1> QED BY <1>6, <1>7

(* A call makes its compare-and-set c and goes on as o. *)
Writes(p, c, o) ==
  /\ op[p].pc \in {"cas", "retireCas", "refresh"}
  /\ c.new.fence = op[p].lease
  /\ UpdateOK(c)
  /\ c.new.state = "active" => op[p].pc = "cas" /\ c.new.tid = op[p].tid
                                 /\ c.gen = op[p].gen
  /\ op' = [op EXCEPT ![p] = o]
  /\ o.pc \notin {"acquire", "cas"} /\ o.host = op[p].host
  /\ o.pc \in Leased => o.lease = op[p].lease
  /\ faults' \in 0..MaxFaults
  /\ UNCHANGED <<reqs, lease, nextFence, hostVars, poisoned, births>>

(* The other calls, whatever the store does with c. *)
LEMMA WritersApart ==
  ASSUME Inv, NEW p \in Procs, NEW c \in Updates, NEW o \in Calls,
         Writes(p, c, o),
         CallOK(o)', HostOK(o)',
         \A r \in Calls :
           /\ r.pc \in Leased => r.lease # c.new.fence
           /\ CallOK(r) /\ HostOK(r)
           => CallOK(r)' /\ HostOK(r)'
  PROVE  CallsInv'
<1>1. op \in [Procs -> Calls] /\ \A q \in Procs : op[q] \in Calls
  BY DEF Inv, TypeOK
<1>2. op'[p] = o /\ \A q \in Procs \ {p} : op'[q] = op[q]
  BY <1>1 DEF Writes
<1>3. op[p].pc \in Leased /\ op[p].pc \notin {"idle", "partial"}
  BY DEF Writes, Leased
<1>4. ASSUME NEW q \in Procs \ {p}
      PROVE  /\ Apart(o, op[q]) /\ Apart(op[q], o)
             /\ op[q].pc \in Leased => op[q].lease # c.new.fence
  <2>1. Apart(op[p], op[q])
    BY DEF Inv, CallsInv
  <2> QED BY <1>3, <2>1 DEF Apart, Writes
<1>5. ASSUME NEW q \in Procs
      PROVE  \E r \in Calls : op'[q] = r /\ CallOK(r)' /\ HostOK(r)'
  <2>1. CASE q = p
    BY <1>2, <2>1
  <2>2. CASE q # p
    <3>1. PICK r \in Calls : r = op[q]
      BY <1>1
    <3>2. /\ CallOK(r) /\ HostOK(r)
          /\ r.pc \in Leased => r.lease # c.new.fence
      BY <1>4, <2>2, <3>1 DEF Inv, CallsInv
    <3> QED BY <1>2, <2>2, <3>1, <3>2
  <2> QED BY <2>1, <2>2
<1>6. ASSUME NEW q \in Procs, NEW r \in Procs, q # r
      PROVE  Apart(op'[q], op'[r])
  <2>1. CASE q = p
    BY <1>2, <1>4, <1>6, <2>1
  <2>2. CASE r = p
    BY <1>2, <1>4, <1>6, <2>2
  <2>3. CASE q # p /\ r # p
    BY <1>2, <1>6, <2>3 DEF Inv, CallsInv
  <2> QED BY <2>1, <2>2, <2>3
<1> QED BY <1>5, <1>6, CallsNext

(* The store accepts it. *)
LEMMA WriteAccepted ==
  ASSUME Inv, NEW p \in Procs, NEW c \in Updates, NEW o \in Calls,
         Writes(p, c, o), CasAccepted(c), Apply(c), UNCHANGED late,
         CallOK(o)', HostOK(o)'
  PROVE  Inv'
<1>1. Accepts(c)
  BY DEF Accepts, Writes, Reader
<1>2. /\ record' \in Records /\ commits' \subseteq Commits
      /\ (ReqsInv /\ RecordInv /\ LeaseInv /\ CommitInv /\ HostInv)'
      /\ (CommittedOnce /\ ActivationReplacesItsBirth /\ SteeringAdvances)'
  BY <1>1, AppliedStore
<1>3. op \in [Procs -> Calls] /\ CallOK(op[p])
  BY DEF Inv, TypeOK, CallsInv
<1>4. TypeOK'
  <2>1. op' \in [Procs -> Calls]
    BY <1>3 DEF Writes
  <2> QED BY <1>2, <2>1 DEF Inv, TypeOK, Writes, hostVars
<1>5. ReaderInv'
  <2>1. op'[p] = o /\ \A q \in Procs \ {p} : op'[q] = op[q]
    BY <1>3 DEF Writes
  <2>2. \A t \in DOMAIN reqs : \A g \in Nat : Reader(t, g)' => Reader(t, g)
    BY <2>1 DEF Reader, Writes
  <2> QED BY <1>1, <2>2, AppliedReaders
<1>6. LateInv'
  <2> SUFFICES ASSUME late # None PROVE UpdateOK(late)'
    BY DEF LateInv
  <2>1. PICK d \in Updates : d = late
    BY Numbers DEF Inv
  <2>2. UpdateOK(d) /\ d.new.fence # c.new.fence
    BY <1>3, <2>1 DEF Inv, LateInv, CallOK, Writes, Leased
  <2>3. UpdateOK(d)'
    BY <1>1, <2>2, AppliedCalls
  <2>4. late' = d
    BY <2>1
  <2> QED BY <2>3, <2>4 DEF UpdateOK, Used, LeaseHeld
<1>7. CallsInv'
  <2>1. ASSUME NEW r \in Calls, CallOK(r), HostOK(r),
               r.pc \in Leased => r.lease # c.new.fence
        PROVE  CallOK(r)' /\ HostOK(r)'
    BY <1>1, <2>1, AppliedCalls
  <2> QED BY <2>1, WritersApart
<1> QED BY <1>2, <1>4, <1>5, <1>6, <1>7 DEF Inv

(* It is still under way when the call goes on. *)
LEMMA WriteDelayed ==
  ASSUME Inv, NEW p \in Procs, NEW c \in Updates, NEW o \in Calls,
         Writes(p, c, o), late = None, late' = c,
         UNCHANGED <<record, commits>>,
         o.pc \notin Leased \ {"refreshed"},
         CallOK(o), HostOK(o)
  PROVE  Inv'
<1>1. op \in [Procs -> Calls] /\ CallOK(op[p]) /\ op[p] \in Calls
  BY DEF Inv, TypeOK, CallsInv
<1>2. UNCHANGED <<reqs, lease, nextFence, hostVars, births, record, commits>>
  BY DEF Writes
<1>3. TypeOK'
  <2>1. op' \in [Procs -> Calls]
    BY <1>1 DEF Writes
  <2> QED BY <1>2, <2>1 DEF Inv, TypeOK, Writes, hostVars
<1>4. ReaderInv'
  <2>1. op'[p] = o /\ \A q \in Procs \ {p} : op'[q] = op[q]
    BY <1>1 DEF Writes
  <2>2. \A t \in DOMAIN reqs : \A g \in Nat : Reader(t, g)' => Reader(t, g)
    BY <2>1 DEF Reader, Writes
  <2> QED BY <1>2, <2>2, ReadersNext
<1>5. LateInv'
  <2>1. UpdateOK(c)
    BY DEF Writes
  <2>2. UpdateOK(c)'
    BY <1>2, <2>1 DEF UpdateOK, Used, LeaseHeld
  <2> QED BY <2>2 DEF LateInv, UpdateOK, Used, LeaseHeld
<1>6. (ReqsInv /\ RecordInv /\ LeaseInv /\ CommitInv /\ HostInv)'
  BY <1>2 DEF Inv, ReqsInv, RecordInv, LeaseInv, CommitInv, HostInv,
              Committed, Passed, hostVars
<1>7. (CommittedOnce /\ ActivationReplacesItsBirth /\ SteeringAdvances)'
  BY <1>2 DEF Inv, CommittedOnce, ActivationReplacesItsBirth,
              SteeringAdvances, Live, hostVars
<1>8. CallsInv'
  <2>1. ASSUME NEW r \in Calls, HostOK(r) PROVE HostOK(r)'
    BY <1>2, <2>1 DEF HostOK, Committed, Passed, hostVars
  <2>2. ASSUME NEW r \in Calls, CallOK(r),
               r.pc \in Leased \ {"refreshed"} => r.lease # c.new.fence
        PROVE  CallOK(r)'
    BY <1>2, <2>2 DEF CallOK, Used, LeaseHeld
  <2>3. CallOK(o)' /\ HostOK(o)'
    BY <2>1, <2>2
  <2> QED BY <2>1, <2>2, <2>3, WritersApart
<1> QED BY <1>3, <1>4, <1>5, <1>6, <1>7, <1>8 DEF Inv

(* The call sees an error, whether or not the store has accepted or will   *)
(* accept its compare-and-set.                                             *)
LEMMA WriteFails ==
  ASSUME Inv, NEW p \in Procs, NEW c \in Updates, NEW pc,
         \/ op[p].pc = "cas" /\ pc = "recoverAgain"
         \/ op[p].pc = "retireCas" /\ pc = "retireRecover"
         \/ op[p].pc = "refresh" /\ pc = "refreshed",
         c.new.fence = op[p].lease, UpdateOK(c),
         c.new.state = "active" => op[p].pc = "cas" /\ c.new.tid = op[p].tid
                                     /\ c.gen = op[p].gen,
         Go(p, pc),
         \/ CasAccepted(c) /\ Apply(c) /\ Fault /\ UNCHANGED late
         \/ ~CasAccepted(c) /\ UNCHANGED <<record, commits, late, faults>>
         \/ late = None /\ late' = c /\ Fault /\ UNCHANGED <<record, commits>>,
         UNCHANGED <<reqs, lease, nextFence, hostVars, poisoned, births>>
  PROVE  Inv'
<1>1. op[p] \in Calls /\ CallOK(op[p]) /\ HostOK(op[p])
  BY Numbers DEF Inv, CallsInv
<1>2. PICK o \in Calls :
        /\ o = [op[p] EXCEPT !.pc = pc] /\ o.pc = pc /\ o.host = op[p].host
        /\ o.tid = op[p].tid /\ o.fence = op[p].fence
        /\ o.retire = op[p].retire /\ o.lease = op[p].lease
  <2> DEFINE o == [op[p] EXCEPT !.pc = pc]
  <2>1. pc \in Stages
    BY PlainStages
  <2>2. /\ o \in Calls /\ o.pc = pc /\ o.host = op[p].host
        /\ o.tid = op[p].tid /\ o.fence = op[p].fence
        /\ o.retire = op[p].retire /\ o.lease = op[p].lease
    BY <1>1, <2>1 DEF Calls
  <2> QED BY <2>2
<1>3. op' = [op EXCEPT ![p] = o]
  BY <1>2 DEF Go
<1>4. CallOK(o) /\ HostOK(o)
  <2>1. CASE pc = "refreshed"
    BY <1>1, <1>2, <2>1 DEF CallOK, HostOK, Leased, Unspent
  <2>2. CASE pc \in {"recoverAgain", "retireRecover"}
    BY <1>1, <1>2, <2>2, PlainOK DEF Plain
  <2> QED BY <2>1, <2>2
<1>5. o.pc \notin Leased \ {"refreshed"} /\ o.pc \notin {"acquire", "cas"}
  BY <1>2 DEF Leased
<1>6. faults' \in 0..MaxFaults
  BY Faulted DEF Inv, TypeOK
<1>7. Writes(p, c, o)
  BY <1>2, <1>3, <1>5, <1>6 DEF Writes
<1>8. CASE CasAccepted(c) /\ Apply(c) /\ UNCHANGED late
  <2>1. Accepts(c)
    BY <1>8 DEF Accepts, Reader
  <2>2. CallOK(o)' /\ HostOK(o)'
    BY <1>4, <1>5, <1>8, <2>1, AppliedCalls
  <2> QED BY <1>7, <1>8, <2>2, WriteAccepted
<1>9. CASE UNCHANGED <<record, commits, late, faults>>
  <2>1. Moves(p, o)
    BY <1>3, <1>6, <1>9 DEF Moves, storeVars, Inv, TypeOK
  <2> QED BY <1>2, <1>4, <1>5, <2>1, CallGoesOn DEF Leased
<1>10. CASE late = None /\ late' = c /\ UNCHANGED <<record, commits>>
  BY <1>4, <1>5, <1>7, <1>10, WriteDelayed
<1> QED BY <1>8, <1>9, <1>10

LEMMA CommitUpdate ==
  ASSUME Inv, NEW p \in Procs, op[p].pc = "cas"
  PROVE  LET c == CommitCas(p)
         IN /\ c \in Updates /\ UpdateOK(c) /\ c.gen = op[p].gen
            /\ c.refresh = FALSE /\ c.new.tid = op[p].tid
            /\ c.new.fence = op[p].lease /\ c.new.state = "active"
            /\ c.new.owner = reqs[op[p].tid].owner
<1>1. op[p] \in Calls /\ op[p].tid \in DOMAIN reqs /\ CallOK(op[p])
  BY Numbers DEF Inv, CallsInv, CallOK
<1>2. /\ reqs[op[p].tid].owner \in Owners /\ op[p].gen + 1 \in Nat
      /\ op[p].lease \in Nat /\ op[p].tid \in Nat /\ op[p].gen \in Nat
  BY <1>1, Numbers, Fields DEF Inv
<1> DEFINE c == CommitCas(p)
<1>3. /\ c.gen = op[p].gen /\ c.refresh = FALSE /\ c.new.tid = op[p].tid
      /\ c.new.fence = op[p].lease /\ c.new.state = "active"
      /\ c.new.owner = reqs[op[p].tid].owner /\ c.new.gen = op[p].gen + 1
  BY DEF CommitCas
<1>4. c \in Updates
  BY <1>2 DEF CommitCas, Updates, Records
<1> HIDE DEF c
<1>5. UpdateOK(c)
  BY <1>1, <1>3 DEF UpdateOK, CallOK, Leased, Unspent
<1> QED BY <1>3, <1>4, <1>5 DEF c

RetireUpdate(p, refresh) ==
  [gen |-> op[p].gen, refresh |-> refresh, new |-> RetireRecord(p)]

LEMMA RetireUpdateType ==
  ASSUME Inv, NEW p \in Procs, op[p].pc \in {"retireCas", "refresh"},
         NEW b \in BOOLEAN
  PROVE  LET c == RetireUpdate(p, b)
         IN /\ c \in Updates /\ UpdateOK(c) /\ c.refresh = b
            /\ c.new = RetireRecord(p)
            /\ c.new.fence = op[p].lease /\ c.new.state = "retiring"
            /\ c.new.tid = op[p].tid
<1>1. op[p] \in Calls /\ op[p].tid \in DOMAIN reqs /\ CallOK(op[p])
  BY Numbers DEF Inv, CallsInv, CallOK
<1>2. /\ RetireRecord(p) \in Records
      /\ RetireRecord(p).gen = op[p].gen + 1
      /\ RetireRecord(p).owner = reqs[op[p].tid].owner
      /\ RetireRecord(p).fence = op[p].lease
      /\ RetireRecord(p).state = "retiring"
      /\ RetireRecord(p).tid = op[p].tid
      /\ RetireRecord(p).active = op[p].fence
  BY RetireRecordType
<1>3. op[p].gen \in Nat
  BY <1>1, Fields
<1> DEFINE c == RetireUpdate(p, b)
<1>4. c.gen = op[p].gen /\ c.refresh = b /\ c.new = RetireRecord(p)
  BY DEF RetireUpdate
<1>5. c \in Updates
  BY <1>2, <1>3 DEF RetireUpdate, Updates
<1> HIDE DEF c
<1>6. UpdateOK(c)
  BY <1>1, <1>2, <1>4 DEF UpdateOK, CallOK, Leased, Unspent
<1> QED BY <1>2, <1>4, <1>5, <1>6 DEF c

LEMMA CommitKeeps ==
  ASSUME Inv, NEW p \in Procs, Commit(p) PROVE Inv'
<1>1. /\ op[p].pc = "cas"
      /\ UNCHANGED <<reqs, lease, nextFence, hostVars, poisoned, births>>
  BY DEF Commit, Cas
<1>2. PICK c \in Updates :
        /\ c = CommitCas(p) /\ UpdateOK(c) /\ c.gen = op[p].gen
        /\ c.refresh = FALSE /\ c.new.tid = op[p].tid
        /\ c.new.fence = op[p].lease /\ c.new.state = "active"
        /\ c.new.owner = reqs[op[p].tid].owner
  BY <1>1, CommitUpdate
<1>3. CASE /\ CasAccepted(c) /\ Apply(c) /\ Granted(p, op[p].lease)
           /\ UNCHANGED <<late, faults>>
  <2>1. op[p] \in Calls /\ CallOK(op[p]) /\ op[p].lease \in Nat
    BY Numbers, Fields DEF Inv, CallsInv
  <2>2. PICK pc \in {"validate", "publish"} :
          op' = [op EXCEPT ![p] = [op[p] EXCEPT !.fence = op[p].lease,
                                                !.lease = 0, !.pc = pc]]
    <3>1. CASE reqs[op[p].tid].kind = "repin"
      BY <1>3, <3>1 DEF Granted
    <3>2. CASE reqs[op[p].tid].kind # "repin"
      BY <1>3, <3>2 DEF Granted
    <3> QED BY <3>1, <3>2
  <2>3. PICK o \in Calls :
          /\ o = [op[p] EXCEPT !.fence = op[p].lease, !.lease = 0, !.pc = pc]
          /\ o.pc = pc /\ o.host = op[p].host /\ o.tid = op[p].tid
          /\ o.fence = op[p].lease /\ o.retire = op[p].retire /\ o.lease = 0
    <3> DEFINE o == [op[p] EXCEPT !.fence = op[p].lease, !.lease = 0, !.pc = pc]
    <3>1. pc \in Stages
      BY PlainStages
    <3>2. /\ o \in Calls /\ o.pc = pc /\ o.host = op[p].host
          /\ o.tid = op[p].tid /\ o.fence = op[p].lease
          /\ o.retire = op[p].retire /\ o.lease = 0
      BY <2>1, <3>1 DEF Calls
    <3> QED BY <3>2
  <2>4. o.pc \notin Leased /\ o.pc \notin {"acquire", "cas"}
    BY <2>3 DEF Leased
  <2>5. faults' \in 0..MaxFaults
    BY <1>3 DEF Inv, TypeOK
  <2>6. Writes(p, c, o)
    BY <1>1, <1>2, <2>2, <2>3, <2>4, <2>5 DEF Writes
  <2>7. Accepts(c)
    BY <1>1, <1>2, <1>3 DEF Accepts, Reader
  <2>8. /\ record' = c.new /\ record' # None /\ (RecordInv /\ HostInv)'
    BY <2>7, AppliedShape, AppliedStore
  <2>9. CallOK(o)'
    <3>1. /\ o.host \in Hosts /\ o.tid \in DOMAIN reqs /\ o.retire < nextFence
          /\ o.fence < nextFence /\ o.lease < nextFence
      BY <1>1, <2>1, <2>3, Numbers DEF Inv, CallOK
    <3> QED BY <1>1, <2>3, <3>1 DEF CallOK, Leased, Unspent
  <2>10. HostOK(o)'
    <3>1. Committed(o.fence, reqs[o.tid].owner)'
      <4>1. /\ record'.fence = o.fence /\ record'.owner = reqs'[o.tid].owner
            /\ record'.state = "active"
        BY <1>1, <1>2, <2>3, <2>8
      <4> QED BY <2>8, <4>1 DEF RecordInv, Committed
    <3>2. /\ record'.fence = o.fence /\ record'.state = "active"
          /\ o.host \in Hosts
      BY <1>1, <1>2, <2>1, <2>3, <2>8 DEF CallOK
    <3> QED BY <2>3, <2>8, <3>1, <3>2 DEF HostOK, HostInv, Passed
  <2> QED BY <1>3, <2>6, <2>9, <2>10, WriteAccepted
<1>4. CASE /\ Go(p, "recoverAgain")
           /\ \/ CasAccepted(c) /\ Apply(c) /\ Fault /\ UNCHANGED late
              \/ ~CasAccepted(c) /\ UNCHANGED <<record, commits, late, faults>>
              \/ late = None /\ late' = c /\ Fault
                   /\ UNCHANGED <<record, commits>>
  BY <1>1, <1>2, <1>4, WriteFails
<1> QED BY <1>2, <1>3, <1>4 DEF Commit, Cas

LEMMA RetireCasKeeps ==
  ASSUME Inv, NEW p \in Procs, RetireCas(p) PROVE Inv'
<1>1. /\ op[p].pc = "retireCas"
      /\ UNCHANGED <<reqs, lease, nextFence, hostVars, poisoned, births>>
  BY DEF RetireCas, Cas
<1>2. PICK c \in Updates :
        /\ c = RetireUpdate(p, FALSE) /\ UpdateOK(c)
        /\ c.new.tid = op[p].tid
        /\ c.new.fence = op[p].lease /\ c.new.state = "retiring"
  BY <1>1, RetireUpdateType
<1>3. CASE /\ CasAccepted(c) /\ Apply(c) /\ RetireGranted(p, op[p].lease)
           /\ UNCHANGED <<late, faults>>
  <2>1. op[p] \in Calls /\ CallOK(op[p]) /\ op[p].lease \in Nat
    BY Numbers, Fields DEF Inv, CallsInv
  <2>2. PICK o \in Calls :
          /\ o = [op[p] EXCEPT !.pc = "hostRetire", !.retire = op[p].lease,
                               !.lease = 0]
          /\ o.pc = "hostRetire" /\ o.host = op[p].host /\ o.tid = op[p].tid
          /\ o.fence = op[p].fence /\ o.retire = op[p].lease /\ o.lease = 0
    <3> DEFINE o == [op[p] EXCEPT !.pc = "hostRetire", !.retire = op[p].lease,
                                  !.lease = 0]
    <3>1. "hostRetire" \in Stages
      BY PlainStages
    <3>2. /\ o \in Calls /\ o.pc = "hostRetire" /\ o.host = op[p].host
          /\ o.tid = op[p].tid /\ o.fence = op[p].fence
          /\ o.retire = op[p].lease /\ o.lease = 0
      BY <2>1, <3>1 DEF Calls
    <3> QED BY <3>2
  <2>3. op' = [op EXCEPT ![p] = o]
    BY <1>3, <2>2 DEF RetireGranted
  <2>4. o.pc \notin Leased /\ o.pc \notin {"acquire", "cas"}
    BY <2>2 DEF Leased
  <2>5. faults' \in 0..MaxFaults
    BY <1>3 DEF Inv, TypeOK
  <2>6. Writes(p, c, o)
    BY <1>1, <1>2, <2>2, <2>3, <2>4, <2>5 DEF Writes
  <2>7. Accepts(c)
    BY <1>1, <1>2, <1>3 DEF Accepts
  <2>8. /\ record' = c.new /\ record' # None /\ HostInv'
    BY <2>7, AppliedShape, AppliedStore
  <2>9. /\ o.host \in Hosts /\ o.tid \in DOMAIN reqs /\ o.retire < nextFence
        /\ o.fence < nextFence /\ o.lease < nextFence /\ o.fence < o.retire
    BY <1>1, <2>1, <2>2, Numbers DEF Inv, CallOK, Leased
  <2>10. CallOK(o)'
    BY <1>1, <2>2, <2>9 DEF CallOK, Leased, Unspent
  <2>11. HostOK(o)'
    <3>1. record'.fence = o.retire /\ record'.state = "retiring"
      BY <1>2, <2>2, <2>8
    <3>2. o.retire <= o.retire
      BY <2>1, <2>2
    <3> QED BY <2>2, <2>8, <2>9, <3>1, <3>2 DEF HostOK, HostInv, Passed
  <2> QED BY <1>3, <2>6, <2>10, <2>11, WriteAccepted
<1>4. CASE /\ Go(p, "retireRecover")
           /\ \/ CasAccepted(c) /\ Apply(c) /\ Fault /\ UNCHANGED late
              \/ ~CasAccepted(c) /\ UNCHANGED <<record, commits, late, faults>>
              \/ late = None /\ late' = c /\ Fault
                   /\ UNCHANGED <<record, commits>>
  BY <1>1, <1>2, <1>4, WriteFails
<1> QED BY <1>2, <1>3, <1>4 DEF RetireCas, Cas, RetireUpdate

LEMMA RefreshKeeps ==
  ASSUME Inv, NEW p \in Procs, Refresh(p) PROVE Inv'
<1>1. /\ op[p].pc = "refresh"
      /\ UNCHANGED <<reqs, lease, nextFence, hostVars, poisoned, births>>
  BY DEF Refresh, Cas
<1>2. PICK c \in Updates :
        /\ c = RetireUpdate(p, TRUE) /\ UpdateOK(c)
        /\ c.new.tid = op[p].tid
        /\ c.new.fence = op[p].lease /\ c.new.state = "retiring"
        /\ c.new.active = op[p].fence /\ c.new.gen = op[p].gen + 1
  <2>1. PICK c \in Updates :
          /\ c = RetireUpdate(p, TRUE) /\ UpdateOK(c)
          /\ c.new.tid = op[p].tid
          /\ c.new.fence = op[p].lease /\ c.new.state = "retiring"
    BY <1>1, RetireUpdateType
  <2>2. c.new.active = op[p].fence /\ c.new.gen = op[p].gen + 1
    BY <2>1 DEF RetireUpdate, RetireRecord
  <2> QED BY <2>1, <2>2
<1>3. CASE /\ CasAccepted(c) /\ Apply(c) /\ Go(p, "delete")
           /\ UNCHANGED <<late, faults>>
  <2>1. op[p] \in Calls /\ CallOK(op[p])
    BY Numbers DEF Inv, CallsInv
  <2>2. PICK o \in Calls :
          /\ o = [op[p] EXCEPT !.pc = "delete"]
          /\ o.pc = "delete" /\ o.host = op[p].host /\ o.tid = op[p].tid
          /\ o.fence = op[p].fence /\ o.retire = op[p].retire
          /\ o.lease = op[p].lease /\ o.gen = op[p].gen
    <3> DEFINE o == [op[p] EXCEPT !.pc = "delete"]
    <3>1. "delete" \in Stages
      BY PlainStages
    <3>2. /\ o \in Calls /\ o.pc = "delete" /\ o.host = op[p].host
          /\ o.tid = op[p].tid /\ o.fence = op[p].fence
          /\ o.retire = op[p].retire /\ o.lease = op[p].lease
          /\ o.gen = op[p].gen
      BY <2>1, <3>1 DEF Calls
    <3> QED BY <3>2
  <2>3. op' = [op EXCEPT ![p] = o]
    BY <1>3, <2>2 DEF Go
  <2>4. faults' \in 0..MaxFaults
    BY <1>3 DEF Inv, TypeOK
  <2>5. Writes(p, c, o)
    BY <1>1, <1>2, <2>2, <2>3, <2>4 DEF Writes
  <2>6. Accepts(c)
    BY <1>1, <1>2, <1>3 DEF Accepts
  <2>7. /\ record' = c.new /\ record' # None
    BY <2>6, AppliedShape
  <2>8. /\ record'.state = "retiring" /\ record'.tid = o.tid
        /\ record'.fence = o.lease /\ record'.active = o.fence
        /\ record'.gen = o.gen + 1
    BY <1>2, <2>2, <2>7
  <2>9. CallOK(o)'
    BY <1>1, <1>3, <2>1, <2>2, <2>8 DEF CallOK, Leased, Unspent
  <2>10. HostOK(o)'
    BY <2>2 DEF HostOK
  <2> QED BY <1>3, <2>5, <2>9, <2>10, WriteAccepted
<1>4. CASE /\ Go(p, "refreshed")
           /\ \/ CasAccepted(c) /\ Apply(c) /\ Fault /\ UNCHANGED late
              \/ ~CasAccepted(c) /\ UNCHANGED <<record, commits, late, faults>>
              \/ late = None /\ late' = c /\ Fault
                   /\ UNCHANGED <<record, commits>>
  BY <1>1, <1>2, <1>4, WriteFails
<1> QED BY <1>2, <1>3, <1>4 DEF Refresh, Cas, RetireUpdate

-----------------------------------------------------------------------------
(* Requests and deletion.                                                  *)

LEMMA BirthKeeps ==
  ASSUME Inv, NEW owner \in Owners, Birth(owner) PROVE Inv'
<1> DEFINE n == Len(reqs) + 1
           born == [gen |-> 1, owner |-> owner, fence |-> nextFence,
                    state |-> "pending", tid |-> n, active |-> 0]
           request == [kind |-> "activate", owner |-> owner,
                       previous |-> None, previousFence |-> 0]
<1>1. /\ record = None /\ reqs' = Append(reqs, request) /\ record' = born
      /\ lease' = [owner |-> owner, fence |-> nextFence]
      /\ nextFence' = nextFence + 1 /\ births' = births + 1
      /\ nextFence <= MaxFence /\ births < MaxBirths
      /\ UNCHANGED <<late, commits, hostVars, op, poisoned, faults>>
  BY DEF Birth
<1>2. /\ reqs \in Seq(Requests) /\ request \in Requests /\ nextFence \in Nat
      /\ nextFence >= 1 /\ births \in Nat /\ n \in Nat /\ born \in Records
      /\ request.previousFence = 0 /\ request.owner = owner
      /\ request.kind = "activate"
      /\ born.tid = n /\ born.owner = owner /\ born.fence = nextFence
      /\ born.gen = 1 /\ born.state = "pending"
  BY Numbers DEF Inv, TypeOK, Requests, Records
<1>3. /\ DOMAIN reqs = 1..Len(reqs) /\ Len(reqs) \in Nat
      /\ DOMAIN reqs' = 1..n /\ reqs'[n] = request
      /\ \A t \in DOMAIN reqs : t \in DOMAIN reqs' /\ reqs'[t] = reqs[t] /\ t # n
  BY <1>1, <1>2
<1> HIDE DEF n, born, request
<1>4. n \in DOMAIN reqs' /\ DOMAIN reqs' = DOMAIN reqs \cup {n}
  BY <1>2, <1>3 DEF n
<1>5. TypeOK'
  <2>1. reqs' \in Seq(Requests)
    BY <1>1, <1>2
  <2>2. nextFence' \in 1..(MaxFence + 1) /\ births' \in 0..MaxBirths
    BY <1>1, <1>2, Bounds
  <2>3. lease' \in [owner : Owners, fence : Nat] /\ record' \in Records
    BY <1>1, <1>2
  <2> QED BY <1>1, <2>1, <2>2, <2>3 DEF Inv, TypeOK, hostVars
<1>6. ASSUME NEW f \in Nat, f < nextFence
      PROVE  f < nextFence' /\ ~LeaseHeld(f)' /\ (~Used(f) /\ f # 0 => ~Used(f)')
  BY <1>1, <1>2, <1>3, <1>4, <1>6 DEF LeaseHeld, Used
<1>7. ReqsInv'
  <2> SUFFICES ASSUME NEW t \in DOMAIN reqs' PROVE reqs'[t].previousFence < nextFence'
    BY DEF ReqsInv
  <2>1. CASE t \in DOMAIN reqs
    BY <1>3, <1>6, <2>1, Numbers, Fields DEF Inv, ReqsInv
  <2>2. CASE t = n
    BY <1>1, <1>2, <1>3, <2>2
  <2> QED BY <1>4, <2>1, <2>2
<1>8. RecordInv'
  <2>1. \A c \in commits : c.tid # n
    BY <1>3 DEF Inv, CommitInv
  <2> QED BY <1>1, <1>2, <1>3, <1>4, <2>1 DEF RecordInv
<1>9. LeaseInv'
  BY <1>1, <1>2 DEF LeaseInv
<1>10. CommitInv'
  <2>1. ASSUME NEW c \in commits PROVE CommitInv!1!(c)'
    <3>1. /\ c.tid \in DOMAIN reqs /\ c.owner = reqs[c.tid].owner
          /\ c.life <= births /\ c.fence >= 1 /\ c.fence < nextFence
          /\ reqs[c.tid].kind = "repin" /\ c.state = "active"
               => c.fence > reqs[c.tid].previousFence
      BY DEF Inv, CommitInv
    <3>2. c.fence \in Nat /\ c.life \in Nat
      BY Numbers, Fields DEF Inv
    <3>3. c.life <= births' /\ c.fence < nextFence' /\ c.fence <= born.fence
      BY <1>1, <1>2, <3>1, <3>2
    <3> QED BY <1>1, <1>3, <3>1, <3>3
  <2> QED BY <1>1, <2>1 DEF Inv, CommitInv
<1>11. LateInv'
  <2> SUFFICES ASSUME late # None PROVE UpdateOK(late)'
    BY <1>1 DEF LateInv
  <2>1. PICK c \in Updates : c = late
    BY Numbers DEF Inv
  <2>2. UpdateOK(c) /\ c.new.fence \in Nat
    BY <2>1, Fields DEF Inv, LateInv
  <2>3. c.new.fence < nextFence' /\ ~LeaseHeld(c.new.fence)' /\ ~Used(c.new.fence)'
    BY <1>6, <2>2 DEF UpdateOK
  <2>4. UpdateOK(c)'
    BY <1>3, <2>2, <2>3 DEF UpdateOK
  <2> QED BY <1>1, <2>1, <2>4 DEF UpdateOK, Used, LeaseHeld
<1>12. HostInv'
  <2> SUFFICES ASSUME NEW h \in Hosts PROVE HostInv!(h)'
    BY DEF HostInv
  <2>1. /\ entry' = entry /\ floors' = floors
        /\ entry[h].fence \in Nat /\ entry[h].gen \in Nat
        /\ floors[h].published \in Nat /\ floors[h].retired \in Nat
    BY <1>1, Numbers DEF Inv, hostVars
  <2>2. /\ entry[h].fence < nextFence /\ entry[h].gen < nextFence
        /\ floors[h].published < nextFence /\ floors[h].retired < nextFence
    BY DEF Inv, HostInv
  <2>3. record'.fence = nextFence /\ nextFence' = nextFence + 1
    BY <1>1, <1>2
  <2>4. entry[h].owner # None => Committed(entry[h].gen, entry[h].owner)'
    BY <1>1, <2>1 DEF Inv, HostInv, Committed
  <2>5. Passed(floors[h].retired)'
    BY <1>2, <2>1, <2>2, <2>3 DEF Passed
  <2>6. /\ entry[h].fence <= record'.fence /\ entry[h].gen <= record'.fence
        /\ floors[h].published <= record'.fence
        /\ entry[h].fence < nextFence' /\ entry[h].gen < nextFence'
        /\ floors[h].published < nextFence' /\ floors[h].retired < nextFence'
    BY <1>2, <2>1, <2>2, <2>3
  <2> QED BY <2>1, <2>4, <2>5, <2>6 DEF Inv, HostInv
<1>13. CallsInv'
  <2>1. ASSUME NEW p \in Procs, NEW o \in Calls, o = op[p]
        PROVE  CallOK(o)' /\ HostOK(o)'
    <3>1. CallOK(o) /\ HostOK(o)
      BY <2>1 DEF Inv, CallsInv
    <3>2. /\ o.fence < nextFence' /\ o.retire < nextFence'
          /\ o.lease < nextFence' /\ ~LeaseHeld(o.lease)'
          /\ ~Used(o.lease) /\ o.lease # 0 => ~Used(o.lease)'
      BY <1>6, <3>1, Fields DEF CallOK
    <3>3. o.pc \in Unspent => o.lease # 0
      BY <3>1 DEF CallOK, Unspent, Leased
    <3>4. o.pc # "idle" => o.tid \in DOMAIN reqs' /\ reqs'[o.tid] = reqs[o.tid]
      BY <1>3, <3>1 DEF CallOK
    <3>5. CallOK(o)'
      BY <1>1, <3>1, <3>2, <3>3, <3>4 DEF CallOK
    <3>6. Passed(o.retire)'
      BY <1>1, <1>2, <3>1, Fields DEF CallOK, Passed
    <3>7. HostOK(o)'
      BY <1>1, <3>1, <3>4, <3>6 DEF HostOK, Committed, hostVars
    <3> QED BY <3>5, <3>7
  <2> QED BY <1>1, <2>1, CallsStay
<1>14. ReaderInv'
  <2> SUFFICES ASSUME NEW t \in DOMAIN reqs', NEW g \in Nat,
                      reqs'[t].kind = "repin", Reader(t, g)'
               PROVE  /\ \A k \in Nat : Reader(t, k)' => k = g
                      /\ record'.fence # reqs'[t].previousFence
                      /\ \A c \in commits' : c.life # births'
    BY DEF ReaderInv
  <2>1. t \in DOMAIN reqs /\ reqs'[t] = reqs[t]
    BY <1>2, <1>3, <1>4
  <2>2. \A k \in Nat : Reader(t, k)' => Reader(t, k)
    BY <1>1 DEF Reader
  <2>3. reqs[t].previousFence < nextFence /\ reqs[t].previousFence \in Nat
    BY <2>1, Numbers, Fields DEF Inv, ReqsInv
  <2>4. \A c \in commits : c.life <= births /\ c.life \in Nat
    BY Numbers, Fields DEF Inv, CommitInv
  <2> QED BY <1>1, <1>2, <2>1, <2>2, <2>3, <2>4 DEF Inv, ReaderInv
<1>15. CommittedOnce' /\ SteeringAdvances'
  BY <1>1 DEF Inv, CommittedOnce, SteeringAdvances, Live, hostVars
<1>16. ActivationReplacesItsBirth'
  BY <1>1, <1>3 DEF Inv, ActivationReplacesItsBirth, CommitInv
<1> QED BY <1>5, <1>7, <1>8, <1>9, <1>10, <1>11, <1>12, <1>13, <1>14, <1>15, <1>16
        DEF Inv

LEMMA PrepareRepinKeeps ==
  ASSUME Inv, NEW owner \in Owners, PrepareRepin(owner) PROVE Inv'
<1> DEFINE n == Len(reqs) + 1
           request == [kind |-> "repin", owner |-> owner,
                       previous |-> record.owner,
                       previousFence |-> record.fence]
<1>1. /\ record # None /\ reqs' = Append(reqs, request)
      /\ UNCHANGED <<storeVars, hostVars, op, poisoned, births, faults>>
  BY DEF PrepareRepin
<1>2. /\ record.owner \in Owners /\ record.fence \in Nat
      /\ record.fence < nextFence
  BY <1>1, Numbers, Fields DEF Inv, RecordInv
<1>3. /\ reqs \in Seq(Requests) /\ request \in Requests /\ n \in Nat
      /\ request.previousFence = record.fence
  BY <1>2 DEF Inv, TypeOK, Requests
<1>4. /\ DOMAIN reqs = 1..Len(reqs) /\ Len(reqs) \in Nat
      /\ DOMAIN reqs' = 1..n /\ reqs'[n] = request
      /\ \A t \in DOMAIN reqs : t \in DOMAIN reqs' /\ reqs'[t] = reqs[t] /\ t # n
  BY <1>1, <1>3
<1> HIDE DEF n, request
<1>5. n \in DOMAIN reqs' /\ DOMAIN reqs' = DOMAIN reqs \cup {n}
  BY <1>3, <1>4 DEF n
<1>6. TypeOK'
  <2>1. reqs' \in Seq(Requests)
    BY <1>1, <1>3
  <2> QED BY <1>1, <2>1 DEF Inv, TypeOK, storeVars, hostVars
<1>7. ASSUME NEW f, ~Used(f) PROVE ~Used(f)'
  BY <1>1, <1>3, <1>4, <1>5, <1>7 DEF Used, storeVars
<1>8. ReqsInv'
  BY <1>1, <1>2, <1>3, <1>4, <1>5 DEF Inv, ReqsInv, storeVars
<1>9. RecordInv' /\ LeaseInv'
  BY <1>1, <1>4 DEF Inv, RecordInv, LeaseInv, Committed, storeVars
<1>10. CommitInv'
  BY <1>1, <1>4 DEF Inv, CommitInv, storeVars
<1>11. LateInv'
  <2> SUFFICES ASSUME late # None PROVE UpdateOK(late)'
    BY <1>1 DEF LateInv, storeVars
  <2>1. PICK c \in Updates : c = late
    BY Numbers DEF Inv
  <2>2. UpdateOK(c) /\ ~Used(c.new.fence)'
    BY <1>7, <2>1 DEF Inv, LateInv, UpdateOK
  <2>3. UpdateOK(c)'
    BY <1>1, <1>4, <2>2 DEF UpdateOK, LeaseHeld, storeVars
  <2> QED BY <1>1, <2>1, <2>3 DEF UpdateOK, Used, LeaseHeld, storeVars
<1>12. HostInv'
  BY <1>1 DEF Inv, HostInv, Passed, Committed, storeVars, hostVars
<1>13. CallsInv'
  <2>1. ASSUME NEW p \in Procs, NEW o \in Calls, o = op[p]
        PROVE  CallOK(o)' /\ HostOK(o)'
    <3>1. CallOK(o) /\ HostOK(o)
      BY <2>1 DEF Inv, CallsInv
    <3>2. ~Used(o.lease) => ~Used(o.lease)'
      BY <1>7
    <3>3. o.pc # "idle" => o.tid \in DOMAIN reqs' /\ reqs'[o.tid] = reqs[o.tid]
      BY <1>4, <3>1 DEF CallOK
    <3>4. o.pc \in Unspent \cup {"reread", "cas"} => o.pc # "idle"
      BY DEF Unspent
    <3>5. CallOK(o)'
      BY <1>1, <3>1, <3>2, <3>3, <3>4 DEF CallOK, LeaseHeld, storeVars
    <3>6. HostOK(o)'
      BY <1>1, <3>1, <3>3 DEF HostOK, Committed, Passed, storeVars, hostVars
    <3> QED BY <3>5, <3>6
  <2> QED BY <1>1, <2>1, CallsStay
<1>14. ReaderInv'
  <2> SUFFICES ASSUME NEW t \in DOMAIN reqs', NEW g \in Nat,
                      reqs'[t].kind = "repin", Reader(t, g)'
               PROVE  ReaderInv!(t)!(g)!2'
    BY DEF ReaderInv
  <2>1. \A k \in Nat : Reader(t, k)' => Reader(t, k)
    BY <1>1 DEF Reader, storeVars
  <2>2. t \in DOMAIN reqs
    <3>1. Reader(t, g) => t \in DOMAIN reqs
      BY DEF Reader, Inv, CallsInv, CallOK, LateInv, UpdateOK
    <3> QED BY <2>1, <3>1
  <2>3. reqs'[t] = reqs[t]
    BY <1>4, <2>2
  <2> QED BY <1>1, <2>1, <2>2, <2>3 DEF Inv, ReaderInv, storeVars
<1>15. CommittedOnce' /\ SteeringAdvances'
  BY <1>1 DEF Inv, CommittedOnce, SteeringAdvances, Live, storeVars, hostVars
<1>16. ActivationReplacesItsBirth'
  BY <1>1, <1>4 DEF Inv, ActivationReplacesItsBirth, CommitInv, storeVars
<1> QED BY <1>6, <1>8, <1>9, <1>10, <1>11, <1>12, <1>13, <1>14, <1>15, <1>16
        DEF Inv

(* One call moves on; what is known of the others is shown for each. *)
LEMMA OthersStay ==
  ASSUME Inv, NEW p \in Procs, NEW o \in Calls, op' = [op EXCEPT ![p] = o],
         CallOK(o)', HostOK(o)',
         \A q \in Procs \ {p} : Apart(o, op[q]),
         \A q \in Procs \ {p} : \A r \in Calls :
           r = op[q] => CallOK(r)' /\ HostOK(r)'
  PROVE  CallsInv'
<1>1. op \in [Procs -> Calls] /\ \A q \in Procs : op[q] \in Calls
  BY DEF Inv, TypeOK
<1>2. op'[p] = o /\ \A q \in Procs \ {p} : op'[q] = op[q]
  BY <1>1
<1>3. ASSUME NEW q \in Procs
      PROVE  \E r \in Calls : op'[q] = r /\ CallOK(r)' /\ HostOK(r)'
  <2>1. CASE q = p
    BY <1>2, <2>1
  <2>2. CASE q # p
    <3>1. PICK r \in Calls : r = op[q]
      BY <1>1
    <3> QED BY <1>2, <2>2, <3>1
  <2> QED BY <2>1, <2>2
<1>4. ASSUME NEW q \in Procs, NEW r \in Procs, q # r
      PROVE  Apart(op'[q], op'[r])
  <2>1. CASE q = p
    BY <1>2, <1>4, <2>1
  <2>2. CASE r = p
    <3>1. Apart(o, op[q])
      BY <1>4, <2>2
    <3> QED BY <1>2, <1>4, <2>2, <3>1 DEF Apart
  <2>3. CASE q # p /\ r # p
    BY <1>2, <1>4, <2>3 DEF Inv, CallsInv
  <2> QED BY <2>1, <2>2, <2>3
<1> QED BY <1>3, <1>4, CallsNext

LEMMA DeleteKeeps ==
  ASSUME Inv, NEW p \in Procs, Delete(p) PROVE Inv'
<1>1. /\ op[p].pc = "delete" /\ End(p)
      /\ UNCHANGED <<reqs, lease, nextFence, late, commits, hostVars, poisoned,
                     births>>
  BY DEF Delete
<1>2. poisoned' \in [Hosts -> BOOLEAN] /\ faults' \in 0..MaxFaults
  BY <1>1, Faulted DEF Inv, TypeOK, Delete
<1>3. CASE UNCHANGED record
  BY <1>1, <1>2, <1>3, Ending DEF storeVars
<1>4. CASE LeaseHeld(op[p].lease) /\ record' = None
  <2>1. PICK o \in Calls : o = Idle
    BY IdleCall
  <2>2. op' = [op EXCEPT ![p] = o] /\ op[p].pc \in Leased \ {"refreshed"}
    BY <1>1, <2>1 DEF End, Leased
  <2>3. TypeOK'
    <3>1. op' \in [Procs -> Calls]
      BY <2>2 DEF Inv, TypeOK
    <3> QED BY <1>1, <1>2, <1>4, <3>1 DEF Inv, TypeOK, hostVars
  <2>4. ASSUME NEW f, f # op[p].lease PROVE ~LeaseHeld(f)'
    BY <1>1, <1>4, <2>4 DEF LeaseHeld
  <2>5. ASSUME NEW f, ~Used(f) PROVE ~Used(f)'
    BY <1>1, <1>4, <2>5 DEF Used
  <2>6. ASSUME NEW r \in Calls, CallOK(r), HostOK(r),
               r.pc \in Leased => r.lease # op[p].lease
        PROVE  CallOK(r)' /\ HostOK(r)'
    <3>1. r.pc = "cas" => ~LeaseHeld(r.lease)'
      BY <2>4, <2>6 DEF Leased
    <3>2. CallOK(r)'
      BY <1>1, <1>4, <2>5, <2>6, <3>1 DEF CallOK
    <3>3. HostOK(r)'
      BY <1>1, <1>4, <2>6 DEF HostOK, Committed, Passed, hostVars
    <3> QED BY <3>2, <3>3
  <2>7. CallsInv'
    <3>1. CallOK(o) /\ HostOK(o) /\ o.pc = "idle" /\ "idle" \notin Leased
      BY <2>1, IdleOK, IdleCall DEF Inv, Leased
    <3>2. CallOK(o)' /\ HostOK(o)'
      BY <2>6, <3>1
    <3>3. \A q \in Procs \ {p} : Apart(o, op[q])
      BY <3>1 DEF Apart
    <3>4. ASSUME NEW q \in Procs \ {p}, NEW r \in Calls, r = op[q]
          PROVE  CallOK(r)' /\ HostOK(r)'
      <4>1. CallOK(r) /\ HostOK(r) /\ Apart(op[p], r)
        BY <3>4 DEF Inv, CallsInv
      <4> QED BY <2>2, <2>6, <4>1 DEF Apart
    <3> QED BY <2>2, <3>2, <3>3, <3>4, OthersStay
  <2>8. LateInv'
    <3> SUFFICES ASSUME late # None PROVE UpdateOK(late)'
      BY <1>1 DEF LateInv
    <3>1. PICK c \in Updates : c = late
      BY Numbers DEF Inv
    <3>2. UpdateOK(c) /\ c.new.fence # op[p].lease
      BY <2>2, <3>1 DEF Inv, LateInv, CallsInv, CallOK
    <3>3. ~LeaseHeld(c.new.fence)' /\ ~Used(c.new.fence)'
      BY <2>4, <2>5, <3>2 DEF UpdateOK
    <3>4. UpdateOK(c)'
      BY <1>1, <3>2, <3>3 DEF UpdateOK
    <3> QED BY <1>1, <3>1, <3>4 DEF UpdateOK, Used, LeaseHeld
  <2>9. ReaderInv'
    <3>1. op'[p] = o /\ \A q \in Procs \ {p} : op'[q] = op[q]
      BY <2>2 DEF Inv, TypeOK
    <3>2. ASSUME NEW t, NEW g, Reader(t, g)' PROVE Reader(t, g)
      BY <1>1, <2>1, <3>1, <3>2, IdleCall DEF Reader
    <3> QED BY <1>1, <1>4, <3>2 DEF Inv, ReaderInv
  <2>10. (ReqsInv /\ RecordInv /\ LeaseInv /\ CommitInv /\ HostInv)'
    BY <1>1, <1>4 DEF Inv, ReqsInv, RecordInv, LeaseInv, CommitInv, HostInv,
                      Committed, Passed, hostVars
  <2>11. (CommittedOnce /\ ActivationReplacesItsBirth /\ SteeringAdvances)'
    BY <1>1 DEF Inv, CommittedOnce, ActivationReplacesItsBirth,
                SteeringAdvances, Live, hostVars
  <2> QED BY <2>3, <2>7, <2>8, <2>9, <2>10, <2>11 DEF Inv
<1> QED BY <1>3, <1>4 DEF Delete

-----------------------------------------------------------------------------
(* Hosts.                                                                  *)

(* An entry and floors that a host may hold. *)
MapsOK(e, f) ==
  /\ e \in [fence : Nat, owner : Owners \cup {None}, gen : Nat]
  /\ f \in [published : Nat, retired : Nat]
  /\ record # None => /\ e.fence <= record.fence /\ e.gen <= record.fence
                      /\ f.published <= record.fence
  /\ e.fence < nextFence /\ e.gen < nextFence
  /\ f.published < nextFence /\ f.retired < nextFence
  /\ Passed(f.retired)
  /\ e.owner = None => e.gen = 0
  /\ e.owner # None => Committed(e.gen, e.owner)
  /\ Live(e) => e.gen = f.published /\ e.gen > f.retired

LEMMA MapsHeld ==
  ASSUME Inv, NEW h \in Hosts PROVE MapsOK(entry[h], floors[h])
BY DEF Inv, TypeOK, HostInv, SteeringAdvances, MapsOK

LEMMA MapsNext ==
  ASSUME Inv, UNCHANGED <<reqs, storeVars>>,
         \A h \in Hosts : \E e, f : entry'[h] = e /\ floors'[h] = f /\ MapsOK(e, f)
  PROVE  HostInv' /\ SteeringAdvances'
<1> SUFFICES ASSUME NEW h \in Hosts
             PROVE  /\ HostInv!(h)'
                    /\ Live(entry'[h]) => /\ entry'[h].gen = floors'[h].published
                                          /\ entry'[h].gen > floors'[h].retired
  BY DEF HostInv, SteeringAdvances, Live
<1>1. MapsOK(entry'[h], floors'[h])
  OBVIOUS
<1> QED BY <1>1 DEF MapsOK, Passed, Committed, storeVars

(* A call that holds the permit of its host changes the maps. *)
LEMMA MapsChange ==
  ASSUME Inv, NEW p \in Procs, op[p].pc \in {"publish", "hostRetire"},
         NEW h, h = op[p].host, NEW e, NEW f, MapsOK(e, f),
         entry' = [entry EXCEPT ![h] = e], floors' = [floors EXCEPT ![h] = f],
         NEW o \in Calls, op' = [op EXCEPT ![p] = o],
         o.pc \in {"idle", "partial", "finalRead"}, CallOK(o), HostOK(o),
         o.pc = "finalRead" => o.host = h,
         faults' \in 0..MaxFaults,
         UNCHANGED <<reqs, storeVars, poisoned, births>>
  PROVE  Inv'
<1>1. h \in Hosts
  BY DEF Inv, CallsInv, CallOK
<1>2. /\ op \in [Procs -> Calls] /\ DOMAIN entry = Hosts /\ DOMAIN floors = Hosts
  BY DEF Inv, TypeOK
<1>3. /\ entry'[h] = e /\ floors'[h] = f
      /\ \A x \in Hosts \ {h} : entry'[x] = entry[x] /\ floors'[x] = floors[x]
      /\ op'[p] = o /\ \A q \in Procs \ {p} : op'[q] = op[q]
  BY <1>1, <1>2
<1>4. TypeOK'
  <2>1. op' \in [Procs -> Calls]
    BY <1>2
  <2>2. /\ entry' \in [Hosts -> [fence : Nat, owner : Owners \cup {None}, gen : Nat]]
        /\ floors' \in [Hosts -> [published : Nat, retired : Nat]]
    BY <1>1 DEF Inv, TypeOK, MapsOK
  <2> QED BY <2>1, <2>2 DEF Inv, TypeOK, storeVars
<1>5. HostInv' /\ SteeringAdvances'
  <2>1. ASSUME NEW x \in Hosts
        PROVE  \E e1, f1 : entry'[x] = e1 /\ floors'[x] = f1 /\ MapsOK(e1, f1)
    <3>1. CASE x = h
      BY <1>3, <3>1
    <3>2. CASE x # h
      BY <1>3, <3>2, MapsHeld
    <3> QED BY <3>1, <3>2
  <2> QED BY <2>1, MapsNext
<1>6. CallsInv'
  <2>1. ASSUME NEW r \in Calls, CallOK(r) PROVE CallOK(r)'
    BY <2>1 DEF CallOK, Used, LeaseHeld, storeVars
  <2>2. ASSUME NEW r \in Calls, HostOK(r), CallOK(r),
               r.pc \in {"publish", "hostRetire"} => r.host # h
        PROVE  HostOK(r)'
    <3>1. r.pc \in {"publish", "hostRetire"} =>
            entry'[r.host] = entry[r.host] /\ floors'[r.host] = floors[r.host]
      BY <1>3, <2>2 DEF CallOK
    <3> QED BY <2>2, <3>1 DEF HostOK, Committed, Passed, storeVars
  <2>3. CallOK(o)' /\ HostOK(o)'
    BY <2>1, <2>2
  <2>4. ASSUME NEW q \in Procs \ {p} PROVE Apart(o, op[q])
    <3>1. Apart(op[p], op[q])
      BY DEF Inv, CallsInv
    <3> QED BY <3>1 DEF Apart, Leased
  <2>5. ASSUME NEW q \in Procs \ {p}, NEW r \in Calls, r = op[q]
        PROVE  CallOK(r)' /\ HostOK(r)'
    <3>1. CallOK(r) /\ HostOK(r) /\ Apart(op[p], r)
      BY <2>5 DEF Inv, CallsInv
    <3>2. r.pc \in {"publish", "hostRetire"} => r.host # h
      BY <3>1 DEF Apart
    <3> QED BY <2>1, <2>2, <3>1, <3>2
  <2> QED BY <2>3, <2>4, <2>5, OthersStay
<1>7. ReaderInv'
  <2>1. \A t \in DOMAIN reqs : \A g \in Nat : Reader(t, g)' => Reader(t, g)
    BY <1>3 DEF Reader, storeVars
  <2>2. UNCHANGED <<reqs, record, commits, births>>
    BY DEF storeVars
  <2> QED BY <2>1, <2>2, ReadersNext
<1>8. (ReqsInv /\ RecordInv /\ LeaseInv /\ CommitInv)'
  BY DEF Inv, ReqsInv, RecordInv, LeaseInv, CommitInv, Committed, storeVars
<1>9. LateInv'
  BY DEF Inv, LateInv, UpdateOK, Used, LeaseHeld, storeVars
<1>10. (CommittedOnce /\ ActivationReplacesItsBirth)'
  BY DEF Inv, CommittedOnce, ActivationReplacesItsBirth, storeVars
<1> QED BY <1>4, <1>5, <1>6, <1>7, <1>8, <1>9, <1>10 DEF Inv

LEMMA PublishKeeps ==
  ASSUME Inv, NEW p \in Procs, Publish(p) PROVE Inv'
<1>1. PICK h, w, g, e : /\ h = op[p].host /\ w = reqs[op[p].tid].owner
                        /\ g = op[p].fence /\ e = entry[h]
  OBVIOUS
<1>2. op[p].pc = "publish" /\ UNCHANGED <<reqs, storeVars, poisoned, births>>
  BY DEF Publish
<1>3. /\ op[p] \in Calls /\ CallOK(op[p]) /\ HostOK(op[p])
      /\ h \in Hosts /\ op[p].tid \in DOMAIN reqs
  BY <1>1, <1>2, Numbers DEF Inv, CallsInv, CallOK
<1>4. w \in Owners /\ w # None
  BY <1>1, <1>3, Numbers, Fields, Bounds DEF Inv
<1>5. /\ Committed(g, w) /\ g \in Nat /\ g >= 1 /\ g < nextFence
      /\ record # None => g <= record.fence
  <2>1. Committed(g, w) /\ g \in Nat
    BY <1>1, <1>2, <1>3, Fields DEF HostOK
  <2> QED BY <2>1 DEF Committed, Inv, CommitInv
<1>6. /\ MapsOK(e, floors[h]) /\ e.fence <= g /\ e.gen <= g
      /\ floors[h].published <= g /\ floors[h].retired < g
  BY <1>1, <1>2, <1>3, MapsHeld DEF HostOK
<1>7. nextFence \in Nat /\ nextFence >= 1
  BY Numbers DEF Inv
<1>8. /\ floors[h] \in [published : Nat, retired : Nat]
      /\ entry \in [Hosts -> [fence : Nat, owner : Owners \cup {None}, gen : Nat]]
      /\ floors \in [Hosts -> [published : Nat, retired : Nat]]
      /\ e \in [fence : Nat, owner : Owners \cup {None}, gen : Nat]
  BY <1>1, <1>3 DEF Inv, TypeOK
<1>9. record # None => record.fence \in Nat /\ record.fence >= 1
  BY Numbers, Fields DEF Inv, RecordInv
<1>10. CASE /\ entry' = [entry EXCEPT
                           ![h] = [fence |-> g, owner |-> w, gen |-> g]]
            /\ floors' = [floors EXCEPT ![h].published = IF g > @ THEN g ELSE @]
            /\ End(p) /\ UNCHANGED faults
  <2> DEFINE n == [fence |-> g, owner |-> w, gen |-> g]
             f == [floors[h] EXCEPT !.published = g]
  <2>1. n.fence = g /\ n.owner = w /\ n.gen = g
    OBVIOUS
  <2>2. /\ f.published = g /\ f.retired = floors[h].retired
        /\ f \in [published : Nat, retired : Nat]
    BY <1>5, <1>8
  <2>3. n \in [fence : Nat, owner : Owners \cup {None}, gen : Nat]
    BY <1>4, <1>5
  <2>4. floors' = [floors EXCEPT ![h] = f]
    <3>1. floors[h].published \in Nat
      BY <1>8
    <3>2. (IF g > floors[h].published THEN g ELSE floors[h].published) = g
      BY <1>5, <1>6, <3>1
    <3> QED BY <1>10, <3>2
  <2>5. entry' = [entry EXCEPT ![h] = n]
    BY <1>10
  <2> HIDE DEF n, f
  <2>6. MapsOK(n, f)
    BY <1>4, <1>5, <1>6, <1>8, <2>1, <2>2, <2>3 DEF MapsOK
  <2>7. faults' \in 0..MaxFaults
    BY <1>10 DEF Inv, TypeOK
  <2>8. CallOK(Idle) /\ HostOK(Idle) /\ Idle \in Calls /\ Idle.pc = "idle"
    BY IdleOK, IdleCall DEF Inv
  <2>9. op' = [op EXCEPT ![p] = Idle]
    BY <1>10 DEF End
  <2> QED BY <1>1, <1>2, <2>4, <2>5, <2>6, <2>7, <2>8, <2>9, MapsChange
<1> DEFINE cut == [e EXCEPT !.fence = 0]
<1>11. ASSUME NEW left, left \in Interrupted(e, w, g) \cup {e, cut}
       PROVE  MapsOK(left, floors[h])
  <2>1. CASE left = NoEntry
    BY <1>6, <1>7, <1>9, <2>1, Bounds DEF MapsOK, NoEntry, Live
  <2>2. CASE left = [NoEntry EXCEPT !.fence = e.fence]
    <3>1. /\ left.fence = e.fence /\ left.owner = None /\ left.gen = 0
          /\ left \in [fence : Nat, owner : Owners \cup {None}, gen : Nat]
      BY <1>8, <2>2 DEF NoEntry
    <3> QED BY <1>6, <1>7, <1>9, <3>1 DEF MapsOK, Live
  <2>3. CASE left = [e EXCEPT !.fence = 0]
    <3>1. /\ left.fence = 0 /\ left.owner = e.owner /\ left.gen = e.gen
          /\ left \in [fence : Nat, owner : Owners \cup {None}, gen : Nat]
      BY <1>8, <2>3
    <3>2. e.owner # None => e.gen # 0
      BY <1>6 DEF MapsOK, Committed, Inv, CommitInv
    <3> QED BY <1>6, <1>7, <1>9, <3>1, <3>2 DEF MapsOK, Live
  <2>4. CASE left = [NoEntry EXCEPT !.fence = g]
    <3>1. /\ left.fence = g /\ left.owner = None /\ left.gen = 0
          /\ left \in [fence : Nat, owner : Owners \cup {None}, gen : Nat]
      BY <1>5, <2>4 DEF NoEntry
    <3> QED BY <1>5, <1>6, <1>7, <1>9, <3>1 DEF MapsOK, Live
  <2>5. CASE left = [fence |-> 0, owner |-> w, gen |-> g]
    <3>1. /\ left.fence = 0 /\ left.owner = w /\ left.gen = g
          /\ left \in [fence : Nat, owner : Owners \cup {None}, gen : Nat]
      BY <1>4, <1>5, <2>5
    <3> QED BY <1>4, <1>5, <1>6, <1>7, <1>9, <3>1 DEF MapsOK, Live
  <2>6. CASE Live(e) /\ left = [e EXCEPT !.fence = g]
    <3>1. /\ left.fence = g /\ left.owner = e.owner /\ left.gen = e.gen
          /\ left \in [fence : Nat, owner : Owners \cup {None}, gen : Nat]
      BY <1>5, <1>8, <2>6
    <3> QED BY <1>5, <1>6, <2>6, <3>1 DEF MapsOK, Live
  <2>7. CASE left = e
    BY <1>6, <2>7
  <2> DEFINE x == [fence |-> g, owner |-> w, gen |-> g]
  <2>8. x.fence = g /\ x.owner = w /\ x.gen = g
    OBVIOUS
  <2>9. ASSUME left \notin {e, cut}
        PROVE  left # x /\ \E l \in Cleared(e) \cup Cleared(x) : left = Contained(l, g)
    BY <1>11, <2>9 DEF Interrupted
  <2>10. ASSUME left # e, NEW l \in Cleared(e), left = Contained(l, g)
         PROVE  MapsOK(left, floors[h])
    <3>1. CASE l = NoEntry
      BY <2>1, <2>10, <3>1 DEF Contained, Live, NoEntry
    <3>2. CASE l = [NoEntry EXCEPT !.fence = e.fence]
      <4>1. l.owner = None
        BY <3>2 DEF NoEntry
      <4> QED BY <2>2, <2>10, <3>2, <4>1 DEF Contained, Live
    <3>3. CASE l = [e EXCEPT !.fence = 0]
      <4>1. l.fence = 0 /\ l.owner = e.owner /\ l.gen = e.gen
        BY <1>8, <3>3
      <4>2. e.owner # None => e.gen # 0
        BY <1>6 DEF MapsOK, Committed, Inv, CommitInv
      <4>3. ~Live(l)
        BY <4>1, <4>2 DEF Live
      <4> QED BY <2>3, <2>10, <3>3, <4>3 DEF Contained
    <3>4. CASE l = e
      BY <2>6, <2>7, <2>10, <3>4 DEF Contained
    <3> QED BY <3>1, <3>2, <3>3, <3>4 DEF Cleared
  <2>11. ASSUME left # x, NEW l \in Cleared(x), left = Contained(l, g)
         PROVE  MapsOK(left, floors[h])
    <3>1. CASE l = NoEntry
      BY <2>1, <2>11, <3>1 DEF Contained, Live, NoEntry
    <3>2. CASE l = [NoEntry EXCEPT !.fence = x.fence]
      <4>1. l.owner = None
        BY <3>2 DEF NoEntry
      <4> QED BY <2>4, <2>8, <2>11, <3>2, <4>1 DEF Contained, Live
    <3>3. CASE l = [x EXCEPT !.fence = 0]
      <4>1. l = [fence |-> 0, owner |-> w, gen |-> g]
        BY <3>3
      <4>2. ~Live(l)
        BY <1>5, <4>1 DEF Live
      <4> QED BY <2>5, <2>11, <4>1, <4>2 DEF Contained
    <3>4. CASE l = x
      <4>1. [x EXCEPT !.fence = g] = x
        OBVIOUS
      <4> QED BY <2>11, <3>4, <4>1 DEF Contained
    <3> QED BY <3>1, <3>2, <3>3, <3>4 DEF Cleared
  <2> QED BY <2>3, <2>7, <2>9, <2>10, <2>11
<1>12. CASE /\ PublishFailed(p) /\ UNCHANGED floors /\ faults' \in 0..MaxFaults
            /\ \E left \in Interrupted(e, w, g) \cup {e, cut} :
                 entry' = [entry EXCEPT ![h] = left]
  <2>1. PICK left \in Interrupted(e, w, g) \cup {e, cut} :
          entry' = [entry EXCEPT ![h] = left]
    BY <1>12
  <2>2. MapsOK(left, floors[h])
    BY <1>11
  <2>3. PICK o \in Calls : /\ op' = [op EXCEPT ![p] = o]
                           /\ o.pc \in {"idle", "partial"}
                           /\ CallOK(o) /\ HostOK(o)
    <3>1. CASE End(p)
      BY <3>1, IdleOK, IdleCall DEF Inv, End
    <3>2. CASE Go(p, "partial")
      <4> DEFINE o == [op[p] EXCEPT !.pc = "partial"]
      <4>1. /\ o \in Calls /\ o.pc = "partial" /\ o.host = op[p].host
            /\ o.tid = op[p].tid /\ o.fence = op[p].fence
            /\ o.retire = op[p].retire /\ o.lease = op[p].lease
        <5> "partial" \in Stages
          BY PlainStages
        <5> QED BY <1>3 DEF Calls
      <4>2. op' = [op EXCEPT ![p] = o]
        BY <3>2 DEF Go
      <4> HIDE DEF o
      <4>3. CallOK(o) /\ HostOK(o)
        BY <1>2, <1>3, <4>1 DEF CallOK, HostOK, Leased, Unspent
      <4> QED BY <4>1, <4>2, <4>3
    <3> QED BY <1>12, <3>1, <3>2 DEF PublishFailed
  <2>4. floors' = [floors EXCEPT ![h] = floors[h]]
    BY <1>8, <1>12
  <2>5. faults' \in 0..MaxFaults
    BY <1>12
  <2> QED BY <1>1, <1>2, <2>1, <2>2, <2>3, <2>4, <2>5, MapsChange
<1>13. CASE /\ PublishFailed(p) /\ UNCHANGED <<floors, faults>>
            /\ entry' = IF Regresses(e, g) THEN entry
                        ELSE [entry EXCEPT ![h] = Quarantined(e, g)]
  <2>1. PICK left : left \in Interrupted(e, w, g) \cup {e, cut}
                    /\ entry' = [entry EXCEPT ![h] = left]
    <3>1. CASE Regresses(e, g)
      BY <1>1, <1>8, <1>13, <3>1
    <3>2. CASE ~Regresses(e, g)
      BY <1>1, <1>8, <1>13, <3>2 DEF Quarantined
    <3> QED BY <3>1, <3>2
  <2>2. faults' \in 0..MaxFaults
    BY <1>13 DEF Inv, TypeOK
  <2> QED BY <1>12, <1>13, <2>1, <2>2
<1>14. CASE /\ Fault /\ PublishFailed(p) /\ UNCHANGED floors
            /\ \E left \in Interrupted(e, w, g) :
                 entry' = [entry EXCEPT ![h] = left]
  <2>1. faults' \in 0..MaxFaults
    BY <1>14, Faulted DEF Inv
  <2> QED BY <1>12, <1>14, <2>1
<1> QED BY <1>1, <1>10, <1>13, <1>14 DEF Publish

LEMMA HostRetireKeeps ==
  ASSUME Inv, NEW p \in Procs, HostRetire(p) PROVE Inv'
<1>1. PICK h, g, e : h = op[p].host /\ g = op[p].retire /\ e = entry[h]
  OBVIOUS
<1> DEFINE foreign == \/ Regresses(e, g)
                      \/ Foreign(e, reqs[op[p].tid].owner, op[p].fence, g)
<1>2. op[p].pc = "hostRetire" /\ UNCHANGED <<reqs, storeVars, poisoned, births>>
  BY DEF HostRetire
<1>3. /\ op[p] \in Calls /\ CallOK(op[p]) /\ HostOK(op[p])
      /\ h \in Hosts /\ op[p].tid \in DOMAIN reqs
  BY <1>1, <1>2, Numbers DEF Inv, CallsInv, CallOK
<1>4. /\ g \in Nat /\ g < nextFence /\ op[p].fence < g /\ op[p].fence \in Nat
      /\ Passed(g) /\ e.fence <= g /\ e.gen <= g
  BY <1>1, <1>2, <1>3, Fields DEF CallOK, HostOK
<1>5. MapsOK(e, floors[h])
  BY <1>1, <1>3, MapsHeld
<1>6. Passed(0)
  BY Numbers, Fields DEF Inv, RecordInv, Passed
<1>7. nextFence \in Nat /\ nextFence >= 1
  BY Numbers DEF Inv
<1>8. /\ floors[h] \in [published : Nat, retired : Nat]
      /\ entry \in [Hosts -> [fence : Nat, owner : Owners \cup {None}, gen : Nat]]
      /\ floors \in [Hosts -> [published : Nat, retired : Nat]]
      /\ e \in [fence : Nat, owner : Owners \cup {None}, gen : Nat]
  BY <1>1, <1>3 DEF Inv, TypeOK
<1>9. /\ record # None => record.fence \in Nat /\ record.fence >= 1
      /\ record # None => g <= record.fence
  BY <1>4, Numbers, Fields DEF Inv, RecordInv, Passed
<1>10. floors[h].published \in Nat /\ floors[h].retired \in Nat
  BY <1>8
<1>11. /\ CallOK(Idle) /\ HostOK(Idle) /\ Idle \in Calls /\ Idle.pc = "idle"
       /\ floors = [floors EXCEPT ![h] = floors[h]]
       /\ entry = [entry EXCEPT ![h] = e]
  BY <1>1, <1>8, IdleOK, IdleCall DEF Inv
<1>12. CASE /\ foreign /\ End(p) /\ UNCHANGED <<floors, faults>>
            /\ entry' = IF Live(e) /\ ~Regresses(e, g)
                        THEN [entry EXCEPT ![h].fence = g] ELSE entry
  <2>1. PICK n : /\ MapsOK(n, floors[h]) /\ entry' = [entry EXCEPT ![h] = n]
    <3>1. CASE Live(e) /\ ~Regresses(e, g)
      <4> DEFINE n == [e EXCEPT !.fence = g]
      <4>1. /\ n.fence = g /\ n.owner = e.owner /\ n.gen = e.gen
            /\ n \in [fence : Nat, owner : Owners \cup {None}, gen : Nat]
        BY <1>4, <1>8
      <4>2. entry' = [entry EXCEPT ![h] = n]
        BY <1>1, <1>12, <3>1
      <4> HIDE DEF n
      <4>3. MapsOK(n, floors[h])
        BY <1>4, <1>5, <1>9, <3>1, <4>1 DEF MapsOK, Live
      <4> QED BY <4>2, <4>3
    <3>2. CASE ~(Live(e) /\ ~Regresses(e, g))
      BY <1>5, <1>11, <1>12, <3>2
    <3> QED BY <3>1, <3>2
  <2>2. faults' \in 0..MaxFaults
    BY <1>12 DEF Inv, TypeOK
  <2>3. op' = [op EXCEPT ![p] = Idle] /\ floors' = [floors EXCEPT ![h] = floors[h]]
    BY <1>11, <1>12 DEF End
  <2> QED BY <1>1, <1>2, <1>11, <2>1, <2>2, <2>3, MapsChange
<1>13. CASE /\ ~foreign /\ entry' = [entry EXCEPT ![h] = NoEntry]
            /\ floors' = [floors EXCEPT ![h].retired = g]
            /\ Go(p, "finalRead") /\ UNCHANGED faults
  <2> DEFINE f == [floors[h] EXCEPT !.retired = g]
  <2>1. /\ f.published = floors[h].published /\ f.retired = g
        /\ f \in [published : Nat, retired : Nat]
    BY <1>4, <1>8
  <2>2. floors' = [floors EXCEPT ![h] = f]
    BY <1>13
  <2> HIDE DEF f
  <2>3. MapsOK(NoEntry, f)
    BY <1>4, <1>5, <1>6, <1>7, <1>9, <2>1, Bounds DEF MapsOK, NoEntry, Live
  <2>4. PICK o \in Calls : /\ op' = [op EXCEPT ![p] = o]
                           /\ o.pc = "finalRead" /\ o.host = h
                           /\ CallOK(o) /\ HostOK(o)
    <3> DEFINE o == [op[p] EXCEPT !.pc = "finalRead"]
    <3>1. /\ o \in Calls /\ o.pc = "finalRead" /\ o.host = op[p].host
          /\ o.tid = op[p].tid /\ o.fence = op[p].fence
          /\ o.retire = op[p].retire /\ o.lease = op[p].lease
      <4> "finalRead" \in Stages
        BY PlainStages
      <4> QED BY <1>3 DEF Calls
    <3>2. op' = [op EXCEPT ![p] = o]
      BY <1>13 DEF Go
    <3> HIDE DEF o
    <3>3. CallOK(o) /\ HostOK(o)
      BY <1>2, <1>3, <3>1, PlainOK, PlainStages
    <3> QED BY <1>1, <3>1, <3>2, <3>3
  <2>5. faults' \in 0..MaxFaults
    BY <1>13 DEF Inv, TypeOK
  <2> QED BY <1>1, <1>2, <1>13, <2>2, <2>3, <2>4, <2>5, MapsChange
<1>14. CASE /\ ~foreign /\ Fault /\ End(p) /\ UNCHANGED floors
            /\ \E left \in {[e EXCEPT !.fence = g], NoEntry,
                            [NoEntry EXCEPT !.fence = g]} :
                 entry' = [entry EXCEPT ![h] = left]
  <2>1. PICK left \in {[e EXCEPT !.fence = g], NoEntry,
                       [NoEntry EXCEPT !.fence = g]} :
          entry' = [entry EXCEPT ![h] = left]
    BY <1>14
  <2>2. MapsOK(left, floors[h])
    <3>1. CASE left = [e EXCEPT !.fence = g]
      <4>1. /\ left.fence = g /\ left.owner = e.owner /\ left.gen = e.gen
            /\ left \in [fence : Nat, owner : Owners \cup {None}, gen : Nat]
        BY <1>4, <1>8, <3>1
      <4>2. e.owner # None => e.gen = op[p].fence
        BY <1>1, <1>14 DEF Foreign
      <4>3. ~Live(left)
        BY <1>4, <4>1, <4>2 DEF Live
      <4> QED BY <1>4, <1>5, <1>9, <4>1, <4>3 DEF MapsOK
    <3>2. CASE left = [NoEntry EXCEPT !.fence = g]
      <4>1. /\ left.fence = g /\ left.owner = None /\ left.gen = 0
            /\ left \in [fence : Nat, owner : Owners \cup {None}, gen : Nat]
        BY <1>4, <3>2 DEF NoEntry
      <4> QED BY <1>4, <1>5, <1>7, <1>9, <4>1 DEF MapsOK, Live
    <3>3. CASE left = NoEntry
      BY <1>5, <1>7, <1>9, <3>3, Bounds DEF MapsOK, NoEntry, Live
    <3> QED BY <3>1, <3>2, <3>3
  <2>3. faults' \in 0..MaxFaults
    BY <1>14, Faulted DEF Inv
  <2>4. op' = [op EXCEPT ![p] = Idle] /\ floors' = [floors EXCEPT ![h] = floors[h]]
    BY <1>11, <1>14 DEF End
  <2> QED BY <1>1, <1>2, <1>11, <2>1, <2>2, <2>3, <2>4, MapsChange
<1> QED BY <1>1, <1>12, <1>13, <1>14 DEF HostRetire

LEMMA RestartKeeps ==
  ASSUME Inv, NEW h \in Hosts, Restart(h) PROVE Inv'
<1>1. PICK e : e = entry[h]
  OBVIOUS
<1> DEFINE mixed == e.owner # None /\ e.fence \notin {0, e.gen}
<1>2. /\ op' = [p \in Procs |-> IF op[p].host = h THEN Idle ELSE op[p]]
      /\ entry' = IF e.owner = None \/ mixed THEN entry
                  ELSE [entry EXCEPT ![h].fence = 0]
      /\ poisoned' = [poisoned EXCEPT ![h] = mixed]
      /\ UNCHANGED <<reqs, storeVars, floors, births>>
  BY <1>1 DEF Restart
<1>3. TypeOK /\ nextFence \in Nat /\ nextFence >= 1
  BY Numbers DEF Inv
<1>4. \A p \in Procs : op'[p] = Idle \/ (op[p].host # h /\ op'[p] = op[p])
  BY <1>2
<1>5. Idle \in Calls /\ CallOK(Idle) /\ HostOK(Idle) /\ Idle.pc = "idle"
  BY <1>3, IdleCall, IdleOK
<1>6. /\ e \in [fence : Nat, owner : Owners \cup {None}, gen : Nat]
      /\ entry \in [Hosts -> [fence : Nat, owner : Owners \cup {None}, gen : Nat]]
  BY <1>1, <1>3 DEF TypeOK
<1>7. PICK n : /\ MapsOK(n, floors[h]) /\ entry' = [entry EXCEPT ![h] = n]
               /\ n \in [fence : Nat, owner : Owners \cup {None}, gen : Nat]
  <2>1. MapsOK(e, floors[h])
    BY <1>1, MapsHeld
  <2>2. CASE e.owner = None \/ mixed
    <3>1. entry' = [entry EXCEPT ![h] = e]
      BY <1>1, <1>2, <1>6, <2>2
    <3> QED BY <1>6, <2>1, <3>1
  <2>3. CASE ~(e.owner = None \/ mixed)
    <3> DEFINE n == [e EXCEPT !.fence = 0]
    <3>1. /\ n.fence = 0 /\ n.owner = e.owner /\ n.gen = e.gen
          /\ n \in [fence : Nat, owner : Owners \cup {None}, gen : Nat]
      BY <1>6
    <3>2. entry' = [entry EXCEPT ![h] = n]
      BY <1>1, <1>2, <2>3
    <3> HIDE DEF n
    <3>3. e.gen # 0
      BY <2>1, <2>3 DEF MapsOK, Committed, Inv, CommitInv
    <3>4. record # None => record.fence \in Nat
      BY Numbers, Fields DEF Inv
    <3>5. MapsOK(n, floors[h])
      BY <1>3, <2>1, <2>3, <3>1, <3>3, <3>4 DEF MapsOK, Live
    <3> QED BY <3>1, <3>2, <3>5
  <2> QED BY <2>2, <2>3
<1>8. /\ entry'[h] = n
      /\ \A x \in Hosts \ {h} : entry'[x] = entry[x]
  BY <1>6, <1>7
<1>9. TypeOK'
  <2>1. op' \in [Procs -> Calls]
    BY <1>2, <1>3, <1>5 DEF TypeOK
  <2>2. entry' \in [Hosts -> [fence : Nat, owner : Owners \cup {None}, gen : Nat]]
    BY <1>6, <1>7
  <2>3. faults' \in 0..MaxFaults
    BY <1>3, Faulted DEF Restart
  <2>4. poisoned' \in [Hosts -> BOOLEAN]
    <3>1. mixed \in BOOLEAN
      OBVIOUS
    <3> HIDE DEF mixed
    <3> QED BY <1>2, <3>1, Poisoning
  <2> QED BY <1>2, <1>3, <2>1, <2>2, <2>3, <2>4 DEF TypeOK, storeVars
<1>10. HostInv' /\ SteeringAdvances'
  <2>1. ASSUME NEW x \in Hosts
        PROVE  \E e1, f1 : entry'[x] = e1 /\ floors'[x] = f1 /\ MapsOK(e1, f1)
    <3>1. CASE x = h
      BY <1>2, <1>7, <1>8, <3>1
    <3>2. CASE x # h
      BY <1>2, <1>8, <3>2, MapsHeld
    <3> QED BY <3>1, <3>2
  <2> QED BY <1>2, <2>1, MapsNext
<1>11. CallsInv'
  <2>1. ASSUME NEW r \in Calls, CallOK(r) PROVE CallOK(r)'
    BY <1>2, <2>1 DEF CallOK, Used, LeaseHeld, storeVars
  <2>2. ASSUME NEW r \in Calls, HostOK(r), CallOK(r), r.pc = "idle" \/ r.host # h
        PROVE  HostOK(r)'
    <3>1. r.pc # "idle" => entry'[r.host] = entry[r.host]
      BY <1>8, <2>2 DEF CallOK
    <3> QED BY <1>2, <2>2, <3>1 DEF HostOK, Committed, Passed, storeVars
  <2>3. ASSUME NEW p \in Procs
        PROVE  \E o \in Calls : op'[p] = o /\ CallOK(o)' /\ HostOK(o)'
    <3>1. PICK o \in Calls : /\ op'[p] = o /\ CallOK(o) /\ HostOK(o)
                             /\ o.pc = "idle" \/ o.host # h
      <4>1. op[p] \in Calls /\ CallOK(op[p]) /\ HostOK(op[p])
        BY Numbers DEF Inv, CallsInv
      <4> QED BY <1>4, <1>5, <4>1
    <3> QED BY <2>1, <2>2, <3>1
  <2>4. ASSUME NEW p \in Procs, NEW q \in Procs, p # q
        PROVE  Apart(op'[p], op'[q])
    <3>1. Apart(op[p], op[q])
      BY <2>4 DEF Inv, CallsInv
    <3> QED BY <1>4, <1>5, <3>1 DEF Apart, Leased
  <2> QED BY <2>3, <2>4, CallsNext
<1>12. ReaderInv'
  <2>1. \A t \in DOMAIN reqs : \A g \in Nat : Reader(t, g)' => Reader(t, g)
    BY <1>2, <1>4, <1>5 DEF Reader, storeVars
  <2>2. UNCHANGED <<reqs, record, commits, births>>
    BY <1>2 DEF storeVars
  <2> QED BY <2>1, <2>2, ReadersNext
<1>13. (ReqsInv /\ RecordInv /\ LeaseInv /\ CommitInv)'
  BY <1>2 DEF Inv, ReqsInv, RecordInv, LeaseInv, CommitInv, Committed, storeVars
<1>14. LateInv'
  BY <1>2 DEF Inv, LateInv, UpdateOK, Used, LeaseHeld, storeVars
<1>15. (CommittedOnce /\ ActivationReplacesItsBirth)'
  BY <1>2 DEF Inv, CommittedOnce, ActivationReplacesItsBirth, storeVars
<1> QED BY <1>9, <1>10, <1>11, <1>12, <1>13, <1>14, <1>15 DEF Inv

-----------------------------------------------------------------------------
(* The invariant.                                                          *)

LEMMA InitInv == Init => Inv
<1> SUFFICES ASSUME Init PROVE Inv
  OBVIOUS
<1>1. TypeOK
  <2>1. nextFence \in 1..(MaxFence + 1) /\ births \in 0..MaxBirths
        /\ faults \in 0..MaxFaults
    BY Bounds DEF Init
  <2>2. op \in [Procs -> Calls] /\ reqs \in Seq(Requests)
    BY IdleCall DEF Init
  <2>3. /\ entry \in [Hosts -> [fence : Nat, owner : Owners \cup {None}, gen : Nat]]
        /\ floors \in [Hosts -> [published : Nat, retired : Nat]]
    BY DEF Init, NoEntry
  <2>4. poisoned \in [Hosts -> BOOLEAN]
    BY DEF Init
  <2> QED BY <2>1, <2>2, <2>3, <2>4 DEF Init, TypeOK
<1>2. ReqsInv /\ RecordInv /\ LeaseInv /\ CommitInv /\ LateInv
  BY DEF Init, ReqsInv, RecordInv, LeaseInv, CommitInv, LateInv
<1>3. ReaderInv /\ CommittedOnce /\ ActivationReplacesItsBirth
  BY DEF Init, ReaderInv, CommittedOnce, ActivationReplacesItsBirth
<1>4. HostInv /\ SteeringAdvances
  BY DEF Init, HostInv, SteeringAdvances, NoEntry, Passed, Live
<1>5. CallsInv
  <2>1. \A p \in Procs : op[p] = Idle
    BY DEF Init
  <2>2. CallOK(Idle) /\ HostOK(Idle) /\ Apart(Idle, Idle)
    BY <1>1, IdleOK, IdleCall DEF Apart, Leased
  <2> QED BY <2>1, <2>2 DEF CallsInv
<1> QED BY <1>1, <1>2, <1>3, <1>4, <1>5 DEF Inv

LEMMA StutterKeeps ==
  ASSUME Inv, UNCHANGED vars PROVE Inv'
<1>1. UNCHANGED <<reqs, record, lease, nextFence, late, commits, entry, floors,
                  op, poisoned, births, faults>>
  BY DEF vars, storeVars, hostVars
<1>2. TypeOK'
  BY <1>1 DEF Inv, TypeOK
<1>3. (ReqsInv /\ RecordInv /\ LeaseInv /\ CommitInv /\ HostInv)'
  BY <1>1 DEF Inv, ReqsInv, RecordInv, LeaseInv, CommitInv, HostInv, Committed,
              Passed
<1>4. (LateInv /\ ReaderInv)'
  <2>1. LateInv'
    BY <1>1 DEF Inv, LateInv, UpdateOK, Used, LeaseHeld
  <2>2. \A t \in DOMAIN reqs : \A g \in Nat : Reader(t, g)' => Reader(t, g)
    BY <1>1 DEF Reader
  <2> QED BY <1>1, <2>1, <2>2, ReadersNext
<1>5. CallsInv'
  <2>1. ASSUME NEW p \in Procs, NEW o \in Calls, o = op[p]
        PROVE  CallOK(o)' /\ HostOK(o)'
    <3>1. CallOK(o) /\ HostOK(o)
      BY <2>1 DEF Inv, CallsInv
    <3> QED BY <1>1, <3>1, CallFrame, HostFrame DEF storeVars, hostVars
  <2> QED BY <1>1, <2>1, CallsStay
<1>6. (CommittedOnce /\ ActivationReplacesItsBirth /\ SteeringAdvances)'
  BY <1>1 DEF Inv, CommittedOnce, ActivationReplacesItsBirth,
              SteeringAdvances, Live
<1> QED BY <1>2, <1>3, <1>4, <1>5, <1>6 DEF Inv

LEMMA NextInv == Inv /\ [Next]_vars => Inv'
<1> SUFFICES ASSUME Inv, [Next]_vars PROVE Inv'
  OBVIOUS
<1>1. CASE UNCHANGED vars
  BY <1>1, StutterKeeps
<1>2. ASSUME NEW w \in Owners, Birth(w) \/ PrepareRepin(w) PROVE Inv'
  BY <1>2, BirthKeeps, PrepareRepinKeeps
<1>3. ASSUME NEW p \in Procs, Proceed(p) PROVE Inv'
  BY <1>3, RecoverKeeps, ReadKeeps, AcquireToCommitKeeps, RereadKeeps,
     CommitKeeps, ValidateKeeps, PublishKeeps, RetireReadKeeps,
     AcquireToRetireKeeps, RetireCasKeeps, RetireRecoverKeeps, HostRetireKeeps,
     FinalReadKeeps, FinalRereadKeeps, RefreshKeeps, RefreshReadbackKeeps,
     DeleteKeeps DEF Proceed
<1>4. ASSUME NEW p \in Procs, Retry(p) \/ Abandon(p) \/ Fails(p) \/ Drop(p)
      PROVE  Inv'
  BY <1>4, RetryKeeps, AbandonKeeps, FailsKeeps, DropKeeps
<1>5. ASSUME NEW p \in Procs, NEW h \in Hosts, NEW t \in DOMAIN reqs,
             Start(p, h, t) \/ StartRetire(p, h, t)
      PROVE  Inv'
  BY <1>5, StartKeeps, StartRetireKeeps
<1>6. CASE LeaseEnds
  BY <1>6, LeaseEndsKeeps
<1>7. CASE LateCas
  BY <1>7, LateCasKeeps
<1>8. ASSUME NEW h \in Hosts, Restart(h) PROVE Inv'
  BY <1>8, RestartKeeps
<1> QED BY <1>1, <1>2, <1>3, <1>4, <1>5, <1>6, <1>7, <1>8 DEF Next

(* The inductive invariant: the record, its lease and its commits agree,   *)
(* the calls share neither permits nor leases, and neither a call nor a    *)
(* compare-and-set under way relies on anything the store has taken back.  *)
THEOREM Invariance == Spec => []Inv
<1>1. Init => Inv
  BY InitInv
<1>2. Inv /\ [Next]_vars => Inv'
  BY NextInv
<1> QED BY <1>1, <1>2, PTL DEF Spec

(* Every variable keeps the shape of the state it stands for. *)
THEOREM TypeCorrect == Spec => []TypeOK
<1>1. Inv => TypeOK
  BY DEF Inv
<1> QED BY <1>1, Invariance, PTL

(* repin.rs: a host steers only to an owner, under a generation, that was  *)
(* committed, however the commit was answered, whoever retried it and      *)
(* whatever restarted.                                                     *)
THEOREM SteeringIsCommitted == Spec => []SteersOnlyCommitted
<1>1. Inv => SteersOnlyCommitted
  BY DEF Inv, HostInv, SteersOnlyCommitted, Committed, Live
<1> QED BY <1>1, Invariance, PTL

(* xdp.rs: the generation a host steers by is the highest it published and *)
(* beyond every retirement it cleaned up under.                            *)
THEOREM SteeringNeverRegresses == Spec => []SteeringAdvances
<1>1. Inv => SteeringAdvances
  BY DEF Inv
<1> QED BY <1>1, Invariance, PTL

(* xdp.rs: a call never meets maps that are ahead of it or name another    *)
(* owner under its generation; all they can refuse it for is its own fence *)
(* left without an owner.                                                  *)
THEOREM OnlyResiduesRefuse == Spec => []RefusedOnlyByResidue
<1>1. Inv => RefusedOnlyByResidue
  <2> SUFFICES ASSUME Inv, NEW p \in Procs PROVE RefusedOnlyByResidue!(p)
    BY DEF RefusedOnlyByResidue
  <2> DEFINE h == op[p].host
             e == entry[h]
  <2>1. op[p] \in Calls /\ CallOK(op[p]) /\ HostOK(op[p])
    BY Numbers DEF Inv, CallsInv
  <2>2. ASSUME op[p].pc \in {"publish", "hostRetire"}
        PROVE  /\ h \in Hosts /\ e.fence \in Nat /\ e.gen \in Nat
               /\ op[p].fence \in Nat /\ op[p].retire \in Nat
               /\ MapsOK(e, floors[h])
    <3>1. h \in Hosts
      BY <2>1, <2>2 DEF CallOK
    <3> QED BY <2>1, <3>1, Numbers, Fields, MapsHeld DEF Inv
  <2>3. CASE op[p].pc = "publish"
    <3>1. /\ e.fence <= op[p].fence /\ e.gen <= op[p].fence
          /\ Committed(op[p].fence, reqs[op[p].tid].owner)
      BY <2>1, <2>3 DEF HostOK
    <3>2. ~Regresses(e, op[p].fence)
      BY <2>2, <2>3, <3>1 DEF Regresses
    <3>3. op[p].fence >= 1
      BY <3>1 DEF Committed, Inv, CommitInv
    <3>4. ~(e.gen = op[p].fence /\ e.owner # reqs[op[p].tid].owner)
      <4>1. CASE e.owner = None
        BY <2>2, <2>3, <3>3, <4>1 DEF MapsOK
      <4>2. CASE e.owner # None
        BY <2>2, <2>3, <3>1, <4>2 DEF MapsOK, Committed, Inv, CommitInv
      <4> QED BY <4>1, <4>2
    <3>5. ASSUME e.fence = op[p].fence, e.owner = None
          PROVE  e = [NoEntry EXCEPT !.fence = op[p].fence]
      <4>1. e.gen = 0 /\ e \in [fence : Nat, owner : Owners \cup {None}, gen : Nat]
        BY <2>2, <2>3, <3>5 DEF MapsOK
      <4> QED BY <3>5, <4>1 DEF NoEntry
    <3> QED BY <2>3, <3>2, <3>4, <3>5 DEF Conflicts
  <2>4. CASE op[p].pc = "hostRetire"
    <3>1. e.fence <= op[p].retire /\ e.gen <= op[p].retire
      BY <2>1, <2>4 DEF HostOK
    <3> QED BY <2>2, <2>4, <3>1 DEF Regresses
  <2>5. CASE op[p].pc \notin {"publish", "hostRetire"}
    BY <2>5
  <2> QED BY <2>3, <2>4, <2>5
<1> QED BY <1>1, Invariance, PTL

(* ports.rs: however often a request is replayed, it commits one           *)
(* generation in the life of a record.                                     *)
THEOREM ReplaysCommitOnce == Spec => []CommittedOnce
<1>1. Inv => CommittedOnce
  BY DEF Inv
<1> QED BY <1>1, Invariance, PTL

(* ports.rs: an activation replaces the pending record bound to it, never  *)
(* the record of another transition.                                       *)
THEOREM ActivationFailsClosed == Spec => []ActivationReplacesItsBirth
<1>1. Inv => ActivationReplacesItsBirth
  BY DEF Inv
<1> QED BY <1>1, Invariance, PTL

(* ports.rs: what a finalization deletes is the Retiring record it         *)
(* refreshed under its own lease, never one born or written since.         *)
THEOREM FinalizationDeletesItsRefresh == Spec => RebirthUntouched
<1> DEFINE A == record # None /\ record' = None =>
                  \E p \in Procs : op[p].pc = "delete" /\ record = RetireRecord(p)
<1>1. Inv /\ [Next]_vars => [A]_vars
  <2> SUFFICES ASSUME Inv, Next, record # None, record' = None
               PROVE  A
    OBVIOUS
  <2>1. ASSUME NEW c \in Updates, Apply(c) PROVE FALSE
    BY <2>1, Fields, NoneIsNoRecord DEF Apply
  <2>2. ASSUME NEW w \in Owners, Birth(w) \/ PrepareRepin(w) PROVE A
    BY <2>2 DEF Birth, PrepareRepin, storeVars
  <2>3. ASSUME NEW p \in Procs, Proceed(p) PROVE A
    <3>1. CASE Delete(p)
      <4>1. op[p].pc = "delete" /\ LeaseHeld(op[p].lease)
        BY <3>1 DEF Delete
      <4>2. CallOK(op[p])
        BY DEF Inv, CallsInv
      <4>3. /\ record.state = "retiring" /\ record.tid = op[p].tid
            /\ record.fence = op[p].lease /\ record.active = op[p].fence
            /\ record.gen = op[p].gen + 1
        BY <4>1, <4>2 DEF CallOK
      <4>4. record \in Records /\ record.owner = reqs[record.tid].owner
        BY DEF Inv, TypeOK, RecordInv
      <4>5. record = RetireRecord(p)
        BY <4>3, <4>4 DEF Records, RetireRecord
      <4> QED BY <4>1, <4>5
    <3>2. CASE Commit(p)
      <4>1. CommitCas(p) \in Updates
        BY <3>2, CommitUpdate DEF Commit
      <4> QED BY <2>1, <3>2, <4>1 DEF Commit, Cas
    <3>3. CASE RetireCas(p)
      <4>1. RetireUpdate(p, FALSE) \in Updates
        BY <3>3, RetireUpdateType DEF RetireCas
      <4> QED BY <2>1, <3>3, <4>1 DEF RetireCas, Cas, RetireUpdate
    <3>4. CASE Refresh(p)
      <4>1. RetireUpdate(p, TRUE) \in Updates
        BY <3>4, RetireUpdateType DEF Refresh
      <4> QED BY <2>1, <3>4, <4>1 DEF Refresh, Cas, RetireUpdate
    <3>5. CASE \/ Recover(p) \/ Read(p) \/ Reread(p) \/ Validate(p) \/ Publish(p)
               \/ RetireRead(p) \/ RetireRecover(p) \/ HostRetire(p)
               \/ FinalRead(p) \/ FinalReread(p) \/ RefreshReadback(p)
      BY <3>5 DEF Recover, Read, Reread, Validate, Publish, RetireRead,
                  RetireRecover, HostRetire, FinalRead, FinalReread,
                  RefreshReadback, storeVars
    <3>6. CASE AcquireToCommit(p) \/ RetireAcquire(p) \/ FinalAcquire(p)
      BY <3>6 DEF AcquireToCommit, RetireAcquire, FinalAcquire, Acquire
    <3> QED BY <2>3, <3>1, <3>2, <3>3, <3>4, <3>5, <3>6 DEF Proceed
  <2>4. ASSUME NEW p \in Procs, Retry(p) \/ Abandon(p) \/ Fails(p) \/ Drop(p)
        PROVE  A
    BY <2>4 DEF Retry, Abandon, Fails, Drop, storeVars
  <2>5. ASSUME NEW p \in Procs, NEW h \in Hosts, NEW t \in DOMAIN reqs,
               Start(p, h, t) \/ StartRetire(p, h, t)
        PROVE  A
    BY <2>5 DEF Start, StartRetire, storeVars
  <2>6. CASE LeaseEnds
    BY <2>6 DEF LeaseEnds
  <2>7. CASE LateCas
    BY <2>1, <2>7, Numbers DEF LateCas, Inv
  <2>8. ASSUME NEW h \in Hosts, Restart(h) PROVE A
    BY <2>8 DEF Restart, storeVars
  <2> QED BY <2>2, <2>3, <2>4, <2>5, <2>6, <2>7, <2>8 DEF Next
<1> QED BY <1>1, Invariance, PTL DEF Spec, RebirthUntouched

=============================================================================
