---------------------------- MODULE SaMirror_proofs ----------------------------
(***************************************************************************)
(* Theorems about SaMirror, for any number of SAs, generations and         *)
(* abandoned connections and every capacity of the standby: an             *)
(* acknowledged install means custody, custody never goes back, and a      *)
(* takeover starts beyond every counter value the lost owner used.         *)
(***************************************************************************)
EXTENDS SaMirror, TLAPS

(* The owner: epochs never outrun keys, an established SA has a            *)
(* generation, and what it sent stays within MaxLag of what is mirrored.   *)
OwnerInv ==
  /\ protected \subseteq up
  /\ \A sa \in SAs :
       /\ gen[sa].epoch <= gen[sa].key
       /\ sa \in up => gen[sa].epoch >= 1
       /\ mirrored[sa] <= sent[sa][gen[sa].key]
       /\ sent[sa][gen[sa].key] <= mirrored[sa] + MaxLag
       /\ takeovers[sa] # Nothing => lost

(* A call carries the owner's current generation. An SA under protection   *)
(* is not installed again, one being withdrawn is down, and a checkpoint   *)
(* is of a protected SA.                                                   *)
CallInv ==
  \A sa \in SAs :
    calls[sa] # Nothing =>
      /\ ~lost
      /\ calls[sa].sa = sa
      /\ calls[sa].epoch = gen[sa].epoch /\ calls[sa].key = gen[sa].key
      /\ mirrored[sa] <= calls[sa].count
      /\ calls[sa].count <= sent[sa][gen[sa].key]
      /\ calls[sa].kind = "install" => sa \in up \ protected
      /\ calls[sa].kind = "checkpoint" => sa \in protected
      /\ calls[sa].kind = "withdraw" =>
           sa \notin up /\ withdrawn[sa] = gen[sa].epoch

(* A request left on an abandoned connection is of a past or the current   *)
(* generation; a withdrawal among them is of a generation that is over.    *)
LateInv ==
  \A c \in Conns :
    late[c] # Nothing =>
      LET r == late[c] IN
      /\ r.epoch <= gen[r.sa].epoch /\ r.key <= gen[r.sa].key
      /\ r.kind = "withdraw" =>
           /\ r.epoch <= withdrawn[r.sa]
           /\ r.epoch < gen[r.sa].epoch \/ r.sa \notin up
      /\ r.kind = "install" => r.sa \notin protected \intersect restarted

(* Custody is of a past or the current generation. *)
HeldInv ==
  \A sa \in SAs :
    held[sa] # Nothing =>
      /\ held[sa].epoch <= gen[sa].epoch /\ held[sa].key <= gen[sa].key
      /\ sa \notin restarted

(* A snapshot of a generation covers what the owner sent with its keys, up *)
(* to MaxLag, and is not behind what is known to be mirrored.              *)
Covers(sa, r) ==
  /\ sent[sa][r.key] <= r.count + MaxLag
  /\ r.key = gen[sa].key => mirrored[sa] <= r.count

(* So do the custody a takeover would find and the late installs that      *)
(* could still become custody.                                             *)
CoverInv ==
  /\ \A sa \in SAs :
       /\ takeovers[sa] = Nothing
       /\ held[sa] # Nothing
       /\ held[sa].epoch > withdrawn[sa]
       => Covers(sa, held[sa])
  /\ \A c \in Conns :
       LET r == late[c] IN
       /\ r # Nothing
       /\ r.kind = "install"
       /\ takeovers[r.sa] = Nothing
       /\ r.epoch > withdrawn[r.sa]
       /\ held[r.sa] = Nothing \/ r.epoch > held[r.sa].epoch
       => Covers(r.sa, r)

Inv ==
  /\ TypeOK /\ OwnerInv /\ CallInv /\ LateInv /\ HeldInv
  /\ ProtectedIsHeld /\ CoverInv /\ NoNonceReuse

-----------------------------------------------------------------------------
(* Operators.                                                              *)

LEMMA Bounds ==
  /\ MaxKeys \in Nat /\ MaxCount \in Nat \ {0} /\ MaxFaults \in Nat
  /\ MaxLag \in Nat /\ CounterMax \in Nat
BY MirrorAssumption

(* The larger of two integers. *)
LEMMA MaxOfTwo ==
  ASSUME NEW a \in Int, NEW b \in Int
  PROVE  /\ Max({a, b}) \in {a, b}
         /\ Max({a, b}) >= a /\ Max({a, b}) >= b
<1>1. \E m \in {a, b} : \A y \in {a, b} : m >= y
  <2>1. CASE a <= b
    BY <2>1
  <2>2. CASE b <= a
    BY <2>2
  <2> QED BY <2>1, <2>2
<1> QED BY <1>1 DEF Max

LEMMA MinOfTwo ==
  ASSUME NEW a \in Int, NEW b \in Int
  PROVE  /\ Min({a, b}) \in {a, b}
         /\ Min({a, b}) <= a /\ Min({a, b}) <= b
<1>1. \E m \in {a, b} : \A y \in {a, b} : m <= y
  <2>1. CASE a <= b
    BY <2>1
  <2>2. CASE b <= a
    BY <2>2
  <2> QED BY <2>1, <2>2
<1> QED BY <1>1 DEF Min

(* A held SA is not an absent one. *)
LEMMA HeldIsSomething ==
  ASSUME NEW n, NEW h \in HeldSas(n) PROVE h # Nothing
BY DEF HeldSas, Nothing

LEMMA RequestIsSomething ==
  ASSUME NEW r \in Requests PROVE r # Nothing
BY DEF Requests, Nothing

(* The custody made from a request. *)
LEMMA HeldSaFields ==
  ASSUME NEW r \in Requests
  PROVE  /\ HeldSa(r) \in HeldSas(MaxCount)
         /\ HeldSa(r).epoch = r.epoch /\ HeldSa(r).key = r.key
         /\ HeldSa(r).count = r.count
BY DEF HeldSa, HeldSas, Requests

(* Merging a snapshot keeps epoch and keys; the counter is the larger.     *)
LEMMA MergedFields ==
  ASSUME NEW h \in HeldSas(MaxCount), NEW r \in Requests
  PROVE  /\ Merged(h, r) \in HeldSas(MaxCount)
         /\ Merged(h, r).epoch = h.epoch /\ Merged(h, r).key = h.key
         /\ Merged(h, r).count >= h.count
         /\ Merged(h, r).count >= r.count
         /\ Merged(h, r).count \in {h.count, r.count}
<1> DEFINE m == Max({h.count, r.count})
<1>1. h.count \in 0..MaxCount /\ r.count \in 0..MaxCount
  BY DEF HeldSas, Requests
<1>2. h.count \in Int /\ r.count \in Int
  BY <1>1, MirrorAssumption
<1>3. m \in {h.count, r.count} /\ m >= h.count /\ m >= r.count
  BY <1>2, MaxOfTwo
<1>4. Merged(h, r) = [h EXCEPT !.count = m]
  BY DEF Merged
<1> HIDE DEF m
<1>5. m \in 0..MaxCount
  BY <1>1, <1>3
<1> QED BY <1>3, <1>4, <1>5 DEF HeldSas

(* What a request does to the custody of its SA: nothing, a new            *)
(* generation, a merge within the same epoch, or a withdrawal.             *)
Fresh(h, g, r) ==
  /\ r.kind = "install"
  /\ h = Nothing \/ r.epoch > h.epoch
  /\ g = HeldSa(r)

Merges(h, g, r) ==
  /\ h # Nothing
  /\ r.kind \in {"install", "checkpoint"}
  /\ r.epoch = h.epoch
  /\ r.kind = "install" => r.key = h.key
  /\ g = Merged(h, r)

Vacates(h, g, r) ==
  /\ h # Nothing
  /\ r.kind = "withdraw"
  /\ h.epoch <= r.epoch
  /\ g = Nothing

Keeps(h, g, r, code) ==
  /\ g = h
  /\ r.kind # "withdraw" => code # "accepted"
  /\ r.kind = "withdraw" => h = Nothing \/ h.epoch > r.epoch

LEMMA ServeShape ==
  ASSUME NEW r \in Requests,
         held \in [SAs -> HeldSas(MaxCount) \union {Nothing}]
  PROVE  \E g \in HeldSas(MaxCount) \union {Nothing} :
           /\ Serve(r).custody = [held EXCEPT ![r.sa] = g]
           /\ \/ Fresh(held[r.sa], g, r)
              \/ Merges(held[r.sa], g, r)
              \/ Vacates(held[r.sa], g, r)
              \/ Keeps(held[r.sa], g, r, Serve(r).code)
<1> DEFINE h == held[r.sa]
<1>1. /\ r.sa \in SAs /\ r.kind \in {"install", "checkpoint", "withdraw"}
      /\ r.epoch \in Int /\ h \in HeldSas(MaxCount) \union {Nothing}
      /\ h # Nothing => h \in HeldSas(MaxCount) /\ h.epoch \in Int
  BY MirrorAssumption DEF Requests, HeldSas
<1>2. held = [held EXCEPT ![r.sa] = h]
  BY <1>1
<1>3. HeldSa(r) \in HeldSas(MaxCount)
  BY HeldSaFields
<1>4. h # Nothing => Merged(h, r) \in HeldSas(MaxCount)
  BY <1>1, MergedFields
<1>5. CASE r.kind = "install"
  <2>1. Serve(r) = Install(r)
    BY <1>5 DEF Serve
  <2>2. CASE ~HasRoom(r.sa)
    <3> h = Nothing
      BY <1>1, <2>2 DEF HasRoom, Holding
    <3>1. Serve(r) = Answer(held, "capacity_exhausted")
      BY <2>1, <2>2 DEF Install
    <3>2. Serve(r).custody = held /\ Serve(r).code # "accepted"
      BY <3>1 DEF Answer
    <3> QED BY <1>1, <1>2, <1>5, <3>2 DEF Keeps
  <2>3. CASE HasRoom(r.sa) /\ h = Nothing
    <3>1. Serve(r) = Answer([held EXCEPT ![r.sa] = HeldSa(r)], "accepted")
      BY <2>1, <2>3 DEF Install
    <3>2. Serve(r).custody = [held EXCEPT ![r.sa] = HeldSa(r)]
      BY <3>1 DEF Answer
    <3> QED BY <1>3, <1>5, <2>3, <3>2 DEF Fresh
  <2>4. CASE HasRoom(r.sa) /\ h # Nothing /\ r.epoch < h.epoch
    <3>1. Serve(r) = Answer(held, "stale_epoch")
      BY <1>1, <2>1, <2>4 DEF Install
    <3>2. Serve(r).custody = held /\ Serve(r).code # "accepted"
      BY <3>1 DEF Answer
    <3> QED BY <1>1, <1>2, <1>5, <3>2 DEF Keeps
  <2>5. CASE HasRoom(r.sa) /\ h # Nothing /\ r.epoch = h.epoch /\ r.key # h.key
    <3>1. Serve(r) = Answer(held, "mirror_conflict")
      BY <1>1, <2>1, <2>5 DEF Install
    <3>2. Serve(r).custody = held /\ Serve(r).code # "accepted"
      BY <3>1 DEF Answer
    <3> QED BY <1>1, <1>2, <1>5, <3>2 DEF Keeps
  <2>6. CASE HasRoom(r.sa) /\ h # Nothing /\ r.epoch = h.epoch /\ r.key = h.key
    <3>1. Serve(r) = Answer([held EXCEPT ![r.sa] = Merged(h, r)], "accepted")
      BY <1>1, <2>1, <2>6 DEF Install
    <3>2. Serve(r).custody = [held EXCEPT ![r.sa] = Merged(h, r)]
      BY <3>1 DEF Answer
    <3> QED BY <1>4, <1>5, <2>6, <3>2 DEF Merges
  <2>7. CASE HasRoom(r.sa) /\ h # Nothing /\ r.epoch > h.epoch
    <3>1. Serve(r) = Answer([held EXCEPT ![r.sa] = HeldSa(r)], "accepted")
      BY <1>1, <2>1, <2>7 DEF Install
    <3>2. Serve(r).custody = [held EXCEPT ![r.sa] = HeldSa(r)]
      BY <3>1 DEF Answer
    <3> QED BY <1>3, <1>5, <2>7, <3>2 DEF Fresh
  <2>8. h = Nothing \/ r.epoch < h.epoch \/ r.epoch = h.epoch \/ r.epoch > h.epoch
    BY <1>1
  <2> HIDE DEF h
  <2> QED BY <2>2, <2>3, <2>4, <2>5, <2>6, <2>7, <2>8
<1>6. CASE r.kind = "checkpoint"
  <2>1. Serve(r) = Checkpoint(r)
    BY <1>6 DEF Serve
  <2>2. CASE h = Nothing \/ (h # Nothing /\ r.epoch # h.epoch)
    <3>1. \E code \in {"not_found", "stale_epoch"} : Serve(r) = Answer(held, code)
      BY <1>1, <2>1, <2>2 DEF Checkpoint
    <3>2. Serve(r).custody = held /\ Serve(r).code # "accepted"
      BY <3>1 DEF Answer
    <3> QED BY <1>1, <1>2, <1>6, <3>2 DEF Keeps
  <2>3. CASE h # Nothing /\ r.epoch = h.epoch
    <3>1. Serve(r) = Answer([held EXCEPT ![r.sa] = Merged(h, r)], "accepted")
      BY <1>1, <2>1, <2>3 DEF Checkpoint
    <3>2. Serve(r).custody = [held EXCEPT ![r.sa] = Merged(h, r)]
      BY <3>1 DEF Answer
    <3> QED BY <1>4, <1>6, <2>3, <3>2 DEF Merges
  <2> QED BY <2>2, <2>3
<1>7. CASE r.kind = "withdraw"
  <2>1. Serve(r) = Withdraw(r)
    BY <1>7 DEF Serve
  <2>2. CASE h # Nothing /\ h.epoch <= r.epoch
    <3>1. Serve(r).custody = [held EXCEPT ![r.sa] = Nothing]
      BY <2>1, <2>2 DEF Withdraw, Answer
    <3> QED BY <1>7, <2>2, <3>1 DEF Vacates
  <2>3. CASE ~(h # Nothing /\ h.epoch <= r.epoch)
    <3>1. Serve(r).custody = held
      BY <2>1, <2>3 DEF Withdraw, Answer
    <3> QED BY <1>1, <1>2, <1>7, <2>3, <3>1 DEF Keeps
  <2> QED BY <2>2, <2>3
<1> QED BY <1>1, <1>5, <1>6, <1>7

(* The values the invariant compares are integers. *)
LEMMA Numbers ==
  ASSUME TypeOK
  PROVE  /\ \A sa \in SAs :
              /\ gen[sa].epoch \in 0..MaxKeys /\ gen[sa].key \in 0..MaxKeys
              /\ mirrored[sa] \in 0..MaxCount /\ withdrawn[sa] \in 0..MaxKeys
              /\ \A k \in 0..MaxKeys : sent[sa][k] \in 0..MaxCount
              /\ held[sa] # Nothing => held[sa] \in HeldSas(MaxCount)
              /\ calls[sa] # Nothing => calls[sa] \in Requests
              /\ takeovers[sa] # Nothing => takeovers[sa] \in HeldSas(CounterMax)
         /\ \A c \in Conns : late[c] # Nothing => late[c] \in Requests
BY DEF TypeOK

LEMMA Fields ==
  /\ \A n \in Nat : \A h \in HeldSas(n) :
       /\ h.epoch \in 1..MaxKeys /\ h.key \in 1..MaxKeys /\ h.count \in 0..n
  /\ \A r \in Requests :
       /\ r.epoch \in 1..MaxKeys /\ r.key \in 1..MaxKeys
       /\ r.count \in 0..MaxCount /\ r.sa \in SAs
       /\ r.kind \in {"install", "checkpoint", "withdraw"}
BY DEF HeldSas, Requests

LEMMA Faulted ==
  ASSUME TypeOK, Fault PROVE faults' \in 0..MaxFaults
BY Bounds DEF TypeOK, Fault

LEMMA InitInv == Init => Inv
<1> SUFFICES ASSUME Init PROVE Inv
  OBVIOUS
<1>1. TypeOK
  <2>1. /\ gen \in [SAs -> [epoch : 0..MaxKeys, key : 0..MaxKeys]]
        /\ sent \in [SAs -> [0..MaxKeys -> 0..MaxCount]]
        /\ mirrored \in [SAs -> 0..MaxCount] /\ withdrawn \in [SAs -> 0..MaxKeys]
    BY Bounds DEF Init
  <2>2. lost \in BOOLEAN
    BY DEF Init
  <2>3. faults \in 0..MaxFaults
    BY Bounds DEF Init
  <2> QED BY <2>1, <2>2, <2>3 DEF Init, TypeOK
<1>2. OwnerInv
  BY MirrorAssumption DEF Init, OwnerInv
<1>3. CallInv /\ LateInv /\ HeldInv
  BY DEF Init, CallInv, LateInv, HeldInv
<1>4. ProtectedIsHeld /\ CoverInv /\ NoNonceReuse
  BY DEF Init, ProtectedIsHeld, CoverInv, NoNonceReuse
<1> QED BY <1>1, <1>2, <1>3, <1>4 DEF Inv

(* A call of the owner other than a withdrawal. *)
LEMMA RequestType ==
  ASSUME TypeOK, OwnerInv, NEW sa \in SAs, gen[sa].epoch >= 1,
         NEW kind \in {"install", "checkpoint", "withdraw"}
  PROVE  /\ Request(kind, sa) \in Requests
         /\ Request(kind, sa).kind = kind
         /\ Request(kind, sa).sa = sa
         /\ Request(kind, sa).epoch = gen[sa].epoch
         /\ Request(kind, sa).key = gen[sa].key
         /\ Request(kind, sa).count = sent[sa][gen[sa].key]
<1>1. /\ gen[sa].epoch \in 1..MaxKeys /\ gen[sa].key \in 1..MaxKeys
      /\ sent[sa][gen[sa].key] \in 0..MaxCount
  BY MirrorAssumption, Numbers DEF OwnerInv
<1> QED BY <1>1 DEF Request, Requests

LEMMA CallKeeps ==
  ASSUME Inv, NEW sa \in SAs, MirrorInstall(sa) \/ MirrorCheckpoint(sa)
  PROVE  Inv'
<1>1. PICK kind \in {"install", "checkpoint"} :
        /\ kind = "install" => sa \notin protected
        /\ kind = "checkpoint" => sa \in protected
        /\ sa \in up
        /\ Call(sa, kind)
        /\ UNCHANGED <<held, late, owner, restarted, withdrawn, takeovers, faults>>
  BY DEF MirrorInstall, MirrorCheckpoint
<1> DEFINE r == Request(kind, sa)
<1>2. /\ r \in Requests /\ r # Nothing
      /\ r.kind = kind /\ r.sa = sa
      /\ r.epoch = gen[sa].epoch /\ r.key = gen[sa].key
      /\ r.count = sent[sa][gen[sa].key]
  BY <1>1, RequestType, RequestIsSomething DEF Inv, OwnerInv
<1>3. /\ calls' = [calls EXCEPT ![sa] = r] /\ ~lost
      /\ UNCHANGED <<held, late, owner, restarted, withdrawn, takeovers, faults>>
  BY <1>1 DEF Call
<1> HIDE DEF r
<1>4. TypeOK'
  BY <1>2, <1>3 DEF Inv, TypeOK, owner
<1>5. mirrored[sa] <= sent[sa][gen[sa].key] /\ sent[sa][gen[sa].key] <= sent[sa][gen[sa].key]
  BY MirrorAssumption, Numbers DEF Inv, OwnerInv
<1>6. CallInv'
  <2> SUFFICES ASSUME NEW x \in SAs, calls'[x] # Nothing
               PROVE  CallInv!(x)'
    BY DEF CallInv
  <2>1. CASE x = sa
    <3>1. calls'[x] = r
      BY <1>3, <2>1 DEF Inv, TypeOK
    <3> QED BY <1>1, <1>2, <1>3, <1>5, <2>1, <3>1 DEF Inv, CallInv, owner
  <2>2. CASE x # sa
    <3>1. calls'[x] = calls[x]
      BY <1>3, <2>2 DEF Inv, TypeOK
    <3> QED BY <1>3, <3>1 DEF Inv, CallInv, owner
  <2> QED BY <2>1, <2>2
<1>7. (OwnerInv /\ LateInv /\ HeldInv /\ ProtectedIsHeld /\ CoverInv /\ NoNonceReuse)'
  BY <1>3 DEF Inv, OwnerInv, LateInv, HeldInv, ProtectedIsHeld, CoverInv, Covers,
              NoNonceReuse, owner
<1> QED BY <1>4, <1>6, <1>7 DEF Inv

LEMMA DeadlineKeeps ==
  ASSUME Inv, NEW sa \in SAs, Deadline(sa)
  PROVE  Inv'
<1>1. TypeOK'
  BY Faulted DEF Inv, TypeOK, Deadline, owner
<1>2. \A x \in SAs : calls'[x] # Nothing => calls'[x] = calls[x]
  BY DEF Inv, TypeOK, Deadline
<1>3. CallInv'
  BY <1>2 DEF Inv, CallInv, Deadline, owner
<1>4. (OwnerInv /\ LateInv /\ HeldInv /\ ProtectedIsHeld /\ CoverInv /\ NoNonceReuse)'
  BY DEF Inv, OwnerInv, LateInv, HeldInv, ProtectedIsHeld, CoverInv, Covers,
         NoNonceReuse, Deadline, owner
<1> QED BY <1>1, <1>3, <1>4 DEF Inv

LEMMA OwnerLostKeeps ==
  ASSUME Inv, OwnerLost
  PROVE  Inv'
<1>1. TypeOK'
  BY DEF Inv, TypeOK, OwnerLost
<1>2. CallInv'
  BY DEF CallInv, OwnerLost
<1>3. (OwnerInv /\ LateInv /\ HeldInv /\ ProtectedIsHeld /\ CoverInv /\ NoNonceReuse)'
  BY DEF Inv, OwnerInv, LateInv, HeldInv, ProtectedIsHeld, CoverInv, Covers,
         NoNonceReuse, OwnerLost
<1> QED BY <1>1, <1>2, <1>3 DEF Inv

(* Snapshots that still cover what the owner sent, when only the owner     *)
(* moves.                                                                  *)
LEMMA CoverKept ==
  ASSUME TypeOK, LateInv, HeldInv, CoverInv,
         UNCHANGED <<held, late, takeovers, withdrawn>>,
         \A x \in SAs : \A s \in HeldSas(MaxCount) \union Requests :
           s.key <= gen[x].key /\ Covers(x, s) => Covers(x, s)'
  PROVE  CoverInv'
<1>1. ASSUME NEW x \in SAs, takeovers[x] = Nothing, held[x] # Nothing,
             held[x].epoch > withdrawn[x]
      PROVE  Covers(x, held[x])'
  <2>1. Covers(x, held[x]) /\ held[x] \in HeldSas(MaxCount) /\ held[x].key <= gen[x].key
    BY <1>1, Numbers DEF CoverInv, HeldInv
  <2>2. held' = held
    OBVIOUS
  <2> QED BY <2>1, <2>2 DEF Covers
<1>2. ASSUME NEW c \in Conns, late[c] # Nothing, late[c].kind = "install",
             takeovers[late[c].sa] = Nothing,
             late[c].epoch > withdrawn[late[c].sa],
             held[late[c].sa] = Nothing \/ late[c].epoch > held[late[c].sa].epoch
      PROVE  Covers(late[c].sa, late[c])'
  <2>1. /\ late[c] \in Requests /\ late[c].sa \in SAs
        /\ Covers(late[c].sa, late[c]) /\ late[c].key <= gen[late[c].sa].key
    BY <1>2, Numbers, Fields DEF CoverInv, LateInv
  <2>2. late' = late
    OBVIOUS
  <2> QED BY <2>1, <2>2 DEF Covers
<1> QED BY <1>1, <1>2 DEF CoverInv

LEMMA MirrorWithdrawKeeps ==
  ASSUME Inv, NEW sa \in SAs, MirrorWithdraw(sa)
  PROVE  Inv'
<1> DEFINE r == Request("withdraw", sa)
<1>1. /\ r \in Requests /\ r # Nothing
      /\ r.kind = "withdraw" /\ r.sa = sa
      /\ r.epoch = gen[sa].epoch /\ r.key = gen[sa].key
      /\ r.count = sent[sa][gen[sa].key]
  <2>1. gen[sa].epoch >= 1
    BY Bounds, Numbers DEF Inv, MirrorWithdraw
  <2> QED BY <2>1, RequestType, RequestIsSomething DEF Inv
<1>2. /\ calls' = [calls EXCEPT ![sa] = r] /\ ~lost
      /\ withdrawn' = [withdrawn EXCEPT ![sa] = gen[sa].epoch]
      /\ up' = up \ {sa} /\ protected' = protected \ {sa}
      /\ UNCHANGED <<held, late, gen, sent, mirrored, lost, restarted, takeovers, faults>>
  BY DEF MirrorWithdraw, Call
<1> HIDE DEF r
<1>3. TypeOK'
  BY <1>1, <1>2 DEF Inv, TypeOK
<1>4. /\ withdrawn'[sa] = gen[sa].epoch
      /\ \A x \in SAs \ {sa} : withdrawn'[x] = withdrawn[x] /\ calls'[x] = calls[x]
      /\ calls'[sa] = r
      /\ \A x \in SAs : gen[x].epoch \in Int
  BY <1>2, Bounds, Numbers DEF Inv, TypeOK
<1>5. OwnerInv'
  BY <1>2 DEF Inv, OwnerInv
<1>6. mirrored[sa] <= sent[sa][gen[sa].key] /\ sent[sa][gen[sa].key] <= sent[sa][gen[sa].key]
  BY MirrorAssumption, Numbers DEF Inv, OwnerInv
<1>7. CallInv'
  <2> SUFFICES ASSUME NEW x \in SAs, calls'[x] # Nothing
               PROVE  CallInv!(x)'
    BY DEF CallInv
  <2>1. CASE x = sa
    BY <1>1, <1>2, <1>4, <1>6, <2>1 DEF Inv, CallInv
  <2>2. CASE x # sa
    BY <1>2, <1>4, <2>2 DEF Inv, CallInv
  <2> QED BY <2>1, <2>2
<1>8. LateInv'
  <2> SUFFICES ASSUME NEW c \in Conns, late'[c] # Nothing
               PROVE  LateInv!(c)'
    BY DEF LateInv
  <2>1. late'[c] = late[c] /\ late[c] \in Requests /\ late[c].sa \in SAs
    BY <1>2, Numbers, Fields DEF Inv
  <2>2. late[c].epoch <= gen[late[c].sa].epoch
    BY <1>2, <2>1 DEF Inv, LateInv
  <2>3. CASE late[c].sa = sa
    BY <1>2, <1>4, <2>1, <2>2, <2>3 DEF Inv, LateInv
  <2>4. CASE late[c].sa # sa
    BY <1>2, <1>4, <2>1, <2>4 DEF Inv, LateInv
  <2> QED BY <2>3, <2>4
<1>9. HeldInv' /\ ProtectedIsHeld'
  BY <1>2 DEF Inv, HeldInv, ProtectedIsHeld
<1>10. CoverInv'
  <2>1. ASSUME NEW x \in SAs, takeovers'[x] = Nothing, held'[x] # Nothing,
               held'[x].epoch > withdrawn'[x]
        PROVE  Covers(x, held[x])'
    <3>1. x # sa
      BY <1>2, <1>4, <2>1, Numbers, Fields, Bounds DEF Inv, HeldInv
    <3> QED BY <1>2, <1>4, <2>1, <3>1 DEF Inv, CoverInv, Covers
  <2>2. ASSUME NEW c \in Conns, late'[c] # Nothing, late'[c].kind = "install",
               takeovers'[late'[c].sa] = Nothing,
               late'[c].epoch > withdrawn'[late'[c].sa],
               held'[late'[c].sa] = Nothing
                 \/ late'[c].epoch > held'[late'[c].sa].epoch
        PROVE  Covers(late[c].sa, late[c])'
    <3>1. late'[c] = late[c] /\ late[c].sa \in SAs /\ late[c].epoch \in Int
      BY <1>2, <2>2, Numbers, Fields, Bounds DEF Inv
    <3>2. late[c].sa # sa
      BY <1>2, <1>4, <2>2, <3>1 DEF Inv, LateInv
    <3> QED BY <1>2, <1>4, <2>2, <3>1, <3>2 DEF Inv, CoverInv, Covers
  <2> QED BY <2>1, <2>2 DEF CoverInv
<1>11. NoNonceReuse'
  BY <1>2 DEF Inv, OwnerInv, NoNonceReuse
<1> QED BY <1>3, <1>5, <1>7, <1>8, <1>9, <1>10, <1>11 DEF Inv

LEMMA SendPacketKeeps ==
  ASSUME Inv, NEW sa \in SAs, SendPacket(sa)
  PROVE  Inv'
<1> DEFINE k == gen[sa].key
           m == mirrored[sa] + MaxLag
<1>1. k \in 0..MaxKeys /\ sent[sa][k] \in Nat /\ mirrored[sa] \in Nat /\ m \in Int
  BY Bounds, Numbers DEF Inv
<1>2. /\ ~lost /\ sa \in up /\ sent[sa][k] < Min({m, MaxCount})
      /\ sent' = [sent EXCEPT ![sa][k] = sent[sa][k] + 1]
      /\ UNCHANGED <<held, calls, late, up, gen, mirrored, protected, lost,
                     restarted, withdrawn, takeovers, faults>>
  BY DEF SendPacket
<1>3. sent[sa][k] + 1 <= m /\ sent[sa][k] + 1 <= MaxCount
  <2> HIDE DEF m, k
  <2> MaxCount \in Int
    BY Bounds
  <2>1. /\ Min({m, MaxCount}) \in {m, MaxCount}
        /\ Min({m, MaxCount}) <= m /\ Min({m, MaxCount}) <= MaxCount
    BY <1>1, MinOfTwo
  <2> QED BY <1>1, <1>2, <2>1, Bounds
<1>4. /\ \A x \in SAs \ {sa} : sent'[x] = sent[x]
      /\ \A j \in 0..MaxKeys : j # k => sent'[sa][j] = sent[sa][j]
      /\ sent'[sa][k] = sent[sa][k] + 1
  BY <1>1, <1>2 DEF Inv, TypeOK
<1>5. TypeOK'
  <2>1. sent[sa][k] + 1 \in 0..MaxCount
    BY <1>1, <1>3, Bounds
  <2>2. sent' \in [SAs -> [0..MaxKeys -> 0..MaxCount]]
    BY <1>1, <1>2, <2>1 DEF Inv, TypeOK
  <2> QED BY <1>2, <2>2 DEF Inv, TypeOK
<1> HIDE DEF k, m
<1>6. OwnerInv'
  <2>1. \A x \in SAs : gen'[x] = gen[x] /\ mirrored'[x] = mirrored[x]
    BY <1>2
  <2>2. mirrored[sa] <= sent'[sa][k] /\ sent'[sa][k] <= mirrored[sa] + MaxLag
    BY <1>1, <1>3, <1>4 DEF m, k, Inv, OwnerInv
  <2> QED BY <1>2, <1>4, <2>1, <2>2 DEF Inv, OwnerInv, k
<1>7. CallInv'
  <2> SUFFICES ASSUME NEW x \in SAs, calls'[x] # Nothing
               PROVE  CallInv!(x)'
    BY DEF CallInv
  <2>1. calls'[x] = calls[x] /\ calls[x].count \in Int
    BY <1>2, Numbers, Fields, Bounds DEF Inv
  <2>2. calls[x].count <= sent'[x][gen[x].key]
    BY <1>1, <1>4, <2>1, <1>2 DEF Inv, CallInv, k
  <2> QED BY <1>2, <2>1, <2>2 DEF Inv, CallInv
<1>8. LateInv' /\ HeldInv' /\ ProtectedIsHeld'
  BY <1>2 DEF Inv, LateInv, HeldInv, ProtectedIsHeld
<1>9. ASSUME NEW x \in SAs, NEW s \in HeldSas(MaxCount) \union Requests, Covers(x, s)
      PROVE  Covers(x, s)'
  <2>1. s.key \in 0..MaxKeys /\ s.count \in Int
    BY Fields, Bounds
  <2>2. CASE x = sa /\ s.key = k
    BY <1>1, <1>2, <1>3, <1>4, <1>9, <2>1, <2>2, Bounds DEF Covers, k, m
  <2>3. CASE ~(x = sa /\ s.key = k)
    BY <1>2, <1>4, <1>9, <2>1, <2>3 DEF Covers
  <2> QED BY <2>2, <2>3
<1>10. CoverInv'
  BY <1>2, <1>9, CoverKept DEF Inv
<1>11. NoNonceReuse'
  BY <1>2 DEF Inv, OwnerInv, NoNonceReuse
<1> QED BY <1>5, <1>6, <1>7, <1>8, <1>10, <1>11 DEF Inv

(* A new generation: no snapshot is of its keys yet. *)
LEMMA DeriveKeeps ==
  ASSUME Inv, NEW sa \in SAs, NEW epoch \in Int, Derive(sa, epoch), UNCHANGED faults,
         epoch = gen[sa].epoch + 1 \/ (epoch = gen[sa].epoch /\ sa \in up)
  PROVE  Inv'
<1> DEFINE k == gen[sa].key
           first == FirstCount(sa)
<1>1. /\ k \in 0..MaxKeys /\ k < MaxKeys /\ k + 1 \in 0..MaxKeys
      /\ gen[sa].epoch \in 0..MaxKeys /\ gen[sa].epoch <= k
      /\ epoch >= 1 /\ epoch <= k + 1 /\ epoch \in 0..MaxKeys
      /\ gen[sa].epoch <= epoch
      /\ sa \notin up => gen[sa].epoch < epoch
  BY Bounds, Numbers DEF Inv, OwnerInv, Derive
<1>2. first \in 0..MaxCount /\ first <= first + MaxLag
  BY Bounds DEF FirstCount
<1>3. /\ ~lost /\ calls[sa] = Nothing
      /\ gen' = [gen EXCEPT ![sa] = [epoch |-> epoch, key |-> k + 1]]
      /\ sent' = [sent EXCEPT ![sa][k + 1] = first]
      /\ mirrored' = [mirrored EXCEPT ![sa] = first]
      /\ up' = up \union {sa}
      /\ protected' = protected \ {sa}
      /\ UNCHANGED <<held, calls, late, restarted, withdrawn, lost, takeovers, faults>>
  BY DEF Derive
<1>4. /\ gen'[sa].epoch = epoch /\ gen'[sa].key = k + 1
      /\ mirrored'[sa] = first /\ sent'[sa][k + 1] = first
      /\ \A j \in 0..k : sent'[sa][j] = sent[sa][j]
      /\ \A x \in SAs \ {sa} : /\ gen'[x] = gen[x] /\ sent'[x] = sent[x]
                               /\ mirrored'[x] = mirrored[x]
  <2>1. sent'[sa] = [sent[sa] EXCEPT ![k + 1] = first]
    BY <1>3 DEF Inv, TypeOK
  <2>2. sent'[sa][k + 1] = first
    BY <1>1, <2>1 DEF Inv, TypeOK
  <2>3. \A j \in 0..k : j \in 0..MaxKeys /\ j # k + 1
    BY <1>1, Bounds
  <2> HIDE DEF k, first
  <2>4. \A j \in 0..k : sent'[sa][j] = sent[sa][j]
    BY <2>1, <2>3 DEF Inv, TypeOK
  <2> QED BY <1>3, <2>2, <2>4 DEF Inv, TypeOK
<1>5. TypeOK'
  <2>1. gen' \in [SAs -> [epoch : 0..MaxKeys, key : 0..MaxKeys]]
    BY <1>1, <1>3 DEF Inv, TypeOK
  <2>2. sent' \in [SAs -> [0..MaxKeys -> 0..MaxCount]]
    BY <1>1, <1>2, <1>3 DEF Inv, TypeOK
  <2>3. mirrored' \in [SAs -> 0..MaxCount]
    BY <1>2, <1>3 DEF Inv, TypeOK
  <2> QED BY <1>3, <2>1, <2>2, <2>3 DEF Inv, TypeOK
<1> HIDE DEF k, first
<1>6. OwnerInv'
  <2> SUFFICES ASSUME NEW x \in SAs PROVE OwnerInv!2!(x)'
    BY <1>3 DEF Inv, OwnerInv
  <2>1. CASE x = sa
    BY <1>1, <1>2, <1>3, <1>4, <2>1, Bounds DEF Inv, OwnerInv
  <2>2. CASE x # sa
    BY <1>3, <1>4, <2>2 DEF Inv, OwnerInv
  <2> QED BY <2>1, <2>2
<1>7. CallInv'
  BY <1>3, <1>4 DEF Inv, CallInv
<1>8. LateInv'
  <2> SUFFICES ASSUME NEW c \in Conns, late'[c] # Nothing
               PROVE  LateInv!(c)'
    BY DEF LateInv
  <2>1. /\ late'[c] = late[c] /\ late[c].sa \in SAs /\ late[c] # Nothing
        /\ late[c].epoch \in Int /\ late[c].key \in Int
    BY <1>3, Numbers, Fields, Bounds DEF Inv
  <2>2. CASE late[c].sa = sa
    BY <1>1, <1>3, <1>4, <2>1, <2>2, Bounds DEF Inv, LateInv, k
  <2>3. CASE late[c].sa # sa
    BY <1>3, <1>4, <2>1, <2>3 DEF Inv, LateInv
  <2> QED BY <2>2, <2>3
<1>9. HeldInv'
  <2> SUFFICES ASSUME NEW x \in SAs, held'[x] # Nothing PROVE HeldInv!(x)'
    BY DEF HeldInv
  <2>1. held'[x] = held[x] /\ held[x].epoch \in Int /\ held[x].key \in Int
    BY <1>3, Numbers, Fields, Bounds DEF Inv
  <2>2. CASE x = sa
    BY <1>1, <1>3, <1>4, <2>1, <2>2, Bounds DEF Inv, HeldInv, k
  <2>3. CASE x # sa
    BY <1>3, <1>4, <2>1, <2>3 DEF Inv, HeldInv
  <2> QED BY <2>2, <2>3
<1>10. ProtectedIsHeld'
  BY <1>3, <1>4 DEF Inv, TypeOK, ProtectedIsHeld
<1>11. ASSUME NEW x \in SAs, NEW s \in HeldSas(MaxCount) \union Requests,
              s.key <= gen[x].key, Covers(x, s)
       PROVE  Covers(x, s)'
  <2>1. s.key \in 0..MaxKeys
    BY Fields, Bounds
  <2>2. CASE x = sa
    BY <1>1, <1>4, <1>11, <2>1, <2>2, Bounds DEF Covers, k
  <2>3. CASE x # sa
    BY <1>4, <1>11, <2>3 DEF Covers
  <2> QED BY <2>2, <2>3
<1>12. CoverInv'
  BY <1>3, <1>11, CoverKept DEF Inv
<1>13. NoNonceReuse'
  BY <1>3 DEF Inv, OwnerInv, NoNonceReuse
<1> QED BY <1>5, <1>6, <1>7, <1>8, <1>9, <1>10, <1>12, <1>13 DEF Inv

LEMMA RekeyKeeps ==
  ASSUME Inv, NEW sa \in SAs, Rekey(sa)
  PROVE  Inv'
<1>1. gen[sa].epoch + 1 \in Int
  BY Bounds, Numbers DEF Inv
<1> QED BY <1>1, DeriveKeeps DEF Rekey

LEMMA ReuseEpochKeeps ==
  ASSUME Inv, NEW sa \in SAs, ReuseEpoch(sa)
  PROVE  Inv'
<1>1. gen[sa].epoch \in Int
  BY Bounds, Numbers DEF Inv
<1> QED BY <1>1, DeriveKeeps DEF ReuseEpoch

(* Connections. *)
LEMMA AbandonKeeps ==
  ASSUME Inv, NEW sa \in SAs, NEW c \in Conns, Abandon(sa, c)
  PROVE  Inv'
<1>1. /\ calls[sa] # Nothing /\ calls[sa] \in Requests
      /\ late' = [late EXCEPT ![c] = calls[sa]]
      /\ UNCHANGED <<held, calls, up, gen, sent, mirrored, protected, lost,
                     restarted, withdrawn, takeovers>>
      /\ faults' \in 0..MaxFaults
  BY Numbers, Faulted DEF Inv, Abandon, owner
<1>2. late'[c] = calls[sa] /\ \A d \in Conns \ {c} : late'[d] = late[d]
  BY <1>1 DEF Inv, TypeOK
<1>3. TypeOK'
  BY <1>1 DEF Inv, TypeOK
<1>4. /\ calls[sa].sa = sa /\ ~lost
      /\ calls[sa].epoch = gen[sa].epoch /\ calls[sa].key = gen[sa].key
      /\ mirrored[sa] <= calls[sa].count
      /\ calls[sa].kind = "install" => sa \notin protected
      /\ calls[sa].kind = "withdraw" => sa \notin up /\ withdrawn[sa] = gen[sa].epoch
  BY <1>1 DEF Inv, CallInv
<1>5. OwnerInv' /\ CallInv' /\ HeldInv' /\ ProtectedIsHeld' /\ NoNonceReuse'
  BY <1>1 DEF Inv, OwnerInv, CallInv, HeldInv, ProtectedIsHeld, NoNonceReuse
<1>6. LateInv'
  <2> SUFFICES ASSUME NEW d \in Conns, late'[d] # Nothing
               PROVE  LateInv!(d)'
    BY DEF LateInv
  <2>1. CASE d = c
    BY <1>1, <1>2, <1>4, <2>1, Bounds, Numbers DEF Inv, LateInv
  <2>2. CASE d # c
    BY <1>1, <1>2, <2>2 DEF Inv, LateInv
  <2> QED BY <2>1, <2>2
<1>7. CoverInv'
  <2>1. Covers(sa, calls[sa])
    BY <1>1, <1>4, Bounds, Numbers, Fields DEF Inv, OwnerInv, Covers
  <2>2. \A x, s : Covers(x, s)' <=> Covers(x, s)
    BY <1>1 DEF Covers
  <2>3. CoverInv!1'
    BY <1>1, <2>2 DEF Inv, CoverInv
  <2>4. ASSUME NEW d \in Conns PROVE CoverInv!2!(d)'
    <3>1. CASE d = c
      BY <1>1, <1>2, <1>4, <2>1, <3>1 DEF Covers
    <3>2. CASE d # c
      BY <1>1, <1>2, <3>2 DEF Inv, CoverInv, Covers
    <3> QED BY <3>1, <3>2
  <2> QED BY <2>3, <2>4 DEF CoverInv
<1> QED BY <1>3, <1>5, <1>6, <1>7 DEF Inv

LEMMA DropLateKeeps ==
  ASSUME Inv, NEW c \in Conns, DropLate(c)
  PROVE  Inv'
<1>1. /\ late' = [late EXCEPT ![c] = Nothing]
      /\ UNCHANGED <<held, calls, up, gen, sent, mirrored, protected, lost,
                     restarted, withdrawn, takeovers, faults>>
  BY DEF DropLate, owner
<1>2. TypeOK'
  BY <1>1 DEF Inv, TypeOK
<1>3. \A d \in Conns : late'[d] # Nothing => late'[d] = late[d]
  BY <1>1 DEF Inv, TypeOK
<1>4. OwnerInv' /\ CallInv' /\ HeldInv' /\ ProtectedIsHeld' /\ NoNonceReuse'
  BY <1>1 DEF Inv, OwnerInv, CallInv, HeldInv, ProtectedIsHeld, NoNonceReuse
<1>5. LateInv'
  BY <1>1, <1>3 DEF Inv, LateInv
<1>6. CoverInv'
  BY <1>1, <1>3 DEF Inv, CoverInv, Covers
<1> QED BY <1>2, <1>4, <1>5, <1>6 DEF Inv

LEMMA RestartStandbyKeeps ==
  ASSUME Inv, RestartStandby
  PROVE  Inv'
<1>1. /\ held' = [sa \in SAs |-> Nothing] /\ late' = [c \in Conns |-> Nothing]
      /\ restarted' = restarted \union Holding
      /\ UNCHANGED <<calls, up, gen, sent, mirrored, protected, lost, withdrawn,
                     takeovers>>
      /\ faults' \in 0..MaxFaults
  BY Faulted DEF Inv, RestartStandby, owner
<1>2. TypeOK'
  BY <1>1 DEF Inv, TypeOK, Holding
<1>3. OwnerInv' /\ CallInv' /\ NoNonceReuse'
  BY <1>1 DEF Inv, OwnerInv, CallInv, NoNonceReuse
<1>4. LateInv' /\ HeldInv' /\ CoverInv'
  BY <1>1 DEF LateInv, HeldInv, CoverInv
<1>5. ProtectedIsHeld'
  BY <1>1 DEF Inv, TypeOK, ProtectedIsHeld, Holding
<1> QED BY <1>2, <1>3, <1>4, <1>5 DEF Inv

(* A late request is served: custody of its SA changes, or nothing does.   *)
LEMMA ServeLateKeeps ==
  ASSUME Inv, NEW c \in Conns, ServeLate(c)
  PROVE  Inv'
<1> DEFINE r == late[c]
           sa == r.sa
           h == held[sa]
<1>1. /\ r # Nothing /\ r \in Requests /\ sa \in SAs
      /\ r.epoch \in Int /\ r.key \in Int /\ r.count \in Int
      /\ r.kind \in {"install", "checkpoint", "withdraw"}
  BY Numbers, Fields, Bounds DEF Inv, ServeLate
<1>2. PICK g \in HeldSas(MaxCount) \union {Nothing} :
        /\ held' = [held EXCEPT ![sa] = g]
        /\ Fresh(h, g, r) \/ Merges(h, g, r) \/ Vacates(h, g, r)
           \/ Keeps(h, g, r, Serve(r).code)
  BY <1>1, ServeShape DEF Inv, TypeOK, ServeLate
<1>3. /\ restarted' = {x \in restarted : held'[x] = Nothing}
      /\ late' = [late EXCEPT ![c] = Nothing]
      /\ UNCHANGED <<calls, up, gen, sent, mirrored, protected, lost, withdrawn,
                     takeovers, faults>>
  BY DEF ServeLate, owner
<1>4. held'[sa] = g /\ \A x \in SAs \ {sa} : held'[x] = held[x]
  BY <1>1, <1>2 DEF Inv, TypeOK
<1>5. \A d \in Conns : late'[d] # Nothing => late'[d] = late[d]
  BY <1>3 DEF Inv, TypeOK
<1>6. /\ h # Nothing => /\ h \in HeldSas(MaxCount)
                        /\ h.epoch \in Int /\ h.key \in Int /\ h.count \in Int
      /\ gen[sa].epoch \in Int /\ gen[sa].key \in Int /\ withdrawn[sa] \in Int
  BY <1>1, Numbers, Fields, Bounds DEF Inv
<1>7. /\ HeldSa(r).epoch = r.epoch /\ HeldSa(r).key = r.key /\ HeldSa(r).count = r.count
      /\ h # Nothing => /\ Merged(h, r).epoch = h.epoch /\ Merged(h, r).key = h.key
                        /\ Merged(h, r).count >= h.count /\ Merged(h, r).count \in Int
  BY <1>1, <1>6, HeldSaFields, MergedFields, Bounds
<1>8. /\ r.epoch <= gen[sa].epoch /\ r.key <= gen[sa].key
      /\ r.kind = "withdraw" => /\ r.epoch <= withdrawn[sa]
                                /\ r.epoch < gen[sa].epoch \/ sa \notin up
      /\ r.kind = "install" => sa \notin protected \intersect restarted
  BY <1>1 DEF Inv, LateInv
<1>9. TypeOK'
  BY <1>2, <1>3 DEF Inv, TypeOK
<1>10. OwnerInv' /\ CallInv' /\ NoNonceReuse'
  BY <1>3 DEF Inv, OwnerInv, CallInv, NoNonceReuse
<1>11. LateInv'
  BY <1>3, <1>5 DEF Inv, LateInv
<1> HIDE DEF r, sa, h
<1>12. g # Nothing => g.epoch <= gen[sa].epoch /\ g.key <= gen[sa].key
  BY <1>1, <1>2, <1>7, <1>8 DEF Inv, HeldInv, Fresh, Merges, Vacates, Keeps, h
<1>13. HeldInv'
  <2> SUFFICES ASSUME NEW x \in SAs, held'[x] # Nothing PROVE HeldInv!(x)'
    BY DEF HeldInv
  <2>1. CASE x = sa
    BY <1>3, <1>4, <1>12, <2>1
  <2>2. CASE x # sa
    BY <1>3, <1>4, <2>2 DEF Inv, HeldInv
  <2> QED BY <2>1, <2>2
<1>14. ProtectedIsHeld'
  <2> SUFFICES ASSUME NEW x \in protected, x \notin restarted', takeovers[x] = Nothing
               PROVE  /\ held'[x] # Nothing
                      /\ held'[x].epoch = gen[x].epoch /\ held'[x].key = gen[x].key
                      /\ held'[x].count >= mirrored[x]
    BY <1>3 DEF ProtectedIsHeld
  <2>0. x \in SAs
    BY DEF Inv, TypeOK
  <2>1. CASE x # sa
    <3>1. x \notin restarted
      BY <1>3, <1>4, <2>0, <2>1 DEF Inv, HeldInv
    <3> QED BY <1>3, <1>4, <2>0, <2>1, <3>1 DEF Inv, ProtectedIsHeld
  <2>2. CASE x = sa /\ x \in restarted
    <3>1. h = Nothing
      BY <2>0, <2>2 DEF Inv, HeldInv, h
    <3>2. g # Nothing
      BY <1>3, <1>4, <2>2
    <3>3. r.kind = "install"
      BY <1>2, <3>1, <3>2 DEF Fresh, Merges, Vacates, Keeps
    <3> QED BY <1>8, <2>2, <3>3
  <2>3. CASE x = sa /\ x \notin restarted
    <3>1. /\ h # Nothing /\ h.epoch = gen[sa].epoch /\ h.key = gen[sa].key
          /\ h.count >= mirrored[sa] /\ mirrored[sa] \in Int
      BY <2>0, <2>3, Numbers, Bounds DEF Inv, ProtectedIsHeld, h
    <3>2. ~Fresh(h, g, r)
      BY <1>1, <1>6, <1>8, <3>1 DEF Fresh
    <3>3. ~Vacates(h, g, r)
      BY <1>1, <1>6, <1>8, <2>3, <3>1 DEF Vacates, Inv, OwnerInv
    <3>4. CASE Merges(h, g, r)
      BY <1>4, <1>6, <1>7, <2>3, <3>1, <3>4, HeldIsSomething, MergedFields, <1>1 DEF Merges
    <3>5. CASE Keeps(h, g, r, Serve(r).code)
      BY <1>4, <2>3, <3>1, <3>5 DEF Keeps
    <3> QED BY <1>2, <3>2, <3>3, <3>4, <3>5
  <2> QED BY <2>1, <2>2, <2>3
<1>15. \A x, s : Covers(x, s)' <=> Covers(x, s)
  BY <1>3 DEF Covers
<1>16. CoverInv'
  <2>1. ASSUME NEW x \in SAs, takeovers[x] = Nothing, held'[x] # Nothing,
               held'[x].epoch > withdrawn[x]
        PROVE  Covers(x, held'[x])
    <3>1. CASE x # sa
      BY <1>4, <2>1, <3>1 DEF Inv, CoverInv
    <3>2. CASE x = sa /\ Fresh(h, g, r)
      <4>1. Covers(sa, r)
        BY <1>1, <1>4, <1>7, <2>1, <3>2 DEF Fresh, Inv, CoverInv, h, r, sa
      <4> QED BY <1>4, <1>7, <3>2, <4>1 DEF Fresh, Covers
    <3>3. CASE x = sa /\ Merges(h, g, r)
      <4>1. Covers(sa, h)
        BY <1>4, <1>7, <2>1, <3>3 DEF Merges, Inv, CoverInv, h
      <4>2. sent[sa][h.key] \in Int /\ mirrored[sa] \in Int
        BY <1>1, <1>6, <3>3, Numbers, Fields, Bounds DEF Inv, Merges
      <4> QED BY <1>4, <1>6, <1>7, <3>3, <4>1, <4>2, Bounds DEF Merges, Covers
    <3>4. CASE x = sa /\ Keeps(h, g, r, Serve(r).code)
      BY <1>4, <2>1, <3>4 DEF Keeps, Inv, CoverInv, h
    <3> QED BY <1>2, <1>4, <2>1, <3>1, <3>2, <3>3, <3>4 DEF Vacates
  <2>2. ASSUME NEW d \in Conns, late'[d] # Nothing, late[d].kind = "install",
               takeovers[late[d].sa] = Nothing,
               late[d].epoch > withdrawn[late[d].sa],
               held'[late[d].sa] = Nothing \/ late[d].epoch > held'[late[d].sa].epoch
        PROVE  Covers(late[d].sa, late[d])
    <3>1. /\ late[d] # Nothing /\ late[d].sa \in SAs /\ late[d].epoch \in Int
      BY <1>5, <2>2, Numbers, Fields, Bounds DEF Inv
    <3>2. CASE late[d].sa # sa
      BY <1>4, <2>2, <3>1, <3>2 DEF Inv, CoverInv
    <3>3. CASE late[d].sa = sa
      <4>1. h = Nothing \/ late[d].epoch > h.epoch
        <5>1. CASE Fresh(h, g, r)
          BY <1>1, <1>4, <1>6, <1>7, <2>2, <3>1, <3>3, <5>1, HeldSaFields, HeldIsSomething
             DEF Fresh
        <5>2. CASE Merges(h, g, r)
          BY <1>1, <1>4, <1>6, <1>7, <2>2, <3>1, <3>3, <5>2, MergedFields, HeldIsSomething
             DEF Merges
        <5>3. CASE Vacates(h, g, r)
          BY <1>1, <1>6, <1>8, <2>2, <3>1, <3>3, <5>3 DEF Vacates
        <5>4. CASE Keeps(h, g, r, Serve(r).code)
          BY <1>4, <2>2, <3>3, <5>4 DEF Keeps
        <5> QED BY <1>2, <5>1, <5>2, <5>3, <5>4
      <4> QED BY <2>2, <3>1, <3>3, <4>1 DEF Inv, CoverInv, h
    <3> QED BY <3>2, <3>3
  <2>3. \A d \in Conns : late'[d] # Nothing => late'[d] = late[d]
    BY <1>5
  <2>4. takeovers' = takeovers /\ withdrawn' = withdrawn
    BY <1>3
  <2> QED BY <1>15, <2>1, <2>2, <2>3, <2>4 DEF CoverInv, Covers
<1> QED BY <1>9, <1>10, <1>11, <1>13, <1>14, <1>16 DEF Inv

(* A call is answered: the owner learns of the custody it just obtained.   *)
LEMMA ExchangeKeeps ==
  ASSUME Inv, NEW sa \in SAs, Exchange(sa)
  PROVE  Inv'
<1> DEFINE r == calls[sa]
           h == held[sa]
           code == Serve(r).code
<1>1. /\ r # Nothing /\ r \in Requests
      /\ r.epoch \in Int /\ r.key \in Int /\ r.count \in 0..MaxCount /\ r.count \in Int
      /\ r.kind \in {"install", "checkpoint", "withdraw"}
  BY Numbers, Fields, Bounds DEF Inv, Exchange
<1>2. /\ ~lost /\ r.sa = sa /\ r.epoch = gen[sa].epoch /\ r.key = gen[sa].key
      /\ mirrored[sa] <= r.count /\ r.count <= sent[sa][gen[sa].key]
      /\ r.kind = "install" => sa \in up \ protected
      /\ r.kind = "checkpoint" => sa \in protected
      /\ r.kind = "withdraw" => sa \notin up /\ withdrawn[sa] = gen[sa].epoch
  BY <1>1 DEF Inv, CallInv
<1>3. PICK g \in HeldSas(MaxCount) \union {Nothing} :
        /\ Serve(r).custody = [held EXCEPT ![sa] = g]
        /\ Fresh(h, g, r) \/ Merges(h, g, r) \/ Vacates(h, g, r) \/ Keeps(h, g, r, code)
  BY <1>1, <1>2, ServeShape DEF Inv, TypeOK
<1>4. /\ held' = [held EXCEPT ![sa] = g]
      /\ Conclude(r, code)
      /\ restarted' = IF Serve(r).custody[sa] # Nothing THEN restarted \ {sa} ELSE restarted
      /\ calls' = [calls EXCEPT ![sa] = Nothing]
      /\ UNCHANGED <<late, up, gen, sent, lost, withdrawn, takeovers, faults>>
  BY <1>3 DEF Exchange
<1>5. held'[sa] = g /\ \A x \in SAs \ {sa} : held'[x] = held[x]
  BY <1>4 DEF Inv, TypeOK
<1>6. restarted' = IF g # Nothing THEN restarted \ {sa} ELSE restarted
  BY <1>3, <1>4 DEF Inv, TypeOK
<1>7. /\ h # Nothing => /\ h \in HeldSas(MaxCount)
                        /\ h.epoch \in Int /\ h.key \in Int /\ h.count \in Int
      /\ gen[sa].epoch \in Int /\ gen[sa].key \in Int /\ gen[sa].key \in 0..MaxKeys
      /\ withdrawn[sa] \in Int /\ mirrored[sa] \in Int /\ sent[sa][gen[sa].key] \in Int
  BY Numbers, Fields, Bounds DEF Inv
<1>8. /\ HeldSa(r).epoch = r.epoch /\ HeldSa(r).key = r.key /\ HeldSa(r).count = r.count
      /\ HeldSa(r) # Nothing
      /\ h # Nothing => /\ Merged(h, r).epoch = h.epoch /\ Merged(h, r).key = h.key
                        /\ Merged(h, r).count >= h.count /\ Merged(h, r).count \in Int
                        /\ Merged(h, r).count >= r.count
                        /\ Merged(h, r) # Nothing
  BY <1>1, <1>7, HeldSaFields, MergedFields, HeldIsSomething, Bounds
<1>9. Max({mirrored[sa], r.count}) = r.count
  <2>1. /\ Max({mirrored[sa], r.count}) \in {mirrored[sa], r.count}
        /\ Max({mirrored[sa], r.count}) >= mirrored[sa]
        /\ Max({mirrored[sa], r.count}) >= r.count
    BY <1>1, <1>7, MaxOfTwo
  <2> HIDE DEF r
  <2> QED BY <1>1, <1>2, <1>7, <2>1
<1>10. mirrored' = IF code = "accepted" /\ r.kind # "withdraw"
                   THEN [mirrored EXCEPT ![sa] = r.count] ELSE mirrored
  BY <1>2, <1>4, <1>9 DEF Conclude
<1>11. /\ mirrored' \in [SAs -> 0..MaxCount]
       /\ \A x \in SAs \ {sa} : mirrored'[x] = mirrored[x]
       /\ mirrored'[sa] = IF code = "accepted" /\ r.kind # "withdraw"
                          THEN r.count ELSE mirrored[sa]
  BY <1>1, <1>10 DEF Inv, TypeOK
<1>12. /\ code # "accepted" => protected' = protected \ {sa}
       /\ code = "accepted" /\ r.kind = "install" => protected' = protected \union {sa}
       /\ code = "accepted" /\ r.kind # "install" => protected' = protected
  BY <1>2, <1>4 DEF Conclude
<1> HIDE DEF r, h, code
<1>13. /\ mirrored'[sa] \in Int /\ mirrored'[sa] <= r.count
       /\ mirrored[sa] <= mirrored'[sa] /\ mirrored'[sa] <= sent[sa][gen[sa].key]
  BY <1>1, <1>2, <1>7, <1>11
<1>14. TypeOK'
  <2>1. held' \in [SAs -> HeldSas(MaxCount) \union {Nothing}]
    BY <1>3, <1>4 DEF Inv, TypeOK
  <2>2. protected' \subseteq SAs /\ restarted' \subseteq SAs
    BY <1>6, <1>12 DEF Inv, TypeOK
  <2> QED BY <1>4, <1>11, <2>1, <2>2 DEF Inv, TypeOK
<1>15. OwnerInv'
  <2>1. protected' \subseteq up
    BY <1>2, <1>12 DEF Inv, OwnerInv
  <2> SUFFICES ASSUME NEW x \in SAs PROVE OwnerInv!2!(x)'
    BY <1>4, <2>1 DEF OwnerInv
  <2>2. CASE x = sa
    BY <1>4, <1>7, <1>13, <2>2, Bounds DEF Inv, OwnerInv
  <2>3. CASE x # sa
    BY <1>4, <1>11, <2>3 DEF Inv, OwnerInv
  <2> QED BY <2>2, <2>3
<1>16. CallInv'
  <2> SUFFICES ASSUME NEW x \in SAs, calls'[x] # Nothing PROVE CallInv!(x)'
    BY DEF CallInv
  <2>1. x # sa /\ calls'[x] = calls[x]
    BY <1>4 DEF Inv, TypeOK
  <2>2. x \in protected' <=> x \in protected
    BY <1>12, <2>1
  <2> QED BY <1>4, <1>11, <2>1, <2>2 DEF Inv, CallInv
<1>17. code = "accepted" /\ r.kind # "withdraw" =>
         /\ g # Nothing /\ g.epoch = gen[sa].epoch /\ g.key = gen[sa].key
         /\ g.count >= mirrored'[sa]
  <2> SUFFICES ASSUME code = "accepted", r.kind # "withdraw"
               PROVE  /\ g # Nothing /\ g.epoch = gen[sa].epoch /\ g.key = gen[sa].key
                      /\ g.count >= mirrored'[sa]
    OBVIOUS
  <2>1. CASE Fresh(h, g, r)
    BY <1>1, <1>2, <1>8, <1>11, <2>1 DEF Fresh
  <2>2. CASE Merges(h, g, r)
    <3>1. h.key = gen[sa].key
      <4>1. CASE r.kind = "install"
        BY <1>2, <2>2, <4>1 DEF Merges
      <4>2. CASE r.kind = "checkpoint"
        <5>1. sa \in protected \ restarted /\ takeovers[sa] = Nothing
          BY <1>2, <2>2, <4>2 DEF Inv, HeldInv, OwnerInv, Merges, h
        <5> QED BY <5>1 DEF Inv, ProtectedIsHeld, h
      <4> QED BY <1>1, <4>1, <4>2
    <3> QED BY <1>1, <1>2, <1>8, <1>11, <2>2, <3>1 DEF Merges
  <2> QED BY <1>3, <2>1, <2>2 DEF Vacates, Keeps
<1>18. LateInv'
  <2> SUFFICES ASSUME NEW c \in Conns, late[c] # Nothing, late[c].kind = "install",
                      late[c].sa \in protected', late[c].sa \in restarted'
               PROVE  FALSE
    BY <1>4 DEF Inv, LateInv
  <2>1. late[c].sa \in restarted
    BY <1>6
  <2>2. late[c].sa \notin protected
    BY <2>1 DEF Inv, LateInv
  <2>3. late[c].sa = sa /\ code = "accepted" /\ r.kind = "install"
    BY <1>12, <2>2
  <2> QED BY <1>6, <1>17, <2>3
<1>19. g # Nothing => g.epoch <= gen[sa].epoch /\ g.key <= gen[sa].key
  BY <1>1, <1>2, <1>3, <1>7, <1>8 DEF Inv, HeldInv, Fresh, Merges, Vacates, Keeps, h
<1>20. HeldInv'
  <2> SUFFICES ASSUME NEW x \in SAs, held'[x] # Nothing PROVE HeldInv!(x)'
    BY DEF HeldInv
  <2>1. CASE x = sa
    BY <1>4, <1>5, <1>6, <1>19, <2>1
  <2>2. CASE x # sa
    BY <1>4, <1>5, <1>6, <2>2 DEF Inv, HeldInv
  <2> QED BY <2>1, <2>2
<1>21. ProtectedIsHeld'
  <2> SUFFICES ASSUME NEW x \in protected', x \notin restarted', takeovers[x] = Nothing
               PROVE  /\ held'[x] # Nothing
                      /\ held'[x].epoch = gen[x].epoch /\ held'[x].key = gen[x].key
                      /\ held'[x].count >= mirrored'[x]
    BY <1>4 DEF ProtectedIsHeld
  <2>1. CASE x # sa
    <3>1. x \in protected \ restarted /\ x \in SAs
      BY <1>6, <1>12, <2>1 DEF Inv, TypeOK
    <3> QED BY <1>5, <1>11, <2>1, <3>1 DEF Inv, ProtectedIsHeld
  <2>2. CASE x = sa
    <3>1. code = "accepted"
      BY <1>12, <2>2
    <3>2. r.kind # "withdraw"
      BY <1>2, <1>12, <2>2, <3>1 DEF Inv, OwnerInv
    <3> QED BY <1>5, <1>17, <2>2, <3>1, <3>2
  <2> QED BY <2>1, <2>2
<1>22. ASSUME NEW x \in SAs, x # sa, NEW s
       PROVE  Covers(x, s)' <=> Covers(x, s)
  BY <1>4, <1>11, <1>22 DEF Covers
<1>23. ASSUME g # Nothing, takeovers[sa] = Nothing, g.epoch > withdrawn[sa]
       PROVE  Covers(sa, g)'
  <2>1. g \in HeldSas(MaxCount) /\ g.count \in Int
    BY <1>3, <1>23, Fields, Bounds
  <2>2. CASE Fresh(h, g, r) \/ (Merges(h, g, r) /\ h.key = gen[sa].key)
    <3>1. g.key = gen[sa].key /\ g.count >= r.count
      BY <1>1, <1>2, <1>8, <2>2 DEF Fresh, Merges
    <3>2. sent[sa][gen[sa].key] <= mirrored[sa] + MaxLag
      BY DEF Inv, OwnerInv
    <3>3. sent[sa][gen[sa].key] <= g.count + MaxLag /\ mirrored'[sa] <= g.count
      BY <1>1, <1>2, <1>7, <1>13, <2>1, <3>1, <3>2, Bounds
    <3> QED BY <1>4, <3>1, <3>3 DEF Covers
  <2>3. CASE Merges(h, g, r) /\ h.key # gen[sa].key
    <3>1. r.kind = "checkpoint"
      BY <1>1, <1>2, <2>3 DEF Merges
    <3>2. sa \in protected \ restarted
      BY <1>2, <2>3, <3>1 DEF Inv, HeldInv, Merges, h
    <3> QED BY <1>23, <2>3, <3>2 DEF Inv, ProtectedIsHeld, h
  <2>4. CASE Keeps(h, g, r, code)
    <3>1. Covers(sa, h)
      BY <1>23, <2>4 DEF Inv, CoverInv, Keeps, h
    <3>2. mirrored'[sa] = mirrored[sa]
      BY <1>11, <2>4 DEF Keeps
    <3> QED BY <1>4, <2>4, <3>1, <3>2 DEF Covers, Keeps
  <2> QED BY <1>3, <1>23, <2>2, <2>3, <2>4 DEF Vacates
<1>24. CoverInv'
  <2>1. ASSUME NEW x \in SAs, takeovers[x] = Nothing, held'[x] # Nothing,
               held'[x].epoch > withdrawn[x]
        PROVE  Covers(x, held[x])'
    <3>1. CASE x = sa
      <4>1. Covers(sa, g)'
        BY <1>5, <1>23, <2>1, <3>1
      <4> QED BY <1>5, <3>1, <4>1 DEF Covers
    <3>2. CASE x # sa
      <4>1. Covers(x, held[x])
        BY <1>5, <2>1, <3>2 DEF Inv, CoverInv
      <4> QED BY <1>4, <1>5, <1>11, <3>2, <4>1 DEF Covers
    <3> QED BY <3>1, <3>2
  <2>2. ASSUME NEW d \in Conns, late[d] # Nothing, late[d].kind = "install",
               takeovers[late[d].sa] = Nothing,
               late[d].epoch > withdrawn[late[d].sa],
               held'[late[d].sa] = Nothing \/ late[d].epoch > held'[late[d].sa].epoch
        PROVE  Covers(late[d].sa, late[d])'
    <3>1. /\ late[d].sa \in SAs /\ late[d].epoch \in Int
          /\ late[d].epoch <= gen[late[d].sa].epoch
      BY <2>2, Numbers, Fields, Bounds DEF Inv, LateInv
    <3>2. CASE late[d].sa # sa
      <4>1. Covers(late[d].sa, late[d])
        BY <1>5, <2>2, <3>1, <3>2 DEF Inv, CoverInv
      <4> QED BY <1>4, <1>11, <3>1, <3>2, <4>1 DEF Covers
    <3>3. CASE late[d].sa = sa
      <4>1. ~Fresh(h, g, r)
        BY <1>2, <1>5, <1>7, <1>8, <2>2, <3>1, <3>3 DEF Fresh
      <4>2. ~Merges(h, g, r)
        BY <1>2, <1>5, <1>7, <1>8, <2>2, <3>1, <3>3 DEF Merges
      <4>3. ~Vacates(h, g, r)
        BY <1>2, <1>7, <2>2, <3>1, <3>3 DEF Vacates
      <4>4. Keeps(h, g, r, code)
        BY <1>3, <4>1, <4>2, <4>3
      <4>5. mirrored'[sa] = mirrored[sa] /\ g = h
        BY <1>11, <4>4 DEF Keeps
      <4>6. Covers(late[d].sa, late[d])
        BY <1>5, <2>2, <3>3, <4>5 DEF Inv, CoverInv, h
      <4> QED BY <1>4, <3>3, <4>5, <4>6 DEF Covers
    <3> QED BY <3>2, <3>3
  <2>3. late' = late /\ takeovers' = takeovers /\ withdrawn' = withdrawn
    BY <1>4
  <2> QED BY <2>1, <2>2, <2>3 DEF CoverInv
<1>25. NoNonceReuse'
  BY <1>4 DEF Inv, NoNonceReuse
<1> QED BY <1>14, <1>15, <1>16, <1>18, <1>20, <1>21, <1>24, <1>25 DEF Inv

(* A takeover starts a jump beyond custody, and a jump is no smaller than  *)
(* what the owner may have sent beyond it.                                 *)
LEMMA TakeForRepinKeeps ==
  ASSUME Inv, NEW sa \in SAs, NEW jump \in Jumps, NEW lag \in Lags,
         TakeForRepin(sa, jump, lag)
  PROVE  Inv'
<1> DEFINE h == held[sa]
           next == h.count + jump
           t == [h EXCEPT !.count = next]
<1>1. /\ h # Nothing /\ h \in HeldSas(MaxCount) /\ h.epoch \in 1..MaxKeys
      /\ h.key \in 1..MaxKeys /\ h.count \in 0..MaxCount
  BY Numbers, Fields, Bounds DEF Inv, TakeForRepin, Takeover
<1>2. jump \in Nat /\ jump >= MaxLag
  BY MirrorAssumption
<1>3. next \in 0..CounterMax
  BY <1>1, <1>2, Bounds DEF TakeForRepin, ValidJump
<1>4. /\ lost
      /\ takeovers' = [takeovers EXCEPT ![sa] = IF takeovers[sa] = Nothing THEN t
                                                ELSE takeovers[sa]]
      /\ held' = [held EXCEPT ![sa] = Nothing]
      /\ UNCHANGED <<calls, late, up, gen, sent, mirrored, protected, lost, restarted,
                     withdrawn, faults>>
  BY DEF TakeForRepin, Takeover, owner
<1>5. /\ t \in HeldSas(CounterMax) /\ t.epoch = h.epoch /\ t.key = h.key
      /\ t.count = next
  <2> HIDE DEF next, h
  <2> QED BY <1>1, <1>3 DEF HeldSas
<1>6. t # Nothing
  BY <1>5, HeldIsSomething
<1>7. PICK u \in HeldSas(CounterMax) :
        /\ takeovers' = [takeovers EXCEPT ![sa] = u] /\ u # Nothing
        /\ u = t \/ u = takeovers[sa]
        /\ takeovers[sa] = Nothing => u = t
  BY <1>4, <1>5, <1>6, Numbers DEF Inv
<1>8. /\ held'[sa] = Nothing /\ takeovers'[sa] = u
      /\ \A x \in SAs \ {sa} : held'[x] = held[x] /\ takeovers'[x] = takeovers[x]
  BY <1>4, <1>7 DEF Inv, TypeOK
<1> HIDE DEF h, t
<1>9. TypeOK'
  BY <1>4, <1>7 DEF Inv, TypeOK
<1>10. OwnerInv' /\ CallInv' /\ LateInv'
  BY <1>4 DEF Inv, OwnerInv, CallInv, LateInv
<1>11. HeldInv' /\ ProtectedIsHeld'
  <2>1. HeldInv'
    BY <1>4, <1>8 DEF Inv, HeldInv
  <2>2. \A x \in protected : x \in SAs
    BY DEF Inv, TypeOK
  <2>3. ProtectedIsHeld'
    BY <1>4, <1>7, <1>8, <2>2 DEF Inv, ProtectedIsHeld
  <2> QED BY <2>1, <2>3
<1>12. CoverInv'
  <2>1. \A x \in SAs : takeovers'[x] = Nothing =>
          x # sa /\ held'[x] = held[x] /\ takeovers[x] = Nothing
    BY <1>7, <1>8
  <2>2. \A c \in Conns : late[c] # Nothing => late[c].sa \in SAs
    BY Numbers, Fields DEF Inv
  <2> QED BY <1>4, <2>1, <2>2 DEF Inv, CoverInv, Covers
<1>13. NoNonceReuse'
  <2> SUFFICES ASSUME NEW x \in SAs, takeovers'[x] # Nothing,
                      takeovers'[x].epoch > withdrawn[x]
               PROVE  takeovers'[x].count >= sent[x][takeovers'[x].key]
    BY <1>4 DEF NoNonceReuse
  <2>1. CASE x # sa \/ takeovers[sa] # Nothing
    <3>1. takeovers'[x] = takeovers[x]
      BY <1>4, <1>8, <2>1 DEF Inv, TypeOK
    <3> QED BY <3>1 DEF Inv, NoNonceReuse
  <2>2. CASE x = sa /\ takeovers[sa] = Nothing
    <3>1. takeovers'[x] = t /\ h.epoch > withdrawn[sa]
      BY <1>5, <1>7, <1>8, <2>2
    <3>2. Covers(sa, h)
      BY <1>1, <2>2, <3>1 DEF Inv, CoverInv, h
    <3>3. sent[sa][h.key] \in Int
      BY <1>1, Numbers, Bounds DEF Inv
    <3>4. sent[sa][h.key] <= h.count + MaxLag
      BY <3>2 DEF Covers
    <3>5. next >= sent[sa][h.key]
      BY <1>1, <1>2, <3>3, <3>4, Bounds
    <3> QED BY <1>5, <2>2, <3>1, <3>5
  <2> QED BY <2>1, <2>2
<1> QED BY <1>9, <1>10, <1>11, <1>12, <1>13 DEF Inv

-----------------------------------------------------------------------------
LEMMA NextKeeps == Inv /\ [Next]_vars => Inv'
<1> SUFFICES ASSUME Inv, [Next]_vars PROVE Inv'
  OBVIOUS
<1>1. CASE UNCHANGED vars
  <2>1. UNCHANGED <<held, calls, late, up, gen, sent, mirrored, protected, lost,
                    restarted, withdrawn, takeovers, faults>>
    BY <1>1 DEF vars, owner
  <2> QED BY <2>1 DEF Inv, TypeOK, OwnerInv, CallInv, LateInv, HeldInv,
                      ProtectedIsHeld, CoverInv, Covers, NoNonceReuse
<1>2. ASSUME NEW sa \in SAs, Exchange(sa) \/ Deadline(sa) PROVE Inv'
  BY <1>2, ExchangeKeeps, DeadlineKeeps
<1>3. ASSUME NEW sa \in SAs, Rekey(sa) \/ ReuseEpoch(sa) PROVE Inv'
  BY <1>3, RekeyKeeps, ReuseEpochKeeps
<1>4. ASSUME NEW sa \in SAs, MirrorInstall(sa) \/ MirrorCheckpoint(sa) PROVE Inv'
  BY <1>4, CallKeeps
<1>5. ASSUME NEW sa \in SAs, MirrorWithdraw(sa) \/ SendPacket(sa) PROVE Inv'
  BY <1>5, MirrorWithdrawKeeps, SendPacketKeeps
<1>6. ASSUME NEW sa \in SAs, NEW c \in Conns, Abandon(sa, c) PROVE Inv'
  BY <1>6, AbandonKeeps
<1>7. ASSUME NEW c \in Conns, ServeLate(c) \/ DropLate(c) PROVE Inv'
  BY <1>7, ServeLateKeeps, DropLateKeeps
<1>8. ASSUME NEW sa \in SAs, NEW jump \in Jumps, NEW lag \in Lags,
             TakeForRepin(sa, jump, lag)
      PROVE  Inv'
  BY <1>8, TakeForRepinKeeps
<1>9. CASE OwnerLost \/ RestartStandby
  BY <1>9, OwnerLostKeeps, RestartStandbyKeeps
<1> QED BY <1>1, <1>2, <1>3, <1>4, <1>5, <1>6, <1>7, <1>8, <1>9 DEF Next

(* Every reachable state satisfies the inductive invariant. *)
THEOREM Invariance == Spec => []Inv
BY InitInv, NextKeeps, PTL DEF Spec

(* Requests, custody and counters keep their types. *)
THEOREM TypeCorrect == Spec => []TypeOK
BY Invariance, PTL DEF Inv

(* An acknowledged install means custody of exactly the owner's keys, at   *)
(* no older counter, whatever late requests and other SAs do.              *)
THEOREM AcknowledgedIsHeld == Spec => []ProtectedIsHeld
BY Invariance, PTL DEF Inv

(* A takeover never starts within the counters the lost owner used. *)
THEOREM TakeoverReusesNoNonce == Spec => []NoNonceReuse
BY Invariance, PTL DEF Inv

(* What a step may do to the custody of one SA. *)
Advances(sa) ==
  held[sa] # Nothing /\ held'[sa] # Nothing =>
    \/ held'[sa].epoch > held[sa].epoch
    \/ /\ held'[sa].epoch = held[sa].epoch
       /\ held'[sa].key = held[sa].key
       /\ held'[sa].count >= held[sa].count

LEMMA SameHeldAdvances ==
  ASSUME TypeOK, NEW sa \in SAs, held'[sa] = held[sa]
  PROVE  Advances(sa)
BY Numbers, Fields, Bounds DEF Advances

LEMMA ServedAdvances ==
  ASSUME TypeOK, NEW r \in Requests, held' = Serve(r).custody, NEW sa \in SAs
  PROVE  Advances(sa)
<1> DEFINE h == held[sa]
<1>1. PICK g \in HeldSas(MaxCount) \union {Nothing} :
        /\ held' = [held EXCEPT ![r.sa] = g]
        /\ \/ Fresh(held[r.sa], g, r) \/ Merges(held[r.sa], g, r)
           \/ Vacates(held[r.sa], g, r) \/ Keeps(held[r.sa], g, r, Serve(r).code)
  BY ServeShape DEF TypeOK
<1>2. CASE sa # r.sa \/ held'[sa] = h
  <2>1. held'[sa] = held[sa]
    BY <1>1, <1>2 DEF TypeOK
  <2> QED BY <2>1, SameHeldAdvances
<1>3. CASE sa = r.sa /\ held'[sa] # h
  <2>1. held'[sa] = g
    BY <1>1, <1>3 DEF TypeOK
  <2>2. r.epoch \in Int /\ (h # Nothing => h \in HeldSas(MaxCount) /\ h.epoch \in Int)
    BY Numbers, Fields, Bounds
  <2>3. CASE Fresh(h, g, r)
    BY <2>1, <2>2, <2>3, HeldSaFields DEF Fresh, Advances
  <2>4. CASE Merges(h, g, r)
    BY <2>1, <2>2, <2>4, MergedFields DEF Merges, Advances
  <2>5. CASE Vacates(h, g, r)
    BY <2>1, <2>5 DEF Vacates, Advances
  <2> QED BY <1>1, <1>3, <2>1, <2>3, <2>4, <2>5 DEF Keeps
<1> QED BY <1>2, <1>3

(* Custody changes keys only by passing to a higher epoch, and within a    *)
(* generation its counter never goes back.                                 *)
THEOREM CustodyNeverGoesBack == Spec => CustodyAdvances
<1>1. Inv /\ [Next]_vars => [\A sa \in SAs : Advances(sa)]_vars
  <2> SUFFICES ASSUME Inv, [Next]_vars, ~UNCHANGED vars, NEW sa \in SAs
               PROVE  Advances(sa)
    OBVIOUS
  <2> TypeOK
    BY DEF Inv
  <2>1. ASSUME UNCHANGED held PROVE Advances(sa)
    BY <2>1, SameHeldAdvances
  <2>2. ASSUME NEW x \in SAs, Exchange(x) PROVE Advances(sa)
    <3>1. calls[x] \in Requests /\ held' = Serve(calls[x]).custody
      BY <2>2, Numbers DEF Exchange
    <3> QED BY <3>1, ServedAdvances
  <2>3. ASSUME NEW c \in Conns, ServeLate(c) PROVE Advances(sa)
    <3>1. late[c] \in Requests /\ held' = Serve(late[c]).custody
      BY <2>3, Numbers DEF ServeLate
    <3> QED BY <3>1, ServedAdvances
  <2>4. ASSUME NEW x \in SAs, NEW jump \in Jumps, NEW lag \in Lags,
               TakeForRepin(x, jump, lag)
        PROVE  Advances(sa)
    <3>1. held' = [held EXCEPT ![x] = Nothing]
      BY <2>4 DEF TakeForRepin, Takeover
    <3>2. held'[sa] = held[sa] \/ held'[sa] = Nothing
      BY <3>1 DEF TypeOK
    <3> QED BY <3>2, SameHeldAdvances DEF Advances
  <2>5. CASE RestartStandby
    BY <2>5 DEF RestartStandby, Advances
  <2>6. ASSUME NEW x \in SAs,
               Deadline(x) \/ Rekey(x) \/ ReuseEpoch(x) \/ MirrorInstall(x)
                 \/ MirrorCheckpoint(x) \/ MirrorWithdraw(x) \/ SendPacket(x)
        PROVE  UNCHANGED held
    BY <2>6 DEF Deadline, Rekey, ReuseEpoch, Derive, MirrorInstall, MirrorCheckpoint,
                MirrorWithdraw, SendPacket
  <2>7. ASSUME OwnerLost \/ \E c \in Conns : DropLate(c) \/ \E x \in SAs : Abandon(x, c)
        PROVE  UNCHANGED held
    BY <2>7 DEF OwnerLost, DropLate, Abandon
  <2> QED BY <2>1, <2>2, <2>3, <2>4, <2>5, <2>6, <2>7 DEF Next
<1>2. [\A sa \in SAs : Advances(sa)]_vars
        => [\A sa \in SAs :
              held[sa] # Nothing /\ held'[sa] # Nothing =>
                \/ held'[sa].epoch > held[sa].epoch
                \/ /\ held'[sa].epoch = held[sa].epoch
                   /\ held'[sa].key = held[sa].key
                   /\ held'[sa].count >= held[sa].count]_vars
  BY DEF Advances
<1> QED BY <1>1, <1>2, Invariance, PTL DEF Spec, CustodyAdvances

=============================================================================
