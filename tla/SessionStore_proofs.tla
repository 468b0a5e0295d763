------------------------ MODULE SessionStore_proofs ------------------------
(***************************************************************************)
(* Theorems about SessionStore, for every set of keys and owners and every *)
(* limit: the shape of the state, the validity of the bounded key history, *)
(* the fencing guarantees that rest on it, the refinement of FencedLeases, *)
(* the success of every finalization and the expiries readers observed;    *)
(* and about SessionReplication: a replica in the source's committed       *)
(* states.                                                                 *)
(*                                                                         *)
(* The commands are operators on one backend state s; each gets a lemma    *)
(* that it keeps StoreInv and never lowers an observed fence. The step     *)
(* proofs then only combine those lemmas.                                  *)
(***************************************************************************)
EXTENDS SessionReplication, TLAPS, FiniteSetTheorems, SequenceTheorems

(* Rows agree with the fence the key is tracked under. *)
RowsFenced(s) ==
  \A k \in Keys :
    /\ s.fences[k] < s.nextFence
    /\ s.leases[k] # None => s.fences[k] # 0 /\ s.leases[k].fence = s.fences[k]
    /\ s.records[k] # None => s.fences[k] # 0 /\ s.records[k].fence <= s.fences[k]
    /\ s.retired[k] # NotRetired => Dead(s, k) /\ s.fences[k] # 0

StoreInv(s) == RetentionValid(s) /\ RetiredFencesValid(s) /\ RowsFenced(s)

(* No observed fence of s is lower in t. *)
FencesAdvance(s, t) == \A k \in Keys : CurrentFence(s, k) <= CurrentFence(t, k)

(* A record of t was written under a fence observed in s or later, or it   *)
(* continues a record of s. Unlike a comparison of the two records alone,  *)
(* this composes over states in which the record is absent.                *)
RecordFrom(s, k, r) ==
  \/ CurrentFence(s, k) <= r.fence
  \/ s.records[k] # None /\ s.records[k].fence <= r.fence

RecordsAdvance(s, t) ==
  \A k \in Keys : t.records[k] # None => RecordFrom(s, k, t.records[k])

Advances(s, t) == /\ FencesAdvance(s, t)
                  /\ RecordsAdvance(s, t)
                  /\ s.nextFence <= t.nextFence

-----------------------------------------------------------------------------
(* Operators on one state.                                                 *)

(* MaxOf (u64::max) is one of its arguments and bounds both. *)
LEMMA MaxOfBounds ==
  ASSUME NEW a \in Nat, NEW b \in Nat
  PROVE  /\ MaxOf(a, b) \in Nat
         /\ MaxOf(a, b) >= a
         /\ MaxOf(a, b) >= b
         /\ MaxOf(a, b) = a \/ MaxOf(a, b) = b
BY DEF MaxOf

(* prune_state keeps the shape of a backend state. *)
LEMMA PruneType ==
  ASSUME NEW s \in StoreState, NEW now
  PROVE  Prune(s, now) \in StoreState
BY DEF StoreState, Prune

(* prune_state only drops expired records and leases. *)
LEMMA PruneFields ==
  ASSUME NEW s \in StoreState, NEW now
  PROVE  LET t == Prune(s, now)
         IN /\ t.fences = s.fences
            /\ t.retired = s.retired
            /\ t.retention = s.retention
            /\ t.nextFence = s.nextFence
            /\ t.nextCred = s.nextCred
            /\ t.committedTime = s.committedTime
            /\ \A k \in Keys : t.records[k] = None \/ t.records[k] = s.records[k]
            /\ \A k \in Keys : t.leases[k] = None \/ t.leases[k] = s.leases[k]
BY DEF StoreState, Prune

(* prune_state keeps a valid state valid and advances it. *)
LEMMA PruneKeeps ==
  ASSUME NEW s \in StoreState, NEW now, StoreInv(s)
  PROVE  StoreInv(Prune(s, now)) /\ Advances(s, Prune(s, now))
<1> DEFINE t == Prune(s, now)
<1>1. t \in StoreState
  BY PruneType
<1>2. /\ t.fences = s.fences /\ t.retired = s.retired
      /\ t.retention = s.retention /\ t.nextFence = s.nextFence
      /\ \A k \in Keys : t.records[k] = None \/ t.records[k] = s.records[k]
      /\ \A k \in Keys : t.leases[k] = None \/ t.leases[k] = s.leases[k]
  BY PruneFields
<1> HIDE DEF t
<1>3. RetentionValid(t)
  BY <1>2 DEF StoreInv, RetentionValid
<1>4. RetiredFencesValid(t)
  BY <1>2 DEF StoreInv, RetiredFencesValid, RetiredKeys
<1>5. RowsFenced(t)
  BY <1>2 DEF StoreInv, RowsFenced, Dead
<1>6. FencesAdvance(s, t)
  BY <1>2 DEF FencesAdvance, CurrentFence, StoreState, Retention
<1>7. RecordsAdvance(s, t)
  <2> SUFFICES ASSUME NEW k \in Keys, t.records[k] # None
               PROVE  RecordFrom(s, k, t.records[k])
    BY DEF RecordsAdvance
  <2>1. t.records[k] = s.records[k] /\ s.records[k] \in Record
    BY <1>2 DEF StoreState
  <2> QED BY <2>1 DEF Record, RecordFrom
<1>8. s.nextFence <= t.nextFence
  BY <1>2 DEF StoreState
<1> QED BY <1>3, <1>4, <1>5, <1>6, <1>7, <1>8 DEF StoreInv, Advances, t

(* Rotation turns the open epoch into the previous one: rows retired in it *)
(* stay below the new floor, and rows dropped were below the old one.      *)
LEMMA RotateFields ==
  ASSUME NEW s \in StoreState
  PROVE  LET t == Rotate(s)
         IN /\ t \in StoreState
            /\ t.records = s.records /\ t.leases = s.leases
            /\ t.candidates = s.candidates
            /\ t.committedTime = s.committedTime
            /\ t.nextCred = s.nextCred
            /\ t.retention.epoch = s.retention.epoch + 1
            /\ t.retention.floorPrev = s.retention.floorCur
            /\ t.retention.floorCur > s.retention.floorCur
            /\ t.retention.floorCur > s.retention.retiredMax
            /\ t.retention.floorCur < t.nextFence
            /\ t.retention.retiredMax = 0 /\ t.retention.retiredCount = 0
            /\ t.nextFence >= s.nextFence
            /\ \A k \in Keys :
                 IF k \in DroppedKeys(s)
                 THEN t.fences[k] = 0 /\ t.retired[k] = NotRetired
                 ELSE t.fences[k] = s.fences[k] /\ t.retired[k] = s.retired[k]
<1> DEFINE t == Rotate(s)
<1>1. /\ s.retention \in Retention
      /\ s.retention.floorCur \in Nat /\ s.retention.retiredMax \in Nat
      /\ s.retention.epoch \in Nat /\ s.nextFence \in Nat
  BY DEF StoreState, Retention
<1>2. /\ ClosedFloor(s) \in Nat
      /\ ClosedFloor(s) > s.retention.floorCur
      /\ ClosedFloor(s) > s.retention.retiredMax
  BY <1>1 DEF ClosedFloor, MaxOf
<1>3. /\ MaxOf(s.nextFence, ClosedFloor(s) + 1) \in Nat
      /\ MaxOf(s.nextFence, ClosedFloor(s) + 1) >= s.nextFence
      /\ MaxOf(s.nextFence, ClosedFloor(s) + 1) > ClosedFloor(s)
  BY <1>1, <1>2 DEF MaxOf
<1>4. t \in StoreState
  <2> DEFINE r == [epoch |-> s.retention.epoch + 1,
                   floorPrev |-> s.retention.floorCur,
                   floorCur |-> ClosedFloor(s),
                   retiredMax |-> 0, retiredCount |-> 0]
             retired == [k \in Keys |-> IF k \in DroppedKeys(s) THEN NotRetired
                                       ELSE s.retired[k]]
             fences == [k \in Keys |-> IF k \in DroppedKeys(s) THEN 0
                                      ELSE s.fences[k]]
             next == MaxOf(s.nextFence, ClosedFloor(s) + 1)
  <2>1. r \in Retention
    BY <1>1, <1>2 DEF Retention
  <2>2. retired \in [Keys -> Int]
    BY DEF StoreState, NotRetired
  <2>3. fences \in [Keys -> Nat]
    BY DEF StoreState
  <2>4. next \in Nat
    BY <1>3
  <2>5. t = [s EXCEPT !.retention = r, !.nextFence = next, !.retired = retired,
                      !.fences = fences]
    BY DEF Rotate
  <2> HIDE DEF r, retired, fences, next, t
  <2> QED BY <2>1, <2>2, <2>3, <2>4, <2>5 DEF StoreState
<1>5. /\ t.records = s.records /\ t.leases = s.leases
      /\ t.candidates = s.candidates
      /\ t.committedTime = s.committedTime
      /\ t.nextCred = s.nextCred
      /\ t.nextFence = MaxOf(s.nextFence, ClosedFloor(s) + 1)
      /\ t.retention = [epoch |-> s.retention.epoch + 1,
                        floorPrev |-> s.retention.floorCur,
                        floorCur |-> ClosedFloor(s),
                        retiredMax |-> 0, retiredCount |-> 0]
  BY DEF StoreState, Rotate
<1>6. \A k \in Keys :
        IF k \in DroppedKeys(s)
        THEN t.fences[k] = 0 /\ t.retired[k] = NotRetired
        ELSE t.fences[k] = s.fences[k] /\ t.retired[k] = s.retired[k]
  BY DEF StoreState, Rotate
<1> HIDE DEF t
<1> QED BY <1>2, <1>3, <1>4, <1>5, <1>6 DEF t

(* rotate_key_retention always succeeds, restores validity at the          *)
(* threshold and lowers no observed fence.                                 *)
LEMMA RotateKeeps ==
  ASSUME NEW s \in StoreState, RetiredFencesValid(s), RowsFenced(s)
  PROVE  /\ StoreInv(Rotate(s))
         /\ Advances(s, Rotate(s))
         /\ RotationAccepted(s)
<1> DEFINE t == Rotate(s)
<1>1. /\ t \in StoreState
      /\ t.records = s.records /\ t.leases = s.leases
      /\ t.retention.epoch = s.retention.epoch + 1
      /\ t.retention.floorPrev = s.retention.floorCur
      /\ t.retention.floorCur > s.retention.floorCur
      /\ t.retention.floorCur > s.retention.retiredMax
      /\ t.retention.floorCur < t.nextFence
      /\ t.retention.retiredMax = 0 /\ t.retention.retiredCount = 0
      /\ t.nextFence >= s.nextFence
      /\ \A k \in Keys :
           IF k \in DroppedKeys(s)
           THEN t.fences[k] = 0 /\ t.retired[k] = NotRetired
           ELSE t.fences[k] = s.fences[k] /\ t.retired[k] = s.retired[k]
  BY RotateFields
<1> HIDE DEF t
<1>2. /\ s.retention.floorCur \in Nat /\ s.retention.floorPrev \in Nat
      /\ s.retention.retiredMax \in Nat
      /\ s.retention.epoch \in Nat /\ s.nextFence \in Nat
      /\ t.retention.floorCur \in Nat /\ t.nextFence \in Nat
      /\ \A k \in Keys : s.fences[k] \in Nat /\ s.retired[k] \in Int
  BY <1>1 DEF StoreState, Retention
<1>3. /\ \A k \in DroppedKeys(s) : /\ k \in Keys
                                   /\ s.retired[k] # NotRetired
                                   /\ s.retired[k] <= s.retention.epoch - 1
      /\ \A k \in Keys \ DroppedKeys(s) :
           s.retired[k] # NotRetired => s.retired[k] > s.retention.epoch - 1
  BY <1>2 DEF DroppedKeys, RetiredKeys
<1>4. \A k \in DroppedKeys(s) : s.fences[k] # 0 /\ s.fences[k] < s.retention.floorCur
  <2> SUFFICES ASSUME NEW k \in DroppedKeys(s)
               PROVE  s.fences[k] # 0 /\ s.fences[k] < s.retention.floorCur
    OBVIOUS
  <2>1. k \in RetiredKeys(s)
    BY <1>3 DEF RetiredKeys
  <2>2. s.retired[k] # s.retention.epoch
    BY <1>2, <1>3
  <2>3. s.fences[k] < s.retention.floorCur
    BY <2>1, <2>2 DEF RetiredFencesValid
  <2> QED BY <1>3, <2>3 DEF RowsFenced
<1>5. RetentionValid(t)
  BY <1>1, <1>2, LimitsAssumption DEF RetentionValid
<1>6. RetiredFencesValid(t)
  <2> SUFFICES ASSUME NEW k \in Keys, t.retired[k] # NotRetired
               PROVE  /\ t.retired[k] = t.retention.epoch - 1
                      /\ t.fences[k] < t.retention.floorCur
    BY DEF RetiredFencesValid, RetiredKeys
  <2>1. k \notin DroppedKeys(s) /\ t.retired[k] = s.retired[k]
        /\ t.fences[k] = s.fences[k]
    BY <1>1
  <2>2. k \in RetiredKeys(s) /\ s.retired[k] > s.retention.epoch - 1
    BY <2>1, <1>3 DEF RetiredKeys
  <2>3. s.retired[k] = s.retention.epoch /\ s.fences[k] <= s.retention.retiredMax
    BY <2>2, <1>2 DEF RetiredFencesValid
  <2> QED BY <1>1, <1>2, <2>1, <2>3
<1>7. RowsFenced(t)
  <2> SUFFICES ASSUME NEW k \in Keys
               PROVE  /\ t.fences[k] < t.nextFence
                      /\ t.leases[k] # None => t.fences[k] # 0
                                               /\ t.leases[k].fence = t.fences[k]
                      /\ t.records[k] # None => t.fences[k] # 0
                                               /\ t.records[k].fence <= t.fences[k]
                      /\ t.retired[k] # NotRetired => Dead(t, k) /\ t.fences[k] # 0
    BY DEF RowsFenced
  <2>1. CASE k \in DroppedKeys(s)
    <3>1. s.records[k] = None /\ s.leases[k] = None
      BY <2>1, <1>3 DEF RowsFenced, Dead
    <3> QED BY <2>1, <3>1, <1>1, <1>2
  <2>2. CASE k \notin DroppedKeys(s)
    BY <2>2, <1>1, <1>2 DEF RowsFenced, Dead
  <2> QED BY <2>1, <2>2
<1>8. FencesAdvance(s, t)
  <2> SUFFICES ASSUME NEW k \in Keys
               PROVE  CurrentFence(s, k) <= CurrentFence(t, k)
    BY DEF FencesAdvance
  <2>1. CASE k \in DroppedKeys(s)
    BY <2>1, <1>1, <1>2, <1>4 DEF CurrentFence
  <2>2. CASE k \notin DroppedKeys(s)
    BY <2>2, <1>1, <1>2 DEF CurrentFence
  <2> QED BY <2>1, <2>2
<1>9. RecordsAdvance(s, t)
  <2> SUFFICES ASSUME NEW k \in Keys, t.records[k] # None
               PROVE  RecordFrom(s, k, t.records[k])
    BY DEF RecordsAdvance
  <2>1. t.records[k] = s.records[k] /\ s.records[k] \in Record
    BY <1>1 DEF StoreState
  <2> QED BY <2>1 DEF Record, RecordFrom
<1>10. RotationAccepted(s)
  BY <1>4 DEF RotationAccepted
<1> QED BY <1>1, <1>2, <1>5, <1>6, <1>7, <1>8, <1>9, <1>10 DEF StoreInv, Advances, t

(* Retiring one candidate. The open epoch may be filled by it, which the   *)
(* threshold rotation that follows at once repairs.                        *)
LEMMA RetireFields ==
  ASSUME NEW s \in StoreState, NEW k \in Keys
  PROVE  LET t == Retire(s, k)
         IN /\ t \in StoreState
            /\ t.records = s.records /\ t.leases = s.leases
            /\ t.fences = s.fences /\ t.nextFence = s.nextFence
            /\ t.nextCred = s.nextCred /\ t.committedTime = s.committedTime
            /\ t.candidates = s.candidates \ {k}
            /\ t.retention.epoch = s.retention.epoch
            /\ t.retention.floorPrev = s.retention.floorPrev
            /\ t.retention.floorCur = s.retention.floorCur
            /\ \A j \in Keys \ {k} : t.retired[j] = s.retired[j]
            /\ Retirable(s, k) =>
                 /\ t.retired[k] = s.retention.epoch
                 /\ t.retention.retiredCount = s.retention.retiredCount + 1
                 /\ t.retention.retiredMax
                      = MaxOf(s.retention.retiredMax, s.fences[k])
            /\ ~Retirable(s, k) =>
                 /\ t.retired[k] = IF Dead(s, k) THEN s.retired[k] ELSE NotRetired
                 /\ t.retention = s.retention
<1> DEFINE t == Retire(s, k)
           r == [s.retention EXCEPT
                   !.retiredCount = s.retention.retiredCount + 1,
                   !.retiredMax = MaxOf(s.retention.retiredMax, s.fences[k])]
<1>1. /\ s.retention \in Retention /\ s.retention.epoch \in Nat
      /\ s.retention.retiredMax \in Nat /\ s.retention.retiredCount \in Nat
      /\ s.fences[k] \in Nat /\ s.retired[k] \in Int /\ NotRetired \in Int
  BY DEF StoreState, Retention, NotRetired
<1>2. /\ r \in Retention /\ r.epoch = s.retention.epoch
      /\ r.floorPrev = s.retention.floorPrev
      /\ r.floorCur = s.retention.floorCur
      /\ r.retiredCount = s.retention.retiredCount + 1
      /\ r.retiredMax = MaxOf(s.retention.retiredMax, s.fences[k])
  <2> DEFINE top == MaxOf(s.retention.retiredMax, s.fences[k])
             count == s.retention.retiredCount + 1
  <2>1. top \in Nat /\ count \in Nat
    BY <1>1 DEF MaxOf
  <2>2. r = [s.retention EXCEPT !.retiredCount = count, !.retiredMax = top]
    OBVIOUS
  <2> HIDE DEF top, count, r
  <2>3. /\ r \in Retention /\ r.epoch = s.retention.epoch
        /\ r.floorPrev = s.retention.floorPrev
        /\ r.floorCur = s.retention.floorCur
        /\ r.retiredCount = count /\ r.retiredMax = top
    BY <1>1, <2>1, <2>2 DEF Retention
  <2> QED BY <2>3 DEF top, count
<1>3. CASE Retirable(s, k)
  <2>1. t = [s EXCEPT !.candidates = s.candidates \ {k},
                      !.retired[k] = s.retention.epoch, !.retention = r]
    BY <1>3 DEF Retire
  <2> DEFINE mark == s.retention.epoch
  <2>3. mark \in Int /\ t = [s EXCEPT !.candidates = s.candidates \ {k},
                             !.retired[k] = mark, !.retention = r]
    BY <1>1, <2>1
  <2> HIDE DEF r, t, mark
  <2>2. /\ t \in StoreState
        /\ t.records = s.records /\ t.leases = s.leases
        /\ t.fences = s.fences /\ t.nextFence = s.nextFence
        /\ t.nextCred = s.nextCred /\ t.committedTime = s.committedTime
        /\ t.candidates = s.candidates \ {k}
        /\ t.retention = r /\ t.retired[k] = mark
        /\ \A j \in Keys \ {k} : t.retired[j] = s.retired[j]
    BY <1>2, <2>3 DEF StoreState
  <2> QED BY <1>2, <1>3, <2>2 DEF t, mark
<1>4. CASE ~Retirable(s, k)
  <2> DEFINE mark == IF Dead(s, k) THEN s.retired[k] ELSE NotRetired
  <2>1. t = [s EXCEPT !.candidates = s.candidates \ {k},
                      !.retired[k] = mark, !.retention = s.retention]
    BY <1>4 DEF Retire
  <2>2. mark \in Int
    BY <1>1
  <2> HIDE DEF mark, t
  <2>3. /\ t \in StoreState
        /\ t.records = s.records /\ t.leases = s.leases
        /\ t.fences = s.fences /\ t.nextFence = s.nextFence
        /\ t.nextCred = s.nextCred /\ t.committedTime = s.committedTime
        /\ t.candidates = s.candidates \ {k}
        /\ t.retention = s.retention /\ t.retired[k] = mark
        /\ \A j \in Keys \ {k} : t.retired[j] = s.retired[j]
    BY <1>1, <2>1, <2>2 DEF StoreState
  <2> QED BY <1>4, <2>3 DEF t, mark
<1> QED BY <1>3, <1>4

(* Retiring one dead key keeps the fences valid; only at the threshold is  *)
(* a rotation due.                                                         *)
LEMMA RetireKeeps ==
  ASSUME NEW s \in StoreState, StoreInv(s), NEW k \in Keys
  PROVE  /\ RetiredFencesValid(Retire(s, k))
         /\ RowsFenced(Retire(s, k))
         /\ Advances(s, Retire(s, k))
         /\ ~ReachesThreshold(s, k) => RetentionValid(Retire(s, k))
<1> DEFINE t == Retire(s, k)
<1>1. /\ t \in StoreState
      /\ t.records = s.records /\ t.leases = s.leases
      /\ t.fences = s.fences /\ t.nextFence = s.nextFence
      /\ t.retention.epoch = s.retention.epoch
      /\ t.retention.floorPrev = s.retention.floorPrev
      /\ t.retention.floorCur = s.retention.floorCur
      /\ \A j \in Keys \ {k} : t.retired[j] = s.retired[j]
      /\ Retirable(s, k) =>
           /\ t.retired[k] = s.retention.epoch
           /\ t.retention.retiredCount = s.retention.retiredCount + 1
           /\ t.retention.retiredMax
                = MaxOf(s.retention.retiredMax, s.fences[k])
      /\ ~Retirable(s, k) =>
           /\ t.retired[k] = IF Dead(s, k) THEN s.retired[k] ELSE NotRetired
           /\ t.retention = s.retention
  BY RetireFields
<1> HIDE DEF t
<1>2. /\ s.retention.floorCur \in Nat /\ s.retention.floorPrev \in Nat
      /\ s.retention.retiredMax \in Nat /\ s.retention.retiredCount \in Nat
      /\ s.retention.epoch \in Nat /\ s.nextFence \in Nat
      /\ \A j \in Keys : s.fences[j] \in Nat /\ s.retired[j] \in Int
  BY DEF StoreState, Retention
<1>3. /\ t.retention.retiredMax \in Nat
      /\ t.retention.retiredMax >= s.retention.retiredMax
      /\ Retirable(s, k) => t.retention.retiredMax >= s.fences[k]
      /\ t.retention.retiredMax < s.nextFence
  <2>1. s.retention.retiredMax < s.nextFence
    BY DEF StoreInv, RetentionValid
  <2>2. CASE Retirable(s, k)
    <3>1. s.fences[k] \in Nat /\ s.fences[k] < s.nextFence
      BY <2>2, <1>2 DEF Retirable
    <3> QED BY <2>1, <2>2, <3>1, <1>1, <1>2 DEF MaxOf
  <2>3. CASE ~Retirable(s, k)
    BY <2>1, <2>3, <1>1, <1>2
  <2> QED BY <2>2, <2>3
<1>4. RetiredFencesValid(t)
  <2> SUFFICES ASSUME NEW j \in Keys, t.retired[j] # NotRetired
               PROVE  \/ /\ t.retired[j] = t.retention.epoch
                         /\ t.fences[j] <= t.retention.retiredMax
                      \/ /\ t.retired[j] = t.retention.epoch - 1
                         /\ t.fences[j] < t.retention.floorCur
    BY DEF RetiredFencesValid, RetiredKeys
  <2>1. CASE j = k /\ Retirable(s, k)
    BY <2>1, <1>1, <1>2, <1>3
  <2>2. CASE ~(j = k /\ Retirable(s, k))
    <3>1. s.retired[j] = t.retired[j] /\ j \in RetiredKeys(s)
      BY <2>2, <1>1 DEF RetiredKeys
    <3>2. \/ s.retired[j] = s.retention.epoch /\ s.fences[j] <= s.retention.retiredMax
          \/ s.retired[j] = s.retention.epoch - 1 /\ s.fences[j] < s.retention.floorCur
      BY <3>1 DEF StoreInv, RetiredFencesValid
    <3> QED BY <3>1, <3>2, <1>1, <1>2, <1>3
  <2> QED BY <2>1, <2>2
<1>5. RowsFenced(t)
  <2> SUFFICES ASSUME NEW j \in Keys, t.retired[j] # NotRetired
               PROVE  Dead(s, j) /\ s.fences[j] # 0
    BY <1>1 DEF StoreInv, RowsFenced, Dead
  <2>1. CASE j = k /\ Retirable(s, k)
    BY <2>1 DEF Retirable
  <2>2. CASE ~(j = k /\ Retirable(s, k))
    BY <2>2, <1>1 DEF StoreInv, RowsFenced
  <2> QED BY <2>1, <2>2
<1>6. Advances(s, t)
  <2>1. FencesAdvance(s, t)
    BY <1>1, <1>2 DEF FencesAdvance, CurrentFence
  <2>2. RecordsAdvance(s, t)
    <3> SUFFICES ASSUME NEW j \in Keys, s.records[j] # None
                 PROVE  s.records[j].fence <= s.records[j].fence
      BY <1>1 DEF RecordsAdvance, RecordFrom
    <3> QED BY DEF StoreState, Record
  <2> QED BY <2>1, <2>2, <1>1, <1>2 DEF Advances
<1>7. ASSUME ~ReachesThreshold(s, k) PROVE RetentionValid(t)
  <2>1. CASE Retirable(s, k)
    <3>1. t.retention.retiredCount < RetiredKeysPerEpoch
      BY <2>1, <1>1, <1>2, <1>7, LimitsAssumption
         DEF StoreInv, RetentionValid, ReachesThreshold
    <3> QED BY <2>1, <3>1, <1>1, <1>2, <1>3 DEF StoreInv, RetentionValid
  <2>2. CASE ~Retirable(s, k)
    BY <2>2, <1>1 DEF StoreInv, RetentionValid
  <2> QED BY <2>1, <2>2
<1> QED BY <1>4, <1>5, <1>6, <1>7 DEF t

(* A command's edit touches the row of one live key k: it leaves the key   *)
(* history alone and gives k a fence no lower than the observed one.       *)
RowEdit(s, t, k) ==
  /\ t \in StoreState
  /\ t.retention = s.retention
  /\ t.nextFence >= s.nextFence
  /\ \A j \in Keys \ {k} : /\ t.records[j] = s.records[j]
                          /\ t.leases[j] = s.leases[j]
                          /\ t.fences[j] = s.fences[j]
                          /\ t.retired[j] = s.retired[j]
  /\ t.retired[k] = NotRetired
  /\ t.fences[k] # 0
  /\ t.fences[k] < t.nextFence
  /\ t.fences[k] >= CurrentFence(s, k)
  /\ t.leases[k] # None => t.leases[k].fence = t.fences[k]
  /\ t.records[k] # None =>
       /\ t.records[k].fence <= t.fences[k]
       /\ RecordFrom(s, k, t.records[k])

(* Any edit of one key's row within the rules of RowEdit is safe. *)
LEMMA RowEditKeeps ==
  ASSUME NEW s \in StoreState, StoreInv(s), NEW t, NEW k \in Keys,
         RowEdit(s, t, k)
  PROVE  StoreInv(t) /\ Advances(s, t)
<1>1. /\ s.nextFence \in Nat /\ t.nextFence \in Nat
      /\ s.retention.floorCur \in Nat
      /\ s.retention.retiredMax \in Nat
      /\ \A j \in Keys : s.fences[j] \in Nat /\ t.fences[j] \in Nat
  BY DEF RowEdit, StoreState, Retention
<1>2. RetentionValid(t)
  BY <1>1 DEF RowEdit, StoreInv, RetentionValid
<1>3. RetiredFencesValid(t)
  BY DEF RowEdit, StoreInv, RetiredFencesValid, RetiredKeys
<1>4. RowsFenced(t)
  <2> SUFFICES ASSUME NEW j \in Keys
               PROVE  /\ t.fences[j] < t.nextFence
                      /\ t.leases[j] # None => t.fences[j] # 0
                                               /\ t.leases[j].fence = t.fences[j]
                      /\ t.records[j] # None => t.fences[j] # 0
                                               /\ t.records[j].fence <= t.fences[j]
                      /\ t.retired[j] # NotRetired => Dead(t, j) /\ t.fences[j] # 0
    BY DEF RowsFenced
  <2>1. CASE j = k
    BY <2>1 DEF RowEdit
  <2>2. CASE j # k
    <3>1. /\ t.records[j] = s.records[j] /\ t.leases[j] = s.leases[j]
          /\ t.fences[j] = s.fences[j] /\ t.retired[j] = s.retired[j]
          /\ t.nextFence >= s.nextFence
      BY <2>2 DEF RowEdit
    <3>2. /\ s.fences[j] < s.nextFence
          /\ s.leases[j] # None => s.fences[j] # 0
                                   /\ s.leases[j].fence = s.fences[j]
          /\ s.records[j] # None => s.fences[j] # 0
                                   /\ s.records[j].fence <= s.fences[j]
          /\ s.retired[j] # NotRetired => Dead(s, j) /\ s.fences[j] # 0
      BY DEF StoreInv, RowsFenced
    <3> QED BY <3>1, <3>2, <1>1 DEF Dead
  <2> QED BY <2>1, <2>2
<1>5. FencesAdvance(s, t)
  <2> SUFFICES ASSUME NEW j \in Keys
               PROVE  CurrentFence(s, j) <= CurrentFence(t, j)
    BY DEF FencesAdvance
  <2>1. CASE j = k
    BY <2>1, <1>1 DEF RowEdit, CurrentFence
  <2>2. CASE j # k
    BY <2>2, <1>1 DEF RowEdit, CurrentFence
  <2> QED BY <2>1, <2>2
<1>6. RecordsAdvance(s, t)
  <2> SUFFICES ASSUME NEW j \in Keys, t.records[j] # None
               PROVE  RecordFrom(s, j, t.records[j])
    BY DEF RecordsAdvance
  <2>1. CASE j = k
    BY <2>1 DEF RowEdit
  <2>2. CASE j # k
    <3>1. s.records[j] \in Record /\ t.records[j] = s.records[j]
      BY <2>2 DEF StoreState, RowEdit
    <3> QED BY <3>1 DEF Record, RecordFrom
  <2> QED BY <2>1, <2>2
<1> QED BY <1>1, <1>2, <1>3, <1>4, <1>5, <1>6 DEF StoreInv, Advances, RowEdit

(* set_fence writes one key's fence, makes it live and touches nothing else. *)
LEMMA SetFenceFields ==
  ASSUME NEW s \in StoreState, NEW k \in Keys, NEW f \in Nat, ~Dead(s, k)
  PROVE  LET t == SetFence(s, k, f)
         IN /\ t \in StoreState
            /\ t.records = s.records /\ t.leases = s.leases
            /\ t.retention = s.retention /\ t.nextFence = s.nextFence
            /\ t.nextCred = s.nextCred /\ t.committedTime = s.committedTime
            /\ t.fences[k] = f /\ t.retired[k] = NotRetired
            /\ \A j \in Keys \ {k} : /\ t.fences[j] = s.fences[j]
                                    /\ t.retired[j] = s.retired[j]
<1> DEFINE t == SetFence(s, k, f)
<1>1. t = [s EXCEPT !.fences[k] = f, !.retired[k] = NotRetired,
                    !.candidates = s.candidates \cup {k}]
  BY DEF SetFence
<1>2. NotRetired \in Int
  BY DEF NotRetired
<1> HIDE DEF t
<1>3. t \in StoreState
  BY <1>1, <1>2 DEF StoreState
<1> QED BY <1>1, <1>3 DEF StoreState, t

(* acquire edits one row, under a fence not below the global counter. *)
LEMMA AcquireEdit ==
  ASSUME NEW s \in StoreState, StoreInv(s), NEW k \in Keys,
         NEW owner \in Owners, NEW exp \in Int
  PROVE  LET t == AcquireLease(s, k, owner, exp)
         IN /\ RowEdit(s, t, k)
            /\ AcquiredFence(s, k) \in Nat
            /\ t.fences[k] = AcquiredFence(s, k)
            /\ AcquiredFence(s, k) >= s.nextFence
<1> DEFINE f == AcquiredFence(s, k)
           lease == [status |-> "active", cred |-> s.nextCred, owner |-> owner,
                     fence |-> f, exp |-> exp]
           u == [s EXCEPT !.nextFence = f + 1, !.nextCred = s.nextCred + 1,
                          !.leases[k] = lease]
           t == SetFence(u, k, f)
<1>1. /\ s.nextFence \in Nat /\ s.nextCred \in Nat
      /\ s.retention.floorCur \in Nat /\ s.fences[k] \in Nat
  BY DEF StoreState, Retention
<1>2. CurrentFence(s, k) \in Nat
  BY <1>1 DEF CurrentFence
<1>3. f \in Nat /\ f >= s.nextFence /\ f > CurrentFence(s, k)
  BY <1>1, <1>2 DEF AcquiredFence, MaxOf
<1>4. t = AcquireLease(s, k, owner, exp)
  BY DEF AcquireLease
<1> HIDE DEF f
<1>5. lease \in Lease /\ lease # None /\ lease.fence = f
  BY <1>1, <1>3, NoneAssumption DEF Lease
<1> HIDE DEF lease
<1>6. f + 1 \in Nat /\ s.nextCred + 1 \in Nat
  BY <1>1, <1>3
<1>7. /\ u \in StoreState
      /\ u.records = s.records /\ u.leases[k] = lease
      /\ u.fences = s.fences /\ u.retired = s.retired
      /\ u.retention = s.retention /\ u.nextFence = f + 1
      /\ \A j \in Keys \ {k} : u.leases[j] = s.leases[j]
  BY <1>5, <1>6 DEF StoreState
<1> HIDE DEF u
<1>8. ~Dead(u, k)
  BY <1>5, <1>7 DEF Dead
<1>9. /\ t \in StoreState
      /\ t.records = u.records /\ t.leases = u.leases
      /\ t.retention = u.retention /\ t.nextFence = u.nextFence
      /\ t.fences[k] = f /\ t.retired[k] = NotRetired
      /\ \A j \in Keys \ {k} : /\ t.fences[j] = u.fences[j]
                              /\ t.retired[j] = u.retired[j]
  BY <1>3, <1>7, <1>8, SetFenceFields
<1> HIDE DEF t
<1>10. s.records[k] # None =>
         s.records[k].fence \in Nat /\ s.records[k].fence <= s.fences[k]
  BY DEF StoreState, Record, StoreInv, RowsFenced
<1>11. s.records[k] # None => s.records[k].fence <= f
  <2>1. s.fences[k] # 0 => CurrentFence(s, k) = s.fences[k]
    BY DEF CurrentFence
  <2>2. s.records[k] # None => s.fences[k] # 0
    BY DEF StoreInv, RowsFenced
  <2> QED BY <2>1, <2>2, <1>1, <1>3, <1>10
<1>12. RowEdit(s, t, k)
  BY <1>1, <1>2, <1>3, <1>5, <1>7, <1>9, <1>10, <1>11 DEF RowEdit, RecordFrom
<1> QED BY <1>3, <1>4, <1>9, <1>12 DEF f

(* A guard whose lease entry is in the table carries the key's own fence.  *)
LEMMA MatchedRow ==
  ASSUME NEW s \in StoreState, StoreInv(s), NEW g \in Guard,
         Matches(s.leases[g.key], g)
  PROVE  /\ g.key \in Keys /\ g.fence \in Nat /\ g.owner \in Owners
         /\ s.leases[g.key] \in Lease /\ s.leases[g.key] # None
         /\ s.leases[g.key].fence = g.fence
         /\ s.fences[g.key] = g.fence /\ g.fence # 0
         /\ g.fence < s.nextFence
         /\ CurrentFence(s, g.key) = g.fence
         /\ s.retired[g.key] = NotRetired
         /\ s.records[g.key] # None =>
              s.records[g.key] \in Record /\ s.records[g.key].fence <= g.fence
<1>1. g.key \in Keys /\ g.fence \in Nat /\ g.owner \in Owners
  BY DEF Guard
<1>2. /\ s.leases[g.key] # None /\ s.leases[g.key].fence = g.fence
  BY DEF Matches
<1>3. s.leases[g.key] \in Lease
  BY <1>1, <1>2 DEF StoreState
<1>4. s.fences[g.key] = g.fence /\ s.fences[g.key] # 0
      /\ s.fences[g.key] < s.nextFence
  BY <1>1, <1>2 DEF StoreInv, RowsFenced
<1>5. s.retired[g.key] = NotRetired
  BY <1>1, <1>2 DEF StoreInv, RowsFenced, Dead
<1>6. s.records[g.key] # None =>
        s.records[g.key] \in Record /\ s.records[g.key].fence <= g.fence
  BY <1>1, <1>4 DEF StoreInv, RowsFenced, StoreState
<1> QED BY <1>1, <1>2, <1>3, <1>4, <1>5, <1>6 DEF CurrentFence

(* Renewal and release rewrite the lease entry and keep its fence. *)
LEMMA LeaseEdit ==
  ASSUME NEW s \in StoreState, StoreInv(s), NEW g \in Guard,
         Matches(s.leases[g.key], g), NEW l \in Lease, l.fence = g.fence
  PROVE  RowEdit(s, [s EXCEPT !.leases[g.key] = l], g.key)
<1> DEFINE k == g.key
           t == [s EXCEPT !.leases[k] = l]
<1>1. /\ k \in Keys /\ g.fence \in Nat /\ s.fences[k] = g.fence
      /\ g.fence # 0 /\ g.fence < s.nextFence
      /\ CurrentFence(s, k) = g.fence /\ s.retired[k] = NotRetired
      /\ s.records[k] # None =>
           s.records[k] \in Record /\ s.records[k].fence <= g.fence
  BY MatchedRow
<1> HIDE DEF k
<1>2. /\ t \in StoreState /\ t.records = s.records /\ t.fences = s.fences
      /\ t.retired = s.retired /\ t.retention = s.retention
      /\ t.nextFence = s.nextFence /\ t.leases[k] = l
      /\ \A j \in Keys \ {k} : t.leases[j] = s.leases[j]
  BY <1>1 DEF StoreState
<1> HIDE DEF t
<1>3. s.nextFence \in Nat /\ (s.records[k] # None => s.records[k].fence \in Nat)
  BY <1>1 DEF StoreState, Record
<1>4. RowEdit(s, t, k)
  BY <1>1, <1>2, <1>3 DEF RowEdit, RecordFrom
<1> QED BY <1>4 DEF t, k

(* renew edits the row of a matching guard. *)
LEMMA RenewEdit ==
  ASSUME NEW s \in StoreState, StoreInv(s), NEW g \in Guard,
         Matches(s.leases[g.key], g), NEW exp \in Int
  PROVE  RowEdit(s, RenewLease(s, g, exp), g.key)
<1> DEFINE l == [s.leases[g.key] EXCEPT !.exp = exp]
<1>1. s.leases[g.key] \in Lease /\ s.leases[g.key].fence = g.fence
      /\ g.key \in Keys
  BY MatchedRow
<1>2. l \in Lease /\ l.fence = g.fence
  BY <1>1 DEF Lease
<1>3. RenewLease(s, g, exp) = [s EXCEPT !.leases[g.key] = l]
  BY <1>1 DEF RenewLease, StoreState
<1> HIDE DEF l
<1> QED BY <1>2, <1>3, LeaseEdit

(* release edits the row of a matching guard. *)
LEMMA ReleaseEdit ==
  ASSUME NEW s \in StoreState, StoreInv(s), NEW g \in Guard,
         Matches(s.leases[g.key], g)
  PROVE  RowEdit(s, ReleaseLease(s, g), g.key)
<1> DEFINE l == [s.leases[g.key] EXCEPT !.status = "released"]
<1>1. s.leases[g.key] \in Lease /\ s.leases[g.key].fence = g.fence
      /\ g.key \in Keys
  BY MatchedRow
<1>2. l \in Lease /\ l.fence = g.fence
  BY <1>1 DEF Lease
<1>3. ReleaseLease(s, g) = [s EXCEPT !.leases[g.key] = l]
  BY <1>1 DEF ReleaseLease, StoreState
<1> HIDE DEF l
<1> QED BY <1>2, <1>3, LeaseEdit

(* The record edits: a new record (or none), fenced by the guard. *)
LEMMA RecordEdit ==
  ASSUME NEW s \in StoreState, StoreInv(s), NEW g \in Guard,
         Matches(s.leases[g.key], g), NEW r \in Record \cup {None},
         r # None => r.fence <= g.fence /\ RecordFrom(s, g.key, r)
  PROVE  RowEdit(s, SetFence([s EXCEPT !.records[g.key] = r], g.key, g.fence),
                 g.key)
<1> DEFINE k == g.key
           f == g.fence
           u == [s EXCEPT !.records[k] = r]
           t == SetFence(u, k, f)
<1>1. /\ k \in Keys /\ f \in Nat /\ s.fences[k] = f /\ f # 0
      /\ f < s.nextFence /\ CurrentFence(s, k) = f
      /\ s.leases[k] # None /\ s.leases[k].fence = f
  BY MatchedRow
<1>2. r # None => r.fence <= f /\ RecordFrom(s, k, r)
  OBVIOUS
<1> HIDE DEF k, f
<1>3. /\ u \in StoreState /\ u.leases = s.leases /\ u.fences = s.fences
      /\ u.retired = s.retired /\ u.retention = s.retention
      /\ u.nextFence = s.nextFence /\ u.records[k] = r
      /\ \A j \in Keys \ {k} : u.records[j] = s.records[j]
  BY <1>1 DEF StoreState
<1> HIDE DEF u
<1>4. ~Dead(u, k)
  BY <1>1, <1>3 DEF Dead
<1>5. /\ t \in StoreState
      /\ t.records = u.records /\ t.leases = u.leases
      /\ t.retention = u.retention /\ t.nextFence = u.nextFence
      /\ t.fences[k] = f /\ t.retired[k] = NotRetired
      /\ \A j \in Keys \ {k} : /\ t.fences[j] = u.fences[j]
                              /\ t.retired[j] = u.retired[j]
  BY <1>1, <1>3, <1>4, SetFenceFields
<1> HIDE DEF t
<1>6. s.nextFence \in Nat
  BY DEF StoreState
<1>7. RowEdit(s, t, k)
  BY <1>1, <1>2, <1>3, <1>5, <1>6 DEF RowEdit
<1> QED BY <1>7 DEF t, u, k, f

(* Accepted compare-and-set, delete and TTL refresh edit the guard's row. *)
LEMMA DataEdits ==
  ASSUME NEW s \in StoreState, StoreInv(s), NEW g \in Guard, NEW now
  PROVE  /\ \A expected : \A r \in Record :
              CasAccepted(s, g, expected, r, now) => RowEdit(s, PutRecord(s, g, r), g.key)
         /\ DeleteAccepted(s, g, now) => RowEdit(s, DeleteRecord(s, g), g.key)
         /\ \A exp \in Int :
              RefreshAccepted(s, g, now) => RowEdit(s, RefreshRecord(s, g, exp), g.key)
<1>1. ASSUME NEW expected, NEW r \in Record, CasAccepted(s, g, expected, r, now)
      PROVE  RowEdit(s, PutRecord(s, g, r), g.key)
  <2>1. Matches(s.leases[g.key], g) /\ r.fence = g.fence
    BY <1>1 DEF CasAccepted, Validates
  <2>2. g.fence \in Nat /\ CurrentFence(s, g.key) = g.fence
    BY <2>1, MatchedRow
  <2>3. r.fence <= g.fence /\ RecordFrom(s, g.key, r)
    BY <2>1, <2>2 DEF RecordFrom
  <2> QED BY <2>1, <2>3, RecordEdit DEF PutRecord
<1>2. ASSUME DeleteAccepted(s, g, now)
      PROVE  RowEdit(s, DeleteRecord(s, g), g.key)
  <2>1. Matches(s.leases[g.key], g)
    BY <1>2 DEF DeleteAccepted, Validates
  <2> QED BY <2>1, RecordEdit DEF DeleteRecord
<1>3. ASSUME NEW exp \in Int, RefreshAccepted(s, g, now)
      PROVE  RowEdit(s, RefreshRecord(s, g, exp), g.key)
  <2> DEFINE r == [s.records[g.key] EXCEPT !.exp = exp]
  <2>1. Matches(s.leases[g.key], g) /\ s.records[g.key] # None
    BY <1>3 DEF RefreshAccepted, Validates
  <2>2. /\ g.key \in Keys /\ g.fence \in Nat
        /\ s.records[g.key] \in Record /\ s.records[g.key].fence <= g.fence
    BY <2>1, MatchedRow
  <2>3. r \in Record /\ r.fence = s.records[g.key].fence /\ r.fence \in Nat
    BY <2>2 DEF Record
  <2>4. RefreshRecord(s, g, exp)
          = SetFence([s EXCEPT !.records[g.key] = r], g.key, g.fence)
    BY <2>2 DEF RefreshRecord, StoreState
  <2> HIDE DEF r
  <2>5. r.fence <= g.fence /\ RecordFrom(s, g.key, r)
    BY <2>1, <2>2, <2>3 DEF RecordFrom
  <2> QED BY <2>1, <2>3, <2>4, <2>5, RecordEdit
<1> QED BY <1>1, <1>2, <1>3

(* The observed fence of a key is a number. *)
LEMMA FenceIsNat ==
  ASSUME NEW s \in StoreState, NEW k \in Keys
  PROVE  CurrentFence(s, k) \in Nat
BY DEF StoreState, Retention, CurrentFence

(* Advancing is transitive, so a staged command advances the store. *)
LEMMA AdvancesTrans ==
  ASSUME NEW s \in StoreState, NEW t \in StoreState, NEW u \in StoreState,
         Advances(s, t), Advances(t, u)
  PROVE  Advances(s, u)
<1>1. /\ s.nextFence \in Nat /\ t.nextFence \in Nat /\ u.nextFence \in Nat
      /\ \A k \in Keys : /\ CurrentFence(s, k) \in Nat
                         /\ CurrentFence(t, k) \in Nat
                         /\ CurrentFence(u, k) \in Nat
  BY FenceIsNat DEF StoreState
<1>2. FencesAdvance(s, u)
  BY <1>1 DEF Advances, FencesAdvance
<1>3. RecordsAdvance(s, u)
  <2> SUFFICES ASSUME NEW k \in Keys, u.records[k] # None
               PROVE  RecordFrom(s, k, u.records[k])
    BY DEF RecordsAdvance
  <2>1. /\ u.records[k].fence \in Nat
        /\ s.records[k] # None => s.records[k].fence \in Nat
        /\ t.records[k] # None => t.records[k].fence \in Nat
    BY DEF StoreState, Record
  <2>2. CurrentFence(s, k) <= CurrentFence(t, k)
    BY DEF Advances, FencesAdvance
  <2>3. RecordFrom(t, k, u.records[k])
    BY DEF Advances, RecordsAdvance
  <2>4. t.records[k] # None => RecordFrom(s, k, t.records[k])
    BY DEF Advances, RecordsAdvance
  <2> QED BY <1>1, <2>1, <2>2, <2>3, <2>4 DEF RecordFrom
<1> QED BY <1>1, <1>2, <1>3 DEF Advances

(* Every state advances to itself. *)
LEMMA AdvancesRefl ==
  ASSUME NEW s \in StoreState
  PROVE  Advances(s, s)
<1>1. s.nextFence \in Nat /\ \A k \in Keys : CurrentFence(s, k) \in Nat
  BY FenceIsNat DEF StoreState
<1>2. \A k \in Keys : s.records[k] # None => s.records[k].fence \in Nat
  BY DEF StoreState, Record
<1> QED BY <1>1, <1>2 DEF Advances, FencesAdvance, RecordsAdvance, RecordFrom

-----------------------------------------------------------------------------
(* The inductive invariant.                                                *)

SameAcquisition(g, h) == g.key = h.key /\ g.owner = h.owner /\ g.cred = h.cred

(* The guard the running command will return: its fence is already         *)
(* observed in the staged state and names one acquisition only.            *)
PendingGuardSafe ==
  cmd.guard # None =>
    /\ cmd.guard.fence <= CurrentFence(staged, cmd.guard.key)
    /\ cmd.guard.fence < staged.nextFence
    /\ \A h \in guards : h.fence = cmd.guard.fence => SameAcquisition(cmd.guard, h)

GuardsSafe ==
  /\ IssuedFencesObserved
  /\ FencesNeverReused
  /\ \A g \in guards : g.fence < store.nextFence

StatesSafe == /\ StoreInv(store)
              /\ StoreInv(staged)
              /\ Advances(store, staged)

Inv == /\ TypeOK
       /\ phase = "batch" => cmd.op \in BatchOps /\ cmd.guard = None
       /\ StatesSafe
       /\ GuardsSafe
       /\ PendingGuardSafe

(* A new backend satisfies the invariant. *)
LEMMA InitInv == Init => Inv
<1> SUFFICES ASSUME Init PROVE Inv
  OBVIOUS
<1>1. EmptyStore.retention \in Retention
  BY DEF EmptyStore, Retention
<1>2. EmptyStore \in StoreState
  BY <1>1 DEF EmptyStore, StoreState, NotRetired
<1>3. NoCommand \in Command
  BY DEF NoCommand, Command, Ops
<1>4. TypeOK
  BY <1>2, <1>3 DEF Init, TypeOK
<1>5. StoreInv(EmptyStore)
  BY LimitsAssumption
     DEF StoreInv, EmptyStore, RetentionValid, RetiredFencesValid, RetiredKeys,
         RowsFenced
<1>6. StatesSafe
  BY <1>2, <1>5, AdvancesRefl DEF Init, StatesSafe
<1>7. GuardsSafe /\ PendingGuardSafe
  BY DEF Init, GuardsSafe, IssuedFencesObserved, FencesNeverReused,
         PendingGuardSafe, NoCommand
<1> QED BY <1>4, <1>6, <1>7 DEF Inv, Init

(* Staging an edit of the pruned committed state. *)
LEMMA StageKeeps ==
  ASSUME Inv, NEW now \in Nat, NEW k \in Keys, NEW t,
         RowEdit(Prune(store, now), t, k),
         NEW op \in Ops, NEW guard \in Guard \cup {None},
         Stage(t, "finalize", op, guard, now), hidden' \subseteq Keys,
         guard # None =>
           /\ guard.fence <= CurrentFence(t, guard.key)
           /\ guard.fence < t.nextFence
           /\ \A h \in guards : h.fence = guard.fence => SameAcquisition(guard, h)
  PROVE  Inv'
<1> DEFINE p == Prune(store, now)
<1>1. p \in StoreState /\ StoreInv(p) /\ Advances(store, p)
  BY PruneType, PruneKeeps DEF Inv, TypeOK, StatesSafe
<1>2. t \in StoreState /\ StoreInv(t) /\ Advances(p, t)
  BY <1>1, RowEditKeeps DEF RowEdit
<1> HIDE DEF p
<1>3. Advances(store, t)
  BY <1>1, <1>2, AdvancesTrans DEF Inv, TypeOK
<1>4. TypeOK'
  <2>1. cmd' \in Command
    BY DEF Stage, Command
  <2> QED BY <1>2, <2>1 DEF Stage, Inv, TypeOK
<1>5. StatesSafe'
  BY <1>2, <1>3 DEF Stage, Inv, StatesSafe
<1>6. GuardsSafe'
  BY DEF Stage, Inv, GuardsSafe, IssuedFencesObserved, FencesNeverReused,
         CurrentFence
<1>7. PendingGuardSafe'
  <2>1. cmd'.guard = guard /\ staged' = t /\ guards' = guards
    BY DEF Stage
  <2> QED BY <2>1 DEF PendingGuardSafe, CurrentFence, SameAcquisition
<1>8. phase' = "finalize"
  BY DEF Stage
<1> QED BY <1>4, <1>5, <1>6, <1>7, <1>8 DEF Inv

(* A refused command changes only the writer's clock and expiry marks. *)
LEMMA RefuseKeeps ==
  ASSUME Inv, NEW now \in Nat, Refuse(now), hidden' \subseteq Keys
  PROVE  Inv'
BY DEF Refuse, Inv, TypeOK, StatesSafe, GuardsSafe, IssuedFencesObserved,
       FencesNeverReused, PendingGuardSafe, CurrentFence, StoreInv,
       RetentionValid, RetiredFencesValid, RetiredKeys, RowsFenced, Dead,
       Advances, FencesAdvance, RecordsAdvance, RecordFrom, SameAcquisition

(* command_time returns a time. *)
LEMMA CommandTimeType ==
  ASSUME TypeOK, NEW sample \in 0..MaxTime
  PROVE  CommandTime(sample) \in Nat
<1>1. sample \in Nat /\ writerTime \in Nat /\ store.committedTime \in Nat
  BY InputsAssumption DEF TypeOK, StoreState
<1> QED BY <1>1 DEF CommandTime, MaxOf

(* Expiry marks are kept for keys only. *)
LEMMA ObserveExpiryType ==
  ASSUME TypeOK, NEW k \in Keys, NEW now
  PROVE  ObserveExpiry(k, now) \subseteq Keys
BY DEF TypeOK, ObserveExpiry

(* The pruned copy a command starts from is safe and observes the same     *)
(* fences as the store.                                                    *)
LEMMA PrunedStore ==
  ASSUME Inv, NEW now
  PROVE  LET p == Prune(store, now)
         IN /\ p \in StoreState /\ StoreInv(p)
            /\ p.nextFence = store.nextFence /\ p.nextCred = store.nextCred
            /\ \A k \in Keys : CurrentFence(p, k) = CurrentFence(store, k)
<1>1. store \in StoreState /\ StoreInv(store)
  BY DEF Inv, TypeOK, StatesSafe
<1> QED BY <1>1, PruneType, PruneKeeps, PruneFields DEF CurrentFence

-----------------------------------------------------------------------------
(* One lemma per command.                                                  *)

(* acquire preserves the invariant. *)
LEMMA AcquireKeeps ==
  ASSUME Inv, NEW sample \in 0..MaxTime, NEW k \in Keys, NEW owner \in Owners,
         NEW ttl \in LeaseTtls, Acquire(k, owner, ttl, sample)
  PROVE  Inv'
<1> DEFINE now == CommandTime(sample)
           p == Prune(store, now)
           f == AcquiredFence(p, k)
           guard == [key |-> k, owner |-> owner, fence |-> f,
                     exp |-> now + ttl, cred |-> p.nextCred]
           t == AcquireLease(p, k, owner, now + ttl)
           op == [kind |-> "acquire", key |-> k, owner |-> owner, fence |-> f,
                  cred |-> p.nextCred, exp |-> now + ttl]
<1>1. now \in Nat /\ now + ttl \in Int /\ hidden' \subseteq Keys
  BY CommandTimeType, InputsAssumption DEF Inv, TypeOK, Acquire
<1>2. p \in StoreState /\ StoreInv(p) /\ p.nextCred \in Nat
      /\ p.nextFence = store.nextFence
  BY PrunedStore DEF StoreState
<1>3. CASE Refuse(now)
  BY <1>1, <1>3, RefuseKeeps
<1>4. CASE Stage(t, "finalize", op, guard, now)
  <2> HIDE DEF now, p
  <2>1. RowEdit(p, t, k) /\ f \in Nat /\ t.fences[k] = f /\ f >= p.nextFence
    BY <1>1, <1>2, AcquireEdit
  <2>2. guard \in Guard /\ guard.key = k /\ guard.fence = f
    BY <1>1, <1>2, <2>1 DEF Guard
  <2>3. op \in Ops
    BY <1>1, <1>2, <2>1 DEF Ops, LeaseOps
  <2> HIDE DEF f, t, guard, op
  <2>4. f <= CurrentFence(t, k) /\ f < t.nextFence
    BY <2>1 DEF RowEdit, CurrentFence
  <2>5. \A h \in guards : h.fence # f
    <3> SUFFICES ASSUME NEW h \in guards PROVE h.fence # f
      OBVIOUS
    <3>1. h.fence \in Nat /\ h.fence < store.nextFence /\ store.nextFence \in Nat
      BY DEF Inv, TypeOK, StoreState, Guard, GuardsSafe
    <3> QED BY <3>1, <2>1, <1>2
  <2>6. RowEdit(Prune(store, now), t, k)
    BY <2>1 DEF p
  <2>7. guard # None =>
          /\ guard.fence <= CurrentFence(t, guard.key)
          /\ guard.fence < t.nextFence
          /\ \A h \in guards : h.fence = guard.fence => SameAcquisition(guard, h)
    BY <2>2, <2>4, <2>5
  <2> QED BY <1>1, <1>4, <2>2, <2>3, <2>6, <2>7, StageKeeps
<1>5. Refuse(now) \/ Stage(t, "finalize", op, guard, now)
  BY DEF Acquire
<1> QED BY <1>3, <1>4, <1>5

(* renew preserves the invariant. *)
LEMMA RenewKeeps ==
  ASSUME Inv, NEW sample \in 0..MaxTime, NEW g \in guards,
         NEW ttl \in LeaseTtls, Renew(g, ttl, sample)
  PROVE  Inv'
<1> DEFINE now == CommandTime(sample)
           p == Prune(store, now)
           exp == now + ttl
           guard == [g EXCEPT !.exp = exp]
           t == RenewLease(p, g, exp)
           op == [kind |-> "renew", key |-> g.key, owner |-> g.owner,
                  fence |-> g.fence, cred |-> g.cred, exp |-> exp]
<1>1. now \in Nat /\ exp \in Int /\ hidden' \subseteq Keys
  BY CommandTimeType, InputsAssumption DEF Inv, TypeOK, Renew
<1>2. g \in Guard /\ g.key \in Keys /\ g.fence \in Nat
  BY DEF Inv, TypeOK, Guard
<1>3. p \in StoreState /\ StoreInv(p)
  BY PrunedStore
<1>4. CASE Refuse(now)
  BY <1>1, <1>4, RefuseKeeps
<1>5. CASE RenewAccepted(p, g, now) /\ Stage(t, "finalize", op, guard, now)
  <2>1. Matches(p.leases[g.key], g)
    BY <1>5 DEF RenewAccepted
  <2> HIDE DEF now, p, exp
  <2>2. RowEdit(p, t, g.key) /\ CurrentFence(p, g.key) = g.fence
    BY <1>1, <1>2, <1>3, <2>1, RenewEdit, MatchedRow
  <2>3. guard \in Guard /\ guard.key = g.key /\ guard.fence = g.fence
        /\ guard.owner = g.owner /\ guard.cred = g.cred
    BY <1>1, <1>2 DEF Guard
  <2>4. op \in Ops
    BY <1>1, <1>2 DEF Ops, LeaseOps, Guard
  <2> HIDE DEF t, guard, op
  <2>5. g.fence <= CurrentFence(t, g.key) /\ g.fence < t.nextFence
    <3>1. /\ t.fences[g.key] # 0 /\ t.fences[g.key] < t.nextFence
          /\ t.fences[g.key] >= g.fence
          /\ t.fences[g.key] \in Nat /\ t.nextFence \in Nat
      BY <1>2, <2>2 DEF RowEdit, StoreState
    <3> QED BY <1>2, <3>1 DEF CurrentFence
  <2>6. \A h \in guards : h.fence = g.fence => SameAcquisition(guard, h)
    BY <2>3 DEF Inv, GuardsSafe, FencesNeverReused, SameAcquisition
  <2>7. guard # None =>
          /\ guard.fence <= CurrentFence(t, guard.key)
          /\ guard.fence < t.nextFence
          /\ \A h \in guards : h.fence = guard.fence => SameAcquisition(guard, h)
    BY <2>3, <2>5, <2>6
  <2>8. RowEdit(Prune(store, now), t, g.key)
    BY <2>2 DEF p
  <2> QED BY <1>1, <1>2, <1>5, <2>3, <2>4, <2>7, <2>8, StageKeeps
<1>6. Refuse(now) \/ (RenewAccepted(p, g, now) /\ Stage(t, "finalize", op, guard, now))
  BY DEF Renew
<1> QED BY <1>4, <1>5, <1>6

(* release preserves the invariant. *)
LEMMA ReleaseKeeps ==
  ASSUME Inv, NEW sample \in 0..MaxTime, NEW g \in guards, Release(g, sample)
  PROVE  Inv'
<1> DEFINE now == CommandTime(sample)
           p == Prune(store, now)
           t == ReleaseLease(p, g)
           op == [kind |-> "release", key |-> g.key, owner |-> g.owner,
                  fence |-> g.fence, cred |-> g.cred]
<1>1. now \in Nat /\ hidden' \subseteq Keys
  BY CommandTimeType DEF Inv, TypeOK, Release
<1>2. g \in Guard /\ g.key \in Keys
  BY DEF Inv, TypeOK, Guard
<1>3. p \in StoreState /\ StoreInv(p)
  BY PrunedStore
<1>4. CASE Refuse(now)
  BY <1>1, <1>4, RefuseKeeps
<1>5. CASE ReleaseAccepted(p, g) /\ Stage(t, "finalize", op, None, now)
  <2>1. RowEdit(p, t, g.key)
    BY <1>2, <1>3, <1>5, ReleaseEdit DEF ReleaseAccepted
  <2>2. op \in Ops
    BY <1>2 DEF Ops, ReleaseOps, Guard
  <2> HIDE DEF now, t, op
  <2> QED BY <1>1, <1>2, <1>5, <2>1, <2>2, StageKeeps
<1>6. Refuse(now) \/ (ReleaseAccepted(p, g) /\ Stage(t, "finalize", op, None, now))
  BY DEF Release
<1> QED BY <1>4, <1>5, <1>6

(* A read changes only expiry marks. *)
LEMMA GetKeeps ==
  ASSUME Inv, NEW sample, NEW k \in Keys, Get(k, sample)
  PROVE  Inv'
<1>1. hidden' \subseteq Keys
  BY ObserveExpiryType DEF Get, Inv
<1>2. UNCHANGED <<store, staged, phase, cmd, log, lastSeq, compacted,
                  writerTime, guards>>
  BY DEF Get
<1> QED BY <1>1, <1>2
        DEF Inv, TypeOK, StatesSafe, GuardsSafe, IssuedFencesObserved,
            FencesNeverReused, PendingGuardSafe, CurrentFence, StoreInv,
            RetentionValid, RetiredFencesValid, RetiredKeys, RowsFenced, Dead,
            Advances, FencesAdvance, RecordsAdvance, RecordFrom, SameAcquisition

(* The records a caller may submit are records. *)
LEMMA RecordInputsType ==
  ASSUME NEW g \in Guard, NEW now \in Nat, NEW r \in RecordInputs(g, now)
  PROVE  r \in Record
<1>1. PICK n \in Generations, e \in {now + d : d \in RecordTtls} \cup {Never},
           c \in Classes :
        r = [gen |-> n, exp |-> e, owner |-> g.owner, fence |-> g.fence, class |-> c]
  BY DEF RecordInputs
<1>2. e \in Int
  BY InputsAssumption DEF Never
<1>3. n \in Nat /\ g.owner \in Owners /\ g.fence \in Nat
  BY InputsAssumption DEF Guard
<1> QED BY <1>1, <1>2, <1>3 DEF Record

(* The logged form of each mutation is a replication operation. *)
LEMMA DataOpTypes ==
  ASSUME NEW g \in Guard
  PROVE  /\ \A expected \in Nat \cup {None}, r \in Record :
              CasOp(g, expected, r) \in DataOps
         /\ DeleteOp(g) \in DataOps
         /\ \A exp \in Int : RefreshOp(g, exp) \in DataOps
BY DEF Guard, CasOp, DeleteOp, RefreshOp, DataOps

(* compare_and_set preserves the invariant. *)
LEMMA CompareAndSetKeeps ==
  ASSUME Inv, NEW sample \in 0..MaxTime, NEW g \in guards, NEW author \in guards,
         NEW expected \in Generations \cup {None},
         CompareAndSet(g, author, expected, sample)
  PROVE  Inv'
<1> DEFINE now == CommandTime(sample)
           p == Prune(store, now)
<1>1. g \in Guard /\ g.key \in Keys /\ author \in Guard
  BY DEF Inv, TypeOK, Guard
<1>2. now \in Nat /\ hidden' \subseteq Keys
  BY <1>1, CommandTimeType, ObserveExpiryType DEF Inv, CompareAndSet
<1>3. PICK r \in RecordInputs(author, now) :
        \/ /\ CasAccepted(p, g, expected, r, now)
           /\ Stage(PutRecord(p, g, r), "finalize", CasOp(g, expected, r), None, now)
        \/ Refuse(now)
  BY DEF CompareAndSet
<1>4. r \in Record
  BY <1>1, <1>2, RecordInputsType
<1>5. CASE Refuse(now)
  BY <1>2, <1>5, RefuseKeeps
<1>6. CASE /\ CasAccepted(p, g, expected, r, now)
           /\ Stage(PutRecord(p, g, r), "finalize", CasOp(g, expected, r), None, now)
  <2>1. p \in StoreState /\ StoreInv(p)
    BY PrunedStore
  <2>2. RowEdit(p, PutRecord(p, g, r), g.key)
    BY <1>1, <1>4, <1>6, <2>1, DataEdits
  <2>3. CasOp(g, expected, r) \in Ops
    BY <1>1, <1>4, DataOpTypes, InputsAssumption DEF Ops
  <2> HIDE DEF now
  <2> QED BY <1>1, <1>2, <1>6, <2>2, <2>3, StageKeeps
<1> QED BY <1>3, <1>5, <1>6

(* delete_fenced preserves the invariant. *)
LEMMA DeleteFencedKeeps ==
  ASSUME Inv, NEW sample \in 0..MaxTime, NEW g \in guards,
         DeleteFenced(g, sample)
  PROVE  Inv'
<1> DEFINE now == CommandTime(sample)
           p == Prune(store, now)
<1>1. g \in Guard /\ g.key \in Keys
  BY DEF Inv, TypeOK, Guard
<1>2. now \in Nat /\ hidden' \subseteq Keys
  BY CommandTimeType DEF Inv, TypeOK, DeleteFenced
<1>3. CASE Refuse(now)
  BY <1>2, <1>3, RefuseKeeps
<1>4. CASE /\ DeleteAccepted(p, g, now)
           /\ Stage(DeleteRecord(p, g), "finalize", DeleteOp(g), None, now)
  <2>1. p \in StoreState /\ StoreInv(p)
    BY PrunedStore
  <2>2. RowEdit(p, DeleteRecord(p, g), g.key)
    BY <1>1, <1>4, <2>1, DataEdits
  <2>3. DeleteOp(g) \in Ops
    BY <1>1, DataOpTypes DEF Ops
  <2> HIDE DEF now
  <2> QED BY <1>1, <1>2, <1>4, <2>2, <2>3, StageKeeps
<1> QED BY <1>3, <1>4 DEF DeleteFenced

(* refresh_ttl preserves the invariant. *)
LEMMA RefreshTtlKeeps ==
  ASSUME Inv, NEW sample \in 0..MaxTime, NEW g \in guards,
         NEW ttl \in RecordTtls, RefreshTtl(g, ttl, sample)
  PROVE  Inv'
<1> DEFINE now == CommandTime(sample)
           p == Prune(store, now)
           exp == now + ttl
<1>1. g \in Guard /\ g.key \in Keys
  BY DEF Inv, TypeOK, Guard
<1>2. now \in Nat /\ exp \in Int /\ hidden' \subseteq Keys
  BY <1>1, CommandTimeType, ObserveExpiryType, InputsAssumption DEF Inv, RefreshTtl
<1>3. CASE Refuse(now)
  BY <1>2, <1>3, RefuseKeeps
<1>4. CASE /\ RefreshAccepted(p, g, now)
           /\ Stage(RefreshRecord(p, g, exp), "finalize", RefreshOp(g, exp), None, now)
  <2>1. p \in StoreState /\ StoreInv(p)
    BY PrunedStore
  <2> HIDE DEF exp
  <2>2. RowEdit(p, RefreshRecord(p, g, exp), g.key)
    BY <1>1, <1>2, <1>4, <2>1, DataEdits
  <2>3. RefreshOp(g, exp) \in Ops
    BY <1>1, <1>2, DataOpTypes DEF Ops
  <2> HIDE DEF now
  <2> QED BY <1>1, <1>2, <1>4, <2>2, <2>3, StageKeeps
<1> QED BY <1>3, <1>4 DEF RefreshTtl

(* Opening a batch preserves the invariant. *)
LEMMA BatchStartKeeps ==
  ASSUME Inv, NEW sample \in 0..MaxTime, BatchStart(sample)
  PROVE  Inv'
<1> DEFINE now == CommandTime(sample)
           p == Prune(store, now)
           op == [kind |-> "batch", ops |-> <<>>]
<1>1. now \in Nat /\ hidden' \subseteq Keys
  BY CommandTimeType DEF Inv, TypeOK, BatchStart
<1>2. p \in StoreState /\ StoreInv(p) /\ Advances(store, p)
  BY PruneType, PruneKeeps DEF Inv, TypeOK, StatesSafe
<1>3. op \in BatchOps
  BY DEF BatchOps
<1>4. Stage(p, "batch", op, None, now)
  BY DEF BatchStart
<1> HIDE DEF now, p, op
<1>5. cmd' \in Command
  BY <1>1, <1>3, <1>4 DEF Stage, Command, Ops
<1>6. TypeOK'
  BY <1>1, <1>2, <1>4, <1>5 DEF Stage, Inv, TypeOK
<1>7. StatesSafe'
  BY <1>2, <1>4 DEF Stage, Inv, StatesSafe
<1>8. GuardsSafe' /\ PendingGuardSafe'
  BY <1>4 DEF Stage, Inv, GuardsSafe, IssuedFencesObserved, FencesNeverReused,
              CurrentFence, PendingGuardSafe
<1> QED BY <1>3, <1>4, <1>6, <1>7, <1>8 DEF Stage, Inv

(* A batch child that edits one row preserves the invariant. *)
LEMMA BatchChildKeeps ==
  ASSUME Inv, phase = "batch", NEW t, NEW k \in Keys, RowEdit(staged, t, k),
         NEW op \in DataOps, BatchChild(t, op)
  PROVE  Inv'
<1>1. staged \in StoreState /\ store \in StoreState /\ StoreInv(staged)
      /\ Advances(store, staged)
  BY DEF Inv, TypeOK, StatesSafe
<1>2. t \in StoreState /\ StoreInv(t) /\ Advances(staged, t)
  BY <1>1, RowEditKeeps DEF RowEdit
<1>3. Advances(store, t)
  BY <1>1, <1>2, AdvancesTrans
<1>4. cmd.op \in BatchOps /\ cmd.guard = None /\ cmd \in Command
  BY DEF Inv, TypeOK
<1> DEFINE more == Append(cmd.op.ops, op)
           new == [cmd.op EXCEPT !.ops = more]
<1>5. more \in Seq(DataOps)
  BY <1>4 DEF BatchOps
<1> HIDE DEF more
<1>6. new \in BatchOps
  BY <1>4, <1>5 DEF BatchOps
<1>7. cmd' = [cmd EXCEPT !.op = new]
  BY <1>4 DEF BatchChild, Command, more
<1> HIDE DEF new
<1>8. cmd' \in Command /\ cmd'.op = new /\ cmd'.guard = None
  BY <1>4, <1>6, <1>7 DEF Command, Ops
<1>9. TypeOK'
  BY <1>2, <1>8 DEF BatchChild, Inv, TypeOK
<1>10. StatesSafe'
  BY <1>2, <1>3 DEF BatchChild, Inv, StatesSafe
<1>11. GuardsSafe' /\ PendingGuardSafe'
  BY <1>8 DEF BatchChild, Inv, GuardsSafe, IssuedFencesObserved,
              FencesNeverReused, CurrentFence, PendingGuardSafe
<1> QED BY <1>6, <1>8, <1>9, <1>10, <1>11 DEF Inv

(* Every step of a batch preserves the invariant. *)
LEMMA BatchStepKeeps ==
  ASSUME Inv, BatchStep
  PROVE  Inv'
<1>1. staged \in StoreState /\ store \in StoreState /\ StoreInv(staged)
      /\ cmd \in Command /\ cmd.now \in Nat
  BY DEF Inv, TypeOK, StatesSafe, Command
<1>2. \A g \in guards : g \in Guard /\ g.key \in Keys
  BY DEF Inv, TypeOK, Guard
<1>3. ASSUME NEW g \in guards, NEW expected \in Generations \cup {None},
             BatchCas(g, expected)
      PROVE  Inv'
  <2>1. PICK r \in RecordInputs(g, cmd.now) :
          /\ CasAccepted(staged, g, expected, r, cmd.now)
          /\ BatchChild(PutRecord(staged, g, r), CasOp(g, expected, r))
    BY <1>3 DEF BatchCas
  <2>2. r \in Record
    BY <1>1, <1>2, RecordInputsType
  <2>3. RowEdit(staged, PutRecord(staged, g, r), g.key)
    BY <1>1, <1>2, <2>1, <2>2, DataEdits
  <2>4. CasOp(g, expected, r) \in DataOps
    BY <1>2, <2>2, DataOpTypes, InputsAssumption
  <2>5. phase = "batch"
    BY <1>3 DEF BatchCas, InBatch
  <2> QED BY <1>2, <2>1, <2>3, <2>4, <2>5, BatchChildKeeps
<1>4. ASSUME NEW g \in guards, BatchDelete(g)
      PROVE  Inv'
  <2>1. RowEdit(staged, DeleteRecord(staged, g), g.key)
    BY <1>1, <1>2, <1>4, DataEdits DEF BatchDelete
  <2>2. DeleteOp(g) \in DataOps
    BY <1>2, DataOpTypes
  <2>3. phase = "batch" /\ BatchChild(DeleteRecord(staged, g), DeleteOp(g))
    BY <1>4 DEF BatchDelete, InBatch
  <2> QED BY <1>2, <2>1, <2>2, <2>3, BatchChildKeeps
<1>5. ASSUME NEW g \in guards, NEW ttl \in RecordTtls, BatchRefresh(g, ttl)
      PROVE  Inv'
  <2> DEFINE exp == cmd.now + ttl
  <2>1. exp \in Int
    BY <1>1, InputsAssumption
  <2>2. /\ RefreshAccepted(staged, g, cmd.now)
        /\ BatchChild(RefreshRecord(staged, g, exp), RefreshOp(g, exp))
        /\ phase = "batch"
    BY <1>5 DEF BatchRefresh, InBatch
  <2> HIDE DEF exp
  <2>3. RowEdit(staged, RefreshRecord(staged, g, exp), g.key)
    BY <1>1, <1>2, <2>1, <2>2, DataEdits
  <2>4. RefreshOp(g, exp) \in DataOps
    BY <1>2, <2>1, DataOpTypes
  <2> QED BY <1>2, <2>2, <2>3, <2>4, BatchChildKeeps
<1>6. ASSUME NEW k \in Keys, BatchGet(k)
      PROVE  Inv'
  <2> DEFINE r == IF staged.records[k] # None THEN staged.records[k]
                  ELSE store.records[k]
  <2>1. /\ r # None
        /\ cmd' = [cmd EXCEPT !.reads = @ \cup {<<k, r>>}]
        /\ UNCHANGED <<store, staged, phase, log, lastSeq, compacted,
                       writerTime, hidden, guards>>
    BY <1>6 DEF BatchGet
  <2>2. r \in Record
    BY <1>1, <2>1 DEF StoreState
  <2> HIDE DEF r
  <2>3. cmd' \in Command /\ cmd'.op = cmd.op /\ cmd'.guard = cmd.guard
    BY <1>1, <2>1, <2>2 DEF Command
  <2>4. TypeOK' /\ StatesSafe'
    BY <2>1, <2>3 DEF Inv, TypeOK, StatesSafe
  <2>5. GuardsSafe' /\ PendingGuardSafe'
    BY <2>1, <2>3 DEF Inv, GuardsSafe, IssuedFencesObserved, FencesNeverReused,
                      CurrentFence, PendingGuardSafe, SameAcquisition
  <2> QED BY <2>1, <2>3, <2>4, <2>5 DEF Inv
<1>7. ASSUME BatchEnd
      PROVE  Inv'
  <2>1. CASE cmd.op.ops # <<>>
    <3>1. phase' = "finalize"
          /\ UNCHANGED <<store, staged, cmd, log, lastSeq, compacted,
                         writerTime, hidden, guards>>
      BY <1>7, <2>1 DEF BatchEnd
    <3>2. TypeOK' /\ StatesSafe'
      BY <3>1 DEF Inv, TypeOK, StatesSafe
    <3>3. GuardsSafe' /\ PendingGuardSafe'
      BY <3>1 DEF Inv, GuardsSafe, IssuedFencesObserved, FencesNeverReused,
                  CurrentFence, PendingGuardSafe, SameAcquisition
    <3> QED BY <3>1, <3>2, <3>3 DEF Inv
  <2>2. CASE cmd.op.ops = <<>>
    <3>1. /\ phase' = "idle" /\ staged' = store /\ cmd' = NoCommand
          /\ hidden' = hidden \cup StillCommitted(cmd.reads, store.records)
          /\ UNCHANGED <<store, log, lastSeq, compacted, writerTime, guards>>
      BY <1>7, <2>2 DEF BatchEnd
    <3>2. NoCommand \in Command /\ NoCommand.guard = None
      BY DEF NoCommand, Command, Ops
    <3>3. TypeOK'
      BY <3>1, <3>2 DEF Inv, TypeOK, StillCommitted
    <3>4. StatesSafe'
      BY <3>1, <1>1, AdvancesRefl DEF Inv, StatesSafe
    <3>5. GuardsSafe' /\ PendingGuardSafe'
      BY <3>1, <3>2 DEF Inv, GuardsSafe, IssuedFencesObserved,
                        FencesNeverReused, CurrentFence, PendingGuardSafe
    <3> QED BY <3>1, <3>3, <3>4, <3>5 DEF Inv
  <2> QED BY <2>1, <2>2
<1> QED BY <1>3, <1>4, <1>5, <1>6, <1>7 DEF BatchStep

-----------------------------------------------------------------------------
(* Finalization.                                                           *)

(* Any step that only moves the staged state forward. *)
LEMMA StagedStepKeeps ==
  ASSUME Inv, phase = "finalize", NEW t \in StoreState, StoreInv(t),
         Advances(staged, t), staged' = t,
         cmd' \in Command, cmd'.guard = cmd.guard,
         UNCHANGED <<store, phase, log, lastSeq, compacted, writerTime, hidden,
                     guards>>
  PROVE  Inv'
<1>1. staged \in StoreState /\ store \in StoreState /\ Advances(store, staged)
      /\ cmd \in Command /\ guards \subseteq Guard
  BY DEF Inv, TypeOK, StatesSafe
<1>2. Advances(store, t)
  BY <1>1, AdvancesTrans
<1>3. TypeOK' /\ StatesSafe'
  BY <1>2 DEF Inv, TypeOK, StatesSafe
<1>4. GuardsSafe'
  BY DEF Inv, GuardsSafe, IssuedFencesObserved, FencesNeverReused, CurrentFence
<1>5. PendingGuardSafe'
  <2> SUFFICES ASSUME cmd.guard # None
               PROVE  /\ cmd.guard.fence <= CurrentFence(t, cmd.guard.key)
                      /\ cmd.guard.fence < t.nextFence
                      /\ \A h \in guards : h.fence = cmd.guard.fence
                            => SameAcquisition(cmd.guard, h)
    BY DEF PendingGuardSafe, CurrentFence, SameAcquisition
  <2>1. cmd.guard \in Guard /\ cmd.guard.key \in Keys /\ cmd.guard.fence \in Nat
    BY <1>1 DEF Command, Guard
  <2>2. /\ CurrentFence(staged, cmd.guard.key) \in Nat
        /\ CurrentFence(t, cmd.guard.key) \in Nat
        /\ staged.nextFence \in Nat /\ t.nextFence \in Nat
    BY <1>1, <2>1, FenceIsNat DEF StoreState
  <2>3. /\ CurrentFence(staged, cmd.guard.key) <= CurrentFence(t, cmd.guard.key)
        /\ staged.nextFence <= t.nextFence
    BY <2>1 DEF Advances, FencesAdvance
  <2> QED BY <2>1, <2>2, <2>3 DEF Inv, PendingGuardSafe
<1> QED BY <1>3, <1>4, <1>5 DEF Inv

(* One round of retire_dead_keys preserves the invariant. *)
LEMMA RetireDeadKeyKeeps ==
  ASSUME Inv, NEW k \in staged.candidates, RetireDeadKey(k)
  PROVE  Inv'
<1> DEFINE s == Retire(staged, k)
<1>1. staged \in StoreState /\ StoreInv(staged) /\ cmd \in Command
  BY DEF Inv, TypeOK, StatesSafe
<1>2. k \in Keys
  BY <1>1 DEF StoreState
<1>3. /\ s \in StoreState
      /\ RetiredFencesValid(s) /\ RowsFenced(s) /\ Advances(staged, s)
      /\ ~ReachesThreshold(staged, k) => RetentionValid(s)
  BY <1>1, <1>2, RetireFields, RetireKeeps
<1> HIDE DEF s
<1>4. /\ phase = "finalize"
      /\ \/ ~ReachesThreshold(staged, k) /\ staged' = s
         \/ staged' = Rotate(s)
      /\ cmd' = cmd
      /\ UNCHANGED <<store, phase, log, lastSeq, compacted, writerTime, hidden,
                     guards>>
  BY DEF RetireDeadKey, s
<1>5. CASE ~ReachesThreshold(staged, k) /\ staged' = s
  <2>1. StoreInv(s)
    BY <1>3, <1>5 DEF StoreInv
  <2> QED BY <1>1, <1>3, <1>4, <1>5, <2>1, StagedStepKeeps
<1>6. CASE staged' = Rotate(s)
  <2>1. Rotate(s) \in StoreState /\ StoreInv(Rotate(s)) /\ Advances(s, Rotate(s))
    BY <1>3, RotateFields, RotateKeeps
  <2>2. Advances(staged, Rotate(s))
    BY <1>1, <1>3, <2>1, AdvancesTrans
  <2> QED BY <1>1, <1>4, <1>6, <2>1, <2>2, StagedStepKeeps
<1> QED BY <1>4, <1>5, <1>6

(* A capacity rotation preserves the invariant. *)
LEMMA RotateForCapacityKeeps ==
  ASSUME Inv, RotateForCapacity
  PROVE  Inv'
<1>1. staged \in StoreState /\ StoreInv(staged) /\ cmd \in Command
  BY DEF Inv, TypeOK, StatesSafe
<1>2. /\ Rotate(staged) \in StoreState /\ StoreInv(Rotate(staged))
      /\ Advances(staged, Rotate(staged))
  BY <1>1, RotateFields, RotateKeeps DEF StoreInv
<1>3. cmd' = [cmd EXCEPT !.rotations = cmd.rotations + 1]
  BY DEF RotateForCapacity
<1>4. cmd' \in Command /\ cmd'.guard = cmd.guard
  BY <1>1, <1>3 DEF Command
<1>5. /\ phase = "finalize" /\ staged' = Rotate(staged)
      /\ UNCHANGED <<store, phase, log, lastSeq, compacted, writerTime, hidden,
                     guards>>
  BY DEF RotateForCapacity
<1> QED BY <1>2, <1>4, <1>5, StagedStepKeeps

(* compact_replication_log returns a log and a sequence. *)
LEMMA CompactType ==
  ASSUME NEW entries \in Seq(Entry), TypeOK
  PROVE  Compact(entries) \in Seq(Entry) /\ CompactedThrough(entries) \in Nat
<1>1. Len(entries) \in Nat /\ MaxReplicationEntries \in Nat /\ compacted \in Nat
  BY LimitsAssumption DEF TypeOK
<1>2. CASE Len(entries) <= MaxReplicationEntries
  BY <1>1, <1>2 DEF Compact, CompactedThrough
<1>3. CASE ~(Len(entries) <= MaxReplicationEntries)
  <2> DEFINE n == Len(entries) - MaxReplicationEntries
  <2>1. n \in 1..Len(entries)
    BY <1>1, <1>3
  <2>2. entries[n] \in Entry
    BY <2>1
  <2>3. entries[n].seq \in Nat
    BY <2>2 DEF Entry
  <2>4. CompactedThrough(entries) = MaxOf(compacted, entries[n].seq)
    BY <1>3 DEF CompactedThrough
  <2>5. Compact(entries) = SubSeq(entries, n + 1, Len(entries))
    BY <1>3 DEF Compact
  <2> HIDE DEF n
  <2>6. SubSeq(entries, n + 1, Len(entries)) \in Seq(Entry)
    <3>1. \A i \in (n + 1)..Len(entries) : entries[i] \in Entry
      BY <1>1, <2>1
    <3> QED BY <1>1, <2>1, <3>1
  <2> QED BY <1>1, <2>3, <2>4, <2>5, <2>6 DEF MaxOf
<1> QED BY <1>2, <1>3

(* Publishing the staged state preserves the invariant. *)
LEMMA CommitKeeps ==
  ASSUME Inv, Commit
  PROVE  Inv'
<1>1. /\ staged \in StoreState /\ store \in StoreState /\ StoreInv(staged)
      /\ cmd \in Command /\ cmd.now \in Nat /\ Advances(store, staged)
      /\ guards \subseteq Guard
  BY DEF Inv, TypeOK, StatesSafe, Command
<1>2. store' = [staged EXCEPT !.committedTime = cmd.now] /\ staged' = store'
  BY DEF Commit
<1>3. /\ store' \in StoreState
      /\ store'.records = staged.records /\ store'.leases = staged.leases
      /\ store'.fences = staged.fences /\ store'.retired = staged.retired
      /\ store'.retention = staged.retention
      /\ store'.nextFence = staged.nextFence
  BY <1>1, <1>2 DEF StoreState
<1>4. StoreInv(store')
  BY <1>1, <1>3 DEF StoreInv, RetentionValid, RetiredFencesValid, RetiredKeys,
                    RowsFenced, Dead
<1>5. StatesSafe'
  <2>1. Advances(store', store')
    BY <1>3, AdvancesRefl
  <2> QED BY <1>2, <1>4, <2>1 DEF StatesSafe
<1>6. TypeOK'
  <2> DEFINE entry == [seq |-> lastSeq + 1, op |-> cmd.op, time |-> cmd.now,
                       rotations |-> cmd.rotations]
             entries == Append(log, entry)
  <2>1. entry \in Entry
    BY <1>1 DEF Inv, TypeOK, Entry, Command
  <2>2. entries \in Seq(Entry)
    BY <2>1 DEF Inv, TypeOK
  <2>3. log' = Compact(entries) /\ compacted' = CompactedThrough(entries)
    BY DEF Commit
  <2> HIDE DEF entries
  <2>4. log' \in Seq(Entry) /\ compacted' \in Nat
    BY <2>2, <2>3, CompactType DEF Inv
  <2>5. cmd' \in Command
    BY DEF Commit, NoCommand, Command, Ops
  <2>6. lastSeq' \in Nat /\ writerTime' \in Nat /\ phase' = "idle"
    BY DEF Inv, TypeOK, Commit
  <2>7. hidden' \subseteq Keys
    BY DEF Inv, TypeOK, Commit, KeptMarks, StillCommitted
  <2>8. guards' \subseteq Guard
    BY <1>1 DEF Commit, Command
  <2> QED BY <1>2, <1>3, <2>4, <2>5, <2>6, <2>7, <2>8 DEF TypeOK
<1>7. \A k \in Keys : /\ CurrentFence(store', k) = CurrentFence(staged, k)
                      /\ CurrentFence(store, k) <= CurrentFence(store', k)
                      /\ CurrentFence(store, k) \in Nat
                      /\ CurrentFence(store', k) \in Nat
  BY <1>1, <1>3, FenceIsNat DEF CurrentFence, Advances, FencesAdvance
<1>8. guards' = IF cmd.guard = None THEN guards ELSE guards \cup {cmd.guard}
  BY DEF Commit
<1>9. \A g \in guards : /\ g.key \in Keys /\ g.fence \in Nat
                        /\ g.fence <= CurrentFence(store', g.key)
                        /\ g.fence < store'.nextFence
  <2> SUFFICES ASSUME NEW g \in guards
               PROVE  /\ g.key \in Keys /\ g.fence \in Nat
                      /\ g.fence <= CurrentFence(store', g.key)
                      /\ g.fence < store'.nextFence
    OBVIOUS
  <2>1. g.key \in Keys /\ g.fence \in Nat
    BY <1>1 DEF Guard
  <2>2. g.fence <= CurrentFence(store, g.key) /\ g.fence < store.nextFence
    BY DEF Inv, GuardsSafe, IssuedFencesObserved
  <2>3. /\ store.nextFence \in Nat /\ staged.nextFence \in Nat
        /\ store.nextFence <= staged.nextFence
    BY <1>1 DEF StoreState, Advances
  <2> QED BY <1>3, <1>7, <2>1, <2>2, <2>3
<1>10. GuardsSafe'
  <2>1. CASE cmd.guard = None
    BY <1>8, <1>9, <2>1
       DEF Inv, GuardsSafe, IssuedFencesObserved, FencesNeverReused, CurrentFence
  <2>2. CASE cmd.guard # None
    <3>1. /\ cmd.guard \in Guard /\ cmd.guard.key \in Keys
          /\ guards' = guards \cup {cmd.guard}
      BY <1>1, <1>8, <2>2 DEF Command, Guard
    <3>2. /\ cmd.guard.fence <= CurrentFence(store', cmd.guard.key)
          /\ cmd.guard.fence < store'.nextFence
          /\ \A h \in guards : h.fence = cmd.guard.fence
                => SameAcquisition(cmd.guard, h)
      BY <1>3, <1>7, <2>2, <3>1 DEF Inv, PendingGuardSafe
    <3>3. \A g \in guards' : g.fence <= CurrentFence(store', g.key)
                             /\ g.fence < store'.nextFence
      BY <1>9, <3>1, <3>2
    <3>4. \A g, h \in guards' : g.fence = h.fence => SameAcquisition(g, h)
      BY <3>1, <3>2 DEF Inv, GuardsSafe, FencesNeverReused, SameAcquisition
    <3> QED BY <3>3, <3>4
            DEF GuardsSafe, IssuedFencesObserved, FencesNeverReused,
                CurrentFence, SameAcquisition
  <2> QED BY <2>1, <2>2
<1>11. PendingGuardSafe' /\ phase' # "batch"
  BY DEF Commit, NoCommand, PendingGuardSafe
<1> QED BY <1>5, <1>6, <1>10, <1>11 DEF Inv

(* A stuttering step preserves the invariant. *)
LEMMA StutterKeeps ==
  ASSUME Inv, UNCHANGED vars
  PROVE  Inv'
BY DEF vars, Inv, TypeOK, StatesSafe, GuardsSafe, IssuedFencesObserved,
       FencesNeverReused, PendingGuardSafe, CurrentFence, StoreInv,
       RetentionValid, RetiredFencesValid, RetiredKeys, RowsFenced, Dead,
       Advances, FencesAdvance, RecordsAdvance, RecordFrom, SameAcquisition

(* Every step preserves the invariant. *)
LEMMA NextKeeps == Inv /\ [Next]_vars => Inv'
<1> SUFFICES ASSUME Inv, [Next]_vars PROVE Inv'
  OBVIOUS
<1>1. ASSUME NEW sample \in 0..MaxTime, LeaseStep(sample) PROVE Inv'
  BY <1>1, AcquireKeeps, RenewKeeps, ReleaseKeeps DEF LeaseStep
<1>2. ASSUME NEW sample \in 0..MaxTime, DataStep(sample) PROVE Inv'
  BY <1>2, GetKeeps, CompareAndSetKeeps, DeleteFencedKeeps, RefreshTtlKeeps,
     BatchStartKeeps DEF DataStep
<1>3. ASSUME FinalizeStep PROVE Inv'
  BY <1>3, RetireDeadKeyKeeps, RotateForCapacityKeeps, CommitKeeps DEF FinalizeStep
<1>4. CASE UNCHANGED vars
  BY <1>4, StutterKeeps
<1> QED BY <1>1, <1>2, <1>3, <1>4, BatchStepKeeps DEF Next

(* The inductive invariant holds in every reachable state of the backend. *)
THEOREM Invariance == Spec => []Inv
BY InitInv, NextKeeps, PTL DEF Spec

-----------------------------------------------------------------------------
(* The theorems.                                                           *)

(* Every variable keeps its type. *)
THEOREM TypeCorrect == Spec => []TypeOK
<1>1. Inv => TypeOK
  BY DEF Inv
<1> QED BY <1>1, Invariance, PTL

(* The bounded key history is valid in every staged and committed state:   *)
(* what KeyRetention::valid and valid_retired_fence check on load holds    *)
(* throughout every command.                                               *)
THEOREM HistoryValid == Spec => []ExactHistoryValid
<1>1. Inv => ExactHistoryValid
  BY DEF Inv, StatesSafe, StoreInv, ExactHistoryValid
<1> QED BY <1>1, Invariance, PTL

(* No fence ever handed out for a key exceeds the fence observed for it,   *)
(* also once the exact history of the key is gone.                         *)
THEOREM FencesObserved == Spec => []IssuedFencesObserved
<1>1. Inv => IssuedFencesObserved
  BY DEF Inv, GuardsSafe
<1> QED BY <1>1, Invariance, PTL

(* A fence token identifies one acquisition for ever. *)
THEOREM FencesUnique == Spec => []FencesNeverReused
<1>1. Inv => FencesNeverReused
  BY DEF Inv, GuardsSafe
<1> QED BY <1>1, Invariance, PTL

(* A guard that still validates carries the newest fence of its key. *)
THEOREM HolderNewest == Spec => []HolderIsNewest
<1>1. Inv => HolderIsNewest
  <2> SUFFICES ASSUME Inv, NEW g \in guards, NEW h \in guards, g.key = h.key,
                      g.fence >= CurrentFence(store, g.key)
               PROVE  h.fence <= g.fence
    BY DEF HolderIsNewest, Validates
  <2>1. h.fence \in Nat /\ g.fence \in Nat /\ g.key \in Keys
    BY DEF Inv, TypeOK, Guard
  <2>2. CurrentFence(store, g.key) \in Nat
    BY <2>1, FenceIsNat DEF Inv, TypeOK
  <2>3. h.fence <= CurrentFence(store, g.key)
    BY DEF Inv, GuardsSafe, IssuedFencesObserved
  <2> QED BY <2>1, <2>2, <2>3
<1> QED BY <1>1, Invariance, PTL

(* Only Commit changes the committed state, and it installs the staged one. *)
LEMMA StoreSteps ==
  ASSUME [Next]_vars
  PROVE  store' = store \/ store' = [staged EXCEPT !.committedTime = cmd.now]
BY DEF Next, LeaseStep, DataStep, BatchStep, FinalizeStep, Acquire, Renew,
       Release, Get, CompareAndSet, DeleteFenced, RefreshTtl, BatchStart,
       BatchCas, BatchDelete, BatchRefresh, BatchGet, BatchEnd, BatchChild,
       RetireDeadKey, RotateForCapacity, Commit, Stage, Refuse, vars

(* The published state only moves forward: no key's fence falls and no     *)
(* record is replaced under an older one.                                  *)
LEMMA StoreAdvances ==
  ASSUME Inv, [Next]_vars
  PROVE  FencesAdvance(store, store') /\ RecordsAdvance(store, store')
<1>1. store \in StoreState /\ staged \in StoreState /\ Advances(store, staged)
  BY DEF Inv, TypeOK, StatesSafe
<1>2. CASE store' = store
  BY <1>1, <1>2, AdvancesRefl DEF Advances
<1>3. CASE store' = [staged EXCEPT !.committedTime = cmd.now]
  <2>1. /\ store'.records = staged.records /\ store'.fences = staged.fences
        /\ store'.retention = staged.retention
    BY <1>1, <1>3 DEF StoreState
  <2> QED BY <1>1, <2>1 DEF Advances, FencesAdvance, RecordsAdvance, CurrentFence
<1> QED BY <1>2, <1>3, StoreSteps

(* The fence observed for a key never goes back. *)
THEOREM FencesMonotonic == Spec => FenceNeverDecreases
<1>1. Inv /\ [Next]_vars
        => [\A k \in Keys : CurrentFence(store, k) <= CurrentFence(store', k)]_vars
  BY StoreAdvances DEF FencesAdvance
<1> QED BY <1>1, Invariance, PTL DEF Spec, FenceNeverDecreases

(* No committed record is replaced by one of an older fence. *)
THEOREM WritesFenced == Spec => WritesFollowFences
<1>1. ASSUME Inv, [Next]_vars, NEW k \in Keys,
             store.records[k] # None, store'.records[k] # None
      PROVE  store.records[k].fence <= store'.records[k].fence
  <2>1. RecordFrom(store, k, store'.records[k])
    BY <1>1, StoreAdvances DEF RecordsAdvance
  <2>2. /\ store.fences[k] # 0 /\ store.records[k].fence <= store.fences[k]
        /\ store.records[k].fence \in Nat /\ store.fences[k] \in Nat
    BY <1>1 DEF Inv, TypeOK, StatesSafe, StoreInv, RowsFenced, StoreState, Record
  <2>3. store'.records[k].fence \in Nat
    <3>1. store' \in StoreState
      BY <1>1, NextKeeps DEF Inv, TypeOK
    <3> QED BY <1>1, <3>1 DEF StoreState, Record
  <2> QED BY <2>1, <2>2, <2>3 DEF RecordFrom, CurrentFence
<1>2. Inv /\ [Next]_vars
        => [\A k \in Keys :
              store.records[k] # None /\ store'.records[k] # None
                => store.records[k].fence <= store'.records[k].fence]_vars
  BY <1>1
<1> QED BY <1>2, Invariance, PTL DEF Spec, WritesFollowFences

-----------------------------------------------------------------------------
(* The refinement of FencedLeases.                                         *)
(*                                                                         *)
(* Only Commit is visible to the users of the service, and by then the     *)
(* effect of its command is spread over the steps that staged, batched and *)
(* finalized it. EffectInv says at each of them what the staged state is   *)
(* to the committed one pruned at the command time.                        *)

(* A lease entry as its users see it. *)
VisibleLease(l) ==
  IF l # None /\ l.status = "active"
  THEN [owner |-> l.owner, fence |-> l.fence, exp |-> l.exp]
  ELSE None

OnlyLease(p, t, k) ==
  /\ \A j \in Keys \ {k} : t.leases[j] = p.leases[j]
  /\ t.records = p.records

(* t is p with k granted under a fence above all of those issued, ... *)
Granted(p, t, guard, issued, k) ==
  /\ guard # None
  /\ p.leases[k] = None \/ p.leases[k].owner = guard.owner
  /\ t.leases[k] # None /\ t.leases[k].status = "active"
  /\ t.leases[k].owner = guard.owner /\ t.leases[k].fence = guard.fence
  /\ \A g \in issued : g.fence < guard.fence
  /\ OnlyLease(p, t, k)

(* ... with its lease extended, ... *)
Prolonged(p, t, guard, issued, k) ==
  /\ p.leases[k] # None
  /\ t.leases[k] = [p.leases[k] EXCEPT !.exp = t.leases[k].exp]
  /\ t.leases[k] \in Lease
  /\ guard # None /\ \E g \in issued : g.fence = guard.fence
  /\ OnlyLease(p, t, k)

(* ... with its lease released, ... *)
GivenUp(p, t, guard, k) ==
  /\ p.leases[k] # None
  /\ t.leases[k] # None /\ t.leases[k].status = "released"
  /\ guard = None
  /\ OnlyLease(p, t, k)

(* ... or with records changed in the name of the holders of their keys.   *)
WrittenAt(p, t, k) ==
  \/ t.records[k] = p.records[k]
  \/ /\ p.leases[k] # None
     /\ \/ t.records[k] = None
        \/ /\ t.records[k] # None
           /\ t.records[k].owner = p.leases[k].owner
           /\ t.records[k].fence = p.leases[k].fence
        \/ /\ t.records[k] # None /\ p.records[k] # None
           /\ t.records[k] = [p.records[k] EXCEPT !.exp = t.records[k].exp]

Written(p, t, guard) ==
  /\ guard = None
  /\ t.leases = p.leases
  /\ \A k \in Keys : WrittenAt(p, t, k)

Effect(p, t, guard, issued) ==
  \/ \E k \in Keys : \/ Granted(p, t, guard, issued, k)
                     \/ Prolonged(p, t, guard, issued, k)
                     \/ GivenUp(p, t, guard, k)
  \/ Written(p, t, guard)

EffectInv ==
  /\ phase # "idle" =>
       /\ store.committedTime <= cmd.now
       /\ Effect(Prune(store, cmd.now), staged, cmd.guard, guards)
  /\ phase = "batch" => Written(Prune(store, cmd.now), staged, cmd.guard)

(* What prune_state leaves is what the abstract service has at that time.  *)
LEMMA PrunedLeases ==
  ASSUME NEW s \in StoreState, NEW now \in Nat, NEW k \in Keys
  PROVE  LET p == Prune(s, now)
         IN /\ p.leases[k] = IF s.leases[k] # None
                                /\ (s.leases[k].status # "active"
                                    \/ s.leases[k].exp <= now)
                             THEN None ELSE s.leases[k]
            /\ p.records[k] = IF s.records[k] # None /\ Expired(s.records[k], now)
                              THEN None ELSE s.records[k]
            /\ p.leases[k] # None => /\ p.leases[k] \in Lease
                                     /\ p.leases[k].status = "active"
                                     /\ p.leases[k].exp > now
<1> DEFINE p == Prune(s, now)
<1>1. /\ p.leases[k] = IF s.leases[k] # None
                          /\ (s.leases[k].status # "active" \/ s.leases[k].exp <= now)
                       THEN None ELSE s.leases[k]
      /\ p.records[k] = IF s.records[k] # None /\ Expired(s.records[k], now)
                        THEN None ELSE s.records[k]
  BY DEF Prune, StoreState
<1> HIDE DEF p
<1>2. s.leases[k] # None => s.leases[k] \in Lease /\ s.leases[k].exp \in Int
  BY DEF StoreState, Lease
<1>3. p.leases[k] # None => /\ p.leases[k] \in Lease
                            /\ p.leases[k].status = "active"
                            /\ p.leases[k].exp > now
  BY <1>1, <1>2
<1> QED BY <1>1, <1>3 DEF p

LEMMA VisibleAt ==
  ASSUME Inv, NEW now \in Nat, NEW k \in Keys
  PROVE  /\ Leases!LeaseAt(k, now) = VisibleLease(Prune(store, now).leases[k])
         /\ Leases!RecordAt(k, now) = Prune(store, now).records[k]
<1>1. store \in StoreState
  BY DEF Inv, TypeOK
<1> DEFINE p == Prune(store, now)
<1>2. /\ p.leases[k] = IF store.leases[k] # None
                          /\ (store.leases[k].status # "active"
                              \/ store.leases[k].exp <= now)
                       THEN None ELSE store.leases[k]
      /\ p.records[k] = IF store.records[k] # None /\ Expired(store.records[k], now)
                        THEN None ELSE store.records[k]
  BY <1>1, PrunedLeases
<1> HIDE DEF p
<1>3. HeldLease(k) = VisibleLease(store.leases[k])
  BY DEF HeldLease, VisibleLease
<1>4. /\ store.leases[k] # None => store.leases[k] \in Lease
      /\ \A l \in Lease : l.status = "active" =>
           VisibleLease(l) \in [owner : Owners, fence : Nat, exp : Int]
                /\ VisibleLease(l).exp = l.exp
  BY <1>1, NoneAssumption DEF StoreState, Lease, VisibleLease
<1>5. Leases!LeaseAt(k, now) = IF HeldLease(k) # None /\ HeldLease(k).exp <= now
                               THEN None ELSE HeldLease(k)
  BY DEF Leases!LeaseAt
<1>6. Leases!LeaseAt(k, now) = VisibleLease(p.leases[k])
  BY <1>2, <1>3, <1>4, <1>5, NoneAssumption DEF VisibleLease
<1>7. Leases!RecordAt(k, now) = p.records[k]
  BY <1>2 DEF Leases!RecordAt, Expired
<1> QED BY <1>6, <1>7 DEF p

(* Staging one command. *)
LEMMA StageEffect ==
  ASSUME Inv, NEW now \in Nat, store.committedTime <= now, NEW t, NEW op, NEW guard,
         Stage(t, "finalize", op, guard, now),
         Effect(Prune(store, now), t, guard, guards)
  PROVE  EffectInv'
<1>1. /\ staged' = t /\ phase' = "finalize" /\ store' = store /\ guards' = guards
      /\ cmd'.now = now /\ cmd'.guard = guard
  BY DEF Stage
<1> QED BY <1>1 DEF EffectInv

LEMMA RefuseEffect ==
  ASSUME EffectInv, UNCHANGED <<store, staged, phase, cmd, guards>>
  PROVE  EffectInv'
BY DEF EffectInv

(* command_time is not before the committed time. *)
LEMMA CommandTimeBound ==
  ASSUME TypeOK, NEW sample \in 0..MaxTime
  PROVE  store.committedTime <= CommandTime(sample)
<1>1. sample \in Nat /\ writerTime \in Nat /\ store.committedTime \in Nat
  BY InputsAssumption DEF TypeOK, StoreState
<1> QED BY <1>1 DEF CommandTime, MaxOf

LEMMA AcquireEffect ==
  ASSUME Inv, EffectInv, NEW sample \in 0..MaxTime, NEW k \in Keys,
         NEW owner \in Owners, NEW ttl \in LeaseTtls, Acquire(k, owner, ttl, sample)
  PROVE  EffectInv'
<1>1. PICK now : now = CommandTime(sample)
  OBVIOUS
<1>2. PICK p : p = Prune(store, now)
  OBVIOUS
<1>3. PICK f : f = AcquiredFence(p, k)
  OBVIOUS
<1>4. PICK guard : guard = [key |-> k, owner |-> owner, fence |-> f,
                            exp |-> now + ttl, cred |-> p.nextCred]
  OBVIOUS
<1>5. PICK t : t = AcquireLease(p, k, owner, now + ttl)
  OBVIOUS
<1>6. now \in Nat /\ now + ttl \in Int /\ store.committedTime <= now
      /\ p \in StoreState /\ StoreInv(p) /\ p.nextFence = store.nextFence
  BY <1>1, <1>2, CommandTimeType, CommandTimeBound, PrunedStore, InputsAssumption
     DEF Inv
<1>7. CASE Refuse(now)
  BY <1>7, RefuseEffect DEF Refuse
<1>8. CASE /\ AcquireAccepted(p, k, owner, now)
           /\ \E op : Stage(t, "finalize", op, guard, now)
  <2>1. guard # None /\ guard.owner = owner /\ guard.fence = f
    <3>1. f \in Nat /\ p.nextCred \in Nat
      BY <1>3, <1>6, AcquireEdit DEF StoreState
    <3> QED BY <1>4, <1>6, <3>1, NoneAssumption DEF Guard
  <2>2. p.leases[k] = None \/ p.leases[k].owner = owner
    <3>1. store \in StoreState
      BY DEF Inv, TypeOK
    <3>2. p.leases[k] # None => p.leases[k].status = "active" /\ p.leases[k].exp > now
      BY <1>2, <1>6, <3>1, PrunedLeases
    <3> QED BY <1>8, <3>2 DEF AcquireAccepted, HeldByAnother
  <2>3. PICK l : l = [status |-> "active", cred |-> p.nextCred, owner |-> owner,
                      fence |-> f, exp |-> now + ttl]
    OBVIOUS
  <2>4. t.leases = [p.leases EXCEPT ![k] = l] /\ t.records = p.records
    BY <1>3, <1>5, <1>6, <2>3 DEF AcquireLease, SetFence, StoreState
  <2>5. /\ l # None /\ l.status = "active" /\ l.owner = owner /\ l.fence = f
    <3>1. f \in Nat /\ p.nextCred \in Nat
      BY <1>3, <1>6, AcquireEdit DEF StoreState
    <3>2. l \in Lease
      BY <1>6, <2>3, <3>1 DEF Lease
    <3> QED BY <2>3, <3>2, NoneAssumption
  <2>6. /\ t.leases[k] = l
        /\ \A j \in Keys \ {k} : t.leases[j] = p.leases[j]
    BY <1>6, <2>4 DEF StoreState
  <2>7. \A g \in guards : g.fence < f
    <3> SUFFICES ASSUME NEW g \in guards PROVE g.fence < f
      OBVIOUS
    <3>1. g.fence \in Nat /\ g.fence < store.nextFence /\ store.nextFence \in Nat
      BY DEF Inv, TypeOK, StoreState, Guard, GuardsSafe
    <3>2. f \in Nat /\ f >= p.nextFence
      BY <1>3, <1>6, AcquireEdit
    <3> QED BY <1>6, <3>1, <3>2
  <2>8. Granted(p, t, guard, guards, k)
    BY <2>1, <2>2, <2>4, <2>5, <2>6, <2>7 DEF Granted, OnlyLease
  <2>9. Effect(p, t, guard, guards)
    BY <2>8 DEF Effect
  <2> QED BY <1>2, <1>6, <1>8, <2>9, StageEffect
<1> QED BY <1>1, <1>2, <1>3, <1>4, <1>5, <1>7, <1>8 DEF Acquire

LEMMA RenewEffect ==
  ASSUME Inv, EffectInv, NEW sample \in 0..MaxTime, NEW g \in guards,
         NEW ttl \in LeaseTtls, Renew(g, ttl, sample)
  PROVE  EffectInv'
<1>1. PICK now : now = CommandTime(sample)
  OBVIOUS
<1>2. PICK p : p = Prune(store, now)
  OBVIOUS
<1>3. PICK exp : exp = now + ttl
  OBVIOUS
<1>4. PICK guard : guard = [g EXCEPT !.exp = exp]
  OBVIOUS
<1>5. PICK t : t = RenewLease(p, g, exp)
  OBVIOUS
<1>6. now \in Nat /\ exp \in Int /\ store.committedTime <= now
      /\ p \in StoreState /\ StoreInv(p)
  BY <1>1, <1>2, <1>3, CommandTimeType, CommandTimeBound, PrunedStore, InputsAssumption
     DEF Inv
<1>7. g \in Guard /\ g.key \in Keys
  BY DEF Inv, TypeOK, Guard
<1>8. CASE Refuse(now)
  BY <1>8, RefuseEffect DEF Refuse
<1>9. CASE RenewAccepted(p, g, now) /\ \E op : Stage(t, "finalize", op, guard, now)
  <2>1. p.leases[g.key] # None /\ p.leases[g.key] \in Lease
    BY <1>6, <1>7, <1>9, MatchedRow DEF RenewAccepted
  <2>2. PICK l : l = [p.leases[g.key] EXCEPT !.exp = exp]
    OBVIOUS
  <2>3. l \in Lease /\ l.exp = exp
    BY <1>6, <2>1, <2>2 DEF Lease
  <2>4. t.leases = [p.leases EXCEPT ![g.key] = l] /\ t.records = p.records
    BY <1>5, <1>6, <1>7, <2>2 DEF RenewLease, StoreState
  <2>5. /\ t.leases[g.key] = l
        /\ \A j \in Keys \ {g.key} : t.leases[j] = p.leases[j]
    BY <1>6, <1>7, <2>4 DEF StoreState
  <2>6. guard # None /\ guard.fence = g.fence
    <3>1. guard \in Guard /\ guard.fence = g.fence
      BY <1>4, <1>6, <1>7 DEF Guard
    <3> QED BY <3>1, NoneAssumption
  <2>7. Prolonged(p, t, guard, guards, g.key)
    BY <2>1, <2>2, <2>3, <2>4, <2>5, <2>6 DEF Prolonged, OnlyLease
  <2>8. Effect(p, t, guard, guards)
    BY <1>7, <2>7 DEF Effect
  <2> QED BY <1>2, <1>6, <1>9, <2>8, StageEffect
<1> QED BY <1>1, <1>2, <1>3, <1>4, <1>5, <1>8, <1>9 DEF Renew

LEMMA ReleaseEffect ==
  ASSUME Inv, EffectInv, NEW sample \in 0..MaxTime, NEW g \in guards,
         Release(g, sample)
  PROVE  EffectInv'
<1>1. PICK now : now = CommandTime(sample)
  OBVIOUS
<1>2. PICK p : p = Prune(store, now)
  OBVIOUS
<1>3. PICK t : t = ReleaseLease(p, g)
  OBVIOUS
<1>4. now \in Nat /\ store.committedTime <= now /\ p \in StoreState /\ StoreInv(p)
  BY <1>1, <1>2, CommandTimeType, CommandTimeBound, PrunedStore DEF Inv
<1>5. g \in Guard /\ g.key \in Keys
  BY DEF Inv, TypeOK, Guard
<1>6. CASE Refuse(now)
  BY <1>6, RefuseEffect DEF Refuse
<1>7. CASE ReleaseAccepted(p, g) /\ \E op : Stage(t, "finalize", op, None, now)
  <2>1. p.leases[g.key] # None /\ p.leases[g.key] \in Lease
    BY <1>4, <1>5, <1>7, MatchedRow DEF ReleaseAccepted
  <2>2. PICK l : l = [p.leases[g.key] EXCEPT !.status = "released"]
    OBVIOUS
  <2>3. l # None /\ l.status = "released"
    <3>1. l \in Lease /\ l.status = "released"
      BY <2>1, <2>2 DEF Lease
    <3> QED BY <3>1, NoneAssumption
  <2>4. t.leases = [p.leases EXCEPT ![g.key] = l] /\ t.records = p.records
    BY <1>3, <1>4, <1>5, <2>2 DEF ReleaseLease, StoreState
  <2>5. /\ t.leases[g.key] = l
        /\ \A j \in Keys \ {g.key} : t.leases[j] = p.leases[j]
    BY <1>4, <1>5, <2>4 DEF StoreState
  <2>6. GivenUp(p, t, None, g.key)
    BY <2>1, <2>3, <2>4, <2>5 DEF GivenUp, OnlyLease
  <2>7. Effect(p, t, None, guards)
    BY <1>5, <2>6 DEF Effect
  <2> QED BY <1>2, <1>4, <1>7, <2>7, StageEffect
<1> QED BY <1>1, <1>2, <1>3, <1>6, <1>7 DEF Release

(* One more record changed under a guard that holds the lease. *)
LEMMA WrittenMore ==
  ASSUME NEW p \in StoreState, NEW s \in StoreState, StoreInv(s),
         Written(p, s, None), NEW g \in Guard, Matches(s.leases[g.key], g),
         NEW r \in Record \cup {None},
         \/ r = None
         \/ r # None /\ r.owner = g.owner /\ r.fence = g.fence
         \/ /\ r # None /\ s.records[g.key] # None
            /\ r = [s.records[g.key] EXCEPT !.exp = r.exp],
         NEW t, t = SetFence([s EXCEPT !.records[g.key] = r], g.key, g.fence)
  PROVE  Written(p, t, None)
<1>1. PICK k : k = g.key
  OBVIOUS
<1>2. k \in Keys /\ t.leases = s.leases /\ t.records = [s.records EXCEPT ![k] = r]
  BY <1>1 DEF SetFence, StoreState, Guard
<1>3. t.records[k] = r /\ \A j \in Keys \ {k} : t.records[j] = s.records[j]
  BY <1>2 DEF StoreState
<1>4. p.leases[k] # None /\ p.leases[k].owner = g.owner /\ p.leases[k].fence = g.fence
  BY <1>1 DEF Matches, Written
<1>5. WrittenAt(p, s, k)
  BY <1>2 DEF Written
<1>6. WrittenAt(p, t, k)
  <2>1. CASE r = None
    BY <1>3, <1>4, <2>1 DEF WrittenAt
  <2>2. CASE r # None /\ r.owner = g.owner /\ r.fence = g.fence
    BY <1>3, <1>4, <2>2 DEF WrittenAt
  <2>3. CASE r # None /\ s.records[k] # None
             /\ r = [s.records[k] EXCEPT !.exp = r.exp]
    <3>1. s.records[k] \in Record /\ (p.records[k] # None => p.records[k] \in Record)
      BY <1>2, <2>3 DEF StoreState
    <3>2. r.owner = s.records[k].owner /\ r.fence = s.records[k].fence
      BY <2>3, <3>1 DEF Record
    <3>3. CASE s.records[k] = p.records[k]
      BY <1>3, <1>4, <2>3, <3>3 DEF WrittenAt
    <3>4. CASE s.records[k].owner = p.leases[k].owner
               /\ s.records[k].fence = p.leases[k].fence
      BY <1>3, <1>4, <2>3, <3>2, <3>4 DEF WrittenAt
    <3>5. CASE /\ p.records[k] # None
               /\ s.records[k] = [p.records[k] EXCEPT !.exp = s.records[k].exp]
      <4>1. r = [p.records[k] EXCEPT !.exp = r.exp]
        BY <2>3, <3>1, <3>5 DEF Record
      <4> QED BY <1>3, <1>4, <2>3, <3>5, <4>1 DEF WrittenAt
    <3> QED BY <1>5, <2>3, <3>3, <3>4, <3>5 DEF WrittenAt
  <2> QED BY <1>1, <2>1, <2>2, <2>3
<1>7. \A j \in Keys \ {k} : WrittenAt(p, t, j)
  BY <1>3 DEF Written, WrittenAt
<1> QED BY <1>2, <1>6, <1>7 DEF Written

(* Accepted compare-and-set, delete and TTL refresh write. *)
LEMMA DataWritten ==
  ASSUME NEW p \in StoreState, NEW s \in StoreState, StoreInv(s),
         Written(p, s, None), NEW g \in Guard, NEW now
  PROVE  /\ \A expected : \A r \in Record :
              CasAccepted(s, g, expected, r, now) => Written(p, PutRecord(s, g, r), None)
         /\ DeleteAccepted(s, g, now) => Written(p, DeleteRecord(s, g), None)
         /\ \A exp \in Int :
              RefreshAccepted(s, g, now) => Written(p, RefreshRecord(s, g, exp), None)
<1>1. ASSUME NEW expected, NEW r \in Record, CasAccepted(s, g, expected, r, now)
      PROVE  Written(p, PutRecord(s, g, r), None)
  <2>1. Matches(s.leases[g.key], g) /\ r.fence = g.fence /\ r.owner = g.owner
    BY <1>1 DEF CasAccepted, Validates
  <2>2. r # None
    BY NoneAssumption
  <2> QED BY <2>1, <2>2, WrittenMore DEF PutRecord
<1>2. ASSUME DeleteAccepted(s, g, now)
      PROVE  Written(p, DeleteRecord(s, g), None)
  <2>1. Matches(s.leases[g.key], g)
    BY <1>2 DEF DeleteAccepted, Validates
  <2> QED BY <2>1, WrittenMore DEF DeleteRecord
<1>3. ASSUME NEW exp \in Int, RefreshAccepted(s, g, now)
      PROVE  Written(p, RefreshRecord(s, g, exp), None)
  <2>1. Matches(s.leases[g.key], g) /\ s.records[g.key] # None /\ g.key \in Keys
    BY <1>3 DEF RefreshAccepted, Validates, Guard
  <2>2. PICK r : r = [s.records[g.key] EXCEPT !.exp = exp]
    OBVIOUS
  <2>3. s.records[g.key] \in Record
    BY <2>1 DEF StoreState
  <2>4. r \in Record /\ r.exp = exp
    BY <2>2, <2>3 DEF Record
  <2>5. r # None
    BY <2>4, NoneAssumption
  <2>6. RefreshRecord(s, g, exp)
          = SetFence([s EXCEPT !.records[g.key] = r], g.key, g.fence)
    BY <2>1, <2>2 DEF RefreshRecord, StoreState
  <2> QED BY <2>1, <2>2, <2>4, <2>5, <2>6, WrittenMore
<1> QED BY <1>1, <1>2, <1>3

(* A pruned state has written nothing yet. *)
LEMMA WrittenNothing ==
  ASSUME NEW p
  PROVE  Written(p, p, None)
BY DEF Written, WrittenAt

LEMMA DataEffect ==
  ASSUME Inv, EffectInv, NEW sample \in 0..MaxTime, DataStep(sample)
  PROVE  EffectInv'
<1>1. PICK now : now = CommandTime(sample)
  OBVIOUS
<1>2. PICK p : p = Prune(store, now)
  OBVIOUS
<1>3. now \in Nat /\ store.committedTime <= now /\ p \in StoreState /\ StoreInv(p)
  BY <1>1, <1>2, CommandTimeType, CommandTimeBound, PrunedStore DEF Inv
<1>4. Written(p, p, None)
  BY WrittenNothing
<1>5. CASE Refuse(now) \/ \E k \in Keys : Get(k, sample)
  BY <1>5, RefuseEffect DEF Refuse, Get
<1>6. CASE \E t, op : Stage(t, "finalize", op, None, now) /\ Written(p, t, None)
  BY <1>2, <1>3, <1>6, StageEffect DEF Effect
<1>7. ASSUME NEW g \in guards, NEW author \in guards,
             NEW expected \in Generations \cup {None},
             CompareAndSet(g, author, expected, sample)
      PROVE  EffectInv'
  <2>1. g \in Guard /\ author \in Guard
    BY DEF Inv, TypeOK
  <2>2. PICK r \in RecordInputs(author, now) :
          \/ /\ CasAccepted(p, g, expected, r, now)
             /\ Stage(PutRecord(p, g, r), "finalize", CasOp(g, expected, r), None, now)
          \/ Refuse(now)
    BY <1>1, <1>2, <1>7 DEF CompareAndSet
  <2>3. r \in Record
    BY <1>3, <2>1, RecordInputsType
  <2>4. CasAccepted(p, g, expected, r, now) => Written(p, PutRecord(p, g, r), None)
    BY <1>3, <1>4, <2>1, <2>3, DataWritten
  <2> QED BY <1>5, <1>6, <2>2, <2>4
<1>8. ASSUME NEW g \in guards, DeleteFenced(g, sample)
      PROVE  EffectInv'
  <2>1. g \in Guard
    BY DEF Inv, TypeOK
  <2>2. \/ /\ DeleteAccepted(p, g, now)
           /\ Stage(DeleteRecord(p, g), "finalize", DeleteOp(g), None, now)
        \/ Refuse(now)
    BY <1>1, <1>2, <1>8 DEF DeleteFenced
  <2>3. DeleteAccepted(p, g, now) => Written(p, DeleteRecord(p, g), None)
    BY <1>3, <1>4, <2>1, DataWritten
  <2> QED BY <1>5, <1>6, <2>2, <2>3
<1>9. ASSUME NEW g \in guards, NEW ttl \in RecordTtls, RefreshTtl(g, ttl, sample)
      PROVE  EffectInv'
  <2>1. g \in Guard /\ now + ttl \in Int
    BY <1>3, InputsAssumption DEF Inv, TypeOK
  <2>2. PICK exp \in Int :
          \/ /\ RefreshAccepted(p, g, now)
             /\ Stage(RefreshRecord(p, g, exp), "finalize", RefreshOp(g, exp), None, now)
          \/ Refuse(now)
    BY <1>1, <1>2, <1>9, <2>1 DEF RefreshTtl
  <2>3. RefreshAccepted(p, g, now) => Written(p, RefreshRecord(p, g, exp), None)
    BY <1>3, <1>4, <2>1, DataWritten
  <2> QED BY <1>5, <1>6, <2>2, <2>3
<1>10. CASE BatchStart(sample)
  <2>1. /\ staged' = p /\ phase' = "batch" /\ store' = store /\ guards' = guards
        /\ cmd'.now = now /\ cmd'.guard = None
    BY <1>1, <1>2, <1>10 DEF BatchStart, Stage
  <2> QED BY <1>2, <1>3, <1>4, <2>1 DEF EffectInv, Effect
<1> QED BY <1>5, <1>7, <1>8, <1>9, <1>10 DEF DataStep

LEMMA BatchEffect ==
  ASSUME Inv, EffectInv, BatchStep
  PROVE  EffectInv'
<1>1. phase = "batch"
  BY DEF BatchStep, BatchCas, BatchDelete, BatchRefresh, BatchGet, BatchEnd, InBatch
<1>2. PICK now : now = cmd.now
  OBVIOUS
<1>3. PICK p : p = Prune(store, now)
  OBVIOUS
<1>4. staged \in StoreState /\ StoreInv(staged) /\ p \in StoreState
      /\ now \in Nat /\ cmd \in Command /\ cmd.guard = None
  BY <1>1, <1>2, <1>3, PrunedStore DEF Inv, TypeOK, StatesSafe, Command
<1>5. Written(p, staged, None) /\ store.committedTime <= now
  BY <1>1, <1>2, <1>3, <1>4 DEF EffectInv
<1>6. ASSUME NEW t, NEW op, BatchChild(t, op), Written(p, t, None)
      PROVE  EffectInv'
  <2>1. /\ staged' = t /\ phase' = phase /\ store' = store /\ guards' = guards
        /\ cmd'.now = now /\ cmd'.guard = None
    BY <1>2, <1>4, <1>6 DEF BatchChild, Command
  <2> QED BY <1>3, <1>5, <1>6, <2>1 DEF EffectInv, Effect
<1>7. ASSUME NEW g \in guards, NEW expected \in Generations \cup {None},
             BatchCas(g, expected)
      PROVE  EffectInv'
  <2>1. PICK r \in RecordInputs(g, now) :
          /\ CasAccepted(staged, g, expected, r, now)
          /\ BatchChild(PutRecord(staged, g, r), CasOp(g, expected, r))
    BY <1>2, <1>7 DEF BatchCas
  <2>2. g \in Guard /\ r \in Record
    BY <1>4, RecordInputsType DEF Inv, TypeOK
  <2>3. Written(p, PutRecord(staged, g, r), None)
    BY <1>4, <1>5, <2>1, <2>2, DataWritten
  <2> QED BY <1>6, <2>1, <2>3
<1>8. ASSUME NEW g \in guards, BatchDelete(g)
      PROVE  EffectInv'
  <2>1. g \in Guard
    BY DEF Inv, TypeOK
  <2>2. Written(p, DeleteRecord(staged, g), None)
    BY <1>2, <1>4, <1>5, <1>8, <2>1, DataWritten DEF BatchDelete
  <2> QED BY <1>6, <1>8, <2>2 DEF BatchDelete
<1>9. ASSUME NEW g \in guards, NEW ttl \in RecordTtls, BatchRefresh(g, ttl)
      PROVE  EffectInv'
  <2>1. g \in Guard /\ now + ttl \in Int
    BY <1>4, InputsAssumption DEF Inv, TypeOK
  <2>2. PICK exp \in Int :
          /\ RefreshAccepted(staged, g, now)
          /\ BatchChild(RefreshRecord(staged, g, exp), RefreshOp(g, exp))
    BY <1>2, <1>9, <2>1 DEF BatchRefresh
  <2>3. Written(p, RefreshRecord(staged, g, exp), None)
    BY <1>4, <1>5, <2>1, <2>2, DataWritten
  <2> QED BY <1>6, <2>2, <2>3
<1>10. ASSUME NEW k \in Keys, BatchGet(k)
       PROVE  EffectInv'
  <2>1. /\ UNCHANGED <<store, staged, phase, guards>>
        /\ cmd'.now = cmd.now /\ cmd'.guard = cmd.guard
    BY <1>4, <1>10 DEF BatchGet, Command
  <2> QED BY <2>1 DEF EffectInv
<1>11. CASE BatchEnd
  BY <1>1, <1>11 DEF BatchEnd, EffectInv
<1> QED BY <1>7, <1>8, <1>9, <1>10, <1>11 DEF BatchStep

(* Finalization touches neither leases nor records. *)
LEMMA FinalizeEffect ==
  ASSUME Inv, EffectInv, FinalizeStep
  PROVE  EffectInv'
<1>1. staged \in StoreState /\ cmd \in Command
  BY DEF Inv, TypeOK
<1>2. CASE Commit
  BY <1>2 DEF Commit, EffectInv
<1>3. ASSUME staged'.leases = staged.leases, staged'.records = staged.records,
             UNCHANGED <<store, phase, guards>>, phase = "finalize",
             cmd'.now = cmd.now, cmd'.guard = cmd.guard
      PROVE  EffectInv'
  <2>1. PICK p : p = Prune(store, cmd.now)
    OBVIOUS
  <2>2. Effect(p, staged, cmd.guard, guards) => Effect(p, staged', cmd.guard, guards)
    BY <1>3 DEF Effect, Granted, Prolonged, GivenUp, Written, WrittenAt, OnlyLease
  <2>3. store.committedTime <= cmd.now /\ Effect(p, staged, cmd.guard, guards)
    BY <1>3, <2>1 DEF EffectInv
  <2>4. Prune(store', cmd'.now) = p
    BY <1>3, <2>1
  <2> QED BY <1>3, <2>2, <2>3, <2>4 DEF EffectInv
<1>4. ASSUME NEW k \in staged.candidates, RetireDeadKey(k)
      PROVE  EffectInv'
  <2>1. k \in Keys
    BY <1>1 DEF StoreState
  <2>2. PICK s : s = Retire(staged, k)
    OBVIOUS
  <2>3. s \in StoreState /\ s.leases = staged.leases /\ s.records = staged.records
    BY <1>1, <2>1, <2>2, RetireFields
  <2>4. Rotate(s).leases = s.leases /\ Rotate(s).records = s.records
    BY <2>3, RotateFields
  <2>5. /\ staged' = s \/ staged' = Rotate(s)
        /\ phase = "finalize" /\ UNCHANGED <<store, phase, cmd, guards>>
    BY <1>4, <2>2 DEF RetireDeadKey
  <2> QED BY <1>3, <2>3, <2>4, <2>5
<1>5. CASE RotateForCapacity
  <2>1. Rotate(staged).leases = staged.leases /\ Rotate(staged).records = staged.records
    BY <1>1, RotateFields
  <2>2. /\ staged' = Rotate(staged) /\ phase = "finalize"
        /\ UNCHANGED <<store, phase, guards>>
        /\ cmd'.now = cmd.now /\ cmd'.guard = cmd.guard
    BY <1>1, <1>5 DEF RotateForCapacity, Command
  <2> QED BY <1>3, <2>1, <2>2
<1> QED BY <1>2, <1>4, <1>5 DEF FinalizeStep

(* A commit is one step of the abstract service. *)
LEMMA CommitImplements ==
  ASSUME Inv, EffectInv, Commit
  PROVE  Leases!LeaseNext
<1>1. PICK now : now = cmd.now
  OBVIOUS
<1>2. PICK p : p = Prune(store, now)
  OBVIOUS
<1>3. /\ store \in StoreState /\ staged \in StoreState /\ cmd \in Command
      /\ now \in Nat /\ p \in StoreState
  BY <1>1, <1>2, PrunedStore DEF Inv, TypeOK, Command
<1>4. store.committedTime <= now /\ Effect(p, staged, cmd.guard, guards)
  BY <1>1, <1>2 DEF EffectInv, Commit
<1>5. /\ store'.committedTime = now /\ store'.leases = staged.leases
      /\ store'.records = staged.records
      /\ guards' = IF cmd.guard = None THEN guards ELSE guards \cup {cmd.guard}
  BY <1>1, <1>3 DEF Commit, StoreState
<1>6. \A k \in Keys : /\ Leases!LeaseAt(k, now) = VisibleLease(p.leases[k])
                      /\ Leases!RecordAt(k, now) = p.records[k]
  BY <1>2, <1>3, VisibleAt
<1>7. \A k \in Keys : HeldLease(k)' = VisibleLease(staged.leases[k])
  BY <1>5 DEF HeldLease, VisibleLease
<1>8. \A k \in Keys : p.leases[k] # None =>
        /\ p.leases[k] \in Lease /\ p.leases[k].status = "active"
        /\ VisibleLease(p.leases[k]) # None
        /\ VisibleLease(p.leases[k]) = [owner |-> p.leases[k].owner,
                                   fence |-> p.leases[k].fence,
                                   exp |-> p.leases[k].exp]
        /\ VisibleLease(p.leases[k]).owner = p.leases[k].owner
        /\ VisibleLease(p.leases[k]).fence = p.leases[k].fence
  BY <1>2, <1>3, PrunedLeases, NoneAssumption DEF VisibleLease, Lease
<1>9. \A l : l = None => VisibleLease(l) = None
  BY DEF VisibleLease
<1>10. Leases!TimePasses
  BY <1>3, <1>4, <1>5 DEF Leases!TimePasses, StoreState
<1>11. ASSUME NEW k \in Keys, OnlyLease(p, staged, k)
       PROVE  Leases!OthersKeepLeases(k) /\ Leases!RecordsOnlyExpire
  <2>1. Leases!OthersKeepLeases(k)
    BY <1>5, <1>6, <1>7, <1>11 DEF Leases!OthersKeepLeases, OnlyLease
  <2>2. p.records = [j \in Keys |-> p.records[j]]
    BY <1>3 DEF StoreState
  <2>3. p.records = [j \in Keys |-> Leases!RecordAt(j, now)]
    BY <1>6, <2>2
  <2>4. Leases!RecordsOnlyExpire
    BY <1>5, <1>11, <2>3 DEF Leases!RecordsOnlyExpire, OnlyLease
  <2> QED BY <2>1, <2>4
<1>12. ASSUME NEW k \in Keys, Granted(p, staged, cmd.guard, guards, k)
       PROVE  \E owner \in Owners : Leases!Grant(k, owner)
  <2>1. PICK guard : guard = cmd.guard
    OBVIOUS
  <2>2. guard \in Guard /\ guard # None /\ guard.owner \in Owners
    BY <1>3, <1>12, <2>1 DEF Granted, Command, Guard
  <2>3. PICK l : l = staged.leases[k]
    OBVIOUS
  <2>4. /\ l \in Lease /\ l # None /\ l.status = "active"
        /\ l.owner = guard.owner /\ l.fence = guard.fence
    BY <1>3, <1>12, <2>1, <2>3 DEF Granted, StoreState
  <2>5. /\ HeldLease(k)' # None /\ HeldLease(k)'.owner = guard.owner
        /\ HeldLease(k)'.fence = guard.fence
    <3>1. HeldLease(k)' = [owner |-> l.owner, fence |-> l.fence, exp |-> l.exp]
      BY <1>7, <2>3, <2>4 DEF VisibleLease
    <3> QED BY <2>4, <3>1, NoneAssumption DEF Lease
  <2>6. Leases!LeaseAt(k, now) = None \/ Leases!LeaseAt(k, now).owner = guard.owner
    BY <1>6, <1>8, <1>9, <1>12, <2>1 DEF Granted
  <2>7. {g.fence : g \in guards'} = {g.fence : g \in guards} \cup {guard.fence}
    BY <1>5, <2>1, <2>2
  <2>8. \A g \in guards : g.fence < guard.fence
    BY <1>12, <2>1 DEF Granted
  <2>9. Leases!OthersKeepLeases(k) /\ Leases!RecordsOnlyExpire
    BY <1>11, <1>12 DEF Granted
  <2>10. Leases!Grant(k, guard.owner)
    BY <1>5, <2>5, <2>6, <2>7, <2>8, <2>9 DEF Leases!Grant
  <2> QED BY <2>2, <2>10
<1>13. ASSUME NEW k \in Keys, Prolonged(p, staged, cmd.guard, guards, k)
       PROVE  Leases!Extend(k)
  <2>1. PICK l : l = staged.leases[k]
    OBVIOUS
  <2>2. PICK before : before = p.leases[k]
    OBVIOUS
  <2>3. /\ before # None /\ before \in Lease /\ before.status = "active"
        /\ l \in Lease /\ l = [before EXCEPT !.exp = l.exp]
    BY <1>8, <1>13, <2>1, <2>2 DEF Prolonged
  <2>4. /\ l.status = "active" /\ l.owner = before.owner /\ l.fence = before.fence
        /\ l # None
    BY <2>3, NoneAssumption DEF Lease
  <2>5. /\ HeldLease(k)' = [owner |-> before.owner, fence |-> before.fence,
                            exp |-> l.exp]
        /\ HeldLease(k)' # None
    <3>1. HeldLease(k)' = [owner |-> l.owner, fence |-> l.fence, exp |-> l.exp]
      BY <1>7, <2>1, <2>4 DEF VisibleLease
    <3> QED BY <2>3, <2>4, <3>1, NoneAssumption DEF Lease
  <2>6. /\ Leases!LeaseAt(k, now) = [owner |-> before.owner, fence |-> before.fence,
                                     exp |-> before.exp]
        /\ Leases!LeaseAt(k, now) # None
    BY <1>6, <1>8, <2>2, <2>3
  <2>7. {g.fence : g \in guards'} = {g.fence : g \in guards}
    BY <1>5, <1>13 DEF Prolonged
  <2>8. Leases!OthersKeepLeases(k) /\ Leases!RecordsOnlyExpire
    BY <1>11, <1>13 DEF Prolonged
  <2> QED BY <1>5, <2>5, <2>6, <2>7, <2>8 DEF Leases!Extend
<1>14. ASSUME NEW k \in Keys, GivenUp(p, staged, cmd.guard, k)
       PROVE  Leases!GiveUp(k)
  <2>1. Leases!LeaseAt(k, now) # None
    BY <1>6, <1>8, <1>14 DEF GivenUp
  <2>2. HeldLease(k)' = None
    BY <1>7, <1>14 DEF GivenUp, VisibleLease
  <2>3. guards' = guards
    BY <1>5, <1>14 DEF GivenUp
  <2>4. Leases!OthersKeepLeases(k) /\ Leases!RecordsOnlyExpire
    BY <1>11, <1>14 DEF GivenUp
  <2> QED BY <1>5, <2>1, <2>2, <2>3, <2>4 DEF Leases!GiveUp
<1>15. CASE Written(p, staged, cmd.guard)
  <2>1. guards' = guards
    BY <1>5, <1>15 DEF Written
  <2>2. \A k \in Keys : HeldLease(k)' = Leases!LeaseAt(k, now)
    BY <1>6, <1>7, <1>15 DEF Written
  <2>3. ASSUME NEW k \in Keys
        PROVE  \/ staged.records[k] = Leases!RecordAt(k, now)
               \/ /\ Leases!LeaseAt(k, now) # None
                  /\ \/ staged.records[k] = None
                     \/ /\ staged.records[k] # None
                        /\ staged.records[k].owner = Leases!LeaseAt(k, now).owner
                        /\ staged.records[k].fence = Leases!LeaseAt(k, now).fence
                     \/ /\ staged.records[k] # None
                        /\ Leases!RecordAt(k, now) # None
                        /\ staged.records[k] = [Leases!RecordAt(k, now) EXCEPT
                                                  !.exp = staged.records[k].exp]
    <3>1. WrittenAt(p, staged, k)
      BY <1>15 DEF Written
    <3>2. /\ Leases!LeaseAt(k, now) = VisibleLease(p.leases[k])
          /\ Leases!RecordAt(k, now) = p.records[k]
      BY <1>6
    <3>3. p.leases[k] # None =>
            /\ VisibleLease(p.leases[k]) # None
            /\ VisibleLease(p.leases[k]).owner = p.leases[k].owner
            /\ VisibleLease(p.leases[k]).fence = p.leases[k].fence
      BY <1>8
    <3> QED BY <3>1, <3>2, <3>3 DEF WrittenAt
  <2>4. Leases!Write
    BY <1>5, <2>1, <2>2, <2>3 DEF Leases!Write
  <2> QED BY <1>10, <2>4 DEF Leases!LeaseNext
<1> QED BY <1>4, <1>10, <1>12, <1>13, <1>14, <1>15 DEF Effect, Leases!LeaseNext

LEMMA NextEffect ==
  ASSUME Inv, EffectInv, [Next]_vars
  PROVE  EffectInv'
<1>1. ASSUME NEW sample \in 0..MaxTime, LeaseStep(sample) PROVE EffectInv'
  BY <1>1, AcquireEffect, RenewEffect, ReleaseEffect DEF LeaseStep
<1>2. CASE UNCHANGED vars
  BY <1>2, RefuseEffect DEF vars
<1> QED BY <1>1, <1>2, DataEffect, BatchEffect, FinalizeEffect DEF Next

(* Every step that is not a commit is invisible. *)
LEMMA NextImplements ==
  ASSUME Inv, EffectInv, [Next]_vars
  PROVE  [Leases!LeaseNext]_(Leases!leaseVars)
<1>1. CASE Commit
  BY <1>1, CommitImplements
<1>2. CASE store' = store /\ guards' = guards
  BY <1>2 DEF Leases!leaseVars, HeldLease
<1>3. Commit \/ (store' = store /\ guards' = guards)
  BY DEF Next, LeaseStep, DataStep, BatchStep, FinalizeStep, Acquire, Renew,
         Release, Get, CompareAndSet, DeleteFenced, RefreshTtl, BatchStart,
         BatchCas, BatchDelete, BatchRefresh, BatchGet, BatchEnd, BatchChild,
         RetireDeadKey, RotateForCapacity, Stage, Refuse, vars
<1> QED BY <1>1, <1>2, <1>3

(* The backend implements the abstract lease service: each commit is one   *)
(* grant under a fresh fence, renewal, release or write of the holders,    *)
(* and no other step of a command, its batch or its finalization shows.    *)
THEOREM RefinesFencedLeases == Spec => ImplementsFencedLeases
<1>1. Init => EffectInv
  BY DEF Init, EffectInv
<1>2. Init => Leases!LeaseInit
  <2> SUFFICES ASSUME Init PROVE Leases!LeaseInit
    OBVIOUS
  <2>1. \A k \in Keys : HeldLease(k) = None
    BY DEF Init, EmptyStore, HeldLease
  <2> QED BY <2>1 DEF Init, EmptyStore, Leases!LeaseInit
<1>3. Inv /\ EffectInv /\ [Next]_vars => EffectInv'
  BY NextEffect
<1>4. Inv /\ EffectInv /\ [Next]_vars => [Leases!LeaseNext]_(Leases!leaseVars)
  BY NextImplements
<1> QED BY <1>1, <1>2, <1>3, <1>4, Invariance, PTL
        DEF Spec, ImplementsFencedLeases, Leases!LeaseSpec

-----------------------------------------------------------------------------
(* Finalization.                                                           *)
(*                                                                         *)
(* ensure_key_capacity counts the keys that will be left once the dead     *)
(* ones are retired and dropped. Neither retirement nor rotation adds to   *)
(* that number, so a rotation always finds a retired key to drop while the *)
(* limit is exceeded, and the second one drops the last of them.           *)

(* The tracked keys that finalization cannot drop. *)
Live(s) ==
  {k \in Keys : s.fences[k] # 0 /\ s.retired[k] = NotRetired
                /\ k \notin PendingDead(s)}

CapacityInv ==
  /\ Cardinality(Tracked(store)) <= MaxTrackedKeys
  /\ phase # "idle" => Cardinality(Live(staged)) <= MaxTrackedKeys
  /\ phase = "batch" => Tracked(staged) = Tracked(store) /\ cmd.rotations = 0
  /\ phase = "finalize" =>
       /\ cmd.rotations \in 0..2
       /\ staged.candidates # {} => cmd.rotations = 0
       /\ cmd.rotations # 0 =>
            \A k \in RetiredKeys(staged) :
              staged.retired[k] = staged.retention.epoch - 1
       /\ cmd.rotations = 2 => RetiredKeys(staged) = {}

LEMMA SubsetOfKeys ==
  ASSUME NEW S, NEW T, T \subseteq Keys, S \subseteq T
  PROVE  /\ IsFiniteSet(S) /\ IsFiniteSet(T)
         /\ Cardinality(S) \in Nat /\ Cardinality(T) \in Nat
         /\ Cardinality(S) <= Cardinality(T)
<1>1. IsFiniteSet(T)
  BY KeysAssumption, FS_Subset
<1>2. IsFiniteSet(S) /\ Cardinality(S) <= Cardinality(T)
  BY <1>1, FS_Subset
<1> QED BY <1>1, <1>2, FS_CardinalityType

LEMMA LiveIsTracked ==
  ASSUME NEW s, NEW t, \A k \in Keys : t.fences[k] # 0 => s.fences[k] # 0,
         Cardinality(Tracked(s)) <= MaxTrackedKeys
  PROVE  Cardinality(Live(t)) <= MaxTrackedKeys
<1>1. Live(t) \subseteq Tracked(s) /\ Tracked(s) \subseteq Keys
  BY DEF Live, Tracked
<1>2. Cardinality(Live(t)) \in Nat /\ Cardinality(Tracked(s)) \in Nat
      /\ Cardinality(Live(t)) <= Cardinality(Tracked(s))
  BY <1>1, SubsetOfKeys
<1>3. MaxTrackedKeys \in Nat
  BY LimitsAssumption
<1> QED BY <1>2, <1>3

(* The count ensure_key_capacity makes. *)
LEMMA LiveCount ==
  ASSUME NEW s \in StoreState, StoreInv(s)
  PROVE  Cardinality(Live(s)) = Cardinality(Tracked(s)) - Cardinality(RetiredKeys(s))
                                  - Cardinality(PendingDead(s))
<1> DEFINE T == Tracked(s)
           R == RetiredKeys(s)
           P == PendingDead(s)
<1>1. T \subseteq Keys /\ R \subseteq T /\ P \subseteq T /\ R \cap P = {}
  BY DEF Tracked, RetiredKeys, PendingDead, StoreInv, RowsFenced, StoreState
<1>2. Live(s) = T \ (R \cup P)
  BY DEF Live, Tracked, RetiredKeys
<1> HIDE DEF T, R, P
<1>3. /\ IsFiniteSet(T) /\ IsFiniteSet(R) /\ IsFiniteSet(P)
      /\ Cardinality(T) \in Nat /\ Cardinality(R) \in Nat /\ Cardinality(P) \in Nat
  BY <1>1, SubsetOfKeys
<1>4. Cardinality(R \cup P) = Cardinality(R) + Cardinality(P)
  <2>1. Cardinality(R \cap P) = 0
    BY <1>1, FS_EmptySet
  <2>2. Cardinality(R \cup P)
          = Cardinality(R) + Cardinality(P) - Cardinality(R \cap P)
    BY <1>3, FS_Union
  <2> QED BY <1>3, <2>1, <2>2
<1>5. Cardinality(T \ (R \cup P)) = Cardinality(T) - Cardinality(T \cap (R \cup P))
  BY <1>3, FS_Difference
<1>6. T \cap (R \cup P) = R \cup P
  BY <1>1
<1>7. Cardinality(Live(s)) = Cardinality(T) - (Cardinality(R) + Cardinality(P))
  BY <1>2, <1>4, <1>5, <1>6
<1>8. Cardinality(Live(s)) = Cardinality(T) - Cardinality(R) - Cardinality(P)
  BY <1>3, <1>7
<1> QED BY <1>8 DEF T, R, P

(* Finalization adds no live key. *)
LEMMA RetireLive ==
  ASSUME NEW s \in StoreState, StoreInv(s), NEW k \in Keys
  PROVE  Live(Retire(s, k)) \subseteq Live(s)
<1>1. PICK t : t = Retire(s, k)
  OBVIOUS
<1>2. /\ t.records = s.records /\ t.leases = s.leases
      /\ t.fences = s.fences /\ t.nextFence = s.nextFence
      /\ t.candidates = s.candidates \ {k}
      /\ \A j \in Keys \ {k} : t.retired[j] = s.retired[j]
      /\ Retirable(s, k) => t.retired[k] = s.retention.epoch
      /\ ~Retirable(s, k) =>
           t.retired[k] = IF Dead(s, k) THEN s.retired[k] ELSE NotRetired
      /\ s.retention.epoch \in Nat
  BY <1>1, RetireFields DEF StoreState, Retention
<1>3. ASSUME NEW j \in Live(t), j # k PROVE j \in Live(s)
  BY <1>2, <1>3 DEF Live, PendingDead, Dead
<1>4. ASSUME k \in Live(t) PROVE k \in Live(s)
  <2>1. t.retired[k] = NotRetired /\ s.fences[k] # 0
    BY <1>2, <1>4 DEF Live
  <2>2. ~Retirable(s, k)
    BY <1>2, <2>1 DEF NotRetired
  <2>3. s.retired[k] = NotRetired
    BY <1>2, <2>1, <2>2 DEF StoreInv, RowsFenced
  <2>4. k \notin PendingDead(s)
    BY <2>2 DEF PendingDead, Retirable
  <2> QED BY <2>1, <2>3, <2>4 DEF Live
<1> QED BY <1>1, <1>3, <1>4

LEMMA RotateLive ==
  ASSUME NEW s \in StoreState
  PROVE  Live(Rotate(s)) \subseteq Live(s)
<1>1. PICK t : t = Rotate(s)
  OBVIOUS
<1>2. /\ t.records = s.records /\ t.leases = s.leases
      /\ t.candidates = s.candidates
      /\ t.nextFence >= s.nextFence /\ t.nextFence \in Nat /\ s.nextFence \in Nat
      /\ \A k \in Keys :
           IF k \in DroppedKeys(s)
           THEN t.fences[k] = 0 /\ t.retired[k] = NotRetired
           ELSE t.fences[k] = s.fences[k] /\ t.retired[k] = s.retired[k]
  BY <1>1, RotateFields DEF StoreState
<1>3. ASSUME NEW k \in Live(t) PROVE k \in Live(s)
  <2>1. k \in Keys /\ t.fences[k] # 0 /\ t.retired[k] = NotRetired
        /\ k \notin PendingDead(t)
    BY <1>3 DEF Live
  <2>2. t.fences[k] = s.fences[k] /\ t.retired[k] = s.retired[k]
    BY <1>2, <2>1
  <2>3. s.fences[k] \in Nat
    BY <2>1 DEF StoreState
  <2>4. s.fences[k] < s.nextFence => t.fences[k] < t.nextFence
    BY <1>2, <2>2, <2>3
  <2>5. k \notin PendingDead(s)
    BY <1>2, <2>1, <2>2, <2>4 DEF PendingDead, Dead
  <2> QED BY <2>1, <2>2, <2>5 DEF Live
<1> QED BY <1>1, <1>3

(* A command that edits the row of a tracked key tracks no new one. *)
LEMMA StageCapacity ==
  ASSUME Inv, CapacityInv, NEW now, NEW k \in Keys, NEW t, NEW op, NEW guard,
         RowEdit(Prune(store, now), t, k), store.fences[k] # 0,
         Stage(t, "finalize", op, guard, now)
  PROVE  CapacityInv'
<1>1. store \in StoreState
  BY DEF Inv, TypeOK
<1>2. PICK p : p = Prune(store, now)
  OBVIOUS
<1>3. p.fences = store.fences
  BY <1>1, <1>2, PruneFields
<1>4. \A j \in Keys : t.fences[j] # 0 => store.fences[j] # 0
  BY <1>2, <1>3 DEF RowEdit
<1>5. Cardinality(Tracked(store)) <= MaxTrackedKeys
  BY DEF CapacityInv
<1>6. Cardinality(Live(t)) <= MaxTrackedKeys
  BY <1>4, <1>5, LiveIsTracked
<1>7. staged' = t /\ phase' = "finalize" /\ cmd'.rotations = 0 /\ store' = store
  BY DEF Stage
<1> QED BY <1>5, <1>6, <1>7 DEF CapacityInv

LEMMA RefuseCapacity ==
  ASSUME CapacityInv, UNCHANGED <<store, staged, phase, cmd>>
  PROVE  CapacityInv'
BY DEF CapacityInv, Tracked, Live, PendingDead, Dead, RetiredKeys

(* A guard that matches a pruned lease names a tracked key. *)
LEMMA MatchedIsTracked ==
  ASSUME Inv, NEW now, NEW g \in Guard, Matches(Prune(store, now).leases[g.key], g)
  PROVE  g.key \in Keys /\ store.fences[g.key] # 0
<1>1. store \in StoreState
  BY DEF Inv, TypeOK
<1>2. PICK p : p = Prune(store, now)
  OBVIOUS
<1>3. p \in StoreState /\ StoreInv(p) /\ p.fences = store.fences
  BY <1>1, <1>2, PrunedStore, PruneFields
<1>4. g.key \in Keys /\ p.fences[g.key] = g.fence /\ g.fence # 0
  BY <1>2, <1>3, MatchedRow
<1> QED BY <1>3, <1>4

(* acquire keeps the dead keys it counted as room within reach of          *)
(* finalization.                                                           *)
LEMMA AcquireLive ==
  ASSUME NEW s \in StoreState, StoreInv(s), NEW k \in Keys,
         NEW owner \in Owners, NEW exp \in Int
  PROVE  Live(AcquireLease(s, k, owner, exp)) \subseteq Live(s) \cup {k}
<1>1. PICK t : t = AcquireLease(s, k, owner, exp)
  OBVIOUS
<1>2. RowEdit(s, t, k)
  BY <1>1, AcquireEdit
<1>3. t.candidates = s.candidates \cup {k}
  BY <1>1 DEF AcquireLease, SetFence, StoreState
<1>4. s.nextFence \in Nat /\ t.nextFence \in Nat /\ t.nextFence >= s.nextFence
  BY <1>2 DEF RowEdit, StoreState
<1>5. ASSUME NEW j \in Live(t), j # k PROVE j \in Live(s)
  <2>1. j \in Keys /\ t.fences[j] # 0 /\ t.retired[j] = NotRetired
        /\ j \notin PendingDead(t)
    BY <1>5 DEF Live
  <2>2. /\ t.fences[j] = s.fences[j] /\ t.retired[j] = s.retired[j]
        /\ t.records[j] = s.records[j] /\ t.leases[j] = s.leases[j]
    BY <1>2, <1>5, <2>1 DEF RowEdit
  <2>3. s.fences[j] \in Nat
    BY <2>1 DEF StoreState
  <2>4. s.fences[j] < s.nextFence => t.fences[j] < t.nextFence
    BY <1>4, <2>2, <2>3
  <2>5. j \notin PendingDead(s)
    BY <1>3, <2>1, <2>2, <2>4 DEF PendingDead, Dead
  <2> QED BY <2>1, <2>2, <2>5 DEF Live
<1> QED BY <1>1, <1>5

(* A set of keys with one key more. *)
LEMMA OneMore ==
  ASSUME NEW S, S \subseteq Keys, NEW k \in Keys, NEW T, T \subseteq S \cup {k},
         Cardinality(S) < MaxTrackedKeys
  PROVE  Cardinality(T) <= MaxTrackedKeys
<1>1. /\ IsFiniteSet(S) /\ Cardinality(S) \in Nat
      /\ Cardinality(T) \in Nat /\ Cardinality(S \cup {k}) \in Nat
      /\ Cardinality(T) <= Cardinality(S \cup {k})
  BY SubsetOfKeys
<1>2. Cardinality(S \cup {k}) = Cardinality(S)
      \/ Cardinality(S \cup {k}) = Cardinality(S) + 1
  BY <1>1, FS_AddElement
<1>3. MaxTrackedKeys \in Nat
  BY LimitsAssumption
<1> QED BY <1>1, <1>2, <1>3

LEMMA AcquireCapacity ==
  ASSUME Inv, CapacityInv, NEW sample \in 0..MaxTime, NEW k \in Keys,
         NEW owner \in Owners, NEW ttl \in LeaseTtls,
         Acquire(k, owner, ttl, sample)
  PROVE  CapacityInv'
<1>1. PICK now : now = CommandTime(sample)
  OBVIOUS
<1>2. PICK p : p = Prune(store, now)
  OBVIOUS
<1>3. PICK exp : exp = now + ttl
  OBVIOUS
<1>4. now \in Nat /\ exp \in Int
  BY <1>1, <1>3, CommandTimeType, InputsAssumption DEF Inv
<1>5. store \in StoreState /\ p \in StoreState /\ StoreInv(p)
  BY <1>2, PrunedStore DEF Inv, TypeOK
<1>6. p.fences = store.fences
  BY <1>2, <1>5, PruneFields
<1>7. PICK t : t = AcquireLease(p, k, owner, exp)
  OBVIOUS
<1>8. RowEdit(p, t, k)
  BY <1>4, <1>5, <1>7, AcquireEdit
<1>9. CASE Refuse(now)
  BY <1>9, RefuseCapacity DEF Refuse
<1>10. ASSUME NEW op, NEW guard, HasCapacity(p, k, MaxTrackedKeys),
              Stage(t, "finalize", op, guard, now)
       PROVE  CapacityInv'
  <2>1. CASE store.fences[k] # 0
    BY <1>2, <1>8, <1>10, <2>1, StageCapacity
  <2>2. CASE store.fences[k] = 0
    <3>1. k \notin Tracked(p)
      BY <1>6, <2>2 DEF Tracked
    <3>2. Cardinality(Live(t)) <= MaxTrackedKeys
      <4>1. CASE Cardinality(Tracked(p)) < MaxTrackedKeys
        <5>1. Live(t) \subseteq Tracked(p) \cup {k} /\ Tracked(p) \subseteq Keys
          BY <1>8 DEF Live, Tracked, RowEdit
        <5> QED BY <4>1, <5>1, OneMore
      <4>2. CASE Cardinality(Tracked(p)) - Cardinality(RetiredKeys(p))
                   - Cardinality(PendingDead(p)) < MaxTrackedKeys
        <5>1. Cardinality(Live(p)) < MaxTrackedKeys
          BY <1>5, <4>2, LiveCount
        <5>2. Live(t) \subseteq Live(p) \cup {k}
          BY <1>4, <1>5, <1>7, AcquireLive
        <5>3. Live(p) \subseteq Keys
          BY DEF Live
        <5> QED BY <5>1, <5>2, <5>3, OneMore
      <4> QED BY <1>10, <3>1, <4>1, <4>2 DEF HasCapacity
    <3>3. staged' = t /\ phase' = "finalize" /\ cmd'.rotations = 0 /\ store' = store
      BY <1>10 DEF Stage
    <3> QED BY <3>2, <3>3 DEF CapacityInv
  <2> QED BY <2>1, <2>2
<1> QED BY <1>1, <1>2, <1>3, <1>7, <1>9, <1>10 DEF Acquire, AcquireAccepted

LEMMA LeaseCapacity ==
  ASSUME Inv, CapacityInv, NEW sample \in 0..MaxTime, LeaseStep(sample)
  PROVE  CapacityInv'
<1>1. PICK now : now = CommandTime(sample)
  OBVIOUS
<1>2. PICK p : p = Prune(store, now)
  OBVIOUS
<1>3. now \in Nat /\ p \in StoreState /\ StoreInv(p)
  BY <1>1, <1>2, CommandTimeType, PrunedStore DEF Inv
<1>4. CASE Refuse(now)
  BY <1>4, RefuseCapacity DEF Refuse
<1>5. ASSUME NEW g \in guards, NEW ttl \in LeaseTtls, Renew(g, ttl, sample)
      PROVE  CapacityInv'
  <2>1. g \in Guard
    BY DEF Inv, TypeOK
  <2>2. PICK exp : exp = now + ttl
    OBVIOUS
  <2>3. exp \in Int
    BY <1>3, <2>2, InputsAssumption
  <2>4. ASSUME NEW op, NEW guard, RenewAccepted(p, g, now),
               Stage(RenewLease(p, g, exp), "finalize", op, guard, now)
        PROVE  CapacityInv'
    <3>1. Matches(p.leases[g.key], g)
      BY <2>4 DEF RenewAccepted
    <3>2. g.key \in Keys /\ store.fences[g.key] # 0
      BY <1>2, <2>1, <3>1, MatchedIsTracked
    <3>3. RowEdit(p, RenewLease(p, g, exp), g.key)
      BY <1>3, <2>1, <2>3, <3>1, RenewEdit
    <3> QED BY <1>2, <2>4, <3>2, <3>3, StageCapacity
  <2> QED BY <1>1, <1>2, <1>4, <1>5, <2>2, <2>4 DEF Renew
<1>6. ASSUME NEW g \in guards, Release(g, sample)
      PROVE  CapacityInv'
  <2>1. g \in Guard
    BY DEF Inv, TypeOK
  <2>2. ASSUME NEW op, ReleaseAccepted(p, g),
               Stage(ReleaseLease(p, g), "finalize", op, None, now)
        PROVE  CapacityInv'
    <3>1. Matches(p.leases[g.key], g)
      BY <2>2 DEF ReleaseAccepted
    <3>2. g.key \in Keys /\ store.fences[g.key] # 0
      BY <1>2, <2>1, <3>1, MatchedIsTracked
    <3>3. RowEdit(p, ReleaseLease(p, g), g.key)
      BY <1>3, <2>1, <3>1, ReleaseEdit
    <3> QED BY <1>2, <2>2, <3>2, <3>3, StageCapacity
  <2> QED BY <1>1, <1>2, <1>4, <1>6, <2>2 DEF Release
<1> QED BY <1>5, <1>6, AcquireCapacity DEF LeaseStep

LEMMA DataCapacity ==
  ASSUME Inv, CapacityInv, NEW sample \in 0..MaxTime, DataStep(sample)
  PROVE  CapacityInv'
<1>1. PICK now : now = CommandTime(sample)
  OBVIOUS
<1>2. PICK p : p = Prune(store, now)
  OBVIOUS
<1>3. now \in Nat /\ p \in StoreState /\ StoreInv(p)
  BY <1>1, <1>2, CommandTimeType, PrunedStore DEF Inv
<1>4. CASE Refuse(now) \/ \E k \in Keys : Get(k, sample)
  BY <1>4, RefuseCapacity DEF Refuse, Get
<1>5. ASSUME NEW g \in Guard, Validates(p, g, now), NEW t, NEW op,
             RowEdit(p, t, g.key), Stage(t, "finalize", op, None, now)
      PROVE  CapacityInv'
  <2>1. Matches(p.leases[g.key], g)
    BY <1>5 DEF Validates
  <2>2. g.key \in Keys /\ store.fences[g.key] # 0
    BY <1>2, <1>5, <2>1, MatchedIsTracked
  <2> QED BY <1>2, <1>5, <2>2, StageCapacity
<1>6. ASSUME NEW g \in guards, NEW author \in guards,
             NEW expected \in Generations \cup {None},
             CompareAndSet(g, author, expected, sample)
      PROVE  CapacityInv'
  <2>1. g \in Guard /\ author \in Guard
    BY DEF Inv, TypeOK
  <2>2. PICK r \in RecordInputs(author, now) :
          \/ /\ CasAccepted(p, g, expected, r, now)
             /\ Stage(PutRecord(p, g, r), "finalize", CasOp(g, expected, r), None, now)
          \/ Refuse(now)
    BY <1>1, <1>2, <1>6 DEF CompareAndSet
  <2>3. r \in Record
    BY <1>3, <2>1, RecordInputsType
  <2>4. CasAccepted(p, g, expected, r, now) =>
          RowEdit(p, PutRecord(p, g, r), g.key) /\ Validates(p, g, now)
    BY <1>3, <2>1, <2>3, DataEdits DEF CasAccepted
  <2> QED BY <1>4, <1>5, <2>1, <2>2, <2>4
<1>7. ASSUME NEW g \in guards, DeleteFenced(g, sample)
      PROVE  CapacityInv'
  <2>1. g \in Guard
    BY DEF Inv, TypeOK
  <2>2. \/ /\ DeleteAccepted(p, g, now)
           /\ Stage(DeleteRecord(p, g), "finalize", DeleteOp(g), None, now)
        \/ Refuse(now)
    BY <1>1, <1>2, <1>7 DEF DeleteFenced
  <2>3. DeleteAccepted(p, g, now) =>
          RowEdit(p, DeleteRecord(p, g), g.key) /\ Validates(p, g, now)
    BY <1>3, <2>1, DataEdits DEF DeleteAccepted
  <2> QED BY <1>4, <1>5, <2>1, <2>2, <2>3
<1>8. ASSUME NEW g \in guards, NEW ttl \in RecordTtls, RefreshTtl(g, ttl, sample)
      PROVE  CapacityInv'
  <2>1. g \in Guard /\ now + ttl \in Int
    BY <1>3, InputsAssumption DEF Inv, TypeOK
  <2>2. PICK exp \in Int :
          \/ /\ RefreshAccepted(p, g, now)
             /\ Stage(RefreshRecord(p, g, exp), "finalize", RefreshOp(g, exp), None, now)
          \/ Refuse(now)
    BY <1>1, <1>2, <1>8, <2>1 DEF RefreshTtl
  <2>3. RefreshAccepted(p, g, now) =>
          RowEdit(p, RefreshRecord(p, g, exp), g.key) /\ Validates(p, g, now)
    BY <1>3, <2>1, DataEdits DEF RefreshAccepted
  <2> QED BY <1>4, <1>5, <2>1, <2>2, <2>3
<1>9. CASE BatchStart(sample)
  <2>1. staged' = p /\ phase' = "batch" /\ store' = store /\ cmd'.rotations = 0
    BY <1>1, <1>2, <1>9 DEF BatchStart, Stage
  <2>2. p.fences = store.fences
    BY <1>2, PruneFields DEF Inv, TypeOK
  <2>3. Tracked(p) = Tracked(store) /\ Cardinality(Tracked(store)) <= MaxTrackedKeys
    BY <2>2 DEF Tracked, CapacityInv
  <2>4. Cardinality(Live(p)) <= MaxTrackedKeys
    BY <2>2, <2>3, LiveIsTracked
  <2> QED BY <2>1, <2>3, <2>4 DEF CapacityInv
<1> QED BY <1>4, <1>6, <1>7, <1>8, <1>9 DEF DataStep

LEMMA BatchCapacity ==
  ASSUME Inv, CapacityInv, BatchStep
  PROVE  CapacityInv'
<1>1. phase = "batch"
  BY DEF BatchStep, BatchCas, BatchDelete, BatchRefresh, BatchGet, BatchEnd, InBatch
<1>2. staged \in StoreState /\ StoreInv(staged) /\ cmd \in Command /\ cmd.now \in Nat
  BY DEF Inv, TypeOK, StatesSafe, Command
<1>3. /\ Tracked(staged) = Tracked(store) /\ cmd.rotations = 0
      /\ Cardinality(Tracked(store)) <= MaxTrackedKeys
  BY <1>1 DEF CapacityInv
<1>4. ASSUME NEW g \in Guard, Validates(staged, g, cmd.now), NEW t, NEW op,
             RowEdit(staged, t, g.key), BatchChild(t, op)
      PROVE  CapacityInv'
  <2>1. Matches(staged.leases[g.key], g)
    BY <1>4 DEF Validates
  <2>2. g.key \in Keys /\ staged.fences[g.key] = g.fence /\ g.fence # 0
    BY <1>2, <1>4, <2>1, MatchedRow
  <2>3. \A j \in Keys : t.fences[j] # 0 <=> staged.fences[j] # 0
    BY <1>4, <2>2 DEF RowEdit
  <2>4. Tracked(t) = Tracked(store)
    BY <1>3, <2>3 DEF Tracked
  <2>5. Cardinality(Live(t)) <= MaxTrackedKeys
    BY <1>3, <2>3, LiveIsTracked
  <2>6. staged' = t /\ store' = store /\ phase' = "batch" /\ cmd'.rotations = 0
    BY <1>1, <1>2, <1>3, <1>4 DEF BatchChild, Command
  <2> QED BY <1>3, <2>4, <2>5, <2>6 DEF CapacityInv
<1>5. ASSUME NEW g \in guards, NEW expected \in Generations \cup {None},
             BatchCas(g, expected)
      PROVE  CapacityInv'
  <2>1. PICK r \in RecordInputs(g, cmd.now) :
          /\ CasAccepted(staged, g, expected, r, cmd.now)
          /\ BatchChild(PutRecord(staged, g, r), CasOp(g, expected, r))
    BY <1>5 DEF BatchCas
  <2>2. g \in Guard /\ r \in Record
    BY <1>2, RecordInputsType DEF Inv, TypeOK
  <2>3. RowEdit(staged, PutRecord(staged, g, r), g.key) /\ Validates(staged, g, cmd.now)
    BY <1>2, <2>1, <2>2, DataEdits DEF CasAccepted
  <2> QED BY <1>4, <2>1, <2>2, <2>3
<1>6. ASSUME NEW g \in guards, BatchDelete(g)
      PROVE  CapacityInv'
  <2>1. g \in Guard
    BY DEF Inv, TypeOK
  <2>2. RowEdit(staged, DeleteRecord(staged, g), g.key) /\ Validates(staged, g, cmd.now)
    BY <1>2, <1>6, <2>1, DataEdits DEF BatchDelete, DeleteAccepted
  <2> QED BY <1>4, <1>6, <2>1, <2>2 DEF BatchDelete
<1>7. ASSUME NEW g \in guards, NEW ttl \in RecordTtls, BatchRefresh(g, ttl)
      PROVE  CapacityInv'
  <2>1. g \in Guard /\ cmd.now + ttl \in Int
    BY <1>2, InputsAssumption DEF Inv, TypeOK
  <2>2. PICK exp \in Int :
          /\ RefreshAccepted(staged, g, cmd.now)
          /\ BatchChild(RefreshRecord(staged, g, exp), RefreshOp(g, exp))
    BY <1>7, <2>1 DEF BatchRefresh
  <2>3. RowEdit(staged, RefreshRecord(staged, g, exp), g.key)
        /\ Validates(staged, g, cmd.now)
    BY <1>2, <2>1, <2>2, DataEdits DEF RefreshAccepted
  <2> QED BY <1>4, <2>1, <2>2, <2>3
<1>8. ASSUME NEW k \in Keys, BatchGet(k)
      PROVE  CapacityInv'
  <2>1. UNCHANGED <<store, staged, phase>> /\ cmd'.rotations = cmd.rotations
    BY <1>2, <1>8 DEF BatchGet, Command
  <2> QED BY <2>1 DEF CapacityInv
<1>9. CASE BatchEnd
  <2>1. CASE /\ phase' = "finalize" /\ UNCHANGED <<store, staged, cmd>>
    BY <1>1, <1>3, <2>1 DEF CapacityInv
  <2>2. CASE phase' = "idle" /\ store' = store
    BY <1>3, <2>2 DEF CapacityInv
  <2> QED BY <1>9, <2>1, <2>2 DEF BatchEnd
<1> QED BY <1>5, <1>6, <1>7, <1>8, <1>9 DEF BatchStep

(* A rotation leaves only what the epoch it closes has retired, so the     *)
(* next one leaves nothing.                                                *)
LEMMA RotateRetired ==
  ASSUME NEW s \in StoreState, RetiredFencesValid(s)
  PROVE  /\ \A k \in RetiredKeys(Rotate(s)) :
              Rotate(s).retired[k] = Rotate(s).retention.epoch - 1
         /\ (\A k \in RetiredKeys(s) : s.retired[k] = s.retention.epoch - 1)
              => RetiredKeys(Rotate(s)) = {}
<1>1. PICK t : t = Rotate(s)
  OBVIOUS
<1>2. /\ t.retention.epoch = s.retention.epoch + 1
      /\ s.retention.epoch \in Nat
      /\ \A k \in Keys :
           IF k \in DroppedKeys(s)
           THEN t.fences[k] = 0 /\ t.retired[k] = NotRetired
           ELSE t.fences[k] = s.fences[k] /\ t.retired[k] = s.retired[k]
  BY <1>1, RotateFields DEF StoreState, Retention
<1>3. ASSUME NEW k \in RetiredKeys(t)
      PROVE  /\ k \in RetiredKeys(s) /\ t.retired[k] = s.retired[k]
             /\ s.retired[k] = s.retention.epoch
  <2>1. k \in Keys /\ t.retired[k] # NotRetired
    BY DEF RetiredKeys
  <2>2. k \notin DroppedKeys(s) /\ t.retired[k] = s.retired[k]
    BY <1>2, <2>1
  <2>3. k \in RetiredKeys(s)
    BY <2>1, <2>2 DEF RetiredKeys
  <2>4. s.retired[k] = s.retention.epoch \/ s.retired[k] = s.retention.epoch - 1
    BY <2>3 DEF RetiredFencesValid
  <2>5. ~(s.retired[k] <= s.retention.epoch + 1 - 2)
    BY <2>2, <2>3 DEF DroppedKeys
  <2> QED BY <1>2, <2>2, <2>3, <2>4, <2>5
<1>4. \A k \in RetiredKeys(t) : t.retired[k] = t.retention.epoch - 1
  BY <1>2, <1>3
<1>5. (\A k \in RetiredKeys(s) : s.retired[k] = s.retention.epoch - 1)
        => RetiredKeys(t) = {}
  BY <1>2, <1>3
<1> QED BY <1>1, <1>4, <1>5

LEMMA FinalizeCapacity ==
  ASSUME Inv, CapacityInv, FinalizeStep
  PROVE  CapacityInv'
<1>1. /\ phase = "finalize" /\ staged \in StoreState /\ StoreInv(staged)
      /\ cmd \in Command /\ cmd.rotations \in Nat
  BY DEF Inv, TypeOK, StatesSafe, Command, FinalizeStep, RetireDeadKey,
         RotateForCapacity, Commit
<1>2. /\ Cardinality(Tracked(store)) <= MaxTrackedKeys
      /\ Cardinality(Live(staged)) <= MaxTrackedKeys
      /\ cmd.rotations \in 0..2
      /\ staged.candidates # {} => cmd.rotations = 0
      /\ cmd.rotations # 0 =>
           \A k \in RetiredKeys(staged) :
             staged.retired[k] = staged.retention.epoch - 1
      /\ cmd.rotations = 2 => RetiredKeys(staged) = {}
  BY <1>1 DEF CapacityInv
<1>3. ASSUME NEW t, Live(t) \subseteq Live(staged)
      PROVE  Cardinality(Live(t)) <= MaxTrackedKeys
  <2>1. Live(staged) \subseteq Keys
    BY DEF Live
  <2>2. Cardinality(Live(t)) \in Nat /\ Cardinality(Live(staged)) \in Nat
        /\ Cardinality(Live(t)) <= Cardinality(Live(staged))
    BY <1>3, <2>1, SubsetOfKeys
  <2> QED BY <1>2, <2>2, LimitsAssumption
<1>4. ASSUME NEW k \in staged.candidates, RetireDeadKey(k)
      PROVE  CapacityInv'
  <2>1. k \in Keys
    BY <1>1 DEF StoreState
  <2>2. PICK s : s = Retire(staged, k)
    OBVIOUS
  <2>3. s \in StoreState /\ Live(s) \subseteq Live(staged)
    BY <1>1, <2>1, <2>2, RetireFields, RetireLive
  <2>4. Live(Rotate(s)) \subseteq Live(staged)
    BY <2>3, RotateLive
  <2>5. /\ staged' = s \/ staged' = Rotate(s)
        /\ UNCHANGED <<store, phase, cmd>>
    BY <1>4, <2>2 DEF RetireDeadKey
  <2>6. Cardinality(Live(staged')) <= MaxTrackedKeys
    BY <1>3, <2>3, <2>4, <2>5
  <2>7. cmd'.rotations = 0 /\ phase' = "finalize" /\ store' = store
    BY <1>1, <1>2, <1>4, <2>5
  <2> QED BY <1>2, <2>6, <2>7 DEF CapacityInv
<1>5. CASE RotateForCapacity
  <2>1. PICK t : t = Rotate(staged)
    OBVIOUS
  <2>2. /\ staged' = t /\ UNCHANGED <<store, phase>>
        /\ staged.candidates = {} /\ RetiredKeys(staged) # {}
        /\ cmd'.rotations = cmd.rotations + 1
    BY <1>1, <1>5, <2>1 DEF RotateForCapacity, Command
  <2>3. Live(t) \subseteq Live(staged) /\ t.candidates = {}
    BY <1>1, <2>1, <2>2, RotateLive, RotateFields
  <2>4. /\ \A k \in RetiredKeys(t) : t.retired[k] = t.retention.epoch - 1
        /\ (\A k \in RetiredKeys(staged) :
              staged.retired[k] = staged.retention.epoch - 1) => RetiredKeys(t) = {}
    BY <1>1, <2>1, RotateRetired DEF StoreInv
  <2>5. cmd.rotations = 0 \/ cmd.rotations = 1
    BY <1>1, <1>2, <2>2
  <2>6. cmd'.rotations = 2 => RetiredKeys(t) = {}
    BY <1>2, <2>2, <2>4, <2>5
  <2>7. cmd'.rotations \in 0..2
    BY <2>2, <2>5
  <2>8. Cardinality(Live(t)) <= MaxTrackedKeys
    BY <1>3, <2>3
  <2> QED BY <1>1, <1>2, <2>2, <2>3, <2>4, <2>6, <2>7, <2>8 DEF CapacityInv
<1>6. CASE Commit
  <2>1. ~OverCapacity(staged, MaxTrackedKeys)
        /\ store' = [staged EXCEPT !.committedTime = cmd.now] /\ phase' = "idle"
    BY <1>6 DEF Commit
  <2>2. store'.fences = staged.fences
    BY <1>1, <2>1 DEF StoreState
  <2>3. Tracked(store') = Tracked(staged)
    BY <2>2 DEF Tracked
  <2>4. Tracked(staged) \subseteq Keys
    BY DEF Tracked
  <2>5. Cardinality(Tracked(staged)) \in Nat
    BY <2>4, SubsetOfKeys
  <2>6. Cardinality(Tracked(store')) <= MaxTrackedKeys
    BY <2>1, <2>3, <2>5, LimitsAssumption DEF OverCapacity
  <2> QED BY <2>1, <2>6 DEF CapacityInv
<1> QED BY <1>4, <1>5, <1>6 DEF FinalizeStep

(* The counted keys are enough for finalization. *)
LEMMA CapacityIsEnough ==
  ASSUME Inv, CapacityInv
  PROVE  FinalizationSucceeds
<1> SUFFICES ASSUME phase = "finalize"
             PROVE  /\ \A k \in staged.candidates :
                         ReachesThreshold(staged, k) => RotationAccepted(Retire(staged, k))
                    /\ staged.candidates = {} =>
                         /\ OverCapacity(staged, MaxTrackedKeys) =>
                              RetiredKeys(staged) # {} /\ RotationAccepted(staged)
                         /\ ~OverCapacity(staged, MaxTrackedKeys) => PolicyAccepted
  BY DEF FinalizationSucceeds
<1>1. /\ staged \in StoreState /\ StoreInv(staged)
      /\ cmd \in Command /\ cmd.rotations \in Nat
  BY DEF Inv, TypeOK, StatesSafe, Command
<1>2. cmd.rotations \in 0..2 /\ Cardinality(Live(staged)) <= MaxTrackedKeys
  BY DEF CapacityInv
<1>3. ASSUME NEW k \in staged.candidates
      PROVE  RotationAccepted(Retire(staged, k))
  <2>1. k \in Keys
    BY <1>1 DEF StoreState
  <2>2. PICK s : s = Retire(staged, k)
    OBVIOUS
  <2>3. s \in StoreState /\ RetiredFencesValid(s) /\ RowsFenced(s)
    BY <1>1, <2>1, <2>2, RetireFields, RetireKeeps
  <2>4. RotationAccepted(s)
    BY <2>3, RotateKeeps
  <2> QED BY <2>2, <2>4
<1>4. RotationAccepted(staged)
  BY <1>1, RotateKeeps DEF StoreInv
<1>5. ASSUME staged.candidates = {}, OverCapacity(staged, MaxTrackedKeys),
             RetiredKeys(staged) = {}
      PROVE  FALSE
  <2>1. Live(staged) = Tracked(staged)
    BY <1>5 DEF Live, Tracked, PendingDead, RetiredKeys
  <2>2. Tracked(staged) \subseteq Keys
    BY DEF Tracked
  <2>3. Cardinality(Tracked(staged)) \in Nat
    BY <2>2, SubsetOfKeys
  <2> QED BY <1>2, <1>5, <2>1, <2>3, LimitsAssumption DEF OverCapacity
<1>6. PolicyAccepted
  BY <1>1, <1>2 DEF PolicyAccepted
<1> QED BY <1>3, <1>4, <1>5, <1>6

(* The bound holds of a new backend, and every command keeps it. *)
LEMMA InitCapacity == Init => CapacityInv
<1> SUFFICES ASSUME Init PROVE CapacityInv
  OBVIOUS
<1>1. Tracked(store) = {} /\ phase = "idle"
  BY DEF Init, EmptyStore, Tracked
<1>2. Cardinality(Tracked(store)) <= MaxTrackedKeys
  BY <1>1, FS_EmptySet, LimitsAssumption
<1> QED BY <1>1, <1>2 DEF CapacityInv

LEMMA NextCapacity == Inv /\ CapacityInv /\ [Next]_vars => CapacityInv'
<1>1. ASSUME CapacityInv, UNCHANGED vars PROVE CapacityInv'
  BY <1>1, RefuseCapacity DEF vars
<1> QED BY <1>1, LeaseCapacity, DataCapacity, BatchCapacity, FinalizeCapacity
        DEF Next

(* A command admitted by ensure_key_capacity is never refused while it is  *)
(* finalized, for every limit, threshold and number of keys: dead keys     *)
(* that were counted as room can be dropped, no rotation meets an index    *)
(* that disagrees with the floors, and two capacity rotations suffice.     *)
THEOREM AdmittedCommandsFinalize == Spec => []FinalizationSucceeds
<1>1. Init => CapacityInv
  BY InitCapacity
<1>2. Inv /\ CapacityInv /\ [Next]_vars => CapacityInv'
  BY NextCapacity
<1>3. Inv /\ CapacityInv => FinalizationSucceeds
  BY CapacityIsEnough
<1> QED BY <1>1, <1>2, <1>3, Invariance, PTL DEF Spec

-----------------------------------------------------------------------------
(* Expiries that readers have observed.                                    *)

(* Every mark stands for a committed record. *)
Marked == \A k \in hidden : store.records[k] # None

MarksFollow ==
  \A k \in hidden :
    (k \in hidden') <=>
      \/ store'.records[k] = store.records[k]
      \/ k \in StillCommitted(cmd.reads, store'.records)

(* Apart from a commit, a step adds at most marks of expired records. *)
MarksGrow ==
  /\ store' = store
  /\ hidden \subseteq hidden'
  /\ \A k \in hidden' : k \in hidden \/ store.records[k] # None

LEMMA SomeMarks ==
  ASSUME store' = store,
         \/ hidden' = hidden
         \/ \E k, now : hidden' = ObserveExpiry(k, now)
         \/ hidden' = hidden \cup StillCommitted(cmd.reads, store.records)
  PROVE  MarksGrow
BY DEF MarksGrow, ObserveExpiry, StillCommitted

LEMMA OtherMarks ==
  ASSUME [Next]_vars, ~Commit
  PROVE  MarksGrow
<1>1. ASSUME NEW sample, LeaseStep(sample) PROVE MarksGrow
  <2>1. store' = store /\ hidden' = hidden
    BY <1>1 DEF LeaseStep, Acquire, Renew, Release, Stage, Refuse
  <2> QED BY <2>1, SomeMarks
<1>2. ASSUME NEW sample, DataStep(sample) PROVE MarksGrow
  <2>1. ASSUME NEW k \in Keys, Get(k, sample) PROVE MarksGrow
    BY <2>1, SomeMarks DEF Get
  <2>2. ASSUME NEW g \in guards, NEW author \in guards, NEW expected,
               CompareAndSet(g, author, expected, sample)
        PROVE  MarksGrow
    <3>1. store' = store
      BY <2>2 DEF CompareAndSet, Stage, Refuse
    <3>2. hidden' = ObserveExpiry(g.key, CommandTime(sample))
      BY <2>2 DEF CompareAndSet
    <3> QED BY <3>1, <3>2, SomeMarks
  <2>3. ASSUME NEW g \in guards, DeleteFenced(g, sample) PROVE MarksGrow
    <3>1. store' = store /\ hidden' = hidden
      BY <2>3 DEF DeleteFenced, Stage, Refuse
    <3> QED BY <3>1, SomeMarks
  <2>4. ASSUME NEW g \in guards, NEW ttl, RefreshTtl(g, ttl, sample) PROVE MarksGrow
    <3>1. store' = store
      BY <2>4 DEF RefreshTtl, Stage, Refuse
    <3>2. hidden' = ObserveExpiry(g.key, CommandTime(sample))
      BY <2>4 DEF RefreshTtl
    <3> QED BY <3>1, <3>2, SomeMarks
  <2>5. CASE BatchStart(sample)
    <3>1. store' = store /\ hidden' = hidden
      BY <2>5 DEF BatchStart, Stage
    <3> QED BY <3>1, SomeMarks
  <2> QED BY <1>2, <2>1, <2>2, <2>3, <2>4, <2>5 DEF DataStep
<1>3. ASSUME BatchStep PROVE MarksGrow
  <2>1. /\ store' = store
        /\ \/ hidden' = hidden
           \/ hidden' = hidden \cup StillCommitted(cmd.reads, store.records)
    BY <1>3 DEF BatchStep, BatchCas, BatchDelete, BatchRefresh, BatchGet, BatchEnd,
                BatchChild
  <2> QED BY <2>1, SomeMarks
<1>4. ASSUME FinalizeStep PROVE MarksGrow
  <2>1. store' = store /\ hidden' = hidden
    BY <1>4 DEF FinalizeStep, RetireDeadKey, RotateForCapacity
  <2> QED BY <2>1, SomeMarks
<1>5. CASE UNCHANGED vars
  BY <1>5, SomeMarks DEF vars
<1> QED BY <1>1, <1>2, <1>3, <1>4, <1>5 DEF Next

LEMMA MarksStep ==
  ASSUME Inv, Marked, [Next]_vars
  PROVE  Marked' /\ MarksFollow
<1>1. CASE Commit
  <2>1. PICK recs : recs = store'.records
    OBVIOUS
  <2>2. recs = staged.records
    BY <1>1, <2>1 DEF Commit, Inv, TypeOK, StoreState
  <2>3. hidden' = {k \in hidden : recs[k] = store.records[k]}
                    \cup StillCommitted(cmd.reads, recs)
    BY <1>1, <2>2 DEF Commit, KeptMarks
  <2>4. \A k \in hidden' : recs[k] # None
    BY <2>3 DEF Marked, StillCommitted
  <2>5. \A k \in hidden : (k \in hidden') <=>
          recs[k] = store.records[k] \/ k \in StillCommitted(cmd.reads, recs)
    BY <2>3
  <2> QED BY <2>1, <2>4, <2>5 DEF Marked, MarksFollow
<1>2. CASE ~Commit
  BY <1>2, OtherMarks DEF Marked, MarksFollow, MarksGrow
<1> QED BY <1>1, <1>2

(* ReadExpiry and publish_staged_data: an observed expiry is forgotten     *)
(* exactly when a commit changes the record, unless the committing batch   *)
(* itself read the record it leaves behind as expired; and every mark      *)
(* stands for a committed record.                                          *)
THEOREM MarksFollowRecords == Spec => ExpiryMarksFollowRecords
<1>1. Init => Marked
  BY DEF Init, Marked
<1>2. Inv /\ Marked /\ [Next]_vars => Marked' /\ MarksFollow
  BY MarksStep
<1>3. Marked = \A k \in hidden : store.records[k] # None
  BY DEF Marked
<1> QED BY <1>1, <1>2, <1>3, Invariance, PTL DEF Spec, ExpiryMarksFollowRecords, Marked, MarksFollow

-----------------------------------------------------------------------------
(* Replication: induction and the loops of a replay.                       *)

(* A set of naturals has a least element: the intervals below its members  *)
(* are finite sets, which strict inclusion orders well.                    *)
LEMMA LeastNatural ==
  ASSUME NEW T, T \subseteq Nat, T # {}
  PROVE  \E m \in T : \A n \in T : m <= n
<1> DEFINE U == {0..n - 1 : n \in T}
<1>1. U \subseteq FiniteSubsetsOf(Nat)
  <2>1. ASSUME NEW n \in T PROVE 0..n - 1 \in FiniteSubsetsOf(Nat)
    <3>1. 0 \in Int /\ n - 1 \in Int
      BY n \in Nat
    <3>2. IsFiniteSet(0..n - 1)
      BY <3>1, FS_Interval
    <3> QED BY <3>2 DEF FiniteSubsetsOf
  <2> QED BY <2>1
<1>2. U # {}
  OBVIOUS
<1>3. IsWellFoundedOn(StrictSubsetOrdering(Nat), FiniteSubsetsOf(Nat))
  BY FS_StrictSubsetOrderingWellFounded
<1>4. PICK x \in U : \A y \in U : <<y, x>> \notin StrictSubsetOrdering(Nat)
  <2> HIDE DEF U
  <2> QED BY <1>1, <1>2, <1>3, WFMin
<1>5. PICK m \in T : x = 0..m - 1
  OBVIOUS
<1>6. ASSUME NEW n \in T, n < m PROVE FALSE
  <2>1. 0..n - 1 \in U /\ 0..n - 1 \in SUBSET Nat /\ 0..m - 1 \in SUBSET Nat
    OBVIOUS
  <2>2. 0..n - 1 \subseteq 0..m - 1 /\ n \in 0..m - 1 /\ n \notin 0..n - 1
    BY <1>6
  <2>3. <<0..n - 1, 0..m - 1>> \in StrictSubsetOrdering(Nat)
    BY <2>1, <2>2 DEF StrictSubsetOrdering
  <2> QED BY <1>4, <1>5, <2>1, <2>3
<1> QED BY <1>6

(* Induction, with the property as a set. *)
LEMMA SetInduction ==
  ASSUME NEW T, 0 \in T, \A n \in Nat : n \in T => n + 1 \in T
  PROVE  Nat \subseteq T
<1> DEFINE U == Nat \ T
<1>1. SUFFICES ASSUME U # {} PROVE FALSE
  OBVIOUS
<1>2. PICK m \in U : \A n \in U : m <= n
  <2>1. U \subseteq Nat
    OBVIOUS
  <2> HIDE DEF U
  <2> QED BY <1>1, <2>1, LeastNatural
<1>3. m \in Nat /\ m \notin T /\ m # 0
  BY <1>2
<1>4. m - 1 \in Nat /\ m - 1 \notin U
  BY <1>2, <1>3
<1>5. m - 1 \in T /\ (m - 1) + 1 = m
  BY <1>3, <1>4
<1> QED BY <1>3, <1>4, <1>5

(* Two functions that start alike and step alike are alike. *)
LEMMA SameRuns ==
  ASSUME NEW f, NEW g, NEW m \in Nat, f[0] = g[0],
         \A i \in 1..m : f[i - 1] = g[i - 1] => f[i] = g[i]
  PROVE  \A i \in 0..m : f[i] = g[i]
<1> DEFINE T == {i \in Nat : i <= m => f[i] = g[i]}
<1>1. 0 \in T
  OBVIOUS
<1>2. ASSUME NEW n \in Nat, n \in T PROVE n + 1 \in T
  <2>1. CASE n + 1 <= m
    <3>1. n + 1 \in 1..m /\ (n + 1) - 1 = n /\ f[n] = g[n]
      BY <1>2, <2>1
    <3> QED BY <3>1
  <2>2. CASE ~(n + 1 <= m)
    BY <2>2
  <2> QED BY <2>1, <2>2
<1>3. Nat \subseteq T
  <2> HIDE DEF T
  <2> QED BY <1>1, <1>2, SetInduction
<1> QED BY <1>3

(* The retirement loop visits one key after the other.                     *)
LEMMA RetireBelowSteps ==
  ASSUME NEW s, NEW n \in Nat
  PROVE  /\ RetireBelow(s, 0) = s
         /\ RetireBelow(s, n + 1) = VisitKey(RetireBelow(s, n), n)
<1> DEFINE Rec(f, m) == f = [i \in 0..m |-> IF i = 0 THEN s
                                           ELSE VisitKey(f[i - 1], i - 1)]
           run(m) == CHOOSE f : Rec(f, m)
           T == {m \in Nat : \E f : Rec(f, m)}
<1>1. \A m : RetireBelow(s, m) = run(m)[m]
  BY DEF RetireBelow
<1>2. 0 \in T
  <2>1. Rec([i \in 0..0 |-> s], 0)
    OBVIOUS
  <2> QED BY <2>1
<1>3. ASSUME NEW m \in Nat, m \in T PROVE m + 1 \in T
  <2>1. PICK f : Rec(f, m)
    BY <1>3
  <2>2. PICK g : g = [i \in 0..m + 1 |-> IF i = m + 1 THEN VisitKey(f[m], m)
                                         ELSE f[i]]
    OBVIOUS
  <2>3. ASSUME NEW i \in 0..m + 1
        PROVE  g[i] = IF i = 0 THEN s ELSE VisitKey(g[i - 1], i - 1)
    <3>1. CASE i = m + 1
      BY <2>2, <3>1
    <3>2. CASE i # m + 1
      <4>1. i \in 0..m /\ g[i] = f[i]
        BY <2>2, <3>2
      <4>2. i # 0 => g[i - 1] = f[i - 1]
        BY <2>2, <3>2
      <4> QED BY <2>1, <4>1, <4>2
    <3> QED BY <3>1, <3>2
  <2>4. Rec(g, m + 1)
    BY <2>2, <2>3
  <2> QED BY <2>4
<1>4. Nat \subseteq T
  <2> HIDE DEF T
  <2> QED BY <1>2, <1>3, SetInduction
<1>5. ASSUME NEW m \in Nat PROVE Rec(run(m), m)
  BY <1>4
<1>6. PICK f : f = run(n)
  OBVIOUS
<1>7. PICK g : g = run(n + 1)
  OBVIOUS
<1> HIDE DEF run
<1>8. Rec(f, n) /\ Rec(g, n + 1) /\ Rec(run(0), 0)
  <2> HIDE DEF Rec
  <2>1. n + 1 \in Nat
    OBVIOUS
  <2> QED BY <1>5, <1>6, <1>7, <2>1
<1>9. \A i \in 1..n : f[i] = VisitKey(f[i - 1], i - 1) /\ g[i] = VisitKey(g[i - 1], i - 1)
  BY <1>8
<1>10. f[0] = s /\ g[0] = s /\ run(0)[0] = s
  BY <1>8
<1>11. \A i \in 0..n : f[i] = g[i]
  BY <1>9, <1>10, SameRuns
<1>12. g[n + 1] = VisitKey(g[n], n) /\ f[n] = g[n]
  <2>1. n + 1 \in 0..n + 1 /\ n + 1 # 0 /\ (n + 1) - 1 = n
    OBVIOUS
  <2>2. \A i \in 0..n + 1 : i # 0 => g[i] = VisitKey(g[i - 1], i - 1)
    BY <1>8
  <2> QED BY <1>11, <2>1, <2>2
<1> QED BY <1>1, <1>6, <1>7, <1>10, <1>12

(* The capacity rotations of a replay follow one another.                  *)
LEMMA RotateTimesSteps ==
  ASSUME NEW s, NEW n \in Nat
  PROVE  /\ RotateTimes(s, 0) = s
         /\ RotateTimes(s, n + 1) = RotateStep(RotateTimes(s, n))
<1> DEFINE Rec(f, m) == f = [i \in 0..m |-> IF i = 0 THEN s
                                           ELSE RotateStep(f[i - 1])]
           run(m) == CHOOSE f : Rec(f, m)
           T == {m \in Nat : \E f : Rec(f, m)}
<1>1. \A m : RotateTimes(s, m) = run(m)[m]
  BY DEF RotateTimes
<1>2. 0 \in T
  <2>1. Rec([i \in 0..0 |-> s], 0)
    OBVIOUS
  <2> QED BY <2>1
<1>3. ASSUME NEW m \in Nat, m \in T PROVE m + 1 \in T
  <2>1. PICK f : Rec(f, m)
    BY <1>3
  <2>2. PICK g : g = [i \in 0..m + 1 |-> IF i = m + 1 THEN RotateStep(f[m])
                                         ELSE f[i]]
    OBVIOUS
  <2>3. ASSUME NEW i \in 0..m + 1
        PROVE  g[i] = IF i = 0 THEN s ELSE RotateStep(g[i - 1])
    <3>1. CASE i = m + 1
      BY <2>2, <3>1
    <3>2. CASE i # m + 1
      <4>1. i \in 0..m /\ g[i] = f[i]
        BY <2>2, <3>2
      <4>2. i # 0 => g[i - 1] = f[i - 1]
        BY <2>2, <3>2
      <4> QED BY <2>1, <4>1, <4>2
    <3> QED BY <3>1, <3>2
  <2>4. Rec(g, m + 1)
    BY <2>2, <2>3
  <2> QED BY <2>4
<1>4. Nat \subseteq T
  <2> HIDE DEF T
  <2> QED BY <1>2, <1>3, SetInduction
<1>5. ASSUME NEW m \in Nat PROVE Rec(run(m), m)
  BY <1>4
<1>6. PICK f : f = run(n)
  OBVIOUS
<1>7. PICK g : g = run(n + 1)
  OBVIOUS
<1> HIDE DEF run
<1>8. Rec(f, n) /\ Rec(g, n + 1) /\ Rec(run(0), 0)
  <2> HIDE DEF Rec
  <2>1. n + 1 \in Nat
    OBVIOUS
  <2> QED BY <1>5, <1>6, <1>7, <2>1
<1>9. \A i \in 1..n : f[i] = RotateStep(f[i - 1]) /\ g[i] = RotateStep(g[i - 1])
  BY <1>8
<1>10. f[0] = s /\ g[0] = s /\ run(0)[0] = s
  BY <1>8
<1>11. \A i \in 0..n : f[i] = g[i]
  BY <1>9, <1>10, SameRuns
<1>12. g[n + 1] = RotateStep(g[n]) /\ f[n] = g[n]
  <2>1. n + 1 \in 0..n + 1 /\ n + 1 # 0 /\ (n + 1) - 1 = n
    OBVIOUS
  <2>2. \A i \in 0..n + 1 : i # 0 => g[i] = RotateStep(g[i - 1])
    BY <1>8
  <2> QED BY <1>11, <2>1, <2>2
<1> QED BY <1>1, <1>6, <1>7, <1>10, <1>12

(* A rebuild applies the entries of the prefix in their order.             *)
LEMMA RebuiltSteps ==
  ASSUME NEW n \in Nat
  PROVE  /\ Rebuilt(0) = EmptyReplica
         /\ Rebuilt(n + 1) = RebuildStep(Rebuilt(n), sent[n + 1])
<1> DEFINE Rec(f, m) == f = [i \in 0..m |-> IF i = 0 THEN EmptyReplica
                                           ELSE RebuildStep(f[i - 1], sent[i])]
           run(m) == CHOOSE f : Rec(f, m)
           T == {m \in Nat : \E f : Rec(f, m)}
<1>1. \A m : Rebuilt(m) = run(m)[m]
  BY DEF Rebuilt
<1>2. 0 \in T
  <2>1. Rec([i \in 0..0 |-> EmptyReplica], 0)
    OBVIOUS
  <2> QED BY <2>1
<1>3. ASSUME NEW m \in Nat, m \in T PROVE m + 1 \in T
  <2>1. PICK f : Rec(f, m)
    BY <1>3
  <2>2. PICK g : g = [i \in 0..m + 1 |-> IF i = m + 1 THEN RebuildStep(f[m], sent[m + 1])
                                         ELSE f[i]]
    OBVIOUS
  <2>3. ASSUME NEW i \in 0..m + 1
        PROVE  g[i] = IF i = 0 THEN EmptyReplica ELSE RebuildStep(g[i - 1], sent[i])
    <3>1. CASE i = m + 1
      BY <2>2, <3>1
    <3>2. CASE i # m + 1
      <4>1. i \in 0..m /\ g[i] = f[i]
        BY <2>2, <3>2
      <4>2. i # 0 => g[i - 1] = f[i - 1]
        BY <2>2, <3>2
      <4> QED BY <2>1, <4>1, <4>2
    <3> QED BY <3>1, <3>2
  <2>4. Rec(g, m + 1)
    BY <2>2, <2>3
  <2> QED BY <2>4
<1>4. Nat \subseteq T
  <2> HIDE DEF T
  <2> QED BY <1>2, <1>3, SetInduction
<1>5. ASSUME NEW m \in Nat PROVE Rec(run(m), m)
  BY <1>4
<1>6. PICK f : f = run(n)
  OBVIOUS
<1>7. PICK g : g = run(n + 1)
  OBVIOUS
<1> HIDE DEF run
<1>8. Rec(f, n) /\ Rec(g, n + 1) /\ Rec(run(0), 0)
  <2> HIDE DEF Rec
  <2>1. n + 1 \in Nat
    OBVIOUS
  <2> QED BY <1>5, <1>6, <1>7, <2>1
<1>9. \A i \in 1..n : f[i] = RebuildStep(f[i - 1], sent[i]) /\ g[i] = RebuildStep(g[i - 1], sent[i])
  BY <1>8
<1>10. f[0] = EmptyReplica /\ g[0] = EmptyReplica /\ run(0)[0] = EmptyReplica
  BY <1>8
<1>11. \A i \in 0..n : f[i] = g[i]
  BY <1>9, <1>10, SameRuns
<1>12. g[n + 1] = RebuildStep(g[n], sent[n + 1]) /\ f[n] = g[n]
  <2>1. n + 1 \in 0..n + 1 /\ n + 1 # 0 /\ (n + 1) - 1 = n
    OBVIOUS
  <2>2. \A i \in 0..n + 1 : i # 0 => g[i] = RebuildStep(g[i - 1], sent[i])
    BY <1>8
  <2> QED BY <1>11, <2>1, <2>2
<1> QED BY <1>1, <1>6, <1>7, <1>10, <1>12

(* The replay of an entry applies its operations one after the other. *)
LEMMA ReplayAllEmpty ==
  ASSUME NEW s, NEW now
  PROVE  ReplayAll(s, <<>>, now) = s
<1> DEFINE Rec(f) == f = [i \in 0..0 |-> IF i = 0 THEN s
                                        ELSE ReplayStep(f[i - 1], <<>>[i], now)]
           run == CHOOSE f : Rec(f)
<1>1. Len(<<>>) = 0
  OBVIOUS
<1>2. ReplayAll(s, <<>>, now) = run[0]
  BY <1>1 DEF ReplayAll
<1>3. Rec([i \in 0..0 |-> s])
  OBVIOUS
<1>4. Rec(run)
  BY <1>3
<1> HIDE DEF run
<1> QED BY <1>2, <1>4

(* An entry with one more operation replays it last. *)
LEMMA ReplayAllAppend ==
  ASSUME NEW s, NEW now, NEW X, NEW ops \in Seq(X), NEW op \in X
  PROVE  ReplayAll(s, Append(ops, op), now)
           = ReplayStep(ReplayAll(s, ops, now), op, now)
<1>1. PICK q : q = Append(ops, op)
  OBVIOUS
<1>2. PICK n : n = Len(ops)
  OBVIOUS
<1>3. /\ n \in Nat /\ Len(q) = n + 1 /\ q[n + 1] = op
      /\ \A i \in 1..n : q[i] = ops[i]
  BY <1>1, <1>2, LenProperties, AppendProperties
<1> DEFINE Rec(f, m) == f = [i \in 0..m |-> IF i = 0 THEN s
                                           ELSE ReplayStep(f[i - 1], q[i], now)]
           Short(f) == f = [i \in 0..n |-> IF i = 0 THEN s
                                           ELSE ReplayStep(f[i - 1], ops[i], now)]
           T == {m \in Nat : \E f : Rec(f, m)}
<1>4. 0 \in T
  <2>1. Rec([i \in 0..0 |-> s], 0)
    OBVIOUS
  <2> QED BY <2>1
<1>5. ASSUME NEW m \in Nat, m \in T PROVE m + 1 \in T
  <2>1. PICK f : Rec(f, m)
    BY <1>5
  <2>2. PICK g : g = [i \in 0..m + 1 |-> IF i = m + 1
                                         THEN ReplayStep(f[m], q[m + 1], now)
                                         ELSE f[i]]
    OBVIOUS
  <2>3. ASSUME NEW i \in 0..m + 1
        PROVE  g[i] = IF i = 0 THEN s ELSE ReplayStep(g[i - 1], q[i], now)
    <3>1. CASE i = m + 1
      BY <2>2, <3>1
    <3>2. CASE i # m + 1
      <4>1. i \in 0..m /\ g[i] = f[i]
        BY <2>2, <3>2
      <4>2. i # 0 => g[i - 1] = f[i - 1]
        BY <2>2, <3>2
      <4> QED BY <2>1, <4>1, <4>2
    <3> QED BY <3>1, <3>2
  <2>4. Rec(g, m + 1)
    BY <2>2, <2>3
  <2> QED BY <2>4
<1>6. Nat \subseteq T
  <2> HIDE DEF T
  <2> QED BY <1>4, <1>5, SetInduction
<1>7. ASSUME NEW f PROVE Rec(f, n) <=> Short(f)
  <2>1. [i \in 0..n |-> IF i = 0 THEN s ELSE ReplayStep(f[i - 1], q[i], now)]
          = [i \in 0..n |-> IF i = 0 THEN s ELSE ReplayStep(f[i - 1], ops[i], now)]
    BY <1>3
  <2> QED BY <2>1
<1>8. (\E f : Short(f)) /\ (\E f : Rec(f, n + 1))
  <2>1. n \in T /\ n + 1 \in T
    <3> HIDE DEF T
    <3>1. n \in Nat /\ n + 1 \in Nat
      BY <1>3
    <3> QED BY <1>6, <3>1
  <2>2. (\E f : Rec(f, n)) /\ (\E f : Rec(f, n + 1))
    BY <2>1
  <2> HIDE DEF Rec, Short
  <2> QED BY <1>7, <2>2
<1>9. PICK f : f = CHOOSE h : Short(h)
  OBVIOUS
<1>10. PICK g : g = CHOOSE h : Rec(h, n + 1)
  OBVIOUS
<1>11. Short(f) /\ Rec(g, n + 1)
  BY <1>8, <1>9, <1>10
<1>12. ReplayAll(s, ops, now) = f[n]
  BY <1>2, <1>9 DEF ReplayAll
<1>13. ReplayAll(s, q, now) = g[n + 1]
  BY <1>3, <1>10 DEF ReplayAll
<1>14. \A i \in 1..n : f[i] = ReplayStep(f[i - 1], q[i], now)
                       /\ g[i] = ReplayStep(g[i - 1], q[i], now)
  BY <1>3, <1>11
<1>15. f[0] = s /\ g[0] = s
  BY <1>3, <1>11
<1>16. \A i \in 0..n : f[i] = g[i]
  <2>1. n \in Nat /\ \A i \in 1..n : f[i - 1] = g[i - 1] => f[i] = g[i]
    BY <1>3, <1>14
  <2>2. f[0] = g[0]
    BY <1>15
  <2> QED BY <2>1, <2>2, SameRuns
<1>17. g[n + 1] = ReplayStep(g[n], op, now) /\ f[n] = g[n]
  <2>1. n + 1 \in 0..n + 1 /\ n + 1 # 0 /\ (n + 1) - 1 = n
    BY <1>3
  <2>2. \A i \in 0..n + 1 : i # 0 => g[i] = ReplayStep(g[i - 1], q[i], now)
    BY <1>11
  <2> QED BY <1>3, <1>16, <2>1, <2>2
<1> QED BY <1>1, <1>12, <1>13, <1>17

(* A single operation is an entry of one. *)
LEMMA ReplayAllOne ==
  ASSUME NEW s, NEW now, NEW op
  PROVE  ReplayAll(s, <<op>>, now) = ReplayStep(s, op, now)
<1>1. <<>> \in Seq({op}) /\ Append(<<>>, op) = <<op>>
  OBVIOUS
<1>2. ReplayAll(s, Append(<<>>, op), now)
        = ReplayStep(ReplayAll(s, <<>>, now), op, now)
  BY <1>1, ReplayAllAppend
<1> QED BY <1>1, <1>2, ReplayAllEmpty

(* Every key lies below KeysEnd: a largest bounded subset of the keys can  *)
(* only be all of them.                                                    *)
LEMMA KeysBounded == KeysEnd \in Nat /\ \A k \in Keys : k < KeysEnd
<1> DEFINE Bounded(S) == \E n \in Nat : \A k \in S : k < n
           U == {S \in SUBSET Keys : Bounded(Keys \ S)}
<1>1. IsFiniteSet(Keys) /\ Keys \subseteq Nat
  BY KeysAssumption
<1>2. U \subseteq FiniteSubsetsOf(Keys) /\ U # {}
  <2>1. \A S \in SUBSET Keys : IsFiniteSet(S)
    BY <1>1, FS_Subset
  <2>2. Keys \in U
    <3>1. Keys \ Keys = {}
      OBVIOUS
    <3>2. Bounded({})
      OBVIOUS
    <3> QED BY <3>1, <3>2
  <2> QED BY <2>1, <2>2 DEF FiniteSubsetsOf
<1>3. IsWellFoundedOn(StrictSubsetOrdering(Keys), FiniteSubsetsOf(Keys))
  BY FS_StrictSubsetOrderingWellFounded
<1>4. PICK S \in U : \A R \in U : <<R, S>> \notin StrictSubsetOrdering(Keys)
  <2> HIDE DEF U
  <2> QED BY <1>2, <1>3, WFMin
<1>5. S = {}
  <2>1. SUFFICES ASSUME NEW k \in S PROVE FALSE
    OBVIOUS
  <2>2. PICK n \in Nat : \A j \in Keys \ S : j < n
    BY <1>4
  <2>3. k \in Nat
    BY <1>1, <1>4, <2>1
  <2>4. PICK m \in Nat : m >= n /\ m > k
    <3>1. CASE n > k
      BY <3>1
    <3>2. CASE ~(n > k)
      <4>1. k + 1 \in Nat /\ k + 1 >= n /\ k + 1 > k
        BY <2>3, <3>2
      <4> QED BY <4>1
    <3> QED BY <3>1, <3>2
  <2>5. \A j \in Keys \ (S \ {k}) : j < m
    <3> SUFFICES ASSUME NEW j \in Keys \ (S \ {k}) PROVE j < m
      OBVIOUS
    <3>1. j = k \/ j \in Keys \ S
      OBVIOUS
    <3> QED BY <1>1, <2>2, <2>4, <3>1
  <2>6. S \ {k} \in U
    BY <1>4, <2>5
  <2>7. <<S \ {k}, S>> \in StrictSubsetOrdering(Keys)
    BY <1>4, <2>1 DEF StrictSubsetOrdering
  <2> QED BY <1>4, <2>6, <2>7
<1> DEFINE B == {n \in Nat : \A k \in Keys : k < n}
<1>6. B # {}
  BY <1>4, <1>5
<1>7. PICK m \in B : \A n \in B : m <= n
  <2>1. B \subseteq Nat
    OBVIOUS
  <2> HIDE DEF B
  <2> QED BY <1>6, <2>1, LeastNatural
<1>8. m \in {0} \cup {k + 1 : k \in Keys}
  <2>1. SUFFICES ASSUME m # 0, \A k \in Keys : m # k + 1 PROVE FALSE
    OBVIOUS
  <2>2. m - 1 \in B
    <3>1. m - 1 \in Nat
      BY <2>1
    <3>2. ASSUME NEW k \in Keys PROVE k < m - 1
      <4>1. k < m /\ m # k + 1 /\ k \in Nat /\ m \in Nat
        BY <1>1, <2>1
      <4> QED BY <4>1
    <3> QED BY <3>1, <3>2
  <2> QED BY <1>7, <2>2
<1>9. \E n \in {0} \cup {k + 1 : k \in Keys} : \A k \in Keys : k < n
  BY <1>7, <1>8
<1>10. KeysEnd \in {0} \cup {k + 1 : k \in Keys} /\ \A k \in Keys : k < KeysEnd
  BY <1>9 DEF KeysEnd
<1> QED BY <1>1, <1>10

-----------------------------------------------------------------------------
(* One step of the retirement loop, at the source and in a replay.         *)

(* A replayed renewal or release makes its key a candidate, which the      *)
(* command itself does not. The key is live, so retirement passes over it: *)
(* until then the replay is ahead by candidates C.                         *)
Near(t, s, n) ==
  \/ t = None
  \/ \E C \in SUBSET Keys :
       /\ t = [s EXCEPT !.candidates = s.candidates \cup C]
       /\ \A k \in C : ~Dead(s, k) /\ n <= k

(* A replica with room for the source's keys does not refuse. *)
NotRefused(t) == ReplicaLimit >= MaxTrackedKeys => t # None

(* Two backend states with equal fields are equal. *)
LEMMA SameState ==
  ASSUME NEW s \in StoreState, NEW t \in StoreState,
         s.records = t.records, s.leases = t.leases, s.fences = t.fences,
         s.retired = t.retired, s.candidates = t.candidates,
         s.retention = t.retention, s.committedTime = t.committedTime,
         s.nextFence = t.nextFence, s.nextCred = t.nextCred
  PROVE  s = t
BY DEF StoreState

(* Other candidates leave the rest of the state alone. *)
LEMMA CandidatesFields ==
  ASSUME NEW s \in StoreState, NEW D \in SUBSET Keys
  PROVE  LET t == [s EXCEPT !.candidates = D]
         IN /\ t \in StoreState
            /\ t.records = s.records /\ t.leases = s.leases
            /\ t.fences = s.fences /\ t.retired = s.retired
            /\ t.candidates = D /\ t.retention = s.retention
            /\ t.committedTime = s.committedTime
            /\ t.nextFence = s.nextFence /\ t.nextCred = s.nextCred
BY DEF StoreState

(* Retirement and rotation read no candidates. *)
LEMMA CandidatesRotate ==
  ASSUME NEW s \in StoreState, NEW D \in SUBSET Keys
  PROVE  LET t == [s EXCEPT !.candidates = D]
         IN /\ RotationAccepted(t) <=> RotationAccepted(s)
            /\ Rotate(t) = [Rotate(s) EXCEPT !.candidates = D]
<1>1. PICK t : t = [s EXCEPT !.candidates = D]
  OBVIOUS
<1>2. /\ t \in StoreState
      /\ t.records = s.records /\ t.leases = s.leases
      /\ t.fences = s.fences /\ t.retired = s.retired
      /\ t.candidates = D /\ t.retention = s.retention
      /\ t.committedTime = s.committedTime
      /\ t.nextFence = s.nextFence /\ t.nextCred = s.nextCred
  BY <1>1, CandidatesFields
<1>3. RetiredKeys(t) = RetiredKeys(s)
  BY <1>2 DEF RetiredKeys
<1>4. DroppedKeys(t) = DroppedKeys(s) /\ ClosedFloor(t) = ClosedFloor(s)
  BY <1>2, <1>3 DEF DroppedKeys, ClosedFloor
<1>5. RotationAccepted(t) <=> RotationAccepted(s)
  BY <1>2, <1>4 DEF RotationAccepted
<1>6. Rotate(t) = [Rotate(s) EXCEPT !.candidates = D]
  <2> DEFINE r == [epoch |-> s.retention.epoch + 1,
                   floorPrev |-> s.retention.floorCur,
                   floorCur |-> ClosedFloor(s),
                   retiredMax |-> 0, retiredCount |-> 0]
             retired == [k \in Keys |-> IF k \in DroppedKeys(s) THEN NotRetired
                                       ELSE s.retired[k]]
             fences == [k \in Keys |-> IF k \in DroppedKeys(s) THEN 0
                                      ELSE s.fences[k]]
             next == MaxOf(s.nextFence, ClosedFloor(s) + 1)
  <2>1. Rotate(s) = [s EXCEPT !.retention = r, !.nextFence = next,
                              !.retired = retired, !.fences = fences]
    BY DEF Rotate
  <2>2. Rotate(t) = [t EXCEPT !.retention = r, !.nextFence = next,
                              !.retired = retired, !.fences = fences]
    BY <1>2, <1>4 DEF Rotate
  <2> HIDE DEF r, retired, fences, next
  <2> QED BY <1>1, <2>1, <2>2 DEF StoreState
<1> QED BY <1>1, <1>5, <1>6

(* Retiring a key reads its row, not the other candidates. *)
LEMMA CandidatesRetire ==
  ASSUME NEW s \in StoreState, NEW D \in SUBSET Keys, NEW k \in Keys
  PROVE  LET t == [s EXCEPT !.candidates = D]
         IN /\ ReachesThreshold(t, k) <=> ReachesThreshold(s, k)
            /\ Retire(t, k) = [Retire(s, k) EXCEPT !.candidates = D \ {k}]
<1>1. PICK t : t = [s EXCEPT !.candidates = D]
  OBVIOUS
<1>2. /\ t \in StoreState
      /\ t.records = s.records /\ t.leases = s.leases
      /\ t.fences = s.fences /\ t.retired = s.retired
      /\ t.candidates = D /\ t.retention = s.retention
      /\ t.committedTime = s.committedTime
      /\ t.nextFence = s.nextFence /\ t.nextCred = s.nextCred
  BY <1>1, CandidatesFields
<1>3. (Dead(t, k) <=> Dead(s, k)) /\ (Retirable(t, k) <=> Retirable(s, k))
  BY <1>2 DEF Dead, Retirable
<1>4. ReachesThreshold(t, k) <=> ReachesThreshold(s, k)
  BY <1>2, <1>3 DEF ReachesThreshold
<1>5. Retire(t, k) = [Retire(s, k) EXCEPT !.candidates = D \ {k}]
  <2>1. PICK mark : mark = IF Retirable(s, k) THEN s.retention.epoch
                           ELSE IF Dead(s, k) THEN s.retired[k] ELSE NotRetired
    OBVIOUS
  <2>2. PICK r : r = IF Retirable(s, k)
                     THEN [s.retention EXCEPT
                             !.retiredCount = s.retention.retiredCount + 1,
                             !.retiredMax = MaxOf(s.retention.retiredMax, s.fences[k])]
                     ELSE s.retention
    OBVIOUS
  <2>3. Retire(s, k) = [s EXCEPT !.candidates = s.candidates \ {k},
                                 !.retired[k] = mark, !.retention = r]
    BY <2>1, <2>2 DEF Retire
  <2>4. Retire(t, k) = [t EXCEPT !.candidates = t.candidates \ {k},
                                 !.retired[k] = mark, !.retention = r]
    BY <1>2, <1>3, <2>1, <2>2 DEF Retire
  <2> QED BY <1>1, <1>2, <2>3, <2>4 DEF StoreState
<1> QED BY <1>1, <1>4, <1>5

(* A live key is passed over: only its candidacy goes. *)
LEMMA RetireLiveKey ==
  ASSUME NEW s \in StoreState, RowsFenced(s), NEW k \in Keys, ~Dead(s, k)
  PROVE  /\ ~ReachesThreshold(s, k)
         /\ Retire(s, k) = [s EXCEPT !.candidates = s.candidates \ {k}]
<1>1. s.retired[k] = NotRetired
  BY DEF RowsFenced
<1>2. ~Retirable(s, k)
  BY DEF Retirable
<1>3. PICK t : t = Retire(s, k)
  OBVIOUS
<1>4. PICK u : u = [s EXCEPT !.candidates = s.candidates \ {k}]
  OBVIOUS
<1>5. /\ t \in StoreState
      /\ t.records = s.records /\ t.leases = s.leases
      /\ t.fences = s.fences /\ t.nextFence = s.nextFence
      /\ t.nextCred = s.nextCred /\ t.committedTime = s.committedTime
      /\ t.candidates = s.candidates \ {k}
      /\ t.retention = s.retention
      /\ t.retired[k] = NotRetired
      /\ \A j \in Keys \ {k} : t.retired[j] = s.retired[j]
  BY <1>1, <1>2, <1>3, RetireFields
<1>6. t.retired = s.retired
  <2>1. t.retired \in [Keys -> Int] /\ s.retired \in [Keys -> Int]
    BY <1>5 DEF StoreState
  <2>2. \A j \in Keys : t.retired[j] = s.retired[j]
    BY <1>1, <1>5
  <2> QED BY <2>1, <2>2
<1>7. s.candidates \ {k} \in SUBSET Keys
  BY DEF StoreState
<1>8. /\ u \in StoreState
      /\ u.records = s.records /\ u.leases = s.leases
      /\ u.fences = s.fences /\ u.retired = s.retired
      /\ u.candidates = s.candidates \ {k} /\ u.retention = s.retention
      /\ u.committedTime = s.committedTime
      /\ u.nextFence = s.nextFence /\ u.nextCred = s.nextCred
  BY <1>4, <1>7, CandidatesFields
<1>9. t = u
  BY <1>5, <1>6, <1>8, SameState
<1> QED BY <1>2, <1>3, <1>4, <1>9 DEF ReachesThreshold

(* At a key that is no candidate of the source the replay at most drops a  *)
(* candidate of its own.                                                   *)
LEMMA VisitOther ==
  ASSUME NEW s \in StoreState, RowsFenced(s), NEW n \in Nat, NEW t,
         Near(t, s, n), n \notin s.candidates
  PROVE  /\ Near(VisitKey(t, n), s, n + 1)
         /\ t # None => VisitKey(t, n) # None
<1>1. CASE t = None
  BY <1>1 DEF VisitKey, Near
<1>2. CASE t # None
  <2>1. PICK C \in SUBSET Keys :
          /\ t = [s EXCEPT !.candidates = s.candidates \cup C]
          /\ \A k \in C : ~Dead(s, k) /\ n <= k
    BY <1>2 DEF Near
  <2>2. s.candidates \cup C \in SUBSET Keys
    BY DEF StoreState
  <2>3. /\ t \in StoreState
        /\ t.records = s.records /\ t.leases = s.leases
        /\ t.fences = s.fences /\ t.retired = s.retired
        /\ t.candidates = s.candidates \cup C
        /\ t.nextFence = s.nextFence
    BY <2>1, <2>2, CandidatesFields
  <2>4. \A k \in C \ {n} : ~Dead(s, k) /\ n + 1 <= k
    <3> SUFFICES ASSUME NEW k \in C, k # n PROVE ~Dead(s, k) /\ n + 1 <= k
      OBVIOUS
    <3>1. k \in Nat /\ n <= k /\ ~Dead(s, k)
      BY <2>1, KeysAssumption
    <3> QED BY <3>1
  <2>5. CASE n \in C
    <3>1. n \in Keys /\ ~Dead(s, n)
      BY <2>1, <2>5
    <3>2. ~Dead(t, n) /\ RowsFenced(t)
      BY <2>3, <3>1 DEF Dead, RowsFenced
    <3>3. /\ ~ReachesThreshold(t, n)
          /\ Retire(t, n) = [t EXCEPT !.candidates = t.candidates \ {n}]
      BY <2>3, <3>1, <3>2, RetireLiveKey
    <3>4. VisitKey(t, n) = [t EXCEPT !.candidates = t.candidates \ {n}]
      BY <1>2, <2>3, <2>5, <3>3 DEF VisitKey
    <3>5. t.candidates \ {n} = s.candidates \cup (C \ {n})
      BY <2>3
    <3>6. VisitKey(t, n) = [s EXCEPT !.candidates = s.candidates \cup (C \ {n})]
      BY <2>1, <3>4, <3>5 DEF StoreState
    <3>7. VisitKey(t, n) \in StoreState
      <4>1. s.candidates \cup (C \ {n}) \in SUBSET Keys
        BY <2>2
      <4> QED BY <3>6, <4>1, CandidatesFields
    <3>8. C \ {n} \in SUBSET Keys
      OBVIOUS
    <3> QED BY <2>4, <3>6, <3>7, <3>8, NoneIsNoState DEF Near
  <2>6. CASE n \notin C
    <3>1. VisitKey(t, n) = t
      BY <2>3, <2>6 DEF VisitKey
    <3>2. C \ {n} = C
      BY <2>6
    <3> QED BY <1>2, <2>1, <2>4, <3>1, <3>2 DEF Near
  <2> QED BY <2>5, <2>6
<1> QED BY <1>1, <1>2

(* At a candidate of the source both take the same step. *)
LEMMA VisitSame ==
  ASSUME NEW s \in StoreState, StoreInv(s), NEW n \in s.candidates, NEW t,
         Near(t, s, n)
  PROVE  /\ Near(VisitKey(t, n),
                 IF ReachesThreshold(s, n) THEN Rotate(Retire(s, n))
                 ELSE Retire(s, n), n + 1)
         /\ t # None => VisitKey(t, n) # None
<1>1. n \in Keys /\ n \in Nat
  BY KeysAssumption DEF StoreState
<1>2. PICK r : r = Retire(s, n)
  OBVIOUS
<1>3. /\ r \in StoreState /\ r.records = s.records /\ r.leases = s.leases
      /\ r.candidates = s.candidates \ {n}
  BY <1>1, <1>2, RetireFields
<1>4. RetiredFencesValid(r) /\ RowsFenced(r)
  BY <1>1, <1>2, RetireKeeps
<1>5. RotationAccepted(r)
  BY <1>3, <1>4, RotateKeeps
<1>6. /\ Rotate(r) \in StoreState
      /\ Rotate(r).records = s.records /\ Rotate(r).leases = s.leases
      /\ Rotate(r).candidates = s.candidates \ {n}
  BY <1>3, RotateFields
<1>7. PICK u : u = IF ReachesThreshold(s, n) THEN Rotate(r) ELSE r
  OBVIOUS
<1>8. /\ u \in StoreState /\ u.records = s.records /\ u.leases = s.leases
      /\ u.candidates = s.candidates \ {n}
  BY <1>3, <1>6, <1>7
<1>9. CASE t = None
  BY <1>9 DEF VisitKey, Near
<1>10. CASE t # None
  <2>1. PICK C \in SUBSET Keys :
          /\ t = [s EXCEPT !.candidates = s.candidates \cup C]
          /\ \A k \in C : ~Dead(s, k) /\ n <= k
    BY <1>10 DEF Near
  <2>2. PICK D : D = s.candidates \cup C
    OBVIOUS
  <2>3. D \in SUBSET Keys /\ D \ {n} \in SUBSET Keys /\ n \in D
        /\ t = [s EXCEPT !.candidates = D]
    BY <2>1, <2>2 DEF StoreState
  <2>4. t.candidates = D
    BY <2>3, CandidatesFields
  <2>5. /\ ReachesThreshold(t, n) <=> ReachesThreshold(s, n)
        /\ Retire(t, n) = [r EXCEPT !.candidates = D \ {n}]
    BY <1>1, <1>2, <2>3, CandidatesRetire
  <2>6. /\ RotationAccepted(Retire(t, n))
        /\ Rotate(Retire(t, n)) = [Rotate(r) EXCEPT !.candidates = D \ {n}]
    BY <1>3, <1>5, <2>3, <2>5, CandidatesRotate
  <2>7. VisitKey(t, n) = [u EXCEPT !.candidates = D \ {n}]
    BY <1>7, <1>10, <2>3, <2>4, <2>5, <2>6 DEF VisitKey
  <2>8. D \ {n} = u.candidates \cup (C \ {n})
    BY <1>8, <2>2
  <2>9. \A k \in C \ {n} : ~Dead(u, k) /\ n + 1 <= k
    <3> SUFFICES ASSUME NEW k \in C, k # n PROVE ~Dead(u, k) /\ n + 1 <= k
      OBVIOUS
    <3>1. k \in Nat /\ n <= k /\ ~Dead(s, k)
      BY <2>1, KeysAssumption
    <3> QED BY <1>1, <1>8, <3>1 DEF Dead
  <2>10. VisitKey(t, n) \in StoreState
    BY <1>8, <2>3, <2>7, CandidatesFields
  <2>11. C \ {n} \in SUBSET Keys
    OBVIOUS
  <2>12. Near(VisitKey(t, n), u, n + 1)
    BY <2>7, <2>8, <2>9, <2>11 DEF Near
  <2> QED BY <1>2, <1>7, <2>10, <2>12, NoneIsNoState
<1> QED BY <1>9, <1>10

(* Up to the source's next candidate the replay stays with it. *)
LEMMA VisitUpTo ==
  ASSUME NEW s \in StoreState, RowsFenced(s), NEW a, NEW n \in Nat,
         NEW m \in Nat, n <= m, \A c \in s.candidates : m <= c,
         Near(RetireBelow(a, n), s, n)
  PROVE  /\ Near(RetireBelow(a, m), s, m)
         /\ RetireBelow(a, n) # None => RetireBelow(a, m) # None
<1> DEFINE Stays(j) == /\ Near(RetireBelow(a, j), s, j)
                       /\ RetireBelow(a, n) # None => RetireBelow(a, j) # None
           T == {i \in Nat : n + i <= m => Stays(n + i)}
<1>1. 0 \in T
  BY n + 0 = n
<1>2. ASSUME NEW i \in Nat, i \in T PROVE i + 1 \in T
  <2>1. CASE n + (i + 1) <= m
    <3>1. PICK j : j = n + i
      OBVIOUS
    <3>2. j \in Nat /\ j < m /\ n + (i + 1) = j + 1
      BY <2>1, <3>1
    <3>3. Stays(j)
      BY <1>2, <3>1, <3>2
    <3>4. j \notin s.candidates
      BY <3>2
    <3>5. RetireBelow(a, j + 1) = VisitKey(RetireBelow(a, j), j)
      BY <3>2, RetireBelowSteps
    <3>6. Stays(j + 1)
      BY <3>2, <3>3, <3>4, <3>5, VisitOther
    <3> QED BY <3>2, <3>6
  <2>2. CASE ~(n + (i + 1) <= m)
    BY <2>2
  <2> QED BY <2>1, <2>2
<1>3. Nat \subseteq T
  <2> HIDE DEF T
  <2> QED BY <1>1, <1>2, SetInduction
<1>4. m - n \in T /\ n + (m - n) = m
  <2>1. m - n \in Nat
    OBVIOUS
  <2> HIDE DEF T
  <2> QED BY <1>3, <2>1
<1> QED BY <1>4

-----------------------------------------------------------------------------
(* Each command's operation, replayed on the state the command met, is     *)
(* accepted and has the command's effect.                                  *)

(* Credentials in use are below the counter. *)
CredsIssued(s) ==
  \A k \in Keys : s.leases[k] # None => s.leases[k].cred < s.nextCred

(* What the replay of op must yield from s when the command yields t. *)
Replays(s, op, now, t) ==
  /\ ReplicaLimit >= MaxTrackedKeys => ReplayAccepted(s, op, now)
  /\ ReplayAccepted(s, op, now) => ReplayOp(s, op) = t

(* A replay step yields the command's state or refuses; with room it does *)
(* not refuse.                                                             *)
LEMMA ReplaysStep ==
  ASSUME NEW s \in StoreState, NEW op, NEW now, NEW t \in StoreState,
         Replays(s, op, now, t)
  PROVE  /\ ReplayStep(s, op, now) \in {None, t}
         /\ NotRefused(ReplayStep(s, op, now))
<1>1. s # None /\ t # None
  BY NoneIsNoState
<1> QED BY <1>1 DEF Replays, ReplayStep, NotRefused

(* Room at the source is room at a replica that tracks as many keys. *)
LEMMA RoomAtReplica ==
  ASSUME NEW s \in StoreState, NEW k, HasCapacity(s, k, MaxTrackedKeys),
         ReplicaLimit >= MaxTrackedKeys
  PROVE  HasCapacity(s, k, ReplicaLimit)
<1>1. Tracked(s) \subseteq Keys /\ RetiredKeys(s) \subseteq Keys
      /\ PendingDead(s) \subseteq Keys
  BY DEF Tracked, RetiredKeys, PendingDead, StoreState
<1>2. /\ Cardinality(Tracked(s)) \in Nat /\ Cardinality(RetiredKeys(s)) \in Nat
      /\ Cardinality(PendingDead(s)) \in Nat
  BY <1>1, SubsetOfKeys
<1>3. ReplicaLimit \in Nat /\ MaxTrackedKeys \in Nat
  BY ReplicaLimitAssumption, LimitsAssumption
<1> QED BY <1>2, <1>3 DEF HasCapacity

(* A replayed acquisition takes the fence and credential the source chose, *)
(* which exceed everything the key or its floor remembers.                 *)
LEMMA AcquireReplayed ==
  ASSUME NEW s \in StoreState, StoreInv(s), NEW k \in Keys,
         NEW owner \in Owners, NEW exp \in Int, NEW now,
         AcquireAccepted(s, k, owner, now)
  PROVE  Replays(s, [kind |-> "acquire", key |-> k, owner |-> owner,
                     fence |-> AcquiredFence(s, k), cred |-> s.nextCred,
                     exp |-> exp], now, AcquireLease(s, k, owner, exp))
<1>1. PICK f : f = AcquiredFence(s, k)
  OBVIOUS
<1>2. PICK op : op = [kind |-> "acquire", key |-> k, owner |-> owner,
                      fence |-> f, cred |-> s.nextCred, exp |-> exp]
  OBVIOUS
<1>3. /\ s.nextFence \in Nat /\ s.nextCred \in Nat
      /\ s.retention.floorCur \in Nat /\ s.retention.floorPrev \in Nat
      /\ s.fences[k] \in Nat
  BY DEF StoreState, Retention
<1>4. CurrentFence(s, k) \in Nat
  BY <1>3 DEF CurrentFence
<1>5. f \in Nat /\ f >= s.nextFence /\ f > CurrentFence(s, k)
  BY <1>1, <1>3, <1>4 DEF AcquiredFence, MaxOf
<1>6. ASSUME ReplicaLimit >= MaxTrackedKeys PROVE ReplayAccepted(s, op, now)
  <2>1. s.retention.floorPrev <= s.retention.floorCur
    BY DEF StoreInv, RetentionValid
  <2>2. f > ReplayedPrevious(s, k)
    BY <1>3, <1>5, <2>1 DEF ReplayedPrevious, CurrentFence
  <2>3. HasCapacity(s, k, ReplicaLimit)
    BY <1>6, RoomAtReplica DEF AcquireAccepted
  <2>4. ~HeldByAnother(s, k, owner, now)
    BY DEF AcquireAccepted
  <2> QED BY <1>2, <2>2, <2>3, <2>4 DEF ReplayAccepted, AcquireReplays
<1>7. ReplayOp(s, op) = AcquireLease(s, k, owner, exp)
  <2>1. PICK l : l = [status |-> "active", cred |-> s.nextCred, owner |-> owner,
                      fence |-> f, exp |-> exp]
    OBVIOUS
  <2>2. l \in Lease /\ l # None
    BY <1>3, <1>5, <2>1, NoneAssumption DEF Lease
  <2>3. PICK u : u = [s EXCEPT !.leases[k] = l]
    OBVIOUS
  <2>4. PICK v : v = [s EXCEPT !.nextFence = f + 1, !.nextCred = s.nextCred + 1,
                               !.leases[k] = l]
    OBVIOUS
  <2>5. /\ u \in StoreState /\ u.leases[k] = l /\ u.retired = s.retired
        /\ u.candidates = s.candidates
    BY <2>2, <2>3 DEF StoreState
  <2>6. ~Dead(u, k) /\ ~Dead(v, k)
    <3>1. v.leases[k] = l
      BY <2>4 DEF StoreState
    <3> QED BY <2>2, <2>5, <3>1 DEF Dead
  <2>7. SetFence(u, k, f) = [u EXCEPT !.fences[k] = f, !.retired[k] = NotRetired,
                                      !.candidates = s.candidates \cup {k}]
    BY <2>5, <2>6 DEF SetFence
  <2>8. PICK w : w = SetFence(u, k, f)
    OBVIOUS
  <2>9. w.nextFence = s.nextFence /\ w.nextCred = s.nextCred
    BY <2>3, <2>7, <2>8 DEF StoreState
  <2>10. MaxOf(s.nextFence, f + 1) = f + 1 /\ MaxOf(s.nextCred, s.nextCred + 1) = s.nextCred + 1
    BY <1>3, <1>5 DEF MaxOf
  <2>11. LeaseOf(op) = l
    BY <1>2, <2>1 DEF LeaseOf
  <2>12. PICK x : x = RaiseNext(w, op)
    OBVIOUS
  <2>13. x = [w EXCEPT !.nextFence = f + 1]
    BY <1>2, <2>9, <2>10, <2>12 DEF RaiseNext
  <2>14. x.nextCred = s.nextCred
    BY <2>7, <2>8, <2>9, <2>13, <2>3 DEF StoreState
  <2>15. RaiseCred(x, op) = [x EXCEPT !.nextCred = s.nextCred + 1]
    BY <1>2, <2>10, <2>14 DEF RaiseCred
  <2>16. PutLease(s, op) = [x EXCEPT !.nextCred = s.nextCred + 1]
    BY <1>2, <2>3, <2>8, <2>11, <2>12, <2>15 DEF PutLease
  <2>17. ReplayOp(s, op) = [x EXCEPT !.nextCred = s.nextCred + 1]
    BY <1>2, <2>16 DEF ReplayOp
  <2>18. AcquireLease(s, k, owner, exp) = SetFence(v, k, f)
    BY <1>1, <2>1, <2>4 DEF AcquireLease
  <2>19. v.retired = s.retired /\ v.candidates = s.candidates
    BY <2>4 DEF StoreState
  <2>20. SetFence(v, k, f) = [v EXCEPT !.fences[k] = f, !.retired[k] = NotRetired,
                                       !.candidates = s.candidates \cup {k}]
    BY <2>6, <2>19 DEF SetFence
  <2>21. PICK L, F, R, C : /\ L = [s.leases EXCEPT ![k] = l]
                           /\ F = [s.fences EXCEPT ![k] = f]
                           /\ R = [s.retired EXCEPT ![k] = NotRetired]
                           /\ C = s.candidates \cup {k}
    OBVIOUS
  <2>22. w = [s EXCEPT !.leases = L, !.fences = F, !.retired = R, !.candidates = C]
    BY <2>3, <2>7, <2>8, <2>21 DEF StoreState
  <2>23. ReplayOp(s, op) = [s EXCEPT !.leases = L, !.fences = F, !.retired = R,
                                     !.candidates = C, !.nextFence = f + 1,
                                     !.nextCred = s.nextCred + 1]
    BY <2>13, <2>17, <2>22 DEF StoreState
  <2>24. SetFence(v, k, f) = [s EXCEPT !.leases = L, !.fences = F, !.retired = R,
                                       !.candidates = C, !.nextFence = f + 1,
                                       !.nextCred = s.nextCred + 1]
    BY <2>4, <2>20, <2>21 DEF StoreState
  <2> QED BY <2>18, <2>23, <2>24
<1> QED BY <1>1, <1>2, <1>6, <1>7 DEF Replays

(* A guard in the table passes the replay's ownership check. *)
LEMMA MatchedOwns ==
  ASSUME NEW s \in StoreState, StoreInv(s), NEW g \in Guard,
         Matches(s.leases[g.key], g), NEW op,
         op.key = g.key, op.owner = g.owner, op.fence = g.fence
  PROVE  /\ OwnedBy(s, op) /\ \A max : HasCapacity(s, g.key, max)
         /\ \A t \in StoreState :
              t.nextFence = s.nextFence => RaiseNext(t, op) = t
<1>1. /\ g.key \in Keys /\ g.fence \in Nat
      /\ s.leases[g.key] # None
      /\ s.fences[g.key] = g.fence /\ g.fence # 0
      /\ g.fence < s.nextFence
  BY MatchedRow
<1>2. OwnedBy(s, op)
  BY <1>1 DEF OwnedBy, Matches
<1>3. g.key \in Tracked(s)
  BY <1>1 DEF Tracked
<1>4. MaxOf(s.nextFence, g.fence + 1) = s.nextFence
  <2>1. s.nextFence \in Nat
    BY DEF StoreState
  <2> QED BY <1>1, <2>1 DEF MaxOf
<1>5. ASSUME NEW t \in StoreState, t.nextFence = s.nextFence
      PROVE  RaiseNext(t, op) = t
  <2>1. RaiseNext(t, op) = [t EXCEPT !.nextFence = t.nextFence]
    BY <1>4, <1>5 DEF RaiseNext
  <2> QED BY <2>1 DEF StoreState
<1> QED BY <1>2, <1>3, <1>5 DEF HasCapacity

(* set_fence on a live key that has the fence already. *)
LEMMA SetFenceAgain ==
  ASSUME NEW s \in StoreState, NEW k \in Keys, NEW f, s.fences[k] = f,
         s.retired[k] = NotRetired
  PROVE  SetFence(s, k, f) = [s EXCEPT !.candidates = s.candidates \cup {k}]
<1>1. SetFence(s, k, f) = [s EXCEPT !.fences[k] = f, !.retired[k] = NotRetired,
                                    !.candidates = s.candidates \cup {k}]
  BY DEF SetFence
<1>2. [s.fences EXCEPT ![k] = f] = s.fences
  BY DEF StoreState
<1>3. [s.retired EXCEPT ![k] = NotRetired] = s.retired
  BY DEF StoreState
<1> QED BY <1>1, <1>2, <1>3 DEF StoreState

(* A renewal replays as itself, with its key as a further candidate. *)
LEMMA RenewReplayed ==
  ASSUME NEW s \in StoreState, StoreInv(s), CredsIssued(s), NEW g \in Guard,
         NEW now, RenewAccepted(s, g, now), NEW exp \in Int
  PROVE  LET t == RenewLease(s, g, exp)
         IN /\ Replays(s, [kind |-> "renew", key |-> g.key, owner |-> g.owner,
                           fence |-> g.fence, cred |-> g.cred, exp |-> exp], now,
                       [t EXCEPT !.candidates = t.candidates \cup {g.key}])
            /\ t \in StoreState /\ ~Dead(t, g.key) /\ CredsIssued(t)
<1>1. PICK op : op = [kind |-> "renew", key |-> g.key, owner |-> g.owner,
                      fence |-> g.fence, cred |-> g.cred, exp |-> exp]
  OBVIOUS
<1>2. PICK k : k = g.key
  OBVIOUS
<1>3. Matches(s.leases[k], g)
  BY <1>2 DEF RenewAccepted
<1>4. /\ k \in Keys /\ s.leases[k] \in Lease
      /\ s.fences[k] = g.fence /\ s.retired[k] = NotRetired
  BY <1>2, <1>3, MatchedRow
<1>5. PICK l : l = [s.leases[k] EXCEPT !.exp = exp]
  OBVIOUS
<1>6. l \in Lease /\ l # None /\ l.cred = s.leases[k].cred
  BY <1>4, <1>5, NoneAssumption DEF Lease
<1>7. l = LeaseOf(op)
  BY <1>1, <1>3, <1>4, <1>5 DEF LeaseOf, Lease, Matches
<1>8. PICK t : t = RenewLease(s, g, exp)
  OBVIOUS
<1>9. t = [s EXCEPT !.leases[k] = l]
  BY <1>2, <1>4, <1>5, <1>8 DEF RenewLease, StoreState
<1>10. /\ t \in StoreState /\ t.fences = s.fences /\ t.retired = s.retired
       /\ t.nextFence = s.nextFence /\ t.nextCred = s.nextCred
       /\ t.leases[k] = l /\ \A j \in Keys \ {k} : t.leases[j] = s.leases[j]
  BY <1>4, <1>6, <1>9 DEF StoreState
<1>11. ~Dead(t, k) /\ CredsIssued(t)
  BY <1>4, <1>6, <1>10, NoneAssumption DEF Dead, CredsIssued
<1>12. PICK u : u = [t EXCEPT !.candidates = t.candidates \cup {k}]
  OBVIOUS
<1>13. SetFence(t, k, g.fence) = u
  <2>1. t.fences[k] = g.fence /\ t.retired[k] = NotRetired
    BY <1>4, <1>10
  <2> QED BY <1>4, <1>10, <1>12, <2>1, SetFenceAgain
<1>14. u \in StoreState /\ u.nextFence = s.nextFence /\ u.nextCred = s.nextCred
  <2>1. t.candidates \cup {k} \in SUBSET Keys
    BY <1>4, <1>10 DEF StoreState
  <2> QED BY <1>10, <1>12, <2>1, CandidatesFields
<1>15. /\ OwnedBy(s, op) /\ HasCapacity(s, k, ReplicaLimit)
       /\ RaiseNext(u, op) = u
  BY <1>1, <1>2, <1>3, <1>14, MatchedOwns
<1>16. RaiseCred(u, op) = u
  <2>1. op.cred = s.leases[k].cred /\ op.cred \in Nat /\ s.nextCred \in Nat
        /\ op.cred < s.nextCred
    BY <1>1, <1>3, <1>4, NoneAssumption DEF Matches, CredsIssued, StoreState, Lease
  <2>2. MaxOf(s.nextCred, op.cred + 1) = s.nextCred
    BY <2>1 DEF MaxOf
  <2>3. RaiseCred(u, op) = [u EXCEPT !.nextCred = u.nextCred]
    BY <1>14, <2>2 DEF RaiseCred
  <2> QED BY <1>14, <2>3 DEF StoreState
<1>17. ReplayOp(s, op) = u
  <2>1. PutLease(s, op) = RaiseCred(RaiseNext(SetFence(t, k, g.fence), op), op)
    BY <1>1, <1>2, <1>7, <1>9 DEF PutLease
  <2> QED BY <1>1, <1>13, <1>15, <1>16, <2>1 DEF ReplayOp
<1>18. ReplayAccepted(s, op, now)
  BY <1>1, <1>2, <1>3, <1>15 DEF ReplayAccepted, RenewReplays, Matches
<1> QED BY <1>1, <1>2, <1>8, <1>10, <1>11, <1>12, <1>17, <1>18 DEF Replays

(* A replayed release ends the same lease. *)
LEMMA ReleaseReplayed ==
  ASSUME NEW s \in StoreState, StoreInv(s), CredsIssued(s), NEW g \in Guard,
         NEW now, ReleaseAccepted(s, g)
  PROVE  LET t == ReleaseLease(s, g)
         IN /\ Replays(s, [kind |-> "release", key |-> g.key, owner |-> g.owner,
                           fence |-> g.fence, cred |-> g.cred], now,
                       [t EXCEPT !.candidates = t.candidates \cup {g.key}])
            /\ t \in StoreState /\ ~Dead(t, g.key) /\ CredsIssued(t)
<1>1. PICK op : op = [kind |-> "release", key |-> g.key, owner |-> g.owner,
                      fence |-> g.fence, cred |-> g.cred]
  OBVIOUS
<1>2. PICK k : k = g.key
  OBVIOUS
<1>3. Matches(s.leases[k], g)
  BY <1>2 DEF ReleaseAccepted
<1>4. /\ k \in Keys /\ s.leases[k] \in Lease
      /\ s.fences[k] = g.fence /\ s.retired[k] = NotRetired
  BY <1>2, <1>3, MatchedRow
<1>5. PICK l : l = [s.leases[k] EXCEPT !.status = "released"]
  OBVIOUS
<1>6. l \in Lease /\ l # None /\ l.cred = s.leases[k].cred
  BY <1>4, <1>5, NoneAssumption DEF Lease
<1>7. PICK t : t = ReleaseLease(s, g)
  OBVIOUS
<1>8. t = [s EXCEPT !.leases[k] = l]
  BY <1>2, <1>4, <1>5, <1>7 DEF ReleaseLease, StoreState
<1>9. /\ t \in StoreState /\ t.fences = s.fences /\ t.retired = s.retired
      /\ t.nextFence = s.nextFence /\ t.nextCred = s.nextCred
      /\ t.leases[k] = l /\ \A j \in Keys \ {k} : t.leases[j] = s.leases[j]
  BY <1>4, <1>6, <1>8 DEF StoreState
<1>10. ~Dead(t, k) /\ CredsIssued(t)
  BY <1>4, <1>6, <1>9, NoneAssumption DEF Dead, CredsIssued
<1>11. PICK u : u = [t EXCEPT !.candidates = t.candidates \cup {k}]
  OBVIOUS
<1>12. SetFence(t, k, g.fence) = u
  <2>1. t.fences[k] = g.fence /\ t.retired[k] = NotRetired
    BY <1>4, <1>9
  <2> QED BY <1>4, <1>9, <1>11, <2>1, SetFenceAgain
<1>13. u \in StoreState /\ u.nextFence = s.nextFence
  <2>1. t.candidates \cup {k} \in SUBSET Keys
    BY <1>4, <1>9 DEF StoreState
  <2> QED BY <1>9, <1>11, <2>1, CandidatesFields
<1>14. /\ OwnedBy(s, op) /\ HasCapacity(s, k, ReplicaLimit)
       /\ RaiseNext(u, op) = u
  BY <1>1, <1>2, <1>3, <1>13, MatchedOwns
<1>15. ReplayOp(s, op) = u
  <2>1. t = [s EXCEPT !.leases[op.key].status = "released"]
    BY <1>1, <1>7 DEF ReleaseLease
  <2>2. EndLease(s, op) = RaiseNext(SetFence(t, k, g.fence), op)
    BY <1>1, <1>2, <2>1 DEF EndLease
  <2> QED BY <1>1, <1>12, <1>14, <2>2 DEF ReplayOp
<1>16. ReplayAccepted(s, op, now)
  BY <1>1, <1>2, <1>3, <1>14 DEF ReplayAccepted, RenewReplays, Matches
<1> QED BY <1>1, <1>2, <1>7, <1>9, <1>10, <1>11, <1>15, <1>16 DEF Replays

(* Compare-and-set, delete and TTL refresh replay as themselves, alone or  *)
(* as children of a batch, and leave the leases alone.                     *)
LEMMA CasReplayed ==
  ASSUME NEW s \in StoreState, NEW g \in Guard, NEW now, NEW expected,
         NEW r \in Record, CasAccepted(s, g, expected, r, now)
  PROVE  Replays(s, CasOp(g, expected, r), now, PutRecord(s, g, r))
<1>1. PICK op : op = CasOp(g, expected, r)
  OBVIOUS
<1>2. /\ op.kind = "cas" /\ op.key = g.key /\ op.expected = expected
      /\ op.cred = g.cred /\ op.guardExp = g.exp /\ op.record = r
  BY <1>1 DEF CasOp
<1>3. r.owner = g.owner /\ r.fence = g.fence
  BY DEF CasAccepted
<1>4. g = [key |-> op.key, owner |-> r.owner, fence |-> r.fence,
           cred |-> op.cred, exp |-> op.guardExp]
  BY <1>2, <1>3 DEF Guard
<1>5. ASSUME ReplicaLimit >= MaxTrackedKeys PROVE CasReplays(s, op, now)
  <2>1. Validates(s, g, now) /\ GenerationAccepted(s, g.key, expected, r, now)
    BY DEF CasAccepted
  <2>2. HasCapacity(s, g.key, ReplicaLimit)
    BY <1>5, RoomAtReplica DEF CasAccepted
  <2> QED BY <1>2, <1>4, <2>1, <2>2 DEF CasReplays
<1>6. ReplayOp(s, op) = PutRecord(s, g, r)
  BY <1>2, <1>3 DEF ReplayOp, PutRecord
<1> QED BY <1>1, <1>2, <1>5, <1>6 DEF Replays, ReplayAccepted

(* A replayed delete: the guard still owns the row. *)
LEMMA DeleteReplayed ==
  ASSUME NEW s \in StoreState, StoreInv(s), NEW g \in Guard, NEW now,
         DeleteAccepted(s, g, now)
  PROVE  Replays(s, DeleteOp(g), now, DeleteRecord(s, g))
<1>1. PICK op : op = DeleteOp(g)
  OBVIOUS
<1>2. /\ op.kind = "delete" /\ op.key = g.key /\ op.owner = g.owner
      /\ op.fence = g.fence
  BY <1>1 DEF DeleteOp
<1>3. Matches(s.leases[g.key], g)
  BY DEF DeleteAccepted, Validates
<1>4. PICK t : t = DeleteRecord(s, g)
  OBVIOUS
<1>5. t \in StoreState
  BY <1>4, DataEdits DEF RowEdit
<1>6. t.nextFence = s.nextFence
  BY <1>4 DEF DeleteRecord, SetFence, StoreState
<1>7. /\ OwnedBy(s, op) /\ HasCapacity(s, g.key, ReplicaLimit)
      /\ RaiseNext(t, op) = t
  BY <1>2, <1>3, <1>5, <1>6, MatchedOwns
<1>8. ReplayOp(s, op) = t
  BY <1>2, <1>4, <1>7 DEF ReplayOp, DeleteRecord
<1>9. ReplayAccepted(s, op, now)
  BY <1>2, <1>7 DEF ReplayAccepted, RowReplays
<1> QED BY <1>1, <1>4, <1>8, <1>9 DEF Replays

(* A replayed TTL refresh finds the record the source refreshed. *)
LEMMA RefreshReplayed ==
  ASSUME NEW s \in StoreState, StoreInv(s), NEW g \in Guard, NEW now,
         NEW exp \in Int, RefreshAccepted(s, g, now)
  PROVE  Replays(s, RefreshOp(g, exp), now, RefreshRecord(s, g, exp))
<1>1. PICK op : op = RefreshOp(g, exp)
  OBVIOUS
<1>2. /\ op.kind = "refresh" /\ op.key = g.key /\ op.owner = g.owner
      /\ op.fence = g.fence /\ op.exp = exp
  BY <1>1 DEF RefreshOp
<1>3. Matches(s.leases[g.key], g) /\ s.records[g.key] # None
  BY DEF RefreshAccepted, Validates
<1>4. PICK t : t = RefreshRecord(s, g, exp)
  OBVIOUS
<1>5. t \in StoreState
  BY <1>4, DataEdits DEF RowEdit
<1>6. t.nextFence = s.nextFence
  BY <1>4 DEF RefreshRecord, SetFence, StoreState
<1>7. /\ OwnedBy(s, op) /\ HasCapacity(s, g.key, ReplicaLimit)
      /\ RaiseNext(t, op) = t
  BY <1>2, <1>3, <1>5, <1>6, MatchedOwns
<1>8. ReplayOp(s, op) = t
  BY <1>2, <1>4, <1>7 DEF ReplayOp, RefreshRecord
<1>9. ReplayAccepted(s, op, now)
  BY <1>2, <1>3, <1>7 DEF ReplayAccepted, RowReplays
<1> QED BY <1>1, <1>4, <1>8, <1>9 DEF Replays

(* The data commands leave leases and the credential counter alone. *)
LEMMA DataKeepsCreds ==
  ASSUME NEW s \in StoreState, CredsIssued(s), NEW g \in Guard, NEW r, NEW exp
  PROVE  /\ CredsIssued(PutRecord(s, g, r))
         /\ CredsIssued(DeleteRecord(s, g))
         /\ CredsIssued(RefreshRecord(s, g, exp))
<1>1. ASSUME NEW u, u.leases = s.leases, u.nextCred = s.nextCred,
             NEW k, NEW f, DOMAIN u = DOMAIN s
      PROVE  CredsIssued(SetFence(u, k, f))
  <2>1. SetFence(u, k, f).leases = s.leases /\ SetFence(u, k, f).nextCred = s.nextCred
    BY <1>1 DEF SetFence, StoreState
  <2> QED BY <2>1 DEF CredsIssued
<1>2. ASSUME NEW R
      PROVE  LET u == [s EXCEPT !.records = R]
             IN u.leases = s.leases /\ u.nextCred = s.nextCred /\ DOMAIN u = DOMAIN s
  BY DEF StoreState
<1> QED BY <1>1, <1>2 DEF PutRecord, DeleteRecord, RefreshRecord

-----------------------------------------------------------------------------
(* The replay keeps up with the command step by step.                      *)

(* The operations of the running command replayed on the committed state. *)
Applied == ReplayAll(Prune(store, cmd.now), EntryOps(cmd), cmd.now)

(* Retirement of a, as far as the source has come, is at s. *)
RetiredTo(a, s) ==
  \E n \in 0..KeysEnd :
    /\ \A c \in s.candidates : n <= c
    /\ Near(RetireBelow(a, n), s, n)
    /\ NotRefused(RetireBelow(a, n))

(* All of a retired and r capacity rotations made is s. *)
RotatedTo(a, s, r) ==
  /\ s.candidates = {}
  /\ RotateTimes(RetireAll(a), r) \in {None, s}
  /\ NotRefused(RotateTimes(RetireAll(a), r))

ReplayInv ==
  /\ CredsIssued(store) /\ CredsIssued(staged)
  /\ phase # "idle" => store.committedTime <= cmd.now
  /\ phase = "batch" => Applied \in {None, staged} /\ NotRefused(Applied)
  /\ phase = "finalize" =>
       \/ cmd.rotations = 0 /\ RetiredTo(Applied, staged)
       \/ RotatedTo(Applied, staged, cmd.rotations)

(* Dropping leases keeps credentials below the counter. *)
LEMMA SameCreds ==
  ASSUME NEW s, NEW t, CredsIssued(s), t.nextCred = s.nextCred,
         \A k \in Keys : t.leases[k] = None \/ t.leases[k] = s.leases[k]
  PROVE  CredsIssued(t)
BY DEF CredsIssued

(* acquire issues the credential at the counter and moves the counter on. *)
LEMMA AcquireCreds ==
  ASSUME NEW s \in StoreState, CredsIssued(s), NEW k \in Keys, NEW owner, NEW exp
  PROVE  CredsIssued(AcquireLease(s, k, owner, exp))
<1>1. PICK f : f = AcquiredFence(s, k)
  OBVIOUS
<1>2. PICK l : l = [status |-> "active", cred |-> s.nextCred, owner |-> owner,
                    fence |-> f, exp |-> exp]
  OBVIOUS
<1>3. PICK u : u = [s EXCEPT !.nextFence = f + 1, !.nextCred = s.nextCred + 1,
                             !.leases[k] = l]
  OBVIOUS
<1>4. /\ u.nextCred = s.nextCred + 1 /\ u.leases = [s.leases EXCEPT ![k] = l]
      /\ "fences" \in DOMAIN u /\ "retired" \in DOMAIN u /\ "candidates" \in DOMAIN u
  BY <1>3 DEF StoreState
<1>5. AcquireLease(s, k, owner, exp) = SetFence(u, k, f)
  BY <1>1, <1>2, <1>3 DEF AcquireLease
<1>6. /\ SetFence(u, k, f).nextCred = u.nextCred
      /\ SetFence(u, k, f).leases = u.leases
  BY <1>3 DEF SetFence, StoreState
<1>7. l.cred = s.nextCred /\ s.nextCred \in Nat
  BY <1>2 DEF StoreState
<1>8. ASSUME NEW j \in Keys, u.leases[j] # None
      PROVE  u.leases[j].cred < u.nextCred
  <2>1. CASE j = k
    BY <1>4, <1>7, <2>1 DEF StoreState
  <2>2. CASE j # k
    <3>1. u.leases[j] = s.leases[j] /\ s.leases[j] \in Lease
      BY <1>4, <1>8, <2>2 DEF StoreState
    <3>2. s.leases[j].cred < s.nextCred /\ s.leases[j].cred \in Nat
      BY <1>8, <3>1 DEF CredsIssued, Lease
    <3> QED BY <1>4, <1>7, <3>1, <3>2
  <2> QED BY <2>1, <2>2
<1> QED BY <1>5, <1>6, <1>8 DEF CredsIssued

(* The pruned copy a command starts from. *)
LEMMA PruneCreds ==
  ASSUME Inv, ReplayInv, NEW now
  PROVE  CredsIssued(Prune(store, now))
<1>1. store \in StoreState /\ CredsIssued(store)
  BY DEF Inv, TypeOK, ReplayInv
<1> QED BY <1>1, PruneFields, SameCreds

(* No candidates ahead. *)
LEMMA NearSelf ==
  ASSUME NEW s \in StoreState, NEW n
  PROVE  Near(s, s, n)
<1>1. s = [s EXCEPT !.candidates = s.candidates \cup {}]
  BY DEF StoreState
<1>2. {} \in SUBSET Keys /\ \A k \in {} : ~Dead(s, k) /\ n <= k
  OBVIOUS
<1> QED BY <1>1, <1>2 DEF Near

(* A single command that passed its checks: its logged operation replays   *)
(* to u, its staged state t but for live candidates.                       *)
LEMMA StageReplayed ==
  ASSUME ReplayInv, NEW now, Prune(store, now) \in StoreState,
         NEW t, NEW u \in StoreState, NEW op, op.kind # "batch", NEW guard,
         Replays(Prune(store, now), op, now, u), Near(u, t, 0),
         t.candidates \subseteq Keys,
         CredsIssued(t), store.committedTime <= now,
         Stage(t, "finalize", op, guard, now)
  PROVE  ReplayInv'
<1>1. /\ staged' = t /\ phase' = "finalize" /\ store' = store
      /\ cmd'.op = op /\ cmd'.now = now /\ cmd'.rotations = 0
  BY DEF Stage
<1>2. EntryOps(cmd') = <<op>>
  BY <1>1 DEF EntryOps
<1>3. PICK a : a = ReplayStep(Prune(store, now), op, now)
  OBVIOUS
<1>4. Applied' = a
  BY <1>1, <1>2, <1>3, ReplayAllOne DEF Applied
<1>5. a \in {None, u} /\ NotRefused(a)
  BY <1>3, ReplaysStep
<1>6. Near(a, t, 0)
  BY <1>5 DEF Near
<1>7. RetiredTo(a, t)
  <2>1. RetireBelow(a, 0) = a
    BY RetireBelowSteps
  <2>2. 0 \in 0..KeysEnd
    BY KeysBounded
  <2>3. \A c \in t.candidates : 0 <= c
    <3>1. \A c \in Nat : 0 <= c
      OBVIOUS
    <3> QED BY <3>1, KeysAssumption
  <2> QED BY <1>5, <1>6, <2>1, <2>2, <2>3 DEF RetiredTo
<1>8. CredsIssued(store)
  BY DEF ReplayInv
<1> QED BY <1>1, <1>4, <1>7, <1>8 DEF ReplayInv

(* A refused command or a read changes nothing the replay depends on. *)
LEMMA RefuseReplayed ==
  ASSUME ReplayInv, UNCHANGED <<store, staged, phase, cmd>>
  PROVE  ReplayInv'
<1>1. Applied' = Applied
  BY DEF Applied
<1> QED BY <1>1 DEF ReplayInv

(* acquire, renew and release. *)
LEMMA LeaseReplayed ==
  ASSUME Inv, ReplayInv, NEW sample \in 0..MaxTime, LeaseStep(sample)
  PROVE  ReplayInv'
<1>1. PICK now : now = CommandTime(sample)
  OBVIOUS
<1>2. PICK p : p = Prune(store, now)
  OBVIOUS
<1>3. /\ now \in Nat /\ store.committedTime <= now
      /\ p \in StoreState /\ StoreInv(p) /\ CredsIssued(p)
  BY <1>1, <1>2, CommandTimeType, CommandTimeBound, PrunedStore, PruneCreds DEF Inv
<1>4. CASE Refuse(now)
  BY <1>4, RefuseReplayed DEF Refuse
<1>5. ASSUME NEW k \in Keys, NEW owner \in Owners, NEW ttl \in LeaseTtls,
             Acquire(k, owner, ttl, sample)
      PROVE  ReplayInv'
  <2>1. PICK exp : exp = now + ttl
    OBVIOUS
  <2>2. exp \in Int
    BY <1>3, <2>1, InputsAssumption
  <2>3. PICK op : op = [kind |-> "acquire", key |-> k, owner |-> owner,
                        fence |-> AcquiredFence(p, k), cred |-> p.nextCred,
                        exp |-> exp]
    OBVIOUS
  <2>4. op.kind # "batch"
    BY <2>3
  <2>5. ASSUME NEW guard, AcquireAccepted(p, k, owner, now),
               Stage(AcquireLease(p, k, owner, exp), "finalize", op, guard, now)
        PROVE  ReplayInv'
    <3>1. PICK t : t = AcquireLease(p, k, owner, exp)
      OBVIOUS
    <3>2. t \in StoreState /\ CredsIssued(t)
      BY <1>3, <2>2, <3>1, AcquireEdit, AcquireCreds DEF RowEdit
    <3>3. Replays(p, op, now, t)
      BY <1>3, <2>2, <2>3, <2>5, <3>1, AcquireReplayed
    <3>4. Near(t, t, 0) /\ t.candidates \subseteq Keys
      BY <3>2, NearSelf DEF StoreState
    <3> QED BY <1>2, <1>3, <2>4, <2>5, <3>1, <3>2, <3>3, <3>4, StageReplayed
  <2> QED BY <1>1, <1>2, <1>4, <1>5, <2>1, <2>3, <2>5 DEF Acquire
<1>6. ASSUME NEW g \in Guard, NEW t \in StoreState, ~Dead(t, g.key), CredsIssued(t),
             NEW op, op.kind # "batch",
             Replays(p, op, now, [t EXCEPT !.candidates = t.candidates \cup {g.key}]),
             NEW guard, Stage(t, "finalize", op, guard, now)
      PROVE  ReplayInv'
  <2>1. PICK u : u = [t EXCEPT !.candidates = t.candidates \cup {g.key}]
    OBVIOUS
  <2>2. {g.key} \in SUBSET Keys /\ t.candidates \subseteq Keys /\ 0 <= g.key
    <3>1. g.key \in Keys /\ t.candidates \subseteq Keys
      BY <1>6 DEF Guard, StoreState
    <3>2. g.key \in Nat
      BY <3>1, KeysAssumption
    <3> QED BY <3>1, <3>2
  <2>3. u \in StoreState
    BY <2>1, <2>2, CandidatesFields
  <2>4. Near(u, t, 0)
    BY <1>6, <2>1, <2>2 DEF Near
  <2> QED BY <1>2, <1>3, <1>6, <2>1, <2>2, <2>3, <2>4, StageReplayed
<1>7. ASSUME NEW g \in guards, NEW ttl \in LeaseTtls, Renew(g, ttl, sample)
      PROVE  ReplayInv'
  <2>1. g \in Guard
    BY DEF Inv, TypeOK
  <2>2. PICK exp : exp = now + ttl
    OBVIOUS
  <2>3. exp \in Int
    BY <1>3, <2>2, InputsAssumption
  <2>4. PICK op : op = [kind |-> "renew", key |-> g.key, owner |-> g.owner,
                        fence |-> g.fence, cred |-> g.cred, exp |-> exp]
    OBVIOUS
  <2>5. op.kind # "batch"
    BY <2>4
  <2>6. ASSUME NEW guard, RenewAccepted(p, g, now),
               Stage(RenewLease(p, g, exp), "finalize", op, guard, now)
        PROVE  ReplayInv'
    <3>1. PICK t : t = RenewLease(p, g, exp)
      OBVIOUS
    <3>2. /\ Replays(p, op, now, [t EXCEPT !.candidates = t.candidates \cup {g.key}])
          /\ t \in StoreState /\ ~Dead(t, g.key) /\ CredsIssued(t)
      BY <1>3, <2>1, <2>3, <2>4, <2>6, <3>1, RenewReplayed
    <3> QED BY <1>6, <2>1, <2>5, <2>6, <3>1, <3>2
  <2> QED BY <1>1, <1>2, <1>4, <1>7, <2>2, <2>4, <2>6 DEF Renew
<1>8. ASSUME NEW g \in guards, Release(g, sample)
      PROVE  ReplayInv'
  <2>1. g \in Guard
    BY DEF Inv, TypeOK
  <2>2. PICK op : op = [kind |-> "release", key |-> g.key, owner |-> g.owner,
                        fence |-> g.fence, cred |-> g.cred]
    OBVIOUS
  <2>3. op.kind # "batch"
    BY <2>2
  <2>4. ASSUME ReleaseAccepted(p, g),
               Stage(ReleaseLease(p, g), "finalize", op, None, now)
        PROVE  ReplayInv'
    <3>1. PICK t : t = ReleaseLease(p, g)
      OBVIOUS
    <3>2. /\ Replays(p, op, now, [t EXCEPT !.candidates = t.candidates \cup {g.key}])
          /\ t \in StoreState /\ ~Dead(t, g.key) /\ CredsIssued(t)
      BY <1>3, <2>1, <2>2, <2>4, <3>1, ReleaseReplayed
    <3> QED BY <1>6, <2>1, <2>3, <2>4, <3>1, <3>2
  <2> QED BY <1>1, <1>2, <1>4, <1>8, <2>2, <2>4 DEF Release
<1> QED BY <1>5, <1>7, <1>8 DEF LeaseStep

(* Single mutations replay to the staged state itself. *)
LEMMA DataReplayed ==
  ASSUME Inv, ReplayInv, NEW sample \in 0..MaxTime, DataStep(sample)
  PROVE  ReplayInv'
<1>1. PICK now : now = CommandTime(sample)
  OBVIOUS
<1>2. PICK p : p = Prune(store, now)
  OBVIOUS
<1>3. /\ now \in Nat /\ store.committedTime <= now
      /\ p \in StoreState /\ StoreInv(p) /\ CredsIssued(p)
  BY <1>1, <1>2, CommandTimeType, CommandTimeBound, PrunedStore, PruneCreds DEF Inv
<1>4. CASE Refuse(now) \/ \E k \in Keys : Get(k, sample)
  BY <1>4, RefuseReplayed DEF Refuse, Get
<1>5. ASSUME NEW k, NEW t, RowEdit(p, t, k), CredsIssued(t), NEW op, op.kind # "batch",
             Replays(p, op, now, t), Stage(t, "finalize", op, None, now)
      PROVE  ReplayInv'
  <2>1. t \in StoreState
    BY <1>5 DEF RowEdit
  <2>2. Near(t, t, 0) /\ t.candidates \subseteq Keys
    BY <2>1, NearSelf DEF StoreState
  <2> QED BY <1>2, <1>3, <1>5, <2>1, <2>2, StageReplayed
<1>6. ASSUME NEW g \in guards, NEW author \in guards,
             NEW expected \in Generations \cup {None},
             CompareAndSet(g, author, expected, sample)
      PROVE  ReplayInv'
  <2>1. g \in Guard /\ author \in Guard
    BY DEF Inv, TypeOK
  <2>2. PICK r \in RecordInputs(author, now) :
          \/ /\ CasAccepted(p, g, expected, r, now)
             /\ Stage(PutRecord(p, g, r), "finalize", CasOp(g, expected, r), None, now)
          \/ Refuse(now)
    BY <1>1, <1>2, <1>6 DEF CompareAndSet
  <2>3. r \in Record
    BY <1>3, <2>1, RecordInputsType
  <2>4. CasAccepted(p, g, expected, r, now) =>
          /\ RowEdit(p, PutRecord(p, g, r), g.key)
          /\ Replays(p, CasOp(g, expected, r), now, PutRecord(p, g, r))
    BY <1>3, <2>1, <2>3, DataEdits, CasReplayed
  <2>5. CredsIssued(PutRecord(p, g, r)) /\ CasOp(g, expected, r).kind # "batch"
    BY <1>3, <2>1, DataKeepsCreds DEF CasOp
  <2> QED BY <1>4, <1>5, <2>2, <2>4, <2>5
<1>7. ASSUME NEW g \in guards, DeleteFenced(g, sample)
      PROVE  ReplayInv'
  <2>1. g \in Guard
    BY DEF Inv, TypeOK
  <2>2. \/ /\ DeleteAccepted(p, g, now)
           /\ Stage(DeleteRecord(p, g), "finalize", DeleteOp(g), None, now)
        \/ Refuse(now)
    BY <1>1, <1>2, <1>7 DEF DeleteFenced
  <2>3. DeleteAccepted(p, g, now) =>
          /\ RowEdit(p, DeleteRecord(p, g), g.key)
          /\ Replays(p, DeleteOp(g), now, DeleteRecord(p, g))
    BY <1>3, <2>1, DataEdits, DeleteReplayed
  <2>4. CredsIssued(DeleteRecord(p, g)) /\ DeleteOp(g).kind # "batch"
    BY <1>3, <2>1, DataKeepsCreds DEF DeleteOp
  <2> QED BY <1>4, <1>5, <2>2, <2>3, <2>4
<1>8. ASSUME NEW g \in guards, NEW ttl \in RecordTtls, RefreshTtl(g, ttl, sample)
      PROVE  ReplayInv'
  <2>1. g \in Guard /\ now + ttl \in Int
    BY <1>3, InputsAssumption DEF Inv, TypeOK
  <2>2. PICK exp \in Int :
          \/ /\ RefreshAccepted(p, g, now)
             /\ Stage(RefreshRecord(p, g, exp), "finalize", RefreshOp(g, exp), None, now)
          \/ Refuse(now)
    BY <1>1, <1>2, <1>8, <2>1 DEF RefreshTtl
  <2>3. RefreshAccepted(p, g, now) =>
          /\ RowEdit(p, RefreshRecord(p, g, exp), g.key)
          /\ Replays(p, RefreshOp(g, exp), now, RefreshRecord(p, g, exp))
    BY <1>3, <2>1, DataEdits, RefreshReplayed
  <2>4. CredsIssued(RefreshRecord(p, g, exp)) /\ RefreshOp(g, exp).kind # "batch"
    BY <1>3, <2>1, DataKeepsCreds DEF RefreshOp
  <2> QED BY <1>4, <1>5, <2>2, <2>3, <2>4
<1>9. CASE BatchStart(sample)
  <2>1. /\ staged' = p /\ phase' = "batch" /\ store' = store
        /\ cmd'.op = [kind |-> "batch", ops |-> <<>>] /\ cmd'.now = now
    BY <1>1, <1>2, <1>9 DEF BatchStart, Stage
  <2>2. EntryOps(cmd') = <<>>
    BY <2>1 DEF EntryOps
  <2>3. Applied' = p
    BY <1>2, <2>1, <2>2, ReplayAllEmpty DEF Applied
  <2>4. p # None
    BY <1>3, NoneIsNoState
  <2>5. CredsIssued(store)
    BY DEF ReplayInv
  <2> QED BY <1>3, <2>1, <2>3, <2>4, <2>5 DEF ReplayInv, NotRefused
<1> QED BY <1>4, <1>6, <1>7, <1>8, <1>9 DEF DataStep

(* A batch child extends the entry by its own operation. *)
LEMMA BatchReplayed ==
  ASSUME Inv, CapacityInv, ReplayInv, BatchStep
  PROVE  ReplayInv'
<1>1. phase = "batch"
  BY DEF BatchStep, BatchCas, BatchDelete, BatchRefresh, BatchGet, BatchEnd, InBatch
<1>2. /\ staged \in StoreState /\ StoreInv(staged) /\ store \in StoreState
      /\ cmd \in Command /\ cmd.now \in Nat /\ cmd.op \in BatchOps
  BY <1>1 DEF Inv, TypeOK, StatesSafe, Command
<1>3. /\ CredsIssued(store) /\ CredsIssued(staged) /\ store.committedTime <= cmd.now
      /\ Applied \in {None, staged} /\ NotRefused(Applied)
  BY <1>1 DEF ReplayInv
<1>4. ASSUME NEW k, NEW t, RowEdit(staged, t, k), CredsIssued(t), NEW op \in DataOps,
             Replays(staged, op, cmd.now, t), BatchChild(t, op)
      PROVE  ReplayInv'
  <2>1. PICK ops : ops = cmd.op.ops
    OBVIOUS
  <2>2. ops \in Seq(DataOps) /\ cmd.op.kind = "batch"
    BY <1>2, <2>1 DEF BatchOps
  <2>3. /\ staged' = t /\ store' = store /\ phase' = "batch"
        /\ cmd'.now = cmd.now /\ cmd'.op = [cmd.op EXCEPT !.ops = Append(ops, op)]
    BY <1>1, <1>2, <1>4, <2>1 DEF BatchChild, Command
  <2>4. EntryOps(cmd') = Append(ops, op) /\ EntryOps(cmd) = ops
    BY <1>2, <2>1, <2>2, <2>3 DEF EntryOps, BatchOps
  <2>5. Applied' = ReplayStep(Applied, op, cmd.now)
    BY <2>2, <2>3, <2>4, ReplayAllAppend DEF Applied
  <2>6. t \in StoreState
    BY <1>4 DEF RowEdit
  <2>7. /\ ReplayStep(staged, op, cmd.now) \in {None, t}
        /\ NotRefused(ReplayStep(staged, op, cmd.now))
    BY <1>2, <1>4, <2>6, ReplaysStep
  <2>8. Applied' \in {None, t} /\ NotRefused(Applied')
    <3>1. CASE Applied = None
      BY <1>3, <2>5, <3>1 DEF NotRefused, ReplayStep
    <3>2. CASE Applied = staged
      BY <2>5, <2>7, <3>2
    <3> QED BY <1>3, <3>1, <3>2
  <2> QED BY <1>3, <1>4, <2>3, <2>8 DEF ReplayInv
<1>5. ASSUME NEW g \in guards, NEW expected \in Generations \cup {None},
             BatchCas(g, expected)
      PROVE  ReplayInv'
  <2>1. PICK r \in RecordInputs(g, cmd.now) :
          /\ CasAccepted(staged, g, expected, r, cmd.now)
          /\ BatchChild(PutRecord(staged, g, r), CasOp(g, expected, r))
    BY <1>5 DEF BatchCas
  <2>2. g \in Guard /\ r \in Record /\ expected \in Nat \cup {None}
    BY <1>2, RecordInputsType, InputsAssumption DEF Inv, TypeOK
  <2>3. /\ RowEdit(staged, PutRecord(staged, g, r), g.key)
        /\ Replays(staged, CasOp(g, expected, r), cmd.now, PutRecord(staged, g, r))
    BY <1>2, <2>1, <2>2, DataEdits, CasReplayed
  <2>4. CredsIssued(PutRecord(staged, g, r)) /\ CasOp(g, expected, r) \in DataOps
    BY <1>2, <1>3, <2>2, DataKeepsCreds, DataOpTypes
  <2> QED BY <1>4, <2>1, <2>3, <2>4
<1>6. ASSUME NEW g \in guards, BatchDelete(g)
      PROVE  ReplayInv'
  <2>1. g \in Guard
    BY DEF Inv, TypeOK
  <2>2. /\ DeleteAccepted(staged, g, cmd.now)
        /\ BatchChild(DeleteRecord(staged, g), DeleteOp(g))
    BY <1>6 DEF BatchDelete
  <2>3. /\ RowEdit(staged, DeleteRecord(staged, g), g.key)
        /\ Replays(staged, DeleteOp(g), cmd.now, DeleteRecord(staged, g))
    BY <1>2, <2>1, <2>2, DataEdits, DeleteReplayed
  <2>4. CredsIssued(DeleteRecord(staged, g)) /\ DeleteOp(g) \in DataOps
    BY <1>2, <1>3, <2>1, DataKeepsCreds, DataOpTypes
  <2> QED BY <1>4, <2>2, <2>3, <2>4
<1>7. ASSUME NEW g \in guards, NEW ttl \in RecordTtls, BatchRefresh(g, ttl)
      PROVE  ReplayInv'
  <2>1. g \in Guard /\ cmd.now + ttl \in Int
    BY <1>2, InputsAssumption DEF Inv, TypeOK
  <2>2. PICK exp \in Int :
          /\ RefreshAccepted(staged, g, cmd.now)
          /\ BatchChild(RefreshRecord(staged, g, exp), RefreshOp(g, exp))
    BY <1>7, <2>1 DEF BatchRefresh
  <2>3. /\ RowEdit(staged, RefreshRecord(staged, g, exp), g.key)
        /\ Replays(staged, RefreshOp(g, exp), cmd.now, RefreshRecord(staged, g, exp))
    BY <1>2, <2>1, <2>2, DataEdits, RefreshReplayed
  <2>4. CredsIssued(RefreshRecord(staged, g, exp)) /\ RefreshOp(g, exp) \in DataOps
    BY <1>2, <1>3, <2>1, DataKeepsCreds, DataOpTypes
  <2> QED BY <1>4, <2>2, <2>3, <2>4
<1>8. ASSUME NEW k \in Keys, BatchGet(k)
      PROVE  ReplayInv'
  <2>1. /\ UNCHANGED <<store, staged, phase>>
        /\ cmd'.op = cmd.op /\ cmd'.now = cmd.now
    BY <1>2, <1>8 DEF BatchGet, Command
  <2>2. Applied' = Applied
    BY <2>1 DEF Applied, EntryOps
  <2> QED BY <1>1, <1>3, <2>1, <2>2 DEF ReplayInv
<1>9. CASE BatchEnd
  <2>1. CASE phase' = "finalize" /\ UNCHANGED <<store, staged, cmd>>
    <3>1. Applied' = Applied
      BY <2>1 DEF Applied
    <3>2. RetireBelow(Applied, 0) = Applied /\ 0 \in 0..KeysEnd
      BY RetireBelowSteps, KeysBounded
    <3>3. Near(Applied, staged, 0)
      BY <1>2, <1>3, NearSelf DEF Near
    <3>4. \A c \in staged.candidates : 0 <= c
      <4>1. staged.candidates \subseteq Keys /\ \A c \in Nat : 0 <= c
        BY <1>2 DEF StoreState
      <4> QED BY <4>1, KeysAssumption
    <3>5. RetiredTo(Applied, staged)
      BY <1>3, <3>2, <3>3, <3>4 DEF RetiredTo
    <3>6. cmd.rotations = 0
      BY <1>1 DEF CapacityInv
    <3> QED BY <1>3, <2>1, <3>1, <3>5, <3>6 DEF ReplayInv
  <2>2. CASE phase' = "idle" /\ store' = store /\ staged' = store
    BY <1>3, <2>2 DEF ReplayInv
  <2> QED BY <1>9, <2>1, <2>2 DEF BatchEnd
<1> QED BY <1>5, <1>6, <1>7, <1>8, <1>9 DEF BatchStep

(* Once the source has no candidate left, the replay has none either. *)
LEMMA AllRetired ==
  ASSUME NEW a, NEW s \in StoreState, RowsFenced(s), s.candidates = {},
         RetiredTo(a, s)
  PROVE  RotatedTo(a, s, 0)
<1>1. PICK n \in 0..KeysEnd : /\ Near(RetireBelow(a, n), s, n)
                              /\ NotRefused(RetireBelow(a, n))
  BY DEF RetiredTo
<1>2. n \in Nat /\ KeysEnd \in Nat /\ n <= KeysEnd /\ \A k \in Keys : k < KeysEnd
  BY KeysBounded
<1>3. \A c \in s.candidates : KeysEnd <= c
  OBVIOUS
<1>4. /\ Near(RetireBelow(a, KeysEnd), s, KeysEnd)
      /\ RetireBelow(a, n) # None => RetireBelow(a, KeysEnd) # None
  BY <1>1, <1>2, <1>3, VisitUpTo
<1>5. PICK t : t = RetireAll(a)
  OBVIOUS
<1>6. Near(t, s, KeysEnd) /\ NotRefused(t)
  BY <1>1, <1>4, <1>5 DEF RetireAll, NotRefused
<1>7. t \in {None, s}
  <2> SUFFICES ASSUME t # None PROVE t = s
    OBVIOUS
  <2>1. PICK C \in SUBSET Keys :
          /\ t = [s EXCEPT !.candidates = s.candidates \cup C]
          /\ \A k \in C : KeysEnd <= k
    BY <1>6 DEF Near
  <2>2. C = {}
    <3> SUFFICES ASSUME NEW k \in C PROVE FALSE
      OBVIOUS
    <3>1. k \in Keys /\ k \in Nat /\ KeysEnd <= k
      BY <2>1, KeysAssumption
    <3> QED BY <1>2, <3>1
  <2> QED BY <2>1, <2>2 DEF StoreState
<1>8. RotateTimes(t, 0) = t
  BY RotateTimesSteps
<1> QED BY <1>5, <1>6, <1>7, <1>8 DEF RotatedTo

(* Before a capacity rotation or the commit the replay has caught up. *)
LEMMA CaughtUp ==
  ASSUME Inv, ReplayInv, phase = "finalize", staged.candidates = {}
  PROVE  RotatedTo(Applied, staged, cmd.rotations)
<1>1. staged \in StoreState /\ RowsFenced(staged)
  BY DEF Inv, TypeOK, StatesSafe, StoreInv
<1>2. \/ cmd.rotations = 0 /\ RetiredTo(Applied, staged)
      \/ RotatedTo(Applied, staged, cmd.rotations)
  BY DEF ReplayInv
<1> QED BY <1>1, <1>2, AllRetired

(* Each iteration of retire_dead_keys and each capacity rotation is one    *)
(* the replay makes too.                                                   *)
LEMMA FinalizeReplayed ==
  ASSUME Inv, ReplayInv, FinalizeStep
  PROVE  ReplayInv'
<1>1. /\ phase = "finalize" /\ staged \in StoreState /\ StoreInv(staged)
      /\ cmd \in Command /\ cmd.rotations \in Nat
  BY DEF Inv, TypeOK, StatesSafe, Command, FinalizeStep, RetireDeadKey,
         RotateForCapacity, Commit
<1>2. /\ CredsIssued(store) /\ CredsIssued(staged)
      /\ store.committedTime <= cmd.now
  BY <1>1 DEF ReplayInv
<1>3. ASSUME NEW k \in staged.candidates, RetireDeadKey(k)
      PROVE  ReplayInv'
  <2>1. k \in Keys /\ k \in Nat
    BY <1>1, KeysAssumption DEF StoreState
  <2>2. PICK u : u = IF ReachesThreshold(staged, k) THEN Rotate(Retire(staged, k))
                     ELSE Retire(staged, k)
    OBVIOUS
  <2>3. /\ staged' = u /\ UNCHANGED <<store, phase, cmd>>
        /\ \A other \in staged.candidates : k <= other
    BY <1>3, <2>2 DEF RetireDeadKey
  <2>4. PICK a : a = Applied
    OBVIOUS
  <2>5. Applied' = a
    BY <2>3, <2>4 DEF Applied
  <2>6. cmd.rotations = 0 /\ RetiredTo(a, staged)
    BY <1>1, <1>3, <2>4 DEF ReplayInv, RotatedTo
  <2>7. PICK n \in 0..KeysEnd : /\ \A c \in staged.candidates : n <= c
                                /\ Near(RetireBelow(a, n), staged, n)
                                /\ NotRefused(RetireBelow(a, n))
    BY <2>6 DEF RetiredTo
  <2>8. n \in Nat /\ n <= k
    BY <2>7, KeysBounded
  <2>9. PICK t : t = RetireBelow(a, k)
    OBVIOUS
  <2>10. Near(t, staged, k) /\ NotRefused(t)
    BY <1>1, <2>1, <2>3, <2>7, <2>8, <2>9, VisitUpTo DEF StoreInv, NotRefused
  <2>11. RetireBelow(a, k + 1) = VisitKey(t, k)
    BY <2>1, <2>9, RetireBelowSteps
  <2>12. /\ Near(RetireBelow(a, k + 1), u, k + 1)
         /\ NotRefused(RetireBelow(a, k + 1))
    BY <1>1, <1>3, <2>2, <2>10, <2>11, VisitSame DEF NotRefused
  <2>13. /\ u.candidates = staged.candidates \ {k} /\ u.leases = staged.leases
         /\ u.nextCred = staged.nextCred
    <3>1. PICK r : r = Retire(staged, k)
      OBVIOUS
    <3>2. /\ r \in StoreState /\ r.candidates = staged.candidates \ {k}
          /\ r.leases = staged.leases /\ r.nextCred = staged.nextCred
      BY <1>1, <2>1, <3>1, RetireFields
    <3> QED BY <2>2, <3>1, <3>2, RotateFields
  <2>14. \A c \in u.candidates : k + 1 <= c
    <3> SUFFICES ASSUME NEW c \in u.candidates PROVE k + 1 <= c
      OBVIOUS
    <3>1. c \in staged.candidates /\ c # k /\ c \in Nat
      BY <1>1, <2>13, KeysAssumption DEF StoreState
    <3> QED BY <2>1, <2>3, <3>1
  <2>15. k + 1 \in 0..KeysEnd
    BY <2>1, KeysBounded
  <2>16. RetiredTo(a, u)
    BY <2>12, <2>14, <2>15 DEF RetiredTo
  <2>17. CredsIssued(u)
    BY <1>2, <2>13 DEF CredsIssued
  <2> QED BY <1>1, <1>2, <2>3, <2>5, <2>6, <2>16, <2>17 DEF ReplayInv
<1>4. CASE RotateForCapacity
  <2>1. PICK r : r = cmd.rotations
    OBVIOUS
  <2>2. PICK a : a = Applied
    OBVIOUS
  <2>3. /\ staged' = Rotate(staged) /\ UNCHANGED <<store, phase>>
        /\ staged.candidates = {} /\ RetiredKeys(staged) # {}
        /\ RotationAccepted(staged)
        /\ cmd'.rotations = r + 1 /\ cmd'.op = cmd.op /\ cmd'.now = cmd.now
    BY <1>1, <1>4, <2>1 DEF RotateForCapacity, Command
  <2>4. Applied' = a
    BY <2>2, <2>3 DEF Applied, EntryOps
  <2>5. RotatedTo(a, staged, r)
    BY <1>1, <2>1, <2>2, <2>3, CaughtUp
  <2>6. PICK t : t = RotateTimes(RetireAll(a), r)
    OBVIOUS
  <2>7. t \in {None, staged} /\ NotRefused(t)
    BY <2>5, <2>6 DEF RotatedTo
  <2>8. RotateTimes(RetireAll(a), r + 1) = RotateStep(t)
    BY <1>1, <2>1, <2>6, RotateTimesSteps
  <2>9. Rotate(staged) \in StoreState /\ Rotate(staged).candidates = {}
        /\ Rotate(staged).leases = staged.leases
        /\ Rotate(staged).nextCred = staged.nextCred
    BY <1>1, <2>3, RotateFields
  <2>10. RotateStep(None) = None /\ RotateStep(staged) = Rotate(staged)
    BY <1>1, <2>3, NoneIsNoState DEF RotateStep
  <2>11. RotatedTo(a, Rotate(staged), r + 1)
    BY <2>7, <2>8, <2>9, <2>10, NoneIsNoState DEF RotatedTo, NotRefused
  <2>12. CredsIssued(Rotate(staged))
    BY <1>2, <2>9 DEF CredsIssued
  <2> QED BY <1>1, <1>2, <2>3, <2>4, <2>11, <2>12 DEF ReplayInv
<1>5. CASE Commit
  <2>1. /\ phase' = "idle" /\ store' = [staged EXCEPT !.committedTime = cmd.now]
        /\ staged' = store'
    BY <1>5 DEF Commit
  <2>2. store'.leases = staged.leases /\ store'.nextCred = staged.nextCred
    BY <1>1, <2>1 DEF StoreState
  <2>3. CredsIssued(store')
    BY <1>2, <2>2 DEF CredsIssued
  <2> QED BY <2>1, <2>3 DEF ReplayInv
<1> QED BY <1>3, <1>4, <1>5 DEF FinalizeStep

(* What a commit logs replays, on the state it replaces, to the state it   *)
(* publishes.                                                              *)
LEMMA CommitReplayed ==
  ASSUME Inv, ReplayInv, Commit, NEW entry, entry.op = cmd.op,
         entry.time = cmd.now, entry.rotations = cmd.rotations
  PROVE  Replay(store, entry) \in {None, store'} /\ NotRefused(Replay(store, entry))
<1>1. /\ phase = "finalize" /\ staged \in StoreState /\ staged.candidates = {}
      /\ store \in StoreState /\ cmd \in Command /\ cmd.now \in Nat
      /\ ~OverCapacity(staged, MaxTrackedKeys)
      /\ store' = [staged EXCEPT !.committedTime = cmd.now]
  BY DEF Inv, TypeOK, Command, Commit
<1>2. PICK t : t = RotateTimes(RetireAll(Applied), cmd.rotations)
  OBVIOUS
<1>3. t \in {None, staged} /\ NotRefused(t)
  BY <1>1, <1>2, CaughtUp DEF RotatedTo
<1>4. EntryOps(entry) = EntryOps(cmd)
  BY DEF EntryOps
<1>5. MaxOf(store.committedTime, cmd.now) = cmd.now
  <2>1. store.committedTime <= cmd.now /\ store.committedTime \in Nat
    BY <1>1 DEF ReplayInv, StoreState
  <2> QED BY <1>1, <2>1 DEF MaxOf
<1>6. Replay(store, entry) = IF t = None \/ OverCapacity(t, ReplicaLimit) THEN None
                             ELSE [t EXCEPT !.committedTime = cmd.now]
  BY <1>2, <1>4, <1>5 DEF Replay, Applied
<1>7. store' \in StoreState /\ store' # None /\ staged # None
  BY <1>1, NoneIsNoState DEF StoreState
<1>8. ReplicaLimit >= MaxTrackedKeys => ~OverCapacity(staged, ReplicaLimit)
  <2>1. Tracked(staged) \subseteq Keys
    BY DEF Tracked
  <2>2. Cardinality(Tracked(staged)) \in Nat
    BY <2>1, SubsetOfKeys
  <2> QED BY <1>1, <2>2, ReplicaLimitAssumption, LimitsAssumption DEF OverCapacity
<1> QED BY <1>1, <1>3, <1>6, <1>7, <1>8 DEF NotRefused

-----------------------------------------------------------------------------
(* The replica.                                                            *)

(* The source's committed state after n entries. *)
StateAt(h, n) == IF n = 0 THEN EmptyStore ELSE h[n]

(* Entries q and committed states h of a source: each entry replays on the *)
(* state before it to the state after it.                                  *)
Faithful(q, h) ==
  /\ q \in Seq(Entry) /\ h \in Seq(StoreState) /\ Len(h) = Len(q)
  /\ \A i \in 1..Len(q) :
       /\ q[i].seq = i
       /\ Replay(StateAt(h, i - 1), q[i]) \in {None, h[i]}
       /\ NotRefused(Replay(StateAt(h, i - 1), q[i]))

(* Replica r has applied a prefix of q and holds its uncompacted end. *)
Follows(r, q, h) ==
  /\ r.seq \in 0..Len(q)
  /\ r.state = StateAt(h, r.seq)
  /\ r.compacted \in 0..r.seq
  /\ r.log \in Seq(Entry)
  /\ Len(r.log) = r.seq - r.compacted
  /\ \A j \in 1..Len(r.log) : r.log[j] = q[r.compacted + j]

ReplicaInv ==
  /\ Inv /\ CapacityInv /\ ReplayInv
  /\ Faithful(sent, history)
  /\ lastSeq = Len(sent) /\ store = StateAt(history, lastSeq)
  /\ Follows(replica, sent, history)

(* A new backend. *)
LEMMA InitReplay == Init => ReplayInv
<1> SUFFICES ASSUME Init PROVE ReplayInv
  OBVIOUS
<1>1. /\ store = EmptyStore /\ staged = EmptyStore /\ phase = "idle"
  BY DEF Init
<1>2. \A k \in Keys : EmptyStore.leases[k] = None
  BY DEF EmptyStore
<1> QED BY <1>1, <1>2 DEF ReplayInv, CredsIssued

(* Every step of a command keeps the replay with it. *)
LEMMA NextReplay == Inv /\ CapacityInv /\ ReplayInv /\ [Next]_vars => ReplayInv'
<1>1. ASSUME ReplayInv, UNCHANGED vars PROVE ReplayInv'
  BY <1>1, RefuseReplayed DEF vars
<1> QED BY <1>1, LeaseReplayed, DataReplayed, BatchReplayed, FinalizeReplayed
        DEF Next

(* Only a commit takes a sequence number. *)
LEMMA SequenceSteps ==
  ASSUME [Next]_vars
  PROVE  UNCHANGED <<store, lastSeq>> \/ Commit
BY DEF Next, LeaseStep, DataStep, BatchStep, FinalizeStep, Acquire, Renew,
       Release, Get, CompareAndSet, DeleteFenced, RefreshTtl, BatchStart,
       BatchCas, BatchDelete, BatchRefresh, BatchGet, BatchEnd, BatchChild,
       RetireDeadKey, RotateForCapacity, Stage, Refuse, vars

(* A new replica has applied nothing. *)
LEMMA EmptyReplicaFollows ==
  ASSUME NEW q, NEW h, Faithful(q, h)
  PROVE  Follows(EmptyReplica, q, h)
<1>1. Len(q) \in Nat
  BY DEF Faithful
<1>2. <<>> \in Seq(Entry) /\ Len(<<>>) = 0
  OBVIOUS
<1> QED BY <1>1, <1>2 DEF Follows, EmptyReplica, StateAt

(* A commit extends the entries and the states alike. *)
LEMMA SourceExtends ==
  ASSUME NEW q, NEW h, Faithful(q, h), NEW e \in Entry, NEW s \in StoreState,
         e.seq = Len(q) + 1,
         Replay(StateAt(h, Len(q)), e) \in {None, s},
         NotRefused(Replay(StateAt(h, Len(q)), e)), NEW r, Follows(r, q, h)
  PROVE  /\ Faithful(Append(q, e), Append(h, s))
         /\ Follows(r, Append(q, e), Append(h, s))
         /\ StateAt(Append(h, s), Len(q) + 1) = s
<1>1. PICK n : n = Len(q)
  OBVIOUS
<1>2. n \in Nat /\ q \in Seq(Entry) /\ h \in Seq(StoreState) /\ Len(h) = n
  BY <1>1 DEF Faithful
<1>3. PICK p : p = Append(q, e)
  OBVIOUS
<1>4. PICK g : g = Append(h, s)
  OBVIOUS
<1>5. /\ p \in Seq(Entry) /\ Len(p) = n + 1 /\ p[n + 1] = e
      /\ \A i \in 1..n : p[i] = q[i]
  BY <1>1, <1>2, <1>3
<1>6. /\ g \in Seq(StoreState) /\ Len(g) = n + 1 /\ g[n + 1] = s
      /\ \A i \in 1..n : g[i] = h[i]
  BY <1>2, <1>4
<1>7. \A i \in 0..n : StateAt(g, i) = StateAt(h, i)
  BY <1>2, <1>6 DEF StateAt
<1>8. Faithful(p, g)
  <2> SUFFICES ASSUME NEW i \in 1..(n + 1)
               PROVE  /\ p[i].seq = i
                      /\ Replay(StateAt(g, i - 1), p[i]) \in {None, g[i]}
                      /\ NotRefused(Replay(StateAt(g, i - 1), p[i]))
    BY <1>5, <1>6 DEF Faithful
  <2>1. CASE i = n + 1
    <3>1. i - 1 = n /\ n \in 0..n
      BY <1>2, <2>1
    <3> QED BY <1>1, <1>5, <1>6, <1>7, <2>1, <3>1
  <2>2. CASE i # n + 1
    <3>1. i \in 1..n /\ i - 1 \in 0..n
      BY <1>2, <2>2
    <3>2. /\ q[i].seq = i
          /\ Replay(StateAt(h, i - 1), q[i]) \in {None, h[i]}
          /\ NotRefused(Replay(StateAt(h, i - 1), q[i]))
      BY <1>1, <3>1 DEF Faithful
    <3> QED BY <1>5, <1>6, <1>7, <3>1, <3>2
  <2> QED BY <2>1, <2>2
<1>9. Follows(r, p, g)
  <2>1. /\ r.seq \in 0..n /\ r.state = StateAt(h, r.seq)
        /\ r.compacted \in 0..r.seq /\ r.log \in Seq(Entry)
        /\ Len(r.log) = r.seq - r.compacted
        /\ \A j \in 1..Len(r.log) : r.log[j] = q[r.compacted + j]
    BY <1>1 DEF Follows
  <2>2. r.seq \in 0..(n + 1) /\ r.state = StateAt(g, r.seq)
    BY <1>2, <1>7, <2>1
  <2>3. ASSUME NEW j \in 1..Len(r.log)
        PROVE  r.log[j] = p[r.compacted + j]
    <3>1. r.compacted + j \in 1..n
      BY <1>2, <2>1, <2>3
    <3> QED BY <1>5, <2>1, <3>1
  <2> QED BY <1>5, <2>1, <2>2, <2>3 DEF Follows
<1>10. StateAt(g, n + 1) = s
  BY <1>2, <1>6 DEF StateAt
<1> QED BY <1>1, <1>3, <1>4, <1>8, <1>9, <1>10

(* An accepted entry takes the replica to the source's next state, and the *)
(* compaction of its log drops exactly the entries it counts as compacted. *)
LEMMA ReplicaExtends ==
  ASSUME NEW q, NEW h, Faithful(q, h), NEW r, Follows(r, q, h),
         r.seq < Len(q), Replay(r.state, q[r.seq + 1]) # None
  PROVE  /\ Follows(Extended(r, q[r.seq + 1]), q, h)
         /\ Extended(r, q[r.seq + 1]).seq = r.seq + 1
<1>1. PICK n, c, L, M : /\ n = r.seq + 1 /\ c = r.compacted /\ L = Len(r.log)
                        /\ M = MaxReplicationEntries
  OBVIOUS
<1>2. /\ n \in 1..Len(q) /\ r.seq = n - 1 /\ c \in Nat /\ c <= n - 1
      /\ L = n - 1 - c /\ L \in Nat /\ M \in Nat /\ Len(q) \in Nat
      /\ r.log \in Seq(Entry) /\ r.state = StateAt(h, n - 1)
      /\ \A j \in 1..L : r.log[j] = q[c + j]
  BY <1>1, LimitsAssumption DEF Follows, Faithful
<1>3. PICK e : e = q[n]
  OBVIOUS
<1>4. /\ e \in Entry /\ e.seq = n /\ Replay(r.state, e) = h[n]
      /\ \A i \in 1..Len(q) : q[i].seq = i
  <2>1. /\ q \in Seq(Entry)
        /\ \A i \in 1..Len(q) :
             q[i].seq = i /\ Replay(StateAt(h, i - 1), q[i]) \in {None, h[i]}
    BY DEF Faithful
  <2>2. e \in Entry /\ e.seq = n
    BY <1>2, <1>3, <2>1
  <2>3. Replay(r.state, e) \in {None, h[n]} /\ Replay(r.state, e) # None
    BY <1>1, <1>2, <1>3, <2>1
  <2> QED BY <2>1, <2>2, <2>3
<1>5. PICK entries : entries = Append(r.log, e)
  OBVIOUS
<1>6. /\ entries \in Seq(Entry) /\ Len(entries) = L + 1
      /\ \A j \in 1..(L + 1) : entries[j] = q[c + j]
  <2>1. /\ entries \in Seq(Entry) /\ Len(entries) = L + 1 /\ entries[L + 1] = e
        /\ \A j \in 1..L : entries[j] = r.log[j]
    <3>1. PICK l : l = r.log
      OBVIOUS
    <3>2. l \in Seq(Entry) /\ Len(l) = L /\ entries = Append(l, e)
      BY <1>1, <1>2, <1>5, <3>1
    <3>3. /\ entries \in Seq(Entry) /\ Len(entries) = L + 1 /\ entries[L + 1] = e
          /\ \A j \in 1..L : entries[j] = l[j]
      BY <1>4, <3>2
    <3> QED BY <3>1, <3>3
  <2>2. q[c + (L + 1)] = e
    BY <1>2, <1>3
  <2>3. ASSUME NEW j \in 1..(L + 1) PROVE entries[j] = q[c + j]
    <3>1. CASE j = L + 1
      BY <2>1, <2>2, <3>1
    <3>2. CASE j # L + 1
      <4>1. j \in 1..L
        BY <1>2, <3>2
      <4> QED BY <1>2, <2>1, <4>1
    <3> QED BY <3>1, <3>2
  <2> QED BY <2>1, <2>3
<1>7. PICK over : over = L + 1 - M
  OBVIOUS
<1>8. PICK x : x = Extended(r, e)
  OBVIOUS
<1>9. /\ x.state = h[n] /\ x.seq = n /\ x.log = Compact(entries)
      /\ x.compacted = IF over <= 0 THEN c ELSE MaxOf(c, entries[over].seq)
  <2>1. Len(Append(r.log, e)) - MaxReplicationEntries = over
    BY <1>1, <1>2, <1>5, <1>6, <1>7
  <2>2. x = [state |-> Replay(r.state, e), seq |-> e.seq, log |-> Compact(entries),
             compacted |-> IF over <= 0 THEN r.compacted
                           ELSE MaxOf(r.compacted, entries[over].seq)]
    BY <1>5, <1>8, <2>1 DEF Extended
  <2> QED BY <1>1, <1>4, <2>2
<1>10. x.state = StateAt(h, n)
  BY <1>2, <1>9 DEF StateAt
<1>11. /\ x.compacted \in 0..n /\ x.log \in Seq(Entry)
       /\ Len(x.log) = n - x.compacted
       /\ \A j \in 1..Len(x.log) : x.log[j] = q[x.compacted + j]
  <2>1. CASE over <= 0
    <3>1. L + 1 <= M
      BY <1>2, <1>7, <2>1
    <3>2. x.log = entries /\ x.compacted = c
      BY <1>1, <1>6, <1>9, <2>1, <3>1 DEF Compact
    <3> QED BY <1>2, <1>6, <3>2
  <2>2. CASE ~(over <= 0)
    <3>1. over \in 1..(L + 1) /\ ~(L + 1 <= M)
      BY <1>2, <1>7, <2>2
    <3>2. c + over \in 1..Len(q) /\ c + over <= n
      BY <1>2, <3>1
    <3>3. entries[over].seq = c + over
      BY <1>4, <1>6, <3>1, <3>2
    <3>4. MaxOf(c, c + over) = c + over
      BY <1>2, <3>1 DEF MaxOf
    <3>5. x.compacted = c + over
      BY <1>9, <2>2, <3>3, <3>4
    <3>6. x.log = SubSeq(entries, over + 1, L + 1)
      <4>1. Len(entries) = L + 1 /\ ~(Len(entries) <= MaxReplicationEntries)
            /\ Len(entries) - MaxReplicationEntries + 1 = over + 1
        BY <1>1, <1>2, <1>6, <1>7, <3>1
      <4> QED BY <1>9, <4>1 DEF Compact
    <3>7. /\ x.log \in Seq(Entry) /\ Len(x.log) = L + 1 - over
          /\ \A j \in 1..(L + 1 - over) : x.log[j] = entries[over + j]
      <4>1. \A i \in (over + 1)..(L + 1) : entries[i] \in Entry
        BY <1>2, <1>6, <3>1
      <4> QED BY <1>2, <1>6, <3>1, <3>6, <4>1
    <3>8. L + 1 - over = n - x.compacted
      BY <1>2, <3>1, <3>5
    <3>9. ASSUME NEW j \in 1..Len(x.log)
          PROVE  x.log[j] = q[x.compacted + j]
      <4>1. /\ x.log[j] = entries[over + j] /\ over + j \in 1..(L + 1)
            /\ c + (over + j) = x.compacted + j
        BY <1>2, <3>1, <3>5, <3>7, <3>9
      <4> QED BY <1>6, <4>1
    <3> QED BY <1>2, <3>2, <3>5, <3>7, <3>8, <3>9
  <2> QED BY <2>1, <2>2
<1>12. n \in 0..Len(q)
  BY <1>2
<1>13. Follows(x, q, h)
  BY <1>9, <1>10, <1>11, <1>12 DEF Follows
<1> QED BY <1>1, <1>3, <1>8, <1>9, <1>13

(* A rebuild from any prefix ends in a replica that has applied it. *)
LEMMA RebuiltFollows ==
  ASSUME Faithful(sent, history), NEW n \in 0..Len(sent), Rebuilt(n) # None
  PROVE  Follows(Rebuilt(n), sent, history)
<1> DEFINE At(i) == /\ Follows(Rebuilt(i), sent, history)
                    /\ Rebuilt(i).seq = i
           T == {i \in Nat : i <= Len(sent) => Rebuilt(i) = None \/ At(i)}
<1>1. Len(sent) \in Nat
  BY DEF Faithful
<1>2. 0 \in T
  <2>1. Rebuilt(0) = EmptyReplica
    BY RebuiltSteps
  <2>2. EmptyReplica.seq = 0
    BY DEF EmptyReplica
  <2> QED BY <2>1, <2>2, EmptyReplicaFollows
<1>3. ASSUME NEW i \in Nat, i \in T PROVE i + 1 \in T
  <2> SUFFICES ASSUME i + 1 <= Len(sent), Rebuilt(i + 1) # None PROVE At(i + 1)
    BY <1>3
  <2>1. PICK r : r = Rebuilt(i)
    OBVIOUS
  <2>2. Rebuilt(i + 1) = RebuildStep(r, sent[i + 1])
    BY <2>1, RebuiltSteps
  <2>3. /\ r # None /\ Replay(r.state, sent[i + 1]) # None
        /\ Rebuilt(i + 1) = Extended(r, sent[i + 1])
    BY <2>2 DEF RebuildStep
  <2>4. i <= Len(sent) /\ i < Len(sent)
    BY <1>1
  <2>5. Follows(r, sent, history) /\ r.seq = i
    BY <1>3, <2>1, <2>3, <2>4
  <2> QED BY <2>3, <2>4, <2>5, ReplicaExtends
<1>4. n \in T
  <2> HIDE DEF T
  <2>1. Nat \subseteq T
    BY <1>2, <1>3, SetInduction
  <2> QED BY <1>1, <2>1
<1> QED BY <1>1, <1>4

(* Commits, deliveries and rebuilds in any order. *)
LEMMA ReplNextKeeps ==
  ReplicaInv /\ [ReplNext]_<<vars, replVars>> => ReplicaInv'
<1> SUFFICES ASSUME ReplicaInv, [ReplNext]_<<vars, replVars>>
             PROVE  ReplicaInv'
  OBVIOUS
<1>1. /\ Inv /\ CapacityInv /\ ReplayInv /\ Faithful(sent, history)
      /\ lastSeq = Len(sent) /\ store = StateAt(history, lastSeq)
      /\ Follows(replica, sent, history)
  BY DEF ReplicaInv
<1>2. [Next]_vars
  BY DEF ReplNext, SourceStep, ReplicateNext, Rebuild
<1>3. Inv' /\ CapacityInv' /\ ReplayInv'
  BY <1>1, <1>2, NextKeeps, NextCapacity, NextReplay
<1>4. ASSUME UNCHANGED <<store, lastSeq, sent, history>>,
             Follows(replica', sent, history)
      PROVE  ReplicaInv'
  BY <1>1, <1>3, <1>4 DEF ReplicaInv
<1>5. CASE SourceStep
  <2>1. CASE lastSeq' = lastSeq
    <3>1. UNCHANGED <<replica, sent, history>>
      BY <1>5, <2>1 DEF SourceStep
    <3>2. ~Commit
      <4>1. lastSeq \in Nat
        BY <1>1 DEF Inv, TypeOK
      <4> QED BY <2>1, <4>1 DEF Commit
    <3>3. store' = store
      BY <1>2, <3>2, SequenceSteps
    <3> QED BY <1>1, <1>4, <2>1, <3>1, <3>3
  <2>2. CASE lastSeq' # lastSeq
    <3>1. Commit
      BY <1>2, <2>2, SequenceSteps
    <3>2. PICK e : e = [seq |-> lastSeq + 1, op |-> cmd.op, time |-> cmd.now,
                        rotations |-> cmd.rotations]
      OBVIOUS
    <3>3. /\ sent' = Append(sent, e) /\ history' = Append(history, store')
          /\ replica' = replica
      BY <1>5, <2>2, <3>2 DEF SourceStep
    <3>4. e \in Entry /\ e.seq = Len(sent) + 1
      BY <1>1, <3>2 DEF Inv, TypeOK, Command, Entry
    <3>5. Replay(store, e) \in {None, store'} /\ NotRefused(Replay(store, e))
      BY <1>1, <3>1, <3>2, CommitReplayed
    <3>6. store' \in StoreState
      BY <1>3 DEF Inv, TypeOK
    <3>7. /\ Faithful(sent', history') /\ Follows(replica', sent', history')
          /\ StateAt(history', Len(sent) + 1) = store'
      BY <1>1, <3>3, <3>4, <3>5, <3>6, SourceExtends
    <3>8. lastSeq' = Len(sent) + 1 /\ Len(sent') = Len(sent) + 1
      BY <1>1, <3>1, <3>3 DEF Commit, Faithful
    <3> QED BY <1>3, <3>7, <3>8 DEF ReplicaInv
  <2> QED BY <2>1, <2>2
<1>6. CASE ReplicateNext
  <2>1. PICK e : e = sent[replica.seq + 1]
    OBVIOUS
  <2>2. /\ replica.seq < Len(sent) /\ UNCHANGED <<store, lastSeq, sent, history>>
        /\ replica' = IF Replay(replica.state, e) = None THEN replica
                      ELSE Extended(replica, e)
    BY <1>6, <2>1 DEF ReplicateNext, vars
  <2>3. Follows(replica', sent, history)
    BY <1>1, <2>1, <2>2, ReplicaExtends
  <2> QED BY <1>4, <2>2, <2>3
<1>7. ASSUME NEW n \in 0..Len(sent), Rebuild(n)
      PROVE  ReplicaInv'
  <2>1. /\ UNCHANGED <<store, lastSeq, sent, history>>
        /\ replica' = IF Rebuilt(n) = None THEN replica ELSE Rebuilt(n)
    BY <1>7 DEF Rebuild, vars
  <2>2. Follows(replica', sent, history)
    BY <1>1, <2>1, RebuiltFollows
  <2> QED BY <1>4, <2>1, <2>2
<1>8. CASE UNCHANGED <<vars, replVars>>
  BY <1>1, <1>4, <1>8 DEF vars, replVars
<1> QED BY <1>5, <1>6, <1>7, <1>8 DEF ReplNext

(* The source of a replicated store is a session store: what is proved of  *)
(* Spec holds of it.                                                       *)
THEOREM SourceIsStore == ReplSpec => Spec
<1>1. ReplInit => Init
  BY DEF ReplInit
<1>2. [ReplNext]_<<vars, replVars>> => [Next]_vars
  BY DEF ReplNext, SourceStep, ReplicateNext, Rebuild
<1> QED BY <1>1, <1>2, PTL DEF ReplSpec, Spec

(* Every reachable state of source and replica satisfies the invariant. *)
LEMMA ReplicaInvariance == ReplSpec => []ReplicaInv
<1>1. ReplInit => ReplicaInv
  <2> SUFFICES ASSUME ReplInit PROVE ReplicaInv
    OBVIOUS
  <2>1. Inv /\ CapacityInv /\ ReplayInv
    BY InitInv, InitCapacity, InitReplay DEF ReplInit
  <2>2. /\ sent = <<>> /\ history = <<>> /\ replica = EmptyReplica
        /\ lastSeq = 0 /\ store = EmptyStore
    BY DEF ReplInit, Init
  <2>3. Faithful(sent, history)
    BY <2>2 DEF Faithful
  <2>4. Follows(replica, sent, history)
    BY <2>2, <2>3, EmptyReplicaFollows
  <2> QED BY <2>1, <2>2, <2>3, <2>4 DEF ReplicaInv, StateAt
<1>2. ReplicaInv /\ [ReplNext]_<<vars, replVars>> => ReplicaInv'
  BY ReplNextKeeps
<1> QED BY <1>1, <1>2, PTL DEF ReplSpec

(* For every number of keys, threshold, limit and log bound: a replica fed *)
(* entry by entry or rebuilt from the log is, at every sequence, in        *)
(* exactly the state the source committed there, although retirement and   *)
(* threshold rotations are recomputed; and with room for the source's keys *)
(* it accepts the next entry.                                              *)
THEOREM ReplicaIsSource == ReplSpec => []ReplicaFollowsSource
<1>1. ReplicaInv => ReplicaFollowsSource
  <2> SUFFICES ASSUME ReplicaInv PROVE ReplicaFollowsSource
    OBVIOUS
  <2>1. Faithful(sent, history) /\ Follows(replica, sent, history)
    BY DEF ReplicaInv
  <2>2. replica.state = StateAt(history, replica.seq)
    BY <2>1 DEF Follows
  <2>3. ASSUME ReplicaLimit >= MaxTrackedKeys, replica.seq < Len(sent)
        PROVE  Replay(replica.state, sent[replica.seq + 1]) # None
    <3>1. PICK i : i = replica.seq + 1
      OBVIOUS
    <3>2. i \in 1..Len(sent) /\ i - 1 = replica.seq
      BY <2>1, <2>3, <3>1 DEF Follows, Faithful
    <3>3. NotRefused(Replay(StateAt(history, i - 1), sent[i]))
      BY <2>1, <3>2 DEF Faithful
    <3> QED BY <2>2, <2>3, <3>1, <3>2, <3>3 DEF NotRefused
  <2> QED BY <2>2, <2>3 DEF ReplicaFollowsSource, StateAt
<1> QED BY <1>1, ReplicaInvariance, PTL

(* An entry delivered again is recognised as a duplicate, in the log or    *)
(* below the compaction point, whatever the log bound.                     *)
THEOREM RedeliveryAccepted == ReplSpec => []RedeliveryIdempotent
<1>1. ReplicaInv => RedeliveryIdempotent
  <2> SUFFICES ASSUME ReplicaInv, NEW i \in 1..replica.seq,
                      sent[i].seq > replica.compacted
               PROVE  \E j \in DOMAIN replica.log : replica.log[j] = sent[i]
    BY DEF RedeliveryIdempotent, Divergent
  <2>1. Faithful(sent, history) /\ Follows(replica, sent, history)
    BY DEF ReplicaInv
  <2>2. PICK c : c = replica.compacted
    OBVIOUS
  <2>3. /\ replica.seq \in 0..Len(sent) /\ c \in 0..replica.seq /\ Len(sent) \in Nat
        /\ replica.log \in Seq(Entry) /\ Len(replica.log) = replica.seq - c
        /\ \A j \in 1..Len(replica.log) : replica.log[j] = sent[c + j]
    BY <2>1, <2>2 DEF Follows, Faithful
  <2>4. i \in 1..Len(sent)
    BY <2>3
  <2>5. sent[i].seq = i
    BY <2>1, <2>4 DEF Faithful
  <2>6. i - c \in 1..Len(replica.log) /\ c + (i - c) = i
    BY <2>2, <2>3, <2>5
  <2>7. DOMAIN replica.log = 1..Len(replica.log)
    BY <2>3
  <2> QED BY <2>3, <2>6, <2>7
<1> QED BY <1>1, ReplicaInvariance, PTL

=============================================================================
