---------------------------- MODULE FencedLeases ----------------------------
(***************************************************************************)
(* What the SessionLeaseManager and SessionBackend traits of               *)
(* opc-session-store promise together, without staging, key history,       *)
(* counters or log: a key has at most one holder, a holder's fence is      *)
(* newer than every fence issued before it, and a record changes only in   *)
(* the name of the holder or by expiring.                                  *)
(*                                                                         *)
(* Every step happens at a service time that never goes back; whatever has *)
(* expired by then is gone before the step's own effect.                   *)
(***************************************************************************)
EXTENDS Integers

CONSTANTS Keys, Owners, None, Never

VARIABLES
  time,    \* the time of the last step
  lease,   \* the holder of each key: owner, fence and expiry, or None
  record,  \* the record of each key, or None
  issued   \* every fence handed out

leaseVars == <<time, lease, record, issued>>

LeaseAt(k, t) == IF lease[k] # None /\ lease[k].exp <= t THEN None
                 ELSE lease[k]

RecordAt(k, t) ==
  IF record[k] # None /\ record[k].exp # Never /\ record[k].exp <= t THEN None
  ELSE record[k]

TimePasses == time' >= time

(* Nothing but expiry has happened to the leases of keys other than k. *)
OthersKeepLeases(k) ==
  \A other \in Keys \ {k} : lease'[other] = LeaseAt(other, time')

RecordsOnlyExpire == record' = [k \in Keys |-> RecordAt(k, time')]

(* acquire: the key is free, has expired or is the owner's own, and the    *)
(* fence is fresh for all keys.                                            *)
Grant(k, owner) ==
  LET before == LeaseAt(k, time')
  IN /\ before = None \/ before.owner = owner
     /\ lease'[k] # None
     /\ lease'[k].owner = owner
     /\ \A fence \in issued : fence < lease'[k].fence
     /\ issued' = issued \cup {lease'[k].fence}
     /\ OthersKeepLeases(k)
     /\ RecordsOnlyExpire

(* renew: the fence remains the same. *)
Extend(k) ==
  LET before == LeaseAt(k, time')
  IN /\ before # None
     /\ lease'[k] # None
     /\ lease'[k] = [before EXCEPT !.exp = lease'[k].exp]
     /\ OthersKeepLeases(k)
     /\ RecordsOnlyExpire
     /\ UNCHANGED issued

(* release: the fence stays issued. *)
GiveUp(k) ==
  /\ LeaseAt(k, time') # None
  /\ lease'[k] = None
  /\ OthersKeepLeases(k)
  /\ RecordsOnlyExpire
  /\ UNCHANGED issued

(* One mutation or a batch: each record is as it was, is gone, has a new   *)
(* expiry or was written by the holder, and all but the first need one.    *)
Write ==
  /\ lease' = [k \in Keys |-> LeaseAt(k, time')]
  /\ \A k \in Keys :
       \/ record'[k] = RecordAt(k, time')
       \/ /\ LeaseAt(k, time') # None
          /\ \/ record'[k] = None
             \/ /\ record'[k] # None
                /\ record'[k].owner = LeaseAt(k, time').owner
                /\ record'[k].fence = LeaseAt(k, time').fence
             \/ /\ record'[k] # None
                /\ RecordAt(k, time') # None
                /\ record'[k] = [RecordAt(k, time') EXCEPT
                                   !.exp = record'[k].exp]
  /\ UNCHANGED issued

LeaseInit ==
  /\ time = 0
  /\ lease = [k \in Keys |-> None]
  /\ record = [k \in Keys |-> None]
  /\ issued = {}

LeaseNext ==
  /\ TimePasses
  /\ \/ \E k \in Keys : \/ \E owner \in Owners : Grant(k, owner)
                        \/ Extend(k)
                        \/ GiveUp(k)
     \/ Write

LeaseSpec == LeaseInit /\ [][LeaseNext]_leaseVars

=============================================================================
