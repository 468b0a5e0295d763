------------------------------- MODULE SaMirror --------------------------------
(***************************************************************************)
(* The live SA mirror of opc-sa-mirror: an owner mirrors the key material  *)
(* and send counters of its security associations to the memory of a       *)
(* standby (InMemoryStandbyHolder, standby.rs) through a client that       *)
(* retries on transport errors until a deadline (client.rs) and a server   *)
(* with one task per connection (server.rs). When the owner is lost, the   *)
(* standby takes an SA over with its counter moved forward.                *)
(*                                                                         *)
(* The client gives up a connection on any error and at the deadline; a    *)
(* request already written to it may still be served later, by the task of *)
(* that connection, after requests sent on newer connections.              *)
(*                                                                         *)
(* One owner mirrors each SA with one call at a time. Its snapshots of the *)
(* send counter and of the replay watermark grow together and the standby  *)
(* merges both in the same way, so one counter stands for the two.         *)
(***************************************************************************)
EXTENDS Integers, FiniteSetsExt, Functions

CONSTANTS
  SAs,        \* SA identifiers
  EspSAs,     \* those of ESP; the others are IKE SAs
  Capacity,   \* capacity of the standby
  Conns,      \* connections the client gave up with a request still on them
  MaxKeys,    \* bound on the generations of one SA and of all together
  MaxReuses,  \* bound on generations derived without a new epoch
  MaxCount,   \* bound on the counter of one generation
  MaxFaults,  \* bound on abandoned requests, deadlines and standby restarts
  MaxLag,     \* packets an owner may send beyond its last checkpoint
  Jumps,      \* forward jumps attested by the callers of take_for_repin
  Lags,       \* peer receive lags attested by them
  MinJump,    \* MIN_SEND_IV_FORWARD_JUMP
  EsnSpan,    \* 2^31, the span of ESN reconstruction
  IkeEnd,     \* IKE_NORMAL_EXPLICIT_IV_END
  CounterMax  \* u64::MAX

ASSUME MirrorAssumption ==
  /\ EspSAs \subseteq SAs
  /\ Capacity \in Nat \ {0}
  /\ \A n \in {MaxKeys, MaxReuses, MaxCount, MaxFaults, MaxLag, MinJump,
               EsnSpan, IkeEnd, CounterMax} : n \in Nat
  /\ MaxCount > 0
  /\ Jumps \subseteq Nat /\ Lags \subseteq Nat
  /\ \A j \in Jumps : j >= MaxLag

VARIABLES
  held,      \* custody of the standby: SA -> HeldSa or Nothing
  calls,     \* request of the call in progress for each SA, or Nothing
  late,      \* request left on each abandoned connection, or Nothing
  up,        \* SAs established at the owner
  gen,       \* epoch and key of the owner's current generation of each SA
  sent,      \* next counter value of every generation of each SA
  mirrored,  \* last counter of the current generation known to be mirrored
  protected, \* SAs for which the owner claims live-mirror protection
  restarted, \* SAs whose custody a restart wiped since it was last accepted
  withdrawn, \* highest epoch of each SA that a withdrawal was called for
  lost,      \* the owner is gone
  takeovers, \* what take_for_repin first yielded for each SA
  faults

owner == <<up, gen, sent, mirrored, protected, lost>>
vars == <<held, calls, late, owner, restarted, withdrawn, takeovers, faults>>

Nothing == [kind |-> "none"]

Fault == faults < MaxFaults /\ faults' = faults + 1

FirstCount(sa) == IF sa \in EspSAs THEN 1 ELSE 0

-----------------------------------------------------------------------------
(* The standby. Each operator is the custody after a request and the       *)
(* answer to it.                                                           *)

Answer(custody, code) == [custody |-> custody, code |-> code]

HeldSa(r) == [kind |-> "held", epoch |-> r.epoch, key |-> r.key,
              count |-> r.count]

Merged(h, r) == [h EXCEPT !.count = Max({@, r.count})]

Holding == {sa \in SAs : held[sa] # Nothing}

HasRoom(sa) == sa \in Holding \/ Cardinality(Holding) < Capacity

(* Mutant: an install replaces whatever is held. *)
InstallAnyEpoch(r) ==
  IF HasRoom(r.sa)
  THEN Answer([held EXCEPT ![r.sa] = HeldSa(r)], "accepted")
  ELSE Answer(held, "capacity_exhausted")

(* Mutant: an install at capacity evicts another SA. *)
InstallEvicting(r) ==
  Answer([sa \in SAs |-> CASE sa = r.sa -> HeldSa(r)
                           [] sa # r.sa /\ HasRoom(r.sa) -> held[sa]
                           [] OTHER -> Nothing], "accepted")

Install(r) ==
  LET h == held[r.sa] IN
  CASE ~HasRoom(r.sa) -> Answer(held, "capacity_exhausted")
    [] HasRoom(r.sa) /\ h = Nothing ->
         Answer([held EXCEPT ![r.sa] = HeldSa(r)], "accepted")
    [] h # Nothing /\ r.epoch < h.epoch -> Answer(held, "stale_epoch")
    [] h # Nothing /\ r.epoch = h.epoch /\ r.key # h.key ->
         Answer(held, "mirror_conflict")
    [] h # Nothing /\ r.epoch = h.epoch /\ r.key = h.key ->
         Answer([held EXCEPT ![r.sa] = Merged(h, r)], "accepted")
    [] h # Nothing /\ r.epoch > h.epoch ->
         Answer([held EXCEPT ![r.sa] = HeldSa(r)], "accepted")

(* Mutant: a checkpoint without custody is accepted. *)
CheckpointIgnoring(r) ==
  IF held[r.sa] # Nothing /\ r.epoch = held[r.sa].epoch
  THEN Answer([held EXCEPT ![r.sa] = Merged(@, r)], "accepted")
  ELSE Answer(held, "accepted")

Checkpoint(r) ==
  LET h == held[r.sa] IN
  CASE h = Nothing -> Answer(held, "not_found")
    [] h # Nothing /\ r.epoch < h.epoch -> Answer(held, "stale_epoch")
    [] h # Nothing /\ r.epoch > h.epoch -> Answer(held, "not_found")
    [] h # Nothing /\ r.epoch = h.epoch ->
         Answer([held EXCEPT ![r.sa] = Merged(h, r)], "accepted")

Withdraw(r) ==
  IF held[r.sa] # Nothing /\ held[r.sa].epoch <= r.epoch
  THEN Answer([held EXCEPT ![r.sa] = Nothing], "accepted")
  ELSE Answer(held, "accepted")

Serve(r) ==
  CASE r.kind = "install"    -> Install(r)
    [] r.kind = "checkpoint" -> Checkpoint(r)
    [] r.kind = "withdraw"   -> Withdraw(r)

-----------------------------------------------------------------------------
(* The client. A call writes its request on a connection, retries it on    *)
(* new connections after transport errors, and ends with an answer or at   *)
(* the deadline.                                                           *)

(* What the caller makes of the answer: an accepted install is the claim   *)
(* of protection, an accepted checkpoint moves the mirrored counter, a     *)
(* rejection ends the claim.                                               *)
Conclude(r, code) ==
  /\ mirrored' = IF code = "accepted" /\ r.kind # "withdraw"
                 THEN [mirrored EXCEPT ![r.sa] = Max({@, r.count})]
                 ELSE mirrored
  /\ protected' = CASE code # "accepted"   -> protected \ {r.sa}
                    [] code = "accepted" /\ r.kind = "install" ->
                         protected \union {r.sa}
                    [] OTHER -> protected

(* A request is written, served and answered on one connection. *)
Exchange(sa) ==
  /\ calls[sa] # Nothing
  /\ LET r == calls[sa]
         a == Serve(r)
     IN  /\ held' = a.custody
         /\ Conclude(r, a.code)
         /\ restarted' = IF a.custody[sa] # Nothing THEN restarted \ {sa}
                                                    ELSE restarted
  /\ calls' = [calls EXCEPT ![sa] = Nothing]
  /\ UNCHANGED <<late, up, gen, sent, lost, withdrawn, takeovers, faults>>

(* A transport error after the request was written: the connection is      *)
(* dropped with the request on it and the call goes on to retry.           *)
Abandon(sa, c) ==
  /\ calls[sa] # Nothing
  /\ late[c] = Nothing
  /\ Fault
  /\ late' = [late EXCEPT ![c] = calls[sa]]
  /\ UNCHANGED <<held, calls, owner, restarted, withdrawn, takeovers>>

Deadline(sa) ==
  /\ calls[sa] # Nothing
  /\ Fault
  /\ calls' = [calls EXCEPT ![sa] = Nothing]
  /\ UNCHANGED <<held, late, owner, restarted, withdrawn, takeovers>>

(* The task of an abandoned connection reads the request; nobody reads the *)
(* answer.                                                                 *)
ServeLate(c) ==
  /\ late[c] # Nothing
  /\ held' = Serve(late[c]).custody
  /\ restarted' = {sa \in restarted : held'[sa] = Nothing}
  /\ late' = [late EXCEPT ![c] = Nothing]
  /\ UNCHANGED <<calls, owner, withdrawn, takeovers, faults>>

DropLate(c) ==
  /\ late[c] # Nothing
  /\ late' = [late EXCEPT ![c] = Nothing]
  /\ UNCHANGED <<held, calls, owner, restarted, withdrawn, takeovers, faults>>

-----------------------------------------------------------------------------
(* The owner (the network function's IKE layer).                           *)

Request(kind, sa) ==
  [kind |-> kind, sa |-> sa, epoch |-> gen[sa].epoch, key |-> gen[sa].key,
   count |-> sent[sa][gen[sa].key]]

(* The generations of all SAs together. *)
Generations == FoldFunction(LAMBDA g, n : g.key + n, 0, gen)

(* A new SA or a rekey: fresh keys, a fresh counter and the next epoch. *)
Derive(sa, epoch) ==
  /\ ~lost
  /\ calls[sa] = Nothing
  /\ gen[sa].key < MaxKeys
  /\ Generations < MaxKeys
  /\ gen' = [gen EXCEPT ![sa] = [epoch |-> epoch, key |-> @.key + 1]]
  /\ sent' = [sent EXCEPT ![sa][gen[sa].key + 1] = FirstCount(sa)]
  /\ mirrored' = [mirrored EXCEPT ![sa] = FirstCount(sa)]
  /\ up' = up \union {sa}
  /\ protected' = protected \ {sa}
  /\ UNCHANGED <<held, calls, late, restarted, withdrawn, lost, takeovers>>

Rekey(sa) ==
  /\ Derive(sa, gen[sa].epoch + 1)
  /\ UNCHANGED faults

(* A faulty owner derives new keys and keeps the epoch. *)
ReuseEpoch(sa) ==
  /\ sa \in up
  /\ gen[sa].key - gen[sa].epoch < MaxReuses
  /\ Derive(sa, gen[sa].epoch)
  /\ UNCHANGED faults

Call(sa, kind) ==
  /\ ~lost
  /\ calls[sa] = Nothing
  /\ calls' = [calls EXCEPT ![sa] = Request(kind, sa)]

(* mirror_install: for a new generation, after a failed call and after a   *)
(* checkpoint answered not_found.                                          *)
MirrorInstall(sa) ==
  /\ sa \in up \ protected
  /\ Call(sa, "install")
  /\ UNCHANGED <<held, late, owner, restarted, withdrawn, takeovers, faults>>

MirrorCheckpoint(sa) ==
  /\ sa \in up \intersect protected
  /\ Call(sa, "checkpoint")
  /\ UNCHANGED <<held, late, owner, restarted, withdrawn, takeovers, faults>>

(* Teardown; a withdrawal may be called again, for instance after its      *)
(* deadline.                                                               *)
MirrorWithdraw(sa) ==
  /\ gen[sa].epoch > 0
  /\ Call(sa, "withdraw")
  /\ withdrawn' = [withdrawn EXCEPT ![sa] = gen[sa].epoch]
  /\ up' = up \ {sa}
  /\ protected' = protected \ {sa}
  /\ UNCHANGED <<held, late, gen, sent, mirrored, lost, restarted, takeovers,
                 faults>>

SendPacket(sa) ==
  LET k == gen[sa].key IN
  /\ ~lost
  /\ sa \in up
  /\ sent[sa][k] < Min({mirrored[sa] + MaxLag, MaxCount})
  /\ sent' = [sent EXCEPT ![sa][k] = @ + 1]
  /\ UNCHANGED <<held, calls, late, up, gen, mirrored, protected, lost,
                 restarted, withdrawn, takeovers, faults>>

OwnerLost ==
  /\ ~lost
  /\ lost' = TRUE
  /\ calls' = [sa \in SAs |-> Nothing]
  /\ UNCHANGED <<held, late, up, gen, sent, mirrored, protected, restarted,
                 withdrawn, takeovers, faults>>

-----------------------------------------------------------------------------
(* Takeover and restart of the standby.                                    *)

(* SendIvForwardJump::validate_restored_next; a rejected takeover leaves   *)
(* custody as it was.                                                      *)
ValidJump(sa, count, jump, lag) ==
  /\ count + jump <= CounterMax
  /\ jump >= MinJump
  /\ sa \in EspSAs => /\ count >= 1
                      /\ lag <= count - 1
                      /\ jump + 1 + lag <= EsnSpan
  /\ sa \notin EspSAs => count + jump < IkeEnd

(* Custody moves to the caller, with the counter it goes on with. *)
Takeover(sa, next) ==
  /\ lost
  /\ held[sa] # Nothing
  /\ takeovers' = [takeovers EXCEPT ![sa] =
       IF @ = Nothing THEN [held[sa] EXCEPT !.count = next] ELSE @]
  /\ held' = [held EXCEPT ![sa] = Nothing]
  /\ UNCHANGED <<calls, late, owner, restarted, withdrawn, faults>>

(* Mutant: the counter is restored as it was checkpointed. *)
TakeForRepinAtCheckpoint(sa, jump, lag) ==
  /\ Takeover(sa, held[sa].count)
  /\ ValidJump(sa, held[sa].count, jump, lag)

TakeForRepin(sa, jump, lag) ==
  /\ Takeover(sa, held[sa].count + jump)
  /\ ValidJump(sa, held[sa].count, jump, lag)

(* The process of the standby restarts: custody and connections are gone. *)
RestartStandby ==
  /\ Fault
  /\ held' = [sa \in SAs |-> Nothing]
  /\ late' = [c \in Conns |-> Nothing]
  /\ restarted' = restarted \union Holding
  /\ UNCHANGED <<calls, owner, withdrawn, takeovers>>

-----------------------------------------------------------------------------
Init ==
  /\ held = [sa \in SAs |-> Nothing]
  /\ calls = [sa \in SAs |-> Nothing]
  /\ late = [c \in Conns |-> Nothing]
  /\ up = {}
  /\ gen = [sa \in SAs |-> [epoch |-> 0, key |-> 0]]
  /\ sent = [sa \in SAs |-> [k \in 0..MaxKeys |-> 0]]
  /\ mirrored = [sa \in SAs |-> 0]
  /\ protected = {}
  /\ restarted = {}
  /\ withdrawn = [sa \in SAs |-> 0]
  /\ lost = FALSE
  /\ takeovers = [sa \in SAs |-> Nothing]
  /\ faults = 0

Next ==
  \/ \E sa \in SAs : \/ Exchange(sa) \/ Deadline(sa)
                     \/ Rekey(sa) \/ ReuseEpoch(sa)
                     \/ MirrorInstall(sa) \/ MirrorCheckpoint(sa)
                     \/ MirrorWithdraw(sa) \/ SendPacket(sa)
  \/ \E sa \in SAs, c \in Conns : Abandon(sa, c)
  \/ \E c \in Conns : ServeLate(c) \/ DropLate(c)
  \/ \E sa \in SAs, jump \in Jumps, lag \in Lags : TakeForRepin(sa, jump, lag)
  \/ OwnerLost
  \/ RestartStandby

Spec == Init /\ [][Next]_vars

(* A call makes progress (the runtime polls it), and the owner mirrors and *)
(* checkpoints periodically.                                               *)
FairSpec ==
  Spec /\ \A sa \in SAs : /\ WF_vars(Exchange(sa))
                          /\ WF_vars(MirrorInstall(sa))
                          /\ WF_vars(MirrorCheckpoint(sa))

-----------------------------------------------------------------------------
Requests ==
  [kind : {"install", "checkpoint", "withdraw"}, sa : SAs,
   epoch : 1..MaxKeys, key : 1..MaxKeys, count : 0..MaxCount]

HeldSas(max) ==
  [kind : {"held"}, epoch : 1..MaxKeys, key : 1..MaxKeys, count : 0..max]

(* Custody, requests and counters have their types. *)
TypeOK ==
  /\ held \in [SAs -> HeldSas(MaxCount) \union {Nothing}]
  /\ calls \in [SAs -> Requests \union {Nothing}]
  /\ late \in [Conns -> Requests \union {Nothing}]
  /\ up \subseteq SAs /\ protected \subseteq SAs /\ restarted \subseteq SAs
  /\ gen \in [SAs -> [epoch : 0..MaxKeys, key : 0..MaxKeys]]
  /\ sent \in [SAs -> [0..MaxKeys -> 0..MaxCount]]
  /\ mirrored \in [SAs -> 0..MaxCount]
  /\ withdrawn \in [SAs -> 0..MaxKeys]
  /\ lost \in BOOLEAN
  /\ takeovers \in [SAs -> HeldSas(CounterMax) \union {Nothing}]
  /\ faults \in 0..MaxFaults

(* An accepted install means custody (ports.rs: "Ok(()) means the standby  *)
(* holds the keymat"): until a restart of the standby or a takeover, a     *)
(* protected SA is held at exactly the owner's keys and at no counter      *)
(* below the last one acknowledged. Installs, checkpoints and withdrawals  *)
(* of older generations, served late, and other SAs competing for capacity *)
(* never undo it.                                                          *)
ProtectedIsHeld ==
  \A sa \in protected \ restarted :
    takeovers[sa] = Nothing =>
      /\ held[sa] # Nothing
      /\ held[sa].epoch = gen[sa].epoch /\ held[sa].key = gen[sa].key
      /\ held[sa].count >= mirrored[sa]

(* The first takeover of a generation that no withdrawal was called for    *)
(* starts beyond every counter value the lost owner used with those keys,  *)
(* provided the attested jump covers what an owner may send after a        *)
(* checkpoint. A smaller start would repeat an AES-GCM nonce. (A           *)
(* withdrawal vacates the entry, and an install that was delayed on an     *)
(* abandoned connection may then bring back an old counter.)               *)
NoNonceReuse ==
  \A sa \in SAs :
    takeovers[sa] # Nothing =>
      LET t == takeovers[sa] IN
      t.epoch > withdrawn[sa] => t.count >= sent[sa][t.key]

(* While a generation stays in custody its keys do not change and its      *)
(* counter does not go back; custody passes only to a higher epoch (RFC    *)
(* 015, 5.3).                                                              *)
CustodyAdvances ==
  [][\A sa \in SAs :
       held[sa] # Nothing /\ held'[sa] # Nothing =>
         \/ held'[sa].epoch > held[sa].epoch
         \/ /\ held'[sa].epoch = held[sa].epoch
            /\ held'[sa].key = held[sa].key
            /\ held'[sa].count >= held[sa].count]_vars

(* After a standby restart the owner's next checkpoint is answered         *)
(* not_found, and the install that follows restores custody (RFC 015,      *)
(* 6.1), unless other SAs have filled the standby meanwhile.               *)
CoverageReturns ==
  \A sa \in SAs :
    (sa \in protected /\ held[sa] = Nothing)
      ~> (held[sa] # Nothing \/ sa \notin up \/ lost \/ ~HasRoom(sa))

=============================================================================
