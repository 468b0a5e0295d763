----------------------------- MODULE ConfigFanout -----------------------------
(***************************************************************************)
(* Change notification of opc-config-bus: the worker publishes a snapshot, *)
(* copies the list of subscribers and puts the event into each bounded     *)
(* queue (commit.rs, fanout), while consumers subscribe, wait in recv,     *)
(* fall behind and drop their receivers (subscribers.rs). A consumer loads *)
(* the snapshot after it has subscribed and after a ResyncRequired, as the *)
(* API asks it to, and otherwise follows the events.                       *)
(***************************************************************************)
EXTENDS Integers, Sequences

CONSTANTS
  Subscribers,
  Options,    \* subscriber options: policy, capacity and byte budget or None
  Sizes,      \* retained sizes a change may have, None when sizing fails
  MarkerSize, \* size_of::<ConfigEvent>
  MaxVersion, \* bound on published versions
  None

Policies == {"DropOldest", "DropNewest", "DisconnectOnLag", "ForceResync"}

ASSUME FanoutAssumption ==
  /\ Options \subseteq [policy : Policies, capacity : Nat \ {0},
                         budget : Nat \cup {None}]
  /\ Sizes \subseteq Nat \cup {None}
  /\ MarkerSize \in Nat
  /\ MaxVersion \in Nat
  /\ None \notin Nat \cup Subscribers

VARIABLES
  running,  \* version of the published snapshot
  listed,   \* the bus's list of subscribers
  fan,      \* the fanout in progress: event, its size, targets left, wake-ups
  queue,    \* per subscriber: options, events, retained_bytes, closed
  permit,   \* tokio Notify: a stored wake-up
  rx,       \* what the consumer is doing
  applied,  \* the version the consumer has applied
  missed    \* the consumer was handed a change that skips a version

vars == <<running, listed, fan, queue, permit, rx, applied, missed>>

NoFan == [stage |-> "none", event |-> None, size |-> 0, todo |-> {},
          wake |-> None]

Events == [kind : {"change", "resync"}, version : 0..MaxVersion]
Queues == [options : Options, events : Seq([event : Events, bytes : Nat]),
           bytes : Nat, closed : BOOLEAN]

Change(v) == [kind |-> "change", version |-> v]
Resync(v) == [kind |-> "resync", version |-> v]

-----------------------------------------------------------------------------
(* The queue (SubscriberState).                                            *)

NewQueue(options) ==
  [options |-> options, events |-> <<>>, bytes |-> 0, closed |-> FALSE]

(* What the queued events are charged together. *)
Charge(events) ==
  LET sum[i \in 0..Len(events)] ==
        IF i = 0 THEN 0 ELSE sum[i - 1] + events[i].bytes
  IN sum[Len(events)]

Pushed(q, event, bytes) ==
  [q EXCEPT !.events = Append(@, [event |-> event, bytes |-> bytes]),
            !.bytes = @ + bytes]

Popped(q) == [q EXCEPT !.events = Tail(@),
                       !.bytes = @ - Head(q.events).bytes]

Emptied(q) == [q EXCEPT !.events = <<>>, !.bytes = 0]

(* Room left in the byte budget (saturating_sub). *)
Fits(q, bytes) ==
  q.options.budget # None => bytes <= q.options.budget - q.bytes

(* Mutant: the incoming event is compared with the whole budget. *)
HasRoomAlone(q, bytes) ==
  /\ Len(q.events) < q.options.capacity
  /\ q.options.budget # None => bytes <= q.options.budget

HasRoom(q, bytes) == Len(q.events) < q.options.capacity /\ Fits(q, bytes)

(* Without the oldest k events. *)
Dropped(q, k) ==
  [q EXCEPT !.events = SubSeq(@, k + 1, Len(@)),
            !.bytes = @ - Charge(SubSeq(q.events, 1, k))]

(* Mutant: nothing is evicted. *)
TrimmedNothing(q, bytes) == q

(* DropOldest: the longest suffix of the queue that leaves room. *)
Trimmed(q, bytes) ==
  LET enough == {k \in 0..Len(q.events) : HasRoom(Dropped(q, k), bytes)}
  IN IF enough = {} THEN q
     ELSE Dropped(q, CHOOSE k \in enough : \A j \in enough : k <= j)

(* Mutant: the backlog is dropped without a marker. *)
ResyncedSilently(q, version) == Emptied(q)

(* Replaces the backlog by a marker, or closes if the marker is too large. *)
Resynced(q, version) ==
  LET budget == q.options.budget
      bytes == IF budget = None THEN 0 ELSE MarkerSize
  IN IF budget = None \/ bytes <= budget
     THEN Pushed(Emptied(q), Resync(version), bytes)
     ELSE [Emptied(q) EXCEPT !.closed = TRUE]

(* enqueue_with_retained_size. A size of None is a sizing failure, which   *)
(* concerns only a subscriber with a budget.                               *)
Enqueued(q, event, size) ==
  LET budget == q.options.budget
      sized == budget = None \/ size # None
      bytes == IF budget = None \/ size = None THEN 0 ELSE size
  IN CASE q.closed -> q
       [] ~q.closed /\ sized /\ HasRoom(q, bytes) -> Pushed(q, event, bytes)
       [] OTHER ->
            CASE q.options.policy = "DropOldest" ->
                   LET trimmed == Trimmed(q, bytes)
                   IN IF sized /\ HasRoom(trimmed, bytes)
                      THEN Pushed(trimmed, event, bytes) ELSE q
              [] q.options.policy = "DropNewest" -> q
              [] q.options.policy = "DisconnectOnLag" -> [q EXCEPT !.closed = TRUE]
              [] q.options.policy = "ForceResync" -> Resynced(q, event.version)

(* force_resync *)
Forced(q, version) == IF q.closed THEN q ELSE Resynced(q, version)

(* Notify::notify_one wakes a parked waiter or stores a permit. *)
Notified(s) ==
  IF rx[s] = "parked"
  THEN rx' = [rx EXCEPT ![s] = "recv"] /\ UNCHANGED permit
  ELSE permit' = [permit EXCEPT ![s] = TRUE] /\ UNCHANGED rx

-----------------------------------------------------------------------------
(* The worker.                                                             *)

(* A commit, rollback or expiry publishes its snapshot, then fans out. *)
PublishChange(size) ==
  /\ fan.stage = "none"
  /\ running < MaxVersion
  /\ running' = running + 1
  /\ fan' = [NoFan EXCEPT !.stage = "list", !.event = Change(running + 1),
                          !.size = size]
  /\ UNCHANGED <<listed, queue, permit, rx, applied, missed>>

(* A reconciliation publishes a head that may be any later version. *)
PublishRebuilt(version) ==
  /\ fan.stage = "none"
  /\ version >= running
  /\ running' = version
  /\ fan' = [NoFan EXCEPT !.stage = "list", !.event = Resync(version)]
  /\ UNCHANGED <<listed, queue, permit, rx, applied, missed>>

(* The closed subscribers are pruned and the list is copied. *)
ListSubscribers ==
  LET open == {s \in listed : ~queue[s].closed}
  IN /\ fan.stage = "list"
     /\ listed' = open
     /\ fan' = IF open = {} THEN NoFan
               ELSE [fan EXCEPT !.stage = "deliver", !.todo = open]
     /\ UNCHANGED <<running, queue, permit, rx, applied, missed>>

(* Mutant: an event that does not change the queue wakes nobody. *)
WakesOnPush(s, after) == Len(after.events) > Len(queue[s].events)

(* The queue's Notify is called after a push or a closing. DropNewest, a   *)
(* dropped event and a queue that was closed already wake nobody.          *)
Wakes(s, after) ==
  \/ after # queue[s]
  \/ fan.event.kind = "resync" /\ ~queue[s].closed

Deliver(s) ==
  LET after == IF fan.event.kind = "change"
               THEN Enqueued(queue[s], fan.event, fan.size)
               ELSE Forced(queue[s], fan.event.version)
      left == fan.todo \ {s}
  IN /\ fan.stage = "deliver"
     /\ s \in fan.todo
     /\ fan.wake = None
     /\ queue' = [queue EXCEPT ![s] = after]
     /\ fan' = IF Wakes(s, after)
               THEN [fan EXCEPT !.todo = left, !.wake = s]
               ELSE IF left = {} THEN NoFan ELSE [fan EXCEPT !.todo = left]
     /\ UNCHANGED <<running, listed, permit, rx, applied, missed>>

(* The wake-up follows after the queue's mutex is released. *)
Wake ==
  /\ fan.wake # None
  /\ Notified(fan.wake)
  /\ fan' = IF fan.todo = {} THEN NoFan ELSE [fan EXCEPT !.wake = None]
  /\ UNCHANGED <<running, listed, queue, applied, missed>>

-----------------------------------------------------------------------------
(* The consumers.                                                          *)

Subscribe(s, options) ==
  /\ rx[s] = "none"
  /\ listed' = listed \cup {s}
  /\ queue' = [queue EXCEPT ![s] = NewQueue(options)]
  /\ rx' = [rx EXCEPT ![s] = "load"]
  /\ UNCHANGED <<running, fan, permit, applied, missed>>

LoadSnapshot(s) ==
  /\ rx[s] = "load"
  /\ applied' = [applied EXCEPT ![s] = running]
  /\ rx' = [rx EXCEPT ![s] = "recv"]
  /\ UNCHANGED <<running, listed, fan, queue, permit, missed>>

(* recv pops an event. A change at or below the applied version is old     *)
(* news; after a marker the consumer loads the snapshot.                   *)
Receive(s) ==
  LET event == Head(queue[s].events).event
  IN /\ rx[s] = "recv"
     /\ queue[s].events # <<>>
     /\ queue' = [queue EXCEPT ![s] = Popped(queue[s])]
     /\ \/ /\ event.kind = "resync"
           /\ rx' = [rx EXCEPT ![s] = "load"]
           /\ UNCHANGED <<applied, missed>>
        \/ /\ event.kind = "change"
           /\ applied' = [applied EXCEPT ![s] =
                            IF event.version > @ THEN event.version ELSE @]
           /\ missed' = IF event.version > applied[s] + 1
                        THEN missed \cup {s} ELSE missed
           /\ UNCHANGED rx
     /\ UNCHANGED <<running, listed, fan, permit>>

(* The queue was empty: recv looks at the closed flag ... *)
FindEmpty(s) ==
  /\ rx[s] = "recv"
  /\ queue[s].events = <<>>
  /\ rx' = [rx EXCEPT ![s] = "empty"]
  /\ UNCHANGED <<running, listed, fan, queue, permit, applied, missed>>

(* ... returns None if it is set, otherwise takes a stored wake-up or      *)
(* waits.                                                                  *)
CheckClosed(s) ==
  /\ rx[s] = "empty"
  /\ rx' = [rx EXCEPT ![s] = IF queue[s].closed THEN "closed" ELSE "await"]
  /\ UNCHANGED <<running, listed, fan, queue, permit, applied, missed>>

Await(s) ==
  /\ rx[s] = "await"
  /\ rx' = [rx EXCEPT ![s] = IF permit[s] THEN "recv" ELSE "parked"]
  /\ permit' = [permit EXCEPT ![s] = FALSE]
  /\ UNCHANGED <<running, listed, fan, queue, applied, missed>>

(* Dropping the receiver closes the queue and discards it. *)
DropReceiver(s) ==
  /\ rx[s] \notin {"none", "dropped"}
  /\ rx' = [rx EXCEPT ![s] = "dropped"]
  /\ queue' = [queue EXCEPT ![s] = [Emptied(@) EXCEPT !.closed = TRUE]]
  /\ UNCHANGED <<running, listed, fan, permit, applied, missed>>

-----------------------------------------------------------------------------
Init ==
  /\ running = 0
  /\ listed = {}
  /\ fan = NoFan
  /\ queue = [s \in Subscribers |-> None]
  /\ permit = [s \in Subscribers |-> FALSE]
  /\ rx = [s \in Subscribers |-> "none"]
  /\ applied = [s \in Subscribers |-> 0]
  /\ missed = {}

WorkerStep == ListSubscribers \/ (\E s \in Subscribers : Deliver(s)) \/ Wake

ConsumerStep(s) ==
  LoadSnapshot(s) \/ Receive(s) \/ FindEmpty(s) \/ CheckClosed(s) \/ Await(s)

Next ==
  \/ \E size \in Sizes : PublishChange(size)
  \/ \E version \in 0..MaxVersion : PublishRebuilt(version)
  \/ WorkerStep
  \/ \E s \in Subscribers :
       \/ \E options \in Options : Subscribe(s, options)
       \/ ConsumerStep(s)
       \/ DropReceiver(s)

Spec == Init /\ [][Next]_vars

(* The worker finishes a fanout (it never waits in it) and a consumer      *)
(* keeps calling recv.                                                     *)
Fairness ==
  /\ WF_vars(WorkerStep)
  /\ \A s \in Subscribers : WF_vars(ConsumerStep(s))

FairSpec == Spec /\ Fairness

-----------------------------------------------------------------------------
(* Correctness.                                                            *)

Opened == {s \in Subscribers : rx[s] # "none"}

Returnable(s) == s \in Opened /\ (queue[s].events # <<>> \/ queue[s].closed)

(* Every variable has the shape of the state it stands for. *)
TypeOK ==
  /\ running \in 0..MaxVersion
  /\ listed \subseteq Subscribers
  /\ fan \in [stage : {"none", "list", "deliver"}, event : Events \cup {None},
              size : Nat \cup {None}, todo : SUBSET Subscribers,
              wake : Subscribers \cup {None}]
  /\ queue \in [Subscribers -> Queues \cup {None}]
  /\ \A s \in Opened : queue[s] \in Queues
  /\ permit \in [Subscribers -> BOOLEAN]
  /\ rx \in [Subscribers -> {"none", "load", "recv", "empty", "await",
                             "parked", "closed", "dropped"}]
  /\ applied \in [Subscribers -> 0..MaxVersion]
  /\ missed \subseteq Subscribers

(* A queue stays within its capacity and its byte budget, and the byte     *)
(* count kept beside it is the charge of what is in it, whatever was       *)
(* evicted, cleared or refused. Its events are in the order they were      *)
(* published, and none announces a version that a consumer who reacts to   *)
(* it could not load yet.                                                  *)
QueuesFaithful ==
  \A s \in Opened :
    LET q == queue[s]
        versions == [i \in 1..Len(q.events) |-> q.events[i].event.version]
    IN /\ Len(q.events) <= q.options.capacity
       /\ q.bytes = Charge(q.events)
       /\ q.options.budget # None => q.bytes <= q.options.budget
       /\ \A i, j \in 1..Len(q.events) :
            /\ versions[i] <= running
            /\ i < j /\ q.events[j].event.kind = "change"
                 => versions[i] < versions[j]

(* A consumer that asked to be disconnected or resynchronised is never     *)
(* handed a change that skips one, however slow it is and whenever it      *)
(* subscribed.                                                             *)
NoSilentGap ==
  \A s \in missed : queue[s].options.policy \in {"DropOldest", "DropNewest"}

(* Between fanouts, an open subscriber that has drained its queue is at    *)
(* the bus's version, unless its policy lost the newest event.             *)
DrainedIsCurrent ==
  \A s \in Opened :
    (/\ fan = NoFan
     /\ rx[s] \in {"recv", "empty", "await", "parked"}
     /\ queue[s].events = <<>>
     /\ ~queue[s].closed
     /\ \/ queue[s].options.policy \in {"DisconnectOnLag", "ForceResync"}
        \/ /\ queue[s].options.policy = "DropOldest"
           /\ queue[s].options.budget = None)
    => applied[s] = running

(* No wake-up is lost: whatever a consumer is waiting for in recv, an      *)
(* event or the closing of its subscription, recv returns it.              *)
RecvReturns ==
  \A s \in Subscribers :
    Returnable(s) ~> rx[s] \in {"closed", "dropped"} \/ ~Returnable(s)

=============================================================================
