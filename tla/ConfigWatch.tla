------------------------------ MODULE ConfigWatch ------------------------------
(***************************************************************************)
(* The committed-revision watch of opc-config-bus: watch_committed and     *)
(* recover_from (committed.rs) page the datastore's publication-safe       *)
(* history and wait on its watch channel between pages, while workers      *)
(* append revisions, clear their recovery markers and send the new version *)
(* on the channel (datastore.rs). The mutex of the datastore is released   *)
(* before the send, so the sends of two workers may swap.                  *)
(*                                                                         *)
(* A revision is its version. The datastore refuses an append behind a     *)
(* marked head, so at most the head is marked.                             *)
(***************************************************************************)
EXTENDS Integers, Sequences, FiniteSetsExt

CONSTANTS
  Workers,    \* commit workers over one datastore
  Watchers,   \* consumers of committed revisions
  PageLimit,  \* MAX_CONFIG_HISTORY_PAGE_ENTRIES
  MaxVersion, \* bound on appended versions
  MaxFaults   \* bound on failing clears and page loads

ASSUME WatchAssumption ==
  PageLimit \in Nat \ {0} /\ MaxVersion \in Nat /\ MaxFaults \in Nat

VARIABLES
  head,      \* version of the last record
  visible,   \* version of the last record before the first mark
  worker,    \* what each worker is doing, and with which version
  signal,    \* value of the watch channel committed_version
  watch,     \* per watcher: step of the stream, cursor, backlog, repage flag,
             \* unseen (its channel receiver has an unseen value)
  delivered, \* last revision handed to the consumer
  faults

vars == <<head, visible, worker, signal, watch, delivered, faults>>

Idle == [step |-> "idle", version |-> 0]

Off == [step |-> "off", cursor |-> 0, backlog |-> <<>>, repage |-> FALSE,
        unseen |-> FALSE]

Fault == faults < MaxFaults /\ faults' = faults + 1

-----------------------------------------------------------------------------
(* The workers and the datastore.                                          *)

AppendRecord(w) ==
  /\ worker[w] = Idle
  /\ visible = head
  /\ head < MaxVersion
  /\ head' = head + 1
  /\ worker' = [worker EXCEPT ![w] = [step |-> "clear", version |-> head + 1]]
  /\ UNCHANGED <<visible, signal, watch, delivered, faults>>

(* The marker is cleared under the mutex; a failing clear leaves it. *)
ClearRecord(w) ==
  /\ worker[w].step = "clear"
  /\ \/ /\ visible' = worker[w].version
        /\ worker' = [worker EXCEPT ![w].step = "send"]
        /\ UNCHANGED faults
     \/ /\ Fault
        /\ worker' = [worker EXCEPT ![w] = Idle]
        /\ UNCHANGED visible
  /\ UNCHANGED <<head, signal, watch, delivered>>

(* send_replace, after the mutex is released. *)
Send(w) ==
  /\ worker[w].step = "send"
  /\ signal' = worker[w].version
  /\ watch' = [x \in Watchers |-> [watch[x] EXCEPT !.unseen = TRUE]]
  /\ worker' = [worker EXCEPT ![w] = Idle]
  /\ UNCHANGED <<head, visible, delivered, faults>>

-----------------------------------------------------------------------------
(* The stream of one watcher.                                              *)

(* Mutant: a marked head is part of the history. *)
LoadSinceMarked(after) ==
  [i \in 1..Min({head - after, PageLimit}) |-> after + i]

(* load_since: at most a page of revisions after the cursor. *)
LoadSince(after) ==
  [i \in 1..Min({visible - after, PageLimit}) |-> after + i]

(* watch_committed from a version not above the head. recover_from is the  *)
(* same with the version of the snapshot it has just read.                 *)
Open(x, from) ==
  /\ watch[x].step = "off"
  /\ from <= visible
  /\ watch' = [watch EXCEPT ![x] = [Off EXCEPT !.step = "page",
                                               !.cursor = from]]
  /\ delivered' = [delivered EXCEPT ![x] = from]
  /\ UNCHANGED <<head, visible, worker, signal, faults>>

(* A page, the first or a later one; an error ends the stream. *)
LoadPage(x) ==
  LET page == LoadSince(watch[x].cursor)
  IN /\ watch[x].step = "page"
     /\ \/ /\ watch' = [watch EXCEPT
                          ![x].step = "poll",
                          ![x].backlog = page,
                          ![x].cursor = @ + Len(page),
                          ![x].repage = page # <<>>]
           /\ UNCHANGED faults
        \/ /\ Fault
           /\ watch' = [watch EXCEPT ![x] = [Off EXCEPT !.step = "ended"]]
     /\ UNCHANGED <<head, visible, worker, signal, delivered>>

(* The consumer polls: an entry of the backlog, another page, or a wait. *)
Poll(x) ==
  /\ watch[x].step = "poll"
  /\ \/ /\ watch[x].backlog # <<>>
        /\ delivered' = [delivered EXCEPT ![x] = Head(watch[x].backlog)]
        /\ watch' = [watch EXCEPT ![x].backlog = Tail(@)]
     \/ /\ watch[x].backlog = <<>>
        /\ watch' = [watch EXCEPT ![x].step = IF watch[x].repage THEN "page"
                                              ELSE "subscribe"]
        /\ UNCHANGED delivered
  /\ UNCHANGED <<head, visible, worker, signal, faults>>

(* Mutant: a new receiver waits for a change without looking at the value. *)
SubscribeUnchecked(x) ==
  /\ watch[x].step = "subscribe"
  /\ watch' = [watch EXCEPT ![x].step = "park", ![x].unseen = FALSE]
  /\ UNCHANGED <<head, visible, worker, signal, delivered, faults>>

(* wait_for_committed_change: a new receiver has seen the current value.   *)
Subscribe(x) ==
  /\ watch[x].step = "subscribe"
  /\ watch' = [watch EXCEPT ![x].step = "compare", ![x].unseen = FALSE]
  /\ UNCHANGED <<head, visible, worker, signal, delivered, faults>>

Compare(x) ==
  /\ watch[x].step = "compare"
  /\ watch' = [watch EXCEPT ![x].step = IF signal > watch[x].cursor
                                        THEN "page" ELSE "park"]
  /\ UNCHANGED <<head, visible, worker, signal, delivered, faults>>

(* changed(): waits for an unseen value and marks it seen. *)
Changed(x) ==
  /\ watch[x].step = "park"
  /\ watch[x].unseen
  /\ watch' = [watch EXCEPT ![x].step = "compare", ![x].unseen = FALSE]
  /\ UNCHANGED <<head, visible, worker, signal, delivered, faults>>

-----------------------------------------------------------------------------
(* A restored bus has appended its bootstrap record. *)
Init ==
  /\ head = 0
  /\ visible = 0
  /\ worker = [w \in Workers |-> Idle]
  /\ signal = 0
  /\ watch = [x \in Watchers |-> Off]
  /\ delivered = [x \in Watchers |-> 0]
  /\ faults = 0

WorkerStep(w) == ClearRecord(w) \/ Send(w)
WatchStep(x) ==
  LoadPage(x) \/ Poll(x) \/ Subscribe(x) \/ Compare(x) \/ Changed(x)

Next ==
  \/ \E w \in Workers : AppendRecord(w) \/ WorkerStep(w)
  \/ \E x \in Watchers : \/ \E from \in 0..MaxVersion : Open(x, from)
                         \/ WatchStep(x)

(* Workers finish the commit they began; consumers keep polling. *)
Fairness ==
  /\ \A w \in Workers : WF_vars(WorkerStep(w))
  /\ \A x \in Watchers : WF_vars(WatchStep(x))

Spec == Init /\ [][Next]_vars /\ Fairness

-----------------------------------------------------------------------------
(* Correctness.                                                            *)

Following(x) == watch[x].step \notin {"off", "ended"}

WorkerState == [step : {"idle", "clear", "send"}, version : 0..MaxVersion]

Stream ==
  [step : {"off", "page", "poll", "subscribe", "compare", "park", "ended"},
   cursor : 0..MaxVersion, backlog : Seq(1..MaxVersion),
   repage : BOOLEAN, unseen : BOOLEAN]

(* Every variable has the shape of the state it stands for. *)
TypeOK ==
  /\ head \in 0..MaxVersion
  /\ visible \in 0..MaxVersion
  /\ worker \in [Workers -> WorkerState]
  /\ signal \in 0..MaxVersion
  /\ watch \in [Watchers -> Stream]
  /\ delivered \in [Watchers -> 0..MaxVersion]
  /\ faults \in 0..MaxFaults

(* The revisions of a backlog are the ones that follow a version. *)
Follows(backlog, version) ==
  backlog = [i \in 1..Len(backlog) |-> version + i]

(* A watcher gets every revision in order and without a gap, and never one *)
(* whose recovery marker is still set.                                     *)
GapFree ==
  \A x \in Watchers :
    Following(x) =>
      /\ watch[x].cursor <= visible
      /\ Follows(watch[x].backlog, delivered[x])
      /\ watch[x].cursor = delivered[x] + Len(watch[x].backlog)

(* Every visible revision finally reaches every open stream: the wait      *)
(* between two pages does not sleep through one. The exception is a        *)
(* channel left behind by two workers whose sends swapped: its value is    *)
(* below the visible version until the next commit.                        *)
CatchesUp ==
  <>[](\A x \in Watchers :
         Following(x) => delivered[x] = visible \/ signal < visible)

=============================================================================
