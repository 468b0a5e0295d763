-------------------------- MODULE ConfigWatch_proofs --------------------------
(***************************************************************************)
(* Theorems about ConfigWatch, for any number of workers and watchers and  *)
(* every page size: the stream of a watcher has no gap, repeats nothing    *)
(* and never shows a revision whose recovery marker is set.                *)
(***************************************************************************)
EXTENDS ConfigWatch, SequenceTheorems, TLAPS

(* A stream loads a page, and compares versions, only when it has          *)
(* delivered its backlog.                                                  *)
BacklogDrained ==
  \A x \in Watchers :
    watch[x].step \in {"page", "subscribe", "compare", "park"}
      => watch[x].backlog = <<>>

(* A worker that has appended a record and has not cleared it holds the    *)
(* head, and it is the only one: the datastore refuses appends behind a    *)
(* marked head. What is sent is visible.                                   *)
MarkedHead ==
  /\ visible <= head
  /\ signal <= visible
  /\ \A w \in Workers :
       /\ worker[w].step = "clear" =>
            worker[w].version = head /\ visible < head
       /\ worker[w].step = "send" => worker[w].version <= visible
  /\ \A v, w \in Workers :
       worker[v].step = "clear" /\ worker[w].step = "clear" => v = w

Inv == TypeOK /\ GapFree /\ BacklogDrained /\ MarkedHead

-----------------------------------------------------------------------------
(* Operators.                                                              *)

(* The smaller of two integers. *)
LEMMA MinOfTwo ==
  ASSUME NEW a \in Int, NEW b \in Int
  PROVE  /\ Min({a, b}) \in {a, b}
         /\ Min({a, b}) <= a /\ Min({a, b}) <= b
<1>1. \E m \in {a, b} : \A y \in {a, b} : m <= y
  <2>1. CASE a <= b
    BY <2>1
  <2>2. CASE b <= a
    BY <2>2
  <2> QED BY <2>1, <2>2
<1> QED BY <1>1 DEF Min

(* load_since: a page starts right after the cursor, stays within what is  *)
(* visible and is a sequence of versions.                                  *)
LEMMA PageOfHistory ==
  ASSUME TypeOK, NEW after \in 0..MaxVersion, after <= visible
  PROVE  /\ LoadSince(after) \in Seq(1..MaxVersion)
         /\ after + Len(LoadSince(after)) <= visible
         /\ Follows(LoadSince(after), after)
<1> DEFINE rest == visible - after
           n == Min({rest, PageLimit})
<1>1. rest \in Nat /\ PageLimit \in Nat /\ rest <= visible
  BY WatchAssumption DEF TypeOK
<1> HIDE DEF rest
<1>2. n \in {rest, PageLimit} /\ n <= rest /\ n <= PageLimit
  BY <1>1, MinOfTwo
<1>3. LoadSince(after) = [i \in 1..n |-> after + i]
  BY DEF LoadSince, rest
<1> HIDE DEF n
<1>4. n \in Nat /\ after + n <= visible
  BY <1>1, <1>2 DEF rest, TypeOK
<1>5. \A i \in 1..n : after + i \in 1..MaxVersion
  BY <1>4, WatchAssumption DEF TypeOK
<1>6. LoadSince(after) \in Seq(1..MaxVersion) /\ Len(LoadSince(after)) = n
  BY <1>3, <1>4, <1>5
<1> QED BY <1>3, <1>4, <1>6 DEF Follows

-----------------------------------------------------------------------------
(* The invariant.                                                          *)

LEMMA InitInv == Init => Inv
BY WatchAssumption
   DEF Init, Inv, TypeOK, WorkerState, Stream, GapFree, BacklogDrained,
       MarkedHead, Following, Idle, Off

(* What an action of the workers leaves alone keeps the streams safe; the  *)
(* visible history only grows.                                             *)
LEMMA StreamsKept ==
  ASSUME TypeOK, GapFree, BacklogDrained, TypeOK', visible <= visible',
         UNCHANGED delivered,
         \A x \in Watchers : /\ watch'[x].step = watch[x].step
                             /\ watch'[x].cursor = watch[x].cursor
                             /\ watch'[x].backlog = watch[x].backlog
  PROVE  GapFree' /\ BacklogDrained'
<1>1. GapFree'
  BY DEF GapFree, Following, TypeOK, Stream
<1>2. BacklogDrained'
  BY DEF BacklogDrained
<1> QED BY <1>1, <1>2

(* Appending, clearing and sending under the type invariant. *)
LEMMA AppendRecordKeeps ==
  ASSUME Inv, NEW w \in Workers, AppendRecord(w)
  PROVE  Inv'
<1>1. TypeOK'
  <2>1. worker' \in [Workers -> WorkerState]
    BY WatchAssumption DEF Inv, TypeOK, WorkerState, AppendRecord
  <2> QED BY <2>1, WatchAssumption DEF Inv, TypeOK, AppendRecord
<1>2. MarkedHead'
  BY WatchAssumption DEF Inv, TypeOK, WorkerState, MarkedHead, AppendRecord, Idle
<1>3. GapFree' /\ BacklogDrained'
  BY <1>1, StreamsKept DEF Inv, AppendRecord, TypeOK
<1> QED BY <1>1, <1>2, <1>3 DEF Inv

LEMMA ClearRecordKeeps ==
  ASSUME Inv, NEW w \in Workers, ClearRecord(w)
  PROVE  Inv'
<1>1. worker[w].version = head /\ visible < head /\ worker[w].step = "clear"
  BY DEF Inv, MarkedHead, ClearRecord
<1>2. CASE /\ visible' = worker[w].version
           /\ worker' = [worker EXCEPT ![w].step = "send"]
           /\ UNCHANGED faults
  <2>1. worker' \in [Workers -> WorkerState]
    BY <1>2 DEF Inv, TypeOK, WorkerState
  <2>2. TypeOK'
    BY <1>1, <1>2, <2>1 DEF Inv, TypeOK, ClearRecord
  <2>3. /\ worker'[w].step = "send" /\ worker'[w].version = head
        /\ \A v \in Workers \ {w} : worker'[v] = worker[v]
    BY <1>1, <1>2 DEF Inv, TypeOK, WorkerState
  <2>4. MarkedHead'
    BY <1>1, <1>2, <2>3 DEF Inv, TypeOK, WorkerState, MarkedHead, ClearRecord
  <2>5. GapFree' /\ BacklogDrained'
    BY <1>1, <1>2, <2>2, StreamsKept DEF Inv, TypeOK, ClearRecord
  <2> QED BY <2>2, <2>4, <2>5 DEF Inv
<1>3. CASE /\ Fault /\ worker' = [worker EXCEPT ![w] = Idle]
           /\ UNCHANGED visible
  <2>1. worker' \in [Workers -> WorkerState]
    BY <1>3, WatchAssumption DEF Inv, TypeOK, WorkerState, Idle
  <2>2. TypeOK'
    BY <1>3, <2>1, WatchAssumption DEF Inv, TypeOK, ClearRecord, Fault
  <2>3. /\ worker'[w].step = "idle"
        /\ \A v \in Workers \ {w} : worker'[v] = worker[v]
    BY <1>3 DEF Inv, TypeOK, Idle
  <2>4. MarkedHead'
    BY <1>3, <2>3 DEF Inv, TypeOK, WorkerState, MarkedHead, ClearRecord
  <2>5. GapFree' /\ BacklogDrained'
    BY <1>3, <2>2, StreamsKept DEF Inv, TypeOK, ClearRecord
  <2> QED BY <2>2, <2>4, <2>5 DEF Inv
<1> QED BY <1>2, <1>3 DEF ClearRecord

LEMMA SendKeeps ==
  ASSUME Inv, NEW w \in Workers, Send(w)
  PROVE  Inv'
<1>1. worker' \in [Workers -> WorkerState]
  BY WatchAssumption DEF Inv, TypeOK, WorkerState, Send, Idle
<1>2. \A x \in Watchers : watch'[x] = [watch[x] EXCEPT !.unseen = TRUE]
  BY DEF Send
<1>3. ASSUME NEW x \in Watchers PROVE watch'[x] \in Stream
  <2>1. watch[x] \in Stream
    BY DEF Inv, TypeOK
  <2>2. [watch[x] EXCEPT !.unseen = TRUE] \in Stream
    BY <2>1 DEF Stream
  <2> QED BY <1>2, <2>2
<1>4. signal' \in 0..MaxVersion
  BY DEF Inv, TypeOK, WorkerState, Send
<1>5. TypeOK'
  BY <1>1, <1>3, <1>4 DEF Inv, TypeOK, Send
<1>6. /\ worker'[w].step = "idle"
      /\ \A v \in Workers \ {w} : worker'[v] = worker[v]
  BY DEF Inv, TypeOK, Send, Idle
<1>7. MarkedHead'
  BY <1>6 DEF Inv, TypeOK, WorkerState, MarkedHead, Send
<1>8. \A x \in Watchers : /\ watch'[x].step = watch[x].step
                          /\ watch'[x].cursor = watch[x].cursor
                          /\ watch'[x].backlog = watch[x].backlog
  BY <1>2 DEF Inv, TypeOK, Stream
<1>9. GapFree' /\ BacklogDrained'
  BY <1>5, <1>8, StreamsKept DEF Inv, Send, TypeOK
<1> QED BY <1>5, <1>7, <1>9 DEF Inv

(* A step of one stream leaves the history and the other streams alone. *)
LEMMA OneStream ==
  ASSUME Inv, NEW x \in Watchers, NEW s \in Stream, NEW d \in 0..MaxVersion,
         UNCHANGED <<head, visible, worker, signal>>, faults' \in 0..MaxFaults,
         watch' = [watch EXCEPT ![x] = s],
         delivered' = [delivered EXCEPT ![x] = d],
         s.step \notin {"off", "ended"} =>
           /\ s.cursor <= visible
           /\ Follows(s.backlog, d)
           /\ s.cursor = d + Len(s.backlog),
         s.step \in {"page", "subscribe", "compare", "park"}
           => s.backlog = <<>>
  PROVE  Inv'
<1>1. TypeOK'
  BY DEF Inv, TypeOK
<1>2. /\ watch'[x] = s /\ delivered'[x] = d
      /\ \A y \in Watchers \ {x} :
           watch'[y] = watch[y] /\ delivered'[y] = delivered[y]
  BY DEF Inv, TypeOK
<1>3. GapFree'
  BY <1>2 DEF Inv, GapFree, Following
<1>4. BacklogDrained'
  BY <1>2 DEF Inv, BacklogDrained
<1>5. MarkedHead'
  BY DEF Inv, MarkedHead
<1> QED BY <1>1, <1>3, <1>4, <1>5 DEF Inv

(* A stream that was never opened is a stream. *)
LEMMA OffIsStream == Off \in Stream
<1>1. <<>> \in Seq(1..MaxVersion) /\ 0 \in 0..MaxVersion
  BY WatchAssumption
<1> QED BY <1>1 DEF Off, Stream

LEMMA OpenKeeps ==
  ASSUME Inv, NEW x \in Watchers, NEW from \in 0..MaxVersion, Open(x, from)
  PROVE  Inv'
<1> DEFINE s == [Off EXCEPT !.step = "page", !.cursor = from]
<1>1. /\ s \in Stream /\ s.step = "page" /\ s.cursor = from
      /\ s.backlog = <<>>
  BY OffIsStream DEF Stream, Off
<1>2. Follows(<<>>, from) /\ from = from + Len(<<>>)
  BY DEF Follows
<1>3. /\ watch' = [watch EXCEPT ![x] = s]
      /\ delivered' = [delivered EXCEPT ![x] = from]
      /\ from <= visible
      /\ UNCHANGED <<head, visible, worker, signal>>
      /\ faults' \in 0..MaxFaults
  BY DEF Open, Inv, TypeOK
<1> HIDE DEF s
<1> QED BY <1>1, <1>2, <1>3, OneStream

(* The state of an open stream and what the invariant says of it. *)
LEMMA OpenStream ==
  ASSUME Inv, NEW x \in Watchers, Following(x)
  PROVE  /\ watch[x] \in Stream /\ delivered[x] \in 0..MaxVersion
         /\ watch[x].backlog \in Seq(1..MaxVersion)
         /\ watch[x].cursor \in 0..MaxVersion /\ watch[x].cursor <= visible
         /\ Follows(watch[x].backlog, delivered[x])
         /\ watch[x].cursor = delivered[x] + Len(watch[x].backlog)
BY DEF Inv, TypeOK, Stream, GapFree

LEMMA LoadPageKeeps ==
  ASSUME Inv, NEW x \in Watchers, LoadPage(x)
  PROVE  Inv'
<1> DEFINE page == LoadSince(watch[x].cursor)
<1>1. watch[x].step = "page" /\ watch[x].backlog = <<>> /\ Following(x)
  BY DEF Inv, BacklogDrained, Following, LoadPage
<1>2. /\ watch[x] \in Stream /\ delivered[x] \in 0..MaxVersion
      /\ watch[x].cursor \in 0..MaxVersion /\ watch[x].cursor <= visible
      /\ watch[x].cursor = delivered[x]
  BY <1>1, OpenStream
<1>3. /\ page \in Seq(1..MaxVersion)
      /\ watch[x].cursor + Len(page) <= visible
      /\ Follows(page, watch[x].cursor)
  BY <1>2, PageOfHistory DEF Inv
<1>4. /\ UNCHANGED <<head, visible, worker, signal>>
      /\ delivered' = [delivered EXCEPT ![x] = delivered[x]]
      /\ faults' \in 0..MaxFaults
  BY WatchAssumption DEF LoadPage, Fault, Inv, TypeOK
<1>5. CASE watch' = [watch EXCEPT ![x].step = "poll", ![x].backlog = page,
                                  ![x].cursor = @ + Len(page),
                                  ![x].repage = page # <<>>]
  <2> DEFINE s == [watch[x] EXCEPT !.step = "poll", !.backlog = page,
                                   !.cursor = @ + Len(page),
                                   !.repage = page # <<>>]
  <2>1. watch[x].cursor + Len(page) \in 0..MaxVersion
    <3> HIDE DEF page
    <3>1. Len(page) \in Nat
      BY <1>3
    <3> QED BY <1>2, <1>3, <3>1, WatchAssumption DEF Inv, TypeOK
  <2> HIDE DEF page
  <2>2. /\ s \in Stream /\ s.step = "poll" /\ s.backlog = page
        /\ s.cursor = watch[x].cursor + Len(page)
    BY <1>2, <1>3, <2>1 DEF Stream
  <2>3. watch' = [watch EXCEPT ![x] = s]
    BY <1>5
  <2> HIDE DEF s
  <2> QED BY <1>2, <1>3, <1>4, <2>2, <2>3, OneStream
<1>6. CASE watch' = [watch EXCEPT ![x] = [Off EXCEPT !.step = "ended"]]
  <2> DEFINE s == [Off EXCEPT !.step = "ended"]
  <2>1. s \in Stream /\ s.step = "ended"
    BY OffIsStream DEF Stream, Off
  <2> HIDE DEF s
  <2> QED BY <1>2, <1>4, <1>6, <2>1, OneStream DEF s
<1> QED BY <1>5, <1>6 DEF LoadPage

LEMMA PollKeeps ==
  ASSUME Inv, NEW x \in Watchers, Poll(x)
  PROVE  Inv'
<1> DEFINE b == watch[x].backlog
<1>1. watch[x].step = "poll" /\ Following(x)
  BY DEF Following, Poll
<1>2. /\ watch[x] \in Stream /\ delivered[x] \in 0..MaxVersion
      /\ b \in Seq(1..MaxVersion)
      /\ watch[x].cursor \in 0..MaxVersion /\ watch[x].cursor <= visible
      /\ Follows(b, delivered[x])
      /\ watch[x].cursor = delivered[x] + Len(b)
  BY <1>1, OpenStream
<1>3. UNCHANGED <<head, visible, worker, signal>> /\ faults' \in 0..MaxFaults
  BY DEF Poll, Inv, TypeOK
<1>4. CASE /\ b # <<>>
           /\ delivered' = [delivered EXCEPT ![x] = Head(b)]
           /\ watch' = [watch EXCEPT ![x].backlog = Tail(@)]
  <2> DEFINE s == [watch[x] EXCEPT !.backlog = Tail(@)]
  <2>1. \A i \in 1..Len(b) : b[i] = delivered[x] + i
    BY <1>2 DEF Follows
  <2> HIDE DEF b
  <2>2. Len(b) \in Nat /\ Len(b) > 0
    BY <1>2, <1>4
  <2>3. /\ Tail(b) \in Seq(1..MaxVersion) /\ Len(Tail(b)) = Len(b) - 1
        /\ \A i \in 1..Len(b) - 1 : Tail(b)[i] = b[i + 1]
    BY <1>2, <1>4
  <2>4. Head(b) = delivered[x] + 1
    BY <1>2, <1>4, <2>1, <2>2
  <2>5. Head(b) \in 0..MaxVersion
    BY <1>2, <2>2, <2>4, WatchAssumption
  <2>6. Follows(Tail(b), Head(b))
    <3>1. \A i \in 1..Len(Tail(b)) : Tail(b)[i] = Head(b) + i
      <4> SUFFICES ASSUME NEW i \in 1..Len(Tail(b))
                   PROVE  Tail(b)[i] = Head(b) + i
        OBVIOUS
      <4>1. i \in Nat /\ i \in 1..Len(b) - 1 /\ i + 1 \in 1..Len(b)
        BY <2>2, <2>3
      <4>2. Tail(b)[i] = b[i + 1] /\ b[i + 1] = delivered[x] + (i + 1)
        BY <2>1, <2>3, <4>1
      <4> QED BY <1>2, <2>4, <4>1, <4>2
    <3>2. Tail(b) \in [1..Len(Tail(b)) -> 1..MaxVersion]
      BY <2>3, LenProperties
    <3> QED BY <3>1, <3>2 DEF Follows
  <2>7. /\ s \in Stream /\ s.step = "poll" /\ s.backlog = Tail(b)
        /\ s.cursor = watch[x].cursor
    BY <1>1, <1>2, <2>3 DEF Stream, b
  <2>8. watch' = [watch EXCEPT ![x] = s]
    BY <1>4
  <2> HIDE DEF s
  <2>9. s.cursor <= visible /\ s.cursor = Head(b) + Len(s.backlog)
    BY <1>2, <2>2, <2>3, <2>4, <2>7
  <2>10. delivered' = [delivered EXCEPT ![x] = Head(b)]
    BY <1>4
  <2> QED BY <1>3, <2>5, <2>6, <2>7, <2>8, <2>9, <2>10, OneStream
<1>5. CASE /\ b = <<>>
           /\ watch' = [watch EXCEPT ![x].step = IF watch[x].repage THEN "page"
                                                 ELSE "subscribe"]
           /\ UNCHANGED delivered
  <2>1. PICK step \in {"page", "subscribe"} :
          watch' = [watch EXCEPT ![x].step = step]
    BY <1>5
  <2> DEFINE s == [watch[x] EXCEPT !.step = step]
  <2>2. /\ s \in Stream /\ s.backlog = b /\ s.cursor = watch[x].cursor
    BY <1>2 DEF Stream
  <2>3. /\ watch' = [watch EXCEPT ![x] = s]
        /\ delivered' = [delivered EXCEPT ![x] = delivered[x]]
    BY <1>5, <2>1 DEF Inv, TypeOK
  <2> HIDE DEF s, b
  <2>4. b = <<>>
    BY <1>5
  <2> QED BY <1>2, <1>3, <2>2, <2>3, <2>4, OneStream
<1> QED BY <1>4, <1>5 DEF Poll

(* The three steps of wait_for_committed_change move only the step and the *)
(* flag of the receiver.                                                   *)
LEMMA WaitKeeps ==
  ASSUME Inv, NEW x \in Watchers, Subscribe(x) \/ Compare(x) \/ Changed(x)
  PROVE  Inv'
<1>1. watch[x].backlog = <<>> /\ Following(x)
  BY DEF Inv, BacklogDrained, Following, Subscribe, Compare, Changed
<1>2. /\ watch[x] \in Stream /\ delivered[x] \in 0..MaxVersion
      /\ watch[x].cursor <= visible
      /\ Follows(watch[x].backlog, delivered[x])
      /\ watch[x].cursor = delivered[x] + Len(watch[x].backlog)
  BY <1>1, OpenStream
<1>3. /\ UNCHANGED <<head, visible, worker, signal>>
      /\ delivered' = [delivered EXCEPT ![x] = delivered[x]]
      /\ faults' \in 0..MaxFaults
  BY DEF Subscribe, Compare, Changed, Inv, TypeOK
<1>4. PICK s \in Stream : /\ watch' = [watch EXCEPT ![x] = s]
                          /\ s.backlog = watch[x].backlog
                          /\ s.cursor = watch[x].cursor
  <2>1. CASE Subscribe(x) \/ Changed(x)
    <3> DEFINE s == [watch[x] EXCEPT !.step = "compare", !.unseen = FALSE]
    <3>1. /\ s \in Stream /\ s.backlog = watch[x].backlog
          /\ s.cursor = watch[x].cursor
      BY <1>2 DEF Stream
    <3>2. watch' = [watch EXCEPT ![x] = s]
      BY <2>1 DEF Subscribe, Changed
    <3> QED BY <3>1, <3>2
  <2>2. CASE Compare(x)
    <3>1. PICK step \in {"page", "park"} :
            watch' = [watch EXCEPT ![x].step = step]
      BY <2>2 DEF Compare
    <3> DEFINE s == [watch[x] EXCEPT !.step = step]
    <3>2. /\ s \in Stream /\ s.backlog = watch[x].backlog
          /\ s.cursor = watch[x].cursor
      BY <1>2 DEF Stream
    <3>3. watch' = [watch EXCEPT ![x] = s]
      BY <3>1
    <3> QED BY <3>2, <3>3
  <2> QED BY <2>1, <2>2
<1> QED BY <1>1, <1>2, <1>3, <1>4, OneStream

LEMMA NextKeeps == Inv /\ [Next]_vars => Inv'
<1> SUFFICES ASSUME Inv, [Next]_vars PROVE Inv'
  OBVIOUS
<1>1. ASSUME NEW w \in Workers, AppendRecord(w) \/ WorkerStep(w) PROVE Inv'
  BY <1>1, AppendRecordKeeps, ClearRecordKeeps, SendKeeps DEF WorkerStep
<1>2. ASSUME NEW x \in Watchers, WatchStep(x) PROVE Inv'
  BY <1>2, LoadPageKeeps, PollKeeps, WaitKeeps DEF WatchStep
<1>3. CASE UNCHANGED vars
  BY <1>3 DEF vars, Inv, TypeOK, GapFree, BacklogDrained, MarkedHead, Following
<1> QED BY <1>1, <1>2, <1>3, OpenKeeps DEF Next

-----------------------------------------------------------------------------
(* The theorems.                                                           *)

(* The inductive invariant holds in every reachable state. *)
THEOREM Invariance == Spec => []Inv
BY InitInv, NextKeeps, PTL DEF Spec

(* Every variable keeps its type. *)
THEOREM TypeCorrect == Spec => []TypeOK
<1>1. Inv => TypeOK
  BY DEF Inv
<1> QED BY <1>1, Invariance, PTL

(* A watcher's cursor and backlog continue its deliveries without a gap    *)
(* and never reach a marked revision, for any page size and any number of  *)
(* workers and watchers.                                                   *)
THEOREM StreamsGapFree == Spec => []GapFree
<1>1. Inv => GapFree
  BY DEF Inv
<1> QED BY <1>1, Invariance, PTL

(* Each delivery to an open stream is the version after the last one, and  *)
(* a visible one.                                                          *)
DeliversNext ==
  \A x \in Watchers :
    Following(x) => /\ delivered'[x] \in {delivered[x], delivered[x] + 1}
                    /\ delivered'[x] <= visible

LEMMA NextDelivers ==
  ASSUME Inv, [Next]_vars
  PROVE  DeliversNext
<1> SUFFICES ASSUME NEW x \in Watchers, Following(x)
             PROVE  /\ delivered'[x] \in {delivered[x], delivered[x] + 1}
                    /\ delivered'[x] <= visible
  BY DEF DeliversNext
<1>1. /\ delivered[x] \in Nat /\ delivered[x] <= visible
      /\ watch[x].backlog \in Seq(1..MaxVersion)
      /\ Follows(watch[x].backlog, delivered[x])
      /\ delivered[x] + Len(watch[x].backlog) <= visible
  <2>1. Len(watch[x].backlog) \in Nat
    BY OpenStream
  <2> QED BY <2>1, OpenStream DEF Inv, TypeOK
<1>2. CASE delivered'[x] = delivered[x]
  BY <1>1, <1>2
<1>3. CASE Poll(x) /\ watch[x].backlog # <<>>
  <2> DEFINE b == watch[x].backlog
  <2>1. \A i \in 1..Len(b) : b[i] = delivered[x] + i
    BY <1>1 DEF Follows
  <2>2. delivered'[x] = Head(b)
    BY <1>3 DEF Poll, Inv, TypeOK
  <2> HIDE DEF b
  <2>3. b \in Seq(1..MaxVersion) /\ b # <<>>
    BY <1>1, <1>3 DEF b
  <2>4. Len(b) \in Nat /\ Len(b) > 0 /\ Head(b) = b[1]
    BY <2>3
  <2>5. Head(b) = delivered[x] + 1
    BY <1>1, <2>1, <2>4
  <2>6. visible \in Nat /\ delivered[x] + Len(b) <= visible
    BY <1>1 DEF b, Inv, TypeOK
  <2> QED BY <1>1, <2>2, <2>4, <2>5, <2>6
<1>4. delivered'[x] = delivered[x] \/ (Poll(x) /\ watch[x].backlog # <<>>)
  <2>1. ASSUME NEW y \in Watchers, NEW from, Open(y, from)
        PROVE  delivered'[x] = delivered[x]
    BY <2>1 DEF Open, Following, Inv, TypeOK
  <2>2. ASSUME NEW y \in Watchers, Poll(y)
        PROVE  \/ delivered'[x] = delivered[x]
               \/ Poll(x) /\ watch[x].backlog # <<>>
    BY <2>2 DEF Poll, Inv, TypeOK
  <2> QED BY <2>1, <2>2
          DEF Next, WorkerStep, WatchStep, AppendRecord, ClearRecord, Send,
              LoadPage, Subscribe, Compare, Changed, vars
<1> QED BY <1>2, <1>3, <1>4

(* What the consumer of an open stream sees never skips, repeats or goes   *)
(* back, and is never ahead of the datastore.                              *)
THEOREM DeliveriesInOrder == Spec => [][DeliversNext]_vars
<1>1. Inv /\ [Next]_vars => [DeliversNext]_vars
  BY NextDelivers
<1> QED BY <1>1, Invariance, PTL DEF Spec

=============================================================================
