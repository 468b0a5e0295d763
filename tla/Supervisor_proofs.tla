--------------------------- MODULE Supervisor_proofs ---------------------------
(***************************************************************************)
(* Theorems about Supervisor, for any finite sets of tasks, spawn calls    *)
(* and checkers: degrade_count settles on the number of failed degrade     *)
(* tasks, and a finished drain sequence leaves no runner it knew of alive. *)
(***************************************************************************)
EXTENDS Supervisor, FiniteSetTheorems, TLAPS

(* A runner exists from the moment its spawn call started it, its task is  *)
(* registered, and a handle is stored by the call it names. Only a         *)
(* registered task is failed.                                              *)
Lifecycle ==
  /\ \A c \in Callers :
       /\ runner[c] # "none" <=> spawn[c] \in {"started", "returned"}
       /\ runner[c] # "none" => task[c] \in Registered
       /\ c \in early => spawn[c] = "returned"
  /\ \A n \in Tasks :
       /\ state[n].handle # None =>
            /\ spawn[state[n].handle] = "returned"
            /\ task[state[n].handle] = n
       /\ state[n].failed => n \in Registered

(* The drain sequence follows a shutdown and waits for runners whose       *)
(* spawn returned; its last round waits for every handle stored before     *)
(* the shutdown, and a stopped runtime has seen them exit.                 *)
DrainRounds ==
  /\ drain # "idle" => shutdown
  /\ \A c \in waiting : spawn[c] = "returned"
  /\ drain \in {"aborting", "stopped"} =>
       \A c \in early : state[task[c]].handle = c => c \in waiting
  /\ drain = "stopped" => \A c \in waiting : ~Live(c)

Inv == TypeOK /\ Lifecycle /\ DrainRounds /\ DegradeCountSettles

-----------------------------------------------------------------------------
(* Frames: what an action that leaves part of the state alone keeps.       *)

(* One row of the registry changes. *)
LEMMA RowChanged ==
  ASSUME TypeOK, NEW n \in Tasks, NEW s \in TaskState, state' = [state EXCEPT ![n] = s]
  PROVE  /\ state' \in [Tasks -> TaskState]
         /\ state'[n] = s
         /\ \A m \in Tasks \ {n} : state'[m] = state[m]
BY DEF TypeOK

(* The registry is bounded while no task is added to it. *)
LEMMA SameRegistered ==
  ASSUME TypeOK, \A n \in Tasks : state'[n].registered = state[n].registered
  PROVE  Registered' = Registered
BY DEF Registered

(* The count while no failure is marked, cleared or counted. *)
LEMMA SameCount ==
  ASSUME DegradeCountSettles, UNCHANGED <<degraded, pending>>,
         FailedDegrade' = FailedDegrade, MarkedByRunner' = MarkedByRunner
  PROVE  DegradeCountSettles'
<1>1. MarkedByChecker' = MarkedByChecker
  BY DEF MarkedByChecker
<1> QED BY <1>1 DEF DegradeCountSettles, Uncounted

LEMMA SameFailed ==
  ASSUME \A n \in Tasks : state'[n].failed = state[n].failed
  PROVE  FailedDegrade' = FailedDegrade
BY DEF FailedDegrade

LEMMA SameMarked ==
  ASSUME TypeOK, UNCHANGED task,
         \A c \in Callers : runner'[c] = "classify" <=> runner[c] = "classify"
  PROVE  MarkedByRunner' = MarkedByRunner
BY DEF MarkedByRunner

(* Actions other than spawn calls and the drain sequence: handles stay,    *)
(* registered tasks stay registered, exited runners stay exited.           *)
LEMMA Settled ==
  ASSUME TypeOK, Lifecycle, DrainRounds, TypeOK',
         UNCHANGED <<spawn, task, early, drain, waiting>>,
         shutdown => shutdown',
         \A n \in Tasks : /\ state'[n].handle = state[n].handle
                          /\ state[n].registered => state'[n].registered
                          /\ state'[n].failed => state'[n].registered,
         \A c \in Callers : /\ runner'[c] = "none" <=> runner[c] = "none"
                            /\ runner[c] = "exited" => runner'[c] = "exited"
  PROVE  Lifecycle' /\ DrainRounds'
<1>1. Registered \subseteq Registered'
  BY DEF Registered
<1>2. Lifecycle'
  <2>1. ASSUME NEW c \in Callers PROVE Lifecycle!1!(c)'
    BY <1>1 DEF Lifecycle
  <2>2. ASSUME NEW n \in Tasks PROVE Lifecycle!2!(n)'
    BY DEF Lifecycle, Registered
  <2> QED BY <2>1, <2>2 DEF Lifecycle
<1>3. DrainRounds'
  <2>1. \A c \in early : task[c] \in Tasks /\ c \in Callers
    BY DEF TypeOK, Lifecycle, Registered
  <2>2. \A c \in waiting : c \in Callers /\ (~Live(c) => ~Live(c)')
    BY DEF TypeOK, Live
  <2>3. (drain' \in {"aborting", "stopped"} =>
           \A c \in early' : state'[task'[c]].handle = c => c \in waiting')
    BY <2>1 DEF DrainRounds
  <2> QED BY <2>2, <2>3 DEF DrainRounds
<1> QED BY <1>2, <1>3

(* A step of one runner. *)
LEMMA RunnerMoves ==
  ASSUME TypeOK, NEW c \in Callers, NEW x \in RunnerSteps \ {"none"},
         runner[c] \notin {"none", "exited"}, runner' = [runner EXCEPT ![c] = x]
  PROVE  /\ runner' \in [Callers -> RunnerSteps]
         /\ runner'[c] = x
         /\ \A d \in Callers \ {c} : runner'[d] = runner[d]
         /\ \A d \in Callers : /\ runner'[d] = "none" <=> runner[d] = "none"
                               /\ runner[d] = "exited" => runner'[d] = "exited"
BY DEF TypeOK

(* The task of a runner is registered. *)
LEMMA RunnerTask ==
  ASSUME TypeOK, Lifecycle, NEW c \in Callers, runner[c] # "none"
  PROVE  task[c] \in Tasks /\ state[task[c]].registered /\ state[task[c]] \in TaskState
BY DEF TypeOK, Lifecycle, Registered

LEMMA Finite ==
  ASSUME TypeOK
  PROVE  /\ IsFiniteSet(FailedDegrade) /\ IsFiniteSet(MarkedByRunner)
         /\ IsFiniteSet(MarkedByChecker) /\ IsFiniteSet(Registered)
         /\ Cardinality(FailedDegrade) \in Nat /\ Cardinality(MarkedByRunner) \in Nat
         /\ Cardinality(MarkedByChecker) \in Nat /\ Cardinality(Registered) \in Nat
<1>1. IsFiniteSet(Tasks) /\ IsFiniteSet(Callers) /\ IsFiniteSet(Checkers \X Tasks)
  BY SupervisorAssumption, FS_Product
<1>2. FailedDegrade \in SUBSET Tasks /\ Registered \in SUBSET Tasks
  BY DEF FailedDegrade, Registered
<1>3. MarkedByRunner \in SUBSET Callers
  BY DEF MarkedByRunner
<1>4. MarkedByChecker \in SUBSET (Checkers \X Tasks)
  BY DEF MarkedByChecker
<1>5. /\ IsFiniteSet(FailedDegrade) /\ IsFiniteSet(MarkedByRunner)
      /\ IsFiniteSet(MarkedByChecker) /\ IsFiniteSet(Registered)
  BY <1>1, <1>2, <1>3, <1>4, FS_Subset
<1> QED BY <1>5, FS_CardinalityType

-----------------------------------------------------------------------------
LEMMA InitInv == Init => Inv
<1> SUFFICES ASSUME Init PROVE Inv
  OBVIOUS
<1>1. Absent \in TaskState /\ ~Absent.registered /\ ~Absent.failed /\ Absent.handle = None
  BY DEF Absent, TaskState, None
<1>2. Registered = {} /\ FailedDegrade = {} /\ MarkedByRunner = {} /\ MarkedByChecker = {}
  BY <1>1 DEF Init, Registered, FailedDegrade, MarkedByRunner, MarkedByChecker
<1>3. TypeOK
  <2>1. state \in [Tasks -> TaskState]
    BY <1>1 DEF Init
  <2>2. Cardinality(Registered) <= MaxTasks
    BY <1>2, FS_EmptySet, SupervisorAssumption
  <2>3. shutdown \in BOOLEAN
    BY DEF Init
  <2> QED BY <2>1, <2>2, <2>3 DEF Init, TypeOK, RunnerSteps, None
<1>4. Lifecycle
  BY <1>1 DEF Init, Lifecycle
<1>5. DrainRounds
  BY DEF Init, DrainRounds
<1>6. DegradeCountSettles
  BY <1>2, FS_EmptySet DEF Init, DegradeCountSettles, Uncounted
<1> QED BY <1>3, <1>4, <1>5, <1>6 DEF Inv

(* Steps of a runner that mark, clear and count nothing. *)
LEMMA RunnerStepKeeps ==
  ASSUME Inv, NEW c \in Callers, NEW x \in RunnerSteps \ {"none", "classify"},
         runner[c] \notin {"none", "exited", "classify"},
         runner' = [runner EXCEPT ![c] = x],
         UNCHANGED <<state, spawn, task, aborted, pending, fatal, degraded, shutdown,
                     drain, waiting, early>>
  PROVE  Inv'
<1>1. TypeOK'
  BY DEF Inv, TypeOK, Registered
<1>2. Lifecycle' /\ DrainRounds'
  BY <1>1, Settled, RunnerMoves DEF Inv, Lifecycle, Registered
<1>3. MarkedByRunner' = MarkedByRunner
  <2>1. \A d \in Callers : runner'[d] = "classify" <=> runner[d] = "classify"
    BY DEF Inv, TypeOK
  <2> QED BY <2>1, SameMarked DEF Inv
<1>4. DegradeCountSettles'
  BY <1>3, SameCount DEF Inv, FailedDegrade
<1> QED BY <1>1, <1>2, <1>4 DEF Inv

(* A row changes in what neither handles, registration nor failure say. *)
LEMMA RowKeeps ==
  ASSUME Inv, NEW n \in Tasks, NEW s \in TaskState, state' = [state EXCEPT ![n] = s],
         s.registered = state[n].registered, s.handle = state[n].handle,
         s.failed = state[n].failed,
         runner' \in [Callers -> RunnerSteps],
         \A c \in Callers : /\ runner'[c] = "none" <=> runner[c] = "none"
                            /\ runner[c] = "exited" => runner'[c] = "exited"
                            /\ runner'[c] = "classify" <=> runner[c] = "classify",
         UNCHANGED <<spawn, task, aborted, pending, fatal, degraded, shutdown, drain,
                     waiting, early>>
  PROVE  Inv'
<1>1. /\ state' \in [Tasks -> TaskState]
      /\ \A m \in Tasks : /\ state'[m].registered = state[m].registered
                          /\ state'[m].handle = state[m].handle
                          /\ state'[m].failed = state[m].failed
  BY RowChanged DEF Inv
<1>2. TypeOK'
  <2>1. Registered' = Registered
    BY <1>1, SameRegistered DEF Inv
  <2> QED BY <1>1, <2>1 DEF Inv, TypeOK
<1>3. Lifecycle' /\ DrainRounds'
  <2>1. \A m \in Tasks : state'[m].failed => state'[m].registered
    BY <1>1 DEF Inv, Lifecycle, Registered
  <2> QED BY <1>1, <1>2, <2>1, Settled DEF Inv
<1>4. DegradeCountSettles'
  BY <1>1, SameFailed, SameMarked, SameCount DEF Inv
<1> QED BY <1>2, <1>3, <1>4 DEF Inv

(* The failure of a task is cleared, and taken off the count. *)
LEMMA ClearKeeps ==
  ASSUME Inv, NEW n \in Tasks, NEW s \in TaskState, state' = [state EXCEPT ![n] = s],
         s.registered = state[n].registered, s.handle = state[n].handle,
         ~s.failed,
         degraded' = IF state[n].failed /\ Criticality[n] = "degrade"
                     THEN degraded - 1 ELSE degraded,
         runner' \in [Callers -> RunnerSteps],
         \A c \in Callers : /\ runner'[c] = "none" <=> runner[c] = "none"
                            /\ runner[c] = "exited" => runner'[c] = "exited"
                            /\ runner'[c] = "classify" <=> runner[c] = "classify",
         UNCHANGED <<spawn, task, aborted, pending, fatal, shutdown, drain, waiting,
                     early>>
  PROVE  Inv'
<1>1. /\ state' \in [Tasks -> TaskState] /\ state'[n] = s
      /\ \A m \in Tasks \ {n} : state'[m] = state[m]
  BY RowChanged DEF Inv
<1>2. \A m \in Tasks : /\ state'[m].registered = state[m].registered
                       /\ state'[m].handle = state[m].handle
  BY <1>1
<1>3. TypeOK'
  <2>1. Registered' = Registered
    BY <1>2, SameRegistered DEF Inv
  <2>2. degraded' \in Int
    BY DEF Inv, TypeOK
  <2> QED BY <1>1, <2>1, <2>2 DEF Inv, TypeOK
<1>4. Lifecycle' /\ DrainRounds'
  <2>1. \A m \in Tasks : state'[m].failed => state'[m].registered
    BY <1>1 DEF Inv, Lifecycle, Registered
  <2> QED BY <1>2, <1>3, <2>1, Settled DEF Inv
<1>5. MarkedByRunner' = MarkedByRunner
  BY SameMarked DEF Inv
<1>6. MarkedByChecker' = MarkedByChecker
  BY DEF MarkedByChecker
<1>7. FailedDegrade' = FailedDegrade \ {n}
  BY <1>1 DEF FailedDegrade
<1>8. n \in FailedDegrade <=> state[n].failed /\ Criticality[n] = "degrade"
  BY DEF FailedDegrade
<1>9. Cardinality(FailedDegrade') = IF n \in FailedDegrade
                                    THEN Cardinality(FailedDegrade) - 1
                                    ELSE Cardinality(FailedDegrade)
  BY <1>7, Finite, FS_RemoveElement DEF Inv
<1>10. DegradeCountSettles'
  <2>1. degraded = Cardinality(FailedDegrade)
                     - (Cardinality(MarkedByRunner) + Cardinality(MarkedByChecker))
    BY DEF Inv, DegradeCountSettles, Uncounted
  <2>2. degraded' = Cardinality(FailedDegrade')
                      - (Cardinality(MarkedByRunner) + Cardinality(MarkedByChecker))
    BY <1>8, <1>9, <2>1, Finite DEF Inv
  <2> QED BY <1>5, <1>6, <2>2 DEF DegradeCountSettles, Uncounted
<1> QED BY <1>3, <1>4, <1>10 DEF Inv

LEMMA EnterKeeps ==
  ASSUME Inv, NEW c \in Callers, Enter(c)
  PROVE  Inv'
<1> DEFINE n == task[c]
<1>1. n \in Tasks /\ state[n] \in TaskState /\ runner[c] = "entry"
  BY RunnerTask DEF Inv, Enter
<1>2. CASE Exit(c) /\ UNCHANGED state
  BY <1>1, <1>2, RunnerStepKeeps DEF Enter, Exit, RunnerSteps
<1>3. CASE runner' = [runner EXCEPT ![c] = "start"] /\ UNCHANGED state
  BY <1>1, <1>3, RunnerStepKeeps DEF Enter, RunnerSteps
<1>4. CASE /\ runner' = [runner EXCEPT ![c] = "start"]
           /\ state' = [state EXCEPT ![n].failures = 0]
  <2> DEFINE s == [state[n] EXCEPT !.failures = 0]
  <2>1. /\ s \in TaskState /\ s.registered = state[n].registered
        /\ s.handle = state[n].handle /\ s.failed = state[n].failed
    BY <1>1 DEF TaskState
  <2>2. state' = [state EXCEPT ![n] = s]
    BY <1>1, <1>4 DEF Inv, TypeOK
  <2> HIDE DEF s
  <2>3. /\ runner' \in [Callers -> RunnerSteps]
        /\ \A d \in Callers : /\ runner'[d] = "none" <=> runner[d] = "none"
                              /\ runner[d] = "exited" => runner'[d] = "exited"
                              /\ runner'[d] = "classify" <=> runner[d] = "classify"
    BY <1>1, <1>4 DEF Inv, TypeOK, RunnerSteps
  <2> QED BY <1>1, <2>1, <2>2, <2>3, RowKeeps DEF Enter
<1> QED BY <1>2, <1>3, <1>4 DEF Enter

(* ClearFailed as an update of the row. *)
LEMMA ClearedRow ==
  ASSUME TypeOK, NEW n \in Tasks, ClearFailed(n)
  PROVE  \E s \in TaskState :
           /\ s.registered = state[n].registered /\ s.handle = state[n].handle
           /\ ~s.failed
           /\ state' = [state EXCEPT ![n] = s]
<1> DEFINE s == [state[n] EXCEPT !.failed = FALSE]
<1>1. state[n] \in TaskState
  BY DEF TypeOK
<1>2. s \in TaskState
  BY <1>1 DEF TaskState
<1>3. s.registered = state[n].registered /\ s.handle = state[n].handle /\ ~s.failed
  BY <1>1 DEF TaskState
<1>4. state' = [state EXCEPT ![n] = s]
  BY DEF ClearFailed, TypeOK
<1> QED BY <1>2, <1>3, <1>4

LEMMA StartKeeps ==
  ASSUME Inv, NEW c \in Callers, Start(c)
  PROVE  Inv'
<1> DEFINE n == task[c]
<1>1. n \in Tasks /\ runner[c] = "start"
  BY RunnerTask DEF Inv, Start
<1>2. CASE runner' = [runner EXCEPT ![c] = "failing"] /\ UNCHANGED <<state, degraded>>
  BY <1>1, <1>2, RunnerStepKeeps DEF Start, RunnerSteps
<1>3. CASE runner' = [runner EXCEPT ![c] = "running"] /\ UNCHANGED <<state, degraded>>
  BY <1>1, <1>3, RunnerStepKeeps DEF Start, RunnerSteps
<1>4. CASE runner' = [runner EXCEPT ![c] = "running"] /\ ClearFailed(n)
  <2>1. PICK s \in TaskState :
          /\ s.registered = state[n].registered /\ s.handle = state[n].handle
          /\ ~s.failed
          /\ state' = [state EXCEPT ![n] = s]
    BY <1>1, <1>4, ClearedRow DEF Inv
  <2>2. /\ runner' \in [Callers -> RunnerSteps]
        /\ \A d \in Callers : /\ runner'[d] = "none" <=> runner[d] = "none"
                              /\ runner[d] = "exited" => runner'[d] = "exited"
                              /\ runner'[d] = "classify" <=> runner[d] = "classify"
    BY <1>1, <1>4 DEF Inv, TypeOK, RunnerSteps
  <2>3. degraded' = IF state[n].failed /\ Criticality[n] = "degrade"
                    THEN degraded - 1 ELSE degraded
    BY <1>4 DEF ClearFailed
  <2> QED BY <1>1, <2>1, <2>2, <2>3, ClearKeeps DEF Start
<1> QED BY <1>2, <1>3, <1>4 DEF Start

LEMMA QuietStepKeeps ==
  ASSUME Inv, NEW c \in Callers, Finish(c) \/ Decide(c) \/ BackoffEnds(c)
  PROVE  Inv'
<1>1. CASE Finish(c)
  BY <1>1, RunnerStepKeeps DEF Finish, Exit, RunnerSteps
<1>2. CASE Decide(c)
  BY <1>2, RunnerStepKeeps DEF Decide, Exit, RunnerSteps
<1>3. CASE BackoffEnds(c)
  BY <1>3, RunnerStepKeeps DEF BackoffEnds, Exit, RunnerSteps
<1> QED BY <1>1, <1>2, <1>3

(* A failure is marked under the lock: the task enters the failed ones and *)
(* its runner the uncounted ones, or neither.                              *)
LEMMA FailKeeps ==
  ASSUME Inv, NEW c \in Callers, Fail(c)
  PROVE  Inv'
<1> DEFINE n == task[c]
<1>1. /\ n \in Tasks /\ state[n] \in TaskState /\ state[n].registered
      /\ runner[c] = "failing"
  BY RunnerTask DEF Inv, Fail
<1>2. PICK failures \in {state[n].failures + 1, 1} :
        state' = [state EXCEPT ![n].failures = failures, ![n].failed = TRUE,
                               ![n].missedBeat = FALSE]
  BY DEF Fail
<1>3. failures \in Nat
  BY <1>1 DEF TaskState
<1> DEFINE s == [state[n] EXCEPT !.failures = failures, !.failed = TRUE,
                                 !.missedBeat = FALSE]
<1>4. s \in TaskState
  BY <1>1, <1>3 DEF TaskState
<1>5. s.registered = state[n].registered /\ s.handle = state[n].handle /\ s.failed
  BY <1>1 DEF TaskState
<1>6. state' = [state EXCEPT ![n] = s]
  BY <1>1, <1>2 DEF Inv, TypeOK
<1> HIDE DEF s
<1>7. /\ state' \in [Tasks -> TaskState] /\ state'[n] = s
      /\ \A m \in Tasks \ {n} : state'[m] = state[m]
  BY <1>1, <1>4, <1>6, RowChanged DEF Inv
<1>8. PICK x \in {"decide", "classify"} :
        /\ runner' = [runner EXCEPT ![c] = x]
        /\ x = "classify" <=> ~state[n].failed
  BY DEF Fail
<1>9. /\ runner' \in [Callers -> RunnerSteps] /\ runner'[c] = x
      /\ \A d \in Callers \ {c} : runner'[d] = runner[d]
      /\ \A d \in Callers : /\ runner'[d] = "none" <=> runner[d] = "none"
                            /\ runner[d] = "exited" => runner'[d] = "exited"
  BY <1>1, <1>8, RunnerMoves DEF Inv, RunnerSteps
<1>10. \A m \in Tasks : /\ state'[m].registered = state[m].registered
                        /\ state'[m].handle = state[m].handle
  BY <1>5, <1>7
<1>11. UNCHANGED <<spawn, task, aborted, pending, fatal, degraded, shutdown, drain,
                   waiting, early>>
  BY DEF Fail
<1>12. TypeOK'
  <2>1. Registered' = Registered
    BY <1>10, SameRegistered DEF Inv
  <2> QED BY <1>7, <1>9, <1>11, <2>1 DEF Inv, TypeOK
<1>13. Lifecycle' /\ DrainRounds'
  <2>1. \A m \in Tasks : state'[m].failed => state'[m].registered
    BY <1>1, <1>5, <1>7 DEF Inv, Lifecycle, Registered
  <2> QED BY <1>9, <1>10, <1>11, <1>12, <2>1, Settled DEF Inv
<1>14. CASE state[n].failed \/ Criticality[n] # "degrade"
  <2>1. FailedDegrade' = FailedDegrade
    BY <1>5, <1>7, <1>14 DEF FailedDegrade
  <2>2. MarkedByRunner' = MarkedByRunner
    BY <1>1, <1>8, <1>9, <1>11, <1>14 DEF MarkedByRunner
  <2> QED BY <1>11, <1>12, <1>13, <2>1, <2>2, SameCount DEF Inv
<1>15. CASE ~state[n].failed /\ Criticality[n] = "degrade"
  <2>1. FailedDegrade' = FailedDegrade \union {n} /\ n \notin FailedDegrade
    BY <1>1, <1>5, <1>7, <1>15 DEF FailedDegrade
  <2>2. MarkedByRunner' = MarkedByRunner \union {c} /\ c \notin MarkedByRunner
    BY <1>1, <1>8, <1>9, <1>11, <1>15 DEF MarkedByRunner
  <2>3. MarkedByChecker' = MarkedByChecker
    BY <1>11 DEF MarkedByChecker
  <2>4. Cardinality(FailedDegrade') = Cardinality(FailedDegrade) + 1
    BY <2>1, Finite, FS_AddElement DEF Inv
  <2>5. Cardinality(MarkedByRunner') = Cardinality(MarkedByRunner) + 1
    BY <2>2, Finite, FS_AddElement DEF Inv
  <2>6. degraded = Cardinality(FailedDegrade)
                     - (Cardinality(MarkedByRunner) + Cardinality(MarkedByChecker))
    BY DEF Inv, DegradeCountSettles, Uncounted
  <2>7. degraded' = Cardinality(FailedDegrade')
                      - (Cardinality(MarkedByRunner') + Cardinality(MarkedByChecker))
    BY <1>11, <2>4, <2>5, <2>6, Finite DEF Inv
  <2>8. DegradeCountSettles'
    BY <2>3, <2>7 DEF DegradeCountSettles, Uncounted
  <2> QED BY <1>12, <1>13, <2>8 DEF Inv
<1> QED BY <1>14, <1>15

LEMMA ClassifyKeeps ==
  ASSUME Inv, NEW c \in Callers, Classify(c)
  PROVE  Inv'
<1> DEFINE n == task[c]
<1>1. n \in Tasks /\ runner[c] = "classify"
  BY RunnerTask DEF Inv, Classify
<1>2. /\ runner' = [runner EXCEPT ![c] = "decide"]
      /\ degraded' = IF Criticality[n] = "degrade" THEN degraded + 1 ELSE degraded
      /\ shutdown => shutdown'
      /\ UNCHANGED <<state, spawn, task, aborted, pending, drain, waiting, early, events>>
  BY DEF Classify
<1>3. /\ runner' \in [Callers -> RunnerSteps] /\ runner'[c] = "decide"
      /\ \A d \in Callers \ {c} : runner'[d] = runner[d]
      /\ \A d \in Callers : /\ runner'[d] = "none" <=> runner[d] = "none"
                            /\ runner[d] = "exited" => runner'[d] = "exited"
  BY <1>1, <1>2, RunnerMoves DEF Inv, RunnerSteps
<1>4. TypeOK'
  <2>1. shutdown' \in BOOLEAN
    BY DEF Classify
  <2>2. fatal' \in Tasks \union {None}
    BY <1>1 DEF Inv, TypeOK, Classify
  <2>3. degraded' \in Int
    BY <1>2 DEF Inv, TypeOK
  <2> QED BY <1>2, <1>3, <2>1, <2>2, <2>3 DEF Inv, TypeOK, Registered
<1>5. Lifecycle' /\ DrainRounds'
  <2>1. \A m \in Tasks : state[m].failed => state[m].registered
    BY DEF Inv, Lifecycle, Registered
  <2> QED BY <1>2, <1>3, <1>4, <2>1, Settled DEF Inv
<1>6. MarkedByRunner' = MarkedByRunner \ {c} /\ FailedDegrade' = FailedDegrade
        /\ MarkedByChecker' = MarkedByChecker
  BY <1>2, <1>3 DEF MarkedByRunner, FailedDegrade, MarkedByChecker
<1>7. c \in MarkedByRunner <=> Criticality[n] = "degrade"
  BY <1>1 DEF MarkedByRunner
<1>8. Cardinality(MarkedByRunner') = IF c \in MarkedByRunner
                                     THEN Cardinality(MarkedByRunner) - 1
                                     ELSE Cardinality(MarkedByRunner)
  BY <1>6, Finite, FS_RemoveElement DEF Inv
<1>9. degraded = Cardinality(FailedDegrade)
                   - (Cardinality(MarkedByRunner) + Cardinality(MarkedByChecker))
  BY DEF Inv, DegradeCountSettles, Uncounted
<1>10. degraded' = Cardinality(FailedDegrade)
                     - (Cardinality(MarkedByRunner') + Cardinality(MarkedByChecker))
  BY <1>2, <1>7, <1>8, <1>9, Finite DEF Inv, TypeOK
<1>11. DegradeCountSettles'
  BY <1>6, <1>10 DEF DegradeCountSettles, Uncounted
<1> QED BY <1>4, <1>5, <1>11 DEF Inv

(* An abort does not hit a runner that has still to count a failure. *)
LEMMA DropKeeps ==
  ASSUME Inv, NEW c \in Callers, Drop(c)
  PROVE  Inv'
<1>1. /\ runner[c] \notin {"none", "exited"}
      /\ runner' = [runner EXCEPT ![c] = "exited"]
      /\ UNCHANGED <<state, spawn, task, aborted, pending, fatal, degraded, shutdown,
                     drain, waiting, early>>
  BY DEF Drop, Exit, Live
<1>2. /\ runner' \in [Callers -> RunnerSteps] /\ runner'[c] = "exited"
      /\ \A d \in Callers \ {c} : runner'[d] = runner[d]
      /\ \A d \in Callers : /\ runner'[d] = "none" <=> runner[d] = "none"
                            /\ runner[d] = "exited" => runner'[d] = "exited"
  BY <1>1, RunnerMoves DEF Inv, RunnerSteps
<1>3. TypeOK'
  BY <1>1, <1>2 DEF Inv, TypeOK, Registered
<1>4. Lifecycle' /\ DrainRounds'
  BY <1>1, <1>2, <1>3, Settled DEF Inv, Lifecycle, Registered
<1>5. MarkedByRunner' = MarkedByRunner
  BY <1>1, <1>2 DEF MarkedByRunner, Drop
<1>6. FailedDegrade' = FailedDegrade
  BY <1>1 DEF FailedDegrade
<1> QED BY <1>1, <1>3, <1>4, <1>5, <1>6, SameCount DEF Inv

-----------------------------------------------------------------------------
(* Heartbeats, readiness and calls of the application.                     *)

LEMMA BecomeLateKeeps ==
  ASSUME Inv, NEW n \in Tasks, BecomeLate(n)
  PROVE  Inv'
<1> DEFINE s == [state[n] EXCEPT !.late = TRUE]
<1>1. state[n] \in TaskState
  BY DEF Inv, TypeOK
<1>2. s \in TaskState
  BY <1>1 DEF TaskState
<1>3. /\ s.registered = state[n].registered /\ s.handle = state[n].handle
      /\ s.failed = state[n].failed
  BY <1>1 DEF TaskState
<1>4. state' = [state EXCEPT ![n] = s]
  BY DEF BecomeLate, Inv, TypeOK
<1> HIDE DEF s
<1> QED BY <1>2, <1>3, <1>4, RowKeeps DEF BecomeLate, Inv, TypeOK

LEMMA SetReadinessGatedKeeps ==
  ASSUME Inv, NEW n \in Tasks, NEW b \in BOOLEAN, SetReadinessGated(n, b)
  PROVE  Inv'
<1> DEFINE s == [state[n] EXCEPT !.gated = b]
<1>1. state[n] \in TaskState
  BY DEF Inv, TypeOK
<1>2. s \in TaskState
  BY <1>1 DEF TaskState
<1>3. /\ s.registered = state[n].registered /\ s.handle = state[n].handle
      /\ s.failed = state[n].failed
  BY <1>1 DEF TaskState
<1>4. state' = [state EXCEPT ![n] = s]
  BY DEF SetReadinessGated, Inv, TypeOK
<1> HIDE DEF s
<1> QED BY <1>2, <1>3, <1>4, RowKeeps DEF SetReadinessGated, Inv, TypeOK

LEMMA DrainTaskKeeps ==
  ASSUME Inv, NEW n \in Tasks, DrainTask(n)
  PROVE  Inv'
<1> DEFINE s == [state[n] EXCEPT !.token = TRUE]
<1>1. state[n] \in TaskState
  BY DEF Inv, TypeOK
<1>2. s \in TaskState
  BY <1>1 DEF TaskState
<1>3. /\ s.registered = state[n].registered /\ s.handle = state[n].handle
      /\ s.failed = state[n].failed
  BY <1>1 DEF TaskState
<1>4. state' = [state EXCEPT ![n] = s]
  BY DEF DrainTask, Inv, TypeOK
<1> HIDE DEF s
<1> QED BY <1>2, <1>3, <1>4, RowKeeps DEF DrainTask, Inv, TypeOK

LEMMA SetTaskReadyKeeps ==
  ASSUME Inv, NEW n \in Tasks, SetTaskReady(n)
  PROVE  Inv'
<1>1. PICK s \in TaskState :
        /\ s.registered = state[n].registered /\ s.handle = state[n].handle
        /\ ~s.failed
        /\ state' = [state EXCEPT ![n] = s]
  BY ClearedRow DEF Inv, SetTaskReady
<1>2. degraded' = IF state[n].failed /\ Criticality[n] = "degrade"
                  THEN degraded - 1 ELSE degraded
  BY DEF SetTaskReady, ClearFailed
<1> QED BY <1>1, <1>2, ClearKeeps DEF SetTaskReady, Inv, TypeOK

LEMMA RecordHeartbeatKeeps ==
  ASSUME Inv, NEW n \in Tasks, RecordHeartbeat(n)
  PROVE  Inv'
<1>1. state[n] \in TaskState
  BY DEF Inv, TypeOK
<1>2. CASE state[n].failed /\ state[n].missedBeat
  <2> DEFINE s == [state[n] EXCEPT !.late = FALSE, !.failed = FALSE]
  <2>1. s \in TaskState
    BY <1>1 DEF TaskState
  <2>2. s.registered = state[n].registered /\ s.handle = state[n].handle /\ ~s.failed
    BY <1>1 DEF TaskState
  <2>3. state' = [state EXCEPT ![n] = s]
    BY <1>2 DEF RecordHeartbeat, Inv, TypeOK
  <2>4. degraded' = IF state[n].failed /\ Criticality[n] = "degrade"
                    THEN degraded - 1 ELSE degraded
    BY <1>2 DEF RecordHeartbeat
  <2> HIDE DEF s
  <2> QED BY <2>1, <2>2, <2>3, <2>4, ClearKeeps DEF RecordHeartbeat, Inv, TypeOK
<1>3. CASE ~(state[n].failed /\ state[n].missedBeat)
  <2> DEFINE f == state[n].failed
             s == [state[n] EXCEPT !.late = FALSE, !.failed = f]
  <2>0. f \in BOOLEAN
    BY <1>1 DEF TaskState
  <2>1. s \in TaskState
    BY <1>1, <2>0 DEF TaskState
  <2>2. /\ s.registered = state[n].registered /\ s.handle = state[n].handle
        /\ s.failed = state[n].failed
    BY <1>1 DEF TaskState
  <2>3. state' = [state EXCEPT ![n] = s]
    <3>1. (f /\ ~(f /\ state[n].missedBeat)) = f
      BY <1>3, <2>0
    <3> QED BY <3>1 DEF RecordHeartbeat, Inv, TypeOK
  <2>4. UNCHANGED degraded
    BY <1>3 DEF RecordHeartbeat
  <2> HIDE DEF s
  <2> QED BY <2>1, <2>2, <2>3, <2>4, RowKeeps DEF RecordHeartbeat, Inv, TypeOK
<1> QED BY <1>2, <1>3

LEMMA RequestShutdownKeeps ==
  ASSUME Inv, RequestShutdown
  PROVE  Inv'
<1>1. TypeOK'
  <2>1. shutdown' \in BOOLEAN
    BY DEF RequestShutdown
  <2> QED BY <2>1 DEF Inv, TypeOK, RequestShutdown, Registered
<1>2. Lifecycle' /\ DrainRounds'
  BY <1>1, Settled DEF Inv, Lifecycle, Registered, RequestShutdown
<1>3. DegradeCountSettles'
  BY SameCount DEF Inv, FailedDegrade, MarkedByRunner, RequestShutdown
<1> QED BY <1>1, <1>2, <1>3 DEF Inv

LEMMA AbortTaskKeeps ==
  ASSUME Inv, NEW n \in Tasks, AbortTask(n)
  PROVE  Inv'
<1>1. state[n].handle \in Callers
  BY DEF Inv, TypeOK, TaskState, AbortTask
<1>2. TypeOK'
  BY <1>1 DEF Inv, TypeOK, AbortTask, Registered
<1>3. Lifecycle' /\ DrainRounds'
  BY <1>2, Settled DEF Inv, Lifecycle, Registered, AbortTask
<1>4. DegradeCountSettles'
  BY SameCount DEF Inv, FailedDegrade, MarkedByRunner, AbortTask
<1> QED BY <1>2, <1>3, <1>4 DEF Inv

-----------------------------------------------------------------------------
(* Registering and spawning.                                               *)

(* A task that is added within the budget. *)
LEMMA AddedWithinBudget ==
  ASSUME TypeOK, NEW n \in Tasks, n \in Registered \/ HasBudget
  PROVE  Cardinality(Registered \union {n}) <= MaxTasks
<1>1. Cardinality(Registered) \in Nat /\ Cardinality(Registered) <= MaxTasks /\ MaxTasks \in Nat
  BY Finite, SupervisorAssumption DEF TypeOK
<1>2. Cardinality(Registered \union {n}) = IF n \in Registered THEN Cardinality(Registered)
                                           ELSE Cardinality(Registered) + 1
  BY Finite, FS_AddElement
<1> QED BY <1>1, <1>2 DEF HasBudget

LEMMA RegisterKeeps ==
  ASSUME Inv, NEW n \in Tasks, Register(n)
  PROVE  Inv'
<1> DEFINE s == [Absent EXCEPT !.registered = TRUE]
<1>1. s \in TaskState
  BY DEF Absent, TaskState, None
<1>2. s.registered /\ s.handle = None /\ ~s.failed
  BY DEF Absent, None
<1>3. state[n].handle = None /\ ~state[n].failed
  <2>1. n \notin Registered
    BY DEF Register
  <2>2. state[n].handle \in Callers \union {None}
    BY DEF Inv, TypeOK, TaskState
  <2>3. ASSUME state[n].handle # None PROVE FALSE
    <3>1. spawn[state[n].handle] = "returned" /\ task[state[n].handle] = n
      BY <2>3 DEF Inv, Lifecycle
    <3> QED BY <2>1, <2>2, <2>3, <3>1 DEF Inv, Lifecycle
  <2> QED BY <2>1, <2>3 DEF Inv, Lifecycle
<1>4. state' = [state EXCEPT ![n] = s]
  BY DEF Register
<1> HIDE DEF s
<1>5. /\ state' \in [Tasks -> TaskState] /\ state'[n] = s
      /\ \A m \in Tasks \ {n} : state'[m] = state[m]
  BY <1>1, <1>4, RowChanged DEF Inv
<1>6. TypeOK'
  <2>1. Registered' = Registered \union {n}
    BY <1>2, <1>5 DEF Registered
  <2>2. Cardinality(Registered') <= MaxTasks
    BY <2>1, AddedWithinBudget DEF Inv, Register
  <2> QED BY <1>5, <2>2 DEF Inv, TypeOK, Register
<1>7. Lifecycle' /\ DrainRounds'
  <2>1. \A m \in Tasks : /\ state'[m].handle = state[m].handle
                         /\ state[m].registered => state'[m].registered
                         /\ state'[m].failed => state'[m].registered
    BY <1>2, <1>3, <1>5 DEF Inv, Lifecycle, Registered
  <2> QED BY <1>6, <2>1, Settled DEF Inv, Register
<1>8. FailedDegrade' = FailedDegrade
  BY <1>2, <1>3, <1>5 DEF FailedDegrade
<1>9. DegradeCountSettles'
  BY <1>8, SameCount DEF Inv, Register, MarkedByRunner
<1> QED BY <1>6, <1>7, <1>9 DEF Inv

LEMMA SpawnCheckKeeps ==
  ASSUME Inv, NEW c \in Callers, NEW n \in Tasks, SpawnCheck(c, n)
  PROVE  Inv'
<1>1. spawn[c] = "idle" /\ runner[c] = "none" /\ c \notin early /\ c \notin waiting
  BY DEF SpawnCheck, Inv, Lifecycle, DrainRounds
<1>2. UNCHANGED <<aborted, pending, fatal, degraded, shutdown, drain, waiting, early>>
  BY DEF SpawnCheck
<1>3. \A m \in Tasks : state[m].handle # c
  BY <1>1, SupervisorAssumption DEF Inv, Lifecycle, None
<1>4. CASE spawn' = [spawn EXCEPT ![c] = "refused"] /\ UNCHANGED <<state, task, runner>>
  <2>1. /\ spawn'[c] = "refused" /\ \A d \in Callers \ {c} : spawn'[d] = spawn[d]
    BY <1>4 DEF Inv, TypeOK
  <2>2. TypeOK'
    BY <1>2, <1>4 DEF Inv, TypeOK, Registered
  <2>3. Lifecycle'
    <3>1. ASSUME NEW d \in Callers PROVE Lifecycle!1!(d)'
      BY <1>1, <1>2, <1>4, <2>1 DEF Inv, Lifecycle, Registered
    <3>2. ASSUME NEW m \in Tasks PROVE Lifecycle!2!(m)'
      <4>1. state[m].handle # None => state[m].handle \in Callers \ {c}
        BY <1>3 DEF Inv, TypeOK, TaskState
      <4> QED BY <1>4, <2>1, <4>1 DEF Inv, Lifecycle, Registered
    <3> QED BY <3>1, <3>2 DEF Lifecycle
  <2>4. DrainRounds'
    <3>1. \A d \in waiting : d \in Callers \ {c}
      BY <1>1 DEF Inv, TypeOK
    <3> QED BY <1>2, <1>4, <2>1, <3>1 DEF Inv, DrainRounds, Live
  <2>5. DegradeCountSettles'
    BY <1>2, <1>4, SameCount DEF Inv, FailedDegrade, MarkedByRunner
  <2> QED BY <2>2, <2>3, <2>4, <2>5 DEF Inv
<1>5. CASE /\ n \in Registered \/ HasBudget
           /\ spawn' = [spawn EXCEPT ![c] = "started"]
           /\ task' = [task EXCEPT ![c] = n]
           /\ runner' = [runner EXCEPT ![c] = "entry"]
           /\ state' = [state EXCEPT ![n].registered = TRUE]
  <2> DEFINE s == [state[n] EXCEPT !.registered = TRUE]
  <2>1. state[n] \in TaskState
    BY DEF Inv, TypeOK
  <2>2. s \in TaskState
    BY <2>1 DEF TaskState
  <2>3. s.registered /\ s.handle = state[n].handle /\ s.failed = state[n].failed
    BY <2>1 DEF TaskState
  <2>4. state' = [state EXCEPT ![n] = s]
    BY <1>5 DEF Inv, TypeOK
  <2> HIDE DEF s
  <2>5. /\ state' \in [Tasks -> TaskState] /\ state'[n] = s
        /\ \A m \in Tasks \ {n} : state'[m] = state[m]
    BY <2>2, <2>4, RowChanged DEF Inv
  <2>6. /\ spawn'[c] = "started" /\ task'[c] = n /\ runner'[c] = "entry"
        /\ \A d \in Callers \ {c} : /\ spawn'[d] = spawn[d] /\ task'[d] = task[d]
                                    /\ runner'[d] = runner[d]
    BY <1>5 DEF Inv, TypeOK
  <2>7. Registered' = Registered \union {n}
    BY <2>3, <2>5 DEF Registered
  <2>8. TypeOK'
    <3>1. Cardinality(Registered') <= MaxTasks
      BY <1>5, <2>7, AddedWithinBudget DEF Inv
    <3>2. runner' \in [Callers -> RunnerSteps] /\ task' \in [Callers -> Tasks \union {None}]
          /\ spawn' \in [Callers -> {"idle", "refused", "started", "returned"}]
      BY <1>5 DEF Inv, TypeOK, RunnerSteps
    <3> QED BY <1>2, <2>5, <3>1, <3>2 DEF Inv, TypeOK
  <2>9. Lifecycle'
    <3>1. ASSUME NEW d \in Callers PROVE Lifecycle!1!(d)'
      <4>1. CASE d = c
        BY <1>1, <1>2, <2>6, <2>7, <4>1
      <4>2. CASE d # c
        BY <1>2, <2>6, <2>7, <4>2 DEF Inv, Lifecycle
      <4> QED BY <4>1, <4>2
    <3>2. ASSUME NEW m \in Tasks PROVE Lifecycle!2!(m)'
      <4>1. state[m].handle # None => state[m].handle \in Callers \ {c}
        BY <1>3 DEF Inv, TypeOK, TaskState
      <4>2. state'[m].handle = state[m].handle /\ state'[m].failed = state[m].failed
        BY <2>3, <2>5
      <4> QED BY <2>6, <2>7, <4>1, <4>2 DEF Inv, Lifecycle
    <3> QED BY <3>1, <3>2 DEF Lifecycle
  <2>10. DrainRounds'
    <3>1. \A d \in waiting : d \in Callers \ {c}
      BY <1>1 DEF Inv, TypeOK
    <3>2. \A d \in early : d \in Callers \ {c} /\ task[d] \in Tasks
      BY <1>1 DEF Inv, TypeOK, Lifecycle, Registered
    <3>3. \A m \in Tasks : state'[m].handle = state[m].handle
      BY <2>3, <2>5
    <3>4. (drain' \in {"aborting", "stopped"} =>
             \A d \in early' : state'[task'[d]].handle = d => d \in waiting')
      BY <1>2, <2>6, <3>2, <3>3 DEF Inv, DrainRounds
    <3> QED BY <1>2, <2>6, <3>1, <3>4 DEF Inv, DrainRounds, Live
  <2>11. FailedDegrade' = FailedDegrade
    BY <2>3, <2>5 DEF FailedDegrade
  <2>12. MarkedByRunner' = MarkedByRunner
    BY <1>1, <2>6 DEF MarkedByRunner
  <2> QED BY <1>2, <2>8, <2>9, <2>10, <2>11, <2>12, SameCount DEF Inv
<1> QED BY <1>4, <1>5 DEF SpawnCheck

LEMMA SpawnStoreKeeps ==
  ASSUME Inv, NEW c \in Callers, SpawnStore(c)
  PROVE  Inv'
<1> DEFINE n == task[c]
           s == [state[n] EXCEPT !.handle = c]
<1>1. /\ spawn[c] = "started" /\ runner[c] # "none" /\ c \notin early /\ c \notin waiting
      /\ n \in Tasks /\ state[n].registered /\ state[n] \in TaskState
  BY RunnerTask DEF SpawnStore, Inv, Lifecycle, DrainRounds
<1>2. s \in TaskState
  BY <1>1 DEF TaskState
<1>3. s.registered = state[n].registered /\ s.handle = c /\ s.failed = state[n].failed
  BY <1>1 DEF TaskState
<1>4. state' = [state EXCEPT ![n] = s]
  BY <1>1 DEF SpawnStore, Inv, TypeOK
<1> HIDE DEF s
<1>5. /\ state' \in [Tasks -> TaskState] /\ state'[n] = s
      /\ \A m \in Tasks \ {n} : state'[m] = state[m]
  BY <1>1, <1>2, <1>4, RowChanged DEF Inv
<1>6. UNCHANGED <<task, runner, aborted, pending, fatal, degraded, shutdown, drain, waiting>>
  BY DEF SpawnStore
<1>7. spawn' = [spawn EXCEPT ![c] = "returned"]
      /\ early' = IF shutdown THEN early ELSE early \union {c}
  BY DEF SpawnStore
<1>8. spawn'[c] = "returned" /\ \A d \in Callers \ {c} : spawn'[d] = spawn[d]
  BY <1>7 DEF Inv, TypeOK
<1>9. Registered' = Registered
  BY <1>3, <1>5 DEF Registered
<1>10. TypeOK'
  BY <1>5, <1>6, <1>7, <1>9 DEF Inv, TypeOK
<1>11. Lifecycle'
  <2>1. ASSUME NEW d \in Callers PROVE Lifecycle!1!(d)'
    <3>1. CASE d = c
      BY <1>1, <1>6, <1>8, <1>9, <3>1 DEF Inv, Lifecycle
    <3>2. CASE d # c
      BY <1>6, <1>7, <1>8, <1>9, <3>2 DEF Inv, Lifecycle
    <3> QED BY <3>1, <3>2
  <2>2. ASSUME NEW m \in Tasks PROVE Lifecycle!2!(m)'
    <3>1. CASE m = n
      BY <1>1, <1>3, <1>5, <1>6, <1>8, <1>9, <3>1 DEF Registered
    <3>2. CASE m # n
      <4>1. state'[m] = state[m] /\ state[m].handle \in Callers \union {None}
        BY <1>5, <3>2 DEF Inv, TypeOK, TaskState
      <4> QED BY <1>6, <1>8, <1>9, <4>1 DEF Inv, Lifecycle
    <3> QED BY <3>1, <3>2
  <2> QED BY <2>1, <2>2 DEF Lifecycle
<1>12. DrainRounds'
  <2>1. \A d \in waiting : d \in Callers \ {c}
    BY <1>1 DEF Inv, TypeOK
  <2>2. ASSUME drain \in {"aborting", "stopped"}, NEW d \in early',
               state'[task'[d]].handle = d
        PROVE  d \in waiting
    <3>1. shutdown /\ early' = early
      BY <1>7, <2>2 DEF Inv, DrainRounds
    <3>2. d \in early /\ d # c /\ task[d] \in Tasks
      BY <1>1, <2>2, <3>1 DEF Inv, TypeOK, Lifecycle, Registered
    <3>3. task[d] # n
      BY <1>3, <1>5, <1>6, <2>2, <3>2
    <3> QED BY <1>5, <1>6, <2>2, <3>2, <3>3 DEF Inv, DrainRounds
  <2> QED BY <1>6, <1>8, <2>1, <2>2 DEF Inv, DrainRounds, Live
<1>13. FailedDegrade' = FailedDegrade
  BY <1>3, <1>5 DEF FailedDegrade
<1>14. MarkedByRunner' = MarkedByRunner
  BY <1>6 DEF MarkedByRunner
<1> QED BY <1>6, <1>10, <1>11, <1>12, <1>13, <1>14, SameCount DEF Inv

-----------------------------------------------------------------------------
(* Checkers.                                                               *)

(* The expired degrade tasks enter the failed ones, and each of them the   *)
(* uncounted ones of this checker.                                         *)
LEMMA CheckHeartbeatsKeeps ==
  ASSUME Inv, NEW k \in Checkers, CheckHeartbeats(k)
  PROVE  Inv'
<1> DEFINE E == Expired
           D == {n \in E : Criticality[n] = "degrade"}
           mark(n) == [state[n] EXCEPT !.failed = TRUE, !.missedBeat = TRUE]
<1>1. /\ pending[k] = {}
      /\ state' = [n \in Tasks |-> IF n \in E THEN mark(n) ELSE state[n]]
      /\ aborted' = aborted \union {state[n].handle : n \in E}
      /\ pending' = [pending EXCEPT ![k] = E]
      /\ UNCHANGED <<spawn, task, runner, fatal, degraded, shutdown, drain, waiting, early>>
  BY DEF CheckHeartbeats
<1>2. /\ E \subseteq Tasks /\ E \subseteq Registered
      /\ \A n \in E : ~state[n].failed /\ state[n].handle # None
  BY DEF Expired, Registered, Running
<1> HIDE DEF E
<1>3. \A n \in Tasks : /\ mark(n) \in TaskState
                       /\ mark(n).registered = state[n].registered
                       /\ mark(n).handle = state[n].handle /\ mark(n).failed
  <2> SUFFICES ASSUME NEW n \in Tasks
               PROVE  /\ mark(n) \in TaskState
                      /\ mark(n).registered = state[n].registered
                      /\ mark(n).handle = state[n].handle /\ mark(n).failed
    OBVIOUS
  <2>1. state[n] \in TaskState
    BY DEF Inv, TypeOK
  <2>2. mark(n) \in TaskState
    BY <2>1 DEF TaskState
  <2> QED BY <2>1, <2>2 DEF TaskState
<1> HIDE DEF mark
<1>4. /\ \A n \in Tasks : /\ state'[n].registered = state[n].registered
                          /\ state'[n].handle = state[n].handle
      /\ \A n \in E : state'[n].failed
      /\ \A n \in Tasks \ E : state'[n] = state[n]
  BY <1>1, <1>2, <1>3
<1>5. TypeOK'
  <2>1. state' \in [Tasks -> TaskState]
    BY <1>1, <1>3 DEF Inv, TypeOK
  <2>2. Registered' = Registered
    BY <1>4, SameRegistered DEF Inv
  <2>3. aborted' \subseteq Callers
    BY <1>1, <1>2 DEF Inv, TypeOK, TaskState
  <2>4. pending' \in [Checkers -> SUBSET Tasks]
    BY <1>1, <1>2 DEF Inv, TypeOK
  <2> QED BY <1>1, <2>1, <2>2, <2>3, <2>4 DEF Inv, TypeOK
<1>6. Lifecycle' /\ DrainRounds'
  <2>1. \A n \in Tasks : state'[n].failed => state'[n].registered
    BY <1>2, <1>4 DEF Inv, Lifecycle, Registered
  <2> QED BY <1>1, <1>4, <1>5, <2>1, Settled DEF Inv
<1>7. FailedDegrade' = FailedDegrade \union D /\ FailedDegrade \intersect D = {}
  BY <1>2, <1>4 DEF FailedDegrade
<1>8. MarkedByRunner' = MarkedByRunner
  BY <1>1 DEF MarkedByRunner
<1>9. MarkedByChecker' = MarkedByChecker \union ({k} \X D)
      /\ MarkedByChecker \intersect ({k} \X D) = {}
  <2>1. pending'[k] = E /\ \A j \in Checkers \ {k} : pending'[j] = pending[j]
    BY <1>1 DEF Inv, TypeOK
  <2>2. ASSUME NEW e PROVE e \in MarkedByChecker' <=> e \in MarkedByChecker \union ({k} \X D)
    <3>1. CASE e \in Checkers \X Tasks /\ e[1] = k
      <4>1. e \notin MarkedByChecker
        BY <1>1, <3>1 DEF MarkedByChecker
      <4>2. e \in MarkedByChecker' <=> e[2] \in E /\ Criticality[e[2]] = "degrade"
        BY <2>1, <3>1 DEF MarkedByChecker
      <4>3. e \in {k} \X D <=> e[2] \in D
        BY <3>1
      <4> QED BY <4>1, <4>2, <4>3
    <3>2. CASE e \in Checkers \X Tasks /\ e[1] # k
      <4>1. pending'[e[1]] = pending[e[1]]
        BY <2>1, <3>2
      <4>2. e \notin {k} \X D
        BY <3>2
      <4> QED BY <3>2, <4>1, <4>2 DEF MarkedByChecker
    <3>3. CASE e \notin Checkers \X Tasks
      <4>1. e \notin {k} \X D
        BY <1>2, <3>3
      <4> QED BY <3>3, <4>1 DEF MarkedByChecker
    <3> QED BY <3>1, <3>2, <3>3
  <2>3. MarkedByChecker \intersect ({k} \X D) = {}
    BY <1>1 DEF MarkedByChecker
  <2> QED BY <2>2, <2>3
<1>10. IsFiniteSet(D) /\ Cardinality(D) \in Nat
  <2>1. D \in SUBSET Tasks
    BY <1>2
  <2> HIDE DEF D
  <2> QED BY <2>1, SupervisorAssumption, FS_Subset, FS_CardinalityType
<1> HIDE DEF D
<1>11. IsFiniteSet({k} \X D) /\ Cardinality({k} \X D) = Cardinality(D)
  <2>1. IsFiniteSet({k}) /\ Cardinality({k}) = 1
    BY FS_Singleton
  <2>2. IsFiniteSet({k} \X D) /\ Cardinality({k} \X D) = Cardinality({k}) * Cardinality(D)
    BY <1>10, <2>1, FS_Product
  <2> QED BY <1>10, <2>1, <2>2
<1>12. Cardinality(FailedDegrade') = Cardinality(FailedDegrade) + Cardinality(D)
  <2>1. Cardinality(FailedDegrade \union D) = Cardinality(FailedDegrade) + Cardinality(D)
                                                - Cardinality(FailedDegrade \intersect D)
    BY <1>10, Finite, FS_Union DEF Inv
  <2>2. Cardinality(FailedDegrade \intersect D) = 0
    BY <1>7, FS_EmptySet
  <2>3. Cardinality(FailedDegrade') = Cardinality(FailedDegrade \union D)
    BY <1>7
  <2>4. Cardinality(FailedDegrade) \in Nat
    BY Finite DEF Inv
  <2> QED BY <1>10, <2>1, <2>2, <2>3, <2>4
<1>13. Cardinality(MarkedByChecker') = Cardinality(MarkedByChecker) + Cardinality(D)
  <2> DEFINE P == {k} \X D
  <2>1. Cardinality(MarkedByChecker \union P) = Cardinality(MarkedByChecker) + Cardinality(P)
                                                  - Cardinality(MarkedByChecker \intersect P)
    BY <1>11, Finite, FS_Union DEF Inv
  <2>2. Cardinality(MarkedByChecker \intersect P) = 0
    BY <1>9, FS_EmptySet
  <2>3. Cardinality(MarkedByChecker') = Cardinality(MarkedByChecker \union P)
    BY <1>9
  <2>4. Cardinality(MarkedByChecker) \in Nat
    BY Finite DEF Inv
  <2>5. Cardinality(P) = Cardinality(D)
    BY <1>11
  <2> HIDE DEF P
  <2> QED BY <1>10, <2>1, <2>2, <2>3, <2>4, <2>5
<1>14. degraded = Cardinality(FailedDegrade)
                    - (Cardinality(MarkedByRunner) + Cardinality(MarkedByChecker))
  BY DEF Inv, DegradeCountSettles, Uncounted
<1>15. degraded' = Cardinality(FailedDegrade')
                     - (Cardinality(MarkedByRunner) + Cardinality(MarkedByChecker'))
  BY <1>1, <1>10, <1>12, <1>13, <1>14, Finite DEF Inv
<1>16. DegradeCountSettles'
  BY <1>8, <1>15 DEF DegradeCountSettles, Uncounted
<1> QED BY <1>5, <1>6, <1>16 DEF Inv

LEMMA ClassifyExpiredKeeps ==
  ASSUME Inv, NEW k \in Checkers, ClassifyExpired(k)
  PROVE  Inv'
<1>1. PICK n \in pending[k] :
        /\ pending' = [pending EXCEPT ![k] = pending[k] \ {n}]
        /\ fatal' = IF Criticality[n] = "fatal" THEN n ELSE fatal
        /\ shutdown' = (shutdown \/ Criticality[n] = "fatal")
        /\ degraded' = IF Criticality[n] = "degrade" THEN degraded + 1 ELSE degraded
        /\ UNCHANGED <<state, spawn, task, runner, aborted, drain, waiting, early>>
  BY DEF ClassifyExpired
<1>2. n \in Tasks /\ pending[k] \subseteq Tasks
  BY DEF Inv, TypeOK
<1>3. TypeOK'
  <2>1. shutdown' \in BOOLEAN
    BY <1>1
  <2>2. fatal' \in Tasks \union {None}
    BY <1>1, <1>2 DEF Inv, TypeOK
  <2>3. degraded' \in Int
    BY <1>1 DEF Inv, TypeOK
  <2>4. pending' \in [Checkers -> SUBSET Tasks]
    BY <1>1, <1>2 DEF Inv, TypeOK
  <2> QED BY <1>1, <2>1, <2>2, <2>3, <2>4 DEF Inv, TypeOK, Registered
<1>4. Lifecycle' /\ DrainRounds'
  BY <1>1, <1>3, Settled DEF Inv, Lifecycle, Registered
<1>5. FailedDegrade' = FailedDegrade /\ MarkedByRunner' = MarkedByRunner
  BY <1>1 DEF FailedDegrade, MarkedByRunner
<1>6. pending'[k] = pending[k] \ {n} /\ \A j \in Checkers \ {k} : pending'[j] = pending[j]
  BY <1>1 DEF Inv, TypeOK
<1>7. MarkedByChecker' = MarkedByChecker \ {<<k, n>>}
  <2> SUFFICES ASSUME NEW e \in Checkers \X Tasks
               PROVE  e \in MarkedByChecker' <=> e \in MarkedByChecker /\ e # <<k, n>>
    BY DEF MarkedByChecker
  <2>1. e[1] \in Checkers /\ e[2] \in Tasks
    OBVIOUS
  <2>2. e = <<k, n>> <=> e[1] = k /\ e[2] = n
    OBVIOUS
  <2>3. e[2] \in pending'[e[1]] <=> e[2] \in pending[e[1]] /\ ~(e[1] = k /\ e[2] = n)
    BY <1>6, <2>1
  <2> QED BY <2>2, <2>3 DEF MarkedByChecker
<1>8. <<k, n>> \in MarkedByChecker <=> Criticality[n] = "degrade"
  BY <1>1, <1>2 DEF MarkedByChecker
<1>9. Cardinality(MarkedByChecker') = IF <<k, n>> \in MarkedByChecker
                                      THEN Cardinality(MarkedByChecker) - 1
                                      ELSE Cardinality(MarkedByChecker)
  BY <1>7, Finite, FS_RemoveElement DEF Inv
<1>10. degraded = Cardinality(FailedDegrade)
                    - (Cardinality(MarkedByRunner) + Cardinality(MarkedByChecker))
  BY DEF Inv, DegradeCountSettles, Uncounted
<1>11. degraded' = Cardinality(FailedDegrade)
                     - (Cardinality(MarkedByRunner) + Cardinality(MarkedByChecker'))
  BY <1>1, <1>8, <1>9, <1>10, Finite DEF Inv, TypeOK
<1>12. DegradeCountSettles'
  BY <1>5, <1>11 DEF DegradeCountSettles, Uncounted
<1> QED BY <1>3, <1>4, <1>12 DEF Inv

-----------------------------------------------------------------------------
(* The drain sequence.                                                     *)

(* What a step of the drain sequence leaves to prove: that the registry    *)
(* keeps its handles, registrations and failures.                          *)
LEMMA DrainFrame ==
  ASSUME Inv, state' \in [Tasks -> TaskState],
         \A n \in Tasks : /\ state'[n].registered = state[n].registered
                          /\ state'[n].handle = state[n].handle
                          /\ state'[n].failed = state[n].failed,
         aborted' \subseteq Callers, waiting' \subseteq Callers,
         drain' \in {"idle", "tokens", "draining", "aborting", "stopped"},
         UNCHANGED <<spawn, task, runner, pending, fatal, degraded, shutdown, early>>
  PROVE  TypeOK' /\ Lifecycle' /\ DegradeCountSettles'
<1>1. Registered' = Registered
  BY SameRegistered DEF Inv
<1>2. TypeOK'
  BY <1>1 DEF Inv, TypeOK
<1>3. Lifecycle'
  <2>1. ASSUME NEW c \in Callers PROVE Lifecycle!1!(c)'
    BY <1>1 DEF Inv, Lifecycle
  <2>2. ASSUME NEW n \in Tasks PROVE Lifecycle!2!(n)'
    BY <1>1 DEF Inv, Lifecycle
  <2> QED BY <2>1, <2>2 DEF Lifecycle
<1>4. DegradeCountSettles'
  BY SameFailed, SameCount DEF Inv, MarkedByRunner
<1> QED BY <1>2, <1>3, <1>4

(* The stored handles, and that every runner that is still its task's      *)
(* handle is among them.                                                   *)
LEMMA HandlesReturned ==
  ASSUME TypeOK, Lifecycle
  PROVE  /\ Handles \subseteq Callers
         /\ \A c \in Handles : spawn[c] = "returned"
         /\ \A c \in early : state[task[c]].handle = c => c \in Handles
<1>1. Handles \subseteq Callers
  BY DEF Handles, Registered, TypeOK, TaskState
<1>2. \A c \in Handles : spawn[c] = "returned"
  BY DEF Handles, Registered, Lifecycle
<1>3. ASSUME NEW c \in early, state[task[c]].handle = c PROVE c \in Handles
  <2>1. c \in Callers /\ c # None /\ runner[c] # "none"
    BY SupervisorAssumption DEF TypeOK, Lifecycle, None
  <2>2. task[c] \in Registered
    BY <2>1 DEF Lifecycle
  <2> QED BY <1>3, <2>1, <2>2 DEF Handles
<1> QED BY <1>1, <1>2, <1>3

LEMMA DrainKeeps ==
  ASSUME Inv, Drain
  PROVE  Inv'
<1>1. CASE DrainTokens
  <2> DEFINE cut(n) == [state[n] EXCEPT !.token = state[n].token \/ state[n].registered]
  <2>1. /\ state' = [n \in Tasks |-> cut(n)] /\ drain' = "tokens" /\ shutdown
        /\ UNCHANGED <<spawn, task, runner, aborted, pending, fatal, degraded,
                       shutdown, waiting, early>>
    BY <1>1 DEF DrainTokens
  <2>2. \A n \in Tasks : /\ cut(n) \in TaskState
                         /\ cut(n).registered = state[n].registered
                         /\ cut(n).handle = state[n].handle
                         /\ cut(n).failed = state[n].failed
    <3> SUFFICES ASSUME NEW n \in Tasks
                 PROVE  /\ cut(n) \in TaskState
                        /\ cut(n).registered = state[n].registered
                        /\ cut(n).handle = state[n].handle
                        /\ cut(n).failed = state[n].failed
      OBVIOUS
    <3> DEFINE b == state[n].token \/ state[n].registered
    <3>1. state[n] \in TaskState
      BY DEF Inv, TypeOK
    <3>2. b \in BOOLEAN
      OBVIOUS
    <3>3. cut(n) = [state[n] EXCEPT !.token = b]
      OBVIOUS
    <3> HIDE DEF b, cut
    <3>4. cut(n) \in TaskState
      BY <3>1, <3>2, <3>3 DEF TaskState
    <3> QED BY <3>1, <3>3, <3>4 DEF TaskState
  <2> HIDE DEF cut
  <2>3. /\ state' \in [Tasks -> TaskState]
        /\ \A n \in Tasks : /\ state'[n].registered = state[n].registered
                            /\ state'[n].handle = state[n].handle
                            /\ state'[n].failed = state[n].failed
    BY <2>1, <2>2
  <2>4. TypeOK' /\ Lifecycle' /\ DegradeCountSettles'
    BY <2>1, <2>3, DrainFrame DEF Inv, TypeOK
  <2>5. DrainRounds'
    BY <2>1 DEF Inv, DrainRounds
  <2> QED BY <2>4, <2>5 DEF Inv
<1>2. CASE DrainCollect
  <2>1. TypeOK' /\ Lifecycle' /\ DegradeCountSettles'
    BY <1>2, HandlesReturned, DrainFrame DEF Inv, TypeOK, DrainCollect
  <2>2. DrainRounds'
    BY <1>2, HandlesReturned DEF Inv, DrainRounds, DrainCollect
  <2> QED BY <2>1, <2>2 DEF Inv
<1>3. CASE DrainTimeout
  <2>1. TypeOK' /\ Lifecycle' /\ DegradeCountSettles'
    BY <1>3, DrainFrame DEF Inv, TypeOK, DrainTimeout
  <2>2. DrainRounds'
    BY <1>3 DEF Inv, DrainRounds, DrainTimeout, Live
  <2> QED BY <2>1, <2>2 DEF Inv
<1>4. CASE DrainAbort
  <2>1. TypeOK' /\ Lifecycle' /\ DegradeCountSettles'
    BY <1>4, HandlesReturned, DrainFrame DEF Inv, TypeOK, DrainAbort
  <2>2. DrainRounds'
    BY <1>4, HandlesReturned DEF Inv, DrainRounds, DrainAbort
  <2> QED BY <2>1, <2>2 DEF Inv
<1>5. CASE DrainStop
  <2>1. TypeOK' /\ Lifecycle' /\ DegradeCountSettles'
    BY <1>5, DrainFrame DEF Inv, TypeOK, DrainStop
  <2>2. DrainRounds'
    BY <1>5 DEF Inv, DrainRounds, DrainStop, Live
  <2> QED BY <2>1, <2>2 DEF Inv
<1> QED BY <1>1, <1>2, <1>3, <1>4, <1>5 DEF Drain

-----------------------------------------------------------------------------
LEMMA NextKeeps == Inv /\ [Next]_vars => Inv'
<1> SUFFICES ASSUME Inv, [Next]_vars PROVE Inv'
  OBVIOUS
<1>1. CASE UNCHANGED vars
  <2>1. TypeOK' /\ Lifecycle' /\ DegradeCountSettles'
    BY <1>1, DrainFrame DEF Inv, TypeOK, vars
  <2>2. DrainRounds'
    BY <1>1 DEF Inv, DrainRounds, Live, vars
  <2> QED BY <2>1, <2>2 DEF Inv
<1>2. ASSUME NEW c \in Callers, NEW n \in Tasks, SpawnCheck(c, n) PROVE Inv'
  BY <1>2, SpawnCheckKeeps
<1>3. ASSUME NEW c \in Callers, SpawnStore(c) \/ Step(c) \/ Finish(c) PROVE Inv'
  BY <1>3, SpawnStoreKeeps, EnterKeeps, StartKeeps, QuietStepKeeps, FailKeeps,
     ClassifyKeeps, DropKeeps DEF Step
<1>4. ASSUME NEW k \in Checkers, CheckHeartbeats(k) \/ ClassifyExpired(k) PROVE Inv'
  BY <1>4, CheckHeartbeatsKeeps, ClassifyExpiredKeeps
<1>5. ASSUME NEW n \in Tasks, Register(n) \/ BecomeLate(n) \/ RecordHeartbeat(n)
                                \/ DrainTask(n) \/ AbortTask(n) \/ SetTaskReady(n)
      PROVE  Inv'
  BY <1>5, RegisterKeeps, BecomeLateKeeps, RecordHeartbeatKeeps, DrainTaskKeeps,
     AbortTaskKeeps, SetTaskReadyKeeps
<1>6. ASSUME NEW n \in Tasks, NEW b \in BOOLEAN, SetReadinessGated(n, b) PROVE Inv'
  BY <1>6, SetReadinessGatedKeeps
<1>7. CASE RequestShutdown \/ Drain
  BY <1>7, RequestShutdownKeeps, DrainKeeps
<1> QED BY <1>1, <1>2, <1>3, <1>4, <1>5, <1>6, <1>7 DEF Next

(* Every reachable state satisfies the inductive invariant. *)
THEOREM Invariance == Spec => []Inv
BY InitInv, NextKeeps, PTL DEF Spec

(* The registry, the runners and the drain sequence keep their types, and  *)
(* the registry never outgrows profile.max_tasks.                          *)
THEOREM TypeCorrect == Spec => []TypeOK
BY Invariance, PTL DEF Inv

(* degrade_count is the number of failed degrade tasks less the failures   *)
(* marked and not yet counted, whoever marks, clears and counts them.      *)
THEOREM DegradeCountCorrect == Spec => []DegradeCountSettles
BY Invariance, PTL DEF Inv

(* After the drain sequence no runner is alive whose spawn had returned    *)
(* before the shutdown, unless another spawn of its task replaced it.      *)
THEOREM StoppedRuntimeIsQuiet == Spec => []StoppedIsQuiet
<1>1. Inv => StoppedIsQuiet
  BY DEF Inv, DrainRounds, StoppedIsQuiet
<1> QED BY <1>1, Invariance, PTL

=============================================================================
