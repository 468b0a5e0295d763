------------------------------ MODULE Supervisor -------------------------------
(***************************************************************************)
(* The task supervisor and the drain sequence of opc-runtime: spawned      *)
(* runners with restart policies (supervisor/mod.rs, restart.rs, spawn.rs),*)
(* heartbeat checks by the monitor and by every readiness probe            *)
(* (heartbeat.rs), and the ordered shutdown that ends with all tasks       *)
(* stopped (supervisor/shutdown.rs, runtime.rs).                           *)
(*                                                                         *)
(* The tasks lock makes each of its critical sections one step; what the   *)
(* code does after releasing it is a step of its own. Clocks are not       *)
(* modelled: a failure window may have expired whenever it is looked at, a *)
(* backoff or a drain timeout may end at any time, and a task with a       *)
(* heartbeat timeout may become late at any time. is_ready, which only     *)
(* the readiness answer reads, the simulated memory limiter and the alarms *)
(* are left out.                                                           *)
(***************************************************************************)
EXTENDS Integers, FiniteSetsExt

CONSTANTS
  Tasks,       \* task names
  Callers,     \* calls of spawn; a caller also names the runner it starts
  Checkers,    \* the heartbeat monitor and the readiness probes
  Criticality, \* "fatal", "degrade" or "best-effort" for each task
  Beating,     \* tasks with a heartbeat timeout
  MaxTasks,    \* profile.max_tasks
  MaxRestarts, \* RestartPolicy::max_restarts
  MaxEvents    \* bound on calls of the application and late heartbeats

ASSUME SupervisorAssumption ==
  /\ Criticality \in [Tasks -> {"fatal", "degrade", "best-effort"}]
  /\ Beating \subseteq Tasks
  /\ IsFiniteSet(Tasks) /\ IsFiniteSet(Callers) /\ IsFiniteSet(Checkers)
  /\ "none" \notin Tasks \union Callers
  /\ MaxTasks \in Nat \ {0} /\ MaxRestarts \in Nat /\ MaxEvents \in Nat

VARIABLES
  state,     \* TaskState of each registered task, Absent for the others
  spawn,     \* step of each spawn call
  task,      \* the task each caller has spawned, None before
  runner,    \* step of each supervised runner
  aborted,   \* runners whose abort handle was used
  pending,   \* expired tasks a checker has marked and not yet classified
  fatal,     \* the task of fatal_failure_error, None before
  degraded,  \* degrade_count, before it wraps
  shutdown,  \* the global shutdown token is requested
  drain,     \* step of the drain sequence
  waiting,   \* runners whose exit the drain sequence awaits
  early,     \* runners whose spawn call returned before the shutdown
  events

vars == <<state, spawn, task, runner, aborted, pending, fatal, degraded,
          shutdown, drain, waiting, early, events>>

None == "none"

Absent == [registered |-> FALSE, handle |-> None, failures |-> 0,
           failed |-> FALSE, late |-> FALSE, missedBeat |-> FALSE,
           gated |-> FALSE, token |-> FALSE]

Registered == {n \in Tasks : state[n].registered}

Live(c) == runner[c] \notin {"none", "exited"}

(* A call of the application other than spawn and record_heartbeat, or a   *)
(* heartbeat that becomes late.                                            *)
Event == events < MaxEvents /\ events' = events + 1

Running(n) == state[n].handle # None /\ Live(state[n].handle)

-----------------------------------------------------------------------------
(* Registering and spawning.                                               *)

HasBudget == Cardinality(Registered) < MaxTasks

Register(n) ==
  /\ Event
  /\ n \notin Registered
  /\ HasBudget
  /\ state' = [state EXCEPT ![n] = [Absent EXCEPT !.registered = TRUE]]
  /\ UNCHANGED <<spawn, task, runner, aborted, pending, fatal, degraded,
                 shutdown, drain, waiting, early>>

(* The first critical section of spawn_internal, and tokio::spawn. A task  *)
(* that is registered and not running keeps its state.                     *)
SpawnCheck(c, n) ==
  /\ spawn[c] = "idle"
  /\ IF Running(n) \/ (n \notin Registered /\ ~HasBudget)
     THEN /\ spawn' = [spawn EXCEPT ![c] = "refused"]
          /\ UNCHANGED <<state, task, runner>>
     ELSE /\ spawn' = [spawn EXCEPT ![c] = "started"]
          /\ task' = [task EXCEPT ![c] = n]
          /\ runner' = [runner EXCEPT ![c] = "entry"]
          /\ state' = [state EXCEPT ![n].registered = TRUE]
  /\ UNCHANGED <<aborted, pending, fatal, degraded, shutdown, drain, waiting,
                 early, events>>

(* The second critical section stores the handle. *)
SpawnStore(c) ==
  /\ spawn[c] = "started"
  /\ spawn' = [spawn EXCEPT ![c] = "returned"]
  /\ state' = [state EXCEPT ![task[c]].handle = c]
  /\ early' = IF shutdown THEN early ELSE early \union {c}
  /\ UNCHANGED <<task, runner, aborted, pending, fatal, degraded, shutdown,
                 drain, waiting, events>>

-----------------------------------------------------------------------------
(* run_supervised_task.                                                    *)

Exit(c) ==
  /\ runner' = [runner EXCEPT ![c] = "exited"]

(* The loop entry, with the failure window reset if it has expired. *)
Enter(c) ==
  LET n == task[c] IN
  /\ runner[c] = "entry"
  /\ IF shutdown \/ state[n].token
     THEN Exit(c) /\ UNCHANGED state
     ELSE /\ \/ UNCHANGED state
             \/ state' = [state EXCEPT ![n].failures = 0]
          /\ runner' = [runner EXCEPT ![c] = "start"]
  /\ UNCHANGED <<spawn, task, aborted, pending, fatal, degraded, shutdown,
                 drain, waiting, early, events>>

ClearFailed(n) ==
  /\ state' = [state EXCEPT ![n].failed = FALSE]
  /\ degraded' = IF state[n].failed /\ Criticality[n] = "degrade"
                 THEN degraded - 1 ELSE degraded

(* Mutant: a restart clears the flag and keeps the count. *)
StartKeepingFailed(c) ==
  LET n == task[c] IN
  /\ runner[c] = "start"
  /\ runner' = [runner EXCEPT ![c] = "running"]
  /\ IF state[n].gated
     THEN UNCHANGED <<state, degraded>>
     ELSE /\ state' = [state EXCEPT ![n].failed = FALSE]
          /\ UNCHANGED degraded
  /\ UNCHANGED <<spawn, task, aborted, pending, fatal, shutdown, drain,
                 waiting, early, events>>

(* The future is built, or building it panics; a task that is not gated is *)
(* no longer failed.                                                       *)
Start(c) ==
  LET n == task[c] IN
  /\ runner[c] = "start"
  /\ \/ /\ runner' = [runner EXCEPT ![c] = "failing"]
        /\ UNCHANGED <<state, degraded>>
     \/ /\ runner' = [runner EXCEPT ![c] = "running"]
        /\ IF state[n].gated THEN UNCHANGED <<state, degraded>>
                             ELSE ClearFailed(n)
  /\ UNCHANGED <<spawn, task, aborted, pending, fatal, shutdown, drain,
                 waiting, early, events>>

(* The future ends with an error or a panic, or cleanly; a clean end       *)
(* outside the shutdown of the runtime is an error too, except for         *)
(* best-effort tasks.                                                      *)
Finish(c) ==
  /\ runner[c] = "running"
  /\ \/ runner' = [runner EXCEPT ![c] = "failing"]
     \/ /\ shutdown \/ Criticality[task[c]] = "best-effort"
        /\ Exit(c)
  /\ UNCHANGED <<state, spawn, task, aborted, pending, fatal, degraded,
                 shutdown, drain, waiting, early, events>>

(* handle_task_failure under the tasks lock. *)
Fail(c) ==
  LET n == task[c] IN
  /\ runner[c] = "failing"
  /\ \E failures \in {state[n].failures + 1, 1} :
       state' = [state EXCEPT ![n].failures = failures, ![n].failed = TRUE,
                              ![n].missedBeat = FALSE]
  /\ runner' = [runner EXCEPT ![c] = IF state[n].failed THEN "decide"
                                                        ELSE "classify"]
  /\ UNCHANGED <<spawn, task, aborted, pending, fatal, degraded, shutdown,
                 drain, waiting, early, events>>

(* handle_task_failure after the tasks lock: a first failure is classified *)
(* and the first fatal error is kept.                                      *)
Classify(c) ==
  LET n == task[c] IN
  /\ runner[c] = "classify"
  /\ runner' = [runner EXCEPT ![c] = "decide"]
  /\ fatal' = IF Criticality[n] = "fatal" /\ fatal = None THEN n ELSE fatal
  /\ shutdown' = (shutdown \/ Criticality[n] = "fatal")
  /\ degraded' = IF Criticality[n] = "degrade" THEN degraded + 1 ELSE degraded
  /\ UNCHANGED <<state, spawn, task, aborted, pending, drain, waiting, early,
                 events>>

Decide(c) ==
  LET n == task[c] IN
  /\ runner[c] = "decide"
  /\ IF \/ Criticality[n] = "fatal"
        \/ state[n].failures > MaxRestarts
        \/ shutdown
     THEN Exit(c)
     ELSE runner' = [runner EXCEPT ![c] = "backoff"]
  /\ UNCHANGED <<state, spawn, task, aborted, pending, fatal, degraded,
                 shutdown, drain, waiting, early, events>>

(* The sleep ends, or a shutdown of the runtime or of the task ends it. An *)
(* aborted runner does not come back from the sleep.                       *)
BackoffEnds(c) ==
  /\ runner[c] = "backoff"
  /\ \/ c \notin aborted /\ runner' = [runner EXCEPT ![c] = "entry"]
     \/ (shutdown \/ state[task[c]].token) /\ Exit(c)
  /\ UNCHANGED <<state, spawn, task, aborted, pending, fatal, degraded,
                 shutdown, drain, waiting, early, events>>

(* An aborted runner is dropped at its next suspension point. Counting a   *)
(* degrade failure has none.                                               *)
Drop(c) ==
  /\ c \in aborted
  /\ Live(c)
  /\ runner[c] = "classify" => Criticality[task[c]] # "degrade"
  /\ Exit(c)
  /\ UNCHANGED <<state, spawn, task, aborted, pending, fatal, degraded,
                 shutdown, drain, waiting, early, events>>

-----------------------------------------------------------------------------
(* Heartbeats, readiness and health.                                       *)

BecomeLate(n) ==
  /\ Event
  /\ n \in Beating \intersect Registered
  /\ ~state[n].late
  /\ state' = [state EXCEPT ![n].late = TRUE]
  /\ UNCHANGED <<spawn, task, runner, aborted, pending, fatal, degraded,
                 shutdown, drain, waiting, early>>

(* A heartbeat takes back a failure that was a missed heartbeat. *)
RecordHeartbeat(n) ==
  LET clears == state[n].failed /\ state[n].missedBeat IN
  /\ n \in Registered
  /\ state' = [state EXCEPT ![n].late = FALSE,
                            ![n].failed = @ /\ ~clears]
  /\ degraded' = IF clears /\ Criticality[n] = "degrade" THEN degraded - 1
                                                         ELSE degraded
  /\ UNCHANGED <<spawn, task, runner, aborted, pending, fatal, shutdown, drain,
                 waiting, early, events>>

Expired == {n \in Beating \intersect Registered :
              state[n].late /\ ~state[n].failed /\ Running(n)}

(* check_heartbeats under the tasks lock: late tasks are marked failed and *)
(* aborted. The monitor checks until the shutdown, probes always.          *)
CheckHeartbeats(k) ==
  /\ pending[k] = {}
  /\ Expired # {}
  /\ state' = [n \in Tasks |-> IF n \in Expired
                 THEN [state[n] EXCEPT !.failed = TRUE, !.missedBeat = TRUE]
                 ELSE state[n]]
  /\ aborted' = aborted \union {state[n].handle : n \in Expired}
  /\ pending' = [pending EXCEPT ![k] = Expired]
  /\ UNCHANGED <<spawn, task, runner, fatal, degraded, shutdown, drain,
                 waiting, early, events>>

(* Mutant: expired tasks are marked and not classified. *)
ClassifyExpiredSilently(k) ==
  \E n \in pending[k] :
    /\ pending' = [pending EXCEPT ![k] = @ \ {n}]
    /\ UNCHANGED <<state, spawn, task, runner, aborted, drain, waiting, early,
                   events, fatal, shutdown, degraded>>

(* check_heartbeats after the lock: one expired task after the other. *)
ClassifyExpired(k) ==
  \E n \in pending[k] :
    /\ pending' = [pending EXCEPT ![k] = @ \ {n}]
    /\ fatal' = IF Criticality[n] = "fatal" THEN n ELSE fatal
    /\ shutdown' = (shutdown \/ Criticality[n] = "fatal")
    /\ degraded' = IF Criticality[n] = "degrade" THEN degraded + 1
                                                 ELSE degraded
    /\ UNCHANGED <<state, spawn, task, runner, aborted, drain, waiting, early,
                   events>>

(* set_task_ready(name, true); with false it only changes is_ready. *)
SetTaskReady(n) ==
  /\ Event
  /\ n \in Registered
  /\ ClearFailed(n)
  /\ UNCHANGED <<spawn, task, runner, aborted, pending, fatal, shutdown, drain,
                 waiting, early>>

SetReadinessGated(n, gated) ==
  /\ Event
  /\ n \in Registered
  /\ state' = [state EXCEPT ![n].gated = gated]
  /\ UNCHANGED <<spawn, task, runner, aborted, pending, fatal, degraded,
                 shutdown, drain, waiting, early>>

-----------------------------------------------------------------------------
(* Shutdown.                                                               *)

RequestShutdown ==
  /\ Event
  /\ ~shutdown
  /\ shutdown' = TRUE
  /\ UNCHANGED <<state, spawn, task, runner, aborted, pending, fatal, degraded,
                 drain, waiting, early>>

(* shutdown_task of one task: its token is requested and its exit awaited. *)
DrainTask(n) ==
  /\ Event
  /\ state[n].handle # None
  /\ state' = [state EXCEPT ![n].token = TRUE]
  /\ UNCHANGED <<spawn, task, runner, aborted, pending, fatal, degraded,
                 shutdown, drain, waiting, early>>

(* shutdown_task with the Immediate policy, or its drain timeout. *)
AbortTask(n) ==
  /\ Event
  /\ state[n].handle # None
  /\ aborted' = aborted \union {state[n].handle}
  /\ UNCHANGED <<state, spawn, task, runner, pending, fatal, degraded,
                 shutdown, drain, waiting, early>>

(* Mutant: failed tasks are not awaited. *)
HandlesNotFailed ==
  {state[n].handle : n \in {m \in Registered : ~state[m].failed}} \ {None}

Handles == {state[n].handle : n \in Registered} \ {None}

(* The drain sequence, which runs once: drain hooks and the observation    *)
(* window, then shutdown_all with the remaining time: every task's token.  *)
DrainTokens ==
  /\ drain = "idle"
  /\ shutdown
  /\ drain' = "tokens"
  /\ state' = [n \in Tasks |-> [state[n] EXCEPT !.token =
                                   @ \/ state[n].registered]]
  /\ UNCHANGED <<spawn, task, runner, aborted, pending, fatal, degraded,
                 shutdown, waiting, early, events>>

(* The handles of the tasks are read. *)
DrainCollect ==
  /\ drain = "tokens"
  /\ drain' = "draining"
  /\ waiting' = Handles
  /\ UNCHANGED <<state, spawn, task, runner, aborted, pending, fatal, degraded,
                 shutdown, early, events>>

DrainTimeout ==
  /\ drain = "draining"
  /\ ~(waiting \subseteq aborted)
  /\ aborted' = aborted \union {c \in waiting : Live(c)}
  /\ aborted' # aborted
  /\ UNCHANGED <<state, spawn, task, runner, pending, fatal, degraded,
                 shutdown, drain, waiting, early, events>>

(* All awaited runners are gone: shutdown_all with the Immediate policy.   *)
DrainAbort ==
  /\ drain = "draining"
  /\ \A c \in waiting : ~Live(c)
  /\ drain' = "aborting"
  /\ waiting' = Handles
  /\ aborted' = aborted \union Handles
  /\ UNCHANGED <<state, spawn, task, runner, pending, fatal, degraded,
                 shutdown, early, events>>

DrainStop ==
  /\ drain = "aborting"
  /\ \A c \in waiting : ~Live(c)
  /\ drain' = "stopped"
  /\ UNCHANGED <<state, spawn, task, runner, aborted, pending, fatal, degraded,
                 shutdown, waiting, early, events>>

-----------------------------------------------------------------------------
Init ==
  /\ state = [n \in Tasks |-> Absent]
  /\ spawn = [c \in Callers |-> "idle"]
  /\ task = [c \in Callers |-> None]
  /\ runner = [c \in Callers |-> "none"]
  /\ aborted = {}
  /\ pending = [k \in Checkers |-> {}]
  /\ fatal = None
  /\ degraded = 0
  /\ shutdown = FALSE
  /\ drain = "idle"
  /\ waiting = {}
  /\ early = {}
  /\ events = 0

Step(c) == \/ Enter(c) \/ Start(c) \/ Fail(c) \/ Classify(c) \/ Decide(c)
           \/ BackoffEnds(c) \/ Drop(c)

Drain == DrainTokens \/ DrainCollect \/ DrainTimeout \/ DrainAbort \/ DrainStop

Next ==
  \/ \E c \in Callers : \/ \E n \in Tasks : SpawnCheck(c, n)
                        \/ SpawnStore(c) \/ Step(c) \/ Finish(c)
  \/ \E k \in Checkers : CheckHeartbeats(k) \/ ClassifyExpired(k)
  \/ \E n \in Tasks : \/ Register(n) \/ BecomeLate(n) \/ RecordHeartbeat(n)
                      \/ DrainTask(n) \/ AbortTask(n)
                      \/ SetTaskReady(n)
                      \/ \E b \in BOOLEAN : SetReadinessGated(n, b)
  \/ RequestShutdown
  \/ Drain

Spec == Init /\ [][Next]_vars

(* The executor polls every runner, checker and the drain sequence, and    *)
(* timers fire; whether and when a task's own future ends is left open.    *)
FairSpec ==
  /\ Spec
  /\ \A c \in Callers : WF_vars(Step(c)) /\ WF_vars(SpawnStore(c))
  /\ \A k \in Checkers : WF_vars(ClassifyExpired(k))
  /\ WF_vars(Drain)

-----------------------------------------------------------------------------
RunnerSteps == {"none", "entry", "start", "running", "failing", "classify",
                "decide", "backoff", "exited"}

TaskState ==
  [registered : BOOLEAN, handle : Callers \union {None}, failures : Nat,
   failed : BOOLEAN, late : BOOLEAN, missedBeat : BOOLEAN, gated : BOOLEAN,
   token : BOOLEAN]

(* The registry, the runners and the counters have their types. *)
TypeOK ==
  /\ state \in [Tasks -> TaskState]
  /\ spawn \in [Callers -> {"idle", "refused", "started", "returned"}]
  /\ task \in [Callers -> Tasks \union {None}]
  /\ runner \in [Callers -> RunnerSteps]
  /\ aborted \subseteq Callers /\ waiting \subseteq Callers
  /\ early \subseteq Callers
  /\ pending \in [Checkers -> SUBSET Tasks]
  /\ fatal \in Tasks \union {None}
  /\ degraded \in Int
  /\ shutdown \in BOOLEAN
  /\ drain \in {"idle", "tokens", "draining", "aborting", "stopped"}
  /\ Cardinality(Registered) <= MaxTasks

FailedDegrade == {n \in Tasks : Criticality[n] = "degrade" /\ state[n].failed}

(* Failures of degrade tasks marked under the tasks lock, by runners and   *)
(* by checkers, and not yet counted.                                       *)
MarkedByRunner ==
  {c \in Callers : runner[c] = "classify" /\ Criticality[task[c]] = "degrade"}

MarkedByChecker ==
  {e \in Checkers \X Tasks : e[2] \in pending[e[1]] /\ Criticality[e[2]] = "degrade"}

Uncounted == Cardinality(MarkedByRunner) + Cardinality(MarkedByChecker)

(* degrade_count follows the failed flags of the degrade tasks, whoever    *)
(* sets and clears them in whatever order: once every marked failure is    *)
(* counted it is the number of failed degrade tasks.                       *)
DegradeCountSettles == degraded = Cardinality(FailedDegrade) - Uncounted

(* The runner of a failed task was aborted by shutdown_task; the abort may *)
(* have hit between the marking of the failure and its classification.     *)
Dismissed(n) ==
  /\ ~state[n].missedBeat
  /\ \E c \in aborted : task[c] = n

(* After the drain sequence no runner whose spawn returned before the      *)
(* shutdown is alive, however often it failed, restarted or ignored its    *)
(* token. The exception is a runner whose handle another spawn of the same *)
(* task has replaced: both calls may pass the first check.                 *)
StoppedIsQuiet ==
  drain = "stopped" =>
    \A c \in early : state[task[c]].handle = c => ~Live(c)

(* A failing fatal task stops the runtime, even if other tasks never end   *)
(* by themselves (RFC 008, 7.2: "Transition CNF to fatal shutdown").       *)
FatalStops ==
  \A n \in Tasks :
    (Criticality[n] = "fatal" /\ state[n].failed)
      ~> (drain = "stopped" \/ Dismissed(n))

=============================================================================
