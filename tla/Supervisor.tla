----------------------------- MODULE Supervisor -----------------------------
(***************************************************************************)
(* The daemon supervisor: pi-extension/src/daemon/supervisor.ts, with the  *)
(* registration it keeps in daemons.json (registry.ts) and the RpcChild    *)
(* handle of each slot.                                                    *)
(*                                                                         *)
(* One registration is modelled: the lifecycle queue, the slot and the     *)
(* timers are kept per id and nothing of one id's decides another's.       *)
(*                                                                         *)
(* JavaScript runs a callback to its end, then every promise reaction that *)
(* is ready, before the next callback.  The operation at the head of the   *)
(* queue is such a reaction: whenever it can run (Busy), nothing else can. *)
(* It gives way only where it awaits the exit of the child it stops.       *)
(***************************************************************************)
EXTENDS RpcChild, Sequences, FiniteSets

CONSTANTS
  RetryBudget,    (* RESTART_BACKOFFS_MS.length                            *)
  Confirmations,  (* MISSING_CWD_CONFIRMATIONS                             *)
  MaxRequests,    (* bound: control requests                               *)
  MaxFaults,      (* bound: crashes, failure lines and readiness timeouts  *)
  MaxMoves,       (* bound: times the cwd vanishes or comes back           *)
  None

ASSUME SupervisorAssumption ==
  /\ RetryBudget \in Nat /\ Confirmations \in Nat \ {0}
  /\ MaxRequests \in Nat /\ MaxFaults \in Nat /\ MaxMoves \in Nat
  /\ None \notin {"start", "stop", "restart", "unregister"}

VARIABLES
  registered, (* the registration is in daemons.json                       *)
  desired,    (* its desired_state                                         *)
  cwd,        (* its working directory exists                              *)
  slot,       (* the ChildSlot in children, None when there is none        *)
  handle,     (* the RpcChild of the slot created last                     *)
  slots,      (* slots created so far; the last one has this number        *)
  procs,      (* the spawned runtimes in order                             *)
  queue,      (* the lifecycle queue, the running operation first          *)
  retries,    (* the slots whose restart timer is armed                    *)
  stability,  (* the runtime whose stability timer is armed, 0 for none    *)
  server,     (* up, draining, closing or down                             *)
  requests, faults, moves   (* used up of the bounds                       *)

registry == <<registered, desired>>
bounds == <<requests, faults, moves>>
vars == <<registry, cwd, slot, handle, slots, procs, queue, retries, stability,
          server, bounds>>

Kinds == {"start", "stop", "restart", "unregister"}
Optional(S) == S \cup {None}

ChildSlot ==
  [no : Nat \ {0}, desired : {"running", "stopped"}, attempt : 0..RetryBudget,
   blocked : BOOLEAN, error : {None, "failure", "exited", "retry_exhausted"},
   missing : 0..Confirmations, reconciling : BOOLEAN]

(* null is not a ChildSlot.                                                *)
ASSUME NoneAssumption == None \notin ChildSlot

(* An operation is bound to a slot when the code captured the slot, and a  *)
(* reconciliation may have the rest of a control request to go on with.    *)
Operation ==
  [kind : Kinds \cup {"fail_stop", "retry", "reconcile"}, slot : Nat,
   pc : {"ready", "stopping", "stopped"}, then : Optional(Kinds)]

Process == [slot : Nat \ {0}, status : {"launching", "up", "failed", "gone"}]

TypeOK ==
  /\ registered \in BOOLEAN /\ desired \in {"running", "stopped"}
  /\ cwd \in BOOLEAN
  /\ slot \in Optional(ChildSlot)
  /\ handle \in Handle
  /\ slots \in Nat
  /\ procs \in Seq(Process)
  /\ queue \in Seq(Operation)
  /\ retries \in SUBSET Nat
  /\ stability \in Nat
  /\ server \in {"up", "draining", "closing", "down"}
  /\ requests \in 0..MaxRequests /\ faults \in 0..MaxFaults /\ moves \in 0..MaxMoves

Op(kind, no, then) == [kind |-> kind, slot |-> no, pc |-> "ready", then |-> then]

NewSlot(no) ==
  [no |-> no, desired |-> "running", attempt |-> 0, blocked |-> FALSE,
   error |-> None, missing |-> 0, reconciling |-> FALSE]

(* createSlot puts a slot with a fresh handle into children and spawns.    *)
CreateSlot ==
  /\ slots' = slots + 1
  /\ slot' = NewSlot(slots + 1)
  /\ handle' = Spawned(NewHandle, Len(procs) + 1)
  /\ procs' = Append(procs, [slot |-> slots + 1, status |-> "launching"])

(* slot.child.spawn() on an existing handle: nothing while it has a child. *)
SpawnAgain ==
  /\ handle' = Spawned(handle, Len(procs) + 1)
  /\ procs' = IF handle.child # 0 THEN procs
              ELSE Append(procs, [slot |-> slots, status |-> "launching"])

Live == {r \in DOMAIN procs : procs[r].status \in {"launching", "up"}}

(* Supervisor.start: bindUds, then spawnDesiredEntries; or an entry a      *)
(* register request has just added and enqueued a start for.               *)
Init ==
  /\ registered = TRUE /\ cwd = TRUE
  /\ desired \in {"running", "stopped"}
  /\ \/ /\ desired = "running"
        /\ slots = 1 /\ slot = NewSlot(1)
        /\ handle = Spawned(NewHandle, 1)
        /\ procs = <<[slot |-> 1, status |-> "launching"]>>
        /\ queue = <<>>
     \/ /\ slots = 0 /\ slot = None /\ handle = NewHandle /\ procs = <<>>
        /\ queue = IF desired = "running" THEN <<Op("start", 0, None)>> ELSE <<>>
  /\ retries = {} /\ stability = 0
  /\ server = "up"
  /\ requests = 0 /\ faults = 0 /\ moves = 0

-----------------------------------------------------------------------------
(* Between two callbacks.  Node reports the outcome of a spawn before it   *)
(* runs another callback.                                                  *)

Busy == \/ queue # <<>> /\ Head(queue).pc # "stopping"
        \/ \E r \in DOMAIN procs : procs[r].status = "launching"

Current(no) == slot # None /\ slot.no = no

(* Operators marked Slip are faulty readings of the definition that        *)
(* follows them; nothing uses them.  They show what the properties catch.  *)

(* scheduleRetry, on the slot as s.                                        *)
Scheduled(s) ==
  IF s.no \in retries \/ s.blocked \/ s.desired # "running"
  THEN [slot |-> s, retries |-> retries]
  ELSE IF s.attempt >= RetryBudget
  THEN [slot |-> [s EXCEPT !.error = "retry_exhausted"], retries |-> retries]
  ELSE [slot |-> s, retries |-> retries \cup {s.no}]

(* Slip: a retryable failure leaves the retry to the exit it causes.       *)
RetryLeftToExit(retryable) ==
  IF slot = None \/ server # "up" \/ slot.desired = "stopped"
  THEN UNCHANGED <<slot, queue, retries, stability>>
  ELSE LET failed == [slot EXCEPT !.error = "failure"] IN
       /\ queue' = Append(queue, Op("fail_stop", slot.no, None))
       /\ IF retryable
          THEN slot' = failed /\ UNCHANGED <<retries, stability>>
          ELSE /\ slot' = [failed EXCEPT !.blocked = TRUE]
               /\ retries' = retries \ {slot.no}
               /\ stability' = 0

(* onRuntimeFailed: a retryable failure arms the restart timer, any other  *)
(* blocks the slot; either way the child is stopped, in turn.              *)
OnRuntimeFailed(retryable) ==
  IF slot = None \/ server # "up" \/ slot.desired = "stopped"
  THEN UNCHANGED <<slot, queue, retries, stability>>
  ELSE LET failed == [slot EXCEPT !.error = "failure"] IN
       /\ queue' = Append(queue, Op("fail_stop", slot.no, None))
       /\ IF retryable
          THEN /\ slot' = Scheduled(failed).slot
               /\ retries' = Scheduled(failed).retries
               /\ UNCHANGED stability
          ELSE /\ slot' = [failed EXCEPT !.blocked = TRUE]
               /\ retries' = retries \ {slot.no}
               /\ stability' = 0

(* onRuntimeReady: the stability window starts (again) for this runtime.   *)
OnRuntimeReady ==
  /\ stability' = IF slot = None \/ server # "up" \/ slot.desired # "running"
                  THEN stability ELSE handle.child
  /\ UNCHANGED <<slot, queue, retries>>

(* onChildExit.                                                            *)
OnChildExit(isCrash) ==
  IF slot = None \/ server # "up" \/ slot.desired = "stopped" \/ slot.blocked
  THEN UNCHANGED <<slot, retries, stability>>
  ELSE /\ stability' = 0
       /\ IF ~isCrash THEN UNCHANGED <<slot, retries>>
          ELSE LET exited == [slot EXCEPT !.error = IF @ = None THEN "exited" ELSE @]
               IN /\ slot' = Scheduled(exited).slot
                  /\ retries' = Scheduled(exited).retries

-----------------------------------------------------------------------------
(* The processes.                                                          *)

(* Node reports that the process started, or that it could not: the pi     *)
(* binary or the working directory is missing, or the system refused.      *)
ReportSpawn(r) ==
  /\ procs[r].status = "launching"
  /\ \/ /\ cwd
        /\ procs' = [procs EXCEPT ![r].status = "up"]
        /\ handle' = IF procs[r].slot = slots THEN Started(handle, r) ELSE handle
        /\ UNCHANGED <<slot, queue, retries, stability>>
     \/ /\ procs' = [procs EXCEPT ![r].status = "failed"]
        /\ IF procs[r].slot # slots
           THEN UNCHANGED <<handle, slot, queue, retries, stability>>
           ELSE /\ handle' = SpawnFailed(handle)
                /\ IF EmitsFailure(handle, SpawnFailed(handle))
                   THEN OnRuntimeFailed(TRUE)
                   ELSE UNCHANGED <<slot, queue, retries, stability>>
  /\ UNCHANGED <<registry, cwd, slots, server, bounds>>

(* A runtime says a line.  Node may report an exit before the last output  *)
(* of the process, so a line may still come from one that is gone.  A line *)
(* of an older slot reaches that slot's handle and changes nothing.        *)
Say(r, line) ==
  /\ ~Busy
  /\ procs[r].status \in {"up", "gone"} /\ procs[r].slot = slots
  /\ line \in {"rpc_rejected", "failed_retryable", "failed_fatal"} =>
       faults < MaxFaults
  /\ faults' = IF line \in {"rpc_ok", "ext_ready"} THEN faults ELSE faults + 1
  /\ LET new == Heard(handle, r, line) IN
     /\ handle' = new
     /\ IF EmitsFailure(handle, new) THEN OnRuntimeFailed(Retryable(new))
        ELSE IF EmitsReady(new, line) THEN OnRuntimeReady
        ELSE UNCHANGED <<slot, queue, retries, stability>>
  /\ UNCHANGED <<registry, cwd, slots, procs, server, requests, moves>>

TimeOutReadiness ==
  /\ ~Busy
  /\ handle.probe /\ faults < MaxFaults
  /\ faults' = faults + 1
  /\ LET new == ReadinessTimedOut(handle) IN
     /\ handle' = new
     /\ IF EmitsFailure(handle, new) THEN OnRuntimeFailed(Retryable(new))
        ELSE UNCHANGED <<slot, queue, retries, stability>>
  /\ UNCHANGED <<registry, cwd, slots, procs, server, requests, moves>>

(* The exit of the child resolves the stop that awaits it.                 *)
Resumed == IF queue # <<>> /\ Head(queue).pc = "stopping"
           THEN [queue EXCEPT ![1].pc = "stopped"] ELSE queue

ReportExit(r) ==
  /\ ~Busy
  /\ procs[r].status = "up"
  /\ procs' = [procs EXCEPT ![r].status = "gone"]
  /\ IF handle.child = r
     THEN /\ handle' = Exited(handle)
          /\ OnChildExit(~handle.stopping)
          /\ queue' = Resumed
     ELSE UNCHANGED <<handle, slot, retries, stability, queue>>
  /\ UNCHANGED <<registry, cwd, slots, server, requests, moves>>

(* The process ends by itself, whatever its exit code.                     *)
Crash(r) ==
  /\ faults < MaxFaults /\ faults' = faults + 1
  /\ ~(handle.child = r /\ handle.stopping)
  /\ ReportExit(r)

(* SIGTERM, or SIGKILL five seconds later, ends the process.               *)
Die(r) ==
  /\ handle.child = r /\ handle.stopping
  /\ ReportExit(r)
  /\ UNCHANGED faults

-----------------------------------------------------------------------------
(* The lifecycle operations.  Each is one promise reaction up to the await *)
(* on child.stop(), and another one after it.                              *)

Running(kind) == queue # <<>> /\ Head(queue).kind = kind
Begins(kind) == Running(kind) /\ Head(queue).pc = "ready"
Resumes(kind) == Running(kind) /\ Head(queue).pc = "stopped"

Finish == queue' = Tail(queue)

(* Slip: child.stop() is not awaited.                                      *)
StopUnawaited ==
  /\ handle' = Stopping(handle)
  /\ queue' = [queue EXCEPT ![1].pc = "stopped"]

(* Slip: child.stop() waits for an exit even when there is no child.       *)
AwaitExit ==
  /\ handle' = Stopping(handle)
  /\ queue' = [queue EXCEPT ![1].pc = "stopping"]

(* await slot.child.stop(): returns at once when there is no child.        *)
AwaitStop ==
  /\ handle' = Stopping(handle)
  /\ queue' = [queue EXCEPT ![1].pc = IF handle.child = 0 THEN "stopped" ELSE "stopping"]

CancelTimers == retries' = retries \ {slot.no} /\ stability' = 0

StartIgnored ==
  /\ Begins("start")
  /\ IF ~registered THEN UNCHANGED <<desired, slot>>
     ELSE /\ desired' = "running"
          /\ slot # None => handle.process \in {"running", "spawning"} /\ ~slot.blocked
          /\ slot = None => server # "up"
          /\ slot' = IF slot = None THEN None ELSE [slot EXCEPT !.desired = "running"]
  /\ Finish
  /\ UNCHANGED <<registered, handle, slots, procs, retries, stability>>

StartNew ==
  /\ Begins("start") /\ registered /\ slot = None /\ server = "up"
  /\ desired' = "running"
  /\ CreateSlot
  /\ Finish
  /\ UNCHANGED <<registered, retries, stability>>

Unblocked(s) == [s EXCEPT !.blocked = FALSE, !.error = None, !.desired = "running"]

(* A blocked slot's failing child has always been stopped by the operation *)
(* enqueued with the failure, so the second branch is never needed.        *)
StartAgain ==
  /\ Begins("start") /\ registered /\ slot # None
  /\ handle.process \notin {"running", "spawning"} \/ slot.blocked
  /\ desired' = "running"
  /\ slot' = Unblocked(slot)
  /\ retries' = retries \ {slot.no}
  /\ IF handle.process = "exited"
     THEN SpawnAgain /\ Finish
     ELSE AwaitStop /\ UNCHANGED procs
  /\ UNCHANGED <<registered, slots, stability>>

StartStopped ==
  /\ Resumes("start")
  /\ IF slot # None /\ server = "up" /\ slot.desired = "running"
     THEN SpawnAgain ELSE UNCHANGED <<handle, procs>>
  /\ Finish
  /\ UNCHANGED <<registry, slot, slots, retries, stability>>

Stop ==
  /\ Begins("stop")
  /\ IF ~registered THEN /\ Finish
                         /\ UNCHANGED <<desired, slot, handle, retries, stability>>
     ELSE /\ desired' = "stopped"
          /\ IF slot = None
             THEN Finish /\ UNCHANGED <<slot, handle, retries, stability>>
             ELSE /\ slot' = [slot EXCEPT !.desired = "stopped"]
                  /\ CancelTimers
                  /\ AwaitStop
  /\ UNCHANGED <<registered, slots, procs>>

Stopped ==
  /\ Resumes("stop") \/ Resumes("fail_stop")
  /\ Finish
  /\ UNCHANGED <<registry, slot, handle, slots, procs, retries, stability>>

(* restartEntry keeps slot.entry as it was: the slot goes anyway.          *)
Restart ==
  /\ Begins("restart")
  /\ IF ~registered THEN /\ Finish
                         /\ UNCHANGED <<desired, slot, handle, retries, stability>>
     ELSE /\ desired' = "running"
          /\ IF slot = None
             THEN /\ queue' = [queue EXCEPT ![1].pc = "stopped"]
                  /\ UNCHANGED <<slot, handle, retries, stability>>
             ELSE /\ slot' = [slot EXCEPT !.blocked = FALSE, !.error = None]
                  /\ CancelTimers
                  /\ AwaitStop
  /\ UNCHANGED <<registered, slots, procs>>

Restarted ==
  /\ Resumes("restart")
  /\ IF server = "up" THEN CreateSlot
     ELSE slot' = None /\ UNCHANGED <<handle, slots, procs>>
  /\ Finish
  /\ UNCHANGED <<registry, retries, stability>>

Unregister ==
  /\ Begins("unregister")
  /\ IF slot = None
     THEN /\ queue' = [queue EXCEPT ![1].pc = "stopped"]
          /\ UNCHANGED <<handle, retries, stability>>
     ELSE CancelTimers /\ AwaitStop
  /\ UNCHANGED <<registry, slot, slots, procs>>

(* The request a reconciliation was part of goes on with its own           *)
(* operation; only unregister asks for no registration.                    *)
Admitted(q, kind, present) ==
  IF kind = None \/ (kind # "unregister" /\ ~present) THEN q
  ELSE Append(q, Op(kind, 0, None))

Removed ==
  /\ Resumes("unregister") \/ Resumes("reconcile")
  /\ slot' = None
  /\ registered' = FALSE
  /\ queue' = Admitted(Tail(queue), Head(queue).then, FALSE)
  /\ UNCHANGED <<desired, handle, slots, procs, retries, stability>>

(* The stop onRuntimeFailed asked for.                                     *)
FailStop ==
  /\ Begins("fail_stop")
  /\ IF Current(Head(queue).slot) THEN AwaitStop ELSE Finish /\ UNCHANGED handle
  /\ UNCHANGED <<registry, slot, slots, procs, retries, stability>>

(* Slip: a retry that fired before a stop is carried out after it.         *)
RetryUnconditionally ==
  /\ Begins("retry")
  /\ IF Current(Head(queue).slot) /\ server = "up" /\ ~slot.blocked
     THEN slot' = [slot EXCEPT !.attempt = @ + 1] /\ SpawnAgain
     ELSE UNCHANGED <<slot, handle, procs>>
  /\ Finish
  /\ UNCHANGED <<registry, slots, retries, stability>>

(* What the restart timer asked for.                                       *)
Retry ==
  /\ Begins("retry")
  /\ IF Current(Head(queue).slot) /\ server = "up" /\ ~slot.blocked /\ slot.desired = "running"
     THEN slot' = [slot EXCEPT !.attempt = @ + 1]
          /\ SpawnAgain
     ELSE UNCHANGED <<slot, handle, procs>>
  /\ Finish
  /\ UNCHANGED <<registry, slots, retries, stability>>

ReconcileMissing ==
  /\ Begins("reconcile")
  /\ IF Current(Head(queue).slot) THEN AwaitStop
     ELSE /\ queue' = Admitted(Tail(queue), Head(queue).then, registered)
          /\ UNCHANGED handle
  /\ UNCHANGED <<registry, slot, slots, procs, retries, stability>>

RunOperation ==
  /\ \/ StartIgnored \/ StartNew \/ StartAgain \/ StartStopped
     \/ Stop \/ Stopped \/ Restart \/ Restarted \/ Unregister \/ Removed
     \/ FailStop \/ Retry \/ ReconcileMissing
  /\ UNCHANGED <<cwd, server, bounds>>

-----------------------------------------------------------------------------
(* Timers, requests and shutdown.                                          *)

FireRetry(no) ==
  /\ ~Busy
  /\ no \in retries
  /\ retries' = retries \ {no}
  /\ queue' = Append(queue, Op("retry", no, None))
  /\ UNCHANGED <<registry, cwd, slot, handle, slots, procs, stability, server, bounds>>

FireStability ==
  /\ ~Busy
  /\ stability # 0
  /\ stability' = 0
  /\ slot' = IF slot # None /\ handle.runtime = "ready" /\ ~slot.blocked
             THEN [slot EXCEPT !.attempt = 0] ELSE slot
  /\ UNCHANGED <<registry, cwd, handle, slots, procs, queue, retries, server, bounds>>

(* reconcileRegistryCwds, and the rest of the request it belongs to.  A    *)
(* reconciliation that runs already is not waited for.                     *)
Reconciling == \E i \in DOMAIN queue : queue[i].kind = "reconcile"

Reconcile(kind) ==
  CASE Reconciling \/ ~registered ->
         /\ queue' = Admitted(queue, kind, registered)
         /\ UNCHANGED <<registered, slot, retries>>
    [] ~Reconciling /\ registered /\ cwd ->
         /\ slot' = IF slot = None THEN None ELSE [slot EXCEPT !.missing = 0]
         /\ queue' = Admitted(queue, kind, TRUE)
         /\ UNCHANGED <<registered, retries>>
    [] ~Reconciling /\ registered /\ ~cwd /\ slot = None ->
         /\ registered' = FALSE
         /\ queue' = Admitted(queue, kind, FALSE)
         /\ UNCHANGED <<slot, retries>>
    [] OTHER ->
         LET seen == IF slot.missing < Confirmations THEN slot.missing + 1
                     ELSE slot.missing IN
         IF seen < Confirmations \/ slot.reconciling
         THEN /\ slot' = [slot EXCEPT !.missing = seen]
              /\ queue' = Admitted(queue, kind, TRUE)
              /\ UNCHANGED <<registered, retries>>
         ELSE /\ slot' = [slot EXCEPT !.missing = seen, !.reconciling = TRUE]
              /\ retries' = retries \ {slot.no}
              /\ queue' = Append(queue, Op("reconcile", slot.no, kind))
              /\ UNCHANGED registered

Request(kind) ==
  /\ ~Busy
  /\ server = "up" /\ requests < MaxRequests
  /\ requests' = requests + 1
  /\ Reconcile(kind)
  /\ UNCHANGED <<desired, cwd, handle, slots, procs, stability, server, faults, moves>>

(* The interval's own reconciliation; only a missing cwd gives it work.    *)
ReconcileTick ==
  /\ ~Busy
  /\ server = "up"
  /\ Reconcile(None)
  /\ UNCHANGED <<desired, cwd, handle, slots, procs, stability, server, bounds>>

MoveCwd ==
  /\ ~Busy
  /\ moves < MaxMoves
  /\ moves' = moves + 1
  /\ cwd' = ~cwd
  /\ UNCHANGED <<registry, slot, handle, slots, procs, queue, retries, stability,
                 server, requests, faults>>

(* Supervisor.stop: cancel the timers, wait for the requests and the       *)
(* queue, stop the child.                                                  *)
Shutdown ==
  /\ ~Busy
  /\ server = "up"
  /\ server' = "draining"
  /\ IF slot = None THEN UNCHANGED <<retries, stability>> ELSE CancelTimers
  /\ UNCHANGED <<registry, cwd, slot, handle, slots, procs, queue, bounds>>

StopChild ==
  /\ ~Busy
  /\ server = "draining" /\ queue = <<>>
  /\ server' = "closing"
  /\ handle' = IF slot = None THEN handle ELSE Stopping(handle)
  /\ UNCHANGED <<registry, cwd, slot, slots, procs, queue, retries, stability, bounds>>

GoDown ==
  /\ ~Busy
  /\ server = "closing"
  /\ slot = None \/ handle.child = 0
  /\ server' = "down" /\ slot' = None
  /\ UNCHANGED <<registry, cwd, handle, slots, procs, queue, retries, stability, bounds>>

Next ==
  \/ RunOperation
  \/ \E r \in DOMAIN procs :
       ReportSpawn(r) \/ Crash(r) \/ Die(r) \/ \E line \in Lines : Say(r, line)
  \/ TimeOutReadiness
  \/ \E no \in retries : FireRetry(no)
  \/ FireStability
  \/ \E kind \in Kinds : Request(kind)
  \/ ReconcileTick
  \/ MoveCwd
  \/ Shutdown \/ StopChild \/ GoDown

(* A reaction that is ready runs, Node reports what became of a spawn, a   *)
(* process that is killed dies, an armed timer fires, and a shutdown goes  *)
(* on.  Nothing else need ever happen.                                     *)
Fairness ==
  /\ WF_vars(RunOperation)
  /\ WF_vars(\E r \in DOMAIN procs : ReportSpawn(r) \/ Die(r))
  /\ WF_vars(\E no \in retries : FireRetry(no))
  /\ WF_vars(StopChild) /\ WF_vars(GoDown)

Spec == Init /\ [][Next]_vars /\ Fairness

-----------------------------------------------------------------------------
(* Safety.                                                                 *)

(* Two processes of one daemon would fight over its endpoint at the relay: *)
(* however starts, stops, restarts, retries and failures interleave, at    *)
(* most one runs, and the current handle holds it, so that a stop reaches  *)
(* it.                                                                     *)
OneProcess ==
  \A r \in Live : procs[r].slot = slots /\ handle.child = r

Settled == ~Busy /\ queue = <<>>

(* Between operations a daemon the operator stopped or removed has no      *)
(* process and no restart timer that could bring it back, a blocked one    *)
(* has no process, and nothing is left once the supervisor is down.        *)
StoppedStaysDown ==
  Settled =>
    /\ ~registered \/ desired = "stopped" \/ server = "down" => Live = {}
    /\ slot # None /\ slot.blocked => Live = {}
    /\ desired = "stopped" /\ slot # None => slot.no \notin retries

(* Between operations a daemon that should run runs, or waits for its      *)
(* restart timer, or says why it does neither: blocked, or out of retries. *)
NeverForgotten ==
  Settled /\ registered /\ desired = "running" /\ server = "up" =>
    /\ slot # None
    /\ \/ Live # {} \/ slot.no \in retries
       \/ slot.blocked \/ slot.error = "retry_exhausted"

(* Liveness.                                                               *)

SpawnRefused == \E r \in DOMAIN procs : procs[r].status = "failed"

(* Every control operation ends, and so does a shutdown, as long as every  *)
(* spawn succeeds.                                                         *)
OperationsEnd ==
  /\ queue # <<>> ~> (queue = <<>> \/ SpawnRefused)
  /\ server = "draining" ~> (server = "down" \/ SpawnRefused)

-----------------------------------------------------------------------------
(* What daemon.md says.                                                    *)

(* Line 96: after a bad configuration (a missing pi binary, say), "correct *)
(* the cause, then explicitly start or restart the daemon".  Such a        *)
(* request is carried out.                                                 *)
RestartIsCarriedOut == queue # <<>> ~> queue = <<>>
=============================================================================
