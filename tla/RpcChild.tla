------------------------------ MODULE RpcChild ------------------------------
(***************************************************************************)
(* The supervisor's handle on one `pi --mode rpc` process:                 *)
(* pi-extension/src/daemon/rpc_child.ts.                                   *)
(*                                                                         *)
(* A handle is a record and each method a function on it; the events a     *)
(* method emits are read off the change of the record.  A runtime is       *)
(* numbered by the spawn that started it (runtime_instance_id).  Relay     *)
(* state, busy marks and prompts do not decide the lifecycle.              *)
(***************************************************************************)
EXTENDS Naturals

(* What a runtime's stdout can say about the lifecycle: a get_state answer *)
(* (accepted or rejected), the extension's runtime_ready, and a            *)
(* runtime_failed the extension calls retryable or not.  A runtime_ready   *)
(* of another control protocol version counts as a fatal failure.          *)
Lines == {"rpc_ok", "rpc_rejected", "ext_ready", "failed_retryable", "failed_fatal"}

(* child is the runtime behind the ChildProcess object, 0 for null; probe  *)
(* tells whether the readiness timer is armed.                             *)
Handle ==
  [child    : Nat,
   process  : {"absent", "spawning", "running", "exited"},
   runtime  : {"pending", "ready", "failed"},
   state    : {"stopped", "starting", "running", "crashed", "blocked"},
   stopping : BOOLEAN,
   rpcReady : BOOLEAN,
   extensionReady : BOOLEAN,
   probe    : BOOLEAN]

NewHandle ==
  [child |-> 0, process |-> "absent", runtime |-> "pending",
   state |-> "stopped", stopping |-> FALSE, rpcReady |-> FALSE,
   extensionReady |-> FALSE, probe |-> FALSE]

Spawned(h, r) ==
  IF h.child # 0 THEN h
  ELSE [child |-> r, process |-> "spawning", runtime |-> "pending",
        state |-> "starting", stopping |-> FALSE, rpcReady |-> FALSE,
        extensionReady |-> FALSE, probe |-> TRUE]

(* Node's "spawn" event.                                                   *)
Started(h, r) ==
  IF h.child = r /\ h.process = "spawning"
  THEN [h EXCEPT !.process = "running"] ELSE h

FailRuntime(h, retryable) ==
  IF h.runtime = "failed" THEN h
  ELSE [h EXCEPT !.runtime = "failed", !.probe = FALSE,
                 !.state = IF retryable THEN "crashed" ELSE "blocked"]

(* Node's "error" event: there is no process, and no "exit" will follow.   *)
SpawnFailed(h) == [FailRuntime(h, TRUE) EXCEPT !.process = "exited"]

Complete(h) ==
  h.rpcReady /\ h.extensionReady /\ h.runtime # "failed" /\ h.child # 0

MaybeMarkReady(h) ==
  IF Complete(h)
  THEN [h EXCEPT !.process = "running", !.probe = FALSE,
                 !.runtime = "ready", !.state = "running"]
  ELSE h

(* The runtime_ready of a runtime that is not the current one is a fatal   *)
(* identity mismatch; one that comes after a failure or an exit is ignored.*)
AcceptExtensionReady(h, r) ==
  IF h.runtime = "failed" \/ h.child = 0 THEN h
  ELSE IF r # h.child THEN FailRuntime(h, FALSE)
  ELSE MaybeMarkReady([h EXCEPT !.extensionReady = TRUE])

(* One line of runtime r's stdout.  Nothing compares r with the current    *)
(* runtime unless the line carries an identity.                            *)
Heard(h, r, line) ==
  CASE line = "rpc_ok"           -> MaybeMarkReady([h EXCEPT !.rpcReady = TRUE])
    [] line = "rpc_rejected"     -> FailRuntime(h, TRUE)
    [] line = "ext_ready"        -> AcceptExtensionReady(h, r)
    [] line = "failed_retryable" -> FailRuntime(h, TRUE)
    [] line = "failed_fatal"     -> FailRuntime(h, FALSE)

ReadinessTimedOut(h) == FailRuntime(h, ~(h.rpcReady /\ ~h.extensionReady))

Stopping(h) == IF h.child = 0 THEN h ELSE [h EXCEPT !.stopping = TRUE]

Exited(h) ==
  [h EXCEPT !.child = 0, !.process = "exited", !.probe = FALSE,
            !.runtime = IF @ = "failed" THEN @ ELSE "pending",
            !.state = IF h.stopping THEN "stopped" ELSE "crashed"]

(* Which event a change from old to new emits.                             *)
EmitsFailure(old, new) == old.runtime # "failed" /\ new.runtime = "failed"
Retryable(new) == new.state = "crashed"
EmitsReady(new, line) == line \in {"rpc_ok", "ext_ready"} /\ Complete(new)
=============================================================================
