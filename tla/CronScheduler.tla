---------------------------- MODULE CronScheduler ----------------------------
(***************************************************************************)
(* The scheduled prompts of the supervisor: the cron part of               *)
(* pi-extension/src/daemon/supervisor.ts with cron_registry.ts, status.ts  *)
(* and cron_log.ts, and the prompts it hands to RpcChild.                  *)
(*                                                                         *)
(* All jobs belong to the one daemon of Supervisor, whose every step is    *)
(* taken here too.  A firing reads the job, the registration and the slot, *)
(* may wait for the runtime's get_state, and then decides with what it     *)
(* read before.                                                            *)
(***************************************************************************)
EXTENDS Supervisor

CONSTANTS
  Jobs,         (* the ids a job can have in cron.json                     *)
  Stored,       (* the contents cron.json can have when the supervisor     *)
                (* starts                                                  *)
  MaxEvents     (* bound: scheduled firings and requests of any kind       *)

Skips == {"missing", "desired_stopped", "blocked", "retrying", "failed",
          "starting", "busy"}
CronResult ==
  {"accepted", "rejected", "skipped_disabled", "skipped_missing",
   "skipped_desired_stopped", "skipped_blocked", "skipped_retrying",
   "skipped_failed", "skipped_starting", "skipped_busy"}

CronJob == [enabled : BOOLEAN, skipIfBusy : BOOLEAN, last : Optional(CronResult)]

ControlRequest ==
  [op : {"cron_add", "cron_remove", "cron_enable", "cron_run", "send"},
   job : Optional(Jobs), value : BOOLEAN]

ASSUME CronAssumption ==
  /\ None \notin Jobs \cup CronResult \cup CronJob \cup ControlRequest
  /\ Stored \subseteq [Jobs -> Optional(CronJob)]
  /\ MaxEvents \in Nat

VARIABLES
  jobs,     (* cron.json: the record of every job, None where there is none*)
  armed,    (* cronJobs: the jobs with a live Cron timer                   *)
  missed,   (* the catch-up jobs that missed a fire while down             *)
  firings,  (* the firings and sends that wait for the runtime             *)
  waiting,  (* the request that awaits the reconciliation it began         *)
  late,     (* ghost: the jobs armed by a request the shutdown overtook    *)
  events    (* used up of the bound, but for lifecycle requests            *)

cronVars == <<jobs, armed, missed, firings, waiting, late, events>>
allVars == <<vars, cronVars>>

(* A firing of a job, or the send of a control request (job None), on the  *)
(* slot it captured: plan is what it does unless the runtime is busy,      *)
(* asked the runtime found ready and sent the one written the prompt.      *)
Firing ==
  [no : Nat, job : Optional(Jobs), slot : Nat, asked : Nat, sent : Nat,
   plan : Skips \cup {"send"}, request : BOOLEAN]

CronTypeOK ==
  /\ TypeOK
  /\ jobs \in [Jobs -> Optional(CronJob)]
  /\ armed \subseteq Jobs /\ missed \subseteq Jobs /\ late \subseteq Jobs
  /\ firings \subseteq Firing
  /\ waiting \in Optional(ControlRequest)
  /\ events \in 0..MaxEvents

Enabled == {j \in Jobs : jobs[j] # None /\ jobs[j].enabled}

(* Supervisor.start has bound the socket, spawned the wanted daemon and    *)
(* scheduled the enabled jobs; runCatchup comes next.                      *)
CronInit ==
  /\ Init /\ queue = <<>>
  /\ jobs \in Stored
  /\ armed = Enabled
  /\ missed \in SUBSET Enabled
  /\ firings = {} /\ waiting = None /\ late = {}
  /\ events = 0

-----------------------------------------------------------------------------
(* A firing.                                                               *)

SlotRuntime == IF slot = None THEN "pending" ELSE handle.runtime

(* healthFor's blocked and failed, for a daemon that should run.           *)
Blocked == slot # None /\ (slot.blocked \/ handle.state = "blocked")
Down == slot = None \/ handle.process \in {"absent", "exited"} \/ handle.runtime = "failed"

(* decideFireAction, but for the busy answer, which it looks at last.      *)
DecideFireAction ==
  IF ~registered \/ ~cwd THEN "missing"
  ELSE IF desired = "stopped" THEN "desired_stopped"
  ELSE IF Blocked THEN "blocked"
  ELSE IF slot # None /\ slot.no \in retries THEN "retrying"
  ELSE IF Down THEN "failed"
  ELSE IF SlotRuntime # "ready" THEN "starting"
  ELSE "send"

(* cronResultFor; a send that could not even be written is rejected.       *)
CronResultFor(action) ==
  IF action = "send" THEN "rejected"
  ELSE [missing |-> "skipped_missing", desired_stopped |-> "skipped_desired_stopped",
        blocked |-> "skipped_blocked", retrying |-> "skipped_retrying",
        failed |-> "skipped_failed", starting |-> "skipped_starting",
        busy |-> "skipped_busy"][action]

(* recordRun: last_run and last_status of a job that is still there.       *)
RecordRun(js, j, result) ==
  IF j = None THEN js
  ELSE [js EXCEPT ![j] = IF @ = None THEN None ELSE [@ EXCEPT !.last = result]]

(* What a firing reads before it waits.                                    *)
Captured ==
  LET found == registered /\ cwd /\ slot # None IN
  [slot  |-> IF found THEN slot.no ELSE 0,
   asked |-> IF found /\ SlotRuntime = "ready" THEN handle.child ELSE 0,
   plan  |-> DecideFireAction]

NewFiring(j, request) ==
  [no |-> events', job |-> j, slot |-> Captured'.slot, asked |-> Captured'.asked,
   sent |-> 0, plan |-> Captured'.plan, request |-> request]

(* sendPrompt on the captured slot's handle, as this step leaves it.       *)
Writable(no) ==
  /\ no = slots' /\ handle'.child # 0
  /\ handle'.process = "running" /\ handle'.runtime = "ready"

(* The firing does what it planned, others being the firings that wait.    *)
Act(f, action, others) ==
  IF action = "send" /\ Writable(f.slot)
  THEN firings' = others \cup {[f EXCEPT !.sent = handle'.child]} /\ UNCHANGED jobs
  ELSE firings' = others /\ jobs' = RecordRun(jobs, f.job, CronResultFor(action))

(* fireJob.  It asks only a runtime that is ready, and only for a job that *)
(* minds a busy one.                                                       *)
Fire(j, manual, request) ==
  LET f == NewFiring(j, request) IN
  CASE jobs[j] = None -> UNCHANGED <<jobs, firings>>
    [] jobs[j] # None /\ ~jobs[j].enabled /\ ~manual ->
         jobs' = RecordRun(jobs, j, "skipped_disabled") /\ UNCHANGED firings
    [] OTHER -> IF f.asked # 0 /\ jobs[j].skipIfBusy
                THEN firings' = firings \cup {f} /\ UNCHANGED jobs
                ELSE Act(f, f.plan, firings)

(* The send request: a ready runtime of a wanted daemon is written the     *)
(* text; anything else is answered at once.                                *)
Send ==
  LET f == NewFiring(None, TRUE) IN
  IF f.asked # 0 /\ desired' = "running" THEN Act(f, "send", firings)
  ELSE UNCHANGED <<jobs, firings>>

(* What the daemon's runtime answers, or does not answer in time: whether  *)
(* it is busy, ...                                                         *)
Resolve(f, busy) ==
  /\ f.sent = 0
  /\ Act(f, IF f.plan = "send" /\ busy THEN "busy" ELSE f.plan, firings \ {f})
  /\ UNCHANGED <<armed, missed, waiting, late, events>>

(* (a get_state answer is also one of the lines that mark a runtime ready, *)
(* and a refused one fails it)                                             *)
AnswerBusy(f, busy) ==
  /\ missed = {}
  /\ Say(f.asked, "rpc_ok") \/ Say(f.asked, "rpc_rejected")
  /\ Resolve(f, busy)

(* Slip: refreshBusy's timer only forgets the request.                     *)
ForgetBusy(f, busy) == f.sent = 0 /\ ~Busy /\ UNCHANGED allVars

(* after 1.5 s the busy mark last seen on stdout stands in,                *)
TimeOutBusy(f, busy) ==
  /\ ~Busy /\ missed = {}
  /\ UNCHANGED vars
  /\ Resolve(f, busy)

(* ... or whether it takes the prompt; no answer in time is a refusal.     *)
AnswerPrompt(f, accepted) ==
  /\ ~Busy /\ missed = {}
  /\ f.sent # 0
  /\ firings' = firings \ {f}
  /\ jobs' = RecordRun(jobs, f.job, IF accepted THEN "accepted" ELSE "rejected")
  /\ UNCHANGED <<vars, armed, missed, waiting, late, events>>

-----------------------------------------------------------------------------
(* Timers and requests.                                                    *)

FireScheduled(j) ==
  /\ ~Busy /\ missed = {}
  /\ j \in armed
  /\ events + requests < MaxEvents /\ events' = events + 1
  /\ UNCHANGED vars
  /\ Fire(j, FALSE, FALSE)
  /\ UNCHANGED <<armed, missed, waiting, late>>

(* runCatchup, before anything else can happen.                            *)
CatchUp(j) ==
  /\ j \in missed
  /\ missed' = missed \ {j}
  /\ UNCHANGED <<vars, armed, waiting, late, events>>
  /\ Fire(j, TRUE, FALSE)

(* scheduleCron and stopCron; jobs is as the request leaves it.            *)
ScheduleCron(j) ==
  armed' = armed \cup {j} /\ late' = IF server' = "up" THEN late ELSE late \cup {j}
StopCron(j) == armed' = armed \ {j} /\ UNCHANGED late

(* addJob under a fresh id: Jobs holds more than the events can use up.    *)
CronAdd(skipIfBusy) ==
  \E j \in Jobs :
    /\ jobs[j] = None
    /\ jobs' = [jobs EXCEPT ![j] = [enabled |-> TRUE, skipIfBusy |-> skipIfBusy,
                                    last |-> None]]
    /\ ScheduleCron(j)

CronRemove(j) == jobs' = [jobs EXCEPT ![j] = None] /\ StopCron(j)

(* Slip: disabling a job leaves its timer.                                 *)
EnableWithoutStop(j, value) ==
  IF jobs[j] = None THEN UNCHANGED <<jobs, armed, late>>
  ELSE /\ jobs' = [jobs EXCEPT ![j].enabled = value]
       /\ IF value THEN ScheduleCron(j) ELSE UNCHANGED <<armed, late>>

CronEnable(j, value) ==
  IF jobs[j] = None THEN UNCHANGED <<jobs, armed, late>>
  ELSE /\ jobs' = [jobs EXCEPT ![j].enabled = value]
       /\ IF value THEN ScheduleCron(j) ELSE StopCron(j)

(* The part of handleRequest after its reconciliation.                     *)
Carry(q) ==
  /\ UNCHANGED missed
  /\ CASE q.op = "cron_add"    -> CronAdd(q.value) /\ UNCHANGED firings
       [] q.op = "cron_remove" -> CronRemove(q.job) /\ UNCHANGED firings
       [] q.op = "cron_enable" -> CronEnable(q.job, q.value) /\ UNCHANGED firings
       [] q.op = "cron_run"    -> Fire(q.job, TRUE, TRUE) /\ UNCHANGED <<armed, late>>
       [] q.op = "send"        -> Send /\ UNCHANGED <<armed, late>>

Requests ==
  [op : {"cron_add"}, job : {None}, value : BOOLEAN]
  \cup [op : {"cron_remove", "cron_run"}, job : Jobs, value : {TRUE}]
  \cup [op : {"cron_enable"}, job : Jobs, value : BOOLEAN]
  \cup [op : {"send"}, job : {None}, value : {TRUE}]

(* A request that began a reconciliation waits for its end; any other goes *)
(* on at once.                                                             *)
AskSupervisor(q) ==
  /\ ~Busy /\ missed = {} /\ server = "up"
  /\ events + requests < MaxEvents /\ events' = events + 1
  /\ Reconcile(None)
  /\ UNCHANGED <<desired, cwd, handle, slots, procs, stability, server, bounds>>
  /\ IF queue' # queue
     THEN waiting' = q /\ UNCHANGED <<jobs, armed, missed, firings, late>>
     ELSE Carry(q) /\ UNCHANGED waiting

-----------------------------------------------------------------------------
(* The supervisor's own steps, with what they do to jobs and firings.      *)

(* Slip: the exit leaves the get_state requests of the runtime pending.    *)
SettlePromptsOnly ==
  /\ LET settled == {f \in firings : f.asked = handle.child /\ f.sent # 0} IN
     /\ firings' = firings \ settled
     /\ jobs' = [j \in Jobs |->
          LET own == {f \in settled : f.job = j} IN
          IF own = {} THEN jobs[j] ELSE RecordRun(jobs, j, "rejected")[j]]
  /\ UNCHANGED <<armed, missed, waiting, late, events>>

(* onExit answers everything the runtime was asked: it is not busy, it     *)
(* refused the prompt.  A firing that then sends finds no ready runtime.   *)
SettleAll ==
  /\ LET settled == {f \in firings : f.asked = handle.child} IN
     /\ firings' = firings \ settled
     /\ jobs' = [j \in Jobs |->
          LET own == {f \in settled : f.job = j} IN
          IF own = {} THEN jobs[j]
          ELSE RecordRun(jobs, j, CronResultFor(
                 (CHOOSE f \in own : \A g \in own : g.no <= f.no).plan))[j]]
  /\ UNCHANGED <<armed, missed, waiting, late, events>>

Supervised(A) ==
  /\ missed = {}
  /\ A
  /\ CASE handle.child # 0 /\ handle'.child = 0 -> SettleAll
       [] waiting # None /\ Reconciling /\ ~Reconciling' ->
            waiting' = None /\ UNCHANGED events /\ Carry(waiting)
       [] server = "up" /\ server' # "up" ->
            /\ armed' = {}
            /\ UNCHANGED <<jobs, missed, firings, waiting, late, events>>
       [] OTHER -> UNCHANGED cronVars

(* The shutdown also waits for the requests that are being served.         *)
Served == waiting = None /\ \A f \in firings : ~f.request

ProcessStep ==
  \E r \in DOMAIN procs :
    ReportSpawn(r) \/ Crash(r) \/ Die(r) \/ \E line \in Lines : Say(r, line)

CronNext ==
  \/ \E j \in Jobs : CatchUp(j)
  \/ \E j \in Jobs : FireScheduled(j)
  \/ \E f \in firings, b \in BOOLEAN : AnswerBusy(f, b)
  \/ \E f \in firings, b \in BOOLEAN : TimeOutBusy(f, b)
  \/ \E f \in firings, b \in BOOLEAN : AnswerPrompt(f, b)
  \/ \E q \in Requests : AskSupervisor(q)
  \/ Supervised(RunOperation)
  \/ Supervised(ProcessStep)
  \/ Supervised(TimeOutReadiness)
  \/ Supervised(\E no \in retries : FireRetry(no))
  \/ Supervised(FireStability)
  \/ Supervised(events + requests < MaxEvents /\ \E kind \in Kinds : Request(kind))
  \/ Supervised(ReconcileTick)
  \/ Supervised(MoveCwd)
  \/ Supervised(Shutdown)
  \/ Supervised(Served /\ StopChild)
  \/ Supervised(GoDown)

(* Supervisor's fairness; beyond it, the catch-up runs and the timers of   *)
(* pending questions and prompts fire.                                     *)
CronFairness ==
  /\ WF_allVars(Supervised(RunOperation))
  /\ WF_allVars(Supervised(\E r \in DOMAIN procs : ReportSpawn(r) \/ Die(r)))
  /\ WF_allVars(Supervised(\E no \in retries : FireRetry(no)))
  /\ WF_allVars(Supervised(Served /\ StopChild)) /\ WF_allVars(Supervised(GoDown))
  /\ WF_allVars(\E j \in Jobs : CatchUp(j))
  /\ WF_allVars(\E f \in firings, b \in BOOLEAN : TimeOutBusy(f, b))
  /\ WF_allVars(\E f \in firings : AnswerPrompt(f, FALSE))

CronSpec == CronInit /\ [][CronNext]_allVars /\ CronFairness

-----------------------------------------------------------------------------
(* Properties.                                                             *)

(* A firing that found a runtime ready and asked it whether it is busy     *)
(* waits on that runtime only: however it crashes, is restarted or         *)
(* replaced meanwhile, the prompt never reaches a later runtime of the     *)
(* slot, which was never asked (refreshBusy, sendPrompt, onExit).          *)
PromptStaysWithItsRuntime ==
  \A f \in firings : f.asked = handle.child /\ f.sent \in {0, f.asked}

(* The live timers are those of the enabled jobs, whatever was added,      *)
(* removed, enabled or disabled; once a shutdown has begun only a request  *)
(* it overtook can have armed one (scheduleCron, stopCron, stop).          *)
ArmedFollowsJobs ==
  IF server = "up" THEN armed = Enabled ELSE armed \subseteq late

(* Every firing ends in a recorded result, and a shutdown that waits for a *)
(* cron_run or a send ends too, as long as every spawn succeeds.           *)
FiringsEnd ==
  /\ firings # {} ~> (firings = {} \/ SpawnRefused)
  /\ server = "draining" ~> (server = "down" \/ SpawnRefused)
=============================================================================
