------------------------- MODULE SessionReplacement -------------------------
(***************************************************************************)
(* The remote session_new action (pi-extension/src/actions/                *)
(* session_new_bridge.ts, handlers.ts) among the other ways in which a Pi  *)
(* process replaces its session (the session_before_switch, _before_fork,  *)
(* _shutdown and _start handlers of index.ts).  A new session can only be  *)
(* made from a command, so the bridge sends itself a command with a token  *)
(* through Pi and answers the owner when that command is done, fails or is *)
(* late.  Meanwhile the user at the terminal may replace the session too,  *)
(* the relay may be lost or closed, and other owners ask for the same.     *)
(*                                                                         *)
(* Pi itself is external.  It asks the hooks of a switch whenever it       *)
(* likes, and carries out one switch that passed them at a time.           *)
(***************************************************************************)
EXTENDS Naturals

CONSTANTS
  Owners,
  None,          \* no binding, no local switch, no request
  MaxRequests,   \* bound: session_new requests
  MaxLocals,     \* bound: switches asked for at the terminal
  MaxAttaches,   \* bound: bindings made
  MaxLosses      \* bound: relay connections lost and relays closed

ASSUME BoundsAssumption ==
  MaxRequests \in Nat /\ MaxLocals \in Nat /\ MaxAttaches \in Nat

VARIABLES
  request,    \* the requests that reached dispatch, by number
  asked,      \* how many have
  pending,    \* the one request without an answer, 0 for none
  running,    \* the request whose command runs, 0 for none
  permit,     \* switchPermit: the run's own switch may still pass the hook
  commands,   \* requests whose command Pi has yet to run
  remote,     \* how far the newSession of the run is
  local,      \* the switch asked for at the terminal
  session,    \* currentSessionManager: the session's number, 0 for none
  sessions,   \* sessions begun so far
  replaced,   \* replacedSessionId: owners still to be told of, 0 for none
  binding,    \* activeOwners: the channel and session bound to an owner
  passed,     \* history: switches let through the hooks since the run began
  budget      \* bound: local switches, attachments and losses so far

bridge == <<request, asked, pending, running, permit, commands>>
world  == <<session, sessions, replaced, binding>>
vars == <<bridge, remote, local, world, passed, budget>>

Reasons == {"new", "resume", "fork"}
Answers == {"none", "ok", "error", "refused", "cancelled", "twice"}

Ids == 0..MaxRequests

(* `answer` is what complete sent for the request ("twice" for a second    *)
(* one), `heard` that it went to the channel the request came from, `kept` *)
(* that its run began on that channel, which no lost relay took away       *)
(* since, and `replaced` that its run has begun a new session.             *)
Request == [owner : Owners, channel : Nat, answer : Answers,
            heard : BOOLEAN, kept : BOOLEAN, replaced : BOOLEAN]

Switch == [reason : Reasons, at : {"allowed", "down"}]

ASSUME NoneAssumption == None \notin Switch

TypeOK ==
  /\ request \in [1..MaxRequests -> Request \cup {None}]
  /\ asked \in Ids /\ \A i \in 1..asked : request[i] \in Request
  /\ pending \in 0..asked /\ running \in 0..asked /\ permit \in BOOLEAN
  /\ commands \subseteq 1..asked
  /\ remote \in {"none", "asking", "allowed", "down", "up", "failed",
                 "answered"}
  /\ local \in Switch \cup {None}
  /\ session \in Nat /\ sessions \in Nat /\ replaced \in Nat
  /\ binding \in [Owners -> [channel : Nat, session : Nat] \cup {None}]
  /\ passed \in Nat
  /\ budget \in [{"local", "attach", "loss"} -> Nat]

Init ==
  /\ request = [i \in 1..MaxRequests |-> None] /\ asked = 0
  /\ pending = 0 /\ running = 0 /\ permit = FALSE /\ commands = {}
  /\ remote = "none" /\ local = None
  /\ session = 1 /\ sessions = 1 /\ replaced = 0
  /\ binding = [o \in Owners |-> None]
  /\ passed = 0
  /\ budget = [b \in {"local", "attach", "loss"} |-> 0]

Spend(b, limit) ==
  budget[b] < limit /\ budget' = [budget EXCEPT ![b] = @ + 1]

Unbound == [o \in Owners |-> None]

OnChannel(r) == binding[r.owner] # None /\ binding[r.owner].channel = r.channel
-----------------------------------------------------------------------------
(* The answer goes out on the channel the owner has now.                   *)
Answered(r, answer) ==
  [r EXCEPT !.answer = IF r.answer = "none" THEN answer ELSE "twice",
            !.heard = OnChannel(r)]

(* complete: only the pending request gets an answer.                      *)
Complete(i, answer) ==
  IF pending = i THEN [request EXCEPT ![i] = Answered(request[i], answer)]
  ELSE request

StillPending(i) == IF pending = i THEN 0 ELSE pending

(* The bindings are gone, and with them the channels that asked.           *)
Dropped(rs) ==
  [i \in 1..MaxRequests |->
     IF i <= asked THEN [rs[i] EXCEPT !.kept = FALSE] ELSE rs[i]]

(* finishSessionReplacement: bye to every owner, who is then detached.     *)
FinishSessionReplacement ==
  /\ binding' = IF replaced # 0 THEN Unbound ELSE binding
  /\ replaced' = 0
-----------------------------------------------------------------------------
NewRequest(o, answer) ==
  [owner |-> o, channel |-> binding[o].channel, answer |-> answer,
   heard |-> answer # "none", kept |-> FALSE, replaced |-> FALSE]

(* dispatch: a request of an attached owner.  One replacement at a time;   *)
(* the command with the token goes to Pi and the dispatch timer starts.    *)
Dispatch(o) ==
  /\ binding[o] # None /\ asked < MaxRequests
  /\ asked' = asked + 1
  /\ IF running # 0 \/ pending # 0
     THEN /\ request' = [request EXCEPT ![asked'] = NewRequest(o, "refused")]
          /\ UNCHANGED <<pending, commands>>
     ELSE /\ request' = [request EXCEPT ![asked'] = NewRequest(o, "none")]
          /\ pending' = asked'
          /\ commands' = commands \cup {asked'}
  /\ UNCHANGED <<running, permit, remote, local, world, passed, budget>>

(* sendUserMessage throws or rejects: the command will not run.            *)
DispatchFails(i) ==
  /\ i \in commands
  /\ commands' = commands \ {i}
  /\ request' = Complete(i, "error") /\ pending' = StillPending(i)
  /\ UNCHANGED <<asked, running, permit, remote, local, world, passed,
                 budget>>

(* The dispatch timer fires; run cancels it when the command comes first.  *)
TimeOut ==
  /\ pending # 0 /\ running # pending
  /\ request' = Complete(pending, "error") /\ pending' = 0
  /\ UNCHANGED <<asked, running, permit, commands, remote, local, world,
                 passed, budget>>

(* Slip: a command whose request was given up runs all the same.           *)
RunStale(i) ==
  /\ i \in commands
  /\ commands' = commands \ {i}
  /\ running = 0
  /\ running' = i /\ permit' = TRUE /\ remote' = "asking" /\ passed' = 0
  /\ UNCHANGED <<asked, request, pending, local, world, budget>>

(* run: the command arrives.  Its token must be pending; then newSession   *)
(* is called.                                                              *)
Run(i) ==
  /\ i \in commands
  /\ commands' = commands \ {i}
  /\ IF pending = i /\ running = 0
     THEN /\ running' = i /\ permit' = TRUE /\ remote' = "asking"
          /\ passed' = 0
          /\ request' = [request EXCEPT ![i].kept = OnChannel(request[i])]
     ELSE UNCHANGED <<running, permit, remote, passed, request>>
  /\ UNCHANGED <<asked, pending, local, world, budget>>

(* beforeSwitch("new") lets the run's switch through with the permit, and  *)
(* refuses it when another switch has used the permit up.                  *)
AskRemote ==
  /\ remote = "asking"
  /\ remote' = IF permit THEN "allowed" ELSE "failed"
  /\ passed' = IF permit THEN passed + 1 ELSE passed
  /\ permit' = FALSE
  /\ UNCHANGED <<asked, request, pending, running, commands, local, world,
                 budget>>

(* newSession rejects, or the hook of another extension refuses.           *)
NewSessionFails ==
  /\ remote \in {"asking", "allowed"}
  /\ remote' = "failed"
  /\ UNCHANGED <<bridge, local, world, passed, budget>>

(* Slip: the permit lets any number of switches through.                   *)
BeforeSwitchUnspent(reason) ==
  IF running = 0 THEN [allow |-> TRUE, permit |-> permit]
  ELSE [allow |-> reason = "new" /\ permit, permit |-> permit]

(* beforeSwitch and beforeFork, asked for a switch of the terminal.        *)
BeforeSwitch(reason) ==
  IF running = 0 THEN [allow |-> TRUE, permit |-> permit]
  ELSE IF reason = "new" /\ permit THEN [allow |-> TRUE, permit |-> FALSE]
  ELSE [allow |-> FALSE, permit |-> permit]

(* The user at the terminal asks for another session.                      *)
AskLocal(reason) ==
  /\ local = None /\ Spend("local", MaxLocals)
  /\ LET verdict == BeforeSwitch(reason)
     IN /\ local' = IF verdict.allow
                    THEN [reason |-> reason, at |-> "allowed"] ELSE None
        /\ permit' = verdict.permit
        /\ passed' = IF verdict.allow /\ running # 0 THEN passed + 1
                     ELSE passed
  /\ UNCHANGED <<asked, request, pending, running, commands, remote,
                 world>>
-----------------------------------------------------------------------------
Idle == remote # "down" /\ (local # None => local.at # "down")

(* session_shutdown for a reason other than quit.                          *)
SessionShutdown == replaced' = session /\ session' = 0

ShutdownRemote ==
  /\ remote = "allowed" /\ Idle
  /\ SessionShutdown
  /\ remote' = "down"
  /\ UNCHANGED <<bridge, local, sessions, binding, passed, budget>>

ShutdownLocal ==
  /\ local # None /\ local.at = "allowed" /\ Idle
  /\ SessionShutdown
  /\ local' = [local EXCEPT !.at = "down"]
  /\ UNCHANGED <<bridge, remote, sessions, binding, passed, budget>>

(* Slip: session_start tells the owners even while a run has yet to answer.*)
SessionStartAtOnce ==
  /\ sessions' = sessions + 1 /\ session' = sessions'
  /\ FinishSessionReplacement

(* session_start: the owners are told at once, or at the end of the run.   *)
SessionStart ==
  /\ sessions' = sessions + 1 /\ session' = sessions'
  /\ IF running = 0 THEN FinishSessionReplacement
     ELSE UNCHANGED <<replaced, binding>>

StartRemote ==
  /\ remote = "down"
  /\ SessionStart
  /\ remote' = "up"
  /\ request' = [request EXCEPT ![running].replaced = TRUE]
  /\ UNCHANGED <<asked, pending, running, permit, commands, local, passed,
                 budget>>

StartLocal ==
  /\ local # None /\ local.at = "down"
  /\ SessionStart
  /\ local' = None
  /\ UNCHANGED <<bridge, remote, passed, budget>>

(* Slip: a newSession that failed is not caught.                          *)
AnswerSuccess ==
  /\ remote = "up"
  /\ request' = Complete(running, "ok")
  /\ pending' = StillPending(running)
  /\ remote' = "answered"
  /\ UNCHANGED <<asked, running, permit, commands, local, world, passed,
                 budget>>

(* runAsync: newSession resolved, was cancelled or failed, and the owner   *)
(* is answered through the binding he has now.                             *)
Answer ==
  /\ remote \in {"up", "failed"}
  /\ request' = Complete(running, IF remote = "up" THEN "ok" ELSE "error")
  /\ pending' = StillPending(running)
  /\ remote' = "answered"
  /\ UNCHANGED <<asked, running, permit, commands, local, world, passed,
                 budget>>

(* Slip: the owners are left to the session_start that already came.       *)
FinishRunSilently ==
  /\ remote = "answered"
  /\ running' = 0 /\ permit' = FALSE /\ remote' = "none"
  /\ UNCHANGED <<asked, request, pending, commands, local, world, passed,
                 budget>>

(* The end of run: onFinished.                                             *)
FinishRun ==
  /\ remote = "answered"
  /\ running' = 0 /\ permit' = FALSE /\ remote' = "none"
  /\ FinishSessionReplacement
  /\ UNCHANGED <<asked, request, pending, commands, local, session,
                 sessions, passed, budget>>
-----------------------------------------------------------------------------
(* createBinding: only while there is a session.                           *)
Attach(o) ==
  /\ binding[o] = None /\ session # 0 /\ Spend("attach", MaxAttaches)
  /\ binding' = [binding EXCEPT ![o] = [channel |-> budget'["attach"],
                                        session |-> session]]
  /\ UNCHANGED <<bridge, remote, local, session, sessions, replaced,
                 passed>>

(* The relay is lost: every owner is detached; the bridge is not told.     *)
Disconnect ==
  /\ Spend("loss", MaxLosses)
  /\ binding' = Unbound /\ request' = Dropped(request)
  /\ UNCHANGED <<asked, pending, running, permit, commands, remote, local,
                 session, sessions, replaced, passed>>

(* closeRelay: the pending request is answered, its run goes on.           *)
CloseRelay ==
  /\ Spend("loss", MaxLosses)
  /\ request' = Dropped(IF pending = 0 THEN request
                        ELSE Complete(pending, "cancelled"))
  /\ pending' = 0 /\ replaced' = 0 /\ binding' = Unbound
  /\ UNCHANGED <<asked, running, permit, commands, remote, local, session,
                 sessions, passed>>

Pi == AskRemote \/ ShutdownRemote \/ StartRemote \/ StartLocal
      \/ ShutdownLocal

Next ==
  \/ \E o \in Owners : Dispatch(o) \/ Attach(o)
  \/ \E i \in commands : DispatchFails(i) \/ Run(i)
  \/ TimeOut \/ Pi \/ NewSessionFails \/ Answer \/ FinishRun
  \/ \E reason \in Reasons : AskLocal(reason)
  \/ Disconnect \/ CloseRelay

(* Timers fire, promises are settled, and Pi brings a switch that passed   *)
(* its hooks to an end.  Nothing makes Pi run a command it was sent.       *)
Fairness == WF_vars(TimeOut) /\ WF_vars(Pi) /\ WF_vars(Answer)
            /\ WF_vars(FinishRun)

Spec == Init /\ [][Next]_vars /\ Fairness
-----------------------------------------------------------------------------
(* One answer per request, and the right one: ok only when its own run has *)
(* begun a new session, an error never followed by one.  A request that a  *)
(* closing relay cancelled while it ran is the exception: clear answers    *)
(* "cancelled", the run goes on (session_new_bridge.ts:62-65, 91-108).     *)
AnswerMatchesOutcome ==
  \A i \in 1..asked :
    /\ request[i].answer # "twice"
    /\ request[i].answer = "ok" => request[i].replaced
    /\ request[i].answer \in {"error", "refused"} => ~request[i].replaced

(* While a run lasts, one switch at most passes the hooks, its own or one  *)
(* that used its permit up (session_new_bridge.ts:69, 81-87).              *)
OneSwitchPerRun == running # 0 => passed <= 1

(* The owner who asked reads action_ok before the bye that detaches him,   *)
(* as long as the channel he asked on stood when the run began and no      *)
(* connection was lost since (index.ts:524, session_new_bridge.ts:74-78).  *)
OkReachesRequester ==
  \A i \in 1..asked :
    request[i].answer = "ok" /\ request[i].kept => request[i].heard

(* Once no switch is under way, no owner is bound to a replaced session,   *)
(* whichever of the overlapping switches had to tell him                   *)
(* (finishSessionReplacement, index.ts:229-236, 524, 535).                 *)
NoStaleBinding ==
  remote = "none" /\ local = None =>
    \A o \in Owners : binding[o] # None => binding[o].session = session

(* Every request is answered, and no run blocks switches for ever.         *)
RequestsEnd ==
  /\ pending # 0 ~> pending = 0
  /\ running # 0 ~> running = 0
=============================================================================
