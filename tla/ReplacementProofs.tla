-------------------------- MODULE ReplacementProofs --------------------------
(***************************************************************************)
(* Proofs about SessionReplacement, for every number of owners, requests,  *)
(* local switches, attachments and losses.                                 *)
(***************************************************************************)
EXTENDS SessionReplacement, TLAPS

(* One switch is carried out at a time, and there is no session while one  *)
(* is.  The run's switch exists as long as the run does.                   *)
LocalDown == local # None /\ local.at = "down"

Shape ==
  /\ (remote = "none") = (running = 0)
  /\ (session = 0) = (remote = "down" \/ LocalDown)
  /\ ~(remote = "down" /\ LocalDown)

(* The permit is there until one switch has passed.                        *)
PermitUnspent == running # 0 => passed <= 1 /\ (permit => passed = 0)

(* An owner bound to another session than the current one will be told:    *)
(* replacedSessionId is set, and a switch or a run is there to tell him.   *)
ToBeTold ==
  /\ \A o \in Owners : binding[o] # None =>
       binding[o].session # 0 /\ (binding[o].session # session => replaced # 0)
  /\ replaced # 0 => remote = "down" \/ LocalDown \/ running # 0

SwitchInv == TypeOK /\ Shape /\ PermitUnspent /\ ToBeTold

(* The request that is pending, running or still to be run was not         *)
(* answered, unless a closing relay did.                                   *)
Unanswered ==
  /\ pending # 0 => request[pending].answer = "none"
  /\ \A i \in commands : i # running /\ ~request[i].replaced
  /\ running # 0 =>
       /\ remote # "answered" =>
            pending = running \/ request[running].answer = "cancelled"
       /\ remote = "up" => request[running].replaced
       /\ remote \in {"asking", "allowed", "down", "failed"} =>
            ~request[running].replaced

(* A request whose run began a session was told ok or cancelled, or is     *)
(* about to be.                                                            *)
Truthful ==
  \A i \in 1..asked :
    /\ request[i].answer # "twice"
    /\ request[i].answer = "ok" => request[i].replaced
    /\ request[i].replaced =>
         request[i].answer \in {"ok", "cancelled"} \/ (running = i /\ remote = "up")

(* While a run has yet to answer, nothing detaches the channel it has to   *)
(* answer on but the loss of the relay.                                    *)
Reachable ==
  /\ running # 0 /\ remote # "answered" /\ request[running].kept =>
       OnChannel(request[running])
  /\ OkReachesRequester

AnswerInv == TypeOK /\ Shape /\ Unanswered /\ Truthful /\ Reachable

-----------------------------------------------------------------------------
(* The requests dispatched so far are records.                             *)
Requests ==
  /\ request \in [1..MaxRequests -> Request \cup {None}]
  /\ asked \in Ids /\ \A i \in 1..asked : request[i] \in Request

(* What the operators that write a request do to it.                       *)
LEMMA AnsweredOne ==
  ASSUME NEW r \in Request, NEW a \in Answers
  PROVE  /\ Answered(r, a) \in Request
         /\ Answered(r, a).answer = IF r.answer = "none" THEN a ELSE "twice"
         /\ Answered(r, a).heard = OnChannel(r)
         /\ Answered(r, a).kept = r.kept
         /\ Answered(r, a).replaced = r.replaced
         /\ Answered(r, a).owner = r.owner
         /\ Answered(r, a).channel = r.channel
BY DEF Request, Answered, Answers, OnChannel

LEMMA Completed ==
  ASSUME Requests, NEW i \in Nat, NEW a \in Answers,
         pending = i => i \in 1..asked,
         NEW c, c = Complete(i, a)
  PROVE  /\ c \in [1..MaxRequests -> Request \cup {None}]
         /\ \A k \in 1..asked : c[k] \in Request
         /\ \A k \in 1..MaxRequests : k # i \/ pending # i => c[k] = request[k]
         /\ pending = i => c[i] = Answered(request[i], a)
<1>1. CASE pending # i
  BY <1>1 DEF Requests, Complete
<1>2. CASE pending = i
  <2>1. i \in 1..MaxRequests /\ Answered(request[i], a) \in Request
    BY <1>2, AnsweredOne, BoundsAssumption DEF Requests, Ids
  <2> QED
    BY <1>2, <2>1, BoundsAssumption DEF Requests, Ids, Complete
<1> QED
  BY <1>1, <1>2

LEMMA DroppedOnes ==
  ASSUME asked \in Ids,
         NEW rs \in [1..MaxRequests -> Request \cup {None}],
         \A k \in 1..asked : rs[k] \in Request
  PROVE  /\ Dropped(rs) \in [1..MaxRequests -> Request \cup {None}]
         /\ \A k \in 1..asked :
              /\ Dropped(rs)[k] \in Request
              /\ Dropped(rs)[k].answer = rs[k].answer
              /\ Dropped(rs)[k].heard = rs[k].heard
              /\ Dropped(rs)[k].replaced = rs[k].replaced
              /\ ~Dropped(rs)[k].kept
<1>1. ASSUME NEW k \in 1..MaxRequests, k <= asked
      PROVE  /\ [rs[k] EXCEPT !.kept = FALSE] \in Request
             /\ Dropped(rs)[k] = [rs[k] EXCEPT !.kept = FALSE]
  <2>1. rs[k] \in Request
    BY <1>1 DEF Ids
  <2> QED
    BY <1>1, <2>1 DEF Request, Dropped
<1>2. \A k \in 1..asked : k \in 1..MaxRequests /\ k <= asked
  BY BoundsAssumption DEF Ids
<1>3. Dropped(rs) \in [1..MaxRequests -> Request \cup {None}]
  BY <1>1 DEF Dropped
<1>4. ASSUME NEW k \in 1..asked
      PROVE  /\ Dropped(rs)[k] \in Request
             /\ Dropped(rs)[k].answer = rs[k].answer
             /\ Dropped(rs)[k].heard = rs[k].heard
             /\ Dropped(rs)[k].replaced = rs[k].replaced
             /\ ~Dropped(rs)[k].kept
  <2>1. rs[k] \in Request /\ Dropped(rs)[k] = [rs[k] EXCEPT !.kept = FALSE]
    BY <1>1, <1>2
  <2>2. \A r \in Request :
          LET d == [r EXCEPT !.kept = FALSE] IN
          d \in Request /\ d.answer = r.answer /\ d.heard = r.heard
          /\ d.replaced = r.replaced /\ ~d.kept
    BY DEF Request
  <2> QED
    BY <2>1, <2>2
<1> QED
  BY <1>3, <1>4

(* What the steps that write a request do to it.                           *)
LEMMA DispatchStep ==
  ASSUME TypeOK, NEW o \in Owners, Dispatch(o)
  PROVE  /\ Requests' /\ asked' = asked + 1
         /\ request'[asked'].answer \in {"none", "refused"}
         /\ running = 0 /\ pending = 0 => request'[asked'].answer = "none"
         /\ ~request'[asked'].replaced /\ ~request'[asked'].kept
         /\ \A k \in 1..asked : request'[k] = request[k]
<1>1. Requests /\ asked' = asked + 1 /\ asked < MaxRequests /\ binding[o] # None
  BY DEF TypeOK, Requests, Dispatch
<1>2. PICK a \in {"none", "refused"} :
        /\ request' = [request EXCEPT ![asked + 1] = NewRequest(o, a)]
        /\ running = 0 /\ pending = 0 => a = "none"
  BY <1>1 DEF Dispatch
<1>3. a \in Answers /\ binding \in [Owners -> [channel : Nat, session : Nat]
                                            \cup {None}]
  BY DEF TypeOK, Answers
<1>4. /\ NewRequest(o, a) \in Request
      /\ NewRequest(o, a).answer = a
      /\ ~NewRequest(o, a).replaced
      /\ ~NewRequest(o, a).kept
  BY <1>1, <1>3 DEF Request, NewRequest
<1>5. /\ request' \in [1..MaxRequests -> Request \cup {None}]
      /\ asked + 1 \in Ids
      /\ \A k \in 1..(asked + 1) : request'[k] \in Request
      /\ \A k \in 1..asked : request'[k] = request[k]
      /\ request'[asked + 1] = NewRequest(o, a)
  BY <1>1, <1>2, <1>4, BoundsAssumption DEF Requests, Ids
<1> QED
  BY <1>1, <1>2, <1>4, <1>5 DEF Requests

(* Of the requests, i is answered, if it is pending.                       *)
Gets(i, a) ==
  /\ \A k \in 1..asked : k # i \/ pending # i => request'[k] = request[k]
  /\ pending = i =>
       /\ request'[i].answer = IF request[i].answer = "none" THEN a ELSE "twice"
       /\ request'[i].replaced = request[i].replaced
       /\ request'[i].kept = request[i].kept
       /\ request'[i].heard = OnChannel(request[i])
       /\ request'[i].owner = request[i].owner
       /\ request'[i].channel = request[i].channel

LEMMA CompleteStep ==
  ASSUME TypeOK, NEW i \in 1..asked, NEW a \in Answers,
         request' = Complete(i, a), asked' = asked
  PROVE  Requests' /\ Gets(i, a)
<1>1. Requests /\ i \in Nat /\ i \in 1..MaxRequests
  BY BoundsAssumption DEF TypeOK, Requests, Ids
<1>2. /\ Requests'
      /\ \A k \in 1..asked : k # i \/ pending # i => request'[k] = request[k]
      /\ pending = i => request'[i] = Answered(request[i], a)
  BY <1>1, Completed, BoundsAssumption DEF Requests, Ids
<1>3. request[i] \in Request
  BY <1>1 DEF Requests
<1> QED
  BY <1>2, <1>3, AnsweredOne DEF Gets

LEMMA RunStep ==
  ASSUME TypeOK, NEW i \in commands, pending = i, running = 0, Run(i)
  PROVE  /\ Requests'
         /\ \A k \in 1..asked : k # i => request'[k] = request[k]
         /\ request'[i].answer = request[i].answer
         /\ request'[i].replaced = request[i].replaced
         /\ request'[i].heard = request[i].heard
         /\ request'[i].owner = request[i].owner
         /\ request'[i].channel = request[i].channel
         /\ request'[i].kept = OnChannel(request[i])
<1>1. i \in 1..asked /\ i \in 1..MaxRequests /\ request[i] \in Request
  BY BoundsAssumption DEF TypeOK, Ids
<1>2. OnChannel(request[i]) \in BOOLEAN
  BY DEF OnChannel
<1> DEFINE r == [request[i] EXCEPT !.kept = OnChannel(request[i])]
<1>3. /\ r \in Request /\ r.kept = OnChannel(request[i])
      /\ r.answer = request[i].answer /\ r.replaced = request[i].replaced
      /\ r.heard = request[i].heard /\ r.owner = request[i].owner
      /\ r.channel = request[i].channel
  BY <1>1, <1>2 DEF Request
<1>4. request' = [request EXCEPT ![i] = r] /\ asked' = asked
  BY DEF Run
<1> HIDE DEF r
<1> QED
  BY <1>1, <1>3, <1>4, BoundsAssumption DEF TypeOK, Requests, Ids

LEMMA StartStep ==
  ASSUME TypeOK, Shape, StartRemote
  PROVE  /\ Requests' /\ running \in 1..asked
         /\ \A k \in 1..asked : k # running => request'[k] = request[k]
         /\ request'[running].replaced
         /\ request'[running].answer = request[running].answer
         /\ request'[running].heard = request[running].heard
         /\ request'[running].owner = request[running].owner
         /\ request'[running].channel = request[running].channel
         /\ request'[running].kept = request[running].kept
<1>1. running \in 1..asked /\ running \in 1..MaxRequests
  BY BoundsAssumption DEF TypeOK, Ids, Shape, StartRemote
<1>2. request[running] \in Request
  BY <1>1 DEF TypeOK
<1> DEFINE r == [request[running] EXCEPT !.replaced = TRUE]
<1>3. /\ r \in Request /\ r.replaced
      /\ r.answer = request[running].answer
      /\ r.heard = request[running].heard /\ r.owner = request[running].owner
      /\ r.channel = request[running].channel
      /\ r.kept = request[running].kept
  BY <1>2 DEF Request
<1>4. request' = [request EXCEPT ![running] = r] /\ asked' = asked
  BY DEF StartRemote
<1> HIDE DEF r
<1> QED
  BY <1>1, <1>3, <1>4, BoundsAssumption DEF TypeOK, Requests, Ids

LEMMA DisconnectStep ==
  ASSUME TypeOK, Disconnect
  PROVE  /\ Requests'
         /\ \A k \in 1..asked : /\ request'[k].answer = request[k].answer
                                /\ request'[k].replaced = request[k].replaced
                                /\ ~request'[k].kept
BY DroppedOnes DEF TypeOK, Disconnect, Requests

LEMMA CloseStep ==
  ASSUME TypeOK, CloseRelay
  PROVE  /\ Requests'
         /\ \A k \in 1..asked :
              /\ request'[k].answer = IF k # pending THEN request[k].answer
                                      ELSE IF request[k].answer = "none"
                                           THEN "cancelled" ELSE "twice"
              /\ request'[k].replaced = request[k].replaced
              /\ ~request'[k].kept
<1> DEFINE rs == IF pending = 0 THEN request ELSE Complete(pending, "cancelled")
<1>1. Requests /\ request' = Dropped(rs) /\ asked' = asked
  BY DEF CloseRelay, TypeOK, Requests
<1>2. /\ rs \in [1..MaxRequests -> Request \cup {None}]
      /\ \A k \in 1..asked : rs[k] \in Request
      /\ \A k \in 1..asked : k # pending => rs[k] = request[k]
      /\ pending # 0 => rs[pending] = Answered(request[pending], "cancelled")
  <2>1. CASE pending = 0
    BY <1>1, <2>1 DEF Requests
  <2>2. CASE pending # 0
    <3>1. pending \in 1..asked /\ pending \in Nat /\ "cancelled" \in Answers
      BY <2>2 DEF TypeOK, Answers, Ids
    <3>2. \A k \in 1..asked : k \in 1..MaxRequests
      BY BoundsAssumption DEF TypeOK, Ids
    <3> QED
      BY <1>1, <2>2, <3>1, <3>2, Completed
  <2> QED
    BY <2>1, <2>2
<1>3. ASSUME NEW k \in 1..asked
      PROVE  /\ rs[k].answer = IF k # pending THEN request[k].answer
                               ELSE IF request[k].answer = "none"
                                    THEN "cancelled" ELSE "twice"
             /\ rs[k].replaced = request[k].replaced
  <2>1. request[k] \in Request /\ "cancelled" \in Answers
    BY DEF TypeOK, Answers
  <2> HIDE DEF rs
  <2> QED
    BY <1>2, <2>1, AnsweredOne
<1> HIDE DEF rs
<1>4. /\ Dropped(rs) \in [1..MaxRequests -> Request \cup {None}]
      /\ \A k \in 1..asked :
           /\ Dropped(rs)[k] \in Request
           /\ Dropped(rs)[k].answer = rs[k].answer
           /\ Dropped(rs)[k].replaced = rs[k].replaced
           /\ ~Dropped(rs)[k].kept
  BY <1>1, <1>2, DroppedOnes DEF Requests
<1> QED
  BY <1>1, <1>3, <1>4 DEF Requests

LEMMA InitType == Init => TypeOK
<1> SUFFICES ASSUME Init PROVE TypeOK
  OBVIOUS
<1> USE BoundsAssumption DEF Init, TypeOK, Ids
<1>1. /\ request \in [1..MaxRequests -> Request \cup {None}]
      /\ asked \in Ids /\ \A i \in 1..asked : request[i] \in Request
  OBVIOUS
<1>2. pending \in 0..asked /\ running \in 0..asked
  OBVIOUS
<1>3. /\ binding \in [Owners -> [channel : Nat, session : Nat] \cup {None}]
      /\ budget \in [{"local", "attach", "loss"} -> Nat]
  OBVIOUS
<1> QED
  BY <1>1, <1>2, <1>3

LEMMA NextType ==
  ASSUME TypeOK, Shape, [Next]_vars
  PROVE  TypeOK'
<1> USE BoundsAssumption DEF TypeOK, Ids
<1>1. ASSUME NEW o \in Owners, Dispatch(o) PROVE TypeOK'
  <2>1. Requests' /\ asked' = asked + 1
    BY <1>1, DispatchStep
  <2>2. pending' \in 0..asked' /\ running' \in 0..asked'
    BY <1>1, <2>1 DEF Dispatch
  <2>3. commands' \subseteq commands \cup {asked'}
    BY <1>1 DEF Dispatch
  <2>4. commands' \subseteq 1..asked'
    BY <2>1, <2>3
  <2> QED
    BY <1>1, <2>1, <2>2, <2>4 DEF Dispatch, Requests, world
<1>2. ASSUME NEW o \in Owners, Attach(o) PROVE TypeOK'
  BY <1>2 DEF Attach, Spend, bridge
<1>3. ASSUME NEW i \in commands, DispatchFails(i) PROVE TypeOK'
  <2>1. Requests'
    BY <1>3, CompleteStep DEF DispatchFails, Answers
  <2> QED
    BY <1>3, <2>1 DEF DispatchFails, Requests, StillPending, world
<1>4. ASSUME NEW i \in commands, Run(i) PROVE TypeOK'
  <2>1. CASE pending = i /\ running = 0
    <3>1. Requests'
      BY <1>4, <2>1, RunStep
    <3> QED
      BY <1>4, <2>1, <3>1 DEF Run, Requests, world
  <2>2. CASE ~(pending = i /\ running = 0)
    BY <1>4, <2>2 DEF Run, world
  <2> QED
    BY <2>1, <2>2
<1>5. CASE TimeOut
  <2>1. Requests'
    BY <1>5, CompleteStep DEF TimeOut, Answers
  <2> QED
    BY <1>5, <2>1 DEF TimeOut, Requests, world
<1>6. CASE AskRemote
  <2>1. permit' \in BOOLEAN /\ remote' \in {"allowed", "failed"}
    BY <1>6 DEF AskRemote
  <2>2. passed' \in Nat
    BY <1>6 DEF AskRemote
  <2> QED
    BY <1>6, <2>1, <2>2 DEF AskRemote, world
<1>7. CASE ShutdownRemote
  BY <1>7 DEF ShutdownRemote, SessionShutdown, Idle, bridge
<1>8. CASE ShutdownLocal
  BY <1>8 DEF ShutdownLocal, SessionShutdown, Switch, bridge
<1>9. CASE StartRemote
  <2>1. Requests'
    BY <1>9, StartStep
  <2>2. running # 0
    BY <1>9 DEF StartRemote, Shape
  <2>3. asked' = asked /\ running' = running /\ pending' = pending
    BY <1>9 DEF StartRemote
  <2>4. session' \in Nat /\ sessions' \in Nat /\ UNCHANGED <<replaced, binding>>
    BY <1>9, <2>2 DEF StartRemote, SessionStart
  <2> QED
    BY <1>9, <2>1, <2>3, <2>4 DEF StartRemote, Requests
<1>10. CASE StartLocal
  BY <1>10 DEF StartLocal, SessionStart, FinishSessionReplacement, Unbound,
     bridge
<1>11. CASE NewSessionFails
  BY <1>11 DEF NewSessionFails, bridge, world
<1>12. CASE Answer
  <2>1. running \in 1..asked
    BY <1>12 DEF Answer, Shape
  <2>2. Requests'
    BY <1>12, <2>1, CompleteStep DEF Answer, Answers
  <2> QED
    BY <1>12, <2>2 DEF Answer, Requests, StillPending, world
<1>13. CASE FinishRun
  <2>1. replaced' \in Nat
    BY <1>13 DEF FinishRun, FinishSessionReplacement
  <2>2. binding' \in [Owners -> [channel : Nat, session : Nat] \cup {None}]
    BY <1>13 DEF FinishRun, FinishSessionReplacement, Unbound
  <2>3. running' \in 0..asked' /\ permit' = FALSE
    BY <1>13 DEF FinishRun
  <2> QED
    BY <1>13, <2>1, <2>2, <2>3 DEF FinishRun
<1>14. ASSUME NEW reason \in Reasons, AskLocal(reason) PROVE TypeOK'
  <2> DEFINE verdict == BeforeSwitch(reason)
  <2>1. verdict.allow \in BOOLEAN /\ verdict.permit \in BOOLEAN
    BY DEF BeforeSwitch
  <2>2. local' \in Switch \cup {None} /\ permit' \in BOOLEAN
    BY <1>14, <2>1 DEF AskLocal, Switch
  <2>3. passed' \in Nat
    BY <1>14 DEF AskLocal
  <2>4. budget' \in [{"local", "attach", "loss"} -> Nat]
    BY <1>14 DEF AskLocal, Spend
  <2> QED
    BY <1>14, <2>2, <2>3, <2>4 DEF AskLocal, world
<1>15. CASE Disconnect
  <2>1. Requests'
    BY <1>15, DisconnectStep
  <2>2. budget' \in [{"local", "attach", "loss"} -> Nat]
    BY <1>15 DEF Disconnect, Spend
  <2> QED
    BY <1>15, <2>1, <2>2 DEF Disconnect, Requests, Unbound
<1>16. CASE CloseRelay
  <2>1. Requests'
    BY <1>16, CloseStep
  <2>2. budget' \in [{"local", "attach", "loss"} -> Nat]
    BY <1>16 DEF CloseRelay, Spend
  <2> QED
    BY <1>16, <2>1, <2>2 DEF CloseRelay, Requests, Unbound
<1>17. CASE UNCHANGED vars
  BY <1>17 DEF vars, bridge, world
<1> QED
  BY <1>1, <1>2, <1>3, <1>4, <1>5, <1>6, <1>7, <1>8, <1>9, <1>10, <1>11,
     <1>12, <1>13, <1>14, <1>15, <1>16, <1>17 DEF Next, Pi

LEMMA NextShape ==
  ASSUME TypeOK, Shape, [Next]_vars
  PROVE  Shape'
<1> USE BoundsAssumption DEF TypeOK, Shape, LocalDown
<1>1. ASSUME NEW o \in Owners, Dispatch(o) PROVE Shape'
  BY <1>1 DEF Dispatch, world
<1>2. ASSUME NEW o \in Owners, Attach(o) PROVE Shape'
  BY <1>2 DEF Attach, Spend, bridge
<1>3. ASSUME NEW i \in commands, DispatchFails(i) PROVE Shape'
  BY <1>3 DEF DispatchFails, Complete, StillPending, world
<1>4. ASSUME NEW i \in commands, Run(i) PROVE Shape'
  BY <1>4 DEF Run, world
<1>5. CASE TimeOut
  BY <1>5 DEF TimeOut, Complete, world
<1>6. CASE AskRemote
  BY <1>6 DEF AskRemote, world
<1>7. CASE ShutdownRemote
  BY <1>7 DEF ShutdownRemote, SessionShutdown, Idle, bridge
<1>8. CASE ShutdownLocal
  <2>1. local' \in Switch /\ local'.at = "down"
    BY <1>8 DEF ShutdownLocal, Switch
  <2> QED
    BY <1>8, <2>1, NoneAssumption
       DEF ShutdownLocal, SessionShutdown, Idle, bridge
<1>9. CASE StartRemote
  BY <1>9 DEF StartRemote, SessionStart, FinishSessionReplacement, Unbound
<1>10. CASE StartLocal
  BY <1>10 DEF StartLocal, SessionStart, FinishSessionReplacement, Unbound,
     bridge
<1>11. CASE NewSessionFails
  BY <1>11 DEF NewSessionFails, bridge, world
<1>12. CASE Answer
  BY <1>12 DEF Answer, Complete, StillPending, world
<1>13. CASE FinishRun
  BY <1>13 DEF FinishRun, FinishSessionReplacement, Unbound
<1>14. ASSUME NEW reason \in Reasons, AskLocal(reason) PROVE Shape'
  BY <1>14 DEF AskLocal, BeforeSwitch, Spend, world
<1>15. CASE Disconnect
  BY <1>15 DEF Disconnect, Dropped, Unbound, Spend
<1>16. CASE CloseRelay
  BY <1>16 DEF CloseRelay, Complete, Dropped, Unbound, Spend
<1>17. CASE UNCHANGED vars
  BY <1>17 DEF vars, bridge, world
<1> QED
  BY <1>1, <1>2, <1>3, <1>4, <1>5, <1>6, <1>7, <1>8, <1>9, <1>10, <1>11,
     <1>12, <1>13, <1>14, <1>15, <1>16, <1>17 DEF Next, Pi

LEMMA NextPermit ==
  ASSUME TypeOK, PermitUnspent, [Next]_vars
  PROVE  PermitUnspent'
<1> USE BoundsAssumption DEF TypeOK, PermitUnspent
<1>1. ASSUME NEW o \in Owners, Dispatch(o) PROVE PermitUnspent'
  BY <1>1 DEF Dispatch, world
<1>2. ASSUME NEW o \in Owners, Attach(o) PROVE PermitUnspent'
  BY <1>2 DEF Attach, Spend, bridge
<1>3. ASSUME NEW i \in commands, DispatchFails(i) PROVE PermitUnspent'
  BY <1>3 DEF DispatchFails, Complete, StillPending, world
<1>4. ASSUME NEW i \in commands, Run(i) PROVE PermitUnspent'
  BY <1>4 DEF Run, world
<1>5. CASE TimeOut
  BY <1>5 DEF TimeOut, Complete, world
<1>6. CASE AskRemote
  BY <1>6 DEF AskRemote, world
<1>7. CASE ShutdownRemote
  BY <1>7 DEF ShutdownRemote, SessionShutdown, Idle, bridge
<1>8. CASE ShutdownLocal
  BY <1>8 DEF ShutdownLocal, SessionShutdown, Idle, bridge
<1>9. CASE StartRemote
  BY <1>9 DEF StartRemote, SessionStart, FinishSessionReplacement, Unbound
<1>10. CASE StartLocal
  BY <1>10 DEF StartLocal, SessionStart, FinishSessionReplacement, Unbound,
     bridge
<1>11. CASE NewSessionFails
  BY <1>11 DEF NewSessionFails, bridge, world
<1>12. CASE Answer
  BY <1>12 DEF Answer, Complete, StillPending, world
<1>13. CASE FinishRun
  BY <1>13 DEF FinishRun, FinishSessionReplacement, Unbound
<1>14. ASSUME NEW reason \in Reasons, AskLocal(reason) PROVE PermitUnspent'
  BY <1>14 DEF AskLocal, BeforeSwitch, Spend, world
<1>15. CASE Disconnect
  BY <1>15 DEF Disconnect, Dropped, Unbound, Spend
<1>16. CASE CloseRelay
  BY <1>16 DEF CloseRelay, Complete, Dropped, Unbound, Spend
<1>17. CASE UNCHANGED vars
  BY <1>17 DEF vars, bridge, world
<1> QED
  BY <1>1, <1>2, <1>3, <1>4, <1>5, <1>6, <1>7, <1>8, <1>9, <1>10, <1>11,
     <1>12, <1>13, <1>14, <1>15, <1>16, <1>17 DEF Next, Pi

LEMMA NextTold ==
  ASSUME SwitchInv, [Next]_vars
  PROVE  ToBeTold'
<1> USE BoundsAssumption DEF SwitchInv, TypeOK, Shape, LocalDown, ToBeTold
<1>1. ASSUME NEW o \in Owners, Dispatch(o) PROVE ToBeTold'
  BY <1>1 DEF Dispatch, world
<1>2. ASSUME NEW o \in Owners, Attach(o) PROVE ToBeTold'
  BY <1>2 DEF Attach, Spend, bridge
<1>3. ASSUME NEW i \in commands, DispatchFails(i) PROVE ToBeTold'
  BY <1>3 DEF DispatchFails, Complete, StillPending, world
<1>4. ASSUME NEW i \in commands, Run(i) PROVE ToBeTold'
  BY <1>4 DEF Run, world
<1>5. CASE TimeOut
  BY <1>5 DEF TimeOut, Complete, world
<1>6. CASE AskRemote
  BY <1>6 DEF AskRemote, world
<1>7. CASE ShutdownRemote
  BY <1>7 DEF ShutdownRemote, SessionShutdown, Idle, bridge
<1>8. CASE ShutdownLocal
  <2>1. local' \in Switch /\ local'.at = "down"
    BY <1>8 DEF ShutdownLocal, Switch
  <2> QED
    BY <1>8, <2>1, NoneAssumption
       DEF ShutdownLocal, SessionShutdown, Idle, bridge
<1>9. CASE StartRemote
  BY <1>9 DEF StartRemote, SessionStart, FinishSessionReplacement, Unbound
<1>10. CASE StartLocal
  BY <1>10 DEF StartLocal, SessionStart, FinishSessionReplacement, Unbound,
     bridge
<1>11. CASE NewSessionFails
  BY <1>11 DEF NewSessionFails, bridge, world
<1>12. CASE Answer
  BY <1>12 DEF Answer, Complete, StillPending, world
<1>13. CASE FinishRun
  BY <1>13 DEF FinishRun, FinishSessionReplacement, Unbound
<1>14. ASSUME NEW reason \in Reasons, AskLocal(reason) PROVE ToBeTold'
  BY <1>14 DEF AskLocal, BeforeSwitch, Spend, world
<1>15. CASE Disconnect
  BY <1>15 DEF Disconnect, Dropped, Unbound, Spend
<1>16. CASE CloseRelay
  BY <1>16 DEF CloseRelay, Complete, Dropped, Unbound, Spend
<1>17. CASE UNCHANGED vars
  BY <1>17 DEF vars, bridge, world
<1> QED
  BY <1>1, <1>2, <1>3, <1>4, <1>5, <1>6, <1>7, <1>8, <1>9, <1>10, <1>11,
     <1>12, <1>13, <1>14, <1>15, <1>16, <1>17 DEF Next, Pi

LEMMA InitSwitch == Init => SwitchInv
BY InitType DEF Init, SwitchInv, Shape, LocalDown, PermitUnspent, ToBeTold

LEMMA NextSwitch == SwitchInv /\ [Next]_vars => SwitchInv'
BY NextType, NextShape, NextPermit, NextTold DEF SwitchInv

(* No more than one switch passes while a run lasts                        *)
(* (session_new_bridge.ts:69, 81-87).                                      *)
THEOREM OneSwitch == Spec => []OneSwitchPerRun
<1>1. SwitchInv => OneSwitchPerRun
  BY DEF SwitchInv, PermitUnspent, OneSwitchPerRun
<1> QED
  BY <1>1, InitSwitch, NextSwitch, PTL DEF Spec

(* However switches overlap, no owner stays bound to a replaced session    *)
(* (index.ts:229-236, 524, 535).                                           *)
THEOREM BindingsFollowSession == Spec => []NoStaleBinding
<1>1. SwitchInv => NoStaleBinding
  BY DEF SwitchInv, Shape, LocalDown, ToBeTold, NoStaleBinding
<1> QED
  BY <1>1, InitSwitch, NextSwitch, PTL DEF Spec

-----------------------------------------------------------------------------
LEMMA NextUnanswered ==
  ASSUME TypeOK, Shape, Unanswered, Truthful, [Next]_vars
  PROVE  Unanswered'
<1> USE BoundsAssumption DEF TypeOK, Ids, Shape, Unanswered
<1>1. ASSUME NEW o \in Owners, Dispatch(o) PROVE Unanswered'
  <2>1. /\ asked' = asked + 1
        /\ running = 0 /\ pending = 0 => request'[asked'].answer = "none"
        /\ request'[asked'].answer \in {"none", "refused"}
        /\ ~request'[asked'].replaced /\ ~request'[asked'].kept
        /\ \A k \in 1..asked : request'[k] = request[k]
    BY <1>1, DispatchStep
  <2>2. CASE running # 0 \/ pending # 0
    <3>1. UNCHANGED <<pending, running, commands, remote>>
      BY <1>1, <2>2 DEF Dispatch
    <3>2. \A i \in commands' : i # running' /\ ~request'[i].replaced
      BY <2>1, <3>1
    <3>3. pending' # 0 => request'[pending'].answer = "none"
      BY <2>1, <3>1
    <3> QED
      BY <2>1, <3>1, <3>2, <3>3
  <2>3. CASE running = 0 /\ pending = 0
    <3>1. pending' = asked' /\ commands' = commands \cup {asked'}
      BY <1>1, <2>3 DEF Dispatch
    <3>2. \A i \in commands' : i # running' /\ ~request'[i].replaced
      BY <1>1, <2>1, <2>3, <3>1 DEF Dispatch
    <3> QED
      BY <1>1, <2>1, <2>3, <3>1, <3>2 DEF Dispatch
  <2> QED
    BY <2>2, <2>3
<1>2. ASSUME NEW o \in Owners, Attach(o) PROVE Unanswered'
  BY <1>2 DEF Attach, Spend, bridge
<1>3. ASSUME NEW i \in commands, DispatchFails(i) PROVE Unanswered'
  <2>1. Gets(i, "error")
    BY <1>3, CompleteStep DEF DispatchFails, Answers
  <2> QED
    BY <1>3, <2>1 DEF DispatchFails, Gets, StillPending, world
<1>4. ASSUME NEW i \in commands, Run(i) PROVE Unanswered'
  <2>1. CASE pending = i /\ running = 0
    BY <1>4, <2>1, RunStep, SMTT(30) DEF Run, world
  <2>2. CASE ~(pending = i /\ running = 0)
    BY <1>4, <2>2 DEF Run, world
  <2> QED
    BY <2>1, <2>2
<1>5. CASE TimeOut
  <2>1. Gets(pending, "error") /\ pending \in 1..asked
    BY <1>5, CompleteStep DEF TimeOut, Answers
  <2> QED
    BY <1>5, <2>1 DEF TimeOut, Gets, world
<1>6. CASE AskRemote
  BY <1>6 DEF AskRemote, world
<1>7. CASE ShutdownRemote
  BY <1>7 DEF ShutdownRemote, SessionShutdown, Idle, bridge
<1>8. CASE ShutdownLocal
  BY <1>8 DEF ShutdownLocal, SessionShutdown, Idle, bridge
<1>9. CASE StartRemote
  BY <1>9, StartStep, SMTT(30) DEF StartRemote, SessionStart
<1>10. CASE StartLocal
  BY <1>10 DEF StartLocal, SessionStart, FinishSessionReplacement, Unbound,
     bridge
<1>11. CASE NewSessionFails
  BY <1>11 DEF NewSessionFails, bridge, world
<1>12. CASE Answer
  <2>1. running \in 1..asked
    BY <1>12 DEF Answer
  <2>2. Gets(running, IF remote = "up" THEN "ok" ELSE "error")
    BY <1>12, <2>1, CompleteStep DEF Answer, Answers
  <2> QED
    BY <1>12, <2>1, <2>2 DEF Answer, Gets, StillPending, world
<1>13. CASE FinishRun
  BY <1>13 DEF FinishRun, FinishSessionReplacement, Unbound
<1>14. ASSUME NEW reason \in Reasons, AskLocal(reason) PROVE Unanswered'
  BY <1>14 DEF AskLocal, BeforeSwitch, Spend, world
<1>15. CASE Disconnect
  BY <1>15, DisconnectStep DEF Disconnect
<1>16. CASE CloseRelay
  BY <1>16, CloseStep DEF CloseRelay
<1>17. CASE UNCHANGED vars
  BY <1>17 DEF vars, bridge, world
<1> QED
  BY <1>1, <1>2, <1>3, <1>4, <1>5, <1>6, <1>7, <1>8, <1>9, <1>10, <1>11,
     <1>12, <1>13, <1>14, <1>15, <1>16, <1>17 DEF Next, Pi

LEMMA NextTruthful ==
  ASSUME TypeOK, Shape, Unanswered, Truthful, [Next]_vars
  PROVE  Truthful'
<1> USE BoundsAssumption DEF TypeOK, Ids, Shape, Unanswered, Truthful
<1>1. ASSUME NEW o \in Owners, Dispatch(o) PROVE Truthful'
  <2>1. /\ asked' = asked + 1
        /\ running = 0 /\ pending = 0 => request'[asked'].answer = "none"
        /\ request'[asked'].answer \in {"none", "refused"}
        /\ ~request'[asked'].replaced /\ ~request'[asked'].kept
        /\ \A k \in 1..asked : request'[k] = request[k]
    BY <1>1, DispatchStep
  <2> QED
    BY <1>1, <2>1 DEF Dispatch, world
<1>2. ASSUME NEW o \in Owners, Attach(o) PROVE Truthful'
  BY <1>2 DEF Attach, Spend, bridge
<1>3. ASSUME NEW i \in commands, DispatchFails(i) PROVE Truthful'
  <2>1. Gets(i, "error")
    BY <1>3, CompleteStep DEF DispatchFails, Answers
  <2> QED
    BY <1>3, <2>1 DEF DispatchFails, Gets, StillPending, world
<1>4. ASSUME NEW i \in commands, Run(i) PROVE Truthful'
  <2>1. CASE pending = i /\ running = 0
    BY <1>4, <2>1, RunStep, SMTT(30) DEF Run, world
  <2>2. CASE ~(pending = i /\ running = 0)
    BY <1>4, <2>2 DEF Run, world
  <2> QED
    BY <2>1, <2>2
<1>5. CASE TimeOut
  <2>1. Gets(pending, "error") /\ pending \in 1..asked
    BY <1>5, CompleteStep DEF TimeOut, Answers
  <2> QED
    BY <1>5, <2>1 DEF TimeOut, Gets, world
<1>6. CASE AskRemote
  BY <1>6 DEF AskRemote, world
<1>7. CASE ShutdownRemote
  BY <1>7 DEF ShutdownRemote, SessionShutdown, Idle, bridge
<1>8. CASE ShutdownLocal
  BY <1>8 DEF ShutdownLocal, SessionShutdown, Idle, bridge
<1>9. CASE StartRemote
  BY <1>9, StartStep, SMTT(30) DEF StartRemote, SessionStart
<1>10. CASE StartLocal
  BY <1>10 DEF StartLocal, SessionStart, FinishSessionReplacement, Unbound,
     bridge
<1>11. CASE NewSessionFails
  BY <1>11 DEF NewSessionFails, bridge, world
<1>12. CASE Answer
  <2>1. running \in 1..asked
    BY <1>12 DEF Answer
  <2>2. Gets(running, IF remote = "up" THEN "ok" ELSE "error")
    BY <1>12, <2>1, CompleteStep DEF Answer, Answers
  <2> QED
    BY <1>12, <2>1, <2>2 DEF Answer, Gets, StillPending, world
<1>13. CASE FinishRun
  BY <1>13 DEF FinishRun, FinishSessionReplacement, Unbound
<1>14. ASSUME NEW reason \in Reasons, AskLocal(reason) PROVE Truthful'
  BY <1>14 DEF AskLocal, BeforeSwitch, Spend, world
<1>15. CASE Disconnect
  BY <1>15, DisconnectStep DEF Disconnect
<1>16. CASE CloseRelay
  BY <1>16, CloseStep DEF CloseRelay
<1>17. CASE UNCHANGED vars
  BY <1>17 DEF vars, bridge, world
<1> QED
  BY <1>1, <1>2, <1>3, <1>4, <1>5, <1>6, <1>7, <1>8, <1>9, <1>10, <1>11,
     <1>12, <1>13, <1>14, <1>15, <1>16, <1>17 DEF Next, Pi

LEMMA NextReachable ==
  ASSUME TypeOK, Shape, Unanswered, Reachable, [Next]_vars
  PROVE  Reachable'
<1> USE BoundsAssumption DEF TypeOK, Ids, Shape, Unanswered, Reachable, OkReachesRequester
<1>1. ASSUME NEW o \in Owners, Dispatch(o) PROVE Reachable'
  <2>1. /\ asked' = asked + 1
        /\ running = 0 /\ pending = 0 => request'[asked'].answer = "none"
        /\ request'[asked'].answer \in {"none", "refused"}
        /\ ~request'[asked'].replaced /\ ~request'[asked'].kept
        /\ \A k \in 1..asked : request'[k] = request[k]
    BY <1>1, DispatchStep
  <2> QED
    BY <1>1, <2>1 DEF Dispatch, OnChannel, world
<1>2. ASSUME NEW o \in Owners, Attach(o) PROVE Reachable'
  BY <1>2 DEF Attach, OnChannel, bridge
<1>3. ASSUME NEW i \in commands, DispatchFails(i) PROVE Reachable'
  <2>1. Gets(i, "error")
    BY <1>3, CompleteStep DEF DispatchFails, Answers
  <2> QED
    BY <1>3, <2>1 DEF DispatchFails, Gets, StillPending, OnChannel, world
<1>4. ASSUME NEW i \in commands, Run(i) PROVE Reachable'
  <2>1. CASE pending = i /\ running = 0
    <3>1. i \in 1..asked /\ binding' = binding /\ running' = i /\ asked' = asked
      BY <1>4, <2>1 DEF Run, world
    <3>2. OnChannel(request[running])' = OnChannel(request[i])
      BY <1>4, <2>1, <3>1, RunStep DEF OnChannel
    <3>3. OkReachesRequester'
      BY <1>4, <2>1, <3>1, RunStep
    <3> QED
      BY <1>4, <2>1, <3>1, <3>2, <3>3, RunStep
  <2>2. CASE ~(pending = i /\ running = 0)
    BY <1>4, <2>2 DEF Run, OnChannel, world
  <2> QED
    BY <2>1, <2>2
<1>5. CASE TimeOut
  <2>1. Gets(pending, "error") /\ pending \in 1..asked
    BY <1>5, CompleteStep DEF TimeOut, Answers
  <2> QED
    BY <1>5, <2>1 DEF TimeOut, Gets, OnChannel, world
<1>6. CASE AskRemote
  BY <1>6 DEF AskRemote, OnChannel, world
<1>7. CASE ShutdownRemote
  BY <1>7 DEF ShutdownRemote, OnChannel, bridge
<1>8. CASE ShutdownLocal
  BY <1>8 DEF ShutdownLocal, OnChannel, bridge
<1>9. CASE StartRemote
  BY <1>9, StartStep DEF StartRemote, SessionStart, OnChannel
<1>10. CASE StartLocal
  BY <1>10 DEF StartLocal, SessionStart, FinishSessionReplacement, OnChannel, bridge
<1>11. CASE NewSessionFails
  BY <1>11 DEF NewSessionFails, OnChannel, bridge, world
<1>12. CASE Answer
  <2>1. running \in 1..asked
    BY <1>12 DEF Answer
  <2>2. Gets(running, IF remote = "up" THEN "ok" ELSE "error")
    BY <1>12, <2>1, CompleteStep DEF Answer, Answers
  <2> QED
    BY <1>12, <2>1, <2>2 DEF Answer, Gets, StillPending, world
<1>13. CASE FinishRun
  BY <1>13 DEF FinishRun
<1>14. ASSUME NEW reason \in Reasons, AskLocal(reason) PROVE Reachable'
  BY <1>14 DEF AskLocal, OnChannel, world
<1>15. CASE Disconnect
  BY <1>15, DisconnectStep DEF Disconnect
<1>16. CASE CloseRelay
  BY <1>16, CloseStep DEF CloseRelay
<1>17. CASE UNCHANGED vars
  BY <1>17 DEF vars, OnChannel, bridge, world
<1> QED
  BY <1>1, <1>2, <1>3, <1>4, <1>5, <1>6, <1>7, <1>8, <1>9, <1>10, <1>11,
     <1>12, <1>13, <1>14, <1>15, <1>16, <1>17 DEF Next, Pi

LEMMA InitAnswer == Init => AnswerInv
BY InitType DEF Init, AnswerInv, Shape, LocalDown, Unanswered, Truthful,
   Reachable, OkReachesRequester

LEMMA NextAnswer == AnswerInv /\ [Next]_vars => AnswerInv'
BY NextType, NextShape, NextUnanswered, NextTruthful, NextReachable
   DEF AnswerInv

(* Every request is answered once at most, and truthfully                  *)
(* (session_new_bridge.ts:62-65, 91-108).                                  *)
THEOREM AnswersAreTrue == Spec => []AnswerMatchesOutcome
<1>1. AnswerInv => AnswerMatchesOutcome
  BY DEF AnswerInv, TypeOK, Shape, Unanswered, Truthful, AnswerMatchesOutcome
<1> QED
  BY <1>1, InitAnswer, NextAnswer, PTL DEF Spec

(* The answer goes out before the bye (index.ts:524).                      *)
THEOREM OkBeforeBye == Spec => []OkReachesRequester
<1>1. AnswerInv => OkReachesRequester
  BY DEF AnswerInv, Reachable
<1> QED
  BY <1>1, InitAnswer, NextAnswer, PTL DEF Spec
=============================================================================
