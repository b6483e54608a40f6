----------------------------- MODULE HostProofs -----------------------------
(***************************************************************************)
(* Proofs about HostRuntime, for every set of owners and requests and      *)
(* every bound.                                                            *)
(***************************************************************************)
EXTENDS HostRuntime, FiniteSetTheorems, SequenceTheorems, TLAPS

-----------------------------------------------------------------------------
(* The steps of RelayLifecycle, for any number of starts and clients.     *)

(* Runs are told apart by their generation, none is from the future, and   *)
(* the generation the timer waits for has no run yet.                      *)
RunsNumbered ==
  /\ timer <= generation
  /\ \A run \in ops : run.gen <= generation /\ run.gen # timer
  /\ \A r1, r2 \in ops : r1.gen = r2.gen => r1 = r2

(* A run that connects has a client of its own.                            *)
RunsConnect ==
  /\ \A run \in ops : run.at = "connecting" => run.client \in DOMAIN clients
  /\ \A r1, r2 \in ops :
       r1.at = "connecting" /\ r2.at = "connecting" /\ r1.client = r2.client => r1 = r2

(* The run that loads the identity is the first of its start.              *)
RunsBegin ==
  \A run \in ops : run.at = "identity" /\ run.gen = generation => state = "idle"

(* The candidate is that of the current run.                               *)
PendingCurrent ==
  pending # 0 =>
    /\ state = "started" /\ ~disposed
    /\ \E run \in ops : run.gen = generation /\ run.at = "connecting" /\ run.client = pending

(* While there is a relay nothing is under way to get another.             *)
ActiveAlone ==
  active # 0 =>
    /\ state = "started" /\ ~disposed
    /\ pending = 0 /\ timer # generation
    /\ \A run \in ops : run.gen # generation
    /\ clients[active] \in {"open", "lost"}

(* A socket that lives is the relay's or the candidate's.                  *)
SocketsKnown ==
  \A c \in DOMAIN clients :
    /\ clients[c] = "open" => c = active
    /\ clients[c] = "connecting" => c = pending

LifecycleInv ==
  /\ LifecycleTypeOK
  /\ RunsNumbered /\ RunsConnect /\ RunsBegin
  /\ PendingCurrent /\ ActiveAlone /\ SocketsKnown
  /\ NeverStranded

LEMMA LifecycleInvInit ==
  ASSUME LifecycleInit
  PROVE  LifecycleInv
<1>1. clients = <<>> /\ Len(clients) = 0 /\ clients \in Seq(SocketStates)
  BY EmptySeq DEF LifecycleInit
<1>2. LifecycleTypeOK
  <2>1. 0 \in 0..Len(clients) /\ 0 \in 0..MaxStarts
    BY <1>1, LifecycleAssumption
  <2>2. /\ generation \in Nat /\ initial \in Nat /\ timer \in Nat
        /\ disposed \in BOOLEAN /\ ops \subseteq Run
    BY DEF LifecycleInit
  <2> QED
    BY <1>1, <2>1, <2>2 DEF LifecycleInit, LifecycleTypeOK
<1>3. DOMAIN clients = {}
  BY <1>1 DEF LifecycleInit
<1> QED
  BY <1>2, <1>3
  DEF LifecycleInit, LifecycleInv, RunsNumbered, RunsConnect, RunsBegin,
      PendingCurrent, ActiveAlone, SocketsKnown, NeverStranded

LEMMA ClientsTyped ==
  ASSUME LifecycleTypeOK
  PROVE  /\ Len(clients) \in Nat /\ DOMAIN clients = 1..Len(clients)
         /\ \A c \in DOMAIN clients : clients[c] \in SocketStates
  BY DEF LifecycleTypeOK

(* A step of the socket of one client keeps the clients well formed.       *)
LEMMA ClientChanges ==
  ASSUME LifecycleTypeOK, NEW c \in DOMAIN clients, NEW s \in SocketStates,
         clients' = [clients EXCEPT ![c] = s]
  PROVE  /\ clients' \in Seq(SocketStates) /\ Len(clients') = Len(clients)
         /\ DOMAIN clients' = DOMAIN clients
         /\ clients'[c] = s
         /\ \A d \in DOMAIN clients : d # c => clients'[d] = clients[d]
<1>1. clients \in Seq(SocketStates) /\ c \in 1..Len(clients)
  BY DEF LifecycleTypeOK
<1>2. clients' \in Seq(SocketStates) /\ Len(clients') = Len(clients)
  BY <1>1, ExceptSeq
<1> QED
  BY <1>1, <1>2

(* Once a step has a new generation, no run is of it.                      *)
LEMMA NewGeneration ==
  ASSUME LifecycleTypeOK, RunsNumbered
  PROVE  /\ generation + 1 \in Nat \ {0} /\ generation < generation + 1
         /\ \A run \in ops : run.gen # generation + 1 /\ run.gen <= generation + 1
  BY DEF LifecycleTypeOK, RunsNumbered, Run

LEMMA StartKeeps ==
  ASSUME LifecycleInv, Start
  PROVE  LifecycleInv'
<1> DEFINE new == [gen |-> generation + 1, kind |-> "initial", at |-> "identity", client |-> 0]
<1>1. /\ LifecycleTypeOK /\ RunsNumbered /\ RunsConnect /\ RunsBegin
      /\ PendingCurrent /\ ActiveAlone /\ SocketsKnown
      /\ state = "idle" /\ pending = 0 /\ active = 0
      /\ generation' = generation + 1 /\ initial' = generation + 1
      /\ ops' = ops \cup {new} /\ starts < MaxStarts /\ starts' = starts + 1
      /\ UNCHANGED <<state, disposed, clients, active, pending, timer>>
  BY DEF LifecycleInv, Start, PendingCurrent, ActiveAlone
<1>2. /\ new \in Run /\ new.gen = generation' /\ new.at = "identity"
      /\ \A run \in ops : run.gen # generation' /\ run.gen <= generation'
  BY <1>1, NewGeneration DEF Run
<1> HIDE DEF new
<1>3. LifecycleTypeOK'
  BY <1>1, <1>2, NewGeneration, LifecycleAssumption DEF LifecycleTypeOK
<1>4. RunsNumbered'
  BY <1>1, <1>2 DEF RunsNumbered, LifecycleTypeOK, Run
<1>5. RunsConnect'
  BY <1>1, <1>2 DEF RunsConnect
<1>6. RunsBegin' /\ PendingCurrent' /\ ActiveAlone' /\ SocketsKnown' /\ NeverStranded'
  BY <1>1, <1>2 DEF RunsBegin, PendingCurrent, ActiveAlone, SocketsKnown, NeverStranded
<1> QED
  BY <1>3, <1>4, <1>5, <1>6 DEF LifecycleInv

LEMMA LoadIdentityKeeps ==
  ASSUME LifecycleInv, NEW run \in ops, LoadIdentity(run)
  PROVE  LifecycleInv'
<1> DEFINE next == [run EXCEPT !.at = "options"]
<1>1. /\ LifecycleTypeOK /\ RunsNumbered /\ RunsConnect /\ RunsBegin
      /\ PendingCurrent /\ ActiveAlone /\ SocketsKnown /\ NeverStranded
      /\ run \in Run /\ run.at = "identity"
      /\ UNCHANGED <<disposed, generation, clients, active, pending, timer, starts>>
  BY DEF LifecycleInv, LoadIdentity, LifecycleTypeOK
<1>2. CASE /\ IsOperationCurrent(run.gen) /\ state' = "started"
           /\ ops' = (ops \ {run}) \cup {next} /\ UNCHANGED initial
  <2>1. next \in Run /\ next.gen = run.gen /\ next.at = "options" /\ run.gen = generation
    BY <1>1, <1>2 DEF Run, IsOperationCurrent
  <2> HIDE DEF next
  <2>2. state = "idle" /\ pending = 0 /\ active = 0
    BY <1>1, <2>1 DEF RunsBegin, PendingCurrent, ActiveAlone
  <2>3. \A r \in ops' : r = next \/ (r \in ops /\ r # run)
    BY <1>2
  <2>4. LifecycleTypeOK'
    BY <1>1, <1>2, <2>1 DEF LifecycleTypeOK
  <2>5. RunsNumbered' /\ RunsConnect' /\ RunsBegin'
    BY <1>1, <2>1, <2>3 DEF RunsNumbered, RunsConnect, RunsBegin
  <2>6. PendingCurrent' /\ ActiveAlone' /\ SocketsKnown'
    BY <1>1, <2>2 DEF PendingCurrent, ActiveAlone, SocketsKnown
  <2>7. NeverStranded'
    BY <1>1, <1>2, <2>1 DEF NeverStranded
  <2> QED
    BY <2>4, <2>5, <2>6, <2>7 DEF LifecycleInv
<1>3. CASE Ended(run) /\ UNCHANGED state
  <2>1. ops' = ops \ {run} /\ ops' \subseteq ops /\ initial' \in Nat
    BY <1>1, <1>3 DEF Ended, LifecycleTypeOK
  <2>2. LifecycleTypeOK'
    BY <1>1, <1>3, <2>1 DEF LifecycleTypeOK
  <2>3. RunsNumbered' /\ RunsConnect' /\ RunsBegin'
    BY <1>1, <1>3, <2>1 DEF RunsNumbered, RunsConnect, RunsBegin
  <2>4. PendingCurrent' /\ ActiveAlone' /\ SocketsKnown'
    BY <1>1, <1>3, <2>1 DEF PendingCurrent, ActiveAlone, SocketsKnown
  <2>5. NeverStranded'
    BY <1>1, <1>3, <2>1 DEF NeverStranded, RunsBegin
  <2> QED
    BY <2>2, <2>3, <2>4, <2>5 DEF LifecycleInv
<1> QED
  BY <1>2, <1>3 DEF LoadIdentity

LEMMA BeginConnectKeeps ==
  ASSUME LifecycleInv, NEW run \in ops, BeginConnect(run)
  PROVE  LifecycleInv'
<1> DEFINE c == Len(clients) + 1
           next == [run EXCEPT !.at = "connecting", !.client = c]
<1>1. /\ LifecycleTypeOK /\ RunsNumbered /\ RunsConnect /\ RunsBegin
      /\ PendingCurrent /\ ActiveAlone /\ SocketsKnown /\ NeverStranded
      /\ run \in Run /\ run.at = "options"
      /\ UNCHANGED <<state, disposed, generation, active, timer, starts>>
  BY DEF LifecycleInv, BeginConnect, LifecycleTypeOK
<1>2. CASE IsReconnectCurrent(run.gen)
  <2>1. /\ clients' = Append(clients, "connecting") /\ pending' = c
        /\ ops' = (ops \ {run}) \cup {next} /\ UNCHANGED initial
        /\ state = "started" /\ ~disposed /\ run.gen = generation
    BY <1>2 DEF BeginConnect, IsReconnectCurrent, IsOperationCurrent
  <2>2. /\ Len(clients) \in Nat /\ DOMAIN clients = 1..Len(clients)
        /\ c \in Nat \ {0} /\ c \notin DOMAIN clients
        /\ clients' \in Seq(SocketStates) /\ Len(clients') = c /\ DOMAIN clients' = 1..c
        /\ \A d \in DOMAIN clients : d \in DOMAIN clients' /\ clients'[d] = clients[d]
        /\ c \in DOMAIN clients' /\ clients'[c] = "connecting"
        /\ \A d \in DOMAIN clients' : d = c \/ d \in DOMAIN clients
    <3>1. clients \in Seq(SocketStates) /\ "connecting" \in SocketStates
      BY <1>1 DEF LifecycleTypeOK, SocketStates
    <3> QED
      BY <2>1, <3>1, AppendProperties, LenProperties
  <2>3. next \in Run /\ next.gen = generation /\ next.at = "connecting" /\ next.client = c
    BY <1>1, <2>1, <2>2 DEF Run
  <2> HIDE DEF next, c
  <2>4. pending = 0 /\ active = 0
    BY <1>1, <2>1 DEF PendingCurrent, ActiveAlone, RunsNumbered
  <2>5. \A r \in ops' : r = next \/ (r \in ops /\ r # run)
    BY <2>1
  <2>6. LifecycleTypeOK'
    BY <1>1, <2>1, <2>2, <2>3, <2>4 DEF LifecycleTypeOK
  <2>7. RunsNumbered' /\ RunsBegin'
    BY <1>1, <2>1, <2>3, <2>5 DEF RunsNumbered, RunsBegin
  <2>8. RunsConnect'
    BY <1>1, <2>2, <2>3, <2>5 DEF RunsConnect
  <2>9. PendingCurrent' /\ ActiveAlone' /\ NeverStranded'
    BY <1>1, <2>1, <2>3, <2>4 DEF PendingCurrent, ActiveAlone, NeverStranded
  <2>10. SocketsKnown'
    BY <1>1, <2>1, <2>2, <2>4 DEF SocketsKnown
  <2> QED
    BY <2>6, <2>7, <2>8, <2>9, <2>10 DEF LifecycleInv
<1>3. CASE ~IsReconnectCurrent(run.gen)
  <2>1. /\ ops' = ops \ {run} /\ ops' \subseteq ops /\ initial' \in Nat
        /\ UNCHANGED <<clients, pending>>
        /\ run.gen = generation => disposed \/ state # "started"
    BY <1>1, <1>3
    DEF BeginConnect, Ended, LifecycleTypeOK, IsReconnectCurrent, IsOperationCurrent
  <2>2. LifecycleTypeOK'
    BY <1>1, <2>1 DEF LifecycleTypeOK
  <2>3. RunsNumbered' /\ RunsConnect' /\ RunsBegin'
    BY <1>1, <2>1 DEF RunsNumbered, RunsConnect, RunsBegin
  <2>4. PendingCurrent' /\ ActiveAlone' /\ SocketsKnown' /\ NeverStranded'
    BY <1>1, <2>1 DEF PendingCurrent, ActiveAlone, SocketsKnown, NeverStranded
  <2> QED
    BY <2>2, <2>3, <2>4 DEF LifecycleInv
<1> QED
  BY <1>2, <1>3

(* A client that connects is the candidate, so its run is the current one. *)
LEMMA ConnectingIsCurrent ==
  ASSUME LifecycleInv, NEW run \in ops, run.at = "connecting"
  PROVE  /\ run.client \in DOMAIN clients
         /\ clients[run.client] = "connecting" => pending = run.client
         /\ pending = run.client =>
              run.gen = generation /\ state = "started" /\ ~disposed
<1>1. RunsConnect /\ PendingCurrent /\ SocketsKnown /\ LifecycleTypeOK
  BY DEF LifecycleInv
<1>2. run.client \in DOMAIN clients /\ run.client # 0
  BY <1>1, ClientsTyped DEF RunsConnect
<1> QED
  BY <1>1, <1>2 DEF RunsConnect, PendingCurrent, SocketsKnown

LEMMA ConnectedKeeps ==
  ASSUME LifecycleInv, NEW run \in ops, Connected(run)
  PROVE  /\ LifecycleInv' /\ Accepted(run) /\ active = 0 /\ active' = run.client
<1> DEFINE c == run.client
<1>1. /\ LifecycleTypeOK /\ RunsNumbered /\ RunsConnect /\ RunsBegin
      /\ PendingCurrent /\ ActiveAlone /\ SocketsKnown /\ NeverStranded
      /\ run \in Run /\ run.at = "connecting"
      /\ UNCHANGED <<state, disposed, generation, timer, starts>>
  BY DEF LifecycleInv, Connected, LifecycleTypeOK
<1>2. /\ c \in DOMAIN clients /\ pending = c /\ run.gen = generation
      /\ state = "started" /\ ~disposed
  BY <1>1, ConnectingIsCurrent DEF Connected
<1>3. /\ Accepted(run) /\ clients' = [clients EXCEPT ![c] = "open"]
      /\ active' = c /\ pending' = 0
      /\ ops' = ops \ {run} /\ ops' \subseteq ops /\ initial' \in Nat
  BY <1>1, <1>2
  DEF Connected, Accepted, IsReconnectCurrent, IsOperationCurrent, Ended, LifecycleTypeOK
<1>4. active = 0
  BY <1>1, <1>2 DEF ActiveAlone
<1>5. /\ clients' \in Seq(SocketStates) /\ Len(clients') = Len(clients)
      /\ DOMAIN clients' = DOMAIN clients /\ DOMAIN clients = 1..Len(clients)
      /\ clients'[c] = "open" /\ \A d \in DOMAIN clients : d # c => clients'[d] = clients[d]
  <2>1. "open" \in SocketStates
    BY DEF SocketStates
  <2> QED
    BY <1>1, <1>2, <1>3, <2>1, ClientChanges, ClientsTyped
<1>6. c \in 0..Len(clients') /\ Len(clients) \in Nat
  BY <1>1, <1>2, <1>5, ClientsTyped
<1> HIDE DEF c
<1>7. LifecycleTypeOK'
  BY <1>1, <1>3, <1>5, <1>6 DEF LifecycleTypeOK
<1>8. RunsNumbered' /\ RunsConnect' /\ RunsBegin'
  BY <1>1, <1>3, <1>5 DEF RunsNumbered, RunsConnect, RunsBegin
<1>9. PendingCurrent' /\ ActiveAlone' /\ SocketsKnown' /\ NeverStranded'
  BY <1>1, <1>2, <1>3, <1>4, <1>5, ClientsTyped
  DEF PendingCurrent, ActiveAlone, SocketsKnown, NeverStranded, RunsNumbered
<1> QED
  BY <1>3, <1>4, <1>7, <1>8, <1>9 DEF LifecycleInv, c

LEMMA ConnectFailsKeeps ==
  ASSUME LifecycleInv, NEW run \in ops, ConnectFails(run)
  PROVE  LifecycleInv'
<1> DEFINE c == run.client
<1>1. /\ LifecycleTypeOK /\ RunsNumbered /\ RunsConnect /\ RunsBegin
      /\ PendingCurrent /\ ActiveAlone /\ SocketsKnown /\ NeverStranded
      /\ run \in Run /\ run.at = "connecting"
      /\ clients[c] \in {"connecting", "closed"}
      /\ clients' = [clients EXCEPT ![c] = "closed"]
      /\ pending' = IF pending = c THEN 0 ELSE pending
      /\ ops' = ops \ {run} /\ ops' \subseteq ops /\ initial' \in Nat
      /\ UNCHANGED <<state, disposed, active, starts>>
  BY DEF LifecycleInv, ConnectFails, LifecycleTypeOK, Ended
<1>2. /\ c \in DOMAIN clients /\ (clients[c] = "connecting" => pending = c)
      /\ (pending = c => run.gen = generation /\ state = "started" /\ ~disposed)
  BY <1>1, ConnectingIsCurrent
<1>3. /\ clients' \in Seq(SocketStates) /\ Len(clients') = Len(clients)
      /\ DOMAIN clients' = DOMAIN clients /\ DOMAIN clients = 1..Len(clients)
      /\ clients'[c] = "closed" /\ \A d \in DOMAIN clients : d # c => clients'[d] = clients[d]
  <2>1. "closed" \in SocketStates
    BY DEF SocketStates
  <2> QED
    BY <1>1, <1>2, <2>1, ClientChanges, ClientsTyped
<1>4. active # 0 => c # active
  BY <1>1 DEF ActiveAlone
<1> HIDE DEF c
<1>5. SocketsKnown' /\ RunsConnect'
  BY <1>1, <1>2, <1>3 DEF SocketsKnown, RunsConnect
<1>6. CASE IsReconnectCurrent(run.gen)
  <2>1. /\ generation' = generation + 1 /\ timer' = generation + 1
        /\ run.gen = generation /\ state = "started" /\ ~disposed
    BY <1>6 DEF ConnectFails, ScheduleReconnect, IsReconnectCurrent, IsOperationCurrent
  <2>2. pending' = 0 /\ active = 0
    BY <1>1, <2>1 DEF PendingCurrent, ActiveAlone, RunsNumbered, c
  <2>3. \A r \in ops : r.gen # generation' /\ r.gen <= generation'
    BY <1>1, <2>1, NewGeneration
  <2>4. LifecycleTypeOK'
    BY <1>1, <1>3, <2>1, <2>2, ClientsTyped, NewGeneration DEF LifecycleTypeOK
  <2>5. RunsNumbered'
    BY <1>1, <2>1, <2>3 DEF RunsNumbered, LifecycleTypeOK
  <2>6. RunsBegin' /\ PendingCurrent' /\ ActiveAlone' /\ NeverStranded'
    BY <1>1, <2>1, <2>2, <2>3 DEF RunsBegin, PendingCurrent, ActiveAlone, NeverStranded
  <2> QED
    BY <1>5, <2>4, <2>5, <2>6 DEF LifecycleInv
<1>7. CASE ~IsReconnectCurrent(run.gen)
  <2>1. /\ UNCHANGED <<generation, timer>>
        /\ run.gen = generation => disposed \/ state # "started"
        /\ pending # c /\ pending' = pending
    BY <1>1, <1>2, <1>7 DEF ConnectFails, IsReconnectCurrent, IsOperationCurrent
  <2>2. LifecycleTypeOK'
    BY <1>1, <1>3, <2>1 DEF LifecycleTypeOK
  <2>3. RunsNumbered' /\ RunsBegin'
    BY <1>1, <2>1 DEF RunsNumbered, RunsBegin
  <2>4. PendingCurrent' /\ NeverStranded'
    BY <1>1, <2>1 DEF PendingCurrent, NeverStranded
  <2>5. ActiveAlone'
    <3>1. active # 0 => active \in DOMAIN clients
      BY <1>1, ClientsTyped DEF LifecycleTypeOK
    <3> QED
      BY <1>1, <1>3, <1>4, <2>1, <3>1 DEF ActiveAlone
  <2> QED
    BY <1>5, <2>2, <2>3, <2>4, <2>5 DEF LifecycleInv
<1> QED
  BY <1>6, <1>7

LEMMA FireReconnectKeeps ==
  ASSUME LifecycleInv, FireReconnect
  PROVE  LifecycleInv'
<1> DEFINE new == [gen |-> timer, kind |-> "reconnect", at |-> "options", client |-> 0]
<1>1. /\ LifecycleTypeOK /\ RunsNumbered /\ RunsConnect /\ RunsBegin
      /\ PendingCurrent /\ ActiveAlone /\ SocketsKnown /\ NeverStranded
      /\ timer # 0 /\ timer' = 0
      /\ ops' = IF IsReconnectCurrent(timer) THEN ops \cup {new} ELSE ops
      /\ UNCHANGED <<state, disposed, generation, initial, clients, active, pending, starts>>
  BY DEF LifecycleInv, FireReconnect
<1>2. new \in Run /\ new.gen = timer /\ new.at = "options"
  BY <1>1 DEF LifecycleTypeOK, Run
<1> HIDE DEF new
<1>3. \A run \in ops' : run \in ops \/ (run = new /\ IsReconnectCurrent(timer))
  BY <1>1
<1>4. LifecycleTypeOK'
  BY <1>1, <1>2 DEF LifecycleTypeOK
<1>5. RunsNumbered'
  BY <1>1, <1>2, <1>3 DEF RunsNumbered, LifecycleTypeOK, Run
<1>6. RunsConnect' /\ RunsBegin'
  BY <1>1, <1>2, <1>3 DEF RunsConnect, RunsBegin
<1>7. PendingCurrent' /\ SocketsKnown'
  BY <1>1 DEF PendingCurrent, SocketsKnown
<1>8. ActiveAlone'
  <2>1. active # 0 => generation # 0
    BY <1>1 DEF ActiveAlone, RunsNumbered, LifecycleTypeOK
  <2> QED
    BY <1>1, <1>2, <1>3, <2>1 DEF ActiveAlone
<1>9. NeverStranded'
  BY <1>1, <1>2 DEF NeverStranded, IsReconnectCurrent, IsOperationCurrent
<1> QED
  BY <1>4, <1>5, <1>6, <1>7, <1>8, <1>9 DEF LifecycleInv

LEMMA LoseKeeps ==
  ASSUME LifecycleInv, Lose
  PROVE  LifecycleInv'
<1>1. /\ LifecycleTypeOK /\ RunsNumbered /\ RunsConnect /\ RunsBegin
      /\ PendingCurrent /\ ActiveAlone /\ SocketsKnown /\ NeverStranded
      /\ active # 0 /\ clients[active] = "open"
      /\ clients' = [clients EXCEPT ![active] = "lost"]
      /\ UNCHANGED <<state, disposed, generation, initial, ops, active, pending, timer, starts>>
  BY DEF LifecycleInv, Lose, IsOpen
<1>2. active \in DOMAIN clients /\ "lost" \in SocketStates
  BY <1>1, ClientsTyped DEF LifecycleTypeOK, SocketStates
<1>3. /\ clients' \in Seq(SocketStates) /\ Len(clients') = Len(clients)
      /\ DOMAIN clients' = DOMAIN clients /\ clients'[active] = "lost"
      /\ \A d \in DOMAIN clients : d # active => clients'[d] = clients[d]
  BY <1>1, <1>2, ClientChanges
<1>4. LifecycleTypeOK'
  BY <1>1, <1>3 DEF LifecycleTypeOK
<1>5. RunsNumbered' /\ RunsConnect' /\ RunsBegin'
  BY <1>1, <1>3 DEF RunsNumbered, RunsConnect, RunsBegin
<1>6. PendingCurrent' /\ ActiveAlone' /\ SocketsKnown' /\ NeverStranded'
  BY <1>1, <1>2, <1>3 DEF PendingCurrent, ActiveAlone, SocketsKnown, NeverStranded
<1> QED
  BY <1>4, <1>5, <1>6 DEF LifecycleInv

LEMMA OnRelayCloseKeeps ==
  ASSUME LifecycleInv, OnRelayClose
  PROVE  LifecycleInv'
<1>1. /\ LifecycleTypeOK /\ RunsNumbered /\ RunsConnect /\ RunsBegin
      /\ PendingCurrent /\ ActiveAlone /\ SocketsKnown /\ NeverStranded
      /\ active # 0 /\ clients[active] = "lost" /\ active' = 0
      /\ clients' = [clients EXCEPT ![active] = "closed"]
      /\ UNCHANGED <<state, disposed, initial, ops, pending, starts>>
  BY DEF LifecycleInv, OnRelayClose
<1>2. active \in DOMAIN clients /\ "closed" \in SocketStates /\ Len(clients) \in Nat
  BY <1>1, ClientsTyped DEF LifecycleTypeOK, SocketStates
<1>3. /\ clients' \in Seq(SocketStates) /\ Len(clients') = Len(clients)
      /\ DOMAIN clients' = DOMAIN clients /\ clients'[active] = "closed"
      /\ \A d \in DOMAIN clients : d # active => clients'[d] = clients[d]
  BY <1>1, <1>2, ClientChanges
<1>4. /\ state = "started" /\ ~disposed /\ pending = 0
      /\ generation' = generation + 1 /\ timer' = generation + 1
  BY <1>1 DEF ActiveAlone, OnRelayClose, ScheduleReconnect
<1>5. \A r \in ops : r.gen # generation' /\ r.gen <= generation'
  BY <1>1, <1>4, NewGeneration
<1>6. LifecycleTypeOK'
  BY <1>1, <1>2, <1>3, <1>4, NewGeneration DEF LifecycleTypeOK
<1>7. RunsNumbered' /\ RunsConnect' /\ RunsBegin'
  BY <1>1, <1>3, <1>4, <1>5 DEF RunsNumbered, RunsConnect, RunsBegin, LifecycleTypeOK
<1>8. PendingCurrent' /\ ActiveAlone' /\ SocketsKnown' /\ NeverStranded'
  BY <1>1, <1>2, <1>3, <1>4 DEF PendingCurrent, ActiveAlone, SocketsKnown, NeverStranded
<1> QED
  BY <1>6, <1>7, <1>8 DEF LifecycleInv

LEMMA StopRelayKeeps ==
  ASSUME LifecycleInv, StopRelay, disposed' \in BOOLEAN
  PROVE  LifecycleInv'
<1>1. /\ LifecycleTypeOK /\ RunsNumbered /\ RunsConnect /\ RunsBegin
      /\ PendingCurrent /\ ActiveAlone /\ SocketsKnown
      /\ generation' = generation + 1 /\ timer' = 0 /\ initial' = 0
      /\ active' = 0 /\ pending' = 0 /\ state' = "idle"
      /\ clients' = [c \in DOMAIN clients |->
                       IF c \in {active, pending} THEN "closed" ELSE clients[c]]
      /\ UNCHANGED <<ops, starts>>
  BY DEF LifecycleInv, StopRelay
<1>2. Len(clients) \in Nat /\ DOMAIN clients = 1..Len(clients)
  BY <1>1, ClientsTyped
<1>3. clients' \in Seq(SocketStates) /\ DOMAIN clients' = DOMAIN clients
  <2>1. \A c \in DOMAIN clients : clients'[c] \in SocketStates
    BY <1>1, ClientsTyped DEF SocketStates
  <2>2. clients' \in [1..Len(clients) -> SocketStates]
    BY <1>1, <1>2, <2>1
  <2> QED
    BY <1>2, <2>2, SeqDef
<1>4. \A r \in ops : r.gen # generation' /\ r.gen <= generation' /\ r.gen # 0
  BY <1>1, NewGeneration DEF LifecycleTypeOK, Run
<1>5. LifecycleTypeOK'
  <2>1. 0 \in 0..Len(clients')
    BY <1>3, LenProperties
  <2> QED
    BY <1>1, <1>3, <2>1, NewGeneration DEF LifecycleTypeOK
<1>6. RunsNumbered' /\ RunsConnect' /\ RunsBegin'
  BY <1>1, <1>3, <1>4, NewGeneration DEF RunsNumbered, RunsConnect, RunsBegin
<1>7. PendingCurrent' /\ ActiveAlone' /\ NeverStranded'
  BY <1>1 DEF PendingCurrent, ActiveAlone, NeverStranded
<1>8. SocketsKnown'
  BY <1>1, <1>3 DEF SocketsKnown
<1> QED
  BY <1>5, <1>6, <1>7, <1>8 DEF LifecycleInv

LEMMA LifecycleUnchanged ==
  ASSUME LifecycleInv, UNCHANGED lifecycleVars
  PROVE  LifecycleInv'
  BY DEF lifecycleVars, LifecycleInv, LifecycleTypeOK, RunsNumbered, RunsConnect, RunsBegin,
         PendingCurrent, ActiveAlone, SocketsKnown, NeverStranded

(* The relay and the candidate are not both there, so one socket lives.    *)
LEMMA SocketsAreOne ==
  ASSUME LifecycleInv
  PROVE  OneConnection
<1> DEFINE living == {c \in DOMAIN clients : clients[c] \in {"connecting", "open"}}
           one == IF active # 0 THEN active ELSE pending
<1>1. living \subseteq {one}
  <2> SUFFICES ASSUME NEW c \in DOMAIN clients, clients[c] \in {"connecting", "open"}
               PROVE  c = one
    OBVIOUS
  <2>1. LifecycleTypeOK /\ SocketsKnown /\ ActiveAlone /\ c # 0
    BY ClientsTyped DEF LifecycleInv
  <2>2. CASE active # 0
    BY <2>1, <2>2 DEF SocketsKnown, ActiveAlone
  <2>3. CASE active = 0
    BY <2>1, <2>3 DEF SocketsKnown
  <2> QED
    BY <2>2, <2>3
<1>2. IsFiniteSet({one}) /\ Cardinality({one}) = 1
  BY FS_Singleton
<1>3. Cardinality(living) <= Cardinality({one})
  BY <1>1, <1>2, FS_Subset
<1> QED
  BY <1>2, <1>3 DEF OneConnection

-----------------------------------------------------------------------------
(* The relay connection and the bindings that follow it.                   *)

ConnectionInv ==
  /\ LifecycleInv
  /\ DOMAIN bindings = Owners
  /\ BindingsAreCurrent

(* All that a step of the host's own does to a binding.                    *)
Attached ==
  /\ UNCHANGED lifecycleVars
  /\ DOMAIN bindings' = Owners
  /\ \A o \in Owners :
       bindings'[o] \in {bindings[o], None} \/ IsCurrent(bindings'[o].client)

LEMMA AttachedKeeps ==
  ASSUME ConnectionInv, Attached
  PROVE  ConnectionInv'
<1>1. LifecycleInv'
  BY LifecycleUnchanged DEF ConnectionInv, Attached
<1>2. BindingsAreCurrent'
  BY DEF ConnectionInv, Attached, BindingsAreCurrent, IsCurrent, lifecycleVars
<1> QED
  BY <1>1, <1>2 DEF ConnectionInv, Attached

(* Every owner is detached.                                                *)
LEMMA DetachedKeeps ==
  ASSUME LifecycleInv', bindings' = [o \in Owners |-> None]
  PROVE  ConnectionInv'
  BY DEF ConnectionInv, BindingsAreCurrent

LEMMA AttachIsCurrent ==
  ASSUME ConnectionInv, NEW o, NEW c, IsCurrent(c), Attach(o, c),
         UNCHANGED lifecycleVars
  PROVE  Attached
<1>1. CASE session
  <2>1. bindings' = [bindings EXCEPT ![o] = [no |-> bound + 1, client |-> c]]
    BY <1>1 DEF Attach
  <2>2. o \in Owners => bindings'[o].client = c
    BY <2>1 DEF ConnectionInv
  <2> QED
    BY <2>1, <2>2 DEF ConnectionInv, Attached
<1>2. CASE ~session
  <2>1. bindings' = [bindings EXCEPT ![o] = None]
    BY <1>2 DEF Attach
  <2> QED
    BY <2>1 DEF ConnectionInv, Attached
<1> QED
  BY <1>1, <1>2

LEMMA HandleAttaches ==
  ASSUME ConnectionInv, NEW o, NEW c, NEW q, NEW token, NEW others,
         Handle(c, o, q, token, others), UNCHANGED lifecycleVars
  PROVE  Attached
<1>1. UNCHANGED bindings \/ (IsCurrent(c) /\ Attach(o, c))
  BY DEF Handle
<1>2. CASE UNCHANGED bindings
  BY <1>2 DEF ConnectionInv, Attached
<1> QED
  BY <1>1, <1>2, AttachIsCurrent

LEMMA ConnectKeeps ==
  ASSUME ConnectionInv, NEW run \in ops, Connect(run)
  PROVE  ConnectionInv'
<1>1. bindings' = bindings /\ LifecycleInv
  BY DEF Connect, ownerVars, ConnectionInv
<1>2. CASE LoadIdentity(run) \/ ConnectFails(run) \/ BeginConnect(run)
  <2>1. LifecycleInv'
    BY <1>1, <1>2, LoadIdentityKeeps, ConnectFailsKeeps, BeginConnectKeeps
  <2>2. UNCHANGED <<disposed, active>> /\ (state' = state \/ state' = "started")
    BY <1>2 DEF LoadIdentity, ConnectFails, BeginConnect
  <2> QED
    BY <1>1, <2>1, <2>2 DEF ConnectionInv, BindingsAreCurrent, IsCurrent
<1>3. CASE Connected(run)
  <2>1. LifecycleInv' /\ active = 0
    BY <1>1, <1>3, ConnectedKeeps
  <2>2. \A o \in Owners : bindings[o] = None
    BY <2>1 DEF ConnectionInv, BindingsAreCurrent, IsCurrent
  <2> QED
    BY <1>1, <2>1, <2>2 DEF ConnectionInv, BindingsAreCurrent
<1> QED
  BY <1>2, <1>3 DEF Connect

LEMMA ConnectionInit ==
  ASSUME Init
  PROVE  ConnectionInv
  BY LifecycleInvInit DEF Init, ConnectionInv, BindingsAreCurrent

LEMMA ConnectionNext ==
  ASSUME ConnectionInv, [Next]_vars
  PROVE  ConnectionInv'
<1>1. ASSUME UNCHANGED <<lifecycleVars, bindings>>
      PROVE  ConnectionInv'
  <2>1. Attached
    BY <1>1 DEF ConnectionInv, Attached
  <2> QED
    BY <2>1, AttachedKeeps
<1>2. CASE \/ StartUpdate \/ SendUpdate \/ BeginWrite \/ EndAdd \/ FailWrite \/ Rollback
           \/ IssueToken \/ ExpireToken \/ Refresh \/ UNCHANGED vars
           \/ \E o \in Owners : SessionFrame(o) \/ Revoke(o)
  <2>1. UNCHANGED <<lifecycleVars, bindings>>
    BY <1>2
    DEF StartUpdate, SendUpdate, BeginWrite, EndAdd, FailWrite, Rollback, IssueToken,
        ExpireToken, Refresh, SessionFrame, Revoke, vars, ownerVars
  <2> QED
    BY <1>1, <2>1
<1>3. CASE Revoked
  <2>1. Attached
    BY <1>3 DEF Revoked, ConnectionInv, Attached
  <2> QED
    BY <2>1, AttachedKeeps
<1>4. CASE \E i \in DOMAIN waiting : HandleAgain(i)
  <2> PICK i \in DOMAIN waiting : HandleAgain(i)
    BY <1>4
  <2>1. Attached
    BY HandleAttaches DEF HandleAgain
  <2> QED
    BY <2>1, AttachedKeeps
<1>5. CASE \E o \in Owners, q \in Requests, token \in 1..used.tokens : PairRequest(o, q, token)
  <2> PICK o \in Owners, q \in Requests, token \in 1..used.tokens : PairRequest(o, q, token)
    BY <1>5
  <2>1. Attached
    BY HandleAttaches DEF PairRequest
  <2> QED
    BY <2>1, AttachedKeeps
<1>6. CASE \E l \in lookups : Found(l)
  <2> PICK l \in lookups : Found(l)
    BY <1>6
  <2>1. CASE UNCHANGED <<lifecycleVars, bindings>>
    BY <2>1, <1>1
  <2>2. CASE IsCurrent(l.client) /\ Attach(l.owner, l.client)
    <3>1. Attached
      BY <2>2, AttachIsCurrent DEF Found
    <3> QED
      BY <3>1, AttachedKeeps
  <2> QED
    BY <2>1, <2>2 DEF Found
<1>7. CASE SwitchSession
  <2>1. CASE bindings' = [o \in Owners |-> None] /\ (Start \/ UNCHANGED lifecycleVars)
    BY <2>1, StartKeeps, LifecycleUnchanged, DetachedKeeps DEF ConnectionInv
  <2> QED
    BY <1>1, <1>7, <2>1 DEF SwitchSession
<1>8. CASE \E run \in ops : Connect(run)
  BY <1>8, ConnectKeeps
<1>9. CASE Lifecycle
  <2>1. LifecycleInv'
    BY <1>9, StartKeeps, FireReconnectKeeps, LoseKeeps DEF Lifecycle, ConnectionInv
  <2>2. UNCHANGED <<state, disposed, active, bindings>>
    BY <1>9 DEF Lifecycle, Start, FireReconnect, Lose, ownerVars
  <2> QED
    BY <2>1, <2>2 DEF ConnectionInv, BindingsAreCurrent, IsCurrent
<1>10. CASE Close \/ Stop \/ Quit
  <2>1. LifecycleInv'
    BY <1>10, OnRelayCloseKeeps, StopRelayKeeps
    DEF Close, Stop, Quit, ConnectionInv, LifecycleInv, LifecycleTypeOK
  <2> QED
    BY <1>10, <2>1, DetachedKeeps DEF Close, Stop, Quit, OnDisconnected
<1> QED
  BY <1>2, <1>3, <1>4, <1>5, <1>6, <1>7, <1>8, <1>9, <1>10 DEF Next, React

(* A started runtime that has no relay is about to get one: no stop, close *)
(* or overtaken run of relay_lifecycle.ts leaves it with nothing under way.*)
THEOREM Reconnects == Spec => []NeverStranded
<1>1. ConnectionInv => NeverStranded
  BY DEF ConnectionInv, LifecycleInv
<1> QED
  BY <1>1, ConnectionInit, ConnectionNext, PTL DEF Spec

(* At most one client of the runtime is connected or connecting, whatever  *)
(* stops, starts and closes overtake a connect() that awaits the relay.    *)
THEOREM OneSocket == Spec => []OneConnection
<1>1. ConnectionInv => OneConnection
  BY SocketsAreOne DEF ConnectionInv
<1> QED
  BY <1>1, ConnectionInit, ConnectionNext, PTL DEF Spec

(* An owner is bound to the relay connection he came in on, and to no      *)
(* other: onDisconnected detaches all, findKnownOwner is followed by a look*)
(* at the relay.                                                           *)
THEOREM BindingsFollowRelay == Spec => []BindingsAreCurrent
<1>1. ConnectionInv => BindingsAreCurrent
  BY DEF ConnectionInv
<1> QED
  BY <1>1, ConnectionInit, ConnectionNext, PTL DEF Spec

-----------------------------------------------------------------------------
(* The mutation lane and the update queue, and the attempts they serve.    *)

Awaits(att, m, at) ==
  m.by \in DOMAIN att /\ att[m.by].owner = m.owner /\ att[m.by].at = at

(* A write that an attempt waits for is in the lane once, and the attempts *)
(* that add are served in the order they began.                            *)
ServesLane(l, att) ==
  /\ \A i \in DOMAIN l :
       /\ l[i].kind = "add" => Awaits(att, l[i], "adding")
       /\ l[i].kind = "rollback" => Awaits(att, l[i], "rolling")
  /\ \A i, j \in DOMAIN l :
       l[i].kind = "add" /\ l[j].kind = "add" /\ i < j => l[i].by < l[j].by
  /\ \A i, j \in DOMAIN l :
       l[i].kind = "rollback" /\ l[j].kind = "rollback" /\ l[i].by = l[j].by => i = j
  /\ \A a \in DOMAIN att :
       att[a].at = "adding" => \E i \in DOMAIN l : l[i].kind = "add" /\ l[i].by = a

(* So is an update.                                                        *)
ServesUpdates(u, att) ==
  /\ \A i \in DOMAIN u : u[i].by # 0 =>
       u[i].by \in DOMAIN att /\ att[u[i].by].at \in {"updating", "refreshing"}
  /\ \A i, j \in DOMAIN u : u[i].by # 0 /\ u[i].by = u[j].by => i = j

LEMMA Tails ==
  ASSUME NEW S, NEW s \in Seq(S), s # <<>>
  PROVE  /\ 1 \in DOMAIN s /\ Head(s) = s[1] /\ Head(s) \in S
         /\ Tail(s) \in Seq(S)
         /\ \A i \in DOMAIN Tail(s) :
              i \in Nat /\ i + 1 \in DOMAIN s /\ i + 1 # 1 /\ Tail(s)[i] = s[i + 1]
         /\ \A i \in DOMAIN s : i # 1 => i - 1 \in DOMAIN Tail(s) /\ Tail(s)[i - 1] = s[i]
<1>1. /\ Len(s) \in Nat \ {0} /\ DOMAIN s = 1..Len(s)
      /\ DOMAIN Tail(s) = 1..Len(Tail(s)) /\ Len(Tail(s)) = Len(s) - 1
      /\ \A i \in 1..Len(Tail(s)) : Tail(s)[i] = s[i + 1]
  BY LenProperties, HeadTailProperties, EmptySeq
<1>2. Head(s) = s[1] /\ Head(s) \in S /\ Tail(s) \in Seq(S)
  BY HeadTailProperties
<1> QED
  BY <1>1, <1>2

LEMMA Appended ==
  ASSUME NEW S, NEW s \in Seq(S), NEW e \in S
  PROVE  /\ Append(s, e) \in Seq(S)
         /\ Len(s) \in Nat /\ DOMAIN s = 1..Len(s) /\ Len(s) + 1 \notin DOMAIN s
         /\ DOMAIN Append(s, e) = DOMAIN s \cup {Len(s) + 1}
         /\ \A i \in DOMAIN s : i < Len(s) + 1 /\ Append(s, e)[i] = s[i]
         /\ Append(s, e)[Len(s) + 1] = e
<1>1. /\ Append(s, e) \in Seq(S) /\ Len(Append(s, e)) = Len(s) + 1
      /\ \A i \in 1..Len(s) : Append(s, e)[i] = s[i]
      /\ Append(s, e)[Len(s) + 1] = e
  BY AppendProperties
<1>2. /\ Len(s) \in Nat /\ DOMAIN s = 1..Len(s)
      /\ DOMAIN Append(s, e) = 1..Len(Append(s, e))
  BY <1>1, LenProperties
<1> QED
  BY <1>1, <1>2

LEMMA Excepted ==
  ASSUME NEW S, NEW s \in Seq(S), NEW i \in DOMAIN s, NEW e \in S
  PROVE  /\ [s EXCEPT ![i] = e] \in Seq(S)
         /\ DOMAIN [s EXCEPT ![i] = e] = DOMAIN s
         /\ [s EXCEPT ![i] = e][i] = e
         /\ \A j \in DOMAIN s : j # i => [s EXCEPT ![i] = e][j] = s[j]
<1>1. i \in 1..Len(s)
  BY LenProperties
<1> QED
  BY <1>1, ExceptSeq

(* The head of the lane is served.                                         *)
LEMMA LanePops ==
  ASSUME NEW l \in Seq(Mutation), l # <<>>, NEW att, NEW att2, ServesLane(l, att),
         DOMAIN att2 = DOMAIN att,
         \A x \in DOMAIN att :
           /\ att2[x].owner = att[x].owner
           /\ \/ att2[x].at = att[x].at
              \/ x = Head(l).by /\ Head(l).kind # "remove" /\ att2[x].at # "adding"
              \/ att2[x].at \notin {"adding", "rolling"} /\ att[x].at \notin {"adding", "rolling"},
         Head(l).kind = "add" => att2[Head(l).by].at # "adding"
  PROVE  ServesLane(Tail(l), att2)
<1> DEFINE t == Tail(l)
<1>1. /\ 1 \in DOMAIN l /\ Head(l) = l[1] /\ Head(l) \in Mutation
      /\ \A i \in DOMAIN t : i \in Nat /\ i + 1 \in DOMAIN l /\ i + 1 # 1 /\ t[i] = l[i + 1]
      /\ \A i \in DOMAIN l : i # 1 => i - 1 \in DOMAIN t /\ t[i - 1] = l[i]
      /\ DOMAIN l = 1..Len(l) /\ Len(l) \in Nat
  BY Tails, LenProperties
<1>2. l[1].kind \in {"add", "rollback", "remove"}
  BY <1>1 DEF Mutation
<1> HIDE DEF t
<1>3. \A i, j \in DOMAIN t : i < j => i + 1 < j + 1
  BY <1>1
<1>4. \A i \in DOMAIN l : i # 1 => 1 < i
  BY <1>1
<1>5. ASSUME NEW i \in DOMAIN t
      PROVE  /\ t[i].kind = "add" => Awaits(att2, t[i], "adding")
             /\ t[i].kind = "rollback" => Awaits(att2, t[i], "rolling")
  <2>1. /\ i + 1 \in DOMAIN l /\ i + 1 # 1 /\ t[i] = l[i + 1] /\ 1 < i + 1
    BY <1>1, <1>4
  <2>2. /\ t[i].kind = "add" => Awaits(att, t[i], "adding")
        /\ t[i].kind = "rollback" => Awaits(att, t[i], "rolling")
    BY <2>1 DEF ServesLane
  <2>3. CASE t[i].kind = "add"
    <3>1. l[1].kind = "add" => l[1].by < t[i].by
      BY <1>1, <2>1, <2>3 DEF ServesLane
    <3>2. l[1].kind = "rollback" => att[l[1].by].at = "rolling"
      BY <1>1 DEF ServesLane, Awaits
    <3>3. l[1].kind \in {"add", "rollback"} => l[1].by # t[i].by
      BY <1>1, <2>2, <2>3, <3>1, <3>2 DEF Awaits, Mutation
    <3> QED
      BY <1>1, <1>2, <2>2, <2>3, <3>3 DEF Awaits
  <2>4. CASE t[i].kind = "rollback"
    <3>1. l[1].kind = "rollback" => l[1].by # t[i].by
      BY <1>1, <2>1, <2>4 DEF ServesLane
    <3>2. l[1].kind = "add" => att[l[1].by].at = "adding"
      BY <1>1 DEF ServesLane, Awaits
    <3>3. l[1].kind \in {"add", "rollback"} => l[1].by # t[i].by
      BY <2>2, <2>4, <3>1, <3>2 DEF Awaits
    <3> QED
      BY <1>1, <1>2, <2>2, <2>4, <3>3 DEF Awaits
  <2> QED
    BY <2>3, <2>4
<1>6. \A i, j \in DOMAIN t :
        t[i].kind = "add" /\ t[j].kind = "add" /\ i < j => t[i].by < t[j].by
  BY <1>1, <1>3 DEF ServesLane
<1>7. \A i, j \in DOMAIN t :
        t[i].kind = "rollback" /\ t[j].kind = "rollback" /\ t[i].by = t[j].by => i = j
  BY <1>1 DEF ServesLane
<1>8. ASSUME NEW a \in DOMAIN att, att2[a].at = "adding"
      PROVE  \E i \in DOMAIN t : t[i].kind = "add" /\ t[i].by = a
  <2>1. att[a].at = "adding"
    BY <1>8
  <2>2. PICK i \in DOMAIN l : l[i].kind = "add" /\ l[i].by = a
    BY <2>1 DEF ServesLane
  <2>3. i # 1
    BY <1>1, <1>8, <2>2
  <2> QED
    BY <1>1, <2>2, <2>3
<1> QED
  BY <1>5, <1>6, <1>7, <1>8 DEF ServesLane, t

(* The lane stays, but for the progress of a write.                        *)
LEMMA LaneStays ==
  ASSUME NEW l, NEW l2, NEW att, NEW att2, ServesLane(l, att),
         DOMAIN l2 = DOMAIN l,
         \A i \in DOMAIN l :
           l2[i].kind = l[i].kind /\ l2[i].by = l[i].by /\ l2[i].owner = l[i].owner,
         DOMAIN att2 = DOMAIN att,
         \A x \in DOMAIN att :
           /\ att2[x].owner = att[x].owner
           /\ \/ att2[x].at = att[x].at
              \/ att2[x].at \notin {"adding", "rolling"} /\ att[x].at \notin {"adding", "rolling"}
  PROVE  ServesLane(l2, att2)
<1>1. \A i \in DOMAIN l2 :
        /\ l2[i].kind = "add" => Awaits(att2, l2[i], "adding")
        /\ l2[i].kind = "rollback" => Awaits(att2, l2[i], "rolling")
  BY DEF ServesLane, Awaits
<1>2. \A a \in DOMAIN att2 :
        att2[a].at = "adding" => \E i \in DOMAIN l2 : l2[i].kind = "add" /\ l2[i].by = a
  BY DEF ServesLane
<1> QED
  BY <1>1, <1>2 DEF ServesLane

(* A removal is queued, or the rollback of an attempt that wrote.          *)
LEMMA LanePushes ==
  ASSUME NEW l \in Seq(Mutation), NEW m \in Mutation, NEW att, NEW att2, ServesLane(l, att),
         DOMAIN att2 = DOMAIN att, m.kind # "add",
         \A x \in DOMAIN att : att2[x].owner = att[x].owner,
         \A x \in DOMAIN att :
           att2[x].at = att[x].at \/ (m.kind = "rollback" /\ x = m.by),
         m.kind = "rollback" =>
           /\ m.by \in DOMAIN att /\ att[m.by].at \notin {"adding", "rolling"}
           /\ att[m.by].owner = m.owner /\ att2[m.by].at = "rolling"
  PROVE  ServesLane(Append(l, m), att2)
<1> DEFINE l2 == Append(l, m)
           n == Len(l) + 1
<1>1. /\ n \notin DOMAIN l /\ DOMAIN l2 = DOMAIN l \cup {n} /\ l2[n] = m
      /\ \A i \in DOMAIN l : i < n /\ l2[i] = l[i]
      /\ n \in Nat /\ DOMAIN l \subseteq Nat
  BY Appended
<1> HIDE DEF l2, n
<1>2. \A i \in DOMAIN l :
        /\ l[i].kind \in {"add", "rollback"} =>
             /\ l[i].by \in DOMAIN att
             /\ att[l[i].by].at \in {"adding", "rolling"}
        /\ l[i].kind = "add" => Awaits(att, l[i], "adding")
        /\ l[i].kind = "rollback" => Awaits(att, l[i], "rolling")
  BY DEF ServesLane, Awaits
<1>3. ASSUME NEW i \in DOMAIN l2
      PROVE  /\ l2[i].kind = "add" => Awaits(att2, l2[i], "adding")
             /\ l2[i].kind = "rollback" => Awaits(att2, l2[i], "rolling")
  <2>1. CASE i = n
    BY <1>1, <2>1 DEF Awaits
  <2>2. CASE i \in DOMAIN l
    BY <1>1, <1>2, <2>2 DEF Awaits
  <2> QED
    BY <1>1, <2>1, <2>2
<1>4. \A i, j \in DOMAIN l2 :
        l2[i].kind = "add" /\ l2[j].kind = "add" /\ i < j => l2[i].by < l2[j].by
  BY <1>1 DEF ServesLane
<1>5. \A i, j \in DOMAIN l2 :
        l2[i].kind = "rollback" /\ l2[j].kind = "rollback" /\ l2[i].by = l2[j].by => i = j
  BY <1>1, <1>2 DEF ServesLane
<1>6. \A a \in DOMAIN att2 :
        att2[a].at = "adding" => \E i \in DOMAIN l2 : l2[i].kind = "add" /\ l2[i].by = a
  <2>1. \A a \in DOMAIN att2 : att2[a].at = "adding" => att[a].at = "adding"
    OBVIOUS
  <2> QED
    BY <1>1, <2>1 DEF ServesLane
<1> QED
  BY <1>3, <1>4, <1>5, <1>6 DEF ServesLane, l2

(* The addition of a new attempt is queued.                                *)
LEMMA LaneAdds ==
  ASSUME NEW l \in Seq(Mutation), NEW m \in Mutation, NEW att, NEW att2, ServesLane(l, att),
         m.by \in Nat, DOMAIN att \subseteq Nat, \A x \in DOMAIN att : x < m.by,
         DOMAIN att2 = DOMAIN att \cup {m.by}, \A x \in DOMAIN att : att2[x] = att[x],
         Awaits(att2, m, "adding"), m.kind = "add"
  PROVE  ServesLane(Append(l, m), att2)
<1> DEFINE l2 == Append(l, m)
           n == Len(l) + 1
<1>1. /\ n \notin DOMAIN l /\ DOMAIN l2 = DOMAIN l \cup {n} /\ l2[n] = m
      /\ \A i \in DOMAIN l : i < n /\ l2[i] = l[i]
      /\ n \in Nat /\ DOMAIN l \subseteq Nat
  BY Appended
<1> HIDE DEF l2, n
<1>2. \A i \in DOMAIN l :
        /\ l[i].kind = "add" => Awaits(att, l[i], "adding")
        /\ l[i].kind = "rollback" => Awaits(att, l[i], "rolling")
  BY DEF ServesLane
<1>3. \A i \in DOMAIN l2 :
        /\ l2[i].kind = "add" => Awaits(att2, l2[i], "adding")
        /\ l2[i].kind = "rollback" => Awaits(att2, l2[i], "rolling")
  BY <1>1, <1>2 DEF Awaits
<1>4. \A i, j \in DOMAIN l2 :
        l2[i].kind = "add" /\ l2[j].kind = "add" /\ i < j => l2[i].by < l2[j].by
  BY <1>1, <1>2 DEF ServesLane, Awaits
<1>5. \A i, j \in DOMAIN l2 :
        l2[i].kind = "rollback" /\ l2[j].kind = "rollback" /\ l2[i].by = l2[j].by => i = j
  BY <1>1 DEF ServesLane
<1>6. \A a \in DOMAIN att2 :
        att2[a].at = "adding" => \E i \in DOMAIN l2 : l2[i].kind = "add" /\ l2[i].by = a
  BY <1>1 DEF ServesLane
<1> QED
  BY <1>3, <1>4, <1>5, <1>6 DEF ServesLane, l2

(* The attempt whose record is written is the oldest that adds.            *)
LEMMA HeadIsFirst ==
  ASSUME NEW l \in Seq(Mutation), l # <<>>, NEW att, ServesLane(l, att), Head(l).kind = "add"
  PROVE  /\ Awaits(att, Head(l), "adding")
         /\ \A a \in DOMAIN att : att[a].at = "adding" /\ a # Head(l).by => Head(l).by < a
<1>1. 1 \in DOMAIN l /\ Head(l) = l[1] /\ \A i \in DOMAIN l : i # 1 => 1 < i
  BY Tails, LenProperties
<1> QED
  BY <1>1 DEF ServesLane

(* The update at the head is sent or dropped; its attempt goes anywhere.   *)
LEMMA UpdatePops ==
  ASSUME NEW u \in Seq(Update), u # <<>>, NEW att, NEW att2, ServesUpdates(u, att),
         DOMAIN att2 = DOMAIN att,
         \A x \in DOMAIN att : att2[x].at = att[x].at \/ (x = Head(u).by /\ Head(u).by # 0)
  PROVE  ServesUpdates(Tail(u), att2)
<1> DEFINE t == Tail(u)
<1>1. /\ 1 \in DOMAIN u /\ Head(u) = u[1]
      /\ \A i \in DOMAIN t : i \in Nat /\ i + 1 \in DOMAIN u /\ i + 1 # 1 /\ t[i] = u[i + 1]
  BY Tails
<1> HIDE DEF t
<1>2. \A i \in DOMAIN t : t[i].by # 0 => t[i].by # u[1].by
  BY <1>1 DEF ServesUpdates
<1>3. \A i \in DOMAIN t : t[i].by # 0 =>
        t[i].by \in DOMAIN att2 /\ att2[t[i].by].at \in {"updating", "refreshing"}
  BY <1>1, <1>2 DEF ServesUpdates
<1>4. \A i, j \in DOMAIN t : t[i].by # 0 /\ t[i].by = t[j].by => i = j
  BY <1>1 DEF ServesUpdates
<1> QED
  BY <1>3, <1>4 DEF ServesUpdates, t

(* An update is queued, for nobody or for an attempt that awaits none.     *)
LEMMA UpdatePushes ==
  ASSUME NEW u \in Seq(Update), NEW e \in Update, NEW att, NEW att2, ServesUpdates(u, att),
         DOMAIN att2 = DOMAIN att,
         \A x \in DOMAIN att : att2[x].at = att[x].at \/ (x = e.by /\ e.by # 0),
         e.by # 0 =>
           /\ e.by \in DOMAIN att /\ att[e.by].at \notin {"updating", "refreshing"}
           /\ att2[e.by].at \in {"updating", "refreshing"}
  PROVE  ServesUpdates(Append(u, e), att2)
<1> DEFINE u2 == Append(u, e)
           n == Len(u) + 1
<1>1. /\ n \notin DOMAIN u /\ DOMAIN u2 = DOMAIN u \cup {n} /\ u2[n] = e
      /\ \A i \in DOMAIN u : u2[i] = u[i]
  BY Appended
<1> HIDE DEF u2, n
<1>2. \A i \in DOMAIN u : u[i].by # 0 => u[i].by # e.by
  BY DEF ServesUpdates
<1>3. \A i \in DOMAIN u2 : u2[i].by # 0 =>
        u2[i].by \in DOMAIN att2 /\ att2[u2[i].by].at \in {"updating", "refreshing"}
  BY <1>1, <1>2 DEF ServesUpdates
<1>4. \A i, j \in DOMAIN u2 : u2[i].by # 0 /\ u2[i].by = u2[j].by => i = j
  BY <1>1, <1>2 DEF ServesUpdates
<1> QED
  BY <1>3, <1>4 DEF ServesUpdates, u2

LEMMA UpdateStays ==
  ASSUME NEW u, NEW u2, NEW att, NEW att2, ServesUpdates(u, att),
         DOMAIN u2 = DOMAIN u, \A i \in DOMAIN u : u2[i].by = u[i].by,
         DOMAIN att \subseteq DOMAIN att2,
         \A x \in DOMAIN att :
           \/ att2[x].at = att[x].at
           \/ att2[x].at \notin {"updating", "refreshing"} /\ att[x].at \notin {"updating", "refreshing"}
  PROVE  ServesUpdates(u2, att2)
  BY DEF ServesUpdates

-----------------------------------------------------------------------------
(* What the steps do to the token and to one attempt.                      *)

(* The token keeps its holder, who may give it up or use it.               *)
QrKeeps ==
  /\ qr = None => qr' = None
  /\ qr # None =>
       /\ qr' \in ActiveToken /\ qr'.token = qr.token
       /\ qr.holder = None => qr'.holder = None
       /\ qr.holder # None =>
            /\ qr'.holder # None
            /\ qr'.holder.owner = qr.holder.owner /\ qr'.holder.req = qr.holder.req
            /\ qr'.holder.reservation = qr.holder.reservation
            /\ \/ qr'.holder.status = qr.holder.status
               \/ qr.holder.status = "reserved" /\ qr'.holder.status # "reserved"

LEMMA NoneApart ==
  /\ None \notin Nat /\ None \notin Binding /\ None \notin ActiveToken /\ None \notin Holder
  /\ None # "paired"
  BY HostAssumption

LEMMA ReleaseKeeps ==
  ASSUME qr \in Optional(ActiveToken), NEW r, qr' = Released(qr, r)
  PROVE  QrKeeps /\ qr' \in Optional(ActiveToken)
<1>1. CASE ~Holds(qr, r)
  BY <1>1 DEF Released, QrKeeps, Optional
<1>2. CASE Holds(qr, r)
  <2>1. /\ qr \in ActiveToken /\ qr # None /\ qr.holder \in Holder /\ qr.holder # None
        /\ qr.holder.status = "reserved"
    BY <1>2 DEF Holds, Optional, ActiveToken
  <2> DEFINE h == [qr.holder EXCEPT !.status = "released"]
  <2>2. h \in Holder /\ h # None
    BY <2>1, NoneApart DEF Holder
  <2>3. qr' = [qr EXCEPT !.holder = h]
    BY <1>2, <2>1 DEF Released
  <2>4. /\ h.owner = qr.holder.owner /\ h.req = qr.holder.req
        /\ h.reservation = qr.holder.reservation /\ h.status = "released"
    BY <2>1 DEF Holder
  <2> HIDE DEF h
  <2>5. qr' \in ActiveToken /\ qr'.token = qr.token /\ qr'.holder = h
    BY <2>1, <2>2, <2>3 DEF ActiveToken
  <2> QED
    BY <2>1, <2>2, <2>4, <2>5 DEF QrKeeps, Optional
<1> QED
  BY <1>1, <1>2

LEMMA CommitKeeps ==
  ASSUME qr \in Optional(ActiveToken), NEW r, Holds(qr, r), qr' = Committed(qr)
  PROVE  /\ QrKeeps /\ qr' \in Optional(ActiveToken)
         /\ qr' # None /\ qr'.holder # None /\ qr'.holder.status = "committed"
<1>1. /\ qr \in ActiveToken /\ qr # None /\ qr.holder \in Holder /\ qr.holder # None
      /\ qr.holder.status = "reserved"
  BY DEF Holds, Optional, ActiveToken
<1> DEFINE h == [qr.holder EXCEPT !.status = "committed"]
<1>2. h \in Holder /\ h # None
  BY <1>1, NoneApart DEF Holder
<1>3. qr' = [qr EXCEPT !.holder = h]
  BY <1>1 DEF Committed
<1>4. /\ h.owner = qr.holder.owner /\ h.req = qr.holder.req
      /\ h.reservation = qr.holder.reservation /\ h.status = "committed"
  BY <1>1 DEF Holder
<1> HIDE DEF h
<1>5. qr' \in ActiveToken /\ qr'.token = qr.token /\ qr'.holder = h
  BY <1>1, <1>2, <1>3 DEF ActiveToken
<1> QED
  BY <1>1, <1>2, <1>4, <1>5, NoneApart DEF QrKeeps, Optional

SameRequest(a) ==
  /\ attempts'[a].owner = attempts[a].owner /\ attempts'[a].req = attempts[a].req
  /\ attempts'[a].token = attempts[a].token /\ attempts'[a].client = attempts[a].client
  /\ attempts'[a].binding = attempts[a].binding

(* No attempt begins, and no other than a goes on.                         *)
OnlyChanges(a) ==
  /\ attempts' \in Seq(Attempt)
  /\ DOMAIN attempts' = DOMAIN attempts /\ a \in DOMAIN attempts
  /\ \A x \in DOMAIN attempts : SameRequest(x) /\ (x # a => attempts'[x] = attempts[x])

LEMMA Attempted ==
  ASSUME TypeOK
  PROVE  /\ Len(attempts) \in Nat /\ DOMAIN attempts = 1..Len(attempts)
         /\ 0 \notin DOMAIN attempts
         /\ \A a \in DOMAIN attempts :
              attempts[a] \in Attempt /\ a \in Nat /\ a # None /\ a < Len(attempts) + 1
<1>1. attempts \in Seq(Attempt)
  BY DEF TypeOK
<1> QED
  BY <1>1, LenProperties, NoneApart

(* An attempt goes on with the record r.                                   *)
LEMMA OneChanges ==
  ASSUME TypeOK, NEW a \in DOMAIN attempts, NEW r \in Attempt,
         r.owner = attempts[a].owner, r.req = attempts[a].req, r.token = attempts[a].token,
         r.client = attempts[a].client, r.binding = attempts[a].binding,
         attempts' = [attempts EXCEPT ![a] = r]
  PROVE  OnlyChanges(a) /\ attempts'[a] = r
<1>1. attempts \in Seq(Attempt)
  BY DEF TypeOK
<1> QED
  BY <1>1, Excepted DEF OnlyChanges, SameRequest

LEMMA FinishChanges ==
  ASSUME TypeOK, NEW a \in DOMAIN attempts,
         NEW outcome \in {None, "paired", "failed", "stale", "undone", "kept"},
         outcome = "paired" => Holds(qr, a), Finish(a, outcome)
  PROVE  /\ OnlyChanges(a) /\ attempts'[a].at = "done" /\ attempts'[a].outcome = outcome
         /\ attempts'[a].slotToken = attempts[a].slotToken
         /\ attempts'[a].previous = attempts[a].previous
         /\ QrKeeps /\ qr' \in Optional(ActiveToken)
         /\ outcome = "paired" =>
              qr' # None /\ qr'.holder # None /\ qr'.holder.status = "committed"
<1> DEFINE r == [attempts[a] EXCEPT !.at = "done", !.listed = FALSE, !.outcome = outcome]
<1>1. attempts[a] \in Attempt
  BY Attempted
<1>2. /\ r \in Attempt /\ r.at = "done" /\ r.outcome = outcome
      /\ r.owner = attempts[a].owner /\ r.req = attempts[a].req /\ r.token = attempts[a].token
      /\ r.client = attempts[a].client /\ r.binding = attempts[a].binding
      /\ r.slotToken = attempts[a].slotToken /\ r.previous = attempts[a].previous
  BY <1>1 DEF Attempt
<1>3. attempts' = [attempts EXCEPT ![a] = r]
  BY DEF Finish
<1> HIDE DEF r
<1>4. OnlyChanges(a) /\ attempts'[a] = r
  BY <1>2, <1>3, OneChanges
<1>5. qr \in Optional(ActiveToken)
  BY DEF TypeOK
<1>6. CASE outcome = "paired"
  BY <1>2, <1>4, <1>5, <1>6, CommitKeeps DEF Finish
<1>7. CASE outcome # "paired"
  BY <1>2, <1>4, <1>5, <1>7, ReleaseKeeps DEF Finish
<1> QED
  BY <1>6, <1>7

LEMMA QueuedTyped ==
  /\ \A c \in Nat, a \in Nat : Updating(c, a) \in Update /\ Updating(c, a).by = a
  /\ \A kind \in {"add", "rollback", "remove"}, o \in Owners, a \in Nat :
       /\ Mutating(kind, o, a) \in Mutation
       /\ Mutating(kind, o, a).kind = kind /\ Mutating(kind, o, a).owner = o
       /\ Mutating(kind, o, a).by = a
  BY DEF Updating, Update, Mutating, Mutation

QueuesTyped == lane \in Seq(Mutation) /\ updates \in Seq(Update)

(* What is queued is awaited, and an attempt that paired awaits nothing.   *)
Serving ==
  /\ ServesLane(lane, attempts)
  /\ ServesUpdates(updates, attempts)
  /\ \A a \in DOMAIN attempts : attempts[a].outcome = "paired" => attempts[a].at = "done"

(* An attempt that no write serves goes on to where none serves it.        *)
LEMMA LaneServesOn ==
  ASSUME Serving, NEW a, OnlyChanges(a), lane' = lane,
         attempts[a].at \notin {"adding", "rolling"}, attempts'[a].at \notin {"adding", "rolling"}
  PROVE  ServesLane(lane', attempts')
<1>1. ServesLane(lane, attempts) /\ DOMAIN attempts' = DOMAIN attempts
  BY DEF Serving, OnlyChanges
<1>2. \A x \in DOMAIN attempts :
        /\ attempts'[x].owner = attempts[x].owner
        /\ \/ attempts'[x].at = attempts[x].at
           \/ attempts'[x].at \notin {"adding", "rolling"} /\ attempts[x].at \notin {"adding", "rolling"}
  BY DEF OnlyChanges, SameRequest
<1>3. ServesLane(lane, attempts')
  BY ONLY <1>1, <1>2, LaneStays
<1> QED
  BY <1>3

(* The attempt that the head of the updates serves goes on.                *)
LEMMA UpdatesServeOn ==
  ASSUME Serving, updates \in Seq(Update), updates # <<>>, Head(updates).by # 0,
         OnlyChanges(Head(updates).by), updates' = Tail(updates)
  PROVE  ServesUpdates(updates', attempts')
<1>1. ServesUpdates(updates, attempts) /\ DOMAIN attempts' = DOMAIN attempts
  BY DEF Serving, OnlyChanges
<1>2. \A x \in DOMAIN attempts :
        attempts'[x].at = attempts[x].at \/ (x = Head(updates).by /\ Head(updates).by # 0)
  BY DEF OnlyChanges
<1>3. updates \in Seq(Update) /\ updates # <<>>
  OBVIOUS
<1>4. ServesUpdates(Tail(updates), attempts')
  BY ONLY <1>1, <1>2, <1>3, UpdatePops
<1> QED
  BY <1>4

(* An update that an attempt awaits is over.                               *)
Refreshed(a) ==
  /\ attempts[a].at = "refreshing" /\ attempts'[a].at = "done"
  /\ attempts'[a].outcome = attempts[a].outcome
  /\ UNCHANGED <<reply, confirmed>>

Confirmed(a) ==
  /\ attempts[a].at = "updating" /\ CanCommit(a)
  /\ attempts'[a].at = "done" /\ attempts'[a].outcome = "paired"
  /\ qr' # None /\ qr'.holder # None /\ qr'.holder.status = "committed"
  /\ confirmed' = confirmed \cup {attempts[a].owner}
  /\ reply' = [reply EXCEPT ![attempts[a].owner] = "pair_ok"]

Failed(a) ==
  /\ attempts[a].at = "updating" /\ attempts'[a].at = "rolling"
  /\ attempts'[a].outcome = attempts[a].outcome
  /\ UNCHANGED <<reply, confirmed>>

LEMMA UpdateEnds ==
  ASSUME TypeOK, Serving, updates # <<>>, Head(updates).by # 0, NEW sent,
         AfterUpdate(Head(updates).by, sent), updates' = Tail(updates)
  PROVE  LET a == Head(updates).by IN
         /\ OnlyChanges(a) /\ QueuesTyped' /\ Serving'
         /\ QrKeeps /\ qr' \in Optional(ActiveToken)
         /\ attempts'[a].slotToken = attempts[a].slotToken
         /\ attempts'[a].previous = attempts[a].previous
         /\ UNCHANGED waiting
         /\ Refreshed(a) \/ Confirmed(a) \/ Failed(a)
<1> DEFINE a == Head(updates).by
           m == Mutating("rollback", attempts[a].owner, a)
<1>1. /\ updates \in Seq(Update) /\ lane \in Seq(Mutation) /\ qr \in Optional(ActiveToken)
  BY DEF TypeOK
<1>2. a \in DOMAIN attempts /\ attempts[a].at \in {"updating", "refreshing"}
  BY <1>1, Tails DEF Serving, ServesUpdates
<1>3. updates' \in Seq(Update)
  BY <1>1, Tails
<1>4. attempts[a] \in Attempt /\ a \in Nat
  BY <1>2, Attempted
<1>5. /\ attempts[a].owner \in Owners /\ attempts[a].outcome # "paired"
      /\ attempts[a].outcome \in {None, "paired", "failed", "stale", "undone", "kept"}
  BY <1>2, <1>4 DEF Attempt, Serving
<1> HIDE DEF a, m
<1>6. CASE /\ attempts[a].at = "refreshing" /\ Finish(a, attempts[a].outcome)
           /\ UNCHANGED <<lane, reply, confirmed, waiting>>
  <2>1. /\ OnlyChanges(a) /\ attempts'[a].at = "done"
        /\ attempts'[a].outcome = attempts[a].outcome
        /\ attempts'[a].slotToken = attempts[a].slotToken
        /\ attempts'[a].previous = attempts[a].previous
        /\ QrKeeps /\ qr' \in Optional(ActiveToken)
    BY <1>2, <1>5, <1>6, FinishChanges
  <2>2. ServesLane(lane', attempts')
    BY <1>6, <2>1, LaneServesOn
  <2>3. ServesUpdates(updates', attempts')
    BY <1>1, <2>1, UpdatesServeOn DEF a
  <2>4. Serving'
    BY <2>1, <2>2, <2>3 DEF Serving, OnlyChanges
  <2> QED
    BY <1>1, <1>3, <1>6, <2>1, <2>4 DEF QueuesTyped, Refreshed, a
<1>7. CASE /\ attempts[a].at = "updating" /\ CanCommit(a) /\ Finish(a, "paired")
           /\ reply' = [reply EXCEPT ![attempts[a].owner] = "pair_ok"]
           /\ confirmed' = confirmed \cup {attempts[a].owner}
           /\ UNCHANGED <<lane, waiting>>
  <2>1. Holds(qr, a)
    BY <1>7 DEF CanCommit, IsReservationCurrent
  <2>2. /\ OnlyChanges(a) /\ attempts'[a].at = "done" /\ attempts'[a].outcome = "paired"
        /\ attempts'[a].slotToken = attempts[a].slotToken
        /\ attempts'[a].previous = attempts[a].previous
        /\ QrKeeps /\ qr' \in Optional(ActiveToken)
        /\ qr' # None /\ qr'.holder # None /\ qr'.holder.status = "committed"
    BY <1>2, <1>7, <2>1, FinishChanges
  <2>3. ServesLane(lane', attempts')
    BY <1>7, <2>2, LaneServesOn
  <2>4. ServesUpdates(updates', attempts')
    BY <1>1, <2>2, UpdatesServeOn DEF a
  <2>5. Serving'
    BY <2>2, <2>3, <2>4 DEF Serving, OnlyChanges
  <2> QED
    BY <1>1, <1>3, <1>7, <2>2, <2>5 DEF QueuesTyped, Confirmed, a
<1>8. CASE /\ attempts[a].at = "updating"
           /\ attempts' = [attempts EXCEPT ![a].at = "rolling"]
           /\ lane' = Append(lane, m)
           /\ UNCHANGED <<qr, reply, confirmed, waiting>>
  <2> DEFINE r == [attempts[a] EXCEPT !.at = "rolling"]
  <2>1. /\ r \in Attempt /\ r.at = "rolling" /\ r.outcome = attempts[a].outcome
        /\ r.owner = attempts[a].owner /\ r.req = attempts[a].req
        /\ r.token = attempts[a].token /\ r.client = attempts[a].client
        /\ r.binding = attempts[a].binding
        /\ r.slotToken = attempts[a].slotToken /\ r.previous = attempts[a].previous
    BY <1>4 DEF Attempt
  <2>2. attempts' = [attempts EXCEPT ![a] = r]
    BY <1>8
  <2> HIDE DEF r
  <2>3. OnlyChanges(a) /\ attempts'[a] = r
    BY <1>2, <2>1, <2>2, OneChanges
  <2>4. /\ m \in Mutation /\ m.kind = "rollback" /\ m.by = a
        /\ m.owner = attempts[a].owner
    BY <1>4, <1>5, QueuedTyped DEF m
  <2>5. ServesLane(lane', attempts') /\ lane' \in Seq(Mutation)
    <3>1. /\ ServesLane(lane, attempts) /\ DOMAIN attempts' = DOMAIN attempts
          /\ \A x \in DOMAIN attempts : attempts'[x].owner = attempts[x].owner
          /\ \A x \in DOMAIN attempts : attempts'[x].at = attempts[x].at \/ x = a
          /\ attempts'[a].at = "rolling"
      BY <2>1, <2>3 DEF Serving, OnlyChanges, SameRequest
    <3>2. attempts[a].at \notin {"adding", "rolling"} /\ m.kind # "add"
      BY <1>8, <2>4
    <3>3. ServesLane(Append(lane, m), attempts')
      BY <1>1, <1>2, <2>4, <3>1, <3>2, LanePushes
    <3>4. Append(lane, m) \in Seq(Mutation)
      BY <1>1, <2>4, Appended
    <3> QED
      BY <1>8, <3>3, <3>4
  <2>6. ServesUpdates(updates', attempts')
    BY <1>1, <2>3, UpdatesServeOn DEF a
  <2>7. QrKeeps
    BY <1>1, <1>8 DEF QrKeeps, Optional
  <2>8. Serving'
    <3>1. \A x \in DOMAIN attempts' :
            attempts'[x].outcome = "paired" => attempts'[x].at = "done"
      BY <1>5, <2>1, <2>3 DEF Serving, OnlyChanges
    <3> QED
      BY <2>5, <2>6, <3>1 DEF Serving
  <2> QED
    BY <1>1, <1>3, <1>8, <2>1, <2>3, <2>5, <2>7, <2>8 DEF QueuesTyped, Failed, a
<1>9. AfterUpdate(a, sent)
  BY DEF a
<1> QED
  BY <1>2, <1>6, <1>7, <1>8, <1>9 DEF AfterUpdate, a, m

(* The record of an attempt is written.                                    *)
LEMMA AddEnds ==
  ASSUME TypeOK, Serving, EndAdd
  PROVE  LET a == Head(lane).by
             o == attempts[a].owner IN
         /\ OnlyChanges(a) /\ QueuesTyped' /\ Serving' /\ UNCHANGED <<qr, waiting, confirmed>>
         /\ attempts[a].at = "adding" /\ attempts'[a].at \in {"updating", "rolling"}
         /\ attempts'[a].outcome = attempts[a].outcome
         /\ attempts'[a].slotToken = slotToken[o] + 1 /\ attempts'[a].previous = peers[o]
         /\ \A x \in DOMAIN attempts : attempts[x].at = "adding" /\ x # a => a < x
         /\ o \in Owners /\ peers' = [peers EXCEPT ![o] = a]
         /\ slotToken' = [slotToken EXCEPT ![o] = @ + 1]
<1> DEFINE a == Head(lane).by
           o == attempts[a].owner
           ok == CanCommit(a)
           at == IF ok THEN "updating" ELSE "rolling"
           r == [attempts[a] EXCEPT !.at = at, !.slotToken = slotToken[o] + 1,
                                    !.previous = peers[o]]
           u == Updating(attempts[a].client, a)
           m == Mutating("rollback", o, a)
<1>1. /\ lane # <<>> /\ Head(lane).kind = "add"
      /\ updates \in Seq(Update) /\ lane \in Seq(Mutation)
      /\ peers \in [Owners -> Optional(Nat)] /\ slotToken \in [Owners -> Nat]
  BY DEF TypeOK, EndAdd, Writing
<1>2. /\ Awaits(attempts, Head(lane), "adding")
      /\ \A x \in DOMAIN attempts : attempts[x].at = "adding" /\ x # a => a < x
  BY <1>1, HeadIsFirst DEF Serving
<1>3. a \in DOMAIN attempts /\ attempts[a].at = "adding" /\ Head(lane).owner = o
  BY <1>2 DEF Awaits
<1>4. attempts[a] \in Attempt /\ a \in Nat /\ a # 0
  BY <1>3, Attempted
<1>5. /\ o \in Owners /\ attempts[a].client \in Nat /\ attempts[a].outcome # "paired"
      /\ slotToken[o] + 1 \in Nat /\ peers[o] \in Optional(Nat)
  BY <1>1, <1>3, <1>4 DEF Attempt, Serving
<1>6. /\ r \in Attempt /\ r.at = at /\ r.outcome = attempts[a].outcome
      /\ r.owner = attempts[a].owner /\ r.req = attempts[a].req
      /\ r.token = attempts[a].token /\ r.client = attempts[a].client
      /\ r.binding = attempts[a].binding
      /\ r.slotToken = slotToken[o] + 1 /\ r.previous = peers[o]
  BY <1>4, <1>5 DEF Attempt
<1>7. /\ peers' = [peers EXCEPT ![o] = a] /\ slotToken' = [slotToken EXCEPT ![o] = @ + 1]
      /\ AfterAdd(a, peers[o])
  BY <1>3 DEF EndAdd
<1>8. attempts' = [attempts EXCEPT ![a] = r] /\ UNCHANGED <<qr, waiting, confirmed>>
  BY <1>7 DEF AfterAdd
<1>9. /\ updates' = IF ok THEN Append(updates, u) ELSE updates
      /\ lane' = IF ok THEN Tail(lane) ELSE Append(Tail(lane), m)
  BY <1>7 DEF AfterAdd
<1>10. u \in Update /\ u.by = a /\ m \in Mutation /\ m.kind = "rollback" /\ m.owner = o /\ m.by = a
  BY <1>4, <1>5, QueuedTyped
<1> HIDE DEF r, ok, u, m
<1>11. OnlyChanges(a) /\ attempts'[a] = r
  BY <1>3, <1>6, <1>8, OneChanges
<1> HIDE DEF a, o
<1>12. Tail(lane) \in Seq(Mutation)
  BY <1>1, Tails
<1>13. /\ DOMAIN attempts' = DOMAIN attempts
       /\ \A x \in DOMAIN attempts : attempts'[x].owner = attempts[x].owner
       /\ \A x \in DOMAIN attempts : attempts'[x].at = attempts[x].at \/ x = a
       /\ attempts'[a].at = at /\ attempts'[a].outcome = attempts[a].outcome
       /\ \A x \in DOMAIN attempts : attempts'[x].outcome = attempts[x].outcome
  BY <1>6, <1>11 DEF OnlyChanges, SameRequest
<1>14. \A x \in DOMAIN attempts' :
         attempts'[x].outcome = "paired" => attempts'[x].at = "done"
  BY <1>5, <1>13 DEF Serving
<1>15. ServesLane(lane, attempts) /\ ServesUpdates(updates, attempts)
  BY DEF Serving
<1>16. QueuesTyped' /\ Serving'
  <2>1. CASE ok
    <3>1. lane' = Tail(lane) /\ updates' = Append(updates, u) /\ attempts'[a].at = "updating"
      BY <1>9, <1>13, <2>1
    <3>2. ServesLane(Tail(lane), attempts')
      BY <1>1, <1>13, <1>15, <3>1, LanePops DEF a
    <3>3. ServesUpdates(Append(updates, u), attempts')
      <4>1. \A x \in DOMAIN attempts :
              attempts'[x].at = attempts[x].at \/ (x = u.by /\ u.by # 0)
        BY <1>4, <1>10, <1>13
      <4>2. /\ u.by \in DOMAIN attempts /\ attempts[u.by].at \notin {"updating", "refreshing"}
            /\ attempts'[u.by].at \in {"updating", "refreshing"}
        BY <1>3, <1>10, <3>1
      <4>3. updates \in Seq(Update) /\ u \in Update /\ DOMAIN attempts' = DOMAIN attempts
        BY <1>1, <1>10, <1>13
      <4> QED
        BY ONLY <1>15, <4>1, <4>2, <4>3, UpdatePushes
    <3>4. Append(updates, u) \in Seq(Update)
      BY <1>1, <1>10, Appended
    <3> QED
      BY <1>12, <1>14, <3>1, <3>2, <3>3, <3>4 DEF QueuesTyped, Serving
  <2>2. CASE ~ok
    <3>1. lane' = Append(Tail(lane), m) /\ updates' = updates /\ attempts'[a].at = "rolling"
      BY <1>9, <1>13, <2>2
    <3> DEFINE between == [attempts EXCEPT ![a].at = "done"]
    <3>2. /\ DOMAIN between = DOMAIN attempts /\ between[a].at = "done"
          /\ \A x \in DOMAIN attempts : between[x].owner = attempts[x].owner
          /\ \A x \in DOMAIN attempts : x # a => between[x].at = attempts[x].at
      BY <1>3, <1>4 DEF Attempt
    <3> HIDE DEF between
    <3>3. ServesLane(Tail(lane), between)
      BY <1>1, <1>15, <3>2, LanePops DEF a
    <3>4. ServesLane(Append(Tail(lane), m), attempts')
      <4> DEFINE rest == Tail(lane)
      <4>1. ServesLane(rest, between) /\ rest \in Seq(Mutation) /\ m \in Mutation
        BY <1>10, <1>12, <3>3
      <4>2. DOMAIN attempts' = DOMAIN between /\ m.kind # "add"
        BY <1>10, <1>13, <3>2
      <4>3. \A x \in DOMAIN between : attempts'[x].owner = between[x].owner
        BY <1>13, <3>2
      <4>4. \A x \in DOMAIN between :
              attempts'[x].at = between[x].at \/ (m.kind = "rollback" /\ x = m.by)
        BY <1>10, <1>13, <3>2
      <4>5. m.kind = "rollback" =>
              /\ m.by \in DOMAIN between /\ between[m.by].at \notin {"adding", "rolling"}
              /\ between[m.by].owner = m.owner /\ attempts'[m.by].at = "rolling"
        BY <1>3, <1>10, <3>1, <3>2 DEF o
      <4> HIDE DEF rest
      <4>6. ServesLane(Append(rest, m), attempts')
        BY ONLY <4>1, <4>2, <4>3, <4>4, <4>5, LanePushes
      <4> QED
        BY <4>6 DEF rest
    <3>5. ServesUpdates(updates', attempts')
      BY <1>3, <1>13, <1>15, <3>1, UpdateStays
    <3>6. Append(Tail(lane), m) \in Seq(Mutation)
      BY <1>10, <1>12, Appended
    <3> QED
      BY <1>1, <1>14, <3>1, <3>4, <3>5, <3>6 DEF QueuesTyped, Serving
  <2> QED
    BY <2>1, <2>2
<1>17. attempts'[a].at \in {"updating", "rolling"}
  BY <1>13
<1> QED
  BY <1>2, <1>3, <1>5, <1>6, <1>7, <1>8, <1>11, <1>13, <1>16, <1>17 DEF a, o

(* A rollback is over.                                                     *)
LEMMA RollbackEnds ==
  ASSUME TypeOK, Serving, Rollback
  PROVE  LET a == Head(lane).by
             o == attempts[a].owner IN
         /\ OnlyChanges(a) /\ QueuesTyped' /\ Serving'
         /\ attempts[a].at = "rolling" /\ attempts'[a].at = "refreshing"
         /\ attempts'[a].outcome \in {"stale", "undone", "kept"}
         /\ attempts'[a].slotToken = attempts[a].slotToken
         /\ attempts'[a].previous = attempts[a].previous
         /\ o \in Owners
         /\ \/ UNCHANGED <<peers, slotToken>>
            \/ /\ peers[o] = a /\ slotToken[o] = attempts[a].slotToken
               /\ peers' = [peers EXCEPT ![o] = attempts[a].previous]
               /\ slotToken' = [slotToken EXCEPT ![o] = @ + 1]
<1> DEFINE a == Head(lane).by
           o == attempts[a].owner
           u == Updating(0, a)
<1>1. /\ lane # <<>> /\ Head(lane).kind = "rollback"
      /\ updates \in Seq(Update) /\ lane \in Seq(Mutation)
      /\ ServesLane(lane, attempts) /\ ServesUpdates(updates, attempts)
  BY DEF TypeOK, Rollback, Serving
<1>2. a \in DOMAIN attempts /\ attempts[a].at = "rolling" /\ Head(lane).owner = o
  BY <1>1, Tails DEF ServesLane, Awaits
<1>3. attempts[a] \in Attempt /\ a \in Nat /\ a # 0
  BY <1>2, Attempted
<1>4. o \in Owners
  BY <1>3 DEF Attempt
<1>5. PICK outcome \in {RollbackOutcome(a), "kept"} :
        /\ IF outcome = "undone"
           THEN /\ peers' = [peers EXCEPT ![o] = attempts[a].previous]
                /\ slotToken' = [slotToken EXCEPT ![o] = @ + 1]
           ELSE UNCHANGED <<peers, slotToken>>
        /\ attempts' = [attempts EXCEPT ![a].at = "refreshing", ![a].outcome = outcome]
  BY <1>2 DEF Rollback
<1>6. /\ outcome \in {"stale", "undone", "kept"}
      /\ outcome = "undone" => slotToken[o] = attempts[a].slotToken /\ peers[o] = a
  BY DEF RollbackOutcome
<1> DEFINE r == [attempts[a] EXCEPT !.at = "refreshing", !.outcome = outcome]
<1>7. /\ r \in Attempt /\ r.at = "refreshing" /\ r.outcome = outcome
      /\ r.owner = attempts[a].owner /\ r.req = attempts[a].req
      /\ r.token = attempts[a].token /\ r.client = attempts[a].client
      /\ r.binding = attempts[a].binding
      /\ r.slotToken = attempts[a].slotToken /\ r.previous = attempts[a].previous
  BY <1>3, <1>6 DEF Attempt
<1>8. attempts' = [attempts EXCEPT ![a] = r]
  BY <1>5
<1> HIDE DEF r
<1>9. OnlyChanges(a) /\ attempts'[a] = r
  BY <1>2, <1>7, <1>8, OneChanges
<1>10. /\ DOMAIN attempts' = DOMAIN attempts
       /\ \A x \in DOMAIN attempts : attempts'[x].owner = attempts[x].owner
       /\ \A x \in DOMAIN attempts : x # a => attempts'[x] = attempts[x]
       /\ attempts'[a].at = "refreshing" /\ attempts'[a].outcome = outcome
  BY <1>7, <1>9 DEF OnlyChanges, SameRequest
<1>11. /\ u \in Update /\ u.by = a
       /\ lane' = Tail(lane) /\ updates' = Append(updates, u)
  <2>1. u \in Update /\ u.by = a
    BY <1>3, QueuedTyped
  <2>2. lane' = Tail(lane) /\ updates' = Append(updates, u)
    BY DEF Rollback
  <2> QED
    BY <2>1, <2>2
<1> HIDE DEF u
<1>12. QueuesTyped'
  BY <1>1, <1>11, Tails, Appended DEF QueuesTyped
<1>13. ServesLane(lane', attempts')
  BY <1>1, <1>10, <1>11, LanePops
<1>14. ServesUpdates(updates', attempts')
  <2>1. \A x \in DOMAIN attempts :
          attempts'[x].at = attempts[x].at \/ (x = u.by /\ u.by # 0)
    BY <1>3, <1>10, <1>11
  <2>2. /\ u.by \in DOMAIN attempts /\ attempts[u.by].at \notin {"updating", "refreshing"}
        /\ attempts'[u.by].at \in {"updating", "refreshing"}
    BY <1>2, <1>10, <1>11
  <2>3. /\ updates \in Seq(Update) /\ u \in Update /\ DOMAIN attempts' = DOMAIN attempts
        /\ updates' = Append(updates, u)
    BY <1>1, <1>10, <1>11
  <2> QED
    BY ONLY <1>1, <2>1, <2>2, <2>3, UpdatePushes
<1>15. Serving'
  BY <1>6, <1>10, <1>13, <1>14 DEF Serving
<1> QED
  BY <1>2, <1>4, <1>5, <1>6, <1>7, <1>9, <1>12, <1>15

(* An addition fails.                                                      *)
LEMMA AddFails ==
  ASSUME TypeOK, Serving, FailWrite, Head(lane).kind = "add"
  PROVE  LET a == Head(lane).by IN
         /\ OnlyChanges(a) /\ QueuesTyped' /\ Serving'
         /\ QrKeeps /\ qr' \in Optional(ActiveToken)
         /\ \A x \in DOMAIN attempts : attempts[x].at = "adding" /\ x # a => a < x
         /\ attempts[a].owner \in Owners /\ attempts[a].at = "adding"
         /\ attempts'[a].at = "done" /\ attempts'[a].outcome = "failed"
         /\ attempts'[a].slotToken = attempts[a].slotToken
         /\ attempts'[a].previous = attempts[a].previous
<1> DEFINE a == Head(lane).by
<1>1. /\ lane # <<>> /\ updates' = updates /\ lane' = Tail(lane) /\ Finish(a, "failed")
      /\ updates \in Seq(Update) /\ lane \in Seq(Mutation)
      /\ ServesLane(lane, attempts) /\ ServesUpdates(updates, attempts)
  BY DEF TypeOK, FailWrite, Serving, aclVars
<1>2. /\ a \in DOMAIN attempts /\ attempts[a].at = "adding"
      /\ \A x \in DOMAIN attempts : attempts[x].at = "adding" /\ x # a => a < x
  BY <1>1, HeadIsFirst DEF Awaits
<1>3. attempts[a].owner \in Owners
  BY <1>2, Attempted DEF Attempt
<1>4. /\ OnlyChanges(a) /\ attempts'[a].at = "done" /\ attempts'[a].outcome = "failed"
      /\ attempts'[a].slotToken = attempts[a].slotToken
      /\ attempts'[a].previous = attempts[a].previous
      /\ QrKeeps /\ qr' \in Optional(ActiveToken)
  BY <1>1, <1>2, FinishChanges
<1>5. ServesLane(lane', attempts')
  <2>1. DOMAIN attempts' = DOMAIN attempts /\ attempts'[Head(lane).by].at # "adding"
    BY <1>4 DEF OnlyChanges
  <2>2. \A x \in DOMAIN attempts :
          /\ attempts'[x].owner = attempts[x].owner
          /\ \/ attempts'[x].at = attempts[x].at
             \/ x = Head(lane).by /\ Head(lane).kind # "remove" /\ attempts'[x].at # "adding"
             \/ attempts'[x].at \notin {"adding", "rolling"} /\ attempts[x].at \notin {"adding", "rolling"}
    BY <1>4 DEF OnlyChanges, SameRequest
  <2>3. ServesLane(Tail(lane), attempts')
    BY ONLY <1>1, <2>1, <2>2, LanePops
  <2> QED
    BY <1>1, <2>3
<1>6. ServesUpdates(updates', attempts')
  <2>1. DOMAIN attempts \subseteq DOMAIN attempts'
    BY <1>4 DEF OnlyChanges
  <2>2. \A x \in DOMAIN attempts :
          \/ attempts'[x].at = attempts[x].at
          \/ attempts'[x].at \notin {"updating", "refreshing"} /\ attempts[x].at \notin {"updating", "refreshing"}
    BY <1>2, <1>4 DEF OnlyChanges
  <2>3. ServesUpdates(updates, attempts')
    BY ONLY <1>1, <2>1, <2>2, UpdateStays
  <2> QED
    BY <1>1, <2>3
<1>7. QueuesTyped'
  BY <1>1, Tails DEF QueuesTyped
<1>8. Serving'
  BY <1>4, <1>5, <1>6 DEF Serving, OnlyChanges
<1> QED
  BY <1>2, <1>3, <1>4, <1>7, <1>8

(* The steps of the queues that no attempt awaits.                         *)
LaneGoesOn ==
  \/ lane' = lane
  \/ lane # <<>> /\ Head(lane).kind = "remove" /\ lane' = Tail(lane)
  \/ \E o \in Owners : lane' = Append(lane, Mutating("remove", o, 0))
  \/ lane # <<>> /\ lane' = [lane EXCEPT ![1].at = "writing"]

UpdatesGoOn ==
  \/ updates' = updates
  \/ updates # <<>> /\ Head(updates).by = 0 /\ updates' = Tail(updates)
  \/ \E c \in Nat : updates' = Append(updates, Updating(c, 0))
  \/ updates # <<>> /\ \E c \in Nat, seen \in SUBSET SUBSET Owners :
       updates' = [updates EXCEPT ![1].at = "reading", ![1].client = c, ![1].seen = seen]

(* The attempts stay where they are, if no longer listed.                  *)
AttemptsStay ==
  /\ attempts' \in Seq(Attempt) /\ DOMAIN attempts' = DOMAIN attempts
  /\ \A a \in DOMAIN attempts :
       /\ SameRequest(a)
       /\ attempts'[a].at = attempts[a].at /\ attempts'[a].outcome = attempts[a].outcome
       /\ attempts'[a].slotToken = attempts[a].slotToken
       /\ attempts'[a].previous = attempts[a].previous

LEMMA LaneGoing ==
  ASSUME TypeOK, Serving, AttemptsStay, LaneGoesOn
  PROVE  lane' \in Seq(Mutation) /\ ServesLane(lane', attempts')
<1>1. /\ lane \in Seq(Mutation) /\ ServesLane(lane, attempts)
      /\ DOMAIN attempts' = DOMAIN attempts
      /\ \A a \in DOMAIN attempts :
           attempts'[a].owner = attempts[a].owner /\ attempts'[a].at = attempts[a].at
  BY DEF TypeOK, Serving, AttemptsStay, SameRequest
<1>2. CASE lane' = lane
  BY <1>1, <1>2, LaneStays
<1>3. CASE lane # <<>> /\ Head(lane).kind = "remove" /\ lane' = Tail(lane)
  BY <1>1, <1>3, LanePops, Tails
<1>4. CASE \E o \in Owners : lane' = Append(lane, Mutating("remove", o, 0))
  <2> PICK o \in Owners : lane' = Append(lane, Mutating("remove", o, 0))
    BY <1>4
  <2> DEFINE m == Mutating("remove", o, 0)
  <2>1. m \in Mutation /\ m.kind = "remove" /\ lane' = Append(lane, m)
    <3>1. 0 \in Nat
      OBVIOUS
    <3> QED
      BY <3>1, QueuedTyped
  <2> HIDE DEF m
  <2>2. ServesLane(Append(lane, m), attempts')
    BY <1>1, <2>1, LanePushes
  <2> QED
    BY <1>1, <2>1, <2>2, Appended
<1>5. CASE lane # <<>> /\ lane' = [lane EXCEPT ![1].at = "writing"]
  <2> DEFINE m == [lane[1] EXCEPT !.at = "writing"]
  <2>1. 1 \in DOMAIN lane /\ lane[1] \in Mutation
    BY <1>1, <1>5, Tails
  <2>2. /\ m \in Mutation /\ m.kind = lane[1].kind /\ m.by = lane[1].by
        /\ m.owner = lane[1].owner /\ lane' = [lane EXCEPT ![1] = m]
    BY <1>5, <2>1 DEF Mutation
  <2> HIDE DEF m
  <2>3. /\ lane' \in Seq(Mutation) /\ DOMAIN lane' = DOMAIN lane
        /\ lane'[1] = m /\ \A i \in DOMAIN lane : i # 1 => lane'[i] = lane[i]
    BY <1>1, <2>1, <2>2, Excepted
  <2>4. \A i \in DOMAIN lane :
          /\ lane'[i].kind = lane[i].kind /\ lane'[i].by = lane[i].by
          /\ lane'[i].owner = lane[i].owner
    BY <2>2, <2>3
  <2> QED
    BY <1>1, <2>3, <2>4, LaneStays
<1> QED
  BY <1>2, <1>3, <1>4, <1>5 DEF LaneGoesOn

LEMMA UpdatesGoing ==
  ASSUME TypeOK, Serving, AttemptsStay, UpdatesGoOn
  PROVE  updates' \in Seq(Update) /\ ServesUpdates(updates', attempts')
<1>1. /\ updates \in Seq(Update) /\ ServesUpdates(updates, attempts)
      /\ DOMAIN attempts' = DOMAIN attempts
      /\ \A a \in DOMAIN attempts : attempts'[a].at = attempts[a].at
  BY DEF TypeOK, Serving, AttemptsStay
<1>2. CASE updates' = updates
  BY <1>1, <1>2, UpdateStays
<1>3. CASE updates # <<>> /\ Head(updates).by = 0 /\ updates' = Tail(updates)
  BY <1>1, <1>3, UpdatePops, Tails
<1>4. CASE \E c \in Nat : updates' = Append(updates, Updating(c, 0))
  <2> PICK c \in Nat : updates' = Append(updates, Updating(c, 0))
    BY <1>4
  <2> DEFINE u == Updating(c, 0)
  <2>1. u \in Update /\ u.by = 0 /\ updates' = Append(updates, u)
    <3>1. 0 \in Nat
      OBVIOUS
    <3> QED
      BY <3>1, QueuedTyped
  <2> HIDE DEF u
  <2>2. ServesUpdates(Append(updates, u), attempts')
    BY <1>1, <2>1, UpdatePushes
  <2> QED
    BY <1>1, <2>1, <2>2, Appended
<1>5. CASE updates # <<>> /\ \E c \in Nat, seen \in SUBSET SUBSET Owners :
             updates' = [updates EXCEPT ![1].at = "reading", ![1].client = c, ![1].seen = seen]
  <2> PICK c \in Nat, seen \in SUBSET SUBSET Owners :
        updates' = [updates EXCEPT ![1].at = "reading", ![1].client = c, ![1].seen = seen]
    BY <1>5
  <2> DEFINE u == [updates[1] EXCEPT !.at = "reading", !.client = c, !.seen = seen]
  <2>1. 1 \in DOMAIN updates /\ updates[1] \in Update
    BY <1>1, <1>5, Tails
  <2>2. u \in Update /\ u.by = updates[1].by /\ updates' = [updates EXCEPT ![1] = u]
    BY <2>1 DEF Update
  <2> HIDE DEF u
  <2>3. /\ updates' \in Seq(Update) /\ DOMAIN updates' = DOMAIN updates
        /\ updates'[1] = u /\ \A i \in DOMAIN updates : i # 1 => updates'[i] = updates[i]
    BY <1>1, <2>1, <2>2, Excepted
  <2>4. \A i \in DOMAIN updates : updates'[i].by = updates[i].by
    BY <2>2, <2>3
  <2>5. DOMAIN updates' = DOMAIN updates /\ updates' \in Seq(Update)
    BY <2>3
  <2>6. ServesUpdates(updates', attempts')
    BY ONLY <1>1, <2>4, <2>5, UpdateStays
  <2> QED
    BY <2>5, <2>6
<1> QED
  BY <1>2, <1>3, <1>4, <1>5 DEF UpdatesGoOn

LEMMA QueuesGoOn ==
  ASSUME TypeOK, Serving, AttemptsStay, LaneGoesOn, UpdatesGoOn
  PROVE  QueuesTyped' /\ Serving'
  BY LaneGoing, UpdatesGoing DEF QueuesTyped, Serving, AttemptsStay

LEMMA SameAttempts ==
  ASSUME TypeOK, UNCHANGED attempts
  PROVE  AttemptsStay
  BY DEF TypeOK, AttemptsStay, SameRequest

(* onDisconnected.                                                         *)
LEMMA Detaching ==
  ASSUME TypeOK, OnDisconnected
  PROVE  AttemptsStay /\ QrKeeps /\ qr' \in Optional(ActiveToken)
<1>1. qr \in Optional(ActiveToken) /\ attempts \in Seq(Attempt)
  BY DEF TypeOK
<1>2. /\ attempts' = [a \in DOMAIN attempts |-> [attempts[a] EXCEPT !.listed = FALSE]]
      /\ Len(attempts) \in Nat /\ DOMAIN attempts = 1..Len(attempts)
      /\ \A a \in DOMAIN attempts : attempts[a] \in Attempt
  BY Attempted DEF OnDisconnected
<1>3. \A a \in DOMAIN attempts : attempts'[a] \in Attempt
  <2>1. \A r \in Attempt : [r EXCEPT !.listed = FALSE] \in Attempt
    BY DEF Attempt
  <2> QED
    BY <1>2, <2>1
<1>4. attempts' \in [1..Len(attempts) -> Attempt]
  BY <1>2, <1>3
<1>5. attempts' \in Seq(Attempt)
  BY <1>2, <1>4, SeqDef
<1>6. AttemptsStay
  BY <1>2, <1>5 DEF AttemptsStay, SameRequest, Attempt
<1>7. CASE qr' = qr
  BY <1>1, <1>6, <1>7 DEF QrKeeps, Optional
<1>8. CASE qr' = Released(qr, qr.holder.reservation)
  BY <1>1, <1>6, <1>8, ReleaseKeeps
<1> QED
  BY <1>7, <1>8 DEF OnDisconnected

-----------------------------------------------------------------------------
(* The records of peers.json, the bindings and the tokens.                 *)

(* Attempts are added in the order they began.                             *)
AddedInOrder ==
  \A a, b \in DOMAIN attempts :
    attempts[a].at # "adding" /\ attempts[b].at = "adding" => a < b

(* A newer attempt has a newer binding, and an owner's binding is at least *)
(* as new as that of each of his attempts.                                 *)
BindingsNumbered ==
  /\ \A a \in DOMAIN attempts : attempts[a].binding.no <= bound
  /\ \A o \in Owners : bindings[o] # None => bindings[o].no <= bound
  /\ \A a, b \in DOMAIN attempts : a < b => attempts[a].binding.no < attempts[b].binding.no
  /\ \A a \in DOMAIN attempts :
       bindings[attempts[a].owner] # None =>
         attempts[a].binding.no <= bindings[attempts[a].owner].no

(* While the binding of an attempt stands, what it wrote stands.           *)
WrittenStands ==
  \A a \in DOMAIN attempts :
    attempts[a].at = "updating" /\ bindings[attempts[a].owner] = attempts[a].binding =>
      peers[attempts[a].owner] = a

(* A rollback that would not be stale restores a record of a paired owner. *)
RollbackKeepsPaired ==
  /\ \A a \in DOMAIN attempts : attempts[a].slotToken <= slotToken[attempts[a].owner]
  /\ \A a \in DOMAIN attempts :
       /\ attempts[a].at \in {"updating", "rolling"}
       /\ attempts[a].owner \in confirmed /\ peers[attempts[a].owner] = a
       /\ slotToken[attempts[a].owner] = attempts[a].slotToken
       => attempts[a].previous # None

(* A token is of one request, once one was made with it.                   *)
TokensHeld ==
  /\ \A a \in DOMAIN attempts : attempts[a].token <= used.tokens
  /\ \A i \in DOMAIN waiting : waiting[i].token <= used.tokens
  /\ qr # None => qr.token <= used.tokens
  /\ qr # None /\ qr.holder = None => \A a \in DOMAIN attempts : attempts[a].token # qr.token
  /\ qr # None /\ qr.holder # None =>
       \A a \in DOMAIN attempts : attempts[a].token = qr.token =>
         /\ attempts[a].owner = qr.holder.owner /\ attempts[a].req = qr.holder.req
         /\ attempts[a].outcome = "paired" => qr.holder.status = "committed"
  /\ qr # None /\ qr.holder # None /\ qr.holder.status = "reserved" =>
       /\ qr.holder.reservation \in DOMAIN attempts
       /\ attempts[qr.holder.reservation].token = qr.token

LEMMA TokensSettle ==
  ASSUME TypeOK, TokensHeld, TokenPairsOnce, QrKeeps,
         DOMAIN attempts' = DOMAIN attempts, \A x \in DOMAIN attempts : SameRequest(x),
         waiting' = waiting \/ \A i \in DOMAIN waiting' : waiting'[i].token <= used'.tokens,
         used'.tokens = used.tokens,
         \A x \in DOMAIN attempts : attempts'[x].outcome = "paired" =>
           \/ attempts[x].outcome = "paired"
           \/ Holds(qr, x) /\ qr' # None /\ qr'.holder # None /\ qr'.holder.status = "committed"
  PROVE  TokensHeld' /\ TokenPairsOnce'
<1>1. \A x \in DOMAIN attempts :
        /\ attempts'[x].owner = attempts[x].owner /\ attempts'[x].req = attempts[x].req
        /\ attempts'[x].token = attempts[x].token
  BY DEF SameRequest
<1>2. /\ qr' # None => qr # None /\ qr'.token = qr.token
      /\ qr' # None /\ qr'.holder = None => qr.holder = None
      /\ qr' # None /\ qr'.holder # None => qr.holder # None
  BY DEF QrKeeps
<1>3. \A x \in DOMAIN attempts : Holds(qr, x) =>
        /\ attempts[x].token = qr.token /\ qr # None /\ qr.holder # None
        /\ qr.holder.status = "reserved" /\ qr.holder.reservation = x
  BY DEF Holds, TokensHeld
<1>4. ASSUME NEW x \in DOMAIN attempts, qr' # None, qr'.holder # None,
             attempts[x].token = qr'.token, attempts'[x].outcome = "paired"
      PROVE  qr'.holder.status = "committed"
  BY <1>2, <1>4 DEF TokensHeld, QrKeeps
<1>5. TokensHeld'
  <2>1. /\ \A a \in DOMAIN attempts' : attempts'[a].token <= used'.tokens
        /\ \A i \in DOMAIN waiting' : waiting'[i].token <= used'.tokens
        /\ qr' # None => qr'.token <= used'.tokens
    BY <1>1, <1>2 DEF TokensHeld
  <2>2. qr' # None /\ qr'.holder = None =>
          \A a \in DOMAIN attempts' : attempts'[a].token # qr'.token
    BY <1>1, <1>2 DEF TokensHeld
  <2>3. qr' # None /\ qr'.holder # None =>
          \A a \in DOMAIN attempts' : attempts'[a].token = qr'.token =>
            /\ attempts'[a].owner = qr'.holder.owner /\ attempts'[a].req = qr'.holder.req
            /\ attempts'[a].outcome = "paired" => qr'.holder.status = "committed"
    BY <1>1, <1>2, <1>4 DEF TokensHeld, QrKeeps
  <2>4. qr' # None /\ qr'.holder # None /\ qr'.holder.status = "reserved" =>
          /\ qr'.holder.reservation \in DOMAIN attempts'
          /\ attempts'[qr'.holder.reservation].token = qr'.token
    BY <1>1, <1>2 DEF TokensHeld, QrKeeps
  <2> QED
    BY <2>1, <2>2, <2>3, <2>4 DEF TokensHeld
<1>6. ASSUME NEW a \in DOMAIN attempts, NEW b \in DOMAIN attempts,
             attempts[a].token = attempts[b].token,
             attempts'[a].outcome = "paired", attempts'[b].outcome = "paired"
      PROVE  a = b
  <2>1. Holds(qr, a) => attempts[b].outcome # "paired"
    BY <1>3, <1>6 DEF TokensHeld
  <2>2. Holds(qr, b) => attempts[a].outcome # "paired"
    BY <1>3, <1>6 DEF TokensHeld
  <2> QED
    BY <1>3, <1>6, <2>1, <2>2 DEF TokenPairsOnce
<1>7. TokenPairsOnce'
  BY <1>1, <1>6 DEF TokenPairsOnce
<1> QED
  BY <1>5, <1>7

(* All that a step does to the bindings.                                   *)
Rebound ==
  /\ bindings' \in [Owners -> Optional(Binding)] /\ bound' \in Nat /\ bound <= bound'
  /\ \A o \in Owners :
       \/ bindings'[o] = bindings[o]
       \/ bindings'[o] = None
       \/ bindings'[o] # None /\ bindings'[o].no = bound + 1 /\ bound' = bound + 1

LEMMA RebindingKeeps ==
  ASSUME TypeOK, BindingsNumbered, WrittenStands, AttemptsStay, Rebound,
         \A o \in Owners : peers'[o] = peers[o] \/ bindings'[o] = None
  PROVE  BindingsNumbered' /\ WrittenStands'
<1>1. /\ DOMAIN attempts' = DOMAIN attempts
      /\ \A a \in DOMAIN attempts :
           /\ attempts'[a].owner = attempts[a].owner
           /\ attempts'[a].binding = attempts[a].binding
           /\ attempts'[a].at = attempts[a].at
  BY DEF AttemptsStay, SameRequest
<1>2. \A a \in DOMAIN attempts :
        /\ attempts[a].owner \in Owners /\ attempts[a].binding \in Binding
        /\ attempts[a].binding.no \in Nat /\ attempts[a].binding # None
  BY Attempted, NoneApart DEF Attempt, Binding
<1>3. bound \in Nat /\ \A o \in Owners : bindings[o] # None => bindings[o].no \in Nat
  BY DEF TypeOK, Optional, Binding
<1>4. BindingsNumbered'
  <2>1. \A a \in DOMAIN attempts' : attempts'[a].binding.no <= bound'
    BY <1>1, <1>2, <1>3 DEF BindingsNumbered, Rebound
  <2>2. \A o \in Owners : bindings'[o] # None => bindings'[o].no <= bound'
    BY <1>3 DEF BindingsNumbered, Rebound
  <2>3. \A a, b \in DOMAIN attempts' :
          a < b => attempts'[a].binding.no < attempts'[b].binding.no
    BY <1>1 DEF BindingsNumbered
  <2>4. \A a \in DOMAIN attempts' :
          bindings'[attempts'[a].owner] # None =>
            attempts'[a].binding.no <= bindings'[attempts'[a].owner].no
    BY <1>1, <1>2, <1>3 DEF BindingsNumbered, Rebound
  <2> QED
    BY <2>1, <2>2, <2>3, <2>4 DEF BindingsNumbered
<1>5. ASSUME NEW a \in DOMAIN attempts, attempts[a].at = "updating",
             bindings'[attempts[a].owner] = attempts[a].binding
      PROVE  peers'[attempts[a].owner] = a
  <2>1. bindings'[attempts[a].owner] = bindings[attempts[a].owner]
    BY <1>2, <1>3, <1>5 DEF BindingsNumbered, Rebound
  <2> QED
    BY <1>2, <1>5, <2>1 DEF WrittenStands
<1>6. WrittenStands'
  BY <1>1, <1>5 DEF WrittenStands
<1> QED
  BY <1>4, <1>6

RecordsInv ==
  /\ Serving /\ AddedInOrder
  /\ BindingsNumbered /\ WrittenStands
  /\ RollbackKeepsPaired /\ PairedUntilRevoked

TokensInv == TokensHeld /\ TokenPairsOnce

RevokedOwner ==
  \E o \in Owners :
    /\ peers' = [peers EXCEPT ![o] = None]
    /\ slotToken' = IF peers[o] = None THEN slotToken ELSE [slotToken EXCEPT ![o] = @ + 1]
    /\ bindings'[o] = None
    /\ confirmed' = confirmed \ {o}

(* The steps in which no attempt goes on.                                  *)
LEMMA StayingKeeps ==
  ASSUME TypeOK, RecordsInv, AttemptsStay, LaneGoesOn, UpdatesGoOn, Rebound,
         UNCHANGED <<peers, slotToken, confirmed>> \/ RevokedOwner
  PROVE  RecordsInv' /\ QueuesTyped'
<1>1. /\ Serving /\ AddedInOrder /\ BindingsNumbered /\ WrittenStands
      /\ RollbackKeepsPaired /\ PairedUntilRevoked
      /\ peers \in [Owners -> Optional(Nat)] /\ slotToken \in [Owners -> Nat]
  BY DEF RecordsInv, TypeOK
<1>2. /\ DOMAIN attempts' = DOMAIN attempts
      /\ \A a \in DOMAIN attempts :
           /\ attempts'[a].owner = attempts[a].owner /\ attempts'[a].at = attempts[a].at
           /\ attempts'[a].slotToken = attempts[a].slotToken
           /\ attempts'[a].previous = attempts[a].previous
  BY DEF AttemptsStay, SameRequest
<1>3. \A a \in DOMAIN attempts :
        attempts[a].owner \in Owners /\ attempts[a].slotToken \in Nat /\ a # None
  BY Attempted DEF Attempt
<1>4. Serving' /\ QueuesTyped'
  BY <1>1, QueuesGoOn
<1>5. AddedInOrder'
  BY <1>1, <1>2 DEF AddedInOrder
<1>6. \A o \in Owners : peers'[o] = peers[o] \/ bindings'[o] = None
  BY <1>1 DEF RevokedOwner
<1>7. BindingsNumbered' /\ WrittenStands'
  BY <1>1, <1>6, RebindingKeeps
<1>8. RollbackKeepsPaired' /\ PairedUntilRevoked'
  <2>1. CASE UNCHANGED <<peers, slotToken, confirmed>>
    BY <1>1, <1>2, <2>1 DEF RollbackKeepsPaired, PairedUntilRevoked, Known
  <2>2. CASE RevokedOwner
    <3> PICK o \in Owners :
          /\ peers' = [peers EXCEPT ![o] = None]
          /\ slotToken' = IF peers[o] = None THEN slotToken ELSE [slotToken EXCEPT ![o] = @ + 1]
          /\ confirmed' = confirmed \ {o}
      BY <2>2 DEF RevokedOwner
    <3>1. /\ peers'[o] = None /\ \A p \in Owners : p # o => peers'[p] = peers[p]
          /\ \A p \in Owners : p # o => slotToken'[p] = slotToken[p]
          /\ slotToken'[o] = slotToken[o] \/ slotToken'[o] = slotToken[o] + 1
          /\ slotToken[o] \in Nat
      BY <1>1
    <3>2. PairedUntilRevoked'
      BY <1>1, <3>1 DEF PairedUntilRevoked, Known
    <3>3. ASSUME NEW a \in DOMAIN attempts
          PROVE  attempts'[a].slotToken <= slotToken'[attempts'[a].owner]
      BY <1>1, <1>2, <1>3, <3>1 DEF RollbackKeepsPaired
    <3>4. ASSUME NEW a \in DOMAIN attempts,
                 /\ attempts'[a].at \in {"updating", "rolling"}
                 /\ attempts'[a].owner \in confirmed' /\ peers'[attempts'[a].owner] = a
                 /\ slotToken'[attempts'[a].owner] = attempts'[a].slotToken
          PROVE  attempts'[a].previous # None
      BY <1>1, <1>2, <1>3, <3>1, <3>4 DEF RollbackKeepsPaired
    <3>5. RollbackKeepsPaired'
      BY <1>2, <3>3, <3>4 DEF RollbackKeepsPaired
    <3> QED
      BY <3>2, <3>5
  <2> QED
    BY <2>1, <2>2
<1> QED
  BY <1>4, <1>5, <1>7, <1>8 DEF RecordsInv

(* What every step of an attempt leaves alone.                             *)
LEMMA GoingOnKeeps ==
  ASSUME TypeOK, RecordsInv, NEW a \in DOMAIN attempts, OnlyChanges(a),
         UNCHANGED <<bindings, bound>>, attempts'[a].at # "adding",
         attempts[a].at = "adding" =>
           \A x \in DOMAIN attempts : attempts[x].at = "adding" /\ x # a => a < x
  PROVE  AddedInOrder' /\ BindingsNumbered'
<1>1. AddedInOrder'
  BY DEF RecordsInv, AddedInOrder, OnlyChanges
<1>2. BindingsNumbered'
  BY DEF RecordsInv, BindingsNumbered, OnlyChanges, SameRequest
<1> QED
  BY <1>1, <1>2

LEMMA UpdateEndKeeps ==
  ASSUME TypeOK, RecordsInv, TokensInv, updates # <<>>, Head(updates).by # 0, NEW sent,
         AfterUpdate(Head(updates).by, sent), updates' = Tail(updates),
         UNCHANGED <<peers, slotToken, bindings, bound, used>>
  PROVE  RecordsInv' /\ TokensInv'
<1> DEFINE a == Head(updates).by
           o == attempts[a].owner
<1>1. /\ OnlyChanges(a) /\ Serving' /\ QrKeeps
      /\ attempts'[a].slotToken = attempts[a].slotToken
      /\ attempts'[a].previous = attempts[a].previous
      /\ UNCHANGED waiting
      /\ Refreshed(a) \/ Confirmed(a) \/ Failed(a)
  BY UpdateEnds DEF RecordsInv
<1> HIDE DEF a
<1>2. /\ a \in DOMAIN attempts /\ DOMAIN attempts' = DOMAIN attempts
      /\ \A x \in DOMAIN attempts :
           /\ SameRequest(x) /\ attempts'[x].owner = attempts[x].owner
           /\ attempts'[x].binding = attempts[x].binding
           /\ x # a => attempts'[x] = attempts[x]
  BY <1>1 DEF OnlyChanges, SameRequest
<1>3. attempts[a].at \in {"updating", "refreshing"} /\ attempts'[a].at \in {"rolling", "done"}
  BY <1>1 DEF Refreshed, Confirmed, Failed
<1>4. AddedInOrder' /\ BindingsNumbered'
  BY <1>1, <1>2, <1>3, GoingOnKeeps
<1>5. WrittenStands'
  BY <1>2, <1>3 DEF RecordsInv, WrittenStands
<1>6. confirmed' = confirmed \/ (confirmed' = confirmed \cup {o} /\ peers[o] = a)
  <2>1. CASE Confirmed(a)
    BY <1>2, <2>1 DEF Confirmed, CanCommit, LifecycleIsCurrent, RecordsInv, WrittenStands
  <2> QED
    BY <1>1, <2>1 DEF Refreshed, Failed
<1>7. /\ o \in Owners /\ a # None
  BY <1>2, Attempted DEF Attempt
<1>8. PairedUntilRevoked'
  BY <1>6, <1>7 DEF RecordsInv, PairedUntilRevoked, Known
<1>9. RollbackKeepsPaired'
  <2>1. \A x \in DOMAIN attempts' : attempts'[x].slotToken <= slotToken'[attempts'[x].owner]
    BY <1>1, <1>2 DEF RecordsInv, RollbackKeepsPaired
  <2>2. CASE attempts'[a].at = "rolling"
    <3>1. attempts[a].at = "updating" /\ confirmed' = confirmed
      BY <1>1, <2>2 DEF Refreshed, Confirmed, Failed
    <3> QED
      BY <1>1, <1>2, <2>1, <3>1 DEF RecordsInv, RollbackKeepsPaired
  <2>3. CASE attempts'[a].at = "done"
    BY <1>1, <1>2, <1>6, <2>1, <2>3 DEF RecordsInv, RollbackKeepsPaired
  <2> QED
    BY <1>3, <2>2, <2>3
<1>10. \A x \in DOMAIN attempts : attempts'[x].outcome = "paired" =>
         \/ attempts[x].outcome = "paired"
         \/ Holds(qr, x) /\ qr' # None /\ qr'.holder # None /\ qr'.holder.status = "committed"
  BY <1>1, <1>2
  DEF Refreshed, Confirmed, Failed, CanCommit, IsReservationCurrent
<1>11. TokensInv'
  BY <1>1, <1>2, <1>10, TokensSettle DEF TokensInv
<1> QED
  BY <1>1, <1>4, <1>5, <1>8, <1>9, <1>11 DEF RecordsInv

LEMMA SameToken ==
  ASSUME TypeOK, UNCHANGED qr
  PROVE  QrKeeps /\ qr' \in Optional(ActiveToken)
  BY DEF TypeOK, QrKeeps, Optional

LEMMA AddEndKeeps ==
  ASSUME TypeOK, RecordsInv, TokensInv, EndAdd
  PROVE  RecordsInv' /\ TokensInv'
<1> DEFINE a == Head(lane).by
           o == attempts[a].owner
<1>1. /\ OnlyChanges(a) /\ Serving' /\ UNCHANGED <<qr, waiting, confirmed>>
      /\ attempts[a].at = "adding" /\ attempts'[a].at \in {"updating", "rolling"}
      /\ attempts'[a].outcome = attempts[a].outcome
      /\ attempts'[a].slotToken = slotToken[o] + 1 /\ attempts'[a].previous = peers[o]
      /\ \A x \in DOMAIN attempts : attempts[x].at = "adding" /\ x # a => a < x
      /\ o \in Owners /\ peers' = [peers EXCEPT ![o] = a]
      /\ slotToken' = [slotToken EXCEPT ![o] = @ + 1]
  BY AddEnds DEF RecordsInv
<1>2. UNCHANGED <<bindings, bound, used>>
  BY DEF EndAdd, ownerVars
<1> HIDE DEF a
<1>3. /\ a \in DOMAIN attempts /\ DOMAIN attempts' = DOMAIN attempts
      /\ \A x \in DOMAIN attempts :
           /\ SameRequest(x) /\ attempts'[x].owner = attempts[x].owner
           /\ attempts'[x].binding = attempts[x].binding
           /\ x # a => attempts'[x] = attempts[x]
  BY <1>1 DEF OnlyChanges, SameRequest
<1>4. /\ peers \in [Owners -> Optional(Nat)] /\ slotToken \in [Owners -> Nat]
      /\ bindings \in [Owners -> Optional(Binding)] /\ bound \in Nat
  BY DEF TypeOK
<1>5. /\ a # None
      /\ \A x \in DOMAIN attempts :
           /\ attempts[x].owner \in Owners /\ attempts[x].slotToken \in Nat
           /\ attempts[x].binding \in Binding /\ attempts[x].binding.no \in Nat
           /\ attempts[x].binding # None /\ x \in Nat
  BY <1>3, Attempted, NoneApart DEF Attempt, Binding
<1> HIDE DEF o
<1>6. /\ peers'[o] = a /\ \A p \in Owners : p # o => peers'[p] = peers[p]
      /\ slotToken'[o] = slotToken[o] + 1 /\ slotToken[o] \in Nat
      /\ \A p \in Owners : p # o => slotToken'[p] = slotToken[p]
  BY <1>1, <1>4
<1>7. AddedInOrder' /\ BindingsNumbered'
  BY <1>1, <1>2, <1>3, GoingOnKeeps
<1>8. ASSUME NEW x \in DOMAIN attempts, x # a, attempts[x].owner = o,
             attempts[x].at = "updating", bindings[o] = attempts[x].binding
      PROVE  FALSE
  <2>1. x < a
    BY <1>1, <1>3, <1>8 DEF RecordsInv, AddedInOrder
  <2>2. attempts[x].binding.no < attempts[a].binding.no
    BY <1>3, <1>8, <2>1 DEF RecordsInv, BindingsNumbered
  <2>3. bindings[attempts[a].owner] # None /\ bindings[attempts[a].owner] = attempts[x].binding
    BY <1>5, <1>8 DEF o
  <2>4. attempts[a].binding.no <= attempts[x].binding.no
    BY <1>3, <2>3 DEF RecordsInv, BindingsNumbered
  <2> QED
    BY <1>3, <1>5, <2>2, <2>4
<1>9. WrittenStands'
  <2> SUFFICES ASSUME NEW x \in DOMAIN attempts, attempts'[x].at = "updating",
                      bindings[attempts[x].owner] = attempts[x].binding
               PROVE  peers'[attempts[x].owner] = x
    BY <1>2, <1>3 DEF WrittenStands
  <2>1. CASE x = a
    BY <1>6, <2>1 DEF o
  <2>2. CASE x # a
    <3>1. attempts[x].at = "updating" /\ attempts[x].owner # o
      BY <1>3, <1>8, <2>2
    <3> QED
      BY <1>5, <1>6, <3>1 DEF RecordsInv, WrittenStands
  <2> QED
    BY <2>1, <2>2
<1>10. PairedUntilRevoked'
  BY <1>1, <1>5, <1>6 DEF RecordsInv, PairedUntilRevoked, Known
<1>11. RollbackKeepsPaired'
  <2>1. ASSUME NEW x \in DOMAIN attempts
        PROVE  attempts'[x].slotToken <= slotToken'[attempts'[x].owner]
    <3>1. CASE x = a
      BY <1>1, <1>3, <1>6, <3>1 DEF o
    <3>2. CASE x # a
      <4>1. attempts[x].slotToken <= slotToken[attempts[x].owner]
        BY DEF RecordsInv, RollbackKeepsPaired
      <4>2. slotToken[attempts[x].owner] <= slotToken'[attempts[x].owner]
        BY <1>4, <1>5, <1>6
      <4> QED
        BY <1>3, <1>4, <1>5, <1>6, <3>2, <4>1, <4>2
    <3> QED
      BY <3>1, <3>2
  <2>2. ASSUME NEW x \in DOMAIN attempts, attempts'[x].at \in {"updating", "rolling"},
               attempts'[x].owner \in confirmed', peers'[attempts'[x].owner] = x,
               slotToken'[attempts'[x].owner] = attempts'[x].slotToken
        PROVE  attempts'[x].previous # None
    <3>1. CASE x = a
      BY <1>1, <1>3, <2>2, <3>1 DEF RecordsInv, PairedUntilRevoked, Known, o
    <3>2. CASE x # a
      BY <1>1, <1>3, <1>5, <1>6, <2>2, <3>2 DEF RecordsInv, RollbackKeepsPaired
    <3> QED
      BY <3>1, <3>2
  <2> QED
    BY <1>3, <2>1, <2>2 DEF RollbackKeepsPaired
<1>12. \A x \in DOMAIN attempts : attempts'[x].outcome = attempts[x].outcome
  BY <1>1, <1>3
<1>13. TokensInv'
  BY <1>1, <1>2, <1>3, <1>12, SameToken, TokensSettle DEF TokensInv
<1> QED
  BY <1>1, <1>7, <1>9, <1>10, <1>11, <1>13 DEF RecordsInv

LEMMA AddFailKeeps ==
  ASSUME TypeOK, RecordsInv, TokensInv, FailWrite, Head(lane).kind = "add"
  PROVE  RecordsInv' /\ TokensInv'
<1> DEFINE a == Head(lane).by
<1>1. /\ OnlyChanges(a) /\ Serving' /\ QrKeeps
      /\ \A x \in DOMAIN attempts : attempts[x].at = "adding" /\ x # a => a < x
      /\ attempts'[a].at = "done" /\ attempts'[a].outcome = "failed"
      /\ attempts'[a].slotToken = attempts[a].slotToken
      /\ attempts'[a].previous = attempts[a].previous
  BY AddFails DEF RecordsInv
<1>2. /\ UNCHANGED <<bindings, bound, peers, slotToken, confirmed, waiting>>
      /\ used' = [used EXCEPT !["faults"] = @ + 1]
  BY DEF FailWrite, ownerVars, Use
<1> HIDE DEF a
<1>3. /\ a \in DOMAIN attempts /\ DOMAIN attempts' = DOMAIN attempts
      /\ \A x \in DOMAIN attempts :
           /\ SameRequest(x) /\ attempts'[x].owner = attempts[x].owner
           /\ attempts'[x].binding = attempts[x].binding
           /\ x # a => attempts'[x] = attempts[x]
  BY <1>1 DEF OnlyChanges, SameRequest
<1>4. AddedInOrder' /\ BindingsNumbered'
  BY <1>1, <1>2, <1>3, GoingOnKeeps
<1>5. WrittenStands' /\ PairedUntilRevoked'
  BY <1>1, <1>2, <1>3 DEF RecordsInv, WrittenStands, PairedUntilRevoked, Known
<1>6. RollbackKeepsPaired'
  BY <1>1, <1>2, <1>3 DEF RecordsInv, RollbackKeepsPaired
<1>7. used'.tokens = used.tokens
  BY <1>2 DEF TypeOK, Bounds
<1>8. TokensInv'
  BY <1>1, <1>2, <1>3, <1>7, TokensSettle DEF TokensInv
<1> QED
  BY <1>1, <1>4, <1>5, <1>6, <1>8 DEF RecordsInv

LEMMA RollbackEndKeeps ==
  ASSUME TypeOK, RecordsInv, TokensInv, Rollback
  PROVE  RecordsInv' /\ TokensInv'
<1> DEFINE a == Head(lane).by
           o == attempts[a].owner
<1>1. /\ OnlyChanges(a) /\ Serving'
      /\ attempts[a].at = "rolling" /\ attempts'[a].at = "refreshing"
      /\ attempts'[a].outcome \in {"stale", "undone", "kept"}
      /\ attempts'[a].slotToken = attempts[a].slotToken
      /\ attempts'[a].previous = attempts[a].previous
      /\ o \in Owners
      /\ \/ UNCHANGED <<peers, slotToken>>
         \/ /\ peers[o] = a /\ slotToken[o] = attempts[a].slotToken
            /\ peers' = [peers EXCEPT ![o] = attempts[a].previous]
            /\ slotToken' = [slotToken EXCEPT ![o] = @ + 1]
  BY RollbackEnds DEF RecordsInv
<1>2. /\ UNCHANGED <<bindings, bound, confirmed, waiting, qr>>
      /\ used' = [used EXCEPT !["faults"] = @ + 1] \/ used' = used
  BY DEF Rollback, ownerVars, Use
<1> HIDE DEF a
<1>3. /\ a \in DOMAIN attempts /\ DOMAIN attempts' = DOMAIN attempts
      /\ \A x \in DOMAIN attempts :
           /\ SameRequest(x) /\ attempts'[x].owner = attempts[x].owner
           /\ attempts'[x].binding = attempts[x].binding
           /\ x # a => attempts'[x] = attempts[x]
  BY <1>1 DEF OnlyChanges, SameRequest
<1>4. /\ peers \in [Owners -> Optional(Nat)] /\ slotToken \in [Owners -> Nat]
      /\ \A x \in DOMAIN attempts :
           attempts[x].owner \in Owners /\ attempts[x].slotToken \in Nat
  BY Attempted DEF TypeOK, Attempt
<1>5. AddedInOrder' /\ BindingsNumbered'
  BY <1>1, <1>2, <1>3, GoingOnKeeps
<1>6. used'.tokens = used.tokens
  BY <1>2 DEF TypeOK, Bounds
<1>7. TokensInv'
  BY <1>1, <1>2, <1>3, <1>6, SameToken, TokensSettle DEF TokensInv
<1>8. CASE UNCHANGED <<peers, slotToken>>
  <2>1. WrittenStands' /\ PairedUntilRevoked'
    BY <1>1, <1>2, <1>3, <1>8 DEF RecordsInv, WrittenStands, PairedUntilRevoked, Known
  <2>2. RollbackKeepsPaired'
    BY <1>1, <1>2, <1>3, <1>8 DEF RecordsInv, RollbackKeepsPaired
  <2> QED
    BY <1>1, <1>5, <1>7, <2>1, <2>2 DEF RecordsInv
<1>9. CASE /\ peers[o] = a /\ slotToken[o] = attempts[a].slotToken
           /\ peers' = [peers EXCEPT ![o] = attempts[a].previous]
           /\ slotToken' = [slotToken EXCEPT ![o] = @ + 1]
  <2>1. /\ peers'[o] = attempts[a].previous
        /\ \A p \in Owners : p # o => peers'[p] = peers[p]
        /\ slotToken'[o] = slotToken[o] + 1 /\ slotToken[o] \in Nat
        /\ \A p \in Owners : p # o => slotToken'[p] = slotToken[p]
    BY <1>1, <1>4, <1>9
  <2>2. o \in confirmed => attempts[a].previous # None
    BY <1>1, <1>3, <1>9 DEF RecordsInv, RollbackKeepsPaired
  <2>3. PairedUntilRevoked'
    BY <1>2, <2>1, <2>2 DEF RecordsInv, PairedUntilRevoked, Known
  <2>4. WrittenStands'
    <3> SUFFICES ASSUME NEW x \in DOMAIN attempts, attempts'[x].at = "updating",
                        bindings[attempts[x].owner] = attempts[x].binding
                 PROVE  peers'[attempts[x].owner] = x
      BY <1>2, <1>3 DEF WrittenStands
    <3>1. x # a /\ attempts[x].at = "updating"
      BY <1>1, <1>3
    <3>2. peers[attempts[x].owner] = x
      BY <3>1 DEF RecordsInv, WrittenStands
    <3>3. attempts[x].owner # o
      BY <1>9, <3>1, <3>2
    <3> QED
      BY <1>4, <2>1, <3>2, <3>3
  <2>5. ASSUME NEW x \in DOMAIN attempts
        PROVE  /\ attempts'[x].slotToken <= slotToken'[attempts'[x].owner]
               /\ attempts[x].owner = o => slotToken'[o] # attempts'[x].slotToken
    <3>1. attempts[x].slotToken <= slotToken[attempts[x].owner]
      BY DEF RecordsInv, RollbackKeepsPaired
    <3>2. attempts'[x].slotToken = attempts[x].slotToken
      BY <1>1, <1>3
    <3> QED
      BY <1>3, <1>4, <2>1, <3>1, <3>2
  <2>6. ASSUME NEW x \in DOMAIN attempts, attempts'[x].at \in {"updating", "rolling"},
               attempts'[x].owner \in confirmed', peers'[attempts'[x].owner] = x,
               slotToken'[attempts'[x].owner] = attempts'[x].slotToken
        PROVE  attempts'[x].previous # None
    <3>1. x # a /\ attempts[x].owner # o
      BY <1>1, <1>3, <2>5, <2>6
    <3> QED
      BY <1>2, <1>3, <1>4, <2>1, <2>6, <3>1 DEF RecordsInv, RollbackKeepsPaired
  <2>7. RollbackKeepsPaired'
    BY <1>3, <2>5, <2>6 DEF RollbackKeepsPaired
  <2> QED
    BY <1>1, <1>5, <1>7, <2>3, <2>4, <2>7 DEF RecordsInv
<1> QED
  BY <1>1, <1>8, <1>9

-----------------------------------------------------------------------------
(* Requests.                                                               *)

LEMMA SameBindings ==
  ASSUME TypeOK, UNCHANGED <<bindings, bound>>
  PROVE  Rebound
  BY DEF TypeOK, Rebound

LEMMA AttachRebinds ==
  ASSUME TypeOK, NEW o \in Owners, NEW c \in Nat \ {0}, Attach(o, c)
  PROVE  /\ Rebound
         /\ \A p \in Owners : p # o => bindings'[p] = bindings[p]
         /\ bindings'[o] # None => bindings'[o].no = bound + 1
         /\ session => /\ bound' = bound + 1 /\ bindings'[o] # None
                       /\ bindings'[o] = [no |-> bound + 1, client |-> c]
<1> DEFINE b == [no |-> bound + 1, client |-> c]
<1>1. bindings \in [Owners -> Optional(Binding)] /\ bound \in Nat
  BY DEF TypeOK
<1>2. b \in Binding /\ b # None /\ b.no = bound + 1
  BY <1>1, NoneApart DEF Binding
<1> HIDE DEF b
<1>3. CASE session
  <2>1. bindings' = [bindings EXCEPT ![o] = b] /\ bound' = bound + 1
    BY <1>3 DEF Attach, b
  <2>2. bindings' \in [Owners -> Optional(Binding)]
    BY <1>1, <1>2, <2>1 DEF Optional
  <2> QED
    BY <1>1, <1>2, <2>1, <2>2 DEF Rebound, b
<1>4. CASE ~session
  <2>1. bindings' = [bindings EXCEPT ![o] = None] /\ bound' = bound
    BY <1>4 DEF Attach
  <2>2. bindings' \in [Owners -> Optional(Binding)]
    BY <1>1, <2>1 DEF Optional
  <2> QED
    BY <1>1, <1>4, <2>1, <2>2 DEF Rebound
<1> QED
  BY <1>3, <1>4

LEMMA HandleCases ==
  ASSUME TypeOK, NEW o, NEW c, NEW q, NEW token, NEW others, Handle(c, o, q, token, others)
  PROVE  /\ \/ waiting' = others
            \/ \E a \in DOMAIN attempts :
                 waiting' = Append(others, [client |-> c, owner |-> o, req |-> q,
                                            token |-> token, on |-> a])
         /\ reply' = reply \/ \E frame \in {"pair_ok", "pair_error"} : Reply(o, c, frame)
         /\ \/ /\ UNCHANGED <<qr, attempts, lane>>
               /\ UNCHANGED <<bindings, bound>> \/ (IsCurrent(c) /\ Attach(o, c))
            \/ /\ Answer(qr, token, o, q) = "reserved" /\ session
               /\ IsCurrent(c) /\ Attach(o, c)
               /\ qr' = Reserved(qr, o, q, Len(attempts) + 1)
               /\ attempts' = Append(attempts, NewAttempt(c, o, q, token))
               /\ lane' = Append(lane, Mutating("add", o, Len(attempts) + 1))
            \/ /\ Answer(qr, token, o, q) = "reserved"
               /\ IsCurrent(c) /\ Attach(o, c)
               /\ LET held == Reserved(qr, o, q, Len(attempts) + 1) IN
                  qr' = Released(held, held.holder.reservation)
               /\ UNCHANGED <<attempts, lane>>
<1>1. Pending(o, q) # {} => (CHOOSE a \in Pending(o, q) : TRUE) \in DOMAIN attempts
  BY DEF Pending
<1>2. CASE /\ ~IsCurrent(c) /\ waiting' = others
           /\ UNCHANGED <<qr, attempts, reply, bindings, bound, lane>>
  BY <1>2
<1>3. CASE /\ Pending(o, q) # {}
           /\ waiting' = Append(others, [client |-> c, owner |-> o, req |-> q, token |-> token,
                                         on |-> CHOOSE a \in Pending(o, q) : TRUE])
           /\ UNCHANGED <<qr, attempts, reply, bindings, bound, lane>>
  BY <1>1, <1>3
<1>4. CASE /\ IsCurrent(c) /\ waiting' = others
           /\ IF bindings[o] = None THEN Attach(o, c) ELSE UNCHANGED <<bindings, bound>>
           /\ IF bindings[o] = None /\ ~session THEN UNCHANGED reply ELSE Reply(o, c, "pair_ok")
           /\ UNCHANGED <<qr, attempts, lane>>
  BY <1>4
<1>5. CASE /\ IsCurrent(c) /\ waiting' = others /\ Answer(qr, token, o, q) = "reserved"
           /\ Attach(o, c)
           /\ IF session
              THEN /\ qr' = Reserved(qr, o, q, Len(attempts) + 1)
                   /\ attempts' = Append(attempts, NewAttempt(c, o, q, token))
                   /\ lane' = Append(lane, Mutating("add", o, Len(attempts) + 1))
              ELSE /\ qr' = LET held == Reserved(qr, o, q, Len(attempts) + 1) IN
                            Released(held, held.holder.reservation)
                   /\ UNCHANGED <<attempts, lane>>
           /\ UNCHANGED reply
  BY <1>5
<1>6. CASE /\ IsCurrent(c) /\ waiting' = others /\ Reply(o, c, "pair_error")
           /\ UNCHANGED <<qr, attempts, bindings, bound, lane>>
  BY <1>6
<1> QED
  BY <1>2, <1>3, <1>4, <1>5, <1>6 DEF Handle

LEMMA ReserveAnswers ==
  ASSUME TypeOK, NEW token, NEW o \in Owners, NEW q \in Requests, NEW fresh \in Nat,
         Answer(qr, token, o, q) = "reserved"
  PROVE  /\ qr # None /\ qr \in ActiveToken /\ qr.token = token
         /\ qr.holder # None =>
              /\ qr.holder.owner = o /\ qr.holder.req = q
              /\ qr.holder.status \in {"reserved", "released"}
         /\ LET held == Reserved(qr, o, q, fresh) IN
            /\ held \in ActiveToken /\ held # None /\ held.token = token
            /\ held.holder \in Holder /\ held.holder # None
            /\ held.holder.owner = o /\ held.holder.req = q
            /\ held.holder.status = "reserved"
            /\ \/ held.holder.reservation = fresh
               \/ qr.holder # None /\ qr.holder.status = "reserved" /\ held = qr
<1>1. qr # None /\ qr \in ActiveToken /\ qr.token = token
  BY DEF TypeOK, Answer, Optional
<1>2. qr.holder # None =>
        qr.holder.owner = o /\ qr.holder.req = q /\ qr.holder.status # "committed"
  BY <1>1 DEF Answer
<1>3. qr.holder # None =>
        qr.holder \in Holder /\ qr.holder.status \in {"reserved", "released"}
  BY <1>1, <1>2 DEF ActiveToken, Holder
<1> DEFINE h == [owner |-> o, req |-> q, reservation |-> fresh, status |-> "reserved"]
<1>4. h \in Holder /\ h # None
  BY NoneApart DEF Holder
<1>5. CASE qr.holder # None /\ qr.holder.status = "reserved"
  BY <1>1, <1>2, <1>3, <1>5 DEF Reserved
<1>6. CASE ~(qr.holder # None /\ qr.holder.status = "reserved")
  <2>1. Reserved(qr, o, q, fresh) = [qr EXCEPT !.holder = h]
    BY <1>6 DEF Reserved
  <2>2. h.owner = o /\ h.req = q /\ h.reservation = fresh /\ h.status = "reserved"
    OBVIOUS
  <2> HIDE DEF h
  <2>3. /\ [qr EXCEPT !.holder = h] \in ActiveToken
        /\ [qr EXCEPT !.holder = h].token = token
        /\ [qr EXCEPT !.holder = h].holder = h
    BY <1>1, <1>4 DEF ActiveToken
  <2> QED
    BY <1>1, <1>2, <1>3, <1>4, <2>1, <2>2, <2>3, NoneApart
<1> QED
  BY <1>5, <1>6

(* The request finds no session and gives the token up at once.            *)
LEMMA ReleaseAtOnce ==
  ASSUME NEW held \in ActiveToken, held.holder \in Holder,
         held.holder # None, held.holder.status = "reserved"
  PROVE  LET freed == Released(held, held.holder.reservation) IN
         /\ freed \in ActiveToken /\ freed # None /\ freed.token = held.token
         /\ freed.holder # None
         /\ freed.holder.owner = held.holder.owner /\ freed.holder.req = held.holder.req
         /\ freed.holder.status = "released"
<1> DEFINE h == [held.holder EXCEPT !.status = "released"]
<1>1. Released(held, held.holder.reservation) = [held EXCEPT !.holder = h]
  BY NoneApart DEF Released, Holds
<1>2. /\ h \in Holder /\ h.owner = held.holder.owner /\ h.req = held.holder.req
      /\ h.status = "released" /\ h # None
  BY NoneApart DEF Holder
<1> HIDE DEF h
<1>3. /\ [held EXCEPT !.holder = h] \in ActiveToken
      /\ [held EXCEPT !.holder = h].token = held.token
      /\ [held EXCEPT !.holder = h].holder = h
  BY <1>2 DEF ActiveToken
<1> QED
  BY <1>1, <1>2, <1>3, NoneApart

LEMMA WaitingKeeps ==
  ASSUME TypeOK, NEW o \in Owners, NEW c \in Nat, NEW q \in Requests, NEW token \in Nat \ {0},
         NEW others \in Seq(Waiting), token <= used.tokens,
         \A i \in DOMAIN others : others[i].token <= used.tokens,
         \/ waiting' = others
         \/ \E a \in DOMAIN attempts :
              waiting' = Append(others, [client |-> c, owner |-> o, req |-> q,
                                         token |-> token, on |-> a])
  PROVE  /\ waiting' \in Seq(Waiting)
         /\ \A i \in DOMAIN waiting' : waiting'[i].token <= used.tokens
<1>1. CASE waiting' = others
  BY <1>1
<1>2. CASE \E a \in DOMAIN attempts :
             waiting' = Append(others, [client |-> c, owner |-> o, req |-> q,
                                        token |-> token, on |-> a])
  <2> PICK a \in DOMAIN attempts :
        waiting' = Append(others, [client |-> c, owner |-> o, req |-> q,
                                   token |-> token, on |-> a])
    BY <1>2
  <2> DEFINE w == [client |-> c, owner |-> o, req |-> q, token |-> token, on |-> a]
  <2>1. w \in Waiting /\ w.token = token /\ waiting' = Append(others, w)
    BY Attempted DEF Waiting, Tokens
  <2> HIDE DEF w
  <2>2. /\ Append(others, w) \in Seq(Waiting)
        /\ DOMAIN Append(others, w) = DOMAIN others \cup {Len(others) + 1}
        /\ \A i \in DOMAIN others : Append(others, w)[i] = others[i]
        /\ Append(others, w)[Len(others) + 1] = w
    BY <2>1, Appended
  <2> QED
    BY <2>1, <2>2
<1> QED
  BY <1>1, <1>2

(* A request that leads to no attempt.                                     *)
LEMMA AnsweringKeeps ==
  ASSUME TypeOK, RecordsInv, TokensInv, Rebound, UNCHANGED <<qr, attempts, lane, updates>>,
         UNCHANGED <<peers, slotToken, confirmed>>, used'.tokens = used.tokens,
         \A i \in DOMAIN waiting' : waiting'[i].token <= used'.tokens
  PROVE  RecordsInv' /\ TokensInv' /\ QueuesTyped'
<1>1. AttemptsStay /\ QrKeeps
  BY SameAttempts, SameToken
<1>2. LaneGoesOn /\ UpdatesGoOn
  BY DEF LaneGoesOn, UpdatesGoOn
<1>3. RecordsInv' /\ QueuesTyped'
  BY <1>1, <1>2, StayingKeeps
<1>4. TokensInv'
  BY <1>1, TokensSettle DEF TokensInv, AttemptsStay
<1> QED
  BY <1>3, <1>4

(* A request that is refused because no session is there to serve.         *)
LEMMA RefusingKeeps ==
  ASSUME TypeOK, RecordsInv, TokensInv, Rebound, UNCHANGED <<attempts, lane, updates>>,
         UNCHANGED <<peers, slotToken, confirmed>>, used'.tokens = used.tokens,
         \A i \in DOMAIN waiting' : waiting'[i].token <= used'.tokens,
         NEW token, NEW o \in Owners, NEW q \in Requests, NEW fresh \in Nat,
         Answer(qr, token, o, q) = "reserved",
         LET held == Reserved(qr, o, q, fresh) IN
         qr' = Released(held, held.holder.reservation)
  PROVE  RecordsInv' /\ TokensInv' /\ QueuesTyped' /\ qr' \in Optional(ActiveToken)
<1> DEFINE held == Reserved(qr, o, q, fresh)
<1>1. /\ qr # None /\ qr \in ActiveToken /\ qr.token = token
      /\ qr.holder # None =>
           /\ qr.holder.owner = o /\ qr.holder.req = q
           /\ qr.holder.status \in {"reserved", "released"}
      /\ held \in ActiveToken /\ held # None /\ held.token = token
      /\ held.holder \in Holder /\ held.holder # None
      /\ held.holder.owner = o /\ held.holder.req = q
      /\ held.holder.status = "reserved"
  BY ReserveAnswers
<1>2. qr' = Released(held, held.holder.reservation)
  OBVIOUS
<1> HIDE DEF held
<1>3. /\ qr' \in ActiveToken /\ qr' # None /\ qr'.token = qr.token /\ qr'.holder # None
      /\ qr'.holder.owner = o /\ qr'.holder.req = q /\ qr'.holder.status = "released"
  BY <1>1, <1>2, ReleaseAtOnce
<1>4. AttemptsStay /\ LaneGoesOn /\ UpdatesGoOn
  BY SameAttempts DEF LaneGoesOn, UpdatesGoOn
<1>5. RecordsInv' /\ QueuesTyped'
  BY <1>4, StayingKeeps
<1>6. \A a \in DOMAIN attempts : attempts[a].token = qr.token =>
        attempts[a].owner = o /\ attempts[a].req = q /\ attempts[a].outcome # "paired"
  BY <1>1 DEF TokensInv, TokensHeld
<1>7. TokensHeld'
  BY <1>1, <1>3, <1>6 DEF TokensInv, TokensHeld
<1>8. TokenPairsOnce'
  BY DEF TokensInv, TokenPairsOnce
<1> QED
  BY <1>3, <1>5, <1>7, <1>8 DEF TokensInv, Optional

(* A request that begins an attempt.                                       *)
LEMMA BeginningKeeps ==
  ASSUME TypeOK, RecordsInv, TokensInv, UNCHANGED <<peers, slotToken, confirmed, updates>>,
         used'.tokens = used.tokens, \A i \in DOMAIN waiting' : waiting'[i].token <= used'.tokens,
         NEW token \in Nat \ {0}, NEW o \in Owners, NEW q \in Requests, NEW c \in Nat \ {0},
         token <= used.tokens, session, Attach(o, c), Answer(qr, token, o, q) = "reserved",
         qr' = Reserved(qr, o, q, Len(attempts) + 1),
         attempts' = Append(attempts, NewAttempt(c, o, q, token)),
         lane' = Append(lane, Mutating("add", o, Len(attempts) + 1))
  PROVE  /\ RecordsInv' /\ TokensInv' /\ QueuesTyped'
         /\ attempts' \in Seq(Attempt) /\ qr' \in Optional(ActiveToken)
<1> DEFINE new == Len(attempts) + 1
           r == NewAttempt(c, o, q, token)
           m == Mutating("add", o, new)
<1>1. /\ attempts \in Seq(Attempt) /\ lane \in Seq(Mutation) /\ updates \in Seq(Update)
      /\ bound \in Nat /\ slotToken \in [Owners -> Nat] /\ Len(attempts) \in Nat /\ new \in Nat
      /\ bindings \in [Owners -> Optional(Binding)]
  BY Attempted DEF TypeOK
<1>2. /\ r \in Attempt /\ r.owner = o /\ r.req = q /\ r.token = token /\ r.at = "adding"
      /\ r.binding.no = bound + 1 /\ r.slotToken = 0 /\ r.outcome = None
  <2>1. [no |-> bound + 1, client |-> c] \in Binding
    BY <1>1 DEF Binding
  <2> QED
    BY <2>1 DEF NewAttempt, Attempt, Tokens, Optional
<1>3. m \in Mutation /\ m.kind = "add" /\ m.owner = o /\ m.by = new
  BY <1>1, QueuedTyped
<1>4. /\ Rebound /\ bound' = bound + 1 /\ bindings'[o] # None /\ bindings'[o].no = bound + 1
      /\ \A p \in Owners : p # o => bindings'[p] = bindings[p]
  BY AttachRebinds
<1> DEFINE held == Reserved(qr, o, q, new)
<1>5. /\ qr # None /\ qr \in ActiveToken /\ qr.token = token
      /\ qr.holder # None =>
           /\ qr.holder.owner = o /\ qr.holder.req = q
           /\ qr.holder.status \in {"reserved", "released"}
      /\ held \in ActiveToken /\ held # None /\ held.token = token
      /\ held.holder \in Holder /\ held.holder # None
      /\ held.holder.owner = o /\ held.holder.req = q
      /\ held.holder.status = "reserved"
      /\ \/ held.holder.reservation = new
         \/ qr.holder # None /\ qr.holder.status = "reserved" /\ held = qr
  BY <1>1, ReserveAnswers
<1>6. qr' = held
  OBVIOUS
<1> HIDE DEF r, m, held
<1>7. /\ attempts' \in Seq(Attempt) /\ new \notin DOMAIN attempts
      /\ DOMAIN attempts' = DOMAIN attempts \cup {new} /\ attempts'[new] = r
      /\ \A a \in DOMAIN attempts : a < new /\ attempts'[a] = attempts[a]
  BY <1>1, <1>2, Appended DEF r
<1>8. Append(lane, m) \in Seq(Mutation) /\ lane' = Append(lane, m)
  BY <1>1, <1>3, Appended DEF m
<1> HIDE DEF new
<1>9. \A a \in DOMAIN attempts :
        /\ attempts[a] \in Attempt /\ a \in Nat /\ a # None
        /\ attempts[a].owner \in Owners /\ attempts[a].slotToken \in Nat
        /\ attempts[a].binding \in Binding /\ attempts[a].binding.no \in Nat
        /\ attempts[a].binding # None
  BY Attempted, NoneApart DEF Attempt, Binding
<1>10. Serving'
  <2>1. Awaits(attempts', m, "adding")
    BY <1>2, <1>3, <1>7 DEF Awaits
  <2>2. DOMAIN attempts \subseteq Nat /\ ServesLane(lane, attempts)
    BY <1>9 DEF RecordsInv, Serving
  <2>3. ServesLane(Append(lane, m), attempts')
    BY ONLY <1>1, <1>3, <1>7, <2>1, <2>2, LaneAdds
  <2>4. ServesUpdates(updates', attempts')
    BY <1>7, UpdateStays DEF RecordsInv, Serving
  <2>5. \A a \in DOMAIN attempts' :
          attempts'[a].outcome = "paired" => attempts'[a].at = "done"
    BY <1>2, <1>7, NoneApart DEF RecordsInv, Serving
  <2> QED
    BY <1>8, <2>3, <2>4, <2>5 DEF Serving
<1>11. AddedInOrder'
  BY <1>2, <1>7, <1>9 DEF RecordsInv, AddedInOrder
<1>12. BindingsNumbered'
  <2>1. \A a \in DOMAIN attempts' : attempts'[a].binding.no <= bound'
    BY <1>1, <1>2, <1>4, <1>7, <1>9 DEF RecordsInv, BindingsNumbered
  <2>2. \A p \in Owners : bindings'[p] # None => bindings'[p].no <= bound'
    <3> SUFFICES ASSUME NEW p \in Owners, bindings'[p] # None
                 PROVE  bindings'[p].no <= bound'
      OBVIOUS
    <3>1. CASE p = o
      BY <1>1, <1>4, <3>1
    <3>2. CASE p # o
      <4>1. bindings'[p] = bindings[p] /\ bindings[p].no <= bound
        BY <1>4, <3>2 DEF RecordsInv, BindingsNumbered
      <4>2. bindings[p].no \in Nat
        BY <1>1, <4>1 DEF Optional, Binding
      <4> QED
        BY <1>1, <1>4, <4>1, <4>2
    <3> QED
      BY <3>1, <3>2
  <2>3. \A a \in DOMAIN attempts :
          /\ attempts[a].binding.no <= bound /\ attempts[a].binding.no < bound + 1
          /\ attempts'[a] = attempts[a] /\ a < new
    <3>1. \A a \in DOMAIN attempts : attempts[a].binding.no <= bound
      BY DEF RecordsInv, BindingsNumbered
    <3> QED
      BY <1>1, <1>7, <1>9, <3>1
  <2>4. \A a, b \in DOMAIN attempts' :
          a < b => attempts'[a].binding.no < attempts'[b].binding.no
    <3> SUFFICES ASSUME NEW a \in DOMAIN attempts', NEW b \in DOMAIN attempts', a < b
                 PROVE  attempts'[a].binding.no < attempts'[b].binding.no
      OBVIOUS
    <3>1. a \in DOMAIN attempts
      <4>1. CASE a = new
        <5>1. b = new \/ b < new
          BY <1>7
        <5>2. b \in Nat
          BY <1>1, <1>7, <1>9
        <5> QED
          BY <1>1, <4>1, <5>1, <5>2
      <4> QED
        BY <1>7, <4>1
    <3>2. CASE b = new
      BY <1>2, <1>7, <2>3, <3>1, <3>2
    <3>3. CASE b \in DOMAIN attempts
      <4>1. attempts[a].binding.no < attempts[b].binding.no
        BY <3>1, <3>3 DEF RecordsInv, BindingsNumbered
      <4> QED
        BY <2>3, <3>1, <3>3, <4>1
    <3> QED
      BY <1>7, <3>2, <3>3
  <2>5. \A a \in DOMAIN attempts' :
          bindings'[attempts'[a].owner] # None =>
            attempts'[a].binding.no <= bindings'[attempts'[a].owner].no
    <3> SUFFICES ASSUME NEW a \in DOMAIN attempts', bindings'[attempts'[a].owner] # None
                 PROVE  attempts'[a].binding.no <= bindings'[attempts'[a].owner].no
      OBVIOUS
    <3>1. CASE a = new
      BY <1>1, <1>2, <1>4, <1>7, <3>1
    <3>2. CASE a \in DOMAIN attempts /\ attempts[a].owner = o
      <4>1. bindings'[attempts'[a].owner].no = bound + 1
        BY <1>4, <2>3, <3>2
      <4> QED
        BY <1>1, <1>9, <2>3, <3>2, <4>1
    <3>3. CASE a \in DOMAIN attempts /\ attempts[a].owner # o
      <4>1. bindings'[attempts'[a].owner] = bindings[attempts[a].owner]
        BY <1>4, <1>9, <2>3, <3>3
      <4> QED
        BY <2>3, <3>3, <4>1 DEF RecordsInv, BindingsNumbered
    <3> QED
      BY <1>7, <3>1, <3>2, <3>3
  <2> QED
    BY <2>1, <2>2, <2>4, <2>5 DEF BindingsNumbered
<1>13. WrittenStands'
  <2> SUFFICES ASSUME NEW a \in DOMAIN attempts', attempts'[a].at = "updating",
                      bindings'[attempts'[a].owner] = attempts'[a].binding
               PROVE  peers[attempts'[a].owner] = a
    BY DEF WrittenStands
  <2>1. a \in DOMAIN attempts /\ attempts'[a] = attempts[a]
    BY <1>2, <1>7
  <2>2. attempts[a].owner # o
    <3>1. attempts[a].binding.no <= bound
      BY <2>1 DEF RecordsInv, BindingsNumbered
    <3> QED
      BY <1>1, <1>4, <1>9, <2>1, <3>1
  <2> QED
    BY <1>4, <1>9, <2>1, <2>2 DEF RecordsInv, WrittenStands
<1>14. RollbackKeepsPaired' /\ PairedUntilRevoked'
  BY <1>1, <1>2, <1>7, <1>9
  DEF RecordsInv, RollbackKeepsPaired, PairedUntilRevoked, Known
<1>15. \A a \in DOMAIN attempts : attempts[a].token = qr.token =>
         attempts[a].owner = o /\ attempts[a].req = q /\ attempts[a].outcome # "paired"
  BY <1>5 DEF TokensInv, TokensHeld
<1>16. r.outcome # "paired"
  BY <1>2, <1>10, <1>7 DEF Serving
<1>17. TokensHeld'
  <2>1. /\ \A a \in DOMAIN attempts' : attempts'[a].token <= used'.tokens
        /\ qr' # None /\ qr'.holder # None /\ qr'.token <= used'.tokens
    BY <1>2, <1>5, <1>6, <1>7 DEF TokensInv, TokensHeld
  <2>2. \A a \in DOMAIN attempts' : attempts'[a].token = qr'.token =>
          /\ attempts'[a].owner = qr'.holder.owner /\ attempts'[a].req = qr'.holder.req
          /\ attempts'[a].outcome = "paired" => qr'.holder.status = "committed"
    BY <1>2, <1>5, <1>6, <1>7, <1>15, <1>16
  <2>3. /\ qr'.holder.reservation \in DOMAIN attempts'
        /\ attempts'[qr'.holder.reservation].token = qr'.token
    BY <1>2, <1>5, <1>6, <1>7 DEF TokensInv, TokensHeld
  <2> QED
    BY <2>1, <2>2, <2>3 DEF TokensHeld
<1>18. TokenPairsOnce'
  BY <1>2, <1>5, <1>7, <1>15, <1>16 DEF TokensInv, TokenPairsOnce
<1> QED
  BY <1>1, <1>5, <1>6, <1>7, <1>8, <1>10, <1>11, <1>12, <1>13, <1>14, <1>17, <1>18
  DEF RecordsInv, TokensInv, QueuesTyped, Optional

-----------------------------------------------------------------------------
(* Types.                                                                  *)

RecordsTyped ==
  /\ peers \in [Owners -> Optional(Nat)]
  /\ slotToken \in [Owners -> Nat]
  /\ confirmed \in SUBSET Owners

RequestsTyped ==
  /\ qr \in Optional(ActiveToken)
  /\ attempts \in Seq(Attempt)
  /\ waiting \in Seq(Waiting)
  /\ reply \in [Owners -> {None, "pair_ok", "pair_error"}]

OwnersTyped ==
  /\ bindings \in [Owners -> Optional(Binding)] /\ bound \in Nat
  /\ lookups \in SUBSET [owner : Owners, client : Nat, seen : SUBSET SUBSET Owners]
  /\ session \in BOOLEAN

AclTyped ==
  hello \in SUBSET Owners /\ acl \in SUBSET Owners /\ told \in {"initial", "reconnect", "update"}

HostTyped ==
  /\ RecordsTyped /\ QueuesTyped /\ RequestsTyped /\ OwnersTyped /\ AclTyped
  /\ used \in Bounds

LEMMA TypeParts == TypeOK <=> LifecycleTypeOK /\ HostTyped
  BY DEF TypeOK, HostTyped, RecordsTyped, QueuesTyped, RequestsTyped, OwnersTyped, AclTyped

LEMMA Unchanging ==
  ASSUME HostTyped
  PROVE  /\ UNCHANGED <<peers, slotToken, confirmed>> => RecordsTyped'
         /\ UNCHANGED <<lane, updates>> => QueuesTyped'
         /\ UNCHANGED <<qr, attempts, waiting, reply>> => RequestsTyped'
         /\ UNCHANGED <<bindings, bound, lookups, session>> => OwnersTyped'
         /\ UNCHANGED <<hello, acl, told>> => AclTyped'
  BY DEF HostTyped, RecordsTyped, QueuesTyped, RequestsTyped, OwnersTyped, AclTyped

LEMMA Used ==
  ASSUME used \in Bounds
  PROVE  /\ UNCHANGED used => used' \in Bounds
         /\ Use("tokens", MaxTokens) => used' \in Bounds /\ used'.tokens = used.tokens + 1
         /\ \/ UNCHANGED used \/ Use("deliveries", MaxDeliveries) \/ Use("frames", MaxFrames)
            \/ Use("revokes", MaxRevokes) \/ Use("refreshes", MaxRefreshes)
            \/ Use("faults", MaxFaults) \/ Use("switches", MaxSwitches)
            => used' \in Bounds /\ used'.tokens = used.tokens
         /\ used.tokens \in Nat
<1>1. /\ MaxTokens \in Nat /\ MaxDeliveries \in Nat /\ MaxFrames \in Nat /\ MaxRevokes \in Nat
      /\ MaxRefreshes \in Nat /\ MaxFaults \in Nat /\ MaxSwitches \in Nat
  BY HostAssumption
<1>2. used.tokens \in Nat
  BY <1>1 DEF Bounds
<1>3. Use("tokens", MaxTokens) => used' \in Bounds /\ used'.tokens = used.tokens + 1
  BY <1>1 DEF Bounds, Use
<1>4. Use("deliveries", MaxDeliveries) => used' \in Bounds /\ used'.tokens = used.tokens
  BY <1>1 DEF Bounds, Use
<1>5. Use("frames", MaxFrames) => used' \in Bounds /\ used'.tokens = used.tokens
  BY <1>1 DEF Bounds, Use
<1>6. Use("revokes", MaxRevokes) => used' \in Bounds /\ used'.tokens = used.tokens
  BY <1>1 DEF Bounds, Use
<1>7. Use("refreshes", MaxRefreshes) => used' \in Bounds /\ used'.tokens = used.tokens
  BY <1>1 DEF Bounds, Use
<1>8. Use("faults", MaxFaults) => used' \in Bounds /\ used'.tokens = used.tokens
  BY <1>1 DEF Bounds, Use
<1>9. Use("switches", MaxSwitches) => used' \in Bounds /\ used'.tokens = used.tokens
  BY <1>1 DEF Bounds, Use
<1> QED
  BY <1>2, <1>3, <1>4, <1>5, <1>6, <1>7, <1>8, <1>9

LEMMA ContentsTyped ==
  ASSUME TypeOK
  PROVE  Contents \in SUBSET SUBSET Owners
<1>1. lane \in Seq(Mutation)
  BY DEF TypeOK
<1>2. lane # <<>> => Head(lane) \in Mutation
  BY <1>1, Tails
<1>3. Writing => Head(lane).owner \in Owners
  BY <1>2 DEF Writing, Mutation
<1> QED
  BY <1>3 DEF Contents, Rewritten, Known

-----------------------------------------------------------------------------
(* The steps.                                                              *)

PairingInv == TypeOK /\ RecordsInv /\ TokensInv

(* Types and invariants after a step, the lifecycle's aside.               *)
Kept == HostTyped /\ RecordsInv /\ TokensInv

(* A step in which no attempt goes on and no token is issued.              *)
LEMMA StayingStep ==
  ASSUME PairingInv, AttemptsStay, LaneGoesOn, UpdatesGoOn, Rebound, QrKeeps,
         qr' \in Optional(ActiveToken), UNCHANGED <<waiting, reply>>,
         UNCHANGED <<peers, slotToken, confirmed>> \/ RevokedOwner,
         lookups' \in SUBSET [owner : Owners, client : Nat, seen : SUBSET SUBSET Owners],
         session' \in BOOLEAN, AclTyped', used' \in Bounds, used'.tokens = used.tokens
  PROVE  Kept'
<1>1. TypeOK /\ RecordsInv /\ TokensInv
  BY DEF PairingInv
<1>2. RecordsInv' /\ QueuesTyped'
  BY <1>1, StayingKeeps
<1>3. /\ DOMAIN attempts' = DOMAIN attempts /\ \A x \in DOMAIN attempts : SameRequest(x)
      /\ \A x \in DOMAIN attempts : attempts'[x].outcome = attempts[x].outcome
  BY DEF AttemptsStay
<1>4. TokensInv'
  BY <1>1, <1>3, TokensSettle DEF TokensInv
<1>5. RequestsTyped'
  BY <1>1 DEF TypeOK, RequestsTyped, AttemptsStay
<1>6. OwnersTyped'
  BY DEF OwnersTyped, Rebound
<1>7. RecordsTyped'
  <2>1. CASE UNCHANGED <<peers, slotToken, confirmed>>
    BY <1>1, <2>1 DEF TypeOK, RecordsTyped
  <2>2. CASE RevokedOwner
    <3> PICK o \in Owners :
          /\ peers' = [peers EXCEPT ![o] = None]
          /\ slotToken' = IF peers[o] = None THEN slotToken ELSE [slotToken EXCEPT ![o] = @ + 1]
          /\ confirmed' = confirmed \ {o}
      BY <2>2 DEF RevokedOwner
    <3>1. /\ peers \in [Owners -> Optional(Nat)] /\ slotToken \in [Owners -> Nat]
          /\ confirmed \in SUBSET Owners
      BY <1>1 DEF TypeOK
    <3>2. peers' \in [Owners -> Optional(Nat)]
      BY <3>1 DEF Optional
    <3>3. slotToken' \in [Owners -> Nat]
      BY <3>1
    <3> QED
      BY <3>1, <3>2, <3>3 DEF RecordsTyped
  <2> QED
    BY <2>1, <2>2
<1> QED
  BY <1>2, <1>4, <1>5, <1>6, <1>7 DEF Kept, HostTyped

LEMMA HandleStep ==
  ASSUME PairingInv, NEW o \in Owners, NEW c \in Nat, NEW q \in Requests,
         NEW token \in Nat \ {0}, NEW others \in Seq(Waiting), token <= used.tokens,
         \A i \in DOMAIN others : others[i].token <= used.tokens,
         Handle(c, o, q, token, others),
         UNCHANGED <<peers, slotToken, confirmed, lookups, session, aclVars>>,
         used' \in Bounds, used'.tokens = used.tokens
  PROVE  Kept'
<1>1. TypeOK /\ RecordsInv /\ TokensInv /\ HostTyped
  BY TypeParts DEF PairingInv
<1>2. /\ waiting' \in Seq(Waiting)
      /\ \A i \in DOMAIN waiting' : waiting'[i].token <= used'.tokens
  <2>1. \/ waiting' = others
        \/ \E a \in DOMAIN attempts :
             waiting' = Append(others, [client |-> c, owner |-> o, req |-> q,
                                        token |-> token, on |-> a])
    BY <1>1, HandleCases
  <2>2. /\ waiting' \in Seq(Waiting)
        /\ \A i \in DOMAIN waiting' : waiting'[i].token <= used.tokens
    BY <1>1, <2>1, WaitingKeeps
  <2> QED
    BY <2>2
<1>3. reply' \in [Owners -> {None, "pair_ok", "pair_error"}]
  BY <1>1, HandleCases DEF Reply, TypeOK
<1>4. RecordsTyped' /\ AclTyped' /\ updates' = updates
  BY <1>1, Unchanging DEF aclVars
<1>5. IsCurrent(c) => c \in Nat \ {0}
  BY DEF IsCurrent
<1>6. qr \in Optional(ActiveToken) /\ attempts \in Seq(Attempt) /\ Len(attempts) + 1 \in Nat
  BY <1>1, Attempted DEF TypeOK
<1>7. /\ Rebound /\ RecordsInv' /\ TokensInv' /\ QueuesTyped'
      /\ qr' \in Optional(ActiveToken) /\ attempts' \in Seq(Attempt)
  <2>1. CASE /\ UNCHANGED <<qr, attempts, lane>>
             /\ UNCHANGED <<bindings, bound>> \/ (IsCurrent(c) /\ Attach(o, c))
    <3>1. Rebound
      BY <1>1, <1>5, <2>1, SameBindings, AttachRebinds
    <3> QED
      BY <1>1, <1>2, <1>4, <1>6, <2>1, <3>1, AnsweringKeeps
  <2>2. CASE /\ Answer(qr, token, o, q) = "reserved" /\ session
             /\ IsCurrent(c) /\ Attach(o, c)
             /\ qr' = Reserved(qr, o, q, Len(attempts) + 1)
             /\ attempts' = Append(attempts, NewAttempt(c, o, q, token))
             /\ lane' = Append(lane, Mutating("add", o, Len(attempts) + 1))
    <3>1. Rebound
      BY <1>1, <1>5, <2>2, AttachRebinds
    <3> QED
      BY <1>1, <1>2, <1>4, <1>5, <2>2, <3>1, BeginningKeeps
  <2>3. CASE /\ Answer(qr, token, o, q) = "reserved"
             /\ IsCurrent(c) /\ Attach(o, c)
             /\ LET held == Reserved(qr, o, q, Len(attempts) + 1) IN
                qr' = Released(held, held.holder.reservation)
             /\ UNCHANGED <<attempts, lane>>
    <3>1. Rebound
      BY <1>1, <1>5, <2>3, AttachRebinds
    <3> QED
      BY <1>1, <1>2, <1>4, <1>6, <2>3, <3>1, RefusingKeeps
  <2> QED
    BY <1>1, <2>1, <2>2, <2>3, HandleCases
<1>8. RequestsTyped'
  BY <1>2, <1>3, <1>7 DEF RequestsTyped
<1>9. OwnersTyped'
  BY <1>1, <1>7 DEF OwnersTyped, Rebound, TypeOK
<1> QED
  BY <1>4, <1>7, <1>8, <1>9 DEF Kept, HostTyped

LEMMA PairRequestStep ==
  ASSUME PairingInv, NEW o \in Owners, NEW q \in Requests, NEW token \in 1..used.tokens,
         PairRequest(o, q, token)
  PROVE  Kept'
<1>1. /\ used \in Bounds /\ active \in Nat /\ waiting \in Seq(Waiting)
      /\ \A i \in DOMAIN waiting : waiting[i].token <= used.tokens
  BY ClientsTyped
  DEF PairingInv, TypeOK, LifecycleTypeOK, TokensInv, TokensHeld
<1>2. used' \in Bounds /\ used'.tokens = used.tokens /\ used.tokens \in Nat
  BY <1>1, Used DEF PairRequest
<1>3. token \in Nat \ {0} /\ token <= used.tokens
  BY <1>2
<1>4. /\ Handle(active, o, q, token, waiting)
      /\ UNCHANGED <<peers, slotToken, confirmed, lookups, session, aclVars>>
  BY DEF PairRequest
<1> QED
  BY <1>1, <1>2, <1>3, <1>4, HandleStep

LEMMA HandleAgainStep ==
  ASSUME PairingInv, NEW i \in DOMAIN waiting, HandleAgain(i)
  PROVE  Kept'
<1> DEFINE w == waiting[i]
           before == SubSeq(waiting, 1, i - 1)
           after == SubSeq(waiting, i + 1, Len(waiting))
<1>1. /\ used \in Bounds /\ waiting \in Seq(Waiting)
      /\ \A j \in DOMAIN waiting : waiting[j].token <= used.tokens
  BY DEF PairingInv, TypeOK, TokensInv, TokensHeld
<1>2. /\ Len(waiting) \in Nat /\ DOMAIN waiting = 1..Len(waiting)
      /\ \A j \in DOMAIN waiting : waiting[j] \in Waiting
  BY <1>1, LenProperties
<1>3. /\ w.owner \in Owners /\ w.client \in Nat /\ w.req \in Requests
      /\ w.token \in Nat \ {0} /\ w.token <= used.tokens
  BY <1>1, <1>2 DEF Waiting, Tokens
<1>4. used' \in Bounds /\ used'.tokens = used.tokens
  BY <1>1 DEF HandleAgain
<1> DEFINE Old == {x \in Waiting : x.token <= used.tokens}
<1>5. \A j \in DOMAIN waiting : waiting[j] \in Old
  BY <1>1, <1>2
<1>6. before \in Seq(Old)
  <2>1. \A j \in 1..(i - 1) : waiting[j] \in Old
    BY <1>2, <1>5
  <2> QED
    BY <1>2, <2>1, SubSeqProperties
<1>7. after \in Seq(Old)
  <2>1. \A j \in (i + 1)..Len(waiting) : waiting[j] \in Old
    BY <1>2, <1>5
  <2> QED
    BY <1>2, <2>1, SubSeqProperties
<1> HIDE DEF before, after
<1>8. before \o after \in Seq(Old)
  BY <1>6, <1>7, ConcatProperties
<1>9. /\ before \o after \in Seq(Waiting)
      /\ \A j \in DOMAIN (before \o after) : (before \o after)[j].token <= used.tokens
  <2>1. \A j \in DOMAIN (before \o after) : (before \o after)[j] \in Old
    BY <1>8, LenProperties
  <2>2. before \o after \in Seq(Waiting)
    BY <1>8, SeqMonotonic
  <2> QED
    BY <2>1, <2>2
<1>10. /\ Handle(w.client, w.owner, w.req, w.token, before \o after)
       /\ UNCHANGED <<peers, slotToken, confirmed, lookups, session, aclVars>>
  BY DEF HandleAgain, before, after
<1> HIDE DEF w
<1> QED
  BY <1>3, <1>4, <1>9, <1>10, HandleStep

(* The steps of an attempt.                                                *)
LEMMA UpdateEndStep ==
  ASSUME PairingInv, updates # <<>>, Head(updates).by # 0, NEW sent,
         AfterUpdate(Head(updates).by, sent), updates' = Tail(updates),
         UNCHANGED <<peers, slotToken, ownerVars, used>>, AclTyped'
  PROVE  Kept'
<1> DEFINE a == Head(updates).by
<1>1. TypeOK /\ RecordsInv /\ TokensInv /\ HostTyped /\ Serving
  BY TypeParts DEF PairingInv, RecordsInv
<1>2. RecordsInv' /\ TokensInv'
  BY <1>1, UpdateEndKeeps DEF ownerVars
<1>3. /\ OnlyChanges(a) /\ QueuesTyped' /\ qr' \in Optional(ActiveToken) /\ UNCHANGED waiting
      /\ Refreshed(a) \/ Confirmed(a) \/ Failed(a)
  BY <1>1, UpdateEnds
<1> HIDE DEF a
<1>4. attempts[a].owner \in Owners /\ attempts' \in Seq(Attempt)
  BY <1>1, <1>3, Attempted DEF OnlyChanges, Attempt
<1>5. /\ waiting \in Seq(Waiting) /\ reply \in [Owners -> {None, "pair_ok", "pair_error"}]
      /\ confirmed \in SUBSET Owners
      /\ peers \in [Owners -> Optional(Nat)] /\ slotToken \in [Owners -> Nat]
  BY <1>1 DEF TypeOK
<1>6. RequestsTyped' /\ RecordsTyped'
  <2>1. reply' \in [Owners -> {None, "pair_ok", "pair_error"}] /\ confirmed' \in SUBSET Owners
    BY <1>3, <1>4, <1>5 DEF Refreshed, Confirmed, Failed
  <2> QED
    BY <1>3, <1>4, <1>5, <2>1 DEF RequestsTyped, RecordsTyped
<1>7. OwnersTyped' /\ used' \in Bounds
  BY <1>1, Unchanging DEF ownerVars, HostTyped
<1> QED
  BY <1>2, <1>3, <1>6, <1>7 DEF Kept, HostTyped

LEMMA AddEndStep ==
  ASSUME PairingInv, EndAdd
  PROVE  Kept'
<1> DEFINE a == Head(lane).by
           o == attempts[a].owner
<1>1. TypeOK /\ RecordsInv /\ TokensInv /\ HostTyped /\ Serving
  BY TypeParts DEF PairingInv, RecordsInv
<1>2. RecordsInv' /\ TokensInv'
  BY <1>1, AddEndKeeps
<1>3. /\ OnlyChanges(a) /\ QueuesTyped' /\ UNCHANGED <<qr, waiting, confirmed>>
      /\ o \in Owners /\ peers' = [peers EXCEPT ![o] = a]
      /\ slotToken' = [slotToken EXCEPT ![o] = @ + 1]
  BY <1>1, AddEnds
<1>4. a \in DOMAIN attempts /\ a \in Nat /\ attempts' \in Seq(Attempt)
  BY <1>1, <1>3, Attempted DEF OnlyChanges
<1> HIDE DEF a, o
<1>5. /\ peers \in [Owners -> Optional(Nat)] /\ slotToken \in [Owners -> Nat]
      /\ confirmed \in SUBSET Owners
  BY <1>1 DEF TypeOK
<1>6. peers' \in [Owners -> Optional(Nat)]
  BY <1>3, <1>4, <1>5 DEF Optional
<1>7. slotToken' \in [Owners -> Nat]
  BY <1>3, <1>5
<1>8. RecordsTyped'
  BY <1>3, <1>5, <1>6, <1>7 DEF RecordsTyped
<1>9. RequestsTyped'
  BY <1>1, <1>3, <1>4 DEF RequestsTyped, TypeOK, EndAdd, AfterAdd
<1>10. OwnersTyped' /\ AclTyped' /\ used' \in Bounds
  BY <1>1, Unchanging DEF ownerVars, HostTyped, EndAdd
<1> QED
  BY <1>2, <1>3, <1>8, <1>9, <1>10 DEF Kept, HostTyped

LEMMA FailWriteStep ==
  ASSUME PairingInv, FailWrite
  PROVE  Kept'
<1>1. TypeOK /\ RecordsInv /\ TokensInv /\ HostTyped /\ Serving /\ used \in Bounds
  BY TypeParts DEF PairingInv, RecordsInv, HostTyped
<1>2. /\ used' \in Bounds /\ used'.tokens = used.tokens
      /\ UNCHANGED <<peers, slotToken, waiting, confirmed, ownerVars, aclVars>>
      /\ lane # <<>> /\ lane' = Tail(lane)
  BY <1>1, Used DEF FailWrite
<1>3. /\ RecordsTyped' /\ OwnersTyped' /\ AclTyped'
  BY <1>1, <1>2, Unchanging DEF ownerVars, aclVars
<1>4. CASE Head(lane).kind = "add"
  <2> DEFINE a == Head(lane).by
  <2>1. RecordsInv' /\ TokensInv'
    BY <1>1, <1>4, AddFailKeeps
  <2>2. /\ OnlyChanges(a) /\ QueuesTyped' /\ qr' \in Optional(ActiveToken)
        /\ attempts[a].owner \in Owners
    BY <1>1, <1>4, AddFails
  <2>3. reply' = reply \/ reply' = [reply EXCEPT ![attempts[a].owner] = "pair_error"]
    BY <1>4 DEF FailWrite
  <2> HIDE DEF a
  <2>4. RequestsTyped'
    BY <1>1, <1>2, <2>2, <2>3 DEF RequestsTyped, TypeOK, OnlyChanges
  <2> QED
    BY <1>2, <1>3, <2>1, <2>2, <2>4 DEF Kept, HostTyped
<1>5. CASE Head(lane).kind = "remove" /\ UNCHANGED <<qr, attempts, reply>>
  <2>1. AttemptsStay /\ QrKeeps /\ qr' \in Optional(ActiveToken) /\ Rebound
    BY <1>1, <1>2, <1>5, SameAttempts, SameToken, SameBindings DEF ownerVars
  <2>2. LaneGoesOn /\ UpdatesGoOn
    BY <1>2, <1>5 DEF LaneGoesOn, UpdatesGoOn, aclVars
  <2>3. /\ lookups' \in SUBSET [owner : Owners, client : Nat, seen : SUBSET SUBSET Owners]
        /\ session' \in BOOLEAN
    BY <1>3 DEF OwnersTyped
  <2> QED
    BY <1>2, <1>3, <1>5, <2>1, <2>2, <2>3, StayingStep
<1> QED
  BY <1>4, <1>5 DEF FailWrite

LEMMA RollbackStep ==
  ASSUME PairingInv, Rollback
  PROVE  Kept'
<1> DEFINE a == Head(lane).by
           o == attempts[a].owner
<1>1. TypeOK /\ RecordsInv /\ TokensInv /\ HostTyped /\ Serving /\ used \in Bounds
  BY TypeParts DEF PairingInv, RecordsInv, HostTyped
<1>2. RecordsInv' /\ TokensInv'
  BY <1>1, RollbackEndKeeps
<1>3. /\ OnlyChanges(a) /\ QueuesTyped' /\ o \in Owners
      /\ \/ UNCHANGED <<peers, slotToken>>
         \/ /\ peers' = [peers EXCEPT ![o] = attempts[a].previous]
            /\ slotToken' = [slotToken EXCEPT ![o] = @ + 1]
  BY <1>1, RollbackEnds
<1>4. /\ a \in DOMAIN attempts /\ attempts' \in Seq(Attempt)
      /\ attempts[a].previous \in Optional(Nat)
  BY <1>1, <1>3, Attempted DEF OnlyChanges, Attempt
<1> HIDE DEF a, o
<1>5. /\ UNCHANGED <<qr, waiting, reply, confirmed, ownerVars, hello, acl, told>>
      /\ used' \in Bounds
  BY <1>1, Used DEF Rollback
<1>6. /\ peers \in [Owners -> Optional(Nat)] /\ slotToken \in [Owners -> Nat]
      /\ confirmed \in SUBSET Owners
  BY <1>1 DEF TypeOK
<1>7. peers' \in [Owners -> Optional(Nat)] /\ slotToken' \in [Owners -> Nat]
  BY <1>3, <1>4, <1>6
<1>8. RecordsTyped' /\ RequestsTyped'
  BY <1>1, <1>4, <1>5, <1>6, <1>7 DEF RecordsTyped, RequestsTyped, TypeOK
<1>9. OwnersTyped' /\ AclTyped'
  BY <1>1, <1>5, Unchanging DEF ownerVars
<1> QED
  BY <1>2, <1>3, <1>5, <1>8, <1>9 DEF Kept, HostTyped

(* The steps that touch neither attempts nor token nor records.            *)
LEMMA AsideStep ==
  ASSUME PairingInv, LaneGoesOn, UpdatesGoOn, UNCHANGED <<pairingVars, peers, slotToken>>,
         Rebound, AclTyped', used' \in Bounds, used'.tokens = used.tokens,
         lookups' \in SUBSET [owner : Owners, client : Nat, seen : SUBSET SUBSET Owners],
         session' \in BOOLEAN
  PROVE  Kept'
<1>1. TypeOK
  BY DEF PairingInv
<1>2. AttemptsStay /\ QrKeeps /\ qr' \in Optional(ActiveToken)
  BY <1>1, SameAttempts, SameToken DEF pairingVars
<1> QED
  BY <1>2, StayingStep DEF pairingVars

LEMMA QuietStep ==
  ASSUME PairingInv, LaneGoesOn, UpdatesGoOn, UNCHANGED <<pairingVars, peers, slotToken>>,
         UNCHANGED ownerVars, AclTyped', used' \in Bounds, used'.tokens = used.tokens
  PROVE  Kept'
<1>1. TypeOK
  BY DEF PairingInv
<1>2. Rebound
  BY <1>1, SameBindings DEF ownerVars
<1>3. /\ lookups' \in SUBSET [owner : Owners, client : Nat, seen : SUBSET SUBSET Owners]
      /\ session' \in BOOLEAN
  BY <1>1 DEF TypeOK, ownerVars
<1> QED
  BY <1>2, <1>3, AsideStep

LEMMA UpdateStep ==
  ASSUME PairingInv, StartUpdate \/ SendUpdate
  PROVE  Kept'
<1>1. TypeOK /\ HostTyped /\ used \in Bounds /\ updates \in Seq(Update)
  BY TypeParts DEF PairingInv, HostTyped, QueuesTyped
<1>2. Contents \in SUBSET SUBSET Owners
  BY <1>1, ContentsTyped
<1>3. updates # <<>> /\ Head(updates) \in Update
  BY <1>1, Tails DEF StartUpdate, SendUpdate
<1>4. active \in Nat /\ Head(updates).client \in Nat /\ Head(updates).seen \in SUBSET SUBSET Owners
  BY <1>1, <1>3, ClientsTyped DEF TypeOK, LifecycleTypeOK, Update
<1>5. CASE StartUpdate
  <2>1. /\ UNCHANGED <<lifecycleVars, peers, slotToken, ownerVars, hello, acl, told, used>>
        /\ AclTyped'
    BY <1>1, <1>5, Unchanging DEF StartUpdate
  <2>2. CASE /\ Head(updates).by # 0 /\ AfterUpdate(Head(updates).by, FALSE)
             /\ updates' = Tail(updates)
    BY <1>3, <2>1, <2>2, UpdateEndStep
  <2>3. CASE UpdatesGoOn /\ UNCHANGED <<lane, pairingVars>>
    <3>1. LaneGoesOn
      BY <2>3 DEF LaneGoesOn
    <3> QED
      BY <1>1, <2>1, <2>3, <3>1, QuietStep
  <2> DEFINE target == IF Head(updates).client = 0 THEN active ELSE Head(updates).client
  <2>4. target \in Nat
    BY <1>4
  <2>5. CASE /\ updates' = [updates EXCEPT ![1].at = "reading", ![1].client = target,
                                           ![1].seen = Contents]
             /\ UNCHANGED <<lane, pairingVars>>
    <3> HIDE DEF target
    <3>1. UpdatesGoOn
      BY <1>2, <1>3, <2>4, <2>5 DEF UpdatesGoOn
    <3> QED
      BY <2>3, <2>5, <3>1
  <2>6. CASE /\ updates' = Tail(updates) /\ Head(updates).by = 0
             /\ UNCHANGED <<lane, pairingVars>>
    BY <1>3, <2>3, <2>6 DEF UpdatesGoOn
  <2> QED
    BY <1>5, <2>2, <2>5, <2>6 DEF StartUpdate
<1>6. CASE SendUpdate
  <2> DEFINE sent == IsOpen(Head(updates).client) /\ IsCurrent(Head(updates).client)
  <2>1. /\ UNCHANGED <<lifecycleVars, peers, slotToken, ownerVars, hello, used>>
        /\ updates' = Tail(updates)
        /\ IF Head(updates).by = 0 THEN UNCHANGED <<lane, pairingVars>>
           ELSE AfterUpdate(Head(updates).by, sent)
    BY <1>6 DEF SendUpdate
  <2>2. AclTyped'
    <3>1. PICK owners \in Head(updates).seen \cup Contents :
            /\ acl' = IF sent THEN owners ELSE acl
            /\ told' = IF sent THEN "update" ELSE told
      BY <1>6 DEF SendUpdate
    <3>2. owners \in SUBSET Owners
      BY <1>2, <1>4, <3>1
    <3> HIDE DEF sent
    <3> QED
      BY <1>1, <2>1, <3>1, <3>2 DEF AclTyped, HostTyped
  <2> HIDE DEF sent
  <2>3. CASE Head(updates).by = 0
    <3>1. LaneGoesOn /\ UpdatesGoOn
      BY <1>3, <2>1, <2>3 DEF LaneGoesOn, UpdatesGoOn
    <3> QED
      BY <1>1, <2>1, <2>2, <2>3, <3>1, QuietStep
  <2>4. CASE Head(updates).by # 0
    BY <1>3, <2>1, <2>2, <2>4, UpdateEndStep
  <2> QED
    BY <2>3, <2>4
<1> QED
  BY <1>5, <1>6

LEMMA QueueingStep ==
  ASSUME PairingInv, BeginWrite \/ Refresh \/ \E o \in Owners : Revoke(o)
  PROVE  Kept'
<1>1. TypeOK /\ HostTyped /\ used \in Bounds
  BY TypeParts DEF PairingInv, HostTyped
<1>2. LaneGoesOn
  BY DEF BeginWrite, Refresh, Revoke, LaneGoesOn, storageVars
<1>3. UpdatesGoOn
  <2>1. 0 \in Nat
    OBVIOUS
  <2> QED
    BY <2>1 DEF BeginWrite, Refresh, Revoke, UpdatesGoOn, aclVars
<1>4. UNCHANGED <<pairingVars, peers, slotToken, ownerVars, hello, acl, told>>
  BY DEF BeginWrite, Refresh, Revoke, aclVars, storageVars
<1>5. used' \in Bounds /\ used'.tokens = used.tokens
  BY <1>1, Used DEF BeginWrite, Refresh, Revoke
<1>6. AclTyped'
  BY <1>1, <1>4, Unchanging
<1> QED
  BY <1>2, <1>3, <1>4, <1>5, <1>6, QuietStep

LEMMA RevokedStep ==
  ASSUME PairingInv, Revoked
  PROVE  Kept'
<1> DEFINE o == Head(lane).owner
<1>1. TypeOK /\ HostTyped /\ used \in Bounds /\ lane \in Seq(Mutation)
  BY TypeParts DEF PairingInv, HostTyped, QueuesTyped
<1>2. lane # <<>> /\ Head(lane) \in Mutation /\ o \in Owners
  <2>1. lane # <<>>
    BY DEF Revoked
  <2>2. Head(lane) \in Mutation
    BY <1>1, <2>1, Tails
  <2> QED
    BY <2>1, <2>2 DEF Mutation
<1>3. /\ peers' = [peers EXCEPT ![o] = None]
      /\ slotToken' = IF peers[o] = None THEN slotToken ELSE [slotToken EXCEPT ![o] = @ + 1]
      /\ bindings' = [bindings EXCEPT ![o] = None]
      /\ confirmed' = confirmed \ {o}
      /\ lane' = Tail(lane) /\ Head(lane).kind = "remove"
      /\ updates' = Append(updates, Updating(0, 0))
      /\ UNCHANGED <<lifecycleVars, qr, attempts, waiting, reply, bound, lookups, session,
                     hello, acl, told, used>>
  BY DEF Revoked
<1> HIDE DEF o
<1>4. bindings \in [Owners -> Optional(Binding)] /\ bound \in Nat
  BY <1>1 DEF TypeOK
<1>5. Rebound /\ bindings'[o] = None
  <2>1. bindings' \in [Owners -> Optional(Binding)]
    BY <1>3, <1>4 DEF Optional
  <2> QED
    BY <1>2, <1>3, <1>4, <2>1 DEF Rebound
<1>6. RevokedOwner
  BY <1>2, <1>3, <1>5 DEF RevokedOwner
<1>7. LaneGoesOn
  BY <1>2, <1>3 DEF LaneGoesOn
<1>8. UpdatesGoOn
  <2>1. 0 \in Nat
    OBVIOUS
  <2> QED
    BY <1>3, <2>1 DEF UpdatesGoOn
<1>9. AttemptsStay /\ QrKeeps /\ qr' \in Optional(ActiveToken)
  BY <1>1, <1>3, SameAttempts, SameToken
<1>10. /\ lookups' \in SUBSET [owner : Owners, client : Nat, seen : SUBSET SUBSET Owners]
       /\ session' \in BOOLEAN
  BY <1>1, <1>3 DEF TypeOK
<1>11. AclTyped' /\ used' \in Bounds /\ used'.tokens = used.tokens
  BY <1>1, <1>3, Unchanging
<1> QED
  BY <1>3, <1>5, <1>6, <1>7, <1>8, <1>9, <1>10, <1>11, StayingStep

LEMMA FrameStep ==
  ASSUME PairingInv, NEW o \in Owners, SessionFrame(o)
  PROVE  Kept'
<1>1. TypeOK /\ HostTyped /\ used \in Bounds /\ active \in Nat
  BY TypeParts, ClientsTyped DEF PairingInv, HostTyped, LifecycleTypeOK
<1>2. /\ UNCHANGED <<lifecycleVars, storageVars, pairingVars, bindings, bound, session, aclVars>>
      /\ lookups' = lookups \cup {[owner |-> o, client |-> active, seen |-> Contents]}
      /\ used' \in Bounds /\ used'.tokens = used.tokens
  BY <1>1, Used DEF SessionFrame
<1>3. Rebound /\ AclTyped' /\ session' \in BOOLEAN
  BY <1>1, <1>2, SameBindings, Unchanging DEF aclVars, TypeOK
<1>4. lookups' \in SUBSET [owner : Owners, client : Nat, seen : SUBSET SUBSET Owners]
  BY <1>1, <1>2, ContentsTyped DEF TypeOK
<1>5. LaneGoesOn /\ UpdatesGoOn /\ UNCHANGED <<peers, slotToken>>
  BY <1>2 DEF LaneGoesOn, UpdatesGoOn, storageVars, aclVars
<1> QED
  BY <1>2, <1>3, <1>4, <1>5, AsideStep

LEMMA FoundStep ==
  ASSUME PairingInv, NEW l \in lookups, Found(l)
  PROVE  Kept'
<1>1. TypeOK /\ HostTyped /\ used \in Bounds
  BY TypeParts DEF PairingInv, HostTyped
<1>2. l.owner \in Owners /\ l.client \in Nat
  BY <1>1 DEF TypeOK
<1>3. /\ UNCHANGED <<lifecycleVars, storageVars, pairingVars, session, aclVars, used>>
      /\ lookups' = lookups \ {l}
      /\ UNCHANGED <<bindings, bound>> \/ (IsCurrent(l.client) /\ Attach(l.owner, l.client))
  BY DEF Found
<1>4. Rebound
  <2>1. IsCurrent(l.client) => l.client \in Nat \ {0}
    BY <1>2 DEF IsCurrent
  <2> QED
    BY <1>1, <1>2, <1>3, <2>1, SameBindings, AttachRebinds
<1>5. AclTyped' /\ session' \in BOOLEAN
  BY <1>1, <1>3, Unchanging DEF aclVars, TypeOK
<1>6. lookups' \in SUBSET [owner : Owners, client : Nat, seen : SUBSET SUBSET Owners]
  BY <1>1, <1>3 DEF TypeOK
<1>7. LaneGoesOn /\ UpdatesGoOn /\ UNCHANGED <<peers, slotToken>>
  BY <1>3 DEF LaneGoesOn, UpdatesGoOn, storageVars, aclVars
<1> QED
  BY <1>1, <1>3, <1>4, <1>5, <1>6, <1>7, AsideStep

LEMMA IssueStep ==
  ASSUME PairingInv, IssueToken
  PROVE  Kept'
<1>1. TypeOK /\ HostTyped /\ used \in Bounds /\ RecordsInv /\ TokensInv
  BY TypeParts DEF PairingInv, HostTyped
<1>2. /\ used' \in Bounds /\ used'.tokens = used.tokens + 1 /\ used.tokens \in Nat
      /\ qr' = Issued(used.tokens + 1)
      /\ UNCHANGED <<lifecycleVars, storageVars, attempts, waiting, reply, confirmed,
                     ownerVars, aclVars>>
  BY <1>1, Used DEF IssueToken
<1>3. /\ qr' \in ActiveToken /\ qr' # None /\ qr'.token = used.tokens + 1 /\ qr'.holder = None
  <2>1. used.tokens + 1 \in Tokens
    BY <1>2 DEF Tokens
  <2>2. qr' \in ActiveToken /\ qr'.token = used.tokens + 1 /\ qr'.holder = None
    BY <1>2, <2>1 DEF Issued, ActiveToken
  <2> QED
    BY <2>2, NoneApart
<1>4. \A a \in DOMAIN attempts : attempts[a].token \in Nat
  BY <1>1, Attempted DEF Attempt, Tokens
<1>5. \A i \in DOMAIN waiting : waiting[i].token \in Nat
  <2>1. waiting \in Seq(Waiting)
    BY <1>1 DEF TypeOK
  <2>2. \A i \in DOMAIN waiting : waiting[i] \in Waiting
    BY <2>1, LenProperties
  <2> QED
    BY <2>2 DEF Waiting, Tokens
<1>6. TokensHeld'
  BY <1>1, <1>2, <1>3, <1>4, <1>5 DEF TokensInv, TokensHeld
<1>7. TokenPairsOnce'
  BY <1>1, <1>2 DEF TokensInv, TokenPairsOnce
<1>8. AttemptsStay /\ LaneGoesOn /\ UpdatesGoOn /\ Rebound
  BY <1>1, <1>2, SameAttempts, SameBindings
  DEF LaneGoesOn, UpdatesGoOn, storageVars, aclVars, ownerVars
<1>9. RecordsInv' /\ QueuesTyped'
  BY <1>1, <1>2, <1>8, StayingKeeps DEF storageVars
<1>10. RecordsTyped' /\ OwnersTyped' /\ AclTyped'
  BY <1>1, <1>2, Unchanging DEF storageVars, ownerVars, aclVars
<1>11. RequestsTyped'
  BY <1>1, <1>2, <1>3 DEF TypeOK, RequestsTyped, Optional
<1> QED
  BY <1>2, <1>6, <1>7, <1>9, <1>10, <1>11 DEF Kept, HostTyped, TokensInv

LEMMA ExpireStep ==
  ASSUME PairingInv, ExpireToken
  PROVE  Kept'
<1>1. TypeOK /\ HostTyped /\ used \in Bounds
  BY TypeParts DEF PairingInv, HostTyped
<1>2. /\ qr # None /\ qr' = [qr EXCEPT !.expired = TRUE]
      /\ UNCHANGED <<lifecycleVars, storageVars, attempts, waiting, reply, confirmed,
                     ownerVars, aclVars, used>>
  BY DEF ExpireToken
<1>3. qr \in ActiveToken
  BY <1>1, <1>2 DEF TypeOK, Optional
<1>4. qr' \in ActiveToken /\ qr'.token = qr.token /\ qr'.holder = qr.holder
  BY <1>2, <1>3 DEF ActiveToken
<1>5. QrKeeps /\ qr' \in Optional(ActiveToken)
  BY <1>2, <1>4 DEF QrKeeps, Optional
<1>6. AttemptsStay /\ LaneGoesOn /\ UpdatesGoOn /\ Rebound
  BY <1>1, <1>2, SameAttempts, SameBindings
  DEF LaneGoesOn, UpdatesGoOn, storageVars, aclVars, ownerVars
<1>7. AclTyped' /\ session' \in BOOLEAN
  BY <1>1, <1>2, Unchanging DEF aclVars, ownerVars, TypeOK
<1>8. lookups' \in SUBSET [owner : Owners, client : Nat, seen : SUBSET SUBSET Owners]
  BY <1>1, <1>2 DEF TypeOK, ownerVars
<1> QED
  BY <1>1, <1>2, <1>5, <1>6, <1>7, <1>8, StayingStep DEF storageVars

(* Every owner is detached.                                                *)
LEMMA AllDetached ==
  ASSUME TypeOK, bindings' = [o \in Owners |-> None], UNCHANGED bound
  PROVE  Rebound
  BY DEF TypeOK, Rebound, Optional

LEMMA SwitchStep ==
  ASSUME PairingInv, SwitchSession
  PROVE  Kept'
<1>1. TypeOK /\ HostTyped /\ used \in Bounds
  BY TypeParts DEF PairingInv, HostTyped
<1>2. /\ UNCHANGED <<storageVars, pairingVars, bound, lookups, aclVars>>
      /\ session' \in BOOLEAN /\ used' \in Bounds /\ used'.tokens = used.tokens
      /\ bindings' = bindings \/ bindings' = [o \in Owners |-> None]
  BY <1>1, Used DEF SwitchSession
<1>3. Rebound
  BY <1>1, <1>2, SameBindings, AllDetached
<1>4. LaneGoesOn /\ UpdatesGoOn /\ UNCHANGED <<peers, slotToken>>
  BY <1>2 DEF LaneGoesOn, UpdatesGoOn, storageVars, aclVars
<1>5. AclTyped'
  BY <1>1, <1>2, Unchanging DEF aclVars
<1>6. lookups' \in SUBSET [owner : Owners, client : Nat, seen : SUBSET SUBSET Owners]
  BY <1>1, <1>2 DEF TypeOK
<1> QED
  BY <1>2, <1>3, <1>4, <1>5, <1>6, AsideStep

LEMMA ConnectStep ==
  ASSUME PairingInv, NEW run \in ops, Connect(run)
  PROVE  Kept'
<1>1. TypeOK /\ HostTyped /\ used \in Bounds
  BY TypeParts DEF PairingInv, HostTyped
<1>2. run.kind \in {"initial", "reconnect"} /\ run.client \in Nat
  BY <1>1 DEF TypeOK, LifecycleTypeOK, Run
<1>3. UNCHANGED <<storageVars, pairingVars, ownerVars, used>>
  BY DEF Connect
<1>4. AclTyped' /\ UpdatesGoOn
  <2>1. CASE UNCHANGED aclVars
    BY <1>1, <2>1, Unchanging DEF aclVars, UpdatesGoOn
  <2>2. CASE hello' \in Contents /\ UNCHANGED <<updates, acl, told>>
    <3>1. hello' \in SUBSET Owners
      BY <1>1, <2>2, ContentsTyped
    <3> QED
      BY <1>1, <2>2, <3>1 DEF HostTyped, AclTyped, UpdatesGoOn
  <2>3. CASE OnConnected(run)
    BY <1>1, <1>2, <2>3 DEF OnConnected, HostTyped, AclTyped, UpdatesGoOn
  <2> QED
    BY <2>1, <2>2, <2>3 DEF Connect
<1>5. LaneGoesOn /\ UNCHANGED <<peers, slotToken>>
  BY <1>3 DEF LaneGoesOn, storageVars
<1> QED
  BY <1>1, <1>3, <1>4, <1>5, QuietStep

LEMMA DetachStep ==
  ASSUME PairingInv, OnDisconnected
  PROVE  Kept'
<1>1. TypeOK /\ HostTyped /\ used \in Bounds
  BY TypeParts DEF PairingInv, HostTyped
<1>2. AttemptsStay /\ QrKeeps /\ qr' \in Optional(ActiveToken)
  BY <1>1, Detaching
<1>3. /\ bindings' = [o \in Owners |-> None]
      /\ UNCHANGED <<storageVars, waiting, reply, confirmed, bound, lookups, session, aclVars, used>>
  BY DEF OnDisconnected
<1>4. Rebound
  BY <1>1, <1>3, AllDetached
<1>5. LaneGoesOn /\ UpdatesGoOn /\ UNCHANGED <<peers, slotToken>>
  BY <1>3 DEF LaneGoesOn, UpdatesGoOn, storageVars, aclVars
<1>6. AclTyped' /\ session' \in BOOLEAN
  BY <1>1, <1>3, Unchanging DEF aclVars, TypeOK
<1>7. lookups' \in SUBSET [owner : Owners, client : Nat, seen : SUBSET SUBSET Owners]
  BY <1>1, <1>3 DEF TypeOK
<1> QED
  BY <1>1, <1>2, <1>3, <1>4, <1>5, <1>6, <1>7, StayingStep

LEMMA StillStep ==
  ASSUME PairingInv, UNCHANGED <<storageVars, pairingVars, ownerVars, aclVars, used>>
  PROVE  Kept'
<1>1. TypeOK /\ HostTyped /\ used \in Bounds
  BY TypeParts DEF PairingInv, HostTyped
<1>2. LaneGoesOn /\ UpdatesGoOn /\ UNCHANGED <<peers, slotToken>>
  BY DEF LaneGoesOn, UpdatesGoOn, storageVars, aclVars
<1>3. AclTyped'
  BY <1>1, Unchanging DEF aclVars
<1> QED
  BY <1>1, <1>2, <1>3, QuietStep

-----------------------------------------------------------------------------
(* The whole runtime.                                                      *)

LEMMA PairingInit ==
  ASSUME Init
  PROVE  PairingInv
<1>1. LifecycleTypeOK
  BY LifecycleInvInit DEF Init, LifecycleInv
<1>2. /\ lane = <<>> /\ updates = <<>> /\ attempts = <<>> /\ waiting = <<>>
      /\ DOMAIN lane = {} /\ DOMAIN updates = {} /\ DOMAIN attempts = {} /\ DOMAIN waiting = {}
      /\ qr = None /\ bindings = [o \in Owners |-> None]
      /\ confirmed = Known
  BY DEF Init
<1>3. RecordsTyped
  <2>1. 0 \in Nat
    OBVIOUS
  <2>2. \A o \in Owners : (IF o \in Paired THEN 0 ELSE None) \in Optional(Nat)
    BY <2>1 DEF Optional
  <2>3. peers \in [Owners -> Optional(Nat)] /\ slotToken \in [Owners -> Nat]
    BY <2>1, <2>2 DEF Init
  <2> QED
    BY <1>2, <2>3 DEF RecordsTyped, Known
<1>4. QueuesTyped /\ RequestsTyped
  <2>1. lane \in Seq(Mutation) /\ updates \in Seq(Update)
    BY <1>2
  <2>2. attempts \in Seq(Attempt) /\ waiting \in Seq(Waiting)
    BY <1>2
  <2>3. reply \in [Owners -> {None, "pair_ok", "pair_error"}]
    BY DEF Init
  <2> QED
    BY <1>2, <2>1, <2>2, <2>3 DEF QueuesTyped, RequestsTyped, Optional
<1>5. OwnersTyped /\ AclTyped
  BY DEF Init, OwnersTyped, AclTyped, Optional
<1>6. used \in Bounds
  <2>1. /\ MaxTokens \in Nat /\ MaxDeliveries \in Nat /\ MaxFrames \in Nat /\ MaxRevokes \in Nat
        /\ MaxRefreshes \in Nat /\ MaxFaults \in Nat /\ MaxSwitches \in Nat
    BY HostAssumption
  <2>2. \A n \in Nat : 0 \in 0..n
    OBVIOUS
  <2> QED
    BY <2>1, <2>2 DEF Init, Bounds
<1>7. TypeOK
  BY <1>1, <1>3, <1>4, <1>5, <1>6, TypeParts DEF HostTyped
<1>8. RecordsInv
  <2>1. Serving /\ AddedInOrder
    BY <1>2 DEF Serving, ServesLane, ServesUpdates, AddedInOrder
  <2>2. BindingsNumbered /\ WrittenStands
    BY <1>2 DEF BindingsNumbered, WrittenStands
  <2>3. RollbackKeepsPaired /\ PairedUntilRevoked
    BY <1>2 DEF RollbackKeepsPaired, PairedUntilRevoked
  <2> QED
    BY <2>1, <2>2, <2>3 DEF RecordsInv
<1>9. TokensInv
  BY <1>2 DEF TokensInv, TokensHeld, TokenPairsOnce
<1> QED
  BY <1>7, <1>8, <1>9 DEF PairingInv

LEMMA PairingNext ==
  ASSUME ConnectionInv, PairingInv, [Next]_vars
  PROVE  (ConnectionInv /\ PairingInv)'
<1>1. ConnectionInv' /\ LifecycleTypeOK'
  BY ConnectionNext DEF ConnectionInv, LifecycleInv
<1> SUFFICES Kept'
  <2>1. Kept' => TypeOK'
    BY <1>1
    DEF Kept, TypeOK, HostTyped, RecordsTyped, QueuesTyped, RequestsTyped, OwnersTyped, AclTyped
  <2> QED
    BY <1>1, <2>1 DEF Kept, PairingInv
<1>2. CASE React
  <2>1. CASE \E i \in DOMAIN waiting : HandleAgain(i)
    BY <2>1, HandleAgainStep
  <2> QED
    BY <1>2, <2>1, UpdateStep DEF React
<1>3. CASE SendUpdate
  BY <1>3, UpdateStep
<1>4. CASE BeginWrite \/ Refresh \/ \E o \in Owners : Revoke(o)
  BY <1>4, QueueingStep
<1>5. CASE EndAdd \/ FailWrite \/ Rollback \/ Revoked
  BY <1>5, AddEndStep, FailWriteStep, RollbackStep, RevokedStep
<1>6. CASE \E o \in Owners, q \in Requests, token \in 1..used.tokens : PairRequest(o, q, token)
  BY <1>6, PairRequestStep
<1>7. CASE \E o \in Owners : SessionFrame(o)
  BY <1>7, FrameStep
<1>8. CASE \E l \in lookups : Found(l)
  BY <1>8, FoundStep
<1>9. CASE IssueToken \/ ExpireToken \/ SwitchSession
  BY <1>9, IssueStep, ExpireStep, SwitchStep
<1>10. CASE \E run \in ops : Connect(run)
  BY <1>10, ConnectStep
<1>11. CASE Lifecycle \/ UNCHANGED vars
  <2>1. UNCHANGED <<storageVars, pairingVars, ownerVars, aclVars, used>>
    BY <1>11 DEF Lifecycle, vars
  <2> QED
    BY <2>1, StillStep
<1>12. CASE Close \/ Stop \/ Quit
  <2>1. OnDisconnected
    BY <1>12 DEF Close, Stop, Quit
  <2> QED
    BY <2>1, DetachStep
<1> QED
  BY <1>2, <1>3, <1>4, <1>5, <1>6, <1>7, <1>8, <1>9, <1>10, <1>11, <1>12 DEF Next

(* Every variable of the runtime has its type.                             *)
THEOREM TypeCorrect == Spec => []TypeOK
<1>1. PairingInv => TypeOK
  BY DEF PairingInv
<1> QED
  BY <1>1, ConnectionInit, ConnectionNext, PairingInit, PairingNext, PTL DEF Spec

(* An owner who was told pair_ok stays in peers.json until removePeer: what*)
(* conditionalRollbackPeer restores for an attempt that could not be       *)
(* confirmed never takes a paired owner's record away.                     *)
THEOREM PairedStays == Spec => []PairedUntilRevoked
<1>1. PairingInv => PairedUntilRevoked
  BY DEF PairingInv, RecordsInv
<1> QED
  BY <1>1, ConnectionInit, ConnectionNext, PairingInit, PairingNext, PTL DEF Spec

(* A token that reserveToken gave to a request is of that request only, and*)
(* pairs once, over releases, retries, new tokens and closed relays.       *)
THEOREM TokenServesOne == Spec => []TokenPairsOnce
<1>1. PairingInv => TokenPairsOnce
  BY DEF PairingInv, TokensInv
<1> QED
  BY <1>1, ConnectionInit, ConnectionNext, PairingInit, PairingNext, PTL DEF Spec

-----------------------------------------------------------------------------
(* What holds when pair_ok goes out.                                       *)

Durable(a) ==
  LET o == attempts[a].owner IN
  /\ peers'[o] = a
  /\ bindings'[o] = attempts[a].binding /\ attempts[a].client = active'
  /\ qr' # None /\ qr'.token = attempts[a].token

NothingPairs ==
  \A a \in DOMAIN attempts :
    attempts'[a].outcome = "paired" => attempts[a].outcome = "paired"

(* An update that the attempt a awaits is over; if a is confirmed by it,   *)
(* the look at the binding and the reservation was the latest.             *)
LEMMA ConfirmedIsDurable ==
  ASSUME PairingInv, updates # <<>>, Head(updates).by # 0, NEW sent,
         AfterUpdate(Head(updates).by, sent), updates' = Tail(updates),
         UNCHANGED <<lifecycleVars, peers, bindings>>
  PROVE  \A x \in DOMAIN attempts :
           attempts'[x].outcome = "paired" /\ attempts[x].outcome # "paired" => Durable(x)
<1> DEFINE a == Head(updates).by
<1>1. TypeOK /\ Serving /\ WrittenStands /\ TokensHeld
  BY DEF PairingInv, RecordsInv, TokensInv
<1>2. /\ OnlyChanges(a) /\ QrKeeps
      /\ Refreshed(a) \/ Confirmed(a) \/ Failed(a)
  BY <1>1, UpdateEnds
<1> HIDE DEF a
<1>3. ASSUME Confirmed(a)
      PROVE  Durable(a)
  <2>1. /\ a \in DOMAIN attempts /\ attempts[a].at = "updating"
        /\ bindings[attempts[a].owner] = attempts[a].binding
        /\ active = attempts[a].client
        /\ qr # None /\ qr.holder # None
        /\ qr.holder.reservation = a /\ qr.holder.status = "reserved"
    BY <1>2, <1>3
    DEF Confirmed, CanCommit, LifecycleIsCurrent, IsCurrent, IsReservationCurrent, Holds,
        OnlyChanges
  <2>2. peers[attempts[a].owner] = a
    BY <1>1, <2>1 DEF WrittenStands
  <2>3. attempts[a].token = qr.token
    BY <1>1, <2>1 DEF TokensHeld
  <2>4. qr' # None /\ qr'.token = qr.token
    BY <1>2, <1>3, <2>1 DEF Confirmed, QrKeeps
  <2> QED
    BY <2>1, <2>2, <2>3, <2>4 DEF Durable, lifecycleVars
<1>4. \A x \in DOMAIN attempts :
        attempts'[x].outcome = "paired" /\ attempts[x].outcome # "paired" => x = a /\ Confirmed(a)
  BY <1>2 DEF OnlyChanges, Refreshed, Failed
<1> QED
  BY <1>3, <1>4

LEMMA HandlePairsNothing ==
  ASSUME TypeOK, NEW o \in Owners, NEW c \in Nat, NEW q \in Requests, NEW token \in Nat \ {0},
         NEW others, Handle(c, o, q, token, others)
  PROVE  NothingPairs
<1>1. CASE UNCHANGED attempts
  BY <1>1 DEF NothingPairs
<1>2. CASE attempts' = Append(attempts, NewAttempt(c, o, q, token))
  <2>1. attempts \in Seq(Attempt)
    BY DEF TypeOK
  <2>2. \A a \in DOMAIN attempts : attempts'[a] = attempts[a]
    <3>1. /\ Len(attempts) \in Nat /\ DOMAIN attempts = 1..Len(attempts)
      BY <2>1, LenProperties
    <3> QED
      BY <1>2, <2>1, <3>1 DEF NewAttempt
  <2> QED
    BY <2>2 DEF NothingPairs
<1> QED
  BY <1>1, <1>2, HandleCases

LEMMA PairsDurably ==
  ASSUME ConnectionInv, PairingInv, [Next]_vars
  PROVE  \A a \in DOMAIN attempts :
           attempts'[a].outcome = "paired" /\ attempts[a].outcome # "paired" => Durable(a)
<1>1. TypeOK /\ Serving /\ HostTyped
  BY TypeParts DEF PairingInv, RecordsInv
<1>2. SUFFICES ASSUME ~NothingPairs
               PROVE  \A a \in DOMAIN attempts :
                        attempts'[a].outcome = "paired" /\ attempts[a].outcome # "paired"
                        => Durable(a)
  BY DEF NothingPairs
<1>3. UNCHANGED attempts => FALSE
  BY <1>2 DEF NothingPairs
<1>4. CASE StartUpdate
  <2>1. UNCHANGED <<lifecycleVars, peers, bindings>>
    BY <1>4 DEF StartUpdate, ownerVars
  <2>2. /\ updates # <<>> /\ Head(updates).by # 0
        /\ AfterUpdate(Head(updates).by, FALSE) /\ updates' = Tail(updates)
    BY <1>3, <1>4 DEF StartUpdate, pairingVars
  <2> QED
    BY <2>1, <2>2, ConfirmedIsDurable
<1>5. CASE SendUpdate
  <2> DEFINE sent == IsOpen(Head(updates).client) /\ IsCurrent(Head(updates).client)
  <2>1. UNCHANGED <<lifecycleVars, peers, bindings>>
    BY <1>5 DEF SendUpdate, ownerVars
  <2>2. /\ updates # <<>> /\ Head(updates).by # 0
        /\ AfterUpdate(Head(updates).by, sent) /\ updates' = Tail(updates)
    BY <1>3, <1>5 DEF SendUpdate, pairingVars
  <2> HIDE DEF sent
  <2> QED
    BY <2>1, <2>2, ConfirmedIsDurable
<1>6. CASE EndAdd
  <2>1. /\ OnlyChanges(Head(lane).by)
        /\ attempts'[Head(lane).by].outcome = attempts[Head(lane).by].outcome
    BY <1>1, <1>6, AddEnds
  <2> QED
    BY <1>2, <2>1 DEF NothingPairs, OnlyChanges
<1>7. CASE Rollback
  <2>1. /\ OnlyChanges(Head(lane).by)
        /\ attempts'[Head(lane).by].outcome \in {"stale", "undone", "kept"}
    BY <1>1, <1>7, RollbackEnds
  <2> QED
    BY <1>2, <2>1 DEF NothingPairs, OnlyChanges
<1>8. CASE FailWrite
  <2>1. Head(lane).kind = "add"
    BY <1>3, <1>8 DEF FailWrite
  <2>2. /\ OnlyChanges(Head(lane).by) /\ attempts'[Head(lane).by].outcome = "failed"
    BY <1>1, <1>8, <2>1, AddFails
  <2> QED
    BY <1>2, <2>2 DEF NothingPairs, OnlyChanges
<1>9. CASE \E i \in DOMAIN waiting : HandleAgain(i)
  <2> PICK i \in DOMAIN waiting : HandleAgain(i)
    BY <1>9
  <2>1. waiting[i] \in Waiting
    <3>1. waiting \in Seq(Waiting)
      BY <1>1 DEF TypeOK
    <3> QED
      BY <3>1, LenProperties
  <2>2. /\ waiting[i].owner \in Owners /\ waiting[i].client \in Nat
        /\ waiting[i].req \in Requests /\ waiting[i].token \in Nat \ {0}
    BY <2>1 DEF Waiting, Tokens
  <2> QED
    BY <1>1, <1>2, <2>2, HandlePairsNothing DEF HandleAgain
<1>10. CASE \E o \in Owners, q \in Requests, token \in 1..used.tokens : PairRequest(o, q, token)
  <2> PICK o \in Owners, q \in Requests, token \in 1..used.tokens : PairRequest(o, q, token)
    BY <1>10
  <2>1. active \in Nat /\ token \in Nat \ {0}
    <3>1. used.tokens \in Nat /\ active \in Nat
      BY <1>1, Used, ClientsTyped DEF TypeOK, LifecycleTypeOK
    <3> QED
      BY <3>1
  <2> QED
    BY <1>1, <1>2, <2>1, HandlePairsNothing DEF PairRequest
<1>11. CASE Close \/ Stop \/ Quit
  <2>1. AttemptsStay
    BY <1>1, <1>11, Detaching DEF Close, Stop, Quit
  <2> QED
    BY <1>2, <2>1 DEF NothingPairs, AttemptsStay
<1>12. CASE \/ BeginWrite \/ Revoked \/ IssueToken \/ ExpireToken \/ Refresh \/ SwitchSession
            \/ Lifecycle \/ UNCHANGED vars
            \/ \E o \in Owners : SessionFrame(o) \/ Revoke(o)
  BY <1>3, <1>12
  DEF BeginWrite, Revoked, IssueToken, ExpireToken, Refresh, SwitchSession, Lifecycle,
      SessionFrame, Revoke, vars, pairingVars
<1>13. CASE \/ \E l \in lookups : Found(l)
            \/ \E run \in ops : Connect(run)
  BY <1>3, <1>13 DEF Found, Connect, pairingVars
<1> QED
  BY <1>4, <1>5, <1>6, <1>7, <1>8, <1>9, <1>10, <1>11, <1>12, <1>13 DEF Next, React

(* When the coordinator sends pair_ok, the record of this very attempt is  *)
(* in peers.json, its binding is the owner's, its client is the active     *)
(* relay and the token is its own: revoke, rollback, /remote-pi pair and   *)
(* onDisconnected can each come between addPeer and the confirmation.      *)
THEOREM PairsWhatStands == Spec => PairOkIsDurable
<1>1. ConnectionInv /\ PairingInv /\ [Next]_vars =>
        [\A a \in DOMAIN attempts :
           attempts'[a].outcome = "paired" /\ attempts[a].outcome # "paired" =>
             LET o == attempts[a].owner IN
             /\ peers'[o] = a
             /\ bindings'[o] = attempts[a].binding /\ attempts[a].client = active'
             /\ qr' # None /\ qr'.token = attempts[a].token]_vars
  BY PairsDurably DEF Durable
<1> QED
  BY <1>1, ConnectionInit, ConnectionNext, PairingInit, PairingNext, PTL
  DEF Spec, PairOkIsDurable

-----------------------------------------------------------------------------
(* At rest: what is queued when peers.json or the ACL of the relay is not  *)
(* yet what it will be.                                                    *)

(* An attempt whose record can still be confirmed or rolled back, or was   *)
(* not rolled back for a reason.                                           *)
Stands(b, att) ==
  /\ b \in DOMAIN att
  /\ att[b].at # "adding"
  /\ \/ att[b].at \in {"updating", "rolling"}
     \/ att[b].outcome \in {"paired", "kept", "stale"}

(* Every record stands, and so does the one that a rollback would restore. *)
RecordsStand ==
  /\ \A o \in Owners :
       peers[o] \notin {None, 0} => Stands(peers[o], attempts) /\ attempts[peers[o]].owner = o
  /\ \A a \in DOMAIN attempts :
       LET o == attempts[a].owner
           p == attempts[a].previous IN
       /\ attempts[a].at \in {"updating", "rolling"} /\ peers[o] = a
       /\ slotToken[o] = attempts[a].slotToken /\ p \notin {None, 0}
       => Stands(p, attempts) /\ attempts[p].owner = o /\ p # a

(* An attempt that is not over has its rollback or its update queued.      *)
RollbackQueued(l, att) ==
  \A a \in DOMAIN att : att[a].at = "rolling" =>
    \E i \in DOMAIN l : l[i].kind = "rollback" /\ l[i].by = a

UpdateQueued(u, att) ==
  \A a \in DOMAIN att : att[a].at = "updating" => \E i \in DOMAIN u : u[i].by = a

SettlesInv ==
  RecordsStand /\ RollbackQueued(lane, attempts) /\ UpdateQueued(updates, attempts)

(* Queues are popped and pushed.                                           *)
LEMMA RollbackPops ==
  ASSUME NEW l \in Seq(Mutation), l # <<>>, NEW att, NEW att2, RollbackQueued(l, att),
         DOMAIN att2 = DOMAIN att,
         \A x \in DOMAIN att : att2[x].at = "rolling" =>
           att[x].at = "rolling" /\ (Head(l).kind # "rollback" \/ Head(l).by # x)
  PROVE  RollbackQueued(Tail(l), att2)
<1>1. /\ Head(l) = l[1]
      /\ \A i \in DOMAIN l : i # 1 => i - 1 \in DOMAIN Tail(l) /\ Tail(l)[i - 1] = l[i]
  BY Tails
<1> SUFFICES ASSUME NEW a \in DOMAIN att, att2[a].at = "rolling"
             PROVE  \E i \in DOMAIN Tail(l) : Tail(l)[i].kind = "rollback" /\ Tail(l)[i].by = a
  BY DEF RollbackQueued
<1>2. PICK i \in DOMAIN l : l[i].kind = "rollback" /\ l[i].by = a
  BY DEF RollbackQueued
<1>3. i # 1
  BY <1>1, <1>2
<1> QED
  BY <1>1, <1>2, <1>3

LEMMA RollbackPushes ==
  ASSUME NEW l \in Seq(Mutation), NEW m \in Mutation, NEW att, NEW att2,
         RollbackQueued(l, att),
         \A x \in DOMAIN att2 : att2[x].at = "rolling" =>
           (x \in DOMAIN att /\ att[x].at = "rolling") \/ (m.kind = "rollback" /\ m.by = x)
  PROVE  RollbackQueued(Append(l, m), att2)
<1>1. /\ DOMAIN Append(l, m) = DOMAIN l \cup {Len(l) + 1}
      /\ \A i \in DOMAIN l : Append(l, m)[i] = l[i]
      /\ Append(l, m)[Len(l) + 1] = m
  BY Appended
<1> QED
  BY <1>1 DEF RollbackQueued

LEMMA RollbackStays ==
  ASSUME NEW l, NEW l2, NEW att, NEW att2, RollbackQueued(l, att), DOMAIN l2 = DOMAIN l,
         \A i \in DOMAIN l : l2[i].kind = l[i].kind /\ l2[i].by = l[i].by,
         \A x \in DOMAIN att2 : att2[x].at = "rolling" =>
           x \in DOMAIN att /\ att[x].at = "rolling"
  PROVE  RollbackQueued(l2, att2)
  BY DEF RollbackQueued

LEMMA UpdateLeaves ==
  ASSUME NEW u \in Seq(Update), u # <<>>, NEW att, NEW att2, UpdateQueued(u, att),
         DOMAIN att2 = DOMAIN att,
         \A x \in DOMAIN att : att2[x].at = "updating" =>
           att[x].at = "updating" /\ Head(u).by # x
  PROVE  UpdateQueued(Tail(u), att2)
<1>1. /\ Head(u) = u[1]
      /\ \A i \in DOMAIN u : i # 1 => i - 1 \in DOMAIN Tail(u) /\ Tail(u)[i - 1] = u[i]
  BY Tails
<1> SUFFICES ASSUME NEW a \in DOMAIN att, att2[a].at = "updating"
             PROVE  \E i \in DOMAIN Tail(u) : Tail(u)[i].by = a
  BY DEF UpdateQueued
<1>2. PICK i \in DOMAIN u : u[i].by = a
  BY DEF UpdateQueued
<1>3. i # 1
  BY <1>1, <1>2
<1> QED
  BY <1>1, <1>2, <1>3

LEMMA UpdateEnters ==
  ASSUME NEW u \in Seq(Update), NEW e \in Update, NEW att, NEW att2, UpdateQueued(u, att),
         \A x \in DOMAIN att2 : att2[x].at = "updating" =>
           (x \in DOMAIN att /\ att[x].at = "updating") \/ e.by = x
  PROVE  UpdateQueued(Append(u, e), att2)
<1>1. /\ DOMAIN Append(u, e) = DOMAIN u \cup {Len(u) + 1}
      /\ \A i \in DOMAIN u : Append(u, e)[i] = u[i]
      /\ Append(u, e)[Len(u) + 1] = e
  BY Appended
<1> QED
  BY <1>1 DEF UpdateQueued

LEMMA UpdateRemains ==
  ASSUME NEW u, NEW u2, NEW att, NEW att2, UpdateQueued(u, att), DOMAIN u2 = DOMAIN u,
         \A i \in DOMAIN u : u2[i].by = u[i].by,
         \A x \in DOMAIN att2 : att2[x].at = "updating" =>
           x \in DOMAIN att /\ att[x].at = "updating"
  PROVE  UpdateQueued(u2, att2)
  BY DEF UpdateQueued

(* The steps in which no attempt goes on.                                  *)
LEMMA StayingSettles ==
  ASSUME PairingInv, SettlesInv, AttemptsStay, LaneGoesOn, UpdatesGoOn,
         UNCHANGED <<peers, slotToken>> \/ RevokedOwner
  PROVE  SettlesInv'
<1>1. /\ lane \in Seq(Mutation) /\ updates \in Seq(Update)
      /\ peers \in [Owners -> Optional(Nat)] /\ slotToken \in [Owners -> Nat]
      /\ RollbackKeepsPaired
      /\ RollbackQueued(lane, attempts) /\ UpdateQueued(updates, attempts) /\ RecordsStand
  BY DEF PairingInv, TypeOK, SettlesInv, RecordsInv
<1>2. /\ DOMAIN attempts' = DOMAIN attempts
      /\ \A a \in DOMAIN attempts :
           /\ attempts'[a].owner = attempts[a].owner /\ attempts'[a].at = attempts[a].at
           /\ attempts'[a].outcome = attempts[a].outcome
           /\ attempts'[a].slotToken = attempts[a].slotToken
           /\ attempts'[a].previous = attempts[a].previous
  BY DEF AttemptsStay, SameRequest
<1>3. \A a \in DOMAIN attempts : attempts[a].owner \in Owners /\ a # None /\ a # 0
  BY Attempted DEF PairingInv, Attempt
<1>4. RollbackQueued(lane', attempts')
  <2>1. CASE lane' = lane
    BY <1>1, <1>2, <2>1, RollbackStays
  <2>2. CASE lane # <<>> /\ Head(lane).kind = "remove" /\ lane' = Tail(lane)
    <3>1. RollbackQueued(Tail(lane), attempts')
      BY <1>1, <1>2, <2>2, RollbackPops
    <3> QED
      BY <2>2, <3>1
  <2>3. CASE \E o \in Owners : lane' = Append(lane, Mutating("remove", o, 0))
    <3>1. PICK o \in Owners : lane' = Append(lane, Mutating("remove", o, 0))
      BY <2>3
    <3>2. 0 \in Nat
      OBVIOUS
    <3>3. Mutating("remove", o, 0) \in Mutation
      BY <3>2, QueuedTyped
    <3>4. RollbackQueued(Append(lane, Mutating("remove", o, 0)), attempts')
      BY <1>1, <1>2, <3>3, RollbackPushes
    <3> QED
      BY <3>1, <3>4
  <2>4. CASE lane # <<>> /\ lane' = [lane EXCEPT ![1].at = "writing"]
    <3>1. 1 \in DOMAIN lane /\ lane[1] \in Mutation
      BY <1>1, <2>4, Tails
    <3>2. /\ DOMAIN lane' = DOMAIN lane
          /\ \A i \in DOMAIN lane : lane'[i].kind = lane[i].kind /\ lane'[i].by = lane[i].by
      BY <2>4, <3>1 DEF Mutation
    <3> QED
      BY <1>1, <1>2, <3>2, RollbackStays
  <2> QED
    BY <2>1, <2>2, <2>3, <2>4 DEF LaneGoesOn
<1>5. UpdateQueued(updates', attempts')
  <2>1. CASE updates' = updates
    BY <1>1, <1>2, <2>1, UpdateRemains
  <2>2. CASE updates # <<>> /\ Head(updates).by = 0 /\ updates' = Tail(updates)
    <3>1. \A x \in DOMAIN attempts : Head(updates).by # x
      BY <1>3, <2>2
    <3>2. UpdateQueued(Tail(updates), attempts')
      BY <1>1, <1>2, <2>2, <3>1, UpdateLeaves
    <3> QED
      BY <2>2, <3>2
  <2>3. CASE \E c \in Nat : updates' = Append(updates, Updating(c, 0))
    <3>1. PICK c \in Nat : updates' = Append(updates, Updating(c, 0))
      BY <2>3
    <3>2. 0 \in Nat
      OBVIOUS
    <3>3. Updating(c, 0) \in Update
      BY <3>2, QueuedTyped
    <3>4. UpdateQueued(Append(updates, Updating(c, 0)), attempts')
      BY <1>1, <1>2, <3>3, UpdateEnters
    <3> QED
      BY <3>1, <3>4
  <2>4. CASE /\ updates # <<>>
             /\ \E c \in Nat, seen \in SUBSET SUBSET Owners :
                  updates' = [updates EXCEPT ![1].at = "reading", ![1].client = c, ![1].seen = seen]
    <3>1. PICK c \in Nat, seen \in SUBSET SUBSET Owners :
            updates' = [updates EXCEPT ![1].at = "reading", ![1].client = c, ![1].seen = seen]
      BY <2>4
    <3>2. 1 \in DOMAIN updates /\ updates[1] \in Update
      BY <1>1, <2>4, Tails
    <3>3. /\ DOMAIN updates' = DOMAIN updates
          /\ \A i \in DOMAIN updates : updates'[i].by = updates[i].by
      BY <3>1, <3>2 DEF Update
    <3> QED
      BY <1>1, <1>2, <3>3, UpdateRemains
  <2> QED
    BY <2>1, <2>2, <2>3, <2>4 DEF UpdatesGoOn
<1>6. \A b : Stands(b, attempts) => Stands(b, attempts')
  BY <1>2 DEF Stands
<1>7. RecordsStand'
  <2>1. CASE UNCHANGED <<peers, slotToken>>
    BY <1>1, <1>2, <1>6, <2>1 DEF RecordsStand, Stands
  <2>2. CASE RevokedOwner
    <3> PICK o \in Owners :
          /\ peers' = [peers EXCEPT ![o] = None]
          /\ slotToken' = IF peers[o] = None THEN slotToken ELSE [slotToken EXCEPT ![o] = @ + 1]
      BY <2>2 DEF RevokedOwner
    <3>1. /\ peers'[o] = None
          /\ \A p \in Owners : p # o => peers'[p] = peers[p] /\ slotToken'[p] = slotToken[p]
      BY <1>1
    <3>2. \A p \in Owners : peers'[p] \notin {None, 0} =>
            Stands(peers'[p], attempts') /\ attempts'[peers'[p]].owner = p
      BY <1>1, <1>2, <1>6, <3>1 DEF RecordsStand, Stands
    <3>3. ASSUME NEW a \in DOMAIN attempts,
                 attempts[a].at \in {"updating", "rolling"}, peers'[attempts[a].owner] = a,
                 slotToken'[attempts[a].owner] = attempts[a].slotToken,
                 attempts[a].previous \notin {None, 0}
          PROVE  /\ Stands(attempts'[a].previous, attempts')
                 /\ attempts'[attempts[a].previous].owner = attempts[a].owner
                 /\ attempts[a].previous # a
      <4>1. attempts[a].owner # o
        BY <1>3, <3>1, <3>3
      <4>2. peers[attempts[a].owner] = a /\ slotToken[attempts[a].owner] = attempts[a].slotToken
        BY <1>3, <3>1, <3>3, <4>1
      <4> QED
        BY <1>1, <1>2, <1>6, <3>3, <4>2 DEF RecordsStand, Stands
    <3> QED
      BY <1>2, <3>2, <3>3 DEF RecordsStand
  <2> QED
    BY <2>1, <2>2
<1> QED
  BY <1>4, <1>5, <1>7 DEF SettlesInv

LEMMA SettlingParts ==
  ASSUME PairingInv, SettlesInv
  PROVE  /\ TypeOK /\ Serving /\ RollbackKeepsPaired
         /\ lane \in Seq(Mutation) /\ updates \in Seq(Update)
         /\ peers \in [Owners -> Optional(Nat)] /\ slotToken \in [Owners -> Nat]
         /\ RollbackQueued(lane, attempts) /\ UpdateQueued(updates, attempts) /\ RecordsStand
         /\ \A a \in DOMAIN attempts :
              /\ attempts[a].owner \in Owners /\ a # None /\ a # 0 /\ a \in Nat
              /\ attempts[a].slotToken \in Nat
              /\ attempts[a].slotToken <= slotToken[attempts[a].owner]
<1>1. /\ TypeOK /\ Serving /\ RollbackKeepsPaired
      /\ RollbackQueued(lane, attempts) /\ UpdateQueued(updates, attempts) /\ RecordsStand
  BY DEF PairingInv, SettlesInv, RecordsInv
<1>2. \A a \in DOMAIN attempts :
        /\ attempts[a].owner \in Owners /\ a # None /\ a # 0 /\ a \in Nat
        /\ attempts[a].slotToken \in Nat
  BY <1>1, Attempted DEF Attempt
<1>3. /\ lane \in Seq(Mutation) /\ updates \in Seq(Update)
      /\ peers \in [Owners -> Optional(Nat)] /\ slotToken \in [Owners -> Nat]
  BY <1>1 DEF TypeOK
<1> QED
  BY <1>1, <1>2, <1>3 DEF RollbackKeepsPaired

(* What one attempt that goes on leaves alone.                             *)
LEMMA OneGoesOn ==
  ASSUME NEW a, OnlyChanges(a), attempts'[a].slotToken = attempts[a].slotToken,
         attempts'[a].previous = attempts[a].previous
  PROVE  /\ DOMAIN attempts' = DOMAIN attempts /\ a \in DOMAIN attempts
         /\ \A x \in DOMAIN attempts :
              /\ attempts'[x].owner = attempts[x].owner
              /\ attempts'[x].slotToken = attempts[x].slotToken
              /\ attempts'[x].previous = attempts[x].previous
              /\ x # a => attempts'[x] = attempts[x]
  BY DEF OnlyChanges, SameRequest

LEMMA UpdateEndSettles ==
  ASSUME PairingInv, SettlesInv, updates # <<>>, Head(updates).by # 0, NEW sent,
         AfterUpdate(Head(updates).by, sent), updates' = Tail(updates),
         UNCHANGED <<peers, slotToken>>
  PROVE  SettlesInv'
<1> DEFINE a == Head(updates).by
           m == Mutating("rollback", attempts[a].owner, a)
<1>1. /\ TypeOK /\ Serving /\ lane \in Seq(Mutation) /\ updates \in Seq(Update)
      /\ RollbackQueued(lane, attempts) /\ UpdateQueued(updates, attempts) /\ RecordsStand
      /\ \A x \in DOMAIN attempts : attempts[x].owner \in Owners /\ x \in Nat
  BY SettlingParts
<1>2. /\ OnlyChanges(a)
      /\ attempts'[a].slotToken = attempts[a].slotToken
      /\ attempts'[a].previous = attempts[a].previous
      /\ Refreshed(a) \/ Confirmed(a) \/ Failed(a)
  BY <1>1, UpdateEnds
<1>3. /\ DOMAIN attempts' = DOMAIN attempts /\ a \in DOMAIN attempts
      /\ \A x \in DOMAIN attempts :
           /\ attempts'[x].owner = attempts[x].owner
           /\ attempts'[x].slotToken = attempts[x].slotToken
           /\ attempts'[x].previous = attempts[x].previous
           /\ x # a => attempts'[x] = attempts[x]
  BY <1>2, OneGoesOn
<1>4. attempts'[a].at \in {"rolling", "done"} /\ (attempts'[a].at = "rolling" => lane' = Append(lane, m))
  <2>1. attempts'[a].at \in {"rolling", "done"}
    BY <1>2 DEF Refreshed, Confirmed, Failed
  <2>2. lane' = Append(lane, m) \/ Finish(a, attempts[a].outcome) \/ Finish(a, "paired")
    BY DEF AfterUpdate, a, m
  <2>3. Finish(a, attempts[a].outcome) \/ Finish(a, "paired") => attempts'[a].at = "done"
    <3>1. attempts[a] \in Attempt
      BY <1>1, <1>3, Attempted
    <3> HIDE DEF a
    <3> QED
      BY <1>3, <3>1 DEF Finish, Attempt
  <2> QED
    BY <2>1, <2>2, <2>3
<1>5. lane' = lane \/ lane' = Append(lane, m)
  BY DEF AfterUpdate, a, m
<1>6. m \in Mutation /\ m.kind = "rollback" /\ m.by = a
  BY <1>1, <1>3, QueuedTyped
<1>7. RollbackQueued(lane', attempts')
  <2> HIDE DEF m, a
  <2>1. CASE attempts'[a].at = "rolling"
    <3>1. RollbackQueued(Append(lane, m), attempts')
      BY <1>1, <1>3, <1>6, RollbackPushes
    <3> QED
      BY <1>4, <2>1, <3>1
  <2>2. CASE attempts'[a].at # "rolling"
    <3>1. \A x \in DOMAIN attempts' : attempts'[x].at = "rolling" =>
            x \in DOMAIN attempts /\ attempts[x].at = "rolling"
      BY <1>3, <2>2
    <3>2. RollbackQueued(lane, attempts')
      BY <1>1, <3>1, RollbackStays
    <3>3. RollbackQueued(Append(lane, m), attempts')
      BY <1>1, <1>6, <3>1, RollbackPushes
    <3> QED
      BY <1>5, <3>2, <3>3
  <2> QED
    BY <2>1, <2>2
<1>8. UpdateQueued(updates', attempts')
  <2>1. \A x \in DOMAIN attempts : attempts'[x].at = "updating" =>
          attempts[x].at = "updating" /\ Head(updates).by # x
    BY <1>3, <1>4
  <2>2. UpdateQueued(Tail(updates), attempts')
    BY ONLY <1>1, <1>3, <2>1, updates # <<>>, UpdateLeaves
  <2> QED
    BY <2>2
<1> HIDE DEF a, m
<1>9. \A b : Stands(b, attempts) => Stands(b, attempts')
  BY <1>2, <1>3 DEF Stands, Refreshed, Confirmed, Failed
<1>10. \A x \in DOMAIN attempts : attempts'[x].at \in {"updating", "rolling"} =>
         attempts[x].at \in {"updating", "rolling"}
  BY <1>2, <1>3 DEF Refreshed, Confirmed, Failed
<1>11. RecordsStand'
  BY <1>1, <1>3, <1>9, <1>10 DEF RecordsStand, Stands
<1> QED
  BY <1>7, <1>8, <1>11 DEF SettlesInv

(* A record is written over another, which stands.                         *)
LEMMA AddEndSettles ==
  ASSUME PairingInv, SettlesInv, EndAdd
  PROVE  SettlesInv'
<1> DEFINE a == Head(lane).by
           o == attempts[a].owner
           u == Updating(attempts[a].client, a)
           m == Mutating("rollback", o, a)
<1>1. /\ TypeOK /\ Serving /\ lane \in Seq(Mutation) /\ updates \in Seq(Update)
      /\ peers \in [Owners -> Optional(Nat)]
      /\ RollbackQueued(lane, attempts) /\ UpdateQueued(updates, attempts) /\ RecordsStand
      /\ \A x \in DOMAIN attempts :
           attempts[x].owner \in Owners /\ x # None /\ x # 0 /\ x \in Nat
  BY SettlingParts
<1>2. /\ OnlyChanges(a) /\ attempts[a].at = "adding" /\ attempts'[a].at \in {"updating", "rolling"}
      /\ attempts'[a].previous = peers[o]
      /\ o \in Owners /\ peers' = [peers EXCEPT ![o] = a]
      /\ slotToken' = [slotToken EXCEPT ![o] = @ + 1]
  BY <1>1, AddEnds
<1>3. /\ lane # <<>> /\ Head(lane).kind = "add" /\ AfterAdd(a, peers[Head(lane).owner])
  BY DEF EndAdd, Writing
<1>4. attempts[a].client \in Nat /\ a \in DOMAIN attempts /\ a \in Nat
  BY <1>1, <1>2, Attempted DEF OnlyChanges, Attempt
<1>5. /\ u \in Update /\ u.by = a
      /\ m \in Mutation /\ m.kind = "rollback" /\ m.by = a
      /\ Tail(lane) \in Seq(Mutation)
  BY <1>1, <1>2, <1>3, <1>4, QueuedTyped, Tails
<1>6. \/ /\ attempts'[a].at = "updating"
         /\ updates' = Append(updates, u) /\ lane' = Tail(lane)
      \/ /\ attempts'[a].at = "rolling"
         /\ updates' = updates /\ lane' = Append(Tail(lane), m)
  <2>1. attempts[a] \in Attempt
    BY <1>1, <1>4, Attempted
  <2>2. attempts'[a].at = IF CanCommit(a) THEN "updating" ELSE "rolling"
    <3> HIDE DEF a, m, u
    <3> QED
      BY <1>3, <1>4, <2>1 DEF AfterAdd, Attempt
  <2> QED
    BY <1>3, <2>2 DEF AfterAdd, u, m
<1> HIDE DEF a, o, u, m
<1>7. /\ DOMAIN attempts' = DOMAIN attempts
      /\ \A x \in DOMAIN attempts :
           /\ attempts'[x].owner = attempts[x].owner
           /\ x # a => attempts'[x] = attempts[x]
  BY <1>2 DEF OnlyChanges, SameRequest
<1>8. RollbackQueued(lane', attempts')
  <2>1. CASE attempts'[a].at = "updating" /\ lane' = Tail(lane)
    <3>1. RollbackQueued(Tail(lane), attempts')
      BY <1>1, <1>3, <1>7, <2>1, RollbackPops
    <3> QED
      BY <2>1, <3>1
  <2>2. CASE attempts'[a].at = "rolling" /\ lane' = Append(Tail(lane), m)
    <3>1. RollbackQueued(Tail(lane), attempts)
      BY <1>1, <1>3, RollbackPops
    <3>2. \A x \in DOMAIN attempts' : attempts'[x].at = "rolling" =>
            (x \in DOMAIN attempts /\ attempts[x].at = "rolling")
              \/ (m.kind = "rollback" /\ m.by = x)
      BY <1>5, <1>7
    <3>3. Tail(lane) \in Seq(Mutation) /\ m \in Mutation
      BY <1>5
    <3>4. RollbackQueued(Append(Tail(lane), m), attempts')
      BY ONLY <3>1, <3>2, <3>3, RollbackPushes
    <3> QED
      BY <2>2, <3>4
  <2> QED
    BY <1>6, <2>1, <2>2
<1>9. UpdateQueued(updates', attempts')
  <2>1. CASE attempts'[a].at = "updating" /\ updates' = Append(updates, u)
    <3>1. UpdateQueued(Append(updates, u), attempts')
      BY <1>1, <1>5, <1>7, UpdateEnters
    <3> QED
      BY <2>1, <3>1
  <2>2. CASE attempts'[a].at = "rolling" /\ updates' = updates
    <3>1. \A x \in DOMAIN attempts' : attempts'[x].at = "updating" =>
            x \in DOMAIN attempts /\ attempts[x].at = "updating"
      BY <1>7, <2>2
    <3>2. UpdateQueued(updates, attempts')
      BY <1>1, <3>1, UpdateRemains
    <3> QED
      BY <2>2, <3>2
  <2> QED
    BY <1>6, <2>1, <2>2
<1>10. \A b : Stands(b, attempts) => Stands(b, attempts') /\ b # a
  BY <1>2, <1>7 DEF Stands
<1>11. Stands(a, attempts')
  BY <1>2, <1>4, <1>7 DEF Stands
<1>12. \A p \in Owners : peers'[p] \notin {None, 0} =>
         Stands(peers'[p], attempts') /\ attempts'[peers'[p]].owner = p
  <2> SUFFICES ASSUME NEW p \in Owners, peers'[p] \notin {None, 0}
               PROVE  Stands(peers'[p], attempts') /\ attempts'[peers'[p]].owner = p
    OBVIOUS
  <2>1. CASE p = o
    <3>1. peers'[p] = a
      BY <1>1, <1>2, <2>1
    <3>2. attempts'[a].owner = p
      BY <1>4, <1>7, <2>1 DEF o
    <3> QED
      BY <1>11, <3>1, <3>2 DEF Stands
  <2>2. CASE p # o
    <3>1. peers'[p] = peers[p]
      BY <1>1, <1>2, <2>2
    <3>2. Stands(peers[p], attempts) /\ attempts[peers[p]].owner = p
      BY <1>1, <3>1 DEF RecordsStand
    <3>3. Stands(peers[p], attempts') /\ attempts'[peers[p]].owner = p
      BY <1>7, <1>10, <3>2 DEF Stands
    <3> QED
      BY <3>1, <3>3 DEF Stands
  <2> QED
    BY <2>1, <2>2
<1>13. ASSUME NEW x \in DOMAIN attempts, attempts'[x].at \in {"updating", "rolling"},
              peers'[attempts'[x].owner] = x,
              slotToken'[attempts'[x].owner] = attempts'[x].slotToken,
              attempts'[x].previous \notin {None, 0}
       PROVE  /\ Stands(attempts'[x].previous, attempts')
              /\ attempts'[attempts'[x].previous].owner = attempts'[x].owner
              /\ attempts'[x].previous # x
  <2>1. CASE x = a
    <3>1. Stands(peers[o], attempts) /\ attempts[peers[o]].owner = o /\ attempts'[x].previous = peers[o]
      BY <1>1, <1>2, <1>13, <2>1 DEF RecordsStand
    <3>2. Stands(peers[o], attempts') /\ attempts'[peers[o]].owner = o /\ peers[o] # a
      BY <1>7, <1>10, <3>1 DEF Stands
    <3>3. attempts'[a].owner = o
      BY <1>4, <1>7 DEF o
    <3> QED
      BY <2>1, <3>1, <3>2, <3>3 DEF Stands
  <2>2. CASE x # a
    <3>1. attempts'[x] = attempts[x] /\ attempts[x].owner \in Owners
      BY <1>1, <1>7, <2>2
    <3>2. attempts[x].owner # o
      BY <1>1, <1>2, <1>13, <2>2, <3>1
    <3>3. peers[attempts[x].owner] = x /\ slotToken[attempts[x].owner] = attempts[x].slotToken
      BY <1>2, <1>13, <3>1, <3>2, SettlingParts
    <3>4. /\ Stands(attempts[x].previous, attempts)
          /\ attempts[attempts[x].previous].owner = attempts[x].owner
          /\ attempts[x].previous # x
      BY <1>1, <1>13, <3>1, <3>3 DEF RecordsStand
    <3>5. /\ Stands(attempts[x].previous, attempts')
          /\ attempts'[attempts[x].previous].owner = attempts[x].owner
      BY <1>7, <1>10, <3>4 DEF Stands
    <3> QED
      BY <3>1, <3>4, <3>5 DEF Stands
  <2> QED
    BY <2>1, <2>2
<1>14. RecordsStand'
  BY <1>7, <1>12, <1>13 DEF RecordsStand
<1> QED
  BY <1>8, <1>9, <1>14 DEF SettlesInv

LEMMA RollbackSettles ==
  ASSUME PairingInv, SettlesInv, Rollback
  PROVE  SettlesInv'
<1> DEFINE a == Head(lane).by
           o == attempts[a].owner
           u == Updating(0, a)
<1>1. /\ TypeOK /\ Serving /\ lane \in Seq(Mutation) /\ updates \in Seq(Update)
      /\ peers \in [Owners -> Optional(Nat)] /\ slotToken \in [Owners -> Nat]
      /\ RollbackQueued(lane, attempts) /\ UpdateQueued(updates, attempts) /\ RecordsStand
      /\ \A x \in DOMAIN attempts :
           /\ attempts[x].owner \in Owners /\ x # None /\ x # 0 /\ x \in Nat
           /\ attempts[x].slotToken \in Nat
           /\ attempts[x].slotToken <= slotToken[attempts[x].owner]
  BY SettlingParts
<1>2. /\ OnlyChanges(a) /\ attempts[a].at = "rolling" /\ attempts'[a].at = "refreshing"
      /\ attempts'[a].outcome \in {"stale", "undone", "kept"}
      /\ attempts'[a].slotToken = attempts[a].slotToken
      /\ attempts'[a].previous = attempts[a].previous
      /\ o \in Owners
      /\ \/ UNCHANGED <<peers, slotToken>>
         \/ /\ peers[o] = a /\ slotToken[o] = attempts[a].slotToken
            /\ peers' = [peers EXCEPT ![o] = attempts[a].previous]
            /\ slotToken' = [slotToken EXCEPT ![o] = @ + 1]
  BY <1>1, RollbackEnds
<1>3. /\ lane # <<>> /\ Head(lane).kind = "rollback" /\ Head(lane).owner = o
      /\ updates' = Append(updates, u) /\ lane' = Tail(lane)
  <2>1. /\ lane # <<>> /\ Head(lane).kind = "rollback"
        /\ updates' = Append(updates, u) /\ lane' = Tail(lane)
    BY DEF Rollback
  <2>2. Head(lane).owner = o
    BY <1>1, <2>1, Tails DEF Serving, ServesLane, Awaits
  <2> QED
    BY <2>1, <2>2
<1>4. a \in DOMAIN attempts /\ a \in Nat /\ u \in Update /\ u.by = a
  BY <1>1, <1>2, QueuedTyped DEF OnlyChanges
<1>5. attempts'[a].outcome = "undone" => ~UNCHANGED <<peers, slotToken>>
  <2>1. PICK outcome \in {RollbackOutcome(a), "kept"} :
          /\ IF outcome = "undone"
             THEN /\ peers' = [peers EXCEPT ![o] = attempts[a].previous]
                  /\ slotToken' = [slotToken EXCEPT ![o] = @ + 1]
             ELSE UNCHANGED <<peers, slotToken>>
          /\ attempts' = [attempts EXCEPT ![a].at = "refreshing", ![a].outcome = outcome]
    BY <1>3 DEF Rollback
  <2>2. attempts[a] \in Attempt
    BY <1>1, <1>4, Attempted
  <2> HIDE DEF a
  <2>3. attempts'[a].outcome = outcome
    BY <1>4, <2>1, <2>2 DEF Attempt
  <2>4. slotToken[o] \in Nat /\ slotToken[o] # slotToken[o] + 1
    BY <1>1, <1>2
  <2> QED
    BY <1>1, <1>2, <2>1, <2>3, <2>4
<1> HIDE DEF a, o, u
<1>6. /\ DOMAIN attempts' = DOMAIN attempts
      /\ \A x \in DOMAIN attempts :
           /\ attempts'[x].owner = attempts[x].owner
           /\ attempts'[x].slotToken = attempts[x].slotToken
           /\ attempts'[x].previous = attempts[x].previous
           /\ x # a => attempts'[x] = attempts[x]
  BY <1>2, OneGoesOn
<1>7. RollbackQueued(lane', attempts')
  <2>1. \A x \in DOMAIN attempts : attempts'[x].at = "rolling" =>
          attempts[x].at = "rolling" /\ (Head(lane).kind # "rollback" \/ Head(lane).by # x)
    BY <1>2, <1>6 DEF a
  <2>2. RollbackQueued(Tail(lane), attempts')
    BY ONLY <1>1, <1>3, <1>6, <2>1, RollbackPops
  <2> QED
    BY <1>3, <2>2
<1>8. UpdateQueued(updates', attempts')
  <2>1. \A x \in DOMAIN attempts' : attempts'[x].at = "updating" =>
          (x \in DOMAIN attempts /\ attempts[x].at = "updating") \/ u.by = x
    BY <1>2, <1>6
  <2>2. UpdateQueued(updates, attempts) /\ updates \in Seq(Update) /\ u \in Update
    BY <1>1, <1>4
  <2>3. UpdateQueued(Append(updates, u), attempts')
    BY ONLY <2>1, <2>2, UpdateEnters
  <2> QED
    BY <1>3, <2>3
<1>9. \A b : Stands(b, attempts) /\ b # a => Stands(b, attempts')
  BY <1>6 DEF Stands
<1>10. attempts'[a].outcome # "undone" => Stands(a, attempts')
  BY <1>2, <1>4, <1>6 DEF Stands
<1>11. \A x \in DOMAIN attempts : attempts'[x].at \in {"updating", "rolling"} =>
         x # a /\ attempts[x].at \in {"updating", "rolling"}
  BY <1>2, <1>6
<1>12. RecordsStand'
  <2>1. CASE UNCHANGED <<peers, slotToken>>
    <3>1. \A b : Stands(b, attempts) => Stands(b, attempts')
      BY <1>5, <1>9, <1>10, <2>1
    <3> QED
      BY <1>1, <1>6, <1>11, <2>1, <3>1 DEF RecordsStand, Stands
  <2>2. CASE /\ peers[o] = a /\ slotToken[o] = attempts[a].slotToken
             /\ peers' = [peers EXCEPT ![o] = attempts[a].previous]
             /\ slotToken' = [slotToken EXCEPT ![o] = @ + 1]
    <3>1. /\ peers'[o] = attempts[a].previous /\ slotToken'[o] = slotToken[o] + 1
          /\ slotToken[o] \in Nat
          /\ \A p \in Owners : p # o => peers'[p] = peers[p] /\ slotToken'[p] = slotToken[p]
      BY <1>1, <1>2, <2>2
    <3>2. attempts[a].owner = o
      BY DEF o
    <3>3. attempts[a].previous \notin {None, 0} =>
            /\ Stands(attempts[a].previous, attempts) /\ attempts[attempts[a].previous].owner = o
            /\ attempts[a].previous # a
      BY <1>1, <1>2, <1>4, <2>2, <3>2 DEF RecordsStand
    <3>4. \A p \in Owners : p # o /\ peers[p] \notin {None, 0} =>
            Stands(peers[p], attempts) /\ attempts[peers[p]].owner = p /\ peers[p] # a
      BY <1>1, <3>2 DEF RecordsStand
    <3>5. \A p \in Owners : peers'[p] \notin {None, 0} =>
            Stands(peers'[p], attempts') /\ attempts'[peers'[p]].owner = p
      BY <1>6, <1>9, <3>1, <3>3, <3>4 DEF Stands
    <3>6. ASSUME NEW x \in DOMAIN attempts, attempts'[x].at \in {"updating", "rolling"},
                 peers'[attempts'[x].owner] = x,
                 slotToken'[attempts'[x].owner] = attempts'[x].slotToken,
                 attempts'[x].previous \notin {None, 0}
          PROVE  /\ Stands(attempts'[x].previous, attempts')
                 /\ attempts'[attempts'[x].previous].owner = attempts'[x].owner
                 /\ attempts'[x].previous # x
      <4>1. /\ x # a /\ attempts'[x] = attempts[x] /\ attempts[x].owner \in Owners
            /\ attempts[x].slotToken \in Nat
            /\ attempts[x].slotToken <= slotToken[attempts[x].owner]
        BY <1>1, <1>6, <1>11, <3>6
      <4>2. attempts[x].owner # o
        BY <3>1, <3>6, <4>1
      <4>3. /\ Stands(attempts[x].previous, attempts)
            /\ attempts[attempts[x].previous].owner = attempts[x].owner
            /\ attempts[x].previous # x
        BY <1>1, <3>1, <3>6, <4>1, <4>2 DEF RecordsStand
      <4>4. attempts[x].previous # a
        BY <3>2, <4>2, <4>3
      <4> QED
        BY <1>6, <1>9, <4>1, <4>3, <4>4 DEF Stands
    <3> QED
      BY <1>6, <3>5, <3>6 DEF RecordsStand
  <2> QED
    BY <1>2, <2>1, <2>2
<1> QED
  BY <1>7, <1>8, <1>12 DEF SettlesInv

(* An attempt that fails has written nothing.                              *)
LEMMA AddFailSettles ==
  ASSUME PairingInv, SettlesInv, FailWrite, Head(lane).kind = "add"
  PROVE  SettlesInv'
<1> DEFINE a == Head(lane).by
<1>1. /\ TypeOK /\ Serving /\ lane \in Seq(Mutation)
      /\ RollbackQueued(lane, attempts) /\ UpdateQueued(updates, attempts) /\ RecordsStand
  BY SettlingParts
<1>2. /\ OnlyChanges(a) /\ attempts[a].at = "adding" /\ attempts'[a].at = "done"
      /\ attempts'[a].slotToken = attempts[a].slotToken
      /\ attempts'[a].previous = attempts[a].previous
  BY <1>1, AddFails
<1>3. /\ DOMAIN attempts' = DOMAIN attempts
      /\ \A x \in DOMAIN attempts :
           /\ attempts'[x].owner = attempts[x].owner
           /\ attempts'[x].slotToken = attempts[x].slotToken
           /\ attempts'[x].previous = attempts[x].previous
           /\ x # a => attempts'[x] = attempts[x]
  BY <1>2, OneGoesOn
<1>4. /\ lane # <<>> /\ lane' = Tail(lane) /\ updates' = updates /\ UNCHANGED <<peers, slotToken>>
  BY DEF FailWrite, aclVars
<1> HIDE DEF a
<1>5. \A x \in DOMAIN attempts : attempts'[x].at \in {"updating", "rolling"} =>
        attempts[x].at = attempts'[x].at
  BY <1>2, <1>3
<1>6. RollbackQueued(lane', attempts')
  <2>1. \A x \in DOMAIN attempts : attempts'[x].at = "rolling" =>
          attempts[x].at = "rolling" /\ (Head(lane).kind # "rollback" \/ Head(lane).by # x)
    BY <1>5
  <2>2. RollbackQueued(Tail(lane), attempts')
    BY ONLY <1>1, <1>3, <1>4, <2>1, RollbackPops
  <2> QED
    BY <1>4, <2>2
<1>7. UpdateQueued(updates', attempts')
  BY <1>1, <1>3, <1>4, <1>5, UpdateRemains
<1>8. \A b : Stands(b, attempts) => Stands(b, attempts')
  BY <1>2, <1>3 DEF Stands
<1>9. RecordsStand'
  BY <1>1, <1>3, <1>4, <1>5, <1>8 DEF RecordsStand, Stands
<1> QED
  BY <1>6, <1>7, <1>9 DEF SettlesInv

(* An attempt begins.                                                      *)
LEMMA BeginningSettles ==
  ASSUME PairingInv, SettlesInv, NEW r, r.at = "adding", NEW o \in Owners,
         attempts' = Append(attempts, r), r \in Attempt,
         lane' = Append(lane, Mutating("add", o, Len(attempts) + 1)),
         UNCHANGED <<peers, slotToken, updates>>
  PROVE  SettlesInv'
<1> DEFINE new == Len(attempts) + 1
           m == Mutating("add", o, new)
<1>1. /\ TypeOK /\ Serving /\ lane \in Seq(Mutation)
      /\ RollbackQueued(lane, attempts) /\ UpdateQueued(updates, attempts) /\ RecordsStand
  BY SettlingParts
<1>2. attempts \in Seq(Attempt)
  BY <1>1 DEF TypeOK
<1>3. /\ DOMAIN attempts' = DOMAIN attempts \cup {new} /\ new \notin DOMAIN attempts
      /\ \A x \in DOMAIN attempts : attempts'[x] = attempts[x]
      /\ attempts'[new] = r /\ new \in Nat
  BY <1>2, Appended
<1>4. m \in Mutation
  BY <1>3, QueuedTyped
<1> HIDE DEF new
<1>5. \A x \in DOMAIN attempts' : attempts'[x].at \in {"updating", "rolling"} =>
        x \in DOMAIN attempts /\ attempts[x].at = attempts'[x].at
  BY <1>3
<1>6. RollbackQueued(lane', attempts')
  <2> HIDE DEF m
  <2>1. \A x \in DOMAIN attempts' : attempts'[x].at = "rolling" =>
          (x \in DOMAIN attempts /\ attempts[x].at = "rolling") \/ (m.kind = "rollback" /\ m.by = x)
    BY <1>5
  <2>2. RollbackQueued(Append(lane, m), attempts')
    BY ONLY <1>1, <1>4, <2>1, RollbackPushes
  <2> QED
    BY <2>2 DEF m, new
<1>7. UpdateQueued(updates', attempts')
  <2>1. \A x \in DOMAIN attempts' : attempts'[x].at = "updating" =>
          x \in DOMAIN attempts /\ attempts[x].at = "updating"
    BY <1>5
  <2>2. UpdateQueued(updates, attempts')
    BY ONLY <1>1, <2>1, UpdateRemains
  <2> QED
    BY <2>2
<1>8. \A b : Stands(b, attempts) => Stands(b, attempts')
  BY <1>3 DEF Stands
<1>9. RecordsStand'
  BY <1>1, <1>3, <1>5, <1>8 DEF RecordsStand, Stands
<1> QED
  BY <1>6, <1>7, <1>9 DEF SettlesInv

LEMMA HandleSettles ==
  ASSUME PairingInv, SettlesInv, NEW o \in Owners, NEW c \in Nat, NEW q \in Requests,
         NEW token \in Nat \ {0}, NEW others, Handle(c, o, q, token, others),
         UNCHANGED <<peers, slotToken, updates>>
  PROVE  SettlesInv'
<1>1. TypeOK
  BY DEF PairingInv
<1>2. CASE UNCHANGED <<attempts, lane>>
  <2>1. AttemptsStay /\ LaneGoesOn /\ UpdatesGoOn
    BY <1>1, <1>2, SameAttempts DEF LaneGoesOn, UpdatesGoOn
  <2> QED
    BY <2>1, StayingSettles
<1>3. CASE /\ IsCurrent(c)
           /\ attempts' = Append(attempts, NewAttempt(c, o, q, token))
           /\ lane' = Append(lane, Mutating("add", o, Len(attempts) + 1))
  <2>1. c \in Nat \ {0} /\ bound \in Nat
    BY <1>1, <1>3 DEF IsCurrent, TypeOK
  <2>2. [no |-> bound + 1, client |-> c] \in Binding
    BY <2>1 DEF Binding
  <2>3. NewAttempt(c, o, q, token) \in Attempt /\ NewAttempt(c, o, q, token).at = "adding"
    BY <2>2 DEF NewAttempt, Attempt, Tokens, Optional
  <2> QED
    BY <1>3, <2>3, BeginningSettles
<1> QED
  BY <1>1, <1>2, <1>3, HandleCases

LEMMA SettlesInit ==
  ASSUME Init
  PROVE  SettlesInv
<1>1. /\ DOMAIN attempts = {} /\ \A o \in Owners : peers[o] \in {None, 0}
  BY DEF Init
<1> QED
  BY <1>1 DEF SettlesInv, RecordsStand, RollbackQueued, UpdateQueued

LEMMA SettlesNext ==
  ASSUME ConnectionInv, PairingInv, SettlesInv, [Next]_vars
  PROVE  SettlesInv'
<1>1. TypeOK /\ Serving
  BY DEF PairingInv, RecordsInv
<1>2. ASSUME UNCHANGED <<attempts, peers, slotToken>>, LaneGoesOn, UpdatesGoOn
      PROVE  SettlesInv'
  <2>1. AttemptsStay
    BY <1>1, <1>2, SameAttempts
  <2> QED
    BY <1>2, <2>1, StayingSettles
<1>3. CASE StartUpdate
  <2>1. /\ updates # <<>> /\ Head(updates) \in Update /\ active \in Nat
        /\ Contents \in SUBSET SUBSET Owners
    BY <1>1, <1>3, Tails, ClientsTyped, ContentsTyped DEF StartUpdate, TypeOK, LifecycleTypeOK
  <2>2. UNCHANGED <<peers, slotToken>>
    BY <1>3 DEF StartUpdate
  <2>3. CASE /\ Head(updates).by # 0 /\ AfterUpdate(Head(updates).by, FALSE)
             /\ updates' = Tail(updates)
    BY <2>1, <2>2, <2>3, UpdateEndSettles
  <2>4. CASE UNCHANGED <<lane, pairingVars>> /\ UpdatesGoOn
    BY <1>2, <2>2, <2>4 DEF pairingVars, LaneGoesOn
  <2> DEFINE target == IF Head(updates).client = 0 THEN active ELSE Head(updates).client
  <2>5. target \in Nat
    BY <2>1 DEF Update
  <2>6. CASE /\ updates' = [updates EXCEPT ![1].at = "reading", ![1].client = target,
                                           ![1].seen = Contents]
             /\ UNCHANGED <<lane, pairingVars>>
    <3> HIDE DEF target
    <3>1. UpdatesGoOn
      BY <2>1, <2>5, <2>6 DEF UpdatesGoOn
    <3> QED
      BY <2>4, <2>6, <3>1
  <2>7. CASE /\ updates' = Tail(updates) /\ Head(updates).by = 0
             /\ UNCHANGED <<lane, pairingVars>>
    BY <2>1, <2>4, <2>7 DEF UpdatesGoOn
  <2> QED
    BY <1>3, <2>3, <2>6, <2>7 DEF StartUpdate
<1>4. CASE SendUpdate
  <2> DEFINE sent == IsOpen(Head(updates).client) /\ IsCurrent(Head(updates).client)
  <2>1. /\ updates # <<>> /\ updates' = Tail(updates) /\ UNCHANGED <<peers, slotToken>>
        /\ IF Head(updates).by = 0 THEN UNCHANGED <<lane, pairingVars>>
           ELSE AfterUpdate(Head(updates).by, sent)
    BY <1>4 DEF SendUpdate
  <2> HIDE DEF sent
  <2>2. CASE Head(updates).by = 0
    BY <1>2, <2>1, <2>2 DEF pairingVars, LaneGoesOn, UpdatesGoOn
  <2>3. CASE Head(updates).by # 0
    BY <2>1, <2>3, UpdateEndSettles
  <2> QED
    BY <2>2, <2>3
<1>5. CASE BeginWrite \/ Refresh \/ \E o \in Owners : Revoke(o)
  <2>1. LaneGoesOn
    BY <1>5 DEF BeginWrite, Refresh, Revoke, LaneGoesOn, storageVars
  <2>2. 0 \in Nat
    OBVIOUS
  <2>3. UpdatesGoOn
    BY <1>5, <2>2 DEF BeginWrite, Refresh, Revoke, UpdatesGoOn, aclVars
  <2>4. UNCHANGED <<attempts, peers, slotToken>>
    BY <1>5 DEF BeginWrite, Refresh, Revoke, storageVars, pairingVars
  <2> QED
    BY <1>2, <2>1, <2>3, <2>4
<1>6. CASE EndAdd \/ Rollback
  BY <1>6, AddEndSettles, RollbackSettles
<1>7. CASE FailWrite
  <2>1. CASE Head(lane).kind = "remove" /\ UNCHANGED attempts
    <3>1. UNCHANGED <<peers, slotToken>> /\ LaneGoesOn /\ UpdatesGoOn
      BY <1>7, <2>1 DEF FailWrite, LaneGoesOn, UpdatesGoOn, aclVars
    <3> QED
      BY <1>2, <2>1, <3>1
  <2> QED
    BY <1>7, <2>1, AddFailSettles DEF FailWrite
<1>8. CASE Revoked
  <2>1. /\ lane # <<>> /\ Head(lane) \in Mutation /\ UNCHANGED attempts
    BY <1>1, <1>8, Tails DEF Revoked, TypeOK
  <2>2. AttemptsStay
    BY <1>1, <2>1, SameAttempts
  <2>3. RevokedOwner
    <3>1. Head(lane).owner \in Owners /\ bindings \in [Owners -> Optional(Binding)]
      BY <1>1, <2>1 DEF Mutation, TypeOK
    <3>2. bindings'[Head(lane).owner] = None
      BY <1>8, <3>1 DEF Revoked
    <3> QED
      BY <1>8, <3>1, <3>2 DEF Revoked, RevokedOwner
  <2>4. 0 \in Nat
    OBVIOUS
  <2>5. LaneGoesOn /\ UpdatesGoOn
    BY <1>8, <2>1, <2>4 DEF Revoked, LaneGoesOn, UpdatesGoOn
  <2> QED
    BY <2>2, <2>3, <2>5, StayingSettles
<1>9. CASE \E i \in DOMAIN waiting : HandleAgain(i)
  <2> PICK i \in DOMAIN waiting : HandleAgain(i)
    BY <1>9
  <2>1. waiting[i] \in Waiting
    <3>1. waiting \in Seq(Waiting)
      BY <1>1 DEF TypeOK
    <3> QED
      BY <3>1, LenProperties
  <2>2. /\ waiting[i].owner \in Owners /\ waiting[i].client \in Nat
        /\ waiting[i].req \in Requests /\ waiting[i].token \in Nat \ {0}
    BY <2>1 DEF Waiting, Tokens
  <2> QED
    BY <2>2, HandleSettles DEF HandleAgain, aclVars
<1>10. CASE \E o \in Owners, q \in Requests, token \in 1..used.tokens : PairRequest(o, q, token)
  <2> PICK o \in Owners, q \in Requests, token \in 1..used.tokens : PairRequest(o, q, token)
    BY <1>10
  <2>1. used \in Bounds
    BY <1>1 DEF TypeOK
  <2>2. used.tokens \in Nat /\ active \in Nat
    BY <1>1, <2>1, Used, ClientsTyped DEF TypeOK, LifecycleTypeOK
  <2>3. token \in Nat \ {0}
    BY <2>2
  <2> QED
    BY <2>2, <2>3, HandleSettles DEF PairRequest, aclVars
<1>11. CASE \E run \in ops : Connect(run)
  <2> PICK run \in ops : Connect(run)
    BY <1>11
  <2>1. UNCHANGED <<attempts, lane, peers, slotToken>>
    BY DEF Connect, storageVars, pairingVars
  <2>2. run.client \in Nat
    BY <1>1 DEF TypeOK, LifecycleTypeOK, Run
  <2>3. LaneGoesOn /\ UpdatesGoOn
    BY <2>1, <2>2 DEF LaneGoesOn, UpdatesGoOn, Connect, OnConnected, aclVars
  <2> QED
    BY <1>2, <2>1, <2>3
<1>12. CASE Close \/ Stop \/ Quit
  <2>1. OnDisconnected
    BY <1>12 DEF Close, Stop, Quit
  <2>2. AttemptsStay /\ UNCHANGED <<peers, slotToken>> /\ LaneGoesOn /\ UpdatesGoOn
    BY <1>1, <2>1, Detaching DEF OnDisconnected, LaneGoesOn, UpdatesGoOn, storageVars, aclVars
  <2> QED
    BY <2>2, StayingSettles
<1>13. CASE \/ IssueToken \/ ExpireToken \/ SwitchSession \/ Lifecycle \/ UNCHANGED vars
            \/ \E o \in Owners : SessionFrame(o)
            \/ \E l \in lookups : Found(l)
  <2>1. UNCHANGED <<attempts, lane, peers, slotToken, updates>>
    BY <1>13
    DEF IssueToken, ExpireToken, SwitchSession, Lifecycle, vars, SessionFrame, Found,
        storageVars, pairingVars, aclVars
  <2> QED
    BY <1>2, <2>1 DEF LaneGoesOn, UpdatesGoOn
<1> QED
  BY <1>3, <1>4, <1>5, <1>6, <1>7, <1>8, <1>9, <1>10, <1>11, <1>12, <1>13 DEF Next, React

(* At rest nothing is left to roll back: each record in peers.json was     *)
(* there before, was confirmed, or belongs to an attempt whose rollback    *)
(* was stale or failed (conditionalRollbackPeer), whichever of the         *)
(* owner's attempts and revocations the mutation lane ran in between.      *)
THEOREM NothingLeftToRollBack == Spec => []UnpairedIsRolledBack
<1>1. PairingInv /\ SettlesInv => UnpairedIsRolledBack
  <2> SUFFICES ASSUME PairingInv, SettlesInv, lane = <<>>, updates = <<>>,
                      NEW o \in Known, peers[o] # 0
               PROVE  attempts[peers[o]].outcome \in {"paired", "kept", "stale"}
    BY DEF UnpairedIsRolledBack, Settled
  <2>1. Stands(peers[o], attempts)
    BY DEF SettlesInv, RecordsStand, Known
  <2>2. \A a \in DOMAIN attempts : attempts[a].at \notin {"updating", "rolling"}
    BY DEF SettlesInv, RollbackQueued, UpdateQueued
  <2> QED
    BY <2>1, <2>2 DEF Stands
<1> QED
  BY <1>1, ConnectionInit, ConnectionNext, PairingInit, PairingNext, SettlesInit, SettlesNext, PTL
  DEF Spec

-----------------------------------------------------------------------------
(* The ACL at the relay.                                                   *)

(* A write under way, or a rollback, queues an update when it ends.        *)
WriteToCome(l) == \E i \in DOMAIN l : l[i].kind = "rollback" \/ l[i].at = "writing"

(* An update will bring the active relay what peers.json has now.          *)
Refreshes(u) ==
  \/ u.at = "queued" /\ u.client \in {0, active}
  \/ u.at = "reading" /\ u.client = active /\ u.seen = {Known}

ToCome == WriteToCome(lane) \/ \E i \in DOMAIN updates : Refreshes(updates[i])

(* Only the first update reads, for a client that was connected, and it    *)
(* has read what is in peers.json, or another is to come.                  *)
UpdatesInOrder ==
  /\ \A i \in DOMAIN updates : i # 1 => updates[i].at = "queued"
  /\ \A i \in DOMAIN updates : updates[i].at = "reading" =>
       updates[i].client \in DOMAIN clients /\ clients[updates[i].client] # "connecting"

NothingStale ==
  IsOpen(active) /\ (\E i \in DOMAIN updates : updates[i].at = "reading"
                       /\ updates[i].client = active /\ updates[i].seen # {Known})
  => ToCome

AclToCome == IsOpen(active) /\ told # "initial" /\ acl # Known => ToCome

AclInv == UpdatesInOrder /\ NothingStale /\ AclToCome

LEMMA WritePushes ==
  ASSUME NEW l \in Seq(Mutation), NEW m
  PROVE  /\ WriteToCome(l) => WriteToCome(Append(l, m))
         /\ m.kind = "rollback" => WriteToCome(Append(l, m))
<1>1. l \in Seq(Mutation \cup {m})
  BY SeqMonotonic
<1>2. /\ DOMAIN Append(l, m) = DOMAIN l \cup {Len(l) + 1}
      /\ \A i \in DOMAIN l : Append(l, m)[i] = l[i]
      /\ Append(l, m)[Len(l) + 1] = m
  BY <1>1, Appended
<1> QED
  BY <1>2 DEF WriteToCome

LEMMA WritePops ==
  ASSUME NEW l \in Seq(Mutation), l # <<>>, Head(l).kind # "rollback", Head(l).at # "writing",
         WriteToCome(l)
  PROVE  WriteToCome(Tail(l))
<1>1. /\ Head(l) = l[1]
      /\ \A i \in DOMAIN l : i # 1 => i - 1 \in DOMAIN Tail(l) /\ Tail(l)[i - 1] = l[i]
  BY Tails
<1>2. PICK i \in DOMAIN l : l[i].kind = "rollback" \/ l[i].at = "writing"
  BY DEF WriteToCome
<1>3. i # 1
  BY <1>1, <1>2
<1> QED
  BY <1>1, <1>2, <1>3 DEF WriteToCome

LEMMA AclParts ==
  ASSUME PairingInv
  PROVE  /\ TypeOK /\ LifecycleTypeOK
         /\ lane \in Seq(Mutation) /\ updates \in Seq(Update)
         /\ active \in Nat /\ (active # 0 => active \in DOMAIN clients)
         /\ Len(clients) \in Nat /\ DOMAIN clients = 1..Len(clients)
         /\ \A c \in DOMAIN clients : clients[c] \in SocketStates
  BY ClientsTyped DEF PairingInv, TypeOK, LifecycleTypeOK

(* The updates stay; something is to come if something was.                *)
LEMMA AclWaits ==
  ASSUME AclInv, UNCHANGED <<updates, active, clients, acl, told>>,
         peers' = peers, WriteToCome(lane) => WriteToCome(lane')
  PROVE  AclInv'
<1>1. ToCome => ToCome'
  BY DEF ToCome, Refreshes, Known
<1> QED
  BY <1>1 DEF AclInv, UpdatesInOrder, NothingStale, AclToCome, IsOpen, Known

(* An update for the active client is queued.                              *)
LEMMA AclPushes ==
  ASSUME PairingInv, AclInv, NEW c \in {0, active}, NEW a \in Nat,
         updates' = Append(updates, Updating(c, a)), UNCHANGED <<active, clients>>
  PROVE  AclInv'
<1>1. /\ updates \in Seq(Update) /\ active \in Nat
  BY AclParts
<1>2. Updating(c, a) \in Update /\ Updating(c, a).at = "queued" /\ Updating(c, a).client = c
  BY <1>1, QueuedTyped DEF Updating
<1>3. /\ DOMAIN updates' = DOMAIN updates \cup {Len(updates) + 1}
      /\ \A i \in DOMAIN updates : updates'[i] = updates[i]
      /\ updates'[Len(updates) + 1] = Updating(c, a)
  BY <1>1, <1>2, Appended
<1>4. ToCome'
  <2>1. \E i \in DOMAIN updates' : Refreshes(updates[i])'
    BY <1>2, <1>3 DEF Refreshes
  <2> QED
    BY <1>3, <2>1 DEF ToCome, Refreshes
<1>5. UpdatesInOrder'
  BY <1>2, <1>3 DEF AclInv, UpdatesInOrder
<1> QED
  BY <1>4, <1>5 DEF AclInv, NothingStale, AclToCome

(* A rollback is queued in place of the write that ended.                  *)
LEMMA AclWrites ==
  ASSUME AclInv, UNCHANGED <<updates, active, clients>>, WriteToCome(lane')
  PROVE  AclInv'
  BY DEF AclInv, UpdatesInOrder, NothingStale, AclToCome, ToCome

LEMMA AclEndsAdd ==
  ASSUME PairingInv, AclInv, EndAdd
  PROVE  AclInv'
<1> DEFINE a == Head(lane).by
           m == Mutating("rollback", attempts[a].owner, a)
<1>1. /\ lane \in Seq(Mutation) /\ lane # <<>> /\ Serving
      /\ UNCHANGED <<active, clients>> /\ AfterAdd(a, peers[Head(lane).owner])
  BY AclParts DEF EndAdd, Writing, lifecycleVars, PairingInv, RecordsInv
<1>2. Tail(lane) \in Seq(Mutation)
  BY <1>1, Tails
<1>3. CASE CanCommit(a) /\ updates' = Append(updates, Updating(attempts[a].client, a))
  <2>1. attempts[a].client = active
    BY <1>3 DEF CanCommit, LifecycleIsCurrent, IsCurrent
  <2>2. a \in Nat
    <3>1. Head(lane) \in Mutation
      BY <1>1, Tails
    <3> QED
      BY <3>1 DEF Mutation
  <2> QED
    BY <1>1, <1>3, <2>1, <2>2, AclPushes
<1>4. CASE updates' = updates /\ lane' = Append(Tail(lane), m)
  <2>1. WriteToCome(lane')
    BY <1>2, <1>4, WritePushes DEF Mutating
  <2> QED
    BY <1>1, <1>4, <2>1, AclWrites
<1> QED
  BY <1>1, <1>3, <1>4 DEF AfterAdd

(* The update at the head starts to read, or finds no open relay.          *)
LEMMA AclStartsUpdate ==
  ASSUME ConnectionInv, PairingInv, AclInv, StartUpdate
  PROVE  AclInv'
<1> DEFINE u == Head(updates)
           target == IF u.client = 0 THEN active ELSE u.client
           n == [u EXCEPT !.at = "reading", !.client = target, !.seen = Contents]
<1>1. /\ lane \in Seq(Mutation) /\ updates \in Seq(Update) /\ updates # <<>>
      /\ active \in Nat /\ (active # 0 => active \in DOMAIN clients)
  BY AclParts DEF StartUpdate
<1>2. /\ UNCHANGED <<lifecycleVars, peers, acl, told>> /\ u.at = "queued"
      /\ UNCHANGED <<active, clients, disposed, state>>
  BY DEF StartUpdate, lifecycleVars
<1>3. /\ 1 \in DOMAIN updates /\ u = updates[1] /\ u \in Update
      /\ Tail(updates) \in Seq(Update)
      /\ \A i \in DOMAIN Tail(updates) :
           i + 1 \in DOMAIN updates /\ i + 1 # 1 /\ Tail(updates)[i] = updates[i + 1]
      /\ \A i \in DOMAIN updates : i # 1 =>
           i - 1 \in DOMAIN Tail(updates) /\ Tail(updates)[i - 1] = updates[i]
  BY <1>1, Tails
<1>4. Known' = Known
  BY <1>2 DEF Known
<1>5. WriteToCome(lane) => WriteToCome(lane')
  <2>1. lane' = lane \/ \E m : lane' = Append(lane, m)
    BY DEF StartUpdate, AfterUpdate
  <2> QED
    BY <1>1, <2>1, WritePushes
<1>6. CASE /\ IsOpen(target) /\ IsCurrent(target) /\ UNCHANGED lane
           /\ updates' = [updates EXCEPT ![1].at = "reading", ![1].client = target,
                                         ![1].seen = Contents]
  <2>1. n \in Update /\ n.at = "reading" /\ n.client = target /\ n.seen = Contents
    <3>1. target \in Nat /\ Contents \in SUBSET SUBSET Owners
      BY <1>1, <1>3, AclParts, ContentsTyped DEF Update
    <3> QED
      BY <1>3, <3>1 DEF Update
  <2>2. updates' = [updates EXCEPT ![1] = n]
    BY <1>3, <1>6
  <2>3. target = active /\ active \in DOMAIN clients /\ clients[active] = "open"
    BY <1>1, <1>6 DEF IsCurrent, IsOpen
  <2> HIDE DEF n, target, u
  <2>4. /\ DOMAIN updates' = DOMAIN updates /\ updates'[1] = n
        /\ \A i \in DOMAIN updates : i # 1 => updates'[i] = updates[i]
    BY <1>1, <1>3, <2>1, <2>2, Excepted
  <2>5. Contents = {Known} \/ WriteToCome(lane)
    <3>1. Writing => WriteToCome(lane)
      <4>1. lane # <<>> => 1 \in DOMAIN lane /\ Head(lane) = lane[1]
        BY <1>1, Tails
      <4> QED
        BY <4>1 DEF Writing, WriteToCome
    <3> QED
      BY <3>1 DEF Contents
  <2>6. Contents = {Known} => ToCome'
    <3>1. Contents = {Known} => Refreshes(updates[1])'
      BY <1>2, <1>4, <2>1, <2>3, <2>4 DEF Refreshes
    <3> QED
      BY <1>3, <2>4, <3>1 DEF ToCome, Refreshes
  <2>7. WriteToCome(lane) => ToCome'
    BY <1>5 DEF ToCome
  <2>8. ToCome'
    BY <2>5, <2>6, <2>7
  <2>9. UpdatesInOrder'
    BY <1>2, <2>1, <2>3, <2>4 DEF AclInv, UpdatesInOrder
  <2> QED
    BY <2>8, <2>9 DEF AclInv, NothingStale, AclToCome
<1>7. CASE ~(IsOpen(target) /\ IsCurrent(target)) /\ updates' = Tail(updates)
  <2>1. IsOpen(active) => target # active
    <3>1. ActiveAlone
      BY DEF ConnectionInv, LifecycleInv
    <3> QED
      BY <1>7, <3>1 DEF IsOpen, IsCurrent, ActiveAlone
  <2>2. IsOpen(active) => ~Refreshes(updates[1])
    BY <1>2, <1>3, <2>1 DEF Refreshes
  <2> HIDE DEF u, target, n
  <2>3. \A x : Refreshes(x) => Refreshes(x)'
    BY <1>2, <1>4 DEF Refreshes
  <2>4. IsOpen(active) /\ ToCome => ToCome'
    <3> SUFFICES ASSUME IsOpen(active), NEW i \in DOMAIN updates, Refreshes(updates[i])
                 PROVE  ToCome'
      BY <1>5 DEF ToCome
    <3>1. i # 1
      BY <2>2
    <3>2. i - 1 \in DOMAIN updates' /\ updates'[i - 1] = updates[i]
      BY <1>3, <1>7, <3>1
    <3>3. Refreshes(updates[i - 1])'
      BY <2>3, <3>2 DEF Refreshes
    <3> QED
      BY <3>2, <3>3 DEF ToCome, Refreshes
  <2>5. \A i \in DOMAIN updates' : updates'[i].at = "queued"
    BY <1>3, <1>7 DEF AclInv, UpdatesInOrder
  <2>6. UpdatesInOrder' /\ NothingStale'
    BY <2>5 DEF UpdatesInOrder, NothingStale
  <2>7. AclToCome'
    BY <1>2, <1>4, <2>4 DEF AclInv, AclToCome, IsOpen
  <2> QED
    BY <2>6, <2>7 DEF AclInv
<1> QED
  BY <1>6, <1>7 DEF StartUpdate

(* The update at the head has read and is sent, or its relay is gone.      *)
LEMMA AclSendsUpdate ==
  ASSUME ConnectionInv, PairingInv, AclInv, SendUpdate
  PROVE  AclInv'
<1> DEFINE u == Head(updates)
           sent == IsOpen(u.client) /\ IsCurrent(u.client)
<1>1. /\ lane \in Seq(Mutation) /\ updates \in Seq(Update) /\ updates # <<>>
      /\ active \in Nat
  BY AclParts DEF SendUpdate
<1>2. /\ UNCHANGED <<lifecycleVars, peers>> /\ UNCHANGED <<active, clients, disposed, state>>
      /\ updates' = Tail(updates)
  BY DEF SendUpdate, lifecycleVars
<1>3. /\ 1 \in DOMAIN updates /\ u = updates[1] /\ u \in Update
      /\ \A i \in DOMAIN Tail(updates) :
           i + 1 \in DOMAIN updates /\ i + 1 # 1 /\ Tail(updates)[i] = updates[i + 1]
      /\ \A i \in DOMAIN updates : i # 1 =>
           i - 1 \in DOMAIN Tail(updates) /\ Tail(updates)[i - 1] = updates[i]
  BY <1>1, Tails
<1>4. u.at = "reading"
  BY <1>3 DEF SendUpdate, Busy, Update
<1>5. PICK owners \in u.seen \cup Contents :
        /\ acl' = IF sent THEN owners ELSE acl
        /\ told' = IF sent THEN "update" ELSE told
        /\ IF u.by = 0 THEN UNCHANGED <<lane, pairingVars>> ELSE AfterUpdate(u.by, sent)
  BY DEF SendUpdate
<1>6. sent => u.client = active
  BY DEF IsCurrent
<1>7. IsOpen(active) /\ u.client = active => sent
  <2>1. ActiveAlone
    BY DEF ConnectionInv, LifecycleInv
  <2> QED
    BY <2>1 DEF IsOpen, IsCurrent, ActiveAlone
<1> HIDE DEF u, sent
<1>8. Known' = Known /\ \A x : Refreshes(x) => Refreshes(x)'
  BY <1>2 DEF Known, Refreshes
<1>9. WriteToCome(lane) => WriteToCome(lane')
  <2>1. lane' = lane \/ \E m : lane' = Append(lane, m)
    BY <1>5 DEF AfterUpdate
  <2> QED
    BY <1>1, <2>1, WritePushes
<1>10. Contents = {Known} \/ WriteToCome(lane)
  <2>1. lane # <<>> => 1 \in DOMAIN lane /\ Head(lane) = lane[1]
    BY <1>1, Tails
  <2> QED
    BY <2>1 DEF Contents, Writing, WriteToCome
<1>11. ToCome => ToCome' \/ Refreshes(u)
  <2> SUFFICES ASSUME NEW i \in DOMAIN updates, Refreshes(updates[i]), ~Refreshes(u)
               PROVE  ToCome'
    BY <1>9 DEF ToCome
  <2>1. i # 1
    BY <1>3
  <2>2. i - 1 \in DOMAIN updates' /\ updates'[i - 1] = updates[i]
    BY <1>2, <1>3, <2>1
  <2>3. Refreshes(updates[i - 1])'
    BY <1>8, <2>2 DEF Refreshes
  <2> QED
    BY <2>2, <2>3 DEF ToCome, Refreshes
<1>12. \A i \in DOMAIN updates' : updates'[i].at = "queued"
  BY <1>2, <1>3 DEF AclInv, UpdatesInOrder
<1>13. UpdatesInOrder' /\ NothingStale'
  BY <1>12 DEF UpdatesInOrder, NothingStale
<1>14. AclToCome'
  <2> SUFFICES ASSUME IsOpen(active), told' # "initial", acl' # Known
               PROVE  ToCome'
    BY <1>2, <1>8 DEF AclToCome, IsOpen
  <2>1. CASE sent
    <3>1. u.client = active /\ owners # Known
      BY <1>5, <1>6, <2>1
    <3>2. CASE WriteToCome(lane)
      BY <1>9, <3>2 DEF ToCome
    <3>3. CASE Contents = {Known}
      <4>1. u.seen # {Known}
        BY <1>5, <3>1, <3>3
      <4>2. ToCome
        BY <1>3, <1>4, <3>1, <4>1 DEF AclInv, NothingStale
      <4>3. ~Refreshes(u)
        BY <1>4, <4>1 DEF Refreshes
      <4> QED
        BY <1>11, <4>2, <4>3
    <3> QED
      BY <1>10, <3>2, <3>3
  <2>2. CASE ~sent
    <3>1. ToCome
      BY <1>5, <2>2 DEF AclInv, AclToCome
    <3>2. ~Refreshes(u)
      BY <1>4, <1>7, <2>2 DEF Refreshes
    <3> QED
      BY <1>11, <3>1, <3>2
  <2> QED
    BY <2>1, <2>2
<1> QED
  BY <1>13, <1>14 DEF AclInv

(* The relay is lost or given up, or another client is about to connect.   *)
LEMMA AclLoses ==
  ASSUME AclInv, UNCHANGED <<lane, updates, peers, acl, told>>,
         DOMAIN clients \subseteq DOMAIN clients',
         \A c \in DOMAIN clients : clients'[c] = "connecting" => clients[c] = "connecting",
         IsOpen(active)' => active' = active /\ IsOpen(active)
  PROVE  AclInv'
<1>1. IsOpen(active)' => (ToCome => ToCome')
  BY DEF ToCome, Refreshes, Known
<1>2. UpdatesInOrder'
  BY DEF AclInv, UpdatesInOrder
<1>3. NothingStale' /\ AclToCome'
  BY <1>1 DEF AclInv, NothingStale, AclToCome, Known
<1> QED
  BY <1>2, <1>3 DEF AclInv

LEMMA AclConnected ==
  ASSUME ConnectionInv, PairingInv, AclInv, NEW run \in ops, Connect(run)
  PROVE  AclInv'
<1>1. /\ UNCHANGED <<lane, peers>> /\ LifecycleInv
      /\ run.client \in Nat /\ run.kind \in {"initial", "reconnect"}
      /\ \A c \in DOMAIN clients : clients[c] \in SocketStates
      /\ Len(clients) \in Nat /\ DOMAIN clients = 1..Len(clients)
      /\ updates \in Seq(Update) /\ active \in Nat /\ clients \in Seq(SocketStates)
  BY AclParts DEF Connect, storageVars, ConnectionInv, LifecycleTypeOK, Run
<1>2. CASE /\ LoadIdentity(run) \/ ConnectFails(run)
           /\ UNCHANGED aclVars
  <2>1. active' = active /\ DOMAIN clients' = DOMAIN clients
    BY <1>2 DEF LoadIdentity, ConnectFails
  <2>2. \A c \in DOMAIN clients : clients'[c] = clients[c] \/ clients'[c] = "closed"
    BY <1>2 DEF LoadIdentity, ConnectFails
  <2>3. active # 0 => active \in DOMAIN clients
    BY AclParts
  <2>4. IsOpen(active)' => active' = active /\ IsOpen(active)
    BY <2>1, <2>2, <2>3 DEF IsOpen
  <2> QED
    BY <1>1, <1>2, <2>1, <2>2, <2>4, AclLoses DEF aclVars
<1>3. CASE /\ BeginConnect(run)
           /\ hello' \in Contents
           /\ UNCHANGED <<updates, acl, told>>
  <2>1. clients' = clients \/ clients' = Append(clients, "connecting")
    BY <1>3 DEF BeginConnect
  <2>2. DOMAIN clients \subseteq DOMAIN clients' /\ \A c \in DOMAIN clients : clients'[c] = clients[c]
    BY <1>1, <2>1, Appended DEF SocketStates
  <2>3. active' = active /\ (active # 0 => active \in DOMAIN clients)
    BY <1>3, AclParts DEF BeginConnect
  <2>4. IsOpen(active)' => active' = active /\ IsOpen(active)
    BY <2>2, <2>3 DEF IsOpen
  <2> QED
    BY <1>1, <1>3, <2>2, <2>4, AclLoses
<1>4. CASE Connected(run) /\ (IF Accepted(run) THEN OnConnected(run) ELSE UNCHANGED aclVars)
  <2>1. Accepted(run) /\ active = 0 /\ active' = run.client
    BY <1>1, <1>4, ConnectedKeeps
  <2>2. /\ clients' = [clients EXCEPT ![run.client] = "open"]
        /\ clients[run.client] = "connecting" /\ run.at = "connecting"
        /\ acl' = hello /\ told' = run.kind
        /\ updates' = IF run.kind = "reconnect" THEN Append(updates, Updating(run.client, 0))
                      ELSE updates
    BY <1>4, <2>1 DEF Connected, OnConnected
  <2>3. \A i \in DOMAIN updates : updates[i].at = "reading" =>
          /\ updates[i].client \in DOMAIN clients'
          /\ clients'[updates[i].client] # "connecting" /\ updates[i].client # active'
    BY <2>1, <2>2 DEF AclInv, UpdatesInOrder
  <2>4. CASE run.kind = "initial"
    <3>1. UpdatesInOrder' /\ NothingStale'
      BY <2>2, <2>3, <2>4 DEF AclInv, UpdatesInOrder, NothingStale
    <3> QED
      BY <2>2, <2>4, <3>1 DEF AclInv, AclToCome
  <2>5. CASE run.kind = "reconnect"
    <3> DEFINE e == Updating(run.client, 0)
    <3>1. e \in Update /\ e.at = "queued" /\ e.client = active'
      <4>1. 0 \in Nat
        OBVIOUS
      <4> QED
        BY <1>1, <2>1, <4>1, QueuedTyped DEF Updating
    <3> HIDE DEF e
    <3>2. /\ DOMAIN updates' = DOMAIN updates \cup {Len(updates) + 1}
          /\ \A i \in DOMAIN updates : updates'[i] = updates[i] /\ i < Len(updates) + 1
          /\ updates'[Len(updates) + 1] = e
      BY <1>1, <2>2, <2>5, <3>1, Appended DEF e
    <3>3. ToCome'
      <4>1. \E i \in DOMAIN updates' : Refreshes(updates[i])'
        BY <3>1, <3>2 DEF Refreshes
      <4> QED
        BY <3>2, <4>1 DEF ToCome, Refreshes
    <3>4. UpdatesInOrder'
      <4>1. \A i \in DOMAIN updates' : i # 1 => updates'[i].at = "queued"
        BY <3>1, <3>2 DEF AclInv, UpdatesInOrder
      <4> QED
        BY <2>3, <3>1, <3>2, <4>1 DEF UpdatesInOrder
    <3> QED
      BY <3>3, <3>4 DEF AclInv, NothingStale, AclToCome
  <2> QED
    BY <1>1, <2>4, <2>5
<1> QED
  BY <1>2, <1>3, <1>4 DEF Connect

LEMMA AclInit ==
  ASSUME Init
  PROVE  AclInv
<1>1. DOMAIN updates = {} /\ ~IsOpen(active)
  BY DEF Init, LifecycleInit, IsOpen
<1> QED
  BY <1>1 DEF AclInv, UpdatesInOrder, NothingStale, AclToCome

LEMMA AclNext ==
  ASSUME ConnectionInv, PairingInv, AclInv, [Next]_vars
  PROVE  AclInv'
<1>1. /\ lane \in Seq(Mutation) /\ updates \in Seq(Update)
      /\ active \in Nat /\ (active # 0 => active \in DOMAIN clients)
      /\ Len(clients) \in Nat /\ DOMAIN clients = 1..Len(clients)
      /\ \A c \in DOMAIN clients : clients[c] \in SocketStates
  BY AclParts
<1>2. CASE StartUpdate \/ SendUpdate \/ EndAdd \/ \E run \in ops : Connect(run)
  BY <1>2, AclStartsUpdate, AclSendsUpdate, AclEndsAdd, AclConnected
<1>3. CASE BeginWrite
  <2>1. 1 \in DOMAIN lane /\ lane[1] \in Mutation
    BY <1>1, <1>3, Tails DEF BeginWrite
  <2>2. WriteToCome(lane')
    <3>1. lane' = [lane EXCEPT ![1].at = "writing"]
      BY <1>3 DEF BeginWrite
    <3>2. 1 \in DOMAIN lane' /\ lane'[1].at = "writing"
      BY <2>1, <3>1 DEF Mutation
    <3> QED
      BY <3>2 DEF WriteToCome
  <2>3. UNCHANGED <<updates, active, clients>>
    BY <1>3 DEF BeginWrite, lifecycleVars, aclVars
  <2> QED
    BY <2>2, <2>3, AclWrites
<1>4. CASE FailWrite
  <2>1. /\ UNCHANGED <<updates, active, clients, acl, told, peers>>
        /\ lane # <<>> /\ Head(lane).at = "queued" /\ Head(lane).kind # "rollback"
        /\ lane' = Tail(lane)
    BY <1>4 DEF FailWrite, lifecycleVars, aclVars
  <2>2. WriteToCome(lane) => WriteToCome(lane')
    BY <1>1, <2>1, WritePops
  <2> QED
    BY <2>1, <2>2, AclWaits
<1>5. CASE Rollback \/ Revoked \/ Refresh
  <2>1. UNCHANGED <<active, clients>>
    BY <1>5 DEF Rollback, Revoked, Refresh, lifecycleVars
  <2>2. \E a \in Nat : updates' = Append(updates, Updating(0, a))
    <3>1. lane # <<>> => Head(lane).by \in Nat
      <4>1. lane # <<>> => Head(lane) \in Mutation
        BY <1>1, Tails
      <4> QED
        BY <4>1 DEF Mutation
    <3>2. 0 \in Nat
      OBVIOUS
    <3> QED
      BY <1>5, <3>1, <3>2 DEF Rollback, Revoked, Refresh
  <2> QED
    BY <2>1, <2>2, AclPushes
<1>6. CASE \/ \E i \in DOMAIN waiting : HandleAgain(i)
           \/ \E o \in Owners, q \in Requests, token \in 1..used.tokens : PairRequest(o, q, token)
           \/ \E o \in Owners : Revoke(o)
  <2>1. UNCHANGED <<updates, active, clients, acl, told, peers>>
    BY <1>6 DEF HandleAgain, PairRequest, Revoke, lifecycleVars, aclVars
  <2>2. lane' = lane \/ \E m : lane' = Append(lane, m)
    BY <1>6 DEF HandleAgain, PairRequest, Handle, Revoke
  <2>3. WriteToCome(lane) => WriteToCome(lane')
    BY <1>1, <2>2, WritePushes
  <2> QED
    BY <2>1, <2>3, AclWaits
<1>7. CASE \/ IssueToken \/ ExpireToken \/ UNCHANGED vars
           \/ \E o \in Owners : SessionFrame(o)
           \/ \E l \in lookups : Found(l)
  <2>1. UNCHANGED <<lane, updates, active, clients, acl, told, peers>>
    BY <1>7
    DEF IssueToken, ExpireToken, SessionFrame, Found, vars, lifecycleVars, storageVars, aclVars
  <2> QED
    BY <2>1, AclWaits
<1>8. CASE SwitchSession \/ Lifecycle
  <2>1. UNCHANGED <<lane, updates, acl, told, peers>>
    BY <1>8 DEF SwitchSession, Lifecycle, storageVars, aclVars
  <2>2. active' = active
    BY <1>8 DEF SwitchSession, Lifecycle, Start, FireReconnect, Lose, lifecycleVars
  <2>3. clients' = clients \/ clients' = [clients EXCEPT ![active] = "lost"]
    BY <1>8 DEF SwitchSession, Lifecycle, Start, FireReconnect, Lose, lifecycleVars
  <2>4. /\ DOMAIN clients' = DOMAIN clients
        /\ \A c \in DOMAIN clients : clients'[c] = clients[c] \/ clients'[c] = "lost"
    BY <2>3
  <2>5. IsOpen(active)' => active' = active /\ IsOpen(active)
    BY <1>1, <2>2, <2>4 DEF IsOpen
  <2> QED
    BY <2>1, <2>4, <2>5, AclLoses
<1>9. CASE Close \/ Stop \/ Quit
  <2>1. UNCHANGED <<lane, updates, acl, told, peers>>
    BY <1>9 DEF Close, Stop, Quit, OnDisconnected, storageVars, aclVars
  <2>2. active' = 0
    BY <1>9 DEF Close, Stop, Quit, OnRelayClose, StopRelay
  <2>3. /\ DOMAIN clients' = DOMAIN clients
        /\ \A c \in DOMAIN clients : clients'[c] = clients[c] \/ clients'[c] = "closed"
    BY <1>9 DEF Close, Stop, Quit, OnRelayClose, StopRelay
  <2>4. ~IsOpen(active)'
    BY <2>2 DEF IsOpen
  <2> QED
    BY <2>1, <2>3, <2>4, AclLoses
<1> QED
  BY <1>2, <1>3, <1>4, <1>5, <1>6, <1>7, <1>8, <1>9 DEF Next, React

(* At rest the relay lets through the owners of peers.json and no others:  *)
(* each write, rollback and reconnection queues an endpoint_update, and    *)
(* none that read an older file is the last one sent (updateEndpoint,      *)
(* onConnected).  Left out is a relay that has only the hello of an initial*)
(* connection, which nothing refreshes.                                    *)
THEOREM RelayHasPeers == Spec => []AclFollowsPeers
<1>1. AclInv => AclFollowsPeers
  BY DEF AclInv, AclToCome, ToCome, WriteToCome, AclFollowsPeers, Settled
<1> QED
  BY <1>1, ConnectionInit, ConnectionNext, PairingInit, PairingNext, AclInit, AclNext, PTL
  DEF Spec

=============================================================================
