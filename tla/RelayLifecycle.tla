--------------------------- MODULE RelayLifecycle ---------------------------
(***************************************************************************)
(* The connection of one Pi runtime to the relay:                          *)
(* pi-extension/src/runtime/relay_lifecycle.ts over the clients of         *)
(* transport/relay_client.ts.                                              *)
(*                                                                         *)
(* startInitial and reconnect are asynchronous functions that outlive the  *)
(* start, stop or close that overtook them; each carries the generation    *)
(* it was started with, which also tells the two runs of one function      *)
(* apart.  The backoff only delays a reconnection and is left out.         *)
(*                                                                         *)
(* The module composing this one adds what onConnected and onDisconnected  *)
(* do, and what the connect options say.                                   *)
(***************************************************************************)
EXTENDS Naturals, Sequences, FiniteSets

CONSTANTS
  MaxStarts,   (* bound: initial connections asked for                     *)
  MaxClients   (* bound: relay clients created                             *)

ASSUME LifecycleAssumption == MaxStarts \in Nat /\ MaxClients \in Nat

VARIABLES
  state,      (* currentState                                              *)
  disposed,   (* isDisposed: the Pi process is quitting                    *)
  generation,
  initial,    (* the generation of the initialAttempt, 0 when it is null   *)
  ops,        (* the runs of startInitial and reconnect that await         *)
  clients,    (* the RelayClients created, each with its socket's state    *)
  active, pending,   (* activeRelay and pendingCandidate, 0 for null       *)
  timer,      (* the generation the reconnect timer waits for, 0 for none  *)
  starts      (* used up of the bound                                      *)

lifecycleVars ==
  <<state, disposed, generation, initial, ops, clients, active, pending, timer, starts>>

Run ==
  [gen : Nat \ {0}, kind : {"initial", "reconnect"},
   at : {"identity", "options", "connecting"}, client : Nat]

(* connecting until connect() resolves; lost between the end of the socket *)
(* and its close event; closed after close() or that event.                *)
SocketStates == {"connecting", "open", "lost", "closed"}

LifecycleTypeOK ==
  /\ state \in {"idle", "started"} /\ disposed \in BOOLEAN
  /\ generation \in Nat /\ initial \in Nat /\ timer \in Nat
  /\ ops \in SUBSET Run
  /\ clients \in Seq(SocketStates)
  /\ active \in 0..Len(clients) /\ pending \in 0..Len(clients)
  /\ starts \in 0..MaxStarts

LifecycleInit ==
  /\ state = "idle" /\ disposed = FALSE
  /\ generation = 0 /\ initial = 0 /\ timer = 0
  /\ ops = {} /\ clients = <<>> /\ active = 0 /\ pending = 0
  /\ starts = 0

IsOpen(c) == c # 0 /\ clients[c] = "open"
IsCurrent(c) == ~disposed /\ state = "started" /\ active = c /\ c # 0
IsOperationCurrent(gen) == ~disposed /\ generation = gen
IsReconnectCurrent(gen) == state = "started" /\ IsOperationCurrent(gen)

(* A run returns; the initial attempt is settled when its run is.          *)
Ended(run) ==
  /\ ops' = ops \ {run}
  /\ initial' = IF initial = run.gen THEN 0 ELSE initial

(* Slip: the timer waits for the generation that just ended.               *)
ScheduleLate ==
  /\ generation' = generation + 1
  /\ timer' = generation

(* scheduleReconnect, called in state started.                             *)
ScheduleReconnect ==
  /\ generation' = generation + 1
  /\ timer' = generation + 1

(* start(), when it does not return the attempt under way or a warning.    *)
Start ==
  /\ initial = 0 /\ state = "idle"
  /\ starts < MaxStarts /\ starts' = starts + 1
  /\ generation' = generation + 1
  /\ initial' = generation + 1
  /\ ops' = ops \cup
       {[gen |-> generation + 1, kind |-> "initial", at |-> "identity", client |-> 0]}
  /\ UNCHANGED <<state, disposed, clients, active, pending, timer>>

(* loadIdentity resolves, or rejects and ends the run.                     *)
LoadIdentity(run) ==
  /\ run.at = "identity"
  /\ \/ /\ IsOperationCurrent(run.gen)
        /\ state' = "started"
        /\ ops' = (ops \ {run}) \cup {[run EXCEPT !.at = "options"]}
        /\ UNCHANGED initial
     \/ Ended(run) /\ UNCHANGED state
  /\ UNCHANGED <<disposed, generation, clients, active, pending, timer, starts>>

(* buildConnectOptions resolves and connect() begins.                      *)
BeginConnect(run) ==
  /\ run.at = "options"
  /\ IF IsReconnectCurrent(run.gen)
     THEN /\ Len(clients) < MaxClients
          /\ clients' = Append(clients, "connecting")
          /\ pending' = Len(clients) + 1
          /\ ops' = (ops \ {run}) \cup
               {[run EXCEPT !.at = "connecting", !.client = Len(clients) + 1]}
          /\ UNCHANGED initial
     ELSE Ended(run) /\ UNCHANGED <<clients, pending>>
  /\ UNCHANGED <<state, disposed, generation, active, timer, starts>>

(* connect() resolves: the client becomes the active relay, or is closed   *)
(* because the run was overtaken.                                          *)
Accepted(run) == IsReconnectCurrent(run.gen) /\ pending = run.client

Connected(run) ==
  /\ run.at = "connecting" /\ clients[run.client] = "connecting"
  /\ IF Accepted(run)
     THEN /\ clients' = [clients EXCEPT ![run.client] = "open"]
          /\ active' = run.client /\ pending' = 0
     ELSE /\ clients' = [clients EXCEPT ![run.client] = "closed"]
          /\ UNCHANGED <<active, pending>>
  /\ Ended(run)
  /\ UNCHANGED <<state, disposed, generation, timer, starts>>

(* connect() rejects: a refusal, a timeout, or close() from stop().        *)
ConnectFails(run) ==
  /\ run.at = "connecting" /\ clients[run.client] \in {"connecting", "closed"}
  /\ clients' = [clients EXCEPT ![run.client] = "closed"]
  /\ pending' = IF pending = run.client THEN 0 ELSE pending
  /\ IF IsReconnectCurrent(run.gen) THEN ScheduleReconnect
     ELSE UNCHANGED <<generation, timer>>
  /\ Ended(run)
  /\ UNCHANGED <<state, disposed, active, starts>>

FireReconnect ==
  /\ timer # 0
  /\ timer' = 0
  /\ ops' = IF IsReconnectCurrent(timer)
            THEN ops \cup {[gen |-> timer, kind |-> "reconnect", at |-> "options", client |-> 0]}
            ELSE ops
  /\ UNCHANGED <<state, disposed, generation, initial, clients, active, pending, starts>>

(* The relay or the network ends the socket of the active client.          *)
Lose ==
  /\ IsOpen(active)
  /\ clients' = [clients EXCEPT ![active] = "lost"]
  /\ UNCHANGED <<state, disposed, generation, initial, ops, active, pending, timer, starts>>

OnRelayClose ==
  /\ active # 0 /\ clients[active] = "lost"
  /\ clients' = [clients EXCEPT ![active] = "closed"]
  /\ active' = 0
  /\ IF disposed THEN UNCHANGED <<generation, timer>> ELSE ScheduleReconnect
  /\ UNCHANGED <<state, disposed, initial, ops, pending, starts>>

(* Slip: stop() forgets the client that is still connecting.               *)
StopActive ==
  /\ generation' = generation + 1
  /\ timer' = 0 /\ initial' = 0 /\ active' = 0 /\ pending' = 0
  /\ state' = "idle"
  /\ clients' = [c \in DOMAIN clients |-> IF c = active THEN "closed" ELSE clients[c]]
  /\ UNCHANGED <<ops, starts>>

(* stop().                                                                 *)
StopRelay ==
  /\ generation' = generation + 1
  /\ timer' = 0 /\ initial' = 0 /\ active' = 0 /\ pending' = 0
  /\ state' = "idle"
  /\ clients' = [c \in DOMAIN clients |->
                   IF c \in {active, pending} THEN "closed" ELSE clients[c]]
  /\ UNCHANGED <<ops, starts>>

-----------------------------------------------------------------------------
(* Two live sockets of one runtime evict each other at the relay without   *)
(* end.  However stops, starts, closes and overtaken runs interleave,      *)
(* there is at most one, connected or connecting.                          *)
OneConnection ==
  Cardinality({c \in DOMAIN clients : clients[c] \in {"connecting", "open"}}) <= 1

(* A started runtime that has no relay is about to get one: a run of the   *)
(* current generation is under way, or the timer waits for that generation.*)
NeverStranded ==
  state = "started" /\ ~disposed =>
    active # 0 \/ timer = generation \/ \E run \in ops : run.gen = generation
=============================================================================
