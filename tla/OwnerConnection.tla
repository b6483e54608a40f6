---------------------------- MODULE OwnerConnection ----------------------------
(***************************************************************************)
(* The PWA's connection to the relay and the session it joins over it:     *)
(* pwa/src/lib/remote-pi/relay-client.ts, lib/pwa/reconnect-state.ts, and  *)
(* the effects of components/pwa/pwa-app.tsx that drive them from the      *)
(* endpoints of EndpointRegistry.                                          *)
(*                                                                         *)
(* A callback runs to its end with the promise reactions it causes: a      *)
(* failed connection is told three times, by "state", "error" and the      *)
(* rejected connect(), in one step.  signChallenge is a step of its own.   *)
(***************************************************************************)
EXTENDS EndpointRegistry

CONSTANT MaxRetries   (* RETRY_DELAYS_MS.length                            *)

ASSUME OwnerConnectionAssumption == MaxRetries \in Nat \ {0}

VARIABLES
  online,    (* onlineRef                                                  *)
  page,      (* the relay effect, the session effect and what is shown     *)
  ran,       (* what the session effect last ran for                       *)
  bumped,    (* relayConnectionGeneration or sessionRestartToken changed   *)
  abandoned  (* the page closed the relay connection on purpose, or has    *)
             (* shown an endpoint online since it lost the relay           *)

connectionVars == <<online, page, ran, bumped, abandoned>>

States == {"closed", "connecting", "authenticating", "signing", "open", "closing"}

(* state: of the RelayClient, "open" with a socket that cannot send being  *)
(* "closing".  current: activeToken is the controller's token; scheduled:  *)
(* its flag.  timer: relayReconnectTimerRef.  intentional: its ref.        *)
(* channel, hello: channelRef with its context, helloRequestRef.           *)
(* terminal: sessionRecoveryStateRef.isTerminal, for the runtime identity. *)
Channel == [endpoint : Endpoints, runtime : 1..MaxRuntimes]
Page ==
  [connection : {"connecting", "retrying", "online", "offline", "no_network"},
   state : States, current : BOOLEAN, scheduled : BOOLEAN, timer : BOOLEAN,
   retry : 0..MaxRetries, intentional : BOOLEAN,
   channel : Optional(Channel), hello : BOOLEAN,
   terminal : BOOLEAN, identity : Optional(Channel)]

(* What the session effect depends on.                                     *)
Target ==
  IF ActiveEndpoint = None THEN [device |-> ActiveDevice, session |-> None, online |-> FALSE]
  ELSE [device |-> ActiveDevice,
        session |-> [endpoint |-> ActiveEndpoint, runtime |-> shown[ActiveEndpoint].runtime],
        online |-> shown[ActiveEndpoint].online]

Targets == [device : Optional(Devices), session : Optional(Channel), online : BOOLEAN]

ASSUME TargetAssumption == None \notin Channel \cup Targets

ConnectionTypeOK ==
  /\ online \in BOOLEAN /\ page \in Page /\ ran \in Optional(Targets)
  /\ {bumped, abandoned} \subseteq BOOLEAN

Connecting(p) == p.state \in {"connecting", "authenticating", "signing"}
Connected == page.state \in {"open", "closing"}
Mounted == listed # {}

-----------------------------------------------------------------------------
(* What a callback does to the page p.                                     *)

(* clearSessionConnection.                                                 *)
Cleared(p) == [p EXCEPT !.channel = None, !.hello = FALSE]

(* Slip: ReconnectState.request forgets that it has scheduled.             *)
RescheduledRetry(p) ==
  IF ~online THEN [p EXCEPT !.connection = "no_network"]
  ELSE IF p.retry >= MaxRetries THEN [p EXCEPT !.connection = "offline"]
  ELSE IF ~p.current THEN p
  ELSE [p EXCEPT !.scheduled = TRUE, !.timer = TRUE, !.retry = @ + 1, !.connection = "retrying"]

(* scheduleRelayReconnect.                                                 *)
WithRetry(p) ==
  IF ~online THEN [p EXCEPT !.connection = "no_network"]
  ELSE IF p.retry >= MaxRetries THEN [p EXCEPT !.connection = "offline"]
  ELSE IF ~p.current \/ p.scheduled THEN p
  ELSE [p EXCEPT !.scheduled = TRUE, !.timer = TRUE, !.retry = @ + 1, !.connection = "retrying"]

(* The relay state becomes "closed".                                       *)
HeardClosed(p) ==
  LET q == [Cleared(p) EXCEPT !.state = "closed"] IN
  IF ~online THEN [q EXCEPT !.intentional = FALSE, !.connection = "no_network"]
  ELSE IF p.intentional THEN [q EXCEPT !.intentional = FALSE, !.connection = "offline"]
  ELSE LET r == WithRetry(q) IN
       IF r.retry = q.retry /\ ~r.timer THEN [r EXCEPT !.connection = "offline"] ELSE r

(* markAllOffline comes with it, except after a close on purpose.          *)
HeardByRegistry(p) == IF online /\ ~p.intentional THEN Offline(shown) ELSE shown

(* reconnectNow, and the effect when it starts.                            *)
ConnectNow(p) ==
  [p EXCEPT !.timer = FALSE, !.current = TRUE, !.scheduled = FALSE, !.retry = 0,
            !.intentional = FALSE, !.connection = "connecting",
            !.state = IF @ = "closed" THEN "connecting" ELSE @]

Unsubscribed == subscribed' = {} /\ due' = {}

ConnectionInit ==
  /\ online = TRUE
  /\ page = [connection |-> "connecting", state |-> IF Mounted THEN "connecting" ELSE "closed",
             current |-> Mounted, scheduled |-> FALSE, timer |-> FALSE, retry |-> 0,
             intentional |-> FALSE, channel |-> None, hello |-> FALSE,
             terminal |-> FALSE, identity |-> None]
  /\ ran = None /\ bumped = FALSE /\ abandoned = FALSE

NoViewChange ==
  UNCHANGED <<hostVars, tableVars, listed, history, epoch, chain, loading, overtaken, readded,
              selectionVars, removing>>

-----------------------------------------------------------------------------
(* The relay.                                                              *)

SocketOpens ==
  /\ page.state = "connecting"
  /\ page' = [page EXCEPT !.state = "authenticating"]
  /\ NoViewChange
  /\ UNCHANGED <<shown, subscribed, due, left, online, ran, bumped, abandoned>>

ChallengeArrives ==
  /\ page.state = "authenticating"
  /\ page' = [page EXCEPT !.state = "signing"]
  /\ NoViewChange
  /\ UNCHANGED <<shown, subscribed, due, left, online, ran, bumped, abandoned>>

(* The challenge is signed: the relay is open, and the page subscribes to  *)
(* its devices.  If the socket is closing by then, the subscription fails  *)
(* and the page closes the relay.                                          *)
Authenticate(sendable) ==
  LET p == [page EXCEPT !.state = "open", !.current = TRUE, !.scheduled = FALSE, !.retry = 0] IN
  /\ page.state = "signing"
  /\ IF sendable
     THEN /\ page' = p /\ bumped' = TRUE
          /\ subscribed' = {} /\ due' = listed
          /\ UNCHANGED <<shown, left>>
     ELSE /\ Spend("fault")
          /\ page' = HeardClosed(p) /\ shown' = HeardByRegistry(p)
          /\ UNCHANGED <<bumped, subscribed, due>>
  /\ NoViewChange
  /\ UNCHANGED <<online, ran, abandoned>>

SnapshotArrives(d) ==
  /\ page.state \in {"open", "closing"}
  /\ Snapshot(d)
  /\ UNCHANGED connectionVars

(* The connection fails: "state", "error" unless the socket just closed,   *)
(* and the rejection while connect() is pending.                           *)
LoseConnection(error) ==
  LET p == HeardClosed(page)
      q == IF error THEN WithRetry(p) ELSE p IN
  /\ page.state # "closed" /\ Mounted
  /\ IF page.state = "closing" THEN UNCHANGED left ELSE Spend("fault")
  /\ page' = IF Connecting(page) THEN WithRetry(q) ELSE q
  /\ shown' = HeardByRegistry(page)
  /\ Unsubscribed
  /\ NoViewChange
  /\ UNCHANGED <<online, ran, bumped, abandoned>>

(* The relay begins to close: sends fail from now on.                      *)
RelayCloses ==
  /\ page.state = "open" /\ Spend("fault")
  /\ page' = [page EXCEPT !.state = "closing"]
  /\ NoViewChange
  /\ UNCHANGED <<shown, subscribed, due, online, ran, bumped, abandoned>>

FireRetry ==
  /\ page.timer
  /\ page' = [page EXCEPT !.timer = FALSE, !.current = TRUE, !.scheduled = FALSE,
                          !.intentional = FALSE, !.connection = "connecting",
                          !.state = IF @ = "closed" THEN "connecting" ELSE @]
  /\ abandoned' = FALSE
  /\ NoViewChange
  /\ UNCHANGED <<shown, subscribed, due, left, online, ran, bumped>>

(* handleOffline and handleOnline.                                         *)
GoOffline ==
  /\ Mounted /\ online /\ Spend("net") /\ online' = FALSE
  /\ page' = [Cleared(page) EXCEPT !.intentional = FALSE, !.current = FALSE, !.scheduled = FALSE,
                                   !.timer = FALSE, !.state = "closed", !.connection = "no_network"]
  /\ Unsubscribed
  /\ NoViewChange
  /\ UNCHANGED <<shown, ran, bumped, abandoned>>

(* Slip: only a retry that was coming is made up for.                      *)
GoOnlineAgain ==
  /\ Mounted /\ ~online /\ online' = TRUE
  /\ page' = IF page.scheduled THEN ConnectNow(page) ELSE page
  /\ abandoned' = FALSE
  /\ NoViewChange
  /\ UNCHANGED <<shown, subscribed, due, left, ran, bumped>>

GoOnline ==
  /\ Mounted /\ ~online /\ online' = TRUE
  /\ page' = ConnectNow(page)
  /\ abandoned' = FALSE
  /\ NoViewChange
  /\ UNCHANGED <<shown, subscribed, due, left, ran, bumped>>

-----------------------------------------------------------------------------
(* The session.                                                            *)

SessionEffectPending == bumped \/ Target # ran

(* Slip: a session that is over for good is joined again.                  *)
JoinedAnyway(p) ==
  LET q == [Cleared(p) EXCEPT !.identity = Target.session,
                              !.terminal = @ /\ p.identity = Target.session] IN
  IF Target.session = None \/ ~Target.online
  THEN [q EXCEPT !.connection = IF online THEN "offline" ELSE "no_network"]
  ELSE IF q.state \notin {"open", "closing"}
  THEN [q EXCEPT !.connection = IF online THEN "connecting" ELSE "no_network"]
  ELSE [q EXCEPT !.channel = Target.session, !.hello = TRUE, !.connection = "connecting"]

(* What the session effect does up to its hello.                           *)
Joined(p) ==
  LET q == [Cleared(p) EXCEPT !.identity = Target.session,
                              !.terminal = @ /\ p.identity = Target.session] IN
  IF q.terminal THEN [q EXCEPT !.connection = "offline"]
  ELSE IF Target.session = None \/ ~Target.online
  THEN [q EXCEPT !.connection = IF online THEN "offline" ELSE "no_network"]
  ELSE IF q.state \notin {"open", "closing"}
  THEN [q EXCEPT !.connection = IF online THEN "connecting" ELSE "no_network"]
  ELSE [q EXCEPT !.channel = Target.session, !.hello = TRUE, !.connection = "connecting"]

(* A hello that cannot be sent closes the relay, on purpose.               *)
RunSessionEffect ==
  LET p == Joined(page)
      failed == p.hello /\ p.state = "closing" IN
  /\ SessionEffectPending
  /\ ran' = Target /\ bumped' = FALSE
  /\ page' = IF failed THEN HeardClosed([p EXCEPT !.intentional = TRUE]) ELSE p
  /\ abandoned' = (abandoned \/ failed)
  /\ IF failed THEN Unsubscribed ELSE UNCHANGED <<subscribed, due>>
  /\ NoViewChange
  /\ UNCHANGED <<shown, left, online>>

(* session_ready, which may come late.                                     *)
SessionReady ==
  /\ page.hello /\ Connected
  /\ page' = [page EXCEPT !.hello = FALSE, !.connection = "online"]
  /\ NoViewChange
  /\ UNCHANGED <<shown, subscribed, due, left, online, ran, bumped, abandoned>>

(* reset, and bye for a session that is replaced: restartSession.  Any     *)
(* other bye: disconnectSession.                                           *)
SessionEnds(terminal) ==
  /\ page.channel # None /\ ~page.hello /\ Spend("bye")
  /\ page' = [Cleared(page) EXCEPT !.terminal = terminal,
                                   !.connection = IF terminal THEN "offline" ELSE "connecting"]
  /\ bumped' = (bumped \/ ~terminal)
  /\ NoViewChange
  /\ UNCHANGED <<shown, subscribed, due, online, ran, abandoned>>

(* retryCurrentSession: the button is there while "offline" is shown.      *)
RetrySession ==
  LET p == [Cleared(page) EXCEPT !.terminal = FALSE] IN
  /\ page.connection = "offline" /\ ActiveEndpoint # None /\ removing = None /\ Spend("retry")
  /\ page' = IF ~online THEN [p EXCEPT !.connection = "no_network"]
             ELSE IF Connected THEN [p EXCEPT !.connection = "connecting"]
             ELSE ConnectNow(p)
  /\ bumped' = (bumped \/ (online /\ Connected))
  /\ abandoned' = (abandoned /\ ~online)
  /\ NoViewChange
  /\ UNCHANGED <<shown, subscribed, due, online, ran>>

-----------------------------------------------------------------------------
(* The page lists its devices anew.  If they change in number the relay    *)
(* effect starts again, with a client of its own: what was joined over its *)
(* predecessor is out of reach.  Else an open relay is subscribed again.   *)

Remounted(p, devices) ==
  LET q == [Cleared(p) EXCEPT !.timer = FALSE, !.current = FALSE, !.scheduled = FALSE,
                              !.state = "closed"] IN
  IF devices = {} THEN q
  ELSE IF ~online THEN [q EXCEPT !.current = TRUE, !.connection = "no_network"]
  ELSE [q EXCEPT !.current = TRUE, !.intentional = FALSE, !.connection = "connecting",
                 !.state = "connecting"]

DevicesListed ==
  /\ IF Cardinality(listed') # Cardinality(listed)
     THEN page' = Remounted(page, listed') /\ abandoned' = FALSE /\ Unsubscribed
     ELSE /\ due' = IF page.state = "open" THEN listed' ELSE due
          /\ UNCHANGED <<page, abandoned, subscribed>>
  /\ UNCHANGED <<online, ran, bumped>>

=============================================================================
