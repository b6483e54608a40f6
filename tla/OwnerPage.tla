------------------------------- MODULE OwnerPage -------------------------------
(***************************************************************************)
(* One page of the PWA: its endpoints, its relay connection and session,   *)
(* and the pairing of another device, composed as pwa-app.tsx does.        *)
(***************************************************************************)
EXTENDS OwnerConnection, DevicePairing

vars == <<registryVars, connectionVars, pairingVars>>

TypeOK == RegistryTypeOK /\ ConnectionTypeOK /\ PairingTypeOK

Init == RegistryInit /\ ConnectionInit /\ PairingInit

(* An endpoint's host is up or not, changes or says something.             *)
Hosts ==
  /\ \E e \in Endpoints : HostStarts(e) \/ HostUpdates(e) \/ HostEnds(e)
  /\ UNCHANGED <<connectionVars, pairingVars>>

Registry ==
  /\ \/ FinishLoad \/ FinishRestore \/ PersistStep
     \/ \E d \in Devices : SelectDevice(d)
     \/ \E e \in Endpoints : SelectEndpoint(e)
     \/ RemoveData
  /\ abandoned' = (abandoned \/ (online /\ page.state = "closed" /\ ShowsOnline(shown')))
  /\ UNCHANGED <<online, page, ran, bumped, pairingVars>>

(* removePairing first clears the session of the device.  React has run    *)
(* the effects of what the user clicks on.                                 *)
StartRemoval ==
  /\ dialog = "idle" /\ ~SessionEffectPending
  /\ \E d \in Devices :
       /\ RemovePairing(d)
       /\ page' = IF active = d THEN Cleared(page) ELSE page
  /\ UNCHANGED <<online, ran, bumped, abandoned, pairingVars>>

EndRemoval == RemoveDone /\ DevicesListed /\ UNCHANGED pairingVars

Relay ==
  /\ \/ SocketOpens \/ ChallengeArrives \/ RelayCloses
     \/ \E b \in BOOLEAN : Authenticate(b) \/ LoseConnection(b)
     \/ \E d \in Devices : SnapshotArrives(d)
     \/ FireRetry \/ GoOffline \/ GoOnline
  /\ UNCHANGED pairingVars

Session ==
  /\ \/ RunSessionEffect \/ SessionReady \/ RetrySession
     \/ \E terminal \in BOOLEAN : SessionEnds(terminal)
  /\ UNCHANGED pairingVars

Pairing ==
  /\ \/ ~SessionEffectPending /\ OpenDialog
     \/ CloseDialog \/ AttemptFails \/ PairOk \/ PairError
     \/ \E e \in Endpoints : Scan(e)
     \/ \E b \in BOOLEAN : SendPairRequest(b)
  /\ UNCHANGED connectionVars

EndPairing ==
  /\ SaveDone \/ \E e \in Endpoints : OrphanSaved(e)
  /\ DevicesListed

Next ==
  \/ Hosts \/ Registry \/ StartRemoval \/ EndRemoval
  \/ Relay \/ Session \/ Pairing \/ EndPairing

Spec == Init /\ [][Next]_vars

-----------------------------------------------------------------------------
(* What a subscribed device's endpoints are shown as is what the relay     *)
(* knows of them, once nothing is being stored: no report is lost, undone  *)
(* by another or by what an earlier page stored (use-endpoint-registry.ts).*)
(* Left out are the devices that lost a report to one being stored (see    *)
(* overtaken) and the endpoints whose newest runtime is rejected because a *)
(* stored one was shown after it.                                          *)
PresenceFollows ==
  \A e \in Endpoints :
    LET d == DeviceOf[e] IN
    d \in (subscribed \cap listed \cap stored) \ overtaken /\ chain = <<>> /\ ~LearntBackwards(e) =>
      IF live[e] = 0 THEN shown[e] = None \/ ~shown[e].online
      ELSE shown[e] = [runtime |-> live[e], online |-> TRUE]

(* What the page says of its connection is never something nothing works   *)
(* at: "retrying" has its timer, "connecting" an attempt, a timer or a     *)
(* hello that is out, and a page with its relay closed and no timer offers *)
(* Retry.  Left out are a relay the page closed on purpose, and a report   *)
(* that was being stored while the relay was lost and is shown after the   *)
(* last retry (the relay and session effects of pwa-app.tsx).              *)
NoSilentStall ==
  Mounted /\ removing = None /\ ~abandoned /\ ~SessionEffectPending =>
    /\ page.connection = "retrying" => page.timer
    /\ page.connection = "connecting" => Connecting(page) \/ page.timer \/ (Connected /\ page.hello)
    /\ online /\ page.state = "closed" /\ ~page.timer => page.connection = "offline"

(* "online" is shown with a session, joined over an open relay to the      *)
(* runtime that is shown online, and never to one that said it is over for *)
(* good: every change of the endpoint, the device or the relay ends in the *)
(* session effect (pwa-app.tsx).                                           *)
SessionFollowsEndpoint ==
  page.connection = "online" /\ ~SessionEffectPending /\ removing = None =>
    /\ Connected /\ ~page.terminal
    /\ page.channel = Target.session /\ Target.online

(* Nothing is kept of the endpoints of a device whose pairing was removed: *)
(* what was being stored is over, or noticed, before they are deleted      *)
(* (invalidatePersistence).  Left out are the devices reported on while    *)
(* they were removed.                                                      *)
RemovedIsForgotten ==
  \A e \in Endpoints :
    DeviceOf[e] \notin stored \cup readded /\ chain = <<>> => rows[e] = 0

(* The dialog says "pairing" while there is an attempt and no longer,      *)
(* however the attempts before it end (use-device-pairing.ts).             *)
DialogIsAttempt == (dialog = "pairing") = (attempt # None)

(* A connection that fails is told up to three times, as "closed", as an   *)
(* error and as the rejected connect(), and counts once against the        *)
(* retries there are (ReconnectState.request).                             *)
OneRetryPerLoss == [][page'.retry <= page.retry + 1]_vars

=============================================================================
