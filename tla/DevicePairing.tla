----------------------------- MODULE DevicePairing -----------------------------
(***************************************************************************)
(* Pairing by a scanned code: the hook pwa/src/lib/pwa/use-device-pairing  *)
(* .ts, and persistPairedDevice of pwa-app.tsx.  It has a relay connection *)
(* of its own.  The host's side is that of HostRuntime: a request it has   *)
(* granted it grants again.                                                *)
(***************************************************************************)
EXTENDS EndpointRegistry

CONSTANT MaxAttempts   (* PAIRING_MAX_ATTEMPTS                             *)

ASSUME DevicePairingAssumption == MaxAttempts \in Nat \ {0}

VARIABLES
  dialog,   (* state: idle, scanning or pairing                            *)
  attempt,  (* attemptRef                                                  *)
  orphans,  (* endpoints being stored for attempts that were cancelled     *)
  granted   (* endpoints whose host has this Owner                         *)

pairingVars == <<dialog, attempt, orphans, granted>>

(* sent: requestSent, which is what a loss needs to be tried again.        *)
Attempt ==
  [endpoint : Endpoints, number : 1..MaxAttempts, sent : BOOLEAN, saving : BOOLEAN]

ASSUME AttemptAssumption == None \notin Attempt

PairingTypeOK ==
  /\ dialog \in {"idle", "scanning", "pairing"} /\ attempt \in Optional(Attempt)
  /\ {orphans, granted} \subseteq SUBSET Endpoints

PairingInit ==
  /\ dialog = "idle" /\ attempt = None /\ orphans = {}
  /\ granted = {e \in Endpoints : DeviceOf[e] \in listed}

NoRegistryChange ==
  UNCHANGED <<hostVars, subscribed, due, tableVars, listed, viewVars, selectionVars, removing>>

(* cancelAttempt: a pairing being stored is not taken back.                *)
Cancelled ==
  orphans' = IF attempt # None /\ attempt.saving THEN orphans \cup {attempt.endpoint} ELSE orphans

OpenDialog ==
  /\ dialog = "idle" /\ removing = None /\ left["scan"] > 0
  /\ dialog' = "scanning"
  /\ NoRegistryChange /\ UNCHANGED <<left, attempt, orphans, granted>>

(* The user may close it at any time.                                      *)
CloseDialog ==
  /\ dialog # "idle" /\ dialog' = "idle"
  /\ Cancelled /\ attempt' = None
  /\ NoRegistryChange /\ UNCHANGED <<left, granted>>

(* pairFromQr: a code scanned again cancels the attempt before it.         *)
Scan(e) ==
  /\ Spend("scan")
  /\ dialog = "scanning" \/ (dialog = "pairing" /\ ~attempt.saving)
  /\ dialog' = "pairing"
  /\ Cancelled
  /\ attempt' = [endpoint |-> e, number |-> 1, sent |-> FALSE, saving |-> FALSE]
  /\ NoRegistryChange /\ UNCHANGED granted

(* relay.connect() is done, and the request leaves.  The host grants it if *)
(* it gets it.                                                             *)
SendPairRequest(arrives) ==
  /\ attempt # None /\ ~attempt.sent /\ ~attempt.saving
  /\ attempt' = [attempt EXCEPT !.sent = TRUE]
  /\ IF arrives THEN granted' = granted \cup {attempt.endpoint} /\ UNCHANGED left
     ELSE Spend("loss") /\ UNCHANGED granted
  /\ NoRegistryChange /\ UNCHANGED <<dialog, orphans>>

(* Slip: an attempt that failed leaves the dialog to the next one.         *)
AttemptFailsQuietly ==
  /\ attempt # None /\ ~attempt.saving /\ Spend("loss")
  /\ IF attempt.sent /\ attempt.number < MaxAttempts
     THEN attempt' = [attempt EXCEPT !.number = @ + 1, !.sent = FALSE]
     ELSE attempt' = None
  /\ NoRegistryChange /\ UNCHANGED <<dialog, orphans, granted>>

(* The connection closes or fifteen seconds pass: once the request was     *)
(* sent it is tried again.                                                 *)
AttemptFails ==
  /\ attempt # None /\ ~attempt.saving /\ Spend("loss")
  /\ IF attempt.sent /\ attempt.number < MaxAttempts
     THEN attempt' = [attempt EXCEPT !.number = @ + 1, !.sent = FALSE] /\ UNCHANGED dialog
     ELSE attempt' = None /\ dialog' = "scanning"
  /\ NoRegistryChange /\ UNCHANGED <<orphans, granted>>

(* pair_ok: the device and the choice of its endpoint are stored.          *)
PairOk ==
  /\ attempt # None /\ attempt.sent /\ ~attempt.saving /\ attempt.endpoint \in granted
  /\ attempt' = [attempt EXCEPT !.saving = TRUE]
  /\ stored' = stored \cup {DeviceOf[attempt.endpoint]}
  /\ setting' = [setting EXCEPT ![DeviceOf[attempt.endpoint]] = attempt.endpoint]
  /\ UNCHANGED <<hostVars, subscribed, due, rows, listed, viewVars, selectionVars, removing, left,
                 dialog, orphans, granted>>

(* pair_error.                                                             *)
PairError ==
  /\ attempt # None /\ attempt.sent /\ ~attempt.saving /\ attempt.endpoint \notin granted
  /\ attempt' = None /\ dialog' = "scanning"
  /\ NoRegistryChange /\ UNCHANGED <<left, orphans, granted>>

(* setDevices and activatePairedDevice, whoever waits for it.              *)
Activate(e) ==
  /\ listed' = stored
  /\ active' = DeviceOf[e]
  /\ UNCHANGED tableVars
  /\ ActiveDeviceEffects(IF DeviceOf[e] \in stored THEN DeviceOf[e] ELSE None, e)
  /\ UNCHANGED <<hostVars, history, epoch, chain, readded, removing, left, granted>>

SaveDone ==
  /\ attempt # None /\ attempt.saving
  /\ Activate(attempt.endpoint)
  /\ attempt' = None /\ dialog' = "idle"
  /\ UNCHANGED orphans

OrphanSaved(e) ==
  /\ e \in orphans /\ orphans' = orphans \ {e}
  /\ Activate(e)
  /\ UNCHANGED <<attempt, dialog>>

=============================================================================
