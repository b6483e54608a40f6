--------------------------- MODULE EndpointRegistry ---------------------------
(***************************************************************************)
(* The endpoints the PWA shows and the ones it keeps: the hook             *)
(* pwa/src/lib/pwa/use-endpoint-registry.ts with lib/pwa/runtime.ts, the   *)
(* selection of use-active-endpoint-selection.ts, and the removal of a     *)
(* pairing (pwa-app.tsx, db.ts).                                           *)
(*                                                                         *)
(* IndexedDB is external: a transaction takes effect where it is opened,   *)
(* and its result is a later callback.  React is external: the effects of  *)
(* a render run with the change that caused it.  The hosts behind the      *)
(* relay are external; OwnerConnection has the connection to the relay.    *)
(***************************************************************************)
EXTENDS Naturals, FiniteSets, Sequences, SequencesExt

CONSTANTS
  Devices, Endpoints,
  DeviceOf,     (* the device of each endpoint                             *)
  MaxRuntimes,  (* bound: runtimes of an endpoint                          *)
  None,
  Starts        (* what a page may open on, with bounds on how often each  *)
                (* kind of step happens                                    *)

(* Steps of hosts, losses of the relay connection, losses of the network,  *)
(* ends of a session, choices of the user, his retries, pairings he        *)
(* removes, pairing codes he scans, losses of a pairing message.           *)
Kinds == {"host", "fault", "net", "bye", "select", "retry", "remove", "scan", "loss"}

(* A runtime that is up is the newest its endpoint had.                    *)
ASSUME EndpointRegistryAssumption ==
  /\ IsFiniteSet(Devices) /\ DeviceOf \in [Endpoints -> Devices]
  /\ MaxRuntimes \in Nat /\ None \notin Devices \cup Endpoints
  /\ Starts \subseteq [listed : SUBSET Devices, live : [Endpoints -> 0..MaxRuntimes],
                       rows : [Endpoints -> 0..MaxRuntimes], bounds : [Kinds -> Nat]]
  /\ \A s \in Starts : \A e \in Endpoints : s.live[e] # 0 => s.rows[e] <= s.live[e]

VARIABLES
  live, runtimes,  (* each endpoint's runtime, 0 for none, and how many it had *)
  subscribed, due, (* devices the relay reports on; snapshots under way    *)
  stored, rows, setting, (* the tables: devices, endpoints, active_endpoint *)
  listed,          (* devices                                              *)
  shown,           (* endpoints                                            *)
  history,         (* endpointRuntimeHistoryRef                            *)
  epoch, chain,    (* endpointPersistEpochRef and endpointPersistChainRef  *)
  loading,         (* the stored endpoints being read                      *)
  active, chosen,  (* activeDeviceId, activeEndpointId                     *)
  restoring,       (* the choice being read from the settings              *)
  removing,        (* the pairing being removed                            *)
  overtaken,       (* the devices that lost a report: what was being       *)
                   (* written or read came after it, or the page did not   *)
                   (* list them                                            *)
  readded,         (* the devices reported on while they were removed, or  *)
                   (* with rows though they are not paired                 *)
  left             (* what is left of the bounds                           *)

hostVars == <<live, runtimes>>
tableVars == <<stored, rows, setting>>
viewVars == <<shown, history, epoch, chain, loading, overtaken, readded>>
selectionVars == <<active, chosen, restoring>>
registryVars ==
  <<hostVars, subscribed, due, tableVars, listed, viewVars, selectionVars, removing, left>>

Optional(S) == S \cup {None}
Shown == [runtime : 1..MaxRuntimes, online : BOOLEAN]
View == [Endpoints -> Optional(Shown)]
Operation == [device : Devices, epoch : Nat, next : View, step : {"start", "look", "write"}]

RegistryTypeOK ==
  /\ live \in [Endpoints -> 0..MaxRuntimes] /\ runtimes \in [Endpoints -> 0..MaxRuntimes]
  /\ {subscribed, due, stored, listed} \subseteq SUBSET Devices
  /\ rows \in [Endpoints -> 0..MaxRuntimes]
  /\ setting \in [Devices -> Optional(Endpoints)]
  /\ shown \in View
  /\ history \in [Endpoints -> Seq(1..MaxRuntimes)]
  /\ epoch \in Nat /\ chain \in Seq(Operation)
  /\ loading \in Optional([device : Devices, found : [Endpoints -> 0..MaxRuntimes]])
  /\ active \in Optional(Devices) /\ chosen \in Optional(Endpoints)
  /\ restoring \in Optional([value : Optional(Endpoints)])
  /\ removing \in Optional([device : Devices, ahead : Nat, deleted : BOOLEAN])
  /\ {overtaken, readded} \subseteq SUBSET Devices /\ left \in [Kinds -> Nat]

(* None is none of what may be there instead.                              *)
ASSUME ViewAssumption ==
  /\ None \notin Shown
  /\ None \notin [device : Devices, found : [Endpoints -> 0..MaxRuntimes]]
  /\ None \notin [value : Optional(Endpoints)]
  /\ None \notin [device : Devices, ahead : Nat, deleted : BOOLEAN]

Spend(kind) == left[kind] > 0 /\ left' = [left EXCEPT ![kind] = @ - 1]

(* activeDevice, and activeEndpoint.                                       *)
ActiveDevice == IF active \in listed THEN active ELSE None
ActiveEndpoint ==
  IF chosen # None /\ ActiveDevice # None /\ DeviceOf[chosen] = ActiveDevice /\ shown[chosen] # None
  THEN chosen ELSE None

Nothing == [e \in Endpoints |-> None]
Of(view, device) ==
  [e \in Endpoints |-> IF DeviceOf[e] = device THEN view[e] ELSE None]
Offline(view) ==
  [e \in Endpoints |-> IF view[e] = None THEN None ELSE [view[e] EXCEPT !.online = FALSE]]

ShowsOnline(view) == \E e \in Endpoints : view[e] # None /\ view[e].online
Carried(view) == {DeviceOf[e] : e \in {x \in Endpoints : view[x] # None}}

(* mergeEndpoints: what is preferred hides what is not.                    *)
Merged(base, preferred) ==
  [e \in Endpoints |-> IF preferred[e] # None THEN preferred[e] ELSE base[e]]

(* The page opens: it has read its devices and takes one of them.  What    *)
(* its endpoints' rows say is what an earlier page knew.                   *)
RegistryInit ==
  /\ \E s \in Starts :
       /\ live = s.live /\ rows = s.rows /\ left = s.bounds
       /\ runtimes = [e \in Endpoints |-> IF s.live[e] > s.rows[e] THEN s.live[e] ELSE s.rows[e]]
       /\ stored = s.listed /\ listed = s.listed
  /\ subscribed = {} /\ due = {}
  /\ setting = [d \in Devices |-> None]
  /\ shown = Nothing /\ history = [e \in Endpoints |-> <<>>]
  /\ epoch = 0 /\ chain = <<>>
  /\ active \in IF listed = {} THEN {None} ELSE listed
  /\ loading = IF active = None THEN None
               ELSE [device |-> active,
                     found |-> [e \in Endpoints |-> IF DeviceOf[e] = active THEN rows[e] ELSE 0]]
  /\ chosen = None /\ restoring = None
  /\ removing = None /\ overtaken = {}
  /\ readded = {DeviceOf[e] : e \in {x \in Endpoints : rows[x] # 0}} \ listed

-----------------------------------------------------------------------------
(* The selection.  A change of activeDevice, and every new list of         *)
(* devices, starts reading what is stored of it.  The dialog of a removal  *)
(* keeps the user from the page until it is done.                          *)

ActiveDeviceEffects(device, choice) ==
  IF device = None
  THEN /\ loading' = None /\ restoring' = None /\ chosen' = None /\ shown' = Nothing
       /\ overtaken' = overtaken \cup (listed' \ listed) \cup Carried(shown)
  ELSE /\ loading' = [device |-> device,
                      found |-> [e \in Endpoints |-> IF DeviceOf[e] = device THEN rows[e] ELSE 0]]
       /\ restoring' = [value |-> setting'[device]]
       /\ chosen' = choice
       /\ shown' = shown /\ overtaken' = overtaken \cup (listed' \ listed)

SelectDevice(d) ==
  /\ Spend("select") /\ removing = None /\ d \in listed /\ d # active
  /\ active' = d
  /\ UNCHANGED <<hostVars, subscribed, due, tableVars, listed, history, epoch, chain, removing, readded>>
  /\ ActiveDeviceEffects(d, None)

SelectEndpoint(e) ==
  /\ Spend("select") /\ removing = None /\ ActiveDevice # None /\ DeviceOf[e] = ActiveDevice /\ shown[e] # None
  /\ chosen' = e /\ restoring' = None
  /\ setting' = [setting EXCEPT ![active] = e]
  /\ UNCHANGED <<hostVars, subscribed, due, stored, rows, listed, viewVars, active, removing>>

FinishRestore ==
  /\ restoring # None
  /\ chosen' = restoring.value /\ restoring' = None
  /\ UNCHANGED <<hostVars, subscribed, due, tableVars, listed, viewVars, active, removing, left>>

(* The stored endpoints are shown offline, unless they are known already;  *)
(* those of other devices go.                                              *)
FinishLoad ==
  /\ loading # None /\ loading' = None
  /\ shown' = Merged([e \in Endpoints |-> IF loading.found[e] = 0 THEN None
                                          ELSE [runtime |-> loading.found[e], online |-> FALSE]],
                     Of(shown, loading.device))
  /\ overtaken' = overtaken \cup (Carried(shown) \ {loading.device})
  /\ UNCHANGED <<hostVars, subscribed, due, tableVars, listed, history, epoch, chain, readded,
                 selectionVars, removing, left>>

-----------------------------------------------------------------------------
(* acceptEndpointRuntime.                                                  *)

Known(e) ==
  IF shown[e] # None /\ shown[e].runtime \notin ToSet(history[e])
  THEN Append(history[e], shown[e].runtime) ELSE history[e]

(* Slip: a runtime is rejected only while it is not the one shown.         *)
AcceptsShown(e, r) == shown[e] = None \/ shown[e].runtime # r
Accepts(e, r) == r \in ToSet(Known(e)) => r = Last(Known(e))

Remembered(e, r) == IF r \in ToSet(Known(e)) THEN Known(e) ELSE Append(Known(e), r)

(* A stored row shown after a report is learnt after the newer runtime,    *)
(* which is rejected from then on.                                         *)
LearntBackwards(e) ==
  \E i, j \in DOMAIN history[e] : i < j /\ history[e][i] > history[e][j]

Persist(device, next) ==
  /\ chain' = Append(chain, [device |-> device, epoch |-> epoch, next |-> next, step |-> "start"])
  /\ readded' = readded \cup {d \in Carried(next) : d \notin stored \/ (removing # None /\ removing.device = d)}

(* The devices whose endpoints are about to be shown as they were.         *)
Pending == UNION {{chain[i].device} \cup Carried(chain[i].next) : i \in DOMAIN chain}

(* applyControl for "endpoints".                                           *)
ApplySnapshot(d) ==
  LET present == {e \in Endpoints : DeviceOf[e] = d /\ live[e] # 0} IN
  /\ history' = [e \in Endpoints |-> IF e \in present THEN Remembered(e, live[e]) ELSE history[e]]
  /\ Persist(d, [e \in Endpoints |->
                   IF DeviceOf[e] # d THEN None
                   ELSE IF e \notin present THEN Offline(shown)[e]
                   ELSE IF Accepts(e, live[e]) THEN [runtime |-> live[e], online |-> TRUE]
                   ELSE shown[e]])
  /\ UNCHANGED shown

(* applyControl for "endpoint_announced" and "endpoint_updated".           *)
ApplyEvent(e, r) ==
  /\ history' = [history EXCEPT ![e] = Remembered(e, r)]
  /\ IF Accepts(e, r)
     THEN Persist(DeviceOf[e], [shown EXCEPT ![e] = [runtime |-> r, online |-> TRUE]])
     ELSE UNCHANGED <<chain, readded>>
  /\ UNCHANGED shown

(* applyControl for "endpoint_ended".                                      *)
ApplyEnd(e, r) ==
  /\ shown' = IF shown[e] # None /\ shown[e].runtime = r
              THEN [shown EXCEPT ![e].online = FALSE] ELSE shown
  /\ UNCHANGED <<history, chain, readded>>

Report(d, Apply) ==
  /\ IF d \in subscribed \cap listed
     THEN Apply /\ overtaken' = overtaken \cup Pending
     ELSE UNCHANGED <<history, chain, shown, overtaken, readded>>
  /\ UNCHANGED <<epoch, loading, tableVars, listed, selectionVars, removing, subscribed>>

Snapshot(d) ==
  /\ d \in due /\ due' = due \ {d}
  /\ IF d \in listed THEN ApplySnapshot(d) ELSE UNCHANGED <<history, chain, shown, readded>>
  /\ subscribed' = subscribed \cup {d}
  /\ overtaken' = overtaken \ {d}
  /\ UNCHANGED <<hostVars, epoch, loading, tableVars, listed, selectionVars, removing, left>>

(* A runtime comes up, takes over from the one before, says something new  *)
(* or ends.  The relay tells a page that has its device's snapshot.        *)
HostStarts(e) ==
  /\ Spend("host") /\ runtimes[e] < MaxRuntimes /\ DeviceOf[e] \notin due
  /\ runtimes' = [runtimes EXCEPT ![e] = @ + 1]
  /\ live' = [live EXCEPT ![e] = runtimes'[e]]
  /\ Report(DeviceOf[e], ApplyEvent(e, live'[e]))
  /\ UNCHANGED due

HostUpdates(e) ==
  /\ Spend("host") /\ live[e] # 0 /\ DeviceOf[e] \notin due
  /\ Report(DeviceOf[e], ApplyEvent(e, live[e]))
  /\ UNCHANGED <<hostVars, due>>

HostEnds(e) ==
  /\ Spend("host") /\ live[e] # 0 /\ DeviceOf[e] \notin due
  /\ live' = [live EXCEPT ![e] = 0]
  /\ Report(DeviceOf[e], ApplyEnd(e, live[e]))
  /\ UNCHANGED <<runtimes, due>>

-----------------------------------------------------------------------------
(* persistEndpoints, one operation after another.                          *)

Step(step) == chain # <<>> /\ Head(chain).step = step
Proceed(step) == chain' = [chain EXCEPT ![1].step = step]
Stale == Head(chain).epoch # epoch

(* An operation is over; a removal may be waiting for it.                  *)
Over ==
  /\ chain' = Tail(chain)
  /\ removing' = IF removing = None \/ removing.ahead = 0 THEN removing
                 ELSE [removing EXCEPT !.ahead = @ - 1]

(* It is over early.                                                       *)
Dropped == Over /\ overtaken' = overtaken \cup {Head(chain).device}

PersistStart ==
  /\ Step("start")
  /\ IF Stale \/ Head(chain).device \notin stored THEN Dropped
     ELSE Proceed("look") /\ UNCHANGED <<removing, overtaken>>
  /\ UNCHANGED <<rows, shown>>

PersistWrite ==
  /\ Step("look")
  /\ IF Stale THEN Dropped /\ UNCHANGED rows
     ELSE /\ Proceed("write") /\ UNCHANGED <<removing, overtaken>>
          /\ rows' = [e \in Endpoints |-> IF Head(chain).next[e] = None THEN rows[e]
                                          ELSE Head(chain).next[e].runtime]
  /\ UNCHANGED shown

PersistInstall ==
  /\ Step("write")
  /\ IF Stale THEN Dropped /\ UNCHANGED shown
     ELSE /\ Over /\ UNCHANGED overtaken
          /\ shown' = Merged([e \in Endpoints |-> IF DeviceOf[e] = Head(chain).device THEN None
                                                  ELSE shown[e]],
                             Head(chain).next)
  /\ UNCHANGED rows

PersistStep ==
  /\ PersistStart \/ PersistWrite \/ PersistInstall
  /\ UNCHANGED <<hostVars, subscribed, due, stored, setting, listed, history, epoch, loading,
                 selectionVars, readded, left>>

-----------------------------------------------------------------------------
(* The removal of a pairing waits for the operations there are, deletes,   *)
(* and lists what remains.                                                 *)

(* Slip: invalidatePersistence is not called.                              *)
RemoveAtOnce(d) ==
  /\ Spend("remove") /\ removing = None /\ d \in listed
  /\ removing' = [device |-> d, ahead |-> 0, deleted |-> FALSE]
  /\ UNCHANGED <<hostVars, subscribed, due, tableVars, listed, viewVars, selectionVars>>

RemovePairing(d) ==
  /\ Spend("remove") /\ removing = None /\ d \in listed
  /\ epoch' = epoch + 1
  /\ removing' = [device |-> d, ahead |-> Len(chain), deleted |-> FALSE]
  /\ UNCHANGED <<hostVars, subscribed, due, tableVars, listed, shown, history, chain, loading,
                 overtaken, readded, selectionVars>>

(* removePwaDeviceData.                                                    *)
RemoveData ==
  /\ removing # None /\ removing.ahead = 0 /\ ~removing.deleted
  /\ stored' = stored \ {removing.device}
  /\ rows' = [e \in Endpoints |-> IF DeviceOf[e] = removing.device THEN 0 ELSE rows[e]]
  /\ setting' = [setting EXCEPT ![removing.device] = None]
  /\ removing' = [removing EXCEPT !.deleted = TRUE]
  /\ UNCHANGED <<hostVars, subscribed, due, listed, viewVars, selectionVars, left>>

(* setDevices(remaining), and selectDevice when it was the active one.     *)
RemoveDone ==
  /\ removing # None /\ removing.deleted /\ removing' = None
  /\ listed' = stored
  /\ \E next \in IF active # removing.device THEN {active}
                 ELSE IF stored = {} THEN {None} ELSE stored :
       /\ active' = next
       /\ UNCHANGED tableVars
       /\ ActiveDeviceEffects(IF next \in stored THEN next ELSE None,
                              IF active # removing.device THEN chosen ELSE None)
  /\ UNCHANGED <<hostVars, history, epoch, chain, readded, left>>

=============================================================================
