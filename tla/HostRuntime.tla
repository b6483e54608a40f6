---------------------------- MODULE HostRuntime -----------------------------
(***************************************************************************)
(* One Pi runtime as a remote host: the pairing coordinator                *)
(* (pi-extension/src/runtime/pairing_coordinator.ts), the owner records    *)
(* and their mutation lane (pairing/owner_storage.ts), the owner bindings  *)
(* and the endpoint update queue (index.ts), the owner router              *)
(* (runtime/owner_router.ts) and the revoke command (daemon/commands.ts),  *)
(* over the relay lifecycle and the QR session.                            *)
(*                                                                         *)
(* As in Supervisor, a callback runs to its end with every promise         *)
(* reaction that is ready (Busy) before the next one.  What a step awaits  *)
(* is a file operation or the relay.  A file read returns any contents the *)
(* file had while it was read; writeFile truncates peers.json first, and   *)
(* a read that meets the truncated file parses nothing and yields no owner.*)
(***************************************************************************)
EXTENDS RelayLifecycle, QrSession

CONSTANTS
  Paired,       (* the owners of peers.json at the start                   *)
  MaxTokens, MaxDeliveries, MaxFrames, MaxRevokes, MaxRefreshes, MaxFaults,
  MaxSwitches,  (* bounds: tokens, pair_requests, session frames, revokes, *)
                (* status changes, failing writes, session switches        *)
  MaxEvents     (* bound: all of these and the starts together             *)

VARIABLES
  peers,     (* peers.json: the number of each owner's record, or None     *)
  slotToken, (* _ownerSlotTokens                                           *)
  lane,      (* _peerMutationQueue                                         *)
  qr,        (* qrSession.active                                           *)
  attempts,  (* every run of the coordinator, in order                     *)
  waiting,   (* requests that await the completion of a pending attempt    *)
  bindings,  (* activeOwners                                               *)
  bound,     (* bindings created so far                                    *)
  lookups,   (* the router's findKnownOwner calls under way                *)
  updates,   (* endpointUpdateQueue                                        *)
  hello,     (* the ACL in the options of the latest candidate             *)
  acl,       (* authorized_owner_ids as last sent to the active relay      *)
  told,      (* what that was sent with                                    *)
  session,   (* currentSessionManager is set                               *)
  reply,     (* the last pairing reply sent to each owner                  *)
  confirmed, (* owners paired, by pair_ok or from the start, not revoked   *)
  used       (* used up of the bounds                                      *)

storageVars == <<peers, slotToken, lane>>
pairingVars == <<qr, attempts, waiting, reply, confirmed>>
ownerVars == <<bindings, bound, lookups, session>>
aclVars == <<updates, hello, acl, told>>
vars == <<lifecycleVars, storageVars, pairingVars, ownerVars, aclVars, used>>

Optional(S) == S \cup {None}

(* A record carries the number of the attempt that wrote it, 0 when it was *)
(* there before.                                                           *)
Binding == [no : Nat \ {0}, client : Nat \ {0}]

ASSUME HostAssumption ==
  /\ {MaxTokens, MaxDeliveries, MaxFrames, MaxRevokes, MaxRefreshes, MaxFaults,
      MaxSwitches, MaxEvents} \subseteq Nat
  /\ Paired \subseteq Owners
  /\ None \notin Nat \cup Binding \cup ActiveToken \cup Holder \cup {"paired"}

Mutation ==
  [kind : {"add", "rollback", "remove"}, owner : Owners, by : Nat,
   at : {"queued", "writing"}]

(* An update is for one client, or for whichever is active when it starts  *)
(* (0); by is the attempt that awaits it, 0 for none.                      *)
Update ==
  [client : Nat, by : Nat, at : {"queued", "reading"}, seen : SUBSET SUBSET Owners]

Attempt ==
  [owner : Owners, req : Requests, token : Tokens, client : Nat, binding : Binding,
   at : {"adding", "updating", "rolling", "refreshing", "done"},
   listed : BOOLEAN, slotToken : Nat, previous : Optional(Nat),
   outcome : {None, "paired", "failed", "stale", "undone", "kept"}]

Waiting == [client : Nat, owner : Owners, req : Requests, token : Tokens, on : Nat]

Bounds ==
  [tokens : 0..MaxTokens, deliveries : 0..MaxDeliveries, frames : 0..MaxFrames,
   revokes : 0..MaxRevokes, refreshes : 0..MaxRefreshes, faults : 0..MaxFaults,
   switches : 0..MaxSwitches]

TypeOK ==
  /\ LifecycleTypeOK
  /\ peers \in [Owners -> Optional(Nat)]
  /\ slotToken \in [Owners -> Nat]
  /\ lane \in Seq(Mutation)
  /\ qr \in Optional(ActiveToken)
  /\ attempts \in Seq(Attempt)
  /\ waiting \in Seq(Waiting)
  /\ bindings \in [Owners -> Optional(Binding)] /\ bound \in Nat
  /\ lookups \in SUBSET [owner : Owners, client : Nat, seen : SUBSET SUBSET Owners]
  /\ updates \in Seq(Update)
  /\ hello \in SUBSET Owners /\ acl \in SUBSET Owners
  /\ told \in {"initial", "reconnect", "update"}
  /\ session \in BOOLEAN
  /\ reply \in [Owners -> {None, "pair_ok", "pair_error"}]
  /\ confirmed \in SUBSET Owners
  /\ used \in Bounds

Known == {o \in Owners : peers[o] # None}

(* The first session has started; session_start or a command will start    *)
(* the relay.                                                              *)
Init ==
  /\ LifecycleInit
  /\ peers = [o \in Owners |-> IF o \in Paired THEN 0 ELSE None]
  /\ slotToken = [o \in Owners |-> 0]
  /\ lane = <<>> /\ qr = None /\ attempts = <<>> /\ waiting = <<>>
  /\ bindings = [o \in Owners |-> None] /\ bound = 0 /\ lookups = {}
  /\ updates = <<>> /\ hello = {} /\ acl = {} /\ told = "initial"
  /\ session = TRUE
  /\ reply = [o \in Owners |-> None]
  /\ confirmed = Known
  /\ used = [tokens |-> 0, deliveries |-> 0, frames |-> 0, revokes |-> 0,
             refreshes |-> 0, faults |-> 0, switches |-> 0]

Events ==
  used.tokens + used.deliveries + used.frames + used.revokes + used.refreshes
    + used.faults + used.switches + starts

Use(kind, max) ==
  /\ used[kind] < max /\ Events < MaxEvents
  /\ used' = [used EXCEPT ![kind] = @ + 1]

-----------------------------------------------------------------------------
(* Reading peers.json.                                                     *)

Writing == lane # <<>> /\ Head(lane).at = "writing"

Rewritten ==
  IF Head(lane).kind = "add" THEN Known \cup {Head(lane).owner}
                             ELSE Known \ {Head(lane).owner}

(* The owners a read can find now.                                         *)
Contents == {Known} \cup IF Writing THEN {{}, Rewritten} ELSE {}

-----------------------------------------------------------------------------
(* Promise reactions.                                                      *)

Busy ==
  \/ updates # <<>> /\ Head(updates).at = "queued"
  \/ \E i \in DOMAIN waiting : ~attempts[waiting[i].on].listed

Mutating(kind, o, by) == [kind |-> kind, owner |-> o, by |-> by, at |-> "queued"]

Updating(client, by) == [client |-> client, by |-> by, at |-> "queued", seen |-> {}]

LifecycleIsCurrent(a) ==
  IsCurrent(attempts[a].client) /\ bindings[attempts[a].owner] = attempts[a].binding

(* Slip: the binding and the relay are not looked at again.                *)
CanCommitByToken(a) == IsReservationCurrent(qr, a)

CanCommit(a) == LifecycleIsCurrent(a) /\ IsReservationCurrent(qr, a)

(* Slip: an attempt that leads to nothing leaves its request pending.      *)
FinishUnresolved(a, outcome) ==
  /\ attempts' = [attempts EXCEPT ![a].at = "done", ![a].outcome = outcome,
                                  ![a].listed = @ /\ outcome # "paired"]
  /\ qr' = IF outcome = "paired" THEN Committed(qr) ELSE Released(qr, a)

(* The finally block of run().                                             *)
Finish(a, outcome) ==
  /\ attempts' = [attempts EXCEPT ![a].at = "done", ![a].listed = FALSE, ![a].outcome = outcome]
  /\ qr' = IF outcome = "paired" THEN Committed(qr) ELSE Released(qr, a)

(* run() after addPeer; an attempt is its own reservation.                 *)
AfterAdd(a, previous) ==
  LET ok == CanCommit(a)
      o == attempts[a].owner IN
  /\ attempts' = [attempts EXCEPT ![a].at = IF ok THEN "updating" ELSE "rolling",
                                  ![a].slotToken = slotToken[o] + 1,
                                  ![a].previous = previous]
  /\ updates' = IF ok THEN Append(updates, Updating(attempts[a].client, a)) ELSE updates
  /\ lane' = IF ok THEN Tail(lane) ELSE Append(Tail(lane), Mutating("rollback", o, a))
  /\ UNCHANGED <<qr, waiting, reply, confirmed>>

(* Slip: the record of an attempt that cannot be confirmed stays.          *)
AfterUpdateUnrolled(a, sent) ==
  LET o == attempts[a].owner
      paired == attempts[a].at = "updating" /\ sent /\ CanCommit(a) IN
  /\ Finish(a, IF attempts[a].at = "refreshing" THEN attempts[a].outcome
               ELSE IF paired THEN "paired" ELSE "failed")
  /\ reply' = IF paired THEN [reply EXCEPT ![o] = "pair_ok"] ELSE reply
  /\ confirmed' = IF paired THEN confirmed \cup {o} ELSE confirmed
  /\ UNCHANGED <<lane, waiting>>

(* run() after updateEndpoint, and rollback() after its refresh.           *)
AfterUpdate(a, sent) ==
  LET o == attempts[a].owner IN
  CASE attempts[a].at = "refreshing" ->
         Finish(a, attempts[a].outcome) /\ UNCHANGED <<lane, reply, confirmed, waiting>>
    [] attempts[a].at = "updating" /\ sent /\ CanCommit(a) ->
         /\ Finish(a, "paired")
         /\ reply' = [reply EXCEPT ![o] = "pair_ok"]
         /\ confirmed' = confirmed \cup {o}
         /\ UNCHANGED <<lane, waiting>>
    [] OTHER ->
         /\ attempts' = [attempts EXCEPT ![a].at = "rolling"]
         /\ lane' = Append(lane, Mutating("rollback", o, a))
         /\ UNCHANGED <<qr, reply, confirmed, waiting>>

(* The update at the head of the queue starts, or finds no open relay.     *)
StartUpdate ==
  /\ updates # <<>> /\ Head(updates).at = "queued"
  /\ LET u == Head(updates)
         target == IF u.client = 0 THEN active ELSE u.client IN
     IF IsOpen(target) /\ IsCurrent(target)
     THEN /\ updates' = [updates EXCEPT ![1].at = "reading", ![1].client = target,
                                        ![1].seen = Contents]
          /\ UNCHANGED <<lane, pairingVars>>
     ELSE /\ updates' = Tail(updates)
          /\ IF u.by = 0 THEN UNCHANGED <<lane, pairingVars>> ELSE AfterUpdate(u.by, FALSE)
  /\ UNCHANGED <<lifecycleVars, peers, slotToken, ownerVars, hello, acl, told, used>>

(* listPeers resolves and the endpoint_update is sent.                     *)
SendUpdate ==
  /\ ~Busy
  /\ updates # <<>>
  /\ LET u == Head(updates)
         sent == IsOpen(u.client) /\ IsCurrent(u.client) IN
     \E owners \in u.seen \cup Contents :
       /\ acl' = IF sent THEN owners ELSE acl
       /\ told' = IF sent THEN "update" ELSE told
       /\ updates' = Tail(updates)
       /\ IF u.by = 0 THEN UNCHANGED <<lane, pairingVars>> ELSE AfterUpdate(u.by, sent)
  /\ UNCHANGED <<lifecycleVars, peers, slotToken, ownerVars, hello, used>>

-----------------------------------------------------------------------------
(* The mutation lane.                                                      *)

(* addPeer or removePeer has read the file and truncates it.               *)
BeginWrite ==
  /\ ~Busy
  /\ lane # <<>>
  /\ LET m == Head(lane) IN
     /\ m.at = "queued"
     /\ m.kind = "add" \/ (m.kind = "remove" /\ peers[m.owner] # None)
  /\ lane' = [lane EXCEPT ![1].at = "writing"]
  /\ UNCHANGED <<lifecycleVars, peers, slotToken, pairingVars, ownerVars, aclVars, used>>

EndAdd ==
  /\ ~Busy
  /\ Writing /\ Head(lane).kind = "add"
  /\ LET o == Head(lane).owner
         a == Head(lane).by IN
     /\ peers' = [peers EXCEPT ![o] = a]
     /\ slotToken' = [slotToken EXCEPT ![o] = @ + 1]
     /\ AfterAdd(a, peers[o])
  /\ UNCHANGED <<lifecycleVars, ownerVars, hello, acl, told, used>>

(* addPeer or removePeer rejects before it touches the file.               *)
FailWrite ==
  /\ ~Busy
  /\ Use("faults", MaxFaults)
  /\ lane # <<>> /\ Head(lane).at = "queued"
  /\ \/ /\ Head(lane).kind = "add"
        /\ LET a == Head(lane).by IN
           /\ Finish(a, "failed")
           /\ reply' = IF LifecycleIsCurrent(a) /\ IsOpen(attempts[a].client)
                       THEN [reply EXCEPT ![attempts[a].owner] = "pair_error"] ELSE reply
     \/ Head(lane).kind = "remove" /\ UNCHANGED <<qr, attempts, reply>>
  /\ lane' = Tail(lane)
  /\ UNCHANGED <<lifecycleVars, peers, slotToken, waiting, confirmed, ownerVars, aclVars>>

(* Slip: a rollback removes the record whoever wrote it last.              *)
RemovedAnyway(a) ==
  IF peers[attempts[a].owner] # None THEN "undone" ELSE "stale"

(* conditionalRollbackPeer: a later write to the owner's slot makes it stale*)
RollbackOutcome(a) ==
  LET o == attempts[a].owner IN
  IF slotToken[o] = attempts[a].slotToken /\ peers[o] = a THEN "undone" ELSE "stale"

(* A rollback that fails leaves the file as it is.                         *)
Rollback ==
  /\ ~Busy
  /\ lane # <<>> /\ Head(lane).kind = "rollback"
  /\ LET o == Head(lane).owner
         a == Head(lane).by IN
     /\ \E outcome \in {RollbackOutcome(a), "kept"} :
          /\ IF outcome = "kept" THEN Use("faults", MaxFaults) ELSE UNCHANGED used
          /\ IF outcome = "undone"
             THEN /\ peers' = [peers EXCEPT ![o] = attempts[a].previous]
                  /\ slotToken' = [slotToken EXCEPT ![o] = @ + 1]
             ELSE UNCHANGED <<peers, slotToken>>
          /\ attempts' = [attempts EXCEPT ![a].at = "refreshing", ![a].outcome = outcome]
     /\ updates' = Append(updates, Updating(0, a))
  /\ lane' = Tail(lane)
  /\ UNCHANGED <<lifecycleVars, qr, waiting, reply, confirmed, ownerVars, hello, acl, told>>

(* revoke() has found the owner and calls removePeer.                      *)
Revoke(o) ==
  /\ ~Busy
  /\ o \in Known
  /\ Use("revokes", MaxRevokes)
  /\ lane' = Append(lane, Mutating("remove", o, 0))
  /\ UNCHANGED <<lifecycleVars, peers, slotToken, pairingVars, ownerVars, aclVars>>

(* removePeer resolves: closeOwner and updateEndpoint.                     *)
Revoked ==
  /\ ~Busy
  /\ lane # <<>> /\ Head(lane).kind = "remove"
  /\ Writing \/ peers[Head(lane).owner] = None
  /\ LET o == Head(lane).owner IN
     /\ peers' = [peers EXCEPT ![o] = None]
     /\ slotToken' = IF peers[o] = None THEN slotToken ELSE [slotToken EXCEPT ![o] = @ + 1]
     /\ bindings' = [bindings EXCEPT ![o] = None]
     /\ confirmed' = confirmed \ {o}
  /\ lane' = Tail(lane)
  /\ updates' = Append(updates, Updating(0, 0))
  /\ UNCHANGED <<lifecycleVars, qr, attempts, waiting, reply, bound, lookups, session,
                 hello, acl, told, used>>

-----------------------------------------------------------------------------
(* Requests and frames of the owners.                                      *)

(* attachOwner: nothing while there is no session to serve.                *)
Attach(o, client) ==
  IF session
  THEN /\ bindings' = [bindings EXCEPT ![o] = [no |-> bound + 1, client |-> client]]
       /\ bound' = bound + 1
  ELSE bindings' = [bindings EXCEPT ![o] = None] /\ UNCHANGED bound

Pending(o, q) ==
  {a \in DOMAIN attempts : attempts[a].listed /\ attempts[a].owner = o /\ attempts[a].req = q}

NewAttempt(client, o, q, token) ==
  [owner |-> o, req |-> q, token |-> token, client |-> client,
   binding |-> [no |-> bound + 1, client |-> client],
   at |-> "adding", listed |-> TRUE, slotToken |-> 0, previous |-> None, outcome |-> None]

Reply(o, client, frame) ==
  reply' = IF IsOpen(client) THEN [reply EXCEPT ![o] = frame] ELSE reply

(* handle(), with the requests that wait besides this one.                 *)
Handle(client, o, q, token, others) ==
  LET new == Len(attempts) + 1
      answer == Answer(qr, token, o, q) IN
  CASE ~IsCurrent(client) ->
         /\ waiting' = others
         /\ UNCHANGED <<qr, attempts, reply, bindings, bound, lane>>
    [] IsCurrent(client) /\ Pending(o, q) # {} ->
         /\ waiting' = Append(others, [client |-> client, owner |-> o, req |-> q, token |-> token,
                                       on |-> CHOOSE a \in Pending(o, q) : TRUE])
         /\ UNCHANGED <<qr, attempts, reply, bindings, bound, lane>>
    [] OTHER ->
         /\ waiting' = others
         /\ CASE answer = "committed" ->
                   /\ IF bindings[o] = None THEN Attach(o, client) ELSE UNCHANGED <<bindings, bound>>
                   /\ IF bindings[o] = None /\ ~session THEN UNCHANGED reply
                      ELSE Reply(o, client, "pair_ok")
                   /\ UNCHANGED <<qr, attempts, lane>>
              [] answer = "reserved" ->
                   /\ Attach(o, client)
                   /\ IF session
                      THEN /\ qr' = Reserved(qr, o, q, new)
                           /\ attempts' = Append(attempts, NewAttempt(client, o, q, token))
                           /\ lane' = Append(lane, Mutating("add", o, new))
                      ELSE /\ qr' = LET held == Reserved(qr, o, q, new) IN
                                  Released(held, held.holder.reservation)
                           /\ UNCHANGED <<attempts, lane>>
                   /\ UNCHANGED reply
              [] OTHER ->
                   /\ Reply(o, client, "pair_error")
                   /\ UNCHANGED <<qr, attempts, bindings, bound, lane>>

(* A pair_request comes in on the active relay.                            *)
PairRequest(o, q, token) ==
  /\ ~Busy
  /\ IsOpen(active)
  /\ Use("deliveries", MaxDeliveries)
  /\ Handle(active, o, q, token, waiting)
  /\ UNCHANGED <<lifecycleVars, peers, slotToken, confirmed, lookups, session, aclVars>>

(* The attempt a request waited for is over and the request starts again.  *)
HandleAgain(i) ==
  /\ LET w == waiting[i] IN
     /\ ~attempts[w.on].listed
     /\ Handle(w.client, w.owner, w.req, w.token,
               SubSeq(waiting, 1, i - 1) \o SubSeq(waiting, i + 1, Len(waiting)))
  /\ UNCHANGED <<lifecycleVars, peers, slotToken, confirmed, lookups, session, aclVars, used>>

(* A session frame of an owner the relay lets through, who has no binding. *)
SessionFrame(o) ==
  /\ ~Busy
  /\ IsOpen(active) /\ o \in acl /\ bindings[o] = None
  /\ Use("frames", MaxFrames)
  /\ lookups' = lookups \cup {[owner |-> o, client |-> active, seen |-> Contents]}
  /\ UNCHANGED <<lifecycleVars, storageVars, pairingVars, bindings, bound, session, aclVars>>

(* Slip: the relay is not looked at again after findKnownOwner.            *)
AttachFound(l) ==
  /\ ~Busy
  /\ lookups' = lookups \ {l}
  /\ \E owners \in l.seen \cup Contents :
       IF l.owner \in owners THEN Attach(l.owner, l.client) ELSE UNCHANGED <<bindings, bound>>
  /\ UNCHANGED <<lifecycleVars, storageVars, pairingVars, session, aclVars, used>>

(* findKnownOwner resolves.                                                *)
Found(l) ==
  /\ ~Busy
  /\ lookups' = lookups \ {l}
  /\ \E owners \in l.seen \cup Contents :
       IF l.owner \in owners /\ IsCurrent(l.client) THEN Attach(l.owner, l.client)
       ELSE UNCHANGED <<bindings, bound>>
  /\ UNCHANGED <<lifecycleVars, storageVars, pairingVars, session, aclVars, used>>

-----------------------------------------------------------------------------
(* The host's own events.                                                  *)

(* The pair command, or its repetition: the old token is gone.             *)
IssueToken ==
  /\ ~Busy
  /\ IsOpen(active)
  /\ Use("tokens", MaxTokens)
  /\ qr' = Issued(used.tokens + 1)
  /\ UNCHANGED <<lifecycleVars, storageVars, attempts, waiting, reply, confirmed, ownerVars, aclVars>>

ExpireToken ==
  /\ ~Busy
  /\ qr # None
  /\ qr' = [qr EXCEPT !.expired = TRUE]
  /\ UNCHANGED <<lifecycleVars, storageVars, attempts, waiting, reply, confirmed, ownerVars, aclVars, used>>

(* A turn starts or ends, or the model or thinking level changes.          *)
Refresh ==
  /\ ~Busy
  /\ Use("refreshes", MaxRefreshes)
  /\ updates' = Append(updates, Updating(0, 0))
  /\ UNCHANGED <<lifecycleVars, storageVars, pairingVars, ownerVars, hello, acl, told>>

(* Pi replaces the session: session_shutdown; then session_start, which    *)
(* says bye to every owner and may start the relay.  A replacement the     *)
(* session-new bridge runs says bye a moment later.                        *)
SwitchSession ==
  /\ ~Busy
  /\ session' = ~session
  /\ \/ /\ session
        /\ Use("switches", MaxSwitches)
        /\ UNCHANGED <<lifecycleVars, bindings>>
     \/ /\ ~session
        /\ bindings' = [o \in Owners |-> None]
        /\ Start \/ UNCHANGED lifecycleVars
        /\ UNCHANGED used
  /\ UNCHANGED <<storageVars, pairingVars, bound, lookups, aclVars>>

-----------------------------------------------------------------------------
(* The relay lifecycle and what it calls.                                  *)

(* onDisconnected: every owner is detached, and the attempts whose relay   *)
(* and binding are gone give up their token.                               *)
OnDisconnected ==
  /\ bindings' = [o \in Owners |-> None]
  /\ attempts' = [a \in DOMAIN attempts |-> [attempts[a] EXCEPT !.listed = FALSE]]
  /\ qr' = IF \E a \in DOMAIN attempts : attempts[a].listed /\ Holds(qr, a)
           THEN Released(qr, qr.holder.reservation) ELSE qr
  /\ UNCHANGED <<storageVars, waiting, reply, confirmed, bound, lookups, session, aclVars, used>>

(* Slip: a reconnection relies on its hello, too.                          *)
OnConnectedUnrefreshed(run) ==
  /\ acl' = hello
  /\ told' = run.kind
  /\ UNCHANGED <<updates, hello>>

(* onConnected; only a reconnection refreshes the endpoint.                *)
OnConnected(run) ==
  /\ acl' = hello
  /\ told' = run.kind
  /\ updates' = IF run.kind = "reconnect" THEN Append(updates, Updating(run.client, 0)) ELSE updates
  /\ UNCHANGED hello

Connect(run) ==
  /\ ~Busy
  /\ \/ /\ LoadIdentity(run) \/ ConnectFails(run)
        /\ UNCHANGED aclVars
     \/ /\ BeginConnect(run)
        /\ hello' \in Contents
        /\ UNCHANGED <<updates, acl, told>>
     \/ /\ Connected(run)
        /\ IF Accepted(run) THEN OnConnected(run) ELSE UNCHANGED aclVars
  /\ UNCHANGED <<storageVars, pairingVars, ownerVars, used>>

Lifecycle ==
  /\ ~Busy
  /\ Start \/ FireReconnect \/ Lose
  /\ UNCHANGED <<storageVars, pairingVars, ownerVars, aclVars, used>>

Close == ~Busy /\ OnRelayClose /\ OnDisconnected

(* The stop command.                                                       *)
Stop ==
  /\ ~Busy
  /\ state = "started" \/ initial # 0
  /\ StopRelay /\ UNCHANGED disposed
  /\ OnDisconnected

(* session_shutdown when Pi quits.                                         *)
Quit ==
  /\ ~Busy
  /\ ~disposed
  /\ StopRelay /\ disposed' = TRUE
  /\ OnDisconnected

-----------------------------------------------------------------------------
React == StartUpdate \/ \E i \in DOMAIN waiting : HandleAgain(i)

Next ==
  \/ React
  \/ SendUpdate
  \/ BeginWrite \/ EndAdd \/ FailWrite \/ Rollback \/ Revoked
  \/ \E o \in Owners, q \in Requests, token \in 1..used.tokens : PairRequest(o, q, token)
  \/ \E o \in Owners : SessionFrame(o) \/ Revoke(o)
  \/ \E l \in lookups : Found(l)
  \/ IssueToken \/ ExpireToken \/ Refresh \/ SwitchSession
  \/ \E run \in ops : Connect(run)
  \/ Lifecycle \/ Close \/ Stop \/ Quit

(* Promise reactions run and file operations end.  Nothing else need ever  *)
(* happen: the relay may stay away and the owners silent.                  *)
Fairness ==
  /\ WF_vars(React) /\ WF_vars(SendUpdate)
  /\ WF_vars(BeginWrite \/ EndAdd \/ Rollback \/ Revoked)

Spec == Init /\ [][Next]_vars /\ Fairness

-----------------------------------------------------------------------------
Settled ==
  /\ ~Busy /\ lane = <<>> /\ updates = <<>> /\ lookups = {} /\ waiting = <<>>

(* An owner is bound to the relay connection he came in on, and to no      *)
(* other: what is sent to him never goes to a client that was replaced.    *)
BindingsAreCurrent ==
  \A o \in Owners : bindings[o] # None => IsCurrent(bindings[o].client)

(* When pair_ok goes out, the record this very attempt wrote is in         *)
(* peers.json, the owner is bound to the active relay, and the token is    *)
(* the attempt's: a revocation, a newer attempt, a new token or another    *)
(* connection in between takes the pair_ok away.                           *)
PairOkIsDurable ==
  [][\A a \in DOMAIN attempts :
       attempts'[a].outcome = "paired" /\ attempts[a].outcome # "paired" =>
         LET o == attempts[a].owner IN
         /\ peers'[o] = a
         /\ bindings'[o] = attempts[a].binding /\ attempts[a].client = active'
         /\ qr' # None /\ qr'.token = attempts[a].token]_vars

(* A token serves one request of one owner and pairs him once, however     *)
(* attempts are abandoned and retried, by him or by another owner who read *)
(* the same code.                                                          *)
TokenPairsOnce ==
  \A a, b \in DOMAIN attempts :
    attempts[a].token = attempts[b].token =>
      /\ attempts[a].owner = attempts[b].owner /\ attempts[a].req = attempts[b].req
      /\ attempts[a].outcome = "paired" /\ attempts[b].outcome = "paired" => a = b

(* An owner who was told pair_ok stays in peers.json until he is revoked:  *)
(* no rollback of an older or newer attempt of his takes his record away.  *)
PairedUntilRevoked == confirmed \subseteq Known

(* At rest, a record in peers.json was there before, or its attempt ended  *)
(* in pair_ok, or its rollback failed, or a later write of the same owner  *)
(* overtook it.                                                            *)
UnpairedIsRolledBack ==
  Settled => \A o \in Known :
    peers[o] # 0 => attempts[peers[o]].outcome \in {"paired", "kept", "stale"}

(* At rest, an open relay has exactly the ACL of peers.json, whatever was  *)
(* written, revoked or rolled back and whatever connection it went over,   *)
(* unless it has only the ACL of an initial hello.                         *)
AclFollowsPeers ==
  Settled /\ IsOpen(active) => told = "initial" \/ acl = Known

(* Every request is answered or dropped and every attempt ends.            *)
AttemptsEnd ==
  (waiting # <<>> \/ \E a \in DOMAIN attempts : attempts[a].at # "done")
    ~> (waiting = <<>> /\ \A a \in DOMAIN attempts : attempts[a].at = "done")

-----------------------------------------------------------------------------
(* What pairing.md says.                                                   *)

(* Line 126: after a pair_error no session route is opened for the owner.  *)
(* At rest, an owner whose last answer is an error, and who was never      *)
(* paired, has no authority at the relay.                                  *)
ErrorOpensNothing ==
  Settled /\ IsOpen(active) =>
    \A o \in Owners : reply[o] = "pair_error" /\ o \notin confirmed => o \notin acl
=============================================================================
