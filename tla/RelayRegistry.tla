--------------------------- MODULE RelayRegistry ---------------------------
(***************************************************************************)
(* The relay: relay/src/handlers/peer.rs (one task per WebSocket) and      *)
(* relay/src/peers/registry.rs (the routing table the tasks share behind   *)
(* one mutex).                                                             *)
(*                                                                         *)
(* A connection is used once: it says hello, proves its identity, handles  *)
(* frames and leaves.  conn_id is only ever compared for equality, so the  *)
(* connection stands for the id the registry gave it.                      *)
(*                                                                         *)
(* Routes and snapshots are pushed to the receivers' channels while the    *)
(* mutex is held; endpoint events are computed under the mutex and pushed  *)
(* after it is released.  The handlers run on a multi-threaded runtime, so *)
(* a handler keeps its computed events in pending and pushes them one at a *)
(* time, with steps of every other handler in between.                     *)
(***************************************************************************)
EXTENDS Naturals, FiniteSets, Sequences

CONSTANTS
  Conns,      (* WebSocket connections                                     *)
  Devices,    (* host identities (device_id)                               *)
  Owners,     (* browser identities (owner_id)                             *)
  Endpoints,  (* endpoint_id values                                        *)
  Runtimes,   (* runtime_instance_id values                                *)
  Metas,      (* endpoint metadata                                         *)
  HelloOf,    (* the hello frames the client of a connection may send      *)
  MaxFrames,  (* bound: text frames the client of a connection sends       *)
  None

Optional(S) == S \cup {None}
Keys        == Devices \X Endpoints
Identities  == Devices \cup Owners

HostHello  == [role : {"host"}, id : Devices, endpoint : Endpoints,
               runtime : Runtimes, meta : Metas, acl : SUBSET Owners]
OwnerHello == [role : {"owner"}, id : Owners]
Hello      == HostHello \cup OwnerHello

HostConnection == [conn : Conns, runtime : Runtimes, meta : Metas,
                   acl : SUBSET Owners]

Purposes == {"pairing", "session"}

(* ct is opaque to the relay; here it is the connection that wrote it.     *)
RouteFrame == [type : {"route"}, purpose : Purposes, device : Devices,
               endpoint : Endpoints, runtime : Runtimes,
               target : Optional(Owners), source : Optional(Owners),
               ct : Conns]

EndpointInfo  == [endpoint : Endpoints, runtime : Runtimes, meta : Metas]
EndpointsLine == [type : {"endpoints"}, device : Devices,
                  endpoints : SUBSET EndpointInfo]
EndpointEvent == [type : {"endpoint_announced", "endpoint_updated",
                          "endpoint_ended"},
                  device : Devices, endpoint : Endpoints,
                  runtime : Runtimes, meta : Optional(Metas)]
Message == RouteFrame \cup EndpointsLine \cup EndpointEvent

EndpointUpdate == [meta : Optional(Metas), acl : Optional(SUBSET Owners)]

ASSUME RelayAssumption ==
  /\ MaxFrames \in [Conns -> Nat]
  /\ HelloOf \in [Conns -> SUBSET Hello]
  /\ None \notin Conns \cup Identities
  /\ None \notin Hello
  /\ None \notin HostConnection
  /\ IsFiniteSet(Devices)

VARIABLES
  phase,      (* where the handler of a connection is                      *)
  hello,      (* the hello it accepted                                     *)
  signer,     (* the identity whose key signed the connection's challenge  *)
  sent,       (* text frames the client has sent since it registered       *)
  endpoints,  (* RegistryInner.endpoints                                   *)
  owners,     (* RegistryInner.owners: the connections of each owner       *)
  subs,       (* subscribed_device_ids of an owner's connection            *)
  rx,         (* the channel a handler drains into its socket              *)
  pending     (* events a handler computed and has not pushed yet          *)

handlerVars  == <<phase, hello, signer, sent>>
registryVars == <<endpoints, owners, subs>>
vars == <<handlerVars, registryVars, rx, pending>>

Notification == [to : Conns, event : EndpointEvent]

TypeOK ==
  /\ phase \in [Conns -> {"hello", "auth", "active", "closing", "closed"}]
  /\ hello \in [Conns -> Optional(Hello)]
  /\ signer \in [Conns -> Optional(Identities)]
  /\ sent \in [Conns -> Nat]
  /\ endpoints \in [Keys -> Optional(HostConnection)]
  /\ owners \in [Owners -> SUBSET Conns]
  /\ subs \in [Conns -> SUBSET Devices]
  /\ rx \in [Conns -> Seq(Message)]
  /\ pending \in [Conns -> SUBSET Notification]

Init ==
  /\ phase = [c \in Conns |-> "hello"]
  /\ hello = [c \in Conns |-> None]
  /\ signer = [c \in Conns |-> None]
  /\ sent = [c \in Conns |-> 0]
  /\ endpoints = [k \in Keys |-> None]
  /\ owners = [o \in Owners |-> {}]
  /\ subs = [c \in Conns |-> {}]
  /\ rx = [c \in Conns |-> <<>>]
  /\ pending = [c \in Conns |-> {}]

-----------------------------------------------------------------------------
(* Operators marked Slip are faulty readings of the definition that        *)
(* follows them; nothing uses them.  They show what the properties catch.  *)

(* Events: who is told what when the entry of a key goes from prev to cur. *)

KeyOf(h) == <<h.id, h.endpoint>>

(* Slip: a stale handler recognised by its runtime instead of conn_id.     *)
HoldsByRuntime(k, c) ==
  endpoints[k] # None /\ endpoints[k].runtime = hello[c].runtime

Holds(k, c) == endpoints[k] # None /\ endpoints[k].conn = c
Sees(host, o) == host # None /\ o \in host.acl
Subscribers(o, d) == {c \in owners[o] : d \in subs[c]}

Event(t, k, r, m) ==
  [type |-> t, device |-> k[1], endpoint |-> k[2], runtime |-> r, meta |-> m]

EventFor(o, k, prev, cur) ==
  IF Sees(cur, o)
  THEN Event(IF Sees(prev, o) THEN "endpoint_updated" ELSE "endpoint_announced",
             k, cur.runtime, cur.meta)
  ELSE Event("endpoint_ended", k, prev.runtime, None)

(* Slip: only the owners that may see the endpoint now are told.           *)
DeltaOfVisible(k, prev, cur) ==
  UNION {{[to |-> c, event |-> EventFor(o, k, prev, cur)]
            : c \in Subscribers(o, k[1])}
            : o \in {p \in Owners : Sees(cur, p)}}

VisibilityDelta(k, prev, cur) ==
  UNION {{[to |-> c, event |-> EventFor(o, k, prev, cur)]
            : c \in Subscribers(o, k[1])}
            : o \in {p \in Owners : Sees(prev, p) \/ Sees(cur, p)}}

(* The snapshots a subscription answers with, one per device, in the order *)
(* the hash set yields the devices.                                        *)
EndpointsOf(o, d) ==
  [type |-> "endpoints", device |-> d,
   endpoints |-> {[endpoint |-> e, runtime |-> endpoints[<<d, e>>].runtime,
                   meta |-> endpoints[<<d, e>>].meta]
                    : e \in {f \in Endpoints : Sees(endpoints[<<d, f>>], o)}}]

Orders(S) == {s \in [1..Cardinality(S) -> S] : \A x \in S : \E i \in DOMAIN s : s[i] = x}

-----------------------------------------------------------------------------
(* Handshake.                                                              *)

ReceiveHello(c) ==
  /\ phase[c] = "hello"
  /\ \E h \in HelloOf[c] : hello' = [hello EXCEPT ![c] = h]
  /\ phase' = [phase EXCEPT ![c] = "auth"]
  /\ UNCHANGED <<signer, sent, registryVars, rx, pending>>

(* No hello in time, an invalid one, or a client gone before it signed.    *)
AbandonHandshake(c) ==
  /\ phase[c] \in {"hello", "auth"}
  /\ phase' = [phase EXCEPT ![c] = "closed"]
  /\ UNCHANGED <<hello, signer, sent, registryVars, rx, pending>>

(* Slip: the signature is checked against the key it came with.            *)
VerifyAnyKey(c, key) == key \in Identities

VerifyAuth(c, key) == key = hello[c].id

RejectAuth(c, key) ==
  /\ phase[c] = "auth"
  /\ ~VerifyAuth(c, key)
  /\ phase' = [phase EXCEPT ![c] = "closed"]
  /\ UNCHANGED <<hello, signer, sent, registryVars, rx, pending>>

Authenticated(c, key) ==
  /\ phase[c] = "auth"
  /\ VerifyAuth(c, key)
  /\ phase' = [phase EXCEPT ![c] = "active"]
  /\ signer' = [signer EXCEPT ![c] = key]
  /\ UNCHANGED <<hello, sent, subs, rx>>

RegisterHost(c, key) ==
  LET h == hello[c]
      host == [conn |-> c, runtime |-> h.runtime, meta |-> h.meta,
               acl |-> h.acl]
  IN
  /\ Authenticated(c, key)
  /\ h.role = "host"
  /\ endpoints' = [endpoints EXCEPT ![KeyOf(h)] = host]
  /\ pending' = [pending EXCEPT
                   ![c] = VisibilityDelta(KeyOf(h), endpoints[KeyOf(h)], host)]
  /\ UNCHANGED owners

(* Slip: a second browser of an owner replaces the first.                  *)
RegisterSoleOwner(c, key) ==
  /\ Authenticated(c, key)
  /\ hello[c].role = "owner"
  /\ owners' = [owners EXCEPT ![hello[c].id] = {c}]
  /\ UNCHANGED <<endpoints, pending>>

RegisterOwner(c, key) ==
  /\ Authenticated(c, key)
  /\ hello[c].role = "owner"
  /\ owners' = [owners EXCEPT ![hello[c].id] = @ \cup {c}]
  /\ UNCHANGED <<endpoints, pending>>

-----------------------------------------------------------------------------
(* The select loop of a registered connection.  handle_frame is            *)
(* synchronous: a handler takes no other branch until its events are out.  *)

Idle(c)   == phase[c] = "active" /\ pending[c] = {}
IsHost(c) == hello[c] # None /\ hello[c].role = "host"
IsOwner(c) == hello[c] # None /\ hello[c].role = "owner"

ReceiveFrame(c) ==
  /\ Idle(c)
  /\ sent[c] < MaxFrames[c]
  /\ sent' = [sent EXCEPT ![c] = @ + 1]
  /\ UNCHANGED <<phase, hello, signer>>

SubscribeEndpoints(c, D) ==
  /\ ReceiveFrame(c)
  /\ IsOwner(c)
  /\ c \in owners[hello[c].id]
  /\ subs' = [subs EXCEPT ![c] = D]
  /\ \E order \in Orders(D) :
       rx' = [rx EXCEPT ![c] = @ \o [i \in DOMAIN order |->
                                       EndpointsOf(hello[c].id, order[i])]]
  /\ UNCHANGED <<endpoints, owners, pending>>

Amended(host, update) ==
  [host EXCEPT !.meta = IF update.meta # None THEN update.meta ELSE @,
               !.acl  = IF update.acl # None THEN update.acl ELSE @]

UpdateHost(c, update) ==
  LET k == KeyOf(hello[c]) IN
  /\ ReceiveFrame(c)
  /\ IsHost(c)
  /\ Holds(k, c)
  /\ update.meta # None \/ update.acl # None
  /\ endpoints' = [endpoints EXCEPT ![k] = Amended(@, update)]
  /\ pending' = [pending EXCEPT
                   ![c] = VisibilityDelta(k, endpoints[k],
                                          Amended(endpoints[k], update))]
  /\ UNCHANGED <<owners, subs, rx>>

(* Slip: an owner's route is not compared with the runtime that runs now.  *)
OutcomeOfAnyRuntime(c, route) ==
  LET o == hello[c].id
      host == endpoints[<<route.device, route.endpoint>>]
  IN
  CASE route.target # None \/ route.source # None -> "Unauthorized"
    [] c \notin owners[o] -> "Stale"
    [] host = None -> "Unavailable"
    [] route.purpose = "session" /\ o \notin host.acl -> "Unauthorized"
    [] OTHER -> "Delivered"

OwnerRouteOutcome(c, route) ==
  LET o == hello[c].id
      host == endpoints[<<route.device, route.endpoint>>]
  IN
  CASE route.target # None \/ route.source # None -> "Unauthorized"
    [] c \notin owners[o] -> "Stale"
    [] host = None -> "Unavailable"
    [] host.runtime # route.runtime -> "Stale"
    [] route.purpose = "session" /\ o \notin host.acl -> "Unauthorized"
    [] OTHER -> "Delivered"

RouteFromOwner(c, route) ==
  LET receiver == endpoints[<<route.device, route.endpoint>>].conn IN
  /\ ReceiveFrame(c)
  /\ IsOwner(c)
  /\ OwnerRouteOutcome(c, route) = "Delivered"
  /\ rx' = [rx EXCEPT ![receiver] =
              Append(@, [route EXCEPT !.source = hello[c].id])]
  /\ UNCHANGED <<registryVars, pending>>

HostRouteOutcome(c, route) ==
  LET k == KeyOf(hello[c]) IN
  CASE route.target = None -> "Unauthorized"
    [] \/ ~Holds(k, c)
       \/ <<route.device, route.endpoint>> # k
       \/ route.runtime # endpoints[k].runtime
       \/ route.source # None -> "Stale"
    [] route.purpose = "session" /\ route.target \notin endpoints[k].acl
         -> "Unauthorized"
    [] owners[route.target] = {} -> "Unavailable"
    [] OTHER -> "Delivered"

RouteFromHost(c, route) ==
  /\ ReceiveFrame(c)
  /\ IsHost(c)
  /\ HostRouteOutcome(c, route) = "Delivered"
  /\ rx' = [d \in Conns |-> IF d \in owners[route.target]
                            THEN Append(rx[d], route) ELSE rx[d]]
  /\ UNCHANGED <<registryVars, pending>>

(* Every other frame is logged and dropped: invalid, not allowed for the   *)
(* role, stale, unauthorized or without a receiver.                        *)
DropFrame(c) ==
  /\ ReceiveFrame(c)
  /\ UNCHANGED <<registryVars, rx, pending>>

(* One tx.send of send_notifications.  A receiver that has left its loop   *)
(* never reads the event.                                                  *)
SendNotification(c) ==
  \E n \in pending[c] :
    /\ pending' = [pending EXCEPT ![c] = @ \ {n}]
    /\ rx' = IF phase[n.to] = "active"
             THEN [rx EXCEPT ![n.to] = Append(@, n.event)] ELSE rx
    /\ UNCHANGED <<handlerVars, registryVars>>

(* rx.recv() yields a message and sink.send writes it to the socket.       *)
WriteMessage(c) ==
  /\ Idle(c)
  /\ rx[c] # <<>>
  /\ rx' = [rx EXCEPT ![c] = Tail(@)]
  /\ UNCHANGED <<handlerVars, registryVars, pending>>

(* After the loop: unregister_connection.  Only the connection that still  *)
(* holds the key removes it, and only its removal is announced.            *)
Unregister(c) ==
  /\ Idle(c)
  /\ phase' = [phase EXCEPT ![c] = "closing"]
  /\ rx' = [rx EXCEPT ![c] = <<>>]
  /\ IF IsHost(c)
     THEN LET k == KeyOf(hello[c]) IN
          /\ endpoints' = IF Holds(k, c)
                          THEN [endpoints EXCEPT ![k] = None] ELSE endpoints
          /\ pending' = IF Holds(k, c)
                        THEN [pending EXCEPT
                                ![c] = VisibilityDelta(k, endpoints[k], None)]
                        ELSE pending
          /\ UNCHANGED <<owners, subs>>
     ELSE /\ owners' = [owners EXCEPT ![hello[c].id] = @ \ {c}]
          /\ subs' = [subs EXCEPT ![c] = {}]
          /\ UNCHANGED <<endpoints, pending>>
  /\ UNCHANGED <<hello, signer, sent>>

(* The client closes, its stream errs, or a write or heartbeat fails.      *)
Disconnect(c) == Unregister(c)

(* A replaced host's sender is dropped with its registry entry: its        *)
(* channel ends once drained and the loop breaks.                          *)
Replaced(c) ==
  phase[c] = "active" /\ IsHost(c) /\ ~Holds(KeyOf(hello[c]), c)

(* Slip: the handler keeps a sender of its own channel, which never ends.  *)
NeverEvicted(c) == Replaced(c) /\ FALSE

EvictReplaced(c) ==
  /\ Replaced(c)
  /\ rx[c] = <<>>
  /\ Unregister(c)

Close(c) ==
  /\ phase[c] = "closing"
  /\ pending[c] = {}
  /\ phase' = [phase EXCEPT ![c] = "closed"]
  /\ UNCHANGED <<hello, signer, sent, registryVars, rx, pending>>

-----------------------------------------------------------------------------
RoutesBy(c) == {r \in RouteFrame : r.ct = c}

HandleFrame(c) ==
  \/ \E D \in SUBSET Devices : SubscribeEndpoints(c, D)
  \/ \E update \in EndpointUpdate : UpdateHost(c, update)
  \/ \E route \in RoutesBy(c) : RouteFromOwner(c, route)
  \/ \E route \in RoutesBy(c) : RouteFromHost(c, route)
  \/ DropFrame(c)

Handshake(c) ==
  \/ ReceiveHello(c)
  \/ AbandonHandshake(c)
  \/ \E key \in Identities :
       RejectAuth(c, key) \/ RegisterHost(c, key) \/ RegisterOwner(c, key)

Next == \E c \in Conns :
  \/ Handshake(c)
  \/ HandleFrame(c)
  \/ SendNotification(c)
  \/ WriteMessage(c)
  \/ Disconnect(c)
  \/ EvictReplaced(c)
  \/ Close(c)

(* A tokio task with something to do runs: it pushes its events, drains    *)
(* its channel, and leaves the loop when the channel has ended.  Nothing   *)
(* obliges a client to send, to authenticate or to disconnect.             *)
Fairness == \A c \in Conns :
  /\ WF_vars(SendNotification(c))
  /\ WF_vars(WriteMessage(c))
  /\ WF_vars(EvictReplaced(c))
  /\ WF_vars(Close(c))

Spec == Init /\ [][Next]_vars /\ Fairness

-----------------------------------------------------------------------------
(* Safety.                                                                 *)

(* A registry entry belongs to a running handler that proved the identity  *)
(* the entry is filed under, and describes the runtime that handler        *)
(* announced: an abandoned, rejected or finished connection leaves nothing *)
(* behind, whatever order takeovers and late unregistrations came in.      *)
EndpointEntriesOwned ==
  \A k \in Keys : endpoints[k] # None =>
    LET c == endpoints[k].conn IN
    /\ phase[c] = "active"
    /\ IsHost(c)
    /\ KeyOf(hello[c]) = k
    /\ signer[c] = k[1]
    /\ endpoints[k].runtime = hello[c].runtime

(* The same for owners, in both directions: an owner's entry lists exactly *)
(* the connections of that owner whose handlers run, so a route to the     *)
(* owner reaches all its browsers, and is refused once the last has left.  *)
OwnerEntriesExact ==
  \A o \in Owners, c \in Conns :
    c \in owners[o] <=>
      phase[c] = "active" /\ IsOwner(c) /\ hello[c].id = o /\ signer[c] = o

(* What a route in a channel says of its ends is true of the connections   *)
(* at its ends: a host reads a source_owner_id that authenticated as that  *)
(* owner and only routes for its own runtime; an owner reads only routes   *)
(* addressed to it by a host that authenticated as the route's device and  *)
(* runs the route's runtime.                                               *)
RouteEndsGenuine(c, m) ==
  IF IsHost(c)
  THEN /\ IsOwner(m.ct)
       /\ m.source \in Owners /\ m.source = signer[m.ct]
       /\ <<m.device, m.endpoint>> = KeyOf(hello[c])
       /\ m.runtime = hello[c].runtime
  ELSE /\ IsHost(m.ct)
       /\ m.device = signer[m.ct]
       /\ m.endpoint = hello[m.ct].endpoint
       /\ m.runtime = hello[m.ct].runtime
       /\ m.target = signer[c]

RoutesGenuine ==
  \A c \in Conns : \A i \in DOMAIN rx[c] :
    rx[c][i].type = "route" => RouteEndsGenuine(c, rx[c][i])

(* The registry implements the routing authority: a takeover moves the     *)
(* authority in one step, only its holder routes and is routed to, session *)
(* routes need the ACL of the moment, what is sent to an owner reaches all *)
(* of his browsers, and the late unregistration of a replaced connection   *)
(* takes nothing from its successor.                                       *)
AuthorityOf(k) ==
  IF endpoints[k] = None THEN [conn |-> None, acl |-> {}] ELSE endpoints[k]

Posted(c, m) ==
  IF m.type = "route"
  THEN [purpose |-> m.purpose, key |-> <<m.device, m.endpoint>>,
        owner |-> IF IsHost(c) THEN m.source ELSE m.target]
  ELSE None

Holder == [k \in Keys |-> AuthorityOf(k).conn]
Grants == [k \in Keys |-> AuthorityOf(k).acl]
Gone == {c \in Conns : phase[c] \in {"closing", "closed"}}
MailOf(c) == [i \in DOMAIN rx[c] |-> Posted(c, rx[c][i])]
Mailboxes == [c \in Conns |-> MailOf(c)]

Authority == INSTANCE RouteAuthority WITH
  Bursts <- {1} \cup 1..Cardinality(Devices),
  holder <- Holder, grants <- Grants, seats <- owners, gone <- Gone, mail <- Mailboxes

ImplementsAuthority == Authority!Spec

(* Liveness.                                                               *)

(* A host whose key was taken over does not linger: its handler drains its *)
(* channel, leaves the loop and ends.                                      *)
ReplacedHandlersEnd ==
  \A c \in Conns : Replaced(c) ~> phase[c] = "closed"
=============================================================================
