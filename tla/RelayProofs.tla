---------------------------- MODULE RelayProofs ----------------------------
(***************************************************************************)
(* Proofs about RelayRegistry and RelayViews, for every set of             *)
(* connections, identities, endpoints and runtimes and every bound on the  *)
(* frames.                                                                 *)
(***************************************************************************)
EXTENDS RelayViews, FiniteSetTheorems, SequenceTheorems, TLAPS

(* What a handler knows at each stage of its connection: it has a hello    *)
(* once it left the first stage, a signer that matches the hello once it   *)
(* registered, and messages only while it runs its loop.                   *)
HandshakeStages ==
  \A c \in Conns :
    /\ phase[c] = "hello" => hello[c] = None
    /\ phase[c] \in {"auth", "active", "closing"} => hello[c] # None
    /\ phase[c] \in {"hello", "auth"} => signer[c] = None
    /\ phase[c] \in {"active", "closing"} => signer[c] = hello[c].id
    /\ rx[c] # <<>> => phase[c] = "active"

(* The inductive invariant.                                                *)
IInv ==
  /\ TypeOK
  /\ HandshakeStages
  /\ EndpointEntriesOwned
  /\ OwnerEntriesExact
  /\ RoutesGenuine

-----------------------------------------------------------------------------
(* The values the handlers build are of the types the channels carry.      *)

(* visibility_delta tells a connection about an endpoint it could see      *)
(* before or can see now, so the event always has a runtime to name.       *)
LEMMA EventTyped ==
  ASSUME NEW k \in Keys, NEW o \in Owners,
         NEW prev \in Optional(HostConnection),
         NEW cur \in Optional(HostConnection),
         Sees(prev, o) \/ Sees(cur, o)
  PROVE  EventFor(o, k, prev, cur) \in EndpointEvent
<1>1. CASE Sees(cur, o)
  <2>1. cur \in HostConnection
    BY <1>1 DEF Sees, Optional
  <2>2. cur.runtime \in Runtimes /\ cur.meta \in Metas
    BY <2>1 DEF HostConnection
  <2> QED
    BY <1>1, <2>2 DEF EventFor, Event, EndpointEvent, Keys, Optional
<1>2. CASE ~Sees(cur, o)
  <2>1. prev \in HostConnection
    BY <1>2 DEF Sees, Optional
  <2>2. prev.runtime \in Runtimes
    BY <2>1 DEF HostConnection
  <2> QED
    BY <1>2, <2>2 DEF EventFor, Event, EndpointEvent, Keys, Optional
<1> QED
  BY <1>1, <1>2

LEMMA DeltaTyped ==
  ASSUME TypeOK, NEW k \in Keys,
         NEW prev \in Optional(HostConnection),
         NEW cur \in Optional(HostConnection)
  PROVE  VisibilityDelta(k, prev, cur) \in SUBSET Notification
<1>1. ASSUME NEW o \in Owners, Sees(prev, o) \/ Sees(cur, o),
             NEW c \in Subscribers(o, k[1])
      PROVE  [to |-> c, event |-> EventFor(o, k, prev, cur)] \in Notification
  <2>1. EventFor(o, k, prev, cur) \in EndpointEvent
    BY <1>1, EventTyped
  <2>2. c \in Conns
    BY <1>1 DEF Subscribers, TypeOK
  <2> QED
    BY <2>1, <2>2 DEF Notification
<1> QED
  BY <1>1 DEF VisibilityDelta

(* A snapshot describes the endpoints of its device that admit the owner.  *)
LEMMA SnapshotTyped ==
  ASSUME TypeOK, NEW o \in Owners, NEW d \in Devices
  PROVE  EndpointsOf(o, d) \in EndpointsLine
<1>1. ASSUME NEW e \in Endpoints, Sees(endpoints[<<d, e>>], o)
      PROVE  [endpoint |-> e, runtime |-> endpoints[<<d, e>>].runtime,
              meta |-> endpoints[<<d, e>>].meta] \in EndpointInfo
  <2>1. <<d, e>> \in Keys
    BY DEF Keys
  <2>2. endpoints[<<d, e>>] \in HostConnection
    BY <1>1, <2>1 DEF TypeOK, Sees, Optional
  <2> QED
    BY <2>2 DEF EndpointInfo, HostConnection
<1> QED
  BY <1>1 DEF EndpointsOf, EndpointsLine

(* An order of a finite set of devices is a sequence of devices.           *)
LEMMA OrdersAreSequences ==
  ASSUME NEW D \in SUBSET Devices, NEW order \in Orders(D)
  PROVE  /\ order \in Seq(Devices)
         /\ DOMAIN order = 1..Len(order)
<1>1. Cardinality(D) \in Nat
  BY RelayAssumption, FS_Subset, FS_CardinalityType
<1>2. order \in [1..Cardinality(D) -> D]
  BY DEF Orders
<1> QED
  BY <1>1, <1>2

LEMMA SnapshotsTyped ==
  ASSUME TypeOK, NEW o \in Owners, NEW D \in SUBSET Devices,
         NEW order \in Orders(D)
  PROVE  [i \in DOMAIN order |-> EndpointsOf(o, order[i])]
           \in Seq(EndpointsLine)
<1>1. order \in Seq(Devices) /\ DOMAIN order = 1..Len(order)
  BY OrdersAreSequences
<1>2. \A i \in DOMAIN order : order[i] \in Devices
  BY <1>1, ElementOfSeq
<1>3. \A i \in DOMAIN order : EndpointsOf(o, order[i]) \in EndpointsLine
  BY <1>2, SnapshotTyped
<1> QED
  BY <1>1, <1>3

LEMMA AmendedTyped ==
  ASSUME NEW host \in HostConnection, NEW update \in EndpointUpdate
  PROVE  /\ Amended(host, update) \in HostConnection
         /\ Amended(host, update).conn = host.conn
         /\ Amended(host, update).runtime = host.runtime
<1>1. update.meta \in Optional(Metas) /\ update.acl \in Optional(SUBSET Owners)
  BY DEF EndpointUpdate
<1>2. update.meta # None => update.meta \in Metas
  BY <1>1 DEF Optional
<1>3. update.acl # None => update.acl \in SUBSET Owners
  BY <1>1 DEF Optional
<1> QED
  BY <1>2, <1>3 DEF Amended, HostConnection

-----------------------------------------------------------------------------
(* Type correctness.                                                       *)

LEMMA TypeOKInit == Init => TypeOK
  BY RelayAssumption DEF Init, TypeOK, Optional

(* The identity a connection signs with is the one its hello names.        *)
LEMMA AuthenticatedTyped ==
  ASSUME TypeOK, NEW c \in Conns, NEW key \in Identities, Authenticated(c, key)
  PROVE  /\ phase' \in [Conns -> {"hello", "auth", "active", "closing", "closed"}]
         /\ signer' \in [Conns -> Optional(Identities)]
  BY DEF TypeOK, Authenticated, Optional

LEMMA HandshakeTyped ==
  ASSUME TypeOK, HandshakeStages, NEW c \in Conns, Handshake(c)
  PROVE  TypeOK'
<1>1. CASE ReceiveHello(c)
  <2>1. HelloOf[c] \in SUBSET Hello
    BY RelayAssumption
  <2>2. hello' \in [Conns -> Optional(Hello)]
    BY <1>1, <2>1 DEF ReceiveHello, TypeOK, Optional
  <2> QED
    BY <1>1, <2>2 DEF ReceiveHello, TypeOK, registryVars
<1>2. CASE AbandonHandshake(c)
  BY <1>2 DEF AbandonHandshake, TypeOK, registryVars
<1>3. ASSUME NEW key \in Identities, RejectAuth(c, key)
      PROVE  TypeOK'
  BY <1>3 DEF RejectAuth, TypeOK, registryVars
<1>4. ASSUME NEW key \in Identities, RegisterHost(c, key)
      PROVE  TypeOK'
  <2> DEFINE h == hello[c]
             host == [conn |-> c, runtime |-> h.runtime, meta |-> h.meta,
                      acl |-> h.acl]
  <2>1. h \in HostHello
    <3>1. h \in Hello /\ h.role = "host"
      BY <1>4 DEF TypeOK, HandshakeStages, Optional, RegisterHost, Authenticated
    <3> QED
      BY <3>1 DEF Hello, OwnerHello
  <2>2. KeyOf(h) \in Keys /\ host \in HostConnection
    BY <2>1 DEF KeyOf, Keys, HostHello, HostConnection
  <2>3. endpoints' \in [Keys -> Optional(HostConnection)]
    BY <1>4, <2>2 DEF RegisterHost, TypeOK, Optional
  <2>4. VisibilityDelta(KeyOf(h), endpoints[KeyOf(h)], host) \in SUBSET Notification
    <3>1. endpoints[KeyOf(h)] \in Optional(HostConnection)
      BY <2>2 DEF TypeOK
    <3>2. host \in Optional(HostConnection)
      BY <2>2 DEF Optional
    <3> HIDE DEF host, h
    <3> QED
      BY <2>2, <3>1, <3>2, DeltaTyped
  <2>5. pending' \in [Conns -> SUBSET Notification]
    BY <1>4, <2>4 DEF RegisterHost, TypeOK
  <2>6. UNCHANGED <<hello, sent, subs, rx, owners>>
    BY <1>4 DEF RegisterHost, Authenticated
  <2>7. phase' \in [Conns -> {"hello", "auth", "active", "closing", "closed"}]
        /\ signer' \in [Conns -> Optional(Identities)]
    BY <1>4, AuthenticatedTyped DEF RegisterHost
  <2> QED
    BY <2>3, <2>5, <2>6, <2>7 DEF TypeOK
<1>5. ASSUME NEW key \in Identities, RegisterOwner(c, key)
      PROVE  TypeOK'
  <2>1. hello[c] \in OwnerHello
    <3>1. hello[c] \in Hello /\ hello[c].role = "owner"
      BY <1>5 DEF TypeOK, HandshakeStages, Optional, RegisterOwner, Authenticated
    <3> QED
      BY <3>1 DEF Hello, HostHello
  <2>2. owners' \in [Owners -> SUBSET Conns]
    BY <1>5, <2>1 DEF RegisterOwner, TypeOK, OwnerHello
  <2>3. UNCHANGED <<hello, sent, subs, rx, endpoints, pending>>
    BY <1>5 DEF RegisterOwner, Authenticated
  <2>4. phase' \in [Conns -> {"hello", "auth", "active", "closing", "closed"}]
        /\ signer' \in [Conns -> Optional(Identities)]
    BY <1>5, AuthenticatedTyped DEF RegisterOwner
  <2> QED
    BY <2>2, <2>3, <2>4 DEF TypeOK
<1> QED
  BY <1>1, <1>2, <1>3, <1>4, <1>5 DEF Handshake

(* A connection that runs its loop has a hello of its role.                *)
LEMMA HelloTyped ==
  ASSUME TypeOK, NEW c \in Conns
  PROVE  /\ IsHost(c) => hello[c] \in HostHello /\ KeyOf(hello[c]) \in Keys
         /\ IsOwner(c) => hello[c] \in OwnerHello
<1>1. hello[c] # None => hello[c] \in Hello
  BY DEF TypeOK, Optional
<1>2. IsHost(c) => hello[c] \in HostHello
  BY <1>1 DEF IsHost, Hello, OwnerHello
<1>3. IsOwner(c) => hello[c] \in OwnerHello
  BY <1>1 DEF IsOwner, Hello, HostHello
<1>4. \A h \in HostHello : KeyOf(h) \in Keys
  BY DEF KeyOf, HostHello, Keys
<1> QED
  BY <1>2, <1>3, <1>4

LEMMA EntryTyped ==
  ASSUME TypeOK, NEW k \in Keys, endpoints[k] # None
  PROVE  endpoints[k] \in HostConnection
  BY DEF TypeOK, Optional

LEMMA MessageParts ==
  /\ RouteFrame \subseteq Message
  /\ EndpointsLine \subseteq Message
  /\ EndpointEvent \subseteq Message
  BY DEF Message

LEMMA SubscribeTyped ==
  ASSUME TypeOK, NEW c \in Conns, NEW D \in SUBSET Devices,
         SubscribeEndpoints(c, D)
  PROVE  TypeOK'
<1>1. hello[c].id \in Owners
  BY HelloTyped DEF SubscribeEndpoints, OwnerHello
<1>2. PICK order \in Orders(D) :
        rx' = [rx EXCEPT ![c] = @ \o [i \in DOMAIN order |->
                                        EndpointsOf(hello[c].id, order[i])]]
  BY DEF SubscribeEndpoints
<1>3. [i \in DOMAIN order |-> EndpointsOf(hello[c].id, order[i])] \in Seq(Message)
  BY <1>1, SnapshotsTyped, MessageParts
<1>4. rx[c] \o [i \in DOMAIN order |-> EndpointsOf(hello[c].id, order[i])] \in Seq(Message)
  BY <1>3, ConcatProperties DEF TypeOK
<1>5. rx' \in [Conns -> Seq(Message)]
  BY <1>2, <1>4 DEF TypeOK
<1>6. subs' \in [Conns -> SUBSET Devices] /\ sent' \in [Conns -> Nat]
  BY DEF SubscribeEndpoints, ReceiveFrame, TypeOK
<1> QED
  BY <1>5, <1>6 DEF SubscribeEndpoints, ReceiveFrame, TypeOK

LEMMA UpdateTyped ==
  ASSUME TypeOK, NEW c \in Conns, NEW update \in EndpointUpdate,
         UpdateHost(c, update)
  PROVE  TypeOK'
<1> DEFINE k == KeyOf(hello[c])
           new == Amended(endpoints[k], update)
<1>1. k \in Keys /\ endpoints[k] \in HostConnection
  BY HelloTyped, EntryTyped DEF UpdateHost, Holds
<1>2. new \in HostConnection
  BY <1>1, AmendedTyped
<1>3. VisibilityDelta(k, endpoints[k], new) \in SUBSET Notification
  <2> HIDE DEF k, new
  <2> QED
    BY <1>1, <1>2, DeltaTyped DEF Optional
<1>4. endpoints' \in [Keys -> Optional(HostConnection)]
  BY <1>1, <1>2 DEF UpdateHost, TypeOK, Optional
<1>5. pending' \in [Conns -> SUBSET Notification] /\ sent' \in [Conns -> Nat]
  BY <1>3 DEF UpdateHost, ReceiveFrame, TypeOK
<1> QED
  BY <1>4, <1>5 DEF UpdateHost, ReceiveFrame, TypeOK

LEMMA OwnerRouteDelivered ==
  ASSUME TypeOK, NEW c \in Conns, NEW route \in RouteFrame,
         RouteFromOwner(c, route)
  PROVE  /\ <<route.device, route.endpoint>> \in Keys
         /\ endpoints[<<route.device, route.endpoint>>] # None
         /\ endpoints[<<route.device, route.endpoint>>] \in HostConnection
         /\ endpoints[<<route.device, route.endpoint>>].runtime = route.runtime
         /\ hello[c].id \in Owners
         /\ [route EXCEPT !.source = hello[c].id] \in RouteFrame
<1>1. <<route.device, route.endpoint>> \in Keys
  BY DEF Keys, RouteFrame
<1>2. endpoints[<<route.device, route.endpoint>>] # None
  BY DEF RouteFromOwner, OwnerRouteOutcome
<1>3. endpoints[<<route.device, route.endpoint>>].runtime = route.runtime
  BY DEF RouteFromOwner, OwnerRouteOutcome
<1>4. hello[c].id \in Owners
  BY HelloTyped DEF RouteFromOwner, OwnerHello
<1>5. [route EXCEPT !.source = hello[c].id] \in RouteFrame
  BY <1>4 DEF RouteFrame, Optional
<1> QED
  BY <1>1, <1>2, <1>3, <1>4, <1>5, EntryTyped

LEMMA RouteFromOwnerTyped ==
  ASSUME TypeOK, NEW c \in Conns, NEW route \in RouteFrame,
         RouteFromOwner(c, route)
  PROVE  TypeOK'
<1> DEFINE receiver == endpoints[<<route.device, route.endpoint>>].conn
           forwarded == [route EXCEPT !.source = hello[c].id]
<1>1. receiver \in Conns /\ forwarded \in Message
  BY OwnerRouteDelivered, MessageParts DEF HostConnection
<1>2. rx' = [rx EXCEPT ![receiver] = Append(@, forwarded)]
  BY DEF RouteFromOwner
<1>3. rx' \in [Conns -> Seq(Message)]
  <2> HIDE DEF receiver, forwarded
  <2> QED
    BY <1>1, <1>2, AppendProperties DEF TypeOK
<1> QED
  BY <1>3 DEF RouteFromOwner, ReceiveFrame, TypeOK, registryVars

LEMMA RouteFromHostTyped ==
  ASSUME TypeOK, NEW c \in Conns, NEW route \in RouteFrame,
         RouteFromHost(c, route)
  PROVE  TypeOK'
<1>1. route \in Message
  BY MessageParts
<1>2. rx' \in [Conns -> Seq(Message)]
  BY <1>1, AppendProperties DEF RouteFromHost, TypeOK
<1> QED
  BY <1>2 DEF RouteFromHost, ReceiveFrame, TypeOK, registryVars

LEMMA SendTyped ==
  ASSUME TypeOK, NEW c \in Conns, SendNotification(c)
  PROVE  TypeOK'
<1>1. PICK n \in pending[c] :
        /\ pending' = [pending EXCEPT ![c] = @ \ {n}]
        /\ rx' = IF phase[n.to] = "active"
                 THEN [rx EXCEPT ![n.to] = Append(@, n.event)] ELSE rx
        /\ UNCHANGED <<handlerVars, registryVars>>
  BY DEF SendNotification
<1>2. n.to \in Conns /\ n.event \in Message
  BY MessageParts DEF TypeOK, Notification
<1>3. rx' \in [Conns -> Seq(Message)]
  BY <1>1, <1>2, AppendProperties DEF TypeOK
<1>4. pending' \in [Conns -> SUBSET Notification]
  BY <1>1 DEF TypeOK
<1> QED
  BY <1>1, <1>3, <1>4 DEF TypeOK, handlerVars, registryVars

LEMMA WriteTyped ==
  ASSUME TypeOK, NEW c \in Conns, WriteMessage(c)
  PROVE  TypeOK'
<1>1. Tail(rx[c]) \in Seq(Message)
  BY HeadTailProperties DEF WriteMessage, TypeOK
<1> QED
  BY <1>1 DEF WriteMessage, TypeOK, handlerVars, registryVars

LEMMA UnregisterTyped ==
  ASSUME TypeOK, HandshakeStages, NEW c \in Conns, Unregister(c)
  PROVE  TypeOK'
<1>1. rx' \in [Conns -> Seq(Message)]
      /\ phase' \in [Conns -> {"hello", "auth", "active", "closing", "closed"}]
      /\ UNCHANGED <<hello, signer, sent>>
  BY EmptySeq DEF Unregister, TypeOK
<1>2. CASE IsHost(c)
  <2> DEFINE k == KeyOf(hello[c])
  <2>1. k \in Keys /\ (Holds(k, c) => endpoints[k] \in HostConnection)
    BY <1>2, HelloTyped, EntryTyped DEF Holds
  <2>2. Holds(k, c) => VisibilityDelta(k, endpoints[k], None) \in SUBSET Notification
    <3> HIDE DEF k
    <3> QED
      BY <2>1, DeltaTyped DEF Optional
  <2>3. endpoints' \in [Keys -> Optional(HostConnection)]
    BY <1>2, <2>1 DEF Unregister, TypeOK, Optional
  <2>4. pending' \in [Conns -> SUBSET Notification]
    BY <1>2, <2>2 DEF Unregister, TypeOK
  <2> QED
    BY <1>1, <1>2, <2>3, <2>4 DEF Unregister, TypeOK
<1>3. CASE ~IsHost(c)
  <2>0. IsOwner(c)
    <3>1. hello[c] \in Hello
      BY DEF Unregister, Idle, HandshakeStages, TypeOK, Optional
    <3> QED
      BY <1>3, <3>1 DEF IsHost, IsOwner, Hello, HostHello, OwnerHello, Unregister,
         Idle, HandshakeStages
  <2>1. owners' \in [Owners -> SUBSET Conns] /\ subs' \in [Conns -> SUBSET Devices]
    <3>1. hello[c].id \in Owners
      BY <2>0, HelloTyped DEF OwnerHello
    <3>2. /\ owners' = [owners EXCEPT ![hello[c].id] = @ \ {c}]
          /\ subs' = [subs EXCEPT ![c] = {}]
      BY <1>3 DEF Unregister
    <3> QED
      BY <3>1, <3>2 DEF TypeOK
  <2> QED
    BY <1>1, <1>3, <2>1 DEF Unregister, TypeOK
<1> QED
  BY <1>2, <1>3

LEMMA TypeOKStep ==
  ASSUME TypeOK, HandshakeStages, [Next]_vars
  PROVE  TypeOK'
<1>1. CASE UNCHANGED vars
  BY <1>1 DEF TypeOK, vars, handlerVars, registryVars
<1>2. ASSUME NEW c \in Conns, Handshake(c)
      PROVE  TypeOK'
  BY <1>2, HandshakeTyped
<1>3. ASSUME NEW c \in Conns, HandleFrame(c)
      PROVE  TypeOK'
  <2>1. ASSUME DropFrame(c) PROVE TypeOK'
    BY <2>1 DEF DropFrame, ReceiveFrame, TypeOK, registryVars
  <2> QED
    BY <1>3, <2>1, SubscribeTyped, UpdateTyped, RouteFromOwnerTyped,
       RouteFromHostTyped DEF HandleFrame, RoutesBy
<1>4. ASSUME NEW c \in Conns, SendNotification(c) \/ WriteMessage(c)
      PROVE  TypeOK'
  BY <1>4, SendTyped, WriteTyped
<1>5. ASSUME NEW c \in Conns, Disconnect(c) \/ EvictReplaced(c)
      PROVE  TypeOK'
  BY <1>5, UnregisterTyped DEF Disconnect, EvictReplaced
<1>6. ASSUME NEW c \in Conns, Close(c)
      PROVE  TypeOK'
  BY <1>6 DEF Close, TypeOK, registryVars
<1> QED
  BY <1>1, <1>2, <1>3, <1>4, <1>5, <1>6 DEF Next

-----------------------------------------------------------------------------
(* The stages of a connection.                                             *)

(* Only a running handler's channel can grow: registrations are of running *)
(* handlers, and an event for a handler that left is dropped.              *)
LEMMA StagesStep ==
  ASSUME IInv, [Next]_vars
  PROVE  HandshakeStages'
<1> USE DEF IInv
<1>1. CASE UNCHANGED vars
  BY <1>1 DEF HandshakeStages, vars, handlerVars, registryVars
<1>2. ASSUME NEW c \in Conns, Handshake(c)
      PROVE  HandshakeStages'
  <2>1. CASE ReceiveHello(c)
    <3>1. PICK h \in HelloOf[c] : hello' = [hello EXCEPT ![c] = h]
      BY <2>1 DEF ReceiveHello
    <3>2. h # None
      BY <3>1, RelayAssumption
    <3> QED
      BY <2>1, <3>1, <3>2 DEF ReceiveHello, HandshakeStages, TypeOK
  <2>2. CASE AbandonHandshake(c)
    BY <2>2 DEF AbandonHandshake, HandshakeStages, TypeOK
  <2>3. ASSUME NEW key \in Identities, RejectAuth(c, key)
        PROVE  HandshakeStages'
    BY <2>3 DEF RejectAuth, HandshakeStages, TypeOK
  <2>4. ASSUME NEW key \in Identities, Authenticated(c, key)
        PROVE  HandshakeStages'
    BY <2>4 DEF Authenticated, VerifyAuth, HandshakeStages, TypeOK
  <2> QED
    BY <1>2, <2>1, <2>2, <2>3, <2>4 DEF Handshake, RegisterHost, RegisterOwner
<1>3. ASSUME NEW c \in Conns, HandleFrame(c)
      PROVE  HandshakeStages'
  <2>1. UNCHANGED <<phase, hello, signer>> /\ phase[c] = "active"
    BY <1>3 DEF HandleFrame, SubscribeEndpoints, UpdateHost, RouteFromOwner,
                RouteFromHost, DropFrame, ReceiveFrame, Idle
  <2>2. ASSUME NEW d \in Conns, rx'[d] # rx[d]
        PROVE  phase[d] = "active"
    <3>1. ASSUME NEW D \in SUBSET Devices, SubscribeEndpoints(c, D)
          PROVE  phase[d] = "active"
      BY <2>1, <2>2, <3>1 DEF SubscribeEndpoints, TypeOK
    <3>2. ASSUME NEW route \in RouteFrame, RouteFromOwner(c, route)
          PROVE  phase[d] = "active"
      BY <2>2, <3>2, OwnerRouteDelivered
      DEF RouteFromOwner, EndpointEntriesOwned, TypeOK, HostConnection
    <3>3. ASSUME NEW route \in RouteFrame, RouteFromHost(c, route)
          PROVE  phase[d] = "active"
      <4>1. route.target \in Owners
        BY <3>3 DEF RouteFromHost, HostRouteOutcome, RouteFrame, Optional
      <4>2. d \in owners[route.target]
        BY <2>2, <3>3 DEF RouteFromHost
      <4> QED
        BY <4>1, <4>2 DEF OwnerEntriesExact
    <3> QED
      BY <1>3, <2>2, <3>1, <3>2, <3>3
      DEF HandleFrame, UpdateHost, DropFrame, RoutesBy
  <2> QED
    BY <2>1, <2>2 DEF HandshakeStages
<1>4. ASSUME NEW c \in Conns, SendNotification(c)
      PROVE  HandshakeStages'
  BY <1>4 DEF SendNotification, HandshakeStages, TypeOK, Notification, handlerVars
<1>5. ASSUME NEW c \in Conns, WriteMessage(c)
      PROVE  HandshakeStages'
  BY <1>5 DEF WriteMessage, Idle, HandshakeStages, TypeOK, handlerVars
<1>6. ASSUME NEW c \in Conns, Unregister(c)
      PROVE  HandshakeStages'
  BY <1>6 DEF Unregister, Idle, HandshakeStages, TypeOK
<1>7. ASSUME NEW c \in Conns, Close(c)
      PROVE  HandshakeStages'
  BY <1>7 DEF Close, HandshakeStages, TypeOK
<1> QED
  BY <1>1, <1>2, <1>3, <1>4, <1>5, <1>6, <1>7
  DEF Next, Disconnect, EvictReplaced

-----------------------------------------------------------------------------
(* The registry.                                                           *)

(* Two connections never disagree on what a key's entry means: an entry is *)
(* written by its own connection's handler only, so the entry found under  *)
(* the key of a connection that does not hold it belongs to another one.   *)
LEMMA EntriesStep ==
  ASSUME IInv, [Next]_vars
  PROVE  EndpointEntriesOwned'
<1> USE DEF IInv
<1>1. CASE UNCHANGED vars
  BY <1>1 DEF EndpointEntriesOwned, IsHost, vars, handlerVars, registryVars
<1>2. ASSUME NEW c \in Conns, Handshake(c)
      PROVE  EndpointEntriesOwned'
  <2>1. CASE ReceiveHello(c) \/ AbandonHandshake(c)
             \/ \E key \in Identities : RejectAuth(c, key)
    <3>1. \A k \in Keys : endpoints[k] # None => endpoints[k].conn # c
      BY <2>1 DEF ReceiveHello, AbandonHandshake, RejectAuth, EndpointEntriesOwned
    <3>2. \A d \in Conns \ {c} : phase'[d] = phase[d] /\ hello'[d] = hello[d]
      BY <2>1 DEF ReceiveHello, AbandonHandshake, RejectAuth, TypeOK
    <3>3. UNCHANGED <<endpoints, signer>>
      BY <2>1 DEF ReceiveHello, AbandonHandshake, RejectAuth, registryVars
    <3>4. \A k \in Keys : endpoints[k] # None => endpoints[k].conn \in Conns
      BY EntryTyped DEF HostConnection
    <3> QED
      BY <3>1, <3>2, <3>3, <3>4 DEF EndpointEntriesOwned, IsHost
  <2>2. ASSUME NEW key \in Identities, RegisterHost(c, key)
        PROVE  EndpointEntriesOwned'
    <3> DEFINE h == hello[c]
               host == [conn |-> c, runtime |-> h.runtime, meta |-> h.meta,
                        acl |-> h.acl]
    <3>1. h \in HostHello /\ KeyOf(h) \in Keys /\ IsHost(c)
      BY <2>2, HelloTyped DEF RegisterHost, Authenticated, HandshakeStages, IsHost
    <3>2. endpoints' = [endpoints EXCEPT ![KeyOf(h)] = host]
      BY <2>2 DEF RegisterHost
    <3>3. phase' = [phase EXCEPT ![c] = "active"] /\ hello' = hello
          /\ signer' = [signer EXCEPT ![c] = h.id] /\ phase[c] = "auth"
      BY <2>2 DEF RegisterHost, Authenticated, VerifyAuth
    <3>4. KeyOf(h)[1] = h.id
      BY DEF KeyOf
    <3>5. ASSUME NEW k \in Keys, endpoints'[k] # None, k # KeyOf(h)
          PROVE  /\ endpoints'[k] = endpoints[k]
                 /\ endpoints[k].conn \in Conns \ {c}
      BY <3>2, <3>3, <3>5, EntryTyped
      DEF TypeOK, HostConnection, EndpointEntriesOwned
    <3>6. endpoints'[KeyOf(h)] = host
      BY <3>1, <3>2 DEF TypeOK
    <3> QED
      BY <3>1, <3>3, <3>4, <3>5, <3>6
      DEF EndpointEntriesOwned, IsHost, TypeOK
  <2>3. ASSUME NEW key \in Identities, RegisterOwner(c, key)
        PROVE  EndpointEntriesOwned'
    <3>1. \A k \in Keys : endpoints[k] # None => endpoints[k].conn \in Conns \ {c}
      BY <2>3, EntryTyped
      DEF RegisterOwner, Authenticated, EndpointEntriesOwned, HostConnection
    <3> QED
      BY <2>3, <3>1
      DEF RegisterOwner, Authenticated, EndpointEntriesOwned, IsHost, TypeOK
  <2> QED
    BY <1>2, <2>1, <2>2, <2>3 DEF Handshake
<1>3. ASSUME NEW c \in Conns, HandleFrame(c)
      PROVE  EndpointEntriesOwned'
  <2>1. UNCHANGED <<phase, hello, signer>>
    BY <1>3 DEF HandleFrame, SubscribeEndpoints, UpdateHost, RouteFromOwner,
                RouteFromHost, DropFrame, ReceiveFrame
  <2>2. ASSUME NEW update \in EndpointUpdate, UpdateHost(c, update)
        PROVE  EndpointEntriesOwned'
    <3> DEFINE k == KeyOf(hello[c])
    <3>1. k \in Keys /\ endpoints[k] # None /\ endpoints[k] \in HostConnection
      BY <2>2, HelloTyped, EntryTyped DEF UpdateHost, Holds
    <3>2. endpoints' = [endpoints EXCEPT ![k] = Amended(endpoints[k], update)]
      BY <2>2 DEF UpdateHost
    <3>3. Amended(endpoints[k], update).conn = endpoints[k].conn
          /\ Amended(endpoints[k], update).runtime = endpoints[k].runtime
      BY <3>1, AmendedTyped
    <3> HIDE DEF k
    <3> QED
      BY <2>1, <3>1, <3>2, <3>3 DEF EndpointEntriesOwned, IsHost, TypeOK
  <2>3. CASE UNCHANGED endpoints
    BY <2>1, <2>3 DEF EndpointEntriesOwned, IsHost
  <2> QED
    BY <1>3, <2>2, <2>3 DEF HandleFrame, SubscribeEndpoints, RouteFromOwner,
                            RouteFromHost, DropFrame, registryVars
<1>4. ASSUME NEW c \in Conns, SendNotification(c) \/ WriteMessage(c)
      PROVE  EndpointEntriesOwned'
  BY <1>4 DEF SendNotification, WriteMessage, EndpointEntriesOwned, IsHost,
              handlerVars, registryVars
<1>5. ASSUME NEW c \in Conns, Unregister(c)
      PROVE  EndpointEntriesOwned'
  <2>1. \A k \in Keys : endpoints'[k] # None =>
          endpoints'[k] = endpoints[k] /\ endpoints[k].conn \in Conns \ {c}
    <3>1. CASE IsHost(c)
      BY <1>5, <3>1, HelloTyped, EntryTyped
      DEF Unregister, EndpointEntriesOwned, TypeOK, Holds, HostConnection
    <3>2. CASE ~IsHost(c)
      BY <1>5, <3>2, EntryTyped DEF Unregister, EndpointEntriesOwned, HostConnection
    <3> QED
      BY <3>1, <3>2
  <2> QED
    BY <1>5, <2>1 DEF Unregister, EndpointEntriesOwned, IsHost, TypeOK
<1>6. ASSUME NEW c \in Conns, Close(c)
      PROVE  EndpointEntriesOwned'
  <2>1. \A k \in Keys : endpoints[k] # None => endpoints[k].conn \in Conns \ {c}
    BY <1>6, EntryTyped DEF Close, EndpointEntriesOwned, HostConnection
  <2> QED
    BY <1>6, <2>1 DEF Close, EndpointEntriesOwned, IsHost, TypeOK, registryVars
<1> QED
  BY <1>1, <1>2, <1>3, <1>4, <1>5, <1>6 DEF Next, Disconnect, EvictReplaced

(* Registering adds a connection to its owner's set in the step it becomes *)
(* active, unregistering removes it in the step it stops being active.     *)
LEMMA OwnersStep ==
  ASSUME IInv, [Next]_vars
  PROVE  OwnerEntriesExact'
<1> USE DEF IInv
<1>1. CASE UNCHANGED vars
  BY <1>1 DEF OwnerEntriesExact, IsOwner, vars, handlerVars, registryVars
<1>2. ASSUME NEW c \in Conns, Handshake(c)
      PROVE  OwnerEntriesExact'
  <2>1. \A o \in Owners : c \notin owners[o]
    BY <1>2 DEF OwnerEntriesExact, Handshake, ReceiveHello, AbandonHandshake,
                RejectAuth, RegisterHost, RegisterOwner, Authenticated
  <2>2. CASE ReceiveHello(c) \/ AbandonHandshake(c)
             \/ \E key \in Identities : RejectAuth(c, key)
    <3>1. UNCHANGED <<owners, signer>>
      BY <2>2 DEF ReceiveHello, AbandonHandshake, RejectAuth, registryVars
    <3>2. \A d \in Conns \ {c} : phase'[d] = phase[d] /\ hello'[d] = hello[d]
      BY <2>2 DEF ReceiveHello, AbandonHandshake, RejectAuth, TypeOK
    <3>3. phase'[c] # "active"
      BY <2>2 DEF ReceiveHello, AbandonHandshake, RejectAuth, TypeOK
    <3> QED
      BY <2>1, <3>1, <3>2, <3>3 DEF OwnerEntriesExact, IsOwner
  <2>3. ASSUME NEW key \in Identities, RegisterHost(c, key)
        PROVE  OwnerEntriesExact'
    <3>1. hello[c].role # "owner"
      BY <2>3 DEF RegisterHost
    <3>2. /\ phase' = [phase EXCEPT ![c] = "active"]
          /\ signer' = [signer EXCEPT ![c] = key]
          /\ UNCHANGED <<hello, owners>>
      BY <2>3 DEF RegisterHost, Authenticated
    <3> QED
      BY <2>1, <3>1, <3>2 DEF OwnerEntriesExact, IsOwner, TypeOK
  <2>4. ASSUME NEW key \in Identities, RegisterOwner(c, key)
        PROVE  OwnerEntriesExact'
    <3>1. IsOwner(c) /\ hello[c].id \in Owners
      BY <2>4, HelloTyped
      DEF RegisterOwner, Authenticated, HandshakeStages, IsOwner, OwnerHello
    <3>2. /\ phase' = [phase EXCEPT ![c] = "active"]
          /\ signer' = [signer EXCEPT ![c] = hello[c].id]
          /\ owners' = [owners EXCEPT ![hello[c].id] = @ \cup {c}]
          /\ hello' = hello
      BY <2>4 DEF RegisterOwner, Authenticated, VerifyAuth
    <3> QED
      BY <2>1, <3>1, <3>2 DEF OwnerEntriesExact, IsOwner, TypeOK
  <2> QED
    BY <1>2, <2>2, <2>3, <2>4 DEF Handshake
<1>3. ASSUME NEW c \in Conns, HandleFrame(c) \/ SendNotification(c) \/ WriteMessage(c)
      PROVE  OwnerEntriesExact'
  <2>1. UNCHANGED <<phase, hello, signer, owners>>
    BY <1>3 DEF HandleFrame, SubscribeEndpoints, UpdateHost, RouteFromOwner,
                RouteFromHost, DropFrame, ReceiveFrame, SendNotification,
                WriteMessage, handlerVars, registryVars
  <2> QED
    BY <2>1 DEF OwnerEntriesExact, IsOwner
<1>4. ASSUME NEW c \in Conns, Unregister(c)
      PROVE  OwnerEntriesExact'
  <2>1. phase' = [phase EXCEPT ![c] = "closing"] /\ UNCHANGED <<hello, signer>>
        /\ phase[c] = "active" /\ hello[c] # None
    BY <1>4 DEF Unregister, Idle, HandshakeStages
  <2>2. CASE IsHost(c)
    <3>1. ~IsOwner(c) /\ UNCHANGED owners
      BY <1>4, <2>2 DEF Unregister, IsHost, IsOwner
    <3> QED
      BY <2>1, <3>1 DEF OwnerEntriesExact, IsOwner, TypeOK
  <2>3. CASE ~IsHost(c)
    <3>1. owners' = [owners EXCEPT ![hello[c].id] = @ \ {c}]
      BY <1>4, <2>3 DEF Unregister
    <3>2. \A o \in Owners : owners'[o] = owners[o] \ {c}
      BY <3>1 DEF OwnerEntriesExact, TypeOK
    <3> QED
      BY <2>1, <3>2 DEF OwnerEntriesExact, IsOwner, TypeOK
  <2> QED
    BY <2>2, <2>3
<1>5. ASSUME NEW c \in Conns, Close(c)
      PROVE  OwnerEntriesExact'
  BY <1>5 DEF Close, OwnerEntriesExact, IsOwner, TypeOK, registryVars
<1> QED
  BY <1>1, <1>2, <1>3, <1>4, <1>5 DEF Next, Disconnect, EvictReplaced

-----------------------------------------------------------------------------
(* Routes.                                                                 *)

(* Once a connection has proved an identity, nothing changes what is known *)
(* of it.                                                                  *)
LEMMA ProvenIdentityStable ==
  ASSUME IInv, [Next]_vars, NEW c \in Conns, signer[c] # None
  PROVE  hello'[c] = hello[c] /\ signer'[c] = signer[c]
<1> USE DEF IInv
<1>1. CASE UNCHANGED vars
  BY <1>1 DEF vars, handlerVars
<1>2. ASSUME NEW d \in Conns, Handshake(d)
      PROVE  hello'[c] = hello[c] /\ signer'[c] = signer[c]
  <2>1. phase[c] \notin {"hello", "auth"}
    BY DEF HandshakeStages
  <2> QED
    BY <1>2, <2>1 DEF Handshake, ReceiveHello, AbandonHandshake, RejectAuth,
       RegisterHost, RegisterOwner, Authenticated, TypeOK
<1>3. ASSUME NEW d \in Conns, ~Handshake(d), HandleFrame(d) \/ SendNotification(d)
             \/ WriteMessage(d) \/ Unregister(d) \/ Close(d)
      PROVE  hello'[c] = hello[c] /\ signer'[c] = signer[c]
  BY <1>3 DEF HandleFrame, SubscribeEndpoints, UpdateHost, RouteFromOwner,
     RouteFromHost, DropFrame, ReceiveFrame, SendNotification, WriteMessage,
     Unregister, Close, handlerVars
<1> QED
  BY <1>1, <1>2, <1>3 DEF Next, Disconnect, EvictReplaced

LEMMA RunningHasSigner ==
  ASSUME IInv, NEW c \in Conns, phase[c] = "active"
  PROVE  signer[c] # None /\ signer[c] = hello[c].id
<1>1. hello[c] \in Hello
  BY DEF IInv, HandshakeStages, TypeOK, Optional
<1>2. hello[c].id \in Identities
  BY <1>1 DEF Hello, HostHello, OwnerHello, Identities
<1> QED
  BY <1>2, RelayAssumption DEF IInv, HandshakeStages

(* A route already in a channel keeps its genuine ends.                    *)
LEMMA OldRoutesGenuine ==
  ASSUME IInv, [Next]_vars, NEW c \in Conns, NEW j \in DOMAIN rx[c],
         rx[c][j].type = "route"
  PROVE  RouteEndsGenuine(c, rx[c][j]) /\
         hello'[c] = hello[c] /\ signer'[c] = signer[c] /\
         hello'[rx[c][j].ct] = hello[rx[c][j].ct] /\
         signer'[rx[c][j].ct] = signer[rx[c][j].ct]
<1> DEFINE m == rx[c][j]
<1>1. RouteEndsGenuine(c, m)
  BY DEF IInv, RoutesGenuine
<1>2. m \in RouteFrame
  <2>1. m \in Message
    BY ElementOfSeq DEF IInv, TypeOK
  <2> QED
    BY <2>1 DEF Message, EndpointsLine, EndpointEvent
<1>3. phase[c] = "active"
  <2>1. rx[c] \in Seq(Message)
    BY DEF IInv, TypeOK
  <2>2. rx[c] # <<>>
    BY <2>1
  <2> QED
    BY <2>2 DEF IInv, HandshakeStages
<1>4. m.ct \in Conns /\ m.device \in Identities /\ (m.source \in Owners => m.source \in Identities)
  BY <1>2 DEF RouteFrame, Identities
<1>5. signer[m.ct] # None
  BY <1>1, <1>4, RelayAssumption DEF RouteEndsGenuine
<1> QED
  BY <1>1, <1>3, <1>4, <1>5, ProvenIdentityStable, RunningHasSigner

LEMMA RoutesStep ==
  ASSUME IInv, [Next]_vars
  PROVE  RoutesGenuine'
<1> DEFINE Old(d, i) == \E j \in DOMAIN rx[d] : rx'[d][i] = rx[d][j]
           New(d, i) == (rx[d][i].type = "route" => RouteEndsGenuine(d, rx[d][i]))'
<1>1. SUFFICES ASSUME NEW d \in Conns, NEW i \in DOMAIN rx'[d]
               PROVE  Old(d, i) \/ New(d, i)
  <2> SUFFICES ASSUME NEW d \in Conns, NEW i \in DOMAIN rx'[d],
                      rx'[d][i].type = "route"
               PROVE  RouteEndsGenuine(d, rx[d][i])'
    BY DEF RoutesGenuine
  <2>1. CASE New(d, i)
    BY <2>1
  <2>2. CASE Old(d, i)
    <3>1. PICK j \in DOMAIN rx[d] : rx'[d][i] = rx[d][j]
      BY <2>2
    <3>2. rx[d][j].type = "route"
      BY <3>1
    <3>3. /\ RouteEndsGenuine(d, rx[d][j])
          /\ hello'[d] = hello[d] /\ signer'[d] = signer[d]
          /\ hello'[rx[d][j].ct] = hello[rx[d][j].ct]
          /\ signer'[rx[d][j].ct] = signer[rx[d][j].ct]
      BY <3>2, OldRoutesGenuine
    <3> QED
      BY <3>1, <3>3 DEF RouteEndsGenuine, IsHost, IsOwner
  <2> QED
    BY <1>1, <2>1, <2>2
<1> USE DEF IInv
<1>2. CASE rx'[d] = rx[d]
  BY <1>1, <1>2
<1>3. ASSUME NEW c \in Conns, NEW D \in SUBSET Devices, SubscribeEndpoints(c, D)
      PROVE  Old(d, i) \/ New(d, i)
  <2>1. PICK order \in Orders(D) :
          rx' = [rx EXCEPT ![c] = @ \o [n \in DOMAIN order |->
                                          EndpointsOf(hello[c].id, order[n])]]
    BY <1>3 DEF SubscribeEndpoints
  <2> DEFINE lines == [n \in DOMAIN order |-> EndpointsOf(hello[c].id, order[n])]
  <2>2. lines \in Seq(EndpointsLine)
    BY <1>3, HelloTyped, SnapshotsTyped DEF SubscribeEndpoints, OwnerHello
  <2>3. rx[c] \in Seq(Message) /\ lines \in Seq(Message)
    BY <2>2, MessageParts DEF TypeOK
  <2>4. CASE d = c
    <3>1. rx'[d] = rx[c] \o lines
      BY <2>1, <2>4 DEF TypeOK
    <3> HIDE DEF lines
    <3>2. /\ Len(rx[c]) \in Nat /\ Len(lines) \in Nat
          /\ DOMAIN rx[c] = 1..Len(rx[c])
          /\ DOMAIN (rx[c] \o lines) = 1..(Len(rx[c]) + Len(lines))
      BY <2>3
    <3>3. CASE i <= Len(rx[c])
      BY <3>1, <3>2, <3>3, <2>3, <2>4, ConcatProperties
    <3>4. CASE i > Len(rx[c])
      <4>1. rx'[d][i] = lines[i - Len(rx[c])] /\ i - Len(rx[c]) \in 1..Len(lines)
        BY <3>1, <3>2, <3>4, <2>3, ConcatProperties
      <4>2. rx'[d][i] \in EndpointsLine
        BY <4>1, <2>2, ElementOfSeq
      <4> QED
        BY <4>2 DEF EndpointsLine
    <3> QED
      BY <3>2, <3>1, <3>3, <3>4
  <2>5. CASE d # c
    BY <2>1, <2>5, <1>2 DEF TypeOK
  <2> QED
    BY <2>4, <2>5
<1>4. ASSUME NEW c \in Conns, NEW route \in RoutesBy(c), RouteFromOwner(c, route)
      PROVE  Old(d, i) \/ New(d, i)
  <2> DEFINE k == <<route.device, route.endpoint>>
             forwarded == [route EXCEPT !.source = hello[c].id]
  <2>1. /\ route \in RouteFrame /\ route.ct = c
        /\ IsOwner(c) /\ phase[c] = "active" /\ UNCHANGED <<hello, signer>>
    BY <1>4 DEF RoutesBy, RouteFromOwner, ReceiveFrame, Idle
  <2>2. /\ k \in Keys /\ endpoints[k] # None /\ endpoints[k].runtime = route.runtime
        /\ endpoints[k].conn \in Conns
        /\ hello[c].id \in Owners /\ forwarded \in RouteFrame
    BY <1>4, <2>1, OwnerRouteDelivered DEF HostConnection
  <2>3. rx' = [rx EXCEPT ![endpoints[k].conn] = Append(@, forwarded)]
    BY <1>4 DEF RouteFromOwner
  <2>4. CASE d = endpoints[k].conn
    <3>1. rx[d] \in Seq(Message) /\ forwarded \in Message
      BY <2>2, MessageParts DEF TypeOK
    <3>2. rx'[d] = Append(rx[d], forwarded)
      BY <2>3, <2>4, <2>2 DEF TypeOK
    <3>3. /\ forwarded.ct = c /\ forwarded.source = hello[c].id
          /\ forwarded.device = route.device /\ forwarded.endpoint = route.endpoint
          /\ forwarded.runtime = route.runtime
      BY <2>1 DEF RouteFrame
    <3>4. IsHost(d) /\ KeyOf(hello[d]) = k /\ hello[d].runtime = route.runtime
      BY <2>2, <2>4 DEF EndpointEntriesOwned
    <3>5. RouteEndsGenuine(d, forwarded)
      BY <3>3, <3>4, <2>1, <2>2, RunningHasSigner DEF RouteEndsGenuine
    <3> HIDE DEF forwarded
    <3>6. CASE i = Len(rx[d]) + 1
      <4>1. rx'[d][i] = forwarded
        BY <3>1, <3>2, <3>6, AppendProperties
      <4> QED
        BY <4>1, <3>5, <2>1 DEF RouteEndsGenuine, IsHost, IsOwner
    <3>7. CASE i # Len(rx[d]) + 1
      <4>1. i \in 1..Len(rx[d])
        BY <3>1, <3>2, <3>7, <1>1, AppendProperties
      <4>2. rx'[d][i] = rx[d][i] /\ i \in DOMAIN rx[d]
        BY <4>1, <3>1, <3>2, AppendProperties
      <4>3. \E j \in DOMAIN rx[d] : rx'[d][i] = rx[d][j]
        BY <4>2, Zenon
      <4> QED
        BY <4>3, Zenon
    <3> QED
      BY <3>6, <3>7
  <2>5. CASE d # endpoints[k].conn
    BY <2>3, <2>5, <1>2 DEF TypeOK
  <2> QED
    BY <2>4, <2>5
<1>5. ASSUME NEW c \in Conns, NEW route \in RoutesBy(c), RouteFromHost(c, route)
      PROVE  Old(d, i) \/ New(d, i)
  <2>1. /\ route \in RouteFrame /\ route.ct = c
        /\ IsHost(c) /\ phase[c] = "active" /\ UNCHANGED <<hello, signer>>
    BY <1>5 DEF RoutesBy, RouteFromHost, ReceiveFrame, Idle
  <2>2. /\ route.target # None /\ Holds(KeyOf(hello[c]), c)
        /\ <<route.device, route.endpoint>> = KeyOf(hello[c])
        /\ route.runtime = endpoints[KeyOf(hello[c])].runtime
    BY <1>5 DEF RouteFromHost, HostRouteOutcome
  <2>3. route.target \in Owners
    BY <2>1, <2>2 DEF RouteFrame, Optional
  <2>4. CASE d \in owners[route.target]
    <3>1. rx[d] \in Seq(Message) /\ route \in Message
      BY <2>1, MessageParts DEF TypeOK
    <3>2. rx'[d] = Append(rx[d], route)
      BY <1>5, <2>4 DEF RouteFromHost
    <3>3. ~IsHost(d) /\ signer[d] = route.target
      BY <2>3, <2>4 DEF OwnerEntriesExact, IsOwner, IsHost
    <3>4. /\ signer[c] = route.device /\ hello[c].endpoint = route.endpoint
          /\ hello[c].runtime = route.runtime
      <4>1. KeyOf(hello[c]) \in Keys
        BY <2>1, HelloTyped
      <4> QED
        BY <4>1, <2>1, <2>2, RunningHasSigner DEF EndpointEntriesOwned, Holds, KeyOf
    <3>5. RouteEndsGenuine(d, route)
      BY <2>1, <3>3, <3>4 DEF RouteEndsGenuine
    <3>6. CASE i = Len(rx[d]) + 1
      <4>1. rx'[d][i] = route
        BY <3>1, <3>2, <3>6, AppendProperties
      <4> QED
        BY <4>1, <3>5, <2>1 DEF RouteEndsGenuine, IsHost, IsOwner
    <3>7. CASE i # Len(rx[d]) + 1
      <4>1. i \in 1..Len(rx[d])
        BY <3>1, <3>2, <3>7, <1>1, AppendProperties
      <4>2. rx'[d][i] = rx[d][i] /\ i \in DOMAIN rx[d]
        BY <4>1, <3>1, <3>2, AppendProperties
      <4>3. \E j \in DOMAIN rx[d] : rx'[d][i] = rx[d][j]
        BY <4>2, Zenon
      <4> QED
        BY <4>3, Zenon
    <3> QED
      BY <3>6, <3>7
  <2>5. CASE d \notin owners[route.target]
    BY <1>5, <2>5, <1>2 DEF RouteFromHost
  <2> QED
    BY <2>4, <2>5
<1>6. ASSUME NEW c \in Conns, SendNotification(c)
      PROVE  Old(d, i) \/ New(d, i)
  <2>1. PICK n \in pending[c] :
          rx' = IF phase[n.to] = "active"
                THEN [rx EXCEPT ![n.to] = Append(@, n.event)] ELSE rx
    BY <1>6 DEF SendNotification
  <2>2. n.event \in EndpointEvent /\ n.event \in Message /\ rx[d] \in Seq(Message)
    BY MessageParts DEF TypeOK, Notification
  <2>3. CASE rx'[d] = Append(rx[d], n.event)
    <3>1. CASE i = Len(rx[d]) + 1
      <4>1. rx'[d][i] = n.event
        BY <2>2, <2>3, <3>1, AppendProperties
      <4> QED
        BY <4>1, <2>2 DEF EndpointEvent
    <3>2. CASE i # Len(rx[d]) + 1
      <4>1. i \in 1..Len(rx[d])
        BY <2>2, <2>3, <3>2, <1>1, AppendProperties
      <4>2. rx'[d][i] = rx[d][i] /\ i \in DOMAIN rx[d]
        BY <4>1, <2>2, <2>3, AppendProperties
      <4>3. \E j \in DOMAIN rx[d] : rx'[d][i] = rx[d][j]
        BY <4>2, Zenon
      <4> QED
        BY <4>3, Zenon
    <3> QED
      BY <3>1, <3>2
  <2> QED
    BY <2>1, <2>3, <1>2 DEF TypeOK
<1>7. ASSUME NEW c \in Conns, WriteMessage(c)
      PROVE  Old(d, i) \/ New(d, i)
  <2>1. CASE d = c
    <3>1. rx'[d] = Tail(rx[d]) /\ rx[d] # <<>> /\ rx[d] \in Seq(Message)
      BY <1>7, <2>1 DEF WriteMessage, TypeOK
    <3>2. i \in 1..Len(Tail(rx[d])) /\ Len(Tail(rx[d])) = Len(rx[d]) - 1
      BY <3>1, <1>1, HeadTailProperties
    <3>3. rx'[d][i] = rx[d][i + 1] /\ i + 1 \in DOMAIN rx[d]
      BY <3>1, <3>2, HeadTailProperties
    <3> QED
      BY <3>3
  <2>2. CASE d # c
    BY <1>7, <2>2, <1>2 DEF WriteMessage, TypeOK
  <2> QED
    BY <2>1, <2>2
<1>8. ASSUME NEW c \in Conns, Unregister(c)
      PROVE  Old(d, i) \/ New(d, i)
  <2>1. d = c => rx'[d] = <<>>
    BY <1>8 DEF Unregister, TypeOK
  <2>2. d # c
    BY <2>1, <1>1
  <2> QED
    BY <1>8, <2>2, <1>2 DEF Unregister, TypeOK
<1>9. CASE UNCHANGED rx
  BY <1>9, <1>2
<1> HIDE DEF Old, New
<1> QED
  BY <1>3, <1>4, <1>5, <1>6, <1>7, <1>8, <1>9
  DEF Next, Handshake, ReceiveHello, AbandonHandshake, RejectAuth, RegisterHost,
      RegisterOwner, Authenticated, HandleFrame, UpdateHost, DropFrame,
      Disconnect, EvictReplaced, Close, vars
-----------------------------------------------------------------------------
(* The inductive invariant and what follows from it.                       *)

LEMMA IInvInit == Init => IInv
<1> SUFFICES ASSUME Init PROVE IInv
  OBVIOUS
<1>1. TypeOK
  BY TypeOKInit
<1>2. HandshakeStages
  BY DEF Init, HandshakeStages
<1>3. EndpointEntriesOwned
  BY DEF Init, EndpointEntriesOwned
<1>4. OwnerEntriesExact
  BY DEF Init, OwnerEntriesExact
<1>5. RoutesGenuine
  BY DEF Init, RoutesGenuine
<1> QED
  BY <1>1, <1>2, <1>3, <1>4, <1>5 DEF IInv

LEMMA IInvStep == IInv /\ [Next]_vars => IInv'
<1> SUFFICES ASSUME IInv, [Next]_vars PROVE IInv'
  OBVIOUS
<1>1. TypeOK'
  BY TypeOKStep DEF IInv
<1>2. HandshakeStages'
  BY StagesStep DEF IInv
<1>3. EndpointEntriesOwned'
  BY EntriesStep DEF IInv
<1>4. OwnerEntriesExact'
  BY OwnersStep DEF IInv
<1>5. RoutesGenuine'
  BY RoutesStep
<1> QED
  BY <1>1, <1>2, <1>3, <1>4, <1>5 DEF IInv

(* The inductive invariant holds throughout every behaviour of the relay's *)
(* handlers: registration, takeover, frames, notifications and departures. *)
THEOREM Invariance == Spec => []IInv
<1>1. Init => IInv
  BY IInvInit
<1>2. IInv /\ [Next]_vars => IInv'
  BY IInvStep
<1> QED
  BY <1>1, <1>2, PTL DEF Spec

(* Every handler step keeps the registry, the channels and the events that *)
(* wait to be pushed well formed: no event names a runtime nobody ran.     *)
THEOREM TypeCorrect == Spec => []TypeOK
<1>1. IInv => TypeOK
  BY DEF IInv
<1> QED
  BY <1>1, Invariance, PTL

(* register_host, the takeover in it and unregister_host: an endpoint      *)
(* entry always belongs to a running handler that proved the identity the  *)
(* entry is filed under, however takeovers and late unregistrations mix.   *)
THEOREM EntriesCorrect == Spec => []EndpointEntriesOwned
<1>1. IInv => EndpointEntriesOwned
  BY DEF IInv
<1> QED
  BY <1>1, Invariance, PTL

(* register_owner and unregister_owner: an owner's entry lists exactly the *)
(* running connections that proved to be that owner.                       *)
THEOREM OwnersCorrect == Spec => []OwnerEntriesExact
<1>1. IInv => OwnerEntriesExact
  BY DEF IInv
<1> QED
  BY <1>1, Invariance, PTL

(* route_from_owner and route_from_host: a route that waits in a channel   *)
(* was written by the identity it names and is read by the connection of   *)
(* the identity and the runtime it is for.                                 *)
THEOREM RoutesCorrect == Spec => []RoutesGenuine
<1>1. IInv => RoutesGenuine
  BY DEF IInv
<1> QED
  BY <1>1, Invariance, PTL

-----------------------------------------------------------------------------
(* RelayRegistry implements RouteAuthority: what the mapping makes of the  *)
(* registry.                                                               *)

LEMMA EntryIsSomething ==
  ASSUME NEW host \in HostConnection
  PROVE  host # None
  BY RelayAssumption

(* An entry that changes changes its key's holder and grants, and nothing  *)
(* else does.                                                              *)
LEMMA EntryReplaced ==
  ASSUME TypeOK, NEW k \in Keys, NEW host \in HostConnection,
         endpoints' = [endpoints EXCEPT ![k] = host]
  PROVE  /\ Holder' = [Holder EXCEPT ![k] = host.conn]
         /\ Grants' = [Grants EXCEPT ![k] = host.acl]
<1>1. host # None
  BY EntryIsSomething
<1>2. endpoints'[k] = host /\ \A j \in Keys : j # k => endpoints'[j] = endpoints[j]
  BY DEF TypeOK
<1>3. AuthorityOf(k)' = host
  BY <1>1, <1>2 DEF AuthorityOf
<1>4. \A j \in Keys : j # k => AuthorityOf(j)' = AuthorityOf(j)
  BY <1>2 DEF AuthorityOf
<1> QED
  BY <1>3, <1>4 DEF Holder, Grants

LEMMA EntriesKept ==
  ASSUME endpoints' = endpoints
  PROVE  Holder' = Holder /\ Grants' = Grants
  BY DEF Holder, Grants, AuthorityOf

LEMMA HolderIs ==
  ASSUME TypeOK, NEW k \in Keys, endpoints[k] # None
  PROVE  /\ Holder[k] = endpoints[k].conn /\ Holder[k] \in Conns /\ Holder[k] # None
         /\ Grants[k] = endpoints[k].acl
<1>1. endpoints[k] \in HostConnection
  BY EntryTyped
<1>2. endpoints[k].conn \in Conns
  BY <1>1 DEF HostConnection
<1> QED
  BY <1>2, RelayAssumption DEF Holder, Grants, AuthorityOf

LEMMA GoneKept ==
  ASSUME phase' = phase
  PROVE  Gone' = Gone
  BY DEF Gone

-----------------------------------------------------------------------------
(* What it makes of the channels.                                          *)

LEMMA SequenceOf ==
  ASSUME NEW S, NEW n \in Nat, NEW f \in [1..n -> S]
  PROVE  f \in Seq(S) /\ Len(f) = n
<1>1. f \in Seq(S)
  BY SeqDef
<1> QED
  BY <1>1, LenProperties

LEMMA JoinedSequence ==
  ASSUME NEW S, NEW s \in Seq(S), NEW t \in Seq(S), NEW k, NEW n, Len(s) = k, Len(t) = n
  PROVE  /\ k \in Nat /\ n \in Nat
         /\ DOMAIN (s \o t) = 1..(k + n) /\ s \o t = [i \in 1..(k + n) |-> (s \o t)[i]]
         /\ \A i \in 1..(k + n) : (s \o t)[i] = IF i <= k THEN s[i] ELSE t[i - k]
<1>1. k \in Nat /\ n \in Nat
  BY LenProperties
<1>2. s \o t \in Seq(S) /\ Len(s \o t) = k + n
  BY ConcatProperties
<1>3. \A i \in 1..(Len(s) + Len(t)) : (s \o t)[i] = IF i <= Len(s) THEN s[i] ELSE t[i - Len(s)]
  BY ConcatProperties
<1>4. s \o t \in [1..(k + n) -> S]
  BY <1>2, LenProperties
<1> QED
  BY <1>1, <1>3, <1>4

LEMMA TailOfSequence ==
  ASSUME NEW S, NEW s \in Seq(S), NEW k, Len(s) = k, k # 0
  PROVE  /\ k \in Nat \ {0} /\ s # <<>>
         /\ Tail(s) = [i \in 1..(k - 1) |-> s[i + 1]]
<1>1. k \in Nat \ {0} /\ s # <<>>
  BY LenProperties, EmptySeq
<1>2. Tail(s) \in Seq(S) /\ Len(Tail(s)) = k - 1
  BY <1>1, HeadTailProperties
<1>3. \A i \in 1..(k - 1) : Tail(s)[i] = s[i + 1]
  BY <1>1, <1>2, HeadTailProperties
<1>4. Tail(s) \in [1..(k - 1) -> S]
  BY <1>2, LenProperties
<1> QED
  BY <1>1, <1>3, <1>4

LEMMA MailIs ==
  ASSUME NEW c \in Conns, hello'[c] = hello[c]
  PROVE  MailOf(c)' = [i \in DOMAIN rx'[c] |-> Posted(c, rx'[c][i])]
  BY DEF MailOf, Posted, IsHost

LEMMA MailKept ==
  ASSUME NEW c \in Conns, hello'[c] = hello[c], rx'[c] = rx[c]
  PROVE  MailOf(c)' = MailOf(c)
<1>1. MailOf(c)' = [i \in DOMAIN rx'[c] |-> Posted(c, rx'[c][i])]
  BY MailIs
<1> QED
  BY <1>1 DEF MailOf

LEMMA NoMail ==
  ASSUME NEW c \in Conns
  PROVE  /\ rx[c] = <<>> => MailOf(c) = <<>>
         /\ rx'[c] = <<>> => MailOf(c)' = <<>>
  BY DEF MailOf

LEMMA MailboxesKept ==
  ASSUME hello' = hello, rx' = rx
  PROVE  Mailboxes' = Mailboxes
<1>1. \A c \in Conns : MailOf(c)' = MailOf(c)
  BY MailKept
<1> QED
  BY <1>1 DEF Mailboxes

LEMMA MailAppended ==
  ASSUME TypeOK, hello' = hello, NEW c \in Conns, NEW m \in Message,
         rx'[c] = Append(rx[c], m)
  PROVE  MailOf(c)' = Append(MailOf(c), Posted(c, m))
<1>1. rx[c] \in Seq(Message) /\ DOMAIN rx[c] = 1..Len(rx[c]) /\ Len(rx[c]) \in Nat
  BY DEF TypeOK
<1>2. /\ DOMAIN rx'[c] = 1..(Len(rx[c]) + 1)
      /\ \A i \in 1..Len(rx[c]) : rx'[c][i] = rx[c][i]
      /\ rx'[c][Len(rx[c]) + 1] = m
  BY <1>1
<1>3. MailOf(c)' = [i \in DOMAIN rx'[c] |-> Posted(c, rx'[c][i])]
  BY MailIs
<1>4. MailOf(c)' = [i \in 1..(Len(rx[c]) + 1) |-> Posted(c, rx'[c][i])]
  BY <1>2, <1>3
<1>5. MailOf(c) = [i \in 1..Len(rx[c]) |-> Posted(c, rx[c][i])]
  BY <1>1 DEF MailOf
<1>6. \A i \in 1..Len(rx[c]) : Posted(c, rx'[c][i]) = Posted(c, rx[c][i])
  BY <1>2
<1>7. Posted(c, rx'[c][Len(rx[c]) + 1]) = Posted(c, m)
  BY <1>2
<1> DEFINE n == Len(rx[c])
           old == MailOf(c)
           P(i) == Posted(c, rx[c][i])
           Q(i) == Posted(c, rx'[c][i])
<1>8. n \in Nat /\ old = [i \in 1..n |-> P(i)] /\ Len(old) = n
  BY <1>1, <1>5
<1>9. \A i \in 1..n : P(i) = Q(i)
  BY <1>6
<1>10. MailOf(c)' = [i \in 1..(n + 1) |-> Q(i)] /\ Q(n + 1) = Posted(c, m)
  BY <1>4, <1>7
<1> HIDE DEF n, old, P, Q
<1> DEFINE S == {Posted(c, m)} \cup {P(i) : i \in 1..n}
           new == Append(old, Posted(c, m))
<1>11. old \in Seq(S) /\ Posted(c, m) \in S
  <2>1. old \in [1..n -> S]
    BY <1>8
  <2> HIDE DEF S
  <2>2. old \in Seq(S)
    BY <2>1, <1>8
  <2> QED
    BY <2>2 DEF S
<1>12. /\ new \in Seq(S) /\ Len(new) = n + 1
       /\ \A i \in 1..n : new[i] = old[i]
       /\ new[n + 1] = Posted(c, m)
  <2> HIDE DEF S
  <2> QED
    BY <1>8, <1>11, AppendProperties
<1> HIDE DEF S, new
<1>13. new = [i \in 1..(n + 1) |-> Q(i)]
  <2>1. DOMAIN new = 1..(n + 1)
    BY <1>8, <1>12
  <2>2. \A i \in 1..(n + 1) : new[i] = Q(i)
    BY <1>8, <1>9, <1>10, <1>12
  <2>3. new = [i \in DOMAIN new |-> new[i]]
    BY <1>12
  <2> QED
    BY <2>1, <2>2, <2>3
<1> QED
  BY <1>10, <1>13 DEF new, old

(* A burst of notices.                                                     *)
Notices(n) == [i \in 1..n |-> None]

LEMMA MailNotified ==
  ASSUME TypeOK, hello' = hello, NEW c \in Conns, NEW n \in Nat, NEW lines \in Seq(Message),
         Len(lines) = n, \A i \in 1..n : lines[i].type # "route",
         rx'[c] = rx[c] \o lines
  PROVE  MailOf(c)' = MailOf(c) \o Notices(n)
<1> DEFINE k == Len(rx[c])
           P(i) == Posted(c, rx[c][i])
           Q(i) == Posted(c, rx'[c][i])
           old == MailOf(c)
           new == old \o Notices(n)
           S == {None} \cup {P(i) : i \in 1..k}
<1>1. rx[c] \in Seq(Message) /\ k \in Nat /\ DOMAIN rx[c] = 1..k
  BY DEF TypeOK
<1>2. /\ DOMAIN rx'[c] = 1..(k + n)
      /\ \A i \in 1..(k + n) : rx'[c][i] = IF i <= k THEN rx[c][i] ELSE lines[i - k]
  <2> DEFINE first == rx[c]
  <2>1. first \in Seq(Message) /\ Len(first) = k
    BY <1>1
  <2> HIDE DEF k, first
  <2>2. /\ DOMAIN (first \o lines) = 1..(k + n)
        /\ \A i \in 1..(k + n) : (first \o lines)[i] = IF i <= k THEN first[i] ELSE lines[i - k]
    <3>1. lines \in Seq(Message) /\ Len(lines) = n
      OBVIOUS
    <3> QED
      BY ONLY <2>1, <3>1, JoinedSequence, SMTT(30)
  <2> QED
    BY <2>2 DEF first
<1>3. \A i \in 1..k : P(i) = Q(i)
  BY <1>1, <1>2
<1>4. \A i \in (k + 1)..(k + n) : Q(i) = None
  <2> TAKE i \in (k + 1)..(k + n)
  <2>1. rx'[c][i] = lines[i - k] /\ i - k \in 1..n
    BY <1>1, <1>2
  <2>2. rx'[c][i].type # "route"
    BY <2>1
  <2> QED
    BY <2>2 DEF Posted
<1>5. MailOf(c)' = [i \in 1..(k + n) |-> Q(i)]
  <2>1. MailOf(c)' = [i \in DOMAIN rx'[c] |-> Q(i)]
    BY MailIs
  <2>2. DOMAIN rx'[c] = 1..(k + n)
    BY <1>1, <1>2
  <2> QED
    BY <2>1, <2>2
<1>6. old = [i \in 1..k |-> P(i)]
  BY <1>1 DEF MailOf
<1> HIDE DEF P, Q, k, old
<1>7. old \in [1..k -> S] /\ Notices(n) \in [1..n -> S]
  BY <1>6 DEF Notices
<1> HIDE DEF S
<1>8. old \in Seq(S) /\ Len(old) = k /\ Notices(n) \in Seq(S) /\ Len(Notices(n)) = n
  BY <1>1, <1>7, SequenceOf
<1>9. /\ new = [i \in 1..(k + n) |-> new[i]]
      /\ \A i \in 1..(k + n) : new[i] = IF i <= k THEN old[i] ELSE Notices(n)[i - k]
  BY ONLY <1>8, JoinedSequence, SMTT(30)
<1> HIDE DEF new
<1>10. \A i \in 1..(k + n) : new[i] = Q(i)
  <2> TAKE i \in 1..(k + n)
  <2>1. CASE i <= k
    BY <1>1, <1>3, <1>6, <1>9, <2>1
  <2>2. CASE ~(i <= k)
    <3>1. i - k \in 1..n /\ i \in (k + 1)..(k + n)
      BY <1>1, <2>2
    <3> QED
      BY <1>4, <1>9, <2>2, <3>1 DEF Notices
  <2> QED
    BY <2>1, <2>2
<1>11. new = [i \in 1..(k + n) |-> Q(i)]
  BY <1>9, <1>10
<1> QED
  BY <1>5, <1>11 DEF new, old

LEMMA MailRead ==
  ASSUME TypeOK, hello' = hello, NEW c \in Conns, rx[c] # <<>>, rx'[c] = Tail(rx[c])
  PROVE  MailOf(c) # <<>> /\ MailOf(c)' = Tail(MailOf(c))
<1> DEFINE k == Len(rx[c])
           P(i) == Posted(c, rx[c][i])
           old == MailOf(c)
           S == {P(i) : i \in 1..k}
<1>1. rx[c] \in Seq(Message) /\ k \in Nat \ {0} /\ DOMAIN rx[c] = 1..k
  BY EmptySeq DEF TypeOK
<1>2. DOMAIN rx'[c] = 1..(k - 1) /\ \A i \in 1..(k - 1) : rx'[c][i] = rx[c][i + 1]
  BY <1>1, HeadTailProperties
<1>3. MailOf(c)' = [i \in 1..(k - 1) |-> P(i + 1)]
  <2>1. MailOf(c)' = [i \in DOMAIN rx'[c] |-> Posted(c, rx'[c][i])]
    BY MailIs
  <2> QED
    BY <1>2, <2>1
<1>4. old = [i \in 1..k |-> P(i)]
  BY <1>1 DEF MailOf
<1> HIDE DEF P, k, old
<1>5. old \in [1..k -> S]
  BY <1>4
<1> HIDE DEF S
<1>6. old \in Seq(S) /\ Len(old) = k
  BY <1>1, <1>5
<1>7. old # <<>> /\ Tail(old) = [i \in 1..(k - 1) |-> old[i + 1]]
  BY <1>1, <1>6, TailOfSequence
<1>8. \A i \in 1..(k - 1) : old[i + 1] = P(i + 1)
  BY <1>1, <1>4
<1>9. Tail(old) = [i \in 1..(k - 1) |-> P(i + 1)]
  BY <1>7, <1>8
<1> QED
  BY <1>3, <1>7, <1>9 DEF old
-----------------------------------------------------------------------------
(* The steps.                                                              *)

Implements == [Authority!Next]_(Authority!vars)

LEMMA LeaveIsNext ==
  ASSUME NEW c \in Conns, Authority!Leave(c)
  PROVE  Implements
  BY DEF Implements, Authority!Next

(* A connection that was never registered has nothing to give up.          *)
LEMMA NeverRegistered ==
  ASSUME IInv, NEW c \in Conns, phase[c] \in {"hello", "auth"},
         phase' = [phase EXCEPT ![c] = "closed"],
         UNCHANGED <<hello, registryVars, rx>>
  PROVE  Implements
<1>1. TypeOK /\ EndpointEntriesOwned /\ OwnerEntriesExact /\ HandshakeStages
  BY DEF IInv
<1>2. Gone' = Gone \cup {c}
  BY <1>1 DEF Gone, TypeOK
<1>3. Holder' = Holder /\ Grants' = Grants
  BY EntriesKept DEF registryVars
<1>4. Mailboxes' = Mailboxes /\ rx[c] = <<>>
  BY <1>1, MailboxesKept DEF HandshakeStages
<1>5. \A k \in Keys : Holder[k] # c
  <2> TAKE k \in Keys
  <2>1. CASE endpoints[k] = None
    BY <2>1, RelayAssumption DEF Holder, AuthorityOf
  <2>2. CASE endpoints[k] # None
    BY <1>1, <2>2, HolderIs DEF EndpointEntriesOwned
  <2> QED
    BY <2>1, <2>2
<1>6. \A o \in Owners : c \notin owners[o]
  BY <1>1 DEF OwnerEntriesExact
<1>7. Holder' = [k \in Keys |-> IF Holder[k] = c THEN None ELSE Holder[k]]
  BY <1>3, <1>5 DEF Holder
<1>8. Grants' = [k \in Keys |-> IF Holder[k] = c THEN {} ELSE Grants[k]]
  BY <1>3, <1>5 DEF Grants
<1>9. owners' = [o \in Owners |-> owners[o] \ {c}]
  BY <1>1, <1>6 DEF registryVars, TypeOK
<1>10. Mailboxes' = [Mailboxes EXCEPT ![c] = <<>>]
  BY <1>4, NoMail DEF Mailboxes
<1> QED
  BY <1>2, <1>7, <1>8, <1>9, <1>10, LeaveIsNext DEF Authority!Leave

LEMMA ReceiveHelloMaps ==
  ASSUME IInv, NEW c \in Conns, ReceiveHello(c)
  PROVE  Implements
<1>1. /\ TypeOK /\ HandshakeStages /\ phase[c] = "hello"
      /\ phase' = [phase EXCEPT ![c] = "auth"]
      /\ \A d \in Conns : d # c => hello'[d] = hello[d]
      /\ UNCHANGED <<registryVars, rx>>
  BY DEF IInv, ReceiveHello, TypeOK
<1>2. Gone' = Gone
  BY <1>1 DEF Gone, TypeOK
<1>3. rx[c] = <<>>
  BY <1>1 DEF HandshakeStages
<1>4. \A d \in Conns : MailOf(d)' = MailOf(d)
  BY <1>1, <1>3, MailKept, NoMail
<1>5. Mailboxes' = Mailboxes
  BY <1>4 DEF Mailboxes
<1>6. Holder' = Holder /\ Grants' = Grants /\ owners' = owners
  BY <1>1, EntriesKept DEF registryVars
<1> QED
  BY <1>2, <1>5, <1>6 DEF Implements, Authority!vars

LEMMA RegisterHostMaps ==
  ASSUME IInv, NEW c \in Conns, NEW key \in Identities, RegisterHost(c, key)
  PROVE  Implements
<1> DEFINE k == KeyOf(hello[c])
           host == [conn |-> c, runtime |-> hello[c].runtime, meta |-> hello[c].meta,
                    acl |-> hello[c].acl]
<1>1. /\ TypeOK /\ HandshakeStages /\ phase[c] = "auth" /\ hello[c] # None
      /\ IsHost(c)
      /\ phase' = [phase EXCEPT ![c] = "active"]
      /\ UNCHANGED <<hello, owners, rx>>
      /\ endpoints' = [endpoints EXCEPT ![k] = host]
  BY DEF IInv, RegisterHost, Authenticated, HandshakeStages, IsHost
<1>2. hello[c] \in HostHello /\ k \in Keys
  BY <1>1, HelloTyped
<1>3. host \in HostConnection /\ host.conn = c /\ host.acl = hello[c].acl
      /\ hello[c].acl \in SUBSET Owners
  BY <1>2 DEF HostHello, HostConnection
<1>4. c \notin Gone /\ Gone' = Gone
  BY <1>1 DEF Gone, TypeOK
<1>5. Mailboxes' = Mailboxes
  BY <1>1, MailboxesKept
<1> HIDE DEF k, host
<1>6. Holder' = [Holder EXCEPT ![k] = c] /\ Grants' = [Grants EXCEPT ![k] = hello[c].acl]
  <2>1. TypeOK /\ endpoints' = [endpoints EXCEPT ![k] = host]
    BY <1>1
  <2>2. /\ Holder' = [Holder EXCEPT ![k] = host.conn]
        /\ Grants' = [Grants EXCEPT ![k] = host.acl]
    BY ONLY <2>1, <1>2, <1>3, EntryReplaced
  <2> QED
    BY <2>2, <1>3
<1>7. Authority!Claim(c, k, hello[c].acl)
  BY <1>1, <1>4, <1>5, <1>6 DEF Authority!Claim
<1> QED
  BY <1>2, <1>3, <1>7 DEF Implements, Authority!Next

LEMMA RegisterOwnerMaps ==
  ASSUME IInv, NEW c \in Conns, NEW key \in Identities, RegisterOwner(c, key)
  PROVE  Implements
<1>1. /\ TypeOK /\ HandshakeStages /\ phase[c] = "auth" /\ hello[c] # None
      /\ IsOwner(c)
      /\ phase' = [phase EXCEPT ![c] = "active"]
      /\ UNCHANGED <<hello, endpoints, rx>>
      /\ owners' = [owners EXCEPT ![hello[c].id] = @ \cup {c}]
  BY DEF IInv, RegisterOwner, Authenticated, HandshakeStages, IsOwner
<1>2. hello[c].id \in Owners
  BY <1>1, HelloTyped DEF OwnerHello
<1>3. c \notin Gone /\ Gone' = Gone
  BY <1>1 DEF Gone, TypeOK
<1>4. Mailboxes' = Mailboxes /\ Holder' = Holder /\ Grants' = Grants
  BY <1>1, MailboxesKept, EntriesKept
<1>5. Authority!TakeSeat(c, hello[c].id)
  BY <1>1, <1>3, <1>4 DEF Authority!TakeSeat
<1> QED
  BY <1>2, <1>5 DEF Implements, Authority!Next

LEMMA HandshakeMaps ==
  ASSUME IInv, NEW c \in Conns, Handshake(c)
  PROVE  Implements
<1>1. CASE AbandonHandshake(c)
  BY <1>1, NeverRegistered DEF AbandonHandshake
<1>2. ASSUME NEW key \in Identities, RejectAuth(c, key)
      PROVE  Implements
  BY <1>2, NeverRegistered DEF RejectAuth
<1> QED
  BY <1>1, <1>2, ReceiveHelloMaps, RegisterHostMaps, RegisterOwnerMaps DEF Handshake

-----------------------------------------------------------------------------
LEMMA SubscribeMaps ==
  ASSUME IInv, NEW c \in Conns, NEW D \in SUBSET Devices, SubscribeEndpoints(c, D)
  PROVE  Implements
<1>1. /\ TypeOK /\ IsOwner(c) /\ phase[c] = "active"
      /\ UNCHANGED <<phase, hello, endpoints, owners>>
  BY DEF IInv, SubscribeEndpoints, ReceiveFrame, Idle
<1>2. hello[c].id \in Owners
  BY <1>1, HelloTyped DEF OwnerHello
<1>3. PICK order \in Orders(D) :
        rx' = [rx EXCEPT ![c] = @ \o [i \in DOMAIN order |->
                                        EndpointsOf(hello[c].id, order[i])]]
  BY DEF SubscribeEndpoints
<1> DEFINE lines == [i \in DOMAIN order |-> EndpointsOf(hello[c].id, order[i])]
           n == Cardinality(D)
<1>4. n \in Nat /\ n <= Cardinality(Devices)
  BY RelayAssumption, FS_Subset, FS_CardinalityType
<1>5. lines \in Seq(Message)
  BY <1>1, <1>2, SnapshotsTyped, MessageParts
<1>6. DOMAIN order = 1..n
  BY DEF Orders
<1>7. Len(lines) = n
  BY <1>4, <1>6
<1>8. \A i \in 1..n : lines[i].type # "route"
  BY <1>6 DEF EndpointsOf
<1>9. rx'[c] = rx[c] \o lines /\ \A d \in Conns : d # c => rx'[d] = rx[d]
  BY <1>1, <1>3 DEF TypeOK
<1> HIDE DEF lines, n
<1>10. MailOf(c)' = MailOf(c) \o Notices(n)
  BY <1>1, <1>4, <1>5, <1>7, <1>8, <1>9, MailNotified
<1>11. \A d \in Conns : d # c => MailOf(d)' = MailOf(d)
  BY <1>1, <1>9, MailKept
<1>12. Mailboxes' = [Mailboxes EXCEPT ![c] = @ \o Notices(n)]
  BY <1>10, <1>11 DEF Mailboxes
<1>13. Holder' = Holder /\ Grants' = Grants /\ Gone' = Gone
  BY <1>1, EntriesKept, GoneKept
<1>14. CASE n = 0
  <2>1. lines = <<>>
    BY <1>5, <1>7, <1>14, EmptySeq
  <2>2. rx'[c] = rx[c]
    BY <1>1, <1>9, <2>1, ConcatEmptySeq DEF TypeOK
  <2>3. Mailboxes' = Mailboxes
    BY <1>1, <1>11, <2>2, MailKept DEF Mailboxes
  <2> QED
    BY <1>1, <1>13, <2>3 DEF Implements, Authority!vars
<1>15. CASE n # 0
  <2>1. c \notin Gone /\ n \in 1..Cardinality(Devices)
    BY <1>1, <1>4, <1>15, RelayAssumption, FS_CardinalityType DEF Gone
  <2>2. Authority!Notify(c, n)
    BY <1>1, <1>12, <1>13, <2>1 DEF Authority!Notify, Notices
  <2> QED
    BY <2>1, <2>2 DEF Implements, Authority!Next
<1> QED
  BY <1>14, <1>15

LEMMA UpdateMaps ==
  ASSUME IInv, NEW c \in Conns, NEW update \in EndpointUpdate, UpdateHost(c, update)
  PROVE  Implements
<1> DEFINE k == KeyOf(hello[c])
           new == Amended(endpoints[k], update)
<1>1. /\ TypeOK /\ IsHost(c) /\ Holds(k, c) /\ endpoints[k] # None
      /\ endpoints' = [endpoints EXCEPT ![k] = new]
      /\ UNCHANGED <<phase, hello, owners, rx>>
  BY DEF IInv, UpdateHost, ReceiveFrame, Holds
<1>2. k \in Keys /\ endpoints[k] \in HostConnection
  BY <1>1, HelloTyped, EntryTyped
<1>3. new \in HostConnection /\ new.conn = endpoints[k].conn
  BY <1>2, AmendedTyped
<1>4. new.acl \in SUBSET Owners
  BY <1>3 DEF HostConnection
<1> HIDE DEF k, new
<1>5. /\ Holder' = [Holder EXCEPT ![k] = new.conn]
      /\ Grants' = [Grants EXCEPT ![k] = new.acl]
  <2>1. TypeOK /\ endpoints' = [endpoints EXCEPT ![k] = new]
    BY <1>1
  <2> QED
    BY ONLY <2>1, <1>2, <1>3, EntryReplaced
<1>6. Holder[k] = new.conn /\ Holder[k] # None
  BY <1>1, <1>2, <1>3, HolderIs
<1>7. Holder' = Holder
  BY <1>5, <1>6 DEF Holder
<1>8. Mailboxes' = Mailboxes /\ Gone' = Gone
  BY <1>1, MailboxesKept, GoneKept
<1>9. Authority!Regrant(k, new.acl)
  BY <1>1, <1>5, <1>6, <1>7, <1>8 DEF Authority!Regrant
<1> QED
  BY <1>2, <1>4, <1>9 DEF Implements, Authority!Next

LEMMA RouteFromOwnerMaps ==
  ASSUME IInv, NEW c \in Conns, NEW route \in RouteFrame, RouteFromOwner(c, route)
  PROVE  Implements
<1> DEFINE k == <<route.device, route.endpoint>>
           o == hello[c].id
           forwarded == [route EXCEPT !.source = o]
           m == [purpose |-> route.purpose, key |-> k, owner |-> o]
<1>0. PICK to \in Conns : to = endpoints[k].conn
  BY OwnerRouteDelivered DEF IInv, HostConnection
<1>1. /\ TypeOK /\ EndpointEntriesOwned /\ IsOwner(c) /\ c \in owners[o]
      /\ route.purpose = "session" => o \in endpoints[k].acl
      /\ rx' = [rx EXCEPT ![to] = Append(@, forwarded)]
      /\ UNCHANGED <<phase, hello, endpoints, owners>>
  BY <1>0 DEF IInv, RouteFromOwner, ReceiveFrame, registryVars, OwnerRouteOutcome
<1>2. /\ k \in Keys /\ endpoints[k] # None /\ o \in Owners
      /\ forwarded \in RouteFrame /\ forwarded \in Message
  BY <1>1, OwnerRouteDelivered, MessageParts
<1>3. IsHost(to)
  BY <1>0, <1>1, <1>2 DEF EndpointEntriesOwned
<1>4. Posted(to, forwarded) = m
  BY <1>2, <1>3 DEF Posted, RouteFrame
<1>5. m \in Authority!Mail
  BY <1>2 DEF Authority!Mail, RouteFrame
<1>6. Holder[k] = to /\ Holder[k] # None /\ Grants[k] = endpoints[k].acl
  BY <1>0, <1>1, <1>2, HolderIs
<1>7. m.key = k /\ m.owner = o /\ m.purpose = route.purpose
  OBVIOUS
<1> HIDE DEF k, o, forwarded, m
<1>8. Authority!Passes(m) /\ owners[m.owner] # {}
  BY <1>1, <1>6, <1>7 DEF Authority!Passes
<1>9. rx'[to] = Append(rx[to], forwarded) /\ \A d \in Conns : d # to => rx'[d] = rx[d]
  BY <1>1, <1>2 DEF TypeOK
<1>10. MailOf(to)' = Append(MailOf(to), m)
  <2>1. TypeOK /\ hello' = hello /\ forwarded \in Message
    BY <1>1, <1>2
  <2> QED
    BY <2>1, <1>4, <1>9, MailAppended
<1>11. \A d \in Conns : d # to => MailOf(d)' = MailOf(d)
  BY <1>1, <1>9, MailKept
<1>12. Mailboxes' = [Mailboxes EXCEPT ![Holder[m.key]] = Append(@, m)]
  <2>1. Mailboxes' = [Mailboxes EXCEPT ![to] = Append(@, m)]
    BY <1>2, <1>10, <1>11 DEF Mailboxes
  <2> QED
    BY <2>1, <1>6, <1>7
<1>13. Holder' = Holder /\ Grants' = Grants /\ Gone' = Gone
  BY <1>1, EntriesKept, GoneKept
<1>14. Authority!ToHolder(m)
  BY <1>1, <1>8, <1>12, <1>13 DEF Authority!ToHolder
<1> QED
  BY <1>5, <1>14 DEF Implements, Authority!Next

LEMMA RouteFromHostMaps ==
  ASSUME IInv, NEW c \in Conns, NEW route \in RouteFrame, RouteFromHost(c, route)
  PROVE  Implements
<1> DEFINE k == KeyOf(hello[c])
           o == route.target
           m == [purpose |-> route.purpose, key |-> k, owner |-> o]
<1>1. /\ TypeOK /\ OwnerEntriesExact /\ IsHost(c) /\ Holds(k, c)
      /\ <<route.device, route.endpoint>> = k
      /\ o # None /\ owners[o] # {}
      /\ route.purpose = "session" => o \in endpoints[k].acl
      /\ rx' = [d \in Conns |-> IF d \in owners[o] THEN Append(rx[d], route) ELSE rx[d]]
      /\ UNCHANGED <<phase, hello, endpoints, owners>>
  BY DEF IInv, RouteFromHost, ReceiveFrame, registryVars, HostRouteOutcome
<1>2. k \in Keys /\ endpoints[k] # None /\ o \in Owners /\ route \in Message
  BY <1>1, HelloTyped, MessageParts DEF Holds, RouteFrame, Optional
<1>3. \A d \in owners[o] : ~IsHost(d) /\ d \in Conns
  BY <1>1, <1>2 DEF OwnerEntriesExact, IsHost, IsOwner, TypeOK
<1>4. \A d \in owners[o] : Posted(d, route) = m
  BY <1>1, <1>3 DEF Posted, RouteFrame
<1>5. m \in Authority!Mail
  BY <1>2 DEF Authority!Mail, RouteFrame
<1>6. Holder[k] # None /\ Grants[k] = endpoints[k].acl
  BY <1>1, <1>2, HolderIs
<1>7. m.key = k /\ m.owner = o /\ m.purpose = route.purpose
  OBVIOUS
<1> HIDE DEF k, o, m
<1>8. Authority!Passes(m) /\ owners[m.owner] # {}
  BY <1>1, <1>6, <1>7 DEF Authority!Passes
<1>9. \A d \in owners[o] : MailOf(d)' = Append(MailOf(d), m)
  <2> TAKE d \in owners[o]
  <2>1. d \in Conns /\ rx'[d] = Append(rx[d], route) /\ hello' = hello
    BY <1>1, <1>3
  <2> QED
    BY <1>1, <1>2, <1>4, <2>1, MailAppended
<1>10. \A d \in Conns : d \notin owners[o] => MailOf(d)' = MailOf(d)
  BY <1>1, MailKept
<1>11. Mailboxes' = [d \in Conns |-> IF d \in owners[m.owner] THEN Append(Mailboxes[d], m)
                                     ELSE Mailboxes[d]]
  BY <1>3, <1>7, <1>9, <1>10 DEF Mailboxes
<1>12. Holder' = Holder /\ Grants' = Grants /\ Gone' = Gone
  BY <1>1, EntriesKept, GoneKept
<1>13. Authority!ToOwner(m)
  BY <1>1, <1>8, <1>11, <1>12 DEF Authority!ToOwner
<1> QED
  BY <1>5, <1>13 DEF Implements, Authority!Next

-----------------------------------------------------------------------------
LEMMA SendMaps ==
  ASSUME IInv, NEW c \in Conns, SendNotification(c)
  PROVE  Implements
<1>1. PICK n \in pending[c] :
        /\ rx' = IF phase[n.to] = "active"
                 THEN [rx EXCEPT ![n.to] = Append(@, n.event)] ELSE rx
        /\ UNCHANGED <<handlerVars, registryVars>>
  BY DEF SendNotification
<1>2. TypeOK /\ UNCHANGED <<phase, hello, endpoints, owners>>
  BY <1>1 DEF IInv, handlerVars, registryVars
<1>3. n.to \in Conns /\ n.event \in EndpointEvent
  BY <1>2 DEF TypeOK, Notification
<1>4. Holder' = Holder /\ Grants' = Grants /\ Gone' = Gone
  BY <1>2, EntriesKept, GoneKept
<1>5. CASE phase[n.to] # "active"
  BY <1>1, <1>2, <1>4, <1>5, MailboxesKept DEF Implements, Authority!vars
<1>6. CASE phase[n.to] = "active"
  <2> DEFINE to == n.to
             event == n.event
  <2>1. to \in Conns /\ to \notin Gone /\ event \in Message
    BY <1>3, <1>6, MessageParts DEF Gone
  <2>2. rx'[to] = Append(rx[to], event) /\ \A d \in Conns : d # to => rx'[d] = rx[d]
    BY <1>1, <1>2, <1>3, <1>6 DEF TypeOK
  <2>3. Posted(to, event) = None
    BY <1>3 DEF EndpointEvent, Posted
  <2> HIDE DEF to, event
  <2>4. MailOf(to)' = Append(MailOf(to), None)
    BY <1>2, <2>1, <2>2, <2>3, MailAppended
  <2>5. Append(MailOf(to), None) = MailOf(to) \o Notices(1)
    <3>1. rx[to] \in Seq(Message) /\ Len(rx[to]) \in Nat /\ DOMAIN rx[to] = 1..Len(rx[to])
      BY <1>2, <2>1 DEF TypeOK
    <3> DEFINE S == {None} \cup {Posted(to, rx[to][i]) : i \in 1..Len(rx[to])}
    <3>2. MailOf(to) \in [1..Len(rx[to]) -> S] /\ None \in S
      BY <3>1 DEF MailOf
    <3> HIDE DEF S
    <3>3. MailOf(to) \in Seq(S)
      BY <3>1, <3>2, SequenceOf
    <3>4. Notices(1) = <<None>>
      BY DEF Notices
    <3> QED
      BY <3>2, <3>3, <3>4, AppendIsConcat
  <2>6. \A d \in Conns : d # to => MailOf(d)' = MailOf(d)
    BY <1>2, <2>2, MailKept
  <2>7. Mailboxes' = [Mailboxes EXCEPT ![to] = @ \o Notices(1)]
    BY <2>1, <2>4, <2>5, <2>6 DEF Mailboxes
  <2>8. Authority!Notify(to, 1)
    BY <1>2, <1>4, <2>1, <2>7 DEF Authority!Notify, Notices
  <2> QED
    BY <2>1, <2>8 DEF Implements, Authority!Next
<1> QED
  BY <1>5, <1>6

LEMMA WriteMaps ==
  ASSUME IInv, NEW c \in Conns, WriteMessage(c)
  PROVE  Implements
<1>1. /\ TypeOK /\ rx[c] # <<>> /\ rx' = [rx EXCEPT ![c] = Tail(@)]
      /\ UNCHANGED <<phase, hello, endpoints, owners>>
  BY DEF IInv, WriteMessage, handlerVars, registryVars
<1>2. rx'[c] = Tail(rx[c]) /\ \A d \in Conns : d # c => rx'[d] = rx[d]
  BY <1>1 DEF TypeOK
<1>3. MailOf(c) # <<>> /\ MailOf(c)' = Tail(MailOf(c))
  BY <1>1, <1>2, MailRead
<1>4. \A d \in Conns : d # c => MailOf(d)' = MailOf(d)
  BY <1>1, <1>2, MailKept
<1>5. Mailboxes' = [Mailboxes EXCEPT ![c] = Tail(@)] /\ Mailboxes[c] # <<>>
  BY <1>3, <1>4 DEF Mailboxes
<1>6. Holder' = Holder /\ Grants' = Grants /\ Gone' = Gone
  BY <1>1, EntriesKept, GoneKept
<1>7. Authority!Collect(c)
  BY <1>1, <1>5, <1>6 DEF Authority!Collect
<1> QED
  BY <1>7 DEF Implements, Authority!Next

(* The late unregistration of a replaced handler takes nothing away: what  *)
(* it gives up is what it holds at that moment.                            *)
LEMMA UnregisterMaps ==
  ASSUME IInv, NEW c \in Conns, Unregister(c)
  PROVE  Implements
<1>1. /\ TypeOK /\ HandshakeStages /\ EndpointEntriesOwned /\ OwnerEntriesExact
      /\ phase[c] = "active" /\ hello[c] # None
      /\ phase' = [phase EXCEPT ![c] = "closing"]
      /\ rx' = [rx EXCEPT ![c] = <<>>]
      /\ hello' = hello
  BY DEF IInv, Unregister, Idle, HandshakeStages
<1>2. Gone' = Gone \cup {c}
  BY <1>1 DEF Gone, TypeOK
<1>3. Mailboxes' = [Mailboxes EXCEPT ![c] = <<>>]
  <2>1. rx'[c] = <<>> /\ \A d \in Conns : d # c => rx'[d] = rx[d]
    BY <1>1 DEF TypeOK
  <2> QED
    BY <1>1, <2>1, NoMail, MailKept DEF Mailboxes
<1>4. \A k \in Keys : endpoints[k] # None /\ endpoints[k].conn = c =>
        IsHost(c) /\ k = KeyOf(hello[c])
  BY <1>1 DEF EndpointEntriesOwned
<1>5. \A k \in Keys : Holder[k] = c <=> endpoints[k] # None /\ endpoints[k].conn = c
  <2> TAKE k \in Keys
  <2>1. CASE endpoints[k] = None
    BY <2>1, RelayAssumption DEF Holder, AuthorityOf
  <2>2. CASE endpoints[k] # None
    BY <1>1, <2>2, HolderIs
  <2> QED
    BY <2>1, <2>2
<1>6. /\ \A k \in Keys : Holder[k] = c => endpoints'[k] = None
      /\ \A k \in Keys : Holder[k] # c => endpoints'[k] = endpoints[k]
  <2>1. CASE IsHost(c)
    <3>1. KeyOf(hello[c]) \in Keys
      BY <1>1, <2>1, HelloTyped
    <3>2. endpoints' = IF Holds(KeyOf(hello[c]), c)
                       THEN [endpoints EXCEPT ![KeyOf(hello[c])] = None] ELSE endpoints
      BY <2>1 DEF Unregister
    <3> QED
      BY <1>1, <1>4, <1>5, <3>1, <3>2 DEF Holds, TypeOK
  <2>2. CASE ~IsHost(c)
    BY <1>4, <1>5, <2>2 DEF Unregister
  <2> QED
    BY <2>1, <2>2
<1>7. /\ Holder' = [k \in Keys |-> IF Holder[k] = c THEN None ELSE Holder[k]]
      /\ Grants' = [k \in Keys |-> IF Holder[k] = c THEN {} ELSE Grants[k]]
  BY <1>6 DEF Holder, Grants, AuthorityOf
<1>8. owners' = [o \in Owners |-> owners[o] \ {c}]
  <2>1. CASE IsHost(c)
    <3>1. \A o \in Owners : c \notin owners[o]
      BY <1>1, <2>1 DEF OwnerEntriesExact, IsHost, IsOwner
    <3> QED
      BY <1>1, <2>1, <3>1 DEF Unregister, TypeOK
  <2>2. CASE ~IsHost(c)
    <3>1. owners' = [owners EXCEPT ![hello[c].id] = @ \ {c}]
      BY <2>2 DEF Unregister
    <3>2. \A o \in Owners : c \in owners[o] => hello[c].id = o
      BY <1>1 DEF OwnerEntriesExact
    <3> QED
      BY <1>1, <3>1, <3>2 DEF TypeOK
  <2> QED
    BY <2>1, <2>2
<1> QED
  BY <1>2, <1>3, <1>7, <1>8, LeaveIsNext DEF Authority!Leave

LEMMA StutterMaps ==
  ASSUME UNCHANGED <<hello, endpoints, owners, rx>>, Gone' = Gone
  PROVE  Implements
  BY MailboxesKept, EntriesKept DEF Implements, Authority!vars

LEMMA CloseMaps ==
  ASSUME IInv, NEW c \in Conns, Close(c)
  PROVE  Implements
<1>1. Gone' = Gone
  BY DEF IInv, TypeOK, Close, Gone
<1> QED
  BY <1>1, StutterMaps DEF Close, registryVars

LEMMA HandleFrameMaps ==
  ASSUME IInv, NEW c \in Conns, HandleFrame(c)
  PROVE  Implements
<1>1. CASE DropFrame(c)
  <2>1. UNCHANGED <<phase, hello, endpoints, owners, rx>>
    BY <1>1 DEF DropFrame, ReceiveFrame, registryVars
  <2> QED
    BY <2>1, GoneKept, StutterMaps
<1>2. RoutesBy(c) \subseteq RouteFrame
  BY DEF RoutesBy
<1> QED
  BY <1>1, <1>2, SubscribeMaps, UpdateMaps, RouteFromOwnerMaps, RouteFromHostMaps
  DEF HandleFrame

LEMMA StepMaps == IInv /\ [Next]_vars => Implements
<1> SUFFICES ASSUME IInv, [Next]_vars
             PROVE  Implements
  OBVIOUS
<1>1. CASE UNCHANGED vars
  <2>1. UNCHANGED <<phase, hello, endpoints, owners, rx>>
    BY <1>1 DEF vars, handlerVars, registryVars
  <2> QED
    BY <2>1, GoneKept, StutterMaps
<1>2. ASSUME NEW c \in Conns, Disconnect(c) \/ EvictReplaced(c)
      PROVE  Implements
  BY <1>2, UnregisterMaps DEF Disconnect, EvictReplaced
<1> QED
  BY <1>1, <1>2, HandshakeMaps, HandleFrameMaps, SendMaps, WriteMaps, CloseMaps DEF Next

LEMMA InitMaps == Init => Authority!Init
<1> SUFFICES ASSUME Init PROVE Authority!Init
  OBVIOUS
<1>1. \A c \in Conns : MailOf(c) = <<>>
  BY NoMail DEF Init
<1>2. Holder = [k \in Keys |-> None] /\ Grants = [k \in Keys |-> {}]
  BY DEF Init, Holder, Grants, AuthorityOf
<1>3. Gone = {}
  BY DEF Init, Gone
<1> QED
  BY <1>1, <1>2, <1>3 DEF Init, Authority!Init, Mailboxes

(* The relay keeps the promise of RouteAuthority, whatever the handlers of *)
(* its connections do and in whatever order: authority over an endpoint    *)
(* moves in one step, only its holder is routed to, a session route passes *)
(* under the ACL of the moment and reaches all of the owner's browsers,    *)
(* channels keep their order, and who leaves takes only what he holds.     *)
THEOREM Refinement == Spec => ImplementsAuthority
<1>1. Init => Authority!Init
  BY InitMaps
<1>2. IInv /\ [Next]_vars => [Authority!Next]_(Authority!vars)
  BY StepMaps DEF Implements
<1> QED
  BY <1>1, <1>2, Invariance, PTL DEF Spec, ImplementsAuthority, Authority!Spec


-----------------------------------------------------------------------------
(* What browsers are told: RelayViews.                                     *)

(* The events on their way to c about k.                                   *)
Coming(c, k) ==
  {n.event : n \in {x \in UNION {pending[d] : d \in Conns} : x.to = c /\ EventKey(x.event) = k}}

(* What c knows of k is exact; or c was misled and told nothing since; or  *)
(* a description of k is still to come, which is true then or misleads; or *)
(* nothing is to be seen any more and the end of what c knows is to come.  *)
Reaches(c, k) ==
  \/ k \in overtaken[c]
  \/ KnownOf(c, k) = VisibleOf(c, k)
  \/ \E m \in Coming(c, k) : m.type # "endpoint_ended"
  \/ /\ VisibleOf(c, k) = {}
     /\ \E m \in Coming(c, k) : \A d \in KnownOf(c, k) : d.runtime = m.runtime

Watches(c, k) == phase[c] = "active" /\ IsOwner(c) /\ k[1] \in subs[c]

(* A handler that has not registered has nothing to push and no            *)
(* subscription.                                                           *)
ViewInv ==
  /\ \A c \in Conns : phase[c] \in {"hello", "auth"} => pending[c] = {} /\ subs[c] = {}
  /\ \A c \in Conns, k \in Keys : Watches(c, k) => Reaches(c, k)

(* An owner sees one runtime of an endpoint or none.                       *)
Sight(k, host, o) ==
  IF Sees(host, o) THEN {[key |-> k, runtime |-> host.runtime, meta |-> host.meta]} ELSE {}

LEMMA OneSight ==
  ASSUME NEW ends, NEW o, NEW k \in Keys
  PROVE  {d \in {[key |-> j, runtime |-> ends[j].runtime, meta |-> ends[j].meta]
                   : j \in {i \in Keys : Sees(ends[i], o)}} : d.key = k} = Sight(k, ends[k], o)
<1> DEFINE seen == {j \in Keys : Sees(ends[j], o)}
           as(j) == [key |-> j, runtime |-> ends[j].runtime, meta |-> ends[j].meta]
<1>1. \A j : as(j).key = j
  OBVIOUS
<1> HIDE DEF as
<1>2. {d \in {as(j) : j \in seen} : d.key = k} = {as(j) : j \in {i \in seen : i = k}}
  BY <1>1
<1>3. {as(j) : j \in {i \in seen : i = k}} = IF Sees(ends[k], o) THEN {as(k)} ELSE {}
  OBVIOUS
<1> QED
  BY <1>2, <1>3 DEF as, Sight

LEMMA VisibleIs ==
  ASSUME NEW c \in Conns, NEW k \in Keys
  PROVE  /\ VisibleOf(c, k) = Sight(k, endpoints[k], hello[c].id)
         /\ VisibleOf(c, k)' = Sight(k, endpoints'[k], hello'[c].id)
<1>1. VisibleOf(c, k) = Sight(k, endpoints[k], hello[c].id)
  BY OneSight DEF VisibleOf, Visible
<1>2. VisibleOf(c, k)' = Sight(k, endpoints'[k], hello'[c].id)
  BY OneSight DEF VisibleOf, Visible
<1> QED
  BY <1>1, <1>2

(* What a step pushed, by what it did to the channel.                      *)
LEMMA NothingPushed ==
  ASSUME TypeOK, NEW c \in Conns, rx'[c] \in {rx[c], <<>>} \/ (rx[c] # <<>> /\ rx'[c] = Tail(rx[c]))
  PROVE  Pushed(c) = {}
<1>1. rx[c] \in Seq(Message) /\ Len(rx[c]) \in Nat
  BY LenProperties DEF TypeOK
<1>2. Len(rx'[c]) \in Nat /\ Len(rx'[c]) <= Len(rx[c])
  <2>1. CASE rx'[c] = rx[c]
    BY <1>1, <2>1
  <2>2. CASE rx'[c] = <<>>
    BY <1>1, <2>2, EmptySeq
  <2>3. CASE rx[c] # <<>> /\ rx'[c] = Tail(rx[c])
    <3>1. Len(rx[c]) # 0
      BY <1>1, <2>3, EmptySeq
    <3>2. Len(rx'[c]) = Len(rx[c]) - 1
      BY <1>1, <2>3, HeadTailProperties
    <3> QED
      BY <1>1, <3>1, <3>2
  <2> QED
    BY <2>1, <2>2, <2>3
<1>3. (Len(rx[c]) + 1)..Len(rx'[c]) = {}
  BY <1>1, <1>2
<1> QED
  BY <1>3 DEF Pushed

LEMMA OnePushed ==
  ASSUME TypeOK, NEW c \in Conns, NEW m \in Message, rx'[c] = Append(rx[c], m)
  PROVE  Pushed(c) = {m}
<1>1. rx[c] \in Seq(Message) /\ Len(rx[c]) \in Nat
  BY LenProperties DEF TypeOK
<1>2. Len(rx'[c]) = Len(rx[c]) + 1 /\ rx'[c][Len(rx[c]) + 1] = m
  BY <1>1, AppendProperties
<1>3. (Len(rx[c]) + 1)..Len(rx'[c]) = {Len(rx[c]) + 1}
  BY <1>1, <1>2
<1> QED
  BY <1>2, <1>3 DEF Pushed

LEMMA SnapshotsPushed ==
  ASSUME TypeOK, NEW c \in Conns, NEW o \in Owners, NEW D \in SUBSET Devices, NEW order \in Orders(D),
         rx'[c] = rx[c] \o [i \in DOMAIN order |-> EndpointsOf(o, order[i])]
  PROVE  Pushed(c) = {EndpointsOf(o, d) : d \in D}
<1> DEFINE lines == [i \in DOMAIN order |-> EndpointsOf(o, order[i])]
           n == Len(rx[c])
           p == Len(lines)
<1>0. lines \in Seq(Message)
  BY SnapshotsTyped, MessageParts
<1>1. rx[c] \in Seq(Message) /\ lines \in Seq(Message)
  BY <1>0 DEF TypeOK
<1>2. /\ DOMAIN order = DOMAIN lines /\ \A i \in DOMAIN order : order[i] \in D
      /\ \A d \in D : \E i \in DOMAIN order : order[i] = d
  BY DEF Orders
<1>3. n \in Nat /\ p \in Nat /\ DOMAIN lines = 1..p
  BY <1>1, LenProperties
<1>4. \A i \in DOMAIN lines : lines[i] = EndpointsOf(o, order[i])
  OBVIOUS
<1> HIDE DEF lines
<1>5. /\ Len(rx'[c]) = n + p
      /\ \A i \in 1..(n + p) : rx'[c][i] = IF i <= n THEN rx[c][i] ELSE lines[i - n]
  BY <1>1, ConcatProperties DEF lines
<1> HIDE DEF n, p
<1>6. \A i \in (n + 1)..(n + p) : i - n \in 1..p /\ rx'[c][i] = lines[i - n]
  <2> SUFFICES ASSUME NEW i \in (n + 1)..(n + p)
               PROVE  i - n \in 1..p /\ rx'[c][i] = lines[i - n]
    OBVIOUS
  <2>1. i \in 1..(n + p) /\ ~(i <= n) /\ i - n \in 1..p
    BY <1>3
  <2> QED
    BY <1>5, <2>1
<1>7. \A i \in 1..p : i + n \in (n + 1)..(n + p) /\ rx'[c][i + n] = lines[i]
  <2> SUFFICES ASSUME NEW i \in 1..p
               PROVE  i + n \in (n + 1)..(n + p) /\ rx'[c][i + n] = lines[i]
    OBVIOUS
  <2>1. i + n \in (n + 1)..(n + p) /\ (i + n) - n = i
    BY <1>3
  <2> QED
    BY <1>6, <2>1
<1>8. Pushed(c) = {rx'[c][i] : i \in (n + 1)..(n + p)}
  BY <1>5 DEF Pushed, n
<1>9. \A x : x \in Pushed(c) <=> \E i \in 1..p : x = lines[i]
  <2> SUFFICES ASSUME NEW x
               PROVE  x \in Pushed(c) <=> \E i \in 1..p : x = lines[i]
    OBVIOUS
  <2>1. x \in Pushed(c) <=> \E i \in (n + 1)..(n + p) : x = rx'[c][i]
    BY <1>8
  <2>2. ASSUME NEW i \in (n + 1)..(n + p), x = rx'[c][i]
        PROVE  \E j \in 1..p : x = lines[j]
    BY <1>6, <2>2
  <2>3. ASSUME NEW j \in 1..p, x = lines[j]
        PROVE  \E i \in (n + 1)..(n + p) : x = rx'[c][i]
    BY <1>7, <2>3
  <2> QED
    BY <2>1, <2>2, <2>3
<1>10. \A x : (\E i \in 1..p : x = lines[i]) <=> (\E d \in D : x = EndpointsOf(o, d))
  BY <1>2, <1>3, <1>4
<1> QED
  BY <1>9, <1>10


(* What is read of a message says nothing of other keys.                   *)
About(known, k) == {d \in known : d.key = k}

LEMMA ReadRoutes ==
  ASSUME NEW known, NEW keys, NEW new, NEW o, \A m \in new : m.type = "route"
  PROVE  Read(known, new) = known /\ Misled(keys, new, o) = keys
<1>1. Snapshots(new) = {} /\ Events(new) = {} /\ Descriptions(new) = {}
  BY DEF Snapshots, Events, Descriptions
<1> QED
  BY <1>1 DEF Read, Misled

LEMMA ReadEvent ==
  ASSUME NEW known, NEW keys, NEW m \in EndpointEvent, NEW o, NEW k
  PROVE  /\ k # EventKey(m) => /\ About(Read(known, {m}), k) = About(known, k)
                               /\ k \in keys => k \in Misled(keys, {m}, o)
         /\ k = EventKey(m) /\ m.type = "endpoint_ended" =>
              /\ About(Read(known, {m}), k) = {d \in About(known, k) : d.runtime # m.runtime}
              /\ k \in keys \/ ~True(m, o) => k \in Misled(keys, {m}, o)
         /\ k = EventKey(m) /\ m.type # "endpoint_ended" =>
              /\ About(Read(known, {m}), k) = {[key |-> k, runtime |-> m.runtime, meta |-> m.meta]}
              /\ ~True(m, o) => k \in Misled(keys, {m}, o)
<1>1. /\ Snapshots({m}) = {} /\ Events({m}) = {m}
      /\ m.type = "endpoint_ended" => Descriptions({m}) = {}
      /\ m.type # "endpoint_ended" => Descriptions({m}) = {m}
  BY DEF Snapshots, Events, Descriptions, EndpointEvent
<1> DEFINE item == [key |-> EventKey(m), runtime |-> m.runtime, meta |-> m.meta]
<1>2. item.key = EventKey(m)
  OBVIOUS
<1>3. CASE m.type = "endpoint_ended"
  <2>1. Read(known, {m}) = {d \in known : d.key = EventKey(m) => d.runtime # m.runtime}
    BY <1>1, <1>3 DEF Read
  <2>2. Misled(keys, {m}, o) = keys \cup {EventKey(x) : x \in {e \in {m} : ~True(e, o)}}
    BY <1>1, <1>3 DEF Misled
  <2> QED
    BY <1>3, <2>1, <2>2 DEF About
<1>4. CASE m.type # "endpoint_ended"
  <2>1. Read(known, {m}) = {d \in known : d.key # EventKey(m)} \cup {item}
    BY <1>1, <1>4 DEF Read
  <2>2. Misled(keys, {m}, o) = {x \in keys : EventKey(m) # x}
                                 \cup {EventKey(x) : x \in {e \in {m} : ~True(e, o)}}
    BY <1>1, <1>4 DEF Misled
  <2> HIDE DEF item
  <2>3. k # EventKey(m) => About(Read(known, {m}), k) = About(known, k)
    BY <1>2, <2>1 DEF About
  <2>4. k = EventKey(m) => About(Read(known, {m}), k) = {item}
    BY <1>2, <2>1 DEF About
  <2> QED
    BY <1>4, <2>2, <2>3, <2>4 DEF item
<1> QED
  BY <1>3, <1>4

LEMMA ReadOther ==
  ASSUME NEW known, NEW m \in EndpointEvent, NEW k, k # EventKey(m)
  PROVE  About(Read(known, {m}), k) = About(known, k)
<1>1. /\ Snapshots({m}) = {} /\ Events({m}) = {m}
      /\ m.type = "endpoint_ended" => Descriptions({m}) = {}
      /\ m.type # "endpoint_ended" => Descriptions({m}) = {m}
  BY DEF Snapshots, Events, Descriptions, EndpointEvent
<1> DEFINE item == [key |-> EventKey(m), runtime |-> m.runtime, meta |-> m.meta]
<1>2. item.key # k
  OBVIOUS
<1>3. CASE m.type = "endpoint_ended"
  <2>1. Read(known, {m}) = {d \in known : d.key = EventKey(m) => d.runtime # m.runtime}
    BY <1>1, <1>3 DEF Read
  <2> QED
    BY <2>1 DEF About
<1>4. CASE m.type # "endpoint_ended"
  <2>1. Read(known, {m}) = {d \in known : d.key # EventKey(m)} \cup {item}
    BY <1>1, <1>4 DEF Read
  <2> HIDE DEF item
  <2> QED
    BY <1>2, <2>1 DEF About
<1> QED
  BY <1>3, <1>4

(* A snapshot says what is to be seen of its device.                       *)
LEMMA ReadSnapshots ==
  ASSUME NEW known, NEW c \in Conns, NEW D \in SUBSET Devices, NEW k \in Keys, k[1] \in D
  PROVE  About(Read(known, {EndpointsOf(hello[c].id, d) : d \in D}), k) = VisibleOf(c, k)
<1> DEFINE o == hello[c].id
           new == {EndpointsOf(o, d) : d \in D}
           as(j) == [key |-> j, runtime |-> endpoints[j].runtime, meta |-> endpoints[j].meta]
           listed == UNION {{[key |-> <<m.device, i.endpoint>>, runtime |-> i.runtime, meta |-> i.meta]
                              : i \in m.endpoints} : m \in new}
<1>1. Snapshots(new) = new /\ Events(new) = {} /\ Descriptions(new) = {}
  <2>1. \A m \in new : m.type = "endpoints"
    BY DEF EndpointsOf
  <2> HIDE DEF new
  <2> QED
    BY <2>1 DEF Snapshots, Events, Descriptions
<1>2. \A d \in D : EndpointsOf(o, d).device = d
  BY DEF EndpointsOf
<1>3. \A d : d \in known /\ d.key = k => ~(\A m \in new : d.key[1] # m.device)
  BY <1>2
<1>4. Read(known, new) = {d \in known : \A m \in new : d.key[1] # m.device} \cup listed
  BY <1>1 DEF Read
<1>5. About(Read(known, new), k) = {x \in listed : x.key = k}
  BY <1>3, <1>4 DEF About
<1>6. \A d \in D : \A i : i \in EndpointsOf(o, d).endpoints <=>
        \E e \in Endpoints : /\ Sees(endpoints[<<d, e>>], o)
                             /\ i = [endpoint |-> e, runtime |-> endpoints[<<d, e>>].runtime,
                                     meta |-> endpoints[<<d, e>>].meta]
  BY DEF EndpointsOf
<1>7. \A x : x \in listed <=>
        \E d \in D, e \in Endpoints : Sees(endpoints[<<d, e>>], o) /\ x = as(<<d, e>>)
  <2> SUFFICES ASSUME NEW x
               PROVE  x \in listed <=>
                        \E d \in D, e \in Endpoints : Sees(endpoints[<<d, e>>], o) /\ x = as(<<d, e>>)
    OBVIOUS
  <2>1. x \in listed <=> \E d \in D : \E i \in EndpointsOf(o, d).endpoints :
                          x = [key |-> <<d, i.endpoint>>, runtime |-> i.runtime, meta |-> i.meta]
    BY <1>2
  <2>2. ASSUME NEW d \in D, NEW i \in EndpointsOf(o, d).endpoints,
               x = [key |-> <<d, i.endpoint>>, runtime |-> i.runtime, meta |-> i.meta]
        PROVE  \E e \in Endpoints : Sees(endpoints[<<d, e>>], o) /\ x = as(<<d, e>>)
    <3> DEFINE from(e) == [endpoint |-> e, runtime |-> endpoints[<<d, e>>].runtime,
                           meta |-> endpoints[<<d, e>>].meta]
    <3>1. i \in EndpointsOf(o, d).endpoints <=>
            \E e \in Endpoints : Sees(endpoints[<<d, e>>], o) /\ i = from(e)
      BY <1>6
    <3> HIDE DEF from
    <3>2. PICK e \in Endpoints : Sees(endpoints[<<d, e>>], o) /\ i = from(e)
      BY ONLY <2>2, <3>1
    <3> USE DEF from
    <3> QED
      BY <2>2, <3>2
  <2>3. ASSUME NEW d \in D, NEW e \in Endpoints, Sees(endpoints[<<d, e>>], o), x = as(<<d, e>>)
        PROVE  \E i \in EndpointsOf(o, d).endpoints :
                 x = [key |-> <<d, i.endpoint>>, runtime |-> i.runtime, meta |-> i.meta]
    <3>1. [endpoint |-> e, runtime |-> endpoints[<<d, e>>].runtime,
           meta |-> endpoints[<<d, e>>].meta] \in EndpointsOf(o, d).endpoints
      BY <1>6, <2>3
    <3> QED
      BY <2>3, <3>1
  <2> QED
    BY <2>1, <2>2, <2>3
<1>8. k = <<k[1], k[2]>> /\ k[1] \in Devices /\ k[2] \in Endpoints
  BY DEF Keys
<1>9. \A j : as(j).key = j
  OBVIOUS
<1> HIDE DEF as, listed, new, o
<1>10. \A x : x \in listed /\ x.key = k <=> Sees(endpoints[k], o) /\ x = as(k)
  <2> SUFFICES ASSUME NEW x
               PROVE  x \in listed /\ x.key = k <=> Sees(endpoints[k], o) /\ x = as(k)
    OBVIOUS
  <2>1. ASSUME x \in listed, x.key = k
        PROVE  Sees(endpoints[k], o) /\ x = as(k)
    <3>1. PICK d \in D, e \in Endpoints : Sees(endpoints[<<d, e>>], o) /\ x = as(<<d, e>>)
      BY <1>7, <2>1
    <3>2. <<d, e>> = k
      BY <1>9, <2>1, <3>1
    <3> QED
      BY <3>1, <3>2
  <2>2. ASSUME Sees(endpoints[k], o), x = as(k)
        PROVE  x \in listed /\ x.key = k
    <3>1. Sees(endpoints[<<k[1], k[2]>>], o) /\ x = as(<<k[1], k[2]>>)
      BY <1>8, <2>2
    <3> QED
      BY <1>7, <1>8, <1>9, <2>2, <3>1
  <2> QED
    BY <2>1, <2>2
<1>11. \A x : x \in VisibleOf(c, k) <=> Sees(endpoints[k], o) /\ x = as(k)
  BY VisibleIs DEF as, o, Sight
<1>12. About(Read(known, new), k) = VisibleOf(c, k)
  BY <1>5, <1>10, <1>11
<1> QED
  BY <1>12 DEF new, o


(* What c knows, what it may see and what is on its way to it are as they  *)
(* were, or more is on its way.                                            *)
LEMMA KnownKept ==
  ASSUME NEW c \in Conns, NEW k \in Keys, Reaches(c, k),
         told'[c] = told[c], k \in overtaken[c] => k \in overtaken'[c],
         VisibleOf(c, k)' = VisibleOf(c, k),
         Coming(c, k) \subseteq Coming(c, k)'
  PROVE  Reaches(c, k)'
<1>1. KnownOf(c, k)' = KnownOf(c, k)
  BY DEF KnownOf
<1> QED
  BY <1>1 DEF Reaches

(* A step that pushes c nothing, or a route, tells it nothing.             *)
LEMMA ToldNothing ==
  ASSUME NextViews, NEW c \in Conns, \A m \in Pushed(c) : m.type = "route"
  PROVE  told'[c] = told[c] /\ overtaken'[c] = overtaken[c]
  BY ReadRoutes DEF NextViews

(* Nor does a step that leaves the registry and the events alone.          *)
LEMMA CalmReaches ==
  ASSUME NextViews, NEW c \in Conns, NEW k \in Keys, Reaches(c, k),
         \A m \in Pushed(c) : m.type = "route",
         hello'[c] = hello[c], UNCHANGED <<endpoints, pending>>
  PROVE  Reaches(c, k)'
<1>1. told'[c] = told[c] /\ overtaken'[c] = overtaken[c]
  BY ToldNothing
<1>2. VisibleOf(c, k)' = VisibleOf(c, k)
  BY VisibleIs
<1>3. Coming(c, k)' = Coming(c, k)
  BY DEF Coming
<1> QED
  BY <1>1, <1>2, <1>3, KnownKept

(* A browser that watches k is among those visibility_delta tells of k.    *)
LEMMA WatchersTold ==
  ASSUME IInv, NEW c \in Conns, NEW k \in Keys, Watches(c, k)
  PROVE  hello[c].id \in Owners /\ c \in Subscribers(hello[c].id, k[1])
<1>1. hello[c] # None /\ hello[c].role = "owner" /\ phase[c] = "active" /\ signer[c] = hello[c].id
  BY DEF Watches, IsOwner, IInv, HandshakeStages
<1>2. hello[c] \in Hello
  BY <1>1 DEF IInv, TypeOK, Optional
<1>3. hello[c].id \in Owners
  BY <1>1, <1>2 DEF Hello, HostHello, OwnerHello
<1>4. c \in owners[hello[c].id]
  BY <1>1, <1>3 DEF IInv, OwnerEntriesExact, IsOwner
<1> QED
  BY <1>3, <1>4 DEF Subscribers, Watches

(* When the entry of a key changes, who sees it now is told what it is,    *)
(* and who saw it is told that the runtime he saw has ended.               *)
LEMMA ChangeReaches ==
  ASSUME IInv, NextViews, NEW c \in Conns, NEW k \in Keys, Watches(c, k), Reaches(c, k),
         \A m \in Pushed(c) : m.type = "route", hello'[c] = hello[c],
         NEW h \in Conns, NEW j \in Keys, NEW cur, pending[h] = {},
         endpoints' = [endpoints EXCEPT ![j] = cur],
         pending' = [pending EXCEPT ![h] = VisibilityDelta(j, endpoints[j], cur)]
  PROVE  Reaches(c, k)'
<1> DEFINE o == hello[c].id
           prev == endpoints[k]
           e == EventFor(o, k, prev, cur)
<1>1. told'[c] = told[c] /\ overtaken'[c] = overtaken[c]
  BY ToldNothing
<1>2. pending \in [Conns -> SUBSET Notification] /\ endpoints \in [Keys -> Optional(HostConnection)]
  BY DEF IInv, TypeOK
<1>3. /\ \A d \in Conns : d # h => pending'[d] = pending[d]
      /\ pending'[h] = VisibilityDelta(j, endpoints[j], cur)
      /\ endpoints'[j] = cur /\ \A i \in Keys : i # j => endpoints'[i] = endpoints[i]
  BY <1>2
<1>4. Coming(c, k) \subseteq Coming(c, k)'
  <2>1. \A d \in Conns : pending[d] \subseteq pending'[d]
    BY <1>3
  <2> QED
    BY <2>1 DEF Coming
<1>5. CASE k # j
  <2>1. VisibleOf(c, k)' = VisibleOf(c, k)
    BY <1>3, <1>5, VisibleIs
  <2> QED
    BY <1>1, <1>4, <2>1, KnownKept
<1>6. CASE k = j
  <2>1. VisibleOf(c, k) = Sight(k, prev, o) /\ VisibleOf(c, k)' = Sight(k, cur, o)
    BY <1>3, <1>6, VisibleIs
  <2>2. KnownOf(c, k)' = KnownOf(c, k)
    BY <1>1 DEF KnownOf
  <2>3. Sees(prev, o) \/ Sees(cur, o) => e \in Coming(c, k)'
    <3> SUFFICES ASSUME Sees(prev, o) \/ Sees(cur, o)
                 PROVE  e \in Coming(c, k)'
      OBVIOUS
    <3> DEFINE n == [to |-> c, event |-> e]
    <3>1. n \in VisibilityDelta(k, prev, cur)
      BY WatchersTold DEF VisibilityDelta
    <3>2. n.to = c /\ n.event = e
      OBVIOUS
    <3>3. k = <<k[1], k[2]>>
      BY DEF Keys
    <3>4. EventKey(e) = k
      BY <3>3 DEF EventKey, EventFor, Event
    <3> HIDE DEF n, e
    <3>5. n \in pending'[h]
      BY <1>3, <1>6, <3>1
    <3> QED
      BY <3>2, <3>4, <3>5 DEF Coming
  <2>4. CASE Sees(cur, o)
    <3>1. e.type # "endpoint_ended"
      BY <2>4 DEF EventFor, Event
    <3> HIDE DEF e
    <3> QED
      BY <2>3, <2>4, <3>1 DEF Reaches
  <2>5. CASE ~Sees(cur, o) /\ Sees(prev, o)
    <3>1. e.runtime = prev.runtime
      BY <2>5 DEF EventFor, Event
    <3>2. /\ VisibleOf(c, k)' = {}
          /\ VisibleOf(c, k) # {}
          /\ \A d \in VisibleOf(c, k) : d.runtime = prev.runtime
      <4>1. Sight(k, cur, o) = {}
        BY <2>5 DEF Sight
      <4>2. Sight(k, prev, o) = {[key |-> k, runtime |-> prev.runtime, meta |-> prev.meta]}
        BY <2>5 DEF Sight
      <4> HIDE DEF prev
      <4> QED
        BY <2>1, <4>1, <4>2
    <3> HIDE DEF e
    <3>3. CASE k \in overtaken[c]
      BY <1>1, <3>3 DEF Reaches
    <3>4. CASE KnownOf(c, k) = VisibleOf(c, k)
      <4>1. \A d \in KnownOf(c, k)' : d.runtime = e.runtime
        BY <2>2, <3>1, <3>2, <3>4
      <4>2. e \in Coming(c, k)'
        BY <2>3, <2>5
      <4> QED
        BY <3>2, <4>1, <4>2 DEF Reaches
    <3>5. CASE \E m \in Coming(c, k) : m.type # "endpoint_ended"
      BY <1>4, <3>5 DEF Reaches
    <3> QED
      BY <3>2, <3>3, <3>4, <3>5 DEF Reaches
  <2>6. CASE ~Sees(cur, o) /\ ~Sees(prev, o)
    <3>1. VisibleOf(c, k)' = VisibleOf(c, k)
      BY <2>1, <2>6 DEF Sight
    <3> QED
      BY <1>1, <1>4, <3>1, KnownKept
  <2> QED
    BY <2>4, <2>5, <2>6
<1> QED
  BY <1>5, <1>6


(* An event that is pushed is read: if it is no longer true it misleads,   *)
(* and if it is, c knows what there is to see.                             *)
LEMMA EventReaches ==
  ASSUME IInv, NextViews, NEW c \in Conns, NEW k \in Keys, Watches(c, k), Reaches(c, k),
         NEW h \in Conns, NEW n \in pending[h], n.to = c, n.event \in EndpointEvent,
         Pushed(c) = {n.event},
         UNCHANGED <<hello, endpoints>>,
         pending' = [pending EXCEPT ![h] = @ \ {n}]
  PROVE  Reaches(c, k)'
<1> DEFINE m == n.event
           o == hello[c].id
<1>1. /\ told'[c] = Read(told[c], {m})
      /\ overtaken'[c] = Misled(overtaken[c], {m}, o)
  BY DEF NextViews
<1>2. VisibleOf(c, k)' = VisibleOf(c, k)
  BY VisibleIs
<1>3. KnownOf(c, k) = About(told[c], k) /\ KnownOf(c, k)' = About(told'[c], k)
  BY DEF KnownOf, About
<1>4. \A x \in Coming(c, k) : x # m => x \in Coming(c, k)'
  <2> SUFFICES ASSUME NEW x \in Coming(c, k), x # m
               PROVE  x \in Coming(c, k)'
    OBVIOUS
  <2>0. PICK d \in Conns : \E y \in pending[d] : y.to = c /\ EventKey(y.event) = k /\ y.event = x
    BY DEF Coming
  <2>1. PICK y \in pending[d] : y.to = c /\ EventKey(y.event) = k /\ y.event = x
    BY <2>0
  <2>2. y \in pending'[d]
    BY <2>1 DEF IInv, TypeOK
  <2> QED
    BY <2>1, <2>2 DEF Coming
<1>5. \A x \in Coming(c, k) : EventKey(x) = k
  BY DEF Coming
<1>6. Read(told[c], {m}) = told'[c] /\ Misled(overtaken[c], {m}, o) = overtaken'[c]
  BY <1>1
<1>0. m \in EndpointEvent
  OBVIOUS
<1> HIDE DEF m, o
<1>11. /\ k # EventKey(m) /\ k \in overtaken[c] => k \in overtaken'[c]
       /\ k = EventKey(m) /\ ~True(m, o) => k \in overtaken'[c]
       /\ k = EventKey(m) /\ m.type = "endpoint_ended" /\ k \in overtaken[c] => k \in overtaken'[c]
  <2>1. /\ k # EventKey(m) /\ k \in overtaken[c] => k \in Misled(overtaken[c], {m}, o)
        /\ k = EventKey(m) /\ ~True(m, o) => k \in Misled(overtaken[c], {m}, o)
        /\ k = EventKey(m) /\ m.type = "endpoint_ended" /\ k \in overtaken[c]
             => k \in Misled(overtaken[c], {m}, o)
    BY ONLY <1>0, ReadEvent
  <2> QED
    BY <1>6, <2>1
<1>7. CASE k # EventKey(m)
  <2>1. k \in overtaken[c] => k \in overtaken'[c]
    BY <1>7, <1>11
  <2>2. About(Read(told[c], {m}), k) = About(told[c], k)
    BY ONLY <1>0, <1>7, ReadOther
  <2>3. KnownOf(c, k)' = KnownOf(c, k)
    BY <1>3, <1>6, <2>2
  <2>4. Coming(c, k) \subseteq Coming(c, k)'
    BY <1>4, <1>5, <1>7
  <2> QED
    BY <1>2, <2>1, <2>3, <2>4 DEF Reaches
<1>8. CASE k = EventKey(m) /\ ~True(m, o)
  <2>1. k \in overtaken'[c]
    BY <1>8, <1>11
  <2> QED
    BY <2>1 DEF Reaches
<1>9. CASE k = EventKey(m) /\ True(m, o) /\ m.type # "endpoint_ended"
  <2> DEFINE item == [key |-> k, runtime |-> m.runtime, meta |-> m.meta]
  <2>1. KnownOf(c, k)' = {item}
    BY <1>0, <1>3, <1>6, <1>9, ReadEvent
  <2>2. item \in Visible(o)
    BY <1>9 DEF True
  <2>3. item.key = k
    OBVIOUS
  <2> HIDE DEF item
  <2>4. item \in VisibleOf(c, k)
    BY <2>2, <2>3 DEF VisibleOf, o
  <2>5. VisibleOf(c, k) = {item}
    BY <2>4, VisibleIs DEF Sight
  <2> QED
    BY <1>2, <2>1, <2>5 DEF Reaches
<1>10. CASE k = EventKey(m) /\ True(m, o) /\ m.type = "endpoint_ended"
  <2>1. KnownOf(c, k)' = {d \in KnownOf(c, k) : d.runtime # m.runtime}
    BY <1>0, <1>3, <1>6, <1>10, ReadEvent
  <2>2. k \in overtaken[c] => k \in overtaken'[c]
    BY <1>10, <1>11
  <2>3. VisibleOf(c, k) = {}
    BY <1>10, VisibleIs DEF True, Sight, o
  <2>4. CASE k \in overtaken[c]
    BY <2>2, <2>4 DEF Reaches
  <2>5. CASE KnownOf(c, k) = VisibleOf(c, k)
    <3>1. KnownOf(c, k)' = VisibleOf(c, k)'
      BY <1>2, <2>1, <2>3, <2>5
    <3> QED
      BY <3>1 DEF Reaches
  <2>6. CASE \E x \in Coming(c, k) : x.type # "endpoint_ended"
    <3>1. PICK x \in Coming(c, k) : x.type # "endpoint_ended"
      BY <2>6
    <3>2. x \in Coming(c, k)'
      BY <1>4, <1>10, <3>1
    <3> QED
      BY <3>1, <3>2 DEF Reaches
  <2>7. CASE \E x \in Coming(c, k) : \A d \in KnownOf(c, k) : d.runtime = x.runtime
    <3>1. PICK x \in Coming(c, k) : \A d \in KnownOf(c, k) : d.runtime = x.runtime
      BY <2>7
    <3>2. CASE x = m
      <4>1. KnownOf(c, k)' = {}
        BY <2>1, <3>1, <3>2
      <4> QED
        BY <1>2, <2>3, <4>1 DEF Reaches
    <3>3. CASE x # m
      <4>1. x \in Coming(c, k)' /\ \A d \in KnownOf(c, k)' : d.runtime = x.runtime
        BY <1>4, <2>1, <3>1, <3>3
      <4> QED
        BY <1>2, <2>3, <4>1 DEF Reaches
    <3> QED
      BY <3>2, <3>3
  <2> QED
    BY <2>4, <2>5, <2>6, <2>7 DEF Reaches
<1> QED
  BY <1>7, <1>8, <1>9, <1>10

-----------------------------------------------------------------------------
(* The handlers.                                                           *)

(* What is known of the rest of the connections when one takes a step.     *)
ViewsFollow(c) ==
  /\ c \in Conns
  /\ \A k \in Keys : Watches(c, k)' => Reaches(c, k)'

LEMMA SendViews ==
  ASSUME IInv, ViewInv, NextViews, NEW h \in Conns, SendNotification(h), NEW c \in Conns
  PROVE  ViewsFollow(c)
<1>1. PICK n \in pending[h] :
        /\ pending' = [pending EXCEPT ![h] = @ \ {n}]
        /\ rx' = IF phase[n.to] = "active"
                 THEN [rx EXCEPT ![n.to] = Append(@, n.event)] ELSE rx
        /\ UNCHANGED <<handlerVars, registryVars>>
  BY DEF SendNotification
<1>2. n \in Notification
  BY DEF IInv, TypeOK
<1>3. n.to \in Conns /\ n.event \in EndpointEvent /\ n.event \in Message
  BY <1>2, MessageParts DEF Notification
<1>4. UNCHANGED <<hello, phase, subs, endpoints>>
  BY <1>1 DEF handlerVars, registryVars
<1>5. rx \in [Conns -> Seq(Message)] /\ TypeOK
  BY DEF IInv, TypeOK
<1> SUFFICES ASSUME NEW k \in Keys, Watches(c, k)'
             PROVE  Reaches(c, k)'
  BY DEF ViewsFollow
<1>6. Watches(c, k)
  BY <1>4 DEF Watches, IsOwner
<1>7. Reaches(c, k)
  BY <1>6 DEF ViewInv
<1>8. CASE n.to = c
  <2>1. phase[c] = "active"
    BY <1>6 DEF Watches
  <2>2. rx'[c] = Append(rx[c], n.event)
    BY <1>1, <1>5, <1>8, <2>1
  <2>3. Pushed(c) = {n.event}
    BY <1>3, <1>5, <2>2, OnePushed
  <2> QED
    BY <1>1, <1>3, <1>4, <1>6, <1>7, <1>8, <2>3, EventReaches
<1>9. CASE n.to # c
  <2>1. rx'[c] = rx[c]
    BY <1>1, <1>5, <1>9
  <2>2. Pushed(c) = {}
    BY <1>5, <2>1, NothingPushed
  <2>3. told'[c] = told[c] /\ overtaken'[c] = overtaken[c]
    BY <2>2, ToldNothing
  <2>4. VisibleOf(c, k)' = VisibleOf(c, k)
    BY <1>4, VisibleIs
  <2>5. Coming(c, k) \subseteq Coming(c, k)'
    <3> SUFFICES ASSUME NEW x \in Coming(c, k)
                 PROVE  x \in Coming(c, k)'
      OBVIOUS
    <3>0. PICK d \in Conns : \E y \in pending[d] : y.to = c /\ EventKey(y.event) = k /\ y.event = x
      BY DEF Coming
    <3>1. PICK y \in pending[d] : y.to = c /\ EventKey(y.event) = k /\ y.event = x
      BY <3>0
    <3>2. y \in pending'[d]
      BY <1>1, <1>9, <3>1 DEF IInv, TypeOK
    <3> QED
      BY <3>1, <3>2 DEF Coming
  <2> QED
    BY <1>7, <2>3, <2>4, <2>5, KnownKept
<1> QED
  BY <1>8, <1>9

(* A subscription is answered under the lock, so its snapshots are exact.  *)
LEMMA SubscribeViews ==
  ASSUME IInv, ViewInv, NextViews, NEW h \in Conns, NEW D \in SUBSET Devices,
         SubscribeEndpoints(h, D), NEW c \in Conns
  PROVE  ViewsFollow(c)
<1>1. UNCHANGED <<hello, phase, endpoints, pending>>
  BY DEF SubscribeEndpoints, ReceiveFrame
<1>2. subs' = [subs EXCEPT ![h] = D]
  BY DEF SubscribeEndpoints
<1>3. PICK order \in Orders(D) :
        rx' = [rx EXCEPT ![h] = @ \o [i \in DOMAIN order |-> EndpointsOf(hello[h].id, order[i])]]
  BY DEF SubscribeEndpoints
<1>4. TypeOK /\ rx \in [Conns -> Seq(Message)] /\ subs \in [Conns -> SUBSET Devices]
  BY DEF IInv, TypeOK
<1> SUFFICES ASSUME NEW k \in Keys, Watches(c, k)'
             PROVE  Reaches(c, k)'
  BY DEF ViewsFollow
<1>5. CASE c = h
  <2>1. k[1] \in D
    BY <1>2, <1>4, <1>5 DEF Watches
  <2>2. hello[c].id \in Owners
    <3>1. hello[c] # None /\ hello[c].role = "owner"
      BY <1>5 DEF SubscribeEndpoints, IsOwner
    <3>2. hello[c] \in Hello
      BY <1>4, <3>1 DEF TypeOK, Optional
    <3> QED
      BY <3>1, <3>2 DEF Hello, HostHello, OwnerHello
  <2>3. rx'[c] = rx[c] \o [i \in DOMAIN order |-> EndpointsOf(hello[c].id, order[i])]
    BY <1>3, <1>4, <1>5
  <2>4. Pushed(c) = {EndpointsOf(hello[c].id, d) : d \in D}
    BY <1>4, <2>2, <2>3, SnapshotsPushed
  <2>5. KnownOf(c, k)' = About(Read(told[c], Pushed(c)), k)
    BY DEF KnownOf, About, NextViews
  <2>6. KnownOf(c, k)' = VisibleOf(c, k)
    BY <2>1, <2>4, <2>5, ReadSnapshots
  <2>7. VisibleOf(c, k)' = VisibleOf(c, k)
    BY <1>1, VisibleIs
  <2> QED
    BY <2>6, <2>7 DEF Reaches
<1>6. CASE c # h
  <2>1. subs'[c] = subs[c] /\ rx'[c] = rx[c]
    BY <1>2, <1>3, <1>4, <1>6
  <2>2. Watches(c, k)
    BY <1>1, <2>1 DEF Watches, IsOwner
  <2>3. Reaches(c, k)
    BY <2>2 DEF ViewInv
  <2>4. Pushed(c) = {}
    BY <1>4, <2>1, NothingPushed
  <2> QED
    BY <1>1, <2>3, <2>4, CalmReaches
<1> QED
  BY <1>5, <1>6


(* A handshake, a registration included.                                   *)
LEMMA HandshakeViews ==
  ASSUME IInv, ViewInv, NextViews, NEW h \in Conns, Handshake(h), NEW c \in Conns
  PROVE  ViewsFollow(c)
<1>1. rx' = rx /\ subs' = subs
  BY DEF Handshake, ReceiveHello, AbandonHandshake, RejectAuth, RegisterHost, RegisterOwner,
         Authenticated, registryVars
<1>2. TypeOK /\ phase \in [Conns -> {"hello", "auth", "active", "closing", "closed"}]
      /\ hello \in [Conns -> Optional(Hello)]
  BY DEF IInv, TypeOK
<1>3. \A d \in Conns : Pushed(d) = {}
  BY <1>1, <1>2, NothingPushed
<1>4. /\ phase[h] \in {"hello", "auth"}
      /\ c # h => phase'[c] = phase[c] /\ hello'[c] = hello[c]
  BY <1>2 DEF Handshake, ReceiveHello, AbandonHandshake, RejectAuth, RegisterHost, RegisterOwner,
              Authenticated
<1> SUFFICES ASSUME NEW k \in Keys, Watches(c, k)'
             PROVE  Reaches(c, k)'
  BY DEF ViewsFollow
<1>5. c # h
  <2> SUFFICES ASSUME c = h
               PROVE  FALSE
    OBVIOUS
  <2>1. subs'[h] = {}
    BY <1>1, <1>4 DEF ViewInv
  <2> QED
    BY <2>1 DEF Watches
<1>6. Watches(c, k) /\ Reaches(c, k)
  BY <1>1, <1>4, <1>5 DEF Watches, IsOwner, ViewInv
<1>7. CASE UNCHANGED <<endpoints, pending>>
  BY <1>3, <1>4, <1>5, <1>6, <1>7, CalmReaches
<1>8. ASSUME NEW key \in Identities, RegisterHost(h, key)
      PROVE  Reaches(c, k)'
  <2> DEFINE host == [conn |-> h, runtime |-> hello[h].runtime, meta |-> hello[h].meta,
                      acl |-> hello[h].acl]
  <2>1. /\ endpoints' = [endpoints EXCEPT ![KeyOf(hello[h])] = host]
        /\ pending' = [pending EXCEPT
                         ![h] = VisibilityDelta(KeyOf(hello[h]), endpoints[KeyOf(hello[h])], host)]
        /\ hello[h].role = "host" /\ phase[h] = "auth"
    BY <1>8 DEF RegisterHost, Authenticated
  <2>2. hello[h] \in Hello
    BY <1>2, <2>1 DEF IInv, HandshakeStages, Optional
  <2>3. KeyOf(hello[h]) \in Keys
    BY <2>1, <2>2 DEF Hello, HostHello, OwnerHello, KeyOf, Keys
  <2>4. pending[h] = {}
    BY <1>4 DEF ViewInv
  <2> HIDE DEF host
  <2> QED
    BY <1>3, <1>4, <1>5, <1>6, <2>1, <2>3, <2>4, ChangeReaches
<1>9. UNCHANGED <<endpoints, pending>> \/ \E key \in Identities : RegisterHost(h, key)
  BY DEF Handshake, ReceiveHello, AbandonHandshake, RejectAuth, RegisterOwner, registryVars
<1> QED
  BY <1>7, <1>8, <1>9

LEMMA UpdateViews ==
  ASSUME IInv, ViewInv, NextViews, NEW h \in Conns, NEW update \in EndpointUpdate,
         UpdateHost(h, update), NEW c \in Conns
  PROVE  ViewsFollow(c)
<1> DEFINE key == KeyOf(hello[h])
<1>1. /\ UNCHANGED <<phase, hello, subs, rx>>
      /\ hello[h] # None /\ hello[h].role = "host" /\ pending[h] = {}
      /\ endpoints' = [endpoints EXCEPT ![key] = Amended(endpoints[key], update)]
      /\ pending' = [pending EXCEPT
                       ![h] = VisibilityDelta(key, endpoints[key], Amended(endpoints[key], update))]
  BY DEF UpdateHost, ReceiveFrame, Idle, IsHost
<1>2. TypeOK /\ hello[h] \in Hello
  BY <1>1 DEF IInv, TypeOK, Optional
<1>3. key \in Keys
  BY <1>1, <1>2 DEF Hello, HostHello, OwnerHello, KeyOf, Keys
<1>4. Pushed(c) = {}
  BY <1>1, <1>2, NothingPushed
<1> SUFFICES ASSUME NEW k \in Keys, Watches(c, k)'
             PROVE  Reaches(c, k)'
  BY DEF ViewsFollow
<1>5. Watches(c, k) /\ Reaches(c, k)
  BY <1>1 DEF Watches, IsOwner, ViewInv
<1> HIDE DEF key
<1> QED
  BY <1>1, <1>3, <1>4, <1>5, ChangeReaches

(* The routes, the frames that are dropped, the writes and the end of a    *)
(* handler leave the registry alone.                                       *)
LEMMA CalmViews ==
  ASSUME IInv, ViewInv, NextViews, NEW c \in Conns,
         \A m \in Pushed(c) : m.type = "route",
         UNCHANGED <<hello, subs, endpoints, pending>>, phase'[c] = "active" => phase[c] = "active"
  PROVE  ViewsFollow(c)
<1> SUFFICES ASSUME NEW k \in Keys, Watches(c, k)'
             PROVE  Reaches(c, k)'
  BY DEF ViewsFollow
<1>1. Watches(c, k) /\ Reaches(c, k)
  BY DEF Watches, IsOwner, ViewInv
<1> QED
  BY <1>1, CalmReaches

LEMMA RouteFromOwnerViews ==
  ASSUME IInv, ViewInv, NextViews, NEW h \in Conns, NEW route \in RoutesBy(h),
         RouteFromOwner(h, route), NEW c \in Conns
  PROVE  ViewsFollow(c)
<1> DEFINE receiver == endpoints[<<route.device, route.endpoint>>].conn
           copy == [route EXCEPT !.source = hello[h].id]
<1>1. /\ UNCHANGED <<phase, hello, subs, endpoints, pending>>
      /\ rx' = [rx EXCEPT ![receiver] = Append(@, copy)]
  BY DEF RouteFromOwner, ReceiveFrame, registryVars
<1>2. TypeOK /\ rx \in [Conns -> Seq(Message)]
  BY DEF IInv, TypeOK
<1>3. copy \in RouteFrame
  <2>1. hello[h] # None /\ hello[h].role = "owner"
    BY DEF RouteFromOwner, IsOwner
  <2>2. hello[h] \in Hello
    BY <1>2, <2>1 DEF TypeOK, Optional
  <2>3. hello[h].id \in Optional(Owners)
    BY <2>1, <2>2 DEF Hello, HostHello, OwnerHello, Optional
  <2> QED
    BY <2>3 DEF RoutesBy, RouteFrame
<1>4. copy \in Message /\ copy.type = "route"
  BY <1>3, MessageParts DEF RouteFrame
<1> HIDE DEF copy, receiver
<1>5. \A m \in Pushed(c) : m.type = "route"
  <2>1. CASE rx'[c] = rx[c]
    BY <1>2, <2>1, NothingPushed
  <2>2. CASE rx'[c] = Append(rx[c], copy)
    BY <1>2, <1>4, <2>2, OnePushed
  <2> QED
    BY <1>1, <1>2, <2>1, <2>2
<1> QED
  BY <1>1, <1>5, CalmViews

LEMMA RouteFromHostViews ==
  ASSUME IInv, ViewInv, NextViews, NEW h \in Conns, NEW route \in RoutesBy(h),
         RouteFromHost(h, route), NEW c \in Conns
  PROVE  ViewsFollow(c)
<1>1. /\ UNCHANGED <<phase, hello, subs, endpoints, pending>>
      /\ rx'[c] \in {rx[c], Append(rx[c], route)}
  BY DEF RouteFromHost, ReceiveFrame, registryVars
<1>2. TypeOK
  BY DEF IInv
<1>3. route \in Message /\ route.type = "route"
  BY MessageParts DEF RoutesBy, RouteFrame
<1>4. \A m \in Pushed(c) : m.type = "route"
  <2>1. CASE rx'[c] = rx[c]
    BY <1>2, <2>1, NothingPushed
  <2>2. CASE rx'[c] = Append(rx[c], route)
    BY <1>2, <1>3, <2>2, OnePushed
  <2> QED
    BY <1>1, <2>1, <2>2
<1> QED
  BY <1>1, <1>4, CalmViews


(* A host that leaves takes its entry away; an owner that leaves is no     *)
(* longer told.                                                            *)
LEMMA UnregisterViews ==
  ASSUME IInv, ViewInv, NextViews, NEW h \in Conns, Unregister(h), NEW c \in Conns
  PROVE  ViewsFollow(c)
<1>1. /\ hello' = hello /\ phase' = [phase EXCEPT ![h] = "closing"]
      /\ rx' = [rx EXCEPT ![h] = <<>>] /\ pending[h] = {}
  BY DEF Unregister, Idle
<1>2. /\ TypeOK
      /\ rx \in [Conns -> Seq(Message)] /\ subs \in [Conns -> SUBSET Devices]
      /\ phase \in [Conns -> {"hello", "auth", "active", "closing", "closed"}]
  BY DEF IInv, TypeOK
<1>3. Pushed(c) = {}
  BY <1>1, <1>2, NothingPushed
<1> SUFFICES ASSUME NEW k \in Keys, Watches(c, k)'
             PROVE  Reaches(c, k)'
  BY DEF ViewsFollow
<1>4. c # h
  BY <1>1, <1>2 DEF Watches
<1>5. subs'[c] = subs[c]
  BY <1>2, <1>4 DEF Unregister
<1>6. Watches(c, k) /\ Reaches(c, k)
  BY <1>1, <1>2, <1>4, <1>5 DEF Watches, IsOwner, ViewInv
<1>7. CASE UNCHANGED <<endpoints, pending>>
  BY <1>1, <1>3, <1>6, <1>7, CalmReaches
<1>8. CASE IsHost(h) /\ Holds(KeyOf(hello[h]), h)
  <2> DEFINE key == KeyOf(hello[h])
  <2>1. /\ endpoints' = [endpoints EXCEPT ![key] = None]
        /\ pending' = [pending EXCEPT ![h] = VisibilityDelta(key, endpoints[key], None)]
    BY <1>8 DEF Unregister
  <2>2. hello[h] \in Hello /\ hello[h].role = "host"
    BY <1>2, <1>8 DEF IsHost, TypeOK, Optional
  <2>3. key \in Keys
    BY <2>2 DEF Hello, HostHello, OwnerHello, KeyOf, Keys
  <2> HIDE DEF key
  <2> QED
    BY <1>1, <1>3, <1>6, <2>1, <2>3, ChangeReaches
<1>9. (IsHost(h) /\ Holds(KeyOf(hello[h]), h)) \/ UNCHANGED <<endpoints, pending>>
  BY DEF Unregister
<1> QED
  BY <1>7, <1>8, <1>9

LEMMA NextKeepsViews ==
  ASSUME IInv, ViewInv, NextViews, NEW c \in Conns
  PROVE  ViewsFollow(c)
<1>1. PICK h \in Conns :
        Handshake(h) \/ HandleFrame(h) \/ SendNotification(h) \/ WriteMessage(h)
          \/ Disconnect(h) \/ EvictReplaced(h) \/ Close(h)
  BY DEF NextViews, Next
<1>2. /\ TypeOK /\ rx \in [Conns -> Seq(Message)]
      /\ phase \in [Conns -> {"hello", "auth", "active", "closing", "closed"}]
  BY DEF IInv, TypeOK
<1>3. CASE HandleFrame(h)
  <2>1. CASE DropFrame(h)
    <3>1. UNCHANGED <<hello, subs, endpoints, pending, phase, rx>>
      BY <2>1 DEF DropFrame, ReceiveFrame, registryVars
    <3>2. Pushed(c) = {}
      BY <1>2, <3>1, NothingPushed
    <3> QED
      BY <3>1, <3>2, CalmViews
  <2> QED
    BY <1>3, <2>1, SubscribeViews, UpdateViews, RouteFromOwnerViews, RouteFromHostViews
       DEF HandleFrame
<1>4. CASE WriteMessage(h)
  <2>1. /\ UNCHANGED <<hello, subs, endpoints, pending, phase>>
        /\ rx[h] # <<>> /\ rx' = [rx EXCEPT ![h] = Tail(@)]
    BY <1>4 DEF WriteMessage, handlerVars, registryVars
  <2>2. Pushed(c) = {}
    BY <1>2, <2>1, NothingPushed
  <2> QED
    BY <2>1, <2>2, CalmViews
<1>5. CASE Close(h)
  <2>1. UNCHANGED <<hello, subs, endpoints, pending, rx>> /\ phase' = [phase EXCEPT ![h] = "closed"]
    BY <1>5 DEF Close, registryVars
  <2>2. Pushed(c) = {} /\ (phase'[c] = "active" => phase[c] = "active")
    BY <1>2, <2>1, NothingPushed
  <2> QED
    BY <2>1, <2>2, CalmViews
<1>6. CASE Disconnect(h) \/ EvictReplaced(h)
  BY <1>6, UnregisterViews DEF Disconnect, EvictReplaced
<1> QED
  BY <1>1, <1>3, <1>4, <1>5, <1>6, HandshakeViews, SendViews

(* Before it is registered a handler has nothing to push.                  *)
LEMMA UnregisteredStep ==
  ASSUME IInv, ViewInv, Next, NEW c \in Conns, phase'[c] \in {"hello", "auth"}
  PROVE  pending'[c] = {} /\ subs'[c] = {}
<1>1. /\ phase \in [Conns -> {"hello", "auth", "active", "closing", "closed"}]
      /\ pending \in [Conns -> SUBSET Notification] /\ subs \in [Conns -> SUBSET Devices]
  BY DEF IInv, TypeOK
<1>2. PICK h \in Conns :
        Handshake(h) \/ HandleFrame(h) \/ SendNotification(h) \/ WriteMessage(h)
          \/ Disconnect(h) \/ EvictReplaced(h) \/ Close(h)
  BY DEF Next
<1> DEFINE Kept == phase[c] \in {"hello", "auth"} /\ pending'[c] = pending[c] /\ subs'[c] = subs[c]
<1> SUFFICES Kept
  BY DEF ViewInv
<1>3. CASE Handshake(h)
  <2>1. subs' = subs /\ phase[c] \in {"hello", "auth"}
    BY <1>1, <1>3 DEF Handshake, ReceiveHello, AbandonHandshake, RejectAuth, RegisterHost,
                      RegisterOwner, Authenticated, registryVars
  <2>2. pending'[c] = pending[c]
    BY <1>1, <1>3 DEF Handshake, ReceiveHello, AbandonHandshake, RejectAuth, RegisterHost,
                      RegisterOwner, Authenticated
  <2> QED
    BY <2>1, <2>2
<1>4. CASE HandleFrame(h)
  <2>1. phase' = phase /\ phase[h] = "active"
    BY <1>4 DEF HandleFrame, SubscribeEndpoints, UpdateHost, RouteFromOwner, RouteFromHost,
                DropFrame, ReceiveFrame, Idle
  <2>2. c # h
    BY <2>1
  <2> QED
    BY <1>1, <1>4, <2>1, <2>2 DEF HandleFrame, SubscribeEndpoints, UpdateHost, RouteFromOwner,
                                  RouteFromHost, DropFrame, registryVars
<1>5. CASE SendNotification(h)
  <2>1. phase' = phase /\ subs' = subs /\ pending[h] # {} /\ (c # h => pending'[c] = pending[c])
    BY <1>1, <1>5 DEF SendNotification, handlerVars, registryVars
  <2>2. c # h
    BY <2>1 DEF ViewInv
  <2> QED
    BY <2>1, <2>2
<1>6. CASE WriteMessage(h)
  BY <1>6 DEF WriteMessage, handlerVars, registryVars
<1>7. CASE Disconnect(h) \/ EvictReplaced(h)
  <2>1. Unregister(h) /\ phase' = [phase EXCEPT ![h] = "closing"]
    BY <1>7 DEF Disconnect, EvictReplaced, Unregister
  <2>2. c # h
    BY <1>1, <2>1
  <2> QED
    BY <1>1, <2>1, <2>2 DEF Unregister
<1>8. CASE Close(h)
  BY <1>1, <1>8 DEF Close, registryVars
<1> QED
  BY <1>2, <1>3, <1>4, <1>5, <1>6, <1>7, <1>8

LEMMA ViewInvInit == InitViews => ViewInv
<1> SUFFICES ASSUME InitViews
             PROVE  ViewInv
  OBVIOUS
<1>1. \A c \in Conns : phase[c] = "hello" /\ pending[c] = {} /\ subs[c] = {}
  BY DEF InitViews, Init
<1> QED
  BY <1>1 DEF ViewInv, Watches

LEMMA ViewInvStep == IInv /\ ViewInv /\ [NextViews]_viewVars => ViewInv'
<1> SUFFICES ASSUME IInv, ViewInv, [NextViews]_viewVars
             PROVE  ViewInv'
  OBVIOUS
<1>1. CASE NextViews
  <2>1. \A c \in Conns : phase'[c] \in {"hello", "auth"} => pending'[c] = {} /\ subs'[c] = {}
    BY <1>1, UnregisteredStep DEF NextViews
  <2>2. \A c \in Conns, k \in Keys : Watches(c, k)' => Reaches(c, k)'
    BY <1>1, NextKeepsViews DEF ViewsFollow
  <2> QED
    BY <2>1, <2>2 DEF ViewInv
<1>2. CASE UNCHANGED viewVars
  <2>1. /\ \A c \in Conns : phase'[c] = phase[c] /\ pending'[c] = pending[c] /\ subs'[c] = subs[c]
        /\ \A c \in Conns, k \in Keys : /\ Watches(c, k)' <=> Watches(c, k)
                                        /\ Reaches(c, k)' <=> Reaches(c, k)
    BY <1>2 DEF viewVars, vars, handlerVars, registryVars, Watches, IsOwner, Reaches, KnownOf,
                VisibleOf, Visible, Coming
  <2> QED
    BY <2>1 DEF ViewInv
<1> QED
  BY <1>1, <1>2

(* Every change of what a subscribed owner may see reaches it: once no     *)
(* event is on its way to a browser, its view of a key is exact or was     *)
(* misled by an event a later change had overtaken.                        *)
THEOREM ViewsExact == SpecViews => []ViewsExactUnlessOvertaken
<1>1. InitViews => IInv /\ ViewInv
  BY IInvInit, ViewInvInit DEF InitViews
<1>2. [NextViews]_viewVars => [Next]_vars
  BY DEF NextViews, viewVars
<1>3. (IInv /\ ViewInv) /\ [NextViews]_viewVars => (IInv /\ ViewInv)'
  BY <1>2, IInvStep, ViewInvStep
<1>4. IInv /\ ViewInv => ViewsExactUnlessOvertaken
  <2> SUFFICES ASSUME ViewInv, NEW c \in Conns, Settled(c), NEW k \in Keys, k[1] \in subs[c]
               PROVE  KnownOf(c, k) = VisibleOf(c, k) \/ k \in overtaken[c]
    BY DEF ViewsExactUnlessOvertaken
  <2>1. Watches(c, k)
    BY DEF Settled, Watches
  <2>2. Reaches(c, k)
    BY <2>1 DEF ViewInv
  <2>3. Coming(c, k) = {}
    BY DEF Settled, Coming
  <2> QED
    BY <2>2, <2>3 DEF Reaches
<1> QED
  BY <1>1, <1>3, <1>4, PTL DEF SpecViews

=============================================================================
