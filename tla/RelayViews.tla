----------------------------- MODULE RelayViews -----------------------------
(***************************************************************************)
(* What an owner's browser is told about endpoints, and when it is wrong.  *)
(*                                                                         *)
(* Two history variables are added to RelayRegistry.  told is the set of   *)
(* endpoints described by the control frames pushed to a connection so     *)
(* far, read in order: a snapshot replaces what was known of its device,   *)
(* endpoint_announced and endpoint_updated replace what was known of their *)
(* endpoint, endpoint_ended removes the runtime it names.  overtaken is    *)
(* the set of keys whose last control frame was no longer true when it was *)
(* pushed; an endpoint_ended does not cure that, since it removes only the *)
(* runtime it names.                                                       *)
(***************************************************************************)
EXTENDS RelayRegistry

VARIABLES told, overtaken

viewVars == <<vars, told, overtaken>>

Described == [key : Keys, runtime : Runtimes, meta : Metas]

(* What the registry lets an owner see at this moment.                     *)
Visible(o) ==
  {[key |-> k, runtime |-> endpoints[k].runtime, meta |-> endpoints[k].meta]
     : k \in {j \in Keys : Sees(endpoints[j], o)}}

EventKey(m) == <<m.device, m.endpoint>>

True(m, o) ==
  IF m.type = "endpoint_ended"
  THEN ~Sees(endpoints[EventKey(m)], o)
  ELSE [key |-> EventKey(m), runtime |-> m.runtime, meta |-> m.meta]
         \in Visible(o)

InitViews ==
  /\ Init
  /\ told = [c \in Conns |-> {}]
  /\ overtaken = [c \in Conns |-> {}]

(* The messages a step pushed to c: one notification, or the snapshots of  *)
(* a subscription, one for each device, which the mutex makes true.        *)
Pushed(c) == {rx'[c][i] : i \in (Len(rx[c]) + 1)..Len(rx'[c])}

Snapshots(new) == {m \in new : m.type = "endpoints"}
Events(new) == {m \in new : m.type \notin {"route", "endpoints"}}
Descriptions(new) == {m \in Events(new) : m.type # "endpoint_ended"}

(* What the messages leave of what was known, and what they describe.      *)
Read(known, new) ==
  {d \in known :
     /\ \A m \in Snapshots(new) : d.key[1] # m.device
     /\ \A m \in Events(new) :
          d.key = EventKey(m) => m.type = "endpoint_ended" /\ d.runtime # m.runtime}
  \cup (UNION {{[key |-> <<m.device, i.endpoint>>, runtime |-> i.runtime, meta |-> i.meta]
                  : i \in m.endpoints} : m \in Snapshots(new)})
  \cup {[key |-> EventKey(m), runtime |-> m.runtime, meta |-> m.meta] : m \in Descriptions(new)}

Misled(keys, new, o) ==
  {k \in keys : /\ \A m \in Snapshots(new) : k[1] # m.device
                /\ \A m \in Descriptions(new) : EventKey(m) # k}
  \cup {EventKey(m) : m \in {e \in Events(new) : ~True(e, o)}}

NextViews ==
  /\ Next
  /\ told' = [c \in Conns |-> Read(told[c], Pushed(c))]
  /\ overtaken' = [c \in Conns |-> Misled(overtaken[c], Pushed(c), hello[c].id)]

SpecViews == InitViews /\ [][NextViews]_viewVars /\ Fairness

-----------------------------------------------------------------------------
(* No event for the connection is still to be pushed.                      *)
Settled(c) ==
  /\ phase[c] = "active" /\ IsOwner(c)
  /\ \A d \in Conns : \A n \in pending[d] : n.to # c

KnownOf(c, k) == {d \in told[c] : d.key = k}
VisibleOf(c, k) == {d \in Visible(hello[c].id) : d.key = k}

(* Every change of what a subscribed owner may see reaches it: once no     *)
(* event is on its way, its view of a key is exact, unless an event it was *)
(* sent had been overtaken by a later change before it was pushed and no   *)
(* true description has followed.                                          *)
(* Takeovers, ACL changes, metadata changes, departures and the snapshot   *)
(* of a late subscription all leave the view complete.                     *)
ViewsExactUnlessOvertaken ==
  \A c \in Conns : Settled(c) =>
    \A k \in Keys : k[1] \in subs[c] =>
      KnownOf(c, k) = VisibleOf(c, k) \/ k \in overtaken[c]
=============================================================================
