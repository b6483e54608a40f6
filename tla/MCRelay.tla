------------------------------ MODULE MCRelay ------------------------------
(* An instance of RelayViews for TLC: a host, a browser that watches it,   *)
(* and a third connection that is either a host process of the same        *)
(* endpoint (the same runtime reconnecting, or a new one taking over or    *)
(* being taken over) or a second browser (of the same owner or another).   *)
EXTENDS RelayViews, TLC

CONSTANTS c1, c2, c3, dev, ep, rA, rB, ownA, ownB, m1, m2

HostHelloOf(r, m, acls) ==
  [role : {"host"}, id : {dev}, endpoint : {ep}, runtime : {r},
   meta : {m}, acl : acls]
OwnerHelloOf(o) == [role |-> "owner", id |-> o]

MCHelloOf ==
  c1 :> HostHelloOf(rA, m1, {{}, Owners}) @@
  c2 :> (HostHelloOf(rA, m2, {Owners}) \cup HostHelloOf(rB, m1, {{ownA}})
         \cup {OwnerHelloOf(o) : o \in Owners}) @@
  c3 :> {OwnerHelloOf(ownA)}

MCMaxFrames == c1 :> 1 @@ c2 :> 0 @@ c3 :> 2
=============================================================================
