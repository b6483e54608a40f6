--------------------------- MODULE RouteAuthority ---------------------------
(***************************************************************************)
(* What the relay promises about routes (docs/reference/protocol/README.md *)
(* section 3): every endpoint has at most one connection that speaks and   *)
(* is spoken to in its name, the last one to claim it; session traffic     *)
(* passes only between that connection and owners it grants; what it sends *)
(* an owner reaches every seat of that owner and nobody else; a connection *)
(* that leaves gives up what it still holds and nothing else.              *)
(*                                                                         *)
(* There are no handlers, handshakes, events or subscriptions here:        *)
(* RelayRegistry implements this specification.                            *)
(***************************************************************************)
EXTENDS Naturals, Sequences

CONSTANTS
  Conns, Keys, Owners, Purposes, None,
  Bursts   (* how many notices may be put into a mailbox at once           *)

VARIABLES
  holder,  (* the connection with authority over a key                     *)
  grants,  (* the owners that connection admits to sessions                *)
  seats,   (* the connections of each owner                                *)
  gone,    (* connections that have left                                   *)
  mail     (* what is on its way to a connection, in order                 *)

vars == <<holder, grants, seats, gone, mail>>

(* A notice, which carries no authority, is None.                          *)
Mail == [purpose : Purposes, key : Keys, owner : Owners]

Init ==
  /\ holder = [k \in Keys |-> None]
  /\ grants = [k \in Keys |-> {}]
  /\ seats = [o \in Owners |-> {}]
  /\ gone = {}
  /\ mail = [c \in Conns |-> <<>>]

Claim(c, k, G) ==
  /\ c \notin gone
  /\ holder' = [holder EXCEPT ![k] = c]
  /\ grants' = [grants EXCEPT ![k] = G]
  /\ UNCHANGED <<seats, gone, mail>>

Regrant(k, G) ==
  /\ holder[k] # None
  /\ grants' = [grants EXCEPT ![k] = G]
  /\ UNCHANGED <<holder, seats, gone, mail>>

TakeSeat(c, o) ==
  /\ c \notin gone
  /\ seats' = [seats EXCEPT ![o] = @ \cup {c}]
  /\ UNCHANGED <<holder, grants, gone, mail>>

Leave(c) ==
  /\ gone' = gone \cup {c}
  /\ holder' = [k \in Keys |-> IF holder[k] = c THEN None ELSE holder[k]]
  /\ grants' = [k \in Keys |-> IF holder[k] = c THEN {} ELSE grants[k]]
  /\ seats' = [o \in Owners |-> seats[o] \ {c}]
  /\ mail' = [mail EXCEPT ![c] = <<>>]

Passes(m) ==
  /\ holder[m.key] # None
  /\ m.purpose = "session" => m.owner \in grants[m.key]

(* An owner's seat writes to the holder, and the holder to all the seats.  *)
ToHolder(m) ==
  /\ Passes(m) /\ seats[m.owner] # {}
  /\ mail' = [mail EXCEPT ![holder[m.key]] = Append(@, m)]
  /\ UNCHANGED <<holder, grants, seats, gone>>

ToOwner(m) ==
  /\ Passes(m) /\ seats[m.owner] # {}
  /\ mail' = [c \in Conns |-> IF c \in seats[m.owner] THEN Append(mail[c], m) ELSE mail[c]]
  /\ UNCHANGED <<holder, grants, seats, gone>>

Notify(c, n) ==
  /\ c \notin gone
  /\ mail' = [mail EXCEPT ![c] = @ \o [i \in 1..n |-> None]]
  /\ UNCHANGED <<holder, grants, seats, gone>>

Collect(c) ==
  /\ mail[c] # <<>>
  /\ mail' = [mail EXCEPT ![c] = Tail(@)]
  /\ UNCHANGED <<holder, grants, seats, gone>>

Next ==
  \/ \E c \in Conns, k \in Keys, G \in SUBSET Owners : Claim(c, k, G)
  \/ \E k \in Keys, G \in SUBSET Owners : Regrant(k, G)
  \/ \E c \in Conns, o \in Owners : TakeSeat(c, o)
  \/ \E c \in Conns, n \in Bursts : Notify(c, n)
  \/ \E c \in Conns : Leave(c) \/ Collect(c)
  \/ \E m \in Mail : ToHolder(m) \/ ToOwner(m)

Spec == Init /\ [][Next]_vars
=============================================================================
