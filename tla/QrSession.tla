----------------------------- MODULE QrSession ------------------------------
(***************************************************************************)
(* The active pairing token: QRSession in pi-extension/src/pairing/qr.ts.  *)
(*                                                                         *)
(* The session is a record, None when no token was issued, and each method *)
(* a function on it.  A reservation object is a number: reserving makes a  *)
(* new object unless the same request still holds one.                     *)
(***************************************************************************)
EXTENDS Naturals

CONSTANTS Owners, Requests, None

Tokens == Nat \ {0}

Holder ==
  [owner : Owners, req : Requests, reservation : Nat,
   status : {"reserved", "released", "committed"}]

ActiveToken == [token : Tokens, expired : BOOLEAN, holder : Holder \cup {None}]

Issued(token) == [token |-> token, expired |-> FALSE, holder |-> None]

(* Slip: a token nobody holds at the moment is free for anybody.           *)
AnswerToAnybody(qr, token, o, q) ==
  IF qr = None THEN "unknown"
  ELSE IF qr.token # token THEN "unknown"
  ELSE IF qr.holder # None /\ qr.holder.status # "released"
            /\ <<qr.holder.owner, qr.holder.req>> # <<o, q>> THEN "consumed"
  ELSE IF qr.holder # None /\ qr.holder.status = "committed" THEN "committed"
  ELSE IF qr.expired THEN "expired"
  ELSE "reserved"

(* What reserveToken answers: a token in use belongs to one owner and one  *)
(* request, released or not; only a committed one outlives its TTL.        *)
Answer(qr, token, o, q) ==
  IF qr = None THEN "unknown"
  ELSE IF qr.token # token THEN "unknown"
  ELSE IF qr.holder # None /\ <<qr.holder.owner, qr.holder.req>> # <<o, q>>
       THEN "consumed"
  ELSE IF qr.holder # None /\ qr.holder.status = "committed" THEN "committed"
  ELSE IF qr.expired THEN "expired"
  ELSE "reserved"

(* The session after reserveToken has answered "reserved"; fresh is the    *)
(* number a new reservation object would get.                              *)
Reserved(qr, o, q, fresh) ==
  IF qr.holder # None /\ qr.holder.status = "reserved" THEN qr
  ELSE [qr EXCEPT !.holder = [owner |-> o, req |-> q, reservation |-> fresh,
                              status |-> "reserved"]]

(* Whether this reservation is the one that holds the token.               *)
Holds(qr, reservation) ==
  /\ qr # None /\ qr.holder # None
  /\ qr.holder.reservation = reservation /\ qr.holder.status = "reserved"

IsReservationCurrent(qr, reservation) == Holds(qr, reservation) /\ ~qr.expired

Committed(qr) == [qr EXCEPT !.holder.status = "committed"]

Released(qr, reservation) ==
  IF Holds(qr, reservation) THEN [qr EXCEPT !.holder.status = "released"] ELSE qr
=============================================================================
