------------------------------ MODULE MCSession ------------------------------
(* Bounds of the runs of PwaSession.                                       *)
EXTENDS PwaSession

Only(f) == [k \in Kinds |-> IF k \in DOMAIN f THEN f[k] ELSE 0]

(* A message that is lost, repeated or refused; one that steers; a message *)
(* or a move while the PWA reads history or joins anew; partials.          *)
MCBounds ==
  {Only([send |-> 1, loss |-> 1, retry |-> 1, message |-> 1, expire |-> 1]),
   Only([send |-> 1, fault |-> 1, retry |-> 1, message |-> 2, switch |-> 1]),
   Only([send |-> 1, prompt |-> 1, message |-> 2]),
   Only([send |-> 2, loss |-> 1, retry |-> 1]),
   Only([older |-> 2, prompt |-> 1, message |-> 1, tree |-> 1, cut |-> 1]),
   Only([older |-> 1, prompt |-> 1, message |-> 1, entry |-> 1]),
   Only([recover |-> 1, prompt |-> 1, message |-> 1, tree |-> 1]),
   Only([recover |-> 1, prompt |-> 1, message |-> 1, switch |-> 1, cut |-> 1]),
   Only([loss |-> 1, prompt |-> 1, message |-> 2, partial |-> 1]),
   Only([loss |-> 1, prompt |-> 1, message |-> 1, cut |-> 2]),
   Only([prompt |-> 1, message |-> 2, partial |-> 2, abort |-> 1])}

Marker(id, role, group) == [type |-> "marker", id |-> id, role |-> role, group |-> group]
Written(id, role) == [type |-> "message", id |-> id, role |-> role, group |-> 0]

(* A message from before the markers, and two runs.                        *)
MCBranch == <<Written(1, "user"), Marker(2, "user", 2), Written(2, "user"),
              [type |-> "compaction", id |-> 4, role |-> None, group |-> 0],
              Marker(5, "assistant", 5), Written(5, "assistant")>>

=============================================================================
