----------------------------- MODULE CronProofs -----------------------------
(***************************************************************************)
(* Proofs about Supervisor, for every retry budget, number of              *)
(* confirmations and bound; then about CronScheduler, for every set of     *)
(* jobs, stored content of cron.json and bound besides.  The second rest on*)
(* the invariant of the first: every step of the scheduler is one of the   *)
(* supervisor's, or leaves it alone.                                       *)
(***************************************************************************)
EXTENDS CronScheduler, SequenceTheorems, WellFoundedInduction, TLAPS

-----------------------------------------------------------------------------
(* The inductive invariant.                                                *)

(* The running operation, in the words of the proofs.                      *)
At(pc) == 1 \in DOMAIN queue /\ queue[1].pc = pc
Given(kinds) == 1 \in DOMAIN queue /\ queue[1].kind \in kinds /\ queue[1].pc # "ready"
Leaving == Given({"restart", "unregister", "reconcile"})
Asked(i, kind) == queue[i].kind = kind /\ slot # None /\ queue[i].slot = slot.no
Queued(kind) == \E i \in DOMAIN queue : Asked(i, kind)

(* The system refused the spawn: no exit will ever clear this child.       *)
Broken == handle.child # 0 /\ procs[handle.child].status = "failed"

(* The handle's child is the last process of the last slot, in the status  *)
(* the handle says, and no other process is alive.                         *)
ChildInv ==
  /\ handle.child # 0 =>
       /\ handle.child \in DOMAIN procs /\ procs[handle.child].slot = slots
       /\ procs[handle.child].status = "launching" =>
            handle.process = "spawning" /\ handle.runtime = "pending"
       /\ procs[handle.child].status = "up" => handle.process = "running"
       /\ procs[handle.child].status = "failed" =>
            handle.process = "exited" /\ handle.runtime = "failed"
       /\ procs[handle.child].status # "gone"
  /\ handle.child = 0 => handle.process \in {"absent", "exited"}
  /\ \A r \in Live : handle.child = r

SlotInv ==
  /\ slot # None => slot.no = slots /\ slots # 0 /\ handle.process # "absent"
  /\ slot = None => Live = {} /\ handle.child = 0
  /\ handle.child # 0 /\ handle.stopping => At("stopping") \/ server \in {"closing", "down"}
  /\ \A no \in retries : no <= slots
  /\ server = "down" => slot = None

(* Only the running operation has got anywhere, and where it is says what  *)
(* it found and did.                                                       *)
QueueInv ==
  /\ \A i \in DOMAIN queue :
       /\ i # 1 => queue[i].pc = "ready"
       /\ queue[i].kind \in {"start", "retry"} => queue[i].pc = "ready"
       /\ queue[i].slot <= slots
       /\ server \in {"closing", "down"} => queue[i].kind = "retry"
  /\ At("stopping") => slot # None /\ handle.child # 0 /\ handle.stopping
  /\ At("stopped") => Live = {} /\ handle.child = 0
  /\ Given({"stop"}) => slot # None /\ slot.desired = "stopped" /\ desired = "stopped"
  /\ Given({"restart"}) => registered /\ desired = "running"
  /\ Given({"fail_stop", "reconcile"}) => Current(queue[1].slot)

(* The slot follows the registration, and what is to be stopped is being   *)
(* stopped.                                                                *)
WishInv ==
  /\ ~registered => slot = None
  /\ slot # None /\ desired = "stopped" => slot.desired = "stopped"
  /\ slot # None /\ desired = "running" => slot.desired = "running" \/ Given({"restart"})
  /\ slot # None /\ slot.desired = "stopped" /\ Live # {} =>
       At("stopping") /\ queue[1].kind = "stop"
  /\ slot # None /\ slot.desired = "stopped" => slot.no \notin retries
  /\ slot # None /\ slot.blocked /\ Live # {} =>
       At("stopping") \/ (1 \in DOMAIN queue /\ Asked(1, "fail_stop"))
  /\ registered /\ desired = "running" /\ slot = None /\ server = "up" =>
       /\ 1 \in DOMAIN queue
       /\ \/ queue[1].kind = "start"
          \/ queue[1].kind = "restart" /\ queue[1].pc = "stopped"

(* A slot that should run and does not is accounted for: something will    *)
(* bring it back, or says why nothing will.                                *)
Accounted ==
  \/ slot.no \in retries \/ Queued("retry") \/ Queued("reconcile")
  \/ slot.blocked \/ slot.error = "retry_exhausted"
Wanted == slot # None /\ slot.desired = "running" /\ server = "up"

FailInv ==
  /\ \A i \in DOMAIN queue : Asked(i, "fail_stop") => i = 1 \/ Leaving \/ Broken
  /\ Wanted /\ Queued("fail_stop") => handle.runtime = "failed" \/ Leaving
  /\ Wanted /\ Queued("fail_stop") => Accounted \/ Leaving \/ Broken
  /\ Wanted => Accounted \/ Leaving \/ Broken \/ (Live # {} /\ ~handle.stopping)
  /\ server = "up" /\ slot # None /\ Broken => At("stopping") \/ Queued("fail_stop")

(* At most one retry of a slot is armed or queued, and only within the     *)
(* budget; beyond a refused spawn no retry is ever carried out.            *)
AttemptInv ==
  server = "up" /\ slot # None =>
    /\ \A i \in DOMAIN queue : Asked(i, "retry") =>
         \/ /\ slot.attempt < RetryBudget
            /\ \A j \in DOMAIN queue : Asked(j, "retry") => i = j
         \/ Leaving \/ (Broken /\ At("stopping"))
    /\ slot.no \in retries =>
         (slot.attempt < RetryBudget /\ ~Queued("retry")) \/ Leaving \/ Broken

IInv ==
  TypeOK /\ ChildInv /\ SlotInv /\ QueueInv /\ WishInv /\ FailInv /\ AttemptInv

-----------------------------------------------------------------------------
(* The queue as a function on its indices.                                 *)

LEMMA Indices ==
  ASSUME NEW S, NEW s \in Seq(S)
  PROVE  /\ \A i \in DOMAIN s : i \in Nat /\ i # 0 /\ s[i] \in S /\ 1 \in DOMAIN s
         /\ s # <<>> => 1 \in DOMAIN s /\ Head(s) = s[1] /\ Head(s) \in S
         /\ s = <<>> => DOMAIN s = {}
<1>1. /\ Len(s) \in Nat /\ DOMAIN s = 1..Len(s) /\ \A i \in 1..Len(s) : s[i] \in S
      /\ s = <<>> <=> Len(s) = 0
  BY LenProperties, EmptySeq, ElementOfSeq
<1>2. s # <<>> => Head(s) = s[1] /\ Head(s) \in S
  BY HeadTailProperties
<1> QED
  BY <1>1, <1>2

LEMMA Tails ==
  ASSUME NEW S, NEW s \in Seq(S), s # <<>>
  PROVE  /\ Tail(s) \in Seq(S)
         /\ \A i \in DOMAIN Tail(s) :
              i \in Nat /\ i # 0 /\ i + 1 \in DOMAIN s /\ Tail(s)[i] = s[i + 1]
         /\ \A i \in DOMAIN s :
              i # 1 => i - 1 \in DOMAIN Tail(s) /\ Tail(s)[i - 1] = s[i]
<1>1. /\ Len(s) \in Nat \ {0} /\ DOMAIN s = 1..Len(s)
      /\ DOMAIN Tail(s) = 1..Len(Tail(s)) /\ Len(Tail(s)) = Len(s) - 1
      /\ \A i \in 1..Len(Tail(s)) : Tail(s)[i] = s[i + 1]
  BY LenProperties, HeadTailProperties, EmptySeq
<1>2. Tail(s) \in Seq(S)
  BY HeadTailProperties
<1> QED
  BY <1>1, <1>2

LEMMA Appended ==
  ASSUME NEW S, NEW s \in Seq(S), NEW e \in S
  PROVE  /\ Append(s, e) \in Seq(S)
         /\ \A i \in DOMAIN s : i \in DOMAIN Append(s, e) /\ Append(s, e)[i] = s[i]
         /\ \E n \in DOMAIN Append(s, e) :
              /\ n \in Nat /\ n # 0 /\ n \notin DOMAIN s /\ Append(s, e)[n] = e
              /\ \A i \in DOMAIN Append(s, e) : i \in DOMAIN s \/ i = n
              /\ s = <<>> <=> n = 1
<1>1. /\ Append(s, e) \in Seq(S) /\ Len(Append(s, e)) = Len(s) + 1
      /\ \A i \in 1..Len(s) : Append(s, e)[i] = s[i]
      /\ Append(s, e)[Len(s) + 1] = e
  BY AppendProperties
<1>2. /\ Len(s) \in Nat /\ DOMAIN s = 1..Len(s) /\ s = <<>> <=> Len(s) = 0
      /\ DOMAIN Append(s, e) = 1..Len(Append(s, e))
  BY <1>1, LenProperties, EmptySeq
<1> QED
  BY <1>1, <1>2

LEMMA Excepted ==
  ASSUME NEW S, NEW s \in Seq(S), NEW i \in DOMAIN s, NEW e \in S
  PROVE  /\ [s EXCEPT ![i] = e] \in Seq(S)
         /\ DOMAIN [s EXCEPT ![i] = e] = DOMAIN s
         /\ [s EXCEPT ![i] = e][i] = e
         /\ \A j \in DOMAIN s : j # i => [s EXCEPT ![i] = e][j] = s[j]
<1>1. i \in 1..Len(s)
  BY LenProperties
<1> QED
  BY <1>1, ExceptSeq

(* What the ends of the queue become, in index terms.                      *)
Pops ==
  /\ queue' \in Seq(Operation)
  /\ 1 \in DOMAIN queue
  /\ \A i \in DOMAIN queue' :
       i \in Nat /\ i # 0 /\ i + 1 \in DOMAIN queue /\ queue'[i] = queue[i + 1]
  /\ \A i \in DOMAIN queue : i # 1 => i - 1 \in DOMAIN queue' /\ queue'[i - 1] = queue[i]

(* The head goes, and a request may go on with an operation of its own.    *)
IsRequest(op) ==
  /\ op.kind \in Kinds /\ op.pc = "ready" /\ op.slot = 0
  /\ server \notin {"closing", "down"}

Shifts ==
  /\ queue' \in Seq(Operation)
  /\ 1 \in DOMAIN queue
  /\ \A i \in DOMAIN queue' :
       /\ i \in Nat /\ i # 0
       /\ \/ i + 1 \in DOMAIN queue /\ queue'[i] = queue[i + 1]
          \/ IsRequest(queue'[i])
  /\ \A i \in DOMAIN queue : i # 1 => i - 1 \in DOMAIN queue' /\ queue'[i - 1] = queue[i]

Marks(pc) ==
  /\ queue' \in Seq(Operation)
  /\ 1 \in DOMAIN queue /\ DOMAIN queue' = DOMAIN queue
  /\ queue'[1].kind = queue[1].kind /\ queue'[1].slot = queue[1].slot /\ queue'[1].pc = pc
  /\ \A i \in DOMAIN queue : i # 1 => queue'[i] = queue[i]

Grows(op) ==
  /\ queue' \in Seq(Operation)
  /\ \A i \in DOMAIN queue : i \in DOMAIN queue' /\ queue'[i] = queue[i]
  /\ \E n \in DOMAIN queue' :
       /\ n \in Nat /\ n # 0 /\ n \notin DOMAIN queue /\ queue'[n] = op
       /\ \A i \in DOMAIN queue' : i \in DOMAIN queue \/ i = n
       /\ queue = <<>> <=> n = 1

LEMMA HeadIsFirst ==
  ASSUME TypeOK
  PROVE  /\ queue # <<>> => 1 \in DOMAIN queue /\ Head(queue) = queue[1]
         /\ 1 \in DOMAIN queue => queue # <<>>
         /\ \A i \in DOMAIN queue : i \in Nat /\ i # 0 /\ queue[i] \in Operation /\ 1 \in DOMAIN queue
<1>1. queue \in Seq(Operation)
  BY DEF TypeOK
<1> QED
  BY <1>1, Indices

LEMMA FinishPops ==
  ASSUME TypeOK, queue # <<>>, Finish
  PROVE  Pops
<1>1. queue \in Seq(Operation)
  BY DEF TypeOK
<1>2. 1 \in DOMAIN queue
  BY <1>1, Indices
<1> QED
  BY <1>1, <1>2, Tails DEF Finish, Pops

LEMMA ExceptMarks ==
  ASSUME TypeOK, queue # <<>>, NEW pc \in {"ready", "stopping", "stopped"},
         queue' = [queue EXCEPT ![1].pc = pc]
  PROVE  Marks(pc)
<1>1. queue \in Seq(Operation) /\ 1 \in DOMAIN queue /\ queue[1] \in Operation
  BY HeadIsFirst DEF TypeOK
<1> DEFINE e == [queue[1] EXCEPT !.pc = pc]
<1>2. e \in Operation /\ e.kind = queue[1].kind /\ e.slot = queue[1].slot /\ e.pc = pc
  BY <1>1 DEF Operation
<1>3. queue' = [queue EXCEPT ![1] = e]
  OBVIOUS
<1> HIDE DEF e
<1> QED
  BY <1>1, <1>2, <1>3, Excepted DEF Marks

LEMMA AppendGrows ==
  ASSUME TypeOK, NEW op \in Operation, queue' = Append(queue, op)
  PROVE  Grows(op)
<1>1. queue \in Seq(Operation)
  BY DEF TypeOK
<1> QED
  BY <1>1, Appended DEF Grows

-----------------------------------------------------------------------------
(* The operations.                                                         *)

USE DEF At, Given, Leaving, Asked, Queued, Broken, Accounted, Wanted, Current

LEMMA BeginsReady ==
  ASSUME TypeOK, NEW kind, Begins(kind)
  PROVE  /\ queue # <<>> /\ 1 \in DOMAIN queue /\ Head(queue) = queue[1]
         /\ queue[1].kind = kind /\ queue[1].pc = "ready"
  BY HeadIsFirst DEF Begins, Running

LEMMA ResumesStopped ==
  ASSUME TypeOK, NEW kind, Resumes(kind)
  PROVE  /\ queue # <<>> /\ 1 \in DOMAIN queue /\ Head(queue) = queue[1]
         /\ queue[1].kind = kind /\ queue[1].pc = "stopped"
  BY HeadIsFirst DEF Resumes, Running

LEMMA LiveIsChild ==
  ASSUME IInv
  PROVE  /\ Live # {} => handle.child # 0 /\ handle.child \in Live /\ ~Broken
         /\ handle.process \in {"running", "spawning"} => Live # {}
         /\ handle.process = "exited" /\ handle.child # 0 => Broken
         /\ handle.child # 0 => Live # {} \/ Broken
         /\ Broken => Live = {}
<1>1. \A r \in DOMAIN procs : r \in Nat /\ r # 0 /\ procs[r] \in Process
  BY Indices DEF IInv, TypeOK
<1>2. handle.child # 0 =>
        /\ handle.child \in DOMAIN procs
        /\ procs[handle.child].status \in {"launching", "up", "failed", "gone"}
        /\ procs[handle.child].status = "launching" => handle.process = "spawning"
        /\ procs[handle.child].status = "up" => handle.process = "running"
        /\ procs[handle.child].status = "failed" => handle.process = "exited"
        /\ procs[handle.child].status # "gone"
  BY <1>1 DEF IInv, ChildInv, Process
<1>3. handle.child # 0 => Broken \/ handle.child \in Live
  BY <1>2 DEF Live
<1>4. \A r \in Live : handle.child = r /\ r # 0 /\ procs[r].status # "failed"
  BY <1>1 DEF IInv, ChildInv, Live
<1>5. handle.child = 0 => handle.process \in {"absent", "exited"}
  BY DEF IInv, ChildInv
<1> QED
  BY <1>2, <1>3, <1>4, <1>5 DEF Live

KeptSlot ==
  /\ slot # None => slot' # None /\ slot'.no = slot.no
  /\ slot = None => slot' = None

Bound == {"fail_stop", "retry", "reconcile"}

LEMMA ShiftEffects ==
  ASSUME IInv, Shifts, KeptSlot
  PROVE  /\ \A i \in DOMAIN queue' :
              /\ queue'[i].pc = "ready" /\ queue'[i].slot <= slots
              /\ server \in {"closing", "down"} => queue'[i].kind = "retry"
              /\ \A kind \in Bound : Asked(i, kind)' =>
                   i + 1 \in DOMAIN queue /\ i + 1 # 1 /\ Asked(i + 1, kind)
         /\ \A kind \in Bound : Queued(kind)' => Queued(kind)
         /\ \A kind : Queued(kind) => Queued(kind)' \/ Asked(1, kind)
         /\ ~At("stopping")' /\ ~At("stopped")' /\ \A kinds : ~Given(kinds)'
<1>1. \A i \in DOMAIN queue' :
        \/ i \in Nat /\ i + 1 # 1 /\ i + 1 \in DOMAIN queue /\ queue'[i] = queue[i + 1]
        \/ IsRequest(queue'[i])
  BY DEF Shifts
<1>2. \A i \in DOMAIN queue' :
        /\ queue'[i].pc = "ready" /\ queue'[i].slot <= slots
        /\ server \in {"closing", "down"} => queue'[i].kind = "retry"
  BY <1>1 DEF IInv, TypeOK, QueueInv, IsRequest
<1>3. \A i \in DOMAIN queue' : \A kind \in Bound : Asked(i, kind)' =>
        i + 1 \in DOMAIN queue /\ i + 1 # 1 /\ Asked(i + 1, kind)
  BY <1>1 DEF KeptSlot, IsRequest, Bound, Kinds
<1>4. \A kind \in Bound : Queued(kind)' => Queued(kind)
  BY <1>3
<1>5. \A i \in DOMAIN queue : i # 1 =>
        i - 1 \in DOMAIN queue' /\ \A kind : Asked(i, kind) => Asked(i - 1, kind)'
  BY DEF Shifts, KeptSlot
<1>6. ASSUME NEW kind, Queued(kind)
      PROVE  Queued(kind)' \/ Asked(1, kind)
  BY <1>5, <1>6
<1>7. ~At("stopping")' /\ ~At("stopped")' /\ \A kinds : ~Given(kinds)'
  BY <1>2
<1> QED
  BY <1>2, <1>3, <1>4, <1>6, <1>7

(* An operation that ends leaves the rest as it was.                       *)
LEMMA ShiftKeeps ==
  ASSUME IInv, TypeOK', Shifts, ~Leaving, queue[1].pc # "stopping",
         Asked(1, "retry") => slot.blocked \/ ~Wanted,
         ~Asked(1, "reconcile"),
         Asked(1, "fail_stop") => queue[1].pc = "stopped",
         slot = None \/ desired' = desired,
         slot = None /\ server = "up" => ~registered \/ desired' = "stopped",
         UNCHANGED <<registered, slot, handle, slots, procs, retries, server>>
  PROVE  IInv'
<1>1. KeptSlot
  BY DEF KeptSlot
<1>2. /\ \A kind \in Bound : Queued(kind)' => Queued(kind)
      /\ \A kind : Queued(kind) => Queued(kind)' \/ Asked(1, kind)
      /\ ~At("stopping")' /\ ~At("stopped")' /\ \A kinds : ~Given(kinds)'
  BY <1>1, ShiftEffects
<1>3. \A i \in DOMAIN queue' :
              /\ queue'[i].pc = "ready" /\ queue'[i].slot <= slots
              /\ server \in {"closing", "down"} => queue'[i].kind = "retry"
              /\ \A kind \in Bound : Asked(i, kind)' =>
                   i + 1 \in DOMAIN queue /\ i + 1 # 1 /\ Asked(i + 1, kind)
  BY <1>1, ShiftEffects
<1>4. ~At("stopping") /\ Live' = Live
  BY DEF Live
<1>5. ChildInv'
  BY <1>4 DEF IInv, ChildInv
<1>6. SlotInv'
  BY <1>2, <1>4 DEF IInv, SlotInv
<1>7. QueueInv'
  BY <1>2, <1>3 DEF QueueInv
<1>8. WishInv'
  <2>1. slot # None /\ slot.blocked => Live = {}
    <3>1. Live # {} => handle.child # 0 /\ ~At("stopped")
      BY LiveIsChild DEF IInv, QueueInv
    <3> QED
      BY <1>4, <3>1 DEF IInv, WishInv
  <2>2. /\ ~registered => slot = None
        /\ slot # None /\ desired = "stopped" => slot.desired = "stopped"
        /\ slot # None /\ desired = "running" => slot.desired = "running"
        /\ slot # None /\ slot.desired = "stopped" => Live = {} /\ slot.no \notin retries
    BY <1>4 DEF IInv, WishInv
  <2> QED
    BY <1>2, <1>4, <2>1, <2>2 DEF WishInv
<1>9. FailInv'
  <2>1. Wanted /\ Accounted => Accounted'
    BY <1>2
  <2>2. \A i \in DOMAIN queue' : Asked(i, "fail_stop")' => Broken
    BY <1>3 DEF IInv, FailInv, Bound
  <2>3. slot # None /\ Broken => ~Asked(1, "fail_stop")
    BY DEF IInv, QueueInv, Shifts
  <2>4. /\ Wanted /\ Queued("fail_stop") => handle.runtime = "failed"
        /\ Wanted /\ Queued("fail_stop") => Accounted \/ Broken
        /\ Wanted => Accounted \/ Broken \/ (Live # {} /\ ~handle.stopping)
        /\ server = "up" /\ slot # None /\ Broken => Queued("fail_stop")
    BY <1>4 DEF IInv, FailInv
  <2>5. Wanted' = Wanted /\ Broken' = Broken
    OBVIOUS
  <2> HIDE DEF Wanted, Broken, Accounted
  <2> QED
    BY <1>2, <1>4, <2>1, <2>2, <2>3, <2>4, <2>5 DEF FailInv, Bound
<1>10. AttemptInv'
  <2> SUFFICES ASSUME server = "up", slot # None
               PROVE  AttemptInv'
    BY DEF AttemptInv
  <2>1. ASSUME NEW i \in DOMAIN queue', Asked(i, "retry")'
        PROVE  /\ slot.attempt < RetryBudget
               /\ \A j \in DOMAIN queue' : Asked(j, "retry")' => i = j
    <3>1. i \in Nat /\ \A j \in DOMAIN queue' : j \in Nat
      BY DEF Shifts
    <3>2. i + 1 \in DOMAIN queue /\ Asked(i + 1, "retry")
      BY <1>3, <2>1 DEF Bound
    <3>3. \A j \in DOMAIN queue' : Asked(j, "retry")' =>
            j + 1 \in DOMAIN queue /\ Asked(j + 1, "retry")
      BY <1>3 DEF Bound
    <3>4. /\ slot.attempt < RetryBudget
          /\ \A j \in DOMAIN queue : Asked(j, "retry") => i + 1 = j
      BY <1>4, <3>2 DEF IInv, AttemptInv
    <3> QED
      BY <3>1, <3>3, <3>4
  <2>2. slot.no \in retries => (slot.attempt < RetryBudget /\ ~Queued("retry")) \/ Broken
    BY DEF IInv, AttemptInv
  <2> QED
    BY <1>2, <2>1, <2>2 DEF AttemptInv, Bound
<1> QED
  BY <1>5, <1>6, <1>7, <1>8, <1>9, <1>10 DEF IInv

LEMMA PopKeeps ==
  ASSUME IInv, TypeOK', Pops, ~Leaving, queue[1].pc # "stopping",
         Asked(1, "retry") => slot.blocked \/ ~Wanted,
         ~Asked(1, "reconcile"),
         Asked(1, "fail_stop") => queue[1].pc = "stopped",
         slot = None \/ desired' = desired,
         slot = None /\ server = "up" => ~registered \/ desired' = "stopped",
         UNCHANGED <<registered, slot, handle, slots, procs, retries, server>>
  PROVE  IInv'
<1>1. Shifts
  BY DEF Pops, Shifts
<1> QED
  BY <1>1, ShiftKeeps

(* A start request that finds a running daemon, or no registration.        *)
LEMMA StartIgnoredKeeps ==
  ASSUME IInv, StartIgnored, UNCHANGED <<cwd, server, bounds>>
  PROVE  IInv'
<1>1. queue # <<>> /\ 1 \in DOMAIN queue /\ queue[1].kind = "start" /\ queue[1].pc = "ready"
  BY BeginsReady DEF IInv, StartIgnored
<1>2. Pops
  BY <1>1, FinishPops DEF IInv, StartIgnored
<1>3. TypeOK'
  <2>1. slot' \in Optional(ChildSlot)
    BY DEF IInv, TypeOK, StartIgnored, Optional, ChildSlot
  <2>2. desired' \in {"running", "stopped"}
    BY DEF IInv, TypeOK, StartIgnored
  <2> QED
    BY <1>2, <2>1, <2>2 DEF IInv, TypeOK, StartIgnored, Pops, bounds
<1>4. slot # None => slot' = slot /\ desired' = desired
  <2> SUFFICES ASSUME slot # None, registered
               PROVE  slot' = slot /\ desired' = desired
    BY DEF StartIgnored
  <2>1. Live # {}
    BY LiveIsChild DEF StartIgnored
  <2>2. slot \in ChildSlot /\ slot.desired = "running" /\ desired = "running"
    BY <1>1, <2>1 DEF IInv, TypeOK, WishInv, ChildSlot, Optional
  <2> QED
    BY <2>2 DEF StartIgnored, ChildSlot
<1>5. slot = None => slot' = None /\ (server # "up" \/ ~registered)
  BY DEF StartIgnored
<1> QED
  BY <1>1, <1>2, <1>3, <1>4, <1>5, PopKeeps DEF StartIgnored

(* An operation begins to wait for the exit of the child, or finds none.   *)
LEMMA AwaitEffects ==
  ASSUME IInv, AwaitStop, queue # <<>>
  PROVE  /\ Marks(IF handle.child = 0 THEN "stopped" ELSE "stopping")
         /\ handle' \in Handle
         /\ handle'.child = handle.child /\ handle'.process = handle.process
         /\ handle'.runtime = handle.runtime
         /\ handle.child # 0 => handle'.stopping
<1>1. Marks(IF handle.child = 0 THEN "stopped" ELSE "stopping")
  BY ExceptMarks DEF IInv, AwaitStop
<1> QED
  BY <1>1 DEF IInv, TypeOK, AwaitStop, Stopping, Handle

LEMMA AwaitKeeps ==
  ASSUME IInv, TypeOK', AwaitStop, queue # <<>>, slot # None,
         slot' # None, slot'.no = slot.no, slot'.attempt = slot.attempt,
         slot'.blocked => slot.blocked,
         queue[1].pc = "ready", queue[1].kind # "start", queue[1].kind # "retry",
         queue[1].kind = "stop" =>
           slot'.desired = "stopped" /\ desired' = "stopped" /\ slot.no \notin retries',
         queue[1].kind # "stop" => slot'.desired = slot.desired,
         queue[1].kind = "restart" => registered /\ desired' = "running",
         queue[1].kind \notin {"stop", "restart"} => desired' = desired,
         queue[1].kind \in {"fail_stop", "reconcile"} =>
           Asked(1, queue[1].kind) /\ slot' = slot /\ retries' = retries,
         retries' \subseteq retries,
         UNCHANGED <<registered, slots, procs, server>>
  PROVE  IInv'
<1>1. /\ Marks(IF handle.child = 0 THEN "stopped" ELSE "stopping")
      /\ handle'.child = handle.child /\ handle'.process = handle.process
      /\ handle'.runtime = handle.runtime
      /\ handle.child # 0 => handle'.stopping
  BY AwaitEffects
<1>2. /\ 1 \in DOMAIN queue /\ DOMAIN queue' = DOMAIN queue
      /\ queue'[1].kind = queue[1].kind /\ queue'[1].slot = queue[1].slot
      /\ queue'[1].pc = IF handle.child = 0 THEN "stopped" ELSE "stopping"
      /\ \A i \in DOMAIN queue : i # 1 => queue'[i] = queue[i]
      /\ \A i \in DOMAIN queue :
           queue'[i].kind = queue[i].kind /\ queue'[i].slot = queue[i].slot
  BY <1>1 DEF Marks
<1>3. /\ \A i \in DOMAIN queue : \A kind : Asked(i, kind)' <=> Asked(i, kind)
      /\ \A kind : Queued(kind)' <=> Queued(kind)
  BY <1>2
<1>4. /\ Live' = Live /\ Broken' = Broken /\ ~Leaving
      /\ Leaving' <=> queue[1].kind \in {"restart", "unregister", "reconcile"}
      /\ handle.child = 0 => Live = {}
      /\ queue[1].kind \in {"stop", "restart", "unregister", "reconcile", "fail_stop"}
  <2>1. queue[1] \in Operation
    BY HeadIsFirst, <1>2 DEF IInv
  <2> QED
    BY <1>1, <1>2, <2>1, LiveIsChild DEF Live, Operation, Kinds
<1>5. ChildInv'
  BY <1>1, <1>4 DEF IInv, ChildInv
<1>6. SlotInv'
  BY <1>1, <1>2, <1>4 DEF IInv, SlotInv
<1>7. QueueInv'
  <2>1. server \notin {"closing", "down"}
    BY <1>2 DEF IInv, QueueInv
  <2> QED
    BY <1>1, <1>2, <1>4, <2>1 DEF IInv, QueueInv
<1>8. WishInv'
  <2>1. slot.desired = "stopped" => Live = {} /\ slot.no \notin retries
    BY DEF IInv, WishInv
  <2> QED
    BY <1>1, <1>2, <1>4, <2>1 DEF IInv, TypeOK, WishInv
<1>9. FailInv'
  <2>1. CASE queue[1].kind \in {"restart", "unregister", "reconcile"}
    BY <1>1, <1>2, <1>4, <2>1, LiveIsChild DEF FailInv
  <2>2. CASE queue[1].kind = "stop"
    BY <1>1, <1>2, <1>3, <1>4, <2>2 DEF IInv, FailInv
  <2>3. CASE queue[1].kind = "fail_stop"
    BY <1>1, <1>2, <1>3, <1>4, <2>3 DEF IInv, FailInv
  <2> QED
    BY <1>4, <2>1, <2>2, <2>3
<1>10. AttemptInv'
  BY <1>1, <1>2, <1>3, <1>4 DEF IInv, AttemptInv
<1> QED
  BY <1>5, <1>6, <1>7, <1>8, <1>9, <1>10 DEF IInv

LEMMA StopKeeps ==
  ASSUME IInv, Stop, UNCHANGED <<cwd, server, bounds>>
  PROVE  IInv'
<1>1. queue # <<>> /\ 1 \in DOMAIN queue /\ queue[1].kind = "stop" /\ queue[1].pc = "ready"
  BY BeginsReady DEF IInv, Stop
<1>2. CASE slot = None
  <2>1. Pops
    BY <1>1, <1>2, FinishPops DEF IInv, Stop
  <2>2. TypeOK'
    BY <1>2, <2>1 DEF IInv, TypeOK, Stop, Pops, bounds
  <2> QED
    BY <1>1, <1>2, <2>1, <2>2, PopKeeps DEF Stop
<1>3. CASE slot # None
  <2>1. registered
    BY <1>3 DEF IInv, WishInv
  <2>2. AwaitStop /\ slot \in ChildSlot /\ slot' = [slot EXCEPT !.desired = "stopped"]
    BY <1>3, <2>1 DEF IInv, TypeOK, Optional, Stop
  <2>3. /\ slot' \in ChildSlot /\ slot'.desired = "stopped" /\ slot'.blocked = slot.blocked
        /\ slot'.no = slot.no /\ slot'.attempt = slot.attempt
    BY <2>2 DEF ChildSlot
  <2>4. desired' = "stopped" /\ retries' = retries \ {slot.no} /\ stability' = 0
    BY <1>3, <2>1 DEF Stop, CancelTimers
  <2>5. TypeOK'
    BY <1>1, <2>2, <2>3, <2>4, AwaitEffects
    DEF IInv, TypeOK, Optional, Stop, Marks, bounds
  <2> QED
    BY <1>1, <1>3, <2>2, <2>3, <2>4, <2>5, AwaitKeeps, NoneAssumption DEF Stop
<1> QED
  BY <1>2, <1>3

LEMMA StoppedKeeps ==
  ASSUME IInv, Stopped, UNCHANGED <<cwd, server, bounds>>
  PROVE  IInv'
<1>1. /\ queue # <<>> /\ 1 \in DOMAIN queue /\ queue[1].kind \in {"stop", "fail_stop"}
      /\ queue[1].pc = "stopped"
  BY ResumesStopped DEF IInv, Stopped
<1>2. Pops
  BY <1>1, FinishPops DEF IInv, Stopped
<1>3. TypeOK'
  BY <1>2 DEF IInv, TypeOK, Stopped, Pops, bounds, registry
<1>4. slot # None
  BY <1>1 DEF IInv, QueueInv
<1> QED
  BY <1>1, <1>2, <1>3, <1>4, PopKeeps DEF Stopped, registry

(* A restart or an unregister that finds no child goes on at once.         *)
LEMMA GoesOnKeeps ==
  ASSUME IInv, TypeOK', queue # <<>>, queue' = [queue EXCEPT ![1].pc = "stopped"],
         queue[1].pc = "ready", queue[1].kind \in {"restart", "unregister"}, slot = None,
         queue[1].kind = "restart" => registered /\ desired' = "running",
         queue[1].kind = "unregister" => desired' = desired,
         UNCHANGED <<registered, slot, handle, slots, procs, retries, server>>
  PROVE  IInv'
<1>1. Marks("stopped")
  BY ExceptMarks DEF IInv
<1>2. /\ 1 \in DOMAIN queue /\ DOMAIN queue' = DOMAIN queue
      /\ queue'[1].kind = queue[1].kind /\ queue'[1].slot = queue[1].slot
      /\ queue'[1].pc = "stopped"
      /\ \A i \in DOMAIN queue : i # 1 => queue'[i] = queue[i]
      /\ \A i \in DOMAIN queue :
           queue'[i].kind = queue[i].kind /\ queue'[i].slot = queue[i].slot
  BY <1>1 DEF Marks
<1>3. Live = {} /\ Live' = {} /\ handle.child = 0
  BY DEF IInv, SlotInv, Live
<1>4. ChildInv'
  BY <1>3 DEF IInv, ChildInv
<1>5. SlotInv'
  BY <1>2, <1>3 DEF IInv, SlotInv
<1>6. QueueInv'
  BY <1>2, <1>3 DEF IInv, QueueInv
<1>7. WishInv'
  BY <1>2, <1>3 DEF IInv, WishInv
<1>8. FailInv' /\ AttemptInv'
  BY DEF FailInv, AttemptInv
<1> QED
  BY <1>4, <1>5, <1>6, <1>7, <1>8 DEF IInv

LEMMA RestartKeeps ==
  ASSUME IInv, Restart, UNCHANGED <<cwd, server, bounds>>
  PROVE  IInv'
<1>1. queue # <<>> /\ 1 \in DOMAIN queue /\ queue[1].kind = "restart" /\ queue[1].pc = "ready"
  BY BeginsReady DEF IInv, Restart
<1>2. CASE ~registered
  <2>1. Pops /\ slot = None
    BY <1>1, <1>2, FinishPops DEF IInv, Restart, WishInv
  <2>2. TypeOK'
    BY <1>2, <2>1 DEF IInv, TypeOK, Restart, Pops, bounds
  <2> QED
    BY <1>1, <1>2, <2>1, <2>2, PopKeeps DEF Restart
<1>3. CASE registered /\ slot = None
  <2>1. queue' = [queue EXCEPT ![1].pc = "stopped"]
    BY <1>3 DEF Restart
  <2>2. Marks("stopped")
    BY <1>1, <2>1, ExceptMarks DEF IInv
  <2>3. TypeOK'
    BY <1>3, <2>2 DEF IInv, TypeOK, Restart, Marks, bounds
  <2> QED
    BY <1>1, <1>3, <2>1, <2>3, GoesOnKeeps DEF Restart
<1>4. CASE registered /\ slot # None
  <2>1. /\ AwaitStop /\ slot \in ChildSlot
        /\ slot' = [slot EXCEPT !.blocked = FALSE, !.error = None]
    BY <1>4 DEF IInv, TypeOK, Optional, Restart
  <2>2. /\ slot' \in ChildSlot /\ slot'.desired = slot.desired /\ ~slot'.blocked
        /\ slot'.no = slot.no /\ slot'.attempt = slot.attempt
    BY <2>1 DEF ChildSlot
  <2>3. desired' = "running" /\ retries' = retries \ {slot.no} /\ stability' = 0
    BY <1>4 DEF Restart, CancelTimers
  <2>4. TypeOK'
    BY <1>1, <2>1, <2>2, <2>3, AwaitEffects
    DEF IInv, TypeOK, Optional, Restart, Marks, bounds
  <2> QED
    BY <1>1, <1>4, <2>1, <2>2, <2>3, <2>4, AwaitKeeps, NoneAssumption DEF Restart
<1> QED
  BY <1>2, <1>3, <1>4

LEMMA UnregisterKeeps ==
  ASSUME IInv, Unregister, UNCHANGED <<cwd, server, bounds>>
  PROVE  IInv'
<1>1. queue # <<>> /\ 1 \in DOMAIN queue /\ queue[1].kind = "unregister" /\ queue[1].pc = "ready"
  BY BeginsReady DEF IInv, Unregister
<1>2. CASE slot = None
  <2>1. queue' = [queue EXCEPT ![1].pc = "stopped"]
    BY <1>2 DEF Unregister
  <2>2. Marks("stopped")
    BY <1>1, <2>1, ExceptMarks DEF IInv
  <2>3. TypeOK'
    BY <1>2, <2>2 DEF IInv, TypeOK, Unregister, Marks, bounds, registry
  <2> QED
    BY <1>1, <1>2, <2>1, <2>3, GoesOnKeeps DEF Unregister, registry
<1>3. CASE slot # None
  <2>1. AwaitStop /\ slot' = slot /\ retries' = retries \ {slot.no} /\ stability' = 0
    BY <1>3 DEF Unregister, CancelTimers
  <2>2. TypeOK'
    BY <1>1, <2>1, AwaitEffects DEF IInv, TypeOK, Unregister, Marks, bounds, registry
  <2> QED
    BY <1>1, <1>3, <2>1, <2>2, AwaitKeeps DEF Unregister, registry
<1> QED
  BY <1>2, <1>3

LEMMA FailStopKeeps ==
  ASSUME IInv, FailStop, UNCHANGED <<cwd, server, bounds>>
  PROVE  IInv'
<1>1. /\ queue # <<>> /\ 1 \in DOMAIN queue /\ Head(queue) = queue[1]
      /\ queue[1].kind = "fail_stop" /\ queue[1].pc = "ready"
  BY BeginsReady DEF IInv, FailStop
<1>2. CASE Asked(1, "fail_stop")
  <2>1. AwaitStop /\ slot # None
    BY <1>1, <1>2 DEF FailStop
  <2>2. TypeOK'
    BY <1>1, <2>1, AwaitEffects DEF IInv, TypeOK, FailStop, Marks, bounds, registry
  <2> QED
    BY <1>1, <1>2, <2>1, <2>2, AwaitKeeps DEF FailStop, registry
<1>3. CASE ~Asked(1, "fail_stop")
  <2>1. Pops /\ handle' = handle
    BY <1>1, <1>3, FinishPops DEF IInv, FailStop
  <2>2. TypeOK'
    BY <2>1 DEF IInv, TypeOK, FailStop, Pops, bounds, registry
  <2>3. slot # None \/ ~(registered /\ desired = "running" /\ server = "up")
    BY <1>1 DEF IInv, WishInv
  <2>4. desired' = "stopped" \/ desired' = "running"
    BY <2>2 DEF TypeOK
  <2> QED
    BY <1>1, <1>3, <2>1, <2>2, <2>3, <2>4, PopKeeps DEF FailStop, registry
<1> QED
  BY <1>2, <1>3

(* A process is spawned where none was alive.                              *)
LEMMA SpawnEffects ==
  ASSUME IInv, Live = {}, NEW no \in Nat \ {0},
         procs' = Append(procs, [slot |-> no, status |-> "launching"]),
         handle' = [child |-> Len(procs) + 1, process |-> "spawning", runtime |-> "pending",
                    state |-> "starting", stopping |-> FALSE, rpcReady |-> FALSE,
                    extensionReady |-> FALSE, probe |-> TRUE],
         slots' = no
  PROVE  /\ procs' \in Seq(Process) /\ handle' \in Handle
         /\ Live' # {} /\ ~Broken' /\ ~handle'.stopping /\ handle'.process = "spawning"
         /\ ChildInv'
<1> DEFINE n == Len(procs) + 1
           e == [slot |-> no, status |-> "launching"]
<1>1. procs \in Seq(Process) /\ e \in Process
  BY DEF IInv, TypeOK, Process
<1>2. /\ procs' \in Seq(Process) /\ Len(procs) \in Nat /\ DOMAIN procs = 1..Len(procs)
      /\ DOMAIN procs' = 1..(Len(procs) + 1)
      /\ \A i \in 1..Len(procs) : procs'[i] = procs[i]
      /\ procs'[n] = e
  BY <1>1, AppendProperties, LenProperties
<1>3. n \in Nat /\ n # 0 /\ n \in DOMAIN procs' /\ n \notin DOMAIN procs
      /\ \A i \in DOMAIN procs' : i = n \/ (i \in DOMAIN procs /\ procs'[i] = procs[i])
  BY <1>2
<1>4. handle'.child = n /\ handle' \in Handle
  BY <1>3 DEF Handle
<1> HIDE DEF n
<1>5. Live' = {n}
  BY <1>2, <1>3 DEF Live
<1> QED
  BY <1>2, <1>3, <1>4, <1>5 DEF ChildInv

LEMMA SpawnAgainEffects ==
  ASSUME IInv, SpawnAgain, UNCHANGED slots, slot # None
  PROVE  /\ procs' \in Seq(Process) /\ handle' \in Handle /\ ChildInv'
         /\ handle'.process # "absent"
         /\ handle.child # 0 => UNCHANGED <<handle, procs>>
         /\ handle.child = 0 =>
              Live' # {} /\ ~Broken' /\ ~handle'.stopping
<1>1. slots \in Nat \ {0}
  BY DEF IInv, TypeOK, SlotInv
<1>2. CASE handle.child # 0
  <2>1. UNCHANGED <<handle, procs, slots>>
    BY <1>2 DEF SpawnAgain, Spawned
  <2> QED
    BY <1>2, <2>1 DEF IInv, TypeOK, ChildInv, SlotInv, Live
<1>3. CASE handle.child = 0
  <2>1. Live = {}
    BY <1>3, LiveIsChild
  <2> QED
    BY <1>1, <1>3, <2>1, SpawnEffects DEF SpawnAgain, Spawned
<1> QED
  BY <1>2, <1>3

(* createSlot, at the end of an operation.                                 *)
LEMMA CreateKeeps ==
  ASSUME IInv, TypeOK', CreateSlot, Pops, Live = {}, registered, server = "up",
         queue[1].pc # "stopping", desired' = "running", UNCHANGED <<registered, retries, server>>
  PROVE  IInv'
<1>1. slots \in Nat /\ slots' = slots + 1 /\ slots' \in Nat \ {0}
  BY DEF IInv, TypeOK, CreateSlot
<1>2. /\ handle' = [child |-> Len(procs) + 1, process |-> "spawning", runtime |-> "pending",
                    state |-> "starting", stopping |-> FALSE, rpcReady |-> FALSE,
                    extensionReady |-> FALSE, probe |-> TRUE]
      /\ procs' = Append(procs, [slot |-> slots', status |-> "launching"])
  BY DEF CreateSlot, Spawned, NewHandle
<1>3. /\ Live' # {} /\ ~Broken' /\ ~handle'.stopping /\ handle'.process = "spawning"
      /\ ChildInv'
  BY <1>1, <1>2, SpawnEffects
<1>4. /\ slot' # None /\ slot'.no = slots + 1 /\ slot'.desired = "running"
      /\ ~slot'.blocked
  <2>1. slot' = NewSlot(slots + 1)
    BY DEF CreateSlot
  <2>2. NewSlot(slots + 1) \in ChildSlot
    BY <1>1, SupervisorAssumption DEF NewSlot, ChildSlot
  <2> QED
    BY <2>1, <2>2, NoneAssumption DEF NewSlot
<1>5. \A i \in DOMAIN queue' :
        /\ queue'[i].pc = "ready" /\ queue'[i].slot <= slots /\ queue'[i].slot \in Nat
        /\ i \in Nat
  <2>1. \A i \in DOMAIN queue' :
          i \in Nat /\ i # 0 /\ i + 1 \in DOMAIN queue /\ queue'[i] = queue[i + 1]
    BY DEF Pops
  <2>2. \A i \in DOMAIN queue' : queue[i + 1] \in Operation /\ i + 1 # 1
    BY <2>1, HeadIsFirst DEF IInv
  <2> QED
    BY <2>1, <2>2 DEF IInv, QueueInv, Operation
<1>6. \A i \in DOMAIN queue' : \A kind : ~Asked(i, kind)'
  BY <1>1, <1>4, <1>5
<1>7. \A no \in retries : no <= slots /\ no \in Nat
  BY DEF IInv, TypeOK, SlotInv
<1>8. SlotInv'
  BY <1>1, <1>3, <1>4, <1>7 DEF SlotInv
<1>9. QueueInv'
  BY <1>1, <1>5 DEF QueueInv
<1>10. WishInv'
  BY <1>1, <1>3, <1>4, <1>5, <1>7 DEF WishInv
<1>11. FailInv'
  BY <1>3, <1>4, <1>6 DEF FailInv
<1>12. AttemptInv'
  BY <1>1, <1>4, <1>6, <1>7 DEF AttemptInv
<1> QED
  BY <1>3, <1>8, <1>9, <1>10, <1>11, <1>12 DEF IInv

LEMMA CreateTyped ==
  ASSUME IInv, CreateSlot, Live = {}
  PROVE  /\ slot' \in ChildSlot /\ handle' \in Handle /\ procs' \in Seq(Process)
         /\ slots' \in Nat
<1>1. slots \in Nat /\ slots' = slots + 1 /\ slots' \in Nat \ {0}
  BY DEF IInv, TypeOK, CreateSlot
<1>2. /\ handle' = [child |-> Len(procs) + 1, process |-> "spawning", runtime |-> "pending",
                    state |-> "starting", stopping |-> FALSE, rpcReady |-> FALSE,
                    extensionReady |-> FALSE, probe |-> TRUE]
      /\ procs' = Append(procs, [slot |-> slots', status |-> "launching"])
  BY DEF CreateSlot, Spawned, NewHandle
<1>3. slot' \in ChildSlot
  BY <1>1, SupervisorAssumption DEF CreateSlot, NewSlot, ChildSlot
<1> QED
  BY <1>1, <1>2, <1>3, SpawnEffects

LEMMA StartNewKeeps ==
  ASSUME IInv, StartNew, UNCHANGED <<cwd, server, bounds>>
  PROVE  IInv'
<1>1. queue # <<>> /\ 1 \in DOMAIN queue /\ queue[1].kind = "start" /\ queue[1].pc = "ready"
  BY BeginsReady DEF IInv, StartNew
<1>2. Pops
  BY <1>1, FinishPops DEF IInv, StartNew
<1>3. Live = {} /\ CreateSlot
  BY DEF IInv, SlotInv, StartNew
<1>4. TypeOK'
  BY <1>2, <1>3, CreateTyped DEF IInv, TypeOK, Optional, StartNew, Pops, bounds
<1> QED
  BY <1>1, <1>2, <1>3, <1>4, CreateKeeps DEF StartNew

(* The slot goes, and the queue with the operation that removed it may     *)
(* have got one more.                                                      *)
LEMMA RemoveKeeps ==
  ASSUME IInv, TypeOK', slot' = None, Live = {},
         \A i \in DOMAIN queue' : queue'[i].pc = "ready" /\ queue'[i].slot <= slots,
         server \notin {"closing", "down"},
         ~registered' \/ server # "up", handle.child = 0,
         UNCHANGED <<handle, slots, procs, retries, server>>
  PROVE  IInv'
<1>1. Live' = Live
  BY DEF Live
<1>2. ChildInv'
  BY <1>1 DEF IInv, ChildInv
<1>3. SlotInv'
  BY <1>1 DEF IInv, SlotInv
<1>4. QueueInv'
  BY DEF QueueInv
<1>5. WishInv' /\ FailInv' /\ AttemptInv'
  BY DEF WishInv, FailInv, AttemptInv
<1> QED
  BY <1>2, <1>3, <1>4, <1>5 DEF IInv

LEMMA RestartedKeeps ==
  ASSUME IInv, Restarted, UNCHANGED <<cwd, server, bounds>>
  PROVE  IInv'
<1>1. queue # <<>> /\ 1 \in DOMAIN queue /\ queue[1].kind = "restart" /\ queue[1].pc = "stopped"
  BY ResumesStopped DEF IInv, Restarted
<1>2. Pops
  BY <1>1, FinishPops DEF IInv, Restarted
<1>3. /\ Live = {} /\ handle.child = 0 /\ registered /\ desired = "running"
      /\ server \notin {"closing", "down"}
  BY <1>1 DEF IInv, QueueInv
<1>4. CASE server = "up"
  <2>1. CreateSlot
    BY <1>4 DEF Restarted
  <2>2. TypeOK'
    BY <1>2, <1>3, <2>1, CreateTyped
    DEF IInv, TypeOK, Optional, Restarted, Pops, bounds, registry
  <2> QED
    BY <1>1, <1>2, <1>3, <1>4, <2>1, <2>2, CreateKeeps DEF Restarted, registry
<1>5. CASE server # "up"
  <2>1. slot' = None /\ UNCHANGED <<handle, slots, procs>>
    BY <1>5 DEF Restarted
  <2>2. TypeOK'
    BY <1>2, <2>1 DEF IInv, TypeOK, Optional, Restarted, Pops, bounds, registry
  <2>3. \A i \in DOMAIN queue' : queue'[i].pc = "ready" /\ queue'[i].slot <= slots
    <3>1. \A i \in DOMAIN queue' : i + 1 \in DOMAIN queue /\ i + 1 # 1 /\ queue'[i] = queue[i + 1]
      BY <1>2 DEF Pops
    <3> QED
      BY <3>1 DEF IInv, QueueInv
  <2> QED
    BY <1>3, <1>5, <2>1, <2>2, <2>3, RemoveKeeps DEF Restarted
<1> QED
  BY <1>4, <1>5

LEMMA OpTyped ==
  ASSUME NEW kind \in Kinds \cup {"fail_stop", "retry", "reconcile"}, NEW no \in Nat,
         NEW then \in Optional(Kinds)
  PROVE  Op(kind, no, then) \in Operation
  BY DEF Op, Operation

LEMMA AdmitEffects ==
  ASSUME NEW q \in Seq(Operation), NEW kind \in Optional(Kinds), NEW present,
         server \notin {"closing", "down"}
  PROVE  /\ Admitted(q, kind, present) \in Seq(Operation)
         /\ \A i \in DOMAIN q :
              i \in DOMAIN Admitted(q, kind, present) /\ Admitted(q, kind, present)[i] = q[i]
         /\ \A i \in DOMAIN Admitted(q, kind, present) :
              /\ i \in Nat /\ i # 0
              /\ i \in DOMAIN q \/ IsRequest(Admitted(q, kind, present)[i])
<1>1. CASE Admitted(q, kind, present) = q
  BY <1>1, Indices
<1>2. CASE kind \in Kinds /\ Admitted(q, kind, present) = Append(q, Op(kind, 0, None))
  <2>1. Op(kind, 0, None) \in Operation
    BY <1>2, OpTyped DEF Optional
  <2>2. IsRequest(Op(kind, 0, None))
    BY <1>2 DEF IsRequest, Op
  <2> HIDE DEF Op
  <2>3. /\ \A i \in DOMAIN q : i \in DOMAIN Append(q, Op(kind, 0, None))
                               /\ Append(q, Op(kind, 0, None))[i] = q[i]
        /\ \E n \in DOMAIN Append(q, Op(kind, 0, None)) :
             /\ n \in Nat /\ n # 0 /\ Append(q, Op(kind, 0, None))[n] = Op(kind, 0, None)
             /\ \A i \in DOMAIN Append(q, Op(kind, 0, None)) : i \in DOMAIN q \/ i = n
        /\ Append(q, Op(kind, 0, None)) \in Seq(Operation)
    BY <2>1, Appended
  <2>4. \A i \in DOMAIN q : i \in Nat /\ i # 0
    BY Indices
  <2> QED
    BY <1>2, <2>2, <2>3, <2>4
<1> QED
  BY <1>1, <1>2 DEF Admitted, Optional

LEMMA PassOnShifts ==
  ASSUME IInv, queue # <<>>, Head(queue).kind # "retry", NEW present,
         queue' = Admitted(Tail(queue), Head(queue).then, present)
  PROVE  Shifts
<1>1. queue \in Seq(Operation) /\ 1 \in DOMAIN queue /\ Head(queue) = queue[1]
      /\ queue[1] \in Operation
  BY HeadIsFirst DEF IInv, TypeOK
<1>2. server \notin {"closing", "down"} /\ Head(queue).then \in Optional(Kinds)
  BY <1>1 DEF IInv, QueueInv, Operation
<1>3. /\ Tail(queue) \in Seq(Operation)
      /\ \A i \in DOMAIN Tail(queue) : i + 1 \in DOMAIN queue /\ Tail(queue)[i] = queue[i + 1]
      /\ \A i \in DOMAIN queue :
           i # 1 => i - 1 \in DOMAIN Tail(queue) /\ Tail(queue)[i - 1] = queue[i]
  BY <1>1, Tails
<1> DEFINE t == Tail(queue)
           kind == Head(queue).then
<1> HIDE DEF t, kind
<1>4. /\ Admitted(t, kind, present) \in Seq(Operation)
      /\ \A i \in DOMAIN t :
           i \in DOMAIN Admitted(t, kind, present) /\ Admitted(t, kind, present)[i] = t[i]
      /\ \A i \in DOMAIN Admitted(t, kind, present) :
           /\ i \in Nat /\ i # 0
           /\ i \in DOMAIN t \/ IsRequest(Admitted(t, kind, present)[i])
  BY <1>2, <1>3, AdmitEffects DEF t, kind
<1>5. queue' = Admitted(t, kind, present)
  BY DEF t, kind
<1>6. /\ \A i \in DOMAIN t : i + 1 \in DOMAIN queue /\ t[i] = queue[i + 1]
      /\ \A i \in DOMAIN queue : i # 1 => i - 1 \in DOMAIN t /\ t[i - 1] = queue[i]
  BY <1>3 DEF t
<1> QED
  BY <1>1, <1>4, <1>5, <1>6 DEF Shifts

LEMMA RemovedKeeps ==
  ASSUME IInv, Removed, UNCHANGED <<cwd, server, bounds>>
  PROVE  IInv'
<1>1. /\ queue # <<>> /\ 1 \in DOMAIN queue /\ Head(queue) = queue[1]
      /\ queue[1].kind \in {"unregister", "reconcile"} /\ queue[1].pc = "stopped"
  BY ResumesStopped DEF IInv, Removed
<1>2. Shifts
  BY <1>1, PassOnShifts DEF Removed
<1>3. /\ Live = {} /\ handle.child = 0
      /\ server \notin {"closing", "down"}
  BY <1>1 DEF IInv, QueueInv
<1>4. TypeOK'
  BY <1>2 DEF IInv, TypeOK, Optional, Removed, Shifts, bounds
<1>5. \A i \in DOMAIN queue' : queue'[i].pc = "ready" /\ queue'[i].slot <= slots
  <2>1. \A i \in DOMAIN queue' :
          \/ i + 1 \in DOMAIN queue /\ i + 1 # 1 /\ queue'[i] = queue[i + 1]
          \/ IsRequest(queue'[i])
    BY <1>2 DEF Shifts
  <2> QED
    BY <2>1 DEF IInv, TypeOK, QueueInv, IsRequest
<1> QED
  BY <1>3, <1>4, <1>5, RemoveKeeps DEF Removed

LEMMA ReconcileMissingKeeps ==
  ASSUME IInv, ReconcileMissing, UNCHANGED <<cwd, server, bounds>>
  PROVE  IInv'
<1>1. /\ queue # <<>> /\ 1 \in DOMAIN queue /\ Head(queue) = queue[1]
      /\ queue[1].kind = "reconcile" /\ queue[1].pc = "ready"
  BY BeginsReady DEF IInv, ReconcileMissing
<1>2. CASE Asked(1, "reconcile")
  <2>1. AwaitStop /\ slot # None
    BY <1>1, <1>2 DEF ReconcileMissing
  <2>2. TypeOK'
    BY <1>1, <2>1, AwaitEffects DEF IInv, TypeOK, ReconcileMissing, Marks, bounds, registry
  <2> QED
    BY <1>1, <1>2, <2>1, <2>2, AwaitKeeps DEF ReconcileMissing, registry
<1>3. CASE ~Asked(1, "reconcile")
  <2>1. Shifts /\ handle' = handle
    BY <1>1, <1>3, PassOnShifts DEF IInv, ReconcileMissing
  <2>2. TypeOK'
    BY <2>1 DEF IInv, TypeOK, ReconcileMissing, Shifts, bounds, registry
  <2>3. slot # None \/ ~(registered /\ desired = "running" /\ server = "up")
    BY <1>1 DEF IInv, WishInv
  <2>4. desired' = "stopped" \/ desired' = "running"
    BY <2>2 DEF TypeOK
  <2> QED
    BY <1>1, <1>3, <2>1, <2>2, <2>3, <2>4, ShiftKeeps DEF ReconcileMissing, registry
<1> QED
  BY <1>2, <1>3

(* A start or a retry spawns on the handle it finds.                       *)
LEMMA SpawnKeeps ==
  ASSUME IInv, TypeOK', Pops, SpawnAgain, slot # None, slot' # None, slot'.no = slot.no,
         slot'.desired = "running", desired' = "running", ~slot'.blocked,
         queue[1].pc = "ready", queue[1].kind # "fail_stop",
         \/ slot'.attempt = slot.attempt
         \/ Asked(1, "retry"),
         retries' \subseteq retries,
         UNCHANGED <<registered, slots, server>>
  PROVE  IInv'
<1>1. /\ handle'.process # "absent" /\ ChildInv'
      /\ handle.child # 0 => UNCHANGED <<handle, procs>>
      /\ handle.child = 0 => Live' # {} /\ ~Broken' /\ ~handle'.stopping
  BY SpawnAgainEffects
<1>2. KeptSlot /\ Shifts
  BY DEF KeptSlot, Pops, Shifts
<1>3. /\ \A kind \in Bound : Queued(kind)' => Queued(kind)
      /\ \A kind : Queued(kind) => Queued(kind)' \/ Asked(1, kind)
      /\ ~At("stopping")' /\ ~At("stopped")' /\ \A kinds : ~Given(kinds)'
  BY <1>2, ShiftEffects
<1>4. \A i \in DOMAIN queue' :
              /\ queue'[i].pc = "ready" /\ queue'[i].slot <= slots
              /\ server \in {"closing", "down"} => queue'[i].kind = "retry"
              /\ \A kind \in Bound : Asked(i, kind)' =>
                   i + 1 \in DOMAIN queue /\ i + 1 # 1 /\ Asked(i + 1, kind)
  BY <1>2, ShiftEffects
<1>5. ~At("stopping") /\ ~Leaving /\ (handle.child # 0 => Live' = Live /\ Broken' = Broken)
  BY <1>1 DEF Live
<1>6. SlotInv'
  BY <1>1, <1>5 DEF IInv, SlotInv
<1>7. QueueInv'
  BY <1>3, <1>4 DEF QueueInv
<1>8. WishInv'
  BY DEF IInv, WishInv
<1>9. FailInv'
  <2>1. \A i \in DOMAIN queue' : Asked(i, "fail_stop")' => Broken' /\ handle'.runtime = "failed"
    <3>1. \A i \in DOMAIN queue' : Asked(i, "fail_stop")' => Broken
      BY <1>4, <1>5 DEF IInv, FailInv, Bound
    <3>2. Broken => Broken' /\ handle'.runtime = "failed"
      BY <1>1, <1>5 DEF IInv, ChildInv
    <3> QED
      BY <3>1, <3>2
  <2>2. server = "up" => Broken' \/ (Live' # {} /\ ~handle'.stopping)
    <3>1. handle.child # 0 /\ server = "up" => Broken \/ (Live # {} /\ ~handle.stopping)
      BY <1>5, LiveIsChild DEF IInv, SlotInv
    <3> QED
      BY <1>1, <1>5, <3>1
  <2>3. server = "up" /\ Broken' => Queued("fail_stop")'
    <3>1. server = "up" /\ Broken => Queued("fail_stop")
      BY <1>5 DEF IInv, FailInv
    <3> QED
      BY <1>1, <1>3, <1>5, <3>1
  <2> QED
    BY <2>1, <2>2, <2>3 DEF FailInv
<1>10. AttemptInv'
  <2> SUFFICES ASSUME server = "up"
               PROVE  AttemptInv'
    BY DEF AttemptInv
  <2>1. \A i \in DOMAIN queue : Asked(i, "retry") =>
          /\ slot.attempt < RetryBudget
          /\ \A j \in DOMAIN queue : Asked(j, "retry") => i = j
    BY <1>5 DEF IInv, AttemptInv
  <2>2. slot.no \in retries => (slot.attempt < RetryBudget /\ ~Queued("retry")) \/ Broken
    BY <1>5 DEF IInv, AttemptInv
  <2>3. Broken => Broken'
    BY <1>5
  <2>4. 1 \in DOMAIN queue
    BY DEF Pops
  <2>5. CASE Asked(1, "retry")
    <3>1. ~Queued("retry")'
      BY <1>4, <2>1, <2>4, <2>5 DEF Bound
    <3> QED
      BY <2>2, <2>3, <2>4, <2>5, <3>1 DEF AttemptInv
  <2>6. CASE slot'.attempt = slot.attempt
    <3>1. ASSUME NEW i \in DOMAIN queue', Asked(i, "retry")'
          PROVE  /\ slot.attempt < RetryBudget
                 /\ \A j \in DOMAIN queue' : Asked(j, "retry")' => i = j
      <4>1. i \in Nat /\ \A j \in DOMAIN queue' : j \in Nat
        BY DEF Pops
      <4>2. i + 1 \in DOMAIN queue /\ Asked(i + 1, "retry")
        BY <1>4, <3>1 DEF Bound
      <4>3. \A j \in DOMAIN queue' : Asked(j, "retry")' =>
              j + 1 \in DOMAIN queue /\ Asked(j + 1, "retry")
        BY <1>4 DEF Bound
      <4>4. /\ slot.attempt < RetryBudget
            /\ \A j \in DOMAIN queue : Asked(j, "retry") => i + 1 = j
        BY <2>1, <4>2
      <4> QED
        BY <4>1, <4>3, <4>4
    <3> QED
      BY <1>3, <2>2, <2>3, <2>6, <3>1 DEF AttemptInv, Bound
  <2> QED
    BY <2>5, <2>6
<1> QED
  BY <1>1, <1>6, <1>7, <1>8, <1>9, <1>10 DEF IInv

LEMMA RetryKeeps ==
  ASSUME IInv, Retry, UNCHANGED <<cwd, server, bounds>>
  PROVE  IInv'
<1>1. /\ queue # <<>> /\ 1 \in DOMAIN queue /\ Head(queue) = queue[1]
      /\ queue[1].kind = "retry" /\ queue[1].pc = "ready"
  BY BeginsReady DEF IInv, Retry
<1>2. Pops
  BY <1>1, FinishPops DEF IInv, Retry
<1>3. CASE Asked(1, "retry") /\ server = "up" /\ ~slot.blocked /\ slot.desired = "running"
  <2>1. /\ SpawnAgain /\ slot' = [slot EXCEPT !.attempt = @ + 1]
        /\ slot # None /\ slot \in ChildSlot
    BY <1>1, <1>3 DEF IInv, TypeOK, Optional, Retry
  <2>2. slot.attempt < RetryBudget
    BY <1>1, <1>3 DEF IInv, AttemptInv
  <2>3. /\ slot' \in ChildSlot /\ slot'.no = slot.no /\ slot'.desired = "running"
        /\ ~slot'.blocked
    BY <1>3, <2>1, <2>2, SupervisorAssumption DEF ChildSlot
  <2>4. desired' = "running"
    BY <1>3, <2>1 DEF IInv, TypeOK, WishInv, Retry, registry
  <2>5. TypeOK'
    BY <1>2, <2>1, <2>3, SpawnAgainEffects
    DEF IInv, TypeOK, Optional, Retry, Pops, bounds, registry
  <2> QED
    BY <1>1, <1>2, <1>3, <2>1, <2>3, <2>4, <2>5, SpawnKeeps, NoneAssumption DEF Retry, registry
<1>4. CASE ~(Asked(1, "retry") /\ server = "up" /\ ~slot.blocked /\ slot.desired = "running")
  <2>1. UNCHANGED <<slot, handle, procs>>
    BY <1>1, <1>4 DEF Retry
  <2>2. TypeOK'
    BY <1>2, <2>1 DEF IInv, TypeOK, Retry, Pops, bounds, registry
  <2>3. slot # None \/ ~(registered /\ desired = "running" /\ server = "up")
    BY <1>1 DEF IInv, WishInv
  <2>4. desired' = "stopped" \/ desired' = "running"
    BY <2>2 DEF TypeOK
  <2> QED
    BY <1>1, <1>2, <1>4, <2>1, <2>2, <2>3, <2>4, PopKeeps DEF Retry, registry
<1> QED
  BY <1>3, <1>4

LEMMA StartAgainKeeps ==
  ASSUME IInv, StartAgain, UNCHANGED <<cwd, server, bounds>>
  PROVE  IInv'
<1>1. queue # <<>> /\ 1 \in DOMAIN queue /\ queue[1].kind = "start" /\ queue[1].pc = "ready"
  BY BeginsReady DEF IInv, StartAgain
<1>2. slot # None /\ slot \in ChildSlot /\ slot' = Unblocked(slot)
  BY DEF IInv, TypeOK, Optional, StartAgain
<1>3. handle.process = "exited"
  <2>1. handle.process \in {"spawning", "running", "exited"}
    BY <1>2 DEF IInv, TypeOK, SlotInv, Handle
  <2>2. slot.blocked => Live = {}
    BY <1>1, <1>2 DEF IInv, WishInv
  <2>3. handle.process \in {"spawning", "running"} => slot.blocked
    BY DEF StartAgain
  <2> QED
    BY <2>1, <2>2, <2>3, LiveIsChild
<1>4. SpawnAgain /\ Finish
  BY <1>3 DEF StartAgain
<1>5. Pops
  BY <1>1, <1>4, FinishPops DEF IInv
<1>6. /\ slot' \in ChildSlot /\ slot'.no = slot.no /\ slot'.desired = "running"
      /\ ~slot'.blocked /\ slot'.attempt = slot.attempt
  BY <1>2 DEF Unblocked, ChildSlot
<1>7. TypeOK'
  BY <1>2, <1>4, <1>5, <1>6, SpawnAgainEffects
  DEF IInv, TypeOK, Optional, StartAgain, Pops, bounds
<1> QED
  BY <1>1, <1>2, <1>4, <1>5, <1>6, <1>7, SpawnKeeps, NoneAssumption DEF StartAgain

(* Nothing is running when an operation runs to its end or to its wait.    *)
LEMMA RunOperationKeeps ==
  ASSUME IInv, RunOperation
  PROVE  IInv'
<1>1. ~StartStopped
  <2>1. ASSUME StartStopped
        PROVE  1 \in DOMAIN queue /\ queue[1].kind = "start" /\ queue[1].pc = "stopped"
    BY <2>1, ResumesStopped DEF IInv, StartStopped
  <2> QED
    BY <2>1 DEF IInv, QueueInv
<1> QED
  BY <1>1, StartIgnoredKeeps, StartNewKeeps, StartAgainKeeps, StopKeeps, StoppedKeeps,
     RestartKeeps, RestartedKeeps, UnregisterKeeps, RemovedKeeps, FailStopKeeps, RetryKeeps,
     ReconcileMissingKeeps
  DEF RunOperation

-----------------------------------------------------------------------------
(* What the processes report.                                              *)

LEMMA ScheduledFacts ==
  ASSUME NEW s \in ChildSlot, retries \in SUBSET Nat
  PROVE  /\ Scheduled(s).slot \in ChildSlot
         /\ Scheduled(s).slot.no = s.no /\ Scheduled(s).slot.desired = s.desired
         /\ Scheduled(s).slot.attempt = s.attempt /\ Scheduled(s).slot.blocked = s.blocked
         /\ retries \subseteq Scheduled(s).retries
         /\ Scheduled(s).retries \subseteq retries \cup {s.no}
         /\ s.no \in Scheduled(s).retries => s.no \in retries \/ s.attempt < RetryBudget
         /\ s.desired = "running" =>
              \/ s.no \in Scheduled(s).retries \/ s.blocked
              \/ Scheduled(s).slot.error = "retry_exhausted"
<1>1. CASE s.no \in retries \/ s.blocked \/ s.desired # "running"
  BY <1>1 DEF Scheduled
<1>2. CASE ~(s.no \in retries \/ s.blocked \/ s.desired # "running") /\ s.attempt >= RetryBudget
  <2>1. /\ Scheduled(s).slot = [s EXCEPT !.error = "retry_exhausted"]
        /\ Scheduled(s).retries = retries
    BY <1>2 DEF Scheduled
  <2> QED
    BY <1>2, <2>1 DEF ChildSlot
<1>3. CASE ~(s.no \in retries \/ s.blocked \/ s.desired # "running") /\ ~(s.attempt >= RetryBudget)
  <2>1. Scheduled(s).slot = s /\ Scheduled(s).retries = retries \cup {s.no}
    BY <1>3 DEF Scheduled
  <2> QED
    BY <1>3, <2>1, SupervisorAssumption DEF ChildSlot
<1> QED
  BY <1>1, <1>2, <1>3

(* A failure the slot still cares about.                                   *)
Handles == slot # None /\ server = "up" /\ slot.desired # "stopped"

LEMMA FailEffects ==
  ASSUME IInv, NEW retryable \in BOOLEAN, OnRuntimeFailed(retryable)
  PROVE  /\ ~Handles => UNCHANGED <<slot, queue, retries, stability>>
         /\ Handles =>
              /\ slot' \in ChildSlot /\ slot' # None
              /\ slot'.no = slot.no /\ slot'.desired = "running" /\ slot.desired = "running"
              /\ slot'.attempt = slot.attempt
              /\ retries' \subseteq retries \cup {slot.no}
              /\ slot.no \in retries' => slot.no \in retries \/ slot.attempt < RetryBudget
              /\ \/ slot.no \in retries' \/ slot'.blocked
                 \/ slot'.error = "retry_exhausted"
              /\ Grows(Op("fail_stop", slot.no, None))
              /\ slot.no \in Nat /\ stability' \in {stability, 0}
<1>1. CASE ~Handles
  BY <1>1 DEF OnRuntimeFailed, Handles
<1>2. CASE Handles
  <2> DEFINE failed == [slot EXCEPT !.error = "failure"]
  <2>1. slot \in ChildSlot /\ slot.desired = "running" /\ slot.no \in Nat
    BY <1>2 DEF IInv, TypeOK, Optional, Handles, ChildSlot
  <2>2. /\ failed \in ChildSlot /\ failed.no = slot.no /\ failed.desired = "running"
        /\ failed.attempt = slot.attempt /\ failed.blocked = slot.blocked
    BY <2>1 DEF ChildSlot
  <2>3. /\ queue' = Append(queue, Op("fail_stop", slot.no, None))
        /\ retryable => slot' = Scheduled(failed).slot /\ retries' = Scheduled(failed).retries
                        /\ stability' = stability
        /\ ~retryable => slot' = [failed EXCEPT !.blocked = TRUE] /\ stability' = 0
                         /\ retries' = retries \ {slot.no}
    BY <1>2 DEF OnRuntimeFailed, Handles
  <2>4. Grows(Op("fail_stop", slot.no, None))
    BY <2>1, <2>3, OpTyped, AppendGrows DEF IInv, Optional
  <2> HIDE DEF failed
  <2>5. CASE retryable
    <3>1. retries \in SUBSET Nat
      BY DEF IInv, TypeOK
    <3> QED
      BY <1>2, <2>1, <2>2, <2>3, <2>4, <2>5, <3>1, ScheduledFacts, NoneAssumption
  <2>6. CASE ~retryable
    <3>1. /\ slot' \in ChildSlot /\ slot'.no = failed.no /\ slot'.desired = failed.desired
          /\ slot'.attempt = failed.attempt /\ slot'.blocked
      BY <2>2, <2>3, <2>6 DEF ChildSlot
    <3> QED
      BY <1>2, <2>1, <2>2, <2>3, <2>4, <2>6, <3>1, NoneAssumption
  <2> QED
    BY <2>5, <2>6
<1> QED
  BY <1>1, <1>2

LEMMA IgnoredFailureKeeps ==
  ASSUME IInv, TypeOK', ChildInv', ~Handles,
         handle'.child = handle.child, handle'.stopping = handle.stopping,
         handle'.runtime = "failed",
         handle'.process = "absent" => handle.process = "absent",
         Broken => Broken', Live' \subseteq Live,
         Broken' => Broken \/ Live # {},
         UNCHANGED <<slot, queue, retries, registered, desired, slots, server>>
  PROVE  IInv'
<1>1. SlotInv'
  BY DEF IInv, SlotInv
<1>2. QueueInv'
  BY DEF IInv, QueueInv
<1>3. WishInv'
  BY DEF IInv, WishInv
<1>4. FailInv'
  <2>1. server = "up" /\ slot # None /\ Broken' => At("stopping") \/ Queued("fail_stop")
    BY DEF IInv, FailInv, WishInv, TypeOK, Handles, Optional, ChildSlot
  <2> QED
    BY <2>1 DEF IInv, FailInv, Handles
<1>5. AttemptInv'
  BY DEF IInv, AttemptInv
<1> QED
  BY <1>1, <1>2, <1>3, <1>4, <1>5 DEF IInv

(* queue' is the queue and a fail_stop of the current slot.                *)
LEMMA FailGrowth ==
  ASSUME IInv, slot # None, slot' # None, slot'.no = slot.no, slot.no \in Nat,
         Grows(Op("fail_stop", slot.no, None))
  PROVE  /\ \A i \in DOMAIN queue : i \in DOMAIN queue' /\ queue'[i] = queue[i]
         /\ \A i \in DOMAIN queue' :
              \/ i \in DOMAIN queue
              \/ /\ queue'[i].pc = "ready" /\ queue'[i].slot = slot.no
                 /\ queue'[i].kind = "fail_stop"
                 /\ i # 1 <=> 1 \in DOMAIN queue
         /\ Queued("fail_stop")'
         /\ 1 \in DOMAIN queue' /\ (1 \notin DOMAIN queue => Asked(1, "fail_stop")')
         /\ \A kind : kind # "fail_stop" => (Queued(kind)' <=> Queued(kind))
<1> DEFINE op == Op("fail_stop", slot.no, None)
<1>1. op.kind = "fail_stop" /\ op.slot = slot.no /\ op.pc = "ready"
  BY DEF Op
<1>2. /\ \A i \in DOMAIN queue : i \in DOMAIN queue' /\ queue'[i] = queue[i]
      /\ \E n \in DOMAIN queue' :
           /\ n \in Nat /\ n # 0 /\ n \notin DOMAIN queue /\ queue'[n] = op
           /\ \A i \in DOMAIN queue' : i \in DOMAIN queue \/ i = n
           /\ queue = <<>> <=> n = 1
  BY DEF Grows
<1> HIDE DEF op
<1>3. PICK n \in DOMAIN queue' :
           /\ n \in Nat /\ n # 0 /\ n \notin DOMAIN queue /\ queue'[n] = op
           /\ \A i \in DOMAIN queue' : i \in DOMAIN queue \/ i = n
           /\ queue = <<>> <=> n = 1
  BY <1>2
<1>4. queue # <<>> <=> 1 \in DOMAIN queue
  BY HeadIsFirst DEF IInv
<1>5. Asked(n, "fail_stop")' /\ queue'[n].pc = "ready"
  BY <1>1, <1>3
<1>6. \A i \in DOMAIN queue : \A kind : Asked(i, kind)' <=> Asked(i, kind)
  BY <1>2
<1>7. ASSUME NEW kind, kind # "fail_stop"
      PROVE  Queued(kind)' <=> Queued(kind)
  <2>1. ASSUME Queued(kind)'
        PROVE  Queued(kind)
    <3>1. PICK i \in DOMAIN queue' : Asked(i, kind)'
      BY <2>1
    <3>2. i # n
      BY <1>5, <1>7, <3>1
    <3> QED
      BY <1>3, <1>6, <3>1, <3>2
  <2>2. ASSUME Queued(kind)
        PROVE  Queued(kind)'
    BY <1>2, <1>6, <2>2
  <2> QED
    BY <2>1, <2>2
<1>8. 1 \in DOMAIN queue' /\ (1 \notin DOMAIN queue => Asked(1, "fail_stop")')
  BY <1>2, <1>3, <1>4, <1>5
<1>9. \A i \in DOMAIN queue' :
        \/ i \in DOMAIN queue
        \/ /\ queue'[i].pc = "ready" /\ queue'[i].slot = slot.no
           /\ queue'[i].kind = "fail_stop"
           /\ i # 1 <=> 1 \in DOMAIN queue
  BY <1>1, <1>3, <1>4
<1> QED
  BY <1>2, <1>3, <1>5, <1>7, <1>8, <1>9

LEMMA HandledFailureKeeps ==
  ASSUME IInv, TypeOK', ChildInv', Handles, NEW retryable \in BOOLEAN,
         OnRuntimeFailed(retryable),
         handle.runtime # "failed", handle'.runtime = "failed",
         handle'.child = handle.child, handle'.stopping = handle.stopping,
         handle'.process = "absent" => handle.process = "absent",
         Broken => Broken', Live' \subseteq Live,
         Broken' \/ queue = <<>> \/ At("stopping"),
         Broken' => Live' = {},
         UNCHANGED <<registered, desired, slots, server>>
  PROVE  IInv'
<1>1. /\ slot' # None /\ slot # None
      /\ slot'.no = slot.no /\ slot'.desired = "running" /\ slot.desired = "running"
      /\ slot'.attempt = slot.attempt
      /\ retries' \subseteq retries \cup {slot.no}
      /\ slot.no \in retries' => slot.no \in retries \/ slot.attempt < RetryBudget
      /\ \/ slot.no \in retries' \/ slot'.blocked
         \/ slot'.error = "retry_exhausted"
      /\ Grows(Op("fail_stop", slot.no, None))
      /\ slot.no \in Nat /\ server = "up"
  BY FailEffects DEF Handles
<1>2. /\ \A i \in DOMAIN queue : i \in DOMAIN queue' /\ queue'[i] = queue[i]
      /\ \A i \in DOMAIN queue' :
              \/ i \in DOMAIN queue
              \/ /\ queue'[i].pc = "ready" /\ queue'[i].slot = slot.no
                 /\ queue'[i].kind = "fail_stop"
                 /\ i # 1 <=> 1 \in DOMAIN queue
      /\ Queued("fail_stop")'
      /\ 1 \in DOMAIN queue' /\ (1 \notin DOMAIN queue => Asked(1, "fail_stop")')
      /\ \A kind : kind # "fail_stop" => (Queued(kind)' <=> Queued(kind))
  BY <1>1, FailGrowth
<1>3. /\ At("stopping")' <=> At("stopping")
      /\ At("stopped")' <=> At("stopped")
      /\ \A kinds : Given(kinds)' <=> Given(kinds)
  BY <1>2
<1>4. Broken' \/ 1 \notin DOMAIN queue \/ Leaving
  <2>1. queue = <<>> => 1 \notin DOMAIN queue
    BY HeadIsFirst DEF IInv
  <2>2. At("stopping") => Leaving
    <3>1. At("stopping") => queue[1].kind # "stop"
      BY <1>1 DEF IInv, QueueInv
    <3>2. At("stopping") => queue[1].kind # "fail_stop" \/ Leaving
      BY <1>1 DEF IInv, QueueInv, FailInv
    <3>3. At("stopping") => queue[1].kind \notin {"start", "retry"} /\ queue[1] \in Operation
      BY HeadIsFirst DEF IInv, QueueInv
    <3> QED
      BY <3>1, <3>2, <3>3 DEF Operation, Kinds
  <2> QED
    BY <2>1, <2>2
<1>5. SlotInv'
  BY <1>1, <1>3 DEF IInv, SlotInv
<1>6. QueueInv'
  BY <1>1, <1>2, <1>3 DEF IInv, SlotInv, QueueInv
<1>7. WishInv'
  <2>1. Live' # {} => At("stopping")' \/ Asked(1, "fail_stop")'
    BY <1>2, <1>3, HeadIsFirst DEF IInv
  <2> QED
    BY <1>1, <1>2, <1>3, <2>1 DEF IInv, WishInv
<1>8. Accounted'
  BY <1>1
<1>9. FailInv'
  <2>1. \A i \in DOMAIN queue' : Asked(i, "fail_stop")' => i = 1 \/ Leaving' \/ Broken'
    BY <1>1, <1>2, <1>3, <1>4 DEF IInv, FailInv
  <2> QED
    BY <1>2, <1>8, <2>1 DEF FailInv
<1>10. AttemptInv'
  <2>1. \A i \in DOMAIN queue' : Asked(i, "retry")' => i \in DOMAIN queue /\ Asked(i, "retry")
    BY <1>1, <1>2
  <2>2. ASSUME NEW i \in DOMAIN queue', Asked(i, "retry")'
        PROVE  \/ /\ slot'.attempt < RetryBudget
                  /\ \A j \in DOMAIN queue' : Asked(j, "retry")' => i = j
               \/ Leaving' \/ (Broken' /\ At("stopping")')
    BY <1>1, <1>3, <2>1, <2>2 DEF IInv, AttemptInv
  <2>3. slot.no \in retries' =>
          (slot.attempt < RetryBudget /\ ~Queued("retry")') \/ Leaving' \/ Broken'
    <3>1. 1 \notin DOMAIN queue => ~Queued("retry")
      BY HeadIsFirst DEF IInv
    <3> QED
      BY <1>1, <1>2, <1>3, <1>4, <3>1 DEF IInv, AttemptInv
  <2> QED
    BY <1>1, <2>2, <2>3 DEF AttemptInv
<1> QED
  BY <1>5, <1>6, <1>7, <1>9, <1>10 DEF IInv

(* A step that only the handle, a timer or the bounds notice.              *)
LEMMA HandleKeeps ==
  ASSUME IInv, TypeOK', ChildInv',
         handle'.child = handle.child, handle'.stopping = handle.stopping,
         handle.runtime = "failed" => handle'.runtime = "failed",
         handle'.process = "absent" => handle.process = "absent",
         Broken' = Broken, Live' = Live,
         UNCHANGED <<registered, desired, slot, queue, retries, slots, server>>
  PROVE  IInv'
<1>1. SlotInv' /\ QueueInv' /\ WishInv'
  BY DEF IInv, SlotInv, QueueInv, WishInv
<1>2. FailInv' /\ AttemptInv'
  BY DEF IInv, FailInv, AttemptInv
<1> QED
  BY <1>1, <1>2 DEF IInv

(* What a line or the readiness timer can do to a handle.                  *)
Advances(h, new) ==
  /\ new \in Handle
  /\ new.child = h.child /\ new.stopping = h.stopping
  /\ new.process = h.process
       \/ (new.process = "running" /\ h.child # 0 /\ h.runtime # "failed")
  /\ h.runtime = "failed" => new.runtime = "failed"

LEMMA FailAdvances ==
  ASSUME NEW h \in Handle, NEW retryable
  PROVE  Advances(h, FailRuntime(h, retryable))
<1>1. CASE h.runtime = "failed"
  BY <1>1 DEF FailRuntime, Advances
<1>2. CASE h.runtime # "failed"
  <2> DEFINE s == IF retryable THEN "crashed" ELSE "blocked"
  <2>1. FailRuntime(h, retryable) =
          [h EXCEPT !.runtime = "failed", !.probe = FALSE, !.state = s]
    BY <1>2 DEF FailRuntime
  <2>2. s \in {"crashed", "blocked"}
    OBVIOUS
  <2> HIDE DEF s
  <2> QED
    BY <1>2, <2>1, <2>2 DEF Advances, Handle
<1> QED
  BY <1>1, <1>2

LEMMA MarkAdvances ==
  ASSUME NEW h \in Handle
  PROVE  Advances(h, MaybeMarkReady(h))
  BY DEF MaybeMarkReady, Complete, Advances, Handle

LEMMA HeardAdvances ==
  ASSUME NEW h \in Handle, NEW r, NEW line \in Lines
  PROVE  Advances(h, Heard(h, r, line))
<1>1. CASE line = "rpc_ok"
  <2> DEFINE g == [h EXCEPT !.rpcReady = TRUE]
  <2>1. g \in Handle /\ g.child = h.child /\ g.stopping = h.stopping
        /\ g.process = h.process /\ g.runtime = h.runtime
    BY DEF Handle
  <2>2. Heard(h, r, line) = MaybeMarkReady(g)
    BY <1>1 DEF Heard
  <2> HIDE DEF g
  <2> QED
    BY <2>1, <2>2, MarkAdvances DEF Advances
<1>2. CASE line = "ext_ready"
  <2> DEFINE g == [h EXCEPT !.extensionReady = TRUE]
  <2>1. g \in Handle /\ g.child = h.child /\ g.stopping = h.stopping
        /\ g.process = h.process /\ g.runtime = h.runtime
    BY DEF Handle
  <2>2. \/ Heard(h, r, line) = h \/ Heard(h, r, line) = FailRuntime(h, FALSE)
        \/ Heard(h, r, line) = MaybeMarkReady(g)
    BY <1>2 DEF Heard, AcceptExtensionReady
  <2> HIDE DEF g
  <2>3. Advances(h, MaybeMarkReady(g))
    BY <2>1, MarkAdvances DEF Advances
  <2>4. Advances(h, h)
    BY DEF Advances
  <2> QED
    BY <2>2, <2>3, <2>4, FailAdvances
<1>3. CASE line \in {"rpc_rejected", "failed_retryable"}
  BY <1>3, FailAdvances DEF Heard
<1>4. CASE line = "failed_fatal"
  BY <1>4, FailAdvances DEF Heard
<1> QED
  BY <1>1, <1>2, <1>3, <1>4 DEF Lines

(* Between two callbacks, whatever the handle hears leaves its child.      *)
LEMMA AdvanceKeepsChild ==
  ASSUME IInv, ~Busy, Advances(handle, handle'), UNCHANGED <<procs, slots>>
  PROVE  /\ ChildInv' /\ Live' = Live /\ Broken' = Broken
         /\ Live' \subseteq Live /\ (Broken' => Live' = {})
         /\ handle'.process = "absent" => handle.process = "absent"
<1>1. handle'.child = handle.child /\ Live' = Live /\ Broken' = Broken
  BY DEF Advances, Live
<1>2. \A r \in DOMAIN procs : procs[r].status # "launching"
  BY DEF Busy
<1>3. handle.child # 0 =>
        /\ procs[handle.child].status = "up" => handle'.process = "running"
        /\ procs[handle.child].status = "failed" =>
             handle'.process = "exited" /\ handle'.runtime = "failed"
  BY <1>1 DEF IInv, ChildInv, Advances
<1>4. handle.child = 0 => handle'.process = handle.process
  BY DEF Advances
<1>5. ChildInv'
  BY <1>1, <1>2, <1>3, <1>4 DEF IInv, ChildInv
<1>6. handle'.process = "absent" => handle.process = "absent"
  BY DEF Advances
<1> QED
  BY <1>1, <1>5, <1>6, LiveIsChild

(* A line or the readiness timer: the handle advances, and a failure or a  *)
(* runtime that is ready now is passed to the supervisor.                  *)
LEMMA HearKeeps ==
  ASSUME IInv, ~Busy, Advances(handle, handle'),
         IF EmitsFailure(handle, handle') THEN OnRuntimeFailed(Retryable(handle'))
         ELSE OnRuntimeReady \/ UNCHANGED <<slot, queue, retries, stability>>,
         faults' \in 0..MaxFaults,
         UNCHANGED <<registry, cwd, slots, procs, server, requests, moves>>
  PROVE  IInv'
<1>1. /\ ChildInv' /\ Live' = Live /\ Broken' = Broken
      /\ Live' \subseteq Live /\ (Broken' => Live' = {})
      /\ handle'.process = "absent" => handle.process = "absent"
  BY AdvanceKeepsChild
<1>2. /\ handle'.child = handle.child /\ handle'.stopping = handle.stopping
      /\ handle' \in Handle
      /\ handle.runtime = "failed" => handle'.runtime = "failed"
  BY DEF Advances
<1>3. UNCHANGED <<registered, desired, slots, server>>
  BY DEF registry
<1>4. CASE EmitsFailure(handle, handle')
  <2>1. OnRuntimeFailed(Retryable(handle')) /\ Retryable(handle') \in BOOLEAN
        /\ handle.runtime # "failed" /\ handle'.runtime = "failed"
    BY <1>4 DEF EmitsFailure, Retryable
  <2>2. CASE Handles
    <3>1. slot' \in ChildSlot /\ stability' \in {stability, 0} /\ queue' \in Seq(Operation)
          /\ retries' \subseteq retries \cup {slot.no} /\ slot.no \in Nat
      BY <2>1, <2>2, FailEffects DEF Grows
    <3>2. TypeOK'
      BY <1>2, <3>1 DEF IInv, TypeOK, Optional, registry
    <3>3. queue = <<>> \/ At("stopping")
      BY HeadIsFirst DEF IInv, Busy
    <3> QED
      BY <1>1, <1>2, <1>3, <2>1, <2>2, <3>2, <3>3, HandledFailureKeeps
  <2>3. CASE ~Handles
    <3>1. UNCHANGED <<slot, queue, retries, stability>>
      BY <2>1, <2>3, FailEffects
    <3>2. TypeOK'
      BY <1>2, <3>1 DEF IInv, TypeOK, registry
    <3> QED
      BY <1>1, <1>2, <1>3, <2>1, <2>3, <3>1, <3>2, IgnoredFailureKeeps
  <2> QED
    BY <2>2, <2>3
<1>5. CASE ~EmitsFailure(handle, handle')
  <2>1. UNCHANGED <<slot, queue, retries>> /\ stability' \in {stability, handle.child}
    BY <1>5 DEF OnRuntimeReady
  <2>2. TypeOK'
    BY <1>2, <2>1 DEF IInv, TypeOK, registry, Handle
  <2> QED
    BY <1>1, <1>2, <1>3, <2>1, <2>2, HandleKeeps
<1> QED
  BY <1>4, <1>5

LEMMA SayKeeps ==
  ASSUME IInv, NEW r \in DOMAIN procs, NEW line \in Lines, Say(r, line)
  PROVE  IInv'
<1>1. handle' = Heard(handle, r, line) /\ handle \in Handle
  BY DEF IInv, TypeOK, Say
<1>2. Advances(handle, handle')
  BY <1>1, HeardAdvances
<1>3. faults' \in 0..MaxFaults
  BY SupervisorAssumption DEF IInv, TypeOK, Say, Lines
<1> QED
  BY <1>1, <1>2, <1>3, HearKeeps DEF Say

LEMMA TimeOutReadinessKeeps ==
  ASSUME IInv, TimeOutReadiness
  PROVE  IInv'
<1>1. handle' = ReadinessTimedOut(handle) /\ handle \in Handle
  BY DEF IInv, TypeOK, TimeOutReadiness
<1>2. Advances(handle, handle')
  BY <1>1, FailAdvances DEF ReadinessTimedOut
<1>3. faults' \in 0..MaxFaults
  BY SupervisorAssumption DEF IInv, TypeOK, TimeOutReadiness
<1> QED
  BY <1>1, <1>2, <1>3, HearKeeps DEF TimeOutReadiness

(* Node reports what became of a spawn.                                    *)
LEMMA ReportSpawnKeeps ==
  ASSUME IInv, NEW r \in DOMAIN procs, ReportSpawn(r)
  PROVE  IInv'
<1>1. /\ procs[r].status = "launching" /\ handle.child = r /\ r # 0
      /\ procs[r].slot = slots /\ handle.process = "spawning" /\ handle.runtime = "pending"
      /\ procs \in Seq(Process) /\ handle \in Handle /\ Live # {} /\ ~Broken
  <2>1. procs \in Seq(Process) /\ handle \in Handle /\ r # 0
    BY Indices DEF IInv, TypeOK
  <2>2. procs[r].status = "launching" /\ r \in Live /\ handle.child = r
    BY DEF ReportSpawn, Live, IInv, ChildInv
  <2> QED
    BY <2>1, <2>2 DEF IInv, ChildInv
<1>2. UNCHANGED <<registered, desired, slots, server>>
  BY DEF ReportSpawn, registry
<1>3. ASSUME NEW status \in {"up", "failed"}, procs' = [procs EXCEPT ![r].status = status]
      PROVE  /\ procs' \in Seq(Process) /\ DOMAIN procs' = DOMAIN procs
             /\ procs'[r].slot = slots /\ procs'[r].status = status
             /\ \A i \in DOMAIN procs : i # r => procs'[i] = procs[i]
  <2> DEFINE e == [procs[r] EXCEPT !.status = status]
  <2>1. procs[r] \in Process
    BY <1>1, Indices
  <2>2. e \in Process /\ e.slot = slots /\ e.status = status
    BY <1>1, <2>1 DEF Process
  <2>3. procs' = [procs EXCEPT ![r] = e]
    BY <1>3
  <2> HIDE DEF e
  <2> QED
    BY <1>1, <2>2, <2>3, Excepted
<1>4. CASE procs' = [procs EXCEPT ![r].status = "up"]
  <2>1. /\ handle' = [handle EXCEPT !.process = "running"]
        /\ UNCHANGED <<slot, queue, retries, stability>>
    BY <1>1, <1>4, <1>3 DEF ReportSpawn, Started
  <2>2. /\ handle' \in Handle /\ handle'.child = r /\ handle'.process = "running"
        /\ handle'.runtime = handle.runtime /\ handle'.stopping = handle.stopping
    BY <1>1, <2>1 DEF Handle
  <2>3. Live' = Live
    BY <1>1, <1>3, <1>4 DEF Live
  <2>4. ChildInv' /\ Broken' = Broken
    <3>1. \A i \in Live : i = r
      BY <1>1 DEF IInv, ChildInv
    <3>2. r \in DOMAIN procs' /\ procs'[r].status = "up" /\ procs'[r].slot = slots'
      BY <1>2, <1>3, <1>4
    <3> QED
      BY <1>1, <2>2, <2>3, <3>1, <3>2 DEF ChildInv
  <2>5. TypeOK'
    BY <1>3, <1>4, <2>1, <2>2 DEF IInv, TypeOK, ReportSpawn, registry, bounds
  <2> QED
    BY <1>1, <1>2, <2>1, <2>2, <2>3, <2>4, <2>5, HandleKeeps
<1>5. CASE procs' = [procs EXCEPT ![r].status = "failed"]
  <2>1. /\ handle' = SpawnFailed(handle)
        /\ EmitsFailure(handle, SpawnFailed(handle)) => OnRuntimeFailed(TRUE)
    BY <1>1, <1>3, <1>5 DEF ReportSpawn
  <2>2. handle' = [handle EXCEPT !.runtime = "failed", !.probe = FALSE,
                                 !.state = "crashed", !.process = "exited"]
    BY <1>1, <2>1 DEF SpawnFailed, FailRuntime, Handle
  <2>3. /\ handle' \in Handle /\ handle'.child = r /\ handle'.process = "exited"
        /\ handle'.runtime = "failed" /\ handle'.stopping = handle.stopping
    BY <1>1, <2>2 DEF Handle
  <2>4. OnRuntimeFailed(TRUE)
    BY <1>1, <2>1, <2>3 DEF EmitsFailure
  <2>5. Live' = {} /\ Broken'
    <3>1. \A i \in DOMAIN procs : i # r => procs[i].status \notin {"launching", "up"}
      BY <1>1 DEF IInv, ChildInv, Live
    <3>2. \A i \in DOMAIN procs' : procs'[i].status \notin {"launching", "up"}
      BY <1>3, <1>5, <3>1
    <3> QED
      BY <1>1, <1>3, <1>5, <2>3, <3>2 DEF Live
  <2>6. ChildInv'
    BY <1>1, <1>2, <1>3, <1>5, <2>3, <2>5 DEF ChildInv
  <2>7. CASE Handles
    <3>1. slot' \in ChildSlot /\ stability' \in {stability, 0} /\ queue' \in Seq(Operation)
          /\ retries' \subseteq retries \cup {slot.no} /\ slot.no \in Nat
      BY <2>4, <2>7, FailEffects DEF Grows
    <3>2. TypeOK'
      BY <1>3, <1>5, <2>3, <3>1 DEF IInv, TypeOK, Optional, ReportSpawn, registry, bounds
    <3> QED
      BY <1>1, <1>2, <2>3, <2>4, <2>5, <2>6, <2>7, <3>2, HandledFailureKeeps
  <2>8. CASE ~Handles
    <3>1. UNCHANGED <<slot, queue, retries, stability>>
      BY <2>4, <2>8, FailEffects
    <3>2. TypeOK'
      BY <1>3, <1>5, <2>3, <3>1 DEF IInv, TypeOK, ReportSpawn, registry, bounds
    <3> QED
      BY <1>1, <1>2, <2>3, <2>5, <2>6, <2>8, <3>1, <3>2, IgnoredFailureKeeps
  <2> QED
    BY <2>7, <2>8
<1> QED
  BY <1>4, <1>5 DEF ReportSpawn

LEMMA ExitEffects ==
  ASSUME IInv, NEW isCrash \in BOOLEAN, OnChildExit(isCrash)
  PROVE  /\ slot = None => slot' = None /\ retries' = retries
         /\ slot # None =>
              /\ slot' \in ChildSlot /\ slot' # None
              /\ slot'.no = slot.no /\ slot'.desired = slot.desired
              /\ slot'.attempt = slot.attempt /\ slot'.blocked = slot.blocked
              /\ retries' \subseteq retries \cup {slot.no}
              /\ slot.no \in retries' =>
                   \/ slot.no \in retries
                   \/ slot.attempt < RetryBudget /\ slot.desired = "running"
              /\ ~isCrash => slot' = slot /\ retries' = retries
              /\ isCrash /\ Wanted =>
                   slot.no \in retries' \/ slot'.blocked \/ slot'.error = "retry_exhausted"
              /\ slot.no \in Nat
         /\ stability' \in {stability, 0}
<1>1. slot # None => slot \in ChildSlot /\ slot.no \in Nat /\ slot.desired \in {"running", "stopped"}
  BY DEF IInv, TypeOK, Optional, ChildSlot
<1>2. CASE slot = None \/ server # "up" \/ slot.desired = "stopped" \/ slot.blocked
  BY <1>1, <1>2 DEF OnChildExit
<1>3. CASE ~(slot = None \/ server # "up" \/ slot.desired = "stopped" \/ slot.blocked)
  <2> DEFINE exited == [slot EXCEPT !.error = IF @ = None THEN "exited" ELSE @]
  <2>1. /\ stability' = 0
        /\ isCrash => slot' = Scheduled(exited).slot /\ retries' = Scheduled(exited).retries
        /\ ~isCrash => slot' = slot /\ retries' = retries
    BY <1>3 DEF OnChildExit
  <2>2. /\ exited \in ChildSlot /\ exited.no = slot.no /\ exited.desired = slot.desired
        /\ exited.attempt = slot.attempt /\ exited.blocked = slot.blocked
    BY <1>1, <1>3 DEF ChildSlot
  <2>3. retries \in SUBSET Nat
    BY DEF IInv, TypeOK
  <2> HIDE DEF exited
  <2>4. CASE isCrash
    BY <1>1, <1>3, <2>1, <2>2, <2>3, <2>4, ScheduledFacts, NoneAssumption
  <2>5. CASE ~isCrash
    BY <1>1, <1>3, <2>1, <2>5
  <2> QED
    BY <2>4, <2>5
<1> QED
  BY <1>2, <1>3

LEMMA ReportExitKeeps ==
  ASSUME IInv, NEW r \in DOMAIN procs, ReportExit(r), faults' \in 0..MaxFaults
  PROVE  IInv'
<1>1. /\ procs[r].status = "up" /\ handle.child = r /\ r # 0 /\ ~Broken /\ Live # {}
      /\ procs \in Seq(Process) /\ handle \in Handle
  <2>1. procs \in Seq(Process) /\ handle \in Handle /\ r # 0
    BY Indices DEF IInv, TypeOK
  <2>2. procs[r].status = "up" /\ r \in Live
    BY DEF ReportExit, Live
  <2> QED
    BY <2>1, <2>2 DEF IInv, ChildInv
<1>2. /\ handle' = Exited(handle) /\ OnChildExit(~handle.stopping) /\ queue' = Resumed
      /\ procs' = [procs EXCEPT ![r].status = "gone"] /\ ~Busy
      /\ UNCHANGED <<registered, desired, cwd, slots, server, requests, moves>>
  BY <1>1 DEF ReportExit, registry
<1>3. /\ procs' \in Seq(Process) /\ Live' = {}
  <2> DEFINE e == [procs[r] EXCEPT !.status = "gone"]
  <2>1. procs[r] \in Process
    BY <1>1, Indices
  <2>2. e \in Process /\ e.status = "gone"
    BY <2>1 DEF Process
  <2>3. procs' = [procs EXCEPT ![r] = e]
    BY <1>2
  <2> HIDE DEF e
  <2>4. /\ procs' \in Seq(Process) /\ DOMAIN procs' = DOMAIN procs /\ procs'[r] = e
        /\ \A i \in DOMAIN procs : i # r => procs'[i] = procs[i]
    BY <1>1, <2>2, <2>3, Excepted
  <2>5. \A i \in DOMAIN procs : i # r => procs[i].status \notin {"launching", "up"}
    BY <1>1 DEF IInv, ChildInv, Live
  <2>6. \A i \in DOMAIN procs' : procs'[i].status \notin {"launching", "up"}
    BY <2>2, <2>4, <2>5
  <2> QED
    BY <2>4, <2>6 DEF Live
<1>4. /\ handle' \in Handle /\ handle'.child = 0 /\ handle'.process = "exited"
      /\ handle.runtime = "failed" => handle'.runtime = "failed"
  BY <1>1, <1>2 DEF Exited, Handle
<1>5. /\ slot = None => slot' = None /\ retries' = retries
      /\ slot # None =>
              /\ slot' \in ChildSlot /\ slot' # None
              /\ slot'.no = slot.no /\ slot'.desired = slot.desired
              /\ slot'.attempt = slot.attempt /\ slot'.blocked = slot.blocked
              /\ retries' \subseteq retries \cup {slot.no}
              /\ slot.no \in retries' =>
                   \/ slot.no \in retries
                   \/ slot.attempt < RetryBudget /\ slot.desired = "running"
              /\ handle.stopping => slot' = slot /\ retries' = retries
              /\ ~handle.stopping /\ Wanted =>
                   slot.no \in retries' \/ slot'.blocked \/ slot'.error = "retry_exhausted"
              /\ slot.no \in Nat
      /\ stability' \in {stability, 0}
  <2>1. (~handle.stopping) \in BOOLEAN
    BY <1>1 DEF Handle
  <2> QED
    BY <1>2, <2>1, ExitEffects
<1>6. ChildInv' /\ ~Broken'
  BY <1>3, <1>4 DEF ChildInv
<1>7. retries' \in SUBSET Nat
  BY <1>5 DEF IInv, TypeOK
<1>8. CASE queue = <<>>
  <2>1. queue' = queue /\ DOMAIN queue = {}
    BY <1>2, <1>8, Indices DEF Resumed, IInv, TypeOK
  <2>2. TypeOK'
    BY <1>2, <1>3, <1>4, <1>5, <1>7, <2>1 DEF IInv, TypeOK, Optional
  <2>3. SlotInv'
    BY <1>2, <1>3, <1>4, <1>5 DEF IInv, SlotInv
  <2>4. QueueInv'
    BY <2>1 DEF QueueInv
  <2>5. WishInv'
    BY <1>2, <1>3, <1>5, <2>1 DEF IInv, WishInv
  <2>6. FailInv'
    <3>1. Wanted' => ~handle.stopping /\ Wanted
      BY <1>1, <1>2, <1>5, <2>1 DEF IInv, SlotInv
    <3> QED
      BY <1>5, <1>6, <2>1, <3>1 DEF FailInv
  <2>7. AttemptInv'
    BY <1>1, <1>2, <1>5, <2>1 DEF IInv, AttemptInv
  <2> QED
    BY <1>6, <2>2, <2>3, <2>4, <2>5, <2>6, <2>7 DEF IInv
<1>9. CASE queue # <<>>
  <2>1. At("stopping") /\ Head(queue) = queue[1]
    BY <1>2, <1>9, HeadIsFirst DEF IInv, Busy
  <2>2. queue' = [queue EXCEPT ![1].pc = "stopped"]
    BY <1>2, <1>9, <2>1 DEF Resumed
  <2>3. Marks("stopped")
    BY <1>9, <2>2, ExceptMarks DEF IInv
  <2>4. /\ queue' \in Seq(Operation) /\ DOMAIN queue' = DOMAIN queue
        /\ queue'[1].kind = queue[1].kind /\ queue'[1].slot = queue[1].slot
        /\ queue'[1].pc = "stopped"
        /\ \A i \in DOMAIN queue : i # 1 => queue'[i] = queue[i]
        /\ \A i \in DOMAIN queue :
             queue'[i].kind = queue[i].kind /\ queue'[i].slot = queue[i].slot
    BY <2>3 DEF Marks
  <2>5. handle.stopping /\ slot # None /\ slot' = slot /\ retries' = retries
    BY <1>5, <2>1 DEF IInv, QueueInv
  <2>6. /\ \A kind : Queued(kind)' <=> Queued(kind)
        /\ \A kinds : Given(kinds)' <=> Given(kinds)
    BY <2>1, <2>4, <2>5
  <2>7. TypeOK'
    BY <1>2, <1>3, <1>4, <1>5, <1>7, <2>4 DEF IInv, TypeOK, Optional
  <2>8. SlotInv'
    BY <1>2, <1>3, <1>4, <2>5 DEF IInv, SlotInv
  <2>9. QueueInv'
    BY <1>2, <1>3, <1>4, <2>1, <2>4, <2>5, <2>6 DEF IInv, QueueInv
  <2>10. WishInv'
    BY <1>2, <1>3, <2>5, <2>6 DEF IInv, WishInv
  <2>11. FailInv'
    <3>1. \A i \in DOMAIN queue : Asked(i, "fail_stop")' <=> Asked(i, "fail_stop")
      BY <2>4, <2>5
    <3>2. Wanted => Accounted \/ Leaving
      BY <1>1, <2>5 DEF IInv, FailInv
    <3>3. Accounted' <=> Accounted
      BY <2>5, <2>6
    <3>4. (Leaving' <=> Leaving) /\ Wanted' = Wanted
      BY <1>2, <2>5, <2>6
    <3> HIDE DEF Wanted, Accounted, Leaving, Queued, Asked, Broken
    <3> QED
      BY <1>1, <1>4, <1>6, <2>4, <2>5, <2>6, <3>1, <3>2, <3>3, <3>4 DEF IInv, FailInv
  <2>12. AttemptInv'
    <3>1. \A i \in DOMAIN queue : Asked(i, "retry")' <=> Asked(i, "retry")
      BY <2>4, <2>5
    <3>2. Leaving' <=> Leaving
      BY <2>6
    <3> HIDE DEF Leaving, Queued, Asked, Broken
    <3> QED
      BY <1>1, <1>2, <2>4, <2>5, <2>6, <3>1, <3>2 DEF IInv, AttemptInv
  <2> QED
    BY <1>6, <2>7, <2>8, <2>9, <2>10, <2>11, <2>12 DEF IInv
<1> QED
  BY <1>8, <1>9

-----------------------------------------------------------------------------
(* Timers, requests and shutdown.                                          *)

(* Between two callbacks the running operation, if any, awaits an exit.    *)
LEMMA Idle ==
  ASSUME IInv, ~Busy
  PROVE  /\ \/ queue = <<>> /\ 1 \notin DOMAIN queue
            \/ At("stopping") /\ slot # None /\ handle.child # 0
         /\ ~At("stopped")
         /\ ~(registered /\ desired = "running" /\ slot = None /\ server = "up")
<1>1. queue = <<>> \/ At("stopping")
  BY HeadIsFirst DEF IInv, Busy
<1>2. queue = <<>> <=> 1 \notin DOMAIN queue
  BY HeadIsFirst DEF IInv
<1>3. At("stopping") => slot # None /\ handle.child # 0
  BY DEF IInv, QueueInv
<1>4. ~At("stopped")
  BY <1>1, <1>2
<1>5. registered /\ desired = "running" /\ slot = None /\ server = "up" => 1 \in DOMAIN queue
  BY DEF IInv, WishInv
<1> HIDE DEF At
<1> QED
  BY <1>1, <1>2, <1>3, <1>4, <1>5

LEMMA FireRetryKeeps ==
  ASSUME IInv, NEW no \in retries, FireRetry(no)
  PROVE  IInv'
<1>1. /\ no \in Nat /\ no <= slots /\ retries' = retries \ {no} /\ ~Busy
      /\ queue' = Append(queue, Op("retry", no, None))
      /\ UNCHANGED <<registered, desired, slot, handle, slots, procs, server>>
  BY DEF IInv, TypeOK, SlotInv, FireRetry, registry
<1> DEFINE op == Op("retry", no, None)
<1>2. op \in Operation /\ op.kind = "retry" /\ op.slot = no /\ op.pc = "ready"
  BY <1>1, OpTyped DEF Optional, Op
<1> HIDE DEF op
<1>3. Grows(op)
  BY <1>1, <1>2, AppendGrows DEF IInv, op
<1>4. PICK n \in DOMAIN queue' :
        /\ n \in Nat /\ n # 0 /\ n \notin DOMAIN queue /\ queue'[n] = op
        /\ \A i \in DOMAIN queue' : i \in DOMAIN queue \/ i = n
        /\ queue = <<>> <=> n = 1
  BY <1>3 DEF Grows
<1>5. \A i \in DOMAIN queue : i \in DOMAIN queue' /\ queue'[i] = queue[i]
  BY <1>3 DEF Grows
<1>6. /\ 1 \in DOMAIN queue => At("stopping")
      /\ queue = <<>> <=> 1 \notin DOMAIN queue
      /\ ~At("stopped")
      /\ ~(registered /\ desired = "running" /\ slot = None /\ server = "up")
  BY <1>1, Idle
<1>7. /\ \A i \in DOMAIN queue : \A kind : Asked(i, kind)' <=> Asked(i, kind)
      /\ \A kind : kind # "retry" => (Queued(kind)' <=> Queued(kind))
      /\ Queued("retry") => Queued("retry")'
      /\ slot # None /\ slot.no = no => Queued("retry")'
      /\ slot # None /\ slot.no # no => (Queued("retry")' <=> Queued("retry"))
  BY <1>1, <1>2, <1>4, <1>5
<1>8. /\ \A pc : pc # "ready" => (At(pc)' <=> At(pc))
      /\ \A kinds : Given(kinds)' <=> Given(kinds)
      /\ 1 \in DOMAIN queue => queue'[1] = queue[1]
  BY <1>2, <1>4, <1>5, <1>6
<1>9. TypeOK'
  BY <1>1, <1>3 DEF IInv, TypeOK, FireRetry, Grows, registry, bounds
<1>10. Live' = Live /\ ChildInv'
  BY <1>1 DEF IInv, ChildInv, Live
<1>11. SlotInv'
  BY <1>1, <1>8, <1>10 DEF IInv, SlotInv
<1>12. QueueInv'
  BY <1>1, <1>2, <1>4, <1>5, <1>8, <1>10 DEF IInv, QueueInv
<1>13. WishInv'
  BY <1>1, <1>2, <1>4, <1>6, <1>7, <1>8, <1>10 DEF IInv, WishInv
<1>14. FailInv'
  <2>1. \A i \in DOMAIN queue' : Asked(i, "fail_stop")' => i \in DOMAIN queue /\ Asked(i, "fail_stop")
    BY <1>2, <1>4, <1>7
  <2>2. Wanted /\ Accounted => Accounted'
    BY <1>1, <1>7
  <2>3. Wanted' = Wanted /\ Broken' = Broken /\ (Leaving' <=> Leaving)
    BY <1>1, <1>8
  <2>4. "fail_stop" # "retry" /\ "stopping" # "ready"
    OBVIOUS
  <2> HIDE DEF Accounted, Wanted, Broken, Leaving, At, Queued, Asked
  <2> QED
    BY <1>1, <1>7, <1>8, <1>10, <2>1, <2>2, <2>3, <2>4 DEF IInv, FailInv
<1>15. AttemptInv'
  <2> SUFFICES ASSUME server = "up", slot # None
               PROVE  AttemptInv'
    BY <1>1 DEF AttemptInv
  <2>1. CASE slot.no = no
    <3>1. \/ slot.attempt < RetryBudget /\ ~Queued("retry")
          \/ Leaving \/ (Broken /\ At("stopping"))
      <4>1. Broken => 1 \in DOMAIN queue
        BY HeadIsFirst DEF IInv, FailInv
      <4> QED
        BY <1>6, <2>1, <4>1 DEF IInv, AttemptInv
    <3>2. CASE Leaving \/ (Broken /\ At("stopping"))
      BY <1>1, <1>8, <3>2 DEF AttemptInv
    <3>3. CASE slot.attempt < RetryBudget /\ ~Queued("retry")
      <4>1. \A i \in DOMAIN queue' : Asked(i, "retry")' => i = n
        <5>1. \A i \in DOMAIN queue : ~Asked(i, "retry")'
          BY <1>7, <3>3
        <5> QED
          BY <1>4, <5>1
      <4> QED
        BY <1>1, <2>1, <3>3, <4>1 DEF AttemptInv
    <3> QED
      BY <3>1, <3>2, <3>3
  <2>2. CASE slot.no # no
    <3>1. \A i \in DOMAIN queue' : Asked(i, "retry")' => i \in DOMAIN queue /\ Asked(i, "retry")
      BY <1>1, <1>2, <1>4, <1>7, <2>2
    <3>2. ASSUME NEW i \in DOMAIN queue', Asked(i, "retry")'
          PROVE  \/ /\ slot'.attempt < RetryBudget
                    /\ \A j \in DOMAIN queue' : Asked(j, "retry")' => i = j
                 \/ Leaving' \/ (Broken' /\ At("stopping")')
      BY <1>1, <1>8, <3>1, <3>2 DEF IInv, AttemptInv
    <3>3. slot.no \in retries' =>
            (slot.attempt < RetryBudget /\ ~Queued("retry")') \/ Leaving' \/ Broken'
      BY <1>1, <1>7, <1>8, <2>2 DEF IInv, AttemptInv
    <3> QED
      BY <1>1, <3>2, <3>3 DEF AttemptInv
  <2> QED
    BY <2>1, <2>2
<1> QED
  BY <1>9, <1>10, <1>11, <1>12, <1>13, <1>14, <1>15 DEF IInv

(* A reconciliation adds at most one operation, a request or the stop of   *)
(* the current slot, and may count what it saw on the slot.                *)
LEMMA AdmitKeeps ==
  ASSUME IInv, TypeOK', ~Busy, server = "up", KeptSlot,
         slot # None =>
           /\ slot'.desired = slot.desired /\ slot'.blocked = slot.blocked
           /\ slot'.error = slot.error /\ slot'.attempt = slot.attempt,
         \A i \in DOMAIN queue : i \in DOMAIN queue' /\ queue'[i] = queue[i],
         \A i \in DOMAIN queue' :
           \/ i \in DOMAIN queue
           \/ /\ queue'[i].pc = "ready" /\ queue'[i].slot <= slots
              /\ queue'[i].kind \notin {"fail_stop", "retry"},
         retries' \subseteq retries,
         slot # None /\ slot.no \in retries => slot.no \in retries' \/ Queued("reconcile")',
         registered' = registered \/ (slot = None /\ ~registered'),
         UNCHANGED <<desired, handle, slots, procs, server>>
  PROVE  IInv'
<1>1. /\ 1 \in DOMAIN queue => At("stopping")
      /\ ~At("stopped")
      /\ ~(registered /\ desired = "running" /\ slot = None /\ server = "up")
      /\ slot # None <=> slot' # None
      /\ slot # None => slot'.no = slot.no
  BY Idle DEF KeptSlot
<1>2. /\ \A pc : pc # "ready" => (At(pc)' <=> At(pc))
      /\ \A kinds : Given(kinds)' <=> Given(kinds)
      /\ 1 \in DOMAIN queue => queue'[1] = queue[1] /\ 1 \in DOMAIN queue'
  BY <1>1
<1>3. /\ \A i \in DOMAIN queue : \A kind : Asked(i, kind)' <=> Asked(i, kind)
      /\ \A i \in DOMAIN queue' : \A kind \in {"fail_stop", "retry"} :
           Asked(i, kind)' => i \in DOMAIN queue /\ Asked(i, kind)
  BY <1>1
<1>4. /\ Queued("fail_stop")' <=> Queued("fail_stop")
      /\ Queued("retry")' <=> Queued("retry")
      /\ Queued("reconcile") => Queued("reconcile")'
  BY <1>3
<1>5. Live' = Live /\ ChildInv' /\ Broken' = Broken
  BY DEF IInv, ChildInv, Live
<1>6. SlotInv'
  BY <1>1, <1>2, <1>5 DEF IInv, SlotInv
<1>7. QueueInv'
  <2>1. \A i \in DOMAIN queue' :
          /\ i # 1 => queue'[i].pc = "ready"
          /\ queue'[i].kind \in {"start", "retry"} => queue'[i].pc = "ready"
          /\ queue'[i].slot <= slots
    BY DEF IInv, QueueInv
  <2>2. /\ Given({"stop"}) => slot # None /\ slot'.desired = "stopped" /\ desired = "stopped"
        /\ Given({"restart"}) => registered' /\ desired = "running"
        /\ Given({"fail_stop", "reconcile"}) => Current(queue[1].slot)
        /\ At("stopping") => slot # None /\ handle.child # 0 /\ handle.stopping
    BY <1>1 DEF IInv, QueueInv
  <2> QED
    BY <1>1, <1>2, <1>5, <2>1, <2>2 DEF QueueInv
<1>8. WishInv'
  <2>1. registered' /\ desired = "running" /\ slot' = None /\ server = "up" => FALSE
    BY <1>1
  <2>2. slot # None /\ slot.blocked /\ Live # {} => At("stopping")
    BY <1>1 DEF IInv, WishInv
  <2>3. /\ ~registered' => slot' = None
        /\ slot # None /\ desired = "stopped" => slot'.desired = "stopped"
        /\ slot # None /\ desired = "running" => slot'.desired = "running" \/ Given({"restart"})
        /\ slot # None /\ slot'.desired = "stopped" /\ Live # {} =>
             At("stopping") /\ queue[1].kind = "stop"
        /\ slot # None /\ slot'.desired = "stopped" => slot.no \notin retries
    BY <1>1 DEF IInv, WishInv
  <2> QED
    BY <1>1, <1>2, <1>5, <2>1, <2>2, <2>3 DEF WishInv
<1>9. FailInv'
  <2>1. Wanted /\ Accounted => Accounted'
    BY <1>1, <1>4
  <2>2. Wanted' <=> Wanted
    BY <1>1
  <2>3. \A i \in DOMAIN queue' : Asked(i, "fail_stop")' => i \in DOMAIN queue /\ Asked(i, "fail_stop")
    BY <1>3
  <2>4. (Leaving' <=> Leaving) /\ (At("stopping")' <=> At("stopping"))
    BY <1>2
  <2> HIDE DEF Accounted, Wanted, Broken, Leaving, At, Queued, Asked
  <2> QED
    BY <1>1, <1>4, <1>5, <2>1, <2>2, <2>3, <2>4 DEF IInv, FailInv
<1>10. AttemptInv'
  <2>1. \A i \in DOMAIN queue' : Asked(i, "retry")' => i \in DOMAIN queue /\ Asked(i, "retry")
    BY <1>3
  <2>2. (Leaving' <=> Leaving) /\ (At("stopping")' <=> At("stopping"))
    BY <1>2
  <2> HIDE DEF Broken, Leaving, At, Queued, Asked
  <2> QED
    BY <1>1, <1>4, <1>5, <2>1, <2>2 DEF IInv, AttemptInv
<1> QED
  BY <1>5, <1>6, <1>7, <1>8, <1>9, <1>10 DEF IInv

(* Where Reconcile's branches meet.                                        *)
LEMMA ReconcileCases ==
  ASSUME IInv, NEW kind, Reconcile(kind)
  PROVE  \/ /\ \E present \in BOOLEAN : queue' = Admitted(queue, kind, present)
            /\ retries' = retries
            /\ \/ UNCHANGED <<registered, slot>>
               \/ slot = None /\ slot' = None /\ registered' = FALSE
               \/ /\ slot # None /\ UNCHANGED registered
                  /\ \E n \in 0..Confirmations : slot' = [slot EXCEPT !.missing = n]
         \/ /\ slot # None /\ UNCHANGED registered
            /\ retries' = retries \ {slot.no}
            /\ queue' = Append(queue, Op("reconcile", slot.no, kind))
            /\ \E n \in 0..Confirmations :
                 slot' = [slot EXCEPT !.missing = n, !.reconciling = TRUE]
<1>1. registered \in BOOLEAN /\ 0 \in 0..Confirmations
  BY SupervisorAssumption DEF IInv, TypeOK
<1>2. CASE Reconciling \/ ~registered
  BY <1>1, <1>2 DEF Reconcile
<1>3. CASE ~Reconciling /\ registered /\ cwd
  BY <1>1, <1>3 DEF Reconcile
<1>4. CASE ~Reconciling /\ registered /\ ~cwd /\ slot = None
  BY <1>1, <1>4 DEF Reconcile
<1>5. CASE ~Reconciling /\ registered /\ ~cwd /\ slot # None
  <2> DEFINE seen == IF slot.missing < Confirmations THEN slot.missing + 1 ELSE slot.missing
  <2>1. seen \in 0..Confirmations
    BY <1>5, SupervisorAssumption DEF IInv, TypeOK, Optional, ChildSlot
  <2>2. IF seen < Confirmations \/ slot.reconciling
        THEN /\ slot' = [slot EXCEPT !.missing = seen]
             /\ queue' = Admitted(queue, kind, TRUE)
             /\ UNCHANGED <<registered, retries>>
        ELSE /\ slot' = [slot EXCEPT !.missing = seen, !.reconciling = TRUE]
             /\ retries' = retries \ {slot.no}
             /\ queue' = Append(queue, Op("reconcile", slot.no, kind))
             /\ UNCHANGED registered
    BY <1>5 DEF Reconcile
  <2> HIDE DEF seen
  <2> QED
    BY <1>5, <2>1, <2>2
<1> QED
  BY <1>1, <1>2, <1>3, <1>4, <1>5 DEF IInv, TypeOK

LEMMA ReconcileKeeps ==
  ASSUME IInv, ~Busy, server = "up", NEW kind \in Optional(Kinds), Reconcile(kind),
         requests' \in 0..MaxRequests,
         UNCHANGED <<desired, cwd, handle, slots, procs, stability, server, faults, moves>>
  PROVE  IInv'
<1>1. /\ queue \in Seq(Operation) /\ slots \in Nat
      /\ slot # None => slot \in ChildSlot /\ slot.no = slots /\ slot.no \in Nat
  BY DEF IInv, TypeOK, Optional, SlotInv
<1>2. CASE /\ \E present \in BOOLEAN : queue' = Admitted(queue, kind, present)
           /\ retries' = retries
           /\ \/ UNCHANGED <<registered, slot>>
              \/ slot = None /\ slot' = None /\ registered' = FALSE
              \/ /\ slot # None /\ UNCHANGED registered
                 /\ \E n \in 0..Confirmations : slot' = [slot EXCEPT !.missing = n]
  <2>1. /\ queue' \in Seq(Operation)
        /\ \A i \in DOMAIN queue : i \in DOMAIN queue' /\ queue'[i] = queue[i]
        /\ \A i \in DOMAIN queue' : i \in DOMAIN queue \/ IsRequest(queue'[i])
    BY <1>1, <1>2, AdmitEffects
  <2>2. \A i \in DOMAIN queue' :
          \/ i \in DOMAIN queue
          \/ /\ queue'[i].pc = "ready" /\ queue'[i].slot <= slots
             /\ queue'[i].kind \notin {"fail_stop", "retry"}
    BY <1>1, <2>1 DEF IsRequest, Kinds
  <2>3. /\ KeptSlot /\ slot' \in Optional(ChildSlot)
        /\ slot # None =>
             /\ slot'.desired = slot.desired /\ slot'.blocked = slot.blocked
             /\ slot'.error = slot.error /\ slot'.attempt = slot.attempt
    BY <1>1, <1>2, NoneAssumption DEF KeptSlot, Optional, ChildSlot
  <2>4. registered' = registered \/ (slot = None /\ ~registered')
    BY <1>2
  <2>5. TypeOK'
    BY <1>2, <2>1, <2>3 DEF IInv, TypeOK
  <2> QED
    BY <1>2, <2>1, <2>2, <2>3, <2>4, <2>5, AdmitKeeps
<1>3. CASE /\ slot # None /\ UNCHANGED registered
           /\ retries' = retries \ {slot.no}
           /\ queue' = Append(queue, Op("reconcile", slot.no, kind))
           /\ \E n \in 0..Confirmations :
                slot' = [slot EXCEPT !.missing = n, !.reconciling = TRUE]
  <2> DEFINE op == Op("reconcile", slot.no, kind)
  <2>1. /\ op \in Operation /\ op.pc = "ready" /\ op.slot = slot.no /\ op.kind = "reconcile"
    BY <1>1, <1>3, OpTyped DEF Op
  <2>2. queue' = Append(queue, op)
    BY <1>3
  <2> HIDE DEF op
  <2>3. Grows(op)
    BY <2>1, <2>2, AppendGrows DEF IInv
  <2>4. /\ queue' \in Seq(Operation)
        /\ \A i \in DOMAIN queue : i \in DOMAIN queue' /\ queue'[i] = queue[i]
        /\ \A i \in DOMAIN queue' : i \in DOMAIN queue \/ queue'[i] = op
        /\ \E i \in DOMAIN queue' : queue'[i] = op
    BY <2>3 DEF Grows
  <2>5. \A i \in DOMAIN queue' :
          \/ i \in DOMAIN queue
          \/ /\ queue'[i].pc = "ready" /\ queue'[i].slot <= slots
             /\ queue'[i].kind \notin {"fail_stop", "retry"}
    BY <1>1, <1>3, <2>1, <2>4
  <2>6. /\ KeptSlot /\ slot' \in ChildSlot /\ slot' # None /\ slot'.no = slot.no
        /\ slot'.desired = slot.desired /\ slot'.blocked = slot.blocked
        /\ slot'.error = slot.error /\ slot'.attempt = slot.attempt
    <3>1. PICK n \in 0..Confirmations : slot' = [slot EXCEPT !.missing = n, !.reconciling = TRUE]
      BY <1>3
    <3>2. slot \in ChildSlot
      BY <1>1, <1>3
    <3>3. slot' \in ChildSlot
      BY <3>1, <3>2 DEF ChildSlot
    <3>4. /\ slot'.no = slot.no /\ slot'.desired = slot.desired
          /\ slot'.blocked = slot.blocked /\ slot'.error = slot.error
          /\ slot'.attempt = slot.attempt
      BY <3>1, <3>2 DEF ChildSlot
    <3> QED
      BY <1>3, <3>3, <3>4, NoneAssumption DEF KeptSlot
  <2>7. Queued("reconcile")'
    BY <2>1, <2>4, <2>6
  <2>8. TypeOK'
    BY <1>3, <2>4, <2>6 DEF IInv, TypeOK, Optional
  <2> QED
    BY <1>3, <2>4, <2>5, <2>6, <2>7, <2>8, AdmitKeeps
<1> QED
  BY <1>2, <1>3, ReconcileCases

LEMMA RequestKeeps ==
  ASSUME IInv, NEW kind \in Kinds, Request(kind)
  PROVE  IInv'
<1>1. requests' \in 0..MaxRequests
  BY SupervisorAssumption DEF IInv, TypeOK, Request
<1> QED
  BY <1>1, ReconcileKeeps DEF Request, Optional

LEMMA ReconcileTickKeeps ==
  ASSUME IInv, ReconcileTick
  PROVE  IInv'
  BY ReconcileKeeps DEF ReconcileTick, Optional, bounds, IInv, TypeOK

LEMMA FireStabilityKeeps ==
  ASSUME IInv, FireStability
  PROVE  IInv'
<1>1. /\ slot # None => /\ slot' \in ChildSlot /\ slot' # None /\ slot'.no = slot.no
                        /\ slot'.desired = slot.desired /\ slot'.blocked = slot.blocked
                        /\ slot'.error = slot.error
                        /\ slot'.attempt \in {slot.attempt, 0}
      /\ slot = None => slot' = None
  <2>1. CASE slot' = slot
    BY <2>1 DEF IInv, TypeOK, Optional
  <2>2. CASE slot # None /\ slot' = [slot EXCEPT !.attempt = 0]
    <3>1. slot \in ChildSlot /\ 0 \in 0..RetryBudget
      BY <2>2, SupervisorAssumption DEF IInv, TypeOK, Optional
    <3> QED
      BY <2>2, <3>1, NoneAssumption DEF ChildSlot
  <2> QED
    BY <2>1, <2>2 DEF FireStability
<1>2. TypeOK'
  BY <1>1 DEF IInv, TypeOK, Optional, FireStability, registry, bounds
<1>3. /\ \A kind : Queued(kind)' <=> Queued(kind)
      /\ \A i : \A kind : Asked(i, kind)' <=> Asked(i, kind)
  BY <1>1 DEF FireStability
<1>4. Live' = Live
  BY DEF FireStability, Live
<1>5. ChildInv' /\ SlotInv' /\ QueueInv' /\ WishInv'
  BY <1>1, <1>4 DEF IInv, ChildInv, SlotInv, QueueInv, WishInv, FireStability, registry
<1>6. FailInv'
  BY <1>1, <1>3, <1>4 DEF IInv, FailInv, FireStability
<1>7. AttemptInv'
  <2>1. slot # None /\ slot.attempt < RetryBudget => slot'.attempt < RetryBudget
    BY <1>1, SupervisorAssumption DEF IInv, TypeOK, Optional, ChildSlot
  <2> QED
    BY <1>1, <1>3, <2>1 DEF IInv, AttemptInv, FireStability
<1> QED
  BY <1>2, <1>5, <1>6, <1>7 DEF IInv

LEMMA MoveCwdKeeps ==
  ASSUME IInv, MoveCwd
  PROVE  IInv'
<1>1. TypeOK'
  BY SupervisorAssumption DEF IInv, TypeOK, MoveCwd, registry
<1>2. ChildInv' /\ Live' = Live
  BY DEF IInv, ChildInv, Live, MoveCwd
<1> QED
  BY <1>1, <1>2, HandleKeeps DEF MoveCwd, registry

LEMMA ShutdownKeeps ==
  ASSUME IInv, Shutdown
  PROVE  IInv'
<1>1. /\ server = "up" /\ server' = "draining" /\ ~Busy
      /\ retries' \subseteq retries /\ stability' \in {stability, 0}
      /\ UNCHANGED <<registered, desired, cwd, slot, handle, slots, procs, queue,
                     requests, faults, moves>>
  BY DEF Shutdown, CancelTimers, registry, bounds
<1>2. TypeOK'
  BY <1>1 DEF IInv, TypeOK
<1>3. Live' = Live
  BY <1>1 DEF Live
<1>4. ChildInv' /\ SlotInv' /\ QueueInv' /\ WishInv'
  BY <1>1, <1>3 DEF IInv, ChildInv, SlotInv, QueueInv, WishInv
<1>5. FailInv' /\ AttemptInv'
  BY <1>1 DEF IInv, FailInv, AttemptInv
<1> QED
  BY <1>2, <1>4, <1>5 DEF IInv

LEMMA StopChildKeeps ==
  ASSUME IInv, StopChild
  PROVE  IInv'
<1>1. /\ server = "draining" /\ server' = "closing" /\ DOMAIN queue = {}
      /\ UNCHANGED <<registered, desired, cwd, slot, slots, procs, queue, retries,
                     stability, requests, faults, moves>>
  BY Indices DEF StopChild, IInv, TypeOK, registry, bounds
<1>2. /\ handle' \in Handle /\ handle'.child = handle.child
      /\ handle'.process = handle.process /\ handle'.runtime = handle.runtime
  <2>1. handle \in Handle
    BY DEF IInv, TypeOK
  <2>2. handle' = handle \/ handle' = [handle EXCEPT !.stopping = TRUE]
    BY DEF StopChild, Stopping
  <2> QED
    BY <2>1, <2>2 DEF Handle
<1>3. TypeOK'
  BY <1>1, <1>2 DEF IInv, TypeOK
<1>4. Live' = Live
  BY <1>1 DEF Live
<1>5. ChildInv' /\ SlotInv' /\ QueueInv' /\ WishInv'
  BY <1>1, <1>2, <1>4 DEF IInv, ChildInv, SlotInv, QueueInv, WishInv
<1>6. FailInv' /\ AttemptInv'
  BY <1>1 DEF FailInv, AttemptInv
<1> QED
  BY <1>3, <1>5, <1>6 DEF IInv

LEMMA GoDownKeeps ==
  ASSUME IInv, GoDown
  PROVE  IInv'
<1>1. /\ server = "closing" /\ server' = "down" /\ slot' = None
      /\ slot = None \/ handle.child = 0
      /\ UNCHANGED <<registered, desired, cwd, handle, slots, procs, queue, retries,
                     stability, requests, faults, moves>>
  BY DEF GoDown, registry, bounds
<1>2. TypeOK'
  BY <1>1 DEF IInv, TypeOK, Optional
<1>3. Live = {} /\ Live' = {}
  <2>1. Live = {}
    BY <1>1, LiveIsChild DEF IInv, SlotInv
  <2> QED
    BY <1>1, <2>1 DEF Live
<1>4. ChildInv' /\ SlotInv' /\ WishInv'
  BY <1>1, <1>3 DEF IInv, ChildInv, SlotInv, WishInv
<1>5. QueueInv'
  <2>1. \A i \in DOMAIN queue : queue[i].pc = "ready"
    BY <1>1 DEF IInv, QueueInv
  <2> QED
    BY <1>1, <2>1 DEF IInv, QueueInv
<1>6. FailInv' /\ AttemptInv'
  BY <1>1 DEF FailInv, AttemptInv
<1> QED
  BY <1>2, <1>4, <1>5, <1>6 DEF IInv

-----------------------------------------------------------------------------
(* The theorems.                                                           *)

LEMMA InitInv ==
  ASSUME Init
  PROVE  IInv
<1>1. /\ registered /\ registered \in BOOLEAN /\ cwd \in BOOLEAN
      /\ desired \in {"running", "stopped"}
      /\ retries = {} /\ stability = 0 /\ stability \in Nat /\ server = "up"
      /\ requests \in 0..MaxRequests /\ faults \in 0..MaxFaults /\ moves \in 0..MaxMoves
  BY SupervisorAssumption DEF Init
<1>2. CASE /\ desired = "running"
           /\ slots = 1 /\ slot = NewSlot(1)
           /\ handle = Spawned(NewHandle, 1)
           /\ procs = <<[slot |-> 1, status |-> "launching"]>>
           /\ queue = <<>>
  <2>1. slot \in ChildSlot /\ slot # None /\ slot.no = 1 /\ slot.desired = "running"
        /\ ~slot.blocked
    <3>1. NewSlot(1) \in ChildSlot
      BY SupervisorAssumption DEF NewSlot, ChildSlot
    <3>2. slot # None
      BY <1>2, <3>1, NoneAssumption
    <3> QED
      BY <1>2, <3>1, <3>2 DEF NewSlot
  <2>2. /\ handle \in Handle /\ handle.child = 1 /\ handle.process = "spawning"
        /\ handle.runtime = "pending" /\ ~handle.stopping
    BY <1>2 DEF Spawned, NewHandle, Handle
  <2>3. /\ procs \in Seq(Process) /\ DOMAIN procs = {1}
        /\ procs[1].slot = 1 /\ procs[1].status = "launching"
    BY <1>2 DEF Process
  <2>4. queue \in Seq(Operation) /\ DOMAIN queue = {}
    BY <1>2
  <2>5. TypeOK
    BY <1>1, <1>2, <2>1, <2>2, <2>3, <2>4 DEF TypeOK, Optional
  <2>6. Live = {1}
    BY <2>3 DEF Live
  <2> QED
    BY <1>1, <1>2, <2>1, <2>2, <2>3, <2>4, <2>5, <2>6
    DEF IInv, ChildInv, SlotInv, QueueInv, WishInv, FailInv, AttemptInv
<1>3. CASE /\ slots = 0 /\ slot = None /\ handle = NewHandle /\ procs = <<>>
           /\ queue = IF desired = "running" THEN <<Op("start", 0, None)>> ELSE <<>>
  <2>1. Op("start", 0, None) \in Operation /\ Op("start", 0, None).kind = "start"
        /\ Op("start", 0, None).pc = "ready" /\ Op("start", 0, None).slot = 0
    BY OpTyped DEF Op, Optional, Kinds
  <2> HIDE DEF Op
  <2>2. /\ queue \in Seq(Operation)
        /\ \A i \in DOMAIN queue : i = 1 /\ queue[i] = Op("start", 0, None)
        /\ desired = "running" => 1 \in DOMAIN queue
    BY <1>3, <2>1
  <2>3. /\ handle \in Handle /\ handle.child = 0 /\ handle.process = "absent"
    BY <1>3 DEF NewHandle, Handle
  <2>4. procs \in Seq(Process) /\ Live = {}
    BY <1>3 DEF Live
  <2>5. TypeOK
    BY <1>1, <1>3, <2>2, <2>3, <2>4 DEF TypeOK, Optional
  <2> QED
    BY <1>1, <1>3, <2>1, <2>2, <2>3, <2>4, <2>5
    DEF IInv, ChildInv, SlotInv, QueueInv, WishInv, FailInv, AttemptInv
<1> QED
  BY <1>2, <1>3 DEF Init

LEMMA NextInv ==
  ASSUME IInv, [Next]_vars
  PROVE  IInv'
<1>1. CASE RunOperation
  BY <1>1, RunOperationKeeps
<1>2. ASSUME NEW r \in DOMAIN procs,
             ReportSpawn(r) \/ Crash(r) \/ Die(r) \/ \E line \in Lines : Say(r, line)
      PROVE  IInv'
  <2>1. CASE Crash(r)
    <3>1. faults' \in 0..MaxFaults
      BY <2>1, SupervisorAssumption DEF Crash, IInv, TypeOK
    <3> QED
      BY <2>1, <3>1, ReportExitKeeps DEF Crash
  <2>2. CASE Die(r)
    <3>1. faults' \in 0..MaxFaults
      BY <2>2 DEF Die, IInv, TypeOK
    <3> QED
      BY <2>2, <3>1, ReportExitKeeps DEF Die
  <2> QED
    BY <1>2, <2>1, <2>2, ReportSpawnKeeps, SayKeeps
<1>3. CASE TimeOutReadiness \/ FireStability \/ ReconcileTick \/ MoveCwd
           \/ Shutdown \/ StopChild \/ GoDown
  BY <1>3, TimeOutReadinessKeeps, FireStabilityKeeps, ReconcileTickKeeps, MoveCwdKeeps,
     ShutdownKeeps, StopChildKeeps, GoDownKeeps
<1>4. CASE \E no \in retries : FireRetry(no)
  BY <1>4, FireRetryKeeps
<1>5. CASE \E kind \in Kinds : Request(kind)
  BY <1>5, RequestKeeps
<1>6. CASE UNCHANGED vars
  <2>1. TypeOK'
    BY <1>6 DEF IInv, TypeOK, vars, registry, bounds
  <2>2. ChildInv' /\ Live' = Live
    BY <1>6 DEF IInv, ChildInv, Live, vars, registry, bounds
  <2> QED
    BY <1>6, <2>1, <2>2, HandleKeeps DEF vars, registry, bounds
<1> QED
  BY <1>1, <1>2, <1>3, <1>4, <1>5, <1>6 DEF Next

LEMMA InvHolds == Spec => []IInv
<1>1. Init => IInv
  BY InitInv
<1>2. IInv /\ [Next]_vars => IInv'
  BY NextInv
<1> QED
  BY <1>1, <1>2, PTL DEF Spec

(* The types of the supervisor's state.  With them: a slot is retried no   *)
(* more often than RESTART_BACKOFFS_MS has entries (scheduleRetry and the  *)
(* retry it arms), however failures, exits and requests interleave.        *)
THEOREM SupervisorTypes == Spec => []TypeOK
<1>1. IInv => TypeOK
  BY DEF IInv
<1> QED
  BY <1>1, InvHolds, PTL

(* At most one process of the daemon runs, and the current handle holds it *)
(* (spawn, createSlot and the lifecycle queue).                            *)
THEOREM OneProcessHolds == Spec => []OneProcess
<1>1. IInv => OneProcess
  <2> SUFFICES ASSUME IInv, NEW r \in Live
               PROVE  procs[r].slot = slots /\ handle.child = r
    BY DEF OneProcess
  <2>1. handle.child = r /\ handle.child # 0
    BY LiveIsChild DEF IInv, ChildInv
  <2> QED
    BY <2>1 DEF IInv, ChildInv
<1> QED
  BY <1>1, InvHolds, PTL

(* Nothing brings back a daemon that was stopped, removed, blocked or shut *)
(* down (stop, unregister, onRuntimeFailed, Supervisor.stop).              *)
THEOREM StoppedStaysDownHolds == Spec => []StoppedStaysDown
<1>1. IInv => StoppedStaysDown
  <2> SUFFICES ASSUME IInv, Settled
               PROVE  /\ ~registered \/ desired = "stopped" \/ server = "down" => Live = {}
                      /\ slot # None /\ slot.blocked => Live = {}
                      /\ desired = "stopped" /\ slot # None => slot.no \notin retries
    BY DEF StoppedStaysDown
  <2>1. 1 \notin DOMAIN queue
    BY HeadIsFirst DEF Settled, IInv
  <2> QED
    BY <2>1 DEF IInv, SlotInv, WishInv
<1> QED
  BY <1>1, InvHolds, PTL

(* A daemon that should run runs, waits for its restart timer or says why  *)
(* it does neither (onRuntimeFailed, onChildExit, scheduleRetry and the    *)
(* lifecycle operations).                                                  *)
THEOREM NeverForgottenHolds == Spec => []NeverForgotten
<1>1. IInv => NeverForgotten
  <2> SUFFICES ASSUME IInv, Settled, registered, desired = "running", server = "up"
               PROVE  /\ slot # None
                      /\ \/ Live # {} \/ slot.no \in retries
                         \/ slot.blocked \/ slot.error = "retry_exhausted"
    BY DEF NeverForgotten
  <2>1. DOMAIN queue = {}
    BY Indices DEF Settled, IInv, TypeOK
  <2>2. slot # None /\ slot.desired = "running"
    BY <2>1 DEF IInv, WishInv
  <2>3. ~Broken
    BY <2>1, <2>2 DEF IInv, FailInv
  <2> QED
    BY <2>1, <2>2, <2>3 DEF IInv, FailInv
<1> QED
  BY <1>1, InvHolds, PTL

-----------------------------------------------------------------------------
(* The scheduler.                                                          *)

(* A firing that waits has asked the handle's child, and has written the   *)
(* prompt to no other.                                                     *)
FiringInv ==
  \A f \in firings :
    f.asked # 0 /\ f.asked = handle.child /\ f.sent \in {0, f.asked} /\ f.no <= events

CronInv ==
  IInv /\ CronTypeOK /\ FiringInv /\ ArmedFollowsJobs
  /\ (waiting # None => waiting \in Requests)

-----------------------------------------------------------------------------
(* What a step of the supervisor does to the runtime and to the server.    *)

LEMMA SameOrDown ==
  ASSUME [Next]_vars
  PROVE  \/ server' = server
         \/ server' # "up" /\ handle'.child = handle.child /\ queue' = queue
<1>1. CASE RunOperation
  BY <1>1 DEF RunOperation
<1>2. CASE \E r \in DOMAIN procs :
             ReportSpawn(r) \/ Crash(r) \/ Die(r) \/ \E line \in Lines : Say(r, line)
  BY <1>2 DEF ReportSpawn, Crash, Die, ReportExit, Say
<1>3. CASE TimeOutReadiness \/ FireStability \/ ReconcileTick \/ MoveCwd
  BY <1>3 DEF TimeOutReadiness, FireStability, ReconcileTick, MoveCwd
<1>4. CASE \/ \E no \in retries : FireRetry(no)
           \/ \E kind \in Kinds : Request(kind)
  BY <1>4 DEF FireRetry, Request
<1>5. CASE Shutdown \/ GoDown
  BY <1>5 DEF Shutdown, GoDown
<1>6. CASE StopChild
  BY <1>6 DEF StopChild, Stopping
<1>7. CASE UNCHANGED vars
  BY <1>7 DEF vars
<1> QED
  BY <1>1, <1>2, <1>3, <1>4, <1>5, <1>6, <1>7 DEF Next

(* A runtime is spawned only where the handle has none, and leaves the     *)
(* handle only by its exit.                                                *)
LEMMA RunOperationChild ==
  ASSUME IInv, RunOperation
  PROVE  handle'.child = handle.child \/ handle.child = 0
<1>1. ASSUME handle' = Stopping(handle)
      PROVE  handle'.child = handle.child
  BY <1>1 DEF Stopping
<1>2. ASSUME SpawnAgain
      PROVE  handle'.child = handle.child \/ handle.child = 0
  BY <1>2 DEF SpawnAgain, Spawned
<1>3. CASE StartIgnored \/ Stopped \/ Removed
  BY <1>3 DEF StartIgnored, Stopped, Removed
<1>4. CASE StartNew
  BY <1>4 DEF StartNew, IInv, SlotInv
<1>5. CASE StartAgain \/ StartStopped
  BY <1>1, <1>2, <1>5 DEF StartAgain, StartStopped, AwaitStop
<1>6. CASE Stop \/ Restart \/ Unregister \/ FailStop \/ ReconcileMissing
  BY <1>1, <1>6 DEF Stop, Restart, Unregister, FailStop, ReconcileMissing, AwaitStop
<1>7. CASE Restarted
  <2>1. At("stopped")
    BY <1>7, ResumesStopped DEF Restarted, IInv, At
  <2> QED
    BY <2>1 DEF IInv, QueueInv
<1>8. CASE Retry
  BY <1>2, <1>8 DEF Retry
<1> QED
  BY <1>3, <1>4, <1>5, <1>6, <1>7, <1>8 DEF RunOperation

LEMMA ProcessChild ==
  ASSUME IInv, NEW r \in DOMAIN procs,
         ReportSpawn(r) \/ Crash(r) \/ Die(r) \/ \E line \in Lines : Say(r, line)
  PROVE  handle'.child \in {handle.child, 0}
<1>1. handle \in Handle
  BY DEF IInv, TypeOK
<1>2. CASE ReportSpawn(r)
  <2>1. SpawnFailed(handle).child = handle.child /\ Started(handle, r).child = handle.child
    BY <1>1 DEF SpawnFailed, FailRuntime, Started, Handle
  <2> QED
    BY <1>2, <2>1 DEF ReportSpawn
<1>3. CASE Crash(r) \/ Die(r)
  <2>1. Exited(handle).child = 0
    BY <1>1 DEF Exited, Handle
  <2> QED
    BY <1>3, <2>1 DEF Crash, Die, ReportExit
<1>4. ASSUME NEW line \in Lines, Say(r, line)
      PROVE  handle'.child = handle.child
  BY <1>1, <1>4, HeardAdvances DEF Say, Advances
<1> QED
  BY <1>2, <1>3, <1>4

LEMMA ChildMoves ==
  ASSUME IInv, [Next]_vars
  PROVE  handle'.child \in {handle.child, 0} \/ handle.child = 0
<1>1. CASE RunOperation
  BY <1>1, RunOperationChild
<1>2. CASE \E r \in DOMAIN procs :
             ReportSpawn(r) \/ Crash(r) \/ Die(r) \/ \E line \in Lines : Say(r, line)
  BY <1>2, ProcessChild
<1>3. CASE TimeOutReadiness
  <2>1. handle \in Handle /\ handle' = ReadinessTimedOut(handle)
    BY <1>3 DEF TimeOutReadiness, IInv, TypeOK
  <2> QED
    BY <2>1, FailAdvances DEF ReadinessTimedOut, Advances
<1>4. CASE \/ FireStability \/ ReconcileTick \/ MoveCwd \/ Shutdown \/ GoDown
           \/ \E no \in retries : FireRetry(no)
           \/ \E kind \in Kinds : Request(kind)
  BY <1>4 DEF FireStability, ReconcileTick, MoveCwd, Shutdown, GoDown, FireRetry, Request
<1>5. CASE StopChild
  BY <1>5 DEF StopChild, Stopping
<1>6. CASE UNCHANGED vars
  BY <1>6 DEF vars
<1> QED
  BY <1>1, <1>2, <1>3, <1>4, <1>5, <1>6 DEF Next

(* The exit of the runtime leaves the operations in the queue, so that it  *)
(* is never the end of a reconciliation too.                               *)
LEMMA ExitKeepsQueue ==
  ASSUME IInv, [Next]_vars, handle.child # 0, handle'.child = 0
  PROVE  Reconciling' = Reconciling
<1>1. ~RunOperation
  BY RunOperationChild
<1>2. PICK r \in DOMAIN procs : Crash(r) \/ Die(r)
  <2>1. handle \in Handle
    BY DEF IInv, TypeOK
  <2>2. ~\E r \in DOMAIN procs : ReportSpawn(r) \/ \E line \in Lines : Say(r, line)
    <3>1. SpawnFailed(handle).child = handle.child
          /\ \A r : Started(handle, r).child = handle.child
      BY <2>1 DEF SpawnFailed, FailRuntime, Started, Handle
    <3>2. \A r \in DOMAIN procs : ~ReportSpawn(r)
      BY <3>1 DEF ReportSpawn
    <3>3. ASSUME NEW r \in DOMAIN procs, NEW line \in Lines, Say(r, line)
          PROVE  FALSE
      BY <2>1, <3>3, HeardAdvances DEF Say, Advances
    <3> QED
      BY <3>2, <3>3
  <2>3. ~TimeOutReadiness
    BY <2>1, FailAdvances DEF TimeOutReadiness, ReadinessTimedOut, Advances
  <2>4. /\ ~FireStability /\ ~ReconcileTick /\ ~MoveCwd /\ ~Shutdown /\ ~GoDown
        /\ ~\E no \in retries : FireRetry(no)
        /\ ~\E kind \in Kinds : Request(kind)
    BY DEF FireStability, ReconcileTick, MoveCwd, Shutdown, GoDown, FireRetry, Request
  <2>5. ~StopChild
    <3>1. Stopping(handle).child = handle.child
      BY <2>1 DEF Stopping, Handle
    <3> QED
      BY <3>1 DEF StopChild
  <2>6. handle' # handle
    OBVIOUS
  <2> QED
    BY <1>1, <2>2, <2>3, <2>4, <2>5, <2>6 DEF Next, vars
<1>3. queue' = Resumed \/ queue' = queue
  BY <1>2 DEF Crash, Die, ReportExit
<1>4. CASE queue # <<>> /\ queue' = [queue EXCEPT ![1].pc = "stopped"]
  <2>1. Marks("stopped")
    BY <1>4, ExceptMarks DEF IInv
  <2>2. DOMAIN queue' = DOMAIN queue
        /\ \A i \in DOMAIN queue : queue'[i].kind = queue[i].kind
    BY <2>1 DEF Marks
  <2> QED
    BY <2>2 DEF Reconciling
<1>5. CASE queue' = queue
  BY <1>5 DEF Reconciling
<1> QED
  BY <1>3, <1>4, <1>5 DEF Resumed

-----------------------------------------------------------------------------
(* Results.                                                                *)

LEMMA Results ==
  ASSUME NEW action \in Skips \cup {"send"}
  PROVE  CronResultFor(action) \in CronResult
  BY DEF Skips, CronResult, CronResultFor

(* Recording a result makes no job and enables or disables none.           *)
SameJobs(old, new) ==
  /\ new \in [Jobs -> Optional(CronJob)]
  /\ \A j \in Jobs :
       /\ old[j] = None <=> new[j] = None
       /\ old[j] # None => new[j].enabled = old[j].enabled

LEMMA Recorded ==
  ASSUME NEW js \in [Jobs -> Optional(CronJob)], NEW j \in Optional(Jobs),
         NEW result \in CronResult
  PROVE  SameJobs(js, RecordRun(js, j, result))
<1>1. CASE j = None
  BY <1>1 DEF RecordRun, SameJobs
<1>2. CASE j # None /\ js[j] = None
  BY <1>2 DEF RecordRun, SameJobs
<1>3. CASE j # None /\ js[j] # None
  <2> DEFINE job == [js[j] EXCEPT !.last = result]
  <2>1. j \in Jobs /\ js[j] \in CronJob
    BY <1>3 DEF Optional
  <2>2. job \in CronJob /\ job.enabled = js[j].enabled
    BY <2>1 DEF CronJob, Optional
  <2>3. job # None
    BY <2>2, CronAssumption
  <2>4. RecordRun(js, j, result) = [js EXCEPT ![j] = job]
    BY <1>3 DEF RecordRun
  <2> HIDE DEF job
  <2> QED
    BY <1>3, <2>1, <2>2, <2>3, <2>4 DEF SameJobs, Optional
<1> QED
  BY <1>1, <1>2, <1>3

LEMMA SameEnabled ==
  ASSUME SameJobs(jobs, jobs')
  PROVE  Enabled' = Enabled /\ jobs' \in [Jobs -> Optional(CronJob)]
  BY DEF SameJobs, Enabled


-----------------------------------------------------------------------------
(* The firings.                                                            *)

(* What a firing is when it begins: the runtime it found ready is the      *)
(* handle's child in the state the step leaves.                            *)
Fresh(f) ==
  /\ f \in Firing
  /\ f.sent = 0 /\ f.no = events'
  /\ f.asked \in {0, handle'.child}
  /\ f.plan = "send" => f.asked = handle'.child

LEMMA NewFiringFresh ==
  ASSUME TypeOK', events' \in Nat, NEW j \in Optional(Jobs), NEW request \in BOOLEAN
  PROVE  Fresh(NewFiring(j, request)) /\ NewFiring(j, request).job = j
<1>1. DecideFireAction' \in Skips \cup {"send"}
  BY DEF DecideFireAction, Skips
<1>2. DecideFireAction' = "send" =>
        registered' /\ cwd' /\ slot' # None /\ SlotRuntime' = "ready"
  BY DEF DecideFireAction, Down
<1>3. handle'.child \in Nat /\ (slot' # None => slot'.no \in Nat)
  BY DEF TypeOK, Handle, Optional, ChildSlot
<1> HIDE DEF DecideFireAction, SlotRuntime
<1>4. /\ Captured'.slot \in Nat /\ Captured'.asked \in Nat
      /\ Captured'.asked \in {0, handle'.child}
      /\ Captured'.plan = DecideFireAction'
      /\ DecideFireAction' = "send" => Captured'.asked = handle'.child
  BY <1>2, <1>3 DEF Captured
<1> HIDE DEF Captured
<1> QED
  BY <1>1, <1>4 DEF Fresh, NewFiring, Firing

(* The firing that acts goes, or waits for the runtime it has written to.  *)
LEMMA ActKeeps ==
  ASSUME CronTypeOK, FiringInv, NEW f \in Firing, NEW action \in Skips \cup {"send"},
         NEW others \in SUBSET firings, Act(f, action, others),
         f.no <= events',
         action = "send" => f.asked = handle'.child,
         events' \in Nat, events <= events',
         firings = {} \/ handle'.child = handle.child, handle'.child \in Nat
  PROVE  /\ firings' \subseteq Firing /\ FiringInv'
         /\ SameJobs(jobs, jobs')
<1>1. /\ jobs \in [Jobs -> Optional(CronJob)] /\ events \in Nat /\ firings \subseteq Firing
      /\ f.job \in Optional(Jobs)
  BY CronAssumption DEF CronTypeOK, Firing
<1>2. \A g \in others :
        /\ g \in Firing /\ g.no <= events'
        /\ g.asked # 0 /\ g.asked = handle'.child /\ g.sent \in {0, g.asked}
  BY <1>1 DEF FiringInv, Firing
<1>3. CASE action = "send" /\ Writable(f.slot)
  <2> DEFINE g == [f EXCEPT !.sent = handle'.child]
  <2>1. /\ g \in Firing /\ g.no <= events'
        /\ g.asked # 0 /\ g.asked = handle'.child /\ g.sent = g.asked
    BY <1>3 DEF Firing, Writable
  <2>2. firings' = others \cup {g} /\ jobs' = jobs
    BY <1>3 DEF Act
  <2> HIDE DEF g
  <2> QED
    BY <1>1, <1>2, <2>1, <2>2 DEF FiringInv, SameJobs
<1>4. CASE ~(action = "send" /\ Writable(f.slot))
  <2>1. firings' = others /\ jobs' = RecordRun(jobs, f.job, CronResultFor(action))
    BY <1>4 DEF Act
  <2> QED
    BY <1>1, <1>2, <2>1, Results, Recorded DEF FiringInv
<1> QED
  BY <1>3, <1>4

(* What the steps that fire share: the runtime stays while firings wait.   *)
Steady ==
  /\ TypeOK' /\ events' \in Nat /\ events <= events'
  /\ firings = {} \/ handle'.child = handle.child

(* The jobs stay the ones they were, and the firings are in order.         *)
Fired == firings' \subseteq Firing /\ FiringInv' /\ SameJobs(jobs, jobs')

LEMMA NothingFired ==
  ASSUME CronTypeOK, FiringInv, Steady, UNCHANGED <<jobs, firings>>
  PROVE  Fired
<1>1. events \in Nat /\ \A f \in firings : f.no \in Nat
  BY CronAssumption DEF CronTypeOK, Firing
<1> QED
  BY <1>1 DEF CronTypeOK, FiringInv, Steady, Fired, SameJobs

LEMMA FireKeeps ==
  ASSUME CronTypeOK, FiringInv, Steady, NEW j \in Jobs, NEW manual \in BOOLEAN,
         NEW request \in BOOLEAN, Fire(j, manual, request)
  PROVE  Fired
<1> DEFINE f == NewFiring(j, request)
<1>1. Fresh(f) /\ handle'.child \in Nat /\ j \in Optional(Jobs)
  BY NewFiringFresh DEF Steady, Optional, TypeOK, Handle
<1>2. \/ UNCHANGED <<jobs, firings>>
      \/ jobs' = RecordRun(jobs, j, "skipped_disabled") /\ UNCHANGED firings
      \/ f.asked # 0 /\ firings' = firings \cup {f} /\ UNCHANGED jobs
      \/ Act(f, f.plan, firings)
  BY DEF Fire
<1> HIDE DEF f
<1>3. CASE UNCHANGED <<jobs, firings>>
  BY <1>3, NothingFired
<1>4. CASE jobs' = RecordRun(jobs, j, "skipped_disabled") /\ UNCHANGED firings
  <2>1. SameJobs(jobs, jobs')
    BY <1>1, <1>4, Recorded DEF CronTypeOK, CronResult
  <2>2. events \in Nat /\ \A g \in firings : g.no \in Nat
    BY CronAssumption DEF CronTypeOK, Firing
  <2> QED
    BY <1>4, <2>1, <2>2 DEF CronTypeOK, FiringInv, Steady, Fired
<1>5. CASE f.asked # 0 /\ firings' = firings \cup {f} /\ UNCHANGED jobs
  <2>1. /\ events \in Nat /\ firings \subseteq Firing
        /\ \A g \in firings : g.no \in Nat
    BY CronAssumption DEF CronTypeOK, Firing
  <2>2. FiringInv'
    BY <1>1, <1>5, <2>1 DEF FiringInv, Steady, Fresh
  <2> QED
    BY <1>1, <1>5, <2>1, <2>2 DEF CronTypeOK, Fired, Fresh, SameJobs
<1>6. CASE Act(f, f.plan, firings)
  <2>1. f \in Firing /\ f.plan \in Skips \cup {"send"} /\ f.no <= events'
        /\ (f.plan = "send" => f.asked = handle'.child)
    BY <1>1 DEF Fresh, Firing, Steady
  <2> QED
    BY <1>1, <1>6, <2>1, ActKeeps DEF Steady, Fired
<1> QED
  BY <1>2, <1>3, <1>4, <1>5, <1>6

LEMMA SendKeeps ==
  ASSUME CronTypeOK, FiringInv, Steady, Send
  PROVE  Fired
<1> DEFINE f == NewFiring(None, TRUE)
<1>1. Fresh(f) /\ handle'.child \in Nat
  BY NewFiringFresh DEF Steady, Optional, TypeOK, Handle
<1>2. \/ UNCHANGED <<jobs, firings>>
      \/ f.asked # 0 /\ Act(f, "send", firings)
  BY DEF Send
<1> HIDE DEF f
<1>3. CASE f.asked # 0 /\ Act(f, "send", firings)
  <2>1. f \in Firing /\ f.no <= events' /\ f.asked = handle'.child
    BY <1>1, <1>3 DEF Fresh, Firing, Steady
  <2> QED
    BY <1>1, <1>3, <2>1, ActKeeps DEF Steady, Fired
<1> QED
  BY <1>2, <1>3, NothingFired


(* Answers: the steps of the supervisor they are keep the runtime.         *)
LEMMA ResolveKeeps ==
  ASSUME CronTypeOK, FiringInv, Steady, NEW f \in firings, NEW busy, Resolve(f, busy)
  PROVE  Fired
<1>1. f \in Firing /\ events \in Nat /\ events' = events /\ f.no <= events
      /\ f.asked = handle.child /\ handle'.child = handle.child /\ handle'.child \in Nat
  BY CronAssumption DEF CronTypeOK, FiringInv, Resolve, Steady, TypeOK, Handle
<1> DEFINE action == IF f.plan = "send" /\ busy THEN "busy" ELSE f.plan
<1>2. action \in Skips \cup {"send"} /\ Act(f, action, firings \ {f})
  BY <1>1 DEF Resolve, Firing, Skips
<1> HIDE DEF action
<1> QED
  BY <1>1, <1>2, ActKeeps DEF Steady, Fired

LEMMA AnswerPromptKeeps ==
  ASSUME CronTypeOK, FiringInv, Steady, NEW f \in firings, NEW accepted,
         AnswerPrompt(f, accepted)
  PROVE  Fired
<1>1. /\ f.job \in Optional(Jobs) /\ firings' = firings \ {f} /\ UNCHANGED <<events, vars>>
      /\ jobs' = RecordRun(jobs, f.job, IF accepted THEN "accepted" ELSE "rejected")
  BY DEF CronTypeOK, Firing, AnswerPrompt
<1>2. SameJobs(jobs, jobs')
  BY <1>1, Recorded DEF CronTypeOK, CronResult
<1>3. handle' = handle
  BY <1>1 DEF vars
<1> QED
  BY <1>1, <1>2, <1>3 DEF CronTypeOK, FiringInv, Fired

LEMMA Smallest ==
  ASSUME NEW S \in SUBSET Nat, NEW s \in S
  PROVE  \E n \in S : \A m \in S : n <= m
<1>1. PICK n \in S : \A m \in S : ~(<<m, n>> \in OpToRel(<, Nat))
  BY NatLessThanWellFounded, WFMin
<1>2. \A m \in S : ~(m < n)
  BY <1>1 DEF OpToRel
<1> QED
  BY <1>2

(* The exit of the runtime answers every firing that waited for it.        *)
LEMMA SettleKeeps ==
  ASSUME CronTypeOK, FiringInv, SettleAll
  PROVE  firings' = {} /\ SameJobs(jobs, jobs')
<1>1. firings' = {}
  BY DEF FiringInv, SettleAll
<1> DEFINE settled == {f \in firings : f.asked = handle.child}
           own(j) == {f \in settled : f.job = j}
           last(j) == CHOOSE f \in own(j) : \A g \in own(j) : g.no <= f.no
           new(j) == RecordRun(jobs, j, CronResultFor(last(j).plan))
<1>2. jobs' = [j \in Jobs |-> IF own(j) = {} THEN jobs[j] ELSE new(j)[j]]
  BY DEF SettleAll
<1>3. ASSUME NEW j \in Jobs, own(j) # {}
      PROVE  last(j) \in own(j)
  <2> PICK f \in own(j) : TRUE
    BY <1>3
  <2> DEFINE left == {events - g.no : g \in own(j)}
  <2>1. events \in Nat /\ \A g \in own(j) : g.no \in Nat /\ g.no <= events
    BY CronAssumption DEF CronTypeOK, FiringInv, Firing
  <2> HIDE DEF own
  <2>2. left \subseteq Nat /\ events - f.no \in left
    BY <2>1
  <2>3. PICK n \in left : \A m \in left : n <= m
    BY <2>2, Smallest
  <2>4. PICK g \in own(j) : n = events - g.no
    BY <2>3
  <2>5. \A h \in own(j) : h.no <= g.no
    <3> TAKE h \in own(j)
    <3>1. n <= events - h.no
      BY <2>3
    <3> QED
      BY <2>1, <2>4, <3>1
  <2> QED
    BY <2>5
<1>4. \A j \in Jobs : own(j) # {} => SameJobs(jobs, new(j))
  <2> TAKE j \in Jobs
  <2> HAVE own(j) # {}
  <2>1. last(j).plan \in Skips \cup {"send"}
    BY <1>3 DEF CronTypeOK, Firing
  <2> HIDE DEF last
  <2> QED
    BY <2>1, Results, Recorded DEF CronTypeOK, Optional
<1> HIDE DEF own, new
<1> QED
  BY <1>1, <1>2, <1>4 DEF SameJobs, CronTypeOK

-----------------------------------------------------------------------------
(* The timers.                                                             *)

(* Arming and disarming keeps to the jobs, whether the server is up or     *)
(* not.                                                                    *)
ArmedOK ==
  /\ armed' \subseteq Jobs /\ late' \subseteq Jobs
  /\ jobs' \in [Jobs -> Optional(CronJob)]
  /\ ArmedFollowsJobs'

LEMMA SameArmed ==
  ASSUME CronTypeOK, ArmedFollowsJobs, SameJobs(jobs, jobs'),
         UNCHANGED <<armed, late, server>>
  PROVE  ArmedOK
<1>1. Enabled' = Enabled /\ jobs' \in [Jobs -> Optional(CronJob)]
  BY SameEnabled
<1> QED
  BY <1>1 DEF ArmedOK, CronTypeOK, ArmedFollowsJobs

LEMMA CronAddKeeps ==
  ASSUME CronTypeOK, ArmedFollowsJobs, NEW value \in BOOLEAN, CronAdd(value),
         UNCHANGED server
  PROVE  ArmedOK
<1> DEFINE job == [enabled |-> TRUE, skipIfBusy |-> value, last |-> None]
<1>1. job \in CronJob /\ job.enabled
  BY DEF CronJob, Optional
<1>2. PICK j \in Jobs : jobs' = [jobs EXCEPT ![j] = job] /\ ScheduleCron(j)
  BY DEF CronAdd
<1>3. job # None
  BY <1>1, CronAssumption
<1> HIDE DEF job
<1>4. jobs' \in [Jobs -> Optional(CronJob)] /\ Enabled' = Enabled \cup {j}
  BY <1>1, <1>2, <1>3 DEF CronTypeOK, Enabled, Optional
<1> QED
  BY <1>2, <1>4 DEF ArmedOK, ArmedFollowsJobs, ScheduleCron, CronTypeOK

LEMMA CronRemoveKeeps ==
  ASSUME CronTypeOK, ArmedFollowsJobs, NEW j \in Jobs, CronRemove(j), UNCHANGED server
  PROVE  ArmedOK
<1>1. jobs' \in [Jobs -> Optional(CronJob)] /\ Enabled' = Enabled \ {j}
  BY DEF CronRemove, CronTypeOK, Enabled, Optional
<1> QED
  BY <1>1 DEF ArmedOK, ArmedFollowsJobs, StopCron, CronRemove, CronTypeOK

LEMMA CronEnableKeeps ==
  ASSUME CronTypeOK, ArmedFollowsJobs, NEW j \in Jobs, NEW value \in BOOLEAN,
         CronEnable(j, value), UNCHANGED server
  PROVE  ArmedOK
<1>1. CASE jobs[j] = None
  <2>1. UNCHANGED <<jobs, armed, late>>
    BY <1>1 DEF CronEnable
  <2> QED
    BY <2>1, SameArmed DEF SameJobs, CronTypeOK
<1>2. CASE jobs[j] # None
  <2> DEFINE job == [jobs[j] EXCEPT !.enabled = value]
  <2>1. job \in CronJob /\ job.enabled = value
    BY <1>2 DEF CronTypeOK, CronJob, Optional
  <2>2. job # None
    BY <2>1, CronAssumption
  <2>3. jobs' = [jobs EXCEPT ![j] = job]
        /\ IF value THEN ScheduleCron(j) ELSE StopCron(j)
    BY <1>2 DEF CronEnable
  <2> HIDE DEF job
  <2>4. /\ jobs' \in [Jobs -> Optional(CronJob)]
        /\ Enabled' = IF value THEN Enabled \cup {j} ELSE Enabled \ {j}
    BY <2>1, <2>2, <2>3 DEF CronTypeOK, Enabled, Optional
  <2> QED
    BY <2>3, <2>4 DEF ArmedOK, ArmedFollowsJobs, ScheduleCron, StopCron, CronTypeOK
<1> QED
  BY <1>1, <1>2

(* The part of a request after its reconciliation.                         *)
LEMMA CarryKeeps ==
  ASSUME CronTypeOK, FiringInv, ArmedFollowsJobs, Steady, NEW q \in Requests, Carry(q),
         UNCHANGED server
  PROVE  firings' \subseteq Firing /\ FiringInv' /\ ArmedOK
<1>1. CASE q.op \in {"cron_add", "cron_remove", "cron_enable"}
  <2>1. UNCHANGED firings
    BY <1>1 DEF Carry
  <2>2. firings' \subseteq Firing /\ FiringInv'
    <3>1. events \in Nat /\ \A f \in firings : f.no \in Nat
      BY CronAssumption DEF CronTypeOK, Firing
    <3> QED
      BY <2>1, <3>1 DEF CronTypeOK, FiringInv, Steady
  <2>3. q.op # "cron_add" => q.job \in Jobs
    BY <1>1 DEF Requests
  <2>4. q.value \in BOOLEAN
    BY DEF Requests
  <2>5. ArmedOK
    BY <1>1, <2>3, <2>4, CronAddKeeps, CronRemoveKeeps, CronEnableKeeps DEF Carry
  <2> QED
    BY <2>2, <2>5
<1>2. CASE q.op = "cron_run"
  <2>1. q.job \in Jobs
    BY <1>2 DEF Requests
  <2>2. Fired
    BY <1>2, <2>1, FireKeeps DEF Carry
  <2> QED
    BY <1>2, <2>2, SameArmed DEF Carry, Fired
<1>3. CASE q.op = "send"
  <2>1. Fired
    BY <1>3, SendKeeps DEF Carry
  <2> QED
    BY <1>3, <2>1, SameArmed DEF Carry, Fired
<1> QED
  BY <1>1, <1>2, <1>3 DEF Requests


-----------------------------------------------------------------------------
(* The steps.                                                              *)

(* Every step is one of the supervisor's or leaves its state alone.        *)
LEMMA CronStepIsStep ==
  ASSUME CronInv, [CronNext]_allVars
  PROVE  [Next]_vars
<1>1. CASE \/ \E j \in Jobs : CatchUp(j) \/ FireScheduled(j)
           \/ \E f \in firings, b \in BOOLEAN : TimeOutBusy(f, b) \/ AnswerPrompt(f, b)
           \/ UNCHANGED allVars
  BY <1>1 DEF CatchUp, FireScheduled, TimeOutBusy, AnswerPrompt, allVars, vars
<1>2. ASSUME NEW f \in firings, NEW b \in BOOLEAN, AnswerBusy(f, b)
      PROVE  Next
  <2>1. f.asked \in DOMAIN procs
    BY DEF CronInv, IInv, ChildInv, FiringInv
  <2>2. \E line \in Lines : Say(f.asked, line)
    BY <1>2 DEF AnswerBusy, Lines
  <2> QED
    BY <2>1, <2>2 DEF Next
<1>3. ASSUME NEW q \in Requests, AskSupervisor(q)
      PROVE  Next
  <2>1. ReconcileTick
    BY <1>3 DEF AskSupervisor, ReconcileTick
  <2> QED
    BY <2>1 DEF Next
<1>4. CASE Supervised(RunOperation) \/ Supervised(ProcessStep)
  BY <1>4 DEF Supervised, ProcessStep, Next
<1>5. CASE \/ Supervised(TimeOutReadiness)
           \/ Supervised(\E no \in retries : FireRetry(no))
           \/ Supervised(FireStability)
           \/ Supervised(events + requests < MaxEvents /\ \E kind \in Kinds : Request(kind))
  BY <1>5 DEF Supervised, Next
<1>6. CASE \/ Supervised(ReconcileTick) \/ Supervised(MoveCwd) \/ Supervised(Shutdown)
           \/ Supervised(Served /\ StopChild) \/ Supervised(GoDown)
  BY <1>6 DEF Supervised, Next
<1> QED
  BY <1>1, <1>2, <1>3, <1>4, <1>5, <1>6 DEF CronNext

(* Besides the supervisor's steps, those that only fire, those that answer *)
(* and those of a request.                                                 *)
Followed ==
  CASE handle.child # 0 /\ handle'.child = 0 -> SettleAll
    [] waiting # None /\ Reconciling /\ ~Reconciling' ->
         waiting' = None /\ UNCHANGED events /\ Carry(waiting)
    [] server = "up" /\ server' # "up" ->
         /\ armed' = {}
         /\ UNCHANGED <<jobs, missed, firings, waiting, late, events>>
    [] OTHER -> UNCHANGED cronVars

LEMMA CronCases ==
  ASSUME CronNext
  PROVE  \/ \E j \in Jobs : CatchUp(j) \/ FireScheduled(j)
         \/ \E f \in firings, b \in BOOLEAN :
              AnswerBusy(f, b) \/ TimeOutBusy(f, b) \/ AnswerPrompt(f, b)
         \/ \E q \in Requests : AskSupervisor(q)
         \/ missed = {} /\ Followed
  BY DEF CronNext, Supervised, Followed

LEMMA FollowedKeeps ==
  ASSUME CronInv, [Next]_vars, IInv', missed = {}, Followed
  PROVE  CronInv'
<1>1. /\ CronTypeOK /\ FiringInv /\ ArmedFollowsJobs /\ TypeOK' /\ events \in Nat
      /\ \A f \in firings : f.no \in Nat
  BY CronAssumption DEF CronInv, IInv, CronTypeOK, Firing
<1>2. \/ server' = server
      \/ server' # "up" /\ handle'.child = handle.child /\ queue' = queue
  BY SameOrDown
<1>3. handle'.child \in {handle.child, 0} \/ handle.child = 0
  BY ChildMoves DEF CronInv
<1> DEFINE Ends == handle.child # 0 /\ handle'.child = 0
           Reconciled == Reconciling /\ ~Reconciling'
           Falls == server = "up" /\ server' # "up"
<1>8. /\ Ends => ~Reconciled /\ ~Falls
      /\ Reconciled => ~Falls
  <2>1. Ends => ~Reconciled
    BY ExitKeepsQueue DEF CronInv
  <2>2. Ends => ~Falls
    BY <1>2
  <2>3. Reconciled => queue' # queue
    BY DEF Reconciling
  <2> QED
    BY <1>2, <2>1, <2>2, <2>3
<1>4. CASE handle.child # 0 /\ handle'.child = 0
  <2>1. SettleAll
    BY <1>4, <1>8 DEF Followed
  <2>2. firings' = {} /\ SameJobs(jobs, jobs')
    BY <1>1, <2>1, SettleKeeps
  <2>3. UNCHANGED <<armed, missed, waiting, late, events, server>>
    BY <1>2, <1>4, <2>1 DEF SettleAll
  <2>4. ArmedOK
    BY <1>1, <2>2, <2>3, SameArmed
  <2> QED
    BY <1>1, <2>2, <2>3, <2>4 DEF CronInv, CronTypeOK, FiringInv, ArmedOK, Requests
<1>5. ASSUME ~(handle.child # 0 /\ handle'.child = 0)
      PROVE  firings = {} \/ handle'.child = handle.child
  BY <1>1, <1>3, <1>5 DEF FiringInv
<1>6. CASE /\ ~(handle.child # 0 /\ handle'.child = 0)
           /\ waiting # None /\ Reconciling /\ ~Reconciling'
  <2>1. waiting' = None /\ UNCHANGED events /\ Carry(waiting) /\ waiting \in Requests
    BY <1>6, <1>8 DEF Followed, CronInv
  <2>2. UNCHANGED <<server, missed>>
    <3>1. queue' # queue
      BY <1>6 DEF Reconciling
    <3> QED
      BY <1>2, <2>1, <3>1 DEF Carry
  <2>3. Steady
    BY <1>1, <1>5, <1>6, <2>1 DEF Steady
  <2>4. firings' \subseteq Firing /\ FiringInv' /\ ArmedOK
    BY <1>1, <2>1, <2>2, <2>3, CarryKeeps
  <2> QED
    BY <1>1, <2>1, <2>2, <2>4 DEF CronInv, CronTypeOK, ArmedOK, Optional
<1>7. CASE /\ ~(handle.child # 0 /\ handle'.child = 0)
           /\ ~(waiting # None /\ Reconciling /\ ~Reconciling')
  <2>1. UNCHANGED <<jobs, missed, firings, waiting, late, events>>
        /\ \/ server = "up" /\ server' # "up" /\ armed' = {}
           \/ ~(server = "up" /\ server' # "up") /\ armed' = armed
    BY <1>7 DEF Followed, cronVars
  <2>2. FiringInv'
    BY <1>1, <1>5, <1>7, <2>1 DEF FiringInv
  <2>3. ArmedFollowsJobs'
    BY <1>1, <1>2, <2>1 DEF ArmedFollowsJobs, Enabled
  <2> QED
    BY <1>1, <2>1, <2>2, <2>3 DEF CronInv, CronTypeOK, Requests
<1> QED
  BY <1>4, <1>6, <1>7

LEMMA CronNextInv ==
  ASSUME CronInv, [CronNext]_allVars
  PROVE  CronInv'
<1>1. [Next]_vars /\ IInv'
  <2>1. [Next]_vars
    BY CronStepIsStep
  <2> QED
    BY <2>1, NextInv DEF CronInv
<1>2. /\ CronTypeOK /\ FiringInv /\ ArmedFollowsJobs /\ TypeOK' /\ events \in Nat
      /\ events \in 0..MaxEvents /\ MaxEvents \in Nat /\ requests \in Nat
  BY <1>1, CronAssumption, SupervisorAssumption DEF CronInv, IInv, CronTypeOK, TypeOK
<1>3. ASSUME NEW j \in Jobs, CatchUp(j) \/ FireScheduled(j)
      PROVE  CronInv'
  <2>1. /\ UNCHANGED <<armed, waiting, late, server, handle>> /\ missed' \subseteq missed
        /\ events' \in 0..MaxEvents /\ events <= events'
    <3>1. /\ UNCHANGED <<armed, waiting, late, vars>> /\ missed' \subseteq missed
          /\ events' = events \/ (events + requests < MaxEvents /\ events' = events + 1)
      BY <1>3 DEF CatchUp, FireScheduled
    <3>2. server' = server /\ handle' = handle
      BY <3>1 DEF vars
    <3> HIDE DEF vars
    <3> QED
      BY <1>2, <3>1, <3>2
  <2>5. Fire(j, TRUE, FALSE) \/ Fire(j, FALSE, FALSE)
    BY <1>3 DEF CatchUp, FireScheduled
  <2>2. Steady
    BY <1>2, <2>1 DEF Steady
  <2>3. Fired
    BY <1>2, <2>2, <2>5, FireKeeps
  <2>4. ArmedOK
    BY <1>2, <2>1, <2>3, SameArmed DEF Fired
  <2> QED
    BY <1>1, <1>2, <2>1, <2>3, <2>4 DEF CronInv, CronTypeOK, Fired, ArmedOK, Requests
<1>4. ASSUME NEW f \in firings, NEW b \in BOOLEAN,
             AnswerBusy(f, b) \/ TimeOutBusy(f, b) \/ AnswerPrompt(f, b)
      PROVE  CronInv'
  <2>1. /\ UNCHANGED <<armed, missed, waiting, late, events, server>>
        /\ handle'.child = handle.child
    <3>1. CASE AnswerBusy(f, b)
      <4>1. PICK line \in Lines : Say(f.asked, line)
        BY <3>1 DEF AnswerBusy, Lines
      <4>2. handle \in Handle
        BY DEF CronInv, IInv, TypeOK
      <4> QED
        BY <3>1, <4>1, <4>2, HeardAdvances DEF Say, Advances, AnswerBusy, Resolve
    <3>2. CASE TimeOutBusy(f, b) \/ AnswerPrompt(f, b)
      BY <3>2 DEF TimeOutBusy, AnswerPrompt, Resolve, vars
    <3> QED
      BY <1>4, <3>1, <3>2
  <2>2. Steady
    BY <1>2, <2>1 DEF Steady
  <2>3. Fired
    BY <1>2, <1>4, <2>2, ResolveKeeps, AnswerPromptKeeps DEF AnswerBusy, TimeOutBusy
  <2>4. ArmedOK
    BY <1>2, <2>1, <2>3, SameArmed DEF Fired
  <2> QED
    BY <1>1, <1>2, <2>1, <2>3, <2>4 DEF CronInv, CronTypeOK, Fired, ArmedOK, Requests
<1>5. ASSUME NEW q \in Requests, AskSupervisor(q)
      PROVE  CronInv'
  <2>1. /\ UNCHANGED <<handle, server>> /\ missed = {}
        /\ events' \in 0..MaxEvents /\ events <= events'
        /\ \/ waiting' = q /\ UNCHANGED <<jobs, armed, missed, firings, late>>
           \/ Carry(q) /\ UNCHANGED waiting
    BY <1>2, <1>5 DEF AskSupervisor
  <2>2. Steady
    BY <1>2, <2>1 DEF Steady
  <2>3. q \in ControlRequest /\ q # None
    <3>1. q \in ControlRequest
      BY DEF Requests, ControlRequest, Optional
    <3> QED
      BY <3>1, CronAssumption
  <2>4. CASE waiting' = q /\ UNCHANGED <<jobs, armed, missed, firings, late>>
    <3>1. Fired
      BY <1>2, <2>2, <2>4, NothingFired
    <3>2. ArmedOK
      BY <1>2, <2>1, <2>4, <3>1, SameArmed DEF Fired
    <3> QED
      BY <1>1, <1>2, <2>1, <2>3, <2>4, <3>1, <3>2
      DEF CronInv, CronTypeOK, Fired, ArmedOK, Optional
  <2>5. CASE Carry(q) /\ UNCHANGED waiting
    <3>1. firings' \subseteq Firing /\ FiringInv' /\ ArmedOK
      BY <1>2, <2>1, <2>2, <2>5, CarryKeeps
    <3>2. missed' = missed
      BY <2>5 DEF Carry
    <3> QED
      BY <1>1, <1>2, <2>1, <2>5, <3>1, <3>2 DEF CronInv, CronTypeOK, ArmedOK, Requests
  <2> QED
    BY <2>1, <2>4, <2>5
<1>6. CASE missed = {} /\ Followed
  BY <1>1, <1>6, FollowedKeeps
<1>7. CASE UNCHANGED allVars
  <2>1. /\ handle' = handle /\ server' = server
        /\ UNCHANGED <<jobs, armed, missed, firings, waiting, late, events>>
    BY <1>7 DEF allVars, vars, cronVars
  <2> QED
    BY <1>1, <1>2, <2>1
    DEF CronInv, CronTypeOK, FiringInv, ArmedFollowsJobs, Enabled, Requests
<1> QED
  BY <1>3, <1>4, <1>5, <1>6, <1>7, CronCases

LEMMA CronInitInv ==
  ASSUME CronInit
  PROVE  CronInv
<1>1. IInv
  BY InitInv DEF CronInit
<1>2. /\ jobs \in [Jobs -> Optional(CronJob)] /\ armed = Enabled /\ missed \subseteq Enabled
      /\ firings = {} /\ waiting = None /\ late = {} /\ events = 0
      /\ events \in 0..MaxEvents /\ server = "up"
  BY CronAssumption DEF CronInit, Init
<1>3. CronTypeOK /\ ArmedFollowsJobs
  BY <1>1, <1>2 DEF IInv, CronTypeOK, ArmedFollowsJobs, Enabled, Optional
<1> QED
  BY <1>1, <1>2, <1>3 DEF CronInv, FiringInv

-----------------------------------------------------------------------------
(* The theorems.                                                           *)

LEMMA CronInvHolds == CronSpec => []CronInv
<1>1. CronInit => CronInv
  BY CronInitInv
<1>2. CronInv /\ [CronNext]_allVars => CronInv'
  BY CronNextInv
<1> QED
  BY <1>1, <1>2, PTL DEF CronSpec

(* The types of the scheduler's state, those of the supervisor among them, *)
(* hold whatever fires, asks or answers.                                   *)
THEOREM CronTypes == CronSpec => []CronTypeOK
<1>1. CronInv => CronTypeOK
  BY DEF CronInv
<1> QED
  BY <1>1, CronInvHolds, PTL

(* A prompt reaches only the runtime that was asked, however it crashes,   *)
(* is restarted or replaced meanwhile (refreshBusy, sendPrompt, onExit).   *)
THEOREM PromptStays == CronSpec => []PromptStaysWithItsRuntime
<1>1. CronInv => PromptStaysWithItsRuntime
  BY DEF CronInv, FiringInv, PromptStaysWithItsRuntime
<1> QED
  BY <1>1, CronInvHolds, PTL

(* The live timers are those of the enabled jobs (scheduleCron, stopCron,  *)
(* stop).                                                                  *)
THEOREM TimersFollowJobs == CronSpec => []ArmedFollowsJobs
<1>1. CronInv => ArmedFollowsJobs
  BY DEF CronInv
<1> QED
  BY <1>1, CronInvHolds, PTL

(* The scheduler only adds to the supervisor: a behaviour of CronScheduler *)
(* is one of Supervisor, so that what holds of every step and state there  *)
(* (OneProcess, StoppedStaysDown, NeverForgotten) holds here too.          *)
THEOREM CronRefinesSupervisor == CronSpec => Init /\ [][Next]_vars
<1>1. CronInit => Init
  BY DEF CronInit
<1>2. CronInv /\ [CronNext]_allVars => [Next]_vars
  BY CronStepIsStep
<1> QED
  BY <1>1, <1>2, CronInvHolds, PTL DEF CronSpec

=============================================================================
