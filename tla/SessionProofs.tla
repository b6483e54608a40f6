---------------------------- MODULE SessionProofs ----------------------------
(***************************************************************************)
(* Proofs about PwaSession and the HostSession under it, for every number  *)
(* of messages, every branch to begin with and every bound.  Its last parts*)
(* say what each step does to the two queues and prove the rules of the    *)
(* link, for TimelineProofs.                                               *)
(***************************************************************************)
EXTENDS PwaSession, FiniteSetTheorems, SequenceTheorems, WellFoundedInduction, TLAPS

-----------------------------------------------------------------------------
(* Operators on numbers and sequences.                                     *)

(* A set of numbers has a least one.                                       *)
LEMMA LeastIs ==
  ASSUME NEW S \in SUBSET Nat, S # {}
  PROVE  Min(S) \in S /\ \A x \in S : Min(S) <= x
<1>1. PICK n \in S : \A m \in S : ~(<<m, n>> \in OpToRel(<, Nat))
  BY NatLessThanWellFounded, WFMin
<1>2. \A m \in S : ~(m < n)
  BY <1>1 DEF OpToRel
<1>3. \A m \in S : n =< m
  BY <1>2
<1> QED
  BY <1>3 DEF Min

(* The position of the record of a request, 0 if there is none.            *)
LEMMA RecordedIs ==
  ASSUME NEW S, NEW records \in Seq(S), NEW r
  PROVE  /\ Recorded(records, r) \in 0..Len(records)
         /\ Recorded(records, r) # 0 => records[Recorded(records, r)].req = r
         /\ Recorded(records, r) = 0 => \A i \in 1..Len(records) : records[i].req # r
<1> DEFINE I == {i \in 1..Len(records) : records[i].req = r}
<1>1. I \in SUBSET Nat /\ 0 \notin I
  OBVIOUS
<1>2. Recorded(records, r) = IF I # {} THEN Min(I) ELSE 0
  BY DEF Recorded, SelectInSeq
<1>3. CASE I = {}
  BY <1>2, <1>3
<1>4. CASE I # {}
  <2>1. Min(I) \in I
    BY <1>1, <1>4, LeastIs
  <2> QED
    BY <1>2, <1>4, <2>1
<1> QED
  BY <1>3, <1>4

(* A sequence without one of its elements.                                 *)
LEMMA RemovedIs ==
  ASSUME NEW S, NEW s \in Seq(S), NEW i \in 1..Len(s)
  PROVE  /\ RemoveAt(s, i) \in Seq(S)
         /\ Len(RemoveAt(s, i)) = Len(s) - 1
         /\ \A j \in 1..Len(s)-1 :
              RemoveAt(s, i)[j] = IF j < i THEN s[j] ELSE s[j + 1]
<1>1. /\ SubSeq(s, 1, i-1) \in Seq(S) /\ Len(SubSeq(s, 1, i-1)) = i - 1
      /\ \A j \in 1..i-1 : SubSeq(s, 1, i-1)[j] = s[j]
  BY SubSeqProperties, ElementOfSeq
<1>2. /\ SubSeq(s, i+1, Len(s)) \in Seq(S) /\ Len(SubSeq(s, i+1, Len(s))) = Len(s) - i
      /\ \A j \in 1..Len(s)-i : SubSeq(s, i+1, Len(s))[j] = s[i + j]
  BY SubSeqProperties, ElementOfSeq
<1> DEFINE a == SubSeq(s, 1, i-1)
           b == SubSeq(s, i+1, Len(s))
<1>3. /\ a \o b \in Seq(S) /\ Len(a \o b) = Len(a) + Len(b)
      /\ \A j \in 1..Len(a) + Len(b) : (a \o b)[j] = IF j <= Len(a) THEN a[j] ELSE b[j - Len(a)]
  BY <1>1, <1>2, ConcatProperties
<1>4. RemoveAt(s, i) = a \o b /\ Len(a) = i - 1 /\ Len(b) = Len(s) - i
  BY <1>1, <1>2 DEF RemoveAt
<1>5. ASSUME NEW j \in 1..Len(s)-1
      PROVE  RemoveAt(s, i)[j] = IF j < i THEN s[j] ELSE s[j + 1]
  <2> HIDE DEF a, b
  <2>1. CASE j < i
    <3>1. j \in 1..i-1 /\ j <= Len(a)
      BY <1>4, <2>1
    <3>2. a[j] = s[j]
      BY <1>1, <3>1 DEF a
    <3> QED
      BY <1>3, <1>4, <2>1, <3>1, <3>2
  <2>2. CASE ~(j < i)
    <3>1. j - Len(a) = j - i + 1 /\ j - i + 1 \in 1..Len(s)-i /\ ~(j <= Len(a))
      BY <1>4, <2>2
    <3>2. b[j - i + 1] = s[i + (j - i + 1)] /\ i + (j - i + 1) = j + 1
      BY <1>2, <3>1 DEF b
    <3> QED
      BY <1>3, <1>4, <2>2, <3>1, <3>2
  <2> QED
    BY <2>1, <2>2
<1>6. RemoveAt(s, i) \in Seq(S) /\ Len(RemoveAt(s, i)) = Len(s) - 1
  <2> HIDE DEF a, b
  <2>1. Len(s) \in Nat /\ i \in Nat
    BY LenProperties
  <2>2. (i - 1) + (Len(s) - i) = Len(s) - 1
    BY <2>1
  <2> QED
    BY <1>3, <1>4, <2>2
<1> QED
  BY <1>5, <1>6

(* The records but that of one request.                                    *)
LEMMA WithoutIs ==
  ASSUME NEW S, NEW records \in Seq(S), NEW r
  PROVE  /\ Without(records, r) \in Seq(S)
         /\ Len(Without(records, r)) =
              IF Recorded(records, r) = 0 THEN Len(records) ELSE Len(records) - 1
         /\ \A i \in 1..Len(records) :
              records[i].req # r =>
                \E j \in 1..Len(Without(records, r)) : Without(records, r)[j] = records[i]
         /\ \A j \in 1..Len(Without(records, r)) :
              \E i \in 1..Len(records) : Without(records, r)[j] = records[i]
<1> DEFINE k == Recorded(records, r)
<1>1. k \in 0..Len(records) /\ (k # 0 => records[k].req = r)
  BY RecordedIs
<1>2. CASE k = 0
  BY <1>2 DEF Without
<1>3. CASE k # 0
  <2>1. Without(records, r) = RemoveAt(records, k) /\ k \in 1..Len(records)
    BY <1>1, <1>3 DEF Without
  <2>2. /\ RemoveAt(records, k) \in Seq(S) /\ Len(RemoveAt(records, k)) = Len(records) - 1
        /\ \A j \in 1..Len(records)-1 :
             RemoveAt(records, k)[j] = IF j < k THEN records[j] ELSE records[j + 1]
    BY <2>1, RemovedIs
  <2>3. ASSUME NEW i \in 1..Len(records), records[i].req # r
        PROVE  \E j \in 1..Len(records)-1 : RemoveAt(records, k)[j] = records[i]
    <3>1. CASE i < k
      BY <1>1, <2>2, <3>1
    <3>2. CASE i > k
      <4>1. i - 1 \in 1..Len(records)-1 /\ ~(i - 1 < k) /\ (i - 1) + 1 = i
        BY <2>1, <3>2
      <4> QED
        BY <2>2, <4>1
    <3> QED
      BY <1>1, <1>3, <2>3, <3>1, <3>2
  <2>4. \A j \in 1..Len(records)-1 :
          \E i \in 1..Len(records) : RemoveAt(records, k)[j] = records[i]
    BY <2>1, <2>2
  <2> QED
    BY <1>3, <2>1, <2>2, <2>3, <2>4
<1> QED
  BY <1>2, <1>3

LEMMA NumberedIsSeq ==
  ASSUME NEW S, NEW n \in Nat, NEW f \in [1..n -> S]
  PROVE  f \in Seq(S) /\ Len(f) = n
<1>1. f \in Seq(S)
  BY SeqDef
<1>2. DOMAIN f = 1..Len(f) /\ Len(f) \in Nat
  BY <1>1, LenProperties
<1> QED
  BY <1>1, <1>2

(* A finite set in some order.                                             *)
LEMMA SetInOrder ==
  ASSUME NEW S, IsFiniteSet(S)
  PROVE  SetToSeq(S) \in Seq(S)
<1>1. Cardinality(S) \in Nat /\ ExistsBijection(1..Cardinality(S), S)
  BY FS_CardinalityType
<1>2. \E f \in [1..Cardinality(S) -> S] : IsInjective(f)
  BY <1>1 DEF ExistsBijection, Bijection, Injection
<1>3. SetToSeq(S) \in [1..Cardinality(S) -> S]
  BY <1>2 DEF SetToSeq
<1> QED
  BY <1>1, <1>3, SeqDef

-----------------------------------------------------------------------------
(* What is recovered of a branch, and the window a page takes of it.       *)

Place == [at : Nat \ {0}, event : Event]

LEMMA TargetIs ==
  ASSUME NEW b \in Seq(Entry), NEW i \in 1..Len(b), NEW role, Target(b, i, role) # 0
  PROVE  /\ Target(b, i, role) \in i+1..Len(b)
         /\ b[Target(b, i, role)].type = "message" /\ b[Target(b, i, role)].role = role
<1> DEFINE I == {j \in i+1..Len(b) : b[j].type # "custom"}
           next == SelectInSubSeq(b, i + 1, Len(b), LAMBDA e : e.type # "custom")
<1>1. next = IF I # {} THEN Min(I) ELSE 0
  BY DEF SelectInSubSeq
<1>2. Target(b, i, role) =
        IF next # 0 /\ b[next].type = "message" /\ b[next].role = role THEN next ELSE 0
  BY DEF Target
<1>3. I \in SUBSET Nat
  OBVIOUS
<1>4. I # {}
  <2> HIDE DEF I
  <2> QED
    BY <1>1, <1>2
<1>5. Min(I) \in I
  BY <1>3, <1>4, LeastIs
<1> HIDE DEF next
<1> QED
  BY <1>1, <1>2, <1>4, <1>5

LEMMA RecoveredTyped ==
  ASSUME NEW session \in Nat, NEW b \in Seq(Entry), generation \in Nat
  PROVE  \A r \in Recovered(session, b) : r \in Place /\ r.at \in 1..Len(b)
<1>1. ASSUME NEW i \in 1..Len(b), NEW legacy \in BOOLEAN, NEW kind \in Roles \cup {"system"},
             NEW group \in Nat
      PROVE  [at |-> i, event |-> ToEvent(session, b[i].id, legacy, kind, group)] \in Place
  <2>1. b[i] \in Entry
    BY ElementOfSeq
  <2>2. b[i].id \in Nat \ {0}
    BY <2>1 DEF Entry
  <2>3. ToEvent(session, b[i].id, legacy, kind, group) \in Event
    BY <2>2 DEF ToEvent, Event
  <2> QED
    BY <2>3 DEF Place
<1>2. \A i \in 1..Len(b) : /\ b[i].type \in {"marker", "message"} => b[i].role \in Roles
                           /\ b[i].group \in Nat
  <2>1. \A i \in 1..Len(b) : b[i] \in Entry
    BY ElementOfSeq
  <2> QED
    BY <2>1 DEF Entry
<1>3. DOMAIN b = 1..Len(b)
  BY LenProperties
<1> DEFINE marked == {i \in DOMAIN b : b[i].type = "marker" /\ Target(b, i, b[i].role) # 0}
           matched == {Target(b, i, b[i].role) : i \in marked}
<1> SUFFICES ASSUME NEW r \in Recovered(session, b)
             PROVE  r \in Place /\ r.at \in 1..Len(b)
  OBVIOUS
<1>4. CASE \E i \in marked :
             r = [at |-> i, event |-> ToEvent(session, b[i].id, FALSE, b[i].role, b[i].group)]
  <2>1. PICK i \in marked :
          r = [at |-> i, event |-> ToEvent(session, b[i].id, FALSE, b[i].role, b[i].group)]
    BY <1>4
  <2>2. i \in 1..Len(b) /\ b[i].role \in Roles /\ b[i].group \in Nat
    BY <1>2, <1>3
  <2> QED
    BY <1>1, <2>1, <2>2
<1>5. CASE \E i \in {j \in DOMAIN b \ matched : b[j].type = "message"} :
             r = [at |-> i, event |-> ToEvent(session, b[i].id, TRUE, b[i].role, 0)]
  <2>1. PICK i \in {j \in DOMAIN b \ matched : b[j].type = "message"} :
          r = [at |-> i, event |-> ToEvent(session, b[i].id, TRUE, b[i].role, 0)]
    BY <1>5
  <2>2. i \in 1..Len(b) /\ b[i].role \in Roles
    BY <1>2, <1>3
  <2> QED
    BY <1>1, <2>1, <2>2
<1>6. CASE \E i \in {j \in DOMAIN b : b[j].type \in {"custom", "compaction"}} :
             r = [at |-> i, event |-> ToEvent(session, b[i].id, FALSE, "system", 0)]
  <2>1. PICK i \in {j \in DOMAIN b : b[j].type \in {"custom", "compaction"}} :
          r = [at |-> i, event |-> ToEvent(session, b[i].id, FALSE, "system", 0)]
    BY <1>6
  <2>2. i \in 1..Len(b)
    BY <1>3
  <2> QED
    BY <1>1, <2>1, <2>2
<1> QED
  BY <1>4, <1>5, <1>6 DEF Recovered

(* The window begins somewhere.                                            *)
LEMMA FirstPlaceIs ==
  ASSUME NEW records \in SUBSET Place, NEW g \in GroupsOf(records)
  PROVE  /\ FirstPlace(records, g) \in Nat \ {0}
         /\ \E r \in records : r.at = FirstPlace(records, g)
<1> DEFINE S == {r.at : r \in {x \in records : x.event.kind # "system" /\ x.event.group = g}}
<1>1. S \in SUBSET (Nat \ {0}) /\ S # {}
  BY DEF Place, GroupsOf
<1>2. Min(S) \in S
  BY <1>1, LeastIs
<1> QED
  BY <1>1, <1>2 DEF FirstPlace

LEMMA SomeChosen ==
  ASSUME NEW n \in Nat, NEW records \in SUBSET Place, \A r \in records : r.at <= n,
         GroupsOf(records) # {}
  PROVE  Chosen(records) # {}
<1> DEFINE D == {n - FirstPlace(records, g) : g \in GroupsOf(records)}
<1>1. \A g \in GroupsOf(records) : FirstPlace(records, g) \in Nat /\ FirstPlace(records, g) <= n
  BY FirstPlaceIs
<1>2. D \in SUBSET Nat /\ D # {}
  BY <1>1
<1>3. PICK g \in GroupsOf(records) :
        \A h \in GroupsOf(records) : n - FirstPlace(records, g) <= n - FirstPlace(records, h)
  <2>1. Min(D) \in D /\ \A x \in D : Min(D) <= x
    BY <1>2, LeastIs
  <2> QED
    BY <2>1
<1>4. {h \in GroupsOf(records) : FirstPlace(records, h) > FirstPlace(records, g)} = {}
  BY <1>1, <1>3
<1>5. Cardinality({}) = 0 /\ 0 < WindowGroups
  BY FS_EmptySet, HostSessionAssumption
<1> QED
  BY <1>4, <1>5 DEF Chosen

LEMMA WindowIs ==
  ASSUME NEW n \in Nat, NEW records \in SUBSET Place, \A r \in records : r.at <= n
  PROVE  /\ SelectWindow(records).records \subseteq records
         /\ SelectWindow(records).start \in Nat \ {0}
<1> DEFINE systems == {r \in records : r.event.kind = "system"}
           F == {FirstPlace(records, g) : g \in Chosen(records)}
           A == {r.at : r \in systems}
<1>1. CASE records = {}
  BY <1>1 DEF SelectWindow
<1>2. CASE records # {} /\ Chosen(records) = {}
  <2>1. GroupsOf(records) = {}
    BY <1>2, SomeChosen
  <2>2. A # {}
    BY <1>2, <2>1 DEF GroupsOf
  <2>3. A \in SUBSET (Nat \ {0})
    BY DEF Place
  <2>4. Min(A) \in A
    BY <2>2, <2>3, LeastIs
  <2>5. SelectWindow(records) = [records |-> systems, start |-> Min(A)]
    BY <1>2 DEF SelectWindow
  <2> QED
    BY <2>3, <2>4, <2>5
<1>3. CASE records # {} /\ Chosen(records) # {}
  <2>1. F # {} /\ F \in SUBSET (Nat \ {0})
    <3>1. \A g \in Chosen(records) : g \in GroupsOf(records)
      BY DEF Chosen
    <3>2. \A g \in Chosen(records) : FirstPlace(records, g) \in Nat \ {0}
      BY <3>1, FirstPlaceIs
    <3> QED
      BY <1>3, <3>2
  <2>2. Min(F) \in F
    BY <2>1, LeastIs
  <2>3. SelectWindow(records) =
          [records |-> {r \in records : IF r.event.kind = "system" THEN r.at >= Min(F)
                                        ELSE r.event.group \in Chosen(records)},
           start |-> Min(F)]
    BY <1>3 DEF SelectWindow
  <2>4. SelectWindow(records).start = Min(F) /\ SelectWindow(records).records \subseteq records
    <3> HIDE DEF F
    <3> QED
      BY <2>3
  <2> QED
    BY <2>1, <2>2, <2>4
<1> QED
  BY <1>1, <1>2, <1>3

-----------------------------------------------------------------------------
(* Frames.                                                                 *)

LEMMA ClientFields ==
  ASSUME NEW f \in ClientFrame
  PROVE  /\ f.type \in {"hello", "user", "observed", "sync"}
         /\ f.rid \in Nat
         /\ f.type # "hello" => f.gen \in Nat
         /\ f.type \in {"user", "observed"} => f.req \in Requests
         /\ f.type = "sync" => f.before \in Optional(Nat)
  BY DEF ClientFrame

LEMMA ServerFields ==
  ASSUME NEW f \in ServerFrame
  PROVE  /\ f.type \in {"ready", "status", "started", "event", "fragment", "partial", "reset",
                        "bye", "error", "endpoint", "chunk"}
         /\ f.type \notin {"error", "endpoint"} => f.session \in Nat /\ f.gen \in Nat
         /\ f.type \in {"ready", "started", "error", "chunk"} => f.rid \in Nat
         /\ f.type \in {"status", "started"} =>
              /\ f.mid \in Nat
              /\ f.status \in {"received", "accepted", "committed", "unknown_delivery"}
         /\ f.type = "status" => f.req \in Requests
         /\ f.type = "event" => f.event \in Event
         /\ f.type = "fragment" => f.part \in Fragment
         /\ f.type = "partial" => f.id \in Nat /\ f.group \in Nat
         /\ f.type = "chunk" => f \in Chunk
  BY DEF ServerFrame, Chunk

(* What a lost connection leaves of a queue.                               *)
LEMMA PrefixIs ==
  ASSUME NEW S, NEW s \in Seq(S), NEW t \in Prefixes(s)
  PROVE  /\ t \in Seq(S) /\ Len(t) <= Len(s)
         /\ \A i \in 1..Len(t) : t[i] = s[i]
<1>1. PICK l \in 0..Len(s) : t = SubSeq(s, 1, l)
  BY DEF Prefixes
<1>2. Len(s) \in Nat /\ \A i \in 1..l : s[i] \in S
  BY ElementOfSeq, LenProperties
<1>3. /\ t \in Seq(S) /\ Len(t) = IF 1 <= l THEN l - 1 + 1 ELSE 0
      /\ \A i \in 1..l - 1 + 1 : t[i] = s[1 + i - 1]
  BY <1>1, <1>2, SubSeqProperties
<1> QED
  BY <1>2, <1>3

LEMMA SuffixIs ==
  ASSUME NEW S, NEW s \in Seq(S), NEW t \in Suffixes(s)
  PROVE  /\ t \in Seq(S)
         /\ \E k \in 0..Len(s) : Len(t) = Len(s) - k /\ \A i \in 1..Len(t) : t[i] = s[i + k]
<1>0. Len(s) \in Nat
  BY LenProperties
<1>1. CASE t = <<>>
  <2>1. t \in Seq(S) /\ Len(t) = 0
    BY <1>1, EmptySeq
  <2> QED
    BY <1>0, <2>1
<1>2. CASE \E l \in 1..Len(s) : t = SubSeq(s, l, Len(s))
  <2>1. PICK l \in 1..Len(s) : t = SubSeq(s, l, Len(s))
    BY <1>2
  <2>2. /\ t \in Seq(S) /\ Len(t) = IF l <= Len(s) THEN Len(s) - l + 1 ELSE 0
        /\ \A i \in 1..Len(s) - l + 1 : t[i] = s[l + i - 1]
    BY <1>0, <2>1, SubSeqProperties, ElementOfSeq
  <2>3. l - 1 \in 0..Len(s) /\ Len(t) = Len(s) - (l - 1)
    BY <1>0, <2>2
  <2>4. \A i \in 1..Len(t) : t[i] = s[i + (l - 1)]
    BY <2>2, <2>3
  <2> QED
    BY <2>2, <2>3, <2>4
<1> QED
  BY <1>1, <1>2 DEF Suffixes

-----------------------------------------------------------------------------
(* Types of what the host keeps.                                           *)

(* A binding serves one of the sessions so far.                            *)
BindingStands ==
  binding # None => binding.session \in 1..Len(branches) /\ IsFiniteSet(binding.cursors)

HostTypes == HostTypeOK /\ BindingStands

(* What a step may leave of the binding's service.                         *)
Serviceable(b) ==
  /\ b \in Service /\ Len(b.records) <= MaxRecords
  /\ b.session \in 1..Len(branches) /\ IsFiniteSet(b.cursors)

LEMMA BindingTyped ==
  ASSUME HostTypes
  PROVE  binding = None \/ Serviceable(binding)
  BY DEF HostTypes, HostTypeOK, ServiceTypeOK, BindingStands, Serviceable, Optional

LEMMA ServiceWith ==
  ASSUME NEW b, Serviceable(b), NEW records \in Seq(Record), Len(records) <= MaxRecords,
         NEW gen \in Nat
  PROVE  /\ Serviceable([b EXCEPT !.records = records])
         /\ Serviceable([b EXCEPT !.gen = gen, !.records = records])
<1>1. b \in Service
  BY DEF Serviceable
<1>2. [b EXCEPT !.records = records] \in Service
      /\ [b EXCEPT !.gen = gen, !.records = records] \in Service
  BY <1>1 DEF Service
<1> QED
  BY <1>1, <1>2 DEF Serviceable, Service

LEMMA PostTyped ==
  ASSUME NetTypeOK, NEW frames \in Seq(ServerFrame), Post(frames)
  PROVE  toPwa' \in Seq(ServerFrame)
  BY ConcatProperties DEF NetTypeOK, Post

LEMMA StatusTyped ==
  ASSUME NEW b \in Service, NEW r \in Requests, NEW mid \in Nat,
         NEW status \in {"received", "accepted", "committed", "unknown_delivery"}
  PROVE  StatusFrame(b, r, status, mid) \in ServerFrame
  BY DEF StatusFrame, ServerFrame, Service

(* A record that is touched keeps its place among as many.                 *)
LEMMA TouchedTyped ==
  ASSUME NEW records \in Seq(Record), NEW r \in Requests, NEW mid \in Nat,
         NEW status \in {"received", "accepted", "committed", "unknown_delivery"}
  PROVE  /\ Touched(records, r, status, mid) \in Seq(Record)
         /\ Recorded(records, r) # 0 => Len(Touched(records, r, status, mid)) = Len(records)
<1>1. [req |-> r, status |-> status, mid |-> mid] \in Record
  BY DEF Record
<1>2. /\ Without(records, r) \in Seq(Record)
      /\ Len(Without(records, r)) =
           IF Recorded(records, r) = 0 THEN Len(records) ELSE Len(records) - 1
  BY WithoutIs
<1>3. Len(records) \in Nat
  BY LenProperties
<1> QED
  BY <1>1, <1>2, <1>3, AppendProperties DEF Touched

LEMMA ConfirmTyped ==
  ASSUME HostTypes, NEW corr \in Optional(Correlation), NEW mid \in Nat,
         NEW status \in {"accepted", "committed"},
         NEW first \in Seq(ServerFrame), NEW last \in Seq(ServerFrame),
         Confirm(corr, status, mid, first, last)
  PROVE  /\ toPwa' \in Seq(ServerFrame)
         /\ binding' = None \/ Serviceable(binding')
<1>1. NetTypeOK
  BY DEF HostTypes, HostTypeOK
<1>2. CASE binding = None \/ corr = None \/ Recorded(binding.records, corr.req) = 0
  <2>1. UNCHANGED binding /\ Post(first)
    BY <1>2 DEF Confirm
  <2> QED
    BY <1>1, <2>1, BindingTyped, PostTyped
<1>3. CASE ~(binding = None \/ corr = None \/ Recorded(binding.records, corr.req) = 0)
  <2>1. Serviceable(binding) /\ corr \in Correlation
    BY <1>3, BindingTyped DEF Optional
  <2>2. binding \in Service /\ binding.records \in Seq(Record) /\ corr.req \in Requests
    BY <2>1 DEF Serviceable, Service, Correlation
  <2> DEFINE frame == StatusFrame(binding, corr.req, status, mid)
             records == Touched(binding.records, corr.req, status, mid)
  <2>3. frame \in ServerFrame
    BY <2>2, StatusTyped
  <2>4. records \in Seq(Record) /\ Len(records) = Len(binding.records)
    BY <1>3, <2>2, TouchedTyped
  <2>5. /\ binding' = [binding EXCEPT !.records = records]
        /\ Post(first \o <<frame>> \o last)
    BY <1>3 DEF Confirm
  <2>6. first \o <<frame>> \o last \in Seq(ServerFrame)
    <3> HIDE DEF frame
    <3>1. <<frame>> \in Seq(ServerFrame)
      BY <2>3
    <3>2. first \o <<frame>> \in Seq(ServerFrame)
      BY <3>1, ConcatProperties
    <3> QED
      BY <3>2, ConcatProperties
  <2>7. toPwa' \in Seq(ServerFrame)
    BY <1>1, <2>5, <2>6, PostTyped
  <2>8. Serviceable(binding')
    <3> HIDE DEF records
    <3> QED
      BY <2>1, <2>2, <2>4, <2>5 DEF Serviceable, Service
  <2> QED
    BY <2>7, <2>8
<1> QED
  BY <1>2, <1>3

LEMMA HostTypesAfter ==
  ASSUME HostTypes, SessionTypeOK', PiTypeOK', RuntimeTypeOK', NetTypeOK', left' \in [Kinds -> Nat],
         Len(branches) <= Len(branches'),
         binding' = None \/ Serviceable(binding'),
         bound' \in Nat, called' \in [Requests -> Seq(Call)], lapsed' \in Nat
  PROVE  HostTypes'
<1>1. Len(branches) \in Nat /\ Len(branches') \in Nat
  BY LenProperties DEF HostTypes, HostTypeOK, SessionTypeOK
<1>2. BindingStands'
  BY <1>1 DEF BindingStands, Serviceable
<1>3. ServiceTypeOK'
  BY DEF ServiceTypeOK, Serviceable, Optional
<1> QED
  BY <1>2, <1>3 DEF HostTypes, HostTypeOK

(* A step that leaves the branches and the service alone.                  *)
LEMMA HostTypesKept ==
  ASSUME HostTypes, SessionTypeOK', PiTypeOK', RuntimeTypeOK', NetTypeOK', left' \in [Kinds -> Nat],
         Len(branches) <= Len(branches'), UNCHANGED serviceVars
  PROVE  HostTypes'
<1>1. binding' = None \/ Serviceable(binding')
  BY BindingTyped DEF serviceVars
<1>2. bound' \in Nat /\ called' \in [Requests -> Seq(Call)] /\ lapsed' \in Nat
  BY DEF HostTypes, HostTypeOK, ServiceTypeOK, serviceVars
<1> QED
  BY <1>1, <1>2, HostTypesAfter

LEMMA SessionUnchanged ==
  ASSUME HostTypes, UNCHANGED sessionVars
  PROVE  SessionTypeOK' /\ Len(branches) <= Len(branches')
<1>1. Len(branches) \in Nat
  BY LenProperties DEF HostTypes, HostTypeOK, SessionTypeOK
<1> QED
  BY <1>1 DEF HostTypes, HostTypeOK, SessionTypeOK, sessionVars

LEMMA PiUnchanged ==
  ASSUME HostTypes, UNCHANGED piVars
  PROVE  PiTypeOK'
  BY DEF HostTypes, HostTypeOK, PiTypeOK, piVars

LEMMA RuntimeUnchanged ==
  ASSUME HostTypes, UNCHANGED runtimeVars
  PROVE  RuntimeTypeOK'
  BY DEF HostTypes, HostTypeOK, RuntimeTypeOK, runtimeVars

LEMMA NetUnchanged ==
  ASSUME HostTypes, UNCHANGED netVars
  PROVE  NetTypeOK'
  BY DEF HostTypes, HostTypeOK, NetTypeOK, netVars

LEMMA BoundsTyped ==
  ASSUME HostTypes, NEW kind \in Kinds, Use(kind)
  PROVE  left' \in [Kinds -> Nat]
  BY DEF HostTypes, HostTypeOK, Use

LEMMA CutsTyped ==
  ASSUME HostTypes, NEW frames, Cuts(frames)
  PROVE  left' \in [Kinds -> Nat]
<1>1. "cut" \in Kinds
  BY DEF Kinds
<1> QED
  BY <1>1, BoundsTyped DEF Cuts, HostTypes, HostTypeOK

LEMMA EntryTyped ==
  ASSUME HostTypes, NEW entry \in Entry, AppendEntry(entry)
  PROVE  /\ branches' \in Seq(Seq(Entry)) /\ branches' # <<>>
         /\ Len(branches') = Len(branches)
<1>1. branches \in Seq(Seq(Entry)) /\ branches # <<>>
  BY DEF HostTypes, HostTypeOK, SessionTypeOK
<1>2. Len(branches) \in Nat \ {0} /\ Current \in 1..Len(branches)
  BY <1>1, EmptySeq DEF Current
<1>3. Append(branches[Current], entry) \in Seq(Entry)
  BY <1>1, <1>2, ElementOfSeq, AppendProperties
<1>4. branches' = [branches EXCEPT ![Current] = Append(branches[Current], entry)]
  BY DEF AppendEntry
<1>5. branches' \in Seq(Seq(Entry)) /\ Len(branches') = Len(branches)
  BY <1>1, <1>2, <1>3, <1>4, ExceptSeq
<1>6. branches' # <<>>
  BY <1>2, <1>5, EmptySeq
<1> QED
  BY <1>5, <1>6

LEMMA AttachedTyped ==
  ASSUME NEW r \in Runtime, NEW session \in Nat
  PROVE  Attached(r, session) \in Runtime /\ Attached(r, session).attached = session
  BY DEF Attached, Reset, Runtime, Optional

LEMMA CurrentIs ==
  ASSUME HostTypes
  PROVE  /\ Current \in Nat \ {0} /\ Current \in 1..Len(branches)
         /\ \A s \in 1..Len(branches) : branches[s] \in Seq(Entry)
<1>1. branches \in Seq(Seq(Entry)) /\ branches # <<>>
  BY DEF HostTypes, HostTypeOK, SessionTypeOK
<1> QED
  BY <1>1, EmptySeq, ElementOfSeq DEF Current

LEMMA MessageStartTyped ==
  ASSUME HostTypes, NEW role \in Roles, NEW corr \in Optional(Correlation),
         NEW from \in Runtime, OnMessageStart(role, corr, from),
         inbox' \in Seq(Optional(Correlation)), left' \in [Kinds -> Nat]
  PROVE  HostTypes'
<1> DEFINE r == Attached(from, Current)
           e == minted + 1
           g == IF r.active /\ r.group # 0 THEN r.group ELSE e
           started == IF corr = None \/ binding = None THEN <<>>
                      ELSE <<[type |-> "started", session |-> binding.session, gen |-> binding.gen,
                              rid |-> corr.rid, status |-> "accepted", mid |-> e]>>
           marker == [type |-> "marker", id |-> e, role |-> role, group |-> g]
<1>1. r \in Runtime
  BY AttachedTyped, CurrentIs
<1>2. e \in Nat \ {0} /\ minted \in Nat
  BY DEF HostTypes, HostTypeOK, SessionTypeOK
<1>3. g \in Nat
  BY <1>1, <1>2 DEF Runtime
<1>4. marker \in Entry
  <2> HIDE DEF e, g
  <2> QED
    BY <1>2, <1>3 DEF Entry
<1>5. started \in Seq(ServerFrame)
  <2>1. CASE corr = None \/ binding = None
    BY <2>1
  <2>2. CASE ~(corr = None \/ binding = None)
    <3>1. binding \in Service /\ corr \in Correlation
      BY <2>2, BindingTyped DEF Serviceable, Optional
    <3>2. [type |-> "started", session |-> binding.session, gen |-> binding.gen,
           rid |-> corr.rid, status |-> "accepted", mid |-> e] \in ServerFrame
      BY <1>2, <3>1 DEF ServerFrame, Service, Correlation
    <3> QED
      BY <2>2, <3>2
  <2> QED
    BY <2>1, <2>2
<1>6. AppendEntry(marker) /\ Confirm(corr, "accepted", e, <<>>, started)
  BY DEF OnMessageStart
<1>7. /\ branches' \in Seq(Seq(Entry)) /\ branches' # <<>>
      /\ Len(branches') = Len(branches) /\ Len(branches) \in Nat
  BY <1>4, <1>6, EntryTyped, CurrentIs DEF Current
<1>8. toPwa' \in Seq(ServerFrame) /\ (binding' = None \/ Serviceable(binding'))
  <2> HIDE DEF started, e
  <2>1. <<>> \in Seq(ServerFrame) /\ e \in Nat
    BY <1>2
  <2> QED
    BY <1>5, <1>6, <2>1, ConfirmTyped
<1>9. SessionTypeOK'
  BY <1>2, <1>7 DEF OnMessageStart, HostTypes, HostTypeOK, SessionTypeOK
<1>10. PiTypeOK'
  <2>1. sdk' = [running |-> TRUE, corr |-> corr, msg |-> [id |-> e, role |-> role]]
    BY DEF OnMessageStart
  <2> QED
    BY <1>2, <2>1 DEF PiTypeOK, Optional
<1>11. RuntimeTypeOK'
  <2> DEFINE pending == [id |-> e, role |-> role, group |-> g, corr |-> corr, session |-> Current]
  <2>1. pending \in PendingMessage
    <3> HIDE DEF e, g
    <3> QED
      BY <1>2, <1>3, CurrentIs DEF PendingMessage
  <2>2. rt' = [r EXCEPT !.active = TRUE, !.group = g, !.pending = pending]
    BY DEF OnMessageStart
  <2>3. rt' \in Runtime
    <3> HIDE DEF r, g, pending
    <3> QED
      BY <1>1, <1>3, <2>1, <2>2 DEF Runtime, Optional
  <2> QED
    BY <2>3 DEF OnMessageStart, HostTypes, HostTypeOK, RuntimeTypeOK
<1>12. NetTypeOK' /\ bound' \in Nat /\ called' \in [Requests -> Seq(Call)] /\ lapsed' \in Nat
  BY <1>8 DEF OnMessageStart, HostTypes, HostTypeOK, NetTypeOK, ServiceTypeOK
<1> QED
  BY <1>7, <1>8, <1>9, <1>10, <1>11, <1>12, HostTypesAfter

LEMMA StartRunTyped ==
  ASSUME HostTypes, StartRun
  PROVE  HostTypes'
<1>1. PICK i \in DOMAIN inbox :
        /\ inbox' = RemoveAt(inbox, i)
        /\ OnMessageStart("user", inbox[i], [rt EXCEPT !.active = TRUE, !.group = 0])
  BY DEF StartRun
<1>2. inbox \in Seq(Optional(Correlation)) /\ i \in 1..Len(inbox)
  BY LenProperties DEF HostTypes, HostTypeOK, PiTypeOK
<1>3. inbox[i] \in Optional(Correlation) /\ inbox' \in Seq(Optional(Correlation))
  BY <1>1, <1>2, ElementOfSeq, RemovedIs
<1>4. [rt EXCEPT !.active = TRUE, !.group = 0] \in Runtime
  BY DEF HostTypes, HostTypeOK, RuntimeTypeOK, Runtime
<1>5. left' \in [Kinds -> Nat]
  BY BoundsTyped DEF StartRun, Kinds
<1>6. "user" \in Roles
  BY DEF Roles
<1> QED
  BY <1>1, <1>3, <1>4, <1>5, <1>6, MessageStartTyped

LEMMA SteerTyped ==
  ASSUME HostTypes, Steer
  PROVE  HostTypes'
<1>1. inbox' \in Seq(Optional(Correlation))
  BY HeadTailProperties DEF Steer, HostTypes, HostTypeOK, PiTypeOK
<1>2. left' \in [Kinds -> Nat]
  BY BoundsTyped DEF Steer, Kinds
<1>3. "user" \in Roles /\ sdk.corr \in Optional(Correlation) /\ rt \in Runtime
  BY DEF Roles, HostTypes, HostTypeOK, PiTypeOK, RuntimeTypeOK
<1> QED
  BY <1>1, <1>2, <1>3, MessageStartTyped DEF Steer

LEMMA SpeakTyped ==
  ASSUME HostTypes, NEW role \in Roles, Speak(role)
  PROVE  HostTypes'
<1>1. inbox' \in Seq(Optional(Correlation))
  BY DEF Speak, HostTypes, HostTypeOK, PiTypeOK
<1>2. left' \in [Kinds -> Nat]
  BY BoundsTyped DEF Speak, Kinds
<1>3. sdk.corr \in Optional(Correlation) /\ rt \in Runtime
  BY DEF HostTypes, HostTypeOK, PiTypeOK, RuntimeTypeOK
<1> QED
  BY <1>1, <1>2, <1>3, MessageStartTyped DEF Speak

LEMMA StreamTyped ==
  ASSUME HostTypes, Stream
  PROVE  HostTypes'
<1>1. left' \in [Kinds -> Nat]
  BY BoundsTyped DEF Stream, Kinds
<1>2. toPwa' \in Seq(ServerFrame)
  <2> DEFINE frame == [type |-> "partial", session |-> Current, gen |-> generation,
                       id |-> rt.pending.id, group |-> rt.pending.group]
  <2>1. rt.pending \in PendingMessage
    BY DEF Stream, HostTypes, HostTypeOK, RuntimeTypeOK, Runtime, Optional
  <2>2. frame \in ServerFrame
    BY <2>1, CurrentIs DEF PendingMessage, ServerFrame, HostTypes, HostTypeOK, SessionTypeOK
  <2>3. <<frame>> \in Seq(ServerFrame)
    <3> HIDE DEF frame
    <3> QED
      BY <2>2
  <2> QED
    BY <2>3, PostTyped DEF Stream, HostTypes, HostTypeOK, NetTypeOK
<1>3. NetTypeOK'
  BY <1>2 DEF Stream, HostTypes, HostTypeOK, NetTypeOK
<1>4. UNCHANGED sessionVars /\ UNCHANGED piVars /\ UNCHANGED runtimeVars /\ UNCHANGED serviceVars
  BY DEF Stream
<1> QED
  BY <1>1, <1>3, <1>4, SessionUnchanged, PiUnchanged, RuntimeUnchanged, HostTypesKept

LEMMA EndMessageTyped ==
  ASSUME HostTypes, EndMessage
  PROVE  HostTypes'
<1> DEFINE r == Attached(rt, Current)
           entry == [type |-> "message", id |-> sdk.msg.id, role |-> sdk.msg.role, group |-> 0]
<1>1. r \in Runtime
  BY AttachedTyped, CurrentIs DEF HostTypes, HostTypeOK, RuntimeTypeOK
<1>2. RuntimeTypeOK'
  <2>1. rt' = [r EXCEPT !.pending = None]
        /\ ended' = IF r.pending = None THEN ended ELSE Append(ended, r.pending)
    BY DEF EndMessage
  <2>2. rt' \in Runtime
    <3> HIDE DEF r
    <3> QED
      BY <1>1, <2>1 DEF Runtime, Optional
  <2>3. r.pending = None \/ r.pending \in PendingMessage
    <3> HIDE DEF r
    <3> QED
      BY <1>1 DEF Runtime, Optional
  <2>4. ended' \in Seq(PendingMessage)
    BY <2>1, <2>3, AppendProperties DEF HostTypes, HostTypeOK, RuntimeTypeOK
  <2> QED
    BY <2>2, <2>4 DEF EndMessage, HostTypes, HostTypeOK, RuntimeTypeOK
<1>3. sdk.msg \in [id : Nat \ {0}, role : Roles]
  BY DEF EndMessage, HostTypes, HostTypeOK, PiTypeOK, Optional
<1>4. entry \in Entry
  BY <1>3 DEF Entry
<1>5. /\ branches' \in Seq(Seq(Entry)) /\ branches' # <<>>
      /\ Len(branches') = Len(branches) /\ Len(branches) \in Nat
  BY <1>4, EntryTyped, CurrentIs DEF EndMessage, Current
<1>6. SessionTypeOK'
  BY <1>5 DEF EndMessage, HostTypes, HostTypeOK, SessionTypeOK
<1>7. PiTypeOK'
  BY DEF EndMessage, HostTypes, HostTypeOK, PiTypeOK, Optional
<1>8. NetTypeOK' /\ left' \in [Kinds -> Nat] /\ UNCHANGED serviceVars
  BY NetUnchanged DEF EndMessage, HostTypes, HostTypeOK
<1> QED
  BY <1>2, <1>5, <1>6, <1>7, <1>8, HostTypesKept

LEMMA EndRunTyped ==
  ASSUME HostTypes, EndRun
  PROVE  HostTypes'
<1>1. left' \in [Kinds -> Nat]
  BY BoundsTyped DEF EndRun, Kinds, HostTypes, HostTypeOK
<1>2. PiTypeOK'
  BY DEF EndRun, HostTypes, HostTypeOK, PiTypeOK, Optional
<1>3. RuntimeTypeOK'
  BY DEF EndRun, HostTypes, HostTypeOK, RuntimeTypeOK, Runtime, Optional
<1>4. UNCHANGED sessionVars /\ UNCHANGED serviceVars /\ UNCHANGED netVars
  BY DEF EndRun
<1> QED
  BY <1>1, <1>2, <1>3, <1>4, SessionUnchanged, NetUnchanged, HostTypesKept

LEMMA FragmentsTyped ==
  ASSUME NEW event \in Event
  PROVE  /\ DOMAIN Fragments(event) = 1..2
         /\ \A i \in 1..2 : Fragments(event)[i] \in Fragment /\ Fragments(event)[i].event = event
  BY DEF Fragments, Fragment

LEMMA PublishFramesTyped ==
  ASSUME NEW b \in Service, NEW event \in Event, NEW frames \in PublishFrames(b, event)
  PROVE  frames \in Seq(ServerFrame)
<1>1. b.session \in Nat /\ b.gen \in Nat
  BY DEF Service
<1>2. CASE frames = <<[type |-> "event", session |-> b.session, gen |-> b.gen, event |-> event]>>
  <2>1. [type |-> "event", session |-> b.session, gen |-> b.gen, event |-> event] \in ServerFrame
    BY <1>1 DEF ServerFrame
  <2> QED
    BY <1>2, <2>1
<1>3. CASE frames = [i \in 1..2 |-> [type |-> "fragment", session |-> b.session, gen |-> b.gen,
                                     part |-> Fragments(event)[i]]]
  <2>1. \A i \in 1..2 : [type |-> "fragment", session |-> b.session, gen |-> b.gen,
                         part |-> Fragments(event)[i]] \in ServerFrame
    BY <1>1, FragmentsTyped DEF ServerFrame
  <2>2. frames \in [1..2 -> ServerFrame]
    BY <1>3, <2>1
  <2> QED
    BY <2>2, NumberedIsSeq
<1> QED
  BY <1>2, <1>3 DEF PublishFrames

LEMMA PublishTyped ==
  ASSUME HostTypes, Publish
  PROVE  HostTypes'
<1> DEFINE p == Head(ended)
           event == ToEvent(p.session, p.id, FALSE, p.role, p.group)
<1>1. p \in PendingMessage /\ ended' \in Seq(PendingMessage)
  BY HeadTailProperties DEF Publish, HostTypes, HostTypeOK, RuntimeTypeOK
<1>2. event \in Event
  <2> HIDE DEF p
  <2> QED
    BY <1>1 DEF ToEvent, Event, PendingMessage, HostTypes, HostTypeOK, SessionTypeOK
<1>3. /\ rt' \in Runtime /\ toPwa' \in Seq(ServerFrame) /\ left' \in [Kinds -> Nat]
      /\ binding' = None \/ Serviceable(binding')
  <2>1. CASE UNCHANGED <<rt, binding, toPwa, left>>
    BY <2>1, BindingTyped DEF HostTypes, HostTypeOK, RuntimeTypeOK, NetTypeOK
  <2>2. CASE /\ rt' = [rt EXCEPT !.published = @ \cup {p.id}]
             /\ \E frames \in IF binding = None THEN {<<>>} ELSE PublishFrames(binding, event) :
                  Cuts(frames) /\ Confirm(p.corr, "committed", p.id, frames, <<>>)
    <3>1. PICK frames \in IF binding = None THEN {<<>>} ELSE PublishFrames(binding, event) :
            Cuts(frames) /\ Confirm(p.corr, "committed", p.id, frames, <<>>)
      BY <2>2
    <3>2. frames \in Seq(ServerFrame) /\ <<>> \in Seq(ServerFrame)
      <4>1. CASE binding = None
        BY <3>1, <4>1
      <4>2. CASE binding # None
        <5> HIDE DEF event
        <5> QED
          BY <1>2, <3>1, <4>2, BindingTyped, PublishFramesTyped DEF Serviceable
      <4> QED
        BY <4>1, <4>2
    <3>3. p.corr \in Optional(Correlation) /\ p.id \in Nat
      BY <1>1 DEF PendingMessage
    <3>4. toPwa' \in Seq(ServerFrame) /\ (binding' = None \/ Serviceable(binding'))
      BY <3>1, <3>2, <3>3, ConfirmTyped
    <3>5. left' \in [Kinds -> Nat]
      BY <3>1, CutsTyped
    <3>6. rt' \in Runtime
      BY <2>2, <3>3 DEF HostTypes, HostTypeOK, RuntimeTypeOK, Runtime
    <3> QED
      BY <3>4, <3>5, <3>6
  <2> QED
    BY <2>1, <2>2 DEF Publish
<1>4. UNCHANGED sessionVars /\ UNCHANGED piVars /\ UNCHANGED <<strayed, bound, called, lapsed, toHost, linked>>
  BY DEF Publish
<1>5. RuntimeTypeOK' /\ NetTypeOK'
  BY <1>1, <1>3, <1>4 DEF HostTypes, HostTypeOK, RuntimeTypeOK, NetTypeOK
<1>6. bound' \in Nat /\ called' \in [Requests -> Seq(Call)] /\ lapsed' \in Nat
  BY <1>4 DEF HostTypes, HostTypeOK, ServiceTypeOK
<1> QED
  BY <1>3, <1>4, <1>5, <1>6, SessionUnchanged, PiUnchanged, HostTypesAfter

LEMMA WriteEntryTyped ==
  ASSUME HostTypes, NEW type \in {"custom", "custom_message", "compaction"}, WriteEntry(type)
  PROVE  HostTypes'
<1>1. minted \in Nat
  BY DEF HostTypes, HostTypeOK, SessionTypeOK
<1>2. [type |-> type, id |-> minted + 1, role |-> None, group |-> 0] \in Entry
  BY <1>1 DEF Entry
<1>3. /\ branches' \in Seq(Seq(Entry)) /\ branches' # <<>>
      /\ Len(branches') = Len(branches) /\ Len(branches) \in Nat
  BY <1>2, EntryTyped, CurrentIs DEF WriteEntry, Current
<1>4. SessionTypeOK'
  BY <1>3 DEF WriteEntry, HostTypes, HostTypeOK, SessionTypeOK
<1>5. left' \in [Kinds -> Nat]
  BY BoundsTyped DEF WriteEntry, Kinds
<1>6. UNCHANGED piVars /\ UNCHANGED runtimeVars /\ UNCHANGED netVars /\ UNCHANGED serviceVars
  BY DEF WriteEntry
<1> QED
  BY <1>3, <1>4, <1>5, <1>6, PiUnchanged, RuntimeUnchanged, NetUnchanged, HostTypesKept

LEMMA TypePromptTyped ==
  ASSUME HostTypes, TypePrompt
  PROVE  HostTypes'
<1>1. PiTypeOK'
  <2>1. inbox' \in Seq(Optional(Correlation))
    BY AppendProperties DEF TypePrompt, HostTypes, HostTypeOK, PiTypeOK, Optional
  <2> QED
    BY <2>1 DEF TypePrompt, HostTypes, HostTypeOK, PiTypeOK
<1>2. left' \in [Kinds -> Nat]
  BY BoundsTyped DEF TypePrompt, Kinds
<1>3. UNCHANGED sessionVars /\ UNCHANGED runtimeVars /\ UNCHANGED netVars /\ UNCHANGED serviceVars
  BY DEF TypePrompt
<1> QED
  BY <1>1, <1>2, <1>3, SessionUnchanged, RuntimeUnchanged, NetUnchanged, HostTypesKept

LEMMA FinishReplacementTyped ==
  ASSUME HostTypes, NEW session \in Nat, FinishSessionReplacement(session)
  PROVE  /\ replaced' \in BOOLEAN /\ toPwa' \in Seq(ServerFrame)
         /\ binding' = None \/ Serviceable(binding')
<1>1. toPwa' \in Seq(ServerFrame)
  <2>1. CASE replaced /\ binding # None
    <3> DEFINE frame == [type |-> "bye", session |-> session, gen |-> binding.gen]
    <3>1. frame \in ServerFrame
      BY <2>1, BindingTyped DEF Serviceable, Service, ServerFrame
    <3>2. <<frame>> \in Seq(ServerFrame)
      <4> HIDE DEF frame
      <4> QED
        BY <3>1
    <3> QED
      BY <2>1, <3>2, PostTyped DEF FinishSessionReplacement, HostTypes, HostTypeOK
  <2>2. CASE ~(replaced /\ binding # None)
    BY <2>2 DEF FinishSessionReplacement, HostTypes, HostTypeOK, NetTypeOK
  <2> QED
    BY <2>1, <2>2
<1> QED
  BY <1>1, BindingTyped DEF FinishSessionReplacement

LEMMA ShutdownTyped ==
  ASSUME HostTypes, ShutdownSession
  PROVE  HostTypes'
<1>1. SessionTypeOK' /\ Len(branches) <= Len(branches')
  <2>1. Len(branches) \in Nat
    BY CurrentIs DEF Current
  <2>2. UNCHANGED <<branches, generation, minted>> /\ live' = FALSE /\ replaced' = TRUE
        /\ bridge' \in BOOLEAN
    BY DEF ShutdownSession
  <2>3. Len(branches) <= Len(branches')
    BY <2>1, <2>2
  <2>4. live' \in BOOLEAN /\ replaced' \in BOOLEAN /\ bridge' \in BOOLEAN
    BY <2>2
  <2>5. /\ branches' \in Seq(Seq(Entry)) /\ branches' # <<>>
        /\ generation' \in Nat /\ minted' \in Nat
    BY <2>2 DEF HostTypes, HostTypeOK, SessionTypeOK
  <2> QED
    BY <2>3, <2>4, <2>5 DEF SessionTypeOK
<1>2. PiTypeOK'
  BY EmptySeq DEF ShutdownSession, HostTypes, HostTypeOK, PiTypeOK
<1>3. left' \in [Kinds -> Nat]
  BY BoundsTyped DEF ShutdownSession, Kinds
<1>4. UNCHANGED runtimeVars /\ UNCHANGED netVars /\ UNCHANGED serviceVars
  BY DEF ShutdownSession
<1> QED
  BY <1>1, <1>2, <1>3, <1>4, RuntimeUnchanged, NetUnchanged, HostTypesKept

LEMMA StartSessionTyped ==
  ASSUME HostTypes, StartSession
  PROVE  HostTypes'
<1>1. Len(branches) \in Nat /\ Current \in Nat /\ branches \in Seq(Seq(Entry)) /\ generation \in Nat
  BY CurrentIs DEF Current, HostTypes, HostTypeOK, SessionTypeOK
<1>2. /\ branches' \in Seq(Seq(Entry)) /\ branches' # <<>>
      /\ Len(branches') = Len(branches) + 1
  <2>1. <<>> \in Seq(Entry)
    BY EmptySeq
  <2> QED
    BY <1>1, <2>1, AppendProperties DEF StartSession
<1>3. replaced' \in BOOLEAN /\ toPwa' \in Seq(ServerFrame) /\ (binding' = None \/ Serviceable(binding'))
  <2>1. CASE bridge
    BY <2>1, BindingTyped DEF StartSession, HostTypes, HostTypeOK, SessionTypeOK, NetTypeOK
  <2>2. CASE ~bridge
    BY <1>1, <2>2, FinishReplacementTyped DEF StartSession
  <2> QED
    BY <2>1, <2>2
<1>4. SessionTypeOK'
  BY <1>1, <1>2, <1>3 DEF StartSession, HostTypes, HostTypeOK, SessionTypeOK
<1>5. RuntimeTypeOK'
  BY <1>1 DEF StartSession, Reset, Runtime, Optional, HostTypes, HostTypeOK, RuntimeTypeOK
<1>6. NetTypeOK' /\ left' \in [Kinds -> Nat] /\ UNCHANGED piVars
  BY <1>3 DEF StartSession, HostTypes, HostTypeOK, NetTypeOK
<1>7. bound' \in Nat /\ called' \in [Requests -> Seq(Call)] /\ lapsed' \in Nat
  BY DEF StartSession, HostTypes, HostTypeOK, ServiceTypeOK
<1>8. Len(branches) <= Len(branches')
  BY <1>1, <1>2
<1> QED
  BY <1>3, <1>4, <1>5, <1>6, <1>7, <1>8, PiUnchanged, HostTypesAfter

LEMMA EndBridgeTyped ==
  ASSUME HostTypes, EndBridge
  PROVE  HostTypes'
<1>1. Current - 1 \in Nat
  BY CurrentIs
<1>2. replaced' \in BOOLEAN /\ toPwa' \in Seq(ServerFrame) /\ (binding' = None \/ Serviceable(binding'))
  BY <1>1, FinishReplacementTyped DEF EndBridge
<1>3. SessionTypeOK' /\ Len(branches) <= Len(branches')
  <2>1. Len(branches) \in Nat
    BY CurrentIs DEF Current
  <2>2. UNCHANGED <<branches, generation, minted, live>> /\ bridge' = FALSE
    BY DEF EndBridge
  <2>3. Len(branches) <= Len(branches')
    BY <2>1, <2>2
  <2>4. live' \in BOOLEAN /\ replaced' \in BOOLEAN /\ bridge' \in BOOLEAN
    BY <1>2, <2>2 DEF HostTypes, HostTypeOK, SessionTypeOK
  <2>5. /\ branches' \in Seq(Seq(Entry)) /\ branches' # <<>>
        /\ generation' \in Nat /\ minted' \in Nat
    BY <2>2 DEF HostTypes, HostTypeOK, SessionTypeOK
  <2> QED
    BY <2>3, <2>4, <2>5 DEF SessionTypeOK
<1>4. NetTypeOK' /\ left' \in [Kinds -> Nat] /\ UNCHANGED piVars /\ UNCHANGED runtimeVars
  BY <1>2 DEF EndBridge, HostTypes, HostTypeOK, NetTypeOK
<1>5. bound' \in Nat /\ called' \in [Requests -> Seq(Call)] /\ lapsed' \in Nat
  BY DEF EndBridge, HostTypes, HostTypeOK, ServiceTypeOK
<1> QED
  BY <1>2, <1>3, <1>4, <1>5, PiUnchanged, RuntimeUnchanged, HostTypesAfter

LEMMA MoveInTreeTyped ==
  ASSUME HostTypes, MoveInTree
  PROVE  HostTypes'
<1>1. PICK b \in Prefixes(branches[Current]) : branches' = [branches EXCEPT ![Current] = b]
  BY DEF MoveInTree
<1>2. /\ branches \in Seq(Seq(Entry)) /\ generation \in Nat /\ Current \in 1..Len(branches)
      /\ branches[Current] \in Seq(Entry) /\ Len(branches) \in Nat \ {0}
  BY CurrentIs DEF Current, HostTypes, HostTypeOK, SessionTypeOK
<1>3. b \in Seq(Entry)
  BY <1>2, PrefixIs
<1>4. branches' \in Seq(Seq(Entry)) /\ Len(branches') = Len(branches)
  BY <1>1, <1>2, <1>3, ExceptSeq
<1>5. branches' # <<>>
  BY <1>2, <1>4, EmptySeq
<1>6. SessionTypeOK'
  BY <1>2, <1>4, <1>5 DEF MoveInTree, HostTypes, HostTypeOK, SessionTypeOK
<1>7. toPwa' \in Seq(ServerFrame) /\ (binding' = None \/ Serviceable(binding'))
  <2>1. CASE binding = None
    BY <2>1 DEF MoveInTree, HostTypes, HostTypeOK, NetTypeOK
  <2>2. CASE binding # None
    <3> DEFINE frame == [type |-> "reset", session |-> binding.session, gen |-> generation + 1]
    <3>1. Serviceable(binding)
      BY <2>2, BindingTyped
    <3>2. binding' = [binding EXCEPT !.gen = generation + 1, !.records = <<>>]
      BY <2>2 DEF MoveInTree
    <3> DEFINE none == <<>>
    <3>3. none \in Seq(Record) /\ Len(none) <= MaxRecords
      BY EmptySeq, HostSessionAssumption
    <3>4. Serviceable(binding')
      <4>1. generation + 1 \in Nat
        BY <1>2
      <4>2. binding' = [binding EXCEPT !.gen = generation + 1, !.records = none]
        BY <3>2
      <4> HIDE DEF none
      <4> QED
        BY <3>1, <3>3, <4>1, <4>2, ServiceWith
    <3>5. frame \in ServerFrame
      BY <1>2, <3>1 DEF Serviceable, Service, ServerFrame
    <3>6. <<frame>> \in Seq(ServerFrame)
      <4> HIDE DEF frame
      <4> QED
        BY <3>5
    <3>7. Post(<<frame>>) \/ UNCHANGED toPwa
      BY <2>2 DEF MoveInTree
    <3>8. toPwa' \in Seq(ServerFrame)
      BY <3>6, <3>7, PostTyped DEF HostTypes, HostTypeOK, NetTypeOK
    <3> QED
      BY <3>4, <3>8
  <2> QED
    BY <2>1, <2>2
<1>8. NetTypeOK' /\ UNCHANGED piVars /\ UNCHANGED runtimeVars
  BY <1>7 DEF MoveInTree, HostTypes, HostTypeOK, NetTypeOK
<1>9. bound' \in Nat /\ called' \in [Requests -> Seq(Call)] /\ lapsed' \in Nat
  BY DEF MoveInTree, HostTypes, HostTypeOK, ServiceTypeOK
<1>10. left' \in [Kinds -> Nat]
  BY BoundsTyped DEF MoveInTree, Kinds
<1>11. Len(branches) <= Len(branches')
  BY <1>2, <1>4
<1> QED
  BY <1>6, <1>7, <1>8, <1>9, <1>10, <1>11, PiUnchanged, RuntimeUnchanged, HostTypesAfter

LEMMA ReconnectHostTyped ==
  ASSUME HostTypes, ReconnectHost
  PROVE  HostTypes'
<1>1. toHost' \in Seq(ClientFrame)
  BY SuffixIs DEF ReconnectHost, HostTypes, HostTypeOK, NetTypeOK
<1>2. toPwa' \in Seq(ServerFrame)
  <2>1. PICK kept \in Prefixes(toPwa), seen \in BOOLEAN :
          toPwa' = IF linked /\ seen THEN Append(kept, [type |-> "endpoint"]) ELSE kept
    BY DEF ReconnectHost
  <2>2. kept \in Seq(ServerFrame)
    BY PrefixIs DEF HostTypes, HostTypeOK, NetTypeOK
  <2>3. [type |-> "endpoint"] \in ServerFrame
    BY DEF ServerFrame
  <2> QED
    BY <2>1, <2>2, <2>3, AppendProperties
<1>3. NetTypeOK' /\ UNCHANGED sessionVars /\ UNCHANGED piVars /\ UNCHANGED runtimeVars
  BY <1>1, <1>2 DEF ReconnectHost, HostTypes, HostTypeOK, NetTypeOK
<1>4. binding' = None /\ bound' \in Nat /\ called' \in [Requests -> Seq(Call)] /\ lapsed' \in Nat
  BY DEF ReconnectHost, HostTypes, HostTypeOK, ServiceTypeOK
<1>5. left' \in [Kinds -> Nat]
  BY BoundsTyped DEF ReconnectHost, Kinds
<1> QED
  BY <1>3, <1>4, <1>5, SessionUnchanged, PiUnchanged, RuntimeUnchanged, HostTypesAfter

LEMMA ExpireRecordTyped ==
  ASSUME HostTypes, ExpireRecord
  PROVE  HostTypes'
<1>1. Serviceable(binding) /\ binding.records # <<>>
  BY BindingTyped DEF ExpireRecord
<1>2. binding.records \in Seq(Record)
  BY <1>1 DEF Serviceable, Service
<1>3. Tail(binding.records) \in Seq(Record) /\ Len(Tail(binding.records)) = Len(binding.records) - 1
      /\ Len(binding.records) \in Nat
  BY <1>1, <1>2, HeadTailProperties, LenProperties
<1>4. Serviceable(binding')
  <2>1. binding' = [binding EXCEPT !.records = Tail(binding.records)]
    BY DEF ExpireRecord
  <2>2. MaxRecords \in Nat
    BY HostSessionAssumption
  <2>3. Len(Tail(binding.records)) <= MaxRecords
    BY <1>1, <1>3, <2>2 DEF Serviceable
  <2>4. 0 \in Nat
    OBVIOUS
  <2> QED
    BY <1>1, <1>3, <2>1, <2>3, <2>4, ServiceWith
<1>5. bound' \in Nat /\ called' \in [Requests -> Seq(Call)] /\ lapsed' \in Nat
  BY DEF ExpireRecord, HostTypes, HostTypeOK, ServiceTypeOK
<1>6. left' \in [Kinds -> Nat]
  BY BoundsTyped DEF ExpireRecord, Kinds
<1>7. UNCHANGED sessionVars /\ UNCHANGED piVars /\ UNCHANGED runtimeVars /\ UNCHANGED netVars
  BY DEF ExpireRecord
<1> QED
  BY <1>4, <1>5, <1>6, <1>7, SessionUnchanged, PiUnchanged, RuntimeUnchanged, NetUnchanged,
     HostTypesAfter

-----------------------------------------------------------------------------
(* Types: the service.                                                     *)

Payload == [events : SUBSET Event, fragments : SUBSET Fragment]

(* What a payload carries is what was to be paged.                         *)
Carries(payload, es) ==
  /\ payload \in Payload /\ payload.events \subseteq es
  /\ \A p \in payload.fragments : p.event \in es

LEMMA PayloadsCarry ==
  ASSUME NEW records \in SUBSET Place, NEW payloads \in Payloads(records)
  PROVE  /\ payloads \in Seq(Payload)
         /\ \A i \in 1..Len(payloads) : Carries(payloads[i], {r.event : r \in records})
<1> DEFINE es == {r.event : r \in records}
           Before(r) == {x.event : x \in {y \in records : y.at < r.at}}
           After(r) == {x.event : x \in {y \in records : y.at > r.at}}
           Make(events_, fragments_) == [events |-> events_, fragments |-> fragments_]
<1>1. \A x \in records : x.event \in Event
  BY DEF Place
<1>2. es \subseteq Event
  BY <1>1
<1>3. \A r \in records : Before(r) \subseteq es /\ After(r) \subseteq es
  OBVIOUS
<1>4. ASSUME NEW A \in SUBSET es, NEW F \in SUBSET Fragment, \A p \in F : p.event \in es
      PROVE  Make(A, F) \in Payload /\ Carries(Make(A, F), es)
  <2> HIDE DEF es
  <2> QED
    BY <1>2, <1>4 DEF Payload, Carries
<1>5. ASSUME NEW x, Carries(x, es)
      PROVE  /\ <<x>> \in Seq(Payload)
             /\ \A i \in 1..Len(<<x>>) : Carries(<<x>>[i], es)
  <2> HIDE DEF es
  <2> QED
    BY <1>5 DEF Carries
<1>6. ASSUME NEW x, NEW y, Carries(x, es), Carries(y, es)
      PROVE  /\ <<x, y>> \in Seq(Payload)
             /\ \A i \in 1..Len(<<x, y>>) : Carries(<<x, y>>[i], es)
  <2> HIDE DEF es
  <2> QED
    BY <1>6 DEF Carries
<1>7. CASE payloads = <<Make(es, {})>>
  <2>1. Carries(Make(es, {}), es)
    BY <1>4
  <2> QED
    BY <1>5, <1>7, <2>1
<1>8. CASE \E r \in records : payloads = <<Make(Before(r), {}), Make({r.event} \cup After(r), {})>>
  <2>1. PICK r \in records : payloads = <<Make(Before(r), {}), Make({r.event} \cup After(r), {})>>
    BY <1>8
  <2>2. Carries(Make(Before(r), {}), es) /\ Carries(Make({r.event} \cup After(r), {}), es)
    <3>1. Before(r) \in SUBSET es /\ {r.event} \cup After(r) \in SUBSET es
      BY <1>3
    <3> HIDE DEF es, Before, After, Make
    <3> QED
      BY <1>4, <3>1
  <2> HIDE DEF Before, After, Make
  <2> QED
    BY <1>6, <2>1, <2>2
<1>9. CASE \E r \in records : payloads = <<Make(Before(r), {Fragments(r.event)[1]}),
                                          Make(After(r), {Fragments(r.event)[2]})>>
  <2>1. PICK r \in records : payloads = <<Make(Before(r), {Fragments(r.event)[1]}),
                                         Make(After(r), {Fragments(r.event)[2]})>>
    BY <1>9
  <2>2. \A i \in 1..2 : Fragments(r.event)[i] \in Fragment /\ Fragments(r.event)[i].event \in es
    BY <1>1, FragmentsTyped
  <2>3. /\ Carries(Make(Before(r), {Fragments(r.event)[1]}), es)
        /\ Carries(Make(After(r), {Fragments(r.event)[2]}), es)
    <3>1. Before(r) \in SUBSET es /\ After(r) \in SUBSET es /\ 1 \in 1..2 /\ 2 \in 1..2
      BY <1>3
    <3> HIDE DEF es, Before, After, Make
    <3> QED
      BY <1>4, <2>2, <3>1
  <2> HIDE DEF Before, After, Make
  <2> QED
    BY <1>6, <2>1, <2>3
<1>10. \/ payloads = <<Make(es, {})>>
       \/ \E r \in records : payloads = <<Make(Before(r), {}), Make({r.event} \cup After(r), {})>>
       \/ \E r \in records : payloads = <<Make(Before(r), {Fragments(r.event)[1]}),
                                         Make(After(r), {Fragments(r.event)[2]})>>
  BY DEF Payloads
<1> QED
  BY <1>7, <1>8, <1>9, <1>10

LEMMA ChunksTyped ==
  ASSUME NEW b \in Service, NEW rid \in Nat, NEW payloads \in Seq(Payload),
         NEW next \in Optional(Nat)
  PROVE  Chunks(b, rid, payloads, next) \in Seq(Chunk)
<1> DEFINE n == Len(payloads)
           frame(i) == [type |-> "chunk", session |-> b.session, gen |-> b.gen, rid |-> rid,
                        index |-> i - 1, events |-> payloads[i].events,
                        fragments |-> payloads[i].fragments, final |-> i = n,
                        next |-> IF i = n THEN next ELSE None]
<1>1. n \in Nat /\ DOMAIN payloads = 1..n
  BY LenProperties
<1>2. ASSUME NEW i \in 1..n
      PROVE  frame(i) \in Chunk
  <2>1. payloads[i].events \in SUBSET Event /\ payloads[i].fragments \in SUBSET Fragment
    <3>1. payloads[i] \in Payload
      BY ElementOfSeq
    <3> QED
      BY <3>1 DEF Payload
  <2>2. b.session \in Nat /\ b.gen \in Nat /\ i - 1 \in Nat
        /\ (IF i = n THEN next ELSE None) \in Optional(Nat)
    <3> HIDE DEF n
    <3> QED
      BY <1>1 DEF Service, Optional
  <2> HIDE DEF n
  <2> QED
    BY <2>1, <2>2 DEF Chunk
<1>3. Chunks(b, rid, payloads, next) = [i \in 1..n |-> frame(i)]
  BY <1>1 DEF Chunks
<1>4. [i \in 1..n |-> frame(i)] \in [1..n -> Chunk]
  BY <1>2
<1> HIDE DEF n, frame
<1> QED
  BY <1>1, <1>3, <1>4, NumberedIsSeq

(* A service that goes on with the records it had.                        *)
GoesOn(b) == binding'.no = b.no /\ binding'.gen = b.gen /\ binding'.records = b.records

LEMMA PageTyped ==
  ASSUME HostTypes, NEW b, Serviceable(b), NEW rid \in Nat, NEW prefix \in Seq(Entry),
         NEW position \in Nat, Page(b, rid, prefix, position)
  PROVE  /\ Serviceable(binding') /\ toPwa' \in Seq(ServerFrame) /\ left' \in [Kinds -> Nat]
         /\ GoesOn(b) /\ \E frames \in Seq(Chunk) : Post(frames)
<1> DEFINE records == {r \in Recovered(b.session, prefix) : r.at <= position}
           window == SelectWindow(records)
           older == \E r \in records : r.at < window.start
           cursor == [id |-> Cardinality(b.cursors) + 1, prefix |-> prefix,
                      position |-> window.start - 1, used |-> FALSE]
           next == IF older THEN cursor.id ELSE None
<1>1. b \in Service /\ b.session \in Nat /\ IsFiniteSet(b.cursors) /\ b.cursors \in SUBSET Cursor
  BY DEF Serviceable, Service
<1>2. records \in SUBSET Place /\ \A r \in records : r.at <= position
  BY <1>1, RecoveredTyped DEF HostTypes, HostTypeOK, SessionTypeOK
<1>3. window.records \subseteq records /\ window.start \in Nat \ {0}
  <2> HIDE DEF records
  <2> QED
    BY <1>2, WindowIs
<1>4. Cardinality(b.cursors) + 1 \in Nat
  BY <1>1, FS_CardinalityType
<1>5. cursor \in Cursor
  <2> HIDE DEF window
  <2> QED
    BY <1>3, <1>4 DEF Cursor
<1>6. /\ binding' = [b EXCEPT !.cursors = IF older THEN b.cursors \cup {cursor} ELSE b.cursors]
      /\ \E payloads \in Payloads(window.records) :
           Cuts(payloads) /\ Post(Chunks(b, rid, payloads, next))
  BY DEF Page
<1>7. Serviceable(binding') /\ GoesOn(b)
  <2> DEFINE kept == IF older THEN b.cursors \cup {cursor} ELSE b.cursors
  <2>1. kept \in SUBSET Cursor /\ IsFiniteSet(kept)
    <3> HIDE DEF older, cursor
    <3> QED
      BY <1>1, <1>5, FS_AddElement
  <2>2. binding' = [b EXCEPT !.cursors = kept]
    BY <1>6
  <2> HIDE DEF kept
  <2>3. binding' \in Service
    BY <1>1, <2>1, <2>2 DEF Service
  <2> QED
    BY <1>1, <2>1, <2>2, <2>3 DEF Serviceable, Service, GoesOn
<1>8. PICK payloads \in Payloads(window.records) : Cuts(payloads) /\ Post(Chunks(b, rid, payloads, next))
  BY <1>6
<1>9. window.records \in SUBSET Place
  BY <1>2, <1>3
<1>10. payloads \in Seq(Payload)
  <2> HIDE DEF window
  <2> QED
    BY <1>9, PayloadsCarry
<1>11. next \in Optional(Nat)
  <2> HIDE DEF older, window
  <2> QED
    BY <1>4 DEF Optional
<1>12. Chunks(b, rid, payloads, next) \in Seq(Chunk)
  <2> HIDE DEF next
  <2> QED
    BY <1>1, <1>10, <1>11, ChunksTyped
<1> HIDE DEF next
<1>13. toPwa' \in Seq(ServerFrame)
  <2>1. Chunks(b, rid, payloads, next) \in Seq(ServerFrame)
    BY <1>12, SeqMonotonic DEF ServerFrame
  <2> QED
    BY <1>8, <2>1, PostTyped DEF HostTypes, HostTypeOK
<1> QED
  BY <1>7, <1>8, <1>12, <1>13, CutsTyped

(* What a served frame leaves.                                             *)
Served ==
  /\ Serviceable(binding') /\ toPwa' \in Seq(ServerFrame) /\ left' \in [Kinds -> Nat]
  /\ inbox' \in Seq(Optional(Correlation)) /\ rt' \in Runtime /\ strayed' \in BOOLEAN
  /\ called' \in [Requests -> Seq(Call)] /\ lapsed' \in Nat

LEMMA PostOne ==
  ASSUME HostTypes, NEW frame \in ServerFrame, Post(<<frame>>)
  PROVE  toPwa' \in Seq(ServerFrame)
<1>1. <<frame>> \in Seq(ServerFrame)
  OBVIOUS
<1> QED
  BY <1>1, PostTyped DEF HostTypes, HostTypeOK

LEMMA AttachToTyped ==
  ASSUME HostTypes, NEW session \in Nat, AttachTo(session)
  PROVE  rt' \in Runtime /\ strayed' \in BOOLEAN
<1>1. rt \in Runtime
  BY DEF HostTypes, HostTypeOK, RuntimeTypeOK
<1>2. rt' \in Runtime
  BY <1>1, AttachedTyped DEF AttachTo
<1>3. strayed' \in BOOLEAN
  BY DEF AttachTo
<1> QED
  BY <1>2, <1>3

LEMMA EnsureTyped ==
  ASSUME HostTypes, rt' = EnsureTimeline
  PROVE  rt' \in Runtime
  BY AttachedTyped, CurrentIs DEF EnsureTimeline, HostTypes, HostTypeOK, RuntimeTypeOK

LEMMA ResetTyped ==
  ASSUME NEW b, Serviceable(b)
  PROVE  ResetFrame(b) \in ServerFrame
  BY DEF ResetFrame, Serviceable, Service, ServerFrame

LEMMA SyncTyped ==
  ASSUME HostTypes, NEW b, Serviceable(b), NEW f \in ClientFrame, f.type = "sync", Sync(b, f)
  PROVE  /\ Serviceable(binding') /\ toPwa' \in Seq(ServerFrame) /\ left' \in [Kinds -> Nat]
         /\ rt' \in Runtime /\ strayed' \in BOOLEAN
         /\ GoesOn(b) /\ \E frames \in Seq(Chunk \cup {ResetFrame(b)}) : Post(frames)
         /\ rt' = rt \/ rt' = Attached(rt, b.session)
<1> DEFINE branch == branches[b.session]
           known == {c \in b.cursors : c.id = f.before}
           c == CHOOSE x \in known : TRUE
           turned == {[x EXCEPT !.used = TRUE] : x \in known}
           spent == [b EXCEPT !.cursors = (b.cursors \ known) \cup turned]
<1>1. b \in Service /\ b.session \in Nat /\ b.cursors \in SUBSET Cursor /\ IsFiniteSet(b.cursors)
  BY DEF Serviceable, Service
<1>2. branch \in Seq(Entry) /\ Len(branch) \in Nat
  BY CurrentIs, LenProperties DEF Serviceable
<1>3. f.rid \in Nat
  BY ClientFields
<1>4. Serviceable(spent)
  <2>1. turned \in SUBSET Cursor
    BY <1>1 DEF Cursor
  <2>2. IsFiniteSet(turned)
    <3> DEFINE h == [x \in known |-> [x EXCEPT !.used = TRUE]]
    <3>1. IsFiniteSet(known)
      BY <1>1, FS_Subset
    <3>2. h \in [known -> turned] /\ \A y \in turned : \E x \in known : h[x] = y
      OBVIOUS
    <3>3. h \in Surjection(known, turned)
      BY <3>2 DEF Surjection
    <3> QED
      BY <3>1, <3>3, FS_Surjection
  <2>3. IsFiniteSet(b.cursors \ known)
    BY <1>1, FS_Subset
  <2>4. IsFiniteSet((b.cursors \ known) \cup turned)
    BY <2>2, <2>3, FS_Union
  <2>5. (b.cursors \ known) \cup turned \in SUBSET Cursor
    BY <1>1, <2>1
  <2> HIDE DEF known, turned
  <2>6. spent \in Service
    BY <1>1, <2>5 DEF Service
  <2> QED
    BY <1>1, <2>4, <2>6 DEF Serviceable, Service
<1>8. spent.no = b.no /\ spent.gen = b.gen /\ spent.records = b.records
  BY <1>1 DEF Service
<1>9. \A frames \in Seq(Chunk) : frames \in Seq(Chunk \cup {ResetFrame(b)})
  BY SeqMonotonic
<1>5. CASE f.before = None
  <2>1. Page(b, f.rid, branch, Len(branch)) /\ AttachTo(b.session)
    BY <1>5 DEF Sync
  <2> HIDE DEF branch
  <2>2. /\ Serviceable(binding') /\ toPwa' \in Seq(ServerFrame) /\ left' \in [Kinds -> Nat]
        /\ GoesOn(b) /\ \E frames \in Seq(Chunk) : Post(frames)
    BY <1>1, <1>2, <1>3, <2>1, PageTyped
  <2> QED
    BY <1>1, <1>9, <2>1, <2>2, AttachToTyped DEF AttachTo
<1>6. CASE f.before # None /\ (known = {} \/ c.used \/ ~SnapshotValid(c, branch))
  <2>1. binding' = spent /\ Post(<<ResetFrame(b)>>) /\ UNCHANGED <<rt, strayed, left>>
    BY <1>6 DEF Sync
  <2> HIDE DEF spent
  <2>2. GoesOn(b)
    BY <1>8, <2>1 DEF GoesOn
  <2>3. <<ResetFrame(b)>> \in Seq(Chunk \cup {ResetFrame(b)})
    OBVIOUS
  <2> QED
    BY <1>4, <2>1, <2>2, <2>3, PostOne, ResetTyped DEF HostTypes, HostTypeOK, RuntimeTypeOK
<1>7. CASE f.before # None /\ ~(known = {} \/ c.used \/ ~SnapshotValid(c, branch))
  <2>1. Page(spent, f.rid, c.prefix, c.position) /\ AttachTo(b.session)
    BY <1>7 DEF Sync
  <2>2. c \in Cursor
    BY <1>1, <1>7
  <2>3. c.prefix \in Seq(Entry) /\ c.position \in Nat
    BY <2>2 DEF Cursor
  <2> HIDE DEF spent, c
  <2>4. /\ Serviceable(binding') /\ toPwa' \in Seq(ServerFrame) /\ left' \in [Kinds -> Nat]
        /\ GoesOn(spent) /\ \E frames \in Seq(Chunk) : Post(frames)
    BY <1>3, <1>4, <2>1, <2>3, PageTyped
  <2>5. GoesOn(b)
    BY <1>8, <2>4 DEF GoesOn
  <2> QED
    BY <1>1, <1>9, <2>1, <2>4, <2>5, AttachToTyped DEF AttachTo
<1> QED
  BY <1>5, <1>6, <1>7

LEMMA ReplayTyped ==
  ASSUME HostTypes, NEW b, Serviceable(b), NEW r \in Requests, IsReplay(b, r), Replay(b, r)
  PROVE  Serviceable(binding') /\ toPwa' \in Seq(ServerFrame)
<1> DEFINE rec == b.records[Recorded(b.records, r)]
           records == Touched(b.records, r, rec.status, rec.mid)
           mid == IF rec.status \in {"accepted", "committed"} THEN rec.mid ELSE 0
<1>1. b \in Service /\ b.records \in Seq(Record)
  BY DEF Serviceable, Service
<1>2. Recorded(b.records, r) # 0 /\ Recorded(b.records, r) \in 0..Len(b.records)
  BY <1>1, RecordedIs DEF IsReplay
<1>3. rec \in Record
  BY <1>1, <1>2, ElementOfSeq
<1>4. /\ rec.mid \in Nat /\ mid \in Nat
      /\ rec.status \in {"received", "accepted", "committed", "unknown_delivery"}
  BY <1>3 DEF Record
<1>5. records \in Seq(Record) /\ Len(records) = Len(b.records)
  <2> HIDE DEF rec
  <2> QED
    BY <1>1, <1>2, <1>4, TouchedTyped
<1>6. binding' = [b EXCEPT !.records = records] /\ Post(<<StatusFrame(b, r, rec.status, mid)>>)
  BY DEF Replay
<1>7. Len(records) <= MaxRecords /\ 0 \in Nat
  <2> HIDE DEF records
  <2> QED
    BY <1>5 DEF Serviceable
<1>8. Serviceable(binding')
  <2> HIDE DEF records
  <2> QED
    BY <1>5, <1>6, <1>7, ServiceWith
<1>9. StatusFrame(b, r, rec.status, mid) \in ServerFrame
  <2> HIDE DEF rec, mid
  <2> QED
    BY <1>1, <1>4, StatusTyped
<1> QED
  BY <1>6, <1>8, <1>9, PostOne

(* The records with one for a request that had none.                       *)
LEMMA NewRecord ==
  ASSUME NEW records \in Seq(Record), Len(records) <= MaxRecords, NEW r \in Requests
  PROVE  LET full == Append(Without(records, r), [req |-> r, status |-> "received", mid |-> 0])
             kept == Pruned(full) IN
         /\ full \in Seq(Record) /\ kept \in Seq(Record) /\ Len(kept) <= MaxRecords
         /\ Len(kept) \in 1..Len(kept) /\ kept[Len(kept)].req = r
         /\ Recorded(kept, r) # 0
         /\ Len(kept) <= Len(full)
         /\ Len(full) = Len(kept) => kept = full
<1> DEFINE new == [req |-> r, status |-> "received", mid |-> 0]
           others == Without(records, r)
           full == Append(others, new)
           kept == Pruned(full)
<1>1. new \in Record
  BY DEF Record
<1>2. /\ others \in Seq(Record) /\ Len(others) \in Nat /\ Len(others) <= Len(records)
      /\ Len(records) \in Nat
  <2>1. /\ others \in Seq(Record)
        /\ Len(others) = IF Recorded(records, r) = 0 THEN Len(records) ELSE Len(records) - 1
    BY WithoutIs
  <2>2. Len(records) \in Nat /\ Len(others) \in Nat
    BY <2>1, LenProperties
  <2> QED
    BY <2>1, <2>2
<1> HIDE DEF others, new
<1>3. /\ full \in Seq(Record) /\ full # <<>> /\ Len(full) = Len(others) + 1
      /\ full[Len(others) + 1] = new
  BY <1>1, <1>2, AppendProperties
<1> HIDE DEF full
<1>4. MaxRecords \in Nat \ {0}
  BY HostSessionAssumption
<1>5. /\ kept \in Seq(Record) /\ Len(kept) <= MaxRecords /\ Len(kept) \in Nat \ {0}
      /\ Len(kept) <= Len(full) /\ (Len(full) = Len(kept) => kept = full)
      /\ kept[Len(kept)] = new
  <2>1. CASE Len(full) > MaxRecords
    <3>1. /\ kept = Tail(full) /\ kept \in Seq(Record) /\ Len(kept) = Len(full) - 1
          /\ \A i \in 1..Len(kept) : kept[i] = full[i + 1]
      BY <1>3, <2>1, HeadTailProperties DEF Pruned
    <3>2. Len(kept) = Len(others) /\ Len(kept) >= MaxRecords
      BY <1>2, <1>3, <1>4, <2>1, <3>1
    <3> QED
      BY <1>2, <1>3, <1>4, <3>1, <3>2
  <2>2. CASE ~(Len(full) > MaxRecords)
    BY <1>2, <1>3, <1>4, <2>2 DEF Pruned
  <2> QED
    BY <2>1, <2>2
<1> HIDE DEF kept
<1>6. kept[Len(kept)].req = r
  BY <1>5 DEF new
<1>7. Recorded(kept, r) # 0
  BY <1>5, <1>6, RecordedIs
<1> QED
  BY <1>3, <1>5, <1>6, <1>7 DEF kept, full, others, new

LEMMA DeliverTyped ==
  ASSUME HostTypes, NEW b, Serviceable(b), NEW f \in ClientFrame, f.type = "user", Deliver(b, f)
  PROVE  /\ Serviceable(binding') /\ toPwa' \in Seq(ServerFrame) /\ left' \in [Kinds -> Nat]
         /\ inbox' \in Seq(Optional(Correlation))
         /\ called' \in [Requests -> Seq(Call)] /\ lapsed' \in Nat
<1> DEFINE r == f.req
           full == Append(Without(b.records, r), [req |-> r, status |-> "received", mid |-> 0])
           kept == Pruned(full)
<1>1. b \in Service /\ b.records \in Seq(Record) /\ Len(b.records) <= MaxRecords
  BY DEF Serviceable, Service
<1>2. r \in Requests /\ f.rid \in Nat
  BY ClientFields
<1>3. kept \in Seq(Record) /\ Len(kept) <= MaxRecords /\ Recorded(kept, r) # 0
  BY <1>1, <1>2, NewRecord
<1>4. lapsed \in Nat /\ lapsed' \in Nat
  BY DEF Deliver, HostTypes, HostTypeOK, ServiceTypeOK
<1> HIDE DEF kept
<1>5. CASE /\ called' = [called EXCEPT ![r] =
                           Append(@, [binding |-> b.no, gen |-> b.gen, lapsed |-> lapsed])]
           /\ inbox' = Append(inbox, [req |-> r, rid |-> f.rid])
           /\ binding' = [b EXCEPT !.records = kept]
           /\ Post(<<StatusFrame(b, r, "received", 0)>>)
           /\ UNCHANGED left
  <2>1. called' \in [Requests -> Seq(Call)]
    <3>1. [binding |-> b.no, gen |-> b.gen, lapsed |-> lapsed] \in Call
      BY <1>1, <1>4 DEF Service, Call
    <3>2. called \in [Requests -> Seq(Call)] /\ called[r] \in Seq(Call)
      BY <1>2 DEF HostTypes, HostTypeOK, ServiceTypeOK
    <3> QED
      BY <1>2, <1>5, <3>1, <3>2, AppendProperties
  <2>2. inbox' \in Seq(Optional(Correlation))
    <3>1. [req |-> r, rid |-> f.rid] \in Optional(Correlation)
      BY <1>2 DEF Correlation, Optional
    <3> QED
      BY <1>5, <3>1, AppendProperties DEF HostTypes, HostTypeOK, PiTypeOK
  <2>3. Serviceable(binding')
    <3>1. 0 \in Nat
      OBVIOUS
    <3> QED
      BY <1>3, <1>5, <3>1, ServiceWith
  <2>4. toPwa' \in Seq(ServerFrame)
    BY <1>1, <1>2, <1>5, StatusTyped, PostOne
  <2> QED
    BY <1>4, <1>5, <2>1, <2>2, <2>3, <2>4 DEF HostTypes, HostTypeOK
<1>6. CASE /\ Use("fault")
           /\ binding' = [b EXCEPT !.records = Touched(kept, r, "unknown_delivery", 0)]
           /\ Post(<<StatusFrame(b, r, "unknown_delivery", 0)>>)
           /\ UNCHANGED <<called, inbox>>
  <2> DEFINE records == Touched(kept, r, "unknown_delivery", 0)
  <2>1. records \in Seq(Record) /\ Len(records) = Len(kept)
    BY <1>2, <1>3, TouchedTyped
  <2>2. Serviceable(binding')
    <3>1. Len(records) <= MaxRecords /\ 0 \in Nat
      BY <1>3, <2>1
    <3> HIDE DEF records
    <3> QED
      BY <1>6, <2>1, <3>1, ServiceWith DEF records
  <2>3. toPwa' \in Seq(ServerFrame)
    BY <1>1, <1>2, <1>6, StatusTyped, PostOne
  <2>4. left' \in [Kinds -> Nat]
    BY <1>6, BoundsTyped DEF Kinds
  <2> QED
    BY <1>4, <1>6, <2>2, <2>3, <2>4 DEF HostTypes, HostTypeOK, PiTypeOK, ServiceTypeOK
<1> QED
  BY <1>5, <1>6 DEF Deliver, kept

(* What the service does with a frame.                                     *)
Refused(b, f) == f.type # "hello" /\ (~b.ready \/ f.gen # b.gen)

LEMMA ServeCases ==
  ASSUME NEW b, NEW f \in ClientFrame, Serve(b, f)
  PROVE  \/ f.type = "hello" /\ Hello(b, f) /\ UNCHANGED <<called, lapsed, inbox, left, strayed>>
            /\ rt' = EnsureTimeline
         \/ Refused(b, f) /\ Refuse(b, f) /\ UNCHANGED <<called, lapsed, inbox, left, strayed>>
            /\ rt' = EnsureTimeline
         \/ f.type = "sync" /\ ~Refused(b, f) /\ Sync(b, f) /\ UNCHANGED <<called, lapsed, inbox>>
         \/ f.type = "observed" /\ ~Refused(b, f) /\ Observe(b, f)
            /\ UNCHANGED <<called, lapsed, inbox, left, strayed>> /\ rt' = EnsureTimeline
         \/ f.type = "user" /\ ~Refused(b, f) /\ ~IsReplay(b, f.req) /\ Deliver(b, f)
            /\ UNCHANGED strayed /\ rt' = EnsureTimeline
         \/ f.type = "user" /\ ~Refused(b, f) /\ IsReplay(b, f.req) /\ Replay(b, f.req)
            /\ UNCHANGED <<called, lapsed, inbox, left, strayed>> /\ rt' = EnsureTimeline
<1>1. f.type \in {"hello", "user", "observed", "sync"}
  BY ClientFields
<1>2. CASE f.type = "hello"
  BY <1>2 DEF Serve, Refused
<1>3. CASE Refused(b, f)
  BY <1>3 DEF Serve, Refused
<1>4. CASE f.type = "sync" /\ ~Refused(b, f)
  BY <1>4 DEF Serve, Refused
<1>5. CASE f.type = "observed" /\ ~Refused(b, f)
  BY <1>5 DEF Serve, Refused
<1>6. CASE f.type = "user" /\ ~Refused(b, f)
  BY <1>6 DEF Serve, Refused
<1> QED
  BY <1>1, <1>2, <1>3, <1>4, <1>5, <1>6

LEMMA ServeTyped ==
  ASSUME HostTypes, NEW b, Serviceable(b), NEW f \in ClientFrame, Serve(b, f)
  PROVE  Served
<1>0. b \in Service /\ b.records \in Seq(Record) /\ b.session \in Nat /\ b.gen \in Nat
  BY DEF Serviceable, Service
<1>1. /\ called \in [Requests -> Seq(Call)] /\ lapsed \in Nat /\ left \in [Kinds -> Nat]
      /\ inbox \in Seq(Optional(Correlation)) /\ strayed \in BOOLEAN
      /\ toPwa \in Seq(ServerFrame)
  BY DEF HostTypes, HostTypeOK, PiTypeOK, RuntimeTypeOK, ServiceTypeOK, NetTypeOK
<1>2. /\ f.rid \in Nat
      /\ f.type # "hello" => f.gen \in Nat
      /\ f.type \in {"user", "observed"} => f.req \in Requests
  BY ClientFields
<1>e. [type |-> "error", rid |-> 0] \in ServerFrame
      /\ [type |-> "error", rid |-> f.rid] \in ServerFrame
  BY <1>2 DEF ServerFrame
<1>3. CASE /\ f.type = "hello" /\ Hello(b, f) /\ UNCHANGED <<called, lapsed, inbox, left, strayed>>
           /\ rt' = EnsureTimeline
  <2> DEFINE frame == [type |-> "ready", session |-> b.session, gen |-> b.gen, rid |-> f.rid]
  <2>1. binding' = [b EXCEPT !.ready = TRUE] /\ Post(<<frame>>)
    BY <1>3 DEF Hello
  <2>2. Serviceable(binding')
    <3>1. binding' \in Service
      BY <1>0, <2>1 DEF Service
    <3> QED
      BY <1>0, <2>1, <3>1 DEF Serviceable, Service
  <2>3. frame \in ServerFrame
    BY <1>0, <1>2 DEF ServerFrame
  <2> HIDE DEF frame
  <2>4. toPwa' \in Seq(ServerFrame)
    BY <2>1, <2>3, PostOne
  <2> QED
    BY <1>1, <1>3, <2>2, <2>4, EnsureTyped DEF Served
<1>4. CASE /\ Refused(b, f) /\ Refuse(b, f) /\ UNCHANGED <<called, lapsed, inbox, left, strayed>>
           /\ rt' = EnsureTimeline
  <2>1. (IF b.ready THEN ResetFrame(b) ELSE [type |-> "error", rid |-> f.rid]) \in ServerFrame
    BY <1>e, ResetTyped
  <2>2. toPwa' \in Seq(ServerFrame)
    BY <1>4, <2>1, PostOne DEF Refuse
  <2> QED
    BY <1>1, <1>4, <2>2, EnsureTyped DEF Served, Refuse
<1>5. CASE f.type = "sync" /\ ~Refused(b, f) /\ Sync(b, f) /\ UNCHANGED <<called, lapsed, inbox>>
  BY <1>1, <1>5, SyncTyped DEF Served
<1>6. CASE /\ f.type = "observed" /\ ~Refused(b, f) /\ Observe(b, f)
           /\ UNCHANGED <<called, lapsed, inbox, left, strayed>> /\ rt' = EnsureTimeline
  <2> DEFINE records == Without(b.records, f.req)
  <2>1. /\ records \in Seq(Record) /\ Len(records) \in Nat /\ Len(b.records) \in Nat
        /\ Len(records) = IF Recorded(b.records, f.req) = 0 THEN Len(b.records)
                                                           ELSE Len(b.records) - 1
    BY <1>0, WithoutIs, LenProperties
  <2>2. Len(records) <= MaxRecords /\ 0 \in Nat
    <3> HIDE DEF records
    <3>1. Len(b.records) <= MaxRecords /\ MaxRecords \in Nat
      BY HostSessionAssumption DEF Serviceable
    <3> QED
      BY <2>1, <3>1
  <2>3. Serviceable(binding')
    <3>1. binding' = [b EXCEPT !.records = records]
      BY <1>6 DEF Observe
    <3> HIDE DEF records
    <3> QED
      BY <2>1, <2>2, <3>1, ServiceWith
  <2>4. toPwa' \in Seq(ServerFrame)
    BY <1>1, <1>6, <1>e, PostOne DEF Observe
  <2> QED
    BY <1>1, <1>6, <2>3, <2>4, EnsureTyped DEF Served
<1>7. CASE /\ f.type = "user" /\ ~Refused(b, f) /\ ~IsReplay(b, f.req) /\ Deliver(b, f)
           /\ UNCHANGED strayed /\ rt' = EnsureTimeline
  BY <1>1, <1>7, DeliverTyped, EnsureTyped DEF Served
<1>8. CASE /\ f.type = "user" /\ ~Refused(b, f) /\ IsReplay(b, f.req) /\ Replay(b, f.req)
           /\ UNCHANGED <<called, lapsed, inbox, left, strayed>> /\ rt' = EnsureTimeline
  BY <1>1, <1>2, <1>8, ReplayTyped, EnsureTyped DEF Served
<1> QED
  BY <1>3, <1>4, <1>5, <1>6, <1>7, <1>8, ServeCases

(* The binding the next frame is served by.                                *)
Server == IF binding = None
          THEN [no |-> bound + 1, session |-> Current, gen |-> generation, ready |-> FALSE,
                records |-> <<>>, cursors |-> {}]
          ELSE binding

LEMMA ServerTyped ==
  ASSUME HostTypes
  PROVE  Serviceable(Server)
<1>1. CASE binding # None
  BY <1>1, BindingTyped DEF Server
<1>2. CASE binding = None
  <2> DEFINE none == <<>>
  <2>1. none \in Seq(Record) /\ Len(none) = 0 /\ 0 <= MaxRecords
    BY EmptySeq, HostSessionAssumption
  <2>2. bound \in Nat /\ generation \in Nat /\ Current \in Nat /\ Current \in 1..Len(branches)
    BY CurrentIs DEF HostTypes, HostTypeOK, SessionTypeOK, ServiceTypeOK
  <2>3. IsFiniteSet({}) /\ {} \in SUBSET Cursor
    BY FS_EmptySet
  <2>4. Server = [no |-> bound + 1, session |-> Current, gen |-> generation, ready |-> FALSE,
                  records |-> none, cursors |-> {}]
    BY <1>2 DEF Server
  <2> HIDE DEF none
  <2>5. Server \in Service
    BY <2>1, <2>2, <2>3, <2>4 DEF Service
  <2> QED
    BY <2>1, <2>2, <2>3, <2>4, <2>5 DEF Serviceable
<1> QED
  BY <1>1, <1>2

(* The next frame is dropped where nothing can serve it, or is served.     *)
LEMMA ReceivesCases ==
  ASSUME HostTypes, HostReceives
  PROVE  /\ toHost # <<>> /\ Head(toHost) \in ClientFrame /\ toHost' = Tail(toHost)
         /\ UNCHANGED <<sessionVars, sdk, ended, linked>>
         /\ \/ UNCHANGED <<inbox, rt, strayed, serviceVars, toPwa, left>>
            \/ /\ Serve(Server, Head(toHost))
               /\ bound' = IF binding = None THEN bound + 1 ELSE bound
<1>1. Head(toHost) \in ClientFrame
  BY HeadTailProperties DEF HostReceives, HostTypes, HostTypeOK, NetTypeOK
<1> QED
  BY <1>1 DEF HostReceives, Server

LEMMA HostReceivesTyped ==
  ASSUME HostTypes, HostReceives
  PROVE  HostTypes'
<1>1. /\ toHost # <<>> /\ Head(toHost) \in ClientFrame /\ toHost' = Tail(toHost)
      /\ UNCHANGED <<sessionVars, sdk, ended, linked>>
  BY ReceivesCases
<1>2. UNCHANGED sessionVars /\ UNCHANGED <<sdk, ended, linked>>
  BY <1>1
<1>3. toHost' \in Seq(ClientFrame)
  BY <1>1, HeadTailProperties DEF HostTypes, HostTypeOK, NetTypeOK
<1>4. CASE UNCHANGED <<inbox, rt, strayed, serviceVars, toPwa, left>>
  <2>1. UNCHANGED piVars /\ UNCHANGED runtimeVars /\ UNCHANGED serviceVars
    BY <1>2, <1>4 DEF piVars, runtimeVars
  <2>2. NetTypeOK' /\ left' \in [Kinds -> Nat]
    BY <1>2, <1>3, <1>4 DEF HostTypes, HostTypeOK, NetTypeOK
  <2> QED
    BY <1>2, <2>1, <2>2, SessionUnchanged, PiUnchanged, RuntimeUnchanged, HostTypesKept
<1>5. CASE /\ Serve(Server, Head(toHost))
           /\ bound' = IF binding = None THEN bound + 1 ELSE bound
  <2>1. Served
    BY <1>1, <1>5, ServerTyped, ServeTyped
  <2>2. PiTypeOK' /\ RuntimeTypeOK' /\ NetTypeOK'
    BY <1>2, <1>3, <2>1
       DEF Served, HostTypes, HostTypeOK, PiTypeOK, RuntimeTypeOK, NetTypeOK
  <2>3. bound' \in Nat
    BY <1>5 DEF HostTypes, HostTypeOK, ServiceTypeOK
  <2> QED
    BY <1>2, <2>1, <2>2, <2>3, SessionUnchanged, HostTypesAfter DEF Served
<1> QED
  BY <1>4, <1>5, ReceivesCases

LEMMA HostNextTyped ==
  ASSUME HostTypes, HostNext
  PROVE  HostTypes'
<1>1. CASE \/ StartRun \/ Steer \/ Stream \/ EndMessage \/ EndRun \/ Publish
  BY <1>1, StartRunTyped, SteerTyped, StreamTyped, EndMessageTyped, EndRunTyped, PublishTyped
<1>2. CASE \/ \E role \in Roles : Speak(role)
           \/ \E type \in {"custom", "custom_message", "compaction"} : WriteEntry(type)
  BY <1>2, SpeakTyped, WriteEntryTyped
<1>3. CASE \/ TypePrompt \/ ShutdownSession \/ StartSession \/ EndBridge \/ MoveInTree
  BY <1>3, TypePromptTyped, ShutdownTyped, StartSessionTyped, EndBridgeTyped, MoveInTreeTyped
<1>4. CASE \/ ReconnectHost \/ ExpireRecord \/ HostReceives
  BY <1>4, ReconnectHostTyped, ExpireRecordTyped, HostReceivesTyped
<1> QED
  BY <1>1, <1>2, <1>3, <1>4 DEF HostNext

-----------------------------------------------------------------------------
(* Types of what the page keeps.                                           *)

SessionTypes == HostTypes /\ ViewTypeOK /\ LinkTypeOK /\ TransferTypeOK /\ StoreTypeOK

LEMMA HostSideTyped ==
  ASSUME HostTypes, UNCHANGED hostSide, NetTypeOK', left' \in [Kinds -> Nat]
  PROVE  HostTypes'
<1>1. UNCHANGED sessionVars /\ UNCHANGED piVars /\ UNCHANGED runtimeVars /\ UNCHANGED serviceVars
  BY DEF hostSide
<1> QED
  BY <1>1, SessionUnchanged, PiUnchanged, RuntimeUnchanged, HostTypesKept

(* The words that settled messages are told the host with.                 *)
Observations(ms, shown) ==
  {[type |-> "observed", req |-> r, rid |-> 0, gen |-> scope.gen] : r \in Settled(ms, shown)}

LEMMA ReconcileIs ==
  ASSUME SessionTypes, scope \in Scope, NEW ms \in [Requests -> Message], NEW shown \in SUBSET Event,
         Reconcile(ms, shown)
  PROVE  /\ messages' = [r \in Requests |-> IF r \in Settled(ms, shown)
                                           THEN [ms[r] EXCEPT !.at = "done"] ELSE ms[r]]
         /\ events' = shown
         /\ \E told \in Seq(Observations(ms, shown)) : toHost' = toHost \o told
         /\ messages' \in [Requests -> Message]
         /\ toHost' \in Seq(ClientFrame)
<1> DEFINE settled == Settled(ms, shown)
           S == Observations(ms, shown)
<1>0. toHost \in Seq(ClientFrame) /\ scope.gen \in Nat
  BY DEF SessionTypes, HostTypes, HostTypeOK, NetTypeOK, Scope
<1>1. settled \in SUBSET Requests /\ IsFiniteSet(settled)
  <2>1. settled \in SUBSET Requests
    BY DEF Settled
  <2> QED
    BY <2>1, HostSessionAssumption, FS_Subset
<1>2. S \in SUBSET ClientFrame
  BY <1>0, <1>1 DEF Observations, ClientFrame
<1>3. IsFiniteSet(S)
  <2> DEFINE h == [r \in settled |-> [type |-> "observed", req |-> r, rid |-> 0, gen |-> scope.gen]]
  <2>1. h \in [settled -> S] /\ \A y \in S : \E x \in settled : h[x] = y
    BY DEF Observations
  <2>2. h \in Surjection(settled, S)
    BY <2>1 DEF Surjection
  <2> QED
    BY <1>1, <2>2, FS_Surjection
<1>4. SetToSeq(S) \in Seq(S) /\ <<>> \in Seq(S)
  BY <1>3, SetInOrder, EmptySeq
<1>5. /\ messages' = [r \in Requests |-> IF r \in settled THEN [ms[r] EXCEPT !.at = "done"] ELSE ms[r]]
      /\ events' = shown
      /\ toHost' = IF phase = "off" THEN toHost ELSE toHost \o SetToSeq(S)
  BY DEF Reconcile, Observations
<1>6. toHost \o <<>> = toHost
  BY <1>0, ConcatEmptySeq
<1>7. \E told \in Seq(S) : toHost' = toHost \o told
  BY <1>4, <1>5, <1>6
<1>8. messages' \in [Requests -> Message]
  <2>1. ASSUME NEW r \in Requests
        PROVE  [ms[r] EXCEPT !.at = "done"] \in Message /\ ms[r] \in Message
    BY DEF Message
  <2> HIDE DEF settled
  <2> QED
    BY <1>5, <2>1
<1>9. toHost' \in Seq(ClientFrame)
  <2>1. PICK told \in Seq(S) : toHost' = toHost \o told
    BY <1>7
  <2>2. told \in Seq(ClientFrame)
    BY <1>2, <2>1, SeqMonotonic
  <2> QED
    BY <1>0, <2>1, <2>2, ConcatProperties
<1> QED
  BY <1>5, <1>7, <1>8, <1>9

LEMMA PartialsTyped ==
  ASSUME SessionTypes, NEW es, partials' = PartialsLeft(partials, es)
  PROVE  partials' \subseteq partials /\ partials' \subseteq Partial
  BY DEF PartialsLeft, SessionTypes, ViewTypeOK

(* What the timeline changes: its events, partials and messages, and what  *)
(* it tells the host.                                                      *)
Shows ==
  /\ events' \subseteq Event /\ partials' \subseteq Partial
  /\ messages' \in [Requests -> Message] /\ toHost' \in Seq(ClientFrame)

LEMMA ShowsUnchanged ==
  ASSUME SessionTypes, UNCHANGED <<events, partials, messages, toHost>>
  PROVE  Shows
  BY DEF Shows, SessionTypes, ViewTypeOK, HostTypes, HostTypeOK, NetTypeOK

LEMMA CommitTyped ==
  ASSUME SessionTypes, scope \in Scope, NEW new \in SUBSET Event, Commit(new)
  PROVE  Shows
<1> DEFINE mine == {e \in new : InScope(scope, e)}
<1>1. events \cup mine \in SUBSET Event /\ messages \in [Requests -> Message]
  BY DEF SessionTypes, ViewTypeOK
<1>2. Reconcile(messages, events \cup mine) /\ partials' = PartialsLeft(partials, mine)
  BY DEF Commit
<1> HIDE DEF mine
<1> QED
  BY <1>1, <1>2, ReconcileIs, PartialsTyped DEF Shows

LEMMA ReplaceTyped ==
  ASSUME SessionTypes, scope \in Scope, NEW new \in SUBSET Event, ReplaceHistory(new)
  PROVE  Shows
<1> DEFINE mine == {e \in new : InScope(scope, e)}
<1>1. mine \in SUBSET Event /\ messages \in [Requests -> Message]
  BY DEF SessionTypes, ViewTypeOK
<1>2. Reconcile(messages, mine) /\ partials' = PartialsLeft(partials, mine)
  BY DEF ReplaceHistory
<1> HIDE DEF mine
<1> QED
  BY <1>1, <1>2, ReconcileIs, PartialsTyped DEF Shows

LEMMA AllUnknownTyped ==
  ASSUME SessionTypes
  PROVE  AllUnknown \in [Requests -> Message]
<1>1. messages \in [Requests -> Message]
  BY DEF SessionTypes, ViewTypeOK
<1>2. \A r \in Requests : [messages[r] EXCEPT !.at = "unknown"] \in Message /\ messages[r] \in Message
  BY <1>1 DEF Message
<1> QED
  BY <1>2 DEF AllUnknown

LEMMA PwaTypesAfter ==
  ASSUME SessionTypes, UNCHANGED hostSide, Shows, toPwa' \in Seq(ServerFrame), linked' \in BOOLEAN,
         left' \in [Kinds -> Nat], scope' \in Optional(Scope), spoiled' \subseteq {"view", "cache"},
         LinkTypeOK', TransferTypeOK', StoreTypeOK'
  PROVE  SessionTypes'
<1>1. NetTypeOK'
  BY DEF Shows, NetTypeOK
<1>2. HostTypes'
  BY <1>1, HostSideTyped DEF SessionTypes
<1> QED
  BY <1>2 DEF Shows, SessionTypes, ViewTypeOK

LEMMA LinkUnchanged ==
  ASSUME SessionTypes, UNCHANGED linkVars
  PROVE  LinkTypeOK'
  BY DEF SessionTypes, LinkTypeOK, linkVars

LEMMA TransferUnchanged ==
  ASSUME SessionTypes, UNCHANGED transferVars
  PROVE  TransferTypeOK'
  BY DEF SessionTypes, TransferTypeOK, transferVars

LEMMA StoreUnchanged ==
  ASSUME SessionTypes, UNCHANGED storeVars
  PROVE  StoreTypeOK'
  BY DEF SessionTypes, StoreTypeOK, storeVars

(* What the cache keeps of a scope is what it had or was given.            *)
LEMMA RecentAre ==
  ASSUME NEW es
  PROVE  RecentEvents(es) \subseteq es
  BY DEF RecentEvents, Grouped

LEMMA KeptAre ==
  ASSUME NEW t, NEW mine
  PROVE  Kept(t, mine) \subseteq mine \cup t.events
  BY RecentAre DEF Kept

LEMMA RunTransactionTyped ==
  ASSUME SessionTypes, RunTransaction
  PROVE  SessionTypes'
<1> DEFINE t == Head(idb)
           mine == {e \in store : InScope(t.scope, e)}
<1>1. t \in Transaction /\ idb' \in Seq(Transaction)
  BY HeadTailProperties DEF RunTransaction, SessionTypes, StoreTypeOK
<1>2. t.scope \in Scope /\ t.events \subseteq Event /\ store \subseteq Event /\ mine \subseteq Event
  BY <1>1 DEF Transaction, SessionTypes, StoreTypeOK
<1>3. Shows /\ spoiled' \subseteq {"view", "cache"} /\ store' \subseteq Event
  <2>1. CASE t.op = "read" /\ t.scope = scope
    <3>1. /\ ReplaceHistory(RecentEvents(mine)) /\ UNCHANGED store
          /\ spoiled' = IF assembler = None \/ assembler.older THEN spoiled \cup {"view"} ELSE spoiled
      BY <2>1 DEF RunTransaction
    <3>2. RecentEvents(mine) \in SUBSET Event
      BY <1>2, RecentAre
    <3>3. Shows
      BY <1>2, <2>1, <3>1, <3>2, ReplaceTyped
    <3> QED
      BY <1>2, <3>1, <3>3 DEF SessionTypes, ViewTypeOK
  <2>2. CASE t.op = "read" /\ t.scope # scope
    <3>1. UNCHANGED <<events, partials, messages, spoiled, toHost>> /\ UNCHANGED store
      BY <2>2 DEF RunTransaction
    <3> QED
      BY <1>2, <3>1, ShowsUnchanged DEF SessionTypes, ViewTypeOK
  <2>3. CASE t.op # "read"
    <3>1. /\ UNCHANGED <<events, partials, messages, spoiled, toHost>>
          /\ store' = (store \ mine) \cup Kept(t, mine)
      BY <2>3 DEF RunTransaction
    <3> QED
      BY <1>2, <3>1, KeptAre, ShowsUnchanged DEF SessionTypes, ViewTypeOK
  <2> QED
    BY <2>1, <2>2, <2>3
<1>4. /\ UNCHANGED <<sessionVars, piVars, runtimeVars, serviceVars>>
      /\ UNCHANGED <<toPwa, linked, left, scope>> /\ UNCHANGED linkVars /\ UNCHANGED transferVars
  BY DEF RunTransaction
<1>5. /\ toPwa' \in Seq(ServerFrame) /\ linked' \in BOOLEAN /\ left' \in [Kinds -> Nat]
      /\ scope' \in Optional(Scope)
  BY <1>4 DEF SessionTypes, HostTypes, HostTypeOK, NetTypeOK, ViewTypeOK
<1>6. StoreTypeOK'
  BY <1>1, <1>3 DEF StoreTypeOK
<1> QED
  BY <1>3, <1>4, <1>5, <1>6, LinkUnchanged, TransferUnchanged, PwaTypesAfter DEF hostSide

LEMMA HelloTyped ==
  ASSUME SessionTypes, NEW queue \in Seq(ClientFrame), SayHello(queue)
  PROVE  toHost' \in Seq(ClientFrame) /\ LinkTypeOK'
<1>1. rids \in Nat /\ rids' = rids + 1 /\ hello' = rids + 1 /\ phase' = "hello"
  BY DEF SayHello, SessionTypes, LinkTypeOK
<1>2. [type |-> "hello", rid |-> rids + 1] \in ClientFrame
  BY <1>1 DEF ClientFrame
<1> QED
  BY <1>1, <1>2, AppendProperties DEF SayHello, LinkTypeOK

LEMMA ClearTyped ==
  ASSUME SessionTypes, ClearTransfer
  PROVE  /\ TransferTypeOK' /\ partials' \subseteq Partial /\ messages' \in [Requests -> Message]
<1>1. partials' = {} /\ messages' = AllUnknown
  BY DEF ClearTransfer, MarkDisconnected
<1>2. TransferTypeOK'
  BY DEF ClearTransfer, TransferTypeOK, Optional
<1> QED
  BY <1>1, <1>2, AllUnknownTyped

LEMMA RejoinTyped ==
  ASSUME SessionTypes, NEW sc \in {None, scope}, NEW coming \in Seq(ServerFrame),
         Rejoin(sc, coming), UNCHANGED hostSide, UNCHANGED linked, left' \in [Kinds -> Nat]
  PROVE  SessionTypes'
<1>1. toHost \in Seq(ClientFrame) /\ linked' \in BOOLEAN
  BY DEF SessionTypes, HostTypes, HostTypeOK, NetTypeOK
<1>2. toPwa' \in Seq(ServerFrame)
  BY SuffixIs DEF Rejoin
<1>3. toHost' \in Seq(ClientFrame) /\ LinkTypeOK'
  BY <1>1, HelloTyped DEF Rejoin
<1>4. TransferTypeOK' /\ partials' \subseteq Partial /\ messages' \in [Requests -> Message]
  BY ClearTyped DEF Rejoin
<1>5. /\ scope' \in Optional(Scope) /\ events' \subseteq Event
      /\ spoiled' \subseteq {"view", "cache"} /\ StoreTypeOK'
  BY StoreUnchanged DEF Rejoin, SessionTypes, ViewTypeOK, Optional
<1> QED
  BY <1>1, <1>2, <1>3, <1>4, <1>5, PwaTypesAfter DEF Shows

LEMMA ConnectTyped ==
  ASSUME SessionTypes, Connect
  PROVE  SessionTypes'
<1>1. toHost' \in Seq(ClientFrame) /\ LinkTypeOK'
  BY HelloTyped DEF Connect, SessionTypes, HostTypes, HostTypeOK, NetTypeOK
<1>2. UNCHANGED viewVars /\ UNCHANGED transferVars /\ UNCHANGED storeVars /\ UNCHANGED hostSide
      /\ UNCHANGED <<toPwa, left>> /\ linked' = TRUE
  BY DEF Connect
<1>3. Shows /\ scope' \in Optional(Scope) /\ spoiled' \subseteq {"view", "cache"}
  BY <1>1, <1>2 DEF Shows, viewVars, SessionTypes, ViewTypeOK
<1>4. toPwa' \in Seq(ServerFrame) /\ linked' \in BOOLEAN /\ left' \in [Kinds -> Nat]
  BY <1>2 DEF SessionTypes, HostTypes, HostTypeOK, NetTypeOK
<1> QED
  BY <1>1, <1>2, <1>3, <1>4, TransferUnchanged, StoreUnchanged, PwaTypesAfter

LEMMA LoseLinkTyped ==
  ASSUME SessionTypes, LoseLink
  PROVE  SessionTypes'
<1>1. toHost' \in Seq(ClientFrame)
  BY PrefixIs DEF LoseLink, SessionTypes, HostTypes, HostTypeOK, NetTypeOK
<1>2. TransferTypeOK' /\ partials' \subseteq Partial /\ messages' \in [Requests -> Message]
  BY ClearTyped DEF LoseLink
<1>3. LinkTypeOK'
  BY DEF LoseLink, SessionTypes, LinkTypeOK
<1>4. /\ scope' \in Optional(Scope) /\ events' \subseteq Event
      /\ spoiled' \subseteq {"view", "cache"} /\ StoreTypeOK'
  BY StoreUnchanged DEF LoseLink, SessionTypes, ViewTypeOK
<1>5. toPwa' \in Seq(ServerFrame) /\ linked' \in BOOLEAN
  BY EmptySeq DEF LoseLink
<1>6. left' \in [Kinds -> Nat] /\ UNCHANGED hostSide
  BY BoundsTyped DEF LoseLink, SessionTypes, Kinds
<1> QED
  BY <1>1, <1>2, <1>3, <1>4, <1>5, <1>6, PwaTypesAfter DEF Shows

LEMMA RetrySessionTyped ==
  ASSUME SessionTypes, RetryCurrentSession
  PROVE  SessionTypes'
<1>1. left' \in [Kinds -> Nat]
  BY BoundsTyped DEF RetryCurrentSession, SessionTypes, Kinds
<1>2. toPwa \in Seq(ServerFrame)
  BY DEF SessionTypes, HostTypes, HostTypeOK, NetTypeOK
<1> QED
  BY <1>1, <1>2, RejoinTyped DEF RetryCurrentSession

LEMMA PendsTyped ==
  ASSUME SessionTypes, NEW r \in Requests, scope # None, Pends(r), left' \in [Kinds -> Nat]
  PROVE  SessionTypes'
<1>1. rids \in Nat /\ messages \in [Requests -> Message] /\ toHost \in Seq(ClientFrame)
      /\ scope.gen \in Nat
  BY DEF SessionTypes, LinkTypeOK, ViewTypeOK, HostTypes, HostTypeOK, NetTypeOK, Optional, Scope
<1>2. UserFrame(r) \in ClientFrame
  BY <1>1 DEF UserFrame, ClientFrame
<1>3. toHost' \in Seq(ClientFrame)
  BY <1>1, <1>2, AppendProperties DEF Pends
<1>4. messages' \in [Requests -> Message]
  <2>1. [messages[r] EXCEPT !.at = "pending", !.rid = rids + 1] \in Message
    <3>1. messages[r] \in Message /\ rids + 1 \in Nat
      BY <1>1
    <3> QED
      BY <3>1 DEF Message
  <2>2. messages' = [messages EXCEPT ![r] = [messages[r] EXCEPT !.at = "pending", !.rid = rids + 1]]
    BY <1>1 DEF Pends
  <2> QED
    BY <1>1, <2>1, <2>2
<1>5. /\ UNCHANGED hostSide /\ UNCHANGED <<toPwa, linked, phase, hello, scope, events, partials, spoiled>>
      /\ UNCHANGED transferVars /\ UNCHANGED storeVars /\ rids' = rids + 1
  BY DEF Pends
<1>6. Shows /\ scope' \in Optional(Scope) /\ spoiled' \subseteq {"view", "cache"}
  BY <1>3, <1>4, <1>5 DEF Shows, SessionTypes, ViewTypeOK
<1>7. LinkTypeOK' /\ toPwa' \in Seq(ServerFrame) /\ linked' \in BOOLEAN
  BY <1>1, <1>5 DEF SessionTypes, LinkTypeOK, HostTypes, HostTypeOK, NetTypeOK
<1> QED
  BY <1>5, <1>6, <1>7, TransferUnchanged, StoreUnchanged, PwaTypesAfter

LEMMA SendTyped ==
  ASSUME SessionTypes, NEW r \in Requests, SendMessage(r) \/ RetryUnknown(r)
  PROVE  SessionTypes'
<1>1. left' \in [Kinds -> Nat]
  BY BoundsTyped DEF SendMessage, RetryUnknown, SessionTypes, Kinds
<1> QED
  BY <1>1, PendsTyped DEF SendMessage, RetryUnknown

LEMMA NewAssemblerTyped ==
  ASSUME NEW rid \in Nat, NEW older \in BOOLEAN
  PROVE  NewAssembler(rid, older) \in Assembler
  BY DEF NewAssembler, Assembler

LEMMA LoadEarlierTyped ==
  ASSUME SessionTypes, LoadEarlier
  PROVE  SessionTypes'
<1> DEFINE frame == [type |-> "sync", rid |-> rids + 1, gen |-> scope.gen, before |-> before]
<1>1. rids \in Nat /\ toHost \in Seq(ClientFrame) /\ scope.gen \in Nat /\ before \in Optional(Nat)
  BY DEF LoadEarlier, SessionTypes, LinkTypeOK, ViewTypeOK, TransferTypeOK, HostTypes, HostTypeOK,
         NetTypeOK, Optional, Scope
<1>2. frame \in ClientFrame
  BY <1>1 DEF ClientFrame
<1>3. toHost' \in Seq(ClientFrame)
  <2>1. toHost' = Append(toHost, frame)
    BY DEF LoadEarlier
  <2> HIDE DEF frame
  <2> QED
    BY <1>1, <1>2, <2>1, AppendProperties
<1>4. /\ UNCHANGED hostSide /\ UNCHANGED <<toPwa, linked, phase, hello, journal, parts, before>>
      /\ UNCHANGED viewVars /\ UNCHANGED storeVars
      /\ rids' = rids + 1 /\ assembler' = NewAssembler(rids + 1, TRUE)
  BY DEF LoadEarlier
<1>5. Shows /\ scope' \in Optional(Scope) /\ spoiled' \subseteq {"view", "cache"}
  BY <1>3, <1>4 DEF Shows, viewVars, SessionTypes, ViewTypeOK
<1>6. LinkTypeOK' /\ toPwa' \in Seq(ServerFrame) /\ linked' \in BOOLEAN
  BY <1>1, <1>4 DEF SessionTypes, LinkTypeOK, HostTypes, HostTypeOK, NetTypeOK
<1>7. TransferTypeOK'
  <2>0. rids + 1 \in Nat
    BY <1>1
  <2>1. NewAssembler(rids + 1, TRUE) \in Assembler
    BY <2>0, NewAssemblerTyped
  <2>2. assembler' \in Optional(Assembler)
    BY <1>4, <2>1 DEF Optional
  <2> QED
    BY <1>4, <2>2 DEF SessionTypes, TransferTypeOK
<1>8. left' \in [Kinds -> Nat]
  BY BoundsTyped DEF LoadEarlier, SessionTypes, Kinds
<1> QED
  BY <1>4, <1>5, <1>6, <1>7, <1>8, StoreUnchanged, PwaTypesAfter

(* What the page takes of a frame leaves the host and the link alone.      *)
LEMMA TakeTypes ==
  ASSUME SessionTypes, UNCHANGED hostSide, UNCHANGED <<linked, left>>, toPwa # <<>>,
         toPwa' = Tail(toPwa), Shows, scope' \in Optional(Scope), spoiled' \subseteq {"view", "cache"},
         LinkTypeOK', TransferTypeOK', StoreTypeOK'
  PROVE  SessionTypes'
<1>1. toPwa' \in Seq(ServerFrame) /\ linked' \in BOOLEAN /\ left' \in [Kinds -> Nat]
  BY HeadTailProperties DEF SessionTypes, HostTypes, HostTypeOK, NetTypeOK
<1> QED
  BY <1>1, PwaTypesAfter

LEMMA OpenedTyped ==
  ASSUME SessionTypes, NEW op \in {"read", "replace", "commit"}, NEW es \in SUBSET Event,
         scope \in Scope
  PROVE  Opened(op, es) \in Seq(Transaction)
<1>1. [op |-> op, scope |-> scope, events |-> Grouped(es)] \in Transaction
  BY DEF Transaction, Grouped
<1>2. idb \in Seq(Transaction)
  BY DEF SessionTypes, StoreTypeOK
<1> QED
  BY <1>1, <1>2, AppendProperties DEF Opened

LEMMA CommitOpens ==
  ASSUME SessionTypes, NEW e \in Event, scope # None
  PROVE  Opened("commit", {e}) \in Seq(Transaction)
<1>1. scope \in Scope
  BY DEF SessionTypes, ViewTypeOK, Optional
<1> QED
  BY <1>1, OpenedTyped

LEMMA JournalTyped ==
  ASSUME SessionTypes, NEW e \in Event, scope # None, Journal(e), UNCHANGED store
  PROVE  journal' \subseteq Event /\ StoreTypeOK'
  BY CommitOpens DEF Journal, SessionTypes, TransferTypeOK, StoreTypeOK

LEMMA ReceiveEventTyped ==
  ASSUME SessionTypes, NEW f \in ServerFrame, f.type = "event", ReceiveEvent(f),
         UNCHANGED hostSide, UNCHANGED <<linked, left>>, toPwa # <<>>, toPwa' = Tail(toPwa)
  PROVE  SessionTypes'
<1>1. f.event \in Event
  BY ServerFields
<1>2. Shows
  <2>1. CASE InScope(scope, f)
    <3>1. scope \in Scope /\ Commit({f.event})
      BY <2>1 DEF InScope, ReceiveEvent, SessionTypes, ViewTypeOK, Optional
    <3> QED
      BY <1>1, <3>1, CommitTyped
  <2>2. CASE ~InScope(scope, f)
    BY <2>2, ShowsUnchanged DEF ReceiveEvent
  <2> QED
    BY <2>1, <2>2
<1>3. journal' \subseteq Event /\ StoreTypeOK'
  <2>1. CASE scope = None
    BY <2>1 DEF ReceiveEvent, SessionTypes, TransferTypeOK, StoreTypeOK
  <2>2. CASE scope # None
    BY <1>1, <2>2, JournalTyped DEF ReceiveEvent
  <2> QED
    BY <2>1, <2>2
<1>4. UNCHANGED linkVars /\ UNCHANGED <<scope, spoiled, assembler, parts, before>>
  BY DEF ReceiveEvent
<1>5. /\ TransferTypeOK' /\ scope' \in Optional(Scope) /\ spoiled' \subseteq {"view", "cache"}
  BY <1>3, <1>4 DEF SessionTypes, TransferTypeOK, ViewTypeOK
<1> QED
  BY <1>2, <1>3, <1>4, <1>5, LinkUnchanged, TakeTypes

LEMMA ReceiveFragmentTyped ==
  ASSUME SessionTypes, NEW f \in ServerFrame, f.type = "fragment", ReceiveFragment(f),
         UNCHANGED hostSide, UNCHANGED <<linked, left>>, toPwa # <<>>, toPwa' = Tail(toPwa)
  PROVE  SessionTypes'
<1> DEFINE e == f.part.event
           finished == InScope(scope, f)
                       /\ Extends(PartsOf(parts, e) \ {f.part}, f.part)
                       /\ IsWhole(parts \cup {f.part}, e)
<1>1. f.part \in Fragment /\ e \in Event
  BY ServerFields DEF Fragment
<1>2. parts' \subseteq parts \cup {f.part}
  BY DEF ReceiveFragment, PartsOf
<1>3. Shows /\ journal' \subseteq Event /\ StoreTypeOK'
  <2>1. CASE finished /\ InScope(scope, e)
    <3>1. scope \in Scope /\ Commit({e}) /\ Journal(e) /\ UNCHANGED store
      BY <2>1 DEF InScope, ReceiveFragment, SessionTypes, ViewTypeOK, Optional
    <3>2. scope # None
      BY <2>1 DEF InScope
    <3> QED
      BY <1>1, <3>1, <3>2, CommitTyped, JournalTyped
  <2>2. CASE ~(finished /\ InScope(scope, e))
    <3>1. UNCHANGED <<journal, idb, events, partials, messages, toHost>> /\ UNCHANGED store
      BY <2>2 DEF ReceiveFragment
    <3> QED
      BY <3>1, ShowsUnchanged DEF SessionTypes, TransferTypeOK, StoreTypeOK
  <2> QED
    BY <2>1, <2>2
<1>4. UNCHANGED linkVars /\ UNCHANGED <<scope, spoiled, assembler, before>>
  BY DEF ReceiveFragment
<1>5. /\ TransferTypeOK' /\ scope' \in Optional(Scope) /\ spoiled' \subseteq {"view", "cache"}
  BY <1>1, <1>2, <1>3, <1>4 DEF SessionTypes, TransferTypeOK, ViewTypeOK
<1> QED
  BY <1>3, <1>4, <1>5, LinkUnchanged, TakeTypes

(* The events of a window are those its chunks carry.                      *)
LEMMA AssembledAre ==
  ASSUME NEW chunks, NEW e \in Assembled(chunks)
  PROVE  \E c \in chunks : e \in c.events \/ \E p \in c.fragments : p.event = e
<1>1. e \in EventsOf(chunks) \/ e \in Begun(chunks)
  BY DEF Assembled
<1>2. CASE e \in EventsOf(chunks)
  BY <1>2 DEF EventsOf
<1>3. CASE e \in Begun(chunks)
  <2>1. PICK p \in FragmentsOf(chunks) : e = p.event
    BY <1>3 DEF Begun
  <2>2. PICK c \in chunks : p \in c.fragments
    BY DEF FragmentsOf
  <2> QED
    BY <2>1, <2>2
<1> QED
  BY <1>1, <1>2, <1>3

LEMMA AssembledTyped ==
  ASSUME NEW chunks \in SUBSET Chunk
  PROVE  Assembled(chunks) \subseteq Event
<1> SUFFICES ASSUME NEW e \in Assembled(chunks)
             PROVE  e \in Event
  OBVIOUS
<1>1. PICK c \in chunks : e \in c.events \/ \E p \in c.fragments : p.event = e
  BY AssembledAre
<1> QED
  BY <1>1 DEF Chunk, Fragment

(* What the page takes of a chunk.                                         *)
Received ==
  /\ Shows /\ journal' \subseteq Event /\ assembler' \in Optional(Assembler)
  /\ before' \in Optional(Nat) /\ idb' \in Seq(Transaction)
  /\ spoiled' \subseteq {"view", "cache"}

LEMMA ReceivedNothing ==
  ASSUME SessionTypes, NEW next \in Assembler, assembler' = next,
         UNCHANGED <<events, partials, messages, spoiled, toHost, journal, before, idb>>
  PROVE  Received
<1>1. Shows
  BY ShowsUnchanged
<1>2. journal' \subseteq Event /\ before' \in Optional(Nat)
  BY DEF SessionTypes, TransferTypeOK
<1>3. idb' \in Seq(Transaction)
  BY DEF SessionTypes, StoreTypeOK
<1>4. spoiled' \subseteq {"view", "cache"}
  BY DEF SessionTypes, ViewTypeOK
<1>5. assembler' \in Optional(Assembler)
  BY DEF Optional
<1> QED
  BY <1>1, <1>2, <1>3, <1>4, <1>5 DEF Received

LEMMA DiscardedTyped ==
  ASSUME NEW a \in Assembler
  PROVE  Discarded(a) \in Assembler
<1>1. ASSUME NEW yes \in BOOLEAN, NEW nothing \in SUBSET Chunk
      PROVE  [a EXCEPT !.discarded = yes, !.chunks = nothing] \in Assembler
  BY DEF Assembler
<1>2. TRUE \in BOOLEAN /\ {} \in SUBSET Chunk
  OBVIOUS
<1> QED
  BY <1>1, <1>2 DEF Discarded

LEMMA GrownTyped ==
  ASSUME NEW a \in Assembler, NEW chunks \in SUBSET Chunk
  PROVE  [a EXCEPT !.chunks = chunks] \in Assembler
  BY DEF Assembler

(* The window is complete and shown.                                       *)
Completed(page) ==
  IF assembler.older
  THEN Commit(page) /\ UNCHANGED <<spoiled, journal, idb>>
  ELSE /\ ReplaceHistory(page \cup journal)
       /\ idb' = Opened("replace", page \cup journal)
       /\ journal' = {}
       /\ spoiled' = IF \A e \in journal : InScope(scope, e) THEN {} ELSE {"cache"}

LEMMA CompletedTyped ==
  ASSUME SessionTypes, scope \in Scope, NEW page \in SUBSET Event, Completed(page),
         assembler' = None, before' \in Optional(Nat)
  PROVE  Received
<1>0. assembler' \in Optional(Assembler)
  BY DEF Optional
<1>1. Shows
  <2>1. CASE assembler.older
    BY <2>1, CommitTyped DEF Completed
  <2>2. CASE ~assembler.older
    <3>1. page \cup journal \in SUBSET Event /\ ReplaceHistory(page \cup journal)
      BY <2>2 DEF Completed, SessionTypes, TransferTypeOK
    <3> QED
      BY <3>1, ReplaceTyped
  <2> QED
    BY <2>1, <2>2
<1>2. journal' \subseteq Event
  BY DEF Completed, SessionTypes, TransferTypeOK
<1>3. idb' \in Seq(Transaction)
  <2>1. CASE assembler.older
    BY <2>1 DEF Completed, SessionTypes, StoreTypeOK
  <2>2. CASE ~assembler.older
    <3>1. page \cup journal \in SUBSET Event /\ idb' = Opened("replace", page \cup journal)
      BY <2>2 DEF Completed, SessionTypes, TransferTypeOK
    <3> QED
      BY <3>1, OpenedTyped
  <2> QED
    BY <2>1, <2>2
<1>4. spoiled' \subseteq {"view", "cache"}
  BY DEF Completed, SessionTypes, ViewTypeOK
<1> QED
  BY <1>0, <1>1, <1>2, <1>3, <1>4 DEF Received

LEMMA ChunkReceived ==
  ASSUME SessionTypes, NEW f \in Chunk, assembler # None, ReceiveChunk(f)
  PROVE  Received
<1>1. assembler \in Assembler
  BY DEF SessionTypes, TransferTypeOK, Optional
<1>2. PICK chunks : chunks = assembler.chunks \cup {f}
  OBVIOUS
<1>3. chunks \in SUBSET Chunk
  BY <1>1, <1>2 DEF Assembler
<1>4. CASE ~Accepts(assembler.chunks, f)
  <2>1. /\ assembler' = Discarded(assembler)
        /\ UNCHANGED <<events, partials, messages, spoiled, toHost, journal, before, idb>>
    BY <1>4 DEF ReceiveChunk
  <2> QED
    BY <1>1, <2>1, DiscardedTyped, ReceivedNothing
<1>5. CASE Accepts(assembler.chunks, f) /\ ~IsComplete(chunks)
  <2>1. /\ assembler' = [assembler EXCEPT !.chunks = chunks]
        /\ UNCHANGED <<events, partials, messages, spoiled, toHost, journal, before, idb>>
    BY <1>2, <1>5 DEF ReceiveChunk
  <2>2. [assembler EXCEPT !.chunks = chunks] \in Assembler
    BY <1>1, <1>3, GrownTyped
  <2> QED
    BY <2>1, <2>2, ReceivedNothing
<1>6. CASE Accepts(assembler.chunks, f) /\ IsComplete(chunks)
  <2>1. /\ assembler' = None /\ before' = (CHOOSE c \in chunks : c.final).next
        /\ Completed(Assembled(chunks))
    BY <1>2, <1>6 DEF ReceiveChunk, Completed
  <2>2. scope \in Scope
    BY <1>6 DEF Accepts, InScope, SessionTypes, ViewTypeOK, Optional
  <2>3. (CHOOSE c \in chunks : c.final) \in Chunk
    BY <1>3, <1>6 DEF IsComplete
  <2>4. before' \in Optional(Nat)
    BY <2>1, <2>3 DEF Chunk
  <2> QED
    BY <1>3, <2>1, <2>2, <2>4, AssembledTyped, CompletedTyped
<1> QED
  BY <1>4, <1>5, <1>6

LEMMA ReceiveChunkTyped ==
  ASSUME SessionTypes, NEW f \in ServerFrame, f.type = "chunk", assembler # None, ReceiveChunk(f),
         UNCHANGED hostSide, UNCHANGED <<linked, left>>, toPwa # <<>>, toPwa' = Tail(toPwa)
  PROVE  SessionTypes'
<1>1. Received
  BY ServerFields, ChunkReceived
<1>2. UNCHANGED linkVars /\ UNCHANGED <<scope, parts, store>>
  BY DEF ReceiveChunk
<1>3. TransferTypeOK' /\ StoreTypeOK' /\ scope' \in Optional(Scope)
  BY <1>1, <1>2 DEF Received, SessionTypes, TransferTypeOK, StoreTypeOK, ViewTypeOK
<1> QED
  BY <1>1, <1>2, <1>3, LinkUnchanged, TakeTypes DEF Received

LEMMA EnterScopeTyped ==
  ASSUME SessionTypes, NEW f \in ServerFrame, f.type = "ready", EnterScope(f),
         UNCHANGED hostSide, UNCHANGED <<linked, left>>, toPwa # <<>>, toPwa' = Tail(toPwa)
  PROVE  SessionTypes'
<1> DEFINE sc == [session |-> f.session, gen |-> f.gen]
           frame == [type |-> "sync", rid |-> rids + 1, gen |-> f.gen, before |-> None]
           read == [op |-> "read", scope |-> sc, events |-> {}]
<1>1. /\ f.session \in Nat /\ f.gen \in Nat /\ rids + 1 \in Nat /\ FALSE \in BOOLEAN
      /\ toHost \in Seq(ClientFrame) /\ idb \in Seq(Transaction)
  BY ServerFields DEF SessionTypes, LinkTypeOK, HostTypes, HostTypeOK, NetTypeOK, StoreTypeOK
<1>2. sc \in Scope /\ frame \in ClientFrame /\ read \in Transaction
  BY <1>1 DEF Scope, ClientFrame, Transaction, Optional
<1>3. /\ phase' = "online" /\ hello' = 0 /\ rids' = rids + 1 /\ SetScope(sc)
      /\ assembler' = NewAssembler(rids + 1, FALSE) /\ parts' = {}
      /\ toHost' = Append(toHost, frame) /\ idb' = Append(idb, read)
      /\ UNCHANGED <<journal, before, store>>
  BY DEF EnterScope
<1>4. toHost' \in Seq(ClientFrame) /\ idb' \in Seq(Transaction)
  <2> HIDE DEF frame, read
  <2> QED
    BY <1>1, <1>2, <1>3, AppendProperties
<1>5. /\ scope' \in Optional(Scope) /\ events' \subseteq Event /\ partials' \subseteq Partial
      /\ spoiled' \subseteq {"view", "cache"} /\ messages' \in [Requests -> Message]
  <2> HIDE DEF sc
  <2>1. scope' \in Optional(Scope)
    BY <1>2, <1>3 DEF SetScope, Optional
  <2>2. CASE sc = scope
    BY <1>3, <2>1, <2>2 DEF SetScope, SessionTypes, ViewTypeOK
  <2>3. CASE sc # scope
    BY <1>3, <2>1, <2>3, AllUnknownTyped DEF SetScope
  <2> QED
    BY <2>2, <2>3
<1>6. assembler' \in Assembler
  BY <1>1, <1>3, NewAssemblerTyped
<1>7. TransferTypeOK' /\ StoreTypeOK' /\ LinkTypeOK'
  <2>1. TransferTypeOK'
    BY <1>3, <1>6 DEF SessionTypes, TransferTypeOK, Optional
  <2>2. StoreTypeOK'
    BY <1>3, <1>4 DEF SessionTypes, StoreTypeOK
  <2>3. LinkTypeOK'
    BY <1>1, <1>3 DEF LinkTypeOK
  <2> QED
    BY <2>1, <2>2, <2>3
<1> QED
  BY <1>4, <1>5, <1>7, TakeTypes DEF Shows

(* What a status makes of a message.                                       *)
LEMMA ReceiveStatusTyped ==
  ASSUME SessionTypes, NEW f \in ServerFrame, f.type \in {"status", "started"}, ReceiveStatus(f)
  PROVE  Shows
<1> DEFINE named == {r \in Requests : /\ messages[r].at = "pending"
                                      /\ IF f.type = "status" THEN f.req = r
                                                              ELSE f.rid = messages[r].rid}
           heard(m) == [m EXCEPT !.mid = IF f.mid # 0 THEN f.mid ELSE @,
                                 !.at = IF f.status = "unknown_delivery" THEN "unknown" ELSE @]
           known == [r \in Requests |-> IF r \notin named THEN messages[r] ELSE heard(messages[r])]
<1>1. CASE InScope(scope, f)
  <2>1. f.mid \in Nat /\ messages \in [Requests -> Message] /\ scope \in Scope
        /\ events \in SUBSET Event /\ partials \subseteq Partial
    BY <1>1, ServerFields DEF InScope, SessionTypes, ViewTypeOK, Optional
  <2>2. ASSUME NEW m \in Message
        PROVE  heard(m) \in Message
    BY <2>1 DEF Message
  <2>3. known \in [Requests -> Message]
    <3> HIDE DEF heard, named
    <3> QED
      BY <2>1, <2>2
  <2>4. Reconcile(known, events) /\ UNCHANGED partials
    BY <1>1 DEF ReceiveStatus
  <2> HIDE DEF known
  <2> QED
    BY <2>1, <2>3, <2>4, ReconcileIs DEF Shows
<1>2. CASE ~InScope(scope, f)
  BY <1>2, ShowsUnchanged DEF ReceiveStatus
<1> QED
  BY <1>1, <1>2

LEMMA ReceiveErrorTyped ==
  ASSUME SessionTypes, NEW f \in ServerFrame, ReceiveError(f)
  PROVE  Shows
<1>1. messages \in [Requests -> Message] /\ UNCHANGED <<events, partials, toHost>>
  BY DEF SessionTypes, ViewTypeOK, ReceiveError
<1>2. \A r \in Requests : [messages[r] EXCEPT !.at = "unknown"] \in Message /\ messages[r] \in Message
  BY <1>1 DEF Message
<1>3. messages' \in [Requests -> Message]
  BY <1>2 DEF ReceiveError
<1> QED
  BY <1>1, <1>3 DEF Shows, SessionTypes, ViewTypeOK, HostTypes, HostTypeOK, NetTypeOK

LEMMA ReceivePartialTyped ==
  ASSUME SessionTypes, NEW f \in ServerFrame, f.type = "partial", ReceivePartial(f)
  PROVE  Shows
<1>1. [id |-> f.id, group |-> f.group] \in Partial
  BY ServerFields DEF Partial
<1>2. UNCHANGED <<events, messages, toHost>> /\ partials \subseteq Partial
  BY DEF ReceivePartial, SessionTypes, ViewTypeOK
<1>3. partials' \subseteq Partial
  BY <1>1, <1>2 DEF ReceivePartial
<1> QED
  BY <1>2, <1>3 DEF Shows, SessionTypes, ViewTypeOK, HostTypes, HostTypeOK, NetTypeOK

LEMMA WordTyped ==
  ASSUME SessionTypes, Shows, UNCHANGED <<linkVars, scope, spoiled, transferVars, storeVars>>,
         UNCHANGED hostSide, UNCHANGED <<linked, left>>, toPwa # <<>>, toPwa' = Tail(toPwa)
  PROVE  SessionTypes'
<1>1. LinkTypeOK' /\ TransferTypeOK' /\ StoreTypeOK'
  BY LinkUnchanged, TransferUnchanged, StoreUnchanged
<1>2. scope' \in Optional(Scope) /\ spoiled' \subseteq {"view", "cache"}
  BY DEF SessionTypes, ViewTypeOK
<1> QED
  BY <1>1, <1>2, TakeTypes

LEMMA TakeTyped ==
  ASSUME SessionTypes, NEW f \in ServerFrame, Expected(f), Take(f),
         UNCHANGED hostSide, UNCHANGED <<linked, left>>, toPwa # <<>>, toPwa' = Tail(toPwa)
  PROVE  SessionTypes'
<1>1. CASE f.type = "ready" /\ EnterScope(f)
  BY <1>1, EnterScopeTyped
<1>2. CASE f.type = "event" /\ ReceiveEvent(f)
  BY <1>2, ReceiveEventTyped
<1>3. CASE f.type = "fragment" /\ ReceiveFragment(f)
  BY <1>3, ReceiveFragmentTyped
<1>4. CASE f.type = "chunk" /\ ReceiveChunk(f)
  <2>1. assembler # None
    BY <1>4 DEF Expected
  <2> QED
    BY <1>4, <2>1, ReceiveChunkTyped
<1>5. CASE /\ \/ f.type \in {"status", "started"} /\ ReceiveStatus(f)
              \/ f.type = "error" /\ ReceiveError(f)
              \/ f.type = "partial" /\ ReceivePartial(f)
           /\ UNCHANGED <<linkVars, scope, spoiled, transferVars, storeVars>>
  <2>1. Shows
    BY <1>5, ReceiveStatusTyped, ReceiveErrorTyped, ReceivePartialTyped
  <2> QED
    BY <1>5, <2>1, WordTyped
<1> QED
  BY <1>1, <1>2, <1>3, <1>4, <1>5 DEF Take

LEMMA PwaReceivesTyped ==
  ASSUME SessionTypes, PwaReceives
  PROVE  SessionTypes'
<1>1. toPwa \in Seq(ServerFrame) /\ toPwa # <<>> /\ left \in [Kinds -> Nat]
  BY DEF PwaReceives, SessionTypes, HostTypes, HostTypeOK, NetTypeOK
<1>2. PICK f : f = Head(toPwa)
  OBVIOUS
<1>3. f \in ServerFrame /\ Tail(toPwa) \in Seq(ServerFrame)
  BY <1>1, <1>2, HeadTailProperties
<1>4. UNCHANGED hostSide /\ UNCHANGED <<linked, left>> /\ left' \in [Kinds -> Nat]
  BY <1>1 DEF PwaReceives
<1>5. CASE Rejoin(None, Tail(toPwa))
  BY <1>3, <1>4, <1>5, RejoinTyped
<1>6. CASE Rejoin(scope, Tail(toPwa))
  BY <1>3, <1>4, <1>6, RejoinTyped
<1>7. CASE Expected(f) /\ Take(f) /\ toPwa' = Tail(toPwa)
  BY <1>1, <1>3, <1>4, <1>7, TakeTyped
<1>8. CASE ~Expected(f) /\ toPwa' = Tail(toPwa) /\ UNCHANGED <<pwaVars, toHost>>
  <2>1. /\ UNCHANGED <<events, partials, messages, toHost>>
        /\ UNCHANGED <<linkVars, scope, spoiled, transferVars, storeVars>>
    BY <1>8 DEF pwaVars, viewVars
  <2>2. Shows
    BY <2>1, ShowsUnchanged
  <2> QED
    BY <1>1, <1>4, <1>8, <2>1, <2>2, WordTyped
<1> QED
  BY <1>2, <1>5, <1>6, <1>7, <1>8 DEF PwaReceives

LEMMA StutterTyped ==
  ASSUME SessionTypes, UNCHANGED vars
  PROVE  SessionTypes'
<1>1. UNCHANGED hostSide /\ UNCHANGED <<toHost, toPwa, linked, left>> /\ UNCHANGED viewVars
      /\ UNCHANGED linkVars /\ UNCHANGED transferVars /\ UNCHANGED storeVars
  BY DEF vars, hostVars, netVars, hostSide
<1>2. Shows /\ scope' \in Optional(Scope) /\ spoiled' \subseteq {"view", "cache"}
  BY <1>1, ShowsUnchanged DEF viewVars, SessionTypes, ViewTypeOK
<1>3. toPwa' \in Seq(ServerFrame) /\ linked' \in BOOLEAN /\ left' \in [Kinds -> Nat]
  BY <1>1 DEF SessionTypes, HostTypes, HostTypeOK, NetTypeOK
<1> QED
  BY <1>1, <1>2, <1>3, LinkUnchanged, TransferUnchanged, StoreUnchanged, PwaTypesAfter

LEMMA HostStepTyped ==
  ASSUME SessionTypes, HostNext, UNCHANGED pwaVars
  PROVE  SessionTypes'
<1>1. HostTypes'
  BY HostNextTyped DEF SessionTypes
<1>2. UNCHANGED viewVars /\ UNCHANGED linkVars /\ UNCHANGED transferVars /\ UNCHANGED storeVars
  BY DEF pwaVars
<1>3. ViewTypeOK'
  BY <1>2 DEF viewVars, SessionTypes, ViewTypeOK
<1> QED
  BY <1>1, <1>2, <1>3, LinkUnchanged, TransferUnchanged, StoreUnchanged DEF SessionTypes

LEMMA NextTyped ==
  ASSUME SessionTypes, [Next]_vars
  PROVE  SessionTypes'
<1>1. CASE HostNext /\ UNCHANGED pwaVars
  BY <1>1, HostStepTyped
<1>2. CASE Connect \/ LoseLink \/ RetryCurrentSession
  BY <1>2, ConnectTyped, LoseLinkTyped, RetrySessionTyped
<1>3. CASE \E r \in Requests : SendMessage(r) \/ RetryUnknown(r)
  BY <1>3, SendTyped
<1>4. CASE LoadEarlier \/ PwaReceives \/ RunTransaction
  BY <1>4, LoadEarlierTyped, PwaReceivesTyped, RunTransactionTyped
<1>5. CASE UNCHANGED vars
  BY <1>5, StutterTyped
<1> QED
  BY <1>1, <1>2, <1>3, <1>4, <1>5 DEF Next

LEMMA InitTyped ==
  ASSUME Init
  PROVE  SessionTypes
<1>1. SessionTypeOK
  <2>1. FirstBranch \in Seq(Entry) /\ branches = <<FirstBranch>> /\ minted = Len(FirstBranch)
    BY FirstBranchAssumption DEF Init, HostInit
  <2>2. branches \in Seq(Seq(Entry)) /\ branches # <<>> /\ minted \in Nat
    BY <2>1
  <2> QED
    BY <2>2 DEF Init, HostInit, SessionTypeOK
<1>2. PiTypeOK
  BY EmptySeq DEF Init, HostInit, PiTypeOK, Optional
<1>3. RuntimeTypeOK
  BY EmptySeq DEF Init, HostInit, RuntimeTypeOK, Runtime, Reset, Optional
<1>4. ServiceTypeOK /\ BindingStands
  BY EmptySeq DEF Init, HostInit, ServiceTypeOK, BindingStands, Optional
<1>5. NetTypeOK /\ left \in [Kinds -> Nat]
  BY EmptySeq, HostSessionAssumption DEF Init, HostInit, NetTypeOK
<1>6. ViewTypeOK
  BY DEF Init, ViewTypeOK, Message, Optional
<1>7. LinkTypeOK /\ TransferTypeOK
  BY DEF Init, LinkTypeOK, TransferTypeOK, Optional
<1>8. StoreTypeOK
  BY EmptySeq DEF Init, StoreTypeOK
<1> QED
  BY <1>1, <1>2, <1>3, <1>4, <1>5, <1>6, <1>7, <1>8 DEF SessionTypes, HostTypes, HostTypeOK

(* What every variable of the session holds, on the host, on the wire and in
   the page, and that a binding or a transfer belongs to a session there has
   been: the frame every other proof about a send, a replay or a transfer
   starts from. *)
THEOREM SessionTypesInvariant == Spec => []SessionTypes
<1>1. Init => SessionTypes
  BY InitTyped
<1>2. SessionTypes /\ [Next]_vars => SessionTypes'
  BY NextTyped
<1> QED
  BY <1>1, <1>2, PTL DEF Spec

(* Every variable of the host, of the queues between it and the page, and  *)
(* of the page keeps its type, the service's records never exceed          *)
(* MaxRecords (session_state.ts prune), and the session a binding was made *)
(* for stays one of those there were (v2_service.ts, timeline-runtime.ts). *)
THEOREM SessionTypesHold == Spec => []TypeOK
<1>1. SessionTypes => TypeOK
  BY DEF SessionTypes, HostTypes, TypeOK
<1> QED
  BY <1>1, SessionTypesInvariant, PTL

-----------------------------------------------------------------------------
(* A message that left the list of undelivered ones was given to Pi.       *)

Given(r) == called[r] # <<>>

(* The request id was used for r, and only for it.                         *)
Owns(r, rid) ==
  /\ rid \in 1..rids
  /\ \A q \in Requests : messages[q].rid = rid => q = r

(* Whoever has the request id now was given to Pi.                         *)
RidGiven(rid) ==
  /\ rid \in 1..rids
  /\ \A q \in Requests : messages[q].rid = rid => Given(q)

CorrGiven(c) == c # None => Given(c.req) /\ RidGiven(c.rid)

RuntimeGiven(r) == r.pending # None => CorrGiven(r.pending.corr)

(* A record with an event's id is one of a message given to Pi.            *)
Vouched(records) == \A i \in 1..Len(records) : records[i].mid # 0 => Given(records[i].req)

(* So is a status with an event's id, and a message reported as started.   *)
WordGiven(f) ==
  /\ f.type = "status" /\ f.mid # 0 => Given(f.req)
  /\ f.type = "started" => RidGiven(f.rid)

FramesGiven(frames) == \A i \in 1..Len(frames) : WordGiven(frames[i])

ClientOwned(f) == f.type = "user" => Owns(f.req, f.rid)

QueueOwned(frames) == \A i \in 1..Len(frames) : ClientOwned(frames[i])

MessagesKnown ==
  \A r \in Requests : /\ messages[r].rid <= rids
                      /\ messages[r].mid # 0 => Given(r)

GivenInv ==
  /\ QueueOwned(toHost)
  /\ \A i \in 1..Len(inbox) : CorrGiven(inbox[i])
  /\ CorrGiven(sdk.corr)
  /\ RuntimeGiven(rt)
  /\ \A i \in 1..Len(ended) : CorrGiven(ended[i].corr)
  /\ binding # None => Vouched(binding.records)
  /\ FramesGiven(toPwa)
  /\ MessagesKnown
  /\ SettledWasGiven

(* What a step of the host leaves rests on the calls there were, or on the *)
(* one it makes.                                                           *)
CalledNow(c) == called'[c.req] # <<>> /\ Owns(c.req, c.rid)

PiGrounds ==
  /\ \A i \in 1..Len(inbox') : CorrGiven(inbox'[i]) \/ CalledNow(inbox'[i])
  /\ CorrGiven(sdk'.corr)

RuntimeGrounds ==
  /\ RuntimeGiven(rt')
  /\ \A i \in 1..Len(ended') : CorrGiven(ended'[i].corr)

ServiceGrounds ==
  /\ binding' # None => Vouched(binding'.records)
  /\ FramesGiven(toPwa')

(* No call is taken back.                                                  *)
CallsStay == \A r \in Requests : called[r] # <<>> => called'[r] # <<>>

LEMMA CorrStays ==
  ASSUME SessionTypes, CallsStay, messages' = messages, rids' = rids,
         NEW c \in Optional(Correlation), CorrGiven(c) \/ CalledNow(c)
  PROVE  c # None =>
           /\ called'[c.req] # <<>> /\ c.rid \in 1..rids'
           /\ \A q \in Requests : messages'[q].rid = c.rid => called'[q] # <<>>
<1> SUFFICES ASSUME c # None
             PROVE  /\ called'[c.req] # <<>> /\ c.rid \in 1..rids'
                    /\ \A q \in Requests : messages'[q].rid = c.rid => called'[q] # <<>>
  OBVIOUS
<1>1. c.req \in Requests
  BY DEF Optional, Correlation
<1>2. CASE CorrGiven(c)
  BY <1>1, <1>2 DEF CorrGiven, RidGiven, Given, CallsStay
<1>3. CASE CalledNow(c)
  BY <1>3 DEF CalledNow, Owns
<1> QED
  BY <1>2, <1>3

LEMMA WordStays ==
  ASSUME SessionTypes, CallsStay, messages' = messages, rids' = rids,
         NEW f \in ServerFrame, WordGiven(f)
  PROVE  /\ f.type = "status" /\ f.mid # 0 => called'[f.req] # <<>>
         /\ f.type = "started" =>
              /\ f.rid \in 1..rids'
              /\ \A q \in Requests : messages'[q].rid = f.rid => called'[q] # <<>>
<1>1. f.type = "status" => f.req \in Requests
  BY ServerFields
<1> QED
  BY <1>1 DEF WordGiven, RidGiven, Given, CallsStay

(* A step of the host with grounds for what it leaves keeps the invariant. *)
LEMMA HostKeepsGiven ==
  ASSUME SessionTypes, SessionTypes', GivenInv, UNCHANGED pwaVars, CallsStay,
         QueueOwned(toHost'), PiGrounds, RuntimeGrounds, ServiceGrounds
  PROVE  GivenInv'
<1>0. messages' = messages /\ rids' = rids
  BY DEF pwaVars, viewVars, linkVars
<1>1. /\ inbox' \in Seq(Optional(Correlation)) /\ sdk'.corr \in Optional(Correlation)
      /\ rt' \in Runtime /\ ended' \in Seq(PendingMessage) /\ toPwa' \in Seq(ServerFrame)
      /\ binding' \in Optional(Service)
  BY DEF SessionTypes, HostTypes, HostTypeOK, PiTypeOK, RuntimeTypeOK, NetTypeOK, ServiceTypeOK
<1>2. QueueOwned(toHost)'
  BY <1>0 DEF QueueOwned, ClientOwned, Owns
<1>3. (\A i \in 1..Len(inbox) : CorrGiven(inbox[i]))'
  <2> SUFFICES ASSUME NEW i \in 1..Len(inbox')
               PROVE  CorrGiven(inbox[i])'
    OBVIOUS
  <2>1. inbox'[i] \in Optional(Correlation) /\ (CorrGiven(inbox'[i]) \/ CalledNow(inbox'[i]))
    BY <1>1, ElementOfSeq DEF PiGrounds
  <2> QED
    BY <1>0, <2>1, CorrStays DEF CorrGiven, RidGiven, Given
<1>4. CorrGiven(sdk.corr)'
  BY <1>0, <1>1, CorrStays DEF PiGrounds, CorrGiven, RidGiven, Given
<1>5. RuntimeGiven(rt)'
  <2>1. CASE rt'.pending = None
    BY <2>1 DEF RuntimeGiven
  <2>2. CASE rt'.pending # None
    <3>1. rt'.pending.corr \in Optional(Correlation) /\ CorrGiven(rt'.pending.corr)
      BY <1>1, <2>2 DEF RuntimeGrounds, RuntimeGiven, Runtime, PendingMessage, Optional
    <3> QED
      BY <1>0, <3>1, CorrStays DEF RuntimeGiven, CorrGiven, RidGiven, Given
  <2> QED
    BY <2>1, <2>2
<1>6. (\A i \in 1..Len(ended) : CorrGiven(ended[i].corr))'
  <2> SUFFICES ASSUME NEW i \in 1..Len(ended')
               PROVE  CorrGiven(ended[i].corr)'
    OBVIOUS
  <2>1. ended'[i] \in PendingMessage
    BY <1>1, ElementOfSeq
  <2>2. ended'[i].corr \in Optional(Correlation) /\ CorrGiven(ended'[i].corr)
    BY <2>1 DEF RuntimeGrounds, PendingMessage
  <2> QED
    BY <1>0, <2>2, CorrStays DEF CorrGiven, RidGiven, Given
<1>7. (binding # None => Vouched(binding.records))'
  <2> SUFFICES ASSUME binding' # None, NEW i \in 1..Len(binding'.records),
                      binding'.records[i].mid # 0
               PROVE  called'[binding'.records[i].req] # <<>>
    BY DEF Vouched, Given
  <2>1. binding'.records \in Seq(Record)
    BY <1>1 DEF Optional, Service
  <2>2. binding'.records[i] \in Record
    BY <2>1, ElementOfSeq
  <2> QED
    BY <2>2 DEF ServiceGrounds, Vouched, Given, CallsStay, Record
<1>8. FramesGiven(toPwa)'
  <2> SUFFICES ASSUME NEW i \in 1..Len(toPwa')
               PROVE  WordGiven(toPwa[i])'
    BY DEF FramesGiven
  <2>1. toPwa'[i] \in ServerFrame /\ WordGiven(toPwa'[i])
    BY <1>1, ElementOfSeq DEF ServiceGrounds, FramesGiven
  <2> QED
    BY <1>0, <2>1, WordStays DEF WordGiven, RidGiven, Given
<1>9. MessagesKnown' /\ SettledWasGiven'
  BY <1>0 DEF GivenInv, MessagesKnown, SettledWasGiven, Given, CallsStay
<1> QED
  BY <1>2, <1>3, <1>4, <1>5, <1>6, <1>7, <1>8, <1>9 DEF GivenInv

LEMMA JoinedGiven ==
  ASSUME NEW S, NEW a \in Seq(S), NEW b \in Seq(S), FramesGiven(a), FramesGiven(b)
  PROVE  a \o b \in Seq(S) /\ FramesGiven(a \o b)
<1>1. /\ a \o b \in Seq(S) /\ Len(a \o b) = Len(a) + Len(b)
      /\ \A i \in 1..Len(a) + Len(b) : (a \o b)[i] = IF i <= Len(a) THEN a[i] ELSE b[i - Len(a)]
  BY ConcatProperties
<1>2. Len(a) \in Nat /\ Len(b) \in Nat
  BY LenProperties
<1> SUFFICES ASSUME NEW i \in 1..Len(a) + Len(b)
             PROVE  WordGiven((a \o b)[i])
  BY <1>1 DEF FramesGiven
<1>3. CASE i <= Len(a)
  <2>1. i \in 1..Len(a) /\ (a \o b)[i] = a[i]
    BY <1>1, <1>2, <1>3
  <2> QED
    BY <2>1 DEF FramesGiven
<1>4. CASE ~(i <= Len(a))
  <2>1. i - Len(a) \in 1..Len(b) /\ (a \o b)[i] = b[i - Len(a)]
    BY <1>1, <1>2, <1>4
  <2> QED
    BY <2>1 DEF FramesGiven
<1> QED
  BY <1>3, <1>4

LEMMA PostGiven ==
  ASSUME toPwa \in Seq(ServerFrame), FramesGiven(toPwa), NEW S, NEW frames \in Seq(S),
         FramesGiven(frames), Post(frames)
  PROVE  FramesGiven(toPwa')
<1>1. toPwa \in Seq(S \cup ServerFrame) /\ frames \in Seq(S \cup ServerFrame)
  BY SeqMonotonic
<1>2. FramesGiven(toPwa \o frames)
  BY <1>1, JoinedGiven
<1> QED
  BY <1>2 DEF Post

LEMMA PostOneGiven ==
  ASSUME toPwa \in Seq(ServerFrame), FramesGiven(toPwa), NEW f, WordGiven(f), Post(<<f>>)
  PROVE  FramesGiven(toPwa')
<1>1. <<f>> \in Seq({f}) /\ Len(<<f>>) = 1 /\ <<f>>[1] = f
  OBVIOUS
<1>2. FramesGiven(<<f>>)
  BY <1>1 DEF FramesGiven
<1> QED
  BY <1>1, <1>2, PostGiven

(* The records with one touched.                                           *)
LEMMA AppendVouched ==
  ASSUME NEW records \in Seq(Record), Vouched(records), NEW rec, rec.mid # 0 => Given(rec.req),
         rec \in Record
  PROVE  Vouched(Append(records, rec))
<1>1. /\ Len(Append(records, rec)) = Len(records) + 1 /\ Len(records) \in Nat
      /\ \A i \in 1..Len(records) : Append(records, rec)[i] = records[i]
      /\ Append(records, rec)[Len(records) + 1] = rec
  BY AppendProperties, LenProperties
<1> SUFFICES ASSUME NEW i \in 1..Len(records) + 1, Append(records, rec)[i].mid # 0
             PROVE  Given(Append(records, rec)[i].req)
  BY <1>1 DEF Vouched
<1>2. CASE i \in 1..Len(records)
  BY <1>1, <1>2 DEF Vouched
<1>3. CASE i = Len(records) + 1
  BY <1>1, <1>3
<1> QED
  BY <1>1, <1>2, <1>3

LEMMA WithoutVouched ==
  ASSUME NEW records \in Seq(Record), Vouched(records), NEW r
  PROVE  Vouched(Without(records, r))
<1>1. \A j \in 1..Len(Without(records, r)) :
        \E i \in 1..Len(records) : Without(records, r)[j] = records[i]
  BY WithoutIs
<1> QED
  BY <1>1 DEF Vouched

LEMMA TouchedVouched ==
  ASSUME NEW records \in Seq(Record), Vouched(records), NEW r \in Requests, NEW mid \in Nat,
         NEW status \in {"received", "accepted", "committed", "unknown_delivery"},
         mid # 0 => Given(r)
  PROVE  Vouched(Touched(records, r, status, mid))
<1> DEFINE rec == [req |-> r, status |-> status, mid |-> mid]
<1>1. rec \in Record /\ rec.mid = mid /\ rec.req = r
  BY DEF Record
<1>2. Without(records, r) \in Seq(Record) /\ Vouched(Without(records, r))
  BY WithoutIs, WithoutVouched
<1>3. Touched(records, r, status, mid) = Append(Without(records, r), rec)
  BY DEF Touched
<1> HIDE DEF rec
<1> QED
  BY <1>1, <1>2, <1>3, AppendVouched

LEMMA StatusGiven ==
  ASSUME NEW b, NEW r, NEW status, NEW mid, mid # 0 => Given(r)
  PROVE  WordGiven(StatusFrame(b, r, status, mid))
  BY DEF WordGiven, StatusFrame

LEMMA ConfirmGiven ==
  ASSUME SessionTypes, GivenInv, NEW corr \in Optional(Correlation), CorrGiven(corr),
         NEW mid \in Nat, NEW status \in {"accepted", "committed"},
         NEW first \in Seq(ServerFrame), NEW last \in Seq(ServerFrame),
         FramesGiven(first), FramesGiven(last), Confirm(corr, status, mid, first, last)
  PROVE  ServiceGrounds
<1>1. toPwa \in Seq(ServerFrame) /\ FramesGiven(toPwa)
  BY DEF SessionTypes, HostTypes, HostTypeOK, NetTypeOK, GivenInv
<1>2. CASE binding = None \/ corr = None \/ Recorded(binding.records, corr.req) = 0
  <2>1. UNCHANGED binding /\ Post(first)
    BY <1>2 DEF Confirm
  <2> QED
    BY <1>1, <2>1, PostGiven DEF ServiceGrounds, GivenInv
<1>3. CASE ~(binding = None \/ corr = None \/ Recorded(binding.records, corr.req) = 0)
  <2> DEFINE frame == StatusFrame(binding, corr.req, status, mid)
             records == Touched(binding.records, corr.req, status, mid)
  <2>1. binding \in Service /\ corr \in Correlation
    BY <1>3, BindingTyped DEF Optional, Serviceable, SessionTypes
  <2>2. binding.records \in Seq(Record) /\ corr.req \in Requests /\ Given(corr.req)
    BY <1>3, <2>1 DEF Service, Correlation, CorrGiven
  <2>3. /\ binding' = [binding EXCEPT !.records = records]
        /\ Post(first \o <<frame>> \o last)
    BY <1>3 DEF Confirm
  <2>4. frame \in ServerFrame /\ WordGiven(frame)
    BY <2>1, <2>2, StatusTyped, StatusGiven
  <2>5. Vouched(records)
    BY <1>3, <2>2, TouchedVouched DEF GivenInv
  <2>6. Vouched(binding'.records)
    <3> HIDE DEF records
    <3>1. binding'.records = records
      BY <2>1, <2>3 DEF Service
    <3> QED
      BY <2>5, <3>1
  <2>7. first \o <<frame>> \o last \in Seq(ServerFrame) /\ FramesGiven(first \o <<frame>> \o last)
    <3> HIDE DEF frame
    <3>1. <<frame>> \in Seq(ServerFrame) /\ Len(<<frame>>) = 1 /\ <<frame>>[1] = frame
      BY <2>4
    <3>2. FramesGiven(<<frame>>)
      BY <2>4, <3>1 DEF FramesGiven
    <3>3. first \o <<frame>> \in Seq(ServerFrame) /\ FramesGiven(first \o <<frame>>)
      BY <3>1, <3>2, JoinedGiven
    <3> QED
      BY <3>3, JoinedGiven
  <2>8. FramesGiven(toPwa')
    BY <1>1, <2>3, <2>7, PostGiven
  <2> QED
    BY <2>6, <2>8 DEF ServiceGrounds
<1> QED
  BY <1>2, <1>3

Grounds ==
  CallsStay /\ QueueOwned(toHost') /\ PiGrounds /\ RuntimeGrounds /\ ServiceGrounds

LEMMA GroundsKept ==
  ASSUME GivenInv
  PROVE  /\ UNCHANGED called => CallsStay
         /\ UNCHANGED toHost => QueueOwned(toHost')
         /\ UNCHANGED piVars => PiGrounds
         /\ UNCHANGED <<rt, ended>> => RuntimeGrounds
         /\ UNCHANGED <<binding, toPwa>> => ServiceGrounds
  BY DEF GivenInv, CallsStay, piVars, PiGrounds, RuntimeGrounds, ServiceGrounds

LEMMA MessageStartGiven ==
  ASSUME SessionTypes, GivenInv, NEW role, NEW corr \in Optional(Correlation), CorrGiven(corr),
         NEW from \in Runtime, OnMessageStart(role, corr, from),
         \A i \in 1..Len(inbox') : CorrGiven(inbox'[i])
  PROVE  Grounds
<1> DEFINE r == Attached(from, Current)
           e == minted + 1
           g == IF r.active /\ r.group # 0 THEN r.group ELSE e
           started == IF corr = None \/ binding = None THEN <<>>
                      ELSE <<[type |-> "started", session |-> binding.session, gen |-> binding.gen,
                              rid |-> corr.rid, status |-> "accepted", mid |-> e]>>
           pending == [id |-> e, role |-> role, group |-> g, corr |-> corr, session |-> Current]
<1>1. e \in Nat
  BY DEF SessionTypes, HostTypes, HostTypeOK, SessionTypeOK
<1>2. started \in Seq(ServerFrame) /\ FramesGiven(started)
  <2>1. CASE corr = None \/ binding = None
    <3>1. started = <<>>
      BY <2>1
    <3> QED
      BY <3>1, EmptySeq DEF FramesGiven
  <2>2. CASE ~(corr = None \/ binding = None)
    <3> DEFINE frame == [type |-> "started", session |-> binding.session, gen |-> binding.gen,
                         rid |-> corr.rid, status |-> "accepted", mid |-> e]
    <3>1. binding \in Service /\ corr \in Correlation
      BY <2>2, BindingTyped DEF Serviceable, Optional, SessionTypes
    <3>2. frame \in ServerFrame
      BY <1>1, <3>1 DEF ServerFrame, Service, Correlation
    <3>3. WordGiven(frame)
      BY <2>2 DEF WordGiven, CorrGiven
    <3>4. started = <<frame>>
      BY <2>2
    <3> HIDE DEF frame, started
    <3>5. Len(started) = 1 /\ started[1] = frame /\ started \in Seq(ServerFrame)
      BY <3>2, <3>4
    <3> QED
      BY <3>3, <3>5 DEF FramesGiven
  <2> QED
    BY <2>1, <2>2
<1>3. /\ Confirm(corr, "accepted", e, <<>>, started)
      /\ rt' = [r EXCEPT !.active = TRUE, !.group = g, !.pending = pending]
      /\ sdk' = [running |-> TRUE, corr |-> corr, msg |-> [id |-> e, role |-> role]]
      /\ UNCHANGED <<ended, called, toHost>>
  BY DEF OnMessageStart
<1>4. ServiceGrounds
  <2> HIDE DEF started, e
  <2> DEFINE none == <<>>
  <2>1. none \in Seq(ServerFrame) /\ Len(none) = 0 /\ Confirm(corr, "accepted", e, none, started)
    BY <1>3, EmptySeq
  <2> HIDE DEF none
  <2>2. FramesGiven(none)
    BY <2>1 DEF FramesGiven
  <2> QED
    BY <1>1, <1>2, <2>1, <2>2, ConfirmGiven
<1>5. RuntimeGrounds
  <2>1. r \in Runtime
    BY AttachedTyped, CurrentIs DEF SessionTypes
  <2>2. pending.corr = corr
    OBVIOUS
  <2> HIDE DEF r, g, pending
  <2>3. rt'.pending = pending
    BY <1>3, <2>1 DEF Runtime
  <2> QED
    BY <1>3, <2>2, <2>3 DEF RuntimeGrounds, RuntimeGiven, GivenInv
<1>6. PiGrounds
  BY <1>3 DEF PiGrounds
<1> QED
  BY <1>3, <1>4, <1>5, <1>6, GroundsKept DEF Grounds

LEMMA StartRunGiven ==
  ASSUME SessionTypes, GivenInv, StartRun
  PROVE  Grounds
<1>1. PICK i \in DOMAIN inbox :
        /\ inbox' = RemoveAt(inbox, i)
        /\ OnMessageStart("user", inbox[i], [rt EXCEPT !.active = TRUE, !.group = 0])
  BY DEF StartRun
<1>2. inbox \in Seq(Optional(Correlation)) /\ i \in 1..Len(inbox)
  BY LenProperties DEF SessionTypes, HostTypes, HostTypeOK, PiTypeOK
<1>3. /\ inbox[i] \in Optional(Correlation) /\ CorrGiven(inbox[i])
      /\ Len(inbox') = Len(inbox) - 1 /\ Len(inbox) \in Nat
      /\ \A j \in 1..Len(inbox)-1 : inbox'[j] = IF j < i THEN inbox[j] ELSE inbox[j + 1]
  BY <1>1, <1>2, ElementOfSeq, RemovedIs, LenProperties DEF GivenInv
<1>4. ASSUME NEW j \in 1..Len(inbox')
      PROVE  CorrGiven(inbox'[j])
  <2>1. PICK k \in 1..Len(inbox) : inbox'[j] = inbox[k]
    <3>1. j \in 1..Len(inbox) /\ j + 1 \in 1..Len(inbox) /\ j \in 1..Len(inbox)-1
      BY <1>3
    <3> QED
      BY <1>3, <3>1
  <2> QED
    BY <2>1 DEF GivenInv
<1>5. [rt EXCEPT !.active = TRUE, !.group = 0] \in Runtime
  BY DEF SessionTypes, HostTypes, HostTypeOK, RuntimeTypeOK, Runtime
<1> QED
  BY <1>1, <1>3, <1>4, <1>5, MessageStartGiven

LEMMA SteerGiven ==
  ASSUME SessionTypes, GivenInv, Steer \/ \E role \in Roles : Speak(role)
  PROVE  Grounds
<1>1. inbox \in Seq(Optional(Correlation)) /\ Len(inbox) \in Nat
  BY LenProperties DEF SessionTypes, HostTypes, HostTypeOK, PiTypeOK
<1>2. sdk.corr \in Optional(Correlation) /\ rt \in Runtime /\ CorrGiven(sdk.corr)
  BY DEF SessionTypes, HostTypes, HostTypeOK, PiTypeOK, RuntimeTypeOK, GivenInv
<1>3. CASE Steer
  <2>1. /\ inbox # <<>> /\ inbox' = Tail(inbox) /\ OnMessageStart("user", sdk.corr, rt)
    BY <1>3 DEF Steer
  <2>2. /\ Len(inbox') = Len(inbox) - 1
        /\ \A i \in 1..Len(inbox') : inbox'[i] = inbox[i + 1]
    BY <1>1, <2>1, HeadTailProperties
  <2>3. \A i \in 1..Len(inbox') : i + 1 \in 1..Len(inbox) /\ CorrGiven(inbox'[i])
    BY <1>1, <2>2 DEF GivenInv
  <2> QED
    BY <1>2, <2>1, <2>3, MessageStartGiven
<1>4. CASE \E role \in Roles : Speak(role)
  <2>1. PICK role \in Roles : UNCHANGED inbox /\ OnMessageStart(role, sdk.corr, rt)
    BY <1>4 DEF Speak
  <2>2. \A i \in 1..Len(inbox') : CorrGiven(inbox'[i])
    BY <2>1 DEF GivenInv
  <2> QED
    BY <1>2, <2>1, <2>2, MessageStartGiven
<1> QED
  BY <1>3, <1>4

LEMMA StreamGiven ==
  ASSUME SessionTypes, GivenInv, Stream
  PROVE  Grounds
<1>1. toPwa \in Seq(ServerFrame) /\ FramesGiven(toPwa)
  BY DEF SessionTypes, HostTypes, HostTypeOK, NetTypeOK, GivenInv
<1>2. UNCHANGED <<rt, ended, binding, called, toHost>> /\ UNCHANGED piVars
  BY DEF Stream, runtimeVars, serviceVars
<1>3. FramesGiven(toPwa')
  <2>1. CASE UNCHANGED toPwa
    BY <1>1, <2>1
  <2>2. CASE Post(<<[type |-> "partial", session |-> Current, gen |-> generation,
                     id |-> rt.pending.id, group |-> rt.pending.group]>>)
    <3> DEFINE frame == [type |-> "partial", session |-> Current, gen |-> generation,
                         id |-> rt.pending.id, group |-> rt.pending.group]
    <3>1. WordGiven(frame)
      BY DEF WordGiven
    <3> HIDE DEF frame
    <3> QED
      BY <1>1, <2>2, <3>1, PostOneGiven DEF frame
  <2> QED
    BY <2>1, <2>2 DEF Stream
<1>4. ServiceGrounds
  BY <1>2, <1>3 DEF ServiceGrounds, GivenInv
<1> QED
  BY <1>2, <1>4, GroundsKept DEF Grounds

LEMMA EndMessageGiven ==
  ASSUME SessionTypes, GivenInv, EndMessage
  PROVE  Grounds
<1> DEFINE r == Attached(rt, Current)
<1>1. /\ rt' = [r EXCEPT !.pending = None]
      /\ ended' = IF r.pending = None THEN ended ELSE Append(ended, r.pending)
      /\ sdk' = [sdk EXCEPT !.msg = None]
      /\ UNCHANGED <<inbox, called, toHost, binding, toPwa>>
  BY DEF EndMessage, serviceVars, netVars
<1>2. r \in Runtime
  BY AttachedTyped, CurrentIs DEF SessionTypes, HostTypes, HostTypeOK, RuntimeTypeOK
<1>3. r.pending = None \/ r.pending = rt.pending
  BY DEF Attached, Reset
<1> HIDE DEF r
<1>4. ended \in Seq(PendingMessage)
  BY DEF SessionTypes, HostTypes, HostTypeOK, RuntimeTypeOK
<1>5. RuntimeGrounds
  <2>1. rt'.pending = None
    BY <1>1, <1>2 DEF Runtime
  <2>2. CASE r.pending = None
    BY <1>1, <2>1, <2>2 DEF RuntimeGrounds, RuntimeGiven, GivenInv
  <2>3. CASE r.pending # None
    <3>1. r.pending \in PendingMessage /\ CorrGiven(r.pending.corr)
      BY <1>2, <1>3, <2>3 DEF Runtime, Optional, GivenInv, RuntimeGiven
    <3>2. /\ Len(ended') = Len(ended) + 1 /\ Len(ended) \in Nat
          /\ \A i \in 1..Len(ended) : ended'[i] = ended[i]
          /\ ended'[Len(ended) + 1] = r.pending
      BY <1>1, <1>4, <2>3, <3>1, AppendProperties, LenProperties
    <3>3. ASSUME NEW i \in 1..Len(ended')
          PROVE  CorrGiven(ended'[i].corr)
      <4>1. CASE i \in 1..Len(ended)
        BY <3>2, <4>1 DEF GivenInv
      <4>2. CASE i = Len(ended) + 1
        BY <3>1, <3>2, <4>2
      <4> QED
        BY <3>2, <4>1, <4>2
    <3> QED
      BY <2>1, <3>3 DEF RuntimeGrounds, RuntimeGiven
  <2> QED
    BY <2>2, <2>3
<1>6. PiGrounds
  <2>1. sdk'.corr = sdk.corr
    BY <1>1 DEF SessionTypes, HostTypes, HostTypeOK, PiTypeOK
  <2> QED
    BY <1>1, <2>1 DEF PiGrounds, GivenInv
<1> QED
  BY <1>1, <1>5, <1>6, GroundsKept DEF Grounds

LEMMA EndRunGiven ==
  ASSUME SessionTypes, GivenInv, EndRun
  PROVE  Grounds
<1>1. /\ rt' = [rt EXCEPT !.active = FALSE, !.group = 0, !.pending = None]
      /\ sdk' = [running |-> FALSE, corr |-> None, msg |-> None]
      /\ UNCHANGED <<inbox, ended, called, toHost, binding, toPwa>>
  BY DEF EndRun, serviceVars, netVars
<1>2. rt'.pending = None
  BY <1>1 DEF SessionTypes, HostTypes, HostTypeOK, RuntimeTypeOK, Runtime
<1>3. RuntimeGrounds
  BY <1>1, <1>2 DEF RuntimeGrounds, RuntimeGiven, GivenInv
<1>4. PiGrounds
  BY <1>1 DEF PiGrounds, GivenInv, CorrGiven
<1> QED
  BY <1>1, <1>3, <1>4, GroundsKept DEF Grounds

LEMMA PublishedGiven ==
  ASSUME NEW b \in Service, NEW event \in Event, NEW frames \in PublishFrames(b, event)
  PROVE  FramesGiven(frames)
<1>1. CASE frames = <<[type |-> "event", session |-> b.session, gen |-> b.gen, event |-> event]>>
  <2>1. Len(frames) = 1 /\ frames[1].type = "event"
    BY <1>1
  <2> QED
    BY <2>1 DEF FramesGiven, WordGiven
<1>2. CASE frames = [i \in 1..2 |-> [type |-> "fragment", session |-> b.session, gen |-> b.gen,
                                     part |-> Fragments(event)[i]]]
  <2>1. Len(frames) = 2 /\ \A i \in 1..2 : frames[i].type = "fragment"
    BY <1>2
  <2> QED
    BY <2>1 DEF FramesGiven, WordGiven
<1> QED
  BY <1>1, <1>2 DEF PublishFrames

LEMMA PublishGiven ==
  ASSUME SessionTypes, GivenInv, Publish
  PROVE  Grounds
<1> DEFINE p == Head(ended)
           event == ToEvent(p.session, p.id, FALSE, p.role, p.group)
<1>1. /\ ended \in Seq(PendingMessage) /\ ended # <<>> /\ ended' = Tail(ended)
      /\ p \in PendingMessage /\ p = ended[1] /\ Len(ended) \in Nat \ {0}
      /\ Len(ended') = Len(ended) - 1
      /\ \A i \in 1..Len(ended') : ended'[i] = ended[i + 1]
  BY HeadTailProperties, LenProperties
     DEF Publish, SessionTypes, HostTypes, HostTypeOK, RuntimeTypeOK
<1>2. CorrGiven(p.corr) /\ \A i \in 1..Len(ended') : CorrGiven(ended'[i].corr)
  <2>1. 1 \in 1..Len(ended) /\ \A i \in 1..Len(ended') : i + 1 \in 1..Len(ended)
    BY <1>1
  <2> QED
    BY <1>1, <2>1 DEF GivenInv
<1> HIDE DEF p
<1>3. event \in Event
  BY <1>1 DEF ToEvent, Event, PendingMessage, SessionTypes, HostTypes, HostTypeOK, SessionTypeOK
<1>4. RuntimeGiven(rt') /\ ServiceGrounds
  <2>1. CASE UNCHANGED <<rt, binding, toPwa, left>>
    BY <2>1, GroundsKept DEF GivenInv
  <2>2. CASE /\ rt' = [rt EXCEPT !.published = @ \cup {p.id}]
             /\ \E frames \in IF binding = None THEN {<<>>} ELSE PublishFrames(binding, event) :
                  Cuts(frames) /\ Confirm(p.corr, "committed", p.id, frames, <<>>)
    <3> DEFINE none == <<>>
    <3>1. PICK frames \in IF binding = None THEN {none} ELSE PublishFrames(binding, event) :
            Confirm(p.corr, "committed", p.id, frames, none)
      BY <2>2
    <3>2. none \in Seq(ServerFrame) /\ Len(none) = 0
      BY EmptySeq
    <3> HIDE DEF none
    <3>3. FramesGiven(none)
      BY <3>2 DEF FramesGiven
    <3>4. frames \in Seq(ServerFrame) /\ FramesGiven(frames)
      <4>1. CASE binding = None
        BY <3>1, <3>2, <3>3, <4>1
      <4>2. CASE binding # None
        <5> HIDE DEF event
        <5>1. binding \in Service /\ frames \in PublishFrames(binding, event)
          BY <3>1, <4>2, BindingTyped DEF Serviceable, SessionTypes
        <5> QED
          BY <1>3, <5>1, PublishFramesTyped, PublishedGiven
      <4> QED
        BY <4>1, <4>2
    <3>5. p.corr \in Optional(Correlation) /\ p.id \in Nat
      BY <1>1 DEF PendingMessage
    <3>6. ServiceGrounds
      BY <1>2, <3>1, <3>2, <3>3, <3>4, <3>5, ConfirmGiven
    <3>7. rt'.pending = rt.pending
      BY <2>2 DEF SessionTypes, HostTypes, HostTypeOK, RuntimeTypeOK, Runtime
    <3> QED
      BY <3>6, <3>7 DEF RuntimeGiven, GivenInv
  <2> QED
    BY <2>1, <2>2 DEF Publish, p
<1>5. UNCHANGED piVars /\ UNCHANGED <<called, toHost>>
  BY DEF Publish
<1> QED
  BY <1>2, <1>4, <1>5, GroundsKept DEF Grounds, RuntimeGrounds

LEMMA QuietGiven ==
  ASSUME SessionTypes, GivenInv,
         ShutdownSession \/ TypePrompt
           \/ \E type \in {"custom", "custom_message", "compaction"} : WriteEntry(type)
  PROVE  Grounds
<1>1. UNCHANGED <<rt, ended, binding, toPwa, called, toHost, sdk>>
  BY DEF ShutdownSession, TypePrompt, WriteEntry, piVars, runtimeVars, serviceVars, netVars
<1>2. inbox \in Seq(Optional(Correlation)) /\ None \in Optional(Correlation)
  BY DEF SessionTypes, HostTypes, HostTypeOK, PiTypeOK, Optional
<1>3. \A i \in 1..Len(inbox') : CorrGiven(inbox'[i])
  <2>1. CASE ShutdownSession
    <3>1. inbox' = inbox \/ Len(inbox') = 0
      BY <2>1 DEF ShutdownSession
    <3> QED
      BY <3>1 DEF GivenInv
  <2>2. CASE TypePrompt
    <3>1. /\ Len(inbox') = Len(inbox) + 1 /\ Len(inbox) \in Nat
          /\ \A i \in 1..Len(inbox) : inbox'[i] = inbox[i]
          /\ inbox'[Len(inbox) + 1] = None
      BY <1>2, <2>2, AppendProperties, LenProperties DEF TypePrompt
    <3> SUFFICES ASSUME NEW i \in 1..Len(inbox')
                 PROVE  CorrGiven(inbox'[i])
      OBVIOUS
    <3>2. CASE i \in 1..Len(inbox)
      BY <3>1, <3>2 DEF GivenInv
    <3>3. CASE i = Len(inbox) + 1
      BY <3>1, <3>3 DEF CorrGiven
    <3> QED
      BY <3>1, <3>2, <3>3
  <2>3. CASE \E type \in {"custom", "custom_message", "compaction"} : WriteEntry(type)
    BY <2>3 DEF WriteEntry, piVars, GivenInv
  <2> QED
    BY <2>1, <2>2, <2>3
<1>4. PiGrounds
  BY <1>1, <1>3 DEF PiGrounds, GivenInv
<1> QED
  BY <1>1, <1>4, GroundsKept DEF Grounds

LEMMA FinishReplacementGiven ==
  ASSUME SessionTypes, GivenInv, NEW session, FinishSessionReplacement(session)
  PROVE  ServiceGrounds
<1>1. toPwa \in Seq(ServerFrame) /\ FramesGiven(toPwa)
  BY DEF SessionTypes, HostTypes, HostTypeOK, NetTypeOK, GivenInv
<1>2. FramesGiven(toPwa')
  <2> DEFINE frame == [type |-> "bye", session |-> session, gen |-> binding.gen]
  <2>1. WordGiven(frame)
    BY DEF WordGiven
  <2>2. UNCHANGED toPwa \/ Post(<<frame>>)
    BY DEF FinishSessionReplacement
  <2> HIDE DEF frame
  <2> QED
    BY <1>1, <2>1, <2>2, PostOneGiven
<1>3. binding' = None \/ binding' = binding
  BY DEF FinishSessionReplacement
<1> QED
  BY <1>2, <1>3 DEF ServiceGrounds, GivenInv

LEMMA StartSessionGiven ==
  ASSUME SessionTypes, GivenInv, StartSession \/ EndBridge
  PROVE  Grounds
<1>1. UNCHANGED <<ended, called, toHost>> /\ UNCHANGED piVars
      /\ (rt' = rt \/ rt' = Reset(Current + 1))
  BY DEF StartSession, EndBridge, runtimeVars
<1>2. RuntimeGrounds
  <2>1. Reset(Current + 1).pending = None
    BY DEF Reset
  <2> QED
    BY <1>1, <2>1 DEF RuntimeGrounds, RuntimeGiven, GivenInv
<1>3. ServiceGrounds
  BY FinishReplacementGiven, GroundsKept DEF StartSession, EndBridge
<1> QED
  BY <1>1, <1>2, <1>3, GroundsKept DEF Grounds

LEMMA MoveInTreeGiven ==
  ASSUME SessionTypes, GivenInv, MoveInTree
  PROVE  Grounds
<1>1. UNCHANGED <<rt, ended, called, toHost>> /\ UNCHANGED piVars
  BY DEF MoveInTree, runtimeVars
<1>2. toPwa \in Seq(ServerFrame) /\ FramesGiven(toPwa)
  BY DEF SessionTypes, HostTypes, HostTypeOK, NetTypeOK, GivenInv
<1>3. FramesGiven(toPwa')
  <2> DEFINE frame == [type |-> "reset", session |-> binding.session, gen |-> generation + 1]
  <2>1. WordGiven(frame)
    BY DEF WordGiven
  <2>2. UNCHANGED toPwa \/ Post(<<frame>>)
    BY DEF MoveInTree
  <2> HIDE DEF frame
  <2> QED
    BY <1>2, <2>1, <2>2, PostOneGiven
<1>4. binding' # None => Vouched(binding'.records)
  <2>1. CASE binding = None
    BY <2>1 DEF MoveInTree, GivenInv
  <2>2. CASE binding # None
    <3> DEFINE none == <<>>
    <3>1. binding' = [binding EXCEPT !.gen = generation + 1, !.records = none] /\ Len(none) = 0
      BY <2>2 DEF MoveInTree
    <3>2. binding \in Service
      BY <2>2, BindingTyped DEF Serviceable, SessionTypes
    <3> HIDE DEF none
    <3>3. binding'.records = none
      BY <3>1, <3>2 DEF Service
    <3> QED
      BY <3>1, <3>3 DEF Vouched
  <2> QED
    BY <2>1, <2>2
<1> QED
  BY <1>1, <1>3, <1>4, GroundsKept DEF Grounds, ServiceGrounds

LEMMA ReconnectHostGiven ==
  ASSUME SessionTypes, GivenInv, ReconnectHost
  PROVE  Grounds
<1>1. UNCHANGED <<rt, ended, called>> /\ UNCHANGED piVars /\ binding' = None
  BY DEF ReconnectHost, runtimeVars
<1>2. toHost \in Seq(ClientFrame) /\ toPwa \in Seq(ServerFrame)
  BY DEF SessionTypes, HostTypes, HostTypeOK, NetTypeOK
<1>3. QueueOwned(toHost')
  <2>1. PICK k \in 0..Len(toHost) :
          Len(toHost') = Len(toHost) - k /\ \A i \in 1..Len(toHost') : toHost'[i] = toHost[i + k]
    BY <1>2, SuffixIs DEF ReconnectHost
  <2>2. \A i \in 1..Len(toHost') : i + k \in 1..Len(toHost)
    BY <2>1, <1>2, LenProperties
  <2> QED
    BY <2>1, <2>2 DEF QueueOwned, GivenInv
<1>4. FramesGiven(toPwa')
  <2>1. PICK kept \in Prefixes(toPwa) :
          toPwa' = Append(kept, [type |-> "endpoint"]) \/ toPwa' = kept
    BY DEF ReconnectHost
  <2>2. kept \in Seq(ServerFrame) /\ FramesGiven(kept)
    <3>1. /\ kept \in Seq(ServerFrame) /\ Len(kept) <= Len(toPwa)
          /\ \A i \in 1..Len(kept) : kept[i] = toPwa[i]
      BY <1>2, PrefixIs
    <3>2. \A i \in 1..Len(kept) : i \in 1..Len(toPwa)
      BY <1>2, <3>1, LenProperties
    <3> QED
      BY <3>1, <3>2 DEF FramesGiven, GivenInv
  <2> DEFINE frame == [type |-> "endpoint"]
  <2>3. WordGiven(frame) /\ frame \in ServerFrame
    BY DEF WordGiven, ServerFrame
  <2>4. FramesGiven(Append(kept, frame))
    <3> HIDE DEF frame
    <3>1. <<frame>> \in Seq(ServerFrame) /\ Len(<<frame>>) = 1 /\ <<frame>>[1] = frame
      BY <2>3
    <3>2. FramesGiven(<<frame>>)
      BY <2>3, <3>1 DEF FramesGiven
    <3>3. Append(kept, frame) = kept \o <<frame>>
      BY <2>2, <2>3, AppendIsConcat
    <3> QED
      BY <2>2, <3>1, <3>2, <3>3, JoinedGiven
  <2> QED
    BY <2>1, <2>2, <2>4
<1> QED
  BY <1>1, <1>3, <1>4, GroundsKept DEF Grounds, ServiceGrounds

LEMMA ExpireRecordGiven ==
  ASSUME SessionTypes, GivenInv, ExpireRecord
  PROVE  Grounds
<1>1. UNCHANGED <<rt, ended, called, toHost, toPwa>> /\ UNCHANGED piVars
  BY DEF ExpireRecord, runtimeVars, netVars
<1>2. binding # None /\ binding.records # <<>>
      /\ binding' = [binding EXCEPT !.records = Tail(binding.records)]
  BY DEF ExpireRecord
<1>3. binding \in Service
  BY <1>2, BindingTyped DEF Serviceable, SessionTypes
<1>4. binding.records \in Seq(Record) /\ binding'.records = Tail(binding.records)
  BY <1>2, <1>3 DEF Service
<1>5. /\ Len(binding'.records) = Len(binding.records) - 1 /\ Len(binding.records) \in Nat
      /\ \A i \in 1..Len(binding'.records) : binding'.records[i] = binding.records[i + 1]
  BY <1>2, <1>4, HeadTailProperties, LenProperties
<1>6. \A i \in 1..Len(binding'.records) : i + 1 \in 1..Len(binding.records)
  BY <1>5
<1>7. Vouched(binding'.records)
  BY <1>2, <1>5, <1>6 DEF Vouched, GivenInv
<1> QED
  BY <1>1, <1>7, GroundsKept DEF Grounds, ServiceGrounds, GivenInv

LEMMA AttachedGiven ==
  ASSUME GivenInv, NEW session, rt' = rt \/ rt' = Attached(rt, session)
  PROVE  RuntimeGiven(rt')
  BY DEF GivenInv, RuntimeGiven, Attached, Reset

LEMMA DeliverGiven ==
  ASSUME SessionTypes, GivenInv, NEW b, Serviceable(b), Vouched(b.records),
         NEW f \in ClientFrame, f.type = "user", ClientOwned(f), Deliver(b, f)
  PROVE  /\ CallsStay /\ ServiceGrounds
         /\ \A i \in 1..Len(inbox') : CorrGiven(inbox'[i]) \/ CalledNow(inbox'[i])
<1> DEFINE r == f.req
           new == [req |-> r, status |-> "received", mid |-> 0]
           full == Append(Without(b.records, r), new)
           kept == Pruned(full)
<1>1. b \in Service /\ b.records \in Seq(Record) /\ Len(b.records) <= MaxRecords
  BY DEF Serviceable, Service
<1>2. r \in Requests /\ f.rid \in Nat /\ Owns(r, f.rid)
  BY ClientFields DEF ClientOwned
<1>3. kept \in Seq(Record) /\ full \in Seq(Record) /\ full # <<>>
  <2>1. full \in Seq(Record) /\ kept \in Seq(Record)
    BY <1>1, <1>2, NewRecord
  <2>2. new \in Record /\ Without(b.records, r) \in Seq(Record)
    BY <1>1, <1>2, WithoutIs DEF Record
  <2> HIDE DEF new
  <2> QED
    BY <2>1, <2>2, AppendProperties
<1>4. Vouched(full)
  <2>1. new \in Record /\ new.mid = 0
    BY <1>2 DEF Record
  <2>2. Without(b.records, r) \in Seq(Record) /\ Vouched(Without(b.records, r))
    BY <1>1, WithoutIs, WithoutVouched
  <2> HIDE DEF new
  <2> QED
    BY <2>1, <2>2, AppendVouched
<1>5. Vouched(kept)
  <2> HIDE DEF full
  <2>1. CASE kept = full
    BY <1>4, <2>1
  <2>2. CASE kept = Tail(full)
    <3>1. /\ Len(kept) = Len(full) - 1 /\ Len(full) \in Nat
          /\ \A i \in 1..Len(kept) : kept[i] = full[i + 1]
      BY <1>3, <2>2, HeadTailProperties, LenProperties
    <3>2. \A i \in 1..Len(kept) : i + 1 \in 1..Len(full)
      BY <3>1
    <3> QED
      BY <1>4, <3>1, <3>2 DEF Vouched
  <2> QED
    BY <2>1, <2>2 DEF Pruned
<1>6. /\ toPwa \in Seq(ServerFrame) /\ FramesGiven(toPwa) /\ inbox \in Seq(Optional(Correlation))
      /\ called \in [Requests -> Seq(Call)]
  BY DEF SessionTypes, HostTypes, HostTypeOK, NetTypeOK, PiTypeOK, ServiceTypeOK, GivenInv
<1> HIDE DEF kept
<1>7. CASE /\ called' = [called EXCEPT ![r] =
                           Append(@, [binding |-> b.no, gen |-> b.gen, lapsed |-> lapsed])]
           /\ inbox' = Append(inbox, [req |-> r, rid |-> f.rid])
           /\ binding' = [b EXCEPT !.records = kept]
           /\ Post(<<StatusFrame(b, r, "received", 0)>>)
  <2> DEFINE c == [req |-> r, rid |-> f.rid]
  <2>1. called'[r] # <<>> /\ CallsStay
    <3>1. \A s \in Seq(Call) : \A x : Append(s, x) # <<>>
      OBVIOUS
    <3> DEFINE call == [binding |-> b.no, gen |-> b.gen, lapsed |-> lapsed]
    <3>2. called' = [called EXCEPT ![r] = Append(called[r], call)]
      BY <1>7
    <3> HIDE DEF call
    <3> QED
      BY <1>2, <1>6, <3>1, <3>2 DEF CallsStay
  <2>2. CalledNow(c)
    BY <1>2, <2>1 DEF CalledNow
  <2>3. \A i \in 1..Len(inbox') : CorrGiven(inbox'[i]) \/ CalledNow(inbox'[i])
    <3>1. c \in Optional(Correlation)
      BY <1>2 DEF Correlation, Optional
    <3> HIDE DEF c
    <3>2. inbox' = Append(inbox, c)
      BY <1>7 DEF c
    <3>3. /\ Len(inbox') = Len(inbox) + 1 /\ Len(inbox) \in Nat
          /\ \A i \in 1..Len(inbox) : inbox'[i] = inbox[i]
          /\ inbox'[Len(inbox) + 1] = c
      BY <1>6, <3>1, <3>2, AppendProperties, LenProperties
    <3> SUFFICES ASSUME NEW i \in 1..Len(inbox')
                 PROVE  CorrGiven(inbox'[i]) \/ CalledNow(inbox'[i])
      OBVIOUS
    <3>4. CASE i \in 1..Len(inbox)
      BY <3>3, <3>4 DEF GivenInv
    <3>5. CASE i = Len(inbox) + 1
      BY <2>2, <3>3, <3>5
    <3> QED
      BY <3>3, <3>4, <3>5
  <2>4. binding'.records = kept
    BY <1>1, <1>7 DEF Service
  <2>5. FramesGiven(toPwa')
    BY <1>6, <1>7, StatusGiven, PostOneGiven
  <2> QED
    BY <1>5, <2>1, <2>3, <2>4, <2>5 DEF ServiceGrounds
<1>8. CASE /\ binding' = [b EXCEPT !.records = Touched(kept, r, "unknown_delivery", 0)]
           /\ Post(<<StatusFrame(b, r, "unknown_delivery", 0)>>)
           /\ UNCHANGED <<called, inbox>>
  <2> DEFINE records == Touched(kept, r, "unknown_delivery", 0)
  <2>1. Vouched(records)
    BY <1>2, <1>3, <1>5, TouchedVouched
  <2>2. binding'.records = records
    <3> HIDE DEF records
    <3> QED
      BY <1>1, <1>8 DEF Service, records
  <2>3. FramesGiven(toPwa')
    BY <1>6, <1>8, StatusGiven, PostOneGiven
  <2> HIDE DEF records
  <2> QED
    BY <1>8, <2>1, <2>2, <2>3, GroundsKept DEF ServiceGrounds, GivenInv
<1> QED
  BY <1>7, <1>8 DEF Deliver, kept

LEMMA ServeGiven ==
  ASSUME SessionTypes, GivenInv, NEW b, Serviceable(b), Vouched(b.records),
         NEW f \in ClientFrame, ClientOwned(f), Serve(b, f)
  PROVE  /\ CallsStay /\ RuntimeGiven(rt') /\ ServiceGrounds
         /\ \A i \in 1..Len(inbox') : CorrGiven(inbox'[i]) \/ CalledNow(inbox'[i])
<1>0. HostTypes
  BY DEF SessionTypes
<1>1. b \in Service /\ b.records \in Seq(Record)
  BY DEF Serviceable, Service
<1>2. toPwa \in Seq(ServerFrame) /\ FramesGiven(toPwa)
  BY <1>0 DEF HostTypes, HostTypeOK, NetTypeOK, GivenInv
<1>3. /\ UNCHANGED called => CallsStay
      /\ UNCHANGED inbox => \A i \in 1..Len(inbox') : CorrGiven(inbox'[i]) \/ CalledNow(inbox'[i])
  BY DEF CallsStay, GivenInv
<1>4. rt' = EnsureTimeline => RuntimeGiven(rt')
  BY AttachedGiven DEF EnsureTimeline
<1>5. CASE /\ f.type = "hello" /\ Hello(b, f) /\ UNCHANGED <<called, lapsed, inbox, left, strayed>>
           /\ rt' = EnsureTimeline
  <2> DEFINE frame == [type |-> "ready", session |-> b.session, gen |-> b.gen, rid |-> f.rid]
  <2>1. binding' = [b EXCEPT !.ready = TRUE] /\ Post(<<frame>>)
    BY <1>5 DEF Hello
  <2>2. WordGiven(frame)
    BY DEF WordGiven
  <2> HIDE DEF frame
  <2>3. FramesGiven(toPwa')
    BY <1>2, <2>1, <2>2, PostOneGiven
  <2>4. binding'.records = b.records
    BY <1>1, <2>1 DEF Service
  <2> QED
    BY <1>3, <1>4, <1>5, <2>3, <2>4 DEF ServiceGrounds
<1>6. CASE /\ Refused(b, f) /\ Refuse(b, f) /\ UNCHANGED <<called, lapsed, inbox, left, strayed>>
           /\ rt' = EnsureTimeline
  <2> DEFINE frame == IF b.ready THEN ResetFrame(b) ELSE [type |-> "error", rid |-> f.rid]
  <2>1. binding' = b /\ Post(<<frame>>)
    BY <1>6 DEF Refuse
  <2>2. WordGiven(frame)
    BY DEF WordGiven, ResetFrame
  <2> HIDE DEF frame
  <2>3. FramesGiven(toPwa')
    BY <1>2, <2>1, <2>2, PostOneGiven
  <2> QED
    BY <1>3, <1>4, <1>6, <2>1, <2>3 DEF ServiceGrounds
<1>7. CASE f.type = "sync" /\ ~Refused(b, f) /\ Sync(b, f) /\ UNCHANGED <<called, lapsed, inbox>>
  <2>1. /\ GoesOn(b) /\ (rt' = rt \/ rt' = Attached(rt, b.session))
        /\ \E frames \in Seq(Chunk \cup {ResetFrame(b)}) : Post(frames)
    BY <1>0, <1>7, SyncTyped
  <2>2. PICK frames \in Seq(Chunk \cup {ResetFrame(b)}) : Post(frames)
    BY <2>1
  <2>3. FramesGiven(frames)
    <3> SUFFICES ASSUME NEW i \in 1..Len(frames)
                 PROVE  WordGiven(frames[i])
      BY DEF FramesGiven
    <3>1. frames[i] \in Chunk \cup {ResetFrame(b)}
      BY ElementOfSeq
    <3>2. frames[i].type \in {"chunk", "reset"}
      BY <3>1 DEF Chunk, ResetFrame
    <3> QED
      BY <3>2 DEF WordGiven
  <2>4. FramesGiven(toPwa')
    BY <1>2, <2>2, <2>3, PostGiven
  <2> QED
    BY <1>3, <1>7, <2>1, <2>4, AttachedGiven DEF GoesOn, ServiceGrounds
<1>8. CASE /\ f.type = "observed" /\ ~Refused(b, f) /\ Observe(b, f)
           /\ UNCHANGED <<called, lapsed, inbox, left, strayed>> /\ rt' = EnsureTimeline
  <2> DEFINE records == Without(b.records, f.req)
             frame == [type |-> "error", rid |-> 0]
  <2>1. Vouched(records) /\ records \in Seq(Record)
    BY <1>1, WithoutIs, WithoutVouched
  <2>2. binding' = [b EXCEPT !.records = records] /\ (UNCHANGED toPwa \/ Post(<<frame>>))
    BY <1>8 DEF Observe
  <2>3. WordGiven(frame)
    BY DEF WordGiven
  <2> HIDE DEF records, frame
  <2>4. FramesGiven(toPwa')
    BY <1>2, <2>2, <2>3, PostOneGiven
  <2>5. binding'.records = records
    BY <1>1, <2>2 DEF Service
  <2> QED
    BY <1>3, <1>4, <1>8, <2>1, <2>4, <2>5 DEF ServiceGrounds
<1>9. CASE /\ f.type = "user" /\ ~Refused(b, f) /\ ~IsReplay(b, f.req) /\ Deliver(b, f)
           /\ UNCHANGED strayed /\ rt' = EnsureTimeline
  BY <1>4, <1>9, DeliverGiven
<1>10. CASE /\ f.type = "user" /\ ~Refused(b, f) /\ IsReplay(b, f.req) /\ Replay(b, f.req)
            /\ UNCHANGED <<called, lapsed, inbox, left, strayed>> /\ rt' = EnsureTimeline
  <2> DEFINE r == f.req
             rec == b.records[Recorded(b.records, r)]
             records == Touched(b.records, r, rec.status, rec.mid)
             mid == IF rec.status \in {"accepted", "committed"} THEN rec.mid ELSE 0
  <2>1. r \in Requests
    BY <1>10, ClientFields
  <2>2. Recorded(b.records, r) \in 1..Len(b.records) /\ rec.req = r
    BY <1>1, <1>10, RecordedIs DEF IsReplay
  <2>3. rec \in Record /\ (rec.mid # 0 => Given(r))
    BY <1>1, <2>2, ElementOfSeq DEF Vouched
  <2>4. /\ rec.mid \in Nat /\ (mid # 0 => Given(r))
        /\ rec.status \in {"received", "accepted", "committed", "unknown_delivery"}
    BY <2>3 DEF Record
  <2>5. binding' = [b EXCEPT !.records = records] /\ Post(<<StatusFrame(b, r, rec.status, mid)>>)
    BY <1>10 DEF Replay
  <2>6. Vouched(records)
    <3> HIDE DEF rec, r
    <3> QED
      BY <1>1, <2>1, <2>3, <2>4, TouchedVouched
  <2> HIDE DEF records, rec, mid, r
  <2>7. FramesGiven(toPwa')
    BY <1>2, <2>4, <2>5, StatusGiven, PostOneGiven
  <2>8. binding'.records = records
    BY <1>1, <2>5 DEF Service
  <2> QED
    BY <1>3, <1>4, <1>10, <2>6, <2>7, <2>8 DEF ServiceGrounds
<1> QED
  BY <1>5, <1>6, <1>7, <1>8, <1>9, <1>10, ServeCases

LEMMA HostReceivesGiven ==
  ASSUME SessionTypes, GivenInv, HostReceives
  PROVE  Grounds
<1>0. HostTypes /\ toHost \in Seq(ClientFrame)
  BY DEF SessionTypes, HostTypes, HostTypeOK, NetTypeOK
<1>1. /\ toHost # <<>> /\ Head(toHost) \in ClientFrame /\ toHost' = Tail(toHost)
      /\ UNCHANGED <<sdk, ended>>
  BY <1>0, ReceivesCases
<1>2. QueueOwned(toHost') /\ ClientOwned(Head(toHost))
  <2>1. /\ Len(toHost') = Len(toHost) - 1 /\ Len(toHost) \in Nat \ {0}
        /\ \A i \in 1..Len(toHost') : toHost'[i] = toHost[i + 1]
        /\ Head(toHost) = toHost[1]
    BY <1>0, <1>1, HeadTailProperties, LenProperties
  <2>2. 1 \in 1..Len(toHost) /\ \A i \in 1..Len(toHost') : i + 1 \in 1..Len(toHost)
    BY <2>1
  <2> QED
    BY <2>1, <2>2 DEF QueueOwned, GivenInv
<1>3. CASE UNCHANGED <<inbox, rt, strayed, serviceVars, toPwa, left>>
  <2>1. UNCHANGED piVars /\ UNCHANGED <<rt, ended, binding, toPwa, called>>
    BY <1>1, <1>3 DEF piVars, serviceVars
  <2> QED
    BY <1>2, <2>1, GroundsKept DEF Grounds
<1>4. CASE Serve(Server, Head(toHost))
  <2>1. Serviceable(Server)
    BY <1>0, ServerTyped
  <2>2. Vouched(Server.records)
    <3>1. CASE binding = None
      <4>1. Len(Server.records) = 0
        BY <3>1 DEF Server
      <4> QED
        BY <4>1 DEF Vouched
    <3>2. CASE binding # None
      BY <3>2 DEF Server, GivenInv
    <3> QED
      BY <3>1, <3>2
  <2>3. /\ CallsStay /\ RuntimeGiven(rt') /\ ServiceGrounds
        /\ \A i \in 1..Len(inbox') : CorrGiven(inbox'[i]) \/ CalledNow(inbox'[i])
    BY <1>1, <1>2, <1>4, <2>1, <2>2, ServeGiven
  <2>4. PiGrounds /\ RuntimeGrounds
    BY <1>1, <2>3 DEF PiGrounds, RuntimeGrounds, GivenInv
  <2> QED
    BY <1>2, <2>3, <2>4 DEF Grounds
<1> QED
  BY <1>0, <1>3, <1>4, ReceivesCases

LEMMA HostNextGiven ==
  ASSUME SessionTypes, GivenInv, HostNext, UNCHANGED pwaVars
  PROVE  GivenInv'
<1>1. SessionTypes'
  BY HostStepTyped
<1>2. Grounds
  <2>1. CASE StartRun \/ Steer \/ Stream \/ EndMessage \/ EndRun \/ Publish
    BY <2>1, StartRunGiven, SteerGiven, StreamGiven, EndMessageGiven, EndRunGiven, PublishGiven
  <2>2. CASE \/ \E role \in Roles : Speak(role)
             \/ \E type \in {"custom", "custom_message", "compaction"} : WriteEntry(type)
             \/ TypePrompt \/ ShutdownSession
    BY <2>2, SteerGiven, QuietGiven
  <2>3. CASE StartSession \/ EndBridge \/ MoveInTree
    BY <2>3, StartSessionGiven, MoveInTreeGiven
  <2>4. CASE ReconnectHost \/ ExpireRecord \/ HostReceives
    BY <2>4, ReconnectHostGiven, ExpireRecordGiven, HostReceivesGiven
  <2> QED
    BY <2>1, <2>2, <2>3, <2>4 DEF HostNext
<1> QED
  BY <1>1, <1>2, HostKeepsGiven DEF Grounds

(* What a step of the page may make of its messages: none is undone, and   *)
(* what it learns of one was given to Pi.                                  *)
Founded(ms) ==
  \A r \in Requests : /\ ms[r].mid # 0 => Given(r)
                      /\ ms[r].at = "done" => Given(r)
                      /\ messages[r].at = "done" => ms[r].at = "done"

RidsStay(ms) == \A r \in Requests : ms[r].rid = messages[r].rid

(* A request id is kept or new.                                            *)
RidsMove ==
  \A r \in Requests : \/ messages'[r].rid = messages[r].rid
                      \/ messages'[r].rid = rids' /\ rids < rids'

OwnedNow(f) ==
  f.type = "user" => /\ f.rid \in 1..rids'
                     /\ \A q \in Requests : messages'[q].rid = f.rid => q = f.req

(* The other words for the host: a settled message may be observed.        *)
Tells(told) ==
  \A i \in 1..Len(told) : \/ told[i].type \in {"hello", "sync"}
                          \/ told[i].type = "observed" /\ messages'[told[i].req].at = "done"

QueueAfter == \E told \in Seq(ClientFrame) : toHost' = toHost \o told /\ Tells(told)

LEMMA OwnedAfter ==
  ASSUME SessionTypes, RidsMove, rids' \in Nat, rids <= rids', NEW f, ClientOwned(f)
  PROVE  OwnedNow(f)
<1>1. rids \in Nat
  BY DEF SessionTypes, LinkTypeOK
<1> QED
  BY <1>1 DEF ClientOwned, Owns, OwnedNow, RidsMove

LEMMA RidStays ==
  ASSUME SessionTypes, RidsMove, rids' \in Nat, rids <= rids', called' = called,
         NEW rid, RidGiven(rid)
  PROVE  rid \in 1..rids' /\ \A q \in Requests : messages'[q].rid = rid => called'[q] # <<>>
<1>1. rids \in Nat
  BY DEF SessionTypes, LinkTypeOK
<1> QED
  BY <1>1 DEF RidGiven, Given, RidsMove

LEMMA PwaKeepsGiven ==
  ASSUME SessionTypes, SessionTypes', GivenInv, UNCHANGED hostSide, RidsMove, rids <= rids',
         Founded(messages'), \A i \in 1..Len(toHost') : OwnedNow(toHost'[i]), FramesGiven(toPwa')
  PROVE  GivenInv'
<1>1. /\ inbox' = inbox /\ sdk' = sdk /\ rt' = rt /\ ended' = ended /\ binding' = binding
      /\ called' = called
  BY DEF hostSide, piVars, runtimeVars, serviceVars
<1>2. rids \in Nat /\ rids' \in Nat
  BY DEF SessionTypes, LinkTypeOK
<1>3. ASSUME NEW c, CorrGiven(c)
      PROVE  c # None => /\ called'[c.req] # <<>> /\ c.rid \in 1..rids'
                         /\ \A q \in Requests : messages'[q].rid = c.rid => called'[q] # <<>>
  BY <1>1, <1>2, <1>3, RidStays DEF CorrGiven, Given
<1>4. QueueOwned(toHost)'
  BY DEF QueueOwned, ClientOwned, Owns, OwnedNow
<1>5. (\A i \in 1..Len(inbox) : CorrGiven(inbox[i]))' /\ CorrGiven(sdk.corr)'
      /\ (\A i \in 1..Len(ended) : CorrGiven(ended[i].corr))'
  <2>1. \A i \in 1..Len(inbox) : CorrGiven(inbox[i])
    BY DEF GivenInv
  <2>2. CorrGiven(sdk.corr) /\ \A i \in 1..Len(ended) : CorrGiven(ended[i].corr)
    BY DEF GivenInv
  <2> QED
    BY <1>1, <1>3, <2>1, <2>2 DEF CorrGiven, RidGiven, Given
<1>6. RuntimeGiven(rt)'
  <2>1. rt.pending # None => CorrGiven(rt.pending.corr)
    BY DEF GivenInv, RuntimeGiven
  <2> QED
    BY <1>1, <1>3, <2>1 DEF RuntimeGiven, CorrGiven, RidGiven, Given
<1>7. (binding # None => Vouched(binding.records))'
  BY <1>1 DEF GivenInv, Vouched, Given
<1>8. FramesGiven(toPwa)'
  <2>1. \A i \in 1..Len(toPwa') : WordGiven(toPwa'[i])
    BY DEF FramesGiven
  <2>2. ASSUME NEW f, WordGiven(f)
        PROVE  /\ f.type = "status" /\ f.mid # 0 => called'[f.req] # <<>>
               /\ f.type = "started" =>
                    /\ f.rid \in 1..rids'
                    /\ \A q \in Requests : messages'[q].rid = f.rid => called'[q] # <<>>
    BY <1>1, <1>2, <2>2, RidStays DEF WordGiven, Given
  <2> QED
    BY <2>1, <2>2 DEF FramesGiven, WordGiven, RidGiven, Given
<1>9. MessagesKnown'
  <2> SUFFICES ASSUME NEW r \in Requests
               PROVE  messages'[r].rid <= rids' /\ (messages'[r].mid # 0 => called'[r] # <<>>)
    BY DEF MessagesKnown, Given
  <2>1. messages[r].rid <= rids /\ messages[r].rid \in Nat
    BY DEF GivenInv, MessagesKnown, SessionTypes, ViewTypeOK, Message
  <2> QED
    BY <1>1, <1>2, <2>1 DEF RidsMove, Founded, Given
<1>10. SettledWasGiven'
  BY <1>1 DEF SettledWasGiven, Founded, Given
<1> QED
  BY <1>4, <1>5, <1>6, <1>7, <1>8, <1>9, <1>10 DEF GivenInv

LEMMA QueueAfterOwned ==
  ASSUME SessionTypes, GivenInv, RidsMove, rids' \in Nat, rids <= rids', QueueAfter
  PROVE  \A i \in 1..Len(toHost') : OwnedNow(toHost'[i])
<1>1. toHost \in Seq(ClientFrame)
  BY DEF SessionTypes, HostTypes, HostTypeOK, NetTypeOK
<1>2. PICK told \in Seq(ClientFrame) : toHost' = toHost \o told /\ Tells(told)
  BY DEF QueueAfter
<1>3. /\ Len(toHost') = Len(toHost) + Len(told) /\ Len(toHost) \in Nat /\ Len(told) \in Nat
      /\ \A i \in 1..Len(toHost) + Len(told) :
           toHost'[i] = IF i <= Len(toHost) THEN toHost[i] ELSE told[i - Len(toHost)]
  BY <1>1, <1>2, ConcatProperties, LenProperties
<1> SUFFICES ASSUME NEW i \in 1..Len(toHost')
             PROVE  OwnedNow(toHost'[i])
  OBVIOUS
<1>4. CASE i <= Len(toHost)
  <2>1. i \in 1..Len(toHost) /\ toHost'[i] = toHost[i]
    BY <1>3, <1>4
  <2> QED
    BY <2>1, OwnedAfter DEF GivenInv, QueueOwned
<1>5. CASE ~(i <= Len(toHost))
  <2>1. i - Len(toHost) \in 1..Len(told) /\ toHost'[i] = told[i - Len(toHost)]
    BY <1>3, <1>5
  <2>2. toHost'[i].type \in {"hello", "sync", "observed"}
    BY <1>2, <2>1 DEF Tells
  <2> QED
    BY <2>2 DEF OwnedNow
<1> QED
  BY <1>4, <1>5

LEMMA ObservationsTyped ==
  ASSUME SessionTypes, scope \in Scope, NEW ms, NEW shown
  PROVE  Observations(ms, shown) \subseteq ClientFrame
<1>1. scope.gen \in Nat /\ Settled(ms, shown) \subseteq Requests
  BY DEF Scope, Settled
<1> QED
  BY <1>1 DEF Observations, ClientFrame

ShowsGiven == Founded(messages') /\ RidsStay(messages') /\ QueueAfter

LEMMA NothingTold ==
  ASSUME SessionTypes, UNCHANGED toHost
  PROVE  QueueAfter
<1> DEFINE none == <<>>
<1>1. none \in Seq(ClientFrame) /\ Len(none) = 0
  BY EmptySeq
<1>2. toHost' = toHost \o none
  BY EmptySeq, ConcatEmptySeq DEF SessionTypes, HostTypes, HostTypeOK, NetTypeOK
<1> HIDE DEF none
<1>3. Tells(none)
  BY <1>1 DEF Tells
<1> QED
  BY <1>1, <1>2, <1>3 DEF QueueAfter

LEMMA OneTold ==
  ASSUME SessionTypes, NEW f \in ClientFrame, f.type \in {"hello", "sync"},
         toHost' = Append(toHost, f)
  PROVE  QueueAfter
<1>1. <<f>> \in Seq(ClientFrame) /\ Len(<<f>>) = 1 /\ <<f>>[1] = f
  OBVIOUS
<1>2. toHost' = toHost \o <<f>>
  BY AppendIsConcat DEF SessionTypes, HostTypes, HostTypeOK, NetTypeOK
<1>3. Tells(<<f>>)
  BY <1>1 DEF Tells
<1> QED
  BY <1>1, <1>2, <1>3 DEF QueueAfter

LEMMA MessagesFounded ==
  ASSUME GivenInv
  PROVE  Founded(messages) /\ RidsStay(messages)
  BY DEF GivenInv, MessagesKnown, SettledWasGiven, Founded, RidsStay, Given

LEMMA ReconcileGiven ==
  ASSUME SessionTypes, GivenInv, scope \in Scope, NEW ms \in [Requests -> Message],
         Founded(ms), RidsStay(ms), NEW shown \in SUBSET Event, Reconcile(ms, shown)
  PROVE  ShowsGiven
<1> DEFINE S == Observations(ms, shown)
<1>1. /\ messages' = [r \in Requests |-> IF r \in Settled(ms, shown)
                                         THEN [ms[r] EXCEPT !.at = "done"] ELSE ms[r]]
      /\ \E told \in Seq(S) : toHost' = toHost \o told
  BY ReconcileIs
<1>2. ASSUME NEW r \in Settled(ms, shown)
      PROVE  r \in Requests /\ Given(r)
  <2>1. PICK e \in shown : e.id = ms[r].mid
    BY DEF Settled
  <2>2. r \in Requests /\ e.id # 0
    BY DEF Settled, Event
  <2> QED
    BY <2>1, <2>2 DEF Founded
<1>3. ASSUME NEW r \in Requests
      PROVE  /\ messages'[r].mid = ms[r].mid /\ messages'[r].rid = ms[r].rid
             /\ messages'[r].at = IF r \in Settled(ms, shown) THEN "done" ELSE ms[r].at
  <2>1. ms[r] \in Message
    OBVIOUS
  <2>2. messages'[r] = IF r \in Settled(ms, shown) THEN [ms[r] EXCEPT !.at = "done"] ELSE ms[r]
    BY <1>1
  <2> QED
    BY <2>1, <2>2 DEF Message
<1>4. Founded(messages') /\ RidsStay(messages')
  BY <1>2, <1>3 DEF Founded, RidsStay
<1>5. PICK told \in Seq(S) : toHost' = toHost \o told
  BY <1>1
<1>6. S \subseteq ClientFrame
  BY ObservationsTyped
<1>7. Tells(told)
  <2> SUFFICES ASSUME NEW i \in 1..Len(told)
               PROVE  told[i].type = "observed" /\ messages'[told[i].req].at = "done"
    BY DEF Tells
  <2>1. told[i] \in S
    BY ElementOfSeq
  <2>2. told[i].type = "observed" /\ told[i].req \in Settled(ms, shown)
    BY <2>1 DEF Observations
  <2> QED
    BY <1>2, <1>3, <2>2
<1>8. told \in Seq(ClientFrame)
  BY <1>6, SeqMonotonic
<1> QED
  BY <1>4, <1>5, <1>7, <1>8 DEF ShowsGiven, QueueAfter

LEMMA UnchangedGiven ==
  ASSUME SessionTypes, GivenInv, UNCHANGED <<messages, toHost>>
  PROVE  ShowsGiven
  BY NothingTold, MessagesFounded DEF ShowsGiven, Founded, RidsStay

LEMMA CommitGiven ==
  ASSUME SessionTypes, GivenInv, scope \in Scope, NEW new \in SUBSET Event,
         Commit(new) \/ ReplaceHistory(new)
  PROVE  ShowsGiven
<1> DEFINE mine == {e \in new : InScope(scope, e)}
<1>1. events \cup mine \in SUBSET Event /\ mine \in SUBSET Event
      /\ messages \in [Requests -> Message]
  BY DEF SessionTypes, ViewTypeOK
<1>2. Reconcile(messages, events \cup mine) \/ Reconcile(messages, mine)
  BY DEF Commit, ReplaceHistory
<1> HIDE DEF mine
<1> QED
  BY <1>1, <1>2, MessagesFounded, ReconcileGiven

LEMMA AllUnknownGiven ==
  ASSUME SessionTypes, GivenInv
  PROVE  Founded(AllUnknown) /\ RidsStay(AllUnknown)
<1>1. messages \in [Requests -> Message]
  BY DEF SessionTypes, ViewTypeOK
<1>2. ASSUME NEW r \in Requests
      PROVE  /\ AllUnknown[r].mid = messages[r].mid /\ AllUnknown[r].rid = messages[r].rid
             /\ AllUnknown[r].at = IF messages[r].at = "pending" THEN "unknown" ELSE messages[r].at
  <2>1. messages[r] \in Message
    BY <1>1
  <2>2. AllUnknown[r] = IF messages[r].at = "pending" THEN [messages[r] EXCEPT !.at = "unknown"]
                                                      ELSE messages[r]
    BY DEF AllUnknown
  <2> QED
    BY <2>1, <2>2 DEF Message
<1> QED
  BY <1>2, MessagesFounded DEF Founded, RidsStay

(* A step of the page: some of what was going is lost, or it tells the     *)
(* host more, or a message goes that is not settled.                       *)
QueueMoves ==
  \/ toHost' \in Prefixes(toHost)
  \/ QueueAfter
  \/ \E r \in Requests :
       /\ messages[r].at \in {"unsent", "unknown"} /\ toHost' = Append(toHost, UserFrame(r))
       /\ rids' = rids + 1 /\ \A q \in Requests \ {r} : messages'[q].rid = messages[q].rid

PageMoves ==
  /\ UNCHANGED hostSide /\ rids <= rids' /\ RidsMove /\ Founded(messages') /\ QueueMoves
  /\ FramesGiven(toPwa')

LEMMA PageMovesGiven ==
  ASSUME SessionTypes, SessionTypes', GivenInv, PageMoves
  PROVE  GivenInv'
<1>1. toHost \in Seq(ClientFrame) /\ rids \in Nat /\ rids' \in Nat /\ RidsMove /\ rids <= rids'
  BY DEF SessionTypes, HostTypes, HostTypeOK, NetTypeOK, LinkTypeOK, PageMoves
<1>2. \A i \in 1..Len(toHost) : OwnedNow(toHost[i])
  BY <1>1, OwnedAfter DEF GivenInv, QueueOwned
<1>3. \A i \in 1..Len(toHost') : OwnedNow(toHost'[i])
  <2>1. CASE toHost' \in Prefixes(toHost)
    <3>1. Len(toHost') <= Len(toHost) /\ \A i \in 1..Len(toHost') : toHost'[i] = toHost[i]
      BY <1>1, <2>1, PrefixIs
    <3>2. \A i \in 1..Len(toHost') : i \in 1..Len(toHost)
      BY <1>1, <3>1, LenProperties
    <3> QED
      BY <1>2, <3>1, <3>2
  <2>2. CASE QueueAfter
    BY <1>1, <2>2, QueueAfterOwned
  <2>3. ASSUME NEW r \in Requests, toHost' = Append(toHost, UserFrame(r)), rids' = rids + 1,
               \A q \in Requests \ {r} : messages'[q].rid = messages[q].rid
        PROVE  \A i \in 1..Len(toHost') : OwnedNow(toHost'[i])
    <3> DEFINE f == UserFrame(r)
    <3>1. f.type = "user" /\ f.req = r /\ f.rid = rids + 1
      BY DEF UserFrame
    <3>2. ASSUME NEW q \in Requests, messages'[q].rid = rids + 1
          PROVE  q = r
      <4>1. messages[q].rid \in Nat /\ messages[q].rid <= rids
        BY DEF SessionTypes, ViewTypeOK, Message, GivenInv, MessagesKnown
      <4> QED
        BY <1>1, <2>3, <3>2, <4>1
    <3>3. OwnedNow(f)
      BY <1>1, <2>3, <3>1, <3>2 DEF OwnedNow
    <3> QED
      <4>1. /\ Len(toHost') = Len(toHost) + 1 /\ Len(toHost) \in Nat
            /\ \A i \in 1..Len(toHost) : toHost'[i] = toHost[i]
            /\ toHost'[Len(toHost) + 1] = f
        BY <1>1, <2>3, AppendProperties, LenProperties
      <4> QED
        BY <1>2, <3>3, <4>1
  <2> QED
    BY <2>1, <2>2, <2>3 DEF PageMoves, QueueMoves
<1> QED
  BY <1>1, <1>3, PwaKeepsGiven DEF PageMoves

LEMMA FramesLeft ==
  ASSUME SessionTypes, GivenInv
  PROVE  /\ FramesGiven(toPwa)
         /\ toPwa # <<>> => FramesGiven(Tail(toPwa)) /\ WordGiven(Head(toPwa))
<1>1. toPwa \in Seq(ServerFrame)
  BY DEF SessionTypes, HostTypes, HostTypeOK, NetTypeOK
<1>2. FramesGiven(toPwa)
  BY DEF GivenInv
<1>3. ASSUME toPwa # <<>>
      PROVE  FramesGiven(Tail(toPwa)) /\ WordGiven(Head(toPwa))
  <2> DEFINE t == Tail(toPwa)
  <2>1. /\ Len(t) = Len(toPwa) - 1 /\ Len(toPwa) \in Nat \ {0}
        /\ \A i \in 1..Len(t) : t[i] = toPwa[i + 1]
        /\ Head(toPwa) = toPwa[1]
    BY <1>1, <1>3, HeadTailProperties, LenProperties
  <2> HIDE DEF t
  <2>2. 1 \in 1..Len(toPwa) /\ \A i \in 1..Len(t) : i + 1 \in 1..Len(toPwa)
    BY <2>1
  <2> QED
    BY <1>2, <2>1, <2>2 DEF FramesGiven, t
<1> QED
  BY <1>2, <1>3

LEMMA ShownMoves ==
  ASSUME SessionTypes, ShowsGiven, UNCHANGED hostSide, UNCHANGED rids, FramesGiven(toPwa')
  PROVE  PageMoves
<1>1. rids \in Nat
  BY DEF SessionTypes, LinkTypeOK
<1> QED
  BY <1>1 DEF ShowsGiven, RidsStay, RidsMove, PageMoves, QueueMoves

LEMMA ToldMoves ==
  ASSUME SessionTypes, GivenInv, QueueAfter, UNCHANGED hostSide, rids' \in {rids, rids + 1},
         messages' = messages \/ messages' = AllUnknown, FramesGiven(toPwa')
  PROVE  PageMoves
<1>1. rids \in Nat /\ rids <= rids'
  BY DEF SessionTypes, LinkTypeOK
<1>2. Founded(messages') /\ RidsStay(messages')
  BY MessagesFounded, AllUnknownGiven
<1> QED
  BY <1>1, <1>2 DEF RidsStay, RidsMove, PageMoves, QueueMoves

LEMMA HelloTold ==
  ASSUME SessionTypes, SayHello(toHost)
  PROVE  QueueAfter /\ rids' = rids + 1
<1> DEFINE f == [type |-> "hello", rid |-> rids + 1]
<1>1. toHost' = Append(toHost, f) /\ rids' = rids + 1
  BY DEF SayHello
<1>2. f \in ClientFrame /\ f.type = "hello"
  BY DEF SessionTypes, LinkTypeOK, ClientFrame
<1> HIDE DEF f
<1> QED
  BY <1>1, <1>2, OneTold

LEMMA RejoinMoves ==
  ASSUME SessionTypes, GivenInv, NEW sc, NEW coming \in Seq(ServerFrame), FramesGiven(coming),
         Rejoin(sc, coming), UNCHANGED hostSide
  PROVE  PageMoves
<1>1. QueueAfter /\ rids' = rids + 1 /\ messages' = AllUnknown
  BY HelloTold DEF Rejoin, ClearTransfer, MarkDisconnected
<1>2. FramesGiven(toPwa')
  <2>1. PICK k \in 0..Len(coming) :
          Len(toPwa') = Len(coming) - k /\ \A i \in 1..Len(toPwa') : toPwa'[i] = coming[i + k]
    BY SuffixIs DEF Rejoin
  <2>2. \A i \in 1..Len(toPwa') : i + k \in 1..Len(coming)
    BY <2>1, LenProperties
  <2> QED
    BY <2>1, <2>2 DEF FramesGiven
<1> QED
  BY <1>1, <1>2, ToldMoves

LEMMA ConnectMoves ==
  ASSUME SessionTypes, GivenInv, Connect
  PROVE  PageMoves
<1>1. UNCHANGED hostSide /\ UNCHANGED <<toPwa, messages>> /\ SayHello(toHost)
  BY DEF Connect, viewVars
<1> QED
  BY <1>1, FramesLeft, HelloTold, ToldMoves

LEMMA LoseLinkMoves ==
  ASSUME SessionTypes, GivenInv, LoseLink
  PROVE  PageMoves
<1>1. /\ UNCHANGED hostSide /\ UNCHANGED rids /\ toPwa' = <<>> /\ toHost' \in Prefixes(toHost)
      /\ messages' = AllUnknown
  BY DEF LoseLink, ClearTransfer, MarkDisconnected
<1>2. FramesGiven(toPwa')
  <2>1. Len(toPwa') = 0
    BY <1>1
  <2> QED
    BY <2>1 DEF FramesGiven
<1>3. rids \in Nat /\ rids <= rids'
  BY <1>1 DEF SessionTypes, LinkTypeOK
<1> QED
  BY <1>1, <1>2, <1>3, AllUnknownGiven DEF RidsStay, RidsMove, PageMoves, QueueMoves

LEMMA RetrySessionMoves ==
  ASSUME SessionTypes, GivenInv, RetryCurrentSession
  PROVE  PageMoves
<1>1. toPwa \in Seq(ServerFrame)
  BY DEF SessionTypes, HostTypes, HostTypeOK, NetTypeOK
<1> QED
  BY <1>1, FramesLeft, RejoinMoves DEF RetryCurrentSession

LEMMA SendMoves ==
  ASSUME SessionTypes, GivenInv, NEW r \in Requests, SendMessage(r) \/ RetryUnknown(r)
  PROVE  PageMoves
<1>1. /\ messages[r].at \in {"unsent", "unknown"} /\ Pends(r)
  BY DEF SendMessage, RetryUnknown
<1>2. /\ messages \in [Requests -> Message] /\ rids \in Nat
  BY DEF SessionTypes, ViewTypeOK, LinkTypeOK
<1>3. /\ rids' = rids + 1 /\ toHost' = Append(toHost, UserFrame(r)) /\ UNCHANGED hostSide
      /\ messages' = [messages EXCEPT ![r].at = "pending", ![r].rid = rids + 1] /\ toPwa' = toPwa
  BY <1>1 DEF Pends
<1>4. ASSUME NEW q \in Requests
      PROVE  /\ messages'[q].mid = messages[q].mid
             /\ messages'[q].rid = IF q = r THEN rids + 1 ELSE messages[q].rid
             /\ messages'[q].at = IF q = r THEN "pending" ELSE messages[q].at
  BY <1>2, <1>3 DEF Message
<1>5. Founded(messages') /\ RidsMove
  BY <1>1, <1>2, <1>3, <1>4, MessagesFounded DEF Founded, RidsMove
<1>6. QueueMoves
  BY <1>1, <1>3, <1>4 DEF QueueMoves
<1>7. FramesGiven(toPwa')
  BY <1>3, FramesLeft
<1> QED
  BY <1>2, <1>3, <1>5, <1>6, <1>7 DEF PageMoves

LEMMA LoadEarlierMoves ==
  ASSUME SessionTypes, GivenInv, LoadEarlier
  PROVE  PageMoves
<1> DEFINE frame == [type |-> "sync", rid |-> rids + 1, gen |-> scope.gen, before |-> before]
<1>1. rids + 1 \in Nat /\ scope.gen \in Nat /\ before \in Optional(Nat)
  BY DEF LoadEarlier, SessionTypes, LinkTypeOK, ViewTypeOK, TransferTypeOK, Optional, Scope
<1>2. frame \in ClientFrame /\ frame.type = "sync"
  BY <1>1 DEF ClientFrame
<1>3. /\ toHost' = Append(toHost, frame) /\ rids' = rids + 1 /\ UNCHANGED hostSide
      /\ UNCHANGED <<toPwa, messages>>
  BY DEF LoadEarlier, viewVars
<1> HIDE DEF frame
<1> QED
  BY <1>2, <1>3, OneTold, FramesLeft, ToldMoves

LEMMA RunTransactionMoves ==
  ASSUME SessionTypes, GivenInv, RunTransaction
  PROVE  PageMoves
<1> DEFINE t == Head(idb)
           mine == {e \in store : InScope(t.scope, e)}
           shown == RecentEvents(mine)
<1>1. t \in Transaction
  BY HeadTailProperties DEF RunTransaction, SessionTypes, StoreTypeOK
<1>2. t.scope \in Scope /\ shown \in SUBSET Event
  BY <1>1, RecentAre DEF Transaction, SessionTypes, StoreTypeOK
<1>3. \/ t.scope = scope /\ ReplaceHistory(shown)
      \/ UNCHANGED <<events, partials, messages, spoiled, toHost>>
  BY DEF RunTransaction
<1>4. UNCHANGED hostSide /\ UNCHANGED <<toPwa, rids>>
  BY DEF RunTransaction, hostSide, linkVars
<1> HIDE DEF t, shown
<1>5. ShowsGiven
  BY <1>2, <1>3, CommitGiven, UnchangedGiven
<1> QED
  BY <1>4, <1>5, FramesLeft, ShownMoves

(* What the page takes of a frame, apart from a new scope.                 *)
LEMMA EventShows ==
  ASSUME SessionTypes, GivenInv, NEW f \in ServerFrame, f.type = "event", ReceiveEvent(f)
  PROVE  ShowsGiven
<1>1. CASE InScope(scope, f)
  <2>1. scope \in Scope /\ Commit({f.event})
    BY <1>1 DEF InScope, ReceiveEvent, SessionTypes, ViewTypeOK, Optional
  <2>2. {f.event} \in SUBSET Event
    BY ServerFields
  <2> QED
    BY <2>1, <2>2, CommitGiven
<1>2. CASE ~InScope(scope, f)
  BY <1>2, UnchangedGiven DEF ReceiveEvent
<1> QED
  BY <1>1, <1>2

LEMMA FragmentShows ==
  ASSUME SessionTypes, GivenInv, NEW f \in ServerFrame, f.type = "fragment", ReceiveFragment(f)
  PROVE  ShowsGiven
<1> DEFINE e == f.part.event
<1>1. {e} \in SUBSET Event
  BY ServerFields DEF Fragment
<1>2. \/ InScope(scope, e) /\ Commit({e})
      \/ UNCHANGED <<journal, idb, events, partials, messages, toHost>>
  BY DEF ReceiveFragment
<1>3. CASE InScope(scope, e) /\ Commit({e})
  <2>1. scope \in Scope
    BY <1>3 DEF InScope, SessionTypes, ViewTypeOK, Optional
  <2> QED
    BY <1>1, <1>3, <2>1, CommitGiven
<1>4. CASE UNCHANGED <<journal, idb, events, partials, messages, toHost>>
  BY <1>4, UnchangedGiven
<1> QED
  BY <1>2, <1>3, <1>4

LEMMA ChunkShows ==
  ASSUME SessionTypes, GivenInv, NEW f \in Chunk, assembler # None, ReceiveChunk(f)
  PROVE  ShowsGiven
<1>1. PICK chunks : chunks = assembler.chunks \cup {f}
  OBVIOUS
<1>2. chunks \in SUBSET Chunk
  BY <1>1 DEF SessionTypes, TransferTypeOK, Optional, Assembler
<1>3. \/ UNCHANGED <<events, partials, messages, spoiled, toHost, journal, before, idb>>
      \/ Accepts(assembler.chunks, f) /\ Completed(Assembled(chunks))
  BY <1>1 DEF ReceiveChunk, Completed
<1>4. CASE UNCHANGED <<events, partials, messages, spoiled, toHost, journal, before, idb>>
  BY <1>4, UnchangedGiven
<1>5. CASE Accepts(assembler.chunks, f) /\ Completed(Assembled(chunks))
  <2>1. scope \in Scope
    BY <1>5 DEF Accepts, InScope, SessionTypes, ViewTypeOK, Optional
  <2>2. PICK page : page = Assembled(chunks)
    OBVIOUS
  <2>3. page \in SUBSET Event /\ page \cup journal \in SUBSET Event
    BY <1>2, <2>2, AssembledTyped DEF SessionTypes, TransferTypeOK
  <2>4. Commit(page) \/ ReplaceHistory(page \cup journal)
    BY <1>5, <2>2 DEF Completed
  <2> QED
    BY <2>1, <2>3, <2>4, CommitGiven
<1> QED
  BY <1>3, <1>4, <1>5

LEMMA StatusShows ==
  ASSUME SessionTypes, GivenInv, NEW f \in ServerFrame, f.type \in {"status", "started"},
         WordGiven(f), ReceiveStatus(f)
  PROVE  ShowsGiven
<1> DEFINE named == {r \in Requests : /\ messages[r].at = "pending"
                                      /\ IF f.type = "status" THEN f.req = r
                                                              ELSE f.rid = messages[r].rid}
           heard(m) == [m EXCEPT !.mid = IF f.mid # 0 THEN f.mid ELSE @,
                                 !.at = IF f.status = "unknown_delivery" THEN "unknown" ELSE @]
           known == [r \in Requests |-> IF r \notin named THEN messages[r] ELSE heard(messages[r])]
<1>1. CASE InScope(scope, f)
  <2>1. f.mid \in Nat /\ messages \in [Requests -> Message] /\ scope \in Scope
        /\ events \in SUBSET Event /\ partials \subseteq Partial
    BY <1>1, ServerFields DEF InScope, SessionTypes, ViewTypeOK, Optional
  <2>2. ASSUME NEW m \in Message
        PROVE  /\ heard(m) \in Message /\ heard(m).rid = m.rid
               /\ heard(m).mid = IF f.mid # 0 THEN f.mid ELSE m.mid
               /\ heard(m).at \in {m.at, "unknown"}
    BY <2>1 DEF Message
  <2>3. ASSUME NEW r \in named
        PROVE  /\ r \in Requests /\ messages[r].at = "pending"
               /\ f.type = "status" /\ f.mid # 0 => Given(r)
               /\ f.type = "started" => Given(r)
    BY <2>3 DEF WordGiven, RidGiven
  <2>4. Reconcile(known, events) /\ UNCHANGED partials
    BY <1>1 DEF ReceiveStatus
  <2> HIDE DEF named, heard
  <2>5. known \in [Requests -> Message]
    BY <2>1, <2>2
  <2>6. ASSUME NEW r \in Requests
        PROVE  \/ known[r] = messages[r]
               \/ r \in named /\ known[r] = heard(messages[r])
    OBVIOUS
  <2> HIDE DEF known
  <2>7. ASSUME NEW r \in Requests
        PROVE  /\ known[r].rid = messages[r].rid
               /\ known[r].mid # 0 => Given(r)
               /\ known[r].at = "done" => Given(r)
               /\ messages[r].at = "done" => known[r].at = "done"
    <3>1. messages[r].mid # 0 => Given(r)
      BY DEF GivenInv, MessagesKnown
    <3>2. messages[r].at = "done" => Given(r)
      BY DEF GivenInv, SettledWasGiven, Given
    <3>3. CASE known[r] = messages[r]
      BY <3>1, <3>2, <3>3
    <3>4. CASE r \in named /\ known[r] = heard(messages[r])
      <4>1. messages[r] \in Message
        BY <2>1
      <4>2. /\ known[r].rid = messages[r].rid /\ known[r].at \in {messages[r].at, "unknown"}
            /\ known[r].mid = IF f.mid # 0 THEN f.mid ELSE messages[r].mid
        BY <2>2, <3>4, <4>1
      <4>3. messages[r].at = "pending" /\ (f.mid # 0 => Given(r))
        BY <2>3, <3>4
      <4> QED
        BY <3>1, <4>2, <4>3
    <3> QED
      BY <2>6, <3>3, <3>4
  <2>8. Founded(known) /\ RidsStay(known)
    BY <2>7 DEF Founded, RidsStay
  <2> QED
    BY <2>1, <2>4, <2>5, <2>8, ReconcileGiven
<1>2. CASE ~InScope(scope, f)
  BY <1>2, UnchangedGiven DEF ReceiveStatus
<1> QED
  BY <1>1, <1>2

LEMMA ErrorShows ==
  ASSUME SessionTypes, GivenInv, NEW f \in ServerFrame, ReceiveError(f)
  PROVE  ShowsGiven
<1>1. messages \in [Requests -> Message] /\ UNCHANGED toHost
  BY DEF SessionTypes, ViewTypeOK, ReceiveError
<1>2. ASSUME NEW r \in Requests
      PROVE  /\ messages'[r].mid = messages[r].mid /\ messages'[r].rid = messages[r].rid
             /\ \/ messages'[r].at = messages[r].at
                \/ messages[r].at = "pending" /\ messages'[r].at = "unknown"
  <2>1. messages[r] \in Message
    BY <1>1
  <2>2. \/ messages'[r] = messages[r]
        \/ messages[r].at = "pending" /\ messages'[r] = [messages[r] EXCEPT !.at = "unknown"]
    BY DEF ReceiveError
  <2>3. LET m == [messages[r] EXCEPT !.at = "unknown"] IN
        m.mid = messages[r].mid /\ m.rid = messages[r].rid /\ m.at = "unknown"
    BY <2>1 DEF Message
  <2> QED
    BY <2>2, <2>3
<1>3. Founded(messages') /\ RidsStay(messages')
  BY <1>2, MessagesFounded DEF Founded, RidsStay
<1> QED
  BY <1>1, <1>3, NothingTold DEF ShowsGiven

LEMMA EnterScopeMoves ==
  ASSUME SessionTypes, GivenInv, NEW f \in ServerFrame, f.type = "ready", EnterScope(f),
         UNCHANGED hostSide, FramesGiven(toPwa')
  PROVE  PageMoves
<1> DEFINE frame == [type |-> "sync", rid |-> rids + 1, gen |-> f.gen, before |-> None]
<1>1. f.gen \in Nat /\ rids + 1 \in Nat
  BY ServerFields DEF SessionTypes, LinkTypeOK
<1>2. frame \in ClientFrame /\ frame.type = "sync"
  BY <1>1 DEF ClientFrame, Optional
<1>3. /\ toHost' = Append(toHost, frame) /\ rids' = rids + 1
      /\ messages' = messages \/ messages' = AllUnknown
  BY DEF EnterScope, SetScope
<1> HIDE DEF frame
<1> QED
  BY <1>2, <1>3, OneTold, ToldMoves

LEMMA TakeMoves ==
  ASSUME SessionTypes, GivenInv, NEW f \in ServerFrame, WordGiven(f), Expected(f), Take(f),
         UNCHANGED hostSide, FramesGiven(toPwa')
  PROVE  PageMoves
<1>1. CASE f.type = "ready" /\ EnterScope(f)
  BY <1>1, EnterScopeMoves
<1>2. CASE f.type = "event" /\ ReceiveEvent(f)
  <2>1. UNCHANGED rids
    BY <1>2 DEF ReceiveEvent, linkVars
  <2> QED
    BY <1>2, <2>1, EventShows, ShownMoves
<1>3. CASE f.type = "fragment" /\ ReceiveFragment(f)
  <2>1. UNCHANGED rids
    BY <1>3 DEF ReceiveFragment, linkVars
  <2> QED
    BY <1>3, <2>1, FragmentShows, ShownMoves
<1>4. CASE f.type = "chunk" /\ ReceiveChunk(f)
  <2>1. UNCHANGED rids /\ assembler # None /\ f \in Chunk
    BY <1>4, ServerFields DEF ReceiveChunk, linkVars, Expected
  <2> QED
    BY <1>4, <2>1, ChunkShows, ShownMoves
<1>5. CASE /\ \/ f.type \in {"status", "started"} /\ ReceiveStatus(f)
              \/ f.type = "error" /\ ReceiveError(f)
              \/ f.type = "partial" /\ ReceivePartial(f)
           /\ UNCHANGED <<linkVars, scope, spoiled, transferVars, storeVars>>
  <2>1. UNCHANGED rids
    BY <1>5 DEF linkVars
  <2>2. f.type = "partial" /\ ReceivePartial(f) => ShowsGiven
    BY UnchangedGiven DEF ReceivePartial
  <2> QED
    BY <1>5, <2>1, <2>2, StatusShows, ErrorShows, ShownMoves
<1> QED
  BY <1>1, <1>2, <1>3, <1>4, <1>5 DEF Take

LEMMA PwaReceivesMoves ==
  ASSUME SessionTypes, GivenInv, PwaReceives
  PROVE  PageMoves
<1>1. toPwa \in Seq(ServerFrame) /\ toPwa # <<>> /\ UNCHANGED hostSide
  BY DEF PwaReceives, SessionTypes, HostTypes, HostTypeOK, NetTypeOK
<1>2. PICK f : f = Head(toPwa)
  OBVIOUS
<1>3. f \in ServerFrame /\ Tail(toPwa) \in Seq(ServerFrame)
  BY <1>1, <1>2, HeadTailProperties
<1>4. WordGiven(f) /\ FramesGiven(Tail(toPwa))
  BY <1>1, <1>2, FramesLeft
<1>5. CASE Rejoin(None, Tail(toPwa)) \/ Rejoin(scope, Tail(toPwa))
  BY <1>1, <1>3, <1>4, <1>5, RejoinMoves
<1>6. CASE Expected(f) /\ Take(f) /\ toPwa' = Tail(toPwa)
  BY <1>1, <1>3, <1>4, <1>6, TakeMoves
<1>7. CASE ~Expected(f) /\ toPwa' = Tail(toPwa) /\ UNCHANGED <<pwaVars, toHost>>
  <2>1. UNCHANGED <<messages, toHost>> /\ UNCHANGED rids
    BY <1>7 DEF pwaVars, viewVars, linkVars
  <2> QED
    BY <1>1, <1>4, <1>7, <2>1, UnchangedGiven, ShownMoves
<1> QED
  BY <1>2, <1>5, <1>6, <1>7 DEF PwaReceives

LEMMA StutterMoves ==
  ASSUME SessionTypes, GivenInv, UNCHANGED vars
  PROVE  PageMoves
<1>1. UNCHANGED hostSide /\ UNCHANGED <<toHost, toPwa, messages, rids>>
  BY DEF vars, hostVars, netVars, hostSide, viewVars, linkVars
<1> QED
  BY <1>1, FramesLeft, UnchangedGiven, ShownMoves

LEMMA PageSteps ==
  ASSUME SessionTypes, GivenInv, [Next]_vars
  PROVE  (HostNext /\ UNCHANGED pwaVars) \/ PageMoves
<1>1. CASE HostNext /\ UNCHANGED pwaVars
  BY <1>1
<1>2. CASE Connect \/ LoseLink \/ RetryCurrentSession
  BY <1>2, ConnectMoves, LoseLinkMoves, RetrySessionMoves
<1>3. CASE \E r \in Requests : SendMessage(r) \/ RetryUnknown(r)
  BY <1>3, SendMoves
<1>4. CASE LoadEarlier \/ PwaReceives \/ RunTransaction
  BY <1>4, LoadEarlierMoves, PwaReceivesMoves, RunTransactionMoves
<1>5. CASE UNCHANGED vars
  BY <1>5, StutterMoves
<1> QED
  BY <1>1, <1>2, <1>3, <1>4, <1>5 DEF Next

LEMMA InitGiven ==
  ASSUME Init
  PROVE  GivenInv
<1>1. /\ toHost = <<>> /\ toPwa = <<>> /\ inbox = <<>> /\ ended = <<>> /\ binding = None
      /\ sdk.corr = None /\ rt.pending = None /\ rids = 0
      /\ \A r \in Requests : messages[r] = [at |-> "unsent", rid |-> 0, mid |-> 0]
  BY DEF Init, HostInit, Reset
<1>2. Len(toHost) = 0 /\ Len(toPwa) = 0 /\ Len(inbox) = 0 /\ Len(ended) = 0
  BY <1>1
<1>3. QueueOwned(toHost) /\ FramesGiven(toPwa)
  BY <1>2 DEF QueueOwned, FramesGiven
<1>4. CorrGiven(sdk.corr) /\ RuntimeGiven(rt)
  BY <1>1 DEF CorrGiven, RuntimeGiven
<1>5. MessagesKnown /\ SettledWasGiven
  BY <1>1 DEF MessagesKnown, SettledWasGiven
<1> QED
  BY <1>1, <1>2, <1>3, <1>4, <1>5 DEF GivenInv

LEMMA NextGiven ==
  ASSUME SessionTypes, GivenInv, [Next]_vars
  PROVE  GivenInv'
  BY PageSteps, NextTyped, HostNextGiven, PageMovesGiven

(* What the page learns of a message it learns from the host, and by the   *)
(* request id or the event's id of that very message.                      *)
THEOREM GivenInvariant == Spec => [](SessionTypes /\ GivenInv)
<1>1. Init => SessionTypes /\ GivenInv
  BY InitTyped, InitGiven
<1>2. SessionTypes /\ GivenInv /\ [Next]_vars => (SessionTypes /\ GivenInv)'
  BY NextTyped, NextGiven
<1> QED
  BY <1>1, <1>2, PTL DEF Spec

(* A message the PWA takes off its list of undelivered ones                *)
(* (timeline-runtime.ts reconcileUserMessage) was given to Pi: no status,  *)
(* event, page or cached window takes one message for another, whatever is *)
(* lost, sent again or served by another binding.                          *)
THEOREM SettledGiven == Spec => []SettledWasGiven
<1>1. SessionTypes /\ GivenInv => SettledWasGiven
  BY DEF GivenInv
<1> QED
  BY <1>1, GivenInvariant, PTL

-----------------------------------------------------------------------------
(* A binding gives Pi a message once.                                      *)

IsUser(f, r) == f.type = "user" /\ f.req = r

(* The message is on its way to the host, or may be sent again.            *)
Repeatable(r) ==
  messages[r].at # "done" \/ \E i \in 1..Len(toHost) : IsUser(toHost[i], r)

(* The call a service would make now.                                      *)
CallOf(b) == [binding |-> b.no, gen |-> b.gen, lapsed |-> lapsed]

Knows(records, r) == \E k \in 1..Len(records) : records[k].req = r

(* The service knows whatever may come again of what was given to Pi.      *)
Remembers(b) ==
  \A r \in Requests : Repeatable(r) =>
    \A i \in 1..Len(called[r]) : called[r][i] = CallOf(b) => Knows(b.records, r)

(* Nothing of a message follows the word that it was seen.                 *)
ObservedLast ==
  \A i \in 1..Len(toHost) : toHost[i].type = "observed" =>
    /\ messages[toHost[i].req].at = "done"
    /\ \A j \in 1..Len(toHost) : j > i => ~IsUser(toHost[j], toHost[i].req)

(* The calls were made by the bindings and in the generations so far.      *)
CallsPast ==
  \A r \in Requests : \A i \in 1..Len(called[r]) :
    /\ called[r][i].binding <= bound /\ called[r][i].gen <= generation
    /\ called[r][i].lapsed <= lapsed

ServicePresent(b) == b.no <= bound /\ b.gen <= generation

OnceInv ==
  /\ ObservedLast /\ CallsPast
  /\ binding # None => ServicePresent(binding) /\ Remembers(binding)
  /\ ExecutedOncePerBinding

LEMMA CallsTyped ==
  ASSUME HostTypes, NEW r \in Requests
  PROVE  /\ called[r] \in Seq(Call) /\ Len(called[r]) \in Nat /\ DOMAIN called[r] = 1..Len(called[r])
         /\ \A i \in 1..Len(called[r]) : called[r][i] \in Call
<1>1. called[r] \in Seq(Call)
  BY DEF HostTypes, HostTypeOK, ServiceTypeOK
<1> QED
  BY <1>1, LenProperties, ElementOfSeq

LEMMA KnowsRecorded ==
  ASSUME NEW records \in Seq(Record), NEW r
  PROVE  Knows(records, r) <=> Recorded(records, r) # 0
  BY RecordedIs DEF Knows

(* Dropping the record of another request, or adding one, forgets nothing. *)
LEMMA WithoutKnows ==
  ASSUME NEW records \in Seq(Record), NEW r, NEW q, q # r, Knows(records, q)
  PROVE  Knows(Without(records, r), q)
<1>1. PICK k \in 1..Len(records) : records[k].req = q
  BY DEF Knows
<1> QED
  BY <1>1, WithoutIs DEF Knows

LEMMA AppendKnows ==
  ASSUME NEW records \in Seq(Record), NEW rec \in Record
  PROVE  /\ Knows(Append(records, rec), rec.req)
         /\ \A q : Knows(records, q) => Knows(Append(records, rec), q)
<1>1. /\ Len(Append(records, rec)) = Len(records) + 1 /\ Len(records) \in Nat
      /\ \A i \in 1..Len(records) : Append(records, rec)[i] = records[i]
      /\ Append(records, rec)[Len(records) + 1] = rec
  BY AppendProperties, LenProperties
<1>2. Len(records) + 1 \in 1..Len(Append(records, rec))
      /\ \A i \in 1..Len(records) : i \in 1..Len(Append(records, rec))
  BY <1>1
<1> QED
  BY <1>1, <1>2 DEF Knows

LEMMA TouchedKnows ==
  ASSUME NEW records \in Seq(Record), NEW r \in Requests, NEW mid \in Nat,
         NEW status \in {"received", "accepted", "committed", "unknown_delivery"}
  PROVE  /\ Knows(Touched(records, r, status, mid), r)
         /\ \A q : Knows(records, q) => Knows(Touched(records, r, status, mid), q)
<1> DEFINE new == [req |-> r, status |-> status, mid |-> mid]
           others == Without(records, r)
<1>1. new \in Record /\ new.req = r
  BY DEF Record
<1>2. others \in Seq(Record)
  BY WithoutIs
<1>3. ASSUME NEW q, Knows(records, q), q # r
      PROVE  Knows(others, q)
  BY <1>3, WithoutKnows
<1>4. Touched(records, r, status, mid) = Append(others, new)
  BY DEF Touched
<1> HIDE DEF new, others
<1> QED
  BY <1>1, <1>2, <1>3, <1>4, AppendKnows

(* What the page sends repeats nothing that is settled.                    *)
LEMMA PageRepeatsLess ==
  ASSUME SessionTypes, GivenInv, PageMoves, NEW r \in Requests, Repeatable(r)'
  PROVE  Repeatable(r)
<1>1. toHost \in Seq(ClientFrame) /\ Len(toHost) \in Nat
  BY LenProperties DEF SessionTypes, HostTypes, HostTypeOK, NetTypeOK
<1>2. messages[r].at = "done" => messages'[r].at = "done"
  BY DEF PageMoves, Founded
<1> SUFFICES ASSUME messages[r].at = "done"
             PROVE  \E i \in 1..Len(toHost) : IsUser(toHost[i], r)
  BY DEF Repeatable
<1>3. PICK i \in 1..Len(toHost') : IsUser(toHost'[i], r)
  BY <1>2 DEF Repeatable
<1>4. CASE toHost' \in Prefixes(toHost)
  <2>1. i \in 1..Len(toHost) /\ toHost'[i] = toHost[i]
    <3>1. Len(toHost') <= Len(toHost) /\ toHost'[i] = toHost[i]
      BY <1>1, <1>4, PrefixIs
    <3> QED
      BY <1>1, <3>1
  <2> QED
    BY <1>3, <2>1
<1>5. CASE QueueAfter
  <2>1. PICK told \in Seq(ClientFrame) : toHost' = toHost \o told /\ Tells(told)
    BY <1>5 DEF QueueAfter
  <2>2. /\ Len(toHost') = Len(toHost) + Len(told) /\ Len(told) \in Nat
        /\ \A j \in 1..Len(toHost) + Len(told) :
             toHost'[j] = IF j <= Len(toHost) THEN toHost[j] ELSE told[j - Len(toHost)]
    BY <1>1, <2>1, ConcatProperties, LenProperties
  <2>3. CASE i <= Len(toHost)
    <3>1. i \in 1..Len(toHost) /\ toHost'[i] = toHost[i]
      BY <1>1, <2>2, <2>3
    <3> QED
      BY <1>3, <3>1
  <2>4. CASE ~(i <= Len(toHost))
    <3>1. i - Len(toHost) \in 1..Len(told) /\ toHost'[i] = told[i - Len(toHost)]
      BY <1>1, <2>2, <2>4
    <3> QED
      BY <1>3, <2>1, <3>1 DEF Tells, IsUser
  <2> QED
    BY <2>3, <2>4
<1>6. ASSUME NEW q \in Requests, messages[q].at \in {"unsent", "unknown"},
             toHost' = Append(toHost, UserFrame(q))
      PROVE  \E k \in 1..Len(toHost) : IsUser(toHost[k], r)
  <2> DEFINE f == UserFrame(q)
  <2>1. f.req = q /\ q # r
    BY <1>6 DEF UserFrame
  <2> HIDE DEF f
  <2>2. /\ Len(toHost') = Len(toHost) + 1
        /\ \A k \in 1..Len(toHost) : toHost'[k] = toHost[k]
        /\ toHost'[Len(toHost) + 1] = f
    BY <1>1, <1>6, AppendProperties DEF f
  <2>3. i # Len(toHost) + 1
    BY <1>3, <2>1, <2>2 DEF IsUser
  <2>4. i \in 1..Len(toHost)
    BY <1>1, <2>2, <2>3
  <2> QED
    BY <1>3, <2>2, <2>4
<1> QED
  BY <1>4, <1>5, <1>6 DEF PageMoves, QueueMoves

LEMMA PageObservesLast ==
  ASSUME SessionTypes, GivenInv, PageMoves, ObservedLast
  PROVE  ObservedLast'
<1>1. toHost \in Seq(ClientFrame) /\ Len(toHost) \in Nat
  BY LenProperties DEF SessionTypes, HostTypes, HostTypeOK, NetTypeOK
<1>2. ASSUME NEW i \in 1..Len(toHost), toHost[i].type = "observed"
      PROVE  /\ messages[toHost[i].req].at = "done" /\ messages'[toHost[i].req].at = "done"
             /\ toHost[i].req \in Requests
             /\ \A j \in 1..Len(toHost) : j > i => ~IsUser(toHost[j], toHost[i].req)
  <2>1. toHost[i].req \in Requests
    BY <1>1, <1>2, ElementOfSeq, ClientFields
  <2> QED
    BY <1>2, <2>1 DEF ObservedLast, PageMoves, Founded
<1> SUFFICES ASSUME NEW i \in 1..Len(toHost'), toHost'[i].type = "observed"
             PROVE  /\ messages'[toHost'[i].req].at = "done"
                    /\ \A j \in 1..Len(toHost') : j > i => ~IsUser(toHost'[j], toHost'[i].req)
  BY DEF ObservedLast
<1>3. CASE toHost' \in Prefixes(toHost)
  <2>1. Len(toHost') <= Len(toHost) /\ \A k \in 1..Len(toHost') : toHost'[k] = toHost[k]
    BY <1>1, <1>3, PrefixIs
  <2>2. \A k \in 1..Len(toHost') : k \in 1..Len(toHost)
    BY <1>1, <1>3, <2>1, PrefixIs, LenProperties
  <2> QED
    BY <1>2, <2>1, <2>2
<1>4. CASE QueueAfter
  <2>1. PICK told \in Seq(ClientFrame) : toHost' = toHost \o told /\ Tells(told)
    BY <1>4 DEF QueueAfter
  <2>2. /\ Len(toHost') = Len(toHost) + Len(told) /\ Len(told) \in Nat
        /\ \A j \in 1..Len(toHost) + Len(told) :
             toHost'[j] = IF j <= Len(toHost) THEN toHost[j] ELSE told[j - Len(toHost)]
    BY <1>1, <2>1, ConcatProperties, LenProperties
  <2>3. ASSUME NEW j \in 1..Len(toHost'), ~(j <= Len(toHost))
        PROVE  /\ toHost'[j].type # "user"
               /\ toHost'[j].type = "observed" => messages'[toHost'[j].req].at = "done"
    <3>1. j - Len(toHost) \in 1..Len(told) /\ toHost'[j] = told[j - Len(toHost)]
      BY <1>1, <2>2, <2>3
    <3> QED
      BY <2>1, <3>1 DEF Tells
  <2>4. ASSUME NEW j \in 1..Len(toHost'), j <= Len(toHost)
        PROVE  j \in 1..Len(toHost) /\ toHost'[j] = toHost[j]
    BY <1>1, <2>2, <2>4
  <2>5. CASE i <= Len(toHost)
    <3>1. i \in 1..Len(toHost) /\ toHost'[i] = toHost[i]
      BY <2>4, <2>5
    <3>2. ASSUME NEW j \in 1..Len(toHost'), j > i
          PROVE  ~IsUser(toHost'[j], toHost'[i].req)
      <4>1. CASE j <= Len(toHost)
        BY <1>2, <2>4, <3>1, <3>2, <4>1
      <4>2. CASE ~(j <= Len(toHost))
        BY <2>3, <4>2 DEF IsUser
      <4> QED
        BY <4>1, <4>2
    <3> QED
      BY <1>2, <3>1, <3>2
  <2>6. CASE ~(i <= Len(toHost))
    <3>1. ASSUME NEW j \in 1..Len(toHost'), j > i
          PROVE  ~(j <= Len(toHost))
      BY <1>1, <2>2, <2>6, <3>1
    <3> QED
      BY <2>3, <2>6, <3>1 DEF IsUser
  <2> QED
    BY <2>5, <2>6
<1>5. ASSUME NEW q \in Requests, messages[q].at \in {"unsent", "unknown"},
             toHost' = Append(toHost, UserFrame(q))
      PROVE  /\ messages'[toHost'[i].req].at = "done"
             /\ \A j \in 1..Len(toHost') : j > i => ~IsUser(toHost'[j], toHost'[i].req)
  <2> DEFINE f == UserFrame(q)
  <2>1. f.type = "user" /\ f.req = q
    BY DEF UserFrame
  <2> HIDE DEF f
  <2>2. /\ Len(toHost') = Len(toHost) + 1
        /\ \A k \in 1..Len(toHost) : toHost'[k] = toHost[k]
        /\ toHost'[Len(toHost) + 1] = f
    BY <1>1, <1>5, AppendProperties DEF f
  <2>3. i \in 1..Len(toHost) /\ toHost'[i] = toHost[i]
    <3>1. i # Len(toHost) + 1
      BY <2>1, <2>2
    <3>2. i \in 1..Len(toHost)
      BY <1>1, <2>2, <3>1
    <3> QED
      BY <2>2, <3>2
  <2>4. toHost[i].req # q
    BY <1>2, <1>5, <2>3
  <2>5. ASSUME NEW j \in 1..Len(toHost'), j > i
        PROVE  ~IsUser(toHost'[j], toHost'[i].req)
    <3>1. CASE j = Len(toHost) + 1
      BY <2>1, <2>2, <2>3, <2>4, <3>1 DEF IsUser
    <3>2. CASE j # Len(toHost) + 1
      <4>1. j \in 1..Len(toHost)
        BY <1>1, <2>2, <3>2
      <4> QED
        BY <1>2, <2>2, <2>3, <2>5, <4>1
    <3> QED
      BY <3>1, <3>2
  <2> QED
    BY <1>2, <2>3, <2>5
<1> QED
  BY <1>3, <1>4, <1>5 DEF PageMoves, QueueMoves

LEMMA PageMovesOnce ==
  ASSUME SessionTypes, GivenInv, OnceInv, PageMoves
  PROVE  OnceInv'
<1>1. /\ binding' = binding /\ bound' = bound /\ called' = called /\ lapsed' = lapsed
      /\ generation' = generation
  BY DEF PageMoves, hostSide, serviceVars, sessionVars
<1>2. ObservedLast'
  BY PageObservesLast DEF OnceInv
<1>3. CallsPast' /\ ExecutedOncePerBinding'
  BY <1>1 DEF OnceInv, CallsPast, ExecutedOncePerBinding
<1>4. (binding # None => ServicePresent(binding) /\ Remembers(binding))'
  BY <1>1, PageRepeatsLess DEF OnceInv, ServicePresent, Remembers, CallOf, Knows
<1> QED
  BY <1>2, <1>3, <1>4 DEF OnceInv

(* The host takes frames off the queue, or some are lost.                  *)
QueueShrinks ==
  \E k \in 0..Len(toHost) :
    Len(toHost') = Len(toHost) - k /\ \A i \in 1..Len(toHost') : toHost'[i] = toHost[i + k]

LEMMA QueueStays ==
  ASSUME SessionTypes, UNCHANGED toHost
  PROVE  QueueShrinks
<1>1. Len(toHost) \in Nat
  BY LenProperties DEF SessionTypes, HostTypes, HostTypeOK, NetTypeOK
<1>2. 0 \in 0..Len(toHost) /\ Len(toHost') = Len(toHost) - 0
      /\ \A i \in 1..Len(toHost') : toHost'[i] = toHost[i + 0]
  BY <1>1
<1> QED
  BY <1>2 DEF QueueShrinks

LEMMA QueueTail ==
  ASSUME SessionTypes, toHost # <<>>, toHost' = Tail(toHost)
  PROVE  QueueShrinks
<1>1. toHost \in Seq(ClientFrame)
  BY DEF SessionTypes, HostTypes, HostTypeOK, NetTypeOK
<1>2. /\ Len(toHost') = Len(toHost) - 1 /\ Len(toHost) \in Nat \ {0}
      /\ \A i \in 1..Len(toHost') : toHost'[i] = toHost[i + 1]
  BY <1>1, HeadTailProperties, LenProperties
<1>3. 1 \in 0..Len(toHost)
  BY <1>2
<1> QED
  BY <1>2, <1>3 DEF QueueShrinks

LEMMA ShrinkingRepeatsLess ==
  ASSUME SessionTypes, QueueShrinks, UNCHANGED messages
  PROVE  /\ \A r \in Requests : Repeatable(r)' => Repeatable(r)
         /\ ObservedLast => ObservedLast'
<1>1. Len(toHost) \in Nat
  BY LenProperties DEF SessionTypes, HostTypes, HostTypeOK, NetTypeOK
<1>2. PICK k \in 0..Len(toHost) :
        Len(toHost') = Len(toHost) - k /\ \A i \in 1..Len(toHost') : toHost'[i] = toHost[i + k]
  BY DEF QueueShrinks
<1>3. \A i \in 1..Len(toHost') : i + k \in 1..Len(toHost) /\ toHost'[i] = toHost[i + k]
  BY <1>1, <1>2
<1>4. \A i, j \in 1..Len(toHost') : j > i => j + k > i + k
  BY <1>1, <1>2
<1>5. \A r \in Requests : Repeatable(r)' => Repeatable(r)
  BY <1>3 DEF Repeatable
<1>6. ASSUME ObservedLast
      PROVE  ObservedLast'
  <2> SUFFICES ASSUME NEW i \in 1..Len(toHost'), toHost'[i].type = "observed"
               PROVE  /\ messages[toHost'[i].req].at = "done"
                      /\ \A j \in 1..Len(toHost') : j > i => ~IsUser(toHost'[j], toHost'[i].req)
    BY DEF ObservedLast
  <2>1. i + k \in 1..Len(toHost) /\ toHost'[i] = toHost[i + k]
    BY <1>3
  <2>2. /\ messages[toHost[i + k].req].at = "done"
        /\ \A j \in 1..Len(toHost) : j > i + k => ~IsUser(toHost[j], toHost[i + k].req)
    BY <1>6, <2>1 DEF ObservedLast
  <2> QED
    BY <1>3, <1>4, <2>1, <2>2
<1> QED
  BY <1>5, <1>6

(* A step of the host that calls nothing: a binding that stays remembers   *)
(* what it did, or what it forgets belongs to an earlier generation or was *)
(* dropped.                                                                *)
HostRests ==
  /\ called' = called /\ bound' = bound /\ QueueShrinks
  /\ generation <= generation' /\ lapsed <= lapsed'
  /\ binding' # None =>
       /\ binding # None /\ binding'.no = binding.no /\ binding'.gen <= generation'
       /\ \/ binding'.gen > generation
          \/ lapsed' > lapsed
          \/ /\ binding'.gen = binding.gen /\ lapsed' = lapsed
             /\ \A r \in Requests : Knows(binding.records, r) => Knows(binding'.records, r)

LEMMA NumbersTyped ==
  ASSUME SessionTypes
  PROVE  /\ generation \in Nat /\ lapsed \in Nat /\ bound \in Nat
         /\ binding # None => binding.no \in Nat /\ binding.gen \in Nat
         /\ \A r \in Requests : \A i \in 1..Len(called[r]) :
              /\ called[r][i].binding \in Nat /\ called[r][i].gen \in Nat
              /\ called[r][i].lapsed \in Nat
<1>1. HostTypes
  BY DEF SessionTypes
<1>2. generation \in Nat /\ lapsed \in Nat /\ bound \in Nat
  BY <1>1 DEF HostTypes, HostTypeOK, SessionTypeOK, ServiceTypeOK
<1>3. binding # None => binding.no \in Nat /\ binding.gen \in Nat
  BY <1>1, BindingTyped DEF Serviceable, Service
<1> QED
  BY <1>1, <1>2, <1>3, CallsTyped DEF Call

LEMMA RestsOnce ==
  ASSUME SessionTypes, SessionTypes', OnceInv, UNCHANGED messages, HostRests
  PROVE  OnceInv'
<1>0. /\ called' = called /\ bound' = bound /\ generation <= generation' /\ lapsed <= lapsed'
      /\ generation \in Nat /\ generation' \in Nat /\ lapsed \in Nat /\ lapsed' \in Nat
      /\ bound \in Nat /\ binding' # None => binding'.gen \in Nat
  <2>1. generation' \in Nat /\ lapsed' \in Nat /\ (binding' # None => binding'.gen \in Nat)
    <3>1. HostTypes'
      BY DEF SessionTypes
    <3> QED
      BY <3>1 DEF HostTypes, HostTypeOK, SessionTypeOK, ServiceTypeOK, Optional, Service
  <2> QED
    BY <2>1, NumbersTyped DEF HostRests
<1>1. ASSUME NEW r \in Requests, NEW i \in 1..Len(called[r])
      PROVE  /\ called[r][i].binding <= bound /\ called[r][i].gen <= generation
             /\ called[r][i].lapsed <= lapsed
             /\ called[r][i].gen \in Nat /\ called[r][i].lapsed \in Nat
  BY NumbersTyped DEF OnceInv, CallsPast
<1>2. ObservedLast' /\ \A r \in Requests : Repeatable(r)' => Repeatable(r)
  BY ShrinkingRepeatsLess DEF OnceInv, HostRests
<1>3. CallsPast'
  <2> SUFFICES ASSUME NEW r \in Requests, NEW i \in 1..Len(called[r])
               PROVE  /\ called[r][i].binding <= bound /\ called[r][i].gen <= generation'
                      /\ called[r][i].lapsed <= lapsed'
    BY <1>0 DEF CallsPast
  <2> QED
    BY <1>0, <1>1
<1>4. ExecutedOncePerBinding'
  BY <1>0 DEF OnceInv, ExecutedOncePerBinding
<1>5. ASSUME binding' # None
      PROVE  ServicePresent(binding)' /\ Remembers(binding)'
  <2>1. /\ binding # None /\ binding'.no = binding.no /\ binding'.gen <= generation'
        /\ ServicePresent(binding) /\ Remembers(binding)
    BY <1>5 DEF HostRests, OnceInv
  <2>2. ServicePresent(binding)'
    BY <1>0, <2>1 DEF ServicePresent
  <2>3. ASSUME NEW r \in Requests, Repeatable(r)', NEW i \in 1..Len(called[r]),
               called[r][i] = [binding |-> binding'.no, gen |-> binding'.gen, lapsed |-> lapsed']
        PROVE  Knows(binding'.records, r)
    <3>1. called[r][i].gen = binding'.gen /\ called[r][i].lapsed = lapsed'
      BY <2>3
    <3>2. CASE binding'.gen > generation
      BY <1>0, <1>1, <1>5, <3>1, <3>2
    <3>3. CASE lapsed' > lapsed
      BY <1>0, <1>1, <3>1, <3>3
    <3>4. CASE /\ binding'.gen = binding.gen /\ lapsed' = lapsed
               /\ \A q \in Requests : Knows(binding.records, q) => Knows(binding'.records, q)
      <4>1. called[r][i] = CallOf(binding) /\ Repeatable(r)
        BY <1>2, <2>1, <2>3, <3>4 DEF CallOf
      <4> QED
        BY <2>1, <3>4, <4>1 DEF Remembers
    <3> QED
      BY <1>5, <3>2, <3>3, <3>4 DEF HostRests
  <2>4. Remembers(binding)'
    BY <1>0, <2>3 DEF Remembers, CallOf, Knows
  <2> QED
    BY <2>2, <2>4
<1> QED
  BY <1>2, <1>3, <1>4, <1>5 DEF OnceInv

(* A step that leaves the numbers alone and the service with all it knows. *)
KeepsService ==
  binding' # None =>
    /\ binding # None /\ binding'.no = binding.no /\ binding'.gen = binding.gen
    /\ \A r \in Requests : Knows(binding.records, r) => Knows(binding'.records, r)

LEMMA KeptServiceRests ==
  ASSUME SessionTypes, OnceInv, KeepsService, UNCHANGED <<called, bound, lapsed, toHost>>,
         generation' \in Nat, generation <= generation'
  PROVE  HostRests
<1>1. generation \in Nat /\ lapsed \in Nat /\ (binding # None => binding.gen \in Nat)
  BY NumbersTyped
<1>2. QueueShrinks
  BY QueueStays
<1>3. binding' # None => binding'.gen <= generation'
  BY <1>1 DEF KeepsService, OnceInv, ServicePresent
<1> QED
  BY <1>1, <1>2, <1>3 DEF HostRests, KeepsService

LEMMA SameServiceRests ==
  ASSUME SessionTypes, OnceInv, UNCHANGED <<called, bound, lapsed, toHost>>,
         binding' = None \/ binding' = binding, generation' \in Nat, generation <= generation'
  PROVE  HostRests
<1>1. KeepsService
  BY DEF KeepsService
<1> QED
  BY <1>1, KeptServiceRests

LEMMA ConfirmKeeps ==
  ASSUME SessionTypes, NEW corr \in Optional(Correlation), NEW mid \in Nat,
         NEW status \in {"accepted", "committed"}, NEW first, NEW last,
         Confirm(corr, status, mid, first, last)
  PROVE  KeepsService
<1>1. CASE binding = None \/ corr = None \/ Recorded(binding.records, corr.req) = 0
  BY <1>1 DEF Confirm, KeepsService
<1>2. CASE ~(binding = None \/ corr = None \/ Recorded(binding.records, corr.req) = 0)
  <2> DEFINE records == Touched(binding.records, corr.req, status, mid)
  <2>1. binding \in Service /\ binding.records \in Seq(Record) /\ corr.req \in Requests
    BY <1>2, BindingTyped DEF SessionTypes, Serviceable, Service, Optional, Correlation
  <2>2. binding' = [binding EXCEPT !.records = records]
    BY <1>2 DEF Confirm
  <2>3. \A q : Knows(binding.records, q) => Knows(records, q)
    BY <2>1, TouchedKnows
  <2> HIDE DEF records
  <2>4. binding'.no = binding.no /\ binding'.gen = binding.gen /\ binding'.records = records
    BY <2>1, <2>2 DEF Service
  <2> QED
    BY <1>2, <2>3, <2>4 DEF KeepsService
<1> QED
  BY <1>1, <1>2

LEMMA MessageStartRests ==
  ASSUME SessionTypes, OnceInv, NEW role, NEW corr \in Optional(Correlation), NEW earlier,
         OnMessageStart(role, corr, earlier)
  PROVE  HostRests
<1>1. minted + 1 \in Nat /\ generation \in Nat
  BY DEF SessionTypes, HostTypes, HostTypeOK, SessionTypeOK
<1>2. \E first, last : Confirm(corr, "accepted", minted + 1, first, last)
  BY DEF OnMessageStart
<1>3. KeepsService
  BY <1>1, <1>2, ConfirmKeeps
<1>4. UNCHANGED <<called, bound, lapsed, toHost, generation>>
  BY DEF OnMessageStart
<1> QED
  BY <1>1, <1>3, <1>4, KeptServiceRests

LEMMA MessagesRest ==
  ASSUME SessionTypes, OnceInv, StartRun \/ Steer \/ \E role \in Roles : Speak(role)
  PROVE  HostRests
<1>1. /\ sdk.corr \in Optional(Correlation)
      /\ \A i \in DOMAIN inbox : inbox[i] \in Optional(Correlation)
  BY ElementOfSeq DEF SessionTypes, HostTypes, HostTypeOK, PiTypeOK
<1>2. CASE StartRun
  BY <1>1, <1>2, MessageStartRests DEF StartRun
<1>3. CASE Steer
  BY <1>1, <1>3, MessageStartRests DEF Steer
<1>4. CASE \E role \in Roles : Speak(role)
  BY <1>1, <1>4, MessageStartRests DEF Speak
<1> QED
  BY <1>2, <1>3, <1>4

LEMMA PublishRests ==
  ASSUME SessionTypes, OnceInv, Publish
  PROVE  HostRests
<1> DEFINE p == Head(ended)
<1>1. p \in PendingMessage
  BY HeadTailProperties DEF Publish, SessionTypes, HostTypes, HostTypeOK, RuntimeTypeOK
<1>2. p.corr \in Optional(Correlation) /\ p.id \in Nat
  BY <1>1 DEF PendingMessage
<1>3. \/ UNCHANGED binding
      \/ \E frames : Confirm(p.corr, "committed", p.id, frames, <<>>)
  BY DEF Publish
<1> HIDE DEF p
<1>4. KeepsService
  <2>1. CASE UNCHANGED binding
    BY <2>1 DEF KeepsService
  <2>2. CASE \E frames : Confirm(p.corr, "committed", p.id, frames, <<>>)
    BY <1>2, <2>2, ConfirmKeeps
  <2> QED
    BY <1>3, <2>1, <2>2
<1>5. UNCHANGED <<called, bound, lapsed, toHost, generation>> /\ generation \in Nat
  BY NumbersTyped DEF Publish, sessionVars
<1> QED
  BY <1>4, <1>5, KeptServiceRests

(* Steps that leave the service alone, or end it.                          *)
LEMMA OthersRest ==
  ASSUME SessionTypes, OnceInv,
         \/ Stream \/ EndMessage \/ EndRun \/ TypePrompt \/ ShutdownSession
         \/ \E type \in {"custom", "custom_message", "compaction"} : WriteEntry(type)
         \/ StartSession \/ EndBridge
  PROVE  HostRests
<1>1. generation \in Nat
  BY NumbersTyped
<1>2. UNCHANGED <<called, bound, lapsed, toHost>>
  BY DEF Stream, EndMessage, EndRun, TypePrompt, ShutdownSession, WriteEntry, StartSession, EndBridge,
         serviceVars, netVars
<1>3. binding' = None \/ binding' = binding
  BY DEF Stream, EndMessage, EndRun, TypePrompt, ShutdownSession, WriteEntry, StartSession, EndBridge,
         FinishSessionReplacement, serviceVars
<1>4. generation' = generation \/ generation' = generation + 1
  BY DEF Stream, EndMessage, EndRun, TypePrompt, ShutdownSession, WriteEntry, StartSession, EndBridge,
         sessionVars
<1> QED
  BY <1>1, <1>2, <1>3, <1>4, SameServiceRests

LEMMA MoveInTreeRests ==
  ASSUME SessionTypes, OnceInv, MoveInTree
  PROVE  HostRests
<1>1. generation \in Nat /\ lapsed \in Nat /\ generation' = generation + 1
      /\ UNCHANGED <<called, bound, lapsed, toHost>>
  BY NumbersTyped DEF MoveInTree
<1>2. CASE binding = None
  BY <1>1, <1>2, SameServiceRests DEF MoveInTree
<1>3. CASE binding # None
  <2> DEFINE none == <<>>
  <2>1. binding' = [binding EXCEPT !.gen = generation + 1, !.records = none]
    BY <1>3 DEF MoveInTree
  <2>2. binding \in Service
    BY <1>3, BindingTyped DEF Serviceable, SessionTypes
  <2> HIDE DEF none
  <2>3. binding'.no = binding.no /\ binding'.gen = generation + 1
    BY <2>1, <2>2 DEF Service
  <2> QED
    BY <1>1, <1>3, <2>3, QueueStays DEF HostRests
<1> QED
  BY <1>2, <1>3

LEMMA ReconnectRests ==
  ASSUME SessionTypes, OnceInv, ReconnectHost
  PROVE  HostRests
<1>1. binding' = None /\ UNCHANGED <<called, bound, lapsed, generation>>
      /\ generation \in Nat /\ lapsed \in Nat
  BY NumbersTyped DEF ReconnectHost, sessionVars
<1>2. QueueShrinks
  BY SuffixIs DEF ReconnectHost, QueueShrinks, SessionTypes, HostTypes, HostTypeOK, NetTypeOK
<1> QED
  BY <1>1, <1>2 DEF HostRests

LEMMA ExpireRests ==
  ASSUME SessionTypes, OnceInv, ExpireRecord
  PROVE  HostRests
<1>1. /\ UNCHANGED <<called, bound, toHost, generation>> /\ lapsed' = lapsed + 1
      /\ generation \in Nat /\ lapsed \in Nat /\ binding # None
  BY NumbersTyped DEF ExpireRecord, sessionVars, netVars
<1>2. binding'.no = binding.no /\ binding'.gen = binding.gen
  <2>1. binding \in Service
    BY <1>1, BindingTyped DEF Serviceable, SessionTypes
  <2> DEFINE records == Tail(binding.records)
  <2>2. binding' = [binding EXCEPT !.records = records]
    BY DEF ExpireRecord
  <2> HIDE DEF records
  <2> QED
    BY <2>1, <2>2 DEF Service
<1>3. binding.gen <= generation
  BY <1>1 DEF OnceInv, ServicePresent
<1> QED
  BY <1>1, <1>2, <1>3, QueueStays DEF HostRests

(* A service that calls nothing and forgets only what will not come again. *)
ServesCalmly(b) ==
  /\ called' = called /\ lapsed' = lapsed /\ binding'.no = b.no /\ binding'.gen = b.gen
  /\ \A r \in Requests : Repeatable(r)' /\ Knows(b.records, r) => Knows(binding'.records, r)

LEMMA ServerRemembers ==
  ASSUME SessionTypes, OnceInv
  PROVE  /\ Remembers(Server) /\ Server.gen <= generation
         /\ Server.no <= IF binding = None THEN bound + 1 ELSE bound
<1>1. CASE binding # None
  BY <1>1 DEF Server, OnceInv, ServicePresent
<1>2. CASE binding = None
  <2>1. Server.no = bound + 1 /\ Server.gen = generation
    BY <1>2 DEF Server
  <2>2. bound \in Nat /\ generation \in Nat
    BY NumbersTyped
  <2>3. ASSUME NEW r \in Requests, NEW i \in 1..Len(called[r])
        PROVE  called[r][i] # CallOf(Server)
    <3>1. called[r][i].binding <= bound /\ called[r][i].binding \in Nat
      BY NumbersTyped DEF OnceInv, CallsPast
    <3>2. CallOf(Server).binding = bound + 1
      BY <2>1 DEF CallOf
    <3> QED
      BY <2>2, <3>1, <3>2
  <2> QED
    BY <1>2, <2>1, <2>2, <2>3 DEF Remembers
<1> QED
  BY <1>1, <1>2

LEMMA CalmOnce ==
  ASSUME SessionTypes, OnceInv, UNCHANGED messages, QueueShrinks, UNCHANGED generation,
         bound' \in Nat, bound <= bound', NEW b, Remembers(b), b.no <= bound', b.gen <= generation,
         ServesCalmly(b)
  PROVE  OnceInv'
<1>1. ObservedLast' /\ \A r \in Requests : Repeatable(r)' => Repeatable(r)
  BY ShrinkingRepeatsLess DEF OnceInv
<1>2. CallsPast'
  <2> SUFFICES ASSUME NEW r \in Requests, NEW i \in 1..Len(called[r])
               PROVE  /\ called[r][i].binding <= bound' /\ called[r][i].gen <= generation
                      /\ called[r][i].lapsed <= lapsed
    BY DEF CallsPast, ServesCalmly
  <2>1. called[r][i].binding <= bound /\ called[r][i].binding \in Nat /\ bound \in Nat
    BY NumbersTyped DEF OnceInv, CallsPast
  <2> QED
    BY <2>1 DEF OnceInv, CallsPast
<1>3. ExecutedOncePerBinding'
  BY DEF ServesCalmly, OnceInv, ExecutedOncePerBinding
<1>4. ServicePresent(binding)' /\ Remembers(binding)'
  <2>1. \A r \in Requests : Repeatable(r)' => \A i \in 1..Len(called[r]) :
          called[r][i] = CallOf(b) => Knows(binding'.records, r)
    BY <1>1 DEF Remembers, ServesCalmly
  <2>2. CallOf(binding)' = CallOf(b) /\ called' = called
    BY DEF ServesCalmly, CallOf
  <2>3. Remembers(binding)'
    BY <2>1, <2>2 DEF Remembers, Knows
  <2> QED
    BY <2>3 DEF ServicePresent, ServesCalmly
<1> QED
  BY <1>1, <1>2, <1>3, <1>4 DEF OnceInv

(* The head of the queue is a message that may come again, or the word     *)
(* that one will not.                                                      *)
LEMMA HeadIs ==
  ASSUME SessionTypes, OnceInv, UNCHANGED messages, toHost # <<>>, toHost' = Tail(toHost),
         NEW f, f = Head(toHost)
  PROVE  /\ f.type = "user" => Repeatable(f.req)
         /\ f.type = "observed" => ~Repeatable(f.req)'
<1>1. toHost \in Seq(ClientFrame)
  BY DEF SessionTypes, HostTypes, HostTypeOK, NetTypeOK
<1>2. /\ Len(toHost') = Len(toHost) - 1 /\ Len(toHost) \in Nat \ {0} /\ f = toHost[1]
      /\ \A i \in 1..Len(toHost') : toHost'[i] = toHost[i + 1]
  BY <1>1, HeadTailProperties, LenProperties
<1>3. 1 \in 1..Len(toHost)
  BY <1>2
<1>4. ASSUME f.type = "user"
      PROVE  Repeatable(f.req)
  BY <1>2, <1>3, <1>4 DEF Repeatable, IsUser
<1>5. ASSUME f.type = "observed"
      PROVE  ~Repeatable(f.req)'
  <2>1. /\ messages[f.req].at = "done"
        /\ \A j \in 1..Len(toHost) : j > 1 => ~IsUser(toHost[j], f.req)
    BY <1>2, <1>3, <1>5 DEF OnceInv, ObservedLast
  <2>2. ASSUME NEW i \in 1..Len(toHost')
        PROVE  ~IsUser(toHost'[i], f.req)
    <3>1. i + 1 \in 1..Len(toHost) /\ i + 1 > 1 /\ toHost'[i] = toHost[i + 1]
      BY <1>2
    <3> QED
      BY <2>1, <3>1
  <2> QED
    BY <2>1, <2>2 DEF Repeatable, IsUser
<1> QED
  BY <1>4, <1>5

LEMMA CallsCalm ==
  ASSUME SessionTypes, NEW b, Serviceable(b), NEW f \in ClientFrame, Serve(b, f),
         f.type = "observed" => ~Repeatable(f.req)'
  PROVE  \/ ServesCalmly(b)
         \/ f.type = "user" /\ ~IsReplay(b, f.req) /\ Deliver(b, f)
<1>0. HostTypes /\ b \in Service /\ b.records \in Seq(Record)
  BY DEF SessionTypes, Serviceable, Service
<1>1. CASE f.type = "hello" /\ Hello(b, f) /\ UNCHANGED <<called, lapsed, inbox, left, strayed>>
  <2>1. binding' = [b EXCEPT !.ready = TRUE]
    BY <1>1 DEF Hello
  <2>2. binding'.no = b.no /\ binding'.gen = b.gen /\ binding'.records = b.records
    BY <1>0, <2>1 DEF Service
  <2> QED
    BY <1>1, <2>2 DEF ServesCalmly
<1>2. CASE Refuse(b, f) /\ UNCHANGED <<called, lapsed, inbox, left, strayed>>
  BY <1>2 DEF Refuse, ServesCalmly
<1>3. CASE f.type = "sync" /\ Sync(b, f) /\ UNCHANGED <<called, lapsed, inbox>>
  <2>1. GoesOn(b)
    BY <1>0, <1>3, SyncTyped
  <2> QED
    BY <1>3, <2>1 DEF GoesOn, ServesCalmly
<1>4. CASE /\ f.type = "observed" /\ Observe(b, f)
           /\ UNCHANGED <<called, lapsed, inbox, left, strayed>>
  <2> DEFINE records == Without(b.records, f.req)
  <2>1. binding' = [b EXCEPT !.records = records]
    BY <1>4 DEF Observe
  <2>2. \A q : q # f.req /\ Knows(b.records, q) => Knows(records, q)
    BY <1>0, WithoutKnows
  <2> HIDE DEF records
  <2>3. binding'.no = b.no /\ binding'.gen = b.gen /\ binding'.records = records
    BY <1>0, <2>1 DEF Service
  <2> QED
    BY <1>4, <2>2, <2>3 DEF ServesCalmly
<1>5. CASE f.type = "user" /\ ~IsReplay(b, f.req) /\ Deliver(b, f)
  BY <1>5
<1>6. CASE /\ f.type = "user" /\ IsReplay(b, f.req) /\ Replay(b, f.req)
           /\ UNCHANGED <<called, lapsed, inbox, left, strayed>>
  <2> DEFINE r == f.req
             rec == b.records[Recorded(b.records, r)]
             records == Touched(b.records, r, rec.status, rec.mid)
  <2>1. r \in Requests /\ Recorded(b.records, r) \in 1..Len(b.records)
    BY <1>0, <1>6, ClientFields, RecordedIs DEF IsReplay
  <2>2. rec \in Record
    BY <1>0, <2>1, ElementOfSeq
  <2>3. rec.mid \in Nat /\ rec.status \in {"received", "accepted", "committed", "unknown_delivery"}
    BY <2>2 DEF Record
  <2>4. binding' = [b EXCEPT !.records = records]
    BY <1>6 DEF Replay
  <2>5. \A q : Knows(b.records, q) => Knows(records, q)
    <3> HIDE DEF rec, r
    <3> QED
      BY <1>0, <2>1, <2>3, TouchedKnows
  <2> HIDE DEF records, rec, r
  <2>6. binding'.no = b.no /\ binding'.gen = b.gen /\ binding'.records = records
    BY <1>0, <2>4 DEF Service
  <2> QED
    BY <1>6, <2>5, <2>6 DEF ServesCalmly
<1> QED
  BY <1>1, <1>2, <1>3, <1>4, <1>5, <1>6, ServeCases

(* What a delivery leaves of the records.                                  *)
LEMMA DeliverRecords ==
  ASSUME SessionTypes, NEW b, Serviceable(b), NEW f \in ClientFrame, f.type = "user", Deliver(b, f)
  PROVE  /\ binding'.no = b.no /\ binding'.gen = b.gen
         /\ Knows(binding'.records, f.req)
         /\ \/ lapsed' = lapsed + 1
            \/ lapsed' = lapsed /\ \A q : Knows(b.records, q) => Knows(binding'.records, q)
         /\ \/ called' = called
            \/ called' = [called EXCEPT ![f.req] = Append(called[f.req], CallOf(b))]
<1> DEFINE r == f.req
           new == [req |-> r, status |-> "received", mid |-> 0]
           others == Without(b.records, r)
           full == Append(others, new)
           kept == Pruned(full)
<1>1. b \in Service /\ b.records \in Seq(Record) /\ Len(b.records) <= MaxRecords /\ r \in Requests
  BY ClientFields DEF Serviceable, Service
<1>2. /\ full \in Seq(Record) /\ kept \in Seq(Record)
      /\ Len(kept) \in 1..Len(kept) /\ kept[Len(kept)].req = r
      /\ Len(kept) <= Len(full)
      /\ Len(full) = Len(kept) => kept = full
  BY <1>1, NewRecord
<1>3. new \in Record /\ new.req = r
  BY <1>1 DEF Record
<1>4. others \in Seq(Record) /\ \A q : q # r /\ Knows(b.records, q) => Knows(others, q)
  BY <1>1, WithoutIs, WithoutKnows
<1>5. Knows(kept, r)
  <2> HIDE DEF kept, r
  <2> QED
    BY <1>2 DEF Knows
<1>6. \A q : Knows(b.records, q) => Knows(full, q)
  <2> HIDE DEF new, others
  <2> QED
    BY <1>3, <1>4, AppendKnows
<1>7. lapsed' = IF Len(full) > Len(kept) THEN lapsed + 1 ELSE lapsed
  BY DEF Deliver
<1>8. \/ lapsed' = lapsed + 1
      \/ lapsed' = lapsed /\ \A q : Knows(b.records, q) => Knows(kept, q)
  <2>1. Len(full) \in Nat /\ Len(kept) \in Nat
    BY <1>2, LenProperties
  <2> HIDE DEF full, kept
  <2>2. CASE Len(full) > Len(kept)
    BY <1>7, <2>2
  <2>3. CASE ~(Len(full) > Len(kept))
    <3>1. Len(full) = Len(kept)
      BY <1>2, <2>1, <2>3
    <3>2. kept = full
      BY <1>2, <3>1
    <3> QED
      BY <1>6, <1>7, <2>3, <3>2
  <2> QED
    BY <2>2, <2>3
<1>9. CASE /\ called' = [called EXCEPT ![r] =
                           Append(@, [binding |-> b.no, gen |-> b.gen, lapsed |-> lapsed])]
           /\ binding' = [b EXCEPT !.records = kept]
  <2>1. called' = [called EXCEPT ![r] = Append(called[r], CallOf(b))]
    BY <1>9 DEF CallOf
  <2> HIDE DEF kept
  <2>2. binding'.no = b.no /\ binding'.gen = b.gen /\ binding'.records = kept
    BY <1>1, <1>9 DEF Service
  <2> QED
    BY <1>5, <1>8, <2>1, <2>2
<1>10. CASE /\ binding' = [b EXCEPT !.records = Touched(kept, r, "unknown_delivery", 0)]
            /\ UNCHANGED called
  <2> DEFINE records == Touched(kept, r, "unknown_delivery", 0)
  <2>1. \A q : Knows(kept, q) => Knows(records, q)
    <3> HIDE DEF kept, r
    <3> QED
      BY <1>1, <1>2, TouchedKnows
  <2>2. binding' = [b EXCEPT !.records = records]
    BY <1>10
  <2> HIDE DEF kept, records
  <2>3. binding'.no = b.no /\ binding'.gen = b.gen /\ binding'.records = records
    BY <1>1, <2>2 DEF Service
  <2> QED
    BY <1>5, <1>8, <1>10, <2>1, <2>3
<1> QED
  BY <1>9, <1>10 DEF Deliver

LEMMA DeliverOnce ==
  ASSUME SessionTypes, OnceInv, UNCHANGED messages, QueueShrinks, UNCHANGED generation,
         bound' \in Nat, bound <= bound', NEW b, Serviceable(b), Remembers(b), b.no <= bound',
         b.gen <= generation, NEW f \in ClientFrame, f.type = "user", Repeatable(f.req),
         ~IsReplay(b, f.req), Deliver(b, f)
  PROVE  OnceInv'
<1> DEFINE r == f.req
           call == CallOf(b)
<1>1. /\ r \in Requests /\ Repeatable(r) /\ b.no \in Nat /\ b.gen \in Nat
      /\ bound \in Nat /\ lapsed \in Nat /\ generation \in Nat
  BY ClientFields, NumbersTyped DEF Serviceable, Service
<1>2. /\ binding'.no = b.no /\ binding'.gen = b.gen /\ Knows(binding'.records, r)
      /\ \/ lapsed' = lapsed + 1
         \/ lapsed' = lapsed /\ \A q : Knows(b.records, q) => Knows(binding'.records, q)
      /\ \/ called' = called
         \/ called' = [called EXCEPT ![r] = Append(called[r], call)]
  BY DeliverRecords
<1>3. ~Knows(b.records, r)
  BY KnowsRecorded DEF IsReplay, Serviceable, Service
<1>4. /\ call.binding = b.no /\ call.gen = b.gen /\ call.lapsed = lapsed
      /\ \A i \in 1..Len(called[r]) : called[r][i] # call
  BY <1>1, <1>3 DEF Remembers, CallOf
<1> HIDE DEF r, call
<1>5. ASSUME NEW q \in Requests
      PROVE  /\ DOMAIN called'[q] = 1..Len(called'[q])
             /\ \A i \in 1..Len(called'[q]) :
                  \/ i \in 1..Len(called[q]) /\ called'[q][i] = called[q][i]
                  \/ q = r /\ i = Len(called[q]) + 1 /\ called'[q][i] = call
  <2>1. HostTypes /\ called \in [Requests -> Seq(Call)]
    BY DEF SessionTypes, HostTypes, HostTypeOK, ServiceTypeOK
  <2>2. called[q] \in Seq(Call) /\ Len(called[q]) \in Nat /\ DOMAIN called[q] = 1..Len(called[q])
    BY <2>1, CallsTyped
  <2>3. CASE called'[q] = called[q]
    BY <2>2, <2>3
  <2>4. CASE q = r /\ called'[q] = Append(called[q], call)
    <3>1. call \in Call
      BY <1>1 DEF call, CallOf, Call
    <3>2. /\ Len(called'[q]) = Len(called[q]) + 1 /\ called'[q] \in Seq(Call)
          /\ \A i \in 1..Len(called[q]) : called'[q][i] = called[q][i]
          /\ called'[q][Len(called[q]) + 1] = call
      BY <2>2, <2>4, <3>1, AppendProperties
    <3> QED
      BY <2>2, <2>4, <3>2, LenProperties
  <2> QED
    BY <1>1, <1>2, <2>1, <2>3, <2>4
<1>6. ObservedLast' /\ \A q \in Requests : Repeatable(q)' => Repeatable(q)
  BY ShrinkingRepeatsLess DEF OnceInv
<1>7. ASSUME NEW q \in Requests, NEW i \in 1..Len(called[q])
      PROVE  /\ called[q][i].binding <= bound /\ called[q][i].gen <= generation
             /\ called[q][i].lapsed <= lapsed /\ called[q][i].binding \in Nat
             /\ called[q][i].lapsed \in Nat
  BY NumbersTyped DEF OnceInv, CallsPast
<1>8. CallsPast'
  <2> SUFFICES ASSUME NEW q \in Requests, NEW i \in 1..Len(called'[q])
               PROVE  /\ called'[q][i].binding <= bound' /\ called'[q][i].gen <= generation
                      /\ called'[q][i].lapsed <= lapsed'
    BY DEF CallsPast
  <2>1. CASE i \in 1..Len(called[q]) /\ called'[q][i] = called[q][i]
    BY <1>1, <1>2, <1>7, <2>1
  <2>2. CASE called'[q][i] = call
    BY <1>1, <1>2, <1>4, <2>2
  <2> QED
    BY <1>5, <2>1, <2>2
<1>9. ExecutedOncePerBinding'
  <2> SUFFICES ASSUME NEW q \in Requests, NEW i \in 1..Len(called'[q]), NEW j \in 1..Len(called'[q]),
                      i # j, called'[q][i] = called'[q][j]
               PROVE  FALSE
    BY <1>5 DEF ExecutedOncePerBinding
  <2>1. DOMAIN called[q] = 1..Len(called[q])
    BY CallsTyped DEF SessionTypes
  <2>2. CASE /\ i \in 1..Len(called[q]) /\ called'[q][i] = called[q][i]
             /\ j \in 1..Len(called[q]) /\ called'[q][j] = called[q][j]
    BY <2>1, <2>2 DEF OnceInv, ExecutedOncePerBinding
  <2> QED
    BY <1>4, <1>5, <2>2
<1>10. ServicePresent(binding)' /\ Remembers(binding)'
  <2>1. ServicePresent(binding)'
    BY <1>2 DEF ServicePresent
  <2>2. ASSUME NEW q \in Requests, Repeatable(q)', NEW i \in 1..Len(called'[q]),
               called'[q][i] = [binding |-> b.no, gen |-> b.gen, lapsed |-> lapsed']
        PROVE  Knows(binding'.records, q)
    <3>1. CASE q = r
      BY <1>2, <3>1
    <3>2. CASE q # r
      <4>1. i \in 1..Len(called[q]) /\ called'[q][i] = called[q][i]
        BY <1>5, <3>2
      <4>2. lapsed' # lapsed + 1
        BY <1>1, <1>7, <2>2, <4>1
      <4>3. called[q][i] = CallOf(b)
        BY <1>2, <2>2, <4>1, <4>2 DEF CallOf
      <4> QED
        BY <1>2, <1>6, <2>2, <4>1, <4>2, <4>3 DEF Remembers
    <3> QED
      BY <3>1, <3>2
  <2>3. Remembers(binding)'
    BY <1>2, <2>2 DEF Remembers, CallOf, Knows
  <2> QED
    BY <2>1, <2>3
<1> QED
  BY <1>6, <1>8, <1>9, <1>10 DEF OnceInv

LEMMA ReceivesOnce ==
  ASSUME SessionTypes, SessionTypes', OnceInv, UNCHANGED messages, HostReceives
  PROVE  OnceInv'
<1>0. HostTypes /\ bound \in Nat
  BY NumbersTyped DEF SessionTypes
<1>1. PICK f : f = Head(toHost)
  OBVIOUS
<1>2. /\ toHost # <<>> /\ f \in ClientFrame /\ toHost' = Tail(toHost)
      /\ UNCHANGED <<sessionVars, sdk, ended, linked>>
      /\ \/ UNCHANGED <<inbox, rt, strayed, serviceVars, toPwa, left>>
         \/ /\ Serve(Server, f)
            /\ bound' = IF binding = None THEN bound + 1 ELSE bound
  BY <1>0, <1>1, ReceivesCases
<1>3. QueueShrinks /\ UNCHANGED generation
  BY <1>2, QueueTail DEF sessionVars
<1>4. CASE UNCHANGED <<inbox, rt, strayed, serviceVars, toPwa, left>>
  <2>1. UNCHANGED <<called, bound, lapsed, binding>>
    BY <1>4 DEF serviceVars
  <2>2. generation \in Nat /\ lapsed \in Nat
    BY NumbersTyped
  <2>3. binding # None => binding.gen <= generation
    BY DEF OnceInv, ServicePresent
  <2>4. HostRests
    BY <1>3, <2>1, <2>2, <2>3 DEF HostRests
  <2> QED
    BY <2>4, RestsOnce
<1>5. CASE /\ Serve(Server, f)
           /\ bound' = IF binding = None THEN bound + 1 ELSE bound
  <2> DEFINE b == Server
  <2>1. Serviceable(b) /\ Remembers(b) /\ b.gen <= generation /\ b.no <= bound'
    BY <1>0, <1>5, ServerTyped, ServerRemembers
  <2>2. bound' \in Nat /\ bound <= bound'
    BY <1>0, <1>5
  <2>3. /\ f.type = "user" => Repeatable(f.req)
        /\ f.type = "observed" => ~Repeatable(f.req)'
    BY <1>1, <1>2, HeadIs
  <2>4. PICK s : s = b
    OBVIOUS
  <2>5. \/ ServesCalmly(s)
        \/ f.type = "user" /\ ~IsReplay(s, f.req) /\ Deliver(s, f)
    BY <1>2, <1>5, <2>1, <2>3, <2>4, CallsCalm
  <2> HIDE DEF b
  <2>6. Serviceable(s) /\ Remembers(s) /\ s.gen <= generation /\ s.no <= bound'
    BY <2>1, <2>4
  <2>7. CASE ServesCalmly(s)
    BY <1>3, <2>2, <2>6, <2>7, CalmOnce
  <2>8. CASE f.type = "user" /\ ~IsReplay(s, f.req) /\ Deliver(s, f)
    BY <1>2, <1>3, <2>2, <2>3, <2>6, <2>8, DeliverOnce
  <2> QED
    BY <2>5, <2>7, <2>8
<1> QED
  BY <1>2, <1>4, <1>5

LEMMA HostNextOnce ==
  ASSUME SessionTypes, OnceInv, HostNext, UNCHANGED pwaVars
  PROVE  OnceInv'
<1>1. SessionTypes' /\ UNCHANGED messages
  BY HostStepTyped DEF pwaVars, viewVars
<1>2. HostReceives \/ HostRests
  <2>1. StartRun \/ Steer \/ Publish \/ (\E role \in Roles : Speak(role)) => HostRests
    BY MessagesRest, PublishRests
  <2>2. \/ Stream \/ EndMessage \/ EndRun \/ TypePrompt \/ ShutdownSession
        \/ \E type \in {"custom", "custom_message", "compaction"} : WriteEntry(type)
        \/ StartSession \/ EndBridge
        => HostRests
    BY OthersRest
  <2>3. MoveInTree \/ ReconnectHost \/ ExpireRecord => HostRests
    BY MoveInTreeRests, ReconnectRests, ExpireRests
  <2> QED
    BY <2>1, <2>2, <2>3 DEF HostNext
<1> QED
  BY <1>1, <1>2, ReceivesOnce, RestsOnce

LEMMA InitOnce ==
  ASSUME Init
  PROVE  OnceInv
<1>1. toHost = <<>> /\ binding = None /\ \A r \in Requests : called[r] = <<>>
  BY DEF Init, HostInit
<1>2. Len(toHost) = 0 /\ \A r \in Requests : Len(called[r]) = 0 /\ DOMAIN called[r] = {}
  BY <1>1
<1>3. ObservedLast /\ CallsPast /\ ExecutedOncePerBinding
  BY <1>2 DEF ObservedLast, CallsPast, ExecutedOncePerBinding
<1> QED
  BY <1>1, <1>3 DEF OnceInv

(* Within one binding and one generation a message is given to Pi at most  *)
(* once (v2_service.ts handleUserMessage), as long as no record is dropped *)
(* in between: whatever the page sends again, the record is still there,   *)
(* because only what was seen to settle has its record removed by the page *)
(* and nothing of it is sent after that word.                              *)
THEOREM OncePerBinding == Spec => []ExecutedOncePerBinding
<1> DEFINE I == SessionTypes /\ GivenInv /\ OnceInv
<1>1. Init => I
  BY InitTyped, InitGiven, InitOnce
<1>2. I /\ [Next]_vars => I'
  <2> SUFFICES ASSUME SessionTypes, GivenInv, OnceInv, [Next]_vars
               PROVE  SessionTypes' /\ GivenInv' /\ OnceInv'
    OBVIOUS
  <2>1. SessionTypes' /\ GivenInv'
    BY NextTyped, NextGiven
  <2>2. OnceInv'
    BY PageSteps, HostNextOnce, PageMovesOnce
  <2> QED
    BY <2>1, <2>2
<1>3. I => ExecutedOncePerBinding
  BY DEF OnceInv
<1> QED
  BY <1>1, <1>2, <1>3, PTL DEF Spec

-----------------------------------------------------------------------------
(* Reading a branch that has grown.                                        *)

(* The one is the other with more after it.                                *)
GrownFrom(b, c) == Len(b) <= Len(c) /\ \A i \in 1..Len(b) : c[i] = b[i]

(* What follows a marker.                                                  *)
Followers(b, i) == {j \in i+1..Len(b) : b[j].type # "custom"}

LEMMA TargetFollows ==
  ASSUME NEW b \in Seq(Entry), NEW i \in 1..Len(b), NEW role
  PROVE  LET next == Min(Followers(b, i)) IN
         Target(b, i, role) =
           IF Followers(b, i) # {} /\ b[next].type = "message" /\ b[next].role = role
           THEN next ELSE 0
<1> DEFINE next == SelectInSubSeq(b, i + 1, Len(b), LAMBDA e : e.type # "custom")
<1>1. next = IF Followers(b, i) # {} THEN Min(Followers(b, i)) ELSE 0
  BY DEF SelectInSubSeq, Followers
<1>2. Target(b, i, role) =
        IF next # 0 /\ b[next].type = "message" /\ b[next].role = role THEN next ELSE 0
  BY DEF Target
<1>3. Followers(b, i) # {} => Min(Followers(b, i)) # 0
  <2>1. Followers(b, i) \in SUBSET Nat /\ 0 \notin Followers(b, i)
    BY DEF Followers
  <2> QED
    BY <2>1, LeastIs
<1> HIDE DEF next
<1> QED
  BY <1>1, <1>2, <1>3

(* A marker that had its message keeps it, and one that finds its message  *)
(* among the entries there were had found it there.                        *)
LEMMA TargetStays ==
  ASSUME NEW b \in Seq(Entry), NEW c \in Seq(Entry), GrownFrom(b, c), NEW i \in 1..Len(b), NEW role
  PROVE  /\ Target(b, i, role) # 0 => Target(c, i, role) = Target(b, i, role)
         /\ Target(c, i, role) # 0 /\ Target(c, i, role) <= Len(b) =>
              Target(b, i, role) = Target(c, i, role)
<1> DEFINE B == Followers(b, i)
           C == Followers(c, i)
<1>1. Len(b) \in Nat /\ Len(c) \in Nat /\ Len(b) <= Len(c) /\ i \in 1..Len(c)
  BY LenProperties DEF GrownFrom
<1>2. /\ B \in SUBSET Nat /\ C \in SUBSET Nat /\ B \subseteq C
      /\ \A j \in C : j <= Len(b) => j \in B
      /\ \A j \in B : j <= Len(b) /\ j \in 1..Len(b)
  BY <1>1 DEF Followers, GrownFrom
<1>3. B # {} => Min(B) \in B /\ \A x \in B : Min(B) <= x
  BY <1>2, LeastIs
<1>4. C # {} => Min(C) \in C /\ \A x \in C : Min(C) <= x
  BY <1>2, LeastIs
<1>5. B # {} => C # {} /\ Min(C) = Min(B)
  <2> SUFFICES ASSUME B # {}
               PROVE  C # {} /\ Min(C) = Min(B)
    OBVIOUS
  <2> HIDE DEF B, C
  <2>1. Min(B) \in C /\ Min(B) \in Nat /\ Min(B) <= Len(b)
    BY <1>2, <1>3
  <2>2. Min(C) \in C /\ Min(C) \in Nat /\ Min(C) <= Min(B)
    BY <1>2, <1>4, <2>1
  <2>3. Min(C) \in B
    BY <1>1, <1>2, <2>1, <2>2
  <2>4. Min(B) <= Min(C)
    BY <1>3, <2>3
  <2> QED
    BY <2>1, <2>2, <2>4
<1>6. C # {} /\ Min(C) <= Len(b) => B # {} /\ Min(C) = Min(B)
  <2> HIDE DEF B, C
  <2> QED
    BY <1>1, <1>2, <1>3, <1>4, <1>5
<1>7. \A x \in B : c[x] = b[x]
  BY <1>2 DEF GrownFrom
<1>8. Target(b, i, role) = IF B # {} /\ b[Min(B)].type = "message" /\ b[Min(B)].role = role
                           THEN Min(B) ELSE 0
  BY TargetFollows
<1>9. Target(c, i, role) = IF C # {} /\ c[Min(C)].type = "message" /\ c[Min(C)].role = role
                           THEN Min(C) ELSE 0
  BY <1>1, TargetFollows
<1> HIDE DEF B, C
<1> QED
  BY <1>3, <1>5, <1>6, <1>7, <1>8, <1>9

(* What a branch yields is there as long as the branch only grows.         *)
LEMMA RecoveredStays ==
  ASSUME NEW session, NEW b \in Seq(Entry), NEW c \in Seq(Entry), GrownFrom(b, c)
  PROVE  Recovered(session, b) \subseteq Recovered(session, c)
<1> DEFINE Marked(s) == {i \in DOMAIN s : s[i].type = "marker" /\ Target(s, i, s[i].role) # 0}
           Matched(s) == {Target(s, i, s[i].role) : i \in Marked(s)}
           Announcements(s) ==
             {[at |-> i, event |-> ToEvent(session, s[i].id, FALSE, s[i].role, s[i].group)] : i \in Marked(s)}
           Old(s) == {j \in DOMAIN s \ Matched(s) : s[j].type = "message"}
           Others(s) == {j \in DOMAIN s : s[j].type \in {"custom", "compaction"}}
<1>1. /\ DOMAIN b = 1..Len(b) /\ DOMAIN c = 1..Len(c) /\ DOMAIN b \subseteq DOMAIN c
      /\ Len(b) \in Nat /\ Len(c) \in Nat /\ \A i \in DOMAIN b : c[i] = b[i]
  BY LenProperties DEF GrownFrom
<1>2. Marked(b) \subseteq Marked(c)
  BY <1>1, TargetStays
<1>3. Others(b) \subseteq Others(c)
  BY <1>1
<1>4. Old(b) \subseteq Old(c)
  <2> SUFFICES ASSUME NEW j \in Old(b), j \in Matched(c)
               PROVE  FALSE
    BY <1>1
  <2>1. PICK i \in Marked(c) : j = Target(c, i, c[i].role)
    OBVIOUS
  <2>2. j \in i+1..Len(c) /\ j <= Len(b) /\ i \in 1..Len(c)
    BY <1>1, <2>1, TargetIs
  <2>3. i \in 1..Len(b) /\ j # 0
    BY <1>1, <2>2
  <2>4. Target(b, i, c[i].role) = j /\ c[i] = b[i]
    BY <1>1, <2>1, <2>2, <2>3, TargetStays
  <2>5. i \in Marked(b)
    BY <1>1, <2>1, <2>3, <2>4
  <2>6. j \in Matched(b)
    BY <2>4, <2>5
  <2> QED
    BY <2>6
<1>5. \A s, x : x \in Recovered(session, s) <=>
        \/ \E i \in Marked(s) :
             x = [at |-> i, event |-> ToEvent(session, s[i].id, FALSE, s[i].role, s[i].group)]
        \/ \E i \in Old(s) :
             x = [at |-> i, event |-> ToEvent(session, s[i].id, TRUE, s[i].role, 0)]
        \/ \E i \in Others(s) :
             x = [at |-> i, event |-> ToEvent(session, s[i].id, FALSE, "system", 0)]
  BY DEF Recovered
<1>6. Marked(b) \subseteq DOMAIN b /\ Old(b) \subseteq DOMAIN b /\ Others(b) \subseteq DOMAIN b
  OBVIOUS
<1> SUFFICES ASSUME NEW r \in Recovered(session, b)
             PROVE  r \in Recovered(session, c)
  OBVIOUS
<1> HIDE DEF Marked, Old, Others
<1>7. CASE \E i \in Marked(b) :
             r = [at |-> i, event |-> ToEvent(session, b[i].id, FALSE, b[i].role, b[i].group)]
  <2>1. PICK i \in Marked(b) :
          r = [at |-> i, event |-> ToEvent(session, b[i].id, FALSE, b[i].role, b[i].group)]
    BY <1>7
  <2>2. i \in Marked(c) /\ c[i] = b[i]
    BY <1>1, <1>2, <1>6
  <2> QED
    BY <1>5, <2>1, <2>2
<1>8. CASE \E i \in Old(b) :
             r = [at |-> i, event |-> ToEvent(session, b[i].id, TRUE, b[i].role, 0)]
  <2>1. PICK i \in Old(b) : r = [at |-> i, event |-> ToEvent(session, b[i].id, TRUE, b[i].role, 0)]
    BY <1>8
  <2>2. i \in Old(c) /\ c[i] = b[i]
    BY <1>1, <1>4, <1>6
  <2> QED
    BY <1>5, <2>1, <2>2
<1>9. CASE \E i \in Others(b) :
             r = [at |-> i, event |-> ToEvent(session, b[i].id, FALSE, "system", 0)]
  <2>1. PICK i \in Others(b) :
          r = [at |-> i, event |-> ToEvent(session, b[i].id, FALSE, "system", 0)]
    BY <1>9
  <2>2. i \in Others(c) /\ c[i] = b[i]
    BY <1>1, <1>3, <1>6
  <2> QED
    BY <1>5, <2>1, <2>2
<1>10. \/ \E i \in Marked(b) :
              r = [at |-> i, event |-> ToEvent(session, b[i].id, FALSE, b[i].role, b[i].group)]
       \/ \E i \in Old(b) :
              r = [at |-> i, event |-> ToEvent(session, b[i].id, TRUE, b[i].role, 0)]
       \/ \E i \in Others(b) :
              r = [at |-> i, event |-> ToEvent(session, b[i].id, FALSE, "system", 0)]
  BY <1>5
<1> QED
  BY <1>7, <1>8, <1>9, <1>10

LEMMA PrefixGrows ==
  ASSUME NEW S, NEW b \in Seq(S), NEW c \in Seq(S), IsPrefix(b, c)
  PROVE  GrownFrom(b, c)
<1>1. Len(b) \in Nat /\ Len(c) \in Nat /\ Len(b) <= Len(c)
  BY LenProperties DEF IsPrefix
<1>2. SubSeq(b, 1, Len(b)) = SubSeq(c, 1, Len(b))
  BY DEF IsPrefix
<1>3. \A i \in 1..Len(b) : SubSeq(b, 1, Len(b))[i] = b[i]
  <2>1. \A i \in 1..Len(b) : b[i] \in S
    BY ElementOfSeq
  <2>2. \A i \in 1..Len(b) - 1 + 1 : SubSeq(b, 1, Len(b))[i] = b[1 + i - 1]
    BY <1>1, <2>1, SubSeqProperties
  <2> QED
    BY <1>1, <2>2
<1>4. \A i \in 1..Len(b) : SubSeq(c, 1, Len(b))[i] = c[i]
  <2>1. \A i \in 1..Len(b) : c[i] \in S
    BY <1>1, ElementOfSeq
  <2>2. \A i \in 1..Len(b) - 1 + 1 : SubSeq(c, 1, Len(b))[i] = c[1 + i - 1]
    BY <1>1, <2>1, SubSeqProperties
  <2> QED
    BY <1>1, <2>2
<1> QED
  BY <1>1, <1>2, <1>3, <1>4 DEF GrownFrom


-----------------------------------------------------------------------------
(* What the PWA shows is the history: the announcements on the branches,   *)
(* and every event that is under way or kept.                              *)

Markers ==
  {m \in UNION {{branches[s][i] : i \in 1..Len(branches[s])} : s \in 1..Len(branches)} :
     m.type = "marker"}

(* A message that is or was under way is what its marker says.             *)
Announced(p) ==
  /\ p.id <= minted
  /\ \A m \in Markers : m.id = p.id => m.role = p.role /\ m.group = p.group

AnnouncedInv ==
  /\ \A m \in Markers : m.id <= minted
  /\ rt.pending # None => Announced(rt.pending)
  /\ \A i \in 1..Len(ended) : Announced(ended[i])

(* An event of the present generation is what the branch yields.           *)
Sound(e) ==
  /\ e.gen <= generation
  /\ (e.session = Current /\ e.gen = generation) => e \in {r.event : r \in History}

Carried(f) ==
  CASE f.type = "event" -> {f.event}
    [] f.type = "fragment" -> {f.part.event}
    [] f.type = "chunk" -> f.events \cup {p.event : p \in f.fragments}
    [] OTHER -> {}

CarriedBy(frames) == UNION {Carried(frames[i]) : i \in 1..Len(frames)}

(* The events the page has in any form.                                    *)
Held ==
  UNION {events, journal, store, {p.event : p \in parts}, UNION {idb[i].events : i \in 1..Len(idb)},
         IF assembler = None THEN {} ELSE UNION {Carried(c) : c \in assembler.chunks}}

ShownInScope == \A e \in events : InScope(scope, e)

HistoryInv ==
  /\ AnnouncedInv /\ ShownInScope
  /\ \A e \in CarriedBy(toPwa) \cup Held : Sound(e)

(* What a step does to the present branch: it grows, or the generation is  *)
(* another.                                                                *)
BranchMoves ==
  \/ /\ UNCHANGED generation /\ Len(branches') = Len(branches)
     /\ GrownFrom(branches[Current], branches'[Current])
  \/ generation < generation'

LEMMA RecoveredSame ==
  ASSUME UNCHANGED generation, NEW session, NEW b
  PROVE  Recovered(session, b)' = Recovered(session, b)
<1>1. \A id, legacy, kind, group : ToEvent(session, id, legacy, kind, group)' =
                                   ToEvent(session, id, legacy, kind, group)
  BY DEF ToEvent
<1> QED
  BY <1>1 DEF Recovered, ToEvent

LEMMA SoundStays ==
  ASSUME HostTypes, HostTypes', BranchMoves, NEW e, Sound(e), e.gen \in Nat
  PROVE  Sound(e)'
<1>1. generation \in Nat /\ generation' \in Nat
  BY DEF HostTypes, HostTypeOK, SessionTypeOK
<1>2. CASE generation < generation'
  BY <1>1, <1>2 DEF Sound
<1>3. CASE /\ UNCHANGED generation /\ Len(branches') = Len(branches)
           /\ GrownFrom(branches[Current], branches'[Current])
  <2> DEFINE b == branches[Current]
             c == branches'[Current]
  <2>1. Current' = Current
    BY <1>3 DEF Current
  <2>2. b \in Seq(Entry) /\ c \in Seq(Entry)
    <3>1. branches' \in Seq(Seq(Entry)) /\ Current \in 1..Len(branches')
      BY <1>3, CurrentIs DEF HostTypes, HostTypeOK, SessionTypeOK
    <3> QED
      BY <3>1, CurrentIs, ElementOfSeq
  <2>3. Recovered(Current, b) \subseteq Recovered(Current, c)
    <3> HIDE DEF b, c
    <3> QED
      BY <1>3, <2>2, RecoveredStays DEF b, c
  <2>4. History = Recovered(Current, b)
    BY DEF History
  <2>5. History' = Recovered(Current, c)
    <3>1. PICK s : s = Current
      OBVIOUS
    <3>2. PICK d : d = c
      OBVIOUS
    <3>3. History' = Recovered(s, d)'
      BY <2>1, <3>1, <3>2 DEF History
    <3> QED
      BY <1>3, <3>1, <3>2, <3>3, RecoveredSame
  <2> HIDE DEF b, c
  <2> QED
    BY <1>3, <2>1, <2>3, <2>4, <2>5 DEF Sound
<1> QED
  BY <1>2, <1>3 DEF BranchMoves


(* A host's step keeps the invariant if the announcements stay true and    *)
(* what it sends is sound.                                                 *)
HostSends ==
  /\ BranchMoves /\ AnnouncedInv'
  /\ \A e \in CarriedBy(toPwa') : e \in CarriedBy(toPwa) \/ Sound(e)'

LEMMA CarriedTyped ==
  ASSUME NEW f \in ServerFrame
  PROVE  Carried(f) \subseteq Event
<1>1. CASE f.type = "event"
  BY <1>1, ServerFields DEF Carried
<1>2. CASE f.type = "fragment"
  BY <1>2, ServerFields DEF Carried, Fragment
<1>3. CASE f.type = "chunk"
  <2>1. f.events \subseteq Event /\ f.fragments \subseteq Fragment
    BY <1>3, ServerFields DEF Chunk
  <2> QED
    BY <1>3, <2>1 DEF Carried, Fragment
<1> QED
  BY <1>1, <1>2, <1>3 DEF Carried

LEMMA HeldTyped ==
  ASSUME SessionTypes
  PROVE  CarriedBy(toPwa) \cup Held \subseteq Event
<1>1. \A i \in 1..Len(toPwa) : Carried(toPwa[i]) \subseteq Event
  <2>1. \A i \in 1..Len(toPwa) : toPwa[i] \in ServerFrame
    BY ElementOfSeq DEF SessionTypes, HostTypes, HostTypeOK, NetTypeOK
  <2> QED
    BY <2>1, CarriedTyped
<1>2. events \subseteq Event /\ journal \subseteq Event /\ store \subseteq Event
      /\ {p.event : p \in parts} \subseteq Event
  BY DEF SessionTypes, ViewTypeOK, TransferTypeOK, StoreTypeOK, Fragment
<1>3. \A i \in 1..Len(idb) : idb[i].events \subseteq Event
  <2>1. \A i \in 1..Len(idb) : idb[i] \in Transaction
    BY ElementOfSeq DEF SessionTypes, StoreTypeOK
  <2> QED
    BY <2>1 DEF Transaction
<1>4. assembler # None => \A c \in assembler.chunks : Carried(c) \subseteq Event
  <2> SUFFICES ASSUME assembler # None, NEW c \in assembler.chunks
               PROVE  Carried(c) \subseteq Event
    OBVIOUS
  <2>1. c \in ServerFrame
    BY DEF SessionTypes, TransferTypeOK, Optional, Assembler, ServerFrame
  <2> QED
    BY <2>1, CarriedTyped
<1>5. CarriedBy(toPwa) \subseteq Event
  BY <1>1 DEF CarriedBy
<1>6. Held \subseteq Event
  <2>1. UNION {idb[i].events : i \in 1..Len(idb)} \subseteq Event
    BY <1>3
  <2>2. (IF assembler = None THEN {} ELSE UNION {Carried(c) : c \in assembler.chunks}) \subseteq Event
    BY <1>4
  <2> QED
    BY <1>2, <2>1, <2>2 DEF Held
<1> QED
  BY <1>5, <1>6

LEMMA HostKeepsHistory ==
  ASSUME SessionTypes, HostTypes', HistoryInv, UNCHANGED pwaVars, HostSends
  PROVE  HistoryInv'
<1>1. UNCHANGED <<events, journal, parts, store, idb, assembler, scope>>
  BY DEF pwaVars, linkVars, viewVars, transferVars, storeVars
<1>2. \A e : e \in Held' <=> e \in Held
  BY <1>1 DEF Held, Carried
<1>3. \A e \in CarriedBy(toPwa) \cup Held : Sound(e)'
  <2>1. \A e \in CarriedBy(toPwa) \cup Held : e.gen \in Nat
    BY HeldTyped DEF Event
  <2> SUFFICES ASSUME NEW e \in CarriedBy(toPwa) \cup Held
               PROVE  Sound(e)'
    OBVIOUS
  <2> QED
    BY <2>1, SoundStays DEF HistoryInv, HostSends, SessionTypes
<1>4. \A e \in (CarriedBy(toPwa) \cup Held)' : Sound(e)'
  BY <1>2, <1>3 DEF HostSends
<1>5. ShownInScope'
  BY <1>1 DEF HistoryInv, ShownInScope, InScope
<1> QED
  BY <1>4, <1>5 DEF HistoryInv, HostSends

LEMMA CarriedJoined ==
  ASSUME NEW S, NEW a \in Seq(S), NEW b \in Seq(S)
  PROVE  CarriedBy(a \o b) \subseteq CarriedBy(a) \cup CarriedBy(b)
<1>1. Len(a) \in Nat /\ Len(b) \in Nat /\ Len(a \o b) = Len(a) + Len(b)
  BY LenProperties, ConcatProperties
<1>2. \A i \in 1..Len(a) + Len(b) : (a \o b)[i] = IF i <= Len(a) THEN a[i] ELSE b[i - Len(a)]
  BY ConcatProperties
<1> SUFFICES ASSUME NEW i \in 1..Len(a \o b)
             PROVE  Carried((a \o b)[i]) \subseteq CarriedBy(a) \cup CarriedBy(b)
  BY DEF CarriedBy
<1>3. CASE i <= Len(a)
  <2>1. i \in 1..Len(a) /\ (a \o b)[i] = a[i]
    BY <1>1, <1>2, <1>3
  <2> QED
    BY <2>1 DEF CarriedBy
<1>4. CASE ~(i <= Len(a))
  <2>1. i - Len(a) \in 1..Len(b) /\ (a \o b)[i] = b[i - Len(a)]
    BY <1>1, <1>2, <1>4
  <2> QED
    BY <2>1 DEF CarriedBy
<1> QED
  BY <1>3, <1>4

LEMMA PostCarries ==
  ASSUME HostTypes, NEW frames \in Seq(ServerFrame), Post(frames)
  PROVE  CarriedBy(toPwa') \subseteq CarriedBy(toPwa) \cup CarriedBy(frames)
<1>1. toPwa \in Seq(ServerFrame)
  BY DEF HostTypes, HostTypeOK, NetTypeOK
<1>2. toPwa' = toPwa \o frames \/ toPwa' = toPwa
  BY DEF Post
<1> QED
  BY <1>1, <1>2, CarriedJoined

(* A word on a message, on the session or on a partial carries no event.   *)
Wordless(f) == f.type \notin {"event", "fragment", "chunk"}

LEMMA CarriesNothing ==
  ASSUME NEW frames, \A i \in 1..Len(frames) : Wordless(frames[i])
  PROVE  CarriedBy(frames) = {}
  BY DEF CarriedBy, Carried, Wordless

LEMMA PostWord ==
  ASSUME HostTypes, NEW frame \in ServerFrame, Wordless(frame), Post(<<frame>>)
  PROVE  CarriedBy(toPwa') \subseteq CarriedBy(toPwa)
<1> DEFINE frames == <<frame>>
<1>1. frames \in Seq(ServerFrame) /\ Len(frames) = 1 /\ frames[1] = frame
  OBVIOUS
<1> HIDE DEF frames
<1>2. CarriedBy(frames) = {}
  BY <1>1, CarriesNothing
<1> QED
  BY <1>1, <1>2, PostCarries DEF frames


LEMMA ConfirmCarries ==
  ASSUME HostTypes, NEW corr \in Optional(Correlation), NEW mid \in Nat,
         NEW status \in {"accepted", "committed"},
         NEW first \in Seq(ServerFrame), NEW last \in Seq(ServerFrame), CarriedBy(last) = {},
         Confirm(corr, status, mid, first, last)
  PROVE  CarriedBy(toPwa') \subseteq CarriedBy(toPwa) \cup CarriedBy(first)
<1>1. CASE binding = None \/ corr = None \/ Recorded(binding.records, corr.req) = 0
  BY <1>1, PostCarries DEF Confirm
<1>2. CASE ~(binding = None \/ corr = None \/ Recorded(binding.records, corr.req) = 0)
  <2> DEFINE frame == StatusFrame(binding, corr.req, status, mid)
             word == <<frame>>
  <2>1. binding \in Service /\ corr.req \in Requests
    BY <1>2, BindingTyped DEF Optional, Serviceable, Correlation
  <2>2. frame \in ServerFrame /\ Wordless(frame)
    BY <2>1, StatusTyped DEF StatusFrame, Wordless
  <2>3. word \in Seq(ServerFrame) /\ CarriedBy(word) = {}
    <3> HIDE DEF frame
    <3>1. word \in Seq(ServerFrame) /\ Len(word) = 1 /\ word[1] = frame
      BY <2>2
    <3> HIDE DEF word
    <3> QED
      BY <2>2, <3>1, CarriesNothing
  <2>4. Post(first \o word \o last)
    BY <1>2 DEF Confirm
  <2> HIDE DEF word
  <2>5. first \o word \in Seq(ServerFrame) /\ first \o word \o last \in Seq(ServerFrame)
    BY <2>3, ConcatProperties
  <2>6. CarriedBy(toPwa') \subseteq CarriedBy(toPwa) \cup CarriedBy(first \o word \o last)
    BY <2>4, <2>5, PostCarries
  <2>7. /\ CarriedBy(first \o word \o last) \subseteq CarriedBy(first \o word) \cup CarriedBy(last)
        /\ CarriedBy(first \o word) \subseteq CarriedBy(first) \cup CarriedBy(word)
    BY <2>3, <2>5, CarriedJoined
  <2> QED
    BY <2>3, <2>6, <2>7
<1> QED
  BY <1>1, <1>2

LEMMA MarkerIs ==
  ASSUME NEW s \in 1..Len(branches), NEW i \in 1..Len(branches[s]),
         branches[s][i].type = "marker"
  PROVE  branches[s][i] \in Markers
<1>1. branches[s][i] \in {branches[s][j] : j \in 1..Len(branches[s])}
  OBVIOUS
<1> QED
  BY <1>1 DEF Markers

LEMMA EntryMoves ==
  ASSUME HostTypes, NEW entry \in Entry, AppendEntry(entry)
  PROVE  /\ UNCHANGED generation => BranchMoves
         /\ \A m \in Markers' : m \in Markers \/ m = entry
<1> DEFINE b == branches[Current]
<1>1. /\ branches \in Seq(Seq(Entry)) /\ b \in Seq(Entry) /\ Current \in 1..Len(branches)
      /\ Len(branches') = Len(branches)
  BY CurrentIs, EntryTyped DEF HostTypes, HostTypeOK, SessionTypeOK
<1>2. /\ branches'[Current] = Append(b, entry)
      /\ \A s \in 1..Len(branches) : s # Current => branches'[s] = branches[s]
  <2>1. branches' = [branches EXCEPT ![Current] = Append(b, entry)] /\ DOMAIN branches = 1..Len(branches)
    BY <1>1, LenProperties DEF AppendEntry
  <2> HIDE DEF b
  <2> QED
    BY <1>1, <2>1
<1>3. /\ Len(b) \in Nat /\ Len(Append(b, entry)) = Len(b) + 1
      /\ \A i \in 1..Len(b) : Append(b, entry)[i] = b[i]
      /\ Append(b, entry)[Len(b) + 1] = entry
  <2> HIDE DEF b
  <2> QED
    BY <1>1, AppendProperties, LenProperties
<1>4. GrownFrom(b, branches'[Current])
  <2> HIDE DEF b
  <2> QED
    BY <1>2, <1>3 DEF GrownFrom
<1>5. ASSUME NEW m \in Markers'
      PROVE  m \in Markers \/ m = entry
  <2>1. PICK s \in 1..Len(branches') : m \in {branches'[s][i] : i \in 1..Len(branches'[s])}
    BY DEF Markers
  <2>2. PICK i \in 1..Len(branches'[s]) : m = branches'[s][i]
    BY <2>1
  <2>3. m.type = "marker"
    BY DEF Markers
  <2>4. CASE s # Current
    BY <1>1, <1>2, <2>2, <2>3, <2>4, MarkerIs
  <2>5. CASE s = Current
    <3>1. i \in 1..Len(b) + 1 /\ m = Append(b, entry)[i]
      BY <1>2, <1>3, <2>2, <2>5
    <3>2. CASE i \in 1..Len(b)
      <4>1. m = b[i] /\ b[i].type = "marker"
        BY <1>3, <2>3, <3>1, <3>2
      <4> QED
        BY <1>1, <3>2, <4>1, MarkerIs
    <3>3. CASE i = Len(b) + 1
      BY <1>3, <3>1, <3>3
    <3> QED
      BY <1>3, <3>1, <3>2, <3>3
  <2> QED
    BY <2>4, <2>5
<1> QED
  BY <1>1, <1>4, <1>5 DEF BranchMoves

LEMMA BranchRests ==
  ASSUME HostTypes, UNCHANGED <<branches, generation>>
  PROVE  BranchMoves /\ Markers' = Markers
<1>1. Len(branches[Current]) \in Nat
  BY CurrentIs, LenProperties
<1> QED
  BY <1>1 DEF BranchMoves, GrownFrom, Markers

(* What is on its way to be published was under way.                       *)
PendingMoves ==
  /\ rt'.pending = None \/ rt'.pending = rt.pending
  /\ \A i \in 1..Len(ended') :
       \/ ended'[i] = rt.pending /\ rt.pending # None
       \/ \E j \in 1..Len(ended) : ended'[i] = ended[j]

LEMMA AnnouncedStays ==
  ASSUME HostTypes, HostTypes', AnnouncedInv, PendingMoves, minted <= minted',
         \A m \in Markers' : m \in Markers
  PROVE  AnnouncedInv'
<1>1. minted \in Nat /\ minted' \in Nat
  BY DEF HostTypes, HostTypeOK, SessionTypeOK
<1>2. \A m \in Markers : m.id \in Nat
  <2>1. \A s \in 1..Len(branches) : \A i \in 1..Len(branches[s]) : branches[s][i] \in Entry
    BY CurrentIs, ElementOfSeq
  <2> QED
    BY <2>1 DEF Markers, Entry
<1>3. ASSUME NEW p, p \in PendingMessage, Announced(p)
      PROVE  Announced(p)'
  BY <1>1, <1>3 DEF Announced, PendingMessage
<1>4. /\ rt.pending # None => rt.pending \in PendingMessage
      /\ \A j \in 1..Len(ended) : ended[j] \in PendingMessage
  BY ElementOfSeq DEF HostTypes, HostTypeOK, RuntimeTypeOK, Runtime, Optional
<1>5. \A m \in Markers' : m.id <= minted'
  BY <1>1, <1>2 DEF AnnouncedInv
<1>6. rt'.pending # None => Announced(rt.pending)'
  BY <1>3, <1>4 DEF AnnouncedInv, PendingMoves
<1> QED
  BY <1>3, <1>4, <1>5 DEF AnnouncedInv, PendingMoves


LEMMA RestSends ==
  ASSUME HostTypes, HostTypes', AnnouncedInv, UNCHANGED <<branches, generation, minted>>,
         PendingMoves, CarriedBy(toPwa') \subseteq CarriedBy(toPwa)
  PROVE  HostSends
<1>1. minted <= minted'
  BY DEF HostTypes, HostTypeOK, SessionTypeOK
<1> QED
  BY <1>1, BranchRests, AnnouncedStays DEF HostSends

(* A message is announced under an id no other marker has.                 *)
LEMMA MessageStartSends ==
  ASSUME HostTypes, HostTypes', AnnouncedInv, NEW role \in Roles,
         NEW corr \in Optional(Correlation), NEW earlier \in Runtime,
         OnMessageStart(role, corr, earlier)
  PROVE  HostSends
<1> DEFINE r == Attached(earlier, Current)
           e == minted + 1
           g == IF r.active /\ r.group # 0 THEN r.group ELSE e
           started == IF corr = None \/ binding = None THEN <<>>
                      ELSE <<[type |-> "started", session |-> binding.session, gen |-> binding.gen,
                              rid |-> corr.rid, status |-> "accepted", mid |-> e]>>
           marker == [type |-> "marker", id |-> e, role |-> role, group |-> g]
           pending == [id |-> e, role |-> role, group |-> g, corr |-> corr, session |-> Current]
<1>1. r \in Runtime
  BY AttachedTyped, CurrentIs
<1>2. e \in Nat \ {0} /\ minted \in Nat
  BY DEF HostTypes, HostTypeOK, SessionTypeOK
<1>3. g \in Nat
  BY <1>1, <1>2 DEF Runtime
<1>4. marker \in Entry
  <2> HIDE DEF e, g
  <2> QED
    BY <1>2, <1>3 DEF Entry
<1>5. started \in Seq(ServerFrame) /\ CarriedBy(started) = {}
  <2>1. CASE corr = None \/ binding = None
    <3>1. started = <<>> /\ started \in Seq(ServerFrame) /\ Len(started) = 0
      BY <2>1
    <3> QED
      BY <3>1 DEF CarriedBy
  <2>2. CASE ~(corr = None \/ binding = None)
    <3> DEFINE frame == [type |-> "started", session |-> binding.session, gen |-> binding.gen,
                         rid |-> corr.rid, status |-> "accepted", mid |-> e]
    <3>1. binding \in Service /\ corr \in Correlation
      BY <2>2, BindingTyped DEF Serviceable, Optional
    <3>2. frame \in ServerFrame /\ Wordless(frame)
      BY <1>2, <3>1 DEF ServerFrame, Service, Correlation, Wordless
    <3>3. started = <<frame>>
      BY <2>2
    <3> HIDE DEF frame, started
    <3>4. started \in Seq(ServerFrame) /\ Len(started) = 1 /\ started[1] = frame
      BY <3>2, <3>3
    <3> QED
      BY <3>2, <3>4, CarriesNothing
  <2> QED
    BY <2>1, <2>2
<1>6. /\ AppendEntry(marker) /\ Confirm(corr, "accepted", e, <<>>, started)
      /\ rt' = [r EXCEPT !.active = TRUE, !.group = g, !.pending = pending]
      /\ minted' = e /\ UNCHANGED <<generation, ended>>
  BY DEF OnMessageStart
<1>7. CarriedBy(toPwa') \subseteq CarriedBy(toPwa)
  <2> DEFINE none == <<>>
  <2>1. none \in Seq(ServerFrame) /\ Len(none) = 0 /\ e \in Nat
    BY <1>2
  <2>2. Confirm(corr, "accepted", e, none, started)
    BY <1>6
  <2> HIDE DEF none, started, e
  <2>3. CarriedBy(none) = {}
    BY <2>1 DEF CarriedBy
  <2>4. CarriedBy(toPwa') \subseteq CarriedBy(toPwa) \cup CarriedBy(none)
    BY <1>5, <2>1, <2>2, ConfirmCarries
  <2> QED
    BY <2>3, <2>4
<1>8. BranchMoves /\ \A m \in Markers' : m \in Markers \/ m = marker
  <2> HIDE DEF marker
  <2> QED
    BY <1>4, <1>6, EntryMoves
<1>9. rt'.pending = pending
  BY <1>1, <1>6 DEF Runtime
<1>10. PICK p : p = pending
  OBVIOUS
<1>11. /\ p.id = e /\ p.role = role /\ p.group = g /\ rt'.pending = p
       /\ marker.role = role /\ marker.group = g /\ marker.id = e
  BY <1>9, <1>10
<1>12. \A m \in Markers : m.id <= minted /\ m.id \in Nat
  <2>1. \A s \in 1..Len(branches) : \A i \in 1..Len(branches[s]) : branches[s][i] \in Entry
    BY CurrentIs, ElementOfSeq
  <2> QED
    BY <2>1 DEF AnnouncedInv, Markers, Entry
<1> HIDE DEF pending, marker, e, g, r, started
<1>13. Announced(p)'
  <2>1. ASSUME NEW m \in Markers', m.id = e
        PROVE  m.role = role /\ m.group = g
    <3>1. m \notin Markers
      BY <1>2, <1>12, <2>1 DEF e
    <3> QED
      BY <1>8, <1>11, <3>1
  <2> QED
    BY <1>2, <1>6, <1>11, <2>1 DEF Announced
<1>14. ASSUME NEW q \in PendingMessage, Announced(q)
       PROVE  Announced(q)'
  <2>1. q.id \in Nat /\ q.id <= minted /\ minted <= minted' /\ q.id # e
    BY <1>2, <1>6, <1>14 DEF Announced, PendingMessage, e
  <2>2. q.id <= minted'
    BY <1>2, <1>6, <2>1
  <2> QED
    BY <1>8, <1>11, <1>14, <2>1, <2>2 DEF Announced
<1>15. \A m \in Markers' : m.id <= minted'
  BY <1>2, <1>6, <1>8, <1>11, <1>12 DEF e
<1>16. \A i \in 1..Len(ended) : ended[i] \in PendingMessage
  BY ElementOfSeq DEF HostTypes, HostTypeOK, RuntimeTypeOK
<1>17. Announced(rt.pending)'
  BY <1>11, <1>13
<1>18. \A i \in 1..Len(ended') : Announced(ended[i])'
  BY <1>6, <1>14, <1>16 DEF AnnouncedInv
<1>19. AnnouncedInv'
  BY <1>15, <1>17, <1>18 DEF AnnouncedInv
<1> QED
  BY <1>6, <1>7, <1>8, <1>19 DEF HostSends


LEMMA MessagesSend ==
  ASSUME HostTypes, HostTypes', AnnouncedInv, StartRun \/ Steer \/ \E role \in Roles : Speak(role)
  PROVE  HostSends
<1>1. /\ rt \in Runtime /\ sdk.corr \in Optional(Correlation) /\ "user" \in Roles
      /\ inbox \in Seq(Optional(Correlation)) /\ DOMAIN inbox = 1..Len(inbox)
  BY LenProperties DEF HostTypes, HostTypeOK, RuntimeTypeOK, PiTypeOK, Roles
<1>2. CASE StartRun
  <2>1. PICK i \in DOMAIN inbox :
          OnMessageStart("user", inbox[i], [rt EXCEPT !.active = TRUE, !.group = 0])
    BY <1>2 DEF StartRun
  <2>2. inbox[i] \in Optional(Correlation)
    BY <1>1, ElementOfSeq
  <2>3. [rt EXCEPT !.active = TRUE, !.group = 0] \in Runtime
    BY <1>1 DEF Runtime
  <2> QED
    BY <1>1, <2>1, <2>2, <2>3, MessageStartSends
<1>3. CASE Steer
  BY <1>1, <1>3, MessageStartSends DEF Steer
<1>4. CASE \E role \in Roles : Speak(role)
  BY <1>1, <1>4, MessageStartSends DEF Speak
<1> QED
  BY <1>2, <1>3, <1>4

LEMMA EntrySends ==
  ASSUME HostTypes, HostTypes', AnnouncedInv, NEW entry \in Entry, entry.type # "marker",
         AppendEntry(entry), UNCHANGED <<generation, toPwa>>, minted <= minted', PendingMoves
  PROVE  HostSends
<1>1. BranchMoves /\ \A m \in Markers' : m \in Markers
  BY EntryMoves DEF Markers
<1> QED
  BY <1>1, AnnouncedStays DEF HostSends

LEMMA EndMessageSends ==
  ASSUME HostTypes, HostTypes', AnnouncedInv, EndMessage
  PROVE  HostSends
<1> DEFINE r == Attached(rt, Current)
           entry == [type |-> "message", id |-> sdk.msg.id, role |-> sdk.msg.role, group |-> 0]
<1>1. r \in Runtime /\ (r.pending = rt.pending \/ r.pending = None)
  BY AttachedTyped, CurrentIs DEF HostTypes, HostTypeOK, RuntimeTypeOK, Attached, Reset
<1>2. /\ rt' = [r EXCEPT !.pending = None]
      /\ ended' = IF r.pending = None THEN ended ELSE Append(ended, r.pending)
  BY DEF EndMessage
<1> HIDE DEF r
<1>3. PendingMoves
  <2>1. rt'.pending = None
    BY <1>1, <1>2 DEF Runtime
  <2>2. /\ ended \in Seq(PendingMessage) /\ Len(ended) \in Nat
    BY LenProperties DEF HostTypes, HostTypeOK, RuntimeTypeOK
  <2>3. CASE r.pending = None
    BY <1>2, <2>1, <2>3 DEF PendingMoves
  <2>4. CASE r.pending # None
    <3>1. r.pending \in PendingMessage
      BY <1>1, <2>4 DEF Runtime, Optional
    <3>2. /\ Len(ended') = Len(ended) + 1 /\ ended'[Len(ended) + 1] = r.pending
          /\ \A i \in 1..Len(ended) : ended'[i] = ended[i]
      BY <1>2, <2>2, <2>4, <3>1, AppendProperties
    <3>3. \A i \in 1..Len(ended') : i = Len(ended) + 1 \/ i \in 1..Len(ended)
      BY <2>2, <3>2
    <3> QED
      BY <1>1, <2>1, <2>4, <3>2, <3>3 DEF PendingMoves
  <2> QED
    BY <2>3, <2>4
<1>4. sdk.msg \in [id : Nat \ {0}, role : Roles]
  BY DEF EndMessage, HostTypes, HostTypeOK, PiTypeOK, Optional
<1>5. entry \in Entry /\ entry.type # "marker"
  BY <1>4 DEF Entry
<1>6. AppendEntry(entry) /\ UNCHANGED <<generation, toPwa>> /\ minted <= minted'
  BY DEF EndMessage, netVars, HostTypes, HostTypeOK, SessionTypeOK
<1> HIDE DEF entry
<1> QED
  BY <1>3, <1>5, <1>6, EntrySends

LEMMA RuntimeRests ==
  ASSUME UNCHANGED <<rt, ended>>
  PROVE  PendingMoves
  BY DEF PendingMoves

LEMMA WriteEntrySends ==
  ASSUME HostTypes, HostTypes', AnnouncedInv,
         NEW type \in {"custom", "custom_message", "compaction"}, WriteEntry(type)
  PROVE  HostSends
<1> DEFINE entry == [type |-> type, id |-> minted + 1, role |-> None, group |-> 0]
<1>1. minted \in Nat
  BY DEF HostTypes, HostTypeOK, SessionTypeOK
<1>2. entry \in Entry /\ entry.type # "marker"
  BY <1>1 DEF Entry
<1>3. AppendEntry(entry) /\ UNCHANGED <<generation, toPwa>> /\ minted <= minted' /\ PendingMoves
  BY <1>1, RuntimeRests DEF WriteEntry, netVars, runtimeVars
<1> HIDE DEF entry
<1> QED
  BY <1>2, <1>3, EntrySends

LEMMA FinishCarries ==
  ASSUME HostTypes, NEW session \in Nat, FinishSessionReplacement(session)
  PROVE  CarriedBy(toPwa') \subseteq CarriedBy(toPwa)
<1>1. CASE replaced /\ binding # None
  <2> DEFINE frame == [type |-> "bye", session |-> session, gen |-> binding.gen]
  <2>1. frame \in ServerFrame /\ Wordless(frame)
    BY <1>1, BindingTyped DEF Serviceable, Service, ServerFrame, Wordless
  <2>2. Post(<<frame>>)
    BY <1>1 DEF FinishSessionReplacement
  <2> HIDE DEF frame
  <2> QED
    BY <2>1, <2>2, PostWord
<1>2. CASE ~(replaced /\ binding # None)
  BY <1>2 DEF FinishSessionReplacement
<1> QED
  BY <1>1, <1>2

LEMMA StreamCarries ==
  ASSUME HostTypes, Stream
  PROVE  CarriedBy(toPwa') \subseteq CarriedBy(toPwa)
<1>1. CASE UNCHANGED toPwa
  BY <1>1
<1>2. CASE ~UNCHANGED toPwa
  <2> DEFINE frame == [type |-> "partial", session |-> Current, gen |-> generation,
                       id |-> rt.pending.id, group |-> rt.pending.group]
  <2>1. rt.pending \in PendingMessage /\ Current \in Nat /\ generation \in Nat
    BY CurrentIs DEF Stream, HostTypes, HostTypeOK, RuntimeTypeOK, SessionTypeOK, Runtime, Optional
  <2>2. frame \in ServerFrame /\ Wordless(frame)
    BY <2>1 DEF ServerFrame, PendingMessage, Wordless
  <2>3. Post(<<frame>>)
    BY <1>2 DEF Stream
  <2> HIDE DEF frame
  <2> QED
    BY <2>2, <2>3, PostWord
<1> QED
  BY <1>1, <1>2

LEMMA ReconnectCarries ==
  ASSUME HostTypes, ReconnectHost
  PROVE  CarriedBy(toPwa') \subseteq CarriedBy(toPwa)
<1> DEFINE frame == [type |-> "endpoint"]
<1>1. PICK kept \in Prefixes(toPwa), seen \in BOOLEAN :
        toPwa' = IF linked /\ seen THEN Append(kept, frame) ELSE kept
  BY DEF ReconnectHost
<1>2. kept \in Seq(ServerFrame) /\ Len(kept) <= Len(toPwa) /\ Len(kept) \in Nat
      /\ Len(toPwa) \in Nat /\ \A i \in 1..Len(kept) : kept[i] = toPwa[i]
  BY PrefixIs, LenProperties DEF HostTypes, HostTypeOK, NetTypeOK
<1>3. CarriedBy(kept) \subseteq CarriedBy(toPwa)
  BY <1>2 DEF CarriedBy
<1>4. frame \in ServerFrame /\ Wordless(frame)
  BY DEF ServerFrame, Wordless
<1>5. CASE toPwa' = kept
  BY <1>3, <1>5
<1>6. CASE toPwa' = Append(kept, frame)
  <2> DEFINE word == <<frame>>
  <2>1. toPwa' = kept \o word /\ word \in Seq(ServerFrame) /\ Len(word) = 1 /\ word[1] = frame
    <3> HIDE DEF frame
    <3> QED
      BY <1>2, <1>4, <1>6
  <2> HIDE DEF word, frame
  <2>2. CarriedBy(word) = {}
    BY <1>4, <2>1, CarriesNothing
  <2>3. CarriedBy(kept \o word) \subseteq CarriedBy(kept) \cup CarriedBy(word)
    BY <1>2, <2>1, CarriedJoined
  <2> QED
    BY <1>3, <2>1, <2>2, <2>3
<1> QED
  BY <1>1, <1>5, <1>6


LEMMA OthersSend ==
  ASSUME HostTypes, HostTypes', AnnouncedInv,
         \/ EndRun \/ ExpireRecord \/ TypePrompt \/ ShutdownSession \/ EndBridge \/ Stream
         \/ ReconnectHost
  PROVE  HostSends
<1>1. UNCHANGED <<branches, generation, minted>>
  BY DEF EndRun, ExpireRecord, TypePrompt, ShutdownSession, EndBridge, Stream, ReconnectHost,
         sessionVars
<1>2. PendingMoves
  <2>1. CASE EndRun
    BY <2>1 DEF EndRun, PendingMoves, HostTypes, HostTypeOK, RuntimeTypeOK, Runtime
  <2>2. CASE ~EndRun
    BY <2>2, RuntimeRests DEF ExpireRecord, TypePrompt, ShutdownSession, EndBridge, Stream,
                              ReconnectHost, runtimeVars
  <2> QED
    BY <2>1, <2>2
<1>3. CarriedBy(toPwa') \subseteq CarriedBy(toPwa)
  <2>1. CASE EndRun \/ ExpireRecord \/ TypePrompt \/ ShutdownSession
    BY <2>1 DEF EndRun, ExpireRecord, TypePrompt, ShutdownSession, netVars
  <2>2. CASE EndBridge
    <3>1. Current - 1 \in Nat
      BY CurrentIs
    <3> QED
      BY <2>2, <3>1, FinishCarries DEF EndBridge
  <2>3. CASE Stream \/ ReconnectHost
    BY <2>3, StreamCarries, ReconnectCarries
  <2> QED
    BY <2>1, <2>2, <2>3
<1> QED
  BY <1>1, <1>2, <1>3, RestSends

LEMMA StartSessionSends ==
  ASSUME HostTypes, HostTypes', AnnouncedInv, StartSession
  PROVE  HostSends
<1>1. generation \in Nat /\ generation' = generation + 1 /\ minted' = minted /\ minted \in Nat
  BY DEF StartSession, HostTypes, HostTypeOK, SessionTypeOK
<1>2. \A m \in Markers' : m \in Markers
  <2> DEFINE none == <<>>
  <2>1. branches \in Seq(Seq(Entry)) /\ none \in Seq(Entry) /\ Len(none) = 0
    BY EmptySeq DEF HostTypes, HostTypeOK, SessionTypeOK
  <2>2. branches' = Append(branches, none)
    BY DEF StartSession
  <2> HIDE DEF none
  <2>3. /\ Len(branches) \in Nat /\ Len(branches') = Len(branches) + 1
        /\ branches'[Len(branches) + 1] = none
        /\ \A s \in 1..Len(branches) : branches'[s] = branches[s]
    BY <2>1, <2>2, AppendProperties, LenProperties
  <2> SUFFICES ASSUME NEW m \in Markers'
               PROVE  m \in Markers
    OBVIOUS
  <2>4. PICK s \in 1..Len(branches') : m \in {branches'[s][i] : i \in 1..Len(branches'[s])}
    BY DEF Markers
  <2>5. PICK i \in 1..Len(branches'[s]) : m = branches'[s][i]
    BY <2>4
  <2>6. m.type = "marker"
    BY DEF Markers
  <2>7. s # Len(branches) + 1
    BY <2>1, <2>3, <2>5
  <2>8. s \in 1..Len(branches) /\ branches'[s] = branches[s]
    BY <2>3, <2>7
  <2> QED
    BY <2>5, <2>6, <2>8, MarkerIs
<1>3. rt'.pending = None /\ ended' = ended
  BY DEF StartSession, Reset
<1>4. CarriedBy(toPwa') \subseteq CarriedBy(toPwa)
  BY CurrentIs, FinishCarries DEF StartSession
<1>5. AnnouncedInv'
  BY <1>1, <1>2, <1>3, AnnouncedStays DEF PendingMoves
<1> QED
  BY <1>1, <1>4, <1>5 DEF HostSends, BranchMoves

LEMMA MoveInTreeSends ==
  ASSUME HostTypes, HostTypes', AnnouncedInv, MoveInTree
  PROVE  HostSends
<1>1. generation \in Nat /\ generation' = generation + 1 /\ minted' = minted /\ minted \in Nat
  BY DEF MoveInTree, HostTypes, HostTypeOK, SessionTypeOK
<1>2. \A m \in Markers' : m \in Markers
  <2>1. PICK b \in Prefixes(branches[Current]) : branches' = [branches EXCEPT ![Current] = b]
    BY DEF MoveInTree
  <2>2. /\ branches \in Seq(Seq(Entry)) /\ Current \in 1..Len(branches)
        /\ branches[Current] \in Seq(Entry) /\ DOMAIN branches = 1..Len(branches)
    BY CurrentIs, LenProperties DEF HostTypes, HostTypeOK, SessionTypeOK
  <2>3. /\ b \in Seq(Entry) /\ Len(b) <= Len(branches[Current]) /\ Len(b) \in Nat
        /\ Len(branches[Current]) \in Nat /\ \A i \in 1..Len(b) : b[i] = branches[Current][i]
    BY <2>2, PrefixIs, LenProperties
  <2>4. /\ Len(branches') = Len(branches) /\ branches'[Current] = b
        /\ \A s \in 1..Len(branches) : s # Current => branches'[s] = branches[s]
    BY <2>1, <2>2, <2>3, ExceptSeq
  <2> SUFFICES ASSUME NEW m \in Markers'
               PROVE  m \in Markers
    OBVIOUS
  <2>5. PICK s \in 1..Len(branches') : m \in {branches'[s][i] : i \in 1..Len(branches'[s])}
    BY DEF Markers
  <2>6. PICK i \in 1..Len(branches'[s]) : m = branches'[s][i]
    BY <2>5
  <2>7. m.type = "marker"
    BY DEF Markers
  <2>8. s \in 1..Len(branches) /\ i \in 1..Len(branches[s]) /\ m = branches[s][i]
    <3>1. CASE s = Current
      BY <2>2, <2>3, <2>4, <2>6, <3>1
    <3>2. CASE s # Current
      BY <2>4, <2>6, <3>2
    <3> QED
      BY <3>1, <3>2
  <2> QED
    BY <2>7, <2>8, MarkerIs
<1>3. PendingMoves
  BY RuntimeRests DEF MoveInTree, runtimeVars
<1>4. CarriedBy(toPwa') \subseteq CarriedBy(toPwa)
  <2>1. CASE UNCHANGED toPwa
    BY <2>1
  <2>2. CASE ~UNCHANGED toPwa
    <3> DEFINE frame == [type |-> "reset", session |-> binding.session, gen |-> generation + 1]
    <3>1. binding # None /\ Post(<<frame>>)
      BY <2>2 DEF MoveInTree
    <3>2. frame \in ServerFrame /\ Wordless(frame)
      BY <1>1, <3>1, BindingTyped DEF Serviceable, Service, ServerFrame, Wordless
    <3> HIDE DEF frame
    <3> QED
      BY <3>1, <3>2, PostWord
  <2> QED
    BY <2>1, <2>2
<1>5. AnnouncedInv'
  BY <1>1, <1>2, <1>3, AnnouncedStays
<1> QED
  BY <1>1, <1>4, <1>5 DEF HostSends, BranchMoves

(* The marker of a message is where it is looked for.                      *)
LEMMA MarkerOfIs ==
  ASSUME NEW b \in Seq(Entry), NEW id, MarkerOf(b, id) # 0
  PROVE  /\ MarkerOf(b, id) \in 1..Len(b)
         /\ b[MarkerOf(b, id)].type = "marker" /\ b[MarkerOf(b, id)].id = id
<1> DEFINE I == {i \in 1..Len(b) : b[i].type = "marker" /\ b[i].id = id}
<1>1. MarkerOf(b, id) = IF I # {} THEN Min(I) ELSE 0
  BY DEF MarkerOf, SelectInSeq
<1>2. I \in SUBSET Nat
  OBVIOUS
<1>3. I # {}
  <2> HIDE DEF I
  <2> QED
    BY <1>1
<1>4. Min(I) \in I
  BY <1>2, <1>3, LeastIs
<1> QED
  BY <1>1, <1>3, <1>4

(* An event is published as the branch has it.                             *)
LEMMA PublishedIsSound ==
  ASSUME HostTypes, NEW p \in PendingMessage, Announced(p),
         MarkerOf(branches[p.session], p.id) # 0,
         Target(branches[p.session], MarkerOf(branches[p.session], p.id), p.role) # 0,
         NEW event, event = ToEvent(p.session, p.id, FALSE, p.role, p.group)
  PROVE  Sound(event)
<1> DEFINE b == branches[Current]
           i == MarkerOf(b, p.id)
<1>1. event.session = p.session /\ event.gen = generation /\ generation \in Nat
  BY DEF ToEvent, HostTypes, HostTypeOK, SessionTypeOK
<1>2. event.gen <= generation
  <2>1. \A n \in Nat : n <= n
    OBVIOUS
  <2> QED
    BY <1>1, <2>1
<1>3. CASE p.session # Current
  BY <1>1, <1>3, <1>2 DEF Sound
<1>4. CASE p.session = Current
  <2>1. b \in Seq(Entry) /\ DOMAIN b = 1..Len(b) /\ Current \in 1..Len(branches)
    BY CurrentIs, LenProperties
  <2>2. i \in 1..Len(b) /\ b[i].type = "marker" /\ b[i].id = p.id
    <3> HIDE DEF b
    <3> QED
      BY <1>4, <2>1, MarkerOfIs DEF b
  <2>3. b[i].role = p.role /\ b[i].group = p.group
    <3>1. b[i] \in Markers
      BY <2>1, <2>2, MarkerIs
    <3> QED
      BY <2>2, <3>1 DEF Announced
  <2>4. Target(b, i, b[i].role) # 0
    BY <1>4, <2>3
  <2> HIDE DEF i, b
  <2>5. [at |-> i, event |-> ToEvent(Current, b[i].id, FALSE, b[i].role, b[i].group)]
          \in Recovered(Current, b)
    BY <2>1, <2>2, <2>4 DEF Recovered
  <2>6. event = ToEvent(Current, b[i].id, FALSE, b[i].role, b[i].group)
    BY <1>4, <2>2, <2>3
  <2>7. PICK r : r = [at |-> i, event |-> event]
    OBVIOUS
  <2>8. r \in History /\ r.event = event
    BY <2>5, <2>6, <2>7 DEF History, b
  <2> QED
    BY <1>1, <1>2, <2>8 DEF Sound
<1> QED
  BY <1>3, <1>4


(* What a step sends is what was under way, or sound.                      *)
SendsSound ==
  \A e \in CarriedBy(toPwa') : e \in CarriedBy(toPwa) \/ (Sound(e) /\ e.gen \in Nat)

LEMMA SoundSends ==
  ASSUME HostTypes, HostTypes', AnnouncedInv, UNCHANGED <<branches, generation, minted>>,
         PendingMoves, SendsSound
  PROVE  HostSends
<1>1. minted <= minted'
  BY DEF HostTypes, HostTypeOK, SessionTypeOK
<1>2. BranchMoves /\ AnnouncedInv'
  BY <1>1, BranchRests, AnnouncedStays
<1>3. ASSUME NEW e \in CarriedBy(toPwa'), e \notin CarriedBy(toPwa)
      PROVE  Sound(e)'
  <2>1. Sound(e) /\ e.gen \in Nat
    BY <1>3 DEF SendsSound
  <2> QED
    BY <1>2, <2>1, SoundStays
<1> QED
  BY <1>2, <1>3 DEF HostSends

LEMMA PublishFramesCarry ==
  ASSUME NEW b \in Service, NEW event \in Event, NEW frames \in PublishFrames(b, event)
  PROVE  CarriedBy(frames) \subseteq {event}
<1>1. CASE frames = <<[type |-> "event", session |-> b.session, gen |-> b.gen, event |-> event]>>
  BY <1>1 DEF CarriedBy, Carried
<1>2. CASE frames = [i \in 1..2 |-> [type |-> "fragment", session |-> b.session, gen |-> b.gen,
                                    part |-> Fragments(event)[i]]]
  <2>1. frames \in Seq(ServerFrame) /\ Len(frames) \in Nat /\ DOMAIN frames = 1..Len(frames)
    BY PublishFramesTyped, LenProperties
  <2>2. DOMAIN frames = 1..2
    BY <1>2
  <2>3. ASSUME NEW i \in 1..2
        PROVE  Carried(frames[i]) \subseteq {event}
    <3>1. frames[i].type = "fragment" /\ frames[i].part = Fragments(event)[i]
      BY <1>2
    <3>2. Fragments(event)[i].event = event
      BY FragmentsTyped
    <3> QED
      BY <3>1, <3>2 DEF Carried
  <2> QED
    BY <2>1, <2>2, <2>3 DEF CarriedBy
<1> QED
  BY <1>1, <1>2 DEF PublishFrames

LEMMA PublishSends ==
  ASSUME HostTypes, HostTypes', AnnouncedInv, Publish
  PROVE  HostSends
<1> DEFINE b == branches[Head(ended).session]
<1>1. /\ ended \in Seq(PendingMessage) /\ ended # <<>> /\ Head(ended) \in PendingMessage
      /\ ended' = Tail(ended) /\ Head(ended) = ended[1] /\ Len(ended) \in Nat \ {0}
  BY HeadTailProperties, EmptySeq, LenProperties DEF Publish, HostTypes, HostTypeOK, RuntimeTypeOK
<1>2. /\ Len(ended') = Len(ended) - 1
      /\ \A i \in 1..Len(ended') : ended'[i] = ended[i + 1] /\ i + 1 \in 1..Len(ended)
  BY <1>1, HeadTailProperties
<1>3. UNCHANGED <<branches, generation, minted>>
  BY DEF Publish, sessionVars
<1>4. rt'.pending = rt.pending
  BY DEF Publish, HostTypes, HostTypeOK, RuntimeTypeOK, Runtime
<1>5. PendingMoves
  BY <1>2, <1>4 DEF PendingMoves
<1>6. PICK p : p = Head(ended)
  OBVIOUS
<1>7. p \in PendingMessage /\ Announced(p)
  BY <1>1, <1>6 DEF AnnouncedInv
<1>8. PICK event : event = ToEvent(p.session, p.id, FALSE, p.role, p.group)
  OBVIOUS
<1>9. event \in Event
  BY <1>7, <1>8 DEF ToEvent, Event, PendingMessage, HostTypes, HostTypeOK, SessionTypeOK
<1>10. SendsSound
  <2>1. CASE UNCHANGED toPwa
    BY <2>1 DEF SendsSound
  <2>2. CASE ~UNCHANGED toPwa
    <3>1. /\ MarkerOf(branches[p.session], p.id) # 0
          /\ Target(branches[p.session], MarkerOf(branches[p.session], p.id), p.role) # 0
          /\ \E frames \in IF binding = None THEN {<<>>} ELSE PublishFrames(binding, event) :
               Confirm(p.corr, "committed", p.id, frames, <<>>)
      BY <1>6, <1>8, <2>2 DEF Publish
    <3>2. Sound(event)
      BY <1>7, <1>8, <3>1, PublishedIsSound
    <3>3. PICK frames \in IF binding = None THEN {<<>>} ELSE PublishFrames(binding, event) :
            Confirm(p.corr, "committed", p.id, frames, <<>>)
      BY <3>1
    <3> DEFINE none == <<>>
    <3>4. none \in Seq(ServerFrame) /\ Len(none) = 0
      OBVIOUS
    <3>5. frames \in Seq(ServerFrame) /\ CarriedBy(frames) \subseteq {event}
      <4>1. CASE binding = None
        BY <3>3, <3>4, <4>1 DEF CarriedBy
      <4>2. CASE binding # None
        BY <1>9, <3>3, <4>2, BindingTyped, PublishFramesTyped, PublishFramesCarry DEF Serviceable
      <4> QED
        BY <4>1, <4>2
    <3>6. Confirm(p.corr, "committed", p.id, frames, none) /\ p.corr \in Optional(Correlation)
          /\ p.id \in Nat
      BY <1>7, <3>3 DEF PendingMessage
    <3> HIDE DEF none
    <3>7. CarriedBy(none) = {}
      BY <3>4 DEF CarriedBy
    <3>8. CarriedBy(toPwa') \subseteq CarriedBy(toPwa) \cup CarriedBy(frames)
      BY <3>4, <3>5, <3>6, <3>7, ConfirmCarries
    <3>9. event.gen \in Nat
      BY <1>9 DEF Event
    <3> QED
      BY <3>2, <3>5, <3>8, <3>9 DEF SendsSound
  <2> QED
    BY <2>1, <2>2
<1> QED
  BY <1>3, <1>5, <1>10, SoundSends

(* What is recovered of a session's branch, or of one it has grown from.   *)
LEMMA RecoveredIsSound ==
  ASSUME HostTypes, NEW session \in 1..Len(branches), NEW p \in Seq(Entry),
         GrownFrom(p, branches[session]), NEW r \in Recovered(session, p)
  PROVE  Sound(r.event) /\ r.event.gen \in Nat
<1>1. r.event.session = session /\ r.event.gen = generation
  BY DEF Recovered, ToEvent
<1>2. generation \in Nat /\ \A n \in Nat : n <= n
  BY DEF HostTypes, HostTypeOK, SessionTypeOK
<1>3. r \in Recovered(session, branches[session])
  BY CurrentIs, RecoveredStays
<1>4. session = Current => r \in History
  BY <1>3 DEF History
<1> QED
  BY <1>1, <1>2, <1>4 DEF Sound

LEMMA ChunksCarry ==
  ASSUME NEW b \in Service, NEW rid \in Nat, NEW payloads \in Seq(Payload),
         NEW next \in Optional(Nat), NEW es, \A i \in 1..Len(payloads) : Carries(payloads[i], es)
  PROVE  CarriedBy(Chunks(b, rid, payloads, next)) \subseteq es
<1> DEFINE frames == Chunks(b, rid, payloads, next)
<1>1. /\ frames \in Seq(Chunk) /\ DOMAIN frames = 1..Len(frames)
      /\ Len(frames) \in Nat /\ DOMAIN payloads = 1..Len(payloads)
  BY ChunksTyped, LenProperties
<1>2. /\ DOMAIN frames = DOMAIN payloads
      /\ \A i \in DOMAIN payloads : /\ frames[i].type = "chunk"
                                    /\ frames[i].events = payloads[i].events
                                    /\ frames[i].fragments = payloads[i].fragments
  BY DEF Chunks
<1> HIDE DEF frames
<1>3. ASSUME NEW i \in 1..Len(frames)
      PROVE  Carried(frames[i]) \subseteq es
  BY <1>1, <1>2 DEF Carried, Carries
<1>4. CarriedBy(frames) \subseteq es
  BY <1>3 DEF CarriedBy
<1> QED
  BY <1>4 DEF frames

LEMMA PageSends ==
  ASSUME HostTypes, NEW b, Serviceable(b), NEW rid \in Nat, NEW prefix \in Seq(Entry),
         GrownFrom(prefix, branches[b.session]), NEW position \in Nat,
         Page(b, rid, prefix, position)
  PROVE  SendsSound
<1> DEFINE records == {r \in Recovered(b.session, prefix) : r.at <= position}
           window == SelectWindow(records)
           older == \E r \in records : r.at < window.start
           id == Cardinality(b.cursors) + 1
           next == IF older THEN id ELSE None
           es == {r.event : r \in window.records}
<1>1. /\ b \in Service /\ b.session \in 1..Len(branches) /\ b.session \in Nat
      /\ IsFiniteSet(b.cursors)
  BY DEF Serviceable, Service
<1>2. records \in SUBSET Place /\ \A r \in records : r.at <= position
  BY <1>1, RecoveredTyped DEF HostTypes, HostTypeOK, SessionTypeOK
<1>3. window.records \subseteq records
  <2> HIDE DEF records
  <2> QED
    BY <1>2, WindowIs
<1>4. PICK payloads \in Payloads(window.records) : Post(Chunks(b, rid, payloads, next))
  BY DEF Page
<1>5. next \in Optional(Nat)
  <2>1. id \in Nat
    BY <1>1, FS_CardinalityType
  <2> HIDE DEF older, id
  <2> QED
    BY <2>1 DEF Optional
<1>6. \A e \in es : Sound(e) /\ e.gen \in Nat
  <2>1. \A r \in Recovered(b.session, prefix) : Sound(r.event) /\ r.event.gen \in Nat
    BY <1>1, RecoveredIsSound
  <2>2. \A r \in window.records : r \in Recovered(b.session, prefix)
    BY <1>3
  <2> HIDE DEF window
  <2> QED
    BY <2>1, <2>2
<1>7. payloads \in Seq(Payload) /\ \A i \in 1..Len(payloads) : Carries(payloads[i], es)
  <2>1. window.records \in SUBSET Place
    BY <1>2, <1>3
  <2> HIDE DEF window
  <2> QED
    BY <2>1, PayloadsCarry
<1> HIDE DEF next, es, window
<1> DEFINE frames == Chunks(b, rid, payloads, next)
<1>8. CarriedBy(frames) \subseteq es
  BY <1>1, <1>5, <1>7, ChunksCarry
<1>9. frames \in Seq(ServerFrame)
  BY <1>1, <1>5, <1>7, ChunksTyped, SeqMonotonic DEF ServerFrame
<1>10. Post(frames)
  BY <1>4
<1> HIDE DEF frames
<1> QED
  BY <1>6, <1>8, <1>9, <1>10, PostCarries DEF SendsSound


LEMMA QuietSends ==
  ASSUME CarriedBy(toPwa') \subseteq CarriedBy(toPwa)
  PROVE  SendsSound
  BY DEF SendsSound

LEMMA SyncSends ==
  ASSUME HostTypes, NEW b, Serviceable(b), NEW f \in ClientFrame, f.type = "sync", Sync(b, f)
  PROVE  SendsSound
<1> DEFINE branch == branches[b.session]
           known == {c \in b.cursors : c.id = f.before}
           c == CHOOSE x \in known : TRUE
           turned == {[x EXCEPT !.used = TRUE] : x \in known}
           spent == [b EXCEPT !.cursors = (b.cursors \ known) \cup turned]
<1>1. b \in Service /\ b.session \in Nat /\ b.cursors \in SUBSET Cursor /\ IsFiniteSet(b.cursors)
  BY DEF Serviceable, Service
<1>2. branch \in Seq(Entry) /\ Len(branch) \in Nat
  BY CurrentIs, LenProperties DEF Serviceable
<1>3. f.rid \in Nat
  BY ClientFields
<1>4. CASE f.before = None
  <2>1. Page(b, f.rid, branch, Len(branch))
    BY <1>4 DEF Sync
  <2>2. GrownFrom(branch, branch)
    BY <1>2 DEF GrownFrom
  <2> HIDE DEF branch
  <2> QED
    BY <1>2, <1>3, <2>1, <2>2, PageSends DEF branch
<1>5. CASE f.before # None /\ (known = {} \/ c.used \/ ~SnapshotValid(c, branch))
  <2>1. Post(<<ResetFrame(b)>>)
    BY <1>5 DEF Sync
  <2>2. Wordless(ResetFrame(b))
    BY DEF Wordless, ResetFrame
  <2> QED
    BY <2>1, <2>2, PostWord, ResetTyped, QuietSends
<1>6. CASE f.before # None /\ ~(known = {} \/ c.used \/ ~SnapshotValid(c, branch))
  <2>1. Page(spent, f.rid, c.prefix, c.position) /\ SnapshotValid(c, branch)
    BY <1>6 DEF Sync
  <2>2. c \in Cursor
    BY <1>1, <1>6
  <2>3. c.prefix \in Seq(Entry) /\ c.position \in Nat
    BY <2>2 DEF Cursor
  <2>4. GrownFrom(c.prefix, branch)
    <3> HIDE DEF c, branch
    <3> QED
      BY <1>2, <2>1, <2>3, PrefixGrows DEF SnapshotValid
  <2>5. Serviceable(spent) /\ spent.session = b.session
    <3>1. turned \in SUBSET Cursor
      BY <1>1 DEF Cursor
    <3>2. IsFiniteSet(turned)
      <4> DEFINE h == [x \in known |-> [x EXCEPT !.used = TRUE]]
      <4>1. IsFiniteSet(known)
        BY <1>1, FS_Subset
      <4>2. h \in [known -> turned] /\ \A y \in turned : \E x \in known : h[x] = y
        OBVIOUS
      <4>3. h \in Surjection(known, turned)
        BY <4>2 DEF Surjection
      <4> QED
        BY <4>1, <4>3, FS_Surjection
    <3>3. IsFiniteSet((b.cursors \ known) \cup turned)
      BY <1>1, <3>2, FS_Subset, FS_Union
    <3>4. (b.cursors \ known) \cup turned \in SUBSET Cursor
      BY <1>1, <3>1
    <3> HIDE DEF known, turned
    <3>5. spent \in Service
      BY <1>1, <3>4 DEF Service
    <3> QED
      BY <1>1, <3>3, <3>5 DEF Serviceable, Service
  <2> HIDE DEF spent, c
  <2> QED
    BY <1>3, <2>1, <2>3, <2>4, <2>5, PageSends
<1> QED
  BY <1>4, <1>5, <1>6

LEMMA ServeSends ==
  ASSUME HostTypes, NEW b, Serviceable(b), NEW f \in ClientFrame, Serve(b, f)
  PROVE  SendsSound
<1>1. /\ b \in Service /\ b.session \in Nat /\ b.gen \in Nat /\ b.records \in Seq(Record)
      /\ f.rid \in Nat /\ (f.type \in {"user", "observed"} => f.req \in Requests)
  BY ClientFields DEF Serviceable, Service
<1>2. ASSUME NEW frame \in ServerFrame, Wordless(frame), Post(<<frame>>)
      PROVE  SendsSound
  BY <1>2, PostWord, QuietSends
<1>3. \A r \in Requests, mid \in Nat,
         status \in {"received", "accepted", "committed", "unknown_delivery"} :
        /\ StatusFrame(b, r, status, mid) \in ServerFrame
        /\ Wordless(StatusFrame(b, r, status, mid))
  BY <1>1, StatusTyped DEF StatusFrame, Wordless
<1>4. \A rid \in Nat : /\ [type |-> "error", rid |-> rid] \in ServerFrame
                       /\ Wordless([type |-> "error", rid |-> rid])
  BY DEF ServerFrame, Wordless
<1>5. CASE f.type = "hello" /\ Hello(b, f)
  <2> DEFINE frame == [type |-> "ready", session |-> b.session, gen |-> b.gen, rid |-> f.rid]
  <2>1. frame \in ServerFrame /\ Wordless(frame) /\ Post(<<frame>>)
    BY <1>1, <1>5 DEF Hello, ServerFrame, Wordless
  <2> HIDE DEF frame
  <2> QED
    BY <1>2, <2>1
<1>6. CASE Refuse(b, f)
  <2> DEFINE frame == IF b.ready THEN ResetFrame(b) ELSE [type |-> "error", rid |-> f.rid]
  <2>1. frame \in ServerFrame /\ Wordless(frame)
    BY <1>1, <1>4, ResetTyped DEF ResetFrame, Wordless
  <2>2. Post(<<frame>>)
    BY <1>6 DEF Refuse
  <2> HIDE DEF frame
  <2> QED
    BY <1>2, <2>1, <2>2
<1>7. CASE f.type = "sync" /\ Sync(b, f)
  BY <1>7, SyncSends
<1>8. CASE f.type = "observed" /\ Observe(b, f)
  <2>1. CASE UNCHANGED toPwa
    BY <2>1, QuietSends
  <2>2. CASE ~UNCHANGED toPwa
    BY <1>2, <1>4, <1>8, <2>2 DEF Observe
  <2> QED
    BY <2>1, <2>2
<1>9. CASE f.type = "user" /\ Deliver(b, f)
  <2>1. Post(<<StatusFrame(b, f.req, "received", 0)>>)
        \/ Post(<<StatusFrame(b, f.req, "unknown_delivery", 0)>>)
    BY <1>9 DEF Deliver
  <2> QED
    BY <1>1, <1>2, <1>3, <1>9, <2>1
<1>10. CASE f.type = "user" /\ IsReplay(b, f.req) /\ Replay(b, f.req)
  <2> DEFINE rec == b.records[Recorded(b.records, f.req)]
             mid == IF rec.status \in {"accepted", "committed"} THEN rec.mid ELSE 0
  <2>1. rec \in Record
    BY <1>1, <1>10, RecordedIs, ElementOfSeq DEF IsReplay
  <2>2. /\ mid \in Nat
        /\ rec.status \in {"received", "accepted", "committed", "unknown_delivery"}
    BY <2>1 DEF Record
  <2>3. Post(<<StatusFrame(b, f.req, rec.status, mid)>>)
    BY <1>10 DEF Replay
  <2> HIDE DEF rec, mid
  <2> QED
    BY <1>1, <1>2, <1>3, <1>10, <2>2, <2>3
<1> QED
  BY <1>5, <1>6, <1>7, <1>8, <1>9, <1>10, ServeCases

LEMMA ReceivesSends ==
  ASSUME HostTypes, HostTypes', AnnouncedInv, HostReceives
  PROVE  HostSends
<1>1. UNCHANGED <<branches, generation, minted, ended>>
  BY ReceivesCases DEF sessionVars
<1>2. CASE UNCHANGED <<inbox, rt, strayed, serviceVars, toPwa, left>>
  BY <1>1, <1>2, RuntimeRests, QuietSends, SoundSends
<1>3. CASE Serve(Server, Head(toHost))
  <2>1. PICK f \in ClientFrame : f = Head(toHost)
    BY ReceivesCases
  <2>2. PICK b : b = Server
    OBVIOUS
  <2>3. Serviceable(b) /\ Serve(b, f)
    BY <1>3, <2>1, <2>2, ServerTyped
  <2>4. SendsSound
    BY <2>3, ServeSends
  <2>5. rt'.pending = rt.pending \/ rt'.pending = None
    <3>1. rt' = EnsureTimeline \/ (f.type = "sync" /\ Sync(b, f))
      BY <2>3, ServeCases
    <3>2. rt' = rt \/ rt' = Attached(rt, Current) \/ rt' = Attached(rt, b.session)
      BY <2>3, <3>1, SyncTyped DEF EnsureTimeline
    <3> QED
      BY <3>2 DEF Attached, Reset
  <2> QED
    BY <1>1, <2>4, <2>5, SoundSends DEF PendingMoves
<1> QED
  BY <1>2, <1>3, ReceivesCases

LEMMA HostNextSends ==
  ASSUME HostTypes, HostTypes', AnnouncedInv, HostNext
  PROVE  HostSends
  BY MessagesSend, EndMessageSends, WriteEntrySends, OthersSend, StartSessionSends,
     MoveInTreeSends, PublishSends, ReceivesSends DEF HostNext


-----------------------------------------------------------------------------
(* The page makes no event: whatever holds what is under way and kept holds*)
(* it after every step of the page, and what is shown is of the scope.     *)

HeldIn(K) ==
  /\ events \subseteq K /\ journal \subseteq K /\ store \subseteq K
  /\ \A p \in parts : p.event \in K
  /\ \A i \in 1..Len(idb) : idb[i].events \subseteq K
  /\ assembler # None => \A c \in assembler.chunks : Carried(c) \subseteq K
  /\ \A i \in 1..Len(toPwa) : Carried(toPwa[i]) \subseteq K

Holds(K) == HeldIn(K) /\ ShownInScope

LEMMA HeldInAll ==
  ASSUME NEW K
  PROVE  HeldIn(K) <=> CarriedBy(toPwa) \cup Held \subseteq K
<1>1. CarriedBy(toPwa) \subseteq K <=> \A i \in 1..Len(toPwa) : Carried(toPwa[i]) \subseteq K
  BY DEF CarriedBy
<1>2. UNION {idb[i].events : i \in 1..Len(idb)} \subseteq K
        <=> \A i \in 1..Len(idb) : idb[i].events \subseteq K
  OBVIOUS
<1>3. {p.event : p \in parts} \subseteq K <=> \A p \in parts : p.event \in K
  OBVIOUS
<1>4. (IF assembler = None THEN {} ELSE UNION {Carried(c) : c \in assembler.chunks}) \subseteq K
        <=> (assembler # None => \A c \in assembler.chunks : Carried(c) \subseteq K)
  OBVIOUS
<1>5. Held \subseteq K <=>
        /\ events \subseteq K /\ journal \subseteq K /\ store \subseteq K
        /\ {p.event : p \in parts} \subseteq K
        /\ UNION {idb[i].events : i \in 1..Len(idb)} \subseteq K
        /\ (IF assembler = None THEN {} ELSE UNION {Carried(c) : c \in assembler.chunks}) \subseteq K
  BY DEF Held
<1> QED
  BY <1>1, <1>2, <1>3, <1>4, <1>5 DEF HeldIn

LEMMA PageKeepsHistory ==
  ASSUME SessionTypes, HistoryInv, UNCHANGED hostSide,
         \A K : Holds(K) => Holds(K)'
  PROVE  HistoryInv'
<1>1. UNCHANGED <<branches, generation, minted, rt, ended>>
  BY DEF hostSide, sessionVars, runtimeVars
<1>2. PICK K : K = CarriedBy(toPwa) \cup Held
  OBVIOUS
<1>3. Holds(K)
  BY <1>2, HeldInAll DEF Holds, HistoryInv
<1>4. Holds(K)'
  BY <1>3
<1>5. \A e \in (CarriedBy(toPwa) \cup Held)' : e \in K
  <2>1. CarriedBy(toPwa)' \subseteq K
    BY <1>4 DEF Holds, HeldIn, CarriedBy
  <2>2. UNION {idb'[i].events : i \in 1..Len(idb')} \subseteq K
    BY <1>4 DEF Holds, HeldIn
  <2>3. (IF assembler' = None THEN {} ELSE UNION {Carried(c) : c \in assembler'.chunks}) \subseteq K
    BY <1>4 DEF Holds, HeldIn
  <2>4. {p.event : p \in parts'} \subseteq K /\ events' \subseteq K /\ journal' \subseteq K
        /\ store' \subseteq K
    BY <1>4 DEF Holds, HeldIn
  <2>5. Held' \subseteq K
    BY <2>2, <2>3, <2>4 DEF Held
  <2> QED
    BY <2>1, <2>5
<1>6. \A e \in K : Sound(e)'
  <2>1. \A s, b : Recovered(s, b)' = Recovered(s, b)
    BY <1>1, RecoveredSame
  <2>2. History' = History
    <3>1. PICK s : s = Current
      OBVIOUS
    <3>2. PICK b : b = branches[Current]
      OBVIOUS
    <3>3. History' = Recovered(s, b)' /\ History = Recovered(s, b)
      BY <1>1, <3>1, <3>2 DEF History, Current
    <3> QED
      BY <2>1, <3>3
  <2> QED
    BY <1>1, <1>2, <2>2 DEF HistoryInv, Sound, Current
<1>7. AnnouncedInv'
  BY <1>1 DEF HistoryInv, AnnouncedInv, Announced, Markers
<1> QED
  BY <1>4, <1>5, <1>6, <1>7 DEF HistoryInv, Holds

LEMMA SuffixCarries ==
  ASSUME NEW K, NEW S, NEW s \in Seq(S), \A i \in 1..Len(s) : Carried(s[i]) \subseteq K,
         NEW t \in Suffixes(s)
  PROVE  t \in Seq(S) /\ \A i \in 1..Len(t) : Carried(t[i]) \subseteq K
<1>1. Len(s) \in Nat
  BY LenProperties
<1>2. PICK k \in 0..Len(s) : Len(t) = Len(s) - k /\ \A i \in 1..Len(t) : t[i] = s[i + k]
  BY SuffixIs
<1>3. \A i \in 1..Len(t) : i + k \in 1..Len(s)
  BY <1>1, <1>2
<1> QED
  BY <1>2, <1>3, SuffixIs

LEMMA TailCarries ==
  ASSUME NEW K, NEW S, NEW s \in Seq(S), s # <<>>, \A i \in 1..Len(s) : Carried(s[i]) \subseteq K
  PROVE  /\ Tail(s) \in Seq(S) /\ Carried(Head(s)) \subseteq K
         /\ \A i \in 1..Len(Tail(s)) : Carried(Tail(s)[i]) \subseteq K
<1>1. /\ Len(s) \in Nat \ {0} /\ Head(s) = s[1] /\ Tail(s) \in Seq(S)
      /\ Len(Tail(s)) = Len(s) - 1 /\ \A i \in 1..Len(Tail(s)) : Tail(s)[i] = s[i + 1]
  BY HeadTailProperties, LenProperties, EmptySeq
<1>2. \A i \in 1..Len(Tail(s)) : i + 1 \in 1..Len(s)
  BY <1>1
<1> QED
  BY <1>1, <1>2

(* A step that leaves the events of the page where they are.               *)
LEMMA EventsStay ==
  ASSUME SessionTypes, NEW K, Holds(K), UNCHANGED <<scope, events, transferVars, storeVars>>,
         \A i \in 1..Len(toPwa') : Carried(toPwa'[i]) \subseteq K
  PROVE  Holds(K)'
  BY DEF Holds, HeldIn, ShownInScope, InScope, transferVars, storeVars

LEMMA RejoinHolds ==
  ASSUME SessionTypes, NEW K, Holds(K), NEW sc \in {None, scope}, NEW coming \in Seq(ServerFrame),
         \A i \in 1..Len(coming) : Carried(coming[i]) \subseteq K, Rejoin(sc, coming)
  PROVE  Holds(K)'
<1>1. \A i \in 1..Len(toPwa') : Carried(toPwa'[i]) \subseteq K
  <2>1. PICK t \in Suffixes(coming) : t = toPwa'
    BY DEF Rejoin
  <2> QED
    BY <2>1, SuffixCarries
<1>2. journal' = {} /\ assembler' = None /\ parts' = {} /\ UNCHANGED <<store, idb>>
  BY DEF Rejoin, ClearTransfer, storeVars
<1>3. scope' = sc /\ events' = IF sc = None THEN {} ELSE events
  BY DEF Rejoin
<1> QED
  BY <1>1, <1>2, <1>3 DEF Holds, HeldIn, ShownInScope, InScope

LEMMA LinkHolds ==
  ASSUME SessionTypes, NEW K, Holds(K), Connect \/ LoseLink \/ RetryCurrentSession
  PROVE  Holds(K)'
<1>1. toPwa \in Seq(ServerFrame)
  BY DEF SessionTypes, HostTypes, HostTypeOK, NetTypeOK
<1>2. CASE Connect
  BY <1>2, EventsStay DEF Connect, viewVars, Holds, HeldIn
<1>3. CASE LoseLink
  <2>1. /\ journal' = {} /\ assembler' = None /\ parts' = {}
        /\ UNCHANGED <<scope, events, store, idb>> /\ toPwa' = <<>>
    BY <1>3 DEF LoseLink, ClearTransfer, storeVars
  <2>2. Len(toPwa') = 0
    BY <2>1
  <2> QED
    BY <2>1, <2>2 DEF Holds, HeldIn, ShownInScope, InScope
<1>4. CASE RetryCurrentSession
  BY <1>1, <1>4, RejoinHolds DEF RetryCurrentSession, Holds, HeldIn
<1> QED
  BY <1>2, <1>3, <1>4

LEMMA UserHolds ==
  ASSUME SessionTypes, NEW K, Holds(K),
         LoadEarlier \/ \E r \in Requests : SendMessage(r) \/ RetryUnknown(r)
  PROVE  Holds(K)'
<1>1. CASE LoadEarlier
  <2>1. /\ assembler'.chunks = {}
        /\ UNCHANGED <<toPwa, scope, events, journal, parts, store, idb>>
    BY <1>1 DEF LoadEarlier, NewAssembler, viewVars, storeVars
  <2> QED
    BY <2>1 DEF Holds, HeldIn, ShownInScope, InScope
<1>2. ASSUME NEW r \in Requests, Pends(r)
      PROVE  Holds(K)'
  BY <1>2, EventsStay DEF Pends, Holds, HeldIn
<1> QED
  BY <1>1, <1>2 DEF SendMessage, RetryUnknown

(* What is shown after a commit or a replacement comes from what is given. *)
LEMMA ShownHolds ==
  ASSUME SessionTypes, NEW K, Holds(K), NEW new, new \subseteq K,
         Commit(new) \/ ReplaceHistory(new)
  PROVE  events' \subseteq K /\ \A e \in events' : InScope(scope, e)
<1>1. \/ events' = events \cup {e \in new : InScope(scope, e)}
      \/ events' = {e \in new : InScope(scope, e)}
  BY DEF Commit, ReplaceHistory, Reconcile
<1> QED
  BY <1>1 DEF Holds, HeldIn, ShownInScope

LEMMA OpenedHolds ==
  ASSUME SessionTypes, NEW K, Holds(K), NEW op, NEW es, es \subseteq K
  PROVE  \A i \in 1..Len(Opened(op, es)) : Opened(op, es)[i].events \subseteq K
<1> DEFINE x == [op |-> op, scope |-> scope, events |-> Grouped(es)]
           S == Transaction \cup {x}
<1>1. idb \in Seq(Transaction) /\ \A i \in 1..Len(idb) : idb[i].events \subseteq K
  BY DEF SessionTypes, StoreTypeOK, Holds, HeldIn
<1>2. x.events \subseteq K
  BY DEF Grouped
<1>3. Opened(op, es) = Append(idb, x) \/ Opened(op, es) = idb
  BY DEF Opened
<1>4. Transaction \subseteq S /\ x \in S
  OBVIOUS
<1> HIDE DEF x, S
<1>5. idb \in Seq(S)
  BY <1>1, <1>4, SeqMonotonic
<1>6. \A i \in 1..Len(Append(idb, x)) : Append(idb, x)[i].events \subseteq K
  <2>1. /\ Len(idb) \in Nat /\ Len(Append(idb, x)) = Len(idb) + 1
        /\ \A i \in 1..Len(idb) : Append(idb, x)[i] = idb[i]
        /\ Append(idb, x)[Len(idb) + 1] = x
    BY <1>4, <1>5, AppendProperties, LenProperties
  <2> SUFFICES ASSUME NEW i \in 1..Len(Append(idb, x))
               PROVE  Append(idb, x)[i].events \subseteq K
    OBVIOUS
  <2>2. i \in 1..Len(idb) \/ i = Len(idb) + 1
    BY <2>1
  <2> QED
    BY <1>1, <1>2, <2>1, <2>2
<1> QED
  BY <1>1, <1>3, <1>6

(* What the page has after it took a frame.                                *)
Taken(K) ==
  /\ events' \subseteq K /\ journal' \subseteq K /\ store' \subseteq K
  /\ \A p \in parts' : p.event \in K
  /\ \A i \in 1..Len(idb') : idb'[i].events \subseteq K
  /\ assembler' # None => \A c \in assembler'.chunks : Carried(c) \subseteq K
  /\ \A e \in events' : InScope(scope, e)'

LEMMA TakenHolds ==
  ASSUME NEW K, Taken(K), \A i \in 1..Len(toPwa') : Carried(toPwa'[i]) \subseteq K
  PROVE  Holds(K)'
  BY DEF Taken, Holds, HeldIn, ShownInScope

LEMMA NothingTaken ==
  ASSUME NEW K, Holds(K), UNCHANGED <<scope, events, transferVars, storeVars>>
  PROVE  Taken(K)
  BY DEF Taken, Holds, HeldIn, ShownInScope, InScope, transferVars, storeVars

LEMMA EventTaken ==
  ASSUME SessionTypes, NEW K, Holds(K), NEW f \in ServerFrame, f.type = "event",
         Carried(f) \subseteq K, ReceiveEvent(f)
  PROVE  Taken(K)
<1> DEFINE e == f.event
<1>1. {e} \subseteq K
  BY DEF Carried
<1>2. UNCHANGED <<scope, assembler, parts, store>>
  BY DEF ReceiveEvent
<1>3. events' \subseteq K /\ \A x \in events' : InScope(scope, x)
  <2>1. CASE InScope(scope, f)
    <3>1. Commit({e})
      BY <2>1 DEF ReceiveEvent
    <3> HIDE DEF e
    <3> QED
      BY <1>1, <3>1, ShownHolds
  <2>2. CASE ~InScope(scope, f)
    BY <2>2 DEF ReceiveEvent, Holds, HeldIn, ShownInScope
  <2> QED
    BY <2>1, <2>2
<1>4. journal' \subseteq K /\ \A i \in 1..Len(idb') : idb'[i].events \subseteq K
  <2>1. CASE scope = None
    BY <2>1 DEF ReceiveEvent, Holds, HeldIn
  <2>2. CASE scope # None
    <3>1. journal' = journal \cup {e} /\ idb' = Opened("commit", {e})
      BY <2>2 DEF ReceiveEvent, Journal
    <3> HIDE DEF e
    <3> QED
      BY <1>1, <3>1, OpenedHolds DEF Holds, HeldIn
  <2> QED
    BY <2>1, <2>2
<1> QED
  BY <1>2, <1>3, <1>4 DEF Taken, Holds, HeldIn, InScope

LEMMA FragmentTaken ==
  ASSUME SessionTypes, NEW K, Holds(K), NEW f \in ServerFrame, f.type = "fragment",
         Carried(f) \subseteq K, ReceiveFragment(f)
  PROVE  Taken(K)
<1> DEFINE e == f.part.event
<1>1. {e} \subseteq K
  BY DEF Carried
<1>2. UNCHANGED <<scope, assembler, store>> /\ parts' \subseteq parts \cup {f.part}
  BY DEF ReceiveFragment, PartsOf
<1>3. \A p \in parts' : p.event \in K
  BY <1>1, <1>2 DEF Holds, HeldIn
<1>4. \/ Journal(e) /\ Commit({e})
      \/ UNCHANGED <<journal, idb, events>>
  BY DEF ReceiveFragment
<1>5. /\ events' \subseteq K /\ \A x \in events' : InScope(scope, x)
      /\ journal' \subseteq K /\ \A i \in 1..Len(idb') : idb'[i].events \subseteq K
  <2>1. CASE Journal(e) /\ Commit({e})
    <3>1. journal' = journal \cup {e} /\ idb' = Opened("commit", {e}) /\ Commit({e})
      BY <2>1 DEF Journal
    <3> HIDE DEF e
    <3>2. events' \subseteq K /\ \A x \in events' : InScope(scope, x)
      BY <1>1, <3>1, ShownHolds
    <3>3. \A i \in 1..Len(idb') : idb'[i].events \subseteq K
      BY <1>1, <3>1, OpenedHolds
    <3> QED
      BY <1>1, <3>1, <3>2, <3>3 DEF Holds, HeldIn
  <2>2. CASE UNCHANGED <<journal, idb, events>>
    BY <2>2 DEF Holds, HeldIn, ShownInScope
  <2> QED
    BY <1>4, <2>1, <2>2
<1> QED
  BY <1>2, <1>3, <1>5 DEF Taken, Holds, HeldIn, InScope

LEMMA ChunkTaken ==
  ASSUME SessionTypes, NEW K, Holds(K), NEW f \in ServerFrame, f.type = "chunk",
         assembler # None, Carried(f) \subseteq K, ReceiveChunk(f)
  PROVE  Taken(K)
<1>1. UNCHANGED <<scope, parts, store>>
  BY DEF ReceiveChunk
<1>2. PICK chunks : chunks = assembler.chunks \cup {f}
  OBVIOUS
<1>3. assembler \in Assembler /\ chunks \in SUBSET Chunk
  BY <1>2, ServerFields DEF SessionTypes, TransferTypeOK, Optional, Assembler
<1>4. \A c \in chunks : Carried(c) \subseteq K
  BY <1>2 DEF Holds, HeldIn
<1>5. CASE Accepts(assembler.chunks, f) /\ IsComplete(chunks)
  <2>1. assembler' = None /\ Completed(Assembled(chunks))
    BY <1>2, <1>5 DEF ReceiveChunk, Completed
  <2>2. PICK page : page = Assembled(chunks)
    OBVIOUS
  <2>3. page \subseteq K
    <3> SUFFICES ASSUME NEW e \in Assembled(chunks)
                 PROVE  e \in K
      BY <2>2
    <3>1. PICK c \in chunks : e \in c.events \/ \E p \in c.fragments : p.event = e
      BY AssembledAre
    <3>2. c.type = "chunk"
      BY <1>3 DEF Chunk
    <3>3. e \in Carried(c)
      BY <3>1, <3>2 DEF Carried
    <3> QED
      BY <1>4, <3>3
  <2>4. page \cup journal \subseteq K
    BY <2>3 DEF Holds, HeldIn
  <2>5. CASE assembler.older
    <3>1. Commit(page) /\ UNCHANGED <<journal, idb>>
      BY <2>1, <2>2, <2>5 DEF Completed
    <3>2. events' \subseteq K /\ \A x \in events' : InScope(scope, x)
      BY <2>3, <3>1, ShownHolds
    <3> QED
      BY <1>1, <2>1, <3>1, <3>2 DEF Taken, Holds, HeldIn, InScope
  <2>6. CASE ~assembler.older
    <3>1. /\ ReplaceHistory(page \cup journal) /\ idb' = Opened("replace", page \cup journal)
          /\ journal' = {}
      BY <2>1, <2>2, <2>6 DEF Completed
    <3>2. PICK new : new = page \cup journal
      OBVIOUS
    <3>3. events' \subseteq K /\ \A x \in events' : InScope(scope, x)
      BY <2>4, <3>1, <3>2, ShownHolds
    <3>4. \A i \in 1..Len(idb') : idb'[i].events \subseteq K
      BY <2>4, <3>1, <3>2, OpenedHolds
    <3> QED
      BY <1>1, <2>1, <3>1, <3>3, <3>4 DEF Taken, Holds, HeldIn, InScope
  <2> QED
    BY <2>5, <2>6
<1>6. CASE ~(Accepts(assembler.chunks, f) /\ IsComplete(chunks))
  <2>1. \/ assembler' = Discarded(assembler)
        \/ assembler' = [assembler EXCEPT !.chunks = chunks]
    BY <1>2, <1>6 DEF ReceiveChunk
  <2>2. UNCHANGED <<events, journal, idb>>
    BY <1>2, <1>6 DEF ReceiveChunk
  <2>3. assembler'.chunks = {} \/ assembler'.chunks = chunks
    BY <1>3, <2>1 DEF Discarded, Assembler
  <2> QED
    BY <1>1, <1>4, <2>2, <2>3 DEF Taken, Holds, HeldIn, ShownInScope, InScope
<1> QED
  BY <1>5, <1>6

LEMMA ScopeTaken ==
  ASSUME SessionTypes, NEW K, Holds(K), NEW f, EnterScope(f)
  PROVE  Taken(K)
<1> DEFINE sc == [session |-> f.session, gen |-> f.gen]
<1>1. /\ assembler'.chunks = {} /\ parts' = {} /\ UNCHANGED <<journal, store>>
  BY DEF EnterScope, NewAssembler
<1>2. UNCHANGED <<scope, events>> \/ events' = {}
  BY DEF EnterScope, SetScope
<1>3. events' \subseteq K /\ \A e \in events' : InScope(scope, e)'
  BY <1>2 DEF Holds, HeldIn, ShownInScope, InScope
<1>4. \A i \in 1..Len(idb') : idb'[i].events \subseteq K
  <2> DEFINE x == [op |-> "read", scope |-> sc, events |-> {}]
             S == Transaction \cup {x}
  <2>1. idb' = Append(idb, x) /\ x.events = {}
    BY DEF EnterScope
  <2>2. Transaction \subseteq S /\ x \in S /\ idb \in Seq(Transaction)
    BY DEF SessionTypes, StoreTypeOK
  <2> HIDE DEF x, S
  <2>3. idb \in Seq(S)
    BY <2>2, SeqMonotonic
  <2>4. /\ Len(idb) \in Nat /\ Len(idb') = Len(idb) + 1
        /\ \A i \in 1..Len(idb) : idb'[i] = idb[i]
        /\ idb'[Len(idb) + 1] = x
    BY <2>1, <2>2, <2>3, AppendProperties, LenProperties
  <2> SUFFICES ASSUME NEW i \in 1..Len(idb')
               PROVE  idb'[i].events \subseteq K
    OBVIOUS
  <2>5. i \in 1..Len(idb) \/ i = Len(idb) + 1
    BY <2>4
  <2> QED
    BY <2>1, <2>4, <2>5 DEF Holds, HeldIn
<1> QED
  BY <1>1, <1>3, <1>4 DEF Taken, Holds, HeldIn

(* A status, an error and a partial bring no event.                        *)
LEMMA WordTaken ==
  ASSUME NEW K, Holds(K), NEW f, ReceiveStatus(f) \/ ReceiveError(f) \/ ReceivePartial(f),
         UNCHANGED <<linkVars, scope, spoiled, transferVars, storeVars>>
  PROVE  Taken(K)
<1>1. UNCHANGED events
  BY DEF ReceiveStatus, ReceiveError, ReceivePartial, Reconcile
<1> QED
  BY <1>1, NothingTaken

LEMMA TakeTaken ==
  ASSUME SessionTypes, NEW K, Holds(K), NEW f \in ServerFrame, Carried(f) \subseteq K,
         Expected(f), Take(f)
  PROVE  Taken(K)
<1>1. CASE f.type = "ready" /\ EnterScope(f)
  BY <1>1, ScopeTaken
<1>2. CASE f.type = "event" /\ ReceiveEvent(f)
  BY <1>2, EventTaken
<1>3. CASE f.type = "fragment" /\ ReceiveFragment(f)
  BY <1>3, FragmentTaken
<1>4. CASE f.type = "chunk" /\ ReceiveChunk(f)
  <2>1. assembler # None
    BY <1>4 DEF Expected
  <2> QED
    BY <1>4, <2>1, ChunkTaken
<1>5. CASE /\ ReceiveStatus(f) \/ ReceiveError(f) \/ ReceivePartial(f)
           /\ UNCHANGED <<linkVars, scope, spoiled, transferVars, storeVars>>
  BY <1>5, WordTaken
<1> QED
  BY <1>1, <1>2, <1>3, <1>4, <1>5 DEF Take

LEMMA PwaReceivesHolds ==
  ASSUME SessionTypes, NEW K, Holds(K), PwaReceives
  PROVE  Holds(K)'
<1>1. /\ toPwa \in Seq(ServerFrame) /\ toPwa # <<>>
      /\ \A i \in 1..Len(toPwa) : Carried(toPwa[i]) \subseteq K
  BY DEF PwaReceives, SessionTypes, HostTypes, HostTypeOK, NetTypeOK, Holds, HeldIn
<1>2. PICK f : f = Head(toPwa)
  OBVIOUS
<1>3. PICK rest : rest = Tail(toPwa)
  OBVIOUS
<1>4. /\ f \in ServerFrame /\ rest \in Seq(ServerFrame) /\ Carried(f) \subseteq K
      /\ \A i \in 1..Len(rest) : Carried(rest[i]) \subseteq K
  BY <1>1, <1>2, <1>3, TailCarries, HeadTailProperties
<1>5. CASE Rejoin(None, rest) \/ Rejoin(scope, rest)
  BY <1>4, <1>5, RejoinHolds
<1>6. CASE toPwa' = rest /\ Expected(f) /\ Take(f)
  BY <1>4, <1>6, TakeTaken, TakenHolds
<1>7. CASE toPwa' = rest /\ UNCHANGED pwaVars
  <2>1. UNCHANGED <<scope, events, transferVars, storeVars>>
    BY <1>7 DEF pwaVars, viewVars
  <2> QED
    BY <1>4, <1>7, <2>1, NothingTaken, TakenHolds
<1> QED
  BY <1>2, <1>3, <1>5, <1>6, <1>7 DEF PwaReceives

LEMMA RunTransactionHolds ==
  ASSUME SessionTypes, NEW K, Holds(K), RunTransaction
  PROVE  Holds(K)'
<1>1. PICK t : t = Head(idb)
  OBVIOUS
<1>2. PICK mine : mine = {e \in store : InScope(t.scope, e)}
  OBVIOUS
<1>3. /\ idb \in Seq(Transaction) /\ idb # <<>> /\ idb' = Tail(idb)
      /\ \A i \in 1..Len(idb) : idb[i].events \subseteq K
  BY DEF RunTransaction, SessionTypes, StoreTypeOK, Holds, HeldIn
<1>4. /\ Len(idb) \in Nat \ {0} /\ t = idb[1] /\ Len(idb') = Len(idb) - 1
      /\ \A i \in 1..Len(idb') : idb'[i] = idb[i + 1]
  BY <1>1, <1>3, HeadTailProperties, LenProperties, EmptySeq
<1>5. t.events \subseteq K /\ \A i \in 1..Len(idb') : idb'[i].events \subseteq K
  <2>1. 1 \in 1..Len(idb) /\ \A i \in 1..Len(idb') : i + 1 \in 1..Len(idb)
    BY <1>4
  <2> QED
    BY <1>3, <1>4, <2>1
<1>6. mine \subseteq K
  BY <1>2 DEF Holds, HeldIn
<1>7. UNCHANGED <<toPwa, scope, transferVars>>
  BY DEF RunTransaction
<1>8. store' \subseteq K
  <2>1. store' = store \/ store' = (store \ mine) \cup Kept(t, mine)
    BY <1>1, <1>2 DEF RunTransaction
  <2> QED
    BY <1>5, <1>6, <2>1, KeptAre DEF Holds, HeldIn
<1>9. events' \subseteq K /\ \A e \in events' : InScope(scope, e)
  <2>1. UNCHANGED events \/ ReplaceHistory(RecentEvents(mine))
    BY <1>1, <1>2 DEF RunTransaction
  <2>2. PICK new : new = RecentEvents(mine)
    OBVIOUS
  <2>3. new \subseteq K
    BY <1>6, <2>2, RecentAre
  <2> QED
    BY <2>1, <2>2, <2>3, ShownHolds DEF Holds, HeldIn, ShownInScope
<1>10. Taken(K)
  BY <1>5, <1>7, <1>8, <1>9 DEF Taken, Holds, HeldIn, InScope, transferVars
<1> QED
  BY <1>7, <1>10, TakenHolds DEF Holds, HeldIn

-----------------------------------------------------------------------------
LEMMA InitHistory ==
  ASSUME Init
  PROVE  HistoryInv
<1>1. /\ branches = <<FirstBranch>> /\ minted = Len(FirstBranch) /\ rt.pending = None
      /\ ended = <<>> /\ toPwa = <<>> /\ idb = <<>> /\ assembler = None
      /\ events = {} /\ journal = {} /\ store = {} /\ parts = {}
  BY DEF Init, HostInit, Reset
<1>2. Len(ended) = 0 /\ Len(toPwa) = 0 /\ Len(idb) = 0
  BY <1>1, EmptySeq
<1>3. ASSUME NEW m \in Markers
      PROVE  m.id <= minted
  <2>1. PICK s \in 1..Len(branches) : \E i \in 1..Len(branches[s]) : m = branches[s][i]
    BY DEF Markers
  <2>2. FirstBranch \in Seq(Entry)
    BY FirstBranchAssumption
  <2>3. Len(branches) = 1 /\ branches[1] = FirstBranch
    BY <1>1
  <2>4. PICK i \in 1..Len(FirstBranch) : m = FirstBranch[i]
    BY <2>1, <2>3
  <2>5. i \in DOMAIN FirstBranch
    BY <2>2, LenProperties
  <2> QED
    BY <1>1, <2>4, <2>5, FirstBranchAssumption
<1>4. AnnouncedInv
  BY <1>1, <1>2, <1>3 DEF AnnouncedInv
<1>5. CarriedBy(toPwa) = {} /\ Held = {}
  BY <1>1, <1>2 DEF CarriedBy, Held
<1> QED
  BY <1>1, <1>4, <1>5 DEF HistoryInv, ShownInScope

LEMMA PageHolds ==
  ASSUME SessionTypes, NEW K, Holds(K),
         \/ Connect \/ LoseLink \/ RetryCurrentSession
         \/ \E r \in Requests : SendMessage(r) \/ RetryUnknown(r)
         \/ LoadEarlier \/ PwaReceives \/ RunTransaction \/ UNCHANGED vars
  PROVE  Holds(K)'
<1>1. CASE UNCHANGED vars
  <2>1. UNCHANGED <<toPwa, scope, events, transferVars, storeVars>>
    BY <1>1 DEF vars, hostVars, netVars, viewVars
  <2> QED
    BY <2>1, EventsStay DEF Holds, HeldIn
<1> QED
  BY <1>1, LinkHolds, UserHolds, PwaReceivesHolds, RunTransactionHolds

LEMMA PageRests ==
  ASSUME \/ Connect \/ LoseLink \/ RetryCurrentSession
         \/ \E r \in Requests : SendMessage(r) \/ RetryUnknown(r)
         \/ LoadEarlier \/ PwaReceives \/ RunTransaction \/ UNCHANGED vars
  PROVE  UNCHANGED hostSide
  BY DEF Connect, LoseLink, RetryCurrentSession, SendMessage, RetryUnknown, Pends, LoadEarlier,
         PwaReceives, RunTransaction, vars, hostVars, hostSide

LEMMA NextHistory ==
  ASSUME SessionTypes, HistoryInv, [Next]_vars
  PROVE  HistoryInv'
<1>1. CASE HostNext /\ UNCHANGED pwaVars
  <2>1. HostTypes /\ HostTypes'
    BY <1>1, HostNextTyped DEF SessionTypes
  <2>2. HostSends
    BY <1>1, <2>1, HostNextSends DEF HistoryInv
  <2> QED
    BY <1>1, <2>1, <2>2, HostKeepsHistory
<1>2. CASE \/ Connect \/ LoseLink \/ RetryCurrentSession
           \/ \E r \in Requests : SendMessage(r) \/ RetryUnknown(r)
           \/ LoadEarlier \/ PwaReceives \/ RunTransaction \/ UNCHANGED vars
  <2>1. UNCHANGED hostSide
    BY <1>2, PageRests
  <2>2. \A K : Holds(K) => Holds(K)'
    BY <1>2, PageHolds
  <2> QED
    BY <2>1, <2>2, PageKeepsHistory
<1> QED
  BY <1>1, <1>2 DEF Next

(* Every event under way to the page, or shown, journalled, cached or part *)
(* of a window there, is one the branch yields, if it is of the host's     *)
(* present generation: the invariant behind ViewIsHistory.                 *)
THEOREM HistoryInvariant == Spec => [](SessionTypes /\ HistoryInv)
<1>1. Init => SessionTypes /\ HistoryInv
  BY InitTyped, InitHistory
<1>2. SessionTypes /\ HistoryInv /\ [Next]_vars => (SessionTypes /\ HistoryInv)'
  BY NextTyped, NextHistory
<1> QED
  BY <1>1, <1>2, PTL DEF Spec

(* What the PWA shows of the host's present generation is what the branch  *)
(* yields when it is read again, whether it came as an event while it      *)
(* happened (timeline/runtime.ts), in a page (timeline/history.ts) or from *)
(* the cache (lib/pwa/timeline-store.ts).                                  *)
THEOREM ViewIsBranch == Spec => []ViewIsHistory
<1>1. SessionTypes /\ HistoryInv => ViewIsHistory
  <2> SUFFICES ASSUME HistoryInv, scope = [session |-> Current, gen |-> generation],
                      NEW e \in events
               PROVE  e \in {r.event : r \in History}
    BY DEF ViewIsHistory
  <2>1. e.session = Current /\ e.gen = generation
    BY DEF HistoryInv, ShownInScope, InScope
  <2>2. Sound(e)
    BY DEF HistoryInv, Held
  <2> QED
    BY <2>1, <2>2 DEF Sound
<1> QED
  BY <1>1, HistoryInvariant, PTL

-----------------------------------------------------------------------------
(* Queues.                                                                 *)

(* r is a stretch of q with some of New after it.                          *)
Goes(q, r, New) ==
  \E d, n \in Nat :
    /\ n <= Len(r)
    /\ \A i \in 1..n : i + d \in 1..Len(q) /\ r[i] = q[i + d]
    /\ \A i \in 1..Len(r) : i > n => r[i] \in New

LEMMA GoesSame ==
  ASSUME NEW S, NEW q \in Seq(S), NEW New
  PROVE  Goes(q, q, New)
<1>1. Len(q) \in Nat
  BY LenProperties
<1>2. \A i \in 1..Len(q) : i + 0 \in 1..Len(q) /\ q[i] = q[i + 0]
  BY <1>1
<1> QED
  BY <1>1, <1>2 DEF Goes

LEMMA GoesTail ==
  ASSUME NEW S, NEW q \in Seq(S), q # <<>>, NEW New
  PROVE  Goes(q, Tail(q), New)
<1>1. /\ Len(q) \in Nat \ {0} /\ Len(Tail(q)) = Len(q) - 1
      /\ \A i \in 1..Len(Tail(q)) : Tail(q)[i] = q[i + 1]
  BY HeadTailProperties, LenProperties, EmptySeq
<1>2. \A i \in 1..Len(Tail(q)) : i + 1 \in 1..Len(q) /\ Tail(q)[i] = q[i + 1]
  BY <1>1
<1>3. Len(Tail(q)) \in Nat /\ \A i \in 1..Len(Tail(q)) : ~(i > Len(Tail(q)))
  BY <1>1
<1>4. 1 \in Nat /\ Len(Tail(q)) <= Len(Tail(q))
  BY <1>3
<1> QED
  BY <1>2, <1>3, <1>4 DEF Goes

LEMMA GoesPrefix ==
  ASSUME NEW S, NEW q \in Seq(S), NEW r \in Prefixes(q), NEW New
  PROVE  r \in Seq(S) /\ Goes(q, r, New)
<1>1. r \in Seq(S) /\ Len(r) <= Len(q) /\ \A i \in 1..Len(r) : r[i] = q[i]
  BY PrefixIs
<1>2. Len(r) \in Nat /\ Len(q) \in Nat
  BY <1>1, LenProperties
<1>3. \A i \in 1..Len(r) : i + 0 \in 1..Len(q) /\ r[i] = q[i + 0]
  BY <1>1, <1>2
<1> QED
  BY <1>1, <1>2, <1>3 DEF Goes

LEMMA GoesSuffix ==
  ASSUME NEW S, NEW q \in Seq(S), NEW r \in Suffixes(q), NEW New
  PROVE  r \in Seq(S) /\ Goes(q, r, New)
<1>1. r \in Seq(S) /\ Len(q) \in Nat
  BY SuffixIs, LenProperties
<1>2. PICK k \in 0..Len(q) : Len(r) = Len(q) - k /\ \A i \in 1..Len(r) : r[i] = q[i + k]
  BY SuffixIs
<1>3. Len(r) \in Nat /\ k \in Nat /\ Len(r) <= Len(r) /\ \A i \in 1..Len(r) : ~(i > Len(r))
  BY <1>1, <1>2, LenProperties
<1>4. \A i \in 1..Len(r) : i + k \in 1..Len(q) /\ r[i] = q[i + k]
  BY <1>1, <1>2
<1> QED
  BY <1>1, <1>3, <1>4 DEF Goes

(* Two sequences one after the other.                                      *)
LEMMA JoinIs ==
  ASSUME NEW S, NEW a \in Seq(S), NEW b \in Seq(S)
  PROVE  /\ a \o b \in Seq(S) /\ Len(a) \in Nat /\ Len(b) \in Nat
         /\ Len(a \o b) = Len(a) + Len(b)
         /\ \A i \in 1..Len(a) : (a \o b)[i] = a[i]
         /\ \A j \in 1..Len(b) : (a \o b)[Len(a) + j] = b[j]
         /\ \A i \in 1..Len(a \o b) : i > Len(a) => \E j \in 1..Len(b) : i = Len(a) + j
<1>1. Len(a) \in Nat /\ Len(b) \in Nat
  BY LenProperties
<1>2. a \o b \in Seq(S) /\ Len(a \o b) = Len(a) + Len(b)
  BY ConcatProperties
<1>3. \A i \in 1..Len(a) + Len(b) :
        (a \o b)[i] = IF i <= Len(a) THEN a[i] ELSE b[i - Len(a)]
  BY ConcatProperties
<1>4. \A i \in 1..Len(a) : (a \o b)[i] = a[i]
  BY <1>1, <1>3
<1>5. \A j \in 1..Len(b) : (a \o b)[Len(a) + j] = b[j]
  <2> SUFFICES ASSUME NEW j \in 1..Len(b)
               PROVE  (a \o b)[Len(a) + j] = b[j]
    OBVIOUS
  <2>1. Len(a) + j \in 1..Len(a) + Len(b) /\ ~(Len(a) + j <= Len(a)) /\ Len(a) + j - Len(a) = j
    BY <1>1
  <2> QED
    BY <1>3, <2>1
<1>6. \A i \in 1..Len(a \o b) : i > Len(a) => \E j \in 1..Len(b) : i = Len(a) + j
  <2> SUFFICES ASSUME NEW i \in 1..Len(a \o b), i > Len(a)
               PROVE  \E j \in 1..Len(b) : i = Len(a) + j
    OBVIOUS
  <2>1. i - Len(a) \in 1..Len(b) /\ i = Len(a) + (i - Len(a))
    BY <1>1, <1>2
  <2> QED
    BY <2>1
<1> QED
  BY <1>1, <1>2, <1>4, <1>5, <1>6

LEMMA GoesFurther ==
  ASSUME NEW S, NEW q \in Seq(S), NEW New \in SUBSET S, NEW new \in Seq(New)
  PROVE  q \o new \in Seq(S) /\ Goes(q, q \o new, New)
<1> DEFINE r == q \o new
<1>1. new \in Seq(S) /\ \A j \in 1..Len(new) : new[j] \in New
  <2>1. new \in Seq(S)
    BY SeqMonotonic
  <2>2. \A j \in 1..Len(new) : new[j] \in New
    BY ElementOfSeq
  <2> QED
    BY <2>1, <2>2
<1>2. /\ r \in Seq(S) /\ Len(q) \in Nat /\ Len(new) \in Nat /\ Len(r) = Len(q) + Len(new)
      /\ \A i \in 1..Len(q) : r[i] = q[i]
      /\ \A j \in 1..Len(new) : r[Len(q) + j] = new[j]
      /\ \A i \in 1..Len(r) : i > Len(q) => \E j \in 1..Len(new) : i = Len(q) + j
  BY <1>1, JoinIs
<1> HIDE DEF r
<1>3. \A i \in 1..Len(q) : i + 0 \in 1..Len(q) /\ r[i] = q[i + 0]
  BY <1>2
<1>4. \A i \in 1..Len(r) : i > Len(q) => r[i] \in New
  BY <1>1, <1>2
<1>5. Len(q) <= Len(r) /\ 0 \in Nat
  BY <1>2
<1>6. Goes(q, r, New)
  BY <1>2, <1>3, <1>4, <1>5 DEF Goes
<1>7. q \o new = r
  BY DEF r
<1> QED
  BY <1>2, <1>6, <1>7


-----------------------------------------------------------------------------
(* What the steps of the host send.                                        *)

Words == {f \in ServerFrame : f.type \notin {"ready", "event", "fragment", "chunk"}}

News == {f \in ServerFrame : f.type \notin {"ready", "chunk"}}

Adds(New) ==
  /\ \E new \in Seq(New) : toPwa' = toPwa \o new
  /\ ~linked => toPwa' = toPwa

LEMMA NothingAdded ==
  ASSUME HostTypes, UNCHANGED toPwa, NEW New
  PROVE  Adds(New)
<1> DEFINE none == <<>>
<1>1. none \in Seq(New) /\ toPwa \o none = toPwa
  BY EmptySeq, ConcatEmptySeq DEF HostTypes, HostTypeOK, NetTypeOK
<1> HIDE DEF none
<1> QED
  BY <1>1 DEF Adds

LEMMA PostAdds ==
  ASSUME HostTypes, NEW New, NEW frames \in Seq(New), Post(frames)
  PROVE  Adds(New)
<1>1. CASE linked
  BY <1>1 DEF Post, Adds
<1>2. CASE ~linked
  BY <1>2, NothingAdded DEF Post
<1> QED
  BY <1>1, <1>2

LEMMA OneAdds ==
  ASSUME HostTypes, NEW New, NEW f \in New, Post(<<f>>)
  PROVE  Adds(New)
<1>1. <<f>> \in Seq(New)
  OBVIOUS
<1> DEFINE frames == <<f>>
<1>2. frames \in Seq(New) /\ Post(frames)
  BY <1>1
<1> HIDE DEF frames
<1> QED
  BY <1>2, PostAdds

LEMMA AddsMore ==
  ASSUME NEW N, NEW M, N \subseteq M, Adds(N)
  PROVE  Adds(M)
<1>1. PICK new \in Seq(N) : toPwa' = toPwa \o new
  BY DEF Adds
<1>2. new \in Seq(M)
  BY SeqMonotonic
<1> QED
  BY <1>1, <1>2 DEF Adds

LEMMA AddsGoes ==
  ASSUME HostTypes, NEW New \in SUBSET ServerFrame, Adds(New)
  PROVE  /\ toPwa' \in Seq(ServerFrame) /\ Goes(toPwa, toPwa', New)
         /\ ~linked => toPwa' = toPwa
<1>0. ~linked => toPwa' = toPwa
  BY DEF Adds
<1>1. PICK new \in Seq(New) : toPwa' = toPwa \o new
  BY DEF Adds
<1>2. PICK q : q = toPwa
  OBVIOUS
<1>3. q \in Seq(ServerFrame)
  BY <1>2 DEF HostTypes, HostTypeOK, NetTypeOK
<1>4. q \o new \in Seq(ServerFrame) /\ Goes(q, q \o new, New)
  BY <1>3, GoesFurther
<1>5. q \o new = toPwa'
  BY <1>1, <1>2
<1> QED
  BY <1>0, <1>2, <1>4, <1>5

(* The binding has the session, the cursors and the channel it had, or has *)
(* gone.                                                                   *)
SeatStays ==
  binding' = None \/ /\ binding # None /\ binding'.session = binding.session
                     /\ binding'.gen \in {binding.gen, generation'}
                     /\ binding'.ready = binding.ready /\ binding'.cursors = binding.cursors

LEMMA ServiceStays ==
  ASSUME HostTypes, NEW records, binding # None, binding' = [binding EXCEPT !.records = records]
  PROVE  SeatStays
<1>1. binding \in Service
  BY DEF HostTypes, HostTypeOK, ServiceTypeOK, Optional
<1> QED
  BY <1>1 DEF SeatStays, Service

LEMMA SeatUnchanged ==
  ASSUME UNCHANGED binding
  PROVE  SeatStays
  BY DEF SeatStays

LEMMA StatusWord ==
  ASSUME NEW b \in Service, NEW r \in Requests, NEW mid \in Nat,
         NEW status \in {"received", "accepted", "committed", "unknown_delivery"}
  PROVE  StatusFrame(b, r, status, mid) \in Words
  BY StatusTyped DEF Words, StatusFrame

LEMMA ConfirmAdds ==
  ASSUME HostTypes, NEW corr \in Optional(Correlation), NEW mid \in Nat,
         NEW status \in {"accepted", "committed"}, NEW New \in SUBSET ServerFrame,
         Words \subseteq New, NEW first \in Seq(New), NEW last \in Seq(New),
         Confirm(corr, status, mid, first, last)
  PROVE  Adds(New) /\ SeatStays
<1>1. CASE binding = None \/ corr = None \/ Recorded(binding.records, corr.req) = 0
  <2>1. UNCHANGED binding /\ Post(first)
    BY <1>1 DEF Confirm
  <2> QED
    BY <2>1, PostAdds, SeatUnchanged
<1>2. CASE ~(binding = None \/ corr = None \/ Recorded(binding.records, corr.req) = 0)
  <2>1. binding \in Service /\ corr \in Correlation
    BY <1>2 DEF HostTypes, HostTypeOK, ServiceTypeOK, Optional
  <2>2. PICK word : word = StatusFrame(binding, corr.req, status, mid)
    OBVIOUS
  <2>3. word \in New
    BY <2>1, <2>2, StatusWord DEF Correlation
  <2>4. <<word>> \in Seq(New)
    BY <2>3
  <2>5. PICK one : one = <<word>>
    OBVIOUS
  <2>6. first \o one \in Seq(New) /\ (first \o one) \o last \in Seq(New)
    BY <2>4, <2>5, JoinIs
  <2>7. /\ binding' = [binding EXCEPT !.records = Touched(binding.records, corr.req, status, mid)]
        /\ Post(first \o one \o last)
    BY <1>2, <2>2, <2>5 DEF Confirm
  <2>8. SeatStays
    BY <1>2, <2>7, ServiceStays
  <2>9. PICK frames : frames = (first \o one) \o last
    OBVIOUS
  <2> QED
    BY <2>6, <2>7, <2>8, <2>9, PostAdds
<1> QED
  BY <1>1, <1>2

(* A step of the host that takes nothing from the Owner and loses no frame.*)
HostMoves(New) == UNCHANGED <<toHost, linked>> /\ Adds(New) /\ SeatStays

LEMMA MessageStartMoves ==
  ASSUME HostTypes, NEW role, NEW corr \in Optional(Correlation), NEW earlier,
         OnMessageStart(role, corr, earlier)
  PROVE  HostMoves(Words)
<1> DEFINE e == minted + 1
           started == IF corr = None \/ binding = None THEN <<>>
                      ELSE <<[type |-> "started", session |-> binding.session,
                              gen |-> binding.gen, rid |-> corr.rid, status |-> "accepted",
                              mid |-> e]>>
           none == <<>>
<1>1. e \in Nat /\ UNCHANGED <<toHost, linked>> /\ Confirm(corr, "accepted", e, none, started)
  BY DEF OnMessageStart, HostTypes, HostTypeOK, SessionTypeOK
<1>2. none \in Seq(Words)
  BY EmptySeq
<1>3. started \in Seq(Words)
  <2>1. CASE corr = None \/ binding = None
    BY <1>2, <2>1
  <2>2. CASE ~(corr = None \/ binding = None)
    <3>1. corr.rid \in Nat /\ binding.session \in Nat /\ binding.gen \in Nat
      BY <2>2 DEF HostTypes, HostTypeOK, ServiceTypeOK, Optional, Correlation, Service
    <3>2. PICK f : f = [type |-> "started", session |-> binding.session, gen |-> binding.gen,
                        rid |-> corr.rid, status |-> "accepted", mid |-> e]
      OBVIOUS
    <3>3. f \in Words
      <4> HIDE DEF e
      <4> QED
        BY <1>1, <3>1, <3>2 DEF Words, ServerFrame
    <3>4. started = <<f>>
      BY <2>2, <3>2
    <3> HIDE DEF started
    <3> QED
      BY <3>3, <3>4
  <2> QED
    BY <2>1, <2>2
<1>4. Words \in SUBSET ServerFrame
  BY DEF Words
<1> HIDE DEF e, started, none
<1> QED
  BY <1>1, <1>2, <1>3, <1>4, ConfirmAdds DEF HostMoves

LEMMA MessagesMove ==
  ASSUME HostTypes, StartRun \/ Steer \/ \E role \in Roles : Speak(role)
  PROVE  HostMoves(Words)
<1>1. /\ sdk.corr \in Optional(Correlation)
      /\ \A i \in DOMAIN inbox : inbox[i] \in Optional(Correlation)
  BY ElementOfSeq DEF HostTypes, HostTypeOK, PiTypeOK
<1>2. CASE StartRun
  BY <1>1, <1>2, MessageStartMoves DEF StartRun
<1>3. CASE Steer
  BY <1>1, <1>3, MessageStartMoves DEF Steer
<1>4. CASE \E role \in Roles : Speak(role)
  BY <1>1, <1>4, MessageStartMoves DEF Speak
<1> QED
  BY <1>2, <1>3, <1>4

LEMMA StreamMoves ==
  ASSUME HostTypes, Stream
  PROVE  HostMoves(Words)
<1> DEFINE f == [type |-> "partial", session |-> Current, gen |-> generation,
                 id |-> rt.pending.id, group |-> rt.pending.group]
<1>1. f \in Words
  <2>1. rt.pending \in PendingMessage
    BY DEF Stream, HostTypes, HostTypeOK, RuntimeTypeOK, Runtime, Optional
  <2>2. rt.pending.id \in Nat /\ rt.pending.group \in Nat
    BY <2>1 DEF PendingMessage
  <2>3. Current \in Nat /\ generation \in Nat
    BY CurrentIs DEF HostTypes, HostTypeOK, SessionTypeOK
  <2> QED
    BY <2>2, <2>3 DEF Words, ServerFrame
<1>2. Post(<<f>>) \/ UNCHANGED toPwa
  BY DEF Stream
<1>3. UNCHANGED <<toHost, linked>> /\ SeatStays
  BY SeatUnchanged DEF Stream, serviceVars
<1> HIDE DEF f
<1>4. Adds(Words)
  BY <1>1, <1>2, OneAdds, NothingAdded
<1> QED
  BY <1>3, <1>4 DEF HostMoves

LEMMA OthersMove ==
  ASSUME HostTypes,
         \/ EndMessage \/ EndRun \/ TypePrompt \/ ShutdownSession
         \/ \E type \in {"custom", "custom_message", "compaction"} : WriteEntry(type)
  PROVE  HostMoves(Words)
<1>1. UNCHANGED <<toHost, toPwa, linked, binding>>
  BY DEF EndMessage, EndRun, TypePrompt, ShutdownSession, WriteEntry, serviceVars, netVars
<1> QED
  BY <1>1, NothingAdded, SeatUnchanged DEF HostMoves

LEMMA FinishMoves ==
  ASSUME HostTypes, NEW session \in Nat, FinishSessionReplacement(session)
  PROVE  Adds(Words) /\ SeatStays
<1>1. CASE replaced /\ binding # None
  <2> DEFINE f == [type |-> "bye", session |-> session, gen |-> binding.gen]
  <2>1. binding.gen \in Nat
    BY <1>1 DEF HostTypes, HostTypeOK, ServiceTypeOK, Optional, Service
  <2>2. f \in Words
    BY <2>1 DEF Words, ServerFrame
  <2>3. Post(<<f>>) /\ binding' = None
    BY <1>1 DEF FinishSessionReplacement
  <2> HIDE DEF f
  <2> QED
    BY <2>2, <2>3, OneAdds DEF SeatStays
<1>2. CASE ~(replaced /\ binding # None)
  <2>1. UNCHANGED <<toPwa, binding>>
    BY <1>2 DEF FinishSessionReplacement
  <2> QED
    BY <2>1, NothingAdded, SeatUnchanged
<1> QED
  BY <1>1, <1>2

LEMMA SessionsMove ==
  ASSUME HostTypes, StartSession \/ EndBridge
  PROVE  HostMoves(Words)
<1>1. Current \in Nat /\ Current - 1 \in Nat
  BY CurrentIs
<1>2. UNCHANGED <<toHost, linked>>
  BY DEF StartSession, EndBridge
<1>3. \/ UNCHANGED <<toPwa, binding>>
      \/ FinishSessionReplacement(Current)
      \/ FinishSessionReplacement(Current - 1)
  BY DEF StartSession, EndBridge
<1> QED
  BY <1>1, <1>2, <1>3, FinishMoves, NothingAdded, SeatUnchanged DEF HostMoves

LEMMA MoveInTreeMoves ==
  ASSUME HostTypes, MoveInTree
  PROVE  HostMoves(Words)
<1>1. UNCHANGED <<toHost, linked>>
  BY DEF MoveInTree
<1>2. CASE binding = None
  BY <1>1, <1>2, NothingAdded, SeatUnchanged DEF MoveInTree, HostMoves
<1>3. CASE binding # None
  <2> DEFINE none == <<>>
             f == [type |-> "reset", session |-> binding.session, gen |-> generation + 1]
  <2>1. /\ binding' = [binding EXCEPT !.gen = generation + 1, !.records = none]
        /\ generation' = generation + 1 /\ generation + 1 \in Nat
        /\ Post(<<f>>) \/ UNCHANGED toPwa
    BY <1>3 DEF MoveInTree, HostTypes, HostTypeOK, SessionTypeOK
  <2>2. binding \in Service
    BY <1>3, BindingTyped DEF Serviceable
  <2>3. f \in Words
    BY <2>1, <2>2 DEF Words, ServerFrame, Service
  <2> HIDE DEF none, f
  <2>4. SeatStays
    BY <1>3, <2>1, <2>2 DEF SeatStays, Service
  <2>5. Adds(Words)
    BY <2>1, <2>3, OneAdds, NothingAdded
  <2> QED
    BY <1>1, <2>4, <2>5 DEF HostMoves
<1> QED
  BY <1>2, <1>3

LEMMA ExpireMoves ==
  ASSUME HostTypes, ExpireRecord
  PROVE  HostMoves(Words)
<1>1. UNCHANGED <<toHost, toPwa, linked>> /\ binding # None
      /\ binding' = [binding EXCEPT !.records = Tail(binding.records)]
  BY DEF ExpireRecord, netVars
<1> QED
  BY <1>1, NothingAdded, ServiceStays DEF HostMoves

LEMMA PublishMoves ==
  ASSUME HostTypes, Publish
  PROVE  HostMoves(News)
<1> DEFINE p == Head(ended)
           event == ToEvent(p.session, p.id, FALSE, p.role, p.group)
           none == <<>>
<1>1. p \in PendingMessage
  BY HeadTailProperties DEF Publish, HostTypes, HostTypeOK, RuntimeTypeOK
<1>2. UNCHANGED <<toHost, linked>>
  BY DEF Publish
<1>3. \/ UNCHANGED <<toPwa, binding>>
      \/ \E frames \in IF binding = None THEN {none} ELSE PublishFrames(binding, event) :
           Confirm(p.corr, "committed", p.id, frames, none)
  BY DEF Publish
<1>4. none \in Seq(News) /\ News \in SUBSET ServerFrame /\ Words \subseteq News
  BY EmptySeq DEF News, Words
<1>5. event \in Event
  <2>1. generation \in Nat
    BY DEF HostTypes, HostTypeOK, SessionTypeOK
  <2> HIDE DEF p
  <2> QED
    BY <1>1, <2>1 DEF ToEvent, Event, PendingMessage
<1>6. \A frames \in IF binding = None THEN {none} ELSE PublishFrames(binding, event) :
        frames \in Seq(News)
  <2> SUFFICES ASSUME NEW frames \in IF binding = None THEN {none} ELSE PublishFrames(binding, event)
               PROVE  frames \in Seq(News)
    OBVIOUS
  <2> HIDE DEF none, event
  <2>1. CASE binding = None
    BY <1>4, <2>1
  <2>2. CASE binding # None
    <3>1. binding \in Service
      BY <2>2, BindingTyped DEF Serviceable
    <3>2. frames \in PublishFrames(binding, event)
      BY <2>2
    <3>3. frames \in Seq(ServerFrame)
      BY <1>5, <3>1, <3>2, PublishFramesTyped
    <3>4. \A i \in 1..Len(frames) : frames[i].type \in {"event", "fragment"}
      BY <3>2 DEF PublishFrames
    <3>5. \A i \in 1..Len(frames) : frames[i] \in News
      <4> SUFFICES ASSUME NEW i \in 1..Len(frames)
                   PROVE  frames[i] \in News
        OBVIOUS
      <4>1. frames[i] \in ServerFrame
        BY <3>3, ElementOfSeq
      <4> QED
        BY <3>4, <4>1 DEF News
    <3>6. frames \in [1..Len(frames) -> News] /\ Len(frames) \in Nat
      BY <3>3, <3>5, LenProperties
    <3> QED
      BY <3>6, NumberedIsSeq
  <2> QED
    BY <2>1, <2>2
<1>7. p.corr \in Optional(Correlation) /\ p.id \in Nat
  BY <1>1 DEF PendingMessage
<1> HIDE DEF p, event, none
<1>8. CASE UNCHANGED <<toPwa, binding>>
  BY <1>2, <1>8, NothingAdded, SeatUnchanged DEF HostMoves
<1>9. CASE \E frames \in IF binding = None THEN {none} ELSE PublishFrames(binding, event) :
             Confirm(p.corr, "committed", p.id, frames, none)
  BY <1>2, <1>4, <1>6, <1>7, <1>9, ConfirmAdds DEF HostMoves
<1> QED
  BY <1>3, <1>8, <1>9

-----------------------------------------------------------------------------
(* What the host does with a frame of the Owner.                           *)

(* The service serves as b did.                                            *)
Seated(b) ==
  binding'.session = b.session /\ binding'.gen = b.gen /\ binding'.ready = b.ready

LEMMA SeatedWith ==
  ASSUME NEW b \in Service, NEW records, binding' = [b EXCEPT !.records = records]
  PROVE  Seated(b) /\ binding'.cursors = b.cursors
  BY DEF Seated, Service

(* What the host does when it serves no page and answers no hello.         *)
Minor(b) == Seated(b) /\ binding'.cursors = b.cursors /\ Adds(Words)

LEMMA ReplayMinor ==
  ASSUME HostTypes, NEW b, Serviceable(b), NEW r \in Requests, IsReplay(b, r), Replay(b, r)
  PROVE  Minor(b)
<1> DEFINE rec == b.records[Recorded(b.records, r)]
           records == Touched(b.records, r, rec.status, rec.mid)
           mid == IF rec.status \in {"accepted", "committed"} THEN rec.mid ELSE 0
<1>1. b \in Service /\ b.records \in Seq(Record)
  BY DEF Serviceable, Service
<1>2. rec \in Record
  <2>1. Recorded(b.records, r) \in 1..Len(b.records)
    BY <1>1, RecordedIs, LenProperties DEF IsReplay
  <2> QED
    BY <1>1, <2>1, ElementOfSeq
<1>3. binding' = [b EXCEPT !.records = records] /\ Post(<<StatusFrame(b, r, rec.status, mid)>>)
  BY DEF Replay
<1> HIDE DEF rec
<1>4. mid \in Nat /\ rec.status \in {"received", "accepted", "committed", "unknown_delivery"}
  BY <1>2 DEF Record
<1> HIDE DEF records, mid
<1>5. StatusFrame(b, r, rec.status, mid) \in Words
  BY <1>1, <1>4, StatusWord
<1> QED
  BY <1>1, <1>3, <1>5, OneAdds, SeatedWith DEF Minor

LEMMA DeliverMinor ==
  ASSUME HostTypes, NEW b, Serviceable(b), NEW f \in ClientFrame, f.type = "user", Deliver(b, f)
  PROVE  Minor(b)
<1> DEFINE r == f.req
           kept == Pruned(Append(Without(b.records, r), [req |-> r, status |-> "received", mid |-> 0]))
           touched == Touched(kept, r, "unknown_delivery", 0)
<1>1. b \in Service /\ r \in Requests
  BY ClientFields DEF Serviceable
<1>2. \/ binding' = [b EXCEPT !.records = kept] /\ Post(<<StatusFrame(b, r, "received", 0)>>)
      \/ /\ binding' = [b EXCEPT !.records = touched]
         /\ Post(<<StatusFrame(b, r, "unknown_delivery", 0)>>)
  BY DEF Deliver
<1> HIDE DEF kept, touched
<1>3. /\ StatusFrame(b, r, "received", 0) \in Words
      /\ StatusFrame(b, r, "unknown_delivery", 0) \in Words
  BY <1>1, StatusWord
<1> QED
  BY <1>1, <1>2, <1>3, OneAdds, SeatedWith DEF Minor

LEMMA ErrorWord ==
  ASSUME NEW rid \in Nat
  PROVE  [type |-> "error", rid |-> rid] \in Words
  BY DEF Words, ServerFrame

LEMMA ResetWord ==
  ASSUME NEW b \in Service
  PROVE  ResetFrame(b) \in Words
  BY DEF Words, ServerFrame, ResetFrame, Service

LEMMA ObserveMinor ==
  ASSUME HostTypes, NEW b, Serviceable(b), NEW f \in ClientFrame, Observe(b, f)
  PROVE  Minor(b)
<1> DEFINE records == Without(b.records, f.req)
           e == [type |-> "error", rid |-> 0]
<1>1. b \in Service
  BY DEF Serviceable
<1>2. binding' = [b EXCEPT !.records = records] /\ (Post(<<e>>) \/ UNCHANGED toPwa)
  BY DEF Observe
<1>3. e \in Words
  BY ErrorWord
<1> HIDE DEF records, e
<1> QED
  BY <1>1, <1>2, <1>3, OneAdds, NothingAdded, SeatedWith DEF Minor

LEMMA RefuseMinor ==
  ASSUME HostTypes, NEW b, Serviceable(b), NEW f \in ClientFrame, Refuse(b, f)
  PROVE  Minor(b)
<1> DEFINE word == IF b.ready THEN ResetFrame(b) ELSE [type |-> "error", rid |-> f.rid]
<1>1. b \in Service /\ f.rid \in Nat
  BY ClientFields DEF Serviceable
<1>2. binding' = b /\ Post(<<word>>)
  BY DEF Refuse
<1>3. word \in Words
  BY <1>1, ErrorWord, ResetWord
<1> HIDE DEF word
<1> QED
  BY <1>2, <1>3, OneAdds DEF Minor, Seated

(* The cursors of b with those that f asks for used.                       *)
Asks(b, f) == {c \in b.cursors : c.id = f.before}

UsedUp(b, f) == (b.cursors \ Asks(b, f)) \cup {[x EXCEPT !.used = TRUE] : x \in Asks(b, f)}

Spent(b, f) == [b EXCEPT !.cursors = UsedUp(b, f)]

LEMMA SpentIs ==
  ASSUME NEW b, Serviceable(b), NEW f
  PROVE  /\ Serviceable(Spent(b, f))
         /\ Spent(b, f).session = b.session /\ Spent(b, f).gen = b.gen
         /\ Spent(b, f).ready = b.ready /\ Spent(b, f).cursors = UsedUp(b, f)
<1> DEFINE known == Asks(b, f)
           turned == {[x EXCEPT !.used = TRUE] : x \in known}
<1>1. b \in Service /\ b.cursors \in SUBSET Cursor /\ IsFiniteSet(b.cursors)
  BY DEF Serviceable, Service
<1>2. known \in SUBSET b.cursors /\ UsedUp(b, f) = (b.cursors \ known) \cup turned
  BY DEF Asks, UsedUp
<1> HIDE DEF known
<1>3. turned \in SUBSET Cursor
  BY <1>1, <1>2 DEF Cursor
<1>4. IsFiniteSet(turned)
  <2> DEFINE h == [x \in known |-> [x EXCEPT !.used = TRUE]]
  <2>1. IsFiniteSet(known)
    BY <1>1, <1>2, FS_Subset
  <2>2. h \in [known -> turned] /\ \A y \in turned : \E x \in known : h[x] = y
    OBVIOUS
  <2>3. h \in Surjection(known, turned)
    BY <2>2 DEF Surjection
  <2> QED
    BY <2>1, <2>3, FS_Surjection
<1> HIDE DEF turned
<1>5. IsFiniteSet(b.cursors \ known)
  BY <1>1, FS_Subset
<1>6. UsedUp(b, f) \in SUBSET Cursor /\ IsFiniteSet(UsedUp(b, f))
  BY <1>1, <1>2, <1>3, <1>4, <1>5, FS_Union
<1>7. Spent(b, f) \in Service
  BY <1>1, <1>6 DEF Spent, Service
<1> QED
  BY <1>1, <1>6, <1>7 DEF Serviceable, Spent, Service

(* The answers to a sync.                                                  *)
HeadPage(b, f) == f.before = None /\ Page(b, f.rid, branches[b.session], Len(branches[b.session]))

NoPage(b, f) == f.before # None /\ binding' = Spent(b, f) /\ Post(<<ResetFrame(b)>>)

OlderPage(b, f, c) ==
  /\ f.before # None /\ c.id = f.before /\ ~c.used /\ SnapshotValid(c, branches[b.session])
  /\ Page(Spent(b, f), f.rid, c.prefix, c.position)

LEMMA SyncCases ==
  ASSUME HostTypes, NEW b, Serviceable(b), NEW f \in ClientFrame, f.type = "sync", Sync(b, f)
  PROVE  \/ HeadPage(b, f) /\ AttachTo(b.session)
         \/ NoPage(b, f) /\ UNCHANGED <<rt, strayed>>
         \/ (\E c \in b.cursors : OlderPage(b, f, c)) /\ AttachTo(b.session)
<1> DEFINE branch == branches[b.session]
           known == Asks(b, f)
           c == CHOOSE x \in known : TRUE
           spent == [b EXCEPT !.cursors = (b.cursors \ known) \cup
                                          {[x EXCEPT !.used = TRUE] : x \in known}]
<1>1. spent = Spent(b, f)
  BY DEF Spent, UsedUp
<1>2. CASE f.before = None
  BY <1>2 DEF Sync, HeadPage
<1>3. CASE f.before # None /\ (known = {} \/ c.used \/ ~SnapshotValid(c, branch))
  BY <1>1, <1>3 DEF Sync, NoPage, Asks
<1>4. CASE f.before # None /\ ~(known = {} \/ c.used \/ ~SnapshotValid(c, branch))
  <2>1. Page(spent, f.rid, c.prefix, c.position) /\ AttachTo(b.session)
    BY <1>4 DEF Sync, Asks
  <2>2. c \in b.cursors /\ c.id = f.before
    BY <1>4 DEF Asks
  <2> HIDE DEF c, spent
  <2> QED
    BY <1>1, <1>4, <2>1, <2>2 DEF OlderPage
<1> QED
  BY <1>2, <1>3, <1>4

LEMMA NoPageMinor ==
  ASSUME HostTypes, NEW b, Serviceable(b), NEW f, NoPage(b, f)
  PROVE  Seated(b) /\ Adds(Words)
<1>1. b \in Service
  BY DEF Serviceable
<1> QED
  BY <1>1, SpentIs, ResetWord, OneAdds DEF NoPage, Seated

(* A frame the host takes.                                                 *)
Serves(b, f) ==
  \/ b.ready = FALSE /\ UNCHANGED <<binding, toPwa>> /\ binding = None
  \/ f.type = "hello" /\ Hello(b, f)
  \/ f.type # "hello" /\ Minor(b)
  \/ f.type = "sync" /\ ~Refused(b, f) /\ Sync(b, f)

HostServes ==
  /\ toHost # <<>> /\ toHost' = Tail(toHost) /\ UNCHANGED linked
  /\ Head(toHost) \in ClientFrame /\ Serves(Server, Head(toHost))

LEMMA ReceivesServes ==
  ASSUME HostTypes, HostReceives
  PROVE  HostServes
<1>1. /\ toHost # <<>> /\ Head(toHost) \in ClientFrame /\ toHost' = Tail(toHost)
      /\ UNCHANGED linked
  BY ReceivesCases
<1>2. CASE binding = None /\ ~live
  <2>1. UNCHANGED <<binding, toPwa>>
    BY <1>2 DEF HostReceives, serviceVars
  <2>2. Server.ready = FALSE
    BY <1>2 DEF Server
  <2> QED
    BY <1>1, <1>2, <2>1, <2>2 DEF HostServes, Serves
<1>3. CASE ~(binding = None /\ ~live)
  <2>1. Serve(Server, Head(toHost)) /\ Serviceable(Server)
    BY <1>3, ServerTyped DEF HostReceives, Server
  <2>2. PICK b, f : b = Server /\ f = Head(toHost)
    OBVIOUS
  <2>3. Serviceable(b) /\ f \in ClientFrame /\ Serve(b, f)
    BY <1>1, <2>1, <2>2
  <2>4. f.type = "user" => f.req \in Requests
    BY <2>3, ClientFields
  <2>5. Serves(b, f)
    <3>1. CASE f.type = "hello" /\ Hello(b, f)
      BY <3>1 DEF Serves
    <3>2. CASE Refused(b, f) /\ Refuse(b, f)
      BY <2>3, <3>2, RefuseMinor DEF Serves, Refused
    <3>3. CASE f.type = "sync" /\ ~Refused(b, f) /\ Sync(b, f)
      BY <3>3 DEF Serves
    <3>4. CASE f.type = "observed" /\ Observe(b, f)
      BY <2>3, <3>4, ObserveMinor DEF Serves
    <3>5. CASE f.type = "user" /\ Deliver(b, f)
      BY <2>3, <3>5, DeliverMinor DEF Serves
    <3>6. CASE f.type = "user" /\ IsReplay(b, f.req) /\ Replay(b, f.req)
      BY <2>3, <2>4, <3>6, ReplayMinor DEF Serves
    <3> QED
      BY <2>3, <3>1, <3>2, <3>3, <3>4, <3>5, <3>6, ServeCases
  <2> QED
    BY <1>1, <2>2, <2>5 DEF HostServes
<1> QED
  BY <1>2, <1>3

HostReconnects ==
  /\ binding' = None /\ UNCHANGED linked
  /\ toHost' \in Seq(ClientFrame) /\ Goes(toHost, toHost', {})
  /\ toPwa' \in Seq(ServerFrame) /\ Goes(toPwa, toPwa', Words)
  /\ ~linked /\ toPwa = <<>> => toPwa' = <<>>

LEMMA GoesAppended ==
  ASSUME NEW S, NEW q \in Seq(S), NEW New \in SUBSET S, NEW r \in Seq(S), Goes(q, r, New),
         NEW x \in New
  PROVE  Append(r, x) \in Seq(S) /\ Goes(q, Append(r, x), New)
<1>1. PICK d, n \in Nat :
        /\ n <= Len(r)
        /\ \A i \in 1..n : i + d \in 1..Len(q) /\ r[i] = q[i + d]
        /\ \A i \in 1..Len(r) : i > n => r[i] \in New
  BY DEF Goes
<1>2. /\ Append(r, x) \in Seq(S) /\ Len(r) \in Nat /\ Len(Append(r, x)) = Len(r) + 1
      /\ \A i \in 1..Len(r) : Append(r, x)[i] = r[i]
      /\ Append(r, x)[Len(r) + 1] = x
  BY AppendProperties, LenProperties
<1>3. PICK t : t = Append(r, x)
  OBVIOUS
<1>4. \A i \in 1..n : i + d \in 1..Len(q) /\ t[i] = q[i + d]
  BY <1>1, <1>2, <1>3
<1>5. \A i \in 1..Len(t) : i > n => t[i] \in New
  BY <1>1, <1>2, <1>3
<1>6. n <= Len(t)
  BY <1>1, <1>2, <1>3
<1> QED
  BY <1>2, <1>3, <1>4, <1>5, <1>6 DEF Goes

LEMMA GoesMore ==
  ASSUME NEW q, NEW r, NEW N, NEW M, N \subseteq M, Goes(q, r, N)
  PROVE  Goes(q, r, M)
  BY DEF Goes

LEMMA ReconnectIs ==
  ASSUME HostTypes, ReconnectHost
  PROVE  HostReconnects
<1>1. PICK h, p : h = toHost /\ p = toPwa
  OBVIOUS
<1>2. h \in Seq(ClientFrame) /\ p \in Seq(ServerFrame)
  BY <1>1 DEF HostTypes, HostTypeOK, NetTypeOK
<1>3. binding' = None /\ UNCHANGED linked /\ toHost' \in Suffixes(h)
  BY <1>1 DEF ReconnectHost
<1>4. toHost' \in Seq(ClientFrame) /\ Goes(h, toHost', {})
  BY <1>2, <1>3, GoesSuffix
<1>5. PICK kept \in Prefixes(p), seen \in BOOLEAN :
        toPwa' = IF linked /\ seen THEN Append(kept, [type |-> "endpoint"]) ELSE kept
  BY <1>1 DEF ReconnectHost
<1>6. kept \in Seq(ServerFrame) /\ Goes(p, kept, Words)
  BY <1>2, GoesPrefix
<1>7. [type |-> "endpoint"] \in Words /\ Words \in SUBSET ServerFrame
  BY DEF Words, ServerFrame
<1>8. toPwa' \in Seq(ServerFrame) /\ Goes(p, toPwa', Words)
  BY <1>2, <1>5, <1>6, <1>7, GoesAppended
<1>9. ~linked /\ p = <<>> => toPwa' = <<>>
  <2> SUFFICES ASSUME ~linked, p = <<>>
               PROVE  toPwa' = <<>>
    OBVIOUS
  <2>1. Len(kept) <= Len(p) /\ Len(kept) \in Nat
    BY <1>2, <1>6, PrefixIs, LenProperties
  <2>2. Len(p) = 0
    OBVIOUS
  <2>3. Len(kept) = 0
    BY <2>1, <2>2
  <2> QED
    BY <1>5, <1>6, <2>3, EmptySeq
<1> QED
  BY <1>1, <1>3, <1>4, <1>8, <1>9 DEF HostReconnects

LEMMA HostSteps ==
  ASSUME HostTypes, HostNext
  PROVE  HostMoves(News) \/ HostReconnects \/ HostServes
<1>1. HostMoves(Words) => HostMoves(News)
  <2>1. Words \subseteq News
    BY DEF Words, News
  <2> QED
    BY <2>1, AddsMore DEF HostMoves
<1>2. CASE StartRun \/ Steer \/ \E role \in Roles : Speak(role)
  BY <1>1, <1>2, MessagesMove
<1>3. CASE Stream
  BY <1>1, <1>3, StreamMoves
<1>4. CASE \/ EndMessage \/ EndRun \/ TypePrompt \/ ShutdownSession
           \/ \E type \in {"custom", "custom_message", "compaction"} : WriteEntry(type)
  BY <1>1, <1>4, OthersMove
<1>5. CASE StartSession \/ EndBridge
  BY <1>1, <1>5, SessionsMove
<1>6. CASE MoveInTree
  BY <1>1, <1>6, MoveInTreeMoves
<1>7. CASE ExpireRecord
  BY <1>1, <1>7, ExpireMoves
<1>8. CASE Publish
  BY <1>8, PublishMoves
<1>9. CASE ReconnectHost
  BY <1>9, ReconnectIs
<1>10. CASE HostReceives
  BY <1>10, ReceivesServes
<1> QED
  BY <1>2, <1>3, <1>4, <1>5, <1>6, <1>7, <1>8, <1>9, <1>10 DEF HostNext

-----------------------------------------------------------------------------
(* What the page does.                                                     *)

(* Frames that ask for nothing that is awaited.                            *)
Plain == {f \in ClientFrame : f.type \in {"user", "observed"}}

Says(New) == \E new \in Seq(New) : toHost' = toHost \o new

LEMMA SaysNothing ==
  ASSUME SessionTypes, UNCHANGED toHost, NEW New
  PROVE  Says(New)
<1> DEFINE none == <<>>
<1>1. none \in Seq(New) /\ toHost \o none = toHost
  BY EmptySeq, ConcatEmptySeq DEF SessionTypes, HostTypes, HostTypeOK, NetTypeOK
<1> HIDE DEF none
<1> QED
  BY <1>1 DEF Says

LEMMA SaysOne ==
  ASSUME SessionTypes, NEW New \in SUBSET ClientFrame, NEW f \in New, toHost' = Append(toHost, f)
  PROVE  Says(New)
<1>1. PICK q : q = toHost
  OBVIOUS
<1>2. q \in Seq(ClientFrame)
  BY <1>1 DEF SessionTypes, HostTypes, HostTypeOK, NetTypeOK
<1>3. Append(q, f) = q \o <<f>>
  BY <1>2
<1>4. <<f>> \in Seq(New)
  OBVIOUS
<1> QED
  BY <1>1, <1>3, <1>4 DEF Says

LEMMA SaysGoes ==
  ASSUME SessionTypes, NEW New \in SUBSET ClientFrame, Says(New)
  PROVE  toHost' \in Seq(ClientFrame) /\ Goes(toHost, toHost', New)
<1>1. PICK new \in Seq(New) : toHost' = toHost \o new
  BY DEF Says
<1>2. PICK q : q = toHost
  OBVIOUS
<1>3. q \in Seq(ClientFrame)
  BY <1>2 DEF SessionTypes, HostTypes, HostTypeOK, NetTypeOK
<1>4. q \o new \in Seq(ClientFrame) /\ Goes(q, q \o new, New)
  BY <1>3, GoesFurther
<1> QED
  BY <1>1, <1>2, <1>4

LEMMA ReconcileSays ==
  ASSUME SessionTypes, scope \in Scope, NEW ms, NEW shown, Reconcile(ms, shown)
  PROVE  Says(Plain) /\ events' = shown
<1> DEFINE settled == Settled(ms, shown)
           observed == {[type |-> "observed", req |-> r, rid |-> 0, gen |-> scope.gen] :
                          r \in settled}
<1>1. settled \in SUBSET Requests
  BY DEF Settled
<1>2. observed \in SUBSET Plain
  <2>1. scope.gen \in Nat
    BY DEF Scope
  <2> HIDE DEF settled
  <2> QED
    BY <1>1, <2>1 DEF Plain, ClientFrame
<1>3. IsFiniteSet(observed)
  <2> HIDE DEF settled
  <2>1. IsFiniteSet(settled)
    BY <1>1, HostSessionAssumption, FS_Subset
  <2> DEFINE h == [r \in settled |-> [type |-> "observed", req |-> r, rid |-> 0, gen |-> scope.gen]]
  <2>2. h \in [settled -> observed] /\ \A y \in observed : \E x \in settled : h[x] = y
    OBVIOUS
  <2>3. h \in Surjection(settled, observed)
    BY <2>2 DEF Surjection
  <2> QED
    BY <2>1, <2>3, FS_Surjection
<1>4. events' = shown /\ toHost' = IF phase = "off" THEN toHost ELSE toHost \o SetToSeq(observed)
  BY DEF Reconcile
<1> HIDE DEF observed
<1>5. SetToSeq(observed) \in Seq(Plain)
  <2>1. SetToSeq(observed) \in Seq(observed)
    BY <1>3, SetInOrder
  <2> QED
    BY <1>2, <2>1, SeqMonotonic
<1> QED
  BY <1>4, <1>5, SaysNothing DEF Says

LEMMA ShowsSay ==
  ASSUME SessionTypes, scope \in Scope, NEW new, Commit(new) \/ ReplaceHistory(new)
  PROVE  Says(Plain)
  BY ReconcileSays DEF Commit, ReplaceHistory

LEMMA ScopeIs ==
  ASSUME SessionTypes, NEW x, InScope(scope, x)
  PROVE  scope \in Scope
  BY DEF InScope, SessionTypes, ViewTypeOK, Optional

LEMMA TakeSays ==
  ASSUME SessionTypes, NEW f, f.type # "ready", Take(f)
  PROVE  Says(Plain) /\ UNCHANGED linkVars /\ UNCHANGED scope
<1>1. CASE f.type = "event" /\ ReceiveEvent(f)
  <2>1. (InScope(scope, f) /\ Commit({f.event})) \/ UNCHANGED toHost
    BY <1>1 DEF ReceiveEvent
  <2>2. UNCHANGED linkVars /\ UNCHANGED scope
    BY <1>1 DEF ReceiveEvent
  <2> QED
    BY <2>1, <2>2, ScopeIs, ShowsSay, SaysNothing
<1>2. CASE f.type = "fragment" /\ ReceiveFragment(f)
  <2>1. (InScope(scope, f.part.event) /\ Commit({f.part.event})) \/ UNCHANGED toHost
    BY <1>2 DEF ReceiveFragment
  <2>2. UNCHANGED linkVars /\ UNCHANGED scope
    BY <1>2 DEF ReceiveFragment
  <2> QED
    BY <2>1, <2>2, ScopeIs, ShowsSay, SaysNothing
<1>3. CASE f.type = "chunk" /\ ReceiveChunk(f)
  <2>1. \/ UNCHANGED toHost
        \/ InScope(scope, f) /\ \E new : Commit(new) \/ ReplaceHistory(new)
    BY <1>3 DEF ReceiveChunk, Accepts
  <2>2. UNCHANGED linkVars /\ UNCHANGED scope
    BY <1>3 DEF ReceiveChunk
  <2> QED
    BY <2>1, <2>2, ScopeIs, ShowsSay, SaysNothing
<1>4. CASE f.type \in {"status", "started"} /\ ReceiveStatus(f)
           /\ UNCHANGED <<linkVars, scope, spoiled, transferVars, storeVars>>
  <2>1. (InScope(scope, f) /\ \E ms : Reconcile(ms, events)) \/ UNCHANGED toHost
    BY <1>4 DEF ReceiveStatus
  <2> QED
    BY <1>4, <2>1, ScopeIs, ReconcileSays, SaysNothing
<1>5. CASE (ReceiveError(f) \/ ReceivePartial(f))
           /\ UNCHANGED <<linkVars, scope, spoiled, transferVars, storeVars>>
  <2>1. UNCHANGED toHost
    BY <1>5 DEF ReceiveError, ReceivePartial
  <2> QED
    BY <1>5, <2>1, SaysNothing
<1> QED
  BY <1>1, <1>2, <1>3, <1>4, <1>5 DEF Take

(* A step of the page that changes neither its channel nor its scope, and  *)
(* asks for nothing that is awaited.                                       *)
Talks ==
  /\ Says(Plain) /\ UNCHANGED <<linked, phase, hello, scope>> /\ rids' \in {rids, rids + 1}
  /\ toPwa' = toPwa \/ (toPwa # <<>> /\ toPwa' = Tail(toPwa))

LEMMA UserTalks ==
  ASSUME SessionTypes, NEW r \in Requests, SendMessage(r) \/ RetryUnknown(r)
  PROVE  Talks /\ UNCHANGED <<toPwa, events, spoiled, transferVars, storeVars>>
<1>1. Pends(r) /\ scope # None
  BY DEF SendMessage, RetryUnknown
<1>2. UserFrame(r) \in Plain
  <2>1. rids + 1 \in Nat /\ scope.gen \in Nat
    BY <1>1 DEF SessionTypes, LinkTypeOK, ViewTypeOK, Optional, Scope
  <2> QED
    BY <2>1 DEF Plain, ClientFrame, UserFrame
<1>3. Plain \in SUBSET ClientFrame
  BY DEF Plain
<1>4. Says(Plain)
  BY <1>1, <1>2, <1>3, SaysOne DEF Pends
<1> QED
  BY <1>1, <1>4 DEF Talks, Pends

LEMMA TransactionTalks ==
  ASSUME SessionTypes, RunTransaction
  PROVE  Talks /\ UNCHANGED toPwa
<1> DEFINE t == Head(idb)
           shown == RecentEvents({e \in store : InScope(t.scope, e)})
<1>1. t \in Transaction
  BY HeadTailProperties DEF RunTransaction, SessionTypes, StoreTypeOK
<1>2. t.scope \in Scope
  BY <1>1 DEF Transaction
<1>3. (t.scope = scope /\ ReplaceHistory(shown)) \/ UNCHANGED toHost
  BY DEF RunTransaction
<1>4. UNCHANGED <<linkVars, scope, linked, toPwa>>
  BY DEF RunTransaction
<1> HIDE DEF t, shown
<1>5. Says(Plain)
  BY <1>2, <1>3, ShowsSay, SaysNothing
<1> QED
  BY <1>4, <1>5 DEF Talks, linkVars

-----------------------------------------------------------------------------
(* The hello under way: the page is online only when nothing is left of    *)
(* the hellos it sent, and none answers but the last.                      *)

LinkInv ==
  /\ linked <=> phase # "off"
  /\ hello <= rids /\ (phase # "hello" => hello = 0)
  /\ ~linked => toPwa = <<>>
  /\ \A i \in 1..Len(toHost) : toHost[i].type = "hello" =>
       /\ 1 <= toHost[i].rid /\ toHost[i].rid <= rids
       /\ phase # "online" /\ (phase = "hello" => toHost[i].rid <= hello)
  /\ \A i, j \in 1..Len(toHost) :
       i < j /\ toHost[i].type = "hello" /\ toHost[j].type = "hello" =>
         toHost[i].rid < toHost[j].rid
  /\ \A k \in 1..Len(toPwa) : toPwa[k].type = "ready" =>
       /\ 1 <= toPwa[k].rid /\ toPwa[k].rid <= rids
       /\ \A i \in 1..Len(toHost) : toHost[i].type = "hello" => toPwa[k].rid < toHost[i].rid

NoHello == {f \in ClientFrame : f.type # "hello"}

NoReady == {f \in ServerFrame : f.type # "ready"}

LEMMA QueuesTyped ==
  ASSUME SessionTypes
  PROVE  /\ toHost \in Seq(ClientFrame) /\ Len(toHost) \in Nat
         /\ toPwa \in Seq(ServerFrame) /\ Len(toPwa) \in Nat
         /\ rids \in Nat /\ hello \in Nat /\ phase \in {"off", "hello", "online"}
         /\ \A i \in 1..Len(toHost) : toHost[i] \in ClientFrame /\ toHost[i].rid \in Nat
         /\ \A i \in 1..Len(toPwa) : toPwa[i] \in ServerFrame
<1>1. /\ toHost \in Seq(ClientFrame) /\ toPwa \in Seq(ServerFrame)
      /\ rids \in Nat /\ hello \in Nat /\ phase \in {"off", "hello", "online"}
  BY DEF SessionTypes, HostTypes, HostTypeOK, NetTypeOK, LinkTypeOK
<1>2. \A i \in 1..Len(toHost) : toHost[i] \in ClientFrame
  BY <1>1, ElementOfSeq
<1>3. \A i \in 1..Len(toPwa) : toPwa[i] \in ServerFrame
  BY <1>1, ElementOfSeq
<1> QED
  BY <1>1, <1>2, <1>3, LenProperties, ClientFields

LEMMA QueuesTypedNext ==
  ASSUME SessionTypes'
  PROVE  /\ toHost' \in Seq(ClientFrame) /\ Len(toHost') \in Nat
         /\ toPwa' \in Seq(ServerFrame) /\ Len(toPwa') \in Nat
         /\ rids' \in Nat /\ hello' \in Nat /\ phase' \in {"off", "hello", "online"}
         /\ \A i \in 1..Len(toHost') : toHost'[i] \in ClientFrame /\ toHost'[i].rid \in Nat
         /\ \A i \in 1..Len(toPwa') : toPwa'[i] \in ServerFrame
<1>1. /\ toHost' \in Seq(ClientFrame) /\ toPwa' \in Seq(ServerFrame)
      /\ rids' \in Nat /\ hello' \in Nat /\ phase' \in {"off", "hello", "online"}
  BY DEF SessionTypes, HostTypes, HostTypeOK, NetTypeOK, LinkTypeOK
<1>2. \A i \in 1..Len(toHost') : toHost'[i] \in ClientFrame
  BY <1>1, ElementOfSeq
<1>3. \A i \in 1..Len(toPwa') : toPwa'[i] \in ServerFrame
  BY <1>1, ElementOfSeq
<1> QED
  BY <1>1, <1>2, <1>3, LenProperties, ClientFields

LEMMA ReadyRid ==
  ASSUME NEW f \in ServerFrame, f.type = "ready"
  PROVE  f.rid \in Nat
  BY ServerFields

(* A step that begins and ends no hello.                                   *)
CalmLink ==
  /\ UNCHANGED <<linked, phase, hello>> /\ rids' \in {rids, rids + 1}
  /\ Goes(toHost, toHost', NoHello)
  /\ Goes(toPwa, toPwa', NoReady)
  /\ ~linked => toPwa' = toPwa \/ toPwa' = <<>> \/ toPwa # <<>>

LEMMA CalmKeepsLink ==
  ASSUME SessionTypes, SessionTypes', LinkInv, CalmLink
  PROVE  LinkInv'
<1> USE QueuesTyped
<1>0. /\ toHost' \in Seq(ClientFrame) /\ Len(toHost') \in Nat
      /\ toPwa' \in Seq(ServerFrame) /\ Len(toPwa') \in Nat
      /\ \A i \in 1..Len(toHost') : toHost'[i].rid \in Nat
      /\ \A i \in 1..Len(toPwa') : toPwa'[i] \in ServerFrame
      /\ \A i \in 1..Len(toPwa') : toPwa'[i].type = "ready" => toPwa'[i].rid \in Nat
  BY QueuesTypedNext, ReadyRid
<1>1. PICK d, n \in Nat :
        /\ n <= Len(toHost')
        /\ \A i \in 1..n : i + d \in 1..Len(toHost) /\ toHost'[i] = toHost[i + d]
        /\ \A i \in 1..Len(toHost') : i > n => toHost'[i] \in NoHello
  BY DEF CalmLink, Goes
<1>2. PICK e, m \in Nat :
        /\ m <= Len(toPwa')
        /\ \A i \in 1..m : i + e \in 1..Len(toPwa) /\ toPwa'[i] = toPwa[i + e]
        /\ \A i \in 1..Len(toPwa') : i > m => toPwa'[i] \in NoReady
  BY DEF CalmLink, Goes
<1>3. \A i \in 1..Len(toHost') : toHost'[i].type = "hello" =>
        i + d \in 1..Len(toHost) /\ toHost'[i] = toHost[i + d]
  <2> SUFFICES ASSUME NEW i \in 1..Len(toHost'), toHost'[i].type = "hello"
               PROVE  i \in 1..n
    BY <1>1
  <2> QED
    BY <1>0, <1>1 DEF NoHello
<1>4. \A i \in 1..Len(toPwa') : toPwa'[i].type = "ready" =>
        i + e \in 1..Len(toPwa) /\ toPwa'[i] = toPwa[i + e]
  <2> SUFFICES ASSUME NEW i \in 1..Len(toPwa'), toPwa'[i].type = "ready"
               PROVE  i \in 1..m
    BY <1>2
  <2> QED
    BY <1>0, <1>2 DEF NoReady
<1>5. rids <= rids' /\ UNCHANGED <<linked, phase, hello>> /\ rids' \in Nat
  BY DEF CalmLink
<1>6. (linked <=> phase # "off")' /\ (hello <= rids /\ (phase # "hello" => hello = 0))'
  BY <1>5 DEF LinkInv
<1>7. (~linked => toPwa = <<>>)'
  BY <1>5 DEF CalmLink, LinkInv
<1>8. \A i \in 1..Len(toHost') : toHost'[i].type = "hello" =>
        /\ 1 <= toHost'[i].rid /\ toHost'[i].rid <= rids'
        /\ phase' # "online" /\ (phase' = "hello" => toHost'[i].rid <= hello')
  BY <1>0, <1>3, <1>5 DEF LinkInv
<1>9. \A i, j \in 1..Len(toHost') :
        i < j /\ toHost'[i].type = "hello" /\ toHost'[j].type = "hello" =>
          toHost'[i].rid < toHost'[j].rid
  <2> SUFFICES ASSUME NEW i \in 1..Len(toHost'), NEW j \in 1..Len(toHost'), i < j,
                      toHost'[i].type = "hello", toHost'[j].type = "hello"
               PROVE  toHost'[i].rid < toHost'[j].rid
    OBVIOUS
  <2>1. /\ i + d \in 1..Len(toHost) /\ toHost'[i] = toHost[i + d]
        /\ j + d \in 1..Len(toHost) /\ toHost'[j] = toHost[j + d] /\ i + d < j + d
    BY <1>3
  <2> QED
    BY <2>1 DEF LinkInv
<1>10. \A k \in 1..Len(toPwa') : toPwa'[k].type = "ready" =>
         /\ 1 <= toPwa'[k].rid /\ toPwa'[k].rid <= rids'
         /\ \A i \in 1..Len(toHost') : toHost'[i].type = "hello" => toPwa'[k].rid < toHost'[i].rid
  <2> SUFFICES ASSUME NEW k \in 1..Len(toPwa'), toPwa'[k].type = "ready"
               PROVE  /\ 1 <= toPwa'[k].rid /\ toPwa'[k].rid <= rids'
                      /\ \A i \in 1..Len(toHost') :
                           toHost'[i].type = "hello" => toPwa'[k].rid < toHost'[i].rid
    OBVIOUS
  <2>1. PICK l : l = k + e
    OBVIOUS
  <2>2. l \in 1..Len(toPwa) /\ toPwa'[k] = toPwa[l]
    BY <1>4, <2>1
  <2>3. /\ 1 <= toPwa[l].rid /\ toPwa[l].rid <= rids /\ toPwa[l].rid \in Nat
        /\ \A i \in 1..Len(toHost) : toHost[i].type = "hello" => toPwa[l].rid < toHost[i].rid
    BY <1>0, <2>2 DEF LinkInv
  <2>4. \A i \in 1..Len(toHost') : toHost'[i].type = "hello" => toPwa'[k].rid < toHost'[i].rid
    BY <1>3, <2>2, <2>3
  <2> QED
    BY <1>5, <2>2, <2>3, <2>4
<1> QED
  BY <1>6, <1>7, <1>8, <1>9, <1>10 DEF LinkInv

LEMMA HostCalm ==
  ASSUME SessionTypes, HostMoves(News) \/ HostReconnects, UNCHANGED pwaVars
  PROVE  CalmLink
<1>1. UNCHANGED <<phase, hello, rids>>
  BY DEF pwaVars, linkVars
<1>2. HostTypes /\ News \in SUBSET ServerFrame /\ News \subseteq NoReady
  BY DEF SessionTypes, News, NoReady
<1>3. CASE HostMoves(News)
  <2>1. UNCHANGED <<toHost, linked>> /\ Adds(News)
    BY <1>3 DEF HostMoves
  <2>2. Goes(toPwa, toPwa', News) /\ (~linked => toPwa' = toPwa)
    BY <1>2, <2>1, AddsGoes
  <2>3. Goes(toHost, toHost', NoHello)
    BY <2>1, QueuesTyped, GoesSame
  <2>4. Goes(toPwa, toPwa', NoReady)
    BY <1>2, <2>2, GoesMore
  <2> QED
    BY <1>1, <2>1, <2>2, <2>3, <2>4 DEF CalmLink
<1>4. CASE HostReconnects
  <2>1. UNCHANGED linked /\ Goes(toHost, toHost', {}) /\ Goes(toPwa, toPwa', Words)
        /\ (~linked /\ toPwa = <<>> => toPwa' = <<>>)
    BY <1>4 DEF HostReconnects
  <2>2. Words \subseteq NoReady
    BY DEF Words, NoReady
  <2>3. Goes(toHost, toHost', NoHello) /\ Goes(toPwa, toPwa', NoReady)
    BY <2>1, <2>2, GoesMore
  <2> QED
    BY <1>1, <2>1, <2>3 DEF CalmLink
<1> QED
  BY <1>3, <1>4

LEMMA SyncAdds ==
  ASSUME HostTypes, NEW b, Serviceable(b), NEW f \in ClientFrame, f.type = "sync", Sync(b, f)
  PROVE  Adds(NoReady)
<1>1. PICK frames \in Seq(Chunk \cup {ResetFrame(b)}) : Post(frames)
  BY SyncTyped
<1>2. Chunk \cup {ResetFrame(b)} \subseteq NoReady
  <2>1. ResetFrame(b) \in NoReady
    BY ResetTyped DEF NoReady, ResetFrame
  <2>2. Chunk \subseteq NoReady
    BY DEF NoReady, ServerFrame, Chunk
  <2> QED
    BY <2>1, <2>2
<1>3. frames \in Seq(NoReady)
  BY <1>2, SeqMonotonic
<1> QED
  BY <1>1, <1>3, PostAdds

LEMMA ServesCalm ==
  ASSUME SessionTypes, HostServes, UNCHANGED pwaVars,
         ~(Head(toHost).type = "hello" /\ Hello(Server, Head(toHost)))
  PROVE  CalmLink
<1>1. UNCHANGED <<phase, hello, rids, linked>> /\ toHost # <<>> /\ toHost' = Tail(toHost)
  BY DEF pwaVars, linkVars, HostServes
<1>2. Goes(toHost, toHost', NoHello)
  <2>1. PICK q : q = toHost
    OBVIOUS
  <2>2. Goes(q, Tail(q), NoHello)
    BY <1>1, <2>1, QueuesTyped, GoesTail
  <2> QED
    BY <1>1, <2>1, <2>2
<1>3. PICK b, f : b = Server /\ f = Head(toHost)
  OBVIOUS
<1>4. HostTypes /\ Serviceable(b) /\ f \in ClientFrame /\ Serves(b, f)
  BY <1>3, ServerTyped DEF HostServes, SessionTypes
<1>5. Words \subseteq NoReady /\ NoReady \in SUBSET ServerFrame
  BY DEF Words, NoReady
<1>6. Adds(NoReady)
  <2>1. CASE UNCHANGED toPwa
    BY <1>4, <2>1, NothingAdded
  <2>2. CASE Minor(b)
    BY <1>5, <2>2, AddsMore DEF Minor
  <2>3. CASE f.type = "sync" /\ Sync(b, f)
    BY <1>4, <2>3, SyncAdds
  <2> QED
    BY <1>3, <1>4, <2>1, <2>2, <2>3 DEF Serves
<1>7. Goes(toPwa, toPwa', NoReady) /\ (~linked => toPwa' = toPwa)
  BY <1>4, <1>5, <1>6, AddsGoes
<1> QED
  BY <1>1, <1>2, <1>7 DEF CalmLink

LEMMA TalksCalm ==
  ASSUME SessionTypes, Talks
  PROVE  CalmLink
<1>1. Plain \in SUBSET ClientFrame /\ Plain \subseteq NoHello
  BY DEF Plain, NoHello
<1>2. Says(Plain)
  BY DEF Talks
<1>3. Goes(toHost, toHost', NoHello)
  BY <1>1, <1>2, SaysGoes, GoesMore
<1>4. Goes(toPwa, toPwa', NoReady)
  <2>1. PICK q : q = toPwa
    OBVIOUS
  <2>2. q \in Seq(ServerFrame)
    BY <2>1, QueuesTyped
  <2>3. CASE toPwa' = toPwa
    BY <2>1, <2>2, <2>3, GoesSame
  <2>4. CASE toPwa # <<>> /\ toPwa' = Tail(toPwa)
    BY <2>1, <2>2, <2>4, GoesTail
  <2> QED
    BY <2>3, <2>4 DEF Talks
<1> QED
  BY <1>3, <1>4 DEF Talks, CalmLink

LEMMA LoadEarlierSays ==
  ASSUME SessionTypes, LoadEarlier
  PROVE  Says({f \in ClientFrame : f.type = "sync"})
<1> DEFINE f == [type |-> "sync", rid |-> rids + 1, gen |-> scope.gen, before |-> before]
<1>1. f \in ClientFrame
  <2>1. rids + 1 \in Nat /\ scope.gen \in Nat /\ before \in Optional(Nat)
    BY DEF LoadEarlier, SessionTypes, LinkTypeOK, ViewTypeOK, TransferTypeOK, Optional, Scope
  <2> QED
    BY <2>1 DEF ClientFrame
<1>2. toHost' = Append(toHost, f) /\ f.type = "sync"
  BY DEF LoadEarlier
<1> HIDE DEF f
<1>3. PICK New : New = {g \in ClientFrame : g.type = "sync"}
  OBVIOUS
<1>4. New \in SUBSET ClientFrame /\ f \in New
  BY <1>1, <1>2, <1>3
<1> QED
  BY <1>2, <1>3, <1>4, SaysOne

LEMMA LoadEarlierCalm ==
  ASSUME SessionTypes, LoadEarlier
  PROVE  CalmLink
<1>1. PICK New : New = {f \in ClientFrame : f.type = "sync"}
  OBVIOUS
<1>2. New \in SUBSET ClientFrame /\ New \subseteq NoHello
  BY <1>1 DEF NoHello
<1>3. Goes(toHost, toHost', NoHello)
  BY <1>1, <1>2, LoadEarlierSays, SaysGoes, GoesMore
<1>4. UNCHANGED <<toPwa, linked, phase, hello>> /\ rids' = rids + 1
  BY DEF LoadEarlier
<1>5. Goes(toPwa, toPwa', NoReady)
  BY <1>4, QueuesTyped, GoesSame
<1> QED
  BY <1>3, <1>4, <1>5 DEF CalmLink

LEMMA StutterCalm ==
  ASSUME SessionTypes, UNCHANGED vars
  PROVE  CalmLink
<1>1. UNCHANGED <<toHost, toPwa, linked, phase, hello, rids>>
  BY DEF vars, hostVars, netVars, linkVars
<1> QED
  BY <1>1, QueuesTyped, GoesSame DEF CalmLink

LEMMA HelloKeepsLink ==
  ASSUME SessionTypes, SessionTypes', LinkInv, HostServes, UNCHANGED pwaVars,
         Head(toHost).type = "hello", Hello(Server, Head(toHost))
  PROVE  LinkInv'
<1> DEFINE f == Head(toHost)
           ready == [type |-> "ready", session |-> Server.session, gen |-> Server.gen,
                     rid |-> f.rid]
<1>1. UNCHANGED <<phase, hello, rids, linked>> /\ toHost # <<>> /\ toHost' = Tail(toHost)
  BY DEF pwaVars, linkVars, HostServes
<1>2. Post(<<ready>>)
  BY DEF Hello
<1>3. /\ toHost \in Seq(ClientFrame) /\ Len(toHost) \in Nat
      /\ toPwa \in Seq(ServerFrame) /\ Len(toPwa) \in Nat /\ rids \in Nat
      /\ \A i \in 1..Len(toHost) : toHost[i].rid \in Nat
      /\ \A i \in 1..Len(toPwa) : toPwa[i] \in ServerFrame
  BY QueuesTyped
<1>4. /\ f = toHost[1] /\ 1 \in 1..Len(toHost) /\ Len(toHost') = Len(toHost) - 1
      /\ \A i \in 1..Len(toHost') : i + 1 \in 1..Len(toHost) /\ toHost'[i] = toHost[i + 1]
  BY <1>1, <1>3, HeadTailProperties, EmptySeq
<1>5. f.type = "hello" /\ f.rid \in Nat
  BY <1>3, <1>4
<1> HIDE DEF f
<1>6. ready.type = "ready" /\ ready.rid = f.rid
  OBVIOUS
<1> HIDE DEF ready
<1>7. \A i \in 1..Len(toPwa') : \/ i \in 1..Len(toPwa) /\ toPwa'[i] = toPwa[i]
                                \/ linked /\ toPwa'[i] = ready
  BY <1>2, <1>3 DEF Post
<1>8. ~linked => toPwa' = toPwa
  BY <1>2 DEF Post
<1>9. (linked <=> phase # "off")' /\ (hello <= rids /\ (phase # "hello" => hello = 0))'
      /\ (~linked => toPwa = <<>>)'
  BY <1>1, <1>8 DEF LinkInv
<1>10. \A i \in 1..Len(toHost') : toHost'[i].type = "hello" =>
         /\ 1 <= toHost'[i].rid /\ toHost'[i].rid <= rids'
         /\ phase' # "online" /\ (phase' = "hello" => toHost'[i].rid <= hello')
         /\ f.rid < toHost'[i].rid
  <2> SUFFICES ASSUME NEW i \in 1..Len(toHost'), toHost'[i].type = "hello"
               PROVE  /\ 1 <= toHost'[i].rid /\ toHost'[i].rid <= rids'
                      /\ phase' # "online" /\ (phase' = "hello" => toHost'[i].rid <= hello')
                      /\ f.rid < toHost'[i].rid
    OBVIOUS
  <2>1. i + 1 \in 1..Len(toHost) /\ toHost'[i] = toHost[i + 1] /\ 1 < i + 1
    BY <1>4
  <2> QED
    BY <1>1, <1>4, <1>5, <2>1 DEF LinkInv
<1>11. \A i, j \in 1..Len(toHost') :
        i < j /\ toHost'[i].type = "hello" /\ toHost'[j].type = "hello" =>
          toHost'[i].rid < toHost'[j].rid
  <2> SUFFICES ASSUME NEW i \in 1..Len(toHost'), NEW j \in 1..Len(toHost'), i < j,
                      toHost'[i].type = "hello", toHost'[j].type = "hello"
               PROVE  toHost'[i].rid < toHost'[j].rid
    OBVIOUS
  <2>1. /\ i + 1 \in 1..Len(toHost) /\ toHost'[i] = toHost[i + 1]
        /\ j + 1 \in 1..Len(toHost) /\ toHost'[j] = toHost[j + 1] /\ i + 1 < j + 1
    BY <1>4
  <2> QED
    BY <2>1 DEF LinkInv
<1>12. \A k \in 1..Len(toPwa') : toPwa'[k].type = "ready" =>
         /\ 1 <= toPwa'[k].rid /\ toPwa'[k].rid <= rids'
         /\ \A i \in 1..Len(toHost') : toHost'[i].type = "hello" => toPwa'[k].rid < toHost'[i].rid
  <2> SUFFICES ASSUME NEW k \in 1..Len(toPwa'), toPwa'[k].type = "ready"
               PROVE  /\ 1 <= toPwa'[k].rid /\ toPwa'[k].rid <= rids'
                      /\ \A i \in 1..Len(toHost') :
                           toHost'[i].type = "hello" => toPwa'[k].rid < toHost'[i].rid
    OBVIOUS
  <2>1. CASE k \in 1..Len(toPwa) /\ toPwa'[k] = toPwa[k]
    <3>1. /\ 1 <= toPwa[k].rid /\ toPwa[k].rid <= rids
          /\ \A i \in 1..Len(toHost) : toHost[i].type = "hello" => toPwa[k].rid < toHost[i].rid
      BY <2>1 DEF LinkInv
    <3> QED
      BY <1>1, <1>4, <2>1, <3>1
  <2>2. CASE toPwa'[k] = ready
    <3>1. 1 <= f.rid /\ f.rid <= rids
      BY <1>4, <1>5 DEF LinkInv
    <3> QED
      BY <1>1, <1>6, <1>10, <2>2, <3>1
  <2> QED
    BY <1>7, <2>1, <2>2
<1> QED
  BY <1>9, <1>10, <1>11, <1>12 DEF LinkInv

LEMMA SaidKeepsLink ==
  ASSUME SessionTypes, SessionTypes', LinkInv, SayHello(toHost), linked' = TRUE,
         Goes(toPwa, toPwa', {})
  PROVE  LinkInv'
<1>1. /\ toHost \in Seq(ClientFrame) /\ Len(toHost) \in Nat /\ Len(toPwa) \in Nat
      /\ rids \in Nat /\ hello \in Nat
      /\ \A i \in 1..Len(toHost) : toHost[i].rid \in Nat
      /\ \A i \in 1..Len(toPwa) : toPwa[i] \in ServerFrame
  BY QueuesTyped
<1>2. PICK f : f = [type |-> "hello", rid |-> rids + 1]
  OBVIOUS
<1>3. f.type = "hello" /\ f.rid = rids + 1 /\ f \in ClientFrame
  BY <1>1, <1>2 DEF ClientFrame
<1>4. /\ phase' = "hello" /\ hello' = rids + 1 /\ rids' = rids + 1
      /\ toHost' = Append(toHost, f)
  BY <1>2 DEF SayHello
<1>5. /\ Len(toHost') = Len(toHost) + 1
      /\ \A i \in 1..Len(toHost) : toHost'[i] = toHost[i]
      /\ toHost'[Len(toHost) + 1] = f
  BY <1>1, <1>3, <1>4, AppendProperties
<1>6. \A i \in 1..Len(toHost') : \/ i \in 1..Len(toHost) /\ toHost'[i] = toHost[i]
                                 \/ i = Len(toHost) + 1 /\ toHost'[i] = f
  BY <1>1, <1>5
<1>7. \A k \in 1..Len(toPwa') : \E l \in 1..Len(toPwa) : toPwa'[k] = toPwa[l]
  <2>1. PICK d, n \in Nat :
          /\ n <= Len(toPwa')
          /\ \A i \in 1..n : i + d \in 1..Len(toPwa) /\ toPwa'[i] = toPwa[i + d]
          /\ \A i \in 1..Len(toPwa') : i > n => toPwa'[i] \in {}
    BY DEF Goes
  <2>2. Len(toPwa') \in Nat
    BY QueuesTypedNext
  <2> SUFFICES ASSUME NEW k \in 1..Len(toPwa')
               PROVE  \E l \in 1..Len(toPwa) : toPwa'[k] = toPwa[l]
    OBVIOUS
  <2>3. k \in 1..n
    BY <2>1, <2>2
  <2> QED
    BY <2>1, <2>3
<1>8. (linked <=> phase # "off")' /\ (hello <= rids /\ (phase # "hello" => hello = 0))'
      /\ (~linked => toPwa = <<>>)'
  BY <1>1, <1>4
<1>9. \A i \in 1..Len(toHost) : toHost[i].type = "hello" =>
        1 <= toHost[i].rid /\ toHost[i].rid <= rids
  BY DEF LinkInv
<1>10. \A i \in 1..Len(toHost') : toHost'[i].type = "hello" =>
         /\ 1 <= toHost'[i].rid /\ toHost'[i].rid <= rids'
         /\ phase' # "online" /\ (phase' = "hello" => toHost'[i].rid <= hello')
  BY <1>1, <1>3, <1>4, <1>6, <1>9
<1>11. \A i, j \in 1..Len(toHost') :
         i < j /\ toHost'[i].type = "hello" /\ toHost'[j].type = "hello" =>
           toHost'[i].rid < toHost'[j].rid
  <2> SUFFICES ASSUME NEW i \in 1..Len(toHost'), NEW j \in 1..Len(toHost'), i < j,
                      toHost'[i].type = "hello", toHost'[j].type = "hello"
               PROVE  toHost'[i].rid < toHost'[j].rid
    OBVIOUS
  <2>1. i \in 1..Len(toHost) /\ toHost'[i] = toHost[i]
    BY <1>1, <1>5, <1>6
  <2>2. CASE j \in 1..Len(toHost) /\ toHost'[j] = toHost[j]
    BY <2>1, <2>2 DEF LinkInv
  <2>3. CASE toHost'[j] = f
    BY <1>1, <1>3, <1>9, <2>1, <2>3
  <2> QED
    BY <1>6, <2>2, <2>3
<1>12. \A k \in 1..Len(toPwa') : toPwa'[k].type = "ready" =>
         /\ 1 <= toPwa'[k].rid /\ toPwa'[k].rid <= rids'
         /\ \A i \in 1..Len(toHost') : toHost'[i].type = "hello" => toPwa'[k].rid < toHost'[i].rid
  <2> SUFFICES ASSUME NEW k \in 1..Len(toPwa'), toPwa'[k].type = "ready"
               PROVE  /\ 1 <= toPwa'[k].rid /\ toPwa'[k].rid <= rids'
                      /\ \A i \in 1..Len(toHost') :
                           toHost'[i].type = "hello" => toPwa'[k].rid < toHost'[i].rid
    OBVIOUS
  <2>1. PICK l \in 1..Len(toPwa) : toPwa'[k] = toPwa[l]
    BY <1>7
  <2>2. /\ 1 <= toPwa[l].rid /\ toPwa[l].rid <= rids
        /\ \A i \in 1..Len(toHost) : toHost[i].type = "hello" => toPwa[l].rid < toHost[i].rid
    BY <2>1 DEF LinkInv
  <2>3. toPwa[l].rid \in Nat
    BY <1>1, <2>1, ReadyRid
  <2>4. \A i \in 1..Len(toHost') : toHost'[i].type = "hello" => toPwa'[k].rid < toHost'[i].rid
    BY <1>1, <1>3, <1>6, <2>1, <2>2, <2>3
  <2> QED
    BY <1>1, <1>4, <2>1, <2>2, <2>3, <2>4
<1> QED
  BY <1>8, <1>10, <1>11, <1>12 DEF LinkInv

LEMMA LoseKeepsLink ==
  ASSUME SessionTypes, SessionTypes', LinkInv, LoseLink
  PROVE  LinkInv'
<1>1. /\ toHost \in Seq(ClientFrame) /\ Len(toHost) \in Nat
      /\ rids \in Nat /\ \A i \in 1..Len(toHost) : toHost[i].rid \in Nat
  BY QueuesTyped
<1>2. /\ linked' = FALSE /\ toPwa' = <<>> /\ toHost' \in Prefixes(toHost)
      /\ phase' = "off" /\ hello' = 0 /\ rids' = rids
  BY DEF LoseLink
<1>3. PICK q : q = toHost
  OBVIOUS
<1>4. Len(toHost') <= Len(toHost) /\ \A i \in 1..Len(toHost') : toHost'[i] = toHost[i]
  BY <1>1, <1>2, <1>3, PrefixIs
<1>5. Len(toHost') \in Nat /\ Len(toPwa') = 0
  BY <1>2, QueuesTypedNext
<1>6. \A i \in 1..Len(toHost') : i \in 1..Len(toHost) /\ toHost'[i] = toHost[i]
  BY <1>1, <1>4, <1>5
<1>7. \A i \in 1..Len(toHost') : toHost'[i].type = "hello" =>
         /\ 1 <= toHost'[i].rid /\ toHost'[i].rid <= rids'
         /\ phase' # "online" /\ (phase' = "hello" => toHost'[i].rid <= hello')
  BY <1>2, <1>6 DEF LinkInv
<1>8. \A i, j \in 1..Len(toHost') :
         i < j /\ toHost'[i].type = "hello" /\ toHost'[j].type = "hello" =>
           toHost'[i].rid < toHost'[j].rid
  BY <1>6 DEF LinkInv
<1> QED
  BY <1>1, <1>2, <1>5, <1>7, <1>8 DEF LinkInv

LEMMA EnterKeepsLink ==
  ASSUME SessionTypes, SessionTypes', LinkInv, toPwa # <<>>, toPwa' = Tail(toPwa),
         UNCHANGED linked, NEW f, f = Head(toPwa), f.type = "ready", f.rid = hello, EnterScope(f)
  PROVE  LinkInv'
<1>1. /\ toHost \in Seq(ClientFrame) /\ Len(toHost) \in Nat
      /\ toPwa \in Seq(ServerFrame) /\ Len(toPwa) \in Nat /\ rids \in Nat
      /\ \A i \in 1..Len(toHost) : toHost[i].rid \in Nat
      /\ \A i \in 1..Len(toPwa) : toPwa[i] \in ServerFrame
  BY QueuesTyped
<1>2. PICK g : g = [type |-> "sync", rid |-> rids + 1, gen |-> f.gen, before |-> None]
  OBVIOUS
<1>3. /\ f = toPwa[1] /\ 1 \in 1..Len(toPwa) /\ Len(toPwa') = Len(toPwa) - 1
      /\ \A i \in 1..Len(toPwa') : i + 1 \in 1..Len(toPwa) /\ toPwa'[i] = toPwa[i + 1]
  BY <1>1, HeadTailProperties, EmptySeq
<1>4. f.gen \in Nat /\ f.rid \in Nat
  BY <1>1, <1>3, ServerFields
<1>5. g.type = "sync" /\ g \in ClientFrame
  BY <1>1, <1>2, <1>4 DEF ClientFrame, Optional
<1>6. /\ phase' = "online" /\ hello' = 0 /\ rids' = rids + 1
      /\ toHost' = Append(toHost, g)
  BY <1>2 DEF EnterScope
<1>7. /\ Len(toHost') = Len(toHost) + 1
      /\ \A i \in 1..Len(toHost) : toHost'[i] = toHost[i]
      /\ toHost'[Len(toHost) + 1] = g
  BY <1>1, <1>5, <1>6, AppendProperties
<1>8. \A i \in 1..Len(toHost) : toHost[i].type # "hello"
  <2> SUFFICES ASSUME NEW i \in 1..Len(toHost), toHost[i].type = "hello"
               PROVE  FALSE
    OBVIOUS
  <2>1. 1 <= f.rid /\ f.rid < toHost[i].rid
    BY <1>3 DEF LinkInv
  <2>2. hello # 0
    BY <2>1
  <2>3. phase = "hello"
    BY <2>2 DEF LinkInv
  <2>4. toHost[i].rid <= hello
    BY <2>3 DEF LinkInv
  <2> QED
    BY <1>1, <1>4, <2>1, <2>4
<1>9. \A i \in 1..Len(toHost') : toHost'[i].type # "hello"
  <2> SUFFICES ASSUME NEW i \in 1..Len(toHost')
               PROVE  toHost'[i].type # "hello"
    OBVIOUS
  <2>1. i \in 1..Len(toHost) \/ i = Len(toHost) + 1
    BY <1>1, <1>7
  <2> QED
    BY <1>5, <1>7, <1>8, <2>1
<1>10. linked
  <2>1. toPwa # <<>>
    OBVIOUS
  <2> QED
    BY <2>1 DEF LinkInv
<1>11. \A k \in 1..Len(toPwa') : toPwa'[k].type = "ready" =>
         1 <= toPwa'[k].rid /\ toPwa'[k].rid <= rids'
  <2> SUFFICES ASSUME NEW k \in 1..Len(toPwa'), toPwa'[k].type = "ready"
               PROVE  1 <= toPwa'[k].rid /\ toPwa'[k].rid <= rids'
    OBVIOUS
  <2>1. PICK l : l = k + 1
    OBVIOUS
  <2>2. l \in 1..Len(toPwa) /\ toPwa'[k] = toPwa[l]
    BY <1>3, <2>1
  <2>3. 1 <= toPwa[l].rid /\ toPwa[l].rid <= rids /\ toPwa[l].rid \in Nat
    BY <1>1, <2>2, ReadyRid DEF LinkInv
  <2> QED
    BY <1>1, <1>6, <2>2, <2>3
<1> QED
  BY <1>1, <1>6, <1>9, <1>10, <1>11 DEF LinkInv

(* The page starts the session anew while it is connected.                 *)
StartsAnew ==
  /\ linked /\ linked' = linked
  /\ \E sc \in {None, scope} : \E coming \in {toPwa, Tail(toPwa)} : Rejoin(sc, coming)
  /\ toPwa' \in Seq(ServerFrame) /\ Goes(toPwa, toPwa', {})

Enters ==
  /\ toPwa # <<>> /\ toPwa' = Tail(toPwa) /\ UNCHANGED linked
  /\ Head(toPwa).type = "ready" /\ Head(toPwa).rid = hello /\ EnterScope(Head(toPwa))

(* A frame is taken, or dropped.                                           *)
Hears ==
  LET f == Head(toPwa) IN
  /\ toPwa # <<>> /\ toPwa' = Tail(toPwa) /\ UNCHANGED linked
  /\ \/ Expected(f) /\ f.type # "ready" /\ Take(f)
     \/ ~Expected(f) /\ UNCHANGED <<pwaVars, toHost>>

LEMMA AnewGoes ==
  ASSUME SessionTypes, NEW sc, NEW coming \in {toPwa, Tail(toPwa)},
         coming = Tail(toPwa) => toPwa # <<>>, Rejoin(sc, coming)
  PROVE  toPwa' \in Seq(ServerFrame) /\ Goes(toPwa, toPwa', {})
<1>1. PICK q : q = toPwa
  OBVIOUS
<1>2. q \in Seq(ServerFrame)
  BY <1>1, QueuesTyped
<1>3. toPwa' \in Suffixes(coming)
  BY DEF Rejoin
<1>4. CASE coming = q
  <2>1. toPwa' \in Suffixes(q)
    BY <1>3, <1>4
  <2> QED
    BY <1>1, <1>2, <2>1, GoesSuffix
<1>5. CASE coming = Tail(q) /\ q # <<>>
  <2>1. /\ Len(q) \in Nat \ {0} /\ Len(coming) = Len(q) - 1 /\ coming \in Seq(ServerFrame)
        /\ \A i \in 1..Len(coming) : coming[i] = q[i + 1]
    BY <1>2, <1>5, HeadTailProperties, LenProperties, EmptySeq
  <2>2. toPwa' \in Seq(ServerFrame)
    BY <1>3, <2>1, SuffixIs
  <2>3. PICK k \in 0..Len(coming) :
          Len(toPwa') = Len(coming) - k /\ \A i \in 1..Len(toPwa') : toPwa'[i] = coming[i + k]
    BY <1>3, <2>1, SuffixIs
  <2>4. PICK t : t = toPwa'
    OBVIOUS
  <2>5. \A i \in 1..Len(t) : i + (k + 1) \in 1..Len(q) /\ t[i] = q[i + (k + 1)]
    <3> SUFFICES ASSUME NEW i \in 1..Len(t)
                 PROVE  i + (k + 1) \in 1..Len(q) /\ t[i] = q[i + (k + 1)]
      OBVIOUS
    <3>1. PICK j : j = i + k
      OBVIOUS
    <3>2. j \in 1..Len(coming) /\ t[i] = coming[j]
      BY <2>1, <2>3, <2>4, <3>1
    <3>3. coming[j] = q[j + 1] /\ j + 1 = i + (k + 1) /\ j + 1 \in 1..Len(q)
      BY <2>1, <2>3, <3>1, <3>2
    <3> QED
      BY <3>2, <3>3
  <2>6. Len(t) \in Nat /\ k + 1 \in Nat /\ Len(t) <= Len(t) /\ \A i \in 1..Len(t) : ~(i > Len(t))
    BY <2>1, <2>3, <2>4
  <2>7. Goes(q, t, {})
    BY <2>5, <2>6 DEF Goes
  <2> QED
    BY <1>1, <2>2, <2>4, <2>7
<1> QED
  BY <1>1, <1>4, <1>5

LEMMA ReceivesHow ==
  ASSUME SessionTypes, LinkInv, PwaReceives
  PROVE  /\ UNCHANGED hostSide /\ UNCHANGED <<linked, left>>
         /\ StartsAnew \/ Enters \/ Hears
<1> DEFINE f == Head(toPwa)
<1>1. /\ toPwa # <<>> /\ UNCHANGED hostSide /\ UNCHANGED <<linked, left>>
      /\ \/ Rejoin(None, Tail(toPwa)) \/ Rejoin(scope, Tail(toPwa))
         \/ Expected(f) /\ Take(f) /\ toPwa' = Tail(toPwa)
         \/ ~Expected(f) /\ toPwa' = Tail(toPwa) /\ UNCHANGED <<pwaVars, toHost>>
  BY DEF PwaReceives
<1>2. linked
  BY <1>1 DEF LinkInv
<1>3. linked = TRUE
  BY <1>2 DEF SessionTypes, HostTypes, HostTypeOK, NetTypeOK
<1>4. CASE Rejoin(None, Tail(toPwa)) \/ Rejoin(scope, Tail(toPwa))
  <2>1. toPwa' \in Seq(ServerFrame) /\ Goes(toPwa, toPwa', {})
    BY <1>1, <1>4, AnewGoes
  <2> QED
    BY <1>1, <1>2, <1>4, <2>1 DEF StartsAnew
<1>5. CASE Expected(f) /\ Take(f) /\ toPwa' = Tail(toPwa)
  <2>1. CASE f.type = "ready"
    <3>1. EnterScope(f) /\ f.rid = hello
      BY <1>5, <2>1 DEF Take, Expected
    <3> QED
      BY <1>1, <1>5, <2>1, <3>1 DEF Enters
  <2>2. CASE f.type # "ready"
    BY <1>1, <1>5, <2>2 DEF Hears
  <2> QED
    BY <2>1, <2>2
<1>6. CASE ~Expected(f) /\ toPwa' = Tail(toPwa) /\ UNCHANGED <<pwaVars, toHost>>
  BY <1>1, <1>6 DEF Hears
<1> QED
  BY <1>1, <1>4, <1>5, <1>6

LEMMA HearsTalks ==
  ASSUME SessionTypes, Hears
  PROVE  Talks
<1>1. /\ toPwa # <<>> /\ toPwa' = Tail(toPwa) /\ UNCHANGED linked
      /\ \/ Head(toPwa).type # "ready" /\ Take(Head(toPwa))
         \/ UNCHANGED <<pwaVars, toHost>>
  BY DEF Hears
<1>2. CASE Head(toPwa).type # "ready" /\ Take(Head(toPwa))
  BY <1>1, <1>2, TakeSays DEF Talks, linkVars
<1>3. CASE UNCHANGED <<pwaVars, toHost>>
  BY <1>1, <1>3, SaysNothing DEF Talks, pwaVars, linkVars, viewVars
<1> QED
  BY <1>1, <1>2, <1>3

(* The steps of the page.                                                  *)
PageActs ==
  \/ Connect \/ LoseLink \/ StartsAnew \/ Enters \/ Hears \/ LoadEarlier \/ RunTransaction
  \/ \E r \in Requests : SendMessage(r) \/ RetryUnknown(r)

LEMMA Steps ==
  ASSUME SessionTypes, LinkInv, [Next]_vars
  PROVE  \/ HostNext /\ UNCHANGED pwaVars
         \/ PageActs /\ UNCHANGED hostSide
         \/ UNCHANGED vars
<1>1. CASE RetryCurrentSession
  <2>1. phase # "off" /\ Rejoin(scope, toPwa) /\ UNCHANGED hostSide /\ UNCHANGED linked
    BY <1>1 DEF RetryCurrentSession
  <2>2. linked
    BY <2>1 DEF LinkInv
  <2>3. toPwa' \in Seq(ServerFrame) /\ Goes(toPwa, toPwa', {})
    <3>1. PICK q : q = toPwa
      OBVIOUS
    <3>2. q \in Seq(ServerFrame) /\ toPwa' \in Suffixes(q)
      BY <2>1, <3>1, QueuesTyped DEF Rejoin
    <3> QED
      BY <3>1, <3>2, GoesSuffix
  <2> QED
    BY <2>1, <2>2, <2>3 DEF StartsAnew, PageActs
<1>2. CASE PwaReceives
  BY <1>2, ReceivesHow DEF PageActs
<1>3. CASE Connect \/ LoseLink \/ LoadEarlier \/ RunTransaction
           \/ \E r \in Requests : SendMessage(r) \/ RetryUnknown(r)
  <2>1. UNCHANGED hostSide
    BY <1>3, PageRests
  <2> QED
    BY <1>3, <2>1 DEF PageActs
<1>4. CASE HostNext /\ UNCHANGED pwaVars
  BY <1>4
<1>5. CASE UNCHANGED vars
  BY <1>5
<1> QED
  BY <1>1, <1>2, <1>3, <1>4, <1>5 DEF Next

(* No step breaks the rules of the link.                                   *)
LEMMA NextLink ==
  ASSUME SessionTypes, SessionTypes', LinkInv, [Next]_vars
  PROVE  LinkInv'
<1>1. CASE HostNext /\ UNCHANGED pwaVars
  <2>1. HostMoves(News) \/ HostReconnects \/ HostServes
    BY <1>1, HostSteps DEF SessionTypes
  <2>2. CASE HostMoves(News) \/ HostReconnects
    BY <1>1, <2>2, HostCalm, CalmKeepsLink
  <2>3. CASE HostServes
    BY <1>1, <2>3, ServesCalm, CalmKeepsLink, HelloKeepsLink
  <2> QED
    BY <2>1, <2>2, <2>3
<1>2. CASE Connect
  <2>1. linked' = TRUE /\ SayHello(toHost) /\ toPwa' = toPwa
    BY <1>2 DEF Connect
  <2>2. Goes(toPwa, toPwa', {})
    BY <2>1, QueuesTyped, GoesSame
  <2> QED
    BY <2>1, <2>2, SaidKeepsLink
<1>3. CASE LoseLink
  BY <1>3, LoseKeepsLink
<1>4. CASE StartsAnew
  <2>1. SayHello(toHost) /\ linked' = TRUE /\ Goes(toPwa, toPwa', {})
    BY <1>4 DEF StartsAnew, Rejoin, SessionTypes, HostTypes, HostTypeOK, NetTypeOK
  <2> QED
    BY <2>1, SaidKeepsLink
<1>5. CASE Enters
  BY <1>5, EnterKeepsLink DEF Enters
<1>6. CASE Hears
  BY <1>6, HearsTalks, TalksCalm, CalmKeepsLink
<1>7. CASE LoadEarlier
  BY <1>7, LoadEarlierCalm, CalmKeepsLink
<1>8. CASE RunTransaction
  BY <1>8, TransactionTalks, TalksCalm, CalmKeepsLink
<1>9. CASE \E r \in Requests : SendMessage(r) \/ RetryUnknown(r)
  BY <1>9, UserTalks, TalksCalm, CalmKeepsLink
<1>10. CASE UNCHANGED vars
  BY <1>10, StutterCalm, CalmKeepsLink
<1> QED
  BY <1>1, <1>2, <1>3, <1>4, <1>5, <1>6, <1>7, <1>8, <1>9, <1>10, Steps DEF PageActs

LEMMA InitLink ==
  ASSUME Init
  PROVE  LinkInv
<1>1. /\ toHost = <<>> /\ toPwa = <<>> /\ linked = FALSE
      /\ phase = "off" /\ hello = 0 /\ rids = 0
  BY DEF Init, HostInit
<1>2. Len(toHost) = 0 /\ Len(toPwa) = 0
  BY <1>1
<1> QED
  BY <1>1, <1>2 DEF LinkInv

=============================================================================
