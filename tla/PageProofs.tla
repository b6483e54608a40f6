------------------------------ MODULE PageProofs ------------------------------
(***************************************************************************)
(* Proofs about OwnerPage, for every set of devices and endpoints, every   *)
(* number of runtimes, retries and pairing attempts, and every page it may *)
(* open on.                                                                *)
(***************************************************************************)
EXTENDS OwnerPage, FiniteSetTheorems, SequenceTheorems, TLAPS

-----------------------------------------------------------------------------
(* What the callbacks do to a page.                                        *)

LEMMA BoundIsPositive == MaxRetries \in Nat /\ MaxRetries >= 1
  BY OwnerConnectionAssumption

LEMMA PageFields ==
  ASSUME NEW p \in Page
  PROVE  /\ p.connection \in {"connecting", "retrying", "online", "offline", "no_network"}
         /\ p.state \in States /\ p.current \in BOOLEAN /\ p.scheduled \in BOOLEAN
         /\ p.timer \in BOOLEAN /\ p.retry \in Nat /\ p.retry <= MaxRetries
         /\ p.intentional \in BOOLEAN /\ p.channel \in Optional(Channel)
         /\ p.hello \in BOOLEAN /\ p.terminal \in BOOLEAN /\ p.identity \in Optional(Channel)
  BY BoundIsPositive DEF Page

(* What two pages have in common when only the connection to the relay     *)
(* differs.                                                                *)
SameSession(p, q) ==
  /\ q.channel = p.channel /\ q.hello = p.hello
  /\ q.terminal = p.terminal /\ q.identity = p.identity

LEMMA ClearedPage ==
  ASSUME NEW p \in Page
  PROVE  /\ Cleared(p) \in Page
         /\ Cleared(p).channel = None /\ Cleared(p).hello = FALSE
         /\ Cleared(p).connection = p.connection /\ Cleared(p).state = p.state
         /\ Cleared(p).current = p.current /\ Cleared(p).scheduled = p.scheduled
         /\ Cleared(p).timer = p.timer /\ Cleared(p).retry = p.retry
         /\ Cleared(p).intentional = p.intentional
         /\ Cleared(p).terminal = p.terminal /\ Cleared(p).identity = p.identity
  BY DEF Cleared, Page, Optional

(* A retry is counted once until it fires.                                 *)
LEMMA RetriedPage ==
  ASSUME NEW p \in Page, online \in BOOLEAN
  PROVE  /\ WithRetry(p) \in Page /\ SameSession(p, WithRetry(p))
         /\ WithRetry(p).state = p.state /\ WithRetry(p).current = p.current
         /\ WithRetry(p).intentional = p.intentional
         /\ \/ /\ WithRetry(p).retry = p.retry /\ WithRetry(p).timer = p.timer
               /\ WithRetry(p).scheduled = p.scheduled
               /\ \/ ~online /\ WithRetry(p).connection = "no_network"
                  \/ online /\ WithRetry(p).connection = "offline" /\ p.retry >= MaxRetries
                  \/ online /\ WithRetry(p).connection = p.connection /\ (~p.current \/ p.scheduled)
            \/ /\ online /\ p.current /\ ~p.scheduled
               /\ WithRetry(p).retry = p.retry + 1 /\ WithRetry(p).timer
               /\ WithRetry(p).scheduled /\ WithRetry(p).connection = "retrying"
<1>1. /\ p.retry \in Nat /\ p.retry <= MaxRetries /\ MaxRetries \in Nat
      /\ p.current \in BOOLEAN /\ p.scheduled \in BOOLEAN
  BY PageFields, BoundIsPositive
<1>2. CASE ~online
  <2>1. WithRetry(p) = [p EXCEPT !.connection = "no_network"]
    BY <1>2 DEF WithRetry
  <2> QED
    BY <1>2, <2>1 DEF Page, SameSession
<1>3. CASE online /\ p.retry >= MaxRetries
  <2>1. WithRetry(p) = [p EXCEPT !.connection = "offline"]
    BY <1>3 DEF WithRetry
  <2> QED
    BY <1>3, <2>1 DEF Page, SameSession
<1>4. CASE online /\ ~(p.retry >= MaxRetries) /\ (~p.current \/ p.scheduled)
  <2>1. WithRetry(p) = p
    BY <1>4 DEF WithRetry
  <2> QED
    BY <1>4, <2>1 DEF SameSession
<1>5. CASE online /\ ~(p.retry >= MaxRetries) /\ p.current /\ ~p.scheduled
  <2>1. WithRetry(p) = [p EXCEPT !.scheduled = TRUE, !.timer = TRUE, !.retry = @ + 1,
                                 !.connection = "retrying"]
    BY <1>5 DEF WithRetry
  <2>2. p.retry + 1 \in 0..MaxRetries
    BY <1>1, <1>5
  <2> QED
    BY <1>5, <2>1, <2>2 DEF Page, SameSession
<1> QED
  BY <1>1, <1>2, <1>3, <1>4, <1>5

(* A relay that is closed leaves no session.                               *)
IsClosed(p, r) ==
  /\ r \in Page /\ r.state = "closed" /\ r.channel = None /\ ~r.hello
  /\ r.current = p.current /\ r.terminal = p.terminal /\ r.identity = p.identity
  /\ ~r.intentional
  /\ ~online => r.connection = "no_network" /\ r.timer = p.timer
                /\ r.scheduled = p.scheduled /\ r.retry = p.retry
  /\ online /\ p.intentional =>
       /\ r.connection = "offline" /\ r.timer = p.timer
       /\ r.scheduled = p.scheduled /\ r.retry = p.retry
  /\ online /\ ~p.intentional =>
       \/ /\ r.retry = p.retry /\ r.timer = p.timer /\ r.scheduled = p.scheduled
          /\ r.timer \/ r.connection = "offline"
          /\ r.connection = p.connection \/ r.connection = "offline"
       \/ /\ p.current /\ ~p.scheduled /\ r.retry = p.retry + 1
          /\ r.timer /\ r.scheduled /\ r.connection = "retrying"

LEMMA ClosedPage ==
  ASSUME NEW p \in Page, online \in BOOLEAN
  PROVE  IsClosed(p, HeardClosed(p))
<1> DEFINE q == [Cleared(p) EXCEPT !.state = "closed"]
           r == HeardClosed(p)
<1>1. Cleared(p) \in Page
  BY ClearedPage
<1>2. /\ q \in Page /\ q.state = "closed" /\ q.channel = None /\ q.hello = FALSE
      /\ q.connection = p.connection /\ q.current = p.current /\ q.scheduled = p.scheduled
      /\ q.timer = p.timer /\ q.retry = p.retry /\ q.intentional = p.intentional
      /\ q.terminal = p.terminal /\ q.identity = p.identity
  BY <1>1, ClearedPage DEF Page, States
<1>3. p.retry \in Nat /\ p.timer \in BOOLEAN /\ p.intentional \in BOOLEAN
  BY PageFields
<1> SUFFICES IsClosed(p, r)
  OBVIOUS
<1>4. CASE ~online
  <2>1. r = [q EXCEPT !.intentional = FALSE, !.connection = "no_network"]
    BY <1>4 DEF HeardClosed
  <2> HIDE DEF q
  <2>2. /\ r \in Page /\ r.state = "closed" /\ r.channel = None /\ r.hello = FALSE
        /\ r.connection = "no_network" /\ r.current = p.current /\ r.scheduled = p.scheduled
        /\ r.timer = p.timer /\ r.retry = p.retry /\ r.intentional = FALSE
        /\ r.terminal = p.terminal /\ r.identity = p.identity
    BY <1>2, <2>1 DEF Page
  <2> HIDE DEF r
  <2> QED
    BY <1>4, <2>2 DEF IsClosed
<1>5. CASE online /\ p.intentional
  <2>1. r = [q EXCEPT !.intentional = FALSE, !.connection = "offline"]
    BY <1>5 DEF HeardClosed
  <2> HIDE DEF q
  <2>2. /\ r \in Page /\ r.state = "closed" /\ r.channel = None /\ r.hello = FALSE
        /\ r.connection = "offline" /\ r.current = p.current /\ r.scheduled = p.scheduled
        /\ r.timer = p.timer /\ r.retry = p.retry /\ r.intentional = FALSE
        /\ r.terminal = p.terminal /\ r.identity = p.identity
    BY <1>2, <2>1 DEF Page
  <2> HIDE DEF r
  <2> QED
    BY <1>5, <2>2 DEF IsClosed
<1>6. CASE online /\ ~p.intentional
  <2> DEFINE w == WithRetry(q)
  <2>1. r = IF w.retry = q.retry /\ ~w.timer THEN [w EXCEPT !.connection = "offline"] ELSE w
    BY <1>6 DEF HeardClosed
  <2> HIDE DEF q
  <2>2. /\ w \in Page /\ w.channel = None /\ w.hello = FALSE
        /\ w.terminal = p.terminal /\ w.identity = p.identity
        /\ w.state = "closed" /\ w.current = p.current /\ w.intentional = p.intentional
        /\ \/ /\ w.retry = p.retry /\ w.timer = p.timer /\ w.scheduled = p.scheduled
              /\ w.connection = "offline" \/ w.connection = p.connection
           \/ /\ p.current /\ ~p.scheduled
              /\ w.retry = p.retry + 1 /\ w.timer /\ w.scheduled /\ w.connection = "retrying"
    BY <1>2, <1>6, RetriedPage DEF SameSession
  <2> HIDE DEF w
  <2>3. CASE w.retry = q.retry /\ ~w.timer
    <3>1. r = [w EXCEPT !.connection = "offline"]
      BY <2>1, <2>3
    <3>2. /\ r \in Page /\ r.state = "closed" /\ r.channel = None /\ r.hello = FALSE
          /\ r.connection = "offline" /\ r.current = p.current /\ r.scheduled = w.scheduled
          /\ r.timer = w.timer /\ r.retry = w.retry /\ r.intentional = p.intentional
          /\ r.terminal = p.terminal /\ r.identity = p.identity
      BY <2>2, <3>1 DEF Page
    <3> HIDE DEF r
    <3> QED
      BY <1>2, <1>3, <1>6, <2>2, <2>3, <3>2 DEF IsClosed
  <2>4. CASE ~(w.retry = q.retry /\ ~w.timer)
    <3>1. r = w
      BY <2>1, <2>4
    <3> HIDE DEF r
    <3> QED
      BY <1>2, <1>3, <1>6, <2>2, <2>4, <3>1 DEF IsClosed
  <2> QED
    BY <2>3, <2>4
<1> QED
  BY <1>3, <1>4, <1>5, <1>6


LEMMA ConnectNowPage ==
  ASSUME NEW p \in Page
  PROVE  LET r == ConnectNow(p) IN
         /\ r \in Page /\ SameSession(p, r)
         /\ r.state = IF p.state = "closed" THEN "connecting" ELSE p.state
         /\ r.current /\ ~r.scheduled /\ ~r.timer /\ r.retry = 0 /\ ~r.intentional
         /\ r.connection = "connecting"
<1>1. 0 \in 0..MaxRetries
  BY BoundIsPositive
<1> QED
  BY <1>1 DEF ConnectNow, Page, States, SameSession

LEMMA RemountedPage ==
  ASSUME NEW p \in Page, NEW devices, online \in BOOLEAN
  PROVE  LET r == Remounted(p, devices) IN
         /\ r \in Page /\ r.channel = None /\ ~r.hello /\ r.terminal = p.terminal
         /\ ~r.timer /\ ~r.scheduled /\ r.retry = p.retry
         /\ r.intentional => p.intentional
         /\ devices = {} => r.state = "closed" /\ r.connection = p.connection
         /\ devices # {} => r.current
         /\ devices # {} /\ ~online => r.state = "closed" /\ r.connection = "no_network"
         /\ devices # {} /\ online => r.state = "connecting" /\ r.connection = "connecting"
<1> DEFINE q == [Cleared(p) EXCEPT !.timer = FALSE, !.current = FALSE, !.scheduled = FALSE,
                                   !.state = "closed"]
           r == Remounted(p, devices)
<1>1. Cleared(p) \in Page
  BY ClearedPage
<1>2. /\ q \in Page /\ q.state = "closed" /\ q.channel = None /\ q.hello = FALSE
      /\ q.connection = p.connection /\ q.current = FALSE /\ q.scheduled = FALSE
      /\ q.timer = FALSE /\ q.retry = p.retry /\ q.intentional = p.intentional
      /\ q.terminal = p.terminal
  BY <1>1, ClearedPage DEF Page, States
<1>3. r = IF devices = {} THEN q
          ELSE IF ~online THEN [q EXCEPT !.current = TRUE, !.connection = "no_network"]
          ELSE [q EXCEPT !.current = TRUE, !.intentional = FALSE, !.connection = "connecting",
                         !.state = "connecting"]
  BY DEF Remounted
<1> HIDE DEF q, r
<1>4. CASE devices = {}
  BY <1>2, <1>3, <1>4 DEF r
<1>5. CASE devices # {} /\ ~online
  <2>1. r = [q EXCEPT !.current = TRUE, !.connection = "no_network"]
    BY <1>3, <1>5
  <2>2. /\ r \in Page /\ r.state = "closed" /\ r.channel = None /\ ~r.hello
        /\ r.current /\ ~r.scheduled /\ ~r.timer /\ r.retry = p.retry
        /\ r.intentional = p.intentional /\ r.connection = "no_network"
        /\ r.terminal = p.terminal
    BY <1>2, <2>1 DEF Page
  <2> QED
    BY <1>5, <2>2 DEF r
<1>6. CASE devices # {} /\ online
  <2>1. r = [q EXCEPT !.current = TRUE, !.intentional = FALSE, !.connection = "connecting",
                      !.state = "connecting"]
    BY <1>3, <1>6
  <2>2. /\ r \in Page /\ r.state = "connecting" /\ r.channel = None /\ ~r.hello
        /\ r.current /\ ~r.scheduled /\ ~r.timer /\ r.retry = p.retry
        /\ ~r.intentional /\ r.connection = "connecting"
        /\ r.terminal = p.terminal
    BY <1>2, <2>1 DEF Page, States
  <2> QED
    BY <1>6, <2>2 DEF r
<1> QED
  BY <1>4, <1>5, <1>6

(* The session effect joins a session only over an open relay, and none    *)
(* that is over for good.                                                  *)
LEMMA TargetTyped ==
  ASSUME RegistryTypeOK
  PROVE  /\ Target \in Targets /\ Target # None
         /\ Target.device = ActiveDevice
         /\ ActiveDevice \in Optional(Devices) /\ (ActiveDevice # None => ActiveDevice \in listed)
         /\ Target.session # None => ActiveDevice # None
         /\ Target.session = None => ~Target.online
         /\ Target.online => ShowsOnline(shown)
<1>1. /\ active \in Optional(Devices) /\ chosen \in Optional(Endpoints) /\ listed \subseteq Devices
      /\ shown \in View
  BY DEF RegistryTypeOK
<1>2. ActiveDevice \in Optional(Devices) /\ (ActiveDevice # None => ActiveDevice \in listed)
  BY <1>1 DEF ActiveDevice, Optional
<1>3. ActiveEndpoint # None =>
        /\ ActiveEndpoint \in Endpoints /\ ActiveDevice # None /\ shown[ActiveEndpoint] # None
        /\ shown[ActiveEndpoint] \in Shown
  BY <1>1 DEF ActiveEndpoint, Optional, View
<1>4. CASE ActiveEndpoint = None
  <2>1. Target = [device |-> ActiveDevice, session |-> None, online |-> FALSE]
    BY <1>4 DEF Target
  <2>2. Target \in Targets
    BY <1>2, <2>1 DEF Targets, Optional
  <2> QED
    BY <1>2, <2>1, <2>2, TargetAssumption
<1>5. CASE ActiveEndpoint # None
  <2> DEFINE c == [endpoint |-> ActiveEndpoint, runtime |-> shown[ActiveEndpoint].runtime]
  <2>1. Target = [device |-> ActiveDevice, session |-> c, online |-> shown[ActiveEndpoint].online]
    BY <1>5 DEF Target
  <2>2. c \in Channel
    BY <1>3, <1>5 DEF Shown, Channel
  <2>3. shown[ActiveEndpoint].online \in BOOLEAN
    BY <1>3, <1>5 DEF Shown
  <2> HIDE DEF c
  <2>4. c # None
    BY <2>2, TargetAssumption
  <2>5. Target \in Targets
    BY <1>2, <2>1, <2>2, <2>3 DEF Targets, Optional
  <2>6. Target.online => ShowsOnline(shown)
    BY <1>3, <1>5, <2>1 DEF ShowsOnline
  <2> QED
    BY <1>2, <1>3, <1>5, <2>1, <2>4, <2>5, <2>6, TargetAssumption
<1> QED
  BY <1>4, <1>5

IsJoined(p, r) ==
  /\ r \in Page /\ r.state = p.state /\ r.current = p.current /\ r.scheduled = p.scheduled
  /\ r.timer = p.timer /\ r.retry = p.retry /\ r.intentional = p.intentional
  /\ \/ /\ r.channel = None /\ ~r.hello
        /\ \/ r.connection = "offline" /\ (~online \/ r.terminal \/ ~Target.online)
           \/ online /\ r.connection = "offline"
           \/ ~online /\ r.connection = "no_network"
           \/ /\ online /\ r.connection = "connecting" /\ Target.online
              /\ p.state \notin {"open", "closing"}
     \/ /\ r.channel = Target.session /\ Target.session # None /\ Target.online
        /\ r.hello /\ ~r.terminal /\ r.connection = "connecting"
        /\ p.state \in {"open", "closing"}

LEMMA JoinedPage ==
  ASSUME RegistryTypeOK, NEW p \in Page, online \in BOOLEAN
  PROVE  IsJoined(p, Joined(p))
<1> DEFINE q == [Cleared(p) EXCEPT !.identity = Target.session,
                                   !.terminal = @ /\ p.identity = Target.session]
           r == Joined(p)
<1>1. Target \in Targets /\ Target.session \in Optional(Channel) /\ Target.online \in BOOLEAN
  BY TargetTyped DEF Targets
<1>2. Cleared(p) \in Page /\ Cleared(p).terminal \in BOOLEAN
  BY ClearedPage, PageFields
<1>3. /\ q \in Page /\ q.state = p.state /\ q.channel = None /\ q.hello = FALSE
      /\ q.connection = p.connection /\ q.current = p.current /\ q.scheduled = p.scheduled
      /\ q.timer = p.timer /\ q.retry = p.retry /\ q.intentional = p.intentional
      /\ q.terminal \in BOOLEAN
  BY <1>1, <1>2, ClearedPage DEF Page
<1>4. r = IF q.terminal THEN [q EXCEPT !.connection = "offline"]
          ELSE IF Target.session = None \/ ~Target.online
          THEN [q EXCEPT !.connection = IF online THEN "offline" ELSE "no_network"]
          ELSE IF q.state \notin {"open", "closing"}
          THEN [q EXCEPT !.connection = IF online THEN "connecting" ELSE "no_network"]
          ELSE [q EXCEPT !.channel = Target.session, !.hello = TRUE, !.connection = "connecting"]
  BY DEF Joined
<1> HIDE DEF q, r
<1> SUFFICES IsJoined(p, r)
  BY DEF r
<1>5. ASSUME NEW c \in {"offline", "no_network", "connecting"}, r = [q EXCEPT !.connection = c]
      PROVE  /\ r \in Page /\ r.state = p.state /\ r.current = p.current
             /\ r.scheduled = p.scheduled /\ r.timer = p.timer /\ r.retry = p.retry
             /\ r.intentional = p.intentional /\ r.channel = None /\ ~r.hello
             /\ r.connection = c /\ r.terminal = q.terminal
  BY <1>3, <1>5 DEF Page
<1>6. CASE q.terminal
  <2>1. r = [q EXCEPT !.connection = "offline"]
    BY <1>4, <1>6
  <2> QED
    BY <1>5, <1>6, <2>1 DEF IsJoined
<1>7. CASE ~q.terminal /\ (Target.session = None \/ ~Target.online)
  <2>1. r = [q EXCEPT !.connection = IF online THEN "offline" ELSE "no_network"]
    BY <1>4, <1>7
  <2> QED
    BY <1>5, <1>7, <2>1 DEF IsJoined
<1>8. CASE ~q.terminal /\ ~(Target.session = None \/ ~Target.online) /\ q.state \notin {"open", "closing"}
  <2>1. r = [q EXCEPT !.connection = IF online THEN "connecting" ELSE "no_network"]
    BY <1>4, <1>8
  <2> QED
    BY <1>3, <1>5, <1>8, <2>1 DEF IsJoined
<1>9. CASE ~q.terminal /\ ~(Target.session = None \/ ~Target.online) /\ q.state \in {"open", "closing"}
  <2>1. r = [q EXCEPT !.channel = Target.session, !.hello = TRUE, !.connection = "connecting"]
    BY <1>4, <1>9
  <2>2. /\ r \in Page /\ r.state = p.state /\ r.current = p.current
        /\ r.scheduled = p.scheduled /\ r.timer = p.timer /\ r.retry = p.retry
        /\ r.intentional = p.intentional /\ r.channel = Target.session /\ r.hello
        /\ r.connection = "connecting" /\ r.terminal = q.terminal
    BY <1>1, <1>3, <2>1 DEF Page
  <2> QED
    BY <1>3, <1>9, <2>2 DEF IsJoined
<1> QED
  BY <1>6, <1>7, <1>8, <1>9


-----------------------------------------------------------------------------
(* Types.                                                                  *)

LEMMA RegistryTypes ==
  ASSUME RegistryTypeOK
  PROVE  /\ live \in [Endpoints -> 0..MaxRuntimes] /\ runtimes \in [Endpoints -> 0..MaxRuntimes]
         /\ rows \in [Endpoints -> 0..MaxRuntimes]
         /\ subscribed \subseteq Devices /\ due \subseteq Devices
         /\ stored \subseteq Devices /\ listed \subseteq Devices
         /\ setting \in [Devices -> Optional(Endpoints)] /\ shown \in View
         /\ history \in [Endpoints -> Seq(1..MaxRuntimes)]
         /\ epoch \in Nat /\ chain \in Seq(Operation)
         /\ active \in Optional(Devices) /\ chosen \in Optional(Endpoints)
         /\ overtaken \subseteq Devices /\ readded \subseteq Devices
         /\ left \in [Kinds -> Nat]
         /\ MaxRuntimes \in Nat /\ DeviceOf \in [Endpoints -> Devices]
  BY EndpointRegistryAssumption DEF RegistryTypeOK

LEMMA Tails ==
  ASSUME NEW S, NEW s \in Seq(S), s # <<>>
  PROVE  /\ 1 \in DOMAIN s /\ Head(s) = s[1] /\ Head(s) \in S
         /\ Tail(s) \in Seq(S) /\ Len(s) \in Nat
         /\ \A i \in DOMAIN Tail(s) :
              i \in Nat /\ i + 1 \in DOMAIN s /\ i + 1 # 1 /\ Tail(s)[i] = s[i + 1]
         /\ \A i \in DOMAIN s :
              i \in Nat /\ (i # 1 => i - 1 \in DOMAIN Tail(s) /\ Tail(s)[i - 1] = s[i])
<1>1. /\ Len(s) \in Nat \ {0} /\ DOMAIN s = 1..Len(s)
      /\ DOMAIN Tail(s) = 1..Len(Tail(s)) /\ Len(Tail(s)) = Len(s) - 1
      /\ \A i \in 1..Len(Tail(s)) : Tail(s)[i] = s[i + 1]
  BY LenProperties, HeadTailProperties, EmptySeq
<1>2. Head(s) = s[1] /\ Head(s) \in S /\ Tail(s) \in Seq(S)
  BY HeadTailProperties
<1> QED
  BY <1>1, <1>2

LEMMA Appended ==
  ASSUME NEW S, NEW s \in Seq(S), NEW x \in S
  PROVE  /\ Append(s, x) \in Seq(S) /\ Len(s) \in Nat /\ Len(s) + 1 \in Nat
         /\ DOMAIN Append(s, x) = DOMAIN s \cup {Len(s) + 1}
         /\ \A i \in DOMAIN s : i \in Nat /\ i < Len(s) + 1 /\ Append(s, x)[i] = s[i]
         /\ Append(s, x)[Len(s) + 1] = x
<1>1. Len(s) \in Nat /\ DOMAIN s = 1..Len(s)
  BY LenProperties
<1> QED
  BY <1>1, AppendProperties

LEMMA ViewEntry ==
  ASSUME NEW v \in View, NEW e \in Endpoints
  PROVE  v[e] \in Optional(Shown) /\ (v[e] # None => v[e] \in Shown)
  BY DEF View, Optional

LEMMA NothingTyped == Nothing \in View
  BY DEF Nothing, View, Optional

LEMMA OfflineTyped ==
  ASSUME NEW v \in View
  PROVE  /\ Offline(v) \in View /\ ~ShowsOnline(Offline(v))
         /\ \A e \in Endpoints :
              /\ Offline(v)[e] = None <=> v[e] = None
              /\ v[e] # None => ~Offline(v)[e].online /\ Offline(v)[e].runtime = v[e].runtime
<1>1. ASSUME NEW e \in Endpoints
      PROVE  /\ Offline(v)[e] \in Optional(Shown)
             /\ Offline(v)[e] = None <=> v[e] = None
             /\ v[e] # None => ~Offline(v)[e].online /\ Offline(v)[e].runtime = v[e].runtime
  <2>1. CASE v[e] = None
    BY <2>1 DEF Offline, Optional
  <2>2. CASE v[e] # None
    <3>1. v[e] \in Shown
      BY <2>2, ViewEntry
    <3>2. Offline(v)[e] = [v[e] EXCEPT !.online = FALSE]
      BY <2>2 DEF Offline
    <3>3. Offline(v)[e] \in Shown /\ ~Offline(v)[e].online /\ Offline(v)[e].runtime = v[e].runtime
      BY <3>1, <3>2 DEF Shown
    <3> QED
      BY <2>2, <3>3, ViewAssumption DEF Optional
  <2> QED
    BY <2>1, <2>2
<1>2. Offline(v) \in View
  BY <1>1 DEF Offline, View
<1> QED
  BY <1>1, <1>2 DEF ShowsOnline

LEMMA MergedTyped ==
  ASSUME NEW v \in View, NEW w \in View
  PROVE  Merged(v, w) \in View
  BY DEF Merged, View

LEMMA OfTyped ==
  ASSUME NEW v \in View, NEW d
  PROVE  Of(v, d) \in View
  BY DEF Of, View, Optional

LEMMA CarriedTyped ==
  ASSUME NEW v
  PROVE  /\ Carried(v) \subseteq Devices
         /\ \A e \in Endpoints : v[e] # None => DeviceOf[e] \in Carried(v)
         /\ \A d \in Carried(v) : \E e \in Endpoints : v[e] # None /\ DeviceOf[e] = d
  BY EndpointRegistryAssumption DEF Carried

LEMMA ReportedEntry ==
  ASSUME NEW v \in View, NEW e \in Endpoints, NEW r \in 1..MaxRuntimes, NEW b \in BOOLEAN
  PROVE  /\ [runtime |-> r, online |-> b] \in Shown
         /\ [v EXCEPT ![e] = [runtime |-> r, online |-> b]] \in View
<1>1. [runtime |-> r, online |-> b] \in Shown
  BY DEF Shown
<1> QED
  BY <1>1 DEF View, Optional

LEMMA RememberedTyped ==
  ASSUME RegistryTypeOK, NEW e \in Endpoints, NEW r \in 1..MaxRuntimes
  PROVE  Known(e) \in Seq(1..MaxRuntimes) /\ Remembered(e, r) \in Seq(1..MaxRuntimes)
<1>1. history[e] \in Seq(1..MaxRuntimes) /\ (shown[e] # None => shown[e].runtime \in 1..MaxRuntimes)
  BY RegistryTypes, ViewEntry DEF Shown
<1>2. Known(e) \in Seq(1..MaxRuntimes)
  BY <1>1, AppendProperties DEF Known
<1> QED
  BY <1>2, AppendProperties DEF Remembered

LEMMA PersistTyped ==
  ASSUME RegistryTypeOK, NEW d \in Devices, NEW next \in View, Persist(d, next)
  PROVE  chain' \in Seq(Operation) /\ readded' \subseteq Devices
<1>1. [device |-> d, epoch |-> epoch, next |-> next, step |-> "start"] \in Operation
  BY RegistryTypes DEF Operation
<1>2. Carried(next) \subseteq Devices
  BY CarriedTyped
<1> QED
  BY <1>1, <1>2, RegistryTypes, AppendProperties DEF Persist

LEMMA SpendTyped ==
  ASSUME RegistryTypeOK, NEW k \in Kinds, Spend(k)
  PROVE  left' \in [Kinds -> Nat]
<1>1. left \in [Kinds -> Nat]
  BY RegistryTypes
<1>2. left[k] - 1 \in Nat
  BY <1>1 DEF Spend
<1> QED
  BY <1>1, <1>2 DEF Spend

LEMMA EffectsTyped ==
  ASSUME RegistryTypeOK, setting' \in [Devices -> Optional(Endpoints)], listed' \subseteq Devices,
         NEW device \in Optional(Devices), NEW choice \in Optional(Endpoints),
         ActiveDeviceEffects(device, choice)
  PROVE  /\ loading' \in Optional([device : Devices, found : [Endpoints -> 0..MaxRuntimes]])
         /\ restoring' \in Optional([value : Optional(Endpoints)])
         /\ chosen' \in Optional(Endpoints) /\ shown' \in View /\ overtaken' \subseteq Devices
<1>1. CASE device = None
  <2>1. Carried(shown) \subseteq Devices
    BY CarriedTyped
  <2> QED
    BY <1>1, <2>1, NothingTyped, RegistryTypes DEF ActiveDeviceEffects, Optional
<1>2. CASE device # None
  <2>1. device \in Devices
    BY <1>2 DEF Optional
  <2>2. [e \in Endpoints |-> IF DeviceOf[e] = device THEN rows[e] ELSE 0]
          \in [Endpoints -> 0..MaxRuntimes]
    <3>1. 0 \in 0..MaxRuntimes
      BY EndpointRegistryAssumption
    <3> QED
      BY <3>1, RegistryTypes
  <2>3. /\ loading' = [device |-> device,
                       found |-> [e \in Endpoints |-> IF DeviceOf[e] = device THEN rows[e] ELSE 0]]
        /\ restoring' = [value |-> setting'[device]]
        /\ chosen' = choice /\ shown' = shown /\ overtaken' = overtaken \cup (listed' \ listed)
    BY <1>2 DEF ActiveDeviceEffects
  <2>4. loading' \in [device : Devices, found : [Endpoints -> 0..MaxRuntimes]]
    BY <2>1, <2>2, <2>3
  <2>5. restoring' \in [value : Optional(Endpoints)]
    BY <2>1, <2>3
  <2> QED
    BY <2>3, <2>4, <2>5, RegistryTypes DEF Optional
<1> QED
  BY <1>1, <1>2


LEMMA SelectionTypes ==
  ASSUME RegistryTypeOK,
         \/ FinishLoad \/ FinishRestore \/ RemoveData
         \/ \E d \in Devices : SelectDevice(d)
         \/ \E e \in Endpoints : SelectEndpoint(e)
  PROVE  RegistryTypeOK'
<1> USE DEF hostVars, tableVars, viewVars, selectionVars
<1>1. CASE FinishLoad
  <2> DEFINE base == [e \in Endpoints |-> IF loading.found[e] = 0 THEN None
                                          ELSE [runtime |-> loading.found[e], online |-> FALSE]]
  <2>1. loading \in [device : Devices, found : [Endpoints -> 0..MaxRuntimes]]
    BY <1>1 DEF FinishLoad, RegistryTypeOK, Optional
  <2>2. base \in View
    <3>1. ASSUME NEW e \in Endpoints, loading.found[e] # 0
          PROVE  [runtime |-> loading.found[e], online |-> FALSE] \in Shown
      <4>1. loading.found[e] \in 1..MaxRuntimes
        BY <2>1, <3>1, RegistryTypes
      <4> QED
        BY <4>1 DEF Shown
    <3> QED
      BY <3>1 DEF View, Optional
  <2>3. shown' = Merged(base, Of(shown, loading.device))
    BY <1>1 DEF FinishLoad
  <2> HIDE DEF base
  <2>4. shown' \in View
    BY <2>2, <2>3, MergedTyped, OfTyped, RegistryTypes
  <2>5. overtaken' \subseteq Devices /\ loading' = None
    BY <1>1, CarriedTyped, RegistryTypes DEF FinishLoad
  <2>6. UNCHANGED <<live, runtimes, subscribed, due, stored, rows, setting, listed, history, epoch,
                    chain, readded, active, chosen, restoring, removing, left>>
    BY <1>1 DEF FinishLoad
  <2> QED
    BY <2>4, <2>5, <2>6 DEF RegistryTypeOK, Optional
<1>2. CASE FinishRestore
  <2>1. restoring \in [value : Optional(Endpoints)]
    BY <1>2 DEF FinishRestore, RegistryTypeOK, Optional
  <2>2. chosen' \in Optional(Endpoints) /\ restoring' = None
    BY <1>2, <2>1 DEF FinishRestore
  <2>3. UNCHANGED <<live, runtimes, subscribed, due, stored, rows, setting, listed, shown, history,
                    epoch, chain, loading, overtaken, readded, active, removing, left>>
    BY <1>2 DEF FinishRestore
  <2> QED
    BY <2>2, <2>3 DEF RegistryTypeOK, Optional
<1>3. CASE RemoveData
  <2>1. removing \in [device : Devices, ahead : Nat, deleted : BOOLEAN]
    BY <1>3 DEF RemoveData, RegistryTypeOK, Optional
  <2>2. /\ removing' \in [device : Devices, ahead : Nat, deleted : BOOLEAN]
        /\ stored' \subseteq Devices
    BY <1>3, <2>1, RegistryTypes DEF RemoveData
  <2>3. rows' \in [Endpoints -> 0..MaxRuntimes] /\ setting' \in [Devices -> Optional(Endpoints)]
    <3>1. 0 \in 0..MaxRuntimes
      BY RegistryTypes
    <3> QED
      BY <1>3, <2>1, <3>1, RegistryTypes DEF RemoveData, Optional
  <2>4. UNCHANGED <<live, runtimes, subscribed, due, listed, shown, history, epoch, chain, loading,
                    overtaken, readded, active, chosen, restoring, left>>
    BY <1>3 DEF RemoveData
  <2> QED
    BY <2>2, <2>3, <2>4 DEF RegistryTypeOK, Optional
<1>4. CASE \E d \in Devices : SelectDevice(d)
  <2>1. PICK d \in Devices : SelectDevice(d)
    BY <1>4
  <2>2. /\ UNCHANGED <<live, runtimes, subscribed, due, stored, rows, setting, listed, history,
                       epoch, chain, removing, readded>>
        /\ active' = d /\ ActiveDeviceEffects(d, None) /\ Spend("select")
    BY <2>1 DEF SelectDevice
  <2>3. setting' \in [Devices -> Optional(Endpoints)] /\ listed' \subseteq Devices
    BY <2>2, RegistryTypes
  <2>4. d \in Optional(Devices) /\ None \in Optional(Endpoints) /\ "select" \in Kinds
    BY DEF Optional, Kinds
  <2>5. /\ loading' \in Optional([device : Devices, found : [Endpoints -> 0..MaxRuntimes]])
        /\ restoring' \in Optional([value : Optional(Endpoints)])
        /\ chosen' \in Optional(Endpoints) /\ shown' \in View /\ overtaken' \subseteq Devices
    BY ONLY RegistryTypeOK, <2>2, <2>3, <2>4, EffectsTyped
  <2>6. left' \in [Kinds -> Nat]
    BY <2>2, <2>4, SpendTyped
  <2> QED
    BY <2>2, <2>4, <2>5, <2>6 DEF RegistryTypeOK
<1>5. CASE \E e \in Endpoints : SelectEndpoint(e)
  <2>1. PICK e \in Endpoints : SelectEndpoint(e)
    BY <1>5
  <2>2. /\ UNCHANGED <<live, runtimes, subscribed, due, stored, rows, listed, shown, history, epoch,
                       chain, loading, overtaken, readded, active, removing>>
        /\ chosen' = e /\ restoring' = None /\ setting' = [setting EXCEPT ![active] = e]
        /\ Spend("select")
    BY <2>1 DEF SelectEndpoint
  <2>3. left' \in [Kinds -> Nat]
    BY <2>2, SpendTyped DEF Kinds
  <2>4. setting' \in [Devices -> Optional(Endpoints)] /\ chosen' \in Optional(Endpoints)
    BY <2>2, RegistryTypes DEF Optional
  <2> QED
    BY <2>2, <2>3, <2>4 DEF RegistryTypeOK, Optional
<1> QED
  BY <1>1, <1>2, <1>3, <1>4, <1>5

(* A report is handled: what it changes is typed.                          *)
LEMMA AppliedTyped ==
  ASSUME RegistryTypeOK, NEW e \in Endpoints, NEW r \in 1..MaxRuntimes,
         ApplyEvent(e, r) \/ ApplyEnd(e, r)
  PROVE  /\ history' \in [Endpoints -> Seq(1..MaxRuntimes)] /\ chain' \in Seq(Operation)
         /\ readded' \subseteq Devices /\ shown' \in View
<1>1. CASE ApplyEvent(e, r)
  <2>1. history' \in [Endpoints -> Seq(1..MaxRuntimes)] /\ shown' \in View
    BY <1>1, RememberedTyped, RegistryTypes DEF ApplyEvent
  <2>2. CASE Accepts(e, r)
    <3>1. [shown EXCEPT ![e] = [runtime |-> r, online |-> TRUE]] \in View
      BY ReportedEntry, RegistryTypes
    <3>2. Persist(DeviceOf[e], [shown EXCEPT ![e] = [runtime |-> r, online |-> TRUE]])
      BY <1>1, <2>2 DEF ApplyEvent
    <3>3. DeviceOf[e] \in Devices
      BY RegistryTypes
    <3> QED
      BY <2>1, <3>1, <3>2, <3>3, PersistTyped
  <2>3. CASE ~Accepts(e, r)
    BY <1>1, <2>1, <2>3, RegistryTypes DEF ApplyEvent
  <2> QED
    BY <2>2, <2>3
<1>2. CASE ApplyEnd(e, r)
  <2>1. shown' \in View
    <3>1. CASE shown[e] # None /\ shown[e].runtime = r
      <4>1. shown[e] \in Shown /\ [shown[e] EXCEPT !.online = FALSE] \in Shown
        BY <3>1, ViewEntry, RegistryTypes DEF Shown
      <4>2. shown' = [shown EXCEPT ![e] = [shown[e] EXCEPT !.online = FALSE]]
        BY <1>2, <3>1 DEF ApplyEnd
      <4> QED
        BY <4>1, <4>2, RegistryTypes DEF View, Optional
    <3>2. CASE ~(shown[e] # None /\ shown[e].runtime = r)
      BY <1>2, <3>2, RegistryTypes DEF ApplyEnd
    <3> QED
      BY <3>1, <3>2
  <2> QED
    BY <1>2, <2>1, RegistryTypes DEF ApplyEnd
<1> QED
  BY <1>1, <1>2

LEMMA Chained ==
  ASSUME RegistryTypeOK
  PROVE  /\ Len(chain) \in Nat /\ DOMAIN chain = 1..Len(chain)
         /\ \A i \in DOMAIN chain :
              /\ chain[i] \in Operation /\ chain[i].device \in Devices
              /\ chain[i].epoch \in Nat /\ chain[i].next \in View
<1>1. chain \in Seq(Operation)
  BY RegistryTypes
<1>2. /\ Len(chain) \in Nat /\ DOMAIN chain = 1..Len(chain)
      /\ \A i \in DOMAIN chain : chain[i] \in Operation
  BY <1>1, LenProperties, ElementOfSeq
<1> QED
  BY <1>2 DEF Operation

LEMMA PendingTyped ==
  ASSUME RegistryTypeOK
  PROVE  Pending \subseteq Devices
<1>1. \A i \in DOMAIN chain : chain[i].device \in Devices
  BY Chained
<1> QED
  BY <1>1, CarriedTyped DEF Pending

LEMMA HostTypes ==
  ASSUME RegistryTypeOK, NEW e \in Endpoints, HostStarts(e) \/ HostUpdates(e) \/ HostEnds(e)
  PROVE  RegistryTypeOK'
<1> USE DEF hostVars, tableVars, viewVars, selectionVars
<1>1. /\ live[e] \in 0..MaxRuntimes /\ runtimes[e] \in 0..MaxRuntimes /\ DeviceOf[e] \in Devices
      /\ MaxRuntimes \in Nat
  BY RegistryTypes
<1>2. /\ live' \in [Endpoints -> 0..MaxRuntimes] /\ runtimes' \in [Endpoints -> 0..MaxRuntimes]
      /\ due' = due /\ Spend("host")
  <2>0. live \in [Endpoints -> 0..MaxRuntimes] /\ runtimes \in [Endpoints -> 0..MaxRuntimes]
    BY RegistryTypes
  <2>1. CASE HostStarts(e)
    <3>1. runtimes' = [runtimes EXCEPT ![e] = @ + 1] /\ runtimes[e] + 1 \in 0..MaxRuntimes
      BY <1>1, <2>1 DEF HostStarts
    <3>2. live' = [live EXCEPT ![e] = runtimes'[e]]
      BY <2>1 DEF HostStarts
    <3>3. due' = due /\ Spend("host")
      BY <2>1 DEF HostStarts
    <3> QED
      BY <2>0, <3>1, <3>2, <3>3
  <2>2. CASE HostUpdates(e)
    BY <2>0, <2>2 DEF HostUpdates
  <2>3. CASE HostEnds(e)
    <3>1. live' = [live EXCEPT ![e] = 0] /\ UNCHANGED <<runtimes, due>> /\ Spend("host")
      BY <2>3 DEF HostEnds
    <3> QED
      BY <1>1, <2>0, <3>1
  <2> QED
    BY <2>1, <2>2, <2>3
<1>3. \E r \in 1..MaxRuntimes : Report(DeviceOf[e], ApplyEvent(e, r)) \/ Report(DeviceOf[e], ApplyEnd(e, r))
  <2>1. CASE HostStarts(e)
    <3>1. live'[e] \in 1..MaxRuntimes
      BY <1>1, <2>1, RegistryTypes DEF HostStarts
    <3> QED
      BY <2>1, <3>1 DEF HostStarts
  <2>2. CASE HostUpdates(e) \/ HostEnds(e)
    <3>1. live[e] \in 1..MaxRuntimes
      BY <1>1, <2>2 DEF HostUpdates, HostEnds
    <3> QED
      BY <2>2, <3>1 DEF HostUpdates, HostEnds
  <2> QED
    BY <2>1, <2>2
<1>4. PICK r \in 1..MaxRuntimes : Report(DeviceOf[e], ApplyEvent(e, r)) \/ Report(DeviceOf[e], ApplyEnd(e, r))
  BY <1>3
<1>5. UNCHANGED <<epoch, loading, stored, rows, setting, listed, active, chosen, restoring, removing,
                  subscribed>>
  BY <1>4 DEF Report
<1>6. /\ history' \in [Endpoints -> Seq(1..MaxRuntimes)] /\ chain' \in Seq(Operation)
      /\ readded' \subseteq Devices /\ shown' \in View /\ overtaken' \subseteq Devices
  <2>1. CASE DeviceOf[e] \in subscribed \cap listed
    <3>1. ApplyEvent(e, r) \/ ApplyEnd(e, r)
      BY <1>4, <2>1 DEF Report
    <3>2. overtaken' \subseteq Devices
      BY <1>4, <2>1, PendingTyped, RegistryTypes DEF Report
    <3> QED
      BY <3>1, <3>2, AppliedTyped
  <2>2. CASE DeviceOf[e] \notin subscribed \cap listed
    BY <1>4, <2>2, RegistryTypes DEF Report
  <2> QED
    BY <2>1, <2>2
<1>7. left' \in [Kinds -> Nat]
  BY <1>2, SpendTyped DEF Kinds
<1> QED
  BY <1>2, <1>5, <1>6, <1>7 DEF RegistryTypeOK

(* What a snapshot of a device makes of its endpoints.                     *)
Snapped(d) ==
  LET present == {e \in Endpoints : DeviceOf[e] = d /\ live[e] # 0} IN
  [e \in Endpoints |->
     IF DeviceOf[e] # d THEN None
     ELSE IF e \notin present THEN Offline(shown)[e]
     ELSE IF Accepts(e, live[e]) THEN [runtime |-> live[e], online |-> TRUE]
     ELSE shown[e]]

LEMMA SnappedTyped ==
  ASSUME RegistryTypeOK, NEW d
  PROVE  Snapped(d) \in View
<1> SUFFICES ASSUME NEW e \in Endpoints
             PROVE  Snapped(d)[e] \in Optional(Shown)
  BY DEF Snapped, View
<1>1. /\ shown[e] \in Optional(Shown) /\ Offline(shown)[e] \in Optional(Shown)
      /\ live[e] \in 0..MaxRuntimes /\ MaxRuntimes \in Nat
  BY RegistryTypes, ViewEntry, OfflineTyped
<1>2. live[e] # 0 => [runtime |-> live[e], online |-> TRUE] \in Shown
  <2> SUFFICES ASSUME live[e] # 0
               PROVE  [runtime |-> live[e], online |-> TRUE] \in Shown
    OBVIOUS
  <2>1. live[e] \in 1..MaxRuntimes
    BY <1>1
  <2> QED
    BY <2>1 DEF Shown
<1>3. Snapped(d)[e] \in {None, Offline(shown)[e], shown[e]}
        \/ (live[e] # 0 /\ Snapped(d)[e] = [runtime |-> live[e], online |-> TRUE])
  BY DEF Snapped
<1> QED
  BY <1>1, <1>2, <1>3 DEF Optional

LEMMA SnapshotTypes ==
  ASSUME RegistryTypeOK, NEW d \in Devices, Snapshot(d)
  PROVE  RegistryTypeOK'
<1> USE DEF hostVars, tableVars, viewVars, selectionVars
<1>1. UNCHANGED <<live, runtimes, epoch, loading, stored, rows, setting, listed, active, chosen,
                  restoring, removing, left>>
  BY DEF Snapshot
<1>2. due' \subseteq Devices /\ subscribed' \subseteq Devices /\ overtaken' \subseteq Devices
  BY RegistryTypes DEF Snapshot
<1>3. /\ history' \in [Endpoints -> Seq(1..MaxRuntimes)] /\ chain' \in Seq(Operation)
      /\ readded' \subseteq Devices /\ shown' = shown
  <2>1. CASE d \in listed
    <3>1. ApplySnapshot(d)
      BY <2>1 DEF Snapshot
    <3>2. Persist(d, Snapped(d)) /\ shown' = shown
      BY <3>1 DEF ApplySnapshot, Snapped
    <3>3. history' \in [Endpoints -> Seq(1..MaxRuntimes)]
      <4>1. \A e \in Endpoints : live[e] # 0 => live[e] \in 1..MaxRuntimes
        BY RegistryTypes
      <4>2. \A e \in Endpoints : live[e] # 0 => Remembered(e, live[e]) \in Seq(1..MaxRuntimes)
        BY <4>1, RememberedTyped
      <4> QED
        BY <3>1, <4>2, RegistryTypes DEF ApplySnapshot
    <3> QED
      BY <3>2, <3>3, PersistTyped, SnappedTyped
  <2>2. CASE d \notin listed
    BY <2>2, RegistryTypes DEF Snapshot
  <2> QED
    BY <2>1, <2>2
<1> QED
  BY <1>1, <1>2, <1>3 DEF RegistryTypeOK


(* A persist operation goes on, is dropped or is installed.                *)
Advances(step) == chain # <<>> /\ chain' = [chain EXCEPT ![1].step = step] /\ UNCHANGED removing

LEMMA AdvancesTyped ==
  ASSUME RegistryTypeOK, NEW step \in {"start", "look", "write"}, Advances(step)
  PROVE  /\ chain' \in Seq(Operation) /\ DOMAIN chain' = DOMAIN chain /\ chain' # <<>>
         /\ \A i \in DOMAIN chain :
              /\ chain'[i].device = chain[i].device /\ chain'[i].epoch = chain[i].epoch
              /\ chain'[i].next = chain[i].next
<1>1. chain \in Seq(Operation) /\ chain # <<>>
  BY RegistryTypes DEF Advances
<1>2. 1 \in DOMAIN chain /\ chain[1] \in Operation
  BY <1>1, Tails
<1>3. [chain[1] EXCEPT !.step = step] \in Operation
  BY <1>2 DEF Operation
<1>4. chain' = [chain EXCEPT ![1] = [chain[1] EXCEPT !.step = step]]
  BY DEF Advances
<1>5. chain' \in Seq(Operation)
  BY <1>1, <1>2, <1>3, <1>4, ExceptSeq
<1>6. DOMAIN chain' = DOMAIN chain /\ \A i \in DOMAIN chain :
        chain'[i] = IF i = 1 THEN [chain[1] EXCEPT !.step = step] ELSE chain[i]
  BY <1>4
<1>7. chain' # <<>>
  BY <1>2, <1>6
<1> QED
  BY <1>2, <1>5, <1>6, <1>7 DEF Operation

LEMMA OverTyped ==
  ASSUME RegistryTypeOK, chain # <<>>, Over
  PROVE  /\ chain' \in Seq(Operation)
         /\ removing' \in Optional([device : Devices, ahead : Nat, deleted : BOOLEAN])
         /\ removing' = None <=> removing = None
         /\ removing # None => removing'.device = removing.device /\ removing'.deleted = removing.deleted
<1>1. chain' \in Seq(Operation)
  BY RegistryTypes, Tails DEF Over
<1>2. removing \in Optional([device : Devices, ahead : Nat, deleted : BOOLEAN])
  BY DEF RegistryTypeOK
<1>3. CASE removing = None \/ removing.ahead = 0
  BY <1>1, <1>2, <1>3 DEF Over
<1>4. CASE ~(removing = None \/ removing.ahead = 0)
  <2>1. removing \in [device : Devices, ahead : Nat, deleted : BOOLEAN]
    BY <1>2, <1>4 DEF Optional
  <2>2. removing' = [removing EXCEPT !.ahead = @ - 1] /\ removing.ahead - 1 \in Nat
    BY <1>4, <2>1 DEF Over
  <2>3. removing' \in [device : Devices, ahead : Nat, deleted : BOOLEAN]
    BY <2>1, <2>2
  <2> QED
    BY <1>1, <1>4, <2>1, <2>2, <2>3, ViewAssumption DEF Optional
<1> QED
  BY <1>3, <1>4

(* What a step of the operations does.                                     *)
LEMMA PersistSteps ==
  ASSUME RegistryTypeOK, PersistStep
  PROVE  /\ chain # <<>>
         /\ UNCHANGED <<hostVars, subscribed, due, stored, setting, listed, history, epoch, loading,
                        selectionVars, readded, left>>
         /\ \/ Advances("look") /\ UNCHANGED <<rows, shown, overtaken>>
            \/ /\ Advances("write") /\ ~Stale /\ UNCHANGED <<shown, overtaken>>
               /\ rows' = [e \in Endpoints |-> IF Head(chain).next[e] = None THEN rows[e]
                                               ELSE Head(chain).next[e].runtime]
            \/ Dropped /\ UNCHANGED <<rows, shown>>
            \/ /\ Over /\ ~Stale /\ UNCHANGED <<rows, overtaken>>
               /\ shown' = Merged([e \in Endpoints |-> IF DeviceOf[e] = Head(chain).device THEN None
                                                       ELSE shown[e]],
                                  Head(chain).next)
<1>1. /\ PersistStart \/ PersistWrite \/ PersistInstall
      /\ UNCHANGED <<hostVars, subscribed, due, stored, setting, listed, history, epoch, loading,
                     selectionVars, readded, left>>
  BY DEF PersistStep
<1>2. CASE PersistStart
  BY <1>1, <1>2 DEF PersistStart, Step, Proceed, Advances
<1>3. CASE PersistWrite
  BY <1>1, <1>3 DEF PersistWrite, Step, Proceed, Advances
<1>4. CASE PersistInstall
  BY <1>1, <1>4 DEF PersistInstall, Step
<1> QED
  BY <1>1, <1>2, <1>3, <1>4

LEMMA PersistTypes ==
  ASSUME RegistryTypeOK, PersistStep
  PROVE  RegistryTypeOK'
<1>1. chain # <<>> /\ chain \in Seq(Operation)
  BY PersistSteps, RegistryTypes
<1>2. Head(chain) \in Operation
  BY <1>1, Tails
<1>3. Head(chain).device \in Devices /\ Head(chain).next \in View
  BY <1>2 DEF Operation
<1>4. /\ chain' \in Seq(Operation)
      /\ removing' \in Optional([device : Devices, ahead : Nat, deleted : BOOLEAN])
  <2>1. CASE \E step \in {"look", "write"} : Advances(step)
    <3>1. chain' \in Seq(Operation)
      BY <2>1, AdvancesTyped
    <3>2. removing' = removing
      BY <2>1 DEF Advances
    <3> QED
      BY <3>1, <3>2 DEF RegistryTypeOK
  <2>2. CASE Over
    BY <1>1, <2>2, OverTyped
  <2> QED
    BY <2>1, <2>2, PersistSteps DEF Dropped
<1>5. overtaken' \subseteq Devices
  <2>1. \/ UNCHANGED overtaken \/ Dropped
    BY PersistSteps
  <2> QED
    BY <1>3, <2>1, RegistryTypes DEF Dropped
<1>6. rows' \in [Endpoints -> 0..MaxRuntimes]
  <2>1. \A e \in Endpoints : Head(chain).next[e] # None => Head(chain).next[e].runtime \in 0..MaxRuntimes
    <3> SUFFICES ASSUME NEW e \in Endpoints, Head(chain).next[e] # None
                 PROVE  Head(chain).next[e].runtime \in 0..MaxRuntimes
      OBVIOUS
    <3>1. Head(chain).next[e] \in Shown
      BY <1>3, ViewEntry
    <3> QED
      BY <3>1, RegistryTypes DEF Shown
  <2>2. \/ UNCHANGED rows
        \/ rows' = [e \in Endpoints |-> IF Head(chain).next[e] = None THEN rows[e]
                                        ELSE Head(chain).next[e].runtime]
    BY PersistSteps
  <2> QED
    BY <2>1, <2>2, RegistryTypes
<1>7. shown' \in View
  <2> DEFINE others == [e \in Endpoints |-> IF DeviceOf[e] = Head(chain).device THEN None ELSE shown[e]]
  <2>1. others \in View
    BY RegistryTypes DEF View, Optional
  <2>2. UNCHANGED shown \/ shown' = Merged(others, Head(chain).next)
    BY PersistSteps
  <2> HIDE DEF others
  <2> QED
    BY <1>3, <2>1, <2>2, MergedTyped, RegistryTypes
<1>8. UNCHANGED <<live, runtimes, subscribed, due, stored, setting, listed, history, epoch, loading,
                  active, chosen, restoring, readded, left>>
  BY PersistSteps DEF hostVars, selectionVars
<1> QED
  BY <1>4, <1>5, <1>6, <1>7, <1>8 DEF RegistryTypeOK

(* The list of devices is changed by a removal or by a pairing.            *)
LEMMA ListedTypes ==
  ASSUME RegistryTypeOK, NEW device \in Optional(Devices), NEW choice \in Optional(Endpoints),
         ActiveDeviceEffects(device, choice), UNCHANGED tableVars,
         listed' = stored, active' \in Optional(Devices),
         removing' \in Optional([device : Devices, ahead : Nat, deleted : BOOLEAN]),
         UNCHANGED <<hostVars, history, epoch, chain, readded, left>>,
         subscribed' \subseteq Devices, due' \subseteq Devices
  PROVE  RegistryTypeOK'
<1>1. UNCHANGED <<live, runtimes, stored, rows, setting, history, epoch, chain, readded, left>>
  BY DEF tableVars, hostVars
<1>2. listed' \subseteq Devices /\ setting' \in [Devices -> Optional(Endpoints)]
  BY <1>1, RegistryTypes
<1>3. /\ loading' \in Optional([device : Devices, found : [Endpoints -> 0..MaxRuntimes]])
      /\ restoring' \in Optional([value : Optional(Endpoints)])
      /\ chosen' \in Optional(Endpoints) /\ shown' \in View /\ overtaken' \subseteq Devices
  BY <1>2, EffectsTyped
<1> QED
  BY <1>1, <1>2, <1>3 DEF RegistryTypeOK


LEMMA ViewKept ==
  ASSUME RegistryTypeOK, NoViewChange, shown' = shown \/ shown' = Offline(shown),
         left' \in [Kinds -> Nat], subscribed' \subseteq Devices, due' \subseteq Devices
  PROVE  RegistryTypeOK'
<1>1. shown' \in View
  BY RegistryTypes, OfflineTyped
<1> QED
  BY <1>1 DEF NoViewChange, hostVars, tableVars, selectionVars, RegistryTypeOK

LEMMA HeardTyped ==
  ASSUME NEW p
  PROVE  HeardByRegistry(p) = shown \/ HeardByRegistry(p) = Offline(shown)
  BY DEF HeardByRegistry

LEMMA ConnectionTypes ==
  ASSUME ConnectionTypeOK
  PROVE  online \in BOOLEAN /\ page \in Page /\ ran \in Optional(Targets)
         /\ bumped \in BOOLEAN /\ abandoned \in BOOLEAN
  BY DEF ConnectionTypeOK

(* The steps of the relay and of the session are those of the connection,  *)
(* and may show every endpoint offline.                                    *)
LEMMA RelayTypes ==
  ASSUME RegistryTypeOK, ConnectionTypeOK,
         \/ SocketOpens \/ ChallengeArrives \/ RelayCloses
         \/ \E b \in BOOLEAN : Authenticate(b) \/ LoseConnection(b)
         \/ FireRetry \/ GoOffline \/ GoOnline
  PROVE  RegistryTypeOK' /\ ConnectionTypeOK'
<1>1. /\ online \in BOOLEAN /\ page \in Page /\ ran \in Optional(Targets)
      /\ bumped \in BOOLEAN /\ abandoned \in BOOLEAN
  BY ConnectionTypes
<1>2. /\ subscribed \subseteq Devices /\ due \subseteq Devices /\ listed \subseteq Devices
      /\ {} \subseteq Devices /\ left \in [Kinds -> Nat]
  BY RegistryTypes
<1>3. {"host", "fault", "net", "bye", "select", "retry", "remove", "scan", "loss"} = Kinds
  BY DEF Kinds
<1> SUFFICES /\ NoViewChange /\ (shown' = shown \/ shown' = Offline(shown))
             /\ left' = left \/ \E k \in Kinds : Spend(k)
             /\ subscribed' \in {subscribed, {}} /\ due' \in {due, {}, listed}
             /\ online' \in BOOLEAN /\ page' \in Page /\ ran' = ran
             /\ bumped' \in BOOLEAN /\ abandoned' \in BOOLEAN
  <2>1. left' \in [Kinds -> Nat]
    BY <1>2, SpendTyped
  <2>2. subscribed' \subseteq Devices /\ due' \subseteq Devices
    BY <1>2
  <2> QED
    BY <1>1, <2>1, <2>2, ViewKept DEF ConnectionTypeOK
<1>4. CASE SocketOpens \/ ChallengeArrives
  BY <1>1, <1>4 DEF SocketOpens, ChallengeArrives, Page, States
<1>5. CASE RelayCloses
  BY <1>1, <1>3, <1>5 DEF RelayCloses, Page, States
<1>6. CASE \E b \in BOOLEAN : Authenticate(b)
  <2>1. PICK b \in BOOLEAN : Authenticate(b)
    BY <1>6
  <2> DEFINE p == [page EXCEPT !.state = "open", !.current = TRUE, !.scheduled = FALSE, !.retry = 0]
  <2>2. p \in Page
    <3>1. 0 \in 0..MaxRetries
      BY BoundIsPositive
    <3> QED
      BY <1>1, <3>1 DEF Page, States
  <2>3. /\ UNCHANGED <<online, ran, abandoned>> /\ NoViewChange
        /\ \/ /\ page' = p /\ bumped' = TRUE /\ subscribed' = {} /\ due' = listed
              /\ UNCHANGED <<shown, left>>
           \/ /\ page' = HeardClosed(p) /\ shown' = HeardByRegistry(p)
              /\ UNCHANGED <<bumped, subscribed, due>> /\ Spend("fault")
    BY <2>1 DEF Authenticate
  <2> HIDE DEF p
  <2>4. page' \in Page
    BY <1>1, <2>2, <2>3, ClosedPage DEF IsClosed
  <2>5. shown' = shown \/ shown' = Offline(shown)
    BY <2>3, HeardTyped
  <2> QED
    BY <1>1, <1>3, <2>3, <2>4, <2>5
<1>7. CASE \E b \in BOOLEAN : LoseConnection(b)
  <2>1. PICK b \in BOOLEAN : LoseConnection(b)
    BY <1>7
  <2>2. HeardClosed(page) \in Page
    BY <1>1, ClosedPage DEF IsClosed
  <2> DEFINE q == IF b THEN WithRetry(HeardClosed(page)) ELSE HeardClosed(page)
  <2>3. q \in Page
    BY <1>1, <2>2, RetriedPage
  <2>4. /\ UNCHANGED <<online, ran, bumped, abandoned>> /\ NoViewChange
        /\ left' = left \/ Spend("fault")
        /\ page' = IF Connecting(page) THEN WithRetry(q) ELSE q
        /\ shown' = HeardByRegistry(page) /\ subscribed' = {} /\ due' = {}
    BY <2>1 DEF LoseConnection, Unsubscribed
  <2> HIDE DEF q
  <2>5. page' \in Page
    BY <1>1, <2>3, <2>4, RetriedPage
  <2>6. shown' = shown \/ shown' = Offline(shown)
    BY <2>4, HeardTyped
  <2> QED
    BY <1>1, <1>3, <2>4, <2>5, <2>6
<1>8. CASE FireRetry
  BY <1>1, <1>8 DEF FireRetry, Page, States
<1>9. CASE GoOffline
  <2>1. Cleared(page) \in Page
    BY <1>1, ClearedPage
  <2>2. page' \in Page
    BY <1>9, <2>1 DEF GoOffline, Page, States
  <2> QED
    BY <1>1, <1>3, <1>9, <2>2 DEF GoOffline, Unsubscribed
<1>10. CASE GoOnline
  BY <1>1, <1>10, ConnectNowPage DEF GoOnline
<1> QED
  BY <1>4, <1>5, <1>6, <1>7, <1>8, <1>9, <1>10

LEMMA SessionTypes ==
  ASSUME RegistryTypeOK, ConnectionTypeOK,
         \/ RunSessionEffect \/ SessionReady \/ RetrySession
         \/ \E terminal \in BOOLEAN : SessionEnds(terminal)
  PROVE  RegistryTypeOK' /\ ConnectionTypeOK'
<1>1. /\ online \in BOOLEAN /\ page \in Page /\ ran \in Optional(Targets)
      /\ bumped \in BOOLEAN /\ abandoned \in BOOLEAN
  BY ConnectionTypes
<1>2. /\ subscribed \subseteq Devices /\ due \subseteq Devices /\ {} \subseteq Devices
      /\ left \in [Kinds -> Nat]
  BY RegistryTypes
<1>3. {"host", "fault", "net", "bye", "select", "retry", "remove", "scan", "loss"} = Kinds
  BY DEF Kinds
<1> SUFFICES /\ NoViewChange /\ shown' = shown
             /\ left' = left \/ \E k \in Kinds : Spend(k)
             /\ subscribed' \in {subscribed, {}} /\ due' \in {due, {}}
             /\ online' = online /\ page' \in Page /\ ran' \in Optional(Targets)
             /\ bumped' \in BOOLEAN /\ abandoned' \in BOOLEAN
  <2>1. left' \in [Kinds -> Nat]
    BY <1>2, SpendTyped
  <2>2. subscribed' \subseteq Devices /\ due' \subseteq Devices
    BY <1>2
  <2> QED
    BY <1>1, <2>1, <2>2, ViewKept DEF ConnectionTypeOK
<1>4. CASE RunSessionEffect
  <2> DEFINE p == Joined(page)
             failed == p.hello /\ p.state = "closing"
             c == [p EXCEPT !.intentional = TRUE]
  <2>1. p \in Page
    BY <1>1, JoinedPage DEF IsJoined
  <2>2. c \in Page
    BY <2>1 DEF Page
  <2>3. /\ ran' = Target /\ bumped' = FALSE /\ NoViewChange /\ UNCHANGED <<shown, left, online>>
        /\ page' = IF failed THEN HeardClosed(c) ELSE p
        /\ abandoned' = (abandoned \/ failed)
        /\ (subscribed' = {} /\ due' = {}) \/ UNCHANGED <<subscribed, due>>
    BY <1>4 DEF RunSessionEffect, Unsubscribed
  <2> HIDE DEF p, c
  <2>4. page' \in Page
    BY <1>1, <2>1, <2>2, <2>3, ClosedPage DEF IsClosed
  <2>5. failed \in BOOLEAN
    OBVIOUS
  <2>6. Target \in Optional(Targets)
    BY TargetTyped DEF Optional
  <2> QED
    BY <1>1, <2>3, <2>4, <2>5, <2>6
<1>5. CASE SessionReady
  BY <1>1, <1>5 DEF SessionReady, Page
<1>6. CASE \E terminal \in BOOLEAN : SessionEnds(terminal)
  <2>1. PICK terminal \in BOOLEAN : SessionEnds(terminal)
    BY <1>6
  <2>2. Cleared(page) \in Page
    BY <1>1, ClearedPage
  <2>3. page' \in Page
    BY <2>1, <2>2 DEF SessionEnds, Page
  <2> QED
    BY <1>1, <1>3, <2>1, <2>3 DEF SessionEnds
<1>7. CASE RetrySession
  <2> DEFINE p == [Cleared(page) EXCEPT !.terminal = FALSE]
  <2>1. p \in Page
    BY <1>1, ClearedPage DEF Page
  <2>2. /\ NoViewChange /\ Spend("retry") /\ UNCHANGED <<shown, subscribed, due, online, ran>>
        /\ page' = IF ~online THEN [p EXCEPT !.connection = "no_network"]
                   ELSE IF Connected THEN [p EXCEPT !.connection = "connecting"]
                   ELSE ConnectNow(p)
        /\ bumped' = (bumped \/ (online /\ Connected)) /\ abandoned' = (abandoned /\ ~online)
    BY <1>7 DEF RetrySession
  <2> HIDE DEF p
  <2>3. /\ [p EXCEPT !.connection = "no_network"] \in Page
        /\ [p EXCEPT !.connection = "connecting"] \in Page /\ ConnectNow(p) \in Page
    BY <2>1, ConnectNowPage DEF Page
  <2>4. Connected \in BOOLEAN
    BY DEF Connected
  <2> QED
    BY <1>1, <1>3, <2>2, <2>3, <2>4
<1> QED
  BY <1>4, <1>5, <1>6, <1>7

LEMMA AttemptTyped ==
  ASSUME PairingTypeOK, attempt # None
  PROVE  attempt \in Attempt /\ attempt.endpoint \in Endpoints /\ attempt.saving \in BOOLEAN
  BY DEF PairingTypeOK, Attempt, Optional

LEMMA PairingTypes ==
  ASSUME RegistryTypeOK, PairingTypeOK,
         \/ OpenDialog \/ CloseDialog \/ AttemptFails \/ PairOk \/ PairError
         \/ \E e \in Endpoints : Scan(e)
         \/ \E b \in BOOLEAN : SendPairRequest(b)
  PROVE  RegistryTypeOK' /\ PairingTypeOK'
<1> USE DEF hostVars, tableVars, viewVars, selectionVars
<1>1. {"host", "fault", "net", "bye", "select", "retry", "remove", "scan", "loss"} = Kinds
  BY DEF Kinds
<1>2. /\ dialog \in {"idle", "scanning", "pairing"} /\ attempt \in Optional(Attempt)
      /\ orphans \subseteq Endpoints /\ granted \subseteq Endpoints /\ left \in [Kinds -> Nat]
      /\ attempt # None => attempt \in Attempt /\ attempt.endpoint \in Endpoints
  BY AttemptTyped, RegistryTypes DEF PairingTypeOK
<1>3. Cancelled => orphans' \subseteq Endpoints
  BY <1>2 DEF Cancelled
<1>4. ASSUME NoRegistryChange, left' = left \/ \E k \in Kinds : Spend(k)
      PROVE  RegistryTypeOK'
  <2>1. left' \in [Kinds -> Nat]
    BY <1>2, <1>4, SpendTyped
  <2> QED
    BY <1>4, <2>1 DEF NoRegistryChange, RegistryTypeOK
<1>5. CASE OpenDialog \/ CloseDialog
  BY <1>2, <1>3, <1>4, <1>5 DEF OpenDialog, CloseDialog, PairingTypeOK, Optional
<1>6. CASE \E e \in Endpoints : Scan(e)
  <2>1. PICK e \in Endpoints : Scan(e)
    BY <1>6
  <2>2. 1 \in 1..MaxAttempts
    BY DevicePairingAssumption
  <2>3. [endpoint |-> e, number |-> 1, sent |-> FALSE, saving |-> FALSE] \in Attempt
    BY <2>2 DEF Attempt
  <2>4. attempt' \in Optional(Attempt)
    BY <2>1, <2>3 DEF Scan, Optional
  <2>5. /\ dialog' = "pairing" /\ Cancelled /\ NoRegistryChange /\ Spend("scan") /\ granted' = granted
    BY <2>1 DEF Scan
  <2>6. RegistryTypeOK'
    BY <1>1, <1>4, <2>5
  <2> QED
    BY <1>2, <1>3, <2>4, <2>5, <2>6 DEF PairingTypeOK
<1>7. CASE \E b \in BOOLEAN : SendPairRequest(b)
  <2>1. PICK b \in BOOLEAN : SendPairRequest(b)
    BY <1>7
  <2>2. attempt' \in Attempt /\ granted' \subseteq Endpoints
    BY <1>2, <2>1 DEF SendPairRequest, Attempt
  <2>3. NoRegistryChange /\ (left' = left \/ Spend("loss")) /\ UNCHANGED <<dialog, orphans>>
    BY <2>1 DEF SendPairRequest
  <2>4. RegistryTypeOK'
    BY <1>1, <1>4, <2>3
  <2> QED
    BY <1>2, <2>2, <2>3, <2>4 DEF PairingTypeOK, Optional
<1>8. CASE AttemptFails
  <2>1. /\ attempt # None /\ NoRegistryChange /\ Spend("loss") /\ UNCHANGED <<orphans, granted>>
        /\ \/ /\ attempt.number < MaxAttempts
              /\ attempt' = [attempt EXCEPT !.number = @ + 1, !.sent = FALSE] /\ dialog' = dialog
           \/ attempt' = None /\ dialog' = "scanning"
    BY <1>8 DEF AttemptFails
  <2>2. attempt.number < MaxAttempts => attempt.number + 1 \in 1..MaxAttempts
    BY <1>2, <2>1, DevicePairingAssumption DEF Attempt
  <2>3. attempt' \in Optional(Attempt)
    BY <1>2, <2>1, <2>2 DEF Attempt, Optional
  <2>4. RegistryTypeOK'
    BY <1>1, <1>4, <2>1
  <2> QED
    BY <1>2, <2>1, <2>3, <2>4 DEF PairingTypeOK
<1>9. CASE PairOk
  <2>1. attempt # None /\ attempt \in Attempt /\ attempt.endpoint \in Endpoints
    BY <1>2, <1>9 DEF PairOk
  <2>2. DeviceOf[attempt.endpoint] \in Devices
    BY <2>1, RegistryTypes
  <2>3. stored' \subseteq Devices /\ setting' \in [Devices -> Optional(Endpoints)]
    BY <1>9, <2>1, <2>2, RegistryTypes DEF PairOk, Optional
  <2>4. RegistryTypeOK'
    BY <1>9, <2>3 DEF PairOk, RegistryTypeOK
  <2>5. attempt' \in Optional(Attempt)
    BY <1>9, <2>1 DEF PairOk, Attempt, Optional
  <2> QED
    BY <1>2, <1>9, <2>4, <2>5 DEF PairOk, PairingTypeOK
<1>10. CASE PairError
  BY <1>2, <1>4, <1>10 DEF PairError, PairingTypeOK, Optional
<1> QED
  BY <1>5, <1>6, <1>7, <1>8, <1>9, <1>10


(* The page lists what is stored, for a removal or for a pairing.          *)
Lists(device, choice) ==
  /\ device \in Optional(stored) /\ choice \in Optional(Endpoints)
  /\ ActiveDeviceEffects(device, choice) /\ listed' = stored /\ DevicesListed
  /\ active' \in Optional(Devices) /\ (active' \in stored => device = active')
  /\ UNCHANGED <<live, runtimes, stored, rows, setting, history, epoch, chain, readded, left,
                 granted, ran, bumped, online>>

LEMMA RemovalLists ==
  ASSUME RegistryTypeOK, EndRemoval
  PROVE  \E device, choice :
           /\ Lists(device, choice)
           /\ active # removing.device => active' = active
           /\ active = removing.device => active' = device
<1>1. /\ removing # None /\ removing.deleted /\ removing' = None /\ listed' = stored
      /\ UNCHANGED <<hostVars, tableVars, history, epoch, chain, readded, left, pairingVars>>
      /\ DevicesListed
      /\ \E next \in IF active # removing.device THEN {active}
                     ELSE IF stored = {} THEN {None} ELSE stored :
           /\ active' = next
           /\ ActiveDeviceEffects(IF next \in stored THEN next ELSE None,
                                  IF active # removing.device THEN chosen ELSE None)
  BY DEF EndRemoval, RemoveDone
<1>2. PICK next \in IF active # removing.device THEN {active}
                    ELSE IF stored = {} THEN {None} ELSE stored :
        /\ active' = next
        /\ ActiveDeviceEffects(IF next \in stored THEN next ELSE None,
                               IF active # removing.device THEN chosen ELSE None)
  BY <1>1
<1> DEFINE device == IF next \in stored THEN next ELSE None
           choice == IF active # removing.device THEN chosen ELSE None
<1>3. device \in Optional(stored) /\ choice \in Optional(Endpoints)
  BY RegistryTypes DEF Optional
<1>4. active' \in Optional(Devices) /\ (active' \in stored => device = active')
  BY <1>2, RegistryTypes DEF Optional
<1>5. active # removing.device => active' = active
  BY <1>2
<1>6. active = removing.device => active' = device
  BY <1>2, EndpointRegistryAssumption, RegistryTypes
<1>7. UNCHANGED <<ran, bumped, online>>
  BY <1>1 DEF DevicesListed
<1>8. Lists(device, choice)
  BY <1>1, <1>2, <1>3, <1>4, <1>7 DEF Lists, hostVars, tableVars, pairingVars
<1> HIDE DEF device, choice
<1> QED
  BY <1>5, <1>6, <1>8

LEMMA PairingLists ==
  ASSUME RegistryTypeOK, PairingTypeOK, EndPairing
  PROVE  \E e \in Endpoints :
           /\ Lists(IF DeviceOf[e] \in stored THEN DeviceOf[e] ELSE None, e)
           /\ active' = DeviceOf[e] /\ removing' = removing
           /\ \/ /\ attempt # None /\ attempt.saving /\ attempt' = None /\ dialog' = "idle"
                 /\ UNCHANGED orphans
              \/ orphans' = orphans \ {e} /\ UNCHANGED <<attempt, dialog>>
<1>1. PICK e \in Endpoints :
        /\ Activate(e) /\ DevicesListed
        /\ \/ /\ attempt # None /\ attempt.saving /\ attempt' = None /\ dialog' = "idle"
              /\ UNCHANGED orphans
           \/ orphans' = orphans \ {e} /\ UNCHANGED <<attempt, dialog>>
  <2>1. CASE SaveDone
    <3>1. attempt.endpoint \in Endpoints
      BY <2>1, AttemptTyped DEF SaveDone
    <3> QED
      BY <2>1, <3>1 DEF SaveDone, EndPairing
  <2>2. CASE \E e \in Endpoints : OrphanSaved(e)
    BY <2>2 DEF OrphanSaved, EndPairing
  <2> QED
    BY <2>1, <2>2 DEF EndPairing
<1> DEFINE device == IF DeviceOf[e] \in stored THEN DeviceOf[e] ELSE None
<1>2. /\ UNCHANGED <<hostVars, tableVars, history, epoch, chain, readded, left, granted, removing>>
      /\ active' = DeviceOf[e] /\ listed' = stored /\ ActiveDeviceEffects(device, e)
  BY <1>1 DEF Activate
<1>3. device \in Optional(stored) /\ e \in Optional(Endpoints)
  BY DEF Optional
<1>4. active' \in Optional(Devices) /\ (active' \in stored => device = active')
  BY <1>2, RegistryTypes DEF Optional
<1>5. UNCHANGED <<ran, bumped, online>>
  BY <1>1 DEF DevicesListed
<1>6. Lists(device, e)
  BY <1>1, <1>2, <1>3, <1>4, <1>5 DEF Lists, hostVars, tableVars
<1> QED
  BY <1>1, <1>2, <1>6

LEMMA ListTypes ==
  ASSUME RegistryTypeOK, ConnectionTypeOK, NEW device, NEW choice, Lists(device, choice),
         removing' \in Optional([device : Devices, ahead : Nat, deleted : BOOLEAN])
  PROVE  RegistryTypeOK' /\ ConnectionTypeOK'
<1>1. /\ online \in BOOLEAN /\ page \in Page /\ ran \in Optional(Targets)
      /\ bumped \in BOOLEAN /\ abandoned \in BOOLEAN
  BY ConnectionTypes
<1>2. /\ subscribed' \in {subscribed, {}} /\ due' \in {due, {}, listed'}
      /\ page' \in {page, Remounted(page, listed')} /\ abandoned' \in {FALSE, abandoned}
  BY DEF Lists, DevicesListed, Unsubscribed
<1>3. listed' = stored
  BY DEF Lists
<1>4. subscribed' \subseteq Devices /\ due' \subseteq Devices /\ device \in Optional(Devices)
  BY <1>2, <1>3, RegistryTypes DEF Lists, Optional
<1>5. page' \in Page
  BY <1>1, <1>2, RemountedPage
<1>6. RegistryTypeOK'
  BY <1>4, ListedTypes DEF Lists, hostVars, tableVars
<1> QED
  BY <1>1, <1>2, <1>5, <1>6 DEF ConnectionTypeOK, Lists

LEMMA InitTypes == Init => TypeOK
<1> SUFFICES ASSUME Init
             PROVE  TypeOK
  OBVIOUS
<1>1. RegistryTypeOK
  <2>1. PICK s \in Starts :
          /\ live = s.live /\ rows = s.rows /\ left = s.bounds
          /\ runtimes = [e \in Endpoints |-> IF s.live[e] > s.rows[e] THEN s.live[e] ELSE s.rows[e]]
          /\ stored = s.listed /\ listed = s.listed
    BY DEF Init, RegistryInit
  <2>2. s \in [listed : SUBSET Devices, live : [Endpoints -> 0..MaxRuntimes],
               rows : [Endpoints -> 0..MaxRuntimes], bounds : [Kinds -> Nat]]
    BY <2>1, EndpointRegistryAssumption
  <2>3. /\ live \in [Endpoints -> 0..MaxRuntimes] /\ rows \in [Endpoints -> 0..MaxRuntimes]
        /\ left \in [Kinds -> Nat] /\ stored \subseteq Devices /\ listed \subseteq Devices
        /\ runtimes \in [Endpoints -> 0..MaxRuntimes]
    BY <2>1, <2>2
  <2>4. /\ active \in Optional(Devices) /\ shown \in View
        /\ history \in [Endpoints -> Seq(1..MaxRuntimes)]
        /\ chain \in Seq(Operation) /\ epoch \in Nat
        /\ setting \in [Devices -> Optional(Endpoints)]
        /\ chosen \in Optional(Endpoints)
    BY <2>3, NothingTyped, EmptySeq DEF Init, RegistryInit, Optional
  <2>5. readded \subseteq Devices /\ overtaken \subseteq Devices /\ subscribed \subseteq Devices
        /\ due \subseteq Devices
    BY EndpointRegistryAssumption DEF Init, RegistryInit
  <2>6. /\ restoring \in Optional([value : Optional(Endpoints)])
        /\ removing \in Optional([device : Devices, ahead : Nat, deleted : BOOLEAN])
    BY DEF Init, RegistryInit, Optional
  <2>7. loading \in Optional([device : Devices, found : [Endpoints -> 0..MaxRuntimes]])
    <3>1. CASE active = None
      BY <3>1 DEF Init, RegistryInit, Optional
    <3>2. CASE active # None
      <4>1. active \in Devices
        BY <2>4, <3>2 DEF Optional
      <4>2. [e \in Endpoints |-> IF DeviceOf[e] = active THEN rows[e] ELSE 0]
              \in [Endpoints -> 0..MaxRuntimes]
        <5>1. 0 \in 0..MaxRuntimes
          BY EndpointRegistryAssumption
        <5> QED
          BY <2>3, <5>1
      <4>3. loading = [device |-> active,
                       found |-> [e \in Endpoints |-> IF DeviceOf[e] = active THEN rows[e] ELSE 0]]
        BY <3>2 DEF Init, RegistryInit
      <4>4. loading \in [device : Devices, found : [Endpoints -> 0..MaxRuntimes]]
        BY <4>1, <4>2, <4>3
      <4> QED
        BY <4>4 DEF Optional
    <3> QED
      BY <3>1, <3>2
  <2> QED
    BY <2>3, <2>4, <2>5, <2>6, <2>7 DEF RegistryTypeOK
<1>2. ConnectionTypeOK
  <2>1. 0 \in 0..MaxRetries
    BY BoundIsPositive
  <2>2. Mounted \in BOOLEAN
    BY DEF Mounted
  <2> QED
    BY <2>1, <2>2 DEF Init, ConnectionInit, ConnectionTypeOK, Page, States, Optional
<1>3. PairingTypeOK
  BY DEF Init, PairingInit, PairingTypeOK, Optional
<1> QED
  BY <1>1, <1>2, <1>3 DEF TypeOK

LEMMA NextTypes == TypeOK /\ [Next]_vars => TypeOK'
<1> SUFFICES ASSUME TypeOK, [Next]_vars
             PROVE  TypeOK'
  OBVIOUS
<1>1. RegistryTypeOK /\ ConnectionTypeOK /\ PairingTypeOK
  BY DEF TypeOK
<1> SUFFICES RegistryTypeOK' /\ ConnectionTypeOK' /\ PairingTypeOK'
  BY DEF TypeOK
<1>2. UNCHANGED connectionVars => ConnectionTypeOK'
  BY <1>1 DEF connectionVars, ConnectionTypeOK
<1>3. UNCHANGED pairingVars => PairingTypeOK'
  BY <1>1 DEF pairingVars, PairingTypeOK
<1>4. CASE Hosts
  BY <1>1, <1>2, <1>3, <1>4, HostTypes DEF Hosts
<1>5. CASE Registry
  <2>1. RegistryTypeOK'
    BY <1>1, <1>5, SelectionTypes, PersistTypes DEF Registry
  <2>2. ConnectionTypeOK'
    <3>1. /\ UNCHANGED <<online, page, ran, bumped>>
          /\ abandoned' = (abandoned \/ (online /\ page.state = "closed" /\ ShowsOnline(shown')))
      BY <1>5 DEF Registry
    <3>2. abandoned' \in BOOLEAN
      BY <3>1
    <3> QED
      BY <1>1, <3>1, <3>2 DEF ConnectionTypeOK
  <2>3. UNCHANGED pairingVars
    BY <1>5 DEF Registry
  <2> QED
    BY <1>3, <2>1, <2>2, <2>3
<1>6. CASE StartRemoval
  <2>1. PICK d \in Devices : RemovePairing(d) /\ page' = IF active = d THEN Cleared(page) ELSE page
    BY <1>6 DEF StartRemoval
  <2>2. RegistryTypeOK'
    <3>1. [device |-> d, ahead |-> Len(chain), deleted |-> FALSE]
            \in [device : Devices, ahead : Nat, deleted : BOOLEAN]
      BY <1>1, Chained
    <3>2. epoch + 1 \in Nat /\ left' \in [Kinds -> Nat]
      <4>1. "remove" \in Kinds /\ Spend("remove")
        BY <2>1 DEF RemovePairing, Kinds
      <4>2. left' \in [Kinds -> Nat]
        BY <1>1, <4>1, SpendTyped
      <4>3. epoch \in Nat
        BY <1>1, RegistryTypes
      <4> QED
        BY <4>2, <4>3
    <3> QED
      BY <1>1, <2>1, <3>1, <3>2
         DEF RemovePairing, RegistryTypeOK, hostVars, tableVars, selectionVars, Optional
  <2>3. page' \in Page
    BY <1>1, <2>1, ClearedPage DEF ConnectionTypeOK
  <2> QED
    BY <1>1, <1>3, <1>6, <2>2, <2>3 DEF StartRemoval, ConnectionTypeOK
<1>7. CASE EndRemoval
  <2>1. \E device, choice : Lists(device, choice)
    BY <1>1, <1>7, RemovalLists
  <2>2. removing' = None /\ UNCHANGED pairingVars
    BY <1>7 DEF EndRemoval, RemoveDone
  <2> QED
    BY <1>1, <1>3, <2>1, <2>2, ListTypes DEF Optional
<1>8. CASE Relay
  <2>1. CASE \E d \in Devices : SnapshotArrives(d)
    BY <1>1, <1>2, <1>3, <1>8, <2>1, SnapshotTypes DEF SnapshotArrives, Relay
  <2>2. CASE ~(\E d \in Devices : SnapshotArrives(d))
    <3>1. \/ SocketOpens \/ ChallengeArrives \/ RelayCloses
          \/ \E b \in BOOLEAN : Authenticate(b) \/ LoseConnection(b)
          \/ FireRetry \/ GoOffline \/ GoOnline
      BY <1>8, <2>2 DEF Relay
    <3>2. UNCHANGED pairingVars
      BY <1>8 DEF Relay
    <3> QED
      BY <1>1, <1>3, <3>1, <3>2, RelayTypes
  <2> QED
    BY <2>1, <2>2
<1>9. CASE Session
  BY <1>1, <1>3, <1>9, SessionTypes DEF Session
<1>10. CASE Pairing
  BY <1>1, <1>2, <1>10, PairingTypes DEF Pairing
<1>11. CASE EndPairing
  <2>1. PICK e \in Endpoints :
           /\ Lists(IF DeviceOf[e] \in stored THEN DeviceOf[e] ELSE None, e)
           /\ removing' = removing
           /\ \/ attempt' = None /\ dialog' = "idle" /\ UNCHANGED orphans
              \/ orphans' = orphans \ {e} /\ UNCHANGED <<attempt, dialog>>
    BY <1>1, <1>11, PairingLists
  <2>2. removing' \in Optional([device : Devices, ahead : Nat, deleted : BOOLEAN])
    BY <1>1, <2>1 DEF RegistryTypeOK
  <2>3. granted' = granted
    BY <2>1 DEF Lists
  <2>4. PairingTypeOK'
    BY <1>1, <2>1, <2>3 DEF PairingTypeOK, Optional
  <2> QED
    BY <1>1, <2>1, <2>2, <2>4, ListTypes
<1>12. CASE UNCHANGED vars
  BY <1>1, <1>2, <1>3, <1>12
     DEF vars, registryVars, hostVars, tableVars, viewVars, selectionVars, RegistryTypeOK,
         connectionVars, pairingVars
<1> QED
  BY <1>4, <1>5, <1>6, <1>7, <1>8, <1>9, <1>10, <1>11, <1>12 DEF Next

(* Every variable has its type.                                            *)
THEOREM PageTypes == Spec => []TypeOK
  BY InitTypes, NextTypes, PTL DEF Spec


-----------------------------------------------------------------------------
(* The dialog, and the retries.                                            *)

(* use-device-pairing.ts: every path that ends an attempt leaves "pairing".*)
THEOREM DialogFollows == Spec => []DialogIsAttempt
<1>1. Init => DialogIsAttempt
  BY DEF Init, PairingInit, DialogIsAttempt
<1>2. TypeOK /\ DialogIsAttempt /\ [Next]_vars => DialogIsAttempt'
  <2> SUFFICES ASSUME TypeOK, DialogIsAttempt, [Next]_vars
               PROVE  DialogIsAttempt'
    OBVIOUS
  <2>1. /\ RegistryTypeOK /\ PairingTypeOK /\ (attempt # None => attempt \in Attempt)
        /\ dialog = "pairing" <=> attempt # None
    BY AttemptTyped DEF TypeOK, DialogIsAttempt
  <2>2. CASE UNCHANGED pairingVars
    BY <2>1, <2>2 DEF pairingVars, DialogIsAttempt
  <2>3. CASE Pairing
    <3>1. CASE OpenDialog \/ CloseDialog \/ PairError
      BY <2>1, <3>1 DEF OpenDialog, CloseDialog, PairError, DialogIsAttempt
    <3>2. CASE \E e \in Endpoints : Scan(e)
      <4>1. PICK e \in Endpoints : Scan(e)
        BY <3>2
      <4>2. 1 \in 1..MaxAttempts
        BY DevicePairingAssumption
      <4>3. [endpoint |-> e, number |-> 1, sent |-> FALSE, saving |-> FALSE] \in Attempt
        BY <4>2 DEF Attempt
      <4> QED
        BY <4>1, <4>3, AttemptAssumption DEF Scan, DialogIsAttempt
    <3>3. CASE (\E b \in BOOLEAN : SendPairRequest(b)) \/ PairOk
      <4>1. attempt # None /\ attempt' \in Attempt /\ dialog' = dialog
        BY <2>1, <3>3 DEF SendPairRequest, PairOk, Attempt
      <4> QED
        BY <2>1, <4>1, AttemptAssumption DEF DialogIsAttempt
    <3>4. CASE AttemptFails
      <4>1. CASE attempt' = None /\ dialog' = "scanning"
        BY <4>1 DEF DialogIsAttempt
      <4>2. CASE attempt' = [attempt EXCEPT !.number = @ + 1, !.sent = FALSE] /\ dialog' = dialog
                 /\ attempt.number < MaxAttempts
        <5>1. attempt # None /\ attempt \in Attempt
          BY <2>1, <3>4 DEF AttemptFails
        <5>2. attempt.number + 1 \in 1..MaxAttempts
          BY <4>2, <5>1, DevicePairingAssumption DEF Attempt
        <5>3. attempt' \in Attempt
          BY <4>2, <5>1, <5>2 DEF Attempt
        <5> QED
          BY <2>1, <4>2, <5>1, <5>3, AttemptAssumption DEF DialogIsAttempt
      <4> QED
        BY <3>4, <4>1, <4>2 DEF AttemptFails
    <3> QED
      BY <2>3, <3>1, <3>2, <3>3, <3>4 DEF Pairing
  <2>4. CASE EndPairing
    <3>1. \/ attempt' = None /\ dialog' = "idle"
          \/ UNCHANGED <<attempt, dialog>>
      BY <2>1, <2>4, PairingLists
    <3> QED
      BY <2>1, <3>1 DEF DialogIsAttempt
  <2>5. Pairing \/ EndPairing \/ UNCHANGED pairingVars
    BY DEF Next, Hosts, Registry, StartRemoval, EndRemoval, Relay, Session, vars
  <2> QED
    BY <2>2, <2>3, <2>4, <2>5
<1> QED
  BY <1>1, <1>2, PageTypes, PTL DEF Spec

(* A page that has counted a loss does not count it again.                 *)
Counted(p, r) ==
  /\ r \in Page /\ (r.retry = p.retry \/ (r.retry = p.retry + 1 /\ r.scheduled))

LEMMA CountedOnce ==
  ASSUME NEW p \in Page, NEW r \in Page, Counted(p, r), online \in BOOLEAN
  PROVE  Counted(p, WithRetry(r))
  BY RetriedPage, PageFields DEF Counted

LEMMA ClosedCounts ==
  ASSUME NEW p \in Page, online \in BOOLEAN
  PROVE  Counted(p, HeardClosed(p))
<1>1. /\ IsClosed(p, HeardClosed(p)) /\ p.retry \in Nat /\ p.intentional \in BOOLEAN
  BY ClosedPage, PageFields
<1> QED
  BY <1>1 DEF IsClosed, Counted

(* reconnect-state.ts:43: of "state", "error" and the rejected connect()   *)
(* only the first finds nothing scheduled.                                 *)
THEOREM LossCountsOnce == Spec => OneRetryPerLoss
<1>1. TypeOK /\ [Next]_vars => page'.retry <= page.retry + 1
  <2> SUFFICES ASSUME TypeOK, Next
               PROVE  page'.retry <= page.retry + 1
    BY PageFields, ConnectionTypes DEF TypeOK, vars, connectionVars
  <2>1. /\ RegistryTypeOK /\ online \in BOOLEAN /\ page \in Page /\ page' \in Page
        /\ page.retry \in Nat
    <3>1. TypeOK'
      BY NextTypes
    <3> QED
      BY <3>1, PageFields, ConnectionTypes DEF TypeOK, ConnectionTypeOK
  <2>2. CASE UNCHANGED page
    BY <2>1, <2>2
  <2>3. CASE SocketOpens \/ ChallengeArrives \/ RelayCloses \/ FireRetry \/ SessionReady
             \/ (\E terminal \in BOOLEAN : SessionEnds(terminal)) \/ GoOffline \/ StartRemoval
    <3>1. Cleared(page) \in Page /\ Cleared(page).retry = page.retry
      BY <2>1, ClearedPage
    <3>2. page'.retry = page.retry
      BY <2>1, <2>3, <3>1
         DEF SocketOpens, ChallengeArrives, RelayCloses, FireRetry, SessionReady, SessionEnds, GoOffline,
             StartRemoval, Page
    <3> QED
      BY <2>1, <3>2
  <2>4. CASE GoOnline
    <3>1. page'.retry = 0
      BY <2>1, <2>4, ConnectNowPage DEF GoOnline
    <3> QED
      BY <2>1, <3>1
  <2>5. CASE \E b \in BOOLEAN : Authenticate(b)
    <3> DEFINE p == [page EXCEPT !.state = "open", !.current = TRUE, !.scheduled = FALSE, !.retry = 0]
    <3>1. p \in Page /\ p.retry = 0
      <4>1. 0 \in 0..MaxRetries
        BY BoundIsPositive
      <4> QED
        BY <2>1, <4>1 DEF Page, States
    <3>2. page' = p \/ page' = HeardClosed(p)
      BY <2>5 DEF Authenticate
    <3> HIDE DEF p
    <3>3. Counted(p, HeardClosed(p))
      BY <2>1, <3>1, ClosedCounts
    <3> QED
      BY <2>1, <3>1, <3>2, <3>3 DEF Counted
  <2>6. CASE \E b \in BOOLEAN : LoseConnection(b)
    <3>1. PICK b \in BOOLEAN : LoseConnection(b)
      BY <2>6
    <3> DEFINE p == HeardClosed(page)
               q == IF b THEN WithRetry(p) ELSE p
    <3>2. page' = IF Connecting(page) THEN WithRetry(q) ELSE q
      BY <3>1 DEF LoseConnection
    <3>3. Counted(page, p) /\ p \in Page
      BY <2>1, ClosedCounts DEF Counted
    <3> HIDE DEF p
    <3>4. Counted(page, q) /\ q \in Page
      <4>1. Counted(page, WithRetry(p))
        BY <2>1, <3>3, CountedOnce
      <4> QED
        BY <3>3, <4>1 DEF Counted
    <3> HIDE DEF q
    <3>5. Counted(page, WithRetry(q))
      BY <2>1, <3>4, CountedOnce
    <3> QED
      BY <2>1, <3>2, <3>4, <3>5 DEF Counted
  <2>7. CASE RunSessionEffect
    <3> DEFINE p == Joined(page)
               c == [p EXCEPT !.intentional = TRUE]
    <3>1. p \in Page /\ p.retry = page.retry
      BY <2>1, JoinedPage DEF IsJoined
    <3>2. c \in Page /\ c.retry = page.retry
      BY <3>1 DEF Page
    <3>3. page' = p \/ page' = HeardClosed(c)
      BY <2>7 DEF RunSessionEffect
    <3> HIDE DEF p, c
    <3>4. Counted(c, HeardClosed(c))
      BY <2>1, <3>2, ClosedCounts
    <3> QED
      BY <2>1, <3>1, <3>2, <3>3, <3>4 DEF Counted
  <2>8. CASE RetrySession
    <3> DEFINE p == [Cleared(page) EXCEPT !.terminal = FALSE]
    <3>1. p \in Page /\ p.retry = page.retry
      BY <2>1, ClearedPage DEF Page
    <3>2. \/ page' = [p EXCEPT !.connection = "no_network"] \/ page' = [p EXCEPT !.connection = "connecting"]
          \/ page' = ConnectNow(p)
      BY <2>8 DEF RetrySession
    <3> HIDE DEF p
    <3>3. page'.retry \in {0, page.retry}
      BY <3>1, <3>2, ConnectNowPage DEF Page
    <3> QED
      BY <2>1, <3>3
  <2>9. CASE EndRemoval \/ EndPairing
    <3>1. page' \in {page, Remounted(page, listed')}
      BY <2>9 DEF EndRemoval, EndPairing, DevicesListed
    <3>2. page'.retry = page.retry
      BY <2>1, <3>1, RemountedPage
    <3> QED
      BY <2>1, <3>2
  <2>10. CASE (\E d \in Devices : SnapshotArrives(d)) \/ Hosts \/ Registry \/ Pairing
    <3>1. UNCHANGED page
      BY <2>10 DEF SnapshotArrives, Hosts, Registry, Pairing, connectionVars
    <3> QED
      BY <2>2, <3>1
  <2> QED
    BY <2>3, <2>4, <2>5, <2>6, <2>7, <2>8, <2>9, <2>10 DEF Next, Relay, Session
<1>2. TypeOK /\ [Next]_vars => [page'.retry <= page.retry + 1]_vars
  BY <1>1
<1> QED
  BY <1>2, PageTypes, PTL DEF Spec, OneRetryPerLoss


-----------------------------------------------------------------------------
(* The connection.                                                         *)

(* What a page p says of its relay: there is a client, and a socket only   *)
(* while the network is up and devices are listed; a retry is scheduled    *)
(* while its timer runs; and a page that does nothing to get the relay     *)
(* back, and was not told to (given), says so and shows nothing online.    *)
Linked(p, net, mounted, given, shows) ==
  /\ ~p.intentional
  /\ p.timer = p.scheduled
  /\ p.timer => p.state = "closed" /\ net /\ mounted
  /\ p.state # "closed" => p.current /\ net /\ mounted
  /\ mounted /\ net => p.current
  /\ p.channel # None => p.state \in {"open", "closing"}
  /\ mounted /\ ~net => p.connection \in {"no_network", "offline"}
  /\ mounted /\ p.connection = "retrying" => p.timer
  /\ given => p.state = "closed"
  /\ net /\ p.state = "closed" /\ ~given => ~shows
  /\ mounted /\ net /\ p.state = "closed" /\ ~p.timer /\ ~given => p.connection = "offline"

(* The relay reports on no device over a connection that is gone.          *)
LinkInv ==
  /\ Linked(page, online, Mounted, abandoned, ShowsOnline(shown))
  /\ ~Connected => subscribed = {} /\ due = {}

LEMMA LinkedFields ==
  ASSUME NEW p \in Page
  PROVE  /\ p.current \in BOOLEAN /\ p.scheduled \in BOOLEAN /\ p.timer \in BOOLEAN
         /\ p.intentional \in BOOLEAN /\ p.hello \in BOOLEAN /\ p.state \in States
  BY PageFields

(* A page that loses its relay for a reason of its own says so; any other  *)
(* tries again or has given up.                                            *)
LEMMA ClosedLinked ==
  ASSUME NEW p \in Page, online \in BOOLEAN, NEW given \in BOOLEAN, NEW shows \in BOOLEAN,
         Mounted, online /\ ~given => ~shows, p.timer = p.scheduled,
         p.intentional => online /\ given, p.timer => online,
         online => p.current, p.connection = "retrying" => p.timer
  PROVE  Linked(HeardClosed(p), online, Mounted, given, shows)
<1> DEFINE r == HeardClosed(p)
<1>1. IsClosed(p, r) /\ p.intentional \in BOOLEAN
  BY ClosedPage, PageFields
<1> HIDE DEF r
<1>2. Linked(r, online, Mounted, given, shows)
  BY <1>1 DEF IsClosed, Linked
<1> QED
  BY <1>2 DEF r

LEMMA RetriedLinked ==
  ASSUME NEW p \in Page, online \in BOOLEAN, NEW given, NEW shows,
         p.state = "closed", Mounted, Linked(p, online, Mounted, given, shows)
  PROVE  Linked(WithRetry(p), online, Mounted, given, shows)
<1> DEFINE r == WithRetry(p)
<1>1. /\ SameSession(p, r) /\ r.state = p.state /\ r.current = p.current
      /\ r.intentional = p.intentional
      /\ \/ /\ r.timer = p.timer /\ r.scheduled = p.scheduled
            /\ \/ ~online /\ r.connection = "no_network"
               \/ online /\ r.connection = "offline" /\ p.retry >= MaxRetries
               \/ online /\ r.connection = p.connection
         \/ online /\ p.current /\ ~p.scheduled /\ r.timer /\ r.scheduled /\ r.connection = "retrying"
  BY RetriedPage
<1> HIDE DEF r
<1>2. Linked(r, online, Mounted, given, shows)
  BY <1>1 DEF Linked, SameSession
<1> QED
  BY <1>2 DEF r

LEMMA RelayLinks ==
  ASSUME TypeOK, TypeOK', LinkInv,
         \/ SocketOpens \/ ChallengeArrives \/ RelayCloses
         \/ \E b \in BOOLEAN : Authenticate(b) \/ LoseConnection(b)
         \/ FireRetry \/ GoOffline \/ GoOnline
  PROVE  LinkInv'
<1>1. /\ online \in BOOLEAN /\ page \in Page /\ abandoned \in BOOLEAN /\ page' \in Page
      /\ shown \in View /\ left \in [Kinds -> Nat] /\ Mounted \in BOOLEAN
      /\ ShowsOnline(shown) \in BOOLEAN /\ ran \in Optional(Targets)
  BY ConnectionTypes, RegistryTypes DEF TypeOK, ConnectionTypeOK, Mounted, ShowsOnline
<1>2. /\ Linked(page, online, Mounted, abandoned, ShowsOnline(shown))
      /\ page.state \notin {"open", "closing"} => subscribed = {} /\ due = {}
  BY DEF LinkInv, Connected
<1>3. listed' = listed
  BY DEF SocketOpens, ChallengeArrives, RelayCloses, Authenticate, LoseConnection, FireRetry, GoOffline,
         GoOnline, NoViewChange
<1>4. Mounted' = Mounted
  BY <1>3 DEF Mounted
<1> SUFFICES /\ Linked(page', online', Mounted, abandoned', ShowsOnline(shown'))
             /\ page'.state \notin {"open", "closing"} => subscribed' = {} /\ due' = {}
  BY <1>4 DEF LinkInv, Connected, ShowsOnline
<1>5. CASE SocketOpens \/ ChallengeArrives
  <2>1. /\ UNCHANGED <<shown, subscribed, due, online, abandoned>>
        /\ \/ page' = [page EXCEPT !.state = "authenticating"] /\ page.state = "connecting"
           \/ page' = [page EXCEPT !.state = "signing"] /\ page.state = "authenticating"
    BY <1>5 DEF SocketOpens, ChallengeArrives
  <2>2. Linked(page', online, Mounted, abandoned, ShowsOnline(shown))
    BY <1>1, <1>2, <2>1 DEF Linked, Page
  <2> QED
    BY <1>1, <1>2, <2>1, <2>2 DEF Page
<1>6. CASE RelayCloses
  <2>1. /\ UNCHANGED <<shown, subscribed, due, online, abandoned>>
        /\ page' = [page EXCEPT !.state = "closing"] /\ page.state = "open"
    BY <1>6 DEF RelayCloses
  <2>2. Linked(page', online, Mounted, abandoned, ShowsOnline(shown))
    BY <1>1, <1>2, <2>1 DEF Linked, Page
  <2> QED
    BY <1>1, <1>2, <2>1, <2>2 DEF Page
<1>7. CASE \E b \in BOOLEAN : Authenticate(b)
  <2> DEFINE p == [page EXCEPT !.state = "open", !.current = TRUE, !.scheduled = FALSE, !.retry = 0]
  <2>1. /\ page.state = "signing" /\ UNCHANGED <<online, abandoned>>
        /\ \/ /\ page' = p /\ UNCHANGED shown
           \/ /\ page' = HeardClosed(p) /\ shown' = HeardByRegistry(p)
              /\ UNCHANGED <<subscribed, due>>
    BY <1>7 DEF Authenticate
  <2>2. /\ p \in Page /\ p.state = "open" /\ p.current /\ ~p.scheduled /\ ~p.timer /\ ~p.intentional
        /\ p.connection = page.connection /\ p.channel = None
        /\ online /\ Mounted /\ ~abandoned /\ p.connection # "retrying"
    <3>1. 0 \in 0..MaxRetries
      BY BoundIsPositive
    <3> QED
      BY <1>1, <1>2, <2>1, <3>1 DEF Linked, Page, States
  <2> HIDE DEF p
  <2>3. CASE page' = p /\ UNCHANGED shown
    <3>1. Linked(p, online, Mounted, abandoned, ShowsOnline(shown))
      BY <2>2, LinkedFields DEF Linked
    <3> QED
      BY <2>1, <2>2, <2>3, <3>1
  <2>4. CASE page' = HeardClosed(p) /\ shown' = HeardByRegistry(p) /\ UNCHANGED <<subscribed, due>>
    <3> DEFINE shows == ShowsOnline(shown')
    <3>1. ~shows
      BY <1>1, <2>2, <2>4, OfflineTyped DEF HeardByRegistry
    <3>2. shows \in BOOLEAN
      BY DEF ShowsOnline
    <3> HIDE DEF shows
    <3>3. p.timer = p.scheduled
      BY <2>2, LinkedFields
    <3>4. Linked(HeardClosed(p), online, Mounted, abandoned, shows)
      BY <1>1, <2>2, <3>1, <3>2, <3>3, ClosedLinked
    <3> QED
      BY <1>2, <2>1, <2>4, <3>4 DEF shows
  <2> QED
    BY <2>1, <2>3, <2>4
<1>8. CASE \E b \in BOOLEAN : LoseConnection(b)
  <2>1. PICK b \in BOOLEAN : LoseConnection(b)
    BY <1>8
  <2> DEFINE p == HeardClosed(page)
             q == IF b THEN WithRetry(p) ELSE p
             shows == ShowsOnline(shown')
  <2>2. /\ page' = IF Connecting(page) THEN WithRetry(q) ELSE q
        /\ shown' = HeardByRegistry(page) /\ subscribed' = {} /\ due' = {}
        /\ UNCHANGED <<online, abandoned>> /\ Mounted /\ page.state # "closed"
    BY <2>1 DEF LoseConnection, Unsubscribed
  <2>3. online /\ ~page.intentional /\ ~page.timer /\ ~page.scheduled /\ page.current /\ ~abandoned
        /\ page.connection # "retrying"
    BY <1>1, <1>2, <2>2 DEF Linked
  <2>4. ~shows /\ shows \in BOOLEAN /\ page.timer = page.scheduled
    <3>1. ~shows
      BY <1>1, <2>2, <2>3, OfflineTyped DEF HeardByRegistry
    <3>2. shows \in BOOLEAN
      BY DEF ShowsOnline
    <3> HIDE DEF shows
    <3> QED
      BY <1>1, <2>3, <3>1, <3>2, LinkedFields
  <2>5. p \in Page /\ p.state = "closed"
    BY <1>1, ClosedPage DEF IsClosed
  <2> HIDE DEF shows
  <2>6. Linked(p, online, Mounted, abandoned, shows)
    BY <1>1, <2>2, <2>3, <2>4, ClosedLinked
  <2> HIDE DEF p
  <2>7. /\ q \in Page /\ q.state = "closed" /\ Linked(q, online, Mounted, abandoned, shows)
    <3>1. /\ WithRetry(p) \in Page /\ WithRetry(p).state = "closed"
          /\ Linked(WithRetry(p), online, Mounted, abandoned, shows)
      BY <1>1, <2>2, <2>5, <2>6, RetriedPage, RetriedLinked
    <3> QED
      BY <2>5, <2>6, <3>1
  <2> HIDE DEF q
  <2>8. Linked(WithRetry(q), online, Mounted, abandoned, shows)
    BY <1>1, <2>2, <2>7, RetriedLinked
  <2> QED
    BY <2>2, <2>7, <2>8 DEF shows
<1>9. CASE FireRetry
  <2>1. /\ page' = [page EXCEPT !.timer = FALSE, !.current = TRUE, !.scheduled = FALSE,
                                !.intentional = FALSE, !.connection = "connecting",
                                !.state = IF @ = "closed" THEN "connecting" ELSE @]
        /\ abandoned' = FALSE /\ page.timer /\ UNCHANGED <<shown, subscribed, due, online>>
    BY <1>9 DEF FireRetry
  <2>2. /\ page'.state = "connecting" /\ page'.current /\ ~page'.timer /\ ~page'.scheduled
        /\ ~page'.intentional /\ page'.connection = "connecting" /\ page'.channel = page.channel
        /\ page.state = "closed" /\ online /\ Mounted
    BY <1>1, <1>2, <2>1 DEF Linked, Page
  <2>3. Linked(page', online, Mounted, abandoned', ShowsOnline(shown))
    BY <1>2, <2>1, <2>2 DEF Linked
  <2> QED
    BY <1>2, <2>1, <2>2, <2>3
<1>10. CASE GoOffline
  <2>1. /\ page' = [Cleared(page) EXCEPT !.intentional = FALSE, !.current = FALSE, !.scheduled = FALSE,
                                   !.timer = FALSE, !.state = "closed", !.connection = "no_network"]
        /\ Mounted /\ online' = FALSE /\ subscribed' = {} /\ due' = {} /\ UNCHANGED <<shown, abandoned>>
    BY <1>10 DEF GoOffline, Unsubscribed
  <2>2. /\ page'.state = "closed" /\ ~page'.timer /\ ~page'.scheduled
        /\ ~page'.intentional /\ page'.connection = "no_network" /\ page'.channel = None
    <3>1. Cleared(page) \in Page /\ Cleared(page).channel = None
      BY <1>1, ClearedPage
    <3> QED
      BY <2>1, <3>1 DEF Page
  <2>3. Linked(page', FALSE, Mounted, abandoned, ShowsOnline(shown))
    BY <2>1, <2>2 DEF Linked
  <2> QED
    BY <2>1, <2>3
<1>11. CASE GoOnline
  <2>1. /\ page' = ConnectNow(page) /\ Mounted /\ ~online /\ online' = TRUE /\ abandoned' = FALSE
        /\ UNCHANGED <<shown, subscribed, due>>
    BY <1>11 DEF GoOnline
  <2>2. page.state = "closed" /\ page.channel = None
    BY <1>1, <1>2, <2>1 DEF Linked
  <2>3. /\ page'.state = "connecting" /\ page'.current /\ ~page'.timer /\ ~page'.scheduled
        /\ ~page'.intentional /\ page'.connection = "connecting" /\ page'.channel = None
    BY <1>1, <2>1, <2>2, ConnectNowPage DEF SameSession
  <2>4. Linked(page', TRUE, Mounted, FALSE, ShowsOnline(shown))
    BY <1>1, <2>1, <2>3, LinkedFields DEF Linked
  <2> QED
    BY <1>2, <2>1, <2>2, <2>4
<1> QED
  BY <1>5, <1>6, <1>7, <1>8, <1>9, <1>10, <1>11


LEMMA SessionLinks ==
  ASSUME TypeOK, TypeOK', LinkInv,
         \/ RunSessionEffect \/ SessionReady \/ RetrySession
         \/ \E terminal \in BOOLEAN : SessionEnds(terminal)
  PROVE  LinkInv'
<1>1. /\ online \in BOOLEAN /\ page \in Page /\ abandoned \in BOOLEAN /\ page' \in Page
      /\ RegistryTypeOK /\ Mounted \in BOOLEAN /\ ShowsOnline(shown) \in BOOLEAN
  BY ConnectionTypes DEF TypeOK, ConnectionTypeOK, Mounted, ShowsOnline
<1>2. /\ Linked(page, online, Mounted, abandoned, ShowsOnline(shown))
      /\ page.state \notin {"open", "closing"} => subscribed = {} /\ due = {}
  BY DEF LinkInv, Connected
<1>3. listed' = listed /\ shown' = shown /\ online' = online
  BY DEF RunSessionEffect, SessionReady, RetrySession, SessionEnds, NoViewChange
<1> DEFINE shows == ShowsOnline(shown)
<1> HIDE DEF shows
<1> SUFFICES /\ Linked(page', online, Mounted, abandoned', shows)
             /\ page'.state \notin {"open", "closing"} => subscribed' = {} /\ due' = {}
  BY <1>3 DEF LinkInv, Connected, ShowsOnline, Mounted, shows
<1>4. Linked(page, online, Mounted, abandoned, shows) /\ shows \in BOOLEAN
  BY <1>1, <1>2 DEF shows
<1>5. CASE RunSessionEffect
  <2> DEFINE p == Joined(page)
             failed == p.hello /\ p.state = "closing"
             c == [p EXCEPT !.intentional = TRUE]
  <2>1. /\ page' = IF failed THEN HeardClosed(c) ELSE p
        /\ abandoned' = (abandoned \/ failed)
        /\ IF failed THEN subscribed' = {} /\ due' = {} ELSE UNCHANGED <<subscribed, due>>
    BY <1>5 DEF RunSessionEffect, Unsubscribed
  <2>2. IsJoined(page, p) /\ p \in Page
    BY <1>1, JoinedPage DEF IsJoined
  <2>3. /\ c \in Page /\ c.intentional = TRUE /\ c.timer = p.timer /\ c.scheduled = p.scheduled
        /\ c.current = p.current /\ c.connection = p.connection
    BY <2>2 DEF Page
  <2> HIDE DEF p, c
  <2>4. CASE failed
    <3>1. /\ online /\ Mounted /\ ~p.timer /\ p.timer \in BOOLEAN /\ p.scheduled \in BOOLEAN
          /\ ~p.scheduled /\ p.current /\ p.connection # "retrying"
      BY <1>4, <2>2, <2>4, LinkedFields DEF IsJoined, Linked
    <3>2. Linked(HeardClosed(c), online, Mounted, TRUE, shows)
      BY <1>1, <1>4, <2>3, <3>1, ClosedLinked
    <3>3. abandoned' = TRUE
      BY <2>1, <2>4
    <3> QED
      BY <2>1, <2>4, <3>2, <3>3
  <2>5. CASE ~failed
    <3>1. page' = p /\ abandoned' = abandoned /\ UNCHANGED <<subscribed, due>>
      BY <1>1, <2>1, <2>5
    <3>2. Target.online => shows
      BY <1>1, TargetTyped DEF shows
    <3>3. Target \in Targets /\ Target.online \in BOOLEAN
      BY <1>1, TargetTyped DEF Targets
    <3>4. /\ p.state = page.state /\ p.current = page.current /\ p.scheduled = page.scheduled
          /\ p.timer = page.timer /\ p.intentional = page.intentional
          /\ \/ p.channel = None /\ p.connection = "offline"
             \/ p.channel = None /\ p.connection = "no_network" /\ ~online
             \/ p.channel = None /\ p.connection = "connecting" /\ online /\ shows
                /\ p.state \notin {"open", "closing"}
             \/ p.connection = "connecting" /\ p.state \in {"open", "closing"}
      BY <2>2, <3>2, <3>3 DEF IsJoined
    <3>5. Linked(p, online, Mounted, abandoned, shows)
      BY <1>1, <1>4, <3>4 DEF Linked
    <3> QED
      BY <1>2, <3>1, <3>4, <3>5
  <2> QED
    BY <2>4, <2>5
<1>6. CASE SessionReady
  <2>1. /\ page' = [page EXCEPT !.hello = FALSE, !.connection = "online"]
        /\ page.state \in {"open", "closing"} /\ UNCHANGED <<subscribed, due, abandoned>>
    BY <1>6 DEF SessionReady, Connected
  <2>2. Linked(page', online, Mounted, abandoned, shows) /\ page'.state = page.state
    BY <1>1, <1>4, <2>1 DEF Linked, Page
  <2> QED
    BY <1>2, <2>1, <2>2
<1>7. CASE \E terminal \in BOOLEAN : SessionEnds(terminal)
  <2>1. PICK terminal \in BOOLEAN : SessionEnds(terminal)
    BY <1>7
  <2>2. /\ page' = [Cleared(page) EXCEPT !.terminal = terminal,
                                   !.connection = IF terminal THEN "offline" ELSE "connecting"]
        /\ page.channel # None /\ UNCHANGED <<subscribed, due, abandoned>>
    BY <2>1 DEF SessionEnds
  <2>3. /\ page'.state = page.state /\ page'.current = page.current /\ page'.scheduled = page.scheduled
        /\ page'.timer = page.timer /\ page'.intentional = page.intentional /\ page'.channel = None
        /\ page'.connection \in {"offline", "connecting"}
    BY <1>1, <2>2, ClearedPage DEF Page
  <2>4. page.state \in {"open", "closing"}
    BY <1>4, <2>2 DEF Linked
  <2>5. Linked(page', online, Mounted, abandoned, shows)
    BY <1>1, <1>4, <2>3, <2>4 DEF Linked
  <2> QED
    BY <1>2, <2>2, <2>3, <2>5
<1>8. CASE RetrySession
  <2> DEFINE p == [Cleared(page) EXCEPT !.terminal = FALSE]
  <2>1. /\ UNCHANGED <<subscribed, due>> /\ ActiveEndpoint # None
        /\ page' = IF ~online THEN [p EXCEPT !.connection = "no_network"]
                   ELSE IF Connected THEN [p EXCEPT !.connection = "connecting"]
                   ELSE ConnectNow(p)
        /\ abandoned' = (abandoned /\ ~online)
    BY <1>8 DEF RetrySession
  <2>2. /\ p \in Page /\ p.state = page.state /\ p.current = page.current /\ p.scheduled = page.scheduled
        /\ p.timer = page.timer /\ p.intentional = page.intentional /\ p.channel = None
    BY <1>1, ClearedPage DEF Page
  <2>3. Mounted
    BY <2>1 DEF ActiveEndpoint, ActiveDevice, Mounted
  <2> HIDE DEF p
  <2>4. CASE ~online
    <3>1. /\ page' = [p EXCEPT !.connection = "no_network"] /\ abandoned' = abandoned
      BY <1>1, <2>1, <2>4
    <3>2. /\ page'.state = page.state /\ page'.current = page.current /\ page'.scheduled = page.scheduled
          /\ page'.timer = page.timer /\ page'.intentional = page.intentional /\ page'.channel = None
          /\ page'.connection = "no_network"
      BY <2>2, <3>1 DEF Page
    <3>3. Linked(page', online, Mounted, abandoned, shows)
      BY <1>4, <2>4, <3>2 DEF Linked
    <3> QED
      BY <1>2, <2>1, <3>1, <3>2, <3>3
  <2>5. CASE online /\ Connected
    <3>1. /\ page' = [p EXCEPT !.connection = "connecting"] /\ abandoned' = FALSE
      BY <1>1, <2>1, <2>5
    <3>2. /\ page'.state = page.state /\ page'.current = page.current /\ page'.scheduled = page.scheduled
          /\ page'.timer = page.timer /\ page'.intentional = page.intentional /\ page'.channel = None
          /\ page'.connection = "connecting"
      BY <2>2, <3>1 DEF Page
    <3>3. Linked(page', online, Mounted, FALSE, shows)
      BY <1>4, <2>5, <3>2 DEF Linked, Connected
    <3> QED
      BY <1>2, <2>1, <3>1, <3>2, <3>3
  <2>6. CASE online /\ ~Connected
    <3>1. /\ page' = ConnectNow(p) /\ abandoned' = FALSE
      BY <1>1, <2>1, <2>6
    <3>2. /\ page'.state = IF p.state = "closed" THEN "connecting" ELSE p.state
          /\ page'.current /\ ~page'.scheduled /\ ~page'.timer /\ ~page'.intentional
          /\ page'.channel = None /\ page'.connection = "connecting"
      BY <2>2, <3>1, ConnectNowPage DEF SameSession
    <3>3. Linked(page', online, Mounted, FALSE, shows)
      BY <1>1, <2>3, <2>6, <3>2, LinkedFields DEF Linked
    <3> QED
      BY <1>2, <2>1, <2>6, <3>1, <3>2, <3>3 DEF Connected
  <2> QED
    BY <2>4, <2>5, <2>6
<1> QED
  BY <1>5, <1>6, <1>7, <1>8

(* Devices that are listed anew show as many or as few, and an emptied     *)
(* list shows nothing.                                                     *)
LEMMA ListedAnew ==
  ASSUME RegistryTypeOK, NEW device, NEW choice, Lists(device, choice)
  PROVE  /\ \/ /\ page' = Remounted(page, listed') /\ abandoned' = FALSE /\ subscribed' = {} /\ due' = {}
            \/ /\ Mounted' = Mounted /\ UNCHANGED <<page, abandoned, subscribed>>
               /\ due' = IF page.state = "open" THEN listed' ELSE due
         /\ shown' = shown \/ shown' = Nothing
         /\ listed' = {} => shown' = Nothing
         /\ listed' = stored /\ UNCHANGED <<online, ran, bumped>>
<1>1. /\ listed' = stored /\ UNCHANGED <<online, ran, bumped>> /\ DevicesListed
      /\ device \in Optional(stored) /\ ActiveDeviceEffects(device, choice)
  BY DEF Lists
<1>2. IsFiniteSet(listed) /\ IsFiniteSet(listed')
  BY <1>1, RegistryTypes, FS_Subset, EndpointRegistryAssumption
<1>3. Cardinality(listed') = Cardinality(listed) => Mounted' = Mounted
  BY <1>2, FS_EmptySet DEF Mounted
<1>4. /\ shown' = shown \/ shown' = Nothing
      /\ device = None => shown' = Nothing
  BY <1>1 DEF ActiveDeviceEffects
<1>5. listed' = {} => device = None
  BY <1>1 DEF Optional
<1> QED
  BY <1>1, <1>3, <1>4, <1>5 DEF DevicesListed, Unsubscribed

LEMMA ListLinks ==
  ASSUME TypeOK, TypeOK', LinkInv, NEW device, NEW choice, Lists(device, choice)
  PROVE  LinkInv'
<1>1. /\ online \in BOOLEAN /\ page \in Page /\ abandoned \in BOOLEAN
      /\ RegistryTypeOK /\ Mounted \in BOOLEAN /\ Mounted' \in BOOLEAN
  BY ConnectionTypes DEF TypeOK, Mounted
<1>2. /\ Linked(page, online, Mounted, abandoned, ShowsOnline(shown))
      /\ page.state \notin {"open", "closing"} => subscribed = {} /\ due = {}
  BY DEF LinkInv, Connected
<1>3. /\ \/ /\ page' = Remounted(page, listed') /\ abandoned' = FALSE /\ subscribed' = {} /\ due' = {}
         \/ /\ Mounted' = Mounted /\ UNCHANGED <<page, abandoned, subscribed>>
            /\ due' = IF page.state = "open" THEN listed' ELSE due
      /\ shown' = shown \/ shown' = Nothing
      /\ listed' = {} => shown' = Nothing
      /\ online' = online
  BY <1>1, ListedAnew
<1>4. ~ShowsOnline(Nothing)
  BY DEF ShowsOnline, Nothing
<1> SUFFICES /\ Linked(page', online, Mounted', abandoned', ShowsOnline(shown'))
             /\ page'.state \notin {"open", "closing"} => subscribed' = {} /\ due' = {}
  BY <1>3 DEF LinkInv, Connected, ShowsOnline
<1>5. CASE /\ Mounted' = Mounted /\ UNCHANGED <<page, abandoned, subscribed>>
           /\ due' = IF page.state = "open" THEN listed' ELSE due
  <2>1. ShowsOnline(shown') => ShowsOnline(shown)
    BY <1>3, <1>4
  <2> DEFINE shows == ShowsOnline(shown)
             shows1 == ShowsOnline(shown')
  <2> HIDE DEF shows, shows1
  <2>2. Linked(page, online, Mounted, abandoned, shows1)
    <3>1. Linked(page, online, Mounted, abandoned, shows) /\ (shows1 => shows)
      BY <1>2, <2>1 DEF shows, shows1
    <3> QED
      BY <3>1 DEF Linked
  <2> QED
    BY <1>2, <1>5, <2>2 DEF shows1
<1>6. CASE page' = Remounted(page, listed') /\ abandoned' = FALSE /\ subscribed' = {} /\ due' = {}
  <2> DEFINE shows1 == ShowsOnline(shown')
             mounted == listed' # {}
  <2>1. ~mounted => ~shows1
    BY <1>3, <1>4
  <2>2. /\ page'.channel = None /\ ~page'.timer /\ ~page'.scheduled /\ ~page'.intentional
        /\ ~mounted => page'.state = "closed"
        /\ mounted => page'.current
        /\ mounted /\ ~online => page'.state = "closed" /\ page'.connection = "no_network"
        /\ mounted /\ online => page'.state = "connecting" /\ page'.connection = "connecting"
    BY <1>1, <1>2, <1>6, RemountedPage DEF Linked
  <2>3. Mounted' = mounted
    BY DEF Mounted
  <2> HIDE DEF shows1, mounted
  <2>4. page' \in Page
    BY ConnectionTypes DEF TypeOK, ConnectionTypeOK
  <2>5. Linked(page', online, mounted, FALSE, shows1)
    BY <2>1, <2>2, <2>4, LinkedFields DEF Linked
  <2> QED
    BY <1>6, <2>3, <2>5 DEF shows1
<1> QED
  BY <1>3, <1>5, <1>6


LEMMA HostLinks ==
  ASSUME RegistryTypeOK, NEW e \in Endpoints, HostStarts(e) \/ HostUpdates(e) \/ HostEnds(e)
  PROVE  /\ UNCHANGED <<subscribed, due, listed, stored, removing, active, chosen>>
         /\ ShowsOnline(shown') => ShowsOnline(shown)
<1>1. UNCHANGED <<subscribed, due, listed, stored, removing, active, chosen>>
  BY DEF HostStarts, HostUpdates, HostEnds, Report, tableVars, selectionVars
<1>2. shown' = shown \/ \E r : ApplyEnd(e, r)
  <2>1. CASE HostStarts(e)
    BY <2>1 DEF HostStarts, Report, ApplyEvent
  <2>2. CASE HostUpdates(e)
    BY <2>2 DEF HostUpdates, Report, ApplyEvent
  <2>3. CASE HostEnds(e)
    BY <2>3 DEF HostEnds, Report
  <2> QED
    BY <2>1, <2>2, <2>3
<1>3. ASSUME ShowsOnline(shown'), shown' # shown
      PROVE  ShowsOnline(shown)
  <2>1. shown[e] # None /\ shown' = [shown EXCEPT ![e].online = FALSE]
    BY <1>2, <1>3 DEF ApplyEnd
  <2>2. PICK x \in Endpoints : shown'[x] # None /\ shown'[x].online
    BY <1>3 DEF ShowsOnline
  <2>3. shown[e] \in Shown /\ shown \in View
    BY <2>1, RegistryTypes, ViewEntry
  <2>4. x # e
    BY <2>1, <2>2, <2>3 DEF View, Shown
  <2>5. shown[x] # None /\ shown[x].online
    BY <2>1, <2>2, <2>3, <2>4 DEF View
  <2> QED
    BY <2>5 DEF ShowsOnline
<1> QED
  BY <1>1, <1>3

LEMMA LinkKept ==
  ASSUME TypeOK, LinkInv, UNCHANGED <<page, online, subscribed, due, listed>>,
         abandoned' \in BOOLEAN,
         \/ abandoned' = abandoned /\ (ShowsOnline(shown') => ShowsOnline(shown))
         \/ abandoned' = (abandoned \/ (online /\ page.state = "closed" /\ ShowsOnline(shown')))
  PROVE  LinkInv'
<1>1. /\ Linked(page, online, Mounted, abandoned, ShowsOnline(shown))
      /\ page.state \notin {"open", "closing"} => subscribed = {} /\ due = {}
      /\ Mounted' = Mounted /\ abandoned \in BOOLEAN /\ online \in BOOLEAN
  BY ConnectionTypes DEF LinkInv, Connected, Mounted, TypeOK
<1> DEFINE shows == ShowsOnline(shown)
           shows1 == ShowsOnline(shown')
<1>2. /\ Linked(page, online, Mounted, abandoned, shows)
      /\ \/ abandoned' = abandoned /\ (shows1 => shows)
         \/ abandoned' = (abandoned \/ (online /\ page.state = "closed" /\ shows1))
      /\ shows \in BOOLEAN /\ shows1 \in BOOLEAN
  BY <1>1 DEF ShowsOnline
<1> HIDE DEF shows, shows1
<1>3. Linked(page, online, Mounted, abandoned', shows1)
  BY <1>1, <1>2 DEF Linked
<1>4. Linked(page, online, Mounted, abandoned', ShowsOnline(shown'))
  BY <1>3 DEF shows1
<1> QED
  BY <1>1, <1>4 DEF LinkInv, Connected, ShowsOnline

LEMMA RegistryLinks ==
  ASSUME Registry
  PROVE  /\ UNCHANGED <<page, online, ran, bumped, subscribed, due, listed, dialog, attempt>>
         /\ stored' \subseteq stored
         /\ stored \ stored' # {} => removing # None /\ stored' = stored \ {removing.device}
  BY DEF Registry, FinishLoad, FinishRestore, PersistStep, SelectDevice, SelectEndpoint, RemoveData,
         tableVars, pairingVars

LEMMA PairingLinks ==
  ASSUME Pairing
  PROVE  UNCHANGED <<page, online, ran, bumped, abandoned, subscribed, due, listed, shown, removing,
                     active, chosen>>
  BY DEF Pairing, OpenDialog, CloseDialog, AttemptFails, PairOk, PairError, Scan, SendPairRequest,
         NoRegistryChange, connectionVars, viewVars, selectionVars

LEMMA InitLinks == Init => LinkInv
<1> SUFFICES ASSUME Init
             PROVE  LinkInv
  OBVIOUS
<1>1. /\ online = TRUE /\ abandoned = FALSE /\ ~ShowsOnline(shown)
      /\ subscribed = {} /\ due = {} /\ Mounted \in BOOLEAN
      /\ page = [connection |-> "connecting", state |-> IF Mounted THEN "connecting" ELSE "closed",
                 current |-> Mounted, scheduled |-> FALSE, timer |-> FALSE, retry |-> 0,
                 intentional |-> FALSE, channel |-> None, hello |-> FALSE,
                 terminal |-> FALSE, identity |-> None]
  BY DEF Init, ConnectionInit, RegistryInit, ShowsOnline, Nothing, Mounted
<1> DEFINE shows == ShowsOnline(shown)
<1>2. ~shows
  BY <1>1
<1> HIDE DEF shows
<1>3. Linked(page, online, Mounted, abandoned, shows)
  BY <1>1, <1>2 DEF Linked
<1> QED
  BY <1>1, <1>3 DEF LinkInv, shows

LEMMA NextLinks == TypeOK /\ LinkInv /\ [Next]_vars => LinkInv'
<1> SUFFICES ASSUME TypeOK, LinkInv, [Next]_vars
             PROVE  LinkInv'
  OBVIOUS
<1>1. TypeOK'
  BY NextTypes
<1>2. /\ RegistryTypeOK /\ PairingTypeOK /\ page \in Page /\ online \in BOOLEAN
      /\ abandoned \in BOOLEAN /\ abandoned' \in BOOLEAN
  BY <1>1, ConnectionTypes DEF TypeOK, ConnectionTypeOK
<1>3. CASE Hosts
  BY <1>2, <1>3, HostLinks, LinkKept DEF Hosts, connectionVars
<1>4. CASE Registry
  BY <1>2, <1>4, RegistryLinks, LinkKept DEF Registry
<1>5. CASE StartRemoval
  <2>1. PICK d \in Devices : RemovePairing(d) /\ page' = IF active = d THEN Cleared(page) ELSE page
    BY <1>5 DEF StartRemoval
  <2>2. UNCHANGED <<online, abandoned, shown, subscribed, due, listed>>
    BY <1>5, <2>1 DEF StartRemoval, RemovePairing
  <2>3. page' \in {page, Cleared(page)}
    BY <2>1
  <2>4. /\ Linked(page, online, Mounted, abandoned, ShowsOnline(shown))
        /\ page.state \notin {"open", "closing"} => subscribed = {} /\ due = {}
    BY DEF LinkInv, Connected
  <2>5. /\ page'.state = page.state /\ page'.current = page.current /\ page'.scheduled = page.scheduled
        /\ page'.timer = page.timer /\ page'.intentional = page.intentional
        /\ page'.connection = page.connection /\ (page'.channel # None => page'.channel = page.channel)
    BY <1>2, <2>3, ClearedPage
  <2>6. Linked(page', online, Mounted, abandoned, ShowsOnline(shown))
    <3> DEFINE shows == ShowsOnline(shown)
    <3>1. Linked(page, online, Mounted, abandoned, shows)
      BY <2>4
    <3> HIDE DEF shows
    <3>2. Linked(page', online, Mounted, abandoned, shows)
      BY <2>5, <3>1 DEF Linked
    <3> QED
      BY <3>2 DEF shows
  <2> QED
    BY <2>2, <2>4, <2>5, <2>6 DEF LinkInv, Connected, Mounted, ShowsOnline
<1>6. CASE EndRemoval
  BY <1>1, <1>2, <1>6, RemovalLists, ListLinks
<1>7. CASE Relay
  <2>1. CASE \E d \in Devices : SnapshotArrives(d)
    <3>1. /\ UNCHANGED <<page, online, abandoned, listed, shown>> /\ page.state \in {"open", "closing"}
      BY <2>1 DEF SnapshotArrives, Snapshot, ApplySnapshot, connectionVars
    <3> QED
      BY <3>1 DEF LinkInv, Connected, Mounted, ShowsOnline
  <2>2. CASE ~(\E d \in Devices : SnapshotArrives(d))
    BY <1>1, <1>7, <2>2, RelayLinks DEF Relay
  <2> QED
    BY <2>1, <2>2
<1>8. CASE Session
  BY <1>1, <1>8, SessionLinks DEF Session
<1>9. CASE Pairing
  BY <1>2, <1>9, PairingLinks, LinkKept
<1>10. CASE EndPairing
  BY <1>1, <1>2, <1>10, PairingLists, ListLinks
<1>11. CASE UNCHANGED vars
  BY <1>2, <1>11, LinkKept DEF vars, connectionVars, registryVars, viewVars
<1> QED
  BY <1>3, <1>4, <1>5, <1>6, <1>7, <1>8, <1>9, <1>10, <1>11 DEF Next

LEMMA LinkHolds == Spec => []LinkInv
<1>1. TypeOK /\ LinkInv /\ [Next]_vars => LinkInv'
  BY NextLinks
<1> QED
  BY <1>1, InitLinks, PageTypes, PTL DEF Spec


-----------------------------------------------------------------------------
(* The session.                                                            *)

(* A pairing is removed while no dialog is open.  Once its data is deleted *)
(* its device is the only one that is listed and not stored.               *)
RemovalInv ==
  /\ removing # None => dialog = "idle"
  /\ removing # None /\ removing.deleted => removing.device \notin stored
  /\ \A d \in listed \ stored : removing # None /\ removing.deleted /\ removing.device = d

LEMMA RegistryRemoves ==
  ASSUME RegistryTypeOK, Registry
  PROVE  \/ UNCHANGED <<stored, removing>>
         \/ /\ stored' = stored /\ removing # None /\ removing' # None
            /\ removing'.device = removing.device /\ removing'.deleted = removing.deleted
         \/ /\ removing # None /\ removing' # None /\ stored' = stored \ {removing.device}
            /\ removing'.device = removing.device /\ removing'.deleted
<1>1. removing # None => removing \in [device : Devices, ahead : Nat, deleted : BOOLEAN]
  BY DEF RegistryTypeOK, Optional
<1>2. CASE PersistStep
  <2>1. stored' = stored /\ chain # <<>> /\ (UNCHANGED removing \/ Over)
    BY <1>2, PersistSteps DEF Advances, Dropped
  <2> QED
    BY <2>1, OverTyped
<1>3. CASE RemoveData
  <2>1. /\ removing # None /\ removing' = [removing EXCEPT !.deleted = TRUE]
        /\ stored' = stored \ {removing.device}
    BY <1>3 DEF RemoveData
  <2>2. removing' \in [device : Devices, ahead : Nat, deleted : BOOLEAN]
    BY <1>1, <2>1
  <2> QED
    BY <1>1, <2>1, <2>2, ViewAssumption
<1>4. CASE \/ FinishLoad \/ FinishRestore \/ \E d \in Devices : SelectDevice(d)
           \/ \E e \in Endpoints : SelectEndpoint(e)
  BY <1>4 DEF FinishLoad, FinishRestore, SelectDevice, SelectEndpoint, tableVars
<1> QED
  BY <1>2, <1>3, <1>4 DEF Registry

LEMMA OthersKeepStored ==
  ASSUME Hosts \/ Relay \/ Session \/ UNCHANGED vars
  PROVE  UNCHANGED <<stored, listed, removing, dialog, active, attempt>>
<1>1. CASE Hosts
  BY <1>1 DEF Hosts, HostStarts, HostUpdates, HostEnds, Report, tableVars, selectionVars, pairingVars
<1>2. CASE Relay
  BY <1>2 DEF Relay, SocketOpens, ChallengeArrives, RelayCloses, Authenticate, LoseConnection, FireRetry,
              GoOffline, GoOnline, NoViewChange, SnapshotArrives, Snapshot, tableVars, selectionVars,
              pairingVars
<1>3. CASE Session
  BY <1>3 DEF Session, RunSessionEffect, SessionReady, RetrySession, SessionEnds, NoViewChange,
              tableVars, selectionVars, pairingVars
<1>4. CASE UNCHANGED vars
  BY <1>4 DEF vars, registryVars, tableVars, selectionVars, pairingVars
<1> QED
  BY <1>1, <1>2, <1>3, <1>4

(* What the dialog does to the tables and to itself.                       *)
LEMMA PairingKeeps ==
  ASSUME Pairing, DialogIsAttempt
  PROVE  /\ UNCHANGED <<listed, removing>>
         /\ \/ dialog # "idle"
            \/ dialog = "idle" /\ removing = None /\ ~SessionEffectPending /\ stored' = stored
<1>1. UNCHANGED <<listed, removing>>
  BY PairingLinks
<1>2. CASE ~SessionEffectPending /\ OpenDialog
  BY <1>1, <1>2 DEF OpenDialog, NoRegistryChange, tableVars
<1>3. CASE CloseDialog \/ \E e \in Endpoints : Scan(e)
  BY <1>1, <1>3 DEF CloseDialog, Scan
<1>4. CASE AttemptFails \/ PairOk \/ PairError \/ \E b \in BOOLEAN : SendPairRequest(b)
  BY <1>1, <1>4 DEF AttemptFails, PairOk, PairError, SendPairRequest, DialogIsAttempt
<1> QED
  BY <1>1, <1>2, <1>3, <1>4 DEF Pairing

LEMMA NextRemoves == TypeOK /\ DialogIsAttempt /\ RemovalInv /\ [Next]_vars => RemovalInv'
<1> SUFFICES ASSUME TypeOK, DialogIsAttempt, RemovalInv, [Next]_vars
             PROVE  RemovalInv'
  OBVIOUS
<1>1. RegistryTypeOK /\ PairingTypeOK
  BY DEF TypeOK
<1>2. CASE Hosts \/ Relay \/ Session \/ UNCHANGED vars
  BY <1>2, OthersKeepStored DEF RemovalInv
<1>3. CASE Registry
  BY <1>1, <1>3, RegistryRemoves, RegistryLinks DEF RemovalInv
<1>4. CASE StartRemoval
  <2>1. PICK d \in Devices : RemovePairing(d) /\ dialog = "idle" /\ UNCHANGED pairingVars
    BY <1>4 DEF StartRemoval
  <2>2. /\ removing' = [device |-> d, ahead |-> Len(chain), deleted |-> FALSE] /\ removing = None
        /\ UNCHANGED <<stored, listed, dialog>>
    BY <2>1 DEF RemovePairing, tableVars, pairingVars
  <2> QED
    BY <2>1, <2>2 DEF RemovalInv
<1>5. CASE EndRemoval
  BY <1>5 DEF EndRemoval, RemoveDone, tableVars, RemovalInv
<1>6. CASE Pairing
  <2>1. UNCHANGED <<listed, removing>>
    BY <1>6, PairingKeeps
  <2>2. CASE dialog # "idle"
    <3>1. removing = None
      BY <2>2 DEF RemovalInv
    <3>2. stored \subseteq stored'
      BY <1>6 DEF Pairing, OpenDialog, CloseDialog, AttemptFails, PairOk, PairError, Scan,
                  SendPairRequest, NoRegistryChange, tableVars
    <3> QED
      BY <2>1, <3>1, <3>2 DEF RemovalInv
  <2>3. CASE removing = None /\ stored' = stored
    BY <2>1, <2>3 DEF RemovalInv
  <2> QED
    BY <1>6, <2>2, <2>3, PairingKeeps
<1>7. CASE EndPairing
  <2>1. /\ removing' = removing /\ listed' = stored /\ stored' = stored
        /\ dialog' \in {dialog, "idle"}
    BY <1>1, <1>7, PairingLists DEF Lists
  <2> QED
    BY <2>1 DEF RemovalInv
<1> QED
  BY <1>2, <1>3, <1>4, <1>5, <1>6, <1>7 DEF Next

LEMMA RemovalHolds == Spec => []RemovalInv
<1>1. Init => RemovalInv
  BY DEF Init, RegistryInit, RemovalInv
<1> QED
  BY <1>1, NextRemoves, PageTypes, DialogFollows, PTL DEF Spec

(* The device the session effect last ran for is about to be no device of  *)
(* the page's, and the effect to run again.                                *)
Gone ==
  /\ ran # None /\ ran.device # None /\ dialog = "idle"
  /\ \/ removing # None /\ removing.device = ran.device
     \/ ran.device \notin stored \cup listed

LEMMA GoneLasts ==
  ASSUME TypeOK, DialogIsAttempt, RemovalInv, [Next]_vars, Gone, ran' = ran
  PROVE  Gone'
<1>1. RegistryTypeOK /\ PairingTypeOK
  BY DEF TypeOK
<1>2. CASE Hosts \/ Relay \/ Session \/ UNCHANGED vars
  BY <1>2, OthersKeepStored DEF Gone
<1>3. CASE Registry
  BY <1>1, <1>3, RegistryRemoves, RegistryLinks DEF Gone
<1>4. CASE StartRemoval
  <2>1. removing = None /\ UNCHANGED <<stored, listed, dialog>>
    BY <1>4 DEF StartRemoval, RemovePairing, tableVars, pairingVars
  <2> QED
    BY <2>1 DEF Gone
<1>5. CASE EndRemoval
  BY <1>5 DEF EndRemoval, RemoveDone, tableVars, pairingVars, RemovalInv, Gone
<1>6. CASE Pairing
  <2>1. ~SessionEffectPending /\ removing = None
    BY <1>6, PairingKeeps DEF Gone
  <2>2. ran = Target /\ ran.device \notin listed
    BY <2>1 DEF SessionEffectPending, Gone
  <2>3. ran.device # None /\ ran.device = ActiveDevice
    BY <1>1, <2>2, TargetTyped DEF Gone
  <2> QED
    BY <1>1, <2>2, <2>3, TargetTyped
<1>7. CASE EndPairing
  <2>1. /\ removing' = removing /\ listed' = stored /\ stored' = stored
        /\ dialog' \in {dialog, "idle"}
    BY <1>1, <1>7, PairingLists DEF Lists
  <2> QED
    BY <2>1 DEF Gone
<1> QED
  BY <1>2, <1>3, <1>4, <1>5, <1>6, <1>7 DEF Next


(* What a page p says of its session: it is the one the effect ran for     *)
(* last, and was not over for good; a page that has none says "online" or  *)
(* "connecting" only until the effect runs.                                *)
Spoken(p, r, bump, gone) ==
  /\ p.channel # None =>
       /\ r # None /\ r.device # None /\ p.channel = r.session /\ r.online /\ ~p.terminal
       /\ ~p.hello => p.connection = "online"
  /\ p.hello => p.channel # None
  /\ p.connection = "online" /\ p.channel = None => gone
  /\ p.connection = "connecting" /\ p.state \in {"open", "closing"} /\ p.channel = None => bump \/ gone

SessionInv == Spoken(page, ran, bumped, Gone)

LEMMA RelaySpeaks ==
  ASSUME TypeOK, LinkInv, SessionInv, Gone => Gone',
         \/ SocketOpens \/ ChallengeArrives \/ RelayCloses
         \/ \E b \in BOOLEAN : Authenticate(b) \/ LoseConnection(b)
         \/ FireRetry \/ GoOffline \/ GoOnline
  PROVE  SessionInv'
<1>1. /\ online \in BOOLEAN /\ page \in Page /\ ran' = ran /\ (bumped' = bumped \/ bumped')
      /\ page.hello \in BOOLEAN /\ page.channel \in Optional(Channel)
  BY ConnectionTypes, PageFields
     DEF TypeOK, SocketOpens, ChallengeArrives, RelayCloses, Authenticate, LoseConnection, FireRetry,
         GoOffline, GoOnline
<1> DEFINE gone == Gone
           gone1 == Gone'
<1>2. Spoken(page, ran, bumped, gone) /\ (gone => gone1)
  BY DEF SessionInv
<1>3. Linked(page, online, Mounted, abandoned, ShowsOnline(shown))
  BY DEF LinkInv
<1> SUFFICES Spoken(page', ran', bumped', gone1)
  BY DEF SessionInv
<1> HIDE DEF gone, gone1
<1>4. /\ page.channel # None => page.state \in {"open", "closing"}
      /\ page.timer => page.state = "closed"
      /\ page.state # "closed" => online
      /\ ~page.intentional
  BY <1>3 DEF Linked
<1>5. ASSUME NEW p \in Page, p.state # "closed", ~p.timer, ~p.intentional, online
      PROVE  /\ HeardClosed(p) \in Page
             /\ HeardClosed(p).connection \in {"offline", "retrying"} /\ HeardClosed(p).channel = None
             /\ ~HeardClosed(p).hello
    BY <1>1, <1>5, ClosedPage DEF IsClosed
<1>6. ASSUME NEW p \in Page, p.connection \in {"offline", "retrying"}, p.channel = None, ~p.hello
      PROVE  /\ WithRetry(p) \in Page
             /\ WithRetry(p).connection \in {"offline", "retrying", "no_network"}
             /\ WithRetry(p).channel = None /\ ~WithRetry(p).hello
  BY <1>1, <1>6, RetriedPage DEF SameSession
<1>7. CASE SocketOpens \/ ChallengeArrives
  <2>1. /\ page' = [page EXCEPT !.state = "authenticating"] \/ page' = [page EXCEPT !.state = "signing"]
        /\ page.state \notin {"open", "closing"}
    BY <1>7 DEF SocketOpens, ChallengeArrives
  <2>2. /\ page'.channel = None /\ page'.hello = page.hello /\ page'.connection = page.connection
        /\ page.channel = None /\ page'.state \notin {"open", "closing"}
    BY <1>1, <1>4, <2>1 DEF Page
  <2> QED
    BY <1>1, <1>2, <2>2 DEF Spoken
<1>8. CASE RelayCloses
  <2>1. page' = [page EXCEPT !.state = "closing"] /\ page.state = "open" /\ bumped' = bumped
    BY <1>8 DEF RelayCloses
  <2>2. /\ page'.channel = page.channel /\ page'.hello = page.hello /\ page'.connection = page.connection
        /\ page'.terminal = page.terminal
    BY <1>1, <2>1 DEF Page
  <2> QED
    BY <1>1, <1>2, <2>1, <2>2 DEF Spoken
<1>9. CASE \E b \in BOOLEAN : Authenticate(b)
  <2> DEFINE p == [page EXCEPT !.state = "open", !.current = TRUE, !.scheduled = FALSE, !.retry = 0]
  <2>1. page.state = "signing" /\ ((page' = p /\ bumped' = TRUE) \/ page' = HeardClosed(p))
    BY <1>9 DEF Authenticate
  <2>2. /\ p \in Page /\ p.state = "open" /\ p.connection = page.connection /\ p.hello = page.hello
        /\ p.channel = page.channel /\ p.timer = page.timer /\ p.intentional = page.intentional
    <3>1. 0 \in 0..MaxRetries
      BY BoundIsPositive
    <3> QED
      BY <1>1, <3>1 DEF Page, States
  <2> HIDE DEF p
  <2>3. page.channel = None /\ ~page.timer /\ online
    BY <1>1, <1>4, <2>1, LinkedFields
  <2>4. CASE page' = p /\ bumped' = TRUE
    BY <1>1, <1>2, <2>2, <2>3, <2>4 DEF Spoken
  <2>5. CASE page' = HeardClosed(p)
    <3>1. /\ page'.connection \in {"offline", "retrying"} /\ page'.channel = None /\ ~page'.hello
      BY <1>4, <1>5, <2>2, <2>3, <2>5
    <3> QED
      BY <3>1 DEF Spoken
  <2> QED
    BY <2>1, <2>4, <2>5
<1>10. CASE \E b \in BOOLEAN : LoseConnection(b)
  <2>1. PICK b \in BOOLEAN : LoseConnection(b)
    BY <1>10
  <2> DEFINE p == HeardClosed(page)
             q == IF b THEN WithRetry(p) ELSE p
  <2>2. page' \in {q, WithRetry(q)} /\ page.state # "closed"
    BY <2>1 DEF LoseConnection
  <2>3. p \in Page /\ p.connection \in {"offline", "retrying"} /\ p.channel = None /\ ~p.hello
    BY <1>1, <1>4, <1>5, <2>2, LinkedFields
  <2> HIDE DEF p
  <2>4. /\ WithRetry(p) \in Page
        /\ WithRetry(p).connection \in {"offline", "retrying"}
        /\ WithRetry(p).channel = None /\ ~WithRetry(p).hello
    BY <1>1, <1>4, <2>2, <2>3, RetriedPage DEF SameSession
  <2>5. q \in Page /\ q.connection \in {"offline", "retrying"} /\ q.channel = None /\ ~q.hello
    BY <2>3, <2>4
  <2> HIDE DEF q
  <2>6. /\ page'.connection \in {"offline", "retrying", "no_network"}
        /\ page'.channel = None /\ ~page'.hello
    BY <1>6, <2>2, <2>5
  <2> QED
    BY <2>6 DEF Spoken
<1>11. CASE FireRetry
  <2>1. page.timer /\ page' = [page EXCEPT !.timer = FALSE, !.current = TRUE, !.scheduled = FALSE,
                                !.intentional = FALSE, !.connection = "connecting",
                                !.state = IF @ = "closed" THEN "connecting" ELSE @]
    BY <1>11 DEF FireRetry
  <2>2. /\ page'.channel = None /\ page'.hello = page.hello /\ page'.connection = "connecting"
        /\ page.channel = None /\ page'.state = "connecting"
    BY <1>1, <1>4, <2>1 DEF Page
  <2> QED
    BY <1>2, <2>2 DEF Spoken
<1>12. CASE GoOffline
  <2>1. page' = [Cleared(page) EXCEPT !.intentional = FALSE, !.current = FALSE, !.scheduled = FALSE,
                                   !.timer = FALSE, !.state = "closed", !.connection = "no_network"]
    BY <1>12 DEF GoOffline
  <2>2. /\ ~page'.hello /\ page'.connection = "no_network" /\ page'.channel = None
    <3>1. Cleared(page) \in Page /\ Cleared(page).channel = None /\ ~Cleared(page).hello
      BY <1>1, ClearedPage
    <3> QED
      BY <2>1, <3>1 DEF Page
  <2> QED
    BY <2>2 DEF Spoken
<1>13. CASE GoOnline
  <2>1. page' = ConnectNow(page) /\ ~online
    BY <1>13 DEF GoOnline
  <2>2. page.state = "closed" /\ page.channel = None
    BY <1>1, <1>4, <2>1
  <2>3. /\ page'.state = "connecting" /\ page'.connection = "connecting" /\ page'.channel = None
        /\ page'.hello = page.hello
    BY <1>1, <2>1, <2>2, ConnectNowPage DEF SameSession
  <2> QED
    BY <1>2, <2>2, <2>3 DEF Spoken
<1> QED
  BY <1>7, <1>8, <1>9, <1>10, <1>11, <1>12, <1>13

LEMMA SessionSpeaks ==
  ASSUME TypeOK, LinkInv, SessionInv, ran' = ran /\ Gone => Gone',
         \/ RunSessionEffect \/ SessionReady \/ RetrySession
         \/ \E terminal \in BOOLEAN : SessionEnds(terminal)
  PROVE  SessionInv'
<1>1. /\ online \in BOOLEAN /\ page \in Page /\ RegistryTypeOK
      /\ page.hello \in BOOLEAN /\ page.channel \in Optional(Channel)
  BY ConnectionTypes, PageFields DEF TypeOK
<1> DEFINE gone == Gone
           gone1 == Gone'
<1>2. Spoken(page, ran, bumped, gone) /\ (ran' = ran /\ gone => gone1)
  BY DEF SessionInv
<1>3. Linked(page, online, Mounted, abandoned, ShowsOnline(shown))
  BY DEF LinkInv
<1> SUFFICES Spoken(page', ran', bumped', gone1)
  BY DEF SessionInv
<1> HIDE DEF gone, gone1
<1>4. /\ page.channel # None => page.state \in {"open", "closing"}
      /\ page.state # "closed" => online
      /\ ~page.intentional
  BY <1>3 DEF Linked
<1>5. CASE RunSessionEffect
  <2> DEFINE p == Joined(page)
             failed == p.hello /\ p.state = "closing"
             c == [p EXCEPT !.intentional = TRUE]
  <2>1. /\ page' = IF failed THEN HeardClosed(c) ELSE p
        /\ ran' = Target
    BY <1>5 DEF RunSessionEffect
  <2>2. IsJoined(page, p) /\ p \in Page
    BY <1>1, JoinedPage DEF IsJoined
  <2>3. c \in Page /\ c.intentional = TRUE
    BY <2>2 DEF Page
  <2> HIDE DEF p, c
  <2>4. CASE failed
    <3>1. online
      BY <1>4, <2>2, <2>4 DEF IsJoined
    <3>2. page'.connection = "offline" /\ page'.channel = None /\ ~page'.hello
      BY <1>1, <2>1, <2>3, <2>4, <3>1, ClosedPage DEF IsClosed
    <3> QED
      BY <3>2 DEF Spoken
  <2>5. CASE ~failed
    <3>1. page' = p
      BY <2>1, <2>5
    <3>2. /\ Target # None /\ Target.device = ActiveDevice
          /\ Target.session # None => ActiveDevice # None
      BY <1>1, TargetTyped
    <3>3. \/ /\ p.channel = None /\ ~p.hello /\ p.connection # "online"
             /\ p.connection = "connecting" => p.state \notin {"open", "closing"}
          \/ /\ p.channel = Target.session /\ Target.session # None /\ Target.online
             /\ p.hello /\ ~p.terminal /\ p.connection = "connecting"
      BY <2>2 DEF IsJoined
    <3> QED
      BY <2>1, <3>1, <3>2, <3>3 DEF Spoken
  <2> QED
    BY <2>4, <2>5
<1>6. CASE SessionReady
  <2>1. /\ page' = [page EXCEPT !.hello = FALSE, !.connection = "online"] /\ page.hello
        /\ UNCHANGED <<ran, bumped>>
    BY <1>6 DEF SessionReady
  <2>2. /\ ~page'.hello /\ page'.connection = "online" /\ page'.channel = page.channel
        /\ page'.terminal = page.terminal
    BY <1>1, <2>1 DEF Page
  <2> QED
    BY <1>2, <2>1, <2>2 DEF Spoken
<1>7. CASE \E terminal \in BOOLEAN : SessionEnds(terminal)
  <2>1. PICK terminal \in BOOLEAN : SessionEnds(terminal)
    BY <1>7
  <2>2. /\ page' = [Cleared(page) EXCEPT !.terminal = terminal,
                                   !.connection = IF terminal THEN "offline" ELSE "connecting"]
        /\ bumped' = (bumped \/ ~terminal)
    BY <2>1 DEF SessionEnds
  <2>3. /\ page'.channel = None /\ ~page'.hello /\ page'.connection # "online"
        /\ page'.connection = "connecting" => bumped'
    BY <1>1, <2>2, ClearedPage DEF Page
  <2> QED
    BY <2>3 DEF Spoken
<1>8. CASE RetrySession
  <2> DEFINE p == [Cleared(page) EXCEPT !.terminal = FALSE]
  <2>1. /\ page' = IF ~online THEN [p EXCEPT !.connection = "no_network"]
                   ELSE IF Connected THEN [p EXCEPT !.connection = "connecting"]
                   ELSE ConnectNow(p)
        /\ bumped' = (bumped \/ (online /\ Connected))
    BY <1>8 DEF RetrySession
  <2>2. p \in Page /\ p.state = page.state /\ p.channel = None /\ ~p.hello
    BY <1>1, ClearedPage DEF Page
  <2> HIDE DEF p
  <2>3. CASE ~online
    <3>1. page' = [p EXCEPT !.connection = "no_network"]
      BY <2>1, <2>3
    <3>2. page'.channel = None /\ ~page'.hello /\ page'.connection = "no_network"
      BY <2>2, <3>1 DEF Page
    <3> QED
      BY <3>2 DEF Spoken
  <2>4. CASE online /\ Connected
    <3>1. page' = [p EXCEPT !.connection = "connecting"] /\ bumped'
      BY <2>1, <2>4
    <3>2. page'.channel = None /\ ~page'.hello /\ page'.connection = "connecting"
      BY <2>2, <3>1 DEF Page
    <3> QED
      BY <3>1, <3>2 DEF Spoken
  <2>5. CASE online /\ ~Connected
    <3>1. page' = ConnectNow(p)
      BY <2>1, <2>5
    <3>2. /\ page'.state = IF p.state = "closed" THEN "connecting" ELSE p.state
          /\ page'.channel = None /\ ~page'.hello /\ page'.connection = "connecting"
      BY <2>2, <3>1, ConnectNowPage DEF SameSession
    <3> QED
      BY <2>2, <2>5, <3>2 DEF Spoken, Connected
  <2> QED
    BY <2>3, <2>4, <2>5
<1> QED
  BY <1>5, <1>6, <1>7, <1>8

LEMMA ListSpeaks ==
  ASSUME TypeOK, LinkInv, RemovalInv, SessionInv, Gone => Gone', dialog' \in {dialog, "idle"},
         NEW device, NEW choice, Lists(device, choice)
  PROVE  SessionInv'
<1>1. /\ online \in BOOLEAN /\ page \in Page /\ RegistryTypeOK
  BY ConnectionTypes DEF TypeOK
<1>2. Linked(page, online, Mounted, abandoned, ShowsOnline(shown))
  BY DEF LinkInv
<1>3. /\ page' = Remounted(page, listed') \/ page' = page
      /\ listed' = stored /\ stored' = stored /\ UNCHANGED <<ran, bumped>>
  BY <1>1, ListedAnew DEF Lists
<1> DEFINE gone == Gone
           gone1 == Gone'
<1>4. Spoken(page, ran, bumped, gone) /\ (gone => gone1)
  BY DEF SessionInv
<1>5. ASSUME page.channel # None, listed' = {}
      PROVE  gone1
  <2>1. ran # None /\ ran.device # None
    BY <1>4, <1>5 DEF Spoken
  <2>2. Mounted
    BY <1>2, <1>5 DEF Linked
  <2>3. removing # None
    BY <1>3, <1>5, <2>2 DEF RemovalInv, Mounted
  <2>4. dialog' = "idle"
    BY <2>3 DEF RemovalInv
  <2> QED
    BY <1>3, <1>5, <2>1, <2>4 DEF Gone
<1> SUFFICES Spoken(page', ran', bumped', gone1)
  BY DEF SessionInv
<1> HIDE DEF gone, gone1
<1>6. CASE page' = page
  BY <1>3, <1>4, <1>6 DEF Spoken
<1>7. CASE page' = Remounted(page, listed')
  <2>1. /\ page'.channel = None /\ ~page'.hello
        /\ listed' = {} => page'.state = "closed" /\ page'.connection = page.connection
        /\ listed' # {} => page'.connection # "online"
        /\ page'.state \in {"closed", "connecting"}
    BY <1>1, <1>7, RemountedPage
  <2> QED
    BY <1>4, <1>5, <2>1 DEF Spoken
<1> QED
  BY <1>3, <1>6, <1>7

LEMMA NextSpeaks ==
  TypeOK /\ LinkInv /\ DialogIsAttempt /\ RemovalInv /\ SessionInv /\ [Next]_vars => SessionInv'
<1> SUFFICES ASSUME TypeOK, LinkInv, DialogIsAttempt, RemovalInv, SessionInv, [Next]_vars
             PROVE  SessionInv'
  OBVIOUS
<1>1. /\ RegistryTypeOK /\ PairingTypeOK /\ page \in Page
      /\ ran' = ran /\ Gone => Gone'
  BY ConnectionTypes, GoneLasts DEF TypeOK
<1>2. ASSUME UNCHANGED <<page, ran, bumped>>
      PROVE  SessionInv'
  BY <1>1, <1>2 DEF SessionInv, Spoken
<1>3. CASE Hosts \/ Registry \/ Pairing \/ UNCHANGED vars
  BY <1>2, <1>3, PairingLinks, RegistryLinks DEF Hosts, connectionVars, vars
<1>4. CASE StartRemoval
  <2>1. PICK d \in Devices : RemovePairing(d) /\ page' = IF active = d THEN Cleared(page) ELSE page
    BY <1>4 DEF StartRemoval
  <2>2. /\ UNCHANGED <<ran, bumped, stored, listed, dialog>> /\ ~SessionEffectPending /\ dialog = "idle"
        /\ removing' = [device |-> d, ahead |-> Len(chain), deleted |-> FALSE] /\ d \in listed
    BY <1>4, <2>1 DEF StartRemoval, RemovePairing, pairingVars, tableVars
  <2>3. CASE page' = page
    BY <1>2, <2>2, <2>3
  <2>4. CASE page' = Cleared(page) /\ active = d
    <3>1. ran = Target /\ ran # None /\ ran.device = d
      BY <1>1, <2>2, <2>4, TargetTyped DEF SessionEffectPending, ActiveDevice
    <3>2. d # None /\ removing' # None /\ removing'.device = d
      <4>1. removing' \in [device : Devices, ahead : Nat, deleted : BOOLEAN]
        BY <1>1, <2>2, Chained
      <4> QED
        BY <2>2, <4>1, ViewAssumption, EndpointRegistryAssumption
    <3>3. Gone'
      BY <2>2, <3>1, <3>2 DEF Gone
    <3> DEFINE gone1 == Gone'
    <3>4. gone1
      BY <3>3
    <3> HIDE DEF gone1
    <3>5. page'.channel = None /\ ~page'.hello
      BY <1>1, <2>4, ClearedPage
    <3>6. Spoken(page', ran', bumped', gone1)
      BY <3>4, <3>5 DEF Spoken
    <3> QED
      BY <3>6 DEF SessionInv, gone1
  <2> QED
    BY <2>1, <2>3, <2>4
<1>5. CASE EndRemoval
  <2>1. ran' = ran /\ dialog' = dialog
    BY <1>5 DEF EndRemoval, DevicesListed, pairingVars
  <2> QED
    BY <1>1, <1>5, <2>1, RemovalLists, ListSpeaks
<1>6. CASE EndPairing
  <2>1. PICK e \in Endpoints :
           /\ Lists(IF DeviceOf[e] \in stored THEN DeviceOf[e] ELSE None, e)
           /\ dialog' \in {dialog, "idle"}
    BY <1>1, <1>6, PairingLists
  <2>2. ran' = ran
    BY <2>1 DEF Lists
  <2> QED
    BY <1>1, <2>1, <2>2, ListSpeaks
<1>7. CASE Relay
  <2>1. CASE \E d \in Devices : SnapshotArrives(d)
    BY <1>2, <2>1 DEF SnapshotArrives, connectionVars
  <2>2. CASE ~(\E d \in Devices : SnapshotArrives(d))
    <3>1. ran' = ran
      BY <1>7, <2>2 DEF Relay, SocketOpens, ChallengeArrives, RelayCloses, Authenticate, LoseConnection,
                        FireRetry, GoOffline, GoOnline
    <3> QED
      BY <1>1, <1>7, <2>2, <3>1, RelaySpeaks DEF Relay
  <2> QED
    BY <2>1, <2>2
<1>8. CASE Session
  BY <1>1, <1>8, SessionSpeaks DEF Session
<1> QED
  BY <1>3, <1>4, <1>5, <1>6, <1>7, <1>8 DEF Next

LEMMA InitSpeaks == Init => SessionInv
  BY DEF Init, ConnectionInit, SessionInv, Spoken

LEMMA SessionHolds == Spec => []SessionInv
<1>1. TypeOK /\ LinkInv /\ DialogIsAttempt /\ RemovalInv /\ SessionInv /\ [Next]_vars => SessionInv'
  BY NextSpeaks
<1> QED
  BY <1>1, InitSpeaks, PageTypes, LinkHolds, DialogFollows, RemovalHolds, PTL DEF Spec

LEMMA NothingGone ==
  ASSUME TypeOK, removing = None, ~SessionEffectPending
  PROVE  ~Gone
<1> SUFFICES ASSUME Gone
             PROVE  FALSE
  OBVIOUS
<1>1. ran = Target /\ ran.device # None /\ ran.device \notin listed
  BY DEF SessionEffectPending, Gone
<1> QED
  BY <1>1, TargetTyped DEF TypeOK

(* pwa-app.tsx: every change of the endpoint, the device or the relay ends *)
(* in the session effect, which joins what is shown or says what is amiss. *)
THEOREM SessionFollows == Spec => []SessionFollowsEndpoint
<1>1. TypeOK /\ LinkInv /\ SessionInv => SessionFollowsEndpoint
  <2> SUFFICES ASSUME TypeOK, LinkInv, SessionInv,
                      page.connection = "online", ~SessionEffectPending, removing = None
               PROVE  /\ Connected /\ ~page.terminal
                      /\ page.channel = Target.session /\ Target.online
    BY DEF SessionFollowsEndpoint
  <2>1. ~Gone /\ ran = Target
    BY NothingGone DEF SessionEffectPending
  <2>2. page.channel # None
    BY <2>1 DEF SessionInv, Spoken
  <2>3. page.state \in {"open", "closing"}
    BY <2>2 DEF LinkInv, Linked
  <2> QED
    BY <2>1, <2>2, <2>3 DEF SessionInv, Spoken, Connected
<1> QED
  BY <1>1, PageTypes, LinkHolds, SessionHolds, PTL

(* The relay and session effects of pwa-app.tsx: a page that says it is    *)
(* busy has something that works at it, and one that is not offers Retry.  *)
THEOREM NothingStalls == Spec => []NoSilentStall
<1>1. TypeOK /\ LinkInv /\ SessionInv => NoSilentStall
  <2> SUFFICES ASSUME TypeOK, LinkInv, SessionInv,
                      Mounted, removing = None, ~abandoned, ~SessionEffectPending
               PROVE  /\ page.connection = "retrying" => page.timer
                      /\ page.connection = "connecting" =>
                           Connecting(page) \/ page.timer \/ (Connected /\ page.hello)
                      /\ online /\ page.state = "closed" /\ ~page.timer => page.connection = "offline"
    BY DEF NoSilentStall
  <2>1. page \in Page /\ page.state \in States /\ online \in BOOLEAN
    BY ConnectionTypes, PageFields DEF TypeOK
  <2>2. ~Gone /\ ~bumped
    BY NothingGone DEF SessionEffectPending
  <2>3. Linked(page, online, Mounted, abandoned, ShowsOnline(shown))
    BY DEF LinkInv
  <2>4. ASSUME page.connection = "connecting"
        PROVE  Connecting(page) \/ page.timer \/ (Connected /\ page.hello)
    <3>1. CASE page.state = "closed"
      BY <2>1, <2>3, <2>4, <3>1 DEF Linked
    <3>2. CASE page.state \in {"open", "closing"}
      BY <2>2, <2>4, <3>2 DEF SessionInv, Spoken, Connected
    <3> QED
      BY <2>1, <3>1, <3>2 DEF States, Connecting
  <2> QED
    BY <2>3, <2>4 DEF Linked
<1> QED
  BY <1>1, PageTypes, LinkHolds, SessionHolds, PTL


-----------------------------------------------------------------------------
(* What is kept of a removed pairing.                                      *)

(* An operation op brings back no device: those it carries are stored, and *)
(* not being removed, but for the ones that were reported on then.         *)
Harmless(op, devices, removal, again) ==
  \A d \in Carried(op.next) \ again :
    d \in devices /\ (removal # None => removal.device # d)

(* A removal begins a new epoch, and what was begun in an earlier one is   *)
(* not written.                                                            *)
RowsInv ==
  /\ \A i \in DOMAIN chain :
       /\ chain[i].epoch <= epoch
       /\ chain[i].epoch = epoch => Harmless(chain[i], stored, removing, readded)
  /\ \A e \in Endpoints : DeviceOf[e] \notin stored \cup readded => rows[e] = 0

LEMMA HarmlessStill ==
  ASSUME NEW op, NEW next, next = op.next, NEW devices, NEW devices1, NEW removal, NEW removal1,
         NEW again, NEW again1, NEW op1, op1.next = next,
         Harmless(op, devices, removal, again), devices \subseteq devices1, again \subseteq again1,
         removal1 # None => removal # None /\ removal1.device = removal.device
  PROVE  Harmless(op1, devices1, removal1, again1)
  BY DEF Harmless

(* What the relay reports begins an operation, or none.                    *)
LEMMA HostReports ==
  ASSUME RegistryTypeOK, NEW e \in Endpoints, HostStarts(e) \/ HostUpdates(e) \/ HostEnds(e)
  PROVE  /\ UNCHANGED <<epoch, stored, rows, removing>>
         /\ \/ UNCHANGED <<chain, readded>>
            \/ \E d \in Devices, next \in View : Persist(d, next)
<1>1. UNCHANGED <<epoch, stored, rows, removing>>
  BY DEF HostStarts, HostUpdates, HostEnds, Report, tableVars
<1>2. /\ live[e] \in 0..MaxRuntimes /\ runtimes[e] \in 0..MaxRuntimes /\ MaxRuntimes \in Nat
      /\ live \in [Endpoints -> 0..MaxRuntimes] /\ runtimes \in [Endpoints -> 0..MaxRuntimes]
      /\ DeviceOf[e] \in Devices /\ shown \in View
  BY RegistryTypes
<1>3. \/ UNCHANGED <<chain, readded>>
      \/ \E r \in 1..MaxRuntimes : Accepts(e, r) /\ ApplyEvent(e, r)
  <2>1. CASE HostStarts(e)
    <3>1. live'[e] \in 1..MaxRuntimes
      BY <1>2, <2>1 DEF HostStarts
    <3> QED
      BY <2>1, <3>1 DEF HostStarts, Report, ApplyEvent
  <2>2. CASE HostUpdates(e)
    <3>1. live[e] \in 1..MaxRuntimes
      BY <1>2, <2>2 DEF HostUpdates
    <3> QED
      BY <2>2, <3>1 DEF HostUpdates, Report, ApplyEvent
  <2>3. CASE HostEnds(e)
    BY <2>3 DEF HostEnds, Report, ApplyEnd
  <2> QED
    BY <2>1, <2>2, <2>3
<1>4. ASSUME NEW r \in 1..MaxRuntimes, Accepts(e, r), ApplyEvent(e, r)
      PROVE  \E d \in Devices, next \in View : Persist(d, next)
  <2>1. Persist(DeviceOf[e], [shown EXCEPT ![e] = [runtime |-> r, online |-> TRUE]])
    BY <1>4 DEF ApplyEvent
  <2>2. [shown EXCEPT ![e] = [runtime |-> r, online |-> TRUE]] \in View
    BY <1>2 DEF View, Optional, Shown
  <2> QED
    BY <1>2, <2>1, <2>2
<1> QED
  BY <1>1, <1>3, <1>4

LEMMA SnapshotReports ==
  ASSUME RegistryTypeOK, NEW d \in Devices, Snapshot(d)
  PROVE  /\ UNCHANGED <<epoch, stored, rows, removing>>
         /\ \/ UNCHANGED <<chain, readded>>
            \/ d \in listed /\ Persist(d, Snapped(d)) /\ Snapped(d) \in View
<1>1. UNCHANGED <<epoch, stored, rows, removing>>
  BY DEF Snapshot, tableVars
<1>2. CASE d \notin listed
  BY <1>1, <1>2 DEF Snapshot
<1>3. CASE d \in listed
  <2>1. Persist(d, Snapped(d))
    BY <1>3 DEF Snapshot, ApplySnapshot, Snapped
  <2> QED
    BY <1>1, <1>3, <2>1, SnappedTyped
<1> QED
  BY <1>2, <1>3

LEMMA RowsKept ==
  ASSUME RegistryTypeOK, RowsInv, UNCHANGED <<chain, epoch, rows, readded>>, stored \subseteq stored',
         removing' # None => removing # None /\ removing'.device = removing.device
  PROVE  RowsInv'
<1>1. ASSUME NEW i \in DOMAIN chain, chain[i].epoch = epoch
      PROVE  Harmless(chain[i], stored', removing', readded')
  <2>1. Harmless(chain[i], stored, removing, readded)
    BY <1>1 DEF RowsInv
  <2> QED
    BY <2>1 DEF Harmless
<1> QED
  BY <1>1 DEF RowsInv, Harmless

LEMMA RowsAppended ==
  ASSUME RegistryTypeOK, RowsInv, UNCHANGED <<epoch, stored, rows, removing>>,
         NEW d \in Devices, NEW next \in View, Persist(d, next)
  PROVE  RowsInv'
<1> DEFINE op == [device |-> d, epoch |-> epoch, next |-> next, step |-> "start"]
<1>1. chain \in Seq(Operation) /\ epoch \in Nat /\ op \in Operation
  BY RegistryTypes DEF Operation
<1>2. chain' = Append(chain, op) /\ readded \subseteq readded'
  BY DEF Persist
<1>3. Harmless(op, stored, removing, readded')
  BY DEF Persist, Harmless
<1>4. /\ op.epoch = epoch /\ op.next = next
  OBVIOUS
<1> HIDE DEF op
<1>5. /\ DOMAIN chain' = DOMAIN chain \cup {Len(chain) + 1}
      /\ \A i \in DOMAIN chain : chain'[i] = chain[i]
      /\ chain'[Len(chain) + 1] = op
  BY ONLY <1>1, <1>2, Appended
<1>6. ASSUME NEW i \in DOMAIN chain'
      PROVE  /\ chain'[i].epoch <= epoch
             /\ chain'[i].epoch = epoch => Harmless(chain'[i], stored, removing, readded')
  <2>1. CASE i \in DOMAIN chain
    <3>1. /\ chain'[i] = chain[i] /\ chain[i].epoch <= epoch
          /\ chain[i].epoch = epoch => Harmless(chain[i], stored, removing, readded)
      BY <1>5, <2>1 DEF RowsInv
    <3> QED
      BY <1>2, <3>1 DEF Harmless
  <2>2. CASE i = Len(chain) + 1
    BY <1>1, <1>3, <1>4, <1>5, <2>2
  <2> QED
    BY <1>5, <1>6, <2>1, <2>2
<1>7. \A e \in Endpoints : DeviceOf[e] \notin stored' \cup readded' => rows'[e] = 0
  BY <1>2 DEF RowsInv
<1> QED
  BY <1>6, <1>7 DEF RowsInv, Harmless

LEMMA RowsPersisted ==
  ASSUME RegistryTypeOK, RowsInv, PersistStep
  PROVE  RowsInv'
<1>1. chain \in Seq(Operation) /\ chain # <<>> /\ rows \in [Endpoints -> 0..MaxRuntimes] /\ epoch \in Nat
  BY RegistryTypes, PersistSteps
<1>2. UNCHANGED <<epoch, stored, readded>>
  BY PersistSteps
<1>3. 1 \in DOMAIN chain /\ Head(chain) = chain[1] /\ chain[1] \in Operation
  BY ONLY <1>1, Tails
<1>4. CASE \E step \in {"look", "write"} : Advances(step)
  <2>1. /\ DOMAIN chain' = DOMAIN chain /\ removing' = removing
        /\ \A i \in DOMAIN chain : chain'[i].epoch = chain[i].epoch /\ chain'[i].next = chain[i].next
    BY <1>4, AdvancesTyped DEF Advances
  <2>2. ASSUME NEW i \in DOMAIN chain'
        PROVE  /\ chain'[i].epoch <= epoch
               /\ chain'[i].epoch = epoch => Harmless(chain'[i], stored, removing, readded)
    <3>1. /\ chain[i].epoch <= epoch
          /\ chain[i].epoch = epoch => Harmless(chain[i], stored, removing, readded)
      BY <2>1 DEF RowsInv
    <3> QED
      BY <2>1, <3>1 DEF Harmless
  <2>3. ASSUME NEW e \in Endpoints, DeviceOf[e] \notin stored \cup readded
        PROVE  rows'[e] = 0
    <3>1. rows[e] = 0
      BY <2>3 DEF RowsInv
    <3>2. CASE rows' = rows
      BY <3>1, <3>2
    <3>3. CASE /\ ~Stale
               /\ rows' = [x \in Endpoints |-> IF Head(chain).next[x] = None THEN rows[x]
                                               ELSE Head(chain).next[x].runtime]
      <4>1. Harmless(chain[1], stored, removing, readded)
        BY <1>3, <3>3 DEF Stale, RowsInv
      <4>2. DeviceOf[e] \notin Carried(chain[1].next)
        BY <2>3, <4>1 DEF Harmless
      <4>3. Head(chain).next[e] = None
        BY <1>3, <4>2 DEF Carried
      <4> QED
        BY <3>1, <3>3, <4>3
    <3> QED
      BY <3>2, <3>3, PersistSteps DEF Dropped
  <2> QED
    BY <1>2, <2>1, <2>2, <2>3 DEF RowsInv, Harmless
<1>5. CASE Over /\ UNCHANGED rows
  <2>1. /\ chain' = Tail(chain)
        /\ removing' # None => removing # None /\ removing'.device = removing.device
    BY <1>1, <1>5, OverTyped DEF Over
  <2>2. \A i \in DOMAIN chain' : i + 1 \in DOMAIN chain /\ chain'[i] = chain[i + 1]
    BY ONLY <1>1, <2>1, Tails
  <2>3. ASSUME NEW i \in DOMAIN chain'
        PROVE  /\ chain'[i].epoch <= epoch
               /\ chain'[i].epoch = epoch => Harmless(chain'[i], stored, removing', readded)
    <3>1. /\ chain[i + 1].epoch <= epoch
          /\ chain[i + 1].epoch = epoch => Harmless(chain[i + 1], stored, removing, readded)
      BY <2>2 DEF RowsInv
    <3> QED
      BY <2>1, <2>2, <3>1 DEF Harmless
  <2>4. \A e \in Endpoints : DeviceOf[e] \notin stored' \cup readded' => rows'[e] = 0
    BY <1>2, <1>5 DEF RowsInv
  <2> QED
    BY <1>2, <2>3, <2>4 DEF RowsInv, Harmless
<1> QED
  BY <1>4, <1>5, PersistSteps DEF Dropped

LEMMA NextRows == TypeOK /\ RowsInv /\ [Next]_vars => RowsInv'
<1> SUFFICES ASSUME TypeOK, RowsInv, [Next]_vars
             PROVE  RowsInv'
  OBVIOUS
<1>1. RegistryTypeOK /\ PairingTypeOK
  BY DEF TypeOK
<1>2. CASE Hosts
  <2>1. PICK e \in Endpoints : HostStarts(e) \/ HostUpdates(e) \/ HostEnds(e)
    BY <1>2 DEF Hosts
  <2> QED
    BY <1>1, <2>1, HostReports, RowsKept, RowsAppended
<1>3. CASE Registry
  <2>1. CASE PersistStep
    BY <1>1, <2>1, RowsPersisted
  <2>2. CASE RemoveData
    <3>1. /\ UNCHANGED <<chain, epoch, readded>> /\ removing # None
          /\ stored' = stored \ {removing.device} /\ removing'.device = removing.device
          /\ rows' = [e \in Endpoints |-> IF DeviceOf[e] = removing.device THEN 0 ELSE rows[e]]
      <4>1. removing # None /\ removing \in [device : Devices, ahead : Nat, deleted : BOOLEAN]
        BY <1>1, <2>2 DEF RemoveData, RegistryTypeOK, Optional
      <4> QED
        BY <2>2, <4>1 DEF RemoveData, viewVars
    <3>2. ASSUME NEW i \in DOMAIN chain, chain[i].epoch = epoch
          PROVE  Harmless(chain[i], stored', removing', readded)
      <4>1. Harmless(chain[i], stored, removing, readded)
        BY <3>2 DEF RowsInv
      <4> QED
        BY <3>1, <4>1 DEF Harmless
    <3>3. \A e \in Endpoints : DeviceOf[e] \notin stored' \cup readded => rows'[e] = 0
      BY <3>1 DEF RowsInv
    <3> QED
      BY <3>1, <3>2, <3>3 DEF RowsInv, Harmless
  <2>3. CASE \/ FinishLoad \/ FinishRestore \/ \E d \in Devices : SelectDevice(d)
             \/ \E e \in Endpoints : SelectEndpoint(e)
    <3>1. UNCHANGED <<chain, epoch, readded, stored, rows, removing>>
      BY <2>3 DEF FinishLoad, FinishRestore, SelectDevice, SelectEndpoint, tableVars, viewVars
    <3> QED
      BY <1>1, <3>1, RowsKept
  <2> QED
    BY <1>3, <2>1, <2>2, <2>3 DEF Registry
<1>4. CASE StartRemoval
  <2>1. epoch' = epoch + 1 /\ UNCHANGED <<chain, stored, rows, readded>>
    BY <1>4 DEF StartRemoval, RemovePairing, tableVars
  <2>2. ASSUME NEW i \in DOMAIN chain
        PROVE  chain[i].epoch <= epoch' /\ chain[i].epoch # epoch'
    <3>1. chain[i].epoch \in Nat /\ epoch \in Nat /\ chain[i].epoch <= epoch
      BY <1>1, Chained, RegistryTypes DEF RowsInv
    <3> QED
      BY <2>1, <3>1
  <2> QED
    BY <2>1, <2>2 DEF RowsInv, Harmless
<1>5. CASE EndRemoval
  <2>1. UNCHANGED <<chain, epoch, readded, stored, rows>> /\ removing' = None
    BY <1>5 DEF EndRemoval, RemoveDone, tableVars
  <2> QED
    BY <1>1, <2>1, RowsKept
<1>6. CASE Relay
  <2>1. CASE \E d \in Devices : SnapshotArrives(d)
    BY <1>1, <2>1, SnapshotReports, RowsKept, RowsAppended DEF SnapshotArrives
  <2>2. CASE ~(\E d \in Devices : SnapshotArrives(d))
    <3>1. NoViewChange
      BY <1>6, <2>2 DEF Relay, SocketOpens, ChallengeArrives, RelayCloses, Authenticate, LoseConnection,
                        FireRetry, GoOffline, GoOnline
    <3> QED
      BY <1>1, <3>1, RowsKept DEF NoViewChange, tableVars
  <2> QED
    BY <2>1, <2>2
<1>7. CASE Session
  <2>1. NoViewChange
    BY <1>7 DEF Session, RunSessionEffect, SessionReady, RetrySession, SessionEnds
  <2> QED
    BY <1>1, <2>1, RowsKept DEF NoViewChange, tableVars
<1>8. CASE Pairing
  <2>1. UNCHANGED <<chain, epoch, readded, rows, removing>> /\ stored \subseteq stored'
    BY <1>8 DEF Pairing, OpenDialog, CloseDialog, AttemptFails, PairOk, PairError, Scan,
                SendPairRequest, NoRegistryChange, tableVars, viewVars
  <2> QED
    BY <1>1, <2>1, RowsKept
<1>9. CASE EndPairing
  <2>1. UNCHANGED <<chain, epoch, readded, stored, rows, removing>>
    BY <1>1, <1>9, PairingLists DEF Lists
  <2> QED
    BY <1>1, <2>1, RowsKept
<1>10. CASE UNCHANGED vars
  BY <1>1, <1>10, RowsKept DEF vars, registryVars, viewVars, tableVars
<1> QED
  BY <1>2, <1>3, <1>4, <1>5, <1>6, <1>7, <1>8, <1>9, <1>10 DEF Next

LEMMA InitRows == Init => RowsInv
<1> SUFFICES ASSUME Init
             PROVE  RowsInv
  OBVIOUS
<1>1. chain = <<>> /\ stored = listed
      /\ readded = {DeviceOf[e] : e \in {x \in Endpoints : rows[x] # 0}} \ listed
  BY DEF Init, RegistryInit
<1> QED
  BY <1>1 DEF RowsInv

(* use-endpoint-registry.ts: invalidatePersistence comes before the data   *)
(* of a pairing is deleted, and an operation looks again before it writes. *)
THEOREM RemovedForgotten == Spec => []RemovedIsForgotten
<1>1. TypeOK /\ RowsInv /\ [Next]_vars => RowsInv'
  BY NextRows
<1>2. RowsInv => RemovedIsForgotten
  BY DEF RowsInv, RemovedIsForgotten
<1> QED
  BY <1>1, <1>2, InitRows, PageTypes, PTL DEF Spec


-----------------------------------------------------------------------------
(* The runtimes.  No number the page keeps is above what its endpoint had: *)
(* a runtime that is up is the newest, whatever is still being stored.     *)

ViewBelow(view, most) == \A e \in Endpoints : view[e] # None => view[e].runtime <= most[e]
KnownBelow(known, most) == \A e \in Endpoints : \A i \in DOMAIN known[e] : known[e][i] <= most[e]
ChainBelow(ops, most) == \A i \in DOMAIN ops : ViewBelow(ops[i].next, most)
RowsBelow(table, most) == \A e \in Endpoints : table[e] <= most[e]
UpIsNewest(up, most) == \A e \in Endpoints : up[e] \in {0, most[e]}
FoundBelow(load, most) ==
  load # None => /\ RowsBelow(load.found, most)
                 /\ \A e \in Endpoints : load.found[e] # 0 => DeviceOf[e] = load.device

NumbersInv ==
  /\ UpIsNewest(live, runtimes) /\ RowsBelow(rows, runtimes) /\ ViewBelow(shown, runtimes)
  /\ KnownBelow(history, runtimes) /\ ChainBelow(chain, runtimes) /\ FoundBelow(loading, runtimes)

LEMMA StillBelow ==
  ASSUME NEW most \in [Endpoints -> Nat], NEW most1 \in [Endpoints -> Nat],
         \A e \in Endpoints : most[e] <= most1[e]
  PROVE  /\ \A v \in View : ViewBelow(v, most) => ViewBelow(v, most1)
         /\ \A t \in [Endpoints -> Nat] : RowsBelow(t, most) => RowsBelow(t, most1)
         /\ \A h \in [Endpoints -> Seq(Nat)] : KnownBelow(h, most) => KnownBelow(h, most1)
         /\ \A c \in Seq(Operation) : ChainBelow(c, most) => ChainBelow(c, most1)
<1>1. ASSUME NEW v \in View, ViewBelow(v, most)
      PROVE  ViewBelow(v, most1)
  <2> SUFFICES ASSUME NEW e \in Endpoints, v[e] # None
               PROVE  v[e].runtime <= most1[e]
    BY DEF ViewBelow
  <2>1. v[e].runtime \in Nat /\ v[e].runtime <= most[e]
    BY <1>1, ViewEntry DEF ViewBelow, Shown
  <2> QED
    BY <2>1
<1>2. \A t \in [Endpoints -> Nat] : RowsBelow(t, most) => RowsBelow(t, most1)
  BY DEF RowsBelow
<1>3. ASSUME NEW h \in [Endpoints -> Seq(Nat)], KnownBelow(h, most)
      PROVE  KnownBelow(h, most1)
  <2> SUFFICES ASSUME NEW e \in Endpoints, NEW i \in DOMAIN h[e]
               PROVE  h[e][i] <= most1[e]
    BY DEF KnownBelow
  <2>1. h[e] \in Seq(Nat)
    OBVIOUS
  <2>2. h[e][i] \in Nat
    BY <2>1, ElementOfSeq, LenProperties
  <2>3. h[e][i] <= most[e]
    BY <1>3 DEF KnownBelow
  <2> QED
    BY <2>2, <2>3
<1>4. ASSUME NEW c \in Seq(Operation), ChainBelow(c, most)
      PROVE  ChainBelow(c, most1)
  <2> SUFFICES ASSUME NEW i \in DOMAIN c
               PROVE  ViewBelow(c[i].next, most1)
    BY DEF ChainBelow
  <2>1. c[i] \in Operation
    BY ElementOfSeq, LenProperties
  <2>2. c[i].next \in View /\ ViewBelow(c[i].next, most)
    BY <1>4, <2>1 DEF ChainBelow, Operation
  <2> QED
    BY <1>1, <2>2
<1> QED
  BY <1>1, <1>2, <1>3, <1>4

LEMMA KnownStillBelow ==
  ASSUME RegistryTypeOK, NumbersInv, NEW e \in Endpoints
  PROVE  /\ Known(e) \in Seq(1..MaxRuntimes)
         /\ DOMAIN history[e] \subseteq DOMAIN Known(e)
         /\ \A i \in DOMAIN history[e] : Known(e)[i] = history[e][i]
         /\ \A i \in DOMAIN Known(e) : Known(e)[i] <= runtimes[e]
<1>1. history[e] \in Seq(1..MaxRuntimes) /\ \A i \in DOMAIN history[e] : history[e][i] <= runtimes[e]
  BY RegistryTypes DEF NumbersInv, KnownBelow
<1>2. CASE Known(e) = history[e]
  BY <1>1, <1>2
<1>3. CASE shown[e] # None /\ Known(e) = Append(history[e], shown[e].runtime)
  <2>1. shown[e].runtime \in 1..MaxRuntimes /\ shown[e].runtime <= runtimes[e]
    BY <1>3, RegistryTypes, ViewEntry DEF NumbersInv, ViewBelow, Shown
  <2>2. /\ Append(history[e], shown[e].runtime) \in Seq(1..MaxRuntimes)
        /\ DOMAIN Append(history[e], shown[e].runtime) = DOMAIN history[e] \cup {Len(history[e]) + 1}
        /\ \A i \in DOMAIN history[e] : Append(history[e], shown[e].runtime)[i] = history[e][i]
        /\ Append(history[e], shown[e].runtime)[Len(history[e]) + 1] = shown[e].runtime
    BY ONLY <1>1, <2>1, Appended
  <2> QED
    BY <1>1, <1>3, <2>1, <2>2
<1> QED
  BY <1>2, <1>3 DEF Known

(* What a page knows of the runtimes of an endpoint only grows.            *)
LEMMA RememberedGrows ==
  ASSUME RegistryTypeOK, NumbersInv, NEW e \in Endpoints, NEW r \in 1..MaxRuntimes,
         NEW n \in Nat, runtimes[e] <= n, r <= n
  PROVE  /\ DOMAIN history[e] \subseteq DOMAIN Remembered(e, r)
         /\ \A i \in DOMAIN history[e] : Remembered(e, r)[i] = history[e][i]
         /\ \A i \in DOMAIN Remembered(e, r) : Remembered(e, r)[i] <= n
<1>1. /\ Known(e) \in Seq(1..MaxRuntimes)
      /\ DOMAIN history[e] \subseteq DOMAIN Known(e)
      /\ \A i \in DOMAIN history[e] : Known(e)[i] = history[e][i]
      /\ \A i \in DOMAIN Known(e) : Known(e)[i] <= runtimes[e]
  BY KnownStillBelow
<1>2. /\ runtimes[e] \in Nat /\ \A i \in DOMAIN Known(e) : Known(e)[i] \in 1..MaxRuntimes
  BY <1>1, RegistryTypes, ElementOfSeq, LenProperties
<1>3. CASE Remembered(e, r) = Known(e)
  BY <1>1, <1>2, <1>3, RegistryTypes
<1>4. CASE Remembered(e, r) = Append(Known(e), r)
  <2> DEFINE k == Known(e)
             a == Append(k, r)
  <2>1. /\ DOMAIN a = DOMAIN k \cup {Len(k) + 1}
        /\ \A i \in DOMAIN k : a[i] = k[i]
        /\ a[Len(k) + 1] = r
    BY ONLY <1>1, r \in 1..MaxRuntimes, Appended
  <2> HIDE DEF a, k
  <2>2. /\ DOMAIN history[e] \subseteq DOMAIN k
        /\ \A i \in DOMAIN history[e] : k[i] = history[e][i]
        /\ \A i \in DOMAIN k : k[i] <= n
    BY <1>1, <1>2, RegistryTypes DEF k
  <2>3. Remembered(e, r) = a
    BY <1>4 DEF a, k
  <2> QED
    BY <2>1, <2>2, <2>3
<1> QED
  BY <1>3, <1>4 DEF Remembered


(* A report puts numbers into the history and into an operation.           *)
LEMMA ReportedBelow ==
  ASSUME RegistryTypeOK, NEW most \in [Endpoints -> Nat], ChainBelow(chain, most),
         NEW d \in Devices, NEW next \in View, ViewBelow(next, most), Persist(d, next)
  PROVE  ChainBelow(chain', most)
<1> DEFINE op == [device |-> d, epoch |-> epoch, next |-> next, step |-> "start"]
<1>1. chain \in Seq(Operation) /\ op \in Operation
  BY RegistryTypes DEF Operation
<1>2. chain' = Append(chain, op) /\ op.next = next
  BY DEF Persist
<1> HIDE DEF op
<1>3. /\ DOMAIN chain' = DOMAIN chain \cup {Len(chain) + 1}
      /\ \A i \in DOMAIN chain : chain'[i] = chain[i]
      /\ chain'[Len(chain) + 1] = op
  BY ONLY <1>1, <1>2, Appended
<1> QED
  BY <1>2, <1>3 DEF ChainBelow

LEMMA HostNumbers ==
  ASSUME RegistryTypeOK, RegistryTypeOK', NumbersInv, NEW e \in Endpoints,
         HostStarts(e) \/ HostUpdates(e) \/ HostEnds(e)
  PROVE  NumbersInv'
<1>1. /\ live \in [Endpoints -> 0..MaxRuntimes] /\ runtimes \in [Endpoints -> 0..MaxRuntimes]
      /\ rows \in [Endpoints -> Nat] /\ shown \in View /\ chain \in Seq(Operation)
      /\ history \in [Endpoints -> Seq(1..MaxRuntimes)] /\ MaxRuntimes \in Nat
      /\ runtimes' \in [Endpoints -> Nat] /\ runtimes \in [Endpoints -> Nat] /\ DeviceOf[e] \in Devices
  <2>1. runtimes' \in [Endpoints -> 0..MaxRuntimes] /\ MaxRuntimes \in Nat
    BY EndpointRegistryAssumption DEF RegistryTypeOK
  <2> QED
    BY <2>1, RegistryTypes
<1>2. history \in [Endpoints -> Seq(Nat)]
  <2>1. ASSUME NEW x \in Endpoints
        PROVE  history[x] \in Seq(Nat)
    <3>1. history[x] \in Seq(1..MaxRuntimes)
      BY <1>1
    <3>2. 1..MaxRuntimes \subseteq Nat
      BY <1>1
    <3> QED
      BY ONLY <3>1, <3>2, SeqMonotonic
  <2> QED
    BY <1>1, <2>1
<1>3. /\ UNCHANGED <<rows, loading>>
      /\ \A x \in Endpoints : runtimes[x] <= runtimes'[x] /\ live'[x] \in {0, runtimes'[x]}
    <2>1. UNCHANGED <<rows, loading>>
      BY DEF HostStarts, HostUpdates, HostEnds, Report, tableVars
    <2>2. \A x \in Endpoints : live[x] \in {0, runtimes[x]}
      BY DEF NumbersInv, UpIsNewest
    <2>3. CASE HostStarts(e)
      BY <1>1, <2>1, <2>2, <2>3 DEF HostStarts
    <2>4. CASE HostUpdates(e) \/ HostEnds(e)
      BY <1>1, <2>1, <2>2, <2>4 DEF HostUpdates, HostEnds, hostVars
    <2> QED
      BY <2>3, <2>4
<1>4. /\ RowsBelow(rows, runtimes') /\ ViewBelow(shown, runtimes') /\ KnownBelow(history, runtimes')
      /\ ChainBelow(chain, runtimes')
  BY <1>1, <1>2, <1>3, StillBelow DEF NumbersInv
<1>5. FoundBelow(loading, runtimes')
  <2>1. CASE loading # None
    <3>1. loading.found \in [Endpoints -> Nat]
      <4>1. loading \in [device : Devices, found : [Endpoints -> 0..MaxRuntimes]]
        BY <2>1 DEF RegistryTypeOK, Optional
      <4>2. loading.found \in [Endpoints -> 0..MaxRuntimes]
        BY <4>1
      <4> QED
        BY <1>1, <4>2
    <3>2. RowsBelow(loading.found, runtimes')
      BY <1>1, <1>3, <2>1, <3>1, StillBelow DEF NumbersInv, FoundBelow
    <3> QED
      BY <2>1, <3>2 DEF NumbersInv, FoundBelow
  <2> QED
    BY <2>1 DEF FoundBelow
<1>6. CASE HostStarts(e) \/ HostUpdates(e)
  <2> DEFINE r == live'[e]
  <2>1. /\ r \in 1..MaxRuntimes /\ r = runtimes'[e] /\ shown' = shown
        /\ \/ UNCHANGED <<history, chain>>
           \/ ApplyEvent(e, r)
    <3>1. CASE HostStarts(e)
      BY <1>1, <3>1 DEF HostStarts, Report, ApplyEvent
    <3>2. CASE HostUpdates(e)
      <4>1. r = live[e] /\ r # 0
        BY <3>2 DEF HostUpdates, hostVars
      <4>2. r = runtimes'[e] /\ r \in 1..MaxRuntimes
        BY <1>1, <1>3, <4>1
      <4>3. Report(DeviceOf[e], ApplyEvent(e, r))
        BY <3>2, <4>1 DEF HostUpdates
      <4> HIDE DEF r
      <4> QED
        BY <4>2, <4>3 DEF Report, ApplyEvent
    <3> QED
      BY <1>6, <3>1, <3>2
  <2> HIDE DEF r
  <2>2. ViewBelow([shown EXCEPT ![e] = [runtime |-> r, online |-> TRUE]], runtimes')
    BY <1>1, <1>4, <2>1 DEF ViewBelow, View
  <2>3. KnownBelow(history', runtimes') /\ ChainBelow(chain', runtimes')
    <3>1. CASE UNCHANGED <<history, chain>>
      BY <1>4, <3>1
    <3>2. CASE ApplyEvent(e, r)
      <4>1. \A i \in DOMAIN Remembered(e, r) : Remembered(e, r)[i] <= runtimes'[e]
        BY <1>1, <1>3, <2>1, RememberedGrows
      <4>2. history' = [history EXCEPT ![e] = Remembered(e, r)]
        BY <3>2 DEF ApplyEvent
      <4>3. KnownBelow(history', runtimes')
        BY <1>1, <1>4, <4>1, <4>2 DEF KnownBelow
      <4>4. ChainBelow(chain', runtimes')
        <5>1. CASE UNCHANGED chain
          BY <1>4, <5>1
        <5>2. CASE Persist(DeviceOf[e], [shown EXCEPT ![e] = [runtime |-> r, online |-> TRUE]])
          <6>1. [shown EXCEPT ![e] = [runtime |-> r, online |-> TRUE]] \in View
            BY <1>1, <2>1, ReportedEntry
          <6> QED
            BY <1>1, <1>4, <2>2, <5>2, <6>1, ReportedBelow
        <5> QED
          BY <3>2, <5>1, <5>2 DEF ApplyEvent
      <4> QED
        BY <4>3, <4>4
    <3> QED
      BY <2>1, <3>1, <3>2
  <2> QED
    BY <1>3, <1>4, <1>5, <2>1, <2>3 DEF NumbersInv, UpIsNewest
<1>7. CASE HostEnds(e)
  <2>1. /\ UNCHANGED <<history, chain>>
        /\ \/ shown' = shown
           \/ shown[e] # None /\ shown' = [shown EXCEPT ![e].online = FALSE]
    BY <1>7 DEF HostEnds, Report, ApplyEnd
  <2>2. ViewBelow(shown', runtimes')
    <3>1. CASE shown' = shown
      BY <1>4, <3>1
    <3>2. CASE shown[e] # None /\ shown' = [shown EXCEPT ![e].online = FALSE]
      <4>1. shown[e] \in Shown
        BY <1>1, <3>2, ViewEntry
      <4>2. shown' = [shown EXCEPT ![e] = [shown[e] EXCEPT !.online = FALSE]]
        BY <3>2
      <4>3. [shown[e] EXCEPT !.online = FALSE].runtime = shown[e].runtime
        BY <4>1 DEF Shown
      <4> QED
        BY <1>1, <1>4, <3>2, <4>2, <4>3 DEF ViewBelow, View
    <3> QED
      BY <2>1, <3>1, <3>2
  <2> QED
    BY <1>3, <1>4, <1>5, <2>1, <2>2 DEF NumbersInv, UpIsNewest
<1> QED
  BY <1>6, <1>7

LEMMA SnapshotNumbers ==
  ASSUME RegistryTypeOK, NumbersInv, NEW d \in Devices, Snapshot(d)
  PROVE  NumbersInv'
<1>1. /\ live \in [Endpoints -> 0..MaxRuntimes] /\ runtimes \in [Endpoints -> Nat]
      /\ shown \in View /\ history \in [Endpoints -> Seq(1..MaxRuntimes)] /\ MaxRuntimes \in Nat
  BY RegistryTypes
<1>2. UNCHANGED <<live, runtimes, rows, loading, shown>>
  BY DEF Snapshot, ApplySnapshot, hostVars, tableVars
<1>3. \A e \in Endpoints : live[e] \in {0, runtimes[e]}
  BY DEF NumbersInv, UpIsNewest
<1>4. KnownBelow(history', runtimes)
  <2>1. CASE history' = history
    BY <2>1 DEF NumbersInv
  <2>2. CASE ApplySnapshot(d)
    <3>1. ASSUME NEW e \in Endpoints, NEW i \in DOMAIN history'[e]
          PROVE  history'[e][i] <= runtimes[e]
      <4>1. CASE history'[e] = history[e]
        BY <3>1, <4>1 DEF NumbersInv, KnownBelow
      <4>2. CASE live[e] # 0 /\ history'[e] = Remembered(e, live[e])
        <5>1. live[e] \in 1..MaxRuntimes /\ live[e] = runtimes[e]
          BY <1>1, <1>3, <4>2
        <5>2. \A j \in DOMAIN Remembered(e, live[e]) : Remembered(e, live[e])[j] <= runtimes[e]
          BY <1>1, <5>1, RememberedGrows
        <5> QED
          BY <3>1, <4>2, <5>2
      <4> QED
        BY <2>2, <4>1, <4>2 DEF ApplySnapshot
    <3> QED
      BY <3>1 DEF KnownBelow
  <2> QED
    BY <2>1, <2>2 DEF Snapshot
<1>5. ChainBelow(chain', runtimes)
  <2>1. CASE UNCHANGED chain
    BY <2>1 DEF NumbersInv
  <2>2. CASE Persist(d, Snapped(d)) /\ Snapped(d) \in View
    <3>1. ViewBelow(Snapped(d), runtimes)
      <4> SUFFICES ASSUME NEW e \in Endpoints, Snapped(d)[e] # None
                   PROVE  Snapped(d)[e].runtime <= runtimes[e]
        BY DEF ViewBelow
      <4>1. shown[e] # None => shown[e].runtime <= runtimes[e]
        BY DEF NumbersInv, ViewBelow
      <4>2. CASE Snapped(d)[e] = shown[e]
        BY <4>1, <4>2
      <4>3. CASE Snapped(d)[e] = Offline(shown)[e]
        BY <1>1, <4>1, <4>3, OfflineTyped
      <4>4. CASE live[e] # 0 /\ Snapped(d)[e] = [runtime |-> live[e], online |-> TRUE]
        BY <1>1, <1>3, <4>4
      <4> QED
        BY <4>2, <4>3, <4>4 DEF Snapped
    <3> QED
      BY <1>1, <2>2, <3>1, ReportedBelow DEF NumbersInv
  <2> QED
    BY <2>1, <2>2, SnapshotReports
<1> QED
  BY <1>2, <1>4, <1>5 DEF NumbersInv

LEMMA PersistNumbers ==
  ASSUME RegistryTypeOK, NumbersInv, PersistStep
  PROVE  NumbersInv'
<1>1. /\ chain \in Seq(Operation) /\ chain # <<>> /\ rows \in [Endpoints -> 0..MaxRuntimes]
      /\ UNCHANGED <<live, runtimes, history, loading>>
  BY RegistryTypes, PersistSteps DEF hostVars
<1>2. 1 \in DOMAIN chain /\ Head(chain) = chain[1]
  BY ONLY <1>1, Tails
<1>3. ViewBelow(Head(chain).next, runtimes)
  BY <1>2 DEF NumbersInv, ChainBelow
<1>4. ChainBelow(chain', runtimes)
  <2>1. CASE \E step \in {"look", "write"} : Advances(step)
    BY <2>1, AdvancesTyped DEF NumbersInv, ChainBelow
  <2>2. CASE chain' = Tail(chain)
    <3>1. \A i \in DOMAIN chain' : i + 1 \in DOMAIN chain /\ chain'[i] = chain[i + 1]
      BY ONLY <1>1, <2>2, Tails
    <3> QED
      BY <3>1 DEF NumbersInv, ChainBelow
  <2> QED
    BY <2>1, <2>2, PersistSteps DEF Dropped, Over
<1>5. RowsBelow(rows', runtimes)
  <2>1. CASE rows' = rows
    BY <2>1 DEF NumbersInv
  <2>2. CASE rows' = [e \in Endpoints |-> IF Head(chain).next[e] = None THEN rows[e]
                                          ELSE Head(chain).next[e].runtime]
    BY <1>3, <2>2 DEF NumbersInv, RowsBelow, ViewBelow
  <2> QED
    BY <2>1, <2>2, PersistSteps
<1>6. ViewBelow(shown', runtimes)
  <2>1. CASE shown' = shown
    BY <2>1 DEF NumbersInv
  <2>2. CASE shown' = Merged([e \in Endpoints |-> IF DeviceOf[e] = Head(chain).device THEN None
                                                  ELSE shown[e]],
                             Head(chain).next)
    BY <1>3, <2>2 DEF NumbersInv, ViewBelow, Merged
  <2> QED
    BY <2>1, <2>2, PersistSteps
<1> QED
  BY <1>1, <1>4, <1>5, <1>6 DEF NumbersInv

(* What is read, and what is shown of it.                                  *)
LEMMA EffectNumbers ==
  ASSUME RegistryTypeOK, NumbersInv, NEW device, NEW choice, ActiveDeviceEffects(device, choice)
  PROVE  FoundBelow(loading', runtimes) /\ ViewBelow(shown', runtimes)
<1>1. /\ rows \in [Endpoints -> 0..MaxRuntimes] /\ runtimes \in [Endpoints -> 0..MaxRuntimes]
      /\ RowsBelow(rows, runtimes) /\ ViewBelow(shown, runtimes) /\ MaxRuntimes \in Nat
  BY RegistryTypes DEF NumbersInv
<1>2. CASE device = None
  BY <1>2 DEF ActiveDeviceEffects, FoundBelow, ViewBelow, Nothing
<1>3. CASE device # None
  <2> DEFINE found == [e \in Endpoints |-> IF DeviceOf[e] = device THEN rows[e] ELSE 0]
  <2>1. loading' = [device |-> device, found |-> found] /\ shown' = shown
    BY <1>3 DEF ActiveDeviceEffects
  <2>2. RowsBelow(found, runtimes) /\ \A e \in Endpoints : found[e] # 0 => DeviceOf[e] = device
    BY <1>1 DEF RowsBelow
  <2> HIDE DEF found
  <2> QED
    BY <1>1, <2>1, <2>2 DEF FoundBelow
<1> QED
  BY <1>2, <1>3

LEMMA SelectionNumbers ==
  ASSUME RegistryTypeOK, NumbersInv,
         \/ FinishLoad \/ FinishRestore \/ RemoveData
         \/ \E d \in Devices : SelectDevice(d)
         \/ \E e \in Endpoints : SelectEndpoint(e)
  PROVE  NumbersInv'
<1> USE DEF hostVars, tableVars, viewVars
<1>1. CASE FinishLoad
  <2>1. /\ UNCHANGED <<live, runtimes, rows, history, chain>> /\ loading # None /\ loading' = None
        /\ shown' = Merged([e \in Endpoints |-> IF loading.found[e] = 0 THEN None
                                                ELSE [runtime |-> loading.found[e], online |-> FALSE]],
                           Of(shown, loading.device))
    BY <1>1 DEF FinishLoad
  <2>2. ViewBelow(shown', runtimes)
    BY <2>1 DEF NumbersInv, ViewBelow, FoundBelow, RowsBelow, Merged, Of
  <2> QED
    BY <2>1, <2>2 DEF NumbersInv, FoundBelow
<1>2. CASE FinishRestore \/ \E e \in Endpoints : SelectEndpoint(e)
  <2>1. UNCHANGED <<live, runtimes, rows, history, chain, loading, shown>>
    BY <1>2 DEF FinishRestore, SelectEndpoint
  <2> QED
    BY <2>1 DEF NumbersInv
<1>3. CASE \E d \in Devices : SelectDevice(d)
  <2>1. PICK d \in Devices : SelectDevice(d)
    BY <1>3
  <2>2. UNCHANGED <<live, runtimes, rows, history, chain>>
    BY <2>1 DEF SelectDevice
  <2>3. FoundBelow(loading', runtimes) /\ ViewBelow(shown', runtimes)
    BY <2>1, EffectNumbers DEF SelectDevice
  <2> QED
    BY <2>2, <2>3 DEF NumbersInv
<1>4. CASE RemoveData
  <2>1. UNCHANGED <<live, runtimes, history, chain, loading, shown>>
        /\ rows' = [e \in Endpoints |-> IF DeviceOf[e] = removing.device THEN 0 ELSE rows[e]]
    BY <1>4 DEF RemoveData
  <2>2. RowsBelow(rows', runtimes)
    BY <2>1, RegistryTypes DEF NumbersInv, RowsBelow
  <2> QED
    BY <2>1, <2>2 DEF NumbersInv
<1> QED
  BY <1>1, <1>2, <1>3, <1>4

LEMMA NextNumbers == TypeOK /\ NumbersInv /\ [Next]_vars => NumbersInv'
<1> SUFFICES ASSUME TypeOK, NumbersInv, [Next]_vars
             PROVE  NumbersInv'
  OBVIOUS
<1>1. RegistryTypeOK /\ RegistryTypeOK' /\ PairingTypeOK
  BY NextTypes DEF TypeOK
<1>2. ASSUME UNCHANGED <<live, runtimes, rows, history, chain, loading>>,
             shown' = shown \/ shown' = Offline(shown)
      PROVE  NumbersInv'
  <2>1. ViewBelow(shown', runtimes)
    BY <1>1, <1>2, OfflineTyped, RegistryTypes DEF NumbersInv, ViewBelow
  <2> QED
    BY <1>2, <2>1 DEF NumbersInv
<1>3. CASE Hosts
  BY <1>1, <1>3, HostNumbers DEF Hosts
<1>4. CASE Registry
  BY <1>1, <1>4, SelectionNumbers, PersistNumbers DEF Registry
<1>5. CASE StartRemoval
  BY <1>2, <1>5 DEF StartRemoval, RemovePairing, hostVars, tableVars
<1>6. CASE EndRemoval \/ EndPairing
  <2>1. PICK device, choice : Lists(device, choice)
    BY <1>1, <1>6, RemovalLists, PairingLists
  <2>2. UNCHANGED <<live, runtimes, rows, history, chain>> /\ ActiveDeviceEffects(device, choice)
    BY <2>1 DEF Lists
  <2> QED
    BY <1>1, <2>2, EffectNumbers DEF NumbersInv
<1>7. CASE Relay
  <2>1. CASE \E d \in Devices : SnapshotArrives(d)
    BY <1>1, <2>1, SnapshotNumbers DEF SnapshotArrives
  <2>2. CASE ~(\E d \in Devices : SnapshotArrives(d))
    <3>1. NoViewChange /\ (shown' = shown \/ shown' = Offline(shown))
      BY <1>7, <2>2 DEF Relay, SocketOpens, ChallengeArrives, RelayCloses, Authenticate, LoseConnection,
                        FireRetry, GoOffline, GoOnline, HeardByRegistry
    <3> QED
      BY <1>2, <3>1 DEF NoViewChange, hostVars, tableVars
  <2> QED
    BY <2>1, <2>2
<1>8. CASE Session
  <2>1. NoViewChange /\ shown' = shown
    BY <1>8 DEF Session, RunSessionEffect, SessionReady, RetrySession, SessionEnds
  <2> QED
    BY <1>2, <2>1 DEF NoViewChange, hostVars, tableVars
<1>9. CASE Pairing
  <2>1. UNCHANGED <<live, runtimes, rows, history, chain, loading, shown>>
    BY <1>9 DEF Pairing, OpenDialog, CloseDialog, AttemptFails, PairOk, PairError, Scan,
                SendPairRequest, NoRegistryChange, hostVars, tableVars, viewVars
  <2> QED
    BY <1>2, <2>1
<1>10. CASE UNCHANGED vars
  BY <1>2, <1>10 DEF vars, registryVars, hostVars, viewVars, tableVars
<1> QED
  BY <1>3, <1>4, <1>5, <1>6, <1>7, <1>8, <1>9, <1>10 DEF Next

LEMMA InitNumbers == Init => NumbersInv
<1> SUFFICES ASSUME Init
             PROVE  NumbersInv
  OBVIOUS
<1>1. PICK s \in Starts :
        /\ live = s.live /\ rows = s.rows
        /\ runtimes = [e \in Endpoints |-> IF s.live[e] > s.rows[e] THEN s.live[e] ELSE s.rows[e]]
  BY DEF Init, RegistryInit
<1>2. /\ s.live \in [Endpoints -> 0..MaxRuntimes] /\ s.rows \in [Endpoints -> 0..MaxRuntimes]
      /\ MaxRuntimes \in Nat
      /\ \A e \in Endpoints : s.live[e] # 0 => s.rows[e] <= s.live[e]
  BY EndpointRegistryAssumption
<1>3. \A e \in Endpoints : live[e] \in {0, runtimes[e]} /\ rows[e] <= runtimes[e]
  BY <1>1, <1>2
<1>4. /\ shown = Nothing /\ history = [e \in Endpoints |-> <<>>] /\ chain = <<>>
      /\ loading = IF active = None THEN None
                   ELSE [device |-> active,
                         found |-> [e \in Endpoints |-> IF DeviceOf[e] = active THEN rows[e] ELSE 0]]
  BY DEF Init, RegistryInit
<1>5. FoundBelow(loading, runtimes)
  <2>1. CASE active # None
    <3> DEFINE found == [e \in Endpoints |-> IF DeviceOf[e] = active THEN rows[e] ELSE 0]
    <3>1. RowsBelow(found, runtimes) /\ \A e \in Endpoints : found[e] # 0 => DeviceOf[e] = active
      BY <1>1, <1>2, <1>3 DEF RowsBelow
    <3>2. loading = [device |-> active, found |-> found]
      BY <1>4, <2>1
    <3> HIDE DEF found
    <3> QED
      BY <3>1, <3>2 DEF FoundBelow
  <2> QED
    BY <1>4, <2>1 DEF FoundBelow
<1>6. ViewBelow(shown, runtimes) /\ KnownBelow(history, runtimes) /\ ChainBelow(chain, runtimes)
  BY <1>4 DEF ViewBelow, Nothing, KnownBelow, ChainBelow
<1> QED
  BY <1>3, <1>5, <1>6 DEF NumbersInv, UpIsNewest, RowsBelow

LEMMA NumbersHold == Spec => []NumbersInv
<1>1. TypeOK /\ NumbersInv /\ [Next]_vars => NumbersInv'
  BY NextNumbers
<1> QED
  BY <1>1, InitNumbers, PageTypes, PTL DEF Spec


-----------------------------------------------------------------------------
(* The presence.                                                           *)

(* An operation op says something of the endpoints of a device d.          *)
Touched(op, d) == op.device = d \/ d \in Carried(op.next)
Untouched(ops, d) == \A i \in DOMAIN ops : ~Touched(ops[i], d)

(* v shows the runtime up, or that none is.                                *)
Shows(up, v) ==
  IF up = 0 THEN v = None \/ ~v.online ELSE v = [runtime |-> up, online |-> TRUE]

(* What endpoint e of device d is about to be shown as, when the           *)
(* operations ops are over, is what it is.  The last that touches the      *)
(* device knows; one that carries it for another device comes alone, and   *)
(* what is shown is right then already.                                    *)
Follows(ops, e, d, up, v) ==
  /\ Untouched(ops, d) => Shows(up, v)
  /\ \A i \in DOMAIN ops :
       Touched(ops[i], d) /\ (\A j \in DOMAIN ops : Touched(ops[j], d) => j <= i) =>
         /\ Shows(up, ops[i].next[e])
         /\ ops[i].device # d =>
              Shows(up, v) /\ \A j \in DOMAIN ops : Touched(ops[j], d) => j = i

Backwards(known) == \E i, j \in DOMAIN known : i < j /\ known[i] > known[j]

Followed(e) ==
  DeviceOf[e] \in (subscribed \cap listed \cap stored) \ overtaken /\ ~Backwards(history[e])

PresenceInv ==
  \A e \in Endpoints : Followed(e) => Follows(chain, e, DeviceOf[e], live[e], shown[e])

LEMMA FollowsAppended ==
  ASSUME NEW ops \in Seq(Operation), NEW op \in Operation, NEW e, NEW d, NEW up, NEW v,
         Follows(ops, e, d, up, v), ~Touched(op, d)
  PROVE  Follows(Append(ops, op), e, d, up, v)
<1> DEFINE more == Append(ops, op)
<1>1. /\ Len(ops) \in Nat /\ DOMAIN more = DOMAIN ops \cup {Len(ops) + 1}
      /\ \A i \in DOMAIN ops : i \in Nat /\ i < Len(ops) + 1 /\ more[i] = ops[i]
      /\ more[Len(ops) + 1] = op
  BY Appended
<1> HIDE DEF more
<1>2. \A i \in DOMAIN more : Touched(more[i], d) => i \in DOMAIN ops /\ more[i] = ops[i]
  BY <1>1
<1>3. \A i \in DOMAIN ops : i \in DOMAIN more /\ more[i] = ops[i]
  BY <1>1
<1>4. Follows(more, e, d, up, v)
  BY <1>2, <1>3 DEF Follows, Untouched
<1> QED
  BY <1>4 DEF more

(* A report on the device itself overrides what came before it; one that   *)
(* only carries it must not come after another.                            *)
LEMMA FollowsReported ==
  ASSUME NEW ops \in Seq(Operation), NEW op \in Operation, NEW e, NEW d, NEW up, NEW v,
         Shows(up, op.next[e]), op.device # d => Untouched(ops, d) /\ Shows(up, v), Touched(op, d)
  PROVE  Follows(Append(ops, op), e, d, up, v)
<1> DEFINE more == Append(ops, op)
           n == Len(ops) + 1
<1>1. /\ n \in Nat /\ DOMAIN more = DOMAIN ops \cup {n}
      /\ \A i \in DOMAIN ops : i \in Nat /\ i < n /\ more[i] = ops[i]
      /\ more[n] = op
  BY Appended
<1> HIDE DEF more, n
<1>2. ~Untouched(more, d)
  BY <1>1 DEF Untouched
<1>3. ASSUME NEW i \in DOMAIN more, \A j \in DOMAIN more : Touched(more[j], d) => j <= i
      PROVE  i = n
  <2>1. n <= i
    BY <1>1, <1>3
  <2> QED
    BY <1>1, <2>1
<1>4. op.device # d => \A j \in DOMAIN more : Touched(more[j], d) => j = n
  BY <1>1 DEF Untouched
<1>5. Follows(more, e, d, up, v)
  BY <1>1, <1>2, <1>3, <1>4 DEF Follows
<1> QED
  BY <1>5 DEF more

(* The first operation is over, and what it says is shown, or it is        *)
(* dropped and did not know of the device.                                 *)
LEMMA FollowsTail ==
  ASSUME NEW ops \in Seq(Operation), ops # <<>>, NEW e, NEW d, NEW up, NEW v, NEW v1,
         Follows(ops, e, d, up, v),
         ~Touched(Head(ops), d) => v1 = v,
         (/\ Touched(Head(ops), d) /\ Shows(up, Head(ops).next[e])
          /\ Head(ops).device # d => Shows(up, v)) => Shows(up, v1)
  PROVE  Follows(Tail(ops), e, d, up, v1)
<1> DEFINE rest == Tail(ops)
<1>1. /\ 1 \in DOMAIN ops /\ Head(ops) = ops[1]
      /\ \A i \in DOMAIN rest : i \in Nat /\ i + 1 \in DOMAIN ops /\ i + 1 # 1 /\ rest[i] = ops[i + 1]
      /\ \A i \in DOMAIN ops :
           i \in Nat /\ (i # 1 => i - 1 \in DOMAIN rest /\ rest[i - 1] = ops[i])
  BY Tails
<1> HIDE DEF rest
<1> SUFFICES Follows(rest, e, d, up, v1)
  BY DEF rest
<1>2. ASSUME Untouched(rest, d)
      PROVE  Shows(up, v1)
  <2>1. \A j \in DOMAIN ops : Touched(ops[j], d) => j = 1
    BY <1>1, <1>2 DEF Untouched
  <2>2. CASE Touched(ops[1], d)
    <3>1. \A j \in DOMAIN ops : Touched(ops[j], d) => j <= 1
      BY <2>1
    <3>2. Shows(up, ops[1].next[e]) /\ (ops[1].device # d => Shows(up, v))
      BY <1>1, <2>2, <3>1 DEF Follows
    <3> QED
      BY <1>1, <2>2, <3>2
  <2>3. CASE ~Touched(ops[1], d)
    <3>1. Untouched(ops, d)
      BY <2>1, <2>3 DEF Untouched
    <3> QED
      BY <1>1, <2>3, <3>1 DEF Follows
  <2> QED
    BY <2>2, <2>3
<1>3. ASSUME NEW i \in DOMAIN rest, Touched(rest[i], d),
             \A j \in DOMAIN rest : Touched(rest[j], d) => j <= i
      PROVE  /\ Shows(up, rest[i].next[e])
             /\ rest[i].device # d =>
                  Shows(up, v1) /\ \A j \in DOMAIN rest : Touched(rest[j], d) => j = i
  <2>1. i + 1 \in DOMAIN ops /\ ops[i + 1] = rest[i] /\ i \in Nat
    BY <1>1
  <2>2. ASSUME NEW j \in DOMAIN ops, Touched(ops[j], d)
        PROVE  j <= i + 1
    <3>1. CASE j = 1
      BY <2>1, <3>1
    <3>2. CASE j # 1
      <4>1. j \in Nat /\ j - 1 \in DOMAIN rest /\ rest[j - 1] = ops[j]
        BY <1>1, <3>2
      <4>2. j - 1 <= i
        BY <1>3, <2>2, <4>1
      <4> QED
        BY <2>1, <4>1, <4>2
    <3> QED
      BY <3>1, <3>2
  <2>3. /\ Shows(up, ops[i + 1].next[e])
        /\ ops[i + 1].device # d =>
             Shows(up, v) /\ \A j \in DOMAIN ops : Touched(ops[j], d) => j = i + 1
    BY <1>3, <2>1, <2>2 DEF Follows
  <2>4. ASSUME rest[i].device # d
        PROVE  Shows(up, v1) /\ \A j \in DOMAIN rest : Touched(rest[j], d) => j = i
    <3>1. Shows(up, v) /\ \A j \in DOMAIN ops : Touched(ops[j], d) => j = i + 1
      BY <2>1, <2>3, <2>4
    <3>2. ~Touched(ops[1], d)
      BY <1>1, <2>1, <3>1
    <3>3. v1 = v
      BY <1>1, <3>2
    <3>4. ASSUME NEW j \in DOMAIN rest, Touched(rest[j], d)
          PROVE  j = i
      <4>1. j \in Nat /\ j + 1 \in DOMAIN ops /\ ops[j + 1] = rest[j]
        BY <1>1
      <4>2. j + 1 = i + 1
        BY <3>1, <3>4, <4>1
      <4> QED
        BY <2>1, <4>1, <4>2
    <3> QED
      BY <3>1, <3>3, <3>4
  <2> QED
    BY <2>1, <2>3, <2>4
<1> QED
  BY <1>2, <1>3 DEF Follows

(* What is not told again shows as it did.                                 *)
LEMMA FollowsStill ==
  ASSUME NEW ops, NEW ops1, NEW e, NEW d, NEW up, NEW v,
         DOMAIN ops1 = DOMAIN ops,
         \A i \in DOMAIN ops : ops1[i].device = ops[i].device /\ ops1[i].next = ops[i].next,
         Follows(ops, e, d, up, v)
  PROVE  Follows(ops1, e, d, up, v)
<1>1. \A i \in DOMAIN ops : Touched(ops1[i], d) <=> Touched(ops[i], d)
  BY DEF Touched
<1> QED
  BY <1>1 DEF Follows, Untouched

(* What a page has learnt backwards it does not unlearn.                   *)
LEMMA BackwardsStays ==
  ASSUME NEW known, NEW known1, DOMAIN known \subseteq DOMAIN known1,
         \A i \in DOMAIN known : known1[i] = known[i], ~Backwards(known1)
  PROVE  ~Backwards(known)
  BY DEF Backwards

(* A report on the newest runtime is rejected only where a row was shown   *)
(* after it.                                                               *)
LEMMA RejectedBackwards ==
  ASSUME RegistryTypeOK, NumbersInv, NEW e \in Endpoints, NEW r \in 1..MaxRuntimes,
         ~Accepts(e, r), runtimes[e] <= r
  PROVE  Backwards(Remembered(e, r))
<1> DEFINE k == Known(e)
<1>1. /\ k \in Seq(1..MaxRuntimes) /\ \A i \in DOMAIN k : k[i] <= runtimes[e]
  BY KnownStillBelow
<1>2. r \in ToSet(k) /\ r # Last(k) /\ Remembered(e, r) = k
  BY DEF Accepts, Remembered
<1> HIDE DEF k
<1>3. PICK i \in DOMAIN k : k[i] = r
  BY <1>2 DEF ToSet
<1>4. Len(k) \in Nat /\ DOMAIN k = 1..Len(k) /\ Last(k) = k[Len(k)]
  BY <1>1, LenProperties DEF Last
<1>5. i < Len(k) /\ Len(k) \in DOMAIN k
  BY <1>2, <1>3, <1>4
<1>6. k[Len(k)] \in Nat /\ k[Len(k)] <= runtimes[e] /\ runtimes[e] \in Nat /\ k[Len(k)] # r
  <2>1. k[Len(k)] \in 1..MaxRuntimes
    BY <1>1, <1>4, <1>5, ElementOfSeq
  <2> QED
    BY <1>1, <1>2, <1>4, <1>5, <2>1, RegistryTypes
<1>7. k[i] > k[Len(k)]
  BY <1>3, <1>6
<1> QED
  BY <1>2, <1>5, <1>7 DEF Backwards


(* What is shown may change while it stays right.                          *)
LEMMA PresenceStill ==
  ASSUME PresenceInv, chain' = chain,
         \A e \in Endpoints : Followed(e)' =>
           /\ Followed(e) /\ live'[e] = live[e]
           /\ Shows(live[e], shown[e]) => Shows(live[e], shown'[e])
  PROVE  PresenceInv'
<1> SUFFICES ASSUME NEW e \in Endpoints, Followed(e)'
             PROVE  Follows(chain', e, DeviceOf[e], live'[e], shown'[e])
  BY DEF PresenceInv
<1>1. /\ Follows(chain, e, DeviceOf[e], live[e], shown[e]) /\ live'[e] = live[e]
      /\ Shows(live[e], shown[e]) => Shows(live[e], shown'[e])
  BY DEF PresenceInv
<1> QED
  BY <1>1 DEF Follows

(* A report that comes while another is being stored gives up on the       *)
(* devices of that one.                                                    *)
LEMMA ReportUntouched ==
  ASSUME RegistryTypeOK, NEW e \in Endpoints, DeviceOf[e] \notin Pending
  PROVE  Untouched(chain, DeviceOf[e])
<1> SUFFICES ASSUME NEW i \in DOMAIN chain, Touched(chain[i], DeviceOf[e])
             PROVE  FALSE
  BY DEF Untouched
<1>1. DeviceOf[e] \in {chain[i].device} \cup Carried(chain[i].next)
  BY DEF Touched
<1> QED
  BY <1>1 DEF Pending

LEMMA EventFollows ==
  ASSUME RegistryTypeOK, NumbersInv, NEW e \in Endpoints, NEW r \in 1..MaxRuntimes,
         ApplyEvent(e, r), runtimes[e] <= r, NEW x \in Endpoints, NEW up,
         ~Backwards(history'[x]), Untouched(chain, DeviceOf[x]),
         x = e => up = r,
         x # e => Shows(up, shown[x])
  PROVE  Follows(chain', x, DeviceOf[x], up, shown'[x])
<1> DEFINE next == [shown EXCEPT ![e] = [runtime |-> r, online |-> TRUE]]
           op == [device |-> DeviceOf[e], epoch |-> epoch, next |-> next, step |-> "start"]
<1>0. /\ chain \in Seq(Operation) /\ DeviceOf[e] \in Devices /\ shown \in View /\ epoch \in Nat
      /\ history \in [Endpoints -> Seq(1..MaxRuntimes)] /\ MaxRuntimes \in Nat
  BY RegistryTypes
<1>1. /\ chain \in Seq(Operation) /\ DeviceOf[e] \in Devices /\ shown \in View /\ epoch \in Nat
      /\ history \in [Endpoints -> Seq(1..MaxRuntimes)] /\ next \in View /\ r # 0
  <2>1. next \in View
    BY <1>0, ReportedEntry
  <2>2. r # 0
    BY <1>0
  <2> QED
    BY <1>0, <2>1, <2>2
<1>2. shown' = shown /\ history' = [history EXCEPT ![e] = Remembered(e, r)]
  BY DEF ApplyEvent
<1>3. CASE ~Accepts(e, r)
  <2>1. x # e
    BY <1>1, <1>2, <1>3, RejectedBackwards
  <2>2. chain' = chain
    BY <1>3 DEF ApplyEvent
  <2> QED
    BY <1>2, <2>1, <2>2 DEF Follows, Untouched
<1>4. CASE Accepts(e, r)
  <2>1. chain' = Append(chain, op)
    BY <1>4 DEF ApplyEvent, Persist
  <2>2. /\ op \in Operation /\ op.device = DeviceOf[e] /\ op.next = next
    BY <1>1 DEF Operation
  <2>3. /\ next[e] = [runtime |-> r, online |-> TRUE] /\ (x # e => next[x] = shown[x])
    BY <1>1 DEF View
  <2> HIDE DEF op, next
  <2>4. Shows(up, op.next[x])
    BY <1>1, <2>2, <2>3 DEF Shows
  <2>5. x = e => op.device = DeviceOf[x]
    BY <2>2
  <2>6. CASE Touched(op, DeviceOf[x])
    BY <1>1, <1>2, <2>1, <2>2, <2>4, <2>5, <2>6, FollowsReported
  <2>7. CASE ~Touched(op, DeviceOf[x])
    <3>1. x # e
      BY <2>5, <2>7 DEF Touched
    <3>2. Follows(chain, x, DeviceOf[x], up, shown[x])
      BY <3>1 DEF Follows, Untouched
    <3> QED
      BY <1>1, <1>2, <2>1, <2>2, <2>7, <3>2, FollowsAppended
  <2> QED
    BY <2>6, <2>7
<1> QED
  BY <1>3, <1>4

(* What one report does to the reports there were.                         *)
LEMMA HostPresence ==
  ASSUME RegistryTypeOK, NumbersInv, PresenceInv, NEW e \in Endpoints,
         HostStarts(e) \/ HostUpdates(e) \/ HostEnds(e)
  PROVE  PresenceInv'
<1>1. /\ live \in [Endpoints -> 0..MaxRuntimes] /\ runtimes \in [Endpoints -> 0..MaxRuntimes]
      /\ chain \in Seq(Operation) /\ DeviceOf[e] \in Devices /\ shown \in View
      /\ history \in [Endpoints -> Seq(1..MaxRuntimes)] /\ MaxRuntimes \in Nat
  BY RegistryTypes
<1>2. /\ UNCHANGED <<subscribed, listed, stored>>
      /\ \A x \in Endpoints : x # e => live'[x] = live[x]
  BY <1>1 DEF HostStarts, HostUpdates, HostEnds, Report, tableVars, hostVars
<1>3. CASE DeviceOf[e] \notin subscribed \cap listed
  <2>1. UNCHANGED <<history, chain, shown, overtaken>>
    BY <1>3 DEF HostStarts, HostUpdates, HostEnds, Report
  <2>2. \A x \in Endpoints : Followed(x)' => Followed(x) /\ live'[x] = live[x] /\ shown'[x] = shown[x]
    BY <1>2, <1>3, <2>1 DEF Followed
  <2> QED
    BY <2>1, <2>2, PresenceStill
<1>4. CASE DeviceOf[e] \in subscribed \cap listed
  <2>1. overtaken' = overtaken \cup Pending
    BY <1>4 DEF HostStarts, HostUpdates, HostEnds, Report
  <2>2. \/ /\ live'[e] \in 1..MaxRuntimes /\ runtimes[e] <= live'[e] /\ ApplyEvent(e, live'[e])
        \/ /\ live[e] # 0 /\ live'[e] = 0 /\ ApplyEnd(e, live[e])
    <3>1. CASE HostStarts(e)
      BY <1>1, <1>4, <3>1 DEF HostStarts, Report
    <3>2. CASE HostUpdates(e)
      <4>1. live'[e] = live[e] /\ live[e] # 0 /\ live[e] = runtimes[e]
        BY <3>2 DEF HostUpdates, hostVars, NumbersInv, UpIsNewest
      <4> QED
        BY <1>1, <1>4, <3>2, <4>1 DEF HostUpdates, Report
    <3>3. CASE HostEnds(e)
      BY <1>1, <1>4, <3>3 DEF HostEnds, Report
    <3> QED
      BY <3>1, <3>2, <3>3
  <2>3. ASSUME NEW x \in Endpoints, ~Backwards(history'[x])
        PROVE  ~Backwards(history[x])
    <3>1. CASE history'[x] = history[x]
      BY <2>3, <3>1
    <3>2. CASE x = e /\ live'[e] \in 1..MaxRuntimes /\ runtimes[e] <= live'[e]
               /\ history'[e] = Remembered(e, live'[e])
      <4>1. /\ DOMAIN history[e] \subseteq DOMAIN Remembered(e, live'[e])
            /\ \A i \in DOMAIN history[e] : Remembered(e, live'[e])[i] = history[e][i]
        BY <1>1, <3>2, RememberedGrows
      <4> QED
        BY <2>3, <3>2, <4>1, BackwardsStays
    <3> QED
      BY <1>1, <2>2, <3>1, <3>2 DEF ApplyEvent, ApplyEnd
  <2>4. ASSUME NEW x \in Endpoints, Followed(x)'
        PROVE  /\ ~Backwards(history'[x]) /\ Untouched(chain, DeviceOf[x]) /\ Shows(live[x], shown[x])
    <3>1. Followed(x) /\ ~Backwards(history'[x])
      BY <1>2, <2>1, <2>3, <2>4 DEF Followed
    <3>2. Untouched(chain, DeviceOf[x])
      BY <2>1, <2>4, ReportUntouched DEF Followed
    <3>3. Follows(chain, x, DeviceOf[x], live[x], shown[x])
      BY <3>1 DEF PresenceInv
    <3> QED
      BY <3>1, <3>2, <3>3 DEF Follows
  <2> SUFFICES ASSUME NEW x \in Endpoints, Followed(x)'
               PROVE  Follows(chain', x, DeviceOf[x], live'[x], shown'[x])
    BY DEF PresenceInv
  <2>5. /\ ~Backwards(history'[x]) /\ Untouched(chain, DeviceOf[x]) /\ Shows(live[x], shown[x])
    BY <2>4
  <2>6. CASE live'[e] \in 1..MaxRuntimes /\ runtimes[e] <= live'[e] /\ ApplyEvent(e, live'[e])
    <3> DEFINE r == live'[e]
               up == live'[x]
    <3>1. (x = e => up = r) /\ (x # e => Shows(up, shown[x]))
      BY <1>2, <2>5
    <3>2. r \in 1..MaxRuntimes /\ runtimes[e] <= r /\ ApplyEvent(e, r)
      BY <2>6
    <3> HIDE DEF r, up
    <3>3. Follows(chain', x, DeviceOf[x], up, shown'[x])
      BY <2>5, <3>1, <3>2, EventFollows
    <3> QED
      BY <3>3 DEF up
  <2>7. CASE live[e] # 0 /\ live'[e] = 0 /\ ApplyEnd(e, live[e])
    <3>1. chain' = chain
      BY <2>7 DEF ApplyEnd
    <3>2. Shows(live'[x], shown'[x])
      <4>1. CASE x = e
        <5>1. shown[e] = [runtime |-> live[e], online |-> TRUE]
          BY <2>5, <2>7, <4>1 DEF Shows
        <5>2. shown[e] # None
          <6>1. shown[e] \in Shown
            BY <1>1, <2>7, <5>1 DEF Shown
          <6> QED
            BY <6>1, ViewAssumption
        <5>3. shown' = [shown EXCEPT ![e].online = FALSE]
          BY <2>7, <5>1, <5>2 DEF ApplyEnd
        <5>4. ~shown'[e].online
          BY <1>1, <5>1, <5>3 DEF View
        <5> QED
          BY <2>7, <4>1, <5>4 DEF Shows
      <4>2. CASE x # e
        BY <1>1, <1>2, <2>5, <2>7, <4>2 DEF ApplyEnd, View
      <4> QED
        BY <4>1, <4>2
    <3> QED
      BY <2>5, <3>1, <3>2 DEF Follows, Untouched
  <2> QED
    BY <2>2, <2>6, <2>7
<1> QED
  BY <1>3, <1>4


(* A snapshot overrides what came before it for its device, and carries no *)
(* other.                                                                  *)
LEMMA SnapshotPresence ==
  ASSUME RegistryTypeOK, NumbersInv, PresenceInv, NEW d \in Devices, Snapshot(d)
  PROVE  PresenceInv'
<1>1. /\ live \in [Endpoints -> 0..MaxRuntimes] /\ runtimes \in [Endpoints -> 0..MaxRuntimes]
      /\ chain \in Seq(Operation) /\ shown \in View /\ epoch \in Nat
      /\ history \in [Endpoints -> Seq(1..MaxRuntimes)] /\ MaxRuntimes \in Nat
  BY RegistryTypes
<1>2. /\ UNCHANGED <<live, shown, listed, stored>>
      /\ subscribed' = subscribed \cup {d} /\ overtaken' = overtaken \ {d}
  BY DEF Snapshot, ApplySnapshot, hostVars, tableVars
<1>3. CASE d \notin listed
  <2>1. UNCHANGED <<history, chain>>
    BY <1>3 DEF Snapshot
  <2>2. \A x \in Endpoints : Followed(x)' => Followed(x) /\ live'[x] = live[x] /\ shown'[x] = shown[x]
    BY <1>2, <1>3, <2>1 DEF Followed
  <2> QED
    BY <2>1, <2>2, PresenceStill
<1>4. CASE d \in listed
  <2> DEFINE next == Snapped(d)
             op == [device |-> d, epoch |-> epoch, next |-> next, step |-> "start"]
  <2>1. /\ Persist(d, next) /\ next \in View
        /\ \A x \in Endpoints :
             history'[x] = IF DeviceOf[x] = d /\ live[x] # 0 THEN Remembered(x, live[x]) ELSE history[x]
    BY <1>4, SnappedTyped DEF Snapshot, ApplySnapshot, Snapped
  <2>2. chain' = Append(chain, op) /\ op \in Operation /\ op.device = d /\ op.next = next
    BY <1>1, <2>1 DEF Persist, Operation
  <2> HIDE DEF op
  <2> SUFFICES ASSUME NEW x \in Endpoints, Followed(x)'
               PROVE  Follows(chain', x, DeviceOf[x], live'[x], shown'[x])
    BY DEF PresenceInv
  <2>3. ~Backwards(history'[x])
    BY DEF Followed
  <2>4. live[x] \in {0, runtimes[x]} /\ live[x] \in 0..MaxRuntimes
    BY <1>1 DEF NumbersInv, UpIsNewest
  <2>5. CASE DeviceOf[x] = d
    <3>1. Shows(live[x], next[x])
      <4>1. CASE live[x] = 0
        <5>1. next[x] = Offline(shown)[x]
          BY <2>5, <4>1 DEF Snapped
        <5> QED
          BY <1>1, <4>1, <5>1, OfflineTyped DEF Shows
      <4>2. CASE live[x] # 0
        <5>1. live[x] \in 1..MaxRuntimes /\ runtimes[x] <= live[x]
          BY <1>1, <2>4, <4>2
        <5>2. Accepts(x, live[x])
          BY <2>1, <2>3, <2>5, <4>2, <5>1, RejectedBackwards
        <5>3. next[x] = [runtime |-> live[x], online |-> TRUE]
          BY <2>5, <4>2, <5>2 DEF Snapped
        <5> QED
          BY <4>2, <5>3 DEF Shows
      <4> QED
        BY <4>1, <4>2
    <3>2. Shows(live[x], op.next[x]) /\ Touched(op, d)
      BY <2>2, <3>1 DEF Touched
    <3>3. op.device # DeviceOf[x] => Untouched(chain, DeviceOf[x]) /\ Shows(live[x], shown[x])
      BY <2>2, <2>5
    <3>4. Follows(Append(chain, op), x, DeviceOf[x], live[x], shown[x])
      BY <1>1, <2>2, <2>5, <3>2, <3>3, FollowsReported
    <3> QED
      BY <1>2, <2>2, <3>4
  <2>6. CASE DeviceOf[x] # d
    <3>1. ~Touched(op, DeviceOf[x])
      <4>1. \A y \in Endpoints : next[y] # None => DeviceOf[y] = d
        BY DEF Snapped
      <4>2. DeviceOf[x] \notin Carried(next)
        BY <2>6, <4>1, CarriedTyped
      <4> QED
        BY <2>2, <2>6, <4>2 DEF Touched
    <3>2. Followed(x)
      BY <1>2, <2>1, <2>6 DEF Followed
    <3>3. Follows(chain, x, DeviceOf[x], live[x], shown[x])
      BY <3>2 DEF PresenceInv
    <3>4. Follows(Append(chain, op), x, DeviceOf[x], live[x], shown[x])
      BY <1>1, <2>2, <3>1, <3>3, FollowsAppended
    <3> QED
      BY <1>2, <2>2, <3>4
  <2> QED
    BY <2>5, <2>6
<1> QED
  BY <1>3, <1>4

(* An operation goes on, is installed, or is dropped with its device.      *)
LEMMA PersistPresence ==
  ASSUME RegistryTypeOK, PresenceInv, PersistStep
  PROVE  PresenceInv'
<1>1. /\ chain \in Seq(Operation) /\ chain # <<>>
      /\ UNCHANGED <<live, subscribed, listed, stored, history>>
  BY RegistryTypes, PersistSteps DEF hostVars
<1>2. Head(chain) \in Operation
  BY ONLY <1>1, Tails
<1> SUFFICES ASSUME NEW x \in Endpoints, Followed(x)'
             PROVE  Follows(chain', x, DeviceOf[x], live'[x], shown'[x])
  BY DEF PresenceInv
<1>3. overtaken \subseteq overtaken'
  BY PersistSteps DEF Dropped
<1>4. Followed(x)
  BY <1>1, <1>3 DEF Followed
<1>5. Follows(chain, x, DeviceOf[x], live[x], shown[x])
  BY <1>4 DEF PresenceInv
<1>6. CASE (Advances("look") \/ Advances("write")) /\ UNCHANGED shown
  <2>1. /\ DOMAIN chain' = DOMAIN chain
        /\ \A i \in DOMAIN chain : chain'[i].device = chain[i].device /\ chain'[i].next = chain[i].next
    BY <1>6, AdvancesTyped
  <2>2. Follows(chain', x, DeviceOf[x], live[x], shown[x])
    BY <1>5, <2>1, FollowsStill
  <2> QED
    BY <1>1, <1>6, <2>2
<1> DEFINE d == DeviceOf[x]
           op == Head(chain)
<1>7. CASE Dropped /\ UNCHANGED shown
  <2>1. op.device # d
    BY <1>7 DEF Dropped, Followed
  <2>2. /\ ~Touched(op, d) => shown[x] = shown[x]
        /\ (/\ Touched(op, d) /\ Shows(live[x], op.next[x])
            /\ op.device # d => Shows(live[x], shown[x])) => Shows(live[x], shown[x])
    BY <2>1
  <2>3. Follows(Tail(chain), x, d, live[x], shown[x])
    BY <1>1, <1>5, <2>2, FollowsTail
  <2> QED
    BY <1>1, <1>7, <2>3 DEF Dropped, Over
<1>8. CASE /\ Over
           /\ shown' = Merged([e \in Endpoints |-> IF DeviceOf[e] = Head(chain).device THEN None
                                                   ELSE shown[e]],
                              Head(chain).next)
  <2> DEFINE v == shown'[x]
  <2>1. v = IF op.next[x] # None THEN op.next[x] ELSE IF d = op.device THEN None ELSE shown[x]
    BY <1>8 DEF Merged
  <2>2. ~Touched(op, d) => v = shown[x]
    BY <2>1, CarriedTyped DEF Touched
  <2>3. ASSUME Touched(op, d), Shows(live[x], op.next[x]), op.device # d => Shows(live[x], shown[x])
        PROVE  Shows(live[x], v)
    <3>1. CASE op.next[x] # None
      BY <2>1, <2>3, <3>1
    <3>2. CASE op.next[x] = None /\ d # op.device
      BY <2>1, <2>3, <3>2
    <3>3. CASE op.next[x] = None /\ d = op.device
      BY <2>1, <2>3, <3>3
    <3> QED
      BY <3>1, <3>2, <3>3
  <2> HIDE DEF v
  <2>4. Follows(Tail(chain), x, d, live[x], v)
    BY <1>1, <1>5, <2>2, <2>3, FollowsTail
  <2> QED
    BY <1>1, <1>8, <2>4 DEF Over, v
<1> QED
  BY <1>6, <1>7, <1>8, PersistSteps


(* The stored rows are shown offline, where nothing is shown yet; and what *)
(* goes with another device is given up on.                                *)
LEMMA LoadPresence ==
  ASSUME RegistryTypeOK, NumbersInv, PresenceInv, FinishLoad
  PROVE  PresenceInv'
<1> DEFINE d == loading.device
<1>1. /\ UNCHANGED <<live, subscribed, listed, stored, history, chain>> /\ loading # None
      /\ overtaken' = overtaken \cup (Carried(shown) \ {d})
      /\ shown' = Merged([e \in Endpoints |-> IF loading.found[e] = 0 THEN None
                                              ELSE [runtime |-> loading.found[e], online |-> FALSE]],
                         Of(shown, d))
  BY DEF FinishLoad, hostVars, tableVars
<1>2. /\ shown \in View /\ live \in [Endpoints -> 0..MaxRuntimes] /\ MaxRuntimes \in Nat
      /\ \A e \in Endpoints : loading.found[e] # 0 => DeviceOf[e] = d
  BY <1>1, RegistryTypes DEF NumbersInv, FoundBelow
<1>3. ASSUME NEW e \in Endpoints, Followed(e)'
      PROVE  /\ Followed(e) /\ live'[e] = live[e]
             /\ Shows(live[e], shown[e]) => Shows(live[e], shown'[e])
  <2>1. Followed(e) /\ DeviceOf[e] \notin Carried(shown) \ {d}
    BY <1>1, <1>3 DEF Followed
  <2>2. shown[e] # None => DeviceOf[e] = d
    BY <2>1, CarriedTyped
  <2>3. shown'[e] = IF shown[e] # None THEN shown[e]
                    ELSE IF loading.found[e] = 0 THEN None
                    ELSE [runtime |-> loading.found[e], online |-> FALSE]
    BY <1>1, <2>2 DEF Merged, Of
  <2>4. shown[e] = None /\ Shows(live[e], shown[e]) => live[e] = 0
    <3> SUFFICES ASSUME shown[e] = None, Shows(live[e], shown[e]), live[e] # 0
                 PROVE  FALSE
      OBVIOUS
    <3>1. live[e] \in 1..MaxRuntimes /\ None = [runtime |-> live[e], online |-> TRUE]
      BY <1>2 DEF Shows
    <3>2. [runtime |-> live[e], online |-> TRUE] \in Shown
      BY <3>1 DEF Shown
    <3> QED
      BY <3>1, <3>2, ViewAssumption
  <2> QED
    BY <1>1, <2>1, <2>3, <2>4 DEF Shows
<1> QED
  BY <1>1, <1>3, PresenceStill

LEMMA SelectionPresence ==
  ASSUME RegistryTypeOK, PresenceInv,
         \/ FinishRestore \/ RemoveData
         \/ \E d \in Devices : SelectDevice(d) \/ RemovePairing(d)
         \/ \E e \in Endpoints : SelectEndpoint(e)
  PROVE  PresenceInv'
<1>1. /\ UNCHANGED <<live, shown, subscribed, listed, history, chain>>
      /\ stored' \subseteq stored /\ overtaken \subseteq overtaken'
  <2>1. CASE \E d \in Devices : SelectDevice(d)
    <3>1. PICK d \in Devices : SelectDevice(d)
      BY <2>1
    <3>2. d # None
      BY EndpointRegistryAssumption
    <3> QED
      BY <3>1, <3>2 DEF SelectDevice, ActiveDeviceEffects, hostVars, tableVars
  <2>2. CASE \/ FinishRestore \/ RemoveData
             \/ \E d \in Devices : RemovePairing(d)
             \/ \E e \in Endpoints : SelectEndpoint(e)
    BY <2>2 DEF FinishRestore, RemoveData, RemovePairing, SelectEndpoint, hostVars, tableVars, viewVars
  <2> QED
    BY <2>1, <2>2
<1>2. \A e \in Endpoints : Followed(e)' => Followed(e) /\ live'[e] = live[e] /\ shown'[e] = shown[e]
  BY <1>1 DEF Followed
<1> QED
  BY <1>1, <1>2, PresenceStill

LEMMA ListPresence ==
  ASSUME RegistryTypeOK, PresenceInv, NEW device, NEW choice, Lists(device, choice)
  PROVE  PresenceInv'
<1>1. /\ UNCHANGED <<live, stored, history, chain>> /\ subscribed' \in {subscribed, {}}
      /\ overtaken \cup (listed' \ listed) \subseteq overtaken'
      /\ shown' = shown \/ (shown' = Nothing /\ Carried(shown) \subseteq overtaken')
  BY DEF Lists, DevicesListed, Unsubscribed, ActiveDeviceEffects
<1>2. ASSUME NEW e \in Endpoints, Followed(e)'
      PROVE  Followed(e) /\ live'[e] = live[e] /\ shown'[e] = shown[e]
  <2>1. Followed(e) /\ DeviceOf[e] \notin overtaken'
    BY <1>1, <1>2 DEF Followed
  <2>2. shown' # shown => shown[e] = None
    BY <1>1, <2>1, CarriedTyped
  <2> QED
    BY <1>1, <2>1, <2>2 DEF Nothing
<1> QED
  BY <1>1, <1>2, PresenceStill

(* A connection that is lost takes the subscriptions with it.              *)
LEMMA RelayPresence ==
  ASSUME TypeOK, LinkInv, NumbersInv, PresenceInv, Relay \/ Session
  PROVE  PresenceInv'
<1>1. CASE \E d \in Devices : SnapshotArrives(d)
  BY <1>1, SnapshotPresence DEF SnapshotArrives, TypeOK
<1>2. CASE ~(\E d \in Devices : SnapshotArrives(d))
  <2>1. NoViewChange
    BY <1>2 DEF Relay, SocketOpens, ChallengeArrives, RelayCloses, Authenticate, LoseConnection,
                FireRetry, GoOffline, GoOnline, Session, RunSessionEffect, SessionReady, RetrySession,
                SessionEnds
  <2>2. subscribed' = {} \/ (subscribed' = subscribed /\ shown' = shown)
    <3>1. CASE \E b \in BOOLEAN : Authenticate(b)
      <4>1. subscribed = {}
        BY <3>1 DEF Authenticate, LinkInv, Connected
      <4> QED
        BY <3>1, <4>1 DEF Authenticate
    <3>2. CASE ~(\E b \in BOOLEAN : Authenticate(b))
      BY <1>2, <3>2 DEF Relay, SocketOpens, ChallengeArrives, RelayCloses, LoseConnection, FireRetry,
                        GoOffline, GoOnline, Session, RunSessionEffect, SessionReady, RetrySession,
                        SessionEnds, Unsubscribed
    <3> QED
      BY <3>1, <3>2
  <2>3. \A e \in Endpoints : Followed(e)' => Followed(e) /\ live'[e] = live[e] /\ shown'[e] = shown[e]
    BY <2>1, <2>2 DEF Followed, NoViewChange, hostVars, tableVars
  <2> QED
    BY <2>1, <2>3, PresenceStill DEF NoViewChange
<1> QED
  BY <1>1, <1>2

LEMMA NextPresence ==
  ASSUME TypeOK, LinkInv, DialogIsAttempt, RemovalInv, NumbersInv, PresenceInv, [Next]_vars
  PROVE  PresenceInv'
<1>1. RegistryTypeOK /\ PairingTypeOK
  BY DEF TypeOK
<1>2. CASE Hosts
  BY <1>1, <1>2, HostPresence DEF Hosts
<1>3. CASE Registry
  BY <1>1, <1>3, LoadPresence, PersistPresence, SelectionPresence DEF Registry
<1>4. CASE StartRemoval
  BY <1>1, <1>4, SelectionPresence DEF StartRemoval
<1>5. CASE EndRemoval \/ EndPairing
  BY <1>1, <1>5, RemovalLists, PairingLists, ListPresence
<1>6. CASE Relay \/ Session
  BY <1>6, RelayPresence
<1>7. CASE Pairing
  <2>1. /\ UNCHANGED <<live, subscribed, listed, shown, overtaken, history, chain>>
        /\ stored' = stored \/ attempt # None
    BY <1>7 DEF Pairing, OpenDialog, CloseDialog, AttemptFails, PairOk, PairError, Scan,
                SendPairRequest, NoRegistryChange, hostVars, tableVars, viewVars
  <2>2. attempt # None => listed \subseteq stored
    BY DEF DialogIsAttempt, RemovalInv
  <2>3. \A e \in Endpoints : Followed(e)' => Followed(e) /\ live'[e] = live[e] /\ shown'[e] = shown[e]
    BY <2>1, <2>2 DEF Followed
  <2> QED
    BY <2>1, <2>3, PresenceStill
<1>8. CASE UNCHANGED vars
  <2>1. UNCHANGED <<live, subscribed, listed, stored, shown, overtaken, history, chain>>
    BY <1>8 DEF vars, registryVars, hostVars, viewVars, tableVars
  <2> QED
    BY <2>1 DEF PresenceInv, Followed
<1> QED
  BY <1>2, <1>3, <1>4, <1>5, <1>6, <1>7, <1>8 DEF Next

(* use-endpoint-registry.ts: what a subscribed device's endpoints are      *)
(* shown as is what the relay knows of them.                               *)
THEOREM PresenceShown == Spec => []PresenceFollows
<1>1. Init => PresenceInv
  BY DEF Init, RegistryInit, PresenceInv, Followed
<1>2. TypeOK /\ LinkInv /\ DialogIsAttempt /\ RemovalInv /\ NumbersInv /\ PresenceInv /\ [Next]_vars
        => PresenceInv'
  BY NextPresence
<1>3. PresenceInv => PresenceFollows
  <2> SUFFICES ASSUME PresenceInv, NEW e \in Endpoints, chain = <<>>,
                      DeviceOf[e] \in (subscribed \cap listed \cap stored) \ overtaken,
                      ~LearntBackwards(e)
               PROVE  Shows(live[e], shown[e])
    BY DEF PresenceFollows, Shows
  <2>1. Followed(e)
    BY DEF Followed, LearntBackwards, Backwards
  <2>2. Follows(chain, e, DeviceOf[e], live[e], shown[e])
    BY <2>1 DEF PresenceInv
  <2>3. Untouched(chain, DeviceOf[e])
    BY DEF Untouched
  <2> QED
    BY <2>2, <2>3 DEF Follows
<1> QED
  BY <1>1, <1>2, <1>3, PageTypes, LinkHolds, DialogFollows, RemovalHolds, NumbersHold, PTL DEF Spec

=============================================================================
