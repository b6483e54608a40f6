--------------------------- MODULE TimelineProofs ---------------------------
(***************************************************************************)
(* The proof of NothingMissing of PwaSession: whatever is interleaved, once*)
(* everything has arrived the page shows each message of the branch that   *)
(* its oldest page reaches back to.  The invariant says of every event that*)
(* is due, at every moment, where it is (Cover).  It rests on rules for the*)
(* link (LinkInv, in SessionProofs), the session on both sides (SeatInv),  *)
(* the requests and their answers (RequestInv), the cursors (CursorInv),   *)
(* the branch (BranchInv) and the live events (LiveInv), each proved first.*)
(***************************************************************************)
EXTENDS SessionProofs

-----------------------------------------------------------------------------
(* The seat of the Owner at the host: the session and generation of his    *)
(* binding, and of the scope he is in.                                     *)

SeatInv ==
  /\ replaced <=> (~live \/ bridge)
  /\ scope # None => scope.gen <= generation
  /\ \A k \in 1..Len(toPwa) : toPwa[k].type = "ready" => toPwa[k].gen <= generation
  /\ binding # None => binding.gen <= generation
  /\ binding # None /\ ~replaced => binding.session = Current /\ binding.gen = generation
  /\ phase # "online" => assembler = None /\ before = None

(* The session the host is on.                                             *)
SessionRests ==
  UNCHANGED <<live, replaced, bridge, generation>> /\ Len(branches') = Len(branches)

LEMMA SessionNumbers ==
  ASSUME SessionTypes
  PROVE  /\ generation \in Nat /\ Current \in Nat \ {0}
         /\ live \in BOOLEAN /\ replaced \in BOOLEAN /\ bridge \in BOOLEAN
         /\ binding # None => binding.gen \in Nat /\ binding.session \in Nat
         /\ scope # None => scope.gen \in Nat /\ scope.session \in Nat
         /\ \A k \in 1..Len(toPwa) : toPwa[k].type = "ready" => toPwa[k].gen \in Nat
<1>1. generation \in Nat /\ live \in BOOLEAN /\ replaced \in BOOLEAN /\ bridge \in BOOLEAN
  BY DEF SessionTypes, HostTypes, HostTypeOK, SessionTypeOK
<1>2. Current \in Nat \ {0}
  BY CurrentIs DEF SessionTypes
<1>3. binding # None => binding.gen \in Nat /\ binding.session \in Nat
  BY DEF SessionTypes, HostTypes, HostTypeOK, ServiceTypeOK, Optional, Service
<1>4. scope # None => scope.gen \in Nat /\ scope.session \in Nat
  BY DEF SessionTypes, ViewTypeOK, Optional, Scope
<1>5. \A k \in 1..Len(toPwa) : toPwa[k].type = "ready" => toPwa[k].gen \in Nat
  BY QueuesTyped, ServerFields
<1> QED
  BY <1>1, <1>2, <1>3, <1>4, <1>5

(* Where the frames of a queue come from.                                  *)
LEMMA GoesBack ==
  ASSUME NEW q, NEW r, NEW New, Goes(q, r, New), NEW S, r \in Seq(S), NEW i \in 1..Len(r)
  PROVE  (\E j \in 1..Len(q) : r[i] = q[j]) \/ r[i] \in New
<1>1. PICK d, n \in Nat :
        /\ n <= Len(r)
        /\ \A k \in 1..n : k + d \in 1..Len(q) /\ r[k] = q[k + d]
        /\ \A k \in 1..Len(r) : k > n => r[k] \in New
  BY DEF Goes
<1>2. Len(r) \in Nat
  BY LenProperties
<1>3. CASE i > n
  BY <1>1, <1>3
<1>4. CASE ~(i > n)
  <2>1. i \in 1..n
    BY <1>2, <1>4
  <2> QED
    BY <1>1, <2>1
<1> QED
  BY <1>3, <1>4

(* No ready goes out, or one of the service that answers.                  *)
ReadyNow ==
  \A k \in 1..Len(toPwa') : toPwa'[k].type = "ready" =>
    \/ \E l \in 1..Len(toPwa) : toPwa'[k] = toPwa[l]
    \/ toPwa'[k].gen = Server.gen

LEMMA CalmReady ==
  ASSUME SessionTypes', NEW New, New \subseteq NoReady, Goes(toPwa, toPwa', New)
  PROVE  ReadyNow
<1> SUFFICES ASSUME NEW k \in 1..Len(toPwa'), toPwa'[k].type = "ready"
             PROVE  \E l \in 1..Len(toPwa) : toPwa'[k] = toPwa[l]
  BY DEF ReadyNow
<1>1. toPwa' \in Seq(ServerFrame)
  BY QueuesTypedNext
<1>2. toPwa'[k] \notin New
  BY DEF NoReady
<1> QED
  BY <1>1, <1>2, GoesBack

LEMMA ServerGen ==
  ASSUME SessionTypes, SeatInv
  PROVE  Server.gen \in Nat /\ Server.gen <= generation
  BY SessionNumbers DEF SeatInv, Server

LEMMA SeatKept ==
  ASSUME SessionTypes, SeatInv, SessionRests, UNCHANGED pwaVars, ReadyNow,
         \/ SeatStays
         \/ binding'.session = Server.session /\ binding'.gen = Server.gen
  PROVE  SeatInv'
<1>1. UNCHANGED <<scope, phase, assembler, before>>
  BY DEF pwaVars, viewVars, linkVars, transferVars
<1>2. UNCHANGED <<live, replaced, bridge, generation>> /\ Current' = Current
  BY DEF SessionRests, Current
<1>3. generation \in Nat
  BY SessionNumbers
<1>4. binding' # None => binding'.gen <= generation
  BY <1>2, <1>3 DEF SeatInv, SeatStays, Server
<1>5. binding' # None /\ ~replaced => binding'.session = Current /\ binding'.gen = generation
  BY <1>2 DEF SeatInv, SeatStays, Server
<1>6. \A k \in 1..Len(toPwa') : toPwa'[k].type = "ready" => toPwa'[k].gen <= generation
  BY <1>3, ServerGen DEF SeatInv, ReadyNow
<1> QED
  BY <1>1, <1>2, <1>4, <1>5, <1>6 DEF SeatInv
LEMMA HostSessions ==
  ASSUME SessionTypes, SessionTypes', HostNext
  PROVE  \/ SessionRests
         \/ ShutdownSession \/ StartSession \/ EndBridge \/ MoveInTree
<1>1. branches \in Seq(Seq(Entry)) /\ branches' \in Seq(Seq(Entry))
  BY DEF SessionTypes, HostTypes, HostTypeOK, SessionTypeOK
<1>2. ASSUME NEW entry, AppendEntry(entry)
      PROVE  Len(branches') = Len(branches)
  <2>1. DOMAIN branches' = DOMAIN branches
    BY <1>2 DEF AppendEntry
  <2> QED
    BY <1>1, <2>1, LenProperties
<1>3. CASE StartRun \/ Steer \/ \E role \in Roles : Speak(role)
  <2>1. \E role, corr, earlier : OnMessageStart(role, corr, earlier)
    BY <1>3 DEF StartRun, Steer, Speak
  <2>2. UNCHANGED <<live, replaced, bridge, generation>> /\ \E entry : AppendEntry(entry)
    BY <2>1 DEF OnMessageStart
  <2> QED
    BY <1>2, <2>2 DEF SessionRests
<1>4. CASE EndMessage \/ \E type \in {"custom", "custom_message", "compaction"} : WriteEntry(type)
  <2>1. UNCHANGED <<live, replaced, bridge, generation>> /\ \E entry : AppendEntry(entry)
    BY <1>4 DEF EndMessage, WriteEntry
  <2> QED
    BY <1>2, <2>1 DEF SessionRests
<1>5. CASE Stream \/ EndRun \/ Publish \/ TypePrompt \/ ReconnectHost \/ ExpireRecord \/ HostReceives
  <2>1. UNCHANGED sessionVars
    BY <1>5 DEF Stream, EndRun, Publish, TypePrompt, ReconnectHost, ExpireRecord, HostReceives
  <2> QED
    BY <2>1 DEF SessionRests, sessionVars
<1> QED
  BY <1>3, <1>4, <1>5 DEF HostNext

LEMMA FinishSeats ==
  ASSUME SessionTypes, NEW session, FinishSessionReplacement(session)
  PROVE  replaced' = FALSE /\ (binding' = None \/ (~replaced /\ binding' = binding))
<1>1. replaced' = FALSE /\ binding' = IF replaced THEN None ELSE binding
  BY DEF FinishSessionReplacement
<1> QED
  BY <1>1

(* Another session, another generation.                                    *)
LEMMA SessionSeats ==
  ASSUME SessionTypes, SessionTypes', SeatInv, UNCHANGED pwaVars, ReadyNow,
         ShutdownSession \/ StartSession \/ EndBridge \/ MoveInTree
  PROVE  SeatInv'
<1>1. UNCHANGED <<scope, phase, assembler, before>>
  BY DEF pwaVars, viewVars, linkVars, transferVars
<1>2. /\ generation \in Nat /\ live \in BOOLEAN /\ replaced \in BOOLEAN /\ bridge \in BOOLEAN
      /\ binding # None => binding.gen \in Nat
      /\ scope # None => scope.gen \in Nat
      /\ \A k \in 1..Len(toPwa) : toPwa[k].type = "ready" => toPwa[k].gen \in Nat
  BY SessionNumbers
<1>3. /\ generation' \in {generation, generation + 1}
      /\ (replaced <=> (~live \/ bridge))'
      /\ binding' # None => binding'.gen <= generation'
      /\ binding' # None /\ ~replaced' => binding'.session = Current' /\ binding'.gen = generation'
  <2>1. CASE ShutdownSession
    <3>1. /\ UNCHANGED <<generation, binding>> /\ live' = FALSE /\ replaced' = TRUE
      BY <2>1 DEF ShutdownSession, serviceVars
    <3> QED
      BY <3>1 DEF SeatInv
  <2>2. CASE StartSession
    <3>1. /\ ~live /\ live' = TRUE /\ generation' = generation + 1 /\ UNCHANGED bridge
          /\ IF bridge THEN UNCHANGED <<replaced, binding>>
                       ELSE FinishSessionReplacement(Current)
      BY <2>2 DEF StartSession
    <3>2. replaced
      BY <3>1 DEF SeatInv
    <3>3. CASE bridge
      BY <1>2, <3>1, <3>2, <3>3 DEF SeatInv
    <3>4. CASE ~bridge
      <4>1. replaced' = FALSE /\ binding' = None
        BY <3>1, <3>2, <3>4, FinishSeats
      <4> QED
        BY <1>2, <3>1, <3>4, <4>1
    <3> QED
      BY <3>3, <3>4
  <2>3. CASE EndBridge
    <3>1. /\ bridge /\ live /\ bridge' = FALSE /\ UNCHANGED <<live, generation>>
          /\ FinishSessionReplacement(Current - 1)
      BY <2>3 DEF EndBridge
    <3>2. replaced
      BY <3>1 DEF SeatInv
    <3>3. replaced' = FALSE /\ binding' = None
      BY <3>1, <3>2, FinishSeats
    <3> QED
      BY <3>1, <3>3
  <2>4. CASE MoveInTree
    <3>1. /\ UNCHANGED <<live, replaced, bridge>> /\ generation' = generation + 1
          /\ \E b : branches' = [branches EXCEPT ![Current] = b]
          /\ IF binding = None THEN UNCHANGED binding
             ELSE binding' = [binding EXCEPT !.gen = generation + 1, !.records = <<>>]
      BY <2>4 DEF MoveInTree
    <3>2. Current' = Current
      <4>1. branches \in Seq(Seq(Entry)) /\ branches' \in Seq(Seq(Entry))
        BY DEF SessionTypes, HostTypes, HostTypeOK, SessionTypeOK
      <4>2. DOMAIN branches' = DOMAIN branches
        BY <3>1
      <4> QED
        BY <4>1, <4>2, LenProperties DEF Current
    <3>3. binding' # None =>
            binding # None /\ binding'.gen = generation + 1 /\ binding'.session = binding.session
      <4> SUFFICES ASSUME binding' # None
                   PROVE  /\ binding # None /\ binding'.gen = generation + 1
                          /\ binding'.session = binding.session
        OBVIOUS
      <4>1. binding # None
        BY <3>1
      <4>2. binding \in Service
        BY <4>1 DEF SessionTypes, HostTypes, HostTypeOK, ServiceTypeOK, Optional
      <4>3. PICK none : binding' = [binding EXCEPT !.gen = generation + 1, !.records = none]
        BY <3>1, <4>1
      <4> QED
        BY <4>1, <4>2, <4>3 DEF Service
    <3> QED
      BY <1>2, <3>1, <3>2, <3>3 DEF SeatInv
  <2> QED
    BY <2>1, <2>2, <2>3, <2>4
<1>4. generation <= generation' /\ generation' \in Nat
  BY <1>2, <1>3
<1>5. scope' # None => scope'.gen <= generation'
  BY <1>1, <1>2, <1>4 DEF SeatInv
<1>6. \A k \in 1..Len(toPwa') : toPwa'[k].type = "ready" => toPwa'[k].gen <= generation'
  <2> SUFFICES ASSUME NEW k \in 1..Len(toPwa'), toPwa'[k].type = "ready"
               PROVE  toPwa'[k].gen <= generation'
    OBVIOUS
  <2>1. CASE \E l \in 1..Len(toPwa) : toPwa'[k] = toPwa[l]
    BY <1>2, <1>4, <2>1 DEF SeatInv
  <2>2. CASE toPwa'[k].gen = Server.gen
    BY <1>2, <1>4, <2>2, ServerGen
  <2> QED
    BY <2>1, <2>2 DEF ReadyNow
<1> QED
  BY <1>1, <1>3, <1>5, <1>6 DEF SeatInv
LEMMA HostCases ==
  ASSUME HostTypes, HostNext
  PROVE  \/ HostMoves(News)
         \/ ReconnectHost /\ HostReconnects
         \/ HostReceives /\ HostServes
<1>1. HostMoves(Words) => HostMoves(News)
  <2>1. Words \subseteq News
    BY DEF Words, News
  <2> QED
    BY <2>1, AddsMore DEF HostMoves
<1>2. CASE StartRun \/ Steer \/ \E role \in Roles : Speak(role)
  BY <1>1, <1>2, MessagesMove
<1>3. CASE Stream
  BY <1>1, <1>3, StreamMoves
<1>4. CASE \/ EndMessage \/ EndRun \/ TypePrompt \/ ShutdownSession
           \/ \E type \in {"custom", "custom_message", "compaction"} : WriteEntry(type)
  BY <1>1, <1>4, OthersMove
<1>5. CASE StartSession \/ EndBridge
  BY <1>1, <1>5, SessionsMove
<1>6. CASE MoveInTree
  BY <1>1, <1>6, MoveInTreeMoves
<1>7. CASE ExpireRecord
  BY <1>1, <1>7, ExpireMoves
<1>8. CASE Publish
  BY <1>8, PublishMoves
<1>9. CASE ReconnectHost
  BY <1>9, ReconnectIs
<1>10. CASE HostReceives
  BY <1>10, ReceivesServes
<1> QED
  BY <1>2, <1>3, <1>4, <1>5, <1>6, <1>7, <1>8, <1>9, <1>10 DEF HostNext

LEMMA MovesReady ==
  ASSUME SessionTypes, SessionTypes', HostMoves(News)
  PROVE  ReadyNow
<1>1. News \in SUBSET ServerFrame /\ News \subseteq NoReady
  BY DEF News, NoReady
<1>2. HostTypes /\ Adds(News)
  BY DEF HostMoves, SessionTypes
<1>3. Goes(toPwa, toPwa', News)
  BY <1>1, <1>2, AddsGoes
<1> QED
  BY <1>1, <1>3, CalmReady

LEMMA PageSeated ==
  ASSUME NEW b \in Service, NEW rid, NEW prefix, NEW position, Page(b, rid, prefix, position)
  PROVE  Seated(b)
<1>1. PICK cursors : binding' = [b EXCEPT !.cursors = cursors]
  BY DEF Page
<1> QED
  BY <1>1 DEF Seated, Service

LEMMA SyncSeated ==
  ASSUME HostTypes, NEW b, Serviceable(b), NEW f \in ClientFrame, f.type = "sync", Sync(b, f)
  PROVE  Seated(b)
<1>1. b \in Service /\ Spent(b, f) \in Service
      /\ Spent(b, f).session = b.session /\ Spent(b, f).gen = b.gen /\ Spent(b, f).ready = b.ready
  BY SpentIs DEF Serviceable
<1>2. CASE HeadPage(b, f)
  BY <1>1, <1>2, PageSeated DEF HeadPage
<1>3. CASE NoPage(b, f)
  BY <1>3, NoPageMinor
<1>4. CASE \E c \in b.cursors : OlderPage(b, f, c)
  <2>1. Seated(Spent(b, f))
    BY <1>1, <1>4, PageSeated DEF OlderPage
  <2> QED
    BY <1>1, <2>1 DEF Seated
<1> QED
  BY <1>2, <1>3, <1>4, SyncCases

(* A binding that serves is seated as it was, or as a new one.             *)
LEMMA ServesSeated ==
  ASSUME SessionTypes, SessionTypes', HostReceives, HostServes
  PROVE  /\ ReadyNow /\ UNCHANGED sessionVars
         /\ UNCHANGED binding \/ (binding'.session = Server.session /\ binding'.gen = Server.gen)
<1>1. PICK b, f : b = Server /\ f = Head(toHost)
  OBVIOUS
<1>2. UNCHANGED sessionVars /\ Serves(b, f) /\ f \in ClientFrame /\ HostTypes
  BY <1>1 DEF HostServes, HostReceives, SessionTypes
<1>3. Serviceable(b) /\ b \in Service
  BY <1>1, <1>2, ServerTyped DEF Serviceable
<1>4. NoReady \in SUBSET ServerFrame /\ Words \subseteq NoReady
  BY DEF Words, NoReady
<1>5. Adds(NoReady) => ReadyNow
  <2> SUFFICES ASSUME Adds(NoReady)
               PROVE  ReadyNow
    OBVIOUS
  <2>1. Goes(toPwa, toPwa', NoReady)
    BY <1>2, <1>4, AddsGoes
  <2> QED
    BY <2>1, CalmReady
<1>6. CASE UNCHANGED <<binding, toPwa>>
  BY <1>2, <1>6 DEF ReadyNow
<1>7. CASE Hello(b, f)
  <2>1. PICK word : word = [type |-> "ready", session |-> b.session, gen |-> b.gen, rid |-> f.rid]
    OBVIOUS
  <2>2. binding' = [b EXCEPT !.ready = TRUE] /\ Post(<<word>>) /\ word.gen = b.gen
    BY <1>7, <2>1 DEF Hello
  <2>3. \A k \in 1..Len(toPwa') : (\E l \in 1..Len(toPwa) : toPwa'[k] = toPwa[l])
                                   \/ toPwa'[k] = word
    BY <2>2, QueuesTyped DEF Post
  <2>4. ReadyNow
    BY <1>1, <2>2, <2>3 DEF ReadyNow
  <2>5. binding'.session = b.session /\ binding'.gen = b.gen
    BY <1>3, <2>2 DEF Service
  <2> QED
    BY <1>1, <1>2, <2>4, <2>5
<1>8. CASE Minor(b)
  <2>1. Adds(NoReady)
    BY <1>4, <1>8, AddsMore DEF Minor
  <2> QED
    BY <1>1, <1>2, <1>5, <1>8, <2>1 DEF Minor, Seated
<1>9. CASE f.type = "sync" /\ Sync(b, f)
  <2>1. Adds(NoReady)
    BY <1>2, <1>3, <1>9, SyncAdds
  <2>2. Seated(b)
    BY <1>2, <1>3, <1>9, SyncSeated
  <2> QED
    BY <1>1, <1>2, <1>5, <2>1, <2>2 DEF Seated
<1> QED
  BY <1>2, <1>6, <1>7, <1>8, <1>9 DEF Serves

LEMMA HostKeepsSeat ==
  ASSUME SessionTypes, SessionTypes', SeatInv, HostNext, UNCHANGED pwaVars
  PROVE  SeatInv'
<1>1. CASE HostMoves(News)
  <2>1. ReadyNow /\ SeatStays
    BY <1>1, MovesReady DEF HostMoves
  <2> QED
    BY <2>1, HostSessions, SeatKept, SessionSeats
<1>2. CASE ReconnectHost /\ HostReconnects
  <2>1. Goes(toPwa, toPwa', Words) /\ SeatStays
    BY <1>2 DEF HostReconnects, SeatStays
  <2>2. Words \subseteq NoReady
    BY DEF Words, NoReady
  <2>3. SessionRests
    BY <1>2 DEF ReconnectHost, SessionRests, sessionVars
  <2> QED
    BY <2>1, <2>2, <2>3, CalmReady, SeatKept
<1>3. CASE HostReceives /\ HostServes
  <2>1. ReadyNow /\ SessionRests
    BY <1>3, ServesSeated DEF SessionRests, sessionVars
  <2> QED
    BY <1>3, <2>1, ServesSeated, SeatUnchanged, SeatKept
<1> QED
  BY <1>1, <1>2, <1>3, HostCases DEF SessionTypes
(* What comes to the page in its steps was on its way.                     *)
LEMMA PageQueue ==
  ASSUME SessionTypes, PageActs
  PROVE  toPwa' \in Seq(ServerFrame) /\ Goes(toPwa, toPwa', {})
<1>1. PICK q : q = toPwa
  OBVIOUS
<1>2. q \in Seq(ServerFrame)
  BY <1>1, QueuesTyped
<1>3. CASE toPwa' = toPwa
  BY <1>1, <1>2, <1>3, GoesSame
<1>4. CASE toPwa # <<>> /\ toPwa' = Tail(toPwa)
  <2>1. Tail(q) \in Seq(ServerFrame)
    BY <1>1, <1>2, <1>4, HeadTailProperties
  <2> QED
    BY <1>1, <1>2, <1>4, <2>1, GoesTail
<1>5. CASE LoseLink
  <2> DEFINE none == <<>>
  <2>1. toPwa' = none /\ none \in Seq(ServerFrame) /\ Len(none) = 0
    BY <1>5, EmptySeq DEF LoseLink
  <2> HIDE DEF none
  <2>2. Goes(toPwa, none, {})
    BY <2>1 DEF Goes
  <2> QED
    BY <2>1, <2>2
<1>6. CASE StartsAnew
  BY <1>6 DEF StartsAnew
<1>7. CASE Connect \/ LoadEarlier
  BY <1>3, <1>7 DEF Connect, LoadEarlier
<1>8. CASE Enters \/ Hears
  BY <1>4, <1>8 DEF Enters, Hears
<1>9. CASE RunTransaction
  BY <1>3, <1>9, TransactionTalks
<1>10. CASE \E r \in Requests : SendMessage(r) \/ RetryUnknown(r)
  BY <1>3, <1>10, UserTalks
<1> QED
  BY <1>5, <1>6, <1>7, <1>8, <1>9, <1>10 DEF PageActs

LEMMA TransferSettled ==
  ASSUME SessionTypes, SeatInv, PageActs
  PROVE  (phase # "online" => assembler = None /\ before = None)'
<1>1. phase # "online" => assembler = None /\ before = None
  BY DEF SeatInv
<1>2. CASE Connect
  BY <1>1, <1>2 DEF Connect, transferVars
<1>3. CASE LoseLink
  BY <1>3 DEF LoseLink, ClearTransfer
<1>4. CASE StartsAnew
  BY <1>4 DEF StartsAnew, Rejoin, ClearTransfer
<1>5. CASE Enters
  BY <1>5 DEF Enters, EnterScope
<1>6. CASE Hears
  <2>1. UNCHANGED phase
    BY <1>6, HearsTalks DEF Talks
  <2>2. UNCHANGED <<assembler, before>> \/ assembler # None
    <3>1. CASE UNCHANGED pwaVars
      BY <3>1 DEF pwaVars, transferVars
    <3>2. CASE Expected(Head(toPwa)) /\ Take(Head(toPwa)) /\ Head(toPwa).type # "ready"
      <4>1. CASE Head(toPwa).type = "chunk"
        BY <3>2, <4>1 DEF Expected
      <4>2. CASE Head(toPwa).type # "chunk"
        BY <3>2, <4>2 DEF Take, ReceiveEvent, ReceiveFragment, transferVars
      <4> QED
        BY <4>1, <4>2
    <3> QED
      BY <1>6, <3>1, <3>2 DEF Hears
  <2> QED
    BY <1>1, <2>1, <2>2
<1>7. CASE LoadEarlier
  BY <1>7 DEF LoadEarlier
<1>8. CASE RunTransaction
  BY <1>1, <1>8 DEF RunTransaction, transferVars, linkVars
<1>9. CASE \E r \in Requests : SendMessage(r) \/ RetryUnknown(r)
  <2>1. UNCHANGED <<phase, transferVars>>
    BY <1>9, UserTalks DEF Talks
  <2> QED
    BY <1>1, <2>1 DEF transferVars
<1> QED
  BY <1>2, <1>3, <1>4, <1>5, <1>6, <1>7, <1>8, <1>9 DEF PageActs

(* The scope stays, goes, or is what the host has just said.               *)
LEMMA ScopeMoves ==
  ASSUME SessionTypes, PageActs
  PROVE  scope' \in {None, scope} \/ (Enters /\ scope' = [session |-> Head(toPwa).session,
                                                         gen |-> Head(toPwa).gen])
<1>1. CASE Connect
  BY <1>1 DEF Connect, viewVars
<1>2. CASE LoseLink
  BY <1>2 DEF LoseLink
<1>3. CASE StartsAnew
  BY <1>3 DEF StartsAnew, Rejoin
<1>4. CASE Enters
  BY <1>4 DEF Enters, EnterScope, SetScope
<1>5. CASE Hears
  BY <1>5, HearsTalks DEF Talks
<1>6. CASE LoadEarlier
  BY <1>6 DEF LoadEarlier, viewVars
<1>7. CASE RunTransaction
  BY <1>7, TransactionTalks DEF Talks
<1>8. CASE \E r \in Requests : SendMessage(r) \/ RetryUnknown(r)
  BY <1>8, UserTalks DEF Talks
<1> QED
  BY <1>1, <1>2, <1>3, <1>4, <1>5, <1>6, <1>7, <1>8 DEF PageActs

LEMMA HostSideIs ==
  ASSUME UNCHANGED hostSide
  PROVE  /\ UNCHANGED <<branches, live, replaced, bridge, generation, minted>>
         /\ UNCHANGED <<sdk, inbox, rt, ended, strayed, binding, bound, called, lapsed>>
  BY DEF hostSide, sessionVars, piVars, runtimeVars, serviceVars

LEMMA PageKeepsSeat ==
  ASSUME SessionTypes, SessionTypes', SeatInv, PageActs, UNCHANGED hostSide
  PROVE  SeatInv'
<1>1. UNCHANGED <<branches, live, replaced, bridge, generation, binding>>
  BY HostSideIs
<1>2. /\ toPwa \in Seq(ServerFrame) /\ toPwa' \in Seq(ServerFrame)
      /\ \A k \in 1..Len(toPwa') : \E l \in 1..Len(toPwa) : toPwa'[k] = toPwa[l]
  <2>1. toPwa' \in Seq(ServerFrame) /\ Goes(toPwa, toPwa', {})
    BY PageQueue
  <2> QED
    BY <2>1, QueuesTyped, GoesBack
<1>3. scope' # None => scope'.gen <= generation
  <2>1. CASE scope' \in {None, scope}
    BY <2>1 DEF SeatInv
  <2>2. CASE Enters /\ scope' = [session |-> Head(toPwa).session, gen |-> Head(toPwa).gen]
    <3>1. Head(toPwa) = toPwa[1] /\ 1 \in 1..Len(toPwa) /\ Head(toPwa).type = "ready"
      BY <1>2, <2>2, HeadTailProperties, EmptySeq, LenProperties DEF Enters
    <3> QED
      BY <2>2, <3>1 DEF SeatInv
  <2> QED
    BY <2>1, <2>2, ScopeMoves
<1>4. \A k \in 1..Len(toPwa') : toPwa'[k].type = "ready" => toPwa'[k].gen <= generation
  BY <1>2 DEF SeatInv
<1>5. (phase # "online" => assembler = None /\ before = None)'
  BY TransferSettled
<1>6. Current' = Current
  BY <1>1 DEF Current
<1> QED
  BY <1>1, <1>3, <1>4, <1>5, <1>6 DEF SeatInv

(* No step breaks what binding and page know of the session.               *)
LEMMA NextSeat ==
  ASSUME SessionTypes, SessionTypes', LinkInv, SeatInv, [Next]_vars
  PROVE  SeatInv'
<1>1. CASE UNCHANGED vars
  BY <1>1 DEF SeatInv, vars, hostVars, sessionVars, serviceVars, netVars, viewVars, linkVars,
              transferVars, Current
<1> QED
  BY <1>1, Steps, HostKeepsSeat, PageKeepsSeat

LEMMA InitSeat ==
  ASSUME Init
  PROVE  SeatInv
<1>1. Len(toPwa) = 0
  BY DEF Init, HostInit
<1> QED
  BY <1>1 DEF Init, HostInit, SeatInv

-----------------------------------------------------------------------------
(* The requests for pages and their answers: each is asked once, and its   *)
(* answer is whole and comes after it was taken.                           *)

Requested ==
  /\ \A i \in 1..Len(toHost) : toHost[i].type = "sync" => toHost[i].rid <= rids
  /\ \A i, j \in 1..Len(toHost) :
       i < j /\ toHost[i].type = "sync" /\ toHost[j].type = "sync" =>
         toHost[i].rid < toHost[j].rid
  /\ \A k \in 1..Len(toPwa) : toPwa[k].type = "chunk" =>
       /\ toPwa[k].rid <= rids
       /\ \A i \in 1..Len(toHost) : toHost[i].type = "sync" => toPwa[k].rid # toHost[i].rid
       /\ \A l \in 1..Len(toPwa) :
            toPwa[l].type = "chunk" /\ toPwa[l].rid = toPwa[k].rid /\ k < l => ~toPwa[k].final

Gathering ==
  assembler # None =>
    /\ assembler.rid <= rids
    /\ \A i \in 1..Len(toHost) :
         toHost[i].type = "sync" /\ toHost[i].rid = assembler.rid => assembler.chunks = {}
    /\ \A c \in assembler.chunks : c.rid = assembler.rid
    /\ \A c \in assembler.chunks : c.final =>
         \A k \in 1..Len(toPwa) : toPwa[k].type = "chunk" => toPwa[k].rid # assembler.rid

RequestInv == Requested /\ Gathering

NoSync == {f \in ClientFrame : f.type # "sync"}

NoChunk == {f \in ServerFrame : f.type # "chunk"}

Lacks(New, type) == \A x \in New : x.type # type

(* The frames of type T in r are there, in their order, from q.            *)
Keeps(q, r, T) ==
  \E d \in Nat : \A i \in 1..Len(r) : r[i].type = T => i + d \in 1..Len(q) /\ r[i] = q[i + d]

(* The frames of a type of which none is new come from the queue before.   *)
LEMMA GoesKept ==
  ASSUME NEW q, NEW r, NEW New, Goes(q, r, New), NEW S, r \in Seq(S),
         NEW T, Lacks(New, T)
  PROVE  Keeps(q, r, T)
<1>1. PICK d, n \in Nat :
        /\ n <= Len(r)
        /\ \A k \in 1..n : k + d \in 1..Len(q) /\ r[k] = q[k + d]
        /\ \A k \in 1..Len(r) : k > n => r[k] \in New
  BY DEF Goes
<1>2. Len(r) \in Nat
  BY LenProperties
<1>3. \A i \in 1..Len(r) : r[i].type = T => i \in 1..n
  BY <1>1, <1>2 DEF Lacks
<1> QED
  BY <1>1, <1>3 DEF Keeps

LEMMA RidsTyped ==
  ASSUME SessionTypes
  PROVE  /\ rids \in Nat /\ Len(toHost) \in Nat /\ Len(toPwa) \in Nat
         /\ \A i \in 1..Len(toHost) : toHost[i].rid \in Nat
         /\ \A k \in 1..Len(toPwa) : toPwa[k].type = "chunk" => toPwa[k] \in Chunk /\ toPwa[k].rid \in Nat
         /\ assembler # None => assembler \in Assembler /\ assembler.rid \in Nat
                                /\ assembler.chunks \in SUBSET Chunk
<1>1. assembler # None => assembler \in Assembler
  BY DEF SessionTypes, TransferTypeOK, Optional
<1> QED
  BY <1>1, QueuesTyped, ServerFields DEF Assembler

LEMMA RidsTypedNext ==
  ASSUME SessionTypes'
  PROVE  /\ rids' \in Nat /\ Len(toHost') \in Nat /\ Len(toPwa') \in Nat
         /\ toHost' \in Seq(ClientFrame) /\ toPwa' \in Seq(ServerFrame)
         /\ \A i \in 1..Len(toHost') : toHost'[i].rid \in Nat
         /\ \A k \in 1..Len(toPwa') :
              toPwa'[k].type = "chunk" => toPwa'[k] \in Chunk /\ toPwa'[k].rid \in Nat
  BY QueuesTypedNext, ServerFields

(* The queues of a step that asks for no page and brings none.             *)
QueuesCalm ==
  /\ Goes(toHost, toHost', NoSync) /\ Goes(toPwa, toPwa', NoChunk)
  /\ rids' \in {rids, rids + 1}

(* Where the requests and the chunks come from then.                       *)
Drawn ==
  /\ \E d \in Nat : \A i \in 1..Len(toHost') : toHost'[i].type = "sync" =>
       \E j \in 1..Len(toHost) : j = i + d /\ toHost'[i] = toHost[j] /\ toHost[j].rid \in Nat
  /\ \E e \in Nat : \A k \in 1..Len(toPwa') : toPwa'[k].type = "chunk" =>
       \E l \in 1..Len(toPwa) : l = k + e /\ toPwa'[k] = toPwa[l] /\ toPwa[l].rid \in Nat

LEMMA CalmDraws ==
  ASSUME SessionTypes, SessionTypes', QueuesCalm
  PROVE  Drawn
<1>1. PICK d \in Nat : \A i \in 1..Len(toHost') : toHost'[i].type = "sync" =>
         i + d \in 1..Len(toHost) /\ toHost'[i] = toHost[i + d]
  <2>1. Lacks(NoSync, "sync")
    BY DEF NoSync, Lacks
  <2>2. toHost' \in Seq(ClientFrame) /\ Goes(toHost, toHost', NoSync)
    BY RidsTypedNext DEF QueuesCalm
  <2>3. Keeps(toHost, toHost', "sync")
    BY <2>1, <2>2, GoesKept
  <2> QED
    BY <2>3 DEF Keeps
<1>2. PICK e \in Nat : \A i \in 1..Len(toPwa') : toPwa'[i].type = "chunk" =>
         i + e \in 1..Len(toPwa) /\ toPwa'[i] = toPwa[i + e]
  <2>1. Lacks(NoChunk, "chunk")
    BY DEF NoChunk, Lacks
  <2>2. toPwa' \in Seq(ServerFrame) /\ Goes(toPwa, toPwa', NoChunk)
    BY RidsTypedNext DEF QueuesCalm
  <2>3. Keeps(toPwa, toPwa', "chunk")
    BY <2>1, <2>2, GoesKept
  <2> QED
    BY <2>3 DEF Keeps
<1>4. \A i \in 1..Len(toHost') : toHost'[i].type = "sync" =>
        \E j \in 1..Len(toHost) : j = i + d /\ toHost'[i] = toHost[j] /\ toHost[j].rid \in Nat
  BY <1>1, RidsTyped
<1>5. \A k \in 1..Len(toPwa') : toPwa'[k].type = "chunk" =>
        \E l \in 1..Len(toPwa) : l = k + e /\ toPwa'[k] = toPwa[l] /\ toPwa[l].rid \in Nat
  BY <1>2, RidsTyped
<1> QED
  BY <1>4, <1>5 DEF Drawn

LEMMA CalmKeepsRequested ==
  ASSUME SessionTypes, SessionTypes', Requested, QueuesCalm
  PROVE  Requested'
<1>1. PICK d \in Nat : \A i \in 1..Len(toHost') : toHost'[i].type = "sync" =>
        \E j \in 1..Len(toHost) : j = i + d /\ toHost'[i] = toHost[j] /\ toHost[j].rid \in Nat
  BY CalmDraws DEF Drawn
<1>2. PICK e \in Nat : \A k \in 1..Len(toPwa') : toPwa'[k].type = "chunk" =>
        \E l \in 1..Len(toPwa) : l = k + e /\ toPwa'[k] = toPwa[l] /\ toPwa[l].rid \in Nat
  BY CalmDraws DEF Drawn
<1>3. /\ rids \in Nat /\ rids' \in Nat /\ rids <= rids'
  BY RidsTyped, RidsTypedNext DEF QueuesCalm
<1>4. \A i \in 1..Len(toHost') : toHost'[i].type = "sync" =>
        \E j \in 1..Len(toHost) : j = i + d /\ toHost'[i] = toHost[j] /\ toHost[j].rid \in Nat
  BY <1>1
<1>5. \A k \in 1..Len(toPwa') : toPwa'[k].type = "chunk" =>
        \E l \in 1..Len(toPwa) : l = k + e /\ toPwa'[k] = toPwa[l] /\ toPwa[l].rid \in Nat
  BY <1>2
<1>6. \A i \in 1..Len(toHost') : toHost'[i].type = "sync" => toHost'[i].rid <= rids'
  <2> SUFFICES ASSUME NEW i \in 1..Len(toHost'), toHost'[i].type = "sync"
               PROVE  toHost'[i].rid <= rids'
    OBVIOUS
  <2>1. PICK j \in 1..Len(toHost) : toHost'[i] = toHost[j] /\ toHost[j].rid \in Nat
    BY <1>4
  <2>2. toHost[j].rid <= rids
    BY <2>1 DEF Requested
  <2> QED
    BY <1>3, <2>1, <2>2
<1>7. \A i, j \in 1..Len(toHost') :
       i < j /\ toHost'[i].type = "sync" /\ toHost'[j].type = "sync" =>
         toHost'[i].rid < toHost'[j].rid
  <2> SUFFICES ASSUME NEW i \in 1..Len(toHost'), NEW j \in 1..Len(toHost'), i < j,
                      toHost'[i].type = "sync", toHost'[j].type = "sync"
               PROVE  toHost'[i].rid < toHost'[j].rid
    OBVIOUS
  <2>1. PICK m \in 1..Len(toHost) : m = i + d /\ toHost'[i] = toHost[m]
    BY <1>4
  <2>2. PICK n \in 1..Len(toHost) : n = j + d /\ toHost'[j] = toHost[n]
    BY <1>4
  <2>3. m < n
    BY <2>1, <2>2
  <2> QED
    BY <2>1, <2>2, <2>3 DEF Requested
<1>8. \A k \in 1..Len(toPwa') : toPwa'[k].type = "chunk" =>
       /\ toPwa'[k].rid <= rids'
       /\ \A i \in 1..Len(toHost') : toHost'[i].type = "sync" => toPwa'[k].rid # toHost'[i].rid
       /\ \A l \in 1..Len(toPwa') :
            toPwa'[l].type = "chunk" /\ toPwa'[l].rid = toPwa'[k].rid /\ k < l => ~toPwa'[k].final
  <2> SUFFICES ASSUME NEW k \in 1..Len(toPwa'), toPwa'[k].type = "chunk"
               PROVE  /\ toPwa'[k].rid <= rids'
                      /\ \A i \in 1..Len(toHost') :
                           toHost'[i].type = "sync" => toPwa'[k].rid # toHost'[i].rid
                      /\ \A l \in 1..Len(toPwa') :
                           toPwa'[l].type = "chunk" /\ toPwa'[l].rid = toPwa'[k].rid /\ k < l =>
                             ~toPwa'[k].final
    OBVIOUS
  <2>1. PICK m \in 1..Len(toPwa) : m = k + e /\ toPwa'[k] = toPwa[m] /\ toPwa[m].rid \in Nat
    BY <1>5
  <2>2. /\ toPwa[m].rid <= rids
        /\ \A i \in 1..Len(toHost) : toHost[i].type = "sync" => toPwa[m].rid # toHost[i].rid
        /\ \A l \in 1..Len(toPwa) :
             toPwa[l].type = "chunk" /\ toPwa[l].rid = toPwa[m].rid /\ m < l => ~toPwa[m].final
    BY <2>1 DEF Requested
  <2>3. \A i \in 1..Len(toHost') : toHost'[i].type = "sync" => toPwa'[k].rid # toHost'[i].rid
    BY <1>4, <2>1, <2>2
  <2>4. ASSUME NEW l \in 1..Len(toPwa'), toPwa'[l].type = "chunk",
               toPwa'[l].rid = toPwa'[k].rid, k < l
        PROVE  ~toPwa'[k].final
    <3>1. PICK n \in 1..Len(toPwa) : n = l + e /\ toPwa'[l] = toPwa[n]
      BY <1>5, <2>4
    <3>2. m < n
      BY <2>1, <2>4, <3>1
    <3> QED
      BY <2>1, <2>2, <2>4, <3>1, <3>2
  <2> QED
    BY <1>3, <2>1, <2>2, <2>3, <2>4
<1> QED
  BY <1>6, <1>7, <1>8 DEF Requested

(* The assembler takes nothing more.                                       *)
GathersNoMore ==
  \/ assembler' = None
  \/ /\ assembler # None /\ assembler'.rid = assembler.rid
     /\ assembler'.chunks \subseteq assembler.chunks

LEMMA CalmKeepsRequests ==
  ASSUME SessionTypes, SessionTypes', RequestInv, QueuesCalm, GathersNoMore
  PROVE  RequestInv'
<1>1. PICK d \in Nat : \A i \in 1..Len(toHost') : toHost'[i].type = "sync" =>
        \E j \in 1..Len(toHost) : j = i + d /\ toHost'[i] = toHost[j] /\ toHost[j].rid \in Nat
  BY CalmDraws DEF Drawn
<1>2. PICK e \in Nat : \A k \in 1..Len(toPwa') : toPwa'[k].type = "chunk" =>
        \E l \in 1..Len(toPwa) : l = k + e /\ toPwa'[k] = toPwa[l] /\ toPwa[l].rid \in Nat
  BY CalmDraws DEF Drawn
<1>3. /\ rids \in Nat /\ rids' \in Nat /\ rids <= rids'
  BY RidsTyped, RidsTypedNext DEF QueuesCalm
<1>9. assembler' # None =>
       /\ assembler'.rid <= rids'
       /\ \A i \in 1..Len(toHost') :
            toHost'[i].type = "sync" /\ toHost'[i].rid = assembler'.rid => assembler'.chunks = {}
       /\ \A c \in assembler'.chunks : c.rid = assembler'.rid
       /\ \A c \in assembler'.chunks : c.final =>
            \A k \in 1..Len(toPwa') : toPwa'[k].type = "chunk" => toPwa'[k].rid # assembler'.rid
  <2> SUFFICES ASSUME assembler' # None
               PROVE  /\ assembler'.rid <= rids'
                      /\ \A i \in 1..Len(toHost') :
                           toHost'[i].type = "sync" /\ toHost'[i].rid = assembler'.rid =>
                             assembler'.chunks = {}
                      /\ \A c \in assembler'.chunks : c.rid = assembler'.rid
                      /\ \A c \in assembler'.chunks : c.final =>
                           \A k \in 1..Len(toPwa') :
                             toPwa'[k].type = "chunk" => toPwa'[k].rid # assembler'.rid
    OBVIOUS
  <2>1. /\ assembler # None /\ assembler'.rid = assembler.rid
        /\ assembler'.chunks \subseteq assembler.chunks
    BY DEF GathersNoMore
  <2>2. assembler.rid \in Nat
    BY <2>1, RidsTyped
  <2>3. /\ assembler.rid <= rids
        /\ \A i \in 1..Len(toHost) :
             toHost[i].type = "sync" /\ toHost[i].rid = assembler.rid => assembler.chunks = {}
        /\ \A c \in assembler.chunks : c.rid = assembler.rid
        /\ \A c \in assembler.chunks : c.final =>
             \A k \in 1..Len(toPwa) : toPwa[k].type = "chunk" => toPwa[k].rid # assembler.rid
    BY <2>1 DEF RequestInv, Gathering
  <2>4. \A i \in 1..Len(toHost') :
          toHost'[i].type = "sync" /\ toHost'[i].rid = assembler'.rid => assembler'.chunks = {}
    BY <1>1, <2>1, <2>3
  <2>5. \A c \in assembler'.chunks : c.final =>
          \A k \in 1..Len(toPwa') : toPwa'[k].type = "chunk" => toPwa'[k].rid # assembler'.rid
    BY <1>2, <2>1, <2>3
  <2> QED
    BY <1>3, <2>1, <2>2, <2>3, <2>4, <2>5
<1>10. Requested'
  BY CalmKeepsRequested DEF RequestInv
<1> QED
  BY <1>9, <1>10 DEF RequestInv, Gathering

-----------------------------------------------------------------------------
(* A new request for a page, and its assembler.                            *)
AsksAnew ==
  /\ rids' = rids + 1
  /\ \E older \in BOOLEAN : assembler' = NewAssembler(rids + 1, older)
  /\ \E f \in ClientFrame : /\ f.type = "sync" /\ f.rid = rids + 1
                            /\ toHost' = Append(toHost, f)
  /\ Goes(toPwa, toPwa', {})

LEMMA AskingKeepsRequests ==
  ASSUME SessionTypes, SessionTypes', RequestInv, AsksAnew
  PROVE  RequestInv'
<1>1. PICK f \in ClientFrame : /\ f.type = "sync" /\ f.rid = rids + 1
                               /\ toHost' = Append(toHost, f)
  BY DEF AsksAnew
<1>2. /\ rids \in Nat /\ rids' = rids + 1 /\ Len(toHost) \in Nat /\ Len(toPwa) \in Nat
      /\ toHost \in Seq(ClientFrame) /\ Len(toPwa') \in Nat
  BY RidsTyped, QueuesTyped, RidsTypedNext DEF AsksAnew
<1>3. /\ Len(toHost') = Len(toHost) + 1 /\ toHost'[Len(toHost) + 1] = f
      /\ \A i \in 1..Len(toHost) : toHost'[i] = toHost[i]
  BY <1>1, <1>2, AppendProperties
<1>4. \A i \in 1..Len(toHost') : i \in 1..Len(toHost) \/ i = Len(toHost) + 1
  BY <1>2, <1>3
<1>5. PICK e \in Nat : \A k \in 1..Len(toPwa') : toPwa'[k].type = "chunk" =>
        k + e \in 1..Len(toPwa) /\ toPwa'[k] = toPwa[k + e]
  <2>1. Lacks({}, "chunk")
    BY DEF Lacks
  <2>2. toPwa' \in Seq(ServerFrame) /\ Goes(toPwa, toPwa', {})
    BY RidsTypedNext DEF AsksAnew
  <2>3. Keeps(toPwa, toPwa', "chunk")
    BY <2>1, <2>2, GoesKept
  <2> QED
    BY <2>3 DEF Keeps
<1>6. \A k \in 1..Len(toPwa') : toPwa'[k].type = "chunk" =>
        \E l \in 1..Len(toPwa) : l = k + e /\ toPwa'[k] = toPwa[l] /\ toPwa[l].rid \in Nat
  BY <1>5, RidsTyped
<1>7. \A i \in 1..Len(toHost') : toHost'[i].type = "sync" =>
        \/ i \in 1..Len(toHost) /\ toHost'[i] = toHost[i] /\ toHost[i].rid \in Nat
           /\ toHost[i].rid <= rids
        \/ i = Len(toHost) + 1 /\ toHost'[i].rid = rids + 1
  BY <1>1, <1>3, <1>4, RidsTyped DEF RequestInv, Requested
<1>8. \A k \in 1..Len(toPwa') : toPwa'[k].type = "chunk" =>
        toPwa'[k].rid \in Nat /\ toPwa'[k].rid <= rids
  BY <1>6 DEF RequestInv, Requested
<1>9. \A i \in 1..Len(toHost') : toHost'[i].type = "sync" => toHost'[i].rid <= rids'
  BY <1>2, <1>7
<1>10. \A i, j \in 1..Len(toHost') :
       i < j /\ toHost'[i].type = "sync" /\ toHost'[j].type = "sync" =>
         toHost'[i].rid < toHost'[j].rid
  <2> SUFFICES ASSUME NEW i \in 1..Len(toHost'), NEW j \in 1..Len(toHost'), i < j,
                      toHost'[i].type = "sync", toHost'[j].type = "sync"
               PROVE  toHost'[i].rid < toHost'[j].rid
    OBVIOUS
  <2>1. i \in 1..Len(toHost) /\ toHost'[i] = toHost[i] /\ toHost[i].rid \in Nat
        /\ toHost[i].rid <= rids
    BY <1>2, <1>3, <1>7
  <2>2. CASE j \in 1..Len(toHost)
    <3>1. toHost'[j] = toHost[j]
      BY <2>2, <1>3
    <3> QED
      BY <2>1, <2>2, <3>1 DEF RequestInv, Requested
  <2>3. CASE j = Len(toHost) + 1
    BY <1>1, <1>2, <1>3, <2>1, <2>3
  <2> QED
    BY <1>4, <2>2, <2>3
<1>11. \A k \in 1..Len(toPwa') : toPwa'[k].type = "chunk" =>
       /\ toPwa'[k].rid <= rids'
       /\ \A i \in 1..Len(toHost') : toHost'[i].type = "sync" => toPwa'[k].rid # toHost'[i].rid
       /\ \A l \in 1..Len(toPwa') :
            toPwa'[l].type = "chunk" /\ toPwa'[l].rid = toPwa'[k].rid /\ k < l => ~toPwa'[k].final
  <2> SUFFICES ASSUME NEW k \in 1..Len(toPwa'), toPwa'[k].type = "chunk"
               PROVE  /\ toPwa'[k].rid <= rids'
                      /\ \A i \in 1..Len(toHost') :
                           toHost'[i].type = "sync" => toPwa'[k].rid # toHost'[i].rid
                      /\ \A l \in 1..Len(toPwa') :
                           toPwa'[l].type = "chunk" /\ toPwa'[l].rid = toPwa'[k].rid /\ k < l =>
                             ~toPwa'[k].final
    OBVIOUS
  <2>1. PICK m \in 1..Len(toPwa) : m = k + e /\ toPwa'[k] = toPwa[m] /\ toPwa[m].rid \in Nat
    BY <1>6
  <2>2. /\ toPwa[m].rid <= rids
        /\ \A i \in 1..Len(toHost) : toHost[i].type = "sync" => toPwa[m].rid # toHost[i].rid
        /\ \A l \in 1..Len(toPwa) :
             toPwa[l].type = "chunk" /\ toPwa[l].rid = toPwa[m].rid /\ m < l => ~toPwa[m].final
    BY <2>1 DEF RequestInv, Requested
  <2>3. \A i \in 1..Len(toHost') : toHost'[i].type = "sync" => toPwa'[k].rid # toHost'[i].rid
    <3> SUFFICES ASSUME NEW i \in 1..Len(toHost'), toHost'[i].type = "sync"
                 PROVE  toPwa'[k].rid # toHost'[i].rid
      OBVIOUS
    <3>1. CASE i \in 1..Len(toHost) /\ toHost'[i] = toHost[i]
      BY <2>1, <2>2, <3>1
    <3>2. CASE toHost'[i].rid = rids + 1
      BY <1>2, <1>8, <3>2
    <3> QED
      BY <1>7, <3>1, <3>2
  <2>4. ASSUME NEW l \in 1..Len(toPwa'), toPwa'[l].type = "chunk",
               toPwa'[l].rid = toPwa'[k].rid, k < l
        PROVE  ~toPwa'[k].final
    <3>1. PICK n \in 1..Len(toPwa) : n = l + e /\ toPwa'[l] = toPwa[n]
      BY <1>6, <2>4
    <3>2. m < n
      BY <2>1, <2>4, <3>1
    <3> QED
      BY <2>1, <2>2, <2>4, <3>1, <3>2
  <2> QED
    BY <1>2, <2>1, <2>2, <2>3, <2>4
<1>12. assembler'.rid = rids + 1 /\ assembler'.chunks = {}
  BY DEF AsksAnew, NewAssembler
<1>13. Gathering'
  BY <1>2, <1>12 DEF Gathering
<1> QED
  BY <1>9, <1>10, <1>11, <1>13 DEF RequestInv, Requested

LEMMA EntersAsks ==
  ASSUME SessionTypes, Enters \/ LoadEarlier
  PROVE  AsksAnew
<1>1. toHost \in Seq(ClientFrame) /\ toPwa \in Seq(ServerFrame) /\ rids \in Nat
  BY QueuesTyped
<1>2. CASE Enters
  <2> DEFINE f == Head(toPwa)
  <2>1. EnterScope(f) /\ toPwa # <<>> /\ toPwa' = Tail(toPwa) /\ f.type = "ready"
    BY <1>2 DEF Enters
  <2>2. f \in ServerFrame
    BY <1>1, <2>1, HeadTailProperties
  <2>3. f.gen \in Nat
    BY <2>1, <2>2, ServerFields
  <2>4. Goes(toPwa, toPwa', {})
    BY <1>1, <2>1, GoesTail
  <2> HIDE DEF f
  <2> DEFINE g == [type |-> "sync", rid |-> rids + 1, gen |-> f.gen, before |-> None]
  <2>5. g \in ClientFrame /\ g.type = "sync" /\ g.rid = rids + 1
    BY <1>1, <2>3 DEF ClientFrame, Optional
  <2>6. /\ rids' = rids + 1 /\ assembler' = NewAssembler(rids + 1, FALSE)
        /\ toHost' = Append(toHost, g)
    BY <2>1 DEF EnterScope
  <2> QED
    BY <2>4, <2>5, <2>6 DEF AsksAnew
<1>3. CASE LoadEarlier
  <2> DEFINE g == [type |-> "sync", rid |-> rids + 1, gen |-> scope.gen, before |-> before]
  <2>1. scope \in Scope /\ before \in Nat
    BY <1>3 DEF LoadEarlier, SessionTypes, ViewTypeOK, TransferTypeOK, Optional
  <2>2. g \in ClientFrame /\ g.type = "sync" /\ g.rid = rids + 1
    BY <1>1, <2>1 DEF ClientFrame, Optional, Scope
  <2>3. /\ rids' = rids + 1 /\ assembler' = NewAssembler(rids + 1, TRUE)
        /\ toHost' = Append(toHost, g) /\ toPwa' = toPwa
    BY <1>3 DEF LoadEarlier
  <2>4. Goes(toPwa, toPwa', {})
    BY <1>1, <2>3, GoesSame
  <2> QED
    BY <2>2, <2>3, <2>4 DEF AsksAnew
<1> QED
  BY <1>2, <1>3

(* A chunk that is kept for its window.                                    *)
ChunkKept ==
  LET f == Head(toPwa) IN
  /\ toPwa # <<>> /\ toPwa' = Tail(toPwa) /\ f.type = "chunk"
  /\ assembler # None /\ f.rid = assembler.rid
  /\ assembler' = [assembler EXCEPT !.chunks = @ \cup {f}]
  /\ UNCHANGED <<toHost, rids>>

LEMMA HeadIsFirst ==
  ASSUME NEW S, NEW q \in Seq(S), q # <<>>
  PROVE  /\ 1 \in 1..Len(q) /\ Head(q) = q[1] /\ Head(q) \in S
         /\ Tail(q) \in Seq(S) /\ Len(Tail(q)) = Len(q) - 1
         /\ \A i \in 1..Len(Tail(q)) : i + 1 \in 1..Len(q) /\ Tail(q)[i] = q[i + 1]
<1>1. Head(q) \in S /\ Tail(q) \in Seq(S) /\ Len(Tail(q)) = Len(q) - 1
      /\ \A i \in 1..Len(Tail(q)) : Tail(q)[i] = q[i + 1]
  BY HeadTailProperties
<1>2. Len(q) \in Nat /\ Len(q) # 0
  BY LenProperties, EmptySeq
<1> QED
  BY <1>1, <1>2

LEMMA KeepingKeepsRequests ==
  ASSUME SessionTypes, SessionTypes', RequestInv, ChunkKept
  PROVE  RequestInv'
<1> DEFINE f == Head(toPwa)
<1>1. /\ 1 \in 1..Len(toPwa) /\ f = toPwa[1] /\ f.type = "chunk" /\ f.rid = assembler.rid
      /\ \A i \in 1..Len(toPwa') : i + 1 \in 1..Len(toPwa) /\ toPwa'[i] = toPwa[i + 1]
      /\ assembler # None
  BY QueuesTyped, HeadIsFirst DEF ChunkKept
<1>2. /\ toHost' = toHost /\ rids' = rids
      /\ assembler' = [assembler EXCEPT !.chunks = @ \cup {f}]
  BY DEF ChunkKept
<1>3. assembler'.rid = assembler.rid /\ assembler'.chunks = assembler.chunks \cup {f}
  BY <1>1, <1>2, RidsTyped DEF Assembler
<1> HIDE DEF f
<1>4. QueuesCalm
  <2>1. toHost \in Seq(ClientFrame) /\ toPwa \in Seq(ServerFrame)
    BY QueuesTyped
  <2>2. Goes(toHost, toHost', NoSync)
    BY <1>2, <2>1, GoesSame
  <2>3. Goes(toPwa, toPwa', NoChunk)
    BY <2>1, GoesTail DEF ChunkKept
  <2> QED
    BY <1>2, <2>2, <2>3 DEF QueuesCalm
<1>5. Requested'
  BY <1>4, CalmKeepsRequested DEF RequestInv
<1>6. \A i \in 1..Len(toHost) : toHost[i].type = "sync" => toHost[i].rid # assembler.rid
  BY <1>1 DEF RequestInv, Requested
<1>7. assembler.rid <= rids
  BY <1>1 DEF RequestInv, Gathering
<1>8. \A c \in assembler'.chunks : c.rid = assembler.rid
  BY <1>1, <1>3 DEF RequestInv, Gathering
<1>9. ASSUME NEW c \in assembler'.chunks, c.final,
             NEW k \in 1..Len(toPwa'), toPwa'[k].type = "chunk"
      PROVE  toPwa'[k].rid # assembler.rid
  <2>1. k + 1 \in 1..Len(toPwa) /\ toPwa'[k] = toPwa[k + 1] /\ 1 < k + 1
    BY <1>1, <1>9, RidsTypedNext
  <2>2. CASE c \in assembler.chunks
    BY <1>1, <1>9, <2>1, <2>2 DEF RequestInv, Gathering
  <2>3. CASE c = f
    BY <1>1, <1>9, <2>1, <2>3 DEF RequestInv, Requested
  <2> QED
    BY <1>3, <1>9, <2>2, <2>3
<1>10. Gathering'
  BY <1>2, <1>3, <1>6, <1>7, <1>8, <1>9 DEF Gathering
<1> QED
  BY <1>5, <1>10 DEF RequestInv

-----------------------------------------------------------------------------
(* A page: what it is taken from, and the cursor it leaves.                *)

Paged(b, prefix, position) == {r \in Recovered(b.session, prefix) : r.at <= position}

HasOlder(records) == \E r \in records : r.at < SelectWindow(records).start

CursorOf(b, prefix, position) ==
  [id |-> Cardinality(b.cursors) + 1, prefix |-> prefix,
   position |-> SelectWindow(Paged(b, prefix, position)).start - 1, used |-> FALSE]

NextOf(b, prefix, position) ==
  IF HasOlder(Paged(b, prefix, position)) THEN Cardinality(b.cursors) + 1 ELSE None

LEMMA PagedTyped ==
  ASSUME HostTypes, NEW b, Serviceable(b), NEW prefix \in Seq(Entry), NEW position \in Nat
  PROVE  /\ Paged(b, prefix, position) \in SUBSET Place
         /\ \A r \in Paged(b, prefix, position) : r.at <= position
         /\ SelectWindow(Paged(b, prefix, position)).records \subseteq Paged(b, prefix, position)
         /\ SelectWindow(Paged(b, prefix, position)).start \in Nat \ {0}
         /\ NextOf(b, prefix, position) \in Optional(Nat)
         /\ CursorOf(b, prefix, position) \in Cursor
         /\ Cardinality(b.cursors) \in Nat
<1>1. b.session \in Nat /\ IsFiniteSet(b.cursors)
  BY DEF Serviceable, Service
<1>2. /\ Paged(b, prefix, position) \in SUBSET Place
      /\ \A r \in Paged(b, prefix, position) : r.at <= position
  BY <1>1, RecoveredTyped DEF Paged, HostTypes, HostTypeOK, SessionTypeOK
<1>3. PICK records : records = Paged(b, prefix, position)
  OBVIOUS
<1>4. SelectWindow(records).records \subseteq records /\ SelectWindow(records).start \in Nat \ {0}
  BY <1>2, <1>3, WindowIs
<1>5. Cardinality(b.cursors) \in Nat
  BY <1>1, FS_CardinalityType
<1>6. NextOf(b, prefix, position) \in Optional(Nat)
  BY <1>5 DEF NextOf, Optional
<1>7. CursorOf(b, prefix, position) \in Cursor
  BY <1>3, <1>4, <1>5 DEF CursorOf, Cursor
<1> QED
  BY <1>2, <1>3, <1>4, <1>5, <1>6, <1>7

LEMMA PageIs ==
  ASSUME HostTypes, NEW b, Serviceable(b), NEW rid, NEW prefix \in Seq(Entry),
         NEW position \in Nat, Page(b, rid, prefix, position)
  PROVE  /\ binding' = [b EXCEPT !.cursors = IF HasOlder(Paged(b, prefix, position))
                                             THEN @ \cup {CursorOf(b, prefix, position)} ELSE @]
         /\ \E payloads \in Payloads(SelectWindow(Paged(b, prefix, position)).records) :
              /\ payloads \in Seq(Payload)
              /\ Post(Chunks(b, rid, payloads, NextOf(b, prefix, position)))
<1>1. PICK payloads \in Payloads(SelectWindow(Paged(b, prefix, position)).records) :
        Post(Chunks(b, rid, payloads, NextOf(b, prefix, position)))
  BY DEF Page, Paged, HasOlder, NextOf
<1>2. PICK w : w = SelectWindow(Paged(b, prefix, position)).records
  OBVIOUS
<1>3. w \in SUBSET Place
  BY <1>2, PagedTyped
<1>4. payloads \in Seq(Payload)
  BY <1>1, <1>2, <1>3, PayloadsCarry
<1> QED
  BY <1>1, <1>4 DEF Page, Paged, HasOlder, CursorOf

(* The chunks of an answer.                                                *)
LEMMA ChunksAre ==
  ASSUME NEW b \in Service, NEW rid \in Nat, NEW payloads \in Seq(Payload),
         NEW next \in Optional(Nat), NEW cs, cs = Chunks(b, rid, payloads, next)
  PROVE  /\ cs \in Seq(Chunk) /\ Len(cs) = Len(payloads) /\ Len(cs) \in Nat
         /\ \A i \in 1..Len(cs) :
              /\ cs[i].type = "chunk" /\ cs[i].rid = rid
              /\ cs[i].session = b.session /\ cs[i].gen = b.gen
              /\ cs[i].events = payloads[i].events /\ cs[i].fragments = payloads[i].fragments
              /\ cs[i].final <=> i = Len(cs)
              /\ cs[i].final => cs[i].next = next
<1>1. cs \in Seq(Chunk)
  BY ChunksTyped
<1>2. DOMAIN payloads = 1..Len(payloads) /\ Len(payloads) \in Nat
  BY LenProperties
<1>3. DOMAIN cs = 1..Len(payloads)
  BY <1>2 DEF Chunks
<1>4. Len(cs) = Len(payloads)
  BY <1>1, <1>2, <1>3, LenProperties
<1>5. \A i \in 1..Len(payloads) :
        cs[i] = [type |-> "chunk", session |-> b.session, gen |-> b.gen, rid |-> rid,
                 index |-> i - 1, events |-> payloads[i].events,
                 fragments |-> payloads[i].fragments,
                 final |-> i = Len(payloads),
                 next |-> IF i = Len(payloads) THEN next ELSE None]
  BY <1>2 DEF Chunks
<1>6. ASSUME NEW i \in 1..Len(cs)
      PROVE  /\ cs[i].type = "chunk" /\ cs[i].rid = rid
             /\ cs[i].session = b.session /\ cs[i].gen = b.gen
             /\ cs[i].events = payloads[i].events /\ cs[i].fragments = payloads[i].fragments
             /\ cs[i].final <=> i = Len(cs)
             /\ cs[i].final => cs[i].next = next
  <2>1. cs[i] = [type |-> "chunk", session |-> b.session, gen |-> b.gen, rid |-> rid,
                 index |-> i - 1, events |-> payloads[i].events,
                 fragments |-> payloads[i].fragments,
                 final |-> i = Len(payloads),
                 next |-> IF i = Len(payloads) THEN next ELSE None]
    BY <1>4, <1>5
  <2>2. /\ cs[i].type = "chunk" /\ cs[i].rid = rid
        /\ cs[i].session = b.session /\ cs[i].gen = b.gen
        /\ cs[i].events = payloads[i].events /\ cs[i].fragments = payloads[i].fragments
    BY <2>1
  <2>3. cs[i].final = (i = Len(payloads))
    BY <2>1
  <2>4. cs[i].final <=> i = Len(cs)
    BY <1>4, <2>3
  <2>5. cs[i].next = IF i = Len(payloads) THEN next ELSE None
    BY <2>1
  <2>6. cs[i].final => cs[i].next = next
    BY <1>4, <2>4, <2>5
  <2> QED
    BY <2>2, <2>4, <2>6
<1> QED
  BY <1>1, <1>2, <1>4, <1>6

(* The host answers a request for a page with chunks.                      *)
Answers(rid, new) ==
  /\ new \in Seq(Chunk) /\ Len(new) \in Nat
  /\ \A i \in 1..Len(new) : /\ new[i].type = "chunk" /\ new[i].rid = rid
                            /\ new[i].final => i = Len(new)

PageServed ==
  /\ toHost # <<>> /\ toHost' = Tail(toHost) /\ UNCHANGED <<rids, assembler>>
  /\ Head(toHost).type = "sync"
  /\ \E new : Answers(Head(toHost).rid, new) /\ toPwa' = toPwa \o new

LEMMA PageAnswers ==
  ASSUME HostTypes, NEW b, Serviceable(b), NEW rid \in Nat, NEW prefix \in Seq(Entry),
         NEW position \in Nat, Page(b, rid, prefix, position)
  PROVE  \/ UNCHANGED toPwa
         \/ \E new : Answers(rid, new) /\ toPwa' = toPwa \o new
<1>1. PICK payloads \in Seq(Payload) : Post(Chunks(b, rid, payloads, NextOf(b, prefix, position)))
  BY PageIs
<1>2. PICK cs : cs = Chunks(b, rid, payloads, NextOf(b, prefix, position))
  OBVIOUS
<1>3. b \in Service /\ NextOf(b, prefix, position) \in Optional(Nat)
  BY PagedTyped DEF Serviceable
<1>4. /\ cs \in Seq(Chunk) /\ Len(cs) \in Nat
      /\ \A i \in 1..Len(cs) : /\ cs[i].type = "chunk" /\ cs[i].rid = rid
                               /\ cs[i].final <=> i = Len(cs)
  BY <1>2, <1>3, ChunksAre
<1>5. Answers(rid, cs)
  BY <1>4 DEF Answers
<1> QED
  BY <1>1, <1>2, <1>5 DEF Post

LEMMA SyncAnswers ==
  ASSUME HostTypes, NEW b, Serviceable(b), NEW f \in ClientFrame, f.type = "sync", Sync(b, f)
  PROVE  \/ Adds(Words)
         \/ \E new : Answers(f.rid, new) /\ toPwa' = toPwa \o new
<1>1. f.rid \in Nat /\ Serviceable(Spent(b, f)) /\ b.session \in 1..Len(branches)
  BY ClientFields, SpentIs DEF Serviceable
<1>2. CASE UNCHANGED toPwa
  BY <1>2, NothingAdded
<1>3. CASE HeadPage(b, f)
  <2>1. branches[b.session] \in Seq(Entry)
    BY <1>1, CurrentIs
  <2>2. Len(branches[b.session]) \in Nat
    BY <2>1, LenProperties
  <2> QED
    BY <1>1, <1>2, <1>3, <2>1, <2>2, PageAnswers DEF HeadPage
<1>4. CASE NoPage(b, f)
  BY <1>4, NoPageMinor
<1>5. CASE \E c \in b.cursors : OlderPage(b, f, c)
  <2>1. PICK c \in b.cursors : OlderPage(b, f, c)
    BY <1>5
  <2>2. c.prefix \in Seq(Entry) /\ c.position \in Nat
    BY DEF Serviceable, Service, Cursor
  <2> QED
    BY <1>1, <1>2, <2>1, <2>2, PageAnswers DEF OlderPage
<1> QED
  BY <1>3, <1>4, <1>5, SyncCases

LEMMA ServingKeepsRequests ==
  ASSUME SessionTypes, SessionTypes', RequestInv, PageServed
  PROVE  RequestInv'
<1> DEFINE h == Head(toHost)
<1>1. /\ toHost \in Seq(ClientFrame) /\ toPwa \in Seq(ServerFrame) /\ rids \in Nat
      /\ Len(toHost) \in Nat /\ Len(toPwa) \in Nat
  BY QueuesTyped
<1>2. /\ 1 \in 1..Len(toHost) /\ h = toHost[1] /\ h.type = "sync"
      /\ \A i \in 1..Len(toHost') : i + 1 \in 1..Len(toHost) /\ toHost'[i] = toHost[i + 1]
  BY <1>1, HeadIsFirst DEF PageServed
<1>3. UNCHANGED <<rids, assembler>>
  BY DEF PageServed
<1>4. PICK new : Answers(h.rid, new) /\ toPwa' = toPwa \o new
  BY DEF PageServed
<1> HIDE DEF h
<1>5. /\ new \in Seq(Chunk) /\ Len(new) \in Nat
      /\ \A i \in 1..Len(new) : /\ new[i].type = "chunk" /\ new[i].rid = h.rid
                                /\ new[i].final => i = Len(new)
  BY <1>4 DEF Answers
<1>6. /\ \A k \in 1..Len(toPwa) : toPwa'[k] = toPwa[k]
      /\ \A k \in 1..Len(new) : toPwa'[Len(toPwa) + k] = new[k]
      /\ Len(toPwa') = Len(toPwa) + Len(new)
      /\ \A k \in 1..Len(toPwa') : k > Len(toPwa) => \E j \in 1..Len(new) : k = Len(toPwa) + j
  <2>1. new \in Seq(ServerFrame)
    <3>1. Chunk \subseteq ServerFrame
      BY DEF ServerFrame
    <3> QED
      BY <1>5, <3>1, SeqMonotonic
  <2>2. PICK q : q = toPwa
    OBVIOUS
  <2>3. /\ Len(q \o new) = Len(q) + Len(new)
        /\ \A i \in 1..Len(q) : (q \o new)[i] = q[i]
        /\ \A j \in 1..Len(new) : (q \o new)[Len(q) + j] = new[j]
        /\ \A i \in 1..Len(q \o new) : i > Len(q) => \E j \in 1..Len(new) : i = Len(q) + j
    BY <1>1, <2>1, <2>2, JoinIs
  <2>4. PICK r : r = q \o new
    OBVIOUS
  <2> QED
    BY <1>4, <2>2, <2>3, <2>4
<1>7. \A k \in 1..Len(toPwa') :
        \/ k \in 1..Len(toPwa) /\ toPwa'[k] = toPwa[k]
        \/ \E j \in 1..Len(new) : k = Len(toPwa) + j /\ toPwa'[k] = new[j]
  <2> SUFFICES ASSUME NEW k \in 1..Len(toPwa'), ~(k \in 1..Len(toPwa))
               PROVE  \E j \in 1..Len(new) : k = Len(toPwa) + j /\ toPwa'[k] = new[j]
    BY <1>6
  <2>1. k > Len(toPwa)
    BY <1>1
  <2>2. PICK j \in 1..Len(new) : k = Len(toPwa) + j
    BY <1>6, <2>1
  <2> QED
    BY <1>6, <2>2
<1>8. h.rid \in Nat /\ h.rid <= rids
  BY <1>1, <1>2, RidsTyped DEF RequestInv, Requested
<1>9. \A i \in 1..Len(toHost') : toHost'[i].type = "sync" =>
        h.rid < toHost'[i].rid /\ toHost'[i].rid <= rids
  <2> SUFFICES ASSUME NEW i \in 1..Len(toHost'), toHost'[i].type = "sync"
               PROVE  h.rid < toHost'[i].rid /\ toHost'[i].rid <= rids
    OBVIOUS
  <2>1. i + 1 \in 1..Len(toHost) /\ toHost'[i] = toHost[i + 1] /\ 1 < i + 1
    BY <1>2, RidsTypedNext
  <2> QED
    BY <1>2, <2>1 DEF RequestInv, Requested
<1>10. \A i, j \in 1..Len(toHost') :
       i < j /\ toHost'[i].type = "sync" /\ toHost'[j].type = "sync" =>
         toHost'[i].rid < toHost'[j].rid
  <2> SUFFICES ASSUME NEW i \in 1..Len(toHost'), NEW j \in 1..Len(toHost'), i < j,
                      toHost'[i].type = "sync", toHost'[j].type = "sync"
               PROVE  toHost'[i].rid < toHost'[j].rid
    OBVIOUS
  <2>1. /\ i + 1 \in 1..Len(toHost) /\ toHost'[i] = toHost[i + 1]
        /\ j + 1 \in 1..Len(toHost) /\ toHost'[j] = toHost[j + 1] /\ i + 1 < j + 1
    BY <1>2, RidsTypedNext
  <2> QED
    BY <2>1 DEF RequestInv, Requested
<1>11. \A k \in 1..Len(toPwa') : toPwa'[k].type = "chunk" =>
         toPwa'[k].rid \in Nat /\ toPwa'[k].rid <= rids
  <2> SUFFICES ASSUME NEW k \in 1..Len(toPwa'), toPwa'[k].type = "chunk"
               PROVE  toPwa'[k].rid \in Nat /\ toPwa'[k].rid <= rids
    OBVIOUS
  <2>1. CASE k \in 1..Len(toPwa) /\ toPwa'[k] = toPwa[k]
    BY <2>1, RidsTyped DEF RequestInv, Requested
  <2>2. CASE \E j \in 1..Len(new) : k = Len(toPwa) + j /\ toPwa'[k] = new[j]
    BY <1>5, <1>8, <2>2
  <2> QED
    BY <1>7, <2>1, <2>2
<1>12. ASSUME NEW k \in 1..Len(toPwa'), toPwa'[k].type = "chunk",
              NEW i \in 1..Len(toHost'), toHost'[i].type = "sync"
       PROVE  toPwa'[k].rid # toHost'[i].rid
  <2>1. CASE k \in 1..Len(toPwa) /\ toPwa'[k] = toPwa[k]
    <3>1. i + 1 \in 1..Len(toHost) /\ toHost'[i] = toHost[i + 1]
      BY <1>2
    <3> QED
      BY <1>12, <2>1, <3>1 DEF RequestInv, Requested
  <2>2. CASE \E j \in 1..Len(new) : k = Len(toPwa) + j /\ toPwa'[k] = new[j]
    <3>1. toPwa'[k].rid = h.rid
      BY <1>5, <2>2
    <3>2. h.rid < toHost'[i].rid /\ toHost'[i].rid \in Nat
      BY <1>9, <1>12, RidsTypedNext
    <3> QED
      BY <1>8, <3>1, <3>2
  <2> QED
    BY <1>7, <2>1, <2>2
<1>13. ASSUME NEW k \in 1..Len(toPwa'), toPwa'[k].type = "chunk",
              NEW l \in 1..Len(toPwa'), toPwa'[l].type = "chunk",
              toPwa'[l].rid = toPwa'[k].rid, k < l
       PROVE  ~toPwa'[k].final
  <2>1. CASE k \in 1..Len(toPwa) /\ toPwa'[k] = toPwa[k]
    <3>1. CASE l \in 1..Len(toPwa) /\ toPwa'[l] = toPwa[l]
      BY <1>13, <2>1, <3>1 DEF RequestInv, Requested
    <3>2. CASE \E j \in 1..Len(new) : l = Len(toPwa) + j /\ toPwa'[l] = new[j]
      <4>1. toPwa[k].rid = h.rid /\ toPwa[k].type = "chunk"
        BY <1>5, <1>13, <2>1, <3>2
      <4>2. toPwa[k].rid # h.rid
        BY <1>2, <2>1, <4>1 DEF RequestInv, Requested
      <4> QED
        BY <4>1, <4>2
    <3> QED
      BY <1>7, <3>1, <3>2
  <2>2. CASE \E j \in 1..Len(new) : k = Len(toPwa) + j /\ toPwa'[k] = new[j]
    <3>1. PICK j \in 1..Len(new) : k = Len(toPwa) + j /\ toPwa'[k] = new[j]
      BY <2>2
    <3>2. j < Len(new)
      BY <1>1, <1>5, <1>6, <1>13, <3>1, RidsTypedNext
    <3> QED
      BY <1>5, <3>1, <3>2
  <2> QED
    BY <1>7, <2>1, <2>2
<1>14. ASSUME assembler # None
       PROVE  /\ \A i \in 1..Len(toHost') :
                   toHost'[i].type = "sync" /\ toHost'[i].rid = assembler.rid =>
                     assembler.chunks = {}
              /\ \A c \in assembler.chunks : c.final =>
                   \A k \in 1..Len(toPwa') :
                     toPwa'[k].type = "chunk" => toPwa'[k].rid # assembler.rid
  <2>1. \A i \in 1..Len(toHost') :
          toHost'[i].type = "sync" /\ toHost'[i].rid = assembler.rid => assembler.chunks = {}
    BY <1>2, <1>14 DEF RequestInv, Gathering
  <2>2. ASSUME NEW c \in assembler.chunks, c.final, NEW k \in 1..Len(toPwa'),
               toPwa'[k].type = "chunk"
        PROVE  toPwa'[k].rid # assembler.rid
    <3>1. CASE k \in 1..Len(toPwa) /\ toPwa'[k] = toPwa[k]
      BY <1>14, <2>2, <3>1 DEF RequestInv, Gathering
    <3>2. CASE \E j \in 1..Len(new) : k = Len(toPwa) + j /\ toPwa'[k] = new[j]
      <4>1. toPwa'[k].rid = h.rid
        BY <1>5, <3>2
      <4>2. h.rid # assembler.rid
        BY <1>2, <1>14, <2>2 DEF RequestInv, Gathering
      <4> QED
        BY <4>1, <4>2
    <3> QED
      BY <1>7, <3>1, <3>2
  <2> QED
    BY <2>1, <2>2
<1>15. Requested'
  BY <1>3, <1>9, <1>10, <1>11, <1>12, <1>13 DEF Requested
<1>16. Gathering'
  BY <1>3, <1>14 DEF Gathering, RequestInv
<1> QED
  BY <1>15, <1>16 DEF RequestInv

LEMMA SameGathers ==
  ASSUME UNCHANGED assembler
  PROVE  GathersNoMore
  BY DEF GathersNoMore

LEMMA HostKeepsRequests ==
  ASSUME SessionTypes, SessionTypes', RequestInv, HostNext, UNCHANGED pwaVars
  PROVE  RequestInv'
<1>1. HostTypes /\ UNCHANGED <<rids, assembler>> /\ GathersNoMore
  BY SameGathers DEF SessionTypes, pwaVars, linkVars, transferVars
<1>2. PICK q : q = toHost
  OBVIOUS
<1>3. q \in Seq(ClientFrame)
  BY <1>2, QueuesTyped
<1>4. /\ Words \subseteq NoChunk /\ News \subseteq NoChunk /\ {} \subseteq NoSync
      /\ NoChunk \in SUBSET ServerFrame
  BY DEF Words, News, NoChunk
<1>5. Adds(NoChunk) => Goes(toPwa, toPwa', NoChunk)
  BY <1>1, <1>4, AddsGoes
<1>6. CASE HostMoves(News)
  <2>1. toHost' = toHost /\ Adds(NoChunk)
    BY <1>4, <1>6, AddsMore DEF HostMoves
  <2>2. Goes(toHost, toHost', NoSync)
    BY <1>2, <1>3, <2>1, GoesSame
  <2> QED
    BY <1>1, <1>5, <2>1, <2>2, CalmKeepsRequests DEF QueuesCalm
<1>7. CASE HostReconnects
  <2>1. Goes(toHost, toHost', {}) /\ Goes(toPwa, toPwa', Words)
    BY <1>7 DEF HostReconnects
  <2>2. Goes(toHost, toHost', NoSync)
    BY <1>4, <2>1, GoesMore
  <2>3. Goes(toPwa, toPwa', NoChunk)
    BY <1>4, <2>1, GoesMore
  <2> QED
    BY <1>1, <2>2, <2>3, CalmKeepsRequests DEF QueuesCalm
<1>8. CASE HostServes
  <2>1. PICK b, f : b = Server /\ f = Head(toHost)
    OBVIOUS
  <2>2. /\ Serviceable(b) /\ f \in ClientFrame /\ Serves(b, f)
        /\ toHost # <<>> /\ toHost' = Tail(toHost)
    BY <1>1, <1>8, <2>1, ServerTyped DEF HostServes
  <2>3. Goes(toHost, toHost', NoSync)
    BY <1>2, <1>3, <2>2, GoesTail
  <2>4. ASSUME Adds(NoChunk)
        PROVE  RequestInv'
    BY <1>1, <1>5, <2>3, <2>4, CalmKeepsRequests DEF QueuesCalm
  <2>5. CASE UNCHANGED toPwa
    BY <1>1, <2>4, <2>5, NothingAdded
  <2>6. CASE Adds(Words)
    BY <1>4, <2>4, <2>6, AddsMore
  <2>7. CASE f.type = "hello" /\ Hello(b, f)
    <3>1. [type |-> "ready", session |-> b.session, gen |-> b.gen, rid |-> f.rid] \in NoChunk
      BY <2>2, ClientFields DEF NoChunk, ServerFrame, Serviceable, Service
    <3> QED
      BY <1>1, <2>4, <2>7, <3>1, OneAdds DEF Hello
  <2>8. CASE f.type = "sync" /\ Sync(b, f)
    <3>1. CASE \E new : Answers(f.rid, new) /\ toPwa' = toPwa \o new
      <4>1. PageServed
        BY <1>1, <2>1, <2>2, <2>8, <3>1 DEF PageServed
      <4> QED
        BY <4>1, ServingKeepsRequests
    <3> QED
      BY <1>1, <2>2, <2>6, <2>8, <3>1, SyncAnswers
  <2> QED
    BY <2>2, <2>5, <2>6, <2>7, <2>8 DEF Serves, Minor
<1> QED
  BY <1>1, <1>6, <1>7, <1>8, HostCases

LEMMA TalksKeepRequests ==
  ASSUME SessionTypes, SessionTypes', RequestInv, Talks, GathersNoMore
  PROVE  RequestInv'
<1>1. Plain \in SUBSET ClientFrame /\ Plain \subseteq NoSync
  BY DEF Plain, NoSync
<1>2. Says(Plain)
  BY DEF Talks
<1>3. Goes(toHost, toHost', NoSync)
  BY <1>1, <1>2, SaysGoes, GoesMore
<1>4. Goes(toPwa, toPwa', NoChunk)
  <2>1. PICK q : q = toPwa
    OBVIOUS
  <2>2. q \in Seq(ServerFrame)
    BY <2>1, QueuesTyped
  <2>3. CASE toPwa' = toPwa
    BY <2>1, <2>2, <2>3, GoesSame
  <2>4. CASE toPwa # <<>> /\ toPwa' = Tail(toPwa)
    BY <2>1, <2>2, <2>4, GoesTail
  <2> QED
    BY <2>3, <2>4 DEF Talks
<1>5. QueuesCalm
  BY <1>3, <1>4 DEF Talks, QueuesCalm
<1> QED
  BY <1>5, CalmKeepsRequests

(* What becomes of a chunk that is heard.                                  *)
LEMMA HearsGathers ==
  ASSUME SessionTypes, Hears
  PROVE  GathersNoMore \/ ChunkKept
<1> DEFINE f == Head(toPwa)
<1>1. toPwa # <<>> /\ toPwa' = Tail(toPwa) /\ f \in ServerFrame
  BY QueuesTyped, HeadIsFirst DEF Hears
<1>2. CASE UNCHANGED pwaVars
  BY <1>2, SameGathers DEF pwaVars, transferVars
<1>3. CASE Expected(f) /\ f.type # "ready" /\ Take(f)
  <2>1. CASE f.type # "chunk"
    <3>1. UNCHANGED assembler
      BY <1>3, <2>1 DEF Take, ReceiveEvent, ReceiveFragment, transferVars
    <3> QED
      BY <3>1, SameGathers
  <2>2. CASE f.type = "chunk"
    <3>1. /\ assembler # None /\ f.rid = assembler.rid /\ ReceiveChunk(f)
      BY <1>3, <2>2 DEF Expected, Take
    <3>2. CASE assembler' = Discarded(assembler)
      BY <3>1, <3>2, RidsTyped DEF Discarded, Assembler, GathersNoMore
    <3>3. CASE assembler' = None
      BY <3>3 DEF GathersNoMore
    <3>4. CASE /\ assembler' = [assembler EXCEPT !.chunks = @ \cup {f}]
               /\ UNCHANGED <<toHost, rids>>
      BY <1>1, <2>2, <3>1, <3>4 DEF ChunkKept
    <3> QED
      BY <3>1, <3>2, <3>3, <3>4 DEF ReceiveChunk, linkVars
  <2> QED
    BY <2>1, <2>2
<1> QED
  BY <1>2, <1>3 DEF Hears

LEMMA PageKeepsRequests ==
  ASSUME SessionTypes, SessionTypes', RequestInv, PageActs
  PROVE  RequestInv'
<1>1. Goes(toPwa, toPwa', NoChunk)
  BY PageQueue, GoesMore
<1>2. /\ toHost \in Seq(ClientFrame) /\ rids \in Nat
      /\ NoSync \in SUBSET ClientFrame
  BY QueuesTyped DEF NoSync
<1>3. ASSUME SayHello(toHost)
      PROVE  Goes(toHost, toHost', NoSync) /\ rids' \in {rids, rids + 1}
  <2> DEFINE g == [type |-> "hello", rid |-> rids + 1]
  <2>1. g \in NoSync
    BY <1>2 DEF NoSync, ClientFrame
  <2>2. toHost' = Append(toHost, g)
    BY <1>3 DEF SayHello
  <2> HIDE DEF g
  <2>3. Says(NoSync)
    BY <1>2, <2>1, <2>2, SaysOne
  <2> QED
    BY <1>2, <1>3, <2>3, SaysGoes DEF SayHello
<1>4. CASE Connect
  BY <1>1, <1>3, <1>4, SameGathers, CalmKeepsRequests DEF Connect, transferVars, QueuesCalm
<1>5. CASE LoseLink
  <2>1. PICK q, r : q = toHost /\ r = toHost'
    OBVIOUS
  <2>2. r \in Prefixes(q) /\ q \in Seq(ClientFrame)
    BY <1>2, <1>5, <2>1 DEF LoseLink
  <2>3. Goes(q, r, NoSync)
    BY <2>2, GoesPrefix
  <2>4. assembler' = None /\ rids' = rids
    BY <1>5 DEF LoseLink, ClearTransfer
  <2> QED
    BY <1>1, <2>1, <2>3, <2>4, CalmKeepsRequests DEF QueuesCalm, GathersNoMore
<1>6. CASE StartsAnew
  <2>1. SayHello(toHost) /\ assembler' = None
    BY <1>6 DEF StartsAnew, Rejoin, ClearTransfer
  <2> QED
    BY <1>1, <1>3, <2>1, CalmKeepsRequests DEF QueuesCalm, GathersNoMore
<1>7. CASE Enters \/ LoadEarlier
  BY <1>7, EntersAsks, AskingKeepsRequests
<1>8. CASE Hears
  BY <1>8, HearsTalks, HearsGathers, TalksKeepRequests, KeepingKeepsRequests
<1>9. CASE RunTransaction
  <2>1. UNCHANGED assembler
    BY <1>9 DEF RunTransaction, transferVars
  <2> QED
    BY <1>9, <2>1, SameGathers, TransactionTalks, TalksKeepRequests
<1>10. CASE \E r \in Requests : SendMessage(r) \/ RetryUnknown(r)
  <2>1. Talks /\ UNCHANGED transferVars
    BY <1>10, UserTalks
  <2>2. GathersNoMore
    BY <2>1, SameGathers DEF transferVars
  <2> QED
    BY <2>1, <2>2, TalksKeepRequests
<1> QED
  BY <1>4, <1>5, <1>6, <1>7, <1>8, <1>9, <1>10 DEF PageActs

(* No step breaks the rules of requests and their answers.                 *)
LEMMA NextRequests ==
  ASSUME SessionTypes, SessionTypes', LinkInv, RequestInv, [Next]_vars
  PROVE  RequestInv'
<1>1. CASE UNCHANGED vars
  <2>1. UNCHANGED <<toHost, toPwa, rids, assembler>>
    BY <1>1 DEF vars, hostVars, netVars, linkVars, transferVars
  <2> QED
    BY <2>1 DEF RequestInv, Requested, Gathering
<1> QED
  BY <1>1, Steps, HostKeepsRequests, PageKeepsRequests

LEMMA InitRequests ==
  ASSUME Init
  PROVE  RequestInv
<1> DEFINE none == <<>>
<1>1. toHost = none /\ toPwa = none /\ Len(none) = 0 /\ assembler = None
  BY EmptySeq DEF Init, HostInit
<1> HIDE DEF none
<1> QED
  BY <1>1 DEF RequestInv, Requested, Gathering

-----------------------------------------------------------------------------
(* The records of a branch.                                                *)

(* What lies at the place of a record.                                     *)
RecordAt(session, b, r) ==
  /\ r.at \in 1..Len(b) /\ r.event.session = session /\ r.event.gen = generation
  /\ r.event.id = b[r.at].id
  /\ \/ /\ b[r.at].type = "marker" /\ Target(b, r.at, b[r.at].role) # 0
        /\ r.event = ToEvent(session, b[r.at].id, FALSE, b[r.at].role, b[r.at].group)
     \/ /\ b[r.at].type = "message"
        /\ r.event = ToEvent(session, b[r.at].id, TRUE, b[r.at].role, 0)
     \/ /\ b[r.at].type \in {"custom", "compaction"}
        /\ r.event = ToEvent(session, b[r.at].id, FALSE, "system", 0)

LEMMA RecordIs ==
  ASSUME NEW session, NEW b \in Seq(Entry), NEW r \in Recovered(session, b)
  PROVE  RecordAt(session, b, r)
<1>1. DOMAIN b = 1..Len(b)
  BY LenProperties
<1> DEFINE marked == {i \in DOMAIN b : b[i].type = "marker" /\ Target(b, i, b[i].role) # 0}
           matched == {Target(b, i, b[i].role) : i \in marked}
<1>2. CASE \E i \in marked :
             r = [at |-> i, event |-> ToEvent(session, b[i].id, FALSE, b[i].role, b[i].group)]
  <2>1. PICK i \in marked :
          r = [at |-> i, event |-> ToEvent(session, b[i].id, FALSE, b[i].role, b[i].group)]
    BY <1>2
  <2>2. i \in 1..Len(b) /\ b[i].type = "marker" /\ Target(b, i, b[i].role) # 0
    BY <1>1
  <2>3. r.at = i /\ r.event = ToEvent(session, b[i].id, FALSE, b[i].role, b[i].group)
    BY <2>1
  <2>4. r.event.session = session /\ r.event.gen = generation /\ r.event.id = b[i].id
    BY <2>3 DEF ToEvent
  <2> HIDE DEF marked
  <2> QED
    BY <2>2, <2>3, <2>4 DEF RecordAt
<1>3. CASE \E i \in {j \in DOMAIN b \ matched : b[j].type = "message"} :
             r = [at |-> i, event |-> ToEvent(session, b[i].id, TRUE, b[i].role, 0)]
  <2>1. PICK i \in {j \in DOMAIN b \ matched : b[j].type = "message"} :
          r = [at |-> i, event |-> ToEvent(session, b[i].id, TRUE, b[i].role, 0)]
    BY <1>3
  <2>2. i \in 1..Len(b) /\ b[i].type = "message"
    BY <1>1
  <2>3. r.at = i /\ r.event = ToEvent(session, b[i].id, TRUE, b[i].role, 0)
    BY <2>1
  <2>4. r.event.session = session /\ r.event.gen = generation /\ r.event.id = b[i].id
    BY <2>3 DEF ToEvent
  <2> HIDE DEF marked, matched
  <2> QED
    BY <2>2, <2>3, <2>4 DEF RecordAt
<1>4. CASE \E i \in {j \in DOMAIN b : b[j].type \in {"custom", "compaction"}} :
             r = [at |-> i, event |-> ToEvent(session, b[i].id, FALSE, "system", 0)]
  <2>1. PICK i \in {j \in DOMAIN b : b[j].type \in {"custom", "compaction"}} :
          r = [at |-> i, event |-> ToEvent(session, b[i].id, FALSE, "system", 0)]
    BY <1>4
  <2>2. i \in 1..Len(b) /\ b[i].type \in {"custom", "compaction"}
    BY <1>1
  <2>3. r.at = i /\ r.event = ToEvent(session, b[i].id, FALSE, "system", 0)
    BY <2>1
  <2>4. r.event.session = session /\ r.event.gen = generation /\ r.event.id = b[i].id
    BY <2>3 DEF ToEvent
  <2> QED
    BY <2>2, <2>3, <2>4 DEF RecordAt
<1> QED
  BY <1>2, <1>3, <1>4 DEF Recovered

(* A marker whose message follows is a record.                             *)
LEMMA MarkerIsRecord ==
  ASSUME NEW session, NEW b \in Seq(Entry), NEW i \in 1..Len(b), b[i].type = "marker",
         Target(b, i, b[i].role) # 0
  PROVE  [at |-> i, event |-> ToEvent(session, b[i].id, FALSE, b[i].role, b[i].group)]
           \in Recovered(session, b)
<1>1. DOMAIN b = 1..Len(b)
  BY LenProperties
<1> QED
  BY <1>1 DEF Recovered

LEMMA PlacesDistinct ==
  ASSUME NEW session, NEW b \in Seq(Entry), NEW r \in Recovered(session, b),
         NEW s \in Recovered(session, b), r.at = s.at
  PROVE  r.event = s.event
<1>1. RecordAt(session, b, r) /\ RecordAt(session, b, s)
  BY RecordIs
<1> QED
  BY <1>1 DEF RecordAt

(* A record of a marked message.                                           *)
LEMMA MarkedIs ==
  ASSUME NEW session, NEW b \in Seq(Entry), NEW r \in Recovered(session, b)
  PROVE  /\ r.at \in 1..Len(b)
         /\ IsMarked(r) => /\ b[r.at].type = "marker" /\ Target(b, r.at, b[r.at].role) # 0
                           /\ r.event.group = b[r.at].group /\ r.event.id = b[r.at].id
                           /\ r.event.kind = b[r.at].role
                           /\ r.event = ToEvent(session, b[r.at].id, FALSE, b[r.at].role,
                                                b[r.at].group)
         /\ r.event.kind # "system" => \/ IsMarked(r)
                                       \/ r.event.legacy /\ r.event.group = 0
                                          /\ b[r.at].type = "message"
<1>1. RecordAt(session, b, r)
  BY RecordIs
<1>2. CASE /\ b[r.at].type = "marker" /\ Target(b, r.at, b[r.at].role) # 0
           /\ r.event = ToEvent(session, b[r.at].id, FALSE, b[r.at].role, b[r.at].group)
  <2>1. ~r.event.legacy /\ r.event.group = b[r.at].group /\ r.event.id = b[r.at].id
        /\ r.event.kind = b[r.at].role
    BY <1>2 DEF ToEvent
  <2> QED
    BY <1>1, <1>2, <2>1 DEF IsMarked, RecordAt
<1>3. CASE /\ b[r.at].type = "message"
           /\ r.event = ToEvent(session, b[r.at].id, TRUE, b[r.at].role, 0)
  <2>1. r.event.legacy /\ r.event.group = 0
    BY <1>3 DEF ToEvent
  <2> QED
    BY <1>1, <1>3, <2>1 DEF IsMarked, RecordAt
<1>4. CASE r.event = ToEvent(session, b[r.at].id, FALSE, "system", 0)
  <2>1. r.event.kind = "system"
    BY <1>4 DEF ToEvent
  <2> QED
    BY <1>1, <2>1 DEF IsMarked, RecordAt
<1> QED
  BY <1>1, <1>2, <1>3, <1>4 DEF RecordAt

-----------------------------------------------------------------------------
(* Where a window begins.                                                  *)

LEMMA FirstPlaceOf ==
  ASSUME NEW records \in SUBSET Place, NEW g \in GroupsOf(records)
  PROVE  /\ FirstPlace(records, g) \in Nat \ {0}
         /\ \E r \in records : /\ r.at = FirstPlace(records, g)
                               /\ r.event.kind # "system" /\ r.event.group = g
         /\ \A r \in records : r.event.kind # "system" /\ r.event.group = g =>
              FirstPlace(records, g) <= r.at
<1> DEFINE S == {r.at : r \in {x \in records : x.event.kind # "system" /\ x.event.group = g}}
<1>1. S \in SUBSET (Nat \ {0}) /\ S # {}
  BY DEF Place, GroupsOf
<1>2. Min(S) \in S /\ \A x \in S : Min(S) <= x
  BY <1>1, LeastIs
<1>3. FirstPlace(records, g) = Min(S)
  BY DEF FirstPlace
<1>4. PICK r \in records : r.at = Min(S) /\ r.event.kind # "system" /\ r.event.group = g
  BY <1>2
<1>5. \A x \in records : x.event.kind # "system" /\ x.event.group = g => Min(S) <= x.at
  BY <1>2
<1> HIDE DEF S
<1> QED
  BY <1>1, <1>2, <1>3, <1>4, <1>5

LEMMA GroupsFinite ==
  ASSUME NEW session, NEW b \in Seq(Entry), NEW records \in SUBSET Recovered(session, b)
  PROVE  IsFiniteSet(GroupsOf(records))
<1> DEFINE n == Len(b)
           f == [i \in 1..n |-> IF b[i].type = "marker" THEN b[i].group ELSE 0]
           T == {f[i] : i \in 1..n}
<1>1. n \in Nat
  BY LenProperties
<1>2. IsFiniteSet(1..n)
  BY <1>1, FS_Interval
<1>3. f \in Surjection(1..n, T)
  BY DEF Surjection
<1>4. IsFiniteSet(T)
  <2> HIDE DEF f, T, n
  <2> QED
    BY <1>2, <1>3, FS_Surjection
<1>5. GroupsOf(records) \subseteq T
  <2> SUFFICES ASSUME NEW r \in records, r.event.kind # "system"
               PROVE  r.event.group \in T
    BY DEF GroupsOf
  <2>1. r.at \in 1..n
    BY MarkedIs
  <2>2. r.event.group = f[r.at]
    <3>1. CASE IsMarked(r)
      BY <2>1, <3>1, MarkedIs
    <3>2. CASE ~IsMarked(r)
      <4>1. r.event.group = 0 /\ b[r.at].type = "message"
        BY <3>2, MarkedIs
      <4> QED
        BY <2>1, <4>1
    <3> QED
      BY <3>1, <3>2
  <2> QED
    BY <2>1, <2>2
<1> HIDE DEF T
<1> QED
  BY <1>4, <1>5, FS_Subset

(* The records of a branch up to a place.                                  *)
RecordsOf(session, b, records) ==
  /\ session \in Nat /\ b \in Seq(Entry) /\ generation \in Nat
  /\ records \subseteq Recovered(session, b)

LEMMA RecordsTyped ==
  ASSUME NEW session, NEW b, NEW records, RecordsOf(session, b, records)
  PROVE  /\ records \in SUBSET Place /\ Len(b) \in Nat
         /\ \A r \in records : r.at \in Nat /\ r.at <= Len(b)
<1>1. \A r \in Recovered(session, b) : r \in Place /\ r.at \in 1..Len(b)
  BY RecoveredTyped DEF RecordsOf
<1>2. Len(b) \in Nat
  BY LenProperties DEF RecordsOf
<1> QED
  BY <1>1, <1>2 DEF RecordsOf

LEMMA WindowBegins ==
  ASSUME NEW session, NEW b, NEW records, RecordsOf(session, b, records),
         HasOlder(records) \/ GroupsOf(records) # {}
  PROVE  /\ \E g \in Chosen(records) : SelectWindow(records).start = FirstPlace(records, g)
         /\ SelectWindow(records).start \in Nat
         /\ \A r \in records : r.event.kind # "system" /\ r.event.group \in Chosen(records) =>
              r \in SelectWindow(records).records
         /\ \A g \in Chosen(records) : g \in GroupsOf(records)
<1> DEFINE systems == {r \in records : r.event.kind = "system"}
           F == {FirstPlace(records, g) : g \in Chosen(records)}
           A == {r.at : r \in systems}
<1>1. records \in SUBSET Place /\ Len(b) \in Nat /\ \A r \in records : r.at \in Nat /\ r.at <= Len(b)
  BY RecordsTyped
<1>2. \A g \in Chosen(records) : g \in GroupsOf(records)
  BY DEF Chosen
<1>3. GroupsOf(records) # {}
  <2> SUFFICES ASSUME HasOlder(records), GroupsOf(records) = {}
               PROVE  FALSE
    OBVIOUS
  <2>1. PICK r \in records : r.at < SelectWindow(records).start
    BY DEF HasOlder
  <2>2. Chosen(records) = {} /\ records # {}
    BY <1>2, <2>1
  <2>3. SelectWindow(records).start = Min(A)
    BY <2>2 DEF SelectWindow
  <2>4. r \in systems
    BY DEF GroupsOf
  <2>5. A \in SUBSET Nat /\ r.at \in A
    BY <1>1, <2>4
  <2>6. Min(A) <= r.at /\ Min(A) \in Nat
    <3> HIDE DEF A
    <3> QED
      BY <2>5, LeastIs
  <2> QED
    BY <1>1, <2>1, <2>3, <2>6
<1>4. Chosen(records) # {} /\ records # {}
  <2>1. Chosen(records) # {}
    BY <1>1, <1>3, SomeChosen
  <2> QED
    BY <1>3, <2>1 DEF GroupsOf
<1>5. F # {} /\ F \in SUBSET (Nat \ {0})
  <2>1. \A g \in Chosen(records) : FirstPlace(records, g) \in Nat \ {0}
    BY <1>1, <1>2, FirstPlaceIs
  <2> QED
    BY <1>4, <2>1
<1>6. Min(F) \in F
  BY <1>5, LeastIs
<1>7. SelectWindow(records) =
        [records |-> {r \in records : IF r.event.kind = "system" THEN r.at >= Min(F)
                                      ELSE r.event.group \in Chosen(records)},
         start |-> Min(F)]
  BY <1>4 DEF SelectWindow
<1>8. PICK g \in Chosen(records) : Min(F) = FirstPlace(records, g)
  BY <1>6
<1>9. Min(F) \in Nat
  BY <1>5, <1>6
<1> HIDE DEF F
<1>10. SelectWindow(records).start = Min(F)
  BY <1>7
<1>11. SelectWindow(records).records =
         {r \in records : IF r.event.kind = "system" THEN r.at >= Min(F)
                          ELSE r.event.group \in Chosen(records)}
  BY <1>7
<1> QED
  BY <1>2, <1>8, <1>9, <1>10, <1>11

(* A group that begins no earlier than a chosen one is chosen.             *)
LEMMA LaterChosen ==
  ASSUME NEW session, NEW b, NEW records, RecordsOf(session, b, records),
         NEW g \in Chosen(records), NEW h \in GroupsOf(records),
         FirstPlace(records, g) <= FirstPlace(records, h)
  PROVE  h \in Chosen(records)
<1> DEFINE Above(x) == {k \in GroupsOf(records) : FirstPlace(records, k) > FirstPlace(records, x)}
<1>1. records \in SUBSET Place
  BY RecordsTyped
<1>2. \A k \in GroupsOf(records) : FirstPlace(records, k) \in Nat
  BY <1>1, FirstPlaceIs
<1>3. IsFiniteSet(GroupsOf(records))
  BY GroupsFinite DEF RecordsOf
<1>4. g \in GroupsOf(records) /\ Cardinality(Above(g)) < WindowGroups
  BY DEF Chosen
<1>5. Above(h) \subseteq Above(g)
  BY <1>2, <1>4
<1>6. IsFiniteSet(Above(g))
  BY <1>3, FS_Subset
<1>7. Cardinality(Above(h)) <= Cardinality(Above(g)) /\ Cardinality(Above(h)) \in Nat
      /\ Cardinality(Above(g)) \in Nat
  <2> HIDE DEF Above
  <2>1. IsFiniteSet(Above(h)) /\ Cardinality(Above(h)) <= Cardinality(Above(g))
    BY <1>5, <1>6, FS_Subset
  <2> QED
    BY <1>6, <2>1, FS_CardinalityType
<1>8. Cardinality(Above(h)) < WindowGroups
  <2> HIDE DEF Above
  <2> QED
    BY <1>4, <1>7, HostSessionAssumption
<1> QED
  BY <1>8 DEF Chosen

-----------------------------------------------------------------------------
(* What a window takes.                                                    *)

MarkersOf(b) == {i \in 1..Len(b) : b[i].type = "marker"}

(* The markers of a group come one after another; numbers to n are taken.  *)
Orderly(b, n) ==
  /\ \A i \in MarkersOf(b) : b[i].group # 0 /\ b[i].group <= n /\ b[i].id <= n
  /\ \A i, j \in MarkersOf(b) : b[i].id = b[j].id => i = j
  /\ \A i, j, k \in MarkersOf(b) :
       i < k /\ k < j /\ b[i].group = b[j].group => b[k].group = b[i].group

(* CutOff among some records.                                              *)
Severed(records, r) ==
  \E x, y \in records : /\ x.event.legacy /\ IsMarked(y) /\ y.event.group = r.event.group
                        /\ y.at < x.at /\ x.at < r.at

(* A marked record from where the window begins is in it, unless it is cut *)
(* off from the beginning of its group.                                    *)
LEMMA WindowTakes ==
  ASSUME NEW session, NEW b, NEW records, RecordsOf(session, b, records),
         NEW n, Orderly(b, n),
         NEW r \in records, IsMarked(r), ~Severed(records, r),
         ~(r.at < SelectWindow(records).start)
  PROVE  r \in SelectWindow(records).records
<1> DEFINE G == r.event.group
<1>1. b \in Seq(Entry) /\ \A x \in records : x \in Recovered(session, b)
  BY DEF RecordsOf
<1>2. records \in SUBSET Place /\ \A x \in records : x.at \in Nat
  BY RecordsTyped
<1>3. r.event.kind # "system" /\ G \in GroupsOf(records)
  BY DEF IsMarked, GroupsOf
<1>4. r.at \in MarkersOf(b) /\ b[r.at].group = G /\ G # 0
  <2>1. r.at \in 1..Len(b) /\ b[r.at].type = "marker" /\ r.event.group = b[r.at].group
    BY <1>1, MarkedIs
  <2>2. r.at \in MarkersOf(b)
    BY <2>1 DEF MarkersOf
  <2> QED
    BY <2>1, <2>2 DEF Orderly
<1>5. PICK g \in Chosen(records) : SelectWindow(records).start = FirstPlace(records, g)
  BY <1>3, WindowBegins
<1>6. g \in GroupsOf(records)
  BY DEF Chosen
<1>7. \A x \in records : x.event.kind # "system" /\ x.event.group \in Chosen(records) =>
        x \in SelectWindow(records).records
  BY <1>3, WindowBegins
<1>8. CASE G \in Chosen(records)
  BY <1>3, <1>7, <1>8
<1>9. CASE G \notin Chosen(records)
  <2>1. FirstPlace(records, G) \in Nat /\ FirstPlace(records, g) \in Nat
    BY <1>2, <1>3, <1>6, FirstPlaceIs
  <2>2. FirstPlace(records, G) < FirstPlace(records, g)
    <3>1. ~(FirstPlace(records, g) <= FirstPlace(records, G))
      BY <1>3, <1>9, LaterChosen
    <3> QED
      BY <2>1, <3>1
  <2>3. FirstPlace(records, g) <= r.at
    BY <1>2, <1>5, <2>1
  <2>4. PICK y \in records : /\ y.at = FirstPlace(records, G)
                             /\ y.event.kind # "system" /\ y.event.group = G
    BY <1>2, <1>3, FirstPlaceOf
  <2>5. PICK x \in records : /\ x.at = FirstPlace(records, g)
                             /\ x.event.kind # "system" /\ x.event.group = g
    BY <1>2, <1>6, FirstPlaceOf
  <2>6. IsMarked(y) /\ y.at \in MarkersOf(b) /\ b[y.at].group = G
    BY <1>1, <1>4, <2>4, MarkedIs DEF MarkersOf
  <2>7. x.at # r.at
    <3> SUFFICES ASSUME x.at = r.at
                 PROVE  FALSE
      OBVIOUS
    <3>1. x.event = r.event
      BY <1>1, PlacesDistinct
    <3> QED
      BY <1>9, <2>5, <3>1
  <2>8. y.at < x.at /\ x.at < r.at
    BY <1>2, <2>2, <2>3, <2>4, <2>5, <2>7
  <2>9. CASE IsMarked(x)
    <3>1. x.at \in MarkersOf(b) /\ b[x.at].group = g
      BY <1>1, <2>5, <2>9, MarkedIs DEF MarkersOf
    <3>2. b[x.at].group = b[y.at].group
      BY <1>4, <2>6, <2>8, <3>1 DEF Orderly
    <3> QED
      BY <1>9, <2>6, <3>1, <3>2
  <2>10. CASE ~IsMarked(x)
    <3>1. x.event.legacy
      BY <1>1, <2>5, <2>10, MarkedIs
    <3>2. Severed(records, r)
      BY <2>4, <2>6, <2>8, <3>1 DEF Severed
    <3> QED
      BY <3>2
  <2> QED
    BY <2>9, <2>10
<1> QED
  BY <1>8, <1>9

(* A payload has an event whole, or a part of it.                          *)
Bears(payload, e) == e \in payload.events \/ \E p \in payload.fragments : p.event = e

LEMMA PayloadsBring ==
  ASSUME NEW records \in SUBSET Place, NEW r \in records,
         \A x, y \in records : x.at = y.at => x.event = y.event,
         NEW payloads \in Payloads(records)
  PROVE  \E i \in 1..Len(payloads) : Bears(payloads[i], r.event)
<1> DEFINE earlier(x) == {y.event : y \in {z \in records : z.at < x.at}}
           later(x) == {y.event : y \in {z \in records : z.at > x.at}}
           payload(es, fs) == [events |-> es, fragments |-> fs]
<1>1. CASE payloads = <<payload({x.event : x \in records}, {})>>
  <2>1. Len(payloads) = 1 /\ payloads[1] = payload({x.event : x \in records}, {})
    BY <1>1
  <2>2. Bears(payloads[1], r.event)
    BY <2>1 DEF Bears
  <2>3. 1 \in 1..Len(payloads)
    BY <2>1
  <2> HIDE DEF earlier, later, payload
  <2> QED
    BY <2>2, <2>3
<1>2. ASSUME NEW x \in records
      PROVE  r.event \in earlier(x) \/ r.event = x.event \/ r.event \in later(x)
  <2>1. r.at \in Nat /\ x.at \in Nat
    BY DEF Place
  <2> QED
    BY <2>1
<1>3. CASE \E x \in records :
             payloads = <<payload(earlier(x), {}), payload({x.event} \cup later(x), {})>>
  <2>1. PICK x \in records :
          payloads = <<payload(earlier(x), {}), payload({x.event} \cup later(x), {})>>
    BY <1>3
  <2>2. PICK B, A : B = earlier(x) /\ A = later(x)
    OBVIOUS
  <2>3. r.event \in B \/ r.event = x.event \/ r.event \in A
    BY <1>2, <2>2
  <2>4. /\ Len(payloads) = 2 /\ payloads[1] = payload(B, {})
        /\ payloads[2] = payload({x.event} \cup A, {})
    BY <2>1, <2>2
  <2>5. Bears(payloads[1], r.event) \/ Bears(payloads[2], r.event)
    BY <2>3, <2>4 DEF Bears
  <2>6. 1 \in 1..Len(payloads) /\ 2 \in 1..Len(payloads)
    BY <2>4
  <2> HIDE DEF earlier, later, payload
  <2> QED
    BY <2>5, <2>6
<1>4. CASE \E x \in records :
             payloads = <<payload(earlier(x), {Fragments(x.event)[1]}),
                          payload(later(x), {Fragments(x.event)[2]})>>
  <2>1. PICK x \in records :
          payloads = <<payload(earlier(x), {Fragments(x.event)[1]}),
                       payload(later(x), {Fragments(x.event)[2]})>>
    BY <1>4
  <2>2. PICK B, A, P, Q : /\ B = earlier(x) /\ A = later(x)
                          /\ P = Fragments(x.event)[1] /\ Q = Fragments(x.event)[2]
    OBVIOUS
  <2>3. r.event \in B \/ r.event = x.event \/ r.event \in A
    BY <1>2, <2>2
  <2>4. P.event = x.event
    <3>1. x.event \in Event
      BY DEF Place
    <3> QED
      BY <2>2, <3>1, FragmentsTyped
  <2>5. /\ Len(payloads) = 2 /\ payloads[1] = payload(B, {P}) /\ payloads[2] = payload(A, {Q})
    BY <2>1, <2>2
  <2>6. Bears(payloads[1], r.event) \/ Bears(payloads[2], r.event)
    BY <2>3, <2>4, <2>5 DEF Bears
  <2>7. 1 \in 1..Len(payloads) /\ 2 \in 1..Len(payloads)
    BY <2>5
  <2> HIDE DEF earlier, later, payload
  <2> QED
    BY <2>6, <2>7
<1> QED
  BY <1>1, <1>3, <1>4 DEF Payloads

-----------------------------------------------------------------------------
(* The cursors of a service: each has its number, and begins where a       *)
(* message is, so that what is older was whole when it was made.           *)

Grounded(c) ==
  /\ c.position + 1 \in 1..Len(c.prefix)
  /\ c.prefix[c.position + 1].type \in {"marker", "message"}

Leads(b) ==
  /\ \A c \in b.cursors : 1 <= c.id /\ c.id <= Cardinality(b.cursors) /\ Grounded(c)
  /\ \A c, d \in b.cursors : c.id = d.id => c = d

CursorInv == binding # None => Leads(binding)

LEMMA SameLeads ==
  ASSUME NEW b, NEW c, c.cursors = b.cursors, Leads(b)
  PROVE  Leads(c)
  BY DEF Leads

LEMMA SpentLeads ==
  ASSUME NEW b, Serviceable(b), Leads(b), NEW f
  PROVE  Leads(Spent(b, f)) /\ Cardinality(Spent(b, f).cursors) = Cardinality(b.cursors)
<1>1. /\ IsFiniteSet(b.cursors) /\ b.cursors \in SUBSET Cursor
      /\ Spent(b, f).cursors = UsedUp(b, f)
  BY SpentIs DEF Serviceable, Service
<1>2. CASE Asks(b, f) = {}
  <2>1. UsedUp(b, f) = b.cursors
    BY <1>2 DEF UsedUp
  <2> QED
    BY <1>1, <2>1, SameLeads
<1>3. CASE Asks(b, f) # {}
  <2>1. PICK c \in b.cursors : c.id = f.before
    BY <1>3 DEF Asks
  <2>2. Asks(b, f) = {c}
    BY <2>1 DEF Asks, Leads
  <2>3. PICK d : d = [c EXCEPT !.used = TRUE]
    OBVIOUS
  <2>4. d.id = c.id /\ d.prefix = c.prefix /\ d.position = c.position
    BY <1>1, <2>3 DEF Cursor
  <2>5. UsedUp(b, f) = (b.cursors \ {c}) \cup {d}
    BY <2>2, <2>3 DEF UsedUp
  <2>6. d \notin b.cursors \ {c}
    BY <2>1, <2>4 DEF Leads
  <2>7. Cardinality(UsedUp(b, f)) = Cardinality(b.cursors)
    <3>1. /\ IsFiniteSet(b.cursors \ {c})
          /\ Cardinality(b.cursors \ {c}) = Cardinality(b.cursors) - 1
      BY <1>1, <2>1, FS_RemoveElement
    <3>2. Cardinality((b.cursors \ {c}) \cup {d}) = Cardinality(b.cursors \ {c}) + 1
      BY <2>6, <3>1, FS_AddElement
    <3>3. Cardinality(b.cursors) \in Nat
      BY <1>1, FS_CardinalityType
    <3> QED
      BY <2>5, <3>1, <3>2, <3>3
  <2>8. \A x \in UsedUp(b, f) : 1 <= x.id /\ x.id <= Cardinality(b.cursors) /\ Grounded(x)
    <3>1. Grounded(d)
      BY <2>1, <2>4 DEF Leads, Grounded
    <3> QED
      BY <2>1, <2>4, <2>5, <3>1 DEF Leads
  <2>9. \A x, y \in UsedUp(b, f) : x.id = y.id => x = y
    BY <2>1, <2>4, <2>5 DEF Leads
  <2> QED
    BY <1>1, <2>7, <2>8, <2>9 DEF Leads
<1> QED
  BY <1>2, <1>3

(* Where a page begins that is not the oldest.                             *)
LEMMA OlderGrounded ==
  ASSUME HostTypes, NEW b, Serviceable(b), NEW prefix \in Seq(Entry), NEW position \in Nat,
         HasOlder(Paged(b, prefix, position))
  PROVE  Grounded(CursorOf(b, prefix, position))
<1> DEFINE c == CursorOf(b, prefix, position)
<1>1. PICK records : records = Paged(b, prefix, position)
  OBVIOUS
<1>2. b.session \in Nat /\ generation \in Nat /\ records \subseteq Recovered(b.session, prefix)
  BY <1>1 DEF Serviceable, Service, HostTypes, HostTypeOK, SessionTypeOK, Paged
<1>3. RecordsOf(b.session, prefix, records)
  BY <1>2 DEF RecordsOf
<1>4. PICK g \in Chosen(records) : SelectWindow(records).start = FirstPlace(records, g)
  BY <1>1, <1>3, WindowBegins
<1>5. records \in SUBSET Place /\ g \in GroupsOf(records)
  BY <1>3, RecordsTyped DEF Chosen
<1>6. PICK r \in records : /\ r.at = FirstPlace(records, g)
                           /\ r.event.kind # "system" /\ r.event.group = g
  BY <1>5, FirstPlaceOf
<1>7. r.at \in 1..Len(prefix) /\ prefix[r.at].type \in {"marker", "message"}
  BY <1>2, <1>6, MarkedIs
<1>8. c.position = r.at - 1 /\ c.prefix = prefix
  BY <1>1, <1>4, <1>6 DEF CursorOf
<1>9. c.position + 1 = r.at
  BY <1>7, <1>8
<1> HIDE DEF c
<1> QED
  BY <1>7, <1>8, <1>9 DEF Grounded, c

LEMMA PageLeads ==
  ASSUME HostTypes, NEW b, Serviceable(b), Leads(b), NEW rid, NEW prefix \in Seq(Entry),
         NEW position \in Nat, Page(b, rid, prefix, position)
  PROVE  Leads(binding')
<1>1. b \in Service /\ IsFiniteSet(b.cursors) /\ Cardinality(b.cursors) \in Nat
      /\ b.cursors \in SUBSET Cursor
  BY PagedTyped DEF Serviceable, Service
<1>2. PICK c, older : c = CursorOf(b, prefix, position) /\ older = HasOlder(Paged(b, prefix, position))
  OBVIOUS
<1>3. binding' = [b EXCEPT !.cursors = IF older THEN @ \cup {c} ELSE @]
  BY <1>2, PageIs
<1>4. binding'.cursors = IF older THEN b.cursors \cup {c} ELSE b.cursors
  BY <1>1, <1>3 DEF Service
<1>5. CASE ~older
  BY <1>4, <1>5, SameLeads
<1>6. CASE older
  <2>1. Grounded(c)
    BY <1>2, <1>6, OlderGrounded
  <2>2. c.id = Cardinality(b.cursors) + 1
    BY <1>2 DEF CursorOf
  <2>3. \A x \in b.cursors : 1 <= x.id /\ x.id <= Cardinality(b.cursors) /\ Grounded(x)
                             /\ x.id \in Nat
    BY <1>1 DEF Leads, Cursor
  <2>4. c \notin b.cursors
    BY <1>1, <2>2, <2>3
  <2>5. binding'.cursors = b.cursors \cup {c}
    BY <1>4, <1>6
  <2>6. Cardinality(binding'.cursors) = Cardinality(b.cursors) + 1
    BY <1>1, <2>4, <2>5, FS_AddElement
  <2>7. \A x \in binding'.cursors :
          1 <= x.id /\ x.id <= Cardinality(binding'.cursors) /\ Grounded(x)
    BY <1>1, <2>1, <2>2, <2>3, <2>5, <2>6
  <2>8. \A x, y \in binding'.cursors : x.id = y.id => x = y
    <3> SUFFICES ASSUME NEW x \in b.cursors \cup {c}, NEW y \in b.cursors \cup {c}, x.id = y.id
                 PROVE  x = y
      BY <2>5
    <3>1. x \in b.cursors => x.id <= Cardinality(b.cursors) /\ x.id \in Nat
      BY <2>3
    <3>2. y \in b.cursors => y.id <= Cardinality(b.cursors) /\ y.id \in Nat
      BY <2>3
    <3>3. x \in b.cursors /\ y \in b.cursors => x = y
      BY DEF Leads
    <3> QED
      BY <1>1, <2>2, <3>1, <3>2, <3>3
  <2> QED
    BY <2>7, <2>8 DEF Leads
<1> QED
  BY <1>5, <1>6

-----------------------------------------------------------------------------
(* A request of the page's makes one cursor more.                          *)

LEMMA SyncLeads ==
  ASSUME HostTypes, NEW b, Serviceable(b), Leads(b), NEW f \in ClientFrame, f.type = "sync",
         Sync(b, f)
  PROVE  Leads(binding')
<1>1. f.rid \in Nat /\ Serviceable(Spent(b, f)) /\ b.session \in 1..Len(branches)
  BY ClientFields, SpentIs DEF Serviceable
<1>2. Leads(Spent(b, f))
  BY SpentLeads
<1>3. CASE HeadPage(b, f)
  <2>1. branches[b.session] \in Seq(Entry)
    BY <1>1, CurrentIs
  <2>2. Len(branches[b.session]) \in Nat
    BY <2>1, LenProperties
  <2> QED
    BY <1>3, <2>1, <2>2, PageLeads DEF HeadPage
<1>4. CASE NoPage(b, f)
  BY <1>2, <1>4 DEF NoPage
<1>5. CASE \E c \in b.cursors : OlderPage(b, f, c)
  <2>1. PICK c \in b.cursors : OlderPage(b, f, c)
    BY <1>5
  <2>2. c.prefix \in Seq(Entry) /\ c.position \in Nat
    BY DEF Serviceable, Service, Cursor
  <2> QED
    BY <1>1, <1>2, <2>1, <2>2, PageLeads DEF OlderPage
<1> QED
  BY <1>3, <1>4, <1>5, SyncCases

LEMMA ServerLeads ==
  ASSUME CursorInv
  PROVE  Leads(Server)
<1>1. CASE binding = None
  BY <1>1 DEF Server, Leads
<1> QED
  BY <1>1 DEF Server, CursorInv

LEMMA HostKeepsCursors ==
  ASSUME HostTypes, CursorInv, HostNext
  PROVE  CursorInv'
<1>1. CASE SeatStays
  <2>1. CASE binding' = None
    BY <2>1 DEF CursorInv
  <2>2. CASE binding # None /\ binding'.cursors = binding.cursors
    BY <2>2, SameLeads DEF CursorInv
  <2> QED
    BY <1>1, <2>1, <2>2 DEF SeatStays
<1>2. CASE HostMoves(News)
  BY <1>1, <1>2 DEF HostMoves
<1>3. CASE HostReconnects
  BY <1>3 DEF HostReconnects, CursorInv
<1>4. CASE HostServes
  <2>1. PICK b, f : b = Server /\ f = Head(toHost)
    OBVIOUS
  <2>2. Serviceable(b) /\ f \in ClientFrame /\ Serves(b, f) /\ Leads(b)
    BY <1>4, <2>1, ServerTyped, ServerLeads DEF HostServes
  <2>3. CASE UNCHANGED binding
    BY <2>3 DEF CursorInv
  <2>4. CASE Hello(b, f)
    <3>1. binding'.cursors = b.cursors
      BY <2>2, <2>4 DEF Hello, Serviceable, Service
    <3> QED
      BY <2>2, <3>1, SameLeads DEF CursorInv
  <2>5. CASE Minor(b)
    BY <2>2, <2>5, SameLeads DEF Minor, CursorInv
  <2>6. CASE f.type = "sync" /\ Sync(b, f)
    BY <2>2, <2>6, SyncLeads DEF CursorInv
  <2> QED
    BY <2>2, <2>3, <2>4, <2>5, <2>6 DEF Serves
<1> QED
  BY <1>2, <1>3, <1>4, HostSteps

(* No step breaks the rules of the cursors.                                *)
LEMMA NextCursors ==
  ASSUME SessionTypes, LinkInv, CursorInv, [Next]_vars
  PROVE  CursorInv'
<1>1. CASE UNCHANGED binding
  BY <1>1 DEF CursorInv
<1>2. CASE UNCHANGED vars
  BY <1>1, <1>2 DEF vars, hostVars, serviceVars
<1>3. CASE PageActs /\ UNCHANGED hostSide
  BY <1>1, <1>3, HostSideIs
<1> QED
  BY <1>2, <1>3, Steps, HostKeepsCursors DEF SessionTypes

LEMMA InitCursors ==
  ASSUME Init
  PROVE  CursorInv
  BY DEF Init, HostInit, CursorInv

-----------------------------------------------------------------------------
(* The branch of the current session: the markers of a run come one after  *)
(* another, the last is of the message Pi is at, and unless a page took it *)
(* to another session the runtime is at it too.                            *)

IsLast(b, i) == i \in MarkersOf(b) /\ \A j \in MarkersOf(b) : j <= i

RunsOn == (sdk.msg # None => sdk.running) /\ (sdk.running => live) /\ (rt.group # 0 => sdk.running)

(* The message Pi is at has the last marker.                               *)
Announces(b) ==
  sdk.msg # None =>
    \E i \in MarkersOf(b) : IsLast(b, i) /\ b[i].id = sdk.msg.id /\ b[i].role = sdk.msg.role

(* The runtime goes on with the group of the last marker.                  *)
Continues(b) ==
  rt.attached = Current /\ rt.active /\ rt.group # 0 =>
    \E i \in MarkersOf(b) : IsLast(b, i) /\ b[i].group = rt.group

AtMessage ==
  ~strayed =>
    /\ rt.attached = Current
    /\ sdk.msg # None =>
         rt.pending # None /\ rt.pending.id = sdk.msg.id /\ rt.pending.session = Current

BranchInv ==
  /\ Orderly(branches[Current], minted) /\ RunsOn
  /\ Announces(branches[Current]) /\ Continues(branches[Current]) /\ AtMessage

(* c is b with one entry more.                                             *)
Adjoins(b, entry, c) ==
  /\ c \in Seq(Entry) /\ Len(b) \in Nat /\ Len(c) = Len(b) + 1
  /\ \A i \in 1..Len(b) : c[i] = b[i]
  /\ c[Len(b) + 1] = entry

LEMMA AppendedIs ==
  ASSUME NEW b \in Seq(Entry), NEW entry \in Entry, NEW c, c = Append(b, entry)
  PROVE  Adjoins(b, entry, c)
<1>1. /\ c \in Seq(Entry) /\ Len(b) \in Nat /\ Len(c) = Len(b) + 1
      /\ \A i \in 1..Len(b) : c[i] = b[i]
      /\ c[Len(b) + 1] = entry
  BY AppendProperties, LenProperties
<1> QED
  BY <1>1 DEF Adjoins

LEMMA AdjoinsMarkers ==
  ASSUME NEW b \in Seq(Entry), NEW entry \in Entry, NEW c, Adjoins(b, entry, c)
  PROVE  /\ entry.type = "marker" => MarkersOf(c) = MarkersOf(b) \cup {Len(b) + 1}
         /\ entry.type # "marker" => MarkersOf(c) = MarkersOf(b)
         /\ \A i \in MarkersOf(b) : i \in Nat /\ i <= Len(b) /\ c[i] = b[i]
<1>1. /\ c \in Seq(Entry) /\ Len(b) \in Nat /\ Len(c) = Len(b) + 1
      /\ \A i \in 1..Len(b) : c[i] = b[i]
      /\ c[Len(b) + 1] = entry
  BY DEF Adjoins
<1>2. \A i : i \in 1..Len(c) <=> i \in 1..Len(b) \/ i = Len(b) + 1
  BY <1>1
<1>3. /\ entry.type = "marker" => MarkersOf(c) = MarkersOf(b) \cup {Len(b) + 1}
      /\ entry.type # "marker" => MarkersOf(c) = MarkersOf(b)
  BY <1>1, <1>2 DEF MarkersOf
<1>4. \A i \in MarkersOf(b) : i \in Nat /\ i <= Len(b) /\ c[i] = b[i]
  BY <1>1 DEF MarkersOf
<1> QED
  BY <1>3, <1>4

LEMMA MarkersTyped ==
  ASSUME NEW b \in Seq(Entry)
  PROVE  \A i \in MarkersOf(b) : /\ i \in 1..Len(b) /\ i \in Nat /\ b[i] \in Entry
                                 /\ b[i].id \in Nat /\ b[i].group \in Nat
<1>1. \A i \in 1..Len(b) : b[i] \in Entry
  BY ElementOfSeq
<1>2. Len(b) \in Nat
  BY LenProperties
<1> QED
  BY <1>1, <1>2 DEF MarkersOf, Entry

LEMMA OrderlyMore ==
  ASSUME NEW b \in Seq(Entry), NEW m \in Nat, NEW n \in Nat, m <= n, Orderly(b, m)
  PROVE  Orderly(b, n)
<1>1. \A i \in MarkersOf(b) : b[i].group <= n /\ b[i].id <= n
  BY MarkersTyped DEF Orderly
<1> QED
  BY <1>1 DEF Orderly

LEMMA OrderlyPart ==
  ASSUME NEW b \in Seq(Entry), NEW c \in Seq(Entry), GrownFrom(c, b), NEW n, Orderly(b, n)
  PROVE  Orderly(c, n)
<1>1. Len(b) \in Nat /\ Len(c) \in Nat
  BY LenProperties
<1>2. \A i \in MarkersOf(c) : i \in MarkersOf(b) /\ c[i] = b[i]
  BY <1>1 DEF GrownFrom, MarkersOf
<1>3. \A i \in MarkersOf(c) : c[i].group # 0 /\ c[i].group <= n /\ c[i].id <= n
  BY <1>2 DEF Orderly
<1>4. \A i, j \in MarkersOf(c) : c[i].id = c[j].id => i = j
  BY <1>2 DEF Orderly
<1>5. \A i, j, k \in MarkersOf(c) :
        i < k /\ k < j /\ c[i].group = c[j].group => c[k].group = c[i].group
  BY <1>2 DEF Orderly
<1> QED
  BY <1>3, <1>4, <1>5 DEF Orderly

LEMMA OrderlyWord ==
  ASSUME NEW b \in Seq(Entry), NEW entry \in Entry, entry.type # "marker",
         NEW n, Orderly(b, n), NEW c, Adjoins(b, entry, c)
  PROVE  Orderly(c, n) /\ \A i : IsLast(b, i) => IsLast(c, i) /\ c[i] = b[i]
<1>1. MarkersOf(c) = MarkersOf(b) /\ \A i \in MarkersOf(b) : c[i] = b[i]
  BY AdjoinsMarkers
<1>2. Orderly(c, n)
  <2>1. \A i \in MarkersOf(c) : c[i].group # 0 /\ c[i].group <= n /\ c[i].id <= n
    BY <1>1 DEF Orderly
  <2>2. \A i, j \in MarkersOf(c) : c[i].id = c[j].id => i = j
    BY <1>1 DEF Orderly
  <2>3. \A i, j, k \in MarkersOf(c) :
          i < k /\ k < j /\ c[i].group = c[j].group => c[k].group = c[i].group
    BY <1>1 DEF Orderly
  <2> QED
    BY <2>1, <2>2, <2>3 DEF Orderly
<1>3. \A i : IsLast(b, i) => IsLast(c, i) /\ c[i] = b[i]
  BY <1>1 DEF IsLast
<1> QED
  BY <1>2, <1>3

LEMMA OrderlyMarker ==
  ASSUME NEW b \in Seq(Entry), NEW entry \in Entry, entry.type = "marker",
         NEW n \in Nat, Orderly(b, n), entry.id = n + 1,
         \/ entry.group = n + 1
         \/ \E i \in MarkersOf(b) : IsLast(b, i) /\ b[i].group = entry.group,
         NEW c, Adjoins(b, entry, c)
  PROVE  Orderly(c, n + 1) /\ IsLast(c, Len(b) + 1) /\ c[Len(b) + 1] = entry
<1> DEFINE l == Len(b) + 1
<1>1. /\ l \in Nat /\ MarkersOf(c) = MarkersOf(b) \cup {l} /\ c[l] = entry
      /\ \A i \in MarkersOf(b) : i \in Nat /\ i < l /\ c[i] = b[i]
  BY AdjoinsMarkers DEF Adjoins
<1>2. \A i \in MarkersOf(b) : /\ b[i].group \in Nat /\ b[i].id \in Nat
                              /\ b[i].group # 0 /\ b[i].group <= n /\ b[i].id <= n
  BY MarkersTyped DEF Orderly
<1> HIDE DEF l
<1>3. entry.group \in Nat /\ entry.group # 0 /\ entry.group <= n + 1
  BY <1>2
<1>4. IsLast(c, l)
  BY <1>1 DEF IsLast
<1>5. \A i \in MarkersOf(c) : c[i].group # 0 /\ c[i].group <= n + 1 /\ c[i].id <= n + 1
  BY <1>1, <1>2, <1>3
<1>6. \A i, j \in MarkersOf(c) : c[i].id = c[j].id => i = j
  <2> SUFFICES ASSUME NEW i \in MarkersOf(c), NEW j \in MarkersOf(c), c[i].id = c[j].id
               PROVE  i = j
    OBVIOUS
  <2>1. CASE i \in MarkersOf(b) /\ j \in MarkersOf(b)
    BY <1>1, <2>1 DEF Orderly
  <2>2. CASE i = l /\ j \in MarkersOf(b)
    BY <1>1, <1>2, <2>2
  <2>3. CASE j = l /\ i \in MarkersOf(b)
    BY <1>1, <1>2, <2>3
  <2> QED
    BY <1>1, <2>1, <2>2, <2>3
<1>7. \A i, j, k \in MarkersOf(c) :
        i < k /\ k < j /\ c[i].group = c[j].group => c[k].group = c[i].group
  <2> SUFFICES ASSUME NEW i \in MarkersOf(c), NEW j \in MarkersOf(c), NEW k \in MarkersOf(c),
                      i < k, k < j, c[i].group = c[j].group
               PROVE  c[k].group = c[i].group
    OBVIOUS
  <2>1. i \in Nat /\ j \in Nat /\ k \in Nat /\ i <= l /\ j <= l /\ k <= l
    BY <1>1
  <2>2. i \in MarkersOf(b) /\ k \in MarkersOf(b) /\ c[i] = b[i] /\ c[k] = b[k]
    BY <1>1, <2>1
  <2>3. CASE j \in MarkersOf(b)
    BY <1>1, <2>2, <2>3 DEF Orderly
  <2>4. CASE j = l
    <3>1. b[i].group = entry.group
      BY <1>1, <2>2, <2>4
    <3>2. PICK m \in MarkersOf(b) : IsLast(b, m) /\ b[m].group = entry.group
      BY <1>2, <2>2, <3>1
    <3>3. k <= m /\ m \in Nat
      BY <1>1, <2>2, <3>2 DEF IsLast
    <3>4. CASE k = m
      BY <2>2, <3>1, <3>2, <3>4
    <3>5. CASE k < m
      BY <2>2, <3>1, <3>2, <3>5 DEF Orderly
    <3> QED
      BY <2>1, <3>3, <3>4, <3>5
  <2> QED
    BY <1>1, <2>3, <2>4
<1> QED
  BY <1>1, <1>4, <1>5, <1>6, <1>7 DEF Orderly, l

(* The branches after an entry was written.                                *)
LEMMA EntryAdjoins ==
  ASSUME HostTypes, NEW entry \in Entry, AppendEntry(entry)
  PROVE  /\ Len(branches') = Len(branches)
         /\ Adjoins(branches[Current], entry, branches'[Current])
         /\ \A s \in 1..Len(branches) : s # Current => branches'[s] = branches[s]
<1> DEFINE b == branches[Current]
<1>1. /\ branches \in Seq(Seq(Entry)) /\ b \in Seq(Entry) /\ Current \in 1..Len(branches)
      /\ Len(branches') = Len(branches)
  BY CurrentIs, EntryTyped DEF HostTypes, HostTypeOK, SessionTypeOK
<1>2. /\ branches'[Current] = Append(b, entry)
      /\ \A s \in 1..Len(branches) : s # Current => branches'[s] = branches[s]
  <2>1. branches' = [branches EXCEPT ![Current] = Append(b, entry)] /\ DOMAIN branches = 1..Len(branches)
    BY <1>1, LenProperties DEF AppendEntry
  <2> HIDE DEF b
  <2> QED
    BY <1>1, <2>1
<1>3. PICK p, c : p = b /\ c = branches'[Current]
  OBVIOUS
<1>4. Adjoins(p, entry, c)
  <2> HIDE DEF b
  <2>1. p \in Seq(Entry) /\ c = Append(p, entry)
    BY <1>1, <1>2, <1>3
  <2> QED
    BY <2>1, AppendedIs
<1> QED
  BY <1>1, <1>2, <1>3, <1>4

LEMMA HostFields ==
  ASSUME HostTypes
  PROVE  /\ minted \in Nat /\ generation \in Nat /\ rt \in Runtime
         /\ rt.attached \in Nat /\ rt.group \in Nat /\ rt.active \in BOOLEAN
         /\ sdk \in [running : BOOLEAN, corr : Optional(Correlation),
                     msg : Optional([id : Nat \ {0}, role : Roles])]
         /\ ended \in Seq(PendingMessage) /\ Len(ended) \in Nat
         /\ strayed \in BOOLEAN /\ live \in BOOLEAN
         /\ branches[Current] \in Seq(Entry)
<1>1. branches[Current] \in Seq(Entry)
  BY CurrentIs
<1>2. ended \in Seq(PendingMessage) /\ rt \in Runtime
  BY DEF HostTypes, HostTypeOK, RuntimeTypeOK
<1>3. Len(ended) \in Nat
  BY <1>2, LenProperties
<1> QED
  BY <1>1, <1>2, <1>3 DEF HostTypes, HostTypeOK, SessionTypeOK, PiTypeOK, RuntimeTypeOK, Runtime

LEMMA MessageStartBranch ==
  ASSUME HostTypes, BranchInv, live, NEW role \in Roles, NEW corr \in Optional(Correlation),
         NEW earlier \in Runtime, earlier = rt \/ (earlier.attached = rt.attached /\ earlier.group = 0),
         OnMessageStart(role, corr, earlier)
  PROVE  BranchInv'
<1> DEFINE r == Attached(earlier, Current)
           e == minted + 1
           g == IF r.active /\ r.group # 0 THEN r.group ELSE e
           entry == [type |-> "marker", id |-> e, role |-> role, group |-> g]
<1>1. HostTypes /\ minted \in Nat /\ Current \in Nat /\ branches[Current] \in Seq(Entry)
  BY HostFields, CurrentIs
<1>2. r \in Runtime /\ r.attached = Current /\ (r = earlier \/ r = Reset(Current))
  BY <1>1, AttachedTyped DEF Attached
<1>3. g \in Nat /\ entry \in Entry
  BY <1>1, <1>2 DEF Runtime, Entry
<1>4. /\ AppendEntry(entry) /\ minted' = e /\ live' = live /\ strayed' = strayed
      /\ rt' = [r EXCEPT !.active = TRUE, !.group = g,
                  !.pending = [id |-> e, role |-> role, group |-> g, corr |-> corr,
                               session |-> Current]]
      /\ sdk' = [running |-> TRUE, corr |-> corr, msg |-> [id |-> e, role |-> role]]
  BY DEF OnMessageStart
<1>5. entry.type = "marker" /\ entry.id = minted + 1 /\ entry.role = role /\ entry.group = g
  OBVIOUS
<1>6. \/ g = minted + 1
      \/ \E i \in MarkersOf(branches[Current]) :
           IsLast(branches[Current], i) /\ branches[Current][i].group = g
  <2>1. CASE r.active /\ r.group # 0
    <3>1. r = earlier
      BY <1>2, <2>1 DEF Reset
    <3>2. earlier = rt
      BY <2>1, <3>1
    <3>3. rt.attached = Current /\ rt.active /\ rt.group # 0 /\ g = rt.group
      BY <1>2, <2>1, <3>1, <3>2
    <3> HIDE DEF g, r
    <3> QED
      BY <3>3 DEF BranchInv, Continues
  <2> QED
    BY <2>1
<1>7. /\ rt'.attached = Current /\ rt'.group = g /\ rt'.pending.id = e
      /\ rt'.pending.session = Current /\ rt'.pending \in PendingMessage
  <2>1. /\ rt'.attached = Current /\ rt'.group = g
        /\ rt'.pending = [id |-> e, role |-> role, group |-> g, corr |-> corr, session |-> Current]
    <3> HIDE DEF g, e, r
    <3> QED
      BY <1>2, <1>4 DEF Runtime
  <2> HIDE DEF g
  <2> QED
    BY <1>1, <1>3, <2>1 DEF PendingMessage
<1>8. /\ sdk'.running = TRUE /\ sdk'.msg.id = e /\ sdk'.msg.role = role
  BY <1>4
<1> HIDE DEF r, g, entry
<1>9. PICK b, c : b = branches[Current] /\ c = branches'[Current]
  OBVIOUS
<1>10. b \in Seq(Entry) /\ Adjoins(b, entry, c) /\ Len(branches') = Len(branches)
  BY <1>1, <1>3, <1>4, <1>9, EntryAdjoins
<1>11. Orderly(c, minted + 1) /\ IsLast(c, Len(b) + 1) /\ c[Len(b) + 1] = entry
  <2>1. Orderly(b, minted)
    BY <1>9 DEF BranchInv
  <2> QED
    BY <1>1, <1>3, <1>5, <1>6, <1>9, <1>10, <2>1, OrderlyMarker
<1>12. branches'[Current'] = c /\ Current' = Current
  BY <1>9, <1>10 DEF Current
<1>13. Len(b) + 1 \in MarkersOf(c)
  BY <1>11 DEF IsLast
<1>14. Orderly(branches[Current], minted)'
  BY <1>4, <1>11, <1>12
<1>15. Announces(branches[Current])'
  BY <1>5, <1>8, <1>11, <1>12, <1>13 DEF Announces
<1>16. Continues(branches[Current])'
  BY <1>5, <1>7, <1>11, <1>12, <1>13 DEF Continues
<1>17. RunsOn'
  BY <1>4, <1>8 DEF RunsOn
<1>18. AtMessage'
  BY <1>7, <1>8, <1>12, NoneAssumption DEF AtMessage
<1> QED
  BY <1>14, <1>15, <1>16, <1>17, <1>18 DEF BranchInv

-----------------------------------------------------------------------------
(* Each step and the branch.                                               *)

LEMMA MessagesBranch ==
  ASSUME HostTypes, BranchInv, StartRun \/ Steer \/ \E role \in Roles : Speak(role)
  PROVE  BranchInv'
<1>1. rt \in Runtime /\ inbox \in Seq(Optional(Correlation)) /\ sdk.corr \in Optional(Correlation)
  BY HostFields DEF HostTypes, HostTypeOK, PiTypeOK
<1>2. sdk.running => live
  BY DEF BranchInv, RunsOn
<1>3. CASE StartRun
  <2>1. PICK i \in DOMAIN inbox :
          OnMessageStart("user", inbox[i], [rt EXCEPT !.active = TRUE, !.group = 0])
    BY <1>3 DEF StartRun
  <2>2. i \in 1..Len(inbox)
    BY <1>1, LenProperties
  <2>3. inbox[i] \in Optional(Correlation)
    BY <1>1, <2>2, ElementOfSeq
  <2>4. PICK r : r = [rt EXCEPT !.active = TRUE, !.group = 0]
    OBVIOUS
  <2>5. r \in Runtime /\ r.attached = rt.attached /\ r.group = 0
    BY <1>1, <2>4 DEF Runtime
  <2>6. "user" \in Roles /\ live
    BY <1>3 DEF Roles, StartRun
  <2> QED
    BY <2>1, <2>3, <2>4, <2>5, <2>6, MessageStartBranch
<1>4. CASE Steer
  <2>1. "user" \in Roles /\ live /\ OnMessageStart("user", sdk.corr, rt)
    BY <1>2, <1>4 DEF Roles, Steer
  <2> QED
    BY <1>1, <2>1, MessageStartBranch
<1>5. CASE \E role \in Roles : Speak(role)
  <2>1. PICK role \in Roles : Speak(role)
    BY <1>5
  <2>2. live /\ OnMessageStart(role, sdk.corr, rt)
    BY <1>2, <2>1 DEF Speak
  <2> QED
    BY <1>1, <2>2, MessageStartBranch
<1> QED
  BY <1>3, <1>4, <1>5

(* An entry that is no marker, written while the runtime keeps or gives up *)
(* its message.                                                            *)
LEMMA WordBranch ==
  ASSUME HostTypes, HostTypes', BranchInv, NEW entry \in Entry, entry.type # "marker",
         AppendEntry(entry), minted <= minted', UNCHANGED <<live, strayed>>,
         sdk'.running = sdk.running, sdk' = sdk \/ sdk'.msg = None,
         rt' = rt \/ (rt'.attached = Current /\ rt'.group = 0)
           \/ (rt'.attached = rt.attached /\ rt'.active = rt.active /\ rt'.group = rt.group),
         sdk' = sdk => rt' = rt
  PROVE  BranchInv'
<1>1. PICK b, c : b = branches[Current] /\ c = branches'[Current]
  OBVIOUS
<1>2. b \in Seq(Entry) /\ Adjoins(b, entry, c) /\ Len(branches') = Len(branches)
  BY <1>1, HostFields, EntryAdjoins
<1>3. minted \in Nat /\ minted' \in Nat
  BY HostFields DEF HostTypes, HostTypeOK, SessionTypeOK
<1>4. Orderly(b, minted) /\ Announces(b) /\ Continues(b)
  BY <1>1 DEF BranchInv
<1>5. Orderly(b, minted')
  BY <1>2, <1>3, <1>4, OrderlyMore
<1>6. /\ Orderly(c, minted')
      /\ \A i : IsLast(b, i) => IsLast(c, i) /\ c[i] = b[i] /\ i \in MarkersOf(c)
  BY <1>2, <1>5, OrderlyWord DEF IsLast
<1>7. branches'[Current'] = c /\ Current' = Current
  BY <1>1, <1>2 DEF Current
<1>8. Orderly(branches[Current], minted)'
  BY <1>6, <1>7
<1>9. Announces(branches[Current])'
  BY <1>4, <1>6, <1>7 DEF Announces
<1>10. Continues(branches[Current])'
  <2> SUFFICES ASSUME rt'.active, rt'.group # 0, rt'.attached = Current
               PROVE  \E i \in MarkersOf(c) : IsLast(c, i) /\ c[i].group = rt'.group
    BY <1>7 DEF Continues
  <2>1. rt.active /\ rt.group # 0 /\ rt.attached = Current /\ rt'.group = rt.group
    OBVIOUS
  <2>2. PICK i \in MarkersOf(b) : IsLast(b, i) /\ b[i].group = rt.group
    BY <1>4, <2>1 DEF Continues
  <2> QED
    BY <1>6, <2>1, <2>2
<1>11. RunsOn'
  BY DEF BranchInv, RunsOn
<1>12. AtMessage'
  BY <1>7 DEF BranchInv, AtMessage
<1> QED
  BY <1>8, <1>9, <1>10, <1>11, <1>12 DEF BranchInv

LEMMA EndMessageBranch ==
  ASSUME HostTypes, HostTypes', BranchInv, EndMessage
  PROVE  BranchInv'
<1> DEFINE r == Attached(rt, Current)
           entry == [type |-> "message", id |-> sdk.msg.id, role |-> sdk.msg.role, group |-> 0]
<1>1. /\ sdk.msg # None /\ rt' = [r EXCEPT !.pending = None] /\ AppendEntry(entry)
      /\ sdk' = [sdk EXCEPT !.msg = None] /\ UNCHANGED <<live, minted, strayed>>
  BY DEF EndMessage
<1>2. sdk.msg \in [id : Nat \ {0}, role : Roles] /\ rt \in Runtime /\ minted \in Nat /\ Current \in Nat
  BY <1>1, HostFields, CurrentIs DEF Optional
<1>3. entry \in Entry /\ entry.type # "marker"
  BY <1>2 DEF Entry
<1>4. sdk'.running = sdk.running /\ sdk'.msg = None
  BY <1>1, HostFields
<1>5. r \in Runtime /\ r.attached = Current /\ (r = rt \/ r = Reset(Current))
  BY <1>2, AttachedTyped DEF Attached
<1>6. rt'.attached = r.attached /\ rt'.active = r.active /\ rt'.group = r.group
  <2> HIDE DEF r
  <2> QED
    BY <1>1, <1>5 DEF Runtime
<1>7. \/ (rt'.attached = Current /\ rt'.group = 0)
      \/ (rt'.attached = rt.attached /\ rt'.active = rt.active /\ rt'.group = rt.group)
  BY <1>5, <1>6 DEF Reset
<1>8. sdk' # sdk
  BY <1>1, <1>4
<1> HIDE DEF entry, r
<1> QED
  BY <1>1, <1>2, <1>3, <1>4, <1>7, <1>8, WordBranch

LEMMA WriteEntryBranch ==
  ASSUME HostTypes, HostTypes', BranchInv,
         NEW type \in {"custom", "custom_message", "compaction"}, WriteEntry(type)
  PROVE  BranchInv'
<1> DEFINE entry == [type |-> type, id |-> minted + 1, role |-> None, group |-> 0]
<1>1. /\ AppendEntry(entry) /\ minted' = minted + 1
      /\ UNCHANGED <<live, sdk, rt, strayed>>
  BY DEF WriteEntry, piVars, runtimeVars
<1>2. minted \in Nat
  BY HostFields
<1>3. entry \in Entry /\ entry.type # "marker"
  BY <1>2 DEF Entry
<1> HIDE DEF entry
<1> QED
  BY <1>1, <1>2, <1>3, WordBranch

(* The runtime stays, but for what it published, or is taken away.         *)
RuntimeStays ==
  \/ /\ rt'.attached = rt.attached /\ rt'.active = rt.active /\ rt'.group = rt.group
     /\ rt'.pending = rt.pending /\ (strayed => strayed')
  \/ strayed' /\ \E s : rt' = Reset(s)

LEMMA RestBranch ==
  ASSUME HostTypes, HostTypes', BranchInv, UNCHANGED <<branches, sdk, minted>>,
         live' = live \/ ~sdk.running, RuntimeStays
  PROVE  BranchInv'
<1>1. Current' = Current /\ branches'[Current'] = branches[Current]
  BY DEF Current
<1>2. strayed \in BOOLEAN /\ strayed' \in BOOLEAN
  BY DEF HostTypes, HostTypeOK, RuntimeTypeOK
<1>3. Orderly(branches[Current], minted)'
  BY <1>1 DEF BranchInv
<1>4. Announces(branches[Current])'
  BY <1>1 DEF BranchInv, Announces
<1>5. CASE /\ rt'.attached = rt.attached /\ rt'.active = rt.active /\ rt'.group = rt.group
           /\ rt'.pending = rt.pending /\ (strayed => strayed')
  <2>1. Continues(branches[Current])'
    BY <1>1, <1>5 DEF BranchInv, Continues
  <2>2. RunsOn'
    BY <1>5 DEF BranchInv, RunsOn
  <2>3. AtMessage'
    BY <1>1, <1>2, <1>5 DEF BranchInv, AtMessage
  <2> QED
    BY <1>3, <1>4, <2>1, <2>2, <2>3 DEF BranchInv
<1>6. CASE strayed' /\ \E s : rt' = Reset(s)
  <2>1. rt'.active = FALSE /\ rt'.group = 0
    BY <1>6 DEF Reset
  <2>2. Continues(branches[Current])'
    BY <2>1 DEF Continues
  <2>3. RunsOn'
    BY <2>1 DEF BranchInv, RunsOn
  <2>4. AtMessage'
    BY <1>6 DEF AtMessage
  <2> QED
    BY <1>3, <1>4, <2>2, <2>3, <2>4 DEF BranchInv
<1> QED
  BY <1>5, <1>6 DEF RuntimeStays

LEMMA SameRuntime ==
  ASSUME UNCHANGED <<rt, strayed>>
  PROVE  RuntimeStays
  BY DEF RuntimeStays

LEMMA EndRunBranch ==
  ASSUME HostTypes, HostTypes', BranchInv, EndRun
  PROVE  BranchInv'
<1>1. /\ UNCHANGED <<branches, minted, live, strayed>>
      /\ sdk'.running = FALSE /\ sdk'.msg = None
      /\ rt' = [rt EXCEPT !.active = FALSE, !.group = 0, !.pending = None]
  BY DEF EndRun, sessionVars
<1>2. rt \in Runtime
  BY HostFields
<1>3. rt'.attached = rt.attached /\ rt'.group = 0
  BY <1>1, <1>2 DEF Runtime
<1>4. Current' = Current /\ branches'[Current'] = branches[Current]
  BY <1>1 DEF Current
<1>5. Orderly(branches[Current], minted)'
  BY <1>1, <1>4 DEF BranchInv
<1> QED
  BY <1>1, <1>3, <1>4, <1>5 DEF BranchInv, Announces, Continues, RunsOn, AtMessage

LEMMA StartSessionBranch ==
  ASSUME HostTypes, HostTypes', BranchInv, StartSession
  PROVE  BranchInv'
<1> DEFINE none == <<>>
<1>1. /\ UNCHANGED <<minted, sdk, strayed>> /\ live' /\ ~live
      /\ branches' = Append(branches, none) /\ rt' = Reset(Current + 1)
  BY DEF StartSession, piVars
<1>2. branches \in Seq(Seq(Entry)) /\ none \in Seq(Entry) /\ Len(none) = 0
  BY EmptySeq DEF HostTypes, HostTypeOK, SessionTypeOK
<1> HIDE DEF none
<1>3. /\ Len(branches) \in Nat /\ Len(branches') = Len(branches) + 1
      /\ branches'[Len(branches) + 1] = none
  BY <1>1, <1>2, AppendProperties, LenProperties
<1>4. Current' = Current + 1 /\ branches'[Current'] = none
  BY <1>3 DEF Current
<1>5. MarkersOf(none) = {}
  BY <1>2 DEF MarkersOf
<1>6. Orderly(branches[Current], minted)'
  BY <1>4, <1>5 DEF Orderly
<1>7. ~sdk.running /\ sdk.msg = None
  BY <1>1 DEF BranchInv, RunsOn
<1>8. rt'.attached = Current' /\ rt'.group = 0
  BY <1>1, <1>4 DEF Reset
<1> QED
  BY <1>1, <1>6, <1>7, <1>8 DEF BranchInv, Announces, Continues, RunsOn, AtMessage

LEMMA MoveInTreeBranch ==
  ASSUME HostTypes, HostTypes', BranchInv, MoveInTree
  PROVE  BranchInv'
<1>1. /\ UNCHANGED <<minted, sdk, strayed, rt, live>> /\ ~sdk.running
  BY DEF MoveInTree, piVars, runtimeVars
<1>2. PICK c \in Prefixes(branches[Current]) : branches' = [branches EXCEPT ![Current] = c]
  BY DEF MoveInTree
<1>3. PICK b : b = branches[Current]
  OBVIOUS
<1>4. /\ branches \in Seq(Seq(Entry)) /\ Current \in 1..Len(branches) /\ b \in Seq(Entry)
  BY <1>3, CurrentIs DEF HostTypes, HostTypeOK, SessionTypeOK
<1>5. c \in Seq(Entry) /\ GrownFrom(c, b)
  BY <1>2, <1>3, <1>4, PrefixIs DEF GrownFrom
<1>6. branches'[Current] = c /\ Len(branches') = Len(branches)
  <2>1. DOMAIN branches = 1..Len(branches)
    BY <1>4, LenProperties
  <2>2. Len(branches') = Len(branches)
    BY <1>2, <1>4, <1>5, ExceptSeq
  <2> QED
    BY <1>2, <1>4, <2>1, <2>2
<1>7. Current' = Current /\ branches'[Current'] = c
  BY <1>6 DEF Current
<1>8. Orderly(b, minted)
  BY <1>3 DEF BranchInv
<1>9. Orderly(c, minted)
  BY <1>4, <1>5, <1>8, OrderlyPart
<1>10. Orderly(branches[Current], minted)'
  BY <1>1, <1>7, <1>9
<1>11. sdk.msg = None /\ rt.group = 0
  BY <1>1 DEF BranchInv, RunsOn
<1> QED
  BY <1>1, <1>7, <1>10, <1>11 DEF BranchInv, Announces, Continues, RunsOn, AtMessage

LEMMA PublishBranch ==
  ASSUME HostTypes, HostTypes', BranchInv, Publish
  PROVE  BranchInv'
<1>1. UNCHANGED <<branches, sdk, minted, live, strayed>>
  BY DEF Publish, sessionVars, piVars
<1>2. rt \in Runtime
  BY HostFields
<1>3. rt' = rt \/ \E x : rt' = [rt EXCEPT !.published = x]
  BY DEF Publish
<1>4. /\ rt'.attached = rt.attached /\ rt'.active = rt.active /\ rt'.group = rt.group
      /\ rt'.pending = rt.pending
  BY <1>2, <1>3 DEF Runtime
<1> QED
  BY <1>1, <1>4, RestBranch DEF RuntimeStays

LEMMA OthersBranch ==
  ASSUME HostTypes, HostTypes', BranchInv,
         \/ TypePrompt \/ ShutdownSession \/ Stream \/ EndBridge \/ ReconnectHost \/ ExpireRecord
  PROVE  BranchInv'
<1>1. /\ UNCHANGED <<branches, sdk, minted, rt, strayed>>
      /\ live' = live \/ ~sdk.running
  BY DEF TypePrompt, ShutdownSession, Stream, EndBridge, ReconnectHost, ExpireRecord,
         sessionVars, piVars, runtimeVars
<1> QED
  BY <1>1, SameRuntime, RestBranch

LEMMA EnsureRuntime ==
  ASSUME HostTypes, AtMessage, rt' = EnsureTimeline, UNCHANGED strayed
  PROVE  RuntimeStays
<1>1. CASE rt' = rt
  BY <1>1 DEF RuntimeStays
<1>2. CASE rt' # rt
  <2>1. rt' = Reset(Current) /\ rt.attached # Current
    BY <1>2 DEF EnsureTimeline, Attached
  <2>2. strayed'
    BY <2>1 DEF AtMessage
  <2> QED
    BY <2>1, <2>2 DEF RuntimeStays
<1> QED
  BY <1>1, <1>2

LEMMA AttachRuntime ==
  ASSUME HostTypes, AtMessage, NEW session, AttachTo(session)
  PROVE  RuntimeStays
<1>1. CASE rt' = rt
  BY <1>1 DEF RuntimeStays, AttachTo
<1>2. CASE rt' # rt
  <2>1. rt' = Reset(session) /\ rt.attached # session
    BY <1>2 DEF AttachTo, Attached
  <2>2. strayed'
    BY <2>1 DEF AtMessage, AttachTo
  <2> QED
    BY <2>1, <2>2 DEF RuntimeStays
<1> QED
  BY <1>1, <1>2

LEMMA ReceivesBranch ==
  ASSUME HostTypes, HostTypes', BranchInv, HostReceives
  PROVE  BranchInv' /\ RuntimeStays
<1>1. /\ UNCHANGED <<branches, sdk, minted, live>> /\ Head(toHost) \in ClientFrame
      /\ \/ UNCHANGED <<rt, strayed>>
         \/ Serve(Server, Head(toHost))
  BY ReceivesCases DEF sessionVars
<1>2. PICK b, f : b = Server /\ f = Head(toHost)
  OBVIOUS
<1>3. Serviceable(b) /\ f \in ClientFrame /\ AtMessage
  BY <1>1, <1>2, ServerTyped DEF BranchInv
<1>4. ASSUME Serve(b, f)
      PROVE  RuntimeStays
  <2>1. \/ rt' = EnsureTimeline /\ UNCHANGED strayed
        \/ f.type = "sync" /\ Sync(b, f)
    BY <1>3, <1>4, ServeCases
  <2>2. CASE f.type = "sync" /\ Sync(b, f)
    <3>1. AttachTo(b.session) \/ UNCHANGED <<rt, strayed>>
      BY <1>3, <2>2, SyncCases
    <3>2. PICK session : session = b.session
      OBVIOUS
    <3>3. CASE AttachTo(session)
      BY <1>3, <3>3, AttachRuntime
    <3> QED
      BY <3>1, <3>2, <3>3, SameRuntime
  <2>3. CASE rt' = EnsureTimeline /\ UNCHANGED strayed
    BY <1>3, <2>3, EnsureRuntime
  <2> QED
    BY <2>1, <2>2, <2>3
<1>5. RuntimeStays
  BY <1>1, <1>2, <1>4, SameRuntime
<1> QED
  BY <1>1, <1>5, RestBranch

LEMMA HostKeepsBranch ==
  ASSUME HostTypes, HostTypes', BranchInv, HostNext
  PROVE  BranchInv'
  BY MessagesBranch, EndMessageBranch, WriteEntryBranch, EndRunBranch, StartSessionBranch,
     MoveInTreeBranch, PublishBranch, OthersBranch, ReceivesBranch DEF HostNext

(* No step breaks the rules of the branch.                                 *)
LEMMA NextBranch ==
  ASSUME SessionTypes, SessionTypes', LinkInv, BranchInv, [Next]_vars
  PROVE  BranchInv'
<1>1. HostTypes /\ HostTypes'
  BY DEF SessionTypes
<1>2. CASE UNCHANGED <<branches, sdk, minted, live, rt, strayed>>
  BY <1>1, <1>2, SameRuntime, RestBranch
<1>3. CASE UNCHANGED vars
  BY <1>2, <1>3 DEF vars, hostVars, sessionVars, piVars, runtimeVars
<1>4. CASE PageActs /\ UNCHANGED hostSide
  BY <1>2, <1>4, HostSideIs
<1> QED
  BY <1>1, <1>3, <1>4, Steps, HostKeepsBranch

LEMMA InitBranch ==
  ASSUME Init
  PROVE  BranchInv
<1>1. /\ branches = <<FirstBranch>> /\ minted = Len(FirstBranch) /\ live = TRUE
      /\ sdk = [running |-> FALSE, corr |-> None, msg |-> None]
      /\ rt = Reset(1)
  BY DEF Init, HostInit
<1>2. Current = 1 /\ branches[Current] = FirstBranch
  BY <1>1 DEF Current
<1>3. FirstBranch \in Seq(Entry) /\ DOMAIN FirstBranch = 1..Len(FirstBranch)
  BY FirstBranchAssumption, LenProperties
<1>4. {i \in DOMAIN FirstBranch : FirstBranch[i].type = "marker"} = MarkersOf(FirstBranch)
  BY <1>3 DEF MarkersOf
<1>5. \A i \in MarkersOf(FirstBranch) :
        /\ FirstBranch[i].group \in 1..Len(FirstBranch) /\ FirstBranch[i].id <= Len(FirstBranch)
  BY <1>3, <1>4, FirstBranchAssumption DEF MarkersOf
<1>6. \A i \in MarkersOf(FirstBranch) :
        /\ FirstBranch[i].group # 0 /\ FirstBranch[i].group <= Len(FirstBranch)
        /\ FirstBranch[i].id <= Len(FirstBranch)
  <2>1. Len(FirstBranch) \in Nat
    BY <1>3, LenProperties
  <2> QED
    BY <1>5, <2>1
<1>7. Orderly(FirstBranch, Len(FirstBranch))
  BY <1>4, <1>6, FirstBranchAssumption DEF Orderly
<1>8. rt.attached = 1 /\ rt.group = 0
  BY <1>1 DEF Reset
<1> QED
  BY <1>1, <1>2, <1>7, <1>8 DEF BranchInv, Announces, Continues, RunsOn, AtMessage

-----------------------------------------------------------------------------
(* The messages under way: each is published once, under an id nothing has *)
(* that was published before.                                              *)

LiveIds(f) == CASE f.type = "event" -> {f.event.id}
                [] f.type = "fragment" -> {f.part.event.id}
                [] OTHER -> {}

InQueue(frames) == UNION {LiveIds(frames[i]) : i \in 1..Len(frames)}

Spoken == rt.published \cup InQueue(toPwa) \cup {p.event.id : p \in parts}

Waiting == {ended[i].id : i \in 1..Len(ended)}

LiveInv ==
  /\ \A id \in Spoken : id <= minted
  /\ \A id \in Waiting : id <= minted /\ id \notin Spoken
  /\ \A i, j \in 1..Len(ended) : ended[i].id = ended[j].id => i = j
  /\ rt.pending # None => /\ rt.pending.id <= minted
                          /\ rt.pending.id \notin Spoken /\ rt.pending.id \notin Waiting

(* Frames with no event published.                                         *)
Mute == {f \in ServerFrame : f.type \notin {"event", "fragment"}}

LEMMA IdsTyped ==
  ASSUME SessionTypes
  PROVE  /\ Spoken \subseteq Nat /\ Waiting \subseteq Nat /\ minted \in Nat
         /\ rt.pending # None => rt.pending.id \in Nat
<1>1. \A i \in 1..Len(toPwa) : toPwa[i] \in ServerFrame
  BY QueuesTyped
<1>2. \A i \in 1..Len(toPwa) : LiveIds(toPwa[i]) \subseteq Nat
  BY <1>1, ServerFields DEF LiveIds, Fragment, Event
<1>3. InQueue(toPwa) \subseteq Nat
  BY <1>2 DEF InQueue
<1>4. /\ rt \in Runtime /\ ended \in Seq(PendingMessage) /\ minted \in Nat
      /\ parts \subseteq Fragment
  BY HostFields DEF SessionTypes, TransferTypeOK
<1>5. rt.published \subseteq Nat
  BY <1>4 DEF Runtime
<1>6. {p.event.id : p \in parts} \subseteq Nat
  BY <1>4 DEF Fragment, Event
<1>7. \A i \in 1..Len(ended) : ended[i].id \in Nat
  <2>1. \A i \in 1..Len(ended) : ended[i] \in PendingMessage
    BY <1>4, ElementOfSeq
  <2> QED
    BY <2>1 DEF PendingMessage
<1>8. rt.pending # None => rt.pending.id \in Nat
  BY <1>4 DEF Runtime, Optional, PendingMessage
<1> QED
  BY <1>3, <1>4, <1>5, <1>6, <1>7, <1>8 DEF Spoken, Waiting

LEMMA GoesQueue ==
  ASSUME SessionTypes', NEW New, Goes(toPwa, toPwa', New), NEW K,
         \A f \in New : LiveIds(f) \subseteq K
  PROVE  InQueue(toPwa') \subseteq InQueue(toPwa) \cup K
<1>1. toPwa' \in Seq(ServerFrame)
  BY QueuesTypedNext
<1> SUFFICES ASSUME NEW i \in 1..Len(toPwa'), NEW id \in LiveIds(toPwa'[i])
             PROVE  id \in InQueue(toPwa) \cup K
  BY DEF InQueue
<1>2. (\E j \in 1..Len(toPwa) : toPwa'[i] = toPwa[j]) \/ toPwa'[i] \in New
  BY <1>1, GoesBack
<1>3. CASE \E j \in 1..Len(toPwa) : toPwa'[i] = toPwa[j]
  <2>1. PICK j \in 1..Len(toPwa) : toPwa'[i] = toPwa[j]
    BY <1>3
  <2>2. id \in LiveIds(toPwa[j])
    BY <2>1
  <2> QED
    BY <2>2 DEF InQueue
<1>4. CASE toPwa'[i] \in New
  BY <1>4
<1> QED
  BY <1>2, <1>3, <1>4

LEMMA MuteQueue ==
  ASSUME SessionTypes', NEW New, New \subseteq Mute, Goes(toPwa, toPwa', New)
  PROVE  InQueue(toPwa') \subseteq InQueue(toPwa)
<1>1. \A f \in New : LiveIds(f) \subseteq {}
  BY DEF Mute, LiveIds
<1> QED
  BY <1>1, GoesQueue

(* A step of which no event is published.                                  *)
LEMMA LiveKept ==
  ASSUME SessionTypes, SessionTypes', LiveInv, Spoken' \subseteq Spoken, minted <= minted',
         UNCHANGED ended,
         \/ rt'.pending = None \/ rt'.pending = rt.pending
         \/ rt'.pending.id = minted + 1 /\ minted' = minted + 1
  PROVE  LiveInv'
<1>1. /\ Spoken \subseteq Nat /\ Waiting \subseteq Nat /\ minted \in Nat /\ minted' \in Nat
      /\ rt.pending # None => rt.pending.id \in Nat
  BY IdsTyped DEF SessionTypes, HostTypes, HostTypeOK, SessionTypeOK
<1>2. Waiting' = Waiting
  BY DEF Waiting
<1>3. \A id \in Spoken' : id <= minted'
  BY <1>1 DEF LiveInv
<1>4. \A id \in Waiting' : id <= minted' /\ id \notin Spoken'
  BY <1>1, <1>2 DEF LiveInv
<1>5. rt'.pending # None => /\ rt'.pending.id <= minted'
                            /\ rt'.pending.id \notin Spoken' /\ rt'.pending.id \notin Waiting'
  <2>1. CASE rt'.pending = rt.pending
    BY <1>1, <1>2, <2>1 DEF LiveInv
  <2>2. CASE rt'.pending.id = minted + 1 /\ minted' = minted + 1
    BY <1>1, <1>2, <2>2 DEF LiveInv
  <2> QED
    BY <2>1, <2>2
<1>6. \A i, j \in 1..Len(ended') : ended'[i].id = ended'[j].id => i = j
  BY DEF LiveInv
<1> QED
  BY <1>3, <1>4, <1>5, <1>6 DEF LiveInv

(* What the host has spoken of after its step.                             *)
LEMMA SpokenKept ==
  ASSUME SessionTypes', NEW New, New \subseteq Mute, Goes(toPwa, toPwa', New),
         rt'.published \subseteq rt.published, parts' = parts
  PROVE  Spoken' \subseteq Spoken
<1>1. InQueue(toPwa') \subseteq InQueue(toPwa)
  BY MuteQueue
<1> QED
  BY <1>1 DEF Spoken

LEMMA AddsMute ==
  ASSUME SessionTypes, SessionTypes', NEW New, New \subseteq Mute, Adds(New),
         rt'.published \subseteq rt.published, parts' = parts
  PROVE  Spoken' \subseteq Spoken
<1>1. HostTypes /\ New \in SUBSET ServerFrame
  BY DEF SessionTypes, Mute
<1>2. Goes(toPwa, toPwa', New)
  BY <1>1, AddsGoes
<1> QED
  BY <1>2, SpokenKept

LEMMA WordsMute == Words \subseteq Mute
  BY DEF Words, Mute

LEMMA MessageStartLive ==
  ASSUME SessionTypes, SessionTypes', LiveInv, parts' = parts,
         NEW role, NEW corr \in Optional(Correlation),
         NEW earlier \in Runtime, earlier.published = rt.published,
         OnMessageStart(role, corr, earlier)
  PROVE  LiveInv'
<1> DEFINE r == Attached(earlier, Current)
           e == minted + 1
           g == IF r.active /\ r.group # 0 THEN r.group ELSE e
<1>1. /\ minted' = e /\ ended' = ended
      /\ rt' = [r EXCEPT !.active = TRUE, !.group = g,
                  !.pending = [id |-> e, role |-> role, group |-> g, corr |-> corr,
                               session |-> Current]]
  BY DEF OnMessageStart
<1>2. HostTypes /\ minted \in Nat /\ Current \in Nat
  BY HostFields, CurrentIs DEF SessionTypes
<1>3. r \in Runtime /\ r.published \subseteq rt.published
  BY <1>2, AttachedTyped DEF Attached, Reset
<1>4. rt'.pending.id = e /\ rt'.published \subseteq rt.published
  <2>1. /\ rt'.published = r.published
        /\ rt'.pending = [id |-> e, role |-> role, group |-> g, corr |-> corr, session |-> Current]
    <3> HIDE DEF g, e, r
    <3> QED
      BY <1>1, <1>3 DEF Runtime
  <2> HIDE DEF g, r
  <2> QED
    BY <1>3, <2>1
<1>5. Spoken' \subseteq Spoken
  <2>1. Adds(Words)
    BY <1>2, MessageStartMoves DEF HostMoves
  <2> HIDE DEF r, g, e
  <2> QED
    BY <1>4, <2>1, WordsMute, AddsMute
<1> HIDE DEF r, g
<1> QED
  BY <1>1, <1>2, <1>4, <1>5, LiveKept

LEMMA MessagesLive ==
  ASSUME SessionTypes, SessionTypes', LiveInv, parts' = parts,
         StartRun \/ Steer \/ \E role \in Roles : Speak(role)
  PROVE  LiveInv'
<1>1. /\ rt \in Runtime /\ inbox \in Seq(Optional(Correlation))
      /\ sdk.corr \in Optional(Correlation)
  BY HostFields DEF SessionTypes, HostTypes, HostTypeOK, PiTypeOK
<1>2. CASE StartRun
  <2>1. PICK i \in DOMAIN inbox :
          OnMessageStart("user", inbox[i], [rt EXCEPT !.active = TRUE, !.group = 0])
    BY <1>2 DEF StartRun
  <2>2. i \in 1..Len(inbox)
    BY <1>1, LenProperties
  <2>3. inbox[i] \in Optional(Correlation)
    BY <1>1, <2>2, ElementOfSeq
  <2>4. PICK r : r = [rt EXCEPT !.active = TRUE, !.group = 0]
    OBVIOUS
  <2>5. r \in Runtime /\ r.published = rt.published
    BY <1>1, <2>4 DEF Runtime
  <2> QED
    BY <2>1, <2>3, <2>4, <2>5, MessageStartLive
<1>3. CASE Steer
  BY <1>1, <1>3, MessageStartLive DEF Steer
<1>4. CASE \E role \in Roles : Speak(role)
  <2>1. PICK role \in Roles : Speak(role)
    BY <1>4
  <2> QED
    BY <1>1, <2>1, MessageStartLive DEF Speak
<1> QED
  BY <1>2, <1>3, <1>4

LEMMA EndMessageLive ==
  ASSUME SessionTypes, SessionTypes', LiveInv, parts' = parts, EndMessage
  PROVE  LiveInv'
<1> DEFINE r == Attached(rt, Current)
<1>1. /\ rt' = [r EXCEPT !.pending = None] /\ UNCHANGED <<minted, toPwa>>
      /\ ended' = IF r.pending = None THEN ended ELSE Append(ended, r.pending)
  BY DEF EndMessage, netVars
<1>2. /\ rt \in Runtime /\ minted \in Nat /\ Current \in Nat
      /\ ended \in Seq(PendingMessage) /\ Len(ended) \in Nat /\ toPwa \in Seq(ServerFrame)
  BY HostFields, CurrentIs, QueuesTyped DEF SessionTypes
<1>3. r \in Runtime /\ (r = rt \/ r = Reset(Current))
  BY <1>2, AttachedTyped DEF Attached
<1>4. r.pending \in Optional(PendingMessage) /\ r.published \subseteq rt.published
      /\ (r.pending # None => r = rt)
  BY <1>2, <1>3 DEF Reset, Runtime
<1>5. rt'.pending = None /\ rt'.published = r.published
  <2> HIDE DEF r
  <2> QED
    BY <1>1, <1>3 DEF Runtime
<1>6. Spoken' \subseteq Spoken
  <2>1. {} \subseteq Mute
    OBVIOUS
  <2>2. Goes(toPwa, toPwa', {})
    BY <1>1, <1>2, GoesSame
  <2>3. rt'.published \subseteq rt.published
    BY <1>4, <1>5
  <2> HIDE DEF r
  <2> QED
    BY <2>1, <2>2, <2>3, SpokenKept
<1>7. CASE r.pending = None
  <2> HIDE DEF r
  <2> QED
    BY <1>1, <1>2, <1>5, <1>6, <1>7, LiveKept
<1>8. CASE r.pending # None
  <2>1. r.pending = rt.pending /\ rt.pending # None /\ rt.pending \in PendingMessage
    BY <1>4, <1>8 DEF Optional
  <2>2. PICK x, e : x = rt.pending /\ e = ended'
    OBVIOUS
  <2>3. e = Append(ended, x) /\ x \in PendingMessage
    BY <1>1, <2>1, <2>2
  <2>4. Len(e) = Len(ended) + 1 /\ e[Len(ended) + 1] = x /\ \A i \in 1..Len(ended) : e[i] = ended[i]
    BY <1>2, <2>3, AppendProperties
  <2>5. \A i \in 1..Len(e) : i \in 1..Len(ended) \/ i = Len(ended) + 1
    BY <1>2, <2>4
  <2>6. \A i \in 1..Len(ended) : ended[i].id \in Waiting
    BY DEF Waiting
  <2>7. x.id <= minted /\ x.id \notin Spoken /\ x.id \notin Waiting
    BY <2>1, <2>2 DEF LiveInv
  <2>8. \A id \in Waiting' : id \in Waiting \/ id = x.id
    <3> SUFFICES ASSUME NEW i \in 1..Len(e)
                 PROVE  e[i].id \in Waiting \/ e[i].id = x.id
      BY <2>2 DEF Waiting
    <3> QED
      BY <2>4, <2>5, <2>6
  <2>9. \A id \in Waiting' : id <= minted' /\ id \notin Spoken'
    BY <1>1, <1>6, <2>7, <2>8 DEF LiveInv
  <2>10. \A i, j \in 1..Len(e) : e[i].id = e[j].id => i = j
    <3> SUFFICES ASSUME NEW i \in 1..Len(e), NEW j \in 1..Len(e), e[i].id = e[j].id
                 PROVE  i = j
      OBVIOUS
    <3>1. CASE i \in 1..Len(ended) /\ j \in 1..Len(ended)
      <4>1. ended[i].id = ended[j].id
        BY <2>4, <3>1
      <4> QED
        BY <3>1, <4>1 DEF LiveInv
    <3>2. CASE i = Len(ended) + 1 /\ j \in 1..Len(ended)
      BY <2>4, <2>6, <2>7, <3>2
    <3>3. CASE j = Len(ended) + 1 /\ i \in 1..Len(ended)
      BY <2>4, <2>6, <2>7, <3>3
    <3> QED
      BY <2>5, <3>1, <3>2, <3>3
  <2>11. \A id \in Spoken' : id <= minted'
    BY <1>1, <1>6 DEF LiveInv
  <2>12. \A i, j \in 1..Len(ended') : ended'[i].id = ended'[j].id => i = j
    BY <2>2, <2>10
  <2> HIDE DEF r
  <2> QED
    BY <1>5, <2>9, <2>11, <2>12 DEF LiveInv
<1> QED
  BY <1>7, <1>8

-----------------------------------------------------------------------------
(* What is sent when an event is published.                                *)

(* The frames new have event e, whole or in its two fragments, for the     *)
(* scope of b.                                                             *)
Delivers(new, b, e) ==
  \/ \E i \in 1..Len(new) : /\ new[i].type = "event" /\ new[i].event = e
                            /\ new[i].session = b.session /\ new[i].gen = b.gen
  \/ /\ Len(new) >= 2
     /\ \A i \in 1..2 : /\ new[i].type = "fragment" /\ new[i].part = Fragments(e)[i]
                        /\ new[i].session = b.session /\ new[i].gen = b.gen

Publishes(new, id, e) ==
  /\ new \in Seq(ServerFrame)
  /\ \A i \in 1..Len(new) : LiveIds(new[i]) \subseteq {id}
  /\ binding # None => Delivers(new, binding, e)

LEMMA FramesDeliver ==
  ASSUME NEW b \in Service, NEW event \in Event, NEW frames \in PublishFrames(b, event)
  PROVE  /\ frames \in Seq(ServerFrame) /\ Delivers(frames, b, event)
         /\ \A i \in 1..Len(frames) : LiveIds(frames[i]) \subseteq {event.id}
<1>1. frames \in Seq(ServerFrame)
  BY PublishFramesTyped
<1>2. CASE frames = <<[type |-> "event", session |-> b.session, gen |-> b.gen, event |-> event]>>
  <2>1. /\ Len(frames) = 1 /\ frames[1].type = "event" /\ frames[1].event = event
        /\ frames[1].session = b.session /\ frames[1].gen = b.gen
    BY <1>2
  <2>2. 1 \in 1..Len(frames) /\ \A i \in 1..Len(frames) : i = 1
    BY <2>1
  <2>3. Delivers(frames, b, event)
    BY <2>1, <2>2 DEF Delivers
  <2>4. \A i \in 1..Len(frames) : LiveIds(frames[i]) \subseteq {event.id}
    BY <2>1, <2>2 DEF LiveIds
  <2> QED
    BY <1>1, <2>3, <2>4
<1>3. CASE frames = [i \in 1..2 |-> [type |-> "fragment", session |-> b.session, gen |-> b.gen,
                                    part |-> Fragments(event)[i]]]
  <2>1. Len(frames) \in Nat /\ DOMAIN frames = 1..Len(frames)
    BY <1>1, LenProperties
  <2>2. DOMAIN frames = 1..2
    BY <1>3
  <2>3. Len(frames) = 2
    <3>1. PICK n, D : n = Len(frames) /\ D = DOMAIN frames
      OBVIOUS
    <3>2. n \in Nat /\ D = 1..n /\ D = 1..2
      BY <2>1, <2>2, <3>1
    <3>3. 2 \in 1..n /\ 3 \notin 1..n
      BY <3>2
    <3> QED
      BY <3>1, <3>2, <3>3
  <2>4. \A i \in 1..2 : /\ frames[i].type = "fragment" /\ frames[i].part = Fragments(event)[i]
                        /\ frames[i].session = b.session /\ frames[i].gen = b.gen
    BY <1>3
  <2>5. Delivers(frames, b, event)
    BY <2>3, <2>4 DEF Delivers
  <2>6. \A i \in 1..2 : Fragments(event)[i].event = event
    BY FragmentsTyped
  <2>7. \A i \in 1..Len(frames) : LiveIds(frames[i]) \subseteq {event.id}
    BY <2>3, <2>4, <2>6 DEF LiveIds
  <2> QED
    BY <1>1, <2>5, <2>7
<1> QED
  BY <1>2, <1>3 DEF PublishFrames

(* A word after the frames changes nothing.                                *)
LEMMA DeliversMore ==
  ASSUME NEW s \in Seq(ServerFrame), NEW t \in Seq(ServerFrame), NEW b, NEW e, Delivers(s, b, e)
  PROVE  Delivers(s \o t, b, e)
<1>1. PICK r : r = s \o t
  OBVIOUS
<1>2. Len(s) \in Nat /\ Len(r) >= Len(s) /\ Len(r) \in Nat /\ \A i \in 1..Len(s) : r[i] = s[i]
  BY <1>1, JoinIs
<1>3. CASE \E i \in 1..Len(s) : /\ s[i].type = "event" /\ s[i].event = e
                                /\ s[i].session = b.session /\ s[i].gen = b.gen
  <2>1. PICK i \in 1..Len(s) : /\ s[i].type = "event" /\ s[i].event = e
                               /\ s[i].session = b.session /\ s[i].gen = b.gen
    BY <1>3
  <2>2. i \in 1..Len(r) /\ r[i] = s[i]
    BY <1>2
  <2>3. Delivers(r, b, e)
    BY <2>1, <2>2 DEF Delivers
  <2> QED
    BY <1>1, <2>3
<1>4. CASE /\ Len(s) >= 2
           /\ \A i \in 1..2 : /\ s[i].type = "fragment" /\ s[i].part = Fragments(e)[i]
                              /\ s[i].session = b.session /\ s[i].gen = b.gen
  <2>1. Len(r) >= 2 /\ \A i \in 1..2 : r[i] = s[i]
    BY <1>2, <1>4
  <2>2. Delivers(r, b, e)
    BY <1>4, <2>1 DEF Delivers
  <2> QED
    BY <1>1, <2>2
<1> QED
  BY <1>3, <1>4 DEF Delivers

LEMMA ConfirmPublishes ==
  ASSUME HostTypes, NEW corr \in Optional(Correlation), NEW event \in Event,
         NEW none, none = <<>>,
         NEW frames \in IF binding = None THEN {none} ELSE PublishFrames(binding, event),
         Confirm(corr, "committed", event.id, frames, none)
  PROVE  \E new : Publishes(new, event.id, event) /\ Post(new)
<1>1. none \in Seq(ServerFrame) /\ Len(none) = 0
  BY EmptySeq
<1>2. CASE binding = None
  <2>1. frames = none /\ Post(none)
    BY <1>2 DEF Confirm
  <2>2. Publishes(none, event.id, event)
    BY <1>1, <1>2 DEF Publishes
  <2> QED
    BY <2>1, <2>2
<1>3. CASE binding # None
  <2>1. binding \in Service
    BY <1>3, BindingTyped DEF Serviceable
  <2>2. /\ frames \in Seq(ServerFrame) /\ Delivers(frames, binding, event)
        /\ \A i \in 1..Len(frames) : LiveIds(frames[i]) \subseteq {event.id}
    BY <1>3, <2>1, FramesDeliver
  <2>3. CASE Post(frames)
    <3>1. Publishes(frames, event.id, event)
      BY <2>2 DEF Publishes
    <3> QED
      BY <2>3, <3>1
  <2>4. CASE corr # None /\ ~Post(frames)
    <3> DEFINE word == <<StatusFrame(binding, corr.req, "committed", event.id)>>
    <3>1. Post(frames \o word \o none)
      BY <2>4 DEF Confirm
    <3>2. corr.req \in Requests /\ event.id \in Nat
      BY <2>4 DEF Optional, Correlation, Event
    <3>3. word \in Seq(ServerFrame) /\ Len(word) = 1 /\ LiveIds(word[1]) = {}
      <4>1. StatusFrame(binding, corr.req, "committed", event.id) \in ServerFrame
        BY <2>1, <3>2, StatusTyped
      <4>2. LiveIds(StatusFrame(binding, corr.req, "committed", event.id)) = {}
        BY DEF LiveIds, StatusFrame
      <4> QED
        BY <4>1, <4>2
    <3> HIDE DEF word
    <3>4. PICK r : r = frames \o word
      OBVIOUS
    <3>5. r \in Seq(ServerFrame)
      BY <2>2, <3>3, <3>4, JoinIs
    <3>6. r \o none = r
      BY <3>5, ConcatEmptySeq
    <3>7. Post(r)
      BY <3>1, <3>4, <3>6
    <3>8. Delivers(r, binding, event)
      BY <2>2, <3>3, <3>4, DeliversMore
    <3>9. \A i \in 1..Len(r) : LiveIds(r[i]) \subseteq {event.id}
      <4> SUFFICES ASSUME NEW i \in 1..Len(r)
                   PROVE  LiveIds(r[i]) \subseteq {event.id}
        OBVIOUS
      <4>1. /\ Len(frames) \in Nat /\ Len(r) = Len(frames) + 1
            /\ \A j \in 1..Len(frames) : r[j] = frames[j]
            /\ \A j \in 1..Len(word) : r[Len(frames) + j] = word[j]
        BY <2>2, <3>3, <3>4, JoinIs
      <4>2. CASE i \in 1..Len(frames)
        BY <2>2, <4>1, <4>2
      <4>3. CASE i = Len(frames) + 1
        BY <3>3, <4>1, <4>3
      <4> QED
        BY <4>1, <4>2, <4>3
    <3>10. Publishes(r, event.id, event)
      BY <3>5, <3>8, <3>9 DEF Publishes
    <3> QED
      BY <3>7, <3>10
  <2>5. corr = None => Post(frames)
    BY DEF Confirm
  <2> QED
    BY <2>3, <2>4, <2>5
<1> QED
  BY <1>2, <1>3

EventOf(p) == ToEvent(p.session, p.id, FALSE, p.role, p.group)

(* The message has its marker and follows it.                              *)
IsFound(p) ==
  LET i == MarkerOf(branches[p.session], p.id) IN
  i # 0 /\ Target(branches[p.session], i, p.role) # 0

LEMMA PublishIs ==
  ASSUME HostTypes, Publish, NEW p, p = Head(ended)
  PROVE  /\ p \in PendingMessage /\ ended # <<>> /\ ended' = Tail(ended)
         /\ EventOf(p) \in Event /\ EventOf(p).id = p.id
         /\ rt'.pending = rt.pending /\ UNCHANGED minted
         /\ \/ (~IsFound(p) \/ p.id \in rt.published) /\ UNCHANGED <<rt, binding, toPwa>>
            \/ /\ IsFound(p) /\ rt'.published = rt.published \cup {p.id}
               /\ \E new : Publishes(new, p.id, EventOf(p)) /\ Post(new)
<1>1. p \in PendingMessage /\ ended # <<>> /\ ended' = Tail(ended)
  BY HeadTailProperties DEF Publish, HostTypes, HostTypeOK, RuntimeTypeOK
<1>2. UNCHANGED minted /\ rt \in Runtime /\ generation \in Nat
  BY HostFields DEF Publish, sessionVars
<1>3. PICK event, none : event = EventOf(p) /\ none = <<>>
  OBVIOUS
<1>4. event \in Event /\ event.id = p.id
  BY <1>1, <1>2, <1>3 DEF EventOf, ToEvent, Event, PendingMessage
<1>5. p.corr \in Optional(Correlation)
  BY <1>1 DEF PendingMessage
<1>6. \/ (~IsFound(p) \/ p.id \in rt.published) /\ UNCHANGED <<rt, binding, toPwa, left>>
      \/ /\ IsFound(p) /\ rt' = [rt EXCEPT !.published = @ \cup {p.id}]
         /\ \E frames \in IF binding = None THEN {none} ELSE PublishFrames(binding, event) :
              Confirm(p.corr, "committed", p.id, frames, none)
  BY <1>3 DEF Publish, IsFound, EventOf
<1>7. CASE (~IsFound(p) \/ p.id \in rt.published) /\ UNCHANGED <<rt, binding, toPwa, left>>
  BY <1>1, <1>2, <1>3, <1>4, <1>7
<1>8. CASE /\ IsFound(p) /\ rt' = [rt EXCEPT !.published = @ \cup {p.id}]
           /\ \E frames \in IF binding = None THEN {none} ELSE PublishFrames(binding, event) :
                Confirm(p.corr, "committed", p.id, frames, none)
  <2>1. rt'.published = rt.published \cup {p.id} /\ rt'.pending = rt.pending
    BY <1>2, <1>8 DEF Runtime
  <2>2. \E new : Publishes(new, event.id, event) /\ Post(new)
    <3>1. PICK frames \in IF binding = None THEN {none} ELSE PublishFrames(binding, event) :
            Confirm(p.corr, "committed", event.id, frames, none)
      BY <1>4, <1>8
    <3> QED
      BY <1>3, <1>4, <1>5, <3>1, ConfirmPublishes
  <2> QED
    BY <1>1, <1>2, <1>3, <1>4, <1>8, <2>1, <2>2
<1> QED
  BY <1>6, <1>7, <1>8

LEMMA SeqWithin ==
  ASSUME NEW S, NEW s \in Seq(S), NEW T, \A i \in 1..Len(s) : s[i] \in T
  PROVE  s \in Seq(T)
<1>1. s \in [1..Len(s) -> T] /\ Len(s) \in Nat
  BY LenProperties
<1> QED
  BY <1>1, NumberedIsSeq

LEMMA PublishLive ==
  ASSUME SessionTypes, SessionTypes', LiveInv, parts' = parts, Publish
  PROVE  LiveInv'
<1>1. PICK p, e : p = Head(ended) /\ e = EventOf(p)
  OBVIOUS
<1>2. HostTypes
  BY DEF SessionTypes
<1>3. /\ p \in PendingMessage /\ ended # <<>> /\ ended' = Tail(ended)
      /\ rt'.pending = rt.pending /\ UNCHANGED minted
      /\ \/ UNCHANGED <<rt, binding, toPwa>>
         \/ /\ rt'.published = rt.published \cup {p.id}
            /\ \E new : Publishes(new, p.id, e) /\ Post(new)
  BY <1>1, <1>2, PublishIs
<1>4. ended \in Seq(PendingMessage) /\ toPwa \in Seq(ServerFrame)
  BY <1>2, HostFields, QueuesTyped
<1>5. /\ 1 \in 1..Len(ended) /\ p = ended[1] /\ Len(ended') = Len(ended) - 1
      /\ \A i \in 1..Len(ended') : i + 1 \in 1..Len(ended) /\ ended'[i] = ended[i + 1]
  BY <1>1, <1>3, <1>4, HeadIsFirst
<1>6. Spoken' \subseteq Spoken \cup {p.id}
  <2>1. CASE UNCHANGED <<rt, binding, toPwa>>
    BY <2>1 DEF Spoken
  <2>2. CASE /\ rt'.published = rt.published \cup {p.id}
             /\ \E new : Publishes(new, p.id, e) /\ Post(new)
    <3>1. PICK new : Publishes(new, p.id, e) /\ Post(new)
      BY <2>2
    <3>2. PICK New : New = {f \in ServerFrame : LiveIds(f) \subseteq {p.id}}
      OBVIOUS
    <3>3. new \in Seq(New) /\ New \subseteq ServerFrame
      <4>1. new \in Seq(ServerFrame) /\ \A i \in 1..Len(new) : LiveIds(new[i]) \subseteq {p.id}
        BY <3>1 DEF Publishes
      <4>2. \A i \in 1..Len(new) : new[i] \in New
        BY <3>2, <4>1, ElementOfSeq
      <4> QED
        BY <3>2, <4>1, <4>2, SeqWithin
    <3>4. Adds(New)
      BY <1>2, <3>1, <3>3, PostAdds
    <3>5. Goes(toPwa, toPwa', New)
      BY <1>2, <3>3, <3>4, AddsGoes
    <3>6. InQueue(toPwa') \subseteq InQueue(toPwa) \cup {p.id}
      BY <3>2, <3>5, GoesQueue
    <3> QED
      BY <2>2, <3>6 DEF Spoken
  <2> QED
    BY <1>3, <2>1, <2>2
<1>7. \A i \in 1..Len(ended) : ended[i].id \in Waiting
  BY DEF Waiting
<1>8. \A id \in Waiting' : id \in Waiting /\ id # p.id
  <2> SUFFICES ASSUME NEW i \in 1..Len(ended')
               PROVE  ended'[i].id \in Waiting /\ ended'[i].id # p.id
    BY DEF Waiting
  <2>1. i + 1 \in 1..Len(ended) /\ ended'[i] = ended[i + 1] /\ i + 1 # 1
    BY <1>5
  <2>2. ended[i + 1].id # ended[1].id
    BY <1>5, <2>1 DEF LiveInv
  <2> QED
    BY <1>5, <1>7, <2>1, <2>2
<1>9. \A id \in Waiting' : id <= minted' /\ id \notin Spoken'
  BY <1>3, <1>6, <1>8 DEF LiveInv
<1>10. p.id \in Waiting
  BY <1>5, <1>7
<1>11. \A id \in Spoken' : id <= minted'
  BY <1>3, <1>6, <1>10 DEF LiveInv
<1>12. \A i, j \in 1..Len(ended') : ended'[i].id = ended'[j].id => i = j
  <2> SUFFICES ASSUME NEW i \in 1..Len(ended'), NEW j \in 1..Len(ended'),
                      ended'[i].id = ended'[j].id
               PROVE  i = j
    OBVIOUS
  <2>1. /\ i + 1 \in 1..Len(ended) /\ ended'[i] = ended[i + 1]
        /\ j + 1 \in 1..Len(ended) /\ ended'[j] = ended[j + 1]
    BY <1>5
  <2>2. i + 1 = j + 1
    BY <2>1 DEF LiveInv
  <2> QED
    BY <2>2
<1>13. rt'.pending # None => /\ rt'.pending.id <= minted'
                             /\ rt'.pending.id \notin Spoken' /\ rt'.pending.id \notin Waiting'
  BY <1>3, <1>6, <1>8, <1>10 DEF LiveInv
<1> QED
  BY <1>9, <1>11, <1>12, <1>13 DEF LiveInv

-----------------------------------------------------------------------------
(* A step at which nothing is announced or published.                      *)

MuteStep ==
  /\ UNCHANGED ended /\ minted <= minted' /\ Goes(toPwa, toPwa', Mute)
  /\ rt'.published \subseteq rt.published
  /\ rt'.pending = None \/ rt'.pending = rt.pending

LEMMA MuteLive ==
  ASSUME SessionTypes, SessionTypes', LiveInv, parts' = parts, MuteStep
  PROVE  LiveInv'
<1>1. Spoken' \subseteq Spoken
  BY SpokenKept DEF MuteStep
<1> QED
  BY <1>1, LiveKept DEF MuteStep

RuntimeEmpties == rt' = rt \/ \E s : rt' = Reset(s)

LEMMA EmptiesMute ==
  ASSUME RuntimeEmpties
  PROVE  rt'.published \subseteq rt.published /\ (rt'.pending = None \/ rt'.pending = rt.pending)
<1>1. CASE rt' = rt
  BY <1>1
<1>2. CASE \E s : rt' = Reset(s)
  <2>1. PICK s : rt' = Reset(s)
    BY <1>2
  <2>2. rt'.published = {} /\ rt'.pending = None
    BY <2>1 DEF Reset
  <2> QED
    BY <2>2
<1> QED
  BY <1>1, <1>2 DEF RuntimeEmpties

LEMMA ReceivesRuntime ==
  ASSUME HostTypes, HostReceives
  PROVE  RuntimeEmpties /\ UNCHANGED <<ended, minted>>
<1>1. /\ UNCHANGED <<ended, minted>> /\ Head(toHost) \in ClientFrame
      /\ \/ UNCHANGED <<rt, strayed>>
         \/ Serve(Server, Head(toHost))
  BY ReceivesCases DEF sessionVars
<1>2. PICK b, f : b = Server /\ f = Head(toHost)
  OBVIOUS
<1>3. Serviceable(b) /\ f \in ClientFrame
  BY <1>1, <1>2, ServerTyped
<1>4. ASSUME Serve(b, f)
      PROVE  RuntimeEmpties
  <2>1. \/ rt' = EnsureTimeline /\ UNCHANGED strayed
        \/ f.type = "sync" /\ Sync(b, f)
    BY <1>3, <1>4, ServeCases
  <2>2. CASE f.type = "sync" /\ Sync(b, f)
    <3>1. AttachTo(b.session) \/ UNCHANGED <<rt, strayed>>
      BY <1>3, <2>2, SyncCases
    <3> QED
      BY <3>1 DEF AttachTo, Attached, RuntimeEmpties
  <2>3. CASE rt' = EnsureTimeline /\ UNCHANGED strayed
    BY <2>3 DEF EnsureTimeline, Attached, RuntimeEmpties
  <2> QED
    BY <2>1, <2>2, <2>3
<1> QED
  BY <1>1, <1>2, <1>4 DEF RuntimeEmpties

LEMMA ServesMute ==
  ASSUME SessionTypes, HostServes
  PROVE  Goes(toPwa, toPwa', Mute)
<1>1. PICK b, f : b = Server /\ f = Head(toHost)
  OBVIOUS
<1>2. HostTypes /\ Serviceable(b) /\ f \in ClientFrame /\ Serves(b, f)
  BY <1>1, ServerTyped DEF HostServes, SessionTypes
<1>3. Mute \in SUBSET ServerFrame
  BY DEF Mute
<1>4. Adds(Mute)
  <2>1. CASE UNCHANGED toPwa
    BY <1>2, <2>1, NothingAdded
  <2>2. CASE Minor(b)
    BY <2>2, WordsMute, AddsMore DEF Minor
  <2>3. CASE f.type = "sync" /\ Sync(b, f)
    <3>1. PICK frames \in Seq(Chunk \cup {ResetFrame(b)}) : Post(frames)
      BY <1>2, <2>3, SyncTyped
    <3>2. Chunk \cup {ResetFrame(b)} \subseteq Mute
      <4>1. ResetFrame(b) \in Mute
        BY <1>2, ResetTyped DEF Mute, ResetFrame
      <4>2. Chunk \subseteq Mute
        BY DEF Mute, ServerFrame, Chunk
      <4> QED
        BY <4>1, <4>2
    <3>3. frames \in Seq(Mute)
      BY <3>1, <3>2, SeqMonotonic
    <3> QED
      BY <1>2, <3>1, <3>3, PostAdds
  <2>4. CASE f.type = "hello" /\ Hello(b, f)
    <3>1. [type |-> "ready", session |-> b.session, gen |-> b.gen, rid |-> f.rid] \in Mute
      BY <1>2, ClientFields DEF Mute, ServerFrame, Serviceable, Service
    <3> QED
      BY <1>2, <2>4, <3>1, OneAdds DEF Hello
  <2> QED
    BY <1>2, <2>1, <2>2, <2>3, <2>4 DEF Serves
<1> QED
  BY <1>2, <1>3, <1>4, AddsGoes

LEMMA AddsNothing ==
  ASSUME SessionTypes, HostMoves(Words)
  PROVE  Goes(toPwa, toPwa', Mute)
<1>1. HostTypes /\ Mute \in SUBSET ServerFrame /\ Adds(Mute)
  BY WordsMute, AddsMore DEF SessionTypes, Mute, HostMoves
<1> QED
  BY <1>1, AddsGoes

LEMMA OthersLive ==
  ASSUME SessionTypes, SessionTypes',
         \/ EndRun \/ TypePrompt \/ ShutdownSession \/ Stream \/ StartSession \/ EndBridge
         \/ MoveInTree \/ ReconnectHost \/ ExpireRecord \/ HostReceives
         \/ \E type \in {"custom", "custom_message", "compaction"} : WriteEntry(type)
  PROVE  MuteStep
<1>1. HostTypes /\ HostTypes' /\ minted \in Nat /\ rt \in Runtime
  BY HostFields DEF SessionTypes
<1>2. Goes(toPwa, toPwa', Mute)
  <2>1. CASE \/ EndRun \/ TypePrompt \/ ShutdownSession \/ Stream \/ StartSession \/ EndBridge
             \/ MoveInTree \/ ExpireRecord
             \/ \E type \in {"custom", "custom_message", "compaction"} : WriteEntry(type)
    BY <1>1, <2>1, OthersMove, StreamMoves, SessionsMove, MoveInTreeMoves, ExpireMoves, AddsNothing
  <2>2. CASE ReconnectHost
    BY <1>1, <2>2, ReconnectIs, WordsMute, GoesMore DEF HostReconnects
  <2>3. CASE HostReceives
    BY <1>1, <2>3, ReceivesServes, ServesMute
  <2> QED
    BY <2>1, <2>2, <2>3
<1>3. UNCHANGED ended /\ minted <= minted'
  <2>1. CASE HostReceives
    BY <1>1, <2>1, ReceivesRuntime
  <2> QED
    BY <1>1, <2>1 DEF EndRun, TypePrompt, ShutdownSession, Stream, StartSession, EndBridge,
       MoveInTree, ReconnectHost, ExpireRecord, WriteEntry, sessionVars, runtimeVars
<1>4. rt'.published \subseteq rt.published /\ (rt'.pending = None \/ rt'.pending = rt.pending)
  <2>1. CASE HostReceives
    BY <1>1, <2>1, ReceivesRuntime, EmptiesMute
  <2>2. CASE EndRun
    BY <1>1, <2>2 DEF EndRun, Runtime
  <2>3. CASE StartSession
    BY <2>3, EmptiesMute DEF StartSession, RuntimeEmpties
  <2> QED
    BY <2>1, <2>2, <2>3 DEF TypePrompt, ShutdownSession, Stream, EndBridge,
       MoveInTree, ReconnectHost, ExpireRecord, WriteEntry, runtimeVars
<1> QED
  BY <1>2, <1>3, <1>4 DEF MuteStep

LEMMA HostKeepsLive ==
  ASSUME SessionTypes, SessionTypes', LiveInv, HostNext, UNCHANGED pwaVars
  PROVE  LiveInv'
<1>1. parts' = parts
  BY DEF pwaVars, transferVars
<1> QED
  BY <1>1, MessagesLive, EndMessageLive, PublishLive, OthersLive, MuteLive DEF HostNext

LEMMA HearsParts ==
  ASSUME SessionTypes, Hears
  PROVE  \/ parts' \subseteq parts
         \/ Head(toPwa).type = "fragment" /\ parts' \subseteq parts \cup {Head(toPwa).part}
<1> DEFINE f == Head(toPwa)
<1>1. CASE UNCHANGED pwaVars
  BY <1>1 DEF pwaVars, transferVars
<1>2. CASE Expected(f) /\ f.type # "ready" /\ Take(f)
  <2>1. CASE f.type = "fragment" /\ ReceiveFragment(f)
    <3>1. parts' \subseteq parts \cup {f.part}
      BY <2>1 DEF ReceiveFragment
    <3> QED
      BY <2>1, <3>1
  <2>2. CASE f.type # "fragment"
    BY <1>2, <2>2 DEF Take, ReceiveEvent, ReceiveChunk, transferVars
  <2> QED
    BY <1>2, <2>1, <2>2 DEF Take
<1> QED
  BY <1>1, <1>2 DEF Hears

LEMMA PageParts ==
  ASSUME SessionTypes, PageActs
  PROVE  \/ parts' \subseteq parts
         \/ /\ toPwa # <<>> /\ Head(toPwa).type = "fragment"
            /\ parts' \subseteq parts \cup {Head(toPwa).part}
<1>1. CASE Hears
  BY <1>1, HearsParts DEF Hears
<1>2. CASE Connect \/ LoseLink \/ StartsAnew \/ Enters
  BY <1>2 DEF Connect, LoseLink, StartsAnew, Rejoin, ClearTransfer, Enters, EnterScope, transferVars
<1>3. CASE LoadEarlier \/ RunTransaction \/ \E r \in Requests : SendMessage(r) \/ RetryUnknown(r)
  BY <1>3 DEF LoadEarlier, RunTransaction, SendMessage, RetryUnknown, Pends, transferVars
<1> QED
  BY <1>1, <1>2, <1>3 DEF PageActs

LEMMA PageSpeaks ==
  ASSUME SessionTypes, SessionTypes', PageActs, UNCHANGED hostSide
  PROVE  Spoken' \subseteq Spoken
<1>1. Goes(toPwa, toPwa', {})
  BY PageQueue
<1>2. InQueue(toPwa') \subseteq InQueue(toPwa)
  <2>1. {} \subseteq Mute
    OBVIOUS
  <2> QED
    BY <1>1, <2>1, MuteQueue
<1>3. UNCHANGED rt
  BY HostSideIs
<1>4. \A p \in parts' : p \in parts \/ p.event.id \in InQueue(toPwa)
  <2>1. CASE parts' \subseteq parts
    BY <2>1
  <2>2. CASE /\ toPwa # <<>> /\ Head(toPwa).type = "fragment"
             /\ parts' \subseteq parts \cup {Head(toPwa).part}
    <3>1. toPwa \in Seq(ServerFrame)
      BY QueuesTyped
    <3>2. 1 \in 1..Len(toPwa) /\ Head(toPwa) = toPwa[1]
      BY <2>2, <3>1, HeadIsFirst
    <3>3. LiveIds(toPwa[1]) = {Head(toPwa).part.event.id}
      BY <2>2, <3>2 DEF LiveIds
    <3>4. Head(toPwa).part.event.id \in InQueue(toPwa)
      BY <3>2, <3>3 DEF InQueue
    <3> QED
      BY <2>2, <3>4
  <2> QED
    BY <2>1, <2>2, PageParts
<1> QED
  BY <1>2, <1>3, <1>4 DEF Spoken

(* No step publishes an event twice.                                       *)
LEMMA NextLive ==
  ASSUME SessionTypes, SessionTypes', LinkInv, LiveInv, [Next]_vars
  PROVE  LiveInv'
<1>1. minted \in Nat
  BY HostFields DEF SessionTypes
<1>2. CASE UNCHANGED vars
  <2>1. UNCHANGED <<rt, toPwa, parts, ended, minted>>
    BY <1>2 DEF vars, hostVars, sessionVars, runtimeVars, netVars, transferVars
  <2>2. Spoken' \subseteq Spoken
    BY <2>1 DEF Spoken
  <2> QED
    BY <1>1, <2>1, <2>2, LiveKept
<1>3. CASE PageActs /\ UNCHANGED hostSide
  <2>1. UNCHANGED <<rt, ended, minted>>
    BY <1>3, HostSideIs
  <2> QED
    BY <1>1, <1>3, <2>1, PageSpeaks, LiveKept
<1> QED
  BY <1>2, <1>3, Steps, HostKeepsLive

LEMMA InitLive ==
  ASSUME Init
  PROVE  LiveInv
<1>1. rt.published = {} /\ toPwa = <<>> /\ parts = {} /\ ended = <<>> /\ rt.pending = None
  BY DEF Init, HostInit, Reset
<1>2. InQueue(toPwa) = {}
  BY <1>1 DEF InQueue
<1>3. Spoken = {} /\ Waiting = {}
  BY <1>1, <1>2 DEF Spoken, Waiting
<1> QED
  BY <1>1, <1>3 DEF LiveInv

-----------------------------------------------------------------------------
(* Where the messages of the branch are that the page does not show yet.   *)

FragmentAt(q, sc, i, e, n) ==
  q[i].type = "fragment" /\ InScope(sc, q[i]) /\ q[i].part = Fragments(e)[n]

Whole(q, sc, e) ==
  \E i \in 1..Len(q) : q[i].type = "event" /\ InScope(sc, q[i]) /\ q[i].event = e

(* Nothing of the event is before its fragments.                           *)
Cut(q, ps, sc, e) ==
  /\ PartsOf(ps, e) = {}
  /\ \E i, n \in 1..Len(q) :
       /\ n = i + 1 /\ FragmentAt(q, sc, i, e, 1) /\ FragmentAt(q, sc, n, e, 2)
       /\ \A j \in 1..Len(q) : j < i /\ q[j].type = "fragment" => ~SameEvent(q[j].part.event, e)

Half(q, ps, sc, e) ==
  PartsOf(ps, e) = {Fragments(e)[1]} /\ 1 \in 1..Len(q) /\ FragmentAt(q, sc, 1, e, 2)

Comes(q, ps, sc, e) == Whole(q, sc, e) \/ Cut(q, ps, sc, e) \/ Half(q, ps, sc, e)

LEMMA ComesLonger ==
  ASSUME NEW S, NEW q \in Seq(S), NEW new \in Seq(S), NEW ps, NEW sc, NEW e, Comes(q, ps, sc, e),
         NEW r, r = q \o new
  PROVE  Comes(r, ps, sc, e)
<1>1. /\ Len(q) \in Nat /\ Len(r) \in Nat /\ Len(q) <= Len(r)
      /\ \A i \in 1..Len(q) : r[i] = q[i]
  BY JoinIs
<1>2. \A i \in 1..Len(q) : i \in 1..Len(r)
  BY <1>1
<1>3. CASE Whole(q, sc, e)
  BY <1>1, <1>2, <1>3 DEF Whole, Comes
<1>4. CASE Cut(q, ps, sc, e)
  <2>1. PICK i, n \in 1..Len(q) :
         /\ n = i + 1 /\ FragmentAt(q, sc, i, e, 1) /\ FragmentAt(q, sc, n, e, 2)
         /\ \A j \in 1..Len(q) : j < i /\ q[j].type = "fragment" => ~SameEvent(q[j].part.event, e)
    BY <1>4 DEF Cut
  <2>2. FragmentAt(r, sc, i, e, 1) /\ FragmentAt(r, sc, n, e, 2)
    BY <1>1, <2>1 DEF FragmentAt
  <2>3. \A j \in 1..Len(r) : j < i /\ r[j].type = "fragment" => ~SameEvent(r[j].part.event, e)
    <3> SUFFICES ASSUME NEW j \in 1..Len(r), j < i, r[j].type = "fragment"
                 PROVE  ~SameEvent(r[j].part.event, e)
      OBVIOUS
    <3>1. j \in 1..Len(q) /\ r[j] = q[j]
      BY <1>1
    <3> QED
      BY <2>1, <3>1
  <2>4. i \in 1..Len(r) /\ n \in 1..Len(r) /\ n = i + 1 /\ PartsOf(ps, e) = {}
    BY <1>2, <1>4, <2>1 DEF Cut
  <2>5. Cut(r, ps, sc, e)
    BY <2>2, <2>3, <2>4 DEF Cut
  <2> QED
    BY <2>5 DEF Comes
<1>5. CASE Half(q, ps, sc, e)
  <2>1. r[1] = q[1] /\ 1 \in 1..Len(r)
    BY <1>1, <1>2, <1>5 DEF Half
  <2> QED
    BY <1>5, <2>1 DEF Half, FragmentAt, Comes
<1> QED
  BY <1>3, <1>4, <1>5 DEF Comes

(* What is not at the head is nearer after it is taken.                    *)
LEMMA WholeNearer ==
  ASSUME NEW S, NEW q \in Seq(S), q # <<>>, NEW sc, NEW e, Whole(q, sc, e), NEW r, r = Tail(q),
         ~(Head(q).type = "event" /\ InScope(sc, Head(q)) /\ Head(q).event = e)
  PROVE  Whole(r, sc, e)
<1>1. Head(q) = q[1] /\ Len(r) = Len(q) - 1 /\ Len(q) \in Nat
      /\ \A i \in 1..Len(r) : i + 1 \in 1..Len(q) /\ r[i] = q[i + 1]
  BY HeadIsFirst
<1>2. PICK i \in 1..Len(q) : q[i].type = "event" /\ InScope(sc, q[i]) /\ q[i].event = e
  BY DEF Whole
<1>3. i # 1
  BY <1>1, <1>2
<1>4. PICK k : k = i - 1
  OBVIOUS
<1>5. k \in 1..Len(r) /\ k + 1 = i
  BY <1>1, <1>3, <1>4
<1>6. r[k] = q[i]
  BY <1>1, <1>5
<1> QED
  BY <1>2, <1>5, <1>6 DEF Whole

LEMMA CutNearer ==
  ASSUME NEW S, NEW q \in Seq(S), q # <<>>, NEW ps, NEW ps2, NEW sc, NEW e, Cut(q, ps, sc, e),
         NEW r, r = Tail(q),
         Head(q).type = "fragment" => ~SameEvent(Head(q).part.event, e), PartsOf(ps2, e) = {},
         ~FragmentAt(q, sc, 1, e, 1)
  PROVE  Cut(r, ps2, sc, e)
<1>1. Head(q) = q[1] /\ Len(r) = Len(q) - 1 /\ Len(q) \in Nat
      /\ \A i \in 1..Len(r) : i + 1 \in 1..Len(q) /\ r[i] = q[i + 1]
  BY HeadIsFirst
<1>2. PICK i, n \in 1..Len(q) :
       /\ n = i + 1 /\ FragmentAt(q, sc, i, e, 1) /\ FragmentAt(q, sc, n, e, 2)
       /\ \A j \in 1..Len(q) : j < i /\ q[j].type = "fragment" => ~SameEvent(q[j].part.event, e)
  BY DEF Cut
<1>3. i # 1
  BY <1>2
<1>4. PICK k : k = i - 1
  OBVIOUS
<1>5. k \in 1..Len(r) /\ k + 1 = i /\ i \in 1..Len(r) /\ i + 1 = n
  BY <1>1, <1>2, <1>3, <1>4
<1>6. r[k] = q[i] /\ r[i] = q[n]
  BY <1>1, <1>5
<1>7. FragmentAt(r, sc, k, e, 1) /\ FragmentAt(r, sc, i, e, 2)
  BY <1>2, <1>6 DEF FragmentAt
<1>8. \A j \in 1..Len(r) : j < k /\ r[j].type = "fragment" => ~SameEvent(r[j].part.event, e)
  <2> SUFFICES ASSUME NEW j \in 1..Len(r), j < k, r[j].type = "fragment"
               PROVE  ~SameEvent(r[j].part.event, e)
    OBVIOUS
  <2>1. j + 1 \in 1..Len(q) /\ r[j] = q[j + 1] /\ j + 1 < i
    BY <1>1, <1>5
  <2> QED
    BY <1>2, <2>1
<1> QED
  BY <1>5, <1>7, <1>8 DEF Cut

(* A frame that has nothing to do with events is taken.                    *)
LEMMA ComesNearer ==
  ASSUME NEW S, NEW q \in Seq(S), q # <<>>, NEW ps, NEW sc, NEW e, Comes(q, ps, sc, e),
         NEW r, r = Tail(q), Head(q).type \notin {"event", "fragment"}
  PROVE  Comes(r, ps, sc, e)
<1>1. ~FragmentAt(q, sc, 1, e, 1) /\ ~FragmentAt(q, sc, 1, e, 2)
  BY HeadIsFirst DEF FragmentAt
<1>2. CASE Whole(q, sc, e)
  BY <1>2, WholeNearer DEF Comes
<1>3. CASE Cut(q, ps, sc, e)
  <2>1. PartsOf(ps, e) = {}
    BY <1>3 DEF Cut
  <2> QED
    BY <1>1, <1>3, <2>1, CutNearer DEF Comes
<1> QED
  BY <1>1, <1>2, <1>3 DEF Comes, Half

(* An event is taken: it is the one, or not in the way.                    *)
LEMMA ComesPastEvent ==
  ASSUME NEW S, NEW q \in Seq(S), q # <<>>, NEW ps, NEW sc, NEW e, Comes(q, ps, sc, e),
         NEW r, r = Tail(q), Head(q).type = "event"
  PROVE  Comes(r, ps, sc, e) \/ (InScope(sc, Head(q)) /\ Head(q).event = e)
<1>1. ~FragmentAt(q, sc, 1, e, 1) /\ ~FragmentAt(q, sc, 1, e, 2)
  BY HeadIsFirst DEF FragmentAt
<1>2. CASE Whole(q, sc, e)
  BY <1>2, WholeNearer DEF Comes
<1>3. CASE Cut(q, ps, sc, e)
  <2>1. PartsOf(ps, e) = {}
    BY <1>3 DEF Cut
  <2> QED
    BY <1>1, <1>3, <2>1, CutNearer DEF Comes
<1> QED
  BY <1>1, <1>2, <1>3 DEF Comes, Half

-----------------------------------------------------------------------------
(* An event in fragments on its way.                                       *)

Fits(ps, f) == Extends(PartsOf(ps, f.part.event) \ {f.part}, f.part)

Finishes(ps, sc, f) == InScope(sc, f) /\ Fits(ps, f) /\ IsWhole(ps \cup {f.part}, f.part.event)

LEMMA FragmentsAre ==
  ASSUME NEW e
  PROVE  /\ Fragments(e)[1].event = e /\ Fragments(e)[1].index = 0 /\ ~Fragments(e)[1].final
         /\ Fragments(e)[2].event = e /\ Fragments(e)[2].index = 1 /\ Fragments(e)[2].final
<1>1. 1 \in 1..2 /\ 2 \in 1..2
  OBVIOUS
<1>2. /\ Fragments(e)[1] = [event |-> e, index |-> 1 - 1, final |-> 1 = 2]
      /\ Fragments(e)[2] = [event |-> e, index |-> 2 - 1, final |-> 2 = 2]
  BY <1>1 DEF Fragments
<1>3. 1 - 1 = 0 /\ 2 - 1 = 1 /\ (1 = 2) = FALSE /\ (2 = 2) = TRUE
  OBVIOUS
<1>4. /\ Fragments(e)[1] = [event |-> e, index |-> 0, final |-> FALSE]
      /\ Fragments(e)[2] = [event |-> e, index |-> 1, final |-> TRUE]
  BY <1>2, <1>3
<1>5. PICK x, y : x = Fragments(e)[1] /\ y = Fragments(e)[2]
  OBVIOUS
<1>6. x.event = e /\ x.index = 0 /\ ~x.final /\ y.event = e /\ y.index = 1 /\ y.final
  BY <1>4, <1>5
<1> QED
  BY <1>5, <1>6

LEMMA PartIsThere ==
  ASSUME NEW ps, NEW e, NEW p \in ps, p.event = e
  PROVE  p \in PartsOf(ps, e)
  BY DEF PartsOf, SameEvent

(* The first fragment is kept.                                             *)
LEMMA FirstIsKept ==
  ASSUME NEW ps, NEW sc, NEW e, NEW f, PartsOf(ps, e) = {}, f.part = Fragments(e)[1]
  PROVE  /\ Fits(ps, f) /\ ~IsWhole(ps \cup {f.part}, f.part.event)
         /\ PartsOf(ps \cup {f.part}, e) = {Fragments(e)[1]}
<1>1. f.part.event = e /\ ~f.part.final
  BY FragmentsAre
<1>2. Fits(ps, f)
  BY <1>1 DEF Fits, Extends
<1>3. ~IsWhole(ps \cup {f.part}, e)
  <2> SUFFICES ASSUME NEW last \in ps \cup {f.part}, last.event = e, last.final
               PROVE  FALSE
    BY DEF IsWhole
  <2>1. last \in ps
    BY <1>1
  <2> QED
    BY <2>1, PartIsThere
<1>4. PartsOf(ps \cup {f.part}, e) = {Fragments(e)[1]}
  <2>1. f.part \in PartsOf(ps \cup {f.part}, e)
    BY <1>1 DEF PartsOf, SameEvent
  <2>2. \A p \in PartsOf(ps \cup {f.part}, e) : p = f.part
    BY DEF PartsOf
  <2> QED
    BY <2>1, <2>2
<1> QED
  BY <1>1, <1>2, <1>3, <1>4

(* The second one makes the event.                                         *)
LEMMA SecondFinishes ==
  ASSUME NEW ps, NEW sc, NEW e, NEW f, PartsOf(ps, e) = {Fragments(e)[1]},
         f.part = Fragments(e)[2], InScope(sc, f)
  PROVE  Finishes(ps, sc, f) /\ f.part.event = e
<1>1. f.part.event = e /\ f.part.final /\ f.part.index = 1
  BY FragmentsAre
<1>2. PICK x : x = Fragments(e)[1]
  OBVIOUS
<1>3. x.event = e /\ x.index = 0 /\ ~x.final /\ x \in ps
  BY <1>2, FragmentsAre DEF PartsOf
<1>4. Fits(ps, f)
  <2>1. \A y \in PartsOf(ps, e) \ {f.part} : y = x
    BY <1>2
  <2> QED
    BY <1>1, <1>3, <2>1 DEF Fits, Extends
<1>5. IsWhole(ps \cup {f.part}, e)
  <2>1. \A i \in 0..1 : \E p \in ps \cup {f.part} : p.event = e /\ p.index = i
    <3> SUFFICES ASSUME NEW i \in 0..1
                 PROVE  \E p \in ps \cup {f.part} : p.event = e /\ p.index = i
      OBVIOUS
    <3>1. i = 0 \/ i = 1
      OBVIOUS
    <3> QED
      BY <1>1, <1>3, <3>1
  <2> QED
    BY <1>1, <2>1 DEF IsWhole
<1> QED
  BY <1>1, <1>4, <1>5 DEF Finishes

(* The parts after a fragment.                                             *)
PartsAfter(ps, sc, f) ==
  CASE sc = None -> ps
    [] sc # None /\ ~InScope(sc, f) -> {}
    [] InScope(sc, f) /\ (Finishes(ps, sc, f) \/ ~Fits(ps, f)) -> ps \ PartsOf(ps, f.part.event)
    [] OTHER -> ps \cup {f.part}

LEMMA PartsAfterIs ==
  ASSUME NEW ps, NEW sc, NEW f
  PROVE  /\ PartsAfter(ps, sc, f) \subseteq ps \cup {f.part}
         /\ InScope(sc, f) /\ Fits(ps, f) /\ ~Finishes(ps, sc, f) =>
              PartsAfter(ps, sc, f) = ps \cup {f.part}
<1>1. CASE sc = None
  BY <1>1 DEF PartsAfter, InScope
<1>2. CASE sc # None
  BY <1>2 DEF PartsAfter
<1> QED
  BY <1>1, <1>2

(* With f the fragments make e.                                            *)
Makes(ps, sc, f, e) == Finishes(ps, sc, f) /\ f.part.event = e

LEMMA ComesPastFragment ==
  ASSUME NEW S, NEW q \in Seq(S), q # <<>>, NEW ps, NEW sc, NEW e, Comes(q, ps, sc, e),
         NEW r, r = Tail(q), NEW f, f = Head(q), f.type = "fragment"
  PROVE  \/ Comes(r, PartsAfter(ps, sc, f), sc, e)
         \/ Makes(ps, sc, f, e)
<1>1. /\ Head(q) = q[1] /\ Len(r) = Len(q) - 1 /\ Len(q) \in Nat
      /\ \A i \in 1..Len(r) : i + 1 \in 1..Len(q) /\ r[i] = q[i + 1]
  BY HeadIsFirst
<1>2. PICK ps2 : ps2 = PartsAfter(ps, sc, f)
  OBVIOUS
<1>3. ps2 \subseteq ps \cup {f.part}
  BY <1>2, PartsAfterIs
<1>4. CASE Whole(q, sc, e)
  <2>1. Whole(r, sc, e)
    BY <1>4, WholeNearer
  <2> QED
    BY <2>1 DEF Comes
<1>5. CASE Cut(q, ps, sc, e) /\ FragmentAt(q, sc, 1, e, 1)
  <2>1. PartsOf(ps, e) = {} /\ f.part = Fragments(e)[1] /\ InScope(sc, f)
    BY <1>1, <1>5 DEF Cut, FragmentAt
  <2>2. /\ Fits(ps, f) /\ ~Finishes(ps, sc, f)
        /\ PartsOf(ps \cup {f.part}, e) = {Fragments(e)[1]}
    BY <2>1, FirstIsKept DEF Finishes
  <2>3. ps2 = ps \cup {f.part}
    BY <1>2, <2>1, <2>2, PartsAfterIs
  <2>4. PICK i, n \in 1..Len(q) :
         /\ n = i + 1 /\ FragmentAt(q, sc, i, e, 1) /\ FragmentAt(q, sc, n, e, 2)
         /\ \A j \in 1..Len(q) : j < i /\ q[j].type = "fragment" => ~SameEvent(q[j].part.event, e)
    BY <1>5 DEF Cut
  <2>5. i = 1
    <3>1. SameEvent(q[1].part.event, e)
      BY <1>1, <2>1, FragmentsAre DEF SameEvent
    <3>2. 1 \in 1..Len(q)
      BY <2>4
    <3> QED
      BY <1>1, <2>4, <3>1, <3>2
  <2>6. 1 \in 1..Len(r) /\ r[1] = q[n]
    BY <1>1, <2>4, <2>5
  <2>7. FragmentAt(r, sc, 1, e, 2)
    BY <2>4, <2>6 DEF FragmentAt
  <2>8. Half(r, ps2, sc, e)
    BY <2>2, <2>3, <2>6, <2>7 DEF Half
  <2> QED
    BY <1>2, <2>8 DEF Comes
<1>6. CASE Cut(q, ps, sc, e) /\ ~FragmentAt(q, sc, 1, e, 1)
  <2>1. PartsOf(ps, e) = {}
    BY <1>6 DEF Cut
  <2>2. ~SameEvent(f.part.event, e)
    <3>1. PICK i, n \in 1..Len(q) :
           /\ n = i + 1 /\ FragmentAt(q, sc, i, e, 1) /\ FragmentAt(q, sc, n, e, 2)
           /\ \A j \in 1..Len(q) : j < i /\ q[j].type = "fragment" => ~SameEvent(q[j].part.event, e)
      BY <1>6 DEF Cut
    <3>2. i # 1 /\ 1 \in 1..Len(q) /\ 1 < i
      BY <1>1, <1>6, <3>1
    <3> QED
      BY <1>1, <3>1, <3>2
  <2>3. PartsOf(ps2, e) = {}
    BY <1>3, <2>1, <2>2 DEF PartsOf
  <2>4. Cut(r, ps2, sc, e)
    BY <1>6, <2>2, <2>3, CutNearer
  <2> QED
    BY <1>2, <2>4 DEF Comes
<1>7. CASE Half(q, ps, sc, e)
  <2>1. f.part = Fragments(e)[2] /\ InScope(sc, f) /\ PartsOf(ps, e) = {Fragments(e)[1]}
    BY <1>1, <1>7 DEF Half, FragmentAt
  <2> QED
    BY <2>1, SecondFinishes DEF Makes
<1> QED
  BY <1>4, <1>5, <1>6, <1>7 DEF Comes

(* An event that is sent when nothing of it is anywhere yet.               *)
LEMMA DeliveredComes ==
  ASSUME NEW S, NEW q \in Seq(S), NEW new \in Seq(S), NEW ps, NEW sc, NEW b, NEW e,
         Delivers(new, b, e), sc # None, sc.session = b.session, sc.gen = b.gen,
         PartsOf(ps, e) = {},
         \A j \in 1..Len(q) : q[j].type = "fragment" => ~SameEvent(q[j].part.event, e),
         NEW r, r = q \o new
  PROVE  Comes(r, ps, sc, e)
<1>1. /\ Len(q) \in Nat /\ Len(new) \in Nat /\ Len(r) = Len(q) + Len(new)
      /\ \A i \in 1..Len(q) : r[i] = q[i]
      /\ \A j \in 1..Len(new) : r[Len(q) + j] = new[j]
  BY JoinIs
<1>2. CASE \E i \in 1..Len(new) : /\ new[i].type = "event" /\ new[i].event = e
                                  /\ new[i].session = b.session /\ new[i].gen = b.gen
  <2>1. PICK i \in 1..Len(new) : /\ new[i].type = "event" /\ new[i].event = e
                                 /\ new[i].session = b.session /\ new[i].gen = b.gen
    BY <1>2
  <2>2. PICK k : k = Len(q) + i
    OBVIOUS
  <2>3. k \in 1..Len(r) /\ r[k] = new[i]
    BY <1>1, <2>2
  <2>4. Whole(r, sc, e)
    BY <2>1, <2>3 DEF Whole, InScope
  <2> QED
    BY <2>4 DEF Comes
<1>3. CASE /\ Len(new) >= 2
           /\ \A i \in 1..2 : /\ new[i].type = "fragment" /\ new[i].part = Fragments(e)[i]
                              /\ new[i].session = b.session /\ new[i].gen = b.gen
  <2>1. PICK k, n : k = Len(q) + 1 /\ n = Len(q) + 2
    OBVIOUS
  <2>2. 1 \in 1..2 /\ 2 \in 1..2 /\ 1 \in 1..Len(new) /\ 2 \in 1..Len(new)
    BY <1>1, <1>3
  <2>3. /\ k \in 1..Len(r) /\ n \in 1..Len(r) /\ n = k + 1 /\ r[k] = new[1] /\ r[n] = new[2]
    BY <1>1, <2>1, <2>2
  <2>4. FragmentAt(r, sc, k, e, 1) /\ FragmentAt(r, sc, n, e, 2)
    BY <1>3, <2>2, <2>3 DEF FragmentAt, InScope
  <2>5. \A j \in 1..Len(r) : j < k /\ r[j].type = "fragment" => ~SameEvent(r[j].part.event, e)
    <3> SUFFICES ASSUME NEW j \in 1..Len(r), j < k, r[j].type = "fragment"
                 PROVE  ~SameEvent(r[j].part.event, e)
      OBVIOUS
    <3>1. j \in 1..Len(q) /\ r[j] = q[j]
      BY <1>1, <2>1
    <3> QED
      BY <3>1
  <2>6. Cut(r, ps, sc, e)
    BY <2>3, <2>4, <2>5 DEF Cut
  <2> QED
    BY <2>6 DEF Comes
<1> QED
  BY <1>2, <1>3 DEF Delivers

-----------------------------------------------------------------------------
(* The invariant: an event that is due waits at the host for its marker,   *)
(* comes live, is being fetched, is in the journal, is shown, or is left   *)
(* to an older page.                                                       *)

(* What ends the session on the page when it comes.                        *)
Upsets(sc, f) ==
  \/ f.type = "endpoint"
  \/ f.type = "reset" /\ f.session = sc.session
  \/ f.type = "bye" /\ InScope(sc, f)

(* The page and the host are in the same session.                          *)
Joined ==
  /\ phase = "online" /\ live /\ ~bridge
  /\ binding # None /\ binding.ready = TRUE
  /\ scope = [session |-> Current, gen |-> generation]
  /\ \A i \in 1..Len(toPwa) : ~Upsets(scope, toPwa[i])

Unhindered == Joined /\ ~strayed /\ (assembler # None => ~assembler.discarded)

(* A cursor of b leads to a page that goes on at or after r.               *)
Reaches(b, id, r) == \E c \in b.cursors : c.id = id /\ r.at <= c.position

Brings(b, c, r) == Bears(c, r.event) \/ (c.final /\ Reaches(b, c.next, r))

(* The frame f asks for the page of assembler a, with the generation g.    *)
IsFor(a, g, b, f, r) ==
  /\ f.type = "sync" /\ f.rid = a.rid /\ f.gen = g
  /\ a.older => f.before # None /\ Reaches(b, f.before, r)
  /\ ~a.older => f.before = None

AtHost(r) == \E i \in 1..Len(ended) : ended[i].id = r.event.id /\ ended[i].session = Current

Asked(r) == \E i \in 1..Len(toHost) : IsFor(assembler, generation, binding, toHost[i], r)

Answered(r) ==
  \/ \E c \in assembler.chunks : Brings(binding, c, r)
  \/ \E i \in 1..Len(toPwa) : /\ toPwa[i].type = "chunk" /\ toPwa[i].rid = assembler.rid
                              /\ Brings(binding, toPwa[i], r)

Fetched(r) == assembler # None /\ (Asked(r) \/ Answered(r))

Loading == assembler # None /\ ~assembler.older

Journaled(r) == Loading /\ r.event \in journal

Shown(r) == ~Loading /\ (r.event \in events \/ "view" \in spoiled)

LeftOver(r) == assembler = None /\ Reaches(binding, before, r)

Cover(r) ==
  \/ AtHost(r) \/ Comes(toPwa, parts, scope, r.event) \/ Fetched(r)
  \/ Journaled(r) \/ Shown(r) \/ LeftOver(r)

Due(r) == IsMarked(r) /\ ~CutOff(r)

CoverInv == Unhindered => \A r \in History : Due(r) => Cover(r)

KeepsCursors(b, c) ==
  \A x \in b.cursors : \E y \in c.cursors : y.id = x.id /\ y.position = x.position

LEMMA ReachesOn ==
  ASSUME NEW b, NEW c, KeepsCursors(b, c), NEW id, NEW r, Reaches(b, id, r)
  PROVE  Reaches(c, id, r)
<1>1. PICK x \in b.cursors : x.id = id /\ r.at <= x.position
  BY DEF Reaches
<1>2. PICK y \in c.cursors : y.id = x.id /\ y.position = x.position
  BY DEF KeepsCursors
<1>3. y.id = id /\ r.at <= y.position
  BY <1>1, <1>2
<1> QED
  BY <1>3 DEF Reaches

LEMMA BringsOn ==
  ASSUME NEW b, NEW c, KeepsCursors(b, c), NEW k, NEW r, Brings(b, k, r)
  PROVE  Brings(c, k, r)
  BY ReachesOn DEF Brings

LEMMA IsForOn ==
  ASSUME NEW b, NEW c, KeepsCursors(b, c), NEW a, NEW g, NEW f, NEW r, IsFor(a, g, b, f, r)
  PROVE  IsFor(a, g, c, f, r)
  BY ReachesOn DEF IsFor

(* A step of the host that takes nothing from the page.                    *)
HostAdds ==
  /\ UNCHANGED <<pwaVars, generation>> /\ Current' = Current
  /\ \E new \in Seq(ServerFrame) : toPwa' = toPwa \o new
  /\ KeepsCursors(binding, binding')

LEMMA HostKeepsAnswers ==
  ASSUME SessionTypes, HostAdds, NEW r, Answered(r)
  PROVE  Answered(r)'
<1>1. PICK new \in Seq(ServerFrame) : toPwa' = toPwa \o new
  BY DEF HostAdds
<1>2. /\ Len(toPwa) \in Nat /\ Len(toPwa') \in Nat /\ Len(toPwa) <= Len(toPwa')
      /\ \A i \in 1..Len(toPwa) : toPwa'[i] = toPwa[i]
  BY <1>1, QueuesTyped, JoinIs
<1>3. UNCHANGED assembler /\ KeepsCursors(binding, binding')
  BY DEF HostAdds, pwaVars, transferVars
<1>4. PICK b, c : b = binding /\ c = binding'
  OBVIOUS
<1>5. \A k : Brings(b, k, r) => Brings(c, k, r)
  BY <1>3, <1>4, BringsOn
<1>6. CASE \E k \in assembler.chunks : Brings(binding, k, r)
  BY <1>3, <1>4, <1>5, <1>6 DEF Answered
<1>7. CASE \E i \in 1..Len(toPwa) : /\ toPwa[i].type = "chunk" /\ toPwa[i].rid = assembler.rid
                                    /\ Brings(binding, toPwa[i], r)
  <2>1. PICK i \in 1..Len(toPwa) : /\ toPwa[i].type = "chunk" /\ toPwa[i].rid = assembler.rid
                                   /\ Brings(binding, toPwa[i], r)
    BY <1>7
  <2>2. i \in 1..Len(toPwa') /\ toPwa'[i] = toPwa[i]
    BY <1>2
  <2> QED
    BY <1>3, <1>4, <1>5, <2>1, <2>2 DEF Answered
<1> QED
  BY <1>6, <1>7 DEF Answered

LEMMA HostKeepsCover ==
  ASSUME SessionTypes, HostAdds, NEW r, Cover(r),
         AtHost(r) => AtHost(r)', Asked(r) /\ assembler # None => Asked(r)' \/ Answered(r)'
  PROVE  Cover(r)'
<1>1. UNCHANGED <<assembler, scope, parts, events, journal, spoiled, before>>
  BY DEF HostAdds, pwaVars, transferVars, viewVars
<1>2. CASE AtHost(r)
  BY <1>2 DEF Cover
<1>3. CASE Comes(toPwa, parts, scope, r.event)
  <2>1. PICK new \in Seq(ServerFrame) : toPwa' = toPwa \o new
    BY DEF HostAdds
  <2>2. PICK q, t, ps, sc : q = toPwa /\ t = toPwa' /\ ps = parts /\ sc = scope
    OBVIOUS
  <2>3. q \in Seq(ServerFrame)
    BY <2>2, QueuesTyped
  <2>4. Comes(t, ps, sc, r.event)
    BY <1>3, <2>1, <2>2, <2>3, ComesLonger
  <2>5. Comes(toPwa, parts, scope, r.event)'
    BY <1>1, <2>2, <2>4
  <2> QED
    BY <2>5 DEF Cover
<1>4. CASE Fetched(r)
  BY <1>1, <1>4, HostKeepsAnswers DEF Fetched, Cover
<1>5. CASE Journaled(r) \/ Shown(r)
  BY <1>1, <1>5 DEF Journaled, Shown, Loading, Cover
<1>6. CASE LeftOver(r)
  <2>1. PICK b, c, id : b = binding /\ c = binding' /\ id = before
    OBVIOUS
  <2>2. Reaches(c, id, r)
    BY <1>6, <2>1, ReachesOn DEF LeftOver, HostAdds
  <2>3. LeftOver(r)'
    BY <1>1, <1>6, <2>1, <2>2 DEF LeftOver
  <2> QED
    BY <2>3 DEF Cover
<1> QED
  BY <1>2, <1>3, <1>4, <1>5, <1>6 DEF Cover

-----------------------------------------------------------------------------
(* What a step does to the records of the branch.                          *)

LEMMA HistoryGrows ==
  ASSUME HostTypes, HostTypes', UNCHANGED generation, Current' = Current,
         GrownFrom(branches[Current], branches'[Current])
  PROVE  History \subseteq History' /\ \A r : Due(r)' => Due(r)
<1>1. PICK s, b, c : s = Current /\ b = branches[s] /\ c = branches'[s]
  OBVIOUS
<1>2. b \in Seq(Entry) /\ c \in Seq(Entry)
  <2>1. b \in Seq(Entry)
    BY <1>1, CurrentIs
  <2>2. Current' \in Nat \ {0} /\ Current' \in 1..Len(branches') /\ branches' \in Seq(Seq(Entry))
    BY DEF HostTypes, HostTypeOK, SessionTypeOK, BindingStands, Current
  <2>3. branches'[Current'] \in Seq(Entry)
    BY <2>2, ElementOfSeq
  <2> QED
    BY <1>1, <2>1, <2>3
<1>3. Recovered(s, b) \subseteq Recovered(s, c)
  BY <1>1, <1>2, RecoveredStays
<1>4. Recovered(s, c)' = Recovered(s, c)
  BY RecoveredSame
<1>5. History = Recovered(s, b)
  BY <1>1 DEF History
<1>6. History' = Recovered(s, c)'
  BY <1>1 DEF History
<1>7. History \subseteq History'
  BY <1>3, <1>4, <1>5, <1>6
<1>8. ASSUME NEW r, Due(r)'
      PROVE  Due(r)
  <2>1. IsMarked(r) /\ ~CutOff(r)'
    BY <1>8 DEF Due, IsMarked
  <2>2. CutOff(r) => CutOff(r)'
    BY <1>7, <2>1 DEF CutOff, IsMarked
  <2> QED
    BY <2>1, <2>2 DEF Due
<1> QED
  BY <1>7, <1>8

LEMMA HistorySame ==
  ASSUME UNCHANGED <<branches, generation>>
  PROVE  History' = History /\ \A r : Due(r)' <=> Due(r)
<1>1. PICK s, b : s = Current /\ b = branches[s]
  OBVIOUS
<1>2. Recovered(s, b)' = Recovered(s, b)
  BY RecoveredSame
<1>3. s = Current' /\ b = branches'[s]
  BY <1>1 DEF Current
<1>4. History = Recovered(s, b)
  BY <1>1 DEF History
<1>5. History' = Recovered(s, b)'
  BY <1>3 DEF History
<1>6. History' = History
  BY <1>2, <1>4, <1>5
<1> QED
  BY <1>6 DEF Due, CutOff, IsMarked

(* A record that is new on a branch is that of the message that came, and  *)
(* of the last marker.                                                     *)
LEMMA RecordBefore ==
  ASSUME generation \in Nat, NEW session \in Nat, NEW b \in Seq(Entry), NEW c \in Seq(Entry),
         GrownFrom(b, c), NEW r \in Recovered(session, c), IsMarked(r),
         Target(c, r.at, c[r.at].role) <= Len(b)
  PROVE  r \in Recovered(session, b)
<1>1. /\ r.at \in 1..Len(c) /\ c[r.at].type = "marker" /\ Target(c, r.at, c[r.at].role) # 0
      /\ r.event = ToEvent(session, c[r.at].id, FALSE, c[r.at].role, c[r.at].group)
  BY MarkedIs
<1>2. PICK i, role : i = r.at /\ role = c[i].role
  OBVIOUS
<1>3. Target(c, i, role) \in i+1..Len(c)
  BY <1>1, <1>2, TargetIs
<1>4. Len(b) \in Nat /\ Len(c) \in Nat
  BY LenProperties
<1>5. i \in 1..Len(b)
  BY <1>1, <1>2, <1>3, <1>4
<1>6. c[i] = b[i] /\ Target(b, i, role) # 0
  <2>1. Target(b, i, role) = Target(c, i, role)
    BY <1>1, <1>2, <1>5, TargetStays
  <2> QED
    BY <1>1, <1>2, <1>5, <2>1 DEF GrownFrom
<1>7. PICK x : x = [at |-> i, event |-> ToEvent(session, b[i].id, FALSE, b[i].role, b[i].group)]
  OBVIOUS
<1>8. x \in Recovered(session, b)
  BY <1>1, <1>2, <1>5, <1>6, <1>7, MarkerIsRecord
<1>9. r \in Place
  BY RecoveredTyped
<1>10. r = [at |-> r.at, event |-> r.event]
  BY <1>9 DEF Place
<1>11. r = x
  BY <1>1, <1>2, <1>6, <1>7, <1>10
<1> QED
  BY <1>8, <1>11

LEMMA AdjoinsGrown ==
  ASSUME NEW b \in Seq(Entry), NEW entry, NEW c, Adjoins(b, entry, c)
  PROVE  GrownFrom(b, c) /\ c \in Seq(Entry) /\ Len(b) \in Nat /\ Len(c) \in Nat
  BY LenProperties DEF Adjoins, GrownFrom

LEMMA RecordOfWord ==
  ASSUME generation \in Nat, NEW session \in Nat, NEW b \in Seq(Entry), NEW entry, NEW c,
         Adjoins(b, entry, c), entry.type # "message", NEW r \in Recovered(session, c), IsMarked(r)
  PROVE  r \in Recovered(session, b)
<1>1. GrownFrom(b, c) /\ c \in Seq(Entry) /\ Len(b) \in Nat /\ Len(c) \in Nat
  BY AdjoinsGrown
<1>2. r.at \in 1..Len(c) /\ Target(c, r.at, c[r.at].role) # 0
  BY <1>1, MarkedIs
<1>3. PICK i, role : i = r.at /\ role = c[i].role
  OBVIOUS
<1>4. Target(c, i, role) \in i+1..Len(c) /\ c[Target(c, i, role)].type = "message"
  BY <1>1, <1>2, <1>3, TargetIs
<1>5. Target(c, i, role) # Len(b) + 1
  BY <1>4 DEF Adjoins
<1>6. Target(c, i, role) <= Len(b)
  BY <1>1, <1>2, <1>3, <1>4, <1>5 DEF Adjoins
<1> QED
  BY <1>1, <1>3, <1>6, RecordBefore

LEMMA RecordOfMessage ==
  ASSUME generation \in Nat, NEW session \in Nat, NEW b \in Seq(Entry), NEW entry, NEW c,
         Adjoins(b, entry, c), NEW r \in Recovered(session, c), IsMarked(r),
         r \notin Recovered(session, b)
  PROVE  IsLast(b, r.at) /\ r.event.id = b[r.at].id
<1>1. GrownFrom(b, c) /\ c \in Seq(Entry) /\ Len(b) \in Nat /\ Len(c) \in Nat
      /\ Len(c) = Len(b) + 1 /\ \A i \in 1..Len(b) : c[i] = b[i]
  BY AdjoinsGrown DEF Adjoins
<1>2. /\ r.at \in 1..Len(c) /\ Target(c, r.at, c[r.at].role) # 0 /\ c[r.at].type = "marker"
      /\ r.event.id = c[r.at].id
  BY <1>1, MarkedIs
<1>3. PICK i, role : i = r.at /\ role = c[i].role
  OBVIOUS
<1>4. Target(c, i, role) \in i+1..Len(c)
  BY <1>1, <1>2, <1>3, TargetIs
<1>5. ~(Target(c, i, role) <= Len(b))
  BY <1>1, <1>3, RecordBefore
<1>6. Target(c, i, role) = Len(b) + 1 /\ i \in 1..Len(b)
  BY <1>1, <1>2, <1>3, <1>4, <1>5
<1>7. Target(c, i, role) = Min(Followers(c, i))
  BY <1>1, <1>2, <1>3, TargetFollows
<1>8. \A j \in MarkersOf(b) : j <= i
  <2> SUFFICES ASSUME NEW j \in MarkersOf(b), ~(j <= i)
               PROVE  FALSE
    OBVIOUS
  <2>1. j \in 1..Len(b) /\ b[j].type = "marker"
    BY DEF MarkersOf
  <2>2. j \in Followers(c, i)
    BY <1>1, <1>6, <2>1 DEF Followers
  <2>3. Followers(c, i) \in SUBSET Nat /\ Followers(c, i) # {}
    BY <1>1, <1>6, <2>2 DEF Followers
  <2>4. Min(Followers(c, i)) <= j
    BY <2>2, <2>3, LeastIs
  <2> QED
    BY <1>1, <1>6, <1>7, <2>1, <2>4
<1>9. i \in MarkersOf(b) /\ b[i] = c[i]
  BY <1>1, <1>2, <1>3, <1>6 DEF MarkersOf
<1> QED
  BY <1>2, <1>3, <1>8, <1>9 DEF IsLast

-----------------------------------------------------------------------------
(* The host's steps and what is covered.                                   *)

LEMMA StrayedStays ==
  ASSUME HostTypes, BranchInv, HostTypes', HostNext
  PROVE  strayed => strayed'
<1>1. CASE HostReceives
  BY <1>1, ReceivesBranch DEF RuntimeStays
<1>2. CASE StartRun \/ Steer \/ \E role \in Roles : Speak(role)
  BY <1>2 DEF StartRun, Steer, Speak, OnMessageStart
<1>3. CASE \/ Stream \/ EndMessage \/ EndRun \/ Publish \/ TypePrompt \/ ShutdownSession
           \/ StartSession \/ EndBridge \/ MoveInTree \/ ReconnectHost \/ ExpireRecord
           \/ \E type \in {"custom", "custom_message", "compaction"} : WriteEntry(type)
  BY <1>3 DEF Stream, EndMessage, EndRun, Publish, TypePrompt, ShutdownSession, StartSession,
     EndBridge, MoveInTree, ReconnectHost, ExpireRecord, WriteEntry, runtimeVars
<1> QED
  BY <1>1, <1>2, <1>3 DEF HostNext

LEMMA JoinedIs ==
  ASSUME SessionTypes, LinkInv, SeatInv, Joined
  PROVE  /\ linked /\ scope # None /\ scope.session = Current /\ scope.gen = generation
         /\ Server = binding /\ Serviceable(binding)
         /\ binding.session = Current /\ binding.gen = generation
<1>1. ~replaced /\ binding # None /\ linked
  BY DEF Joined, SeatInv, LinkInv
<1>2. Serviceable(binding)
  BY <1>1, BindingTyped DEF SessionTypes
<1>3. scope # None /\ scope.session = Current /\ scope.gen = generation
  <2>1. PICK sc : sc = scope
    OBVIOUS
  <2>2. sc = [session |-> Current, gen |-> generation]
    BY <2>1 DEF Joined
  <2>3. sc \in Scope
    BY <2>2, SessionNumbers DEF Scope
  <2>4. sc # None
    BY <2>3, NoneAssumption
  <2>5. sc.session = Current /\ sc.gen = generation
    BY <2>2
  <2> QED
    BY <2>1, <2>4, <2>5
<1> QED
  BY <1>1, <1>2, <1>3 DEF SeatInv, Server

LEMMA StillJoined ==
  ASSUME SessionTypes, UNCHANGED <<pwaVars, generation, live, bridge>>, Current' = Current,
         NEW new \in Seq(ServerFrame), toPwa' = toPwa \o new,
         binding # None, binding.ready = TRUE, strayed => strayed', Unhindered'
  PROVE  Unhindered
<1>1. UNCHANGED <<phase, scope, assembler>>
  BY DEF pwaVars, linkVars, viewVars, transferVars
<1>2. \A i \in 1..Len(toPwa) : i \in 1..Len(toPwa') /\ toPwa'[i] = toPwa[i]
  BY QueuesTyped, JoinIs
<1>3. \A i \in 1..Len(toPwa') : ~Upsets(scope, toPwa'[i])
  BY <1>1 DEF Unhindered, Joined
<1>5. \A i \in 1..Len(toPwa) : ~Upsets(scope, toPwa[i])
  BY <1>2, <1>3
<1>6. phase = "online" /\ live /\ ~bridge /\ scope = [session |-> Current, gen |-> generation]
  BY <1>1 DEF Unhindered, Joined
<1> QED
  BY <1>1, <1>5, <1>6 DEF Unhindered, Joined

LEMMA SessionsStay ==
  ASSUME SessionTypes, SessionTypes', SeatInv, HostNext, UNCHANGED pwaVars, Joined'
  PROVE  UNCHANGED <<live, bridge, generation>> /\ Current' = Current
         /\ ~ShutdownSession /\ ~StartSession /\ ~EndBridge /\ ~MoveInTree
<1>1. UNCHANGED scope /\ generation \in Nat
  BY SessionNumbers DEF pwaVars, viewVars
<1>2. /\ live' /\ binding' # None /\ scope' # None /\ scope'.gen = generation'
  <2>1. PICK sc : sc = scope'
    OBVIOUS
  <2>2. sc = [session |-> Current', gen |-> generation']
    BY <2>1 DEF Joined
  <2>3. Current' \in Nat /\ generation' \in Nat
    BY DEF SessionTypes, HostTypes, HostTypeOK, SessionTypeOK, BindingStands, Current
  <2>4. sc \in Scope
    BY <2>2, <2>3 DEF Scope
  <2>5. sc # None /\ sc.gen = generation'
    BY <2>2, <2>4, NoneAssumption
  <2> QED
    BY <2>1, <2>5 DEF Joined
<1>3. generation' <= generation
  BY <1>1, <1>2 DEF SeatInv
<1>4. ~ShutdownSession
  BY <1>2 DEF ShutdownSession
<1>5. ~StartSession /\ ~MoveInTree
  BY <1>1, <1>3 DEF StartSession, MoveInTree
<1>6. ~EndBridge
  <2> SUFFICES ASSUME EndBridge
               PROVE  FALSE
    OBVIOUS
  <2>1. replaced
    BY DEF EndBridge, SeatInv
  <2>2. \E session : FinishSessionReplacement(session)
    BY DEF EndBridge
  <2> QED
    BY <1>2, <2>1, <2>2, FinishSeats
<1>7. SessionRests
  BY <1>4, <1>5, <1>6, HostSessions
<1> QED
  BY <1>4, <1>5, <1>6, <1>7 DEF SessionRests, Current

(* The host's steps but its answers.                                       *)
LEMMA MovesAdd ==
  ASSUME SessionTypes, SessionTypes', LinkInv, SeatInv, BranchInv, HostNext, UNCHANGED pwaVars,
         HostMoves(News), Unhindered'
  PROVE  Unhindered /\ HostAdds /\ UNCHANGED toHost
<1>1. HostTypes /\ HostTypes' /\ Joined' /\ UNCHANGED toHost
  BY DEF SessionTypes, Unhindered, HostMoves
<1>2. UNCHANGED <<live, bridge, generation>> /\ Current' = Current
  BY <1>1, SessionsStay
<1>3. SeatStays /\ \E new \in Seq(News) : toPwa' = toPwa \o new
  BY DEF HostMoves, Adds
<1>4. binding # None /\ binding.ready = TRUE /\ binding'.cursors = binding.cursors
  BY <1>1, <1>3 DEF SeatStays, Joined
<1>5. PICK new \in Seq(ServerFrame) : toPwa' = toPwa \o new
  <2>1. News \subseteq ServerFrame
    BY DEF News
  <2> QED
    BY <1>3, <2>1, SeqMonotonic
<1>6. Unhindered
  BY <1>1, <1>2, <1>4, <1>5, StillJoined, StrayedStays
<1>7. KeepsCursors(binding, binding')
  BY <1>4 DEF KeepsCursors
<1> QED
  BY <1>1, <1>2, <1>5, <1>6, <1>7 DEF HostAdds

-----------------------------------------------------------------------------
(* The host's steps: those at which no record goes.                        *)

Covered == \A r \in History : Due(r) => Cover(r)

LEMMA HistoryNext ==
  ASSUME UNCHANGED generation, Current' = Current
  PROVE  History' = Recovered(Current, branches'[Current])
<1>1. PICK s, c : s = Current /\ c = branches'[s]
  OBVIOUS
<1>2. Recovered(s, c)' = Recovered(s, c)
  BY RecoveredSame
<1>3. History' = Recovered(s, c)'
  BY <1>1 DEF History
<1> QED
  BY <1>1, <1>2, <1>3

LEMMA SameKeepsAsked ==
  ASSUME SessionTypes, HostAdds, UNCHANGED toHost, NEW r, Asked(r)
  PROVE  Asked(r)'
<1>1. UNCHANGED <<assembler, generation>> /\ KeepsCursors(binding, binding')
  BY DEF HostAdds, pwaVars, transferVars
<1>2. PICK b, c, a, g : b = binding /\ c = binding' /\ a = assembler /\ g = generation
  OBVIOUS
<1>3. PICK i \in 1..Len(toHost) : IsFor(a, g, b, toHost[i], r)
  BY <1>2 DEF Asked
<1>4. IsFor(a, g, c, toHost[i], r)
  BY <1>1, <1>2, <1>3, IsForOn
<1>5. a = assembler' /\ g = generation'
  BY <1>1, <1>2
<1>6. i \in 1..Len(toHost') /\ toHost'[i] = toHost[i]
  OBVIOUS
<1>7. IsFor(assembler', generation', binding', toHost'[i], r)
  BY <1>2, <1>4, <1>5, <1>6
<1> QED
  BY <1>6, <1>7 DEF Asked

LEMMA SameKeepsWaiting ==
  ASSUME UNCHANGED ended, Current' = Current, NEW r, AtHost(r)
  PROVE  AtHost(r)'
<1> QED
  BY DEF AtHost

(* A step that leaves the events of the branch as they are.                *)
LEMMA RestCovers ==
  ASSUME SessionTypes, HostAdds, UNCHANGED <<toHost, ended>>, Covered,
         \A r \in History' : IsMarked(r) => r \in History, \A r : Due(r)' => Due(r)
  PROVE  Covered'
<1>1. Current' = Current
  BY DEF HostAdds
<1>2. ASSUME NEW r, r \in History', Due(r)'
      PROVE  Cover(r)'
  <2>1. IsMarked(r)
    BY <1>2 DEF Due, IsMarked
  <2>2. Cover(r)
    BY <1>2, <2>1 DEF Covered
  <2> QED
    BY <1>1, <2>2, HostKeepsCover, SameKeepsAsked, SameKeepsWaiting
<1> QED
  BY <1>2 DEF Covered

LEMMA EntryCovers ==
  ASSUME SessionTypes, SessionTypes', HostAdds, UNCHANGED <<toHost, ended>>, Covered,
         NEW entry \in Entry, entry.type # "message", AppendEntry(entry)
  PROVE  Covered'
<1>1. HostTypes /\ HostTypes' /\ UNCHANGED generation /\ Current' = Current
      /\ generation \in Nat /\ Current \in Nat
  BY HostFields, CurrentIs DEF SessionTypes, HostAdds
<1>2. PICK s, b, c : s = Current /\ b = branches[s] /\ c = branches'[s]
  OBVIOUS
<1>3. Adjoins(b, entry, c) /\ b \in Seq(Entry)
  BY <1>1, <1>2, EntryAdjoins, HostFields
<1>4. History = Recovered(s, b) /\ History' = Recovered(s, c)
  BY <1>1, <1>2, HistoryNext DEF History
<1>5. \A r \in History' : IsMarked(r) => r \in History
  BY <1>1, <1>2, <1>3, <1>4, RecordOfWord
<1>6. GrownFrom(branches[Current], branches'[Current])
  BY <1>2, <1>3, AdjoinsGrown
<1>7. \A r : Due(r)' => Due(r)
  BY <1>1, <1>6, HistoryGrows
<1> QED
  BY <1>5, <1>7, RestCovers

LEMMA SameCovers ==
  ASSUME SessionTypes, HostAdds, UNCHANGED <<toHost, ended, branches>>, Covered
  PROVE  Covered'
<1>1. UNCHANGED <<branches, generation>>
  BY DEF HostAdds
<1>2. History' = History /\ \A r : Due(r)' <=> Due(r)
  BY <1>1, HistorySame
<1> QED
  BY <1>2, RestCovers

LEMMA MessageStartCovers ==
  ASSUME SessionTypes, SessionTypes', HostAdds, UNCHANGED toHost, Covered,
         NEW role \in Roles, NEW corr \in Optional(Correlation), NEW earlier \in Runtime,
         OnMessageStart(role, corr, earlier)
  PROVE  Covered'
<1> DEFINE r == Attached(earlier, Current)
           g == IF r.active /\ r.group # 0 THEN r.group ELSE minted + 1
<1>1. PICK entry : entry = [type |-> "marker", id |-> minted + 1, role |-> role, group |-> g]
  OBVIOUS
<1>2. AppendEntry(entry) /\ UNCHANGED ended
  BY <1>1 DEF OnMessageStart
<1>3. minted \in Nat /\ Current \in Nat
  BY HostFields, CurrentIs DEF SessionTypes
<1>4. g \in Nat
  <2>1. r \in Runtime
    BY <1>3, AttachedTyped
  <2>2. r.group \in Nat
    BY <2>1 DEF Runtime
  <2> HIDE DEF r
  <2> QED
    BY <1>3, <2>2
<1> HIDE DEF g
<1>5. entry \in Entry /\ entry.type # "message"
  BY <1>1, <1>3, <1>4 DEF Entry
<1> QED
  BY <1>2, <1>5, EntryCovers

LEMMA MessagesCover ==
  ASSUME SessionTypes, SessionTypes', HostAdds, UNCHANGED toHost, Covered,
         StartRun \/ Steer \/ \E role \in Roles : Speak(role)
  PROVE  Covered'
<1>1. /\ rt \in Runtime /\ inbox \in Seq(Optional(Correlation))
      /\ sdk.corr \in Optional(Correlation)
  BY HostFields DEF SessionTypes, HostTypes, HostTypeOK, PiTypeOK
<1>2. CASE StartRun
  <2>1. PICK i \in DOMAIN inbox :
          OnMessageStart("user", inbox[i], [rt EXCEPT !.active = TRUE, !.group = 0])
    BY <1>2 DEF StartRun
  <2>2. i \in 1..Len(inbox)
    BY <1>1, LenProperties
  <2>3. inbox[i] \in Optional(Correlation)
    BY <1>1, <2>2, ElementOfSeq
  <2>4. PICK r : r = [rt EXCEPT !.active = TRUE, !.group = 0]
    OBVIOUS
  <2>5. r \in Runtime
    BY <1>1, <2>4 DEF Runtime
  <2>6. "user" \in Roles
    BY DEF Roles
  <2> QED
    BY <2>1, <2>3, <2>4, <2>5, <2>6, MessageStartCovers
<1>3. CASE Steer
  <2>1. OnMessageStart("user", sdk.corr, rt) /\ "user" \in Roles
    BY <1>3 DEF Steer, Roles
  <2> QED
    BY <1>1, <2>1, MessageStartCovers
<1>4. CASE \E role \in Roles : Speak(role)
  <2>1. PICK role \in Roles : Speak(role)
    BY <1>4
  <2> QED
    BY <1>1, <2>1, MessageStartCovers DEF Speak
<1> QED
  BY <1>2, <1>3, <1>4

LEMMA WriteEntryCovers ==
  ASSUME SessionTypes, SessionTypes', HostAdds, UNCHANGED toHost, Covered,
         NEW type \in {"custom", "custom_message", "compaction"}, WriteEntry(type)
  PROVE  Covered'
<1>1. PICK entry : entry = [type |-> type, id |-> minted + 1, role |-> None, group |-> 0]
  OBVIOUS
<1>2. AppendEntry(entry) /\ UNCHANGED ended
  BY <1>1 DEF WriteEntry, runtimeVars
<1>3. minted \in Nat
  BY HostFields DEF SessionTypes
<1>4. entry \in Entry /\ entry.type # "message"
  BY <1>1, <1>3 DEF Entry
<1> QED
  BY <1>2, <1>4, EntryCovers

LEMMA OthersCover ==
  ASSUME SessionTypes, HostAdds, UNCHANGED toHost, Covered,
         Stream \/ EndRun \/ TypePrompt \/ ExpireRecord
  PROVE  Covered'
<1>1. UNCHANGED <<ended, branches>>
  BY DEF Stream, EndRun, TypePrompt, ExpireRecord, sessionVars, runtimeVars
<1> QED
  BY <1>1, SameCovers

(* The message that came is with the host.                                 *)
LEMMA EndMessageCovers ==
  ASSUME SessionTypes, SessionTypes', HostAdds, UNCHANGED toHost, Covered, BranchInv, ~strayed,
         EndMessage
  PROVE  Covered'
<1>1. HostTypes /\ HostTypes' /\ UNCHANGED generation /\ Current' = Current
      /\ generation \in Nat /\ Current \in Nat
  BY HostFields, CurrentIs DEF SessionTypes, HostAdds
<1>2. PICK entry : entry = [type |-> "message", id |-> sdk.msg.id, role |-> sdk.msg.role, group |-> 0]
  OBVIOUS
<1>3. AppendEntry(entry) /\ sdk.msg # None
  BY <1>2 DEF EndMessage
<1>4. entry \in Entry
  <2>1. sdk.msg \in [id : Nat \ {0}, role : Roles]
    BY <1>1, <1>3, HostFields DEF Optional
  <2> QED
    BY <1>2, <2>1 DEF Entry
<1>5. PICK s, b, c : s = Current /\ b = branches[s] /\ c = branches'[s]
  OBVIOUS
<1>6. Adjoins(b, entry, c) /\ b \in Seq(Entry)
  BY <1>1, <1>3, <1>4, <1>5, EntryAdjoins, HostFields
<1>7. History = Recovered(s, b) /\ History' = Recovered(s, c)
  BY <1>1, <1>5, HistoryNext DEF History
<1>8. GrownFrom(branches[Current], branches'[Current])
  BY <1>5, <1>6, AdjoinsGrown
<1>9. \A r : Due(r)' => Due(r)
  BY <1>1, <1>8, HistoryGrows
<1>10. /\ rt.pending # None /\ rt.pending.id = sdk.msg.id /\ rt.pending.session = Current
       /\ rt.attached = Current
  BY <1>3 DEF BranchInv, AtMessage
<1>11. PICK x, t : x = rt.pending /\ t = ended'
  OBVIOUS
<1>12. x \in PendingMessage /\ ended \in Seq(PendingMessage)
  BY <1>1, <1>10, <1>11, HostFields DEF Runtime, Optional
<1>13. t = Append(ended, x)
  BY <1>10, <1>11 DEF EndMessage, Attached
<1>14. /\ Len(ended) \in Nat /\ Len(t) = Len(ended) + 1 /\ t[Len(ended) + 1] = x
       /\ \A i \in 1..Len(ended) : t[i] = ended[i]
  BY <1>12, <1>13, AppendProperties, LenProperties
<1>15. ASSUME NEW r, AtHost(r)
       PROVE  AtHost(r)'
  <2>1. PICK i \in 1..Len(ended) : ended[i].id = r.event.id /\ ended[i].session = Current
    BY <1>15 DEF AtHost
  <2>2. i \in 1..Len(t) /\ t[i] = ended[i]
    BY <1>14, <2>1
  <2> QED
    BY <1>1, <1>11, <2>1, <2>2 DEF AtHost
<1>16. ASSUME NEW r, r \in History', Due(r)'
       PROVE  Cover(r)'
  <2>1. IsMarked(r)
    BY <1>16 DEF Due, IsMarked
  <2>2. CASE r \in History
    <3>1. Cover(r)
      BY <1>9, <1>16, <2>2 DEF Covered
    <3> QED
      BY <1>15, <3>1, HostKeepsCover, SameKeepsAsked
  <2>3. CASE r \notin History
    <3>1. IsLast(b, r.at) /\ r.event.id = b[r.at].id
      BY <1>1, <1>5, <1>6, <1>7, <1>16, <2>1, <2>3, RecordOfMessage
    <3>2. PICK i \in MarkersOf(b) : IsLast(b, i) /\ b[i].id = sdk.msg.id
      BY <1>3, <1>5 DEF BranchInv, Announces
    <3>3. i = r.at
      <4>1. i <= r.at /\ r.at <= i /\ i \in Nat /\ r.at \in Nat
        BY <1>6, <3>1, <3>2, MarkersTyped DEF IsLast
      <4> QED
        BY <4>1
    <3>4. r.event.id = x.id /\ x.session = Current
      BY <1>10, <1>11, <3>1, <3>2, <3>3
    <3>5. Len(ended) + 1 \in 1..Len(t)
      BY <1>14
    <3>6. AtHost(r)'
      BY <1>1, <1>11, <1>14, <3>4, <3>5 DEF AtHost
    <3> QED
      BY <3>6 DEF Cover
  <2> QED
    BY <2>2, <2>3
<1> QED
  BY <1>16 DEF Covered

LEMMA MarkerFound ==
  ASSUME NEW b \in Seq(Entry), NEW n, Orderly(b, n), NEW i \in MarkersOf(b)
  PROVE  MarkerOf(b, b[i].id) = i
<1> DEFINE I == {j \in 1..Len(b) : b[j].type = "marker" /\ b[j].id = b[i].id}
<1>1. i \in I /\ I \in SUBSET Nat
  BY DEF MarkersOf
<1>2. MarkerOf(b, b[i].id) = Min(I)
  BY <1>1 DEF MarkerOf, SelectInSeq
<1>3. Min(I) \in I
  BY <1>1, LeastIs
<1>4. \A j \in I : j = i
  BY DEF Orderly, MarkersOf
<1> QED
  BY <1>2, <1>3, <1>4

(* The message of a record that waits to be published is found.            *)
LEMMA WaitingIsFound ==
  ASSUME SessionTypes, BranchInv, AnnouncedInv, NEW p \in PendingMessage, Announced(p),
         p.session = Current, NEW r \in History, IsMarked(r), p.id = r.event.id
  PROVE  IsFound(p) /\ EventOf(p) = r.event
<1>1. PICK s, b, i : s = Current /\ b = branches[s] /\ i = r.at
  OBVIOUS
<1>2. HostTypes /\ s \in 1..Len(branches) /\ b \in Seq(Entry) /\ r \in Recovered(s, b)
      /\ Orderly(b, minted)
  BY <1>1, CurrentIs DEF SessionTypes, History, BranchInv
<1>3. /\ i \in 1..Len(b) /\ b[i].type = "marker" /\ Target(b, i, b[i].role) # 0
      /\ r.event.id = b[i].id
      /\ r.event = ToEvent(s, b[i].id, FALSE, b[i].role, b[i].group)
  <2>1. PICK x : x = r /\ x \in Recovered(s, b) /\ IsMarked(x)
    BY <1>2
  <2>2. /\ x.at \in 1..Len(b) /\ b[x.at].type = "marker" /\ Target(b, x.at, b[x.at].role) # 0
        /\ x.event.id = b[x.at].id
        /\ x.event = ToEvent(s, b[x.at].id, FALSE, b[x.at].role, b[x.at].group)
    BY <1>2, <2>1, MarkedIs
  <2>3. x.at = i
    BY <1>1, <2>1
  <2> QED
    BY <2>1, <2>2, <2>3
<1>4. MarkerOf(b, p.id) = i
  <2>1. i \in MarkersOf(b)
    BY <1>3 DEF MarkersOf
  <2> QED
    BY <1>2, <1>3, <2>1, MarkerFound
<1>5. b[i] \in Markers
  BY <1>1, <1>2, <1>3, MarkerIs
<1>6. p.role = b[i].role /\ p.group = b[i].group
  BY <1>3, <1>5 DEF Announced
<1>7. i # 0
  BY <1>3
<1>8. IsFound(p)
  BY <1>1, <1>3, <1>4, <1>6, <1>7 DEF IsFound
<1>9. EventOf(p) = r.event
  BY <1>1, <1>3, <1>6 DEF EventOf
<1> QED
  BY <1>8, <1>9

LEMMA NotSpokenOf ==
  ASSUME SessionTypes, NEW e, e.id \notin Spoken
  PROVE  /\ PartsOf(parts, e) = {}
         /\ \A j \in 1..Len(toPwa) : toPwa[j].type = "fragment" => ~SameEvent(toPwa[j].part.event, e)
<1>1. PartsOf(parts, e) = {}
  <2> SUFFICES ASSUME NEW p \in parts, SameEvent(p.event, e)
               PROVE  FALSE
    BY DEF PartsOf
  <2> QED
    BY DEF SameEvent, Spoken
<1>2. ASSUME NEW j \in 1..Len(toPwa), toPwa[j].type = "fragment", SameEvent(toPwa[j].part.event, e)
      PROVE  FALSE
  <2>1. e.id \in LiveIds(toPwa[j])
    BY <1>2 DEF LiveIds, SameEvent
  <2> QED
    BY <2>1 DEF Spoken, InQueue
<1> QED
  BY <1>1, <1>2

LEMMA PublishCovers ==
  ASSUME SessionTypes, SessionTypes', LinkInv, SeatInv, BranchInv, LiveInv, AnnouncedInv,
         HostAdds, UNCHANGED toHost, Unhindered, Covered, Publish
  PROVE  Covered'
<1>1. HostTypes /\ UNCHANGED <<branches, generation>> /\ Current' = Current
      /\ UNCHANGED <<parts, scope>>
  BY DEF SessionTypes, HostAdds, Publish, sessionVars, pwaVars, transferVars, viewVars
<1>2. History' = History /\ \A r : Due(r)' <=> Due(r)
  BY <1>1, HistorySame
<1>3. PICK p : p = Head(ended)
  OBVIOUS
<1>4. /\ p \in PendingMessage /\ ended # <<>> /\ ended' = Tail(ended)
      /\ \/ ~IsFound(p) \/ p.id \in rt.published
         \/ \E new : Publishes(new, p.id, EventOf(p)) /\ Post(new)
  BY <1>1, <1>3, PublishIs
<1>5. ended \in Seq(PendingMessage) /\ toPwa \in Seq(ServerFrame)
  BY <1>1, HostFields, QueuesTyped
<1>6. /\ 1 \in 1..Len(ended) /\ p = ended[1] /\ Len(ended') = Len(ended) - 1 /\ Len(ended) \in Nat
      /\ \A i \in 1..Len(ended') : ended'[i] = ended[i + 1]
  BY <1>3, <1>4, <1>5, HeadIsFirst, LenProperties
<1>7. Announced(p) /\ p.id \in Waiting /\ p.id \notin Spoken
  BY <1>6 DEF AnnouncedInv, Waiting, LiveInv
<1>8. ASSUME NEW r \in History, Due(r), p.id = r.event.id, p.session = Current
      PROVE  Cover(r)'
  <2>1. IsFound(p) /\ EventOf(p) = r.event
    BY <1>4, <1>7, <1>8, WaitingIsFound DEF Due
  <2>2. p.id \notin rt.published
    BY <1>7 DEF Spoken
  <2>3. PICK new : Publishes(new, p.id, EventOf(p)) /\ Post(new)
    BY <1>4, <2>1, <2>2
  <2>4. Joined
    BY DEF Unhindered
  <2>5. /\ linked /\ scope # None /\ scope.session = binding.session /\ scope.gen = binding.gen
        /\ binding # None
    BY <2>4, JoinedIs DEF Joined
  <2>6. new \in Seq(ServerFrame) /\ Delivers(new, binding, r.event) /\ toPwa' = toPwa \o new
    BY <2>1, <2>3, <2>5 DEF Publishes, Post
  <2>7. r.event.id \notin Spoken
    BY <1>7, <1>8
  <2>8. /\ PartsOf(parts, r.event) = {}
        /\ \A j \in 1..Len(toPwa) :
             toPwa[j].type = "fragment" => ~SameEvent(toPwa[j].part.event, r.event)
    BY <2>7, NotSpokenOf
  <2>9. PICK q, t, ps, sc, b, e :
          q = toPwa /\ t = toPwa' /\ ps = parts /\ sc = scope /\ b = binding /\ e = r.event
    OBVIOUS
  <2>10. Comes(t, ps, sc, e)
    BY <1>5, <2>5, <2>6, <2>8, <2>9, DeliveredComes
  <2>11. Comes(toPwa, parts, scope, r.event)'
    BY <1>1, <2>9, <2>10
  <2> QED
    BY <2>11 DEF Cover
<1>9. ASSUME NEW r \in History, Due(r), AtHost(r), ~(p.id = r.event.id /\ p.session = Current)
      PROVE  AtHost(r)'
  <2>1. PICK i \in 1..Len(ended) : ended[i].id = r.event.id /\ ended[i].session = Current
    BY <1>9 DEF AtHost
  <2>2. i # 1
    BY <1>6, <1>9, <2>1
  <2>3. PICK k : k = i - 1
    OBVIOUS
  <2>4. k \in 1..Len(ended') /\ k + 1 = i
    BY <1>6, <2>1, <2>2, <2>3
  <2>5. ended'[k] = ended[i]
    BY <1>6, <2>4
  <2> QED
    BY <1>1, <2>1, <2>4, <2>5 DEF AtHost
<1>10. ASSUME NEW r \in History, Due(r)
       PROVE  Cover(r)'
  <2>1. Cover(r)
    BY <1>10 DEF Covered
  <2>2. CASE p.id = r.event.id /\ p.session = Current
    BY <1>8, <1>10, <2>2
  <2>3. CASE ~(p.id = r.event.id /\ p.session = Current)
    BY <1>9, <1>10, <2>1, <2>3, HostKeepsCover, SameKeepsAsked
  <2> QED
    BY <2>2, <2>3
<1>11. ASSUME NEW r, r \in History', Due(r)'
       PROVE  Cover(r)'
  BY <1>2, <1>10, <1>11
<1> QED
  BY <1>11 DEF Covered

-----------------------------------------------------------------------------
(* A page that is served.                                                  *)

LEMMA SomePayload ==
  ASSUME NEW records, NEW payloads \in Payloads(records)
  PROVE  Len(payloads) = 1 \/ Len(payloads) = 2
<1>1. (\E x : payloads = <<x>>) \/ (\E x, y : payloads = <<x, y>>)
  BY DEF Payloads
<1> QED
  BY <1>1

(* A page brings what it should, or leaves a cursor for it.                *)
LEMMA PageBrings ==
  ASSUME HostTypes, NEW b, Serviceable(b), NEW rid \in Nat, NEW prefix \in Seq(Entry),
         NEW position \in Nat, Page(b, rid, prefix, position), linked,
         NEW n, Orderly(prefix, n),
         NEW r \in Paged(b, prefix, position), IsMarked(r),
         ~Severed(Paged(b, prefix, position), r)
  PROVE  \E new \in Seq(Chunk) :
           /\ toPwa' = toPwa \o new
           /\ \E i \in 1..Len(new) : /\ new[i].type = "chunk" /\ new[i].rid = rid
                                     /\ Brings(binding', new[i], r)
<1>1. PICK records, w, next : /\ records = Paged(b, prefix, position) /\ w = SelectWindow(records)
                              /\ next = NextOf(b, prefix, position)
  OBVIOUS
<1>2. /\ records \in SUBSET Place /\ w.records \subseteq records /\ w.start \in Nat \ {0}
      /\ next \in Optional(Nat) /\ CursorOf(b, prefix, position) \in Cursor
  BY <1>1, PagedTyped
<1>3. PICK payloads \in Payloads(w.records) :
        payloads \in Seq(Payload) /\ Post(Chunks(b, rid, payloads, next))
  BY <1>1, PageIs
<1>4. PICK cs : cs = Chunks(b, rid, payloads, next)
  OBVIOUS
<1>5. b \in Service /\ b.session \in 1..Len(branches) /\ generation \in Nat
  BY HostFields DEF Serviceable
<1>6. /\ cs \in Seq(Chunk) /\ Len(cs) = Len(payloads) /\ Len(cs) \in Nat
      /\ \A i \in 1..Len(cs) :
           /\ cs[i].type = "chunk" /\ cs[i].rid = rid
           /\ cs[i].events = payloads[i].events /\ cs[i].fragments = payloads[i].fragments
           /\ cs[i].final <=> i = Len(cs)
           /\ cs[i].final => cs[i].next = next
  BY <1>2, <1>3, <1>4, <1>5, ChunksAre
<1>7. toPwa' = toPwa \o cs
  BY <1>3, <1>4 DEF Post
<1>8. \A x \in records : x \in Recovered(b.session, prefix)
  BY <1>1 DEF Paged
<1>9. ASSUME ~(r.at < w.start)
      PROVE  \E i \in 1..Len(cs) : Bears(cs[i], r.event)
  <2>1. b.session \in Nat
    BY <1>5
  <2>2. RecordsOf(b.session, prefix, records)
    BY <1>5, <1>8, <2>1 DEF RecordsOf
  <2>3. r \in w.records
    BY <1>1, <1>9, <2>2, WindowTakes
  <2>4. \A x, y \in w.records : x.at = y.at => x.event = y.event
    BY <1>2, <1>8, PlacesDistinct
  <2>5. w.records \in SUBSET Place
    BY <1>2
  <2>6. PICK i \in 1..Len(payloads) : Bears(payloads[i], r.event)
    BY <1>3, <2>3, <2>4, <2>5, PayloadsBring
  <2> QED
    BY <1>6, <2>6 DEF Bears
<1>10. ASSUME r.at < w.start
       PROVE  \E i \in 1..Len(cs) : cs[i].final /\ Reaches(binding', cs[i].next, r)
  <2>1. HasOlder(records) /\ next = Cardinality(b.cursors) + 1
    BY <1>1, <1>10 DEF HasOlder, NextOf
  <2>2. binding' = [b EXCEPT !.cursors = @ \cup {CursorOf(b, prefix, position)}]
    BY <1>1, <2>1, PageIs
  <2>3. PICK c : c = CursorOf(b, prefix, position)
    OBVIOUS
  <2>4. c.id = next /\ c.position = w.start - 1
    BY <1>1, <2>1, <2>3 DEF CursorOf
  <2>5. c \in binding'.cursors
    BY <1>5, <2>2, <2>3 DEF Service
  <2>6. r.at \in Nat
    BY <1>1, <1>2 DEF Place
  <2>7. r.at <= c.position
    BY <1>2, <1>10, <2>4, <2>6
  <2>8. Len(cs) \in 1..Len(cs)
    <3>1. Len(payloads) = 1 \/ Len(payloads) = 2
      BY <1>3, SomePayload
    <3> QED
      BY <1>6, <3>1
  <2>9. cs[Len(cs)].final /\ cs[Len(cs)].next = c.id
    BY <1>6, <2>4, <2>8
  <2>10. Reaches(binding', cs[Len(cs)].next, r)
    BY <2>5, <2>7, <2>9 DEF Reaches
  <2> QED
    BY <2>8, <2>9, <2>10
<1>11. \E i \in 1..Len(cs) : Brings(binding', cs[i], r)
  BY <1>9, <1>10 DEF Brings
<1> QED
  BY <1>6, <1>7, <1>11

LEMMA CutOffIs ==
  ASSUME NEW r, Due(r)
  PROVE  IsMarked(r) /\ ~Severed(History, r)
  BY DEF Due, CutOff, Severed

LEMMA SeveredMore ==
  ASSUME NEW S, NEW T, S \subseteq T, NEW r, Severed(S, r)
  PROVE  Severed(T, r)
  BY DEF Severed

(* What a cursor goes on from was there when it was made.                  *)
LEMMA CursorRecovers ==
  ASSUME generation \in Nat, NEW session \in Nat, NEW b \in Seq(Entry), NEW prefix \in Seq(Entry),
         GrownFrom(prefix, b), NEW c, c.prefix = prefix, c.position \in Nat, Grounded(c),
         NEW r \in Recovered(session, b), IsMarked(r), r.at <= c.position
  PROVE  r \in Recovered(session, prefix)
<1>1. PICK i, role, k : i = r.at /\ role = b[i].role /\ k = c.position + 1
  OBVIOUS
<1>2. /\ i \in 1..Len(b) /\ Target(b, i, role) # 0
  <2>1. r.at \in 1..Len(b) /\ Target(b, r.at, b[r.at].role) # 0
    BY MarkedIs
  <2> QED
    BY <1>1, <2>1
<1>3. k \in 1..Len(prefix) /\ prefix[k].type # "custom"
  BY <1>1 DEF Grounded
<1>4. Len(b) \in Nat /\ Len(prefix) \in Nat /\ Len(prefix) <= Len(b) /\ b[k] = prefix[k]
  BY <1>3, LenProperties DEF GrownFrom
<1>5. k \in Followers(b, i)
  BY <1>1, <1>2, <1>3, <1>4 DEF Followers
<1>6. Followers(b, i) \in SUBSET Nat
  BY <1>2, <1>4 DEF Followers
<1>7. Min(Followers(b, i)) <= k
  BY <1>5, <1>6, LeastIs
<1>8. Target(b, i, role) = Min(Followers(b, i))
  BY <1>2, TargetFollows
<1>9. Min(Followers(b, i)) \in Nat
  BY <1>5, <1>6, LeastIs
<1>10. Target(b, i, role) <= Len(prefix)
  BY <1>3, <1>4, <1>7, <1>8, <1>9
<1> QED
  BY <1>1, <1>10, RecordBefore

-----------------------------------------------------------------------------
(* What the host does with a request of the page's.                        *)

LEMMA SyncIsServed ==
  ASSUME HostTypes, HostReceives, NEW b, b = binding, b # None, b.ready = TRUE,
         NEW f, f = Head(toHost), f.type = "sync", f.gen = b.gen
  PROVE  Sync(b, f)
<1>1. f \in ClientFrame /\ Server = b
  BY ReceivesCases DEF Server
<1>2. Serve(b, f) /\ ~Refused(b, f)
  BY DEF HostReceives, Refused
<1> QED
  BY <1>1, <1>2, ServeCases

LEMMA PageKeepsCursors ==
  ASSUME HostTypes, NEW b, Serviceable(b), NEW rid, NEW prefix \in Seq(Entry),
         NEW position \in Nat, Page(b, rid, prefix, position)
  PROVE  KeepsCursors(b, binding')
<1>1. b \in Service
  BY DEF Serviceable
<1>2. PICK cs : binding' = [b EXCEPT !.cursors = cs] /\ b.cursors \subseteq cs
  <2>1. binding' = [b EXCEPT !.cursors = IF HasOlder(Paged(b, prefix, position))
                                         THEN @ \cup {CursorOf(b, prefix, position)} ELSE @]
    BY PageIs
  <2>2. PICK x, y : x = b.cursors \cup {CursorOf(b, prefix, position)} /\ y = b.cursors
    OBVIOUS
  <2>3. b.cursors \subseteq x /\ b.cursors \subseteq y
    BY <2>2
  <2> QED
    BY <2>1, <2>2, <2>3
<1>3. b.cursors \subseteq binding'.cursors
  BY <1>1, <1>2 DEF Service
<1> QED
  BY <1>3 DEF KeepsCursors

LEMMA SpentKeepsCursors ==
  ASSUME NEW b, Serviceable(b), NEW f
  PROVE  KeepsCursors(b, Spent(b, f))
<1>1. b \in Service /\ Spent(b, f).cursors = UsedUp(b, f)
  BY SpentIs DEF Serviceable
<1>2. b.cursors \subseteq Cursor
  BY <1>1 DEF Service
<1>3. ASSUME NEW x \in b.cursors
      PROVE  \E y \in UsedUp(b, f) : y.id = x.id /\ y.position = x.position
  <2>1. CASE x \in Asks(b, f)
    <3>1. PICK y : y = [x EXCEPT !.used = TRUE]
      OBVIOUS
    <3>2. y \in UsedUp(b, f)
      BY <2>1, <3>1 DEF UsedUp
    <3>3. x \in Cursor
      BY <1>2
    <3>4. y.id = x.id /\ y.position = x.position
      BY <3>1, <3>3 DEF Cursor
    <3> QED
      BY <3>2, <3>4
  <2>2. CASE x \notin Asks(b, f)
    BY <2>2 DEF UsedUp
  <2> QED
    BY <2>1, <2>2
<1> QED
  BY <1>1, <1>3 DEF KeepsCursors

LEMMA KeepsCursorsOn ==
  ASSUME NEW b, NEW c, NEW d, KeepsCursors(b, c), KeepsCursors(c, d)
  PROVE  KeepsCursors(b, d)
<1> SUFFICES ASSUME NEW x \in b.cursors
             PROVE  \E y \in d.cursors : y.id = x.id /\ y.position = x.position
  BY DEF KeepsCursors
<1>1. PICK z \in c.cursors : z.id = x.id /\ z.position = x.position
  BY DEF KeepsCursors
<1>2. PICK y \in d.cursors : y.id = z.id /\ y.position = z.position
  BY DEF KeepsCursors
<1> QED
  BY <1>1, <1>2

LEMMA SyncKeepsCursors ==
  ASSUME HostTypes, NEW b, Serviceable(b), NEW f \in ClientFrame, f.type = "sync", Sync(b, f)
  PROVE  KeepsCursors(b, binding')
<1>1. Serviceable(Spent(b, f)) /\ KeepsCursors(b, Spent(b, f)) /\ b \in Service
  BY SpentIs, SpentKeepsCursors DEF Serviceable
<1>2. CASE HeadPage(b, f)
  <2>1. branches[b.session] \in Seq(Entry) /\ Len(branches[b.session]) \in Nat
    BY DEF Serviceable, HostTypes, HostTypeOK, SessionTypeOK
  <2> QED
    BY <1>2, <2>1, PageKeepsCursors DEF HeadPage
<1>3. CASE NoPage(b, f)
  BY <1>1, <1>3 DEF NoPage
<1>4. CASE \E c \in b.cursors : OlderPage(b, f, c)
  <2>1. PICK c \in b.cursors : OlderPage(b, f, c)
    BY <1>4
  <2>2. c.prefix \in Seq(Entry) /\ c.position \in Nat
    BY <1>1 DEF Service, Cursor
  <2>3. KeepsCursors(Spent(b, f), binding')
    BY <1>1, <2>1, <2>2, PageKeepsCursors DEF OlderPage
  <2> QED
    BY <1>1, <2>3, KeepsCursorsOn
<1> QED
  BY <1>2, <1>3, <1>4, SyncCases

(* The host answers, and the page is still joined.                         *)
LEMMA ServesAdd ==
  ASSUME SessionTypes, SessionTypes', LinkInv, SeatInv, BranchInv, HostNext, HostReceives,
         UNCHANGED pwaVars, Unhindered'
  PROVE  Unhindered /\ HostAdds
<1>1. HostTypes /\ HostTypes' /\ Joined' /\ UNCHANGED phase
  BY DEF SessionTypes, Unhindered, pwaVars, linkVars
<1>2. UNCHANGED <<live, bridge, generation>> /\ Current' = Current
  BY <1>1, SessionsStay
<1>3. HostServes
  BY <1>1, ReceivesServes
<1>4. PICK b, f : b = Server /\ f = Head(toHost)
  OBVIOUS
<1>5. Serviceable(b) /\ f \in ClientFrame /\ toHost # <<>> /\ Serves(b, f)
  BY <1>1, <1>3, <1>4, ServerTyped DEF HostServes
<1>6. binding' # None /\ binding'.ready = TRUE /\ phase = "online"
  BY <1>1 DEF Joined
<1>7. ~(f.type = "hello")
  <2>1. toHost[1] = f /\ 1 \in 1..Len(toHost)
    BY <1>4, <1>5, QueuesTyped, HeadIsFirst
  <2> QED
    BY <1>6, <2>1 DEF LinkInv
<1>8. NoReady \in SUBSET ServerFrame /\ Words \subseteq NoReady
  BY DEF Words, NoReady
<1>9. Seated(b) /\ Adds(NoReady) /\ KeepsCursors(b, binding')
  <2>1. CASE Minor(b)
    <3>1. KeepsCursors(b, binding')
      BY <2>1 DEF Minor, KeepsCursors
    <3> QED
      BY <1>8, <2>1, <3>1, AddsMore DEF Minor
  <2>2. CASE f.type = "sync" /\ Sync(b, f)
    BY <1>1, <1>5, <2>2, SyncSeated, SyncAdds, SyncKeepsCursors
  <2> QED
    BY <1>5, <1>6, <1>7, <2>1, <2>2 DEF Serves
<1>10. binding # None /\ binding.ready = TRUE /\ b = binding
  BY <1>4, <1>6, <1>9 DEF Seated, Server
<1>11. PICK new \in Seq(ServerFrame) : toPwa' = toPwa \o new
  <2>1. PICK n \in Seq(NoReady) : toPwa' = toPwa \o n
    BY <1>9 DEF Adds
  <2> QED
    BY <1>8, <2>1, SeqMonotonic
<1>12. Unhindered
  BY <1>1, <1>2, <1>10, <1>11, StillJoined, StrayedStays
<1> QED
  BY <1>2, <1>9, <1>10, <1>11, <1>12 DEF HostAdds

(* A page that brings r is the answer.                                     *)
LEMMA PageServes ==
  ASSUME SessionTypes, HostAdds, assembler # None, linked,
         NEW b, Serviceable(b), NEW prefix \in Seq(Entry), NEW position \in Nat,
         Page(b, assembler.rid, prefix, position),
         NEW n, Orderly(prefix, n), NEW r \in Recovered(b.session, prefix), r.at <= position,
         Recovered(b.session, prefix) \subseteq History, Due(r)
  PROVE  Answered(r)'
<1>1. HostTypes /\ UNCHANGED assembler
  BY DEF SessionTypes, HostAdds, pwaVars, transferVars
<1>2. r \in Paged(b, prefix, position) /\ Paged(b, prefix, position) \subseteq History
  BY DEF Paged
<1>3. IsMarked(r) /\ ~Severed(Paged(b, prefix, position), r)
  BY <1>2, CutOffIs, SeveredMore
<1>4. assembler.rid \in Nat
  BY RidsTyped
<1>5. PICK rid : rid = assembler.rid /\ rid \in Nat /\ Page(b, rid, prefix, position)
  BY <1>4
<1>6. PICK new \in Seq(Chunk) :
        /\ toPwa' = toPwa \o new
        /\ \E i \in 1..Len(new) : /\ new[i].type = "chunk" /\ new[i].rid = rid
                                  /\ Brings(binding', new[i], r)
  <2>1. Page(b, rid, prefix, position) /\ rid \in Nat
    BY <1>5
  <2>2. /\ r \in Paged(b, prefix, position) /\ IsMarked(r)
        /\ ~Severed(Paged(b, prefix, position), r) /\ HostTypes
    BY <1>1, <1>2, <1>3
  <2> QED
    BY <2>1, <2>2, PageBrings
<1>7. PICK i \in 1..Len(new) : /\ new[i].type = "chunk" /\ new[i].rid = rid
                               /\ Brings(binding', new[i], r)
  BY <1>6
<1>8. Chunk \subseteq ServerFrame
  BY DEF ServerFrame
<1>9. new \in Seq(ServerFrame)
  BY <1>8, SeqMonotonic
<1>10. /\ Len(toPwa') = Len(toPwa) + Len(new) /\ toPwa'[Len(toPwa) + i] = new[i]
       /\ Len(toPwa) \in Nat /\ Len(new) \in Nat
  BY <1>6, <1>9, QueuesTyped, JoinIs
<1>11. PICK k : k = Len(toPwa) + i
  OBVIOUS
<1>12. k \in 1..Len(toPwa') /\ toPwa'[k] = new[i]
  BY <1>10, <1>11
<1> QED
  BY <1>1, <1>5, <1>7, <1>12 DEF Answered

LEMMA ResetUpsets ==
  ASSUME SessionTypes, linked, NEW b, Post(<<ResetFrame(b)>>), UNCHANGED scope,
         scope.session = b.session, Joined'
  PROVE  FALSE
<1>1. PICK f : f = ResetFrame(b)
  OBVIOUS
<1>2. f.type = "reset" /\ f.session = b.session
  BY <1>1 DEF ResetFrame
<1>3. toPwa' = toPwa \o <<f>>
  BY <1>1 DEF Post
<1>4. \E i \in 1..Len(toPwa') : toPwa'[i] = f
  <2>1. toPwa \in Seq(ServerFrame)
    BY QueuesTyped
  <2>2. Len(toPwa) + 1 \in 1..Len(toPwa') /\ toPwa'[Len(toPwa) + 1] = f
    BY <1>3, <2>1
  <2> QED
    BY <2>2
<1>5. PICK i \in 1..Len(toPwa') : toPwa'[i] = f
  BY <1>4
<1>6. Upsets(scope, toPwa'[i])
  BY <1>2, <1>5 DEF Upsets
<1> QED
  BY <1>5, <1>6 DEF Joined

LEMMA RequestAnswered ==
  ASSUME SessionTypes, LinkInv, SeatInv, BranchInv, CursorInv, HostReceives, HostAdds,
         Unhindered, Joined', assembler # None, NEW r \in History, Due(r),
         NEW f, f = Head(toHost), IsFor(assembler, generation, binding, f, r)
  PROVE  Answered(r)'
<1>1. HostTypes /\ UNCHANGED scope /\ Joined
  BY DEF SessionTypes, HostAdds, pwaVars, viewVars, Unhindered
<1>2. PICK b, s, p : b = binding /\ s = Current /\ p = branches[s]
  OBVIOUS
<1>3. /\ linked /\ scope.session = s /\ Serviceable(b) /\ b.session = s /\ b.gen = generation
      /\ b # None /\ b.ready = TRUE
  BY <1>1, <1>2, JoinedIs DEF Joined
<1>4. f \in ClientFrame /\ f.type = "sync" /\ f.rid = assembler.rid /\ f.gen = b.gen
  BY <1>1, <1>3, ReceivesCases DEF IsFor
<1>5. Sync(b, f)
  BY <1>1, <1>2, <1>3, <1>4, SyncIsServed
<1>6. /\ p \in Seq(Entry) /\ Len(p) \in Nat /\ Orderly(p, minted) /\ s \in Nat /\ generation \in Nat
  BY <1>1, <1>2, SessionNumbers, HostFields, LenProperties DEF BranchInv
<1>7. r \in Recovered(s, p) /\ History = Recovered(s, p) /\ IsMarked(r)
  BY <1>2 DEF History, Due
<1>8. CASE HeadPage(b, f)
  <2>1. Page(b, assembler.rid, p, Len(p))
    BY <1>2, <1>3, <1>4, <1>8 DEF HeadPage
  <2>2. r.at <= Len(p)
    <3>1. r.at \in 1..Len(p)
      BY <1>6, <1>7, MarkedIs
    <3> QED
      BY <1>6, <3>1
  <2>3. r \in Recovered(b.session, p) /\ Recovered(b.session, p) \subseteq History
    BY <1>3, <1>7
  <2> QED
    BY <1>3, <1>6, <2>1, <2>2, <2>3, PageServes
<1>9. CASE NoPage(b, f)
  <2>1. Post(<<ResetFrame(b)>>)
    BY <1>9 DEF NoPage
  <2> QED
    BY <1>1, <1>3, <2>1, ResetUpsets
<1>10. CASE \E c \in b.cursors : OlderPage(b, f, c)
  <2>1. PICK c \in b.cursors : OlderPage(b, f, c)
    BY <1>10
  <2>2. c \in Cursor
    BY <1>3 DEF Serviceable, Service
  <2>3. c.prefix \in Seq(Entry) /\ c.position \in Nat
    BY <2>2 DEF Cursor
  <2>4. f.before # None /\ c.id = f.before /\ SnapshotValid(c, p)
        /\ Page(Spent(b, f), f.rid, c.prefix, c.position)
    BY <1>2, <1>3, <2>1 DEF OlderPage
  <2>5. Reaches(b, f.before, r)
    BY <1>2, <2>4 DEF IsFor
  <2>6. PICK d \in b.cursors : d.id = f.before /\ r.at <= d.position
    BY <2>5 DEF Reaches
  <2>7. d = c /\ Grounded(c)
    BY <1>2, <1>3, <2>4, <2>6 DEF CursorInv, Leads
  <2>8. GrownFrom(c.prefix, p)
    BY <1>6, <2>3, <2>4, PrefixGrows DEF SnapshotValid
  <2>9. r \in Recovered(s, c.prefix)
    <3>1. PICK prefix : prefix = c.prefix
      OBVIOUS
    <3>2. r \in Recovered(s, prefix)
      BY <1>6, <1>7, <2>3, <2>6, <2>7, <2>8, <3>1, CursorRecovers
    <3> QED
      BY <3>1, <3>2
  <2>10. Recovered(s, c.prefix) \subseteq History
    BY <1>6, <1>7, <2>3, <2>8, RecoveredStays
  <2>11. Orderly(c.prefix, minted)
    BY <1>6, <2>3, <2>8, OrderlyPart
  <2>12. PICK e, prefix, position : e = Spent(b, f) /\ prefix = c.prefix /\ position = c.position
    OBVIOUS
  <2>13. Serviceable(e) /\ e.session = s
    BY <1>3, <2>12, SpentIs
  <2>14. /\ prefix \in Seq(Entry) /\ position \in Nat /\ Page(e, assembler.rid, prefix, position)
         /\ Orderly(prefix, minted) /\ r \in Recovered(e.session, prefix) /\ r.at <= position
         /\ Recovered(e.session, prefix) \subseteq History
    BY <1>4, <2>3, <2>4, <2>6, <2>7, <2>9, <2>10, <2>11, <2>12, <2>13
  <2> QED
    BY <1>3, <2>13, <2>14, PageServes
<1> QED
  BY <1>1, <1>3, <1>4, <1>5, <1>8, <1>9, <1>10, SyncCases

LEMMA ServesCover ==
  ASSUME SessionTypes, SessionTypes', LinkInv, SeatInv, BranchInv, CursorInv, HostNext,
         HostReceives, UNCHANGED pwaVars, Unhindered', Unhindered => Covered
  PROVE  Covered'
<1>1. Unhindered /\ HostAdds /\ Covered
  BY ServesAdd
<1>2. UNCHANGED <<branches, generation, ended>> /\ toHost' = Tail(toHost) /\ toHost # <<>>
  BY DEF HostReceives, sessionVars
<1>3. History' = History /\ \A r : Due(r)' <=> Due(r)
  BY <1>2, HistorySame
<1>4. Joined' /\ UNCHANGED assembler /\ Current' = Current
  BY <1>1 DEF Unhindered, HostAdds, pwaVars, transferVars
<1>5. /\ Head(toHost) = toHost[1] /\ Len(toHost') = Len(toHost) - 1 /\ Len(toHost) \in Nat
      /\ \A i \in 1..Len(toHost') : toHost'[i] = toHost[i + 1]
  BY <1>2, QueuesTyped, HeadIsFirst
<1>6. ASSUME NEW r \in History, Due(r), Asked(r), assembler # None
      PROVE  Asked(r)' \/ Answered(r)'
  <2>1. PICK i \in 1..Len(toHost) : IsFor(assembler, generation, binding, toHost[i], r)
    BY <1>6 DEF Asked
  <2>2. CASE i = 1
    BY <1>1, <1>4, <1>5, <1>6, <2>1, <2>2, RequestAnswered
  <2>3. CASE i # 1
    <3>1. PICK k, b, c, f : k = i - 1 /\ b = binding /\ c = binding' /\ f = toHost[i]
      OBVIOUS
    <3>2. k \in 1..Len(toHost') /\ k + 1 = i
      BY <1>5, <2>1, <2>3, <3>1
    <3>3. toHost'[k] = f
      BY <1>5, <3>1, <3>2
    <3>4. KeepsCursors(b, c)
      BY <1>1, <3>1 DEF HostAdds
    <3>5. IsFor(assembler, generation, b, f, r)
      BY <2>1, <3>1
    <3>6. IsFor(assembler, generation, c, f, r)
      BY <3>4, <3>5, IsForOn
    <3>7. Asked(r)'
      BY <1>2, <1>4, <3>1, <3>2, <3>3, <3>6 DEF Asked
    <3> QED
      BY <3>7
  <2> QED
    BY <2>2, <2>3
<1>7. ASSUME NEW r, r \in History', Due(r)'
      PROVE  Cover(r)'
  <2>1. r \in History /\ Due(r)
    BY <1>3, <1>7
  <2>2. Cover(r)
    BY <1>1, <2>1 DEF Covered
  <2>3. AtHost(r) => AtHost(r)'
    BY <1>2, <1>4, SameKeepsWaiting
  <2> QED
    BY <1>1, <1>6, <2>1, <2>2, <2>3, HostKeepsCover
<1> QED
  BY <1>7 DEF Covered

LEMMA HostMovesCover ==
  ASSUME SessionTypes, SessionTypes', LinkInv, SeatInv, BranchInv, CursorInv, LiveInv, AnnouncedInv,
         HostNext, UNCHANGED pwaVars, Unhindered', Unhindered => Covered
  PROVE  Covered'
<1>1. HostTypes /\ Joined'
  BY DEF SessionTypes, Unhindered
<1>2. CASE HostReceives
  BY <1>2, ServesCover
<1>3. CASE ReconnectHost /\ HostReconnects
  BY <1>1, <1>3 DEF HostReconnects, Joined
<1>4. CASE HostMoves(News)
  <2>1. Unhindered /\ HostAdds /\ UNCHANGED toHost /\ Covered
    BY <1>4, MovesAdd
  <2>2. ~ShutdownSession /\ ~StartSession /\ ~EndBridge /\ ~MoveInTree
    BY <1>1, SessionsStay
  <2>3. CASE StartRun \/ Steer \/ \E role \in Roles : Speak(role)
    BY <2>1, <2>3, MessagesCover
  <2>4. CASE \E type \in {"custom", "custom_message", "compaction"} : WriteEntry(type)
    BY <2>1, <2>4, WriteEntryCovers
  <2>5. CASE Stream \/ EndRun \/ TypePrompt \/ ExpireRecord
    BY <2>1, <2>5, OthersCover
  <2>6. CASE EndMessage
    BY <2>1, <2>6, EndMessageCovers DEF Unhindered
  <2>7. CASE Publish
    BY <2>1, <2>7, PublishCovers
  <2>8. CASE ReconnectHost
    BY <1>1, <2>8 DEF ReconnectHost, Joined
  <2> QED
    BY <1>2, <2>2, <2>3, <2>4, <2>5, <2>6, <2>7, <2>8 DEF HostNext
<1> QED
  BY <1>1, <1>2, <1>3, <1>4, HostCases

(* No step of the host uncovers an event that is due.                      *)
LEMMA HostKeepsCovered ==
  ASSUME SessionTypes, SessionTypes', LinkInv, SeatInv, BranchInv, CursorInv, LiveInv, AnnouncedInv,
         HostNext, UNCHANGED pwaVars, CoverInv
  PROVE  CoverInv'
<1>1. Unhindered => Covered
  BY DEF CoverInv, Covered
<1>2. Unhindered' => Covered'
  BY <1>1, HostMovesCover
<1> QED
  BY <1>2 DEF CoverInv, Covered

-----------------------------------------------------------------------------
(* The page's steps and what is covered.                                   *)

LEMMA PageSame ==
  ASSUME UNCHANGED hostSide
  PROVE  /\ History' = History /\ (\A r : Due(r)' <=> Due(r))
         /\ UNCHANGED <<branches, live, bridge, generation, ended, strayed, binding>>
         /\ Current' = Current
<1>1. UNCHANGED <<branches, live, bridge, generation, ended, strayed, binding>>
  BY HostSideIs
<1> QED
  BY <1>1, HistorySame DEF Current

LEMMA PageJoined ==
  ASSUME UNCHANGED hostSide, UNCHANGED <<phase, scope>>, Joined',
         \A i \in 1..Len(toPwa) : ~Upsets(scope, toPwa[i])
  PROVE  Joined
<1>1. UNCHANGED <<live, bridge, generation, binding>> /\ Current' = Current
  BY PageSame
<1> QED
  BY <1>1 DEF Joined

LEMMA PageAsks ==
  ASSUME SessionTypes, UNCHANGED hostSide, UNCHANGED assembler, Says(Plain), NEW r, Asked(r)
  PROVE  Asked(r)'
<1>1. UNCHANGED <<generation, binding>>
  BY PageSame
<1>2. PICK i \in 1..Len(toHost) : IsFor(assembler, generation, binding, toHost[i], r)
  BY DEF Asked
<1>3. PICK new \in Seq(Plain) : toHost' = toHost \o new
  BY DEF Says
<1>4. new \in Seq(ClientFrame)
  <2>1. Plain \subseteq ClientFrame
    BY DEF Plain
  <2> QED
    BY <1>3, <2>1, SeqMonotonic
<1>5. i \in 1..Len(toHost') /\ toHost'[i] = toHost[i]
  BY <1>3, <1>4, QueuesTyped, JoinIs
<1> QED
  BY <1>1, <1>2, <1>5 DEF Asked

(* What stays of r's cover while no frame is taken.                        *)
LEMMA SaysCovers ==
  ASSUME SessionTypes, UNCHANGED hostSide, UNCHANGED <<toPwa, scope, transferVars>>, Says(Plain),
         NEW r, Cover(r), Shown(r) => Shown(r)'
  PROVE  Cover(r)'
<1>1. UNCHANGED <<generation, ended, binding>> /\ Current' = Current
  BY PageSame
<1>2. UNCHANGED <<journal, assembler, parts, before>>
  BY DEF transferVars
<1>3. CASE AtHost(r)
  <2>1. AtHost(r)'
    BY <1>1, <1>3 DEF AtHost
  <2> QED
    BY <2>1 DEF Cover
<1>4. CASE Comes(toPwa, parts, scope, r.event)
  <2>1. Comes(toPwa, parts, scope, r.event)'
    BY <1>2, <1>4
  <2> QED
    BY <2>1 DEF Cover
<1>5. CASE Fetched(r)
  <2>1. Answered(r) => Answered(r)'
    BY <1>1, <1>2 DEF Answered
  <2>2. Fetched(r)'
    BY <1>2, <1>5, <2>1, PageAsks DEF Fetched
  <2> QED
    BY <2>2 DEF Cover
<1>6. CASE Journaled(r) \/ Shown(r) \/ LeftOver(r)
  BY <1>1, <1>2, <1>6 DEF Journaled, Loading, LeftOver, Cover
<1> QED
  BY <1>3, <1>4, <1>5, <1>6 DEF Cover

LEMMA UserCovers ==
  ASSUME SessionTypes, UNCHANGED hostSide, Unhindered => Covered, Unhindered',
         NEW q \in Requests, SendMessage(q) \/ RetryUnknown(q)
  PROVE  Covered'
<1>1. UNCHANGED <<toPwa, events, spoiled, transferVars>> /\ Talks
  BY UserTalks
<1>2. UNCHANGED <<phase, scope, assembler>> /\ Says(Plain)
  BY <1>1 DEF Talks, transferVars
<1>3. History' = History /\ (\A r : Due(r)' <=> Due(r)) /\ UNCHANGED strayed
  BY PageSame
<1>4. Joined'
  BY DEF Unhindered
<1>5. \A i \in 1..Len(toPwa) : ~Upsets(scope, toPwa[i])
  BY <1>1, <1>2, <1>4 DEF Joined
<1>6. Joined
  BY <1>2, <1>4, <1>5, PageJoined
<1>7. Unhindered
  BY <1>2, <1>3, <1>6 DEF Unhindered
<1>8. ASSUME NEW r, r \in History', Due(r)'
      PROVE  Cover(r)'
  <2>1. Cover(r)
    BY <1>3, <1>7, <1>8 DEF Covered
  <2>2. Shown(r) => Shown(r)'
    BY <1>1, <1>2 DEF Shown, Loading
  <2> QED
    BY <1>1, <1>2, <2>1, <2>2, SaysCovers
<1> QED
  BY <1>8 DEF Covered

LEMMA TransactionCovers ==
  ASSUME SessionTypes, UNCHANGED hostSide, Unhindered => Covered, Unhindered', RunTransaction
  PROVE  Covered'
<1>1. UNCHANGED <<toPwa, phase, scope, transferVars, assembler>> /\ Says(Plain)
  BY TransactionTalks DEF Talks, RunTransaction, transferVars
<1>3. History' = History /\ (\A r : Due(r)' <=> Due(r)) /\ UNCHANGED strayed
  BY PageSame
<1>4. Joined'
  BY DEF Unhindered
<1>5. \A i \in 1..Len(toPwa) : ~Upsets(scope, toPwa[i])
  BY <1>1, <1>4 DEF Joined
<1>6. Joined
  BY <1>1, <1>4, <1>5, PageJoined
<1>7. Unhindered
  BY <1>1, <1>3, <1>6 DEF Unhindered
<1>8. UNCHANGED <<events, spoiled>>
      \/ spoiled' = IF assembler = None \/ assembler.older THEN spoiled \cup {"view"} ELSE spoiled
  BY DEF RunTransaction
<1>9. \A r : Shown(r) => Shown(r)'
  BY <1>1, <1>8 DEF Shown, Loading
<1>10. ASSUME NEW r, r \in History', Due(r)'
       PROVE  Cover(r)'
  <2>1. Cover(r)
    BY <1>3, <1>7, <1>10 DEF Covered
  <2> QED
    BY <1>1, <1>9, <2>1, SaysCovers
<1> QED
  BY <1>10 DEF Covered

LEMMA LeavesOff ==
  ASSUME SessionTypes, Connect \/ LoseLink \/ StartsAnew
  PROVE  ~Unhindered'
<1>1. phase' # "online"
  BY DEF Connect, LoseLink, StartsAnew, Rejoin, SayHello
<1> QED
  BY <1>1 DEF Unhindered, Joined

LEMMA AskedLast ==
  ASSUME SessionTypes, NEW f \in ClientFrame, toHost' = Append(toHost, f),
         NEW r, IsFor(assembler', generation', binding', f, r)
  PROVE  Asked(r)'
<1>1. Len(toHost) + 1 \in 1..Len(toHost') /\ toHost'[Len(toHost) + 1] = f
  BY QueuesTyped
<1>2. PICK k : k = Len(toHost) + 1
  OBVIOUS
<1>3. k \in 1..Len(toHost') /\ toHost'[k] = f
  BY <1>1, <1>2
<1> QED
  BY <1>3 DEF Asked

LEMMA NewAssemblerIs ==
  ASSUME NEW rid \in Nat, NEW older \in BOOLEAN
  PROVE  /\ NewAssembler(rid, older) # None
         /\ NewAssembler(rid, older).rid = rid /\ NewAssembler(rid, older).older = older
<1>1. NewAssembler(rid, older) \in Assembler
  BY DEF NewAssembler, Assembler
<1> QED
  BY <1>1, NoneAssumption DEF NewAssembler

LEMMA EntersCovers ==
  ASSUME SessionTypes, SessionTypes', UNCHANGED hostSide, Unhindered', Enters
  PROVE  Covered'
<1>1. UNCHANGED <<generation, binding>> /\ Current' = Current
  BY PageSame
<1>2. PICK f : f = Head(toPwa)
  OBVIOUS
<1>3. f \in ServerFrame /\ f.type = "ready" /\ EnterScope(f)
  BY <1>2, QueuesTyped, HeadIsFirst DEF Enters
<1>4. PICK g, sc : g = f.gen /\ sc = [session |-> f.session, gen |-> f.gen]
  OBVIOUS
<1>5. scope' = sc /\ sc.gen = g
  BY <1>3, <1>4 DEF EnterScope, SetScope
<1>6. g = generation'
  <2>1. sc = [session |-> Current', gen |-> generation']
    BY <1>5 DEF Unhindered, Joined
  <2>2. [session |-> Current', gen |-> generation'].gen = generation'
    OBVIOUS
  <2> QED
    BY <1>5, <2>1, <2>2
<1>7. PICK n, x : n = rids + 1 /\ x = [type |-> "sync", rid |-> n, gen |-> g, before |-> None]
  OBVIOUS
<1>8. n \in Nat /\ g \in Nat
  <2>1. generation' \in Nat
    BY DEF SessionTypes, HostTypes, HostTypeOK, SessionTypeOK
  <2> QED
    BY <1>6, <1>7, <2>1, QueuesTyped
<1>9. assembler' = NewAssembler(n, FALSE) /\ toHost' = Append(toHost, x)
  BY <1>3, <1>4, <1>7 DEF EnterScope
<1>10. x \in ClientFrame /\ x.type = "sync" /\ x.rid = n /\ x.gen = g /\ x.before = None
  BY <1>7, <1>8 DEF ClientFrame, Optional
<1>11. assembler' # None /\ assembler'.rid = n /\ assembler'.older = FALSE
  BY <1>8, <1>9, NewAssemblerIs
<1>12. ASSUME NEW r, r \in History', Due(r)'
       PROVE  Cover(r)'
  <2>1. IsFor(assembler', generation', binding', x, r)
    BY <1>6, <1>10, <1>11 DEF IsFor
  <2>2. Asked(r)'
    BY <1>9, <1>10, <2>1, AskedLast
  <2> QED
    BY <1>11, <2>2 DEF Fetched, Cover
<1> QED
  BY <1>12 DEF Covered

LEMMA EarlierCovers ==
  ASSUME SessionTypes, SessionTypes', UNCHANGED hostSide, Unhindered => Covered, Unhindered',
         LinkInv, SeatInv, LoadEarlier
  PROVE  Covered'
<1>1. UNCHANGED <<generation, ended, binding, strayed>> /\ Current' = Current
      /\ History' = History /\ (\A r : Due(r)' <=> Due(r))
  BY PageSame
<1>2. UNCHANGED <<toPwa, phase, scope, events, spoiled, journal, parts, before>>
  BY DEF LoadEarlier, viewVars
<1>3. assembler = None /\ before # None
  BY DEF LoadEarlier
<1>4. Joined'
  BY DEF Unhindered
<1>5. \A i \in 1..Len(toPwa) : ~Upsets(scope, toPwa[i])
  BY <1>2, <1>4 DEF Joined
<1>6. Joined
  BY <1>2, <1>4, <1>5, PageJoined
<1>7. Unhindered
  BY <1>1, <1>3, <1>6 DEF Unhindered
<1>8. scope.gen = generation /\ generation \in Nat
  BY <1>6, JoinedIs, SessionNumbers
<1>9. PICK n, g, bf, x : /\ n = rids + 1 /\ g = generation /\ bf = before
                         /\ x = [type |-> "sync", rid |-> n, gen |-> g, before |-> bf]
  OBVIOUS
<1>10. n \in Nat /\ g \in Nat /\ bf \in Optional(Nat)
  <2>1. before \in Optional(Nat)
    BY DEF SessionTypes, TransferTypeOK
  <2> QED
    BY <1>8, <1>9, <2>1, QueuesTyped
<1>11. assembler' = NewAssembler(n, TRUE) /\ toHost' = Append(toHost, x)
  BY <1>8, <1>9 DEF LoadEarlier
<1>12. x \in ClientFrame /\ x.type = "sync" /\ x.rid = n /\ x.gen = g /\ x.before = bf
  BY <1>9, <1>10 DEF ClientFrame
<1>13. assembler' # None /\ assembler'.rid = n /\ assembler'.older = TRUE
  BY <1>10, <1>11, NewAssemblerIs
<1>14. ASSUME NEW r, r \in History', Due(r)'
       PROVE  Cover(r)'
  <2>1. Cover(r)
    BY <1>1, <1>7, <1>14 DEF Covered
  <2>2. CASE AtHost(r)
    <3>1. AtHost(r)'
      BY <1>1, <2>2 DEF AtHost
    <3> QED
      BY <3>1 DEF Cover
  <2>3. CASE Comes(toPwa, parts, scope, r.event)
    <3>1. Comes(toPwa, parts, scope, r.event)'
      BY <1>2, <2>3
    <3> QED
      BY <3>1 DEF Cover
  <2>4. CASE Shown(r)
    BY <1>2, <1>13, <2>4 DEF Shown, Loading, Cover
  <2>5. CASE LeftOver(r)
    <3>1. Reaches(binding', x.before, r)
      BY <1>1, <1>9, <1>12, <2>5 DEF LeftOver
    <3>2. IsFor(assembler', generation', binding', x, r)
      BY <1>1, <1>3, <1>9, <1>12, <1>13, <3>1 DEF IsFor
    <3>3. Asked(r)'
      BY <1>11, <1>12, <3>2, AskedLast
    <3> QED
      BY <1>13, <3>3 DEF Fetched, Cover
  <2> QED
    BY <1>3, <2>1, <2>2, <2>3, <2>4, <2>5 DEF Cover, Fetched, Journaled, Loading
<1> QED
  BY <1>14 DEF Covered

-----------------------------------------------------------------------------
(* What the page hears and what is covered.                                *)

LEMMA CommitShows ==
  ASSUME SessionTypes, scope # None, NEW new
  PROVE  /\ Commit(new) => events' = events \cup {e \in new : InScope(scope, e)}
         /\ ReplaceHistory(new) => events' = {e \in new : InScope(scope, e)}
<1>1. scope \in Scope
  BY DEF SessionTypes, ViewTypeOK, Optional
<1>2. PICK mine : mine = {e \in new : InScope(scope, e)}
  OBVIOUS
<1>3. Commit(new) => Reconcile(messages, events \cup mine)
  BY <1>2 DEF Commit
<1>4. ReplaceHistory(new) => Reconcile(messages, mine)
  BY <1>2 DEF ReplaceHistory
<1>5. Commit(new) => events' = events \cup mine
  BY <1>1, <1>3, ReconcileSays
<1>6. ReplaceHistory(new) => events' = mine
  BY <1>1, <1>4, ReconcileSays
<1> QED
  BY <1>2, <1>5, <1>6

(* The events of the branch are of the scope the page is joined to.        *)
LEMMA DueInScope ==
  ASSUME SessionTypes, LinkInv, SeatInv, Joined, NEW r \in History
  PROVE  InScope(scope, r.event)
<1>1. PICK s, p : s = Current /\ p = branches[s]
  OBVIOUS
<1>2. p \in Seq(Entry)
  BY <1>1, HostFields DEF SessionTypes
<1>3. r \in Recovered(s, p)
  BY <1>1 DEF History
<1>4. r.event.session = s /\ r.event.gen = generation
  <2>1. RecordAt(s, p, r)
    BY <1>2, <1>3, RecordIs
  <2> QED
    BY <2>1 DEF RecordAt
<1>5. scope # None /\ scope.session = s /\ scope.gen = generation
  BY <1>1, JoinedIs
<1> QED
  BY <1>4, <1>5 DEF InScope

LEMMA AnsweredTail ==
  ASSUME SessionTypes, toPwa # <<>>, toPwa' = Tail(toPwa), UNCHANGED <<assembler, binding>>,
         ~(Head(toPwa).type = "chunk" /\ Head(toPwa).rid = assembler.rid), NEW r, Answered(r)
  PROVE  Answered(r)'
<1>1. /\ Head(toPwa) = toPwa[1] /\ Len(toPwa') = Len(toPwa) - 1 /\ Len(toPwa) \in Nat
      /\ \A i \in 1..Len(toPwa') : toPwa'[i] = toPwa[i + 1]
  BY QueuesTyped, HeadIsFirst
<1>2. CASE \E c \in assembler.chunks : Brings(binding, c, r)
  BY <1>2 DEF Answered
<1>3. CASE \E i \in 1..Len(toPwa) : /\ toPwa[i].type = "chunk" /\ toPwa[i].rid = assembler.rid
                                    /\ Brings(binding, toPwa[i], r)
  <2>1. PICK i \in 1..Len(toPwa) : /\ toPwa[i].type = "chunk" /\ toPwa[i].rid = assembler.rid
                                   /\ Brings(binding, toPwa[i], r)
    BY <1>3
  <2>2. PICK k : k = i - 1
    OBVIOUS
  <2>3. i # 1
    BY <1>1, <2>1
  <2>4. k \in 1..Len(toPwa') /\ k + 1 = i
    BY <1>1, <2>1, <2>2, <2>3
  <2>5. toPwa'[k] = toPwa[i]
    BY <1>1, <2>4
  <2> QED
    BY <2>1, <2>4, <2>5 DEF Answered
<1> QED
  BY <1>2, <1>3 DEF Answered

LEMMA HearsJoined ==
  ASSUME SessionTypes, UNCHANGED hostSide, Hears, Unhindered'
  PROVE  /\ Unhindered /\ UNCHANGED <<phase, scope>> /\ Says(Plain)
         /\ toPwa # <<>> /\ toPwa' = Tail(toPwa)
         /\ ~(~Expected(Head(toPwa)) /\ Head(toPwa).type = "chunk" /\ assembler # None
              /\ Head(toPwa).rid = assembler.rid)
<1>1. PICK f : f = Head(toPwa)
  OBVIOUS
<1>2. /\ toPwa # <<>> /\ toPwa' = Tail(toPwa) /\ UNCHANGED <<phase, scope>> /\ Says(Plain)
      /\ \/ Expected(f) /\ f.type # "ready" /\ Take(f)
         \/ ~Expected(f) /\ UNCHANGED <<pwaVars, toHost>>
  BY <1>1, HearsTalks DEF Hears, Talks
<1>3. Joined' /\ UNCHANGED strayed
  BY PageSame DEF Unhindered
<1>4. ~Upsets(scope, f)
  <2>1. scope # None
    <3>1. scope = [session |-> Current, gen |-> generation]
      BY <1>2, <1>3, PageSame DEF Joined
    <3>2. [session |-> Current, gen |-> generation] \in Scope
      BY SessionNumbers DEF Scope
    <3> QED
      BY <3>1, <3>2, NoneAssumption
  <2>2. CASE Take(f)
    <3>1. f.type \notin {"endpoint", "reset", "bye"}
      BY <2>2 DEF Take
    <3> QED
      BY <3>1 DEF Upsets
  <2>3. CASE ~Expected(f)
    BY <2>1, <2>3 DEF Upsets, Expected
  <2> QED
    BY <1>2, <2>2, <2>3
<1>5. /\ f = toPwa[1] /\ Len(toPwa') = Len(toPwa) - 1 /\ Len(toPwa) \in Nat
      /\ \A i \in 1..Len(toPwa') : toPwa'[i] = toPwa[i + 1]
  BY <1>1, <1>2, QueuesTyped, HeadIsFirst
<1>6. ASSUME NEW i \in 1..Len(toPwa)
      PROVE  ~Upsets(scope, toPwa[i])
  <2>1. CASE i = 1
    BY <1>4, <1>5, <2>1
  <2>2. CASE i # 1
    <3>1. PICK k : k = i - 1
      OBVIOUS
    <3>2. k \in 1..Len(toPwa') /\ k + 1 = i
      BY <1>5, <1>6, <2>2, <3>1
    <3>3. toPwa'[k] = toPwa[i]
      BY <1>5, <3>2
    <3>4. ~Upsets(scope, toPwa'[k])
      BY <1>2, <1>3, <3>2 DEF Joined
    <3> QED
      BY <3>3, <3>4
  <2> QED
    BY <2>1, <2>2
<1>7. Joined
  BY <1>2, <1>3, <1>6, PageJoined
<1>8. assembler # None => ~assembler.discarded
  <2> SUFFICES ASSUME assembler # None, assembler.discarded
               PROVE  assembler' = assembler
    BY DEF Unhindered
  <2>1. CASE f.type = "chunk"
    BY <1>2, <2>1 DEF Expected, pwaVars, transferVars
  <2>2. CASE f.type # "chunk"
    BY <1>2, <2>2 DEF Take, ReceiveEvent, ReceiveFragment, transferVars, pwaVars
  <2> QED
    BY <2>1, <2>2
<1>9. Unhindered
  BY <1>3, <1>7, <1>8 DEF Unhindered
<1>10. ~(~Expected(f) /\ f.type = "chunk" /\ assembler # None /\ f.rid = assembler.rid)
  BY <1>8 DEF Expected
<1> QED
  BY <1>1, <1>2, <1>9, <1>10

LEMMA HearsKeeps ==
  ASSUME SessionTypes, UNCHANGED hostSide, toPwa # <<>>, toPwa' = Tail(toPwa),
         UNCHANGED <<assembler, before>>, Says(Plain),
         ~(Head(toPwa).type = "chunk" /\ assembler # None /\ Head(toPwa).rid = assembler.rid),
         NEW r, Cover(r),
         Comes(toPwa, parts, scope, r.event) =>
           Comes(toPwa, parts, scope, r.event)' \/ Journaled(r)' \/ Shown(r)',
         Journaled(r) => Journaled(r)', Shown(r) => Shown(r)'
  PROVE  Cover(r)'
<1>1. UNCHANGED <<generation, ended, binding>> /\ Current' = Current
  BY PageSame
<1>2. CASE AtHost(r)
  <2>1. AtHost(r)'
    BY <1>1, <1>2 DEF AtHost
  <2> QED
    BY <2>1 DEF Cover
<1>3. CASE Comes(toPwa, parts, scope, r.event)
  BY <1>3 DEF Cover
<1>4. CASE Fetched(r)
  <2>1. Answered(r) => Answered(r)'
    BY <1>1, <1>4, AnsweredTail DEF Fetched
  <2>2. Asked(r) => Asked(r)'
    BY PageAsks
  <2> QED
    BY <1>4, <2>1, <2>2 DEF Fetched, Cover
<1>5. CASE Journaled(r) \/ Shown(r)
  BY <1>5 DEF Cover
<1>6. CASE LeftOver(r)
  BY <1>1, <1>6 DEF LeftOver, Cover
<1> QED
  BY <1>2, <1>3, <1>4, <1>5, <1>6 DEF Cover

(* A frame that is no event, no part of one and no page.                   *)
LEMMA WordCovers ==
  ASSUME SessionTypes, UNCHANGED hostSide, Hears, Unhindered => Covered, Unhindered',
         NEW f, f = Head(toPwa),
         \/ ~Expected(f)
         \/ f.type \in {"status", "started", "error", "partial"}
  PROVE  Covered'
<1>1. /\ Unhindered /\ Covered /\ UNCHANGED <<phase, scope>> /\ Says(Plain)
      /\ toPwa # <<>> /\ toPwa' = Tail(toPwa)
      /\ ~(~Expected(f) /\ f.type = "chunk" /\ assembler # None /\ f.rid = assembler.rid)
  BY HearsJoined
<1>2. History' = History /\ (\A r : Due(r)' <=> Due(r))
  BY PageSame
<1>3. UNCHANGED <<spoiled, transferVars, events>>
  <2>1. CASE ~Expected(f)
    BY <2>1 DEF Hears, pwaVars, viewVars
  <2>2. CASE Expected(f) /\ f.type \in {"status", "started", "error", "partial"}
    <3>1. /\ UNCHANGED <<spoiled, transferVars>>
          /\ ReceiveStatus(f) \/ ReceiveError(f) \/ ReceivePartial(f)
      BY <2>2 DEF Hears, Take
    <3>2. ASSUME ReceiveStatus(f)
          PROVE  UNCHANGED events
      <4>1. CASE InScope(scope, f)
        <5>1. \E ms : Reconcile(ms, events)
          BY <3>2, <4>1 DEF ReceiveStatus
        <5>2. scope \in Scope
          BY <4>1, ScopeIs
        <5> QED
          BY <5>1, <5>2, ReconcileSays
      <4>2. CASE ~InScope(scope, f)
        BY <3>2, <4>2 DEF ReceiveStatus
      <4> QED
        BY <4>1, <4>2
    <3> QED
      BY <3>1, <3>2 DEF ReceiveError, ReceivePartial
  <2> QED
    BY <2>1, <2>2
<1>4. UNCHANGED <<journal, assembler, parts, before>>
  BY <1>3 DEF transferVars
<1>5. f.type \notin {"event", "fragment"}
      /\ ~(f.type = "chunk" /\ assembler # None /\ f.rid = assembler.rid)
  BY <1>1 DEF Expected
<1>6. ASSUME NEW r, r \in History', Due(r)'
      PROVE  Cover(r)'
  <2>1. Cover(r)
    BY <1>1, <1>2, <1>6 DEF Covered
  <2>2. ASSUME Comes(toPwa, parts, scope, r.event)
        PROVE  Comes(toPwa, parts, scope, r.event)'
    <3>1. PICK q, t, ps, sc, e : q = toPwa /\ t = toPwa' /\ ps = parts /\ sc = scope /\ e = r.event
      OBVIOUS
    <3>2. q \in Seq(ServerFrame) /\ q # <<>> /\ t = Tail(q) /\ Head(q).type \notin {"event", "fragment"}
      BY <1>1, <1>5, <3>1, QueuesTyped
    <3>3. Comes(t, ps, sc, e)
      BY <2>2, <3>1, <3>2, ComesNearer
    <3> QED
      BY <1>1, <1>4, <3>1, <3>3
  <2>3. Journaled(r) => Journaled(r)'
    BY <1>4 DEF Journaled, Loading
  <2>4. Shown(r) => Shown(r)'
    BY <1>3, <1>4 DEF Shown, Loading
  <2> QED
    BY <1>1, <1>4, <1>5, <2>1, <2>2, <2>3, <2>4, HearsKeeps
<1> QED
  BY <1>6 DEF Covered

(* What an event adds, where it is due.                                    *)
Adopts(e) ==
  /\ journal' = journal \cup {e}
  /\ events' = events \cup {x \in {e} : InScope(scope, x)}

LEMMA AdoptedIsKept ==
  ASSUME SessionTypes, UNCHANGED <<assembler, spoiled>>, NEW e, Adopts(e), NEW r
  PROVE  /\ Journaled(r) => Journaled(r)'
         /\ Shown(r) => Shown(r)'
         /\ r.event = e /\ InScope(scope, e) => Journaled(r)' \/ Shown(r)'
  BY DEF Adopts, Journaled, Shown, Loading

(* An event that arrives is shown, or journaled while the page loads.      *)
LEMMA EventCovers ==
  ASSUME SessionTypes, LinkInv, SeatInv, UNCHANGED hostSide, Hears, Unhindered => Covered,
         Unhindered', NEW f, f = Head(toPwa), f.type = "event"
  PROVE  Covered'
<1>1. /\ Unhindered /\ Covered /\ UNCHANGED <<phase, scope>> /\ Says(Plain)
      /\ toPwa # <<>> /\ toPwa' = Tail(toPwa)
  BY HearsJoined
<1>2. History' = History /\ (\A r : Due(r)' <=> Due(r))
  BY PageSame
<1>3. Joined /\ scope # None
  BY <1>1, JoinedIs DEF Unhindered
<1>4. ReceiveEvent(f)
  BY DEF Hears, Expected, Take
<1>5. UNCHANGED <<spoiled, assembler, parts, before>> /\ journal' = journal \cup {f.event}
  BY <1>3, <1>4 DEF ReceiveEvent, Journal
<1>6. /\ InScope(scope, f) => Adopts(f.event)
      /\ ~InScope(scope, f) => UNCHANGED events
  BY <1>3, <1>4, <1>5, CommitShows DEF ReceiveEvent, Adopts
<1>7. ASSUME NEW r, r \in History', Due(r)'
      PROVE  Cover(r)'
  <2>1. Cover(r) /\ InScope(scope, r.event)
    BY <1>1, <1>2, <1>3, <1>7, DueInScope DEF Covered
  <2>2. ASSUME Comes(toPwa, parts, scope, r.event)
        PROVE  Comes(toPwa, parts, scope, r.event)' \/ Journaled(r)' \/ Shown(r)'
    <3>1. PICK q, t, ps, sc, e : q = toPwa /\ t = toPwa' /\ ps = parts /\ sc = scope /\ e = r.event
      OBVIOUS
    <3>2. q \in Seq(ServerFrame) /\ q # <<>> /\ t = Tail(q) /\ Head(q).type = "event"
      BY <1>1, <3>1, QueuesTyped
    <3>3. Comes(t, ps, sc, e) \/ (InScope(sc, Head(q)) /\ Head(q).event = e)
      BY <2>2, <3>1, <3>2, ComesPastEvent
    <3>4. CASE Comes(t, ps, sc, e)
      BY <1>1, <1>5, <3>1, <3>4
    <3>5. CASE InScope(sc, Head(q)) /\ Head(q).event = e
      BY <1>5, <1>6, <2>1, <3>1, <3>5, AdoptedIsKept
    <3> QED
      BY <3>3, <3>4, <3>5
  <2>3. Journaled(r) => Journaled(r)'
    BY <1>5 DEF Journaled, Loading
  <2>4. Shown(r) => Shown(r)'
    BY <1>5, <1>6 DEF Shown, Loading, Adopts
  <2> QED
    BY <1>1, <1>5, <2>1, <2>2, <2>3, <2>4, HearsKeeps
<1> QED
  BY <1>7 DEF Covered

LEMMA FragmentCovers ==
  ASSUME SessionTypes, LinkInv, SeatInv, UNCHANGED hostSide, Hears, Unhindered => Covered,
         Unhindered', NEW f, f = Head(toPwa), f.type = "fragment"
  PROVE  Covered'
<1>1. /\ Unhindered /\ Covered /\ UNCHANGED <<phase, scope>> /\ Says(Plain)
      /\ toPwa # <<>> /\ toPwa' = Tail(toPwa)
  BY HearsJoined
<1>2. History' = History /\ (\A r : Due(r)' <=> Due(r))
  BY PageSame
<1>3. Joined /\ scope # None
  BY <1>1, JoinedIs DEF Unhindered
<1>4. ReceiveFragment(f)
  BY DEF Hears, Expected, Take
<1>5. UNCHANGED <<spoiled, assembler, before>> /\ parts' = PartsAfter(parts, scope, f)
  BY <1>4 DEF ReceiveFragment, PartsAfter, Fits, Finishes
<1>6. PICK x : x = f.part.event
  OBVIOUS
<1>7. /\ Finishes(parts, scope, f) /\ InScope(scope, x) => Adopts(x)
      /\ ~(Finishes(parts, scope, f) /\ InScope(scope, x)) => UNCHANGED <<journal, events>>
  <2>1. IF Finishes(parts, scope, f) /\ InScope(scope, x) THEN Journal(x) /\ Commit({x})
        ELSE UNCHANGED <<journal, idb, events, partials, messages, toHost>>
    BY <1>4, <1>6 DEF ReceiveFragment, Fits, Finishes
  <2> QED
    BY <1>3, <2>1, CommitShows DEF Journal, Adopts
<1>8. ASSUME NEW r, r \in History', Due(r)'
      PROVE  Cover(r)'
  <2>1. Cover(r) /\ InScope(scope, r.event)
    BY <1>1, <1>2, <1>3, <1>8, DueInScope DEF Covered
  <2>2. ASSUME Comes(toPwa, parts, scope, r.event)
        PROVE  Comes(toPwa, parts, scope, r.event)' \/ Journaled(r)' \/ Shown(r)'
    <3>1. PICK q, t, ps, p2, sc, e : /\ q = toPwa /\ t = toPwa' /\ ps = parts /\ p2 = parts'
                                     /\ sc = scope /\ e = r.event
      OBVIOUS
    <3>2. q \in Seq(ServerFrame) /\ q # <<>> /\ t = Tail(q) /\ f = Head(q)
      BY <1>1, <3>1, QueuesTyped
    <3>3. p2 = PartsAfter(ps, sc, f) /\ Comes(q, ps, sc, e)
      BY <1>5, <2>2, <3>1
    <3>4. Comes(t, PartsAfter(ps, sc, f), sc, e) \/ Makes(ps, sc, f, e)
      BY <3>2, <3>3, ComesPastFragment
    <3>5. CASE Comes(t, p2, sc, e)
      BY <1>1, <3>1, <3>5
    <3>6. CASE Makes(ps, sc, f, e)
      BY <1>5, <1>6, <1>7, <2>1, <3>1, <3>6, AdoptedIsKept DEF Makes
    <3> QED
      BY <3>3, <3>4, <3>5, <3>6
  <2>3. Journaled(r) => Journaled(r)'
    BY <1>5, <1>7 DEF Journaled, Loading, Adopts
  <2>4. Shown(r) => Shown(r)'
    BY <1>5, <1>7 DEF Shown, Loading, Adopts
  <2> QED
    BY <1>1, <1>5, <2>1, <2>2, <2>3, <2>4, HearsKeeps
<1> QED
  BY <1>8 DEF Covered

LEMMA ChunkIsLast ==
  ASSUME SessionTypes, RequestInv, toPwa # <<>>, NEW f, f = Head(toPwa), f.type = "chunk",
         assembler # None, f.rid = assembler.rid
  PROVE  /\ \A i \in 1..Len(toHost) : ~(toHost[i].type = "sync" /\ toHost[i].rid = assembler.rid)
         /\ \A c \in assembler.chunks : ~c.final
         /\ f.final => \A i \in 1..Len(toPwa) :
                         toPwa[i].type = "chunk" /\ toPwa[i].rid = assembler.rid => i = 1
<1>1. 1 \in 1..Len(toPwa) /\ f = toPwa[1] /\ Len(toPwa) \in Nat
  BY QueuesTyped, HeadIsFirst
<1>2. \A i \in 1..Len(toHost) : ~(toHost[i].type = "sync" /\ toHost[i].rid = assembler.rid)
  BY <1>1 DEF RequestInv, Requested
<1>3. \A c \in assembler.chunks : ~c.final
  BY <1>1 DEF RequestInv, Gathering
<1>4. ASSUME f.final, NEW i \in 1..Len(toPwa), toPwa[i].type = "chunk", toPwa[i].rid = assembler.rid
      PROVE  i = 1
  <2>1. ~(1 < i)
    BY <1>1, <1>4 DEF RequestInv, Requested
  <2> QED
    BY <1>1, <2>1
<1> QED
  BY <1>2, <1>3, <1>4

LEMMA WholePage ==
  ASSUME NEW chunks, IsComplete(chunks), NEW c \in chunks, NEW e, Bears(c, e)
  PROVE  e \in Assembled(chunks)
<1>1. CASE e \in c.events
  BY <1>1 DEF Assembled, EventsOf
<1>2. CASE \E p \in c.fragments : p.event = e
  <2>1. e \in Begun(chunks)
    BY <1>2 DEF Begun, FragmentsOf
  <2>2. IsWhole(FragmentsOf(chunks), e)
    BY <2>1 DEF IsComplete
  <2> QED
    BY <2>1, <2>2 DEF Assembled
<1> QED
  BY <1>1, <1>2 DEF Bears

(* A page that is there.                                                   *)
LEMMA PageShown ==
  ASSUME SessionTypes, LinkInv, SeatInv, RequestInv, UNCHANGED hostSide, Joined,
         toPwa # <<>>, toPwa' = Tail(toPwa), UNCHANGED scope,
         NEW f, f = Head(toPwa), f.type = "chunk", assembler # None, f.rid = assembler.rid,
         ReceiveChunk(f), NEW chunks, chunks = assembler.chunks \cup {f},
         Accepts(assembler.chunks, f), IsComplete(chunks),
         NEW r \in History, Cover(r)
  PROVE  Cover(r)'
<1>1. UNCHANGED <<generation, ended, binding>> /\ Current' = Current
  BY PageSame
<1>2. PICK page : page = Assembled(chunks)
  OBVIOUS
<1>3. /\ assembler' = None /\ before' = (CHOOSE c \in chunks : c.final).next
      /\ IF assembler.older
         THEN Commit(page) /\ UNCHANGED <<spoiled, journal, idb>>
         ELSE ReplaceHistory(page \cup journal)
      /\ UNCHANGED parts
  BY <1>2 DEF ReceiveChunk
<1>4. InScope(scope, r.event) /\ scope # None
  BY DueInScope, JoinedIs
<1>5. ~Loading'
  BY <1>3 DEF Loading
<1>6. r.event \in page => Shown(r)'
  BY <1>3, <1>4, <1>5, CommitShows DEF Shown
<1>7. CASE AtHost(r)
  <2>1. AtHost(r)'
    BY <1>1, <1>7 DEF AtHost
  <2> QED
    BY <2>1 DEF Cover
<1>8. CASE Comes(toPwa, parts, scope, r.event)
  <2>1. PICK q, t, ps, sc, e : q = toPwa /\ t = toPwa' /\ ps = parts /\ sc = scope /\ e = r.event
    OBVIOUS
  <2>2. q \in Seq(ServerFrame) /\ q # <<>> /\ t = Tail(q) /\ Head(q).type \notin {"event", "fragment"}
    BY <2>1, QueuesTyped
  <2>3. Comes(t, ps, sc, e)
    BY <1>8, <2>1, <2>2, ComesNearer
  <2>4. Comes(toPwa, parts, scope, r.event)'
    BY <1>3, <2>1, <2>3
  <2> QED
    BY <2>4 DEF Cover
<1>9. CASE Fetched(r)
  <2>1. ~Asked(r)
    BY ChunkIsLast DEF Asked, IsFor
  <2>2. PICK last \in chunks : last.final
    BY DEF IsComplete
  <2>3. f \in chunks /\ f.final /\ \A c \in chunks : c.final => c = f
    BY <2>2, ChunkIsLast
  <2>4. before' = f.next
    <3>1. (CHOOSE c \in chunks : c.final) = f
      BY <2>3
    <3> QED
      BY <1>3, <3>1
  <2>5. \E c \in chunks : Brings(binding, c, r)
    <3>1. f = toPwa[1]
      BY QueuesTyped, HeadIsFirst
    <3>2. \A i \in 1..Len(toPwa) :
            toPwa[i].type = "chunk" /\ toPwa[i].rid = assembler.rid => i = 1
      BY <2>3, ChunkIsLast
    <3> QED
      BY <1>9, <2>1, <2>3, <3>1, <3>2 DEF Fetched, Answered
  <2>6. PICK c \in chunks : Brings(binding, c, r)
    BY <2>5
  <2>7. CASE Bears(c, r.event)
    BY <1>2, <1>6, <2>6, <2>7, WholePage DEF Cover
  <2>8. CASE c.final /\ Reaches(binding, c.next, r)
    <3>1. Reaches(binding', before', r)
      BY <1>1, <2>3, <2>4, <2>6, <2>8
    <3>2. LeftOver(r)'
      BY <1>3, <3>1 DEF LeftOver
    <3> QED
      BY <3>2 DEF Cover
  <2> QED
    BY <2>6, <2>7, <2>8 DEF Brings
<1>10. CASE Journaled(r)
  <2>1. ~assembler.older /\ r.event \in journal
    BY <1>10 DEF Journaled, Loading
  <2>2. r.event \in events'
    BY <1>3, <1>4, <2>1, CommitShows
  <2> QED
    BY <1>5, <2>2 DEF Shown, Cover
<1>11. CASE Shown(r)
  <2>1. assembler.older
    BY <1>11 DEF Shown, Loading
  <2>2. events \subseteq events' /\ UNCHANGED spoiled
    BY <1>3, <1>4, <2>1, CommitShows
  <2> QED
    BY <1>5, <1>11, <2>2 DEF Shown, Cover
<1> QED
  BY <1>7, <1>8, <1>9, <1>10, <1>11 DEF Cover, LeftOver

(* A part of a page, more of which is to come.                             *)
LEMMA PageGrows ==
  ASSUME SessionTypes, UNCHANGED hostSide, toPwa # <<>>, toPwa' = Tail(toPwa), UNCHANGED scope,
         NEW f, f = Head(toPwa), f.type = "chunk", assembler # None, f.rid = assembler.rid,
         assembler' = [assembler EXCEPT !.chunks = @ \cup {f}], Says(Plain),
         UNCHANGED <<events, spoiled, journal, before, parts>>,
         NEW r, Cover(r)
  PROVE  Cover(r)'
<1>1. UNCHANGED <<generation, ended, binding>> /\ Current' = Current
  BY PageSame
<1>2. /\ 1 \in 1..Len(toPwa) /\ f = toPwa[1] /\ Len(toPwa') = Len(toPwa) - 1 /\ Len(toPwa) \in Nat
      /\ \A i \in 1..Len(toPwa') : toPwa'[i] = toPwa[i + 1]
  BY QueuesTyped, HeadIsFirst
<1>3. f \in Chunk /\ assembler \in Assembler
  BY <1>2, RidsTyped
<1>4. PICK a, a2, cs : a = assembler /\ a2 = assembler' /\ cs = assembler.chunks \cup {f}
  OBVIOUS
<1>5. /\ a2 # None /\ a2.rid = a.rid /\ a2.older = a.older /\ a2.chunks = cs
  <2>1. a2 = [a EXCEPT !.chunks = cs] /\ cs \in SUBSET Chunk
    BY <1>3, <1>4 DEF Assembler
  <2>2. a2 \in Assembler
    BY <1>3, <1>4, <2>1 DEF Assembler
  <2> QED
    BY <1>3, <1>4, <2>1, <2>2, NoneAssumption DEF Assembler
<1>6. CASE AtHost(r)
  <2>1. AtHost(r)'
    BY <1>1, <1>6 DEF AtHost
  <2> QED
    BY <2>1 DEF Cover
<1>7. CASE Comes(toPwa, parts, scope, r.event)
  <2>1. PICK q, t, ps, sc, e : q = toPwa /\ t = toPwa' /\ ps = parts /\ sc = scope /\ e = r.event
    OBVIOUS
  <2>2. q \in Seq(ServerFrame) /\ q # <<>> /\ t = Tail(q) /\ Head(q).type \notin {"event", "fragment"}
    BY <2>1, QueuesTyped
  <2>3. Comes(t, ps, sc, e)
    BY <1>7, <2>1, <2>2, ComesNearer
  <2>4. Comes(toPwa, parts, scope, r.event)'
    BY <2>1, <2>3
  <2> QED
    BY <2>4 DEF Cover
<1>8. CASE Asked(r)
  <2>1. PICK i \in 1..Len(toHost) : IsFor(a, generation, binding, toHost[i], r)
    BY <1>4, <1>8 DEF Asked
  <2>2. IsFor(a2, generation, binding, toHost[i], r)
    BY <1>5, <2>1 DEF IsFor
  <2>3. PICK new \in Seq(Plain) : toHost' = toHost \o new
    BY DEF Says
  <2>4. new \in Seq(ClientFrame)
    <3>1. Plain \subseteq ClientFrame
      BY DEF Plain
    <3> QED
      BY <2>3, <3>1, SeqMonotonic
  <2>5. i \in 1..Len(toHost') /\ toHost'[i] = toHost[i]
    BY <2>3, <2>4, QueuesTyped, JoinIs
  <2>6. Asked(r)'
    BY <1>1, <1>4, <2>2, <2>5 DEF Asked
  <2> QED
    BY <1>4, <1>5, <2>6 DEF Fetched, Cover
<1>9. CASE Answered(r)
  <2>1. CASE \E c \in a.chunks : Brings(binding, c, r)
    <3>1. \E c \in a2.chunks : Brings(binding, c, r)
      BY <1>4, <1>5, <2>1
    <3>2. Answered(r)'
      BY <1>1, <1>4, <3>1 DEF Answered
    <3> QED
      BY <1>4, <1>5, <3>2 DEF Fetched, Cover
  <2>2. CASE \E i \in 1..Len(toPwa) : /\ toPwa[i].type = "chunk" /\ toPwa[i].rid = a.rid
                                      /\ Brings(binding, toPwa[i], r)
    <3>1. PICK i \in 1..Len(toPwa) : /\ toPwa[i].type = "chunk" /\ toPwa[i].rid = a.rid
                                     /\ Brings(binding, toPwa[i], r)
      BY <2>2
    <3>2. CASE i = 1
      <4>1. f \in a2.chunks /\ Brings(binding, f, r)
        BY <1>2, <1>4, <1>5, <3>1, <3>2
      <4>2. Answered(r)'
        BY <1>1, <1>4, <4>1 DEF Answered
      <4> QED
        BY <1>4, <1>5, <4>2 DEF Fetched, Cover
    <3>3. CASE i # 1
      <4>1. PICK k : k = i - 1
        OBVIOUS
      <4>2. k \in 1..Len(toPwa') /\ k + 1 = i
        BY <1>2, <3>1, <3>3, <4>1
      <4>3. toPwa'[k] = toPwa[i]
        BY <1>2, <4>2
      <4>4. Answered(r)'
        BY <1>1, <1>4, <1>5, <3>1, <4>2, <4>3 DEF Answered
      <4> QED
        BY <1>4, <1>5, <4>4 DEF Fetched, Cover
    <3> QED
      BY <3>2, <3>3
  <2> QED
    BY <1>4, <1>9, <2>1, <2>2 DEF Answered
<1>10. CASE Journaled(r) \/ Shown(r)
  BY <1>4, <1>5, <1>10 DEF Journaled, Shown, Loading, Cover
<1> QED
  BY <1>6, <1>7, <1>8, <1>9, <1>10 DEF Cover, Fetched, LeftOver

(* A page that arrives covers what it brings, and what it leaves to an     *)
(* older one.                                                              *)
LEMMA ChunkCovers ==
  ASSUME SessionTypes, LinkInv, SeatInv, RequestInv, UNCHANGED hostSide, Hears,
         Unhindered => Covered, Unhindered',
         NEW f, f = Head(toPwa), f.type = "chunk", Expected(f)
  PROVE  Covered'
<1>1. /\ Unhindered /\ Covered /\ UNCHANGED <<phase, scope>> /\ Says(Plain)
      /\ toPwa # <<>> /\ toPwa' = Tail(toPwa) /\ Joined
  BY HearsJoined DEF Unhindered
<1>2. History' = History /\ (\A r : Due(r)' <=> Due(r))
  BY PageSame
<1>3. assembler # None /\ f.rid = assembler.rid /\ ReceiveChunk(f) /\ assembler \in Assembler
  BY RidsTyped DEF Hears, Expected, Take
<1>4. PICK chunks : chunks = assembler.chunks \cup {f}
  OBVIOUS
<1>5. ASSUME NEW r, r \in History', Due(r)'
      PROVE  Cover(r)'
  <2>1. Cover(r) /\ r \in History
    BY <1>1, <1>2, <1>5 DEF Covered
  <2>2. CASE ~Accepts(assembler.chunks, f)
    <3>1. assembler' = Discarded(assembler)
      BY <1>3, <2>2 DEF ReceiveChunk
    <3>2. PICK a : a = Discarded(assembler)
      OBVIOUS
    <3>3. a.discarded /\ a \in Assembler
      BY <1>3, <3>2 DEF Discarded, Assembler
    <3>4. a # None
      BY <3>3, NoneAssumption
    <3> QED
      BY <3>1, <3>2, <3>3, <3>4 DEF Unhindered
  <2>3. CASE Accepts(assembler.chunks, f) /\ ~IsComplete(chunks)
    <3>1. /\ assembler' = [assembler EXCEPT !.chunks = @ \cup {f}]
          /\ UNCHANGED <<events, spoiled, journal, before, parts>>
      BY <1>3, <1>4, <2>3 DEF ReceiveChunk
    <3> QED
      BY <1>1, <1>3, <2>1, <3>1, PageGrows
  <2>4. CASE Accepts(assembler.chunks, f) /\ IsComplete(chunks)
    BY <1>1, <1>3, <1>4, <2>1, <2>4, PageShown
  <2> QED
    BY <2>2, <2>3, <2>4
<1> QED
  BY <1>5 DEF Covered

LEMMA HearsCovers ==
  ASSUME SessionTypes, LinkInv, SeatInv, RequestInv, UNCHANGED hostSide, Hears,
         Unhindered => Covered, Unhindered'
  PROVE  Covered'
<1>1. PICK f : f = Head(toPwa)
  OBVIOUS
<1>2. ~Expected(f) \/ (Expected(f) /\ f.type # "ready" /\ Take(f))
  BY <1>1 DEF Hears
<1>3. Take(f) /\ f.type # "ready" =>
        f.type \in {"event", "fragment", "chunk", "status", "started", "error", "partial"}
  BY DEF Take
<1>4. CASE ~Expected(f) \/ f.type \in {"status", "started", "error", "partial"}
  BY <1>1, <1>4, WordCovers
<1>5. CASE f.type = "event"
  BY <1>1, <1>5, EventCovers
<1>6. CASE f.type = "fragment"
  BY <1>1, <1>6, FragmentCovers
<1>7. CASE Expected(f) /\ f.type = "chunk"
  BY <1>1, <1>7, ChunkCovers
<1> QED
  BY <1>2, <1>3, <1>4, <1>5, <1>6, <1>7

LEMMA StutterCovers ==
  ASSUME SessionTypes, UNCHANGED vars, Unhindered => Covered, Unhindered'
  PROVE  Covered'
<1>1. UNCHANGED hostSide /\ UNCHANGED <<toPwa, toHost, phase, scope, events, spoiled, transferVars>>
      /\ UNCHANGED assembler
  BY DEF vars, hostVars, hostSide, netVars, viewVars, linkVars, transferVars
<1>2. Says(Plain)
  BY <1>1, SaysNothing
<1>3. History' = History /\ (\A r : Due(r)' <=> Due(r)) /\ UNCHANGED strayed
  BY <1>1, PageSame
<1>4. Joined'
  BY DEF Unhindered
<1>5. \A i \in 1..Len(toPwa) : ~Upsets(scope, toPwa[i])
  BY <1>1, <1>4 DEF Joined
<1>6. Joined
  BY <1>1, <1>4, <1>5, PageJoined
<1>7. Unhindered
  BY <1>1, <1>3, <1>6 DEF Unhindered
<1>8. ASSUME NEW r, r \in History', Due(r)'
      PROVE  Cover(r)'
  <2>1. Cover(r)
    BY <1>3, <1>7, <1>8 DEF Covered
  <2>2. Shown(r) => Shown(r)'
    BY <1>1 DEF Shown, Loading
  <2> QED
    BY <1>1, <1>2, <2>1, <2>2, SaysCovers
<1> QED
  BY <1>8 DEF Covered

(* The pieces together: no step uncovers an event that is due.             *)
LEMMA NextCover ==
  ASSUME SessionTypes, SessionTypes', AnnouncedInv, LinkInv, SeatInv, RequestInv, CursorInv,
         BranchInv, LiveInv, CoverInv, [Next]_vars
  PROVE  CoverInv'
<1>1. Unhindered => Covered
  BY DEF CoverInv, Covered
<1>2. CASE HostNext /\ UNCHANGED pwaVars
  BY <1>2, HostKeepsCovered
<1>3. ASSUME PageActs, UNCHANGED hostSide, Unhindered'
      PROVE  Covered'
  <2>1. CASE Connect \/ LoseLink \/ StartsAnew
    BY <1>3, <2>1, LeavesOff
  <2>2. CASE Enters
    BY <1>3, <2>2, EntersCovers
  <2>3. CASE Hears
    BY <1>1, <1>3, <2>3, HearsCovers
  <2>4. CASE LoadEarlier
    BY <1>1, <1>3, <2>4, EarlierCovers
  <2>5. CASE RunTransaction
    BY <1>1, <1>3, <2>5, TransactionCovers
  <2>6. CASE \E r \in Requests : SendMessage(r) \/ RetryUnknown(r)
    BY <1>1, <1>3, <2>6, UserCovers
  <2> QED
    BY <1>3, <2>1, <2>2, <2>3, <2>4, <2>5, <2>6 DEF PageActs
<1>4. CASE PageActs /\ UNCHANGED hostSide
  BY <1>3, <1>4 DEF CoverInv, Covered
<1>5. CASE UNCHANGED vars
  <2>1. Unhindered' => Covered'
    BY <1>1, <1>5, StutterCovers
  <2> QED
    BY <2>1 DEF CoverInv, Covered
<1> QED
  BY <1>2, <1>4, <1>5, Steps

LEMMA InitCover ==
  ASSUME Init
  PROVE  CoverInv
  BY DEF Init, CoverInv, Unhindered, Joined

(* The places of records and cursors are numbers.                          *)
LEMMA PlacesNumbered ==
  ASSUME SessionTypes
  PROVE  /\ \A r \in History : r.at \in Nat
         /\ binding # None => \A c \in binding.cursors : c.position \in Nat
<1>1. \A r \in Recovered(Current, branches[Current]) : r \in Place
  <2>1. /\ Current \in Nat /\ branches[Current] \in Seq(Entry) /\ generation \in Nat
    BY SessionNumbers, HostFields DEF SessionTypes, HostTypes, HostTypeOK, SessionTypeOK, Current
  <2> QED
    BY <2>1, RecoveredTyped
<1>2. binding # None => binding \in Service
  BY BindingTyped DEF SessionTypes, Serviceable
<1> QED
  BY <1>1, <1>2 DEF History, Place, Service, Cursor

(* Once everything has arrived, an event that is covered is in the view, or*)
(* a page that goes on after it is left to be asked for.                   *)
LEMMA QuietShows ==
  ASSUME SessionTypes, CoverInv
  PROVE  NothingMissing
<1> SUFFICES ASSUME Quiet, "view" \notin spoiled, ~strayed, NEW r \in History,
                    IsMarked(r), ~CutOff(r),
                    \A c \in binding.cursors : c.id = before => r.at > c.position
             PROVE  r.event \in events
  BY DEF NothingMissing
<1>1. /\ Len(toHost) = 0 /\ Len(toPwa) = 0 /\ Len(ended) = 0
      /\ phase = "online" /\ assembler = None /\ live /\ ~bridge /\ binding # None
      /\ scope = [session |-> Current, gen |-> generation]
  BY DEF Quiet
<1>2. binding.ready = TRUE
  BY <1>1, BindingTyped DEF Quiet, SessionTypes, Serviceable, Service
<1>3. Unhindered
  BY <1>1, <1>2 DEF Unhindered, Joined
<1>4. Cover(r)
  BY <1>3 DEF CoverInv, Due
<1>5. ~AtHost(r)
  BY <1>1 DEF AtHost
<1>6. ~Comes(toPwa, parts, scope, r.event)
  BY <1>1 DEF Comes, Whole, Cut, Half
<1>7. ~Fetched(r) /\ ~Journaled(r)
  BY <1>1 DEF Fetched, Journaled, Loading
<1>8. ~LeftOver(r)
  BY <1>1, PlacesNumbered DEF LeftOver, Reaches
<1>9. Shown(r) => r.event \in events
  BY DEF Shown
<1> QED
  BY <1>4, <1>5, <1>6, <1>7, <1>8, <1>9 DEF Cover

(* Every event of the history that is due is at each moment waiting at the *)
(* host, on its way to the page, being fetched, journaled, shown, or left  *)
(* to an older page; so, once everything has arrived, nothing falls between*)
(* a page, the pages before it and the events published meanwhile          *)
(* (v2_service.ts handleSync and publish, frame-handler.ts).               *)
THEOREM NothingFallsBetween == Spec => []NothingMissing
<1> DEFINE J == /\ LinkInv /\ SeatInv /\ RequestInv /\ CursorInv
                /\ BranchInv /\ LiveInv /\ CoverInv
           I == SessionTypes /\ HistoryInv /\ J
<1>1. Init => I
  BY InitTyped, InitHistory, InitLink, InitSeat, InitRequests, InitCursors, InitBranch,
     InitLive, InitCover
<1>2. I /\ [Next]_vars => I'
  <2> SUFFICES ASSUME I, [Next]_vars
               PROVE  I'
    OBVIOUS
  <2>1. SessionTypes'
    BY NextTyped
  <2>2. HistoryInv' /\ AnnouncedInv
    BY NextHistory DEF HistoryInv
  <2>3. LinkInv' /\ SeatInv'
    BY <2>1, NextLink, NextSeat
  <2>4. RequestInv' /\ CursorInv'
    BY <2>1, NextRequests, NextCursors
  <2>5. BranchInv' /\ LiveInv'
    BY <2>1, NextBranch, NextLive
  <2>6. CoverInv'
    BY <2>1, <2>2, NextCover
  <2> QED
    BY <2>1, <2>2, <2>3, <2>4, <2>5, <2>6
<1>3. I => NothingMissing
  BY QuietShows
<1> QED
  BY <1>1, <1>2, <1>3, PTL DEF Spec

=============================================================================
