------------------------------ MODULE PwaSession ------------------------------
(***************************************************************************)
(* The Owner's side of a session: the part of the PWA that joins it, shows *)
(* its timeline and keeps what is recent in IndexedDB                      *)
(* (pwa/src/components/pwa/pwa-app.tsx, lib/pwa/timeline-runtime.ts,       *)
(* lib/pwa/timeline-transfer.ts, lib/pwa/timeline-store.ts,                *)
(* lib/pwa/server-frame-recovery.ts), against the host of HostSession.     *)
(*                                                                         *)
(* IndexedDB is external: transactions on one table take effect in the     *)
(* order they were opened, each at some later time.                        *)
(***************************************************************************)
EXTENDS HostSession

CONSTANT InFlight   (* bound: the host rests while this many frames are coming *)

ASSUME InFlightAssumption == InFlight \in Nat \ {0}

VARIABLES
  phase,     (* "off": no relay; "hello": session_hello sent; "online"     *)
  hello,     (* helloRequestRef, 0 for none                                *)
  rids,      (* request ids used                                           *)
  scope,     (* TimelineRuntime.scope                                      *)
  events,    (* its events                                                 *)
  partials,  (* its partials                                               *)
  messages,  (* its pending and unknown messages, and the ones before      *)
             (* and after                                                  *)
  journal,   (* realtimeJournalRef                                         *)
  assembler, (* historyAssemblerRef                                        *)
  parts,     (* the fragments in fragmentAssemblerRef                      *)
  before,    (* nextBefore                                                 *)
  store,     (* the timelineEvents table                                   *)
  idb,       (* transactions on it under way                               *)
  spoiled    (* "view": the cached window was read after the host's had   *)
             (* come; "cache": that could not be cached                    *)

viewVars == <<scope, events, partials, messages, spoiled>>
linkVars == <<phase, hello, rids>>
transferVars == <<journal, assembler, parts, before>>
storeVars == <<store, idb>>
vars == <<hostVars, viewVars, linkVars, transferVars, storeVars>>

Scope == [session : Nat, gen : Nat]

Message == [at : {"unsent", "pending", "unknown", "done"}, rid : Nat, mid : Nat]

Assembler == [rid : Nat, older : BOOLEAN, discarded : BOOLEAN, chunks : SUBSET Chunk]

Transaction == [op : {"read", "replace", "commit"}, scope : Scope, events : SUBSET Event]

ViewTypeOK ==
  /\ scope \in Optional(Scope) /\ events \subseteq Event /\ partials \subseteq Partial
  /\ messages \in [Requests -> Message] /\ spoiled \subseteq {"view", "cache"}

LinkTypeOK == phase \in {"off", "hello", "online"} /\ hello \in Nat /\ rids \in Nat

(* null is no value of any of these.                                       *)
ASSUME NoneAssumption == None \notin Scope \cup Assembler \cup PendingMessage

TransferTypeOK ==
  /\ journal \subseteq Event /\ assembler \in Optional(Assembler) /\ parts \subseteq Fragment
  /\ before \in Optional(Nat)

StoreTypeOK == store \subseteq Event /\ idb \in Seq(Transaction)

TypeOK == HostTypeOK /\ ViewTypeOK /\ LinkTypeOK /\ TransferTypeOK /\ StoreTypeOK

Init ==
  /\ HostInit
  /\ phase = "off" /\ hello = 0 /\ rids = 0
  /\ scope = None /\ events = {} /\ partials = {} /\ spoiled = {}
  /\ messages = [r \in Requests |-> [at |-> "unsent", rid |-> 0, mid |-> 0]]
  /\ journal = {} /\ assembler = None /\ parts = {} /\ before = None
  /\ store = {} /\ idb = <<>>

(* Slip: the generation does not count.                                    *)
InSession(sc, x) == sc # None /\ x.session = sc.session

InScope(sc, x) == sc # None /\ x.session = sc.session /\ x.gen = sc.gen

-----------------------------------------------------------------------------
(* The timeline.                                                           *)

Unsettled(m) == m.at \in {"pending", "unknown"}

(* clearTransient(true) on the messages.                                   *)
AllUnknown ==
  [r \in Requests |-> IF messages[r].at = "pending" THEN [messages[r] EXCEPT !.at = "unknown"]
                                                    ELSE messages[r]]

(* Slip: any message of a user settles all.                                *)
SettledByAny(ms, shown) ==
  {r \in Requests : Unsettled(ms[r]) /\ \E e \in shown : e.kind = "user" /\ ~e.legacy}

(* reconcileUserMessage: the messages whose event is among those shown.    *)
Settled(ms, shown) ==
  {r \in Requests : Unsettled(ms[r]) /\ \E e \in shown : e.kind = "user" /\ ~e.legacy
                                                         /\ e.id = ms[r].mid}

(* The messages are ms and the events shown; what is settled by them is    *)
(* reported to the host while there is a channel.                          *)
Reconcile(ms, shown) ==
  LET settled == Settled(ms, shown)
      observed == SetToSeq({[type |-> "observed", req |-> r, rid |-> 0, gen |-> scope.gen] :
                              r \in settled}) IN
  /\ messages' = [r \in Requests |-> IF r \in settled THEN [ms[r] EXCEPT !.at = "done"] ELSE ms[r]]
  /\ events' = shown
  /\ toHost' = IF phase = "off" THEN toHost ELSE toHost \o observed

(* commitParsed: the partials of a group end with its next answer.         *)
PartialsLeft(ps, committed) ==
  {p \in ps : ~\E e \in committed : e.kind = "assistant" /\ e.group = p.group}

(* commit, prependHistory.                                                 *)
Commit(new) ==
  LET mine == {e \in new : InScope(scope, e)} IN
  /\ Reconcile(messages, events \cup mine)
  /\ partials' = PartialsLeft(partials, mine)

(* setScope: another scope empties the timeline.                           *)
SetScope(sc) ==
  /\ scope' = sc
  /\ IF sc = scope THEN UNCHANGED <<events, partials, messages, spoiled>>
     ELSE /\ events' = {} /\ partials' = {} /\ messages' = AllUnknown /\ spoiled' = {}

(* markDisconnected.                                                       *)
MarkDisconnected == partials' = {} /\ messages' = AllUnknown

(* replaceHistory.                                                         *)
ReplaceHistory(new) ==
  LET mine == {e \in new : InScope(scope, e)} IN
  /\ Reconcile(messages, mine)
  /\ partials' = PartialsLeft(partials, mine)

-----------------------------------------------------------------------------
(* Transfers (timeline-transfer.ts).  The assemblers work for the scope    *)
(* they were made for, which is the timeline's as long as they are there;  *)
(* the chunks of one answer have one snapshot head.                        *)

NewAssembler(rid, older) ==
  [rid |-> rid, older |-> older, discarded |-> FALSE, chunks |-> {}]

Discarded(a) == [a EXCEPT !.discarded = TRUE, !.chunks = {}]

SameEvent(a, b) == a.id = b.id /\ a.legacy = b.legacy

(* finishFragment: from the first fragment to the final one, all are there.*)
IsWhole(ps, e) ==
  \E last \in ps : /\ last.event = e /\ last.final
                   /\ \A i \in 0..last.index : \E p \in ps : p.event = e /\ p.index = i

EventsOf(chunks) == UNION {c.events : c \in chunks}

FragmentsOf(chunks) == UNION {c.fragments : c \in chunks}

Begun(chunks) == {p.event : p \in FragmentsOf(chunks)}

(* The events of a window: whole ones, and those made of fragments.        *)
Assembled(chunks) ==
  EventsOf(chunks) \cup {e \in Begun(chunks) : IsWhole(FragmentsOf(chunks), e)}

(* addFragment: what is not there yet, and not beyond the final one.       *)
Extends(there, x) ==
  \A y \in there : /\ y.index # x.index
                   /\ y.final => ~x.final /\ x.index < y.index
                   /\ x.final => y.index < x.index

(* The fragments kept under the identity of an event.                      *)
PartsOf(ps, e) == {p \in ps : SameEvent(p.event, e)}

(* accept: a chunk of another scope, one that does not extend the window,  *)
(* and one with an event that is there already or is of another scope spoil*)
(* the window.                                                             *)
Accepts(chunks, f) ==
  /\ InScope(scope, f)
  /\ Extends(chunks, f)
  /\ \A e \in Assembled(chunks \cup {f}) : InScope(f, e)
  /\ \A e \in f.events :
       ~\E d \in Assembled(chunks) \cup Begun(chunks) : SameEvent(d, e)
  /\ \A p \in f.fragments :
       /\ Extends(PartsOf(FragmentsOf(chunks), p.event) \ {p}, p)
       /\ ~\E d \in Assembled(chunks) \cup f.events : SameEvent(d, p.event)

IsContiguous(chunks, last) == {c.index : c \in chunks} = 0..last

(* Complete: the final chunk and those before it, no event begun only.     *)
IsComplete(chunks) ==
  /\ \E c \in chunks : c.final /\ IsContiguous(chunks, c.index)
  /\ \A e \in Begun(chunks) : IsWhole(FragmentsOf(chunks), e)

-----------------------------------------------------------------------------
(* The cache.                                                              *)

(* Only events with a group are kept.                                      *)
Grouped(es) == {e \in es : e.kind # "system"}

LatestOf(es, g) == Max({e.id : e \in {x \in es : x.group = g}})

(* selectRecentTimelineEvents: the groups with the latest events.          *)
RecentEvents(es) ==
  LET grouped == Grouped(es)
      groups == {e.group : e \in grouped} IN
  {e \in grouped :
     Cardinality({g \in groups : LatestOf(grouped, g) > LatestOf(grouped, e.group)}) < WindowGroups}

(* An event of another scope makes the whole call throw; nothing to keep   *)
(* opens nothing.                                                          *)
Opened(op, es) ==
  IF /\ \A e \in es : InScope(scope, e)
     /\ op = "commit" => Grouped(es) # {}
  THEN Append(idb, [op |-> op, scope |-> scope, events |-> Grouped(es)]) ELSE idb

Conflict(old, new) == \E a \in old, b \in new : SameEvent(a, b) /\ a # b

(* Slip: what was there is not kept.                                       *)
KeptNew(t, mine) == RecentEvents(t.events)

(* replaceRecentWindow and commitRealtime: the records of the scope after  *)
(* the transaction.                                                        *)
Kept(t, mine) ==
  CASE Conflict(mine, t.events) -> {}
    [] ~Conflict(mine, t.events) /\ t.op = "replace" -> RecentEvents(t.events)
    [] OTHER -> RecentEvents(mine \cup t.events)

(* The next transaction takes effect; a read shows what it found, if the   *)
(* scope still is the one it was opened for.                               *)
RunTransaction ==
  /\ idb # <<>>
  /\ idb' = Tail(idb)
  /\ LET t == Head(idb)
         mine == {e \in store : InScope(t.scope, e)} IN
     IF t.op = "read"
     THEN /\ IF t.scope = scope
             THEN /\ ReplaceHistory(RecentEvents(mine))
                  /\ spoiled' = IF assembler = None \/ assembler.older THEN spoiled \cup {"view"} ELSE spoiled
             ELSE UNCHANGED <<events, partials, messages, spoiled, toHost>>
          /\ UNCHANGED store
     ELSE /\ store' = (store \ mine) \cup Kept(t, mine)
          /\ UNCHANGED <<events, partials, messages, spoiled, toHost>>
  /\ UNCHANGED <<sessionVars, piVars, runtimeVars, serviceVars, toPwa, linked, left, scope,
                 linkVars, transferVars>>

-----------------------------------------------------------------------------
(* Joining and leaving.                                                    *)

(* clearSessionConnection, apart from the channel.                         *)
ClearTransfer ==
  /\ journal' = {} /\ assembler' = None /\ parts' = {} /\ before' = None
  /\ MarkDisconnected

(* The session effect: a new channel says hello after what is under way.   *)
SayHello(queue) ==
  /\ phase' = "hello" /\ hello' = rids + 1 /\ rids' = rids + 1
  /\ toHost' = Append(queue, [type |-> "hello", rid |-> rids + 1])

(* clearSessionConnection and the effect after it; the view keeps its      *)
(* events if it keeps its scope.  What comes before the new channel is     *)
(* there finds nobody.                                                     *)
Rejoin(sc, coming) ==
  /\ toPwa' \in Suffixes(coming)
  /\ ClearTransfer /\ SayHello(toHost)
  /\ scope' = sc /\ events' = IF sc = None THEN {} ELSE events
  /\ UNCHANGED <<spoiled, storeVars>>

hostSide == <<sessionVars, piVars, runtimeVars, serviceVars>>

(* The relay connection is open and the endpoint online.                   *)
Connect ==
  /\ phase = "off"
  /\ linked' = TRUE
  /\ SayHello(toHost)
  /\ UNCHANGED <<hostSide, toPwa, left, viewVars, transferVars, storeVars>>

(* The relay connection is lost, with what was coming and some of what was *)
(* going.                                                                  *)
LoseLink ==
  /\ phase # "off" /\ Use("loss")
  /\ linked' = FALSE /\ toPwa' = <<>> /\ toHost' \in Prefixes(toHost)
  /\ phase' = "off" /\ hello' = 0
  /\ ClearTransfer
  /\ UNCHANGED <<hostSide, rids, scope, events, spoiled, storeVars>>

(* retryCurrentSession.                                                    *)
RetryCurrentSession ==
  /\ phase # "off" /\ Use("recover")
  /\ Rejoin(scope, toPwa)
  /\ UNCHANGED <<hostSide, linked>>

-----------------------------------------------------------------------------
(* What the user does.                                                     *)

UserFrame(r) == [type |-> "user", req |-> r, rid |-> rids + 1, gen |-> scope.gen]

Pends(r) ==
  /\ rids' = rids + 1
  /\ messages' = [messages EXCEPT ![r].at = "pending", ![r].rid = rids + 1]
  /\ toHost' = Append(toHost, UserFrame(r))
  /\ UNCHANGED <<hostSide, toPwa, linked, phase, hello, scope, events, partials, spoiled,
                 transferVars, storeVars>>

(* A new message has an id of its own: they are taken in order.            *)
SendMessage(r) ==
  /\ \A q \in Requests : q < r => messages[q].at # "unsent"
  /\ phase = "online" /\ scope # None /\ messages[r].at = "unsent"
  /\ Use("send") /\ Pends(r)

(* The user sends a message of unknown delivery again.                     *)
RetryUnknown(r) ==
  /\ phase # "off" /\ scope # None /\ messages[r].at = "unknown"
  /\ Use("retry") /\ Pends(r)

LoadEarlier ==
  /\ phase = "online" /\ scope # None /\ before # None /\ assembler = None
  /\ Use("older")
  /\ rids' = rids + 1
  /\ assembler' = NewAssembler(rids + 1, TRUE)
  /\ toHost' = Append(toHost, [type |-> "sync", rid |-> rids + 1, gen |-> scope.gen,
                               before |-> before])
  /\ UNCHANGED <<hostSide, toPwa, linked, phase, hello, viewVars, journal, parts, before,
                 storeVars>>

-----------------------------------------------------------------------------
(* What the host sends.                                                    *)

(* session_ready: the scope, its cached window and its history.            *)
EnterScope(f) ==
  LET sc == [session |-> f.session, gen |-> f.gen] IN
  /\ phase' = "online" /\ hello' = 0
  /\ SetScope(sc)
  /\ rids' = rids + 1
  /\ assembler' = NewAssembler(rids + 1, FALSE) /\ parts' = {}
  /\ toHost' = Append(toHost, [type |-> "sync", rid |-> rids + 1, gen |-> f.gen, before |-> None])
  /\ idb' = Append(idb, [op |-> "read", scope |-> sc, events |-> {}])
  /\ UNCHANGED <<journal, before, store>>

(* An event is kept for the window that is on its way, and cached.         *)
Journal(e) ==
  /\ journal' = journal \cup {e}
  /\ idb' = Opened("commit", {e})

(* timeline_event: shown if it is of the scope.                            *)
ReceiveEvent(f) ==
  /\ IF InScope(scope, f) THEN Commit({f.event})
                          ELSE UNCHANGED <<events, partials, messages, toHost>>
  /\ IF scope = None THEN UNCHANGED <<journal, idb>> ELSE Journal(f.event)
  /\ UNCHANGED <<linkVars, scope, spoiled, assembler, parts, before, store>>

(* timeline_event_fragment: a fragment of another scope drops those that   *)
(* are there, one that does not fit those of its event; the last missing   *)
(* one makes the event, if it is of the scope.                             *)
ReceiveFragment(f) ==
  LET e == f.part.event
      fits == Extends(PartsOf(parts, e) \ {f.part}, f.part)
      there == parts \cup {f.part}
      finished == InScope(scope, f) /\ fits /\ IsWhole(there, e) IN
  /\ parts' = CASE scope = None -> parts
                [] scope # None /\ ~InScope(scope, f) -> {}
                [] InScope(scope, f) /\ (finished \/ ~fits) -> parts \ PartsOf(parts, e)
                [] OTHER -> there
  /\ IF finished /\ InScope(scope, e) THEN Journal(e) /\ Commit({e})
     ELSE UNCHANGED <<journal, idb, events, partials, messages, toHost>>
  /\ UNCHANGED <<linkVars, scope, spoiled, assembler, before, store>>

(* session_history_chunk: the window is shown when it is complete.         *)
ReceiveChunk(f) ==
  LET chunks == assembler.chunks \cup {f}
      page == Assembled(chunks) IN
  /\ IF ~Accepts(assembler.chunks, f)
     THEN /\ assembler' = Discarded(assembler)
          /\ UNCHANGED <<events, partials, messages, spoiled, toHost, journal, before, idb>>
     ELSE IF ~IsComplete(chunks)
     THEN /\ assembler' = [assembler EXCEPT !.chunks = chunks]
          /\ UNCHANGED <<events, partials, messages, spoiled, toHost, journal, before, idb>>
     ELSE /\ assembler' = None /\ before' = (CHOOSE c \in chunks : c.final).next
          /\ IF assembler.older
             THEN Commit(page) /\ UNCHANGED <<spoiled, journal, idb>>
             ELSE /\ ReplaceHistory(page \cup journal)
                  /\ idb' = Opened("replace", page \cup journal)
                  /\ journal' = {}
                  /\ spoiled' = IF \A e \in journal : InScope(scope, e) THEN {} ELSE {"cache"}
  /\ UNCHANGED <<linkVars, scope, parts, store>>

(* user_message_status and user_message_started.                           *)
ReceiveStatus(f) ==
  LET named == {r \in Requests : /\ messages[r].at = "pending"
                                 /\ IF f.type = "status" THEN f.req = r
                                                         ELSE f.rid = messages[r].rid}
      known == [r \in Requests |->
                 IF r \notin named THEN messages[r]
                 ELSE [messages[r] EXCEPT !.mid = IF f.mid # 0 THEN f.mid ELSE @,
                                          !.at = IF f.status = "unknown_delivery" THEN "unknown"
                                                                                 ELSE @]] IN
  IF InScope(scope, f)
  THEN Reconcile(known, events) /\ UNCHANGED partials
  ELSE UNCHANGED <<events, partials, messages, toHost>>

(* protocol_error.                                                         *)
ReceiveError(f) ==
  /\ messages' = [r \in Requests |->
        IF messages[r].at = "pending" /\ messages[r].rid = f.rid
        THEN [messages[r] EXCEPT !.at = "unknown"] ELSE messages[r]]
  /\ UNCHANGED <<events, partials, toHost>>

ReceivePartial(f) ==
  /\ partials' = IF InScope(scope, f) THEN partials \cup {[id |-> f.id, group |-> f.group]}
                                      ELSE partials
  /\ UNCHANGED <<events, messages, toHost>>

(* What the handler and the assembler let through.                         *)
Expected(f) ==
  CASE f.type = "ready" -> f.rid = hello
    [] f.type = "reset" -> scope # None /\ scope.session = f.session
    [] f.type = "bye" -> InScope(scope, f)
    [] f.type = "chunk" -> assembler # None /\ f.rid = assembler.rid /\ ~assembler.discarded
    [] OTHER -> TRUE

Take(f) ==
  \/ f.type = "ready" /\ EnterScope(f)
  \/ f.type = "event" /\ ReceiveEvent(f)
  \/ f.type = "fragment" /\ ReceiveFragment(f)
  \/ f.type = "chunk" /\ ReceiveChunk(f)
  \/ /\ \/ f.type \in {"status", "started"} /\ ReceiveStatus(f)
        \/ f.type = "error" /\ ReceiveError(f)
        \/ f.type = "partial" /\ ReceivePartial(f)
     /\ UNCHANGED <<linkVars, scope, spoiled, transferVars, storeVars>>

pwaVars == <<linkVars, viewVars, transferVars, storeVars>>

(* handleServerFrame; a reset, a bye and the end of the endpoint's presence*)
(* start the session anew.                                                 *)
PwaReceives ==
  /\ toPwa # <<>>
  /\ LET f == Head(toPwa) IN
     \/ Expected(f) /\ f.type \in {"reset", "bye"} /\ Rejoin(None, Tail(toPwa))
     \/ f.type = "endpoint" /\ Rejoin(scope, Tail(toPwa))
     \/ Expected(f) /\ Take(f) /\ toPwa' = Tail(toPwa)
     \/ ~Expected(f) /\ toPwa' = Tail(toPwa) /\ UNCHANGED <<pwaVars, toHost>>
  /\ UNCHANGED <<hostSide, linked, left>>

HostNext ==
  \/ StartRun \/ Steer \/ Stream \/ EndMessage \/ EndRun \/ Publish
  \/ \E role \in Roles : Speak(role)
  \/ \E type \in {"custom", "custom_message", "compaction"} : WriteEntry(type)
  \/ TypePrompt \/ ShutdownSession \/ StartSession \/ EndBridge \/ MoveInTree
  \/ ReconnectHost \/ ExpireRecord \/ HostReceives

Next ==
  \/ Len(toPwa) < InFlight /\ HostNext /\ UNCHANGED pwaVars
  \/ Connect \/ LoseLink \/ RetryCurrentSession
  \/ \E r \in Requests : SendMessage(r) \/ RetryUnknown(r)
  \/ LoadEarlier \/ PwaReceives \/ RunTransaction

Spec == Init /\ [][Next]_vars

-----------------------------------------------------------------------------
(* Properties.                                                             *)

(* The Owner is joined to the session the host has now, and nothing is     *)
(* under way.                                                              *)
Quiet ==
  /\ toHost = <<>> /\ toPwa = <<>> /\ idb = <<>> /\ ended = <<>>
  /\ phase = "online" /\ assembler = None
  /\ live /\ ~bridge
  /\ binding # None /\ binding.ready
  /\ scope = [session |-> Current, gen |-> generation]

History == Recovered(Current, branches[Current])

(* The records of a binding keep a message from being given to Pi twice    *)
(* within one generation, whatever is lost and sent again, as long as no   *)
(* record is dropped in between (v2_service.ts handleUserMessage).         *)
ExecutedOncePerBinding ==
  \A r \in Requests : \A i, j \in DOMAIN called[r] : i # j => called[r][i] # called[r][j]

(* What the PWA shows of the host's present generation is what the branch  *)
(* yields when it is read again: an event published while it happened, one *)
(* from a page and one from the cache are the same event.                  *)
ViewIsHistory ==
  scope = [session |-> Current, gen |-> generation] => events \subseteq {r.event : r \in History}

(* A record of a marker's message.                                         *)
IsMarked(r) == ~r.event.legacy /\ r.event.kind # "system"

(* Between r and an earlier message of its run lies one no marker announces*)
(* any more, of the group those form: another entry came between it and its*)
(* marker (runtime.ts:259).                                                *)
CutOff(r) ==
  /\ IsMarked(r)
  /\ \E x, y \in History : /\ x.event.legacy /\ IsMarked(y) /\ y.event.group = r.event.group
                           /\ y.at < x.at /\ x.at < r.at

(* When everything has arrived, the PWA shows every message since the place*)
(* where its oldest page begins, except those from before the markers and  *)
(* those cut off from the beginning of their run, which no page takes when *)
(* it begins between (history.ts:273), and unless a late read of the cache *)
(* replaced the window or a late request took the runtime back to an old   *)
(* session: nothing falls between a page, the pages before it and the      *)
(* events published meanwhile.                                             *)
NothingMissing ==
  (Quiet /\ "view" \notin spoiled /\ ~strayed) =>
    \A r \in History :
      (/\ IsMarked(r) /\ ~CutOff(r)
       /\ \A c \in binding.cursors : c.id = before => r.at > c.position)
         => r.event \in events

(* The records of one generation keep a message from being given to Pi     *)
(* twice, as docs/plans/completed/20260823-pwa-message-duplication.md:231  *)
(* has it: but they live in the binding (index.ts:321), and a host that    *)
(* reconnects makes a new one.                                             *)
GivenOncePerGeneration ==
  \A r \in Requests : \A i, j \in DOMAIN called[r] :
    i # j => \/ called[r][i].gen # called[r][j].gen
             \/ called[r][i].lapsed # called[r][j].lapsed

(* A message that left the list of undelivered ones was given to Pi.       *)
SettledWasGiven == \A r \in Requests : messages[r].at = "done" => called[r] # <<>>

(* When everything has arrived, the cache has the latest groups shown,     *)
(* unless an event of the scope before was still in the journal when the   *)
(* window came: replaceRecentWindow throws then, and the cache stays behind*)
(* (pwa-app.tsx:350); or a run is cut in two: an older page may then bring  *)
(* the beginning of a run of which the cache has the rest.                 *)
CacheFollows ==
  (Quiet /\ spoiled = {} /\ \A r \in History : ~CutOff(r)) =>
    RecentEvents(events) \subseteq store

=============================================================================
