----------------------------- MODULE HostSession -----------------------------
(***************************************************************************)
(* What a paired Owner talks to behind his binding: the timeline of the Pi *)
(* session (pi-extension/src/timeline/runtime.ts), its history pages       *)
(* (timeline/history.ts), the per-Owner service with its idempotency       *)
(* records (timeline/v2_service.ts, protocol/v2/session_state.ts) and      *)
(* their wiring to Pi's events (index.ts).  One Owner; PwaSession has his  *)
(* side and closes the system.                                             *)
(*                                                                         *)
(* Pi is external.  It runs one agent at a time; a message is announced,   *)
(* may stream, and its entry is on the branch when the setImmediate of its *)
(* end runs.  A message it consumes while a run is under way is announced  *)
(* in the async context of that run, not of its sender                     *)
(* (timeline/sdk_contract.test.ts:845).                                    *)
(***************************************************************************)
EXTENDS Naturals, FiniteSets, Sequences, SequencesExt

CONSTANTS
  Requests,      (* client_request_ids the Owner may use, in their order   *)
  WindowGroups,  (* MAX_GROUPS_PER_PAGE, and the PWA's MAX_RECENT_GROUPS   *)
  MaxRecords,    (* maxEntries of V2SessionState                           *)
  FirstBranch,   (* entries of the session from before this process        *)
  None,
  Bounds         (* bounds, one is taken: how often each kind of step happens *)

(* Prompts typed at the host, messages of Pi, entries of other extensions, *)
(* messages that never end, partials, session switches, moves in the       *)
(* session tree, prompts Pi refuses, records that expire, losses of a      *)
(* connection, pages and events too large for a frame; messages sent and   *)
(* sent again, older pages and recoveries asked for by the user.           *)
Kinds == {"prompt", "message", "entry", "abort", "partial", "switch", "tree",
          "fault", "expire", "loss", "cut", "send", "retry", "older", "recover"}

ASSUME HostSessionAssumption ==
  /\ {WindowGroups, MaxRecords} \subseteq Nat \ {0}
  /\ Bounds \subseteq [Kinds -> Nat]
  /\ Requests \subseteq Nat /\ IsFiniteSet(Requests) /\ None \notin Nat

VARIABLES
  branches,   (* the branch of every session so far; the last is current   *)
  live,       (* currentSessionManager is set                              *)
  replaced,   (* replacedSessionId is set                                  *)
  bridge,     (* sessionNewBridge.isRunning()                              *)
  generation, (* timelineGeneration                                        *)
  sdk,        (* Pi: the run, its async context and its current message    *)
  inbox,      (* user messages handed to Pi and not announced yet          *)
  rt,         (* TimelineRuntime                                           *)
  ended,      (* its setImmediate callbacks                                *)
  strayed,    (* a page was asked of a session that is over, while the     *)
              (* runtime was on the next one                               *)
  binding,    (* the Owner's binding and the TimelineV2Service in it       *)
  bound,      (* bindings made so far                                      *)
  called,     (* for each request, the SDK calls made for it               *)
  lapsed,     (* records dropped by age or number                          *)
  minted,     (* event and entry ids given out                             *)
  toHost, toPwa, (* frames under way through the relay                     *)
  linked,     (* the Owner is connected to the relay                       *)
  left        (* what is left of the bounds                                *)

sessionVars == <<branches, live, replaced, bridge, generation, minted>>
piVars == <<sdk, inbox>>
runtimeVars == <<rt, ended, strayed>>
serviceVars == <<binding, bound, called, lapsed>>
netVars == <<toHost, toPwa, linked>>
hostVars == <<sessionVars, piVars, runtimeVars, serviceVars, netVars, left>>

Optional(S) == S \cup {None}
Roles == {"user", "assistant", "toolResult"}

(* A marker and the message it announces share a number.                   *)
Entry ==
  [type : {"marker", "message"}, id : Nat \ {0}, role : Roles, group : Nat]
    \cup [type : {"custom", "custom_message", "compaction"}, id : Nat \ {0}, role : {None},
          group : Nat]

(* Numbers stand for fresh ids: none of the session's is minted again.  A  *)
(* marker's id is its own, and the markers of a run, which share a group,  *)
(* come one after another.                                                 *)
ASSUME FirstBranchAssumption ==
  LET b == FirstBranch
      markers == {i \in DOMAIN b : b[i].type = "marker"} IN
  /\ b \in Seq(Entry)
  /\ \A i \in DOMAIN b : b[i].id <= Len(b)
  /\ \A i \in markers : b[i].group \in 1..Len(b)
  /\ \A i, j \in markers : b[i].id = b[j].id => i = j
  /\ \A i, k, j \in markers : i < k /\ k < j /\ b[i].group = b[j].group => b[k].group = b[i].group

Event == [id : Nat \ {0}, legacy : BOOLEAN, kind : Roles \cup {"system"}, group : Nat,
          session : Nat, gen : Nat]

(* What is decoded from a fragment is a part of its event.                 *)
Fragment == [event : Event, index : Nat, final : BOOLEAN]

Correlation == [req : Requests, rid : Nat]

PendingMessage ==
  [id : Nat \ {0}, role : Roles, group : Nat, corr : Optional(Correlation), session : Nat]

Runtime == [attached : Nat, active : BOOLEAN, group : Nat,
            pending : Optional(PendingMessage), published : SUBSET Nat]

Record == [req : Requests, mid : Nat,
           status : {"received", "accepted", "committed", "unknown_delivery"}]

Cursor == [id : Nat, prefix : Seq(Entry), position : Nat, used : BOOLEAN]

Service == [no : Nat, session : Nat, gen : Nat, ready : BOOLEAN,
            records : Seq(Record), cursors : SUBSET Cursor]

Call == [binding : Nat, gen : Nat, lapsed : Nat]

Partial == [id : Nat, group : Nat]

(* A part of a page, and the last tells where the older events begin.      *)
Chunk == [type : {"chunk"}, session : Nat, gen : Nat, rid : Nat, index : Nat,
          events : SUBSET Event, fragments : SUBSET Fragment, final : BOOLEAN,
          next : Optional(Nat)]

(* What the Owner sends; 0 stands for an id that is not looked at.         *)
ClientFrame ==
  [type : {"hello"}, rid : Nat]
    \cup [type : {"user", "observed"}, req : Requests, rid : Nat, gen : Nat]
    \cup [type : {"sync"}, rid : Nat, gen : Nat, before : Optional(Nat)]

(* What the host sends, and the relay's word that its endpoint came back.  *)
ServerFrame ==
  [type : {"ready"}, session : Nat, gen : Nat, rid : Nat]
    \cup [type : {"status"}, session : Nat, gen : Nat, req : Requests, mid : Nat,
          status : {"received", "accepted", "committed", "unknown_delivery"}]
    \cup [type : {"started"}, session : Nat, gen : Nat, rid : Nat, mid : Nat,
          status : {"accepted"}]
    \cup [type : {"event"}, session : Nat, gen : Nat, event : Event]
    \cup [type : {"fragment"}, session : Nat, gen : Nat, part : Fragment]
    \cup [type : {"partial"}, session : Nat, gen : Nat, id : Nat, group : Nat]
    \cup [type : {"reset", "bye"}, session : Nat, gen : Nat]
    \cup [type : {"error"}, rid : Nat] \cup [type : {"endpoint"}] \cup Chunk

SessionTypeOK ==
  /\ branches \in Seq(Seq(Entry)) /\ branches # <<>>
  /\ live \in BOOLEAN /\ replaced \in BOOLEAN /\ bridge \in BOOLEAN
  /\ generation \in Nat /\ minted \in Nat

PiTypeOK ==
  /\ sdk \in [running : BOOLEAN, corr : Optional(Correlation),
              msg : Optional([id : Nat \ {0}, role : Roles])]
  /\ inbox \in Seq(Optional(Correlation))

RuntimeTypeOK == rt \in Runtime /\ ended \in Seq(PendingMessage) /\ strayed \in BOOLEAN

ServiceTypeOK ==
  /\ binding \in Optional(Service)
  /\ binding # None => Len(binding.records) <= MaxRecords
  /\ bound \in Nat /\ called \in [Requests -> Seq(Call)] /\ lapsed \in Nat

NetTypeOK == toHost \in Seq(ClientFrame) /\ toPwa \in Seq(ServerFrame) /\ linked \in BOOLEAN

HostTypeOK ==
  /\ SessionTypeOK /\ PiTypeOK /\ RuntimeTypeOK /\ ServiceTypeOK /\ NetTypeOK
  /\ left \in [Kinds -> Nat]

Current == Len(branches)

(* Group 0: none.  The Owner is paired; the runtime is up.                 *)
Reset(session) ==
  [attached |-> session, active |-> FALSE, group |-> 0, pending |-> None, published |-> {}]

HostInit ==
  /\ branches = <<FirstBranch>> /\ live = TRUE /\ replaced = FALSE /\ bridge = FALSE
  /\ generation = 1 /\ minted = Len(FirstBranch)
  /\ sdk = [running |-> FALSE, corr |-> None, msg |-> None] /\ inbox = <<>>
  /\ rt = Reset(1) /\ ended = <<>> /\ strayed = FALSE
  /\ binding = None /\ bound = 0 /\ called = [r \in Requests |-> <<>>] /\ lapsed = 0
  /\ toHost = <<>> /\ toPwa = <<>> /\ linked = FALSE
  /\ left \in Bounds

Use(kind) ==
  /\ left[kind] > 0
  /\ left' = [left EXCEPT ![kind] = @ - 1]

(* What goes out in several frames is one of few that are that large.      *)
Cuts(frames) == IF Len(frames) > 1 THEN Use("cut") ELSE UNCHANGED left

(* A frame reaches the Owner only while he is connected.                   *)
Post(frames) == toPwa' = IF linked THEN toPwa \o frames ELSE toPwa

-----------------------------------------------------------------------------
(* Recovering the events of a branch.                                      *)

(* Slip: a marker is matched with the next message whatever lies between.  *)
TargetAnywhere(b, i, role) ==
  LET found == {j \in i+1..Len(b) : b[j].type = "message" /\ b[j].role = role} IN
  IF found = {} THEN 0 ELSE CHOOSE j \in found : \A k \in found : j <= k

(* scanTargetAfterMarker: metadata is skipped, anything else ends the scan.*)
Target(b, i, role) ==
  LET next == SelectInSubSeq(b, i + 1, Len(b), LAMBDA e : e.type # "custom") IN
  IF next # 0 /\ b[next].type = "message" /\ b[next].role = role THEN next ELSE 0

MarkerOf(b, id) == SelectInSeq(b, LAMBDA e : e.type = "marker" /\ e.id = id)

ToEvent(session, id, legacy, kind, group) ==
  [id |-> id, legacy |-> legacy, kind |-> kind, group |-> group, session |-> session,
   gen |-> generation]

(* What recover finds on a branch, each event with its place.  The messages*)
(* no marker announces form one group of their own.                        *)
Recovered(session, b) ==
  LET marked == {i \in DOMAIN b : b[i].type = "marker" /\ Target(b, i, b[i].role) # 0}
      matched == {Target(b, i, b[i].role) : i \in marked} IN
  {[at |-> i, event |-> ToEvent(session, b[i].id, FALSE, b[i].role, b[i].group)] : i \in marked}
    \cup {[at |-> i, event |-> ToEvent(session, b[i].id, TRUE, b[i].role, 0)]
            : i \in {j \in DOMAIN b \ matched : b[j].type = "message"}}
    \cup {[at |-> i, event |-> ToEvent(session, b[i].id, FALSE, "system", 0)]
            : i \in {j \in DOMAIN b : b[j].type \in {"custom", "compaction"}}}

(* The fragments of an event; an event too large is cut in two here.       *)
Fragments(event) == [i \in 1..2 |-> [event |-> event, index |-> i - 1, final |-> i = 2]]

(* publishFrames: the frames an event may go out in.                       *)
PublishFrames(b, event) ==
  {<<[type |-> "event", session |-> b.session, gen |-> b.gen, event |-> event]>>,
   [i \in 1..2 |-> [type |-> "fragment", session |-> b.session, gen |-> b.gen,
                    part |-> Fragments(event)[i]]]}

-----------------------------------------------------------------------------
(* The idempotency records, the last touched last.                         *)

Recorded(records, r) == SelectInSeq(records, LAMBDA rec : rec.req = r)

Without(records, r) ==
  LET i == Recorded(records, r) IN IF i = 0 THEN records ELSE RemoveAt(records, i)

Touched(records, r, status, mid) ==
  Append(Without(records, r), [req |-> r, status |-> status, mid |-> mid])

Pruned(records) == IF Len(records) > MaxRecords THEN Tail(records) ELSE records

StatusFrame(b, r, status, mid) ==
  [type |-> "status", session |-> b.session, gen |-> b.gen, req |-> r, status |-> status,
   mid |-> mid]

(* service.started or service.commit for an event with correlation corr:   *)
(* the record takes the event's id, and the Owner is told.                 *)
Confirm(corr, status, mid, before, after) ==
  IF binding = None \/ corr = None \/ Recorded(binding.records, corr.req) = 0
  THEN /\ UNCHANGED binding
       /\ Post(before)
  ELSE /\ binding' = [binding EXCEPT !.records = Touched(@, corr.req, status, mid)]
       /\ Post(before \o <<StatusFrame(binding, corr.req, status, mid)>> \o after)

-----------------------------------------------------------------------------
(* Pi's events.                                                            *)

Attached(r, session) == IF r.attached = session THEN r ELSE Reset(session)

AppendEntry(entry) == branches' = [branches EXCEPT ![Current] = Append(@, entry)]

(* onMessageStart in the runtime state before.                             *)
OnMessageStart(role, corr, before) ==
  LET r == Attached(before, Current)
      e == minted + 1
      g == IF r.active /\ r.group # 0 THEN r.group ELSE e
      started == IF corr = None \/ binding = None THEN <<>>
                 ELSE <<[type |-> "started", session |-> binding.session, gen |-> binding.gen,
                         rid |-> corr.rid, status |-> "accepted", mid |-> e]>> IN
  /\ AppendEntry([type |-> "marker", id |-> e, role |-> role, group |-> g])
  /\ rt' = [r EXCEPT !.active = TRUE, !.group = g,
              !.pending = [id |-> e, role |-> role, group |-> g, corr |-> corr,
                           session |-> Current]]
  /\ sdk' = [running |-> TRUE, corr |-> corr, msg |-> [id |-> e, role |-> role]]
  /\ minted' = e
  /\ Confirm(corr, "accepted", e, <<>>, started)
  /\ UNCHANGED <<live, replaced, bridge, generation, ended, strayed, bound, called, lapsed,
                 toHost, linked>>

(* A message wakes an idle agent: agent_start and its message_start.  Two  *)
(* messages sent while it was idle may start in either order.              *)
StartRun ==
  /\ live /\ ~sdk.running
  /\ Use("message")
  /\ \E i \in DOMAIN inbox :
       /\ inbox' = RemoveAt(inbox, i)
       /\ OnMessageStart("user", inbox[i], [rt EXCEPT !.active = TRUE, !.group = 0])

(* A running agent takes the next message it was steered with.             *)
Steer ==
  /\ sdk.running /\ sdk.msg = None /\ inbox # <<>>
  /\ Use("message")
  /\ inbox' = Tail(inbox)
  /\ OnMessageStart("user", sdk.corr, rt)

(* The agent answers or reports a tool's result.                           *)
Speak(role) ==
  /\ sdk.running /\ sdk.msg = None /\ role # "user"
  /\ Use("message")
  /\ OnMessageStart(role, sdk.corr, rt)
  /\ UNCHANGED inbox

(* onMessageUpdate, publishPartial and service.partial.                    *)
Stream ==
  /\ sdk.msg # None /\ rt.pending # None /\ rt.attached = Current
  /\ rt.pending.role = "assistant"
  /\ Use("partial")
  /\ IF binding # None /\ binding.session = Current /\ binding.gen = generation
     THEN Post(<<[type |-> "partial", session |-> Current, gen |-> generation,
                  id |-> rt.pending.id, group |-> rt.pending.group]>>)
     ELSE UNCHANGED toPwa
  /\ UNCHANGED <<sessionVars, piVars, runtimeVars, serviceVars, toHost, linked>>

(* message_end: Pi appends the entry, the runtime waits a macrotask.       *)
EndMessage ==
  /\ sdk.msg # None
  /\ LET r == Attached(rt, Current) IN
     /\ rt' = [r EXCEPT !.pending = None]
     /\ ended' = IF r.pending = None THEN ended ELSE Append(ended, r.pending)
  /\ AppendEntry([type |-> "message", id |-> sdk.msg.id, role |-> sdk.msg.role, group |-> 0])
  /\ sdk' = [sdk EXCEPT !.msg = None]
  /\ UNCHANGED <<live, replaced, bridge, generation, minted, inbox, strayed, serviceVars, netVars,
                 left>>

(* agent_end; a message still under way has no end and no entry.           *)
EndRun ==
  /\ sdk.running
  /\ IF sdk.msg = None THEN UNCHANGED left ELSE Use("abort")
  /\ sdk' = [running |-> FALSE, corr |-> None, msg |-> None]
  /\ rt' = [rt EXCEPT !.active = FALSE, !.group = 0, !.pending = None]
  /\ UNCHANGED <<sessionVars, inbox, ended, strayed, serviceVars, netVars>>

(* The setImmediate of onMessageEnd: the event is published if its entry   *)
(* is found, to the Owner in his service's session and generation.         *)
Publish ==
  /\ ended # <<>>
  /\ ended' = Tail(ended)
  /\ LET p == Head(ended)
         b == branches[p.session]
         i == MarkerOf(b, p.id)
         event == ToEvent(p.session, p.id, FALSE, p.role, p.group) IN
     IF i = 0 \/ Target(b, i, p.role) = 0 \/ p.id \in rt.published
     THEN UNCHANGED <<rt, binding, toPwa, left>>
     ELSE /\ rt' = [rt EXCEPT !.published = @ \cup {p.id}]
          /\ \E frames \in IF binding = None THEN {<<>>} ELSE PublishFrames(binding, event) :
               Cuts(frames) /\ Confirm(p.corr, "committed", p.id, frames, <<>>)
  /\ UNCHANGED <<sessionVars, piVars, strayed, bound, called, lapsed, toHost, linked>>

(* Another extension or Pi itself writes to the session.                   *)
WriteEntry(type) ==
  /\ live /\ Use("entry")
  /\ AppendEntry([type |-> type, id |-> minted + 1, role |-> None, group |-> 0])
  /\ minted' = minted + 1
  /\ UNCHANGED <<live, replaced, bridge, generation, piVars, runtimeVars, serviceVars, netVars>>

TypePrompt ==
  /\ live /\ Use("prompt")
  /\ inbox' = Append(inbox, None)
  /\ UNCHANGED <<sessionVars, sdk, runtimeVars, serviceVars, netVars>>

-----------------------------------------------------------------------------
(* Session replacement, the session tree, the host's connection.           *)

(* finishSessionReplacement, with what StartSession or the bridge did.     *)
FinishSessionReplacement(session) ==
  /\ replaced' = FALSE
  /\ binding' = IF replaced THEN None ELSE binding
  /\ IF replaced /\ binding # None
     THEN Post(<<[type |-> "bye", session |-> session, gen |-> binding.gen]>>)
     ELSE UNCHANGED toPwa

(* session_shutdown, for /new at the host or through the bridge.  What Pi  *)
(* has not consumed is dropped or left to the next session.                *)
ShutdownSession ==
  /\ live /\ ~sdk.running /\ ~bridge /\ Use("switch")
  /\ live' = FALSE /\ replaced' = TRUE
  /\ bridge' \in BOOLEAN
  /\ inbox' \in {inbox, <<>>}
  /\ UNCHANGED <<branches, generation, minted, sdk, runtimeVars, serviceVars, netVars>>

(* session_start: the bridge announces the replacement when it is done.    *)
StartSession ==
  /\ ~live
  /\ live' = TRUE
  /\ branches' = Append(branches, <<>>)
  /\ generation' = generation + 1
  /\ rt' = Reset(Current + 1)
  /\ IF bridge THEN UNCHANGED <<replaced, binding, toPwa>>
               ELSE FinishSessionReplacement(Current)
  /\ UNCHANGED <<bridge, minted, piVars, ended, strayed, bound, called, lapsed, toHost, linked, left>>

EndBridge ==
  /\ bridge /\ live
  /\ bridge' = FALSE
  /\ FinishSessionReplacement(Current - 1)
  /\ UNCHANGED <<branches, live, generation, minted, piVars, runtimeVars, bound, called, lapsed,
                 toHost, linked, left>>

(* session_tree: the branch is cut and the generation changes.             *)
MoveInTree ==
  /\ live /\ ~sdk.running /\ Use("tree")
  /\ \E b \in Prefixes(branches[Current]) \ {branches[Current]} :
       branches' = [branches EXCEPT ![Current] = b]
  /\ generation' = generation + 1
  /\ IF binding = None THEN UNCHANGED <<binding, toPwa>>
     ELSE /\ binding' = [binding EXCEPT !.gen = generation + 1, !.records = <<>>]
          /\ IF binding.ready
             THEN Post(<<[type |-> "reset", session |-> binding.session, gen |-> generation + 1]>>)
             ELSE UNCHANGED toPwa
  /\ UNCHANGED <<live, replaced, bridge, minted, piVars, runtimeVars, bound, called, lapsed,
                 toHost, linked>>

(* The relay connection is lost and made again: every Owner is detached,   *)
(* and some frames are lost.  The Owner sees the endpoint end and come back*)
(* unless the new connection took the old one's place at the relay.        *)
ReconnectHost ==
  /\ Use("loss")
  /\ binding' = None
  /\ toHost' \in Suffixes(toHost)
  /\ \E kept \in Prefixes(toPwa), seen \in BOOLEAN :
       toPwa' = IF linked /\ seen THEN Append(kept, [type |-> "endpoint"]) ELSE kept
  /\ UNCHANGED <<sessionVars, piVars, runtimeVars, bound, called, lapsed, linked>>

(* prune: the record touched longest ago is too old.                       *)
ExpireRecord ==
  /\ binding # None /\ binding.records # <<>> /\ Use("expire")
  /\ binding' = [binding EXCEPT !.records = Tail(@)]
  /\ lapsed' = lapsed + 1
  /\ UNCHANGED <<sessionVars, piVars, runtimeVars, bound, called, netVars>>

-----------------------------------------------------------------------------
(* History pages.                                                          *)

(* snapshotInvalidReason, of a service whose session and generation stand. *)
SnapshotValid(c, b) == IsPrefix(c.prefix, b)

GroupsOf(records) == {r.event.group : r \in {x \in records : x.event.kind # "system"}}

FirstPlace(records, g) ==
  Min({r.at : r \in {x \in records : x.event.kind # "system" /\ x.event.group = g}})

(* Slip: the window starts with the oldest groups.                         *)
ChosenOldest(records) ==
  {g \in GroupsOf(records) :
     Cardinality({h \in GroupsOf(records) : FirstPlace(records, h) < FirstPlace(records, g)})
       < WindowGroups}

(* The last groups of a window, by where they begin.                       *)
Chosen(records) ==
  {g \in GroupsOf(records) :
     Cardinality({h \in GroupsOf(records) : FirstPlace(records, h) > FirstPlace(records, g)})
       < WindowGroups}

(* selectWindow: those groups with the system events since they began, or  *)
(* the system events that are left.                                        *)
SelectWindow(records) ==
  LET systems == {r \in records : r.event.kind = "system"}
      start == Min({FirstPlace(records, g) : g \in Chosen(records)}) IN
  IF records = {} THEN [records |-> {}, start |-> 1]
  ELSE IF Chosen(records) = {} THEN [records |-> systems, start |-> Min({r.at : r \in systems})]
  ELSE [records |-> {r \in records : IF r.event.kind = "system" THEN r.at >= start
                                     ELSE r.event.group \in Chosen(records)},
        start |-> start]

(* fragmentWindow: what the chunks of a page may carry.  A page too large  *)
(* for one chunk is cut between two of its events, or within an event too  *)
(* large for a chunk, whose fragments go in chunks of their own; two chunks*)
(* at most here.                                                           *)
Payloads(records) ==
  LET before(r) == {x.event : x \in {y \in records : y.at < r.at}}
      after(r) == {x.event : x \in {y \in records : y.at > r.at}}
      payload(events, fragments) == [events |-> events, fragments |-> fragments] IN
  {<<payload({r.event : r \in records}, {})>>}
    \cup {<<payload(before(r), {}), payload({r.event} \cup after(r), {})>> :
             r \in {x \in records : before(x) # {}}}
    \cup {<<payload(before(r), {Fragments(r.event)[1]}),
            payload(after(r), {Fragments(r.event)[2]})>> : r \in records}

(* makeChunk: the last chunk tells where the older events begin.           *)
Chunks(b, rid, payloads, next) ==
  [i \in DOMAIN payloads |->
     LET final == i = Len(payloads) IN
     [type |-> "chunk", session |-> b.session, gen |-> b.gen, rid |-> rid, index |-> i - 1,
      events |-> payloads[i].events, fragments |-> payloads[i].fragments,
      final |-> final, next |-> IF final THEN next ELSE None]]

(* page: the answer to request rid, and a cursor for what is older.        *)
Page(b, rid, prefix, position) ==
  LET records == {r \in Recovered(b.session, prefix) : r.at <= position}
      window == SelectWindow(records)
      older == \E r \in records : r.at < window.start
      cursor == [id |-> Cardinality(b.cursors) + 1, prefix |-> prefix,
                 position |-> window.start - 1, used |-> FALSE] IN
  /\ binding' = [b EXCEPT !.cursors = IF older THEN @ \cup {cursor} ELSE @]
  /\ \E payloads \in Payloads(window.records) :
       /\ Cuts(payloads)
       /\ Post(Chunks(b, rid, payloads, IF older THEN cursor.id ELSE None))

ResetFrame(b) == [type |-> "reset", session |-> b.session, gen |-> b.gen]

(* ensureTimeline: a new binding puts the runtime on the current session.  *)
EnsureTimeline == IF binding = None THEN Attached(rt, Current) ELSE rt

(* recover attaches the runtime to the session it reads.                   *)
AttachTo(session) ==
  /\ rt' = Attached(rt, session)
  /\ strayed' = (strayed \/ session # Current)

(* sync: from the head, or from a cursor, which serves once.               *)
Sync(b, f) ==
  LET branch == branches[b.session]
      known == {c \in b.cursors : c.id = f.before}
      c == CHOOSE x \in known : TRUE
      spent == [b EXCEPT !.cursors = (@ \ known) \cup {[x EXCEPT !.used = TRUE] : x \in known}] IN
  IF f.before = None
  THEN Page(b, f.rid, branch, Len(branch)) /\ AttachTo(b.session)
  ELSE IF known = {} \/ c.used \/ ~SnapshotValid(c, branch)
  THEN binding' = spent /\ Post(<<ResetFrame(b)>>) /\ UNCHANGED <<rt, strayed, left>>
  ELSE Page(spent, f.rid, c.prefix, c.position) /\ AttachTo(b.session)

-----------------------------------------------------------------------------
(* The service.                                                            *)

(* Slip: a request counts as new unless it is being delivered.             *)
IsReplayOpen(b, r) ==
  LET i == Recorded(b.records, r) IN i # 0 /\ b.records[i].status = "received"

IsReplay(b, r) == Recorded(b.records, r) # 0

(* replay: what became of the request.                                     *)
Replay(b, r) ==
  LET rec == b.records[Recorded(b.records, r)] IN
  /\ binding' = [b EXCEPT !.records = Touched(@, r, rec.status, rec.mid)]
  /\ Post(<<StatusFrame(b, r, rec.status,
                        IF rec.status \in {"accepted", "committed"} THEN rec.mid ELSE 0)>>)

(* A new request is handed to Pi, which may refuse it.                     *)
Deliver(b, f) ==
  LET r == f.req
      full == Append(Without(b.records, r), [req |-> r, status |-> "received", mid |-> 0])
      kept == Pruned(full) IN
  /\ lapsed' = IF Len(full) > Len(kept) THEN lapsed + 1 ELSE lapsed
  /\ \/ /\ called' = [called EXCEPT ![r] =
                        Append(@, [binding |-> b.no, gen |-> b.gen, lapsed |-> lapsed])]
        /\ inbox' = Append(inbox, [req |-> r, rid |-> f.rid])
        /\ binding' = [b EXCEPT !.records = kept]
        /\ Post(<<StatusFrame(b, r, "received", 0)>>)
        /\ UNCHANGED left
     \/ /\ Use("fault")
        /\ binding' = [b EXCEPT !.records = Touched(kept, r, "unknown_delivery", 0)]
        /\ Post(<<StatusFrame(b, r, "unknown_delivery", 0)>>)
        /\ UNCHANGED <<called, inbox>>

(* user_message_observed: the request will not be repeated.                *)
Observe(b, f) ==
  /\ binding' = [b EXCEPT !.records = Without(@, f.req)]
  /\ IF Recorded(b.records, f.req) = 0 THEN Post(<<[type |-> "error", rid |-> 0]>>)
                                       ELSE UNCHANGED toPwa

(* ready: the service has a channel from now on.                           *)
Hello(b, f) ==
  /\ binding' = [b EXCEPT !.ready = TRUE]
  /\ Post(<<[type |-> "ready", session |-> b.session, gen |-> b.gen, rid |-> f.rid]>>)

(* ensureReady refuses: no hello, or another generation.                   *)
Refuse(b, f) ==
  /\ binding' = b
  /\ Post(<<IF b.ready THEN ResetFrame(b) ELSE [type |-> "error", rid |-> f.rid]>>)

Serve(b, f) ==
  LET refused == f.type # "hello" /\ (~b.ready \/ f.gen # b.gen)
      new == f.type = "user" /\ ~IsReplay(b, f.req) IN
  /\ CASE f.type = "hello" -> Hello(b, f)
       [] refused -> Refuse(b, f)
       [] f.type = "sync" /\ ~refused -> Sync(b, f)
       [] f.type = "observed" /\ ~refused -> Observe(b, f)
       [] OTHER -> IF new THEN Deliver(b, f) ELSE Replay(b, f.req)
  /\ IF refused \/ ~new THEN UNCHANGED <<called, lapsed, inbox>> ELSE TRUE
  /\ IF refused \/ (~new /\ f.type # "sync") THEN UNCHANGED left ELSE TRUE
  /\ IF refused \/ f.type # "sync"
     THEN rt' = EnsureTimeline /\ UNCHANGED strayed
     ELSE TRUE

(* The Owner's next frame.  The first one that finds no binding makes one, *)
(* unless there is no session to serve.                                    *)
HostReceives ==
  /\ toHost # <<>>
  /\ toHost' = Tail(toHost)
  /\ LET fresh == [no |-> bound + 1, session |-> Current, gen |-> generation, ready |-> FALSE,
                   records |-> <<>>, cursors |-> {}] IN
     IF binding = None /\ ~live
     THEN UNCHANGED <<inbox, rt, strayed, serviceVars, toPwa, left>>
     ELSE /\ Serve(IF binding = None THEN fresh ELSE binding, Head(toHost))
          /\ bound' = IF binding = None THEN bound + 1 ELSE bound
  /\ UNCHANGED <<sessionVars, sdk, ended, linked>>

=============================================================================
