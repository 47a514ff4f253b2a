---------------------------- MODULE MessageRelay ----------------------------
(***************************************************************************)
(* What one BridgedRoom does with messages, redactions and edits: how they *)
(* go from its Matrix room to its Slack channel (onMatrixMessage,          *)
(* onMatrixEdit, onMatrixRedaction) and back (onSlackMessage,              *)
(* handleSlackMessage, message_deleted), how it tells its own messages and *)
(* second deliveries from new ones (recentSlackMessages, the delay for     *)
(* puppets, slackSendLock), and the "events" table that ties a Matrix      *)
(* event to a Slack ts.                                                    *)
(*                                                                         *)
(* Handlers run concurrently and switch at an await; an action is what one *)
(* does between two of them. Slack gives messages ascending timestamps, so *)
(* a ts is the message's place in the channel, and an event id is the      *)
(* event's place in the Matrix room; both are bounded. An edit on Slack is *)
(* told with a ts of its own (message_changed), so it has a place as well. *)
(*                                                                         *)
(* Abstracted: what a message says, files, attachments, reactions, typing, *)
(* webhooks without a token (they give no ts to remember), encryption.     *)
(***************************************************************************)
EXTENDS Naturals, Sequences, FiniteSets

CONSTANTS
    Handlers,     \* handler invocations that can be in flight at once
    Streams,      \* RTM connections and event subscriptions that see the channel
    Privacy,      \* whether the channel may be private, public or either
    RecentMax,    \* RECENT_MESSAGE_MAX: 10 in the code
    MaxTs,        \* bound: messages in the Slack channel
    MaxEvents,    \* bound: events in the Matrix room
    Traffic       \* what the environment does, a subset of Events

Events == {"message", "puppet", "thread", "edit", "slackEdit", "redact", "delete",
           "lostAnswers",  \* a post that Slack accepts but does not answer
           "refusals",     \* the bot may not redact, as in a DM it is not in
           "sendFails", "lookupFails"}

ASSUME RelayAssumption ==
    /\ RecentMax \in Nat \ {0} /\ MaxTs \in Nat /\ MaxEvents \in Nat
    /\ Traffic \subseteq Events /\ Privacy \subseteq BOOLEAN

VARIABLES
    private,    \* the channel is seen by puppets only: one event at a time
    channel,    \* the Slack channel
    timeline,   \* the Matrix room
    rows,       \* the "events" table
    recent,     \* recentSlackMessages
    lock,       \* slackSendLock: the handlers chained on it, in order
    tasks,      \* the handlers in flight
    seen,       \* how far each stream has delivered the channel
    notices,    \* deletions that Slack has yet to tell
    forgotten   \* history: every ts that recent lost, or never learnt

room == <<recent, lock, forgotten>>
slack == <<channel, seen, notices>>
vars == <<private, slack, timeline, rows, room, tasks>>

Ts == 1..MaxTs
EventIds == 1..MaxEvents

\* Who posted it, the first message of its thread, the message that it edits,
\* who deleted it.
SlackMessages == [from    : {"slack", "bot", "puppet"},
                  root    : 0..MaxTs,
                  edits   : 0..MaxTs,
                  deleted : {"no", "slack", "matrix"}]

\* ts: the message it is a copy of; relates: the event it replies to or edits.
MatrixEvents == [kind     : {"message", "edit", "copy"},
                 ts       : 0..MaxTs,
                 relates  : 0..MaxEvents,
                 redacted : {"no", "refused", "matrix", "bridge"}]

\* list: the row's _extras.slackThreadMessages.
Rows == [event : EventIds, ts : Ts, list : Seq(Ts)]

Pcs == {"idle",
        "reading", "posting", "answering", "storing", "listing",
        "arrived", "naming", "queued", "matching", "threading", "writing",
        "finding", "sending", "recording",
        "redacting", "unstoring", "deleting",
        "locating", "removing",
        "editing", "updating", "storingEdit"}

\* parent: the thread's row as the handler read it ({} if there is none).
Tasks == [pc     : Pcs,
          from   : {"slack", "bot", "puppet"},
          event  : 0..MaxEvents,
          ts     : 0..MaxTs,
          target : 0..MaxEvents,
          parent : SUBSET Rows]

Idle == [pc |-> "idle", from |-> "bot", event |-> 0, ts |-> 0, target |-> 0,
         parent |-> {}]

Init ==
    /\ private \in Privacy
    /\ channel = <<>> /\ timeline = <<>> /\ rows = {}
    /\ recent = <<>> /\ lock = <<>> /\ forgotten = {}
    /\ tasks = [h \in Handlers |-> Idle]
    /\ seen = [s \in Streams |-> 0]
    /\ notices = {}

-----------------------------------------------------------------------------
At(h, pc) == tasks[h].pc = pc

Start(h, task) == tasks' = [tasks EXCEPT ![h] = task]
To(h, pc) == Start(h, [tasks[h] EXCEPT !.pc = pc])
Done(h) == Start(h, Idle)

Elements(s) == {s[i] : i \in DOMAIN s}
Last(s) == s[Len(s)]

\* A mutant: nothing is shifted out.
RememberedAll(ts) == Append(recent, ts)

\* addRecentSlackMessage: the oldest is shifted out beyond RecentMax.
Remembered(ts) ==
    LET all == Append(recent, ts) IN
    IF Len(all) > RecentMax THEN Tail(all) ELSE all

AddRecentSlackMessage(ts) ==
    /\ recent' = Remembered(ts)
    /\ forgotten' = forgotten \cup (Elements(recent) \ Elements(recent'))

\* A mutant: the ts alone is taken to be unique.
UpsertEventByTs(row) == rows' = {r \in rows : r.ts # row.ts} \cup {row}

\* PgDatastore.upsertEvent: (event, ts) is unique, a conflict replaces the
\* extras. A row that is gone is inserted again.
UpsertEvent(row) ==
    rows' = {r \in rows : r.event # row.event \/ r.ts # row.ts} \cup {row}

EventByMatrixId(e) == {r \in rows : r.event = e}
EventBySlackId(ts) == {r \in rows : r.ts = ts}   \* LIMIT 1: any of them

NewRow(e, ts) == [event |-> e, ts |-> ts, list |-> <<>>]

Listed(row, ts) == [row EXCEPT !.list = Append(@, ts)]

SlackMessageBy(from, root) ==
    [from |-> from, root |-> root, edits |-> 0, deleted |-> "no"]

SlackEditBy(from, ts) ==
    [from |-> from, root |-> 0, edits |-> ts, deleted |-> "no"]

IsMessage(ts) == channel[ts].edits = 0

-----------------------------------------------------------------------------
(* onMatrixMessage *)

\* A Matrix user says something, perhaps in reply to an event; findParentReply
\* walks up to the event that is itself no reply.
MatrixMessage(h) ==
    \E from \in {"bot", "puppet"}, root \in 0..Len(timeline) :
        /\ "message" \in Traffic /\ At(h, "idle")
        /\ Len(timeline) < MaxEvents
        /\ from = "puppet" => "puppet" \in Traffic
        /\ root # 0 => "thread" \in Traffic /\ timeline[root].relates = 0
        /\ timeline' = Append(timeline, [kind |-> "message", ts |-> 0,
                                         relates |-> root, redacted |-> "no"])
        /\ Start(h, [Idle EXCEPT !.pc = "reading", !.from = from,
                                 !.event = Len(timeline) + 1, !.target = root])
        /\ UNCHANGED <<private, slack, rows, room>>

ReadParent(h) ==
    /\ At(h, "reading")
    /\ Start(h, [tasks[h] EXCEPT !.pc = "posting",
                                 !.parent = EventByMatrixId(tasks[h].target)])
    /\ UNCHANGED <<private, slack, timeline, rows, room>>

\* chat.postMessage: Slack has the message, the bridge not yet its ts. Slack
\* refuses a reply to what is no message but the telling of an edit.
Post(h) ==
    /\ At(h, "posting") /\ Len(channel) < MaxTs
    /\ \E root \in IF tasks[h].parent = {} THEN {0}
                   ELSE {r.ts : r \in tasks[h].parent} :
          /\ root # 0 => IsMessage(root)
          /\ channel' = Append(channel, SlackMessageBy(tasks[h].from, root))
    /\ Start(h, [tasks[h] EXCEPT !.pc = "answering", !.ts = Len(channel) + 1])
    /\ UNCHANGED <<private, seen, notices, timeline, rows, room>>

Answered(h) ==
    /\ At(h, "answering")
    /\ AddRecentSlackMessage(tasks[h].ts)
    /\ To(h, "storing")
    /\ UNCHANGED <<private, slack, timeline, rows, lock>>

AnswerLost(h) ==
    /\ "lostAnswers" \in Traffic
    /\ At(h, "answering")
    /\ forgotten' = forgotten \cup {tasks[h].ts}
    /\ Done(h)
    /\ UNCHANGED <<private, slack, timeline, rows, recent, lock>>

StoreSent(h) ==
    /\ At(h, "storing")
    /\ UpsertEvent(NewRow(tasks[h].event, tasks[h].ts))
    /\ IF tasks[h].parent = {} THEN Done(h) ELSE To(h, "listing")
    /\ UNCHANGED <<private, slack, timeline, room>>

\* The parent's row is written as it was read before the post.
StoreList(h) ==
    /\ At(h, "listing")
    /\ \E row \in tasks[h].parent : UpsertEvent(Listed(row, tasks[h].ts))
    /\ Done(h)
    /\ UNCHANGED <<private, slack, timeline, room>>

-----------------------------------------------------------------------------
(* Slack *)

\* A Slack user posts, perhaps in a thread.
SlackMessage ==
    \E root \in 0..Len(channel) :
        /\ Len(channel) < MaxTs
        /\ root # 0 => /\ "thread" \in Traffic
                       /\ IsMessage(root) /\ channel[root].root = 0
        /\ channel' = Append(channel, SlackMessageBy("slack", root))
        /\ UNCHANGED <<private, seen, notices, timeline, rows, room, tasks>>

\* A Slack user edits his message, or what his puppet posted for him.
SlackEdits ==
    \E ts \in DOMAIN channel :
        /\ "slackEdit" \in Traffic
        /\ Len(channel) < MaxTs
        /\ IsMessage(ts) /\ channel[ts].from # "bot" /\ channel[ts].deleted = "no"
        /\ channel' = Append(channel, SlackEditBy("slack", ts))
        /\ UNCHANGED <<private, seen, notices, timeline, rows, room, tasks>>

SlackDeletes ==
    \E ts \in DOMAIN channel :
        /\ "delete" \in Traffic
        /\ IsMessage(ts) /\ channel[ts].deleted = "no"
        /\ channel' = [channel EXCEPT ![ts].deleted = "slack"]
        /\ notices' = notices \cup {ts}
        /\ UNCHANGED <<private, seen, timeline, rows, room, tasks>>

-----------------------------------------------------------------------------
(* onSlackMessage *)

FromSlack == {"arrived", "naming", "queued", "matching", "threading", "writing",
              "finding", "sending", "recording", "locating", "removing"}

\* A mutant: the events of a channel are handled as they come.
MayHandleUnqueued(h) == At(h, "idle")

\* messageQueueBySlackId: a puppet's events of one channel are not raced.
MayHandle(h) ==
    /\ At(h, "idle")
    /\ private => \A g \in Handlers : tasks[g].pc \notin FromSlack

\* Every stream delivers every message, in order: the connections of several
\* puppets in a private channel; elsewhere the one the team uses, and a second
\* for what Slack sends again. What the bot itself posted or edited is told by
\* its bot id and dropped.
Deliver(h, s) ==
    LET ts == seen[s] + 1 IN
    /\ MayHandle(h)
    /\ ts <= Len(channel)
    /\ seen' = [seen EXCEPT ![s] = ts]
    /\ IF channel[ts].from = "bot"
       THEN UNCHANGED tasks
       ELSE Start(h, [Idle EXCEPT !.pc = "arrived", !.ts = ts,
                                  !.from = channel[ts].from])
    /\ UNCHANGED <<private, channel, notices, timeline, rows, room>>

\* What a puppeted user posts is held back for PUPPET_INCOMING_DELAY_MS: by
\* then Slack has answered the post, if it was ours (an assumption on Slack).
Check(h) ==
    LET ts == tasks[h].ts IN
    /\ At(h, "arrived")
    /\ \A g \in Handlers : ~(At(g, "answering") /\ tasks[g].ts = ts)
    /\ IF ts \in Elements(recent) THEN Done(h) ELSE To(h, "naming")
    /\ UNCHANGED <<private, slack, timeline, rows, room>>

\* The ghost is looked up and updated before the handler joins the chain.
Enqueue(h) ==
    /\ At(h, "naming")
    /\ lock' = Append(lock, h)
    /\ To(h, "queued")
    /\ UNCHANGED <<private, slack, timeline, rows, recent, forgotten>>

\* What the handler is done with leaves the chain to the next.
Leave(h) == Done(h) /\ lock' = Tail(lock)

FirstStep(ts) == IF ~IsMessage(ts) THEN "matching"
                 ELSE IF channel[ts].root # 0 THEN "threading" ELSE "sending"

\* A mutant: the second check, under the lock, is left out.
BeginUnchecked(h) ==
    /\ At(h, "queued") /\ h = Head(lock)
    /\ AddRecentSlackMessage(tasks[h].ts)
    /\ To(h, FirstStep(tasks[h].ts))
    /\ UNCHANGED <<private, slack, timeline, rows, lock>>

\* The handler's turn: the check again, then handleSlackMessage.
Begin(h) ==
    LET ts == tasks[h].ts IN
    /\ At(h, "queued") /\ h = Head(lock)
    /\ IF ts \in Elements(recent)
       THEN Leave(h) /\ UNCHANGED <<recent, forgotten>>
       ELSE AddRecentSlackMessage(ts) /\ To(h, FirstStep(ts)) /\ UNCHANGED lock
    /\ UNCHANGED <<private, slack, timeline, rows>>

\* Any event with the ts of what is edited is the one that the edit will replace.
MatchEdit(h) ==
    LET edited == channel[tasks[h].ts].edits
        found == {r.event : r \in EventBySlackId(edited)}
    IN  /\ At(h, "matching")
        /\ \E e \in IF found = {} THEN {0} ELSE found :
              Start(h, [tasks[h] EXCEPT !.pc = FirstStep(edited), !.target = e])
        /\ UNCHANGED <<private, slack, timeline, rows, room>>

\* The message in whose thread the handler looks for the event to reply to.
Subject(h) == LET ts == tasks[h].ts IN IF IsMessage(ts) THEN ts ELSE channel[ts].edits

\* getReplyEvent: the thread's row is read, written back with the message
\* appended, and the event of the message before it looked up.
ReadThread(h) ==
    LET found == EventBySlackId(channel[Subject(h)].root) IN
    /\ At(h, "threading")
    /\ \/ found = {} /\ IsMessage(tasks[h].ts) /\ To(h, "sending")
       \/ \E row \in found :
            Start(h, [tasks[h] EXCEPT !.pc = "writing", !.parent = {row}])
    /\ UNCHANGED <<private, slack, timeline, rows, room>>

WriteThread(h) ==
    /\ At(h, "writing")
    /\ \E row \in tasks[h].parent : UpsertEvent(Listed(row, Subject(h)))
    /\ To(h, "finding")
    /\ UNCHANGED <<private, slack, timeline, room>>

\* The event to reply to; an edit keeps the one that it replaces, the other is
\* for its fallback text.
ReplyTo(h, ts) ==
    LET found == EventBySlackId(ts) IN
    \/ found = {} /\ IsMessage(tasks[h].ts) /\ To(h, "sending")
    \/ \E r \in found :
         Start(h, [tasks[h] EXCEPT !.pc = "sending",
              !.target = IF IsMessage(tasks[h].ts) THEN r.event ELSE @])

\* A mutant: the last of the thread is taken from the list as just written.
FindReplyInNewList(h) ==
    /\ At(h, "finding")
    /\ ReplyTo(h, Subject(h))
    /\ UNCHANGED <<private, slack, timeline, rows, room>>

LastOfThread(row) == IF row.list = <<>> THEN row.ts ELSE Last(row.list)

FindReply(h) ==
    /\ At(h, "finding")
    /\ \E row \in tasks[h].parent : ReplyTo(h, LastOfThread(row))
    /\ UNCHANGED <<private, slack, timeline, rows, room>>

\* An edit is not sent if the texts are the same once substituted; and it is
\* lost if there is no event to reply to in its thread: stripMatrixReplyFallback
\* throws on the null, which is caught.
DropEdit(h) ==
    /\ \/ At(h, "matching")
       \/ /\ At(h, "threading") /\ ~IsMessage(tasks[h].ts)
          /\ EventBySlackId(channel[Subject(h)].root) = {}
       \/ /\ At(h, "finding") /\ ~IsMessage(tasks[h].ts)
          /\ \E row \in tasks[h].parent : EventBySlackId(LastOfThread(row)) = {}
    /\ Leave(h)
    /\ UNCHANGED <<private, slack, timeline, rows, recent, forgotten>>

\* The ghost sends it, into the thread if the event to reply to was found; or
\* as an edit of the event to replace, if that was found.
Send(h) ==
    LET reply == tasks[h].target IN
    /\ At(h, "sending") /\ Len(timeline) < MaxEvents
    /\ timeline' = Append(timeline,
          [kind |-> "copy", ts |-> tasks[h].ts, redacted |-> "no",
           relates |-> IF reply # 0 /\ timeline[reply].relates # 0 /\ IsMessage(tasks[h].ts)
                       THEN timeline[reply].relates ELSE reply])
    /\ Start(h, [tasks[h] EXCEPT !.pc = "recording", !.event = Len(timeline) + 1])
    /\ UNCHANGED <<private, slack, rows, room>>

\* A mutant: the failure is not caught, and the chain behind it is stuck.
FailsUncaught(h) ==
    /\ "sendFails" \in Traffic
    /\ At(h, "sending")
    /\ Done(h)
    /\ UNCHANGED <<private, slack, timeline, rows, room>>

\* The homeserver refuses it: caught, so that the chain goes on.
SendFails(h) ==
    /\ "sendFails" \in Traffic
    /\ At(h, "sending")
    /\ Leave(h)
    /\ UNCHANGED <<private, slack, timeline, rows, recent, forgotten>>

\* A mutant: what is sent into a thread gets no row.
RecordUnthreaded(h) ==
    /\ At(h, "recording")
    /\ IF tasks[h].target # 0
       THEN UNCHANGED rows
       ELSE UpsertEvent(NewRow(tasks[h].event, tasks[h].ts))
    /\ Leave(h)
    /\ UNCHANGED <<private, slack, timeline, recent, forgotten>>

RecordCopy(h) ==
    /\ At(h, "recording")
    /\ UpsertEvent(NewRow(tasks[h].event, tasks[h].ts))
    /\ Leave(h)
    /\ UNCHANGED <<private, slack, timeline, recent, forgotten>>

-----------------------------------------------------------------------------
(* message_deleted *)

\* Told once every stream has delivered the message.
DeletionArrives(h) ==
    \E ts \in notices :
        /\ MayHandle(h)
        /\ \A s \in Streams : seen[s] >= ts
        /\ notices' = notices \ {ts}
        /\ Start(h, [Idle EXCEPT !.pc = "locating", !.ts = ts])
        /\ UNCHANGED <<private, channel, seen, timeline, rows, room>>

Locate(h) ==
    LET found == EventBySlackId(tasks[h].ts) IN
    /\ At(h, "locating")
    /\ IF found = {}
       THEN Done(h)
       ELSE \E row \in found :
                Start(h, [tasks[h] EXCEPT !.pc = "removing", !.event = row.event])
    /\ UNCHANGED <<private, slack, timeline, rows, room>>

\* The bridge's bot redacts, which the homeserver may refuse: that is logged.
Remove(h) ==
    /\ At(h, "removing")
    /\ \E answer \in {"bridge", "refused"} :
          /\ answer = "refused" => "refusals" \in Traffic
          /\ timeline' = [timeline EXCEPT ![tasks[h].event].redacted =
                             IF @ \in {"no", "refused"} THEN answer ELSE @]
    /\ Done(h)
    /\ UNCHANGED <<private, slack, rows, room>>

-----------------------------------------------------------------------------
(* onMatrixRedaction *)

MatrixRedacts(h) ==
    \E e \in DOMAIN timeline :
        /\ "redact" \in Traffic /\ At(h, "idle")
        /\ timeline[e].redacted \in {"no", "refused"}
        /\ timeline' = [timeline EXCEPT ![e].redacted = "matrix"]
        /\ Start(h, [Idle EXCEPT !.pc = "redacting", !.event = e])
        /\ UNCHANGED <<private, slack, rows, room>>

ReadRedacted(h) ==
    LET found == EventByMatrixId(tasks[h].event) IN
    /\ At(h, "redacting")
    /\ IF found = {}
       THEN Done(h)
       ELSE \E row \in found :
                Start(h, [tasks[h] EXCEPT !.pc = "unstoring", !.ts = row.ts])
    /\ UNCHANGED <<private, slack, timeline, rows, room>>

\* A mutant: the row stays.
UnstoreNothing(h) ==
    /\ At(h, "unstoring")
    /\ To(h, "deleting")
    /\ UNCHANGED <<private, slack, timeline, rows, room>>

\* The row goes first, so that Slack's message_deleted finds none.
Unstore(h) ==
    /\ At(h, "unstoring")
    /\ rows' = rows \ EventByMatrixId(tasks[h].event)
    /\ To(h, "deleting")
    /\ UNCHANGED <<private, slack, timeline, room>>

\* chat.delete; a failure (somebody else's message) is ignored.
DeleteOnSlack(h) ==
    LET ts == tasks[h].ts IN
    /\ At(h, "deleting")
    /\ \/ /\ IsMessage(ts) /\ channel[ts].deleted = "no"
          /\ channel' = [channel EXCEPT ![ts].deleted = "matrix"]
          /\ notices' = notices \cup {ts}
       \/ UNCHANGED <<channel, notices>>
    /\ Done(h)
    /\ UNCHANGED <<private, seen, timeline, rows, room>>

-----------------------------------------------------------------------------
(* onMatrixEdit *)

MatrixEdits(h) ==
    \E e \in DOMAIN timeline :
        /\ "edit" \in Traffic /\ At(h, "idle")
        /\ Len(timeline) < MaxEvents
        /\ timeline[e].kind = "message" /\ timeline[e].redacted = "no"
        /\ timeline' = Append(timeline, [kind |-> "edit", ts |-> 0,
                                         relates |-> e, redacted |-> "no"])
        /\ Start(h, [Idle EXCEPT !.pc = "editing", !.event = Len(timeline) + 1,
                                 !.target = e])
        /\ UNCHANGED <<private, slack, rows, room>>

ReadEdited(h) ==
    LET found == EventByMatrixId(tasks[h].target) IN
    /\ At(h, "editing")
    /\ IF found = {}
       THEN Done(h)
       ELSE \E row \in found :
                Start(h, [tasks[h] EXCEPT !.pc = "updating", !.ts = row.ts])
    /\ UNCHANGED <<private, slack, timeline, rows, room>>

\* chat.update; if the message is gone it can only fail. Slack tells the edit
\* with a ts that is not among the answer's, and so is not remembered: a
\* puppet's edit comes back.
Update(h) ==
    LET ts == tasks[h].ts IN
    /\ At(h, "updating") /\ Len(channel) < MaxTs
    /\ channel[ts].deleted = "no"
    /\ channel' = Append(channel, SlackEditBy(channel[ts].from, ts))
    /\ To(h, "storingEdit")
    /\ UNCHANGED <<private, seen, notices, timeline, rows, room>>

\* The edit gets a row of its own, with the ts of the message it edits.
StoreEdit(h) ==
    /\ At(h, "storingEdit")
    /\ UpsertEvent(NewRow(tasks[h].event, tasks[h].ts))
    /\ Done(h)
    /\ UNCHANGED <<private, slack, timeline, room>>

-----------------------------------------------------------------------------
\* A call that a handler awaits fails before anything has changed.
CallFails(h) ==
    /\ \/ tasks[h].pc \in {"posting", "updating"}
       \/ At(h, "naming") /\ "lookupFails" \in Traffic
    /\ Done(h)
    /\ UNCHANGED <<private, slack, timeline, rows, room>>

Continues(h) ==
    \/ ReadParent(h) \/ Post(h) \/ Answered(h) \/ StoreSent(h) \/ StoreList(h)
    \/ Check(h) \/ Enqueue(h) \/ Begin(h) \/ MatchEdit(h)
    \/ ReadThread(h) \/ WriteThread(h) \/ FindReply(h) \/ DropEdit(h)
    \/ Send(h) \/ RecordCopy(h) \/ Locate(h) \/ Remove(h)
    \/ ReadRedacted(h) \/ Unstore(h) \/ DeleteOnSlack(h)
    \/ ReadEdited(h) \/ Update(h) \/ StoreEdit(h)

Fails(h) == AnswerLost(h) \/ SendFails(h) \/ CallFails(h)

Arrives(h) ==
    \/ MatrixMessage(h) \/ MatrixRedacts(h) \/ MatrixEdits(h)
    \/ DeletionArrives(h)
    \/ \E s \in Streams : Deliver(h, s)

Next ==
    \/ \E h \in Handlers : Arrives(h) \/ Continues(h) \/ Fails(h)
    \/ SlackMessage \/ SlackEdits \/ SlackDeletes

Spec == Init /\ [][Next]_vars

\* What a handler awaits ends, in success or failure.
Fairness == \A h \in Handlers : WF_vars(Continues(h) \/ Fails(h))

FairSpec == Spec /\ Fairness

-----------------------------------------------------------------------------
TypeOK ==
    /\ private \in BOOLEAN
    /\ channel \in Seq(SlackMessages) /\ Len(channel) <= MaxTs
    /\ timeline \in Seq(MatrixEvents) /\ Len(timeline) <= MaxEvents
    /\ rows \in SUBSET Rows
    /\ recent \in Seq(Ts) /\ Len(recent) <= RecentMax
    /\ lock \in Seq(Handlers)
    /\ tasks \in [Handlers -> Tasks]
    /\ seen \in [Streams -> 0..MaxTs]
    /\ notices \subseteq Ts
    /\ forgotten \subseteq Ts

Copies(ts) == {e \in DOMAIN timeline : timeline[e].ts = ts}

\* What the bridge posted itself; its edits are told apart.
Posted(ts) == channel[ts].from # "slack" /\ IsMessage(ts)

\* A message or an edit of a Slack user comes to the Matrix room once, however
\* many streams deliver it and however they race; and a message that the bridge
\* itself posted never comes back. An edit that it made for a puppet may, once:
\* nobody remembers the ts that chat.update is told with. Only a burst that pushes the ts out of the ten remembered ones, or a post
\* that Slack never answered, can break it.
AtMostOnce ==
    \A ts \in DOMAIN channel :
        \/ ts \in forgotten
        \/ Cardinality(Copies(ts)) <= IF Posted(ts) THEN 0 ELSE 1

\* In a channel that only puppets see, messages come in the order they were
\* posted in; unless the lookup of a ghost fails, as then the message is not
\* remembered and comes late with another stream.
InOrder ==
    private /\ "lookupFails" \notin Traffic => \A d, e \in DOMAIN timeline :
        d < e /\ timeline[d].ts # 0 /\ timeline[e].ts # 0
            => \/ timeline[d].ts < timeline[e].ts
               \/ forgotten # {}

\* At rest, the copy of a Slack message has its row, so that a reply, edit or
\* deletion finds it; unless a Matrix user redacted it.
CopiesRecorded ==
    (\A h \in Handlers : At(h, "idle")) =>
        \A e \in DOMAIN timeline :
            timeline[e].kind = "copy" /\ timeline[e].redacted # "matrix"
                => \E r \in rows : r.event = e /\ r.ts = timeline[e].ts

\* A Slack user edited what his puppet had posted, perhaps before its row was
\* written.
EditedByHand(t) ==
    /\ channel[t].from # "slack"
    /\ \E x \in DOMAIN channel : channel[x].edits = t /\ channel[x].from = "slack"

\* In such a channel a reply in a Slack thread is a reply in the Matrix room,
\* unless a Matrix user redacted something, or an earlier message of a Slack
\* user in it failed to be sent, or an earlier one's ts was forgotten, or a
\* user edited on Slack what the bridge had posted for him in it.
ThreadsHold ==
    private /\ "lookupFails" \notin Traffic => \A e \in DOMAIN timeline :
        LET ts == timeline[e].ts
            root == channel[ts].root
        IN  timeline[e].kind = "copy" /\ root # 0 /\ timeline[e].relates = 0 =>
              \/ channel[root].from # "slack"
              \/ \E d \in DOMAIN timeline : timeline[d].redacted = "matrix"
              \/ \E t \in root..(ts - 1) :
                    /\ t = root \/ channel[t].root = root
                    /\ \/ channel[t].from = "slack" /\ Copies(t) = {}
                       \/ t \in forgotten
                       \/ EditedByHand(t)

\* In such a channel, what a Slack user deletes is redacted, or the bridge has
\* tried and the homeserver refused it.
DeletionsReach ==
    private /\ (\A h \in Handlers : At(h, "idle")) =>
        \A e \in DOMAIN timeline :
            /\ timeline[e].kind = "copy"
            /\ channel[timeline[e].ts].deleted = "slack"
            => \/ timeline[e].redacted # "no"
               \/ timeline[e].ts \in notices \cup forgotten

\* Every reply that found its thread's row is in the thread's list, once its
\* handler is done.
ListsComplete ==
    (\A h \in Handlers : At(h, "idle")) =>
        \A r \in rows : \A ts \in DOMAIN channel :
            channel[ts].root = r.ts /\ channel[ts].from # "slack"
                => ts \in Elements(r.list)

\* A deletion that came from Matrix finds no row when Slack tells of it, so it
\* redacts nothing on Matrix; unless the message was edited on Matrix, as the
\* edit's row has the same ts, or a reply in its thread wrote its row back, or
\* its ts was forgotten and it came twice.
NotOverRedacted ==
    \A h \in Handlers :
        LET ts == tasks[h].ts
            e == tasks[h].event
        IN  At(h, "removing") /\ channel[ts].deleted = "matrix" =>
              \/ \E d \in DOMAIN timeline :
                    timeline[d].kind = "edit" /\ (d = e \/ timeline[d].relates = e)
              \/ \E t \in DOMAIN channel : channel[t].root = ts
              \/ ts \in forgotten

\* A message in the chain gets its turn, whatever happens to those before it.
LockMoves ==
    \A h \in Handlers : At(h, "queued") ~> ~At(h, "queued")

=============================================================================
