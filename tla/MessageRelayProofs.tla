------------------------- MODULE MessageRelayProofs -------------------------
(***************************************************************************)
(* Proofs about MessageRelay for any handlers, streams, bounds, privacy    *)
(* and traffic: types, and that a message comes at most once, in order,    *)
(* with its row, into its thread, and goes when it is deleted. The         *)
(* invariants say what the handlers in flight know of the room's two lists *)
(* (recentSlackMessages, the chain of slackSendLock) and of the database.  *)
(***************************************************************************)
EXTENDS MessageRelay, FiniteSetTheorems, SequenceTheorems, TLAPS

-----------------------------------------------------------------------------
(* What the handlers are at *)

Sending == {"answering", "storing", "listing"}
Waiting == {"arrived", "naming", "queued"}
Begun == {"matching", "threading", "writing", "finding", "sending", "recording"}
Receiving == Waiting \cup Begun
Chained == {"queued"} \cup Begun

HasTs == Sending \cup FromSlack \cup {"unstoring", "deleting", "updating", "storingEdit"}
HasEvent == Sending \cup {"reading", "posting", "recording", "removing", "redacting",
                          "unstoring", "deleting", "editing", "updating", "storingEdit"}

-----------------------------------------------------------------------------
(* Invariants *)

\* With c messages in the channel and n events in the room.
RowIn(r, c, n) == r.event <= n /\ r.ts <= c

EventIn(m, e, c) ==
    m.ts <= c /\ m.relates < e /\ (m.kind = "copy" <=> m.ts # 0)

TaskIn(t, c, n) ==
    /\ t.ts <= c /\ t.event <= n /\ t.target <= n
    /\ t.pc \in HasTs => t.ts # 0
    /\ t.pc \in HasEvent => t.event # 0
    /\ t.pc \in {"editing", "updating", "storingEdit"} => t.target # 0
    /\ \A r \in t.parent : RowIn(r, c, n)

DataInv ==
    /\ private \in BOOLEAN
    /\ channel \in Seq(SlackMessages) /\ Len(channel) <= MaxTs
    /\ timeline \in Seq(MatrixEvents) /\ Len(timeline) <= MaxEvents
    /\ rows \in SUBSET Rows
    /\ \A ts \in 1..Len(channel) : /\ channel[ts].root < ts /\ channel[ts].edits < ts
                                   /\ channel[ts].edits # 0 => channel[ts].root = 0
    /\ \A e \in 1..Len(timeline) : EventIn(timeline[e], e, Len(channel))
    /\ \A r \in rows : RowIn(r, Len(channel), Len(timeline))

RoomInv ==
    /\ recent \in Seq(Ts) /\ Len(recent) <= RecentMax
    /\ lock \in Seq(Handlers)
    /\ forgotten \subseteq Ts

SlackInv ==
    /\ seen \in [Streams -> 0..MaxTs]
    /\ notices \subseteq 1..Len(channel)
    /\ \A s \in Streams : seen[s] <= Len(channel)

TasksInv ==
    /\ tasks \in [Handlers -> Tasks]
    /\ \A h \in Handlers : TaskIn(tasks[h], Len(channel), Len(timeline))

TypeInv == DataInv /\ RoomInv /\ SlackInv /\ TasksInv

\* The chain of slackSendLock.
LockInv ==
    /\ \A i, j \in DOMAIN lock : lock[i] = lock[j] => i = j
    /\ \A h \in Handlers : tasks[h].pc \in Chained <=> h \in Elements(lock)
    /\ \A h \in Handlers : tasks[h].pc \in Begun => h = lock[1]

Known(ts) == ts \in Elements(recent) \/ ts \in forgotten

Uncopied(ts) == ts \in forgotten \/ Copies(ts) = {}

Ours(ts) == ts <= Len(channel) /\ Posted(ts)

\* What recentSlackMessages, with the history, knows of the messages that were
\* copied, posted or begun; and what a handler knows past its checks.
RecentInv ==
    \A ts \in Ts :
      /\ Copies(ts) # {} => Known(ts)
      /\ Ours(ts) => Known(ts) \/ \E h \in Handlers : At(h, "answering") /\ tasks[h].ts = ts
      /\ \A h \in Handlers : tasks[h].ts = ts =>
           /\ tasks[h].pc \in Begun => Known(ts)
           /\ tasks[h].pc \in Begun \ {"recording"} => Uncopied(ts)
           /\ tasks[h].pc \in Receiving \ {"arrived"} => ~Ours(ts) \/ ts \in forgotten

OnceInv ==
    \A ts \in Ts : ts \in forgotten
        \/ /\ \A d, e \in Copies(ts) : d = e
           /\ Ours(ts) => Copies(ts) = {}

HasRow(e) == \E r \in rows : r.event = e /\ r.ts = timeline[e].ts

\* A copy has its row, or its handler is about to write it.
RecordedInv ==
    \A e \in EventIds :
      /\ /\ e <= Len(timeline) /\ timeline[e].kind = "copy" /\ timeline[e].redacted # "matrix"
         => HasRow(e) \/ \E h \in Handlers : At(h, "recording") /\ tasks[h].event = e
      /\ \A h \in Handlers : tasks[h].event = e =>
           /\ At(h, "recording") =>
                timeline[e].kind = "copy" /\ timeline[e].ts = tasks[h].ts
           /\ tasks[h].pc \in {"redacting", "unstoring"} => timeline[e].redacted = "matrix"

\* An event and a ts that may make a row: a copy and its message, or an event
\* of a Matrix user and a message of ours.
Paired(e, ts) ==
    IF timeline[e].kind = "copy" THEN timeline[e].ts = ts ELSE Ours(ts)

Matched(t) ==
    /\ \A r \in t.parent : Paired(r.event, r.ts)
    /\ t.pc \in Sending \cup {"recording", "removing", "storingEdit"} => Paired(t.event, t.ts)
    /\ t.pc \in {"reading", "posting"} \cup Sending =>
          timeline[t.event].kind = "message" /\ t.from # "slack"
    /\ t.pc \in {"editing", "updating", "storingEdit"} =>
          timeline[t.event].kind = "edit" /\ timeline[t.target].kind = "message"
    /\ t.pc \in {"updating", "storingEdit"} => Ours(t.ts)

PairedInv ==
    /\ \A r \in rows : Paired(r.event, r.ts)
    /\ \A h \in Handlers : Matched(tasks[h])

Solo == private => \A g, h \in Handlers :
            tasks[g].pc \in FromSlack /\ tasks[h].pc \in FromSlack => g = h

Taken(ts) == \E h \in Handlers : tasks[h].pc \in Waiting /\ tasks[h].ts = ts

Ascends(ts) == \A e \in DOMAIN timeline : timeline[e].ts < ts

\* One event at a time, and none is lost before its turn.
Serial == private /\ "lookupFails" \notin Traffic

\* What a stream is past is known, or on its way.
SeenInv ==
    Serial => \A ts \in Ts :
      /\ \A s \in Streams : ts <= seen[s] =>
           Known(ts) \/ Taken(ts) \/ channel[ts].from = "bot"
      /\ Copies(ts) # {} \/ (\E h \in Handlers : tasks[h].pc \in Receiving /\ tasks[h].ts = ts)
           => \E s \in Streams : ts <= seen[s]

\* What waits its turn, unless it comes a second time, is after all that was
\* copied.
OrderInv ==
    Serial /\ forgotten = {} =>
      /\ \A ts \in Ts : \A h \in Handlers : tasks[h].ts = ts =>
           /\ tasks[h].pc \in Waiting => Known(ts) \/ Ascends(ts)
           /\ tasks[h].pc \in Begun \ {"recording"} => Ascends(ts)
      /\ \A d, e \in EventIds :
            d < e /\ e <= Len(timeline) /\ timeline[d].ts # 0 /\ timeline[e].ts # 0 =>
                timeline[d].ts < timeline[e].ts

\* A deletion is told after the message, on every stream; and the copy of what
\* was deleted is redacted, or its deletion is yet to be told, or handled.
DeletionInv ==
    private => \A ts \in Ts :
      /\ ts <= Len(channel) /\ channel[ts].deleted # "no" /\ ts \notin notices =>
           /\ \A s \in Streams : ts <= seen[s]
           /\ \A h \in Handlers : tasks[h].pc \in Receiving => tasks[h].ts # ts
      /\ ts <= Len(channel) /\ channel[ts].deleted = "slack" => \A e \in Copies(ts) :
           \/ timeline[e].redacted # "no"
           \/ ts \in notices \cup forgotten
           \/ \E h \in Handlers : At(h, "locating") /\ tasks[h].ts = ts
           \/ \E h \in Handlers : At(h, "removing") /\ tasks[h].event = e

-----------------------------------------------------------------------------
(* Threads *)

\* In a thread that a Slack user began.
Replies(ts, R) ==
    ts \in DOMAIN channel /\ channel[ts].root = R /\ channel[R].from = "slack"

\* The first of the thread was remembered before the reply, and so it is the
\* first to be shifted out.
Past(R, ts) ==
    \/ R \in forgotten
    \/ \E i, j \in DOMAIN recent : i < j /\ recent[i] = R /\ recent[j] = ts

\* A message of a Slack user is remembered once at a time.
RememberedInv ==
    \A i, j \in DOMAIN recent :
      /\ recent[i] <= Len(channel)
      /\ recent[i] = recent[j] /\ ~Ours(recent[i]) => i = j

PastInv ==
    Serial => \A R, ts \in Ts : Replies(ts, R) =>
      /\ Ours(ts) => Known(R)
      /\ ts \in Elements(recent) => Past(R, ts)
      /\ channel[ts].from # "bot" =>
           \A s \in Streams : ts <= seen[s] => Past(R, ts) \/ Taken(ts)

Intact == \A d \in DOMAIN timeline : timeline[d].redacted # "matrix"

Rowed(ts) == \E r \in rows : r.ts = ts

\* The rows of the table, and those that a handler has read.
AllRows == rows \cup UNION {tasks[h].parent : h \in Handlers}

\* What a handler knows of the row it has read of the thread.
ParentInv ==
    \A h \in Handlers :
      /\ tasks[h].pc \in {"posting"} \cup Sending =>
           \A q, r \in tasks[h].parent : q.event = r.event
      /\ tasks[h].pc \in Sending =>
           \A r \in tasks[h].parent : Ours(r.ts) \/ channel[tasks[h].ts].root = r.ts
      /\ tasks[h].pc \in {"writing", "finding"} =>
           \A r \in tasks[h].parent : channel[Subject(h)].root = r.ts
      /\ Intact =>
           /\ tasks[h].pc = "listing" => Rowed(tasks[h].ts)
           /\ tasks[h].pc \in {"writing", "finding"} => \A r \in tasks[h].parent : Rowed(r.ts)

\* Only an edit is matched, and what the bridge edited had its row.
EditInv ==
    /\ \A h \in Handlers : tasks[h].pc = "matching" => ~IsMessage(tasks[h].ts)
    /\ Intact =>
         /\ \A h \in Handlers :
              tasks[h].pc \in {"updating", "storingEdit"} => Rowed(tasks[h].ts)
         /\ \A x \in 1..Len(channel) :
              channel[x].edits # 0 /\ channel[x].from # "slack" => Rowed(channel[x].edits)

\* It will never have a copy, or its ts was forgotten, or it was edited on Slack
\* by the user it was posted for.
Missed(ts) ==
    \/ ts \in forgotten
    \/ /\ ts \in DOMAIN channel /\ channel[ts].from = "slack"
       /\ Copies(ts) = {} /\ Known(ts)
       /\ \A h \in Handlers : tasks[h].ts = ts => tasks[h].pc \notin Begun \ {"recording"}
    \/ ts \in DOMAIN channel /\ EditedByHand(ts)

\* What a thread's list holds has a row, or was missed, or is being sent.
ListInv ==
    Serial /\ Intact => \A r \in AllRows : ~Ours(r.ts) => \A t \in Elements(r.list) :
      /\ t <= Len(channel) /\ channel[t].root = r.ts
      /\ \/ Rowed(t)
         \/ /\ \E s \in Streams : t <= seen[s]
            /\ \/ Missed(t)
               \/ \E h \in Handlers : /\ tasks[h].pc \in {"finding", "sending", "recording"}
                                      /\ tasks[h].ts = t

Earlier(S, R, ts) ==
    \A r \in S : r.ts = R => \A t \in Elements(r.list) : Rowed(t) \/ t < ts

\* A reply finds only earlier ones in the list, and those of Matrix users,
\* unless it comes a second time.
EarlierInv ==
    Serial /\ Intact => \A R, ts \in Ts : Replies(ts, R) =>
      \A h \in Handlers : tasks[h].ts = ts =>
        /\ tasks[h].pc \in Waiting => Past(R, ts) \/ Earlier(AllRows, R, ts)
        /\ tasks[h].pc \in {"threading", "writing"} =>
             R \in forgotten \/ Earlier(AllRows, R, ts)
        /\ tasks[h].pc = "finding" => R \in forgotten \/ Earlier(tasks[h].parent, R, ts)

\* Why a reply is sent as none.
Excused(R, ts) ==
    \E t \in R..(ts - 1) : (t = R \/ channel[t].root = R) /\ Missed(t)

ThreadInv ==
    Serial /\ Intact => \A R, ts \in Ts : Replies(ts, R) =>
      /\ \A e \in Copies(ts) : timeline[e].relates # 0 \/ Excused(R, ts)
      /\ \A h \in Handlers : tasks[h].ts = ts /\ tasks[h].pc = "sending" =>
           tasks[h].target # 0 \/ Excused(R, ts)
-----------------------------------------------------------------------------
(* The model's operators *)

\* What is in a list after an append.
LEMMA AppendElements ==
  ASSUME NEW S, NEW s \in Seq(S), NEW x \in S
  PROVE  Elements(Append(s, x)) = Elements(s) \cup {x}
BY AppendProperties DEF Elements

\* What is in a list when its head has gone.
LEMMA TailElements ==
  ASSUME NEW S, NEW s \in Seq(S), s # <<>>
  PROVE  /\ Elements(Tail(s)) \subseteq Elements(s)
         /\ Elements(s) = Elements(Tail(s)) \cup {s[1]}
<1>1. /\ Tail(s) \in Seq(S) /\ Len(Tail(s)) = Len(s) - 1 /\ Len(s) >= 1
      /\ \A i \in 1..Len(Tail(s)) : Tail(s)[i] = s[i + 1]
      /\ DOMAIN s = 1..Len(s) /\ DOMAIN Tail(s) = 1..(Len(s) - 1)
  BY HeadTailProperties, LenProperties, EmptySeq
<1>2. Elements(Tail(s)) \subseteq Elements(s)
  BY <1>1 DEF Elements
<1>3. ASSUME NEW i \in DOMAIN s
      PROVE  s[i] \in Elements(Tail(s)) \cup {s[1]}
  <2>1. CASE i = 1
    BY <2>1
  <2>2. CASE i # 1
    <3>1. i - 1 \in 1..Len(Tail(s)) /\ s[i] = Tail(s)[i - 1]
      BY <1>1, <2>2
    <3> QED
      BY <3>1, <1>1 DEF Elements
  <2> QED
    BY <2>1, <2>2
<1>4. s[1] \in Elements(s)
  BY <1>1 DEF Elements
<1> QED
  BY <1>2, <1>3, <1>4 DEF Elements

\* addRecentSlackMessage keeps at most RecentMax, the newest among them.
LEMMA RememberedIs ==
  ASSUME recent \in Seq(Ts), Len(recent) <= RecentMax, NEW ts \in Ts
  PROVE  /\ Remembered(ts) \in Seq(Ts) /\ Len(Remembered(ts)) <= RecentMax
         /\ ts \in Elements(Remembered(ts))
         /\ Elements(Remembered(ts)) \subseteq Elements(recent) \cup {ts}
<1> DEFINE all == Append(recent, ts)
<1>1. /\ all \in Seq(Ts) /\ all # <<>> /\ Len(all) = Len(recent) + 1 /\ all[Len(all)] = ts
      /\ Elements(all) = Elements(recent) \cup {ts}
  BY AppendProperties, AppendElements
<1>2. RecentMax \in Nat /\ RecentMax >= 1
  BY RelayAssumption
<1>3. Len(recent) \in Nat /\ DOMAIN all = 1..Len(all)
  BY <1>1, LenProperties
<1>4. CASE Len(all) > RecentMax
  <2>1. /\ Tail(all) \in Seq(Ts) /\ Len(Tail(all)) = Len(all) - 1
        /\ \A i \in 1..Len(Tail(all)) : Tail(all)[i] = all[i + 1]
    BY <1>1, HeadTailProperties
  <2>2. Tail(all)[Len(all) - 1] = ts /\ Len(all) - 1 \in DOMAIN Tail(all)
    BY <1>1, <1>2, <1>3, <1>4, <2>1, LenProperties
  <2>3. Elements(Tail(all)) \subseteq Elements(all)
    BY <1>1, TailElements
  <2>4. ts \in Elements(Tail(all))
    <3> HIDE DEF all
    <3> QED
      BY <2>2 DEF Elements
  <2> QED
    BY <1>1, <1>2, <1>3, <1>4, <2>1, <2>3, <2>4 DEF Remembered
<1>5. CASE ~(Len(all) > RecentMax)
  BY <1>1, <1>2, <1>3, <1>5 DEF Remembered
<1> QED
  BY <1>4, <1>5

-----------------------------------------------------------------------------
(* Types *)

LEMMA TypeInvTypes == TypeInv => TypeOK
<1> SUFFICES ASSUME TypeInv PROVE TypeOK
  OBVIOUS
<1>1. Len(channel) \in Nat /\ MaxTs \in Nat
  BY RelayAssumption DEF TypeInv, DataInv
<1>2. notices \subseteq Ts
  BY <1>1 DEF TypeInv, DataInv, SlackInv, Ts
<1> QED
  BY <1>2 DEF TypeOK, TypeInv, DataInv, RoomInv, SlackInv, TasksInv

LEMMA Lengths ==
  ASSUME TypeInv
  PROVE  /\ MaxTs \in Nat /\ MaxEvents \in Nat /\ RecentMax \in Nat
         /\ Len(channel) \in 0..MaxTs /\ DOMAIN channel = 1..Len(channel)
         /\ Len(timeline) \in 0..MaxEvents /\ DOMAIN timeline = 1..Len(timeline)
BY RelayAssumption DEF TypeInv, DataInv

LEMMA TaskFacts ==
  ASSUME TypeInv, NEW h \in Handlers
  PROVE  tasks[h] \in Tasks /\ TaskIn(tasks[h], Len(channel), Len(timeline))
BY DEF TypeInv, TasksInv

LEMMA StartIs ==
  ASSUME TypeInv, NEW h \in Handlers, NEW t, Start(h, t)
  PROVE  tasks'[h] = t /\ \A g \in Handlers \ {h} : tasks'[g] = tasks[g]
BY DEF Start, TypeInv, TasksInv

LEMMA IdleIn ==
  ASSUME NEW c \in Nat, NEW n \in Nat
  PROVE  Idle \in Tasks /\ TaskIn(Idle, c, n)
<1>1. Idle \in Tasks
  BY RelayAssumption DEF Idle, Tasks, Pcs
<1>2. Idle.pc = "idle" /\ Idle.event = 0 /\ Idle.ts = 0 /\ Idle.target = 0 /\ Idle.parent = {}
  BY DEF Idle
<1> QED
  BY <1>1, <1>2 DEF TaskIn, HasTs, HasEvent, Sending, FromSlack

\* A handler's step leaves the tasks right if it leaves its own right and the
\* two rooms have not shrunk.
LEMMA TasksStep ==
  ASSUME TypeInv, NEW h \in Handlers, NEW t \in Tasks,
         Len(channel') \in Nat, Len(timeline') \in Nat,
         Len(channel) <= Len(channel'), Len(timeline) <= Len(timeline'),
         TaskIn(t, Len(channel'), Len(timeline')), Start(h, t)
  PROVE  TasksInv'
<1>1. tasks' \in [Handlers -> Tasks]
  BY DEF Start, TypeInv, TasksInv
<1>2. ASSUME NEW g \in Handlers
      PROVE  TaskIn(tasks'[g], Len(channel'), Len(timeline'))
  <2>1. CASE g = h
    BY <2>1, StartIs
  <2>2. CASE g # h
    <3>1. tasks'[g] = tasks[g] /\ tasks[g] \in Tasks
          /\ TaskIn(tasks[g], Len(channel), Len(timeline))
      BY <2>2, StartIs, TaskFacts
    <3>2. /\ tasks[g].ts \in Nat /\ tasks[g].event \in Nat /\ tasks[g].target \in Nat
          /\ \A r \in tasks[g].parent : r.event \in Nat /\ r.ts \in Nat
      BY <3>1 DEF Tasks, Rows, Ts, EventIds
    <3>3. Len(channel) \in Nat /\ Len(timeline) \in Nat
      BY Lengths
    <3> QED
      BY <3>1, <3>2, <3>3 DEF TaskIn, RowIn
  <2> QED
    BY <2>1, <2>2
<1> QED
  BY <1>1, <1>2 DEF TasksInv

\* A step that only the handler sees.
LEMMA QuietStep ==
  ASSUME TypeInv, NEW h \in Handlers, NEW t \in Tasks,
         TaskIn(t, Len(channel), Len(timeline)), Start(h, t),
         UNCHANGED <<private, slack, timeline, rows, room>>
  PROVE  TypeInv'
<1>1. Len(channel) \in Nat /\ Len(timeline) \in Nat
  BY Lengths
<1>2. TasksInv'
  BY <1>1, TasksStep DEF slack
<1>3. DataInv' /\ RoomInv' /\ SlackInv'
  BY DEF TypeInv, DataInv, RoomInv, SlackInv, slack, room, EventIn, RowIn
<1> QED
  BY <1>2, <1>3 DEF TypeInv

\* What a message of the channel is.
LEMMA MessageIs ==
  ASSUME TypeInv, NEW ts \in 1..Len(channel)
  PROVE  /\ channel[ts] \in SlackMessages
         /\ channel[ts].root < ts /\ channel[ts].edits < ts
         /\ channel[ts].edits # 0 => channel[ts].root = 0
<1>1. DataInv
  BY DEF TypeInv
<1>2. channel \in Seq(SlackMessages)
  BY <1>1 DEF DataInv
<1>3. \A x \in 1..Len(channel) : /\ channel[x].root < x /\ channel[x].edits < x
                                 /\ channel[x].edits # 0 => channel[x].root = 0
  BY <1>1 DEF DataInv
<1>4. channel[ts] \in SlackMessages
  BY <1>2
<1> QED
  BY <1>3, <1>4

\* A message is appended to the channel.
LEMMA ChannelGrows ==
  ASSUME TypeInv, Len(channel) < MaxTs, NEW m \in SlackMessages,
         m.root <= Len(channel), m.edits <= Len(channel), m.edits # 0 => m.root = 0,
         channel' = Append(channel, m)
  PROVE  /\ channel' \in Seq(SlackMessages) /\ Len(channel') = Len(channel) + 1
         /\ Len(channel') <= MaxTs
         /\ \A ts \in 1..Len(channel) : channel'[ts] = channel[ts]
         /\ channel'[Len(channel) + 1] = m
         /\ \A ts \in 1..Len(channel') :
              /\ channel'[ts].root < ts /\ channel'[ts].edits < ts
              /\ channel'[ts].edits # 0 => channel'[ts].root = 0
<1>1. /\ channel' \in Seq(SlackMessages) /\ Len(channel') = Len(channel) + 1
      /\ \A ts \in 1..Len(channel) : channel'[ts] = channel[ts]
      /\ channel'[Len(channel) + 1] = m
  BY AppendProperties DEF TypeInv, DataInv
<1>2. ASSUME NEW ts \in 1..Len(channel')
      PROVE  /\ channel'[ts].root < ts /\ channel'[ts].edits < ts
             /\ channel'[ts].edits # 0 => channel'[ts].root = 0
  <2>1. CASE ts \in 1..Len(channel)
    BY <2>1, <1>1, MessageIs
  <2>2. CASE ts = Len(channel) + 1
    <3>1. m.root \in Nat /\ m.edits \in Nat /\ Len(channel) \in Nat
      BY Lengths DEF SlackMessages
    <3> QED
      BY <3>1, <2>2, <1>1
  <2> QED
    BY <2>1, <2>2, <1>1, Lengths
<1> QED
  BY <1>1, <1>2, Lengths

\* An event is appended to the timeline.
LEMMA TimelineGrows ==
  ASSUME TypeInv, Len(timeline) < MaxEvents, NEW m \in MatrixEvents,
         EventIn(m, Len(timeline) + 1, Len(channel)), timeline' = Append(timeline, m)
  PROVE  /\ timeline' \in Seq(MatrixEvents) /\ Len(timeline') = Len(timeline) + 1
         /\ Len(timeline') <= MaxEvents
         /\ \A e \in 1..Len(timeline) : timeline'[e] = timeline[e]
         /\ timeline'[Len(timeline) + 1] = m
         /\ \A e \in 1..Len(timeline') : EventIn(timeline'[e], e, Len(channel))
<1>1. /\ timeline' \in Seq(MatrixEvents) /\ Len(timeline') = Len(timeline) + 1
      /\ \A e \in 1..Len(timeline) : timeline'[e] = timeline[e]
      /\ timeline'[Len(timeline) + 1] = m
  BY AppendProperties DEF TypeInv, DataInv
<1>2. ASSUME NEW e \in 1..Len(timeline')
      PROVE  EventIn(timeline'[e], e, Len(channel))
  <2>1. CASE e \in 1..Len(timeline)
    BY <2>1, <1>1 DEF TypeInv, DataInv
  <2>2. CASE e = Len(timeline) + 1
    BY <2>2, <1>1
  <2> QED
    BY <2>1, <2>2, <1>1, Lengths
<1> QED
  BY <1>1, <1>2, Lengths

\* The rows after an upsert.
LEMMA UpsertIs ==
  ASSUME TypeInv, NEW row \in Rows, RowIn(row, Len(channel), Len(timeline)),
         UpsertEvent(row)
  PROVE  /\ rows' \in SUBSET Rows /\ row \in rows'
         /\ \A r \in rows' : RowIn(r, Len(channel), Len(timeline))
         /\ \A r \in rows : r \in rows' \/ (r.event = row.event /\ r.ts = row.ts)
         /\ rows' \subseteq rows \cup {row}
BY DEF UpsertEvent, TypeInv, DataInv

LEMMA NewRowIs ==
  ASSUME TypeInv, NEW e \in EventIds, NEW ts \in Ts
  PROVE  NewRow(e, ts) \in Rows /\ NewRow(e, ts).event = e /\ NewRow(e, ts).ts = ts
         /\ NewRow(e, ts).list = <<>>
BY EmptySeq DEF NewRow, Rows

LEMMA ListedIs ==
  ASSUME NEW row \in Rows, NEW ts \in Ts
  PROVE  Listed(row, ts) \in Rows /\ Listed(row, ts).event = row.event
         /\ Listed(row, ts).ts = row.ts /\ Listed(row, ts).list = Append(row.list, ts)
<1>1. row.list \in Seq(Ts)
  BY DEF Rows
<1>2. Append(row.list, ts) \in Seq(Ts)
  BY <1>1, AppendProperties
<1> QED
  BY <1>2 DEF Listed, Rows

\* What TaskIn says of a handler whose step sets pc and one field.
LEMMA TaskTypes ==
  ASSUME TypeInv, NEW h \in Handlers
  PROVE  /\ tasks[h].pc \in Pcs /\ tasks[h].from \in {"slack", "bot", "puppet"}
         /\ tasks[h].event \in 0..MaxEvents /\ tasks[h].ts \in 0..MaxTs
         /\ tasks[h].target \in 0..MaxEvents /\ tasks[h].parent \in SUBSET Rows
         /\ tasks[h].pc \in HasTs => tasks[h].ts \in 1..Len(channel) /\ tasks[h].ts \in Ts
         /\ tasks[h].pc \in HasEvent =>
              tasks[h].event \in 1..Len(timeline) /\ tasks[h].event \in EventIds
<1>1. /\ tasks[h].pc \in Pcs /\ tasks[h].from \in {"slack", "bot", "puppet"}
      /\ tasks[h].event \in 0..MaxEvents /\ tasks[h].ts \in 0..MaxTs
      /\ tasks[h].target \in 0..MaxEvents /\ tasks[h].parent \in SUBSET Rows
  BY TaskFacts DEF Tasks
<1> QED
  BY <1>1, TaskFacts, Lengths DEF TaskIn, Ts, EventIds

LEMMA ToType ==
  ASSUME TypeInv, NEW h \in Handlers, NEW pc \in Pcs, To(h, pc),
         pc \in HasTs => tasks[h].pc \in HasTs, pc \in HasEvent => tasks[h].pc \in HasEvent,
         pc \in {"editing", "updating", "storingEdit"} =>
            tasks[h].pc \in {"editing", "updating", "storingEdit"},
         Len(channel') \in Nat, Len(timeline') \in Nat,
         Len(channel) <= Len(channel'), Len(timeline) <= Len(timeline')
  PROVE  TasksInv'
<1>1. PICK t : t = [tasks[h] EXCEPT !.pc = pc]
  OBVIOUS
<1>2. /\ t \in Tasks /\ t.pc = pc /\ t.ts = tasks[h].ts /\ t.event = tasks[h].event
      /\ t.target = tasks[h].target /\ t.parent = tasks[h].parent
  BY <1>1, TaskFacts DEF Tasks
<1>3. TaskIn(tasks[h], Len(channel'), Len(timeline'))
  <2>1. /\ tasks[h].ts \in Nat /\ tasks[h].event \in Nat /\ tasks[h].target \in Nat
        /\ \A r \in tasks[h].parent : r.event \in Nat /\ r.ts \in Nat
    BY TaskFacts DEF Tasks, Rows, Ts, EventIds
  <2> QED
    BY <2>1, TaskFacts, Lengths DEF TaskIn, RowIn
<1>4. TaskIn(t, Len(channel'), Len(timeline'))
  BY <1>2, <1>3 DEF TaskIn
<1> QED
  BY <1>1, <1>2, <1>4, TasksStep DEF To

LEMMA DoneType ==
  ASSUME TypeInv, NEW h \in Handlers, Done(h),
         Len(channel') \in Nat, Len(timeline') \in Nat,
         Len(channel) <= Len(channel'), Len(timeline) <= Len(timeline')
  PROVE  TasksInv'
BY IdleIn, TasksStep DEF Done

\* The actions that only move their handler.
Quiet(h) ==
    \/ ReadParent(h) \/ Check(h) \/ MatchEdit(h) \/ ReadThread(h) \/ FindReply(h)
    \/ Locate(h) \/ ReadRedacted(h) \/ ReadEdited(h) \/ CallFails(h)

\* A message or an edit is not sent, and leaves the chain.
Drops(h) == SendFails(h) \/ DropEdit(h)

LEMMA QuietChanges ==
  ASSUME NEW h \in Handlers, Quiet(h)
  PROVE  UNCHANGED <<private, slack, timeline, rows, room>>
BY DEF Quiet, ReadParent, Check, ReadThread, FindReply, ReplyTo, MatchEdit, Locate,
       ReadRedacted, ReadEdited, CallFails

\* The message that a handler is about, or the one that its edit changes.
LEMMA SubjectIs ==
  ASSUME TypeInv, NEW h \in Handlers, tasks[h].pc \in HasTs
  PROVE  /\ Subject(h) \in 1..Len(channel) /\ Subject(h) \in Ts
         /\ IF IsMessage(tasks[h].ts) THEN Subject(h) = tasks[h].ts
            ELSE Subject(h) = channel[tasks[h].ts].edits /\ Subject(h) < tasks[h].ts
<1>1. tasks[h].ts \in 1..Len(channel) /\ tasks[h].ts \in Ts
  BY TaskTypes
<1>2. channel[tasks[h].ts] \in SlackMessages /\ channel[tasks[h].ts].edits < tasks[h].ts
  BY <1>1, MessageIs
<1>3. channel[tasks[h].ts].edits \in Nat
  BY <1>2, Lengths DEF SlackMessages
<1> QED
  BY <1>1, <1>2, <1>3, Lengths DEF Subject, IsMessage, Ts

LEMMA FirstStepIs ==
  ASSUME NEW ts
  PROVE  /\ FirstStep(ts) \in {"matching", "threading", "sending"}
         /\ FirstStep(ts) = "matching" <=> ~IsMessage(ts)
         /\ FirstStep(ts) = "threading" => channel[ts].root # 0
         /\ FirstStep(ts) = "sending" => channel[ts].root = 0
BY DEF FirstStep

LEMMA QuietType ==
  ASSUME TypeInv, NEW h \in Handlers, Quiet(h)
  PROVE  TypeInv'
<1>1. Len(channel) \in Nat /\ Len(timeline) \in Nat /\ UNCHANGED <<channel, timeline>>
  BY Lengths, QuietChanges DEF slack
<1> SUFFICES TasksInv'
  BY QuietChanges DEF TypeInv, DataInv, RoomInv, SlackInv, slack, room, EventIn, RowIn
<1>2. CASE Done(h)
  BY <1>1, <1>2, DoneType
<1>3. CASE ReadParent(h)
  <2>1. PICK t : t = [tasks[h] EXCEPT !.pc = "posting",
                                      !.parent = EventByMatrixId(tasks[h].target)]
    OBVIOUS
  <2>2. EventByMatrixId(tasks[h].target) \in SUBSET Rows
        /\ \A r \in EventByMatrixId(tasks[h].target) : RowIn(r, Len(channel), Len(timeline))
    BY DEF EventByMatrixId, TypeInv, DataInv
  <2>3. /\ t \in Tasks /\ t.pc = "posting" /\ t.ts = tasks[h].ts /\ t.event = tasks[h].event
        /\ t.target = tasks[h].target /\ t.parent = EventByMatrixId(tasks[h].target)
    BY <2>1, <2>2, TaskFacts DEF Tasks, Pcs
  <2>4. tasks[h].event # 0
    BY <1>3, TaskFacts DEF ReadParent, At, TaskIn, HasEvent
  <2>5. TaskIn(t, Len(channel), Len(timeline))
    BY <2>2, <2>3, <2>4, TaskFacts DEF TaskIn, HasTs, Sending, FromSlack
  <2> QED
    BY <1>1, <1>3, <2>1, <2>3, <2>5, TasksStep DEF ReadParent
<1>4. CASE Check(h) /\ ~Done(h)
  <2>1. To(h, "naming") /\ tasks[h].pc = "arrived"
    BY <1>4 DEF Check, At
  <2> QED
    BY <1>1, <2>1, ToType DEF HasTs, HasEvent, Sending, FromSlack, Pcs
<1>5. CASE ReadThread(h)
  <2>1. tasks[h].pc = "threading"
    BY <1>5 DEF ReadThread, At
  <2>2. CASE To(h, "sending")
    BY <1>1, <2>1, <2>2, ToType DEF HasTs, HasEvent, Sending, FromSlack, Pcs
  <2>3. ASSUME NEW row \in rows, Start(h, [tasks[h] EXCEPT !.pc = "writing", !.parent = {row}])
        PROVE  TasksInv'
    <3>1. PICK t : t = [tasks[h] EXCEPT !.pc = "writing", !.parent = {row}]
      OBVIOUS
    <3>2. row \in Rows /\ RowIn(row, Len(channel), Len(timeline))
      BY DEF TypeInv, DataInv
    <3>3. /\ t \in Tasks /\ t.pc = "writing" /\ t.ts = tasks[h].ts /\ t.event = tasks[h].event
          /\ t.target = tasks[h].target /\ t.parent = {row}
      BY <3>1, <3>2, TaskFacts DEF Tasks, Pcs
    <3>4. TaskIn(t, Len(channel), Len(timeline))
      BY <2>1, <3>2, <3>3, TaskFacts DEF TaskIn, HasTs, HasEvent, Sending, FromSlack
    <3> QED
      BY <1>1, <2>3, <3>1, <3>3, <3>4, TasksStep
  <2> QED
    BY <1>5, <2>2, <2>3 DEF ReadThread, EventBySlackId
<1>6. CASE FindReply(h)
  <2>1. tasks[h].pc = "finding"
    BY <1>6 DEF FindReply, At
  <2>2. CASE To(h, "sending")
    BY <1>1, <2>1, <2>2, ToType DEF HasTs, HasEvent, Sending, FromSlack, Pcs
  <2>3. ASSUME NEW e \in 0..Len(timeline), Start(h, [tasks[h] EXCEPT !.pc = "sending", !.target = e])
        PROVE  TasksInv'
    <3>1. e \in 0..MaxEvents /\ e <= Len(timeline)
      BY Lengths
    <3>2. PICK t : t = [tasks[h] EXCEPT !.pc = "sending", !.target = e]
      OBVIOUS
    <3>3. /\ t \in Tasks /\ t.pc = "sending" /\ t.ts = tasks[h].ts /\ t.event = tasks[h].event
          /\ t.target = e /\ t.parent = tasks[h].parent
      BY <3>1, <3>2, TaskFacts DEF Tasks, Pcs
    <3>4. TaskIn(t, Len(channel), Len(timeline))
      BY <2>1, <3>1, <3>3, TaskFacts DEF TaskIn, HasTs, HasEvent, Sending, FromSlack
    <3> QED
      BY <1>1, <2>3, <3>2, <3>3, <3>4, TasksStep
  <2>4. CASE ~To(h, "sending")
    <3>1. PICK r \in rows :
            Start(h, [tasks[h] EXCEPT !.pc = "sending",
                 !.target = IF IsMessage(tasks[h].ts) THEN r.event ELSE @])
      BY <1>6, <2>4 DEF FindReply, ReplyTo, EventBySlackId
    <3>2. PICK e : e = IF IsMessage(tasks[h].ts) THEN r.event ELSE tasks[h].target
      OBVIOUS
    <3>3. Start(h, [tasks[h] EXCEPT !.pc = "sending", !.target = e])
      BY <3>1, <3>2, TaskFacts DEF Tasks
    <3>4. r.event \in 0..Len(timeline) /\ tasks[h].target \in 0..Len(timeline)
      BY TaskFacts, TaskTypes, Lengths DEF TypeInv, DataInv, RowIn, Rows, EventIds, TaskIn
    <3> QED
      BY <2>3, <3>2, <3>3, <3>4
  <2> QED
    BY <2>2, <2>4
<1>7. CASE Locate(h) /\ ~Done(h)
  <2>1. PICK row \in rows : Start(h, [tasks[h] EXCEPT !.pc = "removing", !.event = row.event])
    BY <1>7 DEF Locate, EventBySlackId
  <2>2. PICK t : t = [tasks[h] EXCEPT !.pc = "removing", !.event = row.event]
    OBVIOUS
  <2>3. row.event \in 0..MaxEvents /\ row.event # 0 /\ row.event <= Len(timeline)
    BY Lengths DEF TypeInv, DataInv, RowIn, Rows, EventIds
  <2>4. /\ t \in Tasks /\ t.pc = "removing" /\ t.ts = tasks[h].ts /\ t.event = row.event
        /\ t.target = tasks[h].target /\ t.parent = tasks[h].parent
    BY <2>2, <2>3, TaskFacts DEF Tasks, Pcs
  <2>5. tasks[h].pc = "locating"
    BY <1>7 DEF Locate, At
  <2>6. TaskIn(t, Len(channel), Len(timeline))
    BY <2>3, <2>4, <2>5, TaskFacts DEF TaskIn, HasTs, FromSlack
  <2> QED
    BY <1>1, <2>1, <2>2, <2>4, <2>6, TasksStep
<1>8. ASSUME NEW pc \in {"unstoring", "updating"}, NEW row \in rows,
             tasks[h].pc \in {"redacting", "editing"},
             pc = "updating" => tasks[h].pc = "editing",
             Start(h, [tasks[h] EXCEPT !.pc = pc, !.ts = row.ts])
      PROVE  TasksInv'
  <2>1. PICK t : t = [tasks[h] EXCEPT !.pc = pc, !.ts = row.ts]
    OBVIOUS
  <2>2. row.ts \in 0..MaxTs /\ row.ts # 0 /\ row.ts <= Len(channel)
    BY Lengths DEF TypeInv, DataInv, RowIn, Rows, Ts
  <2>3. /\ t \in Tasks /\ t.pc = pc /\ t.ts = row.ts /\ t.event = tasks[h].event
        /\ t.target = tasks[h].target /\ t.parent = tasks[h].parent
    BY <2>1, <2>2, TaskFacts DEF Tasks, Pcs
  <2>4. tasks[h].event # 0
    BY <1>8, TaskFacts DEF TaskIn, HasEvent
  <2>5. TaskIn(t, Len(channel), Len(timeline))
    BY <1>8, <2>2, <2>3, <2>4, TaskFacts DEF TaskIn
  <2> QED
    BY <1>1, <1>8, <2>1, <2>3, <2>5, TasksStep
<1>9. CASE (ReadRedacted(h) \/ ReadEdited(h)) /\ ~Done(h)
  BY <1>8, <1>9 DEF ReadRedacted, ReadEdited, EventByMatrixId, At
<1>10. CASE MatchEdit(h)
  <2>1. tasks[h].pc = "matching"
    BY <1>10 DEF MatchEdit, At
  <2>2. PICK e : /\ e = 0 \/ \E r \in rows : e = r.event
                 /\ Start(h, [tasks[h] EXCEPT !.pc = FirstStep(channel[tasks[h].ts].edits),
                                              !.target = e])
    BY <1>10 DEF MatchEdit, EventBySlackId
  <2>3. e \in 0..MaxEvents /\ e <= Len(timeline)
    BY <2>2, Lengths DEF TypeInv, DataInv, RowIn, Rows, EventIds
  <2>4. PICK pc \in {"matching", "threading", "sending"} :
          pc = FirstStep(channel[tasks[h].ts].edits)
    BY FirstStepIs
  <2>5. PICK t : t = [tasks[h] EXCEPT !.pc = pc, !.target = e]
    OBVIOUS
  <2>6. /\ t \in Tasks /\ t.pc = pc /\ t.ts = tasks[h].ts /\ t.event = tasks[h].event
        /\ t.target = e /\ t.parent = tasks[h].parent
    BY <2>3, <2>5, TaskFacts DEF Tasks, Pcs
  <2>7. TaskIn(t, Len(channel), Len(timeline))
    BY <2>1, <2>3, <2>6, TaskFacts DEF TaskIn, HasTs, HasEvent, Sending, FromSlack
  <2> QED
    BY <1>1, <2>2, <2>4, <2>5, <2>6, <2>7, TasksStep
<1> QED
  BY <1>2, <1>3, <1>4, <1>5, <1>6, <1>7, <1>9, <1>10 DEF Quiet, CallFails

LEMMA RowsData ==
  ASSUME TypeInv, UNCHANGED <<private, channel, timeline>>, rows' \in SUBSET Rows,
         \A r \in rows' : RowIn(r, Len(channel), Len(timeline))
  PROVE  DataInv'
BY DEF TypeInv, DataInv, EventIn, RowIn

LEMMA TimelineData ==
  ASSUME TypeInv, UNCHANGED <<private, channel, rows>>, Len(timeline) < MaxEvents,
         NEW m \in MatrixEvents, EventIn(m, Len(timeline) + 1, Len(channel)),
         timeline' = Append(timeline, m)
  PROVE  DataInv'
<1>1. \A r \in rows : RowIn(r, Len(channel), Len(timeline) + 1)
  BY Lengths DEF TypeInv, DataInv, RowIn, Rows, EventIds
<1>2. \A e \in 1..Len(timeline') : EventIn(timeline'[e], e, Len(channel'))
  BY TimelineGrows
<1> QED
  BY <1>1, <1>2, TimelineGrows DEF TypeInv, DataInv, RowIn

LEMMA ChannelData ==
  ASSUME TypeInv, UNCHANGED <<private, timeline, rows>>, Len(channel) < MaxTs,
         NEW m \in SlackMessages, m.root <= Len(channel), m.edits <= Len(channel),
         m.edits # 0 => m.root = 0, channel' = Append(channel, m)
  PROVE  DataInv' /\ Len(channel') = Len(channel) + 1
<1>1. \A r \in rows : RowIn(r, Len(channel) + 1, Len(timeline))
  BY Lengths DEF TypeInv, DataInv, RowIn, Rows, Ts
<1>2. \A e \in 1..Len(timeline) : EventIn(timeline[e], e, Len(channel) + 1)
  <2> SUFFICES ASSUME NEW e \in 1..Len(timeline)
               PROVE  EventIn(timeline[e], e, Len(channel) + 1)
    OBVIOUS
  <2>1. timeline[e] \in MatrixEvents /\ EventIn(timeline[e], e, Len(channel))
    BY DEF TypeInv, DataInv
  <2>2. timeline[e].ts \in Nat
    BY <2>1, Lengths DEF MatrixEvents
  <2> QED
    BY <2>1, <2>2, Lengths DEF EventIn
<1> QED
  BY <1>1, <1>2, ChannelGrows DEF TypeInv, DataInv

\* A message is marked as deleted.
LEMMA DeletedIs ==
  ASSUME TypeInv, NEW ts \in 1..Len(channel), NEW d \in {"slack", "matrix"},
         channel' = [channel EXCEPT ![ts].deleted = d]
  PROVE  /\ channel' \in Seq(SlackMessages) /\ Len(channel') = Len(channel)
         /\ \A t \in 1..Len(channel) :
              /\ channel'[t].from = channel[t].from /\ channel'[t].root = channel[t].root
              /\ channel'[t].edits = channel[t].edits
         /\ \A t \in 1..Len(channel) \ {ts} : channel'[t] = channel[t]
         /\ channel'[ts].deleted = d
<1>1. channel \in Seq(SlackMessages) /\ DOMAIN channel = 1..Len(channel)
  BY Lengths DEF TypeInv, DataInv
<1>2. \A t \in 1..Len(channel) : channel[t] \in SlackMessages
  BY <1>1
<1> DEFINE m == [channel[ts] EXCEPT !.deleted = d]
<1>3. /\ m \in SlackMessages /\ m.from = channel[ts].from /\ m.root = channel[ts].root
      /\ m.edits = channel[ts].edits /\ m.deleted = d
  BY <1>2 DEF SlackMessages
<1>4. channel' = [channel EXCEPT ![ts] = m]
  OBVIOUS
<1> HIDE DEF m
<1> QED
  BY <1>1, <1>3, <1>4, ExceptSeq

\* An event is marked as redacted.
LEMMA RedactedIs ==
  ASSUME TypeInv, NEW e \in 1..Len(timeline), NEW r \in {"no", "refused", "matrix", "bridge"},
         timeline' = [timeline EXCEPT ![e].redacted = r]
  PROVE  /\ timeline' \in Seq(MatrixEvents) /\ Len(timeline') = Len(timeline)
         /\ \A d \in 1..Len(timeline) :
              /\ timeline'[d].kind = timeline[d].kind /\ timeline'[d].ts = timeline[d].ts
              /\ timeline'[d].relates = timeline[d].relates
         /\ \A d \in 1..Len(timeline) \ {e} : timeline'[d] = timeline[d]
         /\ timeline'[e].redacted = r
<1>1. timeline \in Seq(MatrixEvents) /\ DOMAIN timeline = 1..Len(timeline)
  BY Lengths DEF TypeInv, DataInv
<1>2. \A d \in 1..Len(timeline) : timeline[d] \in MatrixEvents
  BY <1>1
<1> DEFINE m == [timeline[e] EXCEPT !.redacted = r]
<1>3. /\ m \in MatrixEvents /\ m.kind = timeline[e].kind /\ m.ts = timeline[e].ts
      /\ m.relates = timeline[e].relates /\ m.redacted = r
  BY <1>2 DEF MatrixEvents
<1>4. timeline' = [timeline EXCEPT ![e] = m]
  OBVIOUS
<1> HIDE DEF m
<1> QED
  BY <1>1, <1>3, <1>4, ExceptSeq

LEMMA DeletedData ==
  ASSUME TypeInv, UNCHANGED <<private, timeline, rows>>,
         NEW ts \in 1..Len(channel), NEW d \in {"slack", "matrix"},
         channel' = [channel EXCEPT ![ts].deleted = d]
  PROVE  DataInv' /\ Len(channel') = Len(channel)
BY DeletedIs DEF TypeInv, DataInv, EventIn, RowIn

LEMMA RedactedData ==
  ASSUME TypeInv, UNCHANGED <<private, channel, rows>>,
         NEW e \in 1..Len(timeline), NEW r \in {"no", "refused", "matrix", "bridge"},
         timeline' = [timeline EXCEPT ![e].redacted = r]
  PROVE  DataInv' /\ Len(timeline') = Len(timeline)
<1>1. \A d \in 1..Len(timeline) : EventIn(timeline'[d], d, Len(channel))
  BY RedactedIs DEF TypeInv, DataInv, EventIn
<1> QED
  BY <1>1, RedactedIs DEF TypeInv, DataInv, RowIn

\* addRecentSlackMessage
LEMMA RecentRoom ==
  ASSUME TypeInv, NEW ts \in Ts, AddRecentSlackMessage(ts), UNCHANGED lock
  PROVE  RoomInv'
<1>1. recent' \in Seq(Ts) /\ Len(recent') <= RecentMax
  BY RememberedIs DEF AddRecentSlackMessage, TypeInv, RoomInv
<1>2. Elements(recent) \subseteq Ts
  BY DEF TypeInv, RoomInv, Elements
<1> QED
  BY <1>1, <1>2 DEF AddRecentSlackMessage, TypeInv, RoomInv

LEMMA UnlockRoom ==
  ASSUME TypeInv, lock # <<>>, lock' = Tail(lock), UNCHANGED <<recent, forgotten>>
  PROVE  RoomInv'
BY HeadTailProperties DEF TypeInv, RoomInv

\* What comes from Matrix: the event is in the room, the handler has it.
LEMMA MatrixType ==
  ASSUME TypeInv, NEW h \in Handlers, MatrixMessage(h) \/ MatrixRedacts(h) \/ MatrixEdits(h)
  PROVE  TypeInv'
<1>1. ASSUME NEW m \in MatrixEvents, NEW t, m.ts = 0, m.kind # "copy",
             m.relates <= Len(timeline), Len(timeline) < MaxEvents,
             timeline' = Append(timeline, m), UNCHANGED <<private, slack, rows, room>>,
             t \in Tasks, TaskIn(t, Len(channel), Len(timeline) + 1), Start(h, t)
      PROVE  TypeInv'
  <2>1. EventIn(m, Len(timeline) + 1, Len(channel))
    BY <1>1, Lengths DEF EventIn, MatrixEvents
  <2>2. DataInv' /\ Len(timeline') = Len(timeline) + 1
    BY <1>1, <2>1, TimelineData, TimelineGrows DEF slack
  <2>3. TasksInv'
    BY <1>1, <2>2, Lengths, TasksStep DEF slack
  <2> QED
    BY <1>1, <2>2, <2>3 DEF TypeInv, RoomInv, SlackInv, room, slack
<1>2. CASE MatrixMessage(h)
  <2>1. PICK from \in {"bot", "puppet"}, root \in 0..Len(timeline) :
          /\ Len(timeline) < MaxEvents
          /\ timeline' = Append(timeline, [kind |-> "message", ts |-> 0,
                                           relates |-> root, redacted |-> "no"])
          /\ Start(h, [Idle EXCEPT !.pc = "reading", !.from = from,
                                   !.event = Len(timeline) + 1, !.target = root])
          /\ UNCHANGED <<private, slack, rows, room>>
    BY <1>2 DEF MatrixMessage
  <2>2. PICK m : m = [kind |-> "message", ts |-> 0, relates |-> root, redacted |-> "no"]
    OBVIOUS
  <2>3. PICK t : t = [Idle EXCEPT !.pc = "reading", !.from = from,
                                  !.event = Len(timeline) + 1, !.target = root]
    OBVIOUS
  <2>4. root \in 0..MaxEvents /\ Len(timeline) + 1 \in 0..MaxEvents /\ root <= Len(timeline) + 1
        /\ Len(timeline) + 1 # 0 /\ 0 \in 0..MaxTs /\ 0 <= Len(channel)
    BY <2>1, Lengths
  <2>5. m \in MatrixEvents /\ m.ts = 0 /\ m.kind = "message" /\ m.relates = root
    BY <2>2, <2>4 DEF MatrixEvents
  <2>6. /\ t \in Tasks /\ t.pc = "reading" /\ t.ts = 0 /\ t.event = Len(timeline) + 1
        /\ t.target = root /\ t.parent = {}
    BY <2>3, <2>4 DEF Idle, Tasks, Pcs
  <2>7. TaskIn(t, Len(channel), Len(timeline) + 1)
    BY <2>4, <2>6 DEF TaskIn, HasTs, Sending, FromSlack
  <2> QED
    BY <1>1, <2>1, <2>2, <2>3, <2>5, <2>6, <2>7
<1>3. CASE MatrixEdits(h)
  <2>1. PICK e \in 1..Len(timeline) :
          /\ Len(timeline) < MaxEvents
          /\ timeline' = Append(timeline, [kind |-> "edit", ts |-> 0,
                                           relates |-> e, redacted |-> "no"])
          /\ Start(h, [Idle EXCEPT !.pc = "editing", !.event = Len(timeline) + 1,
                                   !.target = e])
          /\ UNCHANGED <<private, slack, rows, room>>
    BY <1>3, Lengths DEF MatrixEdits
  <2>2. PICK m : m = [kind |-> "edit", ts |-> 0, relates |-> e, redacted |-> "no"]
    OBVIOUS
  <2>3. PICK t : t = [Idle EXCEPT !.pc = "editing", !.event = Len(timeline) + 1, !.target = e]
    OBVIOUS
  <2>4. e \in 0..MaxEvents /\ Len(timeline) + 1 \in 0..MaxEvents /\ e <= Len(timeline) + 1
        /\ Len(timeline) + 1 # 0 /\ e # 0 /\ 0 \in 0..MaxTs /\ 0 <= Len(channel)
    BY <2>1, Lengths
  <2>5. m \in MatrixEvents /\ m.ts = 0 /\ m.kind = "edit" /\ m.relates = e
    BY <2>2, <2>4 DEF MatrixEvents
  <2>6. /\ t \in Tasks /\ t.pc = "editing" /\ t.ts = 0 /\ t.event = Len(timeline) + 1
        /\ t.target = e /\ t.parent = {}
    BY <2>3, <2>4 DEF Idle, Tasks, Pcs
  <2>7. TaskIn(t, Len(channel), Len(timeline) + 1)
    BY <2>4, <2>6 DEF TaskIn, HasTs, Sending, FromSlack
  <2> QED
    BY <1>1, <2>1, <2>2, <2>3, <2>4, <2>5, <2>6, <2>7
<1>4. CASE MatrixRedacts(h)
  <2>1. PICK e \in 1..Len(timeline) :
          /\ timeline' = [timeline EXCEPT ![e].redacted = "matrix"]
          /\ Start(h, [Idle EXCEPT !.pc = "redacting", !.event = e])
          /\ UNCHANGED <<private, slack, rows, room>>
    BY <1>4, Lengths DEF MatrixRedacts
  <2>2. PICK t : t = [Idle EXCEPT !.pc = "redacting", !.event = e]
    OBVIOUS
  <2>3. /\ e \in 0..MaxEvents /\ e # 0 /\ e <= Len(timeline) /\ 0 <= Len(channel)
        /\ 0 <= Len(timeline) /\ 0 \in 0..MaxEvents /\ 0 \in 0..MaxTs
    BY Lengths
  <2>4. /\ t \in Tasks /\ t.pc = "redacting" /\ t.ts = 0 /\ t.event = e
        /\ t.target = 0 /\ t.parent = {}
    BY <2>2, <2>3 DEF Idle, Tasks, Pcs
  <2>5. TaskIn(t, Len(channel), Len(timeline))
    BY <2>3, <2>4 DEF TaskIn, HasTs, Sending, FromSlack
  <2>6. DataInv' /\ Len(timeline') = Len(timeline)
    BY <2>1, RedactedData DEF slack
  <2>7. TasksInv'
    BY <2>1, <2>2, <2>4, <2>5, <2>6, Lengths, TasksStep DEF slack
  <2> QED
    BY <2>1, <2>6, <2>7 DEF TypeInv, RoomInv, SlackInv, room, slack
<1> QED
  BY <1>2, <1>3, <1>4

\* What comes from Slack: the handler has the ts.
LEMMA SlackType ==
  ASSUME TypeInv, NEW h \in Handlers,
         DeletionArrives(h) \/ \E s \in Streams : Deliver(h, s)
  PROVE  TypeInv'
<1>0. Len(channel) \in Nat /\ Len(timeline) \in Nat /\ channel' = channel /\ timeline' = timeline
  <2>1. Len(channel) \in Nat /\ Len(timeline) \in Nat
    BY Lengths
  <2> QED
    BY <2>1 DEF DeletionArrives, Deliver
<1>1. ASSUME NEW ts \in 1..Len(channel), NEW t \in Tasks, t.ts = ts, t.event = 0,
             t.target = 0, t.parent = {}, t.pc \in {"arrived", "locating"}, Start(h, t)
      PROVE  TasksInv'
  <2>1. ts # 0 /\ ts <= Len(channel) /\ 0 <= Len(timeline)
    BY <1>0
  <2>2. TaskIn(t, Len(channel), Len(timeline))
    BY <1>1, <2>1 DEF TaskIn, HasEvent, Sending
  <2> QED
    BY <1>0, <1>1, <2>2, TasksStep
<1>2. CASE DeletionArrives(h)
  <2>1. PICK ts \in notices : Start(h, [Idle EXCEPT !.pc = "locating", !.ts = ts])
                              /\ notices' = notices \ {ts}
    BY <1>2 DEF DeletionArrives
  <2>2. PICK t : t = [Idle EXCEPT !.pc = "locating", !.ts = ts]
    OBVIOUS
  <2>3. ts \in 1..Len(channel) /\ ts \in 0..MaxTs /\ 0 \in 0..MaxEvents
    BY Lengths DEF TypeInv, SlackInv
  <2>4. /\ t \in Tasks /\ t.ts = ts /\ t.event = 0 /\ t.target = 0 /\ t.parent = {}
        /\ t.pc = "locating"
    BY <2>2, <2>3 DEF Idle, Tasks, Pcs
  <2>5. TasksInv'
    BY <1>1, <2>1, <2>2, <2>3, <2>4
  <2> QED
    BY <1>2, <2>1, <2>5
    DEF DeletionArrives, TypeInv, DataInv, RoomInv, SlackInv, room, EventIn, RowIn
<1>3. CASE \E s \in Streams : Deliver(h, s)
  <2>1. PICK s \in Streams : Deliver(h, s)
    BY <1>3
  <2> DEFINE ts == seen[s] + 1
  <2>2. /\ ts <= Len(channel) /\ seen' = [seen EXCEPT ![s] = ts] /\ notices' = notices
        /\ UNCHANGED tasks \/ Start(h, [Idle EXCEPT !.pc = "arrived", !.ts = ts,
                                                    !.from = channel[ts].from])
    BY <2>1 DEF Deliver
  <2>3. seen[s] \in Nat /\ MaxTs \in Nat /\ Len(channel) <= MaxTs
    BY Lengths DEF TypeInv, SlackInv
  <2>4. ts \in 1..Len(channel) /\ ts \in 0..MaxTs
    BY <1>0, <2>2, <2>3
  <2>5. CASE UNCHANGED tasks
    <3>1. TasksInv'
      BY <1>0, <2>5 DEF TypeInv, TasksInv, TaskIn, RowIn
    <3>2. SlackInv'
      BY <1>0, <2>2, <2>4 DEF TypeInv, SlackInv
    <3> QED
      BY <2>1, <3>1, <3>2 DEF Deliver, TypeInv, DataInv, RoomInv, room, EventIn, RowIn
  <2>6. ASSUME Start(h, [Idle EXCEPT !.pc = "arrived", !.ts = ts, !.from = channel[ts].from])
        PROVE  TypeInv'
    <3>1. PICK t : t = [Idle EXCEPT !.pc = "arrived", !.ts = ts, !.from = channel[ts].from]
      OBVIOUS
    <3>2. channel[ts] \in SlackMessages /\ 0 \in 0..MaxEvents
      BY <2>4, Lengths DEF TypeInv, DataInv
    <3>3. /\ t \in Tasks /\ t.ts = ts /\ t.event = 0 /\ t.target = 0 /\ t.parent = {}
          /\ t.pc = "arrived"
      BY <2>4, <3>1, <3>2 DEF Idle, Tasks, Pcs, SlackMessages
    <3>4. TasksInv'
      BY <1>1, <2>4, <2>6, <3>1, <3>3
    <3>5. SlackInv'
      BY <1>0, <2>2, <2>4 DEF TypeInv, SlackInv
    <3> QED
      BY <2>1, <3>4, <3>5 DEF Deliver, TypeInv, DataInv, RoomInv, room, EventIn, RowIn
  <2> QED
    BY <2>2, <2>5, <2>6
<1> QED
  BY <1>2, <1>3

\* What Slack appends to the channel.
LEMMA PostedIs ==
  ASSUME TypeInv, NEW from \in {"slack", "bot", "puppet"}, NEW root \in 0..Len(channel)
  PROVE  LET m == SlackMessageBy(from, root)
         IN  /\ m \in SlackMessages /\ m.from = from /\ m.root = root /\ m.edits = 0
             /\ m.deleted = "no" /\ m.root <= Len(channel) /\ m.edits <= Len(channel)
<1>1. root \in 0..MaxTs /\ 0 \in 0..MaxTs /\ root <= Len(channel) /\ 0 <= Len(channel)
  BY Lengths
<1> QED
  BY <1>1 DEF SlackMessageBy, SlackMessages

LEMMA EditIs ==
  ASSUME TypeInv, NEW from \in {"slack", "bot", "puppet"}, NEW ts \in 1..Len(channel)
  PROVE  LET m == SlackEditBy(from, ts)
         IN  /\ m \in SlackMessages /\ m.from = from /\ m.root = 0 /\ m.edits = ts
             /\ m.deleted = "no" /\ m.root <= Len(channel) /\ m.edits <= Len(channel)
<1>1. ts \in 0..MaxTs /\ 0 \in 0..MaxTs /\ ts <= Len(channel) /\ 0 <= Len(channel)
  BY Lengths
<1> QED
  BY <1>1 DEF SlackEditBy, SlackMessages

LEMMA ChannelType ==
  ASSUME TypeInv, SlackMessage \/ SlackEdits \/ SlackDeletes
  PROVE  TypeInv'
<1>0. Len(channel) \in Nat /\ Len(timeline) \in Nat
  BY Lengths
<1>1. ASSUME DataInv', Len(channel) <= Len(channel'), Len(channel') \in Nat,
             UNCHANGED <<timeline, tasks>>
      PROVE  TasksInv'
  <2>1. CASE Handlers = {}
    BY <1>1, <2>1 DEF TypeInv, TasksInv
  <2>2. CASE Handlers # {}
    <3>1. PICK h \in Handlers : TRUE
      BY <2>2
    <3>2. tasks \in [Handlers -> Tasks]
      BY DEF TypeInv, TasksInv
    <3>3. To(h, tasks[h].pc)
      BY <1>1, <3>2 DEF To, Start, Tasks
    <3> QED
      BY <1>0, <1>1, <3>3, ToType, TaskTypes
  <2> QED
    BY <2>1, <2>2
<1>2. CASE SlackMessage
  <2>1. PICK root \in 0..Len(channel) :
          /\ Len(channel) < MaxTs
          /\ channel' = Append(channel, SlackMessageBy("slack", root))
          /\ UNCHANGED <<private, seen, notices, timeline, rows, room, tasks>>
    BY <1>2 DEF SlackMessage
  <2>2. PICK m : m = SlackMessageBy("slack", root)
    OBVIOUS
  <2>3. /\ m \in SlackMessages /\ m.root <= Len(channel) /\ m.edits <= Len(channel)
        /\ m.edits # 0 => m.root = 0
    BY <2>2, PostedIs, Lengths
  <2>4. DataInv' /\ Len(channel') = Len(channel) + 1
    BY <2>1, <2>2, <2>3, ChannelData
  <2> QED
    BY <1>0, <1>1, <2>1, <2>4 DEF TypeInv, RoomInv, SlackInv, room
<1>4. CASE SlackEdits
  <2>1. PICK ts \in 1..Len(channel) :
          /\ Len(channel) < MaxTs
          /\ channel' = Append(channel, SlackEditBy("slack", ts))
          /\ UNCHANGED <<private, seen, notices, timeline, rows, room, tasks>>
    BY <1>2, <1>4, Lengths DEF SlackEdits
  <2>2. PICK m : m = SlackEditBy("slack", ts)
    OBVIOUS
  <2>3. /\ m \in SlackMessages /\ m.root <= Len(channel) /\ m.edits <= Len(channel)
        /\ m.edits # 0 => m.root = 0
    BY <2>2, EditIs, Lengths
  <2>4. DataInv' /\ Len(channel') = Len(channel) + 1
    BY <2>1, <2>2, <2>3, ChannelData
  <2> QED
    BY <1>0, <1>1, <2>1, <2>4 DEF TypeInv, RoomInv, SlackInv, room
<1>3. CASE SlackDeletes
  <2>1. PICK ts \in 1..Len(channel) :
          /\ channel' = [channel EXCEPT ![ts].deleted = "slack"]
          /\ notices' = notices \cup {ts}
          /\ UNCHANGED <<private, seen, timeline, rows, room, tasks>>
    BY <1>3, Lengths DEF SlackDeletes
  <2>2. DataInv' /\ Len(channel') = Len(channel)
    BY <2>1, DeletedData
  <2> QED
    BY <1>0, <1>1, <2>1, <2>2 DEF TypeInv, RoomInv, SlackInv, room
<1> QED
  BY <1>2, <1>3, <1>4

\* Who holds the lock is at its head.
LEMMA HolderIs ==
  ASSUME TypeInv, LockInv, NEW h \in Handlers, tasks[h].pc \in Chained
  PROVE  lock # <<>> /\ 1 \in DOMAIN lock /\ h \in Elements(lock) /\ Head(lock) = lock[1]
<1>1. h \in Elements(lock)
  BY DEF LockInv
<1>2. lock # <<>>
  BY <1>1, EmptySeq DEF Elements, TypeInv, RoomInv
<1> QED
  BY <1>1, <1>2, LenProperties, EmptySeq DEF TypeInv, RoomInv

\* Posting, and what comes of it.
LEMMA PostType ==
  ASSUME TypeInv, NEW h \in Handlers, Post(h)
  PROVE  TypeInv'
<1>1. PICK root : /\ root = 0 \/ \E r \in tasks[h].parent : root = r.ts
                  /\ channel' = Append(channel, SlackMessageBy(tasks[h].from, root))
  BY DEF Post
<1>2. root \in 0..MaxTs /\ root <= Len(channel)
  <2>1. CASE root = 0
    BY <2>1, Lengths
  <2>2. ASSUME NEW r \in tasks[h].parent, root = r.ts
        PROVE  root \in 0..MaxTs /\ root <= Len(channel)
    BY <2>2, TaskFacts, Lengths DEF TaskIn, RowIn, Tasks, Rows, Ts
  <2> QED
    BY <1>1, <2>1, <2>2
<1>3. PICK m : m = SlackMessageBy(tasks[h].from, root)
  OBVIOUS
<1>4. /\ m \in SlackMessages /\ m.root <= Len(channel) /\ m.edits <= Len(channel)
      /\ m.edits # 0 => m.root = 0
  BY <1>2, <1>3, TaskTypes, PostedIs, Lengths
<1>5. DataInv' /\ Len(channel') = Len(channel) + 1
  BY <1>1, <1>2, <1>3, <1>4, ChannelData DEF Post
<1>6. PICK t : t = [tasks[h] EXCEPT !.pc = "answering", !.ts = Len(channel) + 1]
  OBVIOUS
<1>7. Len(channel) + 1 \in 0..MaxTs /\ Len(channel) \in Nat /\ Len(timeline) \in Nat
  BY Lengths DEF Post
<1>8. /\ t \in Tasks /\ t.pc = "answering" /\ t.ts = Len(channel) + 1
      /\ t.event = tasks[h].event /\ t.target = tasks[h].target /\ t.parent = tasks[h].parent
  BY <1>6, <1>7, TaskFacts DEF Tasks, Pcs
<1>9. tasks[h].event # 0
  BY TaskFacts DEF Post, At, TaskIn, HasEvent
<1>10. \A r \in tasks[h].parent : RowIn(r, Len(channel) + 1, Len(timeline))
  BY <1>7, TaskFacts DEF TaskIn, RowIn, Tasks, Rows, Ts
<1>11. TaskIn(t, Len(channel) + 1, Len(timeline))
  BY <1>7, <1>8, <1>9, <1>10, TaskFacts DEF TaskIn
<1>12. TasksInv'
  BY <1>5, <1>6, <1>7, <1>8, <1>11, TasksStep DEF Post
<1> QED
  BY <1>5, <1>7, <1>12 DEF Post, TypeInv, RoomInv, SlackInv, room

\* chat.update: Slack tells the edit, and the handler goes on to store it.
LEMMA UpdateIs ==
  ASSUME TypeInv, NEW h \in Handlers, Update(h)
  PROVE  /\ tasks[h].pc = "updating" /\ To(h, "storingEdit") /\ Len(channel) < MaxTs
         /\ UNCHANGED <<private, seen, notices, timeline, rows, room>>
         /\ Len(channel') = Len(channel) + 1 /\ DataInv'
         /\ \A ts \in 1..Len(channel) : channel'[ts] = channel[ts]
         /\ LET m == channel'[Len(channel) + 1]
            IN  /\ m.from = channel[tasks[h].ts].from /\ m.root = 0 /\ m.deleted = "no"
                /\ m.edits = tasks[h].ts /\ m.edits # 0
<1>1. tasks[h].pc = "updating" /\ tasks[h].ts \in 1..Len(channel)
  BY TaskTypes DEF Update, At, HasTs
<1>2. channel[tasks[h].ts].from \in {"slack", "bot", "puppet"}
  <2>1. channel[tasks[h].ts] \in SlackMessages
    BY <1>1 DEF TypeInv, DataInv
  <2> QED
    BY <2>1 DEF SlackMessages
<1>3. PICK m : m = SlackEditBy(channel[tasks[h].ts].from, tasks[h].ts)
  OBVIOUS
<1>4. /\ m \in SlackMessages /\ m.from = channel[tasks[h].ts].from /\ m.root = 0
      /\ m.edits = tasks[h].ts /\ m.deleted = "no"
      /\ m.root <= Len(channel) /\ m.edits <= Len(channel)
  BY <1>1, <1>2, <1>3, EditIs
<1>5. channel' = Append(channel, m) /\ Len(channel) < MaxTs
  BY <1>3 DEF Update
<1>6. DataInv'
  BY <1>4, <1>5, ChannelData DEF Update
<1> QED
  BY <1>1, <1>4, <1>5, <1>6, ChannelGrows DEF Update

LEMMA UpdateType ==
  ASSUME TypeInv, NEW h \in Handlers, Update(h)
  PROVE  TypeInv'
<1>1. Len(channel') \in Nat /\ Len(timeline) \in Nat /\ Len(channel) <= Len(channel')
      /\ timeline' = timeline
  BY UpdateIs, Lengths
<1>2. To(h, "storingEdit") /\ tasks[h].pc = "updating"
  BY DEF Update, At
<1>3. /\ "storingEdit" \in Pcs /\ tasks[h].pc \in HasTs /\ tasks[h].pc \in HasEvent
      /\ tasks[h].pc \in {"editing", "updating", "storingEdit"}
      /\ Len(timeline') \in Nat /\ Len(channel) \in Nat /\ Len(timeline) <= Len(timeline')
  BY <1>1, <1>2, Lengths DEF HasTs, HasEvent, Pcs
<1>4. TasksInv'
  BY <1>1, <1>2, <1>3, ToType
<1>5. SlackInv'
  <2>1. seen' = seen /\ notices' = notices /\ Len(channel') = Len(channel) + 1
        /\ Len(channel) \in Nat
    BY <1>3, UpdateIs
  <2>2. seen \in [Streams -> 0..MaxTs] /\ MaxTs \in Nat /\ notices \subseteq 1..Len(channel)
        /\ \A s \in Streams : seen[s] <= Len(channel)
    BY Lengths DEF TypeInv, SlackInv
  <2>3. \A s \in Streams : seen[s] \in Nat
    BY <2>2
  <2> QED
    BY <2>1, <2>2, <2>3 DEF SlackInv
<1> QED
  BY <1>4, <1>5, UpdateIs DEF TypeInv, RoomInv, room

LEMMA AnswerType ==
  ASSUME TypeInv, NEW h \in Handlers, Answered(h) \/ AnswerLost(h)
  PROVE  TypeInv'
<1>1. tasks[h].pc = "answering" /\ tasks[h].ts \in Ts
  BY TaskTypes DEF Answered, AnswerLost, At, HasTs, Sending
<1>2. Len(channel) \in Nat /\ Len(timeline) \in Nat
  BY Lengths
<1>3. UNCHANGED <<private, slack, timeline, rows, lock>>
  BY DEF Answered, AnswerLost
<1>4. TasksInv'
  <2>1. CASE Answered(h)
    BY <1>1, <1>2, <1>3, <2>1, ToType
    DEF Answered, slack, HasTs, HasEvent, Sending, Pcs
  <2>2. CASE AnswerLost(h)
    BY <1>2, <1>3, <2>2, DoneType DEF AnswerLost, slack
  <2> QED
    BY <2>1, <2>2
<1>5. RoomInv'
  BY <1>1, RecentRoom DEF Answered, AnswerLost, TypeInv, RoomInv
<1> QED
  BY <1>3, <1>4, <1>5, RowsData DEF TypeInv, DataInv, SlackInv, slack

\* The steps that write a row.
LEMMA RowsType ==
  ASSUME TypeInv, LockInv, NEW h \in Handlers,
         \/ StoreSent(h) \/ StoreList(h) \/ WriteThread(h) \/ RecordCopy(h)
         \/ StoreEdit(h) \/ Unstore(h)
  PROVE  TypeInv'
<1>1. Len(channel) \in Nat /\ Len(timeline) \in Nat
  BY Lengths
<1>2. UNCHANGED <<private, slack, timeline, recent, forgotten>>
  BY DEF StoreSent, StoreList, WriteThread, Leave, RecordCopy, StoreEdit, Unstore, room
<1>3. rows' \in SUBSET Rows /\ \A r \in rows' : RowIn(r, Len(channel), Len(timeline))
  <2>1. CASE StoreSent(h) \/ RecordCopy(h) \/ StoreEdit(h)
    <3>1. tasks[h].event \in EventIds /\ tasks[h].ts \in Ts
          /\ tasks[h].event <= Len(timeline) /\ tasks[h].ts <= Len(channel)
      BY <2>1, TaskTypes, TaskFacts
      DEF StoreSent, Leave, RecordCopy, StoreEdit, At, HasTs, HasEvent, Sending, FromSlack, TaskIn
    <3>2. UpsertEvent(NewRow(tasks[h].event, tasks[h].ts))
      BY <2>1 DEF StoreSent, Leave, RecordCopy, StoreEdit
    <3> QED
      BY <3>1, <3>2, NewRowIs, UpsertIs DEF RowIn
  <2>2. CASE StoreList(h) \/ WriteThread(h)
    <3>1. PICK row \in tasks[h].parent, ts \in {tasks[h].ts, Subject(h)} :
             UpsertEvent(Listed(row, ts))
      BY <2>2 DEF StoreList, WriteThread
    <3>2. ts \in Ts
      BY <2>2, TaskTypes, SubjectIs DEF StoreList, WriteThread, At, HasTs, Sending, FromSlack
    <3>3. row \in Rows /\ RowIn(row, Len(channel), Len(timeline))
      BY TaskFacts DEF TaskIn, Tasks
    <3> QED
      BY <3>1, <3>2, <3>3, ListedIs, UpsertIs DEF RowIn
  <2>3. CASE Unstore(h)
    BY <2>3 DEF Unstore, TypeInv, DataInv
  <2> QED
    BY <2>1, <2>2, <2>3
<1>4. TasksInv'
  <2>1. CASE Done(h)
    BY <1>1, <1>2, <2>1, DoneType DEF slack
  <2>2. CASE StoreSent(h) /\ To(h, "listing")
    BY <1>1, <1>2, <2>2, ToType DEF StoreSent, At, slack, HasTs, HasEvent, Sending, Pcs
  <2>3. CASE WriteThread(h)
    BY <1>1, <1>2, <2>3, ToType
    DEF WriteThread, At, slack, HasTs, HasEvent, Sending, FromSlack, Pcs
  <2>4. CASE Unstore(h)
    BY <1>1, <1>2, <2>4, ToType DEF Unstore, At, slack, HasTs, HasEvent, Pcs
  <2> QED
    BY <2>1, <2>2, <2>3, <2>4 DEF StoreSent, StoreList, Leave, RecordCopy, StoreEdit
<1>5. RoomInv'
  <2>1. CASE RecordCopy(h)
    <3>1. lock # <<>>
      BY <2>1, HolderIs DEF Leave, RecordCopy, At, Chained, Begun
    <3> QED
      BY <2>1, <3>1, UnlockRoom DEF Leave, RecordCopy
  <2>2. CASE ~RecordCopy(h)
    BY <2>2
    DEF TypeInv, RoomInv, StoreSent, StoreList, WriteThread, StoreEdit, Unstore, room
  <2> QED
    BY <2>1, <2>2
<1> QED
  BY <1>2, <1>3, <1>4, <1>5, RowsData DEF TypeInv, SlackInv, slack

\* The steps on the chain.
LEMMA ChainType ==
  ASSUME TypeInv, LockInv, NEW h \in Handlers, Enqueue(h) \/ Begin(h) \/ Drops(h)
  PROVE  TypeInv'
<1>1. Len(channel) \in Nat /\ Len(timeline) \in Nat
  BY Lengths
<1>2. UNCHANGED <<private, slack, timeline, rows>>
  BY DEF Enqueue, Leave, Begin, Drops, SendFails, DropEdit
<1>3. /\ tasks[h].pc \in {"naming", "queued", "matching", "threading", "finding", "sending"}
      /\ tasks[h].ts \in Ts
  BY TaskTypes DEF Enqueue, Leave, Begin, Drops, SendFails, DropEdit, At, HasTs, FromSlack
<1>4. TasksInv'
  <2>1. CASE Done(h)
    BY <1>1, <1>2, <2>1, DoneType DEF slack
  <2>2. ASSUME NEW pc \in {"queued", "matching", "threading", "sending"}, To(h, pc)
        PROVE  TasksInv'
    BY <1>1, <1>2, <1>3, <2>2, ToType DEF slack, HasTs, HasEvent, Sending, FromSlack, Pcs
  <2> QED
    BY <2>1, <2>2, FirstStepIs DEF Enqueue, Leave, Begin, Drops, SendFails, DropEdit
<1>5. RoomInv'
  <2>1. CASE Enqueue(h)
    BY <2>1, AppendProperties DEF Enqueue, TypeInv, RoomInv
  <2>2. CASE Begin(h) /\ ~(tasks[h].ts \in Elements(recent))
    BY <1>3, <2>2, RecentRoom DEF Leave, Begin
  <2>3. CASE Drops(h) \/ (Begin(h) /\ tasks[h].ts \in Elements(recent))
    <3>1. lock # <<>>
      BY <2>3, HolderIs DEF Leave, Drops, SendFails, DropEdit, Begin, At, Chained, Begun
    <3> QED
      BY <2>3, <3>1, UnlockRoom DEF Leave, Drops, SendFails, DropEdit, Begin
  <2> QED
    BY <2>1, <2>2, <2>3
<1> QED
  BY <1>2, <1>4, <1>5, RowsData DEF TypeInv, DataInv, SlackInv, slack

\* The copy's event, whose thread is that of the event it replies to.
LEMMA SendIs ==
  ASSUME TypeInv, NEW h \in Handlers, Send(h)
  PROVE  /\ Len(timeline) < MaxEvents /\ UNCHANGED <<private, slack, rows, room>>
         /\ \E m \in MatrixEvents :
              /\ m.kind = "copy" /\ m.ts = tasks[h].ts /\ m.redacted = "no"
              /\ m.relates <= Len(timeline) /\ (tasks[h].target # 0 => m.relates # 0)
              /\ EventIn(m, Len(timeline) + 1, Len(channel))
              /\ timeline' = Append(timeline, m)
         /\ \E t \in Tasks :
              /\ t = [tasks[h] EXCEPT !.pc = "recording", !.event = Len(timeline) + 1]
              /\ t.pc = "recording" /\ t.ts = tasks[h].ts /\ t.event = Len(timeline) + 1
              /\ t.target = tasks[h].target /\ t.parent = tasks[h].parent
              /\ Start(h, t)
<1> DEFINE reply == tasks[h].target
           relates == IF reply # 0 /\ timeline[reply].relates # 0 /\ IsMessage(tasks[h].ts)
                      THEN timeline[reply].relates ELSE reply
<1>1. reply \in 0..Len(timeline) /\ Len(timeline) \in Nat
  BY TaskTypes, TaskFacts, Lengths DEF TaskIn
<1>2. relates \in 0..Len(timeline) /\ (reply # 0 => relates # 0)
  <2>1. CASE reply # 0
    <3>1. timeline[reply] \in MatrixEvents /\ EventIn(timeline[reply], reply, Len(channel))
      BY <1>1, <2>1 DEF TypeInv, DataInv
    <3>2. timeline[reply].relates \in 0..MaxEvents /\ timeline[reply].relates < reply
      BY <3>1 DEF MatrixEvents, EventIn
    <3>3. timeline[reply].relates \in 0..Len(timeline)
      BY <1>1, <3>2, Lengths
    <3> QED
      BY <1>1, <2>1, <3>3
  <2>2. CASE reply = 0
    BY <1>1, <2>2
  <2> QED
    BY <2>1, <2>2
<1>3. Len(timeline) < MaxEvents /\ MaxEvents \in Nat
  BY Lengths DEF Send
<1>4. tasks[h].ts \in 0..MaxTs /\ tasks[h].ts # 0 /\ tasks[h].ts <= Len(channel)
  BY TaskTypes, TaskFacts DEF Send, At, TaskIn, HasTs, FromSlack
<1>5. PICK m : m = [kind |-> "copy", ts |-> tasks[h].ts, redacted |-> "no",
                    relates |-> relates]
  OBVIOUS
<1>6. timeline' = Append(timeline, m)
  BY <1>5 DEF Send
<1> HIDE DEF relates
<1>7. /\ m \in MatrixEvents /\ m.kind = "copy" /\ m.ts = tasks[h].ts /\ m.redacted = "no"
      /\ m.relates = relates
  <2>1. relates \in 0..MaxEvents
    BY <1>1, <1>2, <1>3
  <2> QED
    BY <1>4, <1>5, <2>1 DEF MatrixEvents
<1>8. EventIn(m, Len(timeline) + 1, Len(channel))
  BY <1>1, <1>2, <1>4, <1>7 DEF EventIn
<1>9. PICK t : t = [tasks[h] EXCEPT !.pc = "recording", !.event = Len(timeline) + 1]
  OBVIOUS
<1>10. Len(timeline) + 1 \in 0..MaxEvents
  BY <1>1, <1>3
<1>11. /\ t \in Tasks /\ t.pc = "recording" /\ t.ts = tasks[h].ts
       /\ t.event = Len(timeline) + 1 /\ t.target = tasks[h].target
       /\ t.parent = tasks[h].parent
  BY <1>9, <1>10, TaskFacts DEF Tasks, Pcs
<1>12. m.relates <= Len(timeline)
  BY <1>1, <1>2, <1>7
<1> QED
  BY <1>2, <1>3, <1>6, <1>7, <1>8, <1>9, <1>11, <1>12 DEF Send

LEMMA SendType ==
  ASSUME TypeInv, NEW h \in Handlers, Send(h)
  PROVE  TypeInv'
<1>1. PICK m \in MatrixEvents : EventIn(m, Len(timeline) + 1, Len(channel))
                                /\ timeline' = Append(timeline, m)
  BY SendIs
<1>2. PICK t \in Tasks :
        /\ t.pc = "recording" /\ t.ts = tasks[h].ts /\ t.event = Len(timeline) + 1
        /\ t.target = tasks[h].target /\ t.parent = tasks[h].parent /\ Start(h, t)
  BY SendIs
<1>3. UNCHANGED <<private, slack, rows, room>> /\ Len(timeline) < MaxEvents
  BY SendIs
<1>4. DataInv' /\ Len(timeline') = Len(timeline) + 1
  BY <1>1, <1>3, TimelineData, TimelineGrows DEF slack
<1>5. Len(channel) \in Nat /\ Len(timeline) \in Nat
  BY Lengths
<1>6. \A r \in tasks[h].parent : RowIn(r, Len(channel), Len(timeline) + 1)
  BY <1>5, TaskFacts DEF TaskIn, RowIn, Tasks, Rows, EventIds
<1>7. tasks[h].ts # 0 /\ tasks[h].target <= Len(timeline) + 1
  BY <1>5, TaskFacts, TaskTypes DEF Send, At, TaskIn, HasTs, FromSlack
<1>8. TaskIn(t, Len(channel), Len(timeline) + 1)
  BY <1>2, <1>5, <1>6, <1>7, TaskFacts DEF TaskIn
<1>9. TasksInv'
  BY <1>2, <1>3, <1>4, <1>5, <1>8, TasksStep DEF slack
<1> QED
  BY <1>3, <1>4, <1>9 DEF TypeInv, RoomInv, SlackInv, room, slack

\* A deletion or a redaction is carried out.
LEMMA RemoveType ==
  ASSUME TypeInv, NEW h \in Handlers, Remove(h) \/ DeleteOnSlack(h)
  PROVE  TypeInv'
<1>1. Len(channel) \in Nat /\ Len(timeline) \in Nat /\ Done(h) /\ UNCHANGED <<private, rows, room, seen>>
  BY Lengths DEF Remove, DeleteOnSlack, slack
<1>2. CASE Remove(h)
  <2>1. tasks[h].event \in 1..Len(timeline)
    BY <1>2, TaskTypes DEF Remove, At, HasEvent
  <2>2. \E r \in {"no", "refused", "matrix", "bridge"} :
          timeline' = [timeline EXCEPT ![tasks[h].event].redacted = r]
    <3>1. timeline[tasks[h].event] \in MatrixEvents
      BY <2>1 DEF TypeInv, DataInv
    <3>2. timeline[tasks[h].event].redacted \in {"no", "refused", "matrix", "bridge"}
      BY <3>1 DEF MatrixEvents
    <3> QED
      BY <1>2, <3>2 DEF Remove
  <2>3. DataInv' /\ Len(timeline') = Len(timeline)
    BY <1>2, <2>1, <2>2, RedactedData DEF Remove, slack
  <2> QED
    BY <1>1, <1>2, <2>3, DoneType DEF Remove, TypeInv, RoomInv, SlackInv, room, slack
<1>3. CASE DeleteOnSlack(h) /\ UNCHANGED <<channel, notices>>
  BY <1>1, <1>3, RowsData, DoneType
  DEF DeleteOnSlack, TypeInv, DataInv, RoomInv, SlackInv, room
<1>4. CASE DeleteOnSlack(h) /\ ~UNCHANGED <<channel, notices>>
  <2>1. tasks[h].ts \in 1..Len(channel)
    BY <1>4, TaskTypes DEF DeleteOnSlack, At, HasTs
  <2>2. channel' = [channel EXCEPT ![tasks[h].ts].deleted = "matrix"]
        /\ notices' = notices \cup {tasks[h].ts} /\ timeline' = timeline
    BY <1>4 DEF DeleteOnSlack
  <2>3. DataInv' /\ Len(channel') = Len(channel)
    BY <1>1, <2>1, <2>2, DeletedData
  <2> QED
    BY <1>1, <2>1, <2>2, <2>3, DoneType DEF TypeInv, RoomInv, SlackInv, room
<1> QED
  BY <1>2, <1>3, <1>4

LEMMA StepType ==
  ASSUME TypeInv, LockInv, [Next]_vars
  PROVE  TypeInv'
<1>1. CASE UNCHANGED vars
  BY <1>1
  DEF vars, slack, room, TypeInv, DataInv, RoomInv, SlackInv, TasksInv, EventIn, RowIn, TaskIn
<1>2. CASE SlackMessage \/ SlackEdits \/ SlackDeletes
  BY <1>2, ChannelType
<1>3. ASSUME NEW h \in Handlers, Arrives(h) \/ Continues(h) \/ Fails(h)
      PROVE  TypeInv'
  <2>1. CASE Arrives(h)
    BY <2>1, MatrixType, SlackType DEF Arrives
  <2>2. CASE Quiet(h)
    BY <2>2, QuietType
  <2>3. CASE (Continues(h) \/ Fails(h)) /\ ~Quiet(h)
    BY <2>3, PostType, UpdateType, AnswerType, RowsType, ChainType, SendType,
       RemoveType
    DEF Continues, Fails, Quiet, Drops
  <2> QED
    BY <1>3, <2>1, <2>2, <2>3
<1> QED
  BY <1>1, <1>2, <1>3 DEF Next

LEMMA InitType == Init => TypeInv
<1> SUFFICES ASSUME Init PROVE TypeInv
  OBVIOUS
<1>1. /\ private \in BOOLEAN /\ MaxTs \in Nat /\ MaxEvents \in Nat /\ RecentMax \in Nat
      /\ Len(channel) = 0 /\ Len(timeline) = 0 /\ Len(recent) = 0
  BY RelayAssumption, EmptySeq DEF Init
<1>2. \A h \in Handlers : tasks[h] = Idle
  BY DEF Init
<1>3. DataInv
  BY <1>1, EmptySeq DEF Init, DataInv
<1>4. RoomInv
  BY <1>1, EmptySeq DEF Init, RoomInv
<1>5. SlackInv
  BY <1>1 DEF Init, SlackInv
<1>6. TasksInv
  BY <1>1, <1>2, IdleIn DEF Init, TasksInv
<1> QED
  BY <1>3, <1>4, <1>5, <1>6 DEF TypeInv

-----------------------------------------------------------------------------
(* Where a handler is after its step *)

HandlerStep(h) == Arrives(h) \/ Continues(h) \/ Fails(h)

LEMMA DoneIs ==
  ASSUME TypeInv, NEW h \in Handlers, Done(h)
  PROVE  tasks'[h] = Idle /\ tasks'[h].pc = "idle"
BY StartIs DEF Done, Idle

LEMMA ToIs ==
  ASSUME TypeInv, NEW h \in Handlers, NEW pc, To(h, pc)
  PROVE  /\ tasks'[h].pc = pc /\ tasks'[h].from = tasks[h].from
         /\ tasks'[h].event = tasks[h].event /\ tasks'[h].ts = tasks[h].ts
         /\ tasks'[h].target = tasks[h].target /\ tasks'[h].parent = tasks[h].parent
<1>1. tasks'[h] = [tasks[h] EXCEPT !.pc = pc]
  BY StartIs DEF To
<1> QED
  BY <1>1, TaskFacts DEF Tasks

LEMMA Others ==
  ASSUME TypeInv, NEW h \in Handlers, HandlerStep(h)
  PROVE  \A g \in Handlers \ {h} : tasks'[g] = tasks[g]
<1>1. CASE Arrives(h)
  BY <1>1, StartIs
  DEF Arrives, MatrixMessage, MatrixRedacts, MatrixEdits, DeletionArrives, Deliver
<1>2. CASE Fails(h)
  BY <1>2, StartIs DEF Fails, AnswerLost, Leave, Drops, SendFails, DropEdit, CallFails, Done
<1>3. CASE FindReply(h) \/ MatchEdit(h) \/ DropEdit(h)
  BY <1>3, StartIs DEF FindReply, ReplyTo, MatchEdit, DropEdit, Leave, To, Done
<1>4. CASE Continues(h) /\ ~(FindReply(h) \/ MatchEdit(h) \/ DropEdit(h))
  <2>1. \E t : Start(h, t)
    BY <1>4
    DEF Continues, ReadParent, Post, Answered, StoreSent, StoreList, Check, Enqueue, Leave,
        Begin, ReadThread, WriteThread, Send, RecordCopy, Locate, Remove, ReadRedacted,
        Unstore, DeleteOnSlack, ReadEdited, Update, StoreEdit, To, Done
  <2> QED
    BY <2>1, StartIs
<1> QED
  BY <1>1, <1>2, <1>3, <1>4 DEF HandlerStep

LEMMA ReadParentIs ==
  ASSUME TypeInv, NEW h \in Handlers, ReadParent(h)
  PROVE  /\ tasks[h].pc = "reading" /\ tasks'[h].pc = "posting"
         /\ tasks'[h].event = tasks[h].event /\ tasks'[h].from = tasks[h].from
         /\ tasks'[h].parent = EventByMatrixId(tasks[h].target)
<1>1. tasks'[h] = [tasks[h] EXCEPT !.pc = "posting",
                                   !.parent = EventByMatrixId(tasks[h].target)]
  BY StartIs DEF ReadParent
<1> QED
  BY <1>1, TaskFacts DEF Tasks, ReadParent, At

LEMMA PostIs ==
  ASSUME TypeInv, NEW h \in Handlers, Post(h)
  PROVE  /\ tasks[h].pc = "posting" /\ tasks'[h].pc = "answering"
         /\ tasks'[h].event = tasks[h].event /\ tasks'[h].ts = Len(channel) + 1
         /\ tasks'[h].from = tasks[h].from
         /\ tasks'[h].parent = tasks[h].parent
         /\ UNCHANGED <<private, seen, notices, timeline, rows, room>>
         /\ Len(channel) < MaxTs /\ Len(channel') = Len(channel) + 1
         /\ \A ts \in 1..Len(channel) : channel'[ts] = channel[ts]
         /\ channel'[Len(channel) + 1].from = tasks[h].from
         /\ channel'[Len(channel) + 1].deleted = "no" /\ channel'[Len(channel) + 1].edits = 0
         /\ LET root == channel'[Len(channel) + 1].root
            IN  (root = 0 /\ tasks[h].parent = {}) \/ \E r \in tasks[h].parent : root = r.ts
<1>1. tasks'[h] = [tasks[h] EXCEPT !.pc = "answering", !.ts = Len(channel) + 1]
  BY StartIs DEF Post
<1>2. PICK root : /\ (root = 0 /\ tasks[h].parent = {}) \/ \E r \in tasks[h].parent : root = r.ts
                  /\ channel' = Append(channel, SlackMessageBy(tasks[h].from, root))
  BY DEF Post
<1>3. root \in 0..Len(channel)
  BY <1>2, TaskFacts, Lengths DEF TaskIn, RowIn, Tasks, Rows, Ts
<1>4. PICK m : m = SlackMessageBy(tasks[h].from, root)
  OBVIOUS
<1>5. /\ m \in SlackMessages /\ m.from = tasks[h].from /\ m.root = root /\ m.deleted = "no"
      /\ m.edits = 0
  BY <1>3, <1>4, TaskTypes, PostedIs
<1>6. /\ Len(channel') = Len(channel) + 1 /\ channel'[Len(channel) + 1] = m
      /\ \A ts \in 1..Len(channel) : channel'[ts] = channel[ts]
  BY <1>2, <1>4, <1>5, AppendProperties DEF TypeInv, DataInv
<1> QED
  BY <1>1, <1>2, <1>5, <1>6, TaskFacts DEF Tasks, Post, At

LEMMA ReadThreadIs ==
  ASSUME TypeInv, NEW h \in Handlers, ReadThread(h)
  PROVE  /\ tasks[h].pc = "threading" /\ tasks'[h].ts = tasks[h].ts
         /\ tasks'[h].target = tasks[h].target /\ tasks'[h].event = tasks[h].event
         /\ \/ /\ tasks'[h].pc = "sending" /\ tasks'[h].parent = tasks[h].parent
               /\ EventBySlackId(channel[Subject(h)].root) = {} /\ IsMessage(tasks[h].ts)
            \/ /\ tasks'[h].pc = "writing"
               /\ \E row \in EventBySlackId(channel[Subject(h)].root) :
                    tasks'[h].parent = {row}
<1>1. CASE /\ To(h, "sending") /\ EventBySlackId(channel[Subject(h)].root) = {}
           /\ IsMessage(tasks[h].ts)
  BY <1>1, ToIs DEF ReadThread, At
<1>2. ASSUME NEW row \in EventBySlackId(channel[Subject(h)].root),
             Start(h, [tasks[h] EXCEPT !.pc = "writing", !.parent = {row}])
      PROVE  /\ tasks'[h].pc = "writing" /\ tasks'[h].ts = tasks[h].ts
             /\ tasks'[h].target = tasks[h].target /\ tasks'[h].parent = {row}
             /\ tasks'[h].event = tasks[h].event
  <2>1. tasks'[h] = [tasks[h] EXCEPT !.pc = "writing", !.parent = {row}]
    BY <1>2, StartIs
  <2> QED
    BY <2>1, TaskFacts DEF Tasks
<1> QED
  BY <1>1, <1>2 DEF ReadThread, At

LEMMA FindReplyIs ==
  ASSUME TypeInv, NEW h \in Handlers, FindReply(h)
  PROVE  /\ tasks[h].pc = "finding" /\ tasks'[h].pc = "sending"
         /\ tasks'[h].ts = tasks[h].ts /\ tasks'[h].parent = tasks[h].parent
         /\ IsMessage(tasks[h].ts) =>
              \E row \in tasks[h].parent :
                 \/ EventBySlackId(LastOfThread(row)) = {}
                 \/ \E r \in EventBySlackId(LastOfThread(row)) : tasks'[h].target = r.event
<1>1. PICK row \in tasks[h].parent : ReplyTo(h, LastOfThread(row))
  BY DEF FindReply
<1>2. CASE To(h, "sending") /\ EventBySlackId(LastOfThread(row)) = {}
  BY <1>1, <1>2, ToIs DEF FindReply, At
<1>3. ASSUME NEW r \in EventBySlackId(LastOfThread(row)),
             Start(h, [tasks[h] EXCEPT !.pc = "sending",
                  !.target = IF IsMessage(tasks[h].ts) THEN r.event ELSE @])
      PROVE  /\ tasks'[h].pc = "sending" /\ tasks'[h].ts = tasks[h].ts
             /\ tasks'[h].parent = tasks[h].parent
             /\ IsMessage(tasks[h].ts) => tasks'[h].target = r.event
  <2>1. tasks'[h] = [tasks[h] EXCEPT !.pc = "sending",
                          !.target = IF IsMessage(tasks[h].ts) THEN r.event ELSE @]
    BY <1>3, StartIs
  <2> QED
    BY <2>1, TaskFacts DEF Tasks
<1> QED
  BY <1>1, <1>2, <1>3 DEF FindReply, ReplyTo, At

\* An edit goes on to what it edits.
LEMMA MatchEditIs ==
  ASSUME TypeInv, NEW h \in Handlers, MatchEdit(h)
  PROVE  /\ tasks[h].pc = "matching" /\ tasks'[h].ts = tasks[h].ts
         /\ tasks'[h].parent = tasks[h].parent
         /\ tasks'[h].pc = FirstStep(channel[tasks[h].ts].edits)
         /\ tasks'[h].pc \in {"matching", "threading", "sending"}
<1>1. PICK e : Start(h, [tasks[h] EXCEPT !.pc = FirstStep(channel[tasks[h].ts].edits),
                                         !.target = e])
  BY DEF MatchEdit
<1>2. tasks'[h] = [tasks[h] EXCEPT !.pc = FirstStep(channel[tasks[h].ts].edits), !.target = e]
  BY <1>1, StartIs
<1> QED
  BY <1>2, TaskFacts, FirstStepIs DEF Tasks, MatchEdit, At

LEMMA LocateIs ==
  ASSUME TypeInv, NEW h \in Handlers, Locate(h)
  PROVE  /\ tasks[h].pc = "locating"
         /\ \/ tasks'[h] = Idle /\ EventBySlackId(tasks[h].ts) = {}
            \/ /\ tasks'[h].pc = "removing" /\ tasks'[h].ts = tasks[h].ts
               /\ tasks'[h].parent = tasks[h].parent
               /\ \E row \in EventBySlackId(tasks[h].ts) : tasks'[h].event = row.event
<1>1. CASE Done(h) /\ EventBySlackId(tasks[h].ts) = {}
  BY <1>1, DoneIs DEF Locate, At
<1>2. ASSUME NEW row \in EventBySlackId(tasks[h].ts),
             Start(h, [tasks[h] EXCEPT !.pc = "removing", !.event = row.event])
      PROVE  /\ tasks'[h].pc = "removing" /\ tasks'[h].ts = tasks[h].ts
             /\ tasks'[h].parent = tasks[h].parent /\ tasks'[h].event = row.event
  <2>1. tasks'[h] = [tasks[h] EXCEPT !.pc = "removing", !.event = row.event]
    BY <1>2, StartIs
  <2> QED
    BY <2>1, TaskFacts DEF Tasks
<1> QED
  BY <1>1, <1>2 DEF Locate, At

\* What a redaction or an edit finds in the table.
LEMMA ReadRowIs ==
  ASSUME TypeInv, NEW h \in Handlers, ReadRedacted(h) \/ ReadEdited(h)
  PROVE  \/ tasks'[h] = Idle
         \/ /\ tasks'[h].event = tasks[h].event /\ tasks'[h].target = tasks[h].target
            /\ tasks'[h].parent = tasks[h].parent
            /\ \/ tasks[h].pc = "redacting" /\ tasks'[h].pc = "unstoring"
               \/ /\ tasks[h].pc = "editing" /\ tasks'[h].pc = "updating"
                  /\ \E row \in EventByMatrixId(tasks[h].target) : tasks'[h].ts = row.ts
<1>1. CASE Done(h)
  BY <1>1, DoneIs
<1>2. ASSUME NEW pc \in {"unstoring", "updating"}, NEW row,
             Start(h, [tasks[h] EXCEPT !.pc = pc, !.ts = row.ts])
      PROVE  /\ tasks'[h].pc = pc /\ tasks'[h].ts = row.ts
             /\ tasks'[h].event = tasks[h].event /\ tasks'[h].target = tasks[h].target
             /\ tasks'[h].parent = tasks[h].parent
  <2>1. tasks'[h] = [tasks[h] EXCEPT !.pc = pc, !.ts = row.ts]
    BY <1>2, StartIs
  <2> QED
    BY <2>1, TaskFacts DEF Tasks
<1>3. CASE ReadRedacted(h) /\ ~Done(h)
  BY <1>2, <1>3 DEF ReadRedacted, At
<1>4. CASE ReadEdited(h) /\ ~Done(h)
  BY <1>2, <1>4 DEF ReadEdited, At
<1> QED
  BY <1>1, <1>3, <1>4

\* What comes from Matrix.
LEMMA MatrixIs ==
  ASSUME TypeInv, NEW h \in Handlers, MatrixMessage(h) \/ MatrixRedacts(h) \/ MatrixEdits(h)
  PROVE  /\ tasks[h].pc = "idle" /\ UNCHANGED <<private, slack, rows, room>>
         /\ tasks'[h].ts = 0 /\ tasks'[h].parent = {}
         /\ \/ /\ tasks'[h].pc \in {"reading", "editing"}
               /\ tasks'[h].pc = "reading" => tasks'[h].from # "slack"
               /\ Len(timeline') = Len(timeline) + 1 /\ tasks'[h].event = Len(timeline) + 1
               /\ \A e \in 1..Len(timeline) : timeline'[e] = timeline[e]
               /\ timeline'[Len(timeline) + 1].ts = 0
               /\ timeline'[Len(timeline) + 1].kind
                    = IF tasks'[h].pc = "reading" THEN "message" ELSE "edit"
               /\ tasks'[h].pc = "editing" =>
                    /\ tasks'[h].target \in 1..Len(timeline)
                    /\ timeline[tasks'[h].target].kind = "message"
            \/ /\ tasks'[h].pc = "redacting" /\ tasks'[h].event \in 1..Len(timeline)
               /\ timeline' = [timeline EXCEPT ![tasks'[h].event].redacted = "matrix"]
<1>0. \A root \in 0..Len(timeline) : root \in 0..MaxEvents
  BY Lengths
<1>1. CASE MatrixMessage(h)
  <2>1. PICK from \in {"bot", "puppet"}, root \in 0..Len(timeline) :
          /\ timeline' = Append(timeline, [kind |-> "message", ts |-> 0,
                                           relates |-> root, redacted |-> "no"])
          /\ Start(h, [Idle EXCEPT !.pc = "reading", !.from = from,
                                   !.event = Len(timeline) + 1, !.target = root])
    BY <1>1 DEF MatrixMessage
  <2>2. tasks'[h] = [Idle EXCEPT !.pc = "reading", !.from = from,
                                 !.event = Len(timeline) + 1, !.target = root]
    BY <2>1, StartIs
  <2>3. /\ tasks'[h].pc = "reading" /\ tasks'[h].from = from /\ tasks'[h].ts = 0
        /\ tasks'[h].event = Len(timeline) + 1 /\ tasks'[h].parent = {}
    BY <2>2 DEF Idle
  <2>4. PICK m : m = [kind |-> "message", ts |-> 0, relates |-> root, redacted |-> "no"]
    OBVIOUS
  <2>5. m \in MatrixEvents /\ m.ts = 0 /\ m.kind = "message"
    BY <1>0, <2>4, Lengths DEF MatrixEvents
  <2>6. /\ Len(timeline') = Len(timeline) + 1 /\ timeline'[Len(timeline) + 1] = m
        /\ \A e \in 1..Len(timeline) : timeline'[e] = timeline[e]
    BY <2>1, <2>4, <2>5, AppendProperties DEF TypeInv, DataInv
  <2> QED
    BY <1>1, <2>3, <2>5, <2>6 DEF MatrixMessage, At
<1>2. CASE MatrixEdits(h)
  <2>1. PICK e \in 1..Len(timeline) :
          /\ timeline[e].kind = "message"
          /\ timeline' = Append(timeline, [kind |-> "edit", ts |-> 0,
                                           relates |-> e, redacted |-> "no"])
          /\ Start(h, [Idle EXCEPT !.pc = "editing", !.event = Len(timeline) + 1,
                                   !.target = e])
    BY <1>2, Lengths DEF MatrixEdits
  <2>2. tasks'[h] = [Idle EXCEPT !.pc = "editing", !.event = Len(timeline) + 1, !.target = e]
    BY <2>1, StartIs
  <2>3. /\ tasks'[h].pc = "editing" /\ tasks'[h].target = e /\ tasks'[h].ts = 0
        /\ tasks'[h].event = Len(timeline) + 1 /\ tasks'[h].parent = {}
    BY <2>2 DEF Idle
  <2>4. PICK m : m = [kind |-> "edit", ts |-> 0, relates |-> e, redacted |-> "no"]
    OBVIOUS
  <2>5. m \in MatrixEvents /\ m.ts = 0 /\ m.kind = "edit"
    BY <1>0, <2>4, Lengths DEF MatrixEvents
  <2>6. /\ Len(timeline') = Len(timeline) + 1 /\ timeline'[Len(timeline) + 1] = m
        /\ \A d \in 1..Len(timeline) : timeline'[d] = timeline[d]
    BY <2>1, <2>4, <2>5, AppendProperties DEF TypeInv, DataInv
  <2> QED
    BY <1>2, <2>1, <2>3, <2>5, <2>6 DEF MatrixEdits, At
<1>3. CASE MatrixRedacts(h)
  <2>1. PICK e \in 1..Len(timeline) :
          /\ timeline' = [timeline EXCEPT ![e].redacted = "matrix"]
          /\ Start(h, [Idle EXCEPT !.pc = "redacting", !.event = e])
    BY <1>3, Lengths DEF MatrixRedacts
  <2>2. tasks'[h] = [Idle EXCEPT !.pc = "redacting", !.event = e]
    BY <2>1, StartIs
  <2>3. /\ tasks'[h].pc = "redacting" /\ tasks'[h].event = e /\ tasks'[h].ts = 0
        /\ tasks'[h].parent = {}
    BY <2>2 DEF Idle
  <2> QED
    BY <1>3, <2>1, <2>3 DEF MatrixRedacts, At
<1> QED
  BY <1>1, <1>2, <1>3

\* What comes from Slack. A post of the bot's is dropped.
LEMMA SlackIs ==
  ASSUME TypeInv, NEW h \in Handlers,
         DeletionArrives(h) \/ \E s \in Streams : Deliver(h, s)
  PROVE  /\ tasks[h].pc = "idle" /\ UNCHANGED <<private, channel, timeline, rows, room>>
         /\ private => \A g \in Handlers : tasks[g].pc \notin FromSlack
         /\ \/ \E s \in Streams, ts \in 1..Len(channel) :
                 /\ ts = seen[s] + 1 /\ seen' = [seen EXCEPT ![s] = ts] /\ notices' = notices
                 /\ \/ channel[ts].from = "bot" /\ tasks' = tasks
                    \/ /\ tasks'[h].pc = "arrived" /\ tasks'[h].ts = ts
                       /\ tasks'[h].target = 0 /\ tasks'[h].parent = {}
            \/ \E ts \in notices :
                 /\ \A s \in Streams : seen[s] >= ts
                 /\ seen' = seen /\ notices' = notices \ {ts}
                 /\ tasks'[h].pc = "locating" /\ tasks'[h].ts = ts
                 /\ tasks'[h].parent = {}
<1>1. CASE DeletionArrives(h)
  <2>1. PICK ts \in notices : /\ Start(h, [Idle EXCEPT !.pc = "locating", !.ts = ts])
                              /\ \A s \in Streams : seen[s] >= ts
                              /\ notices' = notices \ {ts}
    BY <1>1 DEF DeletionArrives
  <2>2. tasks'[h] = [Idle EXCEPT !.pc = "locating", !.ts = ts]
    BY <2>1, StartIs
  <2>3. tasks'[h].pc = "locating" /\ tasks'[h].ts = ts /\ tasks'[h].parent = {}
    BY <2>2 DEF Idle
  <2> QED
    BY <1>1, <2>1, <2>3 DEF DeletionArrives, MayHandle, At
<1>2. CASE \E s \in Streams : Deliver(h, s)
  <2>1. PICK s \in Streams : Deliver(h, s)
    BY <1>2
  <2> DEFINE ts == seen[s] + 1
  <2>2. ts \in 1..Len(channel)
    <3>1. seen[s] \in Nat
      BY Lengths DEF TypeInv, SlackInv
    <3>2. ts <= Len(channel)
      BY <2>1 DEF Deliver
    <3> QED
      BY <3>1, <3>2, Lengths
  <2>3. \/ channel[ts].from = "bot" /\ tasks' = tasks
        \/ Start(h, [Idle EXCEPT !.pc = "arrived", !.ts = ts, !.from = channel[ts].from])
    BY <2>1 DEF Deliver
  <2>4. ASSUME Start(h, [Idle EXCEPT !.pc = "arrived", !.ts = ts, !.from = channel[ts].from])
        PROVE  /\ tasks'[h].pc = "arrived" /\ tasks'[h].ts = ts
               /\ tasks'[h].target = 0 /\ tasks'[h].parent = {}
    <3>1. PICK t : t = [Idle EXCEPT !.pc = "arrived", !.ts = ts, !.from = channel[ts].from]
      OBVIOUS
    <3>2. t.pc = "arrived" /\ t.ts = ts /\ t.target = 0 /\ t.parent = {}
      BY <3>1 DEF Idle
    <3>3. tasks'[h] = t
      BY <2>4, <3>1, StartIs
    <3> QED
      BY <3>2, <3>3
  <2>5. PICK x : x = ts
    OBVIOUS
  <2> HIDE DEF ts
  <2>6. x \in 1..Len(channel) /\ x = seen[s] + 1 /\ seen' = [seen EXCEPT ![s] = x]
    BY <2>1, <2>2, <2>5 DEF Deliver, ts
  <2> QED
    BY <2>1, <2>3, <2>4, <2>5, <2>6 DEF Deliver, MayHandle, At
<1> QED
  BY <1>1, <1>2

-----------------------------------------------------------------------------
(* The chain of slackSendLock *)

\* Without repetitions, the head leaves the tail and no other does.
LEMMA TailWithout ==
  ASSUME NEW S, NEW s \in Seq(S), s # <<>>,
         \A i, j \in DOMAIN s : s[i] = s[j] => i = j
  PROVE  /\ \A i, j \in DOMAIN Tail(s) : Tail(s)[i] = Tail(s)[j] => i = j
         /\ Elements(Tail(s)) = Elements(s) \ {s[1]}
<1>1. /\ Tail(s) \in Seq(S) /\ Len(s) >= 1 /\ Len(s) \in Nat
      /\ \A i \in 1..(Len(s) - 1) : Tail(s)[i] = s[i + 1]
      /\ DOMAIN s = 1..Len(s) /\ DOMAIN Tail(s) = 1..(Len(s) - 1)
  BY HeadTailProperties, LenProperties, EmptySeq
<1>2. \A i \in 1..(Len(s) - 1) : i + 1 \in 1..Len(s) /\ i + 1 # 1
  BY <1>1
<1>3. ASSUME NEW i \in DOMAIN Tail(s), NEW j \in DOMAIN Tail(s), Tail(s)[i] = Tail(s)[j]
      PROVE  i = j
  <2>1. s[i + 1] = s[j + 1] /\ i + 1 \in DOMAIN s /\ j + 1 \in DOMAIN s
    BY <1>1, <1>2, <1>3
  <2>2. i + 1 = j + 1
    BY <2>1
  <2> QED
    BY <1>1, <2>2
<1>4. s[1] \notin Elements(Tail(s))
  <2>1. 1 \in DOMAIN s
    BY <1>1
  <2> QED
    BY <1>1, <1>2, <2>1 DEF Elements
<1> QED
  BY <1>3, <1>4, TailElements

LEMMA AppendWithout ==
  ASSUME NEW S, NEW s \in Seq(S), NEW x \in S, x \notin Elements(s),
         \A i, j \in DOMAIN s : s[i] = s[j] => i = j
  PROVE  \A i, j \in DOMAIN Append(s, x) : Append(s, x)[i] = Append(s, x)[j] => i = j
<1>1. /\ Append(s, x) \in Seq(S) /\ Len(Append(s, x)) = Len(s) + 1 /\ Len(s) \in Nat
      /\ \A i \in 1..Len(s) : Append(s, x)[i] = s[i]
      /\ Append(s, x)[Len(s) + 1] = x
      /\ DOMAIN s = 1..Len(s) /\ DOMAIN Append(s, x) = 1..(Len(s) + 1)
  BY AppendProperties, LenProperties
<1>2. \A i \in 1..Len(s) : s[i] # x
  BY <1>1 DEF Elements
<1>3. ASSUME NEW i \in 1..(Len(s) + 1), NEW j \in 1..(Len(s) + 1),
             Append(s, x)[i] = Append(s, x)[j]
      PROVE  i = j
  <2>1. (i \in 1..Len(s) \/ i = Len(s) + 1) /\ (j \in 1..Len(s) \/ j = Len(s) + 1)
    BY <1>1
  <2> QED
    BY <1>1, <1>2, <1>3, <2>1
<1> QED
  BY <1>1, <1>3

\* The head leaves the chain, and its handler has gone.
LEMMA UnlockStep ==
  ASSUME TypeInv, LockInv, NEW h \in Handlers, tasks[h].pc \in Chained, h = lock[1],
         lock' = Tail(lock), tasks'[h] = Idle,
         \A g \in Handlers \ {h} : tasks'[g] = tasks[g]
  PROVE  LockInv'
<1>1. lock # <<>> /\ lock \in Seq(Handlers)
  BY HolderIs DEF TypeInv, RoomInv
<1>2. /\ \A i, j \in DOMAIN lock' : lock'[i] = lock'[j] => i = j
      /\ Elements(lock') = Elements(lock) \ {h}
  BY <1>1, TailWithout DEF LockInv
<1>3. tasks'[h].pc = "idle"
  BY DEF Idle
<1>4. \A g \in Handlers : tasks'[g].pc \in Chained <=> g \in Elements(lock)'
  <2>1. Elements(lock') = Elements(lock)'
    BY DEF Elements
  <2> QED
    BY <1>2, <1>3, <2>1 DEF LockInv, Chained, Begun
<1>5. \A g \in Handlers : tasks'[g].pc \notin Begun
  BY <1>3 DEF LockInv, Begun
<1> QED
  BY <1>2, <1>4, <1>5 DEF LockInv

\* Neither the chain nor who is in it changes, and nobody takes the lock.
LEMMA LockKept ==
  ASSUME LockInv, lock' = lock,
         \A g \in Handlers : /\ tasks'[g].pc \in Chained <=> tasks[g].pc \in Chained
                             /\ tasks'[g].pc \in Begun => tasks[g].pc \in Begun
  PROVE  LockInv'
BY DEF LockInv, Elements

\* The steps that leave the chain alone.
LEMMA Unchained ==
  ASSUME TypeInv, NEW h \in Handlers, HandlerStep(h),
         ~(Enqueue(h) \/ Begin(h) \/ Drops(h) \/ RecordCopy(h))
  PROVE  /\ lock' = lock
         /\ tasks'[h].pc \in Chained <=> tasks[h].pc \in Chained
         /\ tasks'[h].pc \in Begun => tasks[h].pc \in Begun
<1>1. CASE Arrives(h)
  <2>1. tasks'[h].pc \in {"idle", "arrived", "locating", "reading", "editing", "redacting"}
        /\ lock' = lock /\ tasks[h].pc = "idle"
    BY <1>1, MatrixIs, SlackIs DEF Arrives, room
  <2> QED
    BY <2>1 DEF Chained, Begun
<1>2. CASE ReadParent(h) \/ Post(h) \/ Answered(h) \/ AnswerLost(h) \/ StoreSent(h) \/ StoreList(h)
  <2>1. /\ tasks[h].pc \in {"reading", "posting", "answering", "storing", "listing"}
        /\ tasks'[h].pc \in {"posting", "answering", "storing", "listing", "idle"}
        /\ lock' = lock
    <3>1. CASE ReadParent(h)
      BY <3>1, ReadParentIs DEF ReadParent, room
    <3>2. CASE Post(h)
      BY <3>2, PostIs DEF room
    <3>3. CASE Answered(h) \/ AnswerLost(h) \/ StoreSent(h) \/ StoreList(h)
      BY <3>3, ToIs, DoneIs DEF Answered, AnswerLost, StoreSent, StoreList, At, room
    <3> QED
      BY <1>2, <3>1, <3>2, <3>3
  <2> QED
    BY <2>1 DEF Chained, Begun
<1>3. CASE MatchEdit(h) \/ ReadThread(h) \/ WriteThread(h) \/ FindReply(h) \/ Send(h)
  <2>1. /\ tasks[h].pc \in {"matching", "threading", "writing", "finding", "sending"}
        /\ tasks'[h].pc \in Begun
    <3>1. CASE ReadThread(h)
      BY <3>1, ReadThreadIs DEF Begun
    <3>2. CASE WriteThread(h)
      BY <3>2, ToIs DEF WriteThread, At, Begun
    <3>3. CASE FindReply(h)
      BY <3>3, FindReplyIs DEF Begun
    <3>4. CASE Send(h)
      <4>1. PICK t \in Tasks : t.pc = "recording" /\ Start(h, t)
        BY <3>4, SendIs
      <4> QED
        BY <3>4, <4>1, StartIs DEF Send, At, Begun
    <3>5. CASE MatchEdit(h)
      BY <3>5, MatchEditIs DEF Begun
    <3> QED
      BY <1>3, <3>1, <3>2, <3>3, <3>4, <3>5
  <2>2. lock' = lock
    BY <1>3 DEF ReadThread, WriteThread, FindReply, ReplyTo, MatchEdit, Send, room
  <2> QED
    BY <2>1, <2>2 DEF Chained, Begun
<1>4. CASE Check(h) \/ CallFails(h) \/ Update(h)
  <2>1. /\ tasks[h].pc \in {"arrived", "naming", "posting", "updating"}
        /\ tasks'[h].pc \in {"idle", "naming", "storingEdit"}
        /\ lock' = lock
    BY <1>4, ToIs, DoneIs DEF Check, CallFails, Update, At, room
  <2> QED
    BY <2>1 DEF Chained, Begun
<1>5. CASE \/ Locate(h) \/ Remove(h) \/ ReadRedacted(h) \/ Unstore(h) \/ DeleteOnSlack(h)
           \/ ReadEdited(h) \/ StoreEdit(h)
  <2>1. tasks[h].pc \in {"locating", "removing", "redacting", "unstoring", "deleting",
                         "editing", "storingEdit"}
        /\ lock' = lock
    BY <1>5
    DEF Locate, Remove, ReadRedacted, Unstore, DeleteOnSlack, ReadEdited, StoreEdit, At, room
  <2>2. tasks'[h].pc \in {"idle", "removing", "unstoring", "deleting", "updating"}
    <3>1. CASE Locate(h)
      BY <3>1, LocateIs DEF Idle
    <3>2. CASE ReadRedacted(h) \/ ReadEdited(h)
      BY <3>2, ReadRowIs DEF Idle
    <3>3. CASE Remove(h) \/ Unstore(h) \/ DeleteOnSlack(h) \/ StoreEdit(h)
      BY <3>3, ToIs, DoneIs DEF Remove, Unstore, DeleteOnSlack, StoreEdit
    <3> QED
      BY <1>5, <3>1, <3>2, <3>3
  <2> QED
    BY <2>1, <2>2 DEF Chained, Begun
<1> QED
  BY <1>1, <1>2, <1>3, <1>4, <1>5 DEF HandlerStep, Continues, Fails, Drops

LEMMA LockStep ==
  ASSUME TypeInv, LockInv, [Next]_vars
  PROVE  LockInv'
<1>1. CASE UNCHANGED vars \/ SlackMessage \/ SlackEdits \/ SlackDeletes
  BY <1>1, LockKept DEF vars, room, SlackMessage, SlackEdits, SlackDeletes
<1>2. ASSUME NEW h \in Handlers, HandlerStep(h)
      PROVE  LockInv'
  <2>0. \A g \in Handlers \ {h} : tasks'[g] = tasks[g]
    BY <1>2, Others
  <2>1. CASE Enqueue(h)
    <3>1. lock' = Append(lock, h) /\ tasks[h].pc = "naming" /\ tasks'[h].pc = "queued"
      BY <2>1, ToIs DEF Enqueue, At
    <3>2. lock \in Seq(Handlers) /\ h \notin Elements(lock)
      BY <3>1 DEF LockInv, Chained, Begun, TypeInv, RoomInv
    <3>3. /\ \A i, j \in DOMAIN lock' : lock'[i] = lock'[j] => i = j
          /\ Elements(lock') = Elements(lock) \cup {h}
      BY <3>1, <3>2, AppendWithout, AppendElements DEF LockInv
    <3>4. \A g \in Handlers : tasks'[g].pc \in Chained <=> g \in Elements(lock)'
      <4>1. Elements(lock)' = Elements(lock')
        BY DEF Elements
      <4>2. \A g \in Handlers \ {h} : tasks[g].pc \in Chained <=> g \in Elements(lock)
        BY DEF LockInv
      <4>3. tasks'[h].pc \in Chained
        BY <3>1 DEF Chained
      <4> QED
        BY <2>0, <3>3, <4>1, <4>2, <4>3
    <3>5. ASSUME NEW g \in Handlers, tasks'[g].pc \in Begun
          PROVE  g = lock'[1]
      <4>1. g # h /\ tasks[g].pc \in Begun
        BY <2>0, <3>1, <3>5 DEF Begun
      <4>2. g = lock[1] /\ 1 \in DOMAIN lock
        BY <4>1, HolderIs DEF LockInv, Chained
      <4> QED
        BY <3>1, <3>2, <4>2, AppendProperties, LenProperties
    <3> QED
      BY <3>3, <3>4, <3>5 DEF LockInv
  <2>2. CASE Drops(h) \/ RecordCopy(h)
    <3>1. tasks[h].pc \in Begun /\ lock' = Tail(lock) /\ tasks'[h] = Idle
      BY <2>2, DoneIs DEF Leave, Drops, SendFails, DropEdit, RecordCopy, At, Begun
    <3> QED
      BY <2>0, <3>1, UnlockStep DEF LockInv, Chained
  <2>3. CASE Begin(h)
    <3>1. tasks[h].pc = "queued" /\ h = Head(lock) /\ tasks[h].pc \in Chained
      BY <2>3 DEF Leave, Begin, At, Chained
    <3>2. h = lock[1]
      BY <3>1, HolderIs
    <3>3. CASE tasks[h].ts \in Elements(recent)
      BY <2>0, <2>3, <3>1, <3>2, <3>3, DoneIs, UnlockStep DEF Leave, Begin
    <3>4. CASE tasks[h].ts \notin Elements(recent)
      <4>1. tasks'[h].pc \in {"matching", "threading", "sending"}
        BY <2>3, <3>4, ToIs, FirstStepIs DEF Leave, Begin
      <4>2. \A g \in Handlers : tasks'[g].pc \in Chained <=> tasks[g].pc \in Chained
        BY <2>0, <3>1, <4>1 DEF Chained, Begun
      <4>3. \A g \in Handlers : tasks'[g].pc \in Begun => g = lock[1]
        BY <2>0, <3>2 DEF LockInv
      <4>4. lock' = lock
        BY <2>3, <3>4 DEF Leave, Begin
      <4> QED
        BY <4>2, <4>3, <4>4 DEF LockInv, Elements
    <3> QED
      BY <3>3, <3>4
  <2>4. CASE ~(Enqueue(h) \/ Begin(h) \/ Drops(h) \/ RecordCopy(h))
    <3>1. /\ lock' = lock
          /\ tasks'[h].pc \in Chained <=> tasks[h].pc \in Chained
          /\ tasks'[h].pc \in Begun => tasks[h].pc \in Begun
      BY <1>2, <2>4, Unchained
    <3> QED
      BY <2>0, <3>1, LockKept
  <2> QED
    BY <2>1, <2>2, <2>3, <2>4
<1> QED
  BY <1>1, <1>2 DEF Next, HandlerStep

LEMMA InitLock == Init => LockInv
BY EmptySeq DEF Init, LockInv, Elements, Chained, Begun, Idle

LEMMA TypeLock == Spec => [](TypeInv /\ LockInv)
<1>1. Init => TypeInv /\ LockInv
  BY InitType, InitLock
<1>2. TypeInv /\ LockInv /\ [Next]_vars => (TypeInv /\ LockInv)'
  BY StepType, LockStep
<1> QED
  BY <1>1, <1>2, PTL DEF Spec

\* The two rooms, the table, the remembered list, the chain and every handler
\* in flight hold what their types say.
THEOREM TypeCorrect == Spec => []TypeOK
BY TypeLock, TypeInvTypes, PTL

\* One handler at a time sends a Slack message to the Matrix room, and the
\* chain lists those that wait for it, each once.
THEOREM OneSends == Spec => []LockInv
BY TypeLock, PTL

-----------------------------------------------------------------------------
(* What every step keeps *)

\* The channel only grows: a post's sender and thread are for good.
LEMMA ChannelKept ==
  ASSUME TypeInv, [Next]_vars
  PROVE  /\ Len(channel) <= Len(channel') /\ Len(channel') \in Nat
         /\ \A ts \in 1..Len(channel) :
              channel'[ts].from = channel[ts].from /\ channel'[ts].root = channel[ts].root
              /\ channel'[ts].edits = channel[ts].edits
         /\ \/ Len(channel') = Len(channel)
            \/ /\ Len(channel') = Len(channel) + 1
               /\ \A ts \in 1..Len(channel) : channel'[ts] = channel[ts]
               /\ channel'[Len(channel) + 1].deleted = "no"
               /\ \/ /\ \E h \in Handlers : Post(h)
                     /\ channel'[Len(channel) + 1].edits = 0
                  \/ /\ \E h \in Handlers : Update(h)
                     /\ channel'[Len(channel) + 1].edits # 0
                     /\ channel'[Len(channel) + 1].root = 0
                  \/ channel'[Len(channel) + 1].from = "slack" /\ (SlackMessage \/ SlackEdits)
<1>0. Len(channel) \in Nat
  BY Lengths
<1>1. CASE channel' = channel
  BY <1>0, <1>1
<1>2. CASE SlackMessage \/ SlackEdits
  <2>1. \E m \in SlackMessages : /\ m.root <= Len(channel) /\ m.edits <= Len(channel)
                                 /\ m.edits # 0 => m.root = 0
                                 /\ m.from = "slack" /\ m.deleted = "no"
                                 /\ Len(channel) < MaxTs /\ channel' = Append(channel, m)
    <3>1. CASE SlackMessage
      <4>1. PICK root \in 0..Len(channel) :
              Len(channel) < MaxTs /\ channel' = Append(channel, SlackMessageBy("slack", root))
        BY <3>1 DEF SlackMessage
      <4>2. PICK m : m = SlackMessageBy("slack", root)
        OBVIOUS
      <4> QED
        BY <1>0, <4>1, <4>2, PostedIs
    <3>2. CASE SlackEdits
      <4>1. PICK ts \in 1..Len(channel) :
              Len(channel) < MaxTs /\ channel' = Append(channel, SlackEditBy("slack", ts))
        BY <3>2, Lengths DEF SlackEdits
      <4>2. PICK m : m = SlackEditBy("slack", ts)
        OBVIOUS
      <4> QED
        BY <1>0, <4>1, <4>2, EditIs
    <3> QED
      BY <1>2, <3>1, <3>2
  <2>2. PICK m \in SlackMessages : /\ m.root <= Len(channel) /\ m.edits <= Len(channel)
                                   /\ m.edits # 0 => m.root = 0
                                   /\ m.from = "slack" /\ m.deleted = "no"
                                   /\ Len(channel) < MaxTs /\ channel' = Append(channel, m)
    BY <2>1
  <2>3. /\ Len(channel') = Len(channel) + 1 /\ channel'[Len(channel) + 1] = m
        /\ \A ts \in 1..Len(channel) : channel'[ts] = channel[ts]
    BY <2>2, ChannelGrows
  <2> QED
    BY <1>0, <1>2, <2>2, <2>3
<1>3. CASE SlackDeletes
  <2>1. PICK ts \in 1..Len(channel) : channel' = [channel EXCEPT ![ts].deleted = "slack"]
    BY <1>3, Lengths DEF SlackDeletes
  <2> QED
    BY <1>0, <2>1, DeletedIs
<1>4. ASSUME NEW h \in Handlers, Post(h) \/ Update(h)
      PROVE  /\ Len(channel') = Len(channel) + 1
             /\ \A ts \in 1..Len(channel) : channel'[ts] = channel[ts]
             /\ channel'[Len(channel) + 1].deleted = "no"
             /\ IF Post(h) THEN channel'[Len(channel) + 1].edits = 0
                ELSE /\ channel'[Len(channel) + 1].edits # 0
                     /\ channel'[Len(channel) + 1].root = 0
  BY <1>4, PostIs, UpdateIs
<1>5. ASSUME NEW h \in Handlers, DeleteOnSlack(h), channel' # channel
      PROVE  /\ Len(channel') = Len(channel)
             /\ \A ts \in 1..Len(channel) :
                  channel'[ts].from = channel[ts].from /\ channel'[ts].root = channel[ts].root
                  /\ channel'[ts].edits = channel[ts].edits
  <2>1. tasks[h].ts \in 1..Len(channel)
    BY <1>5, TaskTypes DEF DeleteOnSlack, At, HasTs
  <2>2. channel' = [channel EXCEPT ![tasks[h].ts].deleted = "matrix"]
    BY <1>5 DEF DeleteOnSlack
  <2> QED
    BY <2>1, <2>2, DeletedIs
<1>6. ASSUME NEW h \in Handlers, HandlerStep(h), ~Post(h), ~Update(h), ~DeleteOnSlack(h)
      PROVE  channel' = channel
  <2>1. CASE Arrives(h)
    BY <2>1, MatrixIs, SlackIs DEF Arrives, slack
  <2>2. CASE Quiet(h)
    BY <2>2, QuietChanges DEF slack
  <2>3. CASE ~Arrives(h) /\ ~Quiet(h)
    BY <1>6, <2>3
    DEF HandlerStep, Continues, Fails, Quiet, Answered, AnswerLost, StoreSent, StoreList,
        Enqueue, Leave, Begin, WriteThread, Send, Drops, SendFails, DropEdit, RecordCopy,
        Remove, Unstore, StoreEdit, slack
  <2> QED
    BY <2>1, <2>2, <2>3
<1>7. CASE UNCHANGED vars
  BY <1>1, <1>7 DEF vars, slack
<1>8. CASE \E h \in Handlers : Post(h) \/ Update(h)
  BY <1>0, <1>4, <1>8
<1>9. CASE \E h \in Handlers : DeleteOnSlack(h)
  BY <1>0, <1>1, <1>5, <1>9
<1> QED
  BY <1>1, <1>2, <1>3, <1>6, <1>7, <1>8, <1>9 DEF Next, HandlerStep

\* The timeline only grows; a redaction by a Matrix user is for good.
LEMMA TimelineKept ==
  ASSUME TypeInv, [Next]_vars
  PROVE  /\ Len(timeline) <= Len(timeline') /\ Len(timeline') \in Nat
         /\ \A e \in 1..Len(timeline) :
              /\ timeline'[e].kind = timeline[e].kind /\ timeline'[e].ts = timeline[e].ts
              /\ timeline'[e].relates = timeline[e].relates
              /\ timeline[e].redacted # "no" => timeline'[e].redacted # "no"
              /\ timeline[e].redacted = "matrix" => timeline'[e].redacted = "matrix"
         /\ \/ Len(timeline') = Len(timeline)
            \/ /\ Len(timeline') = Len(timeline) + 1
               /\ timeline'[Len(timeline) + 1].ts = 0
                  /\ timeline'[Len(timeline) + 1].kind # "copy"
            \/ /\ Len(timeline') = Len(timeline) + 1
               /\ \E h \in Handlers : /\ Send(h)
                                      /\ timeline'[Len(timeline) + 1].ts = tasks[h].ts
                                      /\ timeline'[Len(timeline) + 1].kind = "copy"
<1>0. Len(timeline) \in Nat
  BY Lengths
<1>1. CASE timeline' = timeline
  BY <1>0, <1>1
<1>2. ASSUME NEW h \in Handlers, MatrixMessage(h) \/ MatrixRedacts(h) \/ MatrixEdits(h)
      PROVE  /\ \A e \in 1..Len(timeline) :
                  /\ timeline'[e].kind = timeline[e].kind /\ timeline'[e].ts = timeline[e].ts
                  /\ timeline'[e].relates = timeline[e].relates
                  /\ timeline[e].redacted # "no" => timeline'[e].redacted # "no"
                  /\ timeline[e].redacted = "matrix" => timeline'[e].redacted = "matrix"
             /\ \/ Len(timeline') = Len(timeline)
                \/ /\ Len(timeline') = Len(timeline) + 1
                   /\ timeline'[Len(timeline) + 1].ts = 0
                      /\ timeline'[Len(timeline) + 1].kind # "copy"
  <2>1. CASE tasks'[h].pc \in {"reading", "editing"}
    BY <1>2, <2>1, MatrixIs
  <2>2. CASE tasks'[h].pc = "redacting"
    <3>1. PICK e \in 1..Len(timeline) : timeline' = [timeline EXCEPT ![e].redacted = "matrix"]
      BY <1>2, <2>2, MatrixIs
    <3> QED
      BY <3>1, RedactedIs
  <2> QED
    BY <1>2, <2>1, <2>2, MatrixIs
<1>3. ASSUME NEW h \in Handlers, Remove(h)
      PROVE  /\ Len(timeline') = Len(timeline)
             /\ \A e \in 1..Len(timeline) :
                  /\ timeline'[e].kind = timeline[e].kind /\ timeline'[e].ts = timeline[e].ts
                  /\ timeline'[e].relates = timeline[e].relates
                  /\ timeline[e].redacted # "no" => timeline'[e].redacted # "no"
                  /\ timeline[e].redacted = "matrix" => timeline'[e].redacted = "matrix"
  <2>1. tasks[h].event \in 1..Len(timeline)
    BY <1>3, TaskTypes DEF Remove, At, HasEvent
  <2>2. PICK answer \in {"bridge", "refused"} :
          timeline' = [timeline EXCEPT ![tasks[h].event].redacted =
                          IF @ \in {"no", "refused"} THEN answer ELSE @]
    BY <1>3 DEF Remove
  <2>3. PICK r : r = IF timeline[tasks[h].event].redacted \in {"no", "refused"} THEN answer
                     ELSE timeline[tasks[h].event].redacted
    OBVIOUS
  <2>4. timeline[tasks[h].event] \in MatrixEvents
    BY <2>1 DEF TypeInv, DataInv
  <2>5. r \in {"refused", "matrix", "bridge"}
    BY <2>3, <2>4 DEF MatrixEvents
  <2>6. timeline' = [timeline EXCEPT ![tasks[h].event].redacted = r]
    BY <2>2, <2>3
  <2> QED
    BY <2>1, <2>3, <2>5, <2>6, RedactedIs
<1>4. ASSUME NEW h \in Handlers, Send(h)
      PROVE  /\ Len(timeline') = Len(timeline) + 1
             /\ \A e \in 1..Len(timeline) : timeline'[e] = timeline[e]
             /\ timeline'[Len(timeline) + 1].ts = tasks[h].ts
             /\ timeline'[Len(timeline) + 1].kind = "copy"
  BY <1>4, SendIs, TimelineGrows
<1>5. ASSUME NEW h \in Handlers, HandlerStep(h), ~Send(h), ~Remove(h),
             ~(MatrixMessage(h) \/ MatrixRedacts(h) \/ MatrixEdits(h))
      PROVE  timeline' = timeline
  <2>1. CASE Arrives(h)
    BY <1>5, <2>1, SlackIs DEF Arrives
  <2>2. CASE Quiet(h)
    BY <2>2, QuietChanges
  <2>3. CASE ~Arrives(h) /\ ~Quiet(h)
    BY <1>5, <2>3
    DEF HandlerStep, Continues, Fails, Quiet, Post, Answered, AnswerLost, StoreSent, StoreList,
        Enqueue, Leave, Begin, WriteThread, Drops, SendFails, DropEdit, RecordCopy, Unstore, DeleteOnSlack, StoreEdit, Update
  <2> QED
    BY <2>1, <2>2, <2>3
<1>6. CASE UNCHANGED vars \/ SlackMessage \/ SlackEdits \/ SlackDeletes
  BY <1>1, <1>6 DEF vars, SlackMessage, SlackEdits, SlackDeletes
<1> QED
  BY <1>0, <1>1, <1>2, <1>3, <1>4, <1>5, <1>6 DEF Next, HandlerStep

\* addRecentSlackMessage
LEMMA AddIs ==
  ASSUME TypeInv, NEW ts \in Ts, AddRecentSlackMessage(ts)
  PROVE  /\ \A t : Known(t) => Known(t)'
         /\ Known(ts)' /\ forgotten \subseteq forgotten'
         /\ \A t : Known(t)' => Known(t) \/ t = ts
<1>1. /\ ts \in Elements(recent') /\ Elements(recent') \subseteq Elements(recent) \cup {ts}
      /\ forgotten' = forgotten \cup (Elements(recent) \ Elements(recent'))
  BY RememberedIs DEF AddRecentSlackMessage, TypeInv, RoomInv
<1>2. \A t : Known(t)' <=> t \in Elements(recent') \/ t \in forgotten'
  BY DEF Known, Elements
<1> QED
  BY <1>1, <1>2 DEF Known

\* What is remembered stays known, to recent or to the history; only an
\* answer, a lost one and a handler's turn add to it.
LEMMA KnownKept ==
  ASSUME TypeInv, [Next]_vars
  PROVE  /\ \A ts : Known(ts) => Known(ts)'
         /\ forgotten \subseteq forgotten'
         /\ \/ UNCHANGED <<recent, forgotten>>
            \/ \E h \in Handlers, ts \in Ts :
                 /\ Answered(h) \/ AnswerLost(h)
                    \/ (Begin(h) /\ tasks[h].ts \notin Elements(recent))
                 /\ ts = tasks[h].ts /\ Known(ts)'
                 /\ \A t : Known(t)' => Known(t) \/ t = ts
<1>1. CASE UNCHANGED <<recent, forgotten>>
  BY <1>1 DEF Known, Elements
<1>2. ASSUME NEW h \in Handlers, Answered(h) \/ (Begin(h) /\ tasks[h].ts \notin Elements(recent))
      PROVE  /\ \A ts : Known(ts) => Known(ts)'
             /\ forgotten \subseteq forgotten'
             /\ \E ts \in Ts : /\ ts = tasks[h].ts /\ Known(ts)'
                              /\ \A t : Known(t)' => Known(t) \/ t = ts
  <2>1. PICK ts \in Ts : ts = tasks[h].ts
    BY <1>2, TaskTypes DEF Answered, Leave, Begin, At, HasTs, Sending, FromSlack
  <2>2. AddRecentSlackMessage(ts)
    BY <1>2, <2>1 DEF Answered, Leave, Begin
  <2> QED
    BY <2>1, <2>2, AddIs
<1>3. ASSUME NEW h \in Handlers, AnswerLost(h)
      PROVE  /\ \A ts : Known(ts) => Known(ts)'
             /\ forgotten \subseteq forgotten'
             /\ \E ts \in Ts : /\ ts = tasks[h].ts /\ Known(ts)'
                              /\ \A t : Known(t)' => Known(t) \/ t = ts
  <2>1. PICK ts \in Ts : ts = tasks[h].ts
    BY <1>3, TaskTypes DEF AnswerLost, At, HasTs, Sending
  <2>2. recent' = recent /\ forgotten' = forgotten \cup {ts}
    BY <1>3, <2>1 DEF AnswerLost
  <2> QED
    BY <2>1, <2>2 DEF Known, Elements
<1>4. ASSUME NEW h \in Handlers, HandlerStep(h), ~Answered(h), ~AnswerLost(h),
             ~(Begin(h) /\ tasks[h].ts \notin Elements(recent))
      PROVE  UNCHANGED <<recent, forgotten>>
  <2>1. CASE Arrives(h)
    BY <2>1, MatrixIs, SlackIs DEF Arrives, room
  <2>2. CASE Quiet(h)
    BY <2>2, QuietChanges DEF room
  <2>3. CASE ~Arrives(h) /\ ~Quiet(h)
    BY <1>4, <2>3
    DEF HandlerStep, Continues, Fails, Quiet, Post, StoreSent, StoreList, Enqueue, Leave, Begin,
        WriteThread, Send, Drops, SendFails, DropEdit, RecordCopy, Remove, Unstore, DeleteOnSlack, StoreEdit,
        room, Update
  <2> QED
    BY <2>1, <2>2, <2>3
<1>5. CASE UNCHANGED vars \/ SlackMessage \/ SlackEdits \/ SlackDeletes
  BY <1>1, <1>5 DEF vars, room, SlackMessage, SlackEdits, SlackDeletes
<1> QED
  BY <1>1, <1>2, <1>3, <1>4, <1>5 DEF Next, HandlerStep

\* Only a Send adds a copy.
LEMMA CopiesKept ==
  ASSUME TypeInv, LockInv, [Next]_vars, NEW ts \in Ts
  PROVE  /\ Copies(ts) \subseteq Copies(ts)'
         /\ Copies(ts)' \subseteq Copies(ts) \cup {Len(timeline) + 1}
         /\ (~\E h \in Handlers : Send(h) /\ tasks[h].ts = ts) => Copies(ts)' = Copies(ts)
<1>1. /\ DOMAIN timeline = 1..Len(timeline) /\ Len(timeline) \in Nat
      /\ DOMAIN timeline' = 1..Len(timeline') /\ ts # 0
  BY StepType, Lengths DEF TypeInv, DataInv, Ts
<1>2. Copies(ts) = {e \in 1..Len(timeline) : timeline[e].ts = ts}
      /\ Copies(ts)' = {e \in 1..Len(timeline') : timeline'[e].ts = ts}
  BY <1>1 DEF Copies
<1>3. \A e \in 1..Len(timeline) : timeline'[e].ts = timeline[e].ts
  BY TimelineKept
<1>4. CASE Len(timeline') = Len(timeline)
  BY <1>2, <1>3, <1>4
<1>5. CASE Len(timeline') = Len(timeline) + 1
           /\ \/ timeline'[Len(timeline) + 1].ts = 0
              \/ \E h \in Handlers : Send(h) /\ timeline'[Len(timeline) + 1].ts = tasks[h].ts
  <2>1. 1..Len(timeline') = 1..Len(timeline) \cup {Len(timeline) + 1}
    BY <1>1, <1>5
  <2> QED
    BY <1>1, <1>2, <1>3, <1>5, <2>1
<1> QED
  BY <1>4, <1>5, TimelineKept

-----------------------------------------------------------------------------
(* Once *)

\* A handler at a message of Slack's has come to it in steps that keep the ts;
\* only its turn takes it into Begun.
LEMMA ReceivingIs ==
  ASSUME TypeInv, NEW h \in Handlers, HandlerStep(h)
  PROVE  /\ tasks'[h].pc \in Receiving \ {"arrived"} =>
              tasks'[h].ts = tasks[h].ts /\ (tasks[h].pc \in Receiving)
              /\ (tasks[h].pc = "arrived" => Check(h))
         /\ tasks'[h].pc \in Begun =>
              tasks[h].pc \in Begun
              \/ (Begin(h) /\ tasks[h].pc = "queued" /\ tasks[h].ts \notin Elements(recent))
         /\ tasks'[h].pc \in Begun \ {"recording"} => tasks[h].pc # "recording"
<1>1. CASE Arrives(h)
  <2>1. tasks'[h].pc \in {"idle", "arrived", "locating", "reading", "editing", "redacting"}
    BY <1>1, MatrixIs, SlackIs DEF Arrives
  <2> QED
    BY <2>1 DEF Receiving, Waiting, Begun
<1>2. CASE ReadParent(h) \/ Post(h) \/ Answered(h) \/ AnswerLost(h) \/ StoreSent(h) \/ StoreList(h)
  <2>1. tasks'[h].pc \in {"posting", "answering", "storing", "listing", "idle"}
    <3>1. CASE ReadParent(h)
      BY <3>1, ReadParentIs
    <3>2. CASE Post(h)
      BY <3>2, PostIs
    <3>3. CASE Answered(h) \/ AnswerLost(h) \/ StoreSent(h) \/ StoreList(h)
      BY <3>3, ToIs, DoneIs DEF Answered, AnswerLost, StoreSent, StoreList
    <3> QED
      BY <1>2, <3>1, <3>2, <3>3
  <2> QED
    BY <2>1 DEF Receiving, Waiting, Begun
<1>3. CASE \/ Locate(h) \/ Remove(h) \/ ReadRedacted(h) \/ Unstore(h) \/ DeleteOnSlack(h)
           \/ ReadEdited(h) \/ StoreEdit(h) \/ Update(h) \/ CallFails(h) \/ RecordCopy(h)
           \/ Drops(h)
  <2>1. tasks'[h].pc \in {"idle", "removing", "unstoring", "deleting", "updating", "storingEdit"}
    <3>1. CASE Locate(h)
      BY <3>1, LocateIs DEF Idle
    <3>2. CASE ReadRedacted(h) \/ ReadEdited(h)
      BY <3>2, ReadRowIs DEF Idle
    <3>3. CASE \/ Remove(h) \/ Unstore(h) \/ DeleteOnSlack(h) \/ StoreEdit(h) \/ Update(h)
               \/ CallFails(h) \/ RecordCopy(h) \/ Drops(h)
      BY <3>3, ToIs, DoneIs
      DEF Remove, Unstore, DeleteOnSlack, StoreEdit, Update, CallFails, Leave, RecordCopy, Drops, SendFails, DropEdit
    <3> QED
      BY <1>3, <3>1, <3>2, <3>3
  <2> QED
    BY <2>1 DEF Receiving, Waiting, Begun
<1>4. CASE Check(h)
  <2>1. \/ tasks'[h].pc = "idle"
        \/ tasks'[h].pc = "naming" /\ tasks'[h].ts = tasks[h].ts
    BY <1>4, ToIs, DoneIs DEF Check
  <2> QED
    BY <1>4, <2>1 DEF Check, At, Receiving, Waiting, Begun
<1>5. CASE Enqueue(h)
  <2>1. /\ tasks[h].pc = "naming" /\ tasks'[h].pc = "queued" /\ tasks'[h].ts = tasks[h].ts
    BY <1>5, ToIs DEF Enqueue, At
  <2> QED
    BY <2>1 DEF Receiving, Waiting, Begun
<1>6. CASE Begin(h)
  <2>1. tasks[h].pc = "queued"
    BY <1>6 DEF Leave, Begin, At
  <2>2. \/ tasks'[h].pc = "idle"
        \/ /\ tasks[h].ts \notin Elements(recent)
           /\ tasks'[h].pc \in {"matching", "threading", "sending"}
           /\ tasks'[h].ts = tasks[h].ts
    BY <1>6, ToIs, DoneIs, FirstStepIs DEF Leave, Begin
  <2> QED
    BY <1>6, <2>1, <2>2 DEF Receiving, Waiting, Begun
<1>7. CASE MatchEdit(h) \/ ReadThread(h) \/ WriteThread(h) \/ FindReply(h) \/ Send(h)
  <2>1. /\ tasks[h].pc \in {"matching", "threading", "writing", "finding", "sending"}
        /\ tasks'[h].pc \in {"matching", "threading", "writing", "finding", "sending",
                              "recording"}
        /\ tasks'[h].ts = tasks[h].ts
    <3>1. CASE ReadThread(h)
      BY <3>1, ReadThreadIs
    <3>2. CASE WriteThread(h)
      BY <3>2, ToIs DEF WriteThread, At
    <3>3. CASE FindReply(h)
      BY <3>3, FindReplyIs
    <3>4. CASE Send(h)
      <4>1. PICK t \in Tasks : t.pc = "recording" /\ t.ts = tasks[h].ts /\ Start(h, t)
        BY <3>4, SendIs
      <4> QED
        BY <3>4, <4>1, StartIs DEF Send, At
    <3>5. CASE MatchEdit(h)
      BY <3>5, MatchEditIs
    <3> QED
      BY <1>7, <3>1, <3>2, <3>3, <3>4, <3>5
  <2> QED
    BY <2>1 DEF Receiving, Waiting, Begun
<1> QED
  BY <1>1, <1>2, <1>3, <1>4, <1>5, <1>6, <1>7 DEF HandlerStep, Continues, Fails, Drops

\* A handler leaves "answering" when its ts is known.
LEMMA AnsweringIs ==
  ASSUME TypeInv, [Next]_vars, NEW g \in Handlers, At(g, "answering"), NEW ts \in Ts,
         tasks[g].ts = ts
  PROVE  tasks'[g] = tasks[g] \/ Known(ts)'
<1>1. CASE UNCHANGED vars \/ SlackMessage \/ SlackEdits \/ SlackDeletes
  BY <1>1 DEF vars, SlackMessage, SlackEdits, SlackDeletes
<1>2. ASSUME NEW h \in Handlers, HandlerStep(h)
      PROVE  tasks'[g] = tasks[g] \/ Known(ts)'
  <2>1. CASE g # h
    BY <1>2, <2>1, Others
  <2>2. CASE g = h /\ Answered(h)
    BY <2>2, AddIs DEF Answered
  <2>3. CASE g = h /\ AnswerLost(h)
    BY <2>3 DEF AnswerLost, Known
  <2>4. CASE g = h /\ ~Answered(h) /\ ~AnswerLost(h)
    <3>1. CASE Arrives(h)
      BY <2>4, <3>1, MatrixIs, SlackIs DEF Arrives, At
    <3>2. CASE ~Arrives(h)
      BY <1>2, <2>4, <3>2
      DEF HandlerStep, Continues, Fails, At, ReadParent, Post, StoreSent, StoreList, Check,
          Enqueue, Leave, Begin, ReadThread, WriteThread, FindReply, ReplyTo, MatchEdit, Send, Drops, SendFails, DropEdit, RecordCopy,
          Locate, Remove, ReadRedacted, Unstore, DeleteOnSlack, ReadEdited, Update, StoreEdit,
          CallFails
    <3> QED
      BY <3>1, <3>2
  <2> QED
    BY <2>1, <2>2, <2>3, <2>4
<1> QED
  BY <1>1, <1>2 DEF Next, HandlerStep

\* A task changes in its handler's step only.
LEMMA MovesOne ==
  ASSUME TypeInv, [Next]_vars, NEW h \in Handlers
  PROVE  tasks'[h] = tasks[h] \/ HandlerStep(h)
<1>1. CASE UNCHANGED vars \/ SlackMessage \/ SlackEdits \/ SlackDeletes
  BY <1>1 DEF vars, SlackMessage, SlackEdits, SlackDeletes
<1>2. ASSUME NEW g \in Handlers, HandlerStep(g)
      PROVE  g = h \/ tasks'[h] = tasks[h]
  BY <1>2, Others
<1> QED
  BY <1>1, <1>2 DEF Next, HandlerStep

LEMMA OursKept ==
  ASSUME TypeInv, [Next]_vars, NEW ts \in Ts
  PROVE  /\ Ours(ts) => Ours(ts)'
         /\ ts <= Len(channel) => (Ours(ts) <=> Ours(ts)')
         /\ Ours(ts)' => \/ Ours(ts)
                         \/ ts = Len(channel) + 1 /\ \E h \in Handlers : Post(h)
<1>1. Len(channel) \in Nat /\ ts \in Nat /\ ts >= 1
  BY Lengths DEF Ts
<1>2. CASE ts <= Len(channel)
  <2>1. ts \in 1..Len(channel) /\ ts <= Len(channel')
    BY <1>1, <1>2, ChannelKept
  <2> QED
    BY <1>2, <2>1, ChannelKept DEF Ours, Posted, IsMessage
<1>3. CASE ~(ts <= Len(channel))
  <2>1. CASE Len(channel') = Len(channel)
    BY <1>3, <2>1 DEF Ours
  <2>2. CASE /\ Len(channel') = Len(channel) + 1
             /\ \/ \E h \in Handlers : Post(h)
                \/ channel'[Len(channel) + 1].from = "slack"
                \/ channel'[Len(channel) + 1].edits # 0
    BY <1>1, <1>3, <2>2 DEF Ours, Posted, IsMessage
  <2> QED
    BY <2>1, <2>2, ChannelKept
<1> QED
  BY <1>2, <1>3

LEMMA RecentStep ==
  ASSUME TypeInv, LockInv, RecentInv, [Next]_vars
  PROVE  RecentInv'
<1> SUFFICES ASSUME NEW ts \in Ts
             PROVE  /\ Copies(ts)' # {} => Known(ts)'
                    /\ Ours(ts)' => Known(ts)' \/ \E h \in Handlers :
                                       tasks'[h].pc = "answering" /\ tasks'[h].ts = ts
                    /\ \A h \in Handlers : tasks'[h].ts = ts =>
                         /\ tasks'[h].pc \in Begun => Known(ts)'
                         /\ tasks'[h].pc \in Begun \ {"recording"} => Uncopied(ts)'
                         /\ tasks'[h].pc \in Receiving \ {"arrived"} =>
                              ~Ours(ts)' \/ ts \in forgotten'
  BY DEF RecentInv, At
<1>1. /\ Copies(ts) # {} => Known(ts)
      /\ Ours(ts) => Known(ts) \/ \E h \in Handlers : At(h, "answering") /\ tasks[h].ts = ts
      /\ \A h \in Handlers : tasks[h].ts = ts =>
           /\ tasks[h].pc \in Begun => Known(ts)
           /\ tasks[h].pc \in Begun \ {"recording"} => Uncopied(ts)
           /\ tasks[h].pc \in Receiving \ {"arrived"} => ~Ours(ts) \/ ts \in forgotten
  BY DEF RecentInv
<1>2. (Known(ts) => Known(ts)') /\ forgotten \subseteq forgotten'
  BY KnownKept
<1>3. Copies(ts)' # {} => Known(ts)'
  <2>1. ASSUME NEW h \in Handlers, Send(h), tasks[h].ts = ts
        PROVE  Known(ts)'
    BY <1>1, <1>2, <2>1 DEF Send, At, Begun
  <2> QED
    BY <1>1, <1>2, <2>1, CopiesKept
<1>4. ASSUME Ours(ts)'
      PROVE  Known(ts)' \/ \E h \in Handlers : tasks'[h].pc = "answering" /\ tasks'[h].ts = ts
  <2>1. ASSUME NEW h \in Handlers, At(h, "answering"), tasks[h].ts = ts
        PROVE  Known(ts)' \/ (tasks'[h].pc = "answering" /\ tasks'[h].ts = ts)
    BY <2>1, AnsweringIs DEF At
  <2>2. CASE Ours(ts)
    BY <1>1, <1>2, <2>1, <2>2
  <2>3. ASSUME NEW h \in Handlers, Post(h), ts = Len(channel) + 1
        PROVE  tasks'[h].pc = "answering" /\ tasks'[h].ts = ts
    BY <2>3, PostIs
  <2> QED
    BY <1>4, <2>2, <2>3, OursKept
<1>5. ASSUME NEW h \in Handlers, tasks'[h].ts = ts, tasks'[h] # tasks[h]
      PROVE  /\ tasks'[h].pc \in Begun => Known(ts)'
             /\ tasks'[h].pc \in Begun \ {"recording"} => ts \in forgotten' \/ Copies(ts) = {}
             /\ tasks'[h].pc \in Receiving \ {"arrived"} => ~Ours(ts) \/ ts \in forgotten'
  <2>1. HandlerStep(h)
    BY <1>5, MovesOne
  <2>2. ASSUME tasks'[h].pc \in Begun
        PROVE  tasks[h].ts = ts /\ Known(ts)'
               /\ (tasks'[h].pc # "recording" => ts \in forgotten' \/ Copies(ts) = {})
    <3>1. tasks[h].ts = ts /\ tasks'[h].pc \in Receiving \ {"arrived"}
      BY <1>5, <2>1, <2>2, ReceivingIs DEF Receiving, Begun
    <3>2. CASE tasks[h].pc \in Begun
      BY <1>1, <1>2, <2>1, <2>2, <3>1, <3>2, ReceivingIs DEF Uncopied
    <3>3. CASE Begin(h) /\ ts \notin Elements(recent)
      <4>1. Known(ts)'
        BY <3>1, <3>3, AddIs DEF Leave, Begin
      <4>2. ts \in forgotten \/ Copies(ts) = {}
        BY <1>1, <3>3 DEF Known
      <4> QED
        BY <1>2, <3>1, <4>1, <4>2
    <3> QED
      BY <2>1, <2>2, <3>1, <3>2, <3>3, ReceivingIs
  <2>3. ASSUME tasks'[h].pc \in Receiving \ {"arrived"}
        PROVE  ~Ours(ts) \/ ts \in forgotten'
    <3>1. tasks[h].ts = ts /\ tasks[h].pc \in Receiving
      BY <1>5, <2>1, <2>3, ReceivingIs
    <3>2. CASE tasks[h].pc # "arrived"
      BY <1>1, <1>2, <3>1, <3>2
    <3>3. CASE tasks[h].pc = "arrived"
      <4>1. Check(h)
        BY <2>1, <2>3, <3>3, ReceivingIs
      <4>2. /\ \A g \in Handlers : ~(At(g, "answering") /\ tasks[g].ts = ts)
            /\ ts \in Elements(recent) => Done(h)
        BY <3>1, <4>1 DEF Check
      <4>3. ts \notin Elements(recent)
        BY <2>3, <4>2, DoneIs DEF Receiving, Waiting, Begun
      <4>4. Ours(ts) => Known(ts)
        BY <1>1, <4>2
      <4> QED
        BY <1>2, <4>3, <4>4 DEF Known
    <3> QED
      BY <3>2, <3>3
  <2> QED
    BY <2>2, <2>3
<1>6. ASSUME NEW h \in Handlers, tasks'[h].ts = ts
      PROVE  /\ tasks'[h].pc \in Begun => Known(ts)'
             /\ tasks'[h].pc \in Begun \ {"recording"} => ts \in forgotten' \/ Copies(ts) = {}
             /\ tasks'[h].pc \in Receiving \ {"arrived"} => ~Ours(ts) \/ ts \in forgotten'
  BY <1>1, <1>2, <1>5, <1>6 DEF Uncopied
<1>7. ASSUME NEW h \in Handlers, tasks'[h].ts = ts, tasks'[h].pc \in Begun \ {"recording"}
      PROVE  Uncopied(ts)'
  <2>1. ASSUME NEW g \in Handlers, Send(g), tasks[g].ts = ts
        PROVE  FALSE
    <3>1. g = lock[1] /\ tasks'[g].pc = "recording" /\ lock' = lock
      <4>1. PICK t \in Tasks : t.pc = "recording" /\ Start(g, t)
        BY <2>1, SendIs
      <4> QED
        BY <2>1, <4>1, StartIs DEF Send, At, Begun, LockInv, room
    <3>2. h = lock'[1]
      BY <1>7, LockStep DEF LockInv
    <3> QED
      BY <1>7, <3>1, <3>2
  <2>2. Copies(ts)' = Copies(ts)
    BY <2>1, CopiesKept
  <2> QED
    BY <1>6, <1>7, <2>2 DEF Uncopied
<1>8. ASSUME NEW h \in Handlers, tasks'[h].ts = ts, tasks'[h].pc \in Receiving \ {"arrived"}
      PROVE  ts <= Len(channel)
  <2>1. tasks[h].ts = ts
    BY <1>8, MovesOne, ReceivingIs
  <2> QED
    BY <2>1, TaskFacts DEF TaskIn
<1> QED
  BY <1>3, <1>4, <1>6, <1>7, <1>8, OursKept

LEMMA OnceStep ==
  ASSUME TypeInv, LockInv, RecentInv, OnceInv, [Next]_vars
  PROVE  OnceInv'
<1> SUFFICES ASSUME NEW ts \in Ts, ts \notin forgotten'
             PROVE  /\ \A d, e \in Copies(ts)' : d = e
                    /\ Ours(ts)' => Copies(ts)' = {}
  BY DEF OnceInv
<1>1. ts \notin forgotten /\ (\A d, e \in Copies(ts) : d = e) /\ (Ours(ts) => Copies(ts) = {})
  BY KnownKept DEF OnceInv
<1>2. ASSUME NEW h \in Handlers, Send(h), tasks[h].ts = ts
      PROVE  /\ \A d, e \in Copies(ts)' : d = e
             /\ Ours(ts)' => Copies(ts)' = {}
  <2>1. Copies(ts) = {} /\ ~Ours(ts) /\ ts <= Len(channel)
    BY <1>1, <1>2, TaskFacts
    DEF Send, At, RecentInv, Uncopied, Begun, Receiving, Waiting, TaskIn
  <2>2. Copies(ts)' \subseteq {Len(timeline) + 1}
    BY <2>1, CopiesKept
  <2>3. ~Ours(ts)'
    BY <2>1, OursKept
  <2> QED
    BY <2>2, <2>3
<1>3. CASE Copies(ts)' = Copies(ts)
  <2>1. CASE Ours(ts)' /\ ts = Len(channel) + 1
    <3>1. \A e \in 1..Len(timeline) : timeline[e].ts # ts
      <4>1. \A e \in 1..Len(timeline) : timeline[e].ts <= Len(channel)
        BY DEF TypeInv, DataInv, EventIn
      <4> QED
        BY <2>1, <4>1, Lengths
    <3> QED
      BY <1>3, <3>1, Lengths DEF Copies
  <2> QED
    BY <1>1, <1>3, <2>1, OursKept
<1> QED
  BY <1>2, <1>3, CopiesKept

LEMMA InitOnce == Init => RecentInv /\ OnceInv
<1> SUFFICES ASSUME Init PROVE RecentInv /\ OnceInv
  OBVIOUS
<1>1. /\ channel = <<>> /\ Len(channel) = 0 /\ \A h \in Handlers : tasks[h] = Idle
      /\ \A ts : Copies(ts) = {}
  BY EmptySeq DEF Init, Copies
<1>2. \A ts \in Ts : ~Ours(ts)
  BY <1>1, RelayAssumption DEF Ours, Ts
<1> QED
  BY <1>1, <1>2 DEF RecentInv, OnceInv, Idle, Receiving, Waiting, Begun

LEMMA OnceImplies ==
  ASSUME TypeInv, OnceInv
  PROVE  AtMostOnce
<1> SUFFICES ASSUME NEW ts \in DOMAIN channel, ts \notin forgotten
             PROVE  Cardinality(Copies(ts)) <= IF Posted(ts) THEN 0 ELSE 1
  BY DEF AtMostOnce
<1>1. ts \in Ts /\ ts <= Len(channel)
  BY Lengths DEF Ts
<1>2. (\A d, e \in Copies(ts) : d = e) /\ (Posted(ts) => Copies(ts) = {})
  BY <1>1 DEF OnceInv, Ours
<1>3. CASE Copies(ts) = {}
  BY <1>3, FS_EmptySet
<1>4. ASSUME NEW e \in Copies(ts)
      PROVE  Cardinality(Copies(ts)) <= IF Posted(ts) THEN 0 ELSE 1
  <2>1. Copies(ts) = {e} /\ ~Posted(ts)
    BY <1>2, <1>4
  <2>2. Cardinality({e}) = 1
    BY FS_Singleton
  <2> QED
    BY <2>1, <2>2
<1> QED
  BY <1>3, <1>4

LEMMA OnceAlways == Spec => [](TypeInv /\ LockInv /\ RecentInv /\ OnceInv)
<1>1. Init => RecentInv /\ OnceInv
  BY InitOnce
<1>2. TypeInv /\ LockInv /\ RecentInv /\ OnceInv /\ [Next]_vars => (RecentInv /\ OnceInv)'
  BY RecentStep, OnceStep
<1> QED
  BY <1>1, <1>2, TypeLock, PTL DEF Spec

\* A message or an edit of a Slack user comes to the Matrix room at most once,
\* and a message that the bridge posted never comes back, for any number of
\* streams and handlers; unless the remembered ts was shifted out or Slack's
\* answer lost. An edit that the bridge made for a puppet may come back, once.
THEOREM ComesOnce == Spec => []AtMostOnce
BY OnceAlways, OnceImplies, PTL

-----------------------------------------------------------------------------
(* Rows *)

\* Which step takes a handler where.
LEMMA Enters ==
  ASSUME TypeInv, NEW h \in Handlers, HandlerStep(h)
  PROVE  \/ tasks'[h].pc = "idle"
         \/ tasks'[h].pc = "reading" /\ MatrixMessage(h)
         \/ tasks'[h].pc = "editing" /\ MatrixEdits(h)
         \/ tasks'[h].pc = "redacting" /\ MatrixRedacts(h)
         \/ tasks'[h].pc = "arrived" /\ \E s \in Streams : Deliver(h, s)
         \/ tasks'[h].pc = "locating" /\ DeletionArrives(h)
         \/ tasks'[h].pc = "posting" /\ ReadParent(h)
         \/ tasks'[h].pc = "answering" /\ Post(h)
         \/ tasks'[h].pc = "storing" /\ Answered(h) /\ To(h, "storing")
         \/ tasks'[h].pc = "listing" /\ StoreSent(h) /\ To(h, "listing")
         \/ tasks'[h].pc = "naming" /\ Check(h) /\ To(h, "naming")
         \/ tasks'[h].pc = "queued" /\ Enqueue(h) /\ To(h, "queued")
         \/ /\ tasks'[h].pc \in {"matching", "threading", "sending"} /\ Begin(h)
            /\ tasks'[h].pc = FirstStep(tasks[h].ts) /\ To(h, FirstStep(tasks[h].ts))
         \/ tasks'[h].pc \in {"matching", "threading", "sending"} /\ MatchEdit(h)
         \/ tasks'[h].pc = "writing" /\ ReadThread(h)
         \/ tasks'[h].pc = "finding" /\ WriteThread(h) /\ To(h, "finding")
         \/ tasks'[h].pc = "sending" /\ (ReadThread(h) \/ FindReply(h))
         \/ tasks'[h].pc = "recording" /\ Send(h)
         \/ tasks'[h].pc = "removing" /\ Locate(h)
         \/ tasks'[h].pc = "unstoring" /\ ReadRedacted(h)
         \/ tasks'[h].pc = "deleting" /\ Unstore(h) /\ To(h, "deleting")
         \/ tasks'[h].pc = "updating" /\ ReadEdited(h)
         \/ tasks'[h].pc = "storingEdit" /\ Update(h) /\ To(h, "storingEdit")
<1>1. CASE MatrixMessage(h) \/ MatrixEdits(h) \/ MatrixRedacts(h)
  <2>1. CASE MatrixMessage(h)
    <3>1. PICK t : t.pc = "reading" /\ Start(h, t)
      BY <2>1 DEF MatrixMessage, Idle
    <3> QED
      BY <2>1, <3>1, StartIs
  <2>2. CASE MatrixEdits(h)
    <3>1. PICK t : t.pc = "editing" /\ Start(h, t)
      BY <2>2 DEF MatrixEdits, Idle
    <3> QED
      BY <2>2, <3>1, StartIs
  <2>3. CASE MatrixRedacts(h)
    <3>1. PICK t : t.pc = "redacting" /\ Start(h, t)
      BY <2>3 DEF MatrixRedacts, Idle
    <3> QED
      BY <2>3, <3>1, StartIs
  <2> QED
    BY <1>1, <2>1, <2>2, <2>3
<1>2. CASE DeletionArrives(h)
  <2>1. PICK t : t.pc = "locating" /\ Start(h, t)
    BY <1>2 DEF DeletionArrives, Idle
  <2> QED
    BY <1>2, <2>1, StartIs
<1>3. CASE \E s \in Streams : Deliver(h, s)
  <2>1. tasks' = tasks \/ \E t : t.pc = "arrived" /\ Start(h, t)
    BY <1>3 DEF Deliver, Idle
  <2>2. tasks[h].pc = "idle"
    BY <1>3 DEF Deliver, MayHandle, At
  <2> QED
    BY <1>3, <2>1, <2>2, StartIs
<1>4. CASE ReadParent(h) \/ Post(h) \/ FindReply(h)
  BY <1>4, ReadParentIs, PostIs, FindReplyIs
<1>5. CASE ReadThread(h)
  BY <1>5, ReadThreadIs
<1>6. CASE Locate(h)
  BY <1>6, LocateIs DEF Idle
<1>7. CASE ReadRedacted(h) \/ ReadEdited(h)
  <2>1. \/ tasks'[h].pc = "idle"
        \/ tasks[h].pc = "redacting" /\ tasks'[h].pc = "unstoring"
        \/ tasks[h].pc = "editing" /\ tasks'[h].pc = "updating"
    BY <1>7, ReadRowIs DEF Idle
  <2> QED
    BY <1>7, <2>1 DEF ReadRedacted, ReadEdited, At
<1>8. CASE Send(h)
  <2>1. PICK t \in Tasks : t.pc = "recording" /\ Start(h, t)
    BY <1>8, SendIs
  <2> QED
    BY <1>8, <2>1, StartIs
<1>9. CASE Done(h)
  BY <1>9, DoneIs
<1>10. CASE Answered(h) \/ StoreSent(h) \/ Check(h) \/ Enqueue(h)
  BY <1>9, <1>10, ToIs DEF Answered, StoreSent, Check, Enqueue
<1>11. CASE Begin(h) \/ WriteThread(h) \/ MatchEdit(h)
  <2>1. CASE Begin(h) /\ ~Done(h)
    <3>1. To(h, FirstStep(tasks[h].ts))
      BY <2>1 DEF Begin, Leave
    <3>2. tasks'[h].pc = FirstStep(tasks[h].ts)
      BY <3>1, ToIs
    <3> QED
      BY <2>1, <3>1, <3>2, FirstStepIs
  <2>2. CASE WriteThread(h)
    BY <2>2, ToIs DEF WriteThread
  <2>3. CASE MatchEdit(h)
    BY <2>3, MatchEditIs
  <2> QED
    BY <1>9, <1>11, <2>1, <2>2, <2>3
<1>12. CASE Unstore(h) \/ Update(h)
  BY <1>9, <1>12, ToIs DEF Unstore, Update
<1> QED
  BY <1>1, <1>2, <1>3, <1>4, <1>5, <1>6, <1>7, <1>8, <1>9, <1>10, <1>11, <1>12
  DEF HandlerStep, Arrives, Continues, Fails, StoreList, Leave, RecordCopy, Remove, DeleteOnSlack,
      StoreEdit, AnswerLost, Drops, SendFails, DropEdit, CallFails

\* What a handler appends to the list of its thread.
Enlisted(h) == IF tasks[h].pc = "listing" THEN tasks[h].ts ELSE Subject(h)

LEMMA EnlistedIs ==
  ASSUME TypeInv, NEW h \in Handlers, StoreList(h) \/ WriteThread(h)
  PROVE  /\ tasks[h].pc \in {"listing", "writing"}
         /\ Enlisted(h) \in 1..Len(channel) /\ Enlisted(h) \in Ts
         /\ \E row \in tasks[h].parent : UpsertEvent(Listed(row, Enlisted(h)))
<1>1. tasks[h].pc \in {"listing", "writing"}
  BY DEF StoreList, WriteThread, At
<1>2. tasks[h].pc \in HasTs
  BY <1>1 DEF HasTs, Sending, FromSlack
<1>3. \E row \in tasks[h].parent : UpsertEvent(Listed(row, Enlisted(h)))
  BY DEF StoreList, WriteThread, At, Enlisted
<1> QED
  BY <1>1, <1>2, <1>3, TaskTypes, SubjectIs DEF Enlisted

\* The table changes by an upsert or by a redaction.
LEMMA RowsIs ==
  ASSUME TypeInv, [Next]_vars
  PROVE  \/ rows' = rows
         \/ \E h \in Handlers : Unstore(h) /\ rows' = rows \ EventByMatrixId(tasks[h].event)
         \/ \E h \in Handlers :
              /\ StoreSent(h) \/ RecordCopy(h) \/ StoreEdit(h)
              /\ UpsertEvent(NewRow(tasks[h].event, tasks[h].ts))
         \/ \E h \in Handlers :
              /\ StoreList(h) \/ WriteThread(h)
              /\ \E row \in tasks[h].parent : UpsertEvent(Listed(row, Enlisted(h)))
<1>1. CASE UNCHANGED vars \/ SlackMessage \/ SlackEdits \/ SlackDeletes
  BY <1>1 DEF vars, SlackMessage, SlackEdits, SlackDeletes
<1>2. ASSUME NEW h \in Handlers, HandlerStep(h)
      PROVE  \/ rows' = rows
             \/ Unstore(h) /\ rows' = rows \ EventByMatrixId(tasks[h].event)
             \/ /\ StoreSent(h) \/ RecordCopy(h) \/ StoreEdit(h)
                /\ UpsertEvent(NewRow(tasks[h].event, tasks[h].ts))
             \/ /\ StoreList(h) \/ WriteThread(h)
                /\ \E row \in tasks[h].parent : UpsertEvent(Listed(row, Enlisted(h)))
  <2>1. CASE Arrives(h)
    BY <2>1, MatrixIs, SlackIs DEF Arrives
  <2>2. CASE Quiet(h)
    BY <2>2, QuietChanges
  <2>3. CASE Unstore(h) \/ StoreSent(h) \/ RecordCopy(h) \/ StoreEdit(h) \/ StoreList(h)
             \/ WriteThread(h)
    BY <2>3, EnlistedIs DEF Unstore, StoreSent, RecordCopy, StoreEdit
  <2>4. CASE ~Arrives(h) /\ ~Quiet(h)
             /\ ~(Unstore(h) \/ StoreSent(h) \/ RecordCopy(h) \/ StoreEdit(h) \/ StoreList(h)
                  \/ WriteThread(h))
    BY <1>2, <2>4
    DEF HandlerStep, Continues, Fails, Quiet, Post, Answered, AnswerLost, Enqueue, Leave, Begin, Send,
        Drops, SendFails, DropEdit, Remove, DeleteOnSlack, Update
  <2> QED
    BY <2>1, <2>2, <2>3, <2>4
<1> QED
  BY <1>1, <1>2 DEF Next, HandlerStep

\* A row stays, as the table sees it, until a redaction takes it.
LEMMA RowsKept ==
  ASSUME TypeInv, [Next]_vars, NEW r \in rows
  PROVE  \/ \E q \in rows' : q.event = r.event /\ q.ts = r.ts
         \/ \E h \in Handlers : Unstore(h) /\ tasks[h].event = r.event
<1>1. CASE rows' = rows
  BY <1>1
<1>2. ASSUME NEW h \in Handlers, Unstore(h), rows' = rows \ EventByMatrixId(tasks[h].event)
      PROVE  r \in rows' \/ tasks[h].event = r.event
  BY <1>2 DEF EventByMatrixId
<1>3. ASSUME NEW row, UpsertEvent(row)
      PROVE  \E q \in rows' : q.event = r.event /\ q.ts = r.ts
  BY <1>3 DEF UpsertEvent
<1> QED
  BY <1>1, <1>2, <1>3, RowsIs

\* Where a row comes from.
LEMMA RowsFrom ==
  ASSUME TypeInv, [Next]_vars, NEW r \in rows'
  PROVE  \/ r \in rows
         \/ \E h \in Handlers :
              /\ tasks[h].pc \in {"storing", "recording", "storingEdit"}
              /\ r.event = tasks[h].event /\ r.ts = tasks[h].ts /\ r.list = <<>>
         \/ \E h \in Handlers :
              /\ StoreList(h) \/ WriteThread(h)
              /\ \E row \in tasks[h].parent : /\ r.event = row.event /\ r.ts = row.ts
                                              /\ r.list = Append(row.list, Enlisted(h))
<1>1. ASSUME NEW row, UpsertEvent(row)
      PROVE  r \in rows \/ r = row
  BY <1>1 DEF UpsertEvent
<1>2. ASSUME NEW h \in Handlers, StoreSent(h) \/ RecordCopy(h) \/ StoreEdit(h)
      PROVE  /\ tasks[h].pc \in {"storing", "recording", "storingEdit"}
             /\ LET row == NewRow(tasks[h].event, tasks[h].ts)
                IN  row.event = tasks[h].event /\ row.ts = tasks[h].ts /\ row.list = <<>>
  <2>1. tasks[h].pc \in {"storing", "recording", "storingEdit"}
    BY <1>2 DEF StoreSent, Leave, RecordCopy, StoreEdit, At
  <2> QED
    BY <2>1 DEF NewRow
<1>3. ASSUME NEW h \in Handlers, StoreList(h) \/ WriteThread(h), NEW p \in tasks[h].parent
      PROVE  /\ tasks[h].pc \in {"listing", "writing"}
             /\ LET row == Listed(p, Enlisted(h))
                IN  /\ row.event = p.event /\ row.ts = p.ts
                    /\ row.list = Append(p.list, Enlisted(h))
  <2>1. tasks[h].pc \in {"listing", "writing"}
    BY <1>3 DEF StoreList, WriteThread, At
  <2>2. p \in Rows /\ Enlisted(h) \in Ts
    BY <1>3, TaskTypes, EnlistedIs
  <2> QED
    BY <2>1, <2>2, ListedIs
<1>4. CASE rows' = rows \/ \E h \in Handlers : Unstore(h) /\ rows' = rows \ EventByMatrixId(tasks[h].event)
  BY <1>4
<1>5. ASSUME NEW h \in Handlers, StoreSent(h) \/ RecordCopy(h) \/ StoreEdit(h),
             UpsertEvent(NewRow(tasks[h].event, tasks[h].ts))
      PROVE  \/ r \in rows
             \/ /\ tasks[h].pc \in {"storing", "recording", "storingEdit"}
                /\ r.event = tasks[h].event /\ r.ts = tasks[h].ts /\ r.list = <<>>
  BY <1>1, <1>2, <1>5
<1>6. ASSUME NEW h \in Handlers, StoreList(h) \/ WriteThread(h),
             \E row \in tasks[h].parent : UpsertEvent(Listed(row, Enlisted(h)))
      PROVE  \/ r \in rows
             \/ /\ tasks[h].pc \in {"listing", "writing"}
                /\ \E row \in tasks[h].parent : /\ r.event = row.event /\ r.ts = row.ts
                                                /\ r.list = Append(row.list, Enlisted(h))
  BY <1>1, <1>3, <1>6
<1> QED
  BY <1>4, <1>5, <1>6, RowsIs

LEMMA RecordedStep ==
  ASSUME TypeInv, LockInv, RecordedInv, [Next]_vars
  PROVE  RecordedInv'
<1> SUFFICES ASSUME NEW e \in EventIds
             PROVE  /\ /\ e <= Len(timeline') /\ timeline'[e].kind = "copy"
                       /\ timeline'[e].redacted # "matrix"
                       => HasRow(e)'
                          \/ \E h \in Handlers : tasks'[h].pc = "recording" /\ tasks'[h].event = e
                    /\ \A h \in Handlers : tasks'[h].event = e =>
                         /\ tasks'[h].pc = "recording" =>
                              timeline'[e].kind = "copy" /\ timeline'[e].ts = tasks'[h].ts
                         /\ tasks'[h].pc \in {"redacting", "unstoring"} =>
                              timeline'[e].redacted = "matrix"
  BY DEF RecordedInv, At
<1>1. /\ e <= Len(timeline) /\ timeline[e].kind = "copy" /\ timeline[e].redacted # "matrix"
         => HasRow(e) \/ \E h \in Handlers : At(h, "recording") /\ tasks[h].event = e
      /\ \A h \in Handlers : tasks[h].event = e =>
           /\ At(h, "recording") => timeline[e].kind = "copy" /\ timeline[e].ts = tasks[h].ts
           /\ tasks[h].pc \in {"redacting", "unstoring"} => timeline[e].redacted = "matrix"
  BY DEF RecordedInv
<1>2. e \in Nat /\ e >= 1 /\ Len(timeline) \in Nat
  BY Lengths DEF EventIds
<1>3. e <= Len(timeline) =>
        /\ timeline'[e].kind = timeline[e].kind /\ timeline'[e].ts = timeline[e].ts
        /\ timeline[e].redacted = "matrix" => timeline'[e].redacted = "matrix"
  BY <1>2, TimelineKept
<1>4. ASSUME NEW h \in Handlers, Send(h)
      PROVE  /\ tasks'[h].pc = "recording" /\ tasks'[h].event = Len(timeline) + 1
             /\ tasks'[h].ts = tasks[h].ts
             /\ timeline'[Len(timeline) + 1].kind = "copy"
             /\ timeline'[Len(timeline) + 1].ts = tasks[h].ts
  <2>1. PICK t \in Tasks : t.pc = "recording" /\ t.event = Len(timeline) + 1
                           /\ t.ts = tasks[h].ts /\ Start(h, t)
    BY <1>4, SendIs
  <2> QED
    BY <1>4, <2>1, StartIs, SendIs, TimelineGrows
<1>5. ASSUME e <= Len(timeline'), timeline'[e].kind = "copy", timeline'[e].redacted # "matrix"
      PROVE  HasRow(e)' \/ \E h \in Handlers : tasks'[h].pc = "recording" /\ tasks'[h].event = e
  <2>1. CASE ~(e <= Len(timeline))
    <3>1. Len(timeline') = Len(timeline) + 1 /\ e = Len(timeline) + 1
      BY <1>2, <1>5, <2>1, TimelineKept
    <3>2. PICK h \in Handlers : Send(h)
      BY <1>2, <1>5, <3>1, TimelineKept
    <3> QED
      BY <1>4, <3>1, <3>2
  <2>2. CASE e <= Len(timeline) /\ HasRow(e)
    <3>1. PICK r \in rows : r.event = e /\ r.ts = timeline[e].ts
      BY <2>2 DEF HasRow
    <3>2. ASSUME NEW h \in Handlers, Unstore(h), tasks[h].event = r.event
          PROVE  FALSE
      BY <1>1, <1>3, <1>5, <2>2, <3>1, <3>2 DEF Unstore, At
    <3>3. \E q \in rows' : q.event = e /\ q.ts = timeline'[e].ts
      BY <1>3, <2>2, <3>1, <3>2, RowsKept
    <3> QED
      BY <3>3 DEF HasRow
  <2>3. ASSUME e <= Len(timeline), NEW h \in Handlers, At(h, "recording"), tasks[h].event = e
        PROVE  HasRow(e)' \/ (tasks'[h].pc = "recording" /\ tasks'[h].event = e)
    <3>1. CASE tasks'[h] = tasks[h]
      BY <2>3, <3>1 DEF At
    <3>2. CASE HandlerStep(h)
      <4>1. RecordCopy(h)
        <5>1. CASE Arrives(h)
          BY <2>3, <5>1, MatrixIs, SlackIs DEF Arrives, At
        <5>2. CASE ~Arrives(h)
          BY <2>3, <3>2, <5>2
          DEF HandlerStep, Continues, Fails, At, ReadParent, Post, Answered, AnswerLost,
              StoreSent, StoreList, Check, Enqueue, Leave, Begin, ReadThread, WriteThread, FindReply, ReplyTo, MatchEdit,
              Send, Drops, SendFails, DropEdit, Locate, Remove, ReadRedacted, Unstore, DeleteOnSlack,
              ReadEdited, Update, StoreEdit, CallFails
        <5> QED
          BY <5>1, <5>2
      <4>2. NewRow(tasks[h].event, tasks[h].ts) \in rows'
        BY <4>1 DEF Leave, RecordCopy, UpsertEvent
      <4>3. timeline'[e].ts = tasks[h].ts
        BY <1>1, <1>3, <2>3
      <4> QED
        BY <2>3, <4>2, <4>3 DEF HasRow, NewRow
    <3> QED
      BY <3>1, <3>2, MovesOne
  <2> QED
    BY <1>1, <1>3, <1>5, <2>1, <2>2, <2>3
<1>6. ASSUME NEW h \in Handlers, tasks'[h].event = e, tasks'[h].pc = "recording"
      PROVE  timeline'[e].kind = "copy" /\ timeline'[e].ts = tasks'[h].ts
  <2>1. CASE tasks'[h] = tasks[h]
    BY <1>1, <1>3, <1>6, <2>1, TaskFacts DEF At, TaskIn
  <2>2. CASE HandlerStep(h)
    BY <1>4, <1>6, <2>2, Enters
  <2> QED
    BY <2>1, <2>2, MovesOne
<1>7. ASSUME NEW h \in Handlers, tasks'[h].event = e, tasks'[h].pc \in {"redacting", "unstoring"}
      PROVE  timeline'[e].redacted = "matrix"
  <2>1. CASE tasks'[h] = tasks[h]
    BY <1>1, <1>3, <1>7, <2>1, TaskFacts DEF TaskIn
  <2>2. CASE MatrixRedacts(h) /\ tasks'[h].pc = "redacting"
    BY <1>7, <2>2, MatrixIs, RedactedIs
  <2>3. CASE ReadRedacted(h) /\ tasks'[h].pc = "unstoring"
    <3>1. tasks[h].pc = "redacting"
      BY <2>3 DEF ReadRedacted, At
    <3>2. tasks[h].event = e
      BY <1>7, <2>3, ReadRowIs DEF Idle
    <3> QED
      BY <1>1, <1>3, <3>1, <3>2, TaskFacts DEF TaskIn
  <2> QED
    BY <1>7, <2>1, <2>2, <2>3, MovesOne, Enters
<1> QED
  BY <1>5, <1>6, <1>7


LEMMA RecordedAlways == Spec => []RecordedInv
<1>1. Init => RecordedInv
  <2> SUFFICES ASSUME Init PROVE RecordedInv
    OBVIOUS
  <2>1. Len(timeline) = 0 /\ \A h \in Handlers : tasks[h] = Idle
    BY EmptySeq DEF Init
  <2> QED
    BY <2>1, RelayAssumption DEF RecordedInv, Idle, At, EventIds
<1>2. TypeInv /\ LockInv /\ RecordedInv /\ [Next]_vars => RecordedInv'
  BY RecordedStep
<1> QED
  BY <1>1, <1>2, TypeLock, PTL DEF Spec

\* At rest, whatever races came before, the copy of a message of Slack's has
\* its row in the events table, or its Matrix user redacted it.
THEOREM RecordsCopies == Spec => []CopiesRecorded
<1>1. TypeInv /\ RecordedInv => CopiesRecorded
  <2> SUFFICES ASSUME TypeInv, RecordedInv, \A h \in Handlers : At(h, "idle"),
                      NEW e \in DOMAIN timeline, timeline[e].kind = "copy",
                      timeline[e].redacted # "matrix"
               PROVE  \E r \in rows : r.event = e /\ r.ts = timeline[e].ts
    BY DEF CopiesRecorded
  <2>1. e \in EventIds /\ e <= Len(timeline)
    BY Lengths DEF EventIds
  <2> QED
    BY <2>1 DEF RecordedInv, HasRow, At
<1> QED
  BY <1>1, RecordedAlways, TypeLock, PTL

-----------------------------------------------------------------------------
(* What a row ties together *)

LEMMA PairedKept ==
  ASSUME TypeInv, [Next]_vars, NEW e \in 1..Len(timeline), NEW ts \in Ts, Paired(e, ts)
  PROVE  Paired(e, ts)'
BY TimelineKept, OursKept DEF Paired

\* A handler's parent rows are of the table, as it is or was.
LEMMA ParentFrom ==
  ASSUME TypeInv, NEW h \in Handlers, HandlerStep(h), NEW r \in tasks'[h].parent
  PROVE  r \in rows \/ r \in tasks[h].parent
<1>1. CASE MatrixMessage(h) \/ MatrixRedacts(h) \/ MatrixEdits(h)
  BY <1>1, MatrixIs
<1>2. CASE DeletionArrives(h) \/ \E s \in Streams : Deliver(h, s)
  BY <1>2, SlackIs
<1>3. CASE ReadParent(h)
  BY <1>3, ReadParentIs DEF EventByMatrixId
<1>4. CASE ReadThread(h)
  BY <1>4, ReadThreadIs DEF EventBySlackId
<1>5. CASE Post(h) \/ FindReply(h)
  BY <1>5, PostIs, FindReplyIs
<1>6. CASE Locate(h)
  BY <1>6, LocateIs DEF Idle
<1>7. CASE ReadRedacted(h) \/ ReadEdited(h)
  BY <1>7, ReadRowIs DEF Idle
<1>8. CASE Send(h)
  <2>1. PICK t \in Tasks : t.parent = tasks[h].parent /\ Start(h, t)
    BY <1>8, SendIs
  <2> QED
    BY <2>1, StartIs
<1>9. CASE Done(h)
  BY <1>9, DoneIs DEF Idle
<1>10. ASSUME NEW pc, To(h, pc)
       PROVE  tasks'[h].parent = tasks[h].parent
  BY <1>10, ToIs
<1>11. CASE Answered(h) \/ StoreSent(h) \/ Check(h) \/ Enqueue(h) \/ Begin(h)
  BY <1>9, <1>10, <1>11 DEF Answered, StoreSent, Check, Enqueue, Leave, Begin
<1>12. CASE WriteThread(h) \/ Unstore(h) \/ Update(h) \/ MatchEdit(h)
  BY <1>9, <1>10, <1>12, MatchEditIs DEF WriteThread, Unstore, Update
<1> QED
  BY <1>1, <1>2, <1>3, <1>4, <1>5, <1>6, <1>7, <1>8, <1>9, <1>11, <1>12
  DEF HandlerStep, Arrives, Continues, Fails, StoreList, Leave, RecordCopy, Remove, DeleteOnSlack,
      StoreEdit, AnswerLost, Drops, SendFails, DropEdit, CallFails

LEMMA PairedStep ==
  ASSUME TypeInv, LockInv, PairedInv, [Next]_vars
  PROVE  PairedInv'
<1>0. /\ \A r \in rows : r.event \in 1..Len(timeline) /\ r.ts \in Ts
      /\ \A h \in Handlers : \A r \in tasks[h].parent : r.event \in 1..Len(timeline) /\ r.ts \in Ts
  <2>1. ASSUME NEW r \in Rows, RowIn(r, Len(channel), Len(timeline))
        PROVE  r.event \in 1..Len(timeline) /\ r.ts \in Ts
    BY <2>1, Lengths DEF Rows, RowIn, EventIds, Ts
  <2>2. \A r \in rows : r \in Rows /\ RowIn(r, Len(channel), Len(timeline))
    BY DEF TypeInv, DataInv
  <2>3. \A h \in Handlers : \A r \in tasks[h].parent :
            r \in Rows /\ RowIn(r, Len(channel), Len(timeline))
    BY TaskTypes, TaskFacts DEF TaskIn
  <2> QED
    BY <2>1, <2>2, <2>3
<1>1. ASSUME NEW h \in Handlers, NEW r \in tasks'[h].parent
      PROVE  Paired(r.event, r.ts)'
  <2>1. r \in rows \/ r \in tasks[h].parent
    BY <1>1, MovesOne, ParentFrom
  <2>2. Paired(r.event, r.ts) /\ r.event \in 1..Len(timeline) /\ r.ts \in Ts
    BY <1>0, <2>1 DEF PairedInv, Matched
  <2> QED
    BY <2>2, PairedKept
<1>2. ASSUME NEW r \in rows'
      PROVE  Paired(r.event, r.ts)'
  <2>1. CASE r \in rows
    BY <1>0, <2>1, PairedKept DEF PairedInv
  <2>2. ASSUME NEW h \in Handlers, tasks[h].pc \in {"storing", "recording", "storingEdit"},
               r.event = tasks[h].event, r.ts = tasks[h].ts
        PROVE  Paired(r.event, r.ts)'
    <3>1. r.event \in 1..Len(timeline) /\ r.ts \in Ts
      BY <2>2, TaskTypes DEF HasTs, HasEvent, Sending, FromSlack
    <3>2. Paired(r.event, r.ts)
      BY <2>2 DEF PairedInv, Matched, Sending
    <3> QED
      BY <3>1, <3>2, PairedKept
  <2>3. ASSUME NEW h \in Handlers, NEW row \in tasks[h].parent,
               r.event = row.event, r.ts = row.ts
        PROVE  Paired(r.event, r.ts)'
    <3>1. r.event \in 1..Len(timeline) /\ r.ts \in Ts /\ Paired(r.event, r.ts)
      BY <1>0, <2>3 DEF PairedInv, Matched
    <3> QED
      BY <3>1, PairedKept
  <2> QED
    BY <2>1, <2>2, <2>3, RowsFrom
<1>3. ASSUME NEW h \in Handlers, NEW t, t = tasks'[h]
      PROVE  /\ t.pc \in Sending \cup {"recording", "removing", "storingEdit"}
                  => Paired(t.event, t.ts)'
             /\ t.pc \in {"reading", "posting"} \cup Sending =>
                  timeline'[t.event].kind = "message" /\ t.from # "slack"
             /\ t.pc \in {"editing", "updating", "storingEdit"} =>
                  timeline'[t.event].kind = "edit" /\ timeline'[t.target].kind = "message"
             /\ t.pc \in {"updating", "storingEdit"} => Ours(t.ts)'
  <2> DEFINE Fine ==
             /\ t.pc \in Sending \cup {"recording", "removing", "storingEdit"}
                  => Paired(t.event, t.ts)'
             /\ t.pc \in {"reading", "posting"} \cup Sending =>
                  timeline'[t.event].kind = "message" /\ t.from # "slack"
             /\ t.pc \in {"editing", "updating", "storingEdit"} =>
                  timeline'[t.event].kind = "edit" /\ timeline'[t.target].kind = "message"
             /\ t.pc \in {"updating", "storingEdit"} => Ours(t.ts)'
  <2>1. Matched(tasks[h])
    BY DEF PairedInv
  <2>2. \A e \in 1..Len(timeline) : timeline'[e].kind = timeline[e].kind
    BY TimelineKept
  <2>3. \A pc \in HasEvent : tasks[h].pc = pc => tasks[h].event \in 1..Len(timeline)
    BY TaskTypes
  <2>4. \A pc \in HasTs : tasks[h].pc = pc => tasks[h].ts \in Ts
    BY TaskTypes
  <2>5. tasks[h].pc \in {"editing", "updating", "storingEdit"} => tasks[h].target \in 1..Len(timeline)
    BY TaskFacts, TaskTypes, Lengths DEF TaskIn
  <2>6. CASE t.event = tasks[h].event /\ t.ts = tasks[h].ts /\ t.from = tasks[h].from
             /\ t.target = tasks[h].target
             /\ \/ t.pc = tasks[h].pc
                \/ tasks[h].pc = "answering" /\ t.pc = "storing"
                \/ tasks[h].pc = "storing" /\ t.pc = "listing"
    <3>1. t.pc \in Sending \cup {"recording", "removing", "storingEdit"} =>
            /\ tasks[h].pc \in Sending \cup {"recording", "removing", "storingEdit"}
            /\ t.event \in 1..Len(timeline) /\ t.ts \in Ts
      BY <2>3, <2>4, <2>6 DEF Sending, HasTs, HasEvent, FromSlack
    <3>2. t.pc \in Sending \cup {"recording", "removing", "storingEdit"} => Paired(t.event, t.ts)'
      BY <2>1, <2>6, <3>1, PairedKept DEF Matched
    <3>3. t.pc \in {"reading", "posting"} \cup Sending =>
            timeline'[t.event].kind = "message" /\ t.from # "slack"
      BY <2>1, <2>2, <2>3, <2>6 DEF Matched, Sending, HasEvent
    <3>4. t.pc \in {"editing", "updating", "storingEdit"} =>
            timeline'[t.event].kind = "edit" /\ timeline'[t.target].kind = "message"
      BY <2>1, <2>2, <2>3, <2>5, <2>6 DEF Matched, HasEvent
    <3>5. t.pc \in {"updating", "storingEdit"} => Ours(t.ts)'
      BY <2>1, <2>4, <2>6, OursKept DEF Matched, HasTs
    <3> QED
      BY <3>2, <3>3, <3>4, <3>5
  <2>7. CASE t.pc = "reading" /\ MatrixMessage(h)
    BY <1>3, <2>7, MatrixIs DEF Sending
  <2>8. CASE t.pc = "editing" /\ MatrixEdits(h)
    BY <1>3, <2>2, <2>8, MatrixIs DEF Sending
  <2>9. CASE t.pc = "posting" /\ ReadParent(h)
    <3>1. tasks[h].pc = "reading" /\ t.event = tasks[h].event /\ t.from = tasks[h].from
      BY <1>3, <2>9, ReadParentIs
    <3> QED
      BY <2>1, <2>2, <2>3, <2>9, <3>1 DEF Matched, HasEvent, Sending
  <2>10. CASE t.pc = "answering" /\ Post(h)
    <3>1. /\ tasks[h].pc = "posting" /\ t.event = tasks[h].event /\ t.from = tasks[h].from
          /\ t.ts = Len(channel) + 1 /\ Len(channel') = Len(channel) + 1
          /\ channel'[Len(channel) + 1].from = tasks[h].from
          /\ channel'[Len(channel) + 1].edits = 0
      BY <1>3, <2>10, PostIs
    <3>2. timeline'[t.event].kind = "message" /\ t.from # "slack"
      BY <2>1, <2>2, <2>3, <3>1 DEF Matched, HasEvent, Sending
    <3>3. Ours(t.ts)'
      BY <3>1, <3>2, Lengths DEF Ours, Posted, IsMessage
    <3> QED
      BY <2>10, <3>2, <3>3 DEF Paired
  <2>11. CASE t.pc = "recording" /\ Send(h)
    <3>1. /\ timeline'[Len(timeline) + 1].ts = tasks[h].ts
          /\ timeline'[Len(timeline) + 1].kind = "copy"
          /\ t.event = Len(timeline) + 1 /\ t.ts = tasks[h].ts
      <4>1. PICK u \in Tasks : u.event = Len(timeline) + 1 /\ u.ts = tasks[h].ts /\ Start(h, u)
        BY <2>11, SendIs
      <4>2. t = u
        BY <1>3, <4>1, StartIs
      <4> QED
        BY <2>11, <4>1, <4>2, SendIs, TimelineGrows
    <3> QED
      BY <2>11, <3>1 DEF Paired, Sending
  <2>12. CASE t.pc = "removing" /\ Locate(h)
    <3>1. PICK row \in rows : row.ts = tasks[h].ts /\ t.event = row.event /\ t.ts = tasks[h].ts
      BY <1>3, <2>12, LocateIs DEF EventBySlackId, Idle
    <3>2. Paired(t.event, t.ts) /\ t.event \in 1..Len(timeline) /\ t.ts \in Ts
      BY <1>0, <3>1 DEF PairedInv
    <3> QED
      BY <2>12, <3>2, PairedKept DEF Sending
  <2>13. CASE t.pc = "updating" /\ ReadEdited(h)
    <3>1. tasks[h].pc = "editing"
      BY <2>13 DEF ReadEdited, At
    <3>2. PICK row \in rows : /\ t.event = tasks[h].event /\ t.target = tasks[h].target
                              /\ row.event = tasks[h].target /\ t.ts = row.ts
      BY <1>3, <2>13, <3>1, ReadRowIs DEF EventByMatrixId, Idle
    <3>3. timeline[t.event].kind = "edit" /\ timeline[t.target].kind = "message"
      BY <2>1, <3>1, <3>2 DEF Matched
    <3>4. Ours(t.ts)
      BY <3>2, <3>3 DEF PairedInv, Paired
    <3>5. t.ts \in Ts
      BY <1>0, <3>2
    <3> QED
      BY <2>2, <2>3, <2>5, <2>13, <3>1, <3>2, <3>3, <3>4, <3>5, OursKept DEF HasEvent, Sending
  <2>14. CASE t.pc = "storingEdit" /\ Update(h) /\ To(h, "storingEdit")
    <3>1. /\ tasks[h].pc = "updating" /\ t.event = tasks[h].event /\ t.ts = tasks[h].ts
          /\ t.target = tasks[h].target
      BY <1>3, <2>14, ToIs DEF Update, At
    <3>2. timeline'[t.event].kind = "edit" /\ timeline'[t.target].kind = "message" /\ Ours(t.ts)'
      BY <2>1, <2>2, <2>3, <2>4, <2>5, <3>1, OursKept DEF Matched, HasEvent, HasTs
    <3> QED
      BY <2>14, <3>2 DEF Paired, Sending
  <2>15. CASE (t.pc = "storing" /\ Answered(h) /\ To(h, "storing"))
              \/ (t.pc = "listing" /\ StoreSent(h) /\ To(h, "listing"))
    BY <1>3, <2>6, <2>15, ToIs DEF Answered, StoreSent, At
  <2>16. CASE t = tasks[h]
    BY <2>6, <2>16
  <2>17. CASE t.pc \notin Sending \cup {"recording", "removing", "storingEdit", "reading", "posting",
                                        "editing", "updating"}
    BY <2>17
  <2>18. ASSUME HandlerStep(h) PROVE Fine
    BY <1>3, <2>7, <2>8, <2>9, <2>10, <2>11, <2>12, <2>13, <2>14, <2>15, <2>17, <2>18, Enters
    DEF Sending
  <2> QED
    BY <1>3, <2>16, <2>18, MovesOne
<1> QED
  BY <1>1, <1>2, <1>3 DEF PairedInv, Matched

LEMMA InitPaired == Init => PairedInv
BY DEF Init, PairedInv, Matched, Idle, Sending

\* What the rest rests on.
CoreInv ==
    /\ TypeInv /\ LockInv /\ RecentInv /\ OnceInv /\ RecordedInv /\ PairedInv /\ Solo

-----------------------------------------------------------------------------
(* A channel of puppets: one event at a time *)

LEMMA PrivateKept ==
  ASSUME TypeInv, [Next]_vars
  PROVE  private' = private
<1>1. CASE UNCHANGED vars \/ SlackMessage \/ SlackEdits \/ SlackDeletes
  BY <1>1 DEF vars, SlackMessage, SlackEdits, SlackDeletes
<1>2. ASSUME NEW h \in Handlers, HandlerStep(h)
      PROVE  private' = private
  <2>1. CASE Arrives(h)
    BY <2>1, MatrixIs, SlackIs DEF Arrives
  <2>2. CASE Quiet(h)
    BY <2>2, QuietChanges
  <2>3. CASE ~Arrives(h) /\ ~Quiet(h)
    BY <1>2, <2>3
    DEF HandlerStep, Continues, Fails, Quiet, Post, Answered, AnswerLost, StoreSent, StoreList,
        Enqueue, Leave, Begin, WriteThread, Send, Drops, SendFails, DropEdit, RecordCopy, Remove, Unstore,
        DeleteOnSlack, StoreEdit, Update
  <2> QED
    BY <2>1, <2>2, <2>3
<1> QED
  BY <1>1, <1>2 DEF Next, HandlerStep

\* Only an event of Slack's takes a handler into FromSlack.
LEMMA FromSlackIs ==
  ASSUME TypeInv, NEW h \in Handlers, HandlerStep(h), tasks'[h].pc \in FromSlack
  PROVE  \/ tasks[h].pc \in FromSlack
         \/ DeletionArrives(h) \/ \E s \in Streams : Deliver(h, s)
<1>1. CASE Check(h) \/ Enqueue(h) \/ Begin(h) \/ ReadThread(h) \/ WriteThread(h)
  BY <1>1 DEF FromSlack, Check, Enqueue, Leave, Begin, ReadThread, WriteThread, At
<1>2. CASE MatchEdit(h) \/ FindReply(h) \/ Send(h) \/ Locate(h)
  BY <1>2 DEF FromSlack, MatchEdit, FindReply, Send, Locate, At
<1> QED
  BY <1>1, <1>2, Enters DEF FromSlack

LEMMA SoloStep ==
  ASSUME TypeInv, LockInv, Solo, [Next]_vars
  PROVE  Solo'
<1> SUFFICES ASSUME private, NEW g \in Handlers, NEW h \in Handlers, g # h,
                    tasks'[g].pc \in FromSlack, tasks'[h].pc \in FromSlack
             PROVE  FALSE
  BY PrivateKept DEF Solo
<1>1. ~(tasks[g].pc \in FromSlack /\ tasks[h].pc \in FromSlack)
  BY DEF Solo
<1>2. ASSUME NEW f \in Handlers, NEW k \in Handlers, f # k, tasks'[f].pc \in FromSlack,
             tasks[f].pc \notin FromSlack, tasks'[k].pc \in FromSlack
      PROVE  FALSE
  <2>1. HandlerStep(f)
    BY <1>2, MovesOne
  <2>2. \A j \in Handlers : tasks[j].pc \notin FromSlack
    BY <1>2, <2>1, FromSlackIs, SlackIs
  <2>3. tasks'[k] = tasks[k]
    BY <1>2, <2>1, Others
  <2> QED
    BY <1>2, <2>2, <2>3
<1> QED
  BY <1>1, <1>2

LEMMA CoreAlways == Spec => []CoreInv
<1>1. Init => Solo
  BY DEF Init, Solo, Idle, FromSlack
<1>2. TypeInv /\ LockInv /\ PairedInv /\ Solo /\ [Next]_vars => PairedInv' /\ Solo'
  BY PairedStep, SoloStep
<1> QED
  BY <1>1, <1>2, InitPaired, OnceAlways, RecordedAlways, PTL DEF Spec, CoreInv

-----------------------------------------------------------------------------
(* The order of the streams *)

\* A stream only advances, by a delivery.
LEMMA SeenIs ==
  ASSUME TypeInv, [Next]_vars, NEW s \in Streams
  PROVE  /\ seen[s] \in Nat /\ seen'[s] \in Nat /\ seen[s] <= seen'[s]
         /\ seen[s] <= Len(channel)
         /\ \/ seen'[s] = seen[s]
            \/ /\ seen'[s] = seen[s] + 1 /\ seen'[s] <= Len(channel) /\ channel' = channel
               /\ \/ channel[seen'[s]].from = "bot"
                  \/ \E h \in Handlers : tasks'[h].pc = "arrived" /\ tasks'[h].ts = seen'[s]
<1>0. seen \in [Streams -> 0..MaxTs] /\ seen[s] <= Len(channel)
  BY DEF TypeInv, SlackInv
<1>1. seen[s] \in Nat
  BY <1>0, Lengths
<1>2. CASE seen' = seen
  BY <1>0, <1>1, <1>2
<1>3. ASSUME NEW h \in Handlers, DeletionArrives(h) \/ \E q \in Streams : Deliver(h, q)
      PROVE  \/ seen'[s] = seen[s]
             \/ /\ seen'[s] = seen[s] + 1 /\ seen'[s] <= Len(channel) /\ channel' = channel
                /\ \/ channel[seen'[s]].from = "bot"
                   \/ tasks'[h].pc = "arrived" /\ tasks'[h].ts = seen'[s]
  <2>1. CASE seen' = seen
    BY <2>1
  <2>2. ASSUME NEW q \in Streams, NEW ts \in 1..Len(channel), ts = seen[q] + 1,
               seen' = [seen EXCEPT ![q] = ts],
               \/ channel[ts].from = "bot"
               \/ tasks'[h].pc = "arrived" /\ tasks'[h].ts = ts
        PROVE  \/ seen'[s] = seen[s]
               \/ /\ seen'[s] = seen[s] + 1 /\ seen'[s] <= Len(channel)
                  /\ \/ channel[seen'[s]].from = "bot"
                     \/ tasks'[h].pc = "arrived" /\ tasks'[h].ts = seen'[s]
    <3>1. CASE q = s
      BY <1>0, <2>2, <3>1, Lengths
    <3>2. CASE q # s
      BY <1>0, <2>2, <3>2
    <3> QED
      BY <3>1, <3>2
  <2> QED
    BY <1>3, <2>1, <2>2, SlackIs
<1>4. ASSUME NEW h \in Handlers, HandlerStep(h),
             ~(DeletionArrives(h) \/ \E q \in Streams : Deliver(h, q))
      PROVE  seen' = seen
  <2>1. CASE Arrives(h)
    BY <1>4, <2>1, MatrixIs DEF Arrives, slack
  <2>2. CASE Quiet(h)
    BY <2>2, QuietChanges DEF slack
  <2>3. CASE ~Arrives(h) /\ ~Quiet(h)
    BY <1>4, <2>3
    DEF HandlerStep, Continues, Fails, Quiet, Post, Answered, AnswerLost, StoreSent, StoreList,
        Enqueue, Leave, Begin, WriteThread, Send, Drops, SendFails, DropEdit, RecordCopy, Remove, Unstore,
        DeleteOnSlack, StoreEdit, slack, Update
  <2> QED
    BY <2>1, <2>2, <2>3
<1>5. CASE UNCHANGED vars \/ SlackMessage \/ SlackEdits \/ SlackDeletes
  BY <1>2, <1>5 DEF vars, slack, SlackMessage, SlackEdits, SlackDeletes
<1>6. ASSUME NEW h \in Handlers, HandlerStep(h)
      PROVE  \/ seen'[s] = seen[s]
             \/ /\ seen'[s] = seen[s] + 1 /\ seen'[s] <= Len(channel) /\ channel' = channel
                /\ \/ channel[seen'[s]].from = "bot"
                   \/ tasks'[h].pc = "arrived" /\ tasks'[h].ts = seen'[s]
  BY <1>3, <1>4, <1>6
<1> QED
  BY <1>0, <1>1, <1>5, <1>6 DEF Next, HandlerStep

\* A handler at a message of Slack's was at it, or has it from a stream.
LEMMA Receives ==
  ASSUME TypeInv, [Next]_vars, NEW h \in Handlers, tasks'[h].pc \in Receiving
  PROVE  \/ tasks[h].pc \in Receiving /\ tasks'[h].ts = tasks[h].ts
         \/ /\ HandlerStep(h) /\ tasks'[h].pc = "arrived"
            /\ UNCHANGED <<private, channel, timeline, rows, room>>
            /\ private => \A g \in Handlers : tasks[g].pc \notin FromSlack
            /\ \E s \in Streams : /\ tasks'[h].ts = seen[s] + 1 /\ seen'[s] = seen[s] + 1
                                  /\ tasks'[h].ts <= Len(channel)
                                  /\ channel[tasks'[h].ts].from # "bot"
<1>1. CASE tasks'[h] = tasks[h]
  BY <1>1
<1>2. CASE HandlerStep(h) /\ tasks'[h].pc # "arrived"
  BY <1>2, ReceivingIs
<1>3. CASE HandlerStep(h) /\ tasks'[h].pc = "arrived"
  <2>1. PICK s \in Streams : Deliver(h, s)
    BY <1>3, Enters
  <2>2. tasks[h].pc = "idle" /\ seen \in [Streams -> 0..MaxTs]
    BY <2>1 DEF Deliver, MayHandle, At, TypeInv, SlackInv
  <2>3. channel[seen[s] + 1].from # "bot"
    BY <1>3, <2>1, <2>2 DEF Deliver
  <2>4. PICK t : t = [Idle EXCEPT !.pc = "arrived", !.ts = seen[s] + 1,
                                  !.from = channel[seen[s] + 1].from]
    OBVIOUS
  <2>5. tasks'[h] = t
    BY <2>1, <2>3, <2>4, StartIs DEF Deliver
  <2>6. t.ts = seen[s] + 1
    BY <2>4 DEF Idle
  <2>7. seen[s] + 1 <= Len(channel) /\ seen'[s] = seen[s] + 1
    BY <2>1, <2>2 DEF Deliver
  <2> QED
    BY <1>3, <2>1, <2>3, <2>5, <2>6, <2>7, SlackIs
<1> QED
  BY <1>1, <1>2, <1>3, MovesOne

\* What waits its turn goes on waiting, until it is found known or begins.
LEMMA WaitingIs ==
  ASSUME TypeInv, NEW h \in Handlers, HandlerStep(h), tasks[h].pc \in Waiting,
         "lookupFails" \notin Traffic, NEW ts \in Ts, tasks[h].ts = ts
  PROVE  \/ tasks'[h].pc \in Waiting /\ tasks'[h].ts = ts
         \/ ts \in Elements(recent) \/ ts \in Elements(recent')
<1>1. Check(h) \/ Enqueue(h) \/ Begin(h)
  <2>1. ~Arrives(h)
    BY MatrixIs, SlackIs DEF Arrives, Waiting
  <2> QED
    BY <2>1
    DEF HandlerStep, Continues, Fails, Waiting, At, ReadParent, Post, Answered, AnswerLost,
        StoreSent, StoreList, ReadThread, WriteThread, FindReply, ReplyTo, MatchEdit, Send, Leave, Drops, SendFails, DropEdit, RecordCopy,
        Locate, Remove, ReadRedacted, Unstore, DeleteOnSlack, ReadEdited, Update, StoreEdit,
        CallFails
<1>2. CASE Check(h)
  BY <1>2, ToIs DEF Check, Waiting
<1>3. CASE Enqueue(h)
  BY <1>3, ToIs DEF Enqueue, Waiting
<1>4. CASE Begin(h)
  <2>1. ts \in Elements(recent) \/ recent' = Remembered(ts)
    BY <1>4 DEF Leave, Begin, AddRecentSlackMessage
  <2> QED
    BY <2>1, RememberedIs DEF TypeInv, RoomInv
<1> QED
  BY <1>1, <1>2, <1>3, <1>4

\* Nothing but a Send copies a message.
LEMMA AscendsKept ==
  ASSUME TypeInv, LockInv, [Next]_vars, NEW ts \in Ts, Ascends(ts), ~\E h \in Handlers : Send(h)
  PROVE  Ascends(ts)'
<1>1. /\ DOMAIN timeline = 1..Len(timeline) /\ Len(timeline) \in Nat
      /\ \A e \in 1..Len(timeline) : timeline'[e].ts < ts
  BY Lengths, TimelineKept DEF Ascends
<1>2. Len(timeline') = Len(timeline)
      \/ (Len(timeline') = Len(timeline) + 1 /\ timeline'[Len(timeline) + 1].ts = 0)
  BY TimelineKept
<1>3. \A e \in 1..Len(timeline') : timeline'[e].ts < ts
  BY <1>1, <1>2 DEF Ts
<1>4. DOMAIN timeline' = 1..Len(timeline')
  BY StepType DEF TypeInv, DataInv
<1> QED
  BY <1>3, <1>4 DEF Ascends

\* Past the checks, or before them, a handler was past or before them already.
LEMMA StaysBefore ==
  ASSUME TypeInv, [Next]_vars, NEW h \in Handlers, tasks[h].pc \in Receiving
  PROVE  /\ tasks'[h].pc \in Waiting /\ tasks'[h].pc # "arrived" => tasks[h].pc \in Waiting
         /\ tasks'[h].pc = "arrived" => tasks[h].pc = "arrived"
<1>1. CASE tasks'[h] = tasks[h]
  BY <1>1
<1>2. CASE HandlerStep(h)
  <2>1. tasks'[h].pc = "naming" => tasks[h].pc \in Waiting
    BY <1>2, Enters DEF Check, At, Waiting
  <2>2. tasks'[h].pc = "queued" => tasks[h].pc \in Waiting
    BY <1>2, Enters DEF Enqueue, At, Waiting
  <2>3. tasks'[h].pc # "arrived"
    BY <1>2, Enters DEF Deliver, MayHandle, At, Receiving, Waiting, Begun
  <2> QED
    BY <2>1, <2>2, <2>3 DEF Waiting
<1> QED
  BY <1>1, <1>2, MovesOne

LEMMA SeenStep ==
  ASSUME CoreInv, SeenInv, [Next]_vars
  PROVE  SeenInv'
<1> USE DEF CoreInv
<1> SUFFICES ASSUME Serial, NEW ts \in Ts
             PROVE  /\ \A s \in Streams : ts <= seen'[s] =>
                         Known(ts)' \/ Taken(ts)' \/ channel'[ts].from = "bot"
                    /\ Copies(ts)' # {} \/ (\E h \in Handlers : tasks'[h].pc \in Receiving
                                                                /\ tasks'[h].ts = ts)
                         => \E s \in Streams : ts <= seen'[s]
  BY PrivateKept DEF SeenInv, Serial
<1>1. Known(ts) => Known(ts)'
  BY KnownKept
<1>2. /\ \A s \in Streams : ts <= seen[s] =>
           Known(ts) \/ Taken(ts) \/ channel[ts].from = "bot"
      /\ Copies(ts) # {} \/ (\E h \in Handlers : tasks[h].pc \in Receiving /\ tasks[h].ts = ts)
           => \E s \in Streams : ts <= seen[s]
  BY DEF SeenInv
<1>4. ASSUME NEW s \in Streams, ts <= seen'[s]
      PROVE  Known(ts)' \/ Taken(ts)' \/ channel'[ts].from = "bot"
  <2>1. CASE ts <= seen[s] /\ Known(ts)
    BY <1>1, <2>1
  <2>2. CASE ts <= seen[s] /\ Taken(ts)
    <3>1. PICK h \in Handlers : tasks[h].pc \in Waiting /\ tasks[h].ts = ts
      BY <2>2 DEF Taken
    <3>2. \/ tasks'[h].pc \in Waiting /\ tasks'[h].ts = ts
          \/ ts \in Elements(recent) \/ ts \in Elements(recent')
      BY <3>1, MovesOne, WaitingIs DEF Serial
    <3>3. ts \in Elements(recent') => Known(ts)'
      BY DEF Known, Elements
    <3> QED
      BY <1>1, <3>1, <3>2, <3>3 DEF Taken, Known
  <2>3. CASE ts <= seen[s] /\ channel[ts].from = "bot"
    <3>1. ts \in 1..Len(channel)
      BY <2>3, SeenIs, Lengths DEF Ts
    <3> QED
      BY <2>3, <3>1, ChannelKept
  <2>4. CASE ~(ts <= seen[s])
    <3>1. ts = seen'[s] /\ channel' = channel
          /\ (channel[ts].from = "bot"
              \/ \E h \in Handlers : tasks'[h].pc = "arrived" /\ tasks'[h].ts = ts)
      <4>1. ts \in Nat
        BY DEF Ts
      <4> QED
        BY <1>4, <2>4, <4>1, SeenIs
    <3> QED
      BY <3>1 DEF Taken, Waiting
  <2> QED
    BY <1>2, <2>1, <2>2, <2>3, <2>4
<1>5. ASSUME \E s \in Streams : ts <= seen[s]
      PROVE  \E s \in Streams : ts <= seen'[s]
  <2>1. PICK s \in Streams : ts <= seen[s]
    BY <1>5
  <2>2. ts <= seen'[s]
    BY <2>1, SeenIs DEF Ts
  <2> QED
    BY <2>2
<1>6. ASSUME NEW h \in Handlers, tasks'[h].pc \in Receiving, tasks'[h].ts = ts
      PROVE  \E s \in Streams : ts <= seen'[s]
  <2>1. CASE tasks[h].pc \in Receiving /\ tasks[h].ts = ts
    BY <1>2, <1>5, <2>1
  <2>2. CASE \E s \in Streams : tasks'[h].ts = seen[s] + 1 /\ seen'[s] = seen[s] + 1
    BY <1>6, <2>2 DEF Ts
  <2> QED
    BY <1>6, <2>1, <2>2, Receives
<1>7. ASSUME Copies(ts)' # {}
      PROVE  \E s \in Streams : ts <= seen'[s]
  <2>1. CASE Copies(ts) # {}
    BY <1>2, <1>5, <2>1
  <2>2. ASSUME NEW h \in Handlers, Send(h), tasks[h].ts = ts
        PROVE  \E s \in Streams : ts <= seen'[s]
    BY <1>2, <1>5, <2>2 DEF Send, At, Receiving, Begun
  <2> QED
    BY <1>7, <2>1, <2>2, CopiesKept
<1> QED
  BY <1>4, <1>6, <1>7

LEMMA OrderStep ==
  ASSUME CoreInv, SeenInv, OrderInv, [Next]_vars
  PROVE  OrderInv'
<1> USE DEF CoreInv
<1> SUFFICES ASSUME Serial, forgotten' = {}
             PROVE  /\ \A ts \in Ts : \A h \in Handlers : tasks'[h].ts = ts =>
                         /\ tasks'[h].pc \in Waiting => Known(ts)' \/ Ascends(ts)'
                         /\ tasks'[h].pc \in Begun \ {"recording"} => Ascends(ts)'
                    /\ \A d, e \in EventIds :
                          d < e /\ e <= Len(timeline') /\ timeline'[d].ts # 0
                                /\ timeline'[e].ts # 0
                             => timeline'[d].ts < timeline'[e].ts
  BY PrivateKept DEF OrderInv, Serial
<1>1. forgotten = {} /\ \A ts : Known(ts) => Known(ts)'
  BY KnownKept
<1>2. \A ts \in Ts :
        /\ \A s \in Streams : ts <= seen[s] =>
             Known(ts) \/ Taken(ts) \/ channel[ts].from = "bot"
        /\ Copies(ts) # {} => \E s \in Streams : ts <= seen[s]
        /\ \A h \in Handlers : tasks[h].ts = ts =>
             /\ tasks[h].pc \in Waiting => Known(ts) \/ Ascends(ts)
             /\ tasks[h].pc \in Begun \ {"recording"} => Ascends(ts)
  BY <1>1 DEF OrderInv, SeenInv
<1>3. \A d, e \in EventIds :
         d < e /\ e <= Len(timeline) /\ timeline[d].ts # 0 /\ timeline[e].ts # 0
            => timeline[d].ts < timeline[e].ts
  BY <1>1 DEF OrderInv
<1>8. ASSUME NEW ts \in Ts, NEW h \in Handlers, Ascends(ts), tasks[h].pc \in FromSlack, ~Send(h)
      PROVE  Ascends(ts)'
  <2>1. ASSUME NEW g \in Handlers, Send(g)
        PROVE  FALSE
    <3>1. tasks[g].pc \in FromSlack
      BY <2>1 DEF Send, At, FromSlack
    <3> QED
      BY <1>8, <2>1, <3>1 DEF Solo, Serial
  <2> QED
    BY <1>8, <2>1, AscendsKept
<1>9. ASSUME NEW ts \in Ts, NEW h \in Handlers, tasks'[h].ts = ts, tasks'[h].pc \in Waiting
      PROVE  Known(ts)' \/ Ascends(ts)'
  <2>0. tasks'[h].pc \in Receiving
    BY <1>9 DEF Receiving
  <2>1. CASE tasks[h].pc \in Receiving /\ tasks[h].ts = ts
    <3>1. tasks[h].pc \in Waiting
      BY <1>9, <2>1, StaysBefore DEF Waiting
    <3>2. tasks[h].pc \in FromSlack /\ ~Send(h)
      BY <3>1 DEF Waiting, FromSlack, Send, At
    <3> QED
      BY <1>1, <1>2, <1>8, <2>1, <3>1, <3>2
  <2>2. ASSUME NEW s \in Streams, ts = seen[s] + 1, channel[ts].from # "bot",
               UNCHANGED <<timeline, room>>, \A g \in Handlers : tasks[g].pc \notin FromSlack
        PROVE  Known(ts)' \/ Ascends(ts)'
    <3>1. CASE \E q \in Streams : ts <= seen[q]
      <4>1. ~Taken(ts)
        BY <2>2 DEF Taken, Waiting, FromSlack
      <4> QED
        BY <1>1, <1>2, <2>2, <3>1, <4>1
    <3>2. CASE ~\E q \in Streams : ts <= seen[q]
      <4>1. ASSUME NEW e \in DOMAIN timeline
            PROVE  timeline[e].ts < ts
        <5>1. timeline[e].ts \in 0..MaxTs
          <6>1. e \in 1..Len(timeline)
            BY <4>1, Lengths
          <6>2. timeline[e] \in MatrixEvents
            BY <6>1 DEF TypeInv, DataInv
          <6> QED
            BY <6>2 DEF MatrixEvents
        <5>2. PICK t \in 0..MaxTs : t = timeline[e].ts
          BY <5>1
        <5>3. CASE t = 0
          BY <5>2, <5>3 DEF Ts
        <5>4. CASE t # 0
          <6>1. t \in Ts /\ Copies(t) # {}
            BY <4>1, <5>2, <5>4, Lengths DEF Ts, Copies
          <6>2. PICK q \in Streams : t <= seen[q]
            BY <1>2, <6>1
          <6>3. seen[q] \in Nat /\ ~(ts <= seen[q]) /\ ts \in Nat /\ t \in Nat
            BY <3>2, <6>1, SeenIs DEF Ts
          <6> QED
            BY <5>2, <6>2, <6>3
        <5> QED
          BY <5>3, <5>4
      <4> QED
        BY <2>2, <4>1 DEF Ascends
    <3> QED
      BY <3>1, <3>2
  <2> QED
    BY <1>9, <2>0, <2>1, <2>2, Receives DEF Serial
<1>10. ASSUME NEW ts \in Ts, NEW h \in Handlers, tasks'[h].ts = ts,
              tasks'[h].pc \in Begun \ {"recording"}
       PROVE  Ascends(ts)'
  <2>1. CASE tasks'[h] = tasks[h]
    <3>1. tasks[h].pc \in FromSlack /\ Ascends(ts)
      BY <1>2, <1>10, <2>1 DEF Begun, FromSlack
    <3>2. ~Send(h)
      <4>1. ASSUME Send(h) PROVE tasks'[h].pc = "recording"
        <5>1. PICK u \in Tasks : u.pc = "recording" /\ Start(h, u)
          BY <4>1, SendIs
        <5> QED
          BY <5>1, StartIs
      <4> QED
        BY <1>10, <4>1
    <3> QED
      BY <1>8, <3>1, <3>2
  <2>2. CASE HandlerStep(h)
    <3>1. /\ tasks[h].ts = ts /\ tasks[h].pc # "recording"
          /\ tasks[h].pc \in Begun
             \/ (Begin(h) /\ tasks[h].pc = "queued" /\ tasks[h].ts \notin Elements(recent))
      BY <1>10, <2>2, ReceivingIs DEF Begun, Receiving, Waiting
    <3>2. Ascends(ts)
      <4>1. CASE tasks[h].pc \in Begun
        BY <1>2, <3>1, <4>1
      <4>2. CASE tasks[h].pc = "queued" /\ ts \notin Elements(recent)
        BY <1>1, <1>2, <3>1, <4>2 DEF Waiting, Known
      <4> QED
        BY <3>1, <4>1, <4>2
    <3>3. tasks[h].pc \in FromSlack
      BY <3>1 DEF Begun, FromSlack
    <3>4. ~Send(h)
      <4>1. ASSUME Send(h) PROVE tasks'[h].pc = "recording"
        <5>1. PICK u \in Tasks : u.pc = "recording" /\ Start(h, u)
          BY <4>1, SendIs
        <5> QED
          BY <5>1, StartIs
      <4> QED
        BY <1>10, <4>1
    <3> QED
      BY <1>8, <3>2, <3>3, <3>4
  <2> QED
    BY <2>1, <2>2, MovesOne
<1>11. ASSUME NEW d \in EventIds, NEW e \in EventIds, d < e, e <= Len(timeline'),
              timeline'[d].ts # 0, timeline'[e].ts # 0
       PROVE  timeline'[d].ts < timeline'[e].ts
  <2>0. d \in Nat /\ e \in Nat /\ d >= 1 /\ e >= 1 /\ Len(timeline) \in Nat
    BY Lengths DEF EventIds
  <2>1. CASE e <= Len(timeline)
    <3>1. timeline'[d].ts = timeline[d].ts /\ timeline'[e].ts = timeline[e].ts
      BY <1>11, <2>0, <2>1, TimelineKept
    <3> QED
      BY <1>3, <1>11, <2>1, <3>1
  <2>2. CASE ~(e <= Len(timeline))
    <3>1. e = Len(timeline) + 1
      BY <1>11, <2>0, <2>2, TimelineKept
    <3>2. PICK h \in Handlers : Send(h) /\ timeline'[e].ts = tasks[h].ts
      BY <1>11, <2>0, <3>1, TimelineKept
    <3>3. tasks[h].pc = "sending" /\ tasks[h].ts \in Ts
      BY <3>2, TaskTypes DEF Send, At, HasTs, FromSlack
    <3>4. Ascends(tasks[h].ts)
      BY <1>2, <3>3 DEF Begun
    <3>5. d \in 1..Len(timeline) /\ timeline'[d].ts = timeline[d].ts
      BY <1>11, <2>0, <3>1, TimelineKept
    <3> QED
      BY <3>2, <3>4, <3>5, Lengths DEF Ascends
  <2> QED
    BY <2>1, <2>2
<1> QED
  BY <1>9, <1>10, <1>11

LEMMA SeenAlways == Spec => [](CoreInv /\ SeenInv)
<1>1. Init => SeenInv
  <2> SUFFICES ASSUME Init PROVE SeenInv
    OBVIOUS
  <2>1. /\ DOMAIN timeline = {} /\ \A h \in Handlers : tasks[h] = Idle
        /\ \A s \in Streams : seen[s] = 0
    BY EmptySeq DEF Init
  <2>2. \A h \in Handlers : tasks[h].pc \notin Receiving
    BY <2>1 DEF Idle, Receiving, Waiting, Begun
  <2>3. \A ts \in Ts : \A s \in Streams : ~(ts <= seen[s])
    BY <2>1, RelayAssumption DEF Ts
  <2>4. \A ts \in Ts : Copies(ts) = {}
    BY <2>1 DEF Copies
  <2> QED
    BY <2>2, <2>3, <2>4 DEF SeenInv
<1>2. CoreInv /\ SeenInv /\ [Next]_vars => SeenInv'
  BY SeenStep
<1> QED
  BY <1>1, <1>2, CoreAlways, PTL DEF Spec

\* In a channel that only puppets see, messages come in the order they were
\* posted in, whichever of the streams is ahead; unless a ghost's lookup fails
\* or a remembered ts is lost.
THEOREM KeepsOrder == Spec => []InOrder
<1>1. Init => OrderInv
  <2> SUFFICES ASSUME Init PROVE OrderInv
    OBVIOUS
  <2>1. Len(timeline) = 0 /\ \A h \in Handlers : tasks[h] = Idle
    BY EmptySeq DEF Init
  <2>2. \A h \in Handlers : tasks[h].pc \notin Waiting /\ tasks[h].pc \notin Begun
    BY <2>1 DEF Idle, Waiting, Begun
  <2>3. \A e \in EventIds : ~(e <= Len(timeline))
    BY <2>1, RelayAssumption DEF EventIds
  <2> QED
    BY <2>2, <2>3 DEF OrderInv
<1>2. CoreInv /\ SeenInv /\ OrderInv /\ [Next]_vars => OrderInv'
  BY OrderStep
<1>3. CoreInv /\ OrderInv => InOrder
  <2> SUFFICES ASSUME CoreInv, OrderInv, private, "lookupFails" \notin Traffic, forgotten = {},
                      NEW d \in DOMAIN timeline, NEW e \in DOMAIN timeline,
                      d < e, timeline[d].ts # 0, timeline[e].ts # 0
               PROVE  timeline[d].ts < timeline[e].ts
    BY DEF InOrder
  <2>1. d \in EventIds /\ e \in EventIds /\ e <= Len(timeline)
    BY Lengths DEF CoreInv, EventIds
  <2> QED
    BY <2>1 DEF OrderInv, Serial
<1> QED
  BY <1>1, <1>2, <1>3, SeenAlways, PTL DEF Spec

-----------------------------------------------------------------------------
(* Deletions *)

\* What is deleted was so before, or Slack has yet to tell of it.
LEMMA DeletedFrom ==
  ASSUME TypeInv, [Next]_vars, NEW ts \in Ts, ts <= Len(channel'), channel'[ts].deleted # "no"
  PROVE  /\ ts \in 1..Len(channel)
         /\ channel[ts].deleted = channel'[ts].deleted \/ ts \in notices'
<1>0. Len(channel) \in Nat /\ ts \in Nat /\ ts >= 1
  BY Lengths DEF Ts
<1>1. ts \in 1..Len(channel)
  BY <1>0, ChannelKept
<1>2. CASE channel' = channel
  BY <1>1, <1>2
<1>3. CASE Len(channel') # Len(channel)
  BY <1>1, <1>3, ChannelKept
<1>4. CASE SlackDeletes
  <2>1. PICK t \in 1..Len(channel) : /\ channel' = [channel EXCEPT ![t].deleted = "slack"]
                                     /\ notices' = notices \cup {t}
    BY <1>4, Lengths DEF SlackDeletes
  <2> QED
    BY <1>1, <2>1, DeletedIs
<1>5. ASSUME NEW h \in Handlers, DeleteOnSlack(h), channel' # channel
      PROVE  channel[ts].deleted = channel'[ts].deleted \/ ts \in notices'
  <2>1. tasks[h].ts \in 1..Len(channel)
    BY <1>5, TaskTypes DEF DeleteOnSlack, At, HasTs
  <2>2. /\ channel' = [channel EXCEPT ![tasks[h].ts].deleted = "matrix"]
        /\ notices' = notices \cup {tasks[h].ts}
    BY <1>5 DEF DeleteOnSlack
  <2> QED
    BY <1>1, <2>1, <2>2, DeletedIs
<1>6. ASSUME NEW h \in Handlers, HandlerStep(h), ~Post(h), ~Update(h), ~DeleteOnSlack(h)
      PROVE  channel' = channel
  <2>1. CASE Arrives(h)
    BY <2>1, MatrixIs, SlackIs DEF Arrives, slack
  <2>2. CASE Quiet(h)
    BY <2>2, QuietChanges DEF slack
  <2>3. CASE ~Arrives(h) /\ ~Quiet(h)
    BY <1>6, <2>3
    DEF HandlerStep, Continues, Fails, Quiet, Answered, AnswerLost, StoreSent, StoreList,
        Enqueue, Leave, Begin, WriteThread, Send, Drops, SendFails, DropEdit, RecordCopy, Remove, Unstore, StoreEdit,
        slack
  <2> QED
    BY <2>1, <2>2, <2>3
<1>7. CASE SlackMessage \/ SlackEdits \/ \E h \in Handlers : Post(h) \/ Update(h)
  <2>1. ASSUME NEW m \in SlackMessages, channel' = Append(channel, m)
        PROVE  Len(channel') # Len(channel)
    BY <1>0, <2>1, AppendProperties DEF TypeInv, DataInv
  <2>2. CASE SlackMessage
    <3>1. PICK root \in 0..Len(channel) :
            Len(channel) < MaxTs /\ channel' = Append(channel, SlackMessageBy("slack", root))
      BY <2>2 DEF SlackMessage
    <3> QED
      BY <1>3, <2>1, <3>1, PostedIs
  <2>3. CASE SlackEdits
    <3>1. PICK t \in 1..Len(channel) :
            Len(channel) < MaxTs /\ channel' = Append(channel, SlackEditBy("slack", t))
      BY <2>3, Lengths DEF SlackEdits
    <3> QED
      BY <1>3, <2>1, <3>1, EditIs
  <2>4. CASE \E h \in Handlers : Post(h) \/ Update(h)
    BY <1>0, <1>3, <2>4, PostIs, UpdateIs
  <2> QED
    BY <1>7, <2>2, <2>3, <2>4
<1>8. CASE UNCHANGED vars
  BY <1>2, <1>8 DEF vars, slack
<1> QED
  BY <1>1, <1>2, <1>3, <1>4, <1>5, <1>6, <1>7, <1>8 DEF Next, HandlerStep

\* A deletion that Slack has yet to tell stays so until a handler has it.
LEMMA NoticesKept ==
  ASSUME TypeInv, [Next]_vars, NEW ts \in notices
  PROVE  \/ ts \in notices'
         \/ \E h \in Handlers :
              /\ HandlerStep(h) /\ tasks'[h].pc = "locating" /\ tasks'[h].ts = ts
              /\ \A s \in Streams : seen[s] >= ts
              /\ private => \A g \in Handlers : tasks[g].pc \notin FromSlack
<1>1. CASE UNCHANGED vars \/ SlackMessage \/ SlackEdits \/ SlackDeletes
  BY <1>1 DEF vars, slack, SlackMessage, SlackEdits, SlackDeletes
<1>2. ASSUME NEW h \in Handlers, HandlerStep(h)
      PROVE  \/ ts \in notices'
             \/ /\ HandlerStep(h) /\ tasks'[h].pc = "locating" /\ tasks'[h].ts = ts
                /\ \A s \in Streams : seen[s] >= ts
                /\ private => \A g \in Handlers : tasks[g].pc \notin FromSlack
  <2>1. CASE DeletionArrives(h) \/ \E s \in Streams : Deliver(h, s)
    BY <1>2, <2>1, SlackIs
  <2>2. CASE MatrixMessage(h) \/ MatrixRedacts(h) \/ MatrixEdits(h)
    BY <2>2, MatrixIs DEF slack
  <2>3. CASE Quiet(h)
    BY <2>3, QuietChanges DEF slack
  <2>4. CASE ~Arrives(h) /\ ~Quiet(h)
    BY <1>2, <2>4
    DEF HandlerStep, Continues, Fails, Quiet, Post, Answered, AnswerLost, StoreSent, StoreList,
        Enqueue, Leave, Begin, WriteThread, Send, Drops, SendFails, DropEdit, RecordCopy, Remove, Unstore,
        DeleteOnSlack, StoreEdit, slack, Update
  <2> QED
    BY <2>1, <2>2, <2>3, <2>4 DEF Arrives
<1> QED
  BY <1>1, <1>2 DEF Next, HandlerStep

\* What is redacted stays redacted; what Slack deletes finds the copy's row.
LEMMA LocatesCopy ==
  ASSUME CoreInv, private, NEW ts \in Ts, ts \notin forgotten, NEW e \in Copies(ts),
         timeline[e].redacted # "matrix", NEW h \in Handlers, Locate(h), tasks[h].ts = ts
  PROVE  tasks'[h].pc = "removing" /\ tasks'[h].event = e
<1> USE DEF CoreInv
<1>0. e \in 1..Len(timeline) /\ timeline[e].ts = ts /\ ts # 0
  BY Lengths DEF Copies, Ts
<1>1. timeline[e].kind = "copy" /\ e \in EventIds /\ e <= Len(timeline)
  BY <1>0, Lengths DEF TypeInv, DataInv, EventIn, EventIds
<1>2. tasks[h].pc = "locating"
  BY DEF Locate, At
<1>3. ~\E g \in Handlers : At(g, "recording")
  BY <1>2 DEF Solo, FromSlack, At
<1>4. HasRow(e)
  BY <1>1, <1>3 DEF RecordedInv
<1>5. EventBySlackId(ts) # {}
  BY <1>0, <1>4 DEF HasRow, EventBySlackId
<1>6. PICK row \in rows : row.ts = ts /\ tasks'[h].event = row.event /\ tasks'[h].pc = "removing"
  BY <1>5, LocateIs DEF EventBySlackId
<1>7. Paired(row.event, ts)
  BY <1>6 DEF PairedInv
<1>8. (\A d, f \in Copies(ts) : d = f) /\ ~Ours(ts)
  BY DEF OnceInv
<1>9. row.event \in DOMAIN timeline
  BY <1>6, Lengths DEF TypeInv, DataInv, RowIn, Rows, EventIds
<1> QED
  BY <1>6, <1>7, <1>8, <1>9 DEF Paired, Copies

LEMMA DeletionStep ==
  ASSUME CoreInv, CoreInv', DeletionInv, [Next]_vars
  PROVE  DeletionInv'
<1> USE DEF CoreInv
<1> SUFFICES ASSUME private, NEW ts \in Ts, ts <= Len(channel')
             PROVE  /\ channel'[ts].deleted # "no" /\ ts \notin notices' =>
                         /\ \A s \in Streams : ts <= seen'[s]
                         /\ \A h \in Handlers : tasks'[h].pc \in Receiving => tasks'[h].ts # ts
                    /\ channel'[ts].deleted = "slack" => \A e \in Copies(ts)' :
                         \/ timeline'[e].redacted # "no"
                         \/ ts \in notices' \cup forgotten'
                         \/ \E h \in Handlers : tasks'[h].pc = "locating" /\ tasks'[h].ts = ts
                         \/ \E h \in Handlers : tasks'[h].pc = "removing" /\ tasks'[h].event = e
  BY PrivateKept DEF DeletionInv, At
<1>1. ts <= Len(channel) =>
        /\ channel[ts].deleted # "no" /\ ts \notin notices =>
             /\ \A s \in Streams : ts <= seen[s]
             /\ \A h \in Handlers : tasks[h].pc \in Receiving => tasks[h].ts # ts
        /\ channel[ts].deleted = "slack" => \A e \in Copies(ts) :
             \/ timeline[e].redacted # "no"
             \/ ts \in notices \cup forgotten
             \/ \E h \in Handlers : tasks[h].pc = "locating" /\ tasks[h].ts = ts
             \/ \E h \in Handlers : tasks[h].pc = "removing" /\ tasks[h].event = e
  BY DEF DeletionInv, At
<1>2. ASSUME channel'[ts].deleted # "no", ts \notin notices'
      PROVE  /\ \A s \in Streams : ts <= seen'[s]
             /\ \A h \in Handlers : tasks'[h].pc \in Receiving => tasks'[h].ts # ts
  <2>1. ts \in 1..Len(channel) /\ channel[ts].deleted # "no"
    BY <1>2, DeletedFrom
  <2>2. CASE ts \notin notices
    <3>1. \A s \in Streams : ts <= seen[s]
      BY <1>1, <2>1, <2>2
    <3>2. \A s \in Streams : ts <= seen'[s]
      BY <3>1, SeenIs DEF Ts
    <3>3. ASSUME NEW h \in Handlers, tasks'[h].pc \in Receiving, tasks'[h].ts = ts
          PROVE  FALSE
      <4>1. ~(tasks[h].pc \in Receiving /\ tasks'[h].ts = tasks[h].ts)
        BY <1>1, <2>1, <2>2, <3>3
      <4>2. PICK s \in Streams : ts = seen[s] + 1
        BY <3>3, <4>1, Receives
      <4> QED
        BY <3>1, <4>2, SeenIs
    <3> QED
      BY <3>2, <3>3
  <2>3. CASE ts \in notices
    <3>1. PICK h \in Handlers :
            /\ HandlerStep(h) /\ tasks'[h].pc = "locating"
            /\ \A s \in Streams : seen[s] >= ts
            /\ \A g \in Handlers : tasks[g].pc \notin FromSlack
      BY <1>2, <2>3, NoticesKept
    <3>2. \A s \in Streams : ts <= seen'[s]
      BY <3>1, SeenIs DEF Ts
    <3>3. \A g \in Handlers : tasks'[g].pc \notin Receiving
      BY <3>1, Others DEF Receiving, Waiting, Begun, FromSlack
    <3> QED
      BY <3>2, <3>3
  <2> QED
    BY <2>2, <2>3
<1>3. ASSUME channel'[ts].deleted = "slack", NEW e \in Copies(ts)'
      PROVE  \/ timeline'[e].redacted # "no"
             \/ ts \in notices' \cup forgotten'
             \/ \E h \in Handlers : tasks'[h].pc = "locating" /\ tasks'[h].ts = ts
             \/ \E h \in Handlers : tasks'[h].pc = "removing" /\ tasks'[h].event = e
  <2> SUFFICES ASSUME ts \notin notices', ts \notin forgotten', timeline'[e].redacted = "no"
               PROVE  \/ \E h \in Handlers : tasks'[h].pc = "locating" /\ tasks'[h].ts = ts
                      \/ \E h \in Handlers : tasks'[h].pc = "removing" /\ tasks'[h].event = e
    OBVIOUS
  <2>1. ts \in 1..Len(channel) /\ channel[ts].deleted = "slack" /\ ts <= Len(channel)
    BY <1>3, DeletedFrom, Lengths
  <2>2. ts \notin forgotten
    BY KnownKept
  <2>3. CASE e \notin Copies(ts)
    <3>1. PICK h \in Handlers : Send(h) /\ tasks[h].ts = ts
      BY <1>3, <2>3, CopiesKept
    <3>2. ts \in notices
      BY <1>1, <2>1, <3>1 DEF Send, At, Receiving, Begun
    <3> QED
      BY <3>1, <3>2, SendIs DEF slack
  <2>4. CASE e \in Copies(ts)
    <3>0. e \in 1..Len(timeline)
      BY <2>4, Lengths DEF Copies
    <3>1. timeline[e].redacted = "no"
      BY <3>0, TimelineKept
    <3>2. CASE ts \in notices
      BY <3>2, NoticesKept
    <3>3. ASSUME NEW h \in Handlers, tasks[h].pc = "locating", tasks[h].ts = ts
          PROVE  \/ tasks'[h].pc = "locating" /\ tasks'[h].ts = ts
                 \/ tasks'[h].pc = "removing" /\ tasks'[h].event = e
      <4>1. CASE tasks'[h] = tasks[h]
        BY <3>3, <4>1
      <4>2. CASE HandlerStep(h)
        <5>1. ~Arrives(h)
          BY <3>3, MatrixIs, SlackIs DEF Arrives
        <5>2. Locate(h)
          BY <3>3, <4>2, <5>1
          DEF HandlerStep, Continues, Fails, At, ReadParent, Post, Answered, AnswerLost,
              StoreSent, StoreList, Check, Enqueue, Leave, Begin, ReadThread, WriteThread, FindReply, ReplyTo, MatchEdit,
              Send, Drops, SendFails, DropEdit, RecordCopy, Remove, ReadRedacted, Unstore, DeleteOnSlack,
              ReadEdited, Update, StoreEdit, CallFails
        <5> QED
          BY <2>2, <2>4, <3>1, <3>3, <5>2, LocatesCopy
      <4> QED
        BY <4>1, <4>2, MovesOne
    <3>4. ASSUME NEW h \in Handlers, tasks[h].pc = "removing", tasks[h].event = e
          PROVE  tasks'[h].pc = "removing" /\ tasks'[h].event = e
      <4>1. CASE tasks'[h] = tasks[h]
        BY <3>4, <4>1
      <4>2. CASE HandlerStep(h)
        <5>1. ~Arrives(h)
          BY <3>4, MatrixIs, SlackIs DEF Arrives
        <5>2. Remove(h)
          BY <3>4, <4>2, <5>1
          DEF HandlerStep, Continues, Fails, At, ReadParent, Post, Answered, AnswerLost,
              StoreSent, StoreList, Check, Enqueue, Leave, Begin, ReadThread, WriteThread, FindReply, ReplyTo, MatchEdit,
              Send, Drops, SendFails, DropEdit, RecordCopy, Locate, ReadRedacted, Unstore, DeleteOnSlack,
              ReadEdited, Update, StoreEdit, CallFails
        <5>3. PICK answer \in {"bridge", "refused"} :
                timeline' = [timeline EXCEPT ![e].redacted = answer]
          BY <3>1, <3>4, <5>2 DEF Remove
        <5>4. timeline'[e].redacted = answer
          BY <3>0, <5>3, RedactedIs
        <5> QED
          BY <5>4
      <4> QED
        BY <4>1, <4>2, MovesOne
    <3> QED
      BY <1>1, <2>1, <2>2, <2>4, <3>1, <3>2, <3>3, <3>4
  <2> QED
    BY <2>3, <2>4
<1> QED
  BY <1>2, <1>3

\* In a channel that only puppets see, the copy of what a Slack user deleted is
\* redacted, once its deletion was told and handled, or its redaction was tried
\* and the homeserver refused it to the bridge's bot: message_deleted cannot
\* overtake the message it deletes.
THEOREM RedactsDeleted == Spec => []DeletionsReach
<1>1. Init => DeletionInv
  <2> SUFFICES ASSUME Init PROVE DeletionInv
    OBVIOUS
  <2>1. Len(channel) = 0
    BY EmptySeq DEF Init
  <2>2. \A ts \in Ts : ~(ts <= Len(channel))
    BY <2>1, RelayAssumption DEF Ts
  <2> QED
    BY <2>2 DEF DeletionInv
<1>2. CoreInv /\ CoreInv' /\ DeletionInv /\ [Next]_vars => DeletionInv'
  BY DeletionStep
<1>3. CoreInv /\ DeletionInv => DeletionsReach
  <2> SUFFICES ASSUME CoreInv, DeletionInv, private, \A h \in Handlers : At(h, "idle"),
                      NEW e \in DOMAIN timeline, timeline[e].kind = "copy",
                      channel[timeline[e].ts].deleted = "slack"
               PROVE  timeline[e].redacted # "no" \/ timeline[e].ts \in notices \cup forgotten
    BY DEF DeletionsReach
  <2>1. e \in 1..Len(timeline) /\ timeline[e] \in MatrixEvents
    BY Lengths DEF CoreInv, TypeInv, DataInv
  <2>2. timeline[e].ts \in 0..MaxTs /\ timeline[e].ts # 0 /\ timeline[e].ts <= Len(channel)
    BY <2>1 DEF CoreInv, TypeInv, DataInv, EventIn, MatrixEvents
  <2>3. timeline[e].ts \in Ts /\ e \in Copies(timeline[e].ts)
    BY <2>1, <2>2, Lengths DEF Ts, Copies, CoreInv
  <2> QED
    BY <2>2, <2>3 DEF DeletionInv, At
<1> QED
  BY <1>1, <1>2, <1>3, CoreAlways, PTL DEF Spec

-----------------------------------------------------------------------------
(* Threads: what is remembered, and in which order *)

LEMMA RepliesIs ==
  ASSUME TypeInv, NEW ts \in Ts, NEW R \in Ts, Replies(ts, R)
  PROVE  /\ ts \in 1..Len(channel) /\ R \in 1..Len(channel) /\ R < ts /\ ~Ours(R)
         /\ ts <= Len(channel)
<1>1. ts \in 1..Len(channel) /\ R < ts
  BY Lengths DEF Replies, TypeInv, DataInv
<1>2. R \in 1..Len(channel)
  BY <1>1, Lengths DEF Ts
<1> QED
  BY <1>1, <1>2, Lengths DEF Replies, Ours, Posted

LEMMA RepliesKept ==
  ASSUME TypeInv, TypeInv', [Next]_vars, NEW ts \in Ts, NEW R \in Ts
  PROVE  /\ Replies(ts, R) => Replies(ts, R)'
         /\ Replies(ts, R)' => /\ R \in 1..Len(channel) /\ ~Ours(R) /\ R < ts
                               /\ Replies(ts, R) \/ ts = Len(channel) + 1
<1>1. /\ DOMAIN channel = 1..Len(channel) /\ DOMAIN channel' = 1..Len(channel')
      /\ Len(channel) \in Nat /\ Len(channel') \in Nat
      /\ ts \in Nat /\ ts >= 1 /\ R \in Nat /\ R >= 1
  <2>1. channel' \in Seq(SlackMessages)
    BY DEF TypeInv, DataInv
  <2> QED
    BY <2>1, Lengths, LenProperties DEF Ts
<1>2. ASSUME Replies(ts, R) PROVE Replies(ts, R)'
  <2>1. /\ ts \in 1..Len(channel') /\ channel'[ts].root = channel[ts].root
        /\ channel'[R].from = channel[R].from
    <3>1. ts \in 1..Len(channel) /\ R \in 1..Len(channel)
      BY <1>2, RepliesIs
    <3>2. Len(channel) <= Len(channel')
      BY ChannelKept
    <3>3. ts \in 1..Len(channel')
      BY <1>1, <3>1, <3>2
    <3> QED
      BY <3>1, <3>3, ChannelKept
  <2> QED
    BY <1>1, <1>2, <2>1 DEF Replies
<1>3. ASSUME Replies(ts, R)'
      PROVE  /\ R \in 1..Len(channel) /\ ~Ours(R) /\ R < ts
             /\ Replies(ts, R) \/ ts = Len(channel) + 1
  <2>1. ts \in 1..Len(channel') /\ channel'[ts].root = R /\ channel'[R].from = "slack"
    BY <1>1, <1>3 DEF Replies
  <2>2. R < ts
    BY <2>1 DEF TypeInv, DataInv
  <2>3. Len(channel') = Len(channel) \/ Len(channel') = Len(channel) + 1
    BY ChannelKept
  <2>0. ts <= Len(channel')
    BY <1>1, <2>1
  <2>4. R \in 1..Len(channel)
    <3>1. CASE Len(channel') = Len(channel)
      BY <1>1, <2>0, <2>2, <3>1
    <3>2. CASE Len(channel') = Len(channel) + 1
      BY <1>1, <2>0, <2>2, <3>2
    <3> QED
      BY <2>3, <3>1, <3>2
  <2>5. channel[R].from = "slack"
    BY <2>1, <2>4, ChannelKept
  <2>6. ts \in 1..Len(channel) \/ ts = Len(channel) + 1
    <3>1. CASE ts <= Len(channel)
      BY <1>1, <3>1
    <3>2. CASE ~(ts <= Len(channel))
      <4>1. Len(channel) \in Nat /\ Len(channel') \in Nat /\ ts \in Nat
        BY <1>1
      <4>2. Len(channel') # Len(channel)
        BY <2>0, <3>2
      <4> QED
        BY <2>0, <2>3, <3>2, <4>1, <4>2
    <3> QED
      BY <3>1, <3>2
  <2>7. ASSUME ts \in 1..Len(channel) PROVE Replies(ts, R)
    BY <1>1, <2>1, <2>5, <2>7, ChannelKept DEF Replies
  <2> QED
    BY <2>2, <2>4, <2>5, <2>6, <2>7 DEF Ours, Posted
<1> QED
  BY <1>2, <1>3

\* addRecentSlackMessage: the list moves up by one if it is full.
LEMMA ShiftIs ==
  ASSUME TypeInv, NEW ts \in Ts, AddRecentSlackMessage(ts)
  PROVE  \E k \in {0, 1} :
           /\ Len(recent) \in Nat /\ Len(recent') = Len(recent) + 1 - k /\ k <= Len(recent)
           /\ DOMAIN recent' = 1..Len(recent') /\ DOMAIN recent = 1..Len(recent)
           /\ \A i \in 1..Len(recent) : recent[i] \in Ts
           /\ \A i \in 1..Len(recent') :
                recent'[i] = IF i + k <= Len(recent) THEN recent[i + k] ELSE ts
           /\ \A R \in Elements(recent) : R \in Elements(recent') \/ R \in forgotten'
<1>1. recent \in Seq(Ts) /\ Len(recent) \in Nat /\ RecentMax >= 1 /\ RecentMax \in Nat
  BY RelayAssumption, LenProperties DEF TypeInv, RoomInv
<1>2. PICK all : all = Append(recent, ts)
  OBVIOUS
<1>3. /\ all \in Seq(Ts) /\ Len(all) = Len(recent) + 1
      /\ \A i \in 1..Len(recent) : all[i] = recent[i]
      /\ all[Len(recent) + 1] = ts
  BY <1>1, <1>2, AppendProperties
<1>4. /\ recent' = IF Len(all) > RecentMax THEN Tail(all) ELSE all
      /\ \A R \in Elements(recent) : R \in Elements(recent') \/ R \in forgotten'
  BY <1>2 DEF AddRecentSlackMessage, Remembered
<1>5. CASE Len(all) > RecentMax
  <2>1. all # <<>>
    BY <1>1, <1>3, EmptySeq
  <2>2. /\ Tail(all) \in Seq(Ts) /\ Len(Tail(all)) = Len(all) - 1
        /\ \A i \in 1..Len(Tail(all)) : Tail(all)[i] = all[i + 1]
    BY <1>3, <2>1, HeadTailProperties
  <2>3. recent' = Tail(all) /\ 1 <= Len(recent)
    BY <1>1, <1>3, <1>4, <1>5
  <2>4. /\ Len(recent') = Len(recent) + 1 - 1 /\ DOMAIN recent' = 1..Len(recent')
        /\ DOMAIN recent = 1..Len(recent) /\ \A i \in 1..Len(recent) : recent[i] \in Ts
    BY <1>1, <1>3, <2>2, <2>3, LenProperties, ElementOfSeq
  <2>5. ASSUME NEW i \in 1..Len(recent')
        PROVE  recent'[i] = IF i + 1 <= Len(recent) THEN recent[i + 1] ELSE ts
    <3>1. recent'[i] = all[i + 1]
      BY <2>2, <2>3, <2>5
    <3>2. i + 1 \in 1..Len(recent) \/ i + 1 = Len(recent) + 1
      BY <1>1, <2>4, <2>5
    <3> QED
      BY <1>1, <1>3, <3>1, <3>2
  <2> QED
    BY <1>1, <1>4, <2>3, <2>4, <2>5
<1>6. CASE ~(Len(all) > RecentMax)
  <2>1. recent' = all
    BY <1>4, <1>6
  <2>2. /\ Len(recent') = Len(recent) + 1 - 0 /\ DOMAIN recent' = 1..Len(recent')
        /\ DOMAIN recent = 1..Len(recent) /\ \A i \in 1..Len(recent) : recent[i] \in Ts
        /\ 0 <= Len(recent)
    BY <1>1, <1>3, <2>1, LenProperties, ElementOfSeq
  <2>3. ASSUME NEW i \in 1..Len(recent')
        PROVE  recent'[i] = IF i + 0 <= Len(recent) THEN recent[i + 0] ELSE ts
    <3>1. i + 0 = i /\ (i \in 1..Len(recent) \/ i = Len(recent) + 1)
      BY <1>1, <2>2, <2>3
    <3> QED
      BY <1>1, <1>3, <2>1, <3>1
  <2> QED
    BY <1>1, <1>4, <2>2, <2>3
<1> QED
  BY <1>5, <1>6

\* What adds to recentSlackMessages: the answer to a post of ours, or the turn
\* of a message that is not in it.
LEMMA AddsRecent ==
  ASSUME CoreInv, [Next]_vars
  PROVE  \/ recent' = recent /\ forgotten \subseteq forgotten'
         \/ \E h \in Handlers, ts \in Ts :
              /\ ts = tasks[h].ts /\ AddRecentSlackMessage(ts) /\ ts <= Len(channel)
              /\ \/ Ours(ts)
                 \/ /\ ts \notin Elements(recent)
                    /\ tasks[h].pc = "queued"
<1> USE DEF CoreInv
<1>1. CASE UNCHANGED <<recent, forgotten>>
  BY <1>1
<1>2. ASSUME NEW h \in Handlers, NEW ts \in Ts, ts = tasks[h].ts,
             Answered(h) \/ AnswerLost(h) \/ (Begin(h) /\ tasks[h].ts \notin Elements(recent))
      PROVE  \/ recent' = recent /\ forgotten \subseteq forgotten'
             \/ /\ AddRecentSlackMessage(ts) /\ ts <= Len(channel)
                /\ Ours(ts) \/ (ts \notin Elements(recent) /\ tasks[h].pc = "queued")
  <2>1. ts <= Len(channel)
    BY <1>2, TaskFacts DEF TaskIn
  <2>2. CASE AnswerLost(h)
    BY <2>2 DEF AnswerLost
  <2>3. CASE Answered(h)
    <3>1. tasks[h].pc = "answering" /\ AddRecentSlackMessage(ts)
      BY <1>2, <2>3 DEF Answered, At
    <3>2. Ours(ts)
      BY <1>2, <3>1 DEF PairedInv, Matched, Paired, Sending
    <3> QED
      BY <2>1, <3>1, <3>2
  <2>4. CASE Begin(h) /\ tasks[h].ts \notin Elements(recent)
    BY <1>2, <2>1, <2>4 DEF Leave, Begin, At
  <2> QED
    BY <1>2, <2>2, <2>3, <2>4
<1> QED
  BY <1>1, <1>2, KnownKept

LEMMA RememberedStep ==
  ASSUME CoreInv, RememberedInv, [Next]_vars
  PROVE  RememberedInv'
<1> USE DEF CoreInv
<1> SUFFICES ASSUME NEW i \in DOMAIN recent', NEW j \in DOMAIN recent', NEW x, x = recent'[i]
             PROVE  x <= Len(channel') /\ (x = recent'[j] /\ ~(Ours(x))' => i = j)
  BY DEF RememberedInv
<1>1. \A y \in Ts : y <= Len(channel) => y <= Len(channel') /\ (Ours(y) => Ours(y)')
  BY OursKept, ChannelKept, Lengths DEF Ts
<1>2. CASE recent' = recent
  <2>1. x \in Ts
    BY <1>2 DEF TypeInv, RoomInv
  <2> QED
    BY <1>1, <1>2, <2>1 DEF RememberedInv
<1>3. ASSUME NEW h \in Handlers, NEW ts \in Ts, AddRecentSlackMessage(ts), ts <= Len(channel),
             Ours(ts) \/ ts \notin Elements(recent)
      PROVE  x <= Len(channel') /\ (x = recent'[j] /\ ~(Ours(x))' => i = j)
  <2>1. PICK k \in {0, 1} :
           /\ Len(recent) \in Nat /\ Len(recent') = Len(recent) + 1 - k
           /\ DOMAIN recent' = 1..Len(recent') /\ DOMAIN recent = 1..Len(recent)
           /\ \A a \in 1..Len(recent) : recent[a] \in Ts
           /\ \A a \in 1..Len(recent') :
                recent'[a] = IF a + k <= Len(recent) THEN recent[a + k] ELSE ts
    BY <1>3, ShiftIs
  <2>2. \A a \in DOMAIN recent' :
          \/ a + k \in DOMAIN recent /\ recent'[a] = recent[a + k]
          \/ a + k = Len(recent) + 1 /\ recent'[a] = ts
    <3>1. ASSUME NEW a \in 1..Len(recent')
          PROVE  a + k \in 1..Len(recent) \/ (a + k = Len(recent) + 1 /\ ~(a + k <= Len(recent)))
      BY <2>1, <3>1
    <3>2. \A a \in 1..Len(recent) : a <= Len(recent)
      BY <2>1
    <3> QED
      BY <2>1, <3>1, <3>2
  <2>3. i + k = j + k => i = j
    <3>1. i \in Int /\ j \in Int
      BY <2>1
    <3> QED
      BY <2>1, <3>1
  <2>4. CASE i + k \in DOMAIN recent /\ recent'[i] = recent[i + k]
    <3>1. x \in Ts /\ x <= Len(channel) /\ x \in Elements(recent)
      BY <2>1, <2>4 DEF RememberedInv, Elements
    <3>2. ASSUME x = recent'[j], ~Ours(x)
          PROVE  i = j
      <4>1. j + k \in DOMAIN recent /\ recent'[j] = recent[j + k]
        BY <1>3, <2>2, <3>1, <3>2
      <4>2. i + k = j + k
        BY <2>4, <3>2, <4>1 DEF RememberedInv
      <4> QED
        BY <2>3, <4>2
    <3> QED
      BY <1>1, <3>1, <3>2
  <2>5. CASE i + k = Len(recent) + 1 /\ recent'[i] = ts
    <3>1. ASSUME ts = recent'[j], ~Ours(ts)
          PROVE  i = j
      <4>1. ts \notin Elements(recent)
        BY <1>3, <3>1
      <4>2. j + k = Len(recent) + 1
        BY <2>2, <3>1, <4>1 DEF Elements
      <4> QED
        BY <2>3, <2>5, <4>2
    <3> QED
      BY <1>1, <1>3, <2>5, <3>1
  <2> QED
    BY <2>2, <2>4, <2>5
<1> QED
  BY <1>2, <1>3, AddsRecent

\* What was remembered before another is shifted out before it.
LEMMA PastKept ==
  ASSUME CoreInv, RememberedInv, [Next]_vars, NEW R \in Ts, NEW ts \in Ts, ~Ours(R), Past(R, ts)
  PROVE  Past(R, ts)'
<1> USE DEF CoreInv
<1>1. CASE R \in forgotten
  BY <1>1, KnownKept DEF Past
<1>2. CASE recent' = recent /\ forgotten \subseteq forgotten'
  BY <1>2 DEF Past
<1>3. ASSUME NEW t \in Ts, AddRecentSlackMessage(t), Ours(t) \/ t \notin Elements(recent),
             NEW i \in DOMAIN recent, NEW j \in DOMAIN recent, i < j, recent[i] = R, recent[j] = ts
      PROVE  Past(R, ts)'
  <2>1. PICK k \in {0, 1} :
           /\ Len(recent) \in Nat /\ Len(recent') = Len(recent) + 1 - k
           /\ DOMAIN recent' = 1..Len(recent') /\ DOMAIN recent = 1..Len(recent)
           /\ \A a \in 1..Len(recent') :
                recent'[a] = IF a + k <= Len(recent) THEN recent[a + k] ELSE t
           /\ \A S \in Elements(recent) : S \in Elements(recent') \/ S \in forgotten'
    BY <1>3, ShiftIs
  <2>2. CASE k = 0 \/ i > 1
    <3>1. i - k \in 1..Len(recent') /\ j - k \in 1..Len(recent') /\ i - k < j - k
      BY <1>3, <2>1, <2>2
    <3>2. recent'[i - k] = R /\ recent'[j - k] = ts
      BY <1>3, <2>1, <3>1
    <3> QED
      BY <2>1, <3>1, <3>2 DEF Past
  <2>3. CASE k = 1 /\ i = 1
    <3>1. R \in Elements(recent) /\ R # t
      BY <1>3 DEF Elements
    <3>2. ASSUME R \in Elements(recent') PROVE FALSE
      <4>1. PICK a \in 1..Len(recent') : recent'[a] = R
        BY <2>1, <3>2 DEF Elements
      <4>2. a + 1 \in DOMAIN recent /\ recent[a + 1] = R
        BY <2>1, <2>3, <3>1, <4>1
      <4>3. a + 1 = 1
        BY <1>3, <2>3, <4>2 DEF RememberedInv
      <4> QED
        BY <4>1, <4>3
    <3>3. R \in forgotten'
      BY <2>1, <3>1, <3>2
    <3> QED
      BY <3>3 DEF Past
  <2>4. i \in 1..Len(recent)
    BY <1>3, <2>1
  <2> QED
    BY <2>1, <2>2, <2>3, <2>4
<1>4. ASSUME R \notin forgotten
      PROVE  \E i, j \in DOMAIN recent : i < j /\ recent[i] = R /\ recent[j] = ts
  BY <1>4 DEF Past
<1> QED
  BY <1>1, <1>2, <1>3, <1>4, AddsRecent

LEMMA AddPast ==
  ASSUME TypeInv, NEW R \in Ts, NEW ts \in Ts, R # ts, Known(R), AddRecentSlackMessage(ts)
  PROVE  Past(R, ts)'
<1>1. forgotten \subseteq forgotten'
  BY AddIs
<1>2. CASE R \in forgotten
  BY <1>1, <1>2 DEF Past
<1>3. CASE R \in Elements(recent)
  <2>1. PICK k \in {0, 1} :
           /\ Len(recent) \in Nat /\ Len(recent') = Len(recent) + 1 - k /\ k <= Len(recent)
           /\ DOMAIN recent' = 1..Len(recent') /\ DOMAIN recent = 1..Len(recent)
           /\ \A a \in 1..Len(recent') :
                recent'[a] = IF a + k <= Len(recent) THEN recent[a + k] ELSE ts
           /\ \A S \in Elements(recent) : S \in Elements(recent') \/ S \in forgotten'
    BY ShiftIs
  <2>2. CASE R \in Elements(recent')
    <3>1. PICK a \in 1..Len(recent') : recent'[a] = R
      BY <2>1, <2>2 DEF Elements
    <3>2. a < Len(recent') /\ Len(recent') \in 1..Len(recent') /\ recent'[Len(recent')] = ts
      BY <2>1, <3>1
    <3> QED
      BY <2>1, <3>1, <3>2 DEF Past
  <2> QED
    BY <1>3, <2>1, <2>2 DEF Past
<1> QED
  BY <1>2, <1>3 DEF Known

\* A reply's thread was known before it.
LEMMA KnownRoot ==
  ASSUME CoreInv, SeenInv, Serial, NEW ts \in Ts, NEW R \in Ts, Replies(ts, R),
         NEW h \in Handlers, tasks[h].pc \in Receiving, tasks[h].ts = ts
  PROVE  Known(R)
<1> USE DEF CoreInv
<1>1. PICK s \in Streams : ts <= seen[s]
  BY DEF SeenInv
<1>2. R < ts /\ channel[R].from = "slack"
  BY RepliesIs DEF Replies
<1>3. seen[s] \in Nat
  BY Lengths DEF TypeInv, SlackInv
<1>4. R <= seen[s]
  BY <1>1, <1>2, <1>3 DEF Ts
<1>5. ~Taken(R)
  <2>1. ASSUME NEW g \in Handlers, tasks[g].pc \in Waiting, tasks[g].ts = R
        PROVE  FALSE
    <3>1. g = h
      BY <2>1 DEF Solo, Serial, Receiving, Waiting, Begun, FromSlack
    <3> QED
      BY <1>2, <2>1, <3>1 DEF Ts
  <2> QED
    BY <2>1 DEF Taken
<1> QED
  BY <1>2, <1>4, <1>5 DEF SeenInv

LEMMA PastStep ==
  ASSUME CoreInv, CoreInv', SeenInv, RememberedInv, PastInv, [Next]_vars
  PROVE  PastInv'
<1> USE DEF CoreInv
<1> SUFFICES ASSUME Serial, NEW R \in Ts, NEW ts \in Ts, Replies(ts, R)'
             PROVE  /\ Ours(ts)' => Known(R)'
                    /\ ts \in Elements(recent') => Past(R, ts)'
                    /\ channel'[ts].from # "bot" =>
                         \A s \in Streams : ts <= seen'[s] => Past(R, ts)' \/ Taken(ts)'
  BY PrivateKept DEF PastInv, Serial, Elements
<1>1. R \in 1..Len(channel) /\ ~Ours(R) /\ R < ts /\ (Replies(ts, R) \/ ts = Len(channel) + 1)
  BY RepliesKept
<1>2. Replies(ts, R) =>
        /\ Ours(ts) => Known(R)
        /\ ts \in Elements(recent) => Past(R, ts)
        /\ channel[ts].from # "bot" =>
             \A s \in Streams : ts <= seen[s] => Past(R, ts) \/ Taken(ts)
  BY DEF PastInv
<1>3. Len(channel) \in Nat /\ ts \in Nat /\ R \in Nat
  BY Lengths DEF Ts
<1>4. ts <= Len(channel) => Replies(ts, R)
  BY <1>1, <1>3
<1>5. ASSUME Ours(ts)' PROVE Known(R)'
  <2>1. CASE Ours(ts)
    <3>1. Replies(ts, R)
      BY <1>4, <2>1 DEF Ours
    <3> QED
      BY <1>2, <2>1, <3>1, KnownKept
  <2>2. CASE ts = Len(channel) + 1 /\ \E h \in Handlers : Post(h)
    <3>1. PICK h \in Handlers : Post(h)
      BY <2>2
    <3>2. channel'[ts].root = R /\ R # 0
      BY <1>1, <1>3 DEF Replies
    <3>3. PICK r \in tasks[h].parent : r.ts = R
      BY <2>2, <3>1, <3>2, PostIs
    <3>4. Paired(r.event, R) /\ r \in Rows /\ RowIn(r, Len(channel), Len(timeline))
      BY <3>3, TaskTypes, TaskFacts DEF PairedInv, Matched, TaskIn
    <3>5. r.event \in DOMAIN timeline /\ timeline[r.event].ts = R
      BY <1>1, <3>4, Lengths DEF Paired, RowIn, Rows, EventIds
    <3>6. Known(R)
      BY <3>5 DEF RecentInv, Copies
    <3> QED
      BY <3>6, KnownKept
  <2> QED
    BY <1>5, <2>1, <2>2, OursKept
<1>6. ASSUME ts \in Elements(recent') PROVE Past(R, ts)'
  <2>1. CASE ts \in Elements(recent)
    <3>1. ts <= Len(channel)
      BY <2>1 DEF RememberedInv, Elements
    <3> QED
      BY <1>1, <1>2, <1>4, <2>1, <3>1, PastKept
  <2>2. CASE ts \notin Elements(recent)
    <3>1. PICK h \in Handlers, t \in Ts :
            /\ t = tasks[h].ts /\ AddRecentSlackMessage(t) /\ t <= Len(channel)
            /\ Ours(t) \/ tasks[h].pc = "queued"
      BY <1>6, <2>2, AddsRecent
    <3>2. t = ts
      BY <1>6, <2>2, <3>1, RememberedIs DEF AddRecentSlackMessage, TypeInv, RoomInv
    <3>3. Replies(ts, R)
      BY <1>4, <3>1, <3>2
    <3>4. Known(R)
      BY <1>2, <3>1, <3>2, <3>3, KnownRoot DEF Receiving, Waiting
    <3> QED
      BY <1>1, <1>3, <3>1, <3>2, <3>4, AddPast
  <2> QED
    BY <2>1, <2>2
<1>7. ASSUME channel'[ts].from # "bot", NEW s \in Streams, ts <= seen'[s]
      PROVE  Past(R, ts)' \/ Taken(ts)'
  <2>1. ts <= Len(channel)
    BY <1>3, <1>7, SeenIs
  <2>2. Replies(ts, R) /\ channel[ts].from # "bot"
    <3>1. ts \in 1..Len(channel)
      BY <1>3, <2>1 DEF Ts
    <3> QED
      BY <1>4, <1>7, <2>1, <3>1, ChannelKept
  <2>3. CASE ~(ts <= seen[s])
    <3>1. ts = seen'[s] /\ channel' = channel
          /\ (channel[ts].from = "bot"
              \/ \E h \in Handlers : tasks'[h].pc = "arrived" /\ tasks'[h].ts = ts)
      BY <1>3, <1>7, <2>3, SeenIs
    <3> QED
      BY <2>2, <3>1 DEF Taken, Waiting
  <2>4. CASE Past(R, ts)
    BY <1>1, <2>4, PastKept
  <2>5. ASSUME NEW h \in Handlers, tasks[h].pc \in Waiting, tasks[h].ts = ts
        PROVE  Past(R, ts)' \/ Taken(ts)'
    <3>1. \/ tasks'[h].pc \in Waiting /\ tasks'[h].ts = ts
          \/ ts \in Elements(recent) \/ ts \in Elements(recent')
      BY <2>5, MovesOne, WaitingIs DEF Serial
    <3>2. CASE ts \in Elements(recent)
      BY <1>1, <1>2, <2>2, <3>2, PastKept
    <3> QED
      BY <1>6, <3>1, <3>2 DEF Taken
  <2> QED
    BY <1>2, <1>7, <2>2, <2>3, <2>4, <2>5 DEF Taken
<1> QED
  BY <1>5, <1>6, <1>7

LEMMA PastAlways == Spec => [](CoreInv /\ SeenInv /\ RememberedInv /\ PastInv)
<1>1. Init => RememberedInv /\ PastInv
  <2> SUFFICES ASSUME Init PROVE RememberedInv /\ PastInv
    OBVIOUS
  <2>1. DOMAIN recent = {} /\ DOMAIN channel = {}
    BY EmptySeq DEF Init
  <2> QED
    BY <2>1 DEF RememberedInv, PastInv, Replies
<1>2. CoreInv /\ CoreInv' /\ SeenInv /\ RememberedInv /\ PastInv /\ [Next]_vars
      => RememberedInv' /\ PastInv'
  BY RememberedStep, PastStep
<1> QED
  BY <1>1, <1>2, SeenAlways, PTL DEF Spec

-----------------------------------------------------------------------------
(* Threads: rows and what was missed *)

LEMMA IntactKept ==
  ASSUME TypeInv, TypeInv', [Next]_vars, Intact'
  PROVE  Intact
<1>1. DOMAIN timeline = 1..Len(timeline) /\ DOMAIN timeline' = 1..Len(timeline')
  BY Lengths, LenProperties DEF TypeInv, DataInv
<1>2. Len(timeline) <= Len(timeline') /\ Len(timeline) \in Nat /\ Len(timeline') \in Nat
  BY Lengths, TimelineKept
<1>3. ASSUME NEW d \in 1..Len(timeline), timeline[d].redacted = "matrix"
      PROVE  FALSE
  <2>1. d \in DOMAIN timeline' /\ timeline'[d].redacted = "matrix"
    <3>1. d \in 1..Len(timeline')
      BY <1>2, <1>3
    <3> QED
      BY <1>1, <1>3, <3>1, TimelineKept
  <2> QED
    BY <2>1 DEF Intact
<1> QED
  BY <1>1, <1>3 DEF Intact

\* Only a redaction takes a row away.
LEMMA RowedKept ==
  ASSUME CoreInv, [Next]_vars, Intact, NEW ts \in Ts, Rowed(ts)
  PROVE  Rowed(ts)'
<1> USE DEF CoreInv
<1>1. PICK r \in rows : r.ts = ts
  BY DEF Rowed
<1>2. ASSUME NEW h \in Handlers, Unstore(h), tasks[h].event = r.event
      PROVE  FALSE
  <2>1. tasks[h].pc = "unstoring"
    BY <1>2 DEF Unstore, At
  <2>2. tasks[h].event \in EventIds /\ tasks[h].event \in DOMAIN timeline
    BY <2>1, TaskTypes, Lengths DEF HasEvent
  <2>3. timeline[tasks[h].event].redacted = "matrix"
    BY <2>1, <2>2 DEF RecordedInv
  <2> QED
    BY <2>2, <2>3 DEF Intact
<1>3. \E q \in rows' : q.ts = ts
  BY <1>1, <1>2, RowsKept
<1> QED
  BY <1>3 DEF Rowed

LEMMA ForgottenMissed ==
  ASSUME NEW ts, ts \in forgotten'
  PROVE  Missed(ts)'
BY DEF Missed

\* What was missed is never copied, as its ts is still remembered.
LEMMA MissedKept ==
  ASSUME CoreInv, CoreInv', [Next]_vars, NEW ts \in Ts, Missed(ts)
  PROVE  Missed(ts)'
<1> USE DEF CoreInv
<1>1. CASE ts \in forgotten'
  BY <1>1, ForgottenMissed
<1>2. CASE ts \in DOMAIN channel /\ EditedByHand(ts)
  <2>1. PICK x \in 1..Len(channel) : channel[x].edits = ts /\ channel[x].from = "slack"
    BY <1>2, Lengths DEF EditedByHand
  <2>2. /\ DOMAIN channel' = 1..Len(channel') /\ ts \in 1..Len(channel)
        /\ Len(channel) <= Len(channel') /\ Len(channel') \in Nat
    BY <1>2, Lengths, LenProperties, ChannelKept DEF TypeInv, DataInv
  <2>3. x \in DOMAIN channel' /\ ts \in DOMAIN channel'
    BY <2>1, <2>2, Lengths
  <2>4. channel'[x].edits = ts /\ channel'[x].from = "slack"
        /\ channel'[ts].from = channel[ts].from
    BY <2>1, <2>2, ChannelKept
  <2> QED
    BY <1>2, <2>3, <2>4 DEF EditedByHand, Missed
<1>3. CASE ts \notin forgotten' /\ ~(ts \in DOMAIN channel /\ EditedByHand(ts))
  <2>1. /\ ts \in DOMAIN channel /\ channel[ts].from = "slack"
        /\ Copies(ts) = {} /\ ts \in Elements(recent)
        /\ \A h \in Handlers : tasks[h].ts = ts => tasks[h].pc \notin Begun \ {"recording"}
    BY <1>3, KnownKept DEF Missed, Known
  <2>2. ts \in DOMAIN channel' /\ channel'[ts].from = "slack"
    <3>1. DOMAIN channel' = 1..Len(channel')
      BY LenProperties DEF TypeInv, DataInv
    <3>2. ts \in 1..Len(channel) /\ Len(channel) <= Len(channel') /\ Len(channel') \in Nat
      BY <2>1, Lengths, ChannelKept
    <3>3. ts \in 1..Len(channel')
      BY <3>2, Lengths
    <3> QED
      BY <2>1, <3>1, <3>2, <3>3, ChannelKept
  <2>3. ASSUME NEW h \in Handlers, Send(h), tasks[h].ts = ts
        PROVE  FALSE
    BY <2>1, <2>3 DEF Send, At, Begun
  <2>4. Copies(ts)' = {}
    BY <2>1, <2>3, CopiesKept
  <2>5. Known(ts)'
    BY <2>1, KnownKept DEF Known
  <2>6. ASSUME NEW h \in Handlers, tasks'[h].ts = ts, tasks'[h].pc \in Begun \ {"recording"}
        PROVE  FALSE
    <3>1. CASE tasks'[h] = tasks[h]
      BY <2>1, <2>6, <3>1
    <3>2. CASE HandlerStep(h)
      BY <2>1, <2>6, <3>2, ReceivingIs DEF Begun, Receiving, Waiting
    <3> QED
      BY <3>1, <3>2, MovesOne
  <2> QED
    BY <2>2, <2>4, <2>5, <2>6 DEF Missed
<1> QED
  BY <1>1, <1>2, <1>3

LEMMA ExcusedKept ==
  ASSUME CoreInv, CoreInv', [Next]_vars, NEW R \in Ts, NEW ts \in Ts, ts <= Len(channel),
         Excused(R, ts)
  PROVE  Excused(R, ts)'
<1> USE DEF CoreInv
<1>1. PICK t \in R..(ts - 1) : (t = R \/ channel[t].root = R) /\ Missed(t)
  BY DEF Excused
<1>2. t \in 1..Len(channel) /\ t \in Ts
  BY <1>1, Lengths DEF Ts
<1>3. Missed(t)' /\ channel'[t].root = channel[t].root
  BY <1>1, <1>2, MissedKept, ChannelKept
<1> QED
  BY <1>1, <1>3 DEF Excused

\* A row as a handler has it was in the table, or is written now.
LEMMA AllRowsFrom ==
  ASSUME TypeInv, [Next]_vars, NEW r \in AllRows'
  PROVE  \/ r \in AllRows
         \/ r.list = <<>>
         \/ \E h \in Handlers :
              /\ StoreList(h) \/ WriteThread(h)
              /\ \E row \in tasks[h].parent : /\ r.event = row.event /\ r.ts = row.ts
                                              /\ r.list = Append(row.list, Enlisted(h))
<1>1. CASE r \in rows'
  BY <1>1, RowsFrom DEF AllRows
<1>2. ASSUME NEW h \in Handlers, r \in tasks'[h].parent
      PROVE  r \in AllRows
  BY <1>2, MovesOne, ParentFrom DEF AllRows
<1> QED
  BY <1>1, <1>2 DEF AllRows

LEMMA AllRowsType ==
  ASSUME TypeInv, NEW r \in AllRows
  PROVE  r \in Rows /\ r.ts \in Ts /\ r.ts \in 1..Len(channel) /\ r.list \in Seq(Ts)
         /\ r.event \in DOMAIN timeline
<1>1. r \in Rows /\ RowIn(r, Len(channel), Len(timeline))
  BY TaskTypes, TaskFacts DEF AllRows, TypeInv, DataInv, TaskIn
<1> QED
  BY <1>1, Lengths DEF Rows, RowIn, Ts, EventIds

\* A row of a thread that a Slack user began is of the copy of its first.
LEMMA RowOfCopy ==
  ASSUME CoreInv, NEW r \in AllRows, ~Ours(r.ts)
  PROVE  timeline[r.event].kind = "copy" /\ timeline[r.event].ts = r.ts
<1>1. Paired(r.event, r.ts)
  BY DEF CoreInv, PairedInv, Matched, AllRows
<1> QED
  BY <1>1 DEF Paired

\* What a handler's edit is about is for good.
LEMMA SubjectKept ==
  ASSUME TypeInv, [Next]_vars, NEW h \in Handlers, tasks[h].pc \in HasTs,
         tasks'[h].ts = tasks[h].ts
  PROVE  Subject(h)' = Subject(h) /\ channel'[Subject(h)].root = channel[Subject(h)].root
<1>1. tasks[h].ts \in 1..Len(channel) /\ Subject(h) \in 1..Len(channel)
  BY TaskTypes, SubjectIs
<1>2. channel'[tasks[h].ts].edits = channel[tasks[h].ts].edits
      /\ channel'[Subject(h)].root = channel[Subject(h)].root
  BY <1>1, ChannelKept
<1> QED
  BY <1>2 DEF Subject, IsMessage

LEMMA ParentStep ==
  ASSUME CoreInv, CoreInv', ParentInv, [Next]_vars
  PROVE  ParentInv'
<1> USE DEF CoreInv
<1> SUFFICES ASSUME NEW h \in Handlers, NEW t, t = tasks'[h]
             PROVE  /\ t.pc \in {"posting"} \cup Sending =>
                         \A q, r \in t.parent : q.event = r.event
                    /\ t.pc \in Sending =>
                         \A r \in t.parent : Ours(r.ts)' \/ channel'[t.ts].root = r.ts
                    /\ t.pc \in {"writing", "finding"} =>
                         \A r \in t.parent : channel'[Subject(h)'].root = r.ts
                    /\ Intact' =>
                         /\ t.pc = "listing" => Rowed(t.ts)'
                         /\ t.pc \in {"writing", "finding"} => \A r \in t.parent : Rowed(r.ts)'
  BY DEF ParentInv
<1> DEFINE Fine ==
      /\ t.pc \in {"posting"} \cup Sending => \A q, r \in t.parent : q.event = r.event
      /\ t.pc \in Sending => \A r \in t.parent : Ours(r.ts)' \/ channel'[t.ts].root = r.ts
      /\ t.pc \in {"writing", "finding"} => \A r \in t.parent : channel'[Subject(h)'].root = r.ts
      /\ Intact' =>
           /\ t.pc = "listing" => Rowed(t.ts)'
           /\ t.pc \in {"writing", "finding"} => \A r \in t.parent : Rowed(r.ts)'
<1>1. /\ tasks[h].pc \in {"posting"} \cup Sending =>
           \A q, r \in tasks[h].parent : q.event = r.event
      /\ tasks[h].pc \in Sending =>
           \A r \in tasks[h].parent : Ours(r.ts) \/ channel[tasks[h].ts].root = r.ts
      /\ tasks[h].pc \in {"writing", "finding"} =>
           \A r \in tasks[h].parent : channel[Subject(h)].root = r.ts
      /\ Intact =>
           /\ tasks[h].pc = "listing" => Rowed(tasks[h].ts)
           /\ tasks[h].pc \in {"writing", "finding"} =>
                \A r \in tasks[h].parent : Rowed(r.ts)
  BY DEF ParentInv
<1>2. Intact' => Intact
  BY IntactKept
<1>3. \A r \in tasks[h].parent : r \in AllRows /\ r.ts \in Ts
  BY AllRowsType DEF AllRows
<1>4. tasks[h].pc \in HasTs =>
        tasks[h].ts \in Ts /\ channel'[tasks[h].ts].root = channel[tasks[h].ts].root
  BY TaskTypes, ChannelKept
<1>5. CASE /\ t.parent = tasks[h].parent /\ t.ts = tasks[h].ts
           /\ \/ t.pc = tasks[h].pc
              \/ tasks[h].pc = "answering" /\ t.pc = "storing"
              \/ tasks[h].pc = "writing" /\ t.pc = "finding"
  <2>1. ASSUME t.pc \in {"posting"} \cup Sending
        PROVE  \A q, r \in t.parent : q.event = r.event
    BY <1>1, <1>5, <2>1 DEF Sending
  <2>2. ASSUME t.pc \in Sending, NEW r \in t.parent
        PROVE  Ours(r.ts)' \/ channel'[t.ts].root = r.ts
    <3>1. Ours(r.ts) \/ channel[tasks[h].ts].root = r.ts
      BY <1>1, <1>5, <2>2 DEF Sending
    <3> QED
      BY <1>3, <1>4, <1>5, <2>2, <3>1, OursKept DEF Sending, HasTs
  <2>3. ASSUME t.pc \in {"writing", "finding"}, NEW r \in t.parent
        PROVE  channel'[Subject(h)'].root = r.ts
    <3>1. tasks[h].pc \in {"writing", "finding"} /\ tasks[h].pc \in HasTs
      BY <1>5, <2>3 DEF HasTs, FromSlack
    <3> QED
      BY <1>1, <1>5, <2>3, <3>1, SubjectKept
  <2>4. ASSUME Intact', t.pc = "listing"
        PROVE  Rowed(t.ts)'
    BY <1>1, <1>2, <1>4, <1>5, <2>4, RowedKept DEF HasTs, Sending
  <2>5. ASSUME Intact', t.pc \in {"writing", "finding"}, NEW r \in t.parent
        PROVE  Rowed(r.ts)'
    BY <1>1, <1>2, <1>3, <1>5, <2>5, RowedKept
  <2> QED
    BY <2>1, <2>2, <2>3, <2>4, <2>5
<1>6. CASE t.pc = "posting" /\ ReadParent(h)
  <2>1. t.parent = EventByMatrixId(tasks[h].target)
    BY <1>6, ReadParentIs
  <2>2. \A q, r \in t.parent : q.event = r.event
    BY <2>1 DEF EventByMatrixId
  <2> QED
    BY <1>6, <2>2 DEF Sending
<1>7. CASE t.pc = "answering" /\ Post(h)
  <2>1. /\ tasks[h].pc = "posting" /\ t.parent = tasks[h].parent /\ t.ts = Len(channel) + 1
    BY <1>7, PostIs
  <2>2. \A q, r \in t.parent : q.event = r.event
    BY <1>1, <2>1
  <2>3. ASSUME NEW r \in t.parent
        PROVE  Ours(r.ts)' \/ channel'[t.ts].root = r.ts
    <3>1. CASE Ours(r.ts)
      BY <1>3, <2>1, <2>3, <3>1, OursKept
    <3>2. CASE ~Ours(r.ts)
      <4>1. PICK q \in tasks[h].parent : channel'[Len(channel) + 1].root = q.ts
        BY <1>7, <2>1, <2>3, PostIs
      <4>2. q.event = r.event /\ r \in AllRows /\ q \in AllRows
        BY <1>3, <2>1, <2>2, <2>3
      <4>3. timeline[r.event].kind = "copy" /\ timeline[r.event].ts = r.ts
        BY <3>2, <4>2, RowOfCopy
      <4>4. Paired(q.event, q.ts)
        BY <4>1 DEF PairedInv, Matched
      <4>5. q.ts = r.ts
        BY <4>2, <4>3, <4>4 DEF Paired
      <4> QED
        BY <2>1, <4>1, <4>5
    <3> QED
      BY <3>1, <3>2
  <2> QED
    BY <1>7, <2>2, <2>3
<1>8. CASE t.pc = "listing" /\ StoreSent(h) /\ To(h, "listing")
  <2>1. tasks[h].pc = "storing" /\ t.parent = tasks[h].parent /\ t.ts = tasks[h].ts
    BY <1>8, ToIs DEF StoreSent, At
  <2>2. NewRow(tasks[h].event, tasks[h].ts) \in rows'
    BY <1>8 DEF StoreSent, UpsertEvent
  <2>3. Rowed(t.ts)'
    BY <2>1, <2>2 DEF Rowed, NewRow
  <2>4. \A q, r \in t.parent : q.event = r.event
    BY <1>1, <2>1 DEF Sending
  <2>5. ASSUME NEW r \in t.parent
        PROVE  Ours(r.ts)' \/ channel'[t.ts].root = r.ts
    <3>1. Ours(r.ts) \/ channel[tasks[h].ts].root = r.ts
      BY <1>1, <2>1, <2>5 DEF Sending
    <3> QED
      BY <1>3, <1>4, <2>1, <2>5, <3>1, OursKept DEF Sending, HasTs
  <2> QED
    BY <1>8, <2>3, <2>4, <2>5
<1>9. CASE t.pc = "writing" /\ ReadThread(h)
  <2>1. PICK row \in EventBySlackId(channel[Subject(h)].root) :
            t.parent = {row} /\ t.ts = tasks[h].ts /\ tasks[h].pc = "threading"
    BY <1>9, ReadThreadIs
  <2>2. row.ts = channel[Subject(h)].root /\ row \in rows
    BY <2>1 DEF EventBySlackId
  <2>3. rows' = rows
    BY <1>9 DEF ReadThread
  <2>4. Rowed(row.ts)'
    BY <2>2, <2>3 DEF Rowed
  <2>5. channel'[Subject(h)'].root = row.ts
    BY <2>1, <2>2, SubjectKept DEF HasTs, FromSlack
  <2> QED
    BY <1>9, <2>1, <2>4, <2>5 DEF Sending
<1>10. CASE (t.pc = "storing" /\ Answered(h) /\ To(h, "storing"))
            \/ (t.pc = "finding" /\ WriteThread(h) /\ To(h, "finding"))
  BY <1>5, <1>10, ToIs DEF Answered, WriteThread, At
<1>11. CASE t = tasks[h]
  BY <1>5, <1>11
<1>12. CASE t.pc \notin {"posting", "writing", "finding"} \cup Sending
  BY <1>12 DEF Sending
<1>13. ASSUME HandlerStep(h) PROVE Fine
  BY <1>6, <1>7, <1>8, <1>9, <1>10, <1>12, <1>13, Enters DEF Sending
<1> QED
  BY <1>11, <1>13, MovesOne

\* A row that is read for an edit is there when the edit is told.
LEMMA EditStep ==
  ASSUME CoreInv, CoreInv', EditInv, [Next]_vars
  PROVE  EditInv'
<1> USE DEF CoreInv
<1>1. ASSUME NEW h \in Handlers, tasks'[h].pc = "matching"
      PROVE  ~IsMessage(tasks[h].ts)' /\ tasks'[h].ts = tasks[h].ts
             /\ tasks[h].ts \in 1..Len(channel)
  <2>1. ~IsMessage(tasks[h].ts) /\ tasks'[h].ts = tasks[h].ts /\ tasks[h].pc \in HasTs
    <3>1. CASE tasks'[h] = tasks[h]
      BY <1>1, <3>1 DEF EditInv, HasTs, FromSlack
    <3>2. CASE MatchEdit(h)
      BY <3>2, MatchEditIs DEF EditInv, HasTs, FromSlack
    <3>3. CASE Begin(h) /\ To(h, FirstStep(tasks[h].ts))
      BY <1>1, <3>3, ToIs, FirstStepIs DEF Begin, At, HasTs, FromSlack
    <3> QED
      BY <1>1, <3>1, <3>2, <3>3, MovesOne, Enters
  <2>2. tasks[h].ts \in 1..Len(channel)
    BY <2>1, TaskTypes
  <2>3. channel'[tasks[h].ts].edits = channel[tasks[h].ts].edits
    BY <2>2, ChannelKept
  <2> QED
    BY <2>1, <2>2, <2>3 DEF IsMessage
<1>2. ASSUME Intact', NEW h \in Handlers, tasks'[h].pc \in {"updating", "storingEdit"}
      PROVE  Rowed(tasks[h].ts)'
  <2>0. Intact
    BY <1>2, IntactKept
  <2>1. ASSUME tasks[h].pc \in {"updating", "storingEdit"}, tasks'[h].ts = tasks[h].ts
        PROVE  Rowed(tasks[h].ts)'
    <3>1. Rowed(tasks[h].ts) /\ tasks[h].ts \in Ts
      BY <2>0, <2>1, TaskTypes DEF EditInv, HasTs
    <3>2. PICK ts \in Ts : ts = tasks[h].ts
      BY <3>1
    <3>3. Rowed(ts)'
      BY <2>0, <3>1, <3>2, RowedKept
    <3> QED
      BY <2>1, <3>2, <3>3 DEF Rowed
  <2>2. CASE tasks'[h] = tasks[h]
    BY <1>2, <2>1, <2>2
  <2>3. CASE ReadEdited(h) /\ tasks'[h].pc = "updating"
    <3>0. /\ tasks[h].pc = "editing" /\ tasks'[h].pc # Idle.pc
          /\ EventByMatrixId(tasks[h].target) \subseteq rows
      BY <2>3 DEF Idle, ReadEdited, At, EventByMatrixId
    <3>1. PICK row \in rows : tasks'[h].ts = row.ts
      BY <2>3, <3>0, ReadRowIs
    <3>2. rows' = rows
      BY <2>3 DEF ReadEdited
    <3> QED
      BY <3>1, <3>2 DEF Rowed
  <2>4. CASE Update(h) /\ To(h, "storingEdit")
    BY <2>1, <2>4, ToIs DEF Update, At
  <2> QED
    BY <1>2, <2>2, <2>3, <2>4, MovesOne, Enters
<1>3. ASSUME Intact', NEW x \in 1..Len(channel'), channel'[x].edits # 0,
             channel'[x].from # "slack"
      PROVE  \E r \in rows' : r.ts = channel'[x].edits
  <2>0. Intact
    BY <1>3, IntactKept
  <2>1. CASE x \in 1..Len(channel)
    <3>1. /\ channel'[x].edits = channel[x].edits /\ channel'[x].from = channel[x].from
          /\ channel[x] \in SlackMessages /\ channel[x].edits # 0
      BY <1>3, <2>1, ChannelKept DEF TypeInv, DataInv
    <3>2. PICK ts \in Ts : ts = channel[x].edits
      BY <3>1, Lengths DEF SlackMessages, Ts
    <3>3. Rowed(ts)
      BY <1>3, <2>0, <2>1, <3>1, <3>2 DEF EditInv
    <3>4. Rowed(ts)'
      BY <2>0, <3>3, RowedKept
    <3> QED
      BY <3>1, <3>2, <3>4 DEF Rowed
  <2>2. CASE x \notin 1..Len(channel)
    <3>1. x = Len(channel) + 1 /\ \E h \in Handlers : Update(h)
      BY <1>3, <2>2, ChannelKept, Lengths
    <3>2. PICK h \in Handlers : Update(h)
      BY <3>1
    <3>3. tasks[h].pc = "updating" /\ channel'[x].edits = tasks[h].ts /\ rows' = rows
      BY <3>1, <3>2, UpdateIs
    <3>4. Rowed(tasks[h].ts)
      BY <2>0, <3>3 DEF EditInv
    <3> QED
      BY <3>3, <3>4 DEF Rowed
  <2> QED
    BY <2>1, <2>2
<1>4. \A h \in Handlers : tasks'[h].pc = "matching" => ~IsMessage(tasks[h].ts)'
  BY <1>1
<1>5. Intact' => \A h \in Handlers :
        tasks'[h].pc \in {"updating", "storingEdit"} => Rowed(tasks[h].ts)'
  BY <1>2
<1>6. Intact' => \A x \in 1..Len(channel') :
        channel'[x].edits # 0 /\ channel'[x].from # "slack" =>
            \E r \in rows' : r.ts = channel'[x].edits
  BY <1>3
<1> QED
  BY <1>4, <1>5, <1>6 DEF EditInv, Rowed

\* A copy in the making stays so until its row is written, or it was missed.
LEMMA InFlightIs ==
  ASSUME CoreInv, CoreInv', [Next]_vars, NEW h \in Handlers, NEW ts \in Ts, tasks[h].ts = ts,
         tasks[h].pc \in {"finding", "sending", "recording"}, IsMessage(ts)
  PROVE  \/ tasks'[h].pc \in {"finding", "sending", "recording"} /\ tasks'[h].ts = ts
         \/ Rowed(ts)' \/ Missed(ts)'
<1> USE DEF CoreInv
<1>1. CASE tasks'[h] = tasks[h]
  BY <1>1
<1>2. CASE HandlerStep(h)
  <2>1. ~Arrives(h)
    BY MatrixIs, SlackIs DEF Arrives
  <2>2. FindReply(h) \/ Send(h) \/ SendFails(h) \/ RecordCopy(h)
    BY <1>2, <2>1
    DEF HandlerStep, Continues, Fails, At, ReadParent, Post, Answered, AnswerLost,
        StoreSent, StoreList, Check, Enqueue, Leave, Begin, ReadThread, WriteThread, Locate, Remove,
        ReadRedacted, Unstore, DeleteOnSlack, ReadEdited, Update, StoreEdit, CallFails,
        MatchEdit, DropEdit
  <2>3. CASE FindReply(h)
    BY <2>3, FindReplyIs
  <2>4. CASE Send(h)
    <3>1. PICK t \in Tasks : t.pc = "recording" /\ t.ts = tasks[h].ts /\ Start(h, t)
      BY <2>4, SendIs
    <3> QED
      BY <3>1, StartIs
  <2>5. CASE RecordCopy(h)
    <3>1. NewRow(tasks[h].event, tasks[h].ts) \in rows'
      BY <2>5 DEF Leave, RecordCopy, UpsertEvent
    <3> QED
      BY <3>1 DEF Rowed, NewRow
  <2>6. CASE SendFails(h)
    <3>1. /\ tasks[h].pc = "sending" /\ tasks'[h].pc = "idle"
          /\ UNCHANGED <<channel, timeline, recent, forgotten>>
      BY <2>6, DoneIs DEF Leave, SendFails, At, slack
    <3>2. Known(ts) /\ Uncopied(ts) /\ (~Ours(ts) \/ ts \in forgotten)
      BY <3>1 DEF RecentInv, Begun, Receiving, Waiting
    <3>3. CASE ts \in forgotten
      BY <3>1, <3>3, ForgottenMissed
    <3>4. CASE ts \notin forgotten
      <4>1. ts \in DOMAIN channel' /\ channel'[ts].from = "slack"
        BY <3>1, <3>2, <3>4, TaskTypes, Lengths
        DEF Ours, Posted, HasTs, FromSlack
      <4>2. Copies(ts)' = Copies(ts)
        BY <3>1 DEF Copies
      <4>3. Copies(ts)' = {} /\ Known(ts)'
        BY <3>2, <3>4, <4>2, KnownKept DEF Uncopied
      <4>4. ASSUME NEW g \in Handlers, tasks'[g].pc \in Begun \ {"recording"}
            PROVE  FALSE
        <5>1. g # h
          BY <3>1, <4>4 DEF Begun
        <5>2. tasks'[g] = tasks[g]
          BY <1>2, <5>1, Others
        <5>3. g = lock[1] /\ h = lock[1]
          BY <3>1, <4>4, <5>2 DEF LockInv, Begun
        <5> QED
          BY <5>1, <5>3
      <4> QED
        BY <4>1, <4>3, <4>4 DEF Missed
    <3> QED
      BY <3>3, <3>4
  <2> QED
    BY <2>2, <2>3, <2>4, <2>5, <2>6
<1> QED
  BY <1>1, <1>2, MovesOne

Accounted(t) ==
    \/ Rowed(t)
    \/ /\ \E s \in Streams : t <= seen[s]
       /\ \/ Missed(t)
          \/ \E h \in Handlers : /\ tasks[h].pc \in {"finding", "sending", "recording"}
                                 /\ tasks[h].ts = t

LEMMA AccountedKept ==
  ASSUME CoreInv, CoreInv', Intact, [Next]_vars, NEW t \in Ts, IsMessage(t), Accounted(t)
  PROVE  Accounted(t)'
<1> USE DEF CoreInv
<1>1. CASE Rowed(t)
  BY <1>1, RowedKept DEF Accounted
<1>2. ASSUME NEW s \in Streams, t <= seen[s],
             \/ Missed(t)
             \/ \E h \in Handlers : /\ tasks[h].pc \in {"finding", "sending", "recording"}
                                    /\ tasks[h].ts = t
      PROVE  Accounted(t)'
  <2>1. t <= seen'[s]
    BY <1>2, SeenIs DEF Ts
  <2>2. CASE Missed(t)
    BY <2>1, <2>2, MissedKept DEF Accounted
  <2>3. ASSUME NEW h \in Handlers, tasks[h].pc \in {"finding", "sending", "recording"},
               tasks[h].ts = t
        PROVE  Accounted(t)'
    BY <2>1, <2>3, InFlightIs DEF Accounted
  <2> QED
    BY <1>2, <2>2, <2>3
<1> QED
  BY <1>1, <1>2 DEF Accounted

\* What is edited in a thread has a row, or it was missed.
LEMMA EditedAccounted ==
  ASSUME CoreInv, SeenInv, EditInv, Serial, Intact, NEW h \in Handlers,
         tasks[h].pc = "writing", ~IsMessage(tasks[h].ts), channel[Subject(h)].root # 0
  PROVE  Accounted(Subject(h))
<1> USE DEF CoreInv
<1>1. PICK t \in Ts : t = Subject(h)
  BY SubjectIs DEF HasTs, FromSlack
<1>2. PICK x \in Ts : x = tasks[h].ts
  BY TaskTypes DEF HasTs, FromSlack
<1>3. /\ t \in 1..Len(channel) /\ x \in 1..Len(channel) /\ t < x /\ channel[x].edits = t
      /\ t # 0
  BY <1>1, <1>2, SubjectIs, TaskTypes DEF HasTs, FromSlack, Ts
<1>4. PICK s \in Streams : x <= seen[s]
  BY <1>2 DEF SeenInv, Receiving, Begun
<1>5. t <= seen[s]
  <2>1. seen[s] \in Nat /\ t \in Nat /\ x \in Nat
    BY Lengths DEF Ts, TypeInv, SlackInv
  <2> QED
    BY <1>3, <1>4, <2>1
<1>6. IsMessage(t)
  BY <1>1, <1>3 DEF IsMessage, TypeInv, DataInv
<1>7. CASE channel[t].from = "slack"
  <2>1. ~Taken(t)
    <3>1. ASSUME NEW g \in Handlers, tasks[g].pc \in Waiting, tasks[g].ts = t
          PROVE  FALSE
      <4>1. g = h
        BY <3>1 DEF Solo, Serial, Waiting, FromSlack
      <4> QED
        BY <3>1, <4>1 DEF Waiting
    <3> QED
      BY <3>1 DEF Taken
  <2>2. Known(t)
    BY <1>5, <1>7, <2>1 DEF SeenInv
  <2>3. CASE Copies(t) = {}
    <3>1. ASSUME NEW g \in Handlers, tasks[g].ts = t, tasks[g].pc \in Begun \ {"recording"}
          PROVE  FALSE
      <4>1. g = h
        BY <3>1 DEF LockInv, Begun
      <4> QED
        BY <1>2, <1>3, <3>1, <4>1 DEF Ts
    <3>2. Missed(t)
      BY <1>3, <1>7, <2>2, <2>3, <3>1, Lengths DEF Missed
    <3> QED
      BY <1>1, <1>5, <3>2 DEF Accounted
  <2>4. ASSUME NEW e \in Copies(t)
        PROVE  Rowed(t)
    <3>1. e \in DOMAIN timeline /\ timeline[e].ts = t /\ e \in 1..Len(timeline)
      BY <2>4, Lengths DEF Copies
    <3>2. timeline[e].kind = "copy" /\ e \in EventIds /\ e <= Len(timeline)
      BY <1>3, <3>1, Lengths DEF TypeInv, DataInv, EventIn, EventIds
    <3>3. timeline[e].redacted # "matrix"
      BY <3>1 DEF Intact
    <3>4. ~\E g \in Handlers : At(g, "recording")
      BY DEF Solo, Serial, FromSlack, At
    <3>5. HasRow(e)
      BY <3>2, <3>3, <3>4 DEF RecordedInv
    <3> QED
      BY <3>1, <3>5 DEF HasRow, Rowed
  <2> QED
    BY <1>1, <2>3, <2>4 DEF Accounted
<1>8. CASE channel[t].from # "slack" /\ channel[x].from = "slack"
  <2>1. EditedByHand(t)
    BY <1>3, <1>8, Lengths DEF EditedByHand
  <2>2. Missed(t)
    BY <1>3, <2>1, Lengths DEF Missed
  <2> QED
    BY <1>1, <1>5, <2>2 DEF Accounted
<1>9. CASE channel[x].from # "slack"
  <2>1. Rowed(t)
    BY <1>3, <1>9 DEF EditInv
  <2> QED
    BY <1>1, <2>1 DEF Accounted
<1> QED
  BY <1>7, <1>8, <1>9

LEMMA ListStep ==
  ASSUME CoreInv, CoreInv', SeenInv, ParentInv, EditInv, ListInv, [Next]_vars
  PROVE  ListInv'
<1> USE DEF CoreInv
<1> SUFFICES ASSUME Serial, Intact', NEW r \in AllRows', ~Ours(r.ts)', NEW t \in Elements(r.list)
             PROVE  t <= Len(channel') /\ channel'[t].root = r.ts /\ Accounted(t)'
  BY PrivateKept DEF ListInv, Serial, Accounted
<1>0. Intact
  BY IntactKept
<1>1. ASSUME NEW q \in AllRows, NEW u \in Elements(q.list), q.ts = r.ts
      PROVE  u <= Len(channel') /\ channel'[u].root = r.ts /\ Accounted(u)'
  <2>1. q.ts \in Ts /\ q.ts \in 1..Len(channel) /\ q.list \in Seq(Ts)
    BY <1>1, AllRowsType
  <2>2. ~Ours(q.ts)
    BY <1>1, <2>1, OursKept
  <2>3. u \in Ts
    BY <1>1, <2>1 DEF Elements
  <2>4. u <= Len(channel) /\ channel[u].root = q.ts /\ Accounted(u)
    BY <1>0, <1>1, <2>2 DEF ListInv, Accounted
  <2>5. u \in 1..Len(channel)
    BY <2>3, <2>4, Lengths DEF Ts
  <2>6. IsMessage(u)
    BY <2>1, <2>4, <2>5 DEF IsMessage, TypeInv, DataInv, Ts
  <2> QED
    BY <1>0, <1>1, <2>3, <2>4, <2>5, <2>6, AccountedKept, ChannelKept, Lengths
<1>2. CASE r \in AllRows
  BY <1>1, <1>2
<1>3. CASE r.list = <<>>
  BY <1>3, EmptySeq DEF Elements
<1>4. ASSUME NEW h \in Handlers, StoreList(h) \/ WriteThread(h), NEW row \in tasks[h].parent,
             r.ts = row.ts, r.list = Append(row.list, Enlisted(h))
      PROVE  t <= Len(channel') /\ channel'[t].root = r.ts /\ Accounted(t)'
  <2>1. row \in AllRows
    BY <1>4 DEF AllRows
  <2>2. row.list \in Seq(Ts) /\ row.ts \in Ts
    BY <2>1, AllRowsType
  <2>3. tasks[h].pc \in {"listing", "writing"}
    BY <1>4 DEF StoreList, WriteThread, At
  <2>4. Enlisted(h) \in Ts /\ Enlisted(h) \in 1..Len(channel)
    BY <1>4, EnlistedIs
  <2>5. t \in Elements(row.list) \/ t = Enlisted(h)
    BY <1>4, <2>2, <2>4, AppendElements
  <2>6. CASE t \in Elements(row.list)
    BY <1>1, <1>4, <2>1, <2>6
  <2>7. CASE t = Enlisted(h) /\ StoreList(h)
    <3>1. tasks[h].pc = "listing" /\ t = tasks[h].ts
      BY <2>7 DEF StoreList, At, Enlisted
    <3>2. Ours(row.ts) \/ channel[t].root = row.ts
      BY <1>4, <3>1 DEF ParentInv, Sending
    <3>3. ~Ours(row.ts)
      BY <1>4, <2>2, OursKept
    <3>4. Rowed(t)
      BY <1>0, <3>1 DEF ParentInv
    <3>5. Rowed(t)'
      BY <1>0, <2>4, <2>7, <3>4, RowedKept
    <3> QED
      BY <1>4, <2>4, <2>7, <3>2, <3>3, <3>5, ChannelKept, Lengths DEF Accounted
  <2>8. CASE t = Enlisted(h) /\ WriteThread(h)
    <3>1. /\ tasks[h].pc = "writing" /\ To(h, "finding") /\ t = Subject(h)
          /\ UNCHANGED <<channel, seen>>
      BY <2>8 DEF WriteThread, At, slack, Enlisted
    <3>2. channel[t].root = row.ts
      BY <1>4, <3>1 DEF ParentInv
    <3>3. Accounted(t)'
      <4>1. CASE IsMessage(tasks[h].ts)
        <5>1. t = tasks[h].ts
          BY <3>1, <4>1 DEF Subject
        <5>2. PICK s \in Streams : t <= seen[s]
          BY <2>4, <2>8, <3>1, <5>1 DEF SeenInv, Receiving, Begun
        <5>3. tasks'[h].pc = "finding" /\ tasks'[h].ts = t
          BY <3>1, <5>1, ToIs
        <5> QED
          BY <3>1, <5>2, <5>3 DEF Accounted
      <4>2. CASE ~IsMessage(tasks[h].ts)
        <5>1. row.ts # 0
          BY <2>2 DEF Ts
        <5>2. Accounted(t) /\ t \in Ts /\ t \in 1..Len(channel)
          BY <1>0, <2>4, <2>8, <3>1, <3>2, <4>2, <5>1, EditedAccounted
        <5>3. IsMessage(t)
          BY <3>2, <5>1, <5>2 DEF IsMessage, TypeInv, DataInv
        <5> QED
          BY <1>0, <5>2, <5>3, AccountedKept
      <4> QED
        BY <4>1, <4>2
    <3> QED
      BY <1>4, <2>4, <2>8, <3>1, <3>2, <3>3, Lengths
  <2> QED
    BY <1>4, <2>5, <2>6, <2>7, <2>8
<1> QED
  BY <1>2, <1>3, <1>4, AllRowsFrom

LEMMA EarlierKept ==
  ASSUME CoreInv, ParentInv, Intact, [Next]_vars, ~\E h \in Handlers : WriteThread(h),
         NEW R \in Ts, NEW ts \in Ts, Earlier(AllRows, R, ts)
  PROVE  Earlier(AllRows, R, ts)'
<1> USE DEF CoreInv
<1> SUFFICES ASSUME NEW r \in AllRows', r.ts = R, NEW t \in Elements(r.list)
             PROVE  Rowed(t)' \/ t < ts
  BY DEF Earlier
<1>1. ASSUME NEW q \in AllRows, q.ts = R, NEW u \in Elements(q.list)
      PROVE  Rowed(u)' \/ u < ts
  <2>1. u \in Ts
    BY <1>1, AllRowsType DEF Elements
  <2> QED
    BY <1>1, <2>1, RowedKept DEF Earlier
<1>2. CASE r \in AllRows
  BY <1>1, <1>2
<1>3. CASE r.list = <<>>
  BY <1>3, EmptySeq DEF Elements
<1>4. ASSUME NEW h \in Handlers, StoreList(h), NEW row \in tasks[h].parent,
             r.ts = row.ts, r.list = Append(row.list, Enlisted(h))
      PROVE  Rowed(t)' \/ t < ts
  <2>1. row \in AllRows
    BY <1>4 DEF AllRows
  <2>2. row.list \in Seq(Ts)
    BY <2>1, AllRowsType
  <2>3. tasks[h].pc = "listing" /\ tasks[h].ts \in Ts /\ Enlisted(h) = tasks[h].ts
    BY <1>4, TaskTypes DEF StoreList, At, HasTs, Sending, Enlisted
  <2>4. t \in Elements(row.list) \/ t = tasks[h].ts
    BY <1>4, <2>2, <2>3, AppendElements
  <2>5. Rowed(tasks[h].ts)
    BY <2>3 DEF ParentInv
  <2> QED
    BY <1>1, <1>4, <2>1, <2>3, <2>4, <2>5, RowedKept
<1> QED
  BY <1>2, <1>3, <1>4, AllRowsFrom

\* A reply in a thread is no edit.
LEMMA NoMatching ==
  ASSUME TypeInv, EditInv, NEW ts \in Ts, NEW R \in Ts, Replies(ts, R), NEW h \in Handlers,
         MatchEdit(h), tasks'[h].ts = ts
  PROVE  FALSE
<1>1. tasks[h].pc = "matching" /\ tasks[h].ts = ts
  BY MatchEditIs
<1>2. ~IsMessage(ts)
  BY <1>1 DEF EditInv
<1>3. ts \in 1..Len(channel) /\ channel[ts].root # 0
  BY RepliesIs DEF Replies, Ts
<1> QED
  BY <1>2, <1>3 DEF IsMessage, TypeInv, DataInv

LEMMA EarlierStep ==
  ASSUME CoreInv, CoreInv', SeenInv, RememberedInv, PastInv, ParentInv, EditInv, ListInv,
         EarlierInv, [Next]_vars
  PROVE  EarlierInv'
<1> USE DEF CoreInv
<1> SUFFICES ASSUME Serial, Intact', NEW R \in Ts, NEW ts \in Ts, Replies(ts, R)',
                    NEW h \in Handlers, tasks'[h].ts = ts
             PROVE  /\ tasks'[h].pc \in Waiting => Past(R, ts)' \/ Earlier(AllRows, R, ts)'
                    /\ tasks'[h].pc \in {"threading", "writing"} =>
                         R \in forgotten' \/ Earlier(AllRows, R, ts)'
                    /\ tasks'[h].pc = "finding" =>
                         R \in forgotten' \/ Earlier(tasks[h].parent, R, ts)'
  BY PrivateKept DEF EarlierInv, Serial
<1>0. Intact
  BY IntactKept
<1>1. ASSUME tasks'[h].pc \in Receiving PROVE Replies(ts, R)
  <2>1. ts <= Len(channel)
    BY <1>1, Receives, TaskFacts DEF TaskIn
  <2> QED
    BY <2>1, RepliesKept, Lengths
<1>2. R \in 1..Len(channel) /\ ~Ours(R) /\ R < ts
  BY RepliesKept
<1>3. forgotten \subseteq forgotten'
  BY KnownKept
<1>4. ASSUME tasks[h].pc \in FromSlack, NEW g \in Handlers, WriteThread(g)
      PROVE  WriteThread(h)
  BY <1>4 DEF Solo, Serial, WriteThread, At, FromSlack
<1>5. ASSUME WriteThread(h) PROVE tasks'[h].pc = "finding"
  BY <1>5, ToIs DEF WriteThread
<1>6. ASSUME tasks'[h].pc \in Waiting
      PROVE  Past(R, ts)' \/ Earlier(AllRows, R, ts)'
  <2>0. Replies(ts, R) /\ tasks'[h].pc \in Receiving
    BY <1>1, <1>6 DEF Receiving
  <2>1. CASE tasks[h].pc \in Receiving /\ tasks[h].ts = ts
    <3>1. tasks[h].pc \in Waiting
      BY <1>6, <2>1, StaysBefore DEF Waiting
    <3>2. Past(R, ts) \/ Earlier(AllRows, R, ts)
      BY <1>0, <2>0, <2>1, <3>1 DEF EarlierInv
    <3>3. ~\E g \in Handlers : WriteThread(g)
      BY <1>4, <1>5, <1>6, <3>1 DEF Waiting, FromSlack
    <3> QED
      BY <1>0, <1>2, <3>2, <3>3, PastKept, EarlierKept
  <2>2. ASSUME HandlerStep(h), \A g \in Handlers : tasks[g].pc \notin FromSlack,
               NEW s \in Streams, ts = seen[s] + 1, channel[ts].from # "bot"
        PROVE  Past(R, ts)' \/ Earlier(AllRows, R, ts)'
    <3>1. CASE \E q \in Streams : ts <= seen[q]
      <4>1. ~Taken(ts)
        BY <2>2 DEF Taken, Waiting, FromSlack
      <4>2. Past(R, ts)
        BY <2>0, <2>2, <3>1, <4>1 DEF PastInv
      <4> QED
        BY <1>2, <4>2, PastKept
    <3>2. CASE ~\E q \in Streams : ts <= seen[q]
      <4>1. ASSUME NEW r \in AllRows, r.ts = R, NEW t \in Elements(r.list), ~Rowed(t)
            PROVE  t < ts
        <5>1. PICK q \in Streams : t <= seen[q]
          BY <1>0, <1>2, <4>1 DEF ListInv
        <5>2. seen[q] \in Nat /\ t \in Nat /\ ts \in Nat
          <6>1. t \in Ts
            BY <4>1, AllRowsType DEF Elements
          <6> QED
            BY <6>1, SeenIs DEF Ts
        <5>3. ~(ts <= seen[q])
          BY <3>2
        <5> QED
          BY <5>1, <5>2, <5>3
      <4>2. Earlier(AllRows, R, ts)
        BY <4>1 DEF Earlier
      <4>3. ~\E g \in Handlers : WriteThread(g)
        BY <2>2 DEF WriteThread, At, FromSlack
      <4> QED
        BY <1>0, <4>2, <4>3, EarlierKept
    <3> QED
      BY <3>1, <3>2
  <2> QED
    BY <1>6, <2>0, <2>1, <2>2, Receives DEF Serial
<1>7. ASSUME tasks'[h].pc \in {"threading", "writing"}
      PROVE  R \in forgotten' \/ Earlier(AllRows, R, ts)'
  <2>0. Replies(ts, R)
    BY <1>1, <1>7 DEF Receiving, Begun
  <2>1. CASE tasks[h].pc \in {"threading", "writing"} /\ tasks[h].ts = ts
    <3>1. R \in forgotten \/ Earlier(AllRows, R, ts)
      BY <1>0, <2>0, <2>1 DEF EarlierInv
    <3>2. ~\E g \in Handlers : WriteThread(g)
      BY <1>4, <1>5, <1>7, <2>1 DEF FromSlack
    <3> QED
      BY <1>0, <1>3, <3>1, <3>2, EarlierKept
  <2>2. CASE Begin(h) /\ tasks'[h].pc = "threading" /\ To(h, FirstStep(tasks[h].ts))
    <3>1. tasks[h].pc = "queued" /\ tasks[h].ts = ts
      BY <2>2, ToIs DEF Leave, Begin, At
    <3>2. HandlerStep(h)
      BY <2>2 DEF HandlerStep, Continues
    <3>3. ts \notin Elements(recent)
      BY <2>2, <3>1, <3>2, ReceivingIs DEF Begun
    <3>4. Past(R, ts) \/ Earlier(AllRows, R, ts)
      BY <1>0, <2>0, <3>1 DEF EarlierInv, Waiting
    <3>5. Past(R, ts) => R \in forgotten
      BY <3>3 DEF Past, Elements
    <3>6. ~\E g \in Handlers : WriteThread(g)
      BY <1>4, <1>5, <2>2, <3>1 DEF FromSlack
    <3> QED
      BY <1>0, <1>3, <3>4, <3>5, <3>6, EarlierKept
  <2>3. CASE ReadThread(h) /\ tasks'[h].pc = "writing"
    <3>1. tasks[h].pc = "threading" /\ tasks[h].ts = ts
      BY <2>3, ReadThreadIs
    <3> QED
      BY <2>1, <3>1
  <2>4. CASE tasks'[h] = tasks[h]
    BY <1>7, <2>1, <2>4
  <2>5. ASSUME MatchEdit(h) PROVE FALSE
    BY <2>0, <2>5, NoMatching
  <2> QED
    BY <1>7, <2>2, <2>3, <2>4, <2>5, MovesOne, Enters
<1>8. ASSUME tasks'[h].pc = "finding"
      PROVE  R \in forgotten' \/ Earlier(tasks[h].parent, R, ts)'
  <2>0. Replies(ts, R)
    BY <1>1, <1>8 DEF Receiving, Begun
  <2>1. tasks'[h] = tasks[h] \/ (WriteThread(h) /\ To(h, "finding"))
    BY <1>8, MovesOne, Enters
  <2>2. tasks'[h].parent = tasks[h].parent /\ tasks[h].ts = ts
        /\ tasks[h].pc \in {"writing", "finding"}
    BY <1>8, <2>1, ToIs DEF WriteThread, At
  <2>3. R \in forgotten \/ Earlier(tasks[h].parent, R, ts)
    <3>1. CASE tasks[h].pc = "writing"
      BY <1>0, <2>0, <2>2, <3>1 DEF EarlierInv, Earlier, AllRows
    <3>2. CASE tasks[h].pc = "finding"
      BY <1>0, <2>0, <2>2, <3>2 DEF EarlierInv
    <3> QED
      BY <2>2, <3>1, <3>2
  <2>4. ASSUME NEW r \in tasks'[h].parent, r.ts = R, NEW t \in Elements(r.list),
               Earlier(tasks[h].parent, R, ts)
        PROVE  Rowed(t)' \/ t < ts
    <3>1. r \in AllRows /\ r \in tasks[h].parent
      BY <2>2, <2>4 DEF AllRows
    <3>2. t \in Ts
      BY <2>4, <3>1, AllRowsType DEF Elements
    <3> QED
      BY <1>0, <2>4, <3>1, <3>2, RowedKept DEF Earlier
  <2> QED
    BY <1>3, <2>3, <2>4 DEF Earlier
<1> QED
  BY <1>6, <1>7, <1>8

\* What getReplyEvent does not find: the first of the thread, or the last of
\* its list, has no copy.
LEMMA UnfoundMissed ==
  ASSUME CoreInv, SeenInv, ParentInv, ListInv, EarlierInv, Serial, Intact,
         NEW R \in Ts, NEW ts \in Ts, Replies(ts, R),
         NEW h \in Handlers, tasks[h].ts = ts, ReadThread(h) \/ FindReply(h),
         tasks'[h].pc = "sending", tasks'[h].target = 0
  PROVE  Excused(R, ts)
<1> USE DEF CoreInv
<1>1. R < ts /\ ts \in 1..Len(channel) /\ R \in 1..Len(channel) /\ ~Ours(R)
      /\ channel[ts].root = R /\ channel[R].from = "slack"
  BY RepliesIs DEF Replies
<1>2. R \in Nat /\ ts \in Nat /\ R \in R..(ts - 1)
  BY <1>1 DEF Ts
<1>0. IsMessage(ts) /\ Subject(h) = ts
  BY <1>1, <1>2 DEF IsMessage, Subject, TypeInv, DataInv, Ts
<1>3. ASSUME R \in forgotten PROVE Excused(R, ts)
  BY <1>2, <1>3 DEF Excused, Missed
<1>4. CASE ReadThread(h)
  <2>1. tasks[h].pc = "threading" /\ EventBySlackId(R) = {}
    BY <1>0, <1>1, <1>4, ReadThreadIs
  <2>2. ASSUME NEW e \in Copies(R) PROVE FALSE
    <3>1. e \in DOMAIN timeline /\ timeline[e].ts = R /\ e \in 1..Len(timeline)
      BY <2>2, Lengths DEF Copies
    <3>2. timeline[e].kind = "copy" /\ e \in EventIds /\ e <= Len(timeline)
      BY <1>2, <1>1, <3>1, Lengths DEF TypeInv, DataInv, EventIn, EventIds
    <3>3. timeline[e].redacted # "matrix"
      BY <3>1 DEF Intact
    <3>4. ~HasRow(e)
      BY <2>1, <3>1 DEF HasRow, EventBySlackId
    <3>5. PICK g \in Handlers : At(g, "recording")
      BY <3>2, <3>3, <3>4 DEF RecordedInv
    <3>6. g = h
      BY <2>1, <3>5 DEF Solo, Serial, FromSlack, At
    <3> QED
      BY <2>1, <3>5, <3>6 DEF At
  <2>3. Known(R)
    BY <2>1, KnownRoot DEF Receiving, Begun
  <2>4. ASSUME NEW g \in Handlers, tasks[g].ts = R, tasks[g].pc \in Begun
        PROVE  FALSE
    <3>1. g = h
      BY <2>1, <2>4 DEF LockInv, Begun
    <3> QED
      BY <1>1, <1>2, <2>4, <3>1
  <2>5. Missed(R)
    BY <1>1, <2>2, <2>3, <2>4, Lengths DEF Missed
  <2> QED
    BY <1>2, <2>5 DEF Excused
<1>5. CASE FindReply(h)
  <2>1. tasks[h].pc = "finding"
    BY <1>5, FindReplyIs
  <2>2. PICK row \in tasks[h].parent :
          \/ EventBySlackId(LastOfThread(row)) = {}
          \/ \E r \in EventBySlackId(LastOfThread(row)) : tasks'[h].target = r.event
    BY <1>0, <1>5, FindReplyIs
  <2>3. \A r \in rows : r.event # 0
    BY DEF TypeInv, DataInv, Rows, EventIds
  <2>4. ~Rowed(LastOfThread(row))
    BY <2>2, <2>3 DEF EventBySlackId, Rowed
  <2>5. row.ts = R /\ Rowed(R) /\ row \in AllRows
    BY <1>0, <1>1, <2>1 DEF ParentInv, AllRows
  <2>6. row.list # <<>> /\ row.list \in Seq(Ts)
    BY <2>4, <2>5, AllRowsType DEF LastOfThread
  <2>7. PICK t \in Ts : t = Last(row.list) /\ t \in Elements(row.list)
    <3>1. Len(row.list) \in DOMAIN row.list /\ row.list[Len(row.list)] \in Ts
      BY <2>6, EmptySeq, LenProperties, ElementOfSeq
    <3> QED
      BY <3>1 DEF Last, Elements
  <2>8. ~Rowed(t)
    BY <2>4, <2>6, <2>7 DEF LastOfThread
  <2>9. /\ t <= Len(channel) /\ channel[t].root = R
        /\ \/ Missed(t)
           \/ \E g \in Handlers : /\ tasks[g].pc \in {"finding", "sending", "recording"}
                                  /\ tasks[g].ts = t
    BY <1>1, <2>5, <2>7, <2>8 DEF ListInv
  <2>10. R \in forgotten \/ t < ts
    BY <2>1, <2>5, <2>7, <2>8 DEF EarlierInv, Earlier
  <2>11. ASSUME t < ts PROVE Excused(R, ts)
    <3>1. ASSUME NEW g \in Handlers, tasks[g].pc \in {"finding", "sending", "recording"},
                 tasks[g].ts = t
          PROVE  FALSE
      <4>1. g = h
        BY <2>1, <3>1 DEF LockInv, Begun
      <4> QED
        BY <2>11, <3>1, <4>1 DEF Ts
    <3>2. Missed(t)
      BY <2>9, <3>1
    <3>3. t \in 1..Len(channel)
      BY <2>9, Lengths DEF Ts
    <3>4. R < t
      BY <2>9, <3>3 DEF TypeInv, DataInv
    <3>5. t \in R..(ts - 1)
      BY <1>2, <2>11, <3>4 DEF Ts
    <3> QED
      BY <2>9, <3>2, <3>5 DEF Excused
  <2> QED
    BY <1>3, <2>10, <2>11
<1> QED
  BY <1>4, <1>5

LEMMA ThreadStep ==
  ASSUME CoreInv, CoreInv', SeenInv, ParentInv, EditInv, ListInv, EarlierInv, ThreadInv,
         [Next]_vars
  PROVE  ThreadInv'
<1> USE DEF CoreInv
<1> SUFFICES ASSUME Serial, Intact', NEW R \in Ts, NEW ts \in Ts, Replies(ts, R)'
             PROVE  /\ \A e \in Copies(ts)' : timeline'[e].relates # 0 \/ Excused(R, ts)'
                    /\ \A h \in Handlers : tasks'[h].ts = ts /\ tasks'[h].pc = "sending" =>
                         tasks'[h].target # 0 \/ Excused(R, ts)'
  BY PrivateKept DEF ThreadInv, Serial
<1>0. Intact
  BY IntactKept
<1>1. ASSUME ts <= Len(channel), Excused(R, ts) PROVE Excused(R, ts)'
  BY <1>1, ExcusedKept
<1>2. ASSUME ts <= Len(channel) PROVE Replies(ts, R)
  BY <1>2, RepliesKept, Lengths
<1>3. ASSUME NEW h \in Handlers, tasks'[h].ts = ts, tasks'[h].pc = "sending"
      PROVE  tasks'[h].target # 0 \/ Excused(R, ts)'
  <2>1. tasks[h].ts = ts /\ ts <= Len(channel)
    BY <1>3, Receives, TaskFacts DEF TaskIn, Receiving, Begun
  <2>2. Replies(ts, R)
    BY <1>2, <2>1
  <2>3. CASE tasks'[h] = tasks[h]
    BY <1>0, <1>1, <1>3, <2>1, <2>2, <2>3 DEF ThreadInv
  <2>4. ASSUME Begin(h) PROVE FALSE
    <3>1. channel[ts].root # 0 /\ IsMessage(ts)
      BY <2>2, RepliesIs DEF Replies, Ts, IsMessage, TypeInv, DataInv
    <3>2. Done(h) \/ To(h, "threading")
      BY <2>1, <2>4, <3>1 DEF Leave, Begin, FirstStep
    <3> QED
      BY <1>3, <3>2, DoneIs, ToIs
  <2>5. CASE ReadThread(h) \/ FindReply(h)
    BY <1>0, <1>1, <1>3, <2>1, <2>2, <2>5, UnfoundMissed
  <2>6. ASSUME MatchEdit(h) PROVE FALSE
    BY <1>3, <2>2, <2>6, NoMatching
  <2> QED
    BY <1>3, <2>3, <2>4, <2>5, <2>6, MovesOne, Enters
<1>4. ASSUME NEW e \in Copies(ts)'
      PROVE  timeline'[e].relates # 0 \/ Excused(R, ts)'
  <2>1. CASE e \in Copies(ts)
    <3>1. e \in 1..Len(timeline) /\ timeline[e].ts = ts
      BY <2>1, Lengths DEF Copies
    <3>2. ts <= Len(channel)
      BY <3>1 DEF TypeInv, DataInv, EventIn
    <3> QED
      BY <1>0, <1>1, <1>2, <2>1, <3>1, <3>2, TimelineKept DEF ThreadInv
  <2>2. ASSUME NEW h \in Handlers, Send(h), tasks[h].ts = ts, e = Len(timeline) + 1
        PROVE  timeline'[e].relates # 0 \/ Excused(R, ts)'
    <3>1. tasks[h].pc = "sending" /\ ts <= Len(channel)
      BY <2>2, TaskFacts DEF Send, At, TaskIn
    <3>2. tasks[h].target # 0 \/ Excused(R, ts)
      BY <1>0, <1>2, <2>2, <3>1 DEF ThreadInv
    <3>3. tasks[h].target # 0 => timeline'[e].relates # 0
      BY <2>2, SendIs, TimelineGrows
    <3> QED
      BY <1>1, <3>1, <3>2, <3>3
  <2> QED
    BY <1>4, <2>1, <2>2, CopiesKept
<1> QED
  BY <1>3, <1>4

LEMMA ThreadAlways == Spec => [](CoreInv /\ ThreadInv)
<1>1. Init => ParentInv /\ EditInv /\ ListInv /\ EarlierInv /\ ThreadInv
  <2> SUFFICES ASSUME Init PROVE ParentInv /\ EditInv /\ ListInv /\ EarlierInv /\ ThreadInv
    OBVIOUS
  <2>1. /\ DOMAIN channel = {} /\ rows = {}
        /\ \A h \in Handlers : tasks[h].pc = "idle" /\ tasks[h].parent = {}
    BY EmptySeq DEF Init, Idle
  <2>2. AllRows = {}
    BY <2>1 DEF AllRows
  <2> QED
    BY <2>1, <2>2, Lengths, InitType DEF ParentInv, EditInv, Sending, ListInv, EarlierInv, ThreadInv, Replies
<1>2. /\ CoreInv /\ SeenInv /\ RememberedInv /\ PastInv
      /\ CoreInv' /\ ParentInv /\ EditInv /\ ListInv /\ EarlierInv /\ ThreadInv /\ [Next]_vars
      => ParentInv' /\ EditInv' /\ ListInv' /\ EarlierInv' /\ ThreadInv'
  BY ParentStep, EditStep, ListStep, EarlierStep, ThreadStep
<1> QED
  BY <1>1, <1>2, PastAlways, PTL DEF Spec

\* In a channel that only puppets see, a reply in a thread that a Slack user
\* began is a reply on Matrix: getReplyEvent reads the thread's row and looks
\* up the last of its list, and finds neither only if one that came before was
\* never sent, or lost from recentSlackMessages, or redacted by a Matrix user,
\* or a user edited on Slack what the bridge had posted for him.
THEOREM KeepsThreads == Spec => []ThreadsHold
<1>1. CoreInv /\ ThreadInv => ThreadsHold
  <2> SUFFICES ASSUME CoreInv, ThreadInv, Serial, NEW e \in DOMAIN timeline, NEW ts, NEW R,
                      ts = timeline[e].ts, R = channel[ts].root, timeline[e].kind = "copy",
                      R # 0, timeline[e].relates = 0, channel[R].from = "slack", Intact
               PROVE  \E t \in R..(ts - 1) :
                        /\ t = R \/ channel[t].root = R
                        /\ \/ channel[t].from = "slack" /\ Copies(t) = {}
                           \/ t \in forgotten
                           \/ EditedByHand(t)
    BY DEF ThreadsHold, Serial, Intact
  <2> USE DEF CoreInv
  <2>1. e \in 1..Len(timeline)
    BY Lengths
  <2>2. ts \in 1..Len(channel) /\ ts \in Ts
    <3>1. ts # 0 /\ ts <= Len(channel) /\ timeline[e] \in MatrixEvents
      BY <2>1 DEF TypeInv, DataInv, EventIn
    <3> QED
      BY <3>1, Lengths DEF MatrixEvents, Ts
  <2>3. R \in Ts
    <3>0. channel[ts] \in SlackMessages
      BY <2>2, ElementOfSeq DEF TypeInv, DataInv
    <3>1. channel[ts].root \in 0..MaxTs
      BY <3>0 DEF SlackMessages
    <3> QED
      BY <3>1, Lengths DEF Ts
  <2>4. Replies(ts, R) /\ e \in Copies(ts)
    BY <2>1, <2>2, Lengths DEF Replies, Copies
  <2>5. Excused(R, ts)
    BY <2>2, <2>3, <2>4 DEF ThreadInv
  <2> QED
    BY <2>5 DEF Excused, Missed
<1> QED
  BY <1>1, ThreadAlways, PTL
=============================================================================
