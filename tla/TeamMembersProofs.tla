-------------------------- MODULE TeamMembersProofs --------------------------
(***************************************************************************)
(* What the rooms of a team's channels keep, for any users, channels,      *)
(* handlers and worlds: types, admin rooms, and where a channel stands.    *)
(* TeamFolkProofs says of users what they keep.                            *)
(*                                                                         *)
(* TypeInv says what a handler knows where it is, and what an event on the *)
(* way is about. Of admin rooms, every room that is made is stored or is   *)
(* being stored (AdminInv), and with events one at a time one handler is   *)
(* at work (SerialInv). Of a channel that no two handlers were about at    *)
(* once, ChannelInv says where it stands: to be bridged, bridged, with its *)
(* deletion still to be told, being unlinked, or ended; and what the bot's *)
(* own joins and leaves still on their way make of `active`.               *)
(*                                                                         *)
(* The queue lemmas, XDoes (what a step changes) and XKeeps (what it       *)
(* keeps) are stated once and cited by every part.                         *)
(***************************************************************************)
EXTENDS TeamMembers, FiniteSetTheorems, SequenceTheorems, TLAPS

\* Where a handler is, or is to be when it has its ghost.
Stage(t) == IF t.pc \in {"get", "make"} THEN t.next ELSE t.pc

InRoom == {"join", "leave", "inviteUser", "inviteAs", "message", "ask", "ensure", "saveName",
           "send"}
OfUser == {"existing", "update", "save", "hide", "listRooms", "leaveRooms"}
OfChannel == {"askBot", "bridge", "ensureBot", "listGhosts", "listMembers", "move", "unlink",
              "drain"}
OfMatrix == {"botJoin", "slackJoin", "onboard", "createAdmin", "storeAdmin"}

\* What a handler knows where it is; cs: the channels there have been.
TaskOK(t, cs) ==
    /\ t.pc = "idle" => t = Idle
    /\ t.pc \in {"get", "make"} =>
           t.next \in {"join", "leave", "inviteUser", "inviteAs", "message", "update", "bridge"}
    /\ Stage(t) \in InRoom => t.user \in Folk /\ t.channel \in cs
    /\ Stage(t) \in OfUser => t.user \in Folk /\ t.channel = None
    /\ Stage(t) \in OfChannel => t.channel \in cs
    /\ Stage(t) \in OfChannel \ {"askBot", "bridge"} => t.user = None
    /\ t.next = "bridge" <=> Stage(t) \in {"askBot", "bridge"}
    /\ t.next = "bridge" => t.user \in Folk \/ t.pc = "bridge"
    /\ Stage(t) \in OfMatrix => t.user = None /\ t.channel \in Channels
    /\ Stage(t) \in {"inviteUser", "inviteAs"} => Puppet(t.user) # None
    /\ Stage(t) \in {"existing", "update", "save", "ensure", "saveName"} => t.name \in Names
    /\ t.pc \in {"update", "save", "message", "ask", "ensure", "saveName"} => t.object \in Objects
    /\ t.pc \in OfMatrix \ {"botJoin"} => t.mx \in MatrixUsers
    /\ t.pc \notin {"listMembers", "move"} => t.folk = {}

Channel == open \cup closed

TasksOK ==
    /\ tasks \in [Handlers -> Tasks]
    /\ \A h \in Handlers : TaskOK(tasks[h], Channel)

SlackEventOK(e, cs) ==
    /\ e.type \in {"joined", "left", "message"} => e.user \in Folk /\ e.channel \in cs
    /\ e.type = "user" => e.user \in Folk /\ e.channel = None /\ e.name \in Names
    /\ e.type \in {"created", "deleted"} => e.user = None /\ e.channel \in cs
    /\ e.type = "created" => e.channel \notin world.linked

SlackQueueOK ==
    /\ slackQueue \in Seq(SlackEvents)
    /\ \A i \in 1..Len(slackQueue) : SlackEventOK(slackQueue[i], Channel)
    /\ \A i \in 1..Len(slackQueue) :
          slackQueue[i].type = "deleted" => slackQueue[i].channel \in closed

MatrixQueueOK ==
    /\ matrixQueue \in Seq(MatrixEvents)
    /\ \A i \in 1..Len(matrixQueue) :
          matrixQueue[i].type \in {"join", "leave"} => matrixQueue[i].user \in MatrixUsers

SlackOK ==
    /\ people \in [Channels -> SUBSET Folk]
    /\ open \subseteq Channels /\ closed \subseteq Channels /\ open \cap closed = {}
    /\ gone \subseteq world.folk /\ world.linked \subseteq Channel
    /\ \A c \in Channels : people[c] \cap gone = {} /\ (c \notin Channel => people[c] = {})

MatrixOK ==
    /\ ghostsIn \in [Channels -> SUBSET Folk]
    /\ usersIn \in [Channels -> SUBSET MatrixUsers]
    /\ botIn \subseteq Channels /\ invited \subseteq MatrixUsers \X Channels
    /\ adminRooms \in [MatrixUsers -> Nat]

BridgedOK ==
    /\ bridged \subseteq Channel /\ stored \subseteq Channel /\ active \subseteq Channels
    /\ adminRoom \subseteq MatrixUsers

ToSyncOK ==
    /\ toSync \in [users : SUBSET Listed, channels : SUBSET Channels, rooms : SUBSET Channels,
                   listing : BOOLEAN]
    /\ toSync.channels \subseteq Channel /\ toSync.rooms \subseteq Channel
    /\ \A listed \in toSync.users : listed.user \in world.folk

HistoryOK ==
    /\ due \subseteq Folk \X Channels /\ crossed \subseteq Folk \cup Channels
    /\ \A u \in Folk, c \in Channels :
          <<u, c>> \in due => u \in people[c] /\ c \in open /\ Expected(u)

TypeInv ==
    /\ world \in Worlds /\ moved \in 0..world.moves
    /\ SlackOK /\ SlackQueueOK /\ MatrixQueueOK /\ MatrixOK /\ BridgedOK /\ ToSyncOK
    /\ TasksOK /\ HistoryOK /\ GhostsTypeOK

Ways == {"join", "leave", "inviteUser", "inviteAs", "message"}

LEMMA TypeInvTypeOK == TypeInv => TypeOK
<1> SUFFICES ASSUME TypeInv PROVE TypeOK
  OBVIOUS
<1>1. world \in WorldType
  BY TeamMembersAssumption DEF TypeInv
<1>2. gone \subseteq Folk /\ bridged \subseteq Channels /\ stored \subseteq Channels
  BY <1>1 DEF TypeInv, SlackOK, BridgedOK, Channel, WorldType
<1> QED
  BY <1>2 DEF TypeInv, TypeOK, SlackOK, SlackQueueOK, MatrixQueueOK, MatrixOK, BridgedOK,
              ToSyncOK, TasksOK, HistoryOK

\* What the assumption says of a world.
LEMMA WorldFacts ==
  ASSUME world \in Worlds
  PROVE  /\ world \in WorldType /\ world.folk \subseteq Folk /\ world.linked \subseteq Channels
         /\ world.members \subseteq Folk /\ world.channels \subseteq Channels
         /\ world.names \subseteq Names /\ world.moves \in Nat
         /\ \A c \in Channels : world.creator[c] \in Folk
         /\ Bot \in Folk /\ Bot \notin world.folk /\ Puppet(Bot) = None
         /\ \A u \in Folk : Puppet(u) \in MatrixUsers \cup {None}
         /\ None \notin Folk \cup Names \cup Objects \cup Channels \cup MatrixUsers \cup Handlers
         /\ NoRow \notin Names
<1>1. world \in WorldType
  BY TeamMembersAssumption
<1> QED
  BY <1>1, TeamMembersAssumption DEF WorldType, Puppet

LEMMA IdleOK == Idle \in Tasks /\ \A cs : TaskOK(Idle, cs)
  BY DEF Idle, Tasks, Pcs, TaskOK, Stage, NoRow, InRoom, OfUser, OfChannel, OfMatrix

LEMMA TypesStart == Init => TypeInv
<1> SUFFICES ASSUME Init PROVE TypeInv
  OBVIOUS
<1> USE WorldFacts DEF Init
<1>1. world \in Worlds /\ moved \in 0..world.moves
  OBVIOUS
<1>2. SlackOK
  BY <1>1 DEF SlackOK, Channel
<1>3. SlackQueueOK /\ MatrixQueueOK
  BY DEF SlackQueueOK, MatrixQueueOK
<1>4. MatrixOK /\ BridgedOK
  BY <1>1 DEF MatrixOK, BridgedOK, Channel
<1>5. ToSyncOK
  BY DEF ToSyncOK, NothingToSync
<1>6. TasksOK
  BY IdleOK DEF TasksOK
<1>7. HistoryOK
  BY DEF HistoryOK
<1>8. GhostsTypeOK
  <2>1. PICK name \in world.names : GhostsInit(name)
    OBVIOUS
  <2>2. FreshGhost \in Ghosts /\ name \in Names
    BY <1>1 DEF FreshGhost, Ghosts
  <2> QED
    BY <2>1, <2>2 DEF GhostsTypeOK, GhostsInit
<1> QED
  BY <1>1, <1>2, <1>3, <1>4, <1>5, <1>6, <1>7, <1>8 DEF TypeInv
-----------------------------------------------------------------------------
(* What a step does not touch *)

LEMMA SlackOKKept == SlackOK /\ UNCHANGED <<world, people, open, closed, gone>> => SlackOK'
  BY DEF SlackOK, Channel

LEMMA SlackQueueOKKept ==
    SlackQueueOK /\ UNCHANGED <<world, open, closed, slackQueue>> => SlackQueueOK'
  BY DEF SlackQueueOK, SlackEventOK, Channel

LEMMA MatrixQueueOKKept == MatrixQueueOK /\ UNCHANGED matrixQueue => MatrixQueueOK'
  BY DEF MatrixQueueOK

LEMMA MatrixOKKept == MatrixOK /\ UNCHANGED matrix => MatrixOK'
  BY DEF MatrixOK, matrix

LEMMA BridgedOKKept ==
    BridgedOK /\ UNCHANGED <<bridged, stored, active, adminRoom, open, closed>> => BridgedOK'
  BY DEF BridgedOK, Channel

LEMMA ToSyncOKKept == ToSyncOK /\ UNCHANGED <<world, open, closed, toSync>> => ToSyncOK'
  BY DEF ToSyncOK, Channel

LEMMA TasksOKKept == TasksOK /\ UNCHANGED <<world, open, closed, tasks>> => TasksOK'
  BY DEF TasksOK, TaskOK, Puppet, Channel

LEMMA HistoryOKKept ==
    HistoryOK /\ UNCHANGED <<world, people, open, due, crossed>> => HistoryOK'
  BY DEF HistoryOK, Expected, Puppet

LEMMA GhostsTypeOKKept == GhostsTypeOK /\ UNCHANGED ghostVars => GhostsTypeOK'
  BY DEF GhostsTypeOK, ghostVars

-----------------------------------------------------------------------------
LEMMA AppendFacts ==
  ASSUME NEW S, NEW s \in Seq(S), NEW e \in S
  PROVE  /\ Append(s, e) \in Seq(S) /\ Len(Append(s, e)) = Len(s) + 1 /\ Len(s) \in Nat
         /\ \A i \in 1..Len(s) : Append(s, e)[i] = s[i]
         /\ Append(s, e)[Len(s) + 1] = e
  OBVIOUS

LEMMA TailFacts ==
  ASSUME NEW S, NEW s \in Seq(S), s # <<>>
  PROVE  /\ Tail(s) \in Seq(S) /\ Len(Tail(s)) = Len(s) - 1 /\ Len(s) \in Nat \ {0}
         /\ \A i \in 1..Len(s) - 1 : Tail(s)[i] = s[i + 1]
         /\ Head(s) = s[1] /\ Head(s) \in S
  OBVIOUS

LEMMA StartDoes ==
  ASSUME TasksOK, NEW h \in Handlers, NEW t \in Tasks, Start(h, t)
  PROVE  /\ tasks' \in [Handlers -> Tasks] /\ tasks'[h] = t
         /\ \A g \in Handlers \ {h} : tasks'[g] = tasks[g]
  BY DEF Start, TasksOK

LEMMA StartKeepsTypes ==
  ASSUME TasksOK, NEW h \in Handlers, NEW t \in Tasks, TaskOK(t, Channel), Start(h, t),
         UNCHANGED <<world, open, closed>>
  PROVE  TasksOK'
<1>1. Channel' = Channel
  BY DEF Channel
<1>2. \A g \in Handlers : TaskOK(tasks'[g], Channel)
  BY StartDoes DEF TasksOK
<1> QED
  BY <1>1, <1>2, StartDoes DEF TasksOK, TaskOK, Puppet

LEMMA SentKeepsTypes ==
  ASSUME SlackQueueOK, NEW e \in SlackEvents, SlackEventOK(e, Channel'), Sent(e),
         e.type = "deleted" => e.channel \in closed',
         UNCHANGED world, Channel \subseteq Channel', closed \subseteq closed'
  PROVE  SlackQueueOK'
<1>1. CASE slackQueue' = slackQueue
  BY <1>1 DEF SlackQueueOK, SlackEventOK
<1>2. CASE slackQueue' = Append(slackQueue, e)
  BY <1>2, AppendFacts DEF SlackQueueOK, SlackEventOK
<1> QED
  BY <1>1, <1>2 DEF Sent

\* An event is one of Slack's.
LEMMA EventFacts ==
  ASSUME NEW type \in {"joined", "left", "user", "created", "deleted", "message"},
         NEW u \in Folk \cup {None}, NEW c \in Channels \cup {None},
         NEW n \in Names \cup {None}, NEW f \in BOOLEAN
  PROVE  /\ Event(type, u, c, n, f) \in SlackEvents
         /\ Event(type, u, c, n, f).type = type /\ Event(type, u, c, n, f).user = u
         /\ Event(type, u, c, n, f).channel = c /\ Event(type, u, c, n, f).name = n
         /\ Event(type, u, c, n, f).flag = f
  BY DEF Event, SlackEvents

LEMMA SentEventTypes ==
  ASSUME NEW type \in {"joined", "left", "user", "created", "deleted", "message"},
         NEW u \in Folk \cup {None}, NEW c \in Channels \cup {None},
         NEW n \in Names \cup {None}, NEW f \in BOOLEAN,
         SlackQueueOK, Sent(Event(type, u, c, n, f)),
         type \in {"joined", "left", "message"} => u \in Folk /\ c \in Channel',
         type = "user" => u \in Folk /\ c = None /\ n \in Names,
         type \in {"created", "deleted"} => u = None /\ c \in Channel',
         type = "created" => c \notin world.linked,
         type = "deleted" => c \in closed',
         UNCHANGED world, Channel \subseteq Channel', closed \subseteq closed'
  PROVE  SlackQueueOK'
<1> DEFINE e == Event(type, u, c, n, f)
<1>1. e \in SlackEvents /\ e.type = type /\ e.user = u /\ e.channel = c /\ e.name = n
  BY DEF Event, SlackEvents
<1>2. Sent(e)
  OBVIOUS
<1> HIDE DEF e
<1>3. SlackEventOK(e, Channel')
  BY <1>1 DEF SlackEventOK
<1> QED
  BY <1>1, <1>2, <1>3, SentKeepsTypes

LEMMA MovesTypes ==
  ASSUME Moves, world \in Worlds, moved \in 0..world.moves, UNCHANGED world
  PROVE  world' \in Worlds /\ moved' \in 0..world'.moves
<1>1. world.moves \in Nat
  BY WorldFacts
<1> QED
  BY <1>1 DEF Moves

LEMMA SlackUserJoinsTypes == TypeInv /\ SlackUserJoins => TypeInv'
<1> SUFFICES ASSUME TypeInv, SlackUserJoins PROVE TypeInv'
  OBVIOUS
<1> USE WorldFacts DEF TypeInv
<1>1. PICK u \in Alive, c \in open, asked \in BOOLEAN :
          /\ Moves /\ people' = [people EXCEPT ![c] = @ \cup {u}]
          /\ Sent(Event("joined", u, c, None, asked))
  BY DEF SlackUserJoins
<1>2. UNCHANGED <<world, open, closed, gone, matrixQueue, matrix, bridge, ghostVars, tasks, due,
                  crossed>>
  BY DEF SlackUserJoins
<1>3. /\ u \in Folk \ gone /\ c \in Channel \cap Channels
      /\ Channel' = Channel /\ closed' = closed
  BY <1>1, <1>2 DEF Alive, Channel, SlackOK, GhostsTypeOK, slack
<1>4. world' \in Worlds /\ moved' \in 0..world'.moves
  BY <1>1, <1>2, MovesTypes
<1>5. SlackQueueOK'
  BY <1>1, <1>2, <1>3, SentEventTypes DEF SlackOK, Channel
<1>6. SlackOK'
  BY <1>1, <1>2, <1>3 DEF SlackOK, Channel, Alive
<1>7. HistoryOK'
  BY <1>1, <1>2, <1>3 DEF HistoryOK, SlackOK, bridge, Expected, Puppet
<1> QED
  BY <1>2, <1>4, <1>5, <1>6, <1>7,
     MatrixQueueOKKept, MatrixOKKept, BridgedOKKept, ToSyncOKKept, TasksOKKept, GhostsTypeOKKept
     DEF slack, matrix, bridge, queues, ghostVars

LEMMA SlackUserLeavesTypes == TypeInv /\ SlackUserLeaves => TypeInv'
<1> SUFFICES ASSUME TypeInv, SlackUserLeaves PROVE TypeInv'
  OBVIOUS
<1> USE WorldFacts DEF TypeInv
<1>1. PICK c \in Channels, u \in Folk :
          /\ Moves /\ c \in open /\ u \in people[c]
          /\ people' = [people EXCEPT ![c] = @ \ {u}]
          /\ Sent(Event("left", u, c, None, FALSE))
          /\ due' = due \ {<<u, c>>}
  BY DEF SlackUserLeaves, SlackOK
<1>2. UNCHANGED <<world, open, closed, gone, matrixQueue, matrix, bridge, ghostVars, tasks,
                  crossed>>
  BY DEF SlackUserLeaves
<1>3. /\ u \in Folk /\ c \in Channel \cap Channels
      /\ Channel' = Channel /\ closed' = closed
  BY <1>1, <1>2 DEF Alive, Channel, SlackOK, GhostsTypeOK, slack
<1>4. world' \in Worlds /\ moved' \in 0..world'.moves
  BY <1>1, <1>2, MovesTypes
<1>5. SlackQueueOK'
  BY <1>1, <1>2, <1>3, SentEventTypes DEF SlackOK, Channel
<1>6. SlackOK'
  BY <1>1, <1>2, <1>3 DEF SlackOK, Channel, Alive
<1>7. HistoryOK'
  BY <1>1, <1>2, <1>3 DEF HistoryOK, SlackOK, bridge, Expected, Puppet
<1> QED
  BY <1>2, <1>4, <1>5, <1>6, <1>7,
     MatrixQueueOKKept, MatrixOKKept, BridgedOKKept, ToSyncOKKept, TasksOKKept, GhostsTypeOKKept
     DEF slack, matrix, bridge, queues, ghostVars

LEMMA SlackUserRenamedTypes == TypeInv /\ SlackUserRenamed => TypeInv'
<1> SUFFICES ASSUME TypeInv, SlackUserRenamed PROVE TypeInv'
  OBVIOUS
<1> USE WorldFacts DEF TypeInv
<1>1. PICK u \in Alive, n \in world.names :
          /\ Moves /\ slackNames' = [slackNames EXCEPT ![u] = n]
          /\ Sent(Event("user", u, None, n, FALSE))
  BY DEF SlackUserRenamed
<1>2. UNCHANGED <<world, slack, matrixQueue, matrix, bridge, cache, ghosts, rows, profiles,
                  reverted, tasks,
                  due, crossed>>
  BY DEF SlackUserRenamed
<1>3. /\ u \in Folk /\ n \in Names
      /\ Channel' = Channel /\ closed' = closed
  BY <1>1, <1>2 DEF Alive, Channel, SlackOK, GhostsTypeOK, slack
<1>4. world' \in Worlds /\ moved' \in 0..world'.moves
  BY <1>1, <1>2, MovesTypes
<1>5. SlackQueueOK'
  BY <1>1, <1>2, <1>3, SentEventTypes DEF SlackOK, Channel
<1>6. SlackOK'
  BY <1>1, <1>2, <1>3 DEF SlackOK, slack, Channel, Alive
<1>7. GhostsTypeOK'
  BY <1>1, <1>2, <1>3 DEF GhostsTypeOK
<1> QED
  BY <1>2, <1>4, <1>5, <1>6, <1>7,
     MatrixQueueOKKept, MatrixOKKept, BridgedOKKept, ToSyncOKKept, TasksOKKept, HistoryOKKept
     DEF slack, matrix, bridge, queues, ghostVars

LEMMA SlackUserDeletedTypes == TypeInv /\ SlackUserDeleted => TypeInv'
<1> SUFFICES ASSUME TypeInv, SlackUserDeleted PROVE TypeInv'
  OBVIOUS
<1> USE WorldFacts DEF TypeInv
<1>1. PICK u \in Alive :
          /\ Moves /\ gone' = gone \cup {u}
          /\ people' = [c \in Channels |-> people[c] \ {u}]
          /\ Sent(Event("user", u, None, slackNames[u], TRUE))
          /\ due' = {d \in due : d[1] # u}
  BY DEF SlackUserDeleted
<1>2. UNCHANGED <<world, open, closed, matrixQueue, matrix, bridge, ghostVars, tasks, crossed>>
  BY DEF SlackUserDeleted
<1>3. /\ u \in Folk /\ slackNames[u] \in Names
      /\ Channel' = Channel /\ closed' = closed
  BY <1>1, <1>2 DEF Alive, Channel, SlackOK, GhostsTypeOK, slack
<1>4. world' \in Worlds /\ moved' \in 0..world'.moves
  BY <1>1, <1>2, MovesTypes
<1>5. SlackQueueOK'
  BY <1>1, <1>2, <1>3, SentEventTypes DEF SlackOK, Channel
<1>6. SlackOK'
  BY <1>1, <1>2, <1>3 DEF SlackOK, Channel, Alive
<1>7. HistoryOK'
  BY <1>1, <1>2, <1>3 DEF HistoryOK, SlackOK, bridge, Expected, Puppet
<1> QED
  BY <1>2, <1>4, <1>5, <1>6, <1>7,
     MatrixQueueOKKept, MatrixOKKept, BridgedOKKept, ToSyncOKKept, TasksOKKept, GhostsTypeOKKept
     DEF slack, matrix, bridge, queues, ghostVars

LEMMA SlackUserRestoredTypes == TypeInv /\ SlackUserRestored => TypeInv'
<1> SUFFICES ASSUME TypeInv, SlackUserRestored PROVE TypeInv'
  OBVIOUS
<1> USE WorldFacts DEF TypeInv
<1>1. PICK u \in gone :
          /\ Moves /\ gone' = gone \ {u}
          /\ Sent(Event("user", u, None, slackNames[u], FALSE))
  BY DEF SlackUserRestored
<1>2. UNCHANGED <<world, people, open, closed, matrixQueue, matrix, bridge, ghostVars, tasks,
                  due, crossed>>
  BY DEF SlackUserRestored
<1>3. /\ u \in Folk /\ slackNames[u] \in Names
      /\ Channel' = Channel /\ closed' = closed
  BY <1>1, <1>2 DEF Alive, Channel, SlackOK, GhostsTypeOK, slack
<1>4. world' \in Worlds /\ moved' \in 0..world'.moves
  BY <1>1, <1>2, MovesTypes
<1>5. SlackQueueOK'
  BY <1>1, <1>2, <1>3, SentEventTypes DEF SlackOK, Channel
<1>6. SlackOK'
  BY <1>1, <1>2, <1>3 DEF SlackOK, Channel, Alive
<1> QED
  BY <1>2, <1>4, <1>5, <1>6,
     MatrixQueueOKKept, MatrixOKKept, BridgedOKKept, ToSyncOKKept, TasksOKKept, HistoryOKKept,
     GhostsTypeOKKept
     DEF slack, matrix, bridge, queues, ghostVars

LEMMA ChannelCreatedTypes == TypeInv /\ ChannelCreated => TypeInv'
<1> SUFFICES ASSUME TypeInv, ChannelCreated PROVE TypeInv'
  OBVIOUS
<1> USE WorldFacts DEF TypeInv
<1>1. PICK c \in world.channels \ (open \cup closed) :
          /\ Moves /\ open' = open \cup {c} /\ world.creator[c] \in Alive
          /\ people' = [people EXCEPT ![c] = {world.creator[c]}]
          /\ Sent(Event("created", None, c, None, FALSE))
  BY DEF ChannelCreated
<1>2. UNCHANGED <<world, closed, gone, matrixQueue, matrix, bridge, ghostVars, tasks, due, crossed>>
  BY DEF ChannelCreated
<1>3. /\ world.creator[c] \in Folk \ gone /\ c \in Channel' \cap Channels /\ c \notin Channel
      /\ Channel' = Channel \cup {c} /\ closed' = closed /\ c \notin world.linked
  BY <1>1, <1>2 DEF Alive, Channel, SlackOK, GhostsTypeOK, slack
<1>4. world' \in Worlds /\ moved' \in 0..world'.moves
  BY <1>1, <1>2, MovesTypes
<1>5. SlackQueueOK'
  BY <1>1, <1>2, <1>3, SentEventTypes DEF SlackOK, Channel
<1>6. SlackOK'
  BY <1>1, <1>2, <1>3 DEF SlackOK, Channel, Alive
<1>7. HistoryOK'
  BY <1>1, <1>2, <1>3 DEF HistoryOK, SlackOK, bridge, Expected, Puppet, Channel
<1>8. BridgedOK'
  BY <1>1, <1>2, <1>3 DEF BridgedOK, bridge, Channel
<1>9. ToSyncOK'
  BY <1>1, <1>2, <1>3 DEF ToSyncOK, bridge, Channel
<1>10. TasksOK'
  BY <1>1, <1>2, <1>3 DEF TasksOK, TaskOK, Puppet, Channel
<1> QED
  BY <1>2, <1>4, <1>5, <1>6, <1>7, <1>8, <1>9, <1>10,
     MatrixQueueOKKept, MatrixOKKept, GhostsTypeOKKept
     DEF slack, matrix, bridge, queues, ghostVars

LEMMA ChannelDeletedTypes == TypeInv /\ ChannelDeleted => TypeInv'
<1> SUFFICES ASSUME TypeInv, ChannelDeleted PROVE TypeInv'
  OBVIOUS
<1> USE WorldFacts DEF TypeInv
<1>1. PICK c \in open :
          /\ Moves /\ open' = open \ {c} /\ closed' = closed \cup {c}
          /\ Sent(Event("deleted", None, c, None, FALSE))
          /\ due' = {d \in due : d[2] # c}
  BY DEF ChannelDeleted
<1>2. UNCHANGED <<world, people, gone, matrixQueue, matrix, bridge, ghostVars, tasks, crossed>>
  BY DEF ChannelDeleted
<1>3. /\ c \in Channel \cap Channels
      /\ Channel' = Channel /\ closed' = closed \cup {c}
  BY <1>1, <1>2 DEF Alive, Channel, SlackOK, GhostsTypeOK, slack
<1>4. world' \in Worlds /\ moved' \in 0..world'.moves
  BY <1>1, <1>2, MovesTypes
<1>5. SlackQueueOK'
  BY <1>1, <1>2, <1>3, SentEventTypes DEF SlackOK, Channel
<1>6. SlackOK'
  BY <1>1, <1>2, <1>3 DEF SlackOK, Channel, Alive
<1>7. HistoryOK'
  BY <1>1, <1>2, <1>3 DEF HistoryOK, SlackOK, bridge, Expected, Puppet, Channel
<1>8. BridgedOK'
  BY <1>1, <1>2, <1>3 DEF BridgedOK, bridge
<1>9. ToSyncOK'
  BY <1>1, <1>2, <1>3 DEF ToSyncOK, bridge
<1>10. TasksOK'
  BY <1>1, <1>2, <1>3 DEF TasksOK, TaskOK, Puppet
<1> QED
  BY <1>2, <1>4, <1>5, <1>6, <1>7, <1>8, <1>9, <1>10,
     MatrixQueueOKKept, MatrixOKKept, GhostsTypeOKKept
     DEF slack, matrix, bridge, queues, ghostVars

LEMMA SlackMessageTypes == TypeInv /\ SlackMessage => TypeInv'
<1> SUFFICES ASSUME TypeInv, SlackMessage PROVE TypeInv'
  OBVIOUS
<1> USE WorldFacts DEF TypeInv
<1>1. PICK c \in Channels, u \in Folk :
          /\ Moves /\ c \in open /\ u \in people[c] \ {Bot}
          /\ Sent(Event("message", u, c, None, FALSE))
  BY DEF SlackMessage, SlackOK
<1>2. UNCHANGED <<world, slack, matrixQueue, matrix, bridge, ghostVars, tasks, due, crossed>>
  BY DEF SlackMessage
<1>3. /\ u \in Folk /\ c \in Channel \cap Channels
      /\ Channel' = Channel /\ closed' = closed
  BY <1>1, <1>2 DEF Alive, Channel, SlackOK, GhostsTypeOK, slack
<1>4. world' \in Worlds /\ moved' \in 0..world'.moves
  BY <1>1, <1>2, MovesTypes
<1>5. SlackQueueOK'
  BY <1>1, <1>2, <1>3, SentEventTypes DEF SlackOK, Channel
<1>6. SlackOK'
  BY <1>1, <1>2, <1>3 DEF SlackOK, slack, Channel
<1> QED
  BY <1>2, <1>4, <1>5, <1>6,
     MatrixQueueOKKept, MatrixOKKept, BridgedOKKept, ToSyncOKKept, TasksOKKept, HistoryOKKept,
     GhostsTypeOKKept
     DEF slack, matrix, bridge, queues, ghostVars

LEMMA TellKeepsTypes ==
  ASSUME MatrixQueueOK, NEW type \in {"join", "leave", "botInvite", "botLeave", "botBan"},
         NEW m \in MatrixUsers \cup {None}, NEW c \in Channels, Tell(type, m, c),
         type \in {"join", "leave"} => m \in MatrixUsers
  PROVE  MatrixQueueOK'
<1> DEFINE e == [type |-> type, user |-> m, channel |-> c]
<1>1. e \in MatrixEvents /\ e.type = type /\ e.user = m
  BY DEF MatrixEvents
<1>2. matrixQueue' = Append(matrixQueue, e)
  BY DEF Tell
<1> HIDE DEF e
<1> QED
  BY <1>1, <1>2, AppendFacts DEF MatrixQueueOK

LEMMA MatrixUserMovesTypes == TypeInv /\ MatrixUserMoves => TypeInv'
<1> SUFFICES ASSUME TypeInv, MatrixUserMoves PROVE TypeInv'
  OBVIOUS
<1> USE DEF TypeInv
<1>1. UNCHANGED <<world, slack, slackQueue, ghostsIn, botIn, adminRooms, bridge, ghostVars, tasks,
                  due, crossed>>
  BY DEF MatrixUserMoves
<1>2. world' \in Worlds /\ moved' \in 0..world'.moves
  BY <1>1, MovesTypes DEF MatrixUserMoves
<1>3. MatrixQueueOK'
  BY TellKeepsTypes DEF MatrixUserMoves
<1>4. PICK m \in MatrixUsers, c \in Channels :
         \/ usersIn' = [usersIn EXCEPT ![c] = @ \cup {m}] /\ invited' = invited \ {<<m, c>>}
         \/ usersIn' = [usersIn EXCEPT ![c] = @ \ {m}] /\ UNCHANGED invited
  BY DEF MatrixUserMoves
<1>5. MatrixOK'
  BY <1>1, <1>4 DEF MatrixOK
<1> QED
  BY <1>1, <1>2, <1>3, <1>5, SlackOKKept, SlackQueueOKKept, BridgedOKKept, ToSyncOKKept,
     TasksOKKept, HistoryOKKept, GhostsTypeOKKept DEF slack, bridge

LEMMA BotMovedTypes == TypeInv /\ BotMoved => TypeInv'
<1> SUFFICES ASSUME TypeInv, BotMoved PROVE TypeInv'
  OBVIOUS
<1> USE DEF TypeInv
<1>1. UNCHANGED <<world, slack, slackQueue, ghostsIn, usersIn, invited, adminRooms, bridge,
                  ghostVars, tasks, due, crossed>>
  BY DEF BotMoved
<1>2. world' \in Worlds /\ moved' \in 0..world'.moves
  BY <1>1, MovesTypes DEF BotMoved
<1>3. bridged \subseteq Channels
  BY DEF BridgedOK, SlackOK, Channel
<1>4. MatrixQueueOK'
  BY <1>3, TellKeepsTypes DEF BotMoved
<1>5. MatrixOK'
  BY <1>1 DEF MatrixOK, BotMoved
<1> QED
  BY <1>1, <1>2, <1>4, <1>5, SlackOKKept, SlackQueueOKKept, BridgedOKKept, ToSyncOKKept,
     TasksOKKept, HistoryOKKept, GhostsTypeOKKept DEF slack, bridge

LEMMA RestartTypes == TypeInv /\ Restart => TypeInv'
<1> SUFFICES ASSUME TypeInv, Restart PROVE TypeInv'
  OBVIOUS
<1> USE WorldFacts DEF TypeInv
<1>1. UNCHANGED <<world, slack, matrixQueue, matrix, stored, adminRoom, slackNames, rows,
                  profiles, reverted, due>>
  BY DEF Restart
<1>2. world' \in Worlds /\ moved' \in 0..world'.moves
  BY <1>1, MovesTypes DEF Restart
<1>3. SlackQueueOK'
  <2>1. slackQueue' = slackQueue \/ slackQueue' = <<>>
    BY DEF Restart
  <2>2. CASE slackQueue' = <<>>
    BY <2>2 DEF SlackQueueOK
  <2> QED
    BY <1>1, <2>1, <2>2, SlackQueueOKKept DEF slack
<1>4. TasksOK'
  BY <1>1, IdleOK DEF Restart, TasksOK, TaskOK, Puppet, Channel, slack
<1>5. GhostsTypeOK'
  <2>1. FreshGhost \in Ghosts
    BY DEF FreshGhost, Ghosts
  <2> QED
    BY <1>1, <2>1 DEF GhostsTypeOK, Restart
<1>6. BridgedOK'
  BY <1>1 DEF BridgedOK, Restart, Channel, slack, SlackOK
<1>7. ToSyncOK'
  <2> DEFINE users == {[user |-> u, name |-> slackNames[u], deleted |-> u \in gone] :
                          u \in world.folk}
  <2>1. \/ toSync' = [users |-> users, channels |-> {}, rooms |-> {}, listing |-> TRUE]
        \/ toSync' = [users |-> {}, channels |-> {}, rooms |-> {}, listing |-> TRUE]
    BY DEF Restart
  <2>2. \A u \in world.folk :
           /\ [user |-> u, name |-> slackNames[u], deleted |-> u \in gone] \in Listed
           /\ [user |-> u, name |-> slackNames[u], deleted |-> u \in gone].user \in world.folk
    BY DEF Listed, GhostsTypeOK
  <2>3. users \in SUBSET Listed /\ \A listed \in users : listed.user \in world.folk
    BY <2>2
  <2> HIDE DEF users
  <2>4. PICK us \in {users, {}} :
           toSync' = [users |-> us, channels |-> {}, rooms |-> {}, listing |-> TRUE]
    BY <2>1
  <2>5. us \in SUBSET Listed /\ \A listed \in us : listed.user \in world'.folk
    BY <1>1, <2>3, <2>4
  <2>6. /\ toSync'.users = us /\ toSync'.channels = {} /\ toSync'.rooms = {}
        /\ toSync' \in [users : SUBSET Listed, channels : SUBSET Channels,
                       rooms : SUBSET Channels, listing : BOOLEAN]
    BY <2>4, <2>5
  <2> QED
    BY <2>5, <2>6 DEF ToSyncOK
<1>8. HistoryOK'
  <2>1. \A h \in Handlers : /\ tasks[h].channel \in Channels \cup {None}
                            /\ tasks[h].user \in Folk \cup {None}
                            /\ tasks[h].pc \in {"save", "saveName"} => tasks[h].user \in Folk
    BY DEF TasksOK, Tasks, TaskOK, Stage, InRoom, OfUser
  <2>2. \A i \in DOMAIN slackQueue : /\ slackQueue[i].channel \in Channels \cup {None}
                                     /\ slackQueue[i].user \in Folk \cup {None}
    <3>1. slackQueue \in Seq(SlackEvents)
      BY DEF SlackQueueOK
    <3>2. \A i \in DOMAIN slackQueue : slackQueue[i] \in SlackEvents
      BY <3>1
    <3>3. \A e \in SlackEvents : /\ e.channel \in Channels \cup {None}
                                 /\ e.user \in Folk \cup {None}
      BY DEF SlackEvents
    <3> QED
      BY <3>2, <3>3
  <2> DEFINE lost == IF Happens("rtm") THEN {slackQueue[i] : i \in DOMAIN slackQueue} ELSE {}
  <2>3. \A e \in lost : e.channel \in Channels \cup {None} /\ e.user \in Folk \cup {None}
    BY <2>2
  <2> DEFINE ended == {tasks[h] : h \in Handlers}
  <2>4. \A t \in ended : t.channel \in Channels \cup {None} /\ t.user \in Folk \cup {None}
    BY <2>1
  <2>5. \A e \in toSync.users : e.user \in Folk
    BY DEF ToSyncOK
  <2>6. PICK ending \in SUBSET ended, missed \in SUBSET (lost \cup toSync.users) :
           crossed' = (crossed \cup {t.channel : t \in ended} \cup {t.user : t \in ending}
                          \cup {e.channel : e \in lost} \cup {e.user : e \in missed}) \ {None}
    BY DEF Restart
  <2> HIDE DEF lost, ended
  <2>7. crossed' \subseteq Folk \cup Channels
    BY <2>3, <2>4, <2>5, <2>6 DEF HistoryOK
  <2> QED
    BY <1>1, <2>7 DEF HistoryOK, slack, Expected, Puppet
<1> QED
  BY <1>1, <1>2, <1>3, <1>4, <1>5, <1>6, <1>7, <1>8, SlackOKKept, MatrixQueueOKKept, MatrixOKKept
     DEF slack

LEMMA ListChannelsTypes == TypeInv /\ ListChannels => TypeInv'
<1> SUFFICES ASSUME TypeInv, ListChannels PROVE TypeInv'
  OBVIOUS
<1> USE DEF TypeInv
<1>1. UNCHANGED <<world, slack, queues, matrix, bridged, stored, active, adminRoom, ghostVars,
                  tasks, moved, due, crossed>>
  BY DEF ListChannels
<1>2. PICK cs \in SUBSET open : toSync' = [toSync EXCEPT !.listing = FALSE, !.channels = cs]
  BY DEF ListChannels
<1>3. ToSyncOK'
  BY <1>1, <1>2 DEF ToSyncOK, SlackOK, slack, Channel
<1> QED
  BY <1>1, <1>3, SlackOKKept, SlackQueueOKKept, MatrixQueueOKKept, MatrixOKKept, BridgedOKKept,
     TasksOKKept, HistoryOKKept, GhostsTypeOKKept DEF slack, queues

LEMMA ForgetsTypes == TypeInv /\ Forgets => TypeInv'
<1> SUFFICES ASSUME TypeInv, Forgets PROVE TypeInv'
  OBVIOUS
<1> USE DEF TypeInv
<1>1. UNCHANGED <<world, slack, queues, matrix, bridge, tasks, moved, due, crossed>>
  BY DEF Forgets
<1>2. PICK o \in Objects : InfoExpires(o)
  BY DEF Forgets
<1>3. GhostsTypeOK'
  BY <1>2 DEF InfoExpires, GhostsTypeOK, Ghosts
<1> QED
  BY <1>1, <1>3, SlackOKKept, SlackQueueOKKept, MatrixQueueOKKept, MatrixOKKept, BridgedOKKept,
     ToSyncOKKept, TasksOKKept, HistoryOKKept DEF slack, queues, bridge

\* What is known of a handler at work.
LEMMA TaskFacts ==
  ASSUME TypeInv, NEW h \in Handlers
  PROVE  /\ tasks[h] \in Tasks /\ TaskOK(tasks[h], Channel)
         /\ tasks[h].user \in Folk \cup {None} /\ tasks[h].channel \in Channels \cup {None}
         /\ tasks[h].folk \subseteq Folk /\ tasks[h].rooms \subseteq Channels
         /\ tasks[h].object \in Objects \cup {None} /\ tasks[h].name \in Names \cup {None}
         /\ tasks[h].mx \in MatrixUsers \cup {None}
         /\ tasks[h].row \in Names \cup {Unnamed, NoRow}
         /\ tasks[h].flag \in BOOLEAN /\ tasks[h].next \in Pcs
         /\ Channel \subseteq Channels /\ bridged \subseteq Channel
  BY DEF TypeInv, TasksOK, Tasks, SlackOK, BridgedOK, Channel

LEMMA NewObjectFree == CanMake => NewObject \in Objects /\ Free(NewObject)
  BY DEF CanMake, NewObject

\* The steps of GhostStore.
LEMMA GhostStoreTypes ==
  ASSUME GhostsTypeOK, NEW u \in Folk, NEW o \in Objects
  PROVE  /\ ghosts[o].info \in Names \cup {None} /\ slackNames[u] \in Names
         /\ \A row \in Names \cup {Unnamed, NoRow} : MakeGhost(u, row, o) => GhostsTypeOK'
         /\ ExistingGhost(u, o) => GhostsTypeOK'
         /\ BeginUpdate(o) => GhostsTypeOK'
         /\ Answered(u, o) => GhostsTypeOK'
         /\ NotAnswered(o) => GhostsTypeOK'
         /\ EndUpdate(o) => GhostsTypeOK'
         /\ \A n \in Names : NameGhost(o, n) => GhostsTypeOK'
         /\ \A n \in Names : \A b \in BOOLEAN : SaveGhost(u, o, n, b) => GhostsTypeOK'
<1> USE DEF GhostsTypeOK
<1>1. ghosts[o] \in Ghosts /\ ghosts[o].info \in Names \cup {None} /\ slackNames[u] \in Names
  BY DEF Ghosts
<1>2. \A r \in Names \cup {Unnamed, NoRow} : FromRow(r) \in Ghosts
  BY DEF FromRow, FreshGhost, Ghosts
<1>3. /\ [ghosts[o] EXCEPT !.busy = TRUE] \in Ghosts
      /\ [ghosts[o] EXCEPT !.info = slackNames[u]] \in Ghosts
      /\ [ghosts[o] EXCEPT !.stuck = TRUE, !.busy = FALSE] \in Ghosts
      /\ [ghosts[o] EXCEPT !.busy = FALSE] \in Ghosts
      /\ \A n \in Names : [ghosts[o] EXCEPT !.name = n] \in Ghosts
      /\ \A b \in BOOLEAN, n \in Names : [ghosts[o] EXCEPT !.name = n, !.busy = b] \in Ghosts
  BY <1>1 DEF Ghosts
<1>4. ghosts[o].busy \in BOOLEAN
  BY <1>1 DEF Ghosts
<1>5. \A g \in Ghosts : [ghosts EXCEPT ![o] = g] \in [Objects -> Ghosts]
  OBVIOUS
<1>6. \A row \in Names \cup {Unnamed, NoRow} : MakeGhost(u, row, o) => GhostsTypeOK'
  BY <1>2, <1>5 DEF MakeGhost
<1>7. ExistingGhost(u, o) => GhostsTypeOK'
  BY <1>2, <1>5 DEF ExistingGhost
<1>8. BeginUpdate(o) => GhostsTypeOK'
  BY <1>3, <1>5 DEF BeginUpdate
<1>9. Answered(u, o) => GhostsTypeOK'
  BY <1>3, <1>5 DEF Answered
<1>10. NotAnswered(o) => GhostsTypeOK'
  BY <1>3, <1>5 DEF NotAnswered
<1>11. ASSUME NEW n \in Names, NEW updated \in BOOLEAN, SaveGhost(u, o, n, updated)
       PROVE  GhostsTypeOK'
  <2>3. ghosts' = [ghosts EXCEPT ![o] = [ghosts[o] EXCEPT !.name = n,
                                                          !.busy = ghosts[o].busy /\ ~updated]]
    BY <1>11 DEF SaveGhost
  <2>4. rows' = [rows EXCEPT ![u] = n]
    BY <1>11 DEF SaveGhost, RowNamed
  <2>5. UNCHANGED <<slackNames, cache, profiles, reverted>>
    BY <1>11 DEF SaveGhost
  <2> QED
    BY <1>3, <1>4, <1>5, <2>3, <2>4, <2>5
<1>12. EndUpdate(o) => GhostsTypeOK'
  BY <1>3, <1>5 DEF EndUpdate
<1>13. \A n \in Names : NameGhost(o, n) => GhostsTypeOK'
  BY <1>3, <1>5 DEF NameGhost
<1> QED
  BY <1>1, <1>6, <1>7, <1>8, <1>9, <1>10, <1>11, <1>12, <1>13

-----------------------------------------------------------------------------
(* What the steps of a handler do, said without the records *)

\* A step of one handler.
Turn(h) == tasks' \in [Handlers -> Tasks] /\ \A g \in Handlers \ {h} : tasks'[g] = tasks[g]

\* A handler goes on about what it was about.
Continued(t, s) ==
    /\ t.user = s.user /\ t.channel = s.channel /\ t.mx = s.mx
    /\ t.flag = s.flag /\ t.synced = s.synced

LEMMA TurnDoes ==
  ASSUME TypeInv, NEW h \in Handlers, NEW t \in Tasks, Start(h, t)
  PROVE  Turn(h) /\ tasks'[h] = t
  BY StartDoes DEF Turn, TypeInv

LEMMA TurnKeepsTypes ==
  ASSUME TasksOK, NEW h \in Handlers, Turn(h), TaskOK(tasks'[h], Channel),
         UNCHANGED <<world, open, closed>>
  PROVE  TasksOK'
<1>1. Channel' = Channel
  BY DEF Channel
<1>2. \A g \in Handlers : TaskOK(tasks'[g], Channel)
  BY DEF TasksOK, Turn
<1> QED
  BY <1>1, <1>2 DEF TasksOK, TaskOK, Puppet, Turn

LEMMA LookGhostDoes ==
  ASSUME TypeInv, NEW h \in Handlers, LookGhost(h)
  PROVE  LET s == tasks[h]
             t == tasks'[h]
         IN
         /\ Turn(h)
         /\ UNCHANGED <<world, slack, queues, matrix, bridge, ghostVars, moved, due, crossed>>
         /\ s.pc = "get" /\ s.user \in Folk /\ s.next \in Ways \cup {"update", "bridge"}
         /\ Continued(t, s) /\ t.pc = (IF cache[s.user] # None THEN s.next ELSE "make")
         /\ t.object = cache[s.user] /\ t.row = rows[s.user] /\ t.next = s.next
         /\ t.name = s.name /\ t.folk = s.folk /\ t.rooms = s.rooms
<1> DEFINE s == tasks[h]
<1> DEFINE new == [s EXCEPT !.pc = (IF cache[s.user] # None THEN s.next ELSE "make"),
                           !.object = cache[s.user],
                           !.row = rows[s.user]]
<1>1. /\ s.pc = "get"
      /\ UNCHANGED <<world, slack, queues, matrix, bridge, ghostVars, moved, due, crossed>>
      /\ Start(h, new)
  BY DEF LookGhost, At, To, Done
<1>2. /\ s.user \in Folk
      /\ s.next \in Ways \cup {"update", "bridge"}
      /\ s \in Tasks
  BY <1>1, TaskFacts, WorldFacts DEF TaskOK, Stage, InRoom, OfUser, OfChannel, OfMatrix, Ways
<1>3. /\ (IF cache[s.user] # None THEN s.next ELSE "make") \in Pcs
      /\ cache[s.user] \in Objects \cup {None}
      /\ rows[s.user] \in Names \cup {Unnamed, NoRow}
  BY <1>2, TaskFacts, NewObjectFree DEF Pcs, Ways, TypeInv, GhostsTypeOK, Ghosts, MatrixOK,
     SlackOK, RoomsOf
<1>4. /\ new \in Tasks /\ Continued(new, s)
      /\ new.pc = (IF cache[s.user] # None THEN s.next ELSE "make")
      /\ new.object = cache[s.user] /\ new.row = rows[s.user] /\ new.next = s.next
      /\ new.name = s.name /\ new.folk = s.folk /\ new.rooms = s.rooms
  BY <1>2, <1>3 DEF Tasks, Continued
<1> HIDE DEF new
<1> QED
  BY <1>1, <1>2, <1>4, TurnDoes, IdleOK

LEMMA GetGhostDoes ==
  ASSUME TypeInv, NEW h \in Handlers, GetGhost(h)
  PROVE  LET s == tasks[h]
             t == tasks'[h]
         IN
         /\ Turn(h)
         /\ UNCHANGED <<world, slack, queues, matrix, bridge, moved, due, crossed>>
         /\ s.pc = "make" /\ s.user \in Folk /\ s.next \in Ways \cup {"update", "bridge"}
         /\ CanMake /\ MakeGhost(s.user, s.row, NewObject)
         /\ Continued(t, s) /\ t.pc = s.next /\ t.object = NewObject /\ t.next = s.next
         /\ t.name = s.name /\ t.row = s.row /\ t.folk = s.folk /\ t.rooms = s.rooms
<1> DEFINE s == tasks[h]
<1> DEFINE new == [s EXCEPT !.pc = s.next, !.object = NewObject]
<1>1. /\ s.pc = "make"
      /\ UNCHANGED <<world, slack, queues, matrix, bridge, moved, due, crossed>>
      /\ CanMake /\ MakeGhost(s.user, s.row, NewObject)
      /\ Start(h, new)
  BY DEF GetGhost, At, To, Done
<1>2. /\ s.user \in Folk
      /\ s.next \in Ways \cup {"update", "bridge"}
      /\ s \in Tasks
  BY <1>1, TaskFacts, WorldFacts DEF TaskOK, Stage, InRoom, OfUser, OfChannel, OfMatrix, Ways
<1>3. CanMake => 
      /\ s.next \in Pcs
      /\ NewObject \in Objects \cup {None}
  BY <1>2, TaskFacts, NewObjectFree DEF Pcs, Ways, TypeInv, GhostsTypeOK, Ghosts, MatrixOK,
     SlackOK, RoomsOf
<1>4. CanMake => 
      /\ new \in Tasks /\ Continued(new, s) /\ new.pc = s.next /\ new.object = NewObject
      /\ new.next = s.next /\ new.name = s.name /\ new.row = s.row /\ new.folk = s.folk
      /\ new.rooms = s.rooms
  BY <1>2, <1>3 DEF Tasks, Continued
<1> HIDE DEF new
<1> QED
  BY <1>1, <1>2, <1>4, TurnDoes, IdleOK

\* A call fails, and the handler is done.
LEMMA CallFailsDoes ==
  ASSUME TypeInv, NEW h \in Handlers, CallFails(h)
  PROVE  LET s == tasks[h]
             t == tasks'[h]
         IN
         /\ Turn(h)
         /\ UNCHANGED <<world, slack, queues, matrix, bridge, ghostVars, moved>>
         /\ s.pc \in Calls /\ s.next # "bridge" /\ TaskOK(s, Channel)
         /\ due' = {d \in due : ~Joining(s, d)}
         /\ crossed' = IF Syncing(s) THEN crossed \cup {s.user} ELSE crossed
         /\ t = Idle
<1>1. Start(h, Idle)
  BY DEF CallFails, Done
<1> QED
  BY <1>1, TaskFacts, TurnDoes, IdleOK DEF CallFails

LEMMA GhostJoinsDoes ==
  ASSUME TypeInv, NEW h \in Handlers, GhostJoins(h)
  PROVE  LET s == tasks[h]
             t == tasks'[h]
         IN
         /\ Turn(h)
         /\ UNCHANGED <<world, slack, queues, usersIn, botIn, adminRooms, bridge, ghostVars, moved,
                       due, crossed>>
         /\ s.pc \in {"join", "inviteAs"}
         /\ s.user \in Folk /\ s.channel \in Channel /\ s.channel \in Channels
         /\ s.pc = "inviteAs" => Puppet(s.user) \in MatrixUsers
         /\ ghostsIn' = [ghostsIn EXCEPT ![s.channel] = @ \cup {s.user}]
         /\ \/ UNCHANGED invited
            \/ /\ s.pc = "inviteAs"
               /\ invited' = invited \cup ({<<Puppet(s.user), s.channel>>}
                                             \ (usersIn[s.channel] \X {s.channel}))
         /\ t = Idle
<1> DEFINE s == tasks[h]
<1>1. /\ s.pc \in {"join", "inviteAs"}
      /\ UNCHANGED <<world, slack, queues, usersIn, botIn, adminRooms, bridge, ghostVars, moved,
                    due, crossed>>
      /\ ghostsIn' = [ghostsIn EXCEPT ![s.channel] = @ \cup {s.user}]
      /\ \/ UNCHANGED invited
            \/ /\ s.pc = "inviteAs"
               /\ invited' = invited \cup ({<<Puppet(s.user), s.channel>>}
                                             \ (usersIn[s.channel] \X {s.channel}))
      /\ Start(h, Idle)
  BY DEF GhostJoins, At, To, Done
<1>2. /\ s.user \in Folk /\ s.channel \in Channel /\ s.channel \in Channels
      /\ s \in Tasks
  BY <1>1, TaskFacts, WorldFacts DEF TaskOK, Stage, InRoom, OfUser, OfChannel, OfMatrix
<1>3. s.pc = "inviteAs" => Puppet(s.user) \in MatrixUsers
  <2>1. Puppet(s.user) \in MatrixUsers \cup {None}
    BY <1>2, WorldFacts DEF TypeInv
  <2>2. s.pc \in {"inviteUser", "inviteAs"} => Puppet(s.user) # None
    BY TaskFacts DEF TaskOK, Stage
  <2> QED
    BY <1>1, <2>1, <2>2
<1> QED
  BY <1>1, <1>2, <1>3, TurnDoes, IdleOK

LEMMA BotInvitesDoes ==
  ASSUME TypeInv, NEW h \in Handlers, BotInvites(h)
  PROVE  LET s == tasks[h]
             t == tasks'[h]
         IN
         /\ Turn(h)
         /\ UNCHANGED <<world, slack, queues, ghostsIn, usersIn, botIn, adminRooms, bridge,
                       ghostVars, moved, due, crossed>>
         /\ s.pc = "inviteUser"
         /\ s.user \in Folk /\ s.channel \in Channel /\ s.channel \in Channels
         /\ Puppet(s.user) \in MatrixUsers
         /\ invited' \in {invited, invited \cup {<<Puppet(s.user), s.channel>>}}
         /\ t = Idle
<1> DEFINE s == tasks[h]
<1>1. /\ s.pc = "inviteUser"
      /\ UNCHANGED <<world, slack, queues, ghostsIn, usersIn, botIn, adminRooms, bridge, ghostVars,
                    moved, due, crossed>>
      /\ invited' \in {invited, invited \cup {<<Puppet(s.user), s.channel>>}}
      /\ Start(h, Idle)
  BY DEF BotInvites, At, To, Done
<1>2. /\ s.user \in Folk /\ s.channel \in Channel /\ s.channel \in Channels
      /\ s \in Tasks
  BY <1>1, TaskFacts, WorldFacts DEF TaskOK, Stage, InRoom, OfUser, OfChannel, OfMatrix
<1>3. Puppet(s.user) \in MatrixUsers
  <2>1. Puppet(s.user) \in MatrixUsers \cup {None}
    BY <1>2, WorldFacts DEF TypeInv
  <2>2. s.pc \in {"inviteUser", "inviteAs"} => Puppet(s.user) # None
    BY TaskFacts DEF TaskOK, Stage
  <2> QED
    BY <1>1, <2>1, <2>2
<1> QED
  BY <1>1, <1>2, <1>3, TurnDoes, IdleOK

LEMMA GhostLeavesDoes ==
  ASSUME TypeInv, NEW h \in Handlers, GhostLeaves(h)
  PROVE  LET s == tasks[h]
             t == tasks'[h]
         IN
         /\ Turn(h)
         /\ UNCHANGED <<world, slack, queues, usersIn, botIn, invited, adminRooms, bridge,
                       ghostVars, moved, due, crossed>>
         /\ s.pc = "leave"
         /\ s.user \in Folk /\ s.channel \in Channel /\ s.channel \in Channels
         /\ ghostsIn' = [ghostsIn EXCEPT ![s.channel] = @ \ {s.user}]
         /\ t = Idle
<1> DEFINE s == tasks[h]
<1>1. /\ s.pc = "leave"
      /\ UNCHANGED <<world, slack, queues, usersIn, botIn, invited, adminRooms, bridge, ghostVars,
                    moved, due, crossed>>
      /\ ghostsIn' = [ghostsIn EXCEPT ![s.channel] = @ \ {s.user}]
      /\ Start(h, Idle)
  BY DEF GhostLeaves, At, To, Done
<1>2. /\ s.user \in Folk /\ s.channel \in Channel /\ s.channel \in Channels
      /\ s \in Tasks
  BY <1>1, TaskFacts, WorldFacts DEF TaskOK, Stage, InRoom, OfUser, OfChannel, OfMatrix
<1> QED
  BY <1>1, <1>2, TurnDoes, IdleOK

LEMMA LookUpdateDoes ==
  ASSUME TypeInv, NEW h \in Handlers, LookUpdate(h)
  PROVE  LET s == tasks[h]
             t == tasks'[h]
         IN
         /\ Turn(h)
         /\ UNCHANGED <<world, slack, queues, matrix, bridge, moved, due, crossed>>
         /\ s.pc = "message"
         /\ s.user \in Folk /\ s.channel \in Channel /\ s.channel \in Channels
         /\ s.object \in Objects
         /\ \/ /\ UNCHANGED ghostVars /\ Continued(t, s) /\ t.pc = "send" /\ t.next = s.next
               /\ t.name = s.name /\ t.object = s.object /\ t.row = s.row /\ t.folk = s.folk
               /\ t.rooms = s.rooms
            \/ /\ BeginUpdate(s.object) /\ Continued(t, s)
               /\ t.pc = (IF ghosts[s.object].info = None THEN "ask" ELSE "ensure")
               /\ t.name = ghosts[s.object].info /\ t.next = s.next /\ t.object = s.object
               /\ t.row = s.row /\ t.folk = s.folk /\ t.rooms = s.rooms
<1> DEFINE s == tasks[h]
<1> DEFINE new1 == [s EXCEPT !.pc = "send"]
<1> DEFINE new2 == [s EXCEPT !.pc = (IF ghosts[s.object].info = None THEN "ask" ELSE "ensure"),
                            !.name = ghosts[s.object].info]
<1>1. /\ s.pc = "message"
      /\ UNCHANGED <<world, slack, queues, matrix, bridge, moved, due, crossed>>
      /\ \/ Start(h, new1) /\ UNCHANGED ghostVars
         \/ BeginUpdate(s.object) /\ Start(h, new2)
  BY DEF LookUpdate, At, To, Done
<1>2. /\ s.user \in Folk /\ s.channel \in Channel /\ s.channel \in Channels
      /\ s.object \in Objects
      /\ s \in Tasks
  BY <1>1, TaskFacts, WorldFacts DEF TaskOK, Stage, InRoom, OfUser, OfChannel, OfMatrix
<1>3. /\ "send" \in Pcs
  BY <1>2, TaskFacts, NewObjectFree DEF Pcs, Ways, TypeInv, GhostsTypeOK, Ghosts, MatrixOK,
     SlackOK, RoomsOf
<1>4. /\ new1 \in Tasks /\ Continued(new1, s) /\ new1.pc = "send" /\ new1.next = s.next
      /\ new1.name = s.name /\ new1.object = s.object /\ new1.row = s.row
      /\ new1.folk = s.folk /\ new1.rooms = s.rooms
  BY <1>2, <1>3 DEF Tasks, Continued
<1>5. /\ (IF ghosts[s.object].info = None THEN "ask" ELSE "ensure") \in Pcs
      /\ ghosts[s.object].info \in Names \cup {None}
  BY <1>2, TaskFacts, NewObjectFree DEF Pcs, Ways, TypeInv, GhostsTypeOK, Ghosts, MatrixOK,
     SlackOK, RoomsOf
<1>6. /\ new2 \in Tasks /\ Continued(new2, s)
      /\ new2.pc = (IF ghosts[s.object].info = None THEN "ask" ELSE "ensure")
      /\ new2.name = ghosts[s.object].info /\ new2.next = s.next /\ new2.object = s.object
      /\ new2.row = s.row /\ new2.folk = s.folk /\ new2.rooms = s.rooms
  BY <1>2, <1>5 DEF Tasks, Continued
<1> HIDE DEF new1, new2
<1> QED
  BY <1>1, <1>2, <1>4, <1>6, TurnDoes, IdleOK

LEMMA AskSlackDoes ==
  ASSUME TypeInv, NEW h \in Handlers, AskSlack(h)
  PROVE  LET s == tasks[h]
             t == tasks'[h]
         IN
         /\ Turn(h)
         /\ UNCHANGED <<world, slack, queues, matrix, bridge, moved, due, crossed>>
         /\ s.pc = "ask" /\ s.user \in Folk /\ s.channel \in Channel /\ s.channel \in Channels
         /\ s.object \in Objects
         /\ \/ /\ Answered(s.user, s.object) /\ Continued(t, s) /\ t.pc = "ensure"
               /\ t.name = slackNames[s.user] /\ t.next = s.next /\ t.object = s.object
               /\ t.row = s.row /\ t.folk = s.folk /\ t.rooms = s.rooms
            \/ /\ NotAnswered(s.object) /\ Continued(t, s) /\ t.pc = "send" /\ t.next = s.next
               /\ t.name = s.name /\ t.object = s.object /\ t.row = s.row /\ t.folk = s.folk
               /\ t.rooms = s.rooms
<1> DEFINE s == tasks[h]
<1> DEFINE new1 == [s EXCEPT !.pc = "ensure", !.name = slackNames[s.user]]
<1> DEFINE new2 == [s EXCEPT !.pc = "send"]
<1>1. /\ s.pc = "ask"
      /\ UNCHANGED <<world, slack, queues, matrix, bridge, moved, due, crossed>>
      /\ \/ Answered(s.user, s.object) /\ Start(h, new1)
         \/ NotAnswered(s.object) /\ Start(h, new2)
  BY DEF AskSlack, At, To, Done
<1>2. /\ s.user \in Folk /\ s.channel \in Channel /\ s.channel \in Channels
      /\ s.object \in Objects
      /\ s \in Tasks
  BY <1>1, TaskFacts, WorldFacts DEF TaskOK, Stage, InRoom, OfUser, OfChannel, OfMatrix
<1>3. /\ "ensure" \in Pcs
      /\ slackNames[s.user] \in Names \cup {None}
  BY <1>2, TaskFacts, NewObjectFree DEF Pcs, Ways, TypeInv, GhostsTypeOK, Ghosts, MatrixOK,
     SlackOK, RoomsOf
<1>4. /\ new1 \in Tasks /\ Continued(new1, s) /\ new1.pc = "ensure"
      /\ new1.name = slackNames[s.user] /\ new1.next = s.next /\ new1.object = s.object
      /\ new1.row = s.row /\ new1.folk = s.folk /\ new1.rooms = s.rooms
  BY <1>2, <1>3 DEF Tasks, Continued
<1>5. /\ "send" \in Pcs
  BY <1>2, TaskFacts, NewObjectFree DEF Pcs, Ways, TypeInv, GhostsTypeOK, Ghosts, MatrixOK,
     SlackOK, RoomsOf
<1>6. /\ new2 \in Tasks /\ Continued(new2, s) /\ new2.pc = "send" /\ new2.next = s.next
      /\ new2.name = s.name /\ new2.object = s.object /\ new2.row = s.row
      /\ new2.folk = s.folk /\ new2.rooms = s.rooms
  BY <1>2, <1>5 DEF Tasks, Continued
<1> HIDE DEF new1, new2
<1> QED
  BY <1>1, <1>2, <1>4, <1>6, TurnDoes, IdleOK

LEMMA WriteProfileDoes ==
  ASSUME TypeInv, NEW h \in Handlers, WriteProfile(h)
  PROVE  LET s == tasks[h]
             t == tasks'[h]
         IN
         /\ Turn(h)
         /\ UNCHANGED <<world, slack, queues, matrix, bridge, moved, due, crossed>>
         /\ s.pc = "ensure"
         /\ s.user \in Folk /\ s.channel \in Channel /\ s.channel \in Channels
         /\ s.object \in Objects /\ s.name \in Names
         /\ \/ /\ EnsureProfile(s.user, s.name) /\ Continued(t, s) /\ t.pc = "saveName"
               /\ t.next = s.next /\ t.name = s.name /\ t.object = s.object /\ t.row = s.row
               /\ t.folk = s.folk /\ t.rooms = s.rooms
            \/ /\ EndUpdate(s.object) /\ Continued(t, s) /\ t.pc = "send" /\ t.next = s.next
               /\ t.name = s.name /\ t.object = s.object /\ t.row = s.row /\ t.folk = s.folk
               /\ t.rooms = s.rooms
<1> DEFINE s == tasks[h]
<1> DEFINE new1 == [s EXCEPT !.pc = "saveName"]
<1> DEFINE new2 == [s EXCEPT !.pc = "send"]
<1>1. /\ s.pc = "ensure"
      /\ UNCHANGED <<world, slack, queues, matrix, bridge, moved, due, crossed>>
      /\ \/ EnsureProfile(s.user, s.name) /\ Start(h, new1)
         \/ EndUpdate(s.object) /\ Start(h, new2)
  BY DEF WriteProfile, At, To, Done
<1>2. /\ s.user \in Folk /\ s.channel \in Channel /\ s.channel \in Channels
      /\ s.object \in Objects
      /\ s.name \in Names
      /\ s \in Tasks
  BY <1>1, TaskFacts, WorldFacts DEF TaskOK, Stage, InRoom, OfUser, OfChannel, OfMatrix
<1>3. /\ "saveName" \in Pcs
  BY <1>2, TaskFacts, NewObjectFree DEF Pcs, Ways, TypeInv, GhostsTypeOK, Ghosts, MatrixOK,
     SlackOK, RoomsOf
<1>4. /\ new1 \in Tasks /\ Continued(new1, s) /\ new1.pc = "saveName" /\ new1.next = s.next
      /\ new1.name = s.name /\ new1.object = s.object /\ new1.row = s.row
      /\ new1.folk = s.folk /\ new1.rooms = s.rooms
  BY <1>2, <1>3 DEF Tasks, Continued
<1>5. /\ "send" \in Pcs
  BY <1>2, TaskFacts, NewObjectFree DEF Pcs, Ways, TypeInv, GhostsTypeOK, Ghosts, MatrixOK,
     SlackOK, RoomsOf
<1>6. /\ new2 \in Tasks /\ Continued(new2, s) /\ new2.pc = "send" /\ new2.next = s.next
      /\ new2.name = s.name /\ new2.object = s.object /\ new2.row = s.row
      /\ new2.folk = s.folk /\ new2.rooms = s.rooms
  BY <1>2, <1>5 DEF Tasks, Continued
<1> HIDE DEF new1, new2
<1> QED
  BY <1>1, <1>2, <1>4, <1>6, TurnDoes, IdleOK

LEMMA SaveNameDoes ==
  ASSUME TypeInv, NEW h \in Handlers, SaveName(h)
  PROVE  LET s == tasks[h]
             t == tasks'[h]
         IN
         /\ Turn(h)
         /\ UNCHANGED <<world, slack, queues, matrix, bridge, moved, due, crossed>>
         /\ s.pc \in {"saveName", "save"} /\ s.user \in Folk /\ s.object \in Objects
         /\ s.name \in Names
         /\ SaveGhost(s.user, s.object, s.name, s.pc = "saveName")
         /\ \/ /\ s.pc = "saveName" /\ Continued(t, s) /\ t.pc = "send" /\ t.next = s.next
               /\ t.name = s.name /\ t.object = s.object /\ t.row = s.row /\ t.folk = s.folk
               /\ t.rooms = s.rooms
            \/ s.pc = "save" /\ t = Idle
<1> DEFINE s == tasks[h]
<1> DEFINE new == [s EXCEPT !.pc = "send"]
<1>1. /\ s.pc \in {"saveName", "save"}
      /\ UNCHANGED <<world, slack, queues, matrix, bridge, moved, due, crossed>>
      /\ SaveGhost(s.user, s.object, s.name, s.pc = "saveName")
      /\ \/ s.pc = "saveName" /\ Start(h, new)
         \/ s.pc = "save" /\ Start(h, Idle)
  BY DEF SaveName, At, To, Done
<1>2. /\ s.user \in Folk
      /\ s.object \in Objects
      /\ s.name \in Names
      /\ s \in Tasks
  BY <1>1, TaskFacts, WorldFacts DEF TaskOK, Stage, InRoom, OfUser, OfChannel, OfMatrix
<1>3. /\ "send" \in Pcs
  BY <1>2, TaskFacts, NewObjectFree DEF Pcs, Ways, TypeInv, GhostsTypeOK, Ghosts, MatrixOK,
     SlackOK, RoomsOf
<1>4. /\ new \in Tasks /\ Continued(new, s) /\ new.pc = "send" /\ new.next = s.next
      /\ new.name = s.name /\ new.object = s.object /\ new.row = s.row /\ new.folk = s.folk
      /\ new.rooms = s.rooms
  BY <1>2, <1>3 DEF Tasks, Continued
<1> HIDE DEF new
<1> QED
  BY <1>1, <1>2, <1>4, TurnDoes, IdleOK

LEMMA SendMessageDoes ==
  ASSUME TypeInv, NEW h \in Handlers, SendMessage(h)
  PROVE  LET s == tasks[h]
             t == tasks'[h]
         IN
         /\ Turn(h)
         /\ UNCHANGED <<world, slack, queues, usersIn, botIn, invited, adminRooms, bridge,
                       ghostVars, moved, due, crossed>>
         /\ s.pc = "send" /\ s.user \in Folk /\ s.channel \in Channel /\ s.channel \in Channels
         /\ ghostsIn' = [ghostsIn EXCEPT ![s.channel] = @ \cup {s.user}]
         /\ t = Idle
<1> DEFINE s == tasks[h]
<1>1. /\ s.pc = "send"
      /\ UNCHANGED <<world, slack, queues, usersIn, botIn, invited, adminRooms, bridge, ghostVars,
                    moved, due, crossed>>
      /\ ghostsIn' = [ghostsIn EXCEPT ![s.channel] = @ \cup {s.user}]
      /\ Start(h, Idle)
  BY DEF SendMessage, At, To, Done
<1>2. /\ s.user \in Folk /\ s.channel \in Channel /\ s.channel \in Channels
      /\ s \in Tasks
  BY <1>1, TaskFacts, WorldFacts DEF TaskOK, Stage, InRoom, OfUser, OfChannel, OfMatrix
<1> QED
  BY <1>1, <1>2, TurnDoes, IdleOK

LEMMA FindExistingDoes ==
  ASSUME TypeInv, NEW h \in Handlers, FindExisting(h)
  PROVE  LET s == tasks[h]
             t == tasks'[h]
         IN
         /\ Turn(h)
         /\ UNCHANGED <<world, slack, queues, matrix, bridge, moved, due, crossed>>
         /\ s.pc = "existing" /\ s.user \in Folk /\ s.name \in Names /\ s.channel = None
         /\ \/ rows[s.user] = NoRow /\ s.flag /\ UNCHANGED ghostVars /\ t = Idle
            \/ /\ rows[s.user] = NoRow /\ ~s.flag /\ UNCHANGED ghostVars /\ Continued(t, s)
               /\ t.pc = "get" /\ t.next = "update" /\ t.name = s.name /\ t.object = s.object
               /\ t.row = s.row /\ t.folk = s.folk /\ t.rooms = s.rooms
            \/ /\ rows[s.user] # NoRow /\ CanMake /\ ExistingGhost(s.user, NewObject)
               /\ Continued(t, s) /\ t.pc = (IF s.flag THEN "hide" ELSE "update")
               /\ t.object = NewObject /\ t.next = s.next /\ t.name = s.name /\ t.row = s.row
               /\ t.folk = s.folk /\ t.rooms = s.rooms
<1> DEFINE s == tasks[h]
<1> DEFINE new2 == [s EXCEPT !.pc = "get", !.next = "update"]
<1> DEFINE new3 == [s EXCEPT !.pc = (IF s.flag THEN "hide" ELSE "update"), !.object = NewObject]
<1>1. /\ s.pc = "existing"
      /\ UNCHANGED <<world, slack, queues, matrix, bridge, moved, due, crossed>>
      /\ \/ rows[s.user] = NoRow /\ s.flag /\ Start(h, Idle) /\ UNCHANGED ghostVars
         \/ rows[s.user] = NoRow /\ ~s.flag /\ Start(h, new2) /\ UNCHANGED ghostVars
         \/ /\ rows[s.user] # NoRow /\ CanMake
            /\ Start(h, new3)
            /\ ExistingGhost(s.user, NewObject)
  BY DEF FindExisting, At, To, Done
<1>2. /\ s.user \in Folk
      /\ s.name \in Names
      /\ s.channel = None
      /\ s \in Tasks
  BY <1>1, TaskFacts, WorldFacts DEF TaskOK, Stage, InRoom, OfUser, OfChannel, OfMatrix
<1>3. /\ "get" \in Pcs
      /\ "update" \in Pcs
  BY <1>2, TaskFacts, NewObjectFree DEF Pcs, Ways, TypeInv, GhostsTypeOK, Ghosts, MatrixOK,
     SlackOK, RoomsOf
<1>4. /\ new2 \in Tasks /\ Continued(new2, s) /\ new2.pc = "get" /\ new2.next = "update"
      /\ new2.name = s.name /\ new2.object = s.object /\ new2.row = s.row
      /\ new2.folk = s.folk /\ new2.rooms = s.rooms
  BY <1>2, <1>3 DEF Tasks, Continued
<1>5. CanMake => 
      /\ (IF s.flag THEN "hide" ELSE "update") \in Pcs
      /\ NewObject \in Objects \cup {None}
  BY <1>2, TaskFacts, NewObjectFree DEF Pcs, Ways, TypeInv, GhostsTypeOK, Ghosts, MatrixOK,
     SlackOK, RoomsOf
<1>6. CanMake => 
      /\ new3 \in Tasks /\ Continued(new3, s)
      /\ new3.pc = (IF s.flag THEN "hide" ELSE "update") /\ new3.object = NewObject
      /\ new3.next = s.next /\ new3.name = s.name /\ new3.row = s.row /\ new3.folk = s.folk
      /\ new3.rooms = s.rooms
  BY <1>2, <1>5 DEF Tasks, Continued
<1> HIDE DEF new2, new3
<1> QED
  BY <1>1, <1>2, <1>4, <1>6, TurnDoes, IdleOK

LEMMA UpdateUserDoes ==
  ASSUME TypeInv, NEW h \in Handlers, UpdateUser(h)
  PROVE  LET s == tasks[h]
             t == tasks'[h]
         IN
         /\ Turn(h)
         /\ UNCHANGED <<world, slack, queues, matrix, bridge, moved, due, crossed>>
         /\ s.pc = "update" /\ s.user \in Folk /\ s.object \in Objects /\ s.name \in Names
         /\ s.channel = None
         /\ \/ /\ ghosts[s.object].name # s.name /\ SetDisplayName(s.user, s.name)
               /\ Continued(t, s) /\ t.pc = "save" /\ t.next = s.next /\ t.name = s.name
               /\ t.object = s.object /\ t.row = s.row /\ t.folk = s.folk /\ t.rooms = s.rooms
            \/ ghosts[s.object].name = s.name /\ UNCHANGED ghostVars /\ t = Idle
<1> DEFINE s == tasks[h]
<1> DEFINE new == [s EXCEPT !.pc = "save"]
<1>1. /\ s.pc = "update"
      /\ UNCHANGED <<world, slack, queues, matrix, bridge, moved, due, crossed>>
      /\ \/ ghosts[s.object].name # s.name /\ Start(h, new) /\ SetDisplayName(s.user, s.name)
         \/ ghosts[s.object].name = s.name /\ Start(h, Idle) /\ UNCHANGED ghostVars
  BY DEF UpdateUser, At, To, Done
<1>2. /\ s.user \in Folk
      /\ s.object \in Objects
      /\ s.name \in Names
      /\ s.channel = None
      /\ s \in Tasks
  BY <1>1, TaskFacts, WorldFacts DEF TaskOK, Stage, InRoom, OfUser, OfChannel, OfMatrix
<1>3. /\ "save" \in Pcs
  BY <1>2, TaskFacts, NewObjectFree DEF Pcs, Ways, TypeInv, GhostsTypeOK, Ghosts, MatrixOK,
     SlackOK, RoomsOf
<1>4. /\ new \in Tasks /\ Continued(new, s) /\ new.pc = "save" /\ new.next = s.next
      /\ new.name = s.name /\ new.object = s.object /\ new.row = s.row /\ new.folk = s.folk
      /\ new.rooms = s.rooms
  BY <1>2, <1>3 DEF Tasks, Continued
<1> HIDE DEF new
<1> QED
  BY <1>1, <1>2, <1>4, TurnDoes, IdleOK

LEMMA AvatarFailsDoes ==
  ASSUME TypeInv, NEW h \in Handlers, AvatarFails(h)
  PROVE  LET s == tasks[h]
             t == tasks'[h]
         IN
         /\ Turn(h)
         /\ UNCHANGED <<world, slack, queues, matrix, bridge, moved, due>>
         /\ s.pc = "save" /\ s.user \in Folk /\ s.object \in Objects /\ s.name \in Names
         /\ s.channel = None
         /\ NameGhost(s.object, s.name)
         /\ crossed' = crossed \cup {s.user}
         /\ t = Idle
<1> DEFINE s == tasks[h]
<1>1. /\ s.pc = "save"
      /\ UNCHANGED <<world, slack, queues, matrix, bridge, moved, due>>
      /\ NameGhost(s.object, s.name)
      /\ crossed' = crossed \cup {s.user}
      /\ Start(h, Idle)
  BY DEF AvatarFails, At, To, Done
<1>2. /\ s.user \in Folk
      /\ s.object \in Objects
      /\ s.name \in Names
      /\ s.channel = None
      /\ s \in Tasks
  BY <1>1, TaskFacts, WorldFacts DEF TaskOK, Stage, InRoom, OfUser, OfChannel, OfMatrix
<1> QED
  BY <1>1, <1>2, TurnDoes, IdleOK

LEMMA HideUserDoes ==
  ASSUME TypeInv, NEW h \in Handlers, HideUser(h)
  PROVE  LET s == tasks[h]
             t == tasks'[h]
         IN
         /\ Turn(h)
         /\ UNCHANGED <<world, slack, queues, matrix, bridge, moved, due, crossed>>
         /\ s.pc = "hide" /\ s.user \in Folk /\ s.channel = None
         /\ SetDisplayName(s.user, Deleted)
         /\ Continued(t, s) /\ t.pc = "listRooms" /\ t.next = s.next /\ t.name = s.name
         /\ t.object = s.object /\ t.row = s.row /\ t.folk = s.folk /\ t.rooms = s.rooms
<1> DEFINE s == tasks[h]
<1> DEFINE new == [s EXCEPT !.pc = "listRooms"]
<1>1. /\ s.pc = "hide"
      /\ UNCHANGED <<world, slack, queues, matrix, bridge, moved, due, crossed>>
      /\ SetDisplayName(s.user, Deleted)
      /\ Start(h, new)
  BY DEF HideUser, At, To, Done
<1>2. /\ s.user \in Folk
      /\ s.channel = None
      /\ s \in Tasks
  BY <1>1, TaskFacts, WorldFacts DEF TaskOK, Stage, InRoom, OfUser, OfChannel, OfMatrix
<1>3. /\ "listRooms" \in Pcs
  BY <1>2, TaskFacts, NewObjectFree DEF Pcs, Ways, TypeInv, GhostsTypeOK, Ghosts, MatrixOK,
     SlackOK, RoomsOf
<1>4. /\ new \in Tasks /\ Continued(new, s) /\ new.pc = "listRooms" /\ new.next = s.next
      /\ new.name = s.name /\ new.object = s.object /\ new.row = s.row /\ new.folk = s.folk
      /\ new.rooms = s.rooms
  BY <1>2, <1>3 DEF Tasks, Continued
<1> HIDE DEF new
<1> QED
  BY <1>1, <1>2, <1>4, TurnDoes, IdleOK

LEMMA ListRoomsDoes ==
  ASSUME TypeInv, NEW h \in Handlers, ListRooms(h)
  PROVE  LET s == tasks[h]
             t == tasks'[h]
         IN
         /\ Turn(h)
         /\ UNCHANGED <<world, slack, queues, matrix, bridge, ghostVars, moved, due, crossed>>
         /\ s.pc = "listRooms" /\ s.user \in Folk /\ s.channel = None
         /\ Continued(t, s) /\ t.pc = "leaveRooms" /\ t.rooms = RoomsOf(s.user)
         /\ t.next = s.next /\ t.name = s.name /\ t.object = s.object /\ t.row = s.row
         /\ t.folk = s.folk
<1> DEFINE s == tasks[h]
<1> DEFINE new == [s EXCEPT !.pc = "leaveRooms", !.rooms = RoomsOf(s.user)]
<1>1. /\ s.pc = "listRooms"
      /\ UNCHANGED <<world, slack, queues, matrix, bridge, ghostVars, moved, due, crossed>>
      /\ Start(h, new)
  BY DEF ListRooms, At, To, Done
<1>2. /\ s.user \in Folk
      /\ s.channel = None
      /\ s \in Tasks
  BY <1>1, TaskFacts, WorldFacts DEF TaskOK, Stage, InRoom, OfUser, OfChannel, OfMatrix
<1>3. /\ "leaveRooms" \in Pcs
      /\ RoomsOf(s.user) \in SUBSET Channels
  BY <1>2, TaskFacts, NewObjectFree DEF Pcs, Ways, TypeInv, GhostsTypeOK, Ghosts, MatrixOK,
     SlackOK, RoomsOf
<1>4. /\ new \in Tasks /\ Continued(new, s) /\ new.pc = "leaveRooms"
      /\ new.rooms = RoomsOf(s.user) /\ new.next = s.next /\ new.name = s.name
      /\ new.object = s.object /\ new.row = s.row /\ new.folk = s.folk
  BY <1>2, <1>3 DEF Tasks, Continued
<1> HIDE DEF new
<1> QED
  BY <1>1, <1>2, <1>4, TurnDoes, IdleOK

LEMMA LeaveRoomsDoes ==
  ASSUME TypeInv, NEW h \in Handlers, LeaveRooms(h)
  PROVE  LET s == tasks[h]
             t == tasks'[h]
         IN
         /\ Turn(h)
         /\ UNCHANGED <<world, slack, queues, usersIn, botIn, invited, adminRooms, bridge,
                       ghostVars, moved, due>>
         /\ s.pc = "leaveRooms" /\ s.user \in Folk /\ s.channel = None
         /\ \E left \in SUBSET s.rooms :
               /\ ghostsIn' = [c \in Channels |-> IF c \in left THEN ghostsIn[c] \ {s.user}
                                                  ELSE ghostsIn[c]]
               /\ crossed' = IF left = s.rooms THEN crossed ELSE crossed \cup {s.user}
         /\ t = Idle
<1> DEFINE s == tasks[h]
<1>1. /\ s.pc = "leaveRooms"
      /\ UNCHANGED <<world, slack, queues, usersIn, botIn, invited, adminRooms, bridge, ghostVars,
                    moved, due>>
      /\ \E left \in SUBSET s.rooms :
               /\ ghostsIn' = [c \in Channels |-> IF c \in left THEN ghostsIn[c] \ {s.user}
                                                  ELSE ghostsIn[c]]
               /\ crossed' = IF left = s.rooms THEN crossed ELSE crossed \cup {s.user}
      /\ Start(h, Idle)
  BY DEF LeaveRooms, At, To, Done
<1>2. /\ s.user \in Folk
      /\ s.channel = None
      /\ s \in Tasks
  BY <1>1, TaskFacts, WorldFacts DEF TaskOK, Stage, InRoom, OfUser, OfChannel, OfMatrix
<1> QED
  BY <1>1, <1>2, TurnDoes, IdleOK

LEMMA AskBotInDoes ==
  ASSUME TypeInv, NEW h \in Handlers, AskBotIn(h)
  PROVE  LET s == tasks[h]
             t == tasks'[h]
         IN
         /\ Turn(h)
         /\ UNCHANGED <<world, open, closed, gone, queues, matrix, bridge, ghostVars, moved, due,
                       crossed>>
         /\ s.pc = "askBot"
         /\ s.user \in Folk /\ s.next = "bridge" /\ s.channel \in Channel /\ s.channel \in Channels
         /\ people' \in {people, [people EXCEPT ![s.channel] = @ \cup {Bot}]}
         /\ people' # people => s.channel \in open
         /\ Continued(t, s) /\ t.pc = "get" /\ t.next = s.next /\ t.name = s.name
         /\ t.object = s.object /\ t.row = s.row /\ t.folk = s.folk /\ t.rooms = s.rooms
<1> DEFINE s == tasks[h]
<1> DEFINE new == [s EXCEPT !.pc = "get"]
<1>1. /\ s.pc = "askBot"
      /\ UNCHANGED <<world, open, closed, gone, queues, matrix, bridge, ghostVars, moved, due,
                    crossed>>
      /\ people' \in {people, [people EXCEPT ![s.channel] = @ \cup {Bot}]}
      /\ people' # people => s.channel \in open
      /\ Start(h, new)
  BY DEF AskBotIn, At, To, Done
<1>2. /\ s.user \in Folk /\ s.next = "bridge" /\ s.channel \in Channel /\ s.channel \in Channels
      /\ s \in Tasks
  BY <1>1, TaskFacts, WorldFacts DEF TaskOK, Stage, InRoom, OfUser, OfChannel, OfMatrix
<1>3. /\ "get" \in Pcs
  BY <1>2, TaskFacts, NewObjectFree DEF Pcs, Ways, TypeInv, GhostsTypeOK, Ghosts, MatrixOK,
     SlackOK, RoomsOf
<1>4. /\ new \in Tasks /\ Continued(new, s) /\ new.pc = "get" /\ new.next = s.next
      /\ new.name = s.name /\ new.object = s.object /\ new.row = s.row /\ new.folk = s.folk
      /\ new.rooms = s.rooms
  BY <1>2, <1>3 DEF Tasks, Continued
<1> HIDE DEF new
<1> QED
  BY <1>1, <1>2, <1>4, TurnDoes, IdleOK

LEMMA NoCreatorDoes ==
  ASSUME TypeInv, NEW h \in Handlers, NoCreator(h)
  PROVE  LET s == tasks[h]
             t == tasks'[h]
         IN
         /\ Turn(h)
         /\ UNCHANGED <<world, slack, queues, matrix, bridge, ghostVars, moved, due, crossed>>
         /\ s.pc = "make" /\ s.next = "bridge" /\ s.user \in Folk
         /\ s.channel \in Channel /\ s.channel \in Channels
         /\ t.channel = s.channel /\ t.mx = s.mx /\ t.flag = s.flag /\ t.synced = s.synced
         /\ t.pc = "bridge" /\ t.next = s.next /\ t.user = None /\ t.name = s.name
         /\ t.object = s.object /\ t.row = s.row /\ t.folk = s.folk /\ t.rooms = s.rooms
<1> DEFINE s == tasks[h]
<1> DEFINE new == [s EXCEPT !.pc = "bridge", !.user = None]
<1>1. /\ s.pc = "make" /\ s.next = "bridge"
      /\ UNCHANGED <<world, slack, queues, matrix, bridge, ghostVars, moved, due, crossed>>
      /\ Start(h, new)
  BY DEF NoCreator, At
<1>2. /\ s.user \in Folk /\ s.channel \in Channel /\ s.channel \in Channels
      /\ s \in Tasks
  BY <1>1, TaskFacts, WorldFacts DEF TaskOK, Stage, InRoom, OfUser, OfChannel, OfMatrix
<1>3. /\ new \in Tasks /\ new.channel = s.channel /\ new.mx = s.mx /\ new.flag = s.flag
      /\ new.synced = s.synced /\ new.pc = "bridge" /\ new.next = s.next /\ new.user = None
      /\ new.name = s.name /\ new.object = s.object /\ new.row = s.row /\ new.folk = s.folk
      /\ new.rooms = s.rooms
  BY <1>2 DEF Tasks, Pcs
<1> HIDE DEF new
<1> QED
  BY <1>1, <1>2, <1>3, TurnDoes

\* A handler that is about a channel as a whole, and has listed nothing.
ChannelTask(t, c, pc) ==
    /\ t \in Tasks /\ t.pc = pc /\ t.next = "idle" /\ t.user = None /\ t.channel = c
    /\ t.name = None /\ ~t.flag /\ t.object = None /\ t.folk = {} /\ t.rooms = {}
    /\ ~t.synced

EnsureTask(c) == [Idle EXCEPT !.pc = "ensureBot", !.channel = c]

LEMMA EnsureTaskFacts ==
  ASSUME NEW c \in Channels
  PROVE  ChannelTask(EnsureTask(c), c, "ensureBot")
  BY DEF EnsureTask, ChannelTask, Idle, Tasks, Pcs, NoRow

Creator(t) == {t.user} \ {None}

\* The channel is linked: its room is there, with the ghost of its creator in it.
Bridges(s) ==
    LET c == s.channel IN
    /\ c \notin bridged /\ bridged' = bridged \cup {c} /\ stored' = stored \cup {c}
    /\ active' = active \cup {c} /\ botIn' = botIn \cup {c}
    /\ ghostsIn' = [ghostsIn EXCEPT ![c] = @ \cup Creator(s)]
    /\ invited' \in {invited, invited \cup (({Puppet(u) : u \in people[c]}
                                               \ ({None} \cup usersIn[c])) \X {c})}
    /\ toSync' = [toSync EXCEPT !.rooms = @ \cup {c}]
    /\ crossed' = crossed \cup (Creator(s) \cap gone)

LEMMA BridgeChannelDoes ==
  ASSUME TypeInv, NEW h \in Handlers, BridgeChannel(h)
  PROVE  LET s == tasks[h]
             t == tasks'[h]
         IN
         /\ Turn(h)
         /\ UNCHANGED <<world, slack, queues, usersIn, adminRooms, adminRoom, ghostVars, moved,
                       due>>
         /\ s.pc = "bridge" /\ s.next = "bridge" /\ s.user \in Folk \cup {None}
         /\ s.channel \in Channel /\ s.channel \in Channels
         /\ \/ Bridges(s) /\ ChannelTask(t, s.channel, "ensureBot")
            \/ /\ UNCHANGED <<bridged, stored, active, botIn, ghostsIn, invited, toSync, crossed>>
               /\ t = Idle
<1> DEFINE s == tasks[h]
<1>1. /\ s.pc = "bridge"
      /\ UNCHANGED <<world, slack, queues, usersIn, adminRooms, adminRoom, ghostVars, moved, due>>
      /\ \/ Bridges(s) /\ Start(h, EnsureTask(s.channel))
         \/ /\ UNCHANGED <<bridged, stored, active, botIn, ghostsIn, invited, toSync, crossed>>
            /\ Start(h, Idle)
  BY DEF BridgeChannel, At, Done, Bridges, EnsureTask, Creator
<1>2. /\ s.next = "bridge" /\ s.user \in Folk \cup {None}
      /\ s.channel \in Channel /\ s.channel \in Channels
      /\ s \in Tasks
  BY <1>1, TaskFacts, WorldFacts DEF TaskOK, Stage, InRoom, OfUser, OfChannel, OfMatrix
<1>3. EnsureTask(s.channel) \in Tasks /\ ChannelTask(EnsureTask(s.channel), s.channel, "ensureBot")
  BY <1>2, EnsureTaskFacts DEF ChannelTask
<1> QED
  BY <1>1, <1>2, <1>3, TurnDoes, IdleOK

LEMMA EnsureBotDoes ==
  ASSUME TypeInv, NEW h \in Handlers, EnsureBot(h)
  PROVE  LET s == tasks[h]
             t == tasks'[h]
         IN
         /\ Turn(h)
         /\ UNCHANGED <<world, open, closed, gone, queues, matrix, bridge, ghostVars, moved, due,
                       crossed>>
         /\ s.pc = "ensureBot"
         /\ s.user = None /\ s.channel \in Channel /\ s.channel \in Channels
         /\ people' \in {people, [people EXCEPT ![s.channel] = @ \cup {Bot}]}
         /\ people' # people => s.channel \in open
         /\ Continued(t, s) /\ t.pc = "listGhosts" /\ t.next = s.next /\ t.name = s.name
         /\ t.object = s.object /\ t.row = s.row /\ t.folk = s.folk /\ t.rooms = s.rooms
<1> DEFINE s == tasks[h]
<1> DEFINE new == [s EXCEPT !.pc = "listGhosts"]
<1>1. /\ s.pc = "ensureBot"
      /\ UNCHANGED <<world, open, closed, gone, queues, matrix, bridge, ghostVars, moved, due,
                    crossed>>
      /\ people' \in {people, [people EXCEPT ![s.channel] = @ \cup {Bot}]}
      /\ people' # people => s.channel \in open
      /\ Start(h, new)
  BY DEF EnsureBot, At, To, Done
<1>2. /\ s.user = None /\ s.channel \in Channel /\ s.channel \in Channels
      /\ s \in Tasks
  BY <1>1, TaskFacts, WorldFacts DEF TaskOK, Stage, InRoom, OfUser, OfChannel, OfMatrix
<1>3. /\ "listGhosts" \in Pcs
  BY <1>2, TaskFacts, NewObjectFree DEF Pcs, Ways, TypeInv, GhostsTypeOK, Ghosts, MatrixOK,
     SlackOK, RoomsOf
<1>4. /\ new \in Tasks /\ Continued(new, s) /\ new.pc = "listGhosts" /\ new.next = s.next
      /\ new.name = s.name /\ new.object = s.object /\ new.row = s.row /\ new.folk = s.folk
      /\ new.rooms = s.rooms
  BY <1>2, <1>3 DEF Tasks, Continued
<1> HIDE DEF new
<1> QED
  BY <1>1, <1>2, <1>4, TurnDoes, IdleOK

LEMMA ListGhostsDoes ==
  ASSUME TypeInv, NEW h \in Handlers, ListGhosts(h)
  PROVE  LET s == tasks[h]
             t == tasks'[h]
         IN
         /\ Turn(h)
         /\ UNCHANGED <<world, slack, queues, matrix, bridge, ghostVars, moved, due, crossed>>
         /\ s.pc = "listGhosts"
         /\ s.user = None /\ s.channel \in Channel /\ s.channel \in Channels
         /\ Continued(t, s) /\ t.pc = "listMembers" /\ t.folk = ghostsIn[s.channel]
         /\ t.next = s.next /\ t.name = s.name /\ t.object = s.object /\ t.row = s.row
         /\ t.rooms = s.rooms
<1> DEFINE s == tasks[h]
<1> DEFINE new == [s EXCEPT !.pc = "listMembers", !.folk = ghostsIn[s.channel]]
<1>1. /\ s.pc = "listGhosts"
      /\ UNCHANGED <<world, slack, queues, matrix, bridge, ghostVars, moved, due, crossed>>
      /\ Start(h, new)
  BY DEF ListGhosts, At, To, Done
<1>2. /\ s.user = None /\ s.channel \in Channel /\ s.channel \in Channels
      /\ s \in Tasks
  BY <1>1, TaskFacts, WorldFacts DEF TaskOK, Stage, InRoom, OfUser, OfChannel, OfMatrix
<1>3. /\ "listMembers" \in Pcs
      /\ ghostsIn[s.channel] \in SUBSET Folk
  BY <1>2, TaskFacts, NewObjectFree DEF Pcs, Ways, TypeInv, GhostsTypeOK, Ghosts, MatrixOK,
     SlackOK, RoomsOf
<1>4. /\ new \in Tasks /\ Continued(new, s) /\ new.pc = "listMembers"
      /\ new.folk = ghostsIn[s.channel] /\ new.next = s.next /\ new.name = s.name
      /\ new.object = s.object /\ new.row = s.row /\ new.rooms = s.rooms
  BY <1>2, <1>3 DEF Tasks, Continued
<1> HIDE DEF new
<1> QED
  BY <1>1, <1>2, <1>4, TurnDoes, IdleOK

LEMMA ListMembersDoes ==
  ASSUME TypeInv, NEW h \in Handlers, ListMembers(h)
  PROVE  LET s == tasks[h]
             t == tasks'[h]
         IN
         /\ Turn(h)
         /\ UNCHANGED <<world, slack, queues, usersIn, botIn, invited, adminRooms, bridge,
                       slackNames, cache, ghosts, profiles, reverted, moved, crossed>>
         /\ s.pc = "listMembers"
         /\ s.user = None /\ s.channel \in Channel /\ s.channel \in Channels
         /\ \E left \in SUBSET (s.folk \cap people[s.channel]) :
               ghostsIn' = [ghostsIn EXCEPT ![s.channel] = @ \ left]
         /\ rows' = [u \in Folk |-> IF u \in people[s.channel] /\ rows[u] = NoRow
                                 THEN Unnamed ELSE rows[u]]
         /\ due' = (due \ ((s.folk \cap people[s.channel]) \X {s.channel}))
                     \cup {<<u, s.channel>> : u \in
                             IF s.channel \in open \cap bridged
                             THEN {u \in people[s.channel] \ s.folk : Expected(u)} ELSE {}}
         /\ Continued(t, s) /\ t.pc = "move" /\ t.folk = people[s.channel] \ s.folk
         /\ t.next = s.next /\ t.name = s.name /\ t.object = s.object /\ t.row = s.row
         /\ t.rooms = s.rooms
<1> DEFINE s == tasks[h]
<1> DEFINE new == [s EXCEPT !.pc = "move", !.folk = people[s.channel] \ s.folk]
<1>1. /\ s.pc = "listMembers"
      /\ UNCHANGED <<world, slack, queues, usersIn, botIn, invited, adminRooms, bridge, slackNames,
                    cache, ghosts, profiles, reverted, moved, crossed>>
      /\ \E left \in SUBSET (s.folk \cap people[s.channel]) :
               ghostsIn' = [ghostsIn EXCEPT ![s.channel] = @ \ left]
      /\ rows' = [u \in Folk |-> IF u \in people[s.channel] /\ rows[u] = NoRow
                                 THEN Unnamed ELSE rows[u]]
      /\ due' = (due \ ((s.folk \cap people[s.channel]) \X {s.channel}))
                     \cup {<<u, s.channel>> : u \in
                             IF s.channel \in open \cap bridged
                             THEN {u \in people[s.channel] \ s.folk : Expected(u)} ELSE {}}
      /\ Start(h, new)
  BY DEF ListMembers, At, To, Done
<1>2. /\ s.user = None /\ s.channel \in Channel /\ s.channel \in Channels
      /\ s \in Tasks
  BY <1>1, TaskFacts, WorldFacts DEF TaskOK, Stage, InRoom, OfUser, OfChannel, OfMatrix
<1>3. /\ "move" \in Pcs
      /\ people[s.channel] \ s.folk \in SUBSET Folk
  BY <1>2, TaskFacts, NewObjectFree DEF Pcs, Ways, TypeInv, GhostsTypeOK, Ghosts, MatrixOK,
     SlackOK, RoomsOf
<1>4. /\ new \in Tasks /\ Continued(new, s) /\ new.pc = "move"
      /\ new.folk = people[s.channel] \ s.folk /\ new.next = s.next /\ new.name = s.name
      /\ new.object = s.object /\ new.row = s.row /\ new.rooms = s.rooms
  BY <1>2, <1>3 DEF Tasks, Continued
<1> HIDE DEF new
<1> QED
  BY <1>1, <1>2, <1>4, TurnDoes, IdleOK

LEMMA MoveMembersDoes ==
  ASSUME TypeInv, NEW h \in Handlers, MoveMembers(h)
  PROVE  LET s == tasks[h]
             t == tasks'[h]
         IN
         /\ Turn(h)
         /\ UNCHANGED <<world, slack, queues, usersIn, botIn, invited, adminRooms, bridge,
                       ghostVars, moved, crossed>>
         /\ s.pc = "move" /\ s.user = None /\ s.channel \in Channel /\ s.channel \in Channels
         /\ \E joined \in SUBSET s.folk :
               /\ ghostsIn' = [ghostsIn EXCEPT ![s.channel] = @ \cup joined]
               /\ due' = due \ ((s.folk \ joined) \X {s.channel})
         /\ t = Idle
<1> DEFINE s == tasks[h]
<1>1. /\ s.pc = "move"
      /\ UNCHANGED <<world, slack, queues, usersIn, botIn, invited, adminRooms, bridge, ghostVars,
                    moved, crossed>>
      /\ \E joined \in SUBSET s.folk :
               /\ ghostsIn' = [ghostsIn EXCEPT ![s.channel] = @ \cup joined]
               /\ due' = due \ ((s.folk \ joined) \X {s.channel})
      /\ Start(h, Idle)
  BY DEF MoveMembers, At, To, Done
<1>2. /\ s.user = None /\ s.channel \in Channel /\ s.channel \in Channels
      /\ s \in Tasks
  BY <1>1, TaskFacts, WorldFacts DEF TaskOK, Stage, InRoom, OfUser, OfChannel, OfMatrix
<1> QED
  BY <1>1, <1>2, TurnDoes, IdleOK

LEMMA UnlinkDeletedDoes ==
  ASSUME TypeInv, NEW h \in Handlers, UnlinkDeleted(h)
  PROVE  LET s == tasks[h]
             t == tasks'[h]
         IN
         /\ Turn(h)
         /\ UNCHANGED <<world, slack, queues, matrix, stored, adminRoom, toSync, ghostVars, moved,
                       crossed>>
         /\ s.pc = "unlink" /\ s.user = None /\ s.channel \in Channel /\ s.channel \in Channels
         /\ bridged' = bridged \ {s.channel} /\ active' = active \ {s.channel}
         /\ due' = {d \in due : d[2] # s.channel}
         /\ Continued(t, s) /\ t.pc = "drain" /\ t.next = s.next /\ t.name = s.name
         /\ t.object = s.object /\ t.row = s.row /\ t.folk = s.folk /\ t.rooms = s.rooms
<1> DEFINE s == tasks[h]
<1> DEFINE new == [s EXCEPT !.pc = "drain"]
<1>1. /\ s.pc = "unlink"
      /\ UNCHANGED <<world, slack, queues, matrix, stored, adminRoom, toSync, ghostVars, moved,
                    crossed>>
      /\ bridged' = bridged \ {s.channel} /\ active' = active \ {s.channel}
      /\ due' = {d \in due : d[2] # s.channel}
      /\ Start(h, new)
  BY DEF UnlinkDeleted, At, To, Done
<1>2. /\ s.user = None /\ s.channel \in Channel /\ s.channel \in Channels
      /\ s \in Tasks
  BY <1>1, TaskFacts, WorldFacts DEF TaskOK, Stage, InRoom, OfUser, OfChannel, OfMatrix
<1>3. /\ "drain" \in Pcs
  BY <1>2, TaskFacts, NewObjectFree DEF Pcs, Ways, TypeInv, GhostsTypeOK, Ghosts, MatrixOK,
     SlackOK, RoomsOf
<1>4. /\ new \in Tasks /\ Continued(new, s) /\ new.pc = "drain" /\ new.next = s.next
      /\ new.name = s.name /\ new.object = s.object /\ new.row = s.row /\ new.folk = s.folk
      /\ new.rooms = s.rooms
  BY <1>2, <1>3 DEF Tasks, Continued
<1> HIDE DEF new
<1> QED
  BY <1>1, <1>2, <1>4, TurnDoes, IdleOK

LEMMA DrainRoomDoes ==
  ASSUME TypeInv, NEW h \in Handlers, DrainRoom(h)
  PROVE  LET s == tasks[h]
             t == tasks'[h]
         IN
         /\ Turn(h)
         /\ UNCHANGED <<world, slack, queues, usersIn, invited, adminRooms, bridged, active,
                       adminRoom, toSync, ghostVars, moved, due>>
         /\ s.pc = "drain" /\ s.user = None /\ s.channel \in Channel /\ s.channel \in Channels
         /\ \/ \E left \in SUBSET ghostsIn[s.channel] :
                  /\ ghostsIn' = [ghostsIn EXCEPT ![s.channel] = @ \ left]
                  /\ botIn' \in {botIn, botIn \ {s.channel}} /\ stored' = stored \ {s.channel}
                  /\ crossed' = IF left = ghostsIn[s.channel] THEN crossed
                                                              ELSE crossed \cup {s.channel}
            \/ /\ crossed' = crossed \cup {s.channel}
               /\ UNCHANGED <<ghostsIn, botIn, stored>>
         /\ t = Idle
<1> DEFINE s == tasks[h]
<1>1. /\ s.pc = "drain"
      /\ UNCHANGED <<world, slack, queues, usersIn, invited, adminRooms, bridged, active,
                    adminRoom, toSync, ghostVars, moved, due>>
      /\ \/ \E left \in SUBSET ghostsIn[s.channel] :
                  /\ ghostsIn' = [ghostsIn EXCEPT ![s.channel] = @ \ left]
                  /\ botIn' \in {botIn, botIn \ {s.channel}} /\ stored' = stored \ {s.channel}
                  /\ crossed' = IF left = ghostsIn[s.channel] THEN crossed
                                                              ELSE crossed \cup {s.channel}
            \/ /\ crossed' = crossed \cup {s.channel}
               /\ UNCHANGED <<ghostsIn, botIn, stored>>
      /\ Start(h, Idle)
  BY DEF DrainRoom, At, To, Done
<1>2. /\ s.user = None /\ s.channel \in Channel /\ s.channel \in Channels
      /\ s \in Tasks
  BY <1>1, TaskFacts, WorldFacts DEF TaskOK, Stage, InRoom, OfUser, OfChannel, OfMatrix
<1> QED
  BY <1>1, <1>2, TurnDoes, IdleOK

LEMMA BotJoinsDoes ==
  ASSUME TypeInv, NEW h \in Handlers, BotJoins(h)
  PROVE  LET s == tasks[h]
             t == tasks'[h]
         IN
         /\ Turn(h)
         /\ UNCHANGED <<world, slack, queues, ghostsIn, usersIn, invited, adminRooms, bridged,
                       stored, adminRoom, toSync, ghostVars, moved, due, crossed>>
         /\ s.pc = "botJoin" /\ s.user = None /\ s.channel \in Channels
         /\ botIn' = botIn \cup {s.channel}
         /\ active' = IF s.channel \in bridged THEN active \cup {s.channel} ELSE active
         /\ t = Idle
<1> DEFINE s == tasks[h]
<1>1. /\ s.pc = "botJoin"
      /\ UNCHANGED <<world, slack, queues, ghostsIn, usersIn, invited, adminRooms, bridged, stored,
                    adminRoom, toSync, ghostVars, moved, due, crossed>>
      /\ botIn' = botIn \cup {s.channel}
      /\ active' = IF s.channel \in bridged THEN active \cup {s.channel} ELSE active
      /\ Start(h, Idle)
  BY DEF BotJoins, At, To, Done
<1>2. /\ s.user = None /\ s.channel \in Channels
      /\ s \in Tasks
  BY <1>1, TaskFacts, WorldFacts DEF TaskOK, Stage, InRoom, OfUser, OfChannel, OfMatrix
<1> QED
  BY <1>1, <1>2, TurnDoes, IdleOK

\* The users that a puppet is of join a channel, and Slack says so of one.
JoinsSlack(m, c) ==
    /\ c \in open
    /\ \E joining \in SUBSET ((world.folk \ gone) \ people[c]) :
          /\ people' = [people EXCEPT ![c] = @ \cup joining]
          /\ \A u \in joining : Puppet(u) = m
          /\ \E u \in joining : Sent(Event("joined", u, c, None, FALSE))

LEMMA PuppetJoinsDoes ==
  ASSUME TypeInv, NEW h \in Handlers, PuppetJoins(h)
  PROVE  LET s == tasks[h]
             t == tasks'[h]
         IN
         /\ Turn(h)
         /\ UNCHANGED <<world, open, closed, gone, matrixQueue, matrix, bridge, ghostVars, moved,
                        due, crossed>>
         /\ s.pc = "slackJoin" /\ s.user = None /\ s.channel \in Channels /\ s.mx \in MatrixUsers
         /\ \/ t = Idle
            \/ /\ Continued(t, s) /\ t.pc = "onboard" /\ t.next = s.next /\ t.name = s.name
               /\ t.object = s.object /\ t.row = s.row /\ t.folk = s.folk /\ t.rooms = s.rooms
         /\ \/ UNCHANGED <<people, slackQueue>>
            \/ t = Idle /\ JoinsSlack(s.mx, s.channel)
<1> DEFINE s == tasks[h]
<1> DEFINE puppets == {u \in world.folk \ gone : Puppet(u) = s.mx}
<1> DEFINE joining == {u \in puppets : s.channel \in open /\ u \notin people[s.channel]}
<1> DEFINE new == [s EXCEPT !.pc = "onboard"]
<1>1. /\ s.pc = "slackJoin"
      /\ UNCHANGED <<world, open, closed, gone, matrixQueue, matrix, bridge, ghostVars, moved,
                     due, crossed>>
      /\ people' = [people EXCEPT ![s.channel] = @ \cup joining]
      /\ \/ joining = {} /\ UNCHANGED slackQueue
         \/ \E u \in joining : Sent(Event("joined", u, s.channel, None, FALSE))
      /\ \/ puppets = {} /\ Start(h, new)
         \/ puppets # {} /\ Start(h, Idle)
  BY DEF PuppetJoins, At, To, Done
<1>2. /\ s.user = None /\ s.channel \in Channels /\ s.mx \in MatrixUsers
      /\ s \in Tasks
  BY <1>1, TaskFacts, WorldFacts DEF TaskOK, Stage, InRoom, OfUser, OfChannel, OfMatrix
<1>3. /\ new \in Tasks /\ Continued(new, s) /\ new.pc = "onboard" /\ new.next = s.next
      /\ new.name = s.name /\ new.object = s.object /\ new.row = s.row /\ new.folk = s.folk
      /\ new.rooms = s.rooms
  BY <1>2 DEF Tasks, Pcs, Continued
<1>4. Turn(h) /\ (tasks'[h] = Idle \/ (puppets = {} /\ tasks'[h] = new))
  BY <1>1, <1>3, TurnDoes, IdleOK
<1> HIDE DEF new
<1>5. CASE joining = {}
  <2>1. people' = people
    BY <1>1, <1>2, <1>5 DEF TypeInv, SlackOK
  <2>2. slackQueue' = slackQueue
    BY <1>1, <1>5
  <2> HIDE DEF puppets, joining
  <2> QED
    BY <1>1, <1>2, <1>3, <1>4, <2>1, <2>2
<1>6. CASE joining # {}
  <2>1. tasks'[h] = Idle /\ s.channel \in open
    BY <1>4, <1>6
  <2>2. joining \in SUBSET ((world.folk \ gone) \ people[s.channel])
    OBVIOUS
  <2>3. \A u \in joining : Puppet(u) = s.mx
    OBVIOUS
  <2> HIDE DEF puppets, joining
  <2>4. \E u \in joining : Sent(Event("joined", u, s.channel, None, FALSE))
    BY <1>1, <1>6
  <2>5. JoinsSlack(s.mx, s.channel)
    BY <1>1, <2>1, <2>2, <2>3, <2>4 DEF JoinsSlack
  <2> QED
    BY <1>1, <1>2, <1>4, <2>1, <2>5
<1> QED
  BY <1>5, <1>6

LEMMA OnboardDoes ==
  ASSUME TypeInv, NEW h \in Handlers, Onboard(h)
  PROVE  LET s == tasks[h]
             t == tasks'[h]
         IN
         /\ Turn(h)
         /\ UNCHANGED <<world, slack, queues, matrix, bridge, ghostVars, moved, due, crossed>>
         /\ s.pc = "onboard" /\ s.user = None /\ s.channel \in Channels /\ s.mx \in MatrixUsers
         /\ \/ /\ NewHere(s.mx) /\ Continued(t, s) /\ t.pc = "createAdmin" /\ t.next = s.next
               /\ t.name = s.name /\ t.object = s.object /\ t.row = s.row /\ t.folk = s.folk
               /\ t.rooms = s.rooms
            \/ ~NewHere(s.mx) /\ t = Idle
<1> DEFINE s == tasks[h]
<1> DEFINE new == [s EXCEPT !.pc = "createAdmin"]
<1>1. /\ s.pc = "onboard"
      /\ UNCHANGED <<world, slack, queues, matrix, bridge, ghostVars, moved, due, crossed>>
      /\ \/ NewHere(s.mx) /\ Start(h, new)
         \/ ~NewHere(s.mx) /\ Start(h, Idle)
  BY DEF Onboard, At, To, Done
<1>2. /\ s.user = None /\ s.channel \in Channels
      /\ s.mx \in MatrixUsers
      /\ s \in Tasks
  BY <1>1, TaskFacts, WorldFacts DEF TaskOK, Stage, InRoom, OfUser, OfChannel, OfMatrix
<1>3. /\ "createAdmin" \in Pcs
  BY <1>2, TaskFacts, NewObjectFree DEF Pcs, Ways, TypeInv, GhostsTypeOK, Ghosts, MatrixOK,
     SlackOK, RoomsOf
<1>4. /\ new \in Tasks /\ Continued(new, s) /\ new.pc = "createAdmin" /\ new.next = s.next
      /\ new.name = s.name /\ new.object = s.object /\ new.row = s.row /\ new.folk = s.folk
      /\ new.rooms = s.rooms
  BY <1>2, <1>3 DEF Tasks, Continued
<1> HIDE DEF new
<1> QED
  BY <1>1, <1>2, <1>4, TurnDoes, IdleOK

LEMMA CreateAdminRoomDoes ==
  ASSUME TypeInv, NEW h \in Handlers, CreateAdminRoom(h)
  PROVE  LET s == tasks[h]
             t == tasks'[h]
         IN
         /\ Turn(h)
         /\ UNCHANGED <<world, slack, queues, ghostsIn, usersIn, botIn, invited, bridge, ghostVars,
                       moved, due, crossed>>
         /\ s.pc = "createAdmin" /\ s.user = None /\ s.channel \in Channels
         /\ s.mx \in MatrixUsers
         /\ adminRooms' = [adminRooms EXCEPT ![s.mx] = @ + 1]
         /\ Continued(t, s) /\ t.pc = "storeAdmin" /\ t.next = s.next /\ t.name = s.name
         /\ t.object = s.object /\ t.row = s.row /\ t.folk = s.folk /\ t.rooms = s.rooms
<1> DEFINE s == tasks[h]
<1> DEFINE new == [s EXCEPT !.pc = "storeAdmin"]
<1>1. /\ s.pc = "createAdmin"
      /\ UNCHANGED <<world, slack, queues, ghostsIn, usersIn, botIn, invited, bridge, ghostVars,
                    moved, due, crossed>>
      /\ adminRooms' = [adminRooms EXCEPT ![s.mx] = @ + 1]
      /\ Start(h, new)
  BY DEF CreateAdminRoom, At, To, Done
<1>2. /\ s.user = None /\ s.channel \in Channels
      /\ s.mx \in MatrixUsers
      /\ s \in Tasks
  BY <1>1, TaskFacts, WorldFacts DEF TaskOK, Stage, InRoom, OfUser, OfChannel, OfMatrix
<1>3. /\ "storeAdmin" \in Pcs
  BY <1>2, TaskFacts, NewObjectFree DEF Pcs, Ways, TypeInv, GhostsTypeOK, Ghosts, MatrixOK,
     SlackOK, RoomsOf
<1>4. /\ new \in Tasks /\ Continued(new, s) /\ new.pc = "storeAdmin" /\ new.next = s.next
      /\ new.name = s.name /\ new.object = s.object /\ new.row = s.row /\ new.folk = s.folk
      /\ new.rooms = s.rooms
  BY <1>2, <1>3 DEF Tasks, Continued
<1> HIDE DEF new
<1> QED
  BY <1>1, <1>2, <1>4, TurnDoes, IdleOK

LEMMA StoreAdminRoomDoes ==
  ASSUME TypeInv, NEW h \in Handlers, StoreAdminRoom(h)
  PROVE  LET s == tasks[h]
             t == tasks'[h]
         IN
         /\ Turn(h)
         /\ UNCHANGED <<world, slack, queues, matrix, bridged, stored, active, toSync, ghostVars,
                       moved, due, crossed>>
         /\ s.pc = "storeAdmin" /\ s.user = None /\ s.channel \in Channels
         /\ s.mx \in MatrixUsers
         /\ adminRoom' = adminRoom \cup {s.mx}
         /\ t = Idle
<1> DEFINE s == tasks[h]
<1>1. /\ s.pc = "storeAdmin"
      /\ UNCHANGED <<world, slack, queues, matrix, bridged, stored, active, toSync, ghostVars,
                    moved, due, crossed>>
      /\ adminRoom' = adminRoom \cup {s.mx}
      /\ Start(h, Idle)
  BY DEF StoreAdminRoom, At, To, Done
<1>2. /\ s.user = None /\ s.channel \in Channels
      /\ s.mx \in MatrixUsers
      /\ s \in Tasks
  BY <1>1, TaskFacts, WorldFacts DEF TaskOK, Stage, InRoom, OfUser, OfChannel, OfMatrix
<1> QED
  BY <1>1, <1>2, TurnDoes, IdleOK

LEMMA LookGhostTypes == TypeInv => \A h \in Handlers : LookGhost(h) => TypeInv'
<1> SUFFICES ASSUME TypeInv, NEW h \in Handlers, LookGhost(h) PROVE TypeInv'
  OBVIOUS
<1>1. TasksOK'
  <2>1. /\ cache[tasks[h].user] \in Objects \cup {None}
        /\ cache[tasks[h].user] # None => cache[tasks[h].user] \in Objects
    BY LookGhostDoes DEF TypeInv, GhostsTypeOK
  <2>2. TaskOK(tasks'[h], Channel)
    BY <2>1, LookGhostDoes, TaskFacts
       DEF TaskOK, Stage, InRoom, OfUser, OfChannel, OfMatrix, Ways, Continued
  <2> QED
    BY <2>2, LookGhostDoes, TurnKeepsTypes DEF TypeInv, slack
<1> QED
  BY <1>1, LookGhostDoes,
     SlackOKKept, SlackQueueOKKept, MatrixQueueOKKept, MatrixOKKept, BridgedOKKept, ToSyncOKKept,
     HistoryOKKept, GhostsTypeOKKept
     DEF TypeInv, slack, queues, matrix, bridge, ghostVars

LEMMA GetGhostTypes == TypeInv => \A h \in Handlers : GetGhost(h) => TypeInv'
<1> SUFFICES ASSUME TypeInv, NEW h \in Handlers, GetGhost(h) PROVE TypeInv'
  OBVIOUS
<1>1. TasksOK'
  <2>1. TaskOK(tasks'[h], Channel)
    BY GetGhostDoes, TaskFacts, WorldFacts, IdleOK, NewObjectFree
       DEF TaskOK, Stage, InRoom, OfUser, OfChannel, OfMatrix, Ways, Continued, TypeInv
  <2> QED
    BY <2>1, GetGhostDoes, TurnKeepsTypes DEF TypeInv, slack
<1>2. GhostsTypeOK'
  BY GetGhostDoes, TaskFacts, NewObjectFree, GhostStoreTypes DEF TypeInv
<1> QED
  BY <1>1, <1>2, GetGhostDoes,
     SlackOKKept, SlackQueueOKKept, MatrixQueueOKKept, MatrixOKKept, BridgedOKKept, ToSyncOKKept,
     HistoryOKKept
     DEF TypeInv, slack, queues, matrix, bridge, ghostVars

LEMMA CallFailsTypes == TypeInv => \A h \in Handlers : CallFails(h) => TypeInv'
<1> SUFFICES ASSUME TypeInv, NEW h \in Handlers, CallFails(h) PROVE TypeInv'
  OBVIOUS
<1>1. TasksOK'
  <2>1. TaskOK(tasks'[h], Channel)
    BY CallFailsDoes, TaskFacts, WorldFacts, IdleOK, NewObjectFree
       DEF TaskOK, Stage, InRoom, OfUser, OfChannel, OfMatrix, Ways, Continued, TypeInv
  <2> QED
    BY <2>1, CallFailsDoes, TurnKeepsTypes DEF TypeInv, slack
<1>2. HistoryOK'
  <2>1. /\ crossed' \in {crossed, crossed \cup {tasks[h].user}} /\ due' \subseteq due
        /\ Syncing(tasks[h]) => tasks[h].user \in Folk
    BY CallFailsDoes, TaskFacts
       DEF TaskOK, Stage, InRoom, OfUser, OfChannel, OfMatrix, Syncing
  <2>2. crossed' \subseteq Folk \cup Channels
    BY <2>1, CallFailsDoes DEF TypeInv, HistoryOK
  <2> QED
    BY <2>1, <2>2, CallFailsDoes DEF TypeInv, HistoryOK, slack, Expected, Puppet
<1> QED
  BY <1>1, <1>2, CallFailsDoes,
     SlackOKKept, SlackQueueOKKept, MatrixQueueOKKept, MatrixOKKept, BridgedOKKept, ToSyncOKKept,
     GhostsTypeOKKept
     DEF TypeInv, slack, queues, matrix, bridge, ghostVars

LEMMA GhostJoinsTypes == TypeInv => \A h \in Handlers : GhostJoins(h) => TypeInv'
<1> SUFFICES ASSUME TypeInv, NEW h \in Handlers, GhostJoins(h) PROVE TypeInv'
  OBVIOUS
<1>1. TasksOK'
  <2>1. TaskOK(tasks'[h], Channel)
    BY GhostJoinsDoes, TaskFacts, WorldFacts, IdleOK, NewObjectFree
       DEF TaskOK, Stage, InRoom, OfUser, OfChannel, OfMatrix, Ways, Continued, TypeInv
  <2> QED
    BY <2>1, GhostJoinsDoes, TurnKeepsTypes DEF TypeInv, slack
<1>2. MatrixOK'
  <2>1. invited' \subseteq MatrixUsers \X Channels
    BY GhostJoinsDoes DEF TypeInv, MatrixOK
  <2> QED
    BY <2>1, GhostJoinsDoes DEF TypeInv, MatrixOK
<1> QED
  BY <1>1, <1>2, GhostJoinsDoes,
     SlackOKKept, SlackQueueOKKept, MatrixQueueOKKept, BridgedOKKept, ToSyncOKKept, HistoryOKKept,
     GhostsTypeOKKept
     DEF TypeInv, slack, queues, matrix, bridge, ghostVars

LEMMA BotInvitesTypes == TypeInv => \A h \in Handlers : BotInvites(h) => TypeInv'
<1> SUFFICES ASSUME TypeInv, NEW h \in Handlers, BotInvites(h) PROVE TypeInv'
  OBVIOUS
<1>1. TasksOK'
  <2>1. TaskOK(tasks'[h], Channel)
    BY BotInvitesDoes, TaskFacts, WorldFacts, IdleOK, NewObjectFree
       DEF TaskOK, Stage, InRoom, OfUser, OfChannel, OfMatrix, Ways, Continued, TypeInv
  <2> QED
    BY <2>1, BotInvitesDoes, TurnKeepsTypes DEF TypeInv, slack
<1>2. MatrixOK'
  BY BotInvitesDoes, TaskFacts, WorldFacts
     DEF TypeInv, MatrixOK
<1> QED
  BY <1>1, <1>2, BotInvitesDoes,
     SlackOKKept, SlackQueueOKKept, MatrixQueueOKKept, BridgedOKKept, ToSyncOKKept, HistoryOKKept,
     GhostsTypeOKKept
     DEF TypeInv, slack, queues, matrix, bridge, ghostVars

LEMMA GhostLeavesTypes == TypeInv => \A h \in Handlers : GhostLeaves(h) => TypeInv'
<1> SUFFICES ASSUME TypeInv, NEW h \in Handlers, GhostLeaves(h) PROVE TypeInv'
  OBVIOUS
<1>1. TasksOK'
  <2>1. TaskOK(tasks'[h], Channel)
    BY GhostLeavesDoes, TaskFacts, WorldFacts, IdleOK, NewObjectFree
       DEF TaskOK, Stage, InRoom, OfUser, OfChannel, OfMatrix, Ways, Continued, TypeInv
  <2> QED
    BY <2>1, GhostLeavesDoes, TurnKeepsTypes DEF TypeInv, slack
<1>2. MatrixOK'
  BY GhostLeavesDoes, TaskFacts, WorldFacts
     DEF TypeInv, MatrixOK
<1> QED
  BY <1>1, <1>2, GhostLeavesDoes,
     SlackOKKept, SlackQueueOKKept, MatrixQueueOKKept, BridgedOKKept, ToSyncOKKept, HistoryOKKept,
     GhostsTypeOKKept
     DEF TypeInv, slack, queues, matrix, bridge, ghostVars

LEMMA LookUpdateTypes == TypeInv => \A h \in Handlers : LookUpdate(h) => TypeInv'
<1> SUFFICES ASSUME TypeInv, NEW h \in Handlers, LookUpdate(h) PROVE TypeInv'
  OBVIOUS
<1>1. TasksOK'
  <2>1. ghosts[tasks[h].object].info \in Names \cup {None}
    BY LookUpdateDoes, GhostStoreTypes DEF TypeInv
  <2>2. TaskOK(tasks'[h], Channel)
    BY <2>1, LookUpdateDoes, TaskFacts
       DEF TaskOK, Stage, InRoom, OfUser, OfChannel, OfMatrix, Continued
  <2> QED
    BY <2>2, LookUpdateDoes, TurnKeepsTypes DEF TypeInv, slack
<1>2. GhostsTypeOK'
  BY LookUpdateDoes, GhostsTypeOKKept, GhostStoreTypes DEF TypeInv
<1> QED
  BY <1>1, <1>2, LookUpdateDoes,
     SlackOKKept, SlackQueueOKKept, MatrixQueueOKKept, MatrixOKKept, BridgedOKKept, ToSyncOKKept,
     HistoryOKKept
     DEF TypeInv, slack, queues, matrix, bridge, ghostVars

LEMMA AskSlackTypes == TypeInv => \A h \in Handlers : AskSlack(h) => TypeInv'
<1> SUFFICES ASSUME TypeInv, NEW h \in Handlers, AskSlack(h) PROVE TypeInv'
  OBVIOUS
<1>1. TasksOK'
  <2>1. slackNames[tasks[h].user] \in Names
    BY AskSlackDoes, GhostStoreTypes DEF TypeInv
  <2>2. TaskOK(tasks'[h], Channel)
    BY <2>1, AskSlackDoes, TaskFacts
       DEF TaskOK, Stage, InRoom, OfUser, OfChannel, OfMatrix, Continued
  <2> QED
    BY <2>2, AskSlackDoes, TurnKeepsTypes DEF TypeInv, slack
<1>2. GhostsTypeOK'
  BY AskSlackDoes, GhostsTypeOKKept, GhostStoreTypes DEF TypeInv
<1> QED
  BY <1>1, <1>2, AskSlackDoes,
     SlackOKKept, SlackQueueOKKept, MatrixQueueOKKept, MatrixOKKept, BridgedOKKept, ToSyncOKKept,
     HistoryOKKept
     DEF TypeInv, slack, queues, matrix, bridge, ghostVars

LEMMA WriteProfileTypes == TypeInv => \A h \in Handlers : WriteProfile(h) => TypeInv'
<1> SUFFICES ASSUME TypeInv, NEW h \in Handlers, WriteProfile(h) PROVE TypeInv'
  OBVIOUS
<1>1. TasksOK'
  <2>1. TaskOK(tasks'[h], Channel)
    BY WriteProfileDoes, TaskFacts, WorldFacts, IdleOK, NewObjectFree
       DEF TaskOK, Stage, InRoom, OfUser, OfChannel, OfMatrix, Ways, Continued, TypeInv
  <2> QED
    BY <2>1, WriteProfileDoes, TurnKeepsTypes DEF TypeInv, slack
<1>2. GhostsTypeOK'
  <2>1. CASE EnsureProfile(tasks[h].user, tasks[h].name)
    BY <2>1, WriteProfileDoes, TaskFacts DEF TypeInv, GhostsTypeOK, EnsureProfile
  <2> QED
    BY <2>1, WriteProfileDoes, GhostStoreTypes DEF TypeInv
<1> QED
  BY <1>1, <1>2, WriteProfileDoes,
     SlackOKKept, SlackQueueOKKept, MatrixQueueOKKept, MatrixOKKept, BridgedOKKept, ToSyncOKKept,
     HistoryOKKept
     DEF TypeInv, slack, queues, matrix, bridge, ghostVars

LEMMA SaveNameTypes == TypeInv => \A h \in Handlers : SaveName(h) => TypeInv'
<1> SUFFICES ASSUME TypeInv, NEW h \in Handlers, SaveName(h) PROVE TypeInv'
  OBVIOUS
<1>1. TasksOK'
  <2>1. TaskOK(tasks'[h], Channel)
    BY SaveNameDoes, TaskFacts, WorldFacts, IdleOK, NewObjectFree
       DEF TaskOK, Stage, InRoom, OfUser, OfChannel, OfMatrix, Ways, Continued, TypeInv
  <2> QED
    BY <2>1, SaveNameDoes, TurnKeepsTypes DEF TypeInv, slack
<1>2. GhostsTypeOK'
  BY SaveNameDoes, GhostsTypeOKKept, GhostStoreTypes DEF TypeInv
<1> QED
  BY <1>1, <1>2, SaveNameDoes,
     SlackOKKept, SlackQueueOKKept, MatrixQueueOKKept, MatrixOKKept, BridgedOKKept, ToSyncOKKept,
     HistoryOKKept
     DEF TypeInv, slack, queues, matrix, bridge, ghostVars

LEMMA SendMessageTypes == TypeInv => \A h \in Handlers : SendMessage(h) => TypeInv'
<1> SUFFICES ASSUME TypeInv, NEW h \in Handlers, SendMessage(h) PROVE TypeInv'
  OBVIOUS
<1>1. TasksOK'
  <2>1. TaskOK(tasks'[h], Channel)
    BY SendMessageDoes, TaskFacts, WorldFacts, IdleOK, NewObjectFree
       DEF TaskOK, Stage, InRoom, OfUser, OfChannel, OfMatrix, Ways, Continued, TypeInv
  <2> QED
    BY <2>1, SendMessageDoes, TurnKeepsTypes DEF TypeInv, slack
<1>2. MatrixOK'
  BY SendMessageDoes, TaskFacts, WorldFacts
     DEF TypeInv, MatrixOK
<1> QED
  BY <1>1, <1>2, SendMessageDoes,
     SlackOKKept, SlackQueueOKKept, MatrixQueueOKKept, BridgedOKKept, ToSyncOKKept, HistoryOKKept,
     GhostsTypeOKKept
     DEF TypeInv, slack, queues, matrix, bridge, ghostVars

LEMMA FindExistingTypes == TypeInv => \A h \in Handlers : FindExisting(h) => TypeInv'
<1> SUFFICES ASSUME TypeInv, NEW h \in Handlers, FindExisting(h) PROVE TypeInv'
  OBVIOUS
<1>1. TasksOK'
  <2>1. TaskOK(tasks'[h], Channel)
    BY FindExistingDoes, TaskFacts, WorldFacts, IdleOK, NewObjectFree
       DEF TaskOK, Stage, InRoom, OfUser, OfChannel, OfMatrix, Ways, Continued, TypeInv
  <2> QED
    BY <2>1, FindExistingDoes, TurnKeepsTypes DEF TypeInv, slack
<1>2. GhostsTypeOK'
  BY FindExistingDoes, NewObjectFree, GhostsTypeOKKept, GhostStoreTypes DEF TypeInv
<1> QED
  BY <1>1, <1>2, FindExistingDoes,
     SlackOKKept, SlackQueueOKKept, MatrixQueueOKKept, MatrixOKKept, BridgedOKKept, ToSyncOKKept,
     HistoryOKKept
     DEF TypeInv, slack, queues, matrix, bridge, ghostVars

LEMMA UpdateUserTypes == TypeInv => \A h \in Handlers : UpdateUser(h) => TypeInv'
<1> SUFFICES ASSUME TypeInv, NEW h \in Handlers, UpdateUser(h) PROVE TypeInv'
  OBVIOUS
<1>1. TasksOK'
  <2>1. TaskOK(tasks'[h], Channel)
    BY UpdateUserDoes, TaskFacts, WorldFacts, IdleOK, NewObjectFree
       DEF TaskOK, Stage, InRoom, OfUser, OfChannel, OfMatrix, Ways, Continued, TypeInv
  <2> QED
    BY <2>1, UpdateUserDoes, TurnKeepsTypes DEF TypeInv, slack
<1>2. GhostsTypeOK'
  BY UpdateUserDoes, TaskFacts, WorldFacts, GhostsTypeOKKept
     DEF TypeInv, GhostsTypeOK, SetDisplayName, ghostVars
<1> QED
  BY <1>1, <1>2, UpdateUserDoes,
     SlackOKKept, SlackQueueOKKept, MatrixQueueOKKept, MatrixOKKept, BridgedOKKept, ToSyncOKKept,
     HistoryOKKept
     DEF TypeInv, slack, queues, matrix, bridge, ghostVars

LEMMA AvatarFailsTypes == TypeInv => \A h \in Handlers : AvatarFails(h) => TypeInv'
<1> SUFFICES ASSUME TypeInv, NEW h \in Handlers, AvatarFails(h) PROVE TypeInv'
  OBVIOUS
<1>1. TasksOK'
  <2>1. TaskOK(tasks'[h], Channel)
    BY AvatarFailsDoes, TaskFacts, WorldFacts, IdleOK, NewObjectFree
       DEF TaskOK, Stage, InRoom, OfUser, OfChannel, OfMatrix, Ways, Continued, TypeInv
  <2> QED
    BY <2>1, AvatarFailsDoes, TurnKeepsTypes DEF TypeInv, slack
<1>2. HistoryOK'
  BY AvatarFailsDoes, TaskFacts, WorldFacts
     DEF TypeInv, HistoryOK, bridge, slack, Expected, Puppet
<1>3. GhostsTypeOK'
  BY AvatarFailsDoes, GhostsTypeOKKept, GhostStoreTypes DEF TypeInv
<1> QED
  BY <1>1, <1>2, <1>3, AvatarFailsDoes,
     SlackOKKept, SlackQueueOKKept, MatrixQueueOKKept, MatrixOKKept, BridgedOKKept, ToSyncOKKept
     DEF TypeInv, slack, queues, matrix, bridge, ghostVars

LEMMA HideUserTypes == TypeInv => \A h \in Handlers : HideUser(h) => TypeInv'
<1> SUFFICES ASSUME TypeInv, NEW h \in Handlers, HideUser(h) PROVE TypeInv'
  OBVIOUS
<1>1. TasksOK'
  <2>1. TaskOK(tasks'[h], Channel)
    BY HideUserDoes, TaskFacts, WorldFacts, IdleOK, NewObjectFree
       DEF TaskOK, Stage, InRoom, OfUser, OfChannel, OfMatrix, Ways, Continued, TypeInv
  <2> QED
    BY <2>1, HideUserDoes, TurnKeepsTypes DEF TypeInv, slack
<1>2. GhostsTypeOK'
  BY HideUserDoes, TaskFacts, WorldFacts
     DEF TypeInv, GhostsTypeOK, SetDisplayName
<1> QED
  BY <1>1, <1>2, HideUserDoes,
     SlackOKKept, SlackQueueOKKept, MatrixQueueOKKept, MatrixOKKept, BridgedOKKept, ToSyncOKKept,
     HistoryOKKept
     DEF TypeInv, slack, queues, matrix, bridge, ghostVars

LEMMA ListRoomsTypes == TypeInv => \A h \in Handlers : ListRooms(h) => TypeInv'
<1> SUFFICES ASSUME TypeInv, NEW h \in Handlers, ListRooms(h) PROVE TypeInv'
  OBVIOUS
<1>1. TasksOK'
  <2>1. TaskOK(tasks'[h], Channel)
    BY ListRoomsDoes, TaskFacts, WorldFacts, IdleOK, NewObjectFree
       DEF TaskOK, Stage, InRoom, OfUser, OfChannel, OfMatrix, Ways, Continued, TypeInv
  <2> QED
    BY <2>1, ListRoomsDoes, TurnKeepsTypes DEF TypeInv, slack
<1> QED
  BY <1>1, ListRoomsDoes,
     SlackOKKept, SlackQueueOKKept, MatrixQueueOKKept, MatrixOKKept, BridgedOKKept, ToSyncOKKept,
     HistoryOKKept, GhostsTypeOKKept
     DEF TypeInv, slack, queues, matrix, bridge, ghostVars

LEMMA LeaveRoomsTypes == TypeInv => \A h \in Handlers : LeaveRooms(h) => TypeInv'
<1> SUFFICES ASSUME TypeInv, NEW h \in Handlers, LeaveRooms(h) PROVE TypeInv'
  OBVIOUS
<1>1. TasksOK'
  <2>1. TaskOK(tasks'[h], Channel)
    BY LeaveRoomsDoes, TaskFacts, WorldFacts, IdleOK, NewObjectFree
       DEF TaskOK, Stage, InRoom, OfUser, OfChannel, OfMatrix, Ways, Continued, TypeInv
  <2> QED
    BY <2>1, LeaveRoomsDoes, TurnKeepsTypes DEF TypeInv, slack
<1>2. MatrixOK'
  BY LeaveRoomsDoes, TaskFacts, WorldFacts
     DEF TypeInv, MatrixOK
<1>3. HistoryOK'
  BY LeaveRoomsDoes, TaskFacts, WorldFacts
     DEF TypeInv, HistoryOK, bridge, slack, Expected, Puppet
<1> QED
  BY <1>1, <1>2, <1>3, LeaveRoomsDoes,
     SlackOKKept, SlackQueueOKKept, MatrixQueueOKKept, BridgedOKKept, ToSyncOKKept,
     GhostsTypeOKKept
     DEF TypeInv, slack, queues, matrix, bridge, ghostVars

LEMMA AskBotInTypes == TypeInv => \A h \in Handlers : AskBotIn(h) => TypeInv'
<1> SUFFICES ASSUME TypeInv, NEW h \in Handlers, AskBotIn(h) PROVE TypeInv'
  OBVIOUS
<1>1. TasksOK'
  <2>1. TaskOK(tasks'[h], Channel)
    BY AskBotInDoes, TaskFacts, WorldFacts, IdleOK, NewObjectFree
       DEF TaskOK, Stage, InRoom, OfUser, OfChannel, OfMatrix, Ways, Continued, TypeInv
  <2> QED
    BY <2>1, AskBotInDoes, TurnKeepsTypes DEF TypeInv, slack
<1>2. SlackOK'
  BY AskBotInDoes, TaskFacts, WorldFacts
     DEF TypeInv, SlackOK, Channel
<1>3. HistoryOK'
  BY AskBotInDoes, TaskFacts, WorldFacts
     DEF TypeInv, bridge, HistoryOK, Expected, Puppet, SlackOK, Channel
<1> QED
  BY <1>1, <1>2, <1>3, AskBotInDoes,
     SlackQueueOKKept, MatrixQueueOKKept, MatrixOKKept, BridgedOKKept, ToSyncOKKept,
     GhostsTypeOKKept
     DEF TypeInv, slack, queues, matrix, bridge, ghostVars

LEMMA NoCreatorTypes == TypeInv => \A h \in Handlers : NoCreator(h) => TypeInv'
<1> SUFFICES ASSUME TypeInv, NEW h \in Handlers, NoCreator(h) PROVE TypeInv'
  OBVIOUS
<1>1. TasksOK'
  <2>1. TaskOK(tasks'[h], Channel)
    BY NoCreatorDoes, TaskFacts, WorldFacts, IdleOK, NewObjectFree
       DEF TaskOK, Stage, InRoom, OfUser, OfChannel, OfMatrix, Ways, Continued, TypeInv
  <2> QED
    BY <2>1, NoCreatorDoes, TurnKeepsTypes DEF TypeInv, slack
<1> QED
  BY <1>1, NoCreatorDoes,
     SlackOKKept, SlackQueueOKKept, MatrixQueueOKKept, MatrixOKKept, BridgedOKKept, ToSyncOKKept,
     HistoryOKKept, GhostsTypeOKKept
     DEF TypeInv, slack, queues, matrix, bridge, ghostVars

LEMMA BridgeChannelTypes == TypeInv => \A h \in Handlers : BridgeChannel(h) => TypeInv'
<1> SUFFICES ASSUME TypeInv, NEW h \in Handlers, BridgeChannel(h) PROVE TypeInv'
  OBVIOUS
<1>1. TasksOK'
  <2>1. CASE tasks'[h] = Idle
    BY <2>1, IdleOK, BridgeChannelDoes, TurnKeepsTypes DEF TypeInv, slack
  <2>2. CASE ChannelTask(tasks'[h], tasks[h].channel, "ensureBot")
    <3>1. TaskOK(tasks'[h], Channel)
      BY <2>2, BridgeChannelDoes, TypeInvTypeOK
         DEF TaskOK, Stage, InRoom, OfUser, OfChannel, OfMatrix, ChannelTask
    <3> QED
      BY <3>1, BridgeChannelDoes, TurnKeepsTypes DEF TypeInv, slack
  <2> QED
    BY <2>1, <2>2, BridgeChannelDoes
<1>2. MatrixOK'
  <2>1. CASE Bridges(tasks[h])
    <3>1. \A u \in people[tasks[h].channel] : Puppet(u) \in MatrixUsers \cup {None}
      BY BridgeChannelDoes, WorldFacts DEF TypeInv, SlackOK
    <3>2. invited' \subseteq MatrixUsers \X Channels
      BY <2>1, <3>1, BridgeChannelDoes DEF TypeInv, MatrixOK, Bridges
    <3>3. ghostsIn' \in [Channels -> SUBSET Folk] /\ botIn' \subseteq Channels
      BY <2>1, BridgeChannelDoes DEF TypeInv, MatrixOK, Bridges, Creator
    <3> QED
      BY <3>2, <3>3, BridgeChannelDoes DEF TypeInv, MatrixOK
  <2> QED
    BY <2>1, BridgeChannelDoes, MatrixOKKept DEF TypeInv, matrix
<1>3. BridgedOK'
  BY BridgeChannelDoes, TaskFacts, WorldFacts
     DEF TypeInv, BridgedOK, Channel, slack, Bridges
<1>4. ToSyncOK'
  BY BridgeChannelDoes, TaskFacts, WorldFacts
     DEF TypeInv, ToSyncOK, Channel, slack, Bridges
<1>5. HistoryOK'
  BY BridgeChannelDoes, TaskFacts, WorldFacts
     DEF TypeInv, HistoryOK, slack, Expected, Puppet, SlackOK, Channel, Bridges, Creator
<1> QED
  BY <1>1, <1>2, <1>3, <1>4, <1>5, BridgeChannelDoes,
     SlackOKKept, SlackQueueOKKept, MatrixQueueOKKept, GhostsTypeOKKept
     DEF TypeInv, slack, queues, matrix, bridge, ghostVars

LEMMA EnsureBotTypes == TypeInv => \A h \in Handlers : EnsureBot(h) => TypeInv'
<1> SUFFICES ASSUME TypeInv, NEW h \in Handlers, EnsureBot(h) PROVE TypeInv'
  OBVIOUS
<1>1. TasksOK'
  <2>1. TaskOK(tasks'[h], Channel)
    BY EnsureBotDoes, TaskFacts, WorldFacts, IdleOK, NewObjectFree
       DEF TaskOK, Stage, InRoom, OfUser, OfChannel, OfMatrix, Ways, Continued, TypeInv
  <2> QED
    BY <2>1, EnsureBotDoes, TurnKeepsTypes DEF TypeInv, slack
<1>2. SlackOK'
  BY EnsureBotDoes, TaskFacts, WorldFacts
     DEF TypeInv, SlackOK, Channel
<1>3. HistoryOK'
  BY EnsureBotDoes, TaskFacts, WorldFacts
     DEF TypeInv, bridge, HistoryOK, Expected, Puppet, SlackOK, Channel
<1> QED
  BY <1>1, <1>2, <1>3, EnsureBotDoes,
     SlackQueueOKKept, MatrixQueueOKKept, MatrixOKKept, BridgedOKKept, ToSyncOKKept,
     GhostsTypeOKKept
     DEF TypeInv, slack, queues, matrix, bridge, ghostVars

LEMMA ListGhostsTypes == TypeInv => \A h \in Handlers : ListGhosts(h) => TypeInv'
<1> SUFFICES ASSUME TypeInv, NEW h \in Handlers, ListGhosts(h) PROVE TypeInv'
  OBVIOUS
<1>1. TasksOK'
  <2>1. TaskOK(tasks'[h], Channel)
    BY ListGhostsDoes, TaskFacts, WorldFacts, IdleOK, NewObjectFree
       DEF TaskOK, Stage, InRoom, OfUser, OfChannel, OfMatrix, Ways, Continued, TypeInv
  <2> QED
    BY <2>1, ListGhostsDoes, TurnKeepsTypes DEF TypeInv, slack
<1> QED
  BY <1>1, ListGhostsDoes,
     SlackOKKept, SlackQueueOKKept, MatrixQueueOKKept, MatrixOKKept, BridgedOKKept, ToSyncOKKept,
     HistoryOKKept, GhostsTypeOKKept
     DEF TypeInv, slack, queues, matrix, bridge, ghostVars

LEMMA ListMembersTypes == TypeInv => \A h \in Handlers : ListMembers(h) => TypeInv'
<1> SUFFICES ASSUME TypeInv, NEW h \in Handlers, ListMembers(h) PROVE TypeInv'
  OBVIOUS
<1>1. TasksOK'
  <2>1. TaskOK(tasks'[h], Channel)
    BY ListMembersDoes, TaskFacts, WorldFacts, IdleOK, NewObjectFree
       DEF TaskOK, Stage, InRoom, OfUser, OfChannel, OfMatrix, Ways, Continued, TypeInv
  <2> QED
    BY <2>1, ListMembersDoes, TurnKeepsTypes DEF TypeInv, slack
<1>2. MatrixOK'
  BY ListMembersDoes, TaskFacts, WorldFacts
     DEF TypeInv, MatrixOK
<1>3. HistoryOK'
  BY ListMembersDoes, TaskFacts, WorldFacts
     DEF TypeInv, bridge, slack, HistoryOK, Expected, Puppet, SlackOK
<1>4. GhostsTypeOK'
  <2>1. rows' \in [Folk -> Names \cup {Unnamed, NoRow}]
    BY ListMembersDoes DEF TypeInv, GhostsTypeOK
  <2> QED
    BY <2>1, ListMembersDoes DEF TypeInv, GhostsTypeOK
<1> QED
  BY <1>1, <1>2, <1>3, <1>4, ListMembersDoes,
     SlackOKKept, SlackQueueOKKept, MatrixQueueOKKept, BridgedOKKept, ToSyncOKKept
     DEF TypeInv, slack, queues, matrix, bridge, ghostVars

LEMMA MoveMembersTypes == TypeInv => \A h \in Handlers : MoveMembers(h) => TypeInv'
<1> SUFFICES ASSUME TypeInv, NEW h \in Handlers, MoveMembers(h) PROVE TypeInv'
  OBVIOUS
<1>1. TasksOK'
  <2>1. TaskOK(tasks'[h], Channel)
    BY MoveMembersDoes, TaskFacts, WorldFacts, IdleOK, NewObjectFree
       DEF TaskOK, Stage, InRoom, OfUser, OfChannel, OfMatrix, Ways, Continued, TypeInv
  <2> QED
    BY <2>1, MoveMembersDoes, TurnKeepsTypes DEF TypeInv, slack
<1>2. MatrixOK'
  BY MoveMembersDoes, TaskFacts, WorldFacts
     DEF TypeInv, MatrixOK
<1>3. HistoryOK'
  BY MoveMembersDoes, TaskFacts, WorldFacts
     DEF TypeInv, bridge, slack, HistoryOK, Expected, Puppet, SlackOK
<1> QED
  BY <1>1, <1>2, <1>3, MoveMembersDoes,
     SlackOKKept, SlackQueueOKKept, MatrixQueueOKKept, BridgedOKKept, ToSyncOKKept,
     GhostsTypeOKKept
     DEF TypeInv, slack, queues, matrix, bridge, ghostVars

LEMMA UnlinkDeletedTypes == TypeInv => \A h \in Handlers : UnlinkDeleted(h) => TypeInv'
<1> SUFFICES ASSUME TypeInv, NEW h \in Handlers, UnlinkDeleted(h) PROVE TypeInv'
  OBVIOUS
<1>1. TasksOK'
  <2>1. TaskOK(tasks'[h], Channel)
    BY UnlinkDeletedDoes, TaskFacts, WorldFacts, IdleOK, NewObjectFree
       DEF TaskOK, Stage, InRoom, OfUser, OfChannel, OfMatrix, Ways, Continued, TypeInv
  <2> QED
    BY <2>1, UnlinkDeletedDoes, TurnKeepsTypes DEF TypeInv, slack
<1>2. BridgedOK'
  BY UnlinkDeletedDoes, TaskFacts, WorldFacts
     DEF TypeInv, BridgedOK, slack, Channel
<1>3. HistoryOK'
  BY UnlinkDeletedDoes, TaskFacts, WorldFacts
     DEF TypeInv, HistoryOK, slack, Expected, Puppet
<1> QED
  BY <1>1, <1>2, <1>3, UnlinkDeletedDoes,
     SlackOKKept, SlackQueueOKKept, MatrixQueueOKKept, MatrixOKKept, ToSyncOKKept,
     GhostsTypeOKKept
     DEF TypeInv, slack, queues, matrix, bridge, ghostVars

LEMMA DrainRoomTypes == TypeInv => \A h \in Handlers : DrainRoom(h) => TypeInv'
<1> SUFFICES ASSUME TypeInv, NEW h \in Handlers, DrainRoom(h) PROVE TypeInv'
  OBVIOUS
<1>1. TasksOK'
  <2>1. TaskOK(tasks'[h], Channel)
    BY DrainRoomDoes, TaskFacts, WorldFacts, IdleOK, NewObjectFree
       DEF TaskOK, Stage, InRoom, OfUser, OfChannel, OfMatrix, Ways, Continued, TypeInv
  <2> QED
    BY <2>1, DrainRoomDoes, TurnKeepsTypes DEF TypeInv, slack
<1>2. MatrixOK'
  BY DrainRoomDoes, TaskFacts, WorldFacts
     DEF TypeInv, MatrixOK
<1>3. BridgedOK'
  BY DrainRoomDoes, TaskFacts, WorldFacts
     DEF TypeInv, BridgedOK, slack, Channel
<1>4. HistoryOK'
  BY DrainRoomDoes, TaskFacts, WorldFacts
     DEF TypeInv, bridge, slack, HistoryOK, Expected, Puppet, SlackOK
<1> QED
  BY <1>1, <1>2, <1>3, <1>4, DrainRoomDoes,
     SlackOKKept, SlackQueueOKKept, MatrixQueueOKKept, ToSyncOKKept, GhostsTypeOKKept
     DEF TypeInv, slack, queues, matrix, bridge, ghostVars

LEMMA BotJoinsTypes == TypeInv => \A h \in Handlers : BotJoins(h) => TypeInv'
<1> SUFFICES ASSUME TypeInv, NEW h \in Handlers, BotJoins(h) PROVE TypeInv'
  OBVIOUS
<1>1. TasksOK'
  <2>1. TaskOK(tasks'[h], Channel)
    BY BotJoinsDoes, TaskFacts, WorldFacts, IdleOK, NewObjectFree
       DEF TaskOK, Stage, InRoom, OfUser, OfChannel, OfMatrix, Ways, Continued, TypeInv
  <2> QED
    BY <2>1, BotJoinsDoes, TurnKeepsTypes DEF TypeInv, slack
<1>2. MatrixOK'
  BY BotJoinsDoes, TaskFacts, WorldFacts
     DEF TypeInv, MatrixOK
<1>3. BridgedOK'
  BY BotJoinsDoes, TaskFacts, WorldFacts
     DEF TypeInv, BridgedOK, slack, Channel
<1> QED
  BY <1>1, <1>2, <1>3, BotJoinsDoes,
     SlackOKKept, SlackQueueOKKept, MatrixQueueOKKept, ToSyncOKKept, HistoryOKKept,
     GhostsTypeOKKept
     DEF TypeInv, slack, queues, matrix, bridge, ghostVars

LEMMA PuppetJoinsTypes == TypeInv => \A h \in Handlers : PuppetJoins(h) => TypeInv'
<1> SUFFICES ASSUME TypeInv, NEW h \in Handlers, PuppetJoins(h) PROVE TypeInv'
  OBVIOUS
<1>1. TasksOK'
  <2>1. tasks[h].mx \in MatrixUsers /\ tasks[h].channel \in Channels /\ tasks[h].user = None
    BY PuppetJoinsDoes
  <2>2. CASE tasks'[h] = Idle
    BY <2>2, IdleOK, PuppetJoinsDoes, TurnKeepsTypes DEF TypeInv, slack
  <2>3. CASE Continued(tasks'[h], tasks[h]) /\ tasks'[h].pc = "onboard"
                 /\ tasks'[h].folk = tasks[h].folk /\ tasks'[h].next = tasks[h].next
    <3>1. TaskOK(tasks'[h], Channel)
      BY <2>1, <2>3, TaskFacts, PuppetJoinsDoes
         DEF TaskOK, Stage, InRoom, OfUser, OfChannel, OfMatrix, Continued
    <3> QED
      BY <3>1, PuppetJoinsDoes, TurnKeepsTypes DEF TypeInv, slack
  <2> QED
    BY <2>2, <2>3, PuppetJoinsDoes
<1>2. SlackQueueOK'
  <2>1. CASE slackQueue' = slackQueue
    BY <2>1, PuppetJoinsDoes, SlackQueueOKKept DEF TypeInv
  <2>2. ASSUME NEW u \in world.folk, tasks[h].channel \in open,
               Sent(Event("joined", u, tasks[h].channel, None, FALSE))
        PROVE  SlackQueueOK'
    <3>1. /\ u \in Folk /\ Channel' = Channel /\ closed' = closed /\ world' = world
          /\ tasks[h].channel \in Channel /\ tasks[h].channel \in Channels
      BY <2>2, PuppetJoinsDoes, WorldFacts DEF Channel, TypeInv
    <3> QED
      BY <2>2, <3>1, SentEventTypes DEF TypeInv
  <2> QED
    BY <2>1, <2>2, PuppetJoinsDoes DEF JoinsSlack
<1>3. (SlackOK /\ HistoryOK)'
  <2>1. CASE people' = people
    BY <2>1, PuppetJoinsDoes, SlackOKKept, HistoryOKKept DEF TypeInv, bridge
  <2>2. ASSUME NEW joining \in SUBSET ((world.folk \ gone) \ people[tasks[h].channel]),
               tasks[h].channel \in open,
               people' = [people EXCEPT ![tasks[h].channel] = @ \cup joining]
        PROVE  (SlackOK /\ HistoryOK)'
    <3>1. /\ joining \subseteq Folk \ gone /\ tasks[h].channel \in Channels
          /\ UNCHANGED <<world, open, closed, gone, bridge, due, crossed>>
      BY PuppetJoinsDoes, WorldFacts DEF TypeInv
    <3>2. SlackOK'
      BY <2>2, <3>1 DEF TypeInv, SlackOK, Channel
    <3>3. HistoryOK'
      BY <2>2, <3>1 DEF TypeInv, HistoryOK, SlackOK, bridge, Expected, Puppet
    <3> QED
      BY <3>2, <3>3
  <2> QED
    BY <2>1, <2>2, PuppetJoinsDoes DEF JoinsSlack
<1> QED
  BY <1>1, <1>2, <1>3, PuppetJoinsDoes,
     MatrixQueueOKKept, MatrixOKKept, BridgedOKKept, ToSyncOKKept, GhostsTypeOKKept
     DEF TypeInv, slack, queues, matrix, bridge, ghostVars

LEMMA OnboardTypes == TypeInv => \A h \in Handlers : Onboard(h) => TypeInv'
<1> SUFFICES ASSUME TypeInv, NEW h \in Handlers, Onboard(h) PROVE TypeInv'
  OBVIOUS
<1>1. TasksOK'
  <2>1. TaskOK(tasks'[h], Channel)
    BY OnboardDoes, TaskFacts, WorldFacts, IdleOK, NewObjectFree
       DEF TaskOK, Stage, InRoom, OfUser, OfChannel, OfMatrix, Ways, Continued, TypeInv
  <2> QED
    BY <2>1, OnboardDoes, TurnKeepsTypes DEF TypeInv, slack
<1> QED
  BY <1>1, OnboardDoes,
     SlackOKKept, SlackQueueOKKept, MatrixQueueOKKept, MatrixOKKept, BridgedOKKept, ToSyncOKKept,
     HistoryOKKept, GhostsTypeOKKept
     DEF TypeInv, slack, queues, matrix, bridge, ghostVars

LEMMA CreateAdminRoomTypes == TypeInv => \A h \in Handlers : CreateAdminRoom(h) => TypeInv'
<1> SUFFICES ASSUME TypeInv, NEW h \in Handlers, CreateAdminRoom(h) PROVE TypeInv'
  OBVIOUS
<1>1. TasksOK'
  <2>1. TaskOK(tasks'[h], Channel)
    BY CreateAdminRoomDoes, TaskFacts, WorldFacts, IdleOK, NewObjectFree
       DEF TaskOK, Stage, InRoom, OfUser, OfChannel, OfMatrix, Ways, Continued, TypeInv
  <2> QED
    BY <2>1, CreateAdminRoomDoes, TurnKeepsTypes DEF TypeInv, slack
<1>2. MatrixOK'
  BY CreateAdminRoomDoes, TaskFacts, WorldFacts
     DEF TypeInv, MatrixOK
<1> QED
  BY <1>1, <1>2, CreateAdminRoomDoes,
     SlackOKKept, SlackQueueOKKept, MatrixQueueOKKept, BridgedOKKept, ToSyncOKKept, HistoryOKKept,
     GhostsTypeOKKept
     DEF TypeInv, slack, queues, matrix, bridge, ghostVars

LEMMA StoreAdminRoomTypes == TypeInv => \A h \in Handlers : StoreAdminRoom(h) => TypeInv'
<1> SUFFICES ASSUME TypeInv, NEW h \in Handlers, StoreAdminRoom(h) PROVE TypeInv'
  OBVIOUS
<1>1. TasksOK'
  <2>1. TaskOK(tasks'[h], Channel)
    BY StoreAdminRoomDoes, TaskFacts, WorldFacts, IdleOK, NewObjectFree
       DEF TaskOK, Stage, InRoom, OfUser, OfChannel, OfMatrix, Ways, Continued, TypeInv
  <2> QED
    BY <2>1, StoreAdminRoomDoes, TurnKeepsTypes DEF TypeInv, slack
<1>2. BridgedOK'
  BY StoreAdminRoomDoes, TaskFacts, WorldFacts
     DEF TypeInv, BridgedOK, slack, Channel
<1> QED
  BY <1>1, <1>2, StoreAdminRoomDoes,
     SlackOKKept, SlackQueueOKKept, MatrixQueueOKKept, MatrixOKKept, ToSyncOKKept, HistoryOKKept,
     GhostsTypeOKKept
     DEF TypeInv, slack, queues, matrix, bridge, ghostVars

\* The handlers that begin.
RoomTask(u, c, way) ==
    [Idle EXCEPT !.pc = "get", !.next = way, !.user = u, !.channel = c]

UnlinkTask(c) == [Idle EXCEPT !.pc = "unlink", !.channel = c]

BotTask(c) == [Idle EXCEPT !.pc = "botJoin", !.channel = c]

PuppetTask(c, m) == [Idle EXCEPT !.pc = "slackJoin", !.channel = c, !.mx = m]

ListedTask(listed) ==
    [SyncUser(listed.user, listed.name, listed.deleted) EXCEPT !.synced = TRUE]

LEMMA RoomTaskFacts ==
  ASSUME NEW u \in Folk, NEW c \in Channels, NEW way \in Ways
  PROVE  LET t == RoomTask(u, c, way) IN
         /\ t \in Tasks /\ t.pc = "get" /\ t.next = way /\ t.user = u /\ t.channel = c
         /\ t.name = None /\ ~t.flag /\ t.object = None /\ t.mx = None /\ t.folk = {}
         /\ t.rooms = {} /\ ~t.synced
  BY DEF RoomTask, Idle, Tasks, Pcs, Ways

LEMMA SyncUserFacts ==
  ASSUME NEW u \in Folk, NEW n \in Names, NEW f \in BOOLEAN
  PROVE  LET t == SyncUser(u, n, f) IN
         /\ t \in Tasks /\ t.pc = "existing" /\ t.next = "idle" /\ t.user = u /\ t.channel = None
         /\ t.name = n /\ (t.flag <=> f) /\ t.object = None /\ t.mx = None /\ t.folk = {}
         /\ t.rooms = {} /\ ~t.synced
  BY DEF SyncUser, Idle, Tasks, Pcs

LEMMA ListedTaskFacts ==
  ASSUME NEW listed \in Listed
  PROVE  LET t == ListedTask(listed) IN
         /\ t \in Tasks /\ t.pc = "existing" /\ t.next = "idle" /\ t.user = listed.user
         /\ t.channel = None /\ t.name = listed.name /\ (t.flag <=> listed.deleted)
         /\ t.object = None /\ t.mx = None /\ t.folk = {} /\ t.rooms = {} /\ t.synced
  BY DEF ListedTask, SyncUser, Idle, Tasks, Pcs, Listed

\* ... and is to link it.
BridgeTask(c) ==
    [Idle EXCEPT !.pc = "askBot", !.next = "bridge", !.user = world.creator[c], !.channel = c]

LEMMA BridgeTaskFacts ==
  ASSUME NEW c \in Channels, world.creator[c] \in Folk
  PROVE  LET t == BridgeTask(c) IN
         /\ t \in Tasks /\ t.pc = "askBot" /\ t.next = "bridge" /\ t.user = world.creator[c]
         /\ t.channel = c /\ t.name = None /\ ~t.flag /\ t.object = None /\ t.mx = None
         /\ t.folk = {} /\ t.rooms = {} /\ ~t.synced
  BY DEF BridgeTask, Idle, Tasks, Pcs

LEMMA ChannelTaskFacts ==
  ASSUME NEW c \in Channels
  PROVE  /\ ChannelTask(UnlinkTask(c), c, "unlink")
         /\ ChannelTask(BotTask(c), c, "botJoin")
         /\ \A m \in MatrixUsers :
               ChannelTask(PuppetTask(c, m), c, "slackJoin") /\ PuppetTask(c, m).mx = m
         /\ \/ SyncChannel(c) = Idle /\ ~(SyncAllows(c, c \in world.hidden) /\ ListAllows(c))
            \/ /\ SyncAllows(c, c \in world.hidden) /\ ListAllows(c)
               /\ c \in bridged => ChannelTask(SyncChannel(c), c, "ensureBot")
               /\ c \notin bridged => SyncChannel(c) = BridgeTask(c)
<1> USE DEF ChannelTask, Idle, Tasks, Pcs
<1>1. ChannelTask(UnlinkTask(c), c, "unlink")
  BY DEF UnlinkTask
<1>2. ChannelTask(BotTask(c), c, "botJoin")
  BY DEF BotTask
<1>3. ASSUME NEW m \in MatrixUsers
      PROVE  ChannelTask(PuppetTask(c, m), c, "slackJoin") /\ PuppetTask(c, m).mx = m
  BY DEF PuppetTask
<1>4. ChannelTask(EnsureTask(c), c, "ensureBot")
  BY EnsureTaskFacts
<1>5. \/ SyncChannel(c) = Idle /\ ~(SyncAllows(c, c \in world.hidden) /\ ListAllows(c))
      \/ /\ SyncAllows(c, c \in world.hidden) /\ ListAllows(c)
         /\ c \in bridged => SyncChannel(c) = EnsureTask(c)
         /\ c \notin bridged => SyncChannel(c) = BridgeTask(c)
  BY Zenon DEF SyncChannel, EnsureTask, BridgeTask
<1> HIDE DEF ChannelTask, Idle
<1> QED
  BY <1>1, <1>2, <1>3, <1>4, <1>5

\* The first of Slack's events.
LEMMA HeadFacts ==
  ASSUME TypeInv, slackQueue # <<>>
  PROVE  LET e == Head(slackQueue) IN
         /\ e = slackQueue[1] /\ e \in SlackEvents /\ SlackEventOK(e, Channel)
         /\ e.user \in Folk \cup {None} /\ e.channel \in Channels \cup {None}
         /\ e.name \in Names \cup {None} /\ e.flag \in BOOLEAN
         /\ e.type \in {"joined", "left", "user", "created", "deleted", "message"}
         /\ e.type = "deleted" => e.channel \in closed
<1>1. slackQueue \in Seq(SlackEvents)
  BY DEF TypeInv, SlackQueueOK
<1>2. Head(slackQueue) = slackQueue[1] /\ slackQueue[1] \in SlackEvents /\ 1 \in 1..Len(slackQueue)
  BY <1>1, TailFacts
<1>3. \A e \in SlackEvents :
         /\ e.user \in Folk \cup {None} /\ e.channel \in Channels \cup {None}
         /\ e.name \in Names \cup {None} /\ e.flag \in BOOLEAN
         /\ e.type \in {"joined", "left", "user", "created", "deleted", "message"}
  BY DEF SlackEvents
<1>4. /\ SlackEventOK(slackQueue[1], Channel)
      /\ (slackQueue[1].type = "deleted" => slackQueue[1].channel \in closed)
  BY <1>2 DEF TypeInv, SlackQueueOK
<1> QED
  BY <1>2, <1>3, <1>4

\* What a handler does with an event.
Handles(h, e) ==
    \/ tasks' = tasks
    \/ /\ e.type \in {"joined", "left", "message"} /\ e.channel \in bridged
       /\ \E way \in Ways :
             /\ way \in {"inviteUser", "inviteAs"} => Puppet(e.user) # None
             /\ way = "leave" <=> e.type = "left"
             /\ way = "message" <=> e.type = "message"
             /\ e.type = "joined" /\ Expected(e.user) => way = "join"
             /\ Start(h, RoomTask(e.user, e.channel, way))
    \/ e.type = "user" /\ Start(h, SyncUser(e.user, e.name, e.flag))
    \/ e.type = "created" /\ e.channel \in open /\ Start(h, SyncChannel(e.channel))
    \/ /\ e.type = "deleted" /\ SyncAllowsDeletion(e.channel) /\ e.channel \in bridged
       /\ Start(h, UnlinkTask(e.channel))

LEMMA HandleSlackDoes ==
  ASSUME TypeInv, NEW h \in Handlers, HandleSlack(h)
  PROVE  LET e == Head(slackQueue) IN
         /\ slackQueue # <<>> /\ slackQueue' = Tail(slackQueue) /\ tasks[h].pc = "idle"
         /\ Handles(h, e)
         /\ crossed' = crossed \cup CrossedBy(h, Users(e), e.channel) \cup Awaited(e)
         /\ UNCHANGED <<world, slack, matrixQueue, matrix, bridge, ghostVars, moved>>
         /\ \/ due' = due
            \/ /\ e.type = "joined" /\ e.channel \in bridged \cap open
               /\ Expected(e.user) /\ e.user \in people[e.channel]
               /\ due' = due \cup {<<e.user, e.channel>>}
         /\ e.type = "user" => Start(h, SyncUser(e.user, e.name, e.flag))
         /\ e.type = "joined" /\ e.channel \in bridged /\ Expected(e.user) =>
                Start(h, RoomTask(e.user, e.channel, "join"))
         /\ e.type = "left" /\ e.channel \in bridged =>
                Start(h, RoomTask(e.user, e.channel, "leave"))
         /\ e.type = "created" /\ e.channel \in open => Start(h, SyncChannel(e.channel))
         /\ e.type = "deleted" /\ SyncAllowsDeletion(e.channel) /\ e.channel \in bridged =>
                Start(h, UnlinkTask(e.channel))
<1> DEFINE e == Head(slackQueue)
<1>1. /\ slackQueue # <<>> /\ slackQueue' = Tail(slackQueue) /\ tasks[h].pc = "idle"
      /\ crossed' = crossed \cup CrossedBy(h, Users(e), e.channel) \cup Awaited(e)
      /\ UNCHANGED <<world, slack, matrixQueue, matrix, bridge, ghostVars, moved>>
  BY DEF HandleSlack, At
<1>2. e.type \in {"joined", "left", "user", "created", "deleted", "message"}
  BY <1>1, HeadFacts
<1>3. CASE e.type = "joined"
  <2>1. HandleJoined(h, e)
    BY <1>3 DEF HandleSlack
  <2>2. WayIn(e.user, e.flag) \in {"join", "inviteUser", "inviteAs"}
    BY DEF WayIn
  <2>3. /\ WayIn(e.user, e.flag) \in {"inviteUser", "inviteAs"} => Puppet(e.user) # None
        /\ Expected(e.user) => WayIn(e.user, e.flag) = "join"
    BY DEF WayIn, Expected
  <2> HIDE DEF e
  <2> QED
    BY <1>1, <1>3, <2>1, <2>2, <2>3 DEF HandleJoined, Handles, RoomTask, Expected, Ways, e
<1>4. CASE e.type = "left"
  <2>1. HandleLeft(h, e)
    BY <1>4 DEF HandleSlack
  <2> HIDE DEF e
  <2> QED
    BY <1>1, <1>4, <2>1 DEF HandleLeft, Handles, RoomTask, Ways, e
<1>5. CASE e.type = "message"
  <2>1. HandleMessage(h, e)
    BY <1>5 DEF HandleSlack
  <2> HIDE DEF e
  <2> QED
    BY <1>1, <1>5, <2>1 DEF HandleMessage, Handles, RoomTask, Ways, e
<1>6. CASE e.type = "user"
  <2>1. HandleUser(h, e)
    BY <1>6 DEF HandleSlack
  <2> HIDE DEF e
  <2> QED
    BY <1>1, <1>6, <2>1 DEF HandleUser, Handles, e
<1>7. CASE e.type = "created"
  <2>1. HandleCreated(h, e)
    BY <1>7 DEF HandleSlack
  <2> HIDE DEF e
  <2> QED
    BY <1>1, <1>7, <2>1 DEF HandleCreated, Handles, e
<1>8. CASE e.type = "deleted"
  <2>1. HandleDeleted(h, e)
    BY <1>8 DEF HandleSlack
  <2> HIDE DEF e
  <2> QED
    BY <1>1, <1>8, <2>1 DEF HandleDeleted, Handles, UnlinkTask, e
<1> QED
  BY <1>2, <1>3, <1>4, <1>5, <1>6, <1>7, <1>8

LEMMA CrossedTypes ==
  ASSUME NEW h \in Handlers, NEW users \in SUBSET (Folk \cup {None}),
         NEW c \in Channels \cup {None}
  PROVE  CrossedBy(h, users, c) \subseteq Folk \cup Channels
  BY DEF CrossedBy

\* The new handlers are what a handler may be.
LEMMA ChannelTaskKeeps ==
  ASSUME TasksOK, NEW h \in Handlers, UNCHANGED <<world, open, closed>>, Channel \subseteq Channels,
         NEW c \in Channel, NEW pc \in OfChannel \ {"askBot", "bridge"}, NEW t,
         ChannelTask(t, c, pc), Start(h, t)
  PROVE  TasksOK'
<1>1. t \in Tasks /\ TaskOK(t, Channel)
  BY DEF ChannelTask, TaskOK, Stage, InRoom, OfUser, OfChannel, OfMatrix
<1> QED
  BY <1>1, StartKeepsTypes

LEMMA SyncChannelKeeps ==
  ASSUME TypeInv, NEW h \in Handlers, UNCHANGED <<world, open, closed>>,
         NEW c \in Channel, Start(h, SyncChannel(c))
  PROVE  TasksOK'
<1>1. Channel \subseteq Channels /\ bridged \subseteq Channel /\ TasksOK
  BY DEF TypeInv, SlackOK, BridgedOK, Channel
<1>2. \/ SyncChannel(c) = Idle
      \/ ChannelTask(SyncChannel(c), c, "ensureBot")
      \/ SyncChannel(c) = BridgeTask(c)
  BY <1>1, ChannelTaskFacts
<1>3. CASE SyncChannel(c) = Idle
  BY <1>1, <1>3, IdleOK, StartKeepsTypes
<1>4. CASE ChannelTask(SyncChannel(c), c, "ensureBot")
  <2>1. "ensureBot" \in OfChannel \ {"askBot", "bridge"}
    BY DEF OfChannel
  <2> QED
    BY <1>1, <1>4, <2>1, ChannelTaskKeeps
<1>5. CASE SyncChannel(c) = BridgeTask(c)
  <2>1. world.creator[c] \in Folk
    BY <1>1, WorldFacts DEF TypeInv
  <2> DEFINE t == BridgeTask(c)
  <2>2. /\ t \in Tasks /\ t.pc = "askBot" /\ t.next = "bridge" /\ t.user \in Folk
        /\ t.channel = c /\ t.folk = {}
    BY <1>1, <2>1, BridgeTaskFacts
  <2> HIDE DEF t
  <2>3. TaskOK(t, Channel)
    BY <2>2 DEF TaskOK, Stage, InRoom, OfUser, OfChannel, OfMatrix
  <2>4. Start(h, t)
    BY <1>5 DEF t
  <2> QED
    BY <1>1, <2>2, <2>3, <2>4, StartKeepsTypes
<1> QED
  BY <1>2, <1>3, <1>4, <1>5

LEMMA MatrixTaskKeeps ==
  ASSUME TypeInv, NEW h \in Handlers, UNCHANGED <<world, open, closed>>, NEW c \in Channels,
         Start(h, BotTask(c)) \/ \E m \in MatrixUsers : Start(h, PuppetTask(c, m))
  PROVE  TasksOK'
<1>1. CASE Start(h, BotTask(c))
  <2>1. BotTask(c) \in Tasks /\ TaskOK(BotTask(c), Channel)
    BY ChannelTaskFacts DEF ChannelTask, TaskOK, Stage, InRoom, OfUser, OfChannel, OfMatrix
  <2> QED
    BY <1>1, <2>1, StartKeepsTypes DEF TypeInv
<1>2. ASSUME NEW m \in MatrixUsers, Start(h, PuppetTask(c, m)) PROVE TasksOK'
  <2> DEFINE t == PuppetTask(c, m)
  <2>1. ChannelTask(t, c, "slackJoin") /\ t.mx = m
    BY ChannelTaskFacts
  <2> HIDE DEF t
  <2>2. t \in Tasks /\ TaskOK(t, Channel)
    BY <2>1 DEF ChannelTask, TaskOK, Stage, InRoom, OfUser, OfChannel, OfMatrix
  <2>3. Start(h, t)
    BY <1>2 DEF t
  <2> QED
    BY <2>2, <2>3, StartKeepsTypes DEF TypeInv
<1> QED
  BY <1>1, <1>2

LEMMA ListedTaskKeeps ==
  ASSUME TypeInv, NEW h \in Handlers, UNCHANGED <<world, open, closed>>,
         NEW listed \in Listed, Start(h, ListedTask(listed))
  PROVE  TasksOK'
<1>1. listed.user \in Folk /\ listed.name \in Names
  BY DEF Listed
<1>2. ListedTask(listed) \in Tasks /\ TaskOK(ListedTask(listed), Channel)
  BY <1>1, ListedTaskFacts DEF TaskOK, Stage, InRoom, OfUser, OfChannel, OfMatrix
<1> QED
  BY <1>2, StartKeepsTypes DEF TypeInv

LEMMA RoomTaskKeeps ==
  ASSUME TypeInv, NEW h \in Handlers, UNCHANGED <<world, open, closed>>,
         NEW u \in Folk, NEW c \in Channel, NEW way \in Ways, Start(h, RoomTask(u, c, way)),
         way \in {"inviteUser", "inviteAs"} => Puppet(u) # None
  PROVE  TasksOK'
<1> DEFINE t == RoomTask(u, c, way)
<1>1. Channel \subseteq Channels
  BY DEF TypeInv, SlackOK, Channel
<1>2. /\ t \in Tasks /\ t.pc = "get" /\ t.next = way /\ t.user = u /\ t.channel = c
      /\ t.folk = {}
  BY <1>1, RoomTaskFacts
<1> HIDE DEF t
<1>3. TaskOK(t, Channel)
  BY <1>2 DEF TaskOK, Stage, InRoom, OfUser, OfChannel, OfMatrix, Ways
<1>4. Start(h, t)
  BY DEF t
<1> QED
  BY <1>2, <1>3, <1>4, StartKeepsTypes DEF TypeInv

LEMMA SyncUserKeeps ==
  ASSUME TypeInv, NEW h \in Handlers, UNCHANGED <<world, open, closed>>,
         NEW u \in Folk, NEW n \in Names, NEW f \in BOOLEAN, Start(h, SyncUser(u, n, f))
  PROVE  TasksOK'
<1> DEFINE t == SyncUser(u, n, f)
<1>1. /\ t \in Tasks /\ t.pc = "existing" /\ t.user = u /\ t.channel = None /\ t.name = n
      /\ t.folk = {} /\ t.next = "idle"
  BY SyncUserFacts
<1> HIDE DEF t
<1>2. TaskOK(t, Channel)
  BY <1>1 DEF TaskOK, Stage, InRoom, OfUser, OfChannel, OfMatrix
<1>3. Start(h, t)
  BY DEF t
<1> QED
  BY <1>1, <1>2, <1>3, StartKeepsTypes DEF TypeInv

LEMMA HandlesKeeps ==
  ASSUME TypeInv, NEW h \in Handlers, UNCHANGED <<world, open, closed>>,
         slackQueue # <<>>, Handles(h, Head(slackQueue))
  PROVE  TasksOK'
<1> DEFINE e == Head(slackQueue)
<1>1. /\ e \in SlackEvents /\ SlackEventOK(e, Channel)
      /\ e.name \in Names \cup {None} /\ e.flag \in BOOLEAN
  BY HeadFacts
<1>2. Channel \subseteq Channels /\ bridged \subseteq Channel /\ TasksOK
  BY DEF TypeInv, SlackOK, BridgedOK, Channel
<1> HIDE DEF e
<1>3. CASE tasks' = tasks
  BY <1>2, <1>3, TasksOKKept
<1>4. ASSUME e.type \in {"joined", "left", "message"}, NEW way \in Ways,
             way \in {"inviteUser", "inviteAs"} => Puppet(e.user) # None,
             Start(h, RoomTask(e.user, e.channel, way))
      PROVE  TasksOK'
  <2>1. e.user \in Folk /\ e.channel \in Channel
    BY <1>1, <1>4 DEF SlackEventOK
  <2> QED
    BY <1>4, <2>1, RoomTaskKeeps
<1>5. ASSUME e.type = "user", Start(h, SyncUser(e.user, e.name, e.flag)) PROVE TasksOK'
  <2>1. e.user \in Folk /\ e.name \in Names
    BY <1>1, <1>5 DEF SlackEventOK
  <2> QED
    BY <1>1, <1>5, <2>1, SyncUserKeeps
<1>6. ASSUME e.type \in {"created", "deleted"}, Start(h, SyncChannel(e.channel)) PROVE TasksOK'
  BY <1>1, <1>6, SyncChannelKeeps DEF SlackEventOK
<1>7. ASSUME e.type = "deleted", Start(h, UnlinkTask(e.channel)) PROVE TasksOK'
  <2>1. e.channel \in Channel /\ e.channel \in Channels
    BY <1>1, <1>2, <1>7 DEF SlackEventOK
  <2>2. ChannelTask(UnlinkTask(e.channel), e.channel, "unlink")
    BY <2>1, ChannelTaskFacts
  <2> QED
    BY <1>2, <1>7, <2>1, <2>2, ChannelTaskKeeps DEF OfChannel
<1> QED
  BY <1>3, <1>4, <1>5, <1>6, <1>7 DEF Handles, e

LEMMA HandleSlackTypes == TypeInv => \A h \in Handlers : HandleSlack(h) => TypeInv'
<1> SUFFICES ASSUME TypeInv, NEW h \in Handlers, HandleSlack(h) PROVE TypeInv'
  OBVIOUS
<1> DEFINE e == Head(slackQueue)
<1>1. /\ slackQueue # <<>> /\ slackQueue' = Tail(slackQueue)
      /\ Handles(h, e)
      /\ crossed' = crossed \cup CrossedBy(h, Users(e), e.channel) \cup Awaited(e)
      /\ UNCHANGED <<world, slack, matrixQueue, matrix, bridge, ghostVars, moved>>
      /\ \/ due' = due
         \/ /\ e.channel \in bridged \cap open /\ Expected(e.user)
            /\ e.user \in people[e.channel]
            /\ due' = due \cup {<<e.user, e.channel>>}
  BY HandleSlackDoes
<1>2. e.user \in Folk \cup {None} /\ e.channel \in Channels \cup {None}
  BY <1>1, HeadFacts
<1>3. TasksOK'
  BY <1>1, HandlesKeeps DEF slack
<1>4. SlackQueueOK'
  BY <1>1, TailFacts DEF TypeInv, SlackQueueOK, SlackEventOK, slack, Channel
<1>5. HistoryOK'
  <2>1. crossed' \subseteq Folk \cup Channels
    <3>1. Awaited(e) \subseteq Folk \cup Channels
      BY DEF Awaited, TypeInv, ToSyncOK, Listed
    <3>2. Users(e) \subseteq Folk \cup {None}
      <4>1. e.type = "created" => e.channel \in Channels
        BY <1>1, HeadFacts DEF SlackEventOK, TypeInv, SlackOK, Channel
      <4> QED
        BY <1>2, <4>1, WorldFacts DEF Users, TypeInv
    <3> QED
      BY <1>1, <1>2, <3>1, <3>2, CrossedTypes DEF TypeInv, HistoryOK
  <2>2. people' = people /\ open' = open /\ bridged' = bridged /\ world' = world
    BY <1>1 DEF slack, bridge
  <2> HIDE DEF e
  <2>3. CASE due' = due
    BY <2>1, <2>2, <2>3 DEF TypeInv, HistoryOK, Expected, Puppet
  <2>4. CASE /\ e.channel \in bridged \cap open /\ Expected(e.user)
             /\ e.user \in people[e.channel]
             /\ due' = due \cup {<<e.user, e.channel>>}
    <3>1. e.channel \in Channels /\ e.user \in Folk
      BY <1>2, <2>4, WorldFacts DEF TypeInv, SlackOK
    <3> QED
      BY <2>1, <2>2, <2>4, <3>1 DEF TypeInv, HistoryOK, Expected, Puppet
  <2> QED
    BY <1>1, <2>3, <2>4
<1> QED
  BY <1>1, <1>3, <1>4, <1>5, SlackOKKept, MatrixQueueOKKept, MatrixOKKept, BridgedOKKept,
     ToSyncOKKept, GhostsTypeOKKept DEF TypeInv, slack, bridge

LEMMA HandleMatrixDoes ==
  ASSUME TypeInv, NEW h \in Handlers, HandleMatrix(h)
  PROVE  LET e == Head(matrixQueue) IN
         /\ matrixQueue # <<>> /\ matrixQueue' = Tail(matrixQueue) /\ tasks[h].pc = "idle"
         /\ e = matrixQueue[1] /\ e \in MatrixEvents /\ e.channel \in Channels
         /\ e.type \in {"join", "leave"} => e.user \in MatrixUsers
         /\ \/ e.type = "botInvite" /\ Start(h, BotTask(e.channel))
            \/ e.type = "join" /\ Start(h, PuppetTask(e.channel, e.user))
            \/ e.type # "botInvite" /\ tasks' = tasks
         /\ active' = IF e.type \in BotLeaves THEN active \ {e.channel} ELSE active
         /\ crossed' \in {crossed, crossed \cup {e.channel}}
         /\ UNCHANGED <<world, slack, slackQueue, matrix, bridged, stored, adminRoom, toSync,
                        ghostVars,
                        moved, due>>
<1> DEFINE e == Head(matrixQueue)
<1>1. matrixQueue # <<>> /\ matrixQueue \in Seq(MatrixEvents)
  BY DEF HandleMatrix, TypeInv, MatrixQueueOK
<1>2. e = matrixQueue[1] /\ e \in MatrixEvents /\ 1 \in 1..Len(matrixQueue)
  BY <1>1, TailFacts
<1>3. e.channel \in Channels /\ (e.type \in {"join", "leave"} => e.user \in MatrixUsers)
  BY <1>2 DEF MatrixEvents, TypeInv, MatrixQueueOK
<1>4. \/ e.type = "botInvite" /\ Start(h, BotTask(e.channel))
      \/ e.type = "join" /\ Start(h, PuppetTask(e.channel, e.user))
      \/ e.type # "botInvite" /\ tasks' = tasks
  BY DEF HandleMatrix, BotTask, PuppetTask
<1> QED
  BY <1>1, <1>2, <1>3, <1>4 DEF HandleMatrix, At

LEMMA HandleMatrixTypes == TypeInv => \A h \in Handlers : HandleMatrix(h) => TypeInv'
<1> SUFFICES ASSUME TypeInv, NEW h \in Handlers, HandleMatrix(h) PROVE TypeInv'
  OBVIOUS
<1> DEFINE e == Head(matrixQueue)
<1>1. /\ matrixQueue # <<>> /\ matrixQueue' = Tail(matrixQueue) /\ e.channel \in Channels
      /\ e.type \in {"join", "leave"} => e.user \in MatrixUsers
      /\ \/ e.type = "botInvite" /\ Start(h, BotTask(e.channel))
         \/ e.type = "join" /\ Start(h, PuppetTask(e.channel, e.user))
         \/ e.type # "botInvite" /\ tasks' = tasks
      /\ active' = IF e.type \in BotLeaves THEN active \ {e.channel} ELSE active
      /\ crossed' \in {crossed, crossed \cup {e.channel}}
      /\ UNCHANGED <<world, slack, slackQueue, matrix, bridged, stored, adminRoom, toSync,
                        ghostVars,
                     moved, due>>
  BY HandleMatrixDoes
<1>2. TasksOK'
  BY <1>1, MatrixTaskKeeps, TasksOKKept DEF slack, TypeInv
<1>3. MatrixQueueOK'
  BY <1>1, TailFacts DEF TypeInv, MatrixQueueOK
<1>4. BridgedOK'
  BY <1>1 DEF TypeInv, BridgedOK, slack, Channel
<1>5. HistoryOK'
  BY <1>1 DEF TypeInv, HistoryOK, slack, Expected, Puppet
<1> QED
  BY <1>1, <1>2, <1>3, <1>4, <1>5, SlackOKKept, SlackQueueOKKept, MatrixOKKept, ToSyncOKKept,
     GhostsTypeOKKept DEF TypeInv, slack

LEMMA SyncsUserDoes ==
  ASSUME TypeInv, NEW h \in Handlers, SyncsUser(h)
  PROVE  \E listed \in toSync.users :
            /\ listed \in Listed /\ tasks[h].pc = "idle"
            /\ toSync' = [toSync EXCEPT !.users = @ \ {listed}]
            /\ toSync'.users = toSync.users \ {listed} /\ toSync'.channels = toSync.channels
            /\ toSync'.rooms = toSync.rooms
            /\ Start(h, ListedTask(listed))
            /\ crossed' = crossed \cup CrossedBy(h, {listed.user}, None)
            /\ UNCHANGED <<world, slack, queues, matrix, bridged, stored, active, adminRoom,
                           ghostVars, moved, due>>
<1>1. PICK listed \in toSync.users :
            /\ tasks[h].pc = "idle"
            /\ toSync' = [toSync EXCEPT !.users = @ \ {listed}]
            /\ Start(h, ListedTask(listed))
            /\ crossed' = crossed \cup CrossedBy(h, {listed.user}, None)
            /\ UNCHANGED <<world, slack, queues, matrix, bridged, stored, active, adminRoom,
                           ghostVars, moved, due>>
  BY DEF SyncsUser, At, ListedTask
<1>2. toSync \in [users : SUBSET Listed, channels : SUBSET Channels,
                   rooms : SUBSET Channels, listing : BOOLEAN]
  BY DEF TypeInv, ToSyncOK
<1> QED
  BY <1>1, <1>2

LEMMA SyncsChannelDoes ==
  ASSUME TypeInv, NEW h \in Handlers, SyncsChannel(h)
  PROVE  \E c \in toSync.channels :
            /\ c \in Channels \cap Channel /\ tasks[h].pc = "idle"
            /\ toSync' = [toSync EXCEPT !.channels = @ \ {c}]
            /\ toSync'.users = toSync.users /\ toSync'.channels = toSync.channels \ {c}
            /\ toSync'.rooms = toSync.rooms
            /\ Start(h, SyncChannel(c))
            /\ crossed' = crossed \cup CrossedBy(h, {None, world.creator[c]}, c)
            /\ UNCHANGED <<world, slack, queues, matrix, bridged, stored, active, adminRoom,
                           ghostVars, moved, due>>
<1>1. PICK c \in toSync.channels :
            /\ tasks[h].pc = "idle"
            /\ toSync' = [toSync EXCEPT !.channels = @ \ {c}]
            /\ Start(h, SyncChannel(c))
            /\ crossed' = crossed \cup CrossedBy(h, {None, world.creator[c]}, c)
            /\ UNCHANGED <<world, slack, queues, matrix, bridged, stored, active, adminRoom,
                           ghostVars, moved, due>>
  BY DEF SyncsChannel, At
<1>2. /\ toSync \in [users : SUBSET Listed, channels : SUBSET Channels,
                   rooms : SUBSET Channels, listing : BOOLEAN]
      /\ toSync.channels \subseteq Channel
  BY DEF TypeInv, ToSyncOK
<1> QED
  BY <1>1, <1>2

RoomSync(c) == [Idle EXCEPT !.pc = "listGhosts", !.channel = c]

LEMMA SyncsRoomDoes ==
  ASSUME TypeInv, NEW h \in Handlers, SyncsRoom(h)
  PROVE  \E c \in toSync.rooms :
            /\ c \in Channels \cap Channel /\ tasks[h].pc = "idle"
            /\ toSync' = [toSync EXCEPT !.rooms = @ \ {c}]
            /\ toSync'.users = toSync.users /\ toSync'.channels = toSync.channels
            /\ toSync'.rooms = toSync.rooms \ {c}
            /\ Start(h, RoomSync(c)) /\ ChannelTask(RoomSync(c), c, "listGhosts")
            /\ UNCHANGED <<world, slack, queues, matrix, bridged, stored, active, adminRoom,
                           ghostVars, moved, due, crossed>>
<1>1. PICK c \in toSync.rooms :
            /\ tasks[h].pc = "idle"
            /\ toSync' = [toSync EXCEPT !.rooms = @ \ {c}]
            /\ Start(h, RoomSync(c))
            /\ UNCHANGED <<world, slack, queues, matrix, bridged, stored, active, adminRoom,
                           ghostVars, moved, due, crossed>>
  BY DEF SyncsRoom, At, RoomSync
<1>2. /\ toSync \in [users : SUBSET Listed, channels : SUBSET Channels,
                      rooms : SUBSET Channels, listing : BOOLEAN]
      /\ toSync.rooms \subseteq Channel
  BY DEF TypeInv, ToSyncOK
<1>3. ChannelTask(RoomSync(c), c, "listGhosts")
  BY <1>2 DEF ChannelTask, RoomSync, Idle, Tasks, Pcs
<1> QED
  BY <1>1, <1>2, <1>3

LEMMA SyncsTypes ==
    TypeInv => \A h \in Handlers :
        SyncsUser(h) \/ SyncsChannel(h) \/ SyncsRoom(h) => TypeInv'
<1> SUFFICES ASSUME TypeInv, NEW h \in Handlers,
                    SyncsUser(h) \/ SyncsChannel(h) \/ SyncsRoom(h)
             PROVE  TypeInv'
  OBVIOUS
<1>1. /\ UNCHANGED <<world, slack, queues, matrix, bridged, stored, active, adminRoom,
                     ghostVars, moved, due>>
      /\ TasksOK' /\ ToSyncOK' /\ crossed' \subseteq Folk \cup Channels
  <2>0. crossed \subseteq Folk \cup Channels /\ ToSyncOK
    BY DEF TypeInv, HistoryOK
  <2>1. CASE SyncsUser(h)
    <3>1. PICK listed \in toSync.users :
            /\ listed \in Listed
            /\ toSync' = [toSync EXCEPT !.users = @ \ {listed}]
            /\ toSync'.users = toSync.users \ {listed} /\ toSync'.channels = toSync.channels
            /\ toSync'.rooms = toSync.rooms
            /\ Start(h, ListedTask(listed))
            /\ crossed' = crossed \cup CrossedBy(h, {listed.user}, None)
            /\ UNCHANGED <<world, slack, queues, matrix, bridged, stored, active, adminRoom,
                           ghostVars, moved, due>>
      BY <2>1, SyncsUserDoes
    <3>2. TasksOK'
      BY <3>1, ListedTaskKeeps DEF slack
    <3>3. ToSyncOK'
      BY <2>0, <3>1 DEF ToSyncOK, slack, Channel
    <3>4. CrossedBy(h, {listed.user}, None) \subseteq Folk \cup Channels
      BY <3>1, CrossedTypes DEF Listed
    <3> QED
      BY <2>0, <3>1, <3>2, <3>3, <3>4
  <2>2. CASE SyncsChannel(h)
    <3>1. PICK c \in toSync.channels :
            /\ c \in Channels \cap Channel
            /\ toSync' = [toSync EXCEPT !.channels = @ \ {c}]
            /\ toSync'.users = toSync.users /\ toSync'.channels = toSync.channels \ {c}
            /\ toSync'.rooms = toSync.rooms
            /\ Start(h, SyncChannel(c))
            /\ crossed' = crossed \cup CrossedBy(h, {None, world.creator[c]}, c)
            /\ UNCHANGED <<world, slack, queues, matrix, bridged, stored, active, adminRoom,
                           ghostVars, moved, due>>
      BY <2>2, SyncsChannelDoes
    <3>2. TasksOK'
      BY <3>1, SyncChannelKeeps DEF slack
    <3>3. ToSyncOK'
      BY <2>0, <3>1 DEF ToSyncOK, slack, Channel
    <3>4. CrossedBy(h, {None, world.creator[c]}, c) \subseteq Folk \cup Channels
      BY <3>1, CrossedTypes, WorldFacts DEF TypeInv
    <3> QED
      BY <2>0, <3>1, <3>2, <3>3, <3>4
  <2>3. CASE SyncsRoom(h)
    <3>1. PICK c \in toSync.rooms :
            /\ c \in Channels \cap Channel
            /\ toSync' = [toSync EXCEPT !.rooms = @ \ {c}]
            /\ toSync'.users = toSync.users /\ toSync'.channels = toSync.channels
            /\ toSync'.rooms = toSync.rooms \ {c}
            /\ Start(h, RoomSync(c)) /\ ChannelTask(RoomSync(c), c, "listGhosts")
            /\ UNCHANGED <<world, slack, queues, matrix, bridged, stored, active, adminRoom,
                           ghostVars, moved, due, crossed>>
      BY <2>3, SyncsRoomDoes
    <3>2. "listGhosts" \in OfChannel \ {"askBot", "bridge"} /\ Channel \subseteq Channels
      BY DEF OfChannel, TypeInv, SlackOK, Channel
    <3>3. TasksOK'
      BY <3>1, <3>2, ChannelTaskKeeps DEF slack, TypeInv
    <3>4. ToSyncOK'
      BY <2>0, <3>1 DEF ToSyncOK, slack, Channel
    <3> QED
      BY <2>0, <3>1, <3>3, <3>4
  <2> QED
    BY <2>1, <2>2, <2>3
<1>2. HistoryOK'
  BY <1>1 DEF TypeInv, HistoryOK, slack, Expected, Puppet
<1> QED
  BY <1>1, <1>2, SlackOKKept, SlackQueueOKKept, MatrixQueueOKKept, MatrixOKKept, BridgedOKKept,
     GhostsTypeOKKept DEF TypeInv, slack, queues

LEMMA TypesStep == TypeInv /\ [Next]_vars => TypeInv'
<1> SUFFICES ASSUME TypeInv, [Next]_vars PROVE TypeInv'
  OBVIOUS
<1>1. CASE Outside
  BY <1>1, SlackUserJoinsTypes, SlackUserLeavesTypes, SlackUserRenamedTypes,
     SlackUserDeletedTypes, SlackUserRestoredTypes, ChannelCreatedTypes, ChannelDeletedTypes,
     SlackMessageTypes, MatrixUserMovesTypes, BotMovedTypes, RestartTypes DEF Outside
<1>2. CASE ListChannels \/ Forgets
  BY <1>2, ListChannelsTypes, ForgetsTypes
<1>3. ASSUME NEW h \in Handlers, Begins(h) PROVE TypeInv'
  BY <1>3, HandleSlackTypes, HandleMatrixTypes, SyncsTypes DEF Begins
<1>4. ASSUME NEW h \in Handlers, Continues(h) PROVE TypeInv'
  BY <1>4, LookGhostTypes, GetGhostTypes, CallFailsTypes, AvatarFailsTypes, AskBotInTypes,
     NoCreatorTypes, GhostJoinsTypes, BotInvitesTypes, GhostLeavesTypes,
     LookUpdateTypes, AskSlackTypes, WriteProfileTypes, SaveNameTypes, SendMessageTypes,
     FindExistingTypes, UpdateUserTypes, HideUserTypes, ListRoomsTypes, LeaveRoomsTypes,
     BridgeChannelTypes, EnsureBotTypes, ListGhostsTypes, ListMembersTypes, MoveMembersTypes,
     UnlinkDeletedTypes, DrainRoomTypes, BotJoinsTypes, PuppetJoinsTypes, OnboardTypes,
     CreateAdminRoomTypes, StoreAdminRoomTypes DEF Continues
<1>5. CASE UNCHANGED vars
  BY <1>5, SlackOKKept, SlackQueueOKKept, MatrixQueueOKKept, MatrixOKKept, BridgedOKKept,
     ToSyncOKKept, TasksOKKept, HistoryOKKept, GhostsTypeOKKept
     DEF vars, TypeInv, slack, queues, bridge
<1> QED
  BY <1>1, <1>2, <1>3, <1>4, <1>5 DEF Next

-----------------------------------------------------------------------------
(* The steps of a handler by what it is about *)

\* The channel of a handler that is to link it is one place, whatever it does about the ghost.
Place(t) == IF t.next = "bridge" THEN "bridge" ELSE t.pc

Bridging(t) == t.next = "bridge"

LookSteps(h) == LookGhost(h) \/ GetGhost(h)

FolkSteps(h) ==
    \/ LookSteps(h) /\ ~Bridging(tasks[h])
    \/ GhostJoins(h) \/ BotInvites(h) \/ GhostLeaves(h)
    \/ LookUpdate(h) \/ AskSlack(h) \/ WriteProfile(h) \/ SaveName(h) \/ SendMessage(h)
    \/ FindExisting(h) \/ UpdateUser(h) \/ HideUser(h) \/ ListRooms(h) \/ LeaveRooms(h)

ChannelSteps(h) ==
    \/ BridgeChannel(h) \/ EnsureBot(h) \/ ListGhosts(h) \/ ListMembers(h) \/ MoveMembers(h)
    \/ UnlinkDeleted(h) \/ DrainRoom(h)

\* On the way to link a channel.
BridgeSteps(h) ==
    AskBotIn(h) \/ NoCreator(h) \/ (LookSteps(h) /\ Bridging(tasks[h]))

\* A failed call is the end of it.
FailSteps(h) == CallFails(h) \/ AvatarFails(h)

MatrixSteps(h) ==
    \/ BotJoins(h) \/ PuppetJoins(h) \/ Onboard(h) \/ CreateAdminRoom(h) \/ StoreAdminRoom(h)

OfFolk == InRoom \cup OfUser

\* A handler that is about a user, and which of its steps changes what.
AboutFolk(t) ==
    /\ t.user \in Folk /\ t.pc # "idle" /\ Stage(t) \in OfFolk /\ t.folk = {} /\ ~Bridging(t)

LEMMA PlaceFacts ==
  ASSUME NEW t, NEW cs, TaskOK(t, cs)
  PROVE  /\ Bridging(t) <=> Stage(t) \in {"askBot", "bridge"}
         /\ Place(t) = "bridge" <=> Bridging(t)
         /\ Place(t) # "askBot" /\ (~Bridging(t) => Place(t) = t.pc)
         /\ Place(t) = "idle" <=> t.pc = "idle"
         /\ Place(t) \in OfMatrix \cup (OfChannel \ {"bridge"}) <=>
                t.pc \in OfMatrix \cup (OfChannel \ {"askBot", "bridge"})
         /\ Place(t) \in OfMatrix \cup (OfChannel \ {"bridge"}) => Place(t) = t.pc /\ t.user = None
         /\ Bridging(t) => t.pc \in {"askBot", "get", "make", "bridge"}
         /\ Bridging(t) /\ t.pc # "bridge" => t.user \in Folk
  BY DEF TaskOK, Place, Bridging, Stage, OfMatrix, OfChannel, InRoom, OfUser, Idle

LEMMA ContinuedFacts ==
  ASSUME NEW s, NEW t, Continued(t, s)
  PROVE  t.user = s.user /\ t.channel = s.channel /\ t.mx = s.mx /\ t.flag = s.flag
  BY DEF Continued

LEMMA FolkStepsKeep ==
  ASSUME TypeInv, NEW h \in Handlers, FolkSteps(h)
  PROVE  /\ UNCHANGED <<world, slack, queues, bridge, usersIn, botIn, adminRooms, moved, due>>
         /\ crossed' \in {crossed, crossed \cup {tasks[h].user}}
<1> USE DEF matrix
<1>1. CASE LookGhost(h)
  BY <1>1, LookGhostDoes
<1>2. CASE GetGhost(h)
  BY <1>2, GetGhostDoes
<1>3. CASE GhostJoins(h)
  BY <1>3, GhostJoinsDoes
<1>4. CASE BotInvites(h)
  BY <1>4, BotInvitesDoes
<1>5. CASE GhostLeaves(h)
  BY <1>5, GhostLeavesDoes
<1>6. CASE LookUpdate(h)
  BY <1>6, LookUpdateDoes
<1>7. CASE AskSlack(h)
  BY <1>7, AskSlackDoes
<1>8. CASE WriteProfile(h)
  BY <1>8, WriteProfileDoes
<1>9. CASE SaveName(h)
  BY <1>9, SaveNameDoes
<1>10. CASE SendMessage(h)
  BY <1>10, SendMessageDoes
<1>11. CASE FindExisting(h)
  BY <1>11, FindExistingDoes
<1>12. CASE UpdateUser(h)
  BY <1>12, UpdateUserDoes
<1>13. CASE HideUser(h)
  BY <1>13, HideUserDoes
<1>14. CASE ListRooms(h)
  BY <1>14, ListRoomsDoes
<1>15. CASE LeaveRooms(h)
  BY <1>15, LeaveRoomsDoes
<1> QED
  BY <1>1, <1>2, <1>3, <1>4, <1>5, <1>6, <1>7, <1>8, <1>9, <1>10, <1>11, <1>12, <1>13, <1>14,
     <1>15 DEF FolkSteps, LookSteps

LEMMA FolkStepsDo ==
  ASSUME TypeInv, NEW h \in Handlers, FolkSteps(h)
  PROVE  LET s == tasks[h]
             t == tasks'[h]
         IN
         /\ Turn(h) /\ AboutFolk(s)
         /\ t = Idle \/ (Continued(t, s) /\ AboutFolk(t))
<1> USE DEF AboutFolk, OfFolk, InRoom, OfUser, Stage, Ways, Bridging
<1>0. /\ tasks[h].folk = {} \/ tasks[h].pc \in {"listMembers", "move"}
      /\ tasks[h].next = "bridge" => Stage(tasks[h]) \in {"askBot", "bridge"}
  BY TaskFacts DEF TaskOK
<1>1. CASE LookGhost(h) /\ ~Bridging(tasks[h])
  BY <1>1, <1>0, ContinuedFacts, LookGhostDoes
<1>2. CASE GetGhost(h) /\ ~Bridging(tasks[h])
  BY <1>2, <1>0, ContinuedFacts, GetGhostDoes
<1>3. CASE GhostJoins(h)
  BY <1>3, <1>0, ContinuedFacts, GhostJoinsDoes
<1>4. CASE BotInvites(h)
  BY <1>4, <1>0, ContinuedFacts, BotInvitesDoes
<1>5. CASE GhostLeaves(h)
  BY <1>5, <1>0, ContinuedFacts, GhostLeavesDoes
<1>6. CASE LookUpdate(h)
  BY <1>6, <1>0, ContinuedFacts, LookUpdateDoes
<1>7. CASE AskSlack(h)
  BY <1>7, <1>0, ContinuedFacts, AskSlackDoes
<1>8. CASE WriteProfile(h)
  BY <1>8, <1>0, ContinuedFacts, WriteProfileDoes
<1>9. CASE SaveName(h)
  BY <1>9, <1>0, ContinuedFacts, SaveNameDoes
<1>10. CASE SendMessage(h)
  BY <1>10, <1>0, ContinuedFacts, SendMessageDoes
<1>11. CASE FindExisting(h)
  BY <1>11, <1>0, ContinuedFacts, FindExistingDoes
<1>12. CASE UpdateUser(h)
  BY <1>12, <1>0, ContinuedFacts, UpdateUserDoes
<1>13. CASE HideUser(h)
  BY <1>13, <1>0, ContinuedFacts, HideUserDoes
<1>14. CASE ListRooms(h)
  BY <1>14, <1>0, ContinuedFacts, ListRoomsDoes
<1>15. CASE LeaveRooms(h)
  BY <1>15, <1>0, ContinuedFacts, LeaveRoomsDoes
<1> QED
  BY <1>1, <1>2, <1>3, <1>4, <1>5, <1>6, <1>7, <1>8, <1>9, <1>10, <1>11, <1>12, <1>13, <1>14,
     <1>15 DEF FolkSteps, LookSteps

LEMMA FolkStepsMove ==
  ASSUME TypeInv, NEW h \in Handlers, FolkSteps(h), NEW c \in Channels
  PROVE  LET s == tasks[h] IN
         \/ ghostsIn'[c] \subseteq ghostsIn[c]
         \/ c = s.channel /\ s.pc \in InRoom /\ ghostsIn'[c] = ghostsIn[c] \cup {s.user}
<1> USE DEF matrix, InRoom
<1>0. ghostsIn \in [Channels -> SUBSET Folk]
  BY DEF TypeInv, MatrixOK
<1>1. CASE LookGhost(h)
  BY <1>1, <1>0, LookGhostDoes
<1>2. CASE GetGhost(h)
  BY <1>2, <1>0, GetGhostDoes
<1>3. CASE GhostJoins(h)
  BY <1>3, <1>0, GhostJoinsDoes
<1>4. CASE BotInvites(h)
  BY <1>4, <1>0, BotInvitesDoes
<1>5. CASE GhostLeaves(h)
  BY <1>5, <1>0, GhostLeavesDoes
<1>6. CASE LookUpdate(h)
  BY <1>6, <1>0, LookUpdateDoes
<1>7. CASE AskSlack(h)
  BY <1>7, <1>0, AskSlackDoes
<1>8. CASE WriteProfile(h)
  BY <1>8, <1>0, WriteProfileDoes
<1>9. CASE SaveName(h)
  BY <1>9, <1>0, SaveNameDoes
<1>10. CASE SendMessage(h)
  BY <1>10, <1>0, SendMessageDoes
<1>11. CASE FindExisting(h)
  BY <1>11, <1>0, FindExistingDoes
<1>12. CASE UpdateUser(h)
  BY <1>12, <1>0, UpdateUserDoes
<1>13. CASE HideUser(h)
  BY <1>13, <1>0, HideUserDoes
<1>14. CASE ListRooms(h)
  BY <1>14, <1>0, ListRoomsDoes
<1>15. CASE LeaveRooms(h)
  BY <1>15, <1>0, LeaveRoomsDoes
<1> QED
  BY <1>1, <1>2, <1>3, <1>4, <1>5, <1>6, <1>7, <1>8, <1>9, <1>10, <1>11, <1>12, <1>13, <1>14,
     <1>15 DEF FolkSteps, LookSteps

LEMMA ChannelStepsDo ==
  ASSUME TypeInv, NEW h \in Handlers, ChannelSteps(h)
  PROVE  LET s == tasks[h]
             t == tasks'[h]
         IN
         /\ Turn(h) /\ s.pc \in OfChannel \ {"askBot"} /\ Place(s) = s.pc
         /\ s.user = None \/ BridgeChannel(h)
         /\ s.channel \in Channel /\ s.channel \in Channels
         /\ UNCHANGED <<world, open, closed, gone, queues, adminRoom, usersIn, adminRooms,
                        slackNames, cache, ghosts, profiles, reverted, moved>>
         /\ toSync'.users = toSync.users /\ toSync'.channels = toSync.channels
         /\ toSync' = toSync \/ BridgeChannel(h)
         /\ crossed' = crossed \/ BridgeChannel(h) \/ DrainRoom(h)
         /\ crossed \subseteq crossed' /\ crossed' \subseteq crossed \cup {s.user, s.channel}
         /\ \/ t = Idle
            \/ /\ t.user = None /\ t.channel = s.channel /\ ~Bridging(t)
               /\ t.pc \in OfChannel \ {"askBot", "bridge"}
<1> USE DEF OfChannel, Place, Bridging
<1>0. tasks[h].next = "bridge" <=> Stage(tasks[h]) \in {"askBot", "bridge"}
  BY TaskFacts DEF TaskOK
<1> USE <1>0, ContinuedFacts DEF Stage
<1>1. CASE BridgeChannel(h)
  <2>1. toSync \in [users : SUBSET Listed, channels : SUBSET Channels,
                    rooms : SUBSET Channels, listing : BOOLEAN]
    BY DEF TypeInv, ToSyncOK
  <2>2. CASE Bridges(tasks[h]) /\ ChannelTask(tasks'[h], tasks[h].channel, "ensureBot")
    BY <1>1, <2>1, <2>2, BridgeChannelDoes DEF ghostVars, slack, Bridges, Creator, ChannelTask
  <2> QED
    BY <1>1, <2>2, BridgeChannelDoes DEF ghostVars, slack
<1>2. CASE EnsureBot(h)
  BY <1>2, EnsureBotDoes DEF ghostVars, matrix, bridge
<1>3. CASE ListGhosts(h)
  BY <1>3, ListGhostsDoes DEF ghostVars, matrix, bridge, slack
<1>4. CASE ListMembers(h)
  BY <1>4, ListMembersDoes DEF ghostVars, bridge, slack
<1>5. CASE MoveMembers(h)
  BY <1>5, MoveMembersDoes DEF ghostVars, bridge, slack
<1>6. CASE UnlinkDeleted(h)
  BY <1>6, UnlinkDeletedDoes DEF ghostVars, matrix, slack
<1>7. CASE DrainRoom(h)
  BY <1>7, DrainRoomDoes DEF ghostVars, bridge, slack
<1> QED
  BY <1>1, <1>2, <1>3, <1>4, <1>5, <1>6, <1>7 DEF ChannelSteps

LEMMA MatrixStepsDo ==
  ASSUME TypeInv, NEW h \in Handlers, MatrixSteps(h)
  PROVE  LET s == tasks[h]
             t == tasks'[h]
         IN
         /\ Turn(h) /\ s.pc \in OfMatrix /\ s.user = None /\ s.channel \in Channels
         /\ UNCHANGED <<world, open, closed, gone, matrixQueue, toSync, bridged, usersIn, ghostsIn,
                        stored, ghostVars, moved, due, crossed>>
         /\ Place(s) = s.pc
         /\ t = Idle \/ (Continued(t, s) /\ t.pc \in OfMatrix /\ ~Bridging(t))
         /\ BotJoins(h) \/ UNCHANGED <<botIn, active>>
         /\ PuppetJoins(h) \/ UNCHANGED <<people, slackQueue>>
<1> USE DEF OfMatrix, Place, Bridging
<1>0. tasks[h].next = "bridge" <=> Stage(tasks[h]) \in {"askBot", "bridge"}
  BY TaskFacts DEF TaskOK
<1> USE <1>0 DEF Stage
<1>1. CASE BotJoins(h)
  BY <1>1, BotJoinsDoes DEF slack, queues
<1>2. CASE PuppetJoins(h)
  BY <1>2, PuppetJoinsDoes DEF matrix, bridge
<1>3. CASE Onboard(h)
  BY <1>3, OnboardDoes DEF slack, queues, matrix, bridge
<1>4. CASE CreateAdminRoom(h)
  BY <1>4, CreateAdminRoomDoes DEF slack, queues, bridge
<1>5. CASE StoreAdminRoom(h)
  BY <1>5, StoreAdminRoomDoes DEF slack, queues, matrix
<1> QED
  BY <1>1, <1>2, <1>3, <1>4, <1>5 DEF MatrixSteps

LEMMA BridgeStepsDo ==
  ASSUME TypeInv, NEW h \in Handlers, BridgeSteps(h)
  PROVE  LET s == tasks[h]
             t == tasks'[h]
         IN
         /\ Turn(h) /\ Bridging(s) /\ Bridging(t) /\ s.user \in Folk /\ t.user \in {s.user, None}
         /\ s.channel \in Channel /\ s.channel \in Channels /\ t.channel = s.channel
         /\ s.pc \in {"askBot", "get", "make"} /\ t.pc \in {"get", "make", "bridge"}
         /\ t.folk = s.folk /\ t.rooms = s.rooms
         /\ UNCHANGED <<world, open, closed, gone, queues, matrix, bridge, moved, due, crossed>>
         /\ people' \in {people, [people EXCEPT ![s.channel] = @ \cup {Bot}]}
         /\ people' # people => s.channel \in open
         /\ \/ LookSteps(h) /\ t.user = s.user
            \/ UNCHANGED ghostVars /\ t.user = s.user /\ t.pc = "get" /\ t.object = s.object
            \/ UNCHANGED ghostVars /\ t.user = None /\ t.pc = "bridge"
<1> USE DEF Bridging, Stage, slack, ghostVars
<1>0. /\ tasks[h].next = "bridge" => Stage(tasks[h]) \in {"askBot", "bridge"}
      /\ tasks[h].next = "bridge" => tasks[h].channel \in Channel /\ tasks[h].channel \in Channels
  BY TaskFacts DEF TaskOK, OfChannel
<1>1. CASE AskBotIn(h)
  BY <1>1, AskBotInDoes, ContinuedFacts
<1>2. CASE NoCreator(h)
  BY <1>2, NoCreatorDoes
<1>3. CASE LookGhost(h) /\ Bridging(tasks[h])
  BY <1>0, <1>3, LookGhostDoes, ContinuedFacts DEF LookSteps
<1>4. CASE GetGhost(h) /\ Bridging(tasks[h])
  BY <1>0, <1>4, GetGhostDoes, ContinuedFacts DEF LookSteps
<1> QED
  BY <1>1, <1>2, <1>3, <1>4 DEF BridgeSteps, LookSteps

LEMMA FailStepsDo ==
  ASSUME TypeInv, NEW h \in Handlers, FailSteps(h)
  PROVE  LET s == tasks[h] IN
         /\ Turn(h) /\ tasks'[h] = Idle /\ ~Bridging(s) /\ Place(s) = s.pc
         /\ s.pc \in Calls \cup {"save"}
         /\ UNCHANGED <<world, slack, queues, matrix, bridge, slackNames, cache, rows, profiles,
                        reverted, moved>>
         /\ due' \subseteq due /\ crossed \subseteq crossed'
         /\ crossed' \subseteq crossed \cup ({s.user} \ {None})
         /\ \A d \in due : ~Joining(s, d) => d \in due'
         /\ s.pc = "save" => s.user \in crossed'
         /\ Syncing(s) => s.user \in crossed'
         /\ s.pc \in Calls => due' = {d \in due : ~Joining(s, d)} /\ UNCHANGED ghosts
<1> USE DEF Bridging, Place, Stage, ghostVars
<1>0. TaskOK(tasks[h], Channel) /\ None \notin Folk
  BY TaskFacts, WorldFacts DEF TypeInv
<1>1. CASE CallFails(h)
  <2>1. Syncing(tasks[h]) => tasks[h].user # None
    BY <1>0 DEF TaskOK, Syncing, OfUser
  <2>2. "save" \notin Calls
    BY DEF Calls
  <2> QED
    BY <1>1, <2>1, <2>2, CallFailsDoes
<1>2. CASE AvatarFails(h)
  <2>1. "save" \notin Calls /\ ~Syncing([tasks[h] EXCEPT !.pc = "save"])
    BY DEF Calls, Syncing
  <2>2. tasks[h].next # "bridge"
    BY <1>0, <1>2, AvatarFailsDoes DEF TaskOK
  <2> QED
    BY <1>0, <1>2, <2>1, <2>2, AvatarFailsDoes DEF NameGhost, Syncing
<1> QED
  BY <1>1, <1>2 DEF FailSteps

\* A handler that begins, with a task that crosses, as far as it does, what is marked.
Starts == {"get", "existing", "ensureBot", "askBot", "listGhosts", "unlink", "botJoin",
           "slackJoin"}

\* Whom a handler is about, and whether about the channel as a whole.
About(t) == IF Bridging(t) THEN {t.user, None} ELSE {t.user}

Begun(h, t, marked) ==
    /\ t = Idle \/ t.pc \in Starts
    /\ t.folk = {} /\ t.object = None /\ t.rooms = {}
    /\ Bridging(t) => t.pc = "askBot"
    /\ \/ t.pc \in OfMatrix \/ SyncsRoom(h)
       \/ CrossedBy(h, About(t), t.channel) \subseteq marked

LEMMA CrossedMore ==
  ASSUME NEW h, NEW users, NEW more, users \subseteq more, NEW c
  PROVE  CrossedBy(h, users, c) \subseteq CrossedBy(h, more, c)
  BY DEF CrossedBy

LEMMA IdleBegun ==
  ASSUME NEW h \in Handlers, NEW marked
  PROVE  Begun(h, Idle, marked)
<1>1. CrossedBy(h, {None}, None) = {}
  BY DEF CrossedBy
<1>2. /\ Idle.user = None /\ Idle.channel = None /\ Idle.folk = {} /\ Idle.object = None
      /\ Idle.rooms = {} /\ Idle.next = "idle"
  BY DEF Idle
<1> QED
  BY <1>1, <1>2 DEF Begun, About, Bridging

LEMMA ChannelTaskBegun ==
  ASSUME NEW h \in Handlers, NEW marked, NEW c \in Channels, NEW t,
         NEW pc \in Starts \ {"askBot"}, ChannelTask(t, c, pc),
         pc \in OfMatrix \/ CrossedBy(h, {None}, c) \subseteq marked
  PROVE  Begun(h, t, marked)
  BY DEF ChannelTask, Begun, About, Bridging

LEMMA SyncChannelType ==
  ASSUME world \in Worlds, NEW c \in Channels
  PROVE  SyncChannel(c) \in Tasks
<1>1. \/ SyncChannel(c) = Idle
      \/ ChannelTask(SyncChannel(c), c, "ensureBot")
      \/ SyncChannel(c) = BridgeTask(c)
  BY ChannelTaskFacts
<1> QED
  BY <1>1, IdleOK, BridgeTaskFacts, WorldFacts DEF ChannelTask

LEMMA SyncChannelBegun ==
  ASSUME world \in Worlds, NEW h \in Handlers, NEW marked, NEW c \in Channels,
         CrossedBy(h, {None, world.creator[c]}, c) \subseteq marked
  PROVE  Begun(h, SyncChannel(c), marked)
<1>1. \/ SyncChannel(c) = Idle
      \/ ChannelTask(SyncChannel(c), c, "ensureBot")
      \/ SyncChannel(c) = BridgeTask(c)
  BY ChannelTaskFacts
<1>2. CrossedBy(h, {None}, c) \subseteq marked
  BY CrossedMore
<1>3. CASE SyncChannel(c) = BridgeTask(c)
  <2> DEFINE t == BridgeTask(c)
  <2>1. /\ t.pc = "askBot" /\ t.next = "bridge" /\ t.user = world.creator[c] /\ t.channel = c
        /\ t.object = None /\ t.folk = {} /\ t.rooms = {}
    BY BridgeTaskFacts, WorldFacts
  <2> HIDE DEF t
  <2>2. About(t) = {None, world.creator[c]}
    BY <2>1 DEF About, Bridging
  <2> QED
    BY <1>3, <2>1, <2>2 DEF Begun, Starts, t
<1> QED
  BY <1>1, <1>2, <1>3, IdleBegun, ChannelTaskBegun DEF Starts

LEMMA StartTurn ==
  ASSUME TypeInv, NEW h \in Handlers, NEW t \in Tasks, Start(h, t), NEW marked, Begun(h, t, marked)
  PROVE  Turn(h) /\ Begun(h, tasks'[h], marked)
  BY TurnDoes

LEMMA HandlesBegins ==
  ASSUME TypeInv, NEW h \in Handlers, slackQueue # <<>>, tasks[h].pc = "idle",
         Handles(h, Head(slackQueue)),
         NEW marked,
         CrossedBy(h, Users(Head(slackQueue)), Head(slackQueue).channel) \subseteq marked
  PROVE  Turn(h) /\ Begun(h, tasks'[h], marked)
<1> DEFINE e == Head(slackQueue)
<1>1. /\ SlackEventOK(e, Channel) /\ e.name \in Names \cup {None} /\ e.flag \in BOOLEAN
      /\ e.user \in Folk \cup {None} /\ e.channel \in Channels \cup {None}
  BY HeadFacts
<1>2. Channel \subseteq Channels /\ tasks \in [Handlers -> Tasks] /\ tasks[h] = Idle
  BY DEF TypeInv, SlackOK, Channel, TasksOK, TaskOK
<1>3. /\ CrossedBy(h, Users(e), e.channel) \subseteq marked
      /\ CrossedBy(h, {e.user}, e.channel) \subseteq marked
  <2>1. {e.user} \subseteq Users(e)
    BY DEF Users
  <2> QED
    BY <2>1, CrossedMore
<1> HIDE DEF e
<1>4. CASE tasks' = tasks
  BY <1>2, <1>4, IdleBegun DEF Turn
<1>5. ASSUME e.type \in {"joined", "left", "message"}, NEW way \in Ways,
             Start(h, RoomTask(e.user, e.channel, way))
      PROVE  Turn(h) /\ Begun(h, tasks'[h], marked)
  <2>1. e.user \in Folk /\ e.channel \in Channels
    BY <1>1, <1>2, <1>5 DEF SlackEventOK
  <2> DEFINE task == RoomTask(e.user, e.channel, way)
  <2>2. /\ task \in Tasks /\ task.pc = "get" /\ task.user = e.user /\ task.channel = e.channel
        /\ task.folk = {} /\ task.object = None /\ task.rooms = {} /\ ~Bridging(task)
    BY <2>1, RoomTaskFacts DEF Bridging, Ways
  <2>3. Start(h, task)
    BY <1>5
  <2> HIDE DEF task
  <2>4. Begun(h, task, marked)
    BY <1>3, <2>2 DEF Begun, Starts, About
  <2> QED
    BY <2>2, <2>3, <2>4, StartTurn
<1>6. ASSUME e.type = "user", Start(h, SyncUser(e.user, e.name, e.flag))
      PROVE  Turn(h) /\ Begun(h, tasks'[h], marked)
  <2>1. e.user \in Folk /\ e.name \in Names /\ e.channel = None
    BY <1>1, <1>6 DEF SlackEventOK
  <2> DEFINE task == SyncUser(e.user, e.name, e.flag)
  <2>2. /\ task \in Tasks /\ task.pc = "existing" /\ task.user = e.user /\ task.channel = None
        /\ task.folk = {} /\ task.object = None /\ task.rooms = {} /\ ~Bridging(task)
    BY <1>1, <2>1, SyncUserFacts DEF Bridging
  <2>3. Start(h, task)
    BY <1>6
  <2> HIDE DEF task
  <2>4. Begun(h, task, marked)
    BY <1>3, <2>1, <2>2 DEF Begun, Starts, About
  <2> QED
    BY <2>2, <2>3, <2>4, StartTurn
<1>7. ASSUME e.type = "created", Start(h, SyncChannel(e.channel))
      PROVE  Turn(h) /\ Begun(h, tasks'[h], marked)
  <2>1. e.channel \in Channels /\ e.user = None
    BY <1>1, <1>2, <1>7 DEF SlackEventOK
  <2>2. Users(e) = {None, world.creator[e.channel]} /\ world \in Worlds
    BY <1>7, <2>1 DEF Users, TypeInv
  <2> QED
    BY <1>3, <1>7, <2>1, <2>2, SyncChannelBegun, SyncChannelType, StartTurn
<1>8. ASSUME e.type = "deleted", Start(h, UnlinkTask(e.channel))
      PROVE  Turn(h) /\ Begun(h, tasks'[h], marked)
  <2>1. e.channel \in Channels /\ e.user = None
    BY <1>1, <1>2, <1>8 DEF SlackEventOK
  <2>2. ChannelTask(UnlinkTask(e.channel), e.channel, "unlink")
    BY <2>1, ChannelTaskFacts
  <2>3. UnlinkTask(e.channel) \in Tasks /\ Begun(h, UnlinkTask(e.channel), marked)
    BY <1>3, <2>1, <2>2, ChannelTaskBegun DEF ChannelTask, Starts
  <2> QED
    BY <1>8, <2>3, StartTurn
<1> QED
  BY <1>4, <1>5, <1>6, <1>7, <1>8 DEF Handles, e

LEMMA BeginsDoes ==
  ASSUME TypeInv, NEW h \in Handlers, Begins(h)
  PROVE  /\ Turn(h) /\ tasks[h] = Idle
         /\ UNCHANGED <<world, slack, matrix, bridged, stored, adminRoom, ghostVars, moved>>
         /\ crossed \subseteq crossed' /\ Begun(h, tasks'[h], crossed')
<1>1. CASE HandleSlack(h)
  BY <1>1, HandleSlackDoes, HandlesBegins, TaskFacts DEF TaskOK, bridge
<1>2. CASE HandleMatrix(h)
  <2> DEFINE e == Head(matrixQueue)
  <2>1. /\ tasks[h].pc = "idle" /\ e.channel \in Channels
        /\ e.type \in {"join", "leave"} => e.user \in MatrixUsers
        /\ \/ e.type = "botInvite" /\ Start(h, BotTask(e.channel))
           \/ e.type = "join" /\ Start(h, PuppetTask(e.channel, e.user))
           \/ e.type # "botInvite" /\ tasks' = tasks
        /\ crossed' \in {crossed, crossed \cup {e.channel}}
        /\ UNCHANGED <<world, slack, matrix, bridged, stored, adminRoom, ghostVars, moved>>
    BY <1>2, HandleMatrixDoes
  <2> HIDE DEF e
  <2>2. tasks[h] = Idle /\ tasks \in [Handlers -> Tasks]
    BY <2>1, TaskFacts DEF TaskOK, TypeInv, TasksOK
  <2>3. CASE tasks' = tasks
    BY <2>1, <2>2, <2>3, IdleBegun DEF Turn
  <2>4. CASE Start(h, BotTask(e.channel))
    <3>1. ChannelTask(BotTask(e.channel), e.channel, "botJoin")
      BY <2>1, ChannelTaskFacts
    <3>2. BotTask(e.channel) \in Tasks /\ Begun(h, BotTask(e.channel), crossed')
      BY <2>1, <3>1, ChannelTaskBegun DEF ChannelTask, Starts, OfMatrix
    <3> QED
      BY <2>1, <2>2, <2>4, <3>2, StartTurn
  <2>5. CASE e.user \in MatrixUsers /\ Start(h, PuppetTask(e.channel, e.user))
    <3>1. ChannelTask(PuppetTask(e.channel, e.user), e.channel, "slackJoin")
      BY <2>1, <2>5, ChannelTaskFacts
    <3>2. /\ PuppetTask(e.channel, e.user) \in Tasks
          /\ Begun(h, PuppetTask(e.channel, e.user), crossed')
      BY <2>1, <3>1, ChannelTaskBegun DEF ChannelTask, Starts, OfMatrix
    <3> QED
      BY <2>1, <2>2, <2>5, <3>2, StartTurn
  <2> QED
    BY <2>1, <2>3, <2>4, <2>5
<1>3. CASE SyncsUser(h)
  <2>1. PICK listed \in Listed :
          /\ tasks[h].pc = "idle" /\ Start(h, ListedTask(listed))
          /\ crossed' = crossed \cup CrossedBy(h, {listed.user}, None)
          /\ UNCHANGED <<world, slack, matrix, bridged, stored, adminRoom, ghostVars, moved>>
    BY <1>3, SyncsUserDoes
  <2> DEFINE task == ListedTask(listed)
  <2>2. /\ task \in Tasks /\ task.pc = "existing" /\ task.user = listed.user
        /\ task.channel = None /\ task.folk = {} /\ task.object = None /\ task.rooms = {}
        /\ ~Bridging(task)
    BY ListedTaskFacts DEF Bridging
  <2>3. Start(h, task)
    BY <2>1
  <2> HIDE DEF task
  <2>4. Begun(h, task, crossed')
    BY <2>1, <2>2 DEF Begun, Starts, About
  <2>5. tasks[h] = Idle
    BY <2>1, TaskFacts DEF TaskOK
  <2> QED
    BY <2>1, <2>2, <2>3, <2>4, <2>5, StartTurn
<1>4. CASE SyncsChannel(h)
  <2>1. PICK c \in Channels :
          /\ tasks[h].pc = "idle" /\ Start(h, SyncChannel(c))
          /\ crossed' = crossed \cup CrossedBy(h, {None, world.creator[c]}, c)
          /\ UNCHANGED <<world, slack, matrix, bridged, stored, adminRoom, ghostVars, moved>>
    BY <1>4, SyncsChannelDoes
  <2>2. tasks[h] = Idle
    BY <2>1, TaskFacts DEF TaskOK
  <2>3. SyncChannel(c) \in Tasks /\ Begun(h, SyncChannel(c), crossed')
    BY <2>1, SyncChannelType, SyncChannelBegun DEF TypeInv
  <2> QED
    BY <2>1, <2>2, <2>3, StartTurn
<1>5. CASE SyncsRoom(h)
  <2>1. PICK c \in Channels :
          /\ tasks[h].pc = "idle" /\ Start(h, RoomSync(c))
          /\ ChannelTask(RoomSync(c), c, "listGhosts")
          /\ UNCHANGED <<world, slack, matrix, bridged, stored, adminRoom, ghostVars, moved,
                         crossed>>
    BY <1>5, SyncsRoomDoes
  <2>2. tasks[h] = Idle
    BY <2>1, TaskFacts DEF TaskOK
  <2>3. RoomSync(c) \in Tasks /\ Begun(h, RoomSync(c), crossed')
    BY <1>5, <2>1 DEF ChannelTask, Begun, Starts, Bridging
  <2> QED
    BY <2>1, <2>2, <2>3, StartTurn
<1> QED
  BY <1>1, <1>2, <1>3, <1>4, <1>5 DEF Begins

-----------------------------------------------------------------------------
\* What is outside leaves the handlers alone, but for a restart.
LEMMA OutsideDoes ==
  ASSUME Outside
  PROVE  /\ Moves
         /\ ~Restart => UNCHANGED <<world, tasks, bridge, ghostsIn, adminRooms, cache, ghosts, rows,
                                    profiles, reverted, crossed>>
         /\ Restart => UNCHANGED <<world, slack, matrixQueue, matrix, stored, adminRoom>>
                          /\ Happens("restart")
  BY DEF Outside, SlackUserJoins, SlackUserLeaves, SlackUserRenamed, SlackUserDeleted,
         SlackUserRestored, ChannelCreated, ChannelDeleted, SlackMessage, MatrixUserMoves,
         BotMoved, Restart, matrix, ghostVars

LEMMA NextDoes ==
  ASSUME Next
  PROVE  \/ Outside \/ ListChannels \/ Forgets
         \/ \E h \in Handlers :
               \/ Begins(h) \/ FolkSteps(h) \/ ChannelSteps(h) \/ MatrixSteps(h)
               \/ BridgeSteps(h) \/ FailSteps(h)
  BY DEF Next, Continues, FolkSteps, ChannelSteps, MatrixSteps, BridgeSteps, FailSteps, LookSteps

-----------------------------------------------------------------------------
(* Admin rooms *)

Storing(m) == {h \in Handlers : At(h, "storeAdmin") /\ tasks[h].mx = m}
Creating(m) == {h \in Handlers : At(h, "createAdmin") /\ tasks[h].mx = m}

\* A room that was made and is not in the table yet has a handler that is to
\* write it there; and there are no more of both than there are handlers.
AdminOK(m) ==
    /\ m \notin adminRoom => adminRooms[m] = Cardinality(Storing(m))
    /\ adminRooms[m] + Cardinality(Creating(m)) <= Cardinality(Handlers)

AdminInv == Happens("restart") \/ \A m \in MatrixUsers : AdminOK(m)

\* One event at a time: only the sync of a room that was linked goes on besides another one.
Awaiting == slackQueue # <<>> \/ matrixQueue # <<>>

SerialOK ==
    /\ toSync.users = {} /\ toSync.channels = {} /\ ~toSync.listing
    /\ Awaiting => toSync.rooms = {} /\ \A h \in Handlers : At(h, "idle")
    /\ \A h \in Handlers :
           tasks[h].pc \in OfMatrix =>
               toSync.rooms = {} /\ \A g \in Handlers \ {h} : At(g, "idle")
    /\ Len(slackQueue) + Len(matrixQueue) <= 1
    /\ \A m \in MatrixUsers : adminRooms[m] <= 1 /\ (m \in adminRoom => Creating(m) = {})

SerialInv == Happens("serial") /\ ~Happens("restart") => SerialOK

\* The sets of handlers are finite.
LEMMA AdminSets ==
  ASSUME NEW m
  PROVE  /\ IsFiniteSet(Handlers) /\ IsFiniteSet(Storing(m)) /\ IsFiniteSet(Creating(m))
         /\ Cardinality(Handlers) \in Nat /\ Cardinality(Storing(m)) \in Nat
         /\ Cardinality(Creating(m)) \in Nat
         /\ Storing(m) \cap Creating(m) = {}
<1>1. IsFiniteSet(Handlers)
  BY TeamMembersAssumption
<1>2. Storing(m) \subseteq Handlers /\ Creating(m) \subseteq Handlers
  BY DEF Storing, Creating
<1>3. Storing(m) \cap Creating(m) = {}
  BY DEF Storing, Creating, At
<1> QED
  BY <1>1, <1>2, <1>3, FS_Subset, FS_CardinalityType

\* Two disjoint sets of handlers, and a handler in neither.
LEMMA RoomForOne ==
  ASSUME NEW S \in SUBSET Handlers, NEW T \in SUBSET Handlers, S \cap T = {},
         NEW h \in Handlers \ (S \cup T)
  PROVE  Cardinality(S) + Cardinality(T) + 1 <= Cardinality(Handlers)
<1>1. IsFiniteSet(Handlers) /\ IsFiniteSet(S) /\ IsFiniteSet(T)
  BY TeamMembersAssumption, FS_Subset
<1>2. /\ IsFiniteSet(S \cup T)
      /\ Cardinality(S \cup T) = Cardinality(S) + Cardinality(T) - Cardinality(S \cap T)
  BY <1>1, FS_Union
<1>3. Cardinality(S \cap T) = 0
  BY FS_EmptySet
<1>4. /\ IsFiniteSet((S \cup T) \cup {h})
      /\ Cardinality((S \cup T) \cup {h}) = Cardinality(S \cup T) + 1
  BY <1>2, FS_AddElement
<1>5. Cardinality((S \cup T) \cup {h}) <= Cardinality(Handlers)
  BY <1>1, <1>4, FS_Subset
<1> QED
  BY <1>1, <1>2, <1>3, <1>4, <1>5, FS_CardinalityType

LEMMA AdminStart == Init /\ TypeInv => AdminInv /\ SerialInv
<1> SUFFICES ASSUME Init, TypeInv PROVE AdminInv /\ SerialInv
  OBVIOUS
<1>1. \A h \in Handlers : At(h, "idle")
  BY DEF Init, At, Idle
<1>2. \A m : Storing(m) = {} /\ Creating(m) = {}
  BY <1>1 DEF Storing, Creating, At
<1>3. Cardinality({}) = 0
  BY FS_EmptySet
<1>4. ASSUME NEW m \in MatrixUsers PROVE AdminOK(m)
  <2>1. Cardinality(Storing(m)) = 0 /\ Cardinality(Creating(m)) = 0 /\ adminRooms[m] = 0
    BY <1>2, <1>3 DEF Init
  <2> QED
    BY <2>1, AdminSets DEF AdminOK
<1>5. SerialOK
  BY <1>1, <1>2 DEF SerialOK, Init, NothingToSync, At, OfMatrix, Awaiting
<1> QED
  BY <1>4, <1>5 DEF AdminInv, SerialInv

\* Most steps have nothing to do with admin rooms.
AdminAside ==
    /\ UNCHANGED <<world, adminRoom, adminRooms>>
    /\ \A m : Storing(m)' = Storing(m) /\ Creating(m)' \subseteq Creating(m)

LEMMA AdminAsideKeeps == TypeInv /\ AdminInv /\ AdminAside => AdminInv'
<1> SUFFICES ASSUME TypeInv, AdminInv, AdminAside, ~Happens("restart"), NEW m \in MatrixUsers
             PROVE  AdminOK(m)'
  BY DEF AdminInv, AdminAside, Happens
<1>1. /\ AdminOK(m) /\ UNCHANGED <<adminRoom, adminRooms>> /\ adminRooms[m] \in Nat
      /\ Storing(m)' = Storing(m) /\ Creating(m)' \subseteq Creating(m)
  BY DEF AdminInv, AdminAside, TypeInv, MatrixOK
<1>2. /\ Cardinality(Creating(m)') <= Cardinality(Creating(m))
      /\ Cardinality(Creating(m)') \in Nat /\ Cardinality(Creating(m)) \in Nat
      /\ Cardinality(Handlers) \in Nat
  BY <1>1, AdminSets, FS_Subset, FS_CardinalityType
<1>3. \A a, b, c, d \in Nat : a + b <= d /\ c <= b => a + c <= d
  OBVIOUS
<1>4. adminRooms[m] + Cardinality(Creating(m)') <= Cardinality(Handlers)
  BY <1>1, <1>2, <1>3 DEF AdminOK
<1> QED
  BY <1>1, <1>4 DEF AdminOK

LEMMA TurnAside ==
  ASSUME TypeInv, NEW h \in Handlers, Turn(h), UNCHANGED <<world, adminRoom, adminRooms>>,
         tasks[h].pc # "storeAdmin", tasks'[h].pc \notin {"createAdmin", "storeAdmin"}
  PROVE  AdminAside
<1>1. ASSUME NEW g \in Handlers, NEW pc \in {"createAdmin", "storeAdmin"}
      PROVE  /\ tasks'[g].pc = pc => tasks[g].pc = pc /\ tasks'[g].mx = tasks[g].mx
             /\ tasks[g].pc = "storeAdmin" => tasks'[g] = tasks[g]
  BY DEF Turn
<1>2. ASSUME NEW m PROVE Storing(m)' = Storing(m) /\ Creating(m)' \subseteq Creating(m)
  BY <1>1 DEF Storing, Creating, At
<1> QED
  BY <1>2 DEF AdminAside

LEMMA AsideSteps ==
  ASSUME TypeInv, [Next]_vars, ~Restart,
         \A h \in Handlers : ~Onboard(h) /\ ~CreateAdminRoom(h) /\ ~StoreAdminRoom(h)
  PROVE  AdminAside
<1>1. CASE tasks' = tasks /\ UNCHANGED <<world, adminRoom, adminRooms>>
  BY <1>1 DEF AdminAside, Storing, Creating, At
<1>2. CASE Outside
  BY <1>1, <1>2, OutsideDoes DEF bridge
<1>3. CASE ListChannels \/ Forgets
  BY <1>1, <1>3 DEF ListChannels, Forgets, bridge, matrix
<1>4. ASSUME NEW h \in Handlers, Begins(h) PROVE AdminAside
  <2>1. tasks[h].pc = "idle"
    BY <1>4, BeginsDoes DEF Idle
  <2>2. tasks'[h].pc \notin {"createAdmin", "storeAdmin"}
    BY <1>4, BeginsDoes DEF Begun, Starts, Idle
  <2> QED
    BY <1>4, <2>1, <2>2, BeginsDoes, TurnAside DEF matrix
<1>5. ASSUME NEW h \in Handlers, FolkSteps(h) PROVE AdminAside
  <2>1. \A t : AboutFolk(t) \/ t = Idle => t.pc \notin {"createAdmin", "storeAdmin"}
    BY DEF AboutFolk, Stage, OfFolk, InRoom, OfUser, Idle
  <2> QED
    BY <1>5, <2>1, FolkStepsDo, FolkStepsKeep, TurnAside DEF bridge
<1>6. ASSUME NEW h \in Handlers, ChannelSteps(h) PROVE AdminAside
  BY <1>6, ChannelStepsDo, TurnAside DEF OfChannel, Idle
<1>7. ASSUME NEW h \in Handlers, BotJoins(h) \/ PuppetJoins(h) PROVE AdminAside
  <2>1. CASE BotJoins(h)
    BY <2>1, BotJoinsDoes, TurnAside DEF Idle
  <2>2. CASE PuppetJoins(h)
    <3>1. /\ Turn(h) /\ tasks[h].pc = "slackJoin" /\ tasks'[h].pc \in {"idle", "onboard"}
          /\ UNCHANGED <<world, adminRoom, adminRooms>>
      BY <2>2, PuppetJoinsDoes DEF Idle, matrix, bridge
    <3> QED
      BY <3>1, TurnAside
  <2> QED
    BY <1>7, <2>1, <2>2
<1>8. CASE UNCHANGED vars
  BY <1>1, <1>8 DEF vars, bridge, matrix
<1>9. ASSUME NEW h \in Handlers, BridgeSteps(h) \/ FailSteps(h) PROVE AdminAside
  <2>1. CASE BridgeSteps(h)
    BY <2>1, BridgeStepsDo, TurnAside DEF bridge, matrix
  <2>2. CASE FailSteps(h)
    BY <2>2, FailStepsDo, TurnAside DEF bridge, matrix, Idle, Calls
  <2> QED
    BY <1>9, <2>1, <2>2
<1> QED
  BY <1>2, <1>3, <1>4, <1>5, <1>6, <1>7, <1>8, <1>9, NextDoes DEF MatrixSteps

\* The sets of the user that a handler is about, when it goes on.
LEMMA TurnSets ==
  ASSUME TypeInv, NEW h \in Handlers, Turn(h), NEW m,
         tasks'[h] = Idle \/ Continued(tasks'[h], tasks[h])
  PROVE  /\ Storing(m)' = IF tasks'[h].pc = "storeAdmin" /\ tasks'[h].mx = m
                          THEN Storing(m) \cup {h} ELSE Storing(m) \ {h}
         /\ Creating(m)' = IF tasks'[h].pc = "createAdmin" /\ tasks'[h].mx = m
                           THEN Creating(m) \cup {h} ELSE Creating(m) \ {h}
  BY DEF Storing, Creating, At, Turn

LEMMA NextKeepsWorld == TypeInv /\ [Next]_vars => world' = world
<1> SUFFICES ASSUME TypeInv, [Next]_vars PROVE world' = world
  OBVIOUS
<1>1. CASE Outside
  BY <1>1, OutsideDoes
<1>2. CASE ListChannels \/ Forgets
  BY <1>2 DEF ListChannels, Forgets
<1>3. ASSUME NEW h \in Handlers,
             \/ Begins(h) \/ FolkSteps(h) \/ ChannelSteps(h) \/ MatrixSteps(h)
             \/ BridgeSteps(h) \/ FailSteps(h)
      PROVE  world' = world
  BY <1>3, BeginsDoes, FolkStepsKeep, ChannelStepsDo, MatrixStepsDo, BridgeStepsDo, FailStepsDo
<1>4. CASE UNCHANGED vars
  BY <1>4 DEF vars
<1> QED
  BY <1>1, <1>2, <1>3, <1>4, NextDoes

LEMMA AdminStep == TypeInv /\ AdminInv /\ [Next]_vars => AdminInv'
<1> SUFFICES ASSUME TypeInv, AdminInv, [Next]_vars PROVE AdminInv'
  OBVIOUS
<1>1. CASE Restart
  BY <1>1 DEF Restart, AdminInv, Happens
<1>2. CASE AdminAside
  BY <1>2, AdminAsideKeeps
<1>3. ASSUME NEW h \in Handlers, ~Happens("restart"),
             Onboard(h) \/ CreateAdminRoom(h) \/ StoreAdminRoom(h)
      PROVE  AdminInv'
  <2> DEFINE s == tasks[h]
  <2> DEFINE t == tasks'[h]
  <2>0. /\ Turn(h) /\ s.mx \in MatrixUsers /\ adminRooms \in [MatrixUsers -> Nat]
        /\ t = Idle \/ (Continued(t, s) /\ t.mx = s.mx)
    BY <1>3, OnboardDoes, CreateAdminRoomDoes, StoreAdminRoomDoes, ContinuedFacts
       DEF TypeInv, MatrixOK
  <2> SUFFICES ASSUME NEW m \in MatrixUsers PROVE AdminOK(m)'
    BY DEF AdminInv
  <2>1. /\ AdminOK(m) /\ adminRooms[m] \in Nat
        /\ Cardinality(Handlers) \in Nat /\ Cardinality(Storing(m)) \in Nat
        /\ Cardinality(Creating(m)) \in Nat
        /\ IsFiniteSet(Storing(m)) /\ IsFiniteSet(Creating(m))
    BY <1>3, <2>0, AdminSets DEF AdminInv
  <2>2. /\ Storing(m)' = IF t.pc = "storeAdmin" /\ t.mx = m
                         THEN Storing(m) \cup {h} ELSE Storing(m) \ {h}
        /\ Creating(m)' = IF t.pc = "createAdmin" /\ t.mx = m
                          THEN Creating(m) \cup {h} ELSE Creating(m) \ {h}
    BY <2>0, TurnSets
  <2>3. /\ h \in Storing(m) <=> s.pc = "storeAdmin" /\ s.mx = m
        /\ h \in Creating(m) <=> s.pc = "createAdmin" /\ s.mx = m
    BY DEF Storing, Creating, At
  <2>4. Idle.pc = "idle"
    BY DEF Idle
  <2>5. CASE m # s.mx
    <3>1. Storing(m)' = Storing(m) /\ Creating(m)' = Creating(m)
      BY <2>0, <2>2, <2>3, <2>4, <2>5
    <3>2. adminRooms'[m] = adminRooms[m] /\ (m \in adminRoom' <=> m \in adminRoom)
      BY <1>3, <2>0, <2>5, OnboardDoes, CreateAdminRoomDoes, StoreAdminRoomDoes DEF matrix, bridge
    <3> QED
      BY <2>1, <3>1, <3>2 DEF AdminOK
  <2>6. CASE m = s.mx /\ Onboard(h) /\ t = Idle
    <3>1. s.pc = "onboard" /\ UNCHANGED <<adminRoom, adminRooms>>
      BY <2>6, OnboardDoes DEF matrix, bridge
    <3>2. Storing(m)' = Storing(m) /\ Creating(m)' = Creating(m)
      BY <2>2, <2>3, <2>4, <2>6, <3>1
    <3> QED
      BY <2>1, <3>1, <3>2 DEF AdminOK
  <2>7. CASE m = s.mx /\ Onboard(h) /\ t # Idle
    <3>1. /\ s.pc = "onboard" /\ t.pc = "createAdmin" /\ m \notin adminRoom /\ t.mx = m
          /\ UNCHANGED <<adminRoom, adminRooms>>
      BY <2>0, <2>7, OnboardDoes DEF matrix, bridge, NewHere
    <3>2. Storing(m)' = Storing(m) /\ Creating(m)' = Creating(m) \cup {h}
      BY <2>2, <2>3, <3>1
    <3>3. /\ Storing(m) \in SUBSET Handlers /\ Creating(m) \in SUBSET Handlers
          /\ Storing(m) \cap Creating(m) = {} /\ h \in Handlers \ (Storing(m) \cup Creating(m))
      BY <2>3, <3>1, AdminSets DEF Storing, Creating
    <3>4. Cardinality(Storing(m)) + Cardinality(Creating(m)) + 1 <= Cardinality(Handlers)
      BY <3>3, RoomForOne
    <3>5. Cardinality(Creating(m)') = Cardinality(Creating(m)) + 1
      BY <2>1, <3>2, <3>3, FS_AddElement
    <3> QED
      BY <2>1, <3>1, <3>2, <3>4, <3>5 DEF AdminOK
  <2>8. CASE m = s.mx /\ CreateAdminRoom(h)
    <3>1. /\ s.pc = "createAdmin" /\ t.pc = "storeAdmin" /\ t.mx = m
          /\ adminRoom' = adminRoom /\ adminRooms' = [adminRooms EXCEPT ![m] = @ + 1]
      BY <2>8, CreateAdminRoomDoes, ContinuedFacts DEF bridge
    <3>2. Storing(m)' = Storing(m) \cup {h} /\ Creating(m)' = Creating(m) \ {h}
      BY <2>2, <3>1
    <3>3. h \notin Storing(m) /\ h \in Creating(m)
      BY <2>3, <2>8, <3>1
    <3>4. IsFiniteSet(Storing(m)) /\ IsFiniteSet(Creating(m))
      BY <2>1
    <3>5. Cardinality(Storing(m)') = Cardinality(Storing(m)) + 1
      BY <3>2, <3>3, <3>4, FS_AddElement
    <3>6. Cardinality(Creating(m)') = Cardinality(Creating(m)) - 1
      BY <3>2, <3>3, <3>4, FS_RemoveElement
    <3>7. adminRooms'[m] = adminRooms[m] + 1
      BY <2>0, <3>1
    <3> QED
      BY <2>1, <3>1, <3>5, <3>6, <3>7 DEF AdminOK
  <2>9. CASE m = s.mx /\ StoreAdminRoom(h)
    <3>1. s.pc = "storeAdmin" /\ t = Idle /\ m \in adminRoom' /\ adminRooms' = adminRooms
      BY <2>9, StoreAdminRoomDoes DEF matrix
    <3>2. Creating(m)' = Creating(m)
      BY <2>2, <2>3, <2>4, <3>1
    <3> QED
      BY <2>1, <3>1, <3>2 DEF AdminOK
  <2> QED
    BY <1>3, <2>5, <2>6, <2>7, <2>8, <2>9
<1>4. CASE Happens("restart")
  <2>1. world' = world
    BY NextKeepsWorld
  <2> QED
    BY <1>4, <2>1 DEF AdminInv, Happens
<1> QED
  BY <1>1, <1>2, <1>3, <1>4, AsideSteps
-----------------------------------------------------------------------------
\* A handler of Matrix is the only one at work, and nothing is on its way then.
LEMMA SerialTurn ==
  ASSUME TypeInv, SerialOK, NEW h \in Handlers, Turn(h)
  PROVE  /\ tasks[h].pc \in OfMatrix \/ Awaiting =>
                \A g \in Handlers \ {h} : At(g, "idle") /\ At(g, "idle")'
         /\ tasks[h].pc # "idle" => ~Awaiting
         /\ tasks[h].pc # "idle" /\ tasks[h].pc \notin OfMatrix =>
                \A g \in Handlers : tasks[g].pc \notin OfMatrix
  BY DEF SerialOK, Turn, At, OfMatrix

\* No user has two admin rooms: who is given one has none, and no one else is
\* at work.
LEMMA SerialAdmin ==
  ASSUME TypeInv, SerialOK, AdminInv, ~Happens("restart"), [Next]_vars, NEW m \in MatrixUsers
  PROVE  adminRooms'[m] <= 1 /\ (m \in adminRoom' => Creating(m)' = {})
<1>0. adminRooms[m] <= 1 /\ (m \in adminRoom => Creating(m) = {}) /\ ~Restart
  BY DEF SerialOK, Restart
<1>1. CASE AdminAside
  BY <1>0, <1>1 DEF AdminAside
<1>2. ASSUME NEW h \in Handlers, Onboard(h) \/ CreateAdminRoom(h) \/ StoreAdminRoom(h)
      PROVE  adminRooms'[m] <= 1 /\ (m \in adminRoom' => Creating(m)' = {})
  <2> DEFINE s == tasks[h]
  <2> DEFINE t == tasks'[h]
  <2>0. /\ Turn(h) /\ s.mx \in MatrixUsers /\ adminRooms \in [MatrixUsers -> Nat]
        /\ t = Idle \/ (Continued(t, s) /\ t.mx = s.mx)
        /\ s.pc \in {"onboard", "createAdmin", "storeAdmin"}
    BY <1>2, OnboardDoes, CreateAdminRoomDoes, StoreAdminRoomDoes, ContinuedFacts
       DEF TypeInv, MatrixOK
  <2>1. \A g \in Handlers \ {h} : At(g, "idle") /\ At(g, "idle")'
    BY <2>0, SerialTurn DEF OfMatrix
  <2>2. /\ Creating(m)' = IF t.pc = "createAdmin" /\ t.mx = m THEN {h} ELSE {}
        /\ Storing(m) = IF s.pc = "storeAdmin" /\ s.mx = m THEN {h} ELSE {}
        /\ Creating(m) = IF s.pc = "createAdmin" /\ s.mx = m THEN {h} ELSE {}
    BY <2>1 DEF Creating, Storing, At
  <2>3. CASE Onboard(h)
    <3>1. /\ UNCHANGED <<adminRoom, adminRooms>> /\ s.pc = "onboard"
          /\ t = Idle \/ (t.pc = "createAdmin" /\ s.mx \notin adminRoom)
      BY <2>3, OnboardDoes DEF matrix, bridge, NewHere
    <3> QED
      BY <1>0, <2>0, <2>2, <3>1 DEF Idle
  <2>4. CASE CreateAdminRoom(h)
    <3>1. /\ adminRoom' = adminRoom /\ s.pc = "createAdmin" /\ t.pc = "storeAdmin"
          /\ adminRooms' = [adminRooms EXCEPT ![s.mx] = @ + 1]
      BY <2>4, CreateAdminRoomDoes DEF bridge
    <3>2. Creating(m)' = {}
      BY <2>2, <3>1
    <3>3. CASE s.mx = m
      <4>1. m \notin adminRoom /\ Storing(m) = {}
        BY <1>0, <2>2, <3>1, <3>3
      <4>2. adminRooms[m] = Cardinality(Storing(m)) /\ Cardinality({}) = 0
        BY <4>1, FS_EmptySet DEF AdminInv, AdminOK
      <4>3. adminRooms[m] = 0
        BY <4>1, <4>2
      <4> QED
        BY <2>0, <3>1, <3>2, <3>3, <4>3
    <3>4. CASE s.mx # m
      BY <1>0, <2>0, <3>1, <3>2, <3>4
    <3> QED
      BY <3>3, <3>4
  <2>5. CASE StoreAdminRoom(h)
    <3>1. UNCHANGED adminRooms /\ t = Idle
      BY <2>5, StoreAdminRoomDoes DEF matrix
    <3> QED
      BY <1>0, <2>2, <3>1 DEF Idle
  <2> QED
    BY <1>2, <2>3, <2>4, <2>5
<1> QED
  BY <1>0, <1>1, <1>2, AsideSteps

\* What was sent goes to the queue, if it goes anywhere.
LEMMA SentAddsOne ==
  ASSUME slackQueue = <<>>, NEW e, Sent(e)
  PROVE  Len(slackQueue') \in {0, 1}
  BY DEF Sent

LEMMA QuietMoves ==
  ASSUME TypeInv, SerialOK, Happens("serial"), Outside, ~Restart
  PROVE  /\ \A h \in Handlers : At(h, "idle")
         /\ Len(slackQueue') + Len(matrixQueue') <= 1
<1>1. Quiet
  BY OutsideDoes DEF Moves
<1>2. slackQueue = <<>> /\ matrixQueue = <<>> /\ (\A h \in Handlers : At(h, "idle"))
  BY <1>1 DEF Quiet, AllIdle
<1>3. Len(slackQueue) = 0 /\ Len(matrixQueue) = 0
  BY <1>2
<1>4. \A e : Sent(e) => Len(slackQueue') \in {0, 1}
  BY <1>2, SentAddsOne
<1>5. \A type, u, c : Tell(type, u, c) => Len(matrixQueue') = 1
  BY <1>2 DEF Tell
<1>6. CASE MatrixUserMoves \/ BotMoved
  <2>1. slackQueue' = slackQueue /\ Len(matrixQueue') = 1
    BY <1>5, <1>6 DEF MatrixUserMoves, BotMoved
  <2> QED
    BY <1>2, <1>3, <2>1
<1>7. ASSUME NEW e, Sent(e), matrixQueue' = matrixQueue
      PROVE  Len(slackQueue') + Len(matrixQueue') <= 1
  <2>1. Len(slackQueue') \in {0, 1} /\ Len(matrixQueue') = 0
    BY <1>3, <1>4, <1>7
  <2>2. \A a, b : a \in {0, 1} /\ b = 0 => a + b <= 1
    OBVIOUS
  <2> QED
    BY <2>1, <2>2
<1>8. \/ MatrixUserMoves \/ BotMoved
      \/ \E e : Sent(e) /\ matrixQueue' = matrixQueue
  BY DEF Outside, SlackUserJoins, SlackUserLeaves, SlackUserRenamed, SlackUserDeleted,
         SlackUserRestored, ChannelCreated, ChannelDeleted, SlackMessage
<1> QED
  BY <1>2, <1>6, <1>7, <1>8

LEMMA ChannelListing ==
  ASSUME TypeInv, NEW h \in Handlers, ChannelSteps(h)
  PROVE  toSync'.listing = toSync.listing
<1>1. toSync' = toSync \/ BridgeChannel(h)
  BY ChannelStepsDo
<1>2. CASE BridgeChannel(h)
  BY <1>2, BridgeChannelDoes DEF TypeInv, ToSyncOK, Bridges
<1> QED
  BY <1>1, <1>2

LEMMA SerialStep == TypeInv /\ AdminInv /\ SerialInv /\ [Next]_vars => SerialInv'
<1> SUFFICES ASSUME TypeInv, AdminInv, SerialInv, [Next]_vars, Happens("serial")',
                    ~Happens("restart")'
             PROVE  SerialOK'
  BY DEF SerialInv
<1>0. Happens("serial") /\ ~Happens("restart") /\ SerialOK /\ ~Restart
  BY NextKeepsWorld DEF Happens, SerialInv, Restart
<1>1. \A m \in MatrixUsers : adminRooms'[m] <= 1 /\ (m \in adminRoom' => Creating(m)' = {})
  BY <1>0, SerialAdmin
<1> DEFINE Listed0 == toSync'.users = {} /\ toSync'.channels = {} /\ ~toSync'.listing
<1> DEFINE Alone0 ==
        \A h \in Handlers : tasks'[h].pc \in OfMatrix =>
            toSync'.rooms = {} /\ \A g \in Handlers \ {h} : At(g, "idle")'
<1> DEFINE Waits0 == Awaiting' => toSync'.rooms = {} /\ \A h \in Handlers : At(h, "idle")'
<1> DEFINE One0 == Len(slackQueue') + Len(matrixQueue') <= 1
<1>2. SUFFICES Listed0 /\ Alone0 /\ Waits0 /\ One0
  BY <1>1 DEF SerialOK
<1>a. /\ toSync.users = {} /\ toSync.channels = {} /\ ~toSync.listing
      /\ Len(slackQueue) + Len(matrixQueue) <= 1
      /\ slackQueue \in Seq(SlackEvents) /\ matrixQueue \in Seq(MatrixEvents)
  BY <1>0 DEF SerialOK, TypeInv, SlackQueueOK, MatrixQueueOK
<1>3. CASE UNCHANGED <<tasks, queues, toSync>>
  BY <1>0, <1>3 DEF SerialOK, At, queues, Awaiting
<1>4. CASE Outside
  <2>1. tasks' = tasks /\ toSync' = toSync /\ toSync = NothingToSync
    BY <1>0, <1>4, OutsideDoes DEF bridge, Moves, Quiet
  <2>2. /\ \A h \in Handlers : At(h, "idle") /\ At(h, "idle")'
        /\ One0
    BY <1>0, <1>4, <2>1, QuietMoves DEF At
  <2> QED
    BY <2>1, <2>2 DEF NothingToSync, At, OfMatrix
<1>5. ASSUME ListChannels PROVE FALSE
  BY <1>a, <1>5 DEF ListChannels
<1>6. CASE Forgets
  BY <1>3, <1>6 DEF Forgets, bridge
<1>7. ASSUME NEW h \in Handlers, SyncsUser(h) \/ SyncsChannel(h) PROVE FALSE
  BY <1>a, <1>7 DEF SyncsUser, SyncsChannel
<1>8. ASSUME NEW h \in Handlers, HandleSlack(h) \/ HandleMatrix(h)
      PROVE  Listed0 /\ Alone0 /\ Waits0 /\ One0
  <2>1. Turn(h) /\ Begins(h)
    BY <1>8, BeginsDoes DEF Begins
  <2>2. Len(slackQueue) \in Nat /\ Len(matrixQueue) \in Nat
    BY <1>a
  <2>0. /\ slackQueue # <<>> => Len(slackQueue) # 0
        /\ matrixQueue # <<>> => Len(matrixQueue) # 0
    BY <1>a
  <2>3. \A a, b \in Nat : a + b <= 1 /\ a # 0 => a = 1 /\ b = 0
    OBVIOUS
  <2>4. \A a, b \in Nat : a + b <= 1 /\ b # 0 => b = 1 /\ a = 0
    OBVIOUS
  <2>5. Awaiting /\ slackQueue' = <<>> /\ matrixQueue' = <<>> /\ toSync' = toSync
    <3>1. CASE HandleSlack(h)
      <4>1. /\ slackQueue # <<>> /\ slackQueue' = Tail(slackQueue) /\ matrixQueue' = matrixQueue
            /\ toSync' = toSync
        BY <3>1, HandleSlackDoes DEF bridge
      <4>2. Len(slackQueue) = 1 /\ Len(matrixQueue) = 0
        BY <1>a, <2>3, <2>2, <2>0, <4>1
      <4> QED
        BY <1>a, <4>1, <4>2 DEF Awaiting
    <3>2. CASE HandleMatrix(h)
      <4>1. /\ matrixQueue # <<>> /\ matrixQueue' = Tail(matrixQueue) /\ slackQueue' = slackQueue
            /\ toSync' = toSync
        BY <3>2, HandleMatrixDoes
      <4>2. Len(matrixQueue) = 1 /\ Len(slackQueue) = 0
        BY <1>a, <2>4, <2>2, <2>0, <4>1
      <4> QED
        BY <1>a, <4>1, <4>2 DEF Awaiting
    <3> QED
      BY <1>8, <3>1, <3>2
  <2>6. /\ \A g \in Handlers \ {h} : At(g, "idle")'
        /\ toSync'.rooms = {}
    BY <1>0, <2>1, <2>5, SerialTurn DEF SerialOK
  <2>7. Len(<<>>) = 0
    OBVIOUS
  <2> QED
    BY <1>a, <2>5, <2>6, <2>7 DEF Awaiting, At, OfMatrix
<1>9. ASSUME NEW h \in Handlers, SyncsRoom(h) PROVE Listed0 /\ Alone0 /\ Waits0 /\ One0
  <2>1. PICK c \in Channels :
          /\ c \in toSync.rooms /\ toSync' = [toSync EXCEPT !.rooms = @ \ {c}]
          /\ UNCHANGED queues /\ Begun(h, tasks'[h], {}) /\ Turn(h)
          /\ tasks'[h].pc = "listGhosts"
    <3>1. PICK c \in Channels :
            /\ c \in toSync.rooms /\ toSync' = [toSync EXCEPT !.rooms = @ \ {c}]
            /\ UNCHANGED queues /\ Start(h, RoomSync(c))
            /\ ChannelTask(RoomSync(c), c, "listGhosts")
      BY <1>9, SyncsRoomDoes
    <3>2. Begun(h, RoomSync(c), {})
      BY <1>9, <3>1 DEF ChannelTask, Begun, Starts, Bridging
    <3> QED
      BY <3>1, <3>2, StartTurn, TurnDoes DEF ChannelTask
  <2>2. /\ toSync'.users = toSync.users /\ toSync'.channels = toSync.channels
        /\ toSync'.listing = toSync.listing
    BY <2>1 DEF TypeInv, ToSyncOK
  <2>3. ~Awaiting /\ \A g \in Handlers : tasks[g].pc \notin OfMatrix
    BY <1>0, <2>1 DEF SerialOK
  <2>4. \A g \in Handlers : tasks'[g].pc \notin OfMatrix
    BY <2>1, <2>3 DEF Turn, OfMatrix
  <2> QED
    BY <1>a, <2>1, <2>2, <2>3, <2>4 DEF Awaiting, queues
<1>10. ASSUME NEW h \in Handlers,
              FolkSteps(h) \/ ChannelSteps(h) \/ BridgeSteps(h) \/ FailSteps(h)
       PROVE  Listed0 /\ Alone0 /\ Waits0 /\ One0
  <2>1. /\ Turn(h) /\ tasks[h].pc # "idle" /\ tasks'[h].pc \notin OfMatrix /\ UNCHANGED queues
        /\ toSync'.users = toSync.users /\ toSync'.channels = toSync.channels
        /\ toSync'.listing = toSync.listing
    <3>1. \A t : AboutFolk(t) \/ t = Idle => t.pc \notin OfMatrix
      BY DEF AboutFolk, Stage, OfFolk, InRoom, OfUser, Idle, OfMatrix
    <3>2. CASE FolkSteps(h)
      BY <3>1, <3>2, FolkStepsDo, FolkStepsKeep DEF AboutFolk, bridge
    <3>3. CASE ChannelSteps(h)
      BY <3>3, ChannelStepsDo, ChannelListing DEF OfChannel, OfMatrix, Idle
    <3>4. CASE BridgeSteps(h)
      BY <3>4, BridgeStepsDo DEF OfMatrix, bridge
    <3>5. CASE FailSteps(h)
      BY <3>5, FailStepsDo DEF OfMatrix, bridge, Idle, Calls
    <3> QED
      BY <1>10, <3>2, <3>3, <3>4, <3>5
  <2>2. ~Awaiting
    BY <1>0, <2>1, SerialTurn
  <2>3. \A g \in Handlers : tasks'[g].pc \notin OfMatrix
    <3>1. \A g \in Handlers \ {h} : tasks'[g].pc \notin OfMatrix
      BY <1>0, <2>1 DEF SerialOK, Turn, At, OfMatrix
    <3> QED
      BY <2>1, <3>1
  <2> QED
    BY <1>a, <2>1, <2>2, <2>3 DEF Awaiting, queues
<1>11. ASSUME NEW h \in Handlers, MatrixSteps(h) PROVE Listed0 /\ Alone0 /\ Waits0 /\ One0
  <2>1. /\ Turn(h) /\ tasks[h].pc \in OfMatrix /\ toSync' = toSync /\ matrixQueue' = matrixQueue
        /\ slackQueue' = slackQueue \/ (tasks'[h] = Idle /\ PuppetJoins(h))
    <3>1. /\ Turn(h) /\ tasks[h].pc \in OfMatrix /\ toSync' = toSync /\ matrixQueue' = matrixQueue
          /\ slackQueue' = slackQueue \/ PuppetJoins(h)
      BY <1>11, MatrixStepsDo
    <3> QED
      BY <3>1, PuppetJoinsDoes
  <2>2. /\ slackQueue = <<>> /\ matrixQueue = <<>> /\ toSync.rooms = {}
        /\ Len(slackQueue) = 0 /\ Len(matrixQueue) = 0
        /\ \A g \in Handlers \ {h} : At(g, "idle")'
    BY <1>0, <2>1, SerialTurn DEF SerialOK, OfMatrix, Awaiting
  <2>3. CASE slackQueue' = slackQueue
    BY <1>a, <2>1, <2>2, <2>3 DEF Awaiting, At, OfMatrix
  <2>4. CASE tasks'[h] = Idle /\ PuppetJoins(h)
    <3>1. Len(slackQueue') \in {0, 1} /\ Len(matrixQueue') = 0
      BY <2>1, <2>2, <2>4, PuppetJoinsDoes, SentAddsOne DEF JoinsSlack
    <3>2. \A g \in Handlers : At(g, "idle")'
      BY <2>2, <2>4 DEF At, Idle
    <3>3. \A a, b : a \in {0, 1} /\ b = 0 => a + b <= 1
      OBVIOUS
    <3>4. One0
      BY <3>1, <3>3
    <3> QED
      BY <1>a, <2>1, <2>2, <3>2, <3>4 DEF At, OfMatrix
  <2> QED
    BY <2>1, <2>3, <2>4
<1>12. CASE UNCHANGED vars
  BY <1>3, <1>12 DEF vars, bridge
<1>13. ASSUME NEW h \in Handlers, Begins(h) PROVE Listed0 /\ Alone0 /\ Waits0 /\ One0
  BY <1>7, <1>8, <1>9, <1>13 DEF Begins
<1> QED
  BY <1>4, <1>5, <1>6, <1>10, <1>11, <1>12, <1>13, NextDoes

\* A handler of SlackEventHandler, of Main.handleMatrixMembership or of the team sync always
\* knows what its next step needs: a user of the team, a channel there has been, a ghost.
THEOREM TypesHold == Spec => []TypeInv
  BY TypesStart, TypesStep, PTL DEF Spec

\* The state of the team's rooms is what the declarations of TeamSyncer, SlackGhostStore
\* and the datastore say: every handler is about a user or a channel that Slack has named.
THEOREM TypeCorrect == Spec => []TypeOK
  BY TypesHold, TypeInvTypeOK, PTL

\* Every admin room that Main.inviteAndCreateAdminRoom made before the user had one is still to
\* be stored by its handler, and with events one at a time there is one handler at work.
THEOREM AdminRoomsHold == Spec => [](TypeInv /\ AdminInv /\ SerialInv)
<1>1. Init => TypeInv /\ AdminInv /\ SerialInv
  BY TypesStart, AdminStart
<1>2. TypeInv /\ AdminInv /\ SerialInv /\ [Next]_vars => (TypeInv /\ AdminInv /\ SerialInv)'
  BY TypesStep, AdminStep, SerialStep
<1> QED
  BY <1>1, <1>2, PTL DEF Spec

\* Main.handleMatrixMembership looks whether a user has an admin room, makes one and then writes
\* it down: by joins that are handled one after the other a user is given one room, and by joins
\* that overlap no more than there are handlers at once.
THEOREM AdminRoomsBounded == Spec => []OneAdminRoom
<1>1. TypeInv /\ AdminInv /\ SerialInv => OneAdminRoom
  <2> SUFFICES ASSUME TypeInv, AdminInv, SerialInv, ~Happens("restart"), NEW m \in MatrixUsers
               PROVE  adminRooms[m] <= IF Happens("serial") THEN 1 ELSE Cardinality(Handlers)
    BY DEF OneAdminRoom
  <2>1. CASE Happens("serial")
    BY <2>1 DEF SerialInv, SerialOK
  <2>2. adminRooms[m] + Cardinality(Creating(m)) <= Cardinality(Handlers)
    BY DEF AdminInv, AdminOK
  <2>3. adminRooms[m] \in Nat
    BY DEF TypeInv, MatrixOK
  <2>4. \A a, b, c \in Nat : a + b <= c => a <= c
    OBVIOUS
  <2>5. adminRooms[m] <= Cardinality(Handlers)
    BY <2>2, <2>3, <2>4, AdminSets
  <2> QED
    BY <2>1, <2>5
<1> QED
  BY <1>1, AdminRoomsHold, PTL

-----------------------------------------------------------------------------
(* Channels: what holds of one that no two handlers were about at once *)

On(pc, c) == \E h \in Handlers : Place(tasks[h]) = pc /\ tasks[h].channel = c

Syncs == {"ensureBot", "listGhosts", "listMembers", "move"}

Sends(type, c) ==
    \E i \in 1..Len(slackQueue) : slackQueue[i].type = type /\ slackQueue[i].channel = c

BotEvents == {"botInvite", "botLeave", "botBan"}
BotEvent(i, c) == matrixQueue[i].type \in BotEvents /\ matrixQueue[i].channel = c
BotQueued(c) == \E i \in 1..Len(matrixQueue) : BotEvent(i, c)
BotPending(c) == On("botJoin", c) \/ BotQueued(c)
BotLeft(c) == \E i \in 1..Len(matrixQueue) : BotEvent(i, c) /\ matrixQueue[i].type \in BotLeaves

\* Nothing comes after an invitation, and one is taken up at a time.
BotOrder(c) ==
    \A i, j \in 1..Len(matrixQueue) :
        i < j /\ BotEvent(i, c) /\ BotEvent(j, c) => matrixQueue[i].type # "botInvite"
BotOnce(c) ==
    \A g, h \in Handlers :
        /\ Place(tasks[g]) = "botJoin" /\ tasks[g].channel = c
        /\ Place(tasks[h]) = "botJoin" /\ tasks[h].channel = c
        => g = h

Allowed(c) == SyncAllows(c, c \in world.hidden) /\ ListAllows(c)

\* A channel whose deletion the bridge has taken up is not bridged again.
Ended(c) ==
    /\ c \in closed /\ c \notin toSync.channels
    /\ ~Sends("created", c) /\ ~Sends("deleted", c) /\ ~On("bridge", c)

\* A handler about the channel as a whole is alone, but for what the bot does on Matrix,
\* and for a second sync of the membership.
AloneOK(c) ==
    \A g, h \in Handlers :
        g # h /\ tasks[g].channel = c /\ tasks[h].channel = c /\ Place(tasks[h]) \in OfChannel
        => \/ Place(tasks[g]) \in OfMatrix
           \/ Place(tasks[g]) \in Syncs /\ Place(tasks[h]) \in Syncs

\* A room that is still to be synced has no handlers that another sync would disturb.
RoomsOK(c) ==
    c \in toSync.rooms =>
        /\ c \in bridged
        /\ \A h \in Handlers :
               tasks[h].channel = c => Place(tasks[h]) \in Syncs \cup OfMatrix

\* Unlinking takes the room out of memory first, and out of the table when it is empty.
StoredOK(c) == c \in stored <=> c \in bridged \/ On("drain", c)

BridgingOK(c) ==
    /\ On("bridge", c) => c \notin bridged /\ Allowed(c)
    /\ On("bridge", c) \/ c \in toSync.channels => c \in open \/ Sends("deleted", c)

UnlinkingOK(c) ==
    /\ On("unlink", c) => Ended(c) /\ c \in bridged
    /\ On("drain", c) => Ended(c) /\ c \notin bridged

LinkedOK(c) ==
    c \in bridged =>
        /\ c \in world.linked \/ Allowed(c)
        /\ c \in open \/ ~SyncAllowsDeletion(c) \/ Sends("deleted", c) \/ On("unlink", c)

UnbridgedOK(c) ==
    c \notin bridged =>
        /\ c \in botIn \/ BotPending(c) => Ended(c)
        /\ ghostsIn[c] = {} \/ On("drain", c)
        /\ \A h \in Handlers :
               tasks[h].channel = c => Place(tasks[h]) \in {"bridge", "drain"} \cup OfMatrix

\* The bot's comings and goings reach the bridge one at a time.
BotOK(c) ==
    c \in bridged =>
        /\ c \in botIn => c \in active /\ ~BotPending(c)
        /\ c \in active /\ c \notin botIn => BotLeft(c)
        /\ BotOrder(c) /\ BotOnce(c)
        /\ On("botJoin", c) => ~BotQueued(c)

ChannelOK(c) ==
    /\ AloneOK(c) /\ BridgingOK(c) /\ UnlinkingOK(c) /\ LinkedOK(c) /\ UnbridgedOK(c)
    /\ BotOK(c) /\ RoomsOK(c) /\ StoredOK(c)

\* A channel is deleted once, and is not created after that.
DeletedLast ==
    \A i, j \in 1..Len(slackQueue) :
        /\ i < j /\ slackQueue[i].type = "deleted"
        /\ slackQueue[j].type \in {"created", "deleted"}
        => slackQueue[i].channel # slackQueue[j].channel

ChannelInv == DeletedLast /\ \A c \in Channels : c \notin crossed => ChannelOK(c)

-----------------------------------------------------------------------------
(* Steps that have nothing to do with a channel *)

Chores == {"slackJoin", "onboard", "createAdmin", "storeAdmin"}

\* Places that are the same to the channel.
Like(p, q) ==
    \/ p = q \/ (p \in Syncs /\ q \in Syncs) \/ (p \in Chores /\ q \in Chores)
    \/ (p \notin OfChannel \cup OfMatrix /\ q \notin OfChannel \cup OfMatrix)

\* A handler that begins, and is about the room of the channel or a user of it.
Joins(pc, c) ==
    \/ pc \in Chores
    \/ pc \in Syncs /\ c \in toSync.rooms
    \/ /\ pc \notin OfChannel \cup OfMatrix /\ c \in bridged /\ c \notin toSync.rooms
       /\ \A h \in Handlers : tasks[h].channel = c => Place(tasks[h]) \notin OfChannel

TasksAside(c) ==
    \A h \in Handlers :
        /\ tasks'[h].channel = c =>
               \/ tasks[h].channel = c /\ Like(Place(tasks'[h]), Place(tasks[h]))
               \/ Joins(Place(tasks'[h]), c)
        /\ tasks[h].channel = c /\ Place(tasks[h]) \in {"unlink", "drain"} =>
               tasks'[h].channel = c /\ Place(tasks'[h]) = Place(tasks[h])

\* The events about the bot are the same, one place further on at most.
BotQueueKept(c) ==
    \E k \in {0, 1} :
        /\ \A i \in 1..Len(matrixQueue') :
              BotEvent(i, c)' =>
                  i + k \in 1..Len(matrixQueue) /\ matrixQueue'[i] = matrixQueue[i + k]
        /\ \A i \in 1..Len(matrixQueue) :
              BotEvent(i, c) =>
                  i - k \in 1..Len(matrixQueue') /\ matrixQueue'[i - k] = matrixQueue[i]

Aside(c) ==
    /\ UNCHANGED world /\ TasksAside(c) /\ BotQueueKept(c)
    /\ (c \in bridged' <=> c \in bridged) /\ (c \in active' <=> c \in active)
    /\ (c \in botIn' <=> c \in botIn) /\ (c \in open' <=> c \in open)
    /\ (c \in closed' <=> c \in closed)
    /\ c \in toSync'.channels => c \in toSync.channels
    /\ c \in toSync'.rooms => c \in toSync.rooms
    /\ (c \in stored' <=> c \in stored)
    /\ c \in bridged \/ ghostsIn'[c] \subseteq ghostsIn[c]
    /\ Sends("created", c)' => Sends("created", c)
    /\ (Sends("deleted", c)' <=> Sends("deleted", c))

LEMMA AllowedKept ==
  ASSUME UNCHANGED world, NEW c
  PROVE  (Allowed(c)' <=> Allowed(c)) /\ (SyncAllowsDeletion(c)' <=> SyncAllowsDeletion(c))
  BY DEF Allowed, SyncAllowsDeletion, SyncAllows, ListAllows

LEMMA OnAside ==
  ASSUME NEW c \in Channels, TasksAside(c)
  PROVE  /\ \A pc \in {"bridge", "unlink", "drain", "botJoin"} : On(pc, c)' => On(pc, c)
         /\ \A pc \in {"unlink", "drain"} : On(pc, c) => On(pc, c)'
  BY DEF On, TasksAside, Joins, Like, Syncs, Chores, OfChannel, OfMatrix

LEMMA BotQueueAside ==
  ASSUME TypeInv, NEW c \in Channels, BotQueueKept(c)
  PROVE  /\ (BotQueued(c)' <=> BotQueued(c))
         /\ BotLeft(c) => BotLeft(c)'
         /\ BotOrder(c) => BotOrder(c)'
<1>1. PICK k \in {0, 1} :
         /\ \A i \in 1..Len(matrixQueue') :
              BotEvent(i, c)' =>
                  i + k \in 1..Len(matrixQueue) /\ matrixQueue'[i] = matrixQueue[i + k]
         /\ \A i \in 1..Len(matrixQueue) :
              BotEvent(i, c) =>
                  i - k \in 1..Len(matrixQueue') /\ matrixQueue'[i - k] = matrixQueue[i]
  BY DEF BotQueueKept
<1>2. \A i \in 1..Len(matrixQueue') : BotEvent(i, c)' => BotEvent(i + k, c)
  BY <1>1 DEF BotEvent
<1>3. \A i \in 1..Len(matrixQueue) : BotEvent(i, c) => BotEvent(i - k, c)'
  BY <1>1 DEF BotEvent
<1>4. (BotQueued(c)' <=> BotQueued(c))
  BY <1>1, <1>2, <1>3 DEF BotQueued
<1>5. ASSUME NEW i \in 1..Len(matrixQueue), BotEvent(i, c), matrixQueue[i].type \in BotLeaves
      PROVE  BotLeft(c)'
  BY <1>1, <1>3, <1>5 DEF BotLeaves, BotLeft
<1>6. ASSUME BotOrder(c),
             NEW i \in 1..Len(matrixQueue'), NEW j \in 1..Len(matrixQueue'),
             i < j, BotEvent(i, c)', BotEvent(j, c)'
      PROVE  matrixQueue'[i].type # "botInvite"
  <2>1. /\ i + k \in 1..Len(matrixQueue) /\ j + k \in 1..Len(matrixQueue)
        /\ BotEvent(i + k, c) /\ BotEvent(j + k, c) /\ matrixQueue'[i] = matrixQueue[i + k]
    BY <1>1, <1>2, <1>6
  <2>2. i + k < j + k
    BY <1>6
  <2> QED
    BY <1>6, <2>1, <2>2 DEF BotOrder
<1> QED
  BY <1>4, <1>5, <1>6 DEF BotLeft, BotOrder

LEMMA AsideKeeps ==
  ASSUME TypeInv, NEW c \in Channels, ChannelOK(c), Aside(c)
  PROVE  ChannelOK(c)'
<1> USE DEF ChannelOK
<1>1. /\ \A pc \in {"bridge", "unlink", "drain", "botJoin"} : On(pc, c)' => On(pc, c)
      /\ \A pc \in {"unlink", "drain"} : On(pc, c) => On(pc, c)'
  BY OnAside DEF Aside
<1>2. (Allowed(c)' <=> Allowed(c)) /\ (SyncAllowsDeletion(c)' <=> SyncAllowsDeletion(c))
  BY AllowedKept DEF Aside
<1>3. Ended(c) => Ended(c)'
  BY <1>1 DEF Ended, Aside
<1>4. AloneOK(c)'
  <2> SUFFICES ASSUME NEW g \in Handlers, NEW h \in Handlers, g # h, tasks'[g].channel = c,
                      tasks'[h].channel = c, Place(tasks'[h]) \in OfChannel
               PROVE  \/ Place(tasks'[g]) \in OfMatrix
                      \/ Place(tasks'[g]) \in Syncs /\ Place(tasks'[h]) \in Syncs
    BY DEF AloneOK, Place
  <2> DEFINE p == Place(tasks[g])
             q == Place(tasks[h])
             p2 == Place(tasks'[g])
             q2 == Place(tasks'[h])
  <2>1. /\ (tasks[g].channel = c /\ Like(p2, p)) \/ Joins(p2, c)
        /\ (tasks[h].channel = c /\ Like(q2, q)) \/ Joins(q2, c)
    BY DEF Aside, TasksAside
  <2>2. tasks[g].channel = c /\ tasks[h].channel = c /\ q \in OfChannel =>
            p \in OfMatrix \/ (p \in Syncs /\ q \in Syncs)
    BY DEF AloneOK
  <2>3. c \in toSync.rooms => /\ tasks[g].channel = c => p \in Syncs \cup OfMatrix
                              /\ tasks[h].channel = c => q \in Syncs \cup OfMatrix
    BY DEF RoomsOK
  <2>4. ~Joins(q2, c) => q2 = q \/ (q2 \in Syncs /\ q \in Syncs)
    BY <2>1 DEF Like, Chores, OfChannel, OfMatrix
  <2>5. Joins(q2, c) => q2 \in Syncs /\ c \in toSync.rooms
    BY DEF Joins, Chores, OfChannel, OfMatrix
  <2>6. Joins(p2, c) =>
            \/ p2 \in OfMatrix \/ (p2 \in Syncs /\ c \in toSync.rooms)
            \/ c \notin toSync.rooms /\ (tasks[h].channel = c => q \notin OfChannel)
    BY DEF Joins, Chores, OfMatrix
  <2>7. p \in OfMatrix /\ Like(p2, p) => p2 \in OfMatrix
    BY DEF Like, Chores, OfMatrix, Syncs
  <2>8. p \in Syncs /\ Like(p2, p) => p2 \in Syncs
    BY DEF Like, Chores, OfMatrix, OfChannel, Syncs
  <2>9. Syncs \subseteq OfChannel /\ \A r \in OfChannel : r \notin OfMatrix
    BY DEF Syncs, OfChannel, OfMatrix
  <2> HIDE DEF p, q, p2, q2
  <2>10. CASE Joins(q2, c)
    BY <2>1, <2>3, <2>5, <2>6, <2>7, <2>8, <2>10 DEF p2, q2
  <2>11. CASE ~Joins(q2, c)
    <3>1. tasks[h].channel = c /\ q \in OfChannel
      BY <2>1, <2>4, <2>9, <2>11 DEF q2
    <3>2. CASE Joins(p2, c)
      BY <2>3, <2>4, <2>6, <2>9, <2>11, <3>1, <3>2 DEF p2, q2
    <3>3. CASE ~Joins(p2, c)
      BY <2>1, <2>2, <2>4, <2>7, <2>8, <2>11, <3>1, <3>3 DEF p2, q2
    <3> QED
      BY <3>2, <3>3
  <2> QED
    BY <2>10, <2>11
<1>5. BridgingOK(c)'
  BY <1>1, <1>2 DEF BridgingOK, Aside
<1>6. UnlinkingOK(c)'
  BY <1>1, <1>3 DEF UnlinkingOK, Aside
<1>7. LinkedOK(c)'
  BY <1>1, <1>2 DEF LinkedOK, Aside
<1>8. /\ (BotQueued(c)' <=> BotQueued(c))
      /\ BotLeft(c) => BotLeft(c)'
      /\ BotOrder(c) => BotOrder(c)'
  BY BotQueueAside DEF Aside
<1>9. BotPending(c)' => BotPending(c)
  BY <1>1, <1>8 DEF BotPending
<1>10. UnbridgedOK(c)'
  <2> SUFFICES ASSUME c \notin bridged'
               PROVE  /\ (c \in botIn \/ BotPending(c) => Ended(c))'
                      /\ (ghostsIn[c] = {} \/ On("drain", c))'
                      /\ \A h \in Handlers : tasks'[h].channel = c =>
                             Place(tasks'[h]) \in {"bridge", "drain"} \cup OfMatrix
    BY DEF UnbridgedOK, Place
  <2>1. c \notin bridged /\ (c \in botIn' <=> c \in botIn) /\ ghostsIn'[c] \subseteq ghostsIn[c]
    BY DEF Aside
  <2>2. /\ c \in botIn \/ BotPending(c) => Ended(c)
        /\ ghostsIn[c] = {} \/ On("drain", c)
        /\ \A h \in Handlers : tasks[h].channel = c =>
               Place(tasks[h]) \in {"bridge", "drain"} \cup OfMatrix
    BY <2>1 DEF UnbridgedOK
  <2>3. (c \in botIn \/ BotPending(c) => Ended(c))'
    BY <1>3, <1>9, <2>1, <2>2
  <2>4. (ghostsIn[c] = {} \/ On("drain", c))'
    BY <1>1, <2>1, <2>2
  <2>5. ASSUME NEW h \in Handlers, tasks'[h].channel = c
        PROVE  Place(tasks'[h]) \in {"bridge", "drain"} \cup OfMatrix
    <3>1. c \notin toSync.rooms
      BY <2>1 DEF RoomsOK
    <3> QED
      BY <2>1, <2>2, <2>5, <3>1
         DEF Aside, TasksAside, Joins, Like, Syncs, Chores, OfChannel, OfMatrix
  <2> QED
    BY <2>3, <2>4, <2>5
<1>11. BotOnce(c) => BotOnce(c)'
  <2> SUFFICES ASSUME BotOnce(c), NEW g \in Handlers, NEW h \in Handlers,
                      Place(tasks'[g]) = "botJoin", tasks'[g].channel = c,
                      Place(tasks'[h]) = "botJoin", tasks'[h].channel = c
               PROVE  g = h
    BY DEF BotOnce, Place
  <2> QED
    BY DEF BotOnce, Aside, TasksAside, Joins, Like, Syncs, Chores, OfChannel, OfMatrix
<1>12. BotOK(c)'
  BY <1>1, <1>8, <1>9, <1>11 DEF BotOK, Aside
<1>13. RoomsOK(c)'
  <2> SUFFICES ASSUME c \in toSync'.rooms, NEW h \in Handlers, tasks'[h].channel = c
               PROVE  Place(tasks'[h]) \in Syncs \cup OfMatrix /\ c \in bridged'
    BY DEF RoomsOK, Place, Aside
  <2>1. c \in toSync.rooms /\ c \in bridged'
    BY DEF Aside, RoomsOK
  <2>2. tasks[h].channel = c => Place(tasks[h]) \in Syncs \cup OfMatrix
    BY <2>1 DEF RoomsOK
  <2>3. (tasks[h].channel = c /\ Like(Place(tasks'[h]), Place(tasks[h])))
            \/ Joins(Place(tasks'[h]), c)
    BY DEF Aside, TasksAside
  <2> QED
    BY <2>1, <2>2, <2>3 DEF Joins, Like, Syncs, Chores, OfChannel, OfMatrix
<1>14. StoredOK(c)'
  BY <1>1 DEF StoredOK, Aside
<1> QED
  BY <1>4, <1>5, <1>6, <1>7, <1>10, <1>12, <1>13, <1>14

LEMMA BotQueueSame == ASSUME matrixQueue' = matrixQueue, NEW c PROVE BotQueueKept(c)
<1>1. /\ \A i \in 1..Len(matrixQueue') :
            i + 0 \in 1..Len(matrixQueue) /\ matrixQueue'[i] = matrixQueue[i + 0]
      /\ \A i \in 1..Len(matrixQueue) :
            i - 0 \in 1..Len(matrixQueue') /\ matrixQueue'[i - 0] = matrixQueue[i]
  OBVIOUS
<1> QED
  BY <1>1 DEF BotQueueKept

LEMMA BotQueueTail ==
  ASSUME TypeInv, matrixQueue # <<>>, matrixQueue' = Tail(matrixQueue), NEW c, ~BotEvent(1, c)
  PROVE  BotQueueKept(c)
<1>1. /\ matrixQueue \in Seq(MatrixEvents) /\ matrixQueue' \in Seq(MatrixEvents)
      /\ Len(matrixQueue) \in Nat \ {0} /\ Len(matrixQueue') = Len(matrixQueue) - 1
      /\ \A i \in 1..Len(matrixQueue) - 1 : matrixQueue'[i] = matrixQueue[i + 1]
  BY TailFacts DEF TypeInv, MatrixQueueOK
<1>2. \A i \in 1..Len(matrixQueue') :
         i + 1 \in 1..Len(matrixQueue) /\ matrixQueue'[i] = matrixQueue[i + 1]
  BY <1>1
<1>3. ASSUME NEW i \in 1..Len(matrixQueue), BotEvent(i, c)
      PROVE  i - 1 \in 1..Len(matrixQueue') /\ matrixQueue'[i - 1] = matrixQueue[i]
  <2>1. i # 1
    BY <1>3
  <2>2. i - 1 \in 1..Len(matrixQueue) - 1 /\ (i - 1) + 1 = i
    BY <1>1, <2>1
  <2> QED
    BY <1>1, <2>2
<1> QED
  BY <1>2, <1>3 DEF BotQueueKept

LEMMA TellFacts ==
  ASSUME TypeInv, NEW type, NEW u, NEW d, Tell(type, u, d)
  PROVE  /\ Len(matrixQueue) \in Nat /\ Len(matrixQueue') = Len(matrixQueue) + 1
         /\ \A i \in 1..Len(matrixQueue) : matrixQueue'[i] = matrixQueue[i]
         /\ matrixQueue'[Len(matrixQueue) + 1].type = type
         /\ matrixQueue'[Len(matrixQueue) + 1].channel = d
<1>1. matrixQueue \in Seq(MatrixEvents)
  BY DEF TypeInv, MatrixQueueOK
<1> DEFINE e == [type |-> type, user |-> u, channel |-> d]
<1>2. matrixQueue' = Append(matrixQueue, e) /\ e.type = type /\ e.channel = d
  BY DEF Tell
<1> HIDE DEF e
<1>3. /\ Len(matrixQueue) \in Nat /\ Len(matrixQueue') = Len(matrixQueue) + 1
      /\ \A i \in 1..Len(matrixQueue) : matrixQueue'[i] = matrixQueue[i]
      /\ matrixQueue'[Len(matrixQueue) + 1] = e
  BY <1>1, <1>2
<1> QED
  BY <1>2, <1>3

LEMMA BotQueueTold ==
  ASSUME TypeInv, NEW type, NEW u, NEW d, Tell(type, u, d), NEW c, type \notin BotEvents \/ d # c
  PROVE  BotQueueKept(c)
<1>1. /\ Len(matrixQueue) \in Nat /\ Len(matrixQueue') = Len(matrixQueue) + 1
      /\ \A i \in 1..Len(matrixQueue) : matrixQueue'[i] = matrixQueue[i]
      /\ matrixQueue'[Len(matrixQueue) + 1].type = type
      /\ matrixQueue'[Len(matrixQueue) + 1].channel = d
  BY TellFacts
<1>2. ASSUME NEW i \in 1..Len(matrixQueue'), BotEvent(i, c)'
      PROVE  i + 0 \in 1..Len(matrixQueue) /\ matrixQueue'[i] = matrixQueue[i + 0]
  <2>1. i # Len(matrixQueue) + 1
    BY <1>1, <1>2 DEF BotEvent
  <2> QED
    BY <1>1, <2>1
<1>3. \A i \in 1..Len(matrixQueue) :
         i - 0 \in 1..Len(matrixQueue') /\ matrixQueue'[i - 0] = matrixQueue[i]
  BY <1>1
<1> QED
  BY <1>2, <1>3 DEF BotQueueKept

LEMMA SendsSame ==
  ASSUME slackQueue' = slackQueue, NEW c, NEW type
  PROVE  (Sends(type, c)' <=> Sends(type, c))
  BY DEF Sends

\* What was sent is in the queue, if it is something that the bridge listens to.
LEMMA SentSends ==
  ASSUME TypeInv, NEW type \in {"joined", "left", "user", "created", "deleted", "message"},
         NEW u, NEW d, NEW n, NEW f, Sent(Event(type, u, d, n, f)),
         NEW what \in {"created", "deleted"}, NEW c
  PROVE  (Sends(what, c)' <=> (Sends(what, c) \/ (what = type /\ d = c)))
<1> DEFINE e == Event(type, u, d, n, f)
<1>1. e.type = type /\ e.channel = d
  BY DEF Event
<1>2. Sent(e) /\ slackQueue \in Seq(SlackEvents)
  BY DEF TypeInv, SlackQueueOK
<1> HIDE DEF e
<1>3. CASE slackQueue' = Append(slackQueue, e)
  <2>1. /\ Len(slackQueue) \in Nat /\ Len(slackQueue') = Len(slackQueue) + 1
        /\ \A i \in 1..Len(slackQueue) : slackQueue'[i] = slackQueue[i]
        /\ slackQueue'[Len(slackQueue) + 1] = e
    BY <1>2, <1>3
  <2>2. ASSUME NEW i \in 1..Len(slackQueue'), slackQueue'[i].type = what,
               slackQueue'[i].channel = c
        PROVE  Sends(what, c) \/ (what = type /\ d = c)
    <3>1. i \in 1..Len(slackQueue) \/ i = Len(slackQueue) + 1
      BY <2>1
    <3> QED
      BY <1>1, <2>1, <2>2, <3>1 DEF Sends
  <2>3. ASSUME NEW i \in 1..Len(slackQueue), slackQueue[i].type = what,
               slackQueue[i].channel = c
        PROVE  i \in 1..Len(slackQueue') /\ slackQueue'[i] = slackQueue[i]
    BY <2>1
  <2>4. Len(slackQueue) + 1 \in 1..Len(slackQueue')
    BY <2>1
  <2> QED
    BY <1>1, <2>1, <2>2, <2>3, <2>4 DEF Sends
<1>4. CASE slackQueue' = slackQueue /\ type \notin SupportedEvents
  BY <1>4 DEF Sends, SupportedEvents
<1> QED
  BY <1>1, <1>2, <1>3, <1>4 DEF Sent

LEMMA SentDeletedLast ==
  ASSUME TypeInv, DeletedLast,
         NEW type \in {"joined", "left", "user", "created", "deleted", "message"},
         NEW u, NEW d, NEW n, NEW f, Sent(Event(type, u, d, n, f)),
         type \in {"created", "deleted"} => d \notin closed
  PROVE  DeletedLast'
<1> DEFINE e == Event(type, u, d, n, f)
<1>1. e.type = type /\ e.channel = d
  BY DEF Event
<1>2. /\ Sent(e) /\ slackQueue \in Seq(SlackEvents)
      /\ \A i \in 1..Len(slackQueue) :
            slackQueue[i].type = "deleted" => slackQueue[i].channel \in closed
  BY DEF TypeInv, SlackQueueOK
<1> HIDE DEF e
<1>3. CASE slackQueue' = Append(slackQueue, e)
  <2>1. /\ Len(slackQueue) \in Nat /\ Len(slackQueue') = Len(slackQueue) + 1
        /\ \A i \in 1..Len(slackQueue) : slackQueue'[i] = slackQueue[i]
        /\ slackQueue'[Len(slackQueue) + 1] = e
    BY <1>2, <1>3
  <2>2. ASSUME NEW i \in 1..Len(slackQueue'), NEW j \in 1..Len(slackQueue'), i < j,
               slackQueue'[i].type = "deleted", slackQueue'[j].type \in {"created", "deleted"}
        PROVE  slackQueue'[i].channel # slackQueue'[j].channel
    <3>1. i \in 1..Len(slackQueue)
      BY <2>1, <2>2
    <3>2. CASE j \in 1..Len(slackQueue)
      BY <2>1, <2>2, <3>1, <3>2 DEF DeletedLast
    <3>3. CASE j = Len(slackQueue) + 1
      BY <1>1, <1>2, <2>1, <2>2, <3>1, <3>3
    <3> QED
      BY <2>1, <3>2, <3>3
  <2> QED
    BY <2>2 DEF DeletedLast
<1>4. CASE slackQueue' = slackQueue
  BY <1>4 DEF DeletedLast
<1> QED
  BY <1>2, <1>3, <1>4 DEF Sent

LEMMA TailSends ==
  ASSUME TypeInv, slackQueue # <<>>, slackQueue' = Tail(slackQueue), NEW type, NEW c
  PROVE  /\ Sends(type, c)' => Sends(type, c)
         /\ Sends(type, c) => Sends(type, c)' \/ (/\ Head(slackQueue).type = type
                                                  /\ Head(slackQueue).channel = c)
<1>1. slackQueue \in Seq(SlackEvents)
  BY DEF TypeInv, SlackQueueOK
<1>2. /\ Len(slackQueue') = Len(slackQueue) - 1 /\ Len(slackQueue) \in Nat \ {0}
      /\ \A i \in 1..Len(slackQueue) - 1 : slackQueue'[i] = slackQueue[i + 1]
      /\ Head(slackQueue) = slackQueue[1]
  BY <1>1, TailFacts
<1>3. Sends(type, c)' => Sends(type, c)
  BY <1>2 DEF Sends
<1>4. ASSUME NEW i \in 1..Len(slackQueue), slackQueue[i].type = type, slackQueue[i].channel = c,
             i # 1
      PROVE  Sends(type, c)'
  <2>1. i - 1 \in 1..Len(slackQueue) - 1 /\ (i - 1) + 1 = i
    BY <1>2, <1>4
  <2>2. slackQueue'[i - 1] = slackQueue[i] /\ i - 1 \in 1..Len(slackQueue')
    BY <1>2, <2>1
  <2> QED
    BY <1>4, <2>2 DEF Sends
<1> QED
  BY <1>2, <1>3, <1>4 DEF Sends

LEMMA TailDeletedLast ==
  ASSUME TypeInv, DeletedLast, slackQueue # <<>>, slackQueue' = Tail(slackQueue)
  PROVE  /\ DeletedLast'
         /\ \A c : Head(slackQueue).type = "deleted" /\ Head(slackQueue).channel = c =>
                   ~Sends("created", c)' /\ ~Sends("deleted", c)'
<1>1. slackQueue \in Seq(SlackEvents)
  BY DEF TypeInv, SlackQueueOK
<1>2. /\ Len(slackQueue') = Len(slackQueue) - 1 /\ Len(slackQueue) \in Nat \ {0}
      /\ \A i \in 1..Len(slackQueue) - 1 : slackQueue'[i] = slackQueue[i + 1]
      /\ Head(slackQueue) = slackQueue[1]
  BY <1>1, TailFacts
<1>3. DeletedLast'
  <2> SUFFICES ASSUME NEW i \in 1..Len(slackQueue'), NEW j \in 1..Len(slackQueue'), i < j,
               slackQueue'[i].type = "deleted", slackQueue'[j].type \in {"created", "deleted"}
               PROVE  slackQueue'[i].channel # slackQueue'[j].channel
    BY DEF DeletedLast
  <2>1. /\ i + 1 \in 1..Len(slackQueue) /\ j + 1 \in 1..Len(slackQueue) /\ i + 1 < j + 1
        /\ slackQueue'[i] = slackQueue[i + 1] /\ slackQueue'[j] = slackQueue[j + 1]
    BY <1>2
  <2> QED
    BY <2>1 DEF DeletedLast
<1>4. ASSUME Head(slackQueue).type = "deleted", NEW type \in {"created", "deleted"},
             NEW i \in 1..Len(slackQueue'), slackQueue'[i].type = type
      PROVE  slackQueue'[i].channel # Head(slackQueue).channel
  <2>1. /\ i + 1 \in 1..Len(slackQueue) /\ 1 \in 1..Len(slackQueue) /\ 1 < i + 1
        /\ slackQueue'[i] = slackQueue[i + 1]
    BY <1>2
  <2> QED
    BY <1>2, <1>4, <2>1 DEF DeletedLast
<1>5. ASSUME NEW c, Head(slackQueue).type = "deleted", Head(slackQueue).channel = c,
             NEW type \in {"created", "deleted"}
      PROVE  ~Sends(type, c)'
  BY <1>4, <1>5 DEF Sends
<1> QED
  BY <1>3, <1>5

\* A handler's turn, to the channels it is not about, or is in the room of only.
LEMMA TurnAsideFrom ==
  ASSUME TypeInv, NEW h \in Handlers, Turn(h), NEW c \in Channels,
         LET s == tasks[h]
             t == tasks'[h]
         IN /\ t.channel = c =>
                   (s.channel = c /\ Like(Place(t), Place(s))) \/ Joins(Place(t), c)
            /\ s.channel = c /\ Place(s) \in {"unlink", "drain"} =>
                   t.channel = c /\ Place(t) = Place(s)
  PROVE  TasksAside(c)
<1>1. ASSUME NEW g \in Handlers \ {h}
      PROVE  tasks'[g] = tasks[g]
  BY DEF Turn
<1> QED
  BY <1>1 DEF TasksAside, Like, Place

LEMMA TasksAsideSame == ASSUME tasks' = tasks, NEW c PROVE TasksAside(c)
  BY DEF TasksAside, Like, Place

\* Only a channel that there is, or was, has a handler about it as a whole.
LEMMA OnKnown ==
  ASSUME TypeInv, NEW c \in Channels, NEW pc \in OfChannel, On(pc, c)
  PROVE  c \in Channel
<1>1. PICK h \in Handlers : Place(tasks[h]) = pc /\ tasks[h].channel = c
  BY DEF On
<1>2. TaskOK(tasks[h], Channel)
  BY TaskFacts
<1> QED
  BY <1>1, <1>2, PlaceFacts DEF TaskOK, Stage, OfChannel, Place

LEMMA TasksSame ==
  ASSUME tasks' = tasks, NEW c
  PROVE  /\ \A pc : (On(pc, c)' <=> On(pc, c))
         /\ (AloneOK(c)' <=> AloneOK(c)) /\ (BotOnce(c)' <=> BotOnce(c))
  BY DEF On, AloneOK, BotOnce, Place

LEMMA BotQueueSameDoes ==
  ASSUME matrixQueue' = matrixQueue, NEW c
  PROVE  /\ (BotQueued(c)' <=> BotQueued(c)) /\ (BotLeft(c)' <=> BotLeft(c))
         /\ (BotOrder(c)' <=> BotOrder(c))
  BY DEF BotQueued, BotLeft, BotOrder, BotEvent

LEMMA MemberEvents ==
  ASSUME TypeInv,
         \/ SlackUserJoins \/ SlackUserLeaves \/ SlackUserRenamed \/ SlackUserDeleted
         \/ SlackUserRestored \/ SlackMessage
  PROVE  /\ \E type \in {"joined", "left", "user", "message"} :
               \E u, d, n, f : Sent(Event(type, u, d, n, f))
         /\ UNCHANGED <<world, open, closed, matrixQueue, botIn, bridged, stored, active, toSync,
                        ghostsIn, tasks, crossed>>
  BY DEF SlackUserJoins, SlackUserLeaves, SlackUserRenamed, SlackUserDeleted, SlackUserRestored,
         SlackMessage, matrix, bridge, slack

LEMMA MemberEventsAside ==
  ASSUME TypeInv, DeletedLast,
         \/ SlackUserJoins \/ SlackUserLeaves \/ SlackUserRenamed \/ SlackUserDeleted
         \/ SlackUserRestored \/ SlackMessage
  PROVE  DeletedLast' /\ \A c \in Channels : Aside(c)
<1>1. PICK type \in {"joined", "left", "user", "message"} :
          \E u, d, n, f : Sent(Event(type, u, d, n, f))
  BY MemberEvents
<1>2. PICK u, d, n, f : Sent(Event(type, u, d, n, f))
  BY <1>1
<1>3. DeletedLast'
  BY <1>2, SentDeletedLast
<1>4. ASSUME NEW c \in Channels
      PROVE  /\ Sends("created", c)' <=> Sends("created", c)
             /\ Sends("deleted", c)' <=> Sends("deleted", c)
  <2>1. ASSUME NEW what \in {"created", "deleted"} PROVE (Sends(what, c)' <=> Sends(what, c))
    BY <1>2, SentSends
  <2> QED
    BY <2>1
<1>5. UNCHANGED <<world, open, closed, matrixQueue, botIn, bridged, stored, active, toSync,
                  ghostsIn, tasks, crossed>>
  BY MemberEvents
<1>6. ASSUME NEW c \in Channels PROVE Aside(c)
  BY <1>4, <1>5, TasksAsideSame, BotQueueSame DEF Aside
<1> QED
  BY <1>3, <1>6

LEMMA MatrixUserMovesAside ==
  ASSUME TypeInv, DeletedLast, MatrixUserMoves
  PROVE  DeletedLast' /\ \A c \in Channels : Aside(c)
<1>1. PICK type \in {"join", "leave"}, m \in MatrixUsers, d \in Channels : Tell(type, m, d)
  BY DEF MatrixUserMoves
<1>2. UNCHANGED <<world, open, closed, slackQueue, botIn, bridged, stored, active, toSync,
                  ghostsIn, tasks, crossed>>
  BY DEF MatrixUserMoves, slack, bridge
<1>3. DeletedLast'
  BY <1>2 DEF DeletedLast
<1>4. ASSUME NEW c \in Channels PROVE Aside(c)
  <2>1. BotQueueKept(c)
    BY <1>1, BotQueueTold DEF BotEvents
  <2>2. \A type2 : (Sends(type2, c)' <=> Sends(type2, c))
    BY <1>2, SendsSame
  <2> QED
    BY <1>2, <2>1, <2>2, TasksAsideSame DEF Aside
<1> QED
  BY <1>3, <1>4

LEMMA ChannelCreatedKeeps ==
  ASSUME TypeInv, DeletedLast, ChannelCreated
  PROVE  DeletedLast' /\ \A c \in Channels : ChannelOK(c) => ChannelOK(c)'
<1>1. PICK d \in world.channels \ (open \cup closed) :
          open' = open \cup {d} /\ Sent(Event("created", None, d, None, FALSE))
  BY DEF ChannelCreated
<1>2. UNCHANGED <<world, closed, matrixQueue, botIn, bridged, stored, active, toSync, ghostsIn,
                  tasks, crossed>>
  BY DEF ChannelCreated, matrix, bridge
<1>3. DeletedLast'
  BY <1>1, SentDeletedLast
<1>4. ASSUME NEW c \in Channels
      PROVE  /\ (Sends("created", c)' <=> (Sends("created", c) \/ d = c))
             /\ (Sends("deleted", c)' <=> Sends("deleted", c))
  <2>1. ASSUME NEW what \in {"created", "deleted"}
        PROVE  (Sends(what, c)' <=> (Sends(what, c) \/ (what = "created" /\ d = c)))
    BY <1>1, SentSends
  <2> QED
    BY <2>1
<1>5. ASSUME NEW c \in Channels, c # d PROVE Aside(c)
  BY <1>1, <1>2, <1>4, <1>5, TasksAsideSame, BotQueueSame DEF Aside
<1>6. ASSUME d \in Channels, ChannelOK(d) PROVE ChannelOK(d)'
  <2> USE DEF ChannelOK
  <2>1. d \notin Channel /\ d \notin bridged /\ d \notin toSync.channels /\ d \notin closed
        /\ d \notin toSync.rooms
    BY <1>1 DEF Channel, TypeInv, BridgedOK, ToSyncOK
  <2>2. \A pc \in OfChannel : ~On(pc, d)
    BY <1>6, <2>1, OnKnown
  <2>3. \A pc \in {"bridge", "unlink", "drain"} : ~On(pc, d) /\ ~On(pc, d)'
    BY <1>2, <2>2, TasksSame DEF OfChannel
  <2>4. d \notin botIn /\ ~BotPending(d) /\ ghostsIn[d] = {}
    BY <1>6, <2>1, <2>3 DEF UnbridgedOK, Ended
  <2>5. ~BotPending(d)' /\ AloneOK(d)'
    BY <1>2, <1>6, <2>4, TasksSame, BotQueueSameDoes DEF BotPending
  <2>6. UnbridgedOK(d)'
    BY <1>2, <1>6, <2>1, <2>4, <2>5 DEF UnbridgedOK, Place
  <2>7. BridgingOK(d)' /\ UnlinkingOK(d)'
    BY <1>2, <2>1, <2>3 DEF BridgingOK, UnlinkingOK
  <2>8. LinkedOK(d)' /\ BotOK(d)'
    BY <1>2, <2>1 DEF LinkedOK, BotOK
  <2>9. RoomsOK(d)' /\ StoredOK(d)'
    BY <1>2, <1>6, <2>1, <2>3 DEF RoomsOK, StoredOK
  <2> QED
    BY <2>5, <2>6, <2>7, <2>8, <2>9
<1> QED
  BY <1>3, <1>5, <1>6, AsideKeeps

LEMMA ChannelDeletedKeeps ==
  ASSUME TypeInv, DeletedLast, ChannelDeleted
  PROVE  DeletedLast' /\ \A c \in Channels : ChannelOK(c) => ChannelOK(c)'
<1>1. PICK d \in open :
          /\ open' = open \ {d} /\ closed' = closed \cup {d}
          /\ Sent(Event("deleted", None, d, None, FALSE))
  BY DEF ChannelDeleted
<1>2. UNCHANGED <<world, matrixQueue, botIn, bridged, stored, active, toSync, ghostsIn, tasks,
                  crossed>>
  BY DEF ChannelDeleted, matrix, bridge
<1>3. d \notin closed
  BY <1>1 DEF TypeInv, SlackOK
<1>4. DeletedLast'
  BY <1>1, <1>3, SentDeletedLast
<1>5. ASSUME NEW c \in Channels
      PROVE  /\ (Sends("created", c)' <=> Sends("created", c))
             /\ (Sends("deleted", c)' <=> (Sends("deleted", c) \/ d = c))
  <2>1. ASSUME NEW what \in {"created", "deleted"}
        PROVE  (Sends(what, c)' <=> (Sends(what, c) \/ (what = "deleted" /\ d = c)))
    BY <1>1, SentSends
  <2> QED
    BY <2>1
<1>6. ASSUME NEW c \in Channels, c # d PROVE Aside(c)
  BY <1>1, <1>2, <1>5, <1>6, TasksAsideSame, BotQueueSame DEF Aside
<1>7. ASSUME d \in Channels, ChannelOK(d) PROVE ChannelOK(d)'
  <2> USE DEF ChannelOK
  <2>1. /\ \A pc : (On(pc, d)' <=> On(pc, d))
        /\ AloneOK(d)' /\ (BotOnce(d)' <=> BotOnce(d))
        /\ (BotQueued(d)' <=> BotQueued(d)) /\ (BotLeft(d)' <=> BotLeft(d))
        /\ (BotOrder(d)' <=> BotOrder(d))
    BY <1>2, <1>7, TasksSame, BotQueueSameDoes
  <2>2. ~Ended(d) /\ ~On("unlink", d) /\ ~On("drain", d) /\ Sends("deleted", d)'
    BY <1>3, <1>5, <1>7 DEF Ended, UnlinkingOK
  <2>3. (Allowed(d)' <=> Allowed(d))
    BY <1>2, AllowedKept
  <2>4. BridgingOK(d)' /\ UnlinkingOK(d)' /\ LinkedOK(d)'
    BY <1>2, <1>7, <2>1, <2>2, <2>3 DEF BridgingOK, UnlinkingOK, LinkedOK
  <2>5. (BotPending(d)' <=> BotPending(d))
    BY <2>1 DEF BotPending
  <2>6. UnbridgedOK(d)'
    BY <1>2, <1>7, <2>1, <2>2, <2>5 DEF UnbridgedOK, Place
  <2>7. BotOK(d)'
    BY <1>2, <1>7, <2>1, <2>5 DEF BotOK
  <2>8. RoomsOK(d)' /\ StoredOK(d)'
    BY <1>2, <1>7, <2>1 DEF RoomsOK, StoredOK, Place
  <2> QED
    BY <2>1, <2>4, <2>6, <2>7, <2>8
<1> QED
  BY <1>4, <1>6, <1>7, AsideKeeps

LEMMA BotMovedKeeps ==
  ASSUME TypeInv, DeletedLast, BotMoved
  PROVE  DeletedLast' /\ \A c \in Channels : ChannelOK(c) => ChannelOK(c)'
<1>1. PICK d \in bridged :
          \/ d \in botIn /\ botIn' = botIn \ {d} /\ Tell("botLeave", None, d)
          \/ d \in botIn /\ botIn' = botIn \ {d} /\ Tell("botBan", None, d)
          \/ d \notin botIn /\ ~Inviting(d) /\ Tell("botInvite", None, d) /\ UNCHANGED botIn
  BY DEF BotMoved
<1>2. UNCHANGED <<world, open, closed, slackQueue, bridged, stored, active, toSync, ghostsIn,
                  tasks, crossed>>
  BY DEF BotMoved, slack, bridge
<1>3. DeletedLast'
  BY <1>2 DEF DeletedLast
<1>4. \A c, type : (Sends(type, c)' <=> Sends(type, c))
  BY <1>2, SendsSame
<1>5. ASSUME NEW c \in Channels, c # d PROVE Aside(c)
  <2>1. BotQueueKept(c)
    BY <1>1, <1>5, BotQueueTold
  <2> QED
    BY <1>1, <1>2, <1>4, <1>5, <2>1, TasksAsideSame DEF Aside
<1>6. ASSUME d \in Channels, ChannelOK(d) PROVE ChannelOK(d)'
  <2> USE DEF ChannelOK
  <2>1. /\ \A pc : (On(pc, d)' <=> On(pc, d))
        /\ AloneOK(d)' /\ (BotOnce(d)' <=> BotOnce(d))
    BY <1>2, <1>6, TasksSame
  <2>2. (Allowed(d)' <=> Allowed(d)) /\ (SyncAllowsDeletion(d)' <=> SyncAllowsDeletion(d))
    BY <1>2, AllowedKept
  <2>3. (Ended(d)' <=> Ended(d))
    BY <1>2, <1>4, <2>1 DEF Ended
  <2>4. BridgingOK(d)' /\ UnlinkingOK(d)' /\ LinkedOK(d)' /\ UnbridgedOK(d)'
    BY <1>1, <1>2, <1>4, <1>6, <2>1, <2>2, <2>3
       DEF BridgingOK, UnlinkingOK, LinkedOK, UnbridgedOK
  <2>10. RoomsOK(d)' /\ StoredOK(d)'
    BY <1>2, <1>6, <2>1 DEF RoomsOK, StoredOK, Place
  <2>5. PICK type \in BotEvents :
           /\ Tell(type, None, d)
           /\ \/ d \in botIn /\ botIn' = botIn \ {d} /\ type \in BotLeaves
              \/ d \notin botIn /\ ~Inviting(d) /\ botIn' = botIn
    BY <1>1 DEF BotEvents, BotLeaves
  <2>6. /\ Len(matrixQueue) \in Nat /\ Len(matrixQueue') = Len(matrixQueue) + 1
        /\ \A i \in 1..Len(matrixQueue) : matrixQueue'[i] = matrixQueue[i]
        /\ matrixQueue'[Len(matrixQueue) + 1].type = type
        /\ matrixQueue'[Len(matrixQueue) + 1].channel = d
    BY <2>5, TellFacts
  <2>7. BotOK(d)
    BY <1>6
  <2>8. ASSUME d \in botIn, botIn' = botIn \ {d}, type \in BotLeaves
        PROVE  BotOK(d)'
    <3>1. ~BotPending(d)
      BY <2>7, <2>8 DEF BotOK
    <3>2. ~On("botJoin", d)' /\ ~BotQueued(d)
      BY <2>1, <3>1 DEF BotPending
    <3>3. BotLeft(d)'
      <4>1. Len(matrixQueue) + 1 \in 1..Len(matrixQueue')
        BY <2>6
      <4> QED
        BY <2>5, <2>6, <2>8, <4>1 DEF BotLeft, BotEvent, BotLeaves
    <3>4. BotOrder(d)'
      <4> SUFFICES ASSUME NEW i \in 1..Len(matrixQueue'), NEW j \in 1..Len(matrixQueue'),
                          i < j, BotEvent(i, d)'
                   PROVE  FALSE
        BY DEF BotOrder
      <4>1. i \in 1..Len(matrixQueue)
        BY <2>6
      <4>2. BotEvent(i, d)
        BY <2>6, <4>1 DEF BotEvent
      <4> QED
        BY <3>2, <4>1, <4>2 DEF BotQueued
    <3> QED
      BY <2>1, <2>7, <2>8, <3>2, <3>3, <3>4, <1>2 DEF BotOK
  <2>9. ASSUME d \notin botIn, ~Inviting(d), botIn' = botIn
        PROVE  BotOK(d)'
    <3>1. /\ \A i \in 1..Len(matrixQueue) :
                ~(matrixQueue[i].type = "botInvite" /\ matrixQueue[i].channel = d)
          /\ ~On("botJoin", d)
      <4>1. DOMAIN matrixQueue = 1..Len(matrixQueue)
        BY DEF TypeInv, MatrixQueueOK
      <4> QED
        BY <2>9, <4>1, TaskFacts, PlaceFacts DEF Inviting, At, On, OfMatrix
    <3>2. BotLeft(d) => BotLeft(d)'
      <4>1. \A i \in 1..Len(matrixQueue) : i \in 1..Len(matrixQueue')
        BY <2>6
      <4> QED
        BY <2>6, <4>1 DEF BotLeft, BotEvent, BotLeaves
    <3>3. BotOrder(d)'
      <4> SUFFICES ASSUME NEW i \in 1..Len(matrixQueue'), NEW j \in 1..Len(matrixQueue'),
                          i < j, BotEvent(i, d)'
                   PROVE  matrixQueue'[i].type # "botInvite"
        BY DEF BotOrder
      <4>1. i \in 1..Len(matrixQueue)
        BY <2>6
      <4> QED
        BY <2>6, <3>1, <4>1 DEF BotEvent
    <3> QED
      BY <1>2, <2>1, <2>7, <2>9, <3>1, <3>2, <3>3 DEF BotOK
  <2> QED
    BY <2>1, <2>4, <2>5, <2>8, <2>9, <2>10
<1> QED
  BY <1>3, <1>5, <1>6, AsideKeeps

\* A channel that a restart has nothing to remember about had no handler and has lost no event.
LEMMA RestartDoes ==
  ASSUME TypeInv, Restart, NEW c \in Channels, c \notin crossed', StoredOK(c)
  PROVE  /\ \A h \in Handlers : tasks[h].channel # c /\ tasks'[h] = Idle
         /\ \A type : Sends(type, c)' <=> Sends(type, c)
         /\ toSync'.channels = {} /\ toSync'.rooms = {}
         /\ (c \in bridged' <=> c \in bridged)
         /\ (c \in active' <=> c \in bridged /\ c \in botIn)
         /\ UNCHANGED <<world, open, closed, matrixQueue, ghostsIn, botIn, stored>>
         /\ slackQueue' \in {slackQueue, <<>>}
<1>1. c # None
  BY WorldFacts DEF TypeInv
<1>2. \A h \in Handlers : tasks[h].channel # c /\ tasks'[h] = Idle
  BY <1>1 DEF Restart
<1>5. c \in stored <=> c \in bridged
  BY <1>2 DEF StoredOK, On
<1>6. /\ toSync'.channels = {} /\ toSync'.rooms = {}
      /\ (c \in bridged' <=> c \in bridged)
      /\ (c \in active' <=> c \in bridged /\ c \in botIn)
      /\ UNCHANGED <<world, open, closed, matrixQueue, ghostsIn, botIn, stored>>
  BY <1>5 DEF Restart, slack, matrix
<1>3. CASE Happens("rtm")
  <2>1. slackQueue' = <<>> /\ \A i \in DOMAIN slackQueue : slackQueue[i].channel # c
    BY <1>1, <1>3 DEF Restart
  <2>2. DOMAIN slackQueue = 1..Len(slackQueue) /\ Len(slackQueue') = 0
    BY <2>1 DEF TypeInv, SlackQueueOK
  <2>3. \A type : Sends(type, c)' <=> Sends(type, c)
    BY <2>1, <2>2 DEF Sends
  <2> QED
    BY <1>2, <1>6, <2>1, <2>3
<1>4. CASE ~Happens("rtm")
  <2>1. slackQueue' = slackQueue
    BY <1>4 DEF Restart
  <2> QED
    BY <1>2, <1>6, <2>1, SendsSame
<1> QED
  BY <1>3, <1>4

LEMMA RestartKeeps ==
  ASSUME TypeInv, DeletedLast, Restart
  PROVE  DeletedLast' /\ \A c \in Channels : c \notin crossed' /\ ChannelOK(c) => ChannelOK(c)'
<1>1. DeletedLast'
  <2>1. slackQueue' \in {slackQueue, <<>>}
    BY DEF Restart
  <2> QED
    BY <2>1 DEF DeletedLast
<1>2. ASSUME NEW c \in Channels, c \notin crossed', ChannelOK(c) PROVE ChannelOK(c)'
  <2> USE DEF ChannelOK
  <2>1. /\ \A h \in Handlers : tasks[h].channel # c /\ tasks'[h] = Idle
        /\ \A type : Sends(type, c)' <=> Sends(type, c)
        /\ toSync'.channels = {} /\ toSync'.rooms = {}
        /\ (c \in bridged' <=> c \in bridged)
        /\ (c \in active' <=> c \in bridged /\ c \in botIn)
        /\ UNCHANGED <<world, open, closed, matrixQueue, ghostsIn, botIn, stored>>
    BY <1>2, RestartDoes
  <2>2. Idle.channel # c
    BY WorldFacts DEF TypeInv, Idle
  <2>3. \A pc : ~On(pc, c) /\ ~On(pc, c)'
    BY <2>1, <2>2 DEF On, Place
  <2>4. AloneOK(c)' /\ BotOnce(c)'
    BY <2>1, <2>2 DEF AloneOK, BotOnce, Place
  <2>5. Ended(c) => Ended(c)'
    BY <2>1, <2>3 DEF Ended
  <2>6. (Allowed(c)' <=> Allowed(c)) /\ (SyncAllowsDeletion(c)' <=> SyncAllowsDeletion(c))
    BY <2>1, AllowedKept
  <2>7. BridgingOK(c)' /\ UnlinkingOK(c)'
    BY <2>1, <2>3 DEF BridgingOK, UnlinkingOK
  <2>8. LinkedOK(c)'
    BY <1>2, <2>1, <2>3, <2>6 DEF LinkedOK
  <2>9. /\ BotQueued(c)' <=> BotQueued(c)
        /\ BotOrder(c)' <=> BotOrder(c)
    BY <2>1, BotQueueSameDoes
  <2>10. UnbridgedOK(c)'
    BY <1>2, <2>1, <2>2, <2>3, <2>5, <2>9 DEF UnbridgedOK, BotPending, Place
  <2>11. BotOK(c)'
    BY <1>2, <2>1, <2>3, <2>4, <2>9 DEF BotOK, BotPending
  <2>12. RoomsOK(c)' /\ StoredOK(c)'
    BY <1>2, <2>1, <2>3 DEF RoomsOK, StoredOK
  <2> QED
    BY <2>4, <2>7, <2>8, <2>10, <2>11, <2>12
<1> QED
  BY <1>1, <1>2

LEMMA ListChannelsKeeps ==
  ASSUME TypeInv, DeletedLast, ListChannels
  PROVE  DeletedLast' /\ \A c \in Channels : ChannelOK(c) => ChannelOK(c)'
<1>1. /\ UNCHANGED <<world, open, closed, slackQueue, matrixQueue, ghostsIn, botIn, bridged, stored,
                     active, tasks>>
      /\ toSync'.channels \subseteq open /\ toSync'.rooms = toSync.rooms
  <2>1. toSync \in [users : SUBSET Listed, channels : SUBSET Channels, rooms : SUBSET Channels,
                    listing : BOOLEAN]
    BY DEF TypeInv, ToSyncOK
  <2> QED
    BY <2>1 DEF ListChannels, slack, queues, matrix
<1>2. DeletedLast'
  BY <1>1 DEF DeletedLast
<1>3. ASSUME NEW c \in Channels, ChannelOK(c) PROVE ChannelOK(c)'
  <2> USE DEF ChannelOK
  <2>1. /\ \A pc : On(pc, c)' <=> On(pc, c)
        /\ AloneOK(c)' <=> AloneOK(c)
        /\ BotOnce(c)' <=> BotOnce(c)
    BY <1>1, TasksSame
  <2>2. /\ BotQueued(c)' <=> BotQueued(c)
        /\ BotLeft(c)' <=> BotLeft(c)
        /\ BotOrder(c)' <=> BotOrder(c)
    BY <1>1, BotQueueSameDoes
  <2>3. \A type : Sends(type, c)' <=> Sends(type, c)
    BY <1>1, SendsSame
  <2>4. (Allowed(c)' <=> Allowed(c)) /\ (SyncAllowsDeletion(c)' <=> SyncAllowsDeletion(c))
    BY <1>1, AllowedKept
  <2>5. Ended(c) => Ended(c)'
    BY <1>1, <2>1, <2>3 DEF Ended, TypeInv, SlackOK
  <2>6. BridgingOK(c)' /\ UnlinkingOK(c)' /\ LinkedOK(c)'
    BY <1>1, <1>3, <2>1, <2>3, <2>4, <2>5 DEF BridgingOK, UnlinkingOK, LinkedOK
  <2>7. BotPending(c)' <=> BotPending(c)
    BY <2>1, <2>2 DEF BotPending
  <2>8. UnbridgedOK(c)'
    BY <1>1, <1>3, <2>1, <2>5, <2>7 DEF UnbridgedOK, Place
  <2>9. BotOK(c)'
    BY <1>1, <1>3, <2>1, <2>2, <2>7 DEF BotOK
  <2>10. RoomsOK(c)' /\ StoredOK(c)'
    BY <1>1, <1>3, <2>1 DEF RoomsOK, StoredOK, Place
  <2> QED
    BY <1>3, <2>1, <2>6, <2>8, <2>9, <2>10
<1> QED
  BY <1>2, <1>3

\* What nothing was said of: the handlers of a channel that a new one is about.
LEMMA NotCrossed ==
  ASSUME TypeInv, NEW h \in Handlers, NEW c \in Channels, NEW users, c \notin CrossedBy(h, users, c)
  PROVE  \A g \in Handlers \ {h} :
             tasks[g].channel = c => None \notin users /\ tasks[g].user # None
<1>1. c # None /\ Idle.channel = None
  BY WorldFacts DEF TypeInv, Idle
<1>2. \A g \in Handlers : At(g, "idle") => tasks[g] = Idle
  BY TaskFacts DEF TaskOK, At
<1> QED
  BY <1>1, <1>2 DEF CrossedBy

\* One handler goes on with a channel, and only it may be in one of these places.
LEMMA OnTurn ==
  ASSUME TypeInv, NEW h \in Handlers, Turn(h), NEW c, NEW pc
  PROVE  LET others == \E g \in Handlers \ {h} : Place(tasks[g]) = pc /\ tasks[g].channel = c IN
         /\ On(pc, c)' <=> (Place(tasks'[h]) = pc /\ tasks'[h].channel = c) \/ others
         /\ On(pc, c) <=> (Place(tasks[h]) = pc /\ tasks[h].channel = c) \/ others
  BY DEF On, Turn, Place

\* A handler that begins with a channel that no other one is about.
LEMMA BeginsAlone ==
  ASSUME TypeInv, NEW h \in Handlers, tasks[h] = Idle, Turn(h), NEW c \in Channels, ChannelOK(c),
         \A g \in Handlers \ {h} : tasks[g].channel # c,
         UNCHANGED <<world, open, closed, matrixQueue, ghostsIn, botIn, bridged, stored, active>>,
         c \notin toSync'.channels, c \in toSync'.rooms => c \in toSync.rooms,
         Sends("created", c)' => Sends("created", c),
         Sends("deleted", c)' => Sends("deleted", c),
         LET t == tasks'[h] IN
         \/ /\ t.channel # c
            /\ \/ Sends("deleted", c)' <=> Sends("deleted", c)
               \/ ~SyncAllowsDeletion(c) \/ c \notin bridged
         \/ /\ t.channel = c /\ Place(t) = "ensureBot" /\ c \in bridged
            /\ Sends("deleted", c)' <=> Sends("deleted", c)
         \/ /\ t.channel = c /\ Place(t) = "bridge" /\ c \notin bridged
            /\ Allowed(c) /\ ~Ended(c) /\ (c \in open \/ Sends("deleted", c)')
         \/ /\ t.channel = c /\ Place(t) = "unlink" /\ c \in bridged /\ c \in closed
            /\ c \notin toSync'.rooms
            /\ ~Sends("created", c)' /\ ~Sends("deleted", c)'
  PROVE  ChannelOK(c)'
<1> DEFINE t == tasks'[h]
<1> USE DEF ChannelOK
<1>0. Idle.channel # c
  BY WorldFacts DEF TypeInv, Idle
<1>1. \A pc : ~On(pc, c) /\ (On(pc, c)' <=> Place(t) = pc /\ t.channel = c)
  BY <1>0, OnTurn
<1>2. (Allowed(c)' <=> Allowed(c)) /\ (SyncAllowsDeletion(c)' <=> SyncAllowsDeletion(c))
  BY AllowedKept
<1>3. /\ BotQueued(c)' <=> BotQueued(c)
      /\ BotLeft(c)' <=> BotLeft(c)
      /\ BotOrder(c)' <=> BotOrder(c)
  BY BotQueueSameDoes
<1>4. \A g \in Handlers \ {h} : tasks'[g].channel # c
  BY DEF Turn
<1>5. AloneOK(c)' /\ BotOnce(c)'
  BY <1>4 DEF AloneOK, BotOnce, Place
<1> HIDE DEF t
<1>6. BridgingOK(c)'
  BY <1>1, <1>2 DEF BridgingOK, t
<1>7. UnlinkingOK(c)'
  BY <1>1 DEF UnlinkingOK, t, Ended
<1>8. LinkedOK(c)'
  BY <1>1, <1>2 DEF LinkedOK, t
<1>9. UnbridgedOK(c)'
  <2> SUFFICES ASSUME c \notin bridged
               PROVE  /\ (c \in botIn \/ BotPending(c) => Ended(c))'
                      /\ (ghostsIn[c] = {} \/ On("drain", c))'
                      /\ \A g \in Handlers : tasks'[g].channel = c =>
                             Place(tasks'[g]) \in {"bridge", "drain"} \cup OfMatrix
    BY DEF UnbridgedOK, Place
  <2>1. /\ c \in botIn \/ BotPending(c) => Ended(c)
        /\ ghostsIn[c] = {}
    BY <1>1 DEF UnbridgedOK
  <2>2. t.channel = c => Place(t) = "bridge" /\ ~Ended(c)
    BY DEF t
  <2>3. Ended(c) => Ended(c)'
    BY <1>1, <2>2 DEF Ended
  <2>4. BotPending(c)' => BotPending(c)
    BY <1>1, <1>3, <2>2 DEF BotPending
  <2>5. \A g \in Handlers : tasks'[g].channel = c => g = h
    BY <1>4
  <2> QED
    BY <2>1, <2>2, <2>3, <2>4, <2>5 DEF t
<1>10. BotOK(c)'
  <2>1. ~On("botJoin", c)'
    BY <1>1 DEF t
  <2> QED
    BY <1>1, <1>3, <1>5, <2>1 DEF BotOK, BotPending
<1>11. RoomsOK(c)'
  <2> SUFFICES ASSUME c \in toSync'.rooms, NEW g \in Handlers, tasks'[g].channel = c
               PROVE  Place(tasks'[g]) \in Syncs \cup OfMatrix
    BY DEF RoomsOK, Place
  <2>1. g = h /\ c \in bridged
    BY <1>4 DEF RoomsOK
  <2> QED
    BY <2>1 DEF t, Syncs
<1>12. StoredOK(c)'
  BY <1>1 DEF StoredOK, t
<1> QED
  BY <1>5, <1>6, <1>7, <1>8, <1>9, <1>10, <1>11, <1>12

LEMMA HandleSlackKeeps ==
  ASSUME TypeInv, DeletedLast, NEW h \in Handlers, HandleSlack(h)
  PROVE  DeletedLast' /\ \A c \in Channels : c \notin crossed' /\ ChannelOK(c) => ChannelOK(c)'
<1> DEFINE e == Head(slackQueue)
<1>1. /\ slackQueue # <<>> /\ slackQueue' = Tail(slackQueue) /\ tasks[h].pc = "idle"
      /\ Handles(h, e)
      /\ crossed' = crossed \cup CrossedBy(h, Users(e), e.channel) \cup Awaited(e)
      /\ UNCHANGED <<world, open, closed, matrixQueue, ghostsIn, botIn, bridged, stored, active,
                     toSync>>
  BY HandleSlackDoes DEF slack, matrix, bridge
<1>2. /\ e.type = "created" /\ e.channel \in open => Start(h, SyncChannel(e.channel))
      /\ e.type = "deleted" /\ SyncAllowsDeletion(e.channel) /\ e.channel \in bridged =>
             Start(h, UnlinkTask(e.channel))
  BY HandleSlackDoes
<1>3. /\ SlackEventOK(e, Channel) /\ e.name \in Names \cup {None} /\ e.flag \in BOOLEAN
      /\ e.user \in Folk \cup {None} /\ e.channel \in Channels \cup {None}
      /\ e.type = "deleted" => e.channel \in closed
  BY <1>1, HeadFacts
<1>4. /\ tasks[h] = Idle /\ Idle.channel = None /\ Turn(h)
      /\ tasks \in [Handlers -> Tasks]
  <2>1. tasks[h] = Idle /\ tasks \in [Handlers -> Tasks]
    BY <1>1, TaskFacts DEF TaskOK, TypeInv, TasksOK
  <2>2. Turn(h)
    BY BeginsDoes DEF Begins
  <2> QED
    BY <2>1, <2>2 DEF Idle
<1>5. /\ DeletedLast'
      /\ \A c : e.type = "deleted" /\ e.channel = c =>
                ~Sends("created", c)' /\ ~Sends("deleted", c)'
  BY <1>1, TailDeletedLast
<1>6. \A type, c : /\ Sends(type, c)' => Sends(type, c)
                   /\ Sends(type, c) => Sends(type, c)' \/ (e.type = type /\ e.channel = c)
  BY <1>1, TailSends
<1>7. \A c \in Channels : None # c
  BY WorldFacts DEF TypeInv
<1> HIDE DEF e
<1>8. ASSUME NEW c \in Channels, c \notin crossed', ChannelOK(c),
             e.type \in {"created", "deleted"}, e.channel = c
      PROVE  ChannelOK(c)'
  <2>1. None \in Users(e)
    BY <1>3, <1>8 DEF SlackEventOK, Users
  <2>2. \A g \in Handlers \ {h} : tasks[g].channel # c
    BY <1>1, <1>8, <2>1, NotCrossed
  <2>3. c \notin toSync.channels /\ c \notin toSync.rooms
    BY <1>1, <1>8 DEF Awaited
  <2>4. e.type = "created" => (Sends("deleted", c)' <=> Sends("deleted", c))
    BY <1>6
  <2>5. CASE e.type = "created" /\ c \in open
    <3>1. ~Ended(c)
      BY <2>5 DEF Ended, TypeInv, SlackOK
    <3>2. Start(h, SyncChannel(c)) /\ SyncChannel(c) \in Tasks /\ world \in Worlds
      BY <1>2, <1>8, <2>5, SyncChannelType DEF TypeInv
    <3>3. tasks'[h] = SyncChannel(c)
      BY <3>2, TurnDoes
    <3>4. \/ SyncChannel(c) = Idle
          \/ c \in bridged /\ ChannelTask(SyncChannel(c), c, "ensureBot")
          \/ Allowed(c) /\ c \notin bridged /\ SyncChannel(c) = BridgeTask(c)
      BY ChannelTaskFacts DEF Allowed
    <3>5. \/ tasks'[h].channel # c
          \/ c \in bridged /\ tasks'[h].channel = c /\ Place(tasks'[h]) = "ensureBot"
          \/ /\ Allowed(c) /\ c \notin bridged
             /\ tasks'[h].channel = c /\ Place(tasks'[h]) = "bridge"
      BY <1>4, <1>7, <3>2, <3>3, <3>4, BridgeTaskFacts, WorldFacts DEF ChannelTask, Place
    <3> QED
      BY <1>1, <1>4, <1>6, <1>8, <2>2, <2>3, <2>4, <2>5, <3>1, <3>5, BeginsAlone
  <2>6. CASE e.type = "deleted" /\ SyncAllowsDeletion(c) /\ c \in bridged
    <3>1. Start(h, UnlinkTask(c)) /\ ChannelTask(UnlinkTask(c), c, "unlink")
      BY <1>2, <1>8, <2>6, ChannelTaskFacts
    <3>2. tasks'[h].channel = c /\ Place(tasks'[h]) = "unlink"
      BY <3>1, TurnDoes DEF ChannelTask, Place
    <3>3. c \in closed /\ ~Sends("created", c)' /\ ~Sends("deleted", c)'
      BY <1>3, <1>5, <1>8, <2>6
    <3> QED
      BY <1>1, <1>4, <1>6, <1>8, <2>2, <2>3, <2>6, <3>2, <3>3, BeginsAlone
  <2>7. CASE /\ ~(e.type = "created" /\ c \in open)
             /\ ~(e.type = "deleted" /\ SyncAllowsDeletion(c) /\ c \in bridged)
    <3>1. tasks' = tasks
      BY <1>1, <1>8, <2>7 DEF Handles
    <3>2. tasks'[h].channel # c
      BY <1>4, <1>7, <3>1
    <3> QED
      BY <1>1, <1>4, <1>6, <1>8, <2>2, <2>3, <2>4, <2>7, <3>2, BeginsAlone
  <2> QED
    BY <1>8, <2>5, <2>6, <2>7
<1>9. ASSUME NEW c \in Channels, c \notin crossed', ChannelOK(c),
             e.type \notin {"created", "deleted"} \/ e.channel # c
      PROVE  ChannelOK(c)'
  <2>1. /\ Sends("created", c)' <=> Sends("created", c)
        /\ Sends("deleted", c)' <=> Sends("deleted", c)
    BY <1>6, <1>9
  <2>2. ASSUME tasks' = tasks PROVE TasksAside(c)
    BY <2>2, TasksAsideSame
  <2>3. ASSUME e.type \in {"joined", "left", "message"}, e.channel \in bridged, NEW way \in Ways,
               Start(h, RoomTask(e.user, e.channel, way))
        PROVE  TasksAside(c)
    <3>1. e.user \in Folk /\ e.channel \in Channels
      BY <1>3, <1>7, <2>3 DEF SlackEventOK, TypeInv, SlackOK, Channel
    <3>2. Place(tasks'[h]) = "get" /\ tasks'[h].channel = e.channel
      BY <2>3, <3>1, RoomTaskFacts, TurnDoes DEF Place, Ways
    <3>3. CASE e.channel = c
      <4>1. \A g \in Handlers \ {h} : tasks[g].channel = c => tasks[g].user # None
        BY <1>1, <1>9, <3>3, NotCrossed
      <4>2. ASSUME NEW g \in Handlers, tasks[g].channel = c
            PROVE  Place(tasks[g]) \notin OfChannel
        <5>1. tasks[g].user # None
          BY <1>4, <1>7, <4>1, <4>2
        <5>2. Place(tasks[g]) # "bridge"
          BY <1>9, <2>3, <3>3, <4>2 DEF ChannelOK, BridgingOK, On
        <5> QED
          BY <5>1, <5>2, TaskFacts, PlaceFacts DEF OfChannel
      <4>4. c \notin toSync.rooms
        BY <1>1, <1>9, <3>3 DEF Awaited
      <4>3. Joins("get", c)
        BY <2>3, <3>3, <4>2, <4>4 DEF Joins, OfChannel, OfMatrix
      <4> QED
        BY <1>4, <1>7, <3>2, <4>3, TurnAsideFrom
    <3>4. CASE e.channel # c
      BY <1>4, <1>7, <3>2, <3>4, TurnAsideFrom
    <3> QED
      BY <3>3, <3>4
  <2>4. ASSUME e.type = "user", Start(h, SyncUser(e.user, e.name, e.flag))
        PROVE  TasksAside(c)
    <3>1. e.user \in Folk /\ e.name \in Names
      BY <1>3, <2>4 DEF SlackEventOK
    <3>2. tasks'[h].channel = None
      BY <1>3, <2>4, <3>1, SyncUserFacts, TurnDoes
    <3> QED
      BY <1>4, <1>7, <3>2, TurnAsideFrom
  <2>5. ASSUME e.type = "created", Start(h, SyncChannel(e.channel))
        PROVE  TasksAside(c)
    <3>1. e.channel # c /\ e.channel \in Channels
      BY <1>3, <1>9, <2>5 DEF SlackEventOK, TypeInv, SlackOK, Channel
    <3>2. /\ SyncChannel(e.channel) = Idle \/ SyncChannel(e.channel).channel = e.channel
          /\ world \in Worlds
      BY <3>1, ChannelTaskFacts, BridgeTaskFacts, WorldFacts DEF ChannelTask, TypeInv
    <3>3. tasks'[h].channel # c
      BY <1>4, <1>7, <2>5, <3>1, <3>2, SyncChannelType, TurnDoes
    <3> QED
      BY <1>4, <1>7, <3>3, TurnAsideFrom
  <2>6. ASSUME e.type = "deleted", Start(h, UnlinkTask(e.channel))
        PROVE  TasksAside(c)
    <3>1. e.channel # c /\ e.channel \in Channels
      BY <1>3, <1>9, <2>6 DEF SlackEventOK, TypeInv, SlackOK, Channel
    <3>2. tasks'[h].channel = e.channel
      BY <2>6, <3>1, ChannelTaskFacts, TurnDoes DEF ChannelTask
    <3> QED
      BY <1>4, <1>7, <3>1, <3>2, TurnAsideFrom
  <2>7. TasksAside(c)
    BY <1>1, <2>2, <2>3, <2>4, <2>5, <2>6 DEF Handles
  <2>8. Aside(c)
    BY <1>1, <2>1, <2>7, BotQueueSame DEF Aside
  <2> QED
    BY <1>9, <2>8, AsideKeeps
<1> QED
  BY <1>5, <1>8, <1>9

LEMMA TailBotQueue ==
  ASSUME TypeInv, matrixQueue # <<>>, matrixQueue' = Tail(matrixQueue), NEW c
  PROVE  /\ BotQueued(c)' => BotQueued(c)
         /\ BotEvent(1, c) => BotQueued(c)
         /\ BotOrder(c) => BotOrder(c)'
         /\ BotOrder(c) /\ BotEvent(1, c) /\ matrixQueue[1].type = "botInvite" =>
                ~BotQueued(c)' /\ ~BotLeft(c)
<1>1. matrixQueue \in Seq(MatrixEvents)
  BY DEF TypeInv, MatrixQueueOK
<1>2. /\ Len(matrixQueue') = Len(matrixQueue) - 1 /\ Len(matrixQueue) \in Nat \ {0}
      /\ \A i \in 1..Len(matrixQueue) - 1 : matrixQueue'[i] = matrixQueue[i + 1]
  BY <1>1, TailFacts
<1>3. ASSUME NEW i \in 1..Len(matrixQueue')
      PROVE  /\ i + 1 \in 1..Len(matrixQueue) /\ 1 < i + 1
             /\ BotEvent(i, c)' => BotEvent(i + 1, c)
             /\ matrixQueue'[i] = matrixQueue[i + 1]
  BY <1>2 DEF BotEvent
<1>4. 1 \in 1..Len(matrixQueue)
  BY <1>2
<1>5. BotQueued(c)' => BotQueued(c)
  BY <1>3 DEF BotQueued
<1>6. BotEvent(1, c) => BotQueued(c)
  BY <1>4 DEF BotQueued
<1>7. ASSUME BotOrder(c) PROVE BotOrder(c)'
  <2> SUFFICES ASSUME NEW i \in 1..Len(matrixQueue'), NEW j \in 1..Len(matrixQueue'), i < j,
                      BotEvent(i, c)', BotEvent(j, c)'
               PROVE  matrixQueue'[i].type # "botInvite"
    BY DEF BotOrder
  <2>1. i + 1 < j + 1
    OBVIOUS
  <2> QED
    BY <1>3, <1>7, <2>1 DEF BotOrder
<1>8. ASSUME BotOrder(c), BotEvent(1, c), matrixQueue[1].type = "botInvite"
      PROVE  ~BotQueued(c)' /\ ~BotLeft(c)
  <2>1. \A j \in 1..Len(matrixQueue) : BotEvent(j, c) => j = 1
    BY <1>4, <1>8, <1>2 DEF BotOrder
  <2>2. ~BotQueued(c)'
    BY <1>3, <2>1 DEF BotQueued
  <2>3. ~BotLeft(c)
    BY <1>8, <2>1 DEF BotLeft, BotLeaves
  <2> QED
    BY <2>2, <2>3
<1> QED
  BY <1>5, <1>6, <1>7, <1>8

LEMMA HandleMatrixKeeps ==
  ASSUME TypeInv, DeletedLast, NEW h \in Handlers, HandleMatrix(h)
  PROVE  DeletedLast' /\ \A c \in Channels : c \notin crossed' /\ ChannelOK(c) => ChannelOK(c)'
<1> DEFINE e == Head(matrixQueue)
<1>1. /\ matrixQueue # <<>> /\ matrixQueue' = Tail(matrixQueue) /\ tasks[h].pc = "idle"
      /\ e = matrixQueue[1] /\ e.channel \in Channels
      /\ e.type \in {"join", "leave"} => e.user \in MatrixUsers
      /\ \/ e.type = "botInvite" /\ Start(h, BotTask(e.channel))
         \/ e.type = "join" /\ Start(h, PuppetTask(e.channel, e.user))
         \/ e.type # "botInvite" /\ tasks' = tasks
      /\ active' = IF e.type \in BotLeaves THEN active \ {e.channel} ELSE active
      /\ UNCHANGED <<world, open, closed, slackQueue, ghostsIn, botIn, bridged, stored, toSync>>
  BY HandleMatrixDoes DEF slack, matrix
<1>2. /\ tasks[h] = Idle /\ Idle.channel = None /\ Turn(h)
  <2>1. tasks[h] = Idle
    BY <1>1, TaskFacts DEF TaskOK
  <2>2. Turn(h)
    BY BeginsDoes DEF Begins
  <2> QED
    BY <2>1, <2>2 DEF Idle
<1>3. DeletedLast'
  BY <1>1 DEF DeletedLast
<1>4. \A c \in Channels : None # c
  BY WorldFacts DEF TypeInv
<1>5. \A c, type : Sends(type, c)' <=> Sends(type, c)
  BY <1>1, SendsSame
<1>0. PICK d \in Channels : e.channel = d
  BY <1>1
<1> HIDE DEF e
<1>6. CASE /\ e.type = "botInvite"
           /\ Place(tasks'[h]) = "botJoin" /\ tasks'[h].channel = e.channel
  <2>1. ASSUME NEW c \in Channels, c # d PROVE Aside(c)
    <3>1. BotQueueKept(c)
      BY <1>0, <1>1, <2>1, BotQueueTail DEF BotEvent
    <3>2. TasksAside(c)
      BY <1>0, <1>2, <1>4, <1>6, <2>1, TurnAsideFrom
    <3> QED
      BY <1>0, <1>1, <1>5, <1>6, <2>1, <3>1, <3>2 DEF Aside, BotLeaves
  <2>2. ASSUME ChannelOK(d) PROVE ChannelOK(d)'
    <3> USE DEF ChannelOK
    <3>0. /\ d \in Channels /\ BotEvent(1, d) /\ d # None /\ active' = active
          /\ Place(tasks'[h]) = "botJoin" /\ tasks'[h].channel = d
          /\ matrixQueue[1].type = "botInvite"
      BY <1>0, <1>1, <1>4, <1>6 DEF BotEvent, BotEvents, BotLeaves
    <3>1. BotQueued(d) /\ BotPending(d)
      BY <1>1, <3>0, TailBotQueue DEF BotPending
    <3>2. \A pc : pc # "botJoin" => (On(pc, d)' <=> On(pc, d))
      BY <1>2, <3>0, OnTurn
    <3>3. Ended(d)' <=> Ended(d)
      BY <1>1, <1>5, <3>2 DEF Ended
    <3>4. (Allowed(d)' <=> Allowed(d)) /\ (SyncAllowsDeletion(d)' <=> SyncAllowsDeletion(d))
      BY <1>1, AllowedKept
    <3>5. BridgingOK(d)' /\ UnlinkingOK(d)' /\ LinkedOK(d)'
      BY <1>1, <1>5, <2>2, <3>2, <3>3, <3>4 DEF BridgingOK, UnlinkingOK, LinkedOK
    <3>6. \A g \in Handlers : tasks'[g] = tasks[g] \/ Place(tasks'[g]) = "botJoin"
      BY <1>2, <3>0 DEF Turn
    <3>7. AloneOK(d)'
      <4> SUFFICES ASSUME NEW i \in Handlers, NEW j \in Handlers, i # j, tasks'[i].channel = d,
                          tasks'[j].channel = d, Place(tasks'[j]) \in OfChannel
                   PROVE  \/ Place(tasks'[i]) \in OfMatrix
                          \/ Place(tasks'[i]) \in Syncs /\ Place(tasks'[j]) \in Syncs
        BY DEF AloneOK, Place
      <4>1. tasks'[j] = tasks[j]
        BY <3>6 DEF OfChannel
      <4> QED
        BY <2>2, <3>6, <4>1 DEF AloneOK, OfMatrix
    <3>8. \A g \in Handlers : tasks'[g].channel = d =>
             \/ Place(tasks'[g]) = "botJoin"
             \/ tasks[g].channel = d /\ Place(tasks'[g]) = Place(tasks[g])
      BY <3>6
    <3>9. UnbridgedOK(d)'
      <4> SUFFICES ASSUME d \notin bridged
                   PROVE  /\ (d \in botIn \/ BotPending(d) => Ended(d))'
                          /\ (ghostsIn[d] = {} \/ On("drain", d))'
                          /\ \A g \in Handlers : tasks'[g].channel = d =>
                                 Place(tasks'[g]) \in {"bridge", "drain"} \cup OfMatrix
        BY <1>1 DEF UnbridgedOK, Place
      <4> QED
        BY <1>1, <2>2, <3>1, <3>2, <3>3, <3>8 DEF UnbridgedOK, OfMatrix
    <3>10. ASSUME d \in bridged
           PROVE  d \notin botIn /\ d \notin active /\ ~BotQueued(d)' /\ ~On("botJoin", d)
      BY <1>1, <2>2, <3>0, <3>1, <3>10, TailBotQueue DEF BotOK
    <3>11. d \in bridged => BotOnce(d)'
      BY <1>2, <3>0, <3>10 DEF BotOnce, On, Turn, Place
    <3>12. d \in bridged => BotOrder(d)'
      BY <1>1, <2>2, TailBotQueue DEF BotOK
    <3>13. BotOK(d)'
      BY <1>1, <3>0, <3>10, <3>11, <3>12 DEF BotOK
    <3>14. RoomsOK(d)'
      <4> SUFFICES ASSUME d \in toSync'.rooms, NEW g \in Handlers, tasks'[g].channel = d
                   PROVE  Place(tasks'[g]) \in Syncs \cup OfMatrix
        BY <1>1, <2>2 DEF RoomsOK, Place
      <4> QED
        BY <1>1, <2>2, <3>8 DEF RoomsOK, OfMatrix
    <3>15. StoredOK(d)'
      BY <1>1, <2>2, <3>2 DEF StoredOK
    <3> QED
      BY <3>5, <3>7, <3>9, <3>13, <3>14, <3>15
  <2> QED
    BY <1>1, <1>3, <2>1, <2>2, AsideKeeps
<1>7. CASE e.type \in BotLeaves /\ tasks' = tasks
  <2>1. ASSUME NEW c \in Channels, c # d PROVE Aside(c)
    <3>1. BotQueueKept(c)
      BY <1>0, <1>1, <2>1, BotQueueTail DEF BotEvent
    <3> QED
      BY <1>0, <1>1, <1>5, <1>7, <2>1, <3>1, TasksAsideSame DEF Aside
  <2>2. ASSUME ChannelOK(d) PROVE ChannelOK(d)'
    <3> USE DEF ChannelOK
    <3>0. d \in Channels /\ BotEvent(1, d) /\ active' = active \ {d}
      BY <1>0, <1>1, <1>7 DEF BotEvent, BotEvents, BotLeaves
    <3>1. BotQueued(d) /\ BotPending(d)
      BY <1>1, <3>0, TailBotQueue DEF BotPending
    <3>2. /\ \A pc : On(pc, d)' <=> On(pc, d)
          /\ AloneOK(d)' /\ (BotOnce(d)' <=> BotOnce(d))
      BY <1>7, <2>2, TasksSame
    <3>3. Ended(d)' <=> Ended(d)
      BY <1>1, <1>5, <3>2 DEF Ended
    <3>4. (Allowed(d)' <=> Allowed(d)) /\ (SyncAllowsDeletion(d)' <=> SyncAllowsDeletion(d))
      BY <1>1, AllowedKept
    <3>5. BridgingOK(d)' /\ UnlinkingOK(d)' /\ LinkedOK(d)'
      BY <1>1, <1>5, <2>2, <3>2, <3>3, <3>4 DEF BridgingOK, UnlinkingOK, LinkedOK
    <3>6. UnbridgedOK(d)'
      BY <1>1, <1>7, <2>2, <3>1, <3>2, <3>3 DEF UnbridgedOK, Place
    <3>7. d \in bridged => BotOrder(d)'
      BY <1>1, <2>2, TailBotQueue DEF BotOK
    <3>8. BotOK(d)'
      BY <1>1, <2>2, <3>0, <3>1, <3>2, <3>7 DEF BotOK
    <3>9. RoomsOK(d)' /\ StoredOK(d)'
      BY <1>1, <1>7, <2>2, <3>2 DEF RoomsOK, StoredOK, Place
    <3> QED
      BY <3>2, <3>5, <3>6, <3>8, <3>9
  <2> QED
    BY <1>1, <1>3, <2>1, <2>2, AsideKeeps
<1>8. CASE /\ e.type \notin BotEvents
           /\ tasks' = tasks \/ Place(tasks'[h]) = "slackJoin"
  <2>1. ASSUME NEW c \in Channels PROVE Aside(c)
    <3>1. BotQueueKept(c)
      BY <1>1, <1>8, BotQueueTail DEF BotEvent
    <3>2. TasksAside(c)
      BY <1>2, <1>4, <1>8, TurnAsideFrom, TasksAsideSame DEF Joins, Chores
    <3> QED
      BY <1>1, <1>5, <1>8, <3>1, <3>2 DEF Aside, BotLeaves, BotEvents
  <2> QED
    BY <1>3, <2>1, AsideKeeps
<1>9. ASSUME Start(h, BotTask(e.channel))
      PROVE  Place(tasks'[h]) = "botJoin" /\ tasks'[h].channel = e.channel
  BY <1>1, <1>9, ChannelTaskFacts, TurnDoes DEF ChannelTask, Place
<1>10. ASSUME e.type = "join", Start(h, PuppetTask(e.channel, e.user))
       PROVE  Place(tasks'[h]) = "slackJoin"
  BY <1>1, <1>10, ChannelTaskFacts, TurnDoes DEF ChannelTask, Place
<1> QED
  BY <1>1, <1>6, <1>7, <1>8, <1>9, <1>10 DEF BotEvents, BotLeaves

LEMMA SyncsUserKeeps ==
  ASSUME TypeInv, DeletedLast, NEW h \in Handlers, SyncsUser(h)
  PROVE  DeletedLast' /\ \A c \in Channels : ChannelOK(c) => ChannelOK(c)'
<1>1. PICK listed \in Listed :
          /\ tasks[h].pc = "idle" /\ Start(h, ListedTask(listed))
          /\ toSync'.channels = toSync.channels /\ toSync'.rooms = toSync.rooms
          /\ UNCHANGED <<world, open, closed, slackQueue, matrixQueue, ghostsIn, botIn, bridged,
                         stored, active>>
  BY SyncsUserDoes DEF slack, queues, matrix
<1>2. Turn(h) /\ tasks[h] = Idle /\ Idle.channel = None
  BY BeginsDoes DEF Begins, Idle
<1>3. tasks'[h].channel = None
  BY <1>1, ListedTaskFacts, TurnDoes
<1>4. ASSUME NEW c \in Channels PROVE Aside(c)
  <2>1. TasksAside(c)
    BY <1>2, <1>3, WorldFacts, TurnAsideFrom DEF TypeInv
  <2> QED
    BY <1>1, <2>1, BotQueueSame, SendsSame DEF Aside
<1>5. DeletedLast'
  BY <1>1 DEF DeletedLast
<1> QED
  BY <1>4, <1>5, AsideKeeps

LEMMA SyncsChannelKeeps ==
  ASSUME TypeInv, DeletedLast, NEW h \in Handlers, SyncsChannel(h)
  PROVE  DeletedLast' /\ \A c \in Channels : c \notin crossed' /\ ChannelOK(c) => ChannelOK(c)'
<1>1. PICK d \in toSync.channels :
          /\ d \in Channels /\ Start(h, SyncChannel(d))
          /\ toSync'.channels = toSync.channels \ {d} /\ toSync'.rooms = toSync.rooms
          /\ crossed' = crossed \cup CrossedBy(h, {None, world.creator[d]}, d)
          /\ UNCHANGED <<world, open, closed, slackQueue, matrixQueue, ghostsIn, botIn, bridged,
                         stored, active>>
  BY SyncsChannelDoes DEF slack, queues, matrix
<1>2. Turn(h) /\ tasks[h] = Idle /\ Idle.channel = None
  BY BeginsDoes DEF Begins, Idle
<1>3. DeletedLast'
  BY <1>1 DEF DeletedLast
<1>4. \A c, type : Sends(type, c)' <=> Sends(type, c)
  BY <1>1, SendsSame
<1>5. \A c \in Channels : None # c
  BY WorldFacts DEF TypeInv
<1>6. /\ tasks'[h] = SyncChannel(d)
      /\ \/ SyncChannel(d) = Idle
         \/ d \in bridged /\ ChannelTask(SyncChannel(d), d, "ensureBot")
         \/ Allowed(d) /\ d \notin bridged /\ SyncChannel(d) = BridgeTask(d)
  BY <1>1, SyncChannelType, TurnDoes, ChannelTaskFacts DEF Allowed, TypeInv
<1>7. \/ tasks'[h].channel = None
      \/ d \in bridged /\ tasks'[h].channel = d /\ Place(tasks'[h]) = "ensureBot"
      \/ Allowed(d) /\ d \notin bridged /\ tasks'[h].channel = d /\ Place(tasks'[h]) = "bridge"
  BY <1>1, <1>2, <1>6, BridgeTaskFacts, WorldFacts DEF ChannelTask, Place, TypeInv
<1>8. ASSUME NEW c \in Channels, c # d PROVE Aside(c)
  <2>1. TasksAside(c)
    BY <1>2, <1>5, <1>7, <1>8, TurnAsideFrom
  <2> QED
    BY <1>1, <1>4, <1>8, <2>1, BotQueueSame DEF Aside
<1>9. ASSUME d \notin crossed', ChannelOK(d) PROVE ChannelOK(d)'
  <2>1. \A g \in Handlers \ {h} : tasks[g].channel # d
    BY <1>1, <1>9, NotCrossed
  <2>2. ~Ended(d) /\ d \notin toSync'.channels
    BY <1>1 DEF Ended
  <2>3. d \in open \/ Sends("deleted", d)'
    BY <1>1, <1>4, <1>9 DEF ChannelOK, BridgingOK
  <2> QED
    BY <1>1, <1>2, <1>4, <1>5, <1>7, <1>9, <2>1, <2>2, <2>3, BeginsAlone
<1> QED
  BY <1>1, <1>3, <1>8, <1>9, AsideKeeps

LEMMA SyncsRoomKeeps ==
  ASSUME TypeInv, DeletedLast, NEW h \in Handlers, SyncsRoom(h)
  PROVE  DeletedLast' /\ \A c \in Channels : ChannelOK(c) => ChannelOK(c)'
<1>1. PICK d \in toSync.rooms :
          /\ d \in Channels /\ Start(h, RoomSync(d)) /\ ChannelTask(RoomSync(d), d, "listGhosts")
          /\ toSync'.channels = toSync.channels /\ toSync'.rooms = toSync.rooms \ {d}
          /\ UNCHANGED <<world, open, closed, slackQueue, matrixQueue, ghostsIn, botIn, bridged,
                         stored, active>>
  BY SyncsRoomDoes DEF slack, queues, matrix
<1>2. Turn(h) /\ tasks[h] = Idle /\ Idle.channel = None
  BY BeginsDoes DEF Begins, Idle
<1>3. tasks'[h].channel = d /\ Place(tasks'[h]) = "listGhosts"
  BY <1>1, TurnDoes DEF ChannelTask, Place
<1>4. ASSUME NEW c \in Channels PROVE Aside(c)
  <2>1. TasksAside(c)
    BY <1>1, <1>2, <1>3, WorldFacts, TurnAsideFrom DEF TypeInv, Joins, Syncs
  <2> QED
    BY <1>1, <2>1, BotQueueSame, SendsSame DEF Aside
<1>5. DeletedLast'
  BY <1>1 DEF DeletedLast
<1> QED
  BY <1>4, <1>5, AsideKeeps

LEMMA FolkPlaces ==
  ASSUME NEW t, AboutFolk(t)
  PROVE  Place(t) \notin OfChannel \cup OfMatrix \cup {"idle"} /\ Place(t) = t.pc
  BY DEF AboutFolk, Place, Bridging, Stage, OfFolk, InRoom, OfUser, OfChannel, OfMatrix

LEMMA FolkKeeps ==
  ASSUME TypeInv, DeletedLast, NEW h \in Handlers, FolkSteps(h)
  PROVE  DeletedLast' /\ \A c \in Channels : ChannelOK(c) => ChannelOK(c)'
<1> DEFINE s == tasks[h]
<1> DEFINE t == tasks'[h]
<1>1. /\ UNCHANGED <<world, open, closed, slackQueue, matrixQueue, bridged, stored, active, toSync,
                     botIn>>
      /\ Turn(h) /\ Place(s) \notin OfChannel \cup OfMatrix \cup {"idle"}
      /\ t = Idle \/ (t.channel = s.channel /\ Place(t) \notin OfChannel \cup OfMatrix)
      /\ Idle.channel = None
  BY FolkStepsKeep, FolkStepsDo, FolkPlaces, ContinuedFacts DEF slack, queues, bridge, Idle
<1>2. DeletedLast'
  BY <1>1 DEF DeletedLast
<1>3. ASSUME NEW c \in Channels, ChannelOK(c) PROVE Aside(c)
  <2>1. c # None
    BY WorldFacts DEF TypeInv
  <2>2. TasksAside(c)
    BY <1>1, <2>1, TurnAsideFrom DEF Like, OfChannel
  <2>3. c \in bridged \/ ghostsIn'[c] \subseteq ghostsIn[c]
    <3>1. CASE c \notin bridged
      <4>1. s.channel # c
        BY <1>1, <1>3, <3>1 DEF ChannelOK, UnbridgedOK, OfChannel
      <4> QED
        BY <4>1, FolkStepsMove
    <3> QED
      BY <3>1
  <2> QED
    BY <1>1, <2>2, <2>3, BotQueueSame, SendsSame DEF Aside
<1> QED
  BY <1>2, <1>3, AsideKeeps

\* A step of a handler about a channel, to the others.
LEMMA OtherChannels ==
  ASSUME TypeInv, NEW h \in Handlers, ChannelSteps(h), NEW c \in Channels, c # tasks[h].channel
  PROVE  Aside(c)
<1> DEFINE s == tasks[h]
<1> DEFINE t == tasks'[h]
<1>1. /\ UNCHANGED <<world, open, closed, slackQueue, matrixQueue>>
      /\ toSync'.channels = toSync.channels /\ (BridgeChannel(h) \/ toSync' = toSync)
      /\ Turn(h) /\ s.channel \in Channels
      /\ t = Idle \/ t.channel = s.channel
      /\ c # None /\ Idle.channel = None
      /\ ghostsIn \in [Channels -> SUBSET Folk]
      /\ toSync \in [users : SUBSET Listed, channels : SUBSET Channels, rooms : SUBSET Channels,
                     listing : BOOLEAN]
  BY ChannelStepsDo, WorldFacts DEF queues, Idle, TypeInv, MatrixOK, ToSyncOK
<1>2. TasksAside(c)
  BY <1>1, TurnAsideFrom
<1>3. CASE BridgeChannel(h)
  BY <1>1, <1>2, <1>3, BridgeChannelDoes, BotQueueSame, SendsSame DEF Aside, Bridges
<1>4. CASE EnsureBot(h)
  BY <1>1, <1>2, <1>4, EnsureBotDoes, BotQueueSame, SendsSame DEF Aside, matrix, bridge
<1>5. CASE ListGhosts(h)
  BY <1>1, <1>2, <1>5, ListGhostsDoes, BotQueueSame, SendsSame DEF Aside, matrix, bridge
<1>6. CASE ListMembers(h)
  BY <1>1, <1>2, <1>6, ListMembersDoes, BotQueueSame, SendsSame DEF Aside, bridge
<1>7. CASE MoveMembers(h)
  BY <1>1, <1>2, <1>7, MoveMembersDoes, BotQueueSame, SendsSame DEF Aside, bridge
<1>8. CASE UnlinkDeleted(h)
  BY <1>1, <1>2, <1>8, UnlinkDeletedDoes, BotQueueSame, SendsSame DEF Aside, matrix
<1>9. CASE DrainRoom(h)
  BY <1>1, <1>2, <1>9, DrainRoomDoes, BotQueueSame, SendsSame DEF Aside, bridge
<1> QED
  BY <1>3, <1>4, <1>5, <1>6, <1>7, <1>8, <1>9 DEF ChannelSteps

LEMMA SyncingKeeps ==
  ASSUME TypeInv, NEW h \in Handlers, NEW c \in Channels, ChannelOK(c), c = tasks[h].channel,
         \/ EnsureBot(h) \/ ListGhosts(h) \/ ListMembers(h) \/ MoveMembers(h)
         \/ /\ BridgeChannel(h) /\ tasks'[h] = Idle
            /\ UNCHANGED <<bridged, stored, active, botIn, ghostsIn, toSync>>
  PROVE  Aside(c)
<1> DEFINE s == tasks[h]
<1> DEFINE t == tasks'[h]
<1>1. /\ UNCHANGED <<world, open, closed, slackQueue, matrixQueue, toSync, bridged, stored, active,
                     botIn>>
      /\ Turn(h) /\ c # None /\ Idle.channel = None
      /\ Place(s) \in Syncs \cup {"bridge"}
      /\ t = Idle \/ (Place(s) \in Syncs /\ Place(t) \in Syncs)
      /\ Place(s) = "bridge" => ghostsIn' = ghostsIn
  <2>1. /\ c # None /\ Idle.channel = None
        /\ s.next = "bridge" => Stage(s) \in {"askBot", "bridge"}
    BY WorldFacts, TaskFacts DEF Idle, TypeInv, TaskOK
  <2>2. CASE /\ BridgeChannel(h) /\ tasks'[h] = Idle
             /\ UNCHANGED <<bridged, stored, active, botIn, ghostsIn, toSync>>
    BY <2>1, <2>2, BridgeChannelDoes DEF slack, queues, Place
  <2>3. CASE EnsureBot(h)
    BY <2>1, <2>3, EnsureBotDoes DEF slack, queues, matrix, bridge, Syncs, Place, Stage
  <2>4. CASE ListGhosts(h)
    BY <2>1, <2>4, ListGhostsDoes DEF slack, queues, matrix, bridge, Syncs, Place, Stage
  <2>5. CASE ListMembers(h)
    BY <2>1, <2>5, ListMembersDoes DEF slack, queues, bridge, Syncs, Place, Stage
  <2>6. CASE MoveMembers(h)
    BY <2>1, <2>6, MoveMembersDoes DEF slack, queues, bridge, Syncs, Place, Stage
  <2> QED
    BY <2>2, <2>3, <2>4, <2>5, <2>6
<1>2. TasksAside(c)
  <2>1. Place(s) \notin {"unlink", "drain"}
    BY <1>1 DEF Syncs
  <2>2. t.channel = c => Like(Place(t), Place(s))
    BY <1>1 DEF Like
  <2> QED
    BY <1>1, <2>1, <2>2, TurnAsideFrom
<1>3. c \in bridged \/ ghostsIn'[c] \subseteq ghostsIn[c]
  <2>1. Place(s) \in Syncs => c \in bridged
    BY DEF ChannelOK, UnbridgedOK, Syncs, OfMatrix
  <2> QED
    BY <1>1, <2>1
<1> QED
  BY <1>1, <1>2, <1>3, BotQueueSame, SendsSame DEF Aside

\* The handler that goes on with a channel is the only one of its kind.
LEMMA OnOfOne ==
  ASSUME TypeInv, NEW h \in Handlers, Turn(h), NEW c \in Channels, AloneOK(c),
         tasks[h].channel = c, Place(tasks[h]) \in OfChannel \ Syncs
  PROVE  /\ \A pc \in OfChannel :
               /\ On(pc, c) <=> Place(tasks[h]) = pc
               /\ On(pc, c)' <=> Place(tasks'[h]) = pc /\ tasks'[h].channel = c
         /\ Place(tasks'[h]) # "botJoin" =>
               (On("botJoin", c)' <=> On("botJoin", c)) /\ (BotOnce(c) => BotOnce(c)')
         /\ AloneOK(c)'
         /\ \A g \in Handlers \ {h} :
               tasks'[g] = tasks[g] /\ (tasks[g].channel = c => Place(tasks[g]) \in OfMatrix)
<1>1. \A g \in Handlers \ {h} :
         tasks'[g] = tasks[g] /\ (tasks[g].channel = c => Place(tasks[g]) \in OfMatrix)
  BY DEF AloneOK, Turn
<1>2. \A pc \in OfChannel : pc \notin OfMatrix /\ "botJoin" \notin OfChannel
  BY DEF OfChannel, OfMatrix
<1>3. AloneOK(c)'
  <2> SUFFICES ASSUME NEW i \in Handlers, NEW j \in Handlers, i # j, tasks'[i].channel = c,
                      tasks'[j].channel = c, Place(tasks'[j]) \in OfChannel
               PROVE  Place(tasks'[i]) \in OfMatrix
    BY DEF AloneOK, Place
  <2> QED
    BY <1>1, <1>2
<1>4. \A pc \in OfChannel : /\ On(pc, c) <=> Place(tasks[h]) = pc
                            /\ On(pc, c)' <=> Place(tasks'[h]) = pc /\ tasks'[h].channel = c
  BY <1>1, <1>2, OnTurn
<1>5. ASSUME Place(tasks'[h]) # "botJoin"
      PROVE  (On("botJoin", c)' <=> On("botJoin", c)) /\ (BotOnce(c) => BotOnce(c)')
  <2>1. On("botJoin", c)' <=> On("botJoin", c)
    BY <1>1, <1>2, <1>5, OnTurn
  <2>2. ASSUME BotOnce(c), NEW i \in Handlers, NEW j \in Handlers,
               Place(tasks'[i]) = "botJoin", tasks'[i].channel = c,
               Place(tasks'[j]) = "botJoin", tasks'[j].channel = c
        PROVE  i = j
    BY <1>1, <1>5, <2>2 DEF BotOnce
  <2> QED
    BY <2>1, <2>2 DEF BotOnce, Place
<1> QED
  BY <1>1, <1>3, <1>4, <1>5

LEMMA BridgeKeeps ==
  ASSUME TypeInv, NEW h \in Handlers, NEW c \in Channels, ChannelOK(c), c = tasks[h].channel,
         BridgeChannel(h)
  PROVE  ChannelOK(c)'
<1> USE DEF ChannelOK
<1>1. CASE tasks'[h] = Idle /\ UNCHANGED <<bridged, stored, active, botIn, ghostsIn, toSync>>
  BY <1>1, SyncingKeeps, AsideKeeps
<1>2. CASE /\ bridged' = bridged \cup {c} /\ stored' = stored \cup {c}
           /\ active' = active \cup {c} /\ botIn' = botIn \cup {c}
           /\ Place(tasks'[h]) = "ensureBot" /\ tasks'[h].channel = c
           /\ toSync'.channels = toSync.channels
  <2>1. /\ Turn(h) /\ Place(tasks[h]) = "bridge"
        /\ UNCHANGED <<world, open, closed, slackQueue, matrixQueue>>
    BY BridgeChannelDoes DEF queues, slack, Place
  <2>2. /\ \A pc \in OfChannel :
              /\ On(pc, c) <=> Place(tasks[h]) = pc
              /\ On(pc, c)' <=> Place(tasks'[h]) = pc /\ tasks'[h].channel = c
        /\ (On("botJoin", c)' <=> On("botJoin", c)) /\ (BotOnce(c) => BotOnce(c)')
        /\ AloneOK(c)'
        /\ \A g \in Handlers \ {h} :
               tasks'[g] = tasks[g] /\ (tasks[g].channel = c => Place(tasks[g]) \in OfMatrix)
    BY <1>2, <2>1, OnOfOne DEF OfChannel, Syncs
  <2>3. On("bridge", c) /\ ~On("bridge", c)' /\ ~On("unlink", c)' /\ ~On("drain", c)'
    BY <1>2, <2>1, <2>2 DEF OfChannel
  <2>4. c \notin bridged /\ Allowed(c) /\ (c \in open \/ Sends("deleted", c))
    BY <2>3 DEF BridgingOK
  <2>5. c \notin botIn /\ ~BotPending(c)
    BY <2>3, <2>4 DEF UnbridgedOK, Ended
  <2>6. (Allowed(c)' <=> Allowed(c)) /\ \A type : Sends(type, c)' <=> Sends(type, c)
    BY <2>1, AllowedKept, SendsSame
  <2>7. BridgingOK(c)' /\ UnlinkingOK(c)' /\ LinkedOK(c)' /\ UnbridgedOK(c)'
    BY <1>2, <2>1, <2>3, <2>4, <2>6 DEF BridgingOK, UnlinkingOK, LinkedOK, UnbridgedOK
  <2>8. ~On("botJoin", c)' /\ ~BotQueued(c)' /\ ~BotPending(c)'
    BY <2>1, <2>2, <2>5, BotQueueSameDoes DEF BotPending
  <2>9. BotOrder(c)' /\ BotOnce(c)'
    BY <2>8 DEF BotOrder, BotOnce, BotQueued, On
  <2>10. BotOK(c)'
    BY <1>2, <2>8, <2>9 DEF BotOK
  <2>11. RoomsOK(c)'
    <3> SUFFICES ASSUME NEW g \in Handlers, tasks'[g].channel = c
                 PROVE  Place(tasks'[g]) \in Syncs \cup OfMatrix
      BY <1>2 DEF RoomsOK, Place
    <3> QED
      BY <1>2, <2>2 DEF Syncs
  <2>12. StoredOK(c)'
    BY <1>2 DEF StoredOK
  <2> QED
    BY <2>2, <2>7, <2>10, <2>11, <2>12
<1>3. toSync \in [users : SUBSET Listed, channels : SUBSET Channels, rooms : SUBSET Channels,
                 listing : BOOLEAN]
  BY DEF TypeInv, ToSyncOK
<1> QED
  BY <1>1, <1>2, <1>3, BridgeChannelDoes DEF Bridges, ChannelTask, Place

LEMMA UnlinkKeeps ==
  ASSUME TypeInv, NEW h \in Handlers, NEW c \in Channels, ChannelOK(c), c = tasks[h].channel,
         UnlinkDeleted(h)
  PROVE  ChannelOK(c)'
<1> USE DEF ChannelOK
<1>1. /\ Turn(h) /\ Place(tasks[h]) = "unlink"
      /\ Place(tasks'[h]) = "drain" /\ tasks'[h].channel = c
      /\ bridged' = bridged \ {c} /\ active' = active \ {c}
      /\ UNCHANGED <<world, open, closed, slackQueue, matrixQueue, ghostsIn, botIn, stored, toSync>>
  BY UnlinkDeletedDoes, ContinuedFacts, ChannelStepsDo, TaskFacts
     DEF slack, queues, matrix, bridge, ChannelSteps, Place, TaskOK, Stage
<1>2. /\ \A pc \in OfChannel :
            /\ On(pc, c) <=> Place(tasks[h]) = pc
            /\ On(pc, c)' <=> Place(tasks'[h]) = pc /\ tasks'[h].channel = c
      /\ AloneOK(c)'
      /\ \A g \in Handlers \ {h} :
            tasks'[g] = tasks[g] /\ (tasks[g].channel = c => Place(tasks[g]) \in OfMatrix)
  BY <1>1, OnOfOne DEF OfChannel, Syncs
<1>3. On("unlink", c) /\ ~On("bridge", c)' /\ ~On("unlink", c)' /\ On("drain", c)'
  BY <1>1, <1>2 DEF OfChannel
<1>4. Ended(c) /\ c \in bridged /\ c \notin bridged'
  BY <1>1, <1>3 DEF UnlinkingOK
<1>5. Ended(c)'
  BY <1>1, <1>3, <1>4, SendsSame DEF Ended
<1>6. BridgingOK(c)' /\ UnlinkingOK(c)' /\ LinkedOK(c)' /\ BotOK(c)'
  BY <1>1, <1>3, <1>4, <1>5 DEF BridgingOK, UnlinkingOK, LinkedOK, BotOK, Ended
<1>7. \A g \in Handlers : tasks'[g].channel = c => Place(tasks'[g]) \in {"drain"} \cup OfMatrix
  BY <1>1, <1>2
<1>8. UnbridgedOK(c)'
  BY <1>3, <1>5, <1>7 DEF UnbridgedOK, Place
<1>9. RoomsOK(c)' /\ StoredOK(c)'
  BY <1>1, <1>3, <1>4 DEF RoomsOK, StoredOK, Syncs, OfMatrix
<1> QED
  BY <1>2, <1>6, <1>8, <1>9

LEMMA DrainKeeps ==
  ASSUME TypeInv, NEW h \in Handlers, NEW c \in Channels, ChannelOK(c), c = tasks[h].channel,
         DrainRoom(h), c \notin crossed'
  PROVE  ChannelOK(c)'
<1> USE DEF ChannelOK
<1>1. /\ Turn(h) /\ Place(tasks[h]) = "drain" /\ tasks'[h] = Idle
      /\ ghostsIn'[c] = {} /\ c \notin stored'
      /\ UNCHANGED <<world, open, closed, slackQueue, matrixQueue, bridged, active, toSync>>
  BY DrainRoomDoes, ChannelStepsDo DEF slack, queues, bridge, TypeInv, MatrixOK, ChannelSteps
<1>2. Idle.channel # c /\ Place(Idle) = "idle"
  BY WorldFacts DEF TypeInv, Idle, Place
<1>3. /\ \A pc \in OfChannel :
            /\ On(pc, c) <=> Place(tasks[h]) = pc
            /\ On(pc, c)' <=> Place(tasks'[h]) = pc /\ tasks'[h].channel = c
      /\ (On("botJoin", c)' <=> On("botJoin", c)) /\ AloneOK(c)'
      /\ \A g \in Handlers \ {h} :
            tasks'[g] = tasks[g] /\ (tasks[g].channel = c => Place(tasks[g]) \in OfMatrix)
  BY <1>1, <1>2, OnOfOne DEF OfChannel, Syncs
<1>4. On("drain", c) /\ ~On("bridge", c)' /\ ~On("unlink", c)' /\ ~On("drain", c)'
  BY <1>1, <1>2, <1>3 DEF OfChannel
<1>5. Ended(c) /\ c \notin bridged
  BY <1>4 DEF UnlinkingOK
<1>6. Ended(c)'
  BY <1>1, <1>4, <1>5, SendsSame DEF Ended
<1>7. BridgingOK(c)' /\ UnlinkingOK(c)' /\ LinkedOK(c)' /\ BotOK(c)'
  BY <1>1, <1>4, <1>5, <1>6 DEF BridgingOK, UnlinkingOK, LinkedOK, BotOK, Ended
<1>8. \A g \in Handlers : tasks'[g].channel = c => Place(tasks'[g]) \in OfMatrix
  BY <1>1, <1>2, <1>3
<1>9. UnbridgedOK(c)'
  BY <1>1, <1>6, <1>8 DEF UnbridgedOK, Place
<1>10. RoomsOK(c)' /\ StoredOK(c)'
  BY <1>1, <1>4, <1>5 DEF RoomsOK, StoredOK
<1> QED
  BY <1>3, <1>7, <1>9, <1>10

LEMMA ChannelKeeps ==
  ASSUME TypeInv, DeletedLast, NEW h \in Handlers, ChannelSteps(h)
  PROVE  DeletedLast' /\ \A c \in Channels : c \notin crossed' /\ ChannelOK(c) => ChannelOK(c)'
<1>1. DeletedLast'
  BY ChannelStepsDo DEF DeletedLast, queues
<1>2. ASSUME NEW c \in Channels, c \notin crossed', ChannelOK(c) PROVE ChannelOK(c)'
  <2>1. CASE c # tasks[h].channel
    BY <1>2, <2>1, OtherChannels, AsideKeeps
  <2>2. CASE c = tasks[h].channel
    BY <1>2, <2>2, SyncingKeeps, AsideKeeps, BridgeKeeps, UnlinkKeeps, DrainKeeps
       DEF ChannelSteps
  <2> QED
    BY <2>1, <2>2
<1> QED
  BY <1>1, <1>2

\* On the way to link a channel, and where a call fails.
LEMMA BridgeStepsKeep ==
  ASSUME TypeInv, DeletedLast, NEW h \in Handlers, BridgeSteps(h)
  PROVE  DeletedLast' /\ \A c \in Channels : ChannelOK(c) => ChannelOK(c)'
<1>1. /\ UNCHANGED <<world, open, closed, slackQueue, matrixQueue, bridged, stored, active, toSync,
                     botIn, ghostsIn>>
      /\ Turn(h) /\ tasks'[h].channel = tasks[h].channel
      /\ Place(tasks[h]) = "bridge" /\ Place(tasks'[h]) = "bridge"
  BY BridgeStepsDo DEF queues, matrix, bridge, Place, Bridging
<1>2. ASSUME NEW c \in Channels PROVE Aside(c)
  <2>1. TasksAside(c)
    BY <1>1, TurnAsideFrom DEF Like
  <2> QED
    BY <1>1, <2>1, BotQueueSame, SendsSame DEF Aside
<1>3. DeletedLast'
  BY <1>1 DEF DeletedLast
<1> QED
  BY <1>2, <1>3, AsideKeeps

LEMMA FailStepsKeep ==
  ASSUME TypeInv, DeletedLast, NEW h \in Handlers, FailSteps(h)
  PROVE  DeletedLast' /\ \A c \in Channels : ChannelOK(c) => ChannelOK(c)'
<1>1. /\ UNCHANGED <<world, open, closed, slackQueue, matrixQueue, bridged, stored, active, toSync,
                     botIn, ghostsIn>>
      /\ Turn(h) /\ tasks'[h] = Idle /\ Place(tasks[h]) \in Calls \cup {"save"}
      /\ Idle.channel = None
  BY FailStepsDo DEF slack, queues, matrix, bridge, Idle
<1>2. ASSUME NEW c \in Channels PROVE Aside(c)
  <2>1. c # None /\ Place(tasks[h]) \notin {"unlink", "drain"}
    BY <1>1, WorldFacts DEF TypeInv, Calls
  <2>2. TasksAside(c)
    BY <1>1, <2>1, TurnAsideFrom
  <2> QED
    BY <1>1, <2>2, BotQueueSame, SendsSame DEF Aside
<1>3. DeletedLast'
  BY <1>1 DEF DeletedLast
<1> QED
  BY <1>2, <1>3, AsideKeeps

LEMMA BotJoinsKeeps ==
  ASSUME TypeInv, NEW h \in Handlers, NEW c \in Channels, ChannelOK(c), c = tasks[h].channel,
         BotJoins(h)
  PROVE  ChannelOK(c)'
<1> USE DEF ChannelOK
<1>1. /\ Turn(h) /\ Place(tasks[h]) = "botJoin" /\ tasks'[h] = Idle /\ botIn' = botIn \cup {c}
      /\ active' = IF c \in bridged THEN active \cup {c} ELSE active
      /\ UNCHANGED <<world, open, closed, slackQueue, matrixQueue, ghostsIn, bridged, stored,
                     toSync>>
  BY BotJoinsDoes, MatrixStepsDo DEF slack, queues, MatrixSteps
<1>2. Idle.channel # c
  BY WorldFacts DEF TypeInv, Idle
<1>3. On("botJoin", c) /\ BotPending(c)
  BY <1>1 DEF On, BotPending
<1>4. \A pc : pc # "botJoin" => (On(pc, c)' <=> On(pc, c))
  BY <1>1, <1>2, OnTurn
<1>5. \A g \in Handlers : tasks'[g].channel = c => g # h /\ tasks'[g] = tasks[g]
  BY <1>1, <1>2 DEF Turn
<1>6. AloneOK(c)'
  BY <1>5 DEF AloneOK, Place
<1>7. Ended(c)' <=> Ended(c)
  BY <1>1, <1>4, SendsSame DEF Ended
<1>8. (Allowed(c)' <=> Allowed(c)) /\ (SyncAllowsDeletion(c)' <=> SyncAllowsDeletion(c))
  BY <1>1, AllowedKept
<1>9. BridgingOK(c)' /\ UnlinkingOK(c)' /\ LinkedOK(c)'
  BY <1>1, <1>4, <1>7, <1>8, SendsSame DEF BridgingOK, UnlinkingOK, LinkedOK
<1>10. UnbridgedOK(c)'
  BY <1>1, <1>3, <1>4, <1>5, <1>7 DEF UnbridgedOK, Place
<1>11. ASSUME c \in bridged
       PROVE  ~On("botJoin", c)' /\ ~BotQueued(c)' /\ BotOrder(c)' /\ BotOnce(c)'
  <2>1. ~BotQueued(c) /\ BotOrder(c) /\ BotOnce(c)
    BY <1>3, <1>11 DEF BotOK
  <2>2. ~On("botJoin", c)' /\ BotOnce(c)'
    BY <1>1, <1>3, <1>5, <2>1 DEF On, BotOnce, Place
  <2> QED
    BY <1>1, <2>1, <2>2, BotQueueSameDoes
<1>12. BotOK(c)'
  BY <1>1, <1>11 DEF BotOK, BotPending
<1>13. RoomsOK(c)' /\ StoredOK(c)'
  BY <1>1, <1>4, <1>5 DEF RoomsOK, StoredOK, Place
<1> QED
  BY <1>6, <1>9, <1>10, <1>12, <1>13

LEMMA MatrixKeeps ==
  ASSUME TypeInv, DeletedLast, NEW h \in Handlers, MatrixSteps(h)
  PROVE  DeletedLast' /\ \A c \in Channels : ChannelOK(c) => ChannelOK(c)'
<1> DEFINE s == tasks[h]
<1> DEFINE t == tasks'[h]
<1>1. /\ UNCHANGED <<world, open, closed, matrixQueue, toSync, bridged, stored, ghostsIn>>
      /\ Turn(h) /\ s.channel \in Channels /\ Place(s) \in OfMatrix
      /\ t = Idle \/ (t.channel = s.channel /\ Place(t) \in OfMatrix)
      /\ Idle.channel = None
      /\ BotJoins(h) \/ UNCHANGED <<botIn, active>>
      /\ PuppetJoins(h) \/ UNCHANGED slackQueue
  BY MatrixStepsDo, ContinuedFacts DEF Idle, Place, Bridging
<1>2. \A c \in Channels : c # None
  BY WorldFacts DEF TypeInv
<1>3. DeletedLast' /\ \A c \in Channels : /\ Sends("created", c)' <=> Sends("created", c)
                                          /\ Sends("deleted", c)' <=> Sends("deleted", c)
  <2>1. CASE slackQueue' = slackQueue
    BY <2>1, SendsSame DEF DeletedLast
  <2>2. CASE PuppetJoins(h) /\ slackQueue' # slackQueue
    <3>1. JoinsSlack(s.mx, s.channel)
      BY <2>2, PuppetJoinsDoes
    <3>2. PICK u : Sent(Event("joined", u, s.channel, None, FALSE))
      BY <3>1 DEF JoinsSlack
    <3>3. DeletedLast'
      BY <3>2, SentDeletedLast
    <3>4. ASSUME NEW what \in {"created", "deleted"}, NEW c \in Channels
          PROVE  Sends(what, c)' <=> Sends(what, c)
      BY <3>2, SentSends
    <3> QED
      BY <3>3, <3>4
  <2> QED
    BY <1>1, <2>1, <2>2
<1>4. ASSUME BotJoins(h) PROVE t = Idle /\ UNCHANGED slackQueue
  BY <1>4, BotJoinsDoes DEF queues
<1>5. ASSUME ~BotJoins(h) PROVE Place(s) \in Chores /\ (t = Idle \/ Place(t) \in Chores)
  <2>1. Place(s) = s.pc /\ (t = Idle \/ Place(t) = t.pc)
    BY MatrixStepsDo DEF Place, Bridging
  <2> QED
    BY <1>5, <2>1, PuppetJoinsDoes, OnboardDoes, CreateAdminRoomDoes, StoreAdminRoomDoes
       DEF MatrixSteps, Chores
<1>6. ASSUME NEW c \in Channels, c # s.channel \/ ~BotJoins(h) PROVE Aside(c)
  <2>1. TasksAside(c)
    <3>1. Place(s) \notin {"unlink", "drain"}
      BY <1>1 DEF OfMatrix
    <3>2. t.channel = c => s.channel = c /\ Like(Place(t), Place(s))
      BY <1>1, <1>2, <1>5, <1>6 DEF Like
    <3> QED
      BY <1>1, <3>1, <3>2, TurnAsideFrom
  <2>2. (c \in botIn' <=> c \in botIn) /\ (c \in active' <=> c \in active)
    <3>1. CASE BotJoins(h)
      BY <1>6, <3>1, BotJoinsDoes
    <3> QED
      BY <1>1, <3>1
  <2> QED
    BY <1>1, <1>3, <2>1, <2>2, BotQueueSame DEF Aside
<1> QED
  BY <1>3, <1>6, AsideKeeps, BotJoinsKeeps

LEMMA ChannelStart == Init /\ TypeInv => ChannelInv
<1> SUFFICES ASSUME Init, TypeInv PROVE ChannelInv
  OBVIOUS
<1>1. DeletedLast /\ \A c, type : ~Sends(type, c)
  BY DEF Init, DeletedLast, Sends
<1>2. ASSUME NEW c \in Channels PROVE ChannelOK(c)
  <2>1. Idle.channel # c
    BY WorldFacts DEF TypeInv, Idle
  <2>2. \A h \in Handlers : tasks[h].channel # c
    BY <2>1 DEF Init
  <2>3. \A pc : ~On(pc, c)
    BY <2>2 DEF On
  <2>4. ~BotQueued(c) /\ BotOrder(c) /\ ~BotPending(c)
    BY <2>3 DEF Init, BotQueued, BotOrder, BotPending
  <2>5. AloneOK(c) /\ BotOnce(c)
    BY <2>2 DEF AloneOK, BotOnce
  <2>6. BridgingOK(c) /\ UnlinkingOK(c)
    BY <2>3 DEF BridgingOK, UnlinkingOK, Init, NothingToSync
  <2>7. LinkedOK(c) /\ UnbridgedOK(c) /\ BotOK(c)
    BY <2>2, <2>3, <2>4, <2>5 DEF LinkedOK, UnbridgedOK, BotOK, Init
  <2>8. RoomsOK(c) /\ StoredOK(c)
    BY <2>3 DEF RoomsOK, StoredOK, Init, NothingToSync
  <2> QED
    BY <2>5, <2>6, <2>7, <2>8 DEF ChannelOK
<1> QED
  BY <1>1, <1>2 DEF ChannelInv

LEMMA ChannelStep == TypeInv /\ ChannelInv /\ [Next]_vars => ChannelInv'
<1> SUFFICES ASSUME TypeInv, ChannelInv, [Next]_vars PROVE ChannelInv'
  OBVIOUS
<1>0. DeletedLast /\ \A c \in Channels : c \notin crossed => ChannelOK(c)
  BY DEF ChannelInv
<1>1. CASE Restart
  <2>1. None \notin crossed
    BY WorldFacts DEF TypeInv, HistoryOK
  <2>2. crossed \subseteq crossed'
    BY <1>1, <2>1 DEF Restart
  <2> QED
    BY <1>0, <1>1, <2>2, RestartKeeps DEF ChannelInv
<1>2. CASE Outside /\ ~Restart
  <2>1. crossed' = crossed
    BY <1>2, OutsideDoes
  <2> QED
    BY <1>0, <1>2, <2>1, MemberEventsAside, MatrixUserMovesAside, ChannelCreatedKeeps,
       ChannelDeletedKeeps, BotMovedKeeps, AsideKeeps DEF Outside, ChannelInv
<1>3. CASE ListChannels
  BY <1>0, <1>3, ListChannelsKeeps DEF ListChannels, ChannelInv
<1>4. CASE tasks' = tasks /\ UNCHANGED <<world, slack, queues, matrix, bridge, crossed>>
  <2>1. UNCHANGED <<world, open, closed, slackQueue, matrixQueue, bridged, stored, active, toSync,
                    botIn, ghostsIn, crossed>>
    BY <1>4 DEF slack, queues, matrix, bridge
  <2>2. ASSUME NEW c \in Channels PROVE Aside(c)
    BY <1>4, <2>1, TasksAsideSame, BotQueueSame, SendsSame DEF Aside
  <2> QED
    BY <1>0, <2>1, <2>2, AsideKeeps DEF ChannelInv, DeletedLast
<1>5. ASSUME NEW h \in Handlers, Begins(h) PROVE ChannelInv'
  <2>1. crossed \subseteq crossed'
    BY <1>5, BeginsDoes
  <2> QED
    BY <1>0, <1>5, <2>1, HandleSlackKeeps, HandleMatrixKeeps, SyncsUserKeeps, SyncsChannelKeeps,
       SyncsRoomKeeps DEF Begins, ChannelInv
<1>6. ASSUME NEW h \in Handlers,
             \/ FolkSteps(h) \/ ChannelSteps(h) \/ MatrixSteps(h)
             \/ BridgeSteps(h) \/ FailSteps(h)
      PROVE  ChannelInv'
  <2>1. crossed \subseteq crossed'
    BY <1>6, FolkStepsKeep, ChannelStepsDo, MatrixStepsDo, BridgeStepsDo, FailStepsDo
  <2> QED
    BY <1>0, <1>6, <2>1, FolkKeeps, ChannelKeeps, MatrixKeeps, BridgeStepsKeep, FailStepsKeep
       DEF ChannelInv
<1>7. CASE Forgets
  BY <1>4, <1>7 DEF Forgets
<1>8. CASE UNCHANGED vars
  BY <1>4, <1>8 DEF vars
<1> QED
  BY <1>1, <1>2, <1>3, <1>5, <1>6, <1>7, <1>8, NextDoes

\* Every channel is in one of the places that ChannelInv names, whatever the handlers of
\* onChannelAdded, onChannelDeleted, the sync and the bot's memberships did to it one by one.
THEOREM ChannelsHold == Spec => [](TypeInv /\ ChannelInv)
<1>1. Init => TypeInv /\ ChannelInv
  BY TypesStart, ChannelStart
<1>2. TypeInv /\ ChannelInv /\ [Next]_vars => (TypeInv /\ ChannelInv)'
  BY TypesStep, ChannelStep
<1> QED
  BY <1>1, <1>2, PTL DEF Spec

\* The bridge is told of its bot's comings and goings one event at a time, and sets
\* BridgedRoom.MatrixRoomActive by them (Main.handleMatrixMembership): at rest the rooms that
\* Slack's messages go to are those the bot is in, whatever was linked and unlinked meanwhile.
THEOREM ActiveRooms == Spec => []ActiveWhenIn
<1>1. TypeInv /\ ChannelInv => ActiveWhenIn
  <2> SUFFICES ASSUME TypeInv, ChannelInv, Quiet, NEW c \in bridged \ crossed
               PROVE  c \in active <=> c \in botIn
    BY DEF ActiveWhenIn
  <2>1. c \in Channels
    BY DEF TypeInv, BridgedOK, SlackOK, Channel
  <2>2. BotOK(c)
    BY <2>1 DEF ChannelInv, ChannelOK
  <2>3. ~BotLeft(c)
    BY DEF Quiet, BotLeft
  <2> QED
    BY <2>2, <2>3 DEF BotOK
<1> QED
  BY <1>1, ChannelsHold, PTL

\* A channel that is deleted on Slack loses its room (TeamSyncer.onChannelDeleted), if the
\* configuration syncs it as a public one, which is all that the event lets the bridge ask: at
\* rest none is bridged, also if a sync or its creation was on the way when it was deleted.
THEOREM DeletedLoseRooms == Spec => []DeletedUnlinked
<1>1. TypeInv /\ ChannelInv => DeletedUnlinked
  <2> SUFFICES ASSUME TypeInv, ChannelInv, Quiet, world.config.public,
                      NEW c \in bridged \ (open \cup crossed)
               PROVE  \/ c \in world.config.blacklist
                      \/ world.config.whitelist # {} /\ c \notin world.config.whitelist
    BY DEF DeletedUnlinked
  <2>1. c \in Channels
    BY DEF TypeInv, BridgedOK, SlackOK, Channel
  <2>2. LinkedOK(c)
    BY <2>1 DEF ChannelInv, ChannelOK
  <2>3. ~Sends("deleted", c)
    BY DEF Quiet, Sends
  <2>4. ~On("unlink", c)
    BY TaskFacts, PlaceFacts DEF Quiet, AllIdle, At, On
  <2>5. ~SyncAllowsDeletion(c)
    BY <2>2, <2>3, <2>4 DEF LinkedOK
  <2> QED
    BY <2>5 DEF SyncAllowsDeletion, SyncAllows
<1> QED
  BY <1>1, ChannelsHold, PTL
==============================================================================
