---------------------------- MODULE TeamMembers ----------------------------
(***************************************************************************)
(* Who is in the rooms of a team's channels: the team sync at start-up and *)
(* on events (TeamSyncer), Slack's events on members, users and channels   *)
(* (SlackEventHandler, BridgedRoom.onSlackUserJoin, onSlackUserLeft), the  *)
(* ghost that a message brings into the room, and, from Matrix, members    *)
(* and the bot joining and leaving (Main.handleMatrixMembership). The      *)
(* ghosts are GhostStore's.                                                *)
(*                                                                         *)
(* Events of a connection are delivered in their order; each is handled by *)
(* a task, step by step between its awaits, while later ones are handled   *)
(* too. A channel has one Matrix room here: that linking may make two is   *)
(* RoomLinks' subject, and so is what linking stores.                      *)
(***************************************************************************)
EXTENDS GhostStore, Sequences

CONSTANTS
    Bot,            \* the Slack user of the bridge, one of Folk
    Channels,       \* Slack channels
    MatrixUsers,    \* users on Matrix
    Handlers,       \* handler invocations that can be in flight at once
    Worlds          \* what the environment may be, a set of WorldType

Happenings == {"slackJoin", "slackLeave", "rename", "deleteUser", "restoreUser",
               "createChannel",
               "deleteChannel", "message", "matrixJoin", "matrixLeave", "bot",
               "restart",       \* the process dies and starts again
               "rtm",           \* Slack's events come over RTM, not by HTTP
               "outage",        \* calls to Slack and the homeserver fail
               "expiry",        \* the caches of user info are forgotten
               "serial"}        \* an event comes when the ones before are done

\* config.team_sync and the allow and deny lists for channels; an allow list or
\* whitelist that is not configured is {}.
Configs == [public : BOOLEAN, private : BOOLEAN,
            blacklist : SUBSET Channels, whitelist : SUBSET Channels,
            allow : SUBSET Channels, deny : SUBSET Channels]

\* folk, without the bot, and channels take part; linked were bridged by hand, with members in
\* them on Slack; hidden are private; puppet is the Matrix user who has logged
\* in as a Slack user; moves bounds what users do.
WorldType == [traffic : SUBSET Happenings, folk : SUBSET Folk,
              channels : SUBSET Channels, linked : SUBSET Channels, members : SUBSET Folk,
              hidden : SUBSET Channels, creator : [Channels -> Folk], config : Configs,
              puppet : [Folk -> MatrixUsers \cup {None}], names : SUBSET Names,
              moves : Nat]

ASSUME TeamMembersAssumption ==
    /\ Worlds \subseteq WorldType /\ Bot \in Folk
    /\ \A w \in Worlds : w.puppet[Bot] = None /\ Bot \notin w.folk /\ w.names # {}
    /\ None \notin Folk \cup Names \cup Objects \cup Channels \cup MatrixUsers \cup Handlers
    /\ NoRow \notin Names /\ IsFiniteSet(Handlers)

VARIABLES
    world,
    people,     \* on Slack: the members of a channel
    open,       \* on Slack: the channels there are
    closed,     \* on Slack: the channels that were deleted, for good
    gone,       \* on Slack: deleted users
    slackQueue, \* Slack's events on their way
    matrixQueue,\* events of the homeserver on their way
    bridged,    \* the channels with a BridgedRoom
    stored,     \* ... with a row in "rooms"
    active,     \* BridgedRoom.MatrixRoomActive
    ghostsIn,   \* on Matrix: the ghosts in the room of a channel
    usersIn,    \* ... its users
    botIn,      \* the rooms that the bot is in
    invited,    \* the invitations of the bridge, <<user, channel>>
    adminRoom,  \* the users with a row in "user_admin_rooms"
    adminRooms, \* on Matrix: how many admin rooms were made for a user
    toSync,     \* what the sync has listed and not yet begun
    tasks, moved,
    due,        \* history: <<user, channel>> whose joining the bridge has seen
    crossed     \* history: users and channels with two handlers that disagree

slack == <<people, open, closed, gone>>
queues == <<slackQueue, matrixQueue>>
matrix == <<ghostsIn, usersIn, botIn, invited, adminRooms>>
bridge == <<bridged, stored, active, adminRoom, toSync>>
vars == <<world, slack, queues, matrix, bridge, ghostVars, tasks, moved, due, crossed>>

SlackEvents == [type : {"joined", "left", "user", "created", "deleted", "message"},
                user : Folk \cup {None}, channel : Channels \cup {None},
                name : Names \cup {None},
                flag : BOOLEAN]     \* deleted, of a user; invited, of one who joined

MatrixEvents == [type : {"join", "leave", "botInvite", "botLeave", "botBan"},
                 user : MatrixUsers \cup {None}, channel : Channels]

Event(type, user, channel, name, flag) ==
    [type |-> type, user |-> user, channel |-> channel, name |-> name, flag |-> flag]

Pcs == {"idle", "get", "make",
        "join", "leave", "inviteUser", "inviteAs",
        "existing", "update", "save", "hide", "listRooms", "leaveRooms",
        "message", "ask", "ensure", "saveName", "send",
        "askBot", "bridge", "ensureBot", "listGhosts", "listMembers", "move",
        "unlink", "drain", "botJoin", "slackJoin", "onboard", "createAdmin", "storeAdmin"}

\* folk and rooms: what a handler has listed.
Tasks == [pc : Pcs, next : Pcs, user : Folk \cup {None}, channel : Channels \cup {None},
          name : Names \cup {None}, flag : BOOLEAN, object : Objects \cup {None},
          row : Names \cup {Unnamed, NoRow}, mx : MatrixUsers \cup {None},
          folk : SUBSET Folk, rooms : SUBSET Channels, synced : BOOLEAN]

\* synced: the sync at start-up began it.
Idle == [pc |-> "idle", next |-> "idle", user |-> None, channel |-> None, name |-> None,
         flag |-> FALSE, object |-> None, row |-> NoRow, mx |-> None,
         folk |-> {}, rooms |-> {}, synced |-> FALSE]

\* A user as users.list has him; listing: the channels are still to be listed;
\* rooms were linked, and their membership is to be synced, which nobody awaits.
Listed == [user : Folk, name : Names, deleted : BOOLEAN]

NothingToSync == [users |-> {}, channels |-> {}, rooms |-> {}, listing |-> FALSE]

TypeOK ==
    /\ world \in Worlds
    /\ people \in [Channels -> SUBSET Folk]
    /\ open \subseteq Channels /\ closed \subseteq Channels /\ gone \subseteq Folk
    /\ slackQueue \in Seq(SlackEvents) /\ matrixQueue \in Seq(MatrixEvents)
    /\ bridged \subseteq Channels /\ stored \subseteq Channels /\ active \subseteq Channels
    /\ ghostsIn \in [Channels -> SUBSET Folk]
    /\ usersIn \in [Channels -> SUBSET MatrixUsers]
    /\ botIn \subseteq Channels /\ invited \subseteq MatrixUsers \X Channels
    /\ adminRoom \subseteq MatrixUsers /\ adminRooms \in [MatrixUsers -> Nat]
    /\ toSync \in [users : SUBSET Listed, channels : SUBSET Channels,
                   rooms : SUBSET Channels, listing : BOOLEAN]
    /\ tasks \in [Handlers -> Tasks] /\ moved \in 0..world.moves
    /\ due \subseteq Folk \X Channels /\ crossed \subseteq Folk \cup Channels
    /\ GhostsTypeOK

Init ==
    /\ world \in Worlds
    /\ people = [c \in Channels |->
                    IF c \in world.linked THEN world.members \cup {Bot} ELSE {}]
    /\ open = world.linked /\ closed = {} /\ gone = {}
    /\ slackQueue = <<>> /\ matrixQueue = <<>>
    /\ bridged = world.linked /\ stored = world.linked /\ active = world.linked
    /\ ghostsIn = [c \in Channels |-> {}] /\ usersIn = [c \in Channels |-> {}]
    /\ botIn = world.linked /\ invited = {}
    /\ adminRoom = {} /\ adminRooms = [m \in MatrixUsers |-> 0]
    /\ toSync = NothingToSync
    /\ tasks = [h \in Handlers |-> Idle] /\ moved = 0
    /\ due = {} /\ crossed = {}
    /\ \E name \in world.names : GhostsInit(name)

-----------------------------------------------------------------------------
Happens(what) == what \in world.traffic
At(h, pc) == tasks[h].pc = pc
Start(h, task) == tasks' = [tasks EXCEPT ![h] = task]
To(h, pc) == Start(h, [tasks[h] EXCEPT !.pc = pc])
Done(h) == Start(h, Idle)

AllIdle == \A h \in Handlers : At(h, "idle")
Quiet == AllIdle /\ slackQueue = <<>> /\ matrixQueue = <<>> /\ toSync = NothingToSync

\* An object that nothing refers to can be made again.
Free(object) ==
    /\ \A u \in Folk : cache[u] # object
    /\ \A h \in Handlers : tasks[h].object # object

NewObject == CHOOSE o \in Objects : Free(o)
CanMake == \E o \in Objects : Free(o)

Puppet(user) == world.puppet[user]

Failing == Happens("outage")

\* Something else is under way that is about the same user, or about the same
\* channel as a whole: the two may undo each other.
CrossedBy(h, users, channel) ==
    LET tasksNow == {tasks[g] : g \in {g \in Handlers \ {h} : ~At(g, "idle")}} IN
    {u \in users \ {None} : \E t \in tasksNow : u = t.user \/ u \in t.folk}
    \cup
    {c \in {channel} \ {None} :
        \E t \in tasksNow : t.channel = c /\ None \in users \cup {t.user}}

-----------------------------------------------------------------------------
(* What users do on Slack and on Matrix *)

Moves == moved < world.moves /\ moved' = moved + 1 /\ (Happens("serial") => Quiet)

\* SUPPORTED_EVENTS of SlackEventHandler: what RTM clients listen to.
SupportedEvents == {"joined", "user", "created", "deleted", "message"}

Sent(event) ==
    slackQueue' = IF Happens("rtm") /\ event.type \notin SupportedEvents
                  THEN slackQueue ELSE Append(slackQueue, event)

Alive == world.folk \ gone

SlackUserJoins ==
    \E u \in Alive, c \in open, asked \in BOOLEAN :
        /\ Happens("slackJoin") /\ Moves /\ u \notin people[c]
        /\ people' = [people EXCEPT ![c] = @ \cup {u}]
        /\ Sent(Event("joined", u, c, None, asked))
        /\ UNCHANGED <<world, open, closed, gone, matrixQueue, matrix, bridge, ghostVars, tasks,
                       due, crossed>>

SlackUserLeaves ==
    \E c \in open : \E u \in people[c] :
        /\ Happens("slackLeave") /\ Moves
        /\ people' = [people EXCEPT ![c] = @ \ {u}]
        /\ Sent(Event("left", u, c, None, FALSE))
        /\ due' = due \ {<<u, c>>}
        /\ UNCHANGED <<world, open, closed, gone, matrixQueue, matrix, bridge, ghostVars, tasks,
                       crossed>>

SlackUserRenamed ==
    \E u \in Alive, n \in world.names :
        /\ Happens("rename") /\ Moves /\ n # slackNames[u]
        /\ slackNames' = [slackNames EXCEPT ![u] = n]
        /\ Sent(Event("user", u, None, n, FALSE))
        /\ UNCHANGED <<world, slack, matrixQueue, matrix, bridge, cache, ghosts, rows, profiles,
                       reverted, tasks, due, crossed>>

SlackUserDeleted ==
    \E u \in Alive :
        /\ Happens("deleteUser") /\ Moves
        /\ gone' = gone \cup {u}
        /\ people' = [c \in Channels |-> people[c] \ {u}]
        /\ Sent(Event("user", u, None, slackNames[u], TRUE))
        /\ due' = {d \in due : d[1] # u}
        /\ UNCHANGED <<world, open, closed, matrixQueue, matrix, bridge, ghostVars, tasks,
                       crossed>>

SlackUserRestored ==
    \E u \in gone :
        /\ Happens("restoreUser") /\ Moves
        /\ gone' = gone \ {u}
        /\ Sent(Event("user", u, None, slackNames[u], FALSE))
        /\ UNCHANGED <<world, people, open, closed, matrixQueue, matrix, bridge, ghostVars,
                       tasks, due, crossed>>

ChannelCreated ==
    \E c \in world.channels \ (open \cup closed) :
        /\ Happens("createChannel") /\ Moves /\ world.creator[c] \in Alive
        /\ open' = open \cup {c}
        /\ people' = [people EXCEPT ![c] = {world.creator[c]}]
        /\ Sent(Event("created", None, c, None, FALSE))
        /\ UNCHANGED <<world, closed, gone, matrixQueue, matrix, bridge, ghostVars, tasks, due,
                       crossed>>

\* A channel that is deleted keeps its members, and its id is not used again.
ChannelDeleted ==
    \E c \in open :
        /\ Happens("deleteChannel") /\ Moves
        /\ open' = open \ {c} /\ closed' = closed \cup {c}
        /\ Sent(Event("deleted", None, c, None, FALSE))
        /\ due' = {d \in due : d[2] # c}
        /\ UNCHANGED <<world, people, gone, matrixQueue, matrix, bridge, ghostVars, tasks,
                       crossed>>

SlackMessage ==
    \E c \in open : \E u \in people[c] \ {Bot} :
        /\ Happens("message") /\ Moves
        /\ Sent(Event("message", u, c, None, FALSE))
        /\ UNCHANGED <<world, slack, matrixQueue, matrix, bridge, ghostVars, tasks, due, crossed>>

Tell(type, user, channel) ==
    matrixQueue' = Append(matrixQueue, [type |-> type, user |-> user, channel |-> channel])

MatrixUserMoves ==
    \E m \in MatrixUsers, c \in Channels :
        /\ c \in bridged \/ usersIn[c] # {}
        /\ Moves
        /\ \/ /\ Happens("matrixJoin") /\ m \notin usersIn[c]
              /\ usersIn' = [usersIn EXCEPT ![c] = @ \cup {m}]
              /\ invited' = invited \ {<<m, c>>}
              /\ Tell("join", m, c)
           \/ /\ Happens("matrixLeave") /\ m \in usersIn[c]
              /\ usersIn' = [usersIn EXCEPT ![c] = @ \ {m}]
              /\ Tell("leave", m, c)
              /\ UNCHANGED invited
        /\ UNCHANGED <<world, slack, slackQueue, ghostsIn, botIn, adminRooms, bridge, ghostVars,
                       tasks, due, crossed>>

\* The bot is kicked, banned or invited, once at a time.
Inviting(c) ==
    \/ \E i \in DOMAIN matrixQueue : matrixQueue[i].type = "botInvite" /\ matrixQueue[i].channel = c
    \/ \E h \in Handlers : At(h, "botJoin") /\ tasks[h].channel = c

BotMoved ==
    \E c \in bridged :
        /\ Happens("bot") /\ Moves
        /\ \/ c \in botIn /\ botIn' = botIn \ {c} /\ Tell("botLeave", None, c)
           \/ c \in botIn /\ botIn' = botIn \ {c} /\ Tell("botBan", None, c)
           \/ c \notin botIn /\ ~Inviting(c) /\ Tell("botInvite", None, c) /\ UNCHANGED botIn
        /\ UNCHANGED <<world, slack, slackQueue, ghostsIn, usersIn, invited, adminRooms, bridge,
                       ghostVars, tasks, due, crossed>>

-----------------------------------------------------------------------------
(* SlackGhostStore.get, on the way to what a handler wants the ghost for *)

LookGhost(h) ==
    LET task == tasks[h] IN
    /\ At(h, "get")
    /\ Start(h, [task EXCEPT !.pc = IF cache[task.user] # None THEN task.next ELSE "make",
                             !.object = cache[task.user], !.row = rows[task.user]])
    /\ UNCHANGED <<world, slack, queues, matrix, bridge, ghostVars, moved, due, crossed>>

GetGhost(h) ==
    LET task == tasks[h] IN
    /\ At(h, "make") /\ CanMake
    /\ MakeGhost(task.user, task.row, NewObject)
    /\ Start(h, [task EXCEPT !.pc = task.next, !.object = NewObject])
    /\ UNCHANGED <<world, slack, queues, matrix, bridge, moved, due, crossed>>

-----------------------------------------------------------------------------
(* Calls to Slack and to the homeserver that fail *)

\* Where one failed call ends the handler; what other calls that fail leave is
\* said at their actions.
Calls == {"make", "join", "inviteAs", "inviteUser", "leave", "send", "update", "hide",
          "listRooms", "listGhosts", "listMembers", "botJoin", "slackJoin", "createAdmin"}

\* syncUser on its way to give the user a name, or to take him out of his rooms:
\* nothing makes up for it.
Syncing(task) ==
    \/ task.pc \in {"hide", "listRooms"}
    \/ task.pc = "make" /\ task.next = "update"
    \/ task.pc = "update" /\ ghosts[task.object].name # task.name

\* Whose ghost it was to bring into the room, or by listing who is to be there.
Joining(task, d) ==
    /\ d[2] = task.channel
    /\ \/ "join" \in {task.pc, task.next} /\ d[1] = task.user
       \/ task.pc \in {"listGhosts", "listMembers"} /\ d[1] \notin ghostsIn[task.channel]

CallFails(h) ==
    LET task == tasks[h] IN
    /\ Failing /\ task.pc \in Calls /\ task.next # "bridge"
    /\ Done(h)
    /\ due' = {d \in due : ~Joining(task, d)}
    /\ crossed' = IF Syncing(task) THEN crossed \cup {task.user} ELSE crossed
    /\ UNCHANGED <<world, slack, queues, matrix, bridge, ghostVars, moved>>

-----------------------------------------------------------------------------
(* Events of members *)

\* A mutant: a ghost joins on its own only.
WayInUnasked(user, asked) == IF Puppet(user) = None /\ ~asked THEN "join" ELSE "inviteUser"

\* Joining is for the ghost of who has no puppet; who has one is invited, by his
\* own ghost, which joins for that, if somebody on Slack asked him in, and by
\* the bot otherwise.
WayIn(user, asked) ==
    IF Puppet(user) = None THEN "join" ELSE IF asked THEN "inviteAs" ELSE "inviteUser"

\* Whose ghost is to be in the rooms: there is no one on Matrix in his place.
Expected(user) == Puppet(user) = None /\ user # Bot

\* handleMemberJoinedChannel: the bridge's bot is never reflected.
HandleJoined(h, e) ==
    IF e.channel \in bridged /\ e.user # Bot
    THEN /\ Start(h, [Idle EXCEPT !.pc = "get", !.next = WayIn(e.user, e.flag),
                                  !.user = e.user, !.channel = e.channel])
         /\ due' = IF Expected(e.user) /\ e.user \in people[e.channel] /\ e.channel \in open
                   THEN due \cup {<<e.user, e.channel>>} ELSE due
    ELSE UNCHANGED <<tasks, due>>

\* handleMemberLeftChannel
HandleLeft(h, e) ==
    /\ IF e.channel \in bridged
       THEN Start(h, [Idle EXCEPT !.pc = "get", !.next = "leave", !.user = e.user,
                                  !.channel = e.channel])
       ELSE UNCHANGED tasks
    /\ UNCHANGED due

\* handleMessageEvent, up to BridgedRoom.onSlackMessage.
HandleMessage(h, e) ==
    /\ IF e.channel \in bridged
       THEN Start(h, [Idle EXCEPT !.pc = "get", !.next = "message", !.user = e.user,
                                  !.channel = e.channel])
       ELSE UNCHANGED tasks
    /\ UNCHANGED due

GhostJoins(h) ==
    LET task == tasks[h] IN
    /\ \/ At(h, "join") /\ UNCHANGED invited
       \/ /\ At(h, "inviteAs")
          /\ invited' = invited \cup ({<<Puppet(task.user), task.channel>>}
                                        \ (usersIn[task.channel] \X {task.channel}))
    /\ ghostsIn' = [ghostsIn EXCEPT ![task.channel] = @ \cup {task.user}]
    /\ Done(h)
    /\ UNCHANGED <<world, slack, queues, usersIn, botIn, adminRooms, bridge, ghostVars, moved,
                   due, crossed>>

\* The homeserver refuses to invite who is in the room, or a bot that is not.
BotInvites(h) ==
    LET task == tasks[h] IN
    /\ At(h, "inviteUser")
    /\ invited' = IF task.channel \in botIn /\ Puppet(task.user) \notin usersIn[task.channel]
                  THEN invited \cup {<<Puppet(task.user), task.channel>>} ELSE invited
    /\ Done(h)
    /\ UNCHANGED <<world, slack, queues, ghostsIn, usersIn, botIn, adminRooms, bridge, ghostVars,
                   moved, due, crossed>>

GhostLeaves(h) ==
    LET task == tasks[h] IN
    /\ At(h, "leave")
    /\ ghostsIn' = [ghostsIn EXCEPT ![task.channel] = @ \ {task.user}]
    /\ Done(h)
    /\ UNCHANGED <<world, slack, queues, usersIn, botIn, invited, adminRooms, bridge, ghostVars,
                   moved, due, crossed>>

-----------------------------------------------------------------------------
(* BridgedRoom.onSlackMessage *)

LookUpdate(h) ==
    LET task == tasks[h]
        o == task.object
    IN
    /\ At(h, "message")
    /\ IF Skips(o)
       THEN To(h, "send") /\ UNCHANGED ghostVars
       ELSE /\ BeginUpdate(o)
            /\ Start(h, [task EXCEPT !.pc = IF ghosts[o].info = None THEN "ask" ELSE "ensure",
                                     !.name = ghosts[o].info])
    /\ UNCHANGED <<world, slack, queues, matrix, bridge, moved, due, crossed>>

AskSlack(h) ==
    LET task == tasks[h] IN
    /\ At(h, "ask")
    /\ \/ /\ Answered(task.user, task.object)
          /\ Start(h, [task EXCEPT !.pc = "ensure", !.name = slackNames[task.user]])
       \/ Failing /\ NotAnswered(task.object) /\ To(h, "send")
    /\ UNCHANGED <<world, slack, queues, matrix, bridge, moved, due, crossed>>

\* A profile that is not written is logged, and the message goes on.
WriteProfile(h) ==
    /\ At(h, "ensure")
    /\ \/ EnsureProfile(tasks[h].user, tasks[h].name) /\ To(h, "saveName")
       \/ Failing /\ EndUpdate(tasks[h].object) /\ To(h, "send")
    /\ UNCHANGED <<world, slack, queues, matrix, bridge, moved, due, crossed>>

SaveName(h) ==
    LET task == tasks[h] IN
    /\ \/ At(h, "saveName") /\ To(h, "send")
       \/ At(h, "save") /\ Done(h)
    /\ SaveGhost(task.user, task.object, task.name, task.pc = "saveName")
    /\ UNCHANGED <<world, slack, queues, matrix, bridge, moved, due, crossed>>

\* The message is sent by the ghost, which joins for it if it is not there.
SendMessage(h) ==
    LET task == tasks[h] IN
    /\ At(h, "send")
    /\ ghostsIn' = [ghostsIn EXCEPT ![task.channel] = @ \cup {task.user}]
    /\ Done(h)
    /\ UNCHANGED <<world, slack, queues, usersIn, botIn, invited, adminRooms, bridge, ghostVars,
                   moved, due, crossed>>

-----------------------------------------------------------------------------
(* TeamSyncer: users *)

\* handleTeamSyncEvent hands the event's user to syncUser, as a sync does with
\* each user listed.
SyncUser(user, name, deleted) ==
    [Idle EXCEPT !.pc = "existing", !.user = user, !.name = name, !.flag = deleted]

\* An own object if there is a row, else one of the cache. A deleted user who
\* was never seen is left alone.
FindExisting(h) ==
    LET task == tasks[h] IN
    /\ At(h, "existing")
    /\ IF rows[task.user] = NoRow
       THEN /\ IF task.flag
               THEN Done(h)
               ELSE Start(h, [task EXCEPT !.pc = "get", !.next = "update"])
            /\ UNCHANGED ghostVars
       ELSE /\ CanMake /\ ExistingGhost(task.user, NewObject)
            /\ Start(h, [task EXCEPT !.pc = IF task.flag THEN "hide" ELSE "update",
                                     !.object = NewObject])
    /\ UNCHANGED <<world, slack, queues, matrix, bridge, moved, due, crossed>>

\* The name first, then the avatar, then the row, in SaveName.
UpdateUser(h) ==
    LET task == tasks[h] IN
    /\ At(h, "update")
    /\ IF ghosts[task.object].name # task.name
       THEN SetDisplayName(task.user, task.name) /\ To(h, "save")
       ELSE Done(h) /\ UNCHANGED ghostVars
    /\ UNCHANGED <<world, slack, queues, matrix, bridge, moved, due, crossed>>

\* The avatar fails: the row is not written.
AvatarFails(h) ==
    LET task == tasks[h] IN
    /\ Failing /\ At(h, "save")
    /\ NameGhost(task.object, task.name)
    /\ Done(h)
    /\ crossed' = crossed \cup {task.user}
    /\ UNCHANGED <<world, slack, queues, matrix, bridge, moved, due>>

HideUser(h) ==
    /\ At(h, "hide")
    /\ SetDisplayName(tasks[h].user, Deleted)
    /\ To(h, "listRooms")
    /\ UNCHANGED <<world, slack, queues, matrix, bridge, moved, due, crossed>>

\* A mutant: only the rooms the bot is in.
RoomsOfActive(user) == {c \in active : user \in ghostsIn[c]}

\* getTeamRoomsForSlackGhost
RoomsOf(user) == {c \in bridged : user \in ghostsIn[c]}

ListRooms(h) ==
    /\ At(h, "listRooms")
    /\ Start(h, [tasks[h] EXCEPT !.pc = "leaveRooms", !.rooms = RoomsOf(tasks[h].user)])
    /\ UNCHANGED <<world, slack, queues, matrix, bridge, ghostVars, moved, due, crossed>>

\* A room it fails to leave is skipped.
LeaveRooms(h) ==
    LET task == tasks[h] IN
    /\ At(h, "leaveRooms")
    /\ \E left \in SUBSET task.rooms :
          /\ left = task.rooms \/ Failing
          /\ ghostsIn' = [c \in Channels |-> IF c \in left THEN ghostsIn[c] \ {task.user}
                                             ELSE ghostsIn[c]]
          /\ crossed' = IF left = task.rooms THEN crossed ELSE crossed \cup {task.user}
    /\ Done(h)
    /\ UNCHANGED <<world, slack, queues, usersIn, botIn, invited, adminRooms, bridge, ghostVars,
                   moved, due>>

-----------------------------------------------------------------------------
(* TeamSyncer: channels *)

\* AllowDenyList.allowSlackChannel
ListAllows(c) ==
    LET config == world.config IN
    (config.allow = {} \/ c \in config.allow) /\ c \notin config.deny

\* getTeamSyncConfig: the blacklist goes before the whitelist.
SyncAllows(c, private) ==
    LET config == world.config IN
    /\ IF private THEN config.private ELSE config.public
    /\ c \notin config.blacklist
    /\ config.whitelist = {} \/ c \in config.whitelist

\* A mutant: the deletion of a channel is asked for as if it were private.
SyncAllowsDeletionPrivate(c) == SyncAllows(c, TRUE)

\* onChannelDeleted does not say what the channel was: it is taken for public.
SyncAllowsDeletion(c) == SyncAllows(c, FALSE)

\* syncChannel; the membership is synced for every channel.
SyncChannel(c) ==
    IF SyncAllows(c, c \in world.hidden) /\ ListAllows(c)
    THEN IF c \in bridged
         THEN [Idle EXCEPT !.pc = "ensureBot", !.channel = c]
         ELSE [Idle EXCEPT !.pc = "askBot", !.next = "bridge", !.user = world.creator[c],
                           !.channel = c]
    ELSE Idle

\* bridgeChannelToNewRoom: a creator who is a puppet invites the bot.
AskBotIn(h) ==
    LET c == tasks[h].channel IN
    /\ At(h, "askBot")
    /\ \/ people' = IF c \in open /\ Puppet(world.creator[c]) # None
                    THEN [people EXCEPT ![c] = @ \cup {Bot}] ELSE people
       \/ Failing /\ people' = people
    /\ To(h, "get")
    /\ UNCHANGED <<world, open, closed, gone, queues, matrix, bridge, ghostVars, moved, due,
                   crossed>>

\* createRoomForChannel takes the bot where there is no ghost of the creator.
NoCreator(h) ==
    /\ Failing /\ At(h, "make") /\ tasks[h].next = "bridge"
    /\ Start(h, [tasks[h] EXCEPT !.pc = "bridge", !.user = None])
    /\ UNCHANGED <<world, slack, queues, matrix, bridge, ghostVars, moved, due, crossed>>

\* The creator's ghost makes the room, and is in it; who is a puppet in a
\* private channel is invited, and the room is linked. Nothing tells the ghost
\* of a creator who is gone to leave. A room that is not linked, for a failed
\* call or because the channel has one by now, is left behind.
BridgeChannel(h) ==
    LET c == tasks[h].channel
        creator == {tasks[h].user} \ {None}
        puppets == {Puppet(u) : u \in people[c]} \ ({None} \cup usersIn[c])
    IN
    /\ At(h, "bridge")
    /\ \/ /\ c \notin bridged
          /\ bridged' = bridged \cup {c} /\ stored' = stored \cup {c}
          /\ active' = active \cup {c} /\ botIn' = botIn \cup {c}
          /\ ghostsIn' = [ghostsIn EXCEPT ![c] = @ \cup creator]
          /\ invited' = IF c \in world.hidden THEN invited \cup (puppets \X {c}) ELSE invited
          /\ toSync' = [toSync EXCEPT !.rooms = @ \cup {c}]
          /\ crossed' = crossed \cup (creator \cap gone)
          /\ Start(h, [Idle EXCEPT !.pc = "ensureBot", !.channel = c])
       \/ /\ c \in bridged \/ Failing
          /\ Done(h)
          /\ UNCHANGED <<bridged, stored, active, botIn, ghostsIn, invited, toSync, crossed>>
    /\ UNCHANGED <<world, slack, queues, usersIn, adminRooms, adminRoom, ghostVars, moved, due>>

\* ensureBotInChannel: in a public channel, a member who has a puppet invites
\* the bot.
EnsureBot(h) ==
    LET c == tasks[h].channel IN
    /\ At(h, "ensureBot")
    /\ \/ people' = IF c \in open \ world.hidden /\ \E u \in people[c] : Puppet(u) # None
                    THEN [people EXCEPT ![c] = @ \cup {Bot}] ELSE people
       \/ Failing /\ people' = people
    /\ To(h, "listGhosts")
    /\ UNCHANGED <<world, open, closed, gone, queues, matrix, bridge, ghostVars, moved, due,
                   crossed>>

\* syncMembershipForRoom: the ghosts there are, and then the members.
ListGhosts(h) ==
    LET task == tasks[h] IN
    /\ At(h, "listGhosts")
    /\ Start(h, [task EXCEPT !.pc = "listMembers", !.folk = ghostsIn[task.channel]])
    /\ UNCHANGED <<world, slack, queues, matrix, bridge, ghostVars, moved, due, crossed>>

\* The members who are listed as ghosts leave, the others join, the bot's own
\* user too; get makes the rows that are missing.
ListMembers(h) ==
    LET task == tasks[h]
        there == task.folk \cap people[task.channel]
        joining == people[task.channel] \ task.folk
    IN
    /\ At(h, "listMembers")
    /\ Start(h, [task EXCEPT !.pc = "move", !.folk = joining])
    /\ \E left \in SUBSET there :
          /\ left = there \/ Failing
          /\ ghostsIn' = [ghostsIn EXCEPT ![task.channel] = @ \ left]
    /\ rows' = [u \in Folk |-> IF u \in people[task.channel] /\ rows[u] = NoRow
                               THEN Unnamed ELSE rows[u]]
    /\ due' = (due \ (there \X {task.channel}))
                \cup {<<u, task.channel>> : u \in
                        IF task.channel \in open \cap bridged
                        THEN {u \in joining : Expected(u)} ELSE {}}
    /\ UNCHANGED <<world, slack, queues, usersIn, botIn, invited, adminRooms, bridge, slackNames,
                   cache, ghosts, profiles, reverted, moved, crossed>>

\* Who fails to join is left out.
MoveMembers(h) ==
    LET task == tasks[h] IN
    /\ At(h, "move")
    /\ \E joined \in SUBSET task.folk :
          /\ joined = task.folk \/ Failing
          /\ ghostsIn' = [ghostsIn EXCEPT ![task.channel] = @ \cup joined]
          /\ due' = due \ ((task.folk \ joined) \X {task.channel})
    /\ Done(h)
    /\ UNCHANGED <<world, slack, queues, usersIn, botIn, invited, adminRooms, bridge, ghostVars,
                   moved, crossed>>

HandleDeleted(h, e) ==
    /\ IF SyncAllowsDeletion(e.channel) /\ e.channel \in bridged
       THEN Start(h, [Idle EXCEPT !.pc = "unlink", !.channel = e.channel])
       ELSE UNCHANGED tasks
    /\ UNCHANGED due

\* The room is told first; then actionUnlink, if it is still there.
UnlinkDeleted(h) ==
    LET c == tasks[h].channel IN
    /\ At(h, "unlink")
    /\ bridged' = bridged \ {c} /\ active' = active \ {c}
    /\ To(h, "drain")
    /\ due' = {d \in due : d[2] # c}
    /\ UNCHANGED <<world, slack, queues, matrix, stored, adminRoom, toSync, ghostVars, moved,
                   crossed>>

\* The ghosts that are listed leave, and the bot, each or not, and the row is
\* deleted; if they cannot be listed, it is kept.
DrainRoom(h) ==
    LET c == tasks[h].channel IN
    /\ At(h, "drain")
    /\ \/ \E left \in SUBSET ghostsIn[c], botLeft \in BOOLEAN :
             /\ (left = ghostsIn[c] /\ botLeft) \/ Failing
             /\ ghostsIn' = [ghostsIn EXCEPT ![c] = @ \ left]
             /\ botIn' = IF botLeft THEN botIn \ {c} ELSE botIn
             /\ stored' = stored \ {c}
             /\ crossed' = IF left = ghostsIn[c] THEN crossed ELSE crossed \cup {c}
       \/ /\ Failing
          /\ crossed' = crossed \cup {c}
          /\ UNCHANGED <<ghostsIn, botIn, stored>>
    /\ Done(h)
    /\ UNCHANGED <<world, slack, queues, usersIn, invited, adminRooms, bridged, active, adminRoom,
                   toSync, ghostVars, moved, due>>

-----------------------------------------------------------------------------
(* Main.handleMatrixMembership *)

\* A mutant: a ban is not a way of leaving.
BotLeavesOnly == {"botLeave"}

BotLeaves == {"botLeave", "botBan"}

HandleMatrix(h) ==
    LET e == Head(matrixQueue) IN
    /\ matrixQueue # <<>> /\ At(h, "idle")
    /\ matrixQueue' = Tail(matrixQueue)
    /\ CASE e.type = "botInvite" ->
                Start(h, [Idle EXCEPT !.pc = "botJoin", !.channel = e.channel])
         [] e.type = "join" /\ e.channel \in bridged ->
                Start(h, [Idle EXCEPT !.pc = "slackJoin", !.channel = e.channel, !.mx = e.user])
         [] OTHER -> UNCHANGED tasks
    /\ active' = IF e.type \in BotLeaves THEN active \ {e.channel} ELSE active
    /\ crossed' = IF /\ e.type \in BotLeaves
                     /\ \E g \in Handlers : At(g, "botJoin") /\ tasks[g].channel = e.channel
                  THEN crossed \cup {e.channel} ELSE crossed
    /\ UNCHANGED <<world, slack, slackQueue, matrix, bridged, stored, adminRoom, toSync,
                   ghostVars, moved, due>>

\* Every invitation is accepted.
BotJoins(h) ==
    LET c == tasks[h].channel IN
    /\ At(h, "botJoin")
    /\ botIn' = botIn \cup {c}
    /\ active' = IF c \in bridged THEN active \cup {c} ELSE active
    /\ Done(h)
    /\ UNCHANGED <<world, slack, queues, ghostsIn, usersIn, invited, adminRooms, bridged,
                   stored, adminRoom, toSync, ghostVars, moved, due, crossed>>

\* onMatrixJoin: a puppet joins the channel, and Slack says so to the bridge.
\* onMatrixLeave names the team for the channel, and Slack refuses.
PuppetJoins(h) ==
    LET task == tasks[h]
        puppets == {u \in world.folk \ gone : Puppet(u) = task.mx}
        joining == {u \in puppets : task.channel \in open /\ u \notin people[task.channel]}
    IN
    /\ At(h, "slackJoin")
    /\ people' = [people EXCEPT ![task.channel] = @ \cup joining]
    /\ IF joining = {} THEN UNCHANGED slackQueue
       ELSE \E u \in joining : Sent(Event("joined", u, task.channel, None, FALSE))
    /\ IF puppets = {} THEN To(h, "onboard") ELSE Done(h)
    /\ UNCHANGED <<world, open, closed, gone, matrixQueue, matrix, bridge, ghostVars, moved,
                   due, crossed>>

\* A mutant: nobody looks whether the user has an admin room.
NewHereAlways(m) == TRUE

NewHere(m) == m \notin adminRoom

Onboard(h) ==
    /\ At(h, "onboard")
    /\ IF NewHere(tasks[h].mx) THEN To(h, "createAdmin") ELSE Done(h)
    /\ UNCHANGED <<world, slack, queues, matrix, bridge, ghostVars, moved, due, crossed>>

\* inviteAndCreateAdminRoom
CreateAdminRoom(h) ==
    /\ At(h, "createAdmin")
    /\ adminRooms' = [adminRooms EXCEPT ![tasks[h].mx] = @ + 1]
    /\ To(h, "storeAdmin")
    /\ UNCHANGED <<world, slack, queues, ghostsIn, usersIn, botIn, invited, bridge, ghostVars,
                   moved, due, crossed>>

\* setUserAdminRoom, which replaces what was there.
StoreAdminRoom(h) ==
    /\ At(h, "storeAdmin")
    /\ adminRoom' = adminRoom \cup {tasks[h].mx}
    /\ Done(h)
    /\ UNCHANGED <<world, slack, queues, matrix, bridged, stored, active, toSync, ghostVars,
                   moved, due, crossed>>

-----------------------------------------------------------------------------
\* onChannelAdded asks for the channel, and fails if it is gone.
HandleCreated(h, e) ==
    /\ IF e.channel \in open THEN Start(h, SyncChannel(e.channel)) ELSE UNCHANGED tasks
    /\ UNCHANGED due

HandleUser(h, e) ==
    /\ Start(h, SyncUser(e.user, e.name, e.flag))
    /\ UNCHANGED due

\* The users an event is about: a channel's creator will make its room.
Users(e) == {e.user} \cup IF e.type = "created" THEN {world.creator[e.channel]} ELSE {}

\* What an event is about and a sync has listed before.
Awaited(e) ==
    (Users(e) \cup {e.channel}) \cap ({u.user : u \in toSync.users} \cup toSync.channels
                                \cup toSync.rooms)

\* SlackEventHandler.handleEvent
HandleSlack(h) ==
    LET e == Head(slackQueue) IN
    /\ slackQueue # <<>> /\ At(h, "idle")
    /\ slackQueue' = Tail(slackQueue)
    /\ CASE e.type = "joined"  -> HandleJoined(h, e)
         [] e.type = "left"    -> HandleLeft(h, e)
         [] e.type = "message" -> HandleMessage(h, e)
         [] e.type = "user"    -> HandleUser(h, e)
         [] e.type = "created" -> HandleCreated(h, e)
         [] e.type = "deleted" -> HandleDeleted(h, e)
    /\ crossed' = crossed \cup CrossedBy(h, Users(e), e.channel) \cup Awaited(e)
    /\ UNCHANGED <<world, slack, matrixQueue, matrix, bridge, ghostVars, moved>>

-----------------------------------------------------------------------------
(* The sync at start-up: users, and when they are done, channels *)

\* The process starts again, loads its rooms and lists the users. Slack sends
\* events again that no server took; what goes over RTM is lost. What was lost
\* or cut short about a channel is remembered, and whose name is on Matrix and
\* not in the table: the sync does not make up for these. Nor does it for any
\* user whose handling was cut short or still to come, if nobody can be listed.
Restart ==
    LET lost == IF Happens("rtm") THEN {slackQueue[i] : i \in DOMAIN slackQueue} ELSE {}
        ended == {tasks[h] : h \in Handlers}
        all == {[user |-> u, name |-> slackNames[u], deleted |-> u \in gone] : u \in world.folk}
    IN
    /\ Happens("restart") /\ Moves
    /\ \E users \in {all, {}} :
          /\ users = all \/ Failing
          /\ toSync' = [users |-> users, channels |-> {}, rooms |-> {}, listing |-> TRUE]
          /\ crossed' = (crossed
               \cup {t.channel : t \in ended}
               \cup {t.user : t \in {t \in ended : users # all \/ t.pc \in {"save", "saveName"}}}
               \cup {e.channel : e \in lost}
               \cup {e.user : e \in {e \in lost \cup toSync.users : users # all}}) \ {None}
    /\ slackQueue' = IF Happens("rtm") THEN <<>> ELSE slackQueue
    /\ tasks' = [h \in Handlers |-> Idle]
    /\ cache' = [u \in Folk |-> None]
    /\ ghosts' = [o \in Objects |-> FreshGhost]
    /\ bridged' = stored /\ active' = stored \cap botIn
    /\ UNCHANGED <<world, slack, matrixQueue, matrix, stored, adminRoom, slackNames, rows,
                   profiles, reverted, due>>

\* conversations.list, of the types that the configuration syncs.
ListChannels ==
    LET config == world.config
        all == {c \in open : IF c \in world.hidden THEN config.private ELSE config.public}
    IN
    /\ toSync.listing /\ toSync.users = {}
    /\ \A h \in Handlers : ~tasks[h].synced
    /\ \E channels \in {all, {}} :
          /\ channels = all \/ Failing
          /\ toSync' = [toSync EXCEPT !.listing = FALSE, !.channels = channels]
    /\ UNCHANGED <<world, slack, queues, matrix, bridged, stored, active, adminRoom, ghostVars,
                   tasks, moved, due, crossed>>

SyncsUser(h) ==
    \E listed \in toSync.users :
        /\ At(h, "idle")
        /\ toSync' = [toSync EXCEPT !.users = @ \ {listed}]
        /\ Start(h, [SyncUser(listed.user, listed.name, listed.deleted) EXCEPT !.synced = TRUE])
        /\ crossed' = crossed \cup CrossedBy(h, {listed.user}, None)
        /\ UNCHANGED <<world, slack, queues, matrix, bridged, stored, active, adminRoom, ghostVars,
                       moved, due>>

SyncsChannel(h) ==
    \E c \in toSync.channels :
        /\ At(h, "idle")
        /\ toSync' = [toSync EXCEPT !.channels = @ \ {c}]
        /\ Start(h, SyncChannel(c))
        /\ crossed' = crossed \cup CrossedBy(h, {None, world.creator[c]}, c)
        /\ UNCHANGED <<world, slack, queues, matrix, bridged, stored, active, adminRoom, ghostVars,
                       moved, due>>

\* What actionLink starts: a sync of the membership besides that of syncChannel.
SyncsRoom(h) ==
    \E c \in toSync.rooms :
        /\ At(h, "idle")
        /\ toSync' = [toSync EXCEPT !.rooms = @ \ {c}]
        /\ Start(h, [Idle EXCEPT !.pc = "listGhosts", !.channel = c])
        /\ UNCHANGED <<world, slack, queues, matrix, bridged, stored, active, adminRoom, ghostVars,
                       moved, due, crossed>>

-----------------------------------------------------------------------------
\* A message that comes ten minutes after the last look-up.
Forgets ==
    /\ Happens("expiry")
    /\ \E o \in Objects : InfoExpires(o)
    /\ UNCHANGED <<world, slack, queues, matrix, bridge, tasks, moved, due, crossed>>

Outside ==
    \/ SlackUserJoins \/ SlackUserLeaves \/ SlackUserRenamed \/ SlackUserDeleted
    \/ SlackUserRestored \/ ChannelCreated \/ ChannelDeleted \/ SlackMessage
    \/ MatrixUserMoves \/ BotMoved \/ Restart

Begins(h) == HandleSlack(h) \/ HandleMatrix(h) \/ SyncsUser(h) \/ SyncsChannel(h) \/ SyncsRoom(h)

Continues(h) ==
    \/ LookGhost(h) \/ GetGhost(h) \/ CallFails(h)
    \/ GhostJoins(h) \/ BotInvites(h) \/ GhostLeaves(h)
    \/ LookUpdate(h) \/ AskSlack(h) \/ WriteProfile(h) \/ SaveName(h) \/ SendMessage(h)
    \/ FindExisting(h) \/ UpdateUser(h) \/ AvatarFails(h)
    \/ HideUser(h) \/ ListRooms(h) \/ LeaveRooms(h)
    \/ AskBotIn(h) \/ NoCreator(h) \/ BridgeChannel(h)
    \/ EnsureBot(h) \/ ListGhosts(h) \/ ListMembers(h) \/ MoveMembers(h)
    \/ UnlinkDeleted(h) \/ DrainRoom(h)
    \/ BotJoins(h) \/ PuppetJoins(h) \/ Onboard(h) \/ CreateAdminRoom(h) \/ StoreAdminRoom(h)

Next ==
    \/ Outside \/ ListChannels \/ Forgets
    \/ \E h \in Handlers : Begins(h) \/ Continues(h)

Spec == Init /\ [][Next]_vars

-----------------------------------------------------------------------------
\* At rest a ghost is called what its user is called on Slack, in the table as
\* on Matrix, or has never been named. A user who was deleted and restored
\* under his old name stays "Deleted User", for the row hides the change; a name
\* that the homeserver or the avatar step refused is not tried again; a
\* message may give an old name out of the cache; and handlers that overlap
\* may leave either name.
NamesFollow ==
    Quiet => \A u \in world.folk \ (gone \cup crossed \cup reverted) :
        \/ rows[u] \in {NoRow, Unnamed} /\ profiles[u] \in {Unnamed, Deleted}
        \/ rows[u] = slackNames[u] /\ profiles[u] \in {slackNames[u], Deleted}

\* At rest the members whose joining the bridge has taken up are in the room,
\* unless the call for it failed. A sync takes those out whom it finds there,
\* which ends what is due: MembersIn is what it breaks.
MembersPresent ==
    Quiet => \A d \in due :
        d[1] \in crossed \/ d[2] \in crossed \/ (d[2] \in bridged /\ d[1] \in ghostsIn[d[2]])

\* At rest a channel that was unlinked has no ghosts left in its room, and a
\* deleted user has no ghost in a bridged one, but for those who failed to leave.
RoomsClean ==
    Quiet => \A c \in Channels \ crossed :
        IF c \in bridged
        THEN (ghostsIn[c] \cap gone) \subseteq crossed
        ELSE ghostsIn[c] = {}

\* At rest no channel that is deleted on Slack is bridged, where public
\* channels are synced: its deletion is not told from a public one's.
DeletedUnlinked ==
    LET config == world.config IN
    Quiet /\ config.public => \A c \in bridged \ (open \cup crossed) :
        c \in config.blacklist \/ (config.whitelist # {} /\ c \notin config.whitelist)

\* Said of the sync, and not so: at rest all members of a channel are in its
\* room. syncMembershipForRoom takes out those it finds there.
MembersIn ==
    Quiet => \A c \in bridged \cap open : {u \in people[c] : Expected(u)} \subseteq ghostsIn[c]

\* At rest messages of Slack go to the rooms that the bot is in, and no other.
ActiveWhenIn ==
    Quiet => \A c \in bridged \ crossed : c \in active <=> c \in botIn

\* A user is given one admin room, and by joins that overlap no more than there
\* are handlers.
OneAdminRoom ==
    Happens("restart") \/ \A m \in MatrixUsers :
        adminRooms[m] <= IF Happens("serial") THEN 1 ELSE Cardinality(Handlers)
=============================================================================
