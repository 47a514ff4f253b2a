------------------------------ MODULE Accounts ------------------------------
(***************************************************************************)
(* How Matrix users link Slack accounts to the bridge and take them back,  *)
(* and what the bridge holds for them: login links and the callback of     *)
(* /authorize (OAuth2, SlackHookHandler.handleAuthorize), the tables of    *)
(* teams, linked accounts and puppets (PgDatastore), logging in and out    *)
(* (Main.setUserAccessToken, logoutAccount), the clients of teams and      *)
(* puppets (SlackClientFactory), their RTM connections (SlackRTMHandler),  *)
(* and the start-up that makes them again (Main.run). Requests come from   *)
(* the admin room of a user (UserAdminRoom) or the Provisioner.            *)
(*                                                                         *)
(* As in RoomLinks, a handler is a task with a pc, an action is what it    *)
(* does between two awaits, and two reads in a row are taken together. A   *)
(* login yields one user token and, unless it is for puppeting, one bot    *)
(* token; a token is named by the link it came from.                       *)
(*                                                                         *)
(* Abstracted: a bridged room is its team (the rest is RoomLinks), HTTP,   *)
(* the texts of answers, domains, scopes and bot ids.                      *)
(***************************************************************************)
EXTENDS Naturals, FiniteSets

CONSTANTS
    Users,          \* Matrix users
    Teams,          \* Slack teams
    SlackUsers,     \* names of Slack users, each in every team
    MatrixRoomIds,  \* Matrix rooms
    Handlers,       \* handler invocations that can be in flight at once
    Links,          \* login links, each good for one token; bounds the logins
    TeamLimit,      \* provisioning.limits.team_count
    RoomLimit,      \* provisioning.limits.room_count
    Worlds,         \* what the environment may be, a set of WorldType
    None

Events == {"login",       \* log in for a bot token
           "puppet",      \* ... or for puppeting
           "logout", "link", "unlink", "use", "expire",
           "uninstall",   \* a team removes the app: its tokens are dead
           "outage",      \* a call to Slack fails although the token is good
           "revokeFails", "restart",
           "block",       \* the limit on active users is passed, or not any more
           "serial"}      \* one request at a time

SlackIds == Teams \X SlackUsers
TeamOf(slack) == slack[1]

\* The keys of the maps of puppets: <team>:<Matrix user>.
Keys == Users \X Teams

\* What happens, and whom it is about.
WorldType == [traffic : SUBSET Events, slack : SUBSET SlackIds,
              users : SUBSET Users, rooms : SUBSET MatrixRoomIds,
              logins : Nat]

ASSUME AccountsAssumption ==
    /\ Worlds \subseteq WorldType
    /\ TeamLimit \in Nat /\ RoomLimit \in Nat
    /\ None \notin Users \cup Teams \cup SlackIds \cup Links \cup MatrixRoomIds \cup Handlers

\* A process has finitely many handlers under way, and takes requests.
ASSUME HandlersAssumption == IsFiniteSet(Handlers) /\ Handlers # {}

VARIABLES
    world,
    waiting,        \* OAuth2.userTokensWaiting: who asked for the link
    issued,         \* the links made so far: uuids are not made twice
    grants,         \* on Slack: the account that the link's tokens are for
    dead,           \* on Slack: the user tokens that are revoked ...
    deadBots,       \* ... and the bot tokens
    teams,          \* the "teams" table
    accounts,       \* the "linked_accounts" table
    puppets,        \* the "puppets" table
    rooms,          \* the bridged rooms, by the team of their channel
    teamClients,    \* SlackClientFactory.teamClients: the token of the client
    puppetClients,  \* SlackClientFactory.puppets
    rtmUsers,       \* SlackRTMHandler.rtmUserClients
    rtmTeams,       \* SlackRTMHandler.rtmTeamClients
    open,           \* the tokens with an open user connection
    streams,        \* how many connections listen to a team
    gate,           \* whether the bridge is blocked, or was once
    starting,       \* what start-up has read and not yet started
    tasks,          \* the handlers in flight
    last,           \* history: the bot token a team was last given
    loose,          \* history: tokens that no account has, never revoked
    raced,          \* history: teams changed under a handler that uses them
    again,          \* history: puppets that logged in again in this process
    strayed         \* history: the bridge was blocked under a handler that connects

oauth == <<waiting, issued, grants>>
slack == <<dead, deadBots>>
tables == <<teams, accounts, puppets, rooms>>
clients == <<teamClients, puppetClients>>
rtm == <<rtmUsers, rtmTeams, open, streams, gate>>
history == <<last, loose, raced, again, strayed>>
vars == <<world, oauth, slack, tables, clients, rtm, starting, tasks, history>>

NoTeam == [status |-> "none", token |-> None]
TeamRows == [status : {"ok", "bad_auth"}, token : Links]
AccountRows == [user : Users, slack : SlackIds, token : Links]

\* by: the handler whose promise it is, until that is settled.
NoStream == [by |-> None, ok |-> FALSE]
RtmTeams == [by : Handlers \cup {None}, ok : BOOLEAN]

Pcs == {"idle",
        "limiting", "inserting", "puppeting", "botting",
        "starting", "reading", "testing", "connecting",
        "client", "readingTeam", "tryingTeam", "writingTeam",
        "entering", "joining", "rtm", "rtmStart", "rtmConnect",
        "counting", "deletingTeam", "revoking", "deleting"}

\* row: the team as getTeamClient read it; next: where it goes from there;
\* flag: that the login is for puppeting, that the team is new to the bridge
\* or that the puppet's connection is wanted, not its client only; stray: that
\* the RTM handler it runs in has been dropped.
Tasks == [pc    : Pcs,
          user  : Users \cup {None},
          slack : SlackIds \cup {None},
          team  : Teams \cup {None},
          room  : MatrixRoomIds \cup {None},
          token : Links \cup {None},
          row   : TeamRows \cup {NoTeam},
          next  : {"idle", "entering", "rtm"},
          flag  : BOOLEAN,
          stray : BOOLEAN]

Idle == [pc |-> "idle", user |-> None, slack |-> None, team |-> None,
         room |-> None, token |-> None, row |-> NoTeam, next |-> "idle",
         flag |-> FALSE, stray |-> FALSE]

TypeOK ==
    /\ world \in Worlds
    /\ waiting \in [Links -> Users \cup {None}]
    /\ issued \subseteq Links
    /\ grants \in [Links -> SlackIds \cup {None}]
    /\ dead \subseteq Links /\ deadBots \subseteq Links
    /\ teams \in [Teams -> TeamRows \cup {NoTeam}]
    /\ accounts \subseteq AccountRows /\ puppets \subseteq AccountRows
    /\ rooms \in [MatrixRoomIds -> Teams \cup {None}]
    /\ teamClients \in [Teams -> Links \cup {None}]
    /\ puppetClients \in [Keys -> Links \cup {None}]
    /\ rtmUsers \in [Keys -> Links \cup {None}]
    /\ rtmTeams \in [Teams -> RtmTeams]
    /\ open \subseteq Links
    /\ streams \in [Teams -> Nat]
    /\ gate \in {"open", "blocked", "unblocked"}
    /\ starting \in [puppets : SUBSET AccountRows, teams : SUBSET Teams]
    /\ tasks \in [Handlers -> Tasks]
    /\ last \in [Teams -> Links \cup {None}]
    /\ loose \subseteq Links /\ raced \subseteq Teams /\ again \subseteq Keys
    /\ strayed \in BOOLEAN

NothingStarts == [puppets |-> {}, teams |-> {}]

Init ==
    /\ world \in Worlds
    /\ waiting = [l \in Links |-> None] /\ issued = {}
    /\ grants = [l \in Links |-> None]
    /\ dead = {} /\ deadBots = {}
    /\ teams = [t \in Teams |-> NoTeam]
    /\ accounts = {} /\ puppets = {}
    /\ rooms = [r \in MatrixRoomIds |-> None]
    /\ teamClients = [t \in Teams |-> None]
    /\ puppetClients = [k \in Keys |-> None]
    /\ rtmUsers = [k \in Keys |-> None]
    /\ rtmTeams = [t \in Teams |-> NoStream]
    /\ open = {} /\ streams = [t \in Teams |-> 0]
    /\ gate = "open"
    /\ starting = NothingStarts
    /\ tasks = [h \in Handlers |-> Idle]
    /\ last = [t \in Teams |-> None]
    /\ loose = {} /\ raced = {} /\ again = {} /\ strayed = FALSE

-----------------------------------------------------------------------------
At(h, pc) == tasks[h].pc = pc
Start(h, task) == tasks' = [tasks EXCEPT ![h] = task]
To(h, pc) == Start(h, [tasks[h] EXCEPT !.pc = pc])
Done(h) == Start(h, Idle)

Happens(event) == event \in world.traffic

Quiet == starting = NothingStarts /\ \A h \in Handlers : At(h, "idle")

\* A request can start in an idle handler.
Accepts(h, event) ==
    /\ Happens(event) /\ At(h, "idle")
    /\ Happens("serial") => Quiet

Key(h) == <<tasks[h].user, tasks[h].team>>

\* Main.matrixUserInSlackTeam, and PgDatastore.getAccountsForTeam.
UserInTeam(user, team) ==
    \E a \in accounts : a.user = user /\ TeamOf(a.slack) = team
AccountsForTeam(team) == {a \in accounts : TeamOf(a.slack) = team}

TeamRooms(team) == {r \in MatrixRoomIds : rooms[r] = team}

\* The teams with a handler at one of these places.
TeamsAt(pcs) == {tasks[h].team : h \in {g \in Handlers : tasks[g].pc \in pcs}}

PuppetRow(key) == {p \in puppets : p.user = key[1] /\ TeamOf(p.slack) = key[2]}

-----------------------------------------------------------------------------
(* OAuth2 and /authorize *)

\* "login" in an admin room, /authurl of the Provisioner: a link for the user.
GetPreauthToken(user) ==
    /\ \E l \in Links \ issued :
        /\ waiting' = [waiting EXCEPT ![l] = user]
        /\ issued' = issued \cup {l}
    /\ UNCHANGED <<world, grants, slack, tables, clients, rtm, starting, tasks, history>>

AskLink ==
    \E user \in world.users :
        /\ Happens("login") \/ Happens("puppet")
        /\ Cardinality(issued) < world.logins
        /\ GetPreauthToken(user)

\* After five minutes the link is as good as gone.
Expire ==
    \E l \in Links :
        /\ Happens("expire") /\ waiting[l] # None
        /\ waiting' = [waiting EXCEPT ![l] = None]
        /\ UNCHANGED <<world, issued, grants, slack, tables, clients, rtm,
                       starting, tasks, history>>

\* A mutant: the link is not taken out of the map.
NotSpent(l) == UNCHANGED waiting

\* getUserIdForPreauthToken: the link is good once.
Spent(l) == waiting' = [waiting EXCEPT ![l] = None]

\* Slack sends the browser back with the link, which says who asked for it;
\* Slack says for which account the code is. A bridge that was
\* blocked has a new hook handler, which listens to nothing.
Authorize(h) ==
    \E l \in Links, s \in world.slack, puppeting \in BOOLEAN :
        /\ Accepts(h, IF puppeting THEN "puppet" ELSE "login")
        /\ waiting[l] # None /\ gate = "open"
        /\ Spent(l)
        /\ grants' = [grants EXCEPT ![l] = s]
        /\ Start(h, [Idle EXCEPT !.pc = "limiting", !.user = waiting[l], !.slack = s,
                                 !.team = TeamOf(s), !.token = l, !.flag = puppeting])
        /\ UNCHANGED <<world, issued, slack, tables, clients, rtm, starting, history>>

\* A mutant: the team itself is not counted.
ExceedsTeamLimitLate(team) == Cardinality({t \in Teams : teams[t] # NoTeam}) > TeamLimit

\* Main.willExceedTeamLimit
ExceedsTeamLimit(team) ==
    Cardinality({t \in Teams : teams[t] # NoTeam} \cup {team}) > TeamLimit

\* Beyond the limit the token is revoked, and nothing is stored. Otherwise
\* setUserAccessToken looks whether it has the team.
CheckLimit(h) ==
    LET task == tasks[h] IN
    /\ At(h, "limiting")
    /\ IF ExceedsTeamLimit(task.team)
       THEN /\ \/ dead' = dead \cup {task.token}
               \/ Happens("revokeFails") /\ UNCHANGED dead
            /\ Done(h)
       ELSE /\ Start(h, [task EXCEPT !.pc = "inserting", !.row = teams[task.team]])
            /\ UNCHANGED dead
    /\ UNCHANGED <<world, oauth, deadBots, tables, clients, rtm, starting, history>>

\* A mutant: two arguments are swapped.
AccountSwapped(task) ==
    [user |-> task.slack, slack |-> task.user, token |-> task.token]

AccountOf(task) ==
    [user |-> task.user, slack |-> task.slack, token |-> task.token]

\* insertAccount: (user, slack) is unique, a conflict replaces the token.
InsertAccount(h) ==
    LET task == tasks[h]
        replaced == {a \in accounts : a.user = task.user /\ a.slack = task.slack}
    IN
    /\ At(h, "inserting")
    /\ accounts' = (accounts \ replaced) \cup {AccountOf(task)}
    /\ loose' = loose \cup {a.token : a \in replaced}
    /\ To(h, IF task.flag THEN "puppeting" ELSE "botting")
    /\ UNCHANGED <<world, oauth, slack, teams, puppets, rooms, clients, rtm,
                   starting, last, raced, again, strayed>>

\* The two unique constraints of "puppets" beside the one that is upserted
\* on: a Slack user has one Matrix user, a Matrix user one Slack user a team.
PuppetClashes(task) ==
    \E p \in puppets : \/ p.slack = task.slack /\ p.user # task.user
                       \/ /\ p.user = task.user /\ TeamOf(p.slack) = task.team
                          /\ p.slack # task.slack

\* setPuppetToken: a clash ends the login in an error, the account is stored.
SetPuppetToken(h) ==
    LET task == tasks[h]
        key  == Key(h)
        held == \/ puppetClients[key] # None \/ rtmUsers[key] # None
                \/ \E p \in starting.puppets : p.user = key[1] /\ TeamOf(p.slack) = key[2]
                \/ \E g \in Handlers \ {h} :
                      /\ tasks[g].pc \in {"starting", "reading", "testing", "connecting"}
                      /\ Key(g) = key
    IN
    /\ At(h, "puppeting")
    /\ IF PuppetClashes(task)
       THEN /\ Done(h)
            /\ UNCHANGED <<puppets, again>>
       ELSE /\ puppets' = {p \in puppets : p.slack # task.slack}
                            \cup {AccountOf(task)}
            /\ again' = IF held THEN again \cup {key} ELSE again
            /\ To(h, "starting")
    /\ UNCHANGED <<world, oauth, slack, teams, accounts, rooms, clients, rtm,
                   starting, last, loose, raced, strayed>>

\* A mutant: the team keeps the status it has.
TeamOfLoginKept(task) ==
    [status |-> IF teams[task.team] = NoTeam THEN "ok" ELSE teams[task.team].status,
     token  |-> task.token]

TeamOfLogin(task) == [status |-> "ok", token |-> task.token]

\* upsertTeamByToken: the token is tried, then the row is the team's.
UpsertTeamByToken(h) ==
    LET task == tasks[h] IN
    /\ At(h, "botting")
    /\ \/ /\ task.token \notin deadBots
          /\ teams' = [teams EXCEPT ![task.team] = TeamOfLogin(task)]
          /\ last' = [last EXCEPT ![task.team] = task.token]
          /\ raced' = IF task.team \in TeamsAt({"tryingTeam", "writingTeam"})
                      THEN raced \cup {task.team} ELSE raced
          /\ IF task.row = NoTeam THEN To(h, "client") ELSE Done(h)
       \/ /\ task.token \in deadBots \/ Happens("outage")
          /\ Done(h)
          /\ UNCHANGED <<teams, last, raced>>
    /\ UNCHANGED <<world, oauth, slack, accounts, puppets, rooms, clients, rtm,
                   starting, loose, again, strayed>>

-----------------------------------------------------------------------------
(* Clients and connections of puppets *)

\* startUserClient, and the look into the cache of getClientForUserWithId: a
\* user who has a client needs no look-up, and is entered at once.
StartUserClient(h) ==
    LET key == Key(h) IN
    /\ At(h, "starting")
    /\ \/ /\ rtmUsers[key] # None \/ gate = "blocked"
          /\ Done(h)
          /\ UNCHANGED rtmUsers
       \/ /\ rtmUsers[key] = None /\ gate # "blocked" /\ puppetClients[key] # None
          /\ rtmUsers' = [rtmUsers EXCEPT ![key] = tasks[h].token]
          /\ To(h, "connecting")
       \/ /\ rtmUsers[key] = None /\ gate # "blocked" /\ puppetClients[key] = None
          /\ To(h, "reading")
          /\ UNCHANGED rtmUsers
    /\ UNCHANGED <<world, oauth, slack, tables, clients, rtmTeams, open, streams, gate,
                   starting, history>>

\* A message of the user, or a command about him, wants his client.
UsePuppet(h) ==
    \E key \in Keys :
        /\ Accepts(h, "use") /\ puppetClients[key] = None
        /\ key[1] \in world.users /\ \E s \in world.slack : TeamOf(s) = key[2]
        /\ Start(h, [Idle EXCEPT !.pc = "reading", !.user = key[1], !.team = key[2]])
        /\ UNCHANGED <<world, oauth, slack, tables, clients, rtm, starting, history>>

\* A mutant: the query leaves the Matrix user out.
StoredPuppetOfTeam(h) == {p \in puppets : TeamOf(p.slack) = tasks[h].team}

\* getPuppetTokenByMatrixId
StoredPuppet(h) == PuppetRow(Key(h))

\* The token of the client is the one stored, and may not be the task's: that
\* of the connection is.
ReadPuppet(h) ==
    /\ At(h, "reading")
    /\ IF StoredPuppet(h) = {}
       THEN Done(h)
       ELSE \E p \in StoredPuppet(h) :
               Start(h, [tasks[h] EXCEPT !.pc = "testing",
                                         !.row = [status |-> "ok", token |-> p.token]])
    /\ UNCHANGED <<world, oauth, slack, tables, clients, rtm, starting, history>>

\* auth.test; a client that works is kept for good. The map of connections
\* is not looked at again before this one is entered.
TestPuppet(h) ==
    LET key == Key(h) IN
    /\ At(h, "testing")
    /\ \/ /\ tasks[h].row.token \notin dead
          /\ puppetClients' = [puppetClients EXCEPT ![key] = tasks[h].row.token]
          /\ IF tasks[h].flag
             THEN /\ rtmUsers' = IF tasks[h].stray THEN rtmUsers
                                 ELSE [rtmUsers EXCEPT ![key] = tasks[h].token]
                  /\ To(h, "connecting")
             ELSE /\ Done(h)
                  /\ UNCHANGED rtmUsers
       \/ /\ tasks[h].row.token \in dead \/ Happens("outage")
          /\ Done(h)
          /\ UNCHANGED <<puppetClients, rtmUsers>>
    /\ UNCHANGED <<world, oauth, slack, tables, teamClients, rtmTeams, open,
                   streams, gate, starting, history>>

\* rtm.start(). A connection that fails stays in the map.
Connect(h) ==
    LET token == tasks[h].token IN
    /\ At(h, "connecting")
    /\ \/ /\ token \notin dead
          /\ open' = open \cup {token}
       \/ /\ token \in dead \/ Happens("outage")
          /\ UNCHANGED open
    /\ Done(h)
    /\ UNCHANGED <<world, oauth, slack, tables, clients, rtmUsers, rtmTeams,
                   streams, gate, starting, history>>

-----------------------------------------------------------------------------
(* getTeamClient *)

Goes(h) == To(h, tasks[h].next)

\* Start-up goes on to the connection of a team without a client.
GoesWithout(h) == IF tasks[h].next = "rtm" THEN To(h, "rtm") ELSE Done(h)

\* A list of channels, a channel's name, a new room: any use of the client.
UseTeam(h) ==
    \E s \in world.slack :
        /\ Accepts(h, "use")
        /\ Start(h, [Idle EXCEPT !.pc = "client", !.team = TeamOf(s)])
        /\ UNCHANGED <<world, oauth, slack, tables, clients, rtm, starting, history>>

\* A client that is fresh is not tried, one that has expired is.
LookTeamClient(h) ==
    LET token == teamClients[tasks[h].team] IN
    /\ At(h, "client")
    /\ \/ /\ token # None
          /\ Goes(h)
       \/ /\ token = None \/ token \in deadBots \/ Happens("outage")
          /\ To(h, "readingTeam")
    /\ UNCHANGED <<world, oauth, slack, tables, clients, rtm, starting, history>>

\* The row is read, and isTeamStatusOkay refuses a team that failed before.
ReadTeam(h) ==
    LET team == tasks[h].team IN
    /\ At(h, "readingTeam")
    /\ IF teams[team] = NoTeam
       THEN /\ teamClients' = [teamClients EXCEPT ![team] = None]
            /\ GoesWithout(h)
       ELSE /\ UNCHANGED teamClients
            /\ IF teams[team].status = "bad_auth"
               THEN GoesWithout(h)
               ELSE Start(h, [tasks[h] EXCEPT !.pc = "tryingTeam", !.row = teams[team]])
    /\ UNCHANGED <<world, oauth, slack, tables, puppetClients, rtm, starting, history>>

\* createTeamClient: any failure, of the token or of the network, is bad_auth.
TryTeam(h) ==
    LET task == tasks[h] IN
    /\ At(h, "tryingTeam")
    /\ \/ /\ task.row.token \notin deadBots
          /\ teamClients' = [teamClients EXCEPT ![task.team] = task.row.token]
          /\ Start(h, [task EXCEPT !.pc = "writingTeam", !.row = [@ EXCEPT !.status = "ok"]])
       \/ /\ task.row.token \in deadBots \/ Happens("outage")
          /\ Start(h, [task EXCEPT !.pc = "writingTeam",
                                   !.row = [@ EXCEPT !.status = "bad_auth"]])
          /\ UNCHANGED teamClients
    /\ UNCHANGED <<world, oauth, slack, tables, puppetClients, rtm, starting, history>>

\* The row is written as it was read, with its new status.
WriteTeam(h) ==
    LET task == tasks[h] IN
    /\ At(h, "writingTeam")
    /\ teams' = [teams EXCEPT ![task.team] = task.row]
    /\ IF task.row.status = "ok" THEN Goes(h) ELSE GoesWithout(h)
    /\ UNCHANGED <<world, oauth, slack, accounts, puppets, rooms, clients, rtm,
                   starting, history>>

-----------------------------------------------------------------------------
(* Rooms and the connections of teams *)

\* Provisioner.link, up to the team's client in actionLink.
Link(h) ==
    \E user \in world.users, s \in world.slack, room \in world.rooms :
        /\ Accepts(h, "link")
        /\ rooms[room] = None
        /\ UserInTeam(user, TeamOf(s))
        /\ Cardinality({r \in MatrixRoomIds : rooms[r] # None}) < RoomLimit
        /\ Start(h, [Idle EXCEPT !.pc = "client", !.team = TeamOf(s),
                                 !.room = room, !.next = "entering"])
        /\ UNCHANGED <<world, oauth, slack, tables, clients, rtm, starting, history>>

\* actionLink: the team must be stored.
EnterRoom(h) ==
    /\ At(h, "entering")
    /\ IF teams[tasks[h].team] = NoTeam THEN Done(h) ELSE To(h, "joining")
    /\ UNCHANGED <<world, oauth, slack, tables, clients, rtm, starting, history>>

\* The bot has joined the room; the room is added and saved.
JoinRoom(h) ==
    LET task == tasks[h] IN
    /\ At(h, "joining")
    /\ rooms' = [rooms EXCEPT ![task.room] = task.team]
    /\ raced' = raced \cup ({task.team} \cap TeamsAt({"deletingTeam"}))
    /\ To(h, "rtm")
    /\ UNCHANGED <<world, oauth, slack, teams, accounts, puppets, clients, rtm,
                   starting, last, loose, again, strayed>>

Unlink ==
    \E room \in world.rooms :
        /\ Happens("unlink") /\ rooms[room] # None
        /\ rooms' = [rooms EXCEPT ![room] = None]
        /\ UNCHANGED <<world, oauth, slack, teams, accounts, puppets, clients, rtm,
                       starting, tasks, history>>

\* A mutant: only a team that is gone has no need of a connection.
NeedsNoStreamGone(team) == teams[team] = NoTeam

NeedsNoStream(team) ==
    teams[team] = NoTeam \/ rtmTeams[team].ok \/ gate = "blocked"

\* startTeamClientIfNotStarted: a start that is under way is waited for, one
\* that failed is made again.
LookStream(h) ==
    LET team == tasks[h].team IN
    /\ At(h, "rtm")
    /\ rtmTeams[team].by = None
    /\ IF NeedsNoStream(team)
       THEN Done(h)
       ELSE Start(h, [tasks[h] EXCEPT !.pc = "rtmStart", !.row = teams[team]])
    /\ UNCHANGED <<world, oauth, slack, tables, clients, rtm, starting, history>>

\* teamCanUseRTM reads the team once more before the promise is in the map.
StartStream(h) ==
    LET team == tasks[h].team IN
    /\ At(h, "rtmStart")
    /\ IF teams[team] = NoTeam
       THEN /\ Done(h)
            /\ UNCHANGED rtmTeams
       ELSE /\ rtmTeams' = IF tasks[h].stray THEN rtmTeams
                           ELSE [rtmTeams EXCEPT ![team] = [by |-> h, ok |-> FALSE]]
            /\ To(h, "rtmConnect")
    /\ UNCHANGED <<world, oauth, slack, tables, clients, rtmUsers, open, streams, gate,
                   starting, history>>

\* The promise is settled; by then another may be in its place.
ConnectStream(h) ==
    LET team == tasks[h].team
        settled(ok) == IF rtmTeams[team].by = h
                       THEN rtmTeams' = [rtmTeams EXCEPT ![team] = [by |-> None, ok |-> ok]]
                       ELSE UNCHANGED rtmTeams
    IN
    /\ At(h, "rtmConnect")
    /\ \/ /\ tasks[h].row.token \notin deadBots
          /\ streams' = [streams EXCEPT ![team] = @ + 1]
          /\ settled(TRUE)
       \/ /\ tasks[h].row.token \in deadBots \/ Happens("outage")
          /\ UNCHANGED streams
          /\ settled(FALSE)
    /\ Done(h)
    /\ UNCHANGED <<world, oauth, slack, tables, clients, rtmUsers, open, gate, starting,
                   history>>

-----------------------------------------------------------------------------
(* logoutAccount *)

Logout(h) ==
    \E a \in accounts :
        /\ Accepts(h, "logout")
        /\ Start(h, [Idle EXCEPT !.pc = "counting", !.user = a.user, !.slack = a.slack,
                                 !.team = TeamOf(a.slack), !.token = a.token])
        /\ UNCHANGED <<world, oauth, slack, tables, clients, rtm, starting, history>>

\* A mutant: the rooms are not looked at.
PreservedNever(team) == FALSE

\* A team must be preserved until its rooms are removed.
Preserved(team) == TeamRooms(team) # {}

\* The last account of a team takes the team along, and is refused while the
\* team has rooms.
CountAccounts(h) ==
    LET team == tasks[h].team IN
    /\ At(h, "counting")
    /\ IF Cardinality(AccountsForTeam(team)) > 1
       THEN /\ To(h, "revoking")
            /\ UNCHANGED teamClients
       ELSE IF Preserved(team)
       THEN /\ Done(h)
            /\ UNCHANGED teamClients
       ELSE /\ teamClients' = [teamClients EXCEPT ![team] = None]
            /\ To(h, "deletingTeam")
    /\ UNCHANGED <<world, oauth, slack, tables, puppetClients, rtm, starting, history>>

\* The client in the cache is dropped, the team's connection goes on.
DeleteTeam(h) ==
    LET team == tasks[h].team
        users == {"client", "entering", "joining", "tryingTeam", "writingTeam"}
    IN
    /\ At(h, "deletingTeam")
    /\ teams' = [teams EXCEPT ![team] = NoTeam]
    /\ raced' = raced \cup ({team} \cap TeamsAt(users))
    /\ To(h, "revoking")
    /\ UNCHANGED <<world, oauth, slack, accounts, puppets, rooms, clients, rtm,
                   starting, last, loose, again, strayed>>

\* A mutant: nobody asks Slack.
RevokedNever(token) == UNCHANGED <<dead, open>>

\* Slack closes what the token had open.
Revoked(token) ==
    /\ dead' = dead \cup {token}
    /\ open' = open \ {token}

\* That Slack refuses is only logged. disconnectClient is given the wrong key
\* and finds nothing.
Revoke(h) ==
    LET token == tasks[h].token IN
    /\ At(h, "revoking")
    /\ \/ /\ Revoked(token)
          /\ UNCHANGED loose
       \/ /\ Happens("revokeFails")
          /\ loose' = loose \cup {token}
          /\ UNCHANGED <<dead, open>>
    /\ To(h, "deleting")
    /\ UNCHANGED <<world, oauth, deadBots, tables, clients, rtmUsers, rtmTeams,
                   streams, gate, starting, last, raced, again, strayed>>

\* The row is deleted by its key, whatever token it has by now. The one in
\* "puppets" and the puppet's client stay.
DeleteAccount(h) ==
    LET gone == {a \in accounts : a.user = tasks[h].user /\ a.slack = tasks[h].slack} IN
    /\ At(h, "deleting")
    /\ accounts' = accounts \ gone
    /\ loose' = loose \cup ({a.token : a \in gone} \ {tasks[h].token})
    /\ Done(h)
    /\ UNCHANGED <<world, oauth, slack, teams, puppets, rooms, clients, rtm,
                   starting, last, raced, again, strayed>>

-----------------------------------------------------------------------------
(* Restart, the limit on users, and Slack *)

\* A mutant: the connections of users are forgotten, not closed.
DisconnectTeams ==
    /\ rtmUsers' = [k \in Keys |-> None]
    /\ rtmTeams' = [t \in Teams |-> NoStream]
    /\ streams' = [t \in Teams |-> 0]
    /\ UNCHANGED open

DisconnectAll ==
    /\ rtmUsers' = [k \in Keys |-> None]
    /\ rtmTeams' = [t \in Teams |-> NoStream]
    /\ open' = {} /\ streams' = [t \in Teams |-> 0]

\* A mutant: the connections of puppets are not made again.
ToStartTeams == [puppets |-> {}, teams |-> {t \in Teams : teams[t] # NoTeam}]

\* getPuppetedUsers and getAllTeams
ToStart == [puppets |-> puppets, teams |-> {t \in Teams : teams[t] # NoTeam}]

\* The process dies and starts again: Main.run reads the puppets and the
\* teams, and takes requests while it still makes their clients.
Restart ==
    /\ Happens("restart")
    /\ waiting' = [l \in Links |-> None]
    /\ teamClients' = [t \in Teams |-> None]
    /\ puppetClients' = [k \in Keys |-> None]
    /\ DisconnectAll
    /\ starting' = ToStart
    /\ tasks' = [h \in Handlers |-> Idle]
    /\ again' = {} /\ gate' = "open" /\ strayed' = FALSE
    /\ UNCHANGED <<world, issued, grants, slack, tables, last, loose, raced>>

StartPuppet(h) ==
    \E p \in starting.puppets :
        /\ At(h, "idle")
        /\ starting' = [starting EXCEPT !.puppets = @ \ {p}]
        /\ Start(h, [Idle EXCEPT !.pc = "starting", !.user = p.user, !.slack = p.slack,
                                 !.team = TeamOf(p.slack), !.token = p.token,
                                 !.flag = TRUE])
        /\ UNCHANGED <<world, oauth, slack, tables, clients, rtm, history>>

StartTeam(h) ==
    \E t \in starting.teams :
        /\ At(h, "idle")
        /\ starting' = [starting EXCEPT !.teams = @ \ {t}]
        /\ Start(h, [Idle EXCEPT !.pc = "client", !.team = t, !.next = "rtm"])
        /\ UNCHANGED <<world, oauth, slack, tables, clients, rtm, history>>

\* Places inside a method of SlackRTMHandler.
InRtm(task) == \/ task.pc \in {"connecting", "rtmStart", "rtmConnect"}
               \/ task.pc \in {"reading", "testing"} /\ task.flag

\* SlackBridgeBlocker.blockBridge: the hook handler is closed, every connection
\* is, and the RTM handler is dropped with its maps; what runs in it runs on.
Block ==
    /\ Happens("block") /\ gate # "blocked"
    /\ gate' = "blocked"
    /\ DisconnectAll
    /\ tasks' = [h \in Handlers |-> [tasks[h] EXCEPT !.stray = @ \/ InRtm(tasks[h])]]
    /\ strayed' = (strayed \/ \E h \in Handlers : InRtm(tasks[h]))
    /\ UNCHANGED <<world, oauth, slack, tables, clients, starting, last, loose,
                   raced, again>>

\* unblockBridge makes the handlers anew and starts nothing.
Unblock ==
    /\ gate = "blocked"
    /\ gate' = "unblocked"
    /\ UNCHANGED <<world, oauth, slack, tables, clients, rtmUsers, rtmTeams, open,
                   streams, starting, tasks, history>>

\* A team removes the app: every token it gave is dead.
Uninstall ==
    \E s \in world.slack :
        LET given == {l \in Links : grants[l] # None /\ TeamOf(grants[l]) = TeamOf(s)}
        IN  /\ Happens("uninstall") /\ ~(given \subseteq dead \cap deadBots)
            /\ dead' = dead \cup given /\ deadBots' = deadBots \cup given
            /\ open' = open \ given
            /\ streams' = [streams EXCEPT ![TeamOf(s)] = 0]
            /\ UNCHANGED <<world, oauth, tables, clients, rtmUsers, rtmTeams, gate,
                           starting, tasks, history>>

-----------------------------------------------------------------------------
Requests(h) ==
    Authorize(h) \/ Logout(h) \/ Link(h) \/ UseTeam(h) \/ UsePuppet(h)

Continues(h) ==
    \/ CheckLimit(h) \/ InsertAccount(h) \/ SetPuppetToken(h) \/ UpsertTeamByToken(h)
    \/ StartUserClient(h) \/ ReadPuppet(h) \/ TestPuppet(h) \/ Connect(h)
    \/ LookTeamClient(h) \/ ReadTeam(h) \/ TryTeam(h) \/ WriteTeam(h)
    \/ EnterRoom(h) \/ JoinRoom(h)
    \/ LookStream(h) \/ StartStream(h) \/ ConnectStream(h)
    \/ CountAccounts(h) \/ DeleteTeam(h) \/ Revoke(h) \/ DeleteAccount(h)

Next ==
    \/ \E h \in Handlers : Requests(h) \/ Continues(h) \/ StartPuppet(h) \/ StartTeam(h)
    \/ AskLink \/ Expire \/ Unlink \/ Uninstall \/ Block \/ Unblock \/ Restart

Spec == Init /\ [][Next]_vars

-----------------------------------------------------------------------------
\* The logins by a link that are not yet stored.
Storing(l) ==
    {h \in Handlers : tasks[h].pc \in {"limiting", "inserting"} /\ tasks[h].token = l}

\* Who a link can still enter: the user it waits for, or whose login it is.
Invited(l) ==
    IF waiting[l] # None THEN waiting[l]
    ELSE IF Storing(l) # {} THEN tasks[CHOOSE h \in Storing(l) : TRUE].user
    ELSE None

Book == INSTANCE AccountBook WITH invited <- [l \in Links |-> Invited(l)],
                                  book    <- accounts

\* The tables and maps together keep the promises of AccountBook.
KeepsTheBook == Book!Spec

\* A token that still works and that the bridge still uses is one of a linked
\* account: what is left of an account that was logged out is of no use,
\* unless a second login had replaced the token, Slack refused to revoke it, or
\* the login it is from ran into the logout.
LogoutHolds ==
    \A l \in Links \ (dead \cup loose) :
        \/ ~ \/ l \in open
             \/ \E p \in puppets : p.token = l
             \/ \E k \in Keys : puppetClients[k] = l
        \/ \E a \in accounts : a.token = l

\* The client of a puppet is the one of his stored token, unless he logged in
\* again over what this process already held.
PuppetsCurrent ==
    \A k \in Keys \ again :
        puppetClients[k] # None => \E p \in PuppetRow(k) : p.token = puppetClients[k]

\* At rest every puppet whose token works is listened to, logins, crashes and
\* start-ups notwithstanding; with the same exception, and as long as the bridge
\* was not blocked, since only a restart undoes that.
PuppetsConnected ==
    Quiet /\ ~Happens("outage") /\ gate = "open" => \A p \in puppets :
        p.token \in open \/ p.token \in dead \/ <<p.user, TeamOf(p.slack)>> \in again

\* A blocked bridge hears nothing, unless it was blocked under a handler that
\* was connecting.
BlockedSilent ==
    gate = "blocked" /\ ~strayed => open = {} /\ \A t \in Teams : streams[t] = 0

\* A team with bridged rooms keeps its row, unless a logout ran into a link.
RoomsKeepTeam ==
    \A r \in MatrixRoomIds :
        rooms[r] # None /\ rooms[r] \notin raced => teams[rooms[r]] # NoTeam

\* A team has the token of its last login, and is disabled only for a token
\* that is dead or a call that failed, unless a getTeamClient was under way.
TokenCurrent ==
    \A t \in Teams \ raced :
        teams[t] # NoTeam =>
            /\ teams[t].token = last[t]
            /\ teams[t].status = "bad_auth" => last[t] \in deadBots \/ Happens("outage")

\* The limits may be passed by requests that overlap, each once.
Quotas ==
    /\ Cardinality({t \in Teams : teams[t] # NoTeam}) < TeamLimit + Cardinality(Handlers)
    /\ Cardinality({r \in MatrixRoomIds : rooms[r] # None}) < RoomLimit + Cardinality(Handlers)

\* A team is listened to by one connection, and where requests overlap by no
\* more than there are handlers: what MessageRelay calls Streams. Only a start
\* that fails, or a block, hides a connection that is there from the next.
StreamsBounded ==
    \/ strayed
    \/ ~Happens("serial") /\ (Happens("outage") \/ Happens("uninstall"))
    \/ \A t \in Teams :
          streams[t] <= IF Happens("serial") THEN 1 ELSE Cardinality(Handlers)

=============================================================================
