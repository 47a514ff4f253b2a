--------------------------- MODULE AccountsProofs ---------------------------
(***************************************************************************)
(* What holds of Accounts for any users, teams, links, handlers and        *)
(* worlds: the type invariant, and that the tables implement AccountBook.  *)
(*                                                                         *)
(* TypeOK is not inductive: a handler uses the fields of its task, and     *)
(* which of them have a value is known from its pc. TaskOK says so.        *)
(***************************************************************************)
EXTENDS Accounts, TLAPS

\* The places of a login and of a logout, where the account is known.
OfAccount == {"limiting", "inserting", "puppeting", "botting", "starting",
              "counting", "deletingTeam", "revoking", "deleting"}

\* What a task carries at each pc.
TaskOK(q) ==
    /\ q.pc # "idle" => q.team \in Teams
    /\ q.pc \in OfAccount => /\ q.user \in Users /\ q.slack \in SlackIds /\ q.token \in Links
                             /\ q.team = TeamOf(q.slack)
    /\ q.pc \in {"reading", "testing"} => q.user \in Users /\ (q.flag = TRUE => q.token \in Links)
    /\ q.pc = "connecting" => q.user \in Users /\ q.token \in Links
    /\ q.pc \in {"testing", "tryingTeam", "writingTeam", "rtmStart", "rtmConnect"}
          => q.row \in TeamRows
    /\ q.next = "entering" \/ q.pc \in {"entering", "joining"} => q.room \in MatrixRoomIds

TasksOK == tasks \in [Handlers -> Tasks] /\ \A h \in Handlers : TaskOK(tasks[h])

\* The rest of TypeOK.
TablesOK ==
    /\ world \in Worlds
    /\ waiting \in [Links -> Users \cup {None}]
    /\ issued \subseteq Links
    /\ grants \in [Links -> SlackIds \cup {None}]
    /\ dead \subseteq Links /\ deadBots \subseteq Links
    /\ teams \in [Teams -> TeamRows \cup {NoTeam}]
    /\ accounts \subseteq AccountRows /\ puppets \subseteq AccountRows
    /\ rooms \in [MatrixRoomIds -> Teams \cup {None}]
    /\ last \in [Teams -> Links \cup {None}]
    /\ loose \subseteq Links /\ raced \subseteq Teams /\ again \subseteq Keys
    /\ strayed \in BOOLEAN

ClientsOK ==
    /\ teamClients \in [Teams -> Links \cup {None}]
    /\ puppetClients \in [Keys -> Links \cup {None}]
    /\ rtmUsers \in [Keys -> Links \cup {None}]
    /\ rtmTeams \in [Teams -> RtmTeams]
    /\ open \subseteq Links
    /\ streams \in [Teams -> Nat]
    /\ gate \in {"open", "blocked", "unblocked"}
    /\ starting \in [puppets : SUBSET AccountRows, teams : SUBSET Teams]

TypeInv == TablesOK /\ ClientsOK /\ TasksOK

LEMMA TypeInvTypeOK == TypeInv => TypeOK
  BY DEF TypeInv, TablesOK, ClientsOK, TasksOK, TypeOK

-----------------------------------------------------------------------------
(* How the tasks change *)

LEMMA IdleOK == Idle \in Tasks /\ TaskOK(Idle)
  BY DEF Idle, Tasks, Pcs, TaskOK, OfAccount, NoTeam

LEMMA StartOK ==
  ASSUME TasksOK, NEW h \in Handlers, NEW t \in Tasks, TaskOK(t), Start(h, t)
  PROVE  TasksOK'
<1>1. tasks' = [tasks EXCEPT ![h] = t] /\ tasks \in [Handlers -> Tasks]
  BY DEF Start, TasksOK
<1>2. tasks' \in [Handlers -> Tasks]
  BY <1>1
<1>3. \A g \in Handlers : tasks'[g] = IF g = h THEN t ELSE tasks[g]
  BY <1>1
<1> QED
  BY <1>2, <1>3 DEF TasksOK

LEMMA DoneOK ==
  ASSUME TasksOK, NEW h \in Handlers, Done(h)
  PROVE  TasksOK'
  BY StartOK, IdleOK DEF Done

LEMMA ToOK ==
  ASSUME TasksOK, NEW h \in Handlers, NEW pc \in Pcs, To(h, pc),
         pc # "idle" => tasks[h].pc # "idle",
         pc \in OfAccount => tasks[h].pc \in OfAccount,
         pc # "testing", pc = "reading" => tasks[h].pc \in OfAccount,
         pc = "connecting" => tasks[h].pc \in OfAccount \cup {"connecting"},
         pc \in {"tryingTeam", "writingTeam", "rtmStart", "rtmConnect"}
            => tasks[h].pc \in {"tryingTeam", "writingTeam", "rtmStart", "rtmConnect"},
         pc \in {"entering", "joining"} =>
            tasks[h].next = "entering" \/ tasks[h].pc \in {"entering", "joining"}
  PROVE  TasksOK'
<1> DEFINE t == [tasks[h] EXCEPT !.pc = pc]
<1>1. tasks[h] \in Tasks /\ TaskOK(tasks[h])
  BY DEF TasksOK
<1>2. t \in Tasks /\ t.pc = pc /\ t.user = tasks[h].user /\ t.slack = tasks[h].slack
      /\ t.team = tasks[h].team /\ t.room = tasks[h].room /\ t.token = tasks[h].token
      /\ t.row = tasks[h].row /\ t.next = tasks[h].next /\ t.flag = tasks[h].flag
  BY <1>1 DEF Tasks
<1>3. Start(h, t)
  BY DEF To
<1> HIDE DEF t
<1>4. TaskOK(t)
  BY <1>1, <1>2 DEF TaskOK, OfAccount
<1> QED
  BY <1>2, <1>3, <1>4, StartOK

LEMMA TablesAlone ==
  ASSUME TablesOK, UNCHANGED <<world, oauth, slack, tables, history>>
  PROVE  TablesOK'
  BY DEF TablesOK, oauth, slack, tables, history

LEMMA ClientsAlone ==
  ASSUME ClientsOK, UNCHANGED <<clients, rtm, starting>>
  PROVE  ClientsOK'
  BY DEF ClientsOK, clients, rtm

\* What a handler's task is, and the parts of a Slack id and of a row.
LEMMA TaskFacts ==
  ASSUME TypeInv
  PROVE  /\ \A h \in Handlers : tasks[h] \in Tasks /\ TaskOK(tasks[h])
         /\ \A s \in SlackIds : TeamOf(s) \in Teams
         /\ \A a \in AccountRows : a.user \in Users /\ a.slack \in SlackIds /\ a.token \in Links
         /\ \A r \in TeamRows : r.token \in Links
         /\ None \notin Users \cup Teams \cup SlackIds \cup Links \cup MatrixRoomIds \cup Handlers
         /\ NoTeam \notin TeamRows
         /\ world.slack \subseteq SlackIds /\ world.users \subseteq Users
         /\ world.rooms \subseteq MatrixRoomIds
<1>1. world \in WorldType
  BY AccountsAssumption DEF TypeInv, TablesOK, AccountsAssumption
<1> QED
  BY <1>1, AccountsAssumption
  DEF TypeInv, TasksOK, SlackIds, TeamOf, AccountRows, TeamRows, NoTeam, WorldType,
      AccountsAssumption

-----------------------------------------------------------------------------
(* Requests, and what start-up goes on with *)

Begins(h) ==
    Logout(h) \/ Link(h) \/ UseTeam(h) \/ UsePuppet(h) \/ StartPuppet(h) \/ StartTeam(h)

\* Where a task begins, except at a login.
LEMMA BeginsAt ==
  ASSUME TypeInv, NEW h \in Handlers, Begins(h)
  PROVE  /\ tasks[h].pc = "idle" /\ UNCHANGED <<world, oauth, slack, tables, clients, rtm, history>>
         /\ \E t \in Tasks : /\ Start(h, t) /\ TaskOK(t)
                             /\ t.pc \in {"counting", "client", "reading", "starting"}
                             /\ t.pc = "reading" => t.flag = FALSE
<1> DEFINE Fits(t) == /\ TaskOK(t) /\ t.pc \in {"counting", "client", "reading", "starting"}
                      /\ t.pc = "reading" => t.flag = FALSE
<1>1. CASE Logout(h)
  <2>1. PICK a \in accounts :
          Start(h, [Idle EXCEPT !.pc = "counting", !.user = a.user, !.slack = a.slack,
                                !.team = TeamOf(a.slack), !.token = a.token])
    BY <1>1 DEF Logout
  <2> DEFINE t == [Idle EXCEPT !.pc = "counting", !.user = a.user, !.slack = a.slack,
                               !.team = TeamOf(a.slack), !.token = a.token]
  <2>2. a.user \in Users /\ a.slack \in SlackIds /\ a.token \in Links /\ TeamOf(a.slack) \in Teams
    BY TaskFacts DEF TypeInv, TablesOK
  <2>3. t \in Tasks /\ Fits(t)
    BY <2>2 DEF Tasks, Idle, Pcs, NoTeam, TaskOK, OfAccount
  <2> QED
    BY <1>1, <2>1, <2>3 DEF Logout, Accepts, At
<1>2. CASE Link(h)
  <2>1. PICK s \in world.slack, room \in world.rooms :
          Start(h, [Idle EXCEPT !.pc = "client", !.team = TeamOf(s),
                                !.room = room, !.next = "entering"])
    BY <1>2 DEF Link
  <2> DEFINE t == [Idle EXCEPT !.pc = "client", !.team = TeamOf(s),
                               !.room = room, !.next = "entering"]
  <2>2. TeamOf(s) \in Teams /\ room \in MatrixRoomIds
    BY TaskFacts
  <2>3. t \in Tasks /\ Fits(t)
    BY <2>2 DEF Tasks, Idle, Pcs, NoTeam, TaskOK, OfAccount
  <2> QED
    BY <1>2, <2>1, <2>3 DEF Link, Accepts, At
<1>3. CASE UseTeam(h)
  <2>1. PICK s \in world.slack : Start(h, [Idle EXCEPT !.pc = "client", !.team = TeamOf(s)])
    BY <1>3 DEF UseTeam
  <2> DEFINE t == [Idle EXCEPT !.pc = "client", !.team = TeamOf(s)]
  <2>2. TeamOf(s) \in Teams
    BY TaskFacts
  <2>3. t \in Tasks /\ Fits(t)
    BY <2>2 DEF Tasks, Idle, Pcs, NoTeam, TaskOK, OfAccount
  <2> QED
    BY <1>3, <2>1, <2>3 DEF UseTeam, Accepts, At
<1>4. CASE UsePuppet(h)
  <2>1. PICK key \in Keys :
          Start(h, [Idle EXCEPT !.pc = "reading", !.user = key[1], !.team = key[2]])
    BY <1>4 DEF UsePuppet
  <2> DEFINE t == [Idle EXCEPT !.pc = "reading", !.user = key[1], !.team = key[2]]
  <2>2. t \in Tasks /\ Fits(t)
    BY DEF Tasks, Idle, Pcs, NoTeam, TaskOK, OfAccount, Keys
  <2> QED
    BY <1>4, <2>1, <2>2 DEF UsePuppet, Accepts, At
<1>5. CASE StartPuppet(h)
  <2>1. PICK p \in starting.puppets :
          Start(h, [Idle EXCEPT !.pc = "starting", !.user = p.user, !.slack = p.slack,
                                !.team = TeamOf(p.slack), !.token = p.token, !.flag = TRUE])
    BY <1>5 DEF StartPuppet
  <2> DEFINE t == [Idle EXCEPT !.pc = "starting", !.user = p.user, !.slack = p.slack,
                               !.team = TeamOf(p.slack), !.token = p.token, !.flag = TRUE]
  <2>2. p.user \in Users /\ p.slack \in SlackIds /\ p.token \in Links /\ TeamOf(p.slack) \in Teams
    BY TaskFacts DEF TypeInv, ClientsOK
  <2>3. t \in Tasks /\ Fits(t)
    BY <2>2 DEF Tasks, Idle, Pcs, NoTeam, TaskOK, OfAccount
  <2> QED
    BY <1>5, <2>1, <2>3 DEF StartPuppet, At
<1>6. CASE StartTeam(h)
  <2>1. PICK team \in starting.teams :
          Start(h, [Idle EXCEPT !.pc = "client", !.team = team, !.next = "rtm"])
    BY <1>6 DEF StartTeam
  <2> DEFINE t == [Idle EXCEPT !.pc = "client", !.team = team, !.next = "rtm"]
  <2>2. team \in Teams
    BY DEF TypeInv, ClientsOK
  <2>3. t \in Tasks /\ Fits(t)
    BY <2>2 DEF Tasks, Idle, Pcs, NoTeam, TaskOK, OfAccount
  <2> QED
    BY <1>6, <2>1, <2>3 DEF StartTeam, At
<1> QED
  BY <1>1, <1>2, <1>3, <1>4, <1>5, <1>6 DEF Begins

LEMMA BeginsType ==
  ASSUME TypeInv, NEW h \in Handlers, Begins(h)
  PROVE  TypeInv'
<1>1. TasksOK'
  BY BeginsAt, StartOK DEF TypeInv
<1>2. starting' \in [puppets : SUBSET AccountRows, teams : SUBSET Teams]
  BY DEF Begins, Logout, Link, UseTeam, UsePuppet, StartPuppet, StartTeam, TypeInv, ClientsOK
<1>3. TablesOK' /\ ClientsOK'
  BY <1>2, BeginsAt, TablesAlone DEF TypeInv, ClientsOK, clients, rtm
<1> QED
  BY <1>1, <1>3 DEF TypeInv

-----------------------------------------------------------------------------
(* OAuth2 and /authorize *)

LEMMA OAuthType ==
  ASSUME TypeInv, AskLink \/ Expire
  PROVE  TypeInv'
<1>1. UNCHANGED <<clients, rtm, starting, tasks>>
  BY DEF AskLink, GetPreauthToken, Expire
<1>2. TablesOK'
  <2>1. CASE AskLink
    <3>1. PICK user \in Users : GetPreauthToken(user)
      BY <2>1, TaskFacts DEF AskLink
    <3> QED
      BY <3>1 DEF GetPreauthToken, TypeInv, TablesOK, slack, tables, history
  <2>2. CASE Expire
    BY <2>2 DEF Expire, TypeInv, TablesOK, slack, tables, history
  <2> QED
    BY <2>1, <2>2
<1> QED
  BY <1>1, <1>2, ClientsAlone DEF TypeInv, TasksOK

LEMMA AuthorizeType ==
  ASSUME TypeInv, NEW h \in Handlers, Authorize(h)
  PROVE  TypeInv'
<1>1. PICK l \in Links, s \in world.slack, puppeting \in BOOLEAN :
        /\ waiting[l] # None /\ Spent(l)
        /\ grants' = [grants EXCEPT ![l] = s]
        /\ Start(h, [Idle EXCEPT !.pc = "limiting", !.user = waiting[l], !.slack = s,
                                 !.team = TeamOf(s), !.token = l, !.flag = puppeting])
        /\ UNCHANGED <<world, issued, slack, tables, clients, rtm, starting, history>>
  BY DEF Authorize
<1>2. s \in SlackIds /\ TeamOf(s) \in Teams /\ waiting[l] \in Users
  BY <1>1, TaskFacts DEF TypeInv, TablesOK
<1> DEFINE t == [Idle EXCEPT !.pc = "limiting", !.user = waiting[l], !.slack = s,
                             !.team = TeamOf(s), !.token = l, !.flag = puppeting]
<1>3. t \in Tasks /\ TaskOK(t)
  BY <1>2 DEF Tasks, Idle, Pcs, NoTeam, TaskOK, OfAccount
<1>4. TasksOK'
  BY <1>1, <1>3, StartOK DEF TypeInv
<1>5. TablesOK'
  BY <1>1, <1>2 DEF TypeInv, TablesOK, Spent, slack, tables, history
<1> QED
  BY <1>1, <1>4, <1>5, ClientsAlone DEF TypeInv

LEMMA CheckLimitType ==
  ASSUME TypeInv, NEW h \in Handlers, CheckLimit(h)
  PROVE  TypeInv'
<1> DEFINE q == tasks[h]
<1>1. q \in Tasks /\ TaskOK(q) /\ q.pc = "limiting" /\ q.token \in Links /\ q.team \in Teams
  BY TaskFacts DEF CheckLimit, At, TaskOK, OfAccount
<1>2. TasksOK'
  <2>1. CASE Done(h)
    BY <2>1, DoneOK DEF TypeInv
  <2>2. CASE Start(h, [q EXCEPT !.pc = "inserting", !.row = teams[q.team]])
    <3> DEFINE t == [q EXCEPT !.pc = "inserting", !.row = teams[q.team]]
    <3>1. t \in Tasks /\ TaskOK(t)
      BY <1>1 DEF TypeInv, TablesOK, Tasks, Pcs, TaskOK, OfAccount
    <3> QED
      BY <2>2, <3>1, StartOK DEF TypeInv
  <2> QED
    BY <2>1, <2>2 DEF CheckLimit
<1>3. TablesOK' /\ ClientsOK'
  BY <1>1, ClientsAlone DEF CheckLimit, TypeInv, TablesOK, oauth, tables, history
<1> QED
  BY <1>2, <1>3 DEF TypeInv

LEMMA InsertAccountType ==
  ASSUME TypeInv, NEW h \in Handlers, InsertAccount(h)
  PROVE  TypeInv'
<1> DEFINE q == tasks[h]
<1>1. q.pc = "inserting" /\ q.user \in Users /\ q.slack \in SlackIds /\ q.token \in Links
  BY TaskFacts DEF InsertAccount, At, TaskOK, OfAccount
<1>2. TasksOK'
  BY <1>1, ToOK DEF InsertAccount, TypeInv, Pcs, OfAccount
<1>3. AccountOf(q) \in AccountRows
  BY <1>1 DEF AccountOf, AccountRows
<1>4. accounts' \subseteq AccountRows /\ loose' \subseteq Links
  BY <1>3, TaskFacts DEF InsertAccount, TypeInv, TablesOK
<1>5. TablesOK' /\ ClientsOK'
  BY <1>4, ClientsAlone DEF InsertAccount, TypeInv, TablesOK, oauth, slack
<1> QED
  BY <1>2, <1>5 DEF TypeInv

LEMMA SetPuppetTokenType ==
  ASSUME TypeInv, NEW h \in Handlers, SetPuppetToken(h)
  PROVE  TypeInv'
<1> DEFINE q == tasks[h]
<1>1. q.pc = "puppeting" /\ q.user \in Users /\ q.slack \in SlackIds /\ q.token \in Links
      /\ q.team \in Teams
  BY TaskFacts DEF SetPuppetToken, At, TaskOK, OfAccount
<1>2. TasksOK'
  <2>1. CASE Done(h)
    BY <2>1, DoneOK DEF TypeInv
  <2>2. CASE To(h, "starting")
    BY <1>1, <2>2, ToOK DEF TypeInv, Pcs, OfAccount
  <2> QED
    BY <2>1, <2>2 DEF SetPuppetToken
<1>3. AccountOf(q) \in AccountRows /\ Key(h) \in Keys
  BY <1>1 DEF AccountOf, AccountRows, Key, Keys
<1>4. puppets' \subseteq AccountRows /\ again' \subseteq Keys
  BY <1>3 DEF SetPuppetToken, TypeInv, TablesOK
<1>5. TablesOK' /\ ClientsOK'
  BY <1>4, ClientsAlone DEF SetPuppetToken, TypeInv, TablesOK, oauth, slack
<1> QED
  BY <1>2, <1>5 DEF TypeInv

LEMMA UpsertTeamType ==
  ASSUME TypeInv, NEW h \in Handlers, UpsertTeamByToken(h)
  PROVE  TypeInv'
<1> DEFINE q == tasks[h]
<1>1. q.pc = "botting" /\ q.token \in Links /\ q.team \in Teams
  BY TaskFacts DEF UpsertTeamByToken, At, TaskOK, OfAccount
<1>2. TasksOK'
  <2>1. CASE Done(h)
    BY <2>1, DoneOK DEF TypeInv
  <2>2. CASE To(h, "client")
    BY <1>1, <2>2, ToOK DEF TypeInv, Pcs, OfAccount
  <2> QED
    BY <2>1, <2>2 DEF UpsertTeamByToken
<1>3. TeamOfLogin(q) \in TeamRows
  BY <1>1 DEF TeamOfLogin, TeamRows
<1>4. /\ teams' \in [Teams -> TeamRows \cup {NoTeam}]
      /\ last' \in [Teams -> Links \cup {None}] /\ raced' \subseteq Teams
  BY <1>1, <1>3 DEF UpsertTeamByToken, TypeInv, TablesOK
<1>5. TablesOK' /\ ClientsOK'
  BY <1>4, ClientsAlone DEF UpsertTeamByToken, TypeInv, TablesOK, oauth, slack
<1> QED
  BY <1>2, <1>5 DEF TypeInv

-----------------------------------------------------------------------------
(* Clients and connections of puppets *)

LEMMA StartUserClientType ==
  ASSUME TypeInv, NEW h \in Handlers, StartUserClient(h)
  PROVE  TypeInv'
<1> DEFINE q == tasks[h]
<1>1. q.pc = "starting" /\ q.user \in Users /\ q.team \in Teams /\ q.token \in Links
  BY TaskFacts DEF StartUserClient, At, TaskOK, OfAccount
<1>2. Key(h) \in Keys
  BY <1>1 DEF Key, Keys
<1>3. TasksOK'
  <2>1. CASE Done(h)
    BY <2>1, DoneOK DEF TypeInv
  <2>2. CASE To(h, "connecting") \/ To(h, "reading")
    BY <1>1, <2>2, ToOK DEF TypeInv, Pcs, OfAccount
  <2> QED
    BY <2>1, <2>2 DEF StartUserClient
<1>4. rtmUsers' \in [Keys -> Links \cup {None}]
  BY <1>1, <1>2 DEF StartUserClient, TypeInv, ClientsOK
<1>5. TablesOK' /\ ClientsOK'
  BY <1>4, TablesAlone DEF StartUserClient, TypeInv, ClientsOK, clients
<1> QED
  BY <1>3, <1>5 DEF TypeInv

LEMMA ReadPuppetType ==
  ASSUME TypeInv, NEW h \in Handlers, ReadPuppet(h)
  PROVE  TypeInv'
<1> DEFINE q == tasks[h]
<1>1. q \in Tasks /\ TaskOK(q) /\ q.pc = "reading"
  BY TaskFacts DEF ReadPuppet, At
<1>2. TasksOK'
  <2>1. CASE Done(h)
    BY <2>1, DoneOK DEF TypeInv
  <2>2. ASSUME NEW p \in StoredPuppet(h),
               Start(h, [q EXCEPT !.pc = "testing",
                                  !.row = [status |-> "ok", token |-> p.token]])
        PROVE  TasksOK'
    <3> DEFINE t == [q EXCEPT !.pc = "testing",
                              !.row = [status |-> "ok", token |-> p.token]]
    <3>1. p.token \in Links
      BY TaskFacts DEF StoredPuppet, PuppetRow, TypeInv, TablesOK
    <3>2. [status |-> "ok", token |-> p.token] \in TeamRows
      BY <3>1 DEF TeamRows
    <3>3. t \in Tasks /\ TaskOK(t)
      BY <1>1, <3>2 DEF Tasks, Pcs, TaskOK, OfAccount
    <3> QED
      BY <2>2, <3>3, StartOK DEF TypeInv
  <2> QED
    BY <2>1, <2>2 DEF ReadPuppet
<1> QED
  BY <1>2, TablesAlone, ClientsAlone DEF ReadPuppet, TypeInv

LEMMA TestPuppetType ==
  ASSUME TypeInv, NEW h \in Handlers, TestPuppet(h)
  PROVE  TypeInv'
<1> DEFINE q == tasks[h]
<1>1. /\ q \in Tasks /\ TaskOK(q) /\ q.pc = "testing" /\ q.row.token \in Links
      /\ q.flag \in BOOLEAN /\ (q.flag = TRUE => q.token \in Links)
      /\ q.user \in Users /\ q.team \in Teams
  BY TaskFacts DEF TestPuppet, At, TaskOK, Tasks
<1>2. Key(h) \in Keys
  BY <1>1 DEF Key, Keys
<1>3. TasksOK'
  <2>1. CASE Done(h)
    BY <2>1, DoneOK DEF TypeInv
  <2>2. CASE q.flag /\ To(h, "connecting")
    <3> DEFINE t == [q EXCEPT !.pc = "connecting"]
    <3>1. t \in Tasks /\ TaskOK(t)
      BY <1>1, <2>2 DEF Tasks, Pcs, TaskOK, OfAccount
    <3> QED
      BY <2>2, <3>1, StartOK DEF To, TypeInv
  <2> QED
    BY <2>1, <2>2 DEF TestPuppet
<1>4. puppetClients' \in [Keys -> Links \cup {None}]
  BY <1>1, <1>2 DEF TestPuppet, TypeInv, ClientsOK
<1>5. rtmUsers' \in [Keys -> Links \cup {None}]
  BY <1>1, <1>2 DEF TestPuppet, TypeInv, ClientsOK
<1>6. TablesOK' /\ ClientsOK'
  BY <1>4, <1>5, TablesAlone DEF TestPuppet, TypeInv, ClientsOK
<1> QED
  BY <1>3, <1>6 DEF TypeInv

LEMMA ConnectType ==
  ASSUME TypeInv, NEW h \in Handlers, Connect(h)
  PROVE  TypeInv'
<1>1. tasks[h].token \in Links
  BY TaskFacts DEF Connect, At, TaskOK
<1>2. TasksOK'
  BY DoneOK DEF Connect, TypeInv
<1>3. TablesOK' /\ ClientsOK'
  BY <1>1, TablesAlone DEF Connect, TypeInv, ClientsOK, clients
<1> QED
  BY <1>2, <1>3 DEF TypeInv

-----------------------------------------------------------------------------
(* getTeamClient *)

LEMMA GoesOK ==
  ASSUME TypeInv, NEW h \in Handlers, Goes(h) \/ GoesWithout(h),
         tasks[h].pc # "idle"
  PROVE  TasksOK'
<1>1. CASE Done(h)
  BY <1>1, DoneOK DEF TypeInv
<1>2. ASSUME NEW pc \in {"idle", "entering", "rtm"}, To(h, pc), pc = tasks[h].next
      PROVE  TasksOK'
  BY <1>2, ToOK DEF TypeInv, Pcs, OfAccount
<1>3. tasks[h].next \in {"idle", "entering", "rtm"}
  BY TaskFacts DEF Tasks
<1> QED
  BY <1>1, <1>2, <1>3 DEF Goes, GoesWithout

LEMMA LookTeamClientType ==
  ASSUME TypeInv, NEW h \in Handlers, LookTeamClient(h)
  PROVE  TypeInv'
<1>1. tasks[h].pc = "client"
  BY DEF LookTeamClient, At
<1>2. TasksOK'
  <2>1. CASE Goes(h)
    BY <1>1, <2>1, GoesOK
  <2>2. CASE To(h, "readingTeam")
    BY <1>1, <2>2, ToOK DEF TypeInv, Pcs, OfAccount
  <2> QED
    BY <2>1, <2>2 DEF LookTeamClient
<1> QED
  BY <1>2, TablesAlone, ClientsAlone DEF LookTeamClient, TypeInv

LEMMA ReadTeamType ==
  ASSUME TypeInv, NEW h \in Handlers, ReadTeam(h)
  PROVE  TypeInv'
<1> DEFINE q == tasks[h]
<1>1. q \in Tasks /\ TaskOK(q) /\ q.pc = "readingTeam" /\ q.team \in Teams
  BY TaskFacts DEF ReadTeam, At, TaskOK
<1>2. TasksOK'
  <2>1. CASE GoesWithout(h)
    BY <1>1, <2>1, GoesOK
  <2>2. CASE /\ teams[q.team] # NoTeam
             /\ Start(h, [q EXCEPT !.pc = "tryingTeam", !.row = teams[q.team]])
    <3> DEFINE t == [q EXCEPT !.pc = "tryingTeam", !.row = teams[q.team]]
    <3>1. teams[q.team] \in TeamRows
      BY <1>1, <2>2 DEF TypeInv, TablesOK
    <3>2. t \in Tasks /\ TaskOK(t)
      BY <1>1, <3>1 DEF Tasks, Pcs, TaskOK, OfAccount
    <3> QED
      BY <2>2, <3>2, StartOK DEF TypeInv
  <2> QED
    BY <2>1, <2>2 DEF ReadTeam
<1>3. TablesOK' /\ ClientsOK'
  BY <1>1, TablesAlone DEF ReadTeam, TypeInv, ClientsOK, rtm
<1> QED
  BY <1>2, <1>3 DEF TypeInv

LEMMA TryTeamType ==
  ASSUME TypeInv, NEW h \in Handlers, TryTeam(h)
  PROVE  TypeInv'
<1> DEFINE q == tasks[h]
<1>1. q \in Tasks /\ TaskOK(q) /\ q.pc = "tryingTeam" /\ q.team \in Teams /\ q.row \in TeamRows
  BY TaskFacts DEF TryTeam, At, TaskOK
<1>2. PICK ok \in {"ok", "bad_auth"} :
        Start(h, [q EXCEPT !.pc = "writingTeam", !.row = [@ EXCEPT !.status = ok]])
  BY DEF TryTeam
<1>3. [q.row EXCEPT !.status = ok] \in TeamRows
  BY <1>1 DEF TeamRows
<1> DEFINE t == [q EXCEPT !.pc = "writingTeam", !.row = [@ EXCEPT !.status = ok]]
<1>4. t \in Tasks /\ TaskOK(t)
  BY <1>1, <1>3 DEF Tasks, Pcs, TaskOK, OfAccount
<1>5. TasksOK'
  BY <1>2, <1>4, StartOK DEF TypeInv
<1>6. q.row.token \in Links
  BY <1>1, TaskFacts
<1>7. TablesOK' /\ ClientsOK'
  BY <1>1, <1>6, TablesAlone DEF TryTeam, TypeInv, ClientsOK, rtm
<1> QED
  BY <1>5, <1>7 DEF TypeInv

LEMMA WriteTeamType ==
  ASSUME TypeInv, NEW h \in Handlers, WriteTeam(h)
  PROVE  TypeInv'
<1>1. tasks[h].pc = "writingTeam" /\ tasks[h].team \in Teams /\ tasks[h].row \in TeamRows
  BY TaskFacts DEF WriteTeam, At, TaskOK
<1>2. TasksOK'
  BY <1>1, GoesOK DEF WriteTeam
<1>3. TablesOK' /\ ClientsOK'
  BY <1>1, ClientsAlone DEF WriteTeam, TypeInv, TablesOK, oauth, slack, history
<1> QED
  BY <1>2, <1>3 DEF TypeInv

-----------------------------------------------------------------------------
(* Rooms and the connections of teams *)

LEMMA EnterRoomType ==
  ASSUME TypeInv, NEW h \in Handlers, EnterRoom(h)
  PROVE  TypeInv'
<1>1. TasksOK'
  <2>1. CASE Done(h)
    BY <2>1, DoneOK DEF TypeInv
  <2>2. CASE To(h, "joining")
    BY <2>2, ToOK DEF EnterRoom, At, TypeInv, Pcs, OfAccount
  <2> QED
    BY <2>1, <2>2 DEF EnterRoom
<1> QED
  BY <1>1, TablesAlone, ClientsAlone DEF EnterRoom, TypeInv

LEMMA JoinRoomType ==
  ASSUME TypeInv, NEW h \in Handlers, JoinRoom(h)
  PROVE  TypeInv'
<1>1. tasks[h].pc = "joining" /\ tasks[h].team \in Teams /\ tasks[h].room \in MatrixRoomIds
  BY TaskFacts DEF JoinRoom, At, TaskOK
<1>2. TasksOK'
  BY <1>1, ToOK DEF JoinRoom, TypeInv, Pcs, OfAccount
<1>3. TablesOK' /\ ClientsOK'
  BY <1>1, ClientsAlone DEF JoinRoom, TypeInv, TablesOK, oauth, slack
<1> QED
  BY <1>2, <1>3 DEF TypeInv

LEMMA UnlinkType ==
  ASSUME TypeInv, Unlink
  PROVE  TypeInv'
<1>1. TablesOK' /\ ClientsOK' /\ tasks' = tasks
  BY ClientsAlone DEF Unlink, TypeInv, TablesOK, oauth, slack, history
<1> QED
  BY <1>1 DEF TypeInv, TasksOK

LEMMA LookStreamType ==
  ASSUME TypeInv, NEW h \in Handlers, LookStream(h)
  PROVE  TypeInv'
<1> DEFINE q == tasks[h]
<1>1. q \in Tasks /\ TaskOK(q) /\ q.pc = "rtm" /\ q.team \in Teams
  BY TaskFacts DEF LookStream, At, TaskOK
<1>2. TasksOK'
  <2>1. CASE Done(h)
    BY <2>1, DoneOK DEF TypeInv
  <2>2. CASE /\ teams[q.team] # NoTeam
             /\ Start(h, [q EXCEPT !.pc = "rtmStart", !.row = teams[q.team]])
    <3> DEFINE t == [q EXCEPT !.pc = "rtmStart", !.row = teams[q.team]]
    <3>1. teams[q.team] \in TeamRows
      BY <1>1, <2>2 DEF TypeInv, TablesOK
    <3>2. t \in Tasks /\ TaskOK(t)
      BY <1>1, <3>1 DEF Tasks, Pcs, TaskOK, OfAccount
    <3> QED
      BY <2>2, <3>2, StartOK DEF TypeInv
  <2> QED
    BY <2>1, <2>2 DEF LookStream, NeedsNoStream
<1> QED
  BY <1>2, TablesAlone, ClientsAlone DEF LookStream, TypeInv

LEMMA StartStreamType ==
  ASSUME TypeInv, NEW h \in Handlers, StartStream(h)
  PROVE  TypeInv'
<1>1. tasks[h].pc = "rtmStart" /\ tasks[h].team \in Teams
  BY TaskFacts DEF StartStream, At, TaskOK
<1>2. TasksOK'
  <2>1. CASE Done(h)
    BY <2>1, DoneOK DEF TypeInv
  <2>2. CASE To(h, "rtmConnect")
    BY <1>1, <2>2, ToOK DEF TypeInv, Pcs, OfAccount
  <2> QED
    BY <2>1, <2>2 DEF StartStream
<1>3. rtmTeams' \in [Teams -> RtmTeams]
  <2>1. [by |-> h, ok |-> FALSE] \in RtmTeams
    BY DEF RtmTeams
  <2> QED
    BY <1>1, <2>1 DEF StartStream, TypeInv, ClientsOK
<1>4. TablesOK' /\ ClientsOK'
  BY <1>3, TablesAlone DEF StartStream, TypeInv, ClientsOK, clients
<1> QED
  BY <1>2, <1>4 DEF TypeInv

LEMMA ConnectStreamType ==
  ASSUME TypeInv, NEW h \in Handlers, ConnectStream(h)
  PROVE  TypeInv'
<1>1. tasks[h].pc = "rtmConnect" /\ tasks[h].team \in Teams
  BY TaskFacts DEF ConnectStream, At, TaskOK
<1>2. TasksOK'
  BY DoneOK DEF ConnectStream, TypeInv
<1>3. rtmTeams' \in [Teams -> RtmTeams]
  <2>1. \A ok \in BOOLEAN : [by |-> None, ok |-> ok] \in RtmTeams
    BY DEF RtmTeams
  <2> QED
    BY <1>1, <2>1 DEF ConnectStream, TypeInv, ClientsOK
<1>4. streams' \in [Teams -> Nat]
  BY <1>1 DEF ConnectStream, TypeInv, ClientsOK
<1>5. TablesOK' /\ ClientsOK'
  BY <1>3, <1>4, TablesAlone DEF ConnectStream, TypeInv, ClientsOK, clients
<1> QED
  BY <1>2, <1>5 DEF TypeInv

-----------------------------------------------------------------------------
(* logoutAccount *)

LEMMA CountAccountsType ==
  ASSUME TypeInv, NEW h \in Handlers, CountAccounts(h)
  PROVE  TypeInv'
<1>1. tasks[h].pc = "counting" /\ tasks[h].team \in Teams
  BY TaskFacts DEF CountAccounts, At, TaskOK
<1>2. TasksOK'
  <2>1. CASE Done(h)
    BY <2>1, DoneOK DEF TypeInv
  <2>2. CASE To(h, "revoking") \/ To(h, "deletingTeam")
    BY <1>1, <2>2, ToOK DEF TypeInv, Pcs, OfAccount
  <2> QED
    BY <2>1, <2>2 DEF CountAccounts
<1>3. TablesOK' /\ ClientsOK'
  BY <1>1, TablesAlone DEF CountAccounts, TypeInv, ClientsOK, rtm
<1> QED
  BY <1>2, <1>3 DEF TypeInv

LEMMA DeleteTeamType ==
  ASSUME TypeInv, NEW h \in Handlers, DeleteTeam(h)
  PROVE  TypeInv'
<1>1. tasks[h].pc = "deletingTeam" /\ tasks[h].team \in Teams
  BY TaskFacts DEF DeleteTeam, At, TaskOK
<1>2. TasksOK'
  BY <1>1, ToOK DEF DeleteTeam, TypeInv, Pcs, OfAccount
<1>3. TablesOK' /\ ClientsOK'
  BY <1>1, ClientsAlone DEF DeleteTeam, TypeInv, TablesOK, oauth, slack
<1> QED
  BY <1>2, <1>3 DEF TypeInv

LEMMA RevokeType ==
  ASSUME TypeInv, NEW h \in Handlers, Revoke(h)
  PROVE  TypeInv'
<1>1. tasks[h].pc = "revoking" /\ tasks[h].token \in Links
  BY TaskFacts DEF Revoke, At, TaskOK, OfAccount
<1>2. TasksOK'
  BY <1>1, ToOK DEF Revoke, TypeInv, Pcs, OfAccount
<1>3. dead' \subseteq Links /\ open' \subseteq Links /\ loose' \subseteq Links
  BY <1>1 DEF Revoke, Revoked, TypeInv, TablesOK, ClientsOK
<1>4. TablesOK' /\ ClientsOK'
  BY <1>3 DEF Revoke, TypeInv, TablesOK, ClientsOK, oauth, tables, clients
<1> QED
  BY <1>2, <1>4 DEF TypeInv

LEMMA DeleteAccountType ==
  ASSUME TypeInv, NEW h \in Handlers, DeleteAccount(h)
  PROVE  TypeInv'
<1>1. TasksOK'
  BY DoneOK DEF DeleteAccount, TypeInv
<1>2. accounts' \subseteq AccountRows /\ loose' \subseteq Links
  BY TaskFacts DEF DeleteAccount, TypeInv, TablesOK
<1>3. TablesOK' /\ ClientsOK'
  BY <1>2, ClientsAlone DEF DeleteAccount, TypeInv, TablesOK, oauth, slack
<1> QED
  BY <1>1, <1>3 DEF TypeInv

-----------------------------------------------------------------------------
(* Restart, the limit on users, and Slack *)

LEMMA DisconnectAllOK ==
  ASSUME DisconnectAll
  PROVE  /\ rtmUsers' \in [Keys -> Links \cup {None}] /\ rtmTeams' \in [Teams -> RtmTeams]
         /\ open' \subseteq Links /\ streams' \in [Teams -> Nat]
<1>1. NoStream \in RtmTeams
  BY DEF NoStream, RtmTeams
<1> QED
  BY <1>1 DEF DisconnectAll

LEMMA RestartType ==
  ASSUME TypeInv, Restart
  PROVE  TypeInv'
<1>1. TasksOK'
  BY IdleOK DEF Restart, TasksOK
<1>2. TablesOK'
  BY DEF Restart, TypeInv, TablesOK, slack, tables
<1>3. ToStart \in [puppets : SUBSET AccountRows, teams : SUBSET Teams]
  BY DEF ToStart, TypeInv, TablesOK
<1>4. ClientsOK'
  BY <1>3, DisconnectAllOK DEF Restart, ClientsOK
<1> QED
  BY <1>1, <1>2, <1>4 DEF TypeInv

LEMMA BlockType ==
  ASSUME TypeInv, Block
  PROVE  TypeInv'
<1>1. TasksOK'
  <2> DEFINE t(h) == [tasks[h] EXCEPT !.stray = @ \/ InRtm(tasks[h])]
  <2>1. ASSUME NEW h \in Handlers
        PROVE  t(h) \in Tasks /\ TaskOK(t(h))
    <3>1. tasks[h] \in Tasks /\ TaskOK(tasks[h])
      BY TaskFacts
    <3>2. (tasks[h].stray \/ InRtm(tasks[h])) \in BOOLEAN
      BY <3>1 DEF Tasks, InRtm
    <3>3. t(h) \in Tasks
      BY <3>1, <3>2 DEF Tasks
    <3>4. \A f \in {"pc", "user", "slack", "team", "room", "token", "row", "next", "flag"} :
            t(h)[f] = tasks[h][f]
      BY <3>1 DEF Tasks
    <3> HIDE DEF t
    <3> QED
      BY <3>1, <3>3, <3>4 DEF TaskOK, OfAccount
  <2>2. tasks' = [h \in Handlers |-> t(h)]
    BY DEF Block
  <2> HIDE DEF t
  <2> QED
    BY <2>1, <2>2 DEF TasksOK
<1>2. strayed' \in BOOLEAN
  BY DEF Block
<1>3. TablesOK'
  BY <1>2 DEF Block, TypeInv, TablesOK, oauth, slack, tables
<1>4. ClientsOK'
  BY DisconnectAllOK DEF Block, TypeInv, ClientsOK, clients
<1> QED
  BY <1>1, <1>3, <1>4 DEF TypeInv

LEMMA SlackType ==
  ASSUME TypeInv, Unblock \/ Uninstall
  PROVE  TypeInv'
<1>1. tasks' = tasks
  BY DEF Unblock, Uninstall
<1>2. CASE Unblock
  <2>1. TablesOK' /\ ClientsOK'
    BY <1>2, TablesAlone DEF Unblock, TypeInv, ClientsOK, clients
  <2> QED
    BY <1>1, <2>1 DEF TypeInv, TasksOK
<1>3. CASE Uninstall
  <2>1. PICK s \in world.slack, given \in SUBSET Links :
          /\ dead' = dead \cup given /\ deadBots' = deadBots \cup given
          /\ open' = open \ given
          /\ streams' = [streams EXCEPT ![TeamOf(s)] = 0]
          /\ UNCHANGED <<world, oauth, tables, clients, rtmUsers, rtmTeams, gate,
                         starting, tasks, history>>
    BY <1>3 DEF Uninstall
  <2>2. TablesOK' /\ ClientsOK'
    BY <2>1 DEF TypeInv, TablesOK, ClientsOK, oauth, tables, clients, history
  <2> QED
    BY <1>1, <2>2 DEF TypeInv, TasksOK
<1> QED
  BY <1>2, <1>3

-----------------------------------------------------------------------------
(* The type invariant *)

LEMMA InitType == Init => TypeInv
<1> SUFFICES ASSUME Init PROVE TypeInv
  OBVIOUS
<1>1. TablesOK
  BY DEF Init, TablesOK
<1>2. ClientsOK
  BY DEF Init, ClientsOK, NoStream, RtmTeams, NothingStarts
<1>3. TasksOK
  BY IdleOK DEF Init, TasksOK
<1> QED
  BY <1>1, <1>2, <1>3 DEF TypeInv

LEMMA StepType == TypeInv /\ [Next]_vars => TypeInv'
<1> SUFFICES ASSUME TypeInv, [Next]_vars PROVE TypeInv'
  OBVIOUS
<1>1. ASSUME NEW h \in Handlers, Requests(h) PROVE TypeInv'
  BY <1>1, AuthorizeType, BeginsType DEF Requests, Begins
<1>2. ASSUME NEW h \in Handlers, Continues(h) PROVE TypeInv'
  <2>1. CASE CheckLimit(h) \/ InsertAccount(h) \/ SetPuppetToken(h) \/ UpsertTeamByToken(h)
    BY <2>1, CheckLimitType, InsertAccountType, SetPuppetTokenType, UpsertTeamType
  <2>2. CASE StartUserClient(h) \/ ReadPuppet(h) \/ TestPuppet(h) \/ Connect(h)
    BY <2>2, StartUserClientType, ReadPuppetType, TestPuppetType, ConnectType
  <2>3. CASE LookTeamClient(h) \/ ReadTeam(h) \/ TryTeam(h) \/ WriteTeam(h)
    BY <2>3, LookTeamClientType, ReadTeamType, TryTeamType, WriteTeamType
  <2>4. CASE EnterRoom(h) \/ JoinRoom(h) \/ LookStream(h) \/ StartStream(h) \/ ConnectStream(h)
    BY <2>4, EnterRoomType, JoinRoomType, LookStreamType, StartStreamType, ConnectStreamType
  <2>5. CASE CountAccounts(h) \/ DeleteTeam(h) \/ Revoke(h) \/ DeleteAccount(h)
    BY <2>5, CountAccountsType, DeleteTeamType, RevokeType, DeleteAccountType
  <2> QED
    BY <1>2, <2>1, <2>2, <2>3, <2>4, <2>5 DEF Continues
<1>3. ASSUME NEW h \in Handlers, StartPuppet(h) \/ StartTeam(h) PROVE TypeInv'
  BY <1>3, BeginsType DEF Begins
<1>4. CASE AskLink \/ Expire \/ Unlink \/ Uninstall \/ Block \/ Unblock \/ Restart
  BY <1>4, OAuthType, UnlinkType, SlackType, BlockType, RestartType
<1>5. CASE UNCHANGED vars
  <2>1. TablesOK' /\ ClientsOK' /\ tasks' = tasks
    BY <1>5, TablesAlone, ClientsAlone DEF vars, TypeInv
  <2> QED
    BY <2>1 DEF TypeInv, TasksOK
<1> QED
  BY <1>1, <1>2, <1>3, <1>4, <1>5 DEF Next

\* Every table, map and task of the account handlers holds what it is meant
\* to, and a handler finds in its task what its place in the code reads.
THEOREM TypeInvariant == Spec => []TypeInv
  BY InitType, StepType, PTL DEF Spec

\* The types of the accounts, teams, clients and connections (SlackClientFactory,
\* SlackRTMHandler, OAuth2, the tables of PgDatastore) hold in every state.
THEOREM TypeCorrect == Spec => []TypeOK
  BY TypeInvariant, TypeInvTypeOK, PTL

-----------------------------------------------------------------------------
(* The book of accounts *)

\* A link is with the map of OAuth2 or with one login, and was made before.
LinksInv ==
    \A l \in Links :
        /\ waiting[l] # None => l \in issued /\ Storing(l) = {}
        /\ Storing(l) # {} => l \in issued
        /\ \A h, g \in Storing(l) : h = g

Stores(q) == q.pc \in {"limiting", "inserting"}

\* What AccountBook calls invited.
Invitations == [l \in Links |-> Invited(l)]

LEMMA ChooseOne ==
  ASSUME NEW S, NEW h \in S, \A g \in S : g = h
  PROVE  (CHOOSE g \in S : TRUE) = h
  OBVIOUS

LEMMA InvitedIs ==
  ASSUME LinksInv, NEW l \in Links
  PROVE  /\ waiting[l] # None => Invited(l) = waiting[l]
         /\ \A h \in Storing(l) : Invited(l) = tasks[h].user
         /\ waiting[l] = None /\ Storing(l) = {} => Invited(l) = None
<1>1. ASSUME NEW h \in Storing(l)
      PROVE  Invited(l) = tasks[h].user
  <2>1. waiting[l] = None /\ Storing(l) # {} /\ \A g \in Storing(l) : g = h
    BY DEF LinksInv
  <2>2. (CHOOSE g \in Storing(l) : TRUE) = h
    BY <2>1, ChooseOne
  <2> QED
    BY <2>1, <2>2 DEF Invited
<1> QED
  BY <1>1 DEF Invited

LEMMA InvitedBecomes ==
  ASSUME LinksInv', NEW l \in Links
  PROVE  /\ waiting'[l] # None => Invited(l)' = waiting'[l]
         /\ \A h \in Storing(l)' : Invited(l)' = tasks'[h].user
         /\ waiting'[l] = None /\ Storing(l)' = {} => Invited(l)' = None
<1>1. ASSUME NEW h \in Storing(l)'
      PROVE  Invited(l)' = tasks'[h].user
  <2>1. waiting'[l] = None /\ Storing(l)' # {} /\ \A g \in Storing(l)' : g = h
    BY DEF LinksInv
  <2>2. (CHOOSE g \in Storing(l)' : TRUE) = h
    BY <2>1, ChooseOne
  <2> QED
    BY <2>1, <2>2 DEF Invited
<1> QED
  BY <1>1 DEF Invited

LEMMA InvitedAlone ==
  ASSUME LinksInv, LinksInv', NEW l \in Links, waiting'[l] = waiting[l],
         Storing(l)' = Storing(l), \A h \in Storing(l) : tasks'[h].user = tasks[h].user
  PROVE  Invited(l)' = Invited(l)
<1>1. CASE waiting[l] # None
  BY <1>1, InvitedIs, InvitedBecomes
<1>2. CASE waiting[l] = None /\ Storing(l) = {}
  BY <1>2, InvitedIs, InvitedBecomes
<1>3. ASSUME NEW h \in Storing(l) PROVE Invited(l)' = Invited(l)
  BY <1>3, InvitedIs, InvitedBecomes
<1> QED
  BY <1>1, <1>2, <1>3

\* A step that leaves the links, and the logins that hold them, alone.
LEMMA BookAlone ==
  ASSUME LinksInv, UNCHANGED <<waiting, issued>>,
         \A l \in Links : Storing(l)' = Storing(l),
         \A l \in Links : \A h \in Storing(l) : tasks'[h].user = tasks[h].user
  PROVE  LinksInv' /\ Invitations' = Invitations
<1>1. LinksInv'
  BY DEF LinksInv
<1>2. ASSUME NEW l \in Links PROVE Invited(l)' = Invited(l)
  BY <1>1, InvitedAlone
<1> QED
  BY <1>1, <1>2 DEF Invitations

\* A handler goes where no link is held: if it held one, that is void now.
LEMMA HandlerLeaves ==
  ASSUME TypeInv, LinksInv, NEW h \in Handlers, NEW t, Start(h, t), ~Stores(t),
         UNCHANGED <<waiting, issued>>
  PROVE  /\ LinksInv'
         /\ Invitations' = [l \in Links |-> IF h \in Storing(l) THEN None ELSE Invitations[l]]
<1>1. ASSUME NEW l \in Links PROVE Storing(l)' = Storing(l) \ {h}
  BY DEF Storing, Start, Stores, TypeInv, TasksOK
<1>2. LinksInv'
  BY <1>1 DEF LinksInv
<1>3. \A g \in Handlers \ {h} : tasks'[g] = tasks[g]
  BY DEF Start, TypeInv, TasksOK
<1>4. ASSUME NEW l \in Links
      PROVE  Invited(l)' = IF h \in Storing(l) THEN None ELSE Invited(l)
  <2>1. CASE h \in Storing(l)
    <3>1. waiting'[l] = None /\ Storing(l)' = {}
      BY <1>1, <2>1 DEF LinksInv
    <3> QED
      BY <1>2, <2>1, <3>1, InvitedBecomes
  <2>2. CASE h \notin Storing(l)
    <3>1. Storing(l)' = Storing(l)
      BY <1>1, <2>2
    <3>2. \A g \in Storing(l) : tasks'[g] = tasks[g]
      BY <1>3, <2>2 DEF Storing
    <3> QED
      BY <1>2, <2>2, <3>1, <3>2, InvitedAlone
  <2> QED
    BY <2>1, <2>2
<1> QED
  BY <1>2, <1>4 DEF Invitations

\* ... and if it held none, nothing changes.
LEMMA HandlerAside ==
  ASSUME TypeInv, LinksInv, NEW h \in Handlers, NEW t, Start(h, t), ~Stores(t),
         ~Stores(tasks[h]), UNCHANGED <<waiting, issued>>
  PROVE  LinksInv' /\ Invitations' = Invitations
<1>1. \A l \in Links : h \notin Storing(l)
  BY DEF Storing, Stores
<1> QED
  BY <1>1, HandlerLeaves DEF Invitations

LEMMA ToAside ==
  ASSUME TypeInv, LinksInv, NEW h \in Handlers, ~Stores(tasks[h]), UNCHANGED <<waiting, issued>>,
         Done(h) \/ \E pc \in Pcs \ {"limiting", "inserting"} : To(h, pc)
  PROVE  LinksInv' /\ Invitations' = Invitations
<1>1. CASE Done(h)
  <2>1. ~Stores(Idle)
    BY DEF Stores, Idle
  <2> QED
    BY <1>1, <2>1, HandlerAside DEF Done
<1>2. ASSUME NEW pc \in Pcs \ {"limiting", "inserting"}, To(h, pc)
      PROVE  LinksInv' /\ Invitations' = Invitations
  <2>1. ~Stores([tasks[h] EXCEPT !.pc = pc])
    BY TaskFacts DEF Stores, Tasks
  <2> QED
    BY <1>2, <2>1, HandlerAside DEF To
<1> QED
  BY <1>1, <1>2

LEMMA RowAside ==
  ASSUME TypeInv, LinksInv, NEW h \in Handlers, ~Stores(tasks[h]), UNCHANGED <<waiting, issued>>,
         NEW pc \in Pcs \ {"limiting", "inserting"}, NEW row,
         Start(h, [tasks[h] EXCEPT !.pc = pc, !.row = row])
  PROVE  LinksInv' /\ Invitations' = Invitations
<1>1. ~Stores([tasks[h] EXCEPT !.pc = pc, !.row = row])
  BY TaskFacts DEF Stores, Tasks
<1> QED
  BY <1>1, HandlerAside

\* The steps of handlers that have no part in the book.
LEMMA BeginsAside ==
  ASSUME TypeInv, LinksInv, NEW h \in Handlers, Begins(h)
  PROVE  LinksInv' /\ Invitations' = Invitations /\ UNCHANGED <<issued, accounts>>
<1>1. ~Stores(tasks[h]) /\ UNCHANGED <<waiting, issued, accounts>>
  BY BeginsAt DEF Stores, oauth, tables
<1> QED
  BY <1>1, BeginsAt, HandlerAside DEF Stores

LEMMA ClientsAside ==
  ASSUME TypeInv, LinksInv, NEW h \in Handlers,
         \/ SetPuppetToken(h) \/ UpsertTeamByToken(h)
         \/ StartUserClient(h) \/ ReadPuppet(h) \/ TestPuppet(h) \/ Connect(h)
  PROVE  LinksInv' /\ Invitations' = Invitations /\ UNCHANGED <<issued, accounts>>
<1>1. ~Stores(tasks[h]) /\ UNCHANGED <<waiting, issued, accounts>>
  BY DEF SetPuppetToken, UpsertTeamByToken, StartUserClient, ReadPuppet, TestPuppet, Connect,
         At, Stores, oauth, tables
<1>2. CASE Done(h) \/ To(h, "starting") \/ To(h, "client") \/ To(h, "connecting")
           \/ To(h, "reading")
  BY <1>1, <1>2, ToAside DEF Pcs
<1>3. CASE \E p \in StoredPuppet(h) :
             Start(h, [tasks[h] EXCEPT !.pc = "testing",
                                       !.row = [status |-> "ok", token |-> p.token]])
  BY <1>1, <1>3, RowAside DEF Pcs
<1> QED
  BY <1>1, <1>2, <1>3
  DEF SetPuppetToken, UpsertTeamByToken, StartUserClient, ReadPuppet, TestPuppet, Connect

LEMMA TeamsAside ==
  ASSUME TypeInv, LinksInv, NEW h \in Handlers,
         LookTeamClient(h) \/ ReadTeam(h) \/ TryTeam(h) \/ WriteTeam(h)
  PROVE  LinksInv' /\ Invitations' = Invitations /\ UNCHANGED <<issued, accounts>>
<1>1. ~Stores(tasks[h]) /\ UNCHANGED <<waiting, issued, accounts>>
  BY DEF LookTeamClient, ReadTeam, TryTeam, WriteTeam, At, Stores, oauth, tables
<1>2. CASE Goes(h) \/ GoesWithout(h) \/ To(h, "readingTeam")
  <2>1. tasks[h].next \in Pcs \ {"limiting", "inserting"}
    BY TaskFacts DEF Tasks, Pcs
  <2> QED
    BY <1>1, <1>2, <2>1, ToAside DEF Goes, GoesWithout, Pcs
<1>3. CASE ReadTeam(h) /\ ~GoesWithout(h)
  <2>1. Start(h, [tasks[h] EXCEPT !.pc = "tryingTeam", !.row = teams[tasks[h].team]])
    BY <1>3 DEF ReadTeam
  <2> QED
    BY <1>1, <2>1, RowAside DEF Pcs
<1>4. CASE TryTeam(h)
  <2>1. PICK ok \in {"ok", "bad_auth"} :
          Start(h, [tasks[h] EXCEPT !.pc = "writingTeam", !.row = [@ EXCEPT !.status = ok]])
    BY <1>4 DEF TryTeam
  <2> QED
    BY <1>1, <2>1, RowAside DEF Pcs
<1> QED
  BY <1>1, <1>2, <1>3, <1>4 DEF LookTeamClient, ReadTeam, TryTeam, WriteTeam

LEMMA RoomsAside ==
  ASSUME TypeInv, LinksInv, NEW h \in Handlers,
         EnterRoom(h) \/ JoinRoom(h) \/ LookStream(h) \/ StartStream(h) \/ ConnectStream(h)
  PROVE  LinksInv' /\ Invitations' = Invitations /\ UNCHANGED <<issued, accounts>>
<1>1. ~Stores(tasks[h]) /\ UNCHANGED <<waiting, issued, accounts>>
  BY DEF EnterRoom, JoinRoom, LookStream, StartStream, ConnectStream, At, Stores, oauth, tables
<1>2. CASE Done(h) \/ To(h, "joining") \/ To(h, "rtm") \/ To(h, "rtmConnect")
  BY <1>1, <1>2, ToAside DEF Pcs
<1>3. CASE LookStream(h) /\ ~Done(h)
  <2>1. Start(h, [tasks[h] EXCEPT !.pc = "rtmStart", !.row = teams[tasks[h].team]])
    BY <1>3 DEF LookStream
  <2> QED
    BY <1>1, <2>1, RowAside DEF Pcs
<1> QED
  BY <1>1, <1>2, <1>3 DEF EnterRoom, JoinRoom, LookStream, StartStream, ConnectStream

LEMMA LogoutAside ==
  ASSUME TypeInv, LinksInv, NEW h \in Handlers, CountAccounts(h) \/ DeleteTeam(h) \/ Revoke(h)
  PROVE  LinksInv' /\ Invitations' = Invitations /\ UNCHANGED <<issued, accounts>>
<1>1. ~Stores(tasks[h]) /\ UNCHANGED <<waiting, issued, accounts>>
  BY DEF CountAccounts, DeleteTeam, Revoke, At, Stores, oauth, tables
<1>2. Done(h) \/ To(h, "revoking") \/ To(h, "deletingTeam") \/ To(h, "deleting")
  BY DEF CountAccounts, DeleteTeam, Revoke
<1> QED
  BY <1>1, <1>2, ToAside DEF Pcs

LEMMA WorldAside ==
  ASSUME TypeInv, LinksInv, Unlink \/ Block \/ Unblock \/ Uninstall \/ UNCHANGED vars
  PROVE  LinksInv' /\ Invitations' = Invitations /\ UNCHANGED <<issued, accounts>>
<1>1. UNCHANGED <<waiting, issued, accounts>>
  BY DEF Unlink, Block, Unblock, Uninstall, vars, oauth, tables
<1>2. \A h \in Handlers : tasks'[h].pc = tasks[h].pc /\ tasks'[h].token = tasks[h].token
                          /\ tasks'[h].user = tasks[h].user
  <2>1. CASE Block
    BY <2>1, TaskFacts DEF Block, Tasks
  <2>2. CASE Unlink \/ Unblock \/ Uninstall \/ UNCHANGED vars
    BY <2>2 DEF Unlink, Unblock, Uninstall, vars
  <2> QED
    BY <2>1, <2>2
<1>3. \A l \in Links : Storing(l)' = Storing(l)
  BY <1>2 DEF Storing
<1> QED
  BY <1>1, <1>2, <1>3, BookAlone DEF Storing

\* The steps that have: each maps to an action of AccountBook.
LEMMA AskLinkBook ==
  ASSUME TypeInv, LinksInv, AskLink
  PROVE  LinksInv' /\ Book!Next
<1>1. PICK user \in Users : GetPreauthToken(user)
  BY TaskFacts DEF AskLink
<1>2. PICK l \in Links \ issued :
        waiting' = [waiting EXCEPT ![l] = user] /\ issued' = issued \cup {l}
  BY <1>1 DEF GetPreauthToken
<1>3. /\ UNCHANGED <<accounts, tasks>> /\ \A m \in Links : Storing(m)' = Storing(m)
      /\ Storing(l) = {} /\ waiting \in [Links -> Users \cup {None}] /\ user # None
  BY <1>1, <1>2, TaskFacts DEF GetPreauthToken, tables, Storing, LinksInv, TypeInv, TablesOK
<1>4. LinksInv'
  BY <1>2, <1>3 DEF LinksInv
<1>5. ASSUME NEW m \in Links PROVE Invited(m)' = IF m = l THEN user ELSE Invited(m)
  BY <1>2, <1>3, <1>4, InvitedAlone, InvitedBecomes
<1>6. Invitations' = [Invitations EXCEPT ![l] = user]
  BY <1>5 DEF Invitations
<1>7. Book!Invite(l, user)
  BY <1>2, <1>3, <1>6 DEF Book!Invite, Invitations
<1> QED
  BY <1>4, <1>7 DEF Book!Next

LEMMA ExpireBook ==
  ASSUME TypeInv, LinksInv, Expire
  PROVE  LinksInv' /\ Book!Next
<1>1. PICK l \in Links :
        /\ waiting[l] # None /\ waiting' = [waiting EXCEPT ![l] = None]
        /\ UNCHANGED <<issued, accounts, tasks>>
  BY DEF Expire, tables
<1>2. /\ \A m \in Links : Storing(m)' = Storing(m)
      /\ Storing(l) = {} /\ waiting \in [Links -> Users \cup {None}]
  BY <1>1 DEF Storing, LinksInv, TypeInv, TablesOK
<1>3. LinksInv'
  BY <1>1, <1>2 DEF LinksInv
<1>4. ASSUME NEW m \in Links PROVE Invited(m)' = IF m \in {l} THEN None ELSE Invited(m)
  BY <1>1, <1>2, <1>3, InvitedAlone, InvitedBecomes
<1>5. Book!Lapse({l})
  BY <1>1, <1>4 DEF Book!Lapse, Invitations
<1> QED
  BY <1>3, <1>5 DEF Book!Next

LEMMA AuthorizeBook ==
  ASSUME TypeInv, LinksInv, NEW h \in Handlers, Authorize(h)
  PROVE  LinksInv' /\ Invitations' = Invitations /\ UNCHANGED <<issued, accounts>>
<1>1. PICK l \in Links, s \in world.slack, puppeting \in BOOLEAN :
        /\ waiting[l] # None /\ waiting' = [waiting EXCEPT ![l] = None]
        /\ Start(h, [Idle EXCEPT !.pc = "limiting", !.user = waiting[l], !.slack = s,
                                 !.team = TeamOf(s), !.token = l, !.flag = puppeting])
        /\ tasks[h].pc = "idle" /\ UNCHANGED <<issued, accounts>>
  BY DEF Authorize, Spent, Accepts, At, tables
<1>2. /\ \A g \in Handlers \ {h} : tasks'[g] = tasks[g]
      /\ tasks'[h].pc = "limiting" /\ tasks'[h].token = l /\ tasks'[h].user = waiting[l]
      /\ waiting \in [Links -> Users \cup {None}]
  BY <1>1 DEF Start, Idle, TypeInv, TasksOK, TablesOK
<1>3. Storing(l) = {} /\ l \in issued
  BY <1>1 DEF LinksInv
<1>4. \A m \in Links : Storing(m)' = IF m = l THEN {h} ELSE Storing(m)
  BY <1>1, <1>2, <1>3 DEF Storing
<1>5. LinksInv'
  BY <1>1, <1>2, <1>3, <1>4 DEF LinksInv
<1>6. ASSUME NEW m \in Links PROVE Invited(m)' = Invited(m)
  <2>1. CASE m = l
    BY <1>1, <1>2, <1>4, <1>5, <2>1, InvitedIs, InvitedBecomes
  <2>2. CASE m # l
    <3>1. \A g \in Storing(m) : tasks'[g] = tasks[g]
      BY <1>1, <1>2 DEF Storing
    <3> QED
      BY <1>1, <1>2, <1>4, <1>5, <2>2, <3>1, InvitedAlone
  <2> QED
    BY <2>1, <2>2
<1> QED
  BY <1>1, <1>5, <1>6 DEF Invitations

\* The link of a login that stores is the one it holds, and no other.
LEMMA HoldsItsLink ==
  ASSUME NEW h \in Handlers, Stores(tasks[h])
  PROVE  \A l \in Links : h \in Storing(l) <=> l = tasks[h].token
  BY DEF Storing, Stores

LEMMA CheckLimitBook ==
  ASSUME TypeInv, LinksInv, NEW h \in Handlers, CheckLimit(h)
  PROVE  /\ LinksInv'
         /\ Book!Next \/ (Invitations' = Invitations /\ UNCHANGED <<issued, accounts>>)
<1> DEFINE q == tasks[h]
<1>1. /\ q \in Tasks /\ q.pc = "limiting" /\ q.token \in Links /\ Stores(q)
      /\ UNCHANGED <<waiting, issued, accounts>>
  BY TaskFacts DEF CheckLimit, At, TaskOK, OfAccount, Stores, oauth, tables
<1>2. CASE Done(h)
  <2>1. ~Stores(Idle)
    BY DEF Stores, Idle
  <2>2. /\ LinksInv'
        /\ Invitations' = [l \in Links |-> IF h \in Storing(l) THEN None ELSE Invitations[l]]
    BY <1>1, <1>2, <2>1, HandlerLeaves DEF Done
  <2>3. Book!Lapse({q.token})
    BY <1>1, <2>2, HoldsItsLink DEF Book!Lapse, Invitations
  <2> QED
    BY <1>1, <2>2, <2>3 DEF Book!Next
<1>3. CASE Start(h, [q EXCEPT !.pc = "inserting", !.row = teams[q.team]])
  <2>1. /\ tasks'[h].pc = "inserting" /\ tasks'[h].token = q.token /\ tasks'[h].user = q.user
        /\ \A g \in Handlers \ {h} : tasks'[g] = tasks[g]
    BY <1>1, <1>3 DEF Start, Tasks, TypeInv, TasksOK
  <2>2. \A l \in Links : Storing(l)' = Storing(l)
    BY <1>1, <2>1 DEF Storing
  <2>3. \A g \in Handlers : tasks'[g].user = tasks[g].user
    BY <2>1
  <2> QED
    BY <1>1, <2>2, <2>3, BookAlone DEF Storing
<1> QED
  BY <1>2, <1>3 DEF CheckLimit

LEMMA InsertAccountBook ==
  ASSUME TypeInv, LinksInv, NEW h \in Handlers, InsertAccount(h)
  PROVE  LinksInv' /\ Book!Next
<1> DEFINE q == tasks[h]
<1>1. /\ q \in Tasks /\ q.pc = "inserting" /\ q.token \in Links /\ Stores(q)
      /\ q.user \in Users /\ q.slack \in SlackIds /\ UNCHANGED <<waiting, issued>>
  BY TaskFacts DEF InsertAccount, At, TaskOK, OfAccount, Stores, oauth
<1>2. \E pc \in Pcs \ {"limiting", "inserting"} : To(h, pc)
  BY DEF InsertAccount, Pcs
<1>3. /\ LinksInv'
      /\ Invitations' = [l \in Links |-> IF h \in Storing(l) THEN None ELSE Invitations[l]]
  <2>1. PICK pc \in Pcs \ {"limiting", "inserting"} : To(h, pc)
    BY <1>2
  <2>2. ~Stores([q EXCEPT !.pc = pc])
    BY <1>1 DEF Stores, Tasks
  <2> QED
    BY <1>1, <2>1, <2>2, HandlerLeaves DEF To
<1>4. Invitations' = [Invitations EXCEPT ![q.token] = None]
  BY <1>1, <1>3, HoldsItsLink DEF Invitations
<1>5. Invited(q.token) = q.user /\ q.user # None
  BY <1>1, InvitedIs, HoldsItsLink, TaskFacts
<1>6. accounts' = {b \in accounts : b.user # q.user \/ b.slack # q.slack}
                    \cup {[user |-> q.user, slack |-> q.slack, token |-> q.token]}
  BY DEF InsertAccount, AccountOf
<1>7. Book!Enter(q.token, q.slack)
  BY <1>1, <1>4, <1>5, <1>6 DEF Book!Enter, Invitations
<1> QED
  BY <1>1, <1>3, <1>7 DEF Book!Next

LEMMA DeleteAccountBook ==
  ASSUME TypeInv, LinksInv, NEW h \in Handlers, DeleteAccount(h)
  PROVE  LinksInv' /\ Book!Next
<1> DEFINE q == tasks[h]
<1>1. q.user \in Users /\ q.slack \in SlackIds /\ ~Stores(q) /\ UNCHANGED <<waiting, issued>>
  BY TaskFacts DEF DeleteAccount, At, TaskOK, OfAccount, Stores, oauth
<1>2. LinksInv' /\ Invitations' = Invitations
  BY <1>1, ToAside DEF DeleteAccount
<1>3. accounts' = {b \in accounts : b.user # q.user \/ b.slack # q.slack}
  BY DEF DeleteAccount
<1>4. Book!Leave(q.user, q.slack)
  BY <1>1, <1>2, <1>3 DEF Book!Leave, Invitations
<1> QED
  BY <1>1, <1>2, <1>4 DEF Book!Next

LEMMA RestartBook ==
  ASSUME TypeInv, LinksInv, Restart
  PROVE  LinksInv' /\ Book!Next
<1>1. /\ waiting' = [l \in Links |-> None] /\ tasks' = [h \in Handlers |-> Idle]
      /\ UNCHANGED <<issued, accounts>>
  BY DEF Restart, tables
<1>2. \A l \in Links : Storing(l)' = {} /\ Invited(l)' = None
  BY <1>1 DEF Storing, Invited, Idle
<1>3. LinksInv'
  BY <1>1, <1>2 DEF LinksInv
<1>4. Book!Lapse(Links)
  BY <1>1, <1>2 DEF Book!Lapse
<1> QED
  BY <1>3, <1>4 DEF Book!Next

LEMMA StepBook ==
  ASSUME TypeInv, LinksInv, [Next]_vars
  PROVE  LinksInv' /\ [Book!Next]_Book!vars
<1>1. CASE LinksInv' /\ Invitations' = Invitations /\ UNCHANGED <<issued, accounts>>
  BY <1>1 DEF Book!vars, Invitations
<1>2. ASSUME NEW h \in Handlers, Requests(h) \/ Continues(h) \/ StartPuppet(h) \/ StartTeam(h)
      PROVE  LinksInv' /\ [Book!Next]_Book!vars
  <2>1. CASE Begins(h)
    BY <1>1, <2>1, BeginsAside
  <2>2. CASE \/ SetPuppetToken(h) \/ UpsertTeamByToken(h)
             \/ StartUserClient(h) \/ ReadPuppet(h) \/ TestPuppet(h) \/ Connect(h)
    BY <1>1, <2>2, ClientsAside
  <2>3. CASE LookTeamClient(h) \/ ReadTeam(h) \/ TryTeam(h) \/ WriteTeam(h)
    BY <1>1, <2>3, TeamsAside
  <2>4. CASE EnterRoom(h) \/ JoinRoom(h) \/ LookStream(h) \/ StartStream(h) \/ ConnectStream(h)
    BY <1>1, <2>4, RoomsAside
  <2>5. CASE CountAccounts(h) \/ DeleteTeam(h) \/ Revoke(h)
    BY <1>1, <2>5, LogoutAside
  <2>6. CASE Authorize(h) \/ CheckLimit(h) \/ InsertAccount(h) \/ DeleteAccount(h)
    BY <1>1, <2>6, AuthorizeBook, CheckLimitBook, InsertAccountBook, DeleteAccountBook
  <2> QED
    BY <1>2, <2>1, <2>2, <2>3, <2>4, <2>5, <2>6 DEF Requests, Begins, Continues
<1>3. CASE AskLink \/ Expire \/ Restart
  BY <1>3, AskLinkBook, ExpireBook, RestartBook
<1>4. CASE Unlink \/ Block \/ Unblock \/ Uninstall \/ UNCHANGED vars
  BY <1>1, <1>4, WorldAside
<1> QED
  BY <1>2, <1>3, <1>4 DEF Next

LEMMA InitBook == Init => LinksInv /\ Book!Init
<1> SUFFICES ASSUME Init PROVE LinksInv /\ Book!Init
  OBVIOUS
<1>1. \A l \in Links : waiting[l] = None /\ Storing(l) = {}
  BY DEF Init, Storing, Idle
<1>2. \A l \in Links : Invited(l) = None
  BY <1>1 DEF Invited
<1> QED
  BY <1>1, <1>2 DEF Init, LinksInv, Book!Init

\* Whatever the handlers of /authorize and of logout, the crashes and the
\* start-ups of the bridge do, a login link makes at most one account, its
\* owner's, and an account goes only by its owner's logout or new login.
THEOREM ImplementsBook == Spec => KeepsTheBook
<1>1. Init => TypeInv /\ LinksInv /\ Book!Init
  BY InitType, InitBook
<1>2. TypeInv /\ LinksInv /\ [Next]_vars => (TypeInv /\ LinksInv)' /\ [Book!Next]_Book!vars
  BY StepType, StepBook
<1> QED
  BY <1>1, <1>2, PTL DEF Spec, KeepsTheBook, Book!Spec

BookTheorems == INSTANCE AccountBookProofs WITH invited <- [l \in Links |-> Invited(l)],
                                                book    <- accounts

\* What AccountBook promises, the bridge keeps: no two linked accounts have the
\* token of one login, and a login that is stored cannot be stored again.
THEOREM OneAccountALogin == Spec => []Book!OneAccountALink
<1>1. Book!Init => BookTheorems!BookInv
  BY BookTheorems!InitBookInv DEF Book!Init, BookTheorems!Init
<1>2. BookTheorems!BookInv /\ [Book!Next]_Book!vars => BookTheorems!BookInv'
  <2>1. [Book!Next]_Book!vars => [BookTheorems!Next]_BookTheorems!vars
    BY DEF Book!Next, BookTheorems!Next, Book!vars, BookTheorems!vars,
           Book!Invite, BookTheorems!Invite, Book!Lapse, BookTheorems!Lapse,
           Book!Enter, BookTheorems!Enter, Book!Leave, BookTheorems!Leave
  <2> QED
    BY <2>1, BookTheorems!StepBookInv
<1>3. BookTheorems!BookInv => Book!OneAccountALink
  BY DEF BookTheorems!BookInv, BookTheorems!OneAccountALink, Book!OneAccountALink
<1> QED
  BY <1>1, <1>2, <1>3, ImplementsBook, PTL DEF KeepsTheBook, Book!Spec
=============================================================================
