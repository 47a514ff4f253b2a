------------------------ MODULE AccountsSafetyProofs ------------------------
(***************************************************************************)
(* Safety of Accounts for any users, teams, links, handlers and worlds:    *)
(* a blocked bridge is silent, rooms keep their team, the clients of       *)
(* puppets and teams are those of the stored tokens, a logout ends the use *)
(* of a token, puppets are connected, limits and connections are bounded   *)
(* by the handlers that overlap. Each invariant is strengthened by what    *)
(* the handlers in flight know, and each step is shown to keep it.         *)
(***************************************************************************)
EXTENDS AccountsProofs, FiniteSetTheorems

-----------------------------------------------------------------------------
(* Where a handler is after its step *)

HandlerStep(h) == Authorize(h) \/ Begins(h) \/ Continues(h)

LEMMA StartIs ==
  ASSUME TypeInv, NEW h \in Handlers, NEW t, Start(h, t)
  PROVE  tasks'[h] = t /\ \A g \in Handlers \ {h} : tasks'[g] = tasks[g]
  BY DEF Start, TypeInv, TasksOK

LEMMA DoneIs ==
  ASSUME TypeInv, NEW h \in Handlers, Done(h)
  PROVE  tasks'[h] = Idle /\ \A g \in Handlers \ {h} : tasks'[g] = tasks[g]
  BY StartIs DEF Done

LEMMA ToIs ==
  ASSUME TypeInv, NEW h \in Handlers, NEW pc, To(h, pc)
  PROVE  /\ tasks'[h].pc = pc /\ tasks'[h].user = tasks[h].user
         /\ tasks'[h].team = tasks[h].team /\ tasks'[h].row = tasks[h].row
         /\ tasks'[h].flag = tasks[h].flag
         /\ \A g \in Handlers \ {h} : tasks'[g] = tasks[g]
<1>1. tasks'[h] = [tasks[h] EXCEPT !.pc = pc] /\ \A g \in Handlers \ {h} : tasks'[g] = tasks[g]
  BY StartIs DEF To
<1> QED
  BY <1>1, TaskFacts DEF Tasks

LEMMA BeginIs ==
  ASSUME TypeInv, NEW h \in Handlers, Authorize(h) \/ Begins(h)
  PROVE  /\ \A g \in Handlers \ {h} : tasks'[g] = tasks[g]
         /\ tasks'[h].pc \in {"limiting", "counting", "client", "reading", "starting"}
         /\ tasks'[h].pc = "reading" => tasks'[h].flag = FALSE
         /\ UNCHANGED <<world, slack, tables, clients, rtm, history>>
<1>1. CASE Authorize(h)
  <2>1. PICK l \in Links, s \in world.slack, puppeting \in BOOLEAN :
          Start(h, [Idle EXCEPT !.pc = "limiting", !.user = waiting[l], !.slack = s,
                                !.team = TeamOf(s), !.token = l, !.flag = puppeting])
    BY <1>1 DEF Authorize
  <2> DEFINE t == [Idle EXCEPT !.pc = "limiting", !.user = waiting[l], !.slack = s,
                               !.team = TeamOf(s), !.token = l, !.flag = puppeting]
  <2>2. t.pc = "limiting"
    BY DEF Idle
  <2>3. tasks'[h] = t /\ \A g \in Handlers \ {h} : tasks'[g] = tasks[g]
    BY <2>1, StartIs
  <2>4. UNCHANGED <<world, slack, tables, clients, rtm, history>>
    BY <1>1 DEF Authorize
  <2> QED
    BY <2>2, <2>3, <2>4
<1>2. CASE Begins(h)
  BY <1>2, BeginsAt, StartIs
<1> QED
  BY <1>1, <1>2

\* A handler inside getTeamClient, or a room's link after it.
LEMMA GoesIs ==
  ASSUME TypeInv, NEW h \in Handlers, Goes(h) \/ GoesWithout(h)
  PROVE  /\ tasks'[h].pc \in {"idle", "entering", "rtm"}
         /\ \A g \in Handlers \ {h} : tasks'[g] = tasks[g]
<1>1. CASE Done(h)
  BY <1>1, DoneIs DEF Idle
<1>2. CASE To(h, tasks[h].next) \/ To(h, "rtm")
  BY <1>2, ToIs, TaskFacts DEF Tasks
<1> QED
  BY <1>1, <1>2 DEF Goes, GoesWithout

LEMMA CheckLimitIs ==
  ASSUME TypeInv, NEW h \in Handlers, CheckLimit(h)
  PROVE  tasks'[h].pc \in {"idle", "inserting"} /\ \A g \in Handlers \ {h} : tasks'[g] = tasks[g]
<1>1. CASE Done(h)
  BY <1>1, DoneIs DEF Idle
<1>2. CASE Start(h, [tasks[h] EXCEPT !.pc = "inserting", !.row = teams[tasks[h].team]])
  <2>1. /\ tasks'[h] = [tasks[h] EXCEPT !.pc = "inserting", !.row = teams[tasks[h].team]]
        /\ \A g \in Handlers \ {h} : tasks'[g] = tasks[g]
    BY <1>2, StartIs
  <2> QED
    BY <2>1, TaskFacts DEF Tasks
<1> QED
  BY <1>1, <1>2 DEF CheckLimit

LEMMA ReadPuppetIs ==
  ASSUME TypeInv, NEW h \in Handlers, ReadPuppet(h)
  PROVE  /\ \/ tasks'[h].pc = "idle"
            \/ /\ tasks'[h].pc = "testing" /\ tasks'[h].flag = tasks[h].flag
               /\ tasks'[h].user = tasks[h].user /\ tasks'[h].team = tasks[h].team
               /\ \E p \in StoredPuppet(h) : tasks'[h].row.token = p.token
         /\ \A g \in Handlers \ {h} : tasks'[g] = tasks[g]
<1>1. CASE Done(h)
  BY <1>1, DoneIs DEF Idle
<1>2. ASSUME NEW p \in StoredPuppet(h),
             Start(h, [tasks[h] EXCEPT !.pc = "testing",
                                       !.row = [status |-> "ok", token |-> p.token]])
      PROVE  /\ tasks'[h].pc = "testing" /\ tasks'[h].flag = tasks[h].flag
             /\ tasks'[h].user = tasks[h].user /\ tasks'[h].team = tasks[h].team
             /\ tasks'[h].row.token = p.token
             /\ \A g \in Handlers \ {h} : tasks'[g] = tasks[g]
  <2>1. /\ tasks'[h] = [tasks[h] EXCEPT !.pc = "testing",
                                        !.row = [status |-> "ok", token |-> p.token]]
        /\ \A g \in Handlers \ {h} : tasks'[g] = tasks[g]
    BY <1>2, StartIs
  <2> QED
    BY <2>1, TaskFacts DEF Tasks
<1> QED
  BY <1>1, <1>2 DEF ReadPuppet

LEMMA TeamClientIs ==
  ASSUME TypeInv, NEW h \in Handlers,
         LookTeamClient(h) \/ ReadTeam(h) \/ TryTeam(h) \/ WriteTeam(h)
  PROVE  /\ tasks'[h].pc \in {"idle", "entering", "rtm", "readingTeam", "tryingTeam", "writingTeam"}
         /\ \A g \in Handlers \ {h} : tasks'[g] = tasks[g]
<1>1. CASE Goes(h) \/ GoesWithout(h) \/ To(h, "readingTeam")
  BY <1>1, GoesIs, ToIs
<1>2. CASE ReadTeam(h) /\ ~GoesWithout(h)
  <2>1. Start(h, [tasks[h] EXCEPT !.pc = "tryingTeam", !.row = teams[tasks[h].team]])
    BY <1>2 DEF ReadTeam
  <2>2. /\ tasks'[h] = [tasks[h] EXCEPT !.pc = "tryingTeam", !.row = teams[tasks[h].team]]
        /\ \A g \in Handlers \ {h} : tasks'[g] = tasks[g]
    BY <2>1, StartIs
  <2> QED
    BY <2>2, TaskFacts DEF Tasks
<1>3. CASE TryTeam(h)
  <2>1. PICK ok \in {"ok", "bad_auth"} :
          Start(h, [tasks[h] EXCEPT !.pc = "writingTeam", !.row = [@ EXCEPT !.status = ok]])
    BY <1>3 DEF TryTeam
  <2>2. /\ tasks'[h] = [tasks[h] EXCEPT !.pc = "writingTeam", !.row = [@ EXCEPT !.status = ok]]
        /\ \A g \in Handlers \ {h} : tasks'[g] = tasks[g]
    BY <2>1, StartIs
  <2> QED
    BY <2>2, TaskFacts DEF Tasks
<1> QED
  BY <1>1, <1>2, <1>3 DEF LookTeamClient, ReadTeam, TryTeam, WriteTeam

LEMMA LookStreamIs ==
  ASSUME TypeInv, NEW h \in Handlers, LookStream(h)
  PROVE  /\ tasks'[h].pc \in {"idle", "rtmStart"}
         /\ gate = "blocked" => tasks'[h].pc = "idle"
         /\ \A g \in Handlers \ {h} : tasks'[g] = tasks[g]
<1>1. CASE Done(h)
  BY <1>1, DoneIs DEF Idle
<1>2. CASE LookStream(h) /\ ~Done(h)
  <2>1. gate # "blocked"
        /\ Start(h, [tasks[h] EXCEPT !.pc = "rtmStart", !.row = teams[tasks[h].team]])
    BY <1>2 DEF LookStream, NeedsNoStream
  <2>2. /\ tasks'[h] = [tasks[h] EXCEPT !.pc = "rtmStart", !.row = teams[tasks[h].team]]
        /\ \A g \in Handlers \ {h} : tasks'[g] = tasks[g]
    BY <2>1, StartIs
  <2> QED
    BY <2>1, <2>2, TaskFacts DEF Tasks
<1> QED
  BY <1>1, <1>2

LEMMA NextIs ==
  ASSUME [Next]_vars
  PROVE  \/ \E h \in Handlers : HandlerStep(h)
         \/ AskLink \/ Expire \/ Unlink \/ Uninstall \/ Block \/ Unblock \/ Restart
         \/ UNCHANGED vars
  BY DEF Next, HandlerStep, Requests, Begins

-----------------------------------------------------------------------------
(* A blocked bridge is silent *)

SilentInv ==
    gate = "blocked" /\ ~strayed =>
        /\ open = {} /\ \A t \in Teams : streams[t] = 0
        /\ \A h \in Handlers : ~InRtm(tasks[h])

\* No step of a handler brings it inside the RTM handler.
LEMMA SilentHandler ==
  ASSUME TypeInv, SilentInv, gate = "blocked", ~strayed, NEW h \in Handlers, HandlerStep(h)
  PROVE  /\ open' = {} /\ UNCHANGED <<streams, gate, strayed>>
         /\ \A g \in Handlers : ~InRtm(tasks'[g])
<1> DEFINE Kept == open' = {} /\ UNCHANGED <<streams, gate, strayed>>
           Outside == tasks'[h].pc \notin {"reading", "testing", "connecting", "rtmStart", "rtmConnect"}
           Others == \A g \in Handlers \ {h} : tasks'[g] = tasks[g]
<1>1. open = {} /\ \A g \in Handlers : ~InRtm(tasks[g])
  BY DEF SilentInv
<1>2. CASE Authorize(h) \/ Begins(h)
  BY <1>1, <1>2, BeginIs DEF rtm, history, InRtm
<1>3. CASE CheckLimit(h) \/ InsertAccount(h) \/ SetPuppetToken(h) \/ UpsertTeamByToken(h)
  <2>1. Kept
    BY <1>1, <1>3 DEF CheckLimit, InsertAccount, SetPuppetToken, UpsertTeamByToken, rtm, history
  <2>2. Outside /\ Others
    BY <1>3, CheckLimitIs, DoneIs, ToIs DEF InsertAccount, SetPuppetToken, UpsertTeamByToken, Idle
  <2> QED
    BY <1>1, <2>1, <2>2 DEF InRtm
<1>4. CASE StartUserClient(h)
  BY <1>1, <1>4, DoneIs DEF StartUserClient, InRtm, Idle, history
<1>5. CASE ReadPuppet(h) \/ TestPuppet(h)
  <2>1. tasks[h].flag = FALSE
    BY <1>1, <1>5, TaskFacts DEF ReadPuppet, TestPuppet, At, InRtm, Tasks
  <2>2. Kept
    BY <1>1, <1>5 DEF ReadPuppet, TestPuppet, rtm, history
  <2>3. /\ Others /\ tasks'[h].pc \in {"idle", "testing"}
        /\ tasks'[h].pc = "testing" => tasks'[h].flag = FALSE
    BY <1>5, <2>1, ReadPuppetIs, DoneIs DEF TestPuppet, Idle
  <2> QED
    BY <1>1, <2>2, <2>3 DEF InRtm
<1>6. CASE LookTeamClient(h) \/ ReadTeam(h) \/ TryTeam(h) \/ WriteTeam(h)
  <2>1. Kept
    BY <1>1, <1>6 DEF LookTeamClient, ReadTeam, TryTeam, WriteTeam, rtm, history
  <2>2. Outside /\ Others
    BY <1>6, TeamClientIs
  <2> QED
    BY <1>1, <2>1, <2>2 DEF InRtm
<1>7. CASE EnterRoom(h) \/ JoinRoom(h) \/ LookStream(h)
  <2>1. Kept
    BY <1>1, <1>7 DEF EnterRoom, JoinRoom, LookStream, rtm, history
  <2>2. Outside /\ Others
    BY <1>7, LookStreamIs, DoneIs, ToIs DEF EnterRoom, JoinRoom, Idle
  <2> QED
    BY <1>1, <2>1, <2>2 DEF InRtm
<1>8. ~Connect(h) /\ ~StartStream(h) /\ ~ConnectStream(h)
  BY <1>1 DEF Connect, StartStream, ConnectStream, At, InRtm
<1>9. CASE CountAccounts(h) \/ DeleteTeam(h) \/ Revoke(h) \/ DeleteAccount(h)
  <2>1. Kept
    BY <1>1, <1>9 DEF CountAccounts, DeleteTeam, Revoke, Revoked, DeleteAccount, rtm, history
  <2>2. Outside /\ Others
    BY <1>9, DoneIs, ToIs DEF CountAccounts, DeleteTeam, Revoke, DeleteAccount, Idle
  <2> QED
    BY <1>1, <2>1, <2>2 DEF InRtm
<1> QED
  BY <1>2, <1>3, <1>4, <1>5, <1>6, <1>7, <1>8, <1>9 DEF HandlerStep, Continues

LEMMA SilentStep == TypeInv /\ SilentInv /\ [Next]_vars => SilentInv'
<1> SUFFICES ASSUME TypeInv, SilentInv, [Next]_vars, gate' = "blocked", ~strayed'
             PROVE  /\ open' = {} /\ \A t \in Teams : streams'[t] = 0
                    /\ \A h \in Handlers : ~InRtm(tasks'[h])
  BY DEF SilentInv
<1>1. ASSUME NEW h \in Handlers, HandlerStep(h), gate = "blocked", ~strayed
      PROVE  /\ open' = {} /\ \A t \in Teams : streams'[t] = 0
             /\ \A g \in Handlers : ~InRtm(tasks'[g])
  BY <1>1, SilentHandler DEF SilentInv
<1>2. ASSUME NEW h \in Handlers, HandlerStep(h)
      PROVE  UNCHANGED <<gate, strayed>>
  <2>1. CASE Authorize(h) \/ Begins(h)
    BY <2>1, BeginIs DEF rtm, history
  <2>2. CASE Continues(h)
    BY <2>2
    DEF Continues, CheckLimit, InsertAccount, SetPuppetToken, UpsertTeamByToken,
        StartUserClient, ReadPuppet, TestPuppet, Connect, LookTeamClient, ReadTeam, TryTeam,
        WriteTeam, EnterRoom, JoinRoom, LookStream, StartStream, ConnectStream,
        CountAccounts, DeleteTeam, Revoke, DeleteAccount, rtm, history
  <2> QED
    BY <1>2, <2>1, <2>2 DEF HandlerStep
<1>3. CASE Block
  <2>1. /\ \A h \in Handlers : ~InRtm(tasks[h])
        /\ tasks' = [h \in Handlers |-> [tasks[h] EXCEPT !.stray = @ \/ InRtm(tasks[h])]]
    BY <1>3 DEF Block
  <2>2. ASSUME NEW h \in Handlers PROVE ~InRtm(tasks'[h])
    <3>1. tasks'[h].pc = tasks[h].pc /\ tasks'[h].flag = tasks[h].flag
      BY <2>1, TaskFacts DEF Tasks
    <3> QED
      BY <2>1, <3>1 DEF InRtm
  <2> QED
    BY <1>3, <2>2 DEF Block, DisconnectAll
<1>4. CASE AskLink \/ Expire \/ Unlink \/ UNCHANGED vars
  BY <1>4 DEF AskLink, GetPreauthToken, Expire, Unlink, vars, rtm, history, SilentInv
<1>5. CASE Uninstall
  <2>1. PICK s \in world.slack, given \in SUBSET Links :
          /\ open' = open \ given /\ streams' = [streams EXCEPT ![TeamOf(s)] = 0]
          /\ UNCHANGED <<gate, tasks, strayed>>
    BY <1>5 DEF Uninstall, history
  <2> QED
    BY <2>1 DEF SilentInv, TypeInv, ClientsOK
<1>6. CASE Unblock \/ Restart
  BY <1>6 DEF Unblock, Restart
<1> QED
  BY <1>1, <1>2, <1>3, <1>4, <1>5, <1>6, NextIs

\* A bridge that SlackBridgeBlocker has blocked listens to no user and no team,
\* unless it was blocked under a handler that was connecting.
THEOREM BlockedIsSilent == Spec => []BlockedSilent
<1>1. Init => SilentInv
  BY DEF Init, SilentInv
<1>2. SilentInv => BlockedSilent
  BY DEF SilentInv, BlockedSilent
<1> QED
  BY <1>1, <1>2, SilentStep, TypeInvariant, PTL DEF Spec

-----------------------------------------------------------------------------
(* Rooms keep their team *)

\* A room that is being added has a team, and a team that is being deleted has
\* no rooms, but for those that ran into each other.
RoomsInv ==
    /\ RoomsKeepTeam
    /\ \A h \in Handlers :
          /\ At(h, "joining") => tasks[h].team \in raced \/ teams[tasks[h].team] # NoTeam
          /\ At(h, "deletingTeam") => tasks[h].team \in raced \/ TeamRooms(tasks[h].team) = {}

\* A step that enters neither place, and takes no team and adds no room.
LEMMA RoomsAlone ==
  ASSUME TypeInv, RoomsInv, NEW h \in Handlers,
         UNCHANGED rooms, raced \subseteq raced',
         \A t \in Teams : teams[t] # NoTeam => teams'[t] # NoTeam,
         tasks'[h].pc \notin {"joining", "deletingTeam"},
         \A g \in Handlers \ {h} : tasks'[g] = tasks[g]
  PROVE  RoomsInv'
<1>1. RoomsKeepTeam'
  <2>1. \A r \in MatrixRoomIds : rooms[r] \in Teams \cup {None}
    BY DEF TypeInv, TablesOK
  <2> QED
    BY <2>1 DEF RoomsInv, RoomsKeepTeam
<1>2. ASSUME NEW g \in Handlers, At(g, "joining")'
      PROVE  (tasks[g].team \in raced \/ teams[tasks[g].team] # NoTeam)'
  <2>1. tasks'[g] = tasks[g] /\ At(g, "joining") /\ tasks[g].team \in Teams
    BY <1>2, TaskFacts DEF At, TaskOK
  <2> QED
    BY <2>1 DEF RoomsInv
<1>3. ASSUME NEW g \in Handlers, At(g, "deletingTeam")'
      PROVE  (tasks[g].team \in raced \/ TeamRooms(tasks[g].team) = {})'
  <2>1. tasks'[g] = tasks[g] /\ At(g, "deletingTeam")
    BY <1>3 DEF At
  <2> QED
    BY <2>1 DEF RoomsInv, TeamRooms
<1> QED
  BY <1>1, <1>2, <1>3 DEF RoomsInv

LEMMA RoomsHandler ==
  ASSUME TypeInv, RoomsInv, NEW h \in Handlers, HandlerStep(h)
  PROVE  RoomsInv'
<1> DEFINE Outside == tasks'[h].pc \notin {"joining", "deletingTeam"}
           Others == \A g \in Handlers \ {h} : tasks'[g] = tasks[g]
           Kept == UNCHANGED <<rooms, teams, raced>>
<1>1. ASSUME Outside, Others, Kept PROVE RoomsInv'
  BY <1>1, RoomsAlone
<1>2. CASE Authorize(h) \/ Begins(h)
  BY <1>1, <1>2, BeginIs DEF tables, history
<1>3. CASE CheckLimit(h) \/ InsertAccount(h) \/ SetPuppetToken(h)
  <2>1. Kept
    BY <1>3 DEF CheckLimit, InsertAccount, SetPuppetToken, tables, history
  <2>2. Outside /\ Others
    BY <1>3, CheckLimitIs, DoneIs, ToIs DEF InsertAccount, SetPuppetToken, Idle
  <2> QED
    BY <1>1, <2>1, <2>2
<1>4. CASE UpsertTeamByToken(h)
  <2>1. UNCHANGED rooms /\ raced \subseteq raced'
    BY <1>4 DEF UpsertTeamByToken
  <2>2. \A t \in Teams : teams[t] # NoTeam => teams'[t] # NoTeam
    BY <1>4 DEF UpsertTeamByToken, TeamOfLogin, NoTeam, TypeInv, TablesOK
  <2>3. Outside /\ Others
    BY <1>4, DoneIs, ToIs DEF UpsertTeamByToken, Idle
  <2> QED
    BY <2>1, <2>2, <2>3, RoomsAlone
<1>5. CASE StartUserClient(h) \/ ReadPuppet(h) \/ TestPuppet(h) \/ Connect(h)
  <2>1. Kept
    BY <1>5 DEF StartUserClient, ReadPuppet, TestPuppet, Connect, tables, history
  <2>2. Outside /\ Others
    BY <1>5, ReadPuppetIs, DoneIs, ToIs DEF StartUserClient, TestPuppet, Connect, Idle
  <2> QED
    BY <1>1, <2>1, <2>2
<1>6. CASE LookTeamClient(h) \/ ReadTeam(h) \/ TryTeam(h) \/ WriteTeam(h)
  <2>1. UNCHANGED <<rooms, raced>>
    BY <1>6 DEF LookTeamClient, ReadTeam, TryTeam, WriteTeam, tables, history
  <2>2. ASSUME NEW t \in Teams, teams[t] # NoTeam PROVE teams'[t] # NoTeam
    <3>1. CASE WriteTeam(h)
      BY <2>2, <3>1, TaskFacts DEF WriteTeam, At, TaskOK, TypeInv, TablesOK
    <3> QED
      BY <1>6, <2>2, <3>1 DEF LookTeamClient, ReadTeam, TryTeam, tables
  <2>3. Outside /\ Others
    BY <1>6, TeamClientIs
  <2> QED
    BY <2>1, <2>2, <2>3, RoomsAlone
<1>7. CASE EnterRoom(h)
  <2>1. CASE Done(h)
    BY <1>1, <1>7, <2>1, DoneIs DEF EnterRoom, Idle, tables, history
  <2>2. CASE teams[tasks[h].team] # NoTeam /\ To(h, "joining")
    <3>1. Others /\ tasks'[h].pc = "joining" /\ tasks'[h].team = tasks[h].team /\ Kept
      BY <1>7, <2>2, ToIs DEF EnterRoom, tables, history
    <3> QED
      BY <2>2, <3>1 DEF RoomsInv, RoomsKeepTeam, At, TeamRooms
  <2> QED
    BY <1>7, <2>1, <2>2 DEF EnterRoom
<1>8. CASE JoinRoom(h)
  <2> DEFINE q == tasks[h]
  <2>1. /\ Others /\ tasks'[h].pc = "rtm" /\ q.pc = "joining"
        /\ q.team \in Teams /\ q.room \in MatrixRoomIds /\ UNCHANGED teams
        /\ rooms' = [rooms EXCEPT ![q.room] = q.team]
        /\ raced' = raced \cup ({q.team} \cap TeamsAt({"deletingTeam"}))
    BY <1>8, ToIs, TaskFacts DEF JoinRoom, At, TaskOK
  <2>2. q.team \in raced \/ teams[q.team] # NoTeam
    BY <2>1 DEF RoomsInv, At
  <2> HIDE DEF q
  <2>3. RoomsKeepTeam'
    BY <2>1, <2>2 DEF RoomsInv, RoomsKeepTeam, TypeInv, TablesOK
  <2>4. ASSUME NEW g \in Handlers, At(g, "joining")'
        PROVE  (tasks[g].team \in raced \/ teams[tasks[g].team] # NoTeam)'
    BY <2>1, <2>4 DEF RoomsInv, At
  <2>5. ASSUME NEW g \in Handlers, At(g, "deletingTeam")'
        PROVE  (tasks[g].team \in raced \/ TeamRooms(tasks[g].team) = {})'
    <3>1. tasks'[g] = tasks[g] /\ tasks[g].pc = "deletingTeam"
      BY <2>1, <2>5 DEF At
    <3>2. CASE tasks[g].team = q.team
      BY <2>1, <3>1, <3>2 DEF TeamsAt
    <3>3. CASE tasks[g].team # q.team
      BY <2>1, <3>1, <3>3 DEF RoomsInv, At, TeamRooms, TypeInv, TablesOK
    <3> QED
      BY <3>2, <3>3
  <2> QED
    BY <2>3, <2>4, <2>5 DEF RoomsInv
<1>9. CASE LookStream(h) \/ StartStream(h) \/ ConnectStream(h)
  <2>1. Kept
    BY <1>9 DEF LookStream, StartStream, ConnectStream, tables, history
  <2>2. Outside /\ Others
    BY <1>9, LookStreamIs, DoneIs, ToIs DEF StartStream, ConnectStream, Idle
  <2> QED
    BY <1>1, <2>1, <2>2
<1>10. CASE CountAccounts(h)
  <2>1. Kept
    BY <1>10 DEF CountAccounts, tables, history
  <2>2. CASE Done(h) \/ To(h, "revoking")
    BY <1>1, <2>1, <2>2, DoneIs, ToIs DEF Idle
  <2>3. CASE ~Preserved(tasks[h].team) /\ To(h, "deletingTeam")
    <3>1. Others /\ tasks'[h].pc = "deletingTeam" /\ tasks'[h].team = tasks[h].team
      BY <2>3, ToIs
    <3> QED
      BY <2>1, <2>3, <3>1 DEF RoomsInv, RoomsKeepTeam, At, TeamRooms, Preserved
  <2> QED
    BY <1>10, <2>2, <2>3 DEF CountAccounts
<1>11. CASE DeleteTeam(h)
  <2> DEFINE q == tasks[h]
  <2>1. /\ Others /\ tasks'[h].pc = "revoking" /\ q.pc = "deletingTeam"
        /\ q.team \in Teams /\ UNCHANGED rooms
        /\ teams' = [teams EXCEPT ![q.team] = NoTeam]
        /\ raced \subseteq raced'
        /\ q.team \in TeamsAt({"client", "entering", "joining", "tryingTeam", "writingTeam"})
              => q.team \in raced'
    BY <1>11, ToIs, TaskFacts DEF DeleteTeam, At, TaskOK
  <2>2. q.team \in raced \/ TeamRooms(q.team) = {}
    BY <2>1 DEF RoomsInv, At
  <2> HIDE DEF q
  <2>3. RoomsKeepTeam'
    BY <2>1, <2>2 DEF RoomsInv, RoomsKeepTeam, TeamRooms, TypeInv, TablesOK
  <2>4. ASSUME NEW g \in Handlers, At(g, "joining")'
        PROVE  (tasks[g].team \in raced \/ teams[tasks[g].team] # NoTeam)'
    <3>1. tasks'[g] = tasks[g] /\ tasks[g].pc = "joining" /\ tasks[g].team \in Teams
      BY <2>1, <2>4, TaskFacts DEF At, TaskOK
    <3>2. CASE tasks[g].team = q.team
      BY <2>1, <3>1, <3>2 DEF TeamsAt
    <3>3. CASE tasks[g].team # q.team
      BY <2>1, <3>1, <3>3 DEF RoomsInv, At, TypeInv, TablesOK
    <3> QED
      BY <3>2, <3>3
  <2>5. ASSUME NEW g \in Handlers, At(g, "deletingTeam")'
        PROVE  (tasks[g].team \in raced \/ TeamRooms(tasks[g].team) = {})'
    BY <2>1, <2>5 DEF RoomsInv, At, TeamRooms
  <2> QED
    BY <2>3, <2>4, <2>5 DEF RoomsInv
<1>12. CASE Revoke(h) \/ DeleteAccount(h)
  <2>1. Kept
    BY <1>12 DEF Revoke, DeleteAccount, tables, history
  <2>2. Outside /\ Others
    BY <1>12, DoneIs, ToIs DEF Revoke, DeleteAccount, Idle
  <2> QED
    BY <1>1, <2>1, <2>2
<1> QED
  BY <1>2, <1>3, <1>4, <1>5, <1>6, <1>7, <1>8, <1>9, <1>10, <1>11, <1>12
  DEF HandlerStep, Continues

LEMMA RoomsStep == TypeInv /\ RoomsInv /\ [Next]_vars => RoomsInv'
<1> SUFFICES ASSUME TypeInv, RoomsInv, [Next]_vars PROVE RoomsInv'
  OBVIOUS
<1>1. CASE AskLink \/ Expire \/ Uninstall \/ Unblock \/ UNCHANGED vars
  <2>1. UNCHANGED <<rooms, teams, raced, tasks>>
    BY <1>1 DEF AskLink, GetPreauthToken, Expire, Uninstall, Unblock, vars, tables, history
  <2> QED
    BY <2>1 DEF RoomsInv, RoomsKeepTeam, At, TeamRooms
<1>2. CASE Block
  <2>1. UNCHANGED <<rooms, teams, raced>>
    BY <1>2 DEF Block, tables
  <2>2. \A h \in Handlers : tasks'[h].pc = tasks[h].pc /\ tasks'[h].team = tasks[h].team
    BY <1>2, TaskFacts DEF Block, Tasks
  <2> QED
    BY <2>1, <2>2 DEF RoomsInv, RoomsKeepTeam, At, TeamRooms
<1>3. CASE Unlink
  <2>1. PICK room \in MatrixRoomIds :
          rooms' = [rooms EXCEPT ![room] = None] /\ UNCHANGED <<teams, raced, tasks>>
    BY <1>3, TaskFacts DEF Unlink, history
  <2>2. \A h \in Handlers : At(h, "deletingTeam") => tasks[h].team # None
    BY TaskFacts DEF At, TaskOK
  <2> QED
    BY <2>1, <2>2 DEF RoomsInv, RoomsKeepTeam, At, TeamRooms, TypeInv, TablesOK
<1>4. CASE Restart
  <2>1. UNCHANGED <<rooms, teams, raced>> /\ \A h \in Handlers : tasks'[h].pc = "idle"
    BY <1>4 DEF Restart, tables, Idle
  <2> QED
    BY <2>1 DEF RoomsInv, RoomsKeepTeam, At
<1> QED
  BY <1>1, <1>2, <1>3, <1>4, RoomsHandler, NextIs

\* While a team has bridged rooms, logoutAccount does not take its row, unless
\* it ran into a Provisioner.link.
THEOREM TeamsOfRooms == Spec => []RoomsKeepTeam
<1>1. Init => RoomsInv
  BY DEF Init, RoomsInv, RoomsKeepTeam, At, Idle
<1>2. RoomsInv => RoomsKeepTeam
  BY DEF RoomsInv
<1> QED
  BY <1>1, <1>2, RoomsStep, TypeInvariant, PTL DEF Spec

-----------------------------------------------------------------------------
(* The clients of puppets *)

\* The puppets table has its unique constraints, and a client that is being
\* tried is the one of the row.
PuppetsInv ==
    /\ PuppetsCurrent
    /\ \A h \in Handlers :
          At(h, "testing") =>
              Key(h) \in again \/ \E p \in PuppetRow(Key(h)) : p.token = tasks[h].row.token

\* A step that touches neither the table nor a client that is kept, and makes
\* nobody try a client.
LEMMA PuppetsAlone ==
  ASSUME TypeInv, PuppetsInv, NEW h \in Handlers,
         UNCHANGED <<puppets, again, puppetClients>>, tasks'[h].pc # "testing",
         \A g \in Handlers \ {h} : tasks'[g] = tasks[g]
  PROVE  PuppetsInv'
<1>1. PuppetsCurrent'
  <2>1. \A k \in Keys : PuppetRow(k)' = PuppetRow(k)
    BY DEF PuppetRow
  <2> QED
    BY <2>1 DEF PuppetsInv, PuppetsCurrent
<1>2. ASSUME NEW g \in Handlers, At(g, "testing")'
      PROVE  (Key(g) \in again
                \/ \E p \in PuppetRow(Key(g)) : p.token = tasks[g].row.token)'
  <2>1. tasks'[g] = tasks[g] /\ At(g, "testing")
    BY <1>2 DEF At
  <2> QED
    BY <2>1 DEF PuppetsInv, PuppetRow, Key
<1> QED
  BY <1>1, <1>2 DEF PuppetsInv

\* setPuppetToken keeps the rows of all keys but the one it writes; whoever
\* has or tries a client of that key is one who logged in again.
LEMMA SetPuppetTokenKeeps ==
  ASSUME TypeInv, PuppetsInv, NEW h \in Handlers, SetPuppetToken(h)
  PROVE  PuppetsInv'
<1> DEFINE q == tasks[h]
<1>1. /\ q.pc = "puppeting" /\ q.user \in Users /\ q.team \in Teams /\ q.slack \in SlackIds
      /\ q.team = TeamOf(q.slack)
  BY TaskFacts DEF SetPuppetToken, At, TaskOK, OfAccount
<1>2. /\ UNCHANGED puppetClients /\ tasks'[h].pc # "testing"
      /\ \A g \in Handlers \ {h} : tasks'[g] = tasks[g]
  BY DoneIs, ToIs DEF SetPuppetToken, Idle, clients
<1>3. CASE PuppetClashes(q)
  BY <1>2, <1>3, PuppetsAlone DEF SetPuppetToken
<1>4. CASE ~PuppetClashes(q)
  <2>1. /\ puppets' = {p \in puppets : p.slack # q.slack} \cup {AccountOf(q)}
        /\ again \subseteq again'
        /\ puppetClients[Key(h)] # None => Key(h) \in again'
        /\ \A g \in Handlers \ {h} : tasks[g].pc = "testing" /\ Key(g) = Key(h) => Key(h) \in again'
    BY <1>4 DEF SetPuppetToken
  <2>2. ASSUME NEW p \in puppets, p.slack = q.slack
        PROVE  p.user = q.user
    BY <1>4, <2>2 DEF PuppetClashes
  <2>3. \A g \in Handlers : At(g, "testing")' => g # h /\ tasks'[g] = tasks[g] /\ At(g, "testing")
    BY <1>1, <1>2 DEF At
  <2>4. ASSUME NEW k \in Keys, k # Key(h)
        PROVE  PuppetRow(k)' = PuppetRow(k)
    BY <1>1, <2>1, <2>2, <2>4 DEF PuppetRow, Key, Keys, AccountOf
  <2>5. PuppetsCurrent'
    BY <1>2, <2>1, <2>4 DEF PuppetsInv, PuppetsCurrent
  <2>6. ASSUME NEW g \in Handlers, At(g, "testing")'
        PROVE  (Key(g) \in again
                  \/ \E p \in PuppetRow(Key(g)) : p.token = tasks[g].row.token)'
    <3>1. g # h /\ tasks'[g] = tasks[g] /\ tasks[g].pc = "testing"
      BY <2>3, <2>6 DEF At
    <3>2. Key(g) \in Keys /\ Key(g)' = Key(g)
      BY <3>1, TaskFacts DEF Key, Keys, TaskOK
    <3>3. CASE Key(g) = Key(h)
      BY <2>1, <3>1, <3>2, <3>3
    <3>4. CASE Key(g) # Key(h)
      BY <2>1, <2>4, <3>1, <3>2, <3>4 DEF PuppetsInv, At
    <3> QED
      BY <3>3, <3>4
  <2> QED
    BY <2>5, <2>6 DEF PuppetsInv
<1> QED
  BY <1>3, <1>4

\* auth.test of the row's token: the client that is kept is the row's.
LEMMA TestPuppetKeeps ==
  ASSUME TypeInv, PuppetsInv, NEW h \in Handlers, TestPuppet(h)
  PROVE  PuppetsInv'
<1> DEFINE key == Key(h)
<1>1. /\ At(h, "testing") /\ UNCHANGED <<puppets, again>> /\ tasks'[h].pc # "testing"
      /\ \A g \in Handlers \ {h} : tasks'[g] = tasks[g]
      /\ \/ puppetClients' = [puppetClients EXCEPT ![key] = tasks[h].row.token]
         \/ UNCHANGED puppetClients
  BY DoneIs, ToIs DEF TestPuppet, Idle, tables, history
<1>2. key \in again \/ \E p \in PuppetRow(key) : p.token = tasks[h].row.token
  BY <1>1 DEF PuppetsInv
<1>3. \A k : PuppetRow(k)' = PuppetRow(k)
  BY <1>1 DEF PuppetRow
<1>4. \A g \in Handlers \ {h} : Key(g)' = Key(g)
  BY <1>1 DEF Key
<1>5. PuppetsCurrent'
  <2> HIDE DEF key
  <2>1. CASE UNCHANGED puppetClients
    BY <1>1, <1>3, <2>1 DEF PuppetsInv, PuppetsCurrent
  <2>2. CASE puppetClients' = [puppetClients EXCEPT ![key] = tasks[h].row.token]
    BY <1>1, <1>2, <1>3, <2>2 DEF PuppetsInv, PuppetsCurrent, TypeInv, ClientsOK
  <2> QED
    BY <1>1, <2>1, <2>2
<1>6. ASSUME NEW g \in Handlers, At(g, "testing")'
      PROVE  (Key(g) \in again \/ \E p \in PuppetRow(Key(g)) : p.token = tasks[g].row.token)'
  <2>1. g # h /\ tasks'[g] = tasks[g] /\ At(g, "testing")
    BY <1>1, <1>6 DEF At
  <2> QED
    BY <1>1, <1>3, <1>4, <2>1 DEF PuppetsInv
<1> QED
  BY <1>5, <1>6 DEF PuppetsInv

LEMMA ReadPuppetKeeps ==
  ASSUME TypeInv, PuppetsInv, NEW h \in Handlers, ReadPuppet(h)
  PROVE  PuppetsInv'
<1>1. UNCHANGED <<puppets, again, puppetClients>>
  BY DEF ReadPuppet, tables, clients, history
<1>2. CASE tasks'[h].pc = "idle"
  BY <1>1, <1>2, ReadPuppetIs, PuppetsAlone
<1>3. CASE tasks'[h].pc # "idle"
  <2>1. \A k : PuppetRow(k)' = PuppetRow(k)
    BY <1>1 DEF PuppetRow
  <2>2. /\ \A g \in Handlers : Key(g)' = Key(g)
        /\ \A g \in Handlers \ {h} : tasks'[g] = tasks[g]
        /\ \E p \in PuppetRow(Key(h)) : tasks'[h].row.token = p.token
    BY <1>3, ReadPuppetIs DEF Key, StoredPuppet
  <2>3. PuppetsCurrent'
    BY <1>1, <2>1 DEF PuppetsInv, PuppetsCurrent
  <2>4. ASSUME NEW g \in Handlers, At(g, "testing")'
        PROVE  (Key(g) \in again \/ \E p \in PuppetRow(Key(g)) : p.token = tasks[g].row.token)'
    <3>1. CASE g = h
      BY <2>1, <2>2, <3>1
    <3>2. CASE g # h
      BY <1>1, <2>1, <2>2, <2>4, <3>2 DEF PuppetsInv, At
    <3> QED
      BY <3>1, <3>2
  <2> QED
    BY <2>3, <2>4 DEF PuppetsInv
<1> QED
  BY <1>2, <1>3

LEMMA PuppetsHandler ==
  ASSUME TypeInv, PuppetsInv, NEW h \in Handlers, HandlerStep(h)
  PROVE  PuppetsInv'
<1> DEFINE Aside == /\ UNCHANGED <<puppets, again, puppetClients>>
                    /\ tasks'[h].pc # "testing"
                    /\ \A g \in Handlers \ {h} : tasks'[g] = tasks[g]
<1>1. ASSUME Aside PROVE PuppetsInv'
  BY <1>1, PuppetsAlone
<1>2. CASE Authorize(h) \/ Begins(h)
  BY <1>1, <1>2, BeginIs DEF tables, clients, history
<1>3. CASE CheckLimit(h) \/ InsertAccount(h) \/ UpsertTeamByToken(h)
  <2>1. UNCHANGED <<puppets, again, puppetClients>>
    BY <1>3 DEF CheckLimit, InsertAccount, UpsertTeamByToken, tables, clients, history
  <2>2. /\ tasks'[h].pc # "testing" /\ \A g \in Handlers \ {h} : tasks'[g] = tasks[g]
    BY <1>3, CheckLimitIs, DoneIs, ToIs DEF InsertAccount, UpsertTeamByToken, Idle
  <2> QED
    BY <1>1, <2>1, <2>2
<1>4. CASE StartUserClient(h) \/ Connect(h)
  BY <1>1, <1>4, DoneIs, ToIs DEF StartUserClient, Connect, Idle, tables, clients, history
<1>5. CASE LookTeamClient(h) \/ ReadTeam(h) \/ TryTeam(h) \/ WriteTeam(h)
  <2>1. UNCHANGED <<puppets, again, puppetClients>>
    BY <1>5 DEF LookTeamClient, ReadTeam, TryTeam, WriteTeam, tables, clients, history
  <2> QED
    BY <1>1, <1>5, <2>1, TeamClientIs
<1>6. CASE EnterRoom(h) \/ JoinRoom(h) \/ LookStream(h) \/ StartStream(h) \/ ConnectStream(h)
  <2>1. UNCHANGED <<puppets, again, puppetClients>>
    BY <1>6 DEF EnterRoom, JoinRoom, LookStream, StartStream, ConnectStream, tables, clients, history
  <2>2. /\ tasks'[h].pc # "testing" /\ \A g \in Handlers \ {h} : tasks'[g] = tasks[g]
    BY <1>6, LookStreamIs, DoneIs, ToIs DEF EnterRoom, JoinRoom, StartStream, ConnectStream, Idle
  <2> QED
    BY <1>1, <2>1, <2>2
<1>7. CASE CountAccounts(h) \/ DeleteTeam(h) \/ Revoke(h) \/ DeleteAccount(h)
  <2>1. UNCHANGED <<puppets, again, puppetClients>>
    BY <1>7 DEF CountAccounts, DeleteTeam, Revoke, DeleteAccount, tables, clients, history
  <2>2. /\ tasks'[h].pc # "testing" /\ \A g \in Handlers \ {h} : tasks'[g] = tasks[g]
    BY <1>7, DoneIs, ToIs DEF CountAccounts, DeleteTeam, Revoke, DeleteAccount, Idle
  <2> QED
    BY <1>1, <2>1, <2>2
<1> QED
  BY <1>2, <1>3, <1>4, <1>5, <1>6, <1>7, SetPuppetTokenKeeps, TestPuppetKeeps, ReadPuppetKeeps
  DEF HandlerStep, Continues

LEMMA PuppetsStep == TypeInv /\ PuppetsInv /\ [Next]_vars => PuppetsInv'
<1> SUFFICES ASSUME TypeInv, PuppetsInv, [Next]_vars PROVE PuppetsInv'
  OBVIOUS
<1>1. CASE AskLink \/ Expire \/ Unlink \/ Uninstall \/ Block \/ Unblock \/ UNCHANGED vars
  <2>1. UNCHANGED <<puppets, again, puppetClients>>
    BY <1>1 DEF AskLink, GetPreauthToken, Expire, Unlink, Uninstall, Block, Unblock, vars,
                tables, clients, history
  <2>2. \A h \in Handlers : /\ tasks'[h].pc = tasks[h].pc /\ tasks'[h].row = tasks[h].row
                            /\ tasks'[h].user = tasks[h].user /\ tasks'[h].team = tasks[h].team
    <3>1. CASE Block
      BY <3>1, TaskFacts DEF Block, Tasks
    <3> QED
      BY <1>1, <3>1 DEF AskLink, GetPreauthToken, Expire, Unlink, Uninstall, Unblock, vars
  <2>3. /\ \A k : PuppetRow(k)' = PuppetRow(k)
        /\ \A h \in Handlers : Key(h)' = Key(h)
    BY <2>1, <2>2 DEF PuppetRow, Key
  <2> QED
    BY <2>1, <2>2, <2>3 DEF PuppetsInv, PuppetsCurrent, At
<1>2. CASE Restart
  BY <1>2 DEF Restart, PuppetsInv, PuppetsCurrent, At, Idle
<1> QED
  BY <1>1, <1>2, PuppetsHandler, NextIs

\* The client that SlackClientFactory keeps for a puppet has the token that is
\* stored for him, unless he logged in again over what the process held.
THEOREM ClientsOfPuppets == Spec => []PuppetsCurrent
<1>1. Init => PuppetsInv
  BY DEF Init, PuppetsInv, PuppetsCurrent, At, Idle
<1>2. PuppetsInv => PuppetsCurrent
  BY DEF PuppetsInv
<1> QED
  BY <1>1, <1>2, PuppetsStep, TypeInvariant, PTL DEF Spec

-----------------------------------------------------------------------------
(* What a step of a handler does to its task *)

\* What a task keeps from its first step to its last.
Same(h) ==
    /\ tasks'[h].user = tasks[h].user /\ tasks'[h].slack = tasks[h].slack
    /\ tasks'[h].team = tasks[h].team /\ tasks'[h].room = tasks[h].room
    /\ tasks'[h].token = tasks[h].token /\ tasks'[h].next = tasks[h].next
    /\ tasks'[h].flag = tasks[h].flag /\ tasks'[h].stray = tasks[h].stray

Elsewhere(h) == \A g \in Handlers \ {h} : tasks'[g] = tasks[g]

LEMMA DoneMoves ==
  ASSUME TypeInv, NEW h \in Handlers, Done(h)
  PROVE  tasks'[h] = Idle /\ tasks'[h].pc = "idle" /\ Elsewhere(h)
<1>1. tasks'[h] = Idle /\ Elsewhere(h)
  BY DoneIs DEF Elsewhere
<1> QED
  BY <1>1 DEF Idle

LEMMA RowMoves ==
  ASSUME TypeInv, NEW h \in Handlers, NEW pc, NEW row,
         Start(h, [tasks[h] EXCEPT !.pc = pc, !.row = row])
  PROVE  tasks'[h].pc = pc /\ tasks'[h].row = row /\ Same(h) /\ Elsewhere(h)
<1>1. PICK t : t = [tasks[h] EXCEPT !.pc = pc, !.row = row]
  OBVIOUS
<1>2. tasks'[h] = t /\ Elsewhere(h)
  BY <1>1, StartIs DEF Elsewhere
<1> QED
  BY <1>1, <1>2, TaskFacts DEF Tasks, Same

LEMMA ToMoves ==
  ASSUME TypeInv, NEW h \in Handlers, NEW pc, To(h, pc)
  PROVE  tasks'[h].pc = pc /\ tasks'[h].row = tasks[h].row /\ Same(h) /\ Elsewhere(h)
<1>1. PICK t : t = [tasks[h] EXCEPT !.pc = pc]
  OBVIOUS
<1>2. tasks'[h] = t /\ Elsewhere(h)
  BY <1>1, StartIs DEF Elsewhere, To
<1> QED
  BY <1>1, <1>2, TaskFacts DEF Tasks, Same

\* The places a handler comes to inside a login, ...
LEMMA LoginMoves ==
  ASSUME TypeInv, NEW h \in Handlers
  PROVE  /\ CheckLimit(h) => /\ Elsewhere(h) /\ tasks[h].pc = "limiting"
                             /\ \/ tasks'[h] = Idle /\ tasks'[h].pc = "idle"
                                \/ /\ ~ExceedsTeamLimit(tasks[h].team)
                                   /\ Same(h) /\ tasks'[h].pc = "inserting"
         /\ InsertAccount(h) => /\ Elsewhere(h) /\ tasks[h].pc = "inserting" /\ Same(h)
                                /\ \/ tasks[h].flag /\ tasks'[h].pc = "puppeting"
                                   \/ ~tasks[h].flag /\ tasks'[h].pc = "botting"
         /\ SetPuppetToken(h) => /\ Elsewhere(h) /\ tasks[h].pc = "puppeting"
                                 /\ \/ tasks'[h] = Idle /\ tasks'[h].pc = "idle"
                                    \/ Same(h) /\ tasks'[h].pc = "starting"
         /\ UpsertTeamByToken(h) => /\ Elsewhere(h) /\ tasks[h].pc = "botting"
                                    /\ \/ tasks'[h] = Idle /\ tasks'[h].pc = "idle"
                                       \/ Same(h) /\ tasks'[h].pc = "client"
<1>1. CASE CheckLimit(h)
  BY <1>1, DoneMoves, RowMoves DEF CheckLimit, At, InsertAccount, SetPuppetToken,
     UpsertTeamByToken
<1>2. CASE InsertAccount(h)
  BY <1>2, ToMoves, TaskFacts DEF CheckLimit, At, InsertAccount, SetPuppetToken,
     UpsertTeamByToken, Tasks
<1>3. CASE SetPuppetToken(h)
  BY <1>3, DoneMoves, ToMoves DEF CheckLimit, At, InsertAccount, SetPuppetToken,
     UpsertTeamByToken
<1>4. CASE UpsertTeamByToken(h)
  BY <1>4, DoneMoves, ToMoves DEF CheckLimit, At, InsertAccount, SetPuppetToken,
     UpsertTeamByToken
<1> QED
  BY <1>1, <1>2, <1>3, <1>4

\* ... at the client and the connection of a puppet, ...
LEMMA PuppetMoves ==
  ASSUME TypeInv, NEW h \in Handlers
  PROVE  /\ StartUserClient(h) => /\ Elsewhere(h) /\ tasks[h].pc = "starting"
                                  /\ \/ tasks'[h] = Idle /\ tasks'[h].pc = "idle"
                                     \/ Same(h) /\ tasks'[h].pc \in {"reading", "connecting"}
         /\ ReadPuppet(h) => /\ Elsewhere(h) /\ tasks[h].pc = "reading"
                             /\ \/ StoredPuppet(h) = {} /\ tasks'[h] = Idle /\ tasks'[h].pc = "idle"
                                \/ /\ Same(h) /\ tasks'[h].pc = "testing"
                                   /\ \E p \in StoredPuppet(h) : tasks'[h].row.token = p.token
         /\ TestPuppet(h) => /\ Elsewhere(h) /\ tasks[h].pc = "testing"
                             /\ \/ tasks'[h] = Idle /\ tasks'[h].pc = "idle"
                                \/ tasks[h].flag /\ Same(h) /\ tasks'[h].pc = "connecting"
         /\ Connect(h) => /\ Elsewhere(h) /\ tasks[h].pc = "connecting"
                          /\ tasks'[h] = Idle /\ tasks'[h].pc = "idle"
<1>1. ASSUME StartUserClient(h)
      PROVE  /\ Elsewhere(h) /\ tasks[h].pc = "starting"
             /\ \/ tasks'[h] = Idle /\ tasks'[h].pc = "idle"
                \/ Same(h) /\ tasks'[h].pc \in {"reading", "connecting"}
  BY <1>1, DoneMoves, ToMoves DEF StartUserClient, At
<1>2. ASSUME ReadPuppet(h)
      PROVE  /\ Elsewhere(h) /\ tasks[h].pc = "reading"
             /\ \/ StoredPuppet(h) = {} /\ tasks'[h] = Idle /\ tasks'[h].pc = "idle"
                \/ /\ Same(h) /\ tasks'[h].pc = "testing"
                   /\ \E p \in StoredPuppet(h) : tasks'[h].row.token = p.token
  <2>1. CASE StoredPuppet(h) = {} /\ Done(h)
    BY <1>2, <2>1, DoneMoves DEF ReadPuppet, At
  <2>2. ASSUME NEW p \in StoredPuppet(h),
               Start(h, [tasks[h] EXCEPT !.pc = "testing",
                                         !.row = [status |-> "ok", token |-> p.token]])
        PROVE  /\ Elsewhere(h) /\ Same(h) /\ tasks'[h].pc = "testing"
               /\ tasks'[h].row.token = p.token
    <3>1. PICK row : row = [status |-> "ok", token |-> p.token]
      OBVIOUS
    <3>2. Start(h, [tasks[h] EXCEPT !.pc = "testing", !.row = row])
      BY <2>2, <3>1
    <3>3. /\ tasks'[h].pc = "testing" /\ tasks'[h].row = row
          /\ Same(h) /\ Elsewhere(h)
      BY <3>2, RowMoves
    <3> QED
      BY <3>1, <3>3
  <2> QED
    BY <1>2, <2>1, <2>2 DEF ReadPuppet, At
<1>3. ASSUME TestPuppet(h)
      PROVE  /\ Elsewhere(h) /\ tasks[h].pc = "testing"
             /\ \/ tasks'[h] = Idle /\ tasks'[h].pc = "idle"
                \/ tasks[h].flag /\ Same(h) /\ tasks'[h].pc = "connecting"
  BY <1>3, DoneMoves, ToMoves DEF TestPuppet, At
<1>4. ASSUME Connect(h)
      PROVE  Elsewhere(h) /\ tasks[h].pc = "connecting" /\ tasks'[h] = Idle /\ tasks'[h].pc = "idle"
  BY <1>4, DoneMoves DEF Connect, At
<1> QED
  BY <1>1, <1>2, <1>3, <1>4

\* Where getTeamClient returns to.
Returns(h) ==
    \/ tasks'[h] = Idle /\ tasks'[h].pc = "idle"
    \/ Same(h) /\ tasks'[h].pc = tasks[h].next

LEMMA GoesMoves ==
  ASSUME TypeInv, NEW h \in Handlers, Goes(h) \/ GoesWithout(h)
  PROVE  Elsewhere(h) /\ Returns(h)
<1>1. CASE Done(h)
  BY <1>1, DoneMoves DEF Returns
<1>2. CASE To(h, tasks[h].next)
  BY <1>2, ToMoves DEF Returns
<1> QED
  BY <1>1, <1>2 DEF Goes, GoesWithout

\* ... in getTeamClient, ...
LEMMA TeamMoves ==
  ASSUME TypeInv, NEW h \in Handlers
  PROVE  /\ LookTeamClient(h) => /\ Elsewhere(h) /\ tasks[h].pc = "client"
                                 /\ Returns(h) \/ (Same(h) /\ tasks'[h].pc = "readingTeam")
         /\ ReadTeam(h) => /\ Elsewhere(h) /\ tasks[h].pc = "readingTeam"
                           /\ \/ Returns(h)
                              \/ /\ Same(h) /\ tasks'[h].pc = "tryingTeam"
                                 /\ tasks'[h].row = teams[tasks[h].team]
                                 /\ teams[tasks[h].team] # NoTeam
                                 /\ teams[tasks[h].team].status # "bad_auth"
         /\ TryTeam(h) => /\ Elsewhere(h) /\ tasks[h].pc = "tryingTeam"
                          /\ Same(h) /\ tasks'[h].pc = "writingTeam"
                          /\ tasks'[h].row.token = tasks[h].row.token
                          /\ tasks'[h].row.status = "bad_auth" =>
                               tasks[h].row.token \in deadBots \/ Happens("outage")
         /\ WriteTeam(h) => Elsewhere(h) /\ tasks[h].pc = "writingTeam" /\ Returns(h)
<1>1. ASSUME LookTeamClient(h)
      PROVE  /\ Elsewhere(h) /\ tasks[h].pc = "client"
             /\ Returns(h) \/ (Same(h) /\ tasks'[h].pc = "readingTeam")
  BY <1>1, GoesMoves, ToMoves DEF LookTeamClient, At
<1>2. ASSUME ReadTeam(h)
      PROVE  /\ Elsewhere(h) /\ tasks[h].pc = "readingTeam"
             /\ \/ Returns(h)
                \/ /\ Same(h) /\ tasks'[h].pc = "tryingTeam"
                   /\ tasks'[h].row = teams[tasks[h].team]
                   /\ teams[tasks[h].team] # NoTeam
                   /\ teams[tasks[h].team].status # "bad_auth"
  <2>1. CASE GoesWithout(h)
    BY <1>2, <2>1, GoesMoves DEF ReadTeam, At
  <2>2. CASE /\ teams[tasks[h].team] # NoTeam /\ teams[tasks[h].team].status # "bad_auth"
             /\ Start(h, [tasks[h] EXCEPT !.pc = "tryingTeam", !.row = teams[tasks[h].team]])
    <3>1. PICK row : row = teams[tasks[h].team]
      OBVIOUS
    <3>2. Start(h, [tasks[h] EXCEPT !.pc = "tryingTeam", !.row = row])
      BY <2>2, <3>1
    <3>3. tasks'[h].pc = "tryingTeam" /\ tasks'[h].row = row /\ Same(h) /\ Elsewhere(h)
      BY <3>2, RowMoves
    <3> QED
      BY <1>2, <2>2, <3>1, <3>3 DEF ReadTeam, At
  <2> QED
    BY <1>2, <2>1, <2>2 DEF ReadTeam
<1>3. ASSUME TryTeam(h)
      PROVE  /\ Elsewhere(h) /\ tasks[h].pc = "tryingTeam"
             /\ Same(h) /\ tasks'[h].pc = "writingTeam"
             /\ tasks'[h].row.token = tasks[h].row.token
             /\ tasks'[h].row.status = "bad_auth" =>
                  tasks[h].row.token \in deadBots \/ Happens("outage")
  <2>1. tasks[h].pc = "tryingTeam" /\ tasks[h].row \in TeamRows
    BY <1>3, TaskFacts DEF TryTeam, At, TaskOK
  <2>2. PICK ok \in {"ok", "bad_auth"} :
          /\ Start(h, [tasks[h] EXCEPT !.pc = "writingTeam", !.row = [@ EXCEPT !.status = ok]])
          /\ ok = "bad_auth" => tasks[h].row.token \in deadBots \/ Happens("outage")
    BY <1>3 DEF TryTeam
  <2>3. PICK row : row = [tasks[h].row EXCEPT !.status = ok]
    OBVIOUS
  <2>4. row.token = tasks[h].row.token /\ row.status = ok
    BY <2>1, <2>3 DEF TeamRows
  <2>5. PICK t : t = [tasks[h] EXCEPT !.pc = "writingTeam", !.row = [@ EXCEPT !.status = ok]]
    OBVIOUS
  <2>6. t = [tasks[h] EXCEPT !.pc = "writingTeam", !.row = row]
    BY <2>3, <2>5, TaskFacts DEF Tasks
  <2>7. Start(h, [tasks[h] EXCEPT !.pc = "writingTeam", !.row = row])
    BY <2>2, <2>5, <2>6
  <2> QED
    BY <2>1, <2>2, <2>4, <2>7, RowMoves
<1>4. ASSUME WriteTeam(h)
      PROVE  Elsewhere(h) /\ tasks[h].pc = "writingTeam" /\ Returns(h)
  BY <1>4, GoesMoves DEF WriteTeam, At
<1> QED
  BY <1>1, <1>2, <1>3, <1>4

\* ... at the connection of a team, ...
LEMMA RoomMoves ==
  ASSUME TypeInv, NEW h \in Handlers
  PROVE  /\ EnterRoom(h) => /\ Elsewhere(h) /\ tasks[h].pc = "entering"
                            /\ \/ tasks'[h] = Idle /\ tasks'[h].pc = "idle"
                               \/ Same(h) /\ tasks'[h].pc = "joining"
         /\ JoinRoom(h) => /\ Elsewhere(h) /\ tasks[h].pc = "joining"
                           /\ Same(h) /\ tasks'[h].pc = "rtm"
         /\ LookStream(h) => /\ Elsewhere(h) /\ tasks[h].pc = "rtm"
                             /\ \/ tasks'[h] = Idle /\ tasks'[h].pc = "idle"
                                \/ /\ ~NeedsNoStream(tasks[h].team)
                                   /\ Same(h) /\ tasks'[h].pc = "rtmStart"
         /\ StartStream(h) => /\ Elsewhere(h) /\ tasks[h].pc = "rtmStart"
                              /\ \/ tasks'[h] = Idle /\ tasks'[h].pc = "idle"
                                 \/ Same(h) /\ tasks'[h].pc = "rtmConnect"
         /\ ConnectStream(h) => /\ Elsewhere(h) /\ tasks[h].pc = "rtmConnect"
                                /\ tasks'[h] = Idle /\ tasks'[h].pc = "idle"
<1>1. ASSUME EnterRoom(h)
      PROVE  /\ Elsewhere(h) /\ tasks[h].pc = "entering"
             /\ \/ tasks'[h] = Idle /\ tasks'[h].pc = "idle"
                \/ Same(h) /\ tasks'[h].pc = "joining"
  BY <1>1, DoneMoves, ToMoves DEF EnterRoom, At
<1>2. ASSUME JoinRoom(h)
      PROVE  Elsewhere(h) /\ tasks[h].pc = "joining" /\ Same(h) /\ tasks'[h].pc = "rtm"
  BY <1>2, ToMoves DEF JoinRoom, At
<1>3. ASSUME LookStream(h)
      PROVE  /\ Elsewhere(h) /\ tasks[h].pc = "rtm"
             /\ \/ tasks'[h] = Idle /\ tasks'[h].pc = "idle"
                \/ ~NeedsNoStream(tasks[h].team) /\ Same(h) /\ tasks'[h].pc = "rtmStart"
  BY <1>3, DoneMoves, RowMoves DEF LookStream, At
<1>4. ASSUME StartStream(h)
      PROVE  /\ Elsewhere(h) /\ tasks[h].pc = "rtmStart"
             /\ \/ tasks'[h] = Idle /\ tasks'[h].pc = "idle"
                \/ Same(h) /\ tasks'[h].pc = "rtmConnect"
  BY <1>4, DoneMoves, ToMoves DEF StartStream, At
<1>5. ASSUME ConnectStream(h)
      PROVE  /\ Elsewhere(h) /\ tasks[h].pc = "rtmConnect"
             /\ tasks'[h] = Idle /\ tasks'[h].pc = "idle"
  BY <1>5, DoneMoves DEF ConnectStream, At
<1> QED
  BY <1>1, <1>2, <1>3, <1>4, <1>5

\* ... and inside a logout.
LEMMA LogoutMoves ==
  ASSUME TypeInv, NEW h \in Handlers
  PROVE  /\ CountAccounts(h) => /\ Elsewhere(h) /\ tasks[h].pc = "counting"
                                /\ \/ tasks'[h] = Idle /\ tasks'[h].pc = "idle"
                                   \/ Same(h) /\ tasks'[h].pc \in {"revoking", "deletingTeam"}
         /\ DeleteTeam(h) => /\ Elsewhere(h) /\ tasks[h].pc = "deletingTeam"
                             /\ Same(h) /\ tasks'[h].pc = "revoking"
         /\ Revoke(h) => /\ Elsewhere(h) /\ tasks[h].pc = "revoking"
                         /\ Same(h) /\ tasks'[h].pc = "deleting"
         /\ DeleteAccount(h) => /\ Elsewhere(h) /\ tasks[h].pc = "deleting"
                                /\ tasks'[h] = Idle /\ tasks'[h].pc = "idle"
<1>1. ASSUME CountAccounts(h)
      PROVE  /\ Elsewhere(h) /\ tasks[h].pc = "counting"
             /\ \/ tasks'[h] = Idle /\ tasks'[h].pc = "idle"
                \/ Same(h) /\ tasks'[h].pc \in {"revoking", "deletingTeam"}
  BY <1>1, DoneMoves, ToMoves DEF CountAccounts, At
<1>2. ASSUME DeleteTeam(h) \/ Revoke(h) \/ DeleteAccount(h)
      PROVE  /\ Elsewhere(h)
             /\ \/ DeleteTeam(h) /\ tasks[h].pc = "deletingTeam" /\ Same(h) /\ tasks'[h].pc = "revoking"
                \/ Revoke(h) /\ tasks[h].pc = "revoking" /\ Same(h) /\ tasks'[h].pc = "deleting"
                \/ /\ DeleteAccount(h) /\ tasks[h].pc = "deleting"
                   /\ tasks'[h] = Idle /\ tasks'[h].pc = "idle"
  BY <1>2, DoneMoves, ToMoves DEF DeleteTeam, Revoke, DeleteAccount, At
<1> QED
  BY <1>1, <1>2 DEF DeleteTeam, Revoke, DeleteAccount, At

\* How a task begins: as a request, ...
Asked(h) ==
    /\ starting' = starting /\ (Happens("serial") => Quiet)
    /\ \/ tasks'[h].pc \in {"limiting", "counting", "client"} /\ tasks'[h].room = None
       \/ tasks'[h].pc = "reading" /\ tasks'[h].room = None /\ tasks'[h].flag = FALSE
       \/ /\ tasks'[h].pc = "client" /\ tasks'[h].room \in MatrixRoomIds
          /\ Cardinality({r \in MatrixRoomIds : rooms[r] # None}) < RoomLimit

\* ... or as what start-up goes on with.
Resumed(h) ==
    \/ \E p \in starting.puppets :
          /\ starting'.puppets = starting.puppets \ {p} /\ starting'.teams = starting.teams
          /\ tasks'[h].pc = "starting" /\ tasks'[h].user = p.user
          /\ tasks'[h].team = TeamOf(p.slack) /\ tasks'[h].token = p.token
          /\ tasks'[h].flag = TRUE /\ tasks'[h].room = None
    \/ \E t \in starting.teams :
          /\ starting'.puppets = starting.puppets /\ starting'.teams = starting.teams \ {t}
          /\ tasks'[h].pc = "client" /\ tasks'[h].team = t /\ tasks'[h].room = None

LEMMA BeginMoves ==
  ASSUME TypeInv, NEW h \in Handlers, Authorize(h) \/ Begins(h)
  PROVE  /\ tasks[h].pc = "idle" /\ Elsewhere(h) /\ tasks'[h].stray = FALSE
         /\ UNCHANGED <<world, slack, tables, clients, rtm, history>>
         /\ Asked(h) \/ Resumed(h)
<1>1. CASE Authorize(h)
  <2>1. PICK l \in Links, s \in world.slack, puppeting \in BOOLEAN :
          /\ Accepts(h, IF puppeting THEN "puppet" ELSE "login")
          /\ Start(h, [Idle EXCEPT !.pc = "limiting", !.user = waiting[l], !.slack = s,
                                   !.team = TeamOf(s), !.token = l, !.flag = puppeting])
          /\ UNCHANGED <<world, slack, tables, clients, rtm, starting, history>>
    BY <1>1 DEF Authorize
  <2>2. PICK t : t = [Idle EXCEPT !.pc = "limiting", !.user = waiting[l], !.slack = s,
                                  !.team = TeamOf(s), !.token = l, !.flag = puppeting]
    OBVIOUS
  <2>3. t.pc = "limiting" /\ t.room = None /\ t.stray = FALSE
    BY <2>2 DEF Idle
  <2>4. tasks'[h] = t /\ Elsewhere(h)
    BY <2>1, <2>2, StartIs DEF Elsewhere
  <2> QED
    BY <2>1, <2>3, <2>4 DEF Accepts, At, Asked
<1>2. CASE Logout(h)
  <2>1. PICK a \in accounts :
          /\ Accepts(h, "logout")
          /\ Start(h, [Idle EXCEPT !.pc = "counting", !.user = a.user, !.slack = a.slack,
                                   !.team = TeamOf(a.slack), !.token = a.token])
          /\ UNCHANGED <<world, slack, tables, clients, rtm, starting, history>>
    BY <1>2 DEF Logout
  <2>2. PICK t : t = [Idle EXCEPT !.pc = "counting", !.user = a.user, !.slack = a.slack,
                                  !.team = TeamOf(a.slack), !.token = a.token]
    OBVIOUS
  <2>3. t.pc = "counting" /\ t.room = None /\ t.stray = FALSE
    BY <2>2 DEF Idle
  <2>4. tasks'[h] = t /\ Elsewhere(h)
    BY <2>1, <2>2, StartIs DEF Elsewhere
  <2> QED
    BY <2>1, <2>3, <2>4 DEF Accepts, At, Asked
<1>3. CASE Link(h)
  <2>1. PICK s \in world.slack, room \in world.rooms :
          /\ Accepts(h, "link")
          /\ Cardinality({r \in MatrixRoomIds : rooms[r] # None}) < RoomLimit
          /\ Start(h, [Idle EXCEPT !.pc = "client", !.team = TeamOf(s),
                                   !.room = room, !.next = "entering"])
          /\ UNCHANGED <<world, slack, tables, clients, rtm, starting, history>>
    BY <1>3 DEF Link
  <2>2. PICK t : t = [Idle EXCEPT !.pc = "client", !.team = TeamOf(s),
                                  !.room = room, !.next = "entering"]
    OBVIOUS
  <2>3. t.pc = "client" /\ t.room \in MatrixRoomIds /\ t.stray = FALSE
    BY <2>2, TaskFacts DEF Idle
  <2>4. tasks'[h] = t /\ Elsewhere(h)
    BY <2>1, <2>2, StartIs DEF Elsewhere
  <2> QED
    BY <2>1, <2>3, <2>4 DEF Accepts, At, Asked
<1>4. CASE UseTeam(h)
  <2>1. PICK s \in world.slack :
          /\ Accepts(h, "use")
          /\ Start(h, [Idle EXCEPT !.pc = "client", !.team = TeamOf(s)])
          /\ UNCHANGED <<world, slack, tables, clients, rtm, starting, history>>
    BY <1>4 DEF UseTeam
  <2>2. PICK t : t = [Idle EXCEPT !.pc = "client", !.team = TeamOf(s)]
    OBVIOUS
  <2>3. t.pc = "client" /\ t.room = None /\ t.stray = FALSE
    BY <2>2 DEF Idle
  <2>4. tasks'[h] = t /\ Elsewhere(h)
    BY <2>1, <2>2, StartIs DEF Elsewhere
  <2> QED
    BY <2>1, <2>3, <2>4 DEF Accepts, At, Asked
<1>5. CASE UsePuppet(h)
  <2>1. PICK key \in Keys :
          /\ Accepts(h, "use")
          /\ Start(h, [Idle EXCEPT !.pc = "reading", !.user = key[1], !.team = key[2]])
          /\ UNCHANGED <<world, slack, tables, clients, rtm, starting, history>>
    BY <1>5 DEF UsePuppet
  <2>2. PICK t : t = [Idle EXCEPT !.pc = "reading", !.user = key[1], !.team = key[2]]
    OBVIOUS
  <2>3. t.pc = "reading" /\ t.room = None /\ t.stray = FALSE /\ t.flag = FALSE
    BY <2>2 DEF Idle
  <2>4. tasks'[h] = t /\ Elsewhere(h)
    BY <2>1, <2>2, StartIs DEF Elsewhere
  <2> QED
    BY <2>1, <2>3, <2>4 DEF Accepts, At, Asked
<1>6. CASE StartPuppet(h)
  <2>1. PICK p \in starting.puppets :
          /\ At(h, "idle") /\ starting' = [starting EXCEPT !.puppets = @ \ {p}]
          /\ Start(h, [Idle EXCEPT !.pc = "starting", !.user = p.user, !.slack = p.slack,
                                   !.team = TeamOf(p.slack), !.token = p.token,
                                   !.flag = TRUE])
          /\ UNCHANGED <<world, slack, tables, clients, rtm, history>>
    BY <1>6 DEF StartPuppet
  <2>2. PICK t : t = [Idle EXCEPT !.pc = "starting", !.user = p.user, !.slack = p.slack,
                                  !.team = TeamOf(p.slack), !.token = p.token,
                                  !.flag = TRUE]
    OBVIOUS
  <2>3. /\ t.pc = "starting" /\ t.room = None /\ t.stray = FALSE /\ t.flag = TRUE
        /\ t.user = p.user /\ t.team = TeamOf(p.slack) /\ t.token = p.token
    BY <2>2 DEF Idle
  <2>4. tasks'[h] = t /\ Elsewhere(h)
    BY <2>1, <2>2, StartIs DEF Elsewhere
  <2>5. starting'.puppets = starting.puppets \ {p} /\ starting'.teams = starting.teams
    BY <2>1 DEF TypeInv, ClientsOK
  <2> QED
    BY <2>1, <2>3, <2>4, <2>5 DEF At, Resumed
<1>7. CASE StartTeam(h)
  <2>1. PICK u \in starting.teams :
          /\ At(h, "idle") /\ starting' = [starting EXCEPT !.teams = @ \ {u}]
          /\ Start(h, [Idle EXCEPT !.pc = "client", !.team = u, !.next = "rtm"])
          /\ UNCHANGED <<world, slack, tables, clients, rtm, history>>
    BY <1>7 DEF StartTeam
  <2>2. PICK t : t = [Idle EXCEPT !.pc = "client", !.team = u, !.next = "rtm"]
    OBVIOUS
  <2>3. t.pc = "client" /\ t.room = None /\ t.stray = FALSE /\ t.team = u
    BY <2>2 DEF Idle
  <2>4. tasks'[h] = t /\ Elsewhere(h)
    BY <2>1, <2>2, StartIs DEF Elsewhere
  <2>5. starting'.puppets = starting.puppets /\ starting'.teams = starting.teams \ {u}
    BY <2>1 DEF TypeInv, ClientsOK
  <2> QED
    BY <2>1, <2>3, <2>4, <2>5 DEF At, Resumed
<1> QED
  BY <1>1, <1>2, <1>3, <1>4, <1>5, <1>6, <1>7 DEF Begins

-----------------------------------------------------------------------------
(* The tokens of teams *)

\* Whoever tries the token of a team, or is about to write what came of it, has
\* the one of the last login.
TokenInv ==
    /\ TokenCurrent
    /\ \A h \in Handlers : tasks[h].pc \in {"tryingTeam", "writingTeam"} =>
          \/ tasks[h].team \in raced
          \/ /\ tasks[h].row.token = last[tasks[h].team]
             /\ tasks[h].row.status = "bad_auth" =>
                  tasks[h].pc = "writingTeam" /\ (last[tasks[h].team] \in deadBots \/ Happens("outage"))

\* A step that writes no team and makes nobody try one.
LEMMA TokenAlone ==
  ASSUME TypeInv, TokenInv, UNCHANGED <<world, teams, last>>,
         raced \subseteq raced', deadBots \subseteq deadBots',
         \A h \in Handlers : \/ tasks'[h].pc \notin {"tryingTeam", "writingTeam"}
                             \/ /\ tasks'[h].pc = tasks[h].pc /\ tasks'[h].row = tasks[h].row
                                /\ tasks'[h].team = tasks[h].team
  PROVE  TokenInv'
BY DEF TokenInv, TokenCurrent, Happens

LEMMA TokenHandler ==
  ASSUME TypeInv, TokenInv, NEW h \in Handlers, HandlerStep(h)
  PROVE  TokenInv'
<1> DEFINE team == tasks[h].team
           Aside == /\ UNCHANGED <<world, teams, last>> /\ raced \subseteq raced'
                    /\ deadBots \subseteq deadBots' /\ Elsewhere(h)
                    /\ tasks'[h].pc \notin {"tryingTeam", "writingTeam"}
<1>1. ASSUME Aside PROVE TokenInv'
  BY <1>1, TokenAlone DEF Elsewhere
<1>2. CASE Authorize(h) \/ Begins(h)
  <2>1. tasks'[h].pc \notin {"tryingTeam", "writingTeam"}
    BY <1>2, BeginMoves DEF Asked, Resumed
  <2> QED
    BY <1>1, <1>2, <2>1, BeginMoves DEF slack, tables, history
<1>3. CASE CheckLimit(h) \/ InsertAccount(h) \/ SetPuppetToken(h)
  <2>1. UNCHANGED <<world, teams, last, raced, deadBots>>
    BY <1>3 DEF CheckLimit, InsertAccount, SetPuppetToken, slack, tables, history
  <2>2. Elsewhere(h) /\ tasks'[h].pc \notin {"tryingTeam", "writingTeam"}
    BY <1>3, LoginMoves
  <2> QED
    BY <1>1, <2>1, <2>2
<1>4. CASE UpsertTeamByToken(h)
  <2>1. /\ Elsewhere(h) /\ tasks'[h].pc \notin {"tryingTeam", "writingTeam"}
        /\ tasks[h].pc = "botting" /\ UNCHANGED <<world, deadBots>>
    BY <1>4, LoginMoves DEF UpsertTeamByToken, slack
  <2>2. CASE UNCHANGED <<teams, last, raced>>
    BY <1>1, <2>1, <2>2
  <2>3. CASE /\ teams' = [teams EXCEPT ![team] = TeamOfLogin(tasks[h])]
             /\ last' = [last EXCEPT ![team] = tasks[h].token]
             /\ raced' = IF team \in TeamsAt({"tryingTeam", "writingTeam"})
                         THEN raced \cup {team} ELSE raced
    <3>1. /\ teams \in [Teams -> TeamRows \cup {NoTeam}] /\ last \in [Teams -> Links \cup {None}]
      BY DEF TypeInv, TablesOK
    <3>2. TeamOfLogin(tasks[h]).token = tasks[h].token /\ TeamOfLogin(tasks[h]).status = "ok"
      BY DEF TeamOfLogin
    <3>3. TokenCurrent'
      BY <2>1, <2>3, <3>1, <3>2 DEF TokenInv, TokenCurrent, Happens
    <3>4. ASSUME NEW g \in Handlers, tasks'[g].pc \in {"tryingTeam", "writingTeam"}
          PROVE  \/ tasks'[g].team \in raced'
                 \/ /\ tasks'[g].row.token = last'[tasks'[g].team]
                    /\ tasks'[g].row.status = "bad_auth" =>
                         /\ tasks'[g].pc = "writingTeam"
                         /\ last'[tasks'[g].team] \in deadBots' \/ Happens("outage")'
      <4>1. tasks'[g] = tasks[g]
        BY <2>1, <3>4 DEF Elsewhere
      <4>2. CASE tasks[g].team = team
        BY <2>3, <3>4, <4>1, <4>2 DEF TeamsAt
      <4>3. CASE tasks[g].team # team
        <5>1. last'[tasks[g].team] = last[tasks[g].team] /\ raced \subseteq raced'
          BY <2>3, <3>1, <3>4, <4>1, <4>3, TaskFacts DEF TaskOK
        <5> QED
          BY <2>1, <3>4, <4>1, <5>1 DEF TokenInv, Happens
      <4> QED
        BY <4>2, <4>3
    <3> QED
      BY <3>3, <3>4 DEF TokenInv
  <2> QED
    BY <1>4, <2>2, <2>3 DEF UpsertTeamByToken
<1>5. CASE StartUserClient(h) \/ ReadPuppet(h) \/ TestPuppet(h) \/ Connect(h)
  <2>1. UNCHANGED <<world, teams, last, raced, deadBots>>
    BY <1>5 DEF StartUserClient, ReadPuppet, TestPuppet, Connect, slack, tables, history
  <2>2. Elsewhere(h) /\ tasks'[h].pc \notin {"tryingTeam", "writingTeam"}
    BY <1>5, PuppetMoves
  <2> QED
    BY <1>1, <2>1, <2>2
<1>6. CASE LookTeamClient(h) \/ ReadTeam(h) \/ TryTeam(h)
  <2>1. UNCHANGED <<world, teams, last, raced, deadBots>>
    BY <1>6 DEF LookTeamClient, ReadTeam, TryTeam, slack, tables, history
  <2>2. Elsewhere(h)
    BY <1>6, TeamMoves
  <2>3. tasks[h] \in Tasks /\ TaskOK(tasks[h])
    BY TaskFacts
  <2>4. CASE tasks'[h].pc \notin {"tryingTeam", "writingTeam"}
    BY <1>1, <2>1, <2>2, <2>4
  <2>5. ASSUME tasks'[h].pc \in {"tryingTeam", "writingTeam"}
        PROVE  /\ tasks'[h].team = team
               /\ \/ team \in raced
                  \/ /\ tasks'[h].row.token = last[team]
                     /\ tasks'[h].row.status = "bad_auth" =>
                          tasks'[h].pc = "writingTeam" /\ (last[team] \in deadBots \/ Happens("outage"))
    <3>1. CASE tasks'[h].pc = "tryingTeam"
      <4>1. /\ Same(h) /\ tasks'[h].row = teams[team] /\ teams[team] # NoTeam
            /\ teams[team].status # "bad_auth" /\ ReadTeam(h)
        BY <1>6, <2>3, <3>1, TeamMoves DEF Returns, Tasks
      <4>2. team \in Teams
        BY <2>3, <4>1 DEF ReadTeam, At, TaskOK
      <4> QED
        BY <4>1, <4>2 DEF Same, TokenInv, TokenCurrent
    <3>2. CASE tasks'[h].pc = "writingTeam"
      <4>1. /\ Same(h) /\ tasks[h].pc = "tryingTeam" /\ tasks'[h].row.token = tasks[h].row.token
            /\ tasks'[h].row.status = "bad_auth" =>
                 tasks[h].row.token \in deadBots \/ Happens("outage")
        BY <1>6, <2>3, <3>2, TeamMoves DEF Returns, Tasks
      <4> QED
        BY <3>2, <4>1 DEF Same, TokenInv
    <3> QED
      BY <2>5, <3>1, <3>2
  <2>6. CASE tasks'[h].pc \in {"tryingTeam", "writingTeam"}
    BY <2>1, <2>2, <2>5, <2>6 DEF TokenInv, TokenCurrent, Elsewhere, Happens
  <2> QED
    BY <2>4, <2>6
<1>7. CASE WriteTeam(h)
  <2>1. /\ Elsewhere(h) /\ Returns(h) /\ tasks[h].pc = "writingTeam"
        /\ teams' = [teams EXCEPT ![team] = tasks[h].row] /\ UNCHANGED <<world, last, raced, deadBots>>
    BY <1>7, TeamMoves DEF WriteTeam, slack, history
  <2>2. tasks'[h].pc \notin {"tryingTeam", "writingTeam"}
    BY <2>1, TaskFacts DEF Returns, Tasks
  <2>3. teams \in [Teams -> TeamRows \cup {NoTeam}]
    BY DEF TypeInv, TablesOK
  <2>4. TokenCurrent'
    BY <2>1, <2>3 DEF TokenInv, TokenCurrent, Happens
  <2> QED
    BY <2>1, <2>2, <2>4 DEF TokenInv, Elsewhere, Happens
<1>8. CASE EnterRoom(h) \/ JoinRoom(h) \/ LookStream(h) \/ StartStream(h) \/ ConnectStream(h)
  <2>1. UNCHANGED <<world, teams, last, deadBots>> /\ raced \subseteq raced'
    BY <1>8 DEF EnterRoom, JoinRoom, LookStream, StartStream, ConnectStream, slack, tables, history
  <2>2. Elsewhere(h) /\ tasks'[h].pc \notin {"tryingTeam", "writingTeam"}
    BY <1>8, RoomMoves
  <2> QED
    BY <1>1, <2>1, <2>2
<1>9. CASE CountAccounts(h) \/ Revoke(h) \/ DeleteAccount(h)
  <2>1. UNCHANGED <<world, teams, last, raced, deadBots>>
    BY <1>9 DEF CountAccounts, Revoke, DeleteAccount, slack, tables, history
  <2>2. Elsewhere(h) /\ tasks'[h].pc \notin {"tryingTeam", "writingTeam"}
    BY <1>9, LogoutMoves
  <2> QED
    BY <1>1, <2>1, <2>2
<1>10. CASE DeleteTeam(h)
  <2>1. /\ Elsewhere(h) /\ tasks'[h].pc \notin {"tryingTeam", "writingTeam"}
        /\ teams' = [teams EXCEPT ![team] = NoTeam] /\ raced \subseteq raced'
        /\ UNCHANGED <<world, last, deadBots>>
    BY <1>10, LogoutMoves DEF DeleteTeam, slack, history
  <2>2. TokenCurrent'
    BY <2>1 DEF TokenInv, TokenCurrent, Happens, TypeInv, TablesOK
  <2> QED
    BY <2>1, <2>2 DEF TokenInv, Elsewhere, Happens
<1> QED
  BY <1>2, <1>3, <1>4, <1>5, <1>6, <1>7, <1>8, <1>9, <1>10 DEF HandlerStep, Continues

\* What Block leaves of a task.
LEMMA BlockMoves ==
  ASSUME TypeInv, Block, NEW h \in Handlers
  PROVE  /\ tasks'[h].pc = tasks[h].pc /\ tasks'[h].row = tasks[h].row
         /\ tasks'[h].user = tasks[h].user /\ tasks'[h].slack = tasks[h].slack
         /\ tasks'[h].team = tasks[h].team /\ tasks'[h].room = tasks[h].room
         /\ tasks'[h].token = tasks[h].token /\ tasks'[h].next = tasks[h].next
         /\ tasks'[h].flag = tasks[h].flag
         /\ tasks'[h].stray => tasks[h].stray \/ InRtm(tasks[h])
<1>1. PICK stray : stray = (tasks[h].stray \/ InRtm(tasks[h]))
  OBVIOUS
<1>2. tasks'[h] = [tasks[h] EXCEPT !.stray = stray]
  BY <1>1 DEF Block
<1> QED
  BY <1>1, <1>2, TaskFacts DEF Tasks

LEMMA TokenStep == TypeInv /\ TokenInv /\ [Next]_vars => TokenInv'
<1> SUFFICES ASSUME TypeInv, TokenInv, [Next]_vars PROVE TokenInv'
  OBVIOUS
<1>1. CASE AskLink \/ Expire \/ Unlink \/ Uninstall \/ Unblock \/ UNCHANGED vars
  <2>1. UNCHANGED <<world, teams, last, raced, tasks>> /\ deadBots \subseteq deadBots'
    BY <1>1 DEF AskLink, GetPreauthToken, Expire, Unlink, Uninstall, Unblock, vars, slack,
                tables, history
  <2> QED
    BY <2>1, TokenAlone
<1>2. CASE Block
  BY <1>2, BlockMoves, TokenAlone DEF Block, slack, tables
<1>3. CASE Restart
  <2>1. UNCHANGED <<world, teams, last, raced, deadBots>> /\ \A h \in Handlers : tasks'[h] = Idle
    BY <1>3 DEF Restart, slack, tables
  <2> QED
    BY <2>1, TokenAlone DEF Idle
<1> QED
  BY <1>1, <1>2, <1>3, TokenHandler, NextIs

\* The row of a team has the token of its last login, and says bad_auth only of
\* a token that is dead, or after a call that failed; whatever getTeamClient
\* and setUserAccessToken do at the same time to other teams.
THEOREM TokensOfTeams == Spec => []TokenCurrent
<1>1. Init => TokenInv
  BY DEF Init, TokenInv, TokenCurrent, Idle
<1>2. TokenInv => TokenCurrent
  BY DEF TokenInv
<1> QED
  BY <1>1, <1>2, TokenStep, TypeInvariant, PTL DEF Spec

-----------------------------------------------------------------------------
(* Tokens after a logout *)

\* A handler of which the token l can still be entered into a map or opened.
Carries(h, l) ==
    \/ tasks[h].pc \in {"puppeting", "starting", "connecting"} /\ tasks[h].token = l
    \/ tasks[h].pc \in {"reading", "testing"} /\ tasks[h].flag = TRUE /\ tasks[h].token = l
    \/ tasks[h].pc = "testing" /\ tasks[h].row.token = l

Used(l) ==
    \/ l \in open
    \/ \E p \in puppets \cup starting.puppets : p.token = l
    \/ \E k \in Keys : puppetClients[k] = l
    \/ \E h \in Handlers : Carries(h, l)

LogoutInv ==
    /\ \A l \in Links \ (dead \cup loose) : Used(l) => \E a \in accounts : a.token = l
    /\ \A h \in Handlers : tasks[h].pc = "deleting" => tasks[h].token \in dead \cup loose

\* A step that brings no token into use.
LEMMA LogoutAlone ==
  ASSUME TypeInv, LogoutInv, dead \subseteq dead', loose \subseteq loose',
         \A l \in Links \ (dead' \cup loose') : Used(l)' => Used(l) \/ \E a \in accounts' : a.token = l,
         \A a \in accounts : a \in accounts' \/ a.token \in dead' \cup loose',
         \A h \in Handlers : tasks'[h].pc = "deleting" =>
            \/ tasks'[h].token \in dead' \cup loose'
            \/ tasks[h].pc = "deleting" /\ tasks'[h].token = tasks[h].token
  PROVE  LogoutInv'
BY DEF LogoutInv

\* A step of a handler that enters no place of a token.
LEMMA UnusedAside ==
  ASSUME TypeInv, LogoutInv, NEW h \in Handlers, Elsewhere(h),
         UNCHANGED <<dead, loose, open, puppets, puppetClients, accounts>>,
         starting'.puppets \subseteq starting.puppets,
         tasks'[h].pc \notin {"puppeting", "starting", "connecting", "testing", "deleting"},
         ~(tasks'[h].pc = "reading" /\ tasks'[h].flag = TRUE)
  PROVE  LogoutInv'
<1>1. \A g \in Handlers, l \in Links : Carries(g, l)' => Carries(g, l)
  BY DEF Carries, Elsewhere
<1>2. \A l \in Links : Used(l)' => Used(l)
  BY <1>1 DEF Used
<1>3. \A g \in Handlers : tasks'[g].pc = "deleting" => tasks'[g] = tasks[g]
  BY DEF Elsewhere
<1>4. dead \subseteq dead' /\ loose \subseteq loose' /\ accounts \subseteq accounts'
  OBVIOUS
<1> QED
  BY <1>2, <1>3, <1>4, LogoutAlone

LEMMA LogoutHandler ==
  ASSUME TypeInv, LogoutInv, NEW h \in Handlers, HandlerStep(h)
  PROVE  LogoutInv'
<1> DEFINE Places == {"puppeting", "starting", "connecting", "testing", "deleting"}
           Aside == /\ UNCHANGED <<dead, loose, open, puppets, starting, puppetClients, accounts>>
                    /\ Elsewhere(h) /\ tasks'[h].pc \notin Places
                    /\ ~(tasks'[h].pc = "reading" /\ tasks'[h].flag = TRUE)
<1>0. ASSUME Aside PROVE LogoutInv'
  BY <1>0, UnusedAside
<1>1. TaskOK(tasks[h]) /\ tasks[h] \in Tasks
  BY TaskFacts
<1>2. CASE Authorize(h) \/ Begins(h)
  <2>0. Elsewhere(h) /\ UNCHANGED <<dead, loose, open, puppets, puppetClients, accounts>>
    BY <1>2, BeginMoves DEF slack, tables, clients, rtm, history
  <2>1. CASE Asked(h)
    <3>1. /\ starting' = starting
          /\ \/ tasks'[h].pc \in {"limiting", "counting", "client"}
             \/ tasks'[h].pc = "reading" /\ tasks'[h].flag = FALSE
      BY <2>1 DEF Asked
    <3> QED
      BY <1>0, <2>0, <3>1
  <2>2. ASSUME NEW p \in starting.puppets, starting'.puppets = starting.puppets \ {p},
               tasks'[h].pc = "starting", tasks'[h].token = p.token
        PROVE  LogoutInv'
    <3>1. \A g \in Handlers, l \in Links : Carries(g, l)' => Carries(g, l) \/ l = p.token
      BY <2>0, <2>2 DEF Carries, Elsewhere
    <3>2. \A l \in Links : Used(l)' => Used(l)
      BY <2>0, <2>2, <3>1 DEF Used
    <3>3. \A g \in Handlers : tasks'[g].pc = "deleting" => tasks'[g] = tasks[g]
      BY <2>0, <2>2 DEF Elsewhere
    <3> QED
      BY <2>0, <3>2, <3>3, LogoutAlone
  <2>3. CASE starting'.puppets = starting.puppets /\ tasks'[h].pc = "client"
    BY <2>0, <2>3, UnusedAside
  <2>4. CASE Resumed(h)
    BY <2>2, <2>3, <2>4 DEF Resumed
  <2> QED
    BY <1>2, <2>1, <2>4, BeginMoves
<1>3. CASE CheckLimit(h)
  <2>1. /\ Elsewhere(h) /\ tasks'[h].pc \in {"idle", "inserting"} /\ dead \subseteq dead'
        /\ UNCHANGED <<loose, open, puppets, starting, puppetClients, accounts>>
    BY <1>3, LoginMoves DEF CheckLimit, tables, clients, rtm, history
  <2>2. \A g \in Handlers, l \in Links : Carries(g, l)' => Carries(g, l)
    BY <2>1 DEF Carries, Elsewhere
  <2>3. \A l \in Links : Used(l)' => Used(l)
    BY <2>1, <2>2 DEF Used
  <2>4. \A g \in Handlers : tasks'[g].pc = "deleting" => tasks'[g] = tasks[g]
    BY <2>1 DEF Elsewhere
  <2> QED
    BY <2>1, <2>3, <2>4, LogoutAlone
<1>4. CASE InsertAccount(h)
  <2> DEFINE replaced == {a \in accounts : a.user = tasks[h].user /\ a.slack = tasks[h].slack}
  <2>1. /\ Elsewhere(h) /\ Same(h) /\ tasks'[h].pc \in {"puppeting", "botting"}
        /\ UNCHANGED <<dead, open, puppets, starting, puppetClients>>
        /\ accounts' = (accounts \ replaced) \cup {AccountOf(tasks[h])}
        /\ loose' = loose \cup {a.token : a \in replaced}
    BY <1>4, LoginMoves DEF InsertAccount, slack, clients, rtm
  <2>2. \A g \in Handlers, l \in Links : Carries(g, l)' => Carries(g, l) \/ l = tasks[h].token
    BY <2>1 DEF Carries, Elsewhere, Same
  <2>3. AccountOf(tasks[h]) \in accounts' /\ AccountOf(tasks[h]).token = tasks[h].token
    BY <2>1 DEF AccountOf
  <2>4. \A l \in Links : Used(l)' => Used(l) \/ \E a \in accounts' : a.token = l
    BY <2>1, <2>2, <2>3 DEF Used
  <2>5. \A g \in Handlers : tasks'[g].pc = "deleting" => tasks'[g] = tasks[g]
    BY <2>1 DEF Elsewhere
  <2>6. \A a \in accounts : a \in accounts' \/ a.token \in loose'
    BY <2>1
  <2> QED
    BY <2>1, <2>4, <2>5, <2>6, LogoutAlone
<1>5. CASE SetPuppetToken(h)
  <2>1. /\ Elsewhere(h) /\ tasks'[h].pc \in {"idle", "starting"} /\ tasks[h].pc = "puppeting"
        /\ tasks'[h].pc = "starting" => Same(h)
        /\ UNCHANGED <<dead, loose, open, starting, puppetClients, accounts>>
        /\ puppets' \subseteq puppets \cup {AccountOf(tasks[h])}
    BY <1>5, LoginMoves DEF SetPuppetToken, slack, clients, rtm
  <2>2. \A g \in Handlers, l \in Links : Carries(g, l)' => Carries(g, l) \/ Carries(h, l)
    BY <2>1 DEF Carries, Elsewhere, Same
  <2>3. Carries(h, AccountOf(tasks[h]).token)
    BY <2>1 DEF Carries, AccountOf
  <2>4. \A l \in Links : Used(l)' => Used(l)
    BY <2>1, <2>2, <2>3 DEF Used
  <2>5. \A g \in Handlers : tasks'[g].pc = "deleting" => tasks'[g] = tasks[g]
    BY <2>1 DEF Elsewhere
  <2> QED
    BY <2>1, <2>4, <2>5, LogoutAlone
<1>6. CASE UpsertTeamByToken(h)
  <2>1. /\ Elsewhere(h) /\ tasks'[h].pc \in {"idle", "client"}
        /\ UNCHANGED <<dead, loose, open, puppets, starting, puppetClients, accounts>>
    BY <1>6, LoginMoves DEF UpsertTeamByToken, slack, clients, rtm
  <2> QED
    BY <1>0, <2>1
<1>7. CASE StartUserClient(h) \/ ReadPuppet(h)
  <2>1. /\ Elsewhere(h) /\ tasks[h].pc \in {"starting", "reading"}
        /\ UNCHANGED <<dead, loose, open, puppets, starting, puppetClients, accounts>>
        /\ tasks'[h].pc # "deleting"
    BY <1>7, PuppetMoves DEF StartUserClient, ReadPuppet, slack, tables, clients, rtm, history
  <2>2. ASSUME NEW l \in Links, Carries(h, l)'
        PROVE  Used(l)
    <3>1. CASE StartUserClient(h)
      BY <2>2, <3>1, PuppetMoves DEF Carries, Used, Same
    <3>2. CASE ReadPuppet(h) /\ tasks[h].flag = TRUE /\ tasks[h].token = l
      BY <3>2, PuppetMoves DEF Carries, Used
    <3>3. CASE ReadPuppet(h) /\ tasks'[h].row.token = l
      BY <2>2, <3>3, PuppetMoves DEF Carries, Used, StoredPuppet, PuppetRow
    <3> QED
      <4>1. ReadPuppet(h) => tasks'[h].pc \in {"idle", "testing"}
                             /\ (tasks'[h].pc = "testing" => Same(h))
        BY PuppetMoves
      <4> QED
        BY <1>7, <2>2, <3>1, <3>2, <3>3, <4>1 DEF Carries, Same
  <2>3. \A l \in Links : Used(l)' => Used(l)
    <3>1. \A g \in Handlers, l \in Links : Carries(g, l)' => Carries(g, l) \/ Used(l)
      BY <2>1, <2>2 DEF Carries, Elsewhere
    <3> QED
      BY <2>1, <3>1 DEF Used
  <2>4. \A g \in Handlers : tasks'[g].pc = "deleting" => tasks'[g] = tasks[g]
    BY <2>1 DEF Elsewhere
  <2> QED
    BY <2>1, <2>3, <2>4, LogoutAlone
<1>8. CASE TestPuppet(h) \/ Connect(h)
  <2>1. /\ Elsewhere(h) /\ tasks'[h].pc \in {"idle", "connecting"}
        /\ UNCHANGED <<dead, loose, puppets, starting, accounts>>
    BY <1>8, PuppetMoves DEF TestPuppet, Connect, slack, tables, rtm, history
  <2>2. \A l \in Links : Carries(h, l)' => Carries(h, l)
    BY <1>8, PuppetMoves DEF Carries, Same
  <2>3. \A l \in Links : l \in open' => l \in open \/ Carries(h, l)
    BY <1>8, PuppetMoves DEF TestPuppet, Connect, Carries
  <2>4. ASSUME NEW k \in Keys, NEW l \in Links, puppetClients'[k] = l
        PROVE  puppetClients[k] = l \/ Carries(h, l)
    BY <1>8, <2>4, PuppetMoves DEF TestPuppet, Connect, Carries, clients, TypeInv, ClientsOK
  <2>5. \A l \in Links : Used(l)' => Used(l)
    <3>1. \A g \in Handlers, l \in Links : Carries(g, l)' => Carries(g, l)
      BY <2>1, <2>2 DEF Carries, Elsewhere
    <3> QED
      BY <2>1, <2>3, <2>4, <3>1 DEF Used
  <2>6. \A g \in Handlers : tasks'[g].pc = "deleting" => tasks'[g] = tasks[g]
    BY <2>1 DEF Elsewhere
  <2> QED
    BY <2>1, <2>5, <2>6, LogoutAlone
<1>9. CASE LookTeamClient(h) \/ ReadTeam(h) \/ TryTeam(h) \/ WriteTeam(h)
  <2>1. UNCHANGED <<dead, loose, open, puppets, starting, puppetClients, accounts>>
    BY <1>9 DEF LookTeamClient, ReadTeam, TryTeam, WriteTeam, slack, tables, clients, rtm, history
  <2>2. Elsewhere(h) /\ tasks'[h].pc \notin Places \cup {"reading"}
    BY <1>1, <1>9, TeamMoves DEF Returns, Tasks
  <2> QED
    BY <1>0, <2>1, <2>2
<1>10. CASE EnterRoom(h) \/ JoinRoom(h) \/ LookStream(h) \/ StartStream(h) \/ ConnectStream(h)
  <2>1. UNCHANGED <<dead, loose, open, puppets, starting, puppetClients, accounts>>
    BY <1>10 DEF EnterRoom, JoinRoom, LookStream, StartStream, ConnectStream, slack, tables,
                 clients, rtm, history
  <2>2. Elsewhere(h) /\ tasks'[h].pc \notin Places \cup {"reading"}
    BY <1>10, RoomMoves
  <2> QED
    BY <1>0, <2>1, <2>2
<1>11. CASE CountAccounts(h) \/ DeleteTeam(h)
  <2>1. UNCHANGED <<dead, loose, open, puppets, starting, puppetClients, accounts>>
    BY <1>11 DEF CountAccounts, DeleteTeam, slack, tables, clients, rtm, history
  <2>2. Elsewhere(h) /\ tasks'[h].pc \notin Places \cup {"reading"}
    BY <1>11, LogoutMoves
  <2> QED
    BY <1>0, <2>1, <2>2
<1>12. CASE Revoke(h) \/ DeleteAccount(h)
  <2>1. /\ Elsewhere(h) /\ tasks'[h].pc \in {"idle", "deleting"}
        /\ dead \subseteq dead' /\ loose \subseteq loose' /\ open' \subseteq open
        /\ UNCHANGED <<puppets, starting, puppetClients>>
    BY <1>12, LogoutMoves DEF Revoke, Revoked, DeleteAccount, slack, tables, clients, rtm
  <2>2. \A g \in Handlers, l \in Links : Carries(g, l)' => Carries(g, l)
    BY <2>1 DEF Carries, Elsewhere
  <2>3. \A l \in Links : Used(l)' => Used(l)
    BY <2>1, <2>2 DEF Used
  <2>4. ASSUME NEW g \in Handlers, tasks'[g].pc = "deleting"
        PROVE  tasks'[g].token \in dead' \cup loose' \/ tasks'[g] = tasks[g]
    BY <1>12, <2>1, <2>4, LogoutMoves DEF Elsewhere, Same, Revoke, Revoked
  <2>5. ASSUME NEW a \in accounts
        PROVE  a \in accounts' \/ a.token \in dead' \cup loose'
    <3>1. CASE Revoke(h)
      BY <3>1 DEF Revoke, tables
    <3>2. CASE DeleteAccount(h)
      BY <2>1, <3>2 DEF DeleteAccount, LogoutInv, At
    <3> QED
      BY <1>12, <3>1, <3>2
  <2> QED
    BY <2>1, <2>3, <2>4, <2>5, LogoutAlone
<1> QED
  BY <1>2, <1>3, <1>4, <1>5, <1>6, <1>7, <1>8, <1>9, <1>10, <1>11, <1>12
  DEF HandlerStep, Continues

LEMMA LogoutStep == TypeInv /\ LogoutInv /\ [Next]_vars => LogoutInv'
<1> SUFFICES ASSUME TypeInv, LogoutInv, [Next]_vars PROVE LogoutInv'
  OBVIOUS
<1>1. CASE AskLink \/ Expire \/ Unlink \/ Uninstall \/ Block \/ Unblock \/ UNCHANGED vars
  <2>1. /\ UNCHANGED <<loose, puppets, starting, puppetClients, accounts>>
        /\ dead \subseteq dead' /\ open' \subseteq open
    BY <1>1 DEF AskLink, GetPreauthToken, Expire, Unlink, Uninstall, Block, DisconnectAll,
                Unblock, vars, slack, tables, clients, rtm, history
  <2>2. \A h \in Handlers : /\ tasks'[h].pc = tasks[h].pc /\ tasks'[h].row = tasks[h].row
                            /\ tasks'[h].token = tasks[h].token /\ tasks'[h].flag = tasks[h].flag
    <3>1. CASE Block
      BY <3>1, BlockMoves
    <3> QED
      BY <1>1, <3>1 DEF AskLink, GetPreauthToken, Expire, Unlink, Uninstall, Unblock, vars
  <2>3. \A g \in Handlers, l \in Links : Carries(g, l)' => Carries(g, l)
    BY <2>2 DEF Carries
  <2>4. \A l \in Links : Used(l)' => Used(l)
    BY <2>1, <2>3 DEF Used
  <2> QED
    BY <2>1, <2>2, <2>4, LogoutAlone
<1>2. CASE Restart
  <2>1. /\ UNCHANGED <<dead, loose, puppets, accounts>> /\ open' = {}
        /\ \A k \in Keys : puppetClients'[k] = None
        /\ starting'.puppets = puppets
        /\ \A h \in Handlers : tasks'[h].pc = "idle"
    BY <1>2 DEF Restart, DisconnectAll, ToStart, slack, tables, Idle
  <2>2. None \notin Links
    BY AccountsAssumption DEF AccountsAssumption
  <2>3. \A l \in Links : Used(l)' => Used(l)
    BY <2>1, <2>2 DEF Used, Carries
  <2> QED
    BY <2>1, <2>3, LogoutAlone
<1> QED
  BY <1>1, <1>2, LogoutHandler, NextIs

\* What logoutAccount leaves behind is of no use: a token that works and that a
\* connection, the puppets table or a puppet's client has is one of a linked
\* account, but for those that a second login replaced, that Slack refused to
\* revoke, or that were stored while the logout was under way.
THEOREM LogoutEndsUse == Spec => []LogoutHolds
<1>1. Init => LogoutInv
  <2> SUFFICES ASSUME Init PROVE LogoutInv
    OBVIOUS
  <2>1. /\ open = {} /\ puppets = {} /\ starting.puppets = {}
        /\ \A k \in Keys : puppetClients[k] = None
        /\ \A h \in Handlers : tasks[h].pc = "idle"
    BY DEF Init, NothingStarts, Idle
  <2> QED
    BY <2>1, AccountsAssumption DEF LogoutInv, Used, Carries, AccountsAssumption
<1>2. LogoutInv => LogoutHolds
  BY DEF LogoutInv, LogoutHolds, Used
<1> QED
  BY <1>1, <1>2, LogoutStep, TypeInvariant, PTL DEF Spec

-----------------------------------------------------------------------------
(* Connections of puppets *)

\* A handler that goes on until the puppet's connection is open.
Connecting(h) ==
    \/ tasks[h].pc \in {"starting", "connecting"}
    \/ tasks[h].pc \in {"reading", "testing"} /\ tasks[h].flag = TRUE

KeyOf(p) == <<p.user, TeamOf(p.slack)>>

\* A Matrix user has one row a team.
RowsInv == \A p, q \in puppets : KeyOf(p) = KeyOf(q) => p = q

\* l is the stored token of the puppet, or he has logged in again.
Current(k, l) == k \in again \/ \E p \in puppets : KeyOf(p) = k /\ p.token = l

\* What is connected, or is going to be, is what is stored.
WantedInv ==
    /\ RowsInv
    /\ \A p \in starting.puppets : Current(KeyOf(p), p.token)
    /\ \A h \in Handlers : tasks[h].pc \in {"puppeting", "starting"} => tasks[h].flag = TRUE
    /\ \A h \in Handlers : Connecting(h) => Current(Key(h), tasks[h].token)
    /\ \A k \in Keys : rtmUsers[k] # None => Current(k, rtmUsers[k])

LEMMA CurrentKept ==
  ASSUME UNCHANGED puppets, again \subseteq again', NEW k, NEW l, Current(k, l)
  PROVE  Current(k, l)'
BY DEF Current, KeyOf

\* A step of a handler that leaves the table alone.
LEMMA WantedAlone ==
  ASSUME TypeInv, WantedInv, NEW h \in Handlers, UNCHANGED <<puppets, again>>, Elsewhere(h),
         starting'.puppets \subseteq starting.puppets,
         tasks'[h].pc \in {"puppeting", "starting"} => tasks'[h].flag = TRUE,
         Connecting(h)' => Current(Key(h)', tasks'[h].token),
         \A k \in Keys : rtmUsers'[k] # None =>
            rtmUsers'[k] = rtmUsers[k] \/ Current(k, rtmUsers'[k])
  PROVE  WantedInv'
<1>1. \A k, l : Current(k, l) => Current(k, l)'
  BY CurrentKept
<1>2. RowsInv'
  BY DEF WantedInv, RowsInv, KeyOf
<1>3. \A p \in starting'.puppets : Current(KeyOf(p), p.token)'
  BY <1>1 DEF WantedInv
<1>4. ASSUME NEW g \in Handlers
      PROVE  /\ tasks'[g].pc \in {"puppeting", "starting"} => tasks'[g].flag = TRUE
             /\ Connecting(g)' => Current(Key(g), tasks[g].token)'
  <2>1. CASE g = h
    BY <1>1, <2>1 DEF Current, KeyOf
  <2>2. CASE g # h
    <3>1. tasks'[g] = tasks[g]
      BY <2>2 DEF Elsewhere
    <3>2. Key(g)' = Key(g) /\ (Connecting(g)' => Connecting(g))
      BY <3>1 DEF Key, Connecting
    <3>3. Connecting(g) => Current(Key(g), tasks[g].token)
      BY DEF WantedInv
    <3>4. Current(Key(g), tasks[g].token)' <=> Current(Key(g), tasks[g].token)
      BY <3>1, <3>2 DEF Current, KeyOf
    <3> QED
      BY <3>1, <3>2, <3>3, <3>4 DEF WantedInv
  <2> QED
    BY <2>1, <2>2
<1>5. ASSUME NEW k \in Keys, rtmUsers'[k] # None
      PROVE  Current(k, rtmUsers[k])'
  <2>1. Current(k, rtmUsers'[k])
    BY <1>5 DEF WantedInv
  <2> QED
    BY <2>1 DEF Current, KeyOf
<1> QED
  BY <1>2, <1>3, <1>4, <1>5 DEF WantedInv

\* setPuppetToken writes the row of one key; whatever had the old one of that
\* key is now of a puppet that logged in again.
LEMMA SetPuppetRows ==
  ASSUME TypeInv, NEW h \in Handlers, SetPuppetToken(h), ~PuppetClashes(tasks[h])
  PROVE  /\ tasks[h].pc = "puppeting" /\ Key(h) \in Keys
         /\ tasks'[h].pc = "starting" /\ Same(h) /\ Elsewhere(h)
         /\ AccountOf(tasks[h]) \in AccountRows
         /\ KeyOf(AccountOf(tasks[h])) = Key(h) /\ AccountOf(tasks[h]).token = tasks[h].token
         /\ AccountOf(tasks[h]) \in puppets'
         /\ \A p \in puppets' : p = AccountOf(tasks[h]) \/ (p \in puppets /\ KeyOf(p) # Key(h))
         /\ \A p \in puppets : KeyOf(p) # Key(h) => p \in puppets'
         /\ again \subseteq again'
         /\ \/ Key(h) \in again'
            \/ /\ rtmUsers[Key(h)] = None
               /\ \A p \in starting.puppets : KeyOf(p) # Key(h)
               /\ \A g \in Handlers \ {h} : Connecting(g) => Key(g) # Key(h)
<1> DEFINE q == tasks[h]
<1>1. /\ q.pc = "puppeting" /\ q.user \in Users /\ q.team \in Teams /\ q.slack \in SlackIds
      /\ q.token \in Links /\ q.team = TeamOf(q.slack)
  BY TaskFacts DEF SetPuppetToken, At, TaskOK, OfAccount
<1>2. Key(h) \in Keys /\ KeyOf(AccountOf(q)) = Key(h) /\ AccountOf(q).token = q.token
      /\ AccountOf(q) \in AccountRows /\ AccountOf(q).slack = q.slack /\ AccountOf(q).user = q.user
  BY <1>1 DEF Key, Keys, KeyOf, AccountOf, AccountRows
<1>3. tasks'[h].pc = "starting" /\ Same(h) /\ Elsewhere(h)
  BY ToMoves DEF SetPuppetToken
<1>4. puppets' = {p \in puppets : p.slack # q.slack} \cup {AccountOf(q)}
  BY DEF SetPuppetToken
<1>5. \A p \in puppets : (p.slack = q.slack <=> KeyOf(p) = Key(h))
  BY <1>1 DEF PuppetClashes, KeyOf, Key
<1>6. \/ Key(h) \in again'
      \/ /\ rtmUsers[Key(h)] = None
         /\ \A p \in starting.puppets : KeyOf(p) # Key(h)
         /\ \A g \in Handlers \ {h} : Connecting(g) => Key(g) # Key(h)
  <2>1. \/ Key(h) \in again'
        \/ /\ rtmUsers[Key(h)] = None
           /\ \A p \in starting.puppets : ~(p.user = Key(h)[1] /\ TeamOf(p.slack) = Key(h)[2])
           /\ \A g \in Handlers \ {h} :
                 ~ /\ tasks[g].pc \in {"starting", "reading", "testing", "connecting"}
                   /\ Key(g) = Key(h)
    BY DEF SetPuppetToken
  <2> QED
    BY <2>1 DEF KeyOf, Connecting
<1>7. again \subseteq again'
  BY DEF SetPuppetToken
<1> QED
  BY <1>1, <1>2, <1>3, <1>4, <1>5, <1>6, <1>7

LEMMA SetPuppetWanted ==
  ASSUME TypeInv, WantedInv, NEW h \in Handlers, SetPuppetToken(h), ~PuppetClashes(tasks[h])
  PROVE  WantedInv'
<1> DEFINE key == Key(h)
<1>1. UNCHANGED <<starting, rtmUsers>>
  BY DEF SetPuppetToken, rtm
<1>2. ASSUME NEW k, NEW l, Current(k, l), k # key
      PROVE  Current(k, l)'
  <2>1. /\ again \subseteq again'
        /\ \A p \in puppets : KeyOf(p) # key => p \in puppets'
    BY SetPuppetRows
  <2> HIDE DEF key
  <2> QED
    BY <1>2, <2>1 DEF Current, KeyOf
<1>3. ASSUME NEW k, NEW l, k \in again' PROVE Current(k, l)'
  BY <1>3 DEF Current
<1>4. RowsInv'
  BY SetPuppetRows DEF WantedInv, RowsInv, KeyOf
<1> HIDE DEF key
<1>5. ASSUME NEW p \in starting.puppets PROVE Current(KeyOf(p), p.token)'
  <2>1. Current(KeyOf(p), p.token)
    BY DEF WantedInv
  <2>2. CASE KeyOf(p) # key
    BY <1>2, <2>1, <2>2
  <2>3. CASE KeyOf(p) = key
    <3>1. key \in again'
      BY <2>3, SetPuppetRows DEF key
    <3> QED
      BY <1>3, <2>3, <3>1
  <2> QED
    BY <2>2, <2>3
<1>6. ASSUME NEW k \in Keys, rtmUsers[k] # None PROVE Current(k, rtmUsers[k])'
  <2>1. CASE k # key
    <3>1. PICK l : l = rtmUsers[k]
      OBVIOUS
    <3>2. Current(k, l)
      BY <1>6, <3>1 DEF WantedInv
    <3>3. Current(k, l)'
      BY <1>2, <2>1, <3>2
    <3> QED
      BY <1>1, <3>1, <3>3 DEF Current, KeyOf
  <2>2. CASE k = key
    BY <1>3, <1>6, <2>2, SetPuppetRows DEF key, Current
  <2> QED
    BY <2>1, <2>2
<1>7. ASSUME NEW g \in Handlers, Connecting(g)'
      PROVE  Current(Key(g), tasks[g].token)'
  <2>1. CASE g = h
    <3>1. Key(g)' = key /\ tasks'[g].token = tasks[h].token
      BY <2>1, SetPuppetRows DEF key, Key, Same
    <3> QED
      BY <3>1, SetPuppetRows DEF key, Current, KeyOf
  <2>2. CASE g # h
    <3>1. tasks'[g] = tasks[g]
      BY <2>2, SetPuppetRows DEF Elsewhere
    <3>2. Key(g)' = Key(g) /\ Connecting(g)
      BY <1>7, <3>1 DEF Key, Connecting
    <3>3. CASE Key(g) # key
      BY <1>2, <3>1, <3>2, <3>3 DEF WantedInv, Current
    <3>4. CASE Key(g) = key
      BY <1>3, <2>2, <3>1, <3>2, <3>4, SetPuppetRows DEF key, Current
    <3> QED
      BY <3>3, <3>4
  <2> QED
    BY <2>1, <2>2
<1>8. \A g \in Handlers : tasks'[g].pc \in {"puppeting", "starting"} => tasks'[g].flag = TRUE
  BY SetPuppetRows DEF WantedInv, Same, Elsewhere
<1>9. \A p \in starting'.puppets : Current(KeyOf(p), p.token)'
  BY <1>1, <1>5
<1>10. \A k \in Keys : rtmUsers'[k] # None => Current(k, rtmUsers[k])'
  BY <1>1, <1>6
<1> QED
  BY <1>4, <1>7, <1>8, <1>9, <1>10 DEF WantedInv

LEMMA WantedHandler ==
  ASSUME TypeInv, WantedInv, NEW h \in Handlers, HandlerStep(h)
  PROVE  WantedInv'
<1> DEFINE Aside == /\ UNCHANGED <<puppets, again, rtmUsers>> /\ Elsewhere(h)
                    /\ starting'.puppets \subseteq starting.puppets
                    /\ tasks'[h].pc \notin {"puppeting", "starting"} /\ ~Connecting(h)'
<1>0. ASSUME Aside PROVE WantedInv'
  BY <1>0, WantedAlone
<1>1. tasks[h] \in Tasks /\ TaskOK(tasks[h])
  BY TaskFacts
<1>2. CASE Authorize(h) \/ Begins(h)
  <2>1. Elsewhere(h) /\ UNCHANGED <<puppets, again, rtmUsers>>
    BY <1>2, BeginMoves DEF tables, rtm, history
  <2>2. CASE Asked(h)
    BY <1>0, <2>1, <2>2 DEF Asked, Connecting
  <2>3. ASSUME NEW p \in starting.puppets, starting'.puppets = starting.puppets \ {p},
               tasks'[h].pc = "starting", tasks'[h].token = p.token, tasks'[h].flag = TRUE,
               tasks'[h].user = p.user, tasks'[h].team = TeamOf(p.slack)
        PROVE  WantedInv'
    <3>1. Key(h)' = KeyOf(p)
      BY <2>3 DEF Key, KeyOf
    <3>2. Current(Key(h)', tasks'[h].token)
      BY <2>3, <3>1 DEF WantedInv
    <3> QED
      BY <2>1, <2>3, <3>2, WantedAlone
  <2>4. CASE starting'.puppets = starting.puppets /\ tasks'[h].pc = "client"
    BY <1>0, <2>1, <2>4 DEF Connecting
  <2>5. CASE Resumed(h)
    BY <2>3, <2>4, <2>5 DEF Resumed
  <2> QED
    BY <1>2, <2>2, <2>5, BeginMoves
<1>3. CASE CheckLimit(h) \/ InsertAccount(h) \/ UpsertTeamByToken(h)
  <2>1. UNCHANGED <<puppets, again, rtmUsers, starting>>
    BY <1>3 DEF CheckLimit, InsertAccount, UpsertTeamByToken, tables, rtm, history
  <2>2. /\ Elsewhere(h) /\ tasks'[h].pc \in {"idle", "inserting", "puppeting", "botting", "client"}
        /\ tasks'[h].pc = "puppeting" => tasks'[h].flag = TRUE
    BY <1>1, <1>3, LoginMoves DEF Same, Tasks
  <2> QED
    BY <2>1, <2>2, WantedAlone DEF Connecting
<1>4. CASE SetPuppetToken(h) /\ PuppetClashes(tasks[h])
  <2>1. UNCHANGED <<puppets, again, rtmUsers, starting>> /\ Done(h)
    BY <1>4 DEF SetPuppetToken, rtm
  <2>2. Elsewhere(h) /\ tasks'[h].pc = "idle"
    BY <2>1, DoneMoves
  <2> QED
    BY <1>0, <2>1, <2>2 DEF Connecting
<1>5. CASE StartUserClient(h) \/ ReadPuppet(h) \/ TestPuppet(h) \/ Connect(h)
  <2>1. UNCHANGED <<puppets, again, starting>> /\ Elsewhere(h)
    BY <1>5, PuppetMoves DEF StartUserClient, ReadPuppet, TestPuppet, Connect, tables, history
  <2>2. tasks'[h].pc \notin {"puppeting", "starting"}
    BY <1>5, PuppetMoves
  <2>3. Connecting(h)' => Connecting(h) /\ Same(h)
    BY <1>5, PuppetMoves DEF Connecting, Same, WantedInv
  <2>4. Connecting(h)' => Current(Key(h)', tasks'[h].token)
    BY <2>3 DEF WantedInv, Same, Key
  <2>5. ASSUME NEW k \in Keys, rtmUsers'[k] # None, rtmUsers'[k] # rtmUsers[k]
        PROVE  Current(k, rtmUsers'[k])
    <3>1. /\ rtmUsers' = [rtmUsers EXCEPT ![Key(h)] = tasks[h].token]
          /\ Connecting(h)
      BY <1>5, <2>5 DEF StartUserClient, ReadPuppet, TestPuppet, Connect, rtm, Connecting, At
    <3>2. k = Key(h) /\ rtmUsers'[k] = tasks[h].token
      BY <2>5, <3>1 DEF TypeInv, ClientsOK
    <3> QED
      BY <3>1, <3>2 DEF WantedInv
  <2> QED
    BY <2>1, <2>2, <2>4, <2>5, WantedAlone
<1>6. CASE LookTeamClient(h) \/ ReadTeam(h) \/ TryTeam(h) \/ WriteTeam(h)
  <2>1. UNCHANGED <<puppets, again, rtmUsers, starting>>
    BY <1>6 DEF LookTeamClient, ReadTeam, TryTeam, WriteTeam, tables, rtm, history
  <2>2. Elsewhere(h) /\ tasks'[h].pc \notin {"puppeting", "starting", "reading", "testing", "connecting"}
    BY <1>1, <1>6, TeamMoves DEF Returns, Tasks
  <2> QED
    BY <1>0, <2>1, <2>2 DEF Connecting
<1>7. CASE EnterRoom(h) \/ JoinRoom(h) \/ LookStream(h) \/ StartStream(h) \/ ConnectStream(h)
  <2>1. UNCHANGED <<puppets, again, rtmUsers, starting>>
    BY <1>7 DEF EnterRoom, JoinRoom, LookStream, StartStream, ConnectStream, tables, rtm, history
  <2>2. Elsewhere(h) /\ tasks'[h].pc \notin {"puppeting", "starting", "reading", "testing", "connecting"}
    BY <1>7, RoomMoves
  <2> QED
    BY <1>0, <2>1, <2>2 DEF Connecting
<1>8. CASE CountAccounts(h) \/ DeleteTeam(h) \/ Revoke(h) \/ DeleteAccount(h)
  <2>1. UNCHANGED <<puppets, again, rtmUsers, starting>>
    BY <1>8 DEF CountAccounts, DeleteTeam, Revoke, DeleteAccount, tables, rtm, history
  <2>2. Elsewhere(h) /\ tasks'[h].pc \notin {"puppeting", "starting", "reading", "testing", "connecting"}
    BY <1>8, LogoutMoves
  <2> QED
    BY <1>0, <2>1, <2>2 DEF Connecting
<1> QED
  BY <1>2, <1>3, <1>4, <1>5, <1>6, <1>7, <1>8, SetPuppetWanted DEF HandlerStep, Continues

LEMMA WantedStep == TypeInv /\ WantedInv /\ [Next]_vars => WantedInv'
<1> SUFFICES ASSUME TypeInv, WantedInv, [Next]_vars PROVE WantedInv'
  OBVIOUS
<1>1. CASE AskLink \/ Expire \/ Unlink \/ Uninstall \/ Block \/ Unblock \/ UNCHANGED vars
  <2>1. /\ UNCHANGED <<puppets, again, starting>>
        /\ \A k \in Keys : rtmUsers'[k] = None \/ rtmUsers'[k] = rtmUsers[k]
    BY <1>1 DEF AskLink, GetPreauthToken, Expire, Unlink, Uninstall, Block, DisconnectAll,
                Unblock, vars, tables, rtm, history
  <2>2. \A h \in Handlers : /\ tasks'[h].pc = tasks[h].pc /\ tasks'[h].flag = tasks[h].flag
                            /\ tasks'[h].token = tasks[h].token /\ tasks'[h].user = tasks[h].user
                            /\ tasks'[h].team = tasks[h].team
    <3>1. CASE Block
      BY <3>1, BlockMoves
    <3> QED
      BY <1>1, <3>1 DEF AskLink, GetPreauthToken, Expire, Unlink, Uninstall, Unblock, vars
  <2>3. \A k, l : Current(k, l)' <=> Current(k, l)
    BY <2>1 DEF Current, KeyOf
  <2>4. \A h \in Handlers : /\ Key(h)' = Key(h) /\ (Connecting(h)' <=> Connecting(h))
                            /\ Current(Key(h), tasks[h].token)' <=> Current(Key(h), tasks[h].token)
    BY <2>1, <2>2 DEF Key, Connecting, Current, KeyOf
  <2>5. RowsInv'
    BY <2>1 DEF WantedInv, RowsInv, KeyOf
  <2>6. ASSUME NEW k \in Keys, rtmUsers'[k] # None PROVE Current(k, rtmUsers[k])'
    BY <2>1, <2>6 DEF WantedInv, Current, KeyOf
  <2>7. \A p \in starting'.puppets : Current(KeyOf(p), p.token)'
    BY <2>1, <2>3 DEF WantedInv
  <2> QED
    BY <2>2, <2>4, <2>5, <2>6, <2>7 DEF WantedInv
<1>2. CASE Restart
  <2>1. /\ puppets' = puppets /\ starting'.puppets = puppets
        /\ \A k \in Keys : rtmUsers'[k] = None
        /\ \A h \in Handlers : tasks'[h].pc = "idle"
    BY <1>2 DEF Restart, DisconnectAll, ToStart, tables, Idle
  <2>2. RowsInv'
    BY <2>1 DEF WantedInv, RowsInv, KeyOf
  <2>3. \A p \in starting'.puppets : Current(KeyOf(p), p.token)'
    BY <2>1 DEF Current, KeyOf
  <2> QED
    BY <2>1, <2>2, <2>3 DEF WantedInv, Connecting
<1> QED
  BY <1>1, <1>2, WantedHandler, NextIs

\* Somebody is about to open the connection l of the puppet k.
Opening(k, l) == \E h \in Handlers : Connecting(h) /\ Key(h) = k /\ tasks[h].token = l

\* While the bridge was never blocked and Slack answers: what is entered among
\* the connections is open or about to be, and so is what is stored.
ConnectedInv ==
    gate = "open" /\ ~Happens("outage") =>
      /\ \A k \in Keys : rtmUsers[k] # None =>
            \/ k \in again \/ rtmUsers[k] \in open \cup dead
            \/ \E h \in Handlers : /\ tasks[h].pc = "connecting" /\ Key(h) = k
                                   /\ tasks[h].token = rtmUsers[k]
      /\ \A p \in puppets :
            \/ KeyOf(p) \in again \/ p.token \in open \cup dead
            \/ p \in starting.puppets \/ Opening(KeyOf(p), p.token)

\* What a handler other than h is about to open it goes on to open.
LEMMA OpeningKept ==
  ASSUME NEW h \in Handlers, Elsewhere(h), NEW k, NEW l, Opening(k, l),
         Key(h) = k /\ tasks[h].token = l => ~Connecting(h)
  PROVE  Opening(k, l)'
<1>1. PICK g \in Handlers : Connecting(g) /\ Key(g) = k /\ tasks[g].token = l
  BY DEF Opening
<1>2. tasks'[g] = tasks[g]
  BY <1>1 DEF Elsewhere
<1> QED
  BY <1>1, <1>2 DEF Opening, Connecting, Key

LEMMA OpeningGoesOn ==
  ASSUME NEW h \in Handlers, Elsewhere(h), Same(h), Connecting(h)'
  PROVE  \A k, l : Opening(k, l) => Opening(k, l)'
<1> SUFFICES ASSUME NEW k, NEW l, Opening(k, l) PROVE Opening(k, l)'
  OBVIOUS
<1>1. PICK g \in Handlers : Connecting(g) /\ Key(g) = k /\ tasks[g].token = l
  BY DEF Opening
<1>2. CASE g = h
  BY <1>1, <1>2 DEF Opening, Same, Key
<1>3. CASE g # h
  <2>1. tasks'[g] = tasks[g]
    BY <1>1, <1>3 DEF Elsewhere
  <2> QED
    BY <1>1, <2>1 DEF Opening, Connecting, Key
<1> QED
  BY <1>2, <1>3

\* A step of a handler that gives up no connection: what it was about to open,
\* if anything, is open, dead or about to be.
LEMMA ConnectedAlone ==
  ASSUME TypeInv, ConnectedInv, NEW h \in Handlers, Elsewhere(h),
         UNCHANGED <<world, gate, puppets, again>>, starting'.puppets = starting.puppets,
         open \cup dead \subseteq open' \cup dead',
         \A k \in Keys : \/ rtmUsers'[k] = rtmUsers[k]
                         \/ k = Key(h) /\ rtmUsers'[k] = tasks[h].token,
         \A k \in Keys : rtmUsers'[k] # rtmUsers[k] => tasks'[h].pc = "connecting" /\ Same(h),
         tasks[h].pc = "connecting" => tasks[h].token \in open' \cup dead',
         gate = "open" /\ ~Happens("outage") /\ Connecting(h) =>
            \/ Connecting(h)' /\ Same(h)
            \/ \A p \in puppets : KeyOf(p) = Key(h) /\ p.token = tasks[h].token =>
                  KeyOf(p) \in again \/ p.token \in open' \cup dead' \/ Opening(KeyOf(p), p.token)'
  PROVE  ConnectedInv'
<1> SUFFICES ASSUME gate = "open", ~Happens("outage")
             PROVE  /\ \A k \in Keys : rtmUsers'[k] # None =>
                          \/ k \in again' \/ rtmUsers'[k] \in open' \cup dead'
                          \/ \E g \in Handlers : /\ tasks'[g].pc = "connecting" /\ Key(g)' = k
                                                 /\ tasks'[g].token = rtmUsers'[k]
                    /\ \A p \in puppets' :
                          \/ KeyOf(p)' \in again' \/ p.token \in open' \cup dead'
                          \/ p \in starting'.puppets \/ Opening(KeyOf(p), p.token)'
  BY DEF ConnectedInv, Happens
<1>1. ASSUME NEW k \in Keys, rtmUsers'[k] # None
      PROVE  \/ k \in again' \/ rtmUsers'[k] \in open' \cup dead'
             \/ \E g \in Handlers : /\ tasks'[g].pc = "connecting" /\ Key(g)' = k
                                    /\ tasks'[g].token = rtmUsers'[k]
  <2>1. CASE rtmUsers'[k] # rtmUsers[k]
    BY <2>1 DEF Same, Key
  <2>2. CASE rtmUsers'[k] = rtmUsers[k]
    <3>1. \/ k \in again \/ rtmUsers[k] \in open \cup dead
          \/ \E g \in Handlers : /\ tasks[g].pc = "connecting" /\ Key(g) = k
                                 /\ tasks[g].token = rtmUsers[k]
      BY <1>1, <2>2 DEF ConnectedInv
    <3>2. ASSUME NEW g \in Handlers, tasks[g].pc = "connecting", Key(g) = k,
                 tasks[g].token = rtmUsers[k], g # h
          PROVE  tasks'[g].pc = "connecting" /\ Key(g)' = k /\ tasks'[g].token = rtmUsers[k]
      BY <3>2 DEF Elsewhere, Key
    <3> QED
      BY <2>2, <3>1, <3>2
  <2> QED
    BY <2>1, <2>2
<1>2. ASSUME NEW p \in puppets
      PROVE  \/ KeyOf(p) \in again \/ p.token \in open' \cup dead'
             \/ p \in starting.puppets \/ Opening(KeyOf(p), p.token)'
  <2>1. \/ KeyOf(p) \in again \/ p.token \in open \cup dead
        \/ p \in starting.puppets \/ Opening(KeyOf(p), p.token)
    BY DEF ConnectedInv
  <2>2. ASSUME Opening(KeyOf(p), p.token)
        PROVE  \/ KeyOf(p) \in again \/ p.token \in open' \cup dead'
               \/ Opening(KeyOf(p), p.token)'
    <3>1. CASE Connecting(h)' /\ Same(h)
      BY <2>2, <3>1, OpeningGoesOn
    <3>2. CASE Connecting(h) /\ KeyOf(p) = Key(h) /\ p.token = tasks[h].token
      BY <3>1, <3>2
    <3>3. CASE ~(Connecting(h) /\ KeyOf(p) = Key(h) /\ p.token = tasks[h].token)
      BY <2>2, <3>3, OpeningKept
    <3> QED
      BY <3>2, <3>3
  <2> QED
    BY <2>1, <2>2
<1>3. \A p : KeyOf(p)' = KeyOf(p)
  BY DEF KeyOf
<1> QED
  BY <1>1, <1>2, <1>3

LEMMA ConnectedHandler ==
  ASSUME TypeInv, PuppetsInv, WantedInv, ConnectedInv, NEW h \in Handlers, HandlerStep(h)
  PROVE  ConnectedInv'
<1> DEFINE Aside == /\ UNCHANGED <<world, gate, puppets, again, rtmUsers>>
                    /\ starting'.puppets = starting.puppets
                    /\ Elsewhere(h) /\ open \cup dead \subseteq open' \cup dead'
                    /\ ~Connecting(h)
<1>0. ASSUME Aside PROVE ConnectedInv'
  BY <1>0, ConnectedAlone DEF Connecting
<1>1. tasks[h] \in Tasks /\ TaskOK(tasks[h])
  BY TaskFacts
<1>2. CASE Authorize(h) \/ Begins(h)
  <2>1. /\ Elsewhere(h) /\ tasks[h].pc = "idle"
        /\ UNCHANGED <<world, gate, puppets, again, rtmUsers, open, dead>>
    BY <1>2, BeginMoves DEF slack, tables, rtm, history
  <2>2. CASE starting'.puppets = starting.puppets
    BY <1>0, <2>1, <2>2 DEF Connecting
  <2>3. ASSUME NEW q \in starting.puppets, starting'.puppets = starting.puppets \ {q},
               tasks'[h].pc = "starting", tasks'[h].token = q.token,
               tasks'[h].user = q.user, tasks'[h].team = TeamOf(q.slack)
        PROVE  ConnectedInv'
    <3>1. Opening(KeyOf(q), q.token)'
      BY <2>3 DEF Opening, Connecting, Key, KeyOf
    <3>2. \A k, l : Opening(k, l) => Opening(k, l)'
      BY <2>1, OpeningKept DEF Connecting
    <3>3. \A g \in Handlers : tasks[g].pc = "connecting" =>
             tasks'[g].pc = "connecting" /\ Key(g)' = Key(g) /\ tasks'[g].token = tasks[g].token
      BY <2>1 DEF Elsewhere, Key
    <3>4. \A p : KeyOf(p)' = KeyOf(p)
      BY DEF KeyOf
    <3>5. ASSUME gate = "open", ~Happens("outage"), NEW p \in puppets
          PROVE  \/ KeyOf(p) \in again \/ p.token \in open \cup dead
                 \/ p \in starting'.puppets \/ Opening(KeyOf(p), p.token)'
      <4>1. \/ KeyOf(p) \in again \/ p.token \in open \cup dead
            \/ p \in starting.puppets \/ Opening(KeyOf(p), p.token)
        BY <3>5 DEF ConnectedInv
      <4>2. CASE p = q
        BY <3>1, <4>2
      <4>3. CASE p # q
        BY <2>3, <3>2, <4>1, <4>3
      <4> QED
        BY <4>2, <4>3
    <3>6. ASSUME gate = "open", ~Happens("outage"), NEW k \in Keys, rtmUsers[k] # None
          PROVE  \/ k \in again \/ rtmUsers[k] \in open \cup dead
                 \/ \E g \in Handlers : /\ tasks'[g].pc = "connecting" /\ Key(g)' = k
                                        /\ tasks'[g].token = rtmUsers[k]
      BY <3>3, <3>6 DEF ConnectedInv
    <3> QED
      BY <2>1, <3>4, <3>5, <3>6 DEF ConnectedInv, Happens
  <2>4. CASE Asked(h)
    BY <2>2, <2>4 DEF Asked
  <2>5. CASE Resumed(h)
    BY <2>2, <2>3, <2>5 DEF Resumed
  <2> QED
    BY <1>2, <2>4, <2>5, BeginMoves
<1>3. CASE CheckLimit(h) \/ InsertAccount(h) \/ UpsertTeamByToken(h)
  <2>1. /\ UNCHANGED <<world, gate, puppets, again, rtmUsers, starting, open>>
        /\ dead \subseteq dead'
    BY <1>3 DEF CheckLimit, InsertAccount, UpsertTeamByToken, slack, tables, rtm, history
  <2>2. Elsewhere(h) /\ tasks[h].pc \in {"limiting", "inserting", "botting"}
    BY <1>3, LoginMoves
  <2> QED
    BY <1>0, <2>1, <2>2 DEF Connecting
<1>4. CASE SetPuppetToken(h) /\ PuppetClashes(tasks[h])
  <2>1. /\ UNCHANGED <<world, gate, puppets, again, rtmUsers, starting, open, dead>>
        /\ tasks[h].pc = "puppeting" /\ Elsewhere(h)
    BY <1>4, LoginMoves DEF SetPuppetToken, slack, rtm
  <2> QED
    BY <1>0, <2>1 DEF Connecting
<1>5. CASE SetPuppetToken(h) /\ ~PuppetClashes(tasks[h])
  <2>1. UNCHANGED <<world, gate, rtmUsers, starting, open, dead>>
    BY <1>5 DEF SetPuppetToken, slack, rtm
  <2>2. /\ tasks[h].pc = "puppeting" /\ tasks'[h].pc = "starting" /\ Same(h) /\ Elsewhere(h)
        /\ KeyOf(AccountOf(tasks[h])) = Key(h) /\ AccountOf(tasks[h]).token = tasks[h].token
        /\ \A p \in puppets' : p = AccountOf(tasks[h]) \/ p \in puppets
        /\ again \subseteq again'
    BY <1>5, SetPuppetRows
  <2>3. ASSUME NEW p \in puppets', p = AccountOf(tasks[h])
        PROVE  Opening(KeyOf(p), p.token)'
    <3>1. KeyOf(p) = Key(h)' /\ p.token = tasks'[h].token
      BY <2>2, <2>3 DEF Key, Same
    <3> QED
      BY <2>2, <3>1 DEF Opening, Connecting, KeyOf
  <2>4. \A k, l : Opening(k, l) => Opening(k, l)'
    BY <2>2, OpeningKept DEF Connecting
  <2>5. \A g \in Handlers : tasks[g].pc = "connecting" =>
           tasks'[g].pc = "connecting" /\ Key(g)' = Key(g) /\ tasks'[g].token = tasks[g].token
    BY <2>2 DEF Elsewhere, Key
  <2>6. \A p : KeyOf(p)' = KeyOf(p)
    BY DEF KeyOf
  <2>7. ASSUME gate = "open", ~Happens("outage"), NEW p \in puppets'
        PROVE  \/ KeyOf(p) \in again' \/ p.token \in open \cup dead
               \/ p \in starting.puppets \/ Opening(KeyOf(p), p.token)'
    <3>1. CASE p = AccountOf(tasks[h])
      BY <2>3, <3>1
    <3>2. CASE p \in puppets
      <4>1. \/ KeyOf(p) \in again \/ p.token \in open \cup dead
            \/ p \in starting.puppets \/ Opening(KeyOf(p), p.token)
        BY <2>7, <3>2 DEF ConnectedInv
      <4> QED
        BY <2>2, <2>4, <4>1
    <3> QED
      BY <2>2, <3>1, <3>2
  <2>8. ASSUME gate = "open", ~Happens("outage"), NEW k \in Keys, rtmUsers[k] # None
        PROVE  \/ k \in again \/ rtmUsers[k] \in open \cup dead
               \/ \E g \in Handlers : /\ tasks'[g].pc = "connecting" /\ Key(g)' = k
                                      /\ tasks'[g].token = rtmUsers[k]
    BY <2>5, <2>8 DEF ConnectedInv
  <2> QED
    BY <2>1, <2>2, <2>6, <2>7, <2>8 DEF ConnectedInv, Happens
<1>6. CASE StartUserClient(h)
  <2>1. /\ UNCHANGED <<world, gate, puppets, again, starting, open, dead>>
        /\ Elsewhere(h) /\ tasks[h].pc = "starting" /\ Connecting(h)
    BY <1>6, PuppetMoves DEF StartUserClient, slack, tables, history, Connecting
  <2>2. tasks[h].flag = TRUE
    BY <2>1 DEF WantedInv
  <2>3. \/ /\ tasks'[h].pc = "idle" /\ rtmUsers' = rtmUsers
           /\ rtmUsers[Key(h)] # None \/ gate = "blocked"
        \/ /\ Same(h) /\ tasks'[h].pc = "connecting"
           /\ rtmUsers' = [rtmUsers EXCEPT ![Key(h)] = tasks[h].token]
        \/ Same(h) /\ tasks'[h].pc = "reading" /\ rtmUsers' = rtmUsers
    BY <1>6, DoneMoves, ToMoves DEF StartUserClient
  <2>4. CASE Same(h) /\ tasks'[h].pc \in {"connecting", "reading"}
    <3>1. Connecting(h)'
      BY <2>2, <2>4 DEF Connecting, Same
    <3>2. \A k \in Keys : \/ rtmUsers'[k] = rtmUsers[k]
                          \/ /\ k = Key(h) /\ rtmUsers'[k] = tasks[h].token
                             /\ tasks'[h].pc = "connecting"
      BY <2>3, <2>4 DEF TypeInv, ClientsOK
    <3> QED
      BY <2>1, <2>4, <3>1, <3>2, ConnectedAlone
  <2>5. CASE tasks'[h].pc = "idle" /\ rtmUsers' = rtmUsers
             /\ (rtmUsers[Key(h)] # None \/ gate = "blocked")
    <3>1. ASSUME gate = "open", ~Happens("outage"), NEW p \in puppets,
                 KeyOf(p) = Key(h), p.token = tasks[h].token
          PROVE  KeyOf(p) \in again \/ p.token \in open \cup dead \/ Opening(KeyOf(p), p.token)'
      <4>1. Key(h) \in Keys
        BY <1>1, <2>1 DEF Key, Keys, TaskOK, OfAccount
      <4>2. Key(h) \in again \/ rtmUsers[Key(h)] = p.token
        <5>1. Current(Key(h), rtmUsers[Key(h)])
          BY <2>5, <3>1, <4>1 DEF WantedInv
        <5> QED
          BY <3>1, <5>1 DEF Current, WantedInv, RowsInv
      <4>3. \/ Key(h) \in again \/ rtmUsers[Key(h)] \in open \cup dead
            \/ \E g \in Handlers : /\ tasks[g].pc = "connecting" /\ Key(g) = Key(h)
                                   /\ tasks[g].token = rtmUsers[Key(h)]
        BY <2>5, <3>1, <4>1 DEF ConnectedInv
      <4>4. ASSUME NEW g \in Handlers, tasks[g].pc = "connecting", Key(g) = Key(h),
                   tasks[g].token = p.token
            PROVE  Opening(KeyOf(p), p.token)'
        <5>1. tasks'[g] = tasks[g]
          BY <2>1, <4>4 DEF Elsewhere
        <5>2. KeyOf(p) = Key(g)'
          BY <3>1, <4>4, <5>1 DEF Key
        <5> QED
          BY <4>4, <5>1, <5>2 DEF Opening, Connecting, KeyOf
      <4> QED
        BY <3>1, <4>2, <4>3, <4>4
    <3> QED
      BY <2>1, <2>5, <3>1, ConnectedAlone
  <2> QED
    BY <2>3, <2>4, <2>5
<1>7. CASE ReadPuppet(h)
  <2>1. /\ UNCHANGED <<world, gate, puppets, again, starting, rtmUsers, open, dead>>
        /\ Elsewhere(h) /\ tasks[h].pc = "reading"
    BY <1>7, PuppetMoves DEF ReadPuppet, slack, tables, rtm, history
  <2>2. CASE Same(h) /\ tasks'[h].pc = "testing"
    <3>1. Connecting(h) => Connecting(h)'
      BY <2>1, <2>2 DEF Connecting, Same
    <3> QED
      BY <2>1, <2>2, <3>1, ConnectedAlone
  <2>3. CASE StoredPuppet(h) = {}
    <3>1. \A p \in puppets : KeyOf(p) # Key(h)
      BY <2>3 DEF StoredPuppet, PuppetRow, KeyOf, Key
    <3> QED
      BY <2>1, <3>1, ConnectedAlone
  <2> QED
    BY <1>7, <2>2, <2>3, PuppetMoves
<1>8. CASE TestPuppet(h)
  <2>1. /\ UNCHANGED <<world, gate, puppets, again, starting, open, dead>>
        /\ Elsewhere(h) /\ tasks[h].pc = "testing"
    BY <1>8, PuppetMoves DEF TestPuppet, slack, tables, history
  <2>2. \/ /\ tasks[h].flag = TRUE /\ Same(h) /\ tasks'[h].pc = "connecting"
           /\ rtmUsers' = rtmUsers \/ rtmUsers' = [rtmUsers EXCEPT ![Key(h)] = tasks[h].token]
        \/ tasks[h].flag = FALSE /\ rtmUsers' = rtmUsers
        \/ (tasks[h].row.token \in dead \/ Happens("outage")) /\ rtmUsers' = rtmUsers
    BY <1>1, <1>8, ToMoves DEF TestPuppet, Tasks
  <2>3. CASE tasks[h].flag = TRUE /\ Same(h) /\ tasks'[h].pc = "connecting"
             /\ (rtmUsers' = rtmUsers \/ rtmUsers' = [rtmUsers EXCEPT ![Key(h)] = tasks[h].token])
    <3>1. Connecting(h)'
      BY <2>3 DEF Connecting
    <3>2. \A k \in Keys : \/ rtmUsers'[k] = rtmUsers[k]
                          \/ k = Key(h) /\ rtmUsers'[k] = tasks[h].token
      <4>1. CASE rtmUsers' = rtmUsers
        BY <4>1
      <4>2. CASE rtmUsers' = [rtmUsers EXCEPT ![Key(h)] = tasks[h].token]
        BY <4>2 DEF TypeInv, ClientsOK
      <4> QED
        BY <2>3, <4>1, <4>2
    <3> QED
      BY <2>1, <2>3, <3>1, <3>2, ConnectedAlone
  <2>4. CASE tasks[h].flag = FALSE /\ rtmUsers' = rtmUsers
    BY <1>0, <2>1, <2>4 DEF Connecting
  <2>5. CASE (tasks[h].row.token \in dead \/ Happens("outage")) /\ rtmUsers' = rtmUsers
    <3>1. ASSUME gate = "open", ~Happens("outage"), NEW p \in puppets, KeyOf(p) = Key(h)
          PROVE  KeyOf(p) \in again \/ p.token \in dead
      <4>1. Key(h) \in again \/ \E q \in PuppetRow(Key(h)) : q.token = tasks[h].row.token
        BY <2>1 DEF PuppetsInv, At
      <4>2. \A q \in PuppetRow(Key(h)) : q \in puppets /\ KeyOf(q) = Key(h)
        BY DEF PuppetRow, KeyOf, Key
      <4> QED
        BY <2>5, <3>1, <4>1, <4>2 DEF WantedInv, RowsInv
    <3> QED
      BY <2>1, <2>5, <3>1, ConnectedAlone
  <2> QED
    BY <2>2, <2>3, <2>4, <2>5
<1>9. CASE Connect(h)
  <2>1. /\ UNCHANGED <<world, gate, puppets, again, starting, rtmUsers, dead>>
        /\ Elsewhere(h) /\ tasks[h].pc = "connecting" /\ open \subseteq open'
    BY <1>9, PuppetMoves DEF Connect, slack, tables, history
  <2>2. tasks[h].token \in open' \cup dead \/ Happens("outage")
    BY <1>9 DEF Connect
  <2>3. CASE tasks[h].token \in open' \cup dead
    BY <2>1, <2>3, ConnectedAlone
  <2>4. CASE Happens("outage")
    BY <2>1, <2>4 DEF ConnectedInv, Happens
  <2> QED
    BY <2>2, <2>3, <2>4
<1>10. CASE LookTeamClient(h) \/ ReadTeam(h) \/ TryTeam(h) \/ WriteTeam(h)
  <2>1. UNCHANGED <<world, gate, puppets, again, rtmUsers, starting, open, dead>>
    BY <1>10 DEF LookTeamClient, ReadTeam, TryTeam, WriteTeam, slack, tables, rtm, history
  <2>2. Elsewhere(h) /\ tasks[h].pc \in {"client", "readingTeam", "tryingTeam", "writingTeam"}
    BY <1>10, TeamMoves
  <2> QED
    BY <1>0, <2>1, <2>2 DEF Connecting
<1>11. CASE EnterRoom(h) \/ JoinRoom(h) \/ LookStream(h) \/ StartStream(h) \/ ConnectStream(h)
  <2>1. UNCHANGED <<world, gate, puppets, again, rtmUsers, starting, open, dead>>
    BY <1>11 DEF EnterRoom, JoinRoom, LookStream, StartStream, ConnectStream, slack, tables, rtm, history
  <2>2. Elsewhere(h) /\ tasks[h].pc \in {"entering", "joining", "rtm", "rtmStart", "rtmConnect"}
    BY <1>11, RoomMoves
  <2> QED
    BY <1>0, <2>1, <2>2 DEF Connecting
<1>12. CASE CountAccounts(h) \/ DeleteTeam(h) \/ Revoke(h) \/ DeleteAccount(h)
  <2>1. /\ UNCHANGED <<world, gate, puppets, again, rtmUsers, starting>>
        /\ open \cup dead \subseteq open' \cup dead'
    BY <1>12 DEF CountAccounts, DeleteTeam, Revoke, Revoked, DeleteAccount, slack, tables, rtm, history
  <2>2. Elsewhere(h) /\ tasks[h].pc \in {"counting", "deletingTeam", "revoking", "deleting"}
    BY <1>12, LogoutMoves
  <2> QED
    BY <1>0, <2>1, <2>2 DEF Connecting
<1> QED
  BY <1>2, <1>3, <1>4, <1>5, <1>6, <1>7, <1>8, <1>9, <1>10, <1>11, <1>12
  DEF HandlerStep, Continues

LEMMA ConnectedStep ==
  TypeInv /\ PuppetsInv /\ WantedInv /\ ConnectedInv /\ [Next]_vars => ConnectedInv'
<1> SUFFICES ASSUME TypeInv, PuppetsInv, WantedInv, ConnectedInv, [Next]_vars
             PROVE  ConnectedInv'
  OBVIOUS
<1>1. CASE AskLink \/ Expire \/ Unlink \/ Uninstall \/ UNCHANGED vars
  <2>1. /\ UNCHANGED <<world, gate, puppets, again, starting, rtmUsers, tasks>>
        /\ open \cup dead \subseteq open' \cup dead'
    BY <1>1 DEF AskLink, GetPreauthToken, Expire, Unlink, Uninstall, vars, tables, slack, rtm, history
  <2>2. \A k, l : Opening(k, l)' <=> Opening(k, l)
    BY <2>1 DEF Opening, Connecting, Key
  <2>3. /\ \A p : KeyOf(p)' = KeyOf(p)
        /\ \A h \in Handlers : Key(h)' = Key(h)
    BY <2>1 DEF KeyOf, Key
  <2> QED
    BY <2>1, <2>2, <2>3 DEF ConnectedInv, Happens
<1>2. CASE Block \/ Unblock
  BY <1>2 DEF Block, Unblock, ConnectedInv
<1>3. CASE Restart
  BY <1>3 DEF Restart, DisconnectAll, ToStart, tables, ConnectedInv
<1> QED
  BY <1>1, <1>2, <1>3, ConnectedHandler, NextIs

\* At rest every puppet whose stored token works has a connection that is open,
\* whatever logins, messages that want his client, restarts and start-ups have
\* run into each other: startUserClient leaves him to whoever has entered him.
THEOREM PuppetsHeard == Spec => []PuppetsConnected
<1>1. Init => WantedInv /\ ConnectedInv /\ PuppetsInv
  BY DEF Init, NothingStarts, WantedInv, RowsInv, Connecting, ConnectedInv, Idle, PuppetsInv,
         PuppetsCurrent, At
<1>2. ConnectedInv => PuppetsConnected
  BY DEF ConnectedInv, PuppetsConnected, Quiet, NothingStarts, Opening, Connecting, At, KeyOf
<1> QED
  BY <1>1, <1>2, PuppetsStep, WantedStep, ConnectedStep, TypeInvariant, PTL DEF Spec

-----------------------------------------------------------------------------
(* The limits on teams and rooms *)

LEMMA Images ==
  ASSUME NEW S, IsFiniteSet(S), NEW f, DOMAIN f = S, f = [x \in S |-> f[x]]
  PROVE  /\ IsFiniteSet({f[x] : x \in S}) /\ Cardinality({f[x] : x \in S}) \in Nat
         /\ Cardinality({f[x] : x \in S}) <= Cardinality(S)
<1>1. f \in Surjection(S, {f[x] : x \in S})
  BY DEF Surjection
<1>2. IsFiniteSet({f[x] : x \in S}) /\ Cardinality({f[x] : x \in S}) <= Cardinality(S)
  BY <1>1, FS_Surjection
<1> QED
  BY <1>2, FS_CardinalityType

LEMMA Unions ==
  ASSUME NEW S, IsFiniteSet(S), NEW T, IsFiniteSet(T), NEW U, U \subseteq S \cup T
  PROVE  /\ IsFiniteSet(U)
         /\ Cardinality(U) \in Nat /\ Cardinality(S) \in Nat /\ Cardinality(T) \in Nat
         /\ Cardinality(U) <= Cardinality(S) + Cardinality(T)
<1>1. /\ IsFiniteSet(S \cup T)
      /\ Cardinality(S \cup T) = Cardinality(S) + Cardinality(T) - Cardinality(S \cap T)
  BY FS_Union
<1>2. IsFiniteSet(U) /\ Cardinality(U) <= Cardinality(S \cup T)
  BY <1>1, FS_Subset
<1>3. IsFiniteSet(S \cap T)
  BY FS_Subset
<1>4. /\ Cardinality(U) \in Nat /\ Cardinality(S) \in Nat /\ Cardinality(T) \in Nat
      /\ Cardinality(S \cap T) \in Nat /\ Cardinality(S \cup T) \in Nat
  BY <1>1, <1>2, <1>3, FS_CardinalityType
<1> QED
  BY <1>1, <1>2, <1>4

\* A handler under way goes on with its task, or ends it.
LEMMA ContinueMoves ==
  ASSUME TypeInv, NEW h \in Handlers, Continues(h)
  PROVE  Elsewhere(h) /\ (tasks'[h] = Idle \/ Same(h))
<1>1. CASE CheckLimit(h) \/ InsertAccount(h) \/ SetPuppetToken(h) \/ UpsertTeamByToken(h)
  BY <1>1, LoginMoves
<1>2. CASE StartUserClient(h) \/ ReadPuppet(h) \/ TestPuppet(h) \/ Connect(h)
  BY <1>2, PuppetMoves
<1>3. CASE LookTeamClient(h) \/ ReadTeam(h) \/ TryTeam(h) \/ WriteTeam(h)
  BY <1>3, TeamMoves DEF Returns
<1>4. CASE EnterRoom(h) \/ JoinRoom(h) \/ LookStream(h) \/ StartStream(h) \/ ConnectStream(h)
  BY <1>4, RoomMoves
<1>5. CASE CountAccounts(h) \/ DeleteTeam(h) \/ Revoke(h) \/ DeleteAccount(h)
  BY <1>5, LogoutMoves
<1> QED
  BY <1>1, <1>2, <1>3, <1>4, <1>5 DEF Continues

Adding == {"inserting", "botting", "tryingTeam", "writingTeam"}

\* The teams that are stored, or that a handler past the limit is to store.
TeamsHeld ==
    {t \in Teams : teams[t] # NoTeam \/ \E h \in Handlers : tasks[h].pc \in Adding /\ tasks[h].team = t}

\* The rooms that are bridged, or that a handler past the limit is to bridge.
RoomsHeld ==
    {r \in MatrixRoomIds : rooms[r] # None \/ \E h \in Handlers : tasks[h].room = r}

TeamsInv ==
    /\ IsFiniteSet(TeamsHeld)
    /\ Cardinality(TeamsHeld) < TeamLimit + Cardinality(Handlers)

RoomsHeldInv ==
    /\ IsFiniteSet(RoomsHeld)
    /\ Cardinality(RoomsHeld) < RoomLimit + Cardinality(Handlers)

LEMMA HandlersFinite ==
  /\ IsFiniteSet(Handlers) /\ Cardinality(Handlers) \in Nat /\ Cardinality(Handlers) >= 1
  /\ \A h \in Handlers : /\ IsFiniteSet(Handlers \ {h})
                         /\ Cardinality(Handlers \ {h}) = Cardinality(Handlers) - 1
<1>1. IsFiniteSet(Handlers) /\ Handlers # {}
  BY HandlersAssumption DEF HandlersAssumption
<1>2. Cardinality(Handlers) \in Nat /\ Cardinality(Handlers) # 0
  BY <1>1, FS_CardinalityType, FS_EmptySet
<1> QED
  BY <1>1, <1>2, FS_RemoveElement

LEMMA TeamsFewer ==
  ASSUME TeamsInv, TeamsHeld' \subseteq TeamsHeld
  PROVE  TeamsInv'
<1>1. IsFiniteSet(TeamsHeld') /\ Cardinality(TeamsHeld') <= Cardinality(TeamsHeld)
  BY FS_Subset DEF TeamsInv
<1>2. Cardinality(TeamsHeld) \in Nat /\ Cardinality(TeamsHeld') \in Nat
  BY <1>1, FS_CardinalityType DEF TeamsInv
<1> QED
  BY <1>1, <1>2, HandlersFinite, AccountsAssumption DEF TeamsInv, AccountsAssumption

\* No step but that of willExceedTeamLimit holds a team that was not held.
LEMMA TeamsHeldKept ==
  ASSUME TypeInv, NEW h \in Handlers, Elsewhere(h), world' = world,
         \A t \in Teams : teams'[t] # NoTeam => teams[t] # NoTeam \/ t \in TeamsHeld,
         tasks'[h].pc \in Adding => tasks'[h].team \in TeamsHeld
  PROVE  TeamsHeld' \subseteq TeamsHeld
BY DEF TeamsHeld, Elsewhere

\* willExceedTeamLimit counts what is stored and the team it asks about: beyond
\* that there is one team for each other handler.
LEMMA CheckLimitTeams ==
  ASSUME TypeInv, TeamsInv, NEW h \in Handlers, CheckLimit(h)
  PROVE  TeamsInv'
<1> DEFINE stored == {t \in Teams : teams[t] # NoTeam}
           team == tasks[h].team
           others == Handlers \ {h}
           f == [g \in others |-> tasks[g].team]
<1>1. Elsewhere(h) /\ UNCHANGED teams
  BY LoginMoves DEF CheckLimit, tables
<1>2. CASE tasks'[h].pc = "idle"
  <2>1. TeamsHeld' \subseteq TeamsHeld
    BY <1>1, <1>2 DEF TeamsHeld, Elsewhere, Adding
  <2> QED
    BY <2>1, TeamsFewer
<1>3. CASE ~ExceedsTeamLimit(team) /\ Same(h)
  <2>1. stored \subseteq TeamsHeld
    BY DEF TeamsHeld
  <2>2. IsFiniteSet(stored) /\ IsFiniteSet(stored \cup {team})
    BY <2>1, FS_Subset, FS_AddElement DEF TeamsInv
  <2>3. IsFiniteSet(others) /\ Cardinality(others) = Cardinality(Handlers) - 1
    BY HandlersFinite
  <2>4. /\ IsFiniteSet({f[g] : g \in others}) /\ Cardinality({f[g] : g \in others}) \in Nat
        /\ Cardinality({f[g] : g \in others}) <= Cardinality(others)
    BY <2>3, Images
  <2>5. TeamsHeld' \subseteq (stored \cup {team}) \cup {f[g] : g \in others}
    BY <1>1, <1>3 DEF TeamsHeld, Elsewhere, Same
  <2>6. Cardinality(stored \cup {team}) \in Nat /\ Cardinality(stored \cup {team}) <= TeamLimit
    BY <1>3, <2>2, FS_CardinalityType, AccountsAssumption DEF ExceedsTeamLimit, AccountsAssumption
  <2>7. /\ IsFiniteSet(TeamsHeld') /\ Cardinality(TeamsHeld') \in Nat
        /\ Cardinality(TeamsHeld') <= Cardinality(stored \cup {team}) + Cardinality({f[g] : g \in others})
    BY <2>2, <2>4, <2>5, Unions
  <2> QED
    BY <2>3, <2>4, <2>6, <2>7, HandlersFinite, AccountsAssumption DEF TeamsInv, AccountsAssumption
<1> QED
  BY <1>2, <1>3, LoginMoves

LEMMA TeamsHandler ==
  ASSUME TypeInv, TeamsInv, NEW h \in Handlers, HandlerStep(h)
  PROVE  TeamsInv'
<1> DEFINE team == tasks[h].team
<1>0. ASSUME TeamsHeld' \subseteq TeamsHeld PROVE TeamsInv'
  BY <1>0, TeamsFewer
<1>1. tasks[h] \in Tasks /\ TaskOK(tasks[h])
  BY TaskFacts
<1>2. CASE Authorize(h) \/ Begins(h)
  <2>1. Elsewhere(h) /\ UNCHANGED <<world, teams>> /\ tasks'[h].pc \notin Adding
    BY <1>2, BeginMoves DEF tables, Asked, Resumed, Adding
  <2> QED
    BY <1>0, <2>1, TeamsHeldKept
<1>3. CASE InsertAccount(h) \/ SetPuppetToken(h)
  <2>1. Elsewhere(h) /\ UNCHANGED <<world, teams>>
    BY <1>3, LoginMoves DEF InsertAccount, SetPuppetToken
  <2>2. tasks'[h].pc \in Adding => tasks[h].pc \in Adding /\ Same(h) /\ team \in Teams
    BY <1>1, <1>3, LoginMoves DEF Adding, TaskOK
  <2>3. tasks'[h].pc \in Adding => tasks'[h].team \in TeamsHeld
    BY <2>2 DEF TeamsHeld, Same
  <2> QED
    BY <1>0, <2>1, <2>3, TeamsHeldKept
<1>4. CASE UpsertTeamByToken(h)
  <2>1. /\ Elsewhere(h) /\ UNCHANGED world /\ tasks[h].pc = "botting" /\ tasks'[h].pc \notin Adding
        /\ teams' = teams \/ teams' = [teams EXCEPT ![team] = TeamOfLogin(tasks[h])]
    BY <1>4, LoginMoves DEF UpsertTeamByToken, Adding
  <2>2. team \in TeamsHeld
    BY <1>1, <2>1 DEF TeamsHeld, Adding, TaskOK
  <2>3. \A t \in Teams : teams'[t] # NoTeam => teams[t] # NoTeam \/ t \in TeamsHeld
    BY <2>1, <2>2 DEF TypeInv, TablesOK
  <2> QED
    BY <1>0, <2>1, <2>3, TeamsHeldKept
<1>5. CASE StartUserClient(h) \/ ReadPuppet(h) \/ TestPuppet(h) \/ Connect(h)
  <2>1. Elsewhere(h) /\ UNCHANGED <<world, teams>> /\ tasks'[h].pc \notin Adding
    BY <1>5, PuppetMoves DEF StartUserClient, ReadPuppet, TestPuppet, Connect, tables, Adding
  <2> QED
    BY <1>0, <2>1, TeamsHeldKept
<1>6. CASE LookTeamClient(h) \/ ReadTeam(h) \/ TryTeam(h)
  <2>1. Elsewhere(h) /\ UNCHANGED <<world, teams>>
    BY <1>6, TeamMoves DEF LookTeamClient, ReadTeam, TryTeam, tables
  <2>2. tasks'[h].pc \in Adding => /\ team \in Teams /\ Same(h)
                                   /\ tasks[h].pc \in Adding \/ teams[team] # NoTeam
    BY <1>1, <1>6, TeamMoves DEF Adding, TaskOK, Returns, Tasks
  <2>3. tasks'[h].pc \in Adding => tasks'[h].team \in TeamsHeld
    BY <2>2 DEF TeamsHeld, Same
  <2> QED
    BY <1>0, <2>1, <2>3, TeamsHeldKept
<1>7. CASE WriteTeam(h)
  <2>1. /\ Elsewhere(h) /\ UNCHANGED world /\ tasks[h].pc = "writingTeam"
        /\ teams' = [teams EXCEPT ![team] = tasks[h].row]
    BY <1>7, TeamMoves DEF WriteTeam
  <2>2. team \in TeamsHeld
    BY <1>1, <2>1 DEF TeamsHeld, Adding, TaskOK
  <2>3. \A t \in Teams : teams'[t] # NoTeam => teams[t] # NoTeam \/ t \in TeamsHeld
    BY <2>1, <2>2 DEF TypeInv, TablesOK
  <2>4. tasks'[h].pc \notin Adding
    BY <1>1, <1>7, TeamMoves DEF Adding, Returns, Tasks
  <2> QED
    BY <1>0, <2>1, <2>3, <2>4, TeamsHeldKept
<1>8. CASE EnterRoom(h) \/ JoinRoom(h) \/ LookStream(h) \/ StartStream(h) \/ ConnectStream(h)
  <2>1. Elsewhere(h) /\ UNCHANGED <<world, teams>> /\ tasks'[h].pc \notin Adding
    BY <1>8, RoomMoves DEF EnterRoom, JoinRoom, LookStream, StartStream, ConnectStream, tables, Adding
  <2> QED
    BY <1>0, <2>1, TeamsHeldKept
<1>9. CASE CountAccounts(h) \/ DeleteTeam(h) \/ Revoke(h) \/ DeleteAccount(h)
  <2>1. /\ Elsewhere(h) /\ UNCHANGED world /\ tasks'[h].pc \notin Adding
        /\ teams' = teams \/ teams' = [teams EXCEPT ![team] = NoTeam]
    BY <1>9, LogoutMoves DEF CountAccounts, DeleteTeam, Revoke, DeleteAccount, tables, Adding
  <2>2. \A t \in Teams : teams'[t] # NoTeam => teams[t] # NoTeam
    BY <2>1 DEF TypeInv, TablesOK
  <2> QED
    BY <1>0, <2>1, <2>2, TeamsHeldKept
<1> QED
  BY <1>2, <1>3, <1>4, <1>5, <1>6, <1>7, <1>8, <1>9, CheckLimitTeams DEF HandlerStep, Continues

LEMMA RoomsFewer ==
  ASSUME RoomsHeldInv, RoomsHeld' \subseteq RoomsHeld
  PROVE  RoomsHeldInv'
<1>1. IsFiniteSet(RoomsHeld') /\ Cardinality(RoomsHeld') <= Cardinality(RoomsHeld)
  BY FS_Subset DEF RoomsHeldInv
<1>2. Cardinality(RoomsHeld) \in Nat /\ Cardinality(RoomsHeld') \in Nat
  BY <1>1, FS_CardinalityType DEF RoomsHeldInv
<1> QED
  BY <1>1, <1>2, HandlersFinite, AccountsAssumption DEF RoomsHeldInv, AccountsAssumption

\* Provisioner.link counts what is bridged: beyond that there is one room for
\* each handler.
LEMMA LinkRooms ==
  ASSUME TypeInv, RoomsHeldInv, NEW h \in Handlers, Elsewhere(h), UNCHANGED rooms,
         Cardinality({r \in MatrixRoomIds : rooms[r] # None}) < RoomLimit
  PROVE  RoomsHeldInv'
<1> DEFINE bridged == {r \in MatrixRoomIds : rooms[r] # None}
           f == [g \in Handlers |-> tasks'[g].room]
<1>1. bridged \subseteq RoomsHeld
  BY DEF RoomsHeld
<1>2. IsFiniteSet(bridged)
  BY <1>1, FS_Subset DEF RoomsHeldInv
<1>3. /\ IsFiniteSet({f[g] : g \in Handlers}) /\ Cardinality({f[g] : g \in Handlers}) \in Nat
      /\ Cardinality({f[g] : g \in Handlers}) <= Cardinality(Handlers)
  BY HandlersFinite, Images
<1>4. RoomsHeld' \subseteq bridged \cup {f[g] : g \in Handlers}
  BY DEF RoomsHeld
<1>5. /\ IsFiniteSet(RoomsHeld') /\ Cardinality(RoomsHeld') \in Nat /\ Cardinality(bridged) \in Nat
      /\ Cardinality(RoomsHeld') <= Cardinality(bridged) + Cardinality({f[g] : g \in Handlers})
  BY <1>2, <1>3, <1>4, Unions
<1> QED
  BY <1>3, <1>5, HandlersFinite, AccountsAssumption DEF RoomsHeldInv, AccountsAssumption

LEMMA RoomsHeldKept ==
  ASSUME TypeInv, NEW h \in Handlers, Elsewhere(h),
         tasks'[h].room = None \/ tasks'[h].room = tasks[h].room,
         \A r \in MatrixRoomIds : rooms'[r] # None => rooms[r] # None \/ r = tasks[h].room
  PROVE  RoomsHeld' \subseteq RoomsHeld
<1>1. None \notin MatrixRoomIds
  BY TaskFacts
<1> QED
  BY <1>1 DEF RoomsHeld, Elsewhere

LEMMA RoomsHeldHandler ==
  ASSUME TypeInv, RoomsHeldInv, NEW h \in Handlers, HandlerStep(h)
  PROVE  RoomsHeldInv'
<1>1. CASE Authorize(h) \/ Begins(h)
  <2>1. Elsewhere(h) /\ UNCHANGED rooms
    BY <1>1, BeginMoves DEF tables
  <2>2. \/ tasks'[h].room = None
        \/ Cardinality({r \in MatrixRoomIds : rooms[r] # None}) < RoomLimit
    <3>1. CASE Asked(h)
      BY <3>1 DEF Asked
    <3>2. CASE Resumed(h)
      BY <3>2 DEF Resumed
    <3> QED
      BY <1>1, <3>1, <3>2, BeginMoves
  <2>3. CASE tasks'[h].room = None
    BY <2>1, <2>3, RoomsHeldKept, RoomsFewer
  <2> QED
    BY <2>1, <2>2, <2>3, LinkRooms
<1>2. CASE Continues(h)
  <2>1. Elsewhere(h) /\ (tasks'[h].room = None \/ tasks'[h].room = tasks[h].room)
    BY <1>2, ContinueMoves DEF Same, Idle
  <2>2. \A r \in MatrixRoomIds : rooms'[r] # None => rooms[r] # None \/ r = tasks[h].room
    <3>1. CASE JoinRoom(h)
      BY <3>1 DEF JoinRoom, TypeInv, TablesOK
    <3>2. CASE ~JoinRoom(h)
      <4>1. rooms' = rooms
        BY <1>2, <3>2 DEF Continues, CheckLimit, InsertAccount, SetPuppetToken, UpsertTeamByToken,
           StartUserClient, ReadPuppet, TestPuppet, Connect, LookTeamClient, ReadTeam, TryTeam,
           WriteTeam, EnterRoom, LookStream, StartStream, ConnectStream, CountAccounts,
           DeleteTeam, Revoke, DeleteAccount, tables
      <4> QED
        BY <4>1
    <3> QED
      BY <3>1, <3>2
  <2> QED
    BY <2>1, <2>2, RoomsHeldKept, RoomsFewer
<1> QED
  BY <1>1, <1>2 DEF HandlerStep

LEMMA QuotasStep ==
  TypeInv /\ TeamsInv /\ RoomsHeldInv /\ [Next]_vars => TeamsInv' /\ RoomsHeldInv'
<1> SUFFICES ASSUME TypeInv, TeamsInv, RoomsHeldInv, [Next]_vars
             PROVE  TeamsInv' /\ RoomsHeldInv'
  OBVIOUS
<1>1. CASE AskLink \/ Expire \/ Unlink \/ Uninstall \/ Block \/ Unblock \/ Restart \/ UNCHANGED vars
  <2>1. UNCHANGED teams
    BY <1>1 DEF AskLink, GetPreauthToken, Expire, Unlink, Uninstall, Block, Unblock, Restart, vars, tables
  <2>2. \A r \in MatrixRoomIds : rooms'[r] # None => rooms[r] # None
    <3>1. CASE Unlink
      BY <3>1 DEF Unlink, TypeInv, TablesOK
    <3> QED
      BY <1>1, <3>1 DEF AskLink, GetPreauthToken, Expire, Uninstall, Block, Unblock, Restart, vars, tables
  <2>3. \A h \in Handlers :
           \/ tasks'[h].pc = "idle" /\ tasks'[h].room = None
           \/ /\ tasks'[h].pc = tasks[h].pc /\ tasks'[h].team = tasks[h].team
              /\ tasks'[h].room = tasks[h].room
    <3>1. CASE Block
      BY <3>1, BlockMoves
    <3>2. CASE Restart
      BY <3>2 DEF Restart, Idle
    <3> QED
      BY <1>1, <3>1, <3>2 DEF AskLink, GetPreauthToken, Expire, Unlink, Uninstall, Unblock, vars
  <2>4. None \notin MatrixRoomIds
    BY TaskFacts
  <2>5. TeamsHeld' \subseteq TeamsHeld /\ RoomsHeld' \subseteq RoomsHeld
    BY <2>1, <2>2, <2>3, <2>4 DEF TeamsHeld, RoomsHeld, Adding
  <2> QED
    BY <2>5, TeamsFewer, RoomsFewer
<1> QED
  BY <1>1, TeamsHandler, RoomsHeldHandler, NextIs

\* The limits of provisioning.limits are passed by less than there are handlers:
\* each is counted before the awaits after which its team or room is stored.
THEOREM QuotasHold == Spec => []Quotas
<1>1. Init => TeamsInv /\ RoomsHeldInv
  <2> SUFFICES ASSUME Init PROVE TeamsInv /\ RoomsHeldInv
    OBVIOUS
  <2>1. TeamsHeld = {} /\ RoomsHeld = {}
    BY AccountsAssumption DEF Init, TeamsHeld, RoomsHeld, Adding, Idle, AccountsAssumption
  <2> QED
    BY <2>1, FS_EmptySet, HandlersFinite, AccountsAssumption
    DEF TeamsInv, RoomsHeldInv, AccountsAssumption
<1>2. TypeInv /\ TeamsInv /\ RoomsHeldInv => Quotas
  <2> SUFFICES ASSUME TeamsInv, RoomsHeldInv PROVE Quotas
    OBVIOUS
  <2>1. {t \in Teams : teams[t] # NoTeam} \subseteq TeamsHeld
    BY DEF TeamsHeld
  <2>2. {r \in MatrixRoomIds : rooms[r] # None} \subseteq RoomsHeld
    BY DEF RoomsHeld
  <2>3. /\ IsFiniteSet({t \in Teams : teams[t] # NoTeam})
        /\ IsFiniteSet({r \in MatrixRoomIds : rooms[r] # None})
        /\ Cardinality({t \in Teams : teams[t] # NoTeam}) <= Cardinality(TeamsHeld)
        /\ Cardinality({r \in MatrixRoomIds : rooms[r] # None}) <= Cardinality(RoomsHeld)
    BY <2>1, <2>2, FS_Subset DEF TeamsInv, RoomsHeldInv
  <2>4. /\ Cardinality({t \in Teams : teams[t] # NoTeam}) \in Nat
        /\ Cardinality({r \in MatrixRoomIds : rooms[r] # None}) \in Nat
        /\ Cardinality(TeamsHeld) \in Nat /\ Cardinality(RoomsHeld) \in Nat
    BY <2>3, FS_CardinalityType DEF TeamsInv, RoomsHeldInv
  <2> QED
    BY <2>3, <2>4, HandlersFinite, AccountsAssumption
    DEF TeamsInv, RoomsHeldInv, Quotas, AccountsAssumption
<1> QED
  BY <1>1, <1>2, QuotasStep, TypeInvariant, PTL DEF Spec

-----------------------------------------------------------------------------
(* How many connections listen to a team *)

InLogin == {"limiting", "inserting", "puppeting", "botting"}
AtTeam == {"client", "readingTeam", "tryingTeam", "writingTeam", "entering", "joining",
           "rtm", "rtmStart", "rtmConnect"}
InStream == {"rtmStart", "rtmConnect"}

\* What a login goes on to, and who comes to the connection of a team.
LEMMA FlowMoves ==
  ASSUME TypeInv, NEW h \in Handlers, Continues(h)
  PROVE  /\ UNCHANGED <<world, starting>> /\ tasks[h].pc # "idle"
         /\ tasks'[h].pc \in InLogin => tasks[h].pc \in InLogin
         /\ tasks'[h].pc \in AtTeam => tasks[h].pc \in InLogin \cup AtTeam
         /\ tasks'[h].pc = "rtmStart" => LookStream(h)
         /\ tasks'[h].pc = "rtmConnect" => StartStream(h)
<1>0. tasks[h] \in Tasks
  BY TaskFacts
<1>1. CASE CheckLimit(h) \/ InsertAccount(h) \/ SetPuppetToken(h) \/ UpsertTeamByToken(h)
  <2>1. UNCHANGED <<world, starting>>
    BY <1>1 DEF CheckLimit, InsertAccount, SetPuppetToken, UpsertTeamByToken
  <2>2. /\ tasks[h].pc \in InLogin
        /\ tasks'[h].pc \in {"idle", "inserting", "puppeting", "botting", "starting", "client"}
    BY <1>1, LoginMoves DEF InLogin
  <2> QED
    BY <2>1, <2>2 DEF InLogin, AtTeam
<1>2. CASE StartUserClient(h) \/ ReadPuppet(h) \/ TestPuppet(h) \/ Connect(h)
  <2>1. UNCHANGED <<world, starting>>
    BY <1>2 DEF StartUserClient, ReadPuppet, TestPuppet, Connect
  <2>2. /\ tasks[h].pc \in {"starting", "reading", "testing", "connecting"}
        /\ tasks'[h].pc \in {"idle", "reading", "testing", "connecting"}
    BY <1>2, PuppetMoves
  <2> QED
    BY <2>1, <2>2 DEF InLogin, AtTeam
<1>3. CASE LookTeamClient(h) \/ ReadTeam(h) \/ TryTeam(h) \/ WriteTeam(h)
  <2>1. UNCHANGED <<world, starting>>
    BY <1>3 DEF LookTeamClient, ReadTeam, TryTeam, WriteTeam
  <2>2. /\ tasks[h].pc \in {"client", "readingTeam", "tryingTeam", "writingTeam"}
        /\ tasks'[h].pc \in {"idle", "entering", "rtm", "readingTeam", "tryingTeam", "writingTeam"}
    BY <1>0, <1>3, TeamMoves DEF Returns, Tasks
  <2> QED
    BY <2>1, <2>2 DEF InLogin, AtTeam
<1>4. CASE EnterRoom(h) \/ JoinRoom(h) \/ LookStream(h) \/ StartStream(h) \/ ConnectStream(h)
  <2>1. UNCHANGED <<world, starting>>
    BY <1>4 DEF EnterRoom, JoinRoom, LookStream, StartStream, ConnectStream
  <2>2. /\ tasks[h].pc \in {"entering", "joining", "rtm", "rtmStart", "rtmConnect"}
        /\ tasks'[h].pc \in {"idle", "joining", "rtm", "rtmStart", "rtmConnect"}
        /\ tasks'[h].pc = "rtmStart" => LookStream(h)
        /\ tasks'[h].pc = "rtmConnect" => StartStream(h)
    BY <1>4, RoomMoves
  <2> QED
    BY <2>1, <2>2 DEF InLogin, AtTeam
<1>5. CASE CountAccounts(h) \/ DeleteTeam(h) \/ Revoke(h) \/ DeleteAccount(h)
  <2>1. UNCHANGED <<world, starting>>
    BY <1>5 DEF CountAccounts, DeleteTeam, Revoke, DeleteAccount
  <2>2. /\ tasks[h].pc \in {"counting", "deletingTeam", "revoking", "deleting"}
        /\ tasks'[h].pc \in {"idle", "deletingTeam", "revoking", "deleting"}
    BY <1>5, LogoutMoves
  <2> QED
    BY <2>1, <2>2 DEF InLogin, AtTeam
<1> QED
  BY <1>1, <1>2, <1>3, <1>4, <1>5 DEF Continues

\* What happens to the connections in a step of a handler.
LEMMA StreamMoves ==
  ASSUME TypeInv, NEW h \in Handlers, HandlerStep(h)
  PROVE  /\ UNCHANGED <<world, deadBots, strayed>>
         /\ UNCHANGED <<rtmTeams, streams>> \/ StartStream(h) \/ ConnectStream(h)
<1>1. CASE Authorize(h) \/ Begins(h)
  BY <1>1, BeginMoves DEF slack, rtm, history
<1>2. CASE CheckLimit(h) \/ InsertAccount(h) \/ SetPuppetToken(h) \/ UpsertTeamByToken(h)
  BY <1>2 DEF CheckLimit, InsertAccount, SetPuppetToken, UpsertTeamByToken, slack, rtm, history
<1>3. CASE StartUserClient(h) \/ ReadPuppet(h) \/ TestPuppet(h) \/ Connect(h)
  BY <1>3 DEF StartUserClient, ReadPuppet, TestPuppet, Connect, slack, rtm, history
<1>4. CASE LookTeamClient(h) \/ ReadTeam(h) \/ TryTeam(h) \/ WriteTeam(h)
  BY <1>4 DEF LookTeamClient, ReadTeam, TryTeam, WriteTeam, slack, rtm, history
<1>5. CASE EnterRoom(h) \/ JoinRoom(h) \/ LookStream(h) \/ StartStream(h) \/ ConnectStream(h)
  BY <1>5 DEF EnterRoom, JoinRoom, LookStream, StartStream, ConnectStream, slack, rtm, history
<1>6. CASE CountAccounts(h) \/ DeleteTeam(h) \/ Revoke(h) \/ DeleteAccount(h)
  BY <1>6 DEF CountAccounts, DeleteTeam, Revoke, Revoked, DeleteAccount, slack, rtm, history
<1> QED
  BY <1>1, <1>2, <1>3, <1>4, <1>5, <1>6 DEF HandlerStep, Continues

LEMMA StartStreamIs ==
  ASSUME TypeInv, NEW h \in Handlers, StartStream(h)
  PROVE  /\ tasks[h].pc = "rtmStart" /\ Elsewhere(h) /\ UNCHANGED streams
         /\ tasks[h].team \in Teams
         /\ \/ tasks'[h].pc = "idle" /\ UNCHANGED rtmTeams
            \/ tasks'[h].pc = "rtmConnect" /\ Same(h) /\ tasks[h].stray /\ UNCHANGED rtmTeams
            \/ /\ tasks'[h].pc = "rtmConnect" /\ Same(h)
               /\ rtmTeams' = [rtmTeams EXCEPT ![tasks[h].team] = [by |-> h, ok |-> FALSE]]
<1>1. tasks[h].pc = "rtmStart" /\ Elsewhere(h) /\ UNCHANGED streams
  BY RoomMoves DEF StartStream
<1>2. tasks[h].team \in Teams
  BY <1>1, TaskFacts DEF TaskOK
<1>3. CASE teams[tasks[h].team] = NoTeam
  BY <1>1, <1>2, <1>3, DoneMoves DEF StartStream
<1>4. CASE teams[tasks[h].team] # NoTeam
  BY <1>1, <1>2, <1>4, ToMoves DEF StartStream
<1> QED
  BY <1>3, <1>4

LEMMA ConnectStreamIs ==
  ASSUME TypeInv, NEW h \in Handlers, ConnectStream(h)
  PROVE  /\ tasks[h].pc = "rtmConnect" /\ Elsewhere(h) /\ tasks'[h].pc = "idle"
         /\ tasks[h].team \in Teams
         /\ \E ok \in BOOLEAN :
              /\ IF rtmTeams[tasks[h].team].by = h
                 THEN rtmTeams' = [rtmTeams EXCEPT ![tasks[h].team] = [by |-> None, ok |-> ok]]
                 ELSE UNCHANGED rtmTeams
              /\ IF ok THEN streams' = [streams EXCEPT ![tasks[h].team] = @ + 1]
                 ELSE UNCHANGED streams
              /\ ~ok => tasks[h].row.token \in deadBots \/ Happens("outage")
<1>1. tasks[h].pc = "rtmConnect" /\ Elsewhere(h) /\ tasks'[h].pc = "idle"
  BY RoomMoves
<1>2. tasks[h].team \in Teams
  BY <1>1, TaskFacts DEF TaskOK
<1> QED
  BY <1>1, <1>2 DEF ConnectStream

\* Only a handler of a bridge that was blocked under it has lost its handler of
\* connections.
StrayInv == \A h \in Handlers : tasks[h].stray => strayed

LEMMA StrayStep == TypeInv /\ StrayInv /\ [Next]_vars => StrayInv'
<1> SUFFICES ASSUME TypeInv, StrayInv, [Next]_vars PROVE StrayInv'
  OBVIOUS
<1>1. ASSUME NEW h \in Handlers, HandlerStep(h) PROVE StrayInv'
  <2>1. Elsewhere(h) /\ (tasks'[h].stray = FALSE \/ tasks'[h].stray = tasks[h].stray)
    <3>1. CASE Authorize(h) \/ Begins(h)
      BY <3>1, BeginMoves
    <3>2. CASE Continues(h)
      BY <3>2, ContinueMoves DEF Same, Idle
    <3> QED
      BY <1>1, <3>1, <3>2 DEF HandlerStep
  <2>2. strayed' = strayed
    BY <1>1, StreamMoves
  <2> QED
    BY <2>1, <2>2 DEF StrayInv, Elsewhere
<1>2. CASE AskLink \/ Expire \/ Unlink \/ Uninstall \/ Unblock \/ UNCHANGED vars
  BY <1>2 DEF AskLink, GetPreauthToken, Expire, Unlink, Uninstall, Unblock, vars, history, StrayInv
<1>3. CASE Block
  <2>1. strayed' <=> (strayed \/ \E h \in Handlers : InRtm(tasks[h]))
    BY <1>3 DEF Block
  <2> QED
    BY <1>3, <2>1, BlockMoves DEF StrayInv
<1>4. CASE Restart
  BY <1>4 DEF Restart, StrayInv, Idle
<1> QED
  BY <1>1, <1>2, <1>3, <1>4, NextIs

\* Where requests do not overlap, a login has nobody beside it, and a team has
\* one handler.
SerialInv ==
    Happens("serial") => \A h \in Handlers :
      /\ tasks[h].pc \in InLogin =>
            /\ starting.puppets = {} /\ starting.teams = {}
            /\ \A g \in Handlers \ {h} : tasks[g].pc = "idle"
      /\ tasks[h].pc \in AtTeam =>
            /\ tasks[h].team \notin starting.teams
            /\ \A g \in Handlers \ {h} : tasks[g].pc \in AtTeam => tasks[g].team # tasks[h].team

LEMMA SerialHandler ==
  ASSUME TypeInv, SerialInv, Happens("serial"), NEW h \in Handlers, HandlerStep(h)
  PROVE  SerialInv'
<1> USE DEF InLogin, AtTeam
<1>1. CASE Authorize(h) \/ Begins(h)
  <2>2. CASE Asked(h)
    <3>1. /\ starting' = starting /\ starting.puppets = {} /\ starting.teams = {}
          /\ \A g \in Handlers : tasks[g].pc = "idle"
      BY <2>2 DEF Asked, Quiet, NothingStarts, At
    <3>2. \A g \in Handlers \ {h} : tasks'[g].pc = "idle"
      BY <1>1, <3>1, BeginMoves DEF Elsewhere
    <3> QED
      BY <3>1, <3>2 DEF SerialInv
  <2>3. CASE Resumed(h)
    <3>1. Elsewhere(h) /\ tasks[h].pc = "idle" /\ world' = world
      BY <1>1, BeginMoves
    <3>2. \/ /\ starting'.teams = starting.teams /\ tasks'[h].pc = "starting"
             /\ starting.puppets # {}
          \/ /\ tasks'[h].pc = "client" /\ tasks'[h].team \in starting.teams
             /\ starting'.teams = starting.teams \ {tasks'[h].team}
      BY <2>3 DEF Resumed
    <3>3. \A g \in Handlers \ {h} : tasks'[g] = tasks[g] /\ tasks[g].pc \notin InLogin
      BY <3>1, <3>2 DEF SerialInv, Elsewhere
    <3>4. \A g \in Handlers : tasks'[g].pc \notin InLogin
      BY <3>2, <3>3
    <3>5. ASSUME NEW g \in Handlers, tasks'[g].pc \in AtTeam
          PROVE  /\ tasks'[g].team \notin starting'.teams
                 /\ \A k \in Handlers \ {g} : tasks'[k].pc \in AtTeam => tasks'[k].team # tasks'[g].team
      <4>1. \A k \in Handlers : tasks[k].pc \in AtTeam => tasks[k].team \notin starting.teams
        BY DEF SerialInv
      <4>2. \A k \in Handlers \ {h} : tasks'[k].pc \in AtTeam =>
               tasks'[k].team \notin starting.teams /\ tasks'[k] = tasks[k]
        BY <3>3, <4>1
      <4>3. CASE g = h
        BY <3>2, <3>5, <4>2, <4>3
      <4>4. CASE g # h
        <5>1. tasks[g].pc \in AtTeam /\ tasks'[g] = tasks[g]
          BY <3>3, <3>5, <4>4
        <5>2. \A k \in Handlers \ {g} : tasks[k].pc \in AtTeam => tasks[k].team # tasks[g].team
          BY <5>1 DEF SerialInv
        <5>3. tasks'[h].pc \in AtTeam => tasks'[h].team # tasks'[g].team
          BY <3>2, <3>5, <4>2, <4>4
        <5> QED
          BY <3>2, <3>3, <3>5, <4>2, <4>4, <5>1, <5>2, <5>3
      <4> QED
        BY <4>3, <4>4
    <3> QED
      BY <3>4, <3>5 DEF SerialInv
  <2> QED
    BY <1>1, <2>2, <2>3, BeginMoves
<1>2. CASE Continues(h)
  <2>1. /\ UNCHANGED <<world, starting>> /\ tasks[h].pc # "idle" /\ Elsewhere(h)
        /\ tasks'[h].pc \in InLogin => tasks[h].pc \in InLogin
        /\ tasks'[h].pc \in AtTeam => tasks[h].pc \in InLogin \cup AtTeam
        /\ tasks'[h] = Idle \/ Same(h)
    BY <1>2, FlowMoves, ContinueMoves
  <2>2. tasks'[h].pc \in InLogin \cup AtTeam => tasks'[h].team = tasks[h].team
    BY <2>1 DEF Same, Idle
  <2>3. CASE tasks[h].pc \in InLogin
    <3>1. /\ starting.puppets = {} /\ starting.teams = {}
          /\ \A g \in Handlers \ {h} : tasks'[g].pc = "idle"
      BY <2>1, <2>3 DEF SerialInv, Elsewhere
    <3> QED
      BY <2>1, <3>1 DEF SerialInv
  <2>4. CASE tasks[h].pc \notin InLogin
    <3>1. \A g \in Handlers : tasks'[g].pc \in AtTeam =>
             tasks[g].pc \in AtTeam /\ tasks'[g].team = tasks[g].team
      BY <2>1, <2>2, <2>4 DEF Elsewhere
    <3>2. \A g \in Handlers : tasks[g].pc \notin InLogin
      BY <2>1, <2>4 DEF SerialInv
    <3>3. \A g \in Handlers : tasks'[g].pc \notin InLogin
      BY <2>1, <3>2 DEF Elsewhere
    <3> QED
      BY <2>1, <3>1, <3>3 DEF SerialInv
  <2> QED
    BY <2>3, <2>4
<1> QED
  BY <1>1, <1>2 DEF HandlerStep

LEMMA WorldStays == [Next]_vars => world' = world
<1> SUFFICES ASSUME [Next]_vars PROVE world' = world
  OBVIOUS
<1>1. ASSUME NEW h \in Handlers, Continues(h) PROVE world' = world
  BY <1>1 DEF Continues, CheckLimit, InsertAccount, SetPuppetToken, UpsertTeamByToken,
     StartUserClient, ReadPuppet, TestPuppet, Connect, LookTeamClient, ReadTeam, TryTeam,
     WriteTeam, EnterRoom, JoinRoom, LookStream, StartStream, ConnectStream, CountAccounts,
     DeleteTeam, Revoke, DeleteAccount
<1>2. ASSUME NEW h \in Handlers, Authorize(h) \/ Begins(h) PROVE world' = world
  BY <1>2 DEF Authorize, Begins, Logout, Link, UseTeam, UsePuppet, StartPuppet, StartTeam
<1>3. CASE AskLink \/ Expire \/ Unlink \/ Uninstall \/ Block \/ Unblock \/ Restart \/ UNCHANGED vars
  BY <1>3 DEF AskLink, GetPreauthToken, Expire, Unlink, Uninstall, Block, Unblock, Restart, vars
<1> QED
  BY <1>1, <1>2, <1>3, NextIs DEF HandlerStep

LEMMA SerialStep == TypeInv /\ SerialInv /\ [Next]_vars => SerialInv'
<1> SUFFICES ASSUME TypeInv, SerialInv, [Next]_vars, Happens("serial") PROVE SerialInv'
  BY WorldStays DEF SerialInv, Happens
<1>1. CASE AskLink \/ Expire \/ Unlink \/ Uninstall \/ Block \/ Unblock \/ UNCHANGED vars
  <2>1. UNCHANGED <<world, starting>>
    BY <1>1 DEF AskLink, GetPreauthToken, Expire, Unlink, Uninstall, Block, Unblock, vars
  <2>2. \A h \in Handlers : tasks'[h].pc = tasks[h].pc /\ tasks'[h].team = tasks[h].team
    <3>1. CASE Block
      BY <3>1, BlockMoves
    <3> QED
      BY <1>1, <3>1 DEF AskLink, GetPreauthToken, Expire, Unlink, Uninstall, Unblock, vars
  <2> QED
    BY <2>1, <2>2 DEF SerialInv, Happens
<1>2. CASE Restart
  BY <1>2 DEF Restart, SerialInv, Idle, InLogin, AtTeam
<1> QED
  BY <1>1, <1>2, SerialHandler, NextIs

\* Then the connection of a team is the one in the map, and a start that is
\* under way is its only one.
OneInv ==
    Happens("serial") /\ ~strayed =>
      /\ \A t \in Teams : \/ streams[t] = 0
                          \/ streams[t] = 1 /\ rtmTeams[t].by = None /\ rtmTeams[t].ok = TRUE
      /\ \A h \in Handlers :
            /\ tasks[h].pc = "rtmStart" =>
                  rtmTeams[tasks[h].team].by = None /\ rtmTeams[tasks[h].team].ok = FALSE
            /\ tasks[h].pc = "rtmConnect" => rtmTeams[tasks[h].team].by = h

\* With overlapping requests, in a world where starts do not fail: each
\* connection of a team has a handler of its own, which is at it or was.
Streaming(t) == {h \in Handlers : tasks[h].pc \in InStream /\ tasks[h].team = t}

ManyInv ==
    ~Happens("uninstall") =>
      /\ deadBots = {}
      /\ ~Happens("outage") /\ ~strayed => \A t \in Teams :
            /\ rtmTeams[t].by = None /\ rtmTeams[t].ok = FALSE =>
                  /\ streams[t] = 0
                  /\ \A h \in Streaming(t) : tasks[h].pc # "rtmConnect"
            /\ streams[t] + Cardinality(Streaming(t)) <= Cardinality(Handlers)

LEMMA OneHandler ==
  ASSUME TypeInv, StrayInv, SerialInv, OneInv, Happens("serial"), ~strayed,
         NEW h \in Handlers, HandlerStep(h)
  PROVE  OneInv'
<1> DEFINE team == tasks[h].team
<1>1. /\ h # None
      /\ rtmTeams \in [Teams -> RtmTeams] /\ streams \in [Teams -> Nat]
  BY AccountsAssumption DEF TypeInv, ClientsOK, AccountsAssumption
<1>2. ~tasks[h].stray
  BY DEF StrayInv
<1>3. \A t \in Teams : \/ streams[t] = 0
                       \/ streams[t] = 1 /\ rtmTeams[t].by = None /\ rtmTeams[t].ok = TRUE
  BY DEF OneInv
<1>4. ASSUME NEW g \in Handlers \ {h}, tasks[g].pc \in InStream, tasks[h].pc \in InStream
      PROVE  tasks[g].team # team
  BY <1>4 DEF SerialInv, InStream, AtTeam
<1>5. CASE UNCHANGED <<rtmTeams, streams>> /\ tasks'[h].pc \notin InStream /\ Elsewhere(h)
  BY <1>3, <1>5 DEF OneInv, Elsewhere, InStream
<1>6. CASE LookStream(h) /\ tasks'[h].pc = "rtmStart"
  <2>1. /\ UNCHANGED <<rtmTeams, streams>> /\ Elsewhere(h) /\ Same(h)
        /\ rtmTeams[team].by = None /\ ~rtmTeams[team].ok /\ tasks[h].pc = "rtm"
    BY <1>6, RoomMoves DEF LookStream, NeedsNoStream, rtm
  <2>2. team \in Teams
    BY <2>1, TaskFacts DEF TaskOK
  <2>3. rtmTeams[team].ok = FALSE
    BY <1>1, <2>1, <2>2 DEF RtmTeams
  <2> QED
    BY <1>3, <1>6, <2>1, <2>3 DEF OneInv, Elsewhere, Same
<1>7. CASE StartStream(h) /\ tasks'[h].pc = "rtmConnect"
  <2>1. /\ tasks[h].pc = "rtmStart" /\ Elsewhere(h) /\ Same(h) /\ UNCHANGED streams /\ team \in Teams
        /\ rtmTeams' = [rtmTeams EXCEPT ![team] = [by |-> h, ok |-> FALSE]]
    BY <1>2, <1>7, StartStreamIs
  <2>2. rtmTeams'[team].by = h /\ \A t \in Teams \ {team} : rtmTeams'[t] = rtmTeams[t]
    BY <1>1, <2>1
  <2>3. streams[team] = 0
    BY <1>3, <2>1 DEF OneInv
  <2>4. \A t \in Teams : \/ streams'[t] = 0
                         \/ streams'[t] = 1 /\ rtmTeams'[t].by = None /\ rtmTeams'[t].ok = TRUE
    BY <1>3, <2>1, <2>2, <2>3
  <2>5. ASSUME NEW g \in Handlers, tasks'[g].pc \in InStream
        PROVE  /\ tasks'[g].pc = "rtmStart" =>
                     rtmTeams'[tasks'[g].team].by = None /\ rtmTeams'[tasks'[g].team].ok = FALSE
               /\ tasks'[g].pc = "rtmConnect" => rtmTeams'[tasks'[g].team].by = g
    <3>1. CASE g = h
      BY <1>7, <2>1, <2>2, <3>1 DEF Same
    <3>2. CASE g # h
      <4>1. tasks'[g] = tasks[g] /\ tasks[g].pc \in InStream /\ tasks[g].team \in Teams
        BY <2>1, <2>5, <3>2, TaskFacts DEF Elsewhere, TaskOK, InStream
      <4>2. tasks[g].team # team
        BY <1>4, <2>1, <3>2, <4>1 DEF InStream
      <4> QED
        BY <2>2, <4>1, <4>2 DEF OneInv
    <3> QED
      BY <3>1, <3>2
  <2> QED
    BY <2>4, <2>5 DEF OneInv, InStream
<1>8. CASE ConnectStream(h)
  <2>1. /\ tasks[h].pc = "rtmConnect" /\ Elsewhere(h) /\ tasks'[h].pc = "idle" /\ team \in Teams
        /\ rtmTeams[team].by = h
    BY <1>8, ConnectStreamIs DEF OneInv
  <2>2. PICK ok \in BOOLEAN :
          /\ rtmTeams' = [rtmTeams EXCEPT ![team] = [by |-> None, ok |-> ok]]
          /\ IF ok THEN streams' = [streams EXCEPT ![team] = @ + 1] ELSE UNCHANGED streams
    BY <1>8, <2>1, ConnectStreamIs
  <2>3. streams[team] = 0
    BY <1>1, <1>3, <2>1
  <2>4. /\ rtmTeams'[team].by = None /\ rtmTeams'[team].ok = ok
        /\ \A t \in Teams \ {team} : rtmTeams'[t] = rtmTeams[t] /\ streams'[t] = streams[t]
        /\ streams'[team] = IF ok THEN 1 ELSE 0
    BY <1>1, <2>1, <2>2, <2>3
  <2>5. \A t \in Teams : \/ streams'[t] = 0
                         \/ streams'[t] = 1 /\ rtmTeams'[t].by = None /\ rtmTeams'[t].ok = TRUE
    BY <1>3, <2>4
  <2>6. ASSUME NEW g \in Handlers, tasks'[g].pc \in InStream
        PROVE  /\ tasks'[g].pc = "rtmStart" =>
                     rtmTeams'[tasks'[g].team].by = None /\ rtmTeams'[tasks'[g].team].ok = FALSE
               /\ tasks'[g].pc = "rtmConnect" => rtmTeams'[tasks'[g].team].by = g
    <3>1. g # h
      BY <2>1, <2>6 DEF InStream
    <3>2. tasks'[g] = tasks[g] /\ tasks[g].pc \in InStream /\ tasks[g].team \in Teams
      BY <2>1, <2>6, <3>1, TaskFacts DEF Elsewhere, TaskOK, InStream
    <3>3. tasks[g].team # team
      BY <1>4, <2>1, <3>1, <3>2 DEF InStream
    <3> QED
      BY <2>4, <3>2, <3>3 DEF OneInv
  <2> QED
    BY <2>5, <2>6 DEF OneInv, InStream
<1>9. CASE StartStream(h) /\ tasks'[h].pc = "idle"
  BY <1>2, <1>5, <1>9, StartStreamIs DEF InStream
<1>10. CASE ~StartStream(h) /\ ~ConnectStream(h) /\ tasks'[h].pc \notin InStream
  BY <1>5, <1>10, StreamMoves, BeginMoves, ContinueMoves DEF HandlerStep
<1>11. tasks'[h].pc \in InStream =>
          \/ LookStream(h) /\ tasks'[h].pc = "rtmStart"
          \/ StartStream(h) /\ tasks'[h].pc = "rtmConnect"
  <2>1. Authorize(h) \/ Begins(h) => tasks'[h].pc \notin InStream
    BY BeginMoves DEF Asked, Resumed, InStream
  <2> QED
    BY <2>1, FlowMoves DEF HandlerStep, InStream
<1> QED
  BY <1>6, <1>7, <1>8, <1>9, <1>10, <1>11, StartStreamIs

LEMMA OneStep == TypeInv /\ StrayInv /\ SerialInv /\ OneInv /\ [Next]_vars => OneInv'
<1> SUFFICES ASSUME TypeInv, StrayInv, SerialInv, OneInv, [Next]_vars, Happens("serial")
             PROVE  OneInv'
  BY WorldStays DEF OneInv, Happens
<1>1. ASSUME NEW h \in Handlers, HandlerStep(h) PROVE OneInv'
  <2>1. CASE strayed
    BY <1>1, <2>1, StreamMoves DEF OneInv
  <2> QED
    BY <1>1, <2>1, OneHandler
<1>2. CASE AskLink \/ Expire \/ Unlink \/ Uninstall \/ Unblock \/ UNCHANGED vars
  <2>1. UNCHANGED <<world, rtmTeams, tasks, strayed>>
    BY <1>2 DEF AskLink, GetPreauthToken, Expire, Unlink, Uninstall, Unblock, vars, rtm, history
  <2>2. \A t \in Teams : streams'[t] = streams[t] \/ streams'[t] = 0
    BY <1>2 DEF AskLink, GetPreauthToken, Expire, Unlink, Uninstall, Unblock, vars, rtm,
       TypeInv, ClientsOK
  <2> QED
    BY <2>1, <2>2 DEF OneInv, Happens
<1>3. CASE Block
  <2>1. strayed' <=> (strayed \/ \E h \in Handlers : InRtm(tasks[h]))
    BY <1>3 DEF Block
  <2>2. \A t \in Teams : streams'[t] = 0
    BY <1>3 DEF Block, DisconnectAll
  <2> QED
    BY <1>3, <2>1, <2>2, BlockMoves DEF OneInv, InRtm
<1>4. CASE Restart
  BY <1>4 DEF Restart, DisconnectAll, OneInv, Idle
<1> QED
  BY <1>1, <1>2, <1>3, <1>4, NextIs

LEMMA StreamingFinite ==
  \A t : /\ IsFiniteSet(Streaming(t)) /\ Cardinality(Streaming(t)) \in Nat
         /\ Cardinality(Streaming(t)) <= Cardinality(Handlers)
         /\ IsFiniteSet(Streaming(t)') /\ Cardinality(Streaming(t)') \in Nat
         /\ Cardinality(Streaming(t)') <= Cardinality(Handlers)
<1> TAKE t
<1>1. Streaming(t) \subseteq Handlers /\ Streaming(t)' \subseteq Handlers
  BY DEF Streaming
<1> QED
  BY <1>1, HandlersFinite, FS_Subset, FS_CardinalityType

LEMMA StreamingFewer ==
  ASSUME NEW t, Streaming(t)' \subseteq Streaming(t)
  PROVE  Cardinality(Streaming(t)') <= Cardinality(Streaming(t))
BY StreamingFinite, FS_Subset

LEMMA ManyHandler ==
  ASSUME TypeInv, StrayInv, ManyInv, ~Happens("uninstall"), NEW h \in Handlers, HandlerStep(h)
  PROVE  ManyInv'
<1> DEFINE team == tasks[h].team
<1>1. /\ UNCHANGED <<world, deadBots, strayed>> /\ deadBots = {}
  BY StreamMoves DEF ManyInv
<1> SUFFICES ASSUME ~Happens("outage"), ~strayed, NEW t \in Teams
             PROVE  /\ rtmTeams'[t].by = None /\ rtmTeams'[t].ok = FALSE =>
                          /\ streams'[t] = 0
                          /\ \A g \in Streaming(t)' : tasks'[g].pc # "rtmConnect"
                    /\ streams'[t] + Cardinality(Streaming(t)') <= Cardinality(Handlers)
  BY <1>1 DEF ManyInv, Happens
<1>2. /\ h # None /\ ~tasks[h].stray
      /\ rtmTeams \in [Teams -> RtmTeams] /\ streams \in [Teams -> Nat]
  BY AccountsAssumption DEF TypeInv, ClientsOK, AccountsAssumption, StrayInv
<1>3. /\ rtmTeams[t].by = None /\ rtmTeams[t].ok = FALSE =>
            /\ streams[t] = 0
            /\ \A g \in Streaming(t) : tasks[g].pc # "rtmConnect"
      /\ streams[t] + Cardinality(Streaming(t)) <= Cardinality(Handlers)
  BY DEF ManyInv
<1>4. CASE UNCHANGED <<rtmTeams, streams>> /\ tasks'[h].pc \notin InStream /\ Elsewhere(h)
  <2>1. \A g \in Streaming(t)' : g \in Streaming(t) /\ tasks'[g] = tasks[g]
    BY <1>4 DEF Streaming, Elsewhere
  <2>2. Cardinality(Streaming(t)') <= Cardinality(Streaming(t))
    BY <2>1, StreamingFewer
  <2> QED
    BY <1>2, <1>3, <1>4, <2>1, <2>2, StreamingFinite, HandlersFinite
<1>5. CASE LookStream(h) /\ tasks'[h].pc = "rtmStart"
  <2>1. /\ UNCHANGED <<rtmTeams, streams>> /\ Elsewhere(h) /\ Same(h)
        /\ rtmTeams[team].by = None /\ ~rtmTeams[team].ok /\ tasks[h].pc = "rtm"
    BY <1>5, RoomMoves DEF LookStream, NeedsNoStream, rtm
  <2>2. \A g \in Streaming(t)' : g = h \/ (g \in Streaming(t) /\ tasks'[g] = tasks[g])
    BY <2>1 DEF Streaming, Elsewhere
  <2>3. CASE t = team
    <3>1. rtmTeams[t].ok = FALSE
      BY <1>2, <2>1, <2>3 DEF RtmTeams
    <3>2. streams'[t] = 0
      BY <1>3, <2>1, <2>3, <3>1
    <3> QED
      BY <1>3, <1>5, <2>1, <2>2, <2>3, <3>1, <3>2, StreamingFinite, HandlersFinite
  <2>4. CASE t # team
    <3>1. Streaming(t)' \subseteq Streaming(t)
      BY <2>1, <2>2, <2>4 DEF Streaming, Same
    <3>2. Cardinality(Streaming(t)') <= Cardinality(Streaming(t))
      BY <3>1, StreamingFewer
    <3> QED
      BY <1>2, <1>3, <1>5, <2>1, <2>2, <3>1, <3>2, StreamingFinite, HandlersFinite
  <2> QED
    BY <2>3, <2>4
<1>6. CASE StartStream(h) /\ tasks'[h].pc = "rtmConnect"
  <2>1. /\ tasks[h].pc = "rtmStart" /\ Elsewhere(h) /\ Same(h) /\ UNCHANGED streams /\ team \in Teams
        /\ rtmTeams' = [rtmTeams EXCEPT ![team] = [by |-> h, ok |-> FALSE]]
    BY <1>2, <1>6, StartStreamIs
  <2>2. Streaming(t)' \subseteq Streaming(t)
    BY <1>6, <2>1 DEF Streaming, Elsewhere, Same, InStream
  <2>3. Cardinality(Streaming(t)') <= Cardinality(Streaming(t))
    BY <2>2, StreamingFewer
  <2>4. streams'[t] + Cardinality(Streaming(t)') <= Cardinality(Handlers)
    BY <1>2, <1>3, <2>1, <2>3, StreamingFinite, HandlersFinite
  <2>5. CASE t = team
    BY <1>2, <2>1, <2>4, <2>5
  <2>6. CASE t # team
    <3>1. rtmTeams'[t] = rtmTeams[t] /\ streams'[t] = streams[t]
      BY <1>2, <2>1, <2>6
    <3>2. \A g \in Streaming(t)' : g \in Streaming(t) /\ tasks'[g] = tasks[g]
      BY <2>1, <2>2, <2>6 DEF Streaming, Elsewhere, Same
    <3> QED
      BY <1>3, <2>4, <3>1, <3>2
  <2> QED
    BY <2>5, <2>6
<1>7. CASE ConnectStream(h)
  <2>1. /\ tasks[h].pc = "rtmConnect" /\ Elsewhere(h) /\ tasks'[h].pc = "idle" /\ team \in Teams
    BY <1>7, ConnectStreamIs
  <2>2. PICK ok \in BOOLEAN :
          /\ IF rtmTeams[team].by = h
             THEN rtmTeams' = [rtmTeams EXCEPT ![team] = [by |-> None, ok |-> ok]]
             ELSE UNCHANGED rtmTeams
          /\ IF ok THEN streams' = [streams EXCEPT ![team] = @ + 1] ELSE UNCHANGED streams
          /\ ~ok => tasks[h].row.token \in deadBots \/ Happens("outage")
    BY <1>7, ConnectStreamIs
  <2>3. ok = TRUE
    BY <1>1, <2>2
  <2>4. Streaming(t)' \subseteq Streaming(t) \ {h}
    BY <2>1 DEF Streaming, Elsewhere, InStream
  <2>5. \A g \in Streaming(t)' : g \in Streaming(t) /\ tasks'[g] = tasks[g]
    BY <2>1, <2>4 DEF Streaming, Elsewhere
  <2>6. CASE t = team
    <3>1. h \in Streaming(t)
      BY <2>1, <2>6 DEF Streaming, InStream
    <3>2. /\ IsFiniteSet(Streaming(t) \ {h})
          /\ Cardinality(Streaming(t) \ {h}) = Cardinality(Streaming(t)) - 1
      BY <3>1, StreamingFinite, FS_RemoveElement
    <3>3. Cardinality(Streaming(t)') <= Cardinality(Streaming(t)) - 1
      BY <2>4, <3>2, FS_Subset
    <3>4. streams'[t] = streams[t] + 1
      BY <1>2, <2>1, <2>2, <2>3, <2>6
    <3>5. streams'[t] + Cardinality(Streaming(t)') <= Cardinality(Handlers)
      BY <1>2, <1>3, <3>3, <3>4, StreamingFinite, HandlersFinite
    <3>6. ~(rtmTeams[t].by = None /\ rtmTeams[t].ok = FALSE)
      BY <1>3, <2>1, <3>1
    <3>7. ~(rtmTeams'[t].by = None /\ rtmTeams'[t].ok = FALSE)
      BY <1>2, <2>1, <2>2, <2>3, <2>6, <3>6
    <3> QED
      BY <3>5, <3>7
  <2>7. CASE t # team
    <3>1. rtmTeams'[t] = rtmTeams[t] /\ streams'[t] = streams[t]
      BY <1>2, <2>1, <2>2, <2>7
    <3>2. Cardinality(Streaming(t)') <= Cardinality(Streaming(t))
      BY <2>5, StreamingFewer
    <3> QED
      BY <1>2, <1>3, <2>5, <3>1, <3>2, StreamingFinite, HandlersFinite
  <2> QED
    BY <2>6, <2>7
<1>8. CASE StartStream(h) /\ tasks'[h].pc = "idle"
  BY <1>2, <1>4, <1>8, StartStreamIs DEF InStream
<1>9. CASE ~StartStream(h) /\ ~ConnectStream(h) /\ tasks'[h].pc \notin InStream
  BY <1>4, <1>9, StreamMoves, BeginMoves, ContinueMoves DEF HandlerStep
<1>10. tasks'[h].pc \in InStream =>
          \/ LookStream(h) /\ tasks'[h].pc = "rtmStart"
          \/ StartStream(h) /\ tasks'[h].pc = "rtmConnect"
  <2>1. Authorize(h) \/ Begins(h) => tasks'[h].pc \notin InStream
    BY BeginMoves DEF Asked, Resumed, InStream
  <2> QED
    BY <2>1, FlowMoves DEF HandlerStep, InStream
<1> QED
  BY <1>5, <1>6, <1>7, <1>8, <1>9, <1>10, StartStreamIs

LEMMA ManyStep == TypeInv /\ StrayInv /\ ManyInv /\ [Next]_vars => ManyInv'
<1> SUFFICES ASSUME TypeInv, StrayInv, ManyInv, [Next]_vars, ~Happens("uninstall")
             PROVE  ManyInv'
  BY WorldStays DEF ManyInv, Happens
<1>1. CASE AskLink \/ Expire \/ Unlink \/ Unblock \/ UNCHANGED vars
  <2>1. UNCHANGED <<world, rtmTeams, streams, tasks, strayed, deadBots>>
    BY <1>1 DEF AskLink, GetPreauthToken, Expire, Unlink, Unblock, vars, slack, rtm, history
  <2> QED
    BY <2>1 DEF ManyInv, Happens, Streaming
<1>2. CASE Uninstall
  BY <1>2 DEF Uninstall
<1>3. CASE Block \/ Restart
  <2>1. deadBots' = {} /\ \A t \in Teams : streams'[t] = 0
    BY <1>3 DEF Block, Restart, DisconnectAll, slack, ManyInv
  <2>2. ~strayed' => \A h \in Handlers : tasks'[h].pc \notin InStream
    <3>1. CASE Restart
      BY <3>1 DEF Restart, Idle, InStream
    <3>2. CASE Block
      <4>1. strayed' <=> (strayed \/ \E h \in Handlers : InRtm(tasks[h]))
        BY <3>2 DEF Block
      <4> QED
        BY <3>2, <4>1, BlockMoves DEF InRtm, InStream
    <3> QED
      BY <1>3, <3>1, <3>2
  <2>3. ~strayed' => \A t \in Teams : Streaming(t)' = {}
    BY <2>2 DEF Streaming
  <2>4. ~strayed' => \A t \in Teams : streams'[t] + Cardinality(Streaming(t)') <= Cardinality(Handlers)
    BY <2>1, <2>3, StreamingFinite, HandlersFinite
  <2> QED
    BY <2>1, <2>3, <2>4 DEF ManyInv
<1> QED
  BY <1>1, <1>2, <1>3, ManyHandler, NextIs

\* No more connections listen to a team than handlers could have opened at
\* once, one where requests do not overlap: startTeamClientIfNotStarted finds
\* what is open or under way, for as long as starts do not fail.
THEOREM StreamsAreBounded == Spec => []StreamsBounded
<1>1. Init => StrayInv /\ SerialInv /\ OneInv /\ ManyInv
  <2> SUFFICES ASSUME Init PROVE StrayInv /\ SerialInv /\ OneInv /\ ManyInv
    OBVIOUS
  <2>1. /\ strayed = FALSE /\ deadBots = {} /\ \A t \in Teams : streams[t] = 0
        /\ \A h \in Handlers : tasks[h].pc = "idle" /\ tasks[h].stray = FALSE
    BY DEF Init, Idle
  <2>2. StrayInv /\ SerialInv /\ OneInv
    BY <2>1 DEF StrayInv, SerialInv, OneInv, InLogin, AtTeam
  <2>3. \A t : Streaming(t) = {}
    BY <2>1 DEF Streaming, InStream
  <2> QED
    BY <2>1, <2>2, <2>3, StreamingFinite, HandlersFinite DEF ManyInv
<1>2. TypeInv /\ OneInv /\ ManyInv => StreamsBounded
  <2> SUFFICES ASSUME TypeInv, OneInv, ManyInv PROVE StreamsBounded
    OBVIOUS
  <2>1. \A t \in Teams : streams[t] \in Nat
    BY DEF TypeInv, ClientsOK
  <2> QED
    BY <2>1, StreamingFinite, HandlersFinite DEF OneInv, ManyInv, StreamsBounded
<1> QED
  BY <1>1, <1>2, StrayStep, SerialStep, OneStep, ManyStep, TypeInvariant, PTL DEF Spec
=============================================================================
