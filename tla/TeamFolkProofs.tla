--------------------------- MODULE TeamFolkProofs ---------------------------
(***************************************************************************)
(* What the team's users are to the bridge, for any users, names, objects, *)
(* channels, handlers and worlds: who is in the rooms, and what the ghosts *)
(* are called.                                                             *)
(*                                                                         *)
(* Of a user that no two handlers were about at once, the last event on    *)
(* its way about him says what he is (LastTells), he is in one place only  *)
(* (UsersAlone), and once he is deleted either that is still to be told or *)
(* his ghost has left the rooms (GoneInv). Whom the bridge has taken up as *)
(* having joined is in the room or on his way there (ComingInv); who was   *)
(* deleted or left and is a member again has come back, and that is still  *)
(* to be told (QueueBack, ReturnInv). A ghost's object is of one user      *)
(* (ObjectsOwned); the name in the row and on Matrix agree but while his   *)
(* handler writes (AgreeInv), and are what he is called unless that is     *)
(* still to be told, listed or written (CurrentInv).                       *)
(***************************************************************************)
EXTENDS TeamMembersProofs

-----------------------------------------------------------------------------
(* What Slack's events on the way say of a user *)

Appended(type, u, c, n, f) ==
    /\ Len(slackQueue) \in Nat /\ Len(slackQueue') = Len(slackQueue) + 1
    /\ \A i \in 1..Len(slackQueue) : slackQueue'[i] = slackQueue[i]
    /\ LET e == slackQueue'[Len(slackQueue) + 1] IN
       e.type = type /\ e.user = u /\ e.channel = c /\ e.name = n /\ (e.flag <=> f)

Shifted ==
    /\ \A i \in 1..Len(slackQueue') :
          i + 1 \in 1..Len(slackQueue) /\ slackQueue'[i] = slackQueue[i + 1]
    /\ \A i \in 1..Len(slackQueue) :
          i = 1 \/ (i - 1 \in 1..Len(slackQueue') /\ slackQueue'[i - 1] = slackQueue[i])

LEMMA SentDoes ==
  ASSUME TypeInv, NEW type, NEW u, NEW c, NEW n, NEW f \in BOOLEAN,
         Sent(Event(type, u, c, n, f))
  PROVE  \/ Appended(type, u, c, n, f)
         \/ type \notin SupportedEvents /\ slackQueue' = slackQueue
<1> DEFINE e == Event(type, u, c, n, f)
<1>1. e.type = type /\ e.user = u /\ e.channel = c /\ e.name = n /\ (e.flag <=> f)
  BY DEF Event
<1>2. Sent(e) /\ slackQueue \in Seq(SlackEvents)
  BY DEF TypeInv, SlackQueueOK
<1> HIDE DEF e
<1>3. CASE slackQueue' = Append(slackQueue, e)
  <2>1. /\ Len(slackQueue) \in Nat /\ Len(slackQueue') = Len(slackQueue) + 1
        /\ \A i \in 1..Len(slackQueue) : slackQueue'[i] = slackQueue[i]
        /\ slackQueue'[Len(slackQueue) + 1] = e
    BY <1>2, <1>3
  <2> QED
    BY <1>1, <2>1 DEF Appended
<1> QED
  BY <1>1, <1>2, <1>3 DEF Sent

LEMMA TailShifts ==
  ASSUME TypeInv, slackQueue # <<>>, slackQueue' = Tail(slackQueue)
  PROVE  Shifted /\ Head(slackQueue) = slackQueue[1] /\ 1 \in 1..Len(slackQueue)
<1>1. slackQueue \in Seq(SlackEvents)
  BY DEF TypeInv, SlackQueueOK
<1>2. /\ Len(slackQueue') = Len(slackQueue) - 1 /\ Len(slackQueue) \in Nat \ {0}
      /\ \A i \in 1..Len(slackQueue) - 1 : slackQueue'[i] = slackQueue[i + 1]
      /\ Head(slackQueue) = slackQueue[1]
  BY <1>1, TailFacts
<1>3. \A i \in 1..Len(slackQueue') :
          i + 1 \in 1..Len(slackQueue) /\ slackQueue'[i] = slackQueue[i + 1]
  BY <1>2
<1>4. ASSUME NEW i \in 1..Len(slackQueue), i # 1
      PROVE  i - 1 \in 1..Len(slackQueue') /\ slackQueue'[i - 1] = slackQueue[i]
  <2>1. i - 1 \in 1..Len(slackQueue) - 1 /\ (i - 1) + 1 = i
    BY <1>2, <1>4
  <2> QED
    BY <1>2, <2>1
<1> QED
  BY <1>2, <1>3, <1>4 DEF Shifted

Told(i, u) == slackQueue[i].type = "user" /\ slackQueue[i].user = u
TellsDeleted(u) == \E i \in 1..Len(slackQueue) : Told(i, u) /\ slackQueue[i].flag
TellsRestored(u) == \E i \in 1..Len(slackQueue) : Told(i, u) /\ ~slackQueue[i].flag

\* The event says of the user what is so now.
TellsNow(i, u) ==
    /\ Told(i, u) /\ (slackQueue[i].flag <=> u \in gone)
    /\ slackQueue[i].name = slackNames[u]

\* What is said last of a user is so; and of one who was deleted that is said last of all.
LastTells ==
    \A i \in 1..Len(slackQueue) : \A u \in Folk :
        slackQueue[i].user = u /\ (slackQueue[i].type = "user" \/ u \in gone) =>
            \E j \in 1..Len(slackQueue) : i <= j /\ TellsNow(j, u)

\* A step that sends an event, of which users' changes are told.
News(type, u, c, n, f) ==
    /\ Appended(type, u, c, n, f)
    /\ \A v \in Folk :
          v # u => (v \in gone' <=> v \in gone) /\ slackNames'[v] = slackNames[v]
    /\ type = "user" => u \in Folk /\ (f <=> u \in gone') /\ n = slackNames'[u]
    /\ type # "user" => UNCHANGED <<gone, slackNames>> /\ u \notin gone

LEMMA NewsTells ==
  ASSUME TypeInv, LastTells, NEW type, NEW u, NEW c, NEW n, NEW f, News(type, u, c, n, f)
  PROVE  LastTells'
<1>0. PICK last \in Nat : last = Len(slackQueue) + 1
  BY DEF News, Appended
<1>1. /\ Len(slackQueue) \in Nat /\ Len(slackQueue') = last
      /\ \A i \in 1..Len(slackQueue) : slackQueue'[i] = slackQueue[i]
      /\ slackQueue'[last].type = type /\ slackQueue'[last].user = u
      /\ slackQueue'[last].name = n /\ (slackQueue'[last].flag <=> f)
  BY <1>0 DEF News, Appended
<1>2. /\ last \in 1..Len(slackQueue') /\ \A i \in 1..last : i \in 1..Len(slackQueue) \/ i = last
      /\ \A i \in 1..Len(slackQueue) : i \in 1..Len(slackQueue') /\ i <= last
      /\ last <= last
  BY <1>0, <1>1
<1> SUFFICES ASSUME NEW i \in 1..Len(slackQueue'), NEW v \in Folk, slackQueue'[i].user = v,
                    slackQueue'[i].type = "user" \/ v \in gone'
             PROVE  \E j \in 1..Len(slackQueue') : i <= j /\ TellsNow(j, v)'
  BY DEF LastTells
<1>3. CASE v = u /\ type = "user"
  <2>1. TellsNow(last, v)'
    BY <1>1, <1>3 DEF News, TellsNow, Told
  <2>2. i <= last
    BY <1>1, <1>2
  <2> QED
    BY <1>2, <2>1, <2>2
<1>4. CASE v # u \/ type # "user"
  <2>1. (v \in gone' <=> v \in gone) /\ slackNames'[v] = slackNames[v]
    BY <1>4 DEF News
  <2>2. i # last
    BY <1>1, <1>4, <2>1 DEF News
  <2>3. i \in 1..Len(slackQueue) /\ slackQueue'[i] = slackQueue[i]
    BY <1>1, <1>2, <2>2
  <2>4. PICK j \in 1..Len(slackQueue) : i <= j /\ TellsNow(j, v)
    BY <2>1, <2>3 DEF LastTells
  <2>5. TellsNow(j, v)' /\ j \in 1..Len(slackQueue')
    BY <1>1, <1>2, <2>1, <2>4 DEF TellsNow, Told
  <2> QED
    BY <2>4, <2>5
<1> QED
  BY <1>3, <1>4

LEMMA ShiftTells ==
  ASSUME TypeInv, LastTells, Shifted, UNCHANGED <<gone, slackNames>>
  PROVE  LastTells'
<1> SUFFICES ASSUME NEW i \in 1..Len(slackQueue'), NEW v \in Folk, slackQueue'[i].user = v,
                    slackQueue'[i].type = "user" \/ v \in gone'
             PROVE  \E j \in 1..Len(slackQueue') : i <= j /\ TellsNow(j, v)'
  BY DEF LastTells
<1>1. i + 1 \in 1..Len(slackQueue) /\ slackQueue'[i] = slackQueue[i + 1]
  BY DEF Shifted
<1>2. PICK j \in 1..Len(slackQueue) : i + 1 <= j /\ TellsNow(j, v)
  BY <1>1 DEF LastTells
<1>3. j # 1 /\ i <= j - 1
  BY <1>2
<1>4. j - 1 \in 1..Len(slackQueue') /\ slackQueue'[j - 1] = slackQueue[j]
  BY <1>3 DEF Shifted
<1>5. TellsNow(j - 1, v)'
  BY <1>2, <1>4 DEF TellsNow, Told
<1> QED
  BY <1>3, <1>4, <1>5

LEMMA SameTells ==
  ASSUME LastTells, UNCHANGED <<gone, slackNames>>, slackQueue' \in {slackQueue, <<>>}
  PROVE  LastTells'
<1>1. CASE slackQueue' = slackQueue
  BY <1>1 DEF LastTells, TellsNow, Told
<1>2. CASE slackQueue' = <<>>
  BY <1>2 DEF LastTells
<1> QED
  BY <1>1, <1>2

\* What happens on Slack is sent, but for what is not listened to.
Quietly == slackQueue' = slackQueue /\ UNCHANGED <<gone, slackNames>>

LEMMA SentNews ==
  ASSUME TypeInv, NEW type \in {"joined", "left", "message", "created", "deleted"},
         NEW u, NEW c, NEW n, NEW f \in BOOLEAN,
         Sent(Event(type, u, c, n, f)), UNCHANGED <<gone, slackNames>>, u \notin gone
  PROVE  News(type, u, c, n, f) \/ Quietly
<1>1. Appended(type, u, c, n, f) \/ slackQueue' = slackQueue
  BY SentDoes
<1> QED
  BY <1>1 DEF News, Quietly

LEMMA SentUserNews ==
  ASSUME TypeInv, NEW u \in Folk, NEW n, NEW f \in BOOLEAN,
         Sent(Event("user", u, None, n, f)), f <=> u \in gone', n = slackNames'[u],
         \A v \in Folk : v # u => (v \in gone' <=> v \in gone) /\ slackNames'[v] = slackNames[v]
  PROVE  News("user", u, None, n, f)
<1>1. Appended("user", u, None, n, f)
  BY SentDoes DEF SupportedEvents
<1> QED
  BY <1>1 DEF News

LEMMA OutsideNews ==
  ASSUME TypeInv, Outside, ~Restart
  PROVE  Quietly \/ \E type, u, c, n, f : News(type, u, c, n, f)
<1> USE DEF slack, ghostVars
<1>0. /\ slackNames \in [Folk -> Names] /\ world.names \subseteq Names /\ world.folk \subseteq Folk
      /\ gone \subseteq Folk /\ None \notin gone
      /\ \A c \in Channels : people[c] \cap gone = {} /\ people[c] \subseteq Folk
      /\ open \subseteq Channels /\ TRUE \in BOOLEAN /\ FALSE \in BOOLEAN
  BY WorldFacts DEF TypeInv, GhostsTypeOK, SlackOK
<1>1. CASE SlackUserJoins
  <2>1. PICK u \in Alive, c \in open, asked \in BOOLEAN :
            /\ Sent(Event("joined", u, c, None, asked)) /\ UNCHANGED <<gone, slackNames>>
    BY <1>1 DEF SlackUserJoins
  <2> QED
    BY <1>0, <2>1, SentNews DEF Alive
<1>2. CASE SlackUserLeaves
  <2>1. PICK c \in open : \E u \in people[c] :
            Sent(Event("left", u, c, None, FALSE)) /\ UNCHANGED <<gone, slackNames>>
    BY <1>2 DEF SlackUserLeaves
  <2>2. PICK u \in people[c] :
            Sent(Event("left", u, c, None, FALSE)) /\ UNCHANGED <<gone, slackNames>>
    BY <2>1
  <2> QED
    BY <1>0, <2>2, SentNews
<1>3. CASE SlackUserRenamed
  <2>1. PICK u \in Alive, n \in world.names :
            /\ slackNames' = [slackNames EXCEPT ![u] = n] /\ UNCHANGED gone
            /\ Sent(Event("user", u, None, n, FALSE))
    BY <1>3 DEF SlackUserRenamed
  <2>2. News("user", u, None, n, FALSE)
    BY <1>0, <2>1, SentUserNews DEF Alive
  <2> QED
    BY <2>2
<1>4. CASE SlackUserDeleted
  <2>1. PICK u \in Alive :
            /\ gone' = gone \cup {u} /\ UNCHANGED slackNames
            /\ Sent(Event("user", u, None, slackNames[u], TRUE))
    BY <1>4 DEF SlackUserDeleted
  <2>2. News("user", u, None, slackNames[u], TRUE)
    BY <1>0, <2>1, SentUserNews DEF Alive
  <2> QED
    BY <2>2
<1>5. CASE SlackUserRestored
  <2>1. PICK u \in gone :
            /\ gone' = gone \ {u} /\ UNCHANGED slackNames
            /\ Sent(Event("user", u, None, slackNames[u], FALSE))
    BY <1>5 DEF SlackUserRestored
  <2>2. News("user", u, None, slackNames[u], FALSE)
    BY <1>0, <2>1, SentUserNews
  <2> QED
    BY <2>2
<1>6. CASE ChannelCreated
  <2>1. PICK c \in Channels :
            Sent(Event("created", None, c, None, FALSE)) /\ UNCHANGED <<gone, slackNames>>
    BY <1>6, WorldFacts DEF ChannelCreated, TypeInv
  <2> QED
    BY <1>0, <2>1, SentNews
<1>7. CASE ChannelDeleted
  <2>1. PICK c \in Channels :
            Sent(Event("deleted", None, c, None, FALSE)) /\ UNCHANGED <<gone, slackNames>>
    BY <1>0, <1>7 DEF ChannelDeleted
  <2> QED
    BY <1>0, <2>1, SentNews
<1>8. CASE SlackMessage
  <2>1. PICK c \in open : \E u \in people[c] :
            Sent(Event("message", u, c, None, FALSE)) /\ UNCHANGED <<gone, slackNames>>
    BY <1>8 DEF SlackMessage
  <2>2. PICK u \in people[c] :
            Sent(Event("message", u, c, None, FALSE)) /\ UNCHANGED <<gone, slackNames>>
    BY <2>1
  <2> QED
    BY <1>0, <2>2, SentNews
<1>9. CASE MatrixUserMoves \/ BotMoved
  BY <1>9 DEF MatrixUserMoves, BotMoved, Quietly
<1> QED
  BY <1>1, <1>2, <1>3, <1>4, <1>5, <1>6, <1>7, <1>8, <1>9 DEF Outside

LEMMA JoinsNews ==
  ASSUME TypeInv, NEW m, NEW c, JoinsSlack(m, c), UNCHANGED <<gone, slackNames>>
  PROVE  Quietly \/ \E type, u, d, n, f : News(type, u, d, n, f)
<1>1. PICK u \in world.folk \ gone : Sent(Event("joined", u, c, None, FALSE))
  BY DEF JoinsSlack
<1> QED
  BY <1>1, SentNews

-----------------------------------------------------------------------------
(* Rows of ghosts *)

HasRow(u) == rows[u] # NoRow

\* The places where a handler has a ghost.
WithGhost == InRoom \cup {"update", "save", "hide", "listRooms", "leaveRooms"}

RowOK(t) ==
    /\ t.pc \in WithGhost => HasRow(t.user)
    /\ t.pc = "make" /\ ~HasRow(t.user) => t.row = NoRow
    /\ t.pc = "bridge" => t.user = None \/ HasRow(t.user)
    /\ t.pc = "move" => \A u \in t.folk : HasRow(u)

\* Who is in the cache or in a room, or is somebody's ghost, has a row.
RowsMade ==
    /\ \A u \in Folk : cache[u] # None => HasRow(u)
    /\ \A h \in Handlers : RowOK(tasks[h])
    /\ \A c \in Channels : \A u \in ghostsIn[c] : HasRow(u)

RowsGrow == \A u \in Folk : HasRow(u) => HasRow(u)'

LEMMA RowOKGrows ==
  ASSUME TypeInv, RowsGrow, NEW h \in Handlers, RowOK(tasks[h]), tasks'[h] = tasks[h]
  PROVE  RowOK(tasks[h])'
<1>1. /\ tasks[h].pc \in WithGhost \cup {"make"} => tasks[h].user \in Folk
      /\ tasks[h].user \in Folk \cup {None} /\ tasks[h].folk \subseteq Folk
  BY TaskFacts DEF TaskOK, Stage, WithGhost, InRoom, OfUser
<1> QED
  BY <1>1 DEF RowsGrow, RowOK, HasRow

LEMMA RowsKept ==
  ASSUME TypeInv, RowsMade, RowsGrow,
         \A u \in Folk : cache'[u] # None => cache[u] # None \/ HasRow(u)',
         NEW h \in Handlers, Turn(h), RowOK(tasks[h])',
         ghostsIn' \in [Channels -> SUBSET Folk],
         \A c \in Channels : \A u \in ghostsIn'[c] : u \in ghostsIn[c] \/ HasRow(u)'
  PROVE  RowsMade'
<1>1. \A g \in Handlers : RowOK(tasks[g])'
  BY RowOKGrows DEF RowsMade, Turn
<1>2. \A c \in Channels : \A u \in ghostsIn'[c] : HasRow(u)'
  BY DEF RowsMade, RowsGrow
<1> QED
  BY <1>1, <1>2 DEF RowsMade, RowsGrow

LEMMA RowsSame ==
  ASSUME RowsMade, UNCHANGED <<rows, cache, ghostsIn, tasks>>
  PROVE  RowsMade'
  BY DEF RowsMade, RowOK, HasRow

LEMMA IdleRow == RowOK(Idle)'
  BY DEF RowOK, Idle, WithGhost, InRoom

LEMMA LookRows ==
  ASSUME TypeInv, RowsMade, NEW h \in Handlers, LookSteps(h)
  PROVE  /\ RowsGrow /\ slackNames' = slackNames /\ RowOK(tasks[h])'
         /\ \A u \in Folk : cache'[u] # None => cache[u] # None \/ HasRow(u)'
         /\ ghostsIn' = ghostsIn
<1> DEFINE s == tasks[h]
<1>1. /\ rows \in [Folk -> Names \cup {Unnamed, NoRow}]
      /\ cache \in [Folk -> Objects \cup {None}] /\ NoRow \notin Names
      /\ None \notin Objects
  BY WorldFacts DEF TypeInv, GhostsTypeOK
<1>2. RowOK(s)
  BY DEF RowsMade
<1> USE DEF RowOK, HasRow, RowsGrow, WithGhost, InRoom, ghostVars, matrix
<1>3. CASE LookGhost(h)
  <2>1. cache[s.user] # None => HasRow(s.user)
    BY <1>3, LookGhostDoes DEF RowsMade
  <2> QED
    BY <1>1, <1>3, <2>1, ContinuedFacts, LookGhostDoes DEF Ways
<1>4. CASE GetGhost(h)
  <2>1. /\ s.user \in Folk /\ s.pc = "make" /\ s.next \in Ways \cup {"update", "bridge"}
        /\ tasks'[h].user = s.user /\ tasks'[h].pc = s.next
        /\ UNCHANGED ghostsIn
    BY <1>4, ContinuedFacts, GetGhostDoes
  <2>2. /\ rows' = IF s.row = NoRow THEN [rows EXCEPT ![s.user] = Unnamed] ELSE rows
        /\ \E o : cache' = [cache EXCEPT ![s.user] = o]
        /\ slackNames' = slackNames
    BY <1>4, GetGhostDoes DEF MakeGhost
  <2>3. RowsGrow /\ rows'[s.user] # NoRow
    BY <1>1, <1>2, <2>1, <2>2 DEF NoRow, Unnamed
  <2> QED
    BY <1>1, <2>1, <2>2, <2>3 DEF Ways
<1> QED
  BY <1>3, <1>4 DEF LookSteps

LEMMA FolkRows ==
  ASSUME TypeInv, RowsMade, NEW h \in Handlers, FolkSteps(h)
  PROVE  /\ RowsGrow /\ slackNames' = slackNames /\ RowOK(tasks[h])'
         /\ \A u \in Folk : cache'[u] # None => cache[u] # None \/ HasRow(u)'
         /\ ghostsIn' \in [Channels -> SUBSET Folk]
         /\ \A c \in Channels : \A u \in ghostsIn'[c] : u \in ghostsIn[c] \/ HasRow(u)'
<1> DEFINE s == tasks[h]
<1>1. /\ rows \in [Folk -> Names \cup {Unnamed, NoRow}] /\ ghostsIn \in [Channels -> SUBSET Folk]
      /\ cache \in [Folk -> Objects \cup {None}] /\ NoRow \notin Names
      /\ None \notin Objects
  BY WorldFacts DEF TypeInv, GhostsTypeOK, MatrixOK
<1>2. RowOK(s)
  BY DEF RowsMade
<1> USE DEF RowOK, HasRow, RowsGrow, WithGhost, InRoom, ghostVars, matrix
<1>3. CASE LookSteps(h)
  BY <1>1, <1>3, LookRows
<1>5. CASE GhostJoins(h)
  BY <1>1, <1>2, <1>5, IdleRow, GhostJoinsDoes
<1>6. CASE BotInvites(h)
  BY <1>1, <1>2, <1>6, IdleRow, BotInvitesDoes
<1>7. CASE GhostLeaves(h)
  BY <1>1, <1>2, <1>7, IdleRow, GhostLeavesDoes
<1>8. CASE LookUpdate(h)
  <2>1. /\ s.pc = "message" /\ tasks'[h].user = s.user /\ UNCHANGED ghostsIn
        /\ tasks'[h].pc \in {"ask", "ensure", "send"}
    BY <1>8, ContinuedFacts, LookUpdateDoes
  <2>2. UNCHANGED <<rows, cache, slackNames>>
    BY <1>8, LookUpdateDoes DEF BeginUpdate
  <2> QED
    BY <1>1, <1>2, <2>1, <2>2
<1>9. CASE AskSlack(h)
  <2>1. /\ s.pc = "ask" /\ tasks'[h].user = s.user /\ UNCHANGED ghostsIn
        /\ tasks'[h].pc \in {"ensure", "send"}
    BY <1>9, ContinuedFacts, AskSlackDoes
  <2>2. UNCHANGED <<rows, cache, slackNames>>
    BY <1>9, AskSlackDoes DEF Answered, NotAnswered
  <2> QED
    BY <1>1, <1>2, <2>1, <2>2
<1>10. CASE WriteProfile(h)
  <2>1. /\ s.pc = "ensure" /\ tasks'[h].user = s.user /\ UNCHANGED ghostsIn
        /\ tasks'[h].pc \in {"saveName", "send"}
    BY <1>10, ContinuedFacts, WriteProfileDoes
  <2>2. UNCHANGED <<rows, cache, slackNames>>
    BY <1>10, WriteProfileDoes DEF EnsureProfile, EndUpdate
  <2> QED
    BY <1>1, <1>2, <2>1, <2>2
<1>11. CASE SaveName(h)
  <2>1. /\ s.user \in Folk /\ s.name \in Names /\ s.pc \in {"saveName", "save"}
        /\ UNCHANGED ghostsIn
        /\ \/ tasks'[h] = Idle \/ (tasks'[h].pc = "send" /\ tasks'[h].user = s.user)
    BY <1>11, ContinuedFacts, SaveNameDoes
  <2>2. rows' = [rows EXCEPT ![s.user] = s.name] /\ UNCHANGED <<cache, slackNames>>
    BY <1>11, SaveNameDoes DEF SaveGhost, RowNamed
  <2>3. RowsGrow /\ rows'[s.user] # NoRow
    BY <1>1, <1>2, <2>1, <2>2
  <2> QED
    BY <1>1, <2>1, <2>2, <2>3, IdleRow
<1>12. CASE SendMessage(h)
  BY <1>1, <1>2, <1>12, IdleRow, SendMessageDoes
<1>13. CASE FindExisting(h)
  BY <1>1, <1>2, <1>13, IdleRow, ContinuedFacts, FindExistingDoes DEF ExistingGhost
<1>14. CASE UpdateUser(h)
  BY <1>1, <1>2, <1>14, IdleRow, ContinuedFacts, UpdateUserDoes DEF SetDisplayName
<1>15. CASE HideUser(h)
  BY <1>1, <1>2, <1>15, ContinuedFacts, HideUserDoes DEF SetDisplayName
<1>16. CASE ListRooms(h)
  BY <1>1, <1>2, <1>16, ContinuedFacts, ListRoomsDoes
<1>17. CASE LeaveRooms(h)
  <2>1. PICK left : ghostsIn' = [c \in Channels |-> IF c \in left THEN ghostsIn[c] \ {s.user}
                                                                  ELSE ghostsIn[c]]
    BY <1>17, LeaveRoomsDoes
  <2>2. tasks'[h] = Idle /\ UNCHANGED ghostVars
    BY <1>17, LeaveRoomsDoes
  <2> QED
    BY <1>1, <2>1, <2>2, IdleRow
<1> QED
  BY <1>3, <1>5, <1>6, <1>7, <1>8, <1>9, <1>10, <1>11, <1>12, <1>13, <1>14, <1>15, <1>16,
     <1>17 DEF FolkSteps

LEMMA ChannelRows ==
  ASSUME TypeInv, RowsMade, NEW h \in Handlers, ChannelSteps(h)
  PROVE  /\ RowsGrow /\ UNCHANGED <<slackNames, cache>> /\ RowOK(tasks[h])'
         /\ ghostsIn' \in [Channels -> SUBSET Folk]
         /\ \A c \in Channels : \A u \in ghostsIn'[c] : u \in ghostsIn[c] \/ HasRow(u)'
<1> DEFINE s == tasks[h]
<1>1. /\ rows \in [Folk -> Names \cup {Unnamed, NoRow}] /\ ghostsIn \in [Channels -> SUBSET Folk]
      /\ s.folk \subseteq Folk /\ \A c \in Channels : people[c] \subseteq Folk
      /\ RowOK(s)
  BY TaskFacts DEF TypeInv, GhostsTypeOK, MatrixOK, SlackOK, RowsMade
<1> USE DEF HasRow, RowsGrow, ghostVars, matrix
<1>2. CASE BridgeChannel(h)
  <2>1. \A u \in Creator(s) : HasRow(u)
    BY <1>1, <1>2, BridgeChannelDoes DEF RowOK, Creator
  <2>2. RowOK(tasks[h])'
    BY <1>2, BridgeChannelDoes, IdleRow DEF ChannelTask, RowOK, WithGhost, InRoom
  <2>3. /\ s.channel \in Channels /\ Creator(s) \subseteq Folk
        /\ UNCHANGED <<rows, slackNames, cache>>
        /\ \/ ghostsIn' = ghostsIn
           \/ ghostsIn' = [ghostsIn EXCEPT ![s.channel] = @ \cup Creator(s)]
    BY <1>2, BridgeChannelDoes DEF Bridges, Creator
  <2> QED
    BY <1>1, <2>1, <2>2, <2>3
<1>3. CASE EnsureBot(h)
  BY <1>1, <1>3, EnsureBotDoes DEF RowOK, WithGhost, InRoom
<1>4. CASE ListGhosts(h)
  BY <1>1, <1>4, ListGhostsDoes DEF RowOK, WithGhost, InRoom
<1>5. CASE ListMembers(h)
  <2>1. /\ s.channel \in Channels /\ s.user = None /\ UNCHANGED <<slackNames, cache>>
        /\ tasks'[h].pc = "move" /\ tasks'[h].folk = people[s.channel] \ s.folk
        /\ \E left : ghostsIn' = [ghostsIn EXCEPT ![s.channel] = @ \ left]
        /\ rows' = [u \in Folk |-> IF u \in people[s.channel] /\ rows[u] = NoRow
                                   THEN Unnamed ELSE rows[u]]
    BY <1>5, ListMembersDoes
  <2>2. \A u \in Folk : HasRow(u) \/ u \in people[s.channel] => rows'[u] # NoRow
    BY <2>1 DEF NoRow, Unnamed
  <2>3. RowOK(tasks[h])'
    BY <1>1, <2>1, <2>2 DEF RowOK, WithGhost, InRoom
  <2> QED
    BY <1>1, <2>1, <2>2, <2>3
<1>6. CASE MoveMembers(h)
  <2>1. /\ s.pc = "move" /\ s.channel \in Channels /\ tasks'[h] = Idle
        /\ \E joined \in SUBSET s.folk :
              ghostsIn' = [ghostsIn EXCEPT ![s.channel] = @ \cup joined]
        /\ UNCHANGED <<rows, slackNames, cache>>
    BY <1>6, MoveMembersDoes
  <2>2. \A u \in s.folk : HasRow(u)
    BY <1>1, <2>1 DEF RowOK
  <2> QED
    BY <1>1, <2>1, <2>2, IdleRow DEF RowOK
<1>7. CASE UnlinkDeleted(h)
  BY <1>1, <1>7, UnlinkDeletedDoes DEF RowOK, WithGhost, InRoom
<1>8. CASE DrainRoom(h)
  BY <1>1, <1>8, DrainRoomDoes, IdleRow DEF RowOK
<1> QED
  BY <1>2, <1>3, <1>4, <1>5, <1>6, <1>7, <1>8 DEF ChannelSteps

LEMMA ChannelTaskRow ==
  ASSUME NEW h \in Handlers,
         tasks'[h] = Idle \/ tasks'[h].pc \in Starts \cup OfMatrix
  PROVE  RowOK(tasks[h])'
<1>1. CASE tasks'[h] = Idle
  BY <1>1, IdleRow DEF RowOK
<1>2. CASE tasks'[h].pc \in Starts \cup OfMatrix
  BY <1>2 DEF RowOK, Starts, OfMatrix, WithGhost, InRoom
<1> QED
  BY <1>1, <1>2

LEMMA RowsStep == TypeInv /\ RowsMade /\ [Next]_vars => RowsMade'
<1> SUFFICES ASSUME TypeInv, RowsMade, [Next]_vars PROVE RowsMade'
  OBVIOUS
<1> USE DEF ghostVars, matrix
<1>0. ghostsIn \in [Channels -> SUBSET Folk]
  BY DEF TypeInv, MatrixOK
<1>1. CASE Outside /\ ~Restart
  BY <1>1, OutsideDoes, RowsSame
<1>2. CASE Restart
  <2>1. /\ tasks' = [h \in Handlers |-> Idle] /\ cache' = [u \in Folk |-> None]
        /\ UNCHANGED <<ghostsIn, rows>>
    BY <1>2 DEF Restart
  <2>2. RowOK(Idle)'
    BY IdleRow
  <2> QED
    BY <2>1, <2>2 DEF RowsMade, HasRow, RowOK
<1>3. CASE ListChannels \/ Forgets \/ UNCHANGED vars
  BY <1>3, RowsSame DEF ListChannels, Forgets, InfoExpires, vars
<1>4. ASSUME NEW h \in Handlers, Begins(h) PROVE RowsMade'
  <2>1. /\ Turn(h) /\ UNCHANGED <<matrix, ghostVars>>
        /\ tasks'[h] = Idle \/ tasks'[h].pc \in Starts
    BY <1>4, BeginsDoes DEF Begun
  <2>2. RowsGrow /\ RowOK(tasks[h])'
    BY <2>1, ChannelTaskRow DEF RowsGrow, HasRow
  <2> QED
    BY <1>0, <2>1, <2>2, RowsKept
<1>5. ASSUME NEW h \in Handlers, FolkSteps(h) PROVE RowsMade'
  <2>1. Turn(h)
    BY <1>5, FolkStepsDo
  <2> QED
    BY <1>5, <2>1, FolkRows, RowsKept
<1>6. ASSUME NEW h \in Handlers, ChannelSteps(h) PROVE RowsMade'
  <2>1. Turn(h)
    BY <1>6, ChannelStepsDo
  <2> QED
    BY <1>6, <2>1, ChannelRows, RowsKept
<1>7. ASSUME NEW h \in Handlers, MatrixSteps(h) PROVE RowsMade'
  <2>1. /\ Turn(h) /\ (tasks'[h] = Idle \/ tasks'[h].pc \in OfMatrix)
        /\ UNCHANGED <<ghostsIn, ghostVars>>
    BY <1>7, MatrixStepsDo
  <2>2. RowsGrow /\ RowOK(tasks[h])'
    BY <2>1, ChannelTaskRow DEF RowsGrow, HasRow
  <2> QED
    BY <1>0, <2>1, <2>2, RowsKept
<1>8. ASSUME NEW h \in Handlers, BridgeSteps(h) PROVE RowsMade'
  <2>1. Turn(h) /\ UNCHANGED ghostsIn
    BY <1>8, BridgeStepsDo
  <2>2. CASE LookSteps(h)
    BY <1>0, <2>1, <2>2, LookRows, RowsKept
  <2>3. CASE UNCHANGED ghostVars /\ (tasks'[h].pc = "get"
                                    \/ (tasks'[h].pc = "bridge" /\ tasks'[h].user = None))
    <3>1. RowsGrow /\ RowOK(tasks[h])'
      BY <2>3 DEF RowsGrow, HasRow, RowOK, WithGhost, InRoom
    <3> QED
      BY <1>0, <2>1, <2>3, <3>1, RowsKept
  <2> QED
    BY <1>8, <2>2, <2>3, BridgeStepsDo
<1>9. ASSUME NEW h \in Handlers, FailSteps(h) PROVE RowsMade'
  <2>1. Turn(h) /\ tasks'[h] = Idle /\ UNCHANGED <<ghostsIn, rows, cache>>
    BY <1>9, FailStepsDo
  <2>2. RowsGrow /\ RowOK(tasks[h])'
    BY <2>1, ChannelTaskRow DEF RowsGrow, HasRow
  <2> QED
    BY <1>0, <2>1, <2>2, RowsKept
<1> QED
  BY <1>1, <1>2, <1>3, <1>4, <1>5, <1>6, <1>7, <1>8, <1>9, NextDoes

LEMMA TellsStep == TypeInv /\ RowsMade /\ LastTells /\ [Next]_vars => LastTells'
<1> SUFFICES ASSUME TypeInv, RowsMade, LastTells, [Next]_vars PROVE LastTells'
  OBVIOUS
<1> USE DEF slack, queues, ghostVars
<1>1. CASE Outside /\ ~Restart
  BY <1>1, OutsideNews, NewsTells, SameTells DEF Quietly
<1>2. CASE Restart
  BY <1>2, SameTells DEF Restart
<1>3. CASE ListChannels \/ Forgets \/ UNCHANGED vars
  BY <1>3, SameTells DEF ListChannels, Forgets, InfoExpires, vars
<1>4. ASSUME NEW h \in Handlers, Begins(h) PROVE LastTells'
  <2>1. UNCHANGED <<gone, slackNames>>
    BY <1>4, BeginsDoes
  <2>2. CASE HandleSlack(h)
    BY <2>1, <2>2, HandleSlackDoes, TailShifts, ShiftTells
  <2>3. CASE HandleMatrix(h)
    BY <2>1, <2>3, HandleMatrixDoes, SameTells
  <2>4. CASE SyncsUser(h)
    BY <2>1, <2>4, SyncsUserDoes, SameTells
  <2>5. CASE SyncsChannel(h)
    BY <2>1, <2>5, SyncsChannelDoes, SameTells
  <2>6. CASE SyncsRoom(h)
    BY <2>1, <2>6, SyncsRoomDoes, SameTells
  <2> QED
    BY <1>4, <2>2, <2>3, <2>4, <2>5, <2>6 DEF Begins
<1>5. ASSUME NEW h \in Handlers, FolkSteps(h) PROVE LastTells'
  BY <1>5, FolkStepsKeep, FolkRows, SameTells
<1>6. ASSUME NEW h \in Handlers, ChannelSteps(h) PROVE LastTells'
  BY <1>6, ChannelStepsDo, SameTells
<1>7. ASSUME NEW h \in Handlers, MatrixSteps(h) PROVE LastTells'
  <2>1. UNCHANGED <<gone, slackNames>>
    BY <1>7, MatrixStepsDo
  <2>2. CASE slackQueue' = slackQueue
    BY <2>1, <2>2, SameTells
  <2>3. CASE PuppetJoins(h)
    <3>1. slackQueue' = slackQueue \/ JoinsSlack(tasks[h].mx, tasks[h].channel)
      BY <2>3, PuppetJoinsDoes
    <3> QED
      BY <2>1, <2>2, <3>1, JoinsNews, NewsTells, SameTells DEF Quietly
  <2> QED
    BY <1>7, <2>2, <2>3, MatrixStepsDo
<1>8. ASSUME NEW h \in Handlers, BridgeSteps(h) PROVE LastTells'
  <2>1. slackNames' = slackNames
    BY <1>8, BridgeStepsDo, LookRows
  <2> QED
    BY <1>8, <2>1, BridgeStepsDo, SameTells
<1>9. ASSUME NEW h \in Handlers, FailSteps(h) PROVE LastTells'
  BY <1>9, FailStepsDo, SameTells
<1> QED
  BY <1>1, <1>2, <1>3, <1>4, <1>5, <1>6, <1>7, <1>8, <1>9, NextDoes

LEMMA TellsStart == Init /\ TypeInv => LastTells /\ RowsMade
<1> SUFFICES ASSUME Init, TypeInv PROVE LastTells /\ RowsMade
  OBVIOUS
<1>1. slackQueue = <<>> /\ tasks = [h \in Handlers |-> Idle]
      /\ ghostsIn = [c \in Channels |-> {}] /\ cache = [u \in Folk |-> None]
  BY DEF Init, GhostsInit
<1>2. \A h \in Handlers : RowOK(tasks[h])
  BY <1>1 DEF RowOK, Idle, WithGhost, InRoom
<1> QED
  BY <1>1, <1>2 DEF LastTells, RowsMade

-----------------------------------------------------------------------------
(* Users: what holds of one that no two handlers were about at once *)

UserAlone(u) ==
    \A g, h \in Handlers : tasks[g].user = u /\ tasks[h].user = u => g = h

UsersAlone == \A u \in Folk : u \notin crossed => UserAlone(u)

\* What nothing was said of: a user that only one handler is about.
LEMMA NotCrossedUser ==
  ASSUME TypeInv, NEW h \in Handlers, NEW u \in Folk, NEW users, u \in users, NEW c,
         u \notin CrossedBy(h, users, c)
  PROVE  \A g \in Handlers \ {h} : tasks[g].user # u /\ u \notin tasks[g].folk
<1>1. u # None /\ Idle.user = None /\ Idle.folk = {}
  BY WorldFacts DEF TypeInv, Idle
<1>2. \A g \in Handlers : At(g, "idle") => tasks[g] = Idle
  BY TaskFacts DEF TaskOK, At
<1> QED
  BY <1>1, <1>2 DEF CrossedBy

\* A handler goes on with its user, or is done with him.
LEMMA AloneTurn ==
  ASSUME NEW h \in Handlers, Turn(h), NEW u, UserAlone(u),
         tasks'[h].user = u => tasks[h].user = u
  PROVE  UserAlone(u)'
  BY DEF UserAlone, Turn

LEMMA AloneStep == TypeInv /\ TypeInv' /\ UsersAlone /\ [Next]_vars => UsersAlone'
<1> SUFFICES ASSUME TypeInv, TypeInv', UsersAlone, [Next]_vars,
                    NEW u \in Folk, u \notin crossed'
             PROVE  UserAlone(u)'
  BY DEF UsersAlone
<1>0. u # None /\ Idle.user = None
  BY WorldFacts DEF TypeInv, Idle
<1>1. CASE Outside /\ ~Restart
  BY <1>1, OutsideDoes DEF UsersAlone, UserAlone
<1>2. CASE Restart
  <2>1. \A h \in Handlers : tasks'[h] = Idle
    BY <1>2 DEF Restart
  <2> QED
    BY <1>0, <2>1 DEF UserAlone
<1>3. CASE ListChannels \/ Forgets \/ UNCHANGED vars
  BY <1>3 DEF UsersAlone, UserAlone, ListChannels, Forgets, vars
<1>4. ASSUME NEW h \in Handlers, Begins(h) PROVE UserAlone(u)'
  <2>1. Turn(h) /\ tasks[h] = Idle /\ crossed \subseteq crossed' /\ Begun(h, tasks'[h], crossed')
    BY <1>4, BeginsDoes
  <2>2. UserAlone(u)
    BY <2>1 DEF UsersAlone
  <2>3. CASE tasks'[h].user # u
    BY <2>1, <2>2, <2>3, AloneTurn
  <2>4. CASE tasks'[h].user = u
    <3>1. tasks'[h].pc \notin OfMatrix
      BY <1>0, <2>4 DEF TypeInv, TasksOK, TaskOK, Stage, OfMatrix
    <3>2. ~SyncsRoom(h)
      BY <1>0, <2>4, SyncsRoomDoes, TurnDoes DEF ChannelTask
    <3>3. u \notin CrossedBy(h, About(tasks'[h]), tasks'[h].channel) /\ u \in About(tasks'[h])
      BY <2>1, <2>4, <3>1, <3>2 DEF Begun, About
    <3> QED
      BY <2>1, <2>4, <3>3, NotCrossedUser DEF UserAlone, Turn
  <2> QED
    BY <2>3, <2>4
<1>5. ASSUME NEW h \in Handlers, FolkSteps(h) PROVE UserAlone(u)'
  <2>1. Turn(h) /\ (tasks'[h] = Idle \/ tasks'[h].user = tasks[h].user)
    BY <1>5, FolkStepsDo, ContinuedFacts
  <2>2. crossed \subseteq crossed'
    BY <1>5, FolkStepsKeep
  <2> QED
    BY <1>0, <2>1, <2>2, AloneTurn DEF UsersAlone
<1>6. ASSUME NEW h \in Handlers,
             ChannelSteps(h) \/ MatrixSteps(h) \/ BridgeSteps(h) \/ FailSteps(h)
      PROVE  UserAlone(u)'
  <2>1. /\ Turn(h) /\ crossed \subseteq crossed'
        /\ tasks'[h] = Idle \/ tasks'[h].user \in {tasks[h].user, None}
    BY <1>6, ChannelStepsDo, MatrixStepsDo, BridgeStepsDo, FailStepsDo, ContinuedFacts
  <2> QED
    BY <1>0, <2>1, AloneTurn DEF UsersAlone
<1> QED
  BY <1>1, <1>2, <1>3, <1>4, <1>5, <1>6, NextDoes

-----------------------------------------------------------------------------
(* Deleted users *)

Deleting(t) == (t.pc = "existing" /\ t.flag) \/ t.pc \in {"hide", "listRooms", "leaveRooms"}

\* Nothing but his deletion is under way that is about the user, or a channel that he created.
Quits(u) ==
    /\ \A h \in Handlers :
          /\ tasks[h].user = u => Deleting(tasks[h]) \/ Bridging(tasks[h])
          /\ tasks[h].pc = "move" => u \notin tasks[h].folk
    /\ \A listed \in toSync.users : listed.user = u => listed.deleted

ListedDeleted(u) == \E listed \in toSync.users : listed.user = u /\ listed.deleted

\* A handler that will take the ghost out of the room of the channel.
TakesOut(t, c) == Deleting(t) /\ (t.pc = "leaveRooms" => c \in t.rooms)

Leaving(u, c) ==
    \/ TellsDeleted(u) \/ ListedDeleted(u)
    \/ \E h \in Handlers : tasks[h].user = u /\ TakesOut(tasks[h], c)

GoneOK(u) ==
    u \in gone =>
        /\ TellsDeleted(u) \/ Quits(u)
        /\ \A c \in Channels :
              c \in bridged /\ c \notin crossed /\ u \in ghostsIn[c] => Leaving(u, c)

GoneInv == \A u \in Folk : u \notin crossed => GoneOK(u)

\* A step that is not about the user.
FolkAside(u) ==
    /\ crossed \subseteq crossed' /\ (u \in gone' => u \in gone)
    /\ TellsDeleted(u) => TellsDeleted(u)'
    /\ \A h \in Handlers :
          /\ \/ tasks'[h] = tasks[h]
             \/ /\ tasks[h].user = u => Bridging(tasks[h])
                /\ tasks'[h].user = u => Bridging(tasks'[h])
          /\ tasks'[h].pc = "move" /\ u \in tasks'[h].folk /\ u \in gone =>
                 tasks[h].pc = "move" /\ u \in tasks[h].folk
    /\ \A listed : listed.user = u => (listed \in toSync'.users <=> listed \in toSync.users)
    /\ \A c \in Channels :
          c \notin crossed' /\ c \in bridged' /\ u \in ghostsIn'[c] /\ u \in gone =>
              (c \in bridged /\ u \in ghostsIn[c]) \/ TellsDeleted(u)

LEMMA FolkAsideKeeps ==
  ASSUME TypeInv, NEW u \in Folk, GoneOK(u), FolkAside(u)
  PROVE  GoneOK(u)'
<1> SUFFICES ASSUME u \in gone' PROVE (TellsDeleted(u) \/ Quits(u))'
              /\ (\A c \in Channels :
                    c \in bridged /\ c \notin crossed /\ u \in ghostsIn[c] => Leaving(u, c))'
  BY DEF GoneOK
<1>0. u \in gone
  BY DEF FolkAside
<1>1. (TellsDeleted(u) \/ Quits(u))'
  <2>1. TellsDeleted(u) \/ Quits(u)
    BY <1>0 DEF GoneOK
  <2>2. CASE Quits(u)
    <3>1. \A listed \in toSync'.users : listed.user = u => listed.deleted
      BY <2>2 DEF Quits, FolkAside
    <3>2. \A h \in Handlers : tasks'[h].user = u => Deleting(tasks'[h]) \/ Bridging(tasks'[h])
      BY <2>2 DEF Quits, FolkAside
    <3>3. \A h \in Handlers : tasks'[h].pc = "move" => u \notin tasks'[h].folk
      BY <1>0, <2>2 DEF Quits, FolkAside
    <3> QED
      BY <3>1, <3>2, <3>3 DEF Quits, Deleting, Bridging
  <2> QED
    BY <2>1, <2>2 DEF FolkAside
<1>2. ASSUME NEW c \in Channels, Leaving(u, c) PROVE Leaving(u, c)'
  <2>1. CASE TellsDeleted(u)
    BY <2>1 DEF FolkAside, Leaving
  <2>2. CASE ListedDeleted(u)
    BY <2>2 DEF FolkAside, Leaving, ListedDeleted
  <2>3. CASE \E h \in Handlers : tasks[h].user = u /\ TakesOut(tasks[h], c)
    <3>1. PICK h \in Handlers : tasks[h].user = u /\ TakesOut(tasks[h], c)
      BY <2>3
    <3>2. ~Bridging(tasks[h])
      BY <3>1, TaskFacts DEF TakesOut, Deleting, Bridging, TaskOK, Stage
    <3>3. tasks'[h] = tasks[h]
      BY <3>1, <3>2 DEF FolkAside
    <3> QED
      BY <3>1, <3>3 DEF Leaving, TakesOut, Deleting
  <2> QED
    BY <1>2, <2>1, <2>2, <2>3 DEF Leaving
<1>3. ASSUME NEW c \in Channels, c \in bridged', c \notin crossed',
             u \in ghostsIn'[c]
      PROVE  Leaving(u, c)'
  <2>1. c \notin crossed /\ ((c \in bridged /\ u \in ghostsIn[c]) \/ TellsDeleted(u))
    BY <1>0, <1>3 DEF FolkAside
  <2>2. Leaving(u, c)
    BY <1>0, <1>3, <2>1 DEF GoneOK, Leaving
  <2> QED
    BY <1>2, <2>2
<1> QED
  BY <1>1, <1>3

LEMMA NewsDeleted ==
  ASSUME NEW type, NEW v, NEW c, NEW n, NEW f, Appended(type, v, c, n, f), NEW u
  PROVE  /\ TellsDeleted(u) => TellsDeleted(u)'
         /\ type = "user" /\ v = u /\ f => TellsDeleted(u)'
<1>0. PICK last \in Nat : last = Len(slackQueue) + 1
  BY DEF Appended
<1>1. /\ Len(slackQueue) \in Nat /\ Len(slackQueue') = last
      /\ \A i \in 1..Len(slackQueue) : slackQueue'[i] = slackQueue[i]
      /\ slackQueue'[last].type = type /\ slackQueue'[last].user = v
      /\ (slackQueue'[last].flag <=> f)
  BY <1>0 DEF Appended
<1>2. /\ last \in 1..Len(slackQueue')
      /\ \A i \in 1..Len(slackQueue) : i \in 1..Len(slackQueue')
  BY <1>0, <1>1
<1>3. TellsDeleted(u) => TellsDeleted(u)'
  BY <1>1, <1>2 DEF TellsDeleted, Told
<1>4. ASSUME type = "user", v = u, f PROVE TellsDeleted(u)'
  BY <1>1, <1>2, <1>4 DEF TellsDeleted, Told
<1> QED
  BY <1>3, <1>4

LEMMA ShiftDeleted ==
  ASSUME Shifted, NEW u, TellsDeleted(u), ~(Told(1, u) /\ slackQueue[1].flag)
  PROVE  TellsDeleted(u)'
<1>1. PICK i \in 1..Len(slackQueue) : Told(i, u) /\ slackQueue[i].flag
  BY DEF TellsDeleted
<1>2. PICK j \in 1..Len(slackQueue') : j = i - 1 /\ slackQueue'[j] = slackQueue[i]
  BY <1>1 DEF Shifted
<1> QED
  BY <1>1, <1>2 DEF TellsDeleted, Told

LEMMA SameDeleted ==
  ASSUME slackQueue' = slackQueue, NEW u
  PROVE  TellsDeleted(u)' <=> TellsDeleted(u)
  BY DEF TellsDeleted, Told

LEMMA NewsGone ==
  ASSUME TypeInv, NEW u \in Folk, GoneOK(u),
         Quietly \/ \E type, v, c, n, f : News(type, v, c, n, f),
         UNCHANGED <<tasks, bridge, ghostsIn, crossed>>
  PROVE  GoneOK(u)'
<1> USE DEF bridge
<1>1. CASE Quietly
  <2>1. FolkAside(u)
    BY <1>1, SameDeleted DEF Quietly, FolkAside
  <2> QED
    BY <2>1, FolkAsideKeeps
<1>2. ASSUME NEW type, NEW v, NEW c, NEW n, NEW f, News(type, v, c, n, f) PROVE GoneOK(u)'
  <2>1. TellsDeleted(u) => TellsDeleted(u)'
    BY <1>2, NewsDeleted DEF News
  <2>2. CASE type = "user" /\ v = u /\ u \in gone'
    <3>1. TellsDeleted(u)'
      BY <1>2, <2>2, NewsDeleted DEF News
    <3> QED
      BY <3>1 DEF GoneOK, Leaving
  <2>3. CASE u \notin gone'
    BY <2>3 DEF GoneOK
  <2>4. CASE type # "user" \/ v # u
    <3>1. u \in gone' <=> u \in gone
      BY <1>2, <2>4 DEF News
    <3>2. FolkAside(u)
      BY <2>1, <3>1 DEF FolkAside
    <3> QED
      BY <3>2, FolkAsideKeeps
  <2> QED
    BY <2>2, <2>3, <2>4
<1> QED
  BY <1>1, <1>2

LEMMA RestartGone ==
  ASSUME TypeInv, ChannelInv, Restart, NEW u \in Folk, u \notin crossed', GoneOK(u)
  PROVE  GoneOK(u)'
<1> DEFINE all == {[user |-> v, name |-> slackNames[v], deleted |-> v \in gone] :
                      v \in world.folk}
<1>0. u # None /\ Idle.user = None /\ Idle.pc = "idle" /\ gone \subseteq world.folk
  BY WorldFacts DEF TypeInv, SlackOK, Idle
<1>1. /\ \A h \in Handlers : tasks'[h] = Idle
      /\ UNCHANGED <<gone, ghostsIn>>
      /\ \/ toSync'.users = all
         \/ /\ toSync'.users = {} /\ \A h \in Handlers : tasks[h].user # u
            /\ ~ListedDeleted(u)
            /\ Happens("rtm") => \A i \in DOMAIN slackQueue : slackQueue[i].user # u
  BY <1>0 DEF Restart, slack, matrix, ListedDeleted
<1> HIDE DEF all
<1> SUFFICES ASSUME u \in gone PROVE GoneOK(u)'
  <2>1. u \notin gone' => GoneOK(u)'
    BY DEF GoneOK
  <2> QED
    BY <1>1, <2>1
<1>2. CASE toSync'.users = all
  <2>1. ASSUME NEW listed \in toSync'.users, listed.user = u PROVE listed.deleted
    <3>1. PICK v \in world.folk :
             listed = [user |-> v, name |-> slackNames[v], deleted |-> v \in gone]
      BY <1>2 DEF all
    <3>2. listed.user = v /\ listed.deleted = (v \in gone)
      BY <3>1
    <3> QED
      BY <2>1, <3>2
  <2>2. Quits(u)'
    BY <1>0, <1>1, <2>1 DEF Quits
  <2>3. [user |-> u, name |-> slackNames[u], deleted |-> u \in gone] \in toSync'.users
    BY <1>0, <1>2 DEF all
  <2>4. ListedDeleted(u)'
    BY <2>3 DEF ListedDeleted
  <2>5. \A c \in Channels : Leaving(u, c)'
    BY <2>4 DEF Leaving
  <2> QED
    BY <2>2, <2>5 DEF GoneOK
<1>3. CASE /\ toSync'.users = {} /\ \A h \in Handlers : tasks[h].user # u
           /\ ~ListedDeleted(u)
           /\ Happens("rtm") => \A i \in DOMAIN slackQueue : slackQueue[i].user # u
  <2>1. TellsDeleted(u) => TellsDeleted(u)'
    <3>1. CASE Happens("rtm")
      <4>1. DOMAIN slackQueue = 1..Len(slackQueue)
        BY DEF TypeInv, SlackQueueOK
      <4> QED
        BY <1>3, <3>1, <4>1 DEF TellsDeleted, Told
    <3>2. CASE ~Happens("rtm")
      BY <3>2, SameDeleted DEF Restart
    <3> QED
      BY <3>1, <3>2
  <2>2. Quits(u)'
    BY <1>0, <1>1, <1>3 DEF Quits
  <2>3. ASSUME NEW c \in Channels, c \in bridged', c \notin crossed', u \in ghostsIn'[c]
        PROVE  Leaving(u, c)'
    <3>1. c \notin crossed
      BY <2>3, WorldFacts DEF Restart, TypeInv
    <3>2. c \in bridged
      BY <2>3, <3>1, RestartDoes DEF ChannelInv, ChannelOK
    <3>3. Leaving(u, c)
      BY <1>1, <2>3, <3>1, <3>2 DEF GoneOK
    <3> QED
      BY <1>3, <2>1, <3>3 DEF Leaving
  <2> QED
    BY <2>2, <2>3 DEF GoneOK
<1> QED
  BY <1>1, <1>2, <1>3

\* Handlers that begin with somebody else, or nobody, or with a channel, or go on with it.
LEMMA TurnFolkAside ==
  ASSUME TypeInv, NEW h \in Handlers, Turn(h), NEW u \in Folk,
         tasks[h].user # u \/ Bridging(tasks[h]), tasks'[h].user # u \/ Bridging(tasks'[h]),
         tasks'[h].pc = "move" /\ u \in tasks'[h].folk =>
             u \notin gone \/ (tasks[h].pc = "move" /\ u \in tasks[h].folk),
         UNCHANGED gone, crossed \subseteq crossed',
         TellsDeleted(u) => TellsDeleted(u)',
         \A listed : listed.user = u => (listed \in toSync'.users <=> listed \in toSync.users),
         \A c \in Channels :
             c \notin crossed' /\ c \in bridged' /\ u \in ghostsIn'[c] /\ u \in gone =>
                 (c \in bridged /\ u \in ghostsIn[c]) \/ TellsDeleted(u)
  PROVE  FolkAside(u)
<1>1. \A g \in Handlers :
         \/ tasks'[g] = tasks[g]
         \/ /\ tasks[g].user = u => Bridging(tasks[g])
            /\ tasks'[g].user = u => Bridging(tasks'[g])
  BY DEF Turn
<1>2. \A g \in Handlers :
         tasks'[g].pc = "move" /\ u \in tasks'[g].folk /\ u \in gone =>
                 tasks[g].pc = "move" /\ u \in tasks[g].folk
  BY DEF Turn
<1> QED
  BY <1>1, <1>2 DEF FolkAside

\* The handlers of an event are about the user of the event, if about one, or a creator.
LEMMA HandlesUser ==
  ASSUME TypeInv, slackQueue # <<>>, NEW h \in Handlers, tasks[h] = Idle,
         Handles(h, Head(slackQueue))
  PROVE  LET e == Head(slackQueue)
             t == tasks'[h]
         IN
         /\ \/ t.user \in {None, e.user} /\ ~Bridging(t)
            \/ Bridging(t) /\ t.pc = "askBot" /\ t.user \in Users(e)
         /\ t.folk = {} /\ t.rooms = {}
         /\ Deleting(t) => e.type = "user" /\ e.flag
         /\ Stage(t) = "leave" => e.type = "left" /\ t.channel = e.channel
<1> DEFINE e == Head(slackQueue)
<1>0. /\ SlackEventOK(e, Channel) /\ Channel \subseteq Channels /\ tasks \in [Handlers -> Tasks]
      /\ Idle.user = None /\ Idle.folk = {} /\ Idle.rooms = {} /\ Idle.pc = "idle"
      /\ ~Bridging(Idle) /\ \A c \in Channels : world.creator[c] \in Folk
      /\ e.flag \in BOOLEAN
  BY HeadFacts, WorldFacts DEF TypeInv, TasksOK, SlackOK, Channel, Idle, Bridging
<1> SUFFICES /\ \/ tasks'[h].user \in {None, e.user} /\ ~Bridging(tasks'[h])
                \/ /\ Bridging(tasks'[h]) /\ tasks'[h].pc = "askBot"
                   /\ tasks'[h].user \in Users(e)
             /\ tasks'[h].folk = {} /\ tasks'[h].rooms = {}
             /\ Deleting(tasks'[h]) => e.type = "user" /\ e.flag
             /\ Stage(tasks'[h]) = "leave" => e.type = "left" /\ tasks'[h].channel = e.channel
  OBVIOUS
<1> HIDE DEF e
<1>1. CASE tasks' = tasks
  BY <1>0, <1>1 DEF Deleting, Stage
<1>2. CASE /\ e.type \in {"joined", "left", "message"}
           /\ \E way \in Ways : /\ way = "leave" <=> e.type = "left"
                               /\ Start(h, RoomTask(e.user, e.channel, way))
  <2>1. PICK way \in Ways : /\ way = "leave" <=> e.type = "left"
                            /\ Start(h, RoomTask(e.user, e.channel, way))
    BY <1>2
  <2>2. e.user \in Folk /\ e.channel \in Channels
    BY <1>0, <1>2 DEF SlackEventOK
  <2>3. tasks'[h] = RoomTask(e.user, e.channel, way)
    BY <1>0, <2>1 DEF Start
  <2>4. PICK u \in Folk, c \in Channels : u = e.user /\ c = e.channel
    BY <2>2
  <2>5. tasks'[h] = RoomTask(u, c, way)
    BY <2>3, <2>4
  <2>6. /\ tasks'[h].pc = "get" /\ tasks'[h].next = way /\ tasks'[h].user = u
        /\ tasks'[h].channel = c /\ tasks'[h].folk = {} /\ tasks'[h].rooms = {}
    BY <2>5, RoomTaskFacts
  <2> QED
    BY <2>1, <2>4, <2>6 DEF Deleting, Stage, Bridging, Ways
<1>3. CASE e.type = "user" /\ Start(h, SyncUser(e.user, e.name, e.flag))
  <2>1. e.user \in Folk /\ e.name \in Names
    BY <1>0, <1>3 DEF SlackEventOK
  <2>2. tasks'[h] = SyncUser(e.user, e.name, e.flag)
    BY <1>0, <1>3 DEF Start
  <2>3. PICK u \in Folk, n \in Names, f \in BOOLEAN : u = e.user /\ n = e.name /\ f = e.flag
    BY <1>0, <2>1
  <2>4. tasks'[h] = SyncUser(u, n, f)
    BY <2>2, <2>3
  <2>5. /\ tasks'[h].pc = "existing" /\ tasks'[h].user = u /\ (tasks'[h].flag <=> f)
        /\ tasks'[h].folk = {} /\ tasks'[h].rooms = {} /\ tasks'[h].next = "idle"
    BY <2>4, SyncUserFacts
  <2> QED
    BY <1>3, <2>3, <2>5 DEF Deleting, Stage, Bridging
<1>4. CASE e.type = "created" /\ Start(h, SyncChannel(e.channel))
  <2>1. e.channel \in Channels
    BY <1>0, <1>4 DEF SlackEventOK
  <2>2. \/ SyncChannel(e.channel) = Idle
        \/ ChannelTask(SyncChannel(e.channel), e.channel, "ensureBot")
        \/ SyncChannel(e.channel) = BridgeTask(e.channel)
    BY <2>1, ChannelTaskFacts
  <2>3. tasks'[h] = SyncChannel(e.channel)
    BY <1>0, <1>4 DEF Start
  <2>4. CASE SyncChannel(e.channel) = BridgeTask(e.channel)
    <3>1. LET t == BridgeTask(e.channel) IN
          /\ t.pc = "askBot" /\ t.next = "bridge" /\ t.user = world.creator[e.channel]
          /\ t.folk = {} /\ t.rooms = {}
      BY <1>0, <2>1, BridgeTaskFacts
    <3> QED
      BY <1>4, <2>3, <2>4, <3>1 DEF Bridging, Deleting, Stage, Users
  <2> QED
    BY <1>0, <2>2, <2>3, <2>4 DEF ChannelTask, Deleting, Stage, Bridging
<1>5. CASE e.type = "deleted" /\ Start(h, UnlinkTask(e.channel))
  <2>1. e.channel \in Channels
    BY <1>0, <1>5 DEF SlackEventOK
  <2>2. ChannelTask(UnlinkTask(e.channel), e.channel, "unlink")
    BY <2>1, ChannelTaskFacts
  <2>3. tasks'[h] = UnlinkTask(e.channel)
    BY <1>0, <1>5 DEF Start
  <2> QED
    BY <1>0, <2>2, <2>3 DEF ChannelTask, Deleting, Stage, Bridging
<1>6. Handles(h, e)
  BY DEF e
<1>7. \/ tasks' = tasks
      \/ /\ e.type \in {"joined", "left", "message"}
         /\ \E way \in Ways : /\ way = "leave" <=> e.type = "left"
                             /\ Start(h, RoomTask(e.user, e.channel, way))
      \/ e.type = "user" /\ Start(h, SyncUser(e.user, e.name, e.flag))
      \/ e.type = "created" /\ Start(h, SyncChannel(e.channel))
      \/ e.type = "deleted" /\ Start(h, UnlinkTask(e.channel))
  BY <1>6 DEF Handles
<1> QED
  BY <1>1, <1>2, <1>3, <1>4, <1>5, <1>7

LEMMA SlackFolk ==
  ASSUME TypeInv, LastTells, NEW h \in Handlers, HandleSlack(h), NEW u \in Folk, GoneOK(u),
         u \notin crossed'
  PROVE  GoneOK(u)'
<1> DEFINE e == Head(slackQueue)
<1> DEFINE t == tasks'[h]
<1>1. /\ slackQueue # <<>> /\ slackQueue' = Tail(slackQueue) /\ Handles(h, e)
      /\ crossed' = crossed \cup CrossedBy(h, Users(e), e.channel) \cup Awaited(e)
      /\ UNCHANGED <<world, slack, matrixQueue, matrix, bridge, ghostVars, moved>>
      /\ e.type = "user" => Start(h, SyncUser(e.user, e.name, e.flag))
  BY HandleSlackDoes
<1>2. Turn(h) /\ tasks[h] = Idle
  BY BeginsDoes DEF Begins
<1>3. (t.user \in {None, e.user} \/ Bridging(t)) /\ t.folk = {} /\ t.rooms = {}
  BY <1>1, <1>2, HandlesUser
<1>4. Shifted /\ e = slackQueue[1] /\ 1 \in 1..Len(slackQueue)
  BY <1>1, TailShifts
<1>5. u # None /\ Idle.user = None /\ tasks \in [Handlers -> Tasks]
  BY WorldFacts DEF TypeInv, TasksOK, Idle
<1>6. /\ e.user \in Users(e)
      /\ e.type = "user" => e.user \in Folk /\ e.name \in Names /\ e.flag \in BOOLEAN
  BY <1>1, HeadFacts DEF SlackEventOK, Users
<1> HIDE DEF e, t
<1>7. UNCHANGED <<gone, toSync, bridged, ghostsIn>> /\ crossed \subseteq crossed'
  BY <1>1 DEF slack, bridge, matrix
<1>8. CASE e.user # u
  <2>1. TellsDeleted(u) => TellsDeleted(u)'
    BY <1>4, <1>8, ShiftDeleted DEF Told
  <2>2. FolkAside(u)
    BY <1>2, <1>3, <1>5, <1>7, <1>8, <2>1, TurnFolkAside DEF t
  <2> QED
    BY <2>2, FolkAsideKeeps
<1>9. CASE e.user = u /\ u \notin gone
  BY <1>7, <1>9 DEF GoneOK
<1>10. CASE e.user = u /\ u \in gone
  <2>1. CASE TellsDeleted(u)'
    BY <2>1 DEF GoneOK, Leaving
  <2>2. CASE ~TellsDeleted(u)'
    <3>1. PICK j \in 1..Len(slackQueue) : TellsNow(j, u)
      BY <1>4, <1>10 DEF LastTells
    <3>2. TellsDeleted(u)
      BY <1>10, <3>1 DEF TellsNow, TellsDeleted
    <3>3. Told(1, u) /\ slackQueue[1].flag
      BY <1>4, <2>2, <3>2, ShiftDeleted
    <3>4. e.type = "user" /\ e.flag
      BY <1>4, <3>3 DEF Told
    <3>5. t = SyncUser(e.user, e.name, e.flag)
      BY <1>1, <1>5, <3>4 DEF Start, t
    <3>6. PICK n \in Names : n = e.name
      BY <1>6, <3>4
    <3>7. t = SyncUser(u, n, TRUE)
      BY <1>6, <1>10, <3>4, <3>5, <3>6
    <3>8. t.user = u /\ t.pc = "existing" /\ t.flag
      BY <3>7 DEF SyncUser, Idle
    <3>9. \A listed \in toSync.users : listed.user # u
      BY <1>1, <1>6, <1>10 DEF Awaited
    <3>10. \A g \in Handlers \ {h} : tasks[g].user # u /\ u \notin tasks[g].folk
      BY <1>1, <1>6, <1>10, NotCrossedUser
    <3>11. Quits(u)'
      <4>1. \A g \in Handlers : tasks'[g].user = u => g = h
        BY <1>2, <3>10 DEF Turn
      <4>2. \A g \in Handlers : u \notin tasks'[g].folk
        BY <1>2, <1>3, <3>10 DEF Turn, t
      <4> QED
        BY <1>7, <3>8, <3>9, <4>1, <4>2 DEF Quits, Deleting, t
    <3>12. \A c \in Channels : Leaving(u, c)'
      BY <3>8 DEF Leaving, TakesOut, Deleting, t
    <3> QED
      BY <3>11, <3>12 DEF GoneOK
  <2> QED
    BY <2>1, <2>2
<1> QED
  BY <1>8, <1>9, <1>10

LEMMA ListedFolk ==
  ASSUME TypeInv, NEW h \in Handlers, SyncsUser(h), NEW u \in Folk, GoneOK(u), u \notin crossed'
  PROVE  GoneOK(u)'
<1>1. PICK listed \in toSync.users :
         /\ listed \in Listed /\ tasks[h].pc = "idle"
         /\ toSync'.users = toSync.users \ {listed}
         /\ Start(h, ListedTask(listed))
         /\ crossed' = crossed \cup CrossedBy(h, {listed.user}, None)
         /\ UNCHANGED <<world, slack, queues, matrix, bridged, stored, active, adminRoom,
                        ghostVars, moved, due>>
  BY SyncsUserDoes
<1> DEFINE t == tasks'[h]
<1>2. Turn(h) /\ tasks[h] = Idle
  BY BeginsDoes DEF Begins
<1>3. t = ListedTask(listed)
  BY <1>1 DEF TypeInv, TasksOK, Start
<1>4. /\ t.user = listed.user /\ t.folk = {} /\ t.rooms = {} /\ t.pc = "existing"
      /\ t.flag <=> listed.deleted
  BY <1>1, <1>3, ListedTaskFacts
<1>5. u # None /\ Idle.user = None
  BY WorldFacts DEF TypeInv, Idle
<1>6. /\ UNCHANGED <<gone, slackQueue, bridged, ghostsIn>> /\ crossed \subseteq crossed'
  BY <1>1 DEF slack, queues, matrix
<1>7. TellsDeleted(u)' <=> TellsDeleted(u)
  BY <1>6, SameDeleted
<1> HIDE DEF t
<1>8. CASE listed.user # u
  <2>1. \A other : other.user = u => (other \in toSync'.users <=> other \in toSync.users)
    BY <1>1, <1>8
  <2>2. FolkAside(u)
    BY <1>2, <1>4, <1>5, <1>6, <1>7, <1>8, <2>1, TurnFolkAside DEF t
  <2> QED
    BY <2>2, FolkAsideKeeps
<1>9. CASE u \notin gone \/ TellsDeleted(u)'
  BY <1>6, <1>9 DEF GoneOK, Leaving
<1>10. CASE listed.user = u /\ u \in gone /\ ~TellsDeleted(u)'
  <2>1. Quits(u)
    BY <1>7, <1>10 DEF GoneOK
  <2>2. \A g \in Handlers \ {h} : tasks[g].user # u /\ u \notin tasks[g].folk
    BY <1>1, <1>10, NotCrossedUser
  <2>3. listed.deleted
    BY <1>10, <2>1 DEF Quits
  <2>4. Quits(u)'
    <3>1. \A g \in Handlers : tasks'[g].user = u => g = h
      BY <1>2, <2>2 DEF Turn
    <3>2. \A g \in Handlers : u \notin tasks'[g].folk
      BY <1>2, <1>4, <2>2 DEF Turn, t
    <3>3. \A other \in toSync'.users : other.user = u => other.deleted
      BY <1>1, <2>1 DEF Quits
    <3> QED
      BY <1>4, <2>3, <3>1, <3>2, <3>3 DEF Quits, Deleting, t
  <2>5. \A c \in Channels : Leaving(u, c)'
    BY <1>4, <1>10, <2>3 DEF Leaving, TakesOut, Deleting, t
  <2> QED
    BY <2>4, <2>5 DEF GoneOK
<1> QED
  BY <1>8, <1>9, <1>10

\* The bot, a puppet or a channel is not a user; and a channel has a creator.
LEMMA NobodyBegins ==
  ASSUME TypeInv, NEW h \in Handlers, HandleMatrix(h) \/ SyncsChannel(h) \/ SyncsRoom(h)
  PROVE  /\ slackQueue' = slackQueue /\ toSync'.users = toSync.users
         /\ tasks'[h].user = None \/ Bridging(tasks'[h])
         /\ tasks'[h].folk = {}
<1>0. /\ tasks \in [Handlers -> Tasks] /\ Idle.user = None /\ Idle.folk = {} /\ tasks[h] = Idle
      /\ \A c \in Channels : world.creator[c] \in Folk
  BY BeginsDoes, WorldFacts DEF TypeInv, TasksOK, Idle, Begins
<1>1. CASE HandleMatrix(h)
  <2>1. PICK c \in Channels :
           \/ Start(h, BotTask(c)) \/ (\E m \in MatrixUsers : Start(h, PuppetTask(c, m)))
           \/ tasks' = tasks
    BY <1>1, HandleMatrixDoes
  <2>2. \/ tasks'[h] = BotTask(c) \/ (\E m \in MatrixUsers : tasks'[h] = PuppetTask(c, m))
        \/ tasks'[h] = Idle
    BY <1>0, <2>1 DEF Start
  <2> QED
    BY <1>0, <1>1, <2>2, ChannelTaskFacts, HandleMatrixDoes DEF ChannelTask
<1>2. CASE SyncsChannel(h)
  <2>1. PICK c \in Channels :
           /\ Start(h, SyncChannel(c)) /\ UNCHANGED queues /\ toSync'.users = toSync.users
    BY <1>2, SyncsChannelDoes
  <2>2. tasks'[h] = SyncChannel(c)
    BY <1>0, <2>1 DEF Start
  <2> QED
    BY <1>0, <2>1, <2>2, ChannelTaskFacts, BridgeTaskFacts DEF ChannelTask, queues, Bridging
<1>3. CASE SyncsRoom(h)
  <2>1. PICK c \in Channels :
           /\ Start(h, RoomSync(c)) /\ ChannelTask(RoomSync(c), c, "listGhosts")
           /\ UNCHANGED queues /\ toSync'.users = toSync.users
    BY <1>3, SyncsRoomDoes
  <2>2. tasks'[h] = RoomSync(c)
    BY <1>0, <2>1 DEF Start
  <2> QED
    BY <2>1, <2>2 DEF ChannelTask, queues
<1> QED
  BY <1>1, <1>2, <1>3

LEMMA BeginsFolk ==
  ASSUME TypeInv, LastTells, NEW h \in Handlers, Begins(h), NEW u \in Folk, GoneOK(u),
         u \notin crossed'
  PROVE  GoneOK(u)'
<1>1. CASE HandleSlack(h)
  BY <1>1, SlackFolk
<1>2. CASE SyncsUser(h)
  BY <1>2, ListedFolk
<1>3. CASE HandleMatrix(h) \/ SyncsChannel(h) \/ SyncsRoom(h)
  <2>1. /\ Turn(h) /\ tasks[h] = Idle /\ UNCHANGED <<world, slack, matrix, bridged>>
        /\ crossed \subseteq crossed' /\ Begun(h, tasks'[h], crossed')
    BY BeginsDoes
  <2>2. UNCHANGED slackQueue /\ toSync'.users = toSync.users
    BY <1>3, NobodyBegins
  <2>3. (tasks'[h].user = None \/ Bridging(tasks'[h])) /\ tasks'[h].folk = {}
    BY <1>3, NobodyBegins
  <2>4. u # None /\ Idle.user = None
    BY WorldFacts DEF TypeInv, Idle
  <2>5. TellsDeleted(u)' <=> TellsDeleted(u)
    BY <2>2, SameDeleted
  <2>6. FolkAside(u)
    BY <2>1, <2>2, <2>3, <2>4, <2>5, TurnFolkAside DEF slack, matrix
  <2> QED
    BY <2>6, FolkAsideKeeps
<1> QED
  BY <1>1, <1>2, <1>3 DEF Begins

LEMMA OwnFolkSteps ==
  ASSUME TypeInv, NEW h \in Handlers, FolkSteps(h), Deleting(tasks[h])
  PROVE  /\ FindExisting(h) \/ HideUser(h) \/ ListRooms(h) \/ LeaveRooms(h)
         /\ tasks'[h] = Idle \/ (tasks'[h].user = tasks[h].user /\ Deleting(tasks'[h]))
<1> USE DEF Deleting
<1>1. /\ tasks[h].pc \in {"existing", "hide", "listRooms", "leaveRooms"}
      /\ tasks[h].pc = "existing" => tasks[h].flag
  OBVIOUS
<1>2. FindExisting(h) \/ HideUser(h) \/ ListRooms(h) \/ LeaveRooms(h)
  BY <1>1, LookGhostDoes, GetGhostDoes, GhostJoinsDoes, BotInvitesDoes, GhostLeavesDoes,
     LookUpdateDoes, AskSlackDoes, WriteProfileDoes, SaveNameDoes, SendMessageDoes,
     UpdateUserDoes DEF FolkSteps, LookSteps
<1>3. CASE FindExisting(h)
  BY <1>1, <1>2, <1>3, FindExistingDoes, ContinuedFacts
<1>4. CASE HideUser(h)
  BY <1>2, <1>4, HideUserDoes, ContinuedFacts
<1>5. CASE ListRooms(h)
  BY <1>2, <1>5, ListRoomsDoes, ContinuedFacts
<1>6. CASE LeaveRooms(h)
  BY <1>2, <1>6, LeaveRoomsDoes
<1> QED
  BY <1>2, <1>3, <1>4, <1>5, <1>6

LEMMA OwnFolkMoves ==
  ASSUME TypeInv, RowsMade, NEW h \in Handlers, FolkSteps(h), Deleting(tasks[h]),
         NEW c \in Channels
  PROVE  LET s == tasks[h]
             t == tasks'[h]
             u == s.user
         IN
         /\ ghostsIn'[c] \subseteq ghostsIn[c]
         /\ u \in ghostsIn'[c] /\ c \in bridged /\ TakesOut(s, c) /\ u \notin crossed' =>
                t.user = u /\ TakesOut(t, c)
<1> DEFINE s == tasks[h]
<1> DEFINE t == tasks'[h]
<1> USE DEF Deleting, TakesOut
<1>0. ghostsIn \in [Channels -> SUBSET Folk] /\ (c \in bridged => c \in Channels)
  BY DEF TypeInv, MatrixOK
<1>1. s.pc \in {"existing", "hide", "listRooms", "leaveRooms"} /\ (s.pc = "existing" => s.flag)
  OBVIOUS
<1>2. ghostsIn'[c] \subseteq ghostsIn[c]
  BY <1>1, FolkStepsMove DEF InRoom
<1>3. CASE FindExisting(h)
  <2>1. s.pc = "existing" /\ s.flag /\ s.user \in Folk /\ UNCHANGED ghostsIn
    BY <1>1, <1>3, FindExistingDoes DEF matrix
  <2>2. \/ rows[s.user] = NoRow /\ t = Idle
        \/ t.user = s.user /\ t.pc = "hide"
    BY <1>3, <2>1, FindExistingDoes, ContinuedFacts
  <2>3. s.user \in ghostsIn[c] => rows[s.user] # NoRow
    BY DEF RowsMade, HasRow
  <2> QED
    BY <1>2, <2>1, <2>2, <2>3
<1>4. CASE HideUser(h)
  BY <1>2, <1>4, HideUserDoes, ContinuedFacts
<1>5. CASE ListRooms(h)
  <2>1. /\ t.user = s.user /\ t.pc = "leaveRooms" /\ t.rooms = RoomsOf(s.user)
        /\ UNCHANGED ghostsIn
    BY <1>5, ListRoomsDoes, ContinuedFacts DEF matrix
  <2> QED
    BY <1>2, <2>1 DEF RoomsOf
<1>6. CASE LeaveRooms(h)
  <2>1. s.pc = "leaveRooms" /\ t = Idle
    BY <1>6, LeaveRoomsDoes
  <2>2. PICK left :
           /\ ghostsIn' = [d \in Channels |-> IF d \in left THEN ghostsIn[d] \ {s.user}
                                              ELSE ghostsIn[d]]
           /\ left # s.rooms => s.user \in crossed'
    BY <1>6, LeaveRoomsDoes
  <2>3. c \in left => s.user \notin ghostsIn'[c]
    BY <2>2
  <2> QED
    BY <1>2, <2>1, <2>2, <2>3
<1> QED
  BY <1>3, <1>4, <1>5, <1>6, OwnFolkSteps

LEMMA FolkStepGone ==
  ASSUME TypeInv, RowsMade, NEW h \in Handlers, FolkSteps(h), NEW u \in Folk, UserAlone(u),
         GoneOK(u), u \notin crossed'
  PROVE  GoneOK(u)'
<1> DEFINE s == tasks[h]
<1> DEFINE t == tasks'[h]
<1>0. u # None /\ Idle.user = None /\ Idle.folk = {}
  BY WorldFacts DEF TypeInv, Idle
<1>1. /\ Turn(h) /\ (t = Idle \/ t.user = s.user) /\ s.folk = {} /\ t.folk = {} /\ ~Bridging(s)
  BY <1>0, FolkStepsDo, ContinuedFacts DEF AboutFolk
<1>2. UNCHANGED <<gone, slackQueue, toSync, bridged>> /\ crossed \subseteq crossed'
  BY FolkStepsKeep DEF slack, queues, bridge
<1>3. TellsDeleted(u)' <=> TellsDeleted(u)
  BY <1>2, SameDeleted
<1>4. CASE s.user # u
  <2>1. \A c \in Channels : u \in ghostsIn'[c] => u \in ghostsIn[c]
    BY <1>4, FolkStepsMove
  <2>2. FolkAside(u)
    BY <1>0, <1>1, <1>2, <1>3, <1>4, <2>1, TurnFolkAside
  <2> QED
    BY <2>2, FolkAsideKeeps
<1>5. CASE u \notin gone \/ TellsDeleted(u)'
  BY <1>2, <1>5 DEF GoneOK, Leaving
<1>6. CASE s.user = u /\ u \in gone /\ ~TellsDeleted(u)'
  <2>1. Quits(u)
    BY <1>3, <1>6 DEF GoneOK
  <2>2. Deleting(s)
    BY <1>1, <1>6, <2>1 DEF Quits
  <2>3. \A g \in Handlers \ {h} : tasks[g].user # u /\ tasks'[g] = tasks[g]
    BY <1>1, <1>6 DEF UserAlone, Turn
  <2>4. Quits(u)'
    <3>1. \A g \in Handlers : tasks'[g].user = u => g = h
      BY <2>3
    <3>2. t.user = u => Deleting(t)
      BY <1>0, <2>2, OwnFolkSteps
    <3>3. \A g \in Handlers : tasks'[g].pc = "move" => u \notin tasks'[g].folk
      BY <1>1, <2>1 DEF Quits, Turn
    <3> QED
      BY <1>2, <2>1, <3>1, <3>2, <3>3 DEF Quits, Deleting, Bridging
  <2>5. ASSUME NEW c \in Channels, c \in bridged, c \notin crossed',
               u \in ghostsIn'[c]
        PROVE  Leaving(u, c)'
    <3>1. u \in ghostsIn[c]
      BY <2>2, <2>5, OwnFolkMoves
    <3>2. Leaving(u, c) /\ ~TellsDeleted(u)
      BY <1>2, <1>3, <1>6, <2>5, <3>1 DEF GoneOK
    <3>3. CASE ListedDeleted(u)
      BY <1>2, <3>3 DEF ListedDeleted, Leaving
    <3>4. CASE ~ListedDeleted(u)
      <4>1. PICK g \in Handlers : tasks[g].user = u /\ TakesOut(tasks[g], c)
        BY <3>2, <3>4 DEF Leaving
      <4>2. g = h /\ TakesOut(s, c)
        BY <1>6, <4>1 DEF UserAlone
      <4>3. t.user = u /\ TakesOut(t, c)
        BY <1>6, <2>2, <2>5, <4>2, OwnFolkMoves
      <4> QED
        BY <4>3 DEF Leaving, TakesOut, Deleting
    <3> QED
      BY <3>3, <3>4
  <2> QED
    BY <1>2, <2>4, <2>5 DEF GoneOK
<1> QED
  BY <1>4, <1>5, <1>6

\* Handlers about a channel: who is listed to be moved in is a member.
LEMMA ChannelStepsFolk ==
  ASSUME TypeInv, NEW h \in Handlers, ChannelSteps(h)
  PROVE  tasks'[h].pc = "move" => tasks'[h].folk \cap gone = {}
<1>0. Idle.pc # "move" /\ \A c \in Channels : people[c] \cap gone = {}
  BY DEF Idle, TypeInv, SlackOK
<1>1. CASE ListMembers(h)
  BY <1>0, <1>1, ListMembersDoes
<1>2. CASE ~ListMembers(h)
  <2>1. tasks'[h] = Idle \/ tasks'[h].pc # "move"
    BY <1>2, BridgeChannelDoes, EnsureBotDoes, ListGhostsDoes, MoveMembersDoes,
       UnlinkDeletedDoes, DrainRoomDoes DEF ChannelSteps, ChannelTask
  <2> QED
    BY <1>0, <2>1
<1> QED
  BY <1>1, <1>2

LEMMA ChannelStepsMove ==
  ASSUME TypeInv, ChannelInv, NEW h \in Handlers, ChannelSteps(h), NEW c \in Channels,
         c \notin crossed, c \in bridged', NEW u \in ghostsIn'[c]
  PROVE  \/ c \in bridged /\ u \in ghostsIn[c]
         \/ tasks[h].pc = "move" /\ u \in tasks[h].folk
         \/ u \notin gone \/ u \in crossed'
<1> DEFINE s == tasks[h]
<1>0. ghostsIn \in [Channels -> SUBSET Folk]
  BY DEF TypeInv, MatrixOK
<1> USE DEF matrix, bridge
<1>1. CASE BridgeChannel(h)
  <2>1. /\ s.next = "bridge" /\ s.channel \in Channels
        /\ \/ Bridges(s)
           \/ UNCHANGED <<bridged, ghostsIn>>
    BY <1>1, BridgeChannelDoes
  <2>4. \/ u \in ghostsIn[c] \/ u \notin gone \/ u \in crossed'
    BY <1>0, <2>1 DEF Bridges
  <2>5. bridged' = bridged \cup {s.channel} \/ bridged' = bridged
    BY <2>1 DEF Bridges
  <2>2. CASE c \in bridged
    BY <2>2, <2>4
  <2>3. CASE c \notin bridged
    <3>1. s.channel = c /\ On("bridge", c)
      BY <2>1, <2>3, <2>5 DEF On, Place
    <3>2. ChannelOK(c)
      BY DEF ChannelInv
    <3>3. ~On("drain", c)
      BY <3>1, <3>2 DEF ChannelOK, UnlinkingOK, Ended
    <3>4. ghostsIn[c] = {}
      BY <2>3, <3>2, <3>3 DEF ChannelOK, UnbridgedOK
    <3> QED
      BY <2>4, <3>4
  <2> QED
    BY <2>2, <2>3
<1>2. CASE EnsureBot(h)
  BY <1>2, EnsureBotDoes
<1>3. CASE ListGhosts(h)
  BY <1>3, ListGhostsDoes
<1>4. CASE ListMembers(h)
  BY <1>0, <1>4, ListMembersDoes
<1>5. CASE MoveMembers(h)
  BY <1>0, <1>5, MoveMembersDoes
<1>6. CASE UnlinkDeleted(h)
  BY <1>6, UnlinkDeletedDoes
<1>7. CASE DrainRoom(h)
  BY <1>0, <1>7, DrainRoomDoes
<1> QED
  BY <1>1, <1>2, <1>3, <1>4, <1>5, <1>6, <1>7 DEF ChannelSteps

LEMMA ChannelStepGone ==
  ASSUME TypeInv, ChannelInv, NEW h \in Handlers, ChannelSteps(h), NEW u \in Folk, GoneOK(u),
         u \notin crossed'
  PROVE  GoneOK(u)'
<1>0. u # None /\ Idle.user = None
  BY WorldFacts DEF TypeInv, Idle
<1>1. /\ Turn(h) /\ tasks'[h].user = None /\ (tasks[h].user = None \/ Bridging(tasks[h]))
      /\ UNCHANGED <<gone, slackQueue>> /\ toSync'.users = toSync.users
      /\ crossed \subseteq crossed'
  BY <1>0, ChannelStepsDo, BridgeChannelDoes DEF queues, Bridging
<1>2. TellsDeleted(u)' <=> TellsDeleted(u)
  BY <1>1, SameDeleted
<1>3. tasks'[h].pc = "move" /\ u \in tasks'[h].folk => u \notin gone
  BY ChannelStepsFolk
<1>4. ASSUME NEW c \in Channels, c \notin crossed', c \in bridged', u \in ghostsIn'[c], u \in gone
      PROVE  (c \in bridged /\ u \in ghostsIn[c]) \/ TellsDeleted(u)
  <2>1. \/ c \in bridged /\ u \in ghostsIn[c]
        \/ tasks[h].pc = "move" /\ u \in tasks[h].folk
    BY <1>1, <1>4, ChannelStepsMove
  <2> QED
    BY <1>4, <2>1 DEF GoneOK, Quits
<1>5. FolkAside(u)
  BY <1>0, <1>1, <1>2, <1>3, <1>4, TurnFolkAside
<1> QED
  BY <1>5, FolkAsideKeeps

LEMMA MatrixStepGone ==
  ASSUME TypeInv, NEW h \in Handlers, MatrixSteps(h), NEW u \in Folk, GoneOK(u)
  PROVE  GoneOK(u)'
<1>0. u # None /\ Idle.user = None /\ Idle.pc # "move"
  BY WorldFacts DEF TypeInv, Idle
<1>1. /\ Turn(h) /\ tasks[h].user = None /\ tasks'[h].user = None /\ tasks'[h].pc # "move"
      /\ UNCHANGED <<gone, slackNames, toSync, bridged, ghostsIn, crossed>>
      /\ PuppetJoins(h) \/ UNCHANGED slackQueue
  BY <1>0, MatrixStepsDo, ContinuedFacts DEF ghostVars, OfMatrix
<1>2. TellsDeleted(u) => TellsDeleted(u)'
  <2>1. CASE UNCHANGED slackQueue
    BY <2>1, SameDeleted
  <2>2. CASE PuppetJoins(h)
    <3>1. slackQueue' = slackQueue \/ JoinsSlack(tasks[h].mx, tasks[h].channel)
      BY <2>2, PuppetJoinsDoes
    <3>2. CASE JoinsSlack(tasks[h].mx, tasks[h].channel)
      <4>1. Quietly \/ \E type, v, d, n, f : News(type, v, d, n, f)
        BY <1>1, <3>2, JoinsNews
      <4> QED
        BY <4>1, SameDeleted, NewsDeleted DEF Quietly, News
    <3> QED
      BY <2>1, <3>1, <3>2
  <2> QED
    BY <1>1, <2>1, <2>2
<1>3. FolkAside(u)
  BY <1>0, <1>1, <1>2, TurnFolkAside
<1> QED
  BY <1>3, FolkAsideKeeps

LEMMA BridgeStepGone ==
  ASSUME TypeInv, NEW h \in Handlers, BridgeSteps(h), NEW u \in Folk, GoneOK(u)
  PROVE  GoneOK(u)'
<1>1. /\ Turn(h) /\ Bridging(tasks[h]) /\ Bridging(tasks'[h]) /\ tasks'[h].pc # "move"
      /\ UNCHANGED <<gone, slackQueue, toSync, bridged, ghostsIn, crossed>>
  BY BridgeStepsDo DEF queues, matrix, bridge
<1>2. FolkAside(u)
  BY <1>1, SameDeleted, TurnFolkAside
<1> QED
  BY <1>2, FolkAsideKeeps

\* A failed call of the user's deletion is remembered.
LEMMA FailStepGone ==
  ASSUME TypeInv, NEW h \in Handlers, FailSteps(h), NEW u \in Folk, GoneOK(u), u \notin crossed'
  PROVE  GoneOK(u)'
<1> DEFINE s == tasks[h]
<1>0. u # None /\ Idle.user = None /\ Idle.pc # "move"
  BY WorldFacts DEF TypeInv, Idle
<1>1. /\ Turn(h) /\ tasks'[h] = Idle /\ ~Bridging(s) /\ s.pc \in Calls \cup {"save"}
      /\ UNCHANGED <<gone, slackQueue, toSync, bridged, ghostsIn>> /\ crossed \subseteq crossed'
      /\ Syncing(s) => s.user \in crossed'
  BY FailStepsDo DEF slack, queues, matrix, bridge
<1>2. TellsDeleted(u)' <=> TellsDeleted(u)
  BY <1>1, SameDeleted
<1>3. CASE s.user # u
  <2>1. FolkAside(u)
    BY <1>0, <1>1, <1>2, <1>3, TurnFolkAside
  <2> QED
    BY <2>1, FolkAsideKeeps
<1>4. CASE u \notin gone \/ TellsDeleted(u)
  BY <1>1, <1>2, <1>4 DEF GoneOK, Leaving
<1>5. CASE s.user = u /\ u \in gone /\ ~TellsDeleted(u)
  <2>1. Deleting(s)
    BY <1>1, <1>5 DEF GoneOK, Quits
  <2>2. Syncing(s)
    BY <1>1, <2>1 DEF Deleting, Syncing, Calls
  <2> QED
    BY <1>1, <1>5, <2>2
<1> QED
  BY <1>3, <1>4, <1>5

LEMMA GoneStep ==
    TypeInv /\ ChannelInv /\ RowsMade /\ LastTells /\ UsersAlone /\ GoneInv /\ [Next]_vars
        => GoneInv'
<1> SUFFICES ASSUME TypeInv, ChannelInv, RowsMade, LastTells, UsersAlone, GoneInv, [Next]_vars,
                    NEW u \in Folk, u \notin crossed'
             PROVE  GoneOK(u)'
  BY DEF GoneInv
<1>1. CASE Outside /\ ~Restart
  <2>1. UNCHANGED <<tasks, bridge, ghostsIn, crossed>> /\ GoneOK(u)
    BY <1>1, OutsideDoes DEF GoneInv
  <2> QED
    BY <1>1, <2>1, OutsideNews, NewsGone
<1>2. CASE Restart
  <2>1. u \notin crossed
    BY <1>2, WorldFacts DEF Restart, TypeInv
  <2> QED
    BY <1>2, <2>1, RestartGone DEF GoneInv
<1>3. CASE ListChannels \/ Forgets \/ UNCHANGED vars
  <2>1. /\ UNCHANGED <<gone, slackQueue, bridged, ghostsIn, tasks, crossed>>
        /\ toSync'.users = toSync.users
    BY <1>3 DEF ListChannels, Forgets, vars, slack, queues, matrix, bridge, TypeInv, ToSyncOK
  <2>2. FolkAside(u) /\ GoneOK(u)
    BY <2>1, SameDeleted DEF FolkAside, GoneInv
  <2> QED
    BY <2>2, FolkAsideKeeps
<1>4. ASSUME NEW h \in Handlers, Begins(h) PROVE GoneOK(u)'
  <2>1. GoneOK(u)
    BY <1>4, BeginsDoes DEF GoneInv
  <2> QED
    BY <1>4, <2>1, BeginsFolk
<1>5. ASSUME NEW h \in Handlers, FolkSteps(h) PROVE GoneOK(u)'
  <2>1. GoneOK(u) /\ UserAlone(u)
    BY <1>5, FolkStepsKeep DEF GoneInv, UsersAlone
  <2> QED
    BY <1>5, <2>1, FolkStepGone
<1>6. ASSUME NEW h \in Handlers, ChannelSteps(h) PROVE GoneOK(u)'
  <2>1. GoneOK(u)
    BY <1>6, ChannelStepsDo DEF GoneInv
  <2> QED
    BY <1>6, <2>1, ChannelStepGone
<1>7. ASSUME NEW h \in Handlers, MatrixSteps(h) PROVE GoneOK(u)'
  <2>1. GoneOK(u)
    BY <1>7, MatrixStepsDo DEF GoneInv
  <2> QED
    BY <1>7, <2>1, MatrixStepGone
<1>8. ASSUME NEW h \in Handlers, BridgeSteps(h) PROVE GoneOK(u)'
  <2>1. GoneOK(u)
    BY <1>8, BridgeStepsDo DEF GoneInv
  <2> QED
    BY <1>8, <2>1, BridgeStepGone
<1>9. ASSUME NEW h \in Handlers, FailSteps(h) PROVE GoneOK(u)'
  <2>1. GoneOK(u)
    BY <1>9, FailStepsDo DEF GoneInv
  <2> QED
    BY <1>9, <2>1, FailStepGone
<1> QED
  BY <1>1, <1>2, <1>3, <1>4, <1>5, <1>6, <1>7, <1>8, <1>9, NextDoes

LEMMA GoneStart == Init /\ TypeInv => GoneInv /\ UsersAlone
<1> SUFFICES ASSUME Init, TypeInv PROVE GoneInv /\ UsersAlone
  OBVIOUS
<1>1. gone = {} /\ \A h \in Handlers : tasks[h].user = None
  BY DEF Init, Idle
<1>2. None \notin Folk
  BY WorldFacts DEF TypeInv
<1> QED
  BY <1>1, <1>2 DEF GoneInv, GoneOK, UsersAlone, UserAlone

\* At rest nothing is under way for a deleted user, so he has left; and a channel that is
\* not bridged has no one, as long as nothing drains it.
LEMMA RoomsCleanHolds == TypeInv /\ ChannelInv /\ GoneInv => RoomsClean
<1> SUFFICES ASSUME TypeInv, ChannelInv, GoneInv, Quiet, NEW c \in Channels, c \notin crossed
             PROVE  /\ c \in bridged => (ghostsIn[c] \cap gone) \subseteq crossed
                    /\ c \notin bridged => ghostsIn[c] = {}
  BY DEF RoomsClean
<1>1. /\ \A h \in Handlers : tasks[h].pc = "idle"
      /\ slackQueue = <<>> /\ toSync.users = {} /\ ghostsIn[c] \subseteq Folk
  BY DEF Quiet, AllIdle, At, NothingToSync, TypeInv, MatrixOK
<1>2. ASSUME c \in bridged, NEW u \in ghostsIn[c], u \in gone, u \notin crossed
      PROVE  FALSE
  <2>1. Leaving(u, c)
    BY <1>1, <1>2 DEF GoneInv, GoneOK
  <2>2. ~TellsDeleted(u) /\ ~ListedDeleted(u)
    BY <1>1 DEF TellsDeleted, ListedDeleted
  <2> QED
    BY <1>1, <2>1, <2>2 DEF Leaving, TakesOut, Deleting
<1>3. ASSUME c \notin bridged PROVE ghostsIn[c] = {}
  <2>1. \A h \in Handlers : Place(tasks[h]) # "drain"
    BY <1>1, TaskFacts, PlaceFacts
  <2> QED
    BY <1>3, <2>1 DEF ChannelInv, ChannelOK, UnbridgedOK, On
<1> QED
  BY <1>2, <1>3

\* At rest a channel that was unlinked has no ghosts left in its room, and a deleted user has
\* no ghost in a bridged one, but for those who failed to leave.
THEOREM RoomsAreClean == Spec => []RoomsClean
<1>1. Init => TypeInv /\ ChannelInv /\ RowsMade /\ LastTells /\ UsersAlone /\ GoneInv
  BY TypesStart, ChannelStart, TellsStart, GoneStart
<1>2. /\ TypeInv /\ ChannelInv /\ RowsMade /\ LastTells /\ UsersAlone /\ GoneInv
      /\ [Next]_vars
      => (TypeInv /\ ChannelInv /\ RowsMade /\ LastTells /\ UsersAlone /\ GoneInv)'
  BY TypesStep, ChannelStep, RowsStep, TellsStep, AloneStep, GoneStep
<1>3. TypeInv /\ ChannelInv /\ RowsMade /\ LastTells /\ UsersAlone /\ GoneInv => RoomsClean
  BY RoomsCleanHolds
<1> QED
  BY <1>1, <1>2, <1>3, PTL DEF Spec

-----------------------------------------------------------------------------
(* Members: who is in a channel again is to be brought back *)

Joined(i, u, c) ==
    slackQueue[i].type = "joined" /\ slackQueue[i].user = u /\ slackQueue[i].channel = c
Left(i, u, c) ==
    slackQueue[i].type = "left" /\ slackQueue[i].user = u /\ slackQueue[i].channel = c
Created(i, c) == slackQueue[i].type = "created" /\ slackQueue[i].channel = c

TellsJoined(u, c) == \E i \in 1..Len(slackQueue) : Joined(i, u, c)
TellsCreated(c) == \E i \in 1..Len(slackQueue) : Created(i, c)

\* From the ith event on: he is restored, and then he comes back.
BackAfter(i, u, c) ==
    \E j, k \in 1..Len(slackQueue) :
        /\ i <= j /\ j < k /\ Told(j, u) /\ ~slackQueue[j].flag
        /\ Joined(k, u, c) \/ Created(k, c)

LeftBack(u, c) ==
    \A i \in 1..Len(slackQueue) :
        Left(i, u, c) => \E j \in 1..Len(slackQueue) : i < j /\ Joined(j, u, c)
DeletedBack(u, c) ==
    \A i \in 1..Len(slackQueue) : Told(i, u) /\ slackQueue[i].flag => BackAfter(i, u, c)

\* A member, of those whose ghost is to be in the rooms.
Member(u, c) == u \in people[c] /\ Expected(u)

\* Whose leaving or deletion is still to be told has come back, and that is told after it.
QueueBack == \A u \in Folk, c \in Channels : Member(u, c) => LeftBack(u, c) /\ DeletedBack(u, c)

LEMMA AppendedKeeps ==
  ASSUME NEW type, NEW v, NEW d, NEW n, NEW f, Appended(type, v, d, n, f),
         NEW u, NEW c
  PROVE  /\ TellsJoined(u, c) => TellsJoined(u, c)'
         /\ TellsCreated(c) => TellsCreated(c)'
         /\ TellsRestored(u) => TellsRestored(u)'
         /\ \A i \in Int : BackAfter(i, u, c) => BackAfter(i, u, c)'
         /\ LeftBack(u, c) /\ ~(type = "left" /\ v = u /\ d = c) => LeftBack(u, c)'
         /\ DeletedBack(u, c) /\ ~(type = "user" /\ v = u /\ f) => DeletedBack(u, c)'
<1>0. PICK last \in Nat : last = Len(slackQueue) + 1
  BY DEF Appended
<1>1. /\ Len(slackQueue) \in Nat /\ Len(slackQueue') = last
      /\ \A i \in 1..Len(slackQueue) : slackQueue'[i] = slackQueue[i]
      /\ slackQueue'[last].type = type /\ slackQueue'[last].user = v
      /\ slackQueue'[last].channel = d /\ (slackQueue'[last].flag <=> f)
  BY <1>0 DEF Appended
<1>2. /\ \A i \in 1..Len(slackQueue) : i \in 1..Len(slackQueue')
      /\ \A i \in 1..Len(slackQueue') : i \in 1..Len(slackQueue) \/ i = last
  BY <1>0, <1>1
<1>3. /\ TellsJoined(u, c) => TellsJoined(u, c)'
      /\ TellsCreated(c) => TellsCreated(c)'
      /\ TellsRestored(u) => TellsRestored(u)'
  BY <1>1, <1>2 DEF TellsJoined, TellsCreated, TellsRestored, Joined, Created, Told
<1>4. ASSUME NEW i \in Int, BackAfter(i, u, c) PROVE BackAfter(i, u, c)'
  <2>1. PICK j, k \in 1..Len(slackQueue) :
           /\ i <= j /\ j < k /\ Told(j, u) /\ ~slackQueue[j].flag
           /\ Joined(k, u, c) \/ Created(k, c)
    BY <1>4 DEF BackAfter
  <2>2. j \in 1..Len(slackQueue') /\ k \in 1..Len(slackQueue')
    BY <1>2
  <2>3. Told(j, u)' /\ ~slackQueue'[j].flag /\ (Joined(k, u, c)' \/ Created(k, c)')
    BY <1>1, <2>1 DEF Told, Joined, Created
  <2> QED
    BY <2>1, <2>2, <2>3 DEF BackAfter
<1>5. ASSUME LeftBack(u, c), ~(type = "left" /\ v = u /\ d = c),
             NEW i \in 1..Len(slackQueue'), Left(i, u, c)'
      PROVE  \E j \in 1..Len(slackQueue') : i < j /\ Joined(j, u, c)'
  <2>1. i \in 1..Len(slackQueue) /\ Left(i, u, c)
    BY <1>1, <1>2, <1>5 DEF Left
  <2>2. PICK j \in 1..Len(slackQueue) : i < j /\ Joined(j, u, c)
    BY <1>5, <2>1 DEF LeftBack
  <2> QED
    BY <1>1, <1>2, <2>2 DEF Joined
<1>6. ASSUME DeletedBack(u, c), ~(type = "user" /\ v = u /\ f),
             NEW i \in 1..Len(slackQueue'), Told(i, u)', slackQueue'[i].flag
      PROVE  BackAfter(i, u, c)'
  <2>1. i \in 1..Len(slackQueue) /\ Told(i, u) /\ slackQueue[i].flag
    BY <1>1, <1>2, <1>6 DEF Told
  <2> QED
    BY <1>4, <1>6, <2>1 DEF DeletedBack
<1>7. LeftBack(u, c) /\ ~(type = "left" /\ v = u /\ d = c) => LeftBack(u, c)'
  BY <1>5 DEF LeftBack
<1>8. DeletedBack(u, c) /\ ~(type = "user" /\ v = u /\ f) => DeletedBack(u, c)'
  BY <1>6 DEF DeletedBack
<1> QED
  BY <1>3, <1>4, <1>7, <1>8

\* He joins, or is in a channel that is created: what was to be told comes before that.
LEMMA ComesBack ==
  ASSUME TypeInv, LastTells, NEW type, NEW v, NEW c, NEW n, NEW f, Appended(type, v, c, n, f),
         NEW u \in Folk, u \notin gone, u \notin gone',
         (type = "joined" /\ v = u) \/ type = "created"
  PROVE  /\ DeletedBack(u, c)' /\ (TellsRestored(u) => BackAfter(1, u, c)')
         /\ type = "joined" => LeftBack(u, c)' /\ TellsJoined(u, c)'
<1>0. PICK last \in Nat : last = Len(slackQueue) + 1
  BY DEF Appended
<1>1. /\ Len(slackQueue) \in Nat /\ Len(slackQueue') = last
      /\ \A i \in 1..Len(slackQueue) : slackQueue'[i] = slackQueue[i]
      /\ slackQueue'[last].type = type /\ slackQueue'[last].user = v
      /\ slackQueue'[last].channel = c
  BY <1>0 DEF Appended
<1>2. /\ \A i \in 1..Len(slackQueue) : i \in 1..Len(slackQueue') /\ i < last /\ 1 <= i
      /\ \A i \in 1..Len(slackQueue') : i \in 1..Len(slackQueue) \/ i = last
      /\ last \in 1..Len(slackQueue')
  BY <1>0, <1>1
<1>3. (Joined(last, u, c) \/ Created(last, c))'
  BY <1>1 DEF Joined, Created
<1>4. ASSUME NEW i \in 1..Len(slackQueue'), Told(i, u)', slackQueue'[i].flag
      PROVE  BackAfter(i, u, c)'
  <2>1. i \in 1..Len(slackQueue) /\ slackQueue[i].type = "user" /\ slackQueue[i].user = u
    BY <1>1, <1>2, <1>4 DEF Told
  <2>2. PICK j \in 1..Len(slackQueue) : i <= j /\ TellsNow(j, u)
    BY <2>1 DEF LastTells
  <2>3. Told(j, u)' /\ ~slackQueue'[j].flag
    BY <1>1, <2>2 DEF TellsNow, Told
  <2> QED
    BY <1>2, <1>3, <2>2, <2>3 DEF BackAfter
<1>5. TellsRestored(u) => BackAfter(1, u, c)'
  <2>1. SUFFICES ASSUME NEW j \in 1..Len(slackQueue), Told(j, u), ~slackQueue[j].flag
                 PROVE  BackAfter(1, u, c)'
    BY DEF TellsRestored
  <2>2. Told(j, u)' /\ ~slackQueue'[j].flag
    BY <1>1, <2>1 DEF Told
  <2> QED
    BY <1>2, <1>3, <2>2 DEF BackAfter
<1>6. ASSUME type = "joined" PROVE LeftBack(u, c)' /\ TellsJoined(u, c)'
  <2>1. Joined(last, u, c)'
    BY <1>1, <1>6 DEF Joined
  <2>2. \A i \in 1..Len(slackQueue') : Left(i, u, c)' => i < last
    BY <1>1, <1>2, <1>6 DEF Left
  <2> QED
    BY <1>2, <2>1, <2>2 DEF LeftBack, TellsJoined
<1> QED
  BY <1>4, <1>5, <1>6 DEF DeletedBack

LEMMA ShiftKeeps ==
  ASSUME TypeInv, Shifted, NEW u, NEW c
  PROVE  /\ TellsJoined(u, c) /\ ~Joined(1, u, c) => TellsJoined(u, c)'
         /\ TellsCreated(c) /\ ~Created(1, c) => TellsCreated(c)'
         /\ TellsRestored(u) /\ ~(Told(1, u) /\ ~slackQueue[1].flag) => TellsRestored(u)'
         /\ BackAfter(1, u, c) /\ ~(Told(1, u) /\ ~slackQueue[1].flag) => BackAfter(1, u, c)'
         /\ LeftBack(u, c) => LeftBack(u, c)'
         /\ DeletedBack(u, c) => DeletedBack(u, c)'
<1>0. PICK p \in [1..Len(slackQueue) -> Int] : \A i \in 1..Len(slackQueue) : p[i] = i - 1
  <2> DEFINE p == [i \in 1..Len(slackQueue) |-> i - 1]
  <2> p \in [1..Len(slackQueue) -> Int] /\ \A i \in 1..Len(slackQueue) : p[i] = i - 1
    OBVIOUS
  <2> QED
    OBVIOUS
<1>1. /\ \A i \in 1..Len(slackQueue) :
            i # 1 => p[i] \in 1..Len(slackQueue') /\ slackQueue'[p[i]] = slackQueue[i]
      /\ \A i, j \in 1..Len(slackQueue) : i < j => p[i] < p[j] /\ j # 1
      /\ \A i \in Int, j \in 1..Len(slackQueue) : i + 1 <= j => i <= p[j]
      /\ \A i \in Int, j \in 1..Len(slackQueue) : i + 1 < j => i < p[j]
  BY <1>0 DEF Shifted
<1>2. ASSUME NEW i \in 1..Len(slackQueue), i # 1, NEW d
      PROVE  /\ Joined(i, u, d) <=> Joined(p[i], u, d)'
             /\ Created(i, d) <=> Created(p[i], d)'
             /\ Told(i, u) <=> Told(p[i], u)'
             /\ slackQueue[i].flag <=> slackQueue'[p[i]].flag
  BY <1>1, <1>2 DEF Joined, Created, Told
<1>3. TellsJoined(u, c) /\ ~Joined(1, u, c) => TellsJoined(u, c)'
  BY <1>1, <1>2 DEF TellsJoined
<1>4. TellsCreated(c) /\ ~Created(1, c) => TellsCreated(c)'
  BY <1>1, <1>2 DEF TellsCreated
<1>5. TellsRestored(u) /\ ~(Told(1, u) /\ ~slackQueue[1].flag) => TellsRestored(u)'
  BY <1>1, <1>2 DEF TellsRestored
<1>6. ASSUME NEW i \in Int, NEW j \in 1..Len(slackQueue), NEW k \in 1..Len(slackQueue),
             j # 1, i <= p[j], j < k, Told(j, u), ~slackQueue[j].flag,
             Joined(k, u, c) \/ Created(k, c)
      PROVE  BackAfter(i, u, c)'
  <2>1. p[j] \in 1..Len(slackQueue') /\ p[k] \in 1..Len(slackQueue') /\ p[j] < p[k] /\ k # 1
    BY <1>1, <1>6
  <2>2. Told(p[j], u)' /\ ~slackQueue'[p[j]].flag /\ (Joined(p[k], u, c)' \/ Created(p[k], c)')
    BY <1>2, <1>6, <2>1
  <2> QED
    BY <1>6, <2>1, <2>2 DEF BackAfter
<1>7. ASSUME BackAfter(1, u, c), ~(Told(1, u) /\ ~slackQueue[1].flag) PROVE BackAfter(1, u, c)'
  <2>1. PICK j, k \in 1..Len(slackQueue) :
           /\ 1 <= j /\ j < k /\ Told(j, u) /\ ~slackQueue[j].flag
           /\ Joined(k, u, c) \/ Created(k, c)
    BY <1>7 DEF BackAfter
  <2>2. j # 1
    BY <1>7, <2>1
  <2>3. 1 <= p[j]
    BY <1>1, <2>2
  <2> QED
    BY <1>6, <2>1, <2>2, <2>3
<1>8. ASSUME DeletedBack(u, c), NEW i \in 1..Len(slackQueue'), Told(i, u)', slackQueue'[i].flag
      PROVE  BackAfter(i, u, c)'
  <2>1. i + 1 \in 1..Len(slackQueue) /\ slackQueue'[i] = slackQueue[i + 1] /\ i \in Int
    BY DEF Shifted
  <2>2. BackAfter(i + 1, u, c)
    BY <1>8, <2>1 DEF DeletedBack, Told
  <2>3. PICK j, k \in 1..Len(slackQueue) :
           /\ i + 1 <= j /\ j < k /\ Told(j, u) /\ ~slackQueue[j].flag
           /\ Joined(k, u, c) \/ Created(k, c)
    BY <2>2 DEF BackAfter
  <2>4. i <= p[j] /\ j # 1
    BY <1>1, <2>3
  <2> QED
    BY <1>6, <2>1, <2>3, <2>4
<1>9. ASSUME LeftBack(u, c), NEW i \in 1..Len(slackQueue'), Left(i, u, c)'
      PROVE  \E j \in 1..Len(slackQueue') : i < j /\ Joined(j, u, c)'
  <2>1. i + 1 \in 1..Len(slackQueue) /\ slackQueue'[i] = slackQueue[i + 1] /\ i \in Int
    BY DEF Shifted
  <2>2. PICK j \in 1..Len(slackQueue) : i + 1 < j /\ Joined(j, u, c)
    BY <1>9, <2>1 DEF LeftBack, Left
  <2>3. j # 1 /\ i < p[j] /\ p[j] \in 1..Len(slackQueue')
    BY <1>1, <2>1, <2>2
  <2> QED
    BY <1>2, <2>2, <2>3
<1>10. (DeletedBack(u, c) => DeletedBack(u, c)') /\ (LeftBack(u, c) => LeftBack(u, c)')
  BY <1>8, <1>9 DEF DeletedBack, LeftBack
<1> QED
  BY <1>3, <1>4, <1>5, <1>7, <1>10

\* He was a member before, and what is said now is not that he has left or was deleted.
Stays(u, c) ==
    /\ Member(u, c)
    /\ \/ slackQueue' = slackQueue
       \/ \E type, v, d, n, f :
             /\ Appended(type, v, d, n, f)
             /\ ~(type = "left" /\ v = u /\ d = c) /\ ~(type = "user" /\ v = u /\ f)

\* He has joined the channel, or it is created with him.
Comes(u, c) ==
    /\ u \notin gone /\ u \notin gone'
    /\ \E type, v, n, f :
          /\ Appended(type, v, c, n, f)
          /\ (type = "joined" /\ v = u) \/ (type = "created" /\ c \notin Channel)

LEMMA SaysOf ==
  ASSUME TypeInv, NEW type, NEW v, NEW d, NEW n, NEW f \in BOOLEAN,
         Sent(Event(type, v, d, n, f)), NEW u, NEW c
  PROVE  /\ /\ Member(u, c)
            /\ ~(type = "left" /\ v = u /\ d = c) /\ ~(type = "user" /\ v = u /\ f)
            => Stays(u, c)
         /\ /\ u \notin gone /\ u \notin gone' /\ d = c
            /\ (type = "joined" /\ v = u) \/ (type = "created" /\ c \notin Channel)
            => Comes(u, c)
<1>1. Appended(type, v, d, n, f) \/ (type \notin SupportedEvents /\ slackQueue' = slackQueue)
  BY SentDoes
<1>2. "joined" \in SupportedEvents /\ "created" \in SupportedEvents
  BY DEF SupportedEvents
<1>3. ASSUME Member(u, c), ~(type = "left" /\ v = u /\ d = c), ~(type = "user" /\ v = u /\ f)
      PROVE  Stays(u, c)
  <2>1. CASE slackQueue' = slackQueue
    BY <1>3, <2>1 DEF Stays
  <2>2. CASE Appended(type, v, d, n, f)
    BY <1>3, <2>2 DEF Stays
  <2> QED
    BY <1>1, <2>1, <2>2
<1>4. ASSUME u \notin gone, u \notin gone', d = c,
             (type = "joined" /\ v = u) \/ (type = "created" /\ c \notin Channel)
      PROVE  Comes(u, c)
  <2>1. Appended(type, v, c, n, f)
    BY <1>1, <1>2, <1>4
  <2> QED
    BY <1>4, <2>1 DEF Comes
<1> QED
  BY <1>3, <1>4

LEMMA SaysPlain ==
  ASSUME TypeInv, NEW type, NEW v, NEW d, NEW n, Sent(Event(type, v, d, n, FALSE)),
         NEW u, NEW c, Member(u, c), type # "left"
  PROVE  Stays(u, c)
<1>1. PICK f \in BOOLEAN : f = FALSE
  OBVIOUS
<1>2. Sent(Event(type, v, d, n, f)) /\ ~f
  BY <1>1
<1> QED
  BY <1>2, SaysOf

LEMMA OutsideMembers ==
  ASSUME TypeInv, Outside, ~Restart, NEW u \in Folk, NEW c \in Channels, Member(u, c)'
  PROVE  Stays(u, c) \/ Comes(u, c)
<1>0. /\ people \in [Channels -> SUBSET Folk] /\ world' = world
      /\ u \in people'[c] /\ Expected(u) /\ (Member(u, c) <=> u \in people[c])
      /\ TRUE \in BOOLEAN /\ FALSE \in BOOLEAN
      /\ world.channels \subseteq Channels /\ open \subseteq Channels
  BY OutsideDoes, WorldFacts DEF TypeInv, SlackOK, Member, Expected, Puppet
<1>1. CASE SlackUserJoins
  <2>1. PICK v \in Alive, d \in open, asked \in BOOLEAN :
            /\ people' = [people EXCEPT ![d] = @ \cup {v}] /\ UNCHANGED gone
            /\ Sent(Event("joined", v, d, None, asked))
    BY <1>1 DEF SlackUserJoins
  <2>2. u \in people[c] \/ (v = u /\ d = c)
    BY <1>0, <2>1
  <2> QED
    BY <1>0, <2>1, <2>2, SaysOf DEF Alive
<1>2. CASE SlackUserLeaves
  <2>1. PICK d \in open : \E v \in people[d] :
            /\ people' = [people EXCEPT ![d] = @ \ {v}]
            /\ Sent(Event("left", v, d, None, FALSE))
    BY <1>2 DEF SlackUserLeaves
  <2>2. PICK v \in people[d] :
            /\ people' = [people EXCEPT ![d] = @ \ {v}]
            /\ Sent(Event("left", v, d, None, FALSE))
    BY <2>1
  <2>3. u \in people[c] /\ ~(v = u /\ d = c)
    BY <1>0, <2>2
  <2> QED
    BY <1>0, <2>2, <2>3, SaysOf
<1>3. CASE SlackUserRenamed
  <2>1. PICK v, n : Sent(Event("user", v, None, n, FALSE)) /\ people' = people
    BY <1>3 DEF SlackUserRenamed, slack
  <2>2. Member(u, c) /\ "user" # "left"
    BY <1>0, <2>1
  <2> QED
    BY <2>1, <2>2, SaysPlain
<1>4. CASE SlackUserDeleted
  <2>1. PICK v \in Alive :
            /\ people' = [d \in Channels |-> people[d] \ {v}]
            /\ Sent(Event("user", v, None, slackNames[v], TRUE))
    BY <1>4 DEF SlackUserDeleted
  <2>2. u \in people[c] /\ v # u
    BY <1>0, <2>1
  <2> QED
    BY <1>0, <2>1, <2>2, SaysOf
<1>5. CASE SlackUserRestored
  <2>1. PICK v, n : Sent(Event("user", v, None, n, FALSE)) /\ people' = people
    BY <1>5 DEF SlackUserRestored
  <2>2. Member(u, c) /\ "user" # "left"
    BY <1>0, <2>1
  <2> QED
    BY <2>1, <2>2, SaysPlain
<1>6. CASE ChannelCreated
  <2>1. PICK v \in Alive, d \in world.channels \ (open \cup closed) :
            /\ people' = [people EXCEPT ![d] = {v}] /\ UNCHANGED gone
            /\ Sent(Event("created", None, d, None, FALSE))
    BY <1>6 DEF ChannelCreated
  <2>2. u \in people[c] \/ (v = u /\ d = c)
    BY <1>0, <2>1
  <2>3. CASE v = u /\ d = c
    <3>1. u \notin gone /\ u \notin gone' /\ c \notin Channel
      BY <2>1, <2>3 DEF Alive, Channel
    <3>2. PICK f \in BOOLEAN : f = FALSE
      OBVIOUS
    <3>3. Sent(Event("created", None, d, None, f))
      BY <2>1, <3>2
    <3> QED
      BY <2>3, <3>1, <3>3, SaysOf
  <2>4. CASE ~(v = u /\ d = c)
    <3>1. Member(u, c) /\ "created" # "left"
      BY <1>0, <2>2, <2>4
    <3> QED
      BY <2>1, <3>1, SaysPlain
  <2> QED
    BY <2>3, <2>4
<1>7. CASE ChannelDeleted
  <2>1. PICK d : Sent(Event("deleted", None, d, None, FALSE)) /\ people' = people
    BY <1>7 DEF ChannelDeleted
  <2>2. Member(u, c) /\ "deleted" # "left"
    BY <1>0, <2>1
  <2> QED
    BY <2>1, <2>2, SaysPlain
<1>8. CASE SlackMessage
  <2>1. PICK v, d : Sent(Event("message", v, d, None, FALSE)) /\ people' = people
    BY <1>8 DEF SlackMessage, slack
  <2>2. Member(u, c) /\ "message" # "left"
    BY <1>0, <2>1
  <2> QED
    BY <2>1, <2>2, SaysPlain
<1>9. CASE MatrixUserMoves \/ BotMoved
  BY <1>0, <1>9 DEF MatrixUserMoves, BotMoved, slack, Stays
<1> QED
  BY <1>1, <1>2, <1>3, <1>4, <1>5, <1>6, <1>7, <1>8, <1>9 DEF Outside

\* A handler has no part in who is a member, but for the bot and puppets.
LEMMA HandlersMembers ==
  ASSUME TypeInv, NEW h \in Handlers,
         \/ Begins(h) \/ FolkSteps(h) \/ ChannelSteps(h) \/ MatrixSteps(h)
         \/ BridgeSteps(h) \/ FailSteps(h),
         NEW u \in Folk, NEW c \in Channels, Member(u, c)'
  PROVE  Member(u, c)
<1>0. /\ people \in [Channels -> SUBSET Folk] /\ u \in people'[c] /\ None \notin MatrixUsers
  BY WorldFacts DEF TypeInv, SlackOK, Member
<1>1. world' = world
  BY BeginsDoes, FolkStepsKeep, ChannelStepsDo, MatrixStepsDo, BridgeStepsDo, FailStepsDo
<1>2. Expected(u)
  BY <1>1 DEF Member, Expected, Puppet
<1>3. CASE people' = people
  BY <1>0, <1>2, <1>3 DEF Member
<1>4. CASE \E d \in Channels : people' = [people EXCEPT ![d] = @ \cup {Bot}]
  BY <1>0, <1>2, <1>4 DEF Member, Expected
<1>5. CASE Begins(h) \/ FolkSteps(h) \/ FailSteps(h)
  BY <1>3, <1>5, BeginsDoes, FolkStepsKeep, FailStepsDo DEF slack
<1>6. CASE ChannelSteps(h)
  <2>1. people' = people \/ \E d \in Channels : people' = [people EXCEPT ![d] = @ \cup {Bot}]
    BY <1>6, BridgeChannelDoes, EnsureBotDoes, ListGhostsDoes, ListMembersDoes,
       MoveMembersDoes, UnlinkDeletedDoes, DrainRoomDoes DEF ChannelSteps, slack
  <2> QED
    BY <1>3, <1>4, <2>1
<1>7. CASE MatrixSteps(h)
  <2>1. CASE PuppetJoins(h)
    <3>1. tasks[h].mx \in MatrixUsers /\ tasks[h].channel \in Channels
          /\ (people' = people \/ JoinsSlack(tasks[h].mx, tasks[h].channel))
      BY <2>1, PuppetJoinsDoes
    <3>2. CASE JoinsSlack(tasks[h].mx, tasks[h].channel)
      <4>1. PICK joining :
               /\ people' = [people EXCEPT ![tasks[h].channel] = @ \cup joining]
               /\ \A v \in joining : Puppet(v) = tasks[h].mx
        BY <3>2 DEF JoinsSlack
      <4>2. u \notin joining
        BY <1>0, <1>2, <3>1, <4>1 DEF Expected
      <4>3. u \in people[c]
        BY <1>0, <3>1, <4>1, <4>2
      <4> QED
        BY <1>2, <4>3 DEF Member
    <3> QED
      BY <1>3, <3>1, <3>2
  <2> QED
    BY <1>3, <1>7, <2>1, MatrixStepsDo
<1>8. CASE BridgeSteps(h)
  BY <1>3, <1>4, <1>8, BridgeStepsDo
<1> QED
  BY <1>5, <1>6, <1>7, <1>8

LEMMA JoinsAppended ==
  ASSUME TypeInv, NEW m, NEW c, JoinsSlack(m, c)
  PROVE  \E v, f : Appended("joined", v, c, None, f)
<1>1. PICK v \in world.folk \ gone : Sent(Event("joined", v, c, None, FALSE))
  BY DEF JoinsSlack
<1> QED
  BY <1>1, SentDoes DEF SupportedEvents

\* What handlers and the sync do to the queue: nothing, or to take the first, or to say that
\* a user has joined.
LEMMA HandlersQueue ==
  ASSUME TypeInv, NEW h \in Handlers,
         \/ Begins(h) \/ FolkSteps(h) \/ ChannelSteps(h) \/ MatrixSteps(h)
         \/ BridgeSteps(h) \/ FailSteps(h)
  PROVE  \/ slackQueue' = slackQueue
         \/ HandleSlack(h) /\ Shifted
         \/ \E v, d, n, f : Appended("joined", v, d, n, f)
<1>1. CASE Begins(h)
  BY <1>1, HandleSlackDoes, HandleMatrixDoes, SyncsUserDoes, SyncsChannelDoes, SyncsRoomDoes,
     TailShifts DEF Begins, queues
<1>2. CASE FolkSteps(h) \/ ChannelSteps(h) \/ BridgeSteps(h) \/ FailSteps(h)
  BY <1>2, FolkStepsKeep, ChannelStepsDo, BridgeStepsDo, FailStepsDo DEF queues
<1>3. CASE MatrixSteps(h)
  <2>1. CASE PuppetJoins(h)
    BY <2>1, PuppetJoinsDoes, JoinsAppended
  <2> QED
    BY <1>3, <2>1, MatrixStepsDo
<1> QED
  BY <1>1, <1>2, <1>3

LEMMA QueueBackStep == TypeInv /\ LastTells /\ QueueBack /\ [Next]_vars => QueueBack'
<1> SUFFICES ASSUME TypeInv, LastTells, QueueBack, [Next]_vars,
                    NEW u \in Folk, NEW c \in Channels, Member(u, c)'
             PROVE  (LeftBack(u, c) /\ DeletedBack(u, c))'
  BY DEF QueueBack
<1>1. CASE slackQueue' = slackQueue /\ Member(u, c)
  BY <1>1 DEF QueueBack, LeftBack, DeletedBack, BackAfter, Left, Joined, Created, Told
<1>2. CASE Outside /\ ~Restart
  <2>1. CASE Stays(u, c)
    <3>1. LeftBack(u, c) /\ DeletedBack(u, c)
      BY <2>1 DEF Stays, QueueBack
    <3> QED
      BY <1>1, <2>1, <3>1, AppendedKeeps DEF Stays
  <2>2. CASE Comes(u, c)
    <3>1. PICK type, v, n, f :
             /\ Appended(type, v, c, n, f)
             /\ (type = "joined" /\ v = u) \/ (type = "created" /\ c \notin Channel)
      BY <2>2 DEF Comes
    <3>2. DeletedBack(u, c)' /\ (type = "joined" => LeftBack(u, c)')
      BY <2>2, <3>1, ComesBack DEF Comes
    <3>3. ASSUME type = "created", c \notin Channel PROVE LeftBack(u, c)'
      <4>1. \A i \in 1..Len(slackQueue) : ~Left(i, u, c)
        BY <3>3 DEF TypeInv, SlackQueueOK, SlackEventOK, Left
      <4>2. LeftBack(u, c)
        BY <4>1 DEF LeftBack
      <4> QED
        BY <3>1, <3>3, <4>2, AppendedKeeps
    <3> QED
      BY <3>1, <3>2, <3>3
  <2> QED
    BY <1>2, <2>1, <2>2, OutsideMembers
<1>3. CASE Restart
  <2>1. slackQueue' \in {slackQueue, <<>>} /\ UNCHANGED <<world, people>>
    BY <1>3 DEF Restart, slack
  <2>2. Member(u, c)
    BY <2>1 DEF Member, Expected, Puppet
  <2>3. CASE slackQueue' = <<>>
    BY <2>3 DEF LeftBack, DeletedBack
  <2> QED
    BY <1>1, <2>1, <2>2, <2>3
<1>4. CASE ListChannels \/ Forgets \/ UNCHANGED vars
  <2>1. UNCHANGED <<world, people, slackQueue>>
    BY <1>4 DEF ListChannels, Forgets, vars, slack, queues
  <2>2. Member(u, c)
    BY <2>1 DEF Member, Expected, Puppet
  <2> QED
    BY <1>1, <2>1, <2>2
<1>5. ASSUME NEW h \in Handlers,
             \/ Begins(h) \/ FolkSteps(h) \/ ChannelSteps(h) \/ MatrixSteps(h)
             \/ BridgeSteps(h) \/ FailSteps(h)
      PROVE  (LeftBack(u, c) /\ DeletedBack(u, c))'
  <2>1. Member(u, c)
    BY <1>5, HandlersMembers
  <2>2. LeftBack(u, c) /\ DeletedBack(u, c)
    BY <2>1 DEF QueueBack
  <2>3. CASE Shifted
    BY <2>2, <2>3, ShiftKeeps
  <2>4. CASE \E v, d, n, f : Appended("joined", v, d, n, f)
    BY <2>2, <2>4, AppendedKeeps
  <2> QED
    BY <1>1, <1>5, <2>1, <2>3, <2>4, HandlersQueue
<1> QED
  BY <1>2, <1>3, <1>4, <1>5, NextDoes

ToBeDeleted(u) ==
    ListedDeleted(u) \/ \E h \in Handlers : tasks[h].user = u /\ Deleting(tasks[h])

\* His ghost is about to leave the room.
ToLeave(u, c) ==
    \E h \in Handlers :
        tasks[h].user = u /\ tasks[h].channel = c /\ Stage(tasks[h]) = "leave"

\* Who is there and is being deleted has been restored, and a member whose ghost is taken out
\* of the room has come back: the news of that are on their way.
RestoredOK(u) == u \notin gone /\ ToBeDeleted(u) => TellsRestored(u)
BackOK(u, c) ==
    Member(u, c) =>
        (ToBeDeleted(u) => BackAfter(1, u, c)) /\ (ToLeave(u, c) => TellsJoined(u, c))

ReturnOK(u) == RestoredOK(u) /\ \A c \in Channels : BackOK(u, c)
ReturnInv == \A u \in Folk : u \notin crossed => ReturnOK(u)

LEMMA OutsideReturn ==
  ASSUME TypeInv, LastTells, Outside, ~Restart, NEW u \in Folk, ReturnOK(u)
  PROVE  ReturnOK(u)'
<1>0. UNCHANGED <<tasks, toSync>>
  BY OutsideDoes DEF bridge
<1>1. ToBeDeleted(u)' <=> ToBeDeleted(u)
  BY <1>0 DEF ToBeDeleted, ListedDeleted, Deleting
<1>2. \A c : ToLeave(u, c)' <=> ToLeave(u, c)
  BY <1>0 DEF ToLeave, Stage
<1>3. ASSUME ToBeDeleted(u), u \notin gone' PROVE TellsRestored(u)'
  <2>1. CASE Quietly
    <3>1. TellsRestored(u)
      BY <1>3, <2>1 DEF Quietly, ReturnOK, RestoredOK
    <3> QED
      BY <2>1, <3>1 DEF Quietly, TellsRestored, Told
  <2>2. ASSUME NEW type, NEW v, NEW c, NEW n, NEW f, News(type, v, c, n, f)
        PROVE  TellsRestored(u)'
    <3>1. Appended(type, v, c, n, f)
      BY <2>2 DEF News
    <3>2. CASE u \notin gone
      <4>1. TellsRestored(u)
        BY <1>3, <3>2 DEF ReturnOK, RestoredOK
      <4> QED
        BY <3>1, <4>1, AppendedKeeps
    <3>3. CASE u \in gone
      <4>1. type = "user" /\ v = u /\ ~f
        BY <1>3, <2>2, <3>3 DEF News
      <4>2. PICK last \in Nat : last = Len(slackQueue) + 1
        BY <3>1 DEF Appended
      <4>3. last \in 1..Len(slackQueue') /\ Told(last, u)' /\ ~slackQueue'[last].flag
        BY <3>1, <4>1, <4>2 DEF Appended, Told
      <4> QED
        BY <4>3 DEF TellsRestored
    <3> QED
      BY <3>2, <3>3
  <2> QED
    BY <2>1, <2>2, OutsideNews
<1>4. RestoredOK(u)'
  BY <1>1, <1>3 DEF RestoredOK
<1>5. ASSUME NEW c \in Channels, Member(u, c)'
      PROVE  /\ ToBeDeleted(u) => BackAfter(1, u, c)'
             /\ ToLeave(u, c) => TellsJoined(u, c)'
  <2>1. CASE Stays(u, c)
    <3>1. (ToBeDeleted(u) => BackAfter(1, u, c)) /\ (ToLeave(u, c) => TellsJoined(u, c))
      BY <2>1 DEF Stays, ReturnOK, BackOK
    <3>2. CASE slackQueue' = slackQueue
      BY <3>1, <3>2 DEF BackAfter, TellsJoined, Joined, Created, Told
    <3>3. ASSUME NEW type, NEW v, NEW d, NEW n, NEW f, Appended(type, v, d, n, f)
          PROVE  /\ ToBeDeleted(u) => BackAfter(1, u, c)'
                 /\ ToLeave(u, c) => TellsJoined(u, c)'
      <4>1. PICK one \in Int : one = 1
        OBVIOUS
      <4>2. /\ BackAfter(one, u, c) => BackAfter(one, u, c)'
            /\ TellsJoined(u, c) => TellsJoined(u, c)'
        BY <3>3, AppendedKeeps
      <4> QED
        BY <3>1, <4>1, <4>2
    <3> QED
      BY <2>1, <3>2, <3>3 DEF Stays
  <2>2. CASE Comes(u, c)
    <3>1. PICK type, v, n, f :
             /\ Appended(type, v, c, n, f)
             /\ (type = "joined" /\ v = u) \/ (type = "created" /\ c \notin Channel)
      BY <2>2 DEF Comes
    <3>2. /\ TellsRestored(u) => BackAfter(1, u, c)'
          /\ type = "joined" => TellsJoined(u, c)'
      BY <2>2, <3>1, ComesBack DEF Comes
    <3>3. ToBeDeleted(u) => TellsRestored(u)
      BY <2>2 DEF Comes, ReturnOK, RestoredOK
    <3>4. ToLeave(u, c) => c \in Channel
      BY TaskFacts DEF ToLeave, TaskOK, InRoom
    <3> QED
      BY <3>1, <3>2, <3>3, <3>4
  <2> QED
    BY <1>5, <2>1, <2>2, OutsideMembers
<1>6. \A c \in Channels : BackOK(u, c)'
  BY <1>1, <1>2, <1>5 DEF BackOK
<1> QED
  BY <1>4, <1>6 DEF ReturnOK

\* A step that is not about the user.
LEMMA ReturnAside ==
  ASSUME NEW u \in Folk, ReturnOK(u), gone' = gone,
         ToBeDeleted(u)' => ToBeDeleted(u),
         \A c \in Channels : (Member(u, c)' => Member(u, c)) /\ (ToLeave(u, c)' => ToLeave(u, c)),
         TellsRestored(u) => TellsRestored(u)',
         \A c \in Channels : /\ BackAfter(1, u, c) => BackAfter(1, u, c)'
                             /\ TellsJoined(u, c) => TellsJoined(u, c)'
  PROVE  ReturnOK(u)'
<1>1. RestoredOK(u)'
  BY DEF ReturnOK, RestoredOK
<1>2. \A c \in Channels : BackOK(u, c)'
  BY DEF ReturnOK, BackOK
<1> QED
  BY <1>1, <1>2 DEF ReturnOK

LEMMA SameReturn ==
  ASSUME slackQueue' = slackQueue, NEW u
  PROVE  /\ TellsRestored(u) => TellsRestored(u)'
         /\ \A c \in Channels : /\ BackAfter(1, u, c) => BackAfter(1, u, c)'
                                /\ TellsJoined(u, c) => TellsJoined(u, c)'
  BY DEF TellsRestored, BackAfter, TellsJoined, Joined, Created, Told

LEMMA RestartReturn ==
  ASSUME TypeInv, Restart, NEW u \in Folk
  PROVE  ReturnOK(u)'
<1>1. /\ \A h \in Handlers : tasks'[h] = Idle
      /\ toSync'.users \subseteq {[user |-> v, name |-> slackNames[v], deleted |-> v \in gone] :
                                      v \in world.folk}
      /\ people' = people /\ gone' = gone
  BY DEF Restart, slack
<1>2. u # None /\ Idle.user = None
  BY WorldFacts DEF TypeInv, Idle
<1>3. ToBeDeleted(u)' => u \in gone
  <2>1. SUFFICES ASSUME NEW listed \in toSync'.users, listed.user = u, listed.deleted
                 PROVE  u \in gone
    BY <1>1, <1>2 DEF ToBeDeleted, ListedDeleted
  <2>2. PICK v \in world.folk :
           listed = [user |-> v, name |-> slackNames[v], deleted |-> v \in gone]
    BY <1>1
  <2>3. listed.user = v /\ listed.deleted = (v \in gone)
    BY <2>2
  <2> QED
    BY <2>1, <2>3
<1>4. \A c \in Channels : Member(u, c)' => u \notin gone
  BY <1>1 DEF Member, TypeInv, SlackOK
<1>5. \A c : ~ToLeave(u, c)'
  BY <1>1, <1>2 DEF ToLeave
<1> QED
  BY <1>1, <1>3, <1>4, <1>5 DEF ReturnOK, RestoredOK, BackOK

LEMMA SlackReturn ==
  ASSUME TypeInv, LastTells, QueueBack, NEW h \in Handlers, HandleSlack(h),
         NEW u \in Folk, ReturnOK(u), u \notin crossed'
  PROVE  ReturnOK(u)'
<1> DEFINE e == Head(slackQueue)
<1> DEFINE t == tasks'[h]
<1>1. /\ slackQueue # <<>> /\ slackQueue' = Tail(slackQueue) /\ Handles(h, e)
      /\ crossed' = crossed \cup CrossedBy(h, Users(e), e.channel) \cup Awaited(e)
      /\ UNCHANGED <<gone, toSync>>
  BY HandleSlackDoes DEF slack, bridge
<1>2. Turn(h) /\ tasks[h] = Idle
  BY BeginsDoes DEF Begins
<1>3. /\ t.user \in {None, e.user} \/ (Bridging(t) /\ t.pc = "askBot")
      /\ Deleting(t) => e.type = "user" /\ e.flag
      /\ Stage(t) = "leave" => e.type = "left" /\ t.channel = e.channel
  BY <1>1, <1>2, HandlesUser
<1>4. Shifted /\ e = slackQueue[1] /\ 1 \in 1..Len(slackQueue)
  BY <1>1, TailShifts
<1>5. u # None /\ Idle.user = None
  BY WorldFacts DEF TypeInv, Idle
<1>6. \A c \in Channels : Member(u, c)' => Member(u, c)
  BY HandlersMembers DEF Begins
<1> HIDE DEF e
<1>9. t.pc = "askBot" => ~Deleting(t) /\ Stage(t) # "leave"
  BY DEF Deleting, Stage
<1>7. CASE e.user # u
  <2>1. ToBeDeleted(u)' => ToBeDeleted(u)
    BY <1>1, <1>2, <1>3, <1>5, <1>7, <1>9 DEF ToBeDeleted, ListedDeleted, Turn
  <2>2. \A c \in Channels : ToLeave(u, c)' => ToLeave(u, c)
    BY <1>2, <1>3, <1>5, <1>7, <1>9 DEF ToLeave, Turn
  <2>3. ~Told(1, u) /\ \A c \in Channels : ~Joined(1, u, c)
    BY <1>4, <1>7 DEF Told, Joined
  <2>4. TellsRestored(u) => TellsRestored(u)'
    BY <1>4, <2>3, ShiftKeeps
  <2>5. \A c \in Channels : /\ BackAfter(1, u, c) => BackAfter(1, u, c)'
                            /\ TellsJoined(u, c) => TellsJoined(u, c)'
    BY <1>4, <2>3, ShiftKeeps
  <2> QED
    BY <1>1, <1>6, <2>1, <2>2, <2>4, <2>5, ReturnAside
<1>8. CASE e.user = u
  <2>1. \A listed \in toSync.users : listed.user # u
    BY <1>1, <1>8 DEF Awaited, Users
  <2>2. \A g \in Handlers \ {h} : tasks'[g].user # u
    <3>1. u \in Users(e) /\ u \notin CrossedBy(h, Users(e), e.channel)
      BY <1>1, <1>8 DEF Users
    <3> QED
      BY <1>2, <3>1, NotCrossedUser DEF Turn
  <2>3. ToBeDeleted(u)' => Told(1, u) /\ slackQueue[1].flag
    BY <1>1, <1>3, <1>4, <1>8, <2>1, <2>2 DEF ToBeDeleted, ListedDeleted, Told
  <2>4. \A c : ToLeave(u, c)' => Left(1, u, c)
    BY <1>3, <1>4, <1>8, <2>2 DEF ToLeave, Left
  <2>5. RestoredOK(u)'
    <3>1. SUFFICES ASSUME u \notin gone', ToBeDeleted(u)' PROVE TellsRestored(u)'
      BY DEF RestoredOK
    <3>2. Told(1, u) /\ slackQueue[1].flag /\ u \notin gone
      BY <1>1, <2>3, <3>1
    <3>3. PICK j \in 1..Len(slackQueue) : 1 <= j /\ TellsNow(j, u)
      BY <1>4, <3>2 DEF LastTells, Told
    <3>4. TellsRestored(u)
      BY <3>2, <3>3 DEF TellsNow, TellsRestored
    <3> QED
      BY <1>4, <3>2, <3>4, ShiftKeeps
  <2>6. ASSUME NEW c \in Channels, Member(u, c), ToBeDeleted(u)' PROVE BackAfter(1, u, c)'
    <3>1. Told(1, u) /\ slackQueue[1].flag
      BY <2>3, <2>6
    <3>2. BackAfter(1, u, c)
      BY <1>4, <2>6, <3>1 DEF QueueBack, DeletedBack
    <3> QED
      BY <1>4, <3>1, <3>2, ShiftKeeps
  <2>7. ASSUME NEW c \in Channels, Member(u, c), ToLeave(u, c)' PROVE TellsJoined(u, c)'
    <3>1. Left(1, u, c)
      BY <2>4, <2>7
    <3>2. TellsJoined(u, c)
      BY <1>4, <2>7, <3>1 DEF QueueBack, LeftBack, TellsJoined
    <3>3. ~Joined(1, u, c)
      BY <3>1 DEF Left, Joined
    <3> QED
      BY <1>4, <3>2, <3>3, ShiftKeeps
  <2> QED
    BY <1>6, <2>5, <2>6, <2>7 DEF ReturnOK, BackOK
<1> QED
  BY <1>7, <1>8

LEMMA ListedReturn ==
  ASSUME TypeInv, NEW h \in Handlers, SyncsUser(h), NEW u \in Folk, ReturnOK(u)
  PROVE  ReturnOK(u)'
<1>1. PICK listed \in toSync.users :
         /\ listed \in Listed /\ toSync'.users = toSync.users \ {listed}
         /\ Start(h, ListedTask(listed)) /\ UNCHANGED <<gone, slackQueue>>
  BY SyncsUserDoes DEF slack, queues
<1>2. Turn(h) /\ tasks[h] = Idle
  BY BeginsDoes DEF Begins
<1>3. tasks'[h] = ListedTask(listed)
  BY <1>1 DEF Start, TypeInv, TasksOK
<1>4. /\ tasks'[h].pc = "existing" /\ tasks'[h].user = listed.user
      /\ (tasks'[h].flag <=> listed.deleted)
  BY <1>1, <1>3, ListedTaskFacts
<1>5. \A c \in Channels : Member(u, c)' => Member(u, c)
  BY HandlersMembers DEF Begins
<1>6. ToBeDeleted(u)' => ToBeDeleted(u)
  BY <1>1, <1>2, <1>4 DEF ToBeDeleted, ListedDeleted, Deleting, Turn
<1>7. \A c \in Channels : ToLeave(u, c)' => ToLeave(u, c)
  BY <1>2, <1>4 DEF ToLeave, Stage, Turn
<1> QED
  BY <1>1, <1>5, <1>6, <1>7, SameReturn, ReturnAside

\* A handler comes to its user's deletion, or to his leaving a room, at its beginning only.
LEMMA FolkStepsStage ==
  ASSUME TypeInv, NEW h \in Handlers, FolkSteps(h), tasks'[h] # Idle
  PROVE  /\ Deleting(tasks'[h]) => Deleting(tasks[h])
         /\ Stage(tasks'[h]) = "leave" => Stage(tasks[h]) = "leave"
<1> USE DEF Deleting, Stage
<1>1. CASE LookGhost(h)
  BY <1>1, LookGhostDoes DEF Ways
<1>2. CASE GetGhost(h)
  BY <1>2, GetGhostDoes DEF Ways
<1>3. CASE GhostJoins(h) \/ BotInvites(h) \/ GhostLeaves(h) \/ SendMessage(h) \/ LeaveRooms(h)
  BY <1>3, GhostJoinsDoes, BotInvitesDoes, GhostLeavesDoes, SendMessageDoes, LeaveRoomsDoes
<1>4. CASE LookUpdate(h)
  BY <1>4, LookUpdateDoes
<1>5. CASE AskSlack(h)
  BY <1>5, AskSlackDoes
<1>6. CASE WriteProfile(h)
  BY <1>6, WriteProfileDoes
<1>7. CASE SaveName(h)
  BY <1>7, SaveNameDoes
<1>8. CASE FindExisting(h)
  BY <1>8, FindExistingDoes
<1>9. CASE UpdateUser(h)
  BY <1>9, UpdateUserDoes
<1>10. CASE HideUser(h)
  BY <1>10, HideUserDoes
<1>11. CASE ListRooms(h)
  BY <1>11, ListRoomsDoes
<1> QED
  BY <1>1, <1>2, <1>3, <1>4, <1>5, <1>6, <1>7, <1>8, <1>9, <1>10, <1>11
     DEF FolkSteps, LookSteps

LEMMA FolkReturn ==
  ASSUME TypeInv, NEW h \in Handlers, FolkSteps(h), NEW u \in Folk, ReturnOK(u)
  PROVE  ReturnOK(u)'
<1>1. /\ Turn(h)
      /\ tasks'[h] = Idle \/ (/\ tasks'[h].user = tasks[h].user
                              /\ tasks'[h].channel = tasks[h].channel)
  BY FolkStepsDo, ContinuedFacts
<1>2. UNCHANGED <<gone, toSync, slackQueue>>
  BY FolkStepsKeep DEF slack, queues, bridge
<1>3. u # None /\ Idle.user = None
  BY WorldFacts DEF TypeInv, Idle
<1>4. \A c \in Channels : Member(u, c)' => Member(u, c)
  BY HandlersMembers
<1>5. ToBeDeleted(u)' => ToBeDeleted(u)
  BY <1>1, <1>2, <1>3, FolkStepsStage DEF ToBeDeleted, ListedDeleted, Turn
<1>6. \A c \in Channels : ToLeave(u, c)' => ToLeave(u, c)
  BY <1>1, <1>3, FolkStepsStage DEF ToLeave, Turn
<1> QED
  BY <1>2, <1>4, <1>5, <1>6, SameReturn, ReturnAside

LEMMA NobodyReturns ==
  ASSUME TypeInv, NEW h \in Handlers, Turn(h),
         tasks'[h].user = None \/ (~Deleting(tasks'[h]) /\ Stage(tasks'[h]) # "leave"),
         toSync'.users = toSync.users, gone' = gone,
         \/ Begins(h) \/ ChannelSteps(h) \/ MatrixSteps(h) \/ BridgeSteps(h) \/ FailSteps(h),
         slackQueue' = slackQueue \/ \E v, d, n, f : Appended("joined", v, d, n, f),
         NEW u \in Folk, ReturnOK(u)
  PROVE  ReturnOK(u)'
<1>1. u # None
  BY WorldFacts DEF TypeInv
<1>2. \A c \in Channels : Member(u, c)' => Member(u, c)
  BY HandlersMembers
<1>3. ToBeDeleted(u)' => ToBeDeleted(u)
  BY <1>1 DEF ToBeDeleted, ListedDeleted, Turn
<1>4. \A c \in Channels : ToLeave(u, c)' => ToLeave(u, c)
  BY <1>1 DEF ToLeave, Turn
<1>5. CASE slackQueue' = slackQueue
  BY <1>2, <1>3, <1>4, <1>5, SameReturn, ReturnAside
<1>6. CASE \E v, d, n, f : Appended("joined", v, d, n, f)
  <2>1. PICK one \in Int : one = 1
    OBVIOUS
  <2>2. \A c \in Channels : /\ BackAfter(one, u, c) => BackAfter(one, u, c)'
                            /\ TellsJoined(u, c) => TellsJoined(u, c)'
    BY <1>6, AppendedKeeps
  <2>3. TellsRestored(u) => TellsRestored(u)'
    BY <1>6, AppendedKeeps
  <2> QED
    BY <1>2, <1>3, <1>4, <2>1, <2>2, <2>3, ReturnAside
<1> QED
  BY <1>5, <1>6

LEMMA ReturnStep ==
    TypeInv /\ LastTells /\ QueueBack /\ ReturnInv /\ [Next]_vars => ReturnInv'
<1> SUFFICES ASSUME TypeInv, LastTells, QueueBack, ReturnInv, [Next]_vars,
                    NEW u \in Folk, u \notin crossed'
             PROVE  ReturnOK(u)'
  BY DEF ReturnInv
<1>1. CASE Outside /\ ~Restart
  BY <1>1, OutsideDoes, OutsideReturn DEF ReturnInv
<1>2. CASE Restart
  BY <1>2, RestartReturn
<1>3. CASE ListChannels \/ Forgets \/ UNCHANGED vars
  <2>1. /\ UNCHANGED <<world, people, gone, slackQueue, tasks, crossed>>
        /\ toSync'.users = toSync.users
    BY <1>3 DEF ListChannels, Forgets, vars, slack, queues, bridge, TypeInv, ToSyncOK
  <2>2. /\ ToBeDeleted(u)' => ToBeDeleted(u)
        /\ \A c : (Member(u, c)' => Member(u, c)) /\ (ToLeave(u, c)' => ToLeave(u, c))
    BY <2>1 DEF ToBeDeleted, ListedDeleted, Deleting, Member, Expected, Puppet, ToLeave, Stage
  <2>3. ReturnOK(u)
    BY <2>1 DEF ReturnInv
  <2> QED
    BY <2>1, <2>2, <2>3, SameReturn, ReturnAside
<1>4. ASSUME NEW h \in Handlers, Begins(h) PROVE ReturnOK(u)'
  <2>1. ReturnOK(u) /\ Turn(h) /\ tasks[h] = Idle /\ gone' = gone
    BY <1>4, BeginsDoes DEF ReturnInv, slack
  <2>2. CASE HandleSlack(h)
    BY <2>1, <2>2, SlackReturn
  <2>3. CASE SyncsUser(h)
    BY <2>1, <2>3, ListedReturn
  <2>4. CASE HandleMatrix(h) \/ SyncsChannel(h) \/ SyncsRoom(h)
    <3>1. /\ slackQueue' = slackQueue /\ toSync'.users = toSync.users
          /\ tasks'[h].user = None \/ tasks'[h].pc = "askBot"
      BY <1>4, <2>4, NobodyBegins, BeginsDoes DEF Begun
    <3>2. tasks'[h].pc = "askBot" => ~Deleting(tasks'[h]) /\ Stage(tasks'[h]) # "leave"
      BY DEF Deleting, Stage
    <3> QED
      BY <1>4, <2>1, <3>1, <3>2, NobodyReturns
  <2> QED
    BY <1>4, <2>2, <2>3, <2>4 DEF Begins
<1>5. ASSUME NEW h \in Handlers, FolkSteps(h) PROVE ReturnOK(u)'
  BY <1>5, FolkStepsKeep, FolkReturn DEF ReturnInv
<1>6. ASSUME NEW h \in Handlers,
             ChannelSteps(h) \/ MatrixSteps(h) \/ BridgeSteps(h) \/ FailSteps(h)
      PROVE  ReturnOK(u)'
  <2>1. /\ Turn(h) /\ gone' = gone /\ toSync'.users = toSync.users /\ crossed \subseteq crossed'
        /\ \/ tasks'[h].user = None
           \/ Bridging(tasks'[h]) /\ tasks'[h].pc \in {"get", "make", "bridge"}
    <3>1. CASE ChannelSteps(h)
      BY <3>1, ChannelStepsDo DEF Idle
    <3>2. CASE MatrixSteps(h)
      BY <3>2, MatrixStepsDo, ContinuedFacts DEF Idle
    <3>3. CASE BridgeSteps(h)
      BY <3>3, BridgeStepsDo DEF bridge
    <3>4. CASE FailSteps(h)
      BY <3>4, FailStepsDo DEF Idle, slack, bridge
    <3> QED
      BY <1>6, <3>1, <3>2, <3>3, <3>4
  <2>2. /\ tasks'[h].user = None \/ (~Deleting(tasks'[h]) /\ Stage(tasks'[h]) # "leave")
        /\ ReturnOK(u)
    BY <2>1 DEF ReturnInv, Bridging, Deleting, Stage
  <2>3. slackQueue' = slackQueue \/ \E v, d, n, f : Appended("joined", v, d, n, f)
    <3>1. ~HandleSlack(h) \/ tasks[h] = Idle
      BY BeginsDoes DEF Begins
    <3>2. tasks[h].pc \in OfChannel \cup OfMatrix \cup Calls \cup {"get", "save"}
      <4>1. ChannelSteps(h) \/ MatrixSteps(h) => tasks[h].pc \in OfChannel \cup OfMatrix
        BY ChannelStepsDo, MatrixStepsDo
      <4>2. BridgeSteps(h) => tasks[h].pc \in OfChannel \cup Calls \cup {"get"}
        BY BridgeStepsDo DEF OfChannel, Calls
      <4>3. FailSteps(h) => tasks[h].pc \in Calls \cup {"save"}
        BY FailStepsDo
      <4> QED
        BY <1>6, <4>1, <4>2, <4>3
    <3>3. ~HandleSlack(h)
      BY <3>1, <3>2 DEF Idle, OfChannel, OfMatrix, Calls
    <3> QED
      BY <1>6, <3>3, HandlersQueue
  <2> QED
    BY <1>6, <2>1, <2>2, <2>3, NobodyReturns
<1> QED
  BY <1>1, <1>2, <1>3, <1>4, <1>5, <1>6, NextDoes

\* A handler that will bring the ghost into the room, or has still to look who is there.
BringsIn(t, u, c) ==
    /\ t.channel = c
    /\ \/ Stage(t) = "join" /\ t.user = u
       \/ t.pc \in {"ensureBot", "listGhosts"}
       \/ t.pc = "listMembers" /\ u \notin t.folk
       \/ t.pc = "move" /\ u \in t.folk

BroughtIn(u, c) == \E h \in Handlers : BringsIn(tasks[h], u, c)

Coming(u, c) == u \in ghostsIn[c] \/ TellsJoined(u, c) \/ TellsCreated(c) \/ BroughtIn(u, c)

\* A member whose joining the bridge has taken up is in the room, or on his way.
ComingInv ==
    \A u \in Folk, c \in Channels :
        <<u, c>> \in due /\ u \notin crossed /\ c \notin crossed => c \in bridged /\ Coming(u, c)

LEMMA OthersBring ==
  ASSUME NEW h \in Handlers, Turn(h), NEW u, NEW c,
         BringsIn(tasks[h], u, c) => BroughtIn(u, c)' \/ u \in ghostsIn'[c]
  PROVE  BroughtIn(u, c) => BroughtIn(u, c)' \/ u \in ghostsIn'[c]
  BY DEF BroughtIn, BringsIn, Turn, Stage

\* What is not about members leaves who is coming alone.
LEMMA ComingAside ==
  ASSUME NEW u \in Folk, NEW c \in Channels, Coming(u, c),
         u \in ghostsIn[c] => u \in ghostsIn'[c],
         BroughtIn(u, c) => BroughtIn(u, c)' \/ u \in ghostsIn'[c],
         \/ slackQueue' = slackQueue
         \/ \E type, v, d, n, f : Appended(type, v, d, n, f)
  PROVE  Coming(u, c)'
<1>1. CASE slackQueue' = slackQueue
  BY <1>1 DEF Coming, TellsJoined, TellsCreated, Joined, Created
<1>2. CASE \E type, v, d, n, f : Appended(type, v, d, n, f)
  <2>1. (TellsJoined(u, c) => TellsJoined(u, c)') /\ (TellsCreated(c) => TellsCreated(c)')
    BY <1>2, AppendedKeeps
  <2> QED
    BY <2>1 DEF Coming
<1> QED
  BY <1>1, <1>2

LEMMA OutsideComing ==
  ASSUME TypeInv, Outside, ~Restart, NEW u \in Folk, NEW c \in Channels, Coming(u, c)
  PROVE  Coming(u, c)'
<1>1. UNCHANGED <<tasks, ghostsIn>>
  BY OutsideDoes
<1>2. BroughtIn(u, c) => BroughtIn(u, c)'
  BY <1>1 DEF BroughtIn, BringsIn, Stage
<1>3. slackQueue' = slackQueue \/ \E type, v, d, n, f : Appended(type, v, d, n, f)
  BY OutsideNews DEF Quietly, News
<1> QED
  BY <1>1, <1>2, <1>3, ComingAside

LEMMA RestartComing ==
  ASSUME TypeInv, Restart, NEW u \in Folk, NEW c \in Channels, c \notin crossed', StoredOK(c),
         Coming(u, c)
  PROVE  Coming(u, c)' /\ (c \in bridged => c \in bridged')
<1>1. /\ \A h \in Handlers : tasks[h].channel # c
      /\ \A type : Sends(type, c)' <=> Sends(type, c)
      /\ UNCHANGED ghostsIn /\ slackQueue' \in {slackQueue, <<>>}
      /\ c \in bridged => c \in bridged'
  BY RestartDoes
<1>2. ~BroughtIn(u, c)
  BY <1>1 DEF BroughtIn, BringsIn
<1>3. ASSUME NEW type, Sends(type, c) PROVE slackQueue' = slackQueue
  <2>1. Sends(type, c)'
    BY <1>1, <1>3
  <2>2. slackQueue' # <<>>
    BY <2>1 DEF Sends
  <2> QED
    BY <1>1, <2>2
<1>4. TellsJoined(u, c) \/ TellsCreated(c) => slackQueue' = slackQueue
  BY <1>3 DEF TellsJoined, TellsCreated, Joined, Created, Sends
<1> QED
  BY <1>1, <1>2, <1>4 DEF Coming, TellsJoined, TellsCreated, Joined, Created

\* Handlers that begin with something else.
LEMMA BeginsComing ==
  ASSUME TypeInv, NEW h \in Handlers, Begins(h), ~HandleSlack(h),
         NEW u \in Folk, NEW c \in Channels, Coming(u, c)
  PROVE  Coming(u, c)'
<1>1. Turn(h) /\ tasks[h] = Idle /\ UNCHANGED ghostsIn
  BY BeginsDoes DEF matrix
<1>2. slackQueue' = slackQueue
  BY HandleMatrixDoes, SyncsUserDoes, SyncsChannelDoes, SyncsRoomDoes DEF Begins, queues
<1>3. c # None
  BY WorldFacts DEF TypeInv
<1>4. ~BringsIn(tasks[h], u, c)
  BY <1>1, <1>3 DEF BringsIn, Idle
<1> QED
  BY <1>1, <1>2, <1>4, OthersBring, ComingAside

LEMMA MatrixComing ==
  ASSUME TypeInv, NEW h \in Handlers, MatrixSteps(h),
         NEW u \in Folk, NEW c \in Channels, Coming(u, c)
  PROVE  Coming(u, c)'
<1>1. /\ Turn(h) /\ tasks[h].pc \in OfMatrix /\ UNCHANGED ghostsIn
      /\ PuppetJoins(h) \/ UNCHANGED slackQueue
  BY MatrixStepsDo
<1>2. slackQueue' = slackQueue \/ \E type, v, d, n, f : Appended(type, v, d, n, f)
  <2>1. CASE PuppetJoins(h)
    BY <2>1, PuppetJoinsDoes, JoinsAppended
  <2> QED
    BY <1>1, <2>1
<1>3. ~BringsIn(tasks[h], u, c)
  BY <1>1 DEF BringsIn, OfMatrix, Stage
<1> QED
  BY <1>1, <1>2, <1>3, OthersBring, ComingAside

LEMMA BridgeComing ==
  ASSUME TypeInv, NEW h \in Handlers, BridgeSteps(h),
         NEW u \in Folk, NEW c \in Channels, Coming(u, c)
  PROVE  Coming(u, c)'
<1>1. /\ Turn(h) /\ tasks[h].pc \in {"askBot", "get", "make"} /\ Bridging(tasks[h])
      /\ UNCHANGED <<ghostsIn, slackQueue>>
  BY BridgeStepsDo DEF matrix, queues
<1>2. ~BringsIn(tasks[h], u, c)
  BY <1>1 DEF BringsIn, Bridging, Stage
<1> QED
  BY <1>1, <1>2, OthersBring, ComingAside

\* Who is no longer to be brought in by a call that failed is not due.
LEMMA FailComing ==
  ASSUME TypeInv, NEW h \in Handlers, FailSteps(h),
         NEW u \in Folk, NEW c \in Channels, <<u, c>> \in due', Coming(u, c)
  PROVE  Coming(u, c)'
<1> DEFINE s == tasks[h]
<1>1. /\ Turn(h) /\ s.pc \in Calls \cup {"save"} /\ UNCHANGED <<ghostsIn, slackQueue>>
      /\ s.pc \in Calls => due' = {d \in due : ~Joining(s, d)}
  BY FailStepsDo DEF matrix, slack, queues
<1>2. CASE s.pc = "save"
  <2>1. ~BringsIn(s, u, c)
    BY <1>2 DEF BringsIn, Stage
  <2> QED
    BY <1>1, <2>1, OthersBring, ComingAside
<1>3. CASE s.pc \in Calls
  <2>1. ~Joining(s, <<u, c>>)
    BY <1>1, <1>3
  <2>2. ASSUME BringsIn(s, u, c) PROVE u \in ghostsIn[c]
    <3>1. CASE Stage(s) = "join"
      BY <2>1, <2>2, <3>1 DEF BringsIn, Joining, Stage
    <3>2. CASE s.pc \in {"listGhosts", "listMembers"}
      BY <2>1, <2>2, <3>2 DEF BringsIn, Joining
    <3> QED
      BY <1>3, <2>2, <3>1, <3>2 DEF BringsIn, Calls
  <2> QED
    BY <1>1, <2>2, OthersBring, ComingAside
<1> QED
  BY <1>1, <1>2, <1>3

\* The event of his joining, or of the channel's creation, is taken up.
LEMMA SlackComing ==
  ASSUME TypeInv, NEW h \in Handlers, HandleSlack(h), NEW u \in Folk, NEW c \in Channels,
         ChannelOK(c), <<u, c>> \in due', <<u, c>> \in due => c \in bridged /\ Coming(u, c)
  PROVE  c \in bridged' /\ Coming(u, c)'
<1> DEFINE e == Head(slackQueue)
<1>0. /\ tasks \in [Handlers -> Tasks] /\ c # None /\ u # None
      /\ <<u, c>> \in due => u \in people[c] /\ c \in open /\ Expected(u)
  BY WorldFacts DEF TypeInv, TasksOK, HistoryOK
<1>1. /\ slackQueue # <<>> /\ slackQueue' = Tail(slackQueue)
      /\ \/ due' = due
         \/ /\ e.type = "joined" /\ e.channel \in bridged \cap open
            /\ Expected(e.user) /\ due' = due \cup {<<e.user, e.channel>>}
      /\ e.type = "joined" /\ e.channel \in bridged /\ Expected(e.user) =>
             Start(h, RoomTask(e.user, e.channel, "join"))
      /\ e.type = "created" /\ e.channel \in open => Start(h, SyncChannel(e.channel))
  BY HandleSlackDoes
<1>2. Turn(h) /\ tasks[h] = Idle /\ UNCHANGED <<ghostsIn, bridged>>
  BY BeginsDoes DEF Begins, matrix
<1>3. Shifted /\ e = slackQueue[1] /\ 1 \in 1..Len(slackQueue)
  BY <1>1, TailShifts
<1>4. e.type = "created" => e.channel \notin world.linked
  BY <1>1, HeadFacts DEF SlackEventOK
<1> HIDE DEF e
<1>7. c \in bridged'
  BY <1>0, <1>1, <1>2
<1>5. CASE e.type = "joined" /\ e.user = u /\ e.channel = c /\ c \in bridged /\ Expected(u)
  <2>1. tasks'[h] = RoomTask(u, c, "join")
    BY <1>0, <1>1, <1>5 DEF Start
  <2>2. tasks'[h].pc = "get" /\ tasks'[h].next = "join" /\ tasks'[h].user = u
        /\ tasks'[h].channel = c
    BY <2>1, RoomTaskFacts DEF Ways
  <2>3. BringsIn(tasks'[h], u, c)
    BY <2>2 DEF BringsIn, Stage
  <2> QED
    BY <1>7, <2>3 DEF Coming, BroughtIn, BringsIn, Stage
<1>6. CASE ~(e.type = "joined" /\ e.user = u /\ e.channel = c /\ c \in bridged /\ Expected(u))
  <2>1. <<u, c>> \in due
    BY <1>1, <1>6
  <2>2. Coming(u, c) /\ c \in open /\ c \in bridged /\ Expected(u)
    BY <1>0, <2>1
  <2>7. Coming(u, c)' => c \in bridged' /\ Coming(u, c)'
    BY <1>7
  <2>3. CASE u \in ghostsIn[c]
    BY <1>2, <2>3, <2>7 DEF Coming
  <2>4. CASE TellsJoined(u, c)
    <3>1. ~Joined(1, u, c)
      BY <1>3, <1>6, <2>2 DEF Joined
    <3> QED
      BY <1>3, <2>4, <2>7, <3>1, ShiftKeeps DEF Coming
  <2>5. CASE TellsCreated(c)
    <3>1. CASE Created(1, c)
      <4>1. e.type = "created" /\ e.channel = c
        BY <1>3, <3>1 DEF Created
      <4>2. Allowed(c)
        BY <1>4, <2>2, <4>1 DEF ChannelOK, LinkedOK
      <4>3. tasks'[h] = SyncChannel(c)
        BY <1>0, <1>1, <2>2, <4>1 DEF Start
      <4>4. ChannelTask(SyncChannel(c), c, "ensureBot")
        BY <2>2, <4>2, ChannelTaskFacts DEF Allowed
      <4>5. BringsIn(tasks'[h], u, c)
        BY <4>3, <4>4 DEF ChannelTask, BringsIn
      <4> QED
        BY <2>7, <4>5 DEF Coming, BroughtIn, BringsIn, Stage
    <3>2. CASE ~Created(1, c)
      BY <1>3, <2>5, <2>7, <3>2, ShiftKeeps DEF Coming
    <3> QED
      BY <3>1, <3>2
  <2>6. CASE BroughtIn(u, c)
    <3>1. ~BringsIn(tasks[h], u, c)
      BY <1>0, <1>2 DEF BringsIn, Idle
    <3> QED
      BY <1>2, <2>6, <2>7, <3>1, OthersBring DEF Coming
  <2> QED
    BY <2>2, <2>3, <2>4, <2>5, <2>6 DEF Coming
<1> QED
  BY <1>5, <1>6

\* A ghost leaves as its user has left the channel, or was deleted.
LEMMA FolkStepsLeave ==
  ASSUME TypeInv, NEW h \in Handlers, FolkSteps(h), NEW u \in Folk, NEW c \in Channels,
         u \in ghostsIn[c], u \notin ghostsIn'[c]
  PROVE  LET s == tasks[h] IN
         s.user = u /\ (Deleting(s) \/ (Stage(s) = "leave" /\ s.channel = c))
<1> DEFINE s == tasks[h]
<1>0. ghostsIn \in [Channels -> SUBSET Folk]
  BY DEF TypeInv, MatrixOK
<1>1. CASE GhostLeaves(h)
  <2>1. s.pc = "leave" /\ ghostsIn' = [ghostsIn EXCEPT ![s.channel] = @ \ {s.user}]
    BY <1>1, GhostLeavesDoes
  <2>2. s.channel = c /\ s.user = u
    BY <1>0, <2>1
  <2> QED
    BY <2>1, <2>2 DEF Stage
<1>2. CASE LeaveRooms(h)
  <2>1. s.pc = "leaveRooms" /\ \E left \in SUBSET s.rooms :
           ghostsIn' = [d \in Channels |-> IF d \in left THEN ghostsIn[d] \ {s.user}
                                           ELSE ghostsIn[d]]
    BY <1>2, LeaveRoomsDoes
  <2>2. s.user = u
    BY <1>0, <2>1
  <2> QED
    BY <2>1, <2>2 DEF Deleting
<1>3. CASE GhostJoins(h) \/ SendMessage(h)
  <2>1. ghostsIn' = [ghostsIn EXCEPT ![s.channel] = @ \cup {s.user}]
    BY <1>3, GhostJoinsDoes, SendMessageDoes
  <2> QED
    BY <1>0, <2>1
<1>4. CASE ~(GhostLeaves(h) \/ LeaveRooms(h) \/ GhostJoins(h) \/ SendMessage(h))
  <2>1. ghostsIn' = ghostsIn
    BY <1>4, LookGhostDoes, GetGhostDoes, BotInvitesDoes, LookUpdateDoes, AskSlackDoes,
       WriteProfileDoes, SaveNameDoes, FindExistingDoes, UpdateUserDoes, HideUserDoes,
       ListRoomsDoes DEF FolkSteps, LookSteps, matrix
  <2> QED
    BY <2>1
<1> QED
  BY <1>1, <1>2, <1>3, <1>4

\* A handler with a user who joins goes on until his ghost is in the room.
LEMMA FolkStepsBring ==
  ASSUME TypeInv, NEW h \in Handlers, FolkSteps(h), NEW u \in Folk, NEW c \in Channels,
         BringsIn(tasks[h], u, c)
  PROVE  BringsIn(tasks'[h], u, c) \/ u \in ghostsIn'[c]
<1> DEFINE s == tasks[h]
<1>0. ghostsIn \in [Channels -> SUBSET Folk] /\ AboutFolk(s)
  BY FolkStepsDo DEF TypeInv, MatrixOK
<1>1. s.channel = c /\ Stage(s) = "join" /\ s.user = u
  BY <1>0 DEF AboutFolk, BringsIn, Stage, OfFolk, InRoom, OfUser
<1>2. CASE LookGhost(h)
  <2>1. s.pc = "get" /\ Continued(tasks'[h], s) /\ tasks'[h].next = s.next
        /\ tasks'[h].pc \in {s.next, "make"}
    BY <1>2, LookGhostDoes
  <2> QED
    BY <1>1, <2>1, ContinuedFacts DEF BringsIn, Stage
<1>3. CASE GetGhost(h)
  <2>1. s.pc = "make" /\ Continued(tasks'[h], s) /\ tasks'[h].pc = s.next
    BY <1>3, GetGhostDoes
  <2> QED
    BY <1>1, <2>1, ContinuedFacts DEF BringsIn, Stage
<1>4. CASE GhostJoins(h)
  <2>1. ghostsIn' = [ghostsIn EXCEPT ![s.channel] = @ \cup {s.user}]
    BY <1>4, GhostJoinsDoes
  <2> QED
    BY <1>0, <1>1, <2>1
<1>5. CASE ~(LookGhost(h) \/ GetGhost(h) \/ GhostJoins(h))
  <2>1. s.pc \notin {"get", "make", "join"}
    BY <1>5, BotInvitesDoes, GhostLeavesDoes, LookUpdateDoes, AskSlackDoes,
       WriteProfileDoes, SaveNameDoes, SendMessageDoes, FindExistingDoes, UpdateUserDoes,
       HideUserDoes, ListRoomsDoes, LeaveRoomsDoes DEF FolkSteps, LookSteps
  <2> QED
    BY <1>1, <2>1 DEF Stage
<1> QED
  BY <1>2, <1>3, <1>4, <1>5

LEMMA FolkComing ==
  ASSUME TypeInv, NEW h \in Handlers, FolkSteps(h), NEW u \in Folk, NEW c \in Channels,
         ReturnOK(u), Member(u, c), Coming(u, c)
  PROVE  Coming(u, c)'
<1>1. Turn(h) /\ slackQueue' = slackQueue
  BY FolkStepsDo, FolkStepsKeep DEF queues
<1>2. CASE u \in ghostsIn[c] /\ u \notin ghostsIn'[c]
  <2>1. ToBeDeleted(u) \/ ToLeave(u, c)
    BY <1>2, FolkStepsLeave DEF ToBeDeleted, ToLeave
  <2>2. BackAfter(1, u, c) \/ TellsJoined(u, c)
    BY <2>1 DEF ReturnOK, BackOK
  <2>3. TellsJoined(u, c) \/ TellsCreated(c)
    BY <2>2 DEF BackAfter, TellsJoined, TellsCreated
  <2> QED
    BY <1>1, <2>3 DEF Coming, TellsJoined, TellsCreated, Joined, Created
<1>3. CASE u \in ghostsIn[c] => u \in ghostsIn'[c]
  <2>1. BringsIn(tasks[h], u, c) => BringsIn(tasks[h], u, c)' \/ u \in ghostsIn'[c]
    BY FolkStepsBring DEF BringsIn, Stage
  <2>2. BroughtIn(u, c) => BroughtIn(u, c)' \/ u \in ghostsIn'[c]
    BY <1>1, <2>1, OthersBring DEF BroughtIn
  <2> QED
    BY <1>1, <1>3, <2>2, ComingAside
<1> QED
  BY <1>2, <1>3

LEMMA ChannelComing ==
  ASSUME TypeInv, NEW h \in Handlers, ChannelSteps(h), NEW u \in Folk, NEW c \in Channels,
         ChannelOK(c), <<u, c>> \in due', <<u, c>> \in due => c \in bridged /\ Coming(u, c)
  PROVE  c \in bridged' /\ Coming(u, c)'
<1> DEFINE s == tasks[h]
<1> DEFINE t == tasks'[h]
<1>0. /\ ghostsIn \in [Channels -> SUBSET Folk]
      /\ <<u, c>> \in due => u \in people[c]
  BY DEF TypeInv, MatrixOK, HistoryOK
<1>1. /\ Turn(h) /\ slackQueue' = slackQueue
      /\ t = Idle \/ t.channel = s.channel
  BY ChannelStepsDo, ContinuedFacts DEF queues
<1> HIDE DEF s, t
<1>2. ASSUME <<u, c>> \in due, u \in ghostsIn[c] => u \in ghostsIn'[c],
             BringsIn(s, u, c) => BringsIn(t, u, c) \/ u \in ghostsIn'[c],
             c \in bridged => c \in bridged'
      PROVE  c \in bridged' /\ Coming(u, c)'
  <2>1. BringsIn(tasks[h], u, c) => BringsIn(tasks[h], u, c)' \/ u \in ghostsIn'[c]
    BY <1>2 DEF BringsIn, Stage, s, t
  <2>2. BringsIn(tasks[h], u, c) => BroughtIn(u, c)' \/ u \in ghostsIn'[c]
    BY <2>1 DEF BroughtIn
  <2>3. BroughtIn(u, c) => BroughtIn(u, c)' \/ u \in ghostsIn'[c]
    BY <1>1, <2>2, OthersBring
  <2> QED
    BY <1>1, <1>2, <2>3, ComingAside
<1>3. ASSUME BringsIn(t, u, c) PROVE Coming(u, c)'
  BY <1>3 DEF Coming, BroughtIn, BringsIn, Stage, t
<1>4. CASE BridgeChannel(h)
  <2>1. /\ s.pc = "bridge" /\ s.channel \in Channels /\ due' = due
        /\ \/ UNCHANGED <<ghostsIn, bridged>>
           \/ /\ ghostsIn' = [ghostsIn EXCEPT ![s.channel] = @ \cup Creator(s)]
              /\ bridged' = bridged \cup {s.channel}
    BY <1>4, BridgeChannelDoes DEF s, Bridges
  <2>2. (u \in ghostsIn[c] => u \in ghostsIn'[c]) /\ (c \in bridged => c \in bridged')
    BY <1>0, <2>1
  <2>3. ~BringsIn(s, u, c)
    BY <2>1 DEF BringsIn, Stage
  <2> QED
    BY <1>2, <2>1, <2>2, <2>3
<1>5. CASE EnsureBot(h)
  <2>1. t.pc = "listGhosts" /\ t.channel = s.channel /\ UNCHANGED <<ghostsIn, due, bridged>>
        /\ s.pc = "ensureBot"
    BY <1>5, EnsureBotDoes, ContinuedFacts DEF s, t, matrix, bridge
  <2> QED
    BY <1>2, <2>1 DEF BringsIn, Stage
<1>6. CASE ListGhosts(h)
  <2>1. /\ s.pc = "listGhosts" /\ t.pc = "listMembers" /\ t.channel = s.channel
        /\ t.folk = ghostsIn[s.channel] /\ UNCHANGED <<ghostsIn, due, bridged>>
    BY <1>6, ListGhostsDoes, ContinuedFacts DEF s, t, matrix, bridge
  <2> QED
    BY <1>2, <2>1 DEF BringsIn, Stage
<1>7. CASE ListMembers(h)
  <2>1. /\ s.pc = "listMembers" /\ t.pc = "move" /\ t.channel = s.channel
        /\ t.folk = people[s.channel] \ s.folk
        /\ \E left \in SUBSET (s.folk \cap people[s.channel]) :
              ghostsIn' = [ghostsIn EXCEPT ![s.channel] = @ \ left]
        /\ s.channel \in Channels /\ bridged' = bridged
    BY <1>7, ListMembersDoes, ContinuedFacts DEF s, t, bridge
  <2>2. due' = (due \ ((s.folk \cap people[s.channel]) \X {s.channel}))
                     \cup {<<v, s.channel>> : v \in
                             IF s.channel \in open \cap bridged
                             THEN {v \in people[s.channel] \ s.folk : Expected(v)} ELSE {}}
    BY <1>7, ListMembersDoes DEF s
  <2>3. CASE s.channel = c
    <3>1. /\ u \in people[c] \ s.folk
          /\ <<u, c>> \in due \/ c \in bridged
      <4>1. CASE <<u, c>> \in due
        BY <1>0, <2>2, <2>3, <4>1
      <4>2. CASE <<u, c>> \notin due
        BY <2>2, <2>3, <4>2
      <4> QED
        BY <4>1, <4>2
    <3>3. c \in bridged'
      BY <2>1, <3>1
    <3>2. BringsIn(t, u, c)
      BY <2>1, <2>3, <3>1 DEF BringsIn
    <3> QED
      BY <1>3, <3>2, <3>3
  <2>4. CASE s.channel # c
    <3>1. <<u, c>> \in due
      BY <2>2, <2>4
    <3>2. u \in ghostsIn[c] => u \in ghostsIn'[c]
      BY <1>0, <2>1, <2>4
    <3>3. ~BringsIn(s, u, c)
      BY <2>4 DEF BringsIn
    <3> QED
      BY <1>2, <2>1, <3>1, <3>2, <3>3
  <2> QED
    BY <2>3, <2>4
<1>8. CASE MoveMembers(h)
  <2>1. PICK joined \in SUBSET s.folk :
           /\ s.pc = "move" /\ ghostsIn' = [ghostsIn EXCEPT ![s.channel] = @ \cup joined]
           /\ due' = due \ ((s.folk \ joined) \X {s.channel})
           /\ s.channel \in Channels /\ bridged' = bridged
    BY <1>8, MoveMembersDoes DEF s, bridge
  <2>2. (u \in ghostsIn[c] => u \in ghostsIn'[c]) /\ <<u, c>> \in due
    BY <1>0, <2>1
  <2>3. ASSUME BringsIn(s, u, c) PROVE u \in ghostsIn'[c]
    <3>1. s.channel = c /\ u \in s.folk
      BY <2>1, <2>3 DEF BringsIn, Stage
    <3>2. u \in joined
      BY <2>1, <3>1
    <3> QED
      BY <1>0, <2>1, <3>1, <3>2
  <2> QED
    BY <1>2, <2>1, <2>2, <2>3
<1>9. CASE UnlinkDeleted(h)
  <2>1. /\ s.pc = "unlink" /\ UNCHANGED ghostsIn /\ due' = {d \in due : d[2] # s.channel}
        /\ bridged' = bridged \ {s.channel}
    BY <1>9, UnlinkDeletedDoes DEF s, matrix
  <2>2. <<u, c>> \in due /\ c # s.channel
    BY <2>1
  <2> QED
    BY <1>2, <2>1, <2>2 DEF BringsIn, Stage
<1>10. CASE DrainRoom(h)
  <2>1. /\ s.pc = "drain" /\ UNCHANGED <<due, bridged>> /\ s.channel \in Channels
        /\ \/ \E left : ghostsIn' = [ghostsIn EXCEPT ![s.channel] = @ \ left]
           \/ ghostsIn' = ghostsIn
    BY <1>10, DrainRoomDoes DEF s
  <2>2. s.channel # c
    <3>1. On("drain", c) => c \notin bridged
      BY DEF ChannelOK, UnlinkingOK
    <3>2. Place(s) = s.pc
      BY ChannelStepsDo DEF s
    <3> QED
      BY <2>1, <3>1, <3>2 DEF On, s
  <2>3. u \in ghostsIn[c] => u \in ghostsIn'[c]
    BY <1>0, <2>1, <2>2
  <2> QED
    BY <1>2, <2>1, <2>2, <2>3 DEF BringsIn
<1> QED
  BY <1>4, <1>5, <1>6, <1>7, <1>8, <1>9, <1>10 DEF ChannelSteps

LEMMA ComingStep ==
    TypeInv /\ ChannelInv /\ ReturnInv /\ ComingInv /\ [Next]_vars => ComingInv'
<1> SUFFICES ASSUME TypeInv, ChannelInv, ReturnInv, ComingInv, [Next]_vars,
                    NEW u \in Folk, NEW c \in Channels,
                    <<u, c>> \in due', u \notin crossed', c \notin crossed'
             PROVE  c \in bridged' /\ Coming(u, c)'
  BY DEF ComingInv
<1>0. <<u, c>> \in due => Member(u, c)
  BY DEF TypeInv, HistoryOK, Member
<1>1. ASSUME <<u, c>> \in due, u \notin crossed, c \notin crossed
      PROVE  c \in bridged /\ Coming(u, c)
  BY <1>1 DEF ComingInv
<1>2. CASE Outside /\ ~Restart
  <2>1. crossed' = crossed /\ bridged' = bridged
    BY <1>2, OutsideDoes DEF bridge
  <2>2. due' \subseteq due
    BY <1>2 DEF Outside, SlackUserJoins, SlackUserLeaves, SlackUserRenamed, SlackUserDeleted,
                SlackUserRestored, ChannelCreated, ChannelDeleted, SlackMessage,
                MatrixUserMoves, BotMoved
  <2> QED
    BY <1>1, <1>2, <2>1, <2>2, OutsideComing
<1>3. CASE Restart
  <2>1. u \notin crossed /\ c \notin crossed /\ due' = due
    BY <1>3, WorldFacts DEF Restart, TypeInv
  <2> QED
    BY <1>1, <1>3, <2>1, RestartComing DEF ChannelInv, ChannelOK
<1>4. CASE ListChannels \/ Forgets \/ UNCHANGED vars
  <2>1. UNCHANGED <<slackQueue, ghostsIn, tasks, due, crossed, bridged>>
    BY <1>4 DEF ListChannels, Forgets, vars, queues, matrix, bridge
  <2>2. BroughtIn(u, c) => BroughtIn(u, c)'
    BY <2>1 DEF BroughtIn, BringsIn, Stage
  <2> QED
    BY <1>1, <2>1, <2>2, ComingAside
<1>5. ASSUME NEW h \in Handlers, Begins(h) PROVE c \in bridged' /\ Coming(u, c)'
  <2>1. u \notin crossed /\ c \notin crossed
    BY <1>5, BeginsDoes
  <2>2. <<u, c>> \in due => c \in bridged /\ Coming(u, c)
    BY <1>1, <2>1
  <2>3. CASE HandleSlack(h)
    BY <2>1, <2>2, <2>3, SlackComing DEF ChannelInv
  <2>4. CASE ~HandleSlack(h)
    <3>1. due' = due /\ bridged' = bridged
      BY <1>5, <2>4, HandleMatrixDoes, SyncsUserDoes, SyncsChannelDoes, SyncsRoomDoes DEF Begins
    <3> QED
      BY <1>5, <2>2, <2>4, <3>1, BeginsComing
  <2> QED
    BY <2>3, <2>4
<1>6. ASSUME NEW h \in Handlers, FolkSteps(h) PROVE c \in bridged' /\ Coming(u, c)'
  <2>1. UNCHANGED <<due, bridged>> /\ crossed \subseteq crossed'
    BY <1>6, FolkStepsKeep DEF bridge
  <2>2. ReturnOK(u) /\ Coming(u, c) /\ c \in bridged
    BY <1>1, <2>1 DEF ReturnInv
  <2> QED
    BY <1>0, <1>6, <2>1, <2>2, FolkComing
<1>7. ASSUME NEW h \in Handlers, ChannelSteps(h) PROVE c \in bridged' /\ Coming(u, c)'
  <2>1. crossed \subseteq crossed'
    BY <1>7, ChannelStepsDo
  <2> QED
    BY <1>1, <1>7, <2>1, ChannelComing DEF ChannelInv
<1>8. ASSUME NEW h \in Handlers, MatrixSteps(h) \/ BridgeSteps(h)
      PROVE  c \in bridged' /\ Coming(u, c)'
  <2>1. UNCHANGED <<due, crossed, bridged>>
    BY <1>8, MatrixStepsDo, BridgeStepsDo DEF bridge
  <2> QED
    BY <1>1, <1>8, <2>1, MatrixComing, BridgeComing
<1>9. ASSUME NEW h \in Handlers, FailSteps(h) PROVE c \in bridged' /\ Coming(u, c)'
  <2>1. due' \subseteq due /\ bridged' = bridged /\ crossed \subseteq crossed'
    BY <1>9, FailStepsDo DEF bridge
  <2> QED
    BY <1>1, <1>9, <2>1, FailComing
<1> QED
  BY <1>2, <1>3, <1>4, <1>5, <1>6, <1>7, <1>8, <1>9, NextDoes

LEMMA MembersStart == Init /\ TypeInv => QueueBack /\ ReturnInv /\ ComingInv
<1> SUFFICES ASSUME Init, TypeInv PROVE QueueBack /\ ReturnInv /\ ComingInv
  OBVIOUS
<1>1. /\ \A h \in Handlers : tasks[h] = Idle
      /\ slackQueue = <<>> /\ toSync.users = {} /\ due = {}
  BY DEF Init, NothingToSync
<1>2. \A u \in Folk : u # Idle.user
  BY WorldFacts DEF TypeInv, Idle
<1>3. QueueBack
  BY <1>1 DEF QueueBack, LeftBack, DeletedBack
<1>4. ReturnInv
  BY <1>1, <1>2 DEF ReturnInv, ReturnOK, RestoredOK, BackOK, ToBeDeleted, ListedDeleted, ToLeave
<1>5. ComingInv
  BY <1>1 DEF ComingInv
<1> QED
  BY <1>3, <1>4, <1>5

LEMMA MembersPresentHolds == TypeInv /\ ComingInv => MembersPresent
<1> SUFFICES ASSUME TypeInv, ComingInv, Quiet, NEW d \in due,
                    d[1] \notin crossed, d[2] \notin crossed
             PROVE  d[2] \in bridged /\ d[1] \in ghostsIn[d[2]]
  BY DEF MembersPresent
<1>1. PICK u \in Folk, c \in Channels : d = <<u, c>>
  BY DEF TypeInv, HistoryOK
<1>2. Coming(u, c) /\ c \in bridged
  BY <1>1 DEF ComingInv
<1>3. /\ \A h \in Handlers : tasks[h].pc = "idle" /\ tasks[h] = Idle
      /\ slackQueue = <<>>
  BY DEF Quiet, AllIdle, At, TypeInv, TasksOK, TaskOK
<1>4. ~BroughtIn(u, c)
  BY <1>3, WorldFacts DEF BroughtIn, BringsIn, Idle, TypeInv
<1>5. ~TellsJoined(u, c) /\ ~TellsCreated(c)
  BY <1>3 DEF TellsJoined, TellsCreated
<1> QED
  BY <1>1, <1>2, <1>4, <1>5 DEF Coming

\* At rest the members whose joining the bridge has taken up, and whom no sync of the channel found
\* in its room and took out, are in the room, unless the call that was to bring them in failed,
\* whatever they, other members, failing calls and restarts did before.
THEOREM MembersArePresent == Spec => []MembersPresent
<1>1. Init => /\ TypeInv /\ ChannelInv /\ RowsMade /\ LastTells
              /\ QueueBack /\ ReturnInv /\ ComingInv
  BY TypesStart, ChannelStart, TellsStart, MembersStart
<1>2. /\ TypeInv /\ ChannelInv /\ RowsMade /\ LastTells
      /\ QueueBack /\ ReturnInv /\ ComingInv /\ [Next]_vars
      => (/\ TypeInv /\ ChannelInv /\ RowsMade /\ LastTells
          /\ QueueBack /\ ReturnInv /\ ComingInv)'
  BY TypesStep, ChannelStep, RowsStep, TellsStep, QueueBackStep, ReturnStep, ComingStep
<1>3. TypeInv /\ ComingInv => MembersPresent
  BY MembersPresentHolds
<1> QED
  BY <1>1, <1>2, <1>3, PTL DEF Spec

-----------------------------------------------------------------------------
(* Names: whose object is whose *)

CacheOwned == \A u, v \in Folk : cache[u] # None /\ cache[u] = cache[v] => u = v

\* An object that a handler has is that of its user, for whoever else has it.
Owns(t) == t.user # None /\ t.object # None

ObjectOwned(t) ==
    Owns(t) =>
        /\ \A u \in Folk : cache[u] = t.object => t.user = u
        /\ \A g \in Handlers :
              Owns(tasks[g]) /\ tasks[g].object = t.object => tasks[g].user = t.user

ObjectsOwned == CacheOwned /\ \A h \in Handlers : ObjectOwned(tasks[h])

\* The ways in which a step of a handler comes by an object.
Keeps(h) ==
    /\ cache' = cache
    /\ Owns(tasks'[h]) => /\ tasks'[h].object = tasks[h].object
                          /\ tasks'[h].user = tasks[h].user

Cached(h) ==
    /\ cache' = cache /\ tasks[h].user \in Folk /\ tasks'[h].user = tasks[h].user
    /\ tasks'[h].object = cache[tasks[h].user]

Made(h) ==
    /\ tasks[h].user \in Folk /\ tasks'[h].user = tasks[h].user
    /\ tasks'[h].object # None /\ Free(tasks'[h].object)
    /\ \/ cache' = cache
       \/ cache' = [cache EXCEPT ![tasks[h].user] = tasks'[h].object]

LEMMA OwnedTurn ==
  ASSUME TypeInv, ObjectsOwned, NEW h \in Handlers, Turn(h), Keeps(h) \/ Cached(h) \/ Made(h)
  PROVE  ObjectsOwned'
<1>0. /\ \A g \in Handlers : g # h => tasks'[g] = tasks[g]
      /\ cache \in [Folk -> Objects \cup {None}] /\ CacheOwned
      /\ \A g \in Handlers : ObjectOwned(tasks[g])
  BY DEF Turn, TypeInv, GhostsTypeOK, ObjectsOwned
<1>1. CASE Keeps(h)
  <2>1. ASSUME NEW g \in Handlers, Owns(tasks'[g])
        PROVE  tasks'[g].object = tasks[g].object /\ tasks'[g].user = tasks[g].user
    BY <1>0, <1>1, <2>1 DEF Keeps
  <2>2. CacheOwned'
    BY <1>0, <1>1 DEF Keeps, CacheOwned
  <2>3. ASSUME NEW g \in Handlers, Owns(tasks'[g])
        PROVE  /\ \A u \in Folk : cache'[u] = tasks'[g].object => tasks'[g].user = u
               /\ \A f \in Handlers :
                     Owns(tasks'[f]) /\ tasks'[f].object = tasks'[g].object =>
                         tasks'[f].user = tasks'[g].user
    BY <1>0, <1>1, <2>1, <2>3 DEF Keeps, ObjectOwned, Owns
  <2> QED
    BY <2>2, <2>3 DEF ObjectsOwned, ObjectOwned, Owns
<1>2. CASE Cached(h)
  <2>0. PICK v \in Folk : v = tasks[h].user
    BY <1>2 DEF Cached
  <2>1. PICK o : o = cache[v]
    OBVIOUS
  <2>2. tasks'[h].object = o /\ tasks'[h].user = v /\ cache' = cache
    BY <1>2, <2>0, <2>1 DEF Cached
  <2>3. CacheOwned'
    BY <1>0, <2>2 DEF CacheOwned
  <2>4. ASSUME NEW g \in Handlers, g # h, Owns(tasks[g]), tasks[g].object = o
        PROVE  tasks[g].user = v
    BY <1>0, <2>0, <2>1, <2>4 DEF ObjectOwned, Owns
  <2>5. ASSUME NEW g \in Handlers, Owns(tasks'[g])
        PROVE  /\ \A u \in Folk : cache'[u] = tasks'[g].object => tasks'[g].user = u
               /\ \A f \in Handlers :
                     Owns(tasks'[f]) /\ tasks'[f].object = tasks'[g].object =>
                         tasks'[f].user = tasks'[g].user
    <3>1. CASE g = h
      BY <1>0, <2>0, <2>1, <2>2, <2>4, <2>5, <3>1 DEF CacheOwned, Owns
    <3>2. CASE g # h
      BY <1>0, <2>2, <2>4, <2>5, <3>2 DEF ObjectOwned, Owns
    <3> QED
      BY <3>1, <3>2
  <2> QED
    BY <2>3, <2>5 DEF ObjectsOwned, ObjectOwned, Owns
<1>3. CASE Made(h)
  <2>0. PICK v \in Folk : v = tasks[h].user
    BY <1>3 DEF Made
  <2>1. PICK o : o = tasks'[h].object
    OBVIOUS
  <2>2. /\ tasks'[h].object = o /\ tasks'[h].user = v /\ o # None
        /\ \A u \in Folk : cache[u] # o
        /\ \A g \in Handlers : tasks[g].object # o
        /\ \A u \in Folk : cache'[u] = cache[u] \/ (u = v /\ cache'[u] = o)
    BY <1>0, <1>3, <2>0, <2>1 DEF Made, Free
  <2>3. CacheOwned'
    BY <1>0, <2>2 DEF CacheOwned
  <2>4. ASSUME NEW g \in Handlers, Owns(tasks'[g])
        PROVE  /\ \A u \in Folk : cache'[u] = tasks'[g].object => tasks'[g].user = u
               /\ \A f \in Handlers :
                     Owns(tasks'[f]) /\ tasks'[f].object = tasks'[g].object =>
                         tasks'[f].user = tasks'[g].user
    <3>1. CASE g = h
      BY <1>0, <2>2, <3>1
    <3>2. CASE g # h
      BY <1>0, <2>2, <2>4, <3>2 DEF ObjectOwned, Owns
    <3> QED
      BY <3>1, <3>2
  <2> QED
    BY <2>3, <2>4 DEF ObjectsOwned, ObjectOwned, Owns
<1> QED
  BY <1>1, <1>2, <1>3

LEMMA LookOwned ==
  ASSUME TypeInv, NEW h \in Handlers, LookSteps(h)
  PROVE  Cached(h) \/ Made(h)
<1> DEFINE s == tasks[h]
           t == tasks'[h]
<1>0. None \notin Objects
  BY WorldFacts DEF TypeInv
<1>1. CASE LookGhost(h)
  <2>1. /\ UNCHANGED ghostVars /\ s.user \in Folk /\ Continued(t, s) /\ t.object = cache[s.user]
    BY <1>1, LookGhostDoes
  <2> QED
    BY <2>1, ContinuedFacts DEF Cached, ghostVars
<1>2. CASE GetGhost(h)
  <2>1. /\ s.user \in Folk /\ CanMake /\ MakeGhost(s.user, s.row, NewObject)
        /\ Continued(t, s) /\ t.object = NewObject
    BY <1>2, GetGhostDoes
  <2> QED
    BY <1>0, <2>1, NewObjectFree, ContinuedFacts DEF Made, MakeGhost
<1> QED
  BY <1>1, <1>2 DEF LookSteps

LEMMA FolkOwned ==
  ASSUME TypeInv, NEW h \in Handlers, FolkSteps(h)
  PROVE  Keeps(h) \/ Cached(h) \/ Made(h)
<1> DEFINE s == tasks[h]
           t == tasks'[h]
<1>0. Idle.object = None /\ None \notin Objects
  BY WorldFacts DEF Idle, TypeInv
<1>1. CASE LookSteps(h)
  BY <1>1, LookOwned
<1>3. CASE FindExisting(h)
  <2>1. /\ s.user \in Folk
        /\ \/ UNCHANGED ghostVars /\ t = Idle
           \/ UNCHANGED ghostVars /\ Continued(t, s) /\ t.object = s.object
           \/ /\ CanMake /\ ExistingGhost(s.user, NewObject)
              /\ Continued(t, s) /\ t.object = NewObject
    BY <1>3, FindExistingDoes
  <2>2. CASE UNCHANGED ghostVars /\ (t = Idle \/ (Continued(t, s) /\ t.object = s.object))
    BY <1>0, <2>2, ContinuedFacts DEF Keeps, Owns, ghostVars
  <2>3. CASE /\ CanMake /\ ExistingGhost(s.user, NewObject)
             /\ Continued(t, s) /\ t.object = NewObject
    BY <1>0, <2>1, <2>3, NewObjectFree, ContinuedFacts DEF Made, ExistingGhost
  <2> QED
    BY <2>1, <2>2, <2>3
<1>4. CASE GhostJoins(h) \/ BotInvites(h) \/ GhostLeaves(h) \/ SendMessage(h) \/ LeaveRooms(h)
  <2>1. UNCHANGED ghostVars /\ t = Idle
    BY <1>4, GhostJoinsDoes, BotInvitesDoes, GhostLeavesDoes, SendMessageDoes, LeaveRoomsDoes
  <2> QED
    BY <1>0, <2>1 DEF Keeps, Owns, ghostVars
<1>5. CASE LookUpdate(h)
  <2>1. /\ Continued(t, s) /\ t.object = s.object
        /\ UNCHANGED ghostVars \/ BeginUpdate(s.object)
    BY <1>5, LookUpdateDoes
  <2> QED
    BY <2>1, ContinuedFacts DEF Keeps, Owns, ghostVars, BeginUpdate
<1>6. CASE AskSlack(h)
  <2>1. /\ Continued(t, s) /\ t.object = s.object
        /\ Answered(s.user, s.object) \/ NotAnswered(s.object)
    BY <1>6, AskSlackDoes
  <2> QED
    BY <2>1, ContinuedFacts DEF Keeps, Owns, Answered, NotAnswered
<1>7. CASE WriteProfile(h)
  <2>1. /\ Continued(t, s) /\ t.object = s.object
        /\ EnsureProfile(s.user, s.name) \/ EndUpdate(s.object)
    BY <1>7, WriteProfileDoes
  <2> QED
    BY <2>1, ContinuedFacts DEF Keeps, Owns, EnsureProfile, EndUpdate
<1>8. CASE SaveName(h)
  <2>1. /\ SaveGhost(s.user, s.object, s.name, s.pc = "saveName")
        /\ t = Idle \/ (Continued(t, s) /\ t.object = s.object)
    BY <1>8, SaveNameDoes
  <2> QED
    BY <1>0, <2>1, ContinuedFacts DEF Keeps, Owns, SaveGhost
<1>9. CASE UpdateUser(h)
  <2>1. /\ UNCHANGED ghostVars \/ SetDisplayName(s.user, s.name)
        /\ t = Idle \/ (Continued(t, s) /\ t.object = s.object)
    BY <1>9, UpdateUserDoes
  <2> QED
    BY <1>0, <2>1, ContinuedFacts DEF Keeps, Owns, SetDisplayName, ghostVars
<1>10. CASE HideUser(h) \/ ListRooms(h)
  <2>1. /\ UNCHANGED ghostVars \/ SetDisplayName(s.user, Deleted)
        /\ Continued(t, s) /\ t.object = s.object
    BY <1>10, HideUserDoes, ListRoomsDoes
  <2> QED
    BY <2>1, ContinuedFacts DEF Keeps, Owns, SetDisplayName, ghostVars
<1> QED
  BY <1>1, <1>3, <1>4, <1>5, <1>6, <1>7, <1>8, <1>9, <1>10 DEF FolkSteps

LEMMA BridgeOwned ==
  ASSUME TypeInv, NEW h \in Handlers, BridgeSteps(h)
  PROVE  Keeps(h) \/ Cached(h) \/ Made(h)
<1>1. CASE LookSteps(h)
  BY <1>1, LookOwned
<1>2. CASE ~LookSteps(h)
  <2>1. /\ cache' = cache
        /\ \/ tasks'[h].user = None
           \/ tasks'[h].user = tasks[h].user /\ tasks'[h].object = tasks[h].object
    BY <1>2, BridgeStepsDo DEF ghostVars
  <2> QED
    BY <2>1 DEF Keeps, Owns
<1> QED
  BY <1>1, <1>2

LEMMA OwnedStep == TypeInv /\ ObjectsOwned /\ [Next]_vars => ObjectsOwned'
<1> SUFFICES ASSUME TypeInv, ObjectsOwned, [Next]_vars PROVE ObjectsOwned'
  OBVIOUS
<1>0. Idle.object = None /\ Idle.user = None
  BY DEF Idle
<1>1. CASE UNCHANGED <<cache, tasks>>
  BY <1>1 DEF ObjectsOwned, CacheOwned, ObjectOwned, Owns
<1>2. CASE Restart
  <2>1. (\A h \in Handlers : tasks'[h] = Idle) /\ (\A u \in Folk : cache'[u] = None)
    BY <1>2 DEF Restart
  <2> QED
    BY <1>0, <2>1 DEF ObjectsOwned, CacheOwned, ObjectOwned, Owns
<1>3. CASE (Outside /\ ~Restart) \/ ListChannels \/ Forgets \/ UNCHANGED vars
  <2>1. UNCHANGED <<cache, tasks>>
    BY <1>3, OutsideDoes DEF ListChannels, Forgets, InfoExpires, vars, ghostVars
  <2> QED
    BY <1>1, <2>1
<1>4. ASSUME NEW h \in Handlers, Begins(h) PROVE ObjectsOwned'
  <2>1. Turn(h) /\ UNCHANGED ghostVars /\ Begun(h, tasks'[h], crossed')
    BY <1>4, BeginsDoes
  <2>2. Keeps(h)
    BY <2>1 DEF Keeps, Owns, Begun, ghostVars
  <2> QED
    BY <2>1, <2>2, OwnedTurn
<1>5. ASSUME NEW h \in Handlers, FolkSteps(h) PROVE ObjectsOwned'
  BY <1>5, FolkStepsDo, FolkOwned, OwnedTurn
<1>6. ASSUME NEW h \in Handlers, ChannelSteps(h) \/ MatrixSteps(h) \/ FailSteps(h)
      PROVE  ObjectsOwned'
  <2>1. Turn(h) /\ cache' = cache /\ tasks'[h].user = None
    BY <1>0, <1>6, ChannelStepsDo, MatrixStepsDo, FailStepsDo, ContinuedFacts DEF ghostVars
  <2>2. Keeps(h)
    BY <2>1 DEF Keeps, Owns
  <2> QED
    BY <2>1, <2>2, OwnedTurn
<1>7. ASSUME NEW h \in Handlers, BridgeSteps(h) PROVE ObjectsOwned'
  BY <1>7, BridgeStepsDo, BridgeOwned, OwnedTurn
<1> QED
  BY <1>2, <1>3, <1>4, <1>5, <1>6, <1>7, NextDoes

LEMMA OwnedStart == Init => ObjectsOwned
  BY DEF Init, GhostsInit, ObjectsOwned, CacheOwned, ObjectOwned, Owns, Idle

\* A handler that begins with a user is on its way to his ghost, to move or speak for him, or
\* has what an event or the list of users says of him.
SaidTask(t, u, n, f) == t.pc = "existing" /\ t.user = u /\ t.name = n /\ (t.flag <=> f)

Wayfarer(t) == t.pc = "get" /\ t.next \in Ways

LEMMA HandlesFolk ==
  ASSUME TypeInv, slackQueue # <<>>, NEW h \in Handlers, tasks[h] = Idle,
         Handles(h, Head(slackQueue))
  PROVE  LET e == Head(slackQueue)
             t == tasks'[h]
         IN
         \/ t.user = None \/ t.pc = "askBot"
         \/ t.user = e.user /\ Wayfarer(t)
         \/ e.type = "user" /\ SaidTask(t, e.user, e.name, e.flag)
<1> DEFINE e == Head(slackQueue)
<1>0. /\ SlackEventOK(e, Channel) /\ Channel \subseteq Channels /\ tasks \in [Handlers -> Tasks]
      /\ Idle.user = None /\ e.flag \in BOOLEAN
  BY HeadFacts DEF TypeInv, TasksOK, SlackOK, Channel, Idle
<1>6. Handles(h, e)
  OBVIOUS
<1> SUFFICES \/ tasks'[h].user = None \/ tasks'[h].pc = "askBot"
             \/ tasks'[h].user = e.user /\ Wayfarer(tasks'[h])
             \/ e.type = "user" /\ SaidTask(tasks'[h], e.user, e.name, e.flag)
  OBVIOUS
<1> HIDE DEF e
<1>1. CASE tasks' = tasks
  BY <1>0, <1>1
<1>2. ASSUME NEW way \in Ways, Start(h, RoomTask(e.user, e.channel, way)),
             e.type \in {"joined", "left", "message"}
      PROVE  tasks'[h].user = e.user /\ Wayfarer(tasks'[h])
  <2>1. PICK u \in Folk, c \in Channels : u = e.user /\ c = e.channel
    BY <1>0, <1>2 DEF SlackEventOK
  <2>2. tasks'[h] = RoomTask(u, c, way)
    BY <1>0, <1>2, <2>1 DEF Start
  <2>3. tasks'[h].pc = "get" /\ tasks'[h].next = way /\ tasks'[h].user = u
    BY <2>2, RoomTaskFacts
  <2> QED
    BY <2>1, <2>3 DEF Wayfarer
<1>3. CASE e.type = "user" /\ Start(h, SyncUser(e.user, e.name, e.flag))
  <2>1. e.user \in Folk /\ e.name \in Names
    BY <1>0, <1>3 DEF SlackEventOK
  <2>2. PICK u \in Folk, n \in Names, f \in BOOLEAN : u = e.user /\ n = e.name /\ f = e.flag
    BY <1>0, <2>1
  <2>3. tasks'[h] = SyncUser(u, n, f)
    BY <1>0, <1>3, <2>2 DEF Start
  <2>4. SaidTask(tasks'[h], u, n, f)
    BY <2>3, SyncUserFacts DEF SaidTask
  <2> QED
    BY <1>3, <2>2, <2>4
<1>4. CASE /\ e.type \in {"created", "deleted"}
           /\ Start(h, SyncChannel(e.channel)) \/ Start(h, UnlinkTask(e.channel))
  <2>1. PICK c \in Channels : c = e.channel
    BY <1>0, <1>4 DEF SlackEventOK
  <2>2. tasks'[h] \in {SyncChannel(c), UnlinkTask(c)}
    BY <1>0, <1>4, <2>1 DEF Start
  <2>3. world.creator[c] \in Folk
    BY WorldFacts DEF TypeInv
  <2> QED
    BY <1>0, <2>2, <2>3, ChannelTaskFacts, BridgeTaskFacts DEF ChannelTask
<1>5. \/ tasks' = tasks
      \/ /\ e.type \in {"joined", "left", "message"}
         /\ \E way \in Ways : Start(h, RoomTask(e.user, e.channel, way))
      \/ e.type = "user" /\ Start(h, SyncUser(e.user, e.name, e.flag))
      \/ /\ e.type \in {"created", "deleted"}
         /\ Start(h, SyncChannel(e.channel)) \/ Start(h, UnlinkTask(e.channel))
  BY <1>6 DEF Handles
<1> QED
  BY <1>1, <1>2, <1>3, <1>4, <1>5

LEMMA SyncsFolk ==
  ASSUME TypeInv, NEW h \in Handlers, SyncsUser(h)
  PROVE  \E listed \in toSync.users :
            /\ listed \in Listed /\ toSync'.users = toSync.users \ {listed}
            /\ SaidTask(tasks'[h], listed.user, listed.name, listed.deleted)
<1>1. PICK listed \in toSync.users :
         /\ listed \in Listed /\ toSync'.users = toSync.users \ {listed}
         /\ Start(h, ListedTask(listed))
  BY SyncsUserDoes
<1>2. tasks'[h] = ListedTask(listed)
  BY <1>1 DEF Start, TypeInv, TasksOK
<1>3. SaidTask(tasks'[h], listed.user, listed.name, listed.deleted)
  BY <1>1, <1>2, ListedTaskFacts DEF SaidTask
<1> QED
  BY <1>1, <1>3

LEMMA BeginsWith ==
  ASSUME TypeInv, NEW h \in Handlers, Begins(h)
  PROVE  LET t == tasks'[h] IN
         t.user = None \/ Wayfarer(t) \/ t.pc \in {"existing", "askBot"}
<1>0. tasks[h] = Idle
  BY BeginsDoes
<1>1. CASE HandleSlack(h)
  <2>1. slackQueue # <<>> /\ Handles(h, Head(slackQueue))
    BY <1>1, HandleSlackDoes
  <2> QED
    BY <1>0, <2>1, HandlesFolk DEF SaidTask
<1>2. CASE SyncsUser(h)
  BY <1>2, SyncsFolk DEF SaidTask
<1>3. CASE HandleMatrix(h) \/ SyncsChannel(h) \/ SyncsRoom(h)
  <2>1. tasks'[h].user = None \/ Bridging(tasks'[h])
    BY <1>3, NobodyBegins
  <2>2. Bridging(tasks'[h]) => tasks'[h].pc = "askBot"
    BY BeginsDoes DEF Begun
  <2> QED
    BY <2>1, <2>2
<1> QED
  BY <1>1, <1>2, <1>3 DEF Begins

-----------------------------------------------------------------------------
(* Names: what the row says and what Matrix says *)

Writing(t) == t.pc \in {"save", "saveName"}
Fetches(t) == t.pc \in {"get", "make"} /\ t.next = "update"

Bare(u) == rows[u] \in {NoRow, Unnamed}
NamedInRow(u) == IF rows[u] = NoRow THEN Unnamed ELSE rows[u]

Agree(u) ==
    \/ Bare(u) /\ profiles[u] \in {Unnamed, Deleted}
    \/ rows[u] \in Names /\ profiles[u] \in {rows[u], Deleted}

\* What a handler of a user has in hand.
HoldsOK(t, u) ==
    /\ Writing(t) => profiles[u] = t.name
    /\ Fetches(t) => cache[u] = None /\ Bare(u)
    /\ t.pc = "make" /\ t.row = NoRow => Bare(u)
    /\ t.pc = "make" /\ t.next = "update" => t.row \in {NoRow, Unnamed}
    /\ t.pc = "update" => ghosts[t.object].name = NamedInRow(u)

AgreeOK(u) ==
    /\ Agree(u) \/ \E h \in Handlers : tasks[h].user = u /\ Writing(tasks[h])
    /\ \A h \in Handlers : tasks[h].user = u => HoldsOK(tasks[h], u)

AgreeInv == \A u \in Folk : u \notin crossed => AgreeOK(u)

\* What the step does not change of a user: a row without a name may be made for him.
NamesSame(u) ==
    /\ cache'[u] = cache[u] /\ profiles'[u] = profiles[u]
    /\ rows'[u] = rows[u] \/ (rows[u] = NoRow /\ rows'[u] = Unnamed)

LEMMA AgreeSame ==
  ASSUME NEW u, NamesSame(u), Agree(u), NoRow \notin Names
  PROVE  Agree(u)'
  BY DEF NamesSame, Agree, Bare

LEMMA HoldsSame ==
  ASSUME NEW u, NamesSame(u), NEW h \in Handlers, HoldsOK(tasks[h], u), tasks'[h] = tasks[h],
         tasks[h].pc = "update" => ghosts'[tasks[h].object].name = ghosts[tasks[h].object].name
  PROVE  HoldsOK(tasks[h], u)'
  BY DEF NamesSame, HoldsOK, Bare, NamedInRow, Writing, Fetches

LEMMA AgreeAside ==
  ASSUME TypeInv, NEW u, NamesSame(u), AgreeOK(u),
         \A h \in Handlers : tasks[h].user = u =>
             \/ /\ tasks'[h] = tasks[h]
                /\ tasks[h].pc = "update" =>
                       ghosts'[tasks[h].object].name = ghosts[tasks[h].object].name
             \/ ~Writing(tasks[h]) /\ (tasks'[h].user = u => HoldsOK(tasks[h], u)'),
         \A h \in Handlers : tasks[h].user # u /\ tasks'[h].user = u => HoldsOK(tasks[h], u)'
  PROVE  AgreeOK(u)'
<1>0. NoRow \notin Names
  BY WorldFacts DEF TypeInv
<1>1. (Agree(u) \/ \E h \in Handlers : tasks[h].user = u /\ Writing(tasks[h]))'
  BY <1>0, AgreeSame DEF AgreeOK, Writing
<1>2. \A h \in Handlers : tasks'[h].user = u => HoldsOK(tasks[h], u)'
  BY HoldsSame DEF AgreeOK
<1> QED
  BY <1>1, <1>2 DEF AgreeOK

\* A step changes no other object than this, and nothing of another user than this.
Touches(o) == \A p \in Objects \ {o} : ghosts'[p] = ghosts[p]

OnlyOf(u) ==
    \A v \in Folk \ {u} :
        /\ cache'[v] = cache[v] /\ rows'[v] = rows[v] /\ profiles'[v] = profiles[v]
        /\ v \in reverted' <=> v \in reverted

LEMMA StoreTouches ==
  ASSUME GhostsTypeOK, NEW u \in Folk, NEW o \in Objects, NEW n, NEW b, NEW row,
         \/ MakeGhost(u, row, o) \/ ExistingGhost(u, o) \/ BeginUpdate(o) \/ Answered(u, o)
         \/ NotAnswered(o) \/ EndUpdate(o) \/ NameGhost(o, n) \/ SaveGhost(u, o, n, b)
  PROVE  Touches(o) /\ OnlyOf(u)
<1>0. /\ \A g : \A p \in Objects \ {o} : [ghosts EXCEPT ![o] = g][p] = ghosts[p]
      /\ \A r : \A v \in Folk \ {u} : [rows EXCEPT ![u] = r][v] = rows[v]
      /\ \A c : \A v \in Folk \ {u} : [cache EXCEPT ![u] = c][v] = cache[v]
  BY DEF GhostsTypeOK
<1>1. \E g : ghosts' = [ghosts EXCEPT ![o] = g]
  <2>1. CASE MakeGhost(u, row, o)
    BY <2>1 DEF MakeGhost
  <2>2. CASE ExistingGhost(u, o)
    BY <2>2 DEF ExistingGhost
  <2>3. CASE BeginUpdate(o)
    BY <2>3 DEF BeginUpdate
  <2>4. CASE Answered(u, o)
    BY <2>4 DEF Answered
  <2>5. CASE NotAnswered(o)
    BY <2>5 DEF NotAnswered
  <2>6. CASE SaveGhost(u, o, n, b)
    BY <2>6 DEF SaveGhost
  <2>7. CASE EndUpdate(o)
    BY <2>7 DEF EndUpdate
  <2>8. CASE NameGhost(o, n)
    BY <2>8 DEF NameGhost
  <2> QED
    BY <2>1, <2>2, <2>3, <2>4, <2>5, <2>6, <2>7, <2>8
<1>2. UNCHANGED <<profiles, reverted>>
  BY DEF MakeGhost, ExistingGhost, BeginUpdate, Answered, NotAnswered, EndUpdate, NameGhost,
         SaveGhost
<1>3. \A v \in Folk \ {u} : rows'[v] = rows[v] /\ cache'[v] = cache[v]
  <2>1. CASE MakeGhost(u, row, o)
    <3>1. /\ rows' = rows \/ rows' = [rows EXCEPT ![u] = Unnamed]
          /\ cache' = [cache EXCEPT ![u] = o]
      BY <2>1 DEF MakeGhost
    <3>2. \A v \in Folk \ {u} : [rows EXCEPT ![u] = Unnamed][v] = rows[v]
      BY <1>0
    <3>3. \A v \in Folk \ {u} : [cache EXCEPT ![u] = o][v] = cache[v]
      BY <1>0
    <3>4. \A v \in Folk \ {u} : rows'[v] = rows[v]
      BY <3>1, <3>2
    <3>5. \A v \in Folk \ {u} : cache'[v] = cache[v]
      BY <3>1, <3>3
    <3> QED
      BY <3>4, <3>5
  <2>2. CASE \/ ExistingGhost(u, o) \/ BeginUpdate(o) \/ Answered(u, o) \/ NotAnswered(o)
             \/ EndUpdate(o) \/ NameGhost(o, n)
    BY <2>2 DEF ExistingGhost, BeginUpdate, Answered, NotAnswered, EndUpdate, NameGhost
  <2>3. CASE SaveGhost(u, o, n, b)
    <3>1. rows' = [rows EXCEPT ![u] = n] /\ cache' = cache
      BY <2>3 DEF SaveGhost, RowNamed
    <3> QED
      BY <1>0, <3>1
  <2> QED
    BY <2>1, <2>2, <2>3
<1> QED
  BY <1>0, <1>1, <1>2, <1>3 DEF Touches, OnlyOf

LEMMA ProfileTouches ==
  ASSUME GhostsTypeOK, NEW u \in Folk, NEW n, EnsureProfile(u, n) \/ SetDisplayName(u, n)
  PROVE  ghosts' = ghosts /\ OnlyOf(u)
<1>1. /\ \A r : \A v \in Folk \ {u} : [profiles EXCEPT ![u] = r][v] = profiles[v]
      /\ profiles' = [profiles EXCEPT ![u] = n] /\ UNCHANGED <<cache, ghosts, rows>>
      /\ reverted' \in {reverted, reverted \cup {u}}
  BY DEF GhostsTypeOK, EnsureProfile, SetDisplayName
<1> QED
  BY <1>1 DEF OnlyOf

LEMMA LookTouches ==
  ASSUME TypeInv, NEW h \in Handlers, LookSteps(h)
  PROVE  OnlyOf(tasks[h].user) /\ (ghosts' = ghosts \/ (CanMake /\ Touches(NewObject)))
<1> DEFINE s == tasks[h]
<1>1. CASE LookGhost(h)
  BY <1>1, LookGhostDoes DEF OnlyOf, ghostVars
<1>2. CASE GetGhost(h)
  <2>1. s.user \in Folk /\ CanMake /\ MakeGhost(s.user, s.row, NewObject) /\ GhostsTypeOK
    BY <1>2, GetGhostDoes DEF TypeInv
  <2> QED
    BY <2>1, NewObjectFree, StoreTouches
<1> QED
  BY <1>1, <1>2 DEF LookSteps

LEMMA FolkTouches ==
  ASSUME TypeInv, NEW h \in Handlers, FolkSteps(h)
  PROVE  /\ OnlyOf(tasks[h].user)
         /\ \/ ghosts' = ghosts
            \/ tasks[h].object \in Objects /\ Touches(tasks[h].object)
            \/ CanMake /\ Touches(NewObject)
<1> DEFINE s == tasks[h]
<1>0. GhostsTypeOK /\ s.user \in Folk
  BY FolkStepsDo DEF TypeInv, AboutFolk
<1>1. CASE UNCHANGED ghostVars
  BY <1>1 DEF OnlyOf, ghostVars
<1>2. CASE LookSteps(h)
  BY <1>2, LookTouches
<1>3. CASE FindExisting(h)
  <2>1. UNCHANGED ghostVars \/ (CanMake /\ ExistingGhost(s.user, NewObject))
    BY <1>3, FindExistingDoes
  <2> QED
    BY <1>0, <1>1, <2>1, NewObjectFree, StoreTouches
<1>4. CASE LookUpdate(h)
  <2>1. UNCHANGED ghostVars \/ (s.object \in Objects /\ BeginUpdate(s.object))
    BY <1>4, LookUpdateDoes
  <2> QED
    BY <1>0, <1>1, <2>1, StoreTouches
<1>5. CASE AskSlack(h)
  <2>1. s.object \in Objects /\ (Answered(s.user, s.object) \/ NotAnswered(s.object))
    BY <1>5, AskSlackDoes
  <2> QED
    BY <1>0, <2>1, StoreTouches
<1>6. CASE SaveName(h)
  <2>1. s.object \in Objects /\ SaveGhost(s.user, s.object, s.name, s.pc = "saveName")
    BY <1>6, SaveNameDoes
  <2> QED
    BY <1>0, <2>1, StoreTouches
<1>7. CASE WriteProfile(h) \/ UpdateUser(h) \/ HideUser(h)
  <2>1. \/ UNCHANGED ghostVars \/ EnsureProfile(s.user, s.name)
        \/ SetDisplayName(s.user, s.name) \/ SetDisplayName(s.user, Deleted)
        \/ s.object \in Objects /\ EndUpdate(s.object)
    BY <1>7, WriteProfileDoes, UpdateUserDoes, HideUserDoes
  <2> QED
    BY <1>0, <1>1, <2>1, ProfileTouches, StoreTouches
<1>8. CASE \/ GhostJoins(h) \/ BotInvites(h) \/ GhostLeaves(h) \/ SendMessage(h)
           \/ ListRooms(h) \/ LeaveRooms(h)
  <2>1. UNCHANGED ghostVars
    BY <1>8, GhostJoinsDoes, BotInvitesDoes, GhostLeavesDoes, SendMessageDoes,
       ListRoomsDoes, LeaveRoomsDoes
  <2> QED
    BY <1>1, <2>1
<1> QED
  BY <1>2, <1>3, <1>4, <1>5, <1>6, <1>7, <1>8 DEF FolkSteps

\* A step of a handler that is about a user, or that is to make a creator's ghost, or fails.
OwnSteps(h) == FolkSteps(h) \/ BridgeSteps(h) \/ FailSteps(h)

LEMMA OwnTouches ==
  ASSUME TypeInv, NEW h \in Handlers, OwnSteps(h)
  PROVE  /\ OnlyOf(tasks[h].user)
         /\ \/ ghosts' = ghosts
            \/ /\ tasks[h].user \in Folk /\ tasks[h].object \in Objects
               /\ Touches(tasks[h].object)
            \/ CanMake /\ Touches(NewObject)
<1> DEFINE s == tasks[h]
<1>1. CASE FolkSteps(h)
  BY <1>1, FolkTouches, FolkStepsDo DEF AboutFolk
<1>2. CASE LookSteps(h)
  BY <1>2, LookTouches
<1>3. CASE BridgeSteps(h) /\ ~LookSteps(h)
  BY <1>3, BridgeStepsDo DEF OnlyOf, ghostVars
<1>4. CASE CallFails(h)
  BY <1>4, CallFailsDoes DEF OnlyOf, ghostVars
<1>5. CASE AvatarFails(h)
  <2>1. s.user \in Folk /\ s.object \in Objects /\ NameGhost(s.object, s.name) /\ GhostsTypeOK
    BY <1>5, AvatarFailsDoes DEF TypeInv
  <2> QED
    BY <2>1, StoreTouches
<1> QED
  BY <1>1, <1>2, <1>3, <1>4, <1>5 DEF OwnSteps, FailSteps

\* The handler goes on with its user, with nobody, or is done.
LEMMA OwnStepsDo ==
  ASSUME TypeInv, NEW h \in Handlers, OwnSteps(h)
  PROVE  /\ Turn(h) /\ tasks'[h].user \in {tasks[h].user, None}
         /\ UNCHANGED <<world, open, closed, gone, queues, bridge, moved>>
         /\ crossed \subseteq crossed'
<1>1. Idle.user = None
  BY DEF Idle
<1>2. CASE FolkSteps(h)
  BY <1>1, <1>2, FolkStepsDo, FolkStepsKeep, ContinuedFacts DEF slack
<1>3. CASE BridgeSteps(h)
  BY <1>3, BridgeStepsDo
<1>4. CASE FailSteps(h)
  BY <1>1, <1>4, FailStepsDo DEF slack
<1> QED
  BY <1>2, <1>3, <1>4 DEF OwnSteps

\* The object that another user's handler has stays as it is.
LEMMA OthersObjects ==
  ASSUME TypeInv, ObjectsOwned, NEW h \in Handlers, OwnSteps(h), NEW g \in Handlers,
         tasks[g].user # None, tasks[g].object \in Objects, tasks[g].user # tasks[h].user
  PROVE  ghosts'[tasks[g].object] = ghosts[tasks[g].object]
<1>0. None \notin Objects /\ None \notin Folk
  BY WorldFacts DEF TypeInv
<1>1. tasks[h].user \in Folk => tasks[g].object # tasks[h].object
  BY <1>0 DEF ObjectsOwned, ObjectOwned, Owns
<1>2. CanMake => tasks[g].object # NewObject
  BY NewObjectFree DEF Free
<1> QED
  BY <1>1, <1>2, OwnTouches DEF Touches

\* For other users than its own, a handler's step changes nothing.
LEMMA OwnAgreeAside ==
  ASSUME TypeInv, ObjectsOwned, NEW h \in Handlers, OwnSteps(h), NEW u \in Folk, AgreeOK(u),
         tasks[h].user # u
  PROVE  AgreeOK(u)'
<1>0. None \notin Folk
  BY WorldFacts DEF TypeInv
<1>1. NamesSame(u)
  BY OwnTouches DEF OnlyOf, NamesSame
<1>2. Turn(h) /\ tasks'[h].user # u
  BY <1>0, OwnStepsDo
<1>3. ASSUME NEW g \in Handlers, tasks[g].user = u
      PROVE  /\ tasks'[g] = tasks[g]
             /\ tasks[g].pc = "update" =>
                    ghosts'[tasks[g].object].name = ghosts[tasks[g].object].name
  <2>1. tasks[g].pc = "update" => tasks[g].object \in Objects
    BY TaskFacts DEF TaskOK
  <2> QED
    BY <1>0, <1>2, <1>3, <2>1, OthersObjects DEF Turn
<1>4. \A g \in Handlers : ~(tasks[g].user # u /\ tasks'[g].user = u)
  BY <1>2 DEF Turn
<1> QED
  BY <1>1, <1>3, <1>4, AgreeAside

\* The only handler of a user goes on: what it is to hold then.
Onward(h, u) ==
    /\ Agree(u)' \/ (tasks'[h].user = u /\ Writing(tasks'[h]))
    /\ tasks'[h].user = u => HoldsOK(tasks[h], u)'

LEMMA AgreeTurn ==
  ASSUME NEW h \in Handlers, Turn(h), NEW u, UserAlone(u), tasks[h].user = u, Onward(h, u)
  PROVE  AgreeOK(u)'
<1>1. \A g \in Handlers : g # h => tasks'[g].user # u
  BY DEF Turn, UserAlone
<1>2. (\A g \in Handlers : tasks[g].user = u => HoldsOK(tasks[g], u))'
  BY <1>1 DEF Onward
<1>3. (Agree(u) \/ \E g \in Handlers : tasks[g].user = u /\ Writing(tasks[g]))'
  BY DEF Onward, Writing
<1> QED
  BY <1>2, <1>3 DEF AgreeOK

\* Only a handler that is writing may leave the two names apart.
LEMMA AgreeNow ==
  ASSUME NEW h \in Handlers, NEW u, UserAlone(u), tasks[h].user = u, AgreeOK(u)
  PROVE  HoldsOK(tasks[h], u) /\ (Writing(tasks[h]) \/ Agree(u))
  BY DEF AgreeOK, UserAlone

\* Nothing changes but where the handler is.
LEMMA AgreePlain ==
  ASSUME TypeInv, NEW h \in Handlers, NEW u \in Folk, NamesSame(u), Agree(u),
         \/ tasks'[h] = Idle
         \/ tasks'[h].pc \notin {"get", "make", "update", "save", "saveName"}
  PROVE  Onward(h, u)
<1>0. NoRow \notin Names /\ None \notin Folk /\ Idle.user = None
  BY WorldFacts DEF TypeInv, Idle
<1>1. Agree(u)'
  BY <1>0, AgreeSame
<1>2. tasks'[h].user = u => HoldsOK(tasks[h], u)'
  <2>1. CASE tasks'[h] = Idle
    BY <1>0, <2>1
  <2>2. CASE tasks'[h].pc \notin {"get", "make", "update", "save", "saveName"}
    BY <2>2 DEF HoldsOK, Writing, Fetches
  <2> QED
    BY <2>1, <2>2
<1> QED
  BY <1>1, <1>2 DEF Onward

LEMMA LookAgree ==
  ASSUME TypeInv, NEW h \in Handlers, LookGhost(h), NEW u \in Folk, u = tasks[h].user,
         HoldsOK(tasks[h], u), Writing(tasks[h]) \/ Agree(u)
  PROVE  Onward(h, u)
<1> DEFINE s == tasks[h]
           t == tasks'[h]
<1>1. /\ UNCHANGED <<cache, rows, profiles, ghosts>>
      /\ s.pc = "get" /\ s.next \in Ways \cup {"update", "bridge"}
      /\ t.pc = (IF cache[u] # None THEN s.next ELSE "make")
      /\ t.row = rows[u] /\ t.next = s.next
  BY LookGhostDoes DEF ghostVars
<1>2. Agree(u)'
  BY <1>1 DEF Writing, Agree, Bare
<1>3. s.next = "update" => cache[u] = None /\ Bare(u)
  BY <1>1 DEF HoldsOK, Fetches
<1>4. ~Writing(t) /\ t.pc # "update" /\ (Fetches(t) => s.next = "update")
  BY <1>1, <1>3 DEF Writing, Fetches, Ways
<1>5. HoldsOK(tasks[h], u)'
  BY <1>1, <1>3, <1>4 DEF HoldsOK, Bare, Writing, Fetches
<1> QED
  BY <1>2, <1>5 DEF Onward

LEMMA GetAgree ==
  ASSUME TypeInv, NEW h \in Handlers, GetGhost(h), NEW u \in Folk, u = tasks[h].user,
         HoldsOK(tasks[h], u), Writing(tasks[h]) \/ Agree(u)
  PROVE  Onward(h, u)
<1> DEFINE s == tasks[h]
           t == tasks'[h]
<1>0. /\ GhostsTypeOK /\ NoRow \notin Names
      /\ rows[u] \in Names \cup {Unnamed, NoRow} /\ NoRow # Unnamed
  BY WorldFacts DEF TypeInv, GhostsTypeOK, NoRow, Unnamed
<1>1. /\ s.pc = "make" /\ s.next \in Ways \cup {"update", "bridge"}
      /\ CanMake /\ MakeGhost(u, s.row, NewObject)
      /\ t.pc = s.next /\ t.object = NewObject /\ t.next = s.next /\ t.row = s.row
  BY GetGhostDoes
<1>2. PICK o \in Objects : o = NewObject
  BY <1>1, NewObjectFree
<1>3. PICK r : r = s.row
  OBVIOUS
<1>4. /\ profiles' = profiles
      /\ rows'[u] = (IF r = NoRow THEN Unnamed ELSE rows[u])
      /\ ghosts'[o] = FromRow(r)
  <2>1. MakeGhost(u, r, o)
    BY <1>1, <1>2, <1>3
  <2> QED
    BY <1>0, <2>1 DEF MakeGhost, GhostsTypeOK
<1>5. FromRow(r).name = (IF r = NoRow THEN Unnamed ELSE r)
  BY DEF FromRow, FreshGhost
<1>6. Agree(u) /\ (r = NoRow => Bare(u))
  BY <1>1, <1>3 DEF Writing, HoldsOK
<1>7. Agree(u)'
  BY <1>0, <1>4, <1>6 DEF Agree, Bare
<1>8. s.next = "update" => Bare(u) /\ r \in {NoRow, Unnamed}
  BY <1>1, <1>3 DEF HoldsOK, Fetches
<1>9. s.next = "update" => ghosts'[t.object].name = NamedInRow(u)'
  BY <1>0, <1>1, <1>2, <1>4, <1>5, <1>8 DEF NamedInRow, Bare
<1>10. HoldsOK(tasks[h], u)'
  BY <1>1, <1>9 DEF HoldsOK, Writing, Fetches, Ways
<1> QED
  BY <1>7, <1>10 DEF Onward

LEMMA FindAgree ==
  ASSUME TypeInv, RowsMade, NEW h \in Handlers, FindExisting(h), NEW u \in Folk,
         u = tasks[h].user, HoldsOK(tasks[h], u), Writing(tasks[h]) \/ Agree(u)
  PROVE  Onward(h, u)
<1> DEFINE s == tasks[h]
           t == tasks'[h]
<1>0. GhostsTypeOK
  BY DEF TypeInv
<1>1. /\ s.pc = "existing"
      /\ \/ UNCHANGED ghostVars /\ t = Idle
         \/ rows[u] = NoRow /\ UNCHANGED ghostVars /\ t.pc = "get" /\ t.next = "update"
         \/ /\ CanMake /\ ExistingGhost(u, NewObject) /\ t.pc \in {"hide", "update"}
            /\ t.object = NewObject
  BY FindExistingDoes
<1>2. Agree(u)
  BY <1>1 DEF Writing
<1>3. CASE UNCHANGED ghostVars /\ t = Idle
  BY <1>2, <1>3, AgreePlain DEF NamesSame, ghostVars
<1>4. CASE rows[u] = NoRow /\ UNCHANGED ghostVars /\ t.pc = "get" /\ t.next = "update"
  <2>1. UNCHANGED <<cache, rows, profiles>> /\ Agree(u)'
    BY <1>2, <1>4 DEF Agree, Bare, ghostVars
  <2>2. cache[u] = None
    BY <1>4 DEF RowsMade, HasRow
  <2>3. HoldsOK(tasks[h], u)'
    BY <1>4, <2>1, <2>2 DEF HoldsOK, Writing, Fetches, Bare
  <2> QED
    BY <2>1, <2>3 DEF Onward
<1>5. CASE /\ CanMake /\ ExistingGhost(u, NewObject) /\ t.pc \in {"hide", "update"}
           /\ t.object = NewObject
  <2>1. PICK o \in Objects : o = NewObject
    BY <1>5, NewObjectFree
  <2>2. ExistingGhost(u, o)
    BY <1>5, <2>1
  <2>3. UNCHANGED <<cache, rows, profiles>> /\ ghosts'[o] = FromRow(rows[u])
    BY <1>0, <2>2 DEF ExistingGhost, GhostsTypeOK
  <2>4. FromRow(rows[u]).name = NamedInRow(u)
    BY DEF FromRow, FreshGhost, NamedInRow
  <2>5. Agree(u)' /\ NamedInRow(u)' = NamedInRow(u)
    BY <1>2, <2>3 DEF Agree, Bare, NamedInRow
  <2>6. ghosts'[t.object].name = NamedInRow(u)'
    BY <1>5, <2>1, <2>3, <2>4, <2>5
  <2>7. HoldsOK(tasks[h], u)'
    BY <1>5, <2>6 DEF HoldsOK, Writing, Fetches
  <2> QED
    BY <2>5, <2>7 DEF Onward
<1> QED
  BY <1>1, <1>3, <1>4, <1>5

\* A handler writes its user's name on Matrix first, and into the row then.
LEMMA WriteAgree ==
  ASSUME TypeInv, NEW h \in Handlers, WriteProfile(h) \/ UpdateUser(h) \/ HideUser(h),
         NEW u \in Folk, u = tasks[h].user,
         HoldsOK(tasks[h], u), Writing(tasks[h]) \/ Agree(u)
  PROVE  Onward(h, u)
<1> DEFINE s == tasks[h]
           t == tasks'[h]
<1>0. GhostsTypeOK
  BY DEF TypeInv
<1>1. CASE UNCHANGED ghostVars /\ t = Idle /\ s.pc = "update"
  BY <1>1, AgreePlain DEF NamesSame, ghostVars, Writing
<1>2. CASE /\ EnsureProfile(u, s.name) \/ SetDisplayName(u, s.name)
           /\ t.pc \in {"save", "saveName"} /\ t.name = s.name /\ t.user = u
  <2>1. PICK n : n = s.name
    OBVIOUS
  <2>2. profiles'[u] = n
    BY <1>0, <1>2, <2>1 DEF EnsureProfile, SetDisplayName, GhostsTypeOK
  <2>3. HoldsOK(tasks[h], u)'
    BY <1>2, <2>1, <2>2 DEF HoldsOK, Fetches
  <2> QED
    BY <1>2, <2>3 DEF Onward, Writing
<1>3. CASE s.pc = "hide" /\ SetDisplayName(u, Deleted) /\ t.pc = "listRooms"
  <2>1. profiles'[u] = Deleted /\ rows' = rows
    BY <1>0, <1>3 DEF SetDisplayName, GhostsTypeOK
  <2>2. Agree(u)
    BY <1>3 DEF Writing
  <2>3. Agree(u)'
    BY <2>1, <2>2 DEF Agree, Bare
  <2>4. HoldsOK(tasks[h], u)'
    BY <1>3 DEF HoldsOK, Fetches, Writing
  <2> QED
    BY <2>3, <2>4 DEF Onward
<1>4. CASE s.pc = "ensure" /\ EndUpdate(s.object) /\ t.pc = "send"
  BY <1>4, AgreePlain DEF NamesSame, EndUpdate, Writing
<1>5. CASE WriteProfile(h)
  <2>1. /\ s.pc = "ensure" /\ Continued(t, s)
        /\ \/ EnsureProfile(s.user, s.name) /\ t.pc = "saveName" /\ t.name = s.name
           \/ EndUpdate(s.object) /\ t.pc = "send"
    BY <1>5, WriteProfileDoes
  <2> QED
    BY <1>2, <1>4, <2>1, ContinuedFacts
<1>6. CASE UpdateUser(h)
  <2>1. /\ s.pc = "update"
        /\ \/ /\ SetDisplayName(s.user, s.name) /\ Continued(t, s) /\ t.pc = "save"
              /\ t.name = s.name
           \/ UNCHANGED ghostVars /\ t = Idle
    BY <1>6, UpdateUserDoes
  <2> QED
    BY <1>1, <1>2, <2>1, ContinuedFacts
<1>7. CASE HideUser(h)
  <2>1. s.pc = "hide" /\ SetDisplayName(s.user, Deleted) /\ t.pc = "listRooms"
    BY <1>7, HideUserDoes
  <2> QED
    BY <1>3, <2>1
<1> QED
  BY <1>5, <1>6, <1>7

LEMMA SaveAgree ==
  ASSUME TypeInv, NEW h \in Handlers, SaveName(h), NEW u \in Folk, u = tasks[h].user,
         HoldsOK(tasks[h], u)
  PROVE  Onward(h, u)
<1> DEFINE s == tasks[h]
           t == tasks'[h]
<1>0. GhostsTypeOK /\ None \notin Folk /\ Idle.user = None
  BY WorldFacts DEF TypeInv, Idle
<1>1. /\ s.pc \in {"saveName", "save"} /\ s.name \in Names
      /\ SaveGhost(u, s.object, s.name, s.pc = "saveName")
      /\ t = Idle \/ t.pc = "send"
  BY SaveNameDoes
<1>2. PICK n \in Names : n = s.name
  BY <1>1
<1>3. rows' = [rows EXCEPT ![u] = n] /\ profiles' = profiles
  BY <1>1, <1>2 DEF SaveGhost, RowNamed
<1>4. rows'[u] = n /\ profiles'[u] = n
  BY <1>0, <1>1, <1>2, <1>3 DEF GhostsTypeOK, HoldsOK, Writing
<1>5. Agree(u)'
  BY <1>4 DEF Agree
<1>6. t.user = u => HoldsOK(tasks[h], u)'
  BY <1>0, <1>1 DEF HoldsOK, Writing, Fetches
<1> QED
  BY <1>5, <1>6 DEF Onward

LEMMA FolkAgree ==
  ASSUME TypeInv, RowsMade, NEW h \in Handlers, FolkSteps(h), NEW u \in Folk, u = tasks[h].user,
         UserAlone(u), AgreeOK(u)
  PROVE  AgreeOK(u)'
<1> DEFINE s == tasks[h]
           t == tasks'[h]
<1>0. HoldsOK(s, u) /\ (Writing(s) \/ Agree(u)) /\ Turn(h) /\ GhostsTypeOK
  BY AgreeNow, FolkStepsDo DEF TypeInv
<1>1. CASE LookGhost(h)
  BY <1>0, <1>1, LookAgree, AgreeTurn
<1>2. CASE GetGhost(h)
  BY <1>0, <1>2, GetAgree, AgreeTurn
<1>3. CASE FindExisting(h)
  BY <1>0, <1>3, FindAgree, AgreeTurn
<1>4. CASE WriteProfile(h) \/ UpdateUser(h) \/ HideUser(h)
  BY <1>0, <1>4, WriteAgree, AgreeTurn
<1>5. CASE SaveName(h)
  BY <1>0, <1>5, SaveAgree, AgreeTurn
<1>6. CASE GhostJoins(h) \/ BotInvites(h) \/ GhostLeaves(h) \/ SendMessage(h) \/ LeaveRooms(h)
  <2>1. /\ UNCHANGED ghostVars /\ t = Idle
        /\ s.pc \in {"join", "inviteAs", "inviteUser", "leave", "send", "leaveRooms"}
    BY <1>6, GhostJoinsDoes, BotInvitesDoes, GhostLeavesDoes, SendMessageDoes, LeaveRoomsDoes
  <2> QED
    BY <1>0, <2>1, AgreePlain, AgreeTurn DEF NamesSame, ghostVars, Writing
<1>7. CASE LookUpdate(h) \/ AskSlack(h) \/ ListRooms(h)
  <2>1. s.pc \in {"message", "ask", "listRooms"}
    BY <1>7, LookUpdateDoes, AskSlackDoes, ListRoomsDoes
  <2>2. t.pc \in {"send", "ask", "ensure", "leaveRooms"}
    BY <1>7, LookUpdateDoes, AskSlackDoes, ListRoomsDoes
  <2>3. UNCHANGED <<cache, rows, profiles>>
    <3>1. CASE LookUpdate(h)
      <4>1. UNCHANGED ghostVars \/ BeginUpdate(s.object)
        BY <3>1, LookUpdateDoes
      <4> QED
        BY <4>1 DEF ghostVars, BeginUpdate
    <3>2. CASE AskSlack(h)
      <4>1. Answered(s.user, s.object) \/ NotAnswered(s.object)
        BY <3>2, AskSlackDoes
      <4> QED
        BY <4>1 DEF Answered, NotAnswered
    <3>3. CASE ListRooms(h)
      BY <3>3, ListRoomsDoes DEF ghostVars
    <3> QED
      BY <1>7, <3>1, <3>2, <3>3
  <2> QED
    BY <1>0, <2>1, <2>2, <2>3, AgreePlain, AgreeTurn DEF NamesSame, Writing
<1> QED
  BY <1>1, <1>2, <1>3, <1>4, <1>5, <1>6, <1>7 DEF FolkSteps, LookSteps

\* The creator of a channel, and who is crossed by a call that failed.
LEMMA OwnAgree ==
  ASSUME TypeInv, RowsMade, NEW h \in Handlers, OwnSteps(h), NEW u \in Folk, u = tasks[h].user,
         u \notin crossed', UserAlone(u), AgreeOK(u)
  PROVE  AgreeOK(u)'
<1>0. HoldsOK(tasks[h], u) /\ (Writing(tasks[h]) \/ Agree(u)) /\ Turn(h)
  BY AgreeNow, OwnStepsDo
<1>1. CASE FolkSteps(h)
  BY <1>1, FolkAgree
<1>2. CASE LookSteps(h)
  BY <1>0, <1>2, LookAgree, GetAgree, AgreeTurn DEF LookSteps
<1>3. CASE BridgeSteps(h) /\ ~LookSteps(h)
  <2>1. /\ UNCHANGED ghostVars /\ tasks[h].pc \in {"askBot", "get", "make"}
        /\ tasks'[h].pc \in {"get", "bridge"} /\ Bridging(tasks'[h])
    BY <1>3, BridgeStepsDo
  <2>2. Agree(u)'
    BY <1>0, <2>1 DEF Writing, Agree, Bare, ghostVars
  <2>3. HoldsOK(tasks[h], u)'
    BY <2>1 DEF HoldsOK, Writing, Fetches, Bridging
  <2> QED
    BY <1>0, <2>2, <2>3, AgreeTurn DEF Onward
<1>4. CASE FailSteps(h)
  <2>1. /\ UNCHANGED <<cache, rows, profiles>> /\ tasks'[h] = Idle
        /\ tasks[h].pc \in Calls
    BY <1>4, FailStepsDo
  <2>2. NamesSame(u) /\ Agree(u)
    BY <1>0, <2>1 DEF NamesSame, Writing, Calls
  <2> QED
    BY <1>0, <2>1, <2>2, AgreePlain, AgreeTurn
<1> QED
  BY <1>1, <1>2, <1>3, <1>4 DEF OwnSteps

\* A sync makes a row without a name for who it is to move into a room.
LEMMA ChannelStepsRows ==
  ASSUME TypeInv, NEW h \in Handlers, ChannelSteps(h), NEW u \in Folk
  PROVE  rows'[u] = rows[u] \/ (rows[u] = NoRow /\ rows'[u] = Unnamed)
<1>1. CASE ListMembers(h)
  BY <1>1 DEF ListMembers
<1>2. CASE ~ListMembers(h)
  BY <1>2, BridgeChannelDoes, EnsureBotDoes, ListGhostsDoes, MoveMembersDoes, UnlinkDeletedDoes,
     DrainRoomDoes DEF ChannelSteps, ghostVars
<1> QED
  BY <1>1, <1>2

\* Handlers that have no user, or begin with one.
LEMMA OthersAgree ==
  ASSUME TypeInv, NEW h \in Handlers,
         Begins(h) \/ ChannelSteps(h) \/ MatrixSteps(h), NEW u \in Folk, AgreeOK(u)
  PROVE  AgreeOK(u)'
<1>0. None \notin Folk /\ Idle.user = None
  BY WorldFacts DEF TypeInv, Idle
<1>1. Turn(h) /\ ghosts' = ghosts
  BY BeginsDoes, ChannelStepsDo, MatrixStepsDo DEF ghostVars
<1>6. tasks[h].user = None \/ (~Writing(tasks[h]) /\ tasks'[h].user = None)
  <2>1. CASE BridgeChannel(h)
    <3>1. tasks[h].pc = "bridge" /\ tasks'[h].user = None
      BY <1>0, <2>1, BridgeChannelDoes, ChannelStepsDo DEF ChannelSteps
    <3> QED
      BY <3>1 DEF Writing
  <2> QED
    BY <1>0, <2>1, BeginsDoes, ChannelStepsDo, MatrixStepsDo
<1>2. NamesSame(u)
  <2>1. CASE UNCHANGED ghostVars
    BY <2>1 DEF NamesSame, ghostVars
  <2>2. CASE ChannelSteps(h)
    <3>1. UNCHANGED <<cache, profiles>>
      BY <2>2, ChannelStepsDo
    <3>2. rows'[u] = rows[u] \/ (rows[u] = NoRow /\ rows'[u] = Unnamed)
      BY <2>2, ChannelStepsRows
    <3> QED
      BY <3>1, <3>2 DEF NamesSame
  <2> QED
    BY <2>1, <2>2, BeginsDoes, MatrixStepsDo
<1>3. tasks'[h].user = u => HoldsOK(tasks[h], u)'
  <2>1. CASE Begins(h)
    <3>1. tasks'[h].user = None \/ Wayfarer(tasks'[h]) \/ tasks'[h].pc \in {"existing", "askBot"}
      BY <2>1, BeginsWith
    <3> QED
      BY <1>0, <3>1 DEF Wayfarer, Ways, HoldsOK, Writing, Fetches
  <2>2. CASE ChannelSteps(h) \/ MatrixSteps(h)
    BY <1>0, <2>2, ChannelStepsDo, MatrixStepsDo, ContinuedFacts
  <2> QED
    BY <2>1, <2>2
<1>4. \A g \in Handlers : tasks[g].user # u /\ tasks'[g].user = u => HoldsOK(tasks[g], u)'
  BY <1>1, <1>3 DEF Turn
<1>5. \A g \in Handlers : tasks[g].user = u =>
          \/ /\ tasks'[g] = tasks[g]
             /\ tasks[g].pc = "update" =>
                    ghosts'[tasks[g].object].name = ghosts[tasks[g].object].name
          \/ ~Writing(tasks[g]) /\ (tasks'[g].user = u => HoldsOK(tasks[g], u)')
  BY <1>0, <1>1, <1>6 DEF Turn
<1> QED
  BY <1>2, <1>4, <1>5, AgreeAside

LEMMA RestartAgree ==
  ASSUME TypeInv, Restart, NEW u \in Folk, u \notin crossed', AgreeOK(u)
  PROVE  AgreeOK(u)'
<1>0. None \notin Folk /\ Idle.user = None
  BY WorldFacts DEF TypeInv, Idle
<1>1. (\A h \in Handlers : tasks'[h] = Idle) /\ UNCHANGED <<rows, profiles>>
  BY DEF Restart
<1>5. ASSUME NEW h \in Handlers, Writing(tasks[h]) PROVE tasks[h].user # u
  <2>1. tasks[h].user \in {t.user : t \in {t \in {tasks[g] : g \in Handlers} :
                                              t.pc \in {"save", "saveName"}}}
    BY <1>5 DEF Writing
  <2>2. {t.user : t \in {t \in {tasks[g] : g \in Handlers} : t.pc \in {"save", "saveName"}}}
            \ {None} \subseteq crossed'
    BY DEF Restart
  <2> QED
    BY <1>0, <2>1, <2>2
<1>2. Agree(u)
  BY <1>5 DEF AgreeOK
<1>3. Agree(u)'
  BY <1>1, <1>2 DEF Agree, Bare
<1>4. \A h \in Handlers : tasks'[h].user # u
  BY <1>0, <1>1
<1> QED
  BY <1>3, <1>4 DEF AgreeOK

\* What becomes of a user that nothing is known of.
LEMMA StillAgree ==
  ASSUME tasks' = tasks, UNCHANGED <<cache, rows, profiles>>, TypeInv, NEW u \in Folk, AgreeOK(u),
         \A o \in Objects : ghosts'[o].name = ghosts[o].name
  PROVE  AgreeOK(u)'
<1>1. NamesSame(u)
  BY DEF NamesSame
<1>2. \A h \in Handlers : tasks[h].pc = "update" => tasks[h].object \in Objects
  BY TaskFacts DEF TaskOK
<1> QED
  BY <1>1, <1>2, AgreeAside

LEMMA ForgetsNames ==
  ASSUME TypeInv, Forgets
  PROVE  /\ UNCHANGED <<cache, rows, profiles, tasks, crossed, slackNames, reverted>>
         /\ \A o \in Objects : ghosts'[o].name = ghosts[o].name
<1>0. ghosts \in [Objects -> Ghosts]
  BY DEF TypeInv, GhostsTypeOK
<1>1. PICK o \in Objects : InfoExpires(o)
  BY DEF Forgets
<1>2. ghosts' = [ghosts EXCEPT ![o].info = None]
  BY <1>1 DEF InfoExpires
<1>3. \A p \in Objects : ghosts'[p].name = ghosts[p].name
  BY <1>0, <1>2, ZenonT(30) DEF Ghosts
<1>4. UNCHANGED <<cache, rows, profiles, slackNames, reverted>>
  BY <1>1 DEF InfoExpires
<1>5. UNCHANGED <<tasks, crossed>>
  BY DEF Forgets
<1> QED
  BY <1>3, <1>4, <1>5

\* What was crossed remains so.
LEMMA CrossedGrows ==
  ASSUME TypeInv, [Next]_vars
  PROVE  crossed \subseteq crossed'
<1>1. CASE Outside
  <2>1. CASE Restart
    <3>1. None \notin crossed
      BY WorldFacts DEF TypeInv, HistoryOK
    <3> QED
      BY <2>1, <3>1 DEF Restart
  <2> QED
    BY <1>1, <2>1, OutsideDoes
<1>2. CASE ListChannels \/ Forgets \/ UNCHANGED vars
  BY <1>2 DEF ListChannels, Forgets, vars
<1>3. ASSUME NEW h \in Handlers, Begins(h) \/ ChannelSteps(h) \/ MatrixSteps(h) \/ OwnSteps(h)
      PROVE  crossed \subseteq crossed'
  BY <1>3, BeginsDoes, ChannelStepsDo, MatrixStepsDo, OwnStepsDo
<1> QED
  BY <1>1, <1>2, <1>3, NextDoes DEF OwnSteps

LEMMA AgreeStep ==
    TypeInv /\ RowsMade /\ UsersAlone /\ ObjectsOwned /\ AgreeInv /\ [Next]_vars => AgreeInv'
<1> SUFFICES ASSUME TypeInv, RowsMade, UsersAlone, ObjectsOwned, AgreeInv, [Next]_vars,
                    NEW u \in Folk, u \notin crossed'
             PROVE  AgreeOK(u)'
  BY DEF AgreeInv
<1>0. AgreeOK(u) /\ UserAlone(u)
  BY CrossedGrows DEF AgreeInv, UsersAlone
<1>1. CASE Restart
  BY <1>0, <1>1, RestartAgree
<1>2. CASE (Outside /\ ~Restart) \/ ListChannels \/ UNCHANGED vars
  <2>1. UNCHANGED <<tasks, cache, rows, profiles, ghosts>>
    BY <1>2, OutsideDoes DEF ListChannels, vars, ghostVars
  <2> QED
    BY <1>0, <2>1, StillAgree
<1>3. CASE Forgets
  BY <1>0, <1>3, ForgetsNames, StillAgree
<1>4. ASSUME NEW h \in Handlers, Begins(h) \/ ChannelSteps(h) \/ MatrixSteps(h)
      PROVE  AgreeOK(u)'
  BY <1>0, <1>4, OthersAgree
<1>5. ASSUME NEW h \in Handlers, OwnSteps(h) PROVE AgreeOK(u)'
  <2>1. CASE tasks[h].user = u
    BY <1>0, <1>5, <2>1, OwnAgree
  <2>2. CASE tasks[h].user # u
    BY <1>0, <1>5, <2>2, OwnAgreeAside
  <2> QED
    BY <2>1, <2>2
<1> QED
  BY <1>1, <1>2, <1>3, <1>4, <1>5, NextDoes DEF OwnSteps

LEMMA AgreeStart == Init /\ TypeInv => AgreeInv
<1> SUFFICES ASSUME Init, TypeInv, NEW u \in Folk PROVE AgreeOK(u)
  BY DEF AgreeInv
<1>1. None \notin Folk /\ Idle.user = None
  BY WorldFacts DEF TypeInv, Idle
<1>2. rows[u] = NoRow /\ profiles[u] = Unnamed /\ \A h \in Handlers : tasks[h] = Idle
  BY DEF Init, GhostsInit
<1> QED
  BY <1>1, <1>2 DEF AgreeOK, Agree, Bare

-----------------------------------------------------------------------------
(* Names: whether what is written, or about to be, is what the user is called *)

Tells(u) == TellsDeleted(u) \/ TellsRestored(u)

\* A handler that will bring the row to what the user is called.
Updating(t) == (t.pc = "existing" /\ ~t.flag) \/ Stage(t) = "update" \/ t.pc = "save"

\* He is called that, or the news that he is not is on the way.
Recent(n, u) == n = slackNames[u] \/ Tells(u)

ListedNow(u) == \E listed \in toSync.users : listed.user = u
Updated(u) == \E h \in Handlers : tasks[h].user = u /\ (Updating(tasks[h]) \/ Writing(tasks[h]))

Current(u) == Bare(u) \/ Recent(rows[u], u) \/ ListedNow(u) \/ Updated(u)

\* What a handler of the user writes.
WritesOK(t, u) ==
    /\ Updating(t) => Recent(t.name, u)
    /\ Writing(t) => u \in reverted \/ Recent(t.name, u)

CurrentOK(u) ==
    u \in world.folk \ gone =>
        /\ u \in reverted \/ Current(u)
        /\ \A h \in Handlers : tasks[h].user = u => WritesOK(tasks[h], u)
        /\ \A listed \in toSync.users : listed.user = u => Recent(listed.name, u)

CurrentInv == \A u \in Folk : u \notin crossed => CurrentOK(u)

LEMMA TellsCurrent == ASSUME NEW u, Tells(u) PROVE CurrentOK(u)
  BY DEF CurrentOK, Current, WritesOK, Recent

\* What is said and what is so, for a step that is not about the user.
SaidSame(u) ==
    /\ world' = world /\ (u \in gone' <=> u \in gone) /\ slackNames'[u] = slackNames[u]
    /\ Tells(u) => Tells(u)'
    /\ \A listed : listed.user = u => (listed \in toSync'.users <=> listed \in toSync.users)

RowSame(u) ==
    /\ u \in reverted => u \in reverted'
    /\ rows'[u] = rows[u] \/ (Bare(u) /\ rows'[u] \in {NoRow, Unnamed})

LEMMA RecentSame ==
  ASSUME NEW u, SaidSame(u), NEW n, Recent(n, u)
  PROVE  n = slackNames'[u] \/ Tells(u)'
  BY DEF SaidSame, Recent

LEMMA CurrentAside ==
  ASSUME NEW u, CurrentOK(u), SaidSame(u), RowSame(u),
         \A g \in Handlers :
             \/ tasks'[g] = tasks[g]
             \/ /\ tasks[g].user = u => ~Updating(tasks[g]) /\ ~Writing(tasks[g])
                /\ tasks'[g].user = u => ~Updating(tasks'[g]) /\ ~Writing(tasks'[g])
  PROVE  CurrentOK(u)'
<1>0. SUFFICES ASSUME u \in world'.folk \ gone', ~Tells(u)'
               PROVE  CurrentOK(u)'
  <2>1. Tells(u)' => CurrentOK(u)'
    BY DEF CurrentOK, Current, WritesOK, Recent
  <2> QED
    BY <2>1 DEF CurrentOK
<1>1. /\ u \in world.folk \ gone /\ ~Tells(u) /\ slackNames'[u] = slackNames[u]
      /\ \A listed : listed.user = u => (listed \in toSync'.users <=> listed \in toSync.users)
  BY <1>0 DEF SaidSame
<1>2. /\ u \in reverted \/ Current(u)
      /\ \A h \in Handlers : tasks[h].user = u => WritesOK(tasks[h], u)
      /\ \A listed \in toSync.users : listed.user = u => Recent(listed.name, u)
  BY <1>1 DEF CurrentOK
<1>3. u \in reverted' \/ Current(u)'
  <2>1. CASE u \in reverted
    BY <2>1 DEF RowSame
  <2>2. CASE Bare(u) \/ Recent(rows[u], u)
    BY <1>1, <2>2 DEF Current, RowSame, Bare, Recent
  <2>3. CASE ListedNow(u)
    BY <1>1, <2>3 DEF Current, ListedNow
  <2>4. CASE Updated(u)
    <3>1. PICK h \in Handlers : tasks[h].user = u /\ (Updating(tasks[h]) \/ Writing(tasks[h]))
      BY <2>4 DEF Updated
    <3>2. tasks'[h] = tasks[h]
      BY <3>1
    <3> QED
      BY <3>1, <3>2 DEF Current, Updated, Updating, Writing, Stage
  <2> QED
    BY <1>2, <2>1, <2>2, <2>3, <2>4 DEF Current
<1>4. ASSUME NEW g \in Handlers, tasks'[g].user = u PROVE WritesOK(tasks[g], u)'
  <2>1. CASE tasks'[g] = tasks[g]
    BY <1>1, <1>2, <1>4, <2>1 DEF WritesOK, Updating, Writing, Stage, Recent, RowSame
  <2>2. CASE tasks'[g] # tasks[g]
    BY <1>4, <2>2 DEF WritesOK, Updating, Writing, Stage
  <2> QED
    BY <2>1, <2>2
<1>5. (\A listed \in toSync.users : listed.user = u => Recent(listed.name, u))'
  BY <1>1, <1>2 DEF Recent
<1> QED
  BY <1>3, <1>4, <1>5 DEF CurrentOK

\* The only handler of a user goes on: what it is to hold then.
Written(h, u) ==
    /\ \/ u \in reverted' \/ Bare(u)' \/ Recent(rows[u], u)' \/ ListedNow(u)'
       \/ tasks'[h].user = u /\ (Updating(tasks'[h]) \/ Writing(tasks'[h]))
    /\ tasks'[h].user = u => WritesOK(tasks[h], u)'

LEMMA CurrentTurn ==
  ASSUME NEW h \in Handlers, Turn(h), NEW u, UserAlone(u), tasks[h].user = u,
         CurrentOK(u), SaidSame(u),
         u \in world.folk \ gone => Written(h, u)
  PROVE  CurrentOK(u)'
<1>0. SUFFICES ASSUME u \in world'.folk \ gone' PROVE CurrentOK(u)'
  BY DEF CurrentOK
<1>1. u \in world.folk \ gone
  BY <1>0 DEF SaidSame
<1>2. \A g \in Handlers : g # h => tasks'[g].user # u
  BY DEF Turn, UserAlone
<1>3. u \in reverted' \/ Current(u)'
  BY <1>1 DEF Written, Current, Updated, Updating, Writing, Stage
<1>4. (\A g \in Handlers : tasks[g].user = u => WritesOK(tasks[g], u))'
  BY <1>1, <1>2 DEF Written
<1>5. (\A listed \in toSync.users : listed.user = u => Recent(listed.name, u))'
  <2>1. ASSUME NEW listed \in toSync'.users, listed.user = u
        PROVE  listed.name = slackNames'[u] \/ Tells(u)'
    <3>1. listed \in toSync.users
      BY <2>1 DEF SaidSame
    <3>2. Recent(listed.name, u)
      BY <1>1, <2>1, <3>1 DEF CurrentOK
    <3> QED
      BY <3>2, RecentSame
  <2> QED
    BY <2>1 DEF Recent
<1> QED
  BY <1>3, <1>4, <1>5 DEF CurrentOK

\* What is known of the only handler of a user.
LEMMA CurrentNow ==
  ASSUME NEW h \in Handlers, NEW u, UserAlone(u), tasks[h].user = u, CurrentOK(u),
         u \in world.folk \ gone
  PROVE  /\ WritesOK(tasks[h], u)
         /\ \/ u \in reverted \/ Bare(u) \/ Recent(rows[u], u) \/ ListedNow(u)
            \/ Updating(tasks[h]) \/ Writing(tasks[h])
  BY DEF CurrentOK, Current, Updated, UserAlone

LEMMA SameSaid ==
  ASSUME NEW u, Tells(u),
         slackQueue' = slackQueue \/ \E type, v, c, n, f : Appended(type, v, c, n, f)
  PROVE  Tells(u)'
<1>1. CASE slackQueue' = slackQueue
  BY <1>1 DEF Tells, TellsDeleted, TellsRestored, Told
<1>2. CASE \E type, v, c, n, f : Appended(type, v, c, n, f)
  BY <1>2, NewsDeleted, AppendedKeeps DEF Tells
<1> QED
  BY <1>1, <1>2

LEMMA NewsSaid ==
  ASSUME NEW type, NEW v, NEW c, NEW n, NEW f, Appended(type, v, c, n, f),
         NEW u, type = "user", v = u
  PROVE  Tells(u)'
<1>1. PICK k \in Nat : k = Len(slackQueue') /\ k >= 1
  BY DEF Appended
<1>2. slackQueue'[k].type = "user" /\ slackQueue'[k].user = u
  BY <1>1 DEF Appended
<1>3. k \in 1..Len(slackQueue')
  BY <1>1
<1>4. (\E i \in 1..Len(slackQueue) : Told(i, u))'
  BY <1>2, <1>3 DEF Told
<1> QED
  BY <1>4 DEF Tells, TellsDeleted, TellsRestored

LEMMA OutsideCurrent ==
  ASSUME TypeInv, Outside, ~Restart, NEW u \in Folk, CurrentOK(u)
  PROVE  CurrentOK(u)'
<1>1. UNCHANGED <<world, tasks, toSync, rows, reverted>>
  BY OutsideDoes DEF bridge
<1>2. Quietly \/ \E type, v, c, n, f : News(type, v, c, n, f)
  BY OutsideNews
<1>3. RowSame(u)
  BY <1>1 DEF RowSame
<1>4. CASE Quietly
  <2>1. SaidSame(u)
    BY <1>1, <1>4, SameSaid DEF SaidSame, Quietly
  <2> QED
    BY <1>1, <1>3, <2>1, CurrentAside
<1>5. CASE \E type, v, c, n, f : News(type, v, c, n, f)
  <2>1. PICK type, v, c, n, f : News(type, v, c, n, f)
    BY <1>5
  <2>2. Appended(type, v, c, n, f)
    BY <2>1 DEF News
  <2>3. CASE type = "user" /\ v = u
    <3>1. Tells(u)'
      BY <2>2, <2>3, NewsSaid
    <3> QED
      BY <3>1 DEF CurrentOK, Current, WritesOK, Recent
  <2>4. CASE ~(type = "user" /\ v = u)
    <3>1. (u \in gone' <=> u \in gone) /\ slackNames'[u] = slackNames[u]
      BY <2>1, <2>4 DEF News
    <3>2. SaidSame(u)
      BY <1>1, <2>2, <3>1, SameSaid DEF SaidSame
    <3> QED
      BY <1>1, <1>3, <3>2, CurrentAside
  <2> QED
    BY <2>3, <2>4
<1> QED
  BY <1>2, <1>4, <1>5

\* Nothing was under way about a user whom no list of users names, unless he is crossed.
LEMMA RestartUnlisted ==
  ASSUME TypeInv, Restart, NEW u \in Folk, u \notin crossed', CurrentOK(u), toSync'.users = {},
         world.folk # {}
  PROVE  CurrentOK(u)'
<1>0. None \notin Folk /\ Idle.user = None
  BY WorldFacts DEF TypeInv, Idle
<1>1. /\ \A h \in Handlers : tasks'[h] = Idle
      /\ UNCHANGED <<world, gone, slackNames, rows, reverted>>
      /\ slackQueue' = IF Happens("rtm") THEN <<>> ELSE slackQueue
  BY DEF Restart, slack
<1>2. PICK users :
         /\ users \in {{[user |-> v, name |-> slackNames[v], deleted |-> v \in gone] :
                           v \in world.folk}, {}}
         /\ toSync'.users = users
         /\ users = {} =>
               /\ {t.user : t \in {tasks[h] : h \in Handlers}} \ {None} \subseteq crossed'
               /\ {l.user : l \in toSync.users} \ {None} \subseteq crossed'
               /\ Happens("rtm") =>
                     {e.user : e \in {slackQueue[i] : i \in DOMAIN slackQueue}} \ {None}
                         \subseteq crossed'
  <2>1. PICK v : v \in world.folk
    OBVIOUS
  <2>2. {[user |-> w, name |-> slackNames[w], deleted |-> w \in gone] : w \in world.folk} # {}
    BY <2>1
  <2> QED
    BY <2>2 DEF Restart
<1>3. /\ \A h \in Handlers : tasks[h].user # u
      /\ \A l \in toSync.users : l.user # u
      /\ Happens("rtm") => \A i \in DOMAIN slackQueue : slackQueue[i].user # u
  BY <1>0, <1>2
<1>4. Tells(u)' <=> Tells(u)
  <2>1. CASE Happens("rtm")
    <3>1. ~Tells(u)
      <4>1. DOMAIN slackQueue = 1..Len(slackQueue)
        BY DEF TypeInv, SlackQueueOK
      <4> QED
        BY <1>3, <2>1, <4>1 DEF Tells, TellsDeleted, TellsRestored, Told
    <3>2. Len(slackQueue') = 0
      BY <1>1, <2>1
    <3>3. ~Tells(u)'
      BY <3>2 DEF Tells, TellsDeleted, TellsRestored
    <3> QED
      BY <3>1, <3>3
  <2>2. CASE ~Happens("rtm")
    BY <1>1, <2>2 DEF Tells, TellsDeleted, TellsRestored, Told
  <2> QED
    BY <2>1, <2>2
<1>5. SaidSame(u) /\ RowSame(u)
  BY <1>1, <1>3, <1>4 DEF SaidSame, RowSame
<1> QED
  BY <1>0, <1>1, <1>3, <1>5, CurrentAside

LEMMA RestartListed ==
  ASSUME TypeInv, Restart, NEW u \in Folk,
         toSync'.users = {[user |-> v, name |-> slackNames[v], deleted |-> v \in gone] :
                              v \in world.folk}
  PROVE  CurrentOK(u)'
<1>0. None \notin Folk /\ Idle.user = None
  BY WorldFacts DEF TypeInv, Idle
<1>1. /\ \A h \in Handlers : tasks'[h] = Idle
      /\ UNCHANGED <<world, gone, slackNames>>
      /\ toSync'.users = {[user |-> v, name |-> slackNames[v], deleted |-> v \in gone] :
                             v \in world.folk}
  BY DEF Restart, slack
<1>2. \A listed \in toSync'.users : listed.user = u => listed.name = slackNames'[u]
  BY <1>1
<1>3. u \in world'.folk => ListedNow(u)'
  <2>1. ASSUME u \in world.folk PROVE \E listed \in toSync'.users : listed.user = u
    <3>1. PICK l : l = [user |-> u, name |-> slackNames[u], deleted |-> u \in gone]
      OBVIOUS
    <3>2. l \in toSync'.users /\ l.user = u
      BY <1>1, <2>1, <3>1
    <3> QED
      BY <3>2
  <2> QED
    BY <1>1, <2>1 DEF ListedNow
<1>4. \A h \in Handlers : tasks'[h].user # u
  BY <1>0, <1>1
<1> QED
  BY <1>2, <1>3, <1>4 DEF CurrentOK, Current, Recent

LEMMA RestartCurrent ==
  ASSUME TypeInv, Restart, NEW u \in Folk, u \notin crossed', CurrentOK(u)
  PROVE  CurrentOK(u)'
<1>1. \/ toSync'.users = {}
      \/ toSync'.users = {[user |-> v, name |-> slackNames[v], deleted |-> v \in gone] :
                              v \in world.folk}
  BY DEF Restart
<1>2. CASE world.folk = {}
  <2>1. world' = world
    BY DEF Restart
  <2> QED
    BY <1>2, <2>1 DEF CurrentOK
<1> QED
  BY <1>1, <1>2, RestartUnlisted, RestartListed

\* An event about somebody else, or that is not about who he is.
LEMMA SlackCurrentAside ==
  ASSUME TypeInv, NEW h \in Handlers, HandleSlack(h), NEW u \in Folk, CurrentOK(u),
         ~(Head(slackQueue).type = "user" /\ Head(slackQueue).user = u)
  PROVE  CurrentOK(u)'
<1>0. None \notin Folk /\ Idle.user = None
  BY WorldFacts DEF TypeInv, Idle
<1>1. /\ slackQueue # <<>> /\ slackQueue' = Tail(slackQueue) /\ Handles(h, Head(slackQueue))
      /\ UNCHANGED <<world, slack, bridge, ghostVars>>
  BY HandleSlackDoes
<1>2. Turn(h) /\ tasks[h] = Idle
  BY BeginsDoes DEF Begins
<1>3. Tells(u) => Tells(u)'
  <2>1. Shifted /\ ~Told(1, u)
    BY <1>1, TailShifts DEF Told
  <2> QED
    BY <2>1, ShiftDeleted, ShiftKeeps DEF Tells
<1>4. SaidSame(u) /\ RowSame(u)
  BY <1>1, <1>3 DEF SaidSame, RowSame, slack, bridge, ghostVars
<1>5. tasks'[h].user = u => Wayfarer(tasks'[h]) \/ tasks'[h].pc = "askBot"
  BY <1>0, <1>1, <1>2, HandlesFolk DEF SaidTask
<1>6. tasks'[h].user = u => ~Updating(tasks'[h]) /\ ~Writing(tasks'[h])
  BY <1>5 DEF Wayfarer, Ways, Updating, Writing, Stage
<1> QED
  BY <1>0, <1>2, <1>4, <1>6, CurrentAside DEF Turn

\* The event says of the user what is so, or another one says more.
LEMMA SaidLast ==
  ASSUME TypeInv, LastTells, slackQueue # <<>>, slackQueue' = Tail(slackQueue), NEW u \in Folk,
         Told(1, u), u \notin gone
  PROVE  Tells(u)' \/ (~slackQueue[1].flag /\ slackQueue[1].name = slackNames[u])
<1>0. Shifted /\ 1 \in 1..Len(slackQueue)
  BY TailShifts
<1>1. PICK j \in 1..Len(slackQueue) : TellsNow(j, u)
  BY <1>0 DEF LastTells, Told
<1>2. CASE j = 1
  BY <1>1, <1>2 DEF TellsNow
<1>3. CASE j # 1
  <2>1. PICK i \in 1..Len(slackQueue') : slackQueue'[i] = slackQueue[j]
    BY <1>0, <1>3 DEF Shifted
  <2>2. (\E k \in 1..Len(slackQueue) : Told(k, u))'
    BY <1>1, <2>1 DEF Told, TellsNow
  <2> QED
    BY <2>2 DEF Tells, TellsDeleted, TellsRestored
<1> QED
  BY <1>2, <1>3

\* A handler begins with a user whom nothing else is about.
LEMMA BeganCurrent ==
  ASSUME NEW h \in Handlers, NEW u, NEW n, NEW f, SaidTask(tasks'[h], u, n, f),
         \A g \in Handlers : g # h => tasks'[g].user # u,
         \A listed \in toSync'.users : listed.user = u => Recent(listed.name, u)',
         u \in world'.folk \ gone' => Tells(u)' \/ (~f /\ n = slackNames'[u])
  PROVE  CurrentOK(u)'
<1>0. SUFFICES ASSUME u \in world'.folk \ gone', ~Tells(u)' PROVE CurrentOK(u)'
  BY DEF CurrentOK, Current, WritesOK, Recent
<1>1. ~f /\ n = slackNames'[u] /\ tasks'[h].user = u /\ tasks'[h].pc = "existing"
      /\ ~tasks'[h].flag /\ tasks'[h].name = n
  BY <1>0 DEF SaidTask
<1>2. Updated(u)'
  BY <1>1 DEF Updated, Updating
<1>3. WritesOK(tasks[h], u)'
  BY <1>1 DEF WritesOK, Recent, Writing
<1> QED
  BY <1>2, <1>3 DEF CurrentOK, Current

LEMMA SlackCurrentOwn ==
  ASSUME TypeInv, LastTells, NEW h \in Handlers, HandleSlack(h), NEW u \in Folk, u \notin crossed',
         Head(slackQueue).type = "user", Head(slackQueue).user = u
  PROVE  CurrentOK(u)'
<1>1. PICK e : e = Head(slackQueue)
  OBVIOUS
<1>2. /\ slackQueue # <<>> /\ slackQueue' = Tail(slackQueue)
      /\ UNCHANGED <<world, slack, bridge, ghostVars>>
      /\ crossed' = crossed \cup CrossedBy(h, Users(e), e.channel) \cup Awaited(e)
      /\ Start(h, SyncUser(e.user, e.name, e.flag))
  BY <1>1, HandleSlackDoes
<1>3. SlackEventOK(e, Channel) /\ e.flag \in BOOLEAN /\ e = slackQueue[1]
      /\ tasks \in [Handlers -> Tasks] /\ e.type = "user" /\ e.user = u
  BY <1>1, <1>2, HeadFacts, TailShifts DEF TypeInv, TasksOK
<1>4. PICK n \in Names, f \in BOOLEAN : n = e.name /\ f = e.flag
  BY <1>3 DEF SlackEventOK
<1>5. SaidTask(tasks'[h], u, n, f)
  <2>1. tasks'[h] = SyncUser(u, n, f)
    BY <1>2, <1>3, <1>4 DEF Start
  <2> QED
    BY <2>1, SyncUserFacts DEF SaidTask
<1>6. \A g \in Handlers : g # h => tasks'[g].user # u
  <2>1. Turn(h)
    BY BeginsDoes DEF Begins
  <2>2. u \in Users(e) /\ u \notin CrossedBy(h, Users(e), e.channel)
    BY <1>2, <1>3 DEF Users
  <2> QED
    BY <2>1, <2>2, NotCrossedUser DEF Turn
<1>7. \A listed \in toSync'.users : listed.user # u
  BY <1>2, <1>3 DEF Awaited, Users, bridge
<1>8. u \in world'.folk \ gone' => Tells(u)' \/ (~f /\ n = slackNames'[u])
  <2>1. Told(1, u) /\ gone' = gone /\ slackNames' = slackNames
    BY <1>2, <1>3 DEF Told, slack, ghostVars
  <2> QED
    BY <1>2, <1>3, <1>4, <2>1, SaidLast
<1> QED
  BY <1>5, <1>6, <1>7, <1>8, BeganCurrent

LEMMA ListedCurrent ==
  ASSUME TypeInv, NEW h \in Handlers, SyncsUser(h), NEW u \in Folk, u \notin crossed',
         CurrentOK(u), RestoredOK(u)
  PROVE  CurrentOK(u)'
<1>0. None \notin Folk /\ Idle.user = None /\ Turn(h) /\ tasks[h] = Idle
  BY WorldFacts, BeginsDoes DEF TypeInv, Idle, Begins
<1>1. PICK listed \in toSync.users :
         /\ listed \in Listed /\ toSync'.users = toSync.users \ {listed}
         /\ SaidTask(tasks'[h], listed.user, listed.name, listed.deleted)
  BY SyncsFolk
<1>2. /\ UNCHANGED <<world, slack, queues, ghostVars>>
      /\ \E l \in toSync.users : /\ toSync'.users = toSync.users \ {l}
                                 /\ crossed' = crossed \cup CrossedBy(h, {l.user}, None)
  BY SyncsUserDoes
<1>3. \A l \in toSync.users : toSync'.users = toSync.users \ {l} => l = listed
  BY <1>1
<1>4. crossed' = crossed \cup CrossedBy(h, {listed.user}, None)
  BY <1>2, <1>3
<1>5. Tells(u) <=> Tells(u)'
  BY <1>2 DEF queues, Tells, TellsDeleted, TellsRestored, Told
<1>6. /\ world' = world /\ gone' = gone /\ slackNames' = slackNames /\ rows' = rows
      /\ reverted' = reverted
  BY <1>2 DEF slack, ghostVars
<1>7. CASE listed.user # u
  <2>1. SaidSame(u) /\ RowSame(u)
    BY <1>1, <1>5, <1>6, <1>7 DEF SaidSame, RowSame
  <2>2. tasks'[h].user # u
    BY <1>1, <1>7 DEF SaidTask
  <2> QED
    BY <1>0, <2>1, <2>2, CurrentAside DEF Turn
<1>8. CASE listed.user = u
  <2>1. \A g \in Handlers : g # h => tasks'[g].user # u
    BY <1>0, <1>4, <1>8, NotCrossedUser DEF Turn
  <2>2. SaidTask(tasks'[h], u, listed.name, listed.deleted)
    BY <1>1, <1>8
  <2>3. u \in world'.folk \ gone' =>
            /\ Recent(listed.name, u)
            /\ \A l \in toSync'.users : l.user = u => Recent(l.name, u)'
    BY <1>1, <1>5, <1>6, <1>8 DEF CurrentOK, Recent
  <2>4. u \notin gone /\ listed.deleted => Tells(u)
    BY <1>1, <1>8 DEF RestoredOK, ToBeDeleted, ListedDeleted, Tells
  <2>5. u \in world'.folk \ gone' =>
            Tells(u)' \/ (~listed.deleted /\ listed.name = slackNames'[u])
    BY <1>5, <1>6, <2>3, <2>4 DEF Recent
  <2>6. CASE u \in world'.folk \ gone'
    BY <2>1, <2>2, <2>3, <2>5, <2>6, BeganCurrent
  <2>7. CASE u \notin world'.folk \ gone'
    BY <2>7 DEF CurrentOK
  <2> QED
    BY <2>6, <2>7
<1> QED
  BY <1>7, <1>8

\* Handlers that have no user, and begin or go on with none, but for who created a channel.
LEMMA NobodyCurrent ==
  ASSUME TypeInv, NEW h \in Handlers,
         \/ HandleMatrix(h) \/ SyncsChannel(h) \/ SyncsRoom(h)
         \/ ChannelSteps(h) \/ MatrixSteps(h),
         NEW u \in Folk, CurrentOK(u)
  PROVE  CurrentOK(u)'
<1>0. None \notin Folk /\ Idle.user = None
  BY WorldFacts DEF TypeInv, Idle
<1>1. /\ Turn(h)
      /\ tasks[h].user = None \/ tasks[h].pc = "bridge"
      /\ tasks'[h].user = None \/ tasks'[h].pc = "askBot"
  <2>1. CASE HandleMatrix(h) \/ SyncsChannel(h) \/ SyncsRoom(h)
    <3>1. Turn(h) /\ tasks[h] = Idle /\ (Bridging(tasks'[h]) => tasks'[h].pc = "askBot")
      BY <2>1, BeginsDoes DEF Begins, Begun
    <3> QED
      BY <1>0, <2>1, <3>1, NobodyBegins
  <2>2. CASE BridgeChannel(h)
    BY <1>0, <2>2, BridgeChannelDoes, ChannelStepsDo DEF ChannelSteps
  <2>3. CASE ChannelSteps(h) /\ ~BridgeChannel(h)
    BY <1>0, <2>3, ChannelStepsDo
  <2>4. CASE MatrixSteps(h)
    BY <1>0, <2>4, MatrixStepsDo, ContinuedFacts
  <2> QED
    BY <2>1, <2>2, <2>3, <2>4
<1>6. /\ tasks[h].user = u => ~Updating(tasks[h]) /\ ~Writing(tasks[h])
      /\ tasks'[h].user = u => ~Updating(tasks'[h]) /\ ~Writing(tasks'[h])
  BY <1>0, <1>1 DEF Updating, Writing, Stage
<1>2. /\ UNCHANGED <<world, gone, slackNames, reverted>> /\ toSync'.users = toSync.users
      /\ rows' = rows \/ ChannelSteps(h)
  BY NobodyBegins, BeginsDoes, ChannelStepsDo, MatrixStepsDo DEF Begins, ghostVars, slack
<1>3. slackQueue' = slackQueue \/ \E type, v, c, n, f : Appended(type, v, c, n, f)
  <2>1. CASE HandleMatrix(h) \/ SyncsChannel(h) \/ SyncsRoom(h)
    BY <2>1, NobodyBegins
  <2>2. CASE ChannelSteps(h)
    BY <2>2, ChannelStepsDo DEF queues
  <2>3. CASE MatrixSteps(h)
    <3>1. CASE PuppetJoins(h)
      <4>1. ~HandleSlack(h)
        <5>1. tasks[h].pc \in OfMatrix
          BY <2>3, MatrixStepsDo
        <5> QED
          BY <5>1 DEF HandleSlack, At, OfMatrix
      <4> QED
        BY <2>3, <4>1, HandlersQueue
    <3>2. CASE ~PuppetJoins(h)
      BY <2>3, <3>2, MatrixStepsDo
    <3> QED
      BY <3>1, <3>2
  <2> QED
    BY <2>1, <2>2, <2>3
<1>4. SaidSame(u)
  BY <1>2, <1>3, SameSaid DEF SaidSame
<1>5. RowSame(u)
  <2>1. CASE rows' = rows
    BY <1>2, <2>1 DEF RowSame
  <2>2. CASE ChannelSteps(h)
    BY <1>2, <2>2, ChannelStepsRows DEF RowSame, Bare
  <2> QED
    BY <1>2, <2>1, <2>2
<1> QED
  BY <1>1, <1>4, <1>5, <1>6, CurrentAside DEF Turn

LEMMA OwnSaid ==
  ASSUME TypeInv, RowsMade, NEW h \in Handlers, OwnSteps(h), NEW u
  PROVE  SaidSame(u) /\ slackNames' = slackNames /\ (Tells(u)' <=> Tells(u))
<1>1. slackNames' = slackNames
  <2>1. CASE FolkSteps(h)
    BY <2>1, FolkRows
  <2>2. CASE BridgeSteps(h)
    BY <2>2, BridgeStepsDo, LookRows DEF ghostVars
  <2>3. CASE FailSteps(h)
    BY <2>3, FailStepsDo
  <2> QED
    BY <2>1, <2>2, <2>3 DEF OwnSteps
<1> QED
  BY <1>1, OwnStepsDo DEF SaidSame, queues, bridge, Tells, TellsDeleted, TellsRestored, Told

LEMMA OwnCurrentAside ==
  ASSUME TypeInv, RowsMade, NEW h \in Handlers, OwnSteps(h), NEW u \in Folk, CurrentOK(u),
         tasks[h].user # u
  PROVE  CurrentOK(u)'
<1>0. None \notin Folk
  BY WorldFacts DEF TypeInv
<1>1. Turn(h) /\ tasks'[h].user # u
  BY <1>0, OwnStepsDo
<1>2. RowSame(u)
  BY OwnTouches DEF OnlyOf, RowSame
<1> QED
  BY <1>1, <1>2, OwnSaid, CurrentAside DEF Turn

\* The handler writes nothing in this step and will not for that: the row is what it was.
LEMMA WrittenPlain ==
  ASSUME NEW h \in Handlers, NEW u, SaidSame(u), RowSame(u),
         u \in reverted \/ Bare(u) \/ Recent(rows[u], u) \/ ListedNow(u),
         \/ tasks'[h].user # u
         \/ ~Updating(tasks'[h]) /\ ~Writing(tasks'[h])
  PROVE  Written(h, u)
<1>1. Bare(u) => Bare(u)'
  BY DEF RowSame, Bare
<1>2. Recent(rows[u], u) => Bare(u)' \/ Recent(rows[u], u)'
  BY RecentSame DEF RowSame, Bare, Recent
<1>3. ListedNow(u) => ListedNow(u)'
  BY DEF ListedNow, SaidSame
<1>4. u \in reverted => u \in reverted'
  BY DEF RowSame
<1>5. tasks'[h].user = u => WritesOK(tasks[h], u)'
  BY DEF WritesOK, Updating, Writing, Stage
<1> QED
  BY <1>1, <1>2, <1>3, <1>4, <1>5 DEF Written

\* The handler goes on to write the name that it has.
LEMMA WrittenGoesOn ==
  ASSUME NEW h \in Handlers, NEW u, SaidSame(u), Recent(tasks[h].name, u),
         tasks'[h].user = u, tasks'[h].name = tasks[h].name, Updating(tasks'[h])
  PROVE  Written(h, u)
<1>1. Recent(tasks[h].name, u)'
  BY RecentSame DEF Recent
<1>2. WritesOK(tasks[h], u)'
  BY <1>1 DEF WritesOK, Recent
<1> QED
  BY <1>2 DEF Written

\* What a handler and its user's row are like before its step.
Before(h, u) ==
    /\ WritesOK(tasks[h], u) /\ HoldsOK(tasks[h], u)
    /\ \/ u \in reverted \/ Bare(u) \/ Recent(rows[u], u) \/ ListedNow(u)
       \/ Updating(tasks[h]) \/ Writing(tasks[h])

\* The ways of a handler to its ghost.
LEMMA WaysCurrent ==
  ASSUME TypeInv, NEW h \in Handlers, LookGhost(h) \/ GetGhost(h), NEW u \in Folk,
         u = tasks[h].user, SaidSame(u), Before(h, u)
  PROVE  Written(h, u)
<1> DEFINE s == tasks[h]
           t == tasks'[h]
<1>0. GhostsTypeOK
  BY DEF TypeInv
<1>1. /\ s.pc \in {"get", "make"} /\ s.next \in Ways \cup {"update", "bridge"}
      /\ t.pc \in {s.next, "make"} /\ t.next = s.next /\ t.name = s.name /\ t.user = u
  <2>1. CASE LookGhost(h)
    <3>1. /\ s.pc = "get" /\ s.next \in Ways \cup {"update", "bridge"} /\ Continued(t, s)
          /\ t.pc = (IF cache[s.user] # None THEN s.next ELSE "make")
          /\ t.next = s.next /\ t.name = s.name
      BY <2>1, LookGhostDoes
    <3> QED
      BY <3>1, ContinuedFacts
  <2>2. CASE GetGhost(h)
    <3>1. /\ s.pc = "make" /\ s.next \in Ways \cup {"update", "bridge"} /\ Continued(t, s)
          /\ t.pc = s.next /\ t.next = s.next /\ t.name = s.name
      BY <2>2, GetGhostDoes
    <3> QED
      BY <3>1, ContinuedFacts
  <2> QED
    BY <2>1, <2>2
<1>2. RowSame(u)
  <2>1. CASE LookGhost(h)
    BY <2>1, LookGhostDoes DEF RowSame, ghostVars
  <2>2. CASE GetGhost(h)
    <3>1. s.pc = "make" /\ MakeGhost(u, s.row, NewObject)
      BY <2>2, GetGhostDoes
    <3>2. PICK r : r = s.row
      OBVIOUS
    <3>3. /\ reverted' = reverted
          /\ rows' = (IF r = NoRow THEN [rows EXCEPT ![u] = Unnamed] ELSE rows)
      BY <3>1, <3>2 DEF MakeGhost
    <3>4. r = NoRow => Bare(u)
      BY <3>1, <3>2 DEF Before, HoldsOK
    <3>5. rows'[u] = (IF r = NoRow THEN Unnamed ELSE rows[u])
      BY <1>0, <3>3 DEF GhostsTypeOK
    <3> QED
      BY <3>3, <3>4, <3>5 DEF RowSame
  <2> QED
    BY <2>1, <2>2
<1>3. CASE s.next = "update"
  <2>1. Updating(s) /\ Updating(t)
    BY <1>1, <1>3 DEF Updating, Stage
  <2>2. Recent(s.name, u)
    BY <2>1 DEF Before, WritesOK
  <2> QED
    BY <1>1, <2>1, <2>2, WrittenGoesOn
<1>4. CASE s.next # "update"
  <2>1. ~Updating(s) /\ ~Writing(s) /\ ~Updating(t) /\ ~Writing(t)
    BY <1>1, <1>4 DEF Updating, Writing, Stage, Ways
  <2>2. u \in reverted \/ Bare(u) \/ Recent(rows[u], u) \/ ListedNow(u)
    BY <2>1 DEF Before
  <2> QED
    BY <1>2, <2>1, <2>2, WrittenPlain
<1> QED
  BY <1>3, <1>4

LEMMA FindCurrent ==
  ASSUME TypeInv, NEW h \in Handlers, FindExisting(h), NEW u \in Folk,
         u = tasks[h].user, SaidSame(u), Before(h, u)
  PROVE  Written(h, u)
<1> DEFINE s == tasks[h]
           t == tasks'[h]
<1>0. None \notin Folk /\ Idle.user = None
  BY WorldFacts DEF TypeInv, Idle
<1>1. /\ s.pc = "existing"
      /\ \/ s.flag /\ t = Idle
         \/ /\ ~s.flag /\ t.pc = "get" /\ t.next = "update" /\ Continued(t, s)
            /\ t.name = s.name
         \/ t.pc = (IF s.flag THEN "hide" ELSE "update") /\ Continued(t, s) /\ t.name = s.name
  BY FindExistingDoes
<1>2. RowSame(u)
  <2>1. UNCHANGED ghostVars \/ ExistingGhost(u, NewObject)
    BY FindExistingDoes
  <2> QED
    BY <2>1 DEF RowSame, ghostVars, ExistingGhost
<1>3. CASE s.flag
  <2>1. ~Updating(s) /\ ~Writing(s)
    BY <1>1, <1>3 DEF Updating, Writing, Stage
  <2>2. u \in reverted \/ Bare(u) \/ Recent(rows[u], u) \/ ListedNow(u)
    BY <2>1 DEF Before
  <2>3. t.user # u \/ (~Updating(t) /\ ~Writing(t))
    BY <1>0, <1>1, <1>3 DEF Updating, Writing, Stage
  <2> QED
    BY <1>2, <2>2, <2>3, WrittenPlain
<1>4. CASE ~s.flag
  <2>1. Updating(s) /\ Updating(t)
    BY <1>1, <1>4 DEF Updating, Stage
  <2>2. Recent(s.name, u)
    BY <2>1 DEF Before, WritesOK
  <2>3. t.user = u /\ t.name = s.name
    BY <1>1, <1>4, ContinuedFacts
  <2> QED
    BY <2>1, <2>2, <2>3, WrittenGoesOn
<1> QED
  BY <1>3, <1>4

\* A name that is the row's already is not written.
LEMMA UpdateCurrent ==
  ASSUME TypeInv, NEW h \in Handlers, UpdateUser(h), NEW u \in Folk,
         u = tasks[h].user, SaidSame(u), Before(h, u)
  PROVE  Written(h, u)
<1> DEFINE s == tasks[h]
           t == tasks'[h]
<1>0. None \notin Folk /\ Idle.user = None
  BY WorldFacts DEF TypeInv, Idle
<1>1. /\ s.pc = "update"
      /\ \/ t.pc = "save" /\ Continued(t, s) /\ t.name = s.name
         \/ ghosts[s.object].name = s.name /\ UNCHANGED ghostVars /\ t = Idle
  BY UpdateUserDoes
<1>2. Recent(s.name, u) /\ ghosts[s.object].name = NamedInRow(u)
  BY <1>1 DEF Before, WritesOK, HoldsOK, Updating, Stage
<1>3. CASE t.pc = "save" /\ Continued(t, s) /\ t.name = s.name
  <2>1. Updating(t) /\ t.user = u
    BY <1>3, ContinuedFacts DEF Updating
  <2> QED
    BY <1>2, <1>3, <2>1, WrittenGoesOn
<1>4. CASE ghosts[s.object].name = s.name /\ UNCHANGED ghostVars /\ t = Idle
  <2>1. Bare(u) \/ Recent(rows[u], u)
    BY <1>2, <1>4 DEF NamedInRow, Bare
  <2>2. RowSame(u)
    BY <1>4 DEF RowSame, ghostVars
  <2>3. t.user # u
    BY <1>0, <1>4
  <2> QED
    BY <2>1, <2>2, <2>3, WrittenPlain
<1> QED
  BY <1>1, <1>3, <1>4

\* A message's name is what Slack has just said, or the user is told to be "reverted".
LEMMA ProfileCurrent ==
  ASSUME TypeInv, NEW h \in Handlers, WriteProfile(h), NEW u \in Folk,
         u = tasks[h].user, SaidSame(u), Before(h, u)
  PROVE  Written(h, u)
<1> DEFINE s == tasks[h]
           t == tasks'[h]
<1>1. /\ s.pc = "ensure" /\ Continued(t, s)
      /\ \/ EnsureProfile(u, s.name) /\ t.pc = "saveName" /\ t.name = s.name
         \/ EndUpdate(s.object) /\ t.pc = "send"
  BY WriteProfileDoes
<1>2. CASE EnsureProfile(u, s.name) /\ t.pc = "saveName" /\ t.name = s.name
  <2>1. t.user = u /\ Writing(t) /\ ~Updating(t)
    BY <1>1, <1>2, ContinuedFacts DEF Writing, Updating, Stage
  <2>2. u \in reverted' \/ s.name = slackNames'[u]
    BY <1>2 DEF EnsureProfile
  <2>3. WritesOK(tasks[h], u)'
    BY <1>2, <2>1, <2>2 DEF WritesOK, Recent, Updating, Stage
  <2> QED
    BY <2>1, <2>3 DEF Written
<1>3. CASE EndUpdate(s.object) /\ t.pc = "send"
  <2>1. ~Updating(s) /\ ~Writing(s) /\ ~Updating(t) /\ ~Writing(t)
    BY <1>1, <1>3 DEF Updating, Writing, Stage
  <2>2. RowSame(u)
    BY <1>3 DEF RowSame, EndUpdate
  <2>3. u \in reverted \/ Bare(u) \/ Recent(rows[u], u) \/ ListedNow(u)
    BY <2>1 DEF Before
  <2> QED
    BY <2>1, <2>2, <2>3, WrittenPlain
<1> QED
  BY <1>1, <1>2, <1>3

LEMMA SaveCurrent ==
  ASSUME TypeInv, NEW h \in Handlers, SaveName(h), NEW u \in Folk,
         u = tasks[h].user, SaidSame(u), Before(h, u)
  PROVE  Written(h, u)
<1> DEFINE s == tasks[h]
           t == tasks'[h]
<1>0. GhostsTypeOK /\ None \notin Folk /\ Idle.user = None
  BY WorldFacts DEF TypeInv, Idle
<1>1. /\ s.pc \in {"saveName", "save"}
      /\ SaveGhost(u, s.object, s.name, s.pc = "saveName")
      /\ t = Idle \/ t.pc = "send"
  BY SaveNameDoes
<1>2. PICK n : n = s.name
  OBVIOUS
<1>3. rows' = [rows EXCEPT ![u] = n] /\ reverted' = reverted
  BY <1>1, <1>2 DEF SaveGhost, RowNamed
<1>4. rows'[u] = n
  BY <1>0, <1>3 DEF GhostsTypeOK
<1>5. u \in reverted \/ Recent(n, u)
  BY <1>1, <1>2 DEF Before, WritesOK, Writing
<1>6. u \in reverted' \/ Recent(rows[u], u)'
  BY <1>3, <1>4, <1>5, RecentSame DEF Recent
<1>7. t.user = u => WritesOK(tasks[h], u)'
  BY <1>0, <1>1 DEF WritesOK, Updating, Writing, Stage
<1> QED
  BY <1>6, <1>7 DEF Written

\* The other steps of a handler with a user have nothing to do with what he is called.
LEMMA RestCurrent ==
  ASSUME TypeInv, NEW h \in Handlers,
         \/ GhostJoins(h) \/ BotInvites(h) \/ GhostLeaves(h) \/ SendMessage(h) \/ LeaveRooms(h)
         \/ LookUpdate(h) \/ AskSlack(h) \/ HideUser(h) \/ ListRooms(h),
         NEW u \in Folk, u = tasks[h].user, SaidSame(u), Before(h, u)
  PROVE  Written(h, u)
<1> DEFINE s == tasks[h]
           t == tasks'[h]
<1>0. Idle.pc = "idle"
  BY DEF Idle
<1>1. /\ s.pc \in {"join", "inviteAs", "inviteUser", "leave", "send", "leaveRooms", "message",
                   "ask", "hide", "listRooms"}
      /\ t = Idle \/ t.pc \in {"send", "ask", "ensure", "listRooms", "leaveRooms"}
  <2>1. CASE GhostJoins(h) \/ BotInvites(h) \/ GhostLeaves(h) \/ SendMessage(h) \/ LeaveRooms(h)
    BY <2>1, GhostJoinsDoes, BotInvitesDoes, GhostLeavesDoes, SendMessageDoes, LeaveRoomsDoes
  <2>2. CASE LookUpdate(h) \/ AskSlack(h) \/ HideUser(h) \/ ListRooms(h)
    BY <2>2, LookUpdateDoes, AskSlackDoes, HideUserDoes, ListRoomsDoes
  <2> QED
    BY <2>1, <2>2
<1>2. rows' = rows /\ reverted' = reverted
  <2>1. CASE GhostJoins(h) \/ BotInvites(h) \/ GhostLeaves(h) \/ SendMessage(h) \/ LeaveRooms(h)
             \/ ListRooms(h)
    BY <2>1, GhostJoinsDoes, BotInvitesDoes, GhostLeavesDoes, SendMessageDoes, LeaveRoomsDoes,
       ListRoomsDoes DEF ghostVars
  <2>2. CASE LookUpdate(h)
    <3>1. UNCHANGED ghostVars \/ BeginUpdate(s.object)
      BY <2>2, LookUpdateDoes
    <3> QED
      BY <3>1 DEF ghostVars, BeginUpdate
  <2>3. CASE AskSlack(h)
    <3>1. Answered(s.user, s.object) \/ NotAnswered(s.object)
      BY <2>3, AskSlackDoes
    <3> QED
      BY <3>1 DEF Answered, NotAnswered
  <2>4. CASE HideUser(h)
    BY <2>4, HideUserDoes DEF SetDisplayName
  <2> QED
    BY <2>1, <2>2, <2>3, <2>4
<1>3. ~Updating(s) /\ ~Writing(s) /\ ~Updating(t) /\ ~Writing(t)
  BY <1>0, <1>1 DEF Updating, Writing, Stage
<1>4. u \in reverted \/ Bare(u) \/ Recent(rows[u], u) \/ ListedNow(u)
  BY <1>3 DEF Before
<1>5. RowSame(u)
  BY <1>2 DEF RowSame
<1> QED
  BY <1>3, <1>4, <1>5, WrittenPlain

\* On the way to link a channel nothing is written but the row of who created it.
LEMMA BridgeCurrent ==
  ASSUME TypeInv, NEW h \in Handlers, BridgeSteps(h), NEW u \in Folk, u = tasks[h].user,
         SaidSame(u), Before(h, u)
  PROVE  Written(h, u)
<1>1. CASE LookSteps(h)
  BY <1>1, WaysCurrent DEF LookSteps
<1>2. CASE ~LookSteps(h)
  <2>1. /\ UNCHANGED ghostVars /\ Bridging(tasks[h]) /\ Bridging(tasks'[h])
        /\ tasks[h].pc \in {"askBot", "get", "make"} /\ tasks'[h].pc \in {"get", "bridge"}
    BY <1>2, BridgeStepsDo
  <2>2. /\ ~Updating(tasks[h]) /\ ~Writing(tasks[h])
        /\ ~Updating(tasks'[h]) /\ ~Writing(tasks'[h])
    BY <2>1 DEF Updating, Writing, Stage, Bridging
  <2>3. u \in reverted \/ Bare(u) \/ Recent(rows[u], u) \/ ListedNow(u)
    BY <2>2 DEF Before
  <2>4. RowSame(u)
    BY <2>1 DEF RowSame, ghostVars
  <2> QED
    BY <2>2, <2>3, <2>4, WrittenPlain
<1> QED
  BY <1>1, <1>2

\* A call that fails and crosses nobody had nothing to write.
LEMMA FailCurrent ==
  ASSUME TypeInv, NEW h \in Handlers, FailSteps(h), NEW u \in Folk, u = tasks[h].user,
         u \notin crossed', SaidSame(u), Before(h, u)
  PROVE  Written(h, u)
<1> DEFINE s == tasks[h]
           t == tasks'[h]
<1>0. None \notin Folk /\ Idle.user = None
  BY WorldFacts DEF TypeInv, Idle
<1>1. /\ UNCHANGED <<rows, reverted>> /\ t = Idle /\ s.pc \in Calls /\ ~Syncing(s)
  BY FailStepsDo
<1>2. RowSame(u) /\ t.user # u
  BY <1>0, <1>1 DEF RowSame
<1>3. CASE s.pc = "update"
  <2>1. ghosts[s.object].name = s.name
    BY <1>1, <1>3 DEF Syncing
  <2>2. Recent(s.name, u) /\ ghosts[s.object].name = NamedInRow(u)
    BY <1>3 DEF Before, WritesOK, HoldsOK, Updating, Stage
  <2>3. Bare(u) \/ Recent(rows[u], u)
    BY <2>1, <2>2 DEF NamedInRow, Bare
  <2> QED
    BY <1>2, <2>3, WrittenPlain
<1>4. CASE s.pc # "update"
  <2>1. ~Updating(s) /\ ~Writing(s)
    BY <1>1, <1>4 DEF Updating, Writing, Stage, Calls, Syncing
  <2>2. u \in reverted \/ Bare(u) \/ Recent(rows[u], u) \/ ListedNow(u)
    BY <2>1 DEF Before
  <2> QED
    BY <1>2, <2>2, WrittenPlain
<1> QED
  BY <1>3, <1>4

LEMMA OwnCurrent ==
  ASSUME TypeInv, RowsMade, NEW h \in Handlers, OwnSteps(h), NEW u \in Folk, u = tasks[h].user,
         u \notin crossed', UserAlone(u), AgreeOK(u), CurrentOK(u)
  PROVE  CurrentOK(u)'
<1>0. Turn(h) /\ SaidSame(u) /\ HoldsOK(tasks[h], u)
  BY OwnStepsDo, OwnSaid, AgreeNow
<1>1. ASSUME u \in world.folk \ gone PROVE Written(h, u)
  <2>1. Before(h, u)
    BY <1>0, <1>1, CurrentNow DEF Before
  <2> QED
    BY <1>0, <2>1, WaysCurrent, FindCurrent, UpdateCurrent, ProfileCurrent, SaveCurrent,
       RestCurrent, BridgeCurrent, FailCurrent DEF OwnSteps, FolkSteps, LookSteps
<1> QED
  BY <1>0, <1>1, CurrentTurn

LEMMA CurrentStep ==
    TypeInv /\ RowsMade /\ LastTells /\ UsersAlone /\ ReturnInv /\ AgreeInv /\ CurrentInv
        /\ [Next]_vars => CurrentInv'
<1> SUFFICES ASSUME TypeInv, RowsMade, LastTells, UsersAlone, ReturnInv, AgreeInv, CurrentInv,
                    [Next]_vars, NEW u \in Folk, u \notin crossed'
             PROVE  CurrentOK(u)'
  BY DEF CurrentInv
<1>0. CurrentOK(u) /\ AgreeOK(u) /\ UserAlone(u) /\ RestoredOK(u)
  BY CrossedGrows DEF CurrentInv, AgreeInv, UsersAlone, ReturnInv, ReturnOK
<1>1. CASE Restart
  BY <1>0, <1>1, RestartCurrent
<1>2. CASE Outside /\ ~Restart
  BY <1>0, <1>2, OutsideCurrent
<1>3. CASE ListChannels \/ Forgets \/ UNCHANGED vars
  <2>1. /\ UNCHANGED <<world, gone, slackNames, slackQueue, rows, reverted, tasks>>
        /\ toSync'.users = toSync.users
    <3>1. CASE UNCHANGED vars
      BY <3>1 DEF vars, ghostVars, slack, queues, bridge
    <3>3. CASE ListChannels
      <4>1. PICK cs : toSync' = [toSync EXCEPT !.listing = FALSE, !.channels = cs]
        BY <3>3 DEF ListChannels
      <4>2. toSync'.users = toSync.users
        BY <4>1 DEF TypeInv, ToSyncOK
      <4> QED
        BY <3>3, <4>2 DEF ListChannels, ghostVars, slack, queues
    <3>2. CASE Forgets
      BY <3>2, ForgetsNames DEF Forgets, slack, queues, bridge
    <3> QED
      BY <1>3, <3>1, <3>2, <3>3
  <2>2. SaidSame(u) /\ RowSame(u)
    BY <2>1, SameSaid DEF SaidSame, RowSame
  <2> QED
    BY <1>0, <2>1, <2>2, CurrentAside
<1>4. ASSUME NEW h \in Handlers, Begins(h) PROVE CurrentOK(u)'
  <2>1. CASE HandleSlack(h)
    BY <1>0, <2>1, SlackCurrentAside, SlackCurrentOwn
  <2>2. CASE SyncsUser(h)
    BY <1>0, <2>2, ListedCurrent
  <2>3. CASE HandleMatrix(h) \/ SyncsChannel(h) \/ SyncsRoom(h)
    BY <1>0, <2>3, NobodyCurrent
  <2> QED
    BY <1>4, <2>1, <2>2, <2>3 DEF Begins
<1>5. ASSUME NEW h \in Handlers, OwnSteps(h) PROVE CurrentOK(u)'
  <2>1. CASE tasks[h].user = u
    BY <1>0, <1>5, <2>1, OwnCurrent
  <2>2. CASE tasks[h].user # u
    BY <1>0, <1>5, <2>2, OwnCurrentAside
  <2> QED
    BY <2>1, <2>2
<1>6. ASSUME NEW h \in Handlers, ChannelSteps(h) \/ MatrixSteps(h) PROVE CurrentOK(u)'
  BY <1>0, <1>6, NobodyCurrent
<1> QED
  BY <1>1, <1>2, <1>3, <1>4, <1>5, <1>6, NextDoes DEF OwnSteps

LEMMA CurrentStart == Init /\ TypeInv => CurrentInv
<1> SUFFICES ASSUME Init, TypeInv, NEW u \in Folk PROVE CurrentOK(u)
  BY DEF CurrentInv
<1>1. None \notin Folk /\ Idle.user = None
  BY WorldFacts DEF TypeInv, Idle
<1>2. /\ rows[u] = NoRow /\ toSync = NothingToSync
      /\ \A h \in Handlers : tasks[h] = Idle
  BY DEF Init, GhostsInit
<1> QED
  BY <1>1, <1>2 DEF CurrentOK, Current, Bare, NothingToSync

\* At rest no handler is writing and no news is on the way.
LEMMA NamesFollowHolds == TypeInv /\ AgreeInv /\ CurrentInv => NamesFollow
<1> SUFFICES ASSUME TypeInv, AgreeInv, CurrentInv, Quiet,
                    NEW u \in world.folk \ (gone \cup crossed \cup reverted)
             PROVE  \/ rows[u] \in {NoRow, Unnamed} /\ profiles[u] \in {Unnamed, Deleted}
                    \/ rows[u] = slackNames[u] /\ profiles[u] \in {slackNames[u], Deleted}
  BY DEF NamesFollow
<1>0. u \in Folk /\ None \notin Folk /\ NoRow \notin Names
  BY WorldFacts DEF TypeInv
<1>1. Agree(u) \/ \E h \in Handlers : tasks[h].user = u /\ Writing(tasks[h])
  BY <1>0 DEF AgreeInv, AgreeOK
<1>2. Current(u)
  BY <1>0 DEF CurrentInv, CurrentOK
<1>3. ~ListedNow(u) /\ ~Tells(u)
  <2>1. Len(slackQueue) = 0
    BY DEF Quiet
  <2> QED
    BY <2>1 DEF Quiet, NothingToSync, ListedNow, Tells, TellsDeleted, TellsRestored
<1>4. \A h \in Handlers : tasks[h].pc = "idle"
  BY DEF Quiet, AllIdle, At
<1>5. \A h \in Handlers : tasks[h].user = u => ~Updating(tasks[h]) /\ ~Writing(tasks[h])
  <2>1. ASSUME NEW h \in Handlers PROVE ~Updating(tasks[h]) /\ ~Writing(tasks[h])
    <3>1. PICK t : t = tasks[h]
      OBVIOUS
    <3>2. t.pc = "idle"
      BY <1>4, <3>1
    <3>3. ~Updating(t) /\ ~Writing(t)
      BY <3>2 DEF Updating, Writing, Stage
    <3> QED
      BY <3>1, <3>3
  <2> QED
    BY <2>1
<1>6. Agree(u)
  BY <1>1, <1>5
<1>7. ASSUME Updated(u) PROVE FALSE
  <2>1. PICK h \in Handlers : tasks[h].user = u /\ (Updating(tasks[h]) \/ Writing(tasks[h]))
    BY <1>7 DEF Updated
  <2> QED
    BY <1>5, <2>1
<1> QED
  BY <1>0, <1>2, <1>3, <1>6, <1>7 DEF Current, Recent, Agree, Bare

\* At rest a ghost is called what its user is called on Slack, in the table as on Matrix, or has
\* never been named, through every order of user_change events, look-ups for messages, syncs and
\* restarts: what SlackGhost.updateFromISlackUser passes over, as the object has the name already,
\* is in the row, and the row is written after the profile, so that only a restart in between
\* leaves the two apart. That, a name or an avatar that the homeserver refuses (syncUser is then
\* rejected, and nothing tries again), users that a restarted process could not list, handlers
\* that overlap and names out of userInfoCache are excused.
THEOREM NamesAreFollowed == Spec => []NamesFollow
<1> DEFINE Inv == /\ TypeInv /\ RowsMade /\ LastTells /\ UsersAlone /\ QueueBack /\ ReturnInv
                  /\ ObjectsOwned /\ AgreeInv /\ CurrentInv
<1>1. Init => Inv
  BY TypesStart, TellsStart, GoneStart, MembersStart, OwnedStart, AgreeStart, CurrentStart
<1>2. Inv /\ [Next]_vars => Inv'
  BY TypesStep, RowsStep, TellsStep, AloneStep, QueueBackStep, ReturnStep, OwnedStep, AgreeStep,
     CurrentStep
<1>3. Inv => NamesFollow
  BY NamesFollowHolds
<1> QED
  BY <1>1, <1>2, <1>3, PTL DEF Spec
==============================================================================
