------------------------------ MODULE RoomLinks ------------------------------
(***************************************************************************)
(* How Matrix rooms get bridged to Slack channels and stop being so: the   *)
(* handlers of Main (actionLink, actionUnlink, handleDmInvite,             *)
(* onRoomUpgrade), of SlackRTMHandler and TeamSyncer that create rooms     *)
(* when Slack shows the bridge a new conversation, of SlackEventHandler    *)
(* and SlackHookHandler that rename a channel, and the start-up that loads *)
(* the rooms back, over the store of SlackRoomStore and the "rooms" table  *)
(* of PgDatastore.                                                         *)
(*                                                                         *)
(* Node runs one handler at a time and switches only at an await. A        *)
(* handler is a request with a pc; an action is what it does between two   *)
(* awaits, and awaits that share no state with other handlers are taken    *)
(* together. A restart loses the store and every request; the table stays. *)
(*                                                                         *)
(* Abstracted: the permission and allow-list checks (they only refuse a    *)
(* request before it starts), webhook URIs, names and the rest of a row's  *)
(* JSON, RTM clients, membership of the Matrix rooms.                      *)
(***************************************************************************)
EXTENDS SlackRoomStore

CONSTANTS
    Handlers,   \* handler invocations that can be in flight at once
    Traffic     \* what the environment does, a subset of Events

Events == {"link",          \* link an unbridged Matrix room to a channel
           "relink",        \* ... or one that is bridged already
           "webhook",       \* ... or give it a webhook and no channel
           "unlink", "upgrade",
           "invite",        \* a direct invite in a room nothing knows
           "reinvite",      \* ... or in one that the bridge knows already
           "reopen", "dm", "private", "rename", "metrics", "restart",
           "starting",      \* requests come before start-up reads the rooms
           "early",         \* ... or while it still loads them
           "rtmFails", "drainFails", "saveFails", "loadFails"}

ASSUME TrafficAssumption == Traffic \subseteq Events

VARIABLES
    fields,     \* the private fields of each BridgedRoom object
    store,      \* Main.rooms
    roomRows,   \* the "rooms" table, by inbound id (the key is INTEG-<id>)
    requests,   \* the handlers in flight
    loading,    \* the rows that start-up has read and not yet loaded
    reading,    \* start-up has yet to read the table
    twice       \* ids whose row start-up read although a room of the id was
                \* already in memory: their rooms are loaded a second time

vars == <<fields, store, roomRows, requests, loading, reading, twice>>

NoRow == [matrix |-> None, channel |-> None]
Rows == [matrix : MatrixRoomIds, channel : SlackChannelIds \cup {None}]

Pcs == {"idle", "linking", "adding", "addingDm", "saving", "draining",
        "deleting", "detaching", "dmDraining", "dmDeleting", "opening",
        "discovered", "discoveredPrivate", "upgrading"}

\* matrix, channel, inbound: what the request is about; room: the object it
\* holds on to across an await; queue: the channel whose next RTM messages
\* wait for it.
Requests == [pc      : Pcs,
             matrix  : MatrixRoomIds \cup {None},
             channel : SlackChannelIds \cup {None},
             inbound : InboundIds \cup {None},
             room    : BridgedRooms \cup {None},
             queue   : SlackChannelIds \cup {None}]

Idle == [pc |-> "idle", matrix |-> None, channel |-> None,
         inbound |-> None, room |-> None, queue |-> None]

Blank == [matrix |-> None, inbound |-> None, channel |-> None, dirty |-> FALSE]

TypeOK ==
    /\ fields \in [BridgedRooms -> Fields \cup {Blank}]
    /\ store \in Stores
    /\ roomRows \in [InboundIds -> Rows \cup {NoRow}]
    /\ requests \in [Handlers -> Requests]
    /\ loading \in [InboundIds -> Rows \cup {NoRow}]
    /\ reading \in BOOLEAN
    /\ twice \subseteq InboundIds

Init ==
    /\ fields = [r \in BridgedRooms |-> Blank]
    /\ store = EmptyStore
    /\ roomRows = [i \in InboundIds |-> NoRow]
    /\ requests = [h \in Handlers |-> Idle]
    /\ loading = [i \in InboundIds |-> NoRow]
    /\ reading = TRUE
    /\ twice = {}

-----------------------------------------------------------------------------
\* Objects something still refers to; the fields of the others are gone.
Referenced(s, q) ==
    {r \in BridgedRooms :
        \/ r \in s.rooms
        \/ \E m \in MatrixRoomIds : s.byMatrixId[m] = r
        \/ \E i \in InboundIds : s.byInboundId[i] = r
        \/ \E c \in SlackChannelIds : s.byChannelId[c] = r
        \/ \E h \in Handlers : q[h].room = r}

Unused == BridgedRooms \ Referenced(store, requests)

\* The next fields, store and requests, garbage-collected.
Commit(f, s, q) ==
    /\ fields' = [r \in BridgedRooms |->
                      IF r \in Referenced(s, q) THEN f[r] ELSE Blank]
    /\ store' = s
    /\ requests' = q

After(h, request) == [requests EXCEPT ![h] = request]
Done(h) == After(h, Idle)

At(h, pc) == requests[h].pc = pc

\* A request can start in an idle handler, as a rule once start-up is over:
\* the listeners are up before the table is read.
Accepts(h, event) ==
    /\ event \in Traffic
    /\ At(h, "idle")
    /\ "starting" \in Traffic \/ ~reading
    /\ "early" \in Traffic \/ \A i \in InboundIds : loading[i] = NoRow

\* A 32-character random string: not in use anywhere.
genInboundId ==
    {i \in GeneratedIds : /\ store.byInboundId[i] = None
                          /\ roomRows[i] = NoRow /\ loading[i] = NoRow
                          /\ \A r \in BridgedRooms : fields[r].inbound # i
                          /\ \A h \in Handlers : requests[h].inbound # i}

\* Matrix rooms that the homeserver may create now: nothing knows them.
NewMatrixRooms ==
    {m \in MatrixRoomIds :
        /\ store.byMatrixId[m] = None
        /\ \A i \in InboundIds : m \notin {roomRows[i].matrix, loading[i].matrix}
        /\ \A r \in BridgedRooms : fields[r].matrix # m
        /\ \A h \in Handlers : requests[h].matrix # m}

BridgedRoom(m, i, c) ==
    [matrix |-> m, inbound |-> i, channel |-> c, dirty |-> TRUE]

\* datastore.upsertRoom: toEntry() clears the dirty flag and copies the
\* fields into the query, which the database runs later.
SavingSwapped(h, r, f) ==    \* a mutant: two fields of the entry mixed up
    [requests[h] EXCEPT !.pc = "saving", !.room = r, !.matrix = f.matrix,
                        !.inbound = f.channel, !.channel = f.inbound]

Saving(h, r, f) ==
    [requests[h] EXCEPT !.pc = "saving", !.room = r, !.matrix = f.matrix,
                        !.inbound = f.inbound, !.channel = f.channel]

Save(h, r, f, s) ==
    Commit([f EXCEPT ![r].dirty = FALSE], s, After(h, Saving(h, r, f[r])))

-----------------------------------------------------------------------------
(* actionLink *)

\* A mutant: a channel that is bridged already is not refused.
LinkAnyChannel(h) ==
    \E m \in MatrixRoomIds, c \in SlackChannelIds \ DmChannelIds :
        /\ Accepts(h, IF store.byMatrixId[m] = None THEN "link" ELSE "relink")
        /\ Commit(fields, store,
                  After(h, [Idle EXCEPT !.pc = "linking", !.matrix = m,
                                        !.channel = c,
                                        !.room = store.byMatrixId[m]]))
        /\ UNCHANGED <<roomRows, loading, reading, twice>>

\* The checks on entry; then the team, channel and join calls are awaited.
\* A channel that is bridged already is refused.
Link(h) ==
    \E m \in MatrixRoomIds, c \in SlackChannelIds \ DmChannelIds :
        /\ Accepts(h, IF store.byMatrixId[m] = None THEN "link" ELSE "relink")
        /\ store.byChannelId[c] = None
        /\ Commit(fields, store,
                  After(h, [Idle EXCEPT !.pc = "linking", !.matrix = m,
                                        !.channel = c,
                                        !.room = store.byMatrixId[m]]))
        /\ UNCHANGED <<roomRows, loading, reading, twice>>

\* A webhook and no channel, for a room that is not bridged.
LinkWebhook(h) ==
    \E m \in MatrixRoomIds :
        /\ Accepts(h, "webhook")
        /\ store.byMatrixId[m] = None
        /\ Commit(fields, store,
                  After(h, [Idle EXCEPT !.pc = "linking", !.matrix = m]))
        /\ UNCHANGED <<roomRows, loading, reading, twice>>

\* A new webhook for a bridged room: no await before the row is written.
ChangeWebhook(h) ==
    \E m \in MatrixRoomIds :
        LET r == store.byMatrixId[m] IN
        /\ Accepts(h, "webhook")
        /\ r # None
        /\ Save(h, r, fields, store)
        /\ UNCHANGED <<roomRows, loading, reading, twice>>

\* The room had no bridge when the request came in.
LinkNewRoom(h) ==
    LET q == requests[h] IN
    /\ At(h, "linking")
    /\ q.room = None
    /\ \E r \in Unused, i \in genInboundId :
          LET f == BridgedRoom(q.matrix, i, q.channel) IN
          Commit([fields EXCEPT ![r] = f], Upserted(store, r, f),
                 After(h, [q EXCEPT !.pc = "adding", !.room = r]))
    /\ UNCHANGED <<roomRows, loading, reading, twice>>

\* The room was bridged: the channel is set on the object, not in the store.
LinkBridgedRoom(h) ==
    LET r == requests[h].room
        f == [fields EXCEPT ![r].channel = requests[h].channel,
                            ![r].dirty = @ \/ requests[h].channel # fields[r].channel]
    IN
    /\ At(h, "linking")
    /\ r # None
    /\ IF f[r].dirty THEN Save(h, r, f, store)
                     ELSE Commit(f, store, Done(h))
    /\ UNCHANGED <<roomRows, loading, reading, twice>>

\* addBridgedRoom has started the RTM client. A room that something else has
\* cleaned meanwhile is taken to be saved.
LinkSave(h) ==
    LET r == requests[h].room IN
    /\ At(h, "adding")
    /\ IF fields[r].dirty THEN Save(h, r, fields, store)
                          ELSE Commit(fields, store, Done(h))
    /\ UNCHANGED <<roomRows, loading, reading, twice>>

\* The RTM client would not start: the request throws, the room stays added.
RtmFails(h) ==
    /\ "rtmFails" \in Traffic
    /\ requests[h].pc \in {"adding", "addingDm"}
    /\ Commit(fields, store, Done(h))
    /\ UNCHANGED <<roomRows, loading, reading, twice>>

-----------------------------------------------------------------------------
(* PgDatastore.upsertRoom and deleteRoom *)

\* INSERT ... ON CONFLICT (id) DO UPDATE SET json: the channel is part of the
\* JSON and the Matrix room is not.
StoreRow(h) ==
    LET q == requests[h] IN
    /\ At(h, "saving")
    /\ roomRows' = [roomRows EXCEPT ![q.inbound] =
                        [matrix  |-> IF @ = NoRow THEN q.matrix ELSE @.matrix,
                         channel |-> q.channel]]
    /\ Commit(fields, store, Done(h))
    /\ UNCHANGED <<loading, reading, twice>>

SaveFails(h) ==
    /\ "saveFails" \in Traffic
    /\ At(h, "saving")
    /\ Commit(fields, store, Done(h))
    /\ UNCHANGED <<roomRows, loading, reading, twice>>

-----------------------------------------------------------------------------
(* actionUnlink *)

\* The room is removed at once; toEntry() gives the row to delete later.
Unlinking(h, r, request) ==
    Commit([fields EXCEPT ![r].dirty = FALSE], Removed(store, r, fields[r]),
           After(h, [request EXCEPT !.inbound = fields[r].inbound, !.room = r]))

Unlink(h) ==
    \E m \in MatrixRoomIds :
        /\ Accepts(h, "unlink")
        /\ store.byMatrixId[m] # None
        /\ Unlinking(h, store.byMatrixId[m],
                     [Idle EXCEPT !.pc = "draining", !.matrix = m])
        /\ UNCHANGED <<roomRows, loading, reading, twice>>

\* drainAndLeaveMatrixRoom; the ghosts that fail to leave are ignored ...
Drain(h) ==
    /\ requests[h].pc \in {"draining", "dmDraining"}
    /\ Commit(fields, store,
              After(h, [requests[h] EXCEPT !.pc =
                            IF @ = "draining" THEN "deleting" ELSE "dmDeleting"]))
    /\ UNCHANGED <<roomRows, loading, reading, twice>>

\* ... but not a failure to list them, which leaves the row in the table.
DrainFails(h) ==
    /\ "drainFails" \in Traffic
    /\ requests[h].pc \in {"draining", "dmDraining"}
    /\ Commit(fields, store, Done(h))
    /\ UNCHANGED <<roomRows, loading, reading, twice>>

\* A mutant: the unlinked room's row is not deleted.
ForgetRow(h) ==
    /\ At(h, "deleting")
    /\ Commit(fields, store, Done(h))
    /\ UNCHANGED <<roomRows, loading, reading, twice>>

DeleteRow(h) ==
    /\ At(h, "deleting")
    /\ roomRows' = [roomRows EXCEPT ![requests[h].inbound] = NoRow]
    /\ Commit(fields, store, Done(h))
    /\ UNCHANGED <<loading, reading, twice>>

-----------------------------------------------------------------------------
(* handleDmInvite: a Matrix user invites a Slack user's ghost to a room *)

\* conversations.open has answered. A DM that Slack says was open and that is
\* bridged is to be detached from its room first. "reopen": Slack says it was
\* closed although it is bridged. Nothing asks whether the Matrix room is
\* bridged, or has been asked for by another invite.
OpenDm(h) ==
    \E m \in MatrixRoomIds, c \in DmChannelIds :
        LET existing == store.byChannelId[c] IN
        /\ Accepts(h, IF m \in NewMatrixRooms THEN "invite" ELSE "reinvite")
        /\ \/ /\ existing # None
              /\ Commit(fields, store,
                        After(h, [Idle EXCEPT !.pc = "detaching", !.matrix = m,
                                              !.channel = c, !.room = existing]))
           \/ /\ existing = None \/ "reopen" \in Traffic
              /\ Commit(fields, store,
                        After(h, [Idle EXCEPT !.pc = "opening", !.matrix = m,
                                              !.channel = c]))
        /\ UNCHANGED <<roomRows, loading, reading, twice>>

\* actionUnlink of the room that the existing object is bridged to now. It
\* throws, and the invite fails with it, if that room is no longer bridged.
DetachDm(h) ==
    LET q == requests[h]
        r == store.byMatrixId[fields[q.room].matrix]
    IN
    /\ At(h, "detaching")
    /\ IF r = None
       THEN Commit(fields, store, Done(h))
       ELSE Unlinking(h, r, [q EXCEPT !.pc = "dmDraining"])
    /\ UNCHANGED <<roomRows, loading, reading, twice>>

DeleteDmRow(h) ==
    /\ At(h, "dmDeleting")
    /\ roomRows' = [roomRows EXCEPT ![requests[h].inbound] = NoRow]
    /\ Commit(fields, store,
              After(h, [requests[h] EXCEPT !.pc = "opening", !.inbound = None,
                                           !.room = None]))
    /\ UNCHANGED <<loading, reading, twice>>

\* A new BridgedRoom for a DM, whose inbound id is the channel id.
AddDm(h, m) ==
    LET q == requests[h]
        f == BridgedRoom(m, q.channel, q.channel)
    IN  \E r \in Unused :
          Commit([fields EXCEPT ![r] = f], Upserted(store, r, f),
                 After(h, [q EXCEPT !.pc = "addingDm", !.matrix = m, !.room = r]))

BridgeOpenedDm(h) ==
    /\ At(h, "opening")
    /\ AddDm(h, requests[h].matrix)
    /\ UNCHANGED <<roomRows, loading, reading, twice>>

\* A DM is saved whether it is dirty or not.
SaveDm(h) ==
    /\ At(h, "addingDm")
    /\ Save(h, requests[h].room, fields, store)
    /\ UNCHANGED <<roomRows, loading, reading, twice>>

-----------------------------------------------------------------------------
(* SlackRTMHandler.handleUserMessage: a message in an unknown conversation *)

\* messageQueueBySlackId: a channel's messages are handled one at a time.
Queued(c) == \E h \in Handlers : requests[h].queue = c

Discover(h, event, channels, pc) ==
    \E c \in channels :
        /\ Accepts(h, event)
        /\ store.byChannelId[c] = None
        /\ ~Queued(c)
        /\ Commit(fields, store,
                  After(h, [Idle EXCEPT !.pc = pc, !.channel = c, !.queue = c]))
        /\ UNCHANGED <<roomRows, loading, reading, twice>>

DiscoverDm(h) == Discover(h, "dm", DmChannelIds, "discovered")

DiscoverPrivate(h) ==
    Discover(h, "private", SlackChannelIds \ DmChannelIds, "discoveredPrivate")

\* createDM has made the Matrix room.
BridgeDiscoveredDm(h) ==
    /\ At(h, "discovered")
    /\ \E m \in NewMatrixRooms : AddDm(h, m)
    /\ UNCHANGED <<roomRows, loading, reading, twice>>

\* TeamSyncer.onDiscoveredPrivateChannel: no await between the store and the
\* query.
BridgePrivate(h) ==
    LET q == requests[h] IN
    /\ At(h, "discoveredPrivate")
    /\ \E m \in NewMatrixRooms, r \in Unused, i \in genInboundId :
          LET f == BridgedRoom(m, i, q.channel) IN
          Save(h, r, [fields EXCEPT ![r] = f], Upserted(store, r, f))
    /\ UNCHANGED <<roomRows, loading, reading, twice>>

-----------------------------------------------------------------------------
(* onRoomUpgrade *)

\* The room is looked up before the admin room is awaited.
Upgrade(h) ==
    \E old \in MatrixRoomIds, new \in NewMatrixRooms :
        /\ Accepts(h, "upgrade")
        /\ store.byMatrixId[old] # None
        /\ Commit(fields, store,
                  After(h, [Idle EXCEPT !.pc = "upgrading", !.matrix = new,
                                        !.room = store.byMatrixId[old]]))
        /\ UNCHANGED <<roomRows, loading, reading, twice>>

Migrated(h) == [fields EXCEPT ![requests[h].room].matrix = requests[h].matrix]

Migrate(h) ==
    LET r == requests[h].room
        f == Migrated(h)
    IN
    /\ At(h, "upgrading")
    /\ Save(h, r, f, Upserted(Removed(store, r, fields[r]), r, f[r]))
    /\ UNCHANGED <<roomRows, loading, reading, twice>>

-----------------------------------------------------------------------------
(* Slack events that write a row or clean a room *)

\* A mutant: the room is cleaned and not saved.
RenameUnsaved(h) ==
    \E c \in SlackChannelIds :
        /\ Accepts(h, "rename")
        /\ store.byChannelId[c] # None
        /\ Commit([fields EXCEPT ![store.byChannelId[c]].dirty = FALSE],
                  store, requests)
        /\ UNCHANGED <<roomRows, loading, reading, twice>>

\* A channel event or webhook post shows a new name for a bridged channel.
Rename(h) ==
    \E c \in SlackChannelIds :
        /\ Accepts(h, "rename")
        /\ store.byChannelId[c] # None
        /\ Save(h, store.byChannelId[c], fields, store)
        /\ UNCHANGED <<roomRows, loading, reading, twice>>

\* upsertActivityMetrics takes the room's id from toEntry().
RecordActivity(r) ==
    /\ "metrics" \in Traffic
    /\ r \in store.rooms
    /\ fields' = [fields EXCEPT ![r].dirty = FALSE]
    /\ UNCHANGED <<store, roomRows, requests, loading, reading, twice>>

-----------------------------------------------------------------------------
(* Restart *)

\* The process is gone, and run() begins again: it starts the RTM clients, the
\* hooks and the listener of the bridge.
Restart ==
    /\ "restart" \in Traffic
    /\ Commit(fields, EmptyStore, [h \in Handlers |-> Idle])
    /\ loading' = [i \in InboundIds |-> NoRow]
    /\ reading' = TRUE
    /\ twice' = {}
    /\ UNCHANGED roomRows

\* Then run() reads the whole table, and loads the entries side by side.
ReadRooms ==
    /\ reading
    /\ loading' = roomRows
    /\ reading' = FALSE
    /\ twice' = twice \cup
           {i \in InboundIds : /\ roomRows[i] # NoRow
                              /\ \E r \in BridgedRooms : fields[r].inbound = i}
    /\ UNCHANGED <<fields, store, roomRows, requests>>

\* startupLoadRoomEntry.
LoadRoom(i) ==
    \E r \in Unused :
        LET f == BridgedRoom(loading[i].matrix, i, loading[i].channel) IN
        /\ loading[i] # NoRow
        /\ Commit([fields EXCEPT ![r] = f], Upserted(store, r, f), requests)
        /\ loading' = [loading EXCEPT ![i] = NoRow]
        /\ UNCHANGED <<roomRows, reading, twice>>

\* The entry's team could not be read: its room stays out until a restart.
LoadFails(i) ==
    /\ "loadFails" \in Traffic
    /\ loading[i] # NoRow
    /\ loading' = [loading EXCEPT ![i] = NoRow]
    /\ UNCHANGED <<fields, store, roomRows, requests, reading, twice>>

-----------------------------------------------------------------------------
\* A call to Slack, the homeserver or the database that a handler awaits
\* before it changes anything fails: the handler throws.
CallFails(h) ==
    /\ requests[h].pc \in {"linking", "detaching", "opening", "discovered",
                           "discoveredPrivate", "upgrading"}
    /\ Commit(fields, store, Done(h))
    /\ UNCHANGED <<roomRows, loading, reading, twice>>

\* Users, Slack and the homeserver.
Arrives(h) ==
    \/ Link(h) \/ LinkWebhook(h) \/ ChangeWebhook(h) \/ Unlink(h)
    \/ OpenDm(h) \/ DiscoverDm(h) \/ DiscoverPrivate(h) \/ Upgrade(h)
    \/ Rename(h)

\* A handler runs on after an await.
Continues(h) ==
    \/ LinkNewRoom(h) \/ LinkBridgedRoom(h) \/ LinkSave(h) \/ StoreRow(h)
    \/ Drain(h) \/ DeleteRow(h) \/ DetachDm(h) \/ DeleteDmRow(h)
    \/ BridgeOpenedDm(h) \/ SaveDm(h) \/ BridgeDiscoveredDm(h)
    \/ BridgePrivate(h) \/ Migrate(h)

\* What it awaited failed.
Fails(h) ==
    \/ CallFails(h) \/ RtmFails(h) \/ SaveFails(h) \/ DrainFails(h)

Next ==
    \/ \E h \in Handlers : Arrives(h) \/ Continues(h) \/ Fails(h)
    \/ \E r \in BridgedRooms : RecordActivity(r)
    \/ \E i \in InboundIds : LoadRoom(i) \/ LoadFails(i)
    \/ Restart \/ ReadRooms

Spec == Init /\ [][Next]_vars

\* Awaits end, start-up goes on and the process stays up in the end; nobody
\* has to send a request.
Fairness ==
    /\ <>[][~Restart]_vars
    /\ \A h \in Handlers : WF_vars(Continues(h) \/ Fails(h))
    /\ WF_vars(ReadRooms)
    /\ \A i \in InboundIds : WF_vars(LoadRoom(i) \/ LoadFails(i))

FairSpec == Spec /\ Fairness

-----------------------------------------------------------------------------
\* No request is in flight and start-up is over.
Quiet ==
    /\ \A h \in Handlers : At(h, "idle")
    /\ ~reading
    /\ \A i \in InboundIds : loading[i] = NoRow

\* What the Matrix-room and inbound maps find is bridged, and has that key:
\* no interleaving of links, unlinks, upgrades and DMs makes a Matrix event
\* or a webhook post reach a removed room or one of another id.
MatrixIndexSound ==
    \A m \in MatrixRoomIds : store.byMatrixId[m] # None =>
        /\ store.byMatrixId[m] \in store.rooms
        /\ fields[store.byMatrixId[m]].matrix = m

InboundIndexSound ==
    \A i \in InboundIds : store.byInboundId[i] # None =>
        /\ store.byInboundId[i] \in store.rooms
        /\ fields[store.byInboundId[i]].inbound = i

IndexSound == MatrixIndexSound /\ InboundIndexSound

\* The same of the channel map, as long as nobody links a room to a second
\* channel: actionLink then leaves the first one in the map.
ChannelIndexSound ==
    \A c \in SlackChannelIds : store.byChannelId[c] # None =>
        /\ store.byChannelId[c] \in store.rooms
        /\ fields[store.byChannelId[c]].channel = c

ChannelIndexSoundUnlessRelinked == "relink" \notin Traffic => ChannelIndexSound

\* A bridged room is the only one of its Matrix room and of its channel, and
\* the maps find it by all its keys: it gets the messages of both sides and
\* it can be unlinked.
\* It needs requests that do not overlap and wait for start-up, no
\* second channel for a room, and no direct invite in a room that is known.
OneToOne ==
    \A r \in store.rooms :
        /\ store.byMatrixId[fields[r].matrix] = r
        /\ store.byInboundId[fields[r].inbound] = r
        /\ fields[r].channel # None => store.byChannelId[fields[r].channel] = r

\* At rest, the rooms in memory are the rooms in the table: a restart
\* changes nothing, brings no unlinked room back and loses none.
RestartInvisible ==
    Quiet => \A i \in InboundIds :
        LET r == store.byInboundId[i] IN
        roomRows[i] = IF r = None THEN NoRow
                      ELSE [matrix  |-> fields[r].matrix,
                            channel |-> fields[r].channel]

\* A row never stays behind: its room is bridged in the end, also after a
\* restart, or the row is deleted.
RowsLive ==
    \A i \in InboundIds :
        roomRows[i] # NoRow ~> roomRows[i] = NoRow \/ store.byInboundId[i] # None

\* A room that is not dirty and that no query is about to save is in the
\* table as it is in memory: what "dirty" means in BridgedRoom.
CleanMatchesRow ==
    \A r \in store.rooms :
        \/ fields[r].dirty
        \/ \E h \in Handlers : At(h, "saving") /\ requests[h].room = r
        \/ roomRows[fields[r].inbound] = [matrix  |-> fields[r].matrix,
                                          channel |-> fields[r].channel]

\* A bridged room that has no row has one on its way: whatever else is
\* linked, unlinked or renamed meanwhile, a restart finds every room whose
\* request has ended. Only a room that was bridged before start-up read the
\* table, and that is then loaded again, may lose the row it shares with its
\* double, when one of the two is unlinked.
SavedOrSaving ==
    \A r \in store.rooms :
        \/ fields[r].inbound \in twice
        \/ roomRows[fields[r].inbound] # NoRow
        \/ \E h \in Handlers :
              /\ requests[h].room = r
              /\ At(h, "saving") \/ (At(h, "adding") /\ fields[r].dirty)

=============================================================================
