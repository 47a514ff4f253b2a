# A verification of matrix-appservice-slack

TLA+ models of the bridge, the TLC runs that check them, and TLAPS proofs about
them. Paths are relative to the repository, and line numbers are those of the
commit the project was written against.

The bridge is one Node process. Nothing runs in parallel, but handlers
interleave at every `await`, and most of what can go wrong is a handler that
looked at something, awaited, and acted on what it had seen. The models keep
every such point: **an action is what a handler does between two awaits**.
Awaits that share no state with any other handler are merged with the next one.

    SlackRoomStore ── RoomLinks ──────────┬── MCRoomLinks      rooms_*.cfg
                                          └── RoomLinksProofs
    MessageRelay ──────────────────────────── MCMessageRelay   relay*.cfg
    AccountBook ◄·· refined by ·· Accounts ── MCAccounts       accounts.cfg
    GhostStore ── TeamMembers ─────────────── MCTeamMembers    members*.cfg
    Database ──────┬── BridgeProcess ──────── MCBridgeProcess  process.cfg
    AdminCommands ─┘

A line joins a module to the one that extends it. The proofs are in modules of
their own: `RoomLinksProofs`, `MessageRelayProofs`, `AccountBookProofs`,
`AccountsProofs` and `AccountsSafetyProofs`, `BridgeProcessProofs` (with the
theorems of `Database`), `TeamMembersProofs` and `TeamFolkProofs` (which extends
it with the users of a team).

## Inventory

| Component | State | Operations | What is hard | What makes it correct | Here |
|---|---|---|---|---|---|
| `SlackRoomStore` | a set of rooms and three maps (Matrix room, channel, inbound id) | `upsertRoom`, `removeRoom`, look-ups | keys of a room change while it is stored | a map never finds a removed room or one of another key | `SlackRoomStore` |
| Linking (`Main`, `BridgedRoom`, RTM handler, `TeamSyncer`, hooks) | the fields of each room, its dirty flag | `actionLink`, `actionUnlink`, `handleDmInvite`, discovered DMs and private channels, `onRoomUpgrade`, renames, start-up | check, await, act; partial failure; restarts | rooms and channels are one to one; memory and table agree at rest | `RoomLinks` |
| `PgDatastore` | tables rooms, events, users, teams, puppets, reactions, accounts, metrics, schema version | upserts, deletes, look-ups, migrations | conflict clauses; `toEntry()` has a side effect; crash between migration and version | a row says what was last saved | rooms in `RoomLinks`, events in `MessageRelay`, accounts, puppets and teams in `Accounts`, users in `GhostStore`, migrations in `Database` |
| Relay (`BridgedRoom`, `SlackGhost.send*`) | `recentSlackMessages`, `slackSendLock`, events table | messages, edits, redactions, threads both ways, reactions, files, joins | the bridge sees its own posts; several streams; lost answers; rows read before a post and written after | each message once, in order, in its thread; deletions reach the other side and do not bounce | `MessageRelay` |
| Slack events (`SlackEventHandler`, `SlackHookHandler`) | none | one handler per event type | acknowledged before it is handled | an event is handled for the right room or dropped | in `RoomLinks` and `MessageRelay` |
| `SlackRTMHandler` | clients per team and per puppet, a queue per channel | start, disconnect, dispatch | look, await, set; `rtm.start` may be slower than the first event | at most one client per user; private messages in order; none after logout | queue in `MessageRelay`, connections in `Accounts` |
| Accounts and teams (`SlackClientFactory`, `Main.setUserAccessToken`, `logoutAccount`) | accounts, puppets, teams tables; two caches of clients | log in, log out, get a client, check a token | stale caches; a team row written back after it was deleted | no client or row outlives its account | `Accounts`, `AccountBook` |
| Ghosts (`SlackGhost`, `SlackGhostStore`) | an LRU of ghosts, a cached and a shared look-up | get, update | two look-ups of one ghost; a look-up that rejects | the name on Matrix is the one on Slack; a failure does not stick | `GhostStore` |
| `TeamSyncer` | none (works on rooms and ghosts) | sync users, channels, membership | check, await, act; works on a moving membership | the room's ghosts become the channel's members | `TeamMembers` |
| `AdminCommands` | one waiter per sender | `parse` | a failed command before a queued one | commands of one sender run in order and report their own outcome | `AdminCommands` |
| `OAuth2`, `UserAdminRoom` | tokens with an expiry | issue, redeem | late and repeated redirects | a token is good once, a user has one admin room | `Accounts`, `TeamMembers` |
| `Provisioner` | none | link, unlink, log out over HTTP | the limit on rooms is checked before the link | no more rooms than the limit | `Accounts` |
| `SlackBridgeBlocker` | blocked or not | block, unblock | half-finished restarts | a blocked bridge is silent; unblocking undoes blocking | `Accounts` |
| `NedbDatastore`, `migrateToPostgres` | files | as `PgDatastore`; one migration per kind of row | rows of an old format; rows that fail; runs that are repeated | what was there is there afterwards | the import in `Database` |
| `AllowDenyList` | none | pure functions | - | agree with the documented rule | channels in `TeamMembers` |
| `substitutions` | none | pure functions | formatting | - | not modelled |
| `MatrixUser`, `RoomCreation`, metrics | caches, counters | - | - | - | not modelled |

`PROJECT.json` lists the hazards of all of these at their lines, the ones that
no property covers yet included.

## RoomLinks: which room is bridged to which channel

**State.** `store` is `Main.rooms`; `fields` the private fields of every
`BridgedRoom` object (Matrix room, inbound id, channel, dirty flag); `roomRows`
the `rooms` table by inbound id; `requests` the handlers in flight, each with a
pc and the values it holds across its awaits; `reading` says that start-up has
yet to read the table, `loading` is what it has read and still has to load, and
`twice` remembers the ids whose row it read although their room was already
bridged. A room that nothing refers to is collected
(`Referenced`, `Commit`), so that objects can be reused in a finite instance.

**Actions.**

| Code | Actions |
|---|---|
| `Main.actionLink` | `Link`, `LinkWebhook`, `ChangeWebhook`, `LinkNewRoom`, `LinkBridgedRoom`, `LinkSave` |
| `Main.addBridgedRoom` failing to start RTM | `RtmFails` |
| `PgDatastore.upsertRoom`, `deleteRoom` | `Save` (the call), `StoreRow`, `SaveFails`, `DeleteRow` |
| `Main.actionUnlink` | `Unlink`, `Drain`, `DrainFails`, `DeleteRow` |
| `Main.handleDmInvite` | `OpenDm`, `DetachDm`, `DeleteDmRow`, `BridgeOpenedDm`, `SaveDm` |
| `SlackRTMHandler` on an unknown channel | `DiscoverDm`, `BridgeDiscoveredDm`, `DiscoverPrivate`, `BridgePrivate` |
| `Main.onRoomUpgrade` | `Upgrade`, `Migrate` |
| `channel_rename` | `Rename` |
| `upsertActivityMetrics` | `RecordActivity` |
| `Main.run` | `Restart`, `ReadRooms`, `LoadRoom`, `LoadFails` |

`upsertRoom` of the datastore is split where it matters: `toEntry()` copies the
fields and clears the dirty flag at the call, and the database writes later.
`actionUnlink` calls `toEntry()` too.

**Runs.** `Traffic` says what the environment does; each kind is something the
code handles, so that a run can say which ones its properties survive. `starting`
lets requests in from the moment the listeners are up (`Main.ts:1131`), `early`
from the moment the table is read (`Main.ts:1215`); without them requests wait
until every row is loaded. `invite` is a direct invite in a room that nothing
knows, `reinvite` one in a room that is bridged or is about to be.

| Run | Shows |
|---|---|
| `rooms_serial` | One request at a time, after start-up, clean-up that succeeds and no `reinvite`: `OneToOne`, `RestartInvisible` (at rest a restart would bring back exactly what memory has) and `RowsLive` (a row whose room is gone is deleted in the end). No symmetry, because of the liveness property; deadlock is checked. |
| `rooms_racing` | Two requests at once, also before start-up reads the table and while it loads it: the channel map stays right as long as no bridged room is linked again, and every bridged room is saved or about to be, but for those that start-up loads a second time (`twice`): they share a row with their double, and an unlink of either deletes it. |
| `rooms_concurrent` | Two requests at once with every failure, relinks, upgrades, DMs, metrics and restarts: the Matrix-room and inbound maps stay right whatever happens. |
| `rooms_direct_invite` | **Violation** of `OneToOne` by one request after the other: `handleDmInvite` never asks whether the Matrix room is bridged (`Main.ts:690`). |
| `rooms_upgrade` | **Violation** of `CleanMatchesRow`: the row of an upgraded room keeps the old Matrix room (`PgDatastore.ts:291`). |

Bounds: two or three Matrix rooms, one or two channels, one DM channel, two
generated ids, three objects, one or two requests. A race is between two
requests; three objects let one be removed while another takes its keys and a
third loads.

Fairness (`FairSpec`): a handler that awaits goes on, with success or failure,
start-up reads the table and finishes with each row, and in the end the process
stays up, since one that is restarted for ever never gets to its rows. Nothing
is assumed about when requests come.

**Known limits**, seen by adding a kind of traffic to a run and watching a
property fail. They follow from the code and are not hidden by the models. The
type invariant is proved and checked in `rooms_serial`, and not checked again in
the runs with two requests.

- Linking a bridged room to another channel leaves the old channel's entry in
  the channel map (hence `ChannelIndexSoundUnlessRelinked`), and a webhook room
  that is linked to a channel never enters it (`Main.ts:1447`).
- Rooms and channels are one to one only where nobody sends a direct invite in a
  room that is bridged or invited to already (`rooms_direct_invite`); where
  requests come one at a time, since of two links that overlap both pass the
  check (`Main.ts:1364`); and where they wait for start-up: with `starting` a room
  that is linked before the table is read is loaded a second time
  (`Main.ts:1215`), and with `early` a channel whose row is read and not yet
  loaded can be linked again.
- If draining the Matrix room fails, the row stays and the room is back after a
  restart (`Main.ts:1503`): `RowsLive` and `RestartInvisible` are about drains
  that succeed.
- `RecordActivity` clears the dirty flag of a room that has not been saved, and
  the link is lost at the next restart (`PgDatastore.ts:450`): `CleanMatchesRow`
  fails with `metrics` too.
- A DM that Slack calls new although it is bridged (`already_open` false) is
  bridged twice (`Main.ts:928`).
- An unlink during an upgrade, or during the save of a link, leaves a row
  behind or brings the room back; of this `rooms_concurrent` checks the maps only.
- A row that fails to load is out of memory until the next start, and its
  channel can be linked a second time.

## MessageRelay: what one room does with messages

**State.** `channel` and `timeline` are the Slack channel and the Matrix room
(a message's ts and an event's id are its place in them), `rows` the `events`
table, `recent` is `recentSlackMessages`, `lock` the handlers chained on
`slackSendLock`, `tasks` the handlers in flight, `seen` how far each stream (an
RTM connection or the event subscription) has delivered the channel, `notices`
deletions Slack still has to tell. An edit on Slack is told with a ts of its own
(`message_changed`), so it has a place in `channel` too, and names what it
`edits`. `private` says that only puppets see the
channel; their events go through `messageQueueBySlackId`, one at a time.
`forgotten` is a history variable: the ts that fell out of `recent` or whose
post was never answered.

**Actions.**

| Code | Actions |
|---|---|
| `onMatrixMessage` | `MatrixMessage`, `ReadParent`, `Post`, `Answered` or `AnswerLost`, `StoreSent`, `StoreList` |
| `handleMessageEvent`, `onSlackMessage` | `Deliver`, `Check`, `Enqueue`, `Begin` |
| `handleSlackMessage`, `getReplyEvent`, `SlackGhost.send*` | `ReadThread`, `WriteThread`, `FindReply`, `Send` or `SendFails`, `RecordCopy`; of an edit, `MatchEdit` and `DropEdit` besides |
| `message_deleted` | `DeletionArrives`, `Locate`, `Remove` |
| `onMatrixRedaction` | `MatrixRedacts`, `ReadRedacted`, `Unstore`, `DeleteOnSlack` |
| `onMatrixEdit` | `MatrixEdits`, `ReadEdited`, `Update`, `StoreEdit` |

**Runs.**

| Run | Shows |
|---|---|
| `relay` | Messages, puppets' messages, replies, edits on both sides, Matrix redactions, two streams, and every call failing or losing its answer: `AtMostOnce`, `CopiesRecorded`, `NotOverRedacted`, and under fairness `LockMoves` (a send that fails does not jam the messages behind it). The channel is not private: in a private one the same steps happen, fewer at a time. |
| `relay_private` | A private channel with threads, Slack's edits and deletions, Matrix redactions, and redactions that the homeserver refuses to the bot: `InOrder`, `ThreadsHold`, `DeletionsReach`. |
| `relay_threads` | **Violation** of `ListsComplete`: of two Matrix replies in flight one is lost from the thread's list. |

Bounds: two handlers, two streams, two or three Slack messages and Matrix
events, and one or two remembered ts in place of ten, so that forgetting
happens. Two messages and two streams show duplicates and reordering, and a
message with its edit takes two; a thread needs its root and two replies.

Assumptions: Slack answers a post within `PUPPET_INCOMING_DELAY_MS` or never
(`Check`), which is what the delay in the code is for; Slack tells a deletion
after every stream has delivered the message; the database answers. Fairness: a handler that awaits
goes on, in success or failure. The violation runs are about safety and
need none.

What the exemptions in the properties say: an edit that the bridge makes for a
puppet may come back, once, since `chat.update` is told with a ts that
`onMatrixEdit` does not remember, and no bot id (`AtMostOnce`, `BridgedRoom.ts:416`;
what the bridge *posted* never does); a redaction that was refused counts as
tried, as it is by the bridge's bot, which is not in a DM that puppets opened
(`DeletionsReach`, `SlackEventHandler.ts:295`); a deletion that came from Matrix
redacts, when Slack tells of it, what was edited on Matrix, since the edit's row
has the same ts, a root whose row a reply wrote back, and the second copy of a
message that came twice (`NotOverRedacted`, `BridgedRoom.ts:372`); what a user edits on Slack although his puppet posted it may
enter a thread's list before the post has its row (`ThreadsHold`); a ts that was
forgotten can come twice; when the look-up of a ghost fails, the message is dropped by that stream
before it is remembered, and the next stream brings it late; a reply to
something that was never sent is no reply.

## Accounts: who has linked what, and what the bridge still holds of it

**State.** `waiting` and `issued` are the login links of `OAuth2`; `teams`,
`accounts`, `puppets` the tables; `rooms` the bridged rooms by team;
`teamClients` and `puppetClients` the caches of `SlackClientFactory`; `rtmUsers`
and `rtmTeams` the maps of `SlackRTMHandler`, `open` and `streams` the
connections that are really there, which the maps may not know. `grants`, `dead`
and `deadBots` are Slack's side: whose a token is, and whether it still works.
`gate` says whether the limit on users blocks the bridge; `starting` is what
start-up has read and not yet started. `world` says what happens in a behaviour
and to whom, so that one run has several small environments.

| Code | Actions |
|---|---|
| `OAuth2`, `Provisioner.getAuthUrl`, `UserAdminRoom` login | `AskLink`, `Expire` |
| `handleAuthorize` | `Authorize`, `CheckLimit` |
| `setUserAccessToken`, `insertAccount`, `setPuppetToken`, `upsertTeamByToken` | `InsertAccount`, `SetPuppetToken`, `UpsertTeamByToken` |
| `startUserClient`, `getClientForUserWithId` | `StartUserClient`, `ReadPuppet`, `TestPuppet`, `Connect`, `UsePuppet` |
| `getTeamClient` | `UseTeam`, `LookTeamClient`, `ReadTeam`, `TryTeam`, `WriteTeam` |
| `Provisioner.link`, `unlink`, `actionLink` as far as teams go | `Link`, `EnterRoom`, `JoinRoom`, `Unlink` |
| `startTeamClientIfNotStarted`, `startTeamClient` | `LookStream`, `StartStream`, `ConnectStream` |
| `logoutAccount` | `Logout`, `CountAccounts`, `DeleteTeam`, `Revoke`, `DeleteAccount` |
| `Main.run` | `Restart`, `StartPuppet`, `StartTeam` |
| `SlackBridgeBlocker` | `Block`, `Unblock` |
| a workspace removes the app | `Uninstall` |

**`AccountBook`** is what a user may rely on: a link is made once and for one
user, it leads to at most one account, which is his, a user has one token for a
Slack user, and an account leaves the book only by its owner's logout. `KeepsTheBook`
says that `Accounts` implements it under the mapping `book <- accounts` and
`invited <- Invited(l)`, who is the user the link waits for or whose login is
between the callback and the insert. A link that expires, a login over the
limit and a restart are lapses of the book.

**Run `accounts`.** Two handlers, up to three links, one or two users, teams and
Slack users as each of the nine worlds needs, limits of one team and one room.
One world serialises requests, so that `StreamsBounded` says that there is one
connection; two handlers are what every race here needs. Links are symmetric,
and so are handlers.

The properties are exact about where the code falls short: each exception is a
history variable that is set at the race, or on the way of the defect, and
nothing else may set it.

- `LogoutHolds`, `loose`: `logoutAccount` calls `disconnectClient(userId,
  slackId)` on a method that takes `(teamId, userId)` (`Main.ts:1628`,
  `SlackRTMHandler.ts:107`), so it finds nothing; the puppet's row and client
  stay. What ends them is that Slack revokes the token. If Slack refuses, or a
  second login had replaced the token, the old one goes on working.
- `PuppetsCurrent`, `PuppetsConnected`, `again`: the client of a puppet is
  cached for good, and a user with a connection gets no other: who logs in again
  is served with the old token until the next restart.
- `RoomsKeepTeam` and `TokenCurrent`, `raced`: a logout deletes the team some
  awaits after it has looked at its rooms, and `getTeamClient` writes back the
  row it read before; a handler that overlaps either may bring a deleted team
  back, undo a new token, or leave a room without its team.
- `Quotas`: the limits are checked first and used later. Requests that overlap
  pass them, each once.
- `StreamsBounded` and `BlockedSilent`, `strayed`: a start that is under way
  when the bridge is blocked goes on in the handler that was dropped, and its
  connection is in no map. Unblocking starts neither the connections nor the
  hook listener; both need a restart, so `PuppetsConnected` is stated for
  bridges that were not blocked.

No fairness: these are safety properties, of which four are about states at rest.
Deadlock is not checked, since a world's links run out.

## BridgeProcess: schema, import and the admin room

`Database` and `AdminCommands` have the steps, `BridgeProcess` the life of the
process: commands are taken when the database is up, and a process that dies
takes the queue with it.

**Database state.** `version` is the row of the table `schema`, `ran` the
queries that are committed, `at` the next one; `linked`, `doubles` and `shifted`
what versions 6, 15 and 11 do to rows; `told` and `toTell` the notices;
`stage`, `pending`, `tokenMap` and `aborted` where `migrateFromNedb` is.

**AdminCommands state.** `commands`, each with the one it waits for, its waiter
and what its sender was told, and `latest`, the map of last commands.

| Code | Actions |
|---|---|
| `ensureSchema`, `getSchemaVersion`, `updateSchemaVersion`, `schema/v*` | `StartProcess`, `GetSchemaVersion`, `RunSchema`, `UpdateSchemaVersion` |
| the notices of `Main.run` | `TellUsers` |
| `migrateFromNedb` | `MigrateOne` with `MigrateTeam`, `MigrateRoom`, `MigrateGhost`, `MigrateRow`; `NextStage` |
| a crash, a query that fails | `Crash` (`Die`) |
| `onMatrixAdminMessage`, `AdminCommands.parse` | `Command` with `Issue`, `Begin`, `End` |

**Run `process`.** Eight installations: empty, of several versions, with
accounts or double puppets, and kept by NeDB; two deaths where a death is the
point; up to four commands of two users. Four commands are a failed one, one
that waits for it, the one after, and one of another user.

- `SchemaWhole`: a recorded version has run, no version is skipped, and the
  bridge is up on the latest only, wherever the process dies.
- `UpgradeKept`: accounts get into their table, dates are moved once, and who
  loses a puppet is told, a torn version 15 included. Exceptions: `torn`, a process that died between the
  queries of a version and its record. Versions 11 and 14 run twice without
  harm to the schema, but 11 moves the dates twice; any other version then stops
  every later start. `untold`: notices are returned once and kept nowhere, so an
  import that upgrades the schema, or a later failure, loses them.
- `Imported`: a room comes out with the team of its token, and only ghosts of
  unknown teams are left behind. The accounts of Matrix users are not imported:
  `getAllUsers(true)` does not return them, and version 6 has copied them before
  the import begins; `docs/datastores.md` does not mention it.
- `CommandsInOrder`: one command of a sender at a time, in order, until one
  fails. `finally` passes the rejection on, so the command after a failed one is
  answered at once with the error of the failed one, and the next does not wait
  for it. `RepliesTrue` says that no one else hears of it.
- `ComesUp` (a process comes up, unless torn) and `EveryoneAnswered` (a command is
  answered, unless its process dies) are liveness properties. Fairness: the
  process is started again and goes on (weak fairness of `ComeUp`), since that
  is what a service manager does and every await there settles or fails; and
  each command that is queued or running goes on, since node runs every promise
  that is settled and Slack and the homeserver answer or time out. Nothing is
  assumed about users or crashes, whose number is bounded.

## GhostStore and TeamMembers: who is in the rooms

**State.** `GhostStore`: `cache` is the LRU of ghosts, `ghosts` the objects,
`rows` the `users` table, `profiles` the names on Matrix, `slackNames` those on
Slack. `TeamMembers`: `people`, `open`,
`closed` and `gone` are Slack, `ghostsIn`,
`usersIn`, `botIn`, `invited` and `adminRooms` Matrix, `bridged`, `stored` (the
rooms with a row), `active` and `adminRoom` the bridge; `slackQueue` and `matrixQueue` the events on their way;
`toSync` what the sync at start-up has still to do.

| Code | Actions |
|---|---|
| `SlackGhostStore.get`, `getExisting` | `LookGhost`, `GetGhost`, `FindExisting` |
| `SlackGhost.update`, `lookupUserInfo`, as part of `onSlackMessage` | `LookUpdate`, `AskSlack`, `WriteProfile`, `SaveName`, `SendMessage`, `Forgets` |
| `updateFromISlackUser` | `UpdateUser`, `AvatarFails`, `SaveName` |
| `handleMemberJoinedChannel`, `handleMemberLeftChannel`, `onSlackUserJoin`, `onSlackUserLeft` | `HandleSlack`, `GhostJoins`, `BotInvites`, `GhostLeaves` |
| `TeamSyncer.syncUser` | `FindExisting`, `HideUser`, `ListRooms`, `LeaveRooms` |
| `syncChannel`, `bridgeChannelToNewRoom`, `createRoomForChannel`, `ensureBotInChannel` | `SyncsChannel`, `AskBotIn`, `NoCreator`, `BridgeChannel`, `EnsureBot` |
| `syncMembershipForRoom`, from `syncChannel` and from `actionLink` | `SyncsRoom`, `ListGhosts`, `ListMembers`, `MoveMembers` |
| a call to Slack or the homeserver that fails | `CallFails`, and a disjunct of `AskSlack`, `WriteProfile`, `LeaveRooms`, `ListMembers`, `MoveMembers`, `DrainRoom` and others |
| `onChannelDeleted` | `UnlinkDeleted`, `DrainRoom` |
| `handleMatrixMembership`, `onMatrixJoin` | `HandleMatrix`, `BotJoins`, `PuppetJoins`, `Onboard`, `CreateAdminRoom`, `StoreAdminRoom` |
| `Main.run`, `syncAllTeams` | `Restart`, `SyncsUser`, `ListChannels`, `SyncsChannel` |
| users of Slack and Matrix | `SlackUserJoins` ... `MatrixUserMoves`, `BotMoved` |

**Runs.** `members` has two handlers, one or two users and channels, three to
five moves of users in each of sixteen worlds. Events are delivered in order,
handlers interleave at their awaits. Most properties are about rest, when every
event is handled, and except what two overlapping handlers about one user or
channel may leave (`crossed`, set when the second begins): the code has no lock
there, and the last to write wins. `members_resync` is a **violation** of
`MembersIn`, in a world of one move, with events one at a time.

With `outage` any call may fail: a look-up of a ghost, a name, an avatar, a join,
an invitation, a leave, a listing. In a loop over ghosts any part of them may
fail. The properties excuse what a failed call leaves, and name it: a user whose
name or avatar was refused, or whose rooms could not be listed or left
(`crossed`); a member whose own join failed (`due` then forgets him); a channel
whose room could not be drained or listed (`crossed`). Everybody else has to be
where the property says.

- `NamesFollow`: the name in the table and on Matrix is the one on Slack.
  `reverted`: a message within ten minutes of a look-up brings a cached name
  back. A user who is deleted and restored stays "Deleted User", since
  `updateFromISlackUser` compares with the row, which the deletion did not
  change. A crash between the profile and the row is not repaired either.
  A `users.info` that fails is kept as `userInfoLoading`: that object never
  looks again; `user_change` brings the name all the same. A name that the
  homeserver refuses, or an avatar that fails after it, rejects `syncUser`, and
  the row keeps the old name.
- `MembersPresent`: who has joined, and is expected as a ghost, is there, unless
  a sync found him there: `syncMembershipForRoom` takes the ghosts that *are*
  members for those who left (`TeamSyncer.ts:407`). The property does not ask for
  whom such a sync took out (`due`); that they should be there is `MembersIn`,
  which `members_resync` violates with a channel that is created and nothing
  else. The creator's ghost makes the room, so it is there when `actionLink` and
  `syncChannel` sync the membership, and one of them makes it leave.
- `RoomsClean`: no ghosts are left in a room that was unlinked, nor the ghost of
  a deleted user in a bridged one. An unlink that a restart cuts, or whose drain
  fails, leaves them; so does a user who is gone before his channel's room is
  made by his ghost.
- `DeletedUnlinked`: a channel that is deleted is unlinked, where public
  channels are synced; the event does not say what the channel was, and where
  only private channels are synced it stays. A deletion while RTM is down is never learned of.
- `ActiveWhenIn`: `MatrixRoomActive` agrees with the bot being in the room.
- `OneAdminRoom`: a user gets one admin room, and two joins that overlap may
  make two.

Also in the model and in no property: RTM clients do not listen to
`member_left_channel`, so those who leave stay; `onMatrixLeave` names the team
for the channel and Slack refuses, so a puppet never leaves with his user.


## Proofs

Theorems of `Spec`, each for every value of the constants that satisfies the
assumptions below:

| Module | Theorem | Proves |
|---|---|---|
| `RoomLinksProofs` | `TypeCorrect` | `[]TypeOK` |
| | `IndexesSound` | `[]IndexSound` |
| | `ChannelIndexesSound` | `[]ChannelIndexSoundUnlessRelinked` |
| | `ChannelsSound` | `[]ChannelIndexSound`, where no bridged room is linked again |
| | `RoomsGetSaved` | `[]SavedOrSaving`, under `NothingUnsaved` |
| | `OneRoomAChannel` | `[]OneToOne`, under `OneAtATime` and `Undisturbed` |
| | `RestartsChangeNothing` | `[]RestartInvisible`, under the same |
| `MessageRelayProofs` | `TypeCorrect` | `[]TypeOK` |
| | `OneSends` | `[]LockInv`: one handler sends at a time |
| | `ComesOnce` | `[]AtMostOnce` |
| | `RecordsCopies` | `[]CopiesRecorded` |
| | `KeepsOrder` | `[]InOrder` |
| | `RedactsDeleted` | `[]DeletionsReach` |
| | `KeepsThreads` | `[]ThreadsHold` |
| `AccountsProofs` | `TypeCorrect` | `[]TypeOK` |
| | `ImplementsBook` | `KeepsTheBook`: `Accounts` implements `AccountBook` |
| | `OneAccountALogin` | `[]Book!OneAccountALink` |
| `AccountBookProofs` | `OneAccount` | `[]OneAccountALink` of the abstract book |
| `AccountsSafetyProofs` | `BlockedIsSilent` | `[]BlockedSilent` |
| | `TeamsOfRooms` | `[]RoomsKeepTeam` |
| | `ClientsOfPuppets` | `[]PuppetsCurrent` |
| | `TokensOfTeams` | `[]TokenCurrent` |
| | `LogoutEndsUse` | `[]LogoutHolds` |
| | `PuppetsHeard` | `[]PuppetsConnected` |
| | `QuotasHold` | `[]Quotas` |
| | `StreamsAreBounded` | `[]StreamsBounded` |
| `BridgeProcessProofs` | `TypeCorrect` | `[]TypeOK` |
| | `SchemaIsWhole` | `[]SchemaWhole` |
| | `UpgradesKeep` | `[]UpgradeKept` |
| | `ImportsKeep` | `[]Imported` |
| | `CommandsAreInOrder` | `[]CommandsInOrder` |
| | `RepliesAreTrue` | `[]RepliesTrue` |
| `TeamMembersProofs` | `TypeCorrect` | `[]TypeOK` |
| | `AdminRoomsBounded` | `[]OneAdminRoom` |
| | `ActiveRooms` | `[]ActiveWhenIn` |
| | `DeletedLoseRooms` | `[]DeletedUnlinked` |
| `TeamFolkProofs` | `RoomsAreClean` | `[]RoomsClean` |
| | `MembersArePresent` | `[]MembersPresent` |
| | `NamesAreFollowed` | `[]NamesFollow` |

The assumptions say what the constants are, and TLC evaluates them on the runs:
`NoneAssumption` (None is not a room, channel or id), `IdsAssumption` (an id of
32 random characters is no DM's) and `TrafficAssumption` of `RoomLinks`;
`RelayAssumption` (the bounds are numbers, at least one ts is remembered);
`AccountsAssumption` (worlds are worlds, limits are numbers, None is nobody) and
`HandlersAssumption` (there are finitely many handlers in flight, and one at
least: the limits count them); `DatabaseAssumption` (a token has one team, there
are finitely many users to be told) and `AdminCommandsAssumption`;
`FoundAssumption` (what is found at start-up is an installation, in which the
rooms of NeDB have different ids, as `upsertRoom` there writes by id);
`TeamMembersAssumption` (worlds are worlds, with a name in each; the user that
the bridge itself has on Slack is no puppet and does not move; None and the
empty row are nobody's name; there are finitely many handlers).

Four theorems of `RoomLinks` have hypotheses about the environment. They are the
environments of the runs that check these properties, and "Known limits" above
says what the code does outside of them:

- `"relink" \notin Traffic` for `ChannelIndexSound`;
- `NothingUnsaved`: no save, RTM start or metric leaves a room without a row, and
  no inbound id is used again, as those of DMs and upgraded rooms are. Relinks,
  webhooks, private channels, unlinks that fail to drain, restarts and requests
  during start-up, before the table is read and after, by any number of handlers,
  are all there;
- `OneAtATime` and `Undisturbed`: one handler, start-up ends before it, clean-up
  and saves succeed, rooms are neither linked again nor upgraded, and nobody
  sends a direct invite in a room that the bridge knows.

**RoomLinks.** `IndexSound` is not inductive: to upsert a room the proof must
know that its fields are those of a room, and a handler that comes back from an
await must hold a room that still has fields and values of the right kind.
`Consistent(f, s, q)` says this of given fields, a store and requests:
`RequestOK` for every request (what each pc carries, and that a link holds no
room unless relinks happen), and real fields for everything still referenced.
Every action ends in `Commit(f, s, q)`, which collects garbage; so
`CommitConsistent` shows once that collecting keeps `Consistent`, and four
lemmas show that changing a request, upserting, removing and changing a field
do. `StepConsistent` goes through the actions with these, `NextInductive` adds
the types of the table, and the theorems follow by PTL. That a removed room is
not found by its old keys is where `ChannelIndexSound` needs "no relink": a
relink changes a stored room's channel with no upsert.

`SavedInv` adds to `SavedOrSaving` that inbound ids are unique, but for those in
`twice`, which were linked after intake had started and before `getAllRooms`: no
two bridged rooms share one, and none is that of a row to be deleted or still to
be loaded. So a `DeleteRow` never takes the row of a bridged room, whoever else runs.
`SerialInv` speaks of the maps, the table, what is to be loaded and the one
request: the maps find each room by all its keys (`MapsIn`); no two rows share a
room or a channel, and a row is that of its bridged room, or has the keys of none
(`TableIn`); a row to be loaded is still in the table and its room is not
bridged (`LoadIn`); what the request has found free is still free (`AskedIn`);
and any other id has a row just if it has a room (`SettledIn`). The third part is
why a room can be loaded after a restart in any order, the fourth is what a second
handler would break.

**MessageRelay.** `TypeInv` carries what a task refers to: a ts of the channel,
an event of the room, as far as each pc reads them. `LockInv` is the chain on
`slackSendLock`: its members are the handlers at the pcs between chaining and
release, each once, and only its head is past the wait. On these rest:

- `RecentInv` and `OnceInv`, for `AtMostOnce`: a copied, posted or begun message
  is in `recentSlackMessages` or was in it and fell out (`forgotten`), unless its
  post is not yet answered, in which case what the streams bring waits in
  `Check`; a handler past its check under the lock found no copy. An edit has a
  copy of its own, of a ts nothing else has.
- `RecordedInv` and `PairedInv`, for `CopiesRecorded`: a copy has its row or its
  handler is about to write it, only a Matrix redaction takes it out again, and
  rows, and those that handlers have read, pair events with their messages.
- `Solo` and `SeenInv`, for `InOrder`, in a private channel: one Slack event is
  handled at a time, and what a stream is past is remembered or on its way. So
  what waits is either known, and is dropped, or comes after all that was copied
  (`OrderInv`). A look-up that fails would break `SeenInv`, so the property
  exempts it.
- `DeletionInv`, for `DeletionsReach`: Slack tells of a deletion after every
  stream has brought the message, so no copy of it comes later; and each copy is
  redacted or its redaction was refused, or the notice or its handler is still
  to try.
- `RememberedInv`, `PastInv`, `ParentInv`, `ListInv`, `EarlierInv` and
  `ThreadInv`, for `ThreadsHold`: the ts of a thread's root is remembered before
  and shifted out before that of its replies; the list of the root's row holds
  earlier replies and those of Matrix users, each of which has a row, is being
  sent or was missed, and what was missed is what the property excuses.

**Accounts.** `TypeOK` is not inductive, because a handler uses fields of its
task that may be None; `TaskOK` says which are not at each pc, and that an
account's team is the one of its Slack user. `StartOK` and `ToOK` show once when
a new task keeps that, and there is one lemma per action. For the refinement
`LinksInv` says that a link is with `OAuth2` or with at most one login that has
not stored yet, and was issued; so what `AccountBook` calls `invited` is well
defined. `AskLink` maps to `Invite`, `Expire`, a refused login and a restart to
`Lapse`, `InsertAccount` to `Enter`, `DeleteAccount` to `Leave`, and every other
step leaves the book alone: `HandlerLeaves` shows that for a handler that ends
up where no link is held, whatever it does.
In the book a link that still invites is in no account, which is what makes
"one account a link" inductive.

The safety theorems strengthen each invariant by what handlers in flight know:

- `SilentInv`: no handler is inside the RTM handler of a blocked bridge
  (`~strayed`).
- `RoomsInv`: a room about to be added has a team and a team about to be deleted
  has no rooms, but for those in `raced`.
- `PuppetsInv`: a client being tried is the one of the row. It rests on the
  unique constraints of the puppets table: `setPuppetToken` can only replace the
  row of the key it writes.
- `TokenInv`: a `getTeamClient` that is under way holds the token of the team's
  last login, or the team is in `raced`; so what it writes back undoes nothing.
- `LogoutInv`: whatever holds a token (a row, a client, a connection, start-up, a
  login that stores) holds that of a linked account; a logout that deletes the
  account has revoked it or marked it `loose`.
- `WantedInv` and `ConnectedInv`: what the map of connections, start-up and
  logins hold is the stored token or has an `again`; a stored puppet is connected,
  or its token is dead, or somebody is about to connect it.
- `TeamsInv` and `RoomsHeldInv`: the limit counts the teams there are and those
  that handlers past the check are about to add. A handler passes the check below
  the limit and adds one, so together they stay below the limit plus the handlers;
  the proof counts, with the theorems about finite sets.
- `SerialInv`, `OneInv` and `ManyInv`: where requests do not overlap, a start finds
  the connection that is there; where they do, the connections of a team and the
  handlers that are starting one are together no more than there are handlers.

**BridgeProcess.** `SchemaInv` adds to `SchemaWhole` where `ensureSchema` is:
the query to run next is one of the version after the recorded one, those
before it have run, and all of them when the version is to be recorded.
`UpgradeInv` adds that a query of the version to come has run before its turn
only where a process died in that version (`TornOK`), that dates are shifted as
often as the query has run, and that who lost puppets is told or noted for a
notice not yet sent (`ToldOK`). `ImportInv` says of every row what the
migrations that have passed it (`Passed`) left: its event or ghost is there, its
token has its team, its room is in the table and under that team. It needs that
the rooms have different ids, since a later row of the same id would take the
first one's team.
`QueueInv` says of the queue that the map holds a sender's last command, that a command
waits for the last one before it, and that a command that is answered before its
turn is over was told of an earlier one's failure, which came down over commands
that all wait (`AnsweredOK`, `HeardOf`). The database and the queue share no
variable, so each step of the process is a step of one or leaves it alone.

**TeamMembers.** `TypeInv` says with `TaskOK` what a task refers to at each pc,
and what an event on its way is about: a user of the team, a channel there has
been. The properties are about rest and leave out what is `crossed`, so the
invariants say of a user or a channel that no two handlers were about at once
what is still to come. There is one lemma per step that says what it changes
(`XDoes`), and lemmas about what an append to a queue and taking its head keep.

- `AdminInv` counts a user's admin rooms: each is stored or has a handler that is
  about to store it. `SerialInv`, for events one at a time: one handler is at
  work, and then nothing waits. Together they give `OneAdminRoom`.
- `ChannelInv` names the places a channel is in: it is to be bridged and was not
  before; it is bridged, and if it is deleted that is still to be told; it is
  being unlinked; or it has ended, and nothing on its way will bridge it again. Of
  the bot's own moves, a leave that is still to be handled explains a room that
  is active without the bot, and no invitation comes before one. This is inductive
  because a channel is deleted once (`closed`): with a channel that could be made
  again under its id, an old deletion would unlink it, and its late `botLeave`
  silence it. Slack does not use ids again. `ActiveWhenIn`, `DeletedUnlinked`, and
  of `RoomsClean` that an unlinked room is empty, follow.
- `RowsMade`: who is in a room, or on his way there, has a row, without which
  `syncUser` passes over the deleted. `LastTells`: the last event about a user says
  what he is. `UsersAlone`: two handlers about one user have crossed. `GoneInv`
  adds: once a user is deleted, either that is still to be told, or all that is
  under way about him is his deletion; and the rooms he is in are those that it
  will take him out of. A handler that makes a room as a creator's ghost
  (`Bridging`) is about the creator too; it and a leave that fails put the user
  in `crossed`. The rest of `RoomsClean` follows.
- `ComingInv`: whom the bridge has taken up as a member is in the room, or an event
  or a handler that brings him in is on its way, until a sync takes him out or
  the call for him fails: neither is made up for, and `MembersIn` shows the first. That fails as soon as a deletion
  or a leave undoes it, so `ReturnInv` says that what will take out a present
  member is followed by what brings him back: a deletion by his restoring and a
  new joining (`BackAfter`, `RestoredOK`), a leave by a joining. `QueueBack` says
  that of the queue alone, `ReturnInv` of queue, handlers and start-up's list.
  `MembersPresent` follows.
- `ObjectsOwned`: a ghost object is of one user, in the cache and in the tasks, so
  a step with one user's object leaves what the others' handlers have read alone.
  `AgreeInv`: the row and the profile have one name (or the profile is "Deleted
  User", or neither was ever given one), but while the user's handler is between
  the two writes; and the object of a handler that compares names has the name of
  the row. A handler that made its object from an older row would pass over a
  rename, which is why it says what a task holds at each pc (`HoldsOK`).
  `CurrentInv`: the name in the row is the one on Slack, or an event, start-up's
  list or a handler will say so, and what is listed or in a handler's hand is
  itself current or followed by an event (`Recent`). `ReturnInv` is needed here
  too: a listed deletion of a user who is back is followed by his restoring.
  `NamesFollow` follows from the two. It excuses who is `crossed` (a restart
  between the two writes is one case, a name that was refused another) or
  `reverted` (a name out of `userInfoCache`), as the code makes up for none.

Only model-checked: `NotOverRedacted`, and everything about liveness (`RowsLive`, `LockMoves`, `ComesUp`,
`EveryoneAnswered`), as the prover does not do liveness under fairness or ENABLED.
Induction over recursive definitions is out of its reach too; no module here
declares a RECURSIVE operator.

## Plan

1. Done: `SlackRoomStore`, `RoomLinks`; `MessageRelay`; `Accounts` and its
   abstract `AccountBook`; `Database`, `AdminCommands` and `BridgeProcess`;
   `GhostStore` and `TeamMembers`; and the proofs above.
2. Every invariant that a passing run checks is proved but for `NotOverRedacted`;
   liveness is left to TLC.
3. Extensions, if runs allow: reactions and a restart in `MessageRelay`,
   `waitForJoin` in the private queue.

## Not modelled

- Formatting (`substitutions`), the widget and other front ends, metrics and
  profile caches: no state that another part depends on. The Provisioner's
  read-only requests and the wording of notices are left out for the same reason.
- The bridge running on `NedbDatastore`: an old store behind the same
  interface. Its `insertAccount` reads, changes and writes a user, and its
  `getAccountsForTeam` returns nothing, so that a logout there takes the team
  along; `Accounts` is about Postgres.
- `waitForJoin`: a promise that only a user settles; the relay has rooms nobody
  waits for. Reactions, which post and redact as messages do, with a table of
  their own. A message that comes before `rtm.start()` has answered.
- Invitations of ghosts that are not DMs: `onMatrixInvite` looks the ghost up
  without a team, and always fails. Avatars go the way of names. Bots' names.
- Several teams in one sync, aliases and paging. Patterns of allow and deny
  lists are sets of channels.
