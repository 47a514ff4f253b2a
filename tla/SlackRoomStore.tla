--------------------------- MODULE SlackRoomStore ---------------------------
(***************************************************************************)
(* The in-memory table of bridged rooms (src/SlackRoomStore.ts): the set   *)
(* of BridgedRoom objects the bridge works with, and three maps that find  *)
(* one of them by its Matrix room, its inbound id or its Slack channel.    *)
(*                                                                         *)
(* A store is a record; an operation maps a store to the next one. The     *)
(* keys of a room live in the BridgedRoom object and not in the store, so  *)
(* an operation is also given the room's current fields: what the maps     *)
(* hold was true when the room was last upserted and may not be now.       *)
(* The LRU of admin rooms is not modelled: it is only ever read.           *)
(***************************************************************************)

CONSTANTS
    BridgedRooms,     \* identities of BridgedRoom objects
    MatrixRoomIds,    \* Matrix rooms
    ChannelIds,       \* Slack channels
    DmChannelIds,     \* Slack direct-message channels
    GeneratedIds,     \* inbound ids made by Main.genInboundId
    None              \* undefined

ASSUME NoneAssumption ==
    None \notin BridgedRooms \cup MatrixRoomIds \cup ChannelIds
                  \cup DmChannelIds \cup GeneratedIds

\* An id of 32 random characters is not one that Slack gave to a DM.
ASSUME IdsAssumption == GeneratedIds \cap DmChannelIds = {}

SlackChannelIds == ChannelIds \cup DmChannelIds

\* The inbound id of a DM is its channel id; any other room's is generated.
InboundIds == GeneratedIds \cup DmChannelIds

\* The fields of a BridgedRoom that the store and the datastore look at.
Fields == [matrix  : MatrixRoomIds,
           inbound : InboundIds,
           channel : SlackChannelIds \cup {None},
           dirty   : BOOLEAN]

Stores == [rooms       : SUBSET BridgedRooms,
           byMatrixId  : [MatrixRoomIds -> BridgedRooms \cup {None}],
           byInboundId : [InboundIds -> BridgedRooms \cup {None}],
           byChannelId : [SlackChannelIds -> BridgedRooms \cup {None}]]

EmptyStore == [rooms       |-> {},
               byMatrixId  |-> [m \in MatrixRoomIds |-> None],
               byInboundId |-> [i \in InboundIds |-> None],
               byChannelId |-> [c \in SlackChannelIds |-> None]]

\* Every key of the map that finds the room is dropped, then key is set.
\* A room without a channel has no key (None is in no map's domain).
Reindexed(map, room, key) ==
    [k \in DOMAIN map |-> IF k = key THEN room
                          ELSE IF map[k] = room THEN None ELSE map[k]]

\* The key is dropped, whichever room it finds.
Without(map, key) == [k \in DOMAIN map |-> IF k = key THEN None ELSE map[k]]

\* Mutants: a removal that forgets the inbound ids, and one that forgets the
\* channels.
RemovedButInbound(store, room, f) ==
    [store EXCEPT !.rooms       = @ \ {room},
                  !.byMatrixId  = Without(@, f.matrix),
                  !.byChannelId = Without(@, f.channel)]

RemovedButChannel(store, room, f) ==
    [store EXCEPT !.rooms       = @ \ {room},
                  !.byMatrixId  = Without(@, f.matrix),
                  !.byInboundId = Without(@, f.inbound)]

\* upsertRoom: add the room and index it by its fields f of this moment.
Upserted(store, room, f) ==
    [rooms       |-> store.rooms \cup {room},
     byMatrixId  |-> Reindexed(store.byMatrixId, room, f.matrix),
     byInboundId |-> Reindexed(store.byInboundId, room, f.inbound),
     byChannelId |-> Reindexed(store.byChannelId, room, f.channel)]

\* removeRoom: the keys dropped are the room's fields of this moment. One
\* that changed since the last upsert stays behind, and one that another
\* room has taken over is dropped under that room.
Removed(store, room, f) ==
    [rooms       |-> store.rooms \ {room},
     byMatrixId  |-> Without(store.byMatrixId, f.matrix),
     byInboundId |-> Without(store.byInboundId, f.inbound),
     byChannelId |-> Without(store.byChannelId, f.channel)]

=============================================================================
