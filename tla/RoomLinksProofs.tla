-------------------------- MODULE RoomLinksProofs --------------------------
(***************************************************************************)
(* Proofs about RoomLinks, for any number of rooms and channels. Whatever  *)
(* the environment does and for any handlers: the type invariant, and that *)
(* the maps of the room store never find a room that was removed or that   *)
(* has another key. For any handlers and where no save is lost: a bridged  *)
(* room has a row or gets one. For one handler and where clean-up          *)
(* succeeds, without direct invites in rooms that are known: rooms and     *)
(* channels are one to one, and at rest a restart changes nothing.         *)
(*                                                                         *)
(* The first inductive invariant is Consistent of the current state. Every *)
(* action ends in Commit(f, s, q), so it is enough that f, s and q are     *)
(* Consistent (CommitConsistent), and the lemmas before it say that of the *)
(* things the actions do: change a request, upsert a room, remove one,     *)
(* change a room's fields. SavedInv and SerialInv are shown in that way    *)
(* too, on top of it.                                                      *)
(***************************************************************************)
EXTENDS RoomLinks, TLAPS

\* What a request carries at each pc.
RequestOK(q) ==
    /\ q.pc \in {"linking", "upgrading", "detaching", "dmDraining",
                 "dmDeleting", "opening", "saving"} => q.matrix \in MatrixRoomIds
    /\ q.pc \in {"detaching", "dmDraining", "dmDeleting", "opening",
                 "discovered"} => q.channel \in DmChannelIds
    /\ q.pc = "discoveredPrivate" => q.channel \in SlackChannelIds
    /\ q.pc \in {"adding", "addingDm", "detaching", "upgrading"}
          => q.room \in BridgedRooms
    /\ q.pc = "saving" => q.inbound \in InboundIds
    /\ "relink" \notin Traffic /\ q.pc = "linking" => q.room = None

\* IndexSound and ChannelIndexSound of given fields and a given store.
SoundIn(f, s) ==
    /\ \A m \in MatrixRoomIds : s.byMatrixId[m] # None =>
          s.byMatrixId[m] \in s.rooms /\ f[s.byMatrixId[m]].matrix = m
    /\ \A i \in InboundIds : s.byInboundId[i] # None =>
          s.byInboundId[i] \in s.rooms /\ f[s.byInboundId[i]].inbound = i

ChannelSoundIn(f, s) ==
    \A c \in SlackChannelIds : s.byChannelId[c] # None =>
        s.byChannelId[c] \in s.rooms /\ f[s.byChannelId[c]].channel = c

Consistent(f, s, q) ==
    /\ f \in [BridgedRooms -> Fields \cup {Blank}]
    /\ s \in Stores
    /\ q \in [Handlers -> Requests]
    /\ \A h \in Handlers : RequestOK(q[h])
    /\ \A r \in Referenced(s, q) : f[r] \in Fields
    /\ SoundIn(f, s)
    /\ "relink" \notin Traffic => ChannelSoundIn(f, s)

IInv ==
    /\ TypeOK
    /\ Consistent(fields, store, requests)

-----------------------------------------------------------------------------
\* Blank is not the fields of a room, and NoRow is not a row.
LEMMA NotBlank == Blank \notin Fields /\ NoRow \notin Rows
  BY NoneAssumption DEF Blank, Fields, NoRow, Rows, InboundIds, SlackChannelIds

\* Garbage collection loses nothing that the invariant looks at.
LEMMA CommitConsistent ==
  ASSUME NEW f, NEW s, NEW q, Consistent(f, s, q), Commit(f, s, q)
  PROVE  Consistent(fields, store, requests)'
<1>1. store' = s /\ requests' = q
  BY DEF Commit
<1>2. fields' \in [BridgedRooms -> Fields \cup {Blank}]
  BY DEF Commit, Consistent
<1>3. \A r \in Referenced(s, q) : fields'[r] = f[r]
  BY DEF Commit, Referenced
<1>4. s.rooms \subseteq Referenced(s, q)
  BY DEF Consistent, Stores, Referenced
<1>5. SoundIn(f, s) => SoundIn(fields', s)
  BY <1>3, <1>4 DEF SoundIn
<1>6. ChannelSoundIn(f, s) => ChannelSoundIn(fields', s)
  BY <1>3, <1>4 DEF ChannelSoundIn
<1>7. Consistent(fields', s, q)
  BY <1>2, <1>3, <1>5, <1>6 DEF Consistent
<1>8. QED
  BY <1>1, <1>7

\* A handler changes its request and holds on to rooms that have fields.
LEMMA RequestStep ==
  ASSUME NEW f, NEW s, NEW q, Consistent(f, s, q),
         NEW h \in Handlers, NEW x \in Requests, RequestOK(x),
         x.room # None => f[x.room] \in Fields
  PROVE  Consistent(f, s, [q EXCEPT ![h] = x])
<1> DEFINE p == [q EXCEPT ![h] = x]
<1>1. p \in [Handlers -> Requests] /\ \A g \in Handlers : RequestOK(p[g])
  BY DEF Consistent
<1>2. ASSUME NEW r \in Referenced(s, p)
      PROVE  f[r] \in Fields
  <2>1. r # None
    BY NoneAssumption DEF Referenced
  <2>2. r \in Referenced(s, q) \/ x.room = r
    BY DEF Referenced, Consistent
  <2>3. QED
    BY <2>1, <2>2 DEF Consistent
<1>3. QED
  BY <1>1, <1>2 DEF Consistent

\* upsertRoom with the room's new fields: what is indexed under the room's
\* former keys is dropped, so a room may change its keys and be upserted.
LEMMA UpsertConsistent ==
  ASSUME NEW f, NEW s, NEW q, Consistent(f, s, q),
         NEW r \in BridgedRooms, NEW g \in Fields
  PROVE  /\ Consistent([f EXCEPT ![r] = g], Upserted(s, r, g), q)
         /\ [f EXCEPT ![r] = g][r] = g
<1> DEFINE t == Upserted(s, r, g)
           e == [f EXCEPT ![r] = g]
<1>1. e \in [BridgedRooms -> Fields \cup {Blank}] /\ e[r] = g
  BY DEF Consistent
<1>2. /\ DOMAIN s.byMatrixId = MatrixRoomIds
      /\ DOMAIN s.byInboundId = InboundIds
      /\ DOMAIN s.byChannelId = SlackChannelIds
  BY DEF Consistent, Stores
<1>3. t \in Stores
  <2>1. t.rooms \in SUBSET BridgedRooms
    BY DEF Consistent, Stores, Upserted
  <2>2. t.byMatrixId \in [MatrixRoomIds -> BridgedRooms \cup {None}]
    BY DEF Consistent, Stores, Upserted, Reindexed
  <2>3. t.byInboundId \in [InboundIds -> BridgedRooms \cup {None}]
    BY DEF Consistent, Stores, Upserted, Reindexed
  <2>4. t.byChannelId \in [SlackChannelIds -> BridgedRooms \cup {None}]
    BY DEF Consistent, Stores, Upserted, Reindexed
  <2>5. QED
    BY <2>1, <2>2, <2>3, <2>4 DEF Stores, Upserted
<1>4. ASSUME NEW x \in Referenced(t, q)
      PROVE  e[x] \in Fields
  <2>1. x \in Referenced(s, q) \/ x = r
    BY <1>2, NoneAssumption DEF Referenced, Upserted, Reindexed
  <2>2. QED
    BY <2>1, <1>1 DEF Consistent, Referenced
<1>5. SoundIn(e, t)
  <2>1. ASSUME NEW m \in MatrixRoomIds, t.byMatrixId[m] # None
        PROVE  t.byMatrixId[m] \in t.rooms /\ e[t.byMatrixId[m]].matrix = m
    BY <1>1, <1>2, <2>1 DEF Upserted, Reindexed, Consistent, SoundIn, Stores
  <2>2. ASSUME NEW i \in InboundIds, t.byInboundId[i] # None
        PROVE  t.byInboundId[i] \in t.rooms /\ e[t.byInboundId[i]].inbound = i
    BY <1>1, <1>2, <2>2 DEF Upserted, Reindexed, Consistent, SoundIn, Stores
  <2>3. QED
    BY <2>1, <2>2 DEF SoundIn
<1>6. ASSUME "relink" \notin Traffic
      PROVE  ChannelSoundIn(e, t)
  BY <1>1, <1>2, <1>6 DEF Upserted, Reindexed, Consistent, ChannelSoundIn, Stores
<1>7. QED
  BY <1>1, <1>3, <1>4, <1>5, <1>6 DEF Consistent

\* removeRoom: as the maps are sound, the room's own keys are the only ones
\* that can find it.
LEMMA RemoveConsistent ==
  ASSUME NEW f, NEW s, NEW q, Consistent(f, s, q), NEW r \in BridgedRooms
  PROVE  Consistent(f, Removed(s, r, f[r]), q)
<1> DEFINE t == Removed(s, r, f[r])
<1>1. /\ DOMAIN s.byMatrixId = MatrixRoomIds
      /\ DOMAIN s.byInboundId = InboundIds
      /\ DOMAIN s.byChannelId = SlackChannelIds
  BY DEF Consistent, Stores
<1>2. t \in Stores
  <2>1. t.rooms \in SUBSET BridgedRooms
    BY DEF Consistent, Stores, Removed
  <2>2. t.byMatrixId \in [MatrixRoomIds -> BridgedRooms \cup {None}]
    BY DEF Consistent, Stores, Removed, Without
  <2>3. t.byInboundId \in [InboundIds -> BridgedRooms \cup {None}]
    BY DEF Consistent, Stores, Removed, Without
  <2>4. t.byChannelId \in [SlackChannelIds -> BridgedRooms \cup {None}]
    BY DEF Consistent, Stores, Removed, Without
  <2>5. QED
    BY <2>1, <2>2, <2>3, <2>4 DEF Stores, Removed
<1>3. Referenced(t, q) \subseteq Referenced(s, q)
  BY <1>1, NoneAssumption DEF Referenced, Removed, Without
<1>4. SoundIn(f, t)
  BY <1>1 DEF Removed, Without, Consistent, SoundIn
<1>5. ASSUME "relink" \notin Traffic
      PROVE  ChannelSoundIn(f, t)
  BY <1>1, <1>5 DEF Removed, Without, Consistent, ChannelSoundIn
<1>6. QED
  BY <1>2, <1>3, <1>4, <1>5 DEF Consistent

\* A room's fields change but not the keys it is indexed by; the channel may
\* if relinking is on.
LEMMA FieldStep ==
  ASSUME NEW f, NEW s, NEW q, Consistent(f, s, q),
         NEW r \in BridgedRooms, f[r] \in Fields, NEW g \in Fields,
         g.matrix = f[r].matrix, g.inbound = f[r].inbound,
         "relink" \in Traffic \/ g.channel = f[r].channel
  PROVE  /\ Consistent([f EXCEPT ![r] = g], s, q)
         /\ [f EXCEPT ![r] = g][r] = g
<1> DEFINE e == [f EXCEPT ![r] = g]
<1>1. e \in [BridgedRooms -> Fields \cup {Blank}] /\ e[r] = g
  BY DEF Consistent
<1>2. \A x \in Referenced(s, q) : e[x] \in Fields
  BY DEF Consistent, Referenced
<1>3. \A x \in BridgedRooms : e[x].matrix = f[x].matrix /\ e[x].inbound = f[x].inbound
  BY DEF Consistent
<1>4. s.rooms \subseteq BridgedRooms
  BY DEF Consistent, Stores
<1>5. SoundIn(e, s)
  BY <1>3, <1>4 DEF Consistent, SoundIn
<1>6. ASSUME "relink" \notin Traffic
      PROVE  ChannelSoundIn(e, s)
  <2>1. \A x \in BridgedRooms : e[x].channel = f[x].channel
    BY <1>6 DEF Consistent
  <2>2. QED
    BY <2>1, <1>4, <1>6 DEF Consistent, ChannelSoundIn
<1>7. QED
  BY <1>1, <1>2, <1>5, <1>6 DEF Consistent

\* datastore.upsertRoom of a room that has fields.
LEMMA SaveConsistent ==
  ASSUME NEW f, NEW s, Consistent(f, s, requests), NEW h \in Handlers,
         NEW r \in BridgedRooms, f[r] \in Fields, Save(h, r, f, s)
  PROVE  Consistent(fields, store, requests)'
<1> DEFINE g == [f[r] EXCEPT !.dirty = FALSE]
           e == [f EXCEPT ![r] = g]
<1>1. /\ g \in Fields
      /\ g.matrix = f[r].matrix /\ g.inbound = f[r].inbound
      /\ g.channel = f[r].channel
  BY DEF Fields
<1> HIDE DEF g
<1>2. Consistent(e, s, requests) /\ e[r] = g
  BY <1>1, FieldStep
<1>3. requests[h] \in Requests
  BY DEF Consistent
<1>4. Saving(h, r, f[r]) \in Requests /\ RequestOK(Saving(h, r, f[r]))
      /\ Saving(h, r, f[r]).room = r
  BY <1>3 DEF Saving, Requests, RequestOK, Fields, Pcs
<1>5. Consistent(e, s, [requests EXCEPT ![h] = Saving(h, r, f[r])])
  <2>1. e[Saving(h, r, f[r]).room] \in Fields
    BY <1>1, <1>2, <1>4
  <2>2. QED
    BY <1>2, <1>4, <2>1, RequestStep
<1>6. e = [f EXCEPT ![r].dirty = FALSE]
  BY DEF g
<1>7. QED
  BY <1>5, <1>6, CommitConsistent DEF Save, After

\* A handler only changes its own request.
LEMMA OnlyRequest ==
  ASSUME Consistent(fields, store, requests), NEW h \in Handlers,
         NEW x \in Requests, RequestOK(x), x.room # None => fields[x.room] \in Fields,
         Commit(fields, store, After(h, x))
  PROVE  Consistent(fields, store, requests)'
  BY RequestStep, CommitConsistent DEF After

LEMMA IdleOK == Idle \in Requests /\ RequestOK(Idle) /\ Idle.room = None
  BY DEF Idle, Requests, RequestOK, Pcs

LEMMA DoneConsistent ==
  ASSUME Consistent(fields, store, requests), NEW h \in Handlers,
         Commit(fields, store, Done(h))
  PROVE  Consistent(fields, store, requests)'
  BY IdleOK, OnlyRequest DEF Done

\* What a handler or a map refers to has fields.
LEMMA Allocated ==
  ASSUME Consistent(fields, store, requests)
  PROVE  /\ \A h \in Handlers : /\ requests[h] \in Requests
                                /\ RequestOK(requests[h])
                                /\ requests[h].room # None
                                      => /\ requests[h].room \in BridgedRooms
                                         /\ fields[requests[h].room] \in Fields
         /\ \A m \in MatrixRoomIds : store.byMatrixId[m] # None =>
                /\ store.byMatrixId[m] \in BridgedRooms
                /\ fields[store.byMatrixId[m]] \in Fields
         /\ \A c \in SlackChannelIds : store.byChannelId[c] # None =>
                /\ store.byChannelId[c] \in BridgedRooms
                /\ fields[store.byChannelId[c]] \in Fields
         /\ \A r \in store.rooms : r \in BridgedRooms /\ fields[r] \in Fields
<1>1. \A h \in Handlers : requests[h] \in Requests /\ RequestOK(requests[h])
  BY DEF Consistent
<1>2. \A h \in Handlers : requests[h].room # None
          => requests[h].room \in BridgedRooms
  BY <1>1 DEF Requests
<1>3. \A h \in Handlers : requests[h].room # None
          => requests[h].room \in Referenced(store, requests)
  BY <1>2 DEF Referenced
<1>4. \A m \in MatrixRoomIds : store.byMatrixId[m] # None =>
          /\ store.byMatrixId[m] \in BridgedRooms
          /\ store.byMatrixId[m] \in Referenced(store, requests)
  BY DEF Consistent, Stores, Referenced
<1>5. \A c \in SlackChannelIds : store.byChannelId[c] # None =>
          /\ store.byChannelId[c] \in BridgedRooms
          /\ store.byChannelId[c] \in Referenced(store, requests)
  BY DEF Consistent, Stores, Referenced
<1>6. store.rooms \subseteq BridgedRooms /\ store.rooms \subseteq Referenced(store, requests)
  BY DEF Consistent, Stores, Referenced
<1>7. QED
  BY <1>1, <1>2, <1>3, <1>4, <1>5, <1>6 DEF Consistent

\* A room is created and upserted, and the handler that did it holds it.
LEMMA AddConsistent ==
  ASSUME Consistent(fields, store, requests), NEW h \in Handlers,
         NEW r \in BridgedRooms, NEW g \in Fields, NEW x \in Requests,
         RequestOK(x), x.room = r,
         Commit([fields EXCEPT ![r] = g], Upserted(store, r, g), After(h, x))
  PROVE  Consistent(fields, store, requests)'
<1> DEFINE e == [fields EXCEPT ![r] = g]
<1>1. Consistent(e, Upserted(store, r, g), requests) /\ e[r] = g
  BY UpsertConsistent
<1>2. Consistent(e, Upserted(store, r, g), [requests EXCEPT ![h] = x])
  BY <1>1, RequestStep
<1>3. QED
  BY <1>2, CommitConsistent DEF After

\* actionUnlink's first step.
LEMMA UnlinkingConsistent ==
  ASSUME Consistent(fields, store, requests), NEW h \in Handlers,
         NEW r \in BridgedRooms, fields[r] \in Fields, NEW x \in Requests,
         RequestOK([x EXCEPT !.inbound = fields[r].inbound, !.room = r]),
         Unlinking(h, r, x)
  PROVE  Consistent(fields, store, requests)'
<1> DEFINE g == [fields[r] EXCEPT !.dirty = FALSE]
           e == [fields EXCEPT ![r] = g]
           t == Removed(store, r, fields[r])
           y == [x EXCEPT !.inbound = fields[r].inbound, !.room = r]
<1>1. Consistent(fields, t, requests)
  BY RemoveConsistent
<1>2. /\ g \in Fields
      /\ g.matrix = fields[r].matrix /\ g.inbound = fields[r].inbound
      /\ g.channel = fields[r].channel
  BY DEF Fields
<1> HIDE DEF g
<1>3. Consistent(e, t, requests) /\ e[r] = g
  BY <1>1, <1>2, FieldStep
<1>4. y \in Requests /\ y.room = r
  BY DEF Requests, Fields
<1>5. Consistent(e, t, [requests EXCEPT ![h] = y])
  BY <1>2, <1>3, <1>4, RequestStep
<1>6. e = [fields EXCEPT ![r].dirty = FALSE]
  BY DEF g
<1>7. QED
  BY <1>5, <1>6, CommitConsistent DEF Unlinking, After

-----------------------------------------------------------------------------
LEMMA InitConsistent == Init => IInv
<1> SUFFICES ASSUME Init PROVE IInv
  OBVIOUS
<1>1. /\ fields \in [BridgedRooms -> Fields \cup {Blank}]
      /\ roomRows \in [InboundIds -> Rows \cup {NoRow}]
      /\ loading \in [InboundIds -> Rows \cup {NoRow}]
      /\ reading \in BOOLEAN /\ twice \subseteq InboundIds
  BY DEF Init
<1>2. store \in Stores
  BY DEF Init, EmptyStore, Stores
<1>3. requests \in [Handlers -> Requests] /\ \A h \in Handlers : RequestOK(requests[h])
  BY IdleOK DEF Init
<1>4. \A h \in Handlers : requests[h].room = None
  BY IdleOK DEF Init
<1>5. Referenced(store, requests) = {}
  BY <1>4, NoneAssumption DEF Referenced, Init, EmptyStore
<1>6. SoundIn(fields, store) /\ ChannelSoundIn(fields, store)
  BY DEF SoundIn, ChannelSoundIn, Init, EmptyStore
<1>7. QED
  BY <1>1, <1>2, <1>3, <1>5, <1>6 DEF IInv, TypeOK, Consistent

\* The table and what start-up has read of it keep their types.
LEMMA RowsTyped == IInv /\ [Next]_vars =>
    /\ roomRows' \in [InboundIds -> Rows \cup {NoRow}]
    /\ loading' \in [InboundIds -> Rows \cup {NoRow}]
    /\ reading' \in BOOLEAN /\ twice' \subseteq InboundIds
<1> SUFFICES ASSUME IInv, [Next]_vars
             PROVE  /\ roomRows' \in [InboundIds -> Rows \cup {NoRow}]
             /\ loading' \in [InboundIds -> Rows \cup {NoRow}]
             /\ reading' \in BOOLEAN /\ twice' \subseteq InboundIds
                    /\ reading' \in BOOLEAN /\ twice' \subseteq InboundIds
  OBVIOUS
<1>1. roomRows \in [InboundIds -> Rows \cup {NoRow}]
      /\ loading \in [InboundIds -> Rows \cup {NoRow}]
      /\ reading \in BOOLEAN /\ twice \subseteq InboundIds
  BY DEF IInv, TypeOK
<1>2. CASE UNCHANGED <<roomRows, loading, reading, twice>>
  BY <1>1, <1>2
<1>3. ASSUME NEW h \in Handlers, StoreRow(h)
      PROVE  /\ roomRows' \in [InboundIds -> Rows \cup {NoRow}]
             /\ loading' \in [InboundIds -> Rows \cup {NoRow}]
             /\ reading' \in BOOLEAN /\ twice' \subseteq InboundIds
  <2> DEFINE q == requests[h]
             row == [matrix  |-> IF roomRows[q.inbound] = NoRow THEN q.matrix
                                 ELSE roomRows[q.inbound].matrix,
                     channel |-> q.channel]
  <2>1. q.matrix \in MatrixRoomIds /\ q.inbound \in InboundIds
        /\ q.channel \in SlackChannelIds \cup {None}
    BY <1>3 DEF IInv, Consistent, RequestOK, StoreRow, At, Requests
  <2>2. row \in Rows
    BY <1>1, <2>1 DEF Rows
  <2>3. roomRows' = [roomRows EXCEPT ![q.inbound] = row]
    BY <1>1, <1>3, <2>1 DEF StoreRow
  <2> HIDE DEF row
  <2>4. QED
    BY <1>1, <1>3, <2>2, <2>3 DEF StoreRow
<1>4. ASSUME NEW h \in Handlers, DeleteRow(h) \/ DeleteDmRow(h)
      PROVE  /\ roomRows' \in [InboundIds -> Rows \cup {NoRow}]
             /\ loading' \in [InboundIds -> Rows \cup {NoRow}]
             /\ reading' \in BOOLEAN /\ twice' \subseteq InboundIds
  BY <1>1, <1>4 DEF DeleteRow, DeleteDmRow
<1>5. ASSUME NEW i \in InboundIds, LoadRoom(i) \/ LoadFails(i)
      PROVE  /\ roomRows' \in [InboundIds -> Rows \cup {NoRow}]
             /\ loading' \in [InboundIds -> Rows \cup {NoRow}]
             /\ reading' \in BOOLEAN /\ twice' \subseteq InboundIds
  BY <1>1, <1>5 DEF LoadRoom, LoadFails
<1>6. CASE Restart \/ ReadRooms
  BY <1>1, <1>6 DEF Restart, ReadRooms
<1>7. ASSUME NEW h \in Handlers, Arrives(h)
      PROVE  UNCHANGED <<roomRows, loading, reading, twice>>
  BY <1>7 DEF Arrives, Link, LinkWebhook, ChangeWebhook, Unlink, OpenDm,
              DiscoverDm, DiscoverPrivate, Discover, Upgrade, Rename
<1>8. ASSUME NEW h \in Handlers, Continues(h)
      PROVE  \/ UNCHANGED <<roomRows, loading, reading, twice>>
             \/ StoreRow(h) \/ DeleteRow(h) \/ DeleteDmRow(h)
  BY <1>8 DEF Continues, LinkNewRoom, LinkBridgedRoom, LinkSave, Drain,
              DetachDm, BridgeOpenedDm, SaveDm, BridgeDiscoveredDm,
              BridgePrivate, Migrate
<1>9. ASSUME NEW h \in Handlers, Fails(h)
      PROVE  UNCHANGED <<roomRows, loading, reading, twice>>
  BY <1>9 DEF Fails, CallFails, RtmFails, SaveFails, DrainFails
<1>10. ASSUME NEW r \in BridgedRooms, RecordActivity(r)
       PROVE  UNCHANGED <<roomRows, loading, reading, twice>>
  BY <1>10 DEF RecordActivity
<1>11. QED
  BY <1>2, <1>3, <1>4, <1>5, <1>6, <1>7, <1>8, <1>9, <1>10 DEF Next, vars

-----------------------------------------------------------------------------
\* Requests that arrive.
LEMMA ArrivesConsistent ==
  ASSUME Consistent(fields, store, requests), NEW h \in Handlers, Arrives(h)
  PROVE  Consistent(fields, store, requests)'
<1>1. CASE Link(h)
  <2>1. PICK m \in MatrixRoomIds, c \in SlackChannelIds \ DmChannelIds :
            /\ Accepts(h, IF store.byMatrixId[m] = None THEN "link" ELSE "relink")
            /\ Commit(fields, store,
                      After(h, [Idle EXCEPT !.pc = "linking", !.matrix = m,
                                            !.channel = c,
                                            !.room = store.byMatrixId[m]]))
    BY <1>1 DEF Link
  <2> DEFINE x == [Idle EXCEPT !.pc = "linking", !.matrix = m, !.channel = c,
                               !.room = store.byMatrixId[m]]
  <2>2. store.byMatrixId[m] \in BridgedRooms \cup {None}
    BY DEF Consistent, Stores
  <2>3. "relink" \notin Traffic => store.byMatrixId[m] = None
    BY <2>1 DEF Accepts
  <2>4. x \in Requests /\ RequestOK(x) /\ x.room = store.byMatrixId[m]
    BY <2>2, <2>3 DEF Idle, Requests, RequestOK, Pcs
  <2>5. x.room # None => fields[x.room] \in Fields
    BY <2>4, Allocated
  <2>6. QED
    BY <2>1, <2>4, <2>5, OnlyRequest
<1>2. CASE LinkWebhook(h)
  <2>1. PICK m \in MatrixRoomIds :
            Commit(fields, store,
                   After(h, [Idle EXCEPT !.pc = "linking", !.matrix = m]))
    BY <1>2 DEF LinkWebhook
  <2> DEFINE x == [Idle EXCEPT !.pc = "linking", !.matrix = m]
  <2>2. x \in Requests /\ RequestOK(x) /\ x.room = None
    BY DEF Idle, Requests, RequestOK, Pcs
  <2>3. QED
    BY <2>1, <2>2, OnlyRequest
<1>3. CASE ChangeWebhook(h)
  <2>1. PICK m \in MatrixRoomIds :
            /\ store.byMatrixId[m] # None
            /\ Save(h, store.byMatrixId[m], fields, store)
    BY <1>3 DEF ChangeWebhook
  <2>2. QED
    BY <2>1, Allocated, SaveConsistent
<1>4. CASE Unlink(h)
  <2>1. PICK m \in MatrixRoomIds :
            /\ store.byMatrixId[m] # None
            /\ Unlinking(h, store.byMatrixId[m],
                         [Idle EXCEPT !.pc = "draining", !.matrix = m])
    BY <1>4 DEF Unlink
  <2> DEFINE x == [Idle EXCEPT !.pc = "draining", !.matrix = m]
             r == store.byMatrixId[m]
  <2>2. r \in BridgedRooms /\ fields[r] \in Fields
    BY <2>1, Allocated
  <2>3. x \in Requests
        /\ RequestOK([x EXCEPT !.inbound = fields[r].inbound, !.room = r])
    BY DEF Idle, Requests, RequestOK, Pcs
  <2>4. QED
    BY <2>1, <2>2, <2>3, UnlinkingConsistent
<1>5. CASE OpenDm(h)
  <2>1. PICK m \in MatrixRoomIds, c \in DmChannelIds :
            \/ /\ store.byChannelId[c] # None
               /\ Commit(fields, store,
                         After(h, [Idle EXCEPT !.pc = "detaching", !.matrix = m,
                                               !.channel = c,
                                               !.room = store.byChannelId[c]]))
            \/ Commit(fields, store,
                      After(h, [Idle EXCEPT !.pc = "opening", !.matrix = m,
                                            !.channel = c]))
    BY <1>5 DEF OpenDm, NewMatrixRooms
  <2> DEFINE x == [Idle EXCEPT !.pc = "detaching", !.matrix = m, !.channel = c,
                               !.room = store.byChannelId[c]]
             y == [Idle EXCEPT !.pc = "opening", !.matrix = m, !.channel = c]
  <2>2. c \in SlackChannelIds
    BY DEF SlackChannelIds
  <2>3. ASSUME store.byChannelId[c] # None
        PROVE  x \in Requests /\ RequestOK(x) /\ x.room = store.byChannelId[c]
               /\ fields[x.room] \in Fields
    <3>1. store.byChannelId[c] \in BridgedRooms
          /\ fields[store.byChannelId[c]] \in Fields
      BY <2>2, <2>3, Allocated
    <3>2. QED
      BY <2>2, <3>1 DEF Idle, Requests, RequestOK, Pcs
  <2>4. y \in Requests /\ RequestOK(y) /\ y.room = None
    BY <2>2 DEF Idle, Requests, RequestOK, Pcs
  <2>5. QED
    BY <2>1, <2>3, <2>4, OnlyRequest
<1>6. CASE DiscoverDm(h)
  <2>1. PICK c \in DmChannelIds :
            Commit(fields, store,
                   After(h, [Idle EXCEPT !.pc = "discovered", !.channel = c,
                                         !.queue = c]))
    BY <1>6 DEF DiscoverDm, Discover
  <2> DEFINE x == [Idle EXCEPT !.pc = "discovered", !.channel = c, !.queue = c]
  <2>2. x \in Requests /\ RequestOK(x) /\ x.room = None
    BY DEF Idle, Requests, RequestOK, Pcs, SlackChannelIds
  <2>3. QED
    BY <2>1, <2>2, OnlyRequest
<1>7. CASE DiscoverPrivate(h)
  <2>1. PICK c \in SlackChannelIds :
            Commit(fields, store,
                   After(h, [Idle EXCEPT !.pc = "discoveredPrivate",
                                         !.channel = c, !.queue = c]))
    BY <1>7 DEF DiscoverPrivate, Discover
  <2> DEFINE x == [Idle EXCEPT !.pc = "discoveredPrivate", !.channel = c,
                               !.queue = c]
  <2>2. x \in Requests /\ RequestOK(x) /\ x.room = None
    BY DEF Idle, Requests, RequestOK, Pcs
  <2>3. QED
    BY <2>1, <2>2, OnlyRequest
<1>8. CASE Upgrade(h)
  <2>1. PICK old \in MatrixRoomIds, new \in MatrixRoomIds :
            /\ store.byMatrixId[old] # None
            /\ Commit(fields, store,
                      After(h, [Idle EXCEPT !.pc = "upgrading", !.matrix = new,
                                            !.room = store.byMatrixId[old]]))
    BY <1>8 DEF Upgrade, NewMatrixRooms
  <2> DEFINE x == [Idle EXCEPT !.pc = "upgrading", !.matrix = new,
                               !.room = store.byMatrixId[old]]
  <2>2. store.byMatrixId[old] \in BridgedRooms
        /\ fields[store.byMatrixId[old]] \in Fields
    BY <2>1, Allocated
  <2>3. x \in Requests /\ RequestOK(x) /\ x.room = store.byMatrixId[old]
    BY <2>2 DEF Idle, Requests, RequestOK, Pcs
  <2>4. QED
    BY <2>1, <2>2, <2>3, OnlyRequest
<1>9. CASE Rename(h)
  <2>1. PICK c \in SlackChannelIds :
            /\ store.byChannelId[c] # None
            /\ Save(h, store.byChannelId[c], fields, store)
    BY <1>9 DEF Rename
  <2>2. QED
    BY <2>1, Allocated, SaveConsistent
<1>10. QED
  BY <1>1, <1>2, <1>3, <1>4, <1>5, <1>6, <1>7, <1>8, <1>9 DEF Arrives

\* A new DM: its fields are those of a room, its inbound id the channel.
LEMMA AddDmConsistent ==
  ASSUME Consistent(fields, store, requests), NEW h \in Handlers,
         NEW m \in MatrixRoomIds, requests[h].channel \in DmChannelIds,
         AddDm(h, m)
  PROVE  Consistent(fields, store, requests)'
<1> DEFINE q == requests[h]
           g == BridgedRoom(m, q.channel, q.channel)
<1>1. PICK r \in Unused :
          Commit([fields EXCEPT ![r] = g], Upserted(store, r, g),
                 After(h, [q EXCEPT !.pc = "addingDm", !.matrix = m, !.room = r]))
  BY DEF AddDm
<1> DEFINE x == [q EXCEPT !.pc = "addingDm", !.matrix = m, !.room = r]
<1>2. r \in BridgedRooms
  BY DEF Unused
<1>3. g \in Fields
  BY DEF BridgedRoom, Fields, InboundIds, SlackChannelIds
<1>4. q \in Requests
  BY Allocated
<1>5. x \in Requests /\ RequestOK(x) /\ x.room = r
  BY <1>2, <1>4 DEF Requests, RequestOK, Pcs
<1> HIDE DEF g, x
<1>6. QED
  BY <1>1, <1>2, <1>3, <1>5, AddConsistent DEF g, x

\* Handlers that run on.
LEMMA ContinuesConsistent ==
  ASSUME Consistent(fields, store, requests), NEW h \in Handlers, Continues(h)
  PROVE  Consistent(fields, store, requests)'
<1> DEFINE q == requests[h]
<1>0. /\ q \in Requests /\ RequestOK(q)
      /\ q.room # None => q.room \in BridgedRooms /\ fields[q.room] \in Fields
  BY Allocated
<1>1. CASE LinkNewRoom(h)
  <2>1. PICK r \in Unused, i \in genInboundId :
            LET g == BridgedRoom(q.matrix, i, q.channel) IN
            Commit([fields EXCEPT ![r] = g], Upserted(store, r, g),
                   After(h, [q EXCEPT !.pc = "adding", !.room = r]))
    BY <1>1 DEF LinkNewRoom
  <2> DEFINE g == BridgedRoom(q.matrix, i, q.channel)
             x == [q EXCEPT !.pc = "adding", !.room = r]
  <2>2. r \in BridgedRooms /\ i \in InboundIds
    BY DEF Unused, genInboundId, InboundIds
  <2>3. g \in Fields
    BY <1>0, <1>1, <2>2 DEF LinkNewRoom, At, RequestOK, Requests, BridgedRoom, Fields
  <2>4. x \in Requests /\ RequestOK(x) /\ x.room = r
    BY <1>0, <2>2 DEF Requests, RequestOK, Pcs
  <2>5. Commit([fields EXCEPT ![r] = g], Upserted(store, r, g), After(h, x))
    BY <2>1
  <2> HIDE DEF g, x
  <2>6. QED
    BY <2>2, <2>3, <2>4, <2>5, AddConsistent
<1>2. CASE LinkBridgedRoom(h)
  <2> DEFINE r == q.room
             g == [fields[r] EXCEPT !.channel = q.channel,
                                    !.dirty = @ \/ q.channel # fields[r].channel]
             e == [fields EXCEPT ![r] = g]
  <2>1. r \in BridgedRooms /\ fields[r] \in Fields /\ "relink" \in Traffic
    BY <1>0, <1>2 DEF LinkBridgedRoom, At, RequestOK
  <2>2. /\ g \in Fields
        /\ g.matrix = fields[r].matrix /\ g.inbound = fields[r].inbound
    BY <1>0, <2>1 DEF Fields, Requests
  <2>3. e = [fields EXCEPT ![r].channel = q.channel,
                           ![r].dirty = @ \/ q.channel # fields[r].channel]
    BY <2>1 DEF Consistent
  <2>4. \/ Save(h, r, e, store)
        \/ Commit(e, store, Done(h))
    BY <1>2, <2>3 DEF LinkBridgedRoom
  <2> HIDE DEF g
  <2>5. Consistent(e, store, requests) /\ e[r] = g
    BY <2>1, <2>2, FieldStep
  <2>6. CASE Save(h, r, e, store)
    BY <2>1, <2>2, <2>5, <2>6, SaveConsistent
  <2>7. CASE Commit(e, store, Done(h))
    <3>1. Consistent(e, store, [requests EXCEPT ![h] = Idle])
      BY <2>5, IdleOK, RequestStep
    <3>2. QED
      BY <2>7, <3>1, CommitConsistent DEF Done, After
  <2>8. QED
    BY <2>4, <2>6, <2>7
<1>3. CASE LinkSave(h)
  <2>1. q.room \in BridgedRooms /\ fields[q.room] \in Fields
    BY <1>0, <1>3, NoneAssumption DEF LinkSave, At, RequestOK
  <2>2. \/ Save(h, q.room, fields, store)
        \/ Commit(fields, store, Done(h))
    BY <1>3 DEF LinkSave
  <2>3. QED
    BY <2>1, <2>2, SaveConsistent, DoneConsistent
<1>4. CASE StoreRow(h) \/ DeleteRow(h)
  BY <1>4, DoneConsistent DEF StoreRow, DeleteRow
<1>5. CASE Drain(h)
  <2> DEFINE x == [q EXCEPT !.pc = IF @ = "draining" THEN "deleting"
                                   ELSE "dmDeleting"]
  <2>1. q.pc \in {"draining", "dmDraining"} /\ Commit(fields, store, After(h, x))
    BY <1>5 DEF Drain
  <2>2. x \in Requests /\ RequestOK(x) /\ x.room = q.room
    BY <1>0, <2>1 DEF Requests, RequestOK, Pcs
  <2> HIDE DEF x
  <2>3. QED
    BY <1>0, <2>1, <2>2, OnlyRequest
<1>6. CASE DetachDm(h)
  <2> DEFINE r == store.byMatrixId[fields[q.room].matrix]
             x == [q EXCEPT !.pc = "dmDraining"]
  <2>1. \/ Commit(fields, store, Done(h))
        \/ r # None /\ Unlinking(h, r, x)
    BY <1>6 DEF DetachDm
  <2>2. fields[q.room].matrix \in MatrixRoomIds
    BY <1>0, <1>6, NoneAssumption DEF DetachDm, At, RequestOK, Fields
  <2>3. r # None => r \in BridgedRooms /\ fields[r] \in Fields
    BY <2>2, Allocated
  <2>4. x \in Requests
        /\ RequestOK([x EXCEPT !.inbound = fields[r].inbound, !.room = r])
    BY <1>0, <1>6 DEF DetachDm, At, Requests, RequestOK, Pcs
  <2> HIDE DEF r, x
  <2>5. CASE Commit(fields, store, Done(h))
    BY <2>5, DoneConsistent
  <2>6. CASE r # None /\ Unlinking(h, r, x)
    BY <2>3, <2>4, <2>6, UnlinkingConsistent
  <2>7. QED
    BY <2>1, <2>5, <2>6
<1>7. CASE DeleteDmRow(h)
  <2> DEFINE x == [q EXCEPT !.pc = "opening", !.inbound = None, !.room = None]
  <2>1. Commit(fields, store, After(h, x))
    BY <1>7 DEF DeleteDmRow
  <2>2. x \in Requests /\ RequestOK(x) /\ x.room = None
    BY <1>0, <1>7 DEF DeleteDmRow, At, Requests, RequestOK, Pcs
  <2> HIDE DEF x
  <2>3. QED
    BY <2>1, <2>2, OnlyRequest
<1>8. CASE BridgeOpenedDm(h)
  BY <1>0, <1>8, AddDmConsistent DEF BridgeOpenedDm, At, RequestOK
<1>9. CASE SaveDm(h)
  <2>1. q.room \in BridgedRooms /\ fields[q.room] \in Fields
    BY <1>0, <1>9, NoneAssumption DEF SaveDm, At, RequestOK
  <2>2. QED
    BY <1>9, <2>1, SaveConsistent DEF SaveDm
<1>10. CASE BridgeDiscoveredDm(h)
  BY <1>0, <1>10, AddDmConsistent
     DEF BridgeDiscoveredDm, NewMatrixRooms, At, RequestOK
<1>11. CASE BridgePrivate(h)
  <2>1. PICK m \in MatrixRoomIds, r \in Unused, i \in genInboundId :
            LET g == BridgedRoom(m, i, q.channel) IN
            Save(h, r, [fields EXCEPT ![r] = g], Upserted(store, r, g))
    BY <1>11 DEF BridgePrivate, NewMatrixRooms
  <2> DEFINE g == BridgedRoom(m, i, q.channel)
             e == [fields EXCEPT ![r] = g]
  <2>2. r \in BridgedRooms /\ i \in InboundIds
    BY DEF Unused, genInboundId, InboundIds
  <2>3. g \in Fields
    BY <1>0, <1>11, <2>2 DEF BridgePrivate, At, RequestOK, BridgedRoom, Fields
  <2>4. Save(h, r, e, Upserted(store, r, g))
    BY <2>1
  <2> HIDE DEF g
  <2>5. Consistent(e, Upserted(store, r, g), requests) /\ e[r] = g
    BY <2>2, <2>3, UpsertConsistent
  <2>6. QED
    BY <2>2, <2>3, <2>4, <2>5, SaveConsistent
<1>12. CASE Migrate(h)
  <2> DEFINE r == q.room
             g == [fields[r] EXCEPT !.matrix = q.matrix]
             e == [fields EXCEPT ![r] = g]
             t == Removed(store, r, fields[r])
  <2>1. r \in BridgedRooms /\ fields[r] \in Fields /\ q.matrix \in MatrixRoomIds
    BY <1>0, <1>12, NoneAssumption DEF Migrate, At, RequestOK
  <2>2. g \in Fields
    BY <2>1 DEF Fields
  <2>3. e = Migrated(h) /\ Migrated(h)[r] = g
    BY <2>1 DEF Migrated, Consistent
  <2>4. Save(h, r, e, Upserted(t, r, g))
    BY <1>12, <2>3 DEF Migrate
  <2>5. Consistent(fields, t, requests)
    BY <2>1, RemoveConsistent
  <2> HIDE DEF g, t
  <2>6. Consistent(e, Upserted(t, r, g), requests) /\ e[r] = g
    BY <2>1, <2>2, <2>5, UpsertConsistent
  <2>7. QED
    BY <2>1, <2>2, <2>4, <2>6, SaveConsistent
<1>13. QED
  BY <1>1, <1>2, <1>3, <1>4, <1>5, <1>6, <1>7, <1>8, <1>9, <1>10, <1>11, <1>12
     DEF Continues

\* Every step keeps the rooms, the maps and the requests consistent.
LEMMA StepConsistent ==
  ASSUME IInv, [Next]_vars
  PROVE  Consistent(fields, store, requests)'
<1>0. Consistent(fields, store, requests)
  BY DEF IInv
<1>1. ASSUME NEW h \in Handlers, Fails(h)
      PROVE  Consistent(fields, store, requests)'
  BY <1>0, <1>1, DoneConsistent DEF Fails, CallFails, RtmFails, SaveFails, DrainFails
<1>2. ASSUME NEW r \in BridgedRooms, RecordActivity(r)
      PROVE  Consistent(fields, store, requests)'
  <2> DEFINE g == [fields[r] EXCEPT !.dirty = FALSE]
  <2>1. fields[r] \in Fields
    BY <1>0, <1>2, Allocated DEF RecordActivity
  <2>2. /\ g \in Fields
        /\ g.matrix = fields[r].matrix /\ g.inbound = fields[r].inbound
        /\ g.channel = fields[r].channel
    BY <2>1 DEF Fields
  <2>3. fields' = [fields EXCEPT ![r] = g] /\ UNCHANGED <<store, requests>>
    BY <1>2 DEF RecordActivity
  <2> HIDE DEF g
  <2>4. Consistent([fields EXCEPT ![r] = g], store, requests)
    BY <1>0, <2>1, <2>2, FieldStep
  <2>5. QED
    BY <2>3, <2>4
<1>3. ASSUME NEW i \in InboundIds, LoadRoom(i)
      PROVE  Consistent(fields, store, requests)'
  <2>1. PICK r \in Unused :
            LET g == BridgedRoom(loading[i].matrix, i, loading[i].channel) IN
            /\ loading[i] # NoRow
            /\ Commit([fields EXCEPT ![r] = g], Upserted(store, r, g), requests)
    BY <1>3 DEF LoadRoom
  <2> DEFINE g == BridgedRoom(loading[i].matrix, i, loading[i].channel)
  <2>2. r \in BridgedRooms /\ loading[i] \in Rows
    BY <2>1 DEF Unused, IInv, TypeOK
  <2>3. g \in Fields
    BY <2>2 DEF Rows, BridgedRoom, Fields
  <2>4. Commit([fields EXCEPT ![r] = g], Upserted(store, r, g), requests)
    BY <2>1
  <2> HIDE DEF g
  <2>5. QED
    BY <1>0, <2>2, <2>3, <2>4, UpsertConsistent, CommitConsistent
<1>4. CASE Restart
  <2> DEFINE q == [h \in Handlers |-> Idle]
  <2>1. EmptyStore \in Stores /\ q \in [Handlers -> Requests]
        /\ \A h \in Handlers : RequestOK(q[h]) /\ q[h].room = None
    BY IdleOK DEF EmptyStore, Stores
  <2>2. Referenced(EmptyStore, q) = {}
    BY <2>1, NoneAssumption DEF Referenced, EmptyStore
  <2>3. SoundIn(fields, EmptyStore) /\ ChannelSoundIn(fields, EmptyStore)
    BY DEF SoundIn, ChannelSoundIn, EmptyStore
  <2>4. Consistent(fields, EmptyStore, q)
    BY <1>0, <2>1, <2>2, <2>3 DEF Consistent
  <2>5. Commit(fields, EmptyStore, q)
    BY <1>4 DEF Restart
  <2> HIDE DEF q
  <2>6. QED
    BY <2>4, <2>5, CommitConsistent
<1>5. ASSUME NEW h \in Handlers, Arrives(h) \/ Continues(h)
      PROVE  Consistent(fields, store, requests)'
  BY <1>0, <1>5, ArrivesConsistent, ContinuesConsistent
<1>6. CASE UNCHANGED vars \/ ReadRooms \/ \E i \in InboundIds : LoadFails(i)
  <2>1. fields' = fields /\ store' = store /\ requests' = requests
    BY <1>6 DEF vars, ReadRooms, LoadFails
  <2>2. QED
    BY <1>0, <2>1
<1>7. CASE Next
  BY <1>1, <1>2, <1>3, <1>4, <1>5, <1>6, <1>7 DEF Next
<1>8. QED
  BY <1>6, <1>7

LEMMA NextInductive == IInv /\ [Next]_vars => IInv'
<1> SUFFICES ASSUME IInv, [Next]_vars
             PROVE  IInv'
  OBVIOUS
<1>1. Consistent(fields, store, requests)'
  BY StepConsistent
<1>2. TypeOK'
  BY <1>1, RowsTyped DEF TypeOK, Consistent
<1>3. QED
  BY <1>1, <1>2 DEF IInv

LEMMA Inductive == Spec => []IInv
  BY InitConsistent, NextInductive, PTL DEF Spec

-----------------------------------------------------------------------------
\* Every field, index, row and request keeps its type through every
\* interleaving of handlers, failures and restarts: in particular no removed
\* or collected room is written, and no half-made entry reaches the table.
THEOREM TypeCorrect == Spec => []TypeOK
<1>1. IInv => TypeOK
  BY DEF IInv
<1>2. QED
  BY <1>1, Inductive, PTL

\* A Matrix event, and a webhook post, is given to a room that is bridged and
\* has the id it was sent to, whatever is linked, unlinked, upgraded or
\* restarted meanwhile (getByMatrixRoomId, getByInboundId of SlackRoomStore).
THEOREM IndexesSound == Spec => []IndexSound
<1>1. IInv => IndexSound
  BY DEF IInv, Consistent, SoundIn, IndexSound, MatrixIndexSound, InboundIndexSound
<1>2. QED
  BY <1>1, Inductive, PTL

\* As long as no bridged room is linked to another channel, a Slack event is
\* given to a room that is bridged to its channel (getBySlackChannelId).
THEOREM ChannelIndexesSound == Spec => []ChannelIndexSoundUnlessRelinked
<1>1. IInv => ChannelIndexSoundUnlessRelinked
  BY DEF IInv, Consistent, ChannelSoundIn, ChannelIndexSoundUnlessRelinked,
         ChannelIndexSound
<1>2. QED
  BY <1>1, Inductive, PTL


\* The same of the channel map itself.
THEOREM ChannelsSound ==
  ASSUME "relink" \notin Traffic
  PROVE  Spec => []ChannelIndexSound
<1>1. ChannelIndexSoundUnlessRelinked => ChannelIndexSound
  BY DEF ChannelIndexSoundUnlessRelinked
<1>2. QED
  BY <1>1, ChannelIndexesSound, PTL

-----------------------------------------------------------------------------
(* SavedOrSaving, for any handlers. An inbound id that is being loaded or   *)
(* deleted is no room's, unless start-up reads the row of a room that is in *)
(* memory already; and a query about a room carries its id.                 *)

\* Nothing happens that leaves a room without a row: no query and no RTM client
\* fails, no metric cleans a room that is still to be saved, and no id is used
\* again, as those of DMs and of upgraded rooms are.
NothingUnsaved ==
    Traffic \cap {"invite", "reinvite", "dm", "upgrade", "metrics", "rtmFails", "saveFails"} = {}

Serves(f, x, r) ==
    x.room = r /\ (x.pc = "saving" \/ (x.pc = "adding" /\ f[r].dirty))

\* Nothing in memory has the id and start-up will not load it.
Released(f, s, load, i) ==
    i \notin twice => load[i] = NoRow /\ \A r \in s.rooms : f[r].inbound # i

KeptIn(f, q, rows, r) ==
    \/ f[r].inbound \in twice
    \/ rows[f[r].inbound] # NoRow
    \/ \E h \in Handlers : Serves(f, q[h], r)

SavedIn(f, s, q, rows, load, except) ==
    /\ \A h \in Handlers : q[h].pc \in {"idle", "linking", "adding", "saving", "draining",
                                        "deleting", "discoveredPrivate"}
    /\ \A r \in s.rooms, x \in s.rooms :
          f[r].inbound = f[x].inbound /\ f[r].inbound \notin twice => r = x
    /\ \A h \in Handlers : q[h].pc \in {"draining", "deleting"} =>
          /\ q[h].inbound \in InboundIds
          /\ Released(f, s, load, q[h].inbound)
    /\ \A i \in InboundIds : load[i] # NoRow /\ i \notin twice =>
          /\ rows[i] # NoRow
          /\ \A r \in s.rooms : f[r].inbound # i
    /\ \A h \in Handlers : q[h].pc \in {"saving", "draining", "deleting"} =>
          q[h].room \in BridgedRooms /\ q[h].inbound = f[q[h].room].inbound
    /\ \A r \in s.rooms \ except : KeptIn(f, q, rows, r)

SavedInv == SavedIn(fields, store, requests, roomRows, loading, {})

\* Garbage collection again loses nothing.
LEMMA CommitSaved ==
  ASSUME NEW f, NEW s, NEW q, NEW rows, NEW load,
         Consistent(f, s, q), SavedIn(f, s, q, rows, load, {}), Commit(f, s, q),
         roomRows' = rows, loading' = load, twice' = twice
  PROVE  SavedInv'
<1>1. store' = s /\ requests' = q
  BY DEF Commit
<1>2. s.rooms \subseteq BridgedRooms
  BY DEF Consistent, Stores
<1>3. \A r \in s.rooms : fields'[r] = f[r]
  BY <1>2 DEF Commit, Referenced
<1>4. \A h \in Handlers : q[h].room \in BridgedRooms => fields'[q[h].room] = f[q[h].room]
  BY DEF Commit, Referenced
<1>5. \A h \in Handlers, r \in s.rooms : Serves(f, q[h], r) => Serves(fields', q[h], r)
  BY <1>3 DEF Serves
<1>6. SavedIn(fields', s, q, rows, load, {})
  <2>1. \A r \in s.rooms : KeptIn(fields', q, rows, r)
    BY <1>3, <1>5 DEF SavedIn, KeptIn
  <2>2. \A i \in InboundIds : Released(f, s, load, i) => Released(fields', s, load, i)
    BY <1>3 DEF Released
  <2>3. QED
    BY <1>3, <1>4, <2>1, <2>2 DEF SavedIn
<1>7. QED
  BY <1>1, <1>6 DEF SavedInv, SavedIn, KeptIn, Released

\* A handler's request changes. No room may need the old one, and what the new
\* one deletes or saves is as it should be.
LEMMA RequestSaved ==
  ASSUME NEW f, NEW s, NEW q, NEW rows, NEW load, NEW except,
         Consistent(f, s, q), SavedIn(f, s, q, rows, load, except),
         NEW h \in Handlers, NEW x,
         x.pc \in {"idle", "linking", "adding", "saving", "draining", "deleting",
                   "discoveredPrivate"},
         x.pc \in {"draining", "deleting"} =>
            x.inbound \in InboundIds /\ Released(f, s, load, x.inbound),
         x.pc \in {"saving", "draining", "deleting"} =>
            x.room \in BridgedRooms /\ x.inbound = f[x.room].inbound,
         \A r \in s.rooms \ except : Serves(f, q[h], r) =>
            Serves(f, x, r) \/ rows[f[r].inbound] # NoRow
  PROVE  SavedIn(f, s, [q EXCEPT ![h] = x], rows, load, except)
<1> DEFINE p == [q EXCEPT ![h] = x]
<1>1. p[h] = x /\ \A g \in Handlers : g # h => p[g] = q[g]
  BY DEF Consistent
<1>2. \A r \in s.rooms \ except : KeptIn(f, p, rows, r)
  <2> SUFFICES ASSUME NEW r \in s.rooms \ except, rows[f[r].inbound] = NoRow,
                      f[r].inbound \notin twice
               PROVE  \E g \in Handlers : Serves(f, p[g], r)
    BY DEF KeptIn
  <2>1. PICK g \in Handlers : Serves(f, q[g], r)
    BY DEF SavedIn, KeptIn
  <2>2. CASE g = h
    BY <1>1, <2>1, <2>2
  <2>3. CASE g # h
    BY <1>1, <2>1, <2>3
  <2>4. QED
    BY <2>2, <2>3
<1> HIDE DEF p
<1>3. SavedIn(f, s, p, rows, load, except)
  BY <1>1, <1>2 DEF SavedIn
<1>4. QED
  BY <1>3 DEF p

\* The handlers whose requests change nothing in the store.
LEMMA OnlyRequestSaved ==
  ASSUME IInv, SavedInv, NEW h \in Handlers, NEW x \in Requests, RequestOK(x),
         x.room # None => fields[x.room] \in Fields,
         x.pc \in {"idle", "linking", "discoveredPrivate"}
           \/ (/\ x.pc = "deleting" /\ requests[h].pc = "draining"
               /\ x.inbound = requests[h].inbound /\ x.room = requests[h].room),
         requests[h].pc \notin {"saving", "adding"}
           \/ (requests[h].pc = "adding" /\ ~fields[requests[h].room].dirty),
         Commit(fields, store, After(h, x)), UNCHANGED <<roomRows, loading, reading, twice>>
  PROVE  SavedInv'
<1> DEFINE q == [requests EXCEPT ![h] = x]
<1>1. Consistent(fields, store, requests)
  BY DEF IInv
<1>2. Consistent(fields, store, q)
  BY <1>1, RequestStep
<1>3. \A r \in store.rooms : ~Serves(fields, requests[h], r)
  BY DEF Serves
<1>4. SavedIn(fields, store, requests, roomRows, loading, {})
  BY DEF SavedInv
<1>5. x.pc = "deleting" =>
          /\ x.inbound \in InboundIds /\ Released(fields, store, loading, x.inbound)
          /\ x.room \in BridgedRooms /\ x.inbound = fields[x.room].inbound
  BY <1>4 DEF SavedIn
<1>6. SavedIn(fields, store, q, roomRows, loading, {})
  BY <1>1, <1>3, <1>4, <1>5, RequestSaved
<1>7. QED
  BY <1>2, <1>6, CommitSaved DEF After

LEMMA DoneSaved ==
  ASSUME IInv, SavedInv, NEW h \in Handlers,
         requests[h].pc \notin {"saving", "adding"}
           \/ (requests[h].pc = "adding" /\ ~fields[requests[h].room].dirty),
         Commit(fields, store, Done(h)), UNCHANGED <<roomRows, loading, reading, twice>>
  PROVE  SavedInv'
<1>1. Idle.pc = "idle"
  BY DEF Idle
<1>2. QED
  BY <1>1, IdleOK, OnlyRequestSaved DEF Done

\* A room is saved by a handler that so far serves no other.
LEMMA SaveSaved ==
  ASSUME NEW f, NEW s, Consistent(f, s, requests), NEW h \in Handlers,
         NEW r \in BridgedRooms, f[r] \in Fields,
         SavedIn(f, s, requests, roomRows, loading, {r}),
         requests[h].pc # "saving", requests[h].pc = "adding" => requests[h].room = r,
         Save(h, r, f, s), UNCHANGED <<roomRows, loading, reading, twice>>
  PROVE  SavedInv'
<1> DEFINE g == [f[r] EXCEPT !.dirty = FALSE]
           e == [f EXCEPT ![r] = g]
           x == Saving(h, r, f[r])
<1>1. /\ g \in Fields /\ g.matrix = f[r].matrix /\ g.inbound = f[r].inbound
      /\ g.channel = f[r].channel
  BY DEF Fields
<1>2. requests[h] \in Requests
  BY DEF Consistent
<1>3. x \in Requests /\ RequestOK(x) /\ x.room = r /\ x.pc = "saving" /\ x.inbound = f[r].inbound
  BY <1>2 DEF Saving, Requests, RequestOK, Fields, Pcs
<1>4. e = [f EXCEPT ![r].dirty = FALSE]
  OBVIOUS
<1> HIDE DEF g, x
<1>5. Consistent(e, s, requests) /\ e[r] = g
  BY <1>1, FieldStep
<1>6. Consistent(e, s, [requests EXCEPT ![h] = x])
  BY <1>1, <1>3, <1>5, RequestStep
<1>7. /\ \A k \in BridgedRooms : e[k].inbound = f[k].inbound
      /\ \A k \in BridgedRooms : k # r => e[k] = f[k]
      /\ s.rooms \subseteq BridgedRooms
  BY <1>1 DEF Consistent, Stores
<1> HIDE DEF e
<1>8. SavedIn(e, s, requests, roomRows, loading, {r})
  <2>1. \A k \in s.rooms \ {r}, w \in Handlers :
            Serves(f, requests[w], k) => Serves(e, requests[w], k)
    BY <1>7 DEF Serves
  <2>2. \A k \in s.rooms : e[k].inbound = f[k].inbound
    BY <1>7
  <2>3. \A w \in Handlers : requests[w].pc \in {"saving", "draining", "deleting"} =>
            requests[w].room \in BridgedRooms /\ requests[w].inbound = e[requests[w].room].inbound
    BY <1>7 DEF SavedIn
  <2>4. \A k \in s.rooms \ {r} : KeptIn(e, requests, roomRows, k)
    BY <2>1, <2>2 DEF SavedIn, KeptIn
  <2>5. \A i \in InboundIds : Released(f, s, loading, i) => Released(e, s, loading, i)
    BY <2>2 DEF Released
  <2>6. QED
    BY <2>2, <2>3, <2>4, <2>5 DEF SavedIn
<1>9. \A k \in s.rooms \ {r} : ~Serves(e, requests[h], k)
  BY DEF Serves
<1>10. SavedIn(e, s, [requests EXCEPT ![h] = x], roomRows, loading, {r})
  BY <1>1, <1>3, <1>5, <1>8, <1>9, RequestSaved
<1>11. Serves(e, [requests EXCEPT ![h] = x][h], r)
  BY <1>3, <1>5 DEF Serves, Consistent
<1>12. SavedIn(e, s, [requests EXCEPT ![h] = x], roomRows, loading, {})
  BY <1>10, <1>11 DEF SavedIn, KeptIn
<1>13. QED
  BY <1>4, <1>6, <1>12, CommitSaved DEF Save, After, x

\* A room of the store is saved, for a handler that was idle.
LEMMA SaveBridged ==
  ASSUME IInv, SavedInv, NEW h \in Handlers, requests[h].pc = "idle",
         NEW r \in BridgedRooms, fields[r] \in Fields,
         Save(h, r, fields, store), UNCHANGED <<roomRows, loading, reading, twice>>
  PROVE  SavedInv'
<1>1. SavedIn(fields, store, requests, roomRows, loading, {r})
  BY DEF SavedInv, SavedIn
<1>2. QED
  BY <1>1, SaveSaved DEF IInv

\* upsertRoom of a new room: its id is no other's. It is still to be saved.
LEMMA UpsertSaved ==
  ASSUME IInv, SavedInv, NEW r \in Unused, NEW g \in Fields, NEW load,
         \/ load = loading /\ g.inbound \in genInboundId
         \/ loading[g.inbound] # NoRow /\ load = [loading EXCEPT ![g.inbound] = NoRow]
  PROVE  /\ Consistent([fields EXCEPT ![r] = g], Upserted(store, r, g), requests)
         /\ SavedIn([fields EXCEPT ![r] = g], Upserted(store, r, g), requests, roomRows, load, {r})
         /\ [fields EXCEPT ![r] = g][r] = g
<1> DEFINE e == [fields EXCEPT ![r] = g]
           t == Upserted(store, r, g)
           i == g.inbound
<1>1. Consistent(e, t, requests) /\ e[r] = g
  BY UpsertConsistent DEF IInv, Unused
<1>2. /\ r \in BridgedRooms /\ r \notin store.rooms
      /\ \A h \in Handlers : requests[h].room # r
      /\ store.rooms \subseteq BridgedRooms
  BY DEF Unused, Referenced, IInv, Consistent, Stores
<1>3. t.rooms = store.rooms \cup {r}
  BY DEF Upserted
<1>4. i \in InboundIds /\ loading \in [InboundIds -> Rows \cup {NoRow}]
  BY DEF Fields, IInv, TypeOK
<1>5. \A k \in InboundIds : load[k] # NoRow => loading[k] # NoRow /\ k # i
  <2>1. CASE load = loading /\ i \in genInboundId
    BY <2>1 DEF genInboundId
  <2>2. CASE load = [loading EXCEPT ![i] = NoRow]
    BY <1>4, <2>2
  <2>3. QED
    BY <2>1, <2>2
<1>6. i \notin twice => \A k \in store.rooms : fields[k].inbound # i
  BY <1>2, <1>4 DEF genInboundId, SavedInv, SavedIn
<1>7. \A h \in Handlers : requests[h].pc \in {"draining", "deleting"} =>
          requests[h].inbound # i \/ i \in twice
  BY DEF genInboundId, SavedInv, SavedIn, Released
<1>8. \A k \in BridgedRooms : k # r => e[k] = fields[k]
  BY DEF IInv, TypeOK
<1> HIDE DEF e, i, t
<1>9. e[r].inbound = i
  BY <1>1 DEF i
<1>10. \A k \in store.rooms, h \in Handlers : Serves(fields, requests[h], k) => Serves(e, requests[h], k)
  BY <1>2, <1>8 DEF Serves
<1>11. \A k \in store.rooms : e[k] = fields[k]
  BY <1>2, <1>8
<1>12. SavedIn(e, t, requests, roomRows, load, {r})
  <2>1. \A a \in t.rooms, b \in t.rooms :
            e[a].inbound = e[b].inbound /\ e[a].inbound \notin twice => a = b
    BY <1>3, <1>6, <1>9, <1>11 DEF SavedInv, SavedIn
  <2>2. \A h \in Handlers : requests[h].pc \in {"draining", "deleting"} =>
          requests[h].inbound \in InboundIds /\ Released(e, t, load, requests[h].inbound)
    BY <1>3, <1>5, <1>7, <1>9, <1>11 DEF SavedInv, SavedIn, Released
  <2>3. \A k \in InboundIds : load[k] # NoRow /\ k \notin twice =>
          /\ roomRows[k] # NoRow
          /\ \A a \in t.rooms : e[a].inbound # k
    BY <1>3, <1>5, <1>9, <1>11 DEF SavedInv, SavedIn
  <2>4. \A h \in Handlers : requests[h].pc \in {"saving", "draining", "deleting"} =>
          requests[h].room \in BridgedRooms /\ requests[h].inbound = e[requests[h].room].inbound
    BY <1>2, <1>8 DEF SavedInv, SavedIn
  <2>5. \A a \in t.rooms \ {r} : KeptIn(e, requests, roomRows, a)
    BY <1>3, <1>10, <1>11 DEF SavedInv, SavedIn, KeptIn
  <2>6. \A h \in Handlers : requests[h].pc \in {"idle", "linking", "adding", "saving", "draining",
                                        "deleting", "discoveredPrivate"}
    BY DEF SavedInv, SavedIn
  <2>7. QED
    BY <2>1, <2>2, <2>3, <2>4, <2>5, <2>6 DEF SavedIn
<1>13. QED
  BY <1>1, <1>12 DEF e, t

LEMMA UnlinkSaved ==
  ASSUME IInv, SavedInv, NEW h \in Handlers, requests[h].pc = "idle", NEW m \in MatrixRoomIds,
         store.byMatrixId[m] # None,
         Unlinking(h, store.byMatrixId[m], [Idle EXCEPT !.pc = "draining", !.matrix = m]),
         UNCHANGED <<roomRows, loading, reading, twice>>
  PROVE  SavedInv'
<1> DEFINE r == store.byMatrixId[m]
           g == [fields[r] EXCEPT !.dirty = FALSE]
           e == [fields EXCEPT ![r] = g]
           t == Removed(store, r, fields[r])
           x == [Idle EXCEPT !.pc = "draining", !.matrix = m]
           y == [x EXCEPT !.inbound = fields[r].inbound, !.room = r]
<1>1. r \in BridgedRooms /\ fields[r] \in Fields /\ r \in store.rooms
  BY Allocated DEF IInv, Consistent, SoundIn
<1>2. /\ g \in Fields
      /\ g.matrix = fields[r].matrix /\ g.inbound = fields[r].inbound
      /\ g.channel = fields[r].channel
  BY <1>1 DEF Fields
<1>3. y \in Requests /\ RequestOK(y) /\ y.room = r /\ y.pc = "draining" /\ y.inbound = fields[r].inbound
  BY <1>1 DEF Idle, Requests, RequestOK, Pcs, Fields
<1>4. e = [fields EXCEPT ![r].dirty = FALSE]
  OBVIOUS
<1>5. Commit(e, t, After(h, y))
  BY <1>4 DEF Unlinking
<1> HIDE DEF g, r, y
<1>6. Consistent(e, t, requests) /\ e[r] = g
  BY <1>1, <1>2, RemoveConsistent, FieldStep DEF IInv
<1>7. Consistent(e, t, [requests EXCEPT ![h] = y])
  BY <1>2, <1>3, <1>6, RequestStep
<1>8. /\ \A k \in BridgedRooms : e[k].inbound = fields[k].inbound
      /\ \A k \in BridgedRooms : k # r => e[k] = fields[k]
      /\ store.rooms \subseteq BridgedRooms
      /\ t.rooms = store.rooms \ {r}
  BY <1>2 DEF IInv, Consistent, Stores, Removed
<1> HIDE DEF e, t
<1>9. SavedIn(e, t, requests, roomRows, loading, {})
  <2>1. \A k \in t.rooms, w \in Handlers :
            Serves(fields, requests[w], k) => Serves(e, requests[w], k)
    BY <1>8 DEF Serves
  <2>2. \A k \in t.rooms : e[k].inbound = fields[k].inbound /\ k \in store.rooms
    BY <1>8
  <2>3. \A w \in Handlers : requests[w].pc \in {"saving", "draining", "deleting"} =>
            requests[w].room \in BridgedRooms /\ requests[w].inbound = e[requests[w].room].inbound
    BY <1>8 DEF SavedInv, SavedIn
  <2>4. \A k \in t.rooms : KeptIn(e, requests, roomRows, k)
    BY <2>1, <2>2 DEF SavedInv, SavedIn, KeptIn
  <2>5. \A i \in InboundIds : Released(fields, store, loading, i) => Released(e, t, loading, i)
    BY <2>2 DEF Released
  <2>6. QED
    BY <2>2, <2>3, <2>4, <2>5 DEF SavedInv, SavedIn
<1>10. y.inbound \in InboundIds /\ Released(e, t, loading, y.inbound)
  BY <1>1, <1>3, <1>8 DEF SavedInv, SavedIn, Fields, Released
<1>11. \A k \in t.rooms : ~Serves(e, requests[h], k)
  BY DEF Serves
<1>12. SavedIn(e, t, [requests EXCEPT ![h] = y], roomRows, loading, {})
  BY <1>1, <1>3, <1>6, <1>8, <1>9, <1>10, <1>11, RequestSaved
<1>13. QED
  BY <1>5, <1>7, <1>12, CommitSaved DEF After

LEMMA SavedStarts == Init => SavedInv
<1> SUFFICES ASSUME Init PROVE SavedInv
  OBVIOUS
<1>1. store.rooms = {} /\ \A h \in Handlers : requests[h].pc = "idle"
  BY DEF Init, EmptyStore, Idle
<1>2. \A i \in InboundIds : loading[i] = NoRow
  BY DEF Init
<1>3. QED
  BY <1>1, <1>2 DEF SavedInv, SavedIn

LEMMA ArrivesSaved ==
  ASSUME NothingUnsaved, IInv, SavedInv, NEW h \in Handlers, Arrives(h)
  PROVE  SavedInv'
<1>1. UNCHANGED <<roomRows, loading, reading, twice>>
  BY DEF Arrives, Link, LinkWebhook, ChangeWebhook, Unlink, OpenDm,
         DiscoverDm, DiscoverPrivate, Discover, Upgrade, Rename
<1>2. CASE Link(h)
  <2>1. PICK m \in MatrixRoomIds, c \in SlackChannelIds \ DmChannelIds :
            /\ Accepts(h, IF store.byMatrixId[m] = None THEN "link" ELSE "relink")
            /\ Commit(fields, store,
                      After(h, [Idle EXCEPT !.pc = "linking", !.matrix = m,
                                            !.channel = c,
                                            !.room = store.byMatrixId[m]]))
    BY <1>2 DEF Link
  <2> DEFINE x == [Idle EXCEPT !.pc = "linking", !.matrix = m, !.channel = c,
                               !.room = store.byMatrixId[m]]
  <2>2. store.byMatrixId[m] \in BridgedRooms \cup {None}
    BY DEF IInv, Consistent, Stores
  <2>3. requests[h].pc = "idle" /\ ("relink" \notin Traffic => store.byMatrixId[m] = None)
    BY <2>1 DEF Accepts, At
  <2>4. x \in Requests /\ RequestOK(x) /\ x.room = store.byMatrixId[m] /\ x.pc = "linking"
    BY <2>2, <2>3 DEF Idle, Requests, RequestOK, Pcs
  <2>5. x.room # None => fields[x.room] \in Fields
    BY <2>4, Allocated DEF IInv
  <2> HIDE DEF x
  <2>6. Commit(fields, store, After(h, x))
    BY <2>1 DEF x
  <2>7. QED
    BY <1>1, <2>3, <2>4, <2>5, <2>6, OnlyRequestSaved
<1>3. CASE LinkWebhook(h)
  <2>1. PICK m \in MatrixRoomIds :
            /\ requests[h].pc = "idle"
            /\ Commit(fields, store, After(h, [Idle EXCEPT !.pc = "linking", !.matrix = m]))
    BY <1>3 DEF LinkWebhook, Accepts, At
  <2> DEFINE x == [Idle EXCEPT !.pc = "linking", !.matrix = m]
  <2>2. x \in Requests /\ RequestOK(x) /\ x.room = None /\ x.pc = "linking"
    BY DEF Idle, Requests, RequestOK, Pcs
  <2>3. QED
    BY <1>1, <2>1, <2>2, OnlyRequestSaved
<1>4. CASE ChangeWebhook(h)
  <2>1. PICK m \in MatrixRoomIds :
            /\ store.byMatrixId[m] # None /\ requests[h].pc = "idle"
            /\ Save(h, store.byMatrixId[m], fields, store)
    BY <1>4 DEF ChangeWebhook, Accepts, At
  <2>2. QED
    BY <1>1, <2>1, Allocated, SaveBridged DEF IInv
<1>5. CASE Unlink(h)
  <2>1. PICK m \in MatrixRoomIds :
            /\ store.byMatrixId[m] # None /\ requests[h].pc = "idle"
            /\ Unlinking(h, store.byMatrixId[m],
                         [Idle EXCEPT !.pc = "draining", !.matrix = m])
    BY <1>5 DEF Unlink, Accepts, At
  <2>2. QED
    BY <1>1, <2>1, UnlinkSaved
<1>6. CASE OpenDm(h) \/ DiscoverDm(h) \/ Upgrade(h)
  BY <1>6 DEF NothingUnsaved, OpenDm, DiscoverDm, Discover, Upgrade, Accepts
<1>7. CASE DiscoverPrivate(h)
  <2>1. PICK c \in SlackChannelIds :
            /\ requests[h].pc = "idle"
            /\ Commit(fields, store,
                   After(h, [Idle EXCEPT !.pc = "discoveredPrivate",
                                         !.channel = c, !.queue = c]))
    BY <1>7 DEF DiscoverPrivate, Discover, Accepts, At
  <2> DEFINE x == [Idle EXCEPT !.pc = "discoveredPrivate", !.channel = c,
                               !.queue = c]
  <2>2. x \in Requests /\ RequestOK(x) /\ x.room = None /\ x.pc = "discoveredPrivate"
    BY DEF Idle, Requests, RequestOK, Pcs
  <2>3. QED
    BY <1>1, <2>1, <2>2, OnlyRequestSaved
<1>8. CASE Rename(h)
  <2>1. PICK c \in SlackChannelIds :
            /\ store.byChannelId[c] # None /\ requests[h].pc = "idle"
            /\ Save(h, store.byChannelId[c], fields, store)
    BY <1>8 DEF Rename, Accepts, At
  <2>2. QED
    BY <1>1, <2>1, Allocated, SaveBridged DEF IInv
<1>9. QED
  BY <1>2, <1>3, <1>4, <1>5, <1>6, <1>7, <1>8 DEF Arrives

LEMMA FailsSaved ==
  ASSUME NothingUnsaved, IInv, SavedInv, NEW h \in Handlers, Fails(h)
  PROVE  SavedInv'
<1>1. CASE CallFails(h)
  BY <1>1, DoneSaved DEF CallFails
<1>2. CASE RtmFails(h) \/ SaveFails(h)
  BY <1>2 DEF NothingUnsaved, RtmFails, SaveFails
<1>3. CASE DrainFails(h)
  BY <1>3, DoneSaved DEF DrainFails
<1>4. QED
  BY <1>1, <1>2, <1>3 DEF Fails

LEMMA ContinuesSaved ==
  ASSUME NothingUnsaved, IInv, SavedInv, NEW h \in Handlers, Continues(h)
  PROVE  SavedInv'
<1> DEFINE q == requests[h]
<1>0. /\ q \in Requests /\ RequestOK(q)
      /\ q.room # None => q.room \in BridgedRooms /\ fields[q.room] \in Fields
      /\ q.pc \in {"idle", "linking", "adding", "saving", "draining", "deleting",
                   "discoveredPrivate"}
  BY Allocated DEF IInv, SavedInv, SavedIn
<1>1. CASE LinkNewRoom(h)
  <2>1. PICK r \in Unused, i \in genInboundId :
            LET g == BridgedRoom(q.matrix, i, q.channel) IN
            Commit([fields EXCEPT ![r] = g], Upserted(store, r, g),
                   After(h, [q EXCEPT !.pc = "adding", !.room = r]))
    BY <1>1 DEF LinkNewRoom
  <2> DEFINE g == BridgedRoom(q.matrix, i, q.channel)
             x == [q EXCEPT !.pc = "adding", !.room = r]
             e == [fields EXCEPT ![r] = g]
             t == Upserted(store, r, g)
  <2>2. r \in BridgedRooms /\ i \in InboundIds
    BY DEF Unused, genInboundId, InboundIds
  <2>3. g \in Fields /\ g.inbound = i /\ g.dirty = TRUE
    BY <1>0, <1>1, <2>2 DEF LinkNewRoom, At, RequestOK, Requests, BridgedRoom, Fields
  <2>4. x \in Requests /\ RequestOK(x) /\ x.room = r /\ x.pc = "adding"
    BY <1>0, <2>2 DEF Requests, RequestOK, Pcs
  <2>5. Commit(e, t, After(h, x)) /\ UNCHANGED <<roomRows, loading, reading, twice>> /\ q.pc = "linking"
    BY <1>1, <2>1 DEF LinkNewRoom, At
  <2> HIDE DEF g, x
  <2>6. /\ Consistent(e, t, requests) /\ e[r] = g
        /\ SavedIn(e, t, requests, roomRows, loading, {r})
    BY <2>3, UpsertSaved
  <2> HIDE DEF e, t
  <2>7. Consistent(e, t, [requests EXCEPT ![h] = x])
    BY <2>3, <2>4, <2>6, RequestStep
  <2>8. \A k \in t.rooms : ~Serves(e, requests[h], k)
    BY <2>5 DEF Serves
  <2>9. SavedIn(e, t, [requests EXCEPT ![h] = x], roomRows, loading, {r})
    BY <2>4, <2>6, <2>8, RequestSaved
  <2>10. Serves(e, [requests EXCEPT ![h] = x][h], r)
    BY <2>3, <2>4, <2>6 DEF Serves, Consistent
  <2>11. SavedIn(e, t, [requests EXCEPT ![h] = x], roomRows, loading, {})
    BY <2>9, <2>10 DEF SavedIn, KeptIn
  <2>12. QED
    BY <2>5, <2>7, <2>11, CommitSaved DEF After
<1>2. CASE LinkBridgedRoom(h)
  <2> DEFINE r == q.room
             g == [fields[r] EXCEPT !.channel = q.channel,
                                    !.dirty = @ \/ q.channel # fields[r].channel]
             e == [fields EXCEPT ![r] = g]
  <2>1. r \in BridgedRooms /\ fields[r] \in Fields /\ "relink" \in Traffic /\ q.pc = "linking"
    BY <1>0, <1>2 DEF LinkBridgedRoom, At, RequestOK
  <2>2. /\ g \in Fields
        /\ g.matrix = fields[r].matrix /\ g.inbound = fields[r].inbound
        /\ g.dirty = (fields[r].dirty \/ q.channel # fields[r].channel)
    BY <1>0, <2>1 DEF Fields, Requests
  <2>3. e = [fields EXCEPT ![r].channel = q.channel,
                           ![r].dirty = @ \/ q.channel # fields[r].channel]
    BY <2>1 DEF IInv, Consistent
  <2>4. /\ UNCHANGED <<roomRows, loading, reading, twice>>
        /\ \/ Save(h, r, e, store)
           \/ Commit(e, store, Done(h))
    BY <1>2, <2>3 DEF LinkBridgedRoom
  <2> HIDE DEF g, r
  <2>5. Consistent(e, store, requests) /\ e[r] = g
    BY <2>1, <2>2, FieldStep DEF IInv
  <2>6. /\ \A k \in BridgedRooms : e[k].inbound = fields[k].inbound
        /\ \A k \in BridgedRooms : fields[k].dirty => e[k].dirty
        /\ store.rooms \subseteq BridgedRooms
    BY <2>2, <2>5 DEF IInv, Consistent, Stores
  <2> HIDE DEF e
  <2>7. SavedIn(e, store, requests, roomRows, loading, {})
    <3>1. \A k \in store.rooms, w \in Handlers :
              Serves(fields, requests[w], k) => Serves(e, requests[w], k)
      BY <2>6 DEF Serves
    <3>2. \A k \in store.rooms : e[k].inbound = fields[k].inbound
      BY <2>6
    <3>3. \A w \in Handlers : requests[w].pc \in {"saving", "draining", "deleting"} =>
              requests[w].room \in BridgedRooms /\ requests[w].inbound = e[requests[w].room].inbound
      BY <2>6 DEF SavedInv, SavedIn
    <3>4. \A k \in store.rooms : KeptIn(e, requests, roomRows, k)
      BY <3>1, <3>2 DEF SavedInv, SavedIn, KeptIn
    <3>5. \A i \in InboundIds : Released(fields, store, loading, i) => Released(e, store, loading, i)
      BY <3>2 DEF Released
    <3>6. QED
      BY <3>2, <3>3, <3>4, <3>5 DEF SavedInv, SavedIn
  <2>8. CASE Save(h, r, e, store)
    <3>1. SavedIn(e, store, requests, roomRows, loading, {r})
      BY <2>7 DEF SavedIn
    <3>2. QED
      BY <2>1, <2>2, <2>4, <2>5, <2>8, <3>1, SaveSaved
  <2>9. CASE Commit(e, store, Done(h))
    <3>1. Consistent(e, store, [requests EXCEPT ![h] = Idle])
      BY <2>5, IdleOK, RequestStep
    <3>2. Idle.pc = "idle" /\ \A k \in store.rooms : ~Serves(e, requests[h], k)
      BY <2>1 DEF Serves, Idle
    <3>3. SavedIn(e, store, [requests EXCEPT ![h] = Idle], roomRows, loading, {})
      BY <2>5, <2>7, <3>2, RequestSaved
    <3>4. QED
      BY <2>4, <2>9, <3>1, <3>3, CommitSaved DEF Done, After
  <2>10. QED
    BY <2>4, <2>8, <2>9
<1>3. CASE LinkSave(h)
  <2>1. q.room \in BridgedRooms /\ fields[q.room] \in Fields /\ q.pc = "adding"
    BY <1>0, <1>3, NoneAssumption DEF LinkSave, At, RequestOK
  <2>2. /\ UNCHANGED <<roomRows, loading, reading, twice>>
        /\ \/ Save(h, q.room, fields, store)
           \/ ~fields[q.room].dirty /\ Commit(fields, store, Done(h))
    BY <1>3 DEF LinkSave
  <2>3. SavedIn(fields, store, requests, roomRows, loading, {q.room})
    BY DEF SavedInv, SavedIn
  <2>4. CASE Save(h, q.room, fields, store)
    BY <2>1, <2>2, <2>3, <2>4, SaveSaved DEF IInv
  <2>5. QED
    BY <2>1, <2>2, <2>4, DoneSaved
<1>4. CASE StoreRow(h)
  <2>1. /\ q.pc = "saving" /\ q.inbound \in InboundIds /\ q.matrix \in MatrixRoomIds
        /\ q.room \in BridgedRooms /\ q.inbound = fields[q.room].inbound
    BY <1>0, <1>4 DEF StoreRow, At, RequestOK, SavedInv, SavedIn
  <2>2. /\ roomRows \in [InboundIds -> Rows \cup {NoRow}]
        /\ UNCHANGED <<loading, reading, twice>>
        /\ Commit(fields, store, Done(h))
    BY <1>4 DEF StoreRow, IInv, TypeOK
  <2>3. PICK row : row = [matrix  |-> IF roomRows[q.inbound] = NoRow THEN q.matrix
                                      ELSE roomRows[q.inbound].matrix,
                          channel |-> q.channel]
    OBVIOUS
  <2>4. row # NoRow
    BY <2>1, <2>2, <2>3, NoneAssumption DEF Rows, NoRow
  <2>5. roomRows' = [roomRows EXCEPT ![q.inbound] = row]
    BY <1>4, <2>1, <2>2, <2>3 DEF StoreRow
  <2>6. roomRows'[q.inbound] # NoRow /\ \A i \in InboundIds : roomRows[i] # NoRow => roomRows'[i] # NoRow
    BY <2>1, <2>2, <2>4, <2>5
  <2>7. \A k \in store.rooms : fields[k].inbound \in InboundIds
    BY Allocated DEF IInv, Fields
  <2>8. SavedIn(fields, store, requests, roomRows', loading, {})
    BY <2>6, <2>7 DEF SavedInv, SavedIn, KeptIn
  <2>9. \A k \in store.rooms : Serves(fields, requests[h], k) => roomRows'[fields[k].inbound] # NoRow
    BY <2>1, <2>6 DEF Serves
  <2>10. Idle.pc = "idle" /\ Consistent(fields, store, [requests EXCEPT ![h] = Idle])
    BY IdleOK, RequestStep DEF IInv, Idle
  <2>11. SavedIn(fields, store, [requests EXCEPT ![h] = Idle], roomRows', loading, {})
    BY <2>8, <2>9, <2>10, RequestSaved DEF IInv
  <2>12. QED
    BY <2>2, <2>10, <2>11, CommitSaved DEF Done, After
<1>5. CASE Drain(h)
  <2> DEFINE x == [q EXCEPT !.pc = IF @ = "draining" THEN "deleting"
                                   ELSE "dmDeleting"]
  <2>1. q.pc = "draining" /\ Commit(fields, store, After(h, x)) /\ UNCHANGED <<roomRows, loading, reading, twice>>
    BY <1>0, <1>5 DEF Drain
  <2>2. x \in Requests /\ RequestOK(x) /\ x.room = q.room /\ x.pc = "deleting" /\ x.inbound = q.inbound
    BY <1>0, <2>1 DEF Requests, RequestOK, Pcs
  <2> HIDE DEF x
  <2>3. QED
    BY <1>0, <2>1, <2>2, OnlyRequestSaved
<1>6. CASE DeleteRow(h)
  <2>1. /\ q.pc = "deleting" /\ roomRows' = [roomRows EXCEPT ![q.inbound] = NoRow]
        /\ Commit(fields, store, Done(h)) /\ UNCHANGED <<loading, reading, twice>>
        /\ roomRows \in [InboundIds -> Rows \cup {NoRow}]
    BY <1>6 DEF DeleteRow, At, IInv, TypeOK
  <2>2. q.inbound \in InboundIds /\ Released(fields, store, loading, q.inbound)
    BY <2>1 DEF SavedInv, SavedIn
  <2>3. \A i \in InboundIds : i # q.inbound => roomRows'[i] = roomRows[i]
    BY <2>1
  <2>4. \A k \in store.rooms : fields[k].inbound \in InboundIds
    BY Allocated DEF IInv, Fields
  <2>5. \A k \in store.rooms : \/ fields[k].inbound \in twice
                              \/ roomRows'[fields[k].inbound] = roomRows[fields[k].inbound]
    BY <2>2, <2>3, <2>4 DEF Released
  <2>6. SavedIn(fields, store, requests, roomRows', loading, {})
    <3>1. \A k \in store.rooms : KeptIn(fields, requests, roomRows', k)
      BY <2>5 DEF SavedInv, SavedIn, KeptIn
    <3>2. \A i \in InboundIds : loading[i] # NoRow /\ i \notin twice => roomRows'[i] # NoRow
      BY <2>2, <2>3 DEF SavedInv, SavedIn, Released
    <3>3. QED
      BY <3>1, <3>2 DEF SavedInv, SavedIn
  <2>7. \A k \in store.rooms : ~Serves(fields, requests[h], k)
    BY <2>1 DEF Serves
  <2>8. Idle.pc = "idle" /\ Consistent(fields, store, [requests EXCEPT ![h] = Idle])
    BY IdleOK, RequestStep DEF IInv, Idle
  <2>9. SavedIn(fields, store, [requests EXCEPT ![h] = Idle], roomRows', loading, {})
    BY <2>6, <2>7, <2>8, RequestSaved DEF IInv
  <2>10. QED
    BY <2>1, <2>8, <2>9, CommitSaved DEF Done, After
<1>7. CASE DetachDm(h) \/ DeleteDmRow(h) \/ BridgeOpenedDm(h) \/ SaveDm(h) \/ BridgeDiscoveredDm(h) \/ Migrate(h)
  BY <1>0, <1>7 DEF DetachDm, DeleteDmRow, BridgeOpenedDm, SaveDm, BridgeDiscoveredDm, Migrate, At
<1>8. CASE BridgePrivate(h)
  <2>1. PICK m \in MatrixRoomIds, r \in Unused, i \in genInboundId :
            LET g == BridgedRoom(m, i, q.channel) IN
            Save(h, r, [fields EXCEPT ![r] = g], Upserted(store, r, g))
    BY <1>8 DEF BridgePrivate, NewMatrixRooms
  <2> DEFINE g == BridgedRoom(m, i, q.channel)
             e == [fields EXCEPT ![r] = g]
  <2>2. r \in BridgedRooms /\ i \in InboundIds /\ q.pc = "discoveredPrivate"
        /\ UNCHANGED <<roomRows, loading, reading, twice>>
    BY <1>8 DEF Unused, genInboundId, InboundIds, BridgePrivate, At
  <2>3. g \in Fields /\ g.inbound = i
    BY <1>0, <1>8, <2>2 DEF BridgePrivate, At, RequestOK, BridgedRoom, Fields
  <2>4. Save(h, r, e, Upserted(store, r, g))
    BY <2>1
  <2> HIDE DEF g
  <2>5. /\ Consistent(e, Upserted(store, r, g), requests) /\ e[r] = g
        /\ SavedIn(e, Upserted(store, r, g), requests, roomRows, loading, {r})
    BY <2>3, UpsertSaved
  <2>6. QED
    BY <2>2, <2>3, <2>4, <2>5, SaveSaved
<1>9. QED
  BY <1>1, <1>2, <1>3, <1>4, <1>5, <1>6, <1>7, <1>8 DEF Continues

LEMMA SavedStep ==
  ASSUME NothingUnsaved, IInv, SavedInv, [Next]_vars
  PROVE  SavedInv'
<1>1. ASSUME NEW r \in BridgedRooms, RecordActivity(r) PROVE FALSE
  BY <1>1 DEF NothingUnsaved, RecordActivity
<1>2. ASSUME NEW i \in InboundIds, LoadRoom(i) PROVE SavedInv'
  <2>1. PICK r \in Unused :
            LET g == BridgedRoom(loading[i].matrix, i, loading[i].channel) IN
            /\ loading[i] # NoRow
            /\ Commit([fields EXCEPT ![r] = g], Upserted(store, r, g), requests)
            /\ loading' = [loading EXCEPT ![i] = NoRow]
            /\ UNCHANGED <<roomRows, reading, twice>>
    BY <1>2 DEF LoadRoom
  <2> DEFINE g == BridgedRoom(loading[i].matrix, i, loading[i].channel)
             e == [fields EXCEPT ![r] = g]
             t == Upserted(store, r, g)
  <2>2. r \in BridgedRooms /\ loading[i] \in Rows
    BY <2>1 DEF Unused, IInv, TypeOK
  <2>3. g \in Fields /\ g.inbound = i
    BY <2>2 DEF Rows, BridgedRoom, Fields
  <2>4. Commit(e, t, requests) /\ loading[i] # NoRow
        /\ loading' = [loading EXCEPT ![i] = NoRow] /\ UNCHANGED <<roomRows, reading, twice>>
    BY <2>1
  <2> HIDE DEF g
  <2>5. /\ Consistent(e, t, requests) /\ e[r] = g
        /\ SavedIn(e, t, requests, roomRows, loading', {r})
    BY <2>3, <2>4, UpsertSaved
  <2> HIDE DEF e, t
  <2>6. e[r].inbound \in twice \/ roomRows[e[r].inbound] # NoRow
    BY <2>3, <2>4, <2>5 DEF SavedInv, SavedIn
  <2>7. SavedIn(e, t, requests, roomRows, loading', {})
    BY <2>5, <2>6 DEF SavedIn, KeptIn
  <2>8. QED
    BY <2>4, <2>5, <2>7, CommitSaved
<1>3. ASSUME NEW i \in InboundIds, LoadFails(i) PROVE SavedInv'
  <2>1. /\ loading' = [loading EXCEPT ![i] = NoRow]
        /\ UNCHANGED <<fields, store, roomRows, requests, reading, twice>>
        /\ loading \in [InboundIds -> Rows \cup {NoRow}]
    BY <1>3 DEF LoadFails, IInv, TypeOK
  <2>2. \A k \in InboundIds : loading'[k] # NoRow => loading[k] # NoRow
    BY <2>1
  <2>3. SavedIn(fields, store, requests, roomRows, loading', {})
    BY <2>2 DEF SavedInv, SavedIn, Released
  <2>4. QED
    BY <2>1, <2>3 DEF SavedInv, SavedIn, Released, KeptIn
<1>4. CASE Restart
  <2> DEFINE q == [h \in Handlers |-> Idle]
  <2>1. EmptyStore.rooms = {} /\ \A h \in Handlers : q[h].pc = "idle"
    BY DEF EmptyStore, Idle
  <2>2. /\ store' = EmptyStore /\ requests' = q
        /\ \A i \in InboundIds : loading'[i] = NoRow
    BY <1>4 DEF Restart, Commit
  <2> HIDE DEF q
  <2>3. QED
    BY <2>1, <2>2 DEF SavedInv, SavedIn
<1>5. CASE ReadRooms
  <2>1. /\ loading' = roomRows /\ UNCHANGED <<fields, store, roomRows, requests>>
        /\ \A i \in InboundIds : roomRows[i] # NoRow /\ i \notin twice' =>
              \A r \in BridgedRooms : fields[r].inbound # i
        /\ twice \subseteq twice'
    BY <1>5 DEF ReadRooms
  <2>2. /\ store.rooms \subseteq BridgedRooms
        /\ \A r \in store.rooms : fields[r].inbound \in InboundIds
    BY Allocated DEF IInv, Consistent, Stores, Fields
  <2>3. \A i \in InboundIds : roomRows[i] # NoRow /\ i \notin twice' =>
            \A r \in store.rooms : fields[r].inbound # i
    BY <2>1, <2>2
  <2>4. ASSUME NEW h \in Handlers, requests[h].pc \in {"draining", "deleting"},
               requests[h].inbound \notin twice'
        PROVE  /\ roomRows[requests[h].inbound] = NoRow
               /\ \A r \in store.rooms : fields[r].inbound # requests[h].inbound
    <3>1. /\ requests[h].inbound \in InboundIds /\ requests[h].inbound \notin twice
          /\ requests[h].room \in BridgedRooms
          /\ requests[h].inbound = fields[requests[h].room].inbound
          /\ Released(fields, store, loading, requests[h].inbound)
      BY <2>1, <2>4 DEF SavedInv, SavedIn
    <3>2. QED
      BY <2>1, <2>4, <3>1 DEF Released
  <2>5. \A h \in Handlers : requests[h].pc \in {"draining", "deleting"} =>
            Released(fields, store, roomRows, requests[h].inbound)'
    BY <2>1, <2>4 DEF Released
  <2>6. \A r \in store.rooms : KeptIn(fields, requests, roomRows, r)'
    BY <2>1 DEF SavedInv, SavedIn, KeptIn, Serves
  <2>7. QED
    BY <2>1, <2>3, <2>5, <2>6 DEF SavedInv, SavedIn
<1>6. CASE UNCHANGED vars
  BY <1>6 DEF vars, SavedInv, SavedIn, Serves, KeptIn, Released
<1>7. QED
  BY <1>1, <1>2, <1>3, <1>4, <1>5, <1>6, ArrivesSaved, ContinuesSaved, FailsSaved DEF Next

\* While no call that would save a room fails, whatever is linked, unlinked,
\* renamed or loaded at the same time, also before start-up reads the table: a
\* bridged room is in the table or a query that puts it there is on its way, so
\* a restart loses no room whose request has ended (the dirty flag of
\* BridgedRoom, upsertRoom of PgDatastore), but for one that start-up loads a
\* second time because it was bridged before the table was read (Main.run).
THEOREM RoomsGetSaved ==
  ASSUME NothingUnsaved
  PROVE  Spec => []SavedOrSaving
<1>1. IInv /\ SavedInv => SavedOrSaving
  BY DEF SavedInv, SavedIn, KeptIn, SavedOrSaving, Serves, At
<1>2. IInv /\ SavedInv /\ [Next]_vars => SavedInv'
  BY SavedStep
<1>3. QED
  BY <1>1, <1>2, SavedStarts, Inductive, PTL DEF Spec

-----------------------------------------------------------------------------
(* OneToOne and RestartInvisible, for a single handler: what is said of its *)
(* request, of the table and of what start-up still has to load.            *)

OneAtATime == \E h : Handlers = {h}

\* No query and no call that a handler cannot do without fails, no request comes
\* before start-up is over, no room is given another channel or another Matrix
\* room, nobody sends a direct invite in a room that the bridge knows, Slack does
\* not open a DM twice, and no metric cleans a room that is still to be saved.
Undisturbed ==
    Traffic \subseteq {"link", "webhook", "unlink", "invite", "dm", "private", "rename", "restart"}

Row(f, r) == [matrix |-> f[r].matrix, channel |-> f[r].channel]

\* No room of the store has the Matrix room, or the channel.
Unbridged(s, m) == s.byMatrixId[m] = None
Free(s, c) == c = None \/ s.byChannelId[c] = None

\* The maps find every room, and the id of a DM is its channel.
MapsIn(f, s) ==
    \A r \in s.rooms :
        /\ s.byMatrixId[f[r].matrix] = r
        /\ s.byInboundId[f[r].inbound] = r
        /\ f[r].channel # None => s.byChannelId[f[r].channel] = r
        /\ f[r].inbound \in DmChannelIds => f[r].channel = f[r].inbound

\* A row is that of its room, or of no room at all.
RowIn(f, s, rows, i) ==
    LET r == s.byInboundId[i] IN
    IF r = None THEN Unbridged(s, rows[i].matrix) /\ Free(s, rows[i].channel)
                ELSE rows[i] = Row(f, r)

TableIn(f, s, rows) ==
    /\ \A i \in InboundIds, j \in InboundIds :
          i # j /\ rows[i] # NoRow /\ rows[j] # NoRow =>
             /\ rows[i].matrix # rows[j].matrix
             /\ rows[i].channel # None => rows[i].channel # rows[j].channel
    /\ \A i \in DmChannelIds : rows[i] # NoRow => rows[i].channel = i
    /\ \A i \in InboundIds : rows[i] # NoRow => RowIn(f, s, rows, i)

\* The handler waits until everything is loaded.
LoadIn(s, x, rows, load) ==
    /\ x.pc # "idle" => \A i \in InboundIds : load[i] = NoRow
    /\ \A i \in InboundIds : load[i] # NoRow =>
          s.byInboundId[i] = None /\ rows[i] = load[i]

\* What a request has found stays so until it runs on.
AskedIn(f, s, x, rows) ==
    /\ x.pc \in Pcs \ {"upgrading"}
    /\ x.pc \in {"linking", "detaching", "dmDraining", "dmDeleting", "opening"}
         => Unbridged(s, x.matrix)
    /\ x.pc \in {"linking", "dmDraining", "dmDeleting", "opening", "discovered",
                 "discoveredPrivate"} => Free(s, x.channel)
    /\ x.pc = "linking" => x.room = None
    /\ x.pc = "detaching" => x.room \in s.rooms /\ f[x.room].channel = x.channel
    /\ x.pc \in {"adding", "addingDm"} =>
          x.room \in s.rooms /\ rows[f[x.room].inbound] = NoRow
    /\ x.pc = "adding" => f[x.room].dirty
    /\ x.pc = "saving" =>
          /\ x.room \in s.rooms /\ x.inbound = f[x.room].inbound
          /\ x.matrix = f[x.room].matrix /\ x.channel = f[x.room].channel
    /\ x.pc \in {"draining", "deleting", "dmDraining", "dmDeleting"} =>
          x.inbound \in InboundIds /\ s.byInboundId[x.inbound] = None

\* The row of id i is going to be written or deleted.
Touches(f, x, i) ==
    \/ x.pc \in {"saving", "draining", "deleting", "dmDraining", "dmDeleting"} /\ x.inbound = i
    \/ x.pc \in {"adding", "addingDm"} /\ f[x.room].inbound = i

SettledIn(f, s, x, rows, load) ==
    \A i \in InboundIds :
        \/ load[i] # NoRow
        \/ Touches(f, x, i)
        \/ rows[i] = IF s.byInboundId[i] = None THEN NoRow ELSE Row(f, s.byInboundId[i])

SerialIn(f, s, x, rows, load) ==
    /\ MapsIn(f, s) /\ TableIn(f, s, rows) /\ LoadIn(s, x, rows, load)
    /\ AskedIn(f, s, x, rows) /\ SettledIn(f, s, x, rows, load)

SerialInv == \A h \in Handlers : SerialIn(fields, store, requests[h], roomRows, loading)

\* Until start-up has read the table no request is taken, and everything in it
\* is still to be loaded.
StartInv ==
    \A h \in Handlers :
        /\ At(h, "idle")
        /\ SerialIn(fields, store, requests[h], roomRows, roomRows)
        /\ \A i \in InboundIds : loading[i] = NoRow

Touching == {"saving", "draining", "deleting", "dmDraining", "dmDeleting", "adding", "addingDm"}

\* What the lemmas need of types.
LEMMA MapTypes ==
  ASSUME NEW f, NEW s, NEW q, Consistent(f, s, q)
  PROVE  /\ s.rooms \subseteq BridgedRooms
         /\ DOMAIN s.byMatrixId = MatrixRoomIds /\ DOMAIN s.byInboundId = InboundIds
         /\ DOMAIN s.byChannelId = SlackChannelIds
         /\ \A r \in s.rooms : /\ f[r] \in Fields /\ f[r].matrix \in MatrixRoomIds
                               /\ f[r].inbound \in InboundIds
                               /\ f[r].channel \in SlackChannelIds \cup {None}
         /\ \A i \in InboundIds : s.byInboundId[i] # None =>
               s.byInboundId[i] \in s.rooms /\ f[s.byInboundId[i]].inbound = i
         /\ \A m \in MatrixRoomIds : s.byMatrixId[m] # None =>
               s.byMatrixId[m] \in s.rooms /\ f[s.byMatrixId[m]].matrix = m
         /\ None \notin s.rooms /\ None \notin SlackChannelIds /\ None \notin BridgedRooms
<1>1. s.rooms \subseteq Referenced(s, q) /\ s.rooms \subseteq BridgedRooms
  BY DEF Consistent, Stores, Referenced
<1>2. \A r \in s.rooms : f[r] \in Fields
  BY <1>1 DEF Consistent
<1>3. \A r \in s.rooms : /\ f[r].matrix \in MatrixRoomIds /\ f[r].inbound \in InboundIds
                         /\ f[r].channel \in SlackChannelIds \cup {None}
  BY <1>2 DEF Fields
<1>4. None \notin s.rooms /\ None \notin SlackChannelIds /\ None \notin BridgedRooms
  BY <1>1, NoneAssumption DEF SlackChannelIds
<1>5. QED
  BY <1>1, <1>2, <1>3, <1>4 DEF Consistent, Stores, SoundIn

\* Only the dirty flags differ.
LEMMA DirtySerial ==
  ASSUME NEW f, NEW s, NEW q, NEW e, NEW x, NEW rows, NEW load,
         Consistent(f, s, q), SerialIn(f, s, x, rows, load),
         \A r \in s.rooms : /\ e[r].matrix = f[r].matrix /\ e[r].inbound = f[r].inbound
                            /\ e[r].channel = f[r].channel,
         x.pc = "adding" => e[x.room].dirty
  PROVE  SerialIn(e, s, x, rows, load)
<1>1. MapsIn(e, s)
  BY DEF SerialIn, MapsIn
<1>2. \A r \in s.rooms : Row(e, r) = Row(f, r)
  BY DEF Row
<1>3. TableIn(e, s, rows)
  <2>1. \A i \in InboundIds : RowIn(f, s, rows, i) => RowIn(e, s, rows, i)
    BY <1>2, MapTypes DEF RowIn
  <2>2. QED
    BY <2>1 DEF SerialIn, TableIn
<1>4. AskedIn(e, s, x, rows)
  BY DEF SerialIn, AskedIn
<1>5. SettledIn(e, s, x, rows, load)
  <2>1. \A i \in InboundIds : Touches(f, x, i) => Touches(e, x, i)
    BY DEF SerialIn, AskedIn, Touches
  <2>2. QED
    BY <1>2, <2>1, MapTypes DEF SerialIn, SettledIn
<1>6. QED
  BY <1>1, <1>3, <1>4, <1>5 DEF SerialIn

LEMMA CommitSerial ==
  ASSUME NEW f, NEW s, NEW q, NEW rows, NEW load, NEW h, Handlers = {h},
         Consistent(f, s, q), SerialIn(f, s, q[h], rows, load), Commit(f, s, q),
         roomRows' = rows, loading' = load
  PROVE  SerialInv'
<1>1. store' = s /\ requests' = q
  BY DEF Commit
<1>2. \A r \in s.rooms : r \in BridgedRooms /\ fields'[r] = f[r]
  BY MapTypes DEF Commit, Referenced
<1>3. q[h].pc = "adding" => fields'[q[h].room].dirty
  BY <1>2 DEF SerialIn, AskedIn
<1>4. SerialIn(fields', s, q[h], rows, load)
  BY <1>2, <1>3, DirtySerial
<1>5. QED
  BY <1>1, <1>4 DEF SerialInv

\* A request changes that does not lose sight of a row.
LEMMA AskSerial ==
  ASSUME NEW f, NEW s, NEW x, NEW y, NEW rows, NEW load,
         SerialIn(f, s, x, rows, load), AskedIn(f, s, y, rows),
         y.pc = "idle" \/ \A i \in InboundIds : load[i] = NoRow,
         x.pc \notin Touching
           \/ (x.pc \in {"draining", "dmDraining"} /\ y.inbound = x.inbound
               /\ y.pc \in {"deleting", "dmDeleting"})
  PROVE  SerialIn(f, s, y, rows, load)
<1>1. \A i : Touches(f, x, i) => Touches(f, y, i)
  BY DEF Touches, Touching
<1>2. SettledIn(f, s, y, rows, load)
  BY <1>1 DEF SerialIn, SettledIn
<1>3. QED
  BY <1>2 DEF SerialIn, LoadIn

\* The one handler's request, where the maps and the table stay as they are.
LEMMA OnlyRequestSerial ==
  ASSUME IInv, SerialInv, NEW h, Handlers = {h}, NEW y \in Requests, RequestOK(y),
         y.room # None => fields[y.room] \in Fields,
         AskedIn(fields, store, y, roomRows),
         y.pc = "idle" \/ \A i \in InboundIds : loading[i] = NoRow,
         requests[h].pc \notin Touching
           \/ (requests[h].pc \in {"draining", "dmDraining"} /\ y.inbound = requests[h].inbound
               /\ y.pc \in {"deleting", "dmDeleting"}),
         Commit(fields, store, After(h, y)), UNCHANGED <<roomRows, loading, reading, twice>>
  PROVE  SerialInv'
<1> DEFINE q == [requests EXCEPT ![h] = y]
<1>1. Consistent(fields, store, q)
  BY RequestStep DEF IInv
<1>2. q[h] = y
  BY DEF IInv, TypeOK
<1>3. SerialIn(fields, store, y, roomRows, loading)
  BY AskSerial DEF SerialInv
<1>4. QED
  BY <1>1, <1>2, <1>3, CommitSerial DEF After

LEMMA IdleSerial ==
  ASSUME IInv, SerialInv, NEW h, Handlers = {h}, requests[h].pc \notin Touching,
         Commit(fields, store, Done(h)), UNCHANGED <<roomRows, loading, reading, twice>>
  PROVE  SerialInv'
<1>1. Idle.pc = "idle"
  BY DEF Idle
<1>2. AskedIn(fields, store, Idle, roomRows)
  BY <1>1 DEF AskedIn, Pcs
<1>3. QED
  BY <1>1, <1>2, IdleOK, OnlyRequestSerial DEF Done

\* A room of the store is saved.
LEMMA SaveSerial ==
  ASSUME NEW f, NEW s, Consistent(f, s, requests), NEW h, Handlers = {h},
         NEW r \in s.rooms, NEW x, SerialIn(f, s, x, roomRows, loading),
         x.pc \notin Touching \/ (x.pc \in {"adding", "addingDm"} /\ x.room = r),
         \A i \in InboundIds : loading[i] = NoRow,
         Save(h, r, f, s), UNCHANGED <<roomRows, loading, reading, twice>>
  PROVE  SerialInv'
<1> DEFINE g == [f[r] EXCEPT !.dirty = FALSE]
           e == [f EXCEPT ![r] = g]
           y == Saving(h, r, f[r])
<1>0. r \in BridgedRooms /\ f[r] \in Fields
  BY MapTypes
<1>1. /\ g \in Fields /\ g.matrix = f[r].matrix /\ g.inbound = f[r].inbound
      /\ g.channel = f[r].channel
  BY <1>0 DEF Fields
<1>2. requests[h] \in Requests
  BY DEF Consistent
<1>3. /\ y \in Requests /\ RequestOK(y) /\ y.room = r /\ y.pc = "saving"
      /\ y.inbound = f[r].inbound /\ y.matrix = f[r].matrix /\ y.channel = f[r].channel
  BY <1>0, <1>2 DEF Saving, Requests, RequestOK, Fields, Pcs
<1>4. e = [f EXCEPT ![r].dirty = FALSE]
  OBVIOUS
<1> HIDE DEF g, y
<1>5. Consistent(e, s, requests) /\ e[r] = g
  BY <1>0, <1>1, FieldStep
<1>6. Consistent(e, s, [requests EXCEPT ![h] = y])
  BY <1>1, <1>3, <1>5, RequestStep
<1>7. \A k \in s.rooms : /\ e[k].matrix = f[k].matrix /\ e[k].inbound = f[k].inbound
                         /\ e[k].channel = f[k].channel
  BY <1>0, <1>1, MapTypes DEF Consistent
<1>8. SerialIn(f, s, y, roomRows, loading)
  <2>1. AskedIn(f, s, y, roomRows)
    BY <1>3 DEF AskedIn, Pcs
  <2>2. \A i : Touches(f, x, i) => Touches(f, y, i)
    BY <1>3 DEF Touches, Touching
  <2>3. SettledIn(f, s, y, roomRows, loading)
    BY <2>2 DEF SerialIn, SettledIn
  <2>4. QED
    BY <2>1, <2>3 DEF SerialIn, LoadIn
<1> HIDE DEF e
<1>9. SerialIn(e, s, y, roomRows, loading)
  BY <1>3, <1>7, <1>8, DirtySerial
<1>10. [requests EXCEPT ![h] = y][h] = y
  BY DEF Consistent
<1>11. Commit(e, s, [requests EXCEPT ![h] = y])
  BY <1>4 DEF Save, After, e, y
<1>12. QED
  BY <1>6, <1>9, <1>10, <1>11, CommitSerial

\* upsertRoom of a new room whose keys are no other room's.
LEMMA AddMaps ==
  ASSUME NEW f, NEW s, NEW q, Consistent(f, s, q), MapsIn(f, s),
         "relink" \notin Traffic,
         NEW r \in BridgedRooms, r \notin s.rooms, NEW g \in Fields,
         Unbridged(s, g.matrix), Free(s, g.channel), s.byInboundId[g.inbound] = None,
         g.inbound \in DmChannelIds => g.channel = g.inbound
  PROVE  /\ MapsIn([f EXCEPT ![r] = g], Upserted(s, r, g))
         /\ \A i \in InboundIds : Upserted(s, r, g).byInboundId[i]
                                    = IF i = g.inbound THEN r ELSE s.byInboundId[i]
         /\ \A m \in MatrixRoomIds : Upserted(s, r, g).byMatrixId[m]
                                    = IF m = g.matrix THEN r ELSE s.byMatrixId[m]
         /\ \A c \in SlackChannelIds : Upserted(s, r, g).byChannelId[c]
                                    = IF c = g.channel THEN r ELSE s.byChannelId[c]
         /\ \A k \in s.rooms : [f EXCEPT ![r] = g][k] = f[k]
         /\ Upserted(s, r, g).rooms = s.rooms \cup {r}
         /\ [f EXCEPT ![r] = g][r] = g
<1> DEFINE e == [f EXCEPT ![r] = g]
           t == Upserted(s, r, g)
<1>1. e[r] = g /\ \A k \in s.rooms : e[k] = f[k]
  BY MapTypes DEF Consistent
<1>2. t.rooms = s.rooms \cup {r}
  BY DEF Upserted
<1>3. \A i \in InboundIds : t.byInboundId[i] = IF i = g.inbound THEN r ELSE s.byInboundId[i]
  BY MapTypes DEF Upserted, Reindexed
<1>4. \A m \in MatrixRoomIds : t.byMatrixId[m] = IF m = g.matrix THEN r ELSE s.byMatrixId[m]
  BY MapTypes DEF Upserted, Reindexed
<1>5. \A c \in SlackChannelIds : t.byChannelId[c] = IF c = g.channel THEN r ELSE s.byChannelId[c]
  <2> SUFFICES ASSUME NEW c \in SlackChannelIds
               PROVE  t.byChannelId[c] = IF c = g.channel THEN r ELSE s.byChannelId[c]
    OBVIOUS
  <2>1. t.byChannelId[c] = IF c = g.channel THEN r
                           ELSE IF s.byChannelId[c] = r THEN None ELSE s.byChannelId[c]
    BY MapTypes DEF Upserted, Reindexed
  <2>2. s.byChannelId[c] # r
    BY MapTypes DEF Consistent, ChannelSoundIn
  <2>3. QED
    BY <2>1, <2>2
<1>6. g.matrix \in MatrixRoomIds /\ g.inbound \in InboundIds /\ g.channel \in SlackChannelIds \cup {None}
  BY DEF Fields
<1> HIDE DEF e, t
<1>7. MapsIn(e, t)
  <2> SUFFICES ASSUME NEW k \in t.rooms
               PROVE  /\ t.byMatrixId[e[k].matrix] = k
                      /\ t.byInboundId[e[k].inbound] = k
                      /\ e[k].channel # None => t.byChannelId[e[k].channel] = k
                      /\ e[k].inbound \in DmChannelIds => e[k].channel = e[k].inbound
    BY DEF MapsIn
  <2>1. CASE k = r
    BY <1>1, <1>3, <1>4, <1>5, <1>6, <2>1
  <2>2. CASE k \in s.rooms
    <3>1. /\ s.byMatrixId[f[k].matrix] = k /\ s.byInboundId[f[k].inbound] = k
          /\ f[k].channel # None => s.byChannelId[f[k].channel] = k
          /\ f[k].inbound \in DmChannelIds => f[k].channel = f[k].inbound
          /\ f[k].matrix \in MatrixRoomIds /\ f[k].inbound \in InboundIds
          /\ f[k].channel \in SlackChannelIds \cup {None} /\ k # None
      BY <2>2, MapTypes DEF MapsIn
    <3>2. f[k].matrix # g.matrix /\ f[k].inbound # g.inbound
          /\ (f[k].channel # None => f[k].channel # g.channel)
      BY <3>1 DEF Unbridged, Free
    <3>3. QED
      BY <1>1, <1>3, <1>4, <1>5, <2>2, <3>1, <3>2
  <2>3. QED
    BY <1>2, <2>1, <2>2
<1>8. QED
  BY <1>1, <1>2, <1>3, <1>4, <1>5, <1>7 DEF e, t

\* upsertRoom of a new room: what the table and the requests then say of it.
LEMMA AddSerial ==
  ASSUME NEW f, NEW s, NEW q, Consistent(f, s, q), "relink" \notin Traffic,
         NEW r \in BridgedRooms, r \notin s.rooms, NEW g \in Fields,
         Unbridged(s, g.matrix), Free(s, g.channel), s.byInboundId[g.inbound] = None,
         g.inbound \in DmChannelIds => g.channel = g.inbound,
         NEW rows \in [InboundIds -> Rows \cup {NoRow}], NEW load, NEW rest, NEW x, NEW y,
         SerialIn(f, s, x, rows, load),
         \A j \in InboundIds : j # g.inbound /\ rows[j] # NoRow /\ s.byInboundId[j] = None =>
            /\ rows[j].matrix # g.matrix
            /\ rows[j].channel # None => rows[j].channel # g.channel,
         \/ rows[g.inbound] = NoRow /\ y.pc \in {"adding", "addingDm"} /\ y.room = r
         \/ rows[g.inbound] = [matrix |-> g.matrix, channel |-> g.channel] /\ y.pc = "idle",
         y.pc = "adding" => g.dirty,
         \A j \in InboundIds : rest[j] = IF j = g.inbound THEN NoRow ELSE load[j],
         x.pc \notin Touching,
         y.pc # "idle" => \A j \in InboundIds : load[j] = NoRow
  PROVE  SerialIn([f EXCEPT ![r] = g], Upserted(s, r, g), y, rows, rest)
<1> DEFINE e == [f EXCEPT ![r] = g]
           t == Upserted(s, r, g)
<1>1. /\ MapsIn(e, t)
      /\ \A i \in InboundIds : t.byInboundId[i] = IF i = g.inbound THEN r ELSE s.byInboundId[i]
      /\ \A m \in MatrixRoomIds : t.byMatrixId[m] = IF m = g.matrix THEN r ELSE s.byMatrixId[m]
      /\ \A c \in SlackChannelIds : t.byChannelId[c] = IF c = g.channel THEN r ELSE s.byChannelId[c]
      /\ \A k \in s.rooms : e[k] = f[k]
      /\ t.rooms = s.rooms \cup {r}
      /\ e[r] = g
  BY AddMaps DEF SerialIn
<1>2. /\ g.matrix \in MatrixRoomIds /\ g.inbound \in InboundIds
      /\ g.channel \in SlackChannelIds \cup {None}
  BY DEF Fields
<1> HIDE DEF e, t
<1>3. r # None /\ \A i \in InboundIds : s.byInboundId[i] # None => s.byInboundId[i] \in s.rooms
  BY MapTypes, NoneAssumption
<1>4. \A j \in InboundIds : rows[j] # NoRow =>
         rows[j].matrix \in MatrixRoomIds /\ rows[j].channel \in SlackChannelIds \cup {None}
  BY DEF Rows
<1>5. \A i \in InboundIds : rows[i] # NoRow => RowIn(e, t, rows, i)
  <2> SUFFICES ASSUME NEW i \in InboundIds, rows[i] # NoRow
               PROVE  RowIn(e, t, rows, i)
    OBVIOUS
  <2>1. RowIn(f, s, rows, i)
    BY DEF SerialIn, TableIn
  <2>2. CASE i = g.inbound
    BY <1>1, <1>3, <2>2 DEF RowIn, Row
  <2>3. CASE i # g.inbound /\ s.byInboundId[i] = None
    <3>1. rows[i].matrix # g.matrix /\ (rows[i].channel # None => rows[i].channel # g.channel)
      BY <2>3
    <3>2. Unbridged(t, rows[i].matrix) /\ Free(t, rows[i].channel)
      BY <1>1, <1>4, <2>1, <2>3, <3>1 DEF RowIn, Unbridged, Free
    <3>3. QED
      BY <1>1, <2>3, <3>2 DEF RowIn
  <2>4. CASE i # g.inbound /\ s.byInboundId[i] # None
    BY <1>1, <1>3, <2>1, <2>4 DEF RowIn, Row
  <2>5. QED
    BY <2>2, <2>3, <2>4
<1>6. TableIn(e, t, rows)
  BY <1>5 DEF SerialIn, TableIn
<1>7. LoadIn(t, y, rows, rest)
  BY <1>1 DEF SerialIn, LoadIn
<1>8. AskedIn(e, t, y, rows)
  BY <1>1 DEF AskedIn, Pcs
<1>9. SettledIn(e, t, y, rows, rest)
  <2> SUFFICES ASSUME NEW i \in InboundIds, rest[i] = NoRow, ~Touches(e, y, i)
               PROVE  rows[i] = IF t.byInboundId[i] = None THEN NoRow ELSE Row(e, t.byInboundId[i])
    BY DEF SettledIn
  <2>1. CASE i = g.inbound
    <3>1. y.pc = "idle"
      BY <1>1, <2>1 DEF Touches
    <3>2. QED
      BY <1>1, <1>3, <2>1, <3>1 DEF Row
  <2>2. CASE i # g.inbound
    <3>1. load[i] = NoRow /\ ~Touches(f, x, i)
      BY <2>2 DEF Touches, Touching
    <3>2. rows[i] = IF s.byInboundId[i] = None THEN NoRow ELSE Row(f, s.byInboundId[i])
      BY <3>1 DEF SerialIn, SettledIn
    <3>3. QED
      BY <1>1, <1>3, <2>2, <3>2 DEF Row
  <2>3. QED
    BY <2>1, <2>2
<1>10. QED
  BY <1>1, <1>6, <1>7, <1>8, <1>9 DEF SerialIn, e, t

\* The same, where a handler adds it.
LEMMA HandlerAdds ==
  ASSUME IInv, SerialInv, "relink" \notin Traffic, NEW h, Handlers = {h},
         NEW r \in Unused, NEW g \in Fields,
         requests[h].pc \in {"linking", "opening", "discovered", "discoveredPrivate"},
         Unbridged(store, g.matrix), Free(store, g.channel), store.byInboundId[g.inbound] = None,
         g.inbound \in DmChannelIds => g.channel = g.inbound,
         NEW y, y.pc \in {"adding", "addingDm"}, y.room = r, y.pc = "adding" => g.dirty
  PROVE  /\ SerialIn([fields EXCEPT ![r] = g], Upserted(store, r, g), y, roomRows, loading)
         /\ Consistent([fields EXCEPT ![r] = g], Upserted(store, r, g), requests)
         /\ [fields EXCEPT ![r] = g][r] = g
         /\ r \in Upserted(store, r, g).rooms
<1>1. /\ r \in BridgedRooms /\ r \notin store.rooms
      /\ Consistent(fields, store, requests)
      /\ roomRows \in [InboundIds -> Rows \cup {NoRow}]
  BY DEF Unused, Referenced, IInv, TypeOK
<1>2. SerialIn(fields, store, requests[h], roomRows, loading)
  BY DEF SerialInv
<1>3. \A j \in InboundIds : loading[j] = NoRow
  BY <1>2 DEF SerialIn, LoadIn
<1>4. requests[h].pc \notin Touching
  BY DEF Touching
<1>5. \A j \in InboundIds : ~Touches(fields, requests[h], j)
  BY <1>4 DEF Touches, Touching
<1>6. \A j \in InboundIds : store.byInboundId[j] = None => roomRows[j] = NoRow
  BY <1>2, <1>3, <1>5 DEF SerialIn, SettledIn
<1>7. g.inbound \in InboundIds
  BY DEF Fields
<1>8. roomRows[g.inbound] = NoRow
  BY <1>6, <1>7
<1>9. SerialIn([fields EXCEPT ![r] = g], Upserted(store, r, g), y, roomRows, loading)
  BY <1>1, <1>2, <1>3, <1>4, <1>6, <1>8, AddSerial
<1>10. QED
  BY <1>1, <1>9, UpsertConsistent DEF Upserted

\* Start-up loads a room from its row.
LEMMA LoadSerial ==
  ASSUME IInv, SerialInv, "relink" \notin Traffic, NEW h, Handlers = {h},
         NEW i \in InboundIds, LoadRoom(i)
  PROVE  SerialInv'
<1>1. PICK r \in Unused :
          LET g == BridgedRoom(loading[i].matrix, i, loading[i].channel) IN
          /\ loading[i] # NoRow
          /\ Commit([fields EXCEPT ![r] = g], Upserted(store, r, g), requests)
          /\ loading' = [loading EXCEPT ![i] = NoRow]
          /\ UNCHANGED roomRows
  BY DEF LoadRoom
<1> DEFINE g == BridgedRoom(loading[i].matrix, i, loading[i].channel)
           x == requests[h]
<1>2. r \in BridgedRooms /\ r \notin store.rooms /\ loading[i] \in Rows
      /\ Consistent(fields, store, requests)
      /\ roomRows \in [InboundIds -> Rows \cup {NoRow}]
      /\ loading \in [InboundIds -> Rows \cup {NoRow}]
  BY <1>1 DEF Unused, Referenced, IInv, TypeOK
<1>3. /\ g \in Fields /\ g.matrix = loading[i].matrix /\ g.inbound = i
      /\ g.channel = loading[i].channel
  BY <1>2 DEF Rows, BridgedRoom, Fields
<1>4. Commit([fields EXCEPT ![r] = g], Upserted(store, r, g), requests)
  BY <1>1
<1> HIDE DEF g
<1>5. SerialIn(fields, store, x, roomRows, loading)
  BY DEF SerialInv
<1>6. x.pc = "idle" /\ store.byInboundId[i] = None /\ roomRows[i] = loading[i]
  BY <1>1, <1>5 DEF SerialIn, LoadIn
<1>7. Unbridged(store, g.matrix) /\ Free(store, g.channel)
  BY <1>1, <1>3, <1>5, <1>6 DEF SerialIn, TableIn, RowIn
<1>8. i \in DmChannelIds => g.channel = i
  BY <1>1, <1>3, <1>5, <1>6 DEF SerialIn, TableIn
<1>9. \A j \in InboundIds : j # i /\ roomRows[j] # NoRow =>
          /\ roomRows[j].matrix # g.matrix
          /\ roomRows[j].channel # None => roomRows[j].channel # g.channel
  BY <1>1, <1>3, <1>5, <1>6 DEF SerialIn, TableIn
<1>10. roomRows[i] = [matrix |-> g.matrix, channel |-> g.channel]
  BY <1>2, <1>3, <1>6 DEF Rows
<1>11. \A j \in InboundIds : loading'[j] = IF j = i THEN NoRow ELSE loading[j]
  BY <1>1, <1>2
<1>12. SerialIn([fields EXCEPT ![r] = g], Upserted(store, r, g), x, roomRows, loading')
  BY <1>2, <1>3, <1>5, <1>6, <1>7, <1>8, <1>9, <1>10, <1>11, AddSerial DEF Touching
<1>13. Consistent([fields EXCEPT ![r] = g], Upserted(store, r, g), requests)
  BY <1>2, <1>3, UpsertConsistent
<1>14. QED
  BY <1>1, <1>4, <1>12, <1>13, CommitSerial

\* removeRoom of a room whose row is then to be deleted.
LEMMA RemoveSerial ==
  ASSUME NEW f, NEW s, NEW q, Consistent(f, s, q), NEW r \in s.rooms,
         NEW rows \in [InboundIds -> Rows \cup {NoRow}], NEW load, NEW x, NEW y,
         SerialIn(f, s, x, rows, load), x.pc \notin Touching,
         \A j \in InboundIds : load[j] = NoRow,
         y.pc \in {"draining", "dmDraining"}, y.inbound = f[r].inbound,
         y.pc = "dmDraining" =>
            Unbridged(s, y.matrix) /\ y.matrix \in MatrixRoomIds /\ y.channel = f[r].channel
  PROVE  SerialIn(f, Removed(s, r, f[r]), y, rows, load)
<1> DEFINE t == Removed(s, r, f[r])
<1>1. /\ t.rooms = s.rooms \ {r}
      /\ \A m \in MatrixRoomIds : t.byMatrixId[m] = IF m = f[r].matrix THEN None ELSE s.byMatrixId[m]
      /\ \A i \in InboundIds : t.byInboundId[i] = IF i = f[r].inbound THEN None ELSE s.byInboundId[i]
      /\ \A c \in SlackChannelIds : t.byChannelId[c] = IF c = f[r].channel THEN None ELSE s.byChannelId[c]
  BY MapTypes DEF Removed, Without
<1> HIDE DEF t
<1>2. /\ \A k \in s.rooms : /\ f[k].matrix \in MatrixRoomIds /\ f[k].inbound \in InboundIds
                            /\ f[k].channel \in SlackChannelIds \cup {None}
      /\ \A i \in InboundIds : s.byInboundId[i] # None => s.byInboundId[i] \in s.rooms
      /\ None \notin s.rooms
  BY MapTypes
<1>3. \A k \in s.rooms :
        /\ s.byMatrixId[f[k].matrix] = k /\ s.byInboundId[f[k].inbound] = k
        /\ f[k].channel # None => s.byChannelId[f[k].channel] = k
        /\ f[k].inbound \in DmChannelIds => f[k].channel = f[k].inbound
  BY DEF SerialIn, MapsIn
<1>4. MapsIn(f, t)
  <2> SUFFICES ASSUME NEW k \in s.rooms, k # r
               PROVE  /\ t.byMatrixId[f[k].matrix] = k /\ t.byInboundId[f[k].inbound] = k
                      /\ f[k].channel # None => t.byChannelId[f[k].channel] = k
                      /\ f[k].inbound \in DmChannelIds => f[k].channel = f[k].inbound
    BY <1>1 DEF MapsIn
  <2>1. /\ f[k].matrix # f[r].matrix /\ f[k].inbound # f[r].inbound
        /\ f[k].channel # None => f[k].channel # f[r].channel
    BY <1>3
  <2>2. QED
    BY <1>1, <1>2, <1>3, <2>1
<1>5. \A j \in InboundIds : ~Touches(f, x, j)
  BY DEF Touches, Touching
<1>6. \A i \in InboundIds :
        rows[i] = IF s.byInboundId[i] = None THEN NoRow ELSE Row(f, s.byInboundId[i])
  BY <1>5 DEF SerialIn, SettledIn
<1>7. \A m \in MatrixRoomIds : Unbridged(s, m) => Unbridged(t, m)
  BY <1>1 DEF Unbridged
<1>8. Unbridged(t, f[r].matrix) /\ Free(t, f[r].channel)
  BY <1>1, <1>2 DEF Unbridged, Free
<1>9. \A i \in InboundIds : rows[i] # NoRow => RowIn(f, t, rows, i)
  <2> SUFFICES ASSUME NEW i \in InboundIds, rows[i] # NoRow
               PROVE  RowIn(f, t, rows, i)
    OBVIOUS
  <2>1. CASE i = f[r].inbound
    <3>1. rows[i] = Row(f, r)
      BY <1>2, <1>3, <1>6, <2>1
    <3>2. QED
      BY <1>1, <1>8, <2>1, <3>1 DEF RowIn, Row
  <2>2. CASE i # f[r].inbound
    BY <1>1, <1>6, <2>2 DEF RowIn
  <2>3. QED
    BY <2>1, <2>2
<1>10. TableIn(f, t, rows)
  BY <1>9 DEF SerialIn, TableIn
<1>11. LoadIn(t, y, rows, load)
  BY DEF LoadIn
<1>12. AskedIn(f, t, y, rows)
  BY <1>1, <1>2, <1>7, <1>8 DEF AskedIn, Pcs
<1>13. SettledIn(f, t, y, rows, load)
  <2> SUFFICES ASSUME NEW i \in InboundIds, ~Touches(f, y, i)
               PROVE  rows[i] = IF t.byInboundId[i] = None THEN NoRow ELSE Row(f, t.byInboundId[i])
    BY DEF SettledIn
  <2>1. i # f[r].inbound
    BY DEF Touches
  <2>2. QED
    BY <1>1, <1>6, <2>1
<1>14. QED
  BY <1>4, <1>10, <1>11, <1>12, <1>13 DEF SerialIn, t

LEMMA UnlinkSerial ==
  ASSUME IInv, SerialInv, NEW h, Handlers = {h}, NEW r \in store.rooms, NEW x \in Requests,
         x.pc \in {"draining", "dmDraining"}, requests[h].pc \notin Touching,
         \A j \in InboundIds : loading[j] = NoRow,
         x.matrix \in MatrixRoomIds,
         x.pc = "dmDraining" =>
            Unbridged(store, x.matrix) /\ x.channel = fields[r].channel /\ x.channel \in DmChannelIds,
         Unlinking(h, r, x), UNCHANGED <<roomRows, loading, reading, twice>>
  PROVE  SerialInv'
<1> DEFINE g == [fields[r] EXCEPT !.dirty = FALSE]
           e == [fields EXCEPT ![r] = g]
           t == Removed(store, r, fields[r])
           y == [x EXCEPT !.inbound = fields[r].inbound, !.room = r]
<1>0. /\ Consistent(fields, store, requests) /\ r \in BridgedRooms /\ fields[r] \in Fields
      /\ roomRows \in [InboundIds -> Rows \cup {NoRow}]
      /\ SerialIn(fields, store, requests[h], roomRows, loading)
  BY Allocated DEF IInv, TypeOK, SerialInv
<1>1. Consistent(fields, t, requests)
  BY <1>0, RemoveConsistent
<1>2. /\ g \in Fields
      /\ g.matrix = fields[r].matrix /\ g.inbound = fields[r].inbound
      /\ g.channel = fields[r].channel
  BY <1>0 DEF Fields
<1>3. /\ y \in Requests /\ RequestOK(y) /\ y.room = r /\ y.pc = x.pc
      /\ y.inbound = fields[r].inbound /\ y.matrix = x.matrix /\ y.channel = x.channel
  BY <1>0 DEF Requests, RequestOK, Fields
<1>4. Commit(e, t, [requests EXCEPT ![h] = y])
  BY DEF Unlinking, After
<1> HIDE DEF g, y
<1>5. SerialIn(fields, t, y, roomRows, loading)
  BY <1>0, <1>3, RemoveSerial
<1> HIDE DEF t
<1>6. Consistent(e, t, requests) /\ e[r] = g
  BY <1>0, <1>1, <1>2, FieldStep
<1>7. Consistent(e, t, [requests EXCEPT ![h] = y])
  BY <1>2, <1>3, <1>6, RequestStep
<1>8. \A k \in t.rooms : /\ e[k].matrix = fields[k].matrix /\ e[k].inbound = fields[k].inbound
                         /\ e[k].channel = fields[k].channel
  <2>1. t.rooms \subseteq BridgedRooms
    BY <1>1, MapTypes
  <2>2. QED
    BY <1>0, <1>2, <2>1 DEF Consistent
<1> HIDE DEF e
<1>9. SerialIn(e, t, y, roomRows, loading)
  BY <1>1, <1>3, <1>5, <1>8, DirtySerial
<1>10. [requests EXCEPT ![h] = y][h] = y
  BY <1>0 DEF Consistent
<1>11. QED
  BY <1>4, <1>7, <1>9, <1>10, CommitSerial

\* The row of the room that is being saved is written.
LEMMA StoreSerial ==
  ASSUME IInv, SerialInv, NEW h, Handlers = {h}, StoreRow(h)
  PROVE  SerialInv'
<1> DEFINE x == requests[h]
           i == x.inbound
           r == x.room
           f == fields
           s == store
<1>1. /\ x.pc = "saving" /\ r \in s.rooms /\ i = f[r].inbound
      /\ x.matrix = f[r].matrix /\ x.channel = f[r].channel
      /\ SerialIn(f, s, x, roomRows, loading)
  BY DEF StoreRow, At, SerialInv, SerialIn, AskedIn
<1>2. /\ Consistent(f, s, requests) /\ roomRows \in [InboundIds -> Rows \cup {NoRow}]
  BY DEF IInv, TypeOK
<1>3. /\ i \in InboundIds /\ f[r].matrix \in MatrixRoomIds
      /\ f[r].channel \in SlackChannelIds \cup {None} /\ r # None
      /\ \A k \in InboundIds : s.byInboundId[k] # None =>
            s.byInboundId[k] \in s.rooms /\ f[s.byInboundId[k]].inbound = k
  BY <1>1, <1>2, MapTypes
<1>4. \A k \in s.rooms :
        /\ s.byMatrixId[f[k].matrix] = k /\ s.byInboundId[f[k].inbound] = k
        /\ f[k].channel # None => s.byChannelId[f[k].channel] = k
        /\ f[k].inbound \in DmChannelIds => f[k].channel = f[k].inbound
  BY <1>1 DEF SerialIn, MapsIn
<1>5. roomRows[i] # NoRow => roomRows[i] = Row(f, r)
  BY <1>1, <1>3, <1>4 DEF SerialIn, TableIn, RowIn
<1>6. roomRows' = [roomRows EXCEPT ![i] = Row(f, r)]
  BY <1>1, <1>2, <1>3, <1>5 DEF StoreRow, Row
<1>7. /\ roomRows'[i] = Row(f, r)
      /\ \A j \in InboundIds : j # i => roomRows'[j] = roomRows[j]
  BY <1>2, <1>3, <1>6
<1>8. \A j \in InboundIds : loading[j] = NoRow
  BY <1>1 DEF SerialIn, LoadIn
<1>9. \A j \in InboundIds : j # i /\ roomRows[j] # NoRow =>
         /\ roomRows[j].matrix # f[r].matrix
         /\ roomRows[j].channel # None => roomRows[j].channel # f[r].channel
  <2> SUFFICES ASSUME NEW j \in InboundIds, j # i, roomRows[j] # NoRow
               PROVE  /\ roomRows[j].matrix # f[r].matrix
                      /\ roomRows[j].channel # None => roomRows[j].channel # f[r].channel
    OBVIOUS
  <2>1. RowIn(f, s, roomRows, j)
    BY <1>1 DEF SerialIn, TableIn
  <2>2. CASE s.byInboundId[j] = None
    BY <1>1, <1>3, <1>4, <2>1, <2>2 DEF RowIn, Unbridged, Free
  <2>3. CASE s.byInboundId[j] # None
    <3> DEFINE k == s.byInboundId[j]
    <3>1. k \in s.rooms /\ k # r /\ roomRows[j] = Row(f, k)
      BY <1>1, <1>3, <2>1, <2>3 DEF RowIn
    <3>2. f[k].matrix # f[r].matrix /\ (f[k].channel # None => f[k].channel # f[r].channel)
      BY <1>1, <1>4, <3>1
    <3>3. QED
      BY <3>1, <3>2 DEF Row
  <2>4. QED
    BY <2>2, <2>3
<1>10. RowIn(f, s, roomRows', i)
  BY <1>1, <1>4, <1>7, <1>3 DEF RowIn
<1>11. \A j \in InboundIds : j # i /\ roomRows[j] # NoRow => RowIn(f, s, roomRows', j)
  BY <1>1, <1>7 DEF SerialIn, TableIn, RowIn
<1>12. TableIn(f, s, roomRows')
  <2>1. \A j \in InboundIds, k \in InboundIds :
          j # k /\ roomRows'[j] # NoRow /\ roomRows'[k] # NoRow =>
             /\ roomRows'[j].matrix # roomRows'[k].matrix
             /\ roomRows'[j].channel # None => roomRows'[j].channel # roomRows'[k].channel
    <3> SUFFICES ASSUME NEW j \in InboundIds, NEW k \in InboundIds,
                        j # k, roomRows'[j] # NoRow, roomRows'[k] # NoRow
                 PROVE  /\ roomRows'[j].matrix # roomRows'[k].matrix
                        /\ roomRows'[j].channel # None => roomRows'[j].channel # roomRows'[k].channel
      OBVIOUS
    <3>1. CASE j = i
      BY <1>7, <1>9, <3>1 DEF Row
    <3>2. CASE k = i
      BY <1>7, <1>9, <3>2 DEF Row
    <3>3. CASE j # i /\ k # i
      BY <1>1, <1>7, <3>3 DEF SerialIn, TableIn
    <3>4. QED
      BY <3>1, <3>2, <3>3
  <2>2. \A j \in DmChannelIds : roomRows'[j] # NoRow => roomRows'[j].channel = j
    <3> SUFFICES ASSUME NEW j \in DmChannelIds, roomRows'[j] # NoRow
                 PROVE  roomRows'[j].channel = j
      OBVIOUS
    <3>1. CASE j = i
      BY <1>1, <1>4, <1>7, <3>1 DEF Row
    <3>2. CASE j # i
      BY <1>1, <1>7, <3>2 DEF SerialIn, TableIn, InboundIds
    <3>3. QED
      BY <3>1, <3>2
  <2>3. \A j \in InboundIds : roomRows'[j] # NoRow => RowIn(f, s, roomRows', j)
    BY <1>7, <1>10, <1>11
  <2>4. QED
    BY <2>1, <2>2, <2>3 DEF TableIn
<1>13. SettledIn(f, s, Idle, roomRows', loading)
  <2> SUFFICES ASSUME NEW j \in InboundIds
               PROVE  roomRows'[j] = IF s.byInboundId[j] = None THEN NoRow ELSE Row(f, s.byInboundId[j])
    BY DEF SettledIn
  <2>1. CASE j = i
    BY <1>1, <1>3, <1>4, <1>7, <2>1
  <2>2. CASE j # i
    BY <1>1, <1>7, <1>8, <2>2 DEF SerialIn, SettledIn, Touches
  <2>3. QED
    BY <2>1, <2>2
<1>14. SerialIn(f, s, Idle, roomRows', loading)
  <2>1. AskedIn(f, s, Idle, roomRows') /\ LoadIn(s, Idle, roomRows', loading)
    BY <1>8 DEF AskedIn, LoadIn, Idle, Pcs
  <2>2. QED
    BY <1>1, <1>12, <1>13, <2>1 DEF SerialIn
<1>15. Consistent(f, s, Done(h)) /\ Done(h)[h] = Idle
  BY <1>2, IdleOK, RequestStep DEF Done, After, Consistent
<1>16. Commit(f, s, Done(h)) /\ loading' = loading
  BY DEF StoreRow
<1>17. QED
  BY <1>14, <1>15, <1>16, CommitSerial

\* The row of an unlinked room is deleted.
LEMMA DeleteSerial ==
  ASSUME IInv, SerialInv, NEW h, Handlers = {h}, requests[h].pc \in {"deleting", "dmDeleting"},
         NEW y \in Requests, RequestOK(y), y.room = None,
         \/ y.pc = "idle"
         \/ y.pc = "opening" /\ y.matrix = requests[h].matrix /\ y.channel = requests[h].channel
            /\ requests[h].pc = "dmDeleting",
         roomRows' = [roomRows EXCEPT ![requests[h].inbound] = NoRow],
         Commit(fields, store, After(h, y)), loading' = loading
  PROVE  SerialInv'
<1> DEFINE x == requests[h]
           i == x.inbound
           f == fields
           s == store
<1>1. SerialIn(f, s, x, roomRows, loading) /\ i \in InboundIds /\ s.byInboundId[i] = None
  BY DEF SerialInv, SerialIn, AskedIn
<1>2. /\ Consistent(f, s, requests) /\ roomRows \in [InboundIds -> Rows \cup {NoRow}]
  BY DEF IInv, TypeOK
<1>3. /\ roomRows'[i] = NoRow
      /\ \A j \in InboundIds : j # i => roomRows'[j] = roomRows[j]
  BY <1>1, <1>2
<1>4. \A j \in InboundIds : loading[j] = NoRow
  BY <1>1 DEF SerialIn, LoadIn
<1>5. TableIn(f, s, roomRows')
  <2>1. \A j \in InboundIds : roomRows'[j] # NoRow => roomRows'[j] = roomRows[j]
    BY <1>3
  <2>2. \A j \in InboundIds : roomRows'[j] # NoRow => RowIn(f, s, roomRows', j)
    BY <1>1, <2>1 DEF SerialIn, TableIn, RowIn
  <2>3. \A j \in DmChannelIds : roomRows'[j] # NoRow => roomRows'[j].channel = j
    BY <1>1, <2>1 DEF SerialIn, TableIn, InboundIds
  <2>4. \A j \in InboundIds, k \in InboundIds :
          j # k /\ roomRows'[j] # NoRow /\ roomRows'[k] # NoRow =>
             /\ roomRows'[j].matrix # roomRows'[k].matrix
             /\ roomRows'[j].channel # None => roomRows'[j].channel # roomRows'[k].channel
    BY <1>1, <2>1 DEF SerialIn, TableIn
  <2>5. QED
    BY <2>2, <2>3, <2>4 DEF TableIn
<1>6. SettledIn(f, s, y, roomRows', loading)
  <2> SUFFICES ASSUME NEW j \in InboundIds
               PROVE  roomRows'[j] = IF s.byInboundId[j] = None THEN NoRow ELSE Row(f, s.byInboundId[j])
    BY DEF SettledIn
  <2>1. CASE j = i
    BY <1>1, <1>3, <2>1
  <2>2. CASE j # i
    BY <1>1, <1>3, <1>4, <2>2 DEF SerialIn, SettledIn, Touches
  <2>3. QED
    BY <2>1, <2>2
<1>7. AskedIn(f, s, y, roomRows')
  BY <1>1 DEF SerialIn, AskedIn, Pcs
<1>8. SerialIn(f, s, y, roomRows', loading)
  BY <1>1, <1>4, <1>5, <1>6, <1>7 DEF SerialIn, LoadIn
<1>9. Consistent(f, s, After(h, y)) /\ After(h, y)[h] = y
  BY <1>2, RequestStep DEF After, Consistent
<1>10. QED
  BY <1>8, <1>9, CommitSerial

LEMMA RestartSerial ==
  ASSUME IInv, NEW h, Handlers = {h}, Restart,
         NEW load, SerialIn(fields, store, requests[h], roomRows, load)
  PROVE  StartInv'
<1> DEFINE q == [w \in Handlers |-> Idle]
<1>2. /\ store' = EmptyStore /\ requests' = q /\ roomRows' = roomRows
      /\ \A i \in InboundIds : loading'[i] = NoRow
  BY DEF Restart, Commit
<1>3. q[h] = Idle
  OBVIOUS
<1>4. TableIn(fields, store, roomRows)
  BY DEF SerialIn
<1>5. roomRows \in [InboundIds -> Rows \cup {NoRow}]
  BY DEF IInv, TypeOK
<1>6. \A j \in InboundIds : roomRows[j] # NoRow => RowIn(fields', EmptyStore, roomRows, j)
  <2> SUFFICES ASSUME NEW j \in InboundIds, roomRows[j] # NoRow
               PROVE  RowIn(fields', EmptyStore, roomRows, j)
    OBVIOUS
  <2>1. roomRows[j].matrix \in MatrixRoomIds /\ roomRows[j].channel \in SlackChannelIds \cup {None}
    BY <1>5 DEF Rows
  <2>2. QED
    BY <2>1 DEF EmptyStore, RowIn, Unbridged, Free
<1>7. SerialIn(fields', EmptyStore, Idle, roomRows, roomRows)
  <2>1. MapsIn(fields', EmptyStore)
    BY DEF MapsIn, EmptyStore
  <2>2. TableIn(fields', EmptyStore, roomRows)
    BY <1>4, <1>6 DEF SerialIn, TableIn
  <2>3. LoadIn(EmptyStore, Idle, roomRows, roomRows)
    BY DEF LoadIn, EmptyStore, Idle
  <2>4. AskedIn(fields', EmptyStore, Idle, roomRows)
    BY DEF AskedIn, Idle, Pcs
  <2>5. SettledIn(fields', EmptyStore, Idle, roomRows, roomRows)
    BY DEF SettledIn, EmptyStore
  <2>6. QED
    BY <2>1, <2>2, <2>3, <2>4, <2>5 DEF SerialIn
<1>8. Idle.pc = "idle"
  BY DEF Idle
<1> HIDE DEF q
<1>9. QED
  BY <1>2, <1>3, <1>7, <1>8 DEF StartInv, At

\* What comes to the one handler, when it is idle and everything is loaded.
LEMMA ArrivesSerial ==
  ASSUME IInv, SerialInv, Undisturbed, NEW h, Handlers = {h}, Arrives(h)
  PROVE  SerialInv'
<1>0. /\ Consistent(fields, store, requests)
      /\ ChannelSoundIn(fields, store)
      /\ SerialIn(fields, store, requests[h], roomRows, loading)
      /\ UNCHANGED <<roomRows, loading, reading, twice>>
  BY DEF IInv, Undisturbed, Consistent, SerialInv, Arrives, Link, LinkWebhook, ChangeWebhook, Unlink,
         OpenDm, DiscoverDm, DiscoverPrivate, Discover, Upgrade, Rename
<1>1. \A event : Accepts(h, event) =>
          /\ requests[h].pc = "idle" /\ requests[h].pc \notin Touching
          /\ \A j \in InboundIds : loading[j] = NoRow
          /\ event \in {"link", "webhook", "unlink", "invite", "dm", "private", "rename", "restart"}
  BY DEF Accepts, At, Undisturbed, Touching
<1>2. CASE Link(h)
  <2>1. PICK m \in MatrixRoomIds, c \in SlackChannelIds \ DmChannelIds :
            /\ Accepts(h, IF store.byMatrixId[m] = None THEN "link" ELSE "relink")
            /\ store.byChannelId[c] = None
            /\ Commit(fields, store,
                      After(h, [Idle EXCEPT !.pc = "linking", !.matrix = m,
                                            !.channel = c,
                                            !.room = store.byMatrixId[m]]))
    BY <1>2 DEF Link
  <2> DEFINE y == [Idle EXCEPT !.pc = "linking", !.matrix = m, !.channel = c,
                               !.room = store.byMatrixId[m]]
  <2>2. store.byMatrixId[m] = None
    BY <1>1, <2>1
  <2>3. /\ y \in Requests /\ RequestOK(y) /\ y.pc = "linking" /\ y.matrix = m /\ y.channel = c
        /\ y.room = None
    BY <2>2 DEF Idle, Requests, RequestOK, Pcs
  <2>4. AskedIn(fields, store, y, roomRows)
    BY <2>1, <2>2, <2>3 DEF AskedIn, Pcs, Unbridged, Free
  <2> HIDE DEF y
  <2>5. QED
    BY <1>0, <1>1, <2>1, <2>3, <2>4, OnlyRequestSerial DEF y
<1>3. CASE LinkWebhook(h)
  <2>1. PICK m \in MatrixRoomIds :
            /\ Accepts(h, "webhook") /\ store.byMatrixId[m] = None
            /\ Commit(fields, store, After(h, [Idle EXCEPT !.pc = "linking", !.matrix = m]))
    BY <1>3 DEF LinkWebhook
  <2> DEFINE y == [Idle EXCEPT !.pc = "linking", !.matrix = m]
  <2>2. /\ y \in Requests /\ RequestOK(y) /\ y.pc = "linking" /\ y.matrix = m /\ y.channel = None
        /\ y.room = None
    BY DEF Idle, Requests, RequestOK, Pcs
  <2>3. AskedIn(fields, store, y, roomRows)
    BY <2>1, <2>2 DEF AskedIn, Pcs, Unbridged, Free
  <2> HIDE DEF y
  <2>4. QED
    BY <1>0, <1>1, <2>1, <2>2, <2>3, OnlyRequestSerial DEF y
<1>4. CASE ChangeWebhook(h)
  <2>1. PICK m \in MatrixRoomIds :
            /\ Accepts(h, "webhook") /\ store.byMatrixId[m] # None
            /\ Save(h, store.byMatrixId[m], fields, store)
    BY <1>4 DEF ChangeWebhook
  <2>2. store.byMatrixId[m] \in store.rooms
    BY <1>0, <2>1 DEF Consistent, SoundIn
  <2>3. QED
    BY <1>0, <1>1, <2>1, <2>2, SaveSerial
<1>5. CASE Unlink(h)
  <2>1. PICK m \in MatrixRoomIds :
            /\ Accepts(h, "unlink") /\ store.byMatrixId[m] # None
            /\ Unlinking(h, store.byMatrixId[m], [Idle EXCEPT !.pc = "draining", !.matrix = m])
    BY <1>5 DEF Unlink
  <2> DEFINE y == [Idle EXCEPT !.pc = "draining", !.matrix = m]
  <2>2. store.byMatrixId[m] \in store.rooms
    BY <1>0, <2>1 DEF Consistent, SoundIn
  <2>3. y \in Requests /\ y.pc = "draining" /\ y.matrix = m
    BY DEF Idle, Requests, Pcs
  <2> HIDE DEF y
  <2>4. QED
    BY <1>0, <1>1, <2>1, <2>2, <2>3, UnlinkSerial DEF y
<1>6. CASE OpenDm(h)
  <2>1. PICK m \in MatrixRoomIds, c \in DmChannelIds :
          /\ Accepts(h, IF m \in NewMatrixRooms THEN "invite" ELSE "reinvite")
          /\ \/ /\ store.byChannelId[c] # None
                /\ Commit(fields, store,
                          After(h, [Idle EXCEPT !.pc = "detaching", !.matrix = m,
                                                !.channel = c, !.room = store.byChannelId[c]]))
             \/ /\ store.byChannelId[c] = None \/ "reopen" \in Traffic
                /\ Commit(fields, store,
                          After(h, [Idle EXCEPT !.pc = "opening", !.matrix = m, !.channel = c]))
    BY <1>6 DEF OpenDm
  <2>2. m \in MatrixRoomIds /\ Unbridged(store, m)
    BY <2>1 DEF Accepts, Undisturbed, NewMatrixRooms, Unbridged
  <2>3. CASE /\ store.byChannelId[c] # None
             /\ Commit(fields, store,
                       After(h, [Idle EXCEPT !.pc = "detaching", !.matrix = m,
                                             !.channel = c, !.room = store.byChannelId[c]]))
    <3> DEFINE y == [Idle EXCEPT !.pc = "detaching", !.matrix = m,
                                 !.channel = c, !.room = store.byChannelId[c]]
    <3>1. /\ store.byChannelId[c] \in store.rooms /\ fields[store.byChannelId[c]].channel = c
          /\ store.byChannelId[c] \in BridgedRooms /\ fields[store.byChannelId[c]] \in Fields
      BY <1>0, <2>3, Allocated DEF ChannelSoundIn, SlackChannelIds
    <3>2. /\ y \in Requests /\ RequestOK(y) /\ y.pc = "detaching" /\ y.matrix = m /\ y.channel = c
          /\ y.room = store.byChannelId[c]
      BY <2>2, <3>1 DEF Idle, Requests, RequestOK, Pcs, SlackChannelIds
    <3>3. AskedIn(fields, store, y, roomRows)
      BY <2>2, <3>1, <3>2 DEF AskedIn, Pcs
    <3> HIDE DEF y
    <3>4. QED
      BY <1>0, <1>1, <2>1, <2>3, <3>1, <3>2, <3>3, OnlyRequestSerial DEF y
  <2>4. CASE /\ store.byChannelId[c] = None \/ "reopen" \in Traffic
             /\ Commit(fields, store,
                       After(h, [Idle EXCEPT !.pc = "opening", !.matrix = m, !.channel = c]))
    <3> DEFINE y == [Idle EXCEPT !.pc = "opening", !.matrix = m, !.channel = c]
    <3>1. Free(store, c)
      BY <2>4 DEF Free, Undisturbed
    <3>2. /\ y \in Requests /\ RequestOK(y) /\ y.pc = "opening" /\ y.matrix = m /\ y.channel = c
          /\ y.room = None
      BY <2>2 DEF Idle, Requests, RequestOK, Pcs, SlackChannelIds
    <3>3. AskedIn(fields, store, y, roomRows)
      BY <2>2, <3>1, <3>2 DEF AskedIn, Pcs
    <3> HIDE DEF y
    <3>4. QED
      BY <1>0, <1>1, <2>1, <2>4, <3>2, <3>3, OnlyRequestSerial DEF y
  <2>5. QED
    BY <2>1, <2>3, <2>4
<1>7. ASSUME NEW event, NEW channels \in SUBSET SlackChannelIds,
             NEW pc \in {"discovered", "discoveredPrivate"}, Discover(h, event, channels, pc),
             pc = "discovered" => channels = DmChannelIds
      PROVE  SerialInv'
  <2>1. PICK c \in channels :
            /\ Accepts(h, event) /\ store.byChannelId[c] = None
            /\ Commit(fields, store,
                      After(h, [Idle EXCEPT !.pc = pc, !.channel = c, !.queue = c]))
    BY <1>7 DEF Discover
  <2> DEFINE y == [Idle EXCEPT !.pc = pc, !.channel = c, !.queue = c]
  <2>2. /\ y \in Requests /\ RequestOK(y) /\ y.pc = pc /\ y.channel = c /\ y.room = None
    BY <1>7 DEF Idle, Requests, RequestOK, Pcs
  <2>3. AskedIn(fields, store, y, roomRows)
    BY <2>1, <2>2 DEF AskedIn, Pcs, Free
  <2> HIDE DEF y
  <2>4. QED
    BY <1>0, <1>1, <2>1, <2>2, <2>3, OnlyRequestSerial DEF y
<1>8. CASE DiscoverDm(h)
  BY <1>7, <1>8 DEF DiscoverDm, SlackChannelIds
<1>9. CASE DiscoverPrivate(h)
  BY <1>7, <1>9 DEF DiscoverPrivate, SlackChannelIds
<1>10. CASE Upgrade(h)
  BY <1>1, <1>10 DEF Upgrade
<1>11. CASE Rename(h)
  <2>1. PICK c \in SlackChannelIds :
            /\ Accepts(h, "rename") /\ store.byChannelId[c] # None
            /\ Save(h, store.byChannelId[c], fields, store)
    BY <1>11 DEF Rename
  <2>2. store.byChannelId[c] \in store.rooms
    BY <1>0, <2>1 DEF ChannelSoundIn
  <2>3. QED
    BY <1>0, <1>1, <2>1, <2>2, SaveSerial
<1>12. QED
  BY <1>2, <1>3, <1>4, <1>5, <1>6, <1>8, <1>9, <1>10, <1>11 DEF Arrives

\* createDM and conversations.open have answered for a DM that is not bridged.
LEMMA AddDmSerial ==
  ASSUME IInv, SerialInv, Undisturbed, NEW h, Handlers = {h},
         requests[h].pc \in {"opening", "discovered"}, NEW m \in MatrixRoomIds, Unbridged(store, m),
         AddDm(h, m), UNCHANGED <<roomRows, loading, reading, twice>>
  PROVE  SerialInv'
<1> DEFINE q == requests[h]
           g == BridgedRoom(m, q.channel, q.channel)
<1>1. PICK r \in Unused :
          Commit([fields EXCEPT ![r] = g], Upserted(store, r, g),
                 After(h, [q EXCEPT !.pc = "addingDm", !.matrix = m, !.room = r]))
  BY DEF AddDm
<1> DEFINE y == [q EXCEPT !.pc = "addingDm", !.matrix = m, !.room = r]
<1>2. /\ Consistent(fields, store, requests) /\ q \in Requests /\ RequestOK(q) /\ r \in BridgedRooms
      /\ SerialIn(fields, store, q, roomRows, loading)
  BY Allocated DEF IInv, SerialInv, Unused
<1>3. q.channel \in DmChannelIds /\ Free(store, q.channel)
  BY <1>2 DEF RequestOK, SerialIn, AskedIn
<1>4. q.channel # None /\ q.channel \in InboundIds /\ store.byChannelId[q.channel] = None
  BY <1>3, NoneAssumption DEF InboundIds, Free
<1>5. /\ g \in Fields /\ g.matrix = m /\ g.inbound = q.channel /\ g.channel = q.channel
  BY <1>3 DEF BridgedRoom, Fields, InboundIds, SlackChannelIds
<1>6. store.byInboundId[q.channel] = None
  <2> SUFFICES ASSUME store.byInboundId[q.channel] # None
               PROVE  FALSE
    OBVIOUS
  <2> DEFINE k == store.byInboundId[q.channel]
  <2>1. k \in store.rooms /\ fields[k].inbound = q.channel /\ k # None
    BY <1>2, <1>4, MapTypes
  <2>2. fields[k].channel = q.channel
    BY <1>2, <1>3, <2>1 DEF SerialIn, MapsIn
  <2>3. store.byChannelId[q.channel] = k
    BY <1>2, <1>4, <2>1, <2>2 DEF SerialIn, MapsIn
  <2>4. QED
    BY <1>4, <2>1, <2>3
<1>7. y \in Requests /\ RequestOK(y) /\ y.room = r /\ y.pc = "addingDm"
  BY <1>2 DEF Requests, RequestOK, Pcs
<1> HIDE DEF g, y
<1>8. /\ SerialIn([fields EXCEPT ![r] = g], Upserted(store, r, g), y, roomRows, loading)
      /\ Consistent([fields EXCEPT ![r] = g], Upserted(store, r, g), requests)
      /\ [fields EXCEPT ![r] = g][r] = g
  BY <1>3, <1>5, <1>6, <1>7, HandlerAdds DEF Undisturbed
<1>9. Consistent([fields EXCEPT ![r] = g], Upserted(store, r, g), [requests EXCEPT ![h] = y])
  BY <1>5, <1>7, <1>8, RequestStep
<1>10. [requests EXCEPT ![h] = y][h] = y
  BY <1>2 DEF Consistent
<1>11. Commit([fields EXCEPT ![r] = g], Upserted(store, r, g), [requests EXCEPT ![h] = y])
  BY <1>1 DEF After, y
<1>12. QED
  BY <1>8, <1>9, <1>10, <1>11, CommitSerial

LEMMA LinkSerial ==
  ASSUME IInv, SerialInv, Undisturbed, NEW h, Handlers = {h}, LinkNewRoom(h)
  PROVE  SerialInv'
<1> DEFINE q == requests[h]
<1>1. PICK r \in Unused, i \in genInboundId :
          LET f == BridgedRoom(q.matrix, i, q.channel) IN
          Commit([fields EXCEPT ![r] = f], Upserted(store, r, f),
                 After(h, [q EXCEPT !.pc = "adding", !.room = r]))
  BY DEF LinkNewRoom
<1> DEFINE g == BridgedRoom(q.matrix, i, q.channel)
           y == [q EXCEPT !.pc = "adding", !.room = r]
<1>2. /\ q.pc = "linking" /\ UNCHANGED <<roomRows, loading, reading, twice>>
      /\ Consistent(fields, store, requests) /\ q \in Requests /\ RequestOK(q) /\ r \in BridgedRooms
      /\ SerialIn(fields, store, q, roomRows, loading)
  BY Allocated DEF LinkNewRoom, At, IInv, SerialInv, Unused
<1>3. Unbridged(store, q.matrix) /\ Free(store, q.channel)
  BY <1>2 DEF SerialIn, AskedIn
<1>4. i \in InboundIds /\ i \notin DmChannelIds /\ store.byInboundId[i] = None
  BY IdsAssumption DEF genInboundId, InboundIds
<1>5. /\ g \in Fields /\ g.matrix = q.matrix /\ g.inbound = i /\ g.channel = q.channel /\ g.dirty
  BY <1>2, <1>4 DEF BridgedRoom, Fields, RequestOK, Requests
<1>6. y \in Requests /\ RequestOK(y) /\ y.room = r /\ y.pc = "adding"
  BY <1>2 DEF Requests, RequestOK, Pcs
<1>7. Commit([fields EXCEPT ![r] = g], Upserted(store, r, g), [requests EXCEPT ![h] = y])
  BY <1>1 DEF After
<1> HIDE DEF g, y
<1>8. /\ SerialIn([fields EXCEPT ![r] = g], Upserted(store, r, g), y, roomRows, loading)
      /\ Consistent([fields EXCEPT ![r] = g], Upserted(store, r, g), requests)
      /\ [fields EXCEPT ![r] = g][r] = g
  BY <1>2, <1>3, <1>4, <1>5, <1>6, HandlerAdds DEF Undisturbed
<1>9. Consistent([fields EXCEPT ![r] = g], Upserted(store, r, g), [requests EXCEPT ![h] = y])
  BY <1>5, <1>6, <1>8, RequestStep
<1>10. [requests EXCEPT ![h] = y][h] = y
  BY <1>2 DEF Consistent
<1>11. QED
  BY <1>2, <1>7, <1>8, <1>9, <1>10, CommitSerial

LEMMA PrivateSerial ==
  ASSUME IInv, SerialInv, Undisturbed, NEW h, Handlers = {h}, BridgePrivate(h)
  PROVE  SerialInv'
<1> DEFINE q == requests[h]
<1>1. PICK m \in NewMatrixRooms, r \in Unused, i \in genInboundId :
          LET f == BridgedRoom(m, i, q.channel) IN
          Save(h, r, [fields EXCEPT ![r] = f], Upserted(store, r, f))
  BY DEF BridgePrivate
<1> DEFINE g == BridgedRoom(m, i, q.channel)
           y == [q EXCEPT !.pc = "adding", !.room = r]
<1>2. /\ q.pc = "discoveredPrivate" /\ UNCHANGED <<roomRows, loading, reading, twice>>
      /\ Consistent(fields, store, requests) /\ q \in Requests /\ RequestOK(q) /\ r \in BridgedRooms
      /\ SerialIn(fields, store, q, roomRows, loading)
  BY Allocated DEF BridgePrivate, At, IInv, SerialInv, Unused
<1>3. m \in MatrixRoomIds /\ Unbridged(store, m) /\ Free(store, q.channel)
  BY <1>2 DEF SerialIn, AskedIn, NewMatrixRooms, Unbridged
<1>4. i \in InboundIds /\ i \notin DmChannelIds /\ store.byInboundId[i] = None
  BY IdsAssumption DEF genInboundId, InboundIds
<1>5. /\ g \in Fields /\ g.matrix = m /\ g.inbound = i /\ g.channel = q.channel /\ g.dirty
  BY <1>2, <1>3, <1>4 DEF BridgedRoom, Fields, Requests
<1>6. y.room = r /\ y.pc = "adding"
  BY <1>2 DEF Requests
<1>7. Save(h, r, [fields EXCEPT ![r] = g], Upserted(store, r, g))
  BY <1>1
<1> HIDE DEF g, y
<1>8. /\ SerialIn([fields EXCEPT ![r] = g], Upserted(store, r, g), y, roomRows, loading)
      /\ Consistent([fields EXCEPT ![r] = g], Upserted(store, r, g), requests)
      /\ r \in Upserted(store, r, g).rooms
  BY <1>2, <1>3, <1>4, <1>5, <1>6, HandlerAdds DEF Undisturbed
<1>9. \A j \in InboundIds : loading[j] = NoRow
  BY <1>2 DEF SerialIn, LoadIn
<1>10. QED
  BY <1>2, <1>6, <1>7, <1>8, <1>9, SaveSerial

\* The existing DM's room is unlinked: it is the one that its keys find.
LEMMA DetachSerial ==
  ASSUME IInv, SerialInv, NEW h, Handlers = {h}, DetachDm(h)
  PROVE  SerialInv'
<1> DEFINE q == requests[h]
           x == [q EXCEPT !.pc = "dmDraining"]
<1>1. /\ q.pc = "detaching" /\ UNCHANGED <<roomRows, loading, reading, twice>>
      /\ Consistent(fields, store, requests) /\ q \in Requests /\ RequestOK(q)
      /\ SerialIn(fields, store, q, roomRows, loading)
  BY Allocated DEF DetachDm, At, IInv, SerialInv
<1>2. /\ q.room \in store.rooms /\ fields[q.room].channel = q.channel /\ Unbridged(store, q.matrix)
      /\ q.matrix \in MatrixRoomIds /\ q.channel \in DmChannelIds
  BY <1>1 DEF SerialIn, AskedIn, RequestOK
<1>3. store.byMatrixId[fields[q.room].matrix] = q.room /\ q.room # None
  BY <1>1, <1>2, MapTypes DEF SerialIn, MapsIn
<1>4. Unlinking(h, q.room, x)
  BY <1>3 DEF DetachDm
<1>5. x \in Requests /\ x.pc = "dmDraining" /\ x.matrix = q.matrix /\ x.channel = q.channel
  BY <1>1 DEF Requests, Pcs
<1>6. \A j \in InboundIds : loading[j] = NoRow
  BY <1>1 DEF SerialIn, LoadIn
<1> HIDE DEF x
<1>7. QED
  BY <1>1, <1>2, <1>4, <1>5, <1>6, UnlinkSerial DEF Touching

\* The one handler runs on.
LEMMA ContinuesSerial ==
  ASSUME IInv, SerialInv, Undisturbed, NEW h, Handlers = {h}, Continues(h)
  PROVE  SerialInv'
<1> DEFINE q == requests[h]
<1>0. /\ Consistent(fields, store, requests) /\ q \in Requests /\ RequestOK(q)
      /\ SerialIn(fields, store, q, roomRows, loading)
      /\ AskedIn(fields, store, q, roomRows)
      /\ q.room # None => fields[q.room] \in Fields
  BY Allocated DEF IInv, SerialInv, SerialIn
<1>1. q.pc # "idle" => \A j \in InboundIds : loading[j] = NoRow
  BY <1>0 DEF SerialIn, LoadIn
<1>2. CASE LinkBridgedRoom(h)
  BY <1>0, <1>2 DEF AskedIn, LinkBridgedRoom, At
<1>3. CASE LinkSave(h)
  <2>1. /\ q.pc = "adding" /\ q.room \in store.rooms /\ fields[q.room].dirty
        /\ UNCHANGED <<roomRows, loading, reading, twice>>
    BY <1>0, <1>3 DEF LinkSave, At, AskedIn
  <2>2. Save(h, q.room, fields, store)
    BY <1>3, <2>1 DEF LinkSave
  <2>3. QED
    BY <1>0, <1>1, <2>1, <2>2, SaveSerial
<1>4. CASE SaveDm(h)
  <2>1. /\ q.pc = "addingDm" /\ q.room \in store.rooms
        /\ UNCHANGED <<roomRows, loading, reading, twice>> /\ Save(h, q.room, fields, store)
    BY <1>0, <1>4 DEF SaveDm, At, AskedIn
  <2>2. QED
    BY <1>0, <1>1, <2>1, SaveSerial
<1>5. CASE Drain(h)
  <2> DEFINE y == [q EXCEPT !.pc = IF @ = "draining" THEN "deleting" ELSE "dmDeleting"]
  <2>1. /\ q.pc \in {"draining", "dmDraining"} /\ UNCHANGED <<roomRows, loading, reading, twice>>
        /\ Commit(fields, store, After(h, y))
    BY <1>5 DEF Drain
  <2>2. /\ y.matrix = q.matrix /\ y.channel = q.channel /\ y.inbound = q.inbound /\ y.room = q.room
        /\ y.pc = IF q.pc = "draining" THEN "deleting" ELSE "dmDeleting"
        /\ y \in Requests
    BY <1>0 DEF Requests, Pcs
  <2> HIDE DEF y
  <2>3. RequestOK(y)
    BY <1>0, <2>1, <2>2 DEF RequestOK
  <2>4. AskedIn(fields, store, y, roomRows)
    BY <1>0, <2>1, <2>2 DEF AskedIn, Pcs
  <2>5. QED
    BY <1>0, <1>1, <2>1, <2>2, <2>3, <2>4, OnlyRequestSerial
<1>6. CASE DeleteRow(h)
  <2>1. q.pc = "deleting" /\ loading' = loading /\ Commit(fields, store, After(h, Idle))
        /\ roomRows' = [roomRows EXCEPT ![q.inbound] = NoRow]
    BY <1>6 DEF DeleteRow, At, Done
  <2>2. Idle.pc = "idle"
    BY DEF Idle
  <2>3. QED
    BY <2>1, <2>2, IdleOK, DeleteSerial
<1>7. CASE DeleteDmRow(h)
  <2> DEFINE y == [q EXCEPT !.pc = "opening", !.inbound = None, !.room = None]
  <2>1. q.pc = "dmDeleting" /\ loading' = loading /\ Commit(fields, store, After(h, y))
        /\ roomRows' = [roomRows EXCEPT ![q.inbound] = NoRow]
    BY <1>7 DEF DeleteDmRow, At
  <2>2. /\ y.matrix = q.matrix /\ y.channel = q.channel /\ y.room = None /\ y.pc = "opening"
        /\ y \in Requests
    BY <1>0 DEF Requests, Pcs
  <2> HIDE DEF y
  <2>3. RequestOK(y)
    BY <1>0, <2>1, <2>2 DEF RequestOK
  <2>4. QED
    BY <2>1, <2>2, <2>3, DeleteSerial
<1>8. CASE BridgeOpenedDm(h)
  <2>1. /\ q.pc = "opening" /\ AddDm(h, q.matrix) /\ UNCHANGED <<roomRows, loading, reading, twice>>
    BY <1>8 DEF BridgeOpenedDm, At
  <2>2. q.matrix \in MatrixRoomIds /\ Unbridged(store, q.matrix)
    BY <1>0, <2>1 DEF RequestOK, AskedIn
  <2>3. QED
    BY <2>1, <2>2, AddDmSerial
<1>9. CASE BridgeDiscoveredDm(h)
  <2>1. PICK m \in NewMatrixRooms : AddDm(h, m)
    BY <1>9 DEF BridgeDiscoveredDm
  <2>2. q.pc = "discovered" /\ UNCHANGED <<roomRows, loading, reading, twice>>
    BY <1>9 DEF BridgeDiscoveredDm, At
  <2>3. m \in MatrixRoomIds /\ Unbridged(store, m)
    BY DEF NewMatrixRooms, Unbridged
  <2>4. QED
    BY <2>1, <2>2, <2>3, AddDmSerial
<1>10. CASE Migrate(h)
  BY <1>0, <1>10 DEF AskedIn, Migrate, At
<1>11. QED
  BY <1>2, <1>3, <1>4, <1>5, <1>6, <1>7, <1>8, <1>9, <1>10,
     LinkSerial, StoreSerial, DetachSerial, PrivateSerial DEF Continues

LEMMA SerialStarts == ASSUME OneAtATime, Init PROVE StartInv /\ reading
<1>1. PICK h : Handlers = {h}
  BY DEF OneAtATime
<1>2. store = EmptyStore /\ requests[h] = Idle /\ \A i \in InboundIds : roomRows[i] = NoRow /\ loading[i] = NoRow
  BY <1>1 DEF Init
<1>3. MapsIn(fields, store) /\ TableIn(fields, store, roomRows)
  BY <1>2 DEF MapsIn, TableIn, EmptyStore, InboundIds
<1>4. LoadIn(store, Idle, roomRows, roomRows) /\ AskedIn(fields, store, Idle, roomRows)
  BY <1>2 DEF LoadIn, AskedIn, Idle, Pcs
<1>5. SettledIn(fields, store, Idle, roomRows, roomRows)
  BY <1>2 DEF SettledIn, EmptyStore
<1>6. QED
  BY <1>1, <1>2, <1>3, <1>4, <1>5 DEF StartInv, SerialIn, At, Idle, Init

\* Before the table is read only start-up itself takes a step.
LEMMA StartStep ==
  ASSUME OneAtATime, Undisturbed, IInv, StartInv, reading, [Next]_vars
  PROVE  IF reading' THEN StartInv' ELSE SerialInv'
<1>1. PICK h : Handlers = {h}
  BY DEF OneAtATime
<1>2. "starting" \notin Traffic /\ "metrics" \notin Traffic
  BY DEF Undisturbed
<1>3. At(h, "idle") /\ \A i \in InboundIds : loading[i] = NoRow
  BY <1>1 DEF StartInv
<1>4. ~Arrives(h)
  BY <1>2 DEF Arrives, Link, LinkWebhook, ChangeWebhook, Unlink, OpenDm,
              DiscoverDm, DiscoverPrivate, Discover, Upgrade, Rename, Accepts
<1>5. ~Continues(h) /\ ~Fails(h)
  BY <1>3 DEF Continues, LinkNewRoom, LinkBridgedRoom, LinkSave, StoreRow, Drain,
              DeleteRow, DetachDm, DeleteDmRow, BridgeOpenedDm, SaveDm,
              BridgeDiscoveredDm, BridgePrivate, Migrate, Fails, CallFails,
              RtmFails, SaveFails, DrainFails, At
<1>6. CASE Restart
  <2>1. SerialIn(fields, store, requests[h], roomRows, roomRows)
    BY <1>1 DEF StartInv
  <2>2. reading'
    BY <1>6 DEF Restart
  <2>3. QED
    BY <1>1, <1>6, <2>1, <2>2, RestartSerial
<1>7. CASE ReadRooms
  BY <1>7 DEF ReadRooms, StartInv, SerialInv
<1>8. CASE UNCHANGED vars
  BY <1>8 DEF vars, StartInv, At
<1>9. CASE Next
  BY <1>1, <1>2, <1>3, <1>4, <1>5, <1>6, <1>7, <1>9
     DEF Next, RecordActivity, LoadRoom, LoadFails
<1>10. QED
  BY <1>8, <1>9

LEMMA SerialStep ==
  ASSUME OneAtATime, Undisturbed, IInv, SerialInv, ~reading, [Next]_vars
  PROVE  IF reading' THEN StartInv' ELSE SerialInv'
<1>1. PICK h : Handlers = {h}
  BY DEF OneAtATime
<1>2. ASSUME Fails(h) PROVE SerialInv'
  <2>1. CallFails(h)
    BY <1>2 DEF Fails, RtmFails, SaveFails, DrainFails, Undisturbed
  <2>2. requests[h].pc \notin Touching /\ Commit(fields, store, Done(h))
        /\ UNCHANGED <<roomRows, loading, reading, twice>>
    BY <2>1 DEF CallFails, Touching
  <2>3. QED
    BY <1>1, <2>2, IdleSerial
<1>3. CASE UNCHANGED vars
  BY <1>3 DEF vars, SerialInv
<1>6. ASSUME Arrives(h) \/ Continues(h) \/ Fails(h) \/ \E i \in InboundIds : LoadRoom(i)
      PROVE  reading' = reading
  BY <1>6 DEF Arrives, Link, LinkWebhook, ChangeWebhook, Unlink, OpenDm,
              DiscoverDm, DiscoverPrivate, Discover, Upgrade, Rename,
              Continues, LinkNewRoom, LinkBridgedRoom, LinkSave, StoreRow, Drain,
              DeleteRow, DetachDm, DeleteDmRow, BridgeOpenedDm, SaveDm,
              BridgeDiscoveredDm, BridgePrivate, Migrate, Fails, CallFails,
              RtmFails, SaveFails, DrainFails, LoadRoom
<1>4. CASE Next
  <2>1. CASE \E g \in Handlers : Arrives(g) \/ Continues(g) \/ Fails(g)
    BY <1>1, <1>2, <1>6, <2>1, ArrivesSerial, ContinuesSerial
  <2>2. CASE \E r \in BridgedRooms : RecordActivity(r)
    BY <2>2 DEF RecordActivity, Undisturbed
  <2>3. CASE \E i \in InboundIds : LoadRoom(i) \/ LoadFails(i)
    BY <1>1, <1>6, <2>3, LoadSerial DEF LoadFails, Undisturbed
  <2>4. CASE Restart
    <3>1. SerialIn(fields, store, requests[h], roomRows, loading) /\ reading'
      BY <1>1, <2>4 DEF SerialInv, Restart
    <3>2. QED
      BY <1>1, <2>4, <3>1, RestartSerial
  <2>5. CASE ReadRooms
    BY <2>5 DEF ReadRooms
  <2>6. QED
    BY <1>4, <2>1, <2>2, <2>3, <2>4, <2>5 DEF Next
<1>5. QED
  BY <1>3, <1>4 DEF vars

LEMMA SerialAlways ==
  ASSUME OneAtATime, Undisturbed
  PROVE  Spec => [](IInv /\ IF reading THEN StartInv ELSE SerialInv)
<1> DEFINE Inv == IInv /\ IF reading THEN StartInv ELSE SerialInv
<1>1. Init => Inv
  BY InitConsistent, SerialStarts
<1>2. Inv /\ [Next]_vars => Inv'
  BY NextInductive, StartStep, SerialStep
<1>3. QED
  BY <1>1, <1>2, PTL DEF Spec

\* Where requests do not overlap, wait for start-up, and clean-up succeeds, and
\* nobody sends a direct invite in a room that the bridge knows: however rooms
\* are linked (actionLink), unlinked, invited (handleDmInvite), discovered,
\* renamed and loaded again: a bridged room is the only one of its Matrix room and of
\* its channel, and the maps find it by all its keys.
THEOREM OneRoomAChannel ==
  ASSUME OneAtATime, Undisturbed
  PROVE  Spec => []OneToOne
<1>1. (IInv /\ IF reading THEN StartInv ELSE SerialInv) => OneToOne
  BY DEF StartInv, SerialInv, SerialIn, MapsIn, OneToOne, OneAtATime
<1>2. QED
  BY <1>1, SerialAlways, PTL

\* Under the same hypotheses, when nothing is in flight the table rooms holds
\* the rooms of memory and no others, each with its Matrix room and channel: a
\* restart of Main changes nothing, brings no unlinked room back and loses none.
THEOREM RestartsChangeNothing ==
  ASSUME OneAtATime, Undisturbed
  PROVE  Spec => []RestartInvisible
<1>1. (IInv /\ IF reading THEN StartInv ELSE SerialInv) => RestartInvisible
  BY DEF SerialInv, SerialIn, SettledIn, Touches, Row, RestartInvisible, Quiet, At, OneAtATime
<1>2. QED
  BY <1>1, SerialAlways, PTL

=============================================================================
