------------------------ MODULE BridgeProcessProofs ------------------------
(***************************************************************************)
(* What holds of the process for every installation, any number of crashes *)
(* and imports, any senders and any commands: the schema is whole, what an *)
(* upgrade or an import moves is kept, and the commands of a sender are    *)
(* run in order and answered truly.                                        *)
(*                                                                         *)
(* First what the database keeps, wherever the process dies: DatabaseInv,  *)
(* that every step of Database keeps it, and that it implies               *)
(* DatabaseTypeOK, SchemaWhole, UpgradeKept and Imported. SchemaWhole does *)
(* not say where ensureSchema is. SchemaInv adds that the query to run     *)
(* next is one of the version after the recorded one, that the queries of  *)
(* it before that one have run, and, when the version is to be recorded,   *)
(* all of them. UpgradeInv adds what has run ahead of a torn version, so   *)
(* that a query that moves rows is run twice only there, and that a notice *)
(* not yet sent is still held. ImportInv says of every row of NeDB what    *)
(* the migrations that have passed it left of it.                          *)
(*                                                                         *)
(* Then what the queue of commands keeps: QueueInv. A command that is      *)
(* answered before its turn is over was told of another one's failure      *)
(* (AnsweredOK); that error came down the queue over commands that all     *)
(* wait for something (HeardOf).                                           *)
(***************************************************************************)
EXTENDS BridgeProcess, FiniteSetTheorems, SequenceTheorems, TLAPS
-----------------------------------------------------------------------------
(* The database: Database *)

SchemaInv ==
    /\ version \in 0..LATEST_SCHEMA
    /\ SchemaWhole
    /\ phase \in {"upgrading", "recording"} =>
         /\ version < LATEST_SCHEMA
         /\ at[1] = version + 1 /\ at \in Statements(version + 1)
         /\ \A i \in 1..(at[2] - 1) : <<at[1], i>> \in ran
    /\ phase = "recording" => Statements(version + 1) \subseteq ran

\* The accounts are copied by the second query of version 6.
LinkedOK == <<6, 2>> \in ran => installed.accounts \subseteq linked

\* A query of the version to come has run already only where a process died.
TornOK ==
    version < LATEST_SCHEMA =>
      /\ phase \notin {"upgrading", "recording"} /\ Statements(version + 1) \cap ran # {}
           => version + 1 \in torn
      /\ phase = "upgrading" =>
           \A i \in at[2]..Queries[version + 1] :
               <<version + 1, i>> \in ran => version + 1 \in torn

ShiftedOK == 11 \notin torn => shifted = IF <<11, 1>> \in ran THEN 1 ELSE 0

\* Who has lost puppets is told or is in a notice that is still to be sent.
Noticed(u) == u \in told \/ \E i \in 1..Len(toTell) : toTell[i] = u

ToldOK ==
    /\ phase \notin {"upgrading", "recording", "telling"} => toTell = <<>>
    /\ ~untold => \A u \in installed.doubles \ doubles : Noticed(u)

\* The rows of the migration that runs are of its kind.
PendingOK ==
    \A row \in pending :
        IF stage = 2 THEN row.kind = "room" /\ row.token # None ELSE row.kind = Stages[stage]

\* The migration of stage k is done with a row.
Passed(k, row) ==
    stage > k \/ (phase = "importing" /\ stage = k /\ row \notin pending /\ ~aborted)

EventOK(row) == row.kind = "event" /\ Passed(1, row) => row \in pgRows

TokenOK(row) ==
    ~installed.flaky /\ row.kind = "room" /\ row.token # None /\ Passed(2, row)
      => tokenMap[row.token] = TeamOfToken[row.token]

RoomOK(row) ==
    row.kind = "room" =>
      /\ Passed(4, row) => pgRooms[row.id] # "absent"
      /\ ~installed.flaky /\ row.token # None /\ row.key = "slack_bot_token"
           => pgRooms[row.id] \in {"absent", TeamOfToken[row.token]}

GhostOK(row) ==
    row.kind = "ghost" /\ Passed(5, row) =>
        row \in pgRows \/ (~row.known /\ pgTeams[row.team] = None)

ImportInv ==
    /\ OwnIds(installed.nedb)
    /\ \A t \in Tokens : tokenMap[t] \in {None, TeamOfToken[t]}
    /\ phase # "importing" => NotImporting
    /\ PendingOK
    /\ \A row \in installed.nedb :
           EventOK(row) /\ TokenOK(row) /\ RoomOK(row) /\ GhostOK(row)

UpgradeInv == LinkedOK /\ TornOK /\ ShiftedOK /\ ToldOK

DatabaseInv == DatabaseTypeOK /\ SchemaInv /\ UpgradeInv /\ ImportInv

-----------------------------------------------------------------------------
LEMMA QueriesType ==
  /\ LATEST_SCHEMA = 16 /\ Versions = 1..16
  /\ \A v \in Versions : Queries[v] \in Nat /\ Queries[v] >= 1
  BY DEF LATEST_SCHEMA, Versions, Queries

\* The queries up to a version are those up to the one before it and its own.
LEMMA UptoNext ==
  /\ Upto(0) = {}
  /\ \A v \in 0..15 : Upto(v + 1) = Upto(v) \cup Statements(v + 1)
  /\ \A v \in 0..16, w \in 0..16 : v <= w => Upto(v) \subseteq Upto(w)
<1>1. Upto(0) = {}
  BY DEF Upto
<1>2. \A v \in 0..15 : Upto(v + 1) = Upto(v) \cup Statements(v + 1)
  <2> SUFFICES ASSUME NEW v \in 0..15 PROVE Upto(v + 1) = Upto(v) \cup Statements(v + 1)
    OBVIOUS
  <2>1. 1..(v + 1) = (1..v) \cup {v + 1}
    OBVIOUS
  <2> QED
    BY <2>1 DEF Upto
<1>3. \A v \in 0..16, w \in 0..16 : v <= w => Upto(v) \subseteq Upto(w)
  <2> SUFFICES ASSUME NEW v \in 0..16, NEW w \in 0..16, v <= w PROVE Upto(v) \subseteq Upto(w)
    OBVIOUS
  <2>1. 1..v \subseteq 1..w
    OBVIOUS
  <2> QED
    BY <2>1 DEF Upto
<1> QED
  BY <1>1, <1>2, <1>3

\* What has run may be up to date with a version that is not yet recorded.
LEMMA SchemaStarts ==
  ASSUME NEW installations, installations \subseteq Installations,
         DatabaseInit(installations)
  PROVE  SchemaInv
<1>1. version \in 0..16 /\ ran = Upto(version) /\ phase = "off"
  BY DEF DatabaseInit, Installations, LATEST_SCHEMA
<1> QED
  BY <1>1, UptoNext DEF SchemaInv, SchemaWhole, LATEST_SCHEMA

\* A process with the schema it wants, however it goes on.
LEMMA WithSchema ==
  ASSUME SchemaInv, version' = LATEST_SCHEMA, Upto(LATEST_SCHEMA) \subseteq ran',
         ran' \subseteq Upto(LATEST_SCHEMA), phase' \in {"telling", "importing"}
  PROVE  SchemaInv'
  BY DEF SchemaInv, SchemaWhole, LATEST_SCHEMA

\* A step that leaves the schema alone, and no query pending.
LEMMA SchemaAlone ==
  ASSUME SchemaInv, UNCHANGED <<version, ran>>,
         \/ phase' \in {"off", "reading"}
         \/ phase' = phase /\ UNCHANGED at
         \/ phase' = "up" /\ phase = "telling"
  PROVE  SchemaInv'
  BY DEF SchemaInv, SchemaWhole

LEMMA ReadKeeps ==
  ASSUME SchemaInv, GetSchemaVersion
  PROVE  SchemaInv'
<1>1. UNCHANGED <<ran, version>> /\ phase = "reading"
  BY DEF GetSchemaVersion, tables
<1>2. CASE version < LATEST_SCHEMA /\ phase' = "upgrading" /\ at' = <<version + 1, 1>>
  <2>1. at' \in Statements(version + 1)
    BY <1>2, QueriesType DEF SchemaInv, Statements
  <2> QED
    BY <1>1, <1>2, <2>1 DEF SchemaInv, SchemaWhole, LATEST_SCHEMA
<1>3. CASE version = LATEST_SCHEMA /\ HasSchema
  <2>1. phase' \in {"telling", "importing"}
    BY <1>3 DEF HasSchema
  <2> QED
    BY <1>1, <1>3, <2>1, WithSchema DEF SchemaInv, SchemaWhole, LATEST_SCHEMA
<1>4. CASE phase' = "off"
  BY <1>1, <1>4, SchemaAlone
<1> QED
  BY <1>2, <1>3, <1>4 DEF GetSchemaVersion

LEMMA RunSchemaKeeps ==
  ASSUME SchemaInv, RunSchema
  PROVE  SchemaInv'
<1>1. /\ phase = "upgrading" /\ version' = version /\ version \in 0..15
      /\ at[1] = version + 1 /\ at \in Statements(version + 1)
      /\ \A i \in 1..(at[2] - 1) : <<at[1], i>> \in ran
      /\ Upto(version) \subseteq ran /\ ran \subseteq Upto(version + 1)
  BY DEF RunSchema, SchemaInv, SchemaWhole, LATEST_SCHEMA
<1>2. at = <<version + 1, at[2]>> /\ at[2] \in 1..Queries[version + 1]
      /\ Queries[version + 1] \in Nat
  BY <1>1, QueriesType DEF Statements
<1>3. CASE phase' = "off" /\ ran' = ran
  BY <1>1, <1>3, SchemaAlone
<1>4. CASE /\ ran' = ran \cup {at}
           /\ IF at[2] < Queries[at[1]]
              THEN at' = <<at[1], at[2] + 1>> /\ UNCHANGED phase
              ELSE phase' = "recording" /\ UNCHANGED at
  <2>1. Upto(version) \subseteq ran' /\ ran' \subseteq Upto(version + 1)
    BY <1>1, <1>4, UptoNext
  <2>2. SchemaWhole'
    BY <1>1, <1>4, <2>1 DEF SchemaWhole, LATEST_SCHEMA
  <2>3. \A i \in 1..at[2] : <<version + 1, i>> \in ran'
    BY <1>1, <1>2, <1>4
  <2>4. CASE at[2] < Queries[at[1]]
    <3>1. at' = <<version + 1, at[2] + 1>> /\ phase' = "upgrading"
      BY <1>1, <1>4, <2>4
    <3>2. at' \in Statements(version + 1)
      BY <1>1, <1>2, <2>4, <3>1 DEF Statements
    <3>3. \A i \in 1..(at'[2] - 1) : <<at'[1], i>> \in ran'
      BY <1>2, <2>3, <3>1
    <3> QED
      BY <1>1, <2>2, <3>1, <3>2, <3>3 DEF SchemaInv, LATEST_SCHEMA
  <2>5. CASE ~(at[2] < Queries[at[1]])
    <3>1. at' = at /\ phase' = "recording" /\ at[2] = Queries[version + 1]
      BY <1>1, <1>2, <1>4, <2>5
    <3>2. Statements(version + 1) \subseteq ran'
      BY <2>3, <3>1 DEF Statements
    <3> QED
      BY <1>1, <1>2, <2>2, <2>3, <3>1, <3>2 DEF SchemaInv, LATEST_SCHEMA
  <2> QED
    BY <2>4, <2>5
<1> QED
  BY <1>3, <1>4 DEF RunSchema

LEMMA RecordKeeps ==
  ASSUME SchemaInv, UpdateSchemaVersion
  PROVE  SchemaInv'
<1>1. /\ phase = "recording" /\ ran' = ran /\ version \in 0..15
      /\ at[1] = version + 1 /\ Statements(version + 1) \subseteq ran
      /\ Upto(version) \subseteq ran /\ ran \subseteq Upto(version + 1)
  BY DEF UpdateSchemaVersion, SchemaInv, SchemaWhole, LATEST_SCHEMA
<1>2. version' = version + 1 /\ ran' = Upto(version + 1)
  BY <1>1, UptoNext DEF UpdateSchemaVersion, Recorded
<1>3. CASE version' < LATEST_SCHEMA
  <2>1. phase' = "upgrading" /\ at' = <<version' + 1, 1>>
    BY <1>3 DEF UpdateSchemaVersion
  <2>2. at' \in Statements(version' + 1)
    BY <1>1, <1>2, <1>3, <2>1, QueriesType DEF Statements
  <2>3. ran' \subseteq Upto(version' + 1)
    BY <1>1, <1>2, <1>3, UptoNext DEF LATEST_SCHEMA
  <2> QED
    BY <1>1, <1>2, <1>3, <2>1, <2>2, <2>3 DEF SchemaInv, SchemaWhole, LATEST_SCHEMA
<1>4. CASE ~(version' < LATEST_SCHEMA)
  <2>1. HasSchema /\ version' = LATEST_SCHEMA
    BY <1>1, <1>2, <1>4 DEF UpdateSchemaVersion, LATEST_SCHEMA
  <2>2. phase' \in {"telling", "importing"}
    BY <2>1 DEF HasSchema
  <2> QED
    BY <1>2, <2>1, <2>2, WithSchema
<1> QED
  BY <1>3, <1>4

LEMMA SchemaStep ==
  ASSUME SchemaInv, DatabaseStep \/ Die \/ UNCHANGED dbVars
  PROVE  SchemaInv'
<1>1. CASE StartProcess
  BY <1>1, SchemaAlone DEF StartProcess, tables
<1>2. CASE GetSchemaVersion
  BY <1>2, ReadKeeps
<1>3. CASE RunSchema
  BY <1>3, RunSchemaKeeps
<1>4. CASE UpdateSchemaVersion
  BY <1>4, RecordKeeps
<1>5. CASE TellUsers
  BY <1>5, SchemaAlone DEF TellUsers, tables
<1>6. CASE MigrateOne
  BY <1>6, SchemaAlone DEF MigrateOne
<1>7. CASE NextStage
  BY <1>7, SchemaAlone DEF NextStage, tables
<1>8. CASE Die
  BY <1>8, SchemaAlone DEF Die, tables
<1>9. CASE UNCHANGED dbVars
  BY <1>9, SchemaAlone DEF dbVars, tables
<1> QED
  BY <1>1, <1>2, <1>3, <1>4, <1>5, <1>6, <1>7, <1>8, <1>9 DEF DatabaseStep
-----------------------------------------------------------------------------
(* Types *)

LEMMA OldRowFields ==
  ASSUME NEW row \in OldRows
  PROVE  /\ row.id \in OldItems
         /\ row.kind \in {"preTeam", "team"} => row.token \in Tokens
         /\ row.kind = "room" => row.token \in Tokens \cup {None}
         /\ row.kind = "ghost" => row.team \in SlackTeams
  BY DEF OldRows, OldEvents, OldRooms, OldTeams, OldUsers

LEMMA QueriesAt ==
  /\ \A v \in 1..16 : \A i \in 1..Queries[v] : <<v, i>> \in Upto(16)
  /\ \A q \in Upto(16) : /\ q[1] \in 1..16 /\ q[2] \in 1..Queries[q[1]]
                         /\ q = <<q[1], q[2]>>
  BY DEF Upto, Statements

LEMMA InstalledType ==
  ASSUME DatabaseTypeOK
  PROVE  /\ installed.nedb \subseteq OldRows /\ installed.doubles \subseteq MatrixUsers
         /\ installed.accounts \subseteq MatrixUsers
         /\ installed.deaths \in Nat
  BY DEF DatabaseTypeOK, Installations

LEMMA DatabaseStarts ==
  ASSUME NEW installations, installations \subseteq Installations,
         \A found \in installations : OwnIds(found.nedb),
         DatabaseInit(installations)
  PROVE  DatabaseInv
<1>1. SchemaInv
  BY SchemaStarts
<1>2. installed \in Installations /\ version \in 0..16 /\ ran = Upto(version)
  BY DEF DatabaseInit, Installations, LATEST_SCHEMA
<1>3. <<1, 1>> \in Upto(16) /\ Upto(version) \subseteq Upto(16)
  BY <1>2, UptoNext, QueriesAt, QueriesType
<1>4. \A v \in 1..16 : \A i \in 1..Queries[v] : <<v, i>> \in ran <=> v <= version
  BY <1>2 DEF Upto, Statements
<1>5. DatabaseTypeOK
  <2>1. installed.deaths \in Nat /\ 0 \in 0..installed.deaths
    BY <1>2 DEF Installations
  <2>2. installed.accounts \subseteq MatrixUsers /\ installed.doubles \subseteq MatrixUsers
    BY <1>2 DEF Installations
  <2>3. phase \in Phases /\ stage \in 1..Len(Stages)
    BY DEF DatabaseInit, NotImporting, Phases, Stages
  <2>4. tokenMap \in [Tokens -> SlackTeams \cup {None}] /\ pgTeams \in [SlackTeams -> Tokens \cup {None}]
        /\ pgRooms \in [OldItems -> SlackTeams \cup {None, "absent"}]
    BY DEF DatabaseInit, NotImporting
  <2> QED
    <3>1. /\ ran \subseteq Upto(LATEST_SCHEMA) /\ version \in 0..LATEST_SCHEMA /\ shifted \in Nat
          /\ linked \subseteq MatrixUsers /\ doubles \subseteq MatrixUsers
          /\ at \in Upto(LATEST_SCHEMA)
      BY <1>2, <1>3, <2>2 DEF DatabaseInit, LATEST_SCHEMA
    <3>2. /\ pgRows \subseteq installed.nedb /\ told \subseteq MatrixUsers /\ toTell \in Seq(MatrixUsers)
          /\ pending \subseteq installed.nedb /\ aborted \in BOOLEAN
          /\ torn \subseteq Versions /\ untold \in BOOLEAN
      <4>1. pgRows = {} /\ told = {} /\ toTell = <<>> /\ pending = {} /\ aborted = FALSE
            /\ torn = {} /\ untold = FALSE
        BY DEF DatabaseInit, NotImporting
      <4>2. pgRows \subseteq installed.nedb /\ told \subseteq MatrixUsers /\ pending \subseteq installed.nedb
            /\ torn \subseteq Versions
        BY <4>1
      <4>3. toTell \in Seq(MatrixUsers)
        BY <4>1
      <4> QED
        BY <4>1, <4>2, <4>3
    <3>3. deaths \in 0..installed.deaths /\ imports \in 0..MaxImports
      BY <2>1, DatabaseAssumption DEF DatabaseInit, DatabaseAssumption
    <3> QED
      BY <1>2, <2>3, <2>4, <3>1, <3>2, <3>3 DEF DatabaseTypeOK
<1>6. UpgradeInv
  <2>1. (<<6, 2>> \in ran <=> 6 <= version) /\ (<<11, 1>> \in ran <=> 11 <= version)
    <3>1. Queries[6] = 2 /\ Queries[11] = 1
      BY DEF Queries, Versions, LATEST_SCHEMA
    <3> QED
      BY <1>4, <3>1
  <2>2. LinkedOK /\ ShiftedOK
    BY <1>2, <2>1 DEF DatabaseInit, LinkedOK, ShiftedOK
  <2>3. TornOK
    <3> SUFFICES ASSUME version < 16 PROVE Statements(version + 1) \cap ran = {}
      BY DEF TornOK, DatabaseInit, LATEST_SCHEMA
    <3> QED
      BY <1>2, <1>4 DEF Statements
  <2>4. ToldOK
    BY DEF DatabaseInit, ToldOK
  <2> QED
    BY <2>2, <2>3, <2>4 DEF UpgradeInv
<1>7. ImportInv
  <2>1. OwnIds(installed.nedb)
    BY DEF DatabaseInit
  <2>2. \A t \in Tokens : tokenMap[t] = None
    BY DEF DatabaseInit, NotImporting
  <2>3. NotImporting /\ phase = "off" /\ stage = 1
    BY DEF DatabaseInit, NotImporting
  <2>4. \A row \in installed.nedb : ~Passed(1, row) /\ ~Passed(2, row) /\ ~Passed(4, row) /\ ~Passed(5, row)
    BY <2>3 DEF Passed
  <2>5. \A row \in installed.nedb : row.kind = "room" => pgRooms[row.id] = "absent"
    BY <1>2, <1>5, InstalledType, OldRowFields DEF DatabaseInit
  <2>6. \A row \in installed.nedb : EventOK(row) /\ TokenOK(row) /\ RoomOK(row) /\ GhostOK(row)
    BY <2>4, <2>5 DEF EventOK, TokenOK, RoomOK, GhostOK
  <2>7. PendingOK
    BY <2>3 DEF NotImporting, PendingOK
  <2> QED
    BY <2>1, <2>2, <2>3, <2>6, <2>7 DEF ImportInv
<1> QED
  BY <1>1, <1>5, <1>6, <1>7 DEF DatabaseInv

LEMMA NotImportingType ==
  ASSUME NotImporting'
  PROVE  /\ stage' \in 1..Len(Stages) /\ aborted' \in BOOLEAN /\ pending' = {}
         /\ tokenMap' \in [Tokens -> SlackTeams \cup {None}]
<1>1. 1 \in 1..Len(Stages)
  BY DEF Stages
<1>2. /\ stage' = 1 /\ pending' = {} /\ aborted' = FALSE
      /\ tokenMap' = [t \in Tokens |-> None]
  BY DEF NotImporting
<1> QED
  BY <1>1, <1>2

LEMMA HasSchemaType ==
  ASSUME DatabaseTypeOK, HasSchema, UNCHANGED installed
  PROVE  /\ phase' \in Phases /\ imports' \in 0..MaxImports
         /\ pending' \subseteq installed.nedb
         /\ toTell' \in Seq(MatrixUsers) /\ untold' \in BOOLEAN
<1>1. CASE phase' = "telling" /\ UNCHANGED <<imports, pending, toTell, untold>>
  BY <1>1 DEF DatabaseTypeOK, Phases
<1>2. CASE /\ imports < MaxImports /\ phase' = "importing" /\ imports' = imports + 1
           /\ pending' = {row \in installed.nedb : row.kind = "event"}
           /\ toTell' = <<>> /\ untold' = (untold \/ toTell # <<>>)
  <2>1. phase' \in Phases /\ pending' \subseteq installed.nedb /\ toTell' \in Seq(MatrixUsers)
        /\ untold' \in BOOLEAN
    BY <1>2 DEF Phases
  <2>2. imports' \in 0..MaxImports
    BY <1>2, DatabaseAssumption DEF DatabaseTypeOK, DatabaseAssumption
  <2> QED
    BY <2>1, <2>2
<1> QED
  BY <1>1, <1>2 DEF HasSchema

\* The queries of a version, run or recorded.
LEMMA AtMoves ==
  ASSUME DatabaseTypeOK
  PROVE  /\ at[1] \in 1..16
         /\ at[2] < Queries[at[1]] => <<at[1], at[2] + 1>> \in Upto(16)
         /\ \A v \in 0..15 : <<v + 1, 1>> \in Upto(16)
<1>1. at \in Upto(16)
  BY DEF DatabaseTypeOK, LATEST_SCHEMA
<1>2. at[1] \in 1..16 /\ at[2] \in 1..Queries[at[1]]
  BY <1>1, QueriesAt
<1>3. at[2] < Queries[at[1]] => at[2] + 1 \in 1..Queries[at[1]]
  BY <1>2, QueriesType
<1> QED
  BY <1>2, <1>3, QueriesAt, QueriesType

\* Notices for everyone who has two puppets in a team.
LEMMA NoticesType ==
  ASSUME DatabaseTypeOK
  PROVE  Cardinality(doubles) \in Nat
  BY DatabaseAssumption, FS_Subset, FS_CardinalityType DEF DatabaseTypeOK, DatabaseAssumption

LEMMA MovedType ==
  ASSUME DatabaseTypeOK, UNCHANGED installed, Moved(at)
  PROVE  /\ shifted' \in Nat /\ linked' \subseteq MatrixUsers /\ doubles' \subseteq MatrixUsers
         /\ toTell' \in Seq(MatrixUsers)
<1>1. CASE at = <<15, 1>>
  <2>1. PICK notices \in [1..Cardinality(doubles) -> doubles] : toTell' = toTell \o notices
    BY <1>1 DEF Moved
  <2>2. notices \in Seq(MatrixUsers)
    BY NoticesType DEF DatabaseTypeOK
  <2>3. toTell' \in Seq(MatrixUsers)
    BY <2>1, <2>2 DEF DatabaseTypeOK
  <2> QED
    BY <2>3, InstalledType DEF DatabaseTypeOK, Moved
<1>2. CASE at # <<15, 1>>
  BY <1>2, InstalledType DEF DatabaseTypeOK, Moved
<1> QED
  BY <1>1, <1>2

LEMMA TypeRuns ==
  ASSUME DatabaseTypeOK, RunSchema
  PROVE  DatabaseTypeOK'
<1>1. /\ phase = "upgrading"
      /\ UNCHANGED <<installed, version, pgTeams, pgRooms, pgRows, told, stage, pending,
                     tokenMap, aborted, deaths, imports, torn>>
  BY DEF RunSchema, importing
<1>2. CASE at \in ran /\ at[1] \notin Repeatable
  <2>1. /\ phase' = "off" /\ toTell' = <<>> /\ untold' \in BOOLEAN
        /\ UNCHANGED <<at, ran, linked, shifted, doubles>>
    BY <1>2 DEF RunSchema, DatabaseTypeOK
  <2> QED
    BY <1>1, <2>1 DEF DatabaseTypeOK, Phases
<1>3. CASE ~(at \in ran /\ at[1] \notin Repeatable)
  <2>1. /\ ran' = ran \cup {at} /\ Moved(at) /\ UNCHANGED untold
        /\ IF at[2] < Queries[at[1]]
           THEN at' = <<at[1], at[2] + 1>> /\ UNCHANGED phase
           ELSE phase' = "recording" /\ UNCHANGED at
    BY <1>3 DEF RunSchema
  <2>2. at' \in Upto(16) /\ phase' \in Phases /\ at \in Upto(16)
    BY <2>1, AtMoves DEF DatabaseTypeOK, LATEST_SCHEMA, Phases
  <2>3. /\ shifted' \in Nat /\ linked' \subseteq MatrixUsers /\ doubles' \subseteq MatrixUsers
        /\ toTell' \in Seq(MatrixUsers)
    BY <1>1, <2>1, MovedType
  <2> QED
    BY <1>1, <2>1, <2>2, <2>3 DEF DatabaseTypeOK, LATEST_SCHEMA
<1> QED
  BY <1>2, <1>3

LEMMA TypeReads ==
  ASSUME DatabaseTypeOK, GetSchemaVersion
  PROVE  DatabaseTypeOK'
<1>1. UNCHANGED <<installed, ran, version, shifted, linked, doubles, pgTeams, pgRooms, pgRows,
                  told, stage, tokenMap, aborted, deaths, torn>>
  BY DEF GetSchemaVersion, tables
<1>2. CASE /\ version < LATEST_SCHEMA
           /\ phase' = "upgrading" /\ at' = <<version + 1, 1>>
           /\ UNCHANGED <<imports, pending, toTell, untold>>
  <2>1. at' \in Upto(16)
    <3>1. version \in 0..15
      BY <1>2 DEF DatabaseTypeOK, LATEST_SCHEMA
    <3>2. <<version + 1, 1>> \in Upto(16)
      BY <3>1, AtMoves
    <3> QED
      BY <1>2, <3>2
  <2> QED
    <3>1. phase' \in Phases /\ at' \in Upto(LATEST_SCHEMA)
      BY <1>2, <2>1 DEF Phases, LATEST_SCHEMA
    <3>2. UNCHANGED <<imports, pending, toTell, untold>>
      BY <1>2
    <3> QED
      BY <1>1, <3>1, <3>2 DEF DatabaseTypeOK
<1>3. CASE HasSchema /\ UNCHANGED at
  BY <1>1, <1>3, HasSchemaType DEF DatabaseTypeOK
<1>4. CASE phase' = "off" /\ UNCHANGED <<at, imports, pending, toTell, untold>>
  BY <1>1, <1>4 DEF DatabaseTypeOK, Phases
<1> QED
  BY <1>2, <1>3, <1>4 DEF GetSchemaVersion

LEMMA TypeRecords ==
  ASSUME DatabaseTypeOK, UpdateSchemaVersion
  PROVE  DatabaseTypeOK'
<1>1. UNCHANGED <<installed, ran, shifted, linked, doubles, pgTeams, pgRooms, pgRows,
                  told, stage, tokenMap, aborted, deaths, torn>>
  BY DEF UpdateSchemaVersion
<1>2. version' \in 0..LATEST_SCHEMA
  BY AtMoves DEF UpdateSchemaVersion, Recorded, LATEST_SCHEMA
<1>3. CASE version' < LATEST_SCHEMA
  <2>1. phase' = "upgrading" /\ at' = <<version' + 1, 1>>
        /\ UNCHANGED <<imports, pending, toTell, untold>>
    BY <1>3 DEF UpdateSchemaVersion
  <2>2. at' \in Upto(16)
    BY <1>2, <1>3, <2>1, AtMoves DEF LATEST_SCHEMA
  <2> QED
    BY <1>1, <1>2, <2>1, <2>2 DEF DatabaseTypeOK, Phases, LATEST_SCHEMA
<1>4. CASE ~(version' < LATEST_SCHEMA)
  <2>1. HasSchema /\ UNCHANGED at
    BY <1>4 DEF UpdateSchemaVersion
  <2> QED
    BY <1>1, <1>2, <2>1, HasSchemaType DEF DatabaseTypeOK
<1> QED
  BY <1>3, <1>4

LEMMA TypeImports ==
  ASSUME DatabaseTypeOK, PendingOK, MigrateOne
  PROVE  DatabaseTypeOK'
<1>1. PICK row \in pending :
        /\ pending' = pending \ {row}
        /\ \/ MigrateTeam(row) /\ UNCHANGED aborted
           \/ MigrateRoom(row) /\ UNCHANGED aborted
           \/ MigrateGhost(row) /\ UNCHANGED aborted
           \/ MigrateRow(row) /\ UNCHANGED aborted
           \/ aborted' = TRUE /\ UNCHANGED <<pgTeams, tokenMap, pgRooms, pgRows>>
        /\ UNCHANGED <<installed, ran, version, shifted, linked, doubles, told, phase, at,
                       toTell, stage, deaths, imports, torn, untold>>
  BY DEF MigrateOne
<1>2. row \in installed.nedb /\ pending' \subseteq installed.nedb
  BY <1>1 DEF DatabaseTypeOK
<1>3. tokenMap \in [Tokens -> SlackTeams \cup {None}] /\ pgTeams \in [SlackTeams -> Tokens \cup {None}]
      /\ pgRooms \in [OldItems -> SlackTeams \cup {None, "absent"}] /\ pgRows \subseteq installed.nedb
      /\ aborted \in BOOLEAN
  BY DEF DatabaseTypeOK
<1> SUFFICES tokenMap' \in [Tokens -> SlackTeams \cup {None}] /\ pgTeams' \in [SlackTeams -> Tokens \cup {None}]
      /\ pgRooms' \in [OldItems -> SlackTeams \cup {None, "absent"}] /\ pgRows' \subseteq installed.nedb
      /\ aborted' \in BOOLEAN
  BY <1>1, <1>2 DEF DatabaseTypeOK
<1>4. CASE MigrateTeam(row) /\ UNCHANGED aborted
  <2>1. UNCHANGED <<pgRooms, pgRows>>
    BY <1>4 DEF MigrateTeam
  <2>2. CASE UNCHANGED <<pgTeams, tokenMap>>
    BY <1>3, <1>4, <2>1, <2>2
  <2>3. CASE /\ pgTeams' = [pgTeams EXCEPT ![TeamOfToken[row.token]] = row.token]
             /\ tokenMap' = [tokenMap EXCEPT ![row.token] = TeamOfToken[row.token]]
             /\ TeamOfToken[row.token] # None
    <3> DEFINE team == TeamOfToken[row.token]
    <3>1. row.token \in Tokens
      BY <1>1, <1>2, <1>4, InstalledType, OldRowFields DEF MigrateTeam, PendingOK, Stages
    <3>2. team \in SlackTeams
      BY <2>3, <3>1, DatabaseAssumption DEF DatabaseAssumption
    <3>3. pgTeams' = [pgTeams EXCEPT ![team] = row.token] /\ tokenMap' = [tokenMap EXCEPT ![row.token] = team]
      BY <2>3
    <3> HIDE DEF team
    <3> QED
      BY <1>3, <1>4, <2>1, <3>1, <3>2, <3>3
  <2> QED
    BY <1>4, <2>2, <2>3 DEF MigrateTeam, TeamByToken
<1>5. CASE MigrateRoom(row) /\ UNCHANGED aborted
  <2>1. /\ pgRooms' = [pgRooms EXCEPT ![row.id] =
                         IF row.token # None /\ row.key = "slack_bot_token"
                         THEN tokenMap[row.token] ELSE None]
        /\ UNCHANGED <<pgTeams, tokenMap, pgRows>>
    BY <1>5 DEF MigrateRoom
  <2>2. row.token \in Tokens \cup {None} /\ row.id \in OldItems
    BY <1>1, <1>2, <1>5, InstalledType, OldRowFields DEF MigrateRoom, PendingOK, Stages
  <2>3. (IF row.token # None /\ row.key = "slack_bot_token" THEN tokenMap[row.token] ELSE None)
          \in SlackTeams \cup {None}
    BY <1>3, <2>2
  <2> QED
    BY <1>3, <1>5, <2>1, <2>2, <2>3
<1>6. CASE MigrateGhost(row) /\ UNCHANGED aborted
  BY <1>2, <1>3, <1>6 DEF MigrateGhost
<1>7. CASE MigrateRow(row) /\ UNCHANGED aborted
  BY <1>2, <1>3, <1>7 DEF MigrateRow
<1>8. CASE aborted' = TRUE /\ UNCHANGED <<pgTeams, tokenMap, pgRooms, pgRows>>
  BY <1>3, <1>8
<1> QED
  BY <1>1, <1>4, <1>5, <1>6, <1>7, <1>8

LEMMA TypeNextStage ==
  ASSUME DatabaseTypeOK, NextStage
  PROVE  DatabaseTypeOK'
<1>1. /\ UNCHANGED <<installed, ran, version, shifted, linked, doubles, pgTeams, pgRooms, pgRows,
                     told, at, toTell, deaths, imports, torn, untold>>
      /\ Len(Stages) = 6
  BY DEF NextStage, tables, Stages
<1>2. CASE NotImporting' /\ phase' = "off"
  BY <1>1, <1>2, NotImportingType DEF DatabaseTypeOK, Phases
<1>3. CASE /\ stage # 6 /\ stage' = stage + 1 /\ pending' = RowsOfStage(Stages[stage + 1])
           /\ UNCHANGED <<phase, tokenMap, aborted>>
  <2>1. pending' \subseteq installed.nedb
    BY <1>3 DEF RowsOfStage
  <2>2. stage' \in 1..6
    BY <1>1, <1>3 DEF DatabaseTypeOK
  <2> QED
    BY <1>1, <1>3, <2>1, <2>2 DEF DatabaseTypeOK
<1> QED
  BY <1>1, <1>2, <1>3 DEF NextStage, NotImporting

LEMMA TypeDies ==
  ASSUME DatabaseTypeOK, Die
  PROVE  DatabaseTypeOK'
<1>1. NotImporting' /\ phase' = "off" /\ toTell' = <<>> /\ untold' \in BOOLEAN /\ torn' \subseteq Versions
  BY DEF Die, NotImporting, DatabaseTypeOK
<1>2. deaths' \in 0..installed.deaths
  BY InstalledType DEF Die, DatabaseTypeOK
<1>3. UNCHANGED <<installed, ran, version, shifted, linked, doubles, pgTeams, pgRooms, pgRows,
                  told, at, imports>>
  BY DEF Die, tables
<1> QED
  BY <1>1, <1>2, <1>3, NotImportingType DEF DatabaseTypeOK, Phases

LEMMA TypeStep ==
  ASSUME DatabaseTypeOK, PendingOK, DatabaseStep \/ Die \/ UNCHANGED dbVars
  PROVE  DatabaseTypeOK'
<1>1. CASE StartProcess
  <2>1. /\ phase' = "reading"
        /\ UNCHANGED <<installed, ran, version, shifted, linked, doubles, pgTeams, pgRooms, pgRows,
                       told, at, toTell, stage, pending, tokenMap, aborted, deaths, imports, torn, untold>>
    BY <1>1 DEF StartProcess, tables, importing
  <2> QED
    BY <2>1 DEF DatabaseTypeOK, Phases
<1>2. CASE TellUsers
  <2>1. UNCHANGED <<installed, ran, version, shifted, linked, doubles, pgTeams, pgRooms, pgRows,
                       at, stage, pending, tokenMap, aborted, deaths, imports, torn, untold>>
    BY <1>2 DEF TellUsers, tables, importing
  <2>2. told' \subseteq MatrixUsers /\ toTell' \in Seq(MatrixUsers) /\ phase' \in Phases
    <3>1. CASE toTell = <<>>
      BY <1>2, <3>1 DEF TellUsers, DatabaseTypeOK, Phases
    <3>2. CASE toTell # <<>>
      <4>1. toTell \in Seq(MatrixUsers) /\ told \subseteq MatrixUsers /\ phase \in Phases
        BY DEF DatabaseTypeOK
      <4>2. told' = told \cup {Head(toTell)} /\ toTell' = Tail(toTell) /\ phase' = phase
        BY <1>2, <3>2 DEF TellUsers, Notice
      <4>3. Head(toTell) \in MatrixUsers /\ Tail(toTell) \in Seq(MatrixUsers)
        BY <3>2, <4>1
      <4> QED
        BY <4>1, <4>2, <4>3
    <3> QED
      BY <3>1, <3>2
  <2> QED
    BY <2>1, <2>2 DEF DatabaseTypeOK
<1>3. CASE UNCHANGED dbVars
  BY <1>3 DEF dbVars, tables, importing, DatabaseTypeOK
<1> QED
  BY <1>1, <1>2, <1>3, TypeReads, TypeRuns, TypeRecords, TypeImports, TypeNextStage, TypeDies
  DEF DatabaseStep

-----------------------------------------------------------------------------
(* What an upgrade moves *)

\* Steps that run no query.
LEMMA NoQuery ==
  ASSUME DatabaseStep \/ Die \/ UNCHANGED dbVars, ~RunSchema
  PROVE  UNCHANGED <<installed, ran, linked, shifted, doubles>> /\ torn \subseteq torn'
<1>1. CASE StartProcess
  BY <1>1 DEF StartProcess, tables
<1>2. CASE GetSchemaVersion
  BY <1>2 DEF GetSchemaVersion, tables
<1>3. CASE UpdateSchemaVersion
  BY <1>3 DEF UpdateSchemaVersion
<1>4. CASE TellUsers
  BY <1>4 DEF TellUsers, tables
<1>5. CASE MigrateOne
  BY <1>5 DEF MigrateOne
<1>6. CASE NextStage
  BY <1>6 DEF NextStage, tables
<1>7. CASE Die
  BY <1>7 DEF Die, tables
<1>8. CASE UNCHANGED dbVars
  BY <1>8 DEF dbVars, tables
<1> QED
  BY <1>1, <1>2, <1>3, <1>4, <1>5, <1>6, <1>7, <1>8 DEF DatabaseStep

\* Where ensureSchema is when it runs a query.
LEMMA RunsAt ==
  ASSUME SchemaInv, RunSchema
  PROVE  /\ phase = "upgrading" /\ version \in 0..15 /\ version' = version
         /\ at[2] \in 1..Queries[version + 1] /\ at = <<version + 1, at[2]>>
         /\ Queries[version + 1] \in Nat
<1>1. phase = "upgrading" /\ version' = version /\ version \in 0..15
      /\ at[1] = version + 1 /\ at \in Statements(version + 1)
  BY DEF RunSchema, SchemaInv, LATEST_SCHEMA
<1> QED
  BY <1>1, QueriesType DEF Statements

\* A query that is run, and not refused.
LEMMA RunsOrNot ==
  ASSUME RunSchema
  PROVE  /\ UNCHANGED <<installed, version, told, torn>>
         /\ \/ /\ at \in ran
               /\ phase' = "off" /\ toTell' = <<>> /\ untold' = (untold \/ toTell # <<>>)
               /\ UNCHANGED <<ran, linked, shifted, doubles>>
            \/ /\ ran' = ran \cup {at} /\ Moved(at) /\ UNCHANGED untold
               /\ \/ /\ at[2] < Queries[at[1]]
                     /\ at' = <<at[1], at[2] + 1>> /\ phase' = phase
                  \/ phase' = "recording"
  BY DEF RunSchema

LEMMA LinkedKeeps ==
  ASSUME LinkedOK, DatabaseStep \/ Die \/ UNCHANGED dbVars
  PROVE  LinkedOK'
<1>1. CASE ~RunSchema
  BY <1>1, NoQuery DEF LinkedOK
<1>2. CASE RunSchema
  <2>1. CASE UNCHANGED <<installed, ran, linked>>
    BY <2>1 DEF LinkedOK
  <2>2. CASE ran' = ran \cup {at} /\ Moved(at) /\ UNCHANGED installed
    <3>1. linked' = IF at = <<6, 2>> THEN linked \cup installed.accounts ELSE linked
      BY <2>2 DEF Moved
    <3> QED
      BY <2>2, <3>1 DEF LinkedOK
  <2> QED
    BY <1>2, <2>1, <2>2, RunsOrNot
<1> QED
  BY <1>1, <1>2

LEMMA ShiftedKeeps ==
  ASSUME SchemaInv, TornOK, ShiftedOK, DatabaseStep \/ Die \/ UNCHANGED dbVars
  PROVE  ShiftedOK'
<1>1. CASE ~RunSchema
  BY <1>1, NoQuery DEF ShiftedOK
<1>2. CASE RunSchema
  <2>1. CASE UNCHANGED <<ran, shifted, torn>>
    BY <2>1 DEF ShiftedOK
  <2>2. CASE ran' = ran \cup {at} /\ Moved(at) /\ UNCHANGED torn
    <3> SUFFICES ASSUME 11 \notin torn
                 PROVE  shifted' = IF <<11, 1>> \in ran' THEN 1 ELSE 0
      BY <2>2 DEF ShiftedOK
    <3>1. shifted' = IF at = <<11, 1>> THEN shifted + 1 ELSE shifted
      BY <2>2 DEF Moved
    <3>2. shifted = IF <<11, 1>> \in ran THEN 1 ELSE 0
      BY DEF ShiftedOK
    <3>3. CASE at = <<11, 1>>
      <4>1. version + 1 = 11 /\ at[2] = 1 /\ version < LATEST_SCHEMA /\ phase = "upgrading"
            /\ 1 \in 1..Queries[version + 1]
        BY <1>2, <3>3, RunsAt DEF LATEST_SCHEMA
      <4>2. <<version + 1, 1>> \notin ran
        BY <4>1 DEF TornOK
      <4> QED
        BY <2>2, <3>1, <3>2, <3>3, <4>1, <4>2
    <3>4. CASE at # <<11, 1>>
      BY <2>2, <3>1, <3>2, <3>4
    <3> QED
      BY <3>3, <3>4
  <2> QED
    BY <1>2, <2>1, <2>2, RunsOrNot
<1> QED
  BY <1>1, <1>2

LEMMA TornKeeps ==
  ASSUME DatabaseTypeOK, SchemaInv, TornOK, DatabaseStep \/ Die \/ UNCHANGED dbVars
  PROVE  TornOK'
<1> SUFFICES ASSUME version' < LATEST_SCHEMA
             PROVE  /\ phase' \notin {"upgrading", "recording"} /\ Statements(version' + 1) \cap ran' # {}
                         => version' + 1 \in torn'
                    /\ phase' = "upgrading" =>
                         \A i \in at'[2]..Queries[version' + 1] :
                             <<version' + 1, i>> \in ran' => version' + 1 \in torn'
  BY DEF TornOK
<1>0. version \in 0..16 /\ torn \subseteq torn'
  BY NoQuery, RunsOrNot DEF SchemaInv, LATEST_SCHEMA
\* No query of the version to come has run.
<1>1. ASSUME Statements(version' + 1) \cap ran' = {}, at'[2] \in Nat \/ phase' # "upgrading",
             at'[2] >= 1 \/ phase' # "upgrading"
      PROVE  /\ phase' \notin {"upgrading", "recording"} /\ Statements(version' + 1) \cap ran' # {}
                  => version' + 1 \in torn'
             /\ phase' = "upgrading" =>
                  \A i \in at'[2]..Queries[version' + 1] :
                      <<version' + 1, i>> \in ran' => version' + 1 \in torn'
  <2>1. ASSUME phase' = "upgrading", NEW i \in at'[2]..Queries[version' + 1]
        PROVE  <<version' + 1, i>> \in Statements(version' + 1)
    BY <1>1, <2>1 DEF Statements
  <2> QED
    BY <1>1, <2>1
\* A version that is not begun, or that was torn.
<1>2. ASSUME UNCHANGED <<version, ran>>, phase \notin {"upgrading", "recording"},
             phase' \notin {"upgrading", "recording"}
      PROVE  Statements(version' + 1) \cap ran' # {} => version' + 1 \in torn'
  BY <1>0, <1>2 DEF TornOK
<1>3. CASE StartProcess
  BY <1>2, <1>3 DEF StartProcess, tables
<1>4. CASE GetSchemaVersion
  <2>1. phase = "reading" /\ UNCHANGED <<version, ran>>
    BY <1>4 DEF GetSchemaVersion, tables
  <2>2. CASE phase' = "upgrading" /\ at' = <<version + 1, 1>>
    <3>1. ASSUME NEW i \in 1..Queries[version + 1], <<version + 1, i>> \in ran
          PROVE  version + 1 \in torn'
      <4>1. Statements(version + 1) \cap ran # {}
        BY <3>1 DEF Statements
      <4> QED
        BY <1>0, <2>1, <4>1 DEF TornOK
    <3> QED
      BY <2>1, <2>2, <3>1
  <2>3. CASE phase' = "off"
    BY <1>2, <2>1, <2>3
  <2>4. version # LATEST_SCHEMA
    BY <2>1 DEF LATEST_SCHEMA
  <2> QED
    BY <1>4, <2>1, <2>2, <2>3, <2>4 DEF GetSchemaVersion
<1>5. CASE RunSchema
  <2>1. /\ phase = "upgrading" /\ version' = version /\ version \in 0..15
        /\ at[2] \in 1..Queries[version + 1] /\ at = <<version + 1, at[2]>>
        /\ Queries[version + 1] \in Nat
    BY <1>5, RunsAt
  <2>2. \A i \in at[2]..Queries[version + 1] : <<version + 1, i>> \in ran => version + 1 \in torn
    BY <2>1 DEF TornOK
  <2>3. CASE at \in ran /\ phase' = "off"
    <3>1. version + 1 \in torn
      BY <2>1, <2>2, <2>3
    <3> QED
      BY <1>0, <2>1, <2>3, <3>1
  <2>4. CASE ran' = ran \cup {at} /\ at' = <<at[1], at[2] + 1>> /\ phase' = phase
    <3>1. at'[2] = at[2] + 1
      BY <2>4
    <3>2. ASSUME NEW i \in at'[2]..Queries[version + 1], <<version + 1, i>> \in ran'
          PROVE  version + 1 \in torn
      <4>1. i # at[2] /\ i \in at[2]..Queries[version + 1]
        BY <2>1, <3>1
      <4>2. <<version + 1, i>> # at
        BY <2>1, <4>1
      <4> QED
        BY <2>2, <2>4, <3>2, <4>1, <4>2
    <3> QED
      BY <1>0, <2>1, <2>4, <3>2
  <2> QED
    BY <1>5, <2>3, <2>4, RunsOrNot
<1>6. CASE UpdateSchemaVersion
  <2>1. version' = version + 1 /\ phase' = "upgrading" /\ at' = <<version' + 1, 1>> /\ ran' = ran
        /\ ran \subseteq Upto(version + 1) /\ version \in 0..14
    BY <1>0, <1>6 DEF UpdateSchemaVersion, Recorded, SchemaInv, SchemaWhole, LATEST_SCHEMA
  <2>2. Statements(version' + 1) \cap ran' = {}
    BY <2>1 DEF Statements, Upto
  <2> QED
    BY <1>1, <2>1, <2>2
<1>7. CASE TellUsers \/ MigrateOne \/ NextStage
  <2>1. version' = 16
    BY <1>7 DEF TellUsers, MigrateOne, NextStage, tables, SchemaInv, SchemaWhole, LATEST_SCHEMA
  <2> QED
    BY <2>1 DEF LATEST_SCHEMA
<1>8. CASE Die
  <2>1. UNCHANGED <<version, ran>> /\ phase' = "off"
    BY <1>8 DEF Die, tables
  <2>2. ASSUME Statements(version + 1) \cap ran # {}, phase \in {"upgrading", "recording"}
        PROVE  version + 1 \in torn'
    <3>1. at[1] = version + 1 /\ version + 1 \in Versions
      BY <1>0, <2>1, <2>2 DEF SchemaInv, Versions, LATEST_SCHEMA
    <3> QED
      BY <1>8, <2>2, <3>1 DEF Die
  <2> QED
    BY <1>2, <2>1, <2>2
<1>9. CASE UNCHANGED dbVars
  BY <1>9 DEF dbVars, tables, TornOK
<1> QED
  BY <1>3, <1>4, <1>5, <1>6, <1>7, <1>8, <1>9 DEF DatabaseStep

\* The notices that the query of version 15 leaves go to everyone it deletes
\* puppets of.
LEMMA NoticesGrow ==
  ASSUME DatabaseTypeOK, ToldOK, Moved(at), UNCHANGED <<installed, told>>, ~untold
  PROVE  \A u \in installed.doubles \ doubles' : u \in told' \/ \E i \in 1..Len(toTell') : toTell'[i] = u
<1> SUFFICES ASSUME NEW u \in installed.doubles \ doubles'
             PROVE  u \in told \/ \E i \in 1..Len(toTell') : toTell'[i] = u
  OBVIOUS
<1>1. CASE at = <<15, 1>>
  <2>1. PICK notices \in [1..Cardinality(doubles) -> doubles] :
              /\ \A w \in doubles : \E i \in DOMAIN notices : notices[i] = w
              /\ toTell' = toTell \o notices
    BY <1>1 DEF Moved
  <2>2. notices \in Seq(MatrixUsers) /\ Len(notices) = Cardinality(doubles)
        /\ Cardinality(doubles) \in Nat /\ toTell \in Seq(MatrixUsers)
    BY NoticesType DEF DatabaseTypeOK
  <2>3. /\ Len(toTell') = Len(toTell) + Len(notices)
        /\ \A i \in 1..Len(toTell) : toTell'[i] = toTell[i]
        /\ \A i \in 1..Len(notices) : toTell'[Len(toTell) + i] = notices[i]
        /\ Len(toTell) \in Nat /\ Len(notices) \in Nat
    <3>1. toTell' = toTell \o notices /\ notices \in Seq(MatrixUsers) /\ toTell \in Seq(MatrixUsers)
      BY <2>1, <2>2
    <3> HIDE <2>1, <2>2
    <3>2. Len(toTell') = Len(toTell) + Len(notices) /\ Len(toTell) \in Nat /\ Len(notices) \in Nat
      BY <3>1
    <3>3. ASSUME NEW i \in 1..Len(toTell) PROVE toTell'[i] = toTell[i]
      BY <3>1, <3>2
    <3>4. ASSUME NEW i \in 1..Len(notices) PROVE toTell'[Len(toTell) + i] = notices[i]
      BY <3>1, <3>2
    <3> QED
      BY <3>2, <3>3, <3>4
  <2>4. CASE u \in doubles
    <3>1. PICK i \in 1..Len(notices) : notices[i] = u
      BY <2>1, <2>2, <2>4
    <3>2. Len(toTell) + i \in 1..Len(toTell') /\ toTell'[Len(toTell) + i] = u
      BY <2>3, <3>1
    <3> QED
      BY <3>2
  <2>5. CASE u \notin doubles
    <3>1. Noticed(u)
      BY <2>5 DEF ToldOK
    <3>2. \A i \in 1..Len(toTell) : i \in 1..Len(toTell')
      BY <2>3
    <3> QED
      BY <2>3, <3>1, <3>2 DEF Noticed
  <2> QED
    BY <2>4, <2>5
<1>2. CASE at # <<15, 1>>
  <2>1. UNCHANGED <<doubles, toTell>>
    BY <1>2 DEF Moved
  <2> QED
    BY <2>1 DEF ToldOK, Noticed
<1> QED
  BY <1>1, <1>2

LEMMA ToldKeeps ==
  ASSUME DatabaseTypeOK, SchemaInv, ToldOK, DatabaseStep \/ Die \/ UNCHANGED dbVars
  PROVE  ToldOK'
\* Notices are kept, or the process does not go on.
<1>1. ASSUME UNCHANGED <<installed, doubles, told>>,
             \/ UNCHANGED <<toTell, untold>>
             \/ toTell' = <<>> /\ untold' = (untold \/ toTell # <<>>)
      PROVE  ~untold' => \A u \in installed'.doubles \ doubles' : Noticed(u)'
  <2> SUFFICES ASSUME ~untold', NEW u \in installed.doubles \ doubles PROVE Noticed(u)'
    BY <1>1
  <2>1. Noticed(u) /\ toTell' = toTell
    BY <1>1 DEF ToldOK
  <2> QED
    BY <1>1, <2>1 DEF Noticed
<1>2. ASSUME HasSchema, UNCHANGED <<installed, doubles, told>>
      PROVE  ToldOK'
  <2>1. ~untold' => \A u \in installed'.doubles \ doubles' : Noticed(u)'
    BY <1>1, <1>2 DEF HasSchema
  <2>2. phase' = "telling" \/ toTell' = <<>>
    BY <1>2 DEF HasSchema
  <2> QED
    BY <2>1, <2>2 DEF ToldOK
<1>3. CASE StartProcess
  <2>1. UNCHANGED <<installed, doubles, told, toTell, untold>> /\ phase = "off" /\ phase' = "reading"
    BY <1>3 DEF StartProcess, tables
  <2> QED
    BY <1>1, <2>1 DEF ToldOK
<1>4. CASE GetSchemaVersion
  <2>1. UNCHANGED <<installed, doubles, told>> /\ phase = "reading"
    BY <1>4 DEF GetSchemaVersion, tables
  <2>2. CASE HasSchema
    BY <1>2, <2>1, <2>2
  <2>3. CASE UNCHANGED <<toTell, untold>>
    BY <1>1, <2>1, <2>3 DEF ToldOK
  <2> QED
    BY <1>4, <2>2, <2>3 DEF GetSchemaVersion
<1>5. CASE RunSchema
  <2>1. UNCHANGED <<installed, told>> /\ phase = "upgrading"
    BY <1>5 DEF RunSchema
  <2>2. CASE phase' = "off" /\ toTell' = <<>> /\ untold' = (untold \/ toTell # <<>>) /\ UNCHANGED doubles
    BY <1>1, <2>1, <2>2 DEF ToldOK
  <2>3. CASE Moved(at) /\ UNCHANGED untold /\ phase' \in {"upgrading", "recording"}
    <3>1. ~untold => \A u \in installed.doubles \ doubles' :
                        u \in told' \/ \E i \in 1..Len(toTell') : toTell'[i] = u
      BY <2>1, <2>3, NoticesGrow
    <3> QED
      BY <2>1, <2>3, <3>1 DEF ToldOK, Noticed
  <2> QED
    BY <1>5, <2>1, <2>2, <2>3, RunsOrNot
<1>6. CASE UpdateSchemaVersion
  <2>1. UNCHANGED <<installed, doubles, told>>
    BY <1>6 DEF UpdateSchemaVersion
  <2>2. CASE HasSchema
    BY <1>2, <2>1, <2>2
  <2>3. CASE phase' = "upgrading" /\ UNCHANGED <<toTell, untold>>
    BY <1>1, <2>1, <2>3 DEF ToldOK
  <2> QED
    BY <1>6, <2>2, <2>3 DEF UpdateSchemaVersion
<1>7. CASE TellUsers
  <2>1. UNCHANGED <<installed, doubles, untold>> /\ phase = "telling"
    BY <1>7 DEF TellUsers, tables
  <2>2. CASE toTell = <<>>
    <3>1. UNCHANGED <<told, toTell>>
      BY <1>7, <2>2 DEF TellUsers
    <3> QED
      BY <1>1, <2>1, <2>2, <3>1 DEF ToldOK
  <2>3. CASE toTell # <<>>
    <3>1. told' = told \cup {Head(toTell)} /\ toTell' = Tail(toTell) /\ phase' = phase
      BY <1>7, <2>3 DEF TellUsers, Notice
    <3>2. toTell \in Seq(MatrixUsers)
      BY DEF DatabaseTypeOK
    <3>3. /\ Len(toTell) \in Nat \ {0} /\ Len(toTell') = Len(toTell) - 1
          /\ Head(toTell) = toTell[1]
          /\ \A i \in 1..Len(toTell') : toTell'[i] = toTell[i + 1]
      BY <2>3, <3>1, <3>2
    <3>4. ASSUME NEW u, Noticed(u) PROVE Noticed(u)'
      <4>1. CASE u \in told
        BY <3>1, <4>1 DEF Noticed
      <4>2. ASSUME NEW i \in 1..Len(toTell), toTell[i] = u PROVE Noticed(u)'
        <5>1. CASE i = 1
          BY <3>1, <3>3, <4>2, <5>1 DEF Noticed
        <5>2. CASE i # 1
          <6>1. i - 1 \in 1..Len(toTell') /\ toTell'[i - 1] = u
            BY <3>3, <4>2, <5>2
          <6> QED
            BY <6>1 DEF Noticed
        <5> QED
          BY <5>1, <5>2
      <4> QED
        BY <3>4, <4>1, <4>2 DEF Noticed
    <3> QED
      BY <2>1, <3>1, <3>4 DEF ToldOK
  <2> QED
    BY <2>2, <2>3
<1>8. CASE MigrateOne
  <2>1. UNCHANGED <<installed, doubles, told, toTell, untold, phase>>
    BY <1>8 DEF MigrateOne
  <2> QED
    BY <1>1, <2>1 DEF ToldOK
<1>9. CASE NextStage
  <2>1. UNCHANGED <<installed, doubles, told, toTell, untold>> /\ phase = "importing"
    BY <1>9 DEF NextStage, tables
  <2> QED
    BY <1>1, <2>1 DEF ToldOK
<1>10. CASE Die
  <2>1. UNCHANGED <<installed, doubles, told>> /\ toTell' = <<>> /\ untold' = (untold \/ toTell # <<>>)
    BY <1>10 DEF Die, tables
  <2> QED
    BY <1>1, <2>1 DEF ToldOK
<1>11. CASE UNCHANGED dbVars
  <2>1. UNCHANGED <<installed, doubles, told, toTell, untold, phase>>
    BY <1>11 DEF dbVars, tables
  <2> QED
    BY <1>1, <2>1 DEF ToldOK
<1> QED
  BY <1>3, <1>4, <1>5, <1>6, <1>7, <1>8, <1>9, <1>10, <1>11 DEF DatabaseStep

LEMMA UpgradeStep ==
  ASSUME DatabaseTypeOK, SchemaInv, UpgradeInv, DatabaseStep \/ Die \/ UNCHANGED dbVars
  PROVE  UpgradeInv'
  BY LinkedKeeps, ShiftedKeeps, TornKeeps, ToldKeeps DEF UpgradeInv

LEMMA InvUpgradeKept ==
  ASSUME DatabaseTypeOK, SchemaInv, UpgradeInv
  PROVE  UpgradeKept
<1>1. Upto(version) \subseteq ran /\ version \in 0..16
  BY DEF SchemaInv, SchemaWhole, LATEST_SCHEMA
<1>2. version >= 6 => <<6, 2>> \in ran
  <2>1. Queries[6] = 2
    BY DEF Queries, Versions, LATEST_SCHEMA
  <2> QED
    BY <1>1, <2>1 DEF Upto, Statements
<1>3. version >= 11 => <<11, 1>> \in ran
  BY <1>1, QueriesType DEF Upto, Statements
<1>4. phase = "up" /\ ~untold => installed.doubles \ doubles \subseteq told
  <2> SUFFICES ASSUME phase = "up", ~untold, NEW u \in installed.doubles \ doubles PROVE u \in told
    OBVIOUS
  <2>1. toTell = <<>> /\ Noticed(u)
    BY DEF UpgradeInv, ToldOK
  <2>2. Len(toTell) = 0
    BY <2>1
  <2> QED
    BY <2>1, <2>2 DEF Noticed
<1> QED
  BY <1>2, <1>3, <1>4 DEF UpgradeKept, UpgradeInv, LinkedOK, ShiftedOK

-----------------------------------------------------------------------------
(* What an import writes *)

LEMMA StageNames ==
  /\ Len(Stages) = 6
  /\ Stages[1] = "event" /\ Stages[2] = "preTeam" /\ Stages[3] = "team"
  /\ Stages[4] = "room" /\ Stages[5] = "ghost" /\ Stages[6] = "matrixUser"
  BY DEF Stages

LEMMA ImportAlone ==
  ASSUME ImportInv,
         UNCHANGED <<installed, stage, pending, tokenMap, aborted, pgTeams, pgRooms, pgRows>>,
         phase' = phase \/ (phase # "importing" /\ phase' # "importing")
  PROVE  ImportInv'
<1>1. \A k, row : Passed(k, row)' <=> Passed(k, row)
  BY DEF Passed
<1>2. \A row \in installed.nedb : (EventOK(row) /\ TokenOK(row) /\ RoomOK(row) /\ GhostOK(row))'
  BY <1>1 DEF ImportInv, EventOK, TokenOK, RoomOK, GhostOK
<1>3. (\A t \in Tokens : tokenMap[t] \in {None, TeamOfToken[t]})'
  BY DEF ImportInv
<1>4. (phase # "importing" => NotImporting)' /\ PendingOK' /\ OwnIds(installed'.nedb)
  BY DEF ImportInv, NotImporting, PendingOK
<1> QED
  BY <1>2, <1>3, <1>4 DEF ImportInv

\* An import that begins has passed nothing.
LEMMA ImportStarts ==
  ASSUME DatabaseTypeOK, ImportInv, HasSchema, phase # "importing",
         UNCHANGED <<installed, stage, tokenMap, aborted, pgTeams, pgRooms, pgRows>>
  PROVE  ImportInv'
<1>1. CASE UNCHANGED pending /\ phase' = "telling"
  BY <1>1, ImportAlone
<1>2. CASE phase' = "importing" /\ pending' = {row \in installed.nedb : row.kind = "event"}
  <2>1. stage = 1 /\ NotImporting
    BY DEF ImportInv, NotImporting
  <2>2. \A row \in installed.nedb : /\ row.kind = "event" => ~Passed(1, row)'
                                    /\ ~Passed(2, row)' /\ ~Passed(4, row)' /\ ~Passed(5, row)'
    BY <1>2, <2>1 DEF Passed
  <2>3. \A row \in installed.nedb : (EventOK(row) /\ TokenOK(row) /\ GhostOK(row))'
    BY <2>2 DEF EventOK, TokenOK, GhostOK
  <2>4. \A row \in installed.nedb : RoomOK(row)'
    BY <2>2 DEF ImportInv, RoomOK
  <2>5. PendingOK'
    BY <1>2, <2>1, StageNames DEF PendingOK
  <2>6. (\A t \in Tokens : tokenMap[t] \in {None, TeamOfToken[t]})' /\ OwnIds(installed'.nedb)
    BY DEF ImportInv
  <2> QED
    BY <1>2, <2>3, <2>4, <2>5, <2>6 DEF ImportInv
<1> QED
  BY <1>1, <1>2 DEF HasSchema

\* A row that is passed now was passed before, or is the one that was migrated.
LEMMA PassedBy ==
  ASSUME NEW row, pending' = pending \ {row}, UNCHANGED <<phase, stage>>, phase = "importing",
         aborted' = aborted \/ aborted' = TRUE, aborted \in BOOLEAN,
         NEW k, NEW old, Passed(k, old)'
  PROVE  Passed(k, old) \/ (stage = k /\ old = row /\ aborted' = aborted)
  BY DEF Passed

LEMMA ImportTeams ==
  ASSUME DatabaseTypeOK, ImportInv, NEW row \in pending, phase = "importing",
         MigrateTeam(row), pending' = pending \ {row},
         UNCHANGED <<installed, phase, stage, aborted>>
  PROVE  ImportInv'
<1>1. stage \in {2, 3} /\ row \in installed.nedb /\ aborted \in BOOLEAN
  BY StageNames DEF MigrateTeam, DatabaseTypeOK
<1>2. row.token \in Tokens
  BY <1>1, StageNames, InstalledType, OldRowFields DEF ImportInv, PendingOK, DatabaseTypeOK
<1>3. tokenMap \in [Tokens -> SlackTeams \cup {None}]
      /\ \A t \in Tokens : tokenMap[t] \in {None, TeamOfToken[t]}
  BY DEF DatabaseTypeOK, ImportInv
<1>4. /\ TeamByToken(row.token) /\ UNCHANGED <<pgRooms, pgRows>>
  BY DEF MigrateTeam
<1>5. /\ \A t \in Tokens : tokenMap'[t] \in {tokenMap[t], TeamOfToken[t]}
      /\ ~installed.flaky => tokenMap'[row.token] = TeamOfToken[row.token]
  BY <1>2, <1>3, <1>4 DEF TeamByToken
<1>6. \A k, old : Passed(k, old)' => Passed(k, old) \/ (stage = k /\ old = row)
  BY <1>1, PassedBy
<1>7. \A old : ~Passed(4, old)' /\ ~Passed(5, old)'
  BY <1>1 DEF Passed
<1>8. ASSUME NEW old \in installed.nedb PROVE (EventOK(old) /\ TokenOK(old) /\ RoomOK(old) /\ GhostOK(old))'
  <2>1. EventOK(old) /\ TokenOK(old) /\ RoomOK(old)
    BY DEF ImportInv
  <2>2. EventOK(old)'
    BY <1>1, <1>4, <1>6, <2>1 DEF EventOK
  <2>3. TokenOK(old)'
    <3> SUFFICES ASSUME ~installed.flaky, old.kind = "room", old.token # None, Passed(2, old)'
                 PROVE  tokenMap'[old.token] = TeamOfToken[old.token]
      BY DEF TokenOK
    <3>1. old.token \in Tokens
      BY InstalledType, OldRowFields
    <3>2. CASE Passed(2, old)
      <4>1. tokenMap[old.token] = TeamOfToken[old.token]
        BY <2>1, <3>2 DEF TokenOK
      <4> QED
        BY <1>5, <3>1, <4>1
    <3>3. CASE old = row
      BY <1>5, <3>3
    <3> QED
      BY <1>6, <3>2, <3>3
  <2>4. RoomOK(old)' /\ GhostOK(old)'
    BY <1>4, <1>7, <2>1 DEF RoomOK, GhostOK
  <2> QED
    BY <2>2, <2>3, <2>4
<1>9. \A t \in Tokens : tokenMap'[t] \in {None, TeamOfToken[t]}
  BY <1>3, <1>5
<1>10. PendingOK' /\ OwnIds(installed'.nedb)
  BY DEF ImportInv, PendingOK
<1> QED
  BY <1>8, <1>9, <1>10 DEF ImportInv

LEMMA ImportRooms ==
  ASSUME DatabaseTypeOK, ImportInv, NEW row \in pending, phase = "importing",
         MigrateRoom(row), pending' = pending \ {row},
         UNCHANGED <<installed, phase, stage, aborted>>
  PROVE  ImportInv'
<1>1. stage = 4 /\ row \in installed.nedb /\ aborted \in BOOLEAN
  BY StageNames DEF MigrateRoom, DatabaseTypeOK
<1>2. row.kind = "room" /\ row.token \in Tokens \cup {None} /\ row.id \in OldItems
  BY <1>1, StageNames, InstalledType, OldRowFields DEF ImportInv, PendingOK
<1>3. tokenMap \in [Tokens -> SlackTeams \cup {None}]
      /\ pgRooms \in [OldItems -> SlackTeams \cup {None, "absent"}]
  BY DEF DatabaseTypeOK
<1> DEFINE team == IF row.token # None /\ row.key = "slack_bot_token"
                   THEN tokenMap[row.token] ELSE None
<1>4. pgRooms' = [pgRooms EXCEPT ![row.id] = team] /\ UNCHANGED <<pgTeams, tokenMap, pgRows>>
  BY DEF MigrateRoom
<1>5. team # "absent"
  BY <1>2, <1>3, DatabaseAssumption DEF DatabaseAssumption
<1>6. ~installed.flaky /\ row.token # None /\ row.key = "slack_bot_token" => team = TeamOfToken[row.token]
  <2>1. Passed(2, row) /\ TokenOK(row)
    BY <1>1 DEF Passed, ImportInv
  <2> QED
    BY <1>2, <2>1 DEF TokenOK
<1> HIDE DEF team
<1>7. pgRooms'[row.id] = team /\ \A i \in OldItems : i # row.id => pgRooms'[i] = pgRooms[i]
  BY <1>2, <1>3, <1>4
<1>8. \A k, old : Passed(k, old)' => Passed(k, old) \/ (stage = k /\ old = row)
  BY <1>1, PassedBy
<1>9. ASSUME NEW old \in installed.nedb PROVE (EventOK(old) /\ TokenOK(old) /\ RoomOK(old) /\ GhostOK(old))'
  <2>1. EventOK(old) /\ TokenOK(old) /\ RoomOK(old) /\ GhostOK(old)
    BY DEF ImportInv
  <2>2. EventOK(old)' /\ TokenOK(old)' /\ GhostOK(old)'
    BY <1>1, <1>4, <1>8, <2>1 DEF EventOK, TokenOK, GhostOK
  <2>3. RoomOK(old)'
    <3> SUFFICES ASSUME old.kind = "room"
                 PROVE  /\ Passed(4, old)' => pgRooms'[old.id] # "absent"
                        /\ ~installed.flaky /\ old.token # None /\ old.key = "slack_bot_token"
                             => pgRooms'[old.id] \in {"absent", TeamOfToken[old.token]}
      BY DEF RoomOK
    <3>1. old.id \in OldItems
      BY InstalledType, OldRowFields
    <3>2. CASE old.id = row.id
      <4>1. old = row
        BY <1>1, <1>2, <3>2 DEF ImportInv, OwnIds
      <4> QED
        BY <1>5, <1>6, <1>7, <4>1
    <3>3. CASE old.id # row.id
      <4>1. pgRooms'[old.id] = pgRooms[old.id] /\ (Passed(4, old)' => Passed(4, old))
        BY <1>7, <1>8, <3>1, <3>3
      <4> QED
        BY <2>1, <4>1 DEF RoomOK
    <3> QED
      BY <3>2, <3>3
  <2> QED
    BY <2>2, <2>3
<1>10. PendingOK' /\ OwnIds(installed'.nedb)
  BY DEF ImportInv, PendingOK
<1>11. \A t \in Tokens : tokenMap'[t] \in {None, TeamOfToken[t]}
  BY <1>4 DEF ImportInv
<1> QED
  BY <1>9, <1>10, <1>11 DEF ImportInv

\* Ghosts, events and Matrix users only add rows.
LEMMA ImportRows ==
  ASSUME DatabaseTypeOK, ImportInv, NEW row \in pending, phase = "importing",
         MigrateGhost(row) \/ MigrateRow(row), pending' = pending \ {row},
         UNCHANGED <<installed, phase, stage, aborted>>
  PROVE  ImportInv'
<1>1. stage \in {1, 5, 6} /\ row \in installed.nedb /\ aborted \in BOOLEAN
  BY StageNames DEF MigrateGhost, MigrateRow, DatabaseTypeOK
<1>2. UNCHANGED <<pgTeams, tokenMap, pgRooms>> /\ pgRows \subseteq pgRows'
  BY DEF MigrateGhost, MigrateRow
<1>3. /\ stage = 1 => row \in pgRows'
      /\ stage = 5 => row \in pgRows' \/ (~row.known /\ pgTeams[row.team] = None)
  BY StageNames DEF MigrateGhost, MigrateRow
<1>4. \A k, old : Passed(k, old)' => Passed(k, old) \/ (stage = k /\ old = row)
  BY <1>1, PassedBy
<1>5. ASSUME NEW old \in installed.nedb PROVE (EventOK(old) /\ TokenOK(old) /\ RoomOK(old) /\ GhostOK(old))'
  <2>1. EventOK(old) /\ TokenOK(old) /\ RoomOK(old) /\ GhostOK(old)
    BY DEF ImportInv
  <2>2. EventOK(old)'
    BY <1>2, <1>3, <1>4, <2>1 DEF EventOK
  <2>3. TokenOK(old)' /\ RoomOK(old)'
    BY <1>1, <1>2, <1>4, <2>1 DEF TokenOK, RoomOK
  <2>4. GhostOK(old)'
    BY <1>2, <1>3, <1>4, <2>1 DEF GhostOK
  <2> QED
    BY <2>2, <2>3, <2>4
<1>6. PendingOK' /\ OwnIds(installed'.nedb)
  BY DEF ImportInv, PendingOK
<1>7. \A t \in Tokens : tokenMap'[t] \in {None, TeamOfToken[t]}
  BY <1>2 DEF ImportInv
<1> QED
  BY <1>5, <1>6, <1>7 DEF ImportInv

\* A write that fails: the migration does not pass that row, nor any other.
LEMMA ImportFails ==
  ASSUME DatabaseTypeOK, ImportInv, NEW row \in pending, phase = "importing",
         aborted' = TRUE, pending' = pending \ {row},
         UNCHANGED <<installed, phase, stage, pgTeams, tokenMap, pgRooms, pgRows>>
  PROVE  ImportInv'
<1>1. \A k, old : Passed(k, old)' => Passed(k, old)
  BY DEF Passed
<1>2. \A old \in installed.nedb : (EventOK(old) /\ TokenOK(old) /\ RoomOK(old) /\ GhostOK(old))'
  BY <1>1 DEF ImportInv, EventOK, TokenOK, RoomOK, GhostOK
<1>3. PendingOK' /\ OwnIds(installed'.nedb)
      /\ \A t \in Tokens : tokenMap'[t] \in {None, TeamOfToken[t]}
  BY DEF ImportInv, PendingOK
<1> QED
  BY <1>2, <1>3 DEF ImportInv

\* An import that is over, or that is given up, has passed nothing.
LEMMA ImportEnds ==
  ASSUME ImportInv, NotImporting', phase' = "off",
         UNCHANGED <<installed, pgTeams, pgRooms, pgRows>>
  PROVE  ImportInv'
<1>1. stage' = 1 /\ pending' = {} /\ \A t \in Tokens : tokenMap'[t] = None
  BY DEF NotImporting
<1>2. \A old : /\ ~Passed(1, old)' /\ ~Passed(2, old)' /\ ~Passed(4, old)' /\ ~Passed(5, old)'
  BY <1>1 DEF Passed
<1>3. \A old \in installed.nedb : (EventOK(old) /\ TokenOK(old) /\ GhostOK(old))'
  BY <1>2 DEF EventOK, TokenOK, GhostOK
<1>4. \A old \in installed.nedb : RoomOK(old)'
  BY <1>2 DEF ImportInv, RoomOK
<1>5. PendingOK' /\ OwnIds(installed'.nedb)
  BY <1>1 DEF ImportInv, PendingOK
<1> QED
  BY <1>1, <1>3, <1>4, <1>5 DEF ImportInv

LEMMA ImportNextStage ==
  ASSUME DatabaseTypeOK, ImportInv, NextStage
  PROVE  ImportInv'
<1>1. /\ UNCHANGED <<installed, pgTeams, pgRooms, pgRows>> /\ phase = "importing" /\ pending = {}
      /\ stage \in 1..6
  BY StageNames DEF NextStage, tables, DatabaseTypeOK
<1>2. CASE NotImporting' /\ phase' = "off"
  BY <1>1, <1>2, ImportEnds
<1>3. CASE /\ ~aborted /\ stage # 6
           /\ stage' = stage + 1 /\ pending' = RowsOfStage(Stages[stage + 1])
           /\ UNCHANGED <<phase, tokenMap, aborted>>
  <2>1. \A k \in Nat : \A old : Passed(k, old)' =>
            \/ Passed(k, old)
            \/ stage + 1 = k /\ old \notin RowsOfStage(Stages[k])
    BY <1>1, <1>3 DEF Passed
  <2>2. ASSUME NEW old \in installed.nedb
        PROVE  /\ stage + 1 # 1
               /\ old.kind = "room" /\ old.token # None => old \in RowsOfStage(Stages[2])
               /\ old.kind = "room" => old \in RowsOfStage(Stages[4])
               /\ old.kind = "ghost" => old \in RowsOfStage(Stages[5])
    BY <1>1, StageNames DEF RowsOfStage
  <2>3. ASSUME NEW old \in installed.nedb
        PROVE  (EventOK(old) /\ TokenOK(old) /\ RoomOK(old) /\ GhostOK(old))'
    <3>1. EventOK(old) /\ TokenOK(old) /\ RoomOK(old) /\ GhostOK(old)
      BY DEF ImportInv
    <3>2. Passed(1, old)' => Passed(1, old)
      BY <2>1, <2>2
    <3>3. old.kind = "room" /\ old.token # None /\ Passed(2, old)' => Passed(2, old)
      BY <2>1, <2>2
    <3>4. old.kind = "room" /\ Passed(4, old)' => Passed(4, old)
      BY <2>1, <2>2
    <3>5. old.kind = "ghost" /\ Passed(5, old)' => Passed(5, old)
      BY <2>1, <2>2
    <3> QED
      BY <1>1, <1>3, <3>1, <3>2, <3>3, <3>4, <3>5 DEF EventOK, TokenOK, RoomOK, GhostOK
  <2>4. PendingOK'
    <3> SUFFICES ASSUME NEW old \in RowsOfStage(Stages[stage + 1])
                 PROVE  IF stage + 1 = 2 THEN old.kind = "room" /\ old.token # None
                        ELSE old.kind = Stages[stage + 1]
      BY <1>3 DEF PendingOK
    <3>1. stage + 1 \in 2..6
      BY <1>1, <1>3
    <3>2. CASE stage + 1 = 2
      BY <3>2, StageNames DEF RowsOfStage
    <3>3. CASE stage + 1 = 3
      BY <3>3, StageNames DEF RowsOfStage
    <3>4. CASE stage + 1 \in 4..6
      BY <3>4, StageNames DEF RowsOfStage
    <3> QED
      BY <3>1, <3>2, <3>3, <3>4
  <2>5. (\A t \in Tokens : tokenMap[t] \in {None, TeamOfToken[t]})' /\ OwnIds(installed'.nedb)
    BY <1>1, <1>3 DEF ImportInv
  <2> QED
    BY <1>1, <1>3, <2>3, <2>4, <2>5 DEF ImportInv
<1> QED
  BY <1>2, <1>3, StageNames DEF NextStage, NotImporting

LEMMA ImportStep ==
  ASSUME DatabaseTypeOK, SchemaInv, ImportInv, DatabaseStep \/ Die \/ UNCHANGED dbVars
  PROVE  ImportInv'
<1>1. CASE StartProcess
  BY <1>1, ImportAlone DEF StartProcess, tables, importing
<1>2. CASE GetSchemaVersion
  <2>1. /\ phase = "reading"
        /\ UNCHANGED <<installed, stage, tokenMap, aborted, pgTeams, pgRooms, pgRows>>
    BY <1>2 DEF GetSchemaVersion, tables
  <2>2. CASE HasSchema
    BY <2>1, <2>2, ImportStarts
  <2>3. CASE UNCHANGED pending /\ phase' \in {"upgrading", "off"}
    BY <2>1, <2>3, ImportAlone
  <2> QED
    BY <1>2, <2>2, <2>3 DEF GetSchemaVersion
<1>3. CASE RunSchema
  <2>1. /\ UNCHANGED <<installed, stage, pending, tokenMap, aborted, pgTeams, pgRooms, pgRows>>
        /\ phase = "upgrading" /\ phase' # "importing"
    BY <1>3 DEF RunSchema, importing
  <2> QED
    BY <2>1, ImportAlone
<1>4. CASE UpdateSchemaVersion
  <2>1. /\ phase = "recording"
        /\ UNCHANGED <<installed, stage, tokenMap, aborted, pgTeams, pgRooms, pgRows>>
    BY <1>4 DEF UpdateSchemaVersion
  <2>2. CASE HasSchema
    BY <2>1, <2>2, ImportStarts
  <2>3. CASE UNCHANGED pending /\ phase' = "upgrading"
    BY <2>1, <2>3, ImportAlone
  <2> QED
    BY <1>4, <2>2, <2>3 DEF UpdateSchemaVersion
<1>5. CASE TellUsers
  <2>1. /\ UNCHANGED <<installed, stage, pending, tokenMap, aborted, pgTeams, pgRooms, pgRows>>
        /\ phase = "telling" /\ phase' # "importing"
    BY <1>5 DEF TellUsers, tables, importing
  <2> QED
    BY <2>1, ImportAlone
<1>6. CASE MigrateOne
  <2>1. PICK row \in pending :
          /\ phase = "importing" /\ pending' = pending \ {row}
          /\ \/ /\ MigrateTeam(row) \/ MigrateRoom(row) \/ MigrateGhost(row) \/ MigrateRow(row)
                /\ UNCHANGED aborted
             \/ aborted' = TRUE /\ UNCHANGED <<pgTeams, tokenMap, pgRooms, pgRows>>
          /\ UNCHANGED <<installed, phase, stage>>
    BY <1>6 DEF MigrateOne
  <2> QED
    BY <2>1, ImportTeams, ImportRooms, ImportRows, ImportFails
<1>7. CASE NextStage
  BY <1>7, ImportNextStage
<1>8. CASE Die
  BY <1>8, ImportEnds DEF Die, tables, NotImporting
<1>9. CASE UNCHANGED dbVars
  BY <1>9, ImportAlone DEF dbVars, tables, importing
<1> QED
  BY <1>1, <1>2, <1>3, <1>4, <1>5, <1>6, <1>7, <1>8, <1>9 DEF DatabaseStep

LEMMA InvImported ==
  ASSUME DatabaseTypeOK, ImportInv
  PROVE  Imported
<1>1. Stages[stage] = "matrixUser" => stage = 6
  BY StageNames DEF DatabaseTypeOK
<1>2. ASSUME NEW row \in installed.nedb, phase = "importing", Stages[stage] = "matrixUser"
      PROVE  /\ row.kind = "room" => pgRooms[row.id] # "absent"
             /\ row.kind = "event" => row \in pgRows
             /\ row.kind = "ghost" =>
                  row \in pgRows \/ (~row.known /\ pgTeams[row.team] = None)
  <2>1. Passed(1, row) /\ Passed(4, row) /\ Passed(5, row)
    BY <1>1, <1>2 DEF Passed
  <2> QED
    BY <2>1 DEF ImportInv, EventOK, RoomOK, GhostOK
<1>3. ASSUME ~installed.flaky, NEW row \in installed.nedb
      PROVE  row.kind = "room" /\ row.token # None /\ row.key = "slack_bot_token"
               => pgRooms[row.id] \in {"absent", TeamOfToken[row.token]}
  BY <1>3 DEF ImportInv, RoomOK
<1> QED
  BY <1>2, <1>3 DEF Imported

-----------------------------------------------------------------------------
LEMMA DatabaseKeeps ==
  ASSUME DatabaseInv, DatabaseStep \/ Die \/ UNCHANGED dbVars
  PROVE  DatabaseInv'
<1>1. PendingOK
  BY DEF DatabaseInv, ImportInv
<1> QED
  BY <1>1, SchemaStep, TypeStep, UpgradeStep, ImportStep DEF DatabaseInv

-----------------------------------------------------------------------------
(* The queue of commands: AdminCommands *)

\* A command before c failed, and all since then would have waited.
HeardOf(c) ==
    \E e \in Earlier(c) :
        /\ Failed(e)
        /\ \A f \in Earlier(c) : f > e => commands[f].line \notin AtOnce

\* The sender's last command is where the map says.
LatestOK ==
    \A s \in Senders :
        \/ latest[s] = 0 /\ \A c \in Issued : commands[c].sender # s
        \/ /\ latest[s] \in Issued /\ commands[latest[s]].sender = s
           /\ \A c \in Issued : commands[c].sender = s => c <= latest[s]

\* A command waits for the last one before it of the same sender.
BeforeOK ==
    \A c \in Issued :
        \/ commands[c].before = 0 /\ Earlier(c) = {}
        \/ /\ commands[c].before \in Earlier(c)
           /\ \A d \in Earlier(c) : d <= commands[c].before

\* What a command's fields say of each other.
StateOK(q) ==
    /\ q.state = "queued" => ~q.failed /\ q.waiter = "pending" /\ q.reply = "none"
    /\ q.state = "runs" => /\ ~q.failed /\ q.line \notin AtOnce
                           /\ q.waiter # "pending" => q.reply = "other"
    /\ q.waiter = "rejected" => q.failed \/ q.reply = "other"
    /\ q.reply = "other" => q.line \notin AtOnce

StatesOK == \A c \in Issued : StateOK(commands[c])

\* An error that is not the command's own comes down the queue.
AnsweredOK ==
    \A c \in Issued : commands[c].reply = "other" =>
        LET b == commands[c].before IN
        /\ b # 0
        /\ Failed(b) \/ commands[b].reply = "other"
        /\ HeardOf(c)

QueueInv ==
    CommandsTypeOK /\ LatestOK /\ BeforeOK /\ StatesOK /\ AnsweredOK /\ CommandsInOrder

-----------------------------------------------------------------------------
LEMMA IssuedIsRange ==
  ASSUME commands \in Seq(CommandType)
  PROVE  Issued = 1..Len(commands) /\ Len(commands) \in Nat
         /\ \A c \in Issued : commands[c] \in CommandType /\ c \in Nat \ {0}
  BY DEF Issued

\* The queue is empty at first.
LEMMA QueueStarts == CommandsInit => QueueInv
<1> SUFFICES ASSUME CommandsInit PROVE QueueInv
  OBVIOUS
<1>1. commands \in Seq(CommandType) /\ Len(commands) = 0 /\ Issued = {}
  BY DEF CommandsInit, Issued
<1>2. CommandsTypeOK /\ LatestOK
  BY <1>1, AdminCommandsAssumption
  DEF CommandsInit, CommandsTypeOK, LatestOK, AdminCommandsAssumption
<1> QED
  BY <1>1, <1>2 DEF QueueInv, BeforeOK, StatesOK, AnsweredOK, CommandsInOrder

\* And after a process died.
LEMMA QueueRestarts ==
  ASSUME commands' = <<>>, latest' = [s \in Senders |-> 0]
  PROVE  QueueInv'
<1>1. commands' \in Seq(CommandType) /\ Len(commands') = 0 /\ Issued' = {}
  BY DEF Issued
<1>2. CommandsTypeOK' /\ LatestOK'
  BY <1>1, AdminCommandsAssumption DEF CommandsTypeOK, LatestOK, AdminCommandsAssumption
<1> QED
  BY <1>1, <1>2 DEF QueueInv, BeforeOK, StatesOK, AnsweredOK, CommandsInOrder

-----------------------------------------------------------------------------
(* A step of a command that is there *)

\* Begin and End change one command, and of it neither who wrote it, nor what,
\* nor what it waits for.
Moves(c, r) ==
    /\ r \in CommandType /\ StateOK(r) /\ r.state # "queued"
    /\ r.sender = commands[c].sender /\ r.line = commands[c].line
    /\ r.before = commands[c].before
    /\ Failed(c) => r.failed
    /\ commands[c].reply = "other" => r.reply = "other"
    /\ commands[c].state = "queued" =>
         Free(c) /\ (r.reply = "other" => Poisoned(c))
    /\ commands[c].state # "queued" => r.state = "ended" /\ r.reply \in {commands[c].reply, "own"}

LEMMA RunMovesOne ==
  ASSUME commands \in Seq(CommandType), StatesOK, NEW c \in Issued, Begin(c) \/ End(c)
  PROVE  \E r \in CommandType : Moves(c, r) /\ commands' = [commands EXCEPT ![c] = r]
<1> DEFINE q == commands[c]
<1>1. q \in CommandType /\ StateOK(q)
  BY IssuedIsRange DEF StatesOK
<1>2. CASE Begin(c)
  <2>1. q.state = "queued" /\ Free(c) /\ ~Failed(c) /\ q.reply = "none"
    BY <1>1, <1>2 DEF Begin, StateOK, Failed
  <2>2. CASE q.line \in Misused /\ Becomes(c, "ended", TRUE, "rejected", "own")
    <3> DEFINE r == [q EXCEPT !.state = "ended", !.failed = TRUE, !.waiter = "rejected",
                              !.reply = "own"]
    <3>1. commands' = [commands EXCEPT ![c] = r]
      BY <2>2 DEF Becomes
    <3>2. /\ r \in CommandType /\ r.state = "ended" /\ r.failed = TRUE /\ r.waiter = "rejected"
          /\ r.reply = "own" /\ r.sender = q.sender /\ r.line = q.line /\ r.before = q.before
      BY <1>1 DEF CommandType
    <3> HIDE DEF r
    <3>3. StateOK(r)
      BY <2>2, <3>2 DEF StateOK
    <3> QED
      BY <2>1, <2>2, <3>1, <3>2, <3>3 DEF Moves
  <2>3. CASE q.line \in AtOnce /\ Becomes(c, "ended", FALSE, "resolved", "own")
    <3> DEFINE r == [q EXCEPT !.state = "ended", !.failed = FALSE, !.waiter = "resolved",
                              !.reply = "own"]
    <3>1. commands' = [commands EXCEPT ![c] = r]
      BY <2>3 DEF Becomes
    <3>2. /\ r \in CommandType /\ r.state = "ended" /\ r.failed = FALSE /\ r.waiter = "resolved"
          /\ r.reply = "own" /\ r.sender = q.sender /\ r.line = q.line /\ r.before = q.before
      BY <1>1 DEF CommandType
    <3> HIDE DEF r
    <3>3. StateOK(r)
      BY <2>3, <3>2 DEF StateOK
    <3> QED
      BY <2>1, <2>3, <3>1, <3>2, <3>3 DEF Moves
  <2>4. CASE /\ q.line \notin Misused \cup AtOnce /\ Poisoned(c)
             /\ Becomes(c, "runs", FALSE, "rejected", "other")
    <3> DEFINE r == [q EXCEPT !.state = "runs", !.failed = FALSE, !.waiter = "rejected",
                              !.reply = "other"]
    <3>1. commands' = [commands EXCEPT ![c] = r]
      BY <2>4 DEF Becomes
    <3>2. /\ r \in CommandType /\ r.state = "runs" /\ r.failed = FALSE /\ r.waiter = "rejected"
          /\ r.reply = "other" /\ r.sender = q.sender /\ r.line = q.line /\ r.before = q.before
      BY <1>1 DEF CommandType
    <3> HIDE DEF r
    <3>3. StateOK(r)
      BY <2>4, <3>2 DEF StateOK
    <3> QED
      BY <2>1, <2>4, <3>1, <3>2, <3>3 DEF Moves
  <2>5. CASE /\ q.line \notin Misused \cup AtOnce /\ ~Poisoned(c)
             /\ Becomes(c, "runs", FALSE, "pending", "none")
    <3> DEFINE r == [q EXCEPT !.state = "runs", !.failed = FALSE, !.waiter = "pending",
                              !.reply = "none"]
    <3>1. commands' = [commands EXCEPT ![c] = r]
      BY <2>5 DEF Becomes
    <3>2. /\ r \in CommandType /\ r.state = "runs" /\ r.failed = FALSE /\ r.waiter = "pending"
          /\ r.reply = "none" /\ r.sender = q.sender /\ r.line = q.line /\ r.before = q.before
      BY <1>1 DEF CommandType
    <3> HIDE DEF r
    <3>3. StateOK(r)
      BY <2>5, <3>2 DEF StateOK
    <3> QED
      BY <2>1, <2>5, <3>1, <3>2, <3>3 DEF Moves
  <2> QED
    BY <1>2, <2>2, <2>3, <2>4, <2>5 DEF Begin
<1>3. CASE End(c)
  <2>1. q.state = "runs" /\ ~Failed(c) /\ q.line \notin AtOnce
    BY <1>1, <1>3 DEF End, StateOK, Failed
  <2>2. PICK failed \in BOOLEAN :
          Becomes(c, "ended", failed,
                  IF q.waiter = "pending" THEN Settled(c, failed) ELSE q.waiter,
                  IF q.reply = "none" /\ Settled(c, failed) # "pending" THEN "own" ELSE q.reply)
    BY <1>3 DEF End
  <2> DEFINE waiter == IF q.waiter = "pending" THEN Settled(c, failed) ELSE q.waiter
             reply == IF q.reply = "none" /\ Settled(c, failed) # "pending" THEN "own"
                      ELSE q.reply
  <2>3. waiter \in {"pending", "resolved", "rejected"} /\ reply \in {"none", "own", "other"}
    BY <1>1 DEF CommandType, Settled
  <2>4. /\ waiter = "rejected" => failed \/ reply = "other"
        /\ reply = "other" <=> q.reply = "other"
        /\ reply \in {q.reply, "own"}
    BY <1>1, <2>1 DEF StateOK, Settled
  <2> HIDE DEF waiter, reply
  <2> DEFINE r == [q EXCEPT !.state = "ended", !.failed = failed, !.waiter = waiter,
                            !.reply = reply]
  <2>5. commands' = [commands EXCEPT ![c] = r]
    BY <2>2 DEF Becomes, waiter, reply
  <2>6. /\ r \in CommandType /\ r.state = "ended" /\ r.failed = failed /\ r.waiter = waiter
        /\ r.reply = reply /\ r.sender = q.sender /\ r.line = q.line /\ r.before = q.before
    BY <1>1, <2>3 DEF CommandType
  <2> HIDE DEF r
  <2>7. StateOK(r)
    BY <1>1, <2>1, <2>4, <2>6 DEF StateOK
  <2> QED
    BY <2>1, <2>4, <2>5, <2>6, <2>7 DEF Moves
<1> QED
  BY <1>2, <1>3

\* What a step leaves as it is, or makes no less true.
LEMMA RunKeeps ==
  ASSUME commands \in Seq(CommandType), NEW c \in Issued, NEW r \in CommandType,
         Moves(c, r), commands' = [commands EXCEPT ![c] = r]
  PROVE  /\ commands' \in Seq(CommandType) /\ Len(commands') = Len(commands) /\ Issued' = Issued
         /\ \A d \in Issued :
              /\ commands'[d] = IF d = c THEN r ELSE commands[d]
              /\ commands'[d].sender = commands[d].sender
              /\ commands'[d].line = commands[d].line
              /\ commands'[d].before = commands[d].before
              /\ Earlier(d)' = Earlier(d)
              /\ Failed(d) => Failed(d)'
              /\ HeardOf(d) => HeardOf(d)'
<1>1. c \in 1..Len(commands) /\ Issued = 1..Len(commands)
  BY IssuedIsRange
<1>2. /\ commands' \in Seq(CommandType) /\ Len(commands') = Len(commands)
      /\ \A d \in Issued : commands'[d] = IF d = c THEN r ELSE commands[d]
  <2> DEFINE new == [commands EXCEPT ![c] = r]
  <2>1. /\ new \in Seq(CommandType) /\ Len(new) = Len(commands)
        /\ \A d \in 1..Len(commands) : new[d] = IF d = c THEN r ELSE commands[d]
    BY <1>1, ExceptSeq
  <2> QED
    BY <1>1, <2>1
<1>3. Issued' = Issued
  BY <1>1, <1>2 DEF Issued
<1>4. \A d \in Issued :
        /\ commands'[d].sender = commands[d].sender
        /\ commands'[d].line = commands[d].line
        /\ commands'[d].before = commands[d].before
        /\ Failed(d) => Failed(d)'
  BY <1>2 DEF Moves, Failed
<1>5. \A d \in Issued : Earlier(d)' = Earlier(d)
  BY <1>3, <1>4 DEF Earlier
<1>6. \A d \in Issued : HeardOf(d) => HeardOf(d)'
  <2> SUFFICES ASSUME NEW d \in Issued, HeardOf(d) PROVE HeardOf(d)'
    OBVIOUS
  <2>1. PICK e \in Earlier(d) :
          Failed(e) /\ \A f \in Earlier(d) : f > e => commands[f].line \notin AtOnce
    BY DEF HeardOf
  <2>2. Earlier(d) \subseteq Issued
    BY DEF Earlier
  <2>3. e \in Earlier(d)' /\ Failed(e)'
    BY <1>4, <1>5, <2>1, <2>2
  <2>4. \A f \in Earlier(d)' : f > e => commands'[f].line \notin AtOnce
    BY <1>4, <1>5, <2>1, <2>2
  <2> QED
    BY <2>3, <2>4 DEF HeardOf
<1> QED
  BY <1>2, <1>3, <1>4, <1>5, <1>6

\* A command that is told of another's error has that error in its past.
LEMMA PoisonIsHeard ==
  ASSUME QueueInv, NEW c \in Issued, Poisoned(c)
  PROVE  /\ commands[c].before \in Earlier(c)
         /\ Failed(commands[c].before) \/ commands[commands[c].before].reply = "other"
         /\ HeardOf(c)
<1> DEFINE b == commands[c].before
<1>1. b # 0 /\ commands[b].waiter = "rejected"
  BY DEF Poisoned
<1>2. b \in Earlier(c) /\ \A d \in Earlier(c) : d <= b
  BY <1>1 DEF QueueInv, BeforeOK
<1>3. b \in Issued /\ Earlier(b) \subseteq Earlier(c) /\ Earlier(c) \subseteq Issued
      /\ \A d \in Earlier(c) : d = b \/ d \in Earlier(b)
  BY <1>2, IssuedIsRange DEF Earlier, QueueInv, CommandsTypeOK
<1>4. Failed(b) \/ commands[b].reply = "other"
  BY <1>1, <1>3 DEF QueueInv, StatesOK, StateOK, Failed
<1>5. CASE Failed(b)
  <2>1. \A f \in Earlier(c) : ~(f > b)
    BY <1>2, <1>3, IssuedIsRange DEF QueueInv, CommandsTypeOK
  <2> QED
    BY <1>2, <1>4, <1>5, <2>1 DEF HeardOf
<1>6. CASE commands[b].reply = "other"
  <2>1. HeardOf(b) /\ commands[b].line \notin AtOnce
    BY <1>3, <1>6 DEF QueueInv, AnsweredOK, StatesOK, StateOK
  <2>2. HeardOf(c)
    BY <1>3, <2>1 DEF HeardOf
  <2> QED
    BY <1>2, <1>4, <2>2
<1> QED
  BY <1>4, <1>5, <1>6

\* A command that runs on after its turn has been told of another's error.
LEMMA RunsIsHeard ==
  ASSUME QueueInv, NEW c \in Issued, NEW d \in Issued, Free(c),
         d = commands[c].before, commands[d].state = "runs"
  PROVE  HeardOf(d)
<1>1. d # 0
  BY IssuedIsRange DEF QueueInv, CommandsTypeOK
<1>2. commands[d].waiter # "pending"
  BY <1>1 DEF Free
<1>3. commands[d].reply = "other"
  BY <1>2 DEF QueueInv, StatesOK, StateOK
<1> QED
  BY <1>3 DEF QueueInv, AnsweredOK

LEMMA RunKeepsInv ==
  ASSUME QueueInv, NEW c \in Issued, Begin(c) \/ End(c)
  PROVE  QueueInv'
<1>1. commands \in Seq(CommandType) /\ latest' = latest
  BY DEF QueueInv, CommandsTypeOK, Begin, End
<1>2. PICK r \in CommandType : Moves(c, r) /\ commands' = [commands EXCEPT ![c] = r]
  BY <1>1, RunMovesOne DEF QueueInv
<1>3. /\ commands' \in Seq(CommandType) /\ Len(commands') = Len(commands) /\ Issued' = Issued
      /\ \A d \in Issued :
           /\ commands'[d] = IF d = c THEN r ELSE commands[d]
           /\ commands'[d].sender = commands[d].sender
           /\ commands'[d].line = commands[d].line
           /\ commands'[d].before = commands[d].before
           /\ Earlier(d)' = Earlier(d)
           /\ Failed(d) => Failed(d)'
           /\ HeardOf(d) => HeardOf(d)'
  BY <1>1, <1>2, RunKeeps
<1>4. CommandsTypeOK'
  BY <1>1, <1>3 DEF QueueInv, CommandsTypeOK
<1>5. LatestOK'
  BY <1>1, <1>3 DEF QueueInv, LatestOK
<1>6. BeforeOK'
  BY <1>3 DEF QueueInv, BeforeOK
<1>7. StatesOK'
  BY <1>2, <1>3 DEF QueueInv, StatesOK, Moves
<1>8. AnsweredOK'
  <2> SUFFICES ASSUME NEW d \in Issued, commands'[d].reply = "other"
               PROVE  /\ commands[d].before # 0
                      /\ \/ Failed(commands[d].before)'
                         \/ commands'[commands[d].before].reply = "other"
                      /\ HeardOf(d)'
    BY <1>3 DEF AnsweredOK
  <2> DEFINE b == commands[d].before
  <2>1. b \in Issued /\ (Failed(b) \/ commands[b].reply = "other") /\ HeardOf(d)
    <3>1. CASE commands[d].reply = "other"
      BY <3>1 DEF QueueInv, AnsweredOK, BeforeOK, Earlier
    <3>2. CASE commands[d].reply # "other"
      <4>1. d = c /\ Poisoned(c)
        BY <1>2, <1>3, <3>2 DEF Moves
      <4> QED
        BY <4>1, PoisonIsHeard DEF Earlier
    <3> QED
      BY <3>1, <3>2
  <2>2. Failed(b)' \/ commands'[b].reply = "other"
    BY <1>2, <1>3, <2>1 DEF Moves
  <2>3. b # 0
    BY <1>1, <2>1, IssuedIsRange
  <2> QED
    BY <1>3, <2>1, <2>2, <2>3
<1>9. CommandsInOrder'
  <2> SUFFICES ASSUME NEW d \in Issued, commands'[d].state # "queued", NEW e \in Earlier(d)
               PROVE  /\ commands'[e].state # "queued"
                      /\ commands'[e].state = "runs" => HeardOf(e)'
    BY <1>3 DEF CommandsInOrder, HeardOf, Issued
  <2>1. e \in Issued /\ Earlier(d) \subseteq Issued
    BY DEF Earlier
  <2>2. commands[e].state # "queued" /\ (commands[e].state = "runs" => HeardOf(e))
    <3>1. CASE commands[d].state # "queued"
      BY <3>1 DEF QueueInv, CommandsInOrder, HeardOf
    <3>2. CASE commands[d].state = "queued"
      <4> DEFINE b == commands[d].before
      <4>1. d = c /\ Free(d)
        BY <1>2, <1>3, <3>2 DEF Moves
      <4>2. b \in Earlier(d) /\ b \in Issued /\ (e = b \/ e \in Earlier(b))
        BY <1>1, <2>1, IssuedIsRange DEF QueueInv, BeforeOK, Earlier
      <4>3. b # 0 /\ commands[b].waiter # "pending"
        BY <1>1, <4>1, <4>2, IssuedIsRange DEF Free
      <4>4. commands[b].state # "queued"
        BY <4>2, <4>3 DEF QueueInv, StatesOK, StateOK
      <4>5. commands[b].state = "runs" => HeardOf(b)
        BY <4>1, <4>2, RunsIsHeard
      <4>6. CASE e \in Earlier(b)
        BY <4>2, <4>4, <4>6 DEF QueueInv, CommandsInOrder, HeardOf
      <4> QED
        BY <4>2, <4>4, <4>5, <4>6
    <3> QED
      BY <3>1, <3>2
  <2>3. commands'[e].state # "queued"
    BY <1>2, <1>3, <2>1, <2>2 DEF Moves
  <2>4. commands'[e].state = "runs" => commands[e].state = "runs"
    BY <1>2, <1>3, <2>1, <2>2 DEF Moves
  <2> QED
    BY <1>3, <2>1, <2>2, <2>3, <2>4
<1> QED
  BY <1>4, <1>5, <1>6, <1>7, <1>8, <1>9 DEF QueueInv

-----------------------------------------------------------------------------
(* A new command *)

LEMMA IssueKeepsInv ==
  ASSUME QueueInv, NEW s \in Senders, NEW line \in Lines, Issue(s, line)
  PROVE  QueueInv'
<1>0. PICK n : n = Len(commands) + 1
  OBVIOUS
<1> DEFINE q == [sender |-> s, line |-> line, before |-> latest[s], state |-> "queued",
                 failed |-> FALSE, waiter |-> "pending", reply |-> "none"]
<1>1. commands \in Seq(CommandType) /\ Issued = 1..Len(commands) /\ Len(commands) \in Nat
  BY IssuedIsRange DEF QueueInv, CommandsTypeOK
<1>2. /\ Len(commands) < MaxCommands /\ commands' = Append(commands, q)
      /\ latest' = [latest EXCEPT ![s] = n]
  BY <1>0 DEF Issue, Latest
<1>3. q \in CommandType
  BY AdminCommandsAssumption
  DEF CommandType, QueueInv, CommandsTypeOK, AdminCommandsAssumption
<1> HIDE DEF q
<1>4. /\ commands' \in Seq(CommandType) /\ Len(commands') = n /\ commands'[n] = q
      /\ \A c \in Issued : commands'[c] = commands[c]
  BY <1>0, <1>1, <1>2, <1>3, AppendProperties
<1>5. Issued' = Issued \cup {n} /\ n \notin Issued /\ \A c \in Issued : c < n
  BY <1>0, <1>1, <1>4 DEF Issued
<1>6. \A c \in Issued : Earlier(c)' = Earlier(c)
  BY <1>1, <1>4, <1>5 DEF Earlier
<1>7. \A c \in Issued : HeardOf(c) => HeardOf(c)'
  <2> SUFFICES ASSUME NEW c \in Issued, HeardOf(c) PROVE HeardOf(c)'
    OBVIOUS
  <2>1. PICK e \in Earlier(c) :
          Failed(e) /\ \A f \in Earlier(c) : f > e => commands[f].line \notin AtOnce
    BY DEF HeardOf
  <2>2. Earlier(c) \subseteq Issued
    BY DEF Earlier
  <2> QED
    BY <1>4, <1>6, <2>1, <2>2 DEF HeardOf, Failed
<1>8. /\ q.state = "queued" /\ ~q.failed /\ q.waiter = "pending" /\ q.reply = "none"
      /\ q.sender = s /\ q.before = latest[s]
  BY DEF q
<1>9. CommandsTypeOK'
  BY <1>0, <1>1, <1>2, <1>4, AdminCommandsAssumption
  DEF QueueInv, CommandsTypeOK, AdminCommandsAssumption
<1>10. LatestOK'
  <2> SUFFICES ASSUME NEW t \in Senders
               PROVE  \/ latest'[t] = 0 /\ \A c \in Issued' : commands'[c].sender # t
                      \/ /\ latest'[t] \in Issued' /\ commands'[latest'[t]].sender = t
                         /\ \A c \in Issued' : commands'[c].sender = t => c <= latest'[t]
    BY DEF LatestOK
  <2>1. CASE t = s
    <3>1. latest'[t] = n
      BY <1>2, <2>1 DEF QueueInv, CommandsTypeOK
    <3> QED
      BY <1>1, <1>4, <1>5, <1>8, <2>1, <3>1
  <2>2. CASE t # s
    <3>1. latest'[t] = latest[t]
      BY <1>2, <2>2 DEF QueueInv, CommandsTypeOK
    <3> QED
      BY <1>4, <1>5, <1>8, <2>2, <3>1 DEF QueueInv, LatestOK
  <2> QED
    BY <2>1, <2>2
<1>11. BeforeOK'
  <2>1. Earlier(n)' = {d \in Issued : commands[d].sender = s}
    BY <1>1, <1>4, <1>5, <1>8 DEF Earlier
  <2>2. \/ commands'[n].before = 0 /\ Earlier(n)' = {}
        \/ /\ commands'[n].before \in Earlier(n)'
           /\ \A d \in Earlier(n)' : d <= commands'[n].before
    BY <1>4, <1>8, <2>1 DEF QueueInv, LatestOK
  <2> QED
    BY <1>4, <1>5, <1>6, <2>2 DEF QueueInv, BeforeOK
<1>12. StatesOK'
  BY <1>4, <1>5, <1>8 DEF QueueInv, StatesOK, StateOK
<1>13. AnsweredOK'
  <2> SUFFICES ASSUME NEW c \in Issued, commands[c].reply = "other"
               PROVE  /\ commands[c].before # 0
                      /\ \/ Failed(commands[c].before)'
                         \/ commands'[commands[c].before].reply = "other"
                      /\ HeardOf(c)'
    BY <1>4, <1>5, <1>8 DEF AnsweredOK
  <2>1. /\ commands[c].before # 0 /\ HeardOf(c)
        /\ Failed(commands[c].before) \/ commands[commands[c].before].reply = "other"
    BY DEF QueueInv, AnsweredOK
  <2>2. commands[c].before \in Issued
    BY <2>1 DEF QueueInv, BeforeOK, Earlier
  <2> QED
    BY <1>4, <1>7, <2>1, <2>2 DEF Failed
<1>14. CommandsInOrder'
  <2> SUFFICES ASSUME NEW c \in Issued, commands[c].state # "queued", NEW d \in Earlier(c)
               PROVE  /\ commands'[d].state # "queued"
                      /\ commands'[d].state = "runs" => HeardOf(d)'
    BY <1>4, <1>5, <1>6, <1>8 DEF CommandsInOrder, HeardOf, Issued
  <2>1. d \in Issued
    BY DEF Earlier
  <2>2. commands[d].state # "queued" /\ (commands[d].state = "runs" => HeardOf(d))
    BY DEF QueueInv, CommandsInOrder, HeardOf
  <2> QED
    BY <1>4, <1>7, <2>1, <2>2
<1> QED
  BY <1>9, <1>10, <1>11, <1>12, <1>13, <1>14 DEF QueueInv

-----------------------------------------------------------------------------
LEMMA QueueStepKeepsInv ==
  ASSUME QueueInv, IssueOne \/ RunOne
  PROVE  QueueInv'
  BY IssueKeepsInv, RunKeepsInv DEF IssueOne, RunOne

LEMMA InvRepliesTrue == QueueInv => RepliesTrue
<1> SUFFICES ASSUME QueueInv, NEW c \in Issued, commands[c].reply = "other"
             PROVE  LET b == commands[c].before IN
                    /\ b # 0 /\ commands[b].sender = commands[c].sender
                    /\ Failed(b) \/ commands[b].reply = "other"
                    /\ \A d \in Earlier(c) : (\A e \in Earlier(c) : e <= d) => d = b
  BY DEF RepliesTrue
<1> DEFINE b == commands[c].before
<1>1. b # 0 /\ (Failed(b) \/ commands[b].reply = "other")
  BY DEF QueueInv, AnsweredOK
<1>2. b \in Earlier(c) /\ \A d \in Earlier(c) : d <= b
  BY <1>1 DEF QueueInv, BeforeOK
<1>3. commands[b].sender = commands[c].sender
  BY <1>2 DEF Earlier
<1>4. \A d \in Earlier(c) : d \in Nat
  BY IssuedIsRange DEF QueueInv, CommandsTypeOK, Earlier
<1> QED
  BY <1>1, <1>2, <1>3, <1>4

-----------------------------------------------------------------------------
(* The process *)

ProcessInv == DatabaseInv /\ QueueInv /\ lost \in BOOLEAN

LEMMA ProcessStarts == Init => ProcessInv
<1> SUFFICES ASSUME Init PROVE ProcessInv
  OBVIOUS
<1>1. DatabaseInv
  BY DatabaseStarts, FoundAssumption DEF Init, FoundAssumption
<1>2. QueueInv /\ lost \in BOOLEAN
  BY QueueStarts DEF Init
<1> QED
  BY <1>1, <1>2 DEF ProcessInv

\* The queue does not look at the database, nor the database at the queue.
LEMMA QueueAlone ==
  ASSUME QueueInv, UNCHANGED cmdVars
  PROVE  QueueInv'
<1>1. commands' = commands /\ latest' = latest
  BY DEF cmdVars
<1>2. Issued' = Issued /\ \A c : Earlier(c)' = Earlier(c) /\ (HeardOf(c)' <=> HeardOf(c))
  BY <1>1 DEF Issued, Earlier, HeardOf, Failed
<1> QED
  BY <1>1, <1>2 DEF QueueInv, CommandsTypeOK, LatestOK, BeforeOK, StatesOK, AnsweredOK,
                   CommandsInOrder, Failed

LEMMA ProcessStep == ProcessInv /\ [Next]_vars => ProcessInv'
<1> SUFFICES ASSUME DatabaseInv, QueueInv, lost \in BOOLEAN, [Next]_vars
             PROVE  DatabaseInv' /\ QueueInv' /\ lost' \in BOOLEAN
  BY DEF ProcessInv
<1>1. CASE ComeUp
  BY <1>1, DatabaseKeeps, QueueAlone DEF ComeUp
<1>2. CASE Command
  <2>1. DatabaseInv' /\ lost' \in BOOLEAN
    BY <1>2, DatabaseKeeps DEF Command
  <2>2. IssueOne \/ RunOne
    BY <1>2 DEF Command
  <2> QED
    BY <2>1, <2>2, QueueStepKeepsInv
<1>3. CASE Crash
  BY <1>3, DatabaseKeeps, QueueRestarts DEF Crash
<1>4. CASE UNCHANGED vars
  BY <1>4, DatabaseKeeps, QueueAlone DEF vars
<1> QED
  BY <1>1, <1>2, <1>3, <1>4 DEF Next

\* The invariants of the database and of the queue hold of the process in every
\* state, whatever start-ups (Main.run), crashes, imports and commands do.
THEOREM ProcessInvariant == Spec => []ProcessInv
  BY ProcessStarts, ProcessStep, PTL DEF Spec

\* Whenever the process dies and however often: what the recorded version says
\* has run has run, no version is skipped, and the bridge is up on the latest
\* schema only (PgDatastore.ensureSchema).
THEOREM SchemaIsWhole == Spec => []SchemaWhole
<1>1. ProcessInv => SchemaWhole
  BY DEF ProcessInv, DatabaseInv, SchemaInv
<1> QED
  BY <1>1, ProcessInvariant, PTL

\* The tables, the place in ensureSchema or in migrateFromNedb and the queue of
\* commands have their types; a notice goes to a user (PgDatastore.runSchema).
THEOREM TypeCorrect == Spec => []TypeOK
<1>1. ProcessInv => TypeOK
  BY DEF ProcessInv, DatabaseInv, QueueInv, TypeOK
<1> QED
  BY <1>1, ProcessInvariant, PTL

\* Whatever the version the process found and however often it dies: schema
\* version 6 has copied every account once version 6 is recorded, 11 has moved
\* the dates of metrics once unless it was torn, and a bridge that is up has
\* told everyone of whom version 15 deleted puppets, unless it died before
\* (ensureSchema and the loop over its notices in Main.run).
THEOREM UpgradesKeep == Spec => []UpgradeKept
<1>1. ProcessInv => UpgradeKept
  BY InvUpgradeKept DEF ProcessInv, DatabaseInv
<1> QED
  BY <1>1, ProcessInvariant, PTL

\* For any rows in NeDB, written in any order: as long as Slack and the database
\* answer, a room has the team of its token, and an import that has come to its
\* last migration has left no room and no event behind, and no ghost of a team
\* that is known (migrateFromNedb).
THEOREM ImportsKeep == Spec => []Imported
<1>1. ProcessInv => Imported
  BY InvImported DEF ProcessInv, DatabaseInv
<1> QED
  BY <1>1, ProcessInvariant, PTL

\* AdminCommands.parse runs the commands of a sender one at a time and in
\* order, until one of them fails.
THEOREM CommandsAreInOrder == Spec => []CommandsInOrder
<1>1. ProcessInv => CommandsInOrder
  BY DEF ProcessInv, QueueInv
<1> QED
  BY <1>1, ProcessInvariant, PTL

\* Only the error of the sender's own last command, or one handed down to it,
\* is told to a sender in place of an answer (the finally and catch of parse).
THEOREM RepliesAreTrue == Spec => []RepliesTrue
<1>1. ProcessInv => RepliesTrue
  BY InvRepliesTrue DEF ProcessInv
<1> QED
  BY <1>1, ProcessInvariant, PTL
=============================================================================
