------------------------------ MODULE Database ------------------------------
(***************************************************************************)
(* How the database comes to be what the bridge needs before it does       *)
(* anything else: PgDatastore.ensureSchema, which runs the statements of   *)
(* datastore/postgres/schema/v1 ... v16 that are missing and records each  *)
(* version after it has run; the notices that Main.run sends to users who  *)
(* lose accounts by version 15; and scripts/migrateToPostgres, which reads *)
(* an installation kept by NedbDatastore and writes it to Postgres.        *)
(*                                                                         *)
(* A statement, or several sent as one query, is committed as a whole;     *)
(* between two of them the process can die, and comes up again with what   *)
(* the database says. What the tables hold is abstracted to what the       *)
(* migrations move. The state machine is part of BridgeProcess, which says *)
(* when its steps are taken.                                               *)
(***************************************************************************)
EXTENDS Integers, Sequences, FiniteSets

CONSTANTS
    MatrixUsers,    \* users with accounts, or with two puppets in one team
    OldItems,       \* names of rows of the NeDB stores
    Tokens,         \* bot tokens in the NeDB stores
    SlackTeams,     \* Slack teams
    TeamOfToken,    \* [Tokens -> SlackTeams \cup {None}]: None is refused
    MaxImports,     \* bound: how often the import is run
    None

LATEST_SCHEMA == 16
Versions == 1..LATEST_SCHEMA

\* What NedbDatastore reads out of its stores. key is the field a room has its
\* token in; a ghost may lack its team, which then is looked up by the domain in
\* its name. Of a Matrix user the accounts are not read.
OldEvents == [kind : {"event"}, id : OldItems]
OldRooms == [kind : {"room"}, id : OldItems, token : Tokens \cup {None},
             key : {"slack_bot_token", "access_token"}]
OldTeams == [kind : {"team"}, id : OldItems, token : Tokens]
OldUsers == [kind : {"matrixUser"}, id : OldItems]
              \cup [kind : {"ghost"}, id : OldItems, team : SlackTeams, known : BOOLEAN]
OldRows == OldEvents \cup OldRooms \cup OldTeams \cup OldUsers

\* An installation before the process runs: its schema, who has accounts in
\* "users", who has two puppets in a team, and what is in NeDB. flaky: calls
\* to Slack and to the database may fail. talk bounds the commands
\* of a process, deaths how often one dies.
Installations == [version  : 0..LATEST_SCHEMA,
                  accounts : SUBSET MatrixUsers,
                  doubles  : SUBSET MatrixUsers,
                  nedb     : SUBSET OldRows,
                  flaky    : BOOLEAN,
                  talk     : Nat,
                  deaths   : Nat]

\* The rooms of an installation have ids of their own: upsertRoom replaces the
\* row that has the id of the new one.
OwnIds(nedb) ==
    \A row \in nedb, other \in nedb :
        row.kind = "room" /\ other.kind = "room" /\ row.id = other.id => row = other

ASSUME DatabaseAssumption ==
    /\ TeamOfToken \in [Tokens -> SlackTeams \cup {None}]
    /\ None \notin SlackTeams \cup Tokens
    /\ "absent" \notin SlackTeams \cup {None}
    /\ IsFiniteSet(MatrixUsers)
    /\ MaxImports \in Nat

VARIABLES
    installed,  \* the installation the process found
    ran,        \* the statements that are committed, <<version, number>>
    version,    \* the row of the table "schema"
    shifted,    \* by how many months old metrics are moved
    linked,     \* who has rows in "linked_accounts"
    doubles,    \* who has two puppets in a team
    pgTeams,    \* the "teams" table of an import
    pgRooms,    \* the "rooms" table: the team of a row
    pgRows,     \* events, ghosts and Matrix users in the target
    told,       \* who got a notice
    phase,      \* where the process is
    at,         \* the statement ensureSchema runs next
    toTell,     \* the notices ensureSchema returned, in order
    stage,      \* the migration that migrateFromNedb runs
    pending,    \* the rows of that migration that are not yet done
    tokenMap,   \* teamTokenMap
    aborted,    \* one of its rows failed
    deaths, imports,
    torn,       \* history: versions whose process died before they were recorded
    untold      \* history: notices were lost

tables == <<ran, version, shifted, linked, doubles, pgTeams, pgRooms, pgRows>>
importing == <<stage, pending, tokenMap, aborted>>
dbVars == <<installed, tables, told, phase, at, toTell, importing, deaths, imports, torn, untold>>

\* The number of queries a version sends.
Queries == [v \in Versions |-> CASE v = 1 -> 6 [] v = 6 -> 2 [] OTHER -> 1]

\* Queries that can be run twice: nothing they make or drop is in their way.
Repeatable == {11, 14}

Statements(v) == {v} \X (1..Queries[v])
Upto(v) == UNION {Statements(w) : w \in 1..v}

Phases == {"off", "reading", "upgrading", "recording", "telling", "up", "importing"}

Stages == <<"event", "preTeam", "team", "room", "ghost", "matrixUser">>

DatabaseTypeOK ==
    /\ installed \in Installations
    /\ ran \subseteq Upto(LATEST_SCHEMA) /\ version \in 0..LATEST_SCHEMA
    /\ shifted \in Nat
    /\ linked \subseteq MatrixUsers /\ doubles \subseteq MatrixUsers
    /\ pgTeams \in [SlackTeams -> Tokens \cup {None}]
    /\ pgRooms \in [OldItems -> SlackTeams \cup {None, "absent"}]
    /\ pgRows \subseteq installed.nedb
    /\ told \subseteq MatrixUsers
    /\ phase \in Phases /\ at \in Upto(LATEST_SCHEMA)
    /\ toTell \in Seq(MatrixUsers)
    /\ stage \in 1..Len(Stages) /\ pending \subseteq installed.nedb
    /\ tokenMap \in [Tokens -> SlackTeams \cup {None}]
    /\ aborted \in BOOLEAN
    /\ deaths \in 0..installed.deaths /\ imports \in 0..MaxImports
    /\ torn \subseteq Versions /\ untold \in BOOLEAN

NotImporting ==
    /\ stage = 1 /\ pending = {} /\ aborted = FALSE
    /\ tokenMap = [t \in Tokens |-> None]

DatabaseInit(installations) ==
    /\ installed \in installations
    /\ version = installed.version
    /\ ran = Upto(version)
    /\ shifted = IF version >= 11 THEN 1 ELSE 0
    /\ linked = IF version >= 6 THEN installed.accounts ELSE {}
    /\ doubles = installed.doubles
    /\ pgTeams = [t \in SlackTeams |-> None]
    /\ pgRooms = [r \in OldItems |-> "absent"]
    /\ pgRows = {} /\ told = {}
    /\ phase = "off" /\ at = <<1, 1>> /\ toTell = <<>>
    /\ NotImporting
    /\ deaths = 0 /\ imports = 0 /\ torn = {} /\ untold = FALSE

-----------------------------------------------------------------------------
(* ensureSchema *)

\* Main.run of the bridge, and main of the import, begin with the schema.
StartProcess ==
    /\ phase = "off"
    /\ phase' = "reading"
    /\ UNCHANGED <<installed, tables, told, at, toTell, importing, deaths, imports, torn, untold>>

\* With the schema it wants the bridge goes on to the notices, an import to its
\* rows: it does not look at the notices.
HasSchema ==
    \/ /\ phase' = "telling"
       /\ UNCHANGED <<imports, pending, toTell, untold>>
    \/ /\ imports < MaxImports /\ installed.nedb # {}
       /\ phase' = "importing" /\ imports' = imports + 1
       /\ pending' = {row \in installed.nedb : row.kind = "event"}
       /\ toTell' = <<>> /\ untold' = (untold \/ toTell # <<>>)

\* getSchemaVersion: no table is version 0, a table without its row an error.
GetSchemaVersion ==
    /\ phase = "reading"
    /\ \/ /\ <<1, 1>> \in ran => <<1, 2>> \in ran
          /\ version < LATEST_SCHEMA
          /\ phase' = "upgrading" /\ at' = <<version + 1, 1>>
          /\ UNCHANGED <<imports, pending, toTell, untold>>
       \/ /\ version = LATEST_SCHEMA
          /\ HasSchema
          /\ UNCHANGED at
       \/ /\ <<1, 1>> \in ran /\ <<1, 2>> \notin ran
          /\ phase' = "off"
          /\ UNCHANGED <<at, imports, pending, toTell, untold>>
    /\ UNCHANGED <<installed, tables, told, stage, tokenMap, aborted, deaths, torn>>

\* What the queries do to the rows that are there. Version 6 copies the
\* accounts out of "users"; 15 deletes the puppets of who has two in a team,
\* and returns a notice for him.
Moved(query) ==
    /\ linked' = IF query = <<6, 2>> THEN linked \cup installed.accounts ELSE linked
    /\ shifted' = IF query = <<11, 1>> THEN shifted + 1 ELSE shifted
    /\ doubles' = IF query = <<15, 1>> THEN {} ELSE doubles
    /\ IF query = <<15, 1>>
       THEN \E notices \in [1..Cardinality(doubles) -> doubles] :
               /\ \A u \in doubles : \E i \in DOMAIN notices : notices[i] = u
               /\ toTell' = toTell \o notices
       ELSE UNCHANGED toTell

\* The next query of runSchema. One that makes what is already there fails,
\* and the process ends.
RunSchema ==
    /\ phase = "upgrading"
    /\ IF at \in ran /\ at[1] \notin Repeatable
       THEN /\ phase' = "off"
            /\ toTell' = <<>> /\ untold' = (untold \/ toTell # <<>>)
            /\ UNCHANGED <<at, ran, linked, shifted, doubles>>
       ELSE /\ ran' = ran \cup {at}
            /\ Moved(at)
            /\ UNCHANGED untold
            /\ IF at[2] < Queries[at[1]]
               THEN at' = <<at[1], at[2] + 1>> /\ UNCHANGED phase
               ELSE phase' = "recording" /\ UNCHANGED at
    /\ UNCHANGED <<installed, version, pgTeams, pgRooms, pgRows, told, importing,
                   deaths, imports, torn>>

\* A mutant: the version is recorded before it is counted up.
RecordedBehind == at[1] - 1

\* A mutant: the version that runs next is recorded.
RecordedAhead == IF at[1] < LATEST_SCHEMA THEN at[1] + 1 ELSE at[1]

Recorded == at[1]

\* updateSchemaVersion
UpdateSchemaVersion ==
    /\ phase = "recording"
    /\ version' = Recorded
    /\ IF version' < LATEST_SCHEMA
       THEN /\ phase' = "upgrading" /\ at' = <<version' + 1, 1>>
            /\ UNCHANGED <<imports, pending, toTell, untold>>
       ELSE HasSchema /\ UNCHANGED at
    /\ UNCHANGED <<installed, ran, shifted, linked, doubles, pgTeams, pgRooms, pgRows,
                   told, stage, tokenMap, aborted, deaths, torn>>

\* A mutant: the notices are sent from one end and dropped from the other.
NoticeLast == told' = told \cup {toTell[Len(toTell)]}

Notice == told' = told \cup {Head(toTell)}

\* Main.run sends the notices one after the other, and then starts the rest.
TellUsers ==
    /\ phase = "telling"
    /\ IF toTell = <<>>
       THEN phase' = "up" /\ UNCHANGED <<told, toTell>>
       ELSE /\ Notice
            /\ toTell' = Tail(toTell)
            /\ UNCHANGED phase
    /\ UNCHANGED <<installed, tables, at, importing, deaths, imports, torn, untold>>

-----------------------------------------------------------------------------
(* migrateFromNedb *)

\* upsertTeamByToken: Slack says whose token it is.
TeamByToken(token) ==
    \/ /\ TeamOfToken[token] # None
       /\ pgTeams' = [pgTeams EXCEPT ![TeamOfToken[token]] = token]
       /\ tokenMap' = [tokenMap EXCEPT ![token] = TeamOfToken[token]]
    \/ /\ TeamOfToken[token] = None \/ installed.flaky
       /\ UNCHANGED <<pgTeams, tokenMap>>

\* A token that is refused is only logged.
MigrateTeam(row) ==
    /\ Stages[stage] \in {"preTeam", "team"}
    /\ TeamByToken(row.token)
    /\ UNCHANGED <<pgRooms, pgRows>>

\* A room is given the team of its slack_bot_token. The other key is not asked.
MigrateRoom(row) ==
    /\ Stages[stage] = "room"
    /\ pgRooms' = [pgRooms EXCEPT ![row.id] =
                     IF row.token # None /\ row.key = "slack_bot_token"
                     THEN tokenMap[row.token] ELSE None]
    /\ UNCHANGED <<pgTeams, tokenMap, pgRows>>

\* A ghost without a team is found one that is in the target by now, or is
\* left behind.
MigrateGhost(row) ==
    /\ Stages[stage] = "ghost"
    /\ pgRows' = IF row.known \/ pgTeams[row.team] # None
                 THEN pgRows \cup {row} ELSE pgRows
    /\ UNCHANGED <<pgTeams, tokenMap, pgRooms>>

MigrateRow(row) ==
    /\ Stages[stage] \in {"event", "matrixUser"}
    /\ pgRows' = pgRows \cup {row}
    /\ UNCHANGED <<pgTeams, tokenMap, pgRooms>>

\* The rows of a migration are written in any order; a write that fails makes
\* it the last one, while the other rows of it are still written.
MigrateOne ==
    \E row \in pending :
        /\ phase = "importing"
        /\ pending' = pending \ {row}
        /\ \/ /\ MigrateTeam(row) \/ MigrateRoom(row) \/ MigrateGhost(row) \/ MigrateRow(row)
              /\ UNCHANGED aborted
           \/ /\ installed.flaky /\ Stages[stage] \notin {"preTeam", "team"}
              /\ aborted' = TRUE
              /\ UNCHANGED <<pgTeams, tokenMap, pgRooms, pgRows>>
        /\ UNCHANGED <<installed, ran, version, shifted, linked, doubles, told, phase, at,
                       toTell, stage, deaths, imports, torn, untold>>

\* A mutant: the teams of rooms in the old format are not asked for first.
RowsOfStageNew(name) ==
    {row \in installed.nedb : row.kind = name /\ name # "preTeam"}

\* A team whose token is known by now is skipped.
RowsOfStage(name) ==
    CASE name = "preTeam" -> {row \in installed.nedb : row.kind = "room" /\ row.token # None}
      [] name = "team" -> {row \in installed.nedb : row.kind = "team" /\ tokenMap[row.token] = None}
      [] OTHER -> {row \in installed.nedb : row.kind = name}

NextStage ==
    /\ phase = "importing" /\ pending = {}
    /\ IF aborted \/ stage = Len(Stages)
       THEN /\ phase' = "off"
            /\ stage' = 1 /\ pending' = {} /\ aborted' = FALSE
            /\ tokenMap' = [t \in Tokens |-> None]
       ELSE /\ stage' = stage + 1
            /\ pending' = RowsOfStage(Stages[stage + 1])
            /\ UNCHANGED <<phase, tokenMap, aborted>>
    /\ UNCHANGED <<installed, tables, told, at, toTell, deaths, imports, torn, untold>>

-----------------------------------------------------------------------------
\* The process dies, also by a query or a notice that fails.
Die ==
    /\ phase # "off" /\ deaths < installed.deaths
    /\ deaths' = deaths + 1
    /\ phase' = "off" /\ toTell' = <<>>
    /\ stage' = 1 /\ pending' = {} /\ aborted' = FALSE
    /\ tokenMap' = [t \in Tokens |-> None]
    /\ torn' = torn
         \cup {v \in Versions : phase \in {"upgrading", "recording"} /\ at[1] = v
                                 /\ Statements(v) \cap ran # {}}
    /\ untold' = (untold \/ toTell # <<>>)
    /\ UNCHANGED <<installed, tables, told, at, imports>>

DatabaseStep ==
    \/ StartProcess \/ GetSchemaVersion \/ RunSchema \/ UpdateSchemaVersion
    \/ TellUsers \/ MigrateOne \/ NextStage

-----------------------------------------------------------------------------
\* What the version says has run has run, and no more than the version after
\* it; the bridge is up on the latest only. So a crash never makes a version
\* be skipped.
SchemaWhole ==
    /\ Upto(version) \subseteq ran
    /\ ran \subseteq Upto(IF version < LATEST_SCHEMA THEN version + 1 ELSE version)
    /\ phase \in {"telling", "up", "importing"} => version = LATEST_SCHEMA

\* What an upgrade moves is moved, once: accounts into their table, the dates
\* of metrics by one month, unless the process died between that query and its
\* record, and who loses puppets is told, unless it died before the notices were
\* out.
UpgradeKept ==
    /\ version >= 6 => installed.accounts \subseteq linked
    /\ version >= 11 /\ 11 \notin torn => shifted = 1
    /\ phase = "up" /\ ~untold => installed.doubles \ doubles \subseteq told

\* A room comes out of the import with the team of its token, and nothing is
\* left behind but ghosts of unknown teams, as long as Slack and the database
\* answer.
Imported ==
    /\ ~installed.flaky => \A row \in installed.nedb :
         row.kind = "room" /\ row.token # None /\ row.key = "slack_bot_token"
           => pgRooms[row.id] \in {"absent", TeamOfToken[row.token]}
    /\ phase = "importing" /\ Stages[stage] = "matrixUser" =>
         \A row \in installed.nedb :
             /\ row.kind = "room" => pgRooms[row.id] # "absent"
             /\ row.kind = "event" => row \in pgRows
             /\ row.kind = "ghost" =>
                  row \in pgRows \/ (~row.known /\ pgTeams[row.team] = None)

\* The process comes up, however often it died, unless it once died in the
\* middle of a version: what is left of that stops every later start.
ComesUp == <>(phase = "up") \/ <>(torn # {})
=============================================================================
