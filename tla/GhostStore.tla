----------------------------- MODULE GhostStore -----------------------------
(***************************************************************************)
(* The ghosts of Slack users: SlackGhostStore.get and getExisting, the     *)
(* "users" table, and the two ways the display name of a ghost gets to     *)
(* Matrix: SlackGhost.update, on a message, from what users.info says or   *)
(* said in the last ten minutes, and updateFromISlackUser, on a user_change*)
(* and in a team sync, from the event. The avatar goes the same ways.      *)
(*                                                                         *)
(* A ghost is an object: a handler that found none in the cache makes one, *)
(* and so does getExisting, which neither looks into the cache nor fills   *)
(* it. Here are the variables and what the steps of a handler do to them;  *)
(* TeamMembers says when they are taken.                                   *)
(***************************************************************************)
EXTENDS Naturals, FiniteSets

CONSTANTS
    Folk,       \* Slack users of the team
    Names,      \* display names
    Objects,    \* SlackGhost objects that can be in use at once
    None

VARIABLES
    slackNames, \* on Slack: the name of a user
    cache,      \* SlackGhostStore.ghostsByUserId
    ghosts,     \* the fields of the objects
    rows,       \* the "users" table: the name of a ghost
    profiles,   \* on Matrix: the name of a ghost
    reverted    \* history: who was given a name out of userInfoCache that was old

ghostVars == <<slackNames, cache, ghosts, rows, profiles, reverted>>

\* What a ghost is called before it has a name, and after its user is deleted.
Unnamed == "unnamed"
Deleted == "Deleted User"
NoRow == "no row"

\* info: userInfoCache; stuck: userInfoLoading is a promise that was rejected;
\* busy: updateInProgress.
Ghosts == [name : Names \cup {Unnamed}, info : Names \cup {None},
           stuck : BOOLEAN, busy : BOOLEAN]

GhostsTypeOK ==
    /\ slackNames \in [Folk -> Names]
    /\ cache \in [Folk -> Objects \cup {None}]
    /\ ghosts \in [Objects -> Ghosts]
    /\ rows \in [Folk -> Names \cup {Unnamed, NoRow}]
    /\ profiles \in [Folk -> Names \cup {Unnamed, Deleted}]
    /\ reverted \subseteq Folk

FreshGhost == [name |-> Unnamed, info |-> None, stuck |-> FALSE, busy |-> FALSE]

GhostsInit(name) ==
    /\ slackNames = [u \in Folk |-> name]
    /\ cache = [u \in Folk |-> None]
    /\ ghosts = [o \in Objects |-> FreshGhost]
    /\ rows = [u \in Folk |-> NoRow]
    /\ profiles = [u \in Folk |-> Unnamed]
    /\ reverted = {}

-----------------------------------------------------------------------------
\* A mutant: the new ghost is called nothing at all.
FromRowNone(row) == [FreshGhost EXCEPT !.name = IF row = NoRow THEN None ELSE row]

\* SlackGhost.fromEntry, or a new ghost.
FromRow(row) == [FreshGhost EXCEPT !.name = IF row = NoRow THEN Unnamed ELSE row]

\* The second half of SlackGhostStore.get: a user without a row gets one, and
\* the object replaces one that was made meanwhile.
MakeGhost(user, row, object) ==
    /\ ghosts' = [ghosts EXCEPT ![object] = FromRow(row)]
    /\ rows' = IF row = NoRow THEN [rows EXCEPT ![user] = Unnamed] ELSE rows
    /\ cache' = [cache EXCEPT ![user] = object]
    /\ UNCHANGED <<slackNames, profiles, reverted>>

\* getExisting: an object of its own.
ExistingGhost(user, object) ==
    /\ ghosts' = [ghosts EXCEPT ![object] = FromRow(rows[user])]
    /\ UNCHANGED <<slackNames, cache, rows, profiles, reverted>>

-----------------------------------------------------------------------------
(* SlackGhost.update *)

\* An update is under way, or the look-up that failed once is awaited again.
Skips(object) == ghosts[object].busy \/ (ghosts[object].info = None /\ ghosts[object].stuck)

BeginUpdate(object) ==
    /\ ghosts' = [ghosts EXCEPT ![object].busy = TRUE]
    /\ UNCHANGED <<slackNames, cache, rows, profiles, reverted>>

\* lookupUserInfo gets its answer, or none: then the promise is kept.
Answered(user, object) ==
    /\ ghosts' = [ghosts EXCEPT ![object].info = slackNames[user]]
    /\ UNCHANGED <<slackNames, cache, rows, profiles, reverted>>

NotAnswered(object) ==
    /\ ghosts' = [ghosts EXCEPT ![object] = [@ EXCEPT !.stuck = TRUE, !.busy = FALSE]]
    /\ UNCHANGED <<slackNames, cache, rows, profiles, reverted>>

\* ensureProfile, with the answer, or with what the cache held.
EnsureProfile(user, name) ==
    /\ profiles' = [profiles EXCEPT ![user] = name]
    /\ reverted' = IF name # slackNames[user] THEN reverted \cup {user} ELSE reverted
    /\ UNCHANGED <<slackNames, cache, ghosts, rows>>

\* ensureProfile fails, and nothing has changed.
EndUpdate(object) ==
    /\ ghosts' = [ghosts EXCEPT ![object].busy = FALSE]
    /\ UNCHANGED <<slackNames, cache, rows, profiles, reverted>>

\* The cached answer is forgotten after ten minutes; one that was never there
\* is not.
InfoExpires(object) ==
    /\ ghosts[object].info # None
    /\ ghosts' = [ghosts EXCEPT ![object].info = None]
    /\ UNCHANGED <<slackNames, cache, rows, profiles, reverted>>

-----------------------------------------------------------------------------
(* updateFromISlackUser *)

SetDisplayName(user, name) ==
    /\ profiles' = [profiles EXCEPT ![user] = name]
    /\ UNCHANGED <<slackNames, cache, ghosts, rows, reverted>>

\* The avatar fails between the object and its row.
NameGhost(object, name) ==
    /\ ghosts' = [ghosts EXCEPT ![object].name = name]
    /\ UNCHANGED <<slackNames, cache, rows, profiles, reverted>>

\* A mutant: the object is changed, the row is not.
RowKept(user, name) == rows

RowNamed(user, name) == [rows EXCEPT ![user] = name]

\* The object has the name, and upsertUser writes it; an update is over then.
SaveGhost(user, object, name, updated) ==
    /\ LET busy == ghosts[object].busy /\ ~updated IN
       ghosts' = [ghosts EXCEPT ![object] = [@ EXCEPT !.name = name, !.busy = busy]]
    /\ rows' = RowNamed(user, name)
    /\ UNCHANGED <<slackNames, cache, profiles, reverted>>
=============================================================================
