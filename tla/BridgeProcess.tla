--------------------------- MODULE BridgeProcess ---------------------------
(***************************************************************************)
(* The life of the bridge's process: Main.run brings the database up       *)
(* (Database) before it takes any command (AdminCommands); a process that  *)
(* dies takes the queue of commands with it, and is started again.         *)
(***************************************************************************)
EXTENDS Database, AdminCommands

CONSTANT Found      \* the installations that the process may find

ASSUME FoundAssumption ==
    Found \subseteq Installations /\ \A found \in Found : OwnIds(found.nedb)

VARIABLE lost   \* history: commands went down with a process

vars == <<dbVars, cmdVars, lost>>

TypeOK == DatabaseTypeOK /\ CommandsTypeOK /\ lost \in BOOLEAN

Init == DatabaseInit(Found) /\ CommandsInit /\ lost = FALSE

ComeUp == DatabaseStep /\ UNCHANGED <<cmdVars, lost>>

\* Main.run listens to the homeserver when the schema is there and the notices
\* are out.
Takes == phase = "up"

Command ==
    /\ Takes
    /\ \/ IssueOne /\ Len(commands) < installed.talk
       \/ RunOne
    /\ UNCHANGED <<dbVars, lost>>

Crash ==
    /\ Die
    /\ commands' = <<>> /\ latest' = [s \in Senders |-> 0]
    /\ lost' = (lost \/ commands # <<>>)

Next == ComeUp \/ Command \/ Crash

\* Begin and End of a command that is there: Slack and the homeserver answer,
\* or time out. Users need not write anything.
CommandGoesOn(c) ==
    /\ Takes /\ c \in Issued
    /\ Begin(c) \/ End(c)
    /\ UNCHANGED <<dbVars, lost>>

\* The process is started again when it is down, and it then goes on; node runs
\* every promise that is settled.
Fairness ==
    /\ WF_vars(ComeUp)
    /\ \A c \in 1..MaxCommands : WF_vars(CommandGoesOn(c))

Spec == Init /\ [][Next]_vars /\ Fairness

-----------------------------------------------------------------------------
\* Every command is answered, whatever becomes of the ones before it, unless
\* its process dies.
EveryoneAnswered ==
    \A n \in 1..MaxCommands : (n \in Issued) ~> (lost \/ Answered(n))
=============================================================================
