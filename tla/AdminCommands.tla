--------------------------- MODULE AdminCommands ---------------------------
(***************************************************************************)
(* The admin room: AdminCommands.parse queues the commands of each sender  *)
(* behind a promise, the waiter of the command before it, and              *)
(* Main.onMatrixAdminMessage answers a command once its own waiter is      *)
(* settled. A command whose waiter is rejected passes that on: see Begin.  *)
(* The state machine is part of BridgeProcess.                             *)
(*                                                                         *)
(* What a command does elsewhere is RoomLinks' and Accounts'; here it is   *)
(* when it runs and what its sender is told. Lines that begin with # are   *)
(* chatter and never queued.                                               *)
(***************************************************************************)
EXTENDS Naturals, Sequences

CONSTANTS
    Senders,        \* users who write in the admin room
    Lines,          \* what they write, a subset of Commands
    MaxCommands     \* bound: how many commands are written

\* The commands, and what yargs refuses.
Misused == {"misused"}

\* No await: their waiter is resolved before anything else can settle it.
ListShow == {"list", "show"}
OAuth == {"oauth"}
HelpOrUnknown == {"help", "unknown"}

\* What these fail with, they answer with.
LinkUnlink == {"link", "unlink"}

\* What these fail with rejects their waiter.
JoinLeave == {"join", "leave"}
StaleRooms == {"stalerooms"}

AtOnce == ListShow \cup OAuth \cup HelpOrUnknown
Rejecting == JoinLeave \cup StaleRooms
Commands == Misused \cup AtOnce \cup LinkUnlink \cup Rejecting

ASSUME AdminCommandsAssumption ==
    /\ Lines \subseteq Commands
    /\ MaxCommands \in Nat

VARIABLES
    commands,   \* the commands of this process, in the order of parse
    latest      \* latestCommandWaiterForSender

cmdVars == <<commands, latest>>

\* before: the command whose waiter is waited for, or 0. reply: what is sent to
\* the room: the command's own answer, or the error of one before it.
CommandType == [sender : Senders,
                line   : Commands,
                before : 0..MaxCommands,
                state  : {"queued", "runs", "ended"},
                failed : BOOLEAN,
                waiter : {"pending", "resolved", "rejected"},
                reply  : {"none", "own", "other"}]

CommandsTypeOK ==
    /\ commands \in Seq(CommandType) /\ Len(commands) <= MaxCommands
    /\ latest \in [Senders -> 0..MaxCommands]

CommandsInit == commands = <<>> /\ latest = [s \in Senders |-> 0]

Issued == DOMAIN commands

-----------------------------------------------------------------------------
\* A mutant: one queue for all senders.
LatestOfAll(sender, c) == [s \in Senders |-> c]

\* A mutant: the place is counted before the command is in it, and after.
LatestNext(sender, c) == [latest EXCEPT ![sender] = c + 1]

Latest(sender, c) == [latest EXCEPT ![sender] = c]

\* onMatrixAdminMessage and parse: the command is queued behind the sender's
\* last.
Issue(sender, line) ==
    /\ Len(commands) < MaxCommands
    /\ commands' = Append(commands,
          [sender |-> sender, line |-> line, before |-> latest[sender],
           state |-> "queued", failed |-> FALSE,
           waiter |-> "pending", reply |-> "none"])
    /\ latest' = Latest(sender, Len(commands) + 1)

\* A mutant: nothing is waited for.
FreeAlways(c) == TRUE

\* finally() runs what it is given when the promise is settled either way.
Free(c) ==
    LET b == commands[c].before IN b # 0 => commands[b].waiter # "pending"

\* After finally() the promise is still rejected, and catch(reject) rejects
\* the waiter of this command with the error of the one before.
Poisoned(c) ==
    LET b == commands[c].before IN b # 0 /\ commands[b].waiter = "rejected"

Becomes(c, state, failed, waiter, reply) ==
    commands' = [commands EXCEPT ![c] = [@ EXCEPT !.state = state, !.failed = failed,
                                                  !.waiter = waiter, !.reply = reply]]

\* yargs calls the handler, up to its first await.
Begin(c) ==
    LET line == commands[c].line IN
    /\ commands[c].state = "queued" /\ Free(c)
    /\ \/ line \in Misused /\ Becomes(c, "ended", TRUE, "rejected", "own")
       \/ line \in AtOnce /\ Becomes(c, "ended", FALSE, "resolved", "own")
       \/ /\ line \notin Misused \cup AtOnce
          /\ IF Poisoned(c) THEN Becomes(c, "runs", FALSE, "rejected", "other")
                            ELSE Becomes(c, "runs", FALSE, "pending", "none")
    /\ UNCHANGED latest

\* A mutant: the promise is left as it is when a handler fails.
SettledIfWell(c, failed) == IF failed THEN "pending" ELSE "resolved"

Settled(c, failed) == IF failed THEN "rejected" ELSE "resolved"

\* The handler's promise settles the waiter, if that is still open, and the
\* answer is sent; what it responds later is dropped.
End(c) ==
    /\ commands[c].state = "runs"
    /\ \E failed \in BOOLEAN :
          /\ failed => commands[c].line \in Rejecting
          /\ LET settled == Settled(c, failed)
                 waiter == commands[c].waiter
                 reply == commands[c].reply
             IN  Becomes(c, "ended", failed,
                         IF waiter = "pending" THEN settled ELSE waiter,
                         IF reply = "none" /\ settled # "pending" THEN "own" ELSE reply)
    /\ UNCHANGED latest

IssueOne == \E s \in Senders, line \in Lines : Issue(s, line)

RunOne == \E c \in Issued : Begin(c) \/ End(c)

-----------------------------------------------------------------------------
Failed(c) == commands[c].failed

\* The commands of a sender that came before c.
Earlier(c) == {d \in Issued : d < c /\ commands[d].sender = commands[c].sender}

\* The commands of a sender begin in their order, and one at a time, until one
\* of them fails: those after it are not waited for, up to the next that needs
\* no await.
CommandsInOrder ==
    \A c \in Issued : commands[c].state # "queued" =>
        \A d \in Earlier(c) :
            /\ commands[d].state # "queued"
            /\ commands[d].state = "runs" =>
                 \E e \in Earlier(d) :
                    /\ Failed(e)
                    /\ \A f \in Earlier(d) : f > e => commands[f].line \notin AtOnce

\* A sender is told of another command's error only if the command before has
\* failed or was itself answered so, and nobody is told what another sender did.
RepliesTrue ==
    \A c \in Issued : commands[c].reply = "other" =>
        LET b == commands[c].before IN
        /\ b # 0 /\ commands[b].sender = commands[c].sender
        /\ Failed(b) \/ commands[b].reply = "other"
        /\ \A d \in Earlier(c) : (\A e \in Earlier(c) : e <= d) => d = b

Answered(n) == n \in Issued /\ commands[n].reply # "none"
=============================================================================
