---------------------------- MODULE AccountBook ----------------------------
(***************************************************************************)
(* What linking an account promises, whatever becomes of the bridge in     *)
(* between: a login link is made once, for one user; it leads to at most   *)
(* one account, which is his; a user has one token for a Slack user; and   *)
(* an account only leaves the book by its owner's logout.                  *)
(***************************************************************************)
CONSTANTS Users, SlackIds, Links, None

VARIABLES
    issued,     \* the links made so far
    invited,    \* the user whom a link still can enter
    book        \* the accounts

vars == <<issued, invited, book>>

Entries == [user : Users, slack : SlackIds, token : Links]

TypeOK ==
    /\ issued \subseteq Links
    /\ invited \in [Links -> Users \cup {None}]
    /\ book \subseteq Entries

Init ==
    /\ issued = {} /\ book = {}
    /\ invited = [l \in Links |-> None]

Invite(link, user) ==
    /\ link \notin issued
    /\ issued' = issued \cup {link}
    /\ invited' = [invited EXCEPT ![link] = user]
    /\ UNCHANGED book

\* Links expire, logins fail, a crash takes all that are under way.
Lapse(links) ==
    /\ invited' = [l \in Links |-> IF l \in links THEN None ELSE invited[l]]
    /\ UNCHANGED <<issued, book>>

Enter(link, slack) ==
    /\ invited[link] # None
    /\ invited' = [invited EXCEPT ![link] = None]
    /\ book' = {b \in book : b.user # invited[link] \/ b.slack # slack}
                 \cup {[user |-> invited[link], slack |-> slack, token |-> link]}
    /\ UNCHANGED issued

Leave(user, slack) ==
    /\ book' = {b \in book : b.user # user \/ b.slack # slack}
    /\ UNCHANGED <<issued, invited>>

Next ==
    \/ \E l \in Links, u \in Users : Invite(l, u)
    \/ \E links \in SUBSET Links : Lapse(links)
    \/ \E l \in Links, s \in SlackIds : Enter(l, s)
    \/ \E u \in Users, s \in SlackIds : Leave(u, s)

Spec == Init /\ [][Next]_vars

\* A link is the token of one account at most, and not while it still invites.
OneAccountALink ==
    /\ \A a, b \in book : a.token = b.token => a = b
    /\ \A b \in book : invited[b.token] = None /\ b.token \in issued
=============================================================================
