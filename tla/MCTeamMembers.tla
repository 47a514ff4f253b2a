---------------------------- MODULE MCTeamMembers ----------------------------
(* TeamMembers for TLC: the worlds of the run. *)
EXTENDS TeamMembers, TLC

CONSTANTS u1, u2, c1, c2, m1, n1, n2, bot

SyncAll == [public |-> TRUE, private |-> TRUE, blacklist |-> {}, whitelist |-> {},
            allow |-> {}, deny |-> {}]

Nobody == [u \in Folk |-> None]
OwnedBy(user, mx) == [Nobody EXCEPT ![user] = mx]

\* Members of the channels bridged by hand; all is synced, nobody is a puppet.
World(traffic, folk, members, linked, names, n) ==
    [traffic |-> traffic, folk |-> folk, channels |-> {c1}, linked |-> linked,
     members |-> members, hidden |-> {}, creator |-> [c \in Channels |-> u1],
     config |-> SyncAll, puppet |-> Nobody, names |-> names, moves |-> n]

MCWorlds ==
    { World({"rename", "message", "expiry", "outage", "deleteUser", "restoreUser"},
            {u1}, {u1}, {c1}, {n1, n2}, 3),
      World({"slackJoin", "slackLeave", "deleteUser", "message"},
            {u1}, {}, {c1, c2}, {n1}, 4),
      World({"createChannel", "deleteChannel", "slackJoin", "restart"},
            {u1, u2}, {}, {}, {n1}, 3),
      World({"createChannel", "deleteChannel", "deleteUser", "message"},
            {u1}, {}, {}, {n1}, 4),
      World({"bot", "restart", "deleteChannel"}, {}, {}, {c1}, {n1}, 5),
      World({"rtm", "restart", "message", "rename"}, {u1}, {u1}, {c1}, {n1, n2}, 4),
      World({"restart", "deleteUser", "slackJoin", "slackLeave", "bot"},
            {u1}, {u1}, {c1}, {n1}, 4),
      [World({"matrixJoin", "matrixLeave", "slackJoin", "slackLeave", "restart"},
             {u1}, {}, {c1}, {n1}, 3) EXCEPT !.puppet = OwnedBy(u1, m1)],
      [World({"createChannel", "deleteChannel", "restart", "outage"},
             {u1}, {}, {}, {n1}, 3) EXCEPT !.hidden = {c1}],
      [World({"createChannel", "deleteChannel", "restart", "slackJoin", "slackLeave", "message"},
             {u1}, {}, {c2}, {n1}, 3) EXCEPT !.config.private = FALSE,
                                             !.config.blacklist = {c1}],
      World({"slackJoin", "slackLeave", "deleteUser", "deleteChannel", "outage"},
            {u1}, {}, {c1}, {n1}, 3),
      World({"restart", "deleteChannel", "slackJoin", "outage"}, {u1}, {u1}, {c1}, {n1}, 3),
      World({"rtm", "restart", "rename", "deleteUser", "outage"},
            {u1}, {u1}, {c1}, {n1, n2}, 3),
      World({"serial", "createChannel", "slackJoin", "deleteUser", "restart", "outage"},
            {u1, u2}, {}, {}, {n1}, 4),
      World({"serial", "matrixJoin", "matrixLeave", "bot"}, {}, {}, {c1, c2}, {n1}, 4),
      World({"matrixJoin", "matrixLeave", "bot"}, {}, {}, {c1, c2}, {n1}, 4) }

\* A channel is created, and nothing else happens.
ResyncWorlds == { World({"serial", "createChannel"}, {u1}, {}, {}, {n1}, 1) }

Symmetry == Permutations(Handlers) \cup Permutations(Objects)
=============================================================================
