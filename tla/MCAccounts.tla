----------------------------- MODULE MCAccounts -----------------------------
(* Accounts for TLC: the worlds of the run. *)
EXTENDS Accounts, TLC

CONSTANTS u1, u2, t1, t2, t3, s1, s2, r1, r2, r3

World(traffic, slackIds, users, matrixRooms, n) ==
    [traffic |-> traffic, slack |-> slackIds, users |-> users, rooms |-> matrixRooms,
     logins |-> n]

MCWorlds ==
    { World({"puppet", "logout", "revokeFails", "restart"},
            {<<t1, s1>>}, {u1}, {}, 3),
      World({"puppet", "logout", "use"}, {t1} \X {s1, s2}, {u1, u2}, {}, 2),
      World({"login", "logout", "link", "unlink"}, {<<t1, s1>>}, {u1, u2}, {r1}, 2),
      World({"login", "use", "uninstall", "outage", "expire", "restart"}, {<<t1, s1>>}, {u1}, {}, 2),
      World({"login", "use", "logout", "uninstall"}, {<<t1, s1>>}, {u1}, {}, 2),
      World({"login", "logout"}, {t1, t2, t3} \X {s1}, {u1}, {}, 3),
      World({"login", "link", "unlink"}, {<<t1, s1>>}, {u1}, {r1, r2, r3}, 1),
      World({"puppet", "login", "block", "link", "outage"}, {<<t1, s1>>}, {u1}, {r1}, 2),
      World({"serial", "login", "puppet", "logout", "link", "unlink", "use", "uninstall"},
            {<<t1, s1>>}, {u1}, {r1}, 3) }

Symmetry == Permutations(Links) \cup Permutations(Handlers)
=============================================================================
