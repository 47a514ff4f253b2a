-------------------------- MODULE MCBridgeProcess --------------------------
(* BridgeProcess for TLC: installations of every age, one kept by NeDB. *)
EXTENDS BridgeProcess

CONSTANTS m1, m2, tokA, tokB, tokBad, slackA, slackB

TeamsOfTokens == [t \in Tokens |-> CASE t = tokA -> slackA [] t = tokB -> slackB [] OTHER -> None]

OldInstallation ==
    { [kind |-> "event", id |-> 1], [kind |-> "matrixUser", id |-> 2],
      [kind |-> "room", id |-> 3, token |-> tokA, key |-> "slack_bot_token"],
      [kind |-> "room", id |-> 4, token |-> tokB, key |-> "access_token"],
      [kind |-> "team", id |-> 5, token |-> tokB],
      [kind |-> "team", id |-> 6, token |-> tokBad],
      [kind |-> "ghost", id |-> 7, team |-> slackB, known |-> FALSE],
      [kind |-> "ghost", id |-> 8, team |-> slackA, known |-> TRUE] }

FewRows == {row \in OldInstallation : row.id \in {1, 3, 5, 7}}

Empty(v) == [version |-> v, accounts |-> {}, doubles |-> {}, nedb |-> {},
             flaky |-> FALSE, talk |-> 0, deaths |-> 2]

Installed ==
    { Empty(0),
      [Empty(5) EXCEPT !.accounts = {m1, m2}],
      [Empty(10) EXCEPT !.accounts = {m1}, !.doubles = {m1, m2}, !.talk = 1],
      [Empty(12) EXCEPT !.doubles = {m1, m2}, !.nedb = {[kind |-> "event", id |-> 1]}],
      [Empty(16) EXCEPT !.nedb = OldInstallation],
      [Empty(15) EXCEPT !.nedb = FewRows, !.flaky = TRUE],
      [Empty(16) EXCEPT !.talk = 4, !.deaths = 0],
      [Empty(16) EXCEPT !.talk = 2] }
=============================================================================
