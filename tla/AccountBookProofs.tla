-------------------------- MODULE AccountBookProofs --------------------------
(***************************************************************************)
(* What AccountBook promises, for any users, Slack users and links. That a *)
(* link is the token of one account only is not inductive: a second entry  *)
(* is ruled out because a link that still invites is in no account, and a  *)
(* link that is made anew because all that invite or are in one are issued.*)
(***************************************************************************)
EXTENDS AccountBook, TLAPS

BookInv ==
    /\ TypeOK
    /\ OneAccountALink
    /\ \A l \in Links : invited[l] # None => l \in issued

LEMMA InitBookInv == Init => BookInv
  BY DEF Init, BookInv, TypeOK, OneAccountALink

LEMMA StepBookInv == BookInv /\ [Next]_vars => BookInv'
<1> SUFFICES ASSUME BookInv, [Next]_vars PROVE BookInv'
  OBVIOUS
<1> USE DEF BookInv, TypeOK, OneAccountALink, Entries
<1>1. ASSUME NEW l \in Links, NEW u \in Users, Invite(l, u) PROVE BookInv'
  BY <1>1 DEF Invite
<1>2. ASSUME NEW links \in SUBSET Links, Lapse(links) PROVE BookInv'
  BY <1>2 DEF Lapse
<1>3. ASSUME NEW l \in Links, NEW s \in SlackIds, Enter(l, s) PROVE BookInv'
  <2>1. \A b \in book : b.token # l
    BY <1>3 DEF Enter
  <2>2. invited[l] \in Users
    BY <1>3 DEF Enter
  <2> QED
    BY <1>3, <2>1, <2>2 DEF Enter
<1>4. ASSUME NEW u \in Users, NEW s \in SlackIds, Leave(u, s) PROVE BookInv'
  BY <1>4 DEF Leave
<1>5. CASE UNCHANGED vars
  BY <1>5 DEF vars
<1> QED
  BY <1>1, <1>2, <1>3, <1>4, <1>5 DEF Next

\* A login link (OAuth2.getPreauthToken) becomes the token of one account at
\* most, and once it has it lets nobody in.
THEOREM OneAccount == Spec => []OneAccountALink
<1>1. BookInv => OneAccountALink
  BY DEF BookInv
<1> QED
  BY <1>1, InitBookInv, StepBookInv, PTL DEF Spec
=============================================================================
