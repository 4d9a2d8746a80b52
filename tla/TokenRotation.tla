---------------------------- MODULE TokenRotation ----------------------------
(***************************************************************************)
(* What the rotation of refresh tokens promises, without calls, requests   *)
(* and handlers: a pair of tokens can be used once; a login is a line of   *)
(* pairs, each issued when the one before it was used up; and the tab      *)
(* takes up a pair only if no other of its login came after it.            *)
(*                                                                         *)
(* The order of the pairs is kept while nothing has spoiled the session.   *)
(* That a pair is used once and stays in its login is kept for good.       *)
(***************************************************************************)
EXTENDS Naturals

CONSTANT MaxPairs  \* bound: pairs of tokens that are issued

VARIABLES
  login,    \* the pair a pair's line began with; 0 is none
  valid,    \* the pairs that can be used
  session,  \* the pair the tab has; 0 is none
  spoiled   \* whether the tab lost track of its pair

rotationVars == <<login, valid, session, spoiled>>

Issued(p) == p \in 1..MaxPairs /\ login[p] # 0
Newest(p) == Issued(p) /\ \A q \in 1..MaxPairs : login[q] = login[p] => q <= p

RotationInit ==
  /\ login = [p \in 1..MaxPairs |-> IF p = 1 THEN 1 ELSE 0]
  /\ valid = {1}
  /\ session = 1
  /\ spoiled = FALSE

\* The next pair is issued, into the line that begins with `first`.
Add(p, first) ==
  /\ \A q \in 1..MaxPairs : login[q] # 0 <=> q < p
  /\ login' = [login EXCEPT ![p] = first]
  /\ valid' = valid \cup {p}
  /\ UNCHANGED <<session, spoiled>>

SignsIn(p) == Add(p, p)

Renews(q, p) ==
  /\ Add(p, login[q])
  /\ Issued(q) /\ q \notin valid
  /\ spoiled \/ Newest(q)

\* By a refresh or by a logout.
IsUsed(p) ==
  /\ p \in valid
  /\ valid' = valid \ {p}
  /\ UNCHANGED <<login, session, spoiled>>

\* The tab takes up a pair, or none.
Takes(p) ==
  /\ session' = p
  /\ p = 0 \/ Issued(p)
  /\ spoiled => spoiled'
  /\ spoiled' \/ p = 0 \/ Newest(p)
  /\ UNCHANGED <<login, valid>>

Spoils ==
  /\ spoiled'
  /\ UNCHANGED <<login, valid, session>>

RotationNext ==
  \/ \E p \in 0..MaxPairs : Takes(p)
  \/ Spoils
  \/ \E p \in 1..MaxPairs : SignsIn(p) \/ IsUsed(p) \/ \E q \in 1..MaxPairs : Renews(q, p)

RotationSpec == RotationInit /\ [][RotationNext]_rotationVars
-----------------------------------------------------------------------------
\* A pair that can be used is the newest of its login, so there is one at most.
ValidIsNewest == spoiled \/ \A p \in valid : Newest(p)
=============================================================================
