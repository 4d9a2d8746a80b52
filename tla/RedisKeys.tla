------------------------------ MODULE RedisKeys ------------------------------
(***************************************************************************)
(* What the API keeps in Redis under an expiry: the counters of failed     *)
(* logins, the codes of social logins and the dashboard's metrics.  The    *)
(* three share no key, no row and no page, so steps of different parts     *)
(* commute and a behaviour shows one part at work.                         *)
(***************************************************************************)
EXTENDS LoginLockout, SignUp, Dashboard

VARIABLE keyPart

keyVars == <<keyPart, lockoutVars, joinVars, dashboardVars>>

KeysInit ==
  /\ keyPart \in {"lockout", "join", "dashboard"}
  /\ LockoutInit /\ JoinInit /\ DashboardInit

KeysNext ==
  /\ UNCHANGED keyPart
  /\ \/ keyPart = "lockout" /\ LockoutNext /\ UNCHANGED <<joinVars, dashboardVars>>
     \/ keyPart = "join" /\ JoinNext /\ UNCHANGED <<lockoutVars, dashboardVars>>
     \/ keyPart = "dashboard" /\ DashboardNext /\ UNCHANGED <<lockoutVars, joinVars>>

KeysSpec == KeysInit /\ [][KeysNext]_keyVars
\* Nothing of a part that is not at work is enabled.
KeysFairSpec == KeysSpec /\ LockoutFairness /\ DashboardFairness

KeysTypeOK ==
  /\ keyPart \in {"lockout", "join", "dashboard"}
  /\ LockoutTypeOK /\ JoinTypeOK /\ DashboardTypeOK
=============================================================================
