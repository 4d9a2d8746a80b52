---------------------------- MODULE LoginLockout ----------------------------
(***************************************************************************)
(* The counters of failed logins in Redis and the logins that read and     *)
(* write them.  A login is counted under its IP and under its e-mail, and  *)
(* refused while either counter has reached MaxAttempts.  Each call of     *)
(* Redis is a step; INCR and EXPIRE are two.                               *)
(*                                                                         *)
(* Accounts and passwords are the verdict of `Rejected` or `Accepted`.     *)
(* Audit rows and tokens, which no login reads, are left out.              *)
(***************************************************************************)
EXTENDS Naturals, FiniteSets

CONSTANTS
  Logins,         \* logins in progress at the same time
  Ips, Emails,    \* keys of the counters
  MaxAttempts,    \* MAX_LOGIN_ATTEMPTS
  MaxLoginFaults  \* bound: failed calls of Redis, stops of the process

ASSUME LockoutAssumption ==
  /\ IsFiniteSet(Logins)
  /\ Ips \cap Emails = {}
  /\ MaxAttempts \in Nat \ {0}
  /\ MaxLoginFaults \in Nat

Keys == Ips \cup Emails

VARIABLES
  fails,    \* the counters; 0 is a key that does not exist
  timed,    \* the keys that have an expiry
  login,    \* where a login is
  keys,     \* the keys it is counted under
  pending,  \* those it has still to INCR
  fresh,    \* those whose INCR answered 1: it has still to EXPIRE them
  loginFaults

lockoutVars == <<fails, timed, login, keys, pending, fresh, loginFaults>>

LoginStep == {"idle", "ip", "email", "compare", "failing"}

LockoutInit ==
  /\ fails = [k \in Keys |-> 0]
  /\ timed = {}
  /\ login = [r \in Logins |-> "idle"]
  /\ keys = [r \in Logins |-> {}]
  /\ pending = [r \in Logins |-> {}]
  /\ fresh = [r \in Logins |-> {}]
  /\ loginFaults = 0

Delete(ks) ==
  /\ fails' = [k \in Keys |-> IF k \in ks THEN 0 ELSE fails[k]]
  /\ timed' = timed \ ks

Ends(r) ==
  /\ login' = [login EXCEPT ![r] = "idle"]
  /\ keys' = [keys EXCEPT ![r] = {}]

BeginLogin(r, ip, email) ==
  /\ login[r] = "idle"
  /\ login' = [login EXCEPT ![r] = "ip"]
  /\ keys' = [keys EXCEPT ![r] = {ip, email}]
  /\ UNCHANGED <<fails, timed, pending, fresh, loginFaults>>

Locked(k) == fails[k] >= MaxAttempts

\* Mutant: the counter of the e-mail is not looked at.
CheckIpOnly(r) ==
  /\ login[r] \in {"ip", "email"}
  /\ \E k \in keys[r] \cap (IF login[r] = "ip" THEN Ips ELSE Emails) :
       \/ login[r] = "ip" /\ Locked(k) /\ Ends(r)
       \/ /\ login[r] = "email" \/ ~Locked(k)
          /\ login' = [login EXCEPT ![r] = IF @ = "ip" THEN "email" ELSE "compare"]
          /\ UNCHANGED keys
  /\ UNCHANGED <<fails, timed, pending, fresh, loginFaults>>

\* isLoginLocked, for the IP and then, if that is not locked, for the e-mail.
Check(r) ==
  /\ login[r] \in {"ip", "email"}
  /\ \E k \in keys[r] \cap (IF login[r] = "ip" THEN Ips ELSE Emails) :
       \/ Locked(k) /\ Ends(r)
       \/ /\ ~Locked(k)
          /\ login' = [login EXCEPT ![r] = IF @ = "ip" THEN "email" ELSE "compare"]
          /\ UNCHANGED keys
  /\ UNCHANGED <<fails, timed, pending, fresh, loginFaults>>

\* No such tenant or user, no password, a wrong one, or an inactive user.
Rejected(r) ==
  /\ login[r] = "compare"
  /\ login' = [login EXCEPT ![r] = "failing"]
  /\ pending' = [pending EXCEPT ![r] = keys[r]]
  /\ UNCHANGED <<fails, timed, keys, fresh, loginFaults>>

\* registerFailedLoginAttempt runs for both keys at once.
Count(r, k) ==
  /\ k \in pending[r]
  /\ fails' = [fails EXCEPT ![k] = @ + 1]
  /\ pending' = [pending EXCEPT ![r] = @ \ {k}]
  /\ fresh' = [fresh EXCEPT ![r] = IF fails[k] = 0 THEN @ \cup {k} ELSE @]
  /\ UNCHANGED <<timed, login, keys, loginFaults>>

\* Mutant: the expiry waits for the counter to be 1 again.
StartWindowOfFirst(r, k) ==
  /\ k \in fresh[r]
  /\ fails[k] <= 1
  /\ timed' = IF fails[k] > 0 THEN timed \cup {k} ELSE timed
  /\ fresh' = [fresh EXCEPT ![r] = @ \ {k}]
  /\ UNCHANGED <<fails, login, keys, pending, loginFaults>>

\* EXPIRE does nothing to a key that was deleted meanwhile.
StartWindow(r, k) ==
  /\ k \in fresh[r]
  /\ timed' = IF fails[k] > 0 THEN timed \cup {k} ELSE timed
  /\ fresh' = [fresh EXCEPT ![r] = @ \ {k}]
  /\ UNCHANGED <<fails, login, keys, pending, loginFaults>>

Refused(r) ==
  /\ login[r] = "failing"
  /\ pending[r] \cup fresh[r] = {}
  /\ Ends(r)
  /\ UNCHANGED <<fails, timed, pending, fresh, loginFaults>>

\* The right password of an active user: one DEL of both keys.
Accepted(r) ==
  /\ login[r] = "compare"
  /\ Delete(keys[r])
  /\ Ends(r)
  /\ UNCHANGED <<pending, fresh, loginFaults>>

WindowEnds(k) ==
  /\ k \in timed
  /\ Delete({k})
  /\ UNCHANGED <<login, keys, pending, fresh, loginFaults>>

\* A call of Redis, or of the database, fails before it took effect.
\* Promise.all does not stop the other key's calls.
RedisFails(r) ==
  /\ loginFaults < MaxLoginFaults
  /\ loginFaults' = loginFaults + 1
  /\ \/ /\ login[r] \in {"ip", "email", "compare"}
        /\ Ends(r)
        /\ UNCHANGED <<pending, fresh>>
     \/ /\ \E k \in pending[r] : pending' = [pending EXCEPT ![r] = @ \ {k}]
        /\ UNCHANGED <<login, keys, fresh>>
     \/ /\ \E k \in fresh[r] : fresh' = [fresh EXCEPT ![r] = @ \ {k}]
        /\ UNCHANGED <<login, keys, pending>>
  /\ UNCHANGED <<fails, timed>>

ApiStops ==
  /\ loginFaults < MaxLoginFaults
  /\ loginFaults' = loginFaults + 1
  /\ login' = [r \in Logins |-> "idle"]
  /\ keys' = [r \in Logins |-> {}]
  /\ pending' = [r \in Logins |-> {}]
  /\ fresh' = [r \in Logins |-> {}]
  /\ UNCHANGED <<fails, timed>>

Continue(r) ==
  \/ Check(r) \/ Rejected(r) \/ Accepted(r) \/ Refused(r)
  \/ \E k \in Keys : Count(r, k) \/ StartWindow(r, k)

LockoutNext ==
  \/ \E r \in Logins, ip \in Ips, email \in Emails : BeginLogin(r, ip, email)
  \/ \E r \in Logins : Continue(r) \/ RedisFails(r)
  \/ \E k \in Keys : WindowEnds(k)
  \/ ApiStops

LockoutSpec == LockoutInit /\ [][LockoutNext]_lockoutVars

\* A handler that began goes on, and Redis deletes a key whose time is over.
LockoutFairness ==
  /\ \A r \in Logins : WF_lockoutVars(Continue(r))
  /\ \A k \in Keys : WF_lockoutVars(WindowEnds(k))
-----------------------------------------------------------------------------
LockoutTypeOK ==
  /\ fails \in [Keys -> Nat]
  /\ timed \in SUBSET {k \in Keys : fails[k] > 0}
  /\ login \in [Logins -> LoginStep]
  /\ keys \in [Logins -> SUBSET Keys]
  /\ pending \in [Logins -> SUBSET Keys]
  /\ fresh \in [Logins -> SUBSET Keys]
  /\ loginFaults \in 0..MaxLoginFaults

\* Logins whose failure may still be counted under k without another check.
Passed(k) == {r \in Logins :
  \/ k \in keys[r] /\ (login[r] = "compare" \/ (login[r] = "email" /\ k \in Ips))
  \/ k \in pending[r]}

\* Concurrent logins get past the limit, as each checks before any counts,
\* but by no more than their number: a key never stands for more than
\* MaxAttempts - 1 counted failures and one for each login in progress.
GuessesBounded ==
  \A k \in Keys : fails[k] + Cardinality(Passed(k)) < MaxAttempts + Cardinality(Logins)

\* A counter without an expiry would lock its key for good.
Orphaned(k) == fails[k] > 0 /\ k \notin timed /\ \A r \in Logins : k \notin fresh[r]

\* Whatever logins, successes and expiries interleave on a key, some login is
\* about to set the expiry of a counter that has none; only a failed EXPIRE
\* or a stop between INCR and EXPIRE leaves a lock that never ends.
LockIsTemporary == \A k \in Keys : Orphaned(k) => loginFaults > 0

\* A key that is locked is unlocked again, even if logins go on arriving.
LockEnds == \A k \in Keys : Locked(k) ~> (~Locked(k) \/ Orphaned(k))
=============================================================================
