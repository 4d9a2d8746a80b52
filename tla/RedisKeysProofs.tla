--------------------------- MODULE RedisKeysProofs ---------------------------
(***************************************************************************)
(* Proofs about RedisKeys.  A step of the composition is a step of one     *)
(* part and changes nothing of the others, so what a part preserves is     *)
(* preserved.                                                              *)
(***************************************************************************)
EXTENDS RedisKeys, FiniteSetTheorems, TLAPS

\* A step of the composition, seen from each part.
LEMMA KeysStep ==
  ASSUME [KeysNext]_keyVars
  PROVE  /\ [LockoutNext]_lockoutVars
         /\ [JoinNext]_joinVars
         /\ [DashboardNext]_dashboardVars
         /\ UNCHANGED keyPart
BY DEF KeysNext, keyVars
-----------------------------------------------------------------------------
(* The counters of failed logins *)

LEMMA LockoutTypeInit == LockoutInit => LockoutTypeOK
BY LockoutAssumption DEF LockoutInit, LockoutTypeOK, LoginStep

\* Every step of the logins keeps the types.
LEMMA LockoutTypeStep ==
  ASSUME LockoutTypeOK, [LockoutNext]_lockoutVars
  PROVE  LockoutTypeOK'
<1> USE LockoutAssumption DEF LockoutTypeOK, LoginStep
<1>1. ASSUME NEW r \in Logins, NEW ip \in Ips, NEW email \in Emails, BeginLogin(r, ip, email)
      PROVE  LockoutTypeOK'
  BY <1>1 DEF BeginLogin, Keys
<1>2. ASSUME NEW r \in Logins, Check(r) PROVE LockoutTypeOK'
  BY <1>2 DEF Check, Ends
<1>3. ASSUME NEW r \in Logins, Rejected(r) PROVE LockoutTypeOK'
  BY <1>3 DEF Rejected
<1>4. ASSUME NEW r \in Logins, NEW k \in Keys, Count(r, k) PROVE LockoutTypeOK'
  BY <1>4 DEF Count
<1>5. ASSUME NEW r \in Logins, NEW k \in Keys, StartWindow(r, k) PROVE LockoutTypeOK'
  BY <1>5 DEF StartWindow
<1>6. ASSUME NEW r \in Logins, Refused(r) PROVE LockoutTypeOK'
  BY <1>6 DEF Refused, Ends
<1>7. ASSUME NEW r \in Logins, Accepted(r) PROVE LockoutTypeOK'
  BY <1>7 DEF Accepted, Ends, Delete
<1>8. ASSUME NEW k \in Keys, WindowEnds(k) PROVE LockoutTypeOK'
  BY <1>8 DEF WindowEnds, Delete
<1>9. ASSUME NEW r \in Logins, RedisFails(r) PROVE LockoutTypeOK'
  BY <1>9 DEF RedisFails, Ends
<1>10. CASE ApiStops
  BY <1>10 DEF ApiStops
<1>11. CASE UNCHANGED lockoutVars
  BY <1>11 DEF lockoutVars
<1> QED
  BY <1>1, <1>2, <1>3, <1>4, <1>5, <1>6, <1>7, <1>8, <1>9, <1>10, <1>11
     DEF LockoutNext, Continue

\* A counter gets its first expiry from the login that created it: between the
\* two calls that login is in `fresh`, and a deletion takes counter and expiry
\* together.
LEMMA OrphanStep ==
  ASSUME LockoutTypeOK, LockIsTemporary, [LockoutNext]_lockoutVars
  PROVE  LockIsTemporary'
<1> SUFFICES ASSUME NEW k \in Keys, Orphaned(k)' PROVE (loginFaults > 0)'
  BY DEF LockIsTemporary
<1> USE LockoutAssumption DEF LockoutTypeOK, LockIsTemporary, Orphaned
<1>1. ASSUME NEW r \in Logins, NEW ip \in Ips, NEW email \in Emails, BeginLogin(r, ip, email)
      PROVE  (loginFaults > 0)'
  BY <1>1 DEF BeginLogin
<1>2. ASSUME NEW r \in Logins, Check(r) PROVE (loginFaults > 0)'
  BY <1>2 DEF Check
<1>3. ASSUME NEW r \in Logins, Rejected(r) PROVE (loginFaults > 0)'
  BY <1>3 DEF Rejected
<1>4. ASSUME NEW r \in Logins, NEW j \in Keys, Count(r, j) PROVE (loginFaults > 0)'
  BY <1>4 DEF Count
<1>5. ASSUME NEW r \in Logins, NEW j \in Keys, StartWindow(r, j) PROVE (loginFaults > 0)'
  BY <1>5 DEF StartWindow
<1>6. ASSUME NEW r \in Logins, Refused(r) PROVE (loginFaults > 0)'
  BY <1>6 DEF Refused
<1>7. ASSUME NEW r \in Logins, Accepted(r) PROVE (loginFaults > 0)'
  BY <1>7 DEF Accepted, Delete
<1>8. ASSUME NEW j \in Keys, WindowEnds(j) PROVE (loginFaults > 0)'
  BY <1>8 DEF WindowEnds, Delete
<1>9. ASSUME NEW r \in Logins, RedisFails(r) PROVE (loginFaults > 0)'
  BY <1>9 DEF RedisFails
<1>10. CASE ApiStops
  BY <1>10 DEF ApiStops
<1>11. CASE UNCHANGED lockoutVars
  BY <1>11 DEF lockoutVars
<1> QED
  BY <1>1, <1>2, <1>3, <1>4, <1>5, <1>6, <1>7, <1>8, <1>9, <1>10, <1>11
     DEF LockoutNext, Continue

\* A login that still counts a failure has made it, and a login is counted
\* under one IP and one e-mail.
Counting ==
  \A r \in Logins :
    /\ pending[r] # {} => login[r] = "failing"
    /\ \A j, k \in keys[r] : (j \in Ips <=> k \in Ips) => j = k

LEMMA CountingStep ==
  ASSUME LockoutTypeOK, Counting, [LockoutNext]_lockoutVars
  PROVE  Counting'
<1> USE LockoutAssumption DEF LockoutTypeOK, Counting
<1>1. ASSUME NEW r \in Logins, NEW ip \in Ips, NEW email \in Emails, BeginLogin(r, ip, email)
      PROVE  Counting'
  BY <1>1 DEF BeginLogin
<1>2. ASSUME NEW r \in Logins, Check(r) PROVE Counting'
  BY <1>2 DEF Check, Ends
<1>3. ASSUME NEW r \in Logins, Rejected(r) PROVE Counting'
  BY <1>3 DEF Rejected
<1>4. ASSUME NEW r \in Logins, NEW k \in Keys, Count(r, k) PROVE Counting'
  BY <1>4 DEF Count
<1>5. ASSUME NEW r \in Logins, NEW k \in Keys, StartWindow(r, k) PROVE Counting'
  BY <1>5 DEF StartWindow
<1>6. ASSUME NEW r \in Logins, Refused(r) PROVE Counting'
  BY <1>6 DEF Refused, Ends
<1>7. ASSUME NEW r \in Logins, Accepted(r) PROVE Counting'
  BY <1>7 DEF Accepted, Ends
<1>8. ASSUME NEW k \in Keys, WindowEnds(k) PROVE Counting'
  BY <1>8 DEF WindowEnds
<1>9. ASSUME NEW r \in Logins, RedisFails(r) PROVE Counting'
  BY <1>9 DEF RedisFails, Ends
<1>10. CASE ApiStops
  BY <1>10 DEF ApiStops
<1>11. CASE UNCHANGED lockoutVars
  BY <1>11 DEF lockoutVars
<1> QED
  BY <1>1, <1>2, <1>3, <1>4, <1>5, <1>6, <1>7, <1>8, <1>9, <1>10, <1>11
     DEF LockoutNext, Continue

\* A step after which no more logins may count under k, and no more have
\* counted, keeps the bound.
LEMMA FewerGuesses ==
  ASSUME LockoutTypeOK, LockoutTypeOK', NEW k \in Keys,
         fails[k] + Cardinality(Passed(k)) < MaxAttempts + Cardinality(Logins),
         fails'[k] <= fails[k], Passed(k)' \subseteq Passed(k)
  PROVE  fails'[k] + Cardinality(Passed(k)') < MaxAttempts + Cardinality(Logins)
<1>1. IsFiniteSet(Passed(k))
  BY FS_Subset, LockoutAssumption DEF Passed
<1>2. /\ Cardinality(Passed(k)') <= Cardinality(Passed(k))
      /\ Cardinality(Passed(k)) \in Nat /\ Cardinality(Passed(k)') \in Nat
  BY <1>1, FS_Subset, FS_CardinalityType
<1>3. fails[k] \in Nat /\ fails'[k] \in Nat /\ Cardinality(Logins) \in Nat /\ MaxAttempts \in Nat
  BY LockoutAssumption, FS_CardinalityType DEF LockoutTypeOK
<1> QED BY <1>2, <1>3

\* A login passes the check of k only below the limit; then even all logins
\* together cannot take the counter past the bound.
LEMMA GuessStep ==
  ASSUME LockoutTypeOK, LockoutTypeOK', Counting, GuessesBounded, [LockoutNext]_lockoutVars
  PROVE  GuessesBounded'
<1> SUFFICES ASSUME NEW k \in Keys
             PROVE  fails'[k] + Cardinality(Passed(k)') < MaxAttempts + Cardinality(Logins)
  BY DEF GuessesBounded
<1> DEFINE Shrinks == fails'[k] <= fails[k] /\ Passed(k)' \subseteq Passed(k)
<1>0. Shrinks => fails'[k] + Cardinality(Passed(k)') < MaxAttempts + Cardinality(Logins)
  BY FewerGuesses DEF GuessesBounded
<1>a. fails[k] \in Nat
  BY DEF LockoutTypeOK
<1>1. ASSUME NEW r \in Logins, NEW ip \in Ips, NEW email \in Emails, BeginLogin(r, ip, email)
      PROVE  Shrinks
  BY <1>1, <1>a DEF BeginLogin, Passed, LockoutTypeOK
<1>2. ASSUME NEW r \in Logins, Check(r)
      PROVE  fails'[k] + Cardinality(Passed(k)') < MaxAttempts + Cardinality(Logins)
  <2>1. CASE Locked(k) \/ Passed(k)' \subseteq Passed(k)
    <3>1. Shrinks
      BY <1>2, <2>1, <1>a, LockoutAssumption
         DEF Check, Ends, Passed, Locked, LockoutTypeOK, Counting, Keys
    <3> QED BY <3>1, <1>0
  <2>2. CASE ~Locked(k)
    <3>1. Passed(k)' \subseteq Logins
      BY DEF Passed
    <3>2. Cardinality(Passed(k)') <= Cardinality(Logins) /\ Cardinality(Passed(k)') \in Nat
      BY <3>1, FS_Subset, FS_CardinalityType, LockoutAssumption
    <3>3. fails'[k] = fails[k] /\ fails[k] < MaxAttempts
      BY <1>2, <2>2, <1>a, LockoutAssumption DEF Check, Locked
    <3> QED BY <3>2, <3>3, <1>a, FS_CardinalityType, LockoutAssumption
  <2> QED BY <2>1, <2>2
<1>3. ASSUME NEW r \in Logins, Rejected(r) PROVE Shrinks
  BY <1>3, <1>a DEF Rejected, Passed, LockoutTypeOK
<1>4. ASSUME NEW r \in Logins, NEW j \in Keys, Count(r, j)
      PROVE  fails'[k] + Cardinality(Passed(k)') < MaxAttempts + Cardinality(Logins)
  <2>1. CASE j # k
    <3>1. Shrinks
      BY <1>4, <2>1, <1>a DEF Count, Passed, LockoutTypeOK
    <3> QED BY <3>1, <1>0
  <2>2. CASE j = k
    <3>1. r \in Passed(k) /\ Passed(k)' = Passed(k) \ {r}
      BY <1>4, <2>2 DEF Count, Passed, LockoutTypeOK, Counting
    <3>2. IsFiniteSet(Passed(k))
      BY FS_Subset, LockoutAssumption DEF Passed
    <3>3. /\ Cardinality(Passed(k)') = Cardinality(Passed(k)) - 1
          /\ Cardinality(Passed(k)) \in Nat
      BY <3>1, <3>2, FS_RemoveElement, FS_CardinalityType
    <3>4. fails'[k] = fails[k] + 1
      BY <1>4, <2>2 DEF Count, LockoutTypeOK
    <3> QED BY <3>3, <3>4, <1>a, FS_CardinalityType, LockoutAssumption DEF GuessesBounded
  <2> QED BY <2>1, <2>2
<1>5. ASSUME NEW r \in Logins, NEW j \in Keys, StartWindow(r, j) PROVE Shrinks
  BY <1>5, <1>a DEF StartWindow, Passed
<1>6. ASSUME NEW r \in Logins, Refused(r) PROVE Shrinks
  BY <1>6, <1>a DEF Refused, Ends, Passed, LockoutTypeOK
<1>7. ASSUME NEW r \in Logins, Accepted(r) PROVE Shrinks
  BY <1>7, <1>a DEF Accepted, Ends, Delete, Passed, LockoutTypeOK
<1>8. ASSUME NEW j \in Keys, WindowEnds(j) PROVE Shrinks
  BY <1>8, <1>a DEF WindowEnds, Delete, Passed, LockoutTypeOK
<1>9. ASSUME NEW r \in Logins, RedisFails(r) PROVE Shrinks
  BY <1>9, <1>a DEF RedisFails, Ends, Passed, LockoutTypeOK
<1>10. CASE ApiStops
  <2>1. Shrinks
    BY <1>10, <1>a DEF ApiStops, Passed, LockoutTypeOK
  <2> QED BY <2>1, <1>0
<1>11. CASE UNCHANGED lockoutVars
  <2>1. Shrinks
    BY <1>11, <1>a DEF lockoutVars, Passed
  <2> QED BY <2>1, <1>0
<1> QED
  BY <1>0, <1>1, <1>2, <1>3, <1>4, <1>5, <1>6, <1>7, <1>8, <1>9, <1>10, <1>11
     DEF LockoutNext, Continue

LockoutInv == LockoutTypeOK /\ LockIsTemporary /\ Counting /\ GuessesBounded

LEMMA LockoutHolds == KeysSpec => []LockoutInv
<1>1. KeysInit => LockoutInv
  <2> SUFFICES ASSUME LockoutInit PROVE LockoutInv
    BY DEF KeysInit
  <2>1. LockoutTypeOK /\ LockIsTemporary /\ Counting
    BY LockoutTypeInit DEF LockoutInit, LockIsTemporary, Orphaned, Counting
  <2>2. ASSUME NEW k \in Keys PROVE fails[k] + Cardinality(Passed(k)) < MaxAttempts + Cardinality(Logins)
    <3>1. Passed(k) = {} /\ fails[k] = 0
      BY DEF LockoutInit, Passed
    <3> QED BY <3>1, FS_EmptySet, FS_CardinalityType, LockoutAssumption
  <2> QED BY <2>1, <2>2 DEF LockoutInv, GuessesBounded
<1>2. LockoutInv /\ [KeysNext]_keyVars => LockoutInv'
  BY KeysStep, LockoutTypeStep, OrphanStep, CountingStep, GuessStep DEF LockoutInv
<1> QED BY <1>1, <1>2, PTL DEF KeysSpec

\* No interleaving of logins, successes and expiries on one key leaves a
\* counter without an expiry; only a failure or a stop between the calls does.
THEOREM LocksAreTemporary == KeysSpec => []LockIsTemporary
BY LockoutHolds, PTL DEF LockoutInv

\* The limit is exceeded by no more than the logins in progress, for any
\* number of logins, keys and attempts.
THEOREM GuessesAreBounded == KeysSpec => []GuessesBounded
BY LockoutHolds, PTL DEF LockoutInv
-----------------------------------------------------------------------------
(* Sign-ups and exchange codes *)

\* A sign-up knows its key; one that is past its creation has its tenant.
SignUpBook ==
  \A s \in SignUps :
    /\ signUp[s] # "none" => key[s] \in Slugs \cup Identities
    /\ signUp[s] \in {"outcome", "signedIn"} =>
         \E t \in tenants : t.key = key[s] /\ (key[s] \in Slugs => t.by = s)

\* A code is made once, when its sign-up ends, and never returns to Redis
\* after an answer; so a late exchange finds nothing.
CodeBook ==
  /\ codes \cap answered = {}
  /\ \A s \in codes \cup answered : signUp[s] = "signedIn"
  /\ \A x \in Exchanges : exchange[x] # "none" => code[x] \in SignUps /\ signUp[code[x]] = "signedIn"
  /\ \A x \in late : code[x] \in answered /\ exchange[x] \in {"get", "refused"}

JoinInv == JoinTypeOK /\ OneTenantPerKey /\ SignUpBook /\ CodeBook

LEMMA JoinStep ==
  ASSUME JoinInv, [JoinNext]_joinVars
  PROVE  JoinInv'
<1> USE SignUpAssumption
    DEF JoinInv, JoinTypeOK, OneTenantPerKey, SignUpBook, CodeBook, SignUpStep, To, signUpVars, exchangeVars
<1>1. ASSUME NEW s \in SignUps, NEW k \in Slugs \cup Identities, SignsUp(s, k) PROVE JoinInv'
  BY <1>1 DEF SignsUp
<1>2. ASSUME NEW s \in SignUps, FindsSlug(s) PROVE JoinInv'
  BY <1>2 DEF FindsSlug
<1>3. ASSUME NEW s \in SignUps, FindsAccount(s) PROVE JoinInv'
  BY <1>3 DEF FindsAccount, Taken
<1>4. ASSUME NEW s \in SignUps, Creates(s) PROVE JoinInv'
  <2>1. CASE Taken(key[s])
    BY <1>4, <2>1 DEF Creates
  <2>2. CASE ~Taken(key[s])
    <3> DEFINE new == [by |-> s, key |-> key[s]]
    <3>1. /\ tenants' = tenants \cup {new} /\ signUp[s] = "create"
          /\ signUp' = [signUp EXCEPT ![s] = "outcome"]
          /\ UNCHANGED <<key, exchangeVars>>
      BY <1>4, <2>2 DEF Creates
    <3>2. \A t \in tenants : t.key # new.key
      BY <2>2 DEF Taken
    <3>3. JoinTypeOK' /\ CodeBook'
      BY <3>1
    <3>4. OneTenantPerKey'
      BY <3>1, <3>2
    <3>5. SignUpBook'
      <4> SUFFICES ASSUME NEW u \in SignUps
                   PROVE  /\ signUp'[u] # "none" => key'[u] \in Slugs \cup Identities
                          /\ signUp'[u] \in {"outcome", "signedIn"} =>
                               \E t \in tenants' : t.key = key'[u] /\ (key'[u] \in Slugs => t.by = u)
        OBVIOUS
      <4>1. CASE u = s
        <5>1. new \in tenants' /\ new.key = key'[u] /\ new.by = u
          BY <3>1, <4>1
        <5> QED BY <3>1, <4>1, <5>1
      <4>2. CASE u # s
        BY <3>1, <4>2
      <4> QED BY <4>1, <4>2
    <3> QED BY <3>3, <3>4, <3>5
  <2> QED BY <2>1, <2>2
<1>5. ASSUME NEW s \in SignUps, IsAnswered(s) PROVE JoinInv'
  BY <1>5 DEF IsAnswered
<1>6. ASSUME NEW s \in SignUps, SignUpFails(s) PROVE JoinInv'
  BY <1>6 DEF SignUpFails
<1>7. ASSUME NEW s \in SignUps, CodeExpires(s) PROVE JoinInv'
  BY <1>7 DEF CodeExpires
<1>8. ASSUME NEW s \in SignUps, NEW x \in Exchanges, CallbackLoads(x, s) PROVE JoinInv'
  BY <1>8 DEF CallbackLoads
<1>9. ASSUME NEW x \in Exchanges, GetsCode(x) PROVE JoinInv'
  BY <1>9 DEF GetsCode
<1>10. ASSUME NEW x \in Exchanges, DeletesCode(x) PROVE JoinInv'
  BY <1>10 DEF DeletesCode
<1>11. ASSUME NEW x \in Exchanges, ExchangeFails(x) PROVE JoinInv'
  BY <1>11 DEF ExchangeFails
<1>12. CASE UNCHANGED joinVars
  BY <1>12 DEF joinVars
<1> QED
  BY <1>1, <1>2, <1>3, <1>4, <1>5, <1>6, <1>7, <1>8, <1>9, <1>10, <1>11, <1>12
     DEF JoinNext, Registers, ProviderCallsBack

LEMMA JoinHolds == KeysSpec => []JoinInv
<1>1. KeysInit => JoinInv
  BY DEF KeysInit, JoinInit, JoinInv, JoinTypeOK, OneTenantPerKey, SignUpBook, CodeBook, SignUpStep
<1>2. JoinInv /\ [KeysNext]_keyVars => JoinInv'
  BY KeysStep, JoinStep
<1> QED BY <1>1, <1>2, PTL DEF KeysSpec

\* However many sign-ups look for one key together, it gets one tenant, and
\* everyone who is signed in with it is in that tenant.
THEOREM KeysHaveOneTenant == KeysSpec => []OneTenantPerKey
BY JoinHolds, PTL DEF JoinInv

\* An exchange sent after its code was answered is refused.
THEOREM CodesAreSpent == KeysSpec => []ExchangedCodeIsSpent
<1>1. JoinInv => ExchangedCodeIsSpent
  BY DEF JoinInv, CodeBook, ExchangedCodeIsSpent
<1> QED BY <1>1, JoinHolds, PTL
-----------------------------------------------------------------------------
(* The dashboard *)

LEMMA NothingRead == Nothing \in Metrics
<1>1. Unread \in 0..Unread
  BY DashboardAssumption DEF Unread
<1> QED BY <1>1 DEF Nothing, Metrics

LEMMA DashboardTypeInit == DashboardInit => DashboardTypeOK
<1> SUFFICES ASSUME DashboardInit PROVE DashboardTypeOK
  OBVIOUS
<1>1. /\ truth \in [Tables -> 0..MaxChanges]
      /\ rotations \in 0..MaxRotations
      /\ dashboardFaults \in 0..MaxDashboardFaults
  BY DashboardAssumption DEF DashboardInit
<1>2. /\ load \in [Loads -> {"none", "get", "compute", "answer"}]
      /\ metrics \in [Loads -> Metrics]
      /\ mine \in [Loads -> BOOLEAN]
  BY NothingRead DEF DashboardInit
<1>3. cache \in Metrics /\ shown \in Metrics /\ open \in BOOLEAN /\ failed \in BOOLEAN
  BY NothingRead DEF DashboardInit
<1> QED BY <1>1, <1>2, <1>3 DEF DashboardTypeOK

LEMMA DashboardTypeStep ==
  ASSUME DashboardTypeOK, [DashboardNext]_dashboardVars
  PROVE  DashboardTypeOK'
<1> USE DashboardAssumption, NothingRead DEF DashboardTypeOK, page, LoadAt, Sends, Answered
<1>1. ASSUME NEW t \in Tables, TableChanges(t) PROVE DashboardTypeOK'
  BY <1>1 DEF TableChanges
<1>2. CASE Opens
  BY <1>2 DEF Opens
<1>3. CASE Leaves
  BY <1>3 DEF Leaves
<1>4. CASE CacheExpires
  BY <1>4 DEF CacheExpires
<1>5. ASSUME NEW l \in Loads, IntervalFires(l) PROVE DashboardTypeOK'
  BY <1>5 DEF IntervalFires
<1>6. ASSUME NEW l \in Loads, TokenRotates(l) PROVE DashboardTypeOK'
  BY <1>6 DEF TokenRotates
<1>7. ASSUME NEW l \in Loads, GetsCache(l) PROVE DashboardTypeOK'
  BY <1>7 DEF GetsCache
<1>8. ASSUME NEW l \in Loads, NEW t \in Tables, ReadsTable(l, t) PROVE DashboardTypeOK'
  BY <1>8 DEF ReadsTable, Metrics, Unread
<1>9. ASSUME NEW l \in Loads, SetsCache(l) PROVE DashboardTypeOK'
  BY <1>9 DEF SetsCache
<1>10. ASSUME NEW l \in Loads, Answers200(l) PROVE DashboardTypeOK'
  BY <1>10 DEF Answers200
<1>11. ASSUME NEW l \in Loads, LoadFails(l) PROVE DashboardTypeOK'
  <2>1. /\ load' \in [Loads -> {"none", "get", "compute", "answer"}]
        /\ metrics' \in [Loads -> Metrics]
        /\ mine' \in [Loads -> BOOLEAN]
        /\ dashboardFaults' \in 0..MaxDashboardFaults
    BY <1>11 DEF LoadFails
  <2>2. /\ shown' \in Metrics /\ failed' \in BOOLEAN
        /\ UNCHANGED <<truth, cache, open, rotations>>
    BY <1>11 DEF LoadFails
  <2> QED BY <2>1, <2>2
<1>12. CASE UNCHANGED dashboardVars
  BY <1>12 DEF dashboardVars
<1> QED
  BY <1>1, <1>2, <1>3, <1>4, <1>5, <1>6, <1>7, <1>8, <1>9, <1>10, <1>11, <1>12
     DEF DashboardNext, Proceeds

\* No failure or interleaving takes a variable of the three parts out of its
\* type.
THEOREM KeysTypeCorrect == KeysSpec => []KeysTypeOK
<1> DEFINE P == keyPart \in {"lockout", "join", "dashboard"} /\ DashboardTypeOK
<1>1. KeysInit => P
  BY DashboardTypeInit DEF KeysInit
<1>2. P /\ [KeysNext]_keyVars => P'
  BY KeysStep, DashboardTypeStep
<1>3. P /\ LockoutInv /\ JoinInv => KeysTypeOK
  BY DEF LockoutInv, JoinInv, KeysTypeOK
<1> QED BY <1>1, <1>2, <1>3, LockoutHolds, JoinHolds, PTL DEF KeysSpec
=============================================================================
