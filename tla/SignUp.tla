------------------------------- MODULE SignUp -------------------------------
(***************************************************************************)
(* Registration, the social login that creates a tenant on its first use,  *)
(* and the code that carries a social login's result from the API's        *)
(* redirect to the web application.                                        *)
(*                                                                         *)
(* Both sign-ups look for their key, a slug or an account of a provider,   *)
(* and create tenant and owner in one transaction when it is free: two     *)
(* that look at the same time both try.                                    *)
(***************************************************************************)
EXTENDS Naturals, FiniteSets

CONSTANTS
  SignUps,     \* sign-ups, each made once
  Slugs,       \* slugs of register()
  Identities,  \* accounts of Google or GitHub, for handleOAuthLogin()
  Exchanges    \* loads of the page /oauth/callback

ASSUME SignUpAssumption == Slugs \cap Identities = {}

VARIABLES
  tenants,   \* committed tenants, each with owner: who created it, for which key
  signUp,    \* where a sign-up is
  key,       \* its slug or account
  codes,     \* codes in Redis, named after the sign-in they carry
  exchange,  \* where an exchange is
  code,      \* the code it presents
  answered,  \* history: codes of which an exchange was answered
  late       \* history: exchanges sent when their code was among those

signUpVars == <<tenants, signUp, key>>
exchangeVars == <<codes, exchange, code, answered, late>>
joinVars == <<signUpVars, exchangeVars>>

SignUpStep == {"none", "find", "create", "outcome", "signedIn", "refused", "failed"}
NoKey == "none"

JoinInit ==
  /\ tenants = {}
  /\ signUp = [s \in SignUps |-> "none"]
  /\ key = [s \in SignUps |-> NoKey]
  /\ codes = {}
  /\ exchange = [x \in Exchanges |-> "none"]
  /\ code = [x \in Exchanges |-> NoKey]
  /\ answered = {}
  /\ late = {}

To(s, step) == signUp' = [signUp EXCEPT ![s] = step]
Taken(k) == \E t \in tenants : t.key = k
-----------------------------------------------------------------------------
SignsUp(s, k) ==
  /\ signUp[s] = "none"
  /\ To(s, "find")
  /\ key' = [key EXCEPT ![s] = k]
  /\ UNCHANGED <<tenants, exchangeVars>>

\* The form of the page /register is submitted.
Registers(s, slug) == slug \in Slugs /\ SignsUp(s, slug)

\* A provider calls back and its strategy normalises the profile.
ProviderCallsBack(s, account) == account \in Identities /\ SignsUp(s, account)

FindsSlug(s) ==
  /\ signUp[s] = "find"
  /\ key[s] \in Slugs
  /\ To(s, IF Taken(key[s]) THEN "refused" ELSE "create")
  /\ UNCHANGED <<tenants, key, exchangeVars>>

FindsAccount(s) ==
  /\ signUp[s] = "find"
  /\ key[s] \in Identities
  /\ To(s, IF Taken(key[s]) THEN "outcome" ELSE "create")
  /\ UNCHANGED <<tenants, key, exchangeVars>>

\* Mutant: no unique constraint.
CreatesUnchecked(s) ==
  /\ signUp[s] = "create"
  /\ To(s, "outcome")
  /\ tenants' = tenants \cup {[by |-> s, key |-> key[s]]}
  /\ UNCHANGED <<key, exchangeVars>>

\* The transaction: the unique constraint of the slug, or of the account,
\* undoes the second of two.
Creates(s) ==
  /\ signUp[s] = "create"
  /\ IF Taken(key[s])
     THEN To(s, "failed") /\ UNCHANGED tenants
     ELSE To(s, "outcome") /\ tenants' = tenants \cup {[by |-> s, key |-> key[s]]}
  /\ UNCHANGED <<key, exchangeVars>>

\* Tokens for register(); a code in Redis for a social login.
IsAnswered(s) ==
  /\ signUp[s] = "outcome"
  /\ To(s, "signedIn")
  /\ codes' = IF key[s] \in Identities THEN codes \cup {s} ELSE codes
  /\ UNCHANGED <<tenants, key, exchange, code, answered, late>>

\* Any await of a sign-up may reject; what was committed stays.
SignUpFails(s) ==
  /\ signUp[s] \in {"find", "create", "outcome"}
  /\ To(s, "failed")
  /\ UNCHANGED <<tenants, key, exchangeVars>>
-----------------------------------------------------------------------------
\* The page /oauth/callback?code=... is loaded, the first time or again.
CallbackLoads(x, s) ==
  /\ exchange[x] = "none"
  /\ signUp[s] = "signedIn" /\ key[s] \in Identities
  /\ exchange' = [exchange EXCEPT ![x] = "get"]
  /\ code' = [code EXCEPT ![x] = s]
  /\ late' = IF s \in answered THEN late \cup {x} ELSE late
  /\ UNCHANGED <<signUpVars, codes, answered>>

GetsCode(x) ==
  /\ exchange[x] = "get"
  /\ exchange' = [exchange EXCEPT ![x] = IF code[x] \in codes THEN "del" ELSE "refused"]
  /\ UNCHANGED <<signUpVars, codes, code, answered, late>>

\* Mutant: the code stays until it expires.
DeletesNothing(x) ==
  /\ exchange[x] = "del"
  /\ exchange' = [exchange EXCEPT ![x] = "signedIn"]
  /\ answered' = answered \cup {code[x]}
  /\ UNCHANGED <<signUpVars, codes, code, late>>

DeletesCode(x) ==
  /\ exchange[x] = "del"
  /\ exchange' = [exchange EXCEPT ![x] = "signedIn"]
  /\ codes' = codes \ {code[x]}
  /\ answered' = answered \cup {code[x]}
  /\ UNCHANGED <<signUpVars, code, late>>

ExchangeFails(x) ==
  /\ exchange[x] \in {"get", "del"}
  /\ exchange' = [exchange EXCEPT ![x] = "refused"]
  /\ UNCHANGED <<signUpVars, codes, code, answered, late>>

CodeExpires(s) ==
  /\ s \in codes
  /\ codes' = codes \ {s}
  /\ UNCHANGED <<signUpVars, exchange, code, answered, late>>

JoinNext ==
  \/ \E s \in SignUps, k \in Slugs \cup Identities : Registers(s, k) \/ ProviderCallsBack(s, k)
  \/ \E s \in SignUps :
       \/ FindsSlug(s) \/ FindsAccount(s) \/ Creates(s) \/ IsAnswered(s)
       \/ SignUpFails(s) \/ CodeExpires(s)
       \/ \E x \in Exchanges : CallbackLoads(x, s)
  \/ \E x \in Exchanges : GetsCode(x) \/ DeletesCode(x) \/ ExchangeFails(x)

JoinSpec == JoinInit /\ [][JoinNext]_joinVars
-----------------------------------------------------------------------------
JoinTypeOK ==
  /\ tenants \in SUBSET [by : SignUps, key : Slugs \cup Identities]
  /\ signUp \in [SignUps -> SignUpStep]
  /\ key \in [SignUps -> Slugs \cup Identities \cup {NoKey}]
  /\ codes \in SUBSET SignUps /\ answered \in SUBSET SignUps
  /\ exchange \in [Exchanges -> {"none", "get", "del", "signedIn", "refused"}]
  /\ code \in [Exchanges -> SignUps \cup {NoKey}]
  /\ late \in SUBSET Exchanges

\* Two sign-ups that look for one key together create one tenant: whoever
\* registered a slug owns its only tenant, and every sign-in of one account
\* of a provider leads to the same one.
OneTenantPerKey ==
  /\ \A t, u \in tenants : t.key = u.key => t = u
  /\ \A s \in SignUps : signUp[s] = "signedIn" =>
       \E t \in tenants : t.key = key[s] /\ (key[s] \in Slugs => t.by = s)

\* The code of a social login may be answered to several exchanges only when
\* they overlap: one that is sent after an answer is always refused.
ExchangedCodeIsSpent ==
  \A x \in late : exchange[x] # "signedIn"
=============================================================================
