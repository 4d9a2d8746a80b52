---------------------------- MODULE SecondFactor ----------------------------
(***************************************************************************)
(* The second factor of one user: the columns mfaEnabled, mfaSecret and    *)
(* mfaBackupCodes, the handlers that read the row and write some of its    *)
(* columns back, and the tabs of the browsers that call them.              *)
(*                                                                         *)
(* Every handler reads the user and works on that copy: `copy` holds what  *)
(* may be outdated when the handler writes.  Passwords and one-time        *)
(* passwords are a verdict; a backup code is a member of a numbered set.   *)
(***************************************************************************)
EXTENDS Naturals

CONSTANTS
  Tabs,        \* tabs in which the user works at the same time
  Codes,       \* backup codes of a set
  MaxSecrets,  \* bound: secrets that are generated
  MaxSets      \* bound: sets of backup codes that are generated

ASSUME FactorAssumption == MaxSecrets \in Nat /\ MaxSets \in Nat

Row == [enabled : BOOLEAN, secret : 0..MaxSecrets, set : 0..MaxSets, unused : SUBSET Codes]
NoFactor == [enabled |-> FALSE, secret |-> 0, set |-> 0, unused |-> {}]

VARIABLES
  row,       \* the user's columns
  screen,    \* the page a tab is at
  knows,     \* user.mfaEnabled of its session
  setup,     \* the secret its security page shows; 0 is none
  asks,      \* the request it waits for
  again,     \* whether it waits for a second set-up, too
  read,      \* whether the handler has read the row
  copy,      \* the row it read
  secrets, sets,  \* how many were generated
  confirmed, \* history: secrets a one-time password was verified against
  spent,     \* history: backup codes that opened a session
  twice,     \* history: one of them opened two
  stale,     \* history: backup codes were written over newer ones
  crossed    \* history: a change of the settings crossed another

tabVars == <<screen, knows, setup>>
handlers == <<asks, again, read, copy>>
generated == <<secrets, sets>>
factorHistory == <<confirmed, spent, twice, stale, crossed>>
factorVars == <<row, tabVars, handlers, generated, factorHistory>>

Change == {"setup", "enable", "disable"}
FactorRequest == Change \cup {"login", "verify"}

FactorInit ==
  /\ row = NoFactor
  /\ screen = [t \in Tabs |-> "login"]
  /\ knows = [t \in Tabs |-> FALSE]
  /\ setup = [t \in Tabs |-> 0]
  /\ asks = [t \in Tabs |-> "nothing"]
  /\ again = [t \in Tabs |-> FALSE]
  /\ read = [t \in Tabs |-> FALSE]
  /\ copy = [t \in Tabs |-> NoFactor]
  /\ secrets = 0 /\ sets = 0
  /\ confirmed = {} /\ spent = {}
  /\ twice = FALSE /\ stale = FALSE /\ crossed = FALSE
-----------------------------------------------------------------------------
(* The pages *)

Send(t, what) ==
  /\ asks[t] = "nothing"
  /\ asks' = [asks EXCEPT ![t] = what]
  /\ UNCHANGED <<row, tabVars, again, read, copy, generated, confirmed, spent, twice, stale>>

LoginSubmitted(t) == screen[t] = "login" /\ Send(t, "login") /\ UNCHANGED crossed

CodeSubmitted(t) == screen[t] = "mfa" /\ Send(t, "verify") /\ UNCHANGED crossed

\* Which of its three panels the security page shows.
Panel(t) ==
  IF screen[t] # "app" THEN "none"
  ELSE IF knows[t] THEN "disable"
  ELSE IF setup[t] = 0 THEN "setup"
  ELSE "enable"

\* A change crosses another when the tab does not know of that one, which
\* another tab made or whose answer was lost, or while it is in progress.
SettingsSubmitted(t) ==
  /\ Panel(t) \in Change
  /\ Send(t, Panel(t))
  /\ crossed' = (crossed \/ knows[t] # row.enabled
                         \/ \E o \in Tabs \ {t} : asks[o] \in Change \/ setup[o] # 0)

\* isSubmitting disables the other buttons, not the one that starts a set-up.
ClicksAgain(t) ==
  /\ Panel(t) = "setup"
  /\ asks[t] = "setup" /\ ~again[t]
  /\ again' = [again EXCEPT ![t] = TRUE]
  /\ crossed' = TRUE
  /\ UNCHANGED <<row, tabVars, asks, read, copy, generated, confirmed, spent, twice, stale>>

\* A logout or a token that lapsed, or another page of the application: the
\* state of the security page is gone.
Leaves(t) ==
  /\ screen[t] \in {"mfa", "app"}
  /\ asks[t] = "nothing" /\ ~again[t]
  /\ screen' \in {screen, [screen EXCEPT ![t] = "login"]}
  /\ setup' = [setup EXCEPT ![t] = 0]
  /\ UNCHANGED <<row, knows, handlers, generated, factorHistory>>
-----------------------------------------------------------------------------
(* The handlers.  Between the read and the write another may write. *)

\* Only verifyMfa looks at the backup codes it read.
Reads(t) ==
  /\ asks[t] # "nothing"
  /\ ~read[t]
  /\ read' = [read EXCEPT ![t] = TRUE]
  /\ copy' = [copy EXCEPT ![t] =
       IF asks[t] = "verify" THEN row ELSE [row EXCEPT !.set = 0, !.unused = {}]]
  /\ UNCHANGED <<row, tabVars, asks, again, generated, factorHistory>>

Answers(t) ==
  /\ asks' = [asks EXCEPT ![t] = "nothing"]
  /\ read' = [read EXCEPT ![t] = FALSE]
  /\ copy' = [copy EXCEPT ![t] = NoFactor]
  /\ UNCHANGED again

Handles(t, what) == read[t] /\ asks[t] = what /\ Answers(t)

\* applyLoginOutcome and the page's router.push, if the answer arrives.
Enters(t) ==
  \/ /\ screen' = [screen EXCEPT ![t] = "app"]
     /\ knows' = [knows EXCEPT ![t] = copy[t].enabled]
     /\ UNCHANGED setup
  \/ UNCHANGED tabVars

\* buildLoginOutcome: tokens, or the token of the MFA page.
LoginAnswered(t) ==
  /\ Handles(t, "login")
  /\ IF copy[t].enabled
     THEN screen' = [screen EXCEPT ![t] = "mfa"] /\ UNCHANGED <<knows, setup>>
     ELSE Enters(t)
  /\ UNCHANGED <<row, generated, factorHistory>>

HasFactor(r) == r.enabled /\ r.secret # 0

VerifiedByApp(t) ==
  /\ Handles(t, "verify")
  /\ HasFactor(copy[t])
  /\ Enters(t)
  /\ UNCHANGED <<row, generated, factorHistory>>

\* Mutant: a code that was found is not marked as used.
VerifiedKeepsCode(t, c) ==
  /\ Handles(t, "verify")
  /\ HasFactor(copy[t])
  /\ c \in copy[t].unused
  /\ twice' = (twice \/ <<copy[t].set, c>> \in spent)
  /\ spent' = spent \cup {<<copy[t].set, c>>}
  /\ Enters(t)
  /\ UNCHANGED <<row, generated, confirmed, stale, crossed>>

\* consumeBackupCode marks the code in the copy's array, and the update
\* writes the whole array.
VerifiedByBackupCode(t, c) ==
  /\ Handles(t, "verify")
  /\ HasFactor(copy[t])
  /\ c \in copy[t].unused
  /\ row' = [row EXCEPT !.set = copy[t].set, !.unused = copy[t].unused \ {c}]
  /\ stale' = (stale \/ row.set # copy[t].set \/ row.unused # copy[t].unused)
  /\ twice' = (twice \/ <<copy[t].set, c>> \in spent)
  /\ spent' = spent \cup {<<copy[t].set, c>>}
  /\ Enters(t)
  /\ UNCHANGED <<generated, confirmed, crossed>>

\* Mutant: the factor is enabled with the set-up, before a code is verified.
SecretEnables(t) ==
  /\ secrets < MaxSecrets
  /\ secrets' = secrets + 1
  /\ row' = [row EXCEPT !.enabled = TRUE, !.secret = secrets + 1]
  /\ setup' \in {setup, [setup EXCEPT ![t] = secrets + 1]}
  /\ UNCHANGED <<screen, knows, sets, factorHistory>>

\* setupMfa looks at nothing of the row it read, not even at mfaEnabled.
Secret(t) ==
  /\ secrets < MaxSecrets
  /\ secrets' = secrets + 1
  /\ row' = [row EXCEPT !.secret = secrets + 1]
  /\ setup' \in {setup, [setup EXCEPT ![t] = secrets + 1]} \* the answer may be lost
  /\ UNCHANGED <<screen, knows, sets, factorHistory>>

SetUp(t) == Handles(t, "setup") /\ Secret(t)

SetUpAgain(t) ==
  /\ again[t]
  /\ again' = [again EXCEPT ![t] = FALSE]
  /\ Secret(t) \/ UNCHANGED <<row, tabVars, generated, factorHistory>>
  /\ UNCHANGED <<asks, read, copy>>

\* enableMfa verifies the code, here one for the secret on the page, against
\* the copy; setSession and setSetup(null) follow unless the answer is lost.
Enable(t) ==
  /\ Handles(t, "enable")
  /\ copy[t].secret # 0
  /\ copy[t].secret = setup[t]
  /\ sets < MaxSets
  /\ sets' = sets + 1
  /\ row' = [row EXCEPT !.enabled = TRUE, !.set = sets + 1, !.unused = Codes]
  /\ confirmed' = confirmed \cup {copy[t].secret}
  /\ \/ knows' = [knows EXCEPT ![t] = TRUE] /\ setup' = [setup EXCEPT ![t] = 0]
     \/ UNCHANGED <<knows, setup>>
  /\ UNCHANGED <<screen, secrets, spent, twice, stale, crossed>>

\* The page sends a one-time password, which needs a secret.
Disable(t) ==
  /\ Handles(t, "disable")
  /\ copy[t].secret # 0
  /\ row' = NoFactor
  /\ knows' \in {knows, [knows EXCEPT ![t] = FALSE]}
  /\ UNCHANGED <<screen, setup, generated, factorHistory>>

\* A wrong code or password, a factor that is not enabled, a failed call.
FactorRefuses(t) ==
  /\ asks[t] # "nothing"
  /\ Answers(t)
  /\ UNCHANGED <<row, tabVars, generated, factorHistory>>

FactorNext == \E t \in Tabs :
  \/ LoginSubmitted(t) \/ CodeSubmitted(t) \/ SettingsSubmitted(t) \/ ClicksAgain(t) \/ Leaves(t)
  \/ Reads(t) \/ LoginAnswered(t) \/ VerifiedByApp(t)
  \/ \E c \in Codes : VerifiedByBackupCode(t, c)
  \/ SetUp(t) \/ SetUpAgain(t) \/ Enable(t) \/ Disable(t) \/ FactorRefuses(t)

FactorSpec == FactorInit /\ [][FactorNext]_factorVars
-----------------------------------------------------------------------------
FactorTypeOK ==
  /\ row \in Row
  /\ screen \in [Tabs -> {"login", "mfa", "app"}]
  /\ knows \in [Tabs -> BOOLEAN]
  /\ setup \in [Tabs -> 0..MaxSecrets]
  /\ asks \in [Tabs -> FactorRequest \cup {"nothing"}]
  /\ again \in [Tabs -> BOOLEAN]
  /\ read \in [Tabs -> BOOLEAN]
  /\ copy \in [Tabs -> Row]
  /\ secrets \in 0..MaxSecrets /\ sets \in 0..MaxSets
  /\ confirmed \in SUBSET (1..MaxSecrets)
  /\ spent \in SUBSET ((0..MaxSets) \X Codes)
  /\ twice \in BOOLEAN /\ stale \in BOOLEAN /\ crossed \in BOOLEAN

\* A backup code opens one session only, and the codes that count are those
\* of the last set shown, unless two verifications, or a verification and a
\* change of the settings, overlapped so that older codes were written back.
BackupCodeOnce ==
  ~stale => /\ ~twice
            /\ row.set \in {0, sets}
            /\ \A c \in row.unused : <<row.set, c>> \notin spent

\* Unless a change of the settings crossed another, an enabled factor has a
\* secret that the user's authenticator has proved to know: set-ups that are
\* abandoned, repeated after a disabling or left half-way by a failure never
\* lock the user out.
EnabledFactorIsConfirmed ==
  row.enabled /\ ~crossed => row.secret \in confirmed
=============================================================================
