--------------------------- MODULE TableRowsProofs ---------------------------
(***************************************************************************)
(* Proofs about SecondFactor, for any number of tabs, codes and set-ups,   *)
(* about Reports, for any number of tenants, days and quotes, and about    *)
(* TableRows, whose parts keep their invariants side by side.              *)
(***************************************************************************)
EXTENDS TableRows, RecordsProofs
-----------------------------------------------------------------------------
(* The second factor *)

\* What a handler may write into the row.
LEMMA RowWithCodes ==
  ASSUME NEW r \in Row, NEW n \in 0..MaxSets, NEW u \in SUBSET Codes
  PROVE  /\ [r EXCEPT !.set = n, !.unused = u] \in Row
         /\ [r EXCEPT !.enabled = TRUE, !.set = n, !.unused = u] \in Row
BY DEF Row

LEMMA RowWithSecret ==
  ASSUME NEW r \in Row, NEW n \in 0..MaxSecrets
  PROVE  [r EXCEPT !.secret = n] \in Row
BY DEF Row

\* Every step keeps the types.
LEMMA FactorTypeStep ==
  ASSUME FactorTypeOK, [FactorNext]_factorVars
  PROVE  FactorTypeOK'
<1> USE FactorAssumption DEF FactorTypeOK, FactorRequest, Change, tabVars, handlers, generated, factorHistory
<1>0. NoFactor \in Row
  BY DEF NoFactor, Row
<1>1. ASSUME NEW t \in Tabs, LoginSubmitted(t) PROVE FactorTypeOK'
  BY <1>1 DEF LoginSubmitted, Send
<1>2. ASSUME NEW t \in Tabs, CodeSubmitted(t) PROVE FactorTypeOK'
  BY <1>2 DEF CodeSubmitted, Send
<1>3. ASSUME NEW t \in Tabs, SettingsSubmitted(t) PROVE FactorTypeOK'
  <2>1. crossed' \in BOOLEAN
    BY <1>3 DEF SettingsSubmitted
  <2>2. /\ asks' \in [Tabs -> FactorRequest \cup {"nothing"}]
        /\ UNCHANGED <<row, tabVars, again, read, copy, generated, confirmed, spent, twice, stale>>
    BY <1>3 DEF SettingsSubmitted, Send
  <2> QED BY <2>1, <2>2
<1>4. ASSUME NEW t \in Tabs, ClicksAgain(t) PROVE FactorTypeOK'
  BY <1>4 DEF ClicksAgain
<1>5. ASSUME NEW t \in Tabs, Leaves(t) PROVE FactorTypeOK'
  BY <1>5 DEF Leaves
<1>6. ASSUME NEW t \in Tabs, Reads(t) PROVE FactorTypeOK'
  <2>0. 0 \in 0..MaxSets /\ {} \in SUBSET Codes
    BY SMT
  <2>1. [row EXCEPT !.set = 0, !.unused = {}] \in Row
    BY <2>0, RowWithCodes
  <2> QED BY <1>6, <2>1 DEF Reads
<1>7. ASSUME NEW t \in Tabs, LoginAnswered(t) PROVE FactorTypeOK'
  BY <1>0, <1>7 DEF LoginAnswered, Handles, Answers, Enters, Row
<1>8. ASSUME NEW t \in Tabs, VerifiedByApp(t) PROVE FactorTypeOK'
  BY <1>0, <1>8 DEF VerifiedByApp, Handles, Answers, Enters, Row
<1>9. ASSUME NEW t \in Tabs, NEW c \in Codes, VerifiedByBackupCode(t, c) PROVE FactorTypeOK'
  <2>1. copy[t] \in Row /\ copy[t].set \in 0..MaxSets /\ copy[t].unused \in SUBSET Codes
        /\ copy[t].enabled \in BOOLEAN
    BY DEF Row
  <2>2. row' \in Row
    BY <1>9, <2>1 DEF VerifiedByBackupCode, Row
  <2>3. stale' \in BOOLEAN
    BY <1>9 DEF VerifiedByBackupCode
  <2>4. twice' \in BOOLEAN
    BY <1>9 DEF VerifiedByBackupCode
  <2>5. spent' \in SUBSET ((0..MaxSets) \X Codes)
    BY <1>9, <2>1 DEF VerifiedByBackupCode
  <2>6. /\ screen' \in [Tabs -> {"login", "mfa", "app"}]
        /\ knows' \in [Tabs -> BOOLEAN]
        /\ setup' \in [Tabs -> 0..MaxSecrets]
    BY <1>9, <2>1 DEF VerifiedByBackupCode, Enters
  <2>7. /\ asks' \in [Tabs -> FactorRequest \cup {"nothing"}]
        /\ read' \in [Tabs -> BOOLEAN] /\ copy' \in [Tabs -> Row]
        /\ UNCHANGED <<again, generated, confirmed, crossed>>
    BY <1>0, <1>9 DEF VerifiedByBackupCode, Handles, Answers
  <2> QED BY <2>2, <2>3, <2>4, <2>5, <2>6, <2>7
<1>10. ASSUME NEW t \in Tabs, SetUp(t) PROVE FactorTypeOK'
  <2>0. secrets + 1 \in 0..MaxSecrets
    BY <1>10 DEF SetUp, Secret
  <2>1. row' \in Row /\ setup' \in [Tabs -> 0..MaxSecrets] /\ secrets' \in 0..MaxSecrets
    BY <1>10, <2>0, RowWithSecret DEF SetUp, Secret
  <2>2. UNCHANGED <<screen, knows, sets, factorHistory>>
    BY <1>10 DEF SetUp, Secret
  <2>3. /\ asks' \in [Tabs -> FactorRequest \cup {"nothing"}]
        /\ read' \in [Tabs -> BOOLEAN] /\ copy' \in [Tabs -> Row] /\ UNCHANGED again
    BY <1>0, <1>10 DEF SetUp, Handles, Answers
  <2> QED BY <2>1, <2>2, <2>3
<1>11. ASSUME NEW t \in Tabs, SetUpAgain(t) PROVE FactorTypeOK'
  <2>1. again' \in [Tabs -> BOOLEAN]
    BY <1>11 DEF SetUpAgain
  <2>2. UNCHANGED <<asks, read, copy>>
    BY <1>11 DEF SetUpAgain
  <2>3. /\ row' \in Row /\ setup' \in [Tabs -> 0..MaxSecrets] /\ secrets' \in 0..MaxSecrets
        /\ UNCHANGED <<screen, knows, sets, factorHistory>>
    <3>1. CASE Secret(t)
      <4>0. secrets + 1 \in 0..MaxSecrets
        BY <3>1 DEF Secret
      <4>1. row' \in Row
        BY <3>1, <4>0, RowWithSecret DEF Secret
      <4>2. setup' \in [Tabs -> 0..MaxSecrets] /\ secrets' \in 0..MaxSecrets
        BY <3>1, <4>0 DEF Secret
      <4>3. UNCHANGED <<screen, knows, sets, factorHistory>>
        BY <3>1 DEF Secret
      <4> QED BY <4>1, <4>2, <4>3
    <3>2. CASE UNCHANGED <<row, tabVars, generated, factorHistory>>
      BY <3>2 DEF tabVars, generated
    <3> QED BY <1>11, <3>1, <3>2 DEF SetUpAgain
  <2> QED BY <2>1, <2>2, <2>3
<1>12. ASSUME NEW t \in Tabs, Enable(t) PROVE FactorTypeOK'
  <2>1. copy[t].secret \in 1..MaxSecrets
    BY <1>12 DEF Enable, Row
  <2>0. sets + 1 \in 0..MaxSets
    BY <1>12 DEF Enable
  <2>2. row' \in Row /\ sets' \in 0..MaxSets
    BY <1>12, <2>0, RowWithCodes DEF Enable
  <2>3. confirmed' \in SUBSET (1..MaxSecrets)
    BY <1>12, <2>1 DEF Enable
  <2>4. UNCHANGED <<screen, secrets, spent, twice, stale, crossed>>
    BY <1>12 DEF Enable
  <2>6. knows' \in [Tabs -> BOOLEAN] /\ setup' \in [Tabs -> 0..MaxSecrets]
    <3>1. CASE knows' = [knows EXCEPT ![t] = TRUE] /\ setup' = [setup EXCEPT ![t] = 0]
      BY <3>1
    <3>2. CASE UNCHANGED <<knows, setup>>
      BY <3>2
    <3> QED BY <1>12, <3>1, <3>2 DEF Enable
  <2>5. /\ asks' \in [Tabs -> FactorRequest \cup {"nothing"}]
        /\ read' \in [Tabs -> BOOLEAN] /\ copy' \in [Tabs -> Row] /\ UNCHANGED again
    BY <1>0, <1>12 DEF Enable, Handles, Answers
  <2> QED BY <2>2, <2>3, <2>4, <2>5, <2>6
<1>13. ASSUME NEW t \in Tabs, Disable(t) PROVE FactorTypeOK'
  BY <1>0, <1>13 DEF Disable, Handles, Answers
<1>14. ASSUME NEW t \in Tabs, FactorRefuses(t) PROVE FactorTypeOK'
  BY <1>0, <1>14 DEF FactorRefuses, Answers
<1>15. CASE UNCHANGED factorVars
  BY <1>15 DEF factorVars
<1> QED
  BY <1>1, <1>2, <1>3, <1>4, <1>5, <1>6, <1>7, <1>8, <1>9, <1>10, <1>11, <1>12, <1>13, <1>14, <1>15
     DEF FactorNext
-----------------------------------------------------------------------------
(* Backup codes *)

\* Nobody holds a set of codes that was not generated.
SetBook ==
  /\ row.set <= sets
  /\ \A t \in Tabs : copy[t].set <= sets
  /\ \A p \in spent : p[1] <= sets

\* A verification that finds the codes as it read them takes one away; a new
\* set starts unspent.
LEMMA BackupStep ==
  ASSUME FactorTypeOK, SetBook, BackupCodeOnce, [FactorNext]_factorVars
  PROVE  SetBook' /\ BackupCodeOnce'
<1> USE FactorAssumption DEF FactorTypeOK, SetBook, BackupCodeOnce
<1> DEFINE Kept == UNCHANGED <<sets, spent, twice, stale>>
           Copies == \A t \in Tabs : copy'[t].set \in {copy[t].set, row.set, 0}
<1>0. ASSUME Kept, Copies, row'.set = row.set, row'.unused = row.unused
      PROVE  SetBook' /\ BackupCodeOnce'
  BY <1>0 DEF Row
<1>1. ASSUME NEW t \in Tabs, Reads(t) PROVE SetBook' /\ BackupCodeOnce'
  <2>1. Copies /\ Kept /\ UNCHANGED row
    BY <1>1 DEF Reads, generated, factorHistory, Row
  <2> QED BY <2>1, <1>0
<1>2. ASSUME NEW t \in Tabs, Answers(t) PROVE Copies
  BY <1>2 DEF Answers, NoFactor
<1>3. ASSUME NEW t \in Tabs, LoginSubmitted(t) \/ CodeSubmitted(t) \/ SettingsSubmitted(t) \/ ClicksAgain(t)
      PROVE  SetBook' /\ BackupCodeOnce'
  <2>1. Copies /\ Kept /\ UNCHANGED row
    BY <1>3 DEF LoginSubmitted, CodeSubmitted, SettingsSubmitted, ClicksAgain, Send, generated
  <2> QED BY <2>1, <1>0
<1>4. ASSUME NEW t \in Tabs, Leaves(t) PROVE SetBook' /\ BackupCodeOnce'
  BY <1>4, <1>0 DEF Leaves, handlers, generated, factorHistory
<1>5. ASSUME NEW t \in Tabs, LoginAnswered(t) \/ VerifiedByApp(t) \/ FactorRefuses(t)
      PROVE  SetBook' /\ BackupCodeOnce'
  <2>1. Answers(t) /\ Kept /\ UNCHANGED row
    BY <1>5 DEF LoginAnswered, VerifiedByApp, FactorRefuses, Handles, generated, factorHistory
  <2> QED BY <2>1, <1>0, <1>2
<1>6. ASSUME NEW t \in Tabs, NEW c \in Codes, VerifiedByBackupCode(t, c)
      PROVE  SetBook' /\ BackupCodeOnce'
  <2>1. /\ row'.set = copy[t].set /\ row'.unused = copy[t].unused \ {c}
        /\ c \in copy[t].unused
        /\ spent' = spent \cup {<<copy[t].set, c>>}
        /\ stale' = (stale \/ row.set # copy[t].set \/ row.unused # copy[t].unused)
        /\ twice' = (twice \/ <<copy[t].set, c>> \in spent)
        /\ UNCHANGED sets /\ Answers(t)
    BY <1>6 DEF VerifiedByBackupCode, Handles, generated, Row
  <2>2. SetBook'
    BY <2>1, <1>2 DEF Row
  <2>3. BackupCodeOnce'
    BY <2>1
  <2> QED BY <2>2, <2>3
<1>7. ASSUME NEW t \in Tabs, SetUp(t) PROVE SetBook' /\ BackupCodeOnce'
  <2>1. Answers(t) /\ Kept /\ row'.set = row.set /\ row'.unused = row.unused
    BY <1>7 DEF SetUp, Handles, Secret, factorHistory, Row
  <2> QED BY <2>1, <1>0, <1>2
<1>8. ASSUME NEW t \in Tabs, SetUpAgain(t) PROVE SetBook' /\ BackupCodeOnce'
  <2>1. Copies /\ Kept /\ row'.set = row.set /\ row'.unused = row.unused
    BY <1>8 DEF SetUpAgain, Secret, generated, factorHistory, Row
  <2> QED BY <2>1, <1>0
<1>9. ASSUME NEW t \in Tabs, Enable(t) PROVE SetBook' /\ BackupCodeOnce'
  <2>1. /\ row'.set = sets + 1 /\ sets' = sets + 1
        /\ UNCHANGED <<spent, twice, stale>> /\ Answers(t)
    BY <1>9 DEF Enable, Handles, Row
  <2>2. SetBook'
    <3>1. sets \in Nat /\ row.set \in Nat /\ \A o \in Tabs : copy[o].set \in Nat
      BY DEF Row
    <3>2. Copies
      BY <2>1, <1>2
    <3>3. \A o \in Tabs : copy'[o].set <= sets'
      BY <2>1, <3>1, <3>2
    <3>4. \A p \in spent' : p[1] <= sets'
      BY <2>1
    <3> QED BY <2>1, <3>1, <3>3, <3>4
  <2>3. \A c \in row'.unused : <<row'.set, c>> \notin spent'
    BY <2>1
  <2> QED BY <2>1, <2>2, <2>3
<1>10. ASSUME NEW t \in Tabs, Disable(t) PROVE SetBook' /\ BackupCodeOnce'
  <2>1. row'.set = 0 /\ row'.unused = {} /\ Kept /\ Answers(t)
    BY <1>10 DEF Disable, Handles, NoFactor, generated, factorHistory
  <2> QED BY <2>1, <1>2 DEF Row
<1>11. CASE UNCHANGED factorVars
  BY <1>11, <1>0 DEF factorVars, handlers, generated, factorHistory
<1> QED
  BY <1>1, <1>3, <1>4, <1>5, <1>6, <1>7, <1>8, <1>9, <1>10, <1>11 DEF FactorNext
-----------------------------------------------------------------------------
(* The settings *)

\* A tab that changes the settings, or is about to.
Engaged(t) == asks[t] \in Change \/ setup[t] # 0

\* As long as no change crossed another, one tab is engaged at a time, on a
\* row that is as its page shows it.
SettingsBook ==
  ~crossed => \A t \in Tabs :
    /\ ~again[t]
    /\ asks[t] = "login" => screen[t] = "login"
    /\ asks[t] = "verify" => screen[t] = "mfa"
    /\ asks[t] \in Change => screen[t] = "app"
    /\ asks[t] = "setup" => ~row.enabled /\ ~knows[t] /\ setup[t] = 0
    /\ asks[t] = "disable" => setup[t] = 0
    /\ setup[t] # 0 => screen[t] = "app" /\ ~knows[t] /\ row.secret = setup[t]
    /\ \A o \in Tabs \ {t} : ~(Engaged(t) /\ Engaged(o))

\* One case for each action: what it writes, then what that leaves.
LEMMA SettingsStep ==
  ASSUME FactorTypeOK, SettingsBook, EnabledFactorIsConfirmed, [FactorNext]_factorVars
  PROVE  SettingsBook' /\ EnabledFactorIsConfirmed'
<1> DEFINE Held == SettingsBook' /\ EnabledFactorIsConfirmed'
           Types == /\ screen \in [Tabs -> {"login", "mfa", "app"}]
                    /\ knows \in [Tabs -> BOOLEAN] /\ again \in [Tabs -> BOOLEAN]
                    /\ setup \in [Tabs -> 0..MaxSecrets]
                    /\ asks \in [Tabs -> FactorRequest \cup {"nothing"}]
<1>0. Types
  BY DEF FactorTypeOK
<1> USE <1>0 DEF SettingsBook, EnabledFactorIsConfirmed, Engaged, Change
<1>1. ASSUME NEW t \in Tabs, LoginSubmitted(t) \/ CodeSubmitted(t) PROVE Held
  BY <1>1 DEF LoginSubmitted, CodeSubmitted, Send, tabVars
<1>2. ASSUME NEW t \in Tabs, SettingsSubmitted(t) PROVE Held
  <2>1. /\ screen[t] = "app" /\ asks[t] = "nothing"
        /\ Panel(t) = "setup" => ~knows[t] /\ setup[t] = 0
        /\ Panel(t) = "disable" => knows[t]
        /\ asks' = [asks EXCEPT ![t] = Panel(t)]
        /\ UNCHANGED <<row, screen, knows, setup, again, confirmed>>
    BY <1>2 DEF SettingsSubmitted, Panel, Send, tabVars
  <2>2. ~crossed' => /\ ~crossed /\ knows[t] = row.enabled
                     /\ \A o \in Tabs \ {t} : asks[o] \notin Change /\ setup[o] = 0
    BY <1>2 DEF SettingsSubmitted
  <2>3. /\ asks'[t] = Panel(t) /\ Panel(t) \in Change
        /\ \A o \in Tabs \ {t} : asks'[o] = asks[o]
    BY <1>2, <2>1 DEF SettingsSubmitted
  <2>4. ASSUME ~crossed' PROVE SettingsBook'
    BY <2>1, <2>2, <2>3, <2>4
  <2>5. EnabledFactorIsConfirmed'
    BY <2>1, <2>2
  <2> QED BY <2>4, <2>5
<1>3. ASSUME NEW t \in Tabs, ClicksAgain(t) PROVE Held
  BY <1>3 DEF ClicksAgain
<1>4. ASSUME NEW t \in Tabs, Leaves(t) PROVE Held
  BY <1>4 DEF Leaves, handlers, factorHistory
<1>5. ASSUME NEW t \in Tabs, Reads(t) PROVE Held
  BY <1>5 DEF Reads, tabVars, factorHistory
<1>6. ASSUME NEW t \in Tabs, LoginAnswered(t) PROVE Held
  <2>1. /\ asks[t] = "login" /\ asks' = [asks EXCEPT ![t] = "nothing"]
        /\ UNCHANGED <<row, setup, again, confirmed, crossed>>
        /\ \A o \in Tabs \ {t} : screen'[o] = screen[o] /\ knows'[o] = knows[o]
    BY <1>6 DEF LoginAnswered, Handles, Answers, Enters, tabVars, factorHistory
  <2> QED BY <2>1
<1>7. ASSUME NEW t \in Tabs, asks[t] = "verify", Answers(t), Enters(t),
             UNCHANGED <<confirmed, crossed>>, row'.enabled = row.enabled, row'.secret = row.secret
      PROVE  Held
  <2>1. /\ asks' = [asks EXCEPT ![t] = "nothing"] /\ UNCHANGED <<setup, again>>
        /\ \A o \in Tabs \ {t} : screen'[o] = screen[o] /\ knows'[o] = knows[o]
    BY <1>7 DEF Answers, Enters, tabVars
  <2> QED BY <2>1, <1>7
<1>8. ASSUME NEW t \in Tabs, VerifiedByApp(t) PROVE Held
  BY <1>8, <1>7 DEF VerifiedByApp, Handles, factorHistory
<1>9. ASSUME NEW t \in Tabs, NEW c \in Codes, VerifiedByBackupCode(t, c) PROVE Held
  <2>1. row'.enabled = row.enabled /\ row'.secret = row.secret
    BY <1>9 DEF VerifiedByBackupCode, FactorTypeOK, Row
  <2> QED BY <1>9, <1>7, <2>1 DEF VerifiedByBackupCode, Handles
<1>10. ASSUME NEW t \in Tabs, SetUp(t) PROVE Held
  <2>1. /\ asks[t] = "setup" /\ asks' = [asks EXCEPT ![t] = "nothing"]
        /\ row'.enabled = row.enabled /\ row'.secret = secrets + 1
        /\ setup' \in {setup, [setup EXCEPT ![t] = secrets + 1]}
        /\ UNCHANGED <<screen, knows, again, confirmed, crossed>>
    BY <1>10 DEF SetUp, Handles, Answers, Secret, factorHistory, FactorTypeOK, Row
  <2>2. CASE setup' = setup
    BY <2>1, <2>2
  <2>3. CASE setup' = [setup EXCEPT ![t] = secrets + 1]
    <3>1. setup'[t] = secrets + 1 /\ \A o \in Tabs \ {t} : setup'[o] = setup[o]
      BY <2>3
    <3>2. \A o \in Tabs : asks'[o] \in {asks[o], "nothing"} /\ (asks'[o] = asks[o] \/ o = t)
      BY <2>1
    <3>3. ~crossed => ~row.enabled /\ \A o \in Tabs \ {t} : asks[o] \notin Change /\ setup[o] = 0
      BY <2>1
    <3> QED BY <2>1, <3>1, <3>2, <3>3
  <2> QED BY <2>1, <2>2, <2>3
<1>11. ASSUME NEW t \in Tabs, SetUpAgain(t) PROVE Held
  <2>1. again[t] /\ UNCHANGED crossed
    BY <1>11 DEF SetUpAgain, Secret, factorHistory
  <2> QED BY <2>1
<1>12. ASSUME NEW t \in Tabs, Enable(t) PROVE Held
  <2>1. /\ asks[t] = "enable" /\ asks' = [asks EXCEPT ![t] = "nothing"]
        /\ setup[t] # 0 /\ row'.secret = row.secret
        /\ confirmed' = confirmed \cup {setup[t]}
        /\ UNCHANGED <<screen, again, crossed>>
    BY <1>12 DEF Enable, Handles, Answers, FactorTypeOK, Row
  <2>2. \/ knows' = [knows EXCEPT ![t] = TRUE] /\ setup' = [setup EXCEPT ![t] = 0]
        \/ UNCHANGED <<knows, setup>>
    BY <1>12 DEF Enable
  <2>3. EnabledFactorIsConfirmed'
    BY <2>1
  <2>4. SettingsBook'
    BY <2>1, <2>2
  <2> QED BY <2>3, <2>4
<1>13. ASSUME NEW t \in Tabs, Disable(t) PROVE Held
  <2>1. /\ asks[t] = "disable" /\ asks' = [asks EXCEPT ![t] = "nothing"]
        /\ ~row'.enabled
        /\ UNCHANGED <<screen, setup, again, confirmed, crossed>>
        /\ \A o \in Tabs \ {t} : knows'[o] = knows[o]
    BY <1>13 DEF Disable, Handles, Answers, NoFactor, factorHistory
  <2> QED BY <2>1
<1>14. ASSUME NEW t \in Tabs, FactorRefuses(t) PROVE Held
  BY <1>14 DEF FactorRefuses, Answers, tabVars, factorHistory
<1>15. CASE UNCHANGED factorVars
  BY <1>15 DEF factorVars, tabVars, handlers, factorHistory
<1> QED
  BY <1>1, <1>2, <1>3, <1>4, <1>5, <1>6, <1>8, <1>9, <1>10, <1>11, <1>12, <1>13, <1>14, <1>15
     DEF FactorNext
-----------------------------------------------------------------------------
\* What holds at the start.
LEMMA FactorStart ==
  ASSUME FactorInit
  PROVE  FactorTypeOK /\ SetBook /\ BackupCodeOnce /\ SettingsBook /\ EnabledFactorIsConfirmed
<1>1. NoFactor \in Row /\ NoFactor.set = 0 /\ NoFactor.unused = {} /\ NoFactor.enabled = FALSE
  BY FactorAssumption DEF NoFactor, Row
<1>2. FactorTypeOK
  <2>1. row \in Row /\ copy \in [Tabs -> Row]
    BY <1>1 DEF FactorInit
  <2>2. /\ screen \in [Tabs -> {"login", "mfa", "app"}]
        /\ asks \in [Tabs -> FactorRequest \cup {"nothing"}]
    BY DEF FactorInit
  <2>3. /\ knows \in [Tabs -> BOOLEAN] /\ again \in [Tabs -> BOOLEAN] /\ read \in [Tabs -> BOOLEAN]
        /\ twice \in BOOLEAN /\ stale \in BOOLEAN /\ crossed \in BOOLEAN
    BY DEF FactorInit
  <2>4. setup \in [Tabs -> 0..MaxSecrets] /\ secrets \in 0..MaxSecrets /\ sets \in 0..MaxSets
    BY FactorAssumption DEF FactorInit
  <2>5. confirmed \in SUBSET (1..MaxSecrets) /\ spent \in SUBSET ((0..MaxSets) \X Codes)
    BY DEF FactorInit
  <2> QED BY <2>1, <2>2, <2>3, <2>4, <2>5 DEF FactorTypeOK
<1>3. SetBook /\ BackupCodeOnce
  BY <1>1 DEF FactorInit, SetBook, BackupCodeOnce
<1>4. SettingsBook /\ EnabledFactorIsConfirmed
  BY <1>1 DEF FactorInit, SettingsBook, EnabledFactorIsConfirmed, Engaged, Change
<1> QED BY <1>2, <1>3, <1>4

\* The types, for the second factor alone.
THEOREM FactorTypeCorrect == FactorSpec => []FactorTypeOK
<1>1. FactorInit => FactorTypeOK
  BY FactorStart
<1>2. FactorTypeOK /\ [FactorNext]_factorVars => FactorTypeOK'
  BY FactorTypeStep
<1> QED BY <1>1, <1>2, PTL DEF FactorSpec

\* A backup code opens one session, unless an older set of codes was written
\* over a newer one.
THEOREM BackupCodesOpenOnce == FactorSpec => []BackupCodeOnce
<1> DEFINE Inv == FactorTypeOK /\ SetBook /\ BackupCodeOnce
<1>1. FactorInit => Inv
  BY FactorStart
<1>2. Inv /\ [FactorNext]_factorVars => Inv'
  BY FactorTypeStep, BackupStep
<1>3. Inv => BackupCodeOnce
  OBVIOUS
<1> QED BY <1>1, <1>2, <1>3, PTL DEF FactorSpec

\* Set-ups that are abandoned, repeated or cut off by a failure never leave an
\* enabled factor that the authenticator does not know: that takes a change of
\* the settings that crosses another.
THEOREM EnabledFactorsAreConfirmed == FactorSpec => []EnabledFactorIsConfirmed
<1> DEFINE Inv == FactorTypeOK /\ SettingsBook /\ EnabledFactorIsConfirmed
<1>1. FactorInit => Inv
  BY FactorStart
<1>2. Inv /\ [FactorNext]_factorVars => Inv'
  BY FactorTypeStep, SettingsStep
<1>3. Inv => EnabledFactorIsConfirmed
  OBVIOUS
<1> QED BY <1>1, <1>2, <1>3, PTL DEF FactorSpec
-----------------------------------------------------------------------------
(* The daily figures *)

\* The worker is at a day that has begun; what it read is still true while the
\* day stays as it is; and so is the snapshot of a day that stayed as it was.
ReportsBook ==
  /\ reading # {} => day \in Days /\ \E c \in reading : reading = {c}
  /\ 0 \in jobs => today > 1
  /\ steady => \A c \in reading, field \in {"total", "done"} :
       got[field] # MaxQuotes + 1 => got[field] = quotes[<<c, day>>][field]
  /\ \A p \in exact : snapshots[p] = quotes[p]

LEMMA FiguresAreEqual ==
  ASSUME NEW f \in Figures, NEW g \in Figures, f.total = g.total, f.done = g.done
  PROVE  f = g
BY DEF Figures

LEMMA GotIsTyped ==
  ASSUME ReportsTypeOK, NEW n \in 0..MaxQuotes + 1, NEW field \in {"total", "done"}
  PROVE  [got EXCEPT ![field] = n] \in [total : 0..MaxQuotes + 1, done : 0..MaxQuotes + 1]
BY DEF ReportsTypeOK

LEMMA NothingIsGot ==
  /\ NoSnapshot \in [total : 0..MaxQuotes + 1, done : 0..MaxQuotes + 1]
  /\ NoSnapshot.total = MaxQuotes + 1 /\ NoSnapshot.done = MaxQuotes + 1
  /\ NoSnapshot \in Snapshots /\ NoSnapshot \notin Figures
  /\ Zero \in Figures
BY ReportsAssumption DEF NoSnapshot, Snapshots, Figures, Zero

\* A quote changes: the figures of its day are no longer those of a snapshot.
LEMMA QuotesChange ==
  ASSUME ReportsTypeOK, ReportsBook, NEW p \in Places, NEW figures, Changes(p, figures)
  PROVE  ReportsTypeOK' /\ ReportsBook'
<1> USE ReportsAssumption
<1>1. /\ figures \in Figures /\ quotes' = [quotes EXCEPT ![p] = figures]
      /\ exact' = exact \ {p}
      /\ UNCHANGED <<today, snapshots, jobs, day, todo, reading, got, reportFaults>>
      /\ steady' = (steady /\ ~(p[1] \in reading /\ p[2] = day))
  BY DEF Changes
<1>2. \A q \in Places \ {p} : quotes'[q] = quotes[q]
  BY <1>1 DEF ReportsTypeOK
<1>3. steady' \in BOOLEAN
  BY <1>1
<1>4. ReportsTypeOK'
  BY <1>1, <1>3 DEF ReportsTypeOK
<1>5. ASSUME steady', NEW c \in reading PROVE quotes'[<<c, day>>] = quotes[<<c, day>>]
  <2>1. <<c, day>> \in Places
    BY DEF ReportsBook, ReportsTypeOK, Places
  <2>2. ~(p[1] \in reading /\ p[2] = day)
    BY <1>1, <1>5
  <2>3. <<c, day>> # p
    <3> SUFFICES ASSUME <<c, day>> = p PROVE FALSE
      OBVIOUS
    <3>1. p[1] = c /\ p[2] = day
      OBVIOUS
    <3> QED BY <2>2, <3>1
  <2> QED BY <1>2, <2>1, <2>3
<1>6. \A q \in exact' : q \in Places \ {p}
  BY <1>1 DEF ReportsTypeOK
<1>7. ReportsBook'
  <2>1. \A q \in exact' : snapshots'[q] = quotes'[q]
    BY <1>1, <1>2, <1>6 DEF ReportsBook
  <2>2. ASSUME steady', NEW c \in reading', NEW field \in {"total", "done"}, got'[field] # MaxQuotes + 1
        PROVE  got'[field] = quotes'[<<c, day'>>][field]
    <3>1. steady
      BY <1>1, <2>2
    <3>2. quotes'[<<c, day>>] = quotes[<<c, day>>] /\ got' = got /\ day' = day /\ reading' = reading
      BY <1>1, <1>5, <2>2
    <3> QED BY <2>2, <3>1, <3>2 DEF ReportsBook
  <2> QED BY <1>1, <2>1, <2>2 DEF ReportsBook
<1> QED BY <1>4, <1>7

\* Every step keeps the types and the book.
LEMMA ReportsStep ==
  ASSUME ReportsTypeOK, ReportsBook, [ReportsNext]_reportVars
  PROVE  ReportsTypeOK' /\ ReportsBook'
<1> USE ReportsAssumption
<1> DEFINE Held == ReportsTypeOK' /\ ReportsBook'
<1>0. /\ today \in Days /\ Days \subseteq Nat /\ day \in 0..LastDay /\ quotes \in [Places -> Figures]
      /\ snapshots \in [Places -> Snapshots] /\ jobs \in SUBSET (0..LastDay)
      /\ todo \in SUBSET Companies /\ reading \in SUBSET Companies /\ exact \in SUBSET Places
  BY DEF ReportsTypeOK, Days
<1>1. ASSUME NEW c \in Companies, QuoteIsCreated(c) PROVE Held
  <2>1. <<c, today>> \in Places
    BY <1>0 DEF Places
  <2> QED BY <1>1, <2>1, QuotesChange DEF QuoteIsCreated
<1>2. ASSUME NEW p \in Places, QuoteConcludes(p) \/ QuoteReopens(p) \/ QuoteIsRemoved(p) PROVE Held
  BY <1>2, QuotesChange DEF QuoteConcludes, QuoteReopens, QuoteIsRemoved
<1>3. CASE DayPasses
  <2>1. today' \in Days /\ today' > 1
    BY <1>0, <1>3 DEF DayPasses, Days
  <2>2. jobs' \in SUBSET (0..LastDay)
    BY <1>0, <1>3 DEF DayPasses
  <2>3. UNCHANGED <<quotes, snapshots, day, todo, reading, got, steady, exact, reportFaults>>
    BY <1>3 DEF DayPasses, worker
  <2> QED BY <2>1, <2>2, <2>3 DEF ReportsTypeOK, ReportsBook
<1>4. ASSUME NEW date \in 0..LastDay, TriggerAggregation(date) PROVE Held
  <2>1. jobs' \in SUBSET (0..LastDay) /\ (0 \in jobs' => today > 1)
    BY <1>0, <1>4 DEF TriggerAggregation, ReportsBook
  <2>2. UNCHANGED <<today, quotes, snapshots, day, todo, reading, got, steady, exact, reportFaults>>
    BY <1>4 DEF TriggerAggregation, worker
  <2> QED BY <2>1, <2>2 DEF ReportsTypeOK, ReportsBook
<1>5. ASSUME NEW date \in 0..LastDay, Processes(date) PROVE Held
  <2>1. day' \in Days
    BY <1>0, <1>5 DEF Processes, TargetDay, ReportsBook, Days
  <2>2. jobs' \subseteq jobs /\ todo' = Companies
        /\ UNCHANGED <<today, quotes, snapshots, reading, got, steady, exact, reportFaults>>
    BY <1>5 DEF Processes
  <2>3. day = 0
    BY <1>5 DEF Processes
  <2>4. reading = {}
    BY <2>3 DEF ReportsBook, Days
  <2>5. ReportsTypeOK'
    BY <1>0, <2>1, <2>2 DEF ReportsTypeOK, Days
  <2>6. ReportsBook'
    BY <2>1, <2>2, <2>4 DEF ReportsBook
  <2> QED BY <2>5, <2>6
<1>6. ASSUME NEW c \in Companies, NextTenant(c) PROVE Held
  <2>1. /\ day # 0 /\ todo' \subseteq todo /\ reading' = {c} /\ got' = NoSnapshot /\ steady' = TRUE
        /\ UNCHANGED <<today, quotes, snapshots, jobs, day, exact, reportFaults>>
    BY <1>6 DEF NextTenant
  <2>2. ReportsTypeOK'
    BY <1>0, <2>1, NothingIsGot DEF ReportsTypeOK
  <2>3. ReportsBook'
    BY <1>0, <2>1, NothingIsGot DEF ReportsBook, Days
  <2> QED BY <2>2, <2>3
<1>7. ASSUME NEW field \in {"total", "done"}, ReadsFigure(field) PROVE Held
  <2>1. PICK c \in reading : got' = [got EXCEPT ![field] = quotes[<<c, day>>][field]]
    BY <1>7 DEF ReadsFigure
  <2>2. UNCHANGED <<today, quotes, snapshots, jobs, day, todo, reading, steady, exact, reportFaults>>
    BY <1>7 DEF ReadsFigure
  <2>3. <<c, day>> \in Places
    BY <1>0 DEF ReportsBook, Places
  <2>4. quotes[<<c, day>>][field] \in 0..MaxQuotes
    BY <1>0, <2>3 DEF Figures
  <2>5. ReportsTypeOK'
    BY <2>1, <2>2, <2>4, GotIsTyped DEF ReportsTypeOK
  <2>6. reading = {c}
    BY DEF ReportsBook
  <2>7. /\ got'[field] = quotes[<<c, day>>][field]
        /\ \A other \in {"total", "done"} \ {field} : got'[other] = got[other]
    BY <2>1 DEF ReportsTypeOK
  <2>8. ReportsBook'
    BY <2>2, <2>6, <2>7 DEF ReportsBook
  <2> QED BY <2>5, <2>8
<1>8. CASE Upserts
  <2>1. PICK c \in reading :
          IF got.total = 0 THEN UNCHANGED <<snapshots, exact>>
          ELSE /\ snapshots' = [snapshots EXCEPT ![<<c, day>>] = got]
               /\ exact' = IF steady THEN exact \cup {<<c, day>>} ELSE exact \ {<<c, day>>}
    BY <1>8 DEF Upserts
  <2>2. /\ got \in Figures /\ reading' = {} /\ got' = NoSnapshot /\ steady' = FALSE
        /\ UNCHANGED <<today, quotes, jobs, day, todo, reportFaults>>
    BY <1>8 DEF Upserts
  <2>3. <<c, day>> \in Places
    BY <1>0 DEF ReportsBook, Places
  <2>4. steady => got = quotes[<<c, day>>]
    <3>1. got.total # MaxQuotes + 1 /\ got.done # MaxQuotes + 1
      BY <2>2 DEF Figures
    <3> QED BY <1>0, <2>2, <2>3, <3>1, FiguresAreEqual DEF ReportsBook
  <2>5. snapshots' \in [Places -> Snapshots] /\ exact' \in SUBSET Places
    BY <1>0, <2>1, <2>2, <2>3 DEF Snapshots
  <2>6. \A p \in exact' : snapshots'[p] = quotes[p]
    BY <1>0, <2>1, <2>3, <2>4 DEF ReportsBook
  <2>7. ReportsTypeOK'
    BY <1>0, <2>2, <2>5, NothingIsGot DEF ReportsTypeOK
  <2>8. ReportsBook'
    BY <2>2, <2>6 DEF ReportsBook
  <2> QED BY <2>7, <2>8
<1>9. CASE Completes
  <2>1. /\ day' = 0 /\ todo' = {} /\ reading' = {} /\ got' = NoSnapshot /\ steady' = FALSE
        /\ UNCHANGED <<today, quotes, snapshots, jobs, exact, reportFaults>>
    BY <1>9 DEF Completes, IsIdle
  <2>2. ReportsTypeOK'
    <3>1. steady' \in BOOLEAN
      BY <2>1
    <3>2. day' \in 0..LastDay /\ todo' \in SUBSET Companies /\ reading' \in SUBSET Companies
      BY <2>1
    <3> QED BY <2>1, <3>1, <3>2, NothingIsGot DEF ReportsTypeOK
  <2>3. ReportsBook'
    BY <2>1 DEF ReportsBook
  <2> QED BY <2>2, <2>3
<1>10. CASE JobFails
  <2>1. /\ day' = 0 /\ todo' = {} /\ reading' = {} /\ got' = NoSnapshot /\ steady' = FALSE
        /\ UNCHANGED <<today, quotes, snapshots, exact>> /\ reportFaults' \in 0..MaxReportFaults
    BY <1>10 DEF JobFails, IsIdle, ReportsTypeOK
  <2>2. jobs' \in SUBSET (0..LastDay) /\ (0 \in jobs' => today' > 1)
    <3>1. day # 0 /\ (jobs' = jobs \/ (today > 1 /\ jobs' = jobs \cup {0}) \/ jobs' = jobs \cup {day})
      BY <1>10 DEF JobFails
    <3>2. (0 \in jobs => today > 1) /\ today' = today /\ day \in 0..LastDay /\ 0 \in 0..LastDay
      BY <1>0, <1>10 DEF JobFails, ReportsBook
    <3> QED BY <1>0, <3>1, <3>2
  <2>3. ReportsTypeOK'
    <3>1. steady' \in BOOLEAN
      BY <2>1
    <3>2. day' \in 0..LastDay /\ todo' \in SUBSET Companies /\ reading' \in SUBSET Companies
      BY <2>1
    <3> QED BY <2>1, <2>2, <3>1, <3>2, NothingIsGot DEF ReportsTypeOK
  <2>4. ReportsBook'
    BY <2>1, <2>2 DEF ReportsBook
  <2> QED BY <2>3, <2>4
<1>11. CASE UNCHANGED reportVars
  BY <1>11 DEF reportVars, worker, ReportsTypeOK, ReportsBook
<1> QED
  BY <1>1, <1>2, <1>3, <1>4, <1>5, <1>6, <1>7, <1>8, <1>9, <1>10, <1>11 DEF ReportsNext

\* A snapshot of a day that stayed as it was is what the trend shows.
LEMMA TrendFollows ==
  ASSUME ReportsTypeOK, ReportsBook
  PROVE  TrendIsExact
<1> SUFFICES ASSUME NEW c \in Companies, NEW d \in Days, d # today, <<c, d>> \in exact
             PROVE  TrendPoint(c, d) = quotes[<<c, d>>]
  BY DEF TrendIsExact, TrendPoint, LiveDay
<1>1. snapshots[<<c, d>>] = quotes[<<c, d>>] /\ quotes[<<c, d>>] \in Figures
  BY DEF ReportsBook, ReportsTypeOK, Places
<1> QED BY <1>1, NothingIsGot DEF TrendPoint

\* What holds at the start.
LEMMA ReportsStart == ReportsInit => ReportsTypeOK /\ ReportsBook
<1> SUFFICES ASSUME ReportsInit PROVE ReportsTypeOK /\ ReportsBook
  OBVIOUS
<1> USE ReportsAssumption DEF ReportsInit
<1>1. ReportsTypeOK
  <2>1. steady \in BOOLEAN
    OBVIOUS
  <2>2. today \in Days /\ day \in 0..LastDay /\ reportFaults \in 0..MaxReportFaults
    BY DEF Days
  <2>3. quotes \in [Places -> Figures] /\ snapshots \in [Places -> Snapshots]
    BY NothingIsGot
  <2>4. got \in [total : 0..MaxQuotes + 1, done : 0..MaxQuotes + 1]
    BY NothingIsGot
  <2> QED BY <2>1, <2>2, <2>3, <2>4 DEF ReportsTypeOK
<1>2. ReportsBook
  BY DEF ReportsBook
<1> QED BY <1>1, <1>2

\* A day that did not change from the moment its aggregation began to read is
\* shown with its true figures, whatever was aggregated or failed beside it.
THEOREM TrendStaysExact == ReportsSpec => []TrendIsExact
<1> DEFINE Inv == ReportsTypeOK /\ ReportsBook
<1>1. Inv /\ [ReportsNext]_reportVars => Inv'
  BY ReportsStep
<1>2. Inv => TrendIsExact
  BY TrendFollows
<1>3. ReportsInit => Inv
  BY ReportsStart
<1> QED BY <1>1, <1>2, <1>3, PTL DEF ReportsSpec
-----------------------------------------------------------------------------
(* The parts together *)

FactorInv == FactorTypeOK /\ SetBook /\ BackupCodeOnce /\ SettingsBook /\ EnabledFactorIsConfirmed
TablesInv ==
  /\ rowPart \in {"factor", "records", "reports"}
  /\ FactorInv /\ RecordsInv /\ ReportsTypeOK /\ ReportsBook

\* A step of one part leaves the variables of the others.
LEMMA TablesKeep == TablesInv /\ [TablesNext]_tableVars => TablesInv'
<1> SUFFICES ASSUME TablesInv, [TablesNext]_tableVars PROVE TablesInv'
  OBVIOUS
<1>1. /\ [FactorNext]_factorVars /\ [RecordsNext]_recordVars /\ [ReportsNext]_reportVars
      /\ UNCHANGED rowPart
  BY DEF TablesNext, tableVars
<1>2. FactorInv'
  BY <1>1, FactorTypeStep, BackupStep, SettingsStep DEF TablesInv, FactorInv
<1>3. RecordsInv'
  BY <1>1, RecordsKeep DEF TablesInv
<1>4. ReportsTypeOK' /\ ReportsBook'
  BY <1>1, ReportsStep DEF TablesInv
<1> QED BY <1>1, <1>2, <1>3, <1>4 DEF TablesInv

LEMMA TablesStart == TablesInit => TablesInv
BY FactorStart, RecordsStart, ReportsStart DEF TablesInit, TablesInv, FactorInv

\* The types of the three parts, in the specification that the run checks.
THEOREM TablesTypeCorrect == TablesSpec => []TablesTypeOK
<1>1. TablesInv => TablesTypeOK
  BY DEF TablesInv, FactorInv, RecordsInv, TablesTypeOK
<1> QED BY <1>1, TablesStart, TablesKeep, PTL DEF TablesSpec

\* What is proved of each part holds of the three side by side.
THEOREM TablesAreSafe ==
  TablesSpec => [](/\ BackupCodeOnce /\ EnabledFactorIsConfirmed
                   /\ RecordsInTenant /\ FilesAreAccountedFor /\ ChangesLeaveTrace
                   /\ TrendIsExact)
<1> DEFINE Safe == /\ BackupCodeOnce /\ EnabledFactorIsConfirmed
                   /\ RecordsInTenant /\ FilesAreAccountedFor /\ ChangesLeaveTrace
                   /\ TrendIsExact
<1>1. TablesInv => Safe
  BY RecordsInvHolds, TrendFollows DEF TablesInv, FactorInv
<1> HIDE DEF Safe
<1>2. TablesSpec => []Safe
  BY <1>1, TablesStart, TablesKeep, PTL DEF TablesSpec
<1> QED BY <1>2 DEF Safe

\* A tenant of the three parts side by side cannot tell the others either.
THEOREM TablesKeepTenantsApart == TablesSpec => TenantsAreApart
<1>1. TablesInit => Alone!RecordsInit
  BY SeenStart DEF TablesInit
<1>2. TablesInv /\ [TablesNext]_tableVars
        => [UNCHANGED Alone!recordVars \/ Alone!RecordsNext]_(Alone!recordVars)
  <2> SUFFICES ASSUME TablesInv, [TablesNext]_tableVars
               PROVE  [UNCHANGED Alone!recordVars \/ Alone!RecordsNext]_(Alone!recordVars)
    OBVIOUS
  <2>1. [RecordsNext]_recordVars
    BY DEF TablesNext, tableVars
  <2> QED BY <2>1, SeenStep DEF TablesInv, RecordsInv
<1> QED BY <1>1, <1>2, TablesStart, TablesKeep, PTL DEF TablesSpec, TenantsAreApart
=============================================================================
