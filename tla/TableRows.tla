------------------------------ MODULE TableRows ------------------------------
(***************************************************************************)
(* Handlers and jobs that read rows of the database, go on with what they  *)
(* read, and write: the second factor of a user, the records of the        *)
(* tenants, the daily figures.  The three share no table (the audit rows   *)
(* of the first are left out), so steps of different parts commute and a   *)
(* behaviour shows one part at work.                                       *)
(***************************************************************************)
EXTENDS SecondFactor, TenantView, Reports

VARIABLE rowPart

tableVars == <<rowPart, factorVars, recordVars, reportVars>>

TablesInit ==
  /\ rowPart \in {"factor", "records", "reports"}
  /\ FactorInit /\ RecordsInit /\ ReportsInit

TablesNext ==
  /\ UNCHANGED rowPart
  /\ \/ rowPart = "factor" /\ FactorNext /\ UNCHANGED <<recordVars, reportVars>>
     \/ rowPart = "records" /\ RecordsNext /\ UNCHANGED <<factorVars, reportVars>>
     \/ rowPart = "reports" /\ ReportsNext /\ UNCHANGED <<factorVars, recordVars>>

TablesSpec == TablesInit /\ [][TablesNext]_tableVars

TablesTypeOK ==
  /\ rowPart \in {"factor", "records", "reports"}
  /\ FactorTypeOK /\ RecordsTypeOK /\ ReportsTypeOK
=============================================================================
