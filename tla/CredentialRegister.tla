-------------------------- MODULE CredentialRegister --------------------------
(***************************************************************************)
(* What the credential store promises, without locks, temporary files or   *)
(* network calls: one register that holds at most one record, on which     *)
(* every invocation acts at most once, in one instant.  An act and its     *)
(* report are two steps, and an invocation may die before either.          *)
(***************************************************************************)
EXTENDS Integers

CONSTANTS Proc, Record, NoFile, BadFile

VARIABLES
  file,     \* the register
  phase,    \* phase[p]: "running", "stored" or "cleared" once it acted, "ended"
  report,   \* report[p]: "none" until p reports
  retired   \* the chains that have left the register

vars == <<file, phase, report, retired>>

Failures == {"AUTHENTICATION_REQUIRED", "SESSION_EXPIRED", "INVALID_REFRESH_TOKEN",
             "INVALID_CUSTOM_TOKEN", "LOGIN_REFUSED", "AUTH_CALL_FAILED",
             "CREDENTIALS_INVALID", "CREDENTIAL_STORE_UNAVAILABLE"}

CurrentChain == IF file \in Record THEN {file.chain} ELSE {}

Init ==
  /\ file \in Record \cup {NoFile, BadFile}
  /\ phase = [p \in Proc |-> "running"]
  /\ report = [p \in Proc |-> "none"]
  /\ retired = {}

Act(p, act) ==
  /\ phase[p] = "running"
  /\ phase' = [phase EXCEPT ![p] = act]
  /\ UNCHANGED report

(* A login puts in a record of a chain that was never in the register. *)
Put(p) ==
  /\ Act(p, "stored")
  /\ file' \in Record
  /\ file'.chain \notin retired \cup CurrentChain
  /\ retired' = retired \cup CurrentChain

(* A refresh puts the next grant of the chain the register holds. *)
Renew(p) ==
  /\ Act(p, "stored")
  /\ file \in Record
  /\ file' \in Record
  /\ file'.chain = file.chain
  /\ file'.gen > file.gen
  /\ UNCHANGED retired

(* A logout empties the register. *)
Clear(p) ==
  /\ Act(p, "cleared")
  /\ file' = NoFile
  /\ retired' = retired \cup CurrentChain

Report(p, r) ==
  /\ phase' = [phase EXCEPT ![p] = "ended"]
  /\ report[p] = "none" /\ report' = [report EXCEPT ![p] = r]
  /\ UNCHANGED <<file, retired>>

(* One that has acted has only a success to report. *)
Confirm(p) ==
  \/ phase[p] = "stored" /\ \E r \in {"healthy", "session"} : Report(p, r)
  \/ phase[p] = "cleared" /\ Report(p, "missing")

(* One that has not acted reads the register: it reports a record's state, *)
(* or a session made from it, only when there is a record; or it fails.    *)
Look(p) ==
  /\ phase[p] = "running"
  /\ \/ file \in Record /\ \E r \in {"healthy", "expiring", "expired", "session"} : Report(p, r)
     \/ file = NoFile /\ Report(p, "missing")
     \/ \E r \in Failures : Report(p, r)

(* One that is killed reports nothing and undoes nothing. *)
Die(p) ==
  /\ phase[p] # "ended"
  /\ phase' = [phase EXCEPT ![p] = "ended"]
  /\ UNCHANGED <<file, report, retired>>

Next == \E p \in Proc : Put(p) \/ Renew(p) \/ Clear(p) \/ Confirm(p) \/ Look(p) \/ Die(p)

Spec == Init /\ [][Next]_vars
=============================================================================
