--------------------------- MODULE ApplicationStatus ---------------------------
(***************************************************************************)
(* What an application promises to those who watch it: the status and the  *)
(* iteration that its instance shows between requests.  The final statuses *)
(* are never left, only a draft is submitted or deleted, only a running    *)
(* application is decided or withdrawn, and the iteration grows by one     *)
(* when work starts again.                                                 *)
(***************************************************************************)
EXTENDS Naturals

VARIABLES
  phase,   \* the status of the application
  round    \* its iteration

Init == phase = "DRAFT" /\ round = 1

Move(from, to) == phase = from /\ phase' = to

(* A flow that needs nobody completes as soon as it is submitted.          *)
Submit ==
  /\ Move("DRAFT", "RUNNING") \/ Move("DRAFT", "COMPLETED")
  /\ round' \in {round, round + 1}

Decide ==
  /\ \/ Move("RUNNING", "COMPLETED")
     \/ Move("RUNNING", "REJECTED")
     \/ Move("RUNNING", "DRAFT")      \* returned to the applicant
  /\ UNCHANGED round

SendBack == Move("RUNNING", "RUNNING") /\ round' = round + 1

Withdraw ==
  /\ Move("RUNNING", "CANCELLED") \/ Move("DRAFT", "DELETED")
  /\ UNCHANGED round

Next == Submit \/ Decide \/ SendBack \/ Withdraw

Spec == Init /\ [][Next]_<<phase, round>>
================================================================================
