-------------------------- MODULE MCLoanProcessing --------------------------
(* Instances of LoanProcessing for TLC.                                    *)
EXTENDS LoanProcessing, TLC

(* One verdict of each kind, so that evidence of different attempts mixed  *)
(* up would give a different decision.                                     *)
MCVerdict ==
  [e \in Evidence |->
     CASE \A s \in Sources : e[s] = "DATA"      -> "APPROVE"
       [] \A s \in Sources : e[s] = "TIMEOUT"   -> "NEEDS_REVIEW"
       [] OTHER                                 -> "DECLINE"]

(* The bank analyzer's data are amounts; those of the others are not.      *)
MCNumericEvidence == {<<"BANK_ANALYZER", "DATA">>}

WorkerSymmetry == Permutations(Workers)
=============================================================================
