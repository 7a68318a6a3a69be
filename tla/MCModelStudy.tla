---------------------------- MODULE MCModelStudy ----------------------------
EXTENDS ModelStudy

MCGroupRank(v) == CASE v = "3-5" -> 1 [] v = "941" -> 2 [] v = "100" -> 3 [] v = "10+" -> 4
                    [] v = "UNKNOWN" -> 5 [] v \notin {"3-5", "941", "100", "10+", "UNKNOWN"} -> 6

Month(y, m) == 12 * y + m - 1

Loan ==
  [id |-> 2, application |-> "Individual", status |-> "Fully Paid", issued |-> Month(2016, 5),
   income |-> 1200, amount |-> 100, term |-> 36, dti |-> 20, ficoLow |-> 700, ficoHigh |-> 704,
   lastLow |-> 690, lastHigh |-> 694, bcUtil |-> 40, delinquencies |-> 1, totalAcc |-> 4,
   neverDelinquent |-> 80, inquiries |-> 3,
   taxLiens |-> 0, employment |-> "3_years", earliest |-> Month(2006, 1), home |-> "RENT",
   zip |-> "941"]

Train == Loan
Validation == [Loan EXCEPT !.issued = Month(2017, 6), !.status = "Charged Off", !.id = 4]
Test == [Loan EXCEPT !.issued = Month(2018, 6), !.id = 6]

(* The rows next to the plain ones: each field blank, malformed and at its *)
(* edges, and every side of the split boundaries.                          *)
Dates == {None, Bad, Month(2016, 12), Month(2017, 1), Month(2017, 12), Month(2018, 1),
          Month(2018, 12), Month(2019, 1)}
Dated == {[Loan EXCEPT !.issued = d, !.id = i] : d \in Dates, i \in {None, 3, 8}}
Odd ==
  {[Loan EXCEPT !.application = "Joint App"], [Loan EXCEPT !.application = "Joint App", !.issued = Bad],
   [Loan EXCEPT !.home = None, !.zip = None], [Loan EXCEPT !.ficoLow = None],
   [Loan EXCEPT !.ficoLow = None, !.ficoHigh = None], [Loan EXCEPT !.lastHigh = None],
   [Loan EXCEPT !.dti = -5, !.bcUtil = 120, !.totalAcc = 0],
   [Loan EXCEPT !.dti = None, !.bcUtil = None, !.delinquencies = None, !.totalAcc = None]}
    \cup {[Loan EXCEPT !.status = s] : s \in {"Default", "Current", None}}
    \cup {[Loan EXCEPT !.income = v] : v \in {None, Bad, 0}}
    \cup {[Loan EXCEPT !.amount = v] : v \in {None, Bad}}
    \cup {[Loan EXCEPT !.term = v] : v \in {None, Bad}}
    \cup {[Loan EXCEPT !.taxLiens = v] : v \in {None, Bad, 1}}
    \cup {[Loan EXCEPT !.earliest = v] : v \in {None, Bad, Month(2016, 5), Month(2017, 1)}}
    \cup {[Loan EXCEPT !.employment = v] :
            v \in {None, Bad, "n/a", "under_1_year", "1_year", "7_years", "10_years_or_more"}}

Study(path, file) ==
  [path |-> path, file |-> file, cap |-> None, recaps |-> {None}, modulo |-> 1,
   metric |-> "validation_auc_pr", included |-> {"logistic_regression", "xgboost", "lightgbm"},
   installed |-> {"xgboost"}, values |-> [name \in {"xgboost"} |-> <<<<1>>>>],
   probs |-> {50}, until |-> "done"]

(* Both builders on every odd row, early and late in the file.             *)
Preparations ==
  {[Study("candidate", <<v, Train, Validation, Test, w>>) EXCEPT
      !.cap = c, !.modulo = k, !.until = "refit"] :
     v \in Odd \cup Dated, w \in Dated, c \in {None, 1, 2}, k \in {1, 2}}
  \cup {[Study(path, <<v, Train, Validation, Test>>) EXCEPT !.recaps = {None, 1}] :
          path \in {"candidate", "official"}, v \in Odd \cup Dated}

(* Three validation rows, of which the official slice takes two, and three *)
(* grid points of two families.                                            *)
Searched ==
  <<Train, [Validation EXCEPT !.amount = 50], [Validation EXCEPT !.status = "Fully Paid"],
    [Validation EXCEPT !.amount = 200], Test>>
Values == [name \in {"logistic_regression", "xgboost"} |->
             IF name = "xgboost" THEN <<<<1>>, <<1, 2>>>> ELSE <<<<1>>>>]
Searches ==
  {[Study("candidate", Searched) EXCEPT
      !.values = Values, !.included = DOMAIN Values, !.installed = l, !.probs = {20, 50, 80},
      !.metric = m, !.until = "refit"] :
     l \in {DOMAIN Values, {"lightgbm"}},
     m \in {"validation_auc_pr", "validation_auc_roc", "validation_brier_neg"}}
  \cup {[Study("official", Searched) EXCEPT !.values = Values, !.probs = {20, 50, 80}, !.until = "fit"]}

(* Five test rows in several groups, scored every way.                     *)
Reported ==
  <<Train, [Train EXCEPT !.home = "OWN"], Validation, Test,
    [Test EXCEPT !.amount = 50, !.status = "Default", !.employment = "10_years_or_more"],
    [Test EXCEPT !.amount = 60, !.home = "OWN", !.zip = "100"],
    [Test EXCEPT !.amount = 70, !.status = "Charged Off", !.home = "OWN", !.zip = "100"],
    [Test EXCEPT !.amount = 70, !.home = None, !.zip = None]>>
Reports ==
  {[Study(path, Reported) EXCEPT !.probs = {20, 50, 100}, !.recaps = {None, 1}] :
     path \in {"candidate", "official"}}

(* A test row on each side of the rules' boundaries.                       *)
Benchmarked ==
  {Test, [Test EXCEPT !.dti = 55, !.ficoLow = 780, !.ficoHigh = 784],
   [Test EXCEPT !.dti = 65, !.ficoLow = 300, !.ficoHigh = 304, !.neverDelinquent = 0],
   [Test EXCEPT !.taxLiens = 1, !.dti = 5, !.ficoLow = 780, !.ficoHigh = 784]}
Benchmarks ==
  {[Study(path, <<Train, Validation, t>>) EXCEPT !.probs = {10, 40, 55, 80}] :
     path \in {"candidate", "official"}, t \in Benchmarked}

MCStudies == Preparations \cup Searches \cup Reports \cup Benchmarks
=============================================================================
