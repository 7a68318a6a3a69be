------------------------------- MODULE LoanData -------------------------------
(***************************************************************************)
(* From the rows of the Lending Club file to the rows a model is trained   *)
(* on, twice: row by row for the candidate runs (clean, engineer, split,   *)
(* sample), and as vectorised frames for the official model.               *)
(*                                                                         *)
(* A raw row has one column of each kind the file has: the other columns   *)
(* are converted like the ones here.  A field is blank (None), malformed   *)
(* (Bad) or a value.  Dates count months; employment is in tenths of a     *)
(* year, FICO midpoints are doubled, a ratio is a pair.  A built row keeps *)
(* its position in the file, so that rows can be told apart.               *)
(***************************************************************************)
EXTENDS Integers, Sequences

CONSTANTS
  None,   \* nothing: a blank field, no cap
  Bad,    \* a field that cannot be parsed
  Raised  \* the job ends with an exception

Higher(a, b) == IF a > b THEN a ELSE b
Lower(a, b)  == IF a < b THEN a ELSE b
Zero(v) == IF v = None THEN 0 ELSE v
Ratio(n, d) == IF d = 0 THEN <<0, 1>> ELSE <<n, d>>

StatusMap == [s \in {"Fully Paid", "Charged Off", "Default"} |-> IF s = "Fully Paid" THEN 0 ELSE 1]
Splits == {"train", "validation", "test", "holdout"}
Fitted == {"train", "validation", "test"}   \* the splits a run must have

-----------------------------------------------------------------------------
(* Row by row                                                              *)

EmploymentLengths == {"n/a", "under_1_year", "1_year", "3_years", "7_years", "10_years_or_more"}
WrittenYears(v) == CASE v = "1_year" -> 10 [] v = "3_years" -> 30 [] v = "7_years" -> 70

ParseEmploymentYears(v) ==
  CASE v \in {None, "n/a"} -> None
    [] v = "10_years_or_more" -> 100
    [] v = "under_1_year" -> 5
    [] v \notin {None, "n/a", "10_years_or_more", "under_1_year"} -> WrittenYears(v)

(* One end of a range stands for a missing other one.                      *)
Midpoint(low, high) ==
  IF low = None /\ high = None THEN None
  ELSE (IF low = None THEN high ELSE low) + (IF high = None THEN low ELSE high)

Measures == {"dti", "ficoLow", "ficoHigh", "lastLow", "lastHigh", "bcUtil", "delinquencies",
             "totalAcc", "neverDelinquent", "inquiries", "taxLiens", "employment", "earliest"}

Malformed(raw, fields) == \E f \in fields : raw[f] = Bad

(* The columns of a file.                                                  *)
IsRaw(raw) ==
  /\ \A f \in {"issued", "income", "amount", "term"} \cup (Measures \ {"employment"}) :
       raw[f] \in Int \cup {None, Bad}
  /\ raw.employment \in EmploymentLengths \cup {None, Bad}

(* The date is parsed before anything is asked of the row, the amounts     *)
(* before it is known to be kept: a malformed one ends the job.            *)
Cleaning(raw) ==
  IF Malformed(raw, {"issued"}) THEN "raised"
  ELSE IF raw.application # "Individual" \/ raw.issued = None \/ raw.status \notin DOMAIN StatusMap
    THEN "dropped"
  ELSE IF Malformed(raw, {"income", "amount", "term"}) THEN "raised"
  ELSE IF None \in {raw.income, raw.amount, raw.term} THEN "dropped"
  ELSE IF raw.income <= 0 THEN "dropped"
  ELSE IF Malformed(raw, Measures) THEN "raised" ELSE "cleaned"

CleanRow(raw) ==
  LET dti == IF raw.dti = None THEN None ELSE Higher(raw.dti, 0)
  IN  [id |-> raw.id, issued |-> raw.issued, defaulted |-> StatusMap[raw.status],
       home |-> raw.home, amount |-> raw.amount, term |-> raw.term, income |-> raw.income,
       dti |-> dti, emi |-> IF dti = None THEN None ELSE raw.income * dti,
       fico |-> Midpoint(raw.ficoLow, raw.ficoHigh),
       lastFico |-> Midpoint(raw.lastLow, raw.lastHigh),
       bcUtil |-> raw.bcUtil, delinquencies |-> raw.delinquencies, totalAcc |-> raw.totalAcc,
       neverDelinquent |-> raw.neverDelinquent, inquiries |-> raw.inquiries,
       taxLiens |-> raw.taxLiens, earliest |-> raw.earliest,
       employment |-> ParseEmploymentYears(raw.employment)]

HistoryMonths(c) == IF c.earliest = None THEN 0 ELSE Higher(c.issued - c.earliest, 0)

Delta(current, previous) == Zero(current) - Zero(previous)

BuildFeatureRow(position, c) ==
  LET months == HistoryMonths(c)
  IN  [position |-> position, id |-> c.id, issued |-> c.issued, home |-> c.home,
       amount |-> c.amount, term |-> c.term, income |-> c.income,
       emi |-> Zero(c.emi), dti |-> Zero(c.dti),
       amountToIncome |-> Ratio(c.amount, c.income),
       emiToIncome |-> Ratio(Zero(c.emi), c.income),
       credit |-> Zero(c.fico), creditDelta |-> Delta(c.lastFico, c.fico),
       history |-> months, employment |-> Zero(c.employment),
       bcUtil |-> Zero(c.bcUtil), headroom |-> Higher(0, 100 - Zero(c.bcUtil)),
       delinquencyBurden |-> Ratio(Zero(c.delinquencies), Zero(c.totalAcc)),
       accountsPerYear |-> Ratio(Zero(c.totalAcc), months),
       neverDelinquent |-> Zero(c.neverDelinquent), inquiryPressure |-> Ratio(Zero(c.inquiries), 6),
       taxLien |-> Zero(c.taxLiens) > 0,
       target |-> c.defaulted]

TrainEnd == 12 * 2016 + 11
ValidationEnd == 12 * 2017 + 11
TestEnd == 12 * 2018 + 11

AssignTimeSplit(issued) ==
  IF issued <= TrainEnd THEN "train"
  ELSE IF issued <= ValidationEnd THEN "validation"
  ELSE IF issued <= TestEnd THEN "test" ELSE "holdout"

(* An id stands for its hash here.                                         *)
ShouldKeepRow(id, modulo) == modulo <= 1 \/ (id # None /\ id % modulo = 0)

Full(rows, cap) == cap # None /\ Len(rows) >= cap

NoRows == [s \in Splits |-> <<>>]

(* The next row of the file goes to the split of its date, if that has     *)
(* room and the sample takes it.                                           *)
ReadRow(b, position, raw, cap, modulo) ==
  LET c == CleanRow(raw)
      s == AssignTimeSplit(c.issued)
  IN  IF Cleaning(raw) = "raised" THEN Raised
      ELSE IF Cleaning(raw) = "dropped" THEN b
      ELSE IF Full(b[s], cap) \/ ~ShouldKeepRow(c.id, modulo) THEN b
      ELSE [b EXCEPT ![s] = Append(@, BuildFeatureRow(position, c))]

(* MUTANT of BuildSplits: reading stops when any split is full.            *)
BuildSplitsStopsEarly(file, cap, modulo) ==
  LET Step(b, n) == IF b = Raised \/ (\E s \in Fitted : Full(b[s], cap)) THEN b
                    ELSE ReadRow(b, n, file[n], cap, modulo)
      built[n \in 0..Len(file)] == IF n = 0 THEN NoRows ELSE Step(built[n - 1], n)
  IN  built[Len(file)]

(* A full split takes no more, and when the three that count are full the  *)
(* rest of the file is not read.                                           *)
BuildSplits(file, cap, modulo) ==
  LET Step(b, n) == IF b = Raised \/ (\A s \in Fitted : Full(b[s], cap)) THEN b
                    ELSE ReadRow(b, n, file[n], cap, modulo)
      built[n \in 0..Len(file)] == IF n = 0 THEN NoRows ELSE Step(built[n - 1], n)
  IN  built[Len(file)]

-----------------------------------------------------------------------------
(* As frames                                                               *)

Number(v) == IF v = Bad THEN None ELSE v

EmploymentTenths(v) ==
  IF v \in {None, Bad, "n/a"} THEN 0
  ELSE IF v = "10_years_or_more" THEN 100 ELSE IF v = "under_1_year" THEN 5 ELSE WrittenYears(v)

EmploymentBand(tenths) ==
  CASE tenths <= 0 -> "0" [] tenths \in 1..29 -> "1-2" [] tenths \in 30..59 -> "3-5"
    [] tenths \in 60..99 -> "6-9" [] tenths >= 100 -> "10+"

(* What is malformed is missing: the row goes, or the number is 0.         *)
OfficialKeeps(raw) ==
  /\ raw.application = "Individual" /\ Number(raw.issued) # None /\ raw.status \in DOMAIN StatusMap
  /\ None \notin {Number(raw.income), Number(raw.amount), Number(raw.term)}
  /\ raw.income > 0

(* A column divided by another, 0 where that is 0.                         *)
RatioSeries(n, d) == IF d # 0 THEN <<n, d>> ELSE <<0, 1>>

(* A prefix of a zip code stands for the code here.                        *)
ZipCodePrefix(zip) == IF zip = None THEN "UNKNOWN" ELSE zip

OfficialRow(position, raw) ==
  LET N(f)   == Zero(Number(raw[f]))
      dti    == Higher(N("dti"), 0)
      credit == N("ficoLow") + N("ficoHigh")
      start  == Number(raw.earliest)
      months == IF start = None THEN 0 ELSE Higher(raw.issued - start, 0)
  IN  [position |-> position, id |-> raw.id, issued |-> raw.issued,
       home |-> IF raw.home = None THEN "UNKNOWN" ELSE raw.home,
       zip |-> ZipCodePrefix(raw.zip),
       employmentBand |-> EmploymentBand(EmploymentTenths(raw.employment)),
       amount |-> raw.amount, term |-> raw.term, income |-> raw.income,
       emi |-> raw.income * dti, dti |-> dti,
       amountToIncome |-> RatioSeries(raw.amount, raw.income),
       emiToIncome |-> RatioSeries(raw.income * dti, raw.income),
       credit |-> credit, creditDelta |-> N("lastLow") + N("lastHigh") - credit,
       history |-> months, employment |-> EmploymentTenths(raw.employment),
       bcUtil |-> N("bcUtil"), headroom |-> Higher(0, 100 - N("bcUtil")),
       delinquencyBurden |-> RatioSeries(N("delinquencies"), N("totalAcc")),
       accountsPerYear |-> RatioSeries(N("totalAcc"), months),
       neverDelinquent |-> N("neverDelinquent"), inquiryPressure |-> RatioSeries(N("inquiries"), 6),
       taxLien |-> N("taxLiens") > 0,
       target |-> StatusMap[raw.status]]

OfficialSplitOf(issued) ==
  LET year == issued \div 12
  IN  CASE year <= 2016 -> "train" [] year = 2017 -> "validation"
        [] year = 2018 -> "test" [] year > 2018 -> "holdout"

(* The chunks of the file are concatenated in its order, split by split.   *)
OfficialSplits(file) ==
  LET Take(b, n) ==
        IF ~OfficialKeeps(file[n]) THEN b
        ELSE [b EXCEPT ![OfficialSplitOf(file[n].issued)] = Append(@, OfficialRow(n, file[n]))]
      taken[n \in 0..Len(file)] == IF n = 0 THEN NoRows ELSE Take(taken[n - 1], n)
  IN  taken[Len(file)]

(* Evenly spaced rows; up to twice the size it is the head of the frame.   *)
SearchSlice(frame, max) ==
  IF Len(frame) <= max THEN frame
  ELSE LET stride == Len(frame) \div max
       IN  [i \in 1..max |-> frame[(i - 1) * stride + 1]]

-----------------------------------------------------------------------------
(* Encoding                                                                *)

Numeric == {"amount", "term", "income", "emi", "dti", "amountToIncome", "emiToIncome", "credit",
            "creditDelta", "history", "employment", "bcUtil", "headroom", "delinquencyBurden",
            "accountsPerYear", "neverDelinquent", "inquiryPressure", "taxLien"}

NormalizeCategory(v) == IF v = None THEN "UNKNOWN" ELSE v

InferCategories(rows) == {NormalizeCategory(rows[i].home) : i \in DOMAIN rows} \cup {"UNKNOWN"}

(* A category the training rows do not have is a row of zeros.             *)
EncodeFeatureRow(row, categories) ==
  [numbers |-> [f \in Numeric |-> row[f]],
   oneHot  |-> {c \in categories : NormalizeCategory(row.home) = c}]
=============================================================================
