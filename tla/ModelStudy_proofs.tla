-------------------------- MODULE ModelStudy_proofs --------------------------
(***************************************************************************)
(* Theorems about ModelStudy, for any files of loans, any estimators and   *)
(* any calibrators.                                                        *)
(***************************************************************************)
EXTENDS ModelStudy, FiniteSetTheorems, WellFoundedInduction, TLAPS

-----------------------------------------------------------------------------
(* Induction over numbers and over sets                                    *)

(* What holds of 0 and is handed on holds of every number.                 *)
LEMMA Reached ==
  ASSUME NEW N \in Nat, NEW T, 0 \in T, \A n \in 0..(N - 1) : n \in T => n + 1 \in T
  PROVE  \A n \in 0..N : n \in T
<1>. SUFFICES ASSUME NEW n \in 0..N, n \notin T PROVE FALSE
  OBVIOUS
<1>. DEFINE U == {m \in 0..N : m \notin T}
<1>1. U \subseteq Nat /\ U # {}
  OBVIOUS
<1>2. PICK u \in U : \A v \in U : ~(<<v, u>> \in OpToRel(<, Nat))
  BY <1>1, NatLessThanWellFounded, WFMin
<1>3. \A v \in U : ~(v < u)
  BY <1>1, <1>2 DEF OpToRel
<1>4. u \in 1..N
  <2>1. u \in 0..N /\ u \notin T
    BY <1>2
  <2>. QED BY <2>1
<1>5. u - 1 \in 0..(N - 1) /\ (u - 1) + 1 = u
  BY <1>4
<1>6. u - 1 \in T
  BY <1>3, <1>5
<1>. QED BY <1>2, <1>5, <1>6

Some(s) == CHOOSE k \in s : TRUE

(* Taking an element away from a finite set.                               *)
LEMMA SmallerSet ==
  ASSUME NEW D, IsFiniteSet(D), NEW s \in SUBSET D
  PROVE  /\ IsFiniteSet(s) /\ Cardinality(s) \in Nat
         /\ s = {} <=> Cardinality(s) = 0
         /\ s # {} => Some(s) \in s
         /\ \A k \in s : s \ {k} \in SUBSET D /\ Cardinality(s \ {k}) = Cardinality(s) - 1
<1>1. IsFiniteSet(s)
  BY FS_Subset
<1>2. \A k \in s : Cardinality(s \ {k}) = Cardinality(s) - 1
  BY <1>1, FS_RemoveElement
<1>. QED BY <1>1, <1>2, FS_CardinalityType, FS_EmptySet DEF Some

(* Induction over the subsets of a finite set.                             *)
LEMMA ByElements ==
  ASSUME NEW D, IsFiniteSet(D), NEW T,
         \A s \in SUBSET D : (\A k \in s : s \ {k} \in T) => s \in T
  PROVE  \A s \in SUBSET D : s \in T
<1>. DEFINE N == Cardinality(D)
            U == {n \in 0..N : \A s \in SUBSET D : Cardinality(s) = n => s \in T}
<1>1. N \in Nat /\ \A s \in SUBSET D : Cardinality(s) \in 0..N
  BY FS_CardinalityType, FS_Subset, SmallerSet
<1>2. 0 \in U
  <2>1. \A s \in SUBSET D : Cardinality(s) = 0 => s = {}
    BY SmallerSet
  <2>. QED BY <1>1, <2>1
<1>3. ASSUME NEW n \in 0..(N - 1), n \in U PROVE n + 1 \in U
  <2>1. n + 1 \in 0..N
    BY <1>1
  <2>2. ASSUME NEW s \in SUBSET D, Cardinality(s) = n + 1 PROVE s \in T
    <3>1. \A k \in s : s \ {k} \in SUBSET D /\ Cardinality(s \ {k}) = n
      BY <1>1, <2>2, SmallerSet, SMTT(60)
    <3>. QED BY <1>3, <3>1
  <2>. QED BY <2>1, <2>2
<1>4. \A n \in 0..(N - 1) : n \in U => n + 1 \in U
  BY <1>3
<1>. HIDE DEF U, N
<1>5. \A n \in 0..N : n \in U
  BY <1>1, <1>2, <1>4, Reached
<1>. QED BY <1>1, <1>5 DEF U

-----------------------------------------------------------------------------
(* The rows of a file                                                      *)

(* A split as it grows with the rows of the file, row by row.              *)
RowByRow(b, n, file, cap, modulo) ==
  IF b = Raised \/ (\A s \in Fitted : Full(b[s], cap)) THEN b
  ELSE ReadRow(b, n, file[n], cap, modulo)

IsBuilt(f, m, file, cap, modulo) ==
  f = [n \in 0..m |-> IF n = 0 THEN NoRows ELSE RowByRow(f[n - 1], n, file, cap, modulo)]

(* The recursion of BuildSplits has a solution.                            *)
LEMMA Built ==
  ASSUME NEW file, Len(file) \in Nat, NEW cap, NEW modulo
  PROVE  \E f : /\ BuildSplits(file, cap, modulo) = f[Len(file)]
                /\ f[0] = NoRows
                /\ \A n \in 0..(Len(file) - 1) :
                     f[n + 1] = RowByRow(f[n], n + 1, file, cap, modulo)
<1>. DEFINE N == Len(file)
            B(f, m) == IsBuilt(f, m, file, cap, modulo)
            T == {m \in 0..N : \E f : B(f, m)}
<1>1. 0 \in T
  <2>. DEFINE f == [n \in 0..0 |-> NoRows]
  <2>1. B(f, 0)
    BY DEF IsBuilt
  <2>. QED BY <2>1
<1>2. ASSUME NEW m \in 0..(N - 1), m \in T PROVE m + 1 \in T
  <2>1. PICK f : B(f, m)
    BY <1>2
  <2>. DEFINE g == [n \in 0..(m + 1) |->
                      IF n = m + 1 THEN RowByRow(f[m], m + 1, file, cap, modulo) ELSE f[n]]
  <2>2. ASSUME NEW n \in 0..(m + 1)
        PROVE  g[n] = IF n = 0 THEN NoRows ELSE RowByRow(g[n - 1], n, file, cap, modulo)
    <3>1. CASE n = 0
      BY <2>1, <3>1 DEF IsBuilt
    <3>2. CASE n = m + 1
      <4>1. g[n - 1] = f[m]
        BY <3>2
      <4>. QED BY <3>2, <4>1
    <3>3. CASE n # 0 /\ n # m + 1
      <4>1. n \in 0..m /\ n - 1 \in 0..m /\ n - 1 # m + 1
        BY <3>3
      <4>2. g[n] = f[n] /\ g[n - 1] = f[n - 1]
        BY <4>1
      <4>3. f[n] = RowByRow(f[n - 1], n, file, cap, modulo)
        BY <2>1, <3>3, <4>1 DEF IsBuilt
      <4>. QED BY <3>3, <4>2, <4>3
    <3>. QED BY <3>1, <3>2, <3>3
  <2>3. B(g, m + 1)
    BY <2>2 DEF IsBuilt
  <2>. HIDE DEF g
  <2>. QED BY <2>3
<1>3. \E f : B(f, N)
  <2>1. N \in Nat /\ \A n \in 0..(N - 1) : n \in T => n + 1 \in T
    BY <1>2
  <2>. HIDE DEF T
  <2>2. \A n \in 0..N : n \in T
    BY <1>1, <2>1, Reached
  <2>3. N \in T
    BY <2>1, <2>2
  <2>. QED BY <2>3 DEF T
<1>. DEFINE f == CHOOSE f : B(f, N)
<1>4. B(f, N)
  BY <1>3
<1>5. BuildSplits(file, cap, modulo) = f[N]
  BY DEF BuildSplits, IsBuilt, RowByRow
<1>. HIDE DEF f
<1>6. f[0] = NoRows
  BY <1>4 DEF IsBuilt
<1>7. ASSUME NEW n \in 0..(N - 1) PROVE f[n + 1] = RowByRow(f[n], n + 1, file, cap, modulo)
  <2>1. n + 1 \in 0..N /\ n + 1 # 0 /\ (n + 1) - 1 = n
    OBVIOUS
  <2>. QED BY <1>4, <2>1 DEF IsBuilt
<1>. QED BY <1>5, <1>6, <1>7

-----------------------------------------------------------------------------
(* What a split has of the file                                            *)

(* A file that can be read: each row has a date, blank or malformed.       *)
IsFile(file) ==
  /\ Len(file) \in Nat /\ DOMAIN file = 1..Len(file)
  /\ \A p \in DOMAIN file : file[p].issued \in Int \cup {None, Bad}

InPeriod(date, s) ==
  /\ s = "train" => date <= TrainEnd
  /\ s = "validation" => TrainEnd < date /\ date <= ValidationEnd

(* The rows of the file that are of the split's period.                    *)
IssuedIn(file, s) == {p \in DOMAIN file : file[p].issued \in Int /\ InPeriod(file[p].issued, s)}

IsSeq(q) == q \in Seq({q[i] : i \in DOMAIN q})

(* Every row has its class.                                                *)
AreLabelled(rows) == \A i \in DOMAIN rows : rows[i].target \in {0, 1}

IsSplit(rows, file, s) ==
  IsSeq(rows) /\ PositionsOf(rows) \subseteq IssuedIn(file, s) /\ AreLabelled(rows)

AreSplits(b, file) ==
  b = [s \in Splits |-> b[s]] /\ \A s \in Splits : IsSplit(b[s], file, s)

(* A row that is kept is one with a date.                                  *)
LEMMA Dated ==
  ASSUME NEW raw, Cleaning(raw) \notin {"raised", "dropped"}
  PROVE  CleanRow(raw).issued = raw.issued /\ raw.issued \notin {None, Bad}
BY DEF Cleaning, CleanRow, Malformed

(* A status that is known gives a class.                                   *)
LEMMA Labels == \A s \in DOMAIN StatusMap : StatusMap[s] \in {0, 1}
BY Zenon DEF StatusMap

(* And goes to the split of its date.                                      *)
LEMMA SplitOfDate ==
  ASSUME NEW date \in Int
  PROVE  AssignTimeSplit(date) \in Splits /\ InPeriod(date, AssignTimeSplit(date))
BY SMT DEF AssignTimeSplit, InPeriod, Splits, TrainEnd, ValidationEnd, TestEnd

(* One more at the end of a sequence.                                      *)
LEMMA Grown ==
  ASSUME NEW q, IsSeq(q), NEW x
  PROVE  /\ IsSeq(Append(q, x))
         /\ \A i \in DOMAIN Append(q, x) : Append(q, x)[i] = x \/ \E k \in DOMAIN q : Append(q, x)[i] = q[k]
         /\ \A k \in DOMAIN q : \E i \in DOMAIN Append(q, x) : Append(q, x)[i] = q[k]
         /\ \E i \in DOMAIN Append(q, x) : Append(q, x)[i] = x
<1>. DEFINE S == {q[i] : i \in DOMAIN q} \cup {x}
            r == Append(q, x)
<1>1. q \in Seq(S)
  BY DEF IsSeq
<1>2. /\ r \in Seq(S) /\ DOMAIN r = 1..(Len(q) + 1) /\ Len(r) = Len(q) + 1
      /\ DOMAIN q = 1..Len(q) /\ Len(q) \in Nat
      /\ r[Len(q) + 1] = x /\ \A i \in 1..Len(q) : r[i] = q[i]
  BY <1>1
<1>. HIDE DEF r, S
<1>3. r \in Seq({r[i] : i \in DOMAIN r})
  <2>1. r = [i \in 1..Len(r) |-> r[i]] /\ Len(r) \in Nat
    BY <1>2
  <2>. QED BY <2>1, <1>2
<1>4. \A i \in DOMAIN r : r[i] = x \/ \E k \in DOMAIN q : r[i] = q[k]
  BY <1>2
<1>5. \A k \in DOMAIN q : \E i \in DOMAIN r : r[i] = q[k]
  BY <1>2
<1>6. \E i \in DOMAIN r : r[i] = x
  BY <1>2
<1>. QED BY <1>3, <1>4, <1>5, <1>6 DEF IsSeq, r

(* One row more.                                                           *)
LEMMA OneMore ==
  ASSUME NEW q, IsSeq(q), NEW row
  PROVE  /\ IsSeq(Append(q, row)) /\ PositionsOf(Append(q, row)) = PositionsOf(q) \cup {row.position}
         /\ AreLabelled(q) /\ row.target \in {0, 1} => AreLabelled(Append(q, row))
<1>. DEFINE r == Append(q, row)
<1>1. /\ IsSeq(r)
      /\ \A i \in DOMAIN r : r[i] = row \/ \E k \in DOMAIN q : r[i] = q[k]
      /\ \A k \in DOMAIN q : \E i \in DOMAIN r : r[i] = q[k]
      /\ \E i \in DOMAIN r : r[i] = row
  BY Grown, SMTT(60)
<1>. HIDE DEF r
<1>2. PositionsOf(r) = PositionsOf(q) \cup {row.position}
  BY <1>1 DEF PositionsOf
<1>3. AreLabelled(q) /\ row.target \in {0, 1} => AreLabelled(r)
  BY <1>1 DEF AreLabelled
<1>. QED BY <1>1, <1>2, <1>3 DEF r

(* Appending to a split a row of the file that is of its period.           *)
LEMMA SplitGrows ==
  ASSUME NEW file, NEW b, AreSplits(b, file), NEW s \in Splits, NEW row,
         row.position \in IssuedIn(file, s), row.target \in {0, 1}
  PROVE  AreSplits([b EXCEPT ![s] = Append(@, row)], file)
<1>. DEFINE c == [b EXCEPT ![s] = Append(@, row)]
<1>1. c = [t \in Splits |-> IF t = s THEN Append(b[s], row) ELSE b[t]]
  BY DEF AreSplits
<1>. HIDE DEF c
<1>2. IsSplit(Append(b[s], row), file, s)
  BY OneMore DEF AreSplits, IsSplit
<1>3. \A t \in Splits : c[t] = IF t = s THEN Append(b[s], row) ELSE b[t]
  BY <1>1
<1>4. c = [t \in Splits |-> c[t]]
  BY <1>1
<1>5. \A t \in Splits : IsSplit(c[t], file, t)
  BY <1>2, <1>3 DEF AreSplits
<1>. QED BY <1>4, <1>5 DEF AreSplits, c

(* No rows are of any period.                                              *)
LEMMA NoRowsAreSplits == ASSUME NEW file PROVE AreSplits(NoRows, file)
BY DEF AreSplits, IsSplit, IsSeq, NoRows, PositionsOf, AreLabelled

(* A row is added to the split of its period, or none is.                  *)
LEMMA RowAdded ==
  ASSUME NEW file, IsFile(file), NEW p \in DOMAIN file, NEW b, AreSplits(b, file), NEW cap, NEW modulo
  PROVE  LET c == RowByRow(b, p, file, cap, modulo)
         IN  c = Raised \/ AreSplits(c, file)
<1>. DEFINE c == CleanRow(file[p])
            s == AssignTimeSplit(c.issued)
            cleaned == Cleaning(file[p]) \notin {"raised", "dropped"}
<1>1. CASE \/ RowByRow(b, p, file, cap, modulo) = b
           \/ RowByRow(b, p, file, cap, modulo) = Raised
  BY <1>1
<1>2. CASE /\ cleaned
           /\ RowByRow(b, p, file, cap, modulo) = [b EXCEPT ![s] = Append(@, BuildFeatureRow(p, c))]
  <2>1. c.issued = file[p].issued /\ file[p].issued \in Int
    BY <1>2, Dated DEF IsFile
  <2>2. s \in Splits /\ InPeriod(file[p].issued, s)
    BY <2>1, SplitOfDate
  <2>3. BuildFeatureRow(p, c).position = p /\ BuildFeatureRow(p, c).target \in {0, 1}
    <3>1. file[p].status \in DOMAIN StatusMap
      BY <1>2 DEF Cleaning
    <3>2. c.defaulted \in {0, 1}
      BY <3>1, Labels DEF CleanRow
    <3>. QED BY <3>2 DEF BuildFeatureRow
  <2>4. p \in IssuedIn(file, s)
    BY <2>1, <2>2 DEF IssuedIn
  <2>. DEFINE row == BuildFeatureRow(p, c)
  <2>. HIDE DEF s, c, row
  <2>5. row.position \in IssuedIn(file, s) /\ row.target \in {0, 1}
    BY <2>3, <2>4 DEF row
  <2>6. AreSplits([b EXCEPT ![s] = Append(@, row)], file)
    BY <2>2, <2>5, SplitGrows
  <2>. QED BY <1>2, <2>6 DEF row
<1>3. RowByRow(b, p, file, cap, modulo) = b \/ RowByRow(b, p, file, cap, modulo) = Raised
        \/ /\ cleaned
           /\ RowByRow(b, p, file, cap, modulo) = [b EXCEPT ![s] = Append(@, BuildFeatureRow(p, c))]
  BY DEF RowByRow, ReadRow
<1>. QED BY <1>1, <1>2, <1>3

(* The row-by-row builder puts rows into the split of their period.        *)
LEMMA BuiltSplits ==
  ASSUME NEW file, IsFile(file), NEW cap, NEW modulo
  PROVE  BuildSplits(file, cap, modulo) = Raised \/ AreSplits(BuildSplits(file, cap, modulo), file)
<1>1. Len(file) \in Nat
  BY DEF IsFile
<1>2. PICK f : /\ BuildSplits(file, cap, modulo) = f[Len(file)]
               /\ f[0] = NoRows
               /\ \A n \in 0..(Len(file) - 1) :
                    f[n + 1] = RowByRow(f[n], n + 1, file, cap, modulo)
  BY <1>1, Built
<1>. DEFINE T == {n \in 0..Len(file) : f[n] = Raised \/ AreSplits(f[n], file)}
<1>3. 0 \in T
  BY <1>1, <1>2, NoRowsAreSplits
<1>4. ASSUME NEW n \in 0..(Len(file) - 1), n \in T PROVE n + 1 \in T
  <2>1. n + 1 \in DOMAIN file /\ n + 1 \in 0..Len(file)
    BY <1>1 DEF IsFile
  <2>2. CASE f[n] = Raised
    BY <1>2, <2>1, <2>2 DEF RowByRow
  <2>3. CASE AreSplits(f[n], file)
    BY <1>2, <2>1, <2>3, RowAdded
  <2>. QED BY <1>4, <2>2, <2>3
<1>5. \A n \in 0..(Len(file) - 1) : n \in T => n + 1 \in T
  BY <1>4
<1>. HIDE DEF T
<1>6. \A n \in 0..Len(file) : n \in T
  BY <1>1, <1>3, <1>5, Reached
<1>7. Len(file) \in T
  BY <1>1, <1>6
<1>. QED BY <1>2, <1>7 DEF T

(* The frames' recursion likewise.                                         *)
FrameByFrame(b, n, file) ==
  IF ~OfficialKeeps(file[n]) THEN b
  ELSE [b EXCEPT ![OfficialSplitOf(file[n].issued)] = Append(@, OfficialRow(n, file[n]))]

IsTaken(f, m, file) ==
  f = [n \in 0..m |-> IF n = 0 THEN NoRows ELSE FrameByFrame(f[n - 1], n, file)]

(* The recursion of OfficialSplits has a solution.                         *)
LEMMA Taken ==
  ASSUME NEW file, Len(file) \in Nat
  PROVE  \E f : /\ OfficialSplits(file) = f[Len(file)]
                /\ f[0] = NoRows
                /\ \A n \in 0..(Len(file) - 1) :
                     f[n + 1] = FrameByFrame(f[n], n + 1, file)
<1>. DEFINE N == Len(file)
            T == {m \in 0..N : \E f : IsTaken(f, m, file)}
<1>1. 0 \in T
  <2>. DEFINE f == [n \in 0..0 |-> NoRows]
  <2>1. IsTaken(f, 0, file)
    BY DEF IsTaken
  <2>. QED BY <2>1
<1>2. ASSUME NEW m \in 0..(N - 1), m \in T PROVE m + 1 \in T
  <2>1. PICK f : IsTaken(f, m, file)
    BY <1>2
  <2>. DEFINE g == [n \in 0..(m + 1) |->
                      IF n = m + 1 THEN FrameByFrame(f[m], m + 1, file) ELSE f[n]]
  <2>2. ASSUME NEW n \in 0..(m + 1)
        PROVE  g[n] = IF n = 0 THEN NoRows ELSE FrameByFrame(g[n - 1], n, file)
    <3>1. CASE n = 0
      BY <2>1, <3>1 DEF IsTaken
    <3>2. CASE n = m + 1
      <4>1. g[n - 1] = f[m]
        BY <3>2
      <4>. QED BY <3>2, <4>1
    <3>3. CASE n # 0 /\ n # m + 1
      <4>1. n \in 0..m /\ n - 1 \in 0..m /\ n - 1 # m + 1
        BY <3>3
      <4>2. g[n] = f[n] /\ g[n - 1] = f[n - 1]
        BY <4>1
      <4>3. f[n] = FrameByFrame(f[n - 1], n, file)
        BY <2>1, <3>3, <4>1 DEF IsTaken
      <4>. QED BY <3>3, <4>2, <4>3
    <3>. QED BY <3>1, <3>2, <3>3
  <2>3. IsTaken(g, m + 1, file)
    BY <2>2 DEF IsTaken
  <2>. HIDE DEF g
  <2>. QED BY <2>3
<1>3. \E f : IsTaken(f, N, file)
  <2>1. N \in Nat /\ \A n \in 0..(N - 1) : n \in T => n + 1 \in T
    BY <1>2
  <2>. HIDE DEF T
  <2>2. \A n \in 0..N : n \in T
    BY <1>1, <2>1, Reached
  <2>3. N \in T
    BY <2>1, <2>2
  <2>. QED BY <2>3 DEF T
<1>. DEFINE f == CHOOSE f : IsTaken(f, N, file)
<1>4. IsTaken(f, N, file)
  BY <1>3
<1>5. OfficialSplits(file) = f[N]
  BY DEF OfficialSplits, IsTaken, FrameByFrame
<1>. HIDE DEF f
<1>6. f[0] = NoRows
  BY <1>4 DEF IsTaken
<1>7. ASSUME NEW n \in 0..(N - 1)
      PROVE  f[n + 1] = FrameByFrame(f[n], n + 1, file)
  <2>1. n + 1 \in 0..N /\ n + 1 # 0 /\ (n + 1) - 1 = n
    OBVIOUS
  <2>. QED BY <1>4, <2>1 DEF IsTaken
<1>. QED BY <1>5, <1>6, <1>7

(* A row of the frames keeps its date.                                     *)
LEMMA DatedFrame ==
  ASSUME NEW raw, NEW p, OfficialKeeps(raw)
  PROVE  /\ OfficialRow(p, raw).position = p /\ OfficialRow(p, raw).issued = raw.issued
         /\ raw.issued \notin {None, Bad} /\ OfficialRow(p, raw).target \in {0, 1}
<1>1. raw.status \in DOMAIN StatusMap
  BY DEF OfficialKeeps
<1>2. StatusMap[raw.status] \in {0, 1}
  BY <1>1, Labels
<1>. QED BY <1>2 DEF OfficialKeeps, OfficialRow, Number

(* The year is that of the split.                                          *)
LEMMA SplitOfYear ==
  ASSUME NEW date \in Int
  PROVE  OfficialSplitOf(date) \in Splits /\ InPeriod(date, OfficialSplitOf(date))
<1>. PICK year \in Int : year = date \div 12 /\ 12 * year <= date /\ date < 12 * year + 12
  BY SMT
<1>. QED BY SMT DEF OfficialSplitOf, InPeriod, Splits, TrainEnd, ValidationEnd

(* A row is added to the split of its period, or none is.                  *)
LEMMA FrameAdded ==
  ASSUME NEW file, IsFile(file), NEW p \in DOMAIN file, NEW b, AreSplits(b, file)
  PROVE  AreSplits(FrameByFrame(b, p, file), file)
<1>. DEFINE row == OfficialRow(p, file[p])
            s == OfficialSplitOf(file[p].issued)
<1>1. CASE ~OfficialKeeps(file[p])
  BY <1>1 DEF FrameByFrame
<1>2. CASE OfficialKeeps(file[p])
  <2>1. row.position = p /\ file[p].issued \notin {None, Bad} /\ row.target \in {0, 1}
    BY <1>2, DatedFrame
  <2>2. file[p].issued \in Int
    BY <2>1 DEF IsFile
  <2>3. s \in Splits /\ InPeriod(file[p].issued, s)
    BY <2>2, SplitOfYear
  <2>. HIDE DEF s, row
  <2>4. row.position \in IssuedIn(file, s)
    BY <2>1, <2>2, <2>3 DEF IssuedIn
  <2>5. AreSplits([b EXCEPT ![s] = Append(@, row)], file)
    BY <2>1, <2>3, <2>4, SplitGrows
  <2>. QED BY <1>2, <2>5 DEF FrameByFrame, s, row
<1>. QED BY <1>1, <1>2

(* The frames have rows in the split of their period.                      *)
LEMMA TakenSplits ==
  ASSUME NEW file, IsFile(file) PROVE AreSplits(OfficialSplits(file), file)
<1>1. Len(file) \in Nat
  BY DEF IsFile
<1>2. PICK f : /\ OfficialSplits(file) = f[Len(file)]
               /\ f[0] = NoRows
               /\ \A n \in 0..(Len(file) - 1) :
                    f[n + 1] = FrameByFrame(f[n], n + 1, file)
  BY <1>1, Taken
<1>. DEFINE T == {n \in 0..Len(file) : AreSplits(f[n], file)}
<1>3. 0 \in T
  BY <1>1, <1>2, NoRowsAreSplits
<1>4. ASSUME NEW n \in 0..(Len(file) - 1), n \in T PROVE n + 1 \in T
  <2>1. n + 1 \in DOMAIN file /\ n + 1 \in 0..Len(file)
    BY <1>1 DEF IsFile
  <2>. QED BY <1>2, <1>4, <2>1, FrameAdded
<1>5. \A n \in 0..(Len(file) - 1) : n \in T => n + 1 \in T
  BY <1>4
<1>. HIDE DEF T
<1>6. \A n \in 0..Len(file) : n \in T
  BY <1>1, <1>3, <1>5, Reached
<1>7. Len(file) \in T
  BY <1>1, <1>6
<1>. QED BY <1>2, <1>7 DEF T

(* A slice of the search has rows of the frame only.                       *)
LEMMA Sliced ==
  ASSUME NEW q, IsSeq(q), NEW max \in Nat \ {0}
  PROVE  /\ PositionsOf(SearchSlice(q, max)) \subseteq PositionsOf(q)
         /\ IsSeq(SearchSlice(q, max))
         /\ AreLabelled(q) => AreLabelled(SearchSlice(q, max))
<1>1. CASE Len(q) <= max
  BY <1>1 DEF SearchSlice
<1>2. CASE ~(Len(q) <= max)
  <2>. DEFINE n == Len(q)
              stride == n \div max
  <2>1. n \in Nat /\ DOMAIN q = 1..n
    BY DEF IsSeq
  <2>2. stride \in Nat /\ max * stride <= n /\ stride >= 1
    BY <1>2, <2>1, SMT
  <2>3. SearchSlice(q, max) = [i \in 1..max |-> q[(i - 1) * stride + 1]]
    BY <1>2 DEF SearchSlice
  <2>. HIDE DEF n, stride
  <2>4. ASSUME NEW i \in 1..max PROVE (i - 1) * stride + 1 \in 1..n
    <3>1. PICK k \in Nat : k = max - i
      BY SMT
    <3>2. max * stride = (i - 1) * stride + stride + k * stride
      BY <2>2, <3>1, SMT
    <3>3. k * stride \in Nat /\ (i - 1) * stride \in Nat
      BY <2>2, SMT
    <3>. QED BY <2>1, <2>2, <3>2, <3>3, SMT
  <2>5. PositionsOf(SearchSlice(q, max)) \subseteq PositionsOf(q)
    BY <2>1, <2>3, <2>4 DEF PositionsOf
  <2>6. AreLabelled(q) => AreLabelled(SearchSlice(q, max))
    BY <2>1, <2>3, <2>4 DEF AreLabelled
  <2>7. IsSeq(SearchSlice(q, max))
    <3>. DEFINE slice == SearchSlice(q, max)
    <3>1. slice = [i \in 1..max |-> slice[i]] /\ DOMAIN slice = 1..max /\ max \in Nat
      BY <2>3
    <3>. HIDE DEF slice
    <3>2. slice \in Seq({slice[i] : i \in 1..max})
      BY <3>1
    <3>3. slice \in Seq({slice[i] : i \in DOMAIN slice})
      BY <3>1, <3>2
    <3>. QED BY <3>3 DEF IsSeq, slice
  <2>. QED BY <2>5, <2>6, <2>7
<1>. QED BY <1>1, <1>2

-----------------------------------------------------------------------------
(* What was fitted on what                                                 *)

Train == IssuedIn(study.file, "train")
Validation == IssuedIn(study.file, "validation")

(* Inductive: what a model or calibrator was fitted on is of its period.   *)
FitsOK ==
  /\ \A i \in DOMAIN runs : runs[i].fitted \subseteq Train
  /\ model # None => model.fitted \subseteq Train \cup Validation
  /\ stage = "calibrate" => model.fitted \subseteq Train
  /\ calibrator # None =>
       /\ calibrator.fitted \subseteq Validation
       /\ study.path = "official" => calibrator.on \subseteq Train

LeakInd ==
  /\ study \in Studies \cup {NoStudy}
  /\ IsSeq(runs)
  /\ study # NoStudy => AreSplits(splits, study.file) /\ FitsOK
  /\ study = NoStudy => model = None /\ calibrator = None /\ runs = <<>>

(* A study's file can be read.                                             *)
LEMMA StudyFile == ASSUME NEW s \in Studies PROVE IsFile(s.file)
BY StudiesAssumption DEF IsFile, IsRaw

(* Two splits one after the other.                                         *)
LEMMA Together ==
  ASSUME NEW a, NEW b, IsSeq(a), IsSeq(b)
  PROVE  PositionsOf(a \o b) = PositionsOf(a) \cup PositionsOf(b)
<1>. DEFINE A == {a[i] : i \in DOMAIN a}
            B == {b[i] : i \in DOMAIN b}
            c == a \o b
<1>1. a \in Seq(A \cup B) /\ b \in Seq(A \cup B)
  BY DEF IsSeq
<1>2. /\ Len(a) \in Nat /\ Len(b) \in Nat /\ DOMAIN a = 1..Len(a) /\ DOMAIN b = 1..Len(b)
      /\ DOMAIN c = 1..(Len(a) + Len(b))
      /\ \A i \in 1..Len(a) : c[i] = a[i]
      /\ \A i \in 1..Len(b) : c[Len(a) + i] = b[i]
  BY <1>1
<1>. HIDE DEF c
<1>3. ASSUME NEW i \in DOMAIN c
      PROVE  (\E k \in DOMAIN a : c[i] = a[k]) \/ (\E k \in DOMAIN b : c[i] = b[k])
  <2>1. CASE i <= Len(a)
    BY <1>2, <2>1
  <2>2. CASE i > Len(a)
    <3>1. i - Len(a) \in 1..Len(b) /\ i = Len(a) + (i - Len(a))
      BY <1>2, <2>2
    <3>. QED BY <1>2, <3>1
  <2>. QED BY <1>2, <2>1, <2>2
<1>4. \A k \in DOMAIN a : k \in DOMAIN c /\ c[k] = a[k]
  BY <1>2
<1>5. \A k \in DOMAIN b : Len(a) + k \in DOMAIN c /\ c[Len(a) + k] = b[k]
  BY <1>2
<1>. QED BY <1>3, <1>4, <1>5, SMTT(60) DEF PositionsOf, c

(* The search fits on rows of the training split.                          *)
LEMMA SearchFits ==
  ASSUME LeakInd, study # NoStudy
  PROVE  PositionsOf(SearchRows("train")) \subseteq Train
<1>1. /\ study.path \in {"candidate", "official"} /\ MaxSearchTrain \in Nat \ {0}
      /\ IsSeq(splits["train"]) /\ PositionsOf(splits["train"]) \subseteq Train
  BY StudiesAssumption DEF LeakInd, AreSplits, IsSplit, Train, Splits
<1>2. SearchRows("train") = splits["train"] \/ SearchRows("train") = SearchSlice(splits["train"], MaxSearchTrain)
  BY <1>1 DEF SearchRows
<1>. QED BY <1>1, <1>2, Sliced

(* The final model has seen training and validation rows.                  *)
LEMMA CombinedFit ==
  ASSUME LeakInd, study # NoStudy
  PROVE  PositionsOf(splits["train"] \o splits["validation"]) \subseteq Train \cup Validation
<1>1. /\ IsSeq(splits["train"]) /\ PositionsOf(splits["train"]) \subseteq Train
      /\ IsSeq(splits["validation"]) /\ PositionsOf(splits["validation"]) \subseteq Validation
  BY DEF LeakInd, AreSplits, IsSplit, Train, Validation, Splits
<1>. QED BY <1>1, Together

(* At first nothing is fitted.                                             *)
LEMMA LeakStarts == ASSUME Init PROVE LeakInd
<1>1. /\ study \in Studies \cup {NoStudy} /\ runs = <<>> /\ model = None /\ calibrator = None
      /\ splits = NoRows /\ stage = "prepare"
  BY DEF Init, PipelineInit
<1>2. IsSeq(runs)
  BY <1>1 DEF IsSeq
<1>3. study # NoStudy => AreSplits(splits, study.file)
  BY <1>1, NoRowsAreSplits
<1>4. DOMAIN runs = {}
  BY <1>1
<1>. QED BY <1>1, <1>2, <1>3, <1>4 DEF LeakInd, FitsOK

(* Nor does anything change with a step of an experiment, a benchmark or a *)
(* report.                                                                 *)
LEMMA LeakUntouched ==
  ASSUME LeakInd, UNCHANGED <<study, splits, runs, model, calibrator>>,
         stage' = "calibrate" => stage = "calibrate"
  PROVE  LeakInd'
BY DEF LeakInd, FitsOK, Train, Validation

(* Each stage of the pipeline fits on what it may.                         *)
LEMMA LeakKept == ASSUME LeakInd, [Next]_vars PROVE LeakInd'
<1>1. CASE UNCHANGED pipelineVars
  BY <1>1, LeakUntouched DEF pipelineVars
<1>2. CASE study # NoStudy /\ PipelineNext
  <2>1. study \in Studies /\ study.path \in {"candidate", "official"} /\ IsFile(study.file)
    BY <1>2, StudiesAssumption, StudyFile DEF LeakInd
  <2>2. CASE Fail
    BY <2>2, LeakUntouched DEF Fail
  <2>3. CASE Prepare /\ ~Fail
    <3>. DEFINE built == IF study.path = "official" THEN OfficialSplits(study.file)
                         ELSE BuildSplits(study.file, study.cap, study.modulo)
    <3>1. /\ built # Raised /\ splits' = built /\ stage' # "calibrate"
          /\ UNCHANGED <<study, runs, model, calibrator>>
      BY <2>3 DEF Prepare
    <3>2. AreSplits(built, study.file)
      BY <2>1, <3>1, TakenSplits, BuiltSplits
    <3>. HIDE DEF built
    <3>. QED BY <1>2, <3>1, <3>2 DEF LeakInd, FitsOK, Train, Validation
  <2>4. CASE SearchStep
    <3>1. PICK run : run.fitted = PositionsOf(SearchRows("train")) /\ runs' = Append(runs, run)
      BY <2>4 DEF SearchStep, FitModel
    <3>2. UNCHANGED <<study, stage, splits, model, calibrator>>
      BY <2>4 DEF SearchStep
    <3>3. run.fitted \subseteq Train
      BY <1>2, <3>1, SearchFits
    <3>4. IsSeq(runs') /\ \A i \in DOMAIN runs' : runs'[i] = run \/ \E k \in DOMAIN runs : runs'[i] = runs[k]
      BY <3>1, Grown DEF LeakInd
    <3>5. \A i \in DOMAIN runs' : runs'[i].fitted \subseteq Train
      BY <1>2, <3>3, <3>4 DEF LeakInd, FitsOK
    <3>. QED BY <1>2, <3>2, <3>4, <3>5 DEF LeakInd, FitsOK, Train, Validation
  <2>5. CASE SelectBest
    BY <2>5, LeakUntouched DEF SelectBest
  <2>6. CASE FitForCalibration
    <3>1. /\ model'.fitted = PositionsOf(splits["train"])
          /\ UNCHANGED <<study, splits, runs, calibrator>>
      BY <2>6 DEF FitForCalibration, FitModel
    <3>2. PositionsOf(splits["train"]) \subseteq Train
      BY <1>2 DEF LeakInd, AreSplits, IsSplit, Train, Splits
    <3>. QED BY <1>2, <3>1, <3>2 DEF LeakInd, FitsOK, Train, Validation
  <2>7. CASE CalibrateOfficial
    <3>1. /\ calibrator'.fitted = PositionsOf(splits["validation"]) /\ calibrator'.on = model.fitted
          /\ stage = "calibrate" /\ stage' = "refit"
          /\ UNCHANGED <<study, splits, runs, model>>
      BY <2>7 DEF CalibrateOfficial, FitIsotonicCalibrator
    <3>2. PositionsOf(splits["validation"]) \subseteq Validation
      BY <1>2 DEF LeakInd, AreSplits, IsSplit, Validation, Splits
    <3>. QED BY <1>2, <3>1, <3>2 DEF LeakInd, FitsOK, Train, Validation
  <2>8. CASE Refit
    <3>1. /\ model'.fitted = PositionsOf(splits["train"] \o splits["validation"])
          /\ stage' = "trained"
          /\ UNCHANGED <<study, splits, runs, calibrator>>
      BY <2>8 DEF Refit, FitModel
    <3>. QED BY <1>2, <3>1, CombinedFit DEF LeakInd, FitsOK, Train, Validation
  <2>9. CASE CalibrateManifest /\ ~Fail
    <3>1. PICK cap : /\ Prepared(cap) # Raised
                     /\ calibrator' \in FitIsotonicCalibrator(model, Prepared(cap)["validation"])
                     /\ study.path = "candidate"
                     /\ UNCHANGED <<study, stage, splits, runs, model>>
      BY <2>9 DEF CalibrateManifest
    <3>2. AreSplits(Prepared(cap), study.file)
      BY <2>1, <3>1, BuiltSplits DEF Prepared
    <3>3. calibrator'.fitted \subseteq Validation
      BY <3>1, <3>2 DEF FitIsotonicCalibrator, AreSplits, IsSplit, Validation, Splits
    <3>. QED BY <1>2, <3>1, <3>3 DEF LeakInd, FitsOK, Train, Validation
  <2>10. CASE EvaluateManifest /\ ~Fail
    BY <2>10, LeakUntouched DEF EvaluateManifest
  <2>11. CASE EvaluateOfficial
    BY <2>11, LeakUntouched DEF EvaluateOfficial
  <2>. QED BY <1>2, <2>2, <2>3, <2>4, <2>5, <2>6, <2>7, <2>8, <2>9, <2>10, <2>11 DEF PipelineNext
<1>3. CASE BenchmarkNext
  <2>1. UNCHANGED pipelineVars
    BY <1>3 DEF BenchmarkNext, BenchmarkManifest, BenchmarkOfficial
  <2>. QED BY <1>1, <2>1
<1>4. CASE UNCHANGED vars
  BY <1>1, <1>4 DEF vars
<1>. QED BY <1>1, <1>2, <1>3, <1>4 DEF Next

(* Hence always.                                                           *)
LEMMA LeakInvariant == Spec => []LeakInd
<1>1. Init => LeakInd
  BY LeakStarts
<1>2. LeakInd /\ [Next]_vars => LeakInd'
  BY LeakKept
<1>. QED BY <1>1, <1>2, PTL DEF Spec

(* No row of the test year reaches a fitted model or calibrator, on either *)
(* path, with any file, caps and samples, whatever is prepared again       *)
(* later; and the official calibrator has a model that has not seen what   *)
(* it predicts.                                                            *)
THEOREM NoLeakageHolds == Spec => []NoLeakage
<1>1. ASSUME LeakInd PROVE NoLeakage
  <2>1. CASE study = NoStudy
    <3>1. model = None /\ calibrator = None /\ DOMAIN runs = {}
      BY <1>1, <2>1 DEF LeakInd
    <3>. QED BY <3>1 DEF NoLeakage
  <2>2. CASE study # NoStudy
    <3>. DEFINE test == {i \in DOMAIN study.file :
                           study.file[i].issued \notin {None, Bad} /\ study.file[i].issued > ValidationEnd}
    <3>1. FitsOK
      BY <1>1, <2>2 DEF LeakInd
    <3>2. \A p \in Train : study.file[p].issued \in Int /\ study.file[p].issued <= TrainEnd
      BY DEF Train, IssuedIn, InPeriod
    <3>3. \A p \in Validation : /\ study.file[p].issued \in Int
                                /\ study.file[p].issued > TrainEnd
                                /\ study.file[p].issued <= ValidationEnd
      BY DEF Validation, IssuedIn, InPeriod
    <3>4. TrainEnd \in Int /\ ValidationEnd \in Int /\ TrainEnd < ValidationEnd
      BY SMT DEF TrainEnd, ValidationEnd
    <3>5. Train \cap test = {} /\ Validation \cap test = {} /\ Train \cap Validation = {}
      BY <3>2, <3>3, <3>4
    <3>. HIDE DEF test
    <3>6. model # None => model.fitted \cap test = {}
      BY <3>1, <3>5 DEF FitsOK
    <3>7. calibrator # None => calibrator.fitted \cap test = {}
      BY <3>1, <3>5 DEF FitsOK
    <3>8. calibrator # None /\ study.path = "official" => calibrator.fitted \cap calibrator.on = {}
      BY <3>1, <3>5 DEF FitsOK
    <3>9. \A i \in DOMAIN runs : \A p \in runs[i].fitted : study.file[p].issued <= TrainEnd
      BY <3>1, <3>2 DEF FitsOK
    <3>. QED BY <3>6, <3>7, <3>8, <3>9 DEF NoLeakage, test
  <2>. QED BY <2>1, <2>2
<1>. QED BY <1>1, LeakInvariant, PTL
-----------------------------------------------------------------------------
(* The benchmark                                                           *)

(* A row of the benchmark: what both arms say of the row and a probability.*)
IsCompared(b) ==
  /\ b.p \in 0..100
  /\ b.heuristic = HeuristicOutcome(b.row)
  /\ b.ml = IF study.path = "candidate" THEN MLOutcome(b.row, b.p) ELSE MLThresholdOutcome(b.p)

(* A calibrator maps percents to percents, and the official model has one  *)
(* by the time it is benchmarked.                                          *)
IsCalibrator(c) == c.apply \in [study.probs -> study.probs]

BenchInd ==
  /\ study \in Studies \cup {NoStudy}
  /\ study = NoStudy => benchmark = None
  /\ study # NoStudy =>
       /\ calibrator # None => IsCalibrator(calibrator)
       /\ study.path = "official" /\ stage \in {"refit", "trained"} => IsCalibrator(calibrator)
       /\ benchmark \notin {None, Raised} => \A i \in DOMAIN benchmark : IsCompared(benchmark[i])

(* A score is one of the study's probabilities, and can be set to another. *)
LEMMA ScoresAreProbs ==
  ASSUME NEW m, NEW rows, NEW raw \in PredictProbabilities(m, rows)
  PROVE  /\ DOMAIN raw = DOMAIN rows
         /\ \A i \in DOMAIN rows : /\ raw[i].p \in study.probs
                                   /\ \A v : [raw[i] EXCEPT !.p = v].p = v
<1>. DEFINE code == [i \in DOMAIN rows |-> EncodeFeatureRow(rows[i], m.schema)]
<1>1. PICK g \in [{code[i] : i \in DOMAIN rows} -> study.probs] :
        raw = [i \in DOMAIN rows |-> Scored(rows[i], g[code[i]])]
  BY DEF PredictProbabilities
<1>2. \A i \in DOMAIN rows : g[code[i]] \in study.probs
  OBVIOUS
<1>. HIDE DEF code
<1>3. \A row, p, v : Scored(row, p).p = p /\ [Scored(row, p) EXCEPT !.p = v].p = v
  BY DEF Scored
<1>. QED BY <1>1, <1>2, <1>3

(* And so is a calibrated one.                                             *)
LEMMA CalibratedAreProbs ==
  ASSUME NEW m, NEW rows, NEW raw \in PredictProbabilities(m, rows), IsCalibrator(calibrator)
  PROVE  \A i \in DOMAIN rows :
           [k \in DOMAIN raw |-> [raw[k] EXCEPT !.p = calibrator.apply[@]]][i].p \in study.probs
<1>1. /\ DOMAIN raw = DOMAIN rows
      /\ \A i \in DOMAIN rows : /\ raw[i].p \in study.probs
                                /\ \A v : [raw[i] EXCEPT !.p = v].p = v
  BY ScoresAreProbs
<1>2. \A i \in DOMAIN rows : calibrator.apply[raw[i].p] \in study.probs
  BY <1>1 DEF IsCalibrator
<1>. TAKE i \in DOMAIN rows
<1>. DEFINE v == calibrator.apply[raw[i].p]
<1>3. [k \in DOMAIN raw |-> [raw[k] EXCEPT !.p = calibrator.apply[@]]][i] = [raw[i] EXCEPT !.p = v]
  BY <1>1
<1>4. [raw[i] EXCEPT !.p = v].p = v
  BY <1>1
<1>5. v \in study.probs
  BY <1>2
<1>. HIDE DEF v
<1>. QED BY <1>3, <1>4, <1>5

(* The outcomes of rows so scored are compared ones.                       *)
LEMMA OutcomesCompared ==
  ASSUME NEW rows, NEW scored, study.probs \subseteq 0..100,
         \A i \in DOMAIN rows : scored[i].p \in study.probs
  PROVE  \A i \in DOMAIN Outcomes(rows, scored) : IsCompared(Outcomes(rows, scored)[i])
<1>. TAKE i \in DOMAIN Outcomes(rows, scored)
<1>1. i \in DOMAIN rows
  BY DEF Outcomes
<1>2. /\ Outcomes(rows, scored)[i].p = scored[i].p
      /\ Outcomes(rows, scored)[i].heuristic = HeuristicOutcome(Outcomes(rows, scored)[i].row)
      /\ Outcomes(rows, scored)[i].ml =
           IF study.path = "candidate"
           THEN MLOutcome(Outcomes(rows, scored)[i].row, Outcomes(rows, scored)[i].p)
           ELSE MLThresholdOutcome(Outcomes(rows, scored)[i].p)
  BY <1>1 DEF Outcomes
<1>. QED BY <1>1, <1>2 DEF IsCompared

(* A new calibrator is one.                                                *)
LEMMA NewCalibrator ==
  ASSUME NEW m, NEW rows, NEW c \in FitIsotonicCalibrator(m, rows)
  PROVE  IsCalibrator(c)
BY DEF FitIsotonicCalibrator, Isotonic, IsCalibrator

(* At first nothing is compared.                                           *)
LEMMA BenchStarts == ASSUME Init PROVE BenchInd
BY DEF Init, PipelineInit, BenchmarkInit, BenchInd

(* Training and evaluation compare nothing and keep the calibrator.        *)
LEMMA BenchUntouched ==
  ASSUME BenchInd, UNCHANGED <<study, calibrator, benchmark>>,
         stage' \in {"refit", "trained"} =>
           stage \in {"refit", "trained"} \/ (study # NoStudy => study.path = "candidate")
  PROVE  BenchInd'
BY DEF BenchInd, IsCompared, IsCalibrator

(* Each step keeps it.                                                     *)
LEMMA BenchKept == ASSUME BenchInd, [Next]_vars PROVE BenchInd'
<1>1. CASE UNCHANGED <<pipelineVars, benchmark>>
  BY <1>1, BenchUntouched DEF pipelineVars
<1>2. CASE study # NoStudy /\ benchmark = None /\ PipelineNext /\ UNCHANGED benchmark
  <2>1. study \in Studies /\ study.path \in {"candidate", "official"}
    BY <1>2, StudiesAssumption DEF BenchInd
  <2>2. CASE Fail
    BY <1>2, <2>2, BenchUntouched DEF Fail
  <2>3. CASE Prepare /\ ~Fail
    BY <1>2, <2>3, BenchUntouched DEF Prepare
  <2>4. CASE SearchStep
    BY <1>2, <2>4, BenchUntouched DEF SearchStep
  <2>5. CASE SelectBest
    BY <1>2, <2>1, <2>5, BenchUntouched DEF SelectBest
  <2>6. CASE FitForCalibration
    BY <1>2, <2>6, BenchUntouched DEF FitForCalibration
  <2>7. CASE CalibrateOfficial
    <3>1. IsCalibrator(calibrator') /\ UNCHANGED <<study, benchmark>>
      BY <1>2, <2>7, NewCalibrator DEF CalibrateOfficial
    <3>. QED BY <1>2, <3>1 DEF BenchInd, IsCalibrator
  <2>8. CASE Refit
    BY <1>2, <2>8, BenchUntouched DEF Refit
  <2>9. CASE CalibrateManifest /\ ~Fail
    <3>1. PICK rows : calibrator' \in FitIsotonicCalibrator(model, rows)
      BY <2>9 DEF CalibrateManifest
    <3>2. IsCalibrator(calibrator') /\ UNCHANGED <<study, benchmark>>
      BY <1>2, <2>9, <3>1, NewCalibrator DEF CalibrateManifest
    <3>. QED BY <1>2, <3>2 DEF BenchInd, IsCalibrator
  <2>10. CASE EvaluateManifest /\ ~Fail
    BY <1>2, <2>10, BenchUntouched DEF EvaluateManifest
  <2>11. CASE EvaluateOfficial
    BY <1>2, <2>11, BenchUntouched DEF EvaluateOfficial
  <2>. QED BY <1>2, <2>2, <2>3, <2>4, <2>5, <2>6, <2>7, <2>8, <2>9, <2>10, <2>11 DEF PipelineNext
<1>3. CASE study # NoStudy /\ BenchmarkNext
  <2>1. UNCHANGED pipelineVars /\ study.probs \subseteq 0..100
    BY <1>3, StudiesAssumption DEF BenchInd, BenchmarkNext, BenchmarkManifest, BenchmarkOfficial
  <2>2. benchmark' = Raised \/ \E rows, scored : /\ benchmark' = Outcomes(rows, scored)
                                                 /\ \A i \in DOMAIN rows : scored[i].p \in study.probs
    <3>1. CASE BenchmarkManifest
      <4>1. SUFFICES ASSUME NEW cap,
                            NEW raw \in PredictProbabilities(model, Prepared(cap)["test"]),
                            benchmark' = Outcomes(Prepared(cap)["test"],
                              IF calibrator = None THEN raw
                              ELSE [i \in DOMAIN raw |-> [raw[i] EXCEPT !.p = calibrator.apply[@]]])
                     PROVE  \E rows, scored : /\ benchmark' = Outcomes(rows, scored)
                                              /\ \A i \in DOMAIN rows : scored[i].p \in study.probs
        BY <3>1 DEF BenchmarkManifest
      <4>2. CASE calibrator = None
        BY <4>1, <4>2, ScoresAreProbs
      <4>3. CASE calibrator # None
        <5>1. IsCalibrator(calibrator)
          BY <1>3, <4>3 DEF BenchInd
        <5>. QED BY <4>1, <4>3, <5>1, CalibratedAreProbs
      <4>. QED BY <4>2, <4>3
    <3>2. CASE BenchmarkOfficial
      <4>1. PICK raw \in PredictProbabilities(model, splits["test"]) :
              benchmark' = Outcomes(splits["test"],
                                    [i \in DOMAIN raw |-> [raw[i] EXCEPT !.p = calibrator.apply[@]]])
        BY <3>2 DEF BenchmarkOfficial
      <4>2. IsCalibrator(calibrator)
        BY <1>3, <3>2 DEF BenchInd, BenchmarkOfficial
      <4>. QED BY <4>1, <4>2, CalibratedAreProbs
    <3>. QED BY <1>3, <3>1, <3>2 DEF BenchmarkNext
  <2>3. benchmark' # Raised => \A i \in DOMAIN benchmark' : IsCompared(benchmark'[i])
    BY <2>1, <2>2, OutcomesCompared
  <2>. QED BY <1>3, <2>1, <2>3 DEF BenchInd, IsCompared, IsCalibrator, pipelineVars,
                                   MLOutcome, HeuristicOutcome
<1>4. CASE UNCHANGED vars
  BY <1>1, <1>4 DEF vars
<1>. QED BY <1>1, <1>2, <1>3, <1>4 DEF Next

(* Hence always.                                                           *)
LEMMA BenchInvariant == Spec => []BenchInd
<1>1. Init => BenchInd
  BY BenchStarts
<1>2. BenchInd /\ [Next]_vars => BenchInd'
  BY BenchKept
<1>. QED BY <1>1, <1>2, PTL DEF Spec

-----------------------------------------------------------------------------
(* The engine without failures                                             *)

(* Nothing failed, nothing is lost.                                        *)
LEMMA Undisturbed == R!DataReliability(<<>>, FALSE) = 100
<1>. DEFINE IsSum(f) == f = [i \in 0..Len(<<>>) |-> IF i = 0 THEN 0
                                                    ELSE f[i - 1] + R!Penalty[<<>>[i]]]
            w == [i \in 0..Len(<<>>) |-> 0]
            lost == CHOOSE f : IsSum(f)
<1>1. Len(<<>>) = 0 /\ 0 \in 0..Len(<<>>) /\ \A i \in 0..Len(<<>>) : i = 0
  OBVIOUS
<1>2. IsSum(w)
  BY <1>1
<1>. HIDE DEF w
<1>3. IsSum(lost)
  BY <1>2
<1>4. lost[0] = 0
  BY <1>1, <1>3
<1>5. R!DataReliability(<<>>, FALSE) = R!Clamp(100 - lost[Len(<<>>)], 0, 100)
  BY DEF R!DataReliability
<1>. HIDE DEF lost
<1>6. 100 - lost[Len(<<>>)] = 100
  BY <1>1, <1>4
<1>7. R!Clamp(100, 0, 100) = 100
  BY SMT DEF R!Clamp, R!Lower, R!Higher
<1>. QED BY <1>5, <1>6, <1>7

(* What the providers return when none fails.                              *)
Undelayed(row) ==
  [credit |-> R!Ok(CreditOf(row)), bank |-> R!Ok(ProxyIncomeStability(row)), gst |-> R!Ok(Complies(row))]

(* The engine reads the figures as they are, and trusts them.              *)
LEMMA ReadAsIs ==
  ASSUME NEW row
  PROVE  /\ R!FailureTypes(Undelayed(row)) = <<>>
         /\ R!UsedFallbackCredit(Undelayed(row)) = FALSE
         /\ R!CreditScore(Undelayed(row)) = CreditOf(row)
         /\ Undelayed(row).bank.data = ProxyIncomeStability(row)
         /\ R!GstCompliant(Undelayed(row)) = Complies(row)
<1>. DEFINE res == Undelayed(row)
<1>1. /\ res.credit.failure = None /\ res.credit.fallback = FALSE /\ res.credit.data = CreditOf(row)
      /\ res.bank.failure = None /\ res.bank.data = ProxyIncomeStability(row)
      /\ res.gst.failure = None /\ res.gst.data = Complies(row)
  BY DEF Undelayed, R!Ok
<1>2. Complies(row) # None
  BY BenchmarkAssumption DEF Complies
<1>. HIDE DEF res
<1>3. R!FailureTypes(res) = <<>> \o <<>> \o <<>>
  BY <1>1 DEF R!FailureTypes, R!OneFailure
<1>4. <<>> \o <<>> \o <<>> = <<>>
  OBVIOUS
<1>5. R!UsedFallbackCredit(res) = FALSE
  BY <1>1 DEF R!UsedFallbackCredit
<1>6. R!CreditScore(res) = CreditOf(row)
  BY <1>1, <1>5 DEF R!CreditScore
<1>7. R!GstCompliant(res) = Complies(row)
  BY <1>1, <1>2 DEF R!GstCompliant
<1>8. R!FailureTypes(res) = <<>> /\ res.bank.data = ProxyIncomeStability(row)
  BY <1>1, <1>3, <1>4
<1>. QED BY <1>5, <1>6, <1>7, <1>8 DEF res

(* The engine's answer: from the score of the model if it is used, else    *)
(* from the rules' own, at full reliability.                               *)
LEMMA EngineAnswer ==
  ASSUME NEW row, NEW ml
  PROVE  LET served     == R!ComputeDecision(Undelayed(row), row.dti, ml, None)
             used       == ml # None /\ ml.used
             rs         == IF used THEN R!RuleSetV2 ELSE R!RuleSetV1
             score      == IF used THEN ml.score
                           ELSE R!RiskScore(CreditOf(row), ProxyIncomeStability(row), row.dti,
                                            Complies(row), <<>>, R!RuleSetV1)
             decided    == R!Evaluate(score, row.dti, <<>>, Complies(row), rs)
             confidence == R!DecisionConfidence(score, decided, 100)
         IN  /\ served.decision = IF confidence < ConfidenceThreshold THEN "NEEDS_REVIEW" ELSE decided
             /\ served.strategy = IF used THEN "ml" ELSE "heuristic"
<1>. DEFINE res         == Undelayed(row)
            failures    == R!FailureTypes(res)
            gst         == R!GstCompliant(res)
            credit      == R!CreditScore(res)
            stability   == res.bank.data
            reliability == R!DataReliability(failures, R!UsedFallbackCredit(res))
            served      == R!ComputeDecision(res, row.dti, ml, None)
            used        == ml # None /\ ml.used
            rs          == IF used THEN R!RuleSetV2 ELSE R!RuleSetV1
            score       == IF used THEN ml.score
                           ELSE R!RiskScore(credit, stability, row.dti, gst, failures, R!RuleSetV1)
            decided     == R!Evaluate(score, row.dti, failures, gst, rs)
            confidence  == R!DecisionConfidence(score, decided, reliability)
<1>1. served = [decision |-> IF confidence < ConfidenceThreshold THEN "NEEDS_REVIEW" ELSE decided,
                rule |-> decided, confidence |-> confidence, reliability |-> reliability,
                score |-> score, ruleVersion |-> rs.version,
                requiresManualReview |-> confidence < ConfidenceThreshold,
                strategy |-> IF used THEN "ml" ELSE "heuristic", ml |-> ml, arm |-> None]
  BY Zenon DEF R!ComputeDecision
<1>2. /\ failures = <<>> /\ gst = Complies(row) /\ credit = CreditOf(row)
      /\ stability = ProxyIncomeStability(row) /\ reliability = 100
  BY ReadAsIs, Undisturbed
<1>. HIDE DEF served, decided, confidence, score, used, rs, reliability
<1>3. /\ served.decision = IF confidence < ConfidenceThreshold THEN "NEEDS_REVIEW" ELSE decided
      /\ served.strategy = IF used THEN "ml" ELSE "heuristic"
  BY <1>1
<1>. HIDE DEF failures, gst, credit, stability
<1>4. score = IF used THEN ml.score
              ELSE R!RiskScore(CreditOf(row), ProxyIncomeStability(row), row.dti,
                               Complies(row), <<>>, R!RuleSetV1)
  BY <1>2 DEF score
<1>5. decided = R!Evaluate(score, row.dti, <<>>, Complies(row), rs)
  BY <1>2 DEF decided
<1>6. confidence = R!DecisionConfidence(score, decided, 100)
  BY <1>2 DEF confidence
<1>. QED BY <1>3, <1>4, <1>5, <1>6, Zenon DEF served, used, rs, res

(* Without a score in use, the engine is the heuristic arm.                *)
LEMMA EngineIsHeuristic ==
  ASSUME ConfidenceThreshold = 60, NEW row, NEW ml, ml = None \/ ml.used = FALSE
  PROVE  LET served == R!ComputeDecision(Undelayed(row), row.dti, ml, None)
         IN  served.decision = HeuristicOutcome(row) /\ served.strategy = "heuristic"
<1>. DEFINE score == R!RiskScore(CreditOf(row), ProxyIncomeStability(row), row.dti, Complies(row),
                                 <<>>, R!RuleSetV1)
            decided == R!Evaluate(score, row.dti, <<>>, Complies(row), R!RuleSetV1)
            confidence == R!DecisionConfidence(score, decided, 100)
            served == R!ComputeDecision(Undelayed(row), row.dti, ml, None)
<1>1. ~(ml # None /\ ml.used)
  OBVIOUS
<1>2. /\ served.decision = IF confidence < ConfidenceThreshold THEN "NEEDS_REVIEW" ELSE decided
      /\ served.strategy = "heuristic"
  BY <1>1, EngineAnswer, Zenon
<1>3. HeuristicOutcome(row) = IF confidence < 60 THEN "NEEDS_REVIEW" ELSE decided
  BY DEF HeuristicOutcome
<1>. HIDE DEF confidence, decided, served
<1>4. served.decision = HeuristicOutcome(row) /\ served.strategy = "heuristic"
  BY <1>2, <1>3
<1>. QED BY <1>4 DEF served

(* With one, it decides by the score alone.                                *)
LEMMA EngineIsModel ==
  ASSUME NEW row, NEW score, NEW ml, ml # None, ml.used = TRUE, ml.score = score
  PROVE  LET served     == R!ComputeDecision(Undelayed(row), row.dti, ml, None)
             decided    == R!Evaluate(score, row.dti, <<>>, Complies(row), R!RuleSetV2)
             confidence == R!DecisionConfidence(score, decided, 100)
         IN  /\ served.decision = IF confidence < ConfidenceThreshold THEN "NEEDS_REVIEW" ELSE decided
             /\ served.strategy = "ml"
<1>1. ml # None /\ ml.used
  OBVIOUS
<1>. QED BY <1>1, EngineAnswer, Zenon

(* A probability close to a half is thrown back on the heuristic, another  *)
(* one gives the score.                                                    *)
LEMMA Guardrail ==
  ASSUME NEW p \in 0..100
  PROVE  LET ml == R!MLOutcome("SCORED", p, {})
         IN  /\ ml # None
             /\ Higher(p, 100 - p) < ConfidenceThreshold => ml.used = FALSE
             /\ ~(Higher(p, 100 - p) < ConfidenceThreshold) => ml.used = TRUE /\ ml.score = (100 - p) * 100
<1>1. Higher(p, 100 - p) = R!Higher(p, 100 - p)
  BY DEF Higher, R!Higher
<1>. DEFINE h == R!Higher(p, 100 - p)
            ml == R!MLOutcome("SCORED", p, {})
<1>2. ml = [(IF h < ConfidenceThreshold THEN R!Fallback("LOW_CONFIDENCE", None, p)
             ELSE [used |-> TRUE, fallback |-> FALSE, reason |-> None, error |-> None,
                   p |-> p, score |-> (100 - p) * 100, drift |-> {}]) EXCEPT !.drift = {}]
  BY DEF R!MLOutcome
<1>3. R!Fallback("LOW_CONFIDENCE", None, p).used = FALSE
  BY DEF R!Fallback
<1>4. ml # None
  BY BenchmarkAssumption
<1>. HIDE DEF h, ml
<1>5. CASE h < ConfidenceThreshold
  <2>1. ml.used = FALSE
    BY <1>2, <1>5 DEF R!Fallback
  <2>. QED BY <1>1, <1>4, <1>5, <2>1 DEF h, ml
<1>6. CASE ~(h < ConfidenceThreshold)
  <2>1. ml.used = TRUE /\ ml.score = (100 - p) * 100
    BY <1>2, <1>6
  <2>. QED BY <1>1, <1>4, <1>6, <2>1 DEF h, ml
<1>. QED BY <1>5, <1>6

(* What the rules approve on a model's word is less likely than not to     *)
(* default.                                                                *)
LEMMA ApprovalIsLikely ==
  ASSUME NEW p \in 0..100, NEW dti, NEW gst,
         R!Evaluate((100 - p) * 100, dti, <<>>, gst, R!RuleSetV2) = "APPROVE"
  PROVE  p < 50
<1>. DEFINE score == (100 - p) * 100
            effective == R!EffectiveScore(score, gst, R!RuleSetV2)
<1>1. /\ R!RuleSetV2.approveHigh = 7000 /\ R!RuleSetV2.approveModerate = 5500
  BY DEF R!RuleSetV2, R!Scorecard
<1>2. score \in Int
  OBVIOUS
<1>. HIDE DEF score
<1>3. effective \in Int /\ effective <= score
  BY <1>1, <1>2, SMT DEF R!EffectiveScore, R!Lower
<1>4. effective >= 7000 \/ effective >= 5500
  BY <1>1 DEF R!Evaluate, score
<1>. HIDE DEF effective
<1>5. score >= 5500
  BY <1>2, <1>3, <1>4, SMT
<1>. QED BY <1>5, SMT DEF score

(* At the threshold of the benchmark's own heuristic, 60, the benchmark    *)
(* says of the two scorers what they would do: for any rows, the engine    *)
(* without failing providers decides like the heuristic arm, and like the  *)
(* model's arm of a candidate run, and the official arm approves what the  *)
(* engine approves on the model's word.                                    *)
THEOREM BenchmarkIsDeployedHolds ==
  ASSUME ConfidenceThreshold = 60
  PROVE  Spec => []BenchmarkIsDeployed
<1>1. ASSUME BenchInd PROVE BenchmarkIsDeployed
  <2>1. SUFFICES ASSUME benchmark \notin {None, Raised}, NEW i \in DOMAIN benchmark
        PROVE  LET b         == benchmark[i]
                   Engine(ml) == R!ComputeDecision(Undelayed(b.row), b.row.dti, ml, None)
                   served    == Engine(R!MLOutcome("SCORED", b.p, {}))
               IN  /\ b.heuristic = Engine(None).decision
                   /\ study.path = "candidate" => b.ml = served.decision
                   /\ study.path = "official" /\ served.strategy = "ml" /\ served.decision = "APPROVE" =>
                        b.ml = "APPROVE"
    BY DEF BenchmarkIsDeployed, Undelayed
  <2>. DEFINE b       == benchmark[i]
              row     == b.row
              p       == b.p
              ml      == R!MLOutcome("SCORED", p, {})
              score   == (100 - p) * 100
              decided == R!Evaluate(score, row.dti, <<>>, Complies(row), R!RuleSetV2)
              confidence == R!DecisionConfidence(score, decided, 100)
              served  == R!ComputeDecision(Undelayed(row), row.dti, ml, None)
              byRules == R!ComputeDecision(Undelayed(row), row.dti, None, None)
              close   == Higher(p, 100 - p) < ConfidenceThreshold
  <2>2. /\ p \in 0..100 /\ b.heuristic = HeuristicOutcome(row)
        /\ study.path = "candidate" => b.ml = MLOutcome(row, p)
        /\ study.path = "official" => b.ml = MLThresholdOutcome(p)
    BY <1>1, <2>1 DEF BenchInd, IsCompared
  <2>3. byRules.decision = HeuristicOutcome(row)
    BY EngineIsHeuristic
  <2>4. ml # None /\ (close => ml.used = FALSE) /\ (~close => ml.used = TRUE /\ ml.score = score)
    BY <2>2, Guardrail
  <2>5. MLOutcome(row, p) = IF close THEN HeuristicOutcome(row)
                            ELSE IF confidence < ConfidenceThreshold THEN "NEEDS_REVIEW" ELSE decided
    BY DEF MLOutcome
  <2>6. MLThresholdOutcome(p) = IF p < 50 THEN "APPROVE" ELSE "DECLINE"
    BY DEF MLThresholdOutcome
  <2>. HIDE DEF ml, score
  <2>7. close => served.decision = HeuristicOutcome(row) /\ served.strategy = "heuristic"
    BY <2>4, EngineIsHeuristic, ZenonT(60)
  <2>8. ~close => /\ served.decision = IF confidence < ConfidenceThreshold THEN "NEEDS_REVIEW" ELSE decided
                  /\ served.strategy = "ml"
    BY <2>4, EngineIsModel, ZenonT(60)
  <2>9. decided = "APPROVE" => p < 50
    BY <2>2, ApprovalIsLikely DEF score
  <2>. HIDE DEF close, decided, confidence, served, byRules
  <2>10. b.heuristic = byRules.decision
    BY <2>2, <2>3
  <2>11. study.path = "candidate" => b.ml = served.decision
    BY <2>2, <2>5, <2>7, <2>8
  <2>12. study.path = "official" /\ served.strategy = "ml" /\ served.decision = "APPROVE" =>
           b.ml = "APPROVE"
    BY <2>2, <2>6, <2>7, <2>8, <2>9
  <2>. QED BY <2>10, <2>11, <2>12 DEF served, byRules, ml
<1>. QED BY <1>1, BenchInvariant, PTL

-----------------------------------------------------------------------------
(* The two builders                                                        *)

(* They keep the same rows, where the first does not give up.              *)
LEMMA SameRowsKept ==
  ASSUME NEW raw, IsRaw(raw), Cleaning(raw) # "raised"
  PROVE  OfficialKeeps(raw) <=> Cleaning(raw) # "dropped"
<1>1. /\ raw.income \in Int \cup {None, Bad} /\ raw.amount \in Int \cup {None, Bad}
      /\ raw.term \in Int \cup {None, Bad} /\ raw.issued \in Int \cup {None, Bad}
  BY DEF IsRaw
<1>2. raw.issued # Bad
  BY DEF Cleaning, Malformed
<1>3. CASE raw.application # "Individual" \/ raw.issued = None \/ raw.status \notin DOMAIN StatusMap
  BY <1>2, <1>3 DEF Cleaning, OfficialKeeps, Number
<1>4. CASE ~(raw.application # "Individual" \/ raw.issued = None \/ raw.status \notin DOMAIN StatusMap)
  <2>1. raw.income # Bad /\ raw.amount # Bad /\ raw.term # Bad
    BY <1>2, <1>4 DEF Cleaning, Malformed
  <2>2. CASE None \in {raw.income, raw.amount, raw.term}
    BY <1>2, <1>4, <2>1, <2>2 DEF Cleaning, OfficialKeeps, Number, Malformed
  <2>3. CASE None \notin {raw.income, raw.amount, raw.term}
    <3>1. raw.income \in Int
      BY <1>1, <2>1, <2>3
    <3>2. OfficialKeeps(raw) <=> raw.income > 0
      BY <1>2, <1>4, <2>1, <2>3 DEF OfficialKeeps, Number
    <3>3. Cleaning(raw) = "dropped" <=> raw.income <= 0
      BY <1>2, <1>4, <2>1, <2>3 DEF Cleaning, Malformed
    <3>. QED BY <3>1, <3>2, <3>3
  <2>. QED BY <2>2, <2>3
<1>. QED BY <1>3, <1>4

(* And put them in the same split.                                         *)
LEMMA SameSplit ==
  ASSUME NEW date \in Int PROVE AssignTimeSplit(date) = OfficialSplitOf(date)
<1>. PICK year \in Int : year = date \div 12 /\ 12 * year <= date /\ date < 12 * year + 12
  BY SMT
<1>. QED BY SMT DEF AssignTimeSplit, OfficialSplitOf, TrainEnd, ValidationEnd, TestEnd

(* A row that is kept has no malformed figure.                             *)
LEMMA WellFormed ==
  ASSUME NEW raw, IsRaw(raw), Cleaning(raw) \notin {"raised", "dropped"}
  PROVE  /\ raw.income \in Int /\ raw.issued \in Int
         /\ \A f \in Measures : raw[f] # Bad
         /\ \A f \in Measures \ {"employment"} : raw[f] \in Int \cup {None}
         /\ raw.employment \in EmploymentLengths \cup {None}
<1>1. /\ \A f \in Measures : raw[f] # Bad
      /\ raw.income # Bad /\ raw.issued # Bad /\ raw.income # None /\ raw.issued # None
  BY DEF Cleaning, Malformed
<1>2. "employment" \in Measures
  BY DEF Measures
<1>. QED BY <1>1, <1>2 DEF IsRaw

(* Their ways with a blank figure agree.                                   *)
LEMMA SameNumbers ==
  ASSUME NEW v \in Int \cup {None}, v # Bad
  PROVE  Zero(Number(v)) = Zero(v) /\ Zero(v) \in Int
BY StudiesAssumption DEF Zero, Number

(* With years of employment.                                               *)
LEMMA SameYears ==
  ASSUME NEW v \in EmploymentLengths \cup {None}, v # Bad
  PROVE  Zero(ParseEmploymentYears(v)) = EmploymentTenths(v)
<1>1. None \notin Int \cup EmploymentLengths
  BY StudiesAssumption
<1>. QED BY <1>1, SMT DEF Zero, ParseEmploymentYears, EmploymentTenths, WrittenYears, EmploymentLengths

(* With a range, of which one end may be blank.                            *)
LEMMA SameMidpoint ==
  ASSUME NEW low \in Int \cup {None}, NEW high \in Int \cup {None}, low # Bad, high # Bad
  PROVE  /\ KnownEnd(Number(low), Number(high)) \in Int
         /\ Zero(Midpoint(low, high))
              = Zero(Number(low)) + Zero(Number(high)) + KnownEnd(Number(low), Number(high))
<1>1. None \notin Int /\ Number(low) = low /\ Number(high) = high
  BY StudiesAssumption DEF Number
<1>2. CASE low = None /\ high = None
  BY <1>1, <1>2 DEF Zero, Midpoint, KnownEnd
<1>3. CASE low = None /\ high # None
  <2>1. high \in Int /\ high + high \in Int /\ high + high # None
    BY <1>1, <1>3
  <2>. QED BY <1>1, <1>3, <2>1 DEF Zero, Midpoint, KnownEnd
<1>4. CASE low # None /\ high = None
  <2>1. low \in Int /\ low + low \in Int /\ low + low # None
    BY <1>1, <1>4
  <2>. QED BY <1>1, <1>4, <2>1 DEF Zero, Midpoint, KnownEnd
<1>5. CASE low # None /\ high # None
  <2>1. low \in Int /\ high \in Int /\ low + high \in Int /\ low + high # None
    BY <1>1, <1>5
  <2>. QED BY <1>1, <1>5, <2>1 DEF Zero, Midpoint, KnownEnd
<1>. QED BY <1>2, <1>3, <1>4, <1>5

(* And with a negative burden.                                             *)
LEMMA SameBurden ==
  ASSUME NEW dti \in Int \cup {None}, dti # Bad, NEW income \in Int
  PROVE  LET known == IF dti = None THEN None ELSE Higher(dti, 0)
             read  == Higher(Zero(Number(dti)), 0)
         IN  /\ Zero(known) = read
             /\ Zero(IF known = None THEN None ELSE income * known) = income * read
<1>. DEFINE known == IF dti = None THEN None ELSE Higher(dti, 0)
            read  == Higher(Zero(Number(dti)), 0)
<1>1. None \notin Int
  BY StudiesAssumption
<1>2. CASE dti = None
  BY <1>1, <1>2 DEF Zero, Number, Higher
<1>3. CASE dti # None
  <2>1. known = read /\ read \in Int
    BY <1>3 DEF Zero, Number, Higher
  <2>. HIDE DEF known, read
  <2>2. income * read \in Int /\ known # None /\ income * read # None
    BY <1>1, <2>1
  <2>3. Zero(known) = read
    BY <2>1, <2>2 DEF Zero
  <2>4. Zero(IF known = None THEN None ELSE income * known) = income * read
    BY <2>1, <2>2 DEF Zero
  <2>. QED BY <2>3, <2>4 DEF known, read
<1>. QED BY <1>2, <1>3

(* The two rows have all in common but what half a range adds to a score.  *)
LEMMA SameFigures ==
  ASSUME NEW raw, IsRaw(raw), Cleaning(raw) \notin {"raised", "dropped"}, NEW p
  PROVE  LET b == BuildFeatureRow(p, CleanRow(raw))
             r == OfficialRow(p, raw)
             fico == KnownEnd(Number(raw.ficoLow), Number(raw.ficoHigh))
             last == KnownEnd(Number(raw.lastLow), Number(raw.lastHigh))
         IN  /\ \A f \in (Numeric \ {"credit", "creditDelta"}) \cup {"position", "id", "issued", "target"} :
                  b[f] = r[f]
             /\ b.credit = r.credit + fico /\ b.creditDelta = r.creditDelta + (last - fico)
             /\ NormalizeCategory(b.home) = NormalizeCategory(r.home)
<1>. DEFINE c == CleanRow(raw)
            b == BuildFeatureRow(p, c)
            r == OfficialRow(p, raw)
            N(f) == Zero(Number(raw[f]))
            half == KnownEnd(Number(raw.ficoLow), Number(raw.ficoHigh))
            halfLast == KnownEnd(Number(raw.lastLow), Number(raw.lastHigh))
            dti == Higher(N("dti"), 0)
            start == Number(raw.earliest)
            months == IF start = None THEN 0 ELSE Higher(raw.issued - start, 0)
<1>1. /\ raw.income \in Int /\ raw.issued \in Int
      /\ \A f \in Measures \ {"employment"} : raw[f] \in Int \cup {None} /\ raw[f] # Bad
      /\ raw.employment \in EmploymentLengths \cup {None} /\ raw.employment # Bad
  BY WellFormed DEF Measures
<1>2. \A f \in Measures \ {"employment"} : N(f) = Zero(raw[f]) /\ N(f) \in Int
  BY <1>1, SameNumbers
<1>3. /\ c.id = raw.id /\ c.issued = raw.issued /\ c.defaulted = StatusMap[raw.status]
      /\ c.home = raw.home /\ c.amount = raw.amount /\ c.term = raw.term /\ c.income = raw.income
      /\ c.bcUtil = raw.bcUtil /\ c.delinquencies = raw.delinquencies /\ c.totalAcc = raw.totalAcc
      /\ c.neverDelinquent = raw.neverDelinquent /\ c.inquiries = raw.inquiries
      /\ c.taxLiens = raw.taxLiens /\ c.earliest = raw.earliest
      /\ c.fico = Midpoint(raw.ficoLow, raw.ficoHigh)
      /\ c.lastFico = Midpoint(raw.lastLow, raw.lastHigh)
      /\ c.employment = ParseEmploymentYears(raw.employment)
  BY DEF CleanRow
<1>4. Zero(c.dti) = dti /\ Zero(c.emi) = raw.income * dti
  <2>. DEFINE known == IF raw.dti = None THEN None ELSE Higher(raw.dti, 0)
  <2>1. raw.dti \in Int \cup {None} /\ raw.dti # Bad
    BY <1>1 DEF Measures
  <2>2. Zero(known) = dti /\ Zero(IF known = None THEN None ELSE raw.income * known) = raw.income * dti
    BY <1>1, <2>1, SameBurden
  <2>3. c.dti = known /\ c.emi = IF known = None THEN None ELSE raw.income * known
    BY DEF CleanRow
  <2>. HIDE DEF known, c, dti
  <2>. QED BY <2>2, <2>3
<1>5. Zero(c.employment) = EmploymentTenths(raw.employment)
  BY <1>1, <1>3, SameYears
<1>6. HistoryMonths(c) = months
  <2>1. raw.earliest # Bad
    BY <1>1 DEF Measures
  <2>. QED BY <1>3, <2>1 DEF HistoryMonths, Number
<1>7. /\ half \in Int /\ Zero(c.fico) = N("ficoLow") + N("ficoHigh") + half
      /\ halfLast \in Int /\ Zero(c.lastFico) = N("lastLow") + N("lastHigh") + halfLast
  <2>1. /\ raw.ficoLow \in Int \cup {None} /\ raw.ficoLow # Bad
        /\ raw.ficoHigh \in Int \cup {None} /\ raw.ficoHigh # Bad
        /\ raw.lastLow \in Int \cup {None} /\ raw.lastLow # Bad
        /\ raw.lastHigh \in Int \cup {None} /\ raw.lastHigh # Bad
    BY <1>1, SMTT(60) DEF Measures
  <2>. HIDE DEF c
  <2>. QED BY <1>3, <2>1, SameMidpoint
<1>8. /\ b.position = p /\ b.id = c.id /\ b.issued = c.issued /\ b.target = c.defaulted
      /\ b.home = c.home /\ b.amount = c.amount /\ b.term = c.term /\ b.income = c.income
      /\ b.emi = Zero(c.emi) /\ b.dti = Zero(c.dti)
      /\ b.amountToIncome = Ratio(c.amount, c.income)
      /\ b.emiToIncome = Ratio(Zero(c.emi), c.income)
      /\ b.credit = Zero(c.fico) /\ b.creditDelta = Zero(c.lastFico) - Zero(c.fico)
      /\ b.history = HistoryMonths(c) /\ b.employment = Zero(c.employment)
      /\ b.bcUtil = Zero(c.bcUtil) /\ b.headroom = Higher(0, 100 - Zero(c.bcUtil))
      /\ b.delinquencyBurden = Ratio(Zero(c.delinquencies), Zero(c.totalAcc))
      /\ b.accountsPerYear = Ratio(Zero(c.totalAcc), HistoryMonths(c))
      /\ b.neverDelinquent = Zero(c.neverDelinquent)
      /\ b.inquiryPressure = Ratio(Zero(c.inquiries), 6)
      /\ b.taxLien = (Zero(c.taxLiens) > 0)
  <2>. HIDE DEF c
  <2>. QED BY SMTT(60) DEF BuildFeatureRow, Delta
<1>9. /\ r.position = p /\ r.id = raw.id /\ r.issued = raw.issued /\ r.target = StatusMap[raw.status]
      /\ r.home = IF raw.home = None THEN "UNKNOWN" ELSE raw.home
      /\ r.amount = raw.amount /\ r.term = raw.term /\ r.income = raw.income
      /\ r.emi = raw.income * dti /\ r.dti = dti
      /\ r.amountToIncome = Ratio(raw.amount, raw.income)
      /\ r.emiToIncome = Ratio(raw.income * dti, raw.income)
      /\ r.credit = N("ficoLow") + N("ficoHigh")
      /\ r.creditDelta = N("lastLow") + N("lastHigh") - (N("ficoLow") + N("ficoHigh"))
      /\ r.history = months /\ r.employment = EmploymentTenths(raw.employment)
      /\ r.bcUtil = N("bcUtil") /\ r.headroom = Higher(0, 100 - N("bcUtil"))
      /\ r.delinquencyBurden = Ratio(N("delinquencies"), N("totalAcc"))
      /\ r.accountsPerYear = Ratio(N("totalAcc"), months)
      /\ r.neverDelinquent = N("neverDelinquent")
      /\ r.inquiryPressure = Ratio(N("inquiries"), 6)
      /\ r.taxLien = (N("taxLiens") > 0)
  <2>1. \A n, d : RatioSeries(n, d) = Ratio(n, d)
    BY DEF RatioSeries, Ratio
  <2>. QED BY <2>1 DEF OfficialRow
<1>10. /\ N("bcUtil") = Zero(raw.bcUtil) /\ N("delinquencies") = Zero(raw.delinquencies)
       /\ N("totalAcc") = Zero(raw.totalAcc) /\ N("neverDelinquent") = Zero(raw.neverDelinquent)
       /\ N("inquiries") = Zero(raw.inquiries) /\ N("taxLiens") = Zero(raw.taxLiens)
  BY <1>2 DEF Measures
<1>. HIDE DEF c, b, r, N, half, halfLast, dti, start, months
<1>11. b.credit = r.credit + half /\ b.creditDelta = r.creditDelta + (halfLast - half)
  <2>. DEFINE fico == N("ficoLow") + N("ficoHigh")
              last == N("lastLow") + N("lastHigh")
  <2>1. /\ b.credit = Zero(c.fico) /\ b.creditDelta = Zero(c.lastFico) - Zero(c.fico)
        /\ r.credit = fico /\ r.creditDelta = last - fico /\ fico \in Int /\ last \in Int
    <3>1. /\ N("lastLow") \in Int /\ N("lastHigh") \in Int
          /\ N("ficoLow") \in Int /\ N("ficoHigh") \in Int
      BY <1>2 DEF Measures
    <3>. QED BY <1>8, <1>9, <3>1
  <2>2. /\ Zero(c.fico) = fico + half /\ Zero(c.lastFico) = last + halfLast
        /\ half \in Int /\ halfLast \in Int
    BY <1>7
  <2>. HIDE DEF fico, last
  <2>. QED BY <2>1, <2>2
<1>12. NormalizeCategory(b.home) = NormalizeCategory(r.home)
  BY <1>3, <1>8, <1>9 DEF NormalizeCategory
<1>13. /\ b.position = r.position /\ b.id = r.id /\ b.issued = r.issued /\ b.target = r.target
       /\ b.amount = r.amount /\ b.term = r.term /\ b.income = r.income /\ b.emi = r.emi
       /\ b.dti = r.dti /\ b.amountToIncome = r.amountToIncome /\ b.emiToIncome = r.emiToIncome
       /\ b.history = r.history /\ b.employment = r.employment /\ b.bcUtil = r.bcUtil
       /\ b.headroom = r.headroom /\ b.delinquencyBurden = r.delinquencyBurden
       /\ b.accountsPerYear = r.accountsPerYear /\ b.neverDelinquent = r.neverDelinquent
       /\ b.inquiryPressure = r.inquiryPressure /\ b.taxLien = r.taxLien
  BY <1>3, <1>4, <1>5, <1>6, <1>8, <1>9, <1>10
<1>14. \A f \in (Numeric \ {"credit", "creditDelta"}) \cup {"position", "id", "issued", "target"} : b[f] = r[f]
  BY <1>13 DEF Numeric
<1>. QED BY <1>11, <1>12, <1>14 DEF b, r, c, half, halfLast

(* Hence what a file's rows have in common, the official one completed.    *)
LEMMA SameRow ==
  ASSUME NEW p \in DOMAIN study.file, IsRaw(study.file[p]),
         Cleaning(study.file[p]) \notin {"raised", "dropped"}
  PROVE  Common(BuildFeatureRow(p, CleanRow(study.file[p])))
           = Common(Completed(OfficialRow(p, study.file[p])))
<1>. DEFINE raw == study.file[p]
            b == BuildFeatureRow(p, CleanRow(raw))
            r == OfficialRow(p, raw)
            fico == KnownEnd(Number(raw.ficoLow), Number(raw.ficoHigh))
            last == KnownEnd(Number(raw.lastLow), Number(raw.lastHigh))
            full == [r EXCEPT !.credit = @ + fico, !.creditDelta = @ + (last - fico)]
            fields == Numeric \cup {"position", "id", "issued", "target"}
            scores == {"credit", "creditDelta"}
<1>1. /\ \A f \in (Numeric \ scores) \cup {"position", "id", "issued", "target"} : b[f] = r[f]
      /\ b.credit = r.credit + fico /\ b.creditDelta = r.creditDelta + (last - fico)
      /\ NormalizeCategory(b.home) = NormalizeCategory(r.home)
  BY SameFigures
<1>2. Completed(r) = full
  <2>1. r.position = p
    BY DEF OfficialRow
  <2>. HIDE DEF r
  <2>. QED BY <2>1 DEF Completed
<1>3. /\ full.credit = r.credit + fico /\ full.creditDelta = r.creditDelta + (last - fico)
      /\ full.home = r.home
      /\ \A f \in fields : f \notin scores => full[f] = r[f]
  BY DEF OfficialRow, Numeric
<1>. HIDE DEF b, r, full, fico, last
<1>4. \A f \in fields : b[f] = full[f]
  BY <1>1, <1>3
<1>. HIDE DEF fields
<1>5. [f \in fields |-> b[f]] = [f \in fields |-> full[f]]
  BY <1>4
<1>. QED BY <1>1, <1>2, <1>3, <1>5 DEF Common, fields, b, r

(* A sample as it grows with the frame.                                    *)
TakeSample(q, row, modulo) == IF ShouldKeepRow(row.id, modulo) THEN Append(q, row) ELSE q

IsSampled(f, m, frame, modulo) ==
  f = [n \in 0..m |-> IF n = 0 THEN <<>> ELSE TakeSample(f[n - 1], frame[n], modulo)]

(* The recursion of Sample has a solution.                                 *)
LEMMA Sampled ==
  ASSUME NEW frame, Len(frame) \in Nat, NEW modulo
  PROVE  \E f : /\ Sample(frame, modulo) = f[Len(frame)]
                /\ f[0] = <<>>
                /\ \A n \in 0..(Len(frame) - 1) : f[n + 1] = TakeSample(f[n], frame[n + 1], modulo)
<1>. DEFINE N == Len(frame)
            B(f, m) == IsSampled(f, m, frame, modulo)
            T == {m \in 0..N : \E f : B(f, m)}
<1>1. 0 \in T
  <2>. DEFINE f == [n \in 0..0 |-> <<>>]
  <2>1. B(f, 0)
    BY DEF IsSampled
  <2>. QED BY <2>1
<1>2. ASSUME NEW m \in 0..(N - 1), m \in T PROVE m + 1 \in T
  <2>1. PICK f : B(f, m)
    BY <1>2
  <2>. DEFINE g == [n \in 0..(m + 1) |->
                      IF n = m + 1 THEN TakeSample(f[m], frame[m + 1], modulo) ELSE f[n]]
  <2>2. ASSUME NEW n \in 0..(m + 1)
        PROVE  g[n] = IF n = 0 THEN <<>> ELSE TakeSample(g[n - 1], frame[n], modulo)
    <3>1. CASE n = 0
      BY <2>1, <3>1 DEF IsSampled
    <3>2. CASE n = m + 1
      <4>1. g[n - 1] = f[m]
        BY <3>2
      <4>. QED BY <3>2, <4>1
    <3>3. CASE n # 0 /\ n # m + 1
      <4>1. n \in 0..m /\ n - 1 \in 0..m /\ n - 1 # m + 1
        BY <3>3
      <4>2. g[n] = f[n] /\ g[n - 1] = f[n - 1]
        BY <4>1
      <4>3. f[n] = TakeSample(f[n - 1], frame[n], modulo)
        BY <2>1, <3>3, <4>1 DEF IsSampled
      <4>. QED BY <3>3, <4>2, <4>3
    <3>. QED BY <3>1, <3>2, <3>3
  <2>3. B(g, m + 1)
    BY <2>2 DEF IsSampled
  <2>. HIDE DEF g
  <2>. QED BY <2>3
<1>3. \E f : B(f, N)
  <2>1. N \in Nat /\ \A n \in 0..(N - 1) : n \in T => n + 1 \in T
    BY <1>2
  <2>. HIDE DEF T
  <2>2. \A n \in 0..N : n \in T
    BY <1>1, <2>1, Reached
  <2>3. N \in T
    BY <2>1, <2>2
  <2>. QED BY <2>3 DEF T
<1>. DEFINE f == CHOOSE f : B(f, N)
<1>4. B(f, N)
  BY <1>3
<1>5. Sample(frame, modulo) = f[N]
  BY DEF Sample, IsSampled, TakeSample
<1>. HIDE DEF f
<1>6. f[0] = <<>>
  BY <1>4 DEF IsSampled
<1>7. ASSUME NEW n \in 0..(N - 1) PROVE f[n + 1] = TakeSample(f[n], frame[n + 1], modulo)
  <2>1. n + 1 \in 0..N /\ n + 1 # 0 /\ (n + 1) - 1 = n
    OBVIOUS
  <2>. QED BY <1>4, <2>1 DEF IsSampled
<1>. QED BY <1>5, <1>6, <1>7

(* A sample is a sequence.                                                 *)
LEMMA SampleIsSeq ==
  ASSUME NEW q, IsSeq(q), NEW modulo
  PROVE  IsSeq(Sample(q, modulo))
<1>1. Len(q) \in Nat
  BY DEF IsSeq
<1>2. PICK f : /\ Sample(q, modulo) = f[Len(q)]
               /\ f[0] = <<>>
               /\ \A n \in 0..(Len(q) - 1) : f[n + 1] = TakeSample(f[n], q[n + 1], modulo)
  BY <1>1, Sampled
<1>. DEFINE T == {n \in 0..Len(q) : IsSeq(f[n])}
<1>3. 0 \in T
  <2>1. IsSeq(<<>>)
    BY DEF IsSeq
  <2>. QED BY <1>1, <1>2, <2>1
<1>4. ASSUME NEW n \in 0..(Len(q) - 1), n \in T PROVE n + 1 \in T
  <2>1. n + 1 \in 0..Len(q)
    BY <1>1
  <2>2. f[n + 1] = f[n] \/ f[n + 1] = Append(f[n], q[n + 1])
    BY <1>2 DEF TakeSample
  <2>3. IsSeq(Append(f[n], q[n + 1]))
    BY <1>4, Grown
  <2>. QED BY <1>4, <2>1, <2>2, <2>3
<1>5. \A n \in 0..(Len(q) - 1) : n \in T => n + 1 \in T
  BY <1>4
<1>. HIDE DEF T
<1>6. \A n \in 0..Len(q) : n \in T
  BY <1>1, <1>3, <1>5, Reached
<1>7. Len(q) \in T
  BY <1>1, <1>6
<1>. QED BY <1>2, <1>7 DEF T

(* A longer frame has a longer sample, or the same.                        *)
LEMMA SampleGrows ==
  ASSUME NEW q, IsSeq(q), NEW x, NEW modulo
  PROVE  Sample(Append(q, x), modulo) = TakeSample(Sample(q, modulo), x, modulo)
<1>. DEFINE r == Append(q, x)
            N == Len(q)
<1>1. /\ N \in Nat /\ Len(r) = N + 1 /\ r[N + 1] = x /\ \A i \in 1..N : r[i] = q[i]
  BY DEF IsSeq
<1>. HIDE DEF r
<1>2. PICK f : /\ Sample(q, modulo) = f[N]
               /\ f[0] = <<>>
               /\ \A n \in 0..(N - 1) : f[n + 1] = TakeSample(f[n], q[n + 1], modulo)
  BY <1>1, Sampled
<1>3. PICK g : /\ Sample(r, modulo) = g[Len(r)]
               /\ g[0] = <<>>
               /\ \A n \in 0..(Len(r) - 1) : g[n + 1] = TakeSample(g[n], r[n + 1], modulo)
  BY <1>1, Sampled
<1>. DEFINE T == {n \in 0..N : g[n] = f[n]}
<1>4. 0 \in T
  BY <1>1, <1>2, <1>3
<1>5. ASSUME NEW n \in 0..(N - 1), n \in T PROVE n + 1 \in T
  <2>1. n + 1 \in 1..N /\ n + 1 \in 0..N /\ n \in 0..(Len(r) - 1)
    BY <1>1
  <2>2. g[n + 1] = TakeSample(g[n], r[n + 1], modulo) /\ f[n + 1] = TakeSample(f[n], q[n + 1], modulo)
    BY <1>2, <1>3, <2>1
  <2>. QED BY <1>1, <1>5, <2>1, <2>2
<1>6. \A n \in 0..(N - 1) : n \in T => n + 1 \in T
  BY <1>5
<1>. HIDE DEF T
<1>7. N \in T
  <2>1. \A n \in 0..N : n \in T
    BY <1>1, <1>4, <1>6, Reached
  <2>. QED BY <1>1, <2>1
<1>8. g[N] = f[N]
  BY <1>7 DEF T
<1>9. N \in 0..(Len(r) - 1)
  BY <1>1
<1>10. g[N + 1] = TakeSample(g[N], r[N + 1], modulo)
  BY <1>3, <1>9
<1>11. Sample(r, modulo) = TakeSample(Sample(q, modulo), x, modulo)
  BY <1>1, <1>2, <1>3, <1>8, <1>10
<1>. QED BY <1>11 DEF r

(* The sample of no rows.                                                  *)
LEMMA SampleOfNone == ASSUME NEW modulo PROVE Sample(<<>>, modulo) = <<>>
<1>1. Len(<<>>) = 0
  OBVIOUS
<1>. QED BY <1>1, Sampled

(* A split of the first builder against a sample of the second's.          *)
Limit(cap, n) == IF cap = None THEN n ELSE Lower(cap, n)

Agrees(rows, sample, cap, full, s) ==
  /\ IsSeq(rows) /\ IsSeq(sample)
  /\ Len(rows) <= Len(sample)
  /\ s \in Fitted \/ ~full => Len(rows) = Limit(cap, Len(sample))
  /\ \A i \in DOMAIN rows : Common(rows[i]) = Common(Completed(sample[i]))

(* Both take the row.                                                      *)
LEMMA BothTake ==
  ASSUME NEW rows, NEW sample, NEW cap \in {None} \cup (Nat \ {0}), NEW full, NEW s,
         Agrees(rows, sample, cap, FALSE, s), ~Full(rows, cap),
         NEW x, NEW y, Common(x) = Common(Completed(y))
  PROVE  Agrees(Append(rows, x), Append(sample, y), cap, full, s)
<1>. DEFINE n == Len(rows)
            r == Append(rows, x)
            q == Append(sample, y)
<1>1. /\ n \in Nat /\ DOMAIN rows = 1..n /\ DOMAIN r = 1..(n + 1) /\ Len(r) = n + 1
      /\ r[n + 1] = x /\ \A i \in 1..n : r[i] = rows[i]
  BY DEF Agrees, IsSeq
<1>2. /\ Len(sample) \in Nat /\ Len(q) = Len(sample) + 1
      /\ q[Len(sample) + 1] = y /\ \A i \in 1..Len(sample) : q[i] = sample[i]
  BY DEF Agrees, IsSeq
<1>3. IsSeq(r) /\ IsSeq(q)
  BY Grown DEF Agrees
<1>4. n = Limit(cap, Len(sample)) /\ \A i \in 1..n : Common(rows[i]) = Common(Completed(sample[i]))
  BY <1>1 DEF Agrees
<1>. HIDE DEF n, r, q
<1>5. n = Len(sample) /\ n + 1 = Limit(cap, n + 1)
  <2>1. CASE cap = None
    BY <1>4, <2>1 DEF Limit
  <2>2. CASE cap # None
    <3>1. n < cap
      BY <1>1, <2>2 DEF Full, n
    <3>. QED BY <1>1, <1>2, <1>4, <2>2, <3>1 DEF Limit, Lower
  <2>. QED BY <2>1, <2>2
<1>6. \A i \in 1..(n + 1) : Common(r[i]) = Common(Completed(q[i]))
  <2>. TAKE i \in 1..(n + 1)
  <2>1. CASE i \in 1..n
    BY <1>1, <1>2, <1>4, <1>5, <2>1
  <2>2. CASE i = n + 1
    BY <1>1, <1>2, <1>5, <2>2
  <2>. QED BY <1>1, <2>1, <2>2
<1>7. Agrees(r, q, cap, full, s)
  BY <1>1, <1>2, <1>3, <1>5, <1>6 DEF Agrees
<1>. QED BY <1>7 DEF r, q

(* Only the second takes it: the first has no room, or reads no more.      *)
LEMMA SecondTakes ==
  ASSUME NEW rows, NEW sample, NEW cap \in {None} \cup (Nat \ {0}), NEW full, NEW s,
         Agrees(rows, sample, cap, full, s), Full(rows, cap) \/ (full /\ s \notin Fitted), NEW y
  PROVE  Agrees(rows, Append(sample, y), cap, full, s)
<1>. DEFINE n == Len(rows)
            q == Append(sample, y)
<1>1. n \in Nat /\ DOMAIN rows = 1..n /\ IsSeq(rows)
  BY DEF Agrees, IsSeq
<1>2. /\ Len(sample) \in Nat /\ Len(q) = Len(sample) + 1 /\ \A i \in 1..Len(sample) : q[i] = sample[i]
  BY DEF Agrees, IsSeq
<1>3. IsSeq(q)
  BY Grown DEF Agrees
<1>4. /\ n <= Len(sample) /\ \A i \in 1..n : Common(rows[i]) = Common(Completed(sample[i]))
      /\ s \in Fitted \/ ~full => n = Limit(cap, Len(sample))
  BY <1>1 DEF Agrees
<1>5. Full(rows, cap) <=> cap # None /\ n >= cap
  BY DEF Full
<1>. HIDE DEF n, q
<1>6. s \in Fitted \/ ~full => n = Limit(cap, Len(sample) + 1)
  BY <1>1, <1>2, <1>4, <1>5 DEF Limit, Lower
<1>7. \A i \in 1..n : i \in 1..Len(sample) /\ Common(rows[i]) = Common(Completed(q[i]))
  BY <1>1, <1>2, <1>4
<1>8. Agrees(rows, q, cap, full, s)
  BY <1>1, <1>2, <1>3, <1>4, <1>6, <1>7 DEF Agrees, n
<1>. QED BY <1>8 DEF q

(* When one more split is full, nothing is asked of the others.            *)
LEMMA FullAsksLess ==
  ASSUME NEW rows, NEW sample, NEW cap, NEW full, NEW s, Agrees(rows, sample, cap, FALSE, s)
  PROVE  Agrees(rows, sample, cap, full, s)
BY DEF Agrees

AllFull(b, cap) == \A s \in Fitted : Full(b[s], cap)

Match(b, g, cap, modulo) ==
  /\ b = [s \in Splits |-> b[s]] /\ g = [s \in Splits |-> g[s]]
  /\ \A s \in Splits : /\ IsSeq(g[s])
                       /\ Agrees(b[s], Sample(g[s], modulo), cap, AllFull(b, cap), s)

(* Nothing matches nothing.                                                *)
LEMMA EmptyMatch ==
  ASSUME NEW cap \in {None} \cup (Nat \ {0}), NEW modulo
  PROVE  Match(NoRows, NoRows, cap, modulo)
<1>1. IsSeq(<<>>) /\ Len(<<>>) = 0 /\ DOMAIN <<>> = {}
  BY DEF IsSeq
<1>2. Limit(cap, 0) = 0
  BY DEF Limit, Lower
<1>3. \A s, full : Agrees(<<>>, <<>>, cap, full, s)
  BY <1>1, <1>2 DEF Agrees
<1>. QED BY <1>1, <1>3, SampleOfNone DEF Match, NoRows

(* One more row of the file.                                               *)
LEMMA BothRead ==
  ASSUME NEW p \in DOMAIN study.file, IsFile(study.file), IsRaw(study.file[p]),
         NEW b, NEW g, NEW cap \in {None} \cup (Nat \ {0}), NEW modulo, Match(b, g, cap, modulo),
         b # Raised, RowByRow(b, p, study.file, cap, modulo) # Raised
  PROVE  Match(RowByRow(b, p, study.file, cap, modulo), FrameByFrame(g, p, study.file), cap, modulo)
<1>. DEFINE raw == study.file[p]
            c == RowByRow(b, p, study.file, cap, modulo)
            h == FrameByFrame(g, p, study.file)
            s == OfficialSplitOf(raw.issued)
            x == BuildFeatureRow(p, CleanRow(raw))
            y == OfficialRow(p, raw)
            grown == [g EXCEPT ![s] = Append(@, y)]
<1>1. h = IF ~OfficialKeeps(raw) THEN g ELSE grown
  BY DEF FrameByFrame
<1>2. OfficialKeeps(raw) => s \in Splits /\ raw.issued \in Int
  BY DatedFrame, SplitOfYear DEF IsFile
<1>3. y.id = raw.id
  BY DEF OfficialRow
<1>4. ASSUME ~OfficialKeeps(raw) PROVE Match(c, h, cap, modulo)
  <2>1. c = b
    <3>1. CASE AllFull(b, cap)
      BY <3>1 DEF RowByRow, AllFull
    <3>2. CASE ~AllFull(b, cap)
      <4>1. c = ReadRow(b, p, raw, cap, modulo)
        BY <3>2, SMTT(60) DEF RowByRow, AllFull
      <4>2. Cleaning(raw) # "raised"
        BY <4>1 DEF ReadRow
      <4>3. Cleaning(raw) = "dropped"
        BY <1>4, <4>2, SameRowsKept
      <4>. QED BY <4>1, <4>3 DEF ReadRow
    <3>. QED BY <3>1, <3>2
  <2>. QED BY <1>1, <1>4, <2>1
<1>5. ASSUME OfficialKeeps(raw) PROVE Match(c, h, cap, modulo)
  <2>. DEFINE k == Sample(g[s], modulo)
  <2>1. s \in Splits /\ raw.issued \in Int
    BY <1>2, <1>5
  <2>. HIDE DEF h, s, x, y, c
  <2>8. h = grown
    BY <1>1, <1>5
  <2>2. /\ h = [t \in Splits |-> h[t]]
        /\ \A t \in Splits : IsSeq(h[t]) /\ (t # s => h[t] = g[t])
        /\ Sample(h[s], modulo) = TakeSample(k, y, modulo)
    <3>1. h = [t \in Splits |-> IF t = s THEN Append(g[s], y) ELSE g[t]]
      BY <2>8 DEF Match
    <3>2. h = [t \in Splits |-> h[t]] /\ \A t \in Splits : h[t] = IF t = s THEN Append(g[s], y) ELSE g[t]
      BY <3>1
    <3>3. \A t \in Splits : IsSeq(g[t])
      BY DEF Match
    <3>4. IsSeq(Append(g[s], y)) /\ Sample(Append(g[s], y), modulo) = TakeSample(k, y, modulo)
      BY <2>1, <3>3, Grown, SampleGrows
    <3>. HIDE DEF k
    <3>. QED BY <2>1, <3>2, <3>3, <3>4
  <2>3. /\ b = [t \in Splits |-> b[t]]
        /\ \A t \in Splits : Agrees(b[t], Sample(g[t], modulo), cap, AllFull(b, cap), t)
    BY DEF Match
  <2>4. Sample(h[s], modulo) = IF ShouldKeepRow(raw.id, modulo) THEN Append(k, y) ELSE k
    BY <1>3, <2>2 DEF TakeSample
  <2>5. CASE c = b /\ (\/ ~ShouldKeepRow(raw.id, modulo)
                       \/ Full(b[s], cap)
                       \/ AllFull(b, cap) /\ s \notin Fitted)
    <3>1. Agrees(b[s], k, cap, AllFull(b, cap), s)
      BY <2>1, <2>3
    <3>2. Agrees(b[s], Sample(h[s], modulo), cap, AllFull(b, cap), s)
      BY <2>4, <2>5, <3>1, SecondTakes
    <3>3. \A t \in Splits : Agrees(b[t], Sample(h[t], modulo), cap, AllFull(b, cap), t)
      BY <2>2, <2>3, <3>2
    <3>. QED BY <2>2, <2>3, <2>5, <3>3 DEF Match
  <2>6. CASE AllFull(b, cap)
    <3>1. c = b
      BY <2>6 DEF RowByRow, AllFull, c
    <3>2. Full(b[s], cap) \/ s \notin Fitted
      BY <2>6 DEF AllFull
    <3>. QED BY <2>5, <2>6, <3>1, <3>2
  <2>7. CASE ~AllFull(b, cap)
    <3>1. c = ReadRow(b, p, raw, cap, modulo)
      BY <2>7 DEF RowByRow, AllFull, c
    <3>2. Cleaning(raw) # "raised"
      BY <3>1 DEF ReadRow, c
    <3>3. Cleaning(raw) \notin {"raised", "dropped"}
      BY <1>5, <3>2, SameRowsKept
    <3>4. /\ CleanRow(raw).id = raw.id /\ CleanRow(raw).issued = raw.issued
          /\ AssignTimeSplit(raw.issued) = s
      BY <2>1, SameSplit DEF CleanRow, s
    <3>5. c = IF Full(b[s], cap) \/ ~ShouldKeepRow(raw.id, modulo) THEN b
              ELSE [b EXCEPT ![s] = Append(@, x)]
      BY <3>1, <3>3, <3>4 DEF ReadRow, x
    <3>6. CASE Full(b[s], cap) \/ ~ShouldKeepRow(raw.id, modulo)
      BY <2>5, <3>5, <3>6
    <3>7. CASE ~Full(b[s], cap) /\ ShouldKeepRow(raw.id, modulo)
      <4>1. c = [t \in Splits |-> IF t = s THEN Append(b[s], x) ELSE b[t]]
        BY <2>3, <3>5, <3>7
      <4>2. /\ c = [t \in Splits |-> c[t]]
            /\ \A t \in Splits : c[t] = IF t = s THEN Append(b[s], x) ELSE b[t]
        BY <4>1
      <4>3. Common(x) = Common(Completed(y))
        BY <3>3, SameRow DEF x, y
      <4>4. \A t \in Splits : Agrees(b[t], Sample(g[t], modulo), cap, FALSE, t)
        BY <2>3, <2>7 DEF Agrees
      <4>5. Agrees(c[s], Sample(h[s], modulo), cap, AllFull(c, cap), s)
        <5>1. Agrees(Append(b[s], x), Append(k, y), cap, AllFull(c, cap), s)
          BY <2>1, <3>7, <4>3, <4>4, BothTake
        <5>. QED BY <2>1, <2>4, <3>7, <4>2, <5>1
      <4>6. \A t \in Splits : t # s => Agrees(c[t], Sample(h[t], modulo), cap, AllFull(c, cap), t)
        BY <2>2, <4>2, <4>4, FullAsksLess
      <4>. QED BY <2>2, <4>2, <4>5, <4>6 DEF Match
    <3>. QED BY <3>6, <3>7
  <2>. QED BY <2>6, <2>7
<1>. QED BY <1>4, <1>5

(* The two builders side by side over a whole file.                        *)
LEMMA BuildersMatch ==
  ASSUME IsFile(study.file), \A p \in DOMAIN study.file : IsRaw(study.file[p]),
         NEW cap \in {None} \cup (Nat \ {0}), NEW modulo,
         BuildSplits(study.file, cap, modulo) # Raised
  PROVE  Match(BuildSplits(study.file, cap, modulo), OfficialSplits(study.file), cap, modulo)
<1>. DEFINE N == Len(study.file)
<1>1. N \in Nat /\ DOMAIN study.file = 1..N
  BY DEF IsFile
<1>2. PICK f : /\ BuildSplits(study.file, cap, modulo) = f[N]
               /\ f[0] = NoRows
               /\ \A n \in 0..(N - 1) : f[n + 1] = RowByRow(f[n], n + 1, study.file, cap, modulo)
  BY <1>1, Built
<1>3. PICK g : /\ OfficialSplits(study.file) = g[N]
               /\ g[0] = NoRows
               /\ \A n \in 0..(N - 1) : g[n + 1] = FrameByFrame(g[n], n + 1, study.file)
  BY <1>1, Taken
<1>. DEFINE T == {n \in 0..N : f[n] = Raised \/ Match(f[n], g[n], cap, modulo)}
<1>4. 0 \in T
  BY <1>1, <1>2, <1>3, EmptyMatch, SMTT(60)
<1>5. ASSUME NEW n \in 0..(N - 1), n \in T PROVE n + 1 \in T
  <2>1. n + 1 \in DOMAIN study.file /\ n + 1 \in 0..N
    BY <1>1
  <2>2. /\ f[n + 1] = RowByRow(f[n], n + 1, study.file, cap, modulo)
        /\ g[n + 1] = FrameByFrame(g[n], n + 1, study.file)
    BY <1>2, <1>3
  <2>3. CASE f[n] = Raised
    BY <2>1, <2>2, <2>3 DEF RowByRow
  <2>4. CASE f[n] # Raised /\ f[n + 1] # Raised
    <3>1. Match(f[n], g[n], cap, modulo)
      BY <1>5, <2>4
    <3>2. Match(f[n + 1], g[n + 1], cap, modulo)
      BY <2>1, <2>2, <2>4, <3>1, BothRead
    <3>. QED BY <2>1, <3>2
  <2>. QED BY <2>1, <2>3, <2>4
<1>6. \A n \in 0..(N - 1) : n \in T => n + 1 \in T
  BY <1>5
<1>. HIDE DEF T
<1>7. N \in T
  <2>1. \A n \in 0..N : n \in T
    BY <1>1, <1>4, <1>6, Reached
  <2>. QED BY <1>1, <2>1
<1>. QED BY <1>2, <1>3, <1>7 DEF T

(* What was prepared is what the file gives.                               *)
PrepInd ==
  /\ study \in Studies \cup {NoStudy}
  /\ study # NoStudy /\ study.path = "candidate" /\ stage \notin {"prepare", "raised"} =>
       splits # Raised /\ splits = BuildSplits(study.file, study.cap, study.modulo)

LEMMA PrepUntouched ==
  ASSUME PrepInd, UNCHANGED <<study, splits>>,
         stage' \in {"prepare", "raised"} \/ stage \notin {"prepare", "raised"}
  PROVE  PrepInd'
BY DEF PrepInd

LEMMA PrepKept == ASSUME PrepInd, [Next]_vars PROVE PrepInd'
<1>1. CASE UNCHANGED pipelineVars
  <2>1. UNCHANGED <<study, splits, stage>>
    BY <1>1 DEF pipelineVars
  <2>. QED BY <2>1 DEF PrepInd
<1>2. CASE PipelineNext
  <2>1. CASE Fail
    BY <2>1, PrepUntouched DEF Fail
  <2>2. CASE Prepare /\ ~Fail
    <3>1. /\ study' = study
          /\ study.path # "official" => /\ BuildSplits(study.file, study.cap, study.modulo) # Raised
                                        /\ splits' = BuildSplits(study.file, study.cap, study.modulo)
      BY <2>2 DEF Prepare
    <3>2. study.path = "candidate" => study.path # "official"
      OBVIOUS
    <3>. QED BY <3>1, <3>2 DEF PrepInd
  <2>3. CASE SearchStep
    BY <2>3, PrepUntouched DEF SearchStep
  <2>4. CASE SelectBest
    BY <2>4, PrepUntouched DEF SelectBest
  <2>5. CASE FitForCalibration
    BY <2>5, PrepUntouched DEF FitForCalibration
  <2>6. CASE CalibrateOfficial
    BY <2>6, PrepUntouched DEF CalibrateOfficial
  <2>7. CASE Refit
    BY <2>7, PrepUntouched DEF Refit
  <2>8. CASE CalibrateManifest /\ ~Fail
    BY <2>8, PrepUntouched DEF CalibrateManifest
  <2>9. CASE EvaluateManifest /\ ~Fail
    BY <2>9, PrepUntouched DEF EvaluateManifest
  <2>10. CASE EvaluateOfficial
    BY <2>10, PrepUntouched DEF EvaluateOfficial
  <2>. QED BY <1>2, <2>1, <2>2, <2>3, <2>4, <2>5, <2>6, <2>7, <2>8, <2>9, <2>10 DEF PipelineNext
<1>3. CASE BenchmarkNext
  <2>1. UNCHANGED pipelineVars
    BY <1>3 DEF BenchmarkNext, BenchmarkManifest, BenchmarkOfficial
  <2>. QED BY <1>1, <2>1
<1>4. CASE UNCHANGED vars
  BY <1>1, <1>4 DEF vars
<1>. QED BY <1>1, <1>2, <1>3, <1>4 DEF Next

LEMMA PrepInvariant == Spec => []PrepInd
<1>1. Init => PrepInd
  BY DEF Init, PipelineInit, PrepInd
<1>2. PrepInd /\ [Next]_vars => PrepInd'
  BY PrepKept
<1>. QED BY <1>1, <1>2, PTL DEF Spec

(* The two builders, one row by row and one over frames, train on the same *)
(* loans with the same labels, features and splits, in the same order, for *)
(* any file that the first gets through, any cap and any sample; the       *)
(* scores of a loan with half a FICO range differ by the known end halved. *)
THEOREM BuildersAgreeHolds == Spec => []BuildersAgree
<1>1. ASSUME PrepInd, study.path = "candidate", stage \notin {"prepare", "raised"}
      PROVE  Match(splits, OfficialSplits(study.file), study.cap, study.modulo)
  <2>1. study # NoStudy
    BY <1>1 DEF NoStudy
  <2>2. /\ study \in Studies /\ splits # Raised
        /\ splits = BuildSplits(study.file, study.cap, study.modulo)
    BY <1>1, <2>1 DEF PrepInd
  <2>3. IsFile(study.file) /\ study.cap \in {None} \cup (Nat \ {0})
        /\ \A p \in DOMAIN study.file : IsRaw(study.file[p])
    BY <2>2, StudyFile, StudiesAssumption
  <2>. QED BY <2>2, <2>3, BuildersMatch
<1>2. PrepInd => BuildersAgree
  <2>. SUFFICES ASSUME PrepInd, study.path = "candidate", stage \notin {"prepare", "raised"},
                       NEW s \in Splits
                PROVE  LET sample == Sample(OfficialSplits(study.file)[s], study.modulo)
                       IN  /\ Len(splits[s]) <= Len(sample)
                           /\ s \in Fitted =>
                                Len(splits[s]) = IF study.cap = None THEN Len(sample)
                                                 ELSE Lower(study.cap, Len(sample))
                           /\ \A i \in DOMAIN splits[s] : Common(splits[s][i]) = Common(Completed(sample[i]))
    BY DEF BuildersAgree
  <2>. DEFINE sample == Sample(OfficialSplits(study.file)[s], study.modulo)
  <2>1. Agrees(splits[s], sample, study.cap, AllFull(splits, study.cap), s)
    BY <1>1 DEF Match
  <2>. HIDE DEF sample
  <2>2. /\ Len(splits[s]) <= Len(sample)
        /\ s \in Fitted => Len(splits[s]) = Limit(study.cap, Len(sample))
        /\ \A i \in DOMAIN splits[s] : Common(splits[s][i]) = Common(Completed(sample[i]))
    BY <2>1 DEF Agrees
  <2>. QED BY <2>2 DEF Limit, sample
<1>. QED BY <1>2, PrepInvariant, PTL

-----------------------------------------------------------------------------
(* The experiment                                                          *)

Share(f, k) == outcomes[k] * f[k]

(* The recursion of Total.                                                 *)
IsTotal(g, f, sets) ==
  g = [s \in sets |-> IF s = {} THEN 0 ELSE Share(f, Some(s)) + g[s \ {Some(s)}]]

(* There are finitely many kinds of outcomes.                              *)
LEMMA KindsFinite == IsFiniteSet(X!Kinds)
<1>. DEFINE Rows == [arm : X!Arms, decision : {"APPROVE", "DECLINE"}, defaulted : BOOLEAN, amount : Amounts]
            P == (X!Arms \X {"APPROVE", "DECLINE"}) \X (BOOLEAN \X Amounts)
            g == [k \in Rows |-> <<<<k.arm, k.decision>>, <<k.defaulted, k.amount>>>>]
<1>1. IsFiniteSet(P)
  <2>1. IsFiniteSet(X!Arms) /\ IsFiniteSet({"APPROVE", "DECLINE"}) /\ IsFiniteSet(BOOLEAN)
    <3>1. \A x, y : {x, y} = {x} \cup {y} /\ IsFiniteSet({x})
      BY FS_Singleton
    <3>2. ASSUME NEW x, NEW y PROVE IsFiniteSet({x, y})
      <4>1. IsFiniteSet({x} \cup {y})
        BY <3>1, FS_AddElement
      <4>. QED BY <3>1, <4>1
    <3>3. BOOLEAN = {TRUE, FALSE}
      OBVIOUS
    <3>. QED BY <3>2, <3>3 DEF X!Arms
  <2>2. IsFiniteSet(X!Arms \X {"APPROVE", "DECLINE"}) /\ IsFiniteSet(BOOLEAN \X Amounts)
    BY <2>1, FS_Product, ExperimentAssumption
  <2>. QED BY <2>2, FS_Product
<1>2. g \in Injection(Rows, P)
  <2>1. g \in [Rows -> P]
    OBVIOUS
  <2>2. ASSUME NEW j \in Rows, NEW k \in Rows, g[j] = g[k] PROVE j = k
    <3>1. j.arm = k.arm /\ j.decision = k.decision /\ j.defaulted = k.defaulted /\ j.amount = k.amount
      BY <2>2
    <3>. QED BY <3>1
  <2>. QED BY <2>1, <2>2 DEF Injection, IsInjective
<1>3. IsFiniteSet(Rows)
  <2>. HIDE DEF Rows, P, g
  <2>. QED BY <1>1, <1>2, FS_Injection
<1>4. X!Kinds \in SUBSET Rows
  BY DEF X!Kinds
<1>. HIDE DEF Rows
<1>. QED BY <1>3, <1>4, FS_Subset

(* Taking a kind away, and induction over sets of kinds.                   *)
LEMMA Less ==
  ASSUME NEW s \in SUBSET X!Kinds
  PROVE  /\ IsFiniteSet(s) /\ Cardinality(s) \in Nat
         /\ s # {} => Some(s) \in s
         /\ \A k \in s : s \ {k} \in SUBSET X!Kinds /\ Cardinality(s \ {k}) = Cardinality(s) - 1
BY KindsFinite, SmallerSet

LEMMA BySize ==
  ASSUME NEW T, \A s \in SUBSET X!Kinds : (\A k \in s : s \ {k} \in T) => s \in T
  PROVE  \A s \in SUBSET X!Kinds : s \in T
BY KindsFinite, ByElements

(* The recursion of Total has a solution.                                  *)
LEMMA Totals ==
  ASSUME NEW f
  PROVE  \E g : /\ \A s \in SUBSET X!Kinds :
                     g[s] = IF s = {} THEN 0 ELSE Share(f, Some(s)) + g[s \ {Some(s)}]
                /\ \A s : X!Total(f, s) = g[s]
<1>. DEFINE N == Cardinality(X!Kinds)
            Sized(n) == {s \in SUBSET X!Kinds : Cardinality(s) <= n}
            T == {n \in 0..N : \E g : IsTotal(g, f, Sized(n))}
<1>1. N \in Nat /\ \A s \in SUBSET X!Kinds : Cardinality(s) \in 0..N
  BY KindsFinite, FS_CardinalityType, FS_Subset, Less
<1>2. 0 \in T
  <2>. DEFINE g == [s \in Sized(0) |-> 0]
  <2>1. \A s \in Sized(0) : s = {}
    BY Less, FS_EmptySet
  <2>2. g = [s \in Sized(0) |-> IF s = {} THEN 0 ELSE Share(f, Some(s)) + g[s \ {Some(s)}]]
    BY <2>1
  <2>3. IsTotal(g, f, Sized(0))
    BY <2>2 DEF IsTotal
  <2>. HIDE DEF g, Sized
  <2>. QED BY <1>1, <2>3
<1>3. ASSUME NEW m \in 0..(N - 1), m \in T PROVE m + 1 \in T
  <2>1. PICK g : IsTotal(g, f, Sized(m))
    BY <1>3
  <2>. DEFINE h == [s \in Sized(m + 1) |->
                      IF Cardinality(s) <= m THEN g[s] ELSE Share(f, Some(s)) + g[s \ {Some(s)}]]
  <2>2. ASSUME NEW s \in Sized(m + 1)
        PROVE  h[s] = IF s = {} THEN 0 ELSE Share(f, Some(s)) + h[s \ {Some(s)}]
    <3>1. /\ s \in SUBSET X!Kinds /\ Cardinality(s) \in Nat /\ Cardinality(s) <= m + 1
          /\ s # {} => /\ s \ {Some(s)} \in SUBSET X!Kinds
                       /\ Cardinality(s \ {Some(s)}) = Cardinality(s) - 1
      BY Less
    <3>2. s # {} => /\ s \ {Some(s)} \in Sized(m) /\ s \ {Some(s)} \in Sized(m + 1)
                    /\ Cardinality(s \ {Some(s)}) <= m
      BY <3>1
    <3>3. s # {} => h[s \ {Some(s)}] = g[s \ {Some(s)}]
      BY <3>2
    <3>4. CASE Cardinality(s) <= m
      <4>1. s \in Sized(m) /\ h[s] = g[s]
        BY <3>1, <3>4
      <4>. HIDE DEF h, Sized
      <4>2. g[s] = IF s = {} THEN 0 ELSE Share(f, Some(s)) + g[s \ {Some(s)}]
        BY <2>1, <4>1 DEF IsTotal
      <4>. QED BY <3>3, <4>1, <4>2
    <3>5. CASE ~(Cardinality(s) <= m)
      <4>1. s # {}
        BY <3>5, FS_EmptySet
      <4>2. h[s] = Share(f, Some(s)) + g[s \ {Some(s)}]
        BY <3>5
      <4>. HIDE DEF h
      <4>. QED BY <3>3, <4>1, <4>2
    <3>. QED BY <3>4, <3>5
  <2>3. IsTotal(h, f, Sized(m + 1))
    <3>. HIDE DEF Sized
    <3>. QED BY <2>2 DEF IsTotal
  <2>4. m + 1 \in 0..N
    BY <1>1
  <2>. HIDE DEF h, Sized
  <2>. QED BY <2>3, <2>4
<1>4. Sized(N) = SUBSET X!Kinds
  BY <1>1
<1>5. \E g : IsTotal(g, f, SUBSET X!Kinds)
  <2>1. \A n \in 0..(N - 1) : n \in T => n + 1 \in T
    BY <1>3
  <2>. HIDE DEF T, Sized
  <2>2. \A n \in 0..N : n \in T
    BY <1>1, <1>2, <2>1, Reached
  <2>3. N \in T
    BY <1>1, <2>2
  <2>. QED BY <1>4, <2>3 DEF T
<1>. DEFINE g == CHOOSE g : IsTotal(g, f, SUBSET X!Kinds)
<1>6. IsTotal(g, f, SUBSET X!Kinds)
  BY <1>5
<1>7. ASSUME NEW s PROVE X!Total(f, s) = g[s]
  BY DEF X!Total, IsTotal, Share, Some
<1>. HIDE DEF g
<1>8. \A s \in SUBSET X!Kinds : g[s] = IF s = {} THEN 0 ELSE Share(f, Some(s)) + g[s \ {Some(s)}]
  BY <1>6 DEF IsTotal
<1>. QED BY <1>7, <1>8

(* What the outcomes are and what was concluded from them.                 *)
ExperimentInd ==
  /\ outcomes \in [X!Kinds -> Nat]
  /\ analysis \notin {None, Raised} =>
       LET control   == X!ComputeMetrics("heuristic")
           treatment == X!ComputeMetrics("ml")
       IN  /\ analysis.profitDelta = X!Minus(treatment.profit, control.profit)
           /\ analysis.defaultDelta = X!Minus(treatment.default, control.default)
           /\ analysis.approvalDelta = X!Minus(treatment.approval, control.approval)
           /\ analysis.sampleSize = [a \in X!Arms |-> X!Count(X!Of(a))]
           /\ verdict # None => verdict = X!Recommendation(analysis)
  /\ analysis = None => verdict = None

(* A sum of whole numbers.                                                 *)
LEMMA TotalIsInt ==
  ASSUME outcomes \in [X!Kinds -> Nat], NEW f \in [X!Kinds -> Int], NEW s \in SUBSET X!Kinds
  PROVE  X!Total(f, s) \in Int
<1>1. PICK g : /\ \A u \in SUBSET X!Kinds :
                    g[u] = IF u = {} THEN 0 ELSE Share(f, Some(u)) + g[u \ {Some(u)}]
               /\ \A u : X!Total(f, u) = g[u]
  BY Totals
<1>2. \A k \in X!Kinds : Share(f, k) \in Int
  BY DEF Share
<1>. DEFINE T == {u \in SUBSET X!Kinds : g[u] \in Int}
<1>3. ASSUME NEW u \in SUBSET X!Kinds, \A k \in u : u \ {k} \in T PROVE u \in T
  <2>1. CASE u = {}
    <3>1. g[u] = 0
      BY <1>1, <2>1
    <3>. QED BY <3>1
  <2>2. CASE u # {}
    <3>1. Some(u) \in u /\ g[u \ {Some(u)}] \in Int /\ Share(f, Some(u)) \in Int
      BY <1>2, <1>3, <2>2, Less
    <3>. QED BY <1>1, <2>2, <3>1
  <2>. QED BY <2>1, <2>2
<1>4. \A u \in SUBSET X!Kinds : (\A k \in u : u \ {k} \in T) => u \in T
  BY <1>3
<1>. HIDE DEF T
<1>5. s \in T
  BY <1>4, BySize
<1>. QED BY <1>1, <1>5 DEF T

(* A sum is the same in any order.                                         *)
LEMMA AnyOrder ==
  ASSUME outcomes \in [X!Kinds -> Nat], NEW f \in [X!Kinds -> Int],
         NEW s \in SUBSET X!Kinds, NEW k \in s
  PROVE  X!Total(f, s) = Share(f, k) + X!Total(f, s \ {k})
<1>1. PICK g : /\ \A u \in SUBSET X!Kinds :
                    g[u] = IF u = {} THEN 0 ELSE Share(f, Some(u)) + g[u \ {Some(u)}]
               /\ \A u : X!Total(f, u) = g[u]
  BY Totals
<1>2. /\ \A j \in X!Kinds : Share(f, j) \in Int
      /\ \A u \in SUBSET X!Kinds : g[u] \in Int
  BY <1>1, TotalIsInt DEF Share
<1>. DEFINE T == {u \in SUBSET X!Kinds : \A j \in u : g[u] = Share(f, j) + g[u \ {j}]}
<1>3. ASSUME NEW u \in SUBSET X!Kinds, \A j \in u : u \ {j} \in T PROVE u \in T
  <2>. SUFFICES ASSUME NEW j \in u PROVE g[u] = Share(f, j) + g[u \ {j}]
    OBVIOUS
  <2>. DEFINE c == Some(u)
  <2>1. c \in u /\ g[u] = Share(f, c) + g[u \ {c}]
    BY <1>1, Less
  <2>. HIDE DEF c
  <2>2. CASE j = c
    BY <2>1, <2>2
  <2>3. CASE j # c
    <3>1. g[u \ {c}] = Share(f, j) + g[(u \ {c}) \ {j}]
      BY <1>3, <2>1, <2>3
    <3>2. g[u \ {j}] = Share(f, c) + g[(u \ {j}) \ {c}]
      BY <1>3, <2>1, <2>3
    <3>3. (u \ {c}) \ {j} = (u \ {j}) \ {c} /\ (u \ {j}) \ {c} \in SUBSET X!Kinds
      OBVIOUS
    <3>4. /\ Share(f, j) \in Int /\ Share(f, c) \in Int /\ g[(u \ {j}) \ {c}] \in Int
      BY <1>2, <2>1, <3>3
    <3>. DEFINE r == g[(u \ {j}) \ {c}]
    <3>5. /\ g[u] = Share(f, c) + (Share(f, j) + r) /\ g[u \ {j}] = Share(f, c) + r /\ r \in Int
      BY <2>1, <3>1, <3>2, <3>3, <3>4
    <3>. HIDE DEF r
    <3>. QED BY <3>4, <3>5
  <2>. QED BY <2>2, <2>3
<1>4. \A u \in SUBSET X!Kinds : (\A j \in u : u \ {j} \in T) => u \in T
  BY <1>3
<1>. HIDE DEF T
<1>5. s \in T
  BY <1>4, BySize
<1>. QED BY <1>1, <1>5 DEF T

(* The profit of an arm is the profit of its approvals.                    *)
LEMMA ProfitsAgree ==
  ASSUME outcomes \in [X!Kinds -> Nat], NEW arm \in X!Arms
  PROVE  X!Total([k \in X!Kinds |-> X!ProfitOf(k)], X!Of(arm))
           = X!Total([k \in X!Kinds |-> X!SimulatedProfit(k)], X!Approvals(arm))
<1>. DEFINE p == [k \in X!Kinds |-> X!ProfitOf(k)]
            q == [k \in X!Kinds |-> X!SimulatedProfit(k)]
            A == X!Approvals(arm)
            T == {s \in SUBSET X!Kinds : s \subseteq X!Of(arm) => X!Total(p, s) = X!Total(q, s \cap A)}
<1>1. \A k \in X!Kinds : X!SimulatedProfit(k) \in Int /\ X!ProfitOf(k) \in Int
  <2>1. ASSUME NEW k \in X!Kinds PROVE X!SimulatedProfit(k) \in Int /\ X!ProfitOf(k) \in Int
    <3>1. k.amount \in Nat
      BY ExperimentAssumption DEF X!Kinds
    <3>. QED BY <3>1 DEF X!SimulatedProfit, X!ProfitOf
  <2>. QED BY <2>1
<1>2. p \in [X!Kinds -> Int] /\ q \in [X!Kinds -> Int]
  BY <1>1
<1>3. \A k \in X!Of(arm) : /\ k \in X!Kinds
                           /\ k \in A => Share(p, k) = Share(q, k)
                           /\ k \notin A => Share(p, k) = 0
  <2>1. ASSUME NEW k \in X!Of(arm)
        PROVE  /\ k \in X!Kinds
               /\ k \in A => Share(p, k) = Share(q, k)
               /\ k \notin A => Share(p, k) = 0
    <3>1. k \in X!Kinds /\ outcomes[k] \in Nat
      BY DEF X!Of
    <3>2. k \in A <=> k.decision = "APPROVE"
      BY DEF X!Approvals
    <3>3. p[k] = X!ProfitOf(k) /\ q[k] = X!SimulatedProfit(k)
      BY <3>1
    <3>. HIDE DEF p, q, A
    <3>. QED BY <3>1, <3>2, <3>3 DEF Share, X!ProfitOf
  <2>. QED BY <2>1
<1>4. A \subseteq X!Of(arm) /\ X!Of(arm) \in SUBSET X!Kinds
  BY DEF X!Approvals, X!Of
<1>. HIDE DEF p, q, A
<1>5. \A f : X!Total(f, {}) = 0
  BY Totals
<1>6. ASSUME NEW s \in SUBSET X!Kinds, \A k \in s : s \ {k} \in T PROVE s \in T
  <2>. SUFFICES ASSUME s \subseteq X!Of(arm) PROVE X!Total(p, s) = X!Total(q, s \cap A)
    OBVIOUS
  <2>1. CASE s = {}
    <3>1. s \cap A = {}
      BY <2>1
    <3>. QED BY <1>5, <2>1, <3>1
  <2>2. CASE s # {}
    <3>1. PICK k \in s : TRUE
      BY <2>2
    <3>2. X!Total(p, s) = Share(p, k) + X!Total(p, s \ {k})
      BY <1>2, AnyOrder
    <3>3. X!Total(p, s \ {k}) = X!Total(q, (s \ {k}) \cap A)
      BY <1>6
    <3>4. X!Total(q, (s \ {k}) \cap A) \in Int
      BY <1>2, TotalIsInt
    <3>5. CASE k \in A
      <4>1. (s \cap A) \ {k} = (s \ {k}) \cap A /\ k \in s \cap A /\ s \cap A \in SUBSET X!Kinds
        BY <3>5
      <4>2. X!Total(q, s \cap A) = Share(q, k) + X!Total(q, (s \cap A) \ {k})
        BY <1>2, <4>1, AnyOrder
      <4>. QED BY <1>3, <3>2, <3>3, <3>5, <4>1, <4>2
    <3>6. CASE k \notin A
      <4>1. (s \ {k}) \cap A = s \cap A
        BY <3>6
      <4>. QED BY <1>3, <3>2, <3>3, <3>4, <3>6, <4>1
    <3>. QED BY <3>5, <3>6
  <2>. QED BY <2>1, <2>2
<1>7. \A s \in SUBSET X!Kinds : (\A k \in s : s \ {k} \in T) => s \in T
  BY <1>6
<1>. HIDE DEF T
<1>8. X!Of(arm) \in T
  BY <1>4, <1>7, BySize
<1>9. X!Of(arm) \cap A = A
  BY <1>4
<1>. QED BY <1>4, <1>8, <1>9 DEF T, p, q, A

(* While the outcomes stay, so do the figures made of them.                *)
LEMMA FiguresStay ==
  ASSUME UNCHANGED outcomes
  PROVE  /\ \A arm \in X!Arms : UNCHANGED X!ComputeMetrics(arm)
         /\ UNCHANGED [a \in X!Arms |-> X!Count(X!Of(a))]
<1>1. ASSUME NEW CONSTANT arm \in X!Arms PROVE UNCHANGED X!ComputeMetrics(arm)
  BY DEF X!ComputeMetrics, X!Count, X!Total
<1>2. UNCHANGED [a \in X!Arms |-> X!Count(X!Of(a))]
  BY DEF X!Count, X!Total
<1>. QED BY <1>1, <1>2

LEMMA ExperimentStarts == ASSUME Init PROVE ExperimentInd
BY DEF Init, X!ExperimentInit, ExperimentInd

LEMMA ExperimentUntouched ==
  ASSUME ExperimentInd, UNCHANGED <<outcomes, analysis, verdict>>
  PROVE  ExperimentInd'
<1>1. /\ UNCHANGED X!ComputeMetrics("heuristic") /\ UNCHANGED X!ComputeMetrics("ml")
      /\ UNCHANGED [a \in X!Arms |-> X!Count(X!Of(a))]
  BY FiguresStay DEF X!Arms
<1>. QED BY <1>1 DEF ExperimentInd

LEMMA ExperimentKept == ASSUME ExperimentInd, [Next]_vars PROVE ExperimentInd'
<1>1. CASE UNCHANGED <<outcomes, analysis, verdict>>
  BY <1>1, ExperimentUntouched
<1>2. CASE X!Collect
  <2>1. /\ analysis = None /\ UNCHANGED <<analysis, verdict>>
        /\ \E k \in X!Kinds : outcomes' = [outcomes EXCEPT ![k] = @ + 1]
    BY <1>2 DEF X!Collect
  <2>2. outcomes' \in [X!Kinds -> Nat]
    BY <2>1 DEF ExperimentInd
  <2>. QED BY <2>1, <2>2 DEF ExperimentInd
<1>3. CASE X!Analyze
  <2>1. UNCHANGED <<outcomes, verdict>> /\ analysis = None
    BY <1>3 DEF X!Analyze
  <2>2. /\ UNCHANGED X!ComputeMetrics("heuristic") /\ UNCHANGED X!ComputeMetrics("ml")
        /\ UNCHANGED [a \in X!Arms |-> X!Count(X!Of(a))]
    BY <2>1, FiguresStay DEF X!Arms
  <2>. DEFINE control   == X!ComputeMetrics("heuristic")
              treatment == X!ComputeMetrics("ml")
              sizes     == [a \in X!Arms |-> X!Count(X!Of(a))]
  <2>3. \/ analysis' = Raised
        \/ \E ci, significant :
             analysis' = [profitDelta   |-> X!Minus(treatment.profit, control.profit),
                          defaultDelta  |-> X!Minus(treatment.default, control.default),
                          approvalDelta |-> X!Minus(treatment.approval, control.approval),
                          ci |-> ci, significant |-> significant, sampleSize |-> sizes]
    BY <1>3 DEF X!Analyze
  <2>. HIDE DEF control, treatment, sizes
  <2>4. analysis' # Raised =>
          /\ analysis'.profitDelta = X!Minus(treatment.profit, control.profit)
          /\ analysis'.defaultDelta = X!Minus(treatment.default, control.default)
          /\ analysis'.approvalDelta = X!Minus(treatment.approval, control.approval)
          /\ analysis'.sampleSize = sizes
    BY <2>3
  <2>5. verdict = None
    BY <2>1 DEF ExperimentInd
  <2>. QED BY <2>1, <2>2, <2>4, <2>5 DEF ExperimentInd, control, treatment, sizes, X!Minus
<1>4. CASE X!CompareArms
  <2>1. /\ analysis \notin {None, Raised} /\ verdict' = X!Recommendation(analysis)
        /\ UNCHANGED <<outcomes, analysis>>
    BY <1>4 DEF X!CompareArms
  <2>2. /\ UNCHANGED X!ComputeMetrics("heuristic") /\ UNCHANGED X!ComputeMetrics("ml")
        /\ UNCHANGED [a \in X!Arms |-> X!Count(X!Of(a))]
    BY <2>1, FiguresStay DEF X!Arms
  <2>. QED BY <2>1, <2>2 DEF ExperimentInd, X!Minus, X!Recommendation
<1>. QED BY <1>1, <1>2, <1>3, <1>4 DEF Next, X!ExperimentNext, vars

LEMMA ExperimentInvariant == Spec => []ExperimentInd
<1>1. Init => ExperimentInd
  BY ExperimentStarts
<1>2. ExperimentInd /\ [Next]_vars => ExperimentInd'
  BY ExperimentKept
<1>. QED BY <1>1, <1>2, PTL DEF Spec

(* The two reports on one experiment agree, and the challenger is promoted *)
(* or rolled back only where it earns more or less per application, on     *)
(* enough outcomes of both arms: for any number of outcomes of any amounts *)
(* and whatever the resampling and the test of significance say.           *)
THEOREM PromotionPaysHolds == Spec => []PromotionPays
<1>1. ASSUME ExperimentInd, analysis \notin {None, Raised}
      PROVE  LET summary == X!SummarizeOutcomes
                 gain   == X!Minus(summary.profitPerApplication.ml, summary.profitPerApplication.heuristic)
             IN  /\ summary.approvalDelta = analysis.approvalDelta
                 /\ summary.defaultDelta = analysis.defaultDelta
                 /\ gain = analysis.profitDelta
  <2>. DEFINE S(arm) == X!SummarizeArm(arm)
              M(arm) == X!ComputeMetrics(arm)
  <2>1. \A arm \in X!Arms : /\ S(arm).approval = M(arm).approval /\ S(arm).default = M(arm).default
                            /\ S(arm).profitPerApplication = M(arm).profit
    <3>1. ASSUME NEW arm \in X!Arms
          PROVE  /\ S(arm).approval = M(arm).approval /\ S(arm).default = M(arm).default
                 /\ S(arm).profitPerApplication = M(arm).profit
      <4>1. X!Total([k \in X!Kinds |-> X!ProfitOf(k)], X!Of(arm))
              = X!Total([k \in X!Kinds |-> X!SimulatedProfit(k)], X!Approvals(arm))
        BY <1>1, ProfitsAgree DEF ExperimentInd
      <4>. QED BY <4>1 DEF X!SummarizeArm, X!ComputeMetrics
    <3>. QED BY <3>1
  <2>2. /\ X!SummarizeOutcomes.approvalDelta = X!Minus(S("ml").approval, S("heuristic").approval)
        /\ X!SummarizeOutcomes.defaultDelta = X!Minus(S("ml").default, S("heuristic").default)
        /\ X!SummarizeOutcomes.profitPerApplication.ml = S("ml").profitPerApplication
        /\ X!SummarizeOutcomes.profitPerApplication.heuristic = S("heuristic").profitPerApplication
    BY DEF X!SummarizeOutcomes
  <2>3. /\ analysis.profitDelta = X!Minus(M("ml").profit, M("heuristic").profit)
        /\ analysis.defaultDelta = X!Minus(M("ml").default, M("heuristic").default)
        /\ analysis.approvalDelta = X!Minus(M("ml").approval, M("heuristic").approval)
    BY <1>1 DEF ExperimentInd
  <2>. HIDE DEF S, M
  <2>4. "ml" \in X!Arms /\ "heuristic" \in X!Arms
    BY DEF X!Arms
  <2>. QED BY <2>1, <2>2, <2>3, <2>4
<1>2. ASSUME ExperimentInd, analysis \notin {None, Raised}, verdict \in {"PROMOTE", "ROLLBACK"}
      PROVE  /\ verdict = "PROMOTE" => analysis.profitDelta > 0
             /\ verdict = "ROLLBACK" => analysis.profitDelta < 0
             /\ \A a \in X!Arms : X!Count(X!Of(a)) >= MinSampleSize
  <2>1. verdict = X!Recommendation(analysis)
    BY <1>2, ExperimentAssumption DEF ExperimentInd
  <2>2. \A a \in X!Arms : analysis.sampleSize[a] = X!Count(X!Of(a))
    BY <1>2 DEF ExperimentInd
  <2>3. /\ verdict = "PROMOTE" => analysis.profitDelta > 0
        /\ verdict = "ROLLBACK" => analysis.profitDelta < 0
        /\ \A a \in X!Arms : ~(X!Count(X!Of(a)) < MinSampleSize)
    BY <1>2, <2>1, <2>2 DEF X!Recommendation
  <2>4. \A a \in X!Arms : X!Count(X!Of(a)) \in Int
    <3>1. /\ outcomes \in [X!Kinds -> Nat] /\ [k \in X!Kinds |-> 1] \in [X!Kinds -> Int]
          /\ \A a : X!Of(a) \in SUBSET X!Kinds
      BY <1>2 DEF ExperimentInd, X!Of
    <3>. QED BY <3>1, TotalIsInt DEF X!Count
  <2>5. MinSampleSize \in Int
    BY ExperimentAssumption
  <2>. QED BY <2>3, <2>4, <2>5
<1>3. ExperimentInd => PromotionPays
  <2>. HIDE DEF ExperimentInd
  <2>. QED BY <1>1, <1>2 DEF PromotionPays, X!PromotionPays
<1>. QED BY <1>3, ExperimentInvariant, PTL

-----------------------------------------------------------------------------
(* Sums over finite sets                                                   *)

(* The recursion of SumOver.                                               *)
IsSum(g, f, sets) ==
  g = [s \in sets |-> IF s = {} THEN 0 ELSE f[Some(s)] + g[s \ {Some(s)}]]

(* The sums over the subsets of f's domain D.                              *)
Sums(g, f, D) ==
  /\ SumOver(f) = g[D]
  /\ \A s \in SUBSET D : g[s] = IF s = {} THEN 0 ELSE f[Some(s)] + g[s \ {Some(s)}]

(* The recursion has a solution.                                           *)
LEMMA SumsExist ==
  ASSUME NEW D, IsFiniteSet(D), NEW f, DOMAIN f = D
  PROVE  \E g : Sums(g, f, D)
<1>. DEFINE N == Cardinality(D)
            Sized(n) == {s \in SUBSET D : Cardinality(s) <= n}
            T == {n \in 0..N : \E g : IsSum(g, f, Sized(n))}
<1>1. N \in Nat /\ \A s \in SUBSET D : Cardinality(s) \in 0..N
  BY FS_CardinalityType, FS_Subset, SmallerSet
<1>2. 0 \in T
  <2>. DEFINE g == [s \in Sized(0) |-> 0]
  <2>1. \A s \in Sized(0) : s = {}
    BY SmallerSet
  <2>2. g = [s \in Sized(0) |-> IF s = {} THEN 0 ELSE f[Some(s)] + g[s \ {Some(s)}]]
    BY <2>1
  <2>3. IsSum(g, f, Sized(0))
    BY <2>2 DEF IsSum
  <2>. HIDE DEF g, Sized
  <2>. QED BY <1>1, <2>3
<1>3. ASSUME NEW m \in 0..(N - 1), m \in T PROVE m + 1 \in T
  <2>1. PICK g : IsSum(g, f, Sized(m))
    BY <1>3
  <2>. DEFINE h == [s \in Sized(m + 1) |->
                      IF Cardinality(s) <= m THEN g[s] ELSE f[Some(s)] + g[s \ {Some(s)}]]
  <2>2. ASSUME NEW s \in Sized(m + 1)
        PROVE  h[s] = IF s = {} THEN 0 ELSE f[Some(s)] + h[s \ {Some(s)}]
    <3>1. /\ s \in SUBSET D /\ Cardinality(s) \in Nat /\ Cardinality(s) <= m + 1
          /\ s # {} => /\ s \ {Some(s)} \in SUBSET D
                       /\ Cardinality(s \ {Some(s)}) = Cardinality(s) - 1
      BY SmallerSet
    <3>2. s # {} => /\ s \ {Some(s)} \in Sized(m) /\ s \ {Some(s)} \in Sized(m + 1)
                    /\ Cardinality(s \ {Some(s)}) <= m
      BY <3>1
    <3>3. s # {} => h[s \ {Some(s)}] = g[s \ {Some(s)}]
      BY <3>2
    <3>4. CASE Cardinality(s) <= m
      <4>1. s \in Sized(m) /\ h[s] = g[s]
        BY <3>1, <3>4
      <4>. HIDE DEF h, Sized
      <4>2. g[s] = IF s = {} THEN 0 ELSE f[Some(s)] + g[s \ {Some(s)}]
        BY <2>1, <4>1 DEF IsSum
      <4>. QED BY <3>3, <4>1, <4>2
    <3>5. CASE ~(Cardinality(s) <= m)
      <4>1. s # {}
        BY <3>5, FS_EmptySet
      <4>2. h[s] = f[Some(s)] + g[s \ {Some(s)}]
        BY <3>5
      <4>. HIDE DEF h
      <4>. QED BY <3>3, <4>1, <4>2
    <3>. QED BY <3>4, <3>5
  <2>3. IsSum(h, f, Sized(m + 1))
    <3>. HIDE DEF Sized
    <3>. QED BY <2>2 DEF IsSum
  <2>4. m + 1 \in 0..N
    BY <1>1
  <2>. HIDE DEF h, Sized
  <2>. QED BY <2>3, <2>4
<1>4. Sized(N) = SUBSET D
  BY <1>1
<1>5. \E g : IsSum(g, f, SUBSET D)
  <2>1. \A n \in 0..(N - 1) : n \in T => n + 1 \in T
    BY <1>3
  <2>. HIDE DEF T, Sized
  <2>2. \A n \in 0..N : n \in T
    BY <1>1, <1>2, <2>1, Reached
  <2>3. N \in T
    BY <1>1, <2>2
  <2>. QED BY <1>4, <2>3 DEF T
<1>. DEFINE g == CHOOSE g : IsSum(g, f, SUBSET D)
<1>6. IsSum(g, f, SUBSET D)
  BY <1>5
<1>7. SumOver(f) = g[D]
  BY DEF SumOver, IsSum, Some
<1>. HIDE DEF g
<1>8. \A s \in SUBSET D : g[s] = IF s = {} THEN 0 ELSE f[Some(s)] + g[s \ {Some(s)}]
  BY <1>6 DEF IsSum
<1>. QED BY <1>7, <1>8 DEF Sums

(* A sum of whole numbers is one.                                          *)
LEMMA SumIsInt ==
  ASSUME NEW D, IsFiniteSet(D), NEW f, DOMAIN f = D, \A i \in D : f[i] \in Int
  PROVE  SumOver(f) \in Int
<1>1. PICK g : Sums(g, f, D)
  BY SumsExist
<1>. DEFINE T == {s \in SUBSET D : g[s] \in Int}
<1>2. ASSUME NEW s \in SUBSET D, \A k \in s : s \ {k} \in T PROVE s \in T
  <2>1. CASE s = {}
    <3>1. g[s] = 0
      BY <1>1, <2>1 DEF Sums
    <3>. QED BY <3>1
  <2>2. CASE s # {}
    <3>1. Some(s) \in s /\ g[s \ {Some(s)}] \in Int /\ f[Some(s)] \in Int
      BY <1>2, <2>2, SmallerSet
    <3>2. g[s] = f[Some(s)] + g[s \ {Some(s)}]
      BY <1>1, <2>2 DEF Sums
    <3>. QED BY <3>1, <3>2
  <2>. QED BY <2>1, <2>2
<1>3. \A s \in SUBSET D : (\A k \in s : s \ {k} \in T) => s \in T
  BY <1>2
<1>. HIDE DEF T
<1>4. \A s \in SUBSET D : s \in T
  BY <1>3, ByElements
<1>. QED BY <1>1, <1>4 DEF T, Sums

(* A sum term by term of others.                                           *)
LEMMA SumOfSums ==
  ASSUME NEW D, IsFiniteSet(D), NEW f, NEW b, NEW t,
         DOMAIN f = D, DOMAIN b = D, DOMAIN t = D,
         \A i \in D : b[i] \in Int /\ t[i] \in Int /\ f[i] = 2 * b[i] + 1 + t[i]
  PROVE  SumOver(f) = 2 * SumOver(b) + Cardinality(D) + SumOver(t)
<1>1. PICK p : Sums(p, f, D)
  BY SumsExist
<1>2. PICK q : Sums(q, b, D)
  BY SumsExist
<1>3. PICK r : Sums(r, t, D)
  BY SumsExist
<1>. DEFINE T == {s \in SUBSET D : /\ q[s] \in Int /\ r[s] \in Int
                                   /\ p[s] = 2 * q[s] + Cardinality(s) + r[s]}
<1>4. ASSUME NEW s \in SUBSET D, \A k \in s : s \ {k} \in T PROVE s \in T
  <2>1. CASE s = {}
    <3>1. p[s] = 0 /\ q[s] = 0 /\ r[s] = 0 /\ Cardinality(s) = 0
      BY <1>1, <1>2, <1>3, <2>1, FS_EmptySet DEF Sums
    <3>. QED BY <3>1
  <2>2. CASE s # {}
    <3>. DEFINE k == Some(s)
                u == s \ {k}
    <3>1. k \in s /\ Cardinality(s) \in Nat /\ Cardinality(u) = Cardinality(s) - 1
      BY <2>2, SmallerSet
    <3>2. q[u] \in Int /\ r[u] \in Int /\ p[u] = 2 * q[u] + Cardinality(u) + r[u]
      BY <1>4, <3>1
    <3>3. p[s] = f[k] + p[u] /\ q[s] = b[k] + q[u] /\ r[s] = t[k] + r[u]
      BY <1>1, <1>2, <1>3, <2>2 DEF Sums
    <3>4. b[k] \in Int /\ t[k] \in Int /\ f[k] = 2 * b[k] + 1 + t[k]
      BY <3>1
    <3>. HIDE DEF k, u
    <3>. QED BY <3>1, <3>2, <3>3, <3>4
  <2>. QED BY <2>1, <2>2
<1>5. \A s \in SUBSET D : (\A k \in s : s \ {k} \in T) => s \in T
  BY <1>4
<1>. HIDE DEF T
<1>6. \A s \in SUBSET D : s \in T
  BY <1>5, ByElements
<1>. QED BY <1>1, <1>2, <1>3, <1>6 DEF T, Sums

(* Two sets that have nothing in common.                                   *)
LEMMA Disjoint ==
  ASSUME NEW a, NEW b, IsFiniteSet(a), IsFiniteSet(b), a \cap b = {}
  PROVE  IsFiniteSet(a \cup b) /\ Cardinality(a \cup b) = Cardinality(a) + Cardinality(b)
<1>1. /\ IsFiniteSet(a \cup b)
      /\ Cardinality(a \cup b) = Cardinality(a) + Cardinality(b) - Cardinality(a \cap b)
  BY FS_Union
<1>2. Cardinality(a) \in Nat /\ Cardinality(b) \in Nat /\ Cardinality(a \cap b) = 0
  BY FS_CardinalityType, FS_EmptySet
<1>. QED BY <1>1, <1>2

(* f counts the sets V, which have nothing in common and are all together. *)
Counts(f, V, D, all) ==
  /\ DOMAIN f = D
  /\ \A i \in D : IsFiniteSet(V[i]) /\ f[i] = Cardinality(V[i])
  /\ \A i, k \in D : i # k => V[i] \cap V[k] = {}
  /\ \A i \in D : V[i] \subseteq all
  /\ \A x \in all : \E i \in D : x \in V[i]

(* Counted one by one or together.                                         *)
LEMMA Counted ==
  ASSUME NEW D, IsFiniteSet(D), NEW f, NEW V, NEW all, Counts(f, V, D, all)
  PROVE  IsFiniteSet(all) /\ SumOver(f) = Cardinality(all)
<1>. USE DEF Counts
<1>1. PICK g : Sums(g, f, D)
  BY SumsExist
<1>. DEFINE All(s) == UNION {V[i] : i \in s}
            T == {s \in SUBSET D : IsFiniteSet(All(s)) /\ g[s] = Cardinality(All(s))}
<1>2. ASSUME NEW s \in SUBSET D, \A k \in s : s \ {k} \in T PROVE s \in T
  <2>1. CASE s = {}
    <3>1. g[s] = 0
      BY <1>1, <2>1 DEF Sums
    <3>2. All(s) = {}
      BY <2>1
    <3>. QED BY <3>1, <3>2, FS_EmptySet
  <2>2. CASE s # {}
    <3>. DEFINE k == Some(s)
                u == s \ {k}
    <3>1. k \in s
      BY <2>2, SmallerSet
    <3>2. IsFiniteSet(All(u)) /\ g[u] = Cardinality(All(u))
      BY <1>2, <3>1
    <3>3. g[s] = Cardinality(V[k]) + g[u] /\ IsFiniteSet(V[k])
      BY <1>1, <2>2, <3>1 DEF Sums
    <3>4. All(s) = V[k] \cup All(u) /\ V[k] \cap All(u) = {}
      BY <3>1
    <3>. HIDE DEF k, u, All
    <3>5. /\ IsFiniteSet(V[k] \cup All(u))
          /\ Cardinality(V[k] \cup All(u)) = Cardinality(V[k]) + Cardinality(All(u))
      BY <3>2, <3>3, <3>4, Disjoint
    <3>. QED BY <3>2, <3>3, <3>4, <3>5
  <2>. QED BY <2>1, <2>2
<1>3. \A s \in SUBSET D : (\A k \in s : s \ {k} \in T) => s \in T
  BY <1>2
<1>. HIDE DEF T
<1>4. \A s \in SUBSET D : s \in T
  BY <1>3, ByElements
<1>5. All(D) = all
  OBVIOUS
<1>. QED BY <1>1, <1>4, <1>5 DEF T, Sums

-----------------------------------------------------------------------------
(* The area under the curve, over pairs of rows                            *)

(* A split that can be measured: rows with a class and a percentage.       *)
IsScored(s) == IsSeq(s) /\ \A i \in DOMAIN s : s[i].y \in {0, 1} /\ s[i].p \in 0..100

(* Its rows are of one class or of the other.                              *)
LEMMA Classes ==
  ASSUME NEW s, IsScored(s)
  PROVE  /\ Len(s) \in Nat /\ DOMAIN s = 1..Len(s)
         /\ IsFiniteSet(DOMAIN s) /\ Cardinality(DOMAIN s) = Len(s)
         /\ Positives(s) \subseteq DOMAIN s /\ Negatives(s) \subseteq DOMAIN s
         /\ Positives(s) \cup Negatives(s) = DOMAIN s /\ Positives(s) \cap Negatives(s) = {}
         /\ IsFiniteSet(Positives(s)) /\ IsFiniteSet(Negatives(s))
         /\ Cardinality(Positives(s)) \in Nat /\ Cardinality(Negatives(s)) \in Nat
         /\ Len(s) = Cardinality(Positives(s)) + Cardinality(Negatives(s))
<1>1. Len(s) \in Nat /\ DOMAIN s = 1..Len(s)
  BY DEF IsScored, IsSeq
<1>2. IsFiniteSet(DOMAIN s) /\ Cardinality(DOMAIN s) = Len(s)
  <2>1. IsFiniteSet(1..Len(s)) /\ Cardinality(1..Len(s)) = IF 1 > Len(s) THEN 0 ELSE Len(s) - 1 + 1
    BY <1>1, FS_Interval
  <2>. QED BY <1>1, <2>1
<1>3. /\ Positives(s) \subseteq DOMAIN s /\ Negatives(s) \subseteq DOMAIN s
      /\ Positives(s) \cup Negatives(s) = DOMAIN s /\ Positives(s) \cap Negatives(s) = {}
  BY DEF IsScored, Positives, Negatives
<1>4. IsFiniteSet(Positives(s)) /\ IsFiniteSet(Negatives(s))
  BY <1>2, <1>3, FS_Subset
<1>5. /\ Cardinality(Positives(s)) \in Nat /\ Cardinality(Negatives(s)) \in Nat
      /\ Cardinality(DOMAIN s) = Cardinality(Positives(s)) + Cardinality(Negatives(s))
  <2>. DEFINE a == Positives(s)
              b == Negatives(s)
  <2>1. a \cup b = DOMAIN s /\ a \cap b = {} /\ IsFiniteSet(a) /\ IsFiniteSet(b)
    BY <1>3, <1>4
  <2>. HIDE DEF a, b
  <2>2. Cardinality(a \cup b) = Cardinality(a) + Cardinality(b)
    BY <2>1, Disjoint
  <2>3. Cardinality(a) \in Nat /\ Cardinality(b) \in Nat
    BY <2>1, FS_CardinalityType
  <2>. QED BY <2>1, <2>2, <2>3 DEF a, b
<1>. QED BY <1>1, <1>2, <1>3, <1>4, <1>5

(* Pairs the other way round are no more.                                  *)
LEMMA Swapped ==
  ASSUME NEW A, NEW B, IsFiniteSet(B), \A x \in A : x = <<x[1], x[2]>> /\ <<x[2], x[1]>> \in B
  PROVE  IsFiniteSet(A) /\ Cardinality(A) <= Cardinality(B)
<1>. DEFINE h == [x \in A |-> <<x[2], x[1]>>]
<1>1. h \in [A -> B]
  OBVIOUS
<1>2. ASSUME NEW x \in A, NEW y \in A, h[x] = h[y] PROVE x = y
  <2>1. x[1] = y[1] /\ x[2] = y[2]
    BY <1>2
  <2>2. x = <<x[1], x[2]>> /\ y = <<y[1], y[2]>>
    OBVIOUS
  <2>. QED BY <2>1, <2>2
<1>3. h \in Injection(A, B)
  <2>. HIDE DEF h
  <2>. QED BY <1>1, <1>2 DEF Injection, IsInjective
<1>. HIDE DEF h
<1>. QED BY <1>3, FS_Injection

(* Of all pairs of one set, as many go one way as the other.               *)
LEMMA Pairs ==
  ASSUME NEW P, IsFiniteSet(P), NEW v, \A i \in P : v[i] \in Int
  PROVE  LET above == {x \in P \X P : v[x[1]] > v[x[2]]}
             equal == {x \in P \X P : v[x[1]] = v[x[2]]}
         IN  /\ IsFiniteSet(above) /\ IsFiniteSet(equal)
             /\ Cardinality(above) \in Nat /\ Cardinality(equal) \in Nat
             /\ 2 * Cardinality(above) + Cardinality(equal) = Cardinality(P) * Cardinality(P)
<1>. DEFINE above == {x \in P \X P : v[x[1]] > v[x[2]]}
            equal == {x \in P \X P : v[x[1]] = v[x[2]]}
            below == {x \in P \X P : v[x[2]] > v[x[1]]}
<1>1. IsFiniteSet(P \X P) /\ Cardinality(P \X P) = Cardinality(P) * Cardinality(P)
  BY FS_Product
<1>2. above \in SUBSET (P \X P) /\ equal \in SUBSET (P \X P) /\ below \in SUBSET (P \X P)
  OBVIOUS
<1>3. P \X P = above \cup (equal \cup below) /\ above \cap (equal \cup below) = {} /\ equal \cap below = {}
  OBVIOUS
<1>4. \A x \in above : x = <<x[1], x[2]>> /\ <<x[2], x[1]>> \in below
  OBVIOUS
<1>5. \A x \in below : x = <<x[1], x[2]>> /\ <<x[2], x[1]>> \in above
  OBVIOUS
<1>. HIDE DEF above, equal, below
<1>6. IsFiniteSet(above) /\ IsFiniteSet(equal) /\ IsFiniteSet(below)
  BY <1>1, <1>2, FS_Subset
<1>7. /\ Cardinality(above) \in Nat /\ Cardinality(equal) \in Nat /\ Cardinality(below) \in Nat
  BY <1>6, FS_CardinalityType
<1>8. Cardinality(above) <= Cardinality(below) /\ Cardinality(below) <= Cardinality(above)
  BY <1>4, <1>5, <1>6, Swapped
<1>9. /\ IsFiniteSet(equal \cup below)
      /\ Cardinality(equal \cup below) = Cardinality(equal) + Cardinality(below)
  BY <1>3, <1>6, Disjoint
<1>10. Cardinality(above \cup (equal \cup below)) = Cardinality(above) + Cardinality(equal \cup below)
  BY <1>3, <1>6, <1>9, Disjoint
<1>11. Cardinality(P) * Cardinality(P) = Cardinality(above) + (Cardinality(equal) + Cardinality(below))
  BY <1>1, <1>3, <1>9, <1>10
<1>12. 2 * Cardinality(above) + Cardinality(equal) = Cardinality(P) * Cardinality(P)
  BY <1>7, <1>8, <1>11
<1>. QED BY <1>6, <1>7, <1>12 DEF above, equal

(* Counting pairs by their first member.                                   *)
LEMMA PairsOf ==
  ASSUME NEW P, IsFiniteSet(P), NEW D, IsFiniteSet(D), NEW rel \in SUBSET (P \X D),
         NEW f, DOMAIN f = P, \A i \in P : f[i] = Cardinality({k \in D : <<i, k>> \in rel})
  PROVE  SumOver(f) = Cardinality(rel)
<1>. DEFINE S(i) == {k \in D : <<i, k>> \in rel}
            V == [i \in P |-> {i} \X S(i)]
<1>1. ASSUME NEW i \in P PROVE IsFiniteSet(V[i]) /\ f[i] = Cardinality(V[i])
  <2>1. S(i) \in SUBSET D /\ V[i] = {i} \X S(i) /\ f[i] = Cardinality(S(i))
    OBVIOUS
  <2>. HIDE DEF S, V
  <2>2. IsFiniteSet(S(i)) /\ IsFiniteSet({i}) /\ Cardinality({i}) = 1
    BY <2>1, FS_Subset, FS_Singleton
  <2>3. IsFiniteSet({i} \X S(i)) /\ Cardinality({i} \X S(i)) = Cardinality({i}) * Cardinality(S(i))
    BY <2>2, FS_Product
  <2>4. Cardinality(S(i)) \in Nat
    BY <2>2, FS_CardinalityType
  <2>. QED BY <2>1, <2>2, <2>3, <2>4
<1>2. \A i, k \in P : i # k => V[i] \cap V[k] = {}
  OBVIOUS
<1>3. (\A i \in P : V[i] \subseteq rel) /\ \A x \in rel : \E i \in P : x \in V[i]
  <2>1. ASSUME NEW x \in rel PROVE \E i \in P : x \in V[i]
    <3>1. x = <<x[1], x[2]>> /\ x[1] \in P /\ x[2] \in D
      OBVIOUS
    <3>2. x \in V[x[1]]
      BY <3>1
    <3>. QED BY <3>1, <3>2
  <2>2. ASSUME NEW i \in P, NEW x \in V[i] PROVE x \in rel
    <3>1. x \in {i} \X S(i)
      BY <2>2
    <3>2. x = <<i, x[2]>> /\ x[2] \in S(i)
      BY <3>1
    <3>. QED BY <3>2
  <2>. HIDE DEF V
  <2>. QED BY <2>1, <2>2
<1>5. \A i \in P : IsFiniteSet(V[i]) /\ f[i] = Cardinality(V[i])
  BY <1>1
<1>. HIDE DEF V
<1>4. Counts(f, V, P, rel)
  BY <1>2, <1>3, <1>5 DEF Counts
<1>. QED BY <1>4, Counted

(* Pairs with a row of the one class and any row: the other is of either.  *)
LEMMA PairsByClass ==
  ASSUME NEW s, IsScored(s), NEW rel \in SUBSET (Positives(s) \X DOMAIN s)
  PROVE  LET P == Positives(s)  N == Negatives(s)
             same == {x \in P \X P : x \in rel}
             mixed == {x \in P \X N : x \in rel}
         IN  /\ IsFiniteSet(same) /\ IsFiniteSet(mixed)
             /\ Cardinality(same) \in Nat /\ Cardinality(mixed) \in Nat
             /\ Cardinality(rel) = Cardinality(same) + Cardinality(mixed)
<1>. DEFINE P == Positives(s)
            N == Negatives(s)
            same == {x \in P \X P : x \in rel}
            mixed == {x \in P \X N : x \in rel}
<1>1. P \cup N = DOMAIN s /\ P \cap N = {} /\ IsFiniteSet(P) /\ IsFiniteSet(N)
  BY Classes
<1>. HIDE DEF P, N
<1>2. rel \in SUBSET (P \X DOMAIN s)
  BY DEF P
<1>3. rel = same \cup mixed /\ same \cap mixed = {}
  BY <1>1, <1>2
<1>4. IsFiniteSet(P \X P) /\ IsFiniteSet(P \X N)
  BY <1>1, FS_Product
<1>5. same \in SUBSET (P \X P) /\ mixed \in SUBSET (P \X N)
  OBVIOUS
<1>. HIDE DEF same, mixed
<1>6. IsFiniteSet(same) /\ IsFiniteSet(mixed)
  BY <1>4, <1>5, FS_Subset
<1>7. Cardinality(same) \in Nat /\ Cardinality(mixed) \in Nat
  BY <1>6, FS_CardinalityType
<1>8. Cardinality(rel) = Cardinality(same) + Cardinality(mixed)
  BY <1>3, <1>6, Disjoint
<1>. QED BY <1>6, <1>7, <1>8 DEF same, mixed, P, N

(* The area under the curve, computed from ranks, is the chance that a     *)
(* defaulted loan is ranked above a sound one, ties counting half.         *)
LEMMA AreaIsChance ==
  ASSUME NEW s, IsScored(s)
  PROVE  LET pairs == Positives(s) \X Negatives(s)
             wins  == Cardinality({pr \in pairs : s[pr[1]].p > s[pr[2]].p})
             ties  == Cardinality({pr \in pairs : s[pr[1]].p = s[pr[2]].p})
             auc   == AucRoc(s)
         IN  pairs # {} => auc[1] * 2 * Cardinality(pairs) = auc[2] * (2 * wins + ties)
<1>. DEFINE P == Positives(s)
            N == Negatives(s)
            D == DOMAIN s
            pos == Cardinality(P)
            neg == Cardinality(N)
            Above == {x \in P \X D : s[x[1]].p > s[x[2]].p}
            Equal == {x \in P \X D : s[x[1]].p = s[x[2]].p}
            abovePos == {x \in P \X P : s[x[1]].p > s[x[2]].p}
            equalPos == {x \in P \X P : s[x[1]].p = s[x[2]].p}
            aboveNeg == {x \in P \X N : s[x[1]].p > s[x[2]].p}
            equalNeg == {x \in P \X N : s[x[1]].p = s[x[2]].p}
            below == [i \in P |-> Cardinality({k \in D : s[k].p < s[i].p})]
            same  == [i \in P |-> Cardinality({k \in D : s[k].p = s[i].p})]
            ranks == [i \in P |-> 2 * Cardinality({k \in D : s[k].p < s[i].p}) + 1
                                    + Cardinality({k \in D : s[k].p = s[i].p})]
<1>1. /\ IsFiniteSet(P) /\ IsFiniteSet(N) /\ IsFiniteSet(D) /\ pos \in Nat /\ neg \in Nat
      /\ P \subseteq D /\ N \subseteq D /\ Len(s) = pos + neg
  BY Classes
<1>2. \A i \in D : s[i].p \in Int
  BY DEF IsScored
<1>3. SumOver(below) = Cardinality(Above)
  <2>1. Above \in SUBSET (P \X D) /\ DOMAIN below = P
    OBVIOUS
  <2>2. ASSUME NEW i \in P PROVE below[i] = Cardinality({k \in D : <<i, k>> \in Above})
    <3>1. {k \in D : s[k].p < s[i].p} = {k \in D : <<i, k>> \in Above}
      BY <1>1, <1>2
    <3>. QED BY <3>1
  <2>. HIDE DEF P, D, Above, below
  <2>. QED BY <1>1, <2>1, <2>2, PairsOf
<1>4. SumOver(same) = Cardinality(Equal)
  <2>1. Equal \in SUBSET (P \X D) /\ DOMAIN same = P
    OBVIOUS
  <2>2. ASSUME NEW i \in P PROVE same[i] = Cardinality({k \in D : <<i, k>> \in Equal})
    <3>1. {k \in D : s[k].p = s[i].p} = {k \in D : <<i, k>> \in Equal}
      BY <1>1, <1>2
    <3>. QED BY <3>1
  <2>. HIDE DEF P, D, Equal, same
  <2>. QED BY <1>1, <2>1, <2>2, PairsOf
<1>5. SumOver(ranks) = 2 * SumOver(below) + pos + SumOver(same)
  <2>1. DOMAIN ranks = P /\ DOMAIN below = P /\ DOMAIN same = P
    OBVIOUS
  <2>2. ASSUME NEW i \in P
        PROVE  below[i] \in Int /\ same[i] \in Int /\ ranks[i] = 2 * below[i] + 1 + same[i]
    <3>1. {k \in D : s[k].p < s[i].p} \in SUBSET D /\ {k \in D : s[k].p = s[i].p} \in SUBSET D
      OBVIOUS
    <3>2. ASSUME NEW u \in SUBSET D PROVE Cardinality(u) \in Nat
      BY <1>1, FS_Subset, FS_CardinalityType
    <3>. QED BY <3>1, <3>2
  <2>3. \A i \in P : below[i] \in Int /\ same[i] \in Int /\ ranks[i] = 2 * below[i] + 1 + same[i]
    BY <2>2
  <2>. HIDE DEF P, D, below, same, ranks
  <2>. QED BY <1>1, <2>1, <2>3, SumOfSums
<1>6. /\ Cardinality(Above) = Cardinality(abovePos) + Cardinality(aboveNeg)
      /\ Cardinality(abovePos) \in Nat /\ Cardinality(aboveNeg) \in Nat
  <2>1. Above \in SUBSET (P \X D)
    OBVIOUS
  <2>2. abovePos = {x \in P \X P : x \in Above} /\ aboveNeg = {x \in P \X N : x \in Above}
    BY <1>1
  <2>. HIDE DEF Above, abovePos, aboveNeg
  <2>. QED BY <2>1, <2>2, PairsByClass
<1>7. /\ Cardinality(Equal) = Cardinality(equalPos) + Cardinality(equalNeg)
      /\ Cardinality(equalPos) \in Nat /\ Cardinality(equalNeg) \in Nat
  <2>1. Equal \in SUBSET (P \X D)
    OBVIOUS
  <2>2. equalPos = {x \in P \X P : x \in Equal} /\ equalNeg = {x \in P \X N : x \in Equal}
    BY <1>1
  <2>. HIDE DEF Equal, equalPos, equalNeg
  <2>. QED BY <2>1, <2>2, PairsByClass
<1>8. 2 * Cardinality(abovePos) + Cardinality(equalPos) = pos * pos
  <2>. DEFINE v == [i \in P |-> s[i].p]
  <2>1. \A i \in P : v[i] \in Int
    BY <1>1, <1>2
  <2>2. /\ abovePos = {x \in P \X P : v[x[1]] > v[x[2]]}
        /\ equalPos = {x \in P \X P : v[x[1]] = v[x[2]]}
    OBVIOUS
  <2>. HIDE DEF v, P, abovePos, equalPos
  <2>. QED BY <1>1, <2>1, <2>2, Pairs
<1>9. IsFiniteSet(P \X N) /\ Cardinality(P \X N) = pos * neg
  BY <1>1, FS_Product
<1>10. AucRoc(s) = IF pos = 0 \/ Len(s) - pos = 0 THEN <<1, 2>>
                   ELSE <<SumOver(ranks) - pos * (pos + 1), 2 * pos * (Len(s) - pos)>>
  BY DEF AucRoc
<1>. HIDE DEF P, N, D, pos, neg, Above, Equal, abovePos, equalPos, aboveNeg, equalNeg, below, same, ranks
<1>11. P \X N # {} => AucRoc(s) = <<2 * Cardinality(aboveNeg) + Cardinality(equalNeg), 2 * pos * neg>>
  <2>1. ASSUME P \X N # {} PROVE pos # 0 /\ neg # 0
    BY <1>1, <2>1, FS_EmptySet DEF pos, neg
  <2>2. Len(s) - pos = neg /\ pos * (pos + 1) = pos * pos + pos
    BY <1>1
  <2>3. SumOver(ranks) - pos * (pos + 1) = 2 * Cardinality(aboveNeg) + Cardinality(equalNeg)
    <3>1. PICK square \in Nat : square = pos * pos
      BY <1>1
    <3>2. 2 * Cardinality(abovePos) + Cardinality(equalPos) = square
      BY <1>8, <3>1
    <3>3. SumOver(ranks) = 2 * (Cardinality(abovePos) + Cardinality(aboveNeg)) + pos
                             + (Cardinality(equalPos) + Cardinality(equalNeg))
      BY <1>3, <1>4, <1>5, <1>6, <1>7
    <3>. DEFINE n == pos * (pos + 1)
    <3>4. n = square + pos
      BY <2>2, <3>1
    <3>. HIDE DEF n
    <3>5. SumOver(ranks) - n = 2 * Cardinality(aboveNeg) + Cardinality(equalNeg)
      <4>1. \A a, b, e, m, p \in Nat : (2 * (a + b) + p + (e + m)) - (2 * a + e + p) = 2 * b + m
        OBVIOUS
      <4>2. n = 2 * Cardinality(abovePos) + Cardinality(equalPos) + pos
        BY <3>2, <3>4
      <4>. QED BY <1>1, <1>6, <1>7, <3>3, <4>1, <4>2
    <3>. QED BY <3>5 DEF n
  <2>. QED BY <1>10, <2>1, <2>2, <2>3
<1>12. P \X N # {} =>
         AucRoc(s)[1] * 2 * Cardinality(P \X N)
           = AucRoc(s)[2] * (2 * Cardinality(aboveNeg) + Cardinality(equalNeg))
  <2>. SUFFICES ASSUME NEW w, w = 2 * Cardinality(aboveNeg) + Cardinality(equalNeg),
                       P \X N # {}
                PROVE  w * 2 * Cardinality(P \X N) = (2 * pos * neg) * w
    BY <1>11
  <2>1. w \in Nat /\ pos * neg \in Nat
    BY <1>1, <1>6, <1>7
  <2>2. PICK pn \in Nat : pn = pos * neg
    BY <2>1
  <2>3. 2 * pos * neg = 2 * pn
    BY <1>1, <2>2
  <2>. QED BY <1>9, <2>1, <2>2, <2>3
<1>. QED BY <1>12 DEF P, N, aboveNeg, equalNeg

-----------------------------------------------------------------------------
(* The report                                                              *)

(* Every percentage has its bin.                                           *)
LEMMA BinOfPercent == ASSUME NEW p \in 0..100 PROVE BinOf(p) \in 0..(Bins - 1)
<1>1. Bins \in 1..100
  BY MetricsAssumption
<1>2. CASE p = 100
  BY <1>1, <1>2 DEF BinOf
<1>3. CASE p # 100
  <2>1. p * Bins >= 0 /\ p * Bins < 100 * Bins
    BY <1>1, <1>3, SMT
  <2>2. PICK n \in Nat : n = p * Bins
    BY <1>1, <2>1, SMT
  <2>3. n \div 100 >= 0 /\ n \div 100 < Bins /\ n \div 100 \in Int
    BY <1>1, <2>1, <2>2, SMT
  <2>. QED BY <1>1, <1>3, <2>2, <2>3 DEF BinOf
<1>. QED BY <1>2, <1>3

(* Every row is in a bin.                                                  *)
LEMMA BinsAreAll ==
  ASSUME NEW s, IsScored(s)
  PROVE  LET bins == CalibrationError(s)
         IN  SumOver([b \in DOMAIN bins |-> bins[b].count]) = Len(s)
<1>. DEFINE D == DOMAIN s
            B == 0..(Bins - 1)
            Rows(b) == {i \in D : BinOf(s[i].p) = b}
            V == [b \in B |-> Rows(b)]
            f == [b \in B |-> Cardinality(Rows(b))]
            bins == CalibrationError(s)
<1>1. IsFiniteSet(D) /\ Cardinality(D) = Len(s)
  BY Classes
<1>2. IsFiniteSet(B)
  BY MetricsAssumption, FS_Interval
<1>3. \A i \in D : BinOf(s[i].p) \in B
  BY BinOfPercent DEF IsScored
<1>4. \A b \in B : IsFiniteSet(V[b]) /\ f[b] = Cardinality(V[b])
  <2>1. ASSUME NEW b \in B PROVE IsFiniteSet(Rows(b))
    BY <1>1, FS_Subset
  <2>. QED BY <2>1
<1>5. \A b, c \in B : b # c => V[b] \cap V[c] = {}
  OBVIOUS
<1>6. (\A b \in B : V[b] \subseteq D) /\ \A i \in D : \E b \in B : i \in V[b]
  BY <1>3
<1>7. [b \in DOMAIN bins |-> bins[b].count] = f
  BY DEF CalibrationError
<1>8. DOMAIN f = B
  OBVIOUS
<1>. HIDE DEF D, B, V, f, bins
<1>9. Counts(f, V, B, D)
  BY <1>4, <1>5, <1>6, <1>8 DEF Counts
<1>10. SumOver(f) = Cardinality(D)
  BY <1>2, <1>9, Counted
<1>. QED BY <1>1, <1>7, <1>10 DEF bins

(* A higher threshold flags no more loans.                                 *)
LEMMA HigherFlagsFewer ==
  ASSUME NEW s, IsScored(s), NEW t \in Int, NEW u \in Int, t < u
  PROVE  /\ ConfusionMatrix(s, u).tp <= ConfusionMatrix(s, t).tp
         /\ ConfusionMatrix(s, u).fp <= ConfusionMatrix(s, t).fp
<1>. DEFINE Flagged(v, y) == {i \in DOMAIN s : (s[i].p >= v) = TRUE /\ s[i].y = y}
<1>1. ASSUME NEW y PROVE Cardinality(Flagged(u, y)) <= Cardinality(Flagged(t, y))
  <2>1. Flagged(t, y) \in SUBSET DOMAIN s /\ Flagged(u, y) \in SUBSET Flagged(t, y)
    BY DEF IsScored
  <2>. HIDE DEF Flagged
  <2>2. IsFiniteSet(Flagged(t, y))
    BY <2>1, Classes, FS_Subset
  <2>. QED BY <2>1, <2>2, FS_Subset
<1>2. \A v : /\ ConfusionMatrix(s, v).tp = Cardinality(Flagged(v, 1))
             /\ ConfusionMatrix(s, v).fp = Cardinality(Flagged(v, 0))
  BY DEF ConfusionMatrix
<1>. HIDE DEF Flagged
<1>. QED BY <1>1, <1>2

(* The rows of two classes together.                                       *)
LEMMA BothClasses ==
  ASSUME NEW s, IsScored(s), NEW A \in SUBSET DOMAIN s
  PROVE  /\ Cardinality(A) = Cardinality(A \cap Positives(s)) + Cardinality(A \cap Negatives(s))
         /\ Cardinality(A \cap Positives(s)) \in Nat /\ Cardinality(A \cap Negatives(s)) \in Nat
<1>. DEFINE P == A \cap Positives(s)
            N == A \cap Negatives(s)
<1>1. P \in SUBSET DOMAIN s /\ N \in SUBSET DOMAIN s /\ P \cup N = A /\ P \cap N = {}
  BY Classes
<1>. HIDE DEF P, N
<1>2. IsFiniteSet(P) /\ IsFiniteSet(N)
  BY <1>1, Classes, FS_Subset
<1>3. Cardinality(P \cup N) = Cardinality(P) + Cardinality(N)
  BY <1>1, <1>2, Disjoint
<1>4. Cardinality(P) \in Nat /\ Cardinality(N) \in Nat
  BY <1>2, FS_CardinalityType
<1>. QED BY <1>1, <1>3, <1>4 DEF P, N

(* The cells of the confusion matrix.                                      *)
LEMMA Cells ==
  ASSUME NEW s, IsScored(s)
  PROVE  LET cells == ConfusionMatrix(s, 50)
         IN  /\ cells.tp + cells.fp = Cardinality({i \in DOMAIN s : s[i].p >= 50})
             /\ cells.tn + cells.fn = Cardinality(Approved(s))
             /\ cells.tn = Cardinality(Negatives(s) \cap Approved(s))
<1>. DEFINE cells == ConfusionMatrix(s, 50)
            F == {i \in DOMAIN s : s[i].p >= 50}
            A == Approved(s)
            Cell(predicted, y) == {i \in DOMAIN s : (s[i].p >= 50) = predicted /\ s[i].y = y}
<1>1. \A i \in DOMAIN s : s[i].p \in Int
  BY DEF IsScored
<1>2. /\ Cell(TRUE, 1) = F \cap Positives(s) /\ Cell(TRUE, 0) = F \cap Negatives(s)
  BY DEF Positives, Negatives
<1>3. \A i \in DOMAIN s : ((s[i].p >= 50) = FALSE) <=> s[i].p < 50
  BY <1>1
<1>4. Cell(FALSE, 1) = A \cap Positives(s) /\ Cell(FALSE, 0) = A \cap Negatives(s)
  BY <1>3 DEF Approved, Positives, Negatives
<1>5. /\ cells.tp = Cardinality(Cell(TRUE, 1)) /\ cells.fp = Cardinality(Cell(TRUE, 0))
      /\ cells.tn = Cardinality(Cell(FALSE, 0)) /\ cells.fn = Cardinality(Cell(FALSE, 1))
  BY DEF ConfusionMatrix
<1>6. F \in SUBSET DOMAIN s /\ A \in SUBSET DOMAIN s
  BY DEF Approved
<1>7. A \cap Negatives(s) = Negatives(s) \cap A
  OBVIOUS
<1>. HIDE DEF F, A, Cell, cells
<1>8. /\ Cardinality(F) = Cardinality(F \cap Positives(s)) + Cardinality(F \cap Negatives(s))
      /\ Cardinality(A) = Cardinality(A \cap Positives(s)) + Cardinality(A \cap Negatives(s))
      /\ Cardinality(A \cap Positives(s)) \in Nat /\ Cardinality(A \cap Negatives(s)) \in Nat
  BY <1>6, BothClasses
<1>9. cells.tp + cells.fp = Cardinality(F)
  BY <1>2, <1>5, <1>8
<1>10. cells.tn + cells.fn = Cardinality(A)
  <2>1. cells.tn = Cardinality(A \cap Negatives(s)) /\ cells.fn = Cardinality(A \cap Positives(s))
    BY <1>4, <1>5
  <2>2. \A m, n \in Nat : m + n = n + m
    OBVIOUS
  <2>. QED BY <1>8, <2>1, <2>2
<1>11. cells.tn = Cardinality(Negatives(s) \cap A)
  BY <1>4, <1>5, <1>7
<1>. QED BY <1>9, <1>10, <1>11 DEF F, A, cells

(* How many rows of A there are in each group.                             *)
GroupCounts(f, s, field, G, A) ==
  DOMAIN f = G /\ \A v \in G : f[v] = Cardinality(Members(s, field, v) \cap A)

(* Groups of rows that have every row: what is counted in each of them     *)
(* adds up.                                                                *)
LEMMA GroupsAddUp ==
  ASSUME NEW s, IsScored(s), NEW field, NEW G, G \subseteq ValuesOf(s, field),
         NEW f, GroupCounts(f, s, field, G, DOMAIN s), SumOver(f) = Len(s),
         NEW A \in SUBSET DOMAIN s, NEW h, GroupCounts(h, s, field, G, A)
  PROVE  SumOver(h) = Cardinality(A)
<1>. DEFINE D == DOMAIN s
            V == [v \in G |-> Members(s, field, v)]
            W == [v \in G |-> Members(s, field, v) \cap A]
            all == UNION {V[v] : v \in G}
<1>1. IsFiniteSet(D) /\ Cardinality(D) = Len(s)
  BY Classes
<1>2. IsFiniteSet(G)
  <2>1. IsFiniteSet(ValuesOf(s, field))
    <3>. DEFINE g == [i \in D |-> s[i].group[field]]
    <3>1. g \in Surjection(D, ValuesOf(s, field))
      BY DEF Surjection, ValuesOf
    <3>. HIDE DEF g, D
    <3>. QED BY <1>1, <3>1, FS_Surjection
  <2>. QED BY <2>1, FS_Subset
<1>3. \A v \in G : V[v] \subseteq D /\ W[v] = V[v] \cap A
  BY DEF Members
<1>4. \A v, w \in G : v # w => V[v] \cap V[w] = {}
  BY DEF Members
<1>5. /\ DOMAIN f = G /\ DOMAIN h = G
      /\ \A v \in G : f[v] = Cardinality(V[v]) /\ h[v] = Cardinality(W[v])
  <2>1. \A v : Members(s, field, v) \cap DOMAIN s = Members(s, field, v)
    BY DEF Members
  <2>. QED BY <2>1 DEF GroupCounts
<1>. HIDE DEF V, W, D
<1>7. \A v \in G : IsFiniteSet(V[v]) /\ IsFiniteSet(W[v])
  <2>1. \A v \in G : V[v] \in SUBSET D /\ W[v] \in SUBSET D
    BY <1>3
  <2>. QED BY <1>1, <2>1, FS_Subset
<1>8. (\A v \in G : V[v] \subseteq all) /\ \A x \in all : \E v \in G : x \in V[v]
  OBVIOUS
<1>9. all \in SUBSET D
  BY <1>3
<1>. HIDE DEF all
<1>10. SumOver(f) = Cardinality(all)
  <2>1. Counts(f, V, G, all)
    BY <1>4, <1>5, <1>7, <1>8 DEF Counts
  <2>. QED BY <1>2, <2>1, Counted
<1>11. all = D
  BY <1>1, <1>9, <1>10, FS_Subset
<1>12. \A v, w \in G : v # w => W[v] \cap W[w] = {}
  BY <1>3, <1>4
<1>13. (\A v \in G : W[v] \subseteq A) /\ \A x \in A : \E v \in G : x \in W[v]
  BY <1>3, <1>8, <1>11 DEF D
<1>14. Counts(h, W, G, A)
  BY <1>5, <1>7, <1>12, <1>13 DEF Counts
<1>. QED BY <1>2, <1>14, Counted

(* What a model says of a split can be measured, and so can what a         *)
(* calibrator makes of it.                                                 *)
LEMMA SplitIsScored ==
  ASSUME NEW rows, IsSeq(rows), AreLabelled(rows), study.probs \subseteq 0..100,
         NEW m, NEW raw \in PredictProbabilities(m, rows)
  PROVE  /\ IsScored(raw)
         /\ IsCalibrator(calibrator) =>
              IsScored([i \in DOMAIN raw |-> [raw[i] EXCEPT !.p = calibrator.apply[@]]])
<1>. DEFINE code == [i \in DOMAIN rows |-> EncodeFeatureRow(rows[i], m.schema)]
            set == [i \in DOMAIN raw |-> [raw[i] EXCEPT !.p = calibrator.apply[@]]]
<1>1. PICK g \in [{code[i] : i \in DOMAIN rows} -> study.probs] :
        raw = [i \in DOMAIN rows |-> Scored(rows[i], g[code[i]])]
  BY DEF PredictProbabilities
<1>2. \A i \in DOMAIN rows : g[code[i]] \in study.probs
  OBVIOUS
<1>. HIDE DEF code
<1>3. \A row, p, v : /\ Scored(row, p).p = p /\ Scored(row, p).y = row.target
                     /\ [Scored(row, p) EXCEPT !.p = v].p = v
                     /\ [Scored(row, p) EXCEPT !.p = v].y = row.target
  BY DEF Scored
<1>4. Len(rows) \in Nat /\ DOMAIN rows = 1..Len(rows)
  BY DEF IsSeq
<1>5. /\ DOMAIN raw = 1..Len(rows) /\ raw = [i \in 1..Len(rows) |-> raw[i]]
      /\ \A i \in DOMAIN raw : raw[i].p \in study.probs /\ raw[i].y \in {0, 1}
  BY <1>1, <1>2, <1>3, <1>4 DEF AreLabelled
<1>6. IsScored(raw)
  <2>1. raw \in Seq({raw[i] : i \in DOMAIN raw})
    BY <1>4, <1>5
  <2>. QED BY <1>5, <2>1 DEF IsScored, IsSeq
<1>7. ASSUME IsCalibrator(calibrator) PROVE IsScored(set)
  <2>1. DOMAIN set = 1..Len(rows) /\ set = [i \in 1..Len(rows) |-> set[i]]
    BY <1>5
  <2>2. ASSUME NEW i \in DOMAIN set PROVE set[i].p \in study.probs /\ set[i].y \in {0, 1}
    <3>. DEFINE v == calibrator.apply[raw[i].p]
    <3>1. i \in DOMAIN rows /\ v \in study.probs
      BY <1>4, <1>5, <1>7, <2>1 DEF IsCalibrator
    <3>2. set[i] = [Scored(rows[i], g[code[i]]) EXCEPT !.p = v]
      BY <1>1, <1>5, <2>1, <3>1
    <3>. HIDE DEF v, set
    <3>. QED BY <1>3, <3>1, <3>2 DEF AreLabelled
  <2>. HIDE DEF set
  <2>3. set \in Seq({set[i] : i \in DOMAIN set})
    BY <1>4, <2>1
  <2>. QED BY <2>1, <2>2, <2>3 DEF IsScored, IsSeq
<1>. QED BY <1>6, <1>7

(* A report is of a split that was scored.                                 *)
ReportInd ==
  report # None =>
    study # NoStudy /\ \E split, scored : IsScored(scored) /\ report = EvaluateSplit(split, scored)

LEMMA ReportUntouched ==
  ASSUME ReportInd, UNCHANGED <<study, report>> PROVE ReportInd'
<1>1. CASE report = None
  BY <1>1 DEF ReportInd
<1>2. CASE report # None
  <2>1. PICK split, scored : IsScored(scored) /\ report = EvaluateSplit(split, scored)
    BY <1>2 DEF ReportInd
  <2>2. report' = EvaluateSplit(split, scored)'
    BY <2>1 DEF EvaluateSplit, Grouping
  <2>. QED BY <1>2, <2>1, <2>2 DEF ReportInd
<1>. QED BY <1>1, <1>2

(* Evaluation makes such a report, and nothing else makes one.             *)
LEMMA ReportKept == ASSUME LeakInd, BenchInd, ReportInd, [Next]_vars PROVE ReportInd'
<1>1. CASE UNCHANGED pipelineVars
  BY <1>1, ReportUntouched DEF pipelineVars
<1>2. CASE study # NoStudy /\ PipelineNext
  <2>1. /\ study \in Studies /\ study.path \in {"candidate", "official"} /\ IsFile(study.file)
        /\ study.probs \subseteq 0..100
    BY <1>2, StudyFile, StudiesAssumption DEF LeakInd
  <2>2. CASE EvaluateManifest /\ ~Fail
    <3>1. PICK cap \in study.recaps, s \in Fitted :
            /\ Prepared(cap) # Raised
            /\ \E scored \in PredictProbabilities(model, Prepared(cap)[s]) :
                 report' = EvaluateSplit(s, scored)
            /\ study' = study
      BY <2>2 DEF EvaluateManifest
    <3>2. IsSeq(Prepared(cap)[s]) /\ AreLabelled(Prepared(cap)[s])
      <4>1. AreSplits(Prepared(cap), study.file)
        BY <2>1, <3>1, BuiltSplits DEF Prepared
      <4>. QED BY <4>1 DEF AreSplits, IsSplit, Splits, Fitted
    <3>3. PICK scored : IsScored(scored) /\ report' = EvaluateSplit(s, scored)
      BY <2>1, <3>1, <3>2, SplitIsScored
    <3>4. report' = EvaluateSplit(s, scored)'
      BY <3>1, <3>3 DEF EvaluateSplit, Grouping
    <3>. QED BY <1>2, <3>1, <3>3, <3>4 DEF ReportInd
  <2>3. CASE EvaluateOfficial
    <3>1. PICK s \in Fitted : \E raw \in PredictProbabilities(model, splits[s]) :
            report' = EvaluateSplit(s, [i \in DOMAIN raw |-> [raw[i] EXCEPT !.p = calibrator.apply[@]]])
      BY <2>3 DEF EvaluateOfficial
    <3>2. IsSeq(splits[s]) /\ AreLabelled(splits[s])
      BY <1>2 DEF LeakInd, AreSplits, IsSplit, Splits, Fitted
    <3>3. IsCalibrator(calibrator) /\ study' = study
      BY <1>2, <2>3 DEF BenchInd, EvaluateOfficial
    <3>4. PICK scored : IsScored(scored) /\ report' = EvaluateSplit(s, scored)
      BY <2>1, <3>1, <3>2, <3>3, SplitIsScored
    <3>5. report' = EvaluateSplit(s, scored)'
      BY <3>3, <3>4 DEF EvaluateSplit, Grouping
    <3>. QED BY <1>2, <3>3, <3>4, <3>5 DEF ReportInd
  <2>4. CASE Fail \/ Prepare \/ SearchStep \/ SelectBest \/ FitForCalibration
             \/ CalibrateOfficial \/ Refit \/ CalibrateManifest
    <3>1. UNCHANGED <<study, report>>
      BY <2>4 DEF Fail, Prepare, SearchStep, SelectBest, FitForCalibration, CalibrateOfficial,
                  Refit, CalibrateManifest
    <3>. QED BY <3>1, ReportUntouched
  <2>. QED BY <1>2, <2>2, <2>3, <2>4 DEF PipelineNext
<1>3. CASE study # NoStudy /\ BenchmarkNext
  BY <1>3, ReportUntouched DEF BenchmarkNext, BenchmarkManifest, BenchmarkOfficial, pipelineVars
<1>4. CASE UNCHANGED vars
  BY <1>1, <1>4 DEF vars
<1>. QED BY <1>1, <1>2, <1>3, <1>4 DEF Next

LEMMA ReportInvariant == Spec => []ReportInd
<1>1. Init => ReportInd
  BY DEF Init, PipelineInit, ReportInd
<1>2. LeakInd /\ BenchInd /\ ReportInd /\ [Next]_vars => ReportInd'
  BY ReportKept
<1>. QED BY <1>1, <1>2, LeakInvariant, BenchInvariant, PTL DEF Spec

(* The numbers of one report fit each other and their definitions, for any *)
(* number of rows, any scores, bins, thresholds and groups: the area is    *)
(* the chance of a right ranking, every row is in a bin, a higher threshold*)
(* flags no more, and groups that have every row add up to the matrix.     *)
THEOREM ReportsAgreeHolds == Spec => []ReportsAgree
<1>1. ASSUME ReportInd PROVE ReportsAgree
  <2>1. SUFFICES ASSUME report # None PROVE ReportsAgree
    BY DEF ReportsAgree
  <2>2. PICK split, s : IsScored(s) /\ report = EvaluateSplit(split, s)
    BY <1>1, <2>1 DEF ReportInd
  <2>. DEFINE cells == ConfusionMatrix(s, 50)
  <2>3. /\ report.scored = s /\ report.metrics.auc = AucRoc(s)
        /\ report.calibration = CalibrationError(s)
        /\ \A t \in Thresholds : report.thresholds[t] = ConfusionMatrix(s, t)
        /\ DOMAIN report.groups = Grouping
        /\ \A f \in Grouping : report.groups[f] = IF study.path = "candidate"
                                                  THEN SegmentDiagnostics(s, f)
                                                  ELSE FairnessAnalysis(s, f)
    BY <2>2 DEF EvaluateSplit, ComputeBinaryMetrics
  <2>4. LET pairs == Positives(s) \X Negatives(s)
            wins  == Cardinality({pr \in pairs : s[pr[1]].p > s[pr[2]].p})
            ties  == Cardinality({pr \in pairs : s[pr[1]].p = s[pr[2]].p})
        IN  pairs # {} => report.metrics.auc[1] * 2 * Cardinality(pairs)
                            = report.metrics.auc[2] * (2 * wins + ties)
    BY <2>2, <2>3, AreaIsChance
  <2>5. SumOver([b \in DOMAIN report.calibration |-> report.calibration[b].count]) = Len(s)
    BY <2>2, <2>3, BinsAreAll
  <2>6. ASSUME NEW t \in Thresholds, NEW u \in Thresholds, t < u
        PROVE  /\ report.thresholds[u].tp <= report.thresholds[t].tp
               /\ report.thresholds[u].fp <= report.thresholds[t].fp
    <3>1. t \in Int /\ u \in Int
      BY MetricsAssumption
    <3>. QED BY <2>2, <2>3, <2>6, <3>1, HigherFlagsFewer
  <2>. DEFINE Total(g, f) == SumOver([v \in DOMAIN g |-> g[v][f]])
  <2>7. ASSUME NEW f \in Grouping, study.path = "candidate",
               Total(report.groups[f], "rows") = Len(s)
        PROVE  Total(report.groups[f], "predicted") = cells.tp + cells.fp
    <3>. DEFINE g == SegmentDiagnostics(s, f)
                G == DOMAIN g
                A == {i \in DOMAIN s : s[i].p >= 50}
    <3>1. report.groups[f] = g
      BY <2>3, <2>7
    <3>2. G \subseteq ValuesOf(s, f)
      BY DEF SegmentDiagnostics
    <3>3. \A v \in G : /\ g[v]["rows"] = Cardinality(Members(s, f, v) \cap DOMAIN s)
                       /\ g[v]["predicted"] = Cardinality(Members(s, f, v) \cap A)
      <4>1. \A v : /\ {i \in Members(s, f, v) : s[i].p >= 50} = Members(s, f, v) \cap A
                   /\ Members(s, f, v) \cap DOMAIN s = Members(s, f, v)
        BY DEF Members
      <4>. HIDE DEF A
      <4>. QED BY <4>1 DEF SegmentDiagnostics
    <3>. DEFINE rows == [v \in G |-> g[v]["rows"]]
                predicted == [v \in G |-> g[v]["predicted"]]
    <3>4. /\ GroupCounts(rows, s, f, G, DOMAIN s) /\ GroupCounts(predicted, s, f, G, A)
          /\ SumOver(rows) = Len(s) /\ A \in SUBSET DOMAIN s
      BY <2>7, <3>1, <3>3 DEF GroupCounts
    <3>. HIDE DEF g, G, A, rows, predicted
    <3>5. SumOver(predicted) = Cardinality(A)
      BY <2>2, <3>2, <3>4, GroupsAddUp
    <3>6. cells.tp + cells.fp = Cardinality(A)
      BY <2>2, Cells DEF A
    <3>. QED BY <3>1, <3>5, <3>6 DEF predicted, G
  <2>8. ASSUME NEW f \in Grouping, study.path # "candidate",
               Total(report.groups[f], "rows") = Len(s)
        PROVE  /\ Total(report.groups[f], "approved") = cells.tn + cells.fn
               /\ Total(report.groups[f], "soundApproved") = cells.tn
    <3>. DEFINE g == FairnessAnalysis(s, f)
                G == DOMAIN g
                A == Approved(s)
                B == Negatives(s) \cap Approved(s)
    <3>1. report.groups[f] = g
      BY <2>3, <2>8
    <3>2. G \subseteq ValuesOf(s, f)
      BY DEF FairnessAnalysis
    <3>3. \A v \in G : /\ g[v]["rows"] = Cardinality(Members(s, f, v) \cap DOMAIN s)
                       /\ g[v]["approved"] = Cardinality(Members(s, f, v) \cap A)
                       /\ g[v]["soundApproved"] = Cardinality(Members(s, f, v) \cap B)
      <4>1. \A v : /\ Members(s, f, v) \cap Negatives(s) \cap Approved(s) = Members(s, f, v) \cap B
                   /\ Members(s, f, v) \cap DOMAIN s = Members(s, f, v)
        BY DEF Members
      <4>. HIDE DEF B
      <4>. QED BY <4>1 DEF FairnessAnalysis
    <3>4. A \in SUBSET DOMAIN s /\ B \in SUBSET DOMAIN s
      BY DEF Approved
    <3>. DEFINE rows == [v \in G |-> g[v]["rows"]]
                approved == [v \in G |-> g[v]["approved"]]
                soundApproved == [v \in G |-> g[v]["soundApproved"]]
    <3>5. /\ GroupCounts(rows, s, f, G, DOMAIN s)
          /\ GroupCounts(approved, s, f, G, A) /\ GroupCounts(soundApproved, s, f, G, B)
          /\ SumOver(rows) = Len(s)
      BY <2>8, <3>1, <3>3 DEF GroupCounts
    <3>. HIDE DEF g, G, A, B, rows, approved, soundApproved
    <3>6. SumOver(approved) = Cardinality(A) /\ SumOver(soundApproved) = Cardinality(B)
      BY <2>2, <3>2, <3>4, <3>5, GroupsAddUp
    <3>7. cells.tn + cells.fn = Cardinality(A) /\ cells.tn = Cardinality(B)
      BY <2>2, Cells DEF A, B
    <3>. QED BY <3>1, <3>6, <3>7 DEF approved, soundApproved, G
  <2>9. \A f \in Grouping :
          Total(report.groups[f], "rows") = Len(s) =>
            IF study.path = "candidate" THEN Total(report.groups[f], "predicted") = cells.tp + cells.fp
            ELSE /\ Total(report.groups[f], "approved") = cells.tn + cells.fn
                 /\ Total(report.groups[f], "soundApproved") = cells.tn
    <3>. HIDE DEF Total, cells
    <3>. QED BY <2>7, <2>8
  <2>. QED BY <2>3, <2>4, <2>5, <2>6, <2>9 DEF ReportsAgree
<1>. QED BY <1>1, ReportInvariant, PTL

-----------------------------------------------------------------------------
(* The grid and the selected row                                           *)

(* One parameter more, as Times has it, and the recursion of ExpandGrid.   *)
WithValues(combos, list) ==
  [m \in 1..(Len(combos) * Len(list)) |->
     Append(combos[(m - 1) \div Len(list) + 1], list[((m - 1) % Len(list)) + 1])]

IsProduct(f, m, values) ==
  f = [n \in 0..m |-> IF n = 0 THEN <<<<>>>> ELSE WithValues(f[n - 1], values[n])]

(* The recursion of ExpandGrid has a solution.                             *)
LEMMA GridProduct ==
  ASSUME NEW values, Len(values) \in Nat
  PROVE  \E f : /\ ExpandGrid(values) = f[Len(values)]
                /\ f[0] = <<<<>>>>
                /\ \A n \in 0..(Len(values) - 1) : f[n + 1] = WithValues(f[n], values[n + 1])
<1>. DEFINE N == Len(values)
            T == {m \in 0..N : \E f : IsProduct(f, m, values)}
<1>1. 0 \in T
  <2>. DEFINE f == [n \in 0..0 |-> <<<<>>>>]
  <2>1. IsProduct(f, 0, values)
    BY DEF IsProduct
  <2>. QED BY <2>1
<1>2. ASSUME NEW m \in 0..(N - 1), m \in T PROVE m + 1 \in T
  <2>1. PICK f : IsProduct(f, m, values)
    BY <1>2
  <2>. DEFINE g == [n \in 0..(m + 1) |->
                      IF n = m + 1 THEN WithValues(f[m], values[m + 1]) ELSE f[n]]
  <2>2. ASSUME NEW n \in 0..(m + 1)
        PROVE  g[n] = IF n = 0 THEN <<<<>>>> ELSE WithValues(g[n - 1], values[n])
    <3>1. CASE n = 0
      BY <2>1, <3>1 DEF IsProduct
    <3>2. CASE n = m + 1
      <4>1. g[n - 1] = f[m]
        BY <3>2
      <4>. QED BY <3>2, <4>1
    <3>3. CASE n # 0 /\ n # m + 1
      <4>1. n \in 0..m /\ n - 1 \in 0..m /\ n - 1 # m + 1
        BY <3>3
      <4>2. g[n] = f[n] /\ g[n - 1] = f[n - 1]
        BY <4>1
      <4>3. f[n] = WithValues(f[n - 1], values[n])
        BY <2>1, <3>3, <4>1 DEF IsProduct
      <4>. QED BY <3>3, <4>2, <4>3
    <3>. QED BY <3>1, <3>2, <3>3
  <2>3. IsProduct(g, m + 1, values)
    BY <2>2 DEF IsProduct
  <2>. HIDE DEF g
  <2>. QED BY <2>3
<1>3. \E f : IsProduct(f, N, values)
  <2>1. N \in Nat /\ \A n \in 0..(N - 1) : n \in T => n + 1 \in T
    BY <1>2
  <2>. HIDE DEF T
  <2>2. \A n \in 0..N : n \in T
    BY <1>1, <2>1, Reached
  <2>3. N \in T
    BY <2>1, <2>2
  <2>. QED BY <2>3 DEF T
<1>. DEFINE f == CHOOSE f : IsProduct(f, N, values)
<1>4. IsProduct(f, N, values)
  BY <1>3
<1>5. ExpandGrid(values) = f[N]
  BY DEF ExpandGrid, IsProduct, WithValues
<1>. HIDE DEF f
<1>6. f[0] = <<<<>>>>
  BY <1>4 DEF IsProduct
<1>7. ASSUME NEW n \in 0..(N - 1) PROVE f[n + 1] = WithValues(f[n], values[n + 1])
  <2>1. n + 1 \in 0..N /\ n + 1 # 0 /\ (n + 1) - 1 = n
    OBVIOUS
  <2>. QED BY <1>4, <2>1 DEF IsProduct
<1>. QED BY <1>5, <1>6, <1>7

(* The combinations are numbered.                                          *)
LEMMA CombosNumbered ==
  ASSUME NEW values, Len(values) \in Nat, \A i \in 1..Len(values) : Len(values[i]) \in Nat
  PROVE  /\ Len(ExpandGrid(values)) \in Nat
         /\ DOMAIN ExpandGrid(values) = 1..Len(ExpandGrid(values))
<1>. DEFINE N == Len(values)
            Numbered(c) == Len(c) \in Nat /\ DOMAIN c = 1..Len(c)
<1>1. PICK f : /\ ExpandGrid(values) = f[N]
               /\ f[0] = <<<<>>>>
               /\ \A n \in 0..(N - 1) : f[n + 1] = WithValues(f[n], values[n + 1])
  BY GridProduct
<1>. DEFINE T == {n \in 0..N : Numbered(f[n])}
<1>2. 0 \in T
  BY <1>1
<1>3. ASSUME NEW n \in 0..(N - 1), n \in T PROVE n + 1 \in T
  <2>1. n + 1 \in 0..N /\ n + 1 \in 1..N
    OBVIOUS
  <2>2. PICK m \in Nat : m = Len(f[n]) * Len(values[n + 1])
    <3>1. Len(f[n]) \in Nat /\ Len(values[n + 1]) \in Nat
      BY <1>3, <2>1
    <3>2. \A x, y \in Nat : x * y \in Nat
      OBVIOUS
    <3>. QED BY <3>1, <3>2
  <2>. DEFINE c == f[n + 1]
  <2>3. c = [k \in 1..m |-> c[k]]
    BY <1>1, <2>2 DEF WithValues
  <2>. HIDE DEF c
  <2>4. c \in Seq({c[k] : k \in 1..m})
    BY <2>3
  <2>5. Numbered(c)
    BY <2>4
  <2>. QED BY <2>1, <2>5 DEF c
<1>4. \A n \in 0..(N - 1) : n \in T => n + 1 \in T
  BY <1>3
<1>. HIDE DEF T
<1>5. N \in T
  <2>1. \A n \in 0..N : n \in T
    BY <1>2, <1>4, Reached
  <2>. QED BY <2>1
<1>. QED BY <1>1, <1>5 DEF T

(* A stretch of a grid that is of one family.                              *)
IsFamily(q, name) == IsSeq(q) /\ \A i \in DOMAIN q : q[i].candidate = name

(* A study has the values of each family it trains.                        *)
HasValues(name) ==
  /\ Len(study.values[name]) \in Nat
  /\ \A i \in 1..Len(study.values[name]) : Len(study.values[name][i]) \in Nat

LEMMA PointsAreFamily == ASSUME NEW name, HasValues(name) PROVE IsFamily(Points(name), name)
<1>. DEFINE combos == ExpandGrid(study.values[name])
            q == Points(name)
<1>1. Len(combos) \in Nat /\ DOMAIN combos = 1..Len(combos)
  BY CombosNumbered DEF HasValues
<1>2. DOMAIN q = DOMAIN combos /\ \A i \in DOMAIN q : q[i].candidate = name
  BY DEF Points
<1>3. q = [i \in 1..Len(combos) |-> q[i]]
  BY <1>1 DEF Points
<1>. HIDE DEF q, combos
<1>4. q \in Seq({q[i] : i \in DOMAIN q})
  BY <1>1, <1>2, <1>3
<1>. QED BY <1>2, <1>4 DEF IsFamily, IsSeq, q

(* A study trains what it has values for.                                  *)
LEMMA TrainedHaveValues ==
  ASSUME study \in Studies
  PROVE  /\ study.path = "official" => HasValues("xgboost")
         /\ study.path = "candidate" => \A name : Trainable(name) => HasValues(name)
BY StudiesAssumption DEF HasValues, Trainable

(* What lies between two points of one family is of that family.           *)
Contiguous(q) ==
  \A i, j, k \in DOMAIN q : i < j /\ j < k /\ q[i].candidate = q[k].candidate
                              => q[j].candidate = q[i].candidate

(* Families one after the other.                                           *)
LEMMA OneAfterOther ==
  ASSUME NEW a, NEW b, IsSeq(a), IsSeq(b)
  PROVE  /\ IsSeq(a \o b) /\ Len(a \o b) = Len(a) + Len(b)
         /\ Len(a) \in Nat /\ Len(b) \in Nat /\ DOMAIN a = 1..Len(a) /\ DOMAIN b = 1..Len(b)
         /\ \A i \in 1..Len(a) : (a \o b)[i] = a[i]
         /\ \A i \in (Len(a) + 1)..(Len(a) + Len(b)) :
              i - Len(a) \in DOMAIN b /\ (a \o b)[i] = b[i - Len(a)]
<1>. DEFINE A == {a[i] : i \in DOMAIN a}
            B == {b[i] : i \in DOMAIN b}
            c == a \o b
<1>1. a \in Seq(A \cup B) /\ b \in Seq(A \cup B)
  BY DEF IsSeq
<1>2. /\ Len(a) \in Nat /\ Len(b) \in Nat /\ DOMAIN a = 1..Len(a) /\ DOMAIN b = 1..Len(b)
      /\ c \in Seq(A \cup B) /\ Len(c) = Len(a) + Len(b)
      /\ DOMAIN c = 1..(Len(a) + Len(b))
      /\ \A i \in 1..Len(a) : c[i] = a[i]
      /\ \A i \in 1..Len(b) : c[Len(a) + i] = b[i]
  BY <1>1
<1>. HIDE DEF c, A, B
<1>3. IsSeq(c)
  <2>1. c = [i \in 1..Len(c) |-> c[i]] /\ Len(c) \in Nat /\ DOMAIN c = 1..Len(c)
    BY <1>2
  <2>2. c \in Seq({c[i] : i \in DOMAIN c})
    BY <2>1
  <2>. QED BY <2>2 DEF IsSeq
<1>4. ASSUME NEW i \in (Len(a) + 1)..(Len(a) + Len(b))
      PROVE  i - Len(a) \in DOMAIN b /\ c[i] = b[i - Len(a)]
  <2>1. i - Len(a) \in 1..Len(b) /\ Len(a) + (i - Len(a)) = i
    BY <1>2
  <2>. QED BY <1>2, <2>1
<1>. QED BY <1>2, <1>3, <1>4 DEF c

(* The grid goes family by family.                                         *)
LEMMA GridByFamily == ASSUME study \in Studies PROVE IsSeq(Grid) /\ Contiguous(Grid)
<1>1. study.path \in {"candidate", "official"}
  BY StudiesAssumption
<1>2. CASE study.path = "official"
  <2>1. Grid = Points("xgboost")
    BY <1>2 DEF Grid
  <2>2. IsFamily(Grid, "xgboost")
    BY <1>2, <2>1, TrainedHaveValues, PointsAreFamily
  <2>. QED BY <2>2 DEF IsFamily, Contiguous
<1>3. CASE study.path = "candidate"
  <2>. DEFINE a == PointsIfTrainable("logistic_regression")
              b == PointsIfTrainable("xgboost")
              c == PointsIfTrainable("lightgbm")
              ab == a \o b
  <2>1. ASSUME NEW name PROVE IsFamily(PointsIfTrainable(name), name)
    <3>1. CASE Trainable(name)
      BY <1>3, <3>1, TrainedHaveValues, PointsAreFamily DEF PointsIfTrainable
    <3>2. CASE ~Trainable(name)
      <4>1. PointsIfTrainable(name) = <<>>
        BY <3>2 DEF PointsIfTrainable
      <4>. QED BY <4>1 DEF IsFamily, IsSeq
    <3>. QED BY <3>1, <3>2
  <2>2. IsFamily(a, "logistic_regression") /\ IsFamily(b, "xgboost") /\ IsFamily(c, "lightgbm")
    BY <2>1
  <2>3. Grid = ab \o c
    BY <1>3 DEF Grid
  <2>. HIDE DEF a, b, c
  <2>4. /\ IsSeq(ab) /\ Len(ab) = Len(a) + Len(b) /\ Len(a) \in Nat /\ Len(b) \in Nat
        /\ DOMAIN a = 1..Len(a)
        /\ \A i \in 1..Len(a) : ab[i] = a[i]
        /\ \A i \in (Len(a) + 1)..(Len(a) + Len(b)) : i - Len(a) \in DOMAIN b /\ ab[i] = b[i - Len(a)]
    BY <2>2, OneAfterOther DEF IsFamily
  <2>. HIDE DEF ab
  <2>5. /\ IsSeq(Grid) /\ Len(Grid) = Len(ab) + Len(c) /\ Len(c) \in Nat
        /\ \A i \in 1..Len(ab) : Grid[i] = ab[i]
        /\ \A i \in (Len(ab) + 1)..(Len(ab) + Len(c)) :
             i - Len(ab) \in DOMAIN c /\ Grid[i] = c[i - Len(ab)]
    <3>1. IsSeq(ab) /\ IsSeq(c)
      BY <2>2, <2>4 DEF IsFamily
    <3>2. /\ IsSeq(ab \o c) /\ Len(ab \o c) = Len(ab) + Len(c) /\ Len(c) \in Nat
          /\ \A i \in 1..Len(ab) : (ab \o c)[i] = ab[i]
          /\ \A i \in (Len(ab) + 1)..(Len(ab) + Len(c)) :
               i - Len(ab) \in DOMAIN c /\ (ab \o c)[i] = c[i - Len(ab)]
      BY <3>1, OneAfterOther
    <3>. QED BY <2>3, <3>2
  <2>. DEFINE q == Grid
              m == Len(a)
              n == Len(a) + Len(b)
  <2>6. DOMAIN q = 1..Len(q) /\ Len(q) \in Nat /\ m \in Nat /\ n \in Nat /\ m <= n
    BY <2>4, <2>5 DEF IsSeq
  <2>. HIDE DEF q
  <2>7. ASSUME NEW i \in DOMAIN q
        PROVE  q[i].candidate = IF i <= m THEN "logistic_regression"
                                ELSE IF i <= n THEN "xgboost" ELSE "lightgbm"
    <3>1. CASE i <= m
      <4>1. i \in 1..m /\ i \in 1..n
        BY <2>6, <3>1
      <4>. QED BY <2>2, <2>4, <2>5, <3>1, <4>1 DEF IsFamily, q
    <3>2. CASE ~(i <= m) /\ i <= n
      <4>1. i \in (m + 1)..n /\ i \in 1..n
        BY <2>6, <3>2
      <4>. QED BY <2>2, <2>4, <2>5, <3>2, <4>1 DEF IsFamily, q
    <3>3. CASE ~(i <= m) /\ ~(i <= n)
      <4>1. i \in (n + 1)..Len(q)
        BY <2>6, <3>3
      <4>. QED BY <2>2, <2>4, <2>5, <3>3, <4>1 DEF IsFamily, q
    <3>. QED BY <3>1, <3>2, <3>3
  <2>. HIDE DEF m, n
  <2>8. Contiguous(q)
    BY <2>6, <2>7 DEF Contiguous
  <2>. QED BY <2>5, <2>8 DEF q
<1>. QED BY <1>1, <1>2, <1>3

(* Metrics that can be compared.                                           *)
AreFigures(m) == m.ap \in Int /\ m.auc[1] \in Int /\ m.brier \in Int

(* The metrics of a scored split are whole here.                           *)
LEMMA MetricsAreFigures == ASSUME NEW s, IsScored(s) PROVE AreFigures(ComputeBinaryMetrics(s))
<1>. DEFINE D == DOMAIN s
            P == Positives(s)
<1>1. /\ IsFiniteSet(D) /\ IsFiniteSet(P) /\ P \subseteq D /\ Cardinality(P) \in Nat /\ Len(s) \in Nat
  BY Classes
<1>2. \A i \in D : s[i].p \in Int /\ s[i].y \in Int
  BY DEF IsScored
<1>3. ASSUME NEW u \in SUBSET D PROVE IsFiniteSet(u) /\ Cardinality(u) \in Nat
  BY <1>1, FS_Subset, FS_CardinalityType
<1>4. Brier(s) \in Int
  <2>. DEFINE f == [i \in D |-> (s[i].p - 100 * s[i].y) * (s[i].p - 100 * s[i].y)]
  <2>1. DOMAIN f = D /\ \A i \in D : f[i] \in Int
    BY <1>2
  <2>. HIDE DEF f, D
  <2>2. SumOver(f) \in Int
    BY <1>1, <2>1, SumIsInt
  <2>. QED BY <2>2 DEF Brier, f, D
<1>5. AveragePrecision(s) \in Int
  <2>. DEFINE Upto(i) == {k \in D : s[k].p > s[i].p \/ (s[k].p = s[i].p /\ k <= i)}
              f == [i \in P |-> (60 * Cardinality(Upto(i) \cap P)) \div Cardinality(Upto(i))]
  <2>1. ASSUME NEW i \in P PROVE f[i] \in Int
    <3>1. i \in D /\ D = 1..Len(s)
      BY <1>1, Classes
    <3>2. i \in Upto(i)
      BY <1>1, <3>1
    <3>3. Upto(i) \in SUBSET D /\ Upto(i) \cap P \in SUBSET D
      OBVIOUS
    <3>. DEFINE a == Upto(i)
                b == Upto(i) \cap P
    <3>4. f[i] = (60 * Cardinality(b)) \div Cardinality(a)
      OBVIOUS
    <3>. HIDE DEF a, b, f, D, P
    <3>5. IsFiniteSet(a) /\ Cardinality(a) \in Nat /\ Cardinality(b) \in Nat
      BY <1>3, <3>3 DEF a, b
    <3>6. Cardinality(a) # 0
      BY <3>2, <3>5, FS_EmptySet DEF a
    <3>7. \A x, y \in Nat : y # 0 => (60 * x) \div y \in Int
      BY SMT
    <3>. QED BY <3>4, <3>5, <3>6, <3>7
  <2>2. DOMAIN f = P
    OBVIOUS
  <2>. HIDE DEF f, P
  <2>3. SumOver(f) \in Int
    BY <1>1, <2>1, <2>2, SumIsInt
  <2>. QED BY <2>3 DEF AveragePrecision, f, P
<1>6. AucRoc(s)[1] \in Int
  <2>. DEFINE f == [i \in P |-> 2 * Cardinality({k \in D : s[k].p < s[i].p}) + 1
                                  + Cardinality({k \in D : s[k].p = s[i].p})]
  <2>1. ASSUME NEW i \in P PROVE f[i] \in Int
    <3>. DEFINE a == {k \in D : s[k].p < s[i].p}
                b == {k \in D : s[k].p = s[i].p}
    <3>1. a \in SUBSET D /\ b \in SUBSET D /\ f[i] = 2 * Cardinality(a) + 1 + Cardinality(b)
      OBVIOUS
    <3>. HIDE DEF a, b, f
    <3>2. Cardinality(a) \in Nat /\ Cardinality(b) \in Nat
      BY <1>3, <3>1
    <3>. QED BY <3>1, <3>2
  <2>2. DOMAIN f = P
    OBVIOUS
  <2>. DEFINE pos == Cardinality(P)
  <2>3. AucRoc(s) = IF pos = 0 \/ Len(s) - pos = 0 THEN <<1, 2>>
                    ELSE <<SumOver(f) - pos * (pos + 1), 2 * pos * (Len(s) - pos)>>
    BY DEF AucRoc
  <2>. HIDE DEF f, P
  <2>4. SumOver(f) \in Int
    BY <1>1, <2>1, <2>2, SumIsInt
  <2>5. pos \in Nat /\ pos * (pos + 1) \in Int
    BY <1>1
  <2>. HIDE DEF pos
  <2>. QED BY <2>3, <2>4, <2>5
<1>. QED BY <1>4, <1>5, <1>6 DEF AreFigures, ComputeBinaryMetrics

(* A row of the log before another, by the metric of the report.           *)
Beats(log, i, k) == Better(log[i].metrics, log[k].metrics, "validation_auc_pr")

(* Nothing is better than itself; what is no better than a row is beaten by*)
(* whatever beats that, and what beats a row beats what is no better.      *)
LEMMA BetterOrders ==
  ASSUME NEW l, NEW m, NEW n, AreFigures(l), AreFigures(m), AreFigures(n)
  PROVE  LET B(a, b) == Better(a, b, "validation_auc_pr")
         IN  /\ ~B(l, l)
             /\ B(l, m) /\ ~B(n, m) => B(l, n)
             /\ ~B(l, m) /\ B(n, m) => ~B(l, n)
<1>1. \A m1 : MetricValue(m1, "validation_auc_pr") = m1.ap
  BY DEF MetricValue
<1>. QED BY <1>1 DEF Better, AreFigures

(* The first of the best of the first n rows.                              *)
FirstBest(log, b, n) ==
  /\ b \in 1..n
  /\ \A k \in 1..n : ~Beats(log, k, b)
  /\ \A k \in 1..(b - 1) : Beats(log, b, k)

AreRuns(log) == IsSeq(log) /\ \A i \in DOMAIN log : AreFigures(log[i].metrics)

(* The first row is the best so far.                                       *)
LEMMA FirstIsBest ==
  ASSUME NEW log, 1 \in DOMAIN log, AreFigures(log[1].metrics) PROVE FirstBest(log, 1, 1)
BY BetterOrders DEF FirstBest, Beats

(* The next row is the best if it beats the best before it.                *)
LEMMA NextBest ==
  ASSUME NEW log, NEW n \in Nat, \A i \in 1..(n + 1) : AreFigures(log[i].metrics),
         NEW b, FirstBest(log, b, n)
  PROVE  FirstBest(log, IF Beats(log, n + 1, b) THEN n + 1 ELSE b, n + 1)
<1>1. b \in 1..n /\ b \in 1..(n + 1) /\ n + 1 \in 1..(n + 1)
  BY DEF FirstBest
<1>2. CASE Beats(log, n + 1, b)
  <2>1. ASSUME NEW k \in 1..n PROVE Beats(log, n + 1, k) /\ ~Beats(log, k, n + 1)
    <3>1. k \in 1..(n + 1) /\ ~Beats(log, k, b)
      BY <2>1 DEF FirstBest
    <3>2. Beats(log, n + 1, k)
      BY <1>1, <1>2, <3>1, BetterOrders DEF Beats
    <3>3. ~Beats(log, k, n + 1)
      BY <1>1, <1>2, <3>1, BetterOrders DEF Beats
    <3>. QED BY <3>2, <3>3
  <2>2. ~Beats(log, n + 1, n + 1)
    BY <1>1, BetterOrders DEF Beats
  <2>. QED BY <1>1, <1>2, <2>1, <2>2 DEF FirstBest
<1>3. CASE ~Beats(log, n + 1, b)
  <2>1. \A k \in 1..(n + 1) : k \in 1..n \/ k = n + 1
    OBVIOUS
  <2>. QED BY <1>1, <1>3, <2>1 DEF FirstBest
<1>. QED BY <1>2, <1>3

(* A log has a first of its best rows, and the choice takes it.            *)
LEMMA BestIsFirst ==
  ASSUME NEW log, AreRuns(log), log # <<>>
  PROVE  FirstBest(log, BestRun(log, "validation_auc_pr"), Len(log))
<1>. DEFINE N == Len(log)
            T == {n \in 0..N : n = 0 \/ \E b : FirstBest(log, b, n)}
<1>1. N \in Nat /\ N >= 1 /\ DOMAIN log = 1..N
  BY DEF AreRuns, IsSeq
<1>2. 0 \in T
  BY <1>1
<1>3. ASSUME NEW n \in 0..(N - 1), n \in T PROVE n + 1 \in T
  <2>1. n + 1 \in 0..N /\ \A i \in 1..(n + 1) : AreFigures(log[i].metrics)
    BY <1>1 DEF AreRuns
  <2>2. CASE n = 0
    <3>1. FirstBest(log, 1, 1)
      BY <1>1, <2>1, <2>2, FirstIsBest
    <3>. QED BY <2>1, <2>2, <3>1
  <2>3. CASE n # 0
    <3>1. PICK b : FirstBest(log, b, n)
      BY <1>3, <2>3
    <3>2. \E c : FirstBest(log, c, n + 1)
      BY <1>3, <2>1, <3>1, NextBest
    <3>. QED BY <2>1, <3>2
  <2>. QED BY <2>2, <2>3
<1>4. \A n \in 0..(N - 1) : n \in T => n + 1 \in T
  BY <1>3
<1>. HIDE DEF T
<1>5. N \in T
  <2>1. \A n \in 0..N : n \in T
    BY <1>1, <1>2, <1>4, Reached
  <2>. QED BY <1>1, <2>1
<1>6. \E b \in DOMAIN log : FirstBest(log, b, N)
  BY <1>1, <1>5 DEF T, FirstBest
<1>. DEFINE Chosen(i) == /\ \A k \in DOMAIN log : ~Better(log[k].metrics, log[i].metrics, "validation_auc_pr")
                         /\ \A k \in 1..(i - 1) : Better(log[i].metrics, log[k].metrics, "validation_auc_pr")
<1>7. \A b \in DOMAIN log : FirstBest(log, b, N) <=> Chosen(b)
  BY <1>1 DEF FirstBest, Beats
<1>8. BestRun(log, "validation_auc_pr") = CHOOSE i \in DOMAIN log : Chosen(i)
  BY DEF BestRun
<1>. HIDE DEF Chosen
<1>9. (CHOOSE i \in DOMAIN log : Chosen(i)) \in {i \in DOMAIN log : Chosen(i)}
  BY <1>6, <1>7
<1>. QED BY <1>7, <1>8, <1>9

(* The report lists the first best row first, if the log goes family by    *)
(* family.                                                                 *)
LEMMA FirstIsReported ==
  ASSUME NEW log, AreRuns(log), Contiguous(log), NEW b, FirstBest(log, b, Len(log))
  PROVE  SummarizeCandidateComparison(log)[1] = b
<1>. DEFINE D == DOMAIN log
            Same(i)  == {k \in D : log[k].candidate = log[i].candidate}
            first(i) == CHOOSE k \in Same(i) : \A j \in Same(i) : k <= j
            kept     == {i \in D : \A k \in Same(i) : ~Beats(log, k, i) /\ (k < i => Beats(log, i, k))}
            Before(i, k) == Beats(log, i, k) \/ (~Beats(log, k, i) /\ first(i) < first(k))
            Earlier(i) == {k \in kept : Before(k, i)}
<1>1. Len(log) \in Nat /\ D = 1..Len(log) /\ b \in D
  BY DEF AreRuns, IsSeq, FirstBest
<1>2. /\ \A k \in D : ~Beats(log, k, b)
      /\ \A k \in D : k < b => Beats(log, b, k)
  BY <1>1 DEF FirstBest
<1>3. ASSUME NEW i \in D
      PROVE  first(i) \in Same(i) /\ \A j \in Same(i) : first(i) <= j
  <2>1. Same(i) \subseteq Nat /\ Same(i) # {}
    BY <1>1
  <2>2. \E k \in Same(i) : \A j \in Same(i) : k <= j
    <3>. DEFINE S == Same(i)
    <3>1. S \subseteq Nat /\ S # {}
      BY <2>1
    <3>. HIDE DEF S
    <3>2. PICK k \in S : \A j \in S : ~(<<j, k>> \in OpToRel(<, Nat))
      BY <3>1, NatLessThanWellFounded, WFMin
    <3>3. \A j \in S : ~(j < k)
      BY <3>1, <3>2 DEF OpToRel
    <3>4. \A j \in S : k <= j
      BY <3>1, <3>3
    <3>. QED BY <3>4 DEF S
  <2>. DEFINE Least(k) == \A j \in Same(i) : k <= j
  <2>3. \E k \in Same(i) : Least(k)
    BY <2>2
  <2>4. first(i) = CHOOSE k \in Same(i) : Least(k)
    OBVIOUS
  <2>. HIDE DEF Least, Same, first
  <2>5. first(i) \in Same(i) /\ Least(first(i))
    BY <2>3, <2>4
  <2>. QED BY <2>5 DEF Least
<1>4. ASSUME NEW i \in D
      PROVE  /\ first(i) \in D /\ first(i) <= i
             /\ log[first(i)].candidate = log[i].candidate
  <2>1. i \in Same(i)
    OBVIOUS
  <2>2. first(i) \in Same(i) /\ first(i) <= i
    BY <1>3, <2>1
  <2>3. \A k \in Same(i) : k \in D /\ log[k].candidate = log[i].candidate
    OBVIOUS
  <2>. HIDE DEF first, Same
  <2>. QED BY <2>2, <2>3
<1>5. ASSUME NEW i \in D, log[i].candidate = log[b].candidate PROVE first(i) = first(b)
  <2>1. Same(i) = Same(b)
    BY <1>5
  <2>. QED BY <2>1
<1>6. b \in kept
  BY <1>1, <1>2
(* A row after the best of another family comes in the report after it.    *)
<1>7. ASSUME NEW i \in D, i > b PROVE ~(first(i) < first(b))
  <2>. SUFFICES ASSUME first(i) < first(b) PROVE FALSE
    OBVIOUS
  <2>1. /\ first(i) \in D /\ first(b) \in D /\ first(i) <= i /\ first(b) <= b
        /\ log[first(i)].candidate = log[i].candidate
    BY <1>1, <1>4
  <2>2. log[i].candidate # log[b].candidate
    <3>. SUFFICES ASSUME log[i].candidate = log[b].candidate PROVE FALSE
      OBVIOUS
    <3>1. first(i) = first(b)
      BY <1>5
    <3>. HIDE DEF first
    <3>. QED BY <1>1, <2>1, <3>1
  <2>. HIDE DEF first
  <2>3. first(i) < b /\ b < i
    BY <1>1, <1>7, <2>1
  <2>4. log[b].candidate = log[first(i)].candidate
    BY <1>1, <2>1, <2>3 DEF Contiguous
  <2>. QED BY <2>1, <2>2, <2>4
<1>8. ASSUME NEW k \in kept PROVE ~Before(k, b)
  <2>. SUFFICES ASSUME ~Beats(log, b, k), first(k) < first(b) PROVE FALSE
    BY <1>2
  <2>1. k \in D /\ first(k) \in D
    BY <1>4
  <2>2. k >= b
    BY <1>1, <1>2, <2>1
  <2>. HIDE DEF first, kept
  <2>3. k = b => FALSE
    BY <1>1, <2>1
  <2>4. k > b
    BY <1>1, <2>1, <2>2, <2>3
  <2>. QED BY <1>7, <2>1, <2>4
<1>9. ASSUME NEW i \in kept, \A k \in kept : ~Before(k, i) PROVE i = b
  <2>1. i \in D /\ ~Beats(log, b, i) /\ ~Beats(log, i, b)
    BY <1>2, <1>6, <1>9
  <2>2. ~(first(b) < first(i))
    BY <1>6, <1>9, <2>1
  <2>3. i >= b
    BY <1>1, <1>2, <2>1
  <2>. SUFFICES ASSUME i > b PROVE FALSE
    BY <1>1, <2>1, <2>3
  <2>4. log[i].candidate # log[b].candidate
    BY <1>1, <1>9, <2>1
  <2>5. ~(first(i) < first(b))
    BY <1>7, <2>1
  <2>6. /\ first(i) \in D /\ first(b) \in D
        /\ log[first(i)].candidate = log[i].candidate /\ log[first(b)].candidate = log[b].candidate
    BY <1>1, <1>4, <2>1
  <2>. HIDE DEF first
  <2>7. first(i) = first(b)
    BY <1>1, <2>2, <2>5, <2>6
  <2>. QED BY <2>4, <2>6, <2>7
<1>10. SummarizeCandidateComparison(log) =
         [n \in 1..Cardinality(kept) |-> CHOOSE i \in kept : Cardinality(Earlier(i)) = n - 1]
  BY DEF SummarizeCandidateComparison, Beats
<1>11. IsFiniteSet(kept) /\ \A i \in kept : Earlier(i) \in SUBSET kept
  <2>1. IsFiniteSet(D)
    BY <1>1, FS_Interval
  <2>2. kept \in SUBSET D
    OBVIOUS
  <2>3. \A i : Earlier(i) \in SUBSET kept
    OBVIOUS
  <2>. HIDE DEF kept, D, Earlier
  <2>. QED BY <2>1, <2>2, <2>3, FS_Subset
<1>12. /\ Earlier(b) = {}
       /\ \A i \in kept : Earlier(i) = {} => i = b
  BY <1>8, <1>9
<1>. HIDE DEF kept, Earlier
<1>13. Cardinality(kept) \in Nat /\ Cardinality(kept) # 0
  BY <1>6, <1>11, FS_EmptySet, FS_CardinalityType
<1>14. \A i \in kept : Cardinality(Earlier(i)) = 0 <=> i = b
  <2>1. \A i \in kept : IsFiniteSet(Earlier(i))
    BY <1>11, FS_Subset
  <2>. QED BY <1>6, <1>12, <2>1, FS_EmptySet
<1>15. SummarizeCandidateComparison(log)[1] = CHOOSE i \in kept : Cardinality(Earlier(i)) = 0
  BY <1>10, <1>13
<1>. QED BY <1>6, <1>14, <1>15

(* Inductive: the log follows the grid, the official search is at the first*)
(* best row of its log, and a candidate run that ranks as the report does  *)
(* has selected that row.                                                  *)
FollowsGrid(log) == \A i \in DOMAIN log : i \in DOMAIN Grid /\ log[i].candidate = Grid[i].candidate

BestOK ==
  IF study.path = "official" THEN IF best = 0 THEN runs = <<>> ELSE FirstBest(runs, best, Len(runs))
  ELSE /\ stage \in {"prepare", "search"} => best = 0
       /\ best # 0 /\ study.metric = "validation_auc_pr" => FirstBest(runs, best, Len(runs))

SelInd ==
  /\ study = NoStudy => best = 0
  /\ study # NoStudy =>
       AreRuns(runs) /\ FollowsGrid(runs) /\ (stage = "search" => Grid # <<>>) /\ BestOK

LEMMA SelStarts == ASSUME Init PROVE SelInd
<1>1. runs = <<>> /\ best = 0 /\ stage = "prepare"
  BY DEF Init, PipelineInit
<1>2. DOMAIN runs = {} /\ IsSeq(runs)
  BY <1>1 DEF IsSeq
<1>. QED BY <1>1, <1>2 DEF SelInd, AreRuns, FollowsGrid, BestOK

LEMMA GridStays == ASSUME UNCHANGED study PROVE Grid' = Grid
BY DEF Grid, PointsIfTrainable, Trainable, Points

(* Nothing is selected anew once the search is over.                       *)
LEMMA SelUntouched ==
  ASSUME SelInd, UNCHANGED <<study, runs, best>>, stage' \in {"prepare", "search"} => UNCHANGED stage
  PROVE  SelInd'
<1>1. Grid' = Grid
  BY GridStays
<1>2. BestOK => BestOK'
  BY DEF BestOK, FirstBest, Beats, Better, MetricValue
<1>3. AreRuns(runs)' = AreRuns(runs)
  BY DEF AreRuns, AreFigures, IsSeq
<1>4. FollowsGrid(runs) => FollowsGrid(runs)'
  BY <1>1 DEF FollowsGrid
<1>. QED BY <1>1, <1>2, <1>3, <1>4 DEF SelInd

(* The rows that a search predicts can be scored.                          *)
LEMMA SearchRowsOK ==
  ASSUME LeakInd, study # NoStudy
  PROVE  IsSeq(SearchRows("validation")) /\ AreLabelled(SearchRows("validation"))
<1>1. /\ study.path \in {"candidate", "official"} /\ MaxSearchValidation \in Nat \ {0}
      /\ IsSeq(splits["validation"]) /\ AreLabelled(splits["validation"])
  BY StudiesAssumption DEF LeakInd, AreSplits, IsSplit, Splits
<1>2. \/ SearchRows("validation") = splits["validation"]
      \/ SearchRows("validation") = SearchSlice(splits["validation"], MaxSearchValidation)
  BY <1>1 DEF SearchRows
<1>. QED BY <1>1, <1>2, Sliced

(* A step of the search adds the next point of the grid, and the official  *)
(* one moves on to it if it is better.                                     *)
LEMMA SearchKeeps ==
  ASSUME LeakInd, SelInd, study # NoStudy, SearchStep PROVE SelInd'
<1>. DEFINE n == Len(runs)
<1>1. /\ study.path \in {"candidate", "official"} /\ study \in Studies /\ study.probs \subseteq 0..100
  BY StudiesAssumption DEF LeakInd
<1>2. /\ AreRuns(runs) /\ FollowsGrid(runs) /\ Grid # <<>> /\ BestOK
      /\ IsSeq(runs) /\ n \in Nat /\ DOMAIN runs = 1..n
      /\ stage = "search" /\ n < Len(Grid)
  BY DEF SelInd, SearchStep, AreRuns, IsSeq
<1>3. UNCHANGED <<study, stage>>
  BY DEF SearchStep
<1>4. Grid' = Grid
  BY <1>3, GridStays
<1>5. PICK run :
        /\ \E scored \in PredictProbabilities(FitModel(Grid[n + 1].params, SearchRows("train")),
                                              SearchRows("validation")) :
             run.metrics = ComputeBinaryMetrics(scored)
        /\ runs' = Append(runs, run) /\ run.candidate = Grid[n + 1].candidate
        /\ best' = IF study.path = "candidate" THEN 0
                   ELSE IF best = 0 THEN 1
                   ELSE IF Better(run.metrics, runs[best].metrics, "validation_auc_pr")
                     THEN n + 1 ELSE best
  <2>. DEFINE point == Grid[n + 1]
              fitted == FitModel(point.params, SearchRows("train"))
  <2>1. PICK scored \in PredictProbabilities(fitted, SearchRows("validation")) :
          LET metrics == ComputeBinaryMetrics(scored)
          IN  /\ runs' = Append(runs, [candidate |-> point.candidate, params |-> point.params,
                                       fitted |-> fitted.fitted, metrics |-> metrics])
              /\ best' = IF study.path = "candidate" THEN 0
                         ELSE IF best = 0 THEN 1
                         ELSE IF Better(metrics, runs[best].metrics, "validation_auc_pr")
                           THEN n + 1 ELSE best
    BY DEF SearchStep
  <2>. QED BY <2>1
<1>6. AreFigures(run.metrics)
  BY <1>1, <1>5, SearchRowsOK, SplitIsScored, MetricsAreFigures
<1>7. /\ IsSeq(runs') /\ Len(runs') = n + 1 /\ DOMAIN runs' = 1..(n + 1)
      /\ runs'[n + 1] = run /\ \A k \in 1..n : runs'[k] = runs[k]
  BY <1>2, <1>5, Grown DEF IsSeq
<1>. HIDE DEF n
<1>8. \A k \in 1..(n + 1) : k \in 1..n \/ k = n + 1
  BY <1>2
<1>9. AreRuns(runs')
  BY <1>2, <1>6, <1>7, <1>8 DEF AreRuns
<1>10. \A i \in DOMAIN runs' : i \in DOMAIN Grid /\ runs'[i].candidate = Grid[i].candidate
  <2>1. n + 1 \in DOMAIN Grid
    BY <1>1, <1>2, GridByFamily DEF IsSeq
  <2>. QED BY <1>2, <1>5, <1>7, <1>8, <2>1 DEF FollowsGrid
<1>11. ASSUME study.path = "official" PROVE best' # 0 /\ FirstBest(runs', best', n + 1)
  <2>1. CASE best = 0
    <3>1. n = 0
      BY <1>2, <1>11, <2>1 DEF BestOK, n
    <3>2. n + 1 = 1
      BY <3>1
    <3>3. 1 \in DOMAIN runs' /\ AreFigures(runs'[1].metrics)
      BY <1>6, <1>7, <3>2
    <3>4. FirstBest(runs', 1, 1)
      BY <3>3, FirstIsBest
    <3>5. best' = 1
      BY <1>5, <1>11, <2>1
    <3>. QED BY <3>2, <3>4, <3>5
  <2>2. CASE best # 0
    <3>1. FirstBest(runs, best, n)
      BY <1>2, <1>11, <2>2 DEF BestOK, n
    <3>2. best \in 1..n /\ FirstBest(runs', best, n)
      BY <1>2, <1>7, <3>1 DEF FirstBest, Beats
    <3>3. best' = IF Beats(runs', n + 1, best) THEN n + 1 ELSE best
      BY <1>5, <1>7, <1>11, <2>2, <3>2 DEF Beats
    <3>4. \A i \in 1..(n + 1) : AreFigures(runs'[i].metrics)
      BY <1>7, <1>9 DEF AreRuns
    <3>. QED BY <1>2, <3>2, <3>3, <3>4, NextBest
  <2>. QED BY <2>1, <2>2
<1>12. study.path # "official" => best' = 0
  BY <1>1, <1>5
<1>13. BestOK'
  BY <1>3, <1>7, <1>11, <1>12 DEF BestOK
<1>. QED BY <1>2, <1>3, <1>4, <1>9, <1>10, <1>13 DEF SelInd, FollowsGrid

LEMMA SelKept == ASSUME LeakInd, SelInd, [Next]_vars PROVE SelInd'
<1>1. CASE UNCHANGED pipelineVars
  BY <1>1, SelUntouched DEF pipelineVars
<1>2. CASE study # NoStudy /\ PipelineNext
  <2>1. study.path \in {"candidate", "official"} /\ study \in Studies
    BY <1>2, StudiesAssumption DEF LeakInd
  <2>2. CASE Prepare /\ ~Fail
    <3>1. /\ UNCHANGED <<study, runs, best>> /\ stage = "prepare"
          /\ stage' = "raised" \/ (stage' = "search" /\ Grid # <<>>)
      BY <2>2 DEF Prepare
    <3>2. Grid' = Grid
      BY <3>1, GridStays
    <3>3. AreRuns(runs) /\ FollowsGrid(runs) /\ BestOK
      BY <1>2 DEF SelInd
    <3>4. BestOK'
      BY <3>1, <3>3 DEF BestOK, FirstBest, Beats, Better, MetricValue
    <3>5. FollowsGrid(runs)'
      BY <3>1, <3>2, <3>3 DEF FollowsGrid
    <3>. QED BY <1>2, <3>1, <3>2, <3>3, <3>4, <3>5 DEF SelInd
  <2>3. CASE SearchStep
    BY <1>2, <2>3, SearchKeeps
  <2>4. CASE SelectBest
    <3>1. /\ UNCHANGED <<study, runs>> /\ stage = "search" /\ Len(runs) = Len(Grid)
          /\ stage' \notin {"prepare", "search"}
          /\ best' = IF study.path = "candidate" THEN BestRun(runs, study.metric) ELSE best
      BY <2>4 DEF SelectBest
    <3>2. AreRuns(runs) /\ FollowsGrid(runs) /\ Grid # <<>> /\ BestOK
      BY <1>2, <3>1 DEF SelInd
    <3>3. Grid' = Grid
      BY <3>1, GridStays
    <3>4. runs # <<>>
      <4>1. IsSeq(Grid)
        BY <2>1, GridByFamily
      <4>2. Len(Grid) # 0
        BY <3>2, <4>1 DEF IsSeq
      <4>. QED BY <3>1, <4>2
    <3>5. FirstBest(runs, BestRun(runs, "validation_auc_pr"), Len(runs))
      BY <3>2, <3>4, BestIsFirst
    <3>6. BestOK'
      <4>1. CASE study.path = "official"
        BY <3>1, <3>2, <4>1 DEF BestOK
      <4>2. CASE study.path = "candidate"
        BY <3>1, <3>5, <4>2 DEF BestOK
      <4>. QED BY <2>1, <4>1, <4>2
    <3>. QED BY <1>2, <3>1, <3>2, <3>3, <3>6 DEF SelInd, FollowsGrid
  <2>5. CASE Fail \/ FitForCalibration \/ CalibrateOfficial \/ Refit
             \/ CalibrateManifest \/ EvaluateManifest \/ EvaluateOfficial
    <3>1. /\ UNCHANGED <<study, runs, best>>
          /\ stage' \in {"prepare", "search"} => UNCHANGED stage
      BY <2>5 DEF Fail, FitForCalibration, CalibrateOfficial, Refit, CalibrateManifest,
                  EvaluateManifest, EvaluateOfficial
    <3>. QED BY <3>1, SelUntouched
  <2>. QED BY <1>2, <2>2, <2>3, <2>4, <2>5 DEF PipelineNext
<1>3. CASE study # NoStudy /\ BenchmarkNext
  BY <1>1, <1>3 DEF BenchmarkNext, BenchmarkManifest, BenchmarkOfficial
<1>4. CASE UNCHANGED vars
  BY <1>1, <1>4 DEF vars
<1>. QED BY <1>1, <1>2, <1>3, <1>4 DEF Next

LEMMA SelInvariant == Spec => []SelInd
<1>1. Init => SelInd
  BY SelStarts
<1>2. LeakInd /\ SelInd /\ [Next]_vars => SelInd'
  BY SelKept
<1>. QED BY <1>1, <1>2, LeakInvariant, PTL DEF Spec

(* The row that was selected is the one the report lists first, for any    *)
(* families and values, any file and any scores, ties included; so is the  *)
(* row at which the running maximum of the official search ends.           *)
THEOREM SelectionsAgreeHolds == Spec => []SelectionsAgree
<1>1. ASSUME LeakInd, SelInd PROVE SelectionsAgree
  <2>. SUFFICES ASSUME best # 0,
                       study.path = "official" \/ study.metric = "validation_auc_pr"
                PROVE  best = SummarizeCandidateComparison(runs)[1]
    BY DEF SelectionsAgree
  <2>1. study # NoStudy /\ study \in Studies
    BY <1>1 DEF SelInd, LeakInd
  <2>2. AreRuns(runs) /\ FollowsGrid(runs) /\ BestOK
    BY <1>1, <2>1 DEF SelInd
  <2>3. FirstBest(runs, best, Len(runs))
    BY <2>2 DEF BestOK
  <2>4. Contiguous(runs)
    BY <2>1, <2>2, GridByFamily DEF Contiguous, FollowsGrid
  <2>. QED BY <2>2, <2>3, <2>4, FirstIsReported
<1>. QED BY <1>1, LeakInvariant, SelInvariant, PTL
=============================================================================
