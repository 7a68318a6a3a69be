-------------------------- MODULE ModelStore_proofs --------------------------
(***************************************************************************)
(* Lemmas about the jobs of ModelStore, for any run directories, any       *)
(* features and any number of jobs: their programs, their types, and what  *)
(* trainings, scores, registrations and cached explanations preserve.      *)
(***************************************************************************)
EXTENDS ModelStore, WellFoundedInduction, TLAPS

-----------------------------------------------------------------------------
(* Programs: what a job has left to do                                     *)

Reads  == {"need", "read"}
Writes == {"write", "fill", "put"}

(* A file is opened at the head only, every path exists, and the registry  *)
(* is written by registrations, the official model by its own trainings.   *)
LegalStep(x, t, i) ==
  /\ t[i][1] = "fill" => i = 1
  /\ t[i][1] \in Reads \cup Writes => PathOf(x.dir, t[i][2]) \in Paths
  /\ t[i][1] \in Reads => t[i][2] \in Parts
  /\ t[i][1] \in {"get", "set"} => x.feature \in Features
  /\ t[i][1] \in Writes =>
       /\ t[i][2] = "rows" <=> x.kind = "register"
       /\ x.dir = Official => x.kind = "official"

(* A training writes its manifest last.                                    *)
OfficialStep(t, i) ==
  /\ t[i][1] \in Writes
  /\ t[i][2] = "manifest" => i = Len(t)

(* A registration needs its manifest, and reads the rows just before it    *)
(* writes them last.                                                       *)
RegisterStep(t, i) ==
  /\ t[i][1] \in Reads \cup Writes
  /\ t[i][2] = "manifest" => t[i][1] = "need"
  /\ t[i][1] \in Writes <=> i = Len(t)
  /\ i = Len(t) - 1 => t[i] = <<"read", "rows">>

(* A score needs the manifest, then the model, and then a calibrator.      *)
ScoreStep(t, i) ==
  /\ t[i][1] \notin Writes
  /\ t[i][2] \in {"manifest", "model"} => t[i][1] = "need"
  /\ t[i][2] = "calibrator" => t[i][1] = "read"
  /\ t[i][2] = "manifest" =>
       \A k \in DOMAIN t : t[k][2] \in {"model", "calibrator"} => i < k
  /\ t[i][2] = "model" => \A k \in DOMAIN t : t[k][2] = "calibrator" => i < k

IsScore(x) == x.kind \in {"score", "explain"}

Program(x, t) ==
  /\ t \in Seq(Instructions \X Names)
  /\ \A i \in DOMAIN t :
       /\ LegalStep(x, t, i)
       /\ x.kind = "official" => OfficialStep(t, i)
       /\ x.kind = "register" => RegisterStep(t, i)
       /\ IsScore(x) => ScoreStep(t, i)

NamesIn(t) == {t[i][2] : i \in DOMAIN t}

(* What is left of a program is a program.                                 *)
LEMMA TailIsProgram ==
  ASSUME NEW x, NEW t, Program(x, t), t # <<>>
  PROVE  /\ Program(x, Tail(t))
         /\ NamesIn(t) = {Head(t)[2]} \cup NamesIn(Tail(t))
         /\ Head(t) = t[1] /\ 1 \in DOMAIN t
<1>1. t \in Seq(Instructions \X Names)
  BY DEF Program
<1>2. /\ Tail(t) \in Seq(Instructions \X Names)
      /\ Len(Tail(t)) = Len(t) - 1 /\ Len(t) \in Nat \ {0}
      /\ \A i \in DOMAIN Tail(t) : i + 1 \in DOMAIN t /\ Tail(t)[i] = t[i + 1]
      /\ \A i \in DOMAIN Tail(t) : i \in Nat \ {0}
  BY <1>1
<1>3. Head(t) = t[1] /\ 1 \in DOMAIN t
  BY <1>1
<1>4. ASSUME NEW i \in DOMAIN Tail(t)
      PROVE  /\ LegalStep(x, Tail(t), i)
             /\ x.kind = "official" => OfficialStep(Tail(t), i)
             /\ x.kind = "register" => RegisterStep(Tail(t), i)
             /\ IsScore(x) => ScoreStep(Tail(t), i)
  <2>1. LegalStep(x, Tail(t), i)
    BY <1>2, <1>4 DEF Program, LegalStep
  <2>2. ASSUME x.kind = "official" PROVE OfficialStep(Tail(t), i)
    <3>1. OfficialStep(t, i + 1) /\ Tail(t)[i] = t[i + 1]
      BY <1>2, <1>4, <2>2 DEF Program
    <3>. QED BY <1>2, <1>4, <3>1 DEF OfficialStep
  <2>3. ASSUME x.kind = "register" PROVE RegisterStep(Tail(t), i)
    <3>1. RegisterStep(t, i + 1) /\ Tail(t)[i] = t[i + 1]
      BY <1>2, <1>4, <2>3 DEF Program
    <3>2. /\ i + 1 = Len(t) <=> i = Len(Tail(t))
          /\ i = Len(Tail(t)) - 1 => i + 1 = Len(t) - 1
      BY <1>2, <1>4
    <3>. QED BY <3>1, <3>2 DEF RegisterStep
  <2>4. ASSUME IsScore(x) PROVE ScoreStep(Tail(t), i)
    <3>1. ScoreStep(t, i + 1) /\ Tail(t)[i] = t[i + 1]
      BY <1>2, <1>4, <2>4 DEF Program
    <3>2. \A k \in DOMAIN Tail(t) : k + 1 \in DOMAIN t /\ Tail(t)[k] = t[k + 1]
      BY <1>2
    <3>. QED BY <1>2, <3>1, <3>2 DEF ScoreStep
  <2>. QED BY <2>1, <2>2, <2>3, <2>4
<1>5. NamesIn(t) = {Head(t)[2]} \cup NamesIn(Tail(t))
  <2>1. \A i \in DOMAIN t : i = 1 \/ (i - 1 \in DOMAIN Tail(t) /\ Tail(t)[i - 1] = t[i])
    BY <1>1, <1>2
  <2>2. ASSUME NEW n \in NamesIn(t) PROVE n \in {Head(t)[2]} \cup NamesIn(Tail(t))
    <3>1. PICK i \in DOMAIN t : n = t[i][2]
      BY <2>2 DEF NamesIn
    <3>. QED BY <1>3, <2>1, <3>1 DEF NamesIn
  <2>3. ASSUME NEW n \in NamesIn(Tail(t)) PROVE n \in NamesIn(t)
    <3>1. PICK i \in DOMAIN Tail(t) : n = Tail(t)[i][2]
      BY <2>3 DEF NamesIn
    <3>. QED BY <1>2, <3>1 DEF NamesIn
  <2>4. Head(t)[2] \in NamesIn(t)
    BY <1>3 DEF NamesIn
  <2>. QED BY <2>2, <2>3, <2>4
<1>. QED BY <1>2, <1>3, <1>4, <1>5 DEF Program

(* An opened file is one still to be written.                              *)
LEMMA OpenedIsProgram ==
  ASSUME NEW x, NEW t, Program(x, t), t # <<>>, t[1][1] = "write",
         NEW u, u = <<<<"fill", t[1][2]>>>> \o Tail(t)
  PROVE  /\ Program(x, u) /\ NamesIn(u) = NamesIn(t)
         /\ u # <<>> /\ u[1] = <<"fill", t[1][2]>> /\ Len(u) = Len(t)
<1>1. /\ t \in Seq(Instructions \X Names) /\ Len(t) \in Nat \ {0} /\ 1 \in DOMAIN t
      /\ t[1] \in Instructions \X Names
  BY DEF Program
<1>2. <<"fill", t[1][2]>> \in Instructions \X Names
  BY <1>1 DEF Instructions
<1>3. /\ u \in Seq(Instructions \X Names) /\ Len(u) = Len(t) /\ DOMAIN u = DOMAIN t
      /\ u[1] = <<"fill", t[1][2]>>
      /\ \A i \in DOMAIN t : i # 1 => u[i] = t[i]
  BY <1>1, <1>2
<1>4. \A i \in DOMAIN u : u[i][2] = t[i][2]
  BY <1>3
<1>5. ASSUME NEW i \in DOMAIN u
      PROVE  /\ LegalStep(x, u, i)
             /\ x.kind = "official" => OfficialStep(u, i)
             /\ x.kind = "register" => RegisterStep(u, i)
             /\ IsScore(x) => ScoreStep(u, i)
  <2>1. LegalStep(x, u, i)
    BY <1>3, <1>4, <1>5 DEF Program, LegalStep, Reads, Writes
  <2>2. x.kind = "official" => OfficialStep(u, i)
    BY <1>3, <1>4, <1>5 DEF Program, OfficialStep, Writes
  <2>3. ASSUME x.kind = "register" PROVE RegisterStep(u, i)
    <3>1. RegisterStep(t, 1) /\ RegisterStep(t, i)
      BY <1>1, <1>3, <1>5, <2>3 DEF Program
    <3>2. Len(t) = 1 /\ i = 1
      BY <1>1, <1>3, <1>5, <3>1 DEF RegisterStep, Writes
    <3>3. t[1][2] # "manifest"
      BY <3>1 DEF RegisterStep
    <3>. QED BY <1>3, <3>2, <3>3 DEF RegisterStep, Reads, Writes
  <2>4. ASSUME IsScore(x) PROVE FALSE
    BY <1>1, <2>4 DEF Program, ScoreStep, Writes
  <2>. QED BY <2>1, <2>2, <2>3, <2>4
<1>6. NamesIn(u) = NamesIn(t)
  <2>1. ASSUME NEW n \in NamesIn(u) PROVE n \in NamesIn(t)
    BY <1>3, <1>4 DEF NamesIn
  <2>2. ASSUME NEW n \in NamesIn(t) PROVE n \in NamesIn(u)
    BY <1>3, <1>4 DEF NamesIn
  <2>. QED BY <2>1, <2>2
<1>7. u # <<>>
  BY <1>1, <1>3
<1>8. Program(x, u)
  BY <1>3, <1>5 DEF Program
<1>. QED BY <1>3, <1>6, <1>7, <1>8

(* After the last step nothing is left, and only then.                     *)
LEMMA OneStepLeft == ASSUME NEW S, NEW t \in Seq(S), Len(t) = 1 PROVE Tail(t) = <<>>
<1>1. Tail(t) \in Seq(S) /\ Len(Tail(t)) = 0
  OBVIOUS
<1>. DEFINE u == Tail(t)
<1>. HIDE DEF u
<1>2. u \in Seq(S) /\ Len(u) = 0 => u = <<>>
  OBVIOUS
<1>. QED BY <1>1, <1>2 DEF u

(* Before the last step there is one more.                                 *)
LEMMA MoreStepsLeft ==
  ASSUME NEW S, NEW t \in Seq(S), t # <<>>, Len(t) # 1
  PROVE  Tail(t) # <<>> /\ Len(Tail(t)) = Len(t) - 1 /\ 1 \in DOMAIN Tail(t)
<1>1. Tail(t) \in Seq(S) /\ Len(Tail(t)) = Len(t) - 1 /\ Len(t) \in Nat \ {0, 1}
  OBVIOUS
<1>. DEFINE u == Tail(t)
<1>. HIDE DEF u
<1>2. u \in Seq(S) /\ Len(u) \in Nat \ {0} => u # <<>> /\ 1 \in DOMAIN u
  OBVIOUS
<1>3. Len(u) \in Nat \ {0} /\ u \in Seq(S)
  BY <1>1 DEF u
<1>4. u # <<>> /\ 1 \in DOMAIN u
  BY <1>2, <1>3
<1>. QED BY <1>1, <1>4 DEF u

(* A job with nothing left has a program.                                  *)
LEMMA NothingLeft == \A x : Program(x, <<>>)
BY DEF Program

(* The programs the jobs are started with.                                 *)
LEMMA OfficialProgram ==
  ASSUME NEW x, x.kind = "official", x.dir = Official
  PROVE  Program(x, TrainOfficialXgbV1)
<1>1. TrainOfficialXgbV1 \in Seq(Instructions \X Names)
  BY DEF TrainOfficialXgbV1, WriteOfficialReferenceSnapshot, Instructions, Names, OfficialFiles
<1>2. \A i \in DOMAIN TrainOfficialXgbV1 : i \in 1..6
  BY DEF TrainOfficialXgbV1
<1>3. \A i \in 1..6 : TrainOfficialXgbV1[i][1] \in {"write", "put"}
                      /\ TrainOfficialXgbV1[i][2] \in OfficialFiles
                      /\ (TrainOfficialXgbV1[i][2] = "manifest" => i = 6)
  BY DEF TrainOfficialXgbV1, WriteOfficialReferenceSnapshot, OfficialFiles
<1>4. Len(TrainOfficialXgbV1) = 6
  BY DEF TrainOfficialXgbV1
<1>. QED BY <1>1, <1>2, <1>3, <1>4
         DEF Program, LegalStep, OfficialStep, IsScore, Reads, Writes, PathOf, Paths, OfficialFiles

(* That of a training run writes in its own directory.                     *)
LEMMA CandidateProgram ==
  ASSUME NEW x, x.kind = "candidate", x.dir \in Dirs
  PROVE  Program(x, RunTraining)
<1>1. RunTraining \in Seq(Instructions \X Names)
  BY DEF RunTraining, Instructions, Names, RunFiles
<1>2. \A i \in DOMAIN RunTraining :
        RunTraining[i][1] \in {"write", "put"} /\ RunTraining[i][2] \in RunFiles
  BY DEF RunTraining, RunFiles
<1>3. "rows" \notin RunFiles /\ x.dir # Official
  BY DirsAssumption DEF RunFiles
<1>. QED BY <1>1, <1>2, <1>3 DEF Program, LegalStep, IsScore, Reads, Writes, PathOf, Paths

(* A calibration reads the run it calibrates and writes beside it.         *)
LEMMA CalibrateProgram ==
  ASSUME NEW x, x.kind = "calibrate", x.dir \in Dirs
  PROVE  Program(x, CalibrateManifest)
<1>1. CalibrateManifest \in Seq(Instructions \X Names)
  BY DEF CalibrateManifest, Instructions, Names, RunFiles
<1>2. \A i \in DOMAIN CalibrateManifest :
        /\ CalibrateManifest[i][1] \in {"need", "write", "put"}
        /\ CalibrateManifest[i][2] \in RunFiles
        /\ CalibrateManifest[i][1] = "need" => CalibrateManifest[i][2] \in Parts
  BY DEF CalibrateManifest, RunFiles, Parts
<1>3. "rows" \notin RunFiles /\ x.dir # Official
  BY DirsAssumption DEF RunFiles
<1>. QED BY <1>1, <1>2, <1>3 DEF Program, LegalStep, IsScore, Reads, Writes, PathOf, Paths

(* A registration reads a run and the registry, and writes the registry.   *)
LEMMA RegisterProgram ==
  ASSUME NEW x, x.kind = "register", x.dir \in Dirs
  PROVE  /\ Program(x, RegisterTrainingRun) /\ RegisterTrainingRun # <<>>
         /\ "manifest" \in NamesIn(RegisterTrainingRun)
         /\ RegisterTrainingRun[1][1] \notin Writes
<1>1. RegisterTrainingRun \in Seq(Instructions \X Names) /\ Len(RegisterTrainingRun) = 4
  BY DEF RegisterTrainingRun, LoadOptionalCalibrationManifest, Instructions, Names, RunFiles
<1>2. /\ RegisterTrainingRun[1] = <<"need", "manifest">>
      /\ RegisterTrainingRun[2] = <<"read", "calibration">>
      /\ RegisterTrainingRun[3] = <<"read", "rows">>
      /\ RegisterTrainingRun[4] = <<"write", "rows">>
  BY DEF RegisterTrainingRun, LoadOptionalCalibrationManifest
<1>3. x.dir # Official
  BY DirsAssumption
<1>4. DOMAIN RegisterTrainingRun = 1..4 /\ RegisterTrainingRun # <<>>
  BY DEF RegisterTrainingRun
<1>5. \A n \in {"manifest", "calibration", "rows"} : n \in Parts /\ PathOf(x.dir, n) \in Paths
  BY DEF Parts, PathOf, Paths, RunFiles
<1>6. "manifest" \in NamesIn(RegisterTrainingRun)
  BY <1>2, <1>4 DEF NamesIn
<1>7. ASSUME NEW i \in 1..4
      PROVE  LegalStep(x, RegisterTrainingRun, i) /\ RegisterStep(RegisterTrainingRun, i)
  <2>1. CASE i = 1
    BY <1>1, <1>2, <1>3, <1>5, <2>1 DEF LegalStep, RegisterStep, Reads, Writes
  <2>2. CASE i = 2
    BY <1>1, <1>2, <1>3, <1>5, <2>2 DEF LegalStep, RegisterStep, Reads, Writes
  <2>3. CASE i = 3
    BY <1>1, <1>2, <1>3, <1>5, <2>3 DEF LegalStep, RegisterStep, Reads, Writes
  <2>4. CASE i = 4
    BY <1>1, <1>2, <1>3, <1>5, <2>4 DEF LegalStep, RegisterStep, Reads, Writes
  <2>. QED BY <2>1, <2>2, <2>3, <2>4
<1>. QED BY <1>1, <1>2, <1>4, <1>6, <1>7 DEF Program, IsScore, Writes

(* A score reads, and writes nothing.                                      *)
LEMMA ScoreProgram ==
  ASSUME NEW x, x.kind = "score", x.dir \in Dirs \cup {Official}
  PROVE  /\ Program(x, ExplainFeatureRow)
         /\ {"manifest", "model", "calibrator"} \subseteq NamesIn(ExplainFeatureRow)
<1>1. ExplainFeatureRow \in Seq(Instructions \X Names)
  BY DEF ExplainFeatureRow, Instructions, Names, RunFiles
<1>2. /\ DOMAIN ExplainFeatureRow = 1..3
      /\ ExplainFeatureRow[1] = <<"need", "manifest">>
      /\ ExplainFeatureRow[2] = <<"need", "model">>
      /\ ExplainFeatureRow[3] = <<"read", "calibrator">>
  BY DEF ExplainFeatureRow
<1>3. \A n \in {"manifest", "model", "calibrator"} : n \in Parts /\ PathOf(x.dir, n) \in Paths
  BY DEF Parts, PathOf, Paths, RunFiles, OfficialFiles
<1>4. ASSUME NEW i \in 1..3
      PROVE  LegalStep(x, ExplainFeatureRow, i) /\ ScoreStep(ExplainFeatureRow, i)
  <2>1. CASE i = 1
    BY <1>2, <1>3, <2>1 DEF LegalStep, ScoreStep, Reads, Writes
  <2>2. CASE i = 2
    BY <1>2, <1>3, <2>2 DEF LegalStep, ScoreStep, Reads, Writes
  <2>3. CASE i = 3
    BY <1>2, <1>3, <2>3 DEF LegalStep, ScoreStep, Reads, Writes
  <2>. QED BY <2>1, <2>2, <2>3
<1>5. {"manifest", "model", "calibrator"} \subseteq NamesIn(ExplainFeatureRow)
  BY <1>2 DEF NamesIn
<1>. QED BY <1>1, <1>2, <1>4, <1>5 DEF Program

(* Two programs, one after the other.                                      *)
LEMMA Joined ==
  ASSUME NEW S, NEW u \in Seq(S), NEW v \in Seq(S)
  PROVE  /\ u \o v \in Seq(S) /\ Len(u \o v) = Len(u) + Len(v)
         /\ \A i \in 1..Len(u) : (u \o v)[i] = u[i]
         /\ \A i \in 1..Len(v) : (u \o v)[Len(u) + i] = v[i]
OBVIOUS

(* An explanation reads between a look in the cache and a store into it.   *)
LEMMA ExplainProgram ==
  ASSUME NEW x, x.kind = "explain", x.dir = Official, x.feature \in Features
  PROVE  /\ Program(x, CachedExplain)
         /\ {"manifest", "model", "calibrator"} \subseteq NamesIn(CachedExplain)
<1>1. /\ CachedExplain \in Seq(Instructions \X Names)
      /\ DOMAIN CachedExplain = 1..5
      /\ CachedExplain[1] = <<"get", "cache">>
      /\ CachedExplain[2] = <<"need", "manifest">>
      /\ CachedExplain[3] = <<"need", "model">>
      /\ CachedExplain[4] = <<"read", "calibrator">>
      /\ CachedExplain[5] = <<"set", "cache">>
  <2>. DEFINE get == <<<<"get", "cache">>>>
              set == <<<<"set", "cache">>>>
              row == <<<<"need", "manifest">>, <<"need", "model">>, <<"read", "calibrator">>>>
  <2>1. /\ get \in Seq(Instructions \X Names) /\ Len(get) = 1 /\ get[1] = <<"get", "cache">>
        /\ set \in Seq(Instructions \X Names) /\ Len(set) = 1 /\ set[1] = <<"set", "cache">>
    BY DEF Instructions, Names
  <2>2. /\ row \in Seq(Instructions \X Names) /\ Len(row) = 3
        /\ row[1] = <<"need", "manifest">> /\ row[2] = <<"need", "model">>
        /\ row[3] = <<"read", "calibrator">>
    BY DEF Instructions, Names, RunFiles
  <2>3. CachedExplain = get \o row \o set
    BY DEF CachedExplain, ExplainFeatureRow
  <2>. HIDE DEF get, set, row
  <2>4. /\ get \o row \in Seq(Instructions \X Names) /\ Len(get \o row) = 1 + 3
        /\ (get \o row)[1] = get[1]
        /\ \A i \in 1..3 : (get \o row)[1 + i] = row[i]
    <3>0. get \in Seq(Instructions \X Names) /\ row \in Seq(Instructions \X Names)
      BY <2>1, <2>2
    <3>1. /\ get \o row \in Seq(Instructions \X Names)
          /\ Len(get \o row) = Len(get) + Len(row)
          /\ \A i \in 1..Len(get) : (get \o row)[i] = get[i]
          /\ \A i \in 1..Len(row) : (get \o row)[Len(get) + i] = row[i]
      BY <3>0, Joined
    <3>. QED BY <2>1, <2>2, <3>1
  <2>5. /\ get \o row \o set \in Seq(Instructions \X Names) /\ Len(get \o row \o set) = 4 + 1
        /\ \A i \in 1..4 : (get \o row \o set)[i] = (get \o row)[i]
        /\ (get \o row \o set)[4 + 1] = set[1]
    BY <2>1, <2>4, Joined, SMTT(60)
  <2>6. /\ (get \o row)[2] = row[1] /\ (get \o row)[3] = row[2] /\ (get \o row)[4] = row[3]
    BY <2>4
  <2>7. DOMAIN (get \o row \o set) = 1..5
    BY <2>5
  <2>8. /\ (get \o row \o set)[1] = get[1] /\ (get \o row \o set)[2] = row[1]
        /\ (get \o row \o set)[3] = row[2] /\ (get \o row \o set)[4] = row[3]
        /\ (get \o row \o set)[5] = set[1]
    BY <2>4, <2>5, <2>6
  <2>. QED BY <2>1, <2>2, <2>3, <2>5, <2>7, <2>8, Zenon
<1>2. \A n \in {"manifest", "model", "calibrator"} : n \in Parts /\ PathOf(x.dir, n) \in Paths
  BY DEF Parts, PathOf, Paths, OfficialFiles
<1>3. ASSUME NEW i \in 1..5
      PROVE  LegalStep(x, CachedExplain, i) /\ ScoreStep(CachedExplain, i)
  <2>1. CASE i = 1
    BY <1>1, <2>1 DEF LegalStep, ScoreStep, Reads, Writes
  <2>2. CASE i = 2
    BY <1>1, <1>2, <2>2 DEF LegalStep, ScoreStep, Reads, Writes
  <2>3. CASE i = 3
    BY <1>1, <1>2, <2>3 DEF LegalStep, ScoreStep, Reads, Writes
  <2>4. CASE i = 4
    BY <1>1, <1>2, <2>4 DEF LegalStep, ScoreStep, Reads, Writes
  <2>5. CASE i = 5
    BY <1>1, <2>5 DEF LegalStep, ScoreStep, Reads, Writes
  <2>. QED BY <2>1, <2>2, <2>3, <2>4, <2>5
<1>4. {"manifest", "model", "calibrator"} \subseteq NamesIn(CachedExplain)
  BY <1>1 DEF NamesIn
<1>. QED BY <1>1, <1>3, <1>4 DEF Program

(* A path is the registry's exactly if the name is the rows'; a path of    *)
(* the official model is one of its files.                                 *)
LEMMA PathsApart ==
  ASSUME NEW dir \in Dirs \cup {Official}, NEW name
  PROVE  /\ PathOf(dir, name) = Registry <=> name = "rows"
         /\ \A f : f # "rows" /\ PathOf(dir, name) = <<Official, f>> =>
                     dir = Official /\ name = f
         /\ name # "rows" => PathOf(dir, name) = <<dir, name>>
         /\ name = "rows" => PathOf(dir, name) = Registry
BY DirsAssumption DEF PathOf, Registry, Official

-----------------------------------------------------------------------------
(* The newest of a set                                                     *)

(* A bounded set of numbers has a largest one.                             *)
LEMMA Largest ==
  ASSUME NEW T, T \subseteq Nat, T # {}, NEW b \in Nat, \A t \in T : t <= b
  PROVE  \E m \in T : \A t \in T : t <= m
<1>. DEFINE U == {b - t : t \in T}
<1>1. U \subseteq Nat /\ U # {}
  <2>1. \A t \in T : b - t \in Nat
    OBVIOUS
  <2>. QED BY <2>1
<1>2. PICK u \in U : \A v \in U : ~(<<v, u>> \in OpToRel(<, Nat))
  BY <1>1, NatLessThanWellFounded, WFMin
<1>3. \A v \in U : ~(v < u)
  BY <1>1, <1>2 DEF OpToRel
<1>4. PICK m \in T : u = b - m
  OBVIOUS
<1>5. ASSUME NEW t \in T PROVE t <= m
  <2>1. ~(b - t < b - m)
    BY <1>3, <1>4
  <2>. QED BY <2>1
<1>. QED BY <1>5

(* There is a last manifest if there is one.                               *)
LEMMA LatestManifestIsOne ==
  ASSUME AnyManifest PROVE FindLatestManifest \in Dirs /\ HasManifest(FindLatestManifest)
<1>. DEFINE T == {i \in DOMAIN RunDirs : HasManifest(RunDirs[i])}
<1>1. DOMAIN RunDirs \subseteq Nat /\ Len(RunDirs) \in Nat
      /\ \A i \in DOMAIN RunDirs : i <= Len(RunDirs)
  BY DirsAssumption
<1>2. T # {}
  BY DEF AnyManifest, Dirs
<1>3. PICK m \in T : \A t \in T : t <= m
  BY <1>1, <1>2, Largest
<1>. DEFINE P(i) == HasManifest(RunDirs[i])
                    /\ \A k \in DOMAIN RunDirs : HasManifest(RunDirs[k]) => k <= i
<1>4. P(CHOOSE i \in DOMAIN RunDirs : P(i)) /\ (CHOOSE i \in DOMAIN RunDirs : P(i)) \in DOMAIN RunDirs
  <2>1. m \in DOMAIN RunDirs /\ P(m)
    BY <1>3
  <2>. HIDE DEF P
  <2>. QED BY <2>1
<1>. QED BY <1>4 DEF FindLatestManifest, Dirs

(* There is a latest row if there is a row.                                *)
LEMMA LatestIsOne ==
  ASSUME NEW n \in Nat, NEW content \in Rows(0..n), content.rows # {}
  PROVE  Latest(content.rows).version \in Dirs
<1>. DEFINE rows == content.rows
            Created == {r.created : r \in rows}
<1>1. \A r \in rows : r.version \in Dirs /\ r.created \in 0..n
  BY DEF Rows
<1>2. PICK c \in Created : \A d \in Created : d <= c
  <2>1. Created \subseteq Nat /\ Created # {} /\ \A d \in Created : d <= n
    BY <1>1
  <2>. HIDE DEF Created
  <2>. QED BY <2>1, Largest
<1>. DEFINE Indices == {i \in DOMAIN RunDirs :
                          \E r \in rows : r.created = c /\ r.version = RunDirs[i]}
<1>3. /\ DOMAIN RunDirs \subseteq Nat /\ Len(RunDirs) \in Nat
      /\ \A i \in DOMAIN RunDirs : i <= Len(RunDirs)
  BY DirsAssumption
<1>4. \A d \in Dirs : \E i \in DOMAIN RunDirs : RunDirs[i] = d
  BY DEF Dirs
<1>5. PICK i \in Indices : \A k \in Indices : k <= i
  <2>1. PICK r \in rows : r.created = c
    OBVIOUS
  <2>2. Indices # {}
    BY <1>1, <1>4, <2>1
  <2>3. Indices \subseteq Nat /\ \A k \in Indices : k <= Len(RunDirs)
    BY <1>3
  <2>. HIDE DEF Indices
  <2>. QED BY <1>3, <2>2, <2>3, Largest
<1>6. PICK r \in rows : r.created = c /\ r.version = RunDirs[i]
  OBVIOUS
<1>7. ASSUME NEW s \in rows
      PROVE  \/ r.created > s.created
             \/ /\ r.created = s.created
                /\ \E j, k \in DOMAIN RunDirs :
                     RunDirs[j] = r.version /\ RunDirs[k] = s.version /\ j >= k
  <2>1. s.created <= c
    BY <1>2
  <2>2. CASE s.created = c
    <3>1. PICK k \in DOMAIN RunDirs : RunDirs[k] = s.version
      BY <1>1, <1>4
    <3>2. k \in Indices
      BY <2>2, <3>1
    <3>3. i \in DOMAIN RunDirs /\ i >= k
      BY <1>3, <1>5, <3>2
    <3>. QED BY <1>6, <2>2, <3>1, <3>3
  <2>. QED BY <1>1, <1>6, <2>1, <2>2
<1>. HIDE DEF rows
<1>8. Latest(rows) \in rows
  BY <1>6, <1>7 DEF Latest
<1>. QED BY <1>1, <1>8 DEF rows

-----------------------------------------------------------------------------
(* The types                                                               *)

(* A job that failed has nothing left to do, and a registration past its   *)
(* need has the manifest it needs.                                         *)
Prepared(x) ==
  /\ x.failed => x.todo = <<>>
  /\ x.kind = "official" => x.dir = Official
  /\ x.kind = "register" =>
       /\ x.dir \in Dirs
       /\ ~x.dead /\ x.todo # <<>> /\ "manifest" \notin NamesIn(x.todo) =>
            x.held["manifest"] \in File(Clock)

JobOK(x) == Program(x, x.todo) /\ Prepared(x)

StoreTyped == StoreTypeOK /\ \A j \in DOMAIN jobs : JobOK(jobs[j])

(* A job after each of its steps.                                          *)
HasGone(x) == [x EXCEPT !.todo = Tail(x.todo)]
HasFailed(x) == [x EXCEPT !.todo = <<>>, !.failed = TRUE, !.held = NothingHeld]
HasRead(x, v) ==
  [x EXCEPT !.todo = Tail(x.todo), !.held = [x.held EXCEPT ![Head(x.todo)[2]] = v]]
HasOpened(x) == [x EXCEPT !.todo = <<<<"fill", Head(x.todo)[2]>>>> \o Tail(x.todo)]
HasWritten(x) ==
  [x EXCEPT !.todo = Tail(x.todo), !.held = IF Len(x.todo) = 1 THEN NothingHeld ELSE x.held]
HasDied(x) == [x EXCEPT !.dead = TRUE, !.held = NothingHeld]
HasHit(x, e) == [x EXCEPT !.todo = <<>>, !.held = e.held, !.hitAge = now - e.made]

(* One job moves: the others stay as they are, and it keeps what it is.    *)
Moves(j, y) ==
  /\ Running(j) /\ y \in Job
  /\ jobs' = [jobs EXCEPT ![j] = y]
  /\ y.kind = jobs[j].kind /\ y.dir = jobs[j].dir /\ y.over = jobs[j].over
  /\ y.feature = jobs[j].feature
  /\ UNCHANGED work

(* What a job holds, and may read next.                                    *)
LEMMA HeldTyped ==
  /\ NothingHeld \in Held
  /\ \A h \in Held, n \in Parts : h[n] \in {None} \cup Content(n, Clock)
  /\ \A h \in Held, n \in Parts : \A v \in {None} \cup Content(n, Clock) :
       /\ [h EXCEPT ![n] = v] \in Held
       /\ [h EXCEPT ![n] = v][n] = v
       /\ \A m \in Parts \ {n} : [h EXCEPT ![n] = v][m] = h[m]
<1>1. NothingHeld \in Held
  BY DEF NothingHeld, Held
<1>2. \A h \in Held, n \in Parts : h[n] \in {None} \cup Content(n, Clock)
  BY DEF Held
<1>3. ASSUME NEW h \in Held, NEW n \in Parts, NEW v \in {None} \cup Content(n, Clock)
      PROVE  /\ [h EXCEPT ![n] = v] \in Held
             /\ [h EXCEPT ![n] = v][n] = v
             /\ \A m \in Parts \ {n} : [h EXCEPT ![n] = v][m] = h[m]
  <2>1. v \in {None} \cup File(Clock) \cup Rows(Clock)
    BY <1>3 DEF Content
  <2>2. h \in [Parts -> {None} \cup File(Clock) \cup Rows(Clock)]
    BY DEF Held
  <2>. QED BY <1>2, <2>1, <2>2 DEF Held
<1>. QED BY <1>1, <1>2, <1>3

(* The fields of a job, and the changes of them that leave a job.          *)
LEMMA JobTyped ==
  ASSUME NEW x \in Job
  PROVE  /\ x.kind \in JobKinds /\ x.dir \in Dirs \cup {Official}
         /\ x.todo \in Seq(Instructions \X Names) /\ x.held \in Held
         /\ x.over \subseteq Nat /\ x.dead \in BOOLEAN /\ x.failed \in BOOLEAN
         /\ x.feature \in Features \cup {None} /\ x.hitAge \in Nat \cup {None}
         /\ \A t \in Seq(Instructions \X Names) : [x EXCEPT !.todo = t] \in Job
         /\ \A t \in Seq(Instructions \X Names), h \in Held :
              /\ [x EXCEPT !.todo = t, !.held = h] \in Job
              /\ [x EXCEPT !.todo = t, !.failed = TRUE, !.held = h] \in Job
              /\ \A a \in Nat : [x EXCEPT !.todo = t, !.held = h, !.hitAge = a] \in Job
         /\ \A h \in Held : [x EXCEPT !.dead = TRUE, !.held = h] \in Job
BY ZenonT(60) DEF Job

(* What the job that moved is now, and that the others are what they were. *)
LEMMA OneMoves ==
  ASSUME StoreTypeOK, NEW j \in DOMAIN jobs, NEW y, Moves(j, y)
  PROVE  /\ jobs' \in Seq(Job) /\ DOMAIN jobs' = DOMAIN jobs /\ Len(jobs') = Len(jobs)
         /\ jobs'[j] = y
         /\ \A k \in DOMAIN jobs : k # j => jobs'[k] = jobs[k]
BY DEF StoreTypeOK, Moves

NameOf(x)  == Head(x.todo)[2]
FoundBy(x) == disk[PathOf(x.dir, NameOf(x))]
ReadBy(x)  == IF FoundBy(x) \in {Absent, Half} THEN None ELSE FoundBy(x)
Raises(x)  == FoundBy(x) = Half \/ (FoundBy(x) = Absent /\ Head(x.todo)[1] = "need")

(* A read fails the job, or leaves it what was found.                      *)
LEMMA ReadFileMoves ==
  ASSUME StoreTyped, NEW j \in DOMAIN jobs, ReadFile(j)
  PROVE  /\ NameOf(jobs[j]) \in Parts /\ Head(jobs[j].todo)[1] \in Reads
         /\ PathOf(jobs[j].dir, NameOf(jobs[j])) \in Paths
         /\ ReadBy(jobs[j]) \in {None} \cup Content(NameOf(jobs[j]), Clock)
         /\ Raises(jobs[j]) => Moves(j, HasFailed(jobs[j]))
         /\ ~Raises(jobs[j]) => Moves(j, HasRead(jobs[j], ReadBy(jobs[j])))
         /\ UNCHANGED <<disk, now, mlEnabled, scorer, cache>>
<1>. DEFINE x == jobs[j]
            n == NameOf(x)
            found == FoundBy(x)
<1>1. x \in Job /\ JobOK(x) /\ x.todo # <<>>
  BY DEF StoreTyped, StoreTypeOK, ReadFile, Running, Unfinished
<1>2. Head(x.todo) = x.todo[1] /\ 1 \in DOMAIN x.todo /\ Program(x, Tail(x.todo))
  BY <1>1, TailIsProgram DEF JobOK
<1>3. Head(x.todo)[1] \in Reads /\ n \in Parts /\ PathOf(x.dir, n) \in Paths
  <2>1. Head(x.todo)[1] \in Reads
    BY DEF ReadFile, Reads, Instr
  <2>2. LegalStep(x, x.todo, 1)
    BY <1>1, <1>2 DEF JobOK, Program
  <2>. QED BY <1>2, <2>1, <2>2 DEF LegalStep, NameOf
<1>4. ReadBy(x) \in {None} \cup Content(n, Clock)
  <2>1. x.dir \in Dirs \cup {Official}
    BY <1>1, JobTyped
  <2>2. CASE n = "rows"
    <3>1. found = disk[Registry]
      BY <2>1, <2>2, PathsApart DEF FoundBy
    <3>. QED BY <2>2, <3>1 DEF StoreTyped, StoreTypeOK, Content, ReadBy
  <2>3. CASE n # "rows"
    <3>1. PathOf(x.dir, n) \in Paths \ {Registry}
      BY <1>3, <2>1, <2>3, PathsApart
    <3>2. found \in {Absent, Half} \cup [by : 0..Len(jobs), at : 0..now]
      BY <3>1 DEF StoreTyped, StoreTypeOK, FoundBy
    <3>3. [by : 0..Len(jobs), at : 0..now] \subseteq File(Clock)
      BY DEF StoreTyped, StoreTypeOK, File, Clock
    <3>. QED BY <2>3, <3>2, <3>3 DEF Content, ReadBy
  <2>. QED BY <2>2, <2>3
<1>5. UNCHANGED <<work, disk, now, mlEnabled, scorer, cache>>
  BY DEF ReadFile
<1>6. ASSUME Raises(x) PROVE Moves(j, HasFailed(x))
  <2>1. jobs' = [jobs EXCEPT ![j] = HasFailed(x)]
    BY <1>6 DEF ReadFile, PathFor, Instr, HasFailed, Raises, FoundBy, NameOf
  <2>2. <<>> \in Seq(Instructions \X Names)
    OBVIOUS
  <2>3. HasFailed(x) \in Job
    BY <1>1, <2>2, HeldTyped, JobTyped DEF HasFailed
  <2>. QED BY <1>1, <1>5, <2>1, <2>3 DEF Moves, HasFailed, ReadFile, Job
<1>7. ASSUME ~Raises(x) PROVE Moves(j, HasRead(x, ReadBy(x)))
  <2>1. jobs' = [Done(j) EXCEPT ![j].held[n] = ReadBy(x)]
    BY <1>7 DEF ReadFile, PathFor, Instr, Raises, ReadBy, FoundBy, NameOf
  <2>2. jobs' = [jobs EXCEPT ![j] = HasRead(x, ReadBy(x))]
    BY <1>1, <2>1 DEF Done, HasRead, NameOf, Job
  <2>3. Tail(x.todo) \in Seq(Instructions \X Names)
    BY <1>2 DEF Program
  <2>4. x.held \in Held
    BY <1>1, JobTyped
  <2>5. [x.held EXCEPT ![n] = ReadBy(x)] \in Held
    BY <1>3, <1>4, <2>4, HeldTyped, SMTT(60)
  <2>6. HasRead(x, ReadBy(x)) \in Job
    BY <1>1, <2>3, <2>5, JobTyped DEF HasRead, NameOf
  <2>. QED BY <1>1, <1>5, <2>2, <2>6 DEF Moves, HasRead, ReadFile, Job
<1>. QED BY <1>3, <1>4, <1>5, <1>6, <1>7

(* A job that is about to write has a file for it.                         *)
LEMMA WriterHasPath ==
  ASSUME StoreTyped, NEW j \in DOMAIN jobs, Running(j), Instr(j)[1] \in Reads \cup Writes
  PROVE  /\ jobs[j] \in Job /\ JobOK(jobs[j]) /\ jobs[j].todo # <<>>
         /\ Head(jobs[j].todo) = jobs[j].todo[1] /\ 1 \in DOMAIN jobs[j].todo
         /\ PathFor(j) \in Paths /\ PathFor(j) = PathOf(jobs[j].dir, NameOf(jobs[j]))
         /\ LegalStep(jobs[j], jobs[j].todo, 1)
<1>1. jobs[j] \in Job /\ JobOK(jobs[j]) /\ jobs[j].todo # <<>>
  BY DEF StoreTyped, StoreTypeOK, Running, Unfinished
<1>2. Head(jobs[j].todo) = jobs[j].todo[1] /\ 1 \in DOMAIN jobs[j].todo
  BY <1>1, TailIsProgram DEF JobOK
<1>3. LegalStep(jobs[j], jobs[j].todo, 1)
  BY <1>1, <1>2 DEF JobOK, Program
<1>4. PathFor(j) = PathOf(jobs[j].dir, NameOf(jobs[j]))
  BY DEF PathFor, Instr, NameOf
<1>. QED BY <1>1, <1>2, <1>3, <1>4 DEF LegalStep, Instr, NameOf

(* A write empties the file first.                                         *)
LEMMA OpenFileMoves ==
  ASSUME StoreTyped, NEW j \in DOMAIN jobs, OpenFile(j)
  PROVE  /\ Head(jobs[j].todo)[1] = "write"
         /\ Moves(j, HasOpened(jobs[j]))
         /\ disk' = [disk EXCEPT ![PathOf(jobs[j].dir, NameOf(jobs[j]))] = Half]
         /\ UNCHANGED <<now, mlEnabled, scorer, cache>>
<1>. DEFINE x == jobs[j]
<1>1. Head(x.todo)[1] = "write" /\ Running(j)
  BY DEF OpenFile, Instr
<1>2. /\ x \in Job /\ JobOK(x) /\ x.todo # <<>> /\ Head(x.todo) = x.todo[1]
      /\ PathFor(j) = PathOf(x.dir, NameOf(x))
  BY <1>1, WriterHasPath DEF Writes, Instr
<1>3. jobs' = [jobs EXCEPT ![j] = HasOpened(x)]
  BY DEF OpenFile, HasOpened, Instr
<1>4. <<<<"fill", Head(x.todo)[2]>>>> \o Tail(x.todo) \in Seq(Instructions \X Names)
  <2>1. Program(x, x.todo) /\ x.todo[1][1] = "write" /\ Head(x.todo)[2] = x.todo[1][2]
    BY <1>1, <1>2 DEF JobOK
  <2>2. Program(x, <<<<"fill", x.todo[1][2]>>>> \o Tail(x.todo))
    BY <1>2, <2>1, OpenedIsProgram
  <2>. QED BY <2>1, <2>2 DEF Program
<1>5. HasOpened(x) \in Job
  BY <1>2, <1>4, JobTyped DEF HasOpened
<1>6. Moves(j, HasOpened(x))
  BY <1>1, <1>2, <1>3, <1>5 DEF Moves, HasOpened, OpenFile, Job
<1>. QED BY <1>1, <1>2, <1>6 DEF OpenFile

WrittenBy(j) ==
  IF NameOf(jobs[j]) = "rows"
    THEN [rows |-> UpsertRecord(RowsIn(jobs[j].held["rows"]), RecordOf(jobs[j]))]
    ELSE [by |-> j, at |-> now]

(* And fills it then.                                                      *)
LEMMA CloseFileMoves ==
  ASSUME StoreTyped, NEW j \in DOMAIN jobs, CloseFile(j)
  PROVE  /\ Head(jobs[j].todo)[1] \in {"fill", "put"}
         /\ Moves(j, HasWritten(jobs[j]))
         /\ disk' = [disk EXCEPT ![PathOf(jobs[j].dir, NameOf(jobs[j]))] = WrittenBy(j)]
         /\ UNCHANGED <<now, mlEnabled, scorer, cache>>
<1>. DEFINE x == jobs[j]
<1>1. Head(x.todo)[1] \in {"fill", "put"} /\ Running(j)
  BY DEF CloseFile, Instr
<1>2. /\ x \in Job /\ JobOK(x) /\ x.todo # <<>> /\ Head(x.todo) = x.todo[1]
      /\ PathFor(j) = PathOf(x.dir, NameOf(x))
  BY <1>1, WriterHasPath DEF Writes, Instr
<1>3. jobs' = [jobs EXCEPT ![j] = HasWritten(x)]
  BY <1>2 DEF CloseFile, HasWritten, Done, Job
<1>4. Tail(x.todo) \in Seq(Instructions \X Names)
  BY <1>2, TailIsProgram DEF JobOK, Program
<1>5. HasWritten(x) \in Job
  BY <1>2, <1>4, JobTyped, HeldTyped, ZenonT(60) DEF HasWritten
<1>6. Moves(j, HasWritten(x))
  BY <1>1, <1>2, <1>3, <1>5 DEF Moves, HasWritten, CloseFile, Job
<1>. QED BY <1>1, <1>2, <1>6 DEF CloseFile, WrittenBy, Instr, NameOf

(* A killed job holds nothing and never goes on.                           *)
LEMMA DieMoves ==
  ASSUME StoreTyped, NEW j \in DOMAIN jobs, Die(j)
  PROVE  /\ Moves(j, HasDied(jobs[j])) /\ ~IsScore(jobs[j])
         /\ UNCHANGED <<disk, now, mlEnabled, scorer, cache>>
<1>. DEFINE x == jobs[j]
<1>1. x \in Job
  BY DEF StoreTyped, StoreTypeOK
<1>2. jobs' = [jobs EXCEPT ![j] = HasDied(x)]
  BY <1>1 DEF Die, HasDied, Job
<1>3. HasDied(x) \in Job
  BY <1>1, JobTyped, HeldTyped DEF HasDied
<1>4. Moves(j, HasDied(x))
  BY <1>1, <1>2, <1>3 DEF Moves, HasDied, Die, Job
<1>. QED BY <1>4 DEF Die, IsScore

(* A step of the cache is a step of an explanation.                        *)
LEMMA CacheStepsExplain ==
  ASSUME StoreTyped, NEW j \in DOMAIN jobs, Running(j), Instr(j)[1] \in {"get", "set"}
  PROVE  /\ jobs[j] \in Job /\ JobOK(jobs[j]) /\ jobs[j].todo # <<>>
         /\ Head(jobs[j].todo) = jobs[j].todo[1]
         /\ jobs[j].feature \in Features
         /\ Tail(jobs[j].todo) \in Seq(Instructions \X Names)
<1>1. jobs[j] \in Job /\ JobOK(jobs[j]) /\ jobs[j].todo # <<>>
  BY DEF StoreTyped, StoreTypeOK, Running, Unfinished
<1>2. /\ Head(jobs[j].todo) = jobs[j].todo[1] /\ 1 \in DOMAIN jobs[j].todo
      /\ Tail(jobs[j].todo) \in Seq(Instructions \X Names)
  BY <1>1, TailIsProgram DEF JobOK, Program
<1>3. LegalStep(jobs[j], jobs[j].todo, 1)
  BY <1>1, <1>2 DEF JobOK, Program
<1>. QED BY <1>1, <1>2, <1>3 DEF LegalStep, Instr

HasEntry(f) == Entries(f) # {}
Hit(f) == Entries(f) # {} /\ now - EntryOf(f).stored <= TTL

(* A job that only goes on is one step further.                            *)
LEMMA GoneMoves ==
  ASSUME StoreTyped, NEW j \in DOMAIN jobs, Running(j), Instr(j)[1] \in {"get", "set"},
         jobs' = Done(j), UNCHANGED work
  PROVE  Moves(j, HasGone(jobs[j]))
<1>. DEFINE x == jobs[j]
<1>1. x \in Job /\ Tail(x.todo) \in Seq(Instructions \X Names)
  BY CacheStepsExplain
<1>2. HasGone(x) \in Job
  BY <1>1, JobTyped DEF HasGone
<1>3. jobs' = [jobs EXCEPT ![j] = HasGone(x)]
  BY <1>1 DEF Done, HasGone, Job
<1>. QED BY <1>1, <1>2, <1>3 DEF Moves, HasGone, Job

(* Storing an explanation leaves its job as it is, one step further.       *)
LEMMA CacheSetMoves ==
  ASSUME StoreTyped, NEW j \in DOMAIN jobs, CacheSet(j)
  PROVE  /\ Moves(j, HasGone(jobs[j])) /\ jobs[j].feature \in Features
         /\ jobs[j] \in Job
         /\ cache' = Trimmed(Append(Without(jobs[j].feature),
                       [feature |-> jobs[j].feature, stored |-> now, made |-> now,
                        held |-> jobs[j].held]))
         /\ UNCHANGED <<disk, now, mlEnabled, scorer>>
<1>1. Running(j) /\ Instr(j)[1] = "set" /\ jobs' = Done(j) /\ UNCHANGED work
  BY DEF CacheSet
<1>. QED BY <1>1, GoneMoves, CacheStepsExplain DEF CacheSet

(* What the cache has of a feature row.                                    *)
LEMMA EntryTyped ==
  ASSUME StoreTypeOK, NEW f, HasEntry(f)
  PROVE  Position(f) \in DOMAIN cache /\ EntryOf(f) \in CacheEntry /\ EntryOf(f).feature = f
<1>1. Position(f) \in DOMAIN cache /\ cache[Position(f)].feature = f
  BY DEF HasEntry, Entries, Position
<1>. QED BY <1>1 DEF EntryOf, StoreTypeOK

(* A look in the cache ends the job with the entry, or goes on.            *)
LEMMA CacheGetMoves ==
  ASSUME StoreTyped, NEW j \in DOMAIN jobs, CacheGet(j)
  PROVE  /\ jobs[j].feature \in Features
         /\ Hit(jobs[j].feature) =>
              /\ Moves(j, HasHit(jobs[j], EntryOf(jobs[j].feature)))
              /\ cache' = Touched(jobs[j].feature)
         /\ ~Hit(jobs[j].feature) =>
              /\ Moves(j, HasGone(jobs[j]))
              /\ cache' = Without(jobs[j].feature)
         /\ UNCHANGED <<disk, now, mlEnabled, scorer>>
<1>. DEFINE x == jobs[j]
            f == jobs[j].feature
            e == EntryOf(f)
<1>1. /\ Running(j) /\ Instr(j)[1] = "get" /\ UNCHANGED work
      /\ UNCHANGED <<disk, now, mlEnabled, scorer>>
  BY DEF CacheGet
<1>2. x \in Job /\ f \in Features
  BY <1>1, CacheStepsExplain
<1>3. ASSUME Hit(f)
      PROVE  Moves(j, HasHit(x, e)) /\ cache' = Touched(f)
  <2>1. /\ cache' = Touched(f)
        /\ jobs' = [jobs EXCEPT ![j].todo = <<>>, ![j].held = e.held, ![j].hitAge = now - e.made]
    BY <1>3 DEF CacheGet, Hit
  <2>2. e \in CacheEntry
    BY <1>3, EntryTyped DEF Hit, HasEntry, StoreTyped
  <2>3. e.held \in Held /\ now - e.made \in Nat /\ <<>> \in Seq(Instructions \X Names)
    BY <2>2 DEF CacheEntry, StoreTyped, StoreTypeOK, Clock
  <2>4. jobs' = [jobs EXCEPT ![j] = HasHit(x, e)]
    BY <1>2, <2>1 DEF HasHit, Job
  <2>5. HasHit(x, e) \in Job
    BY <1>2, <2>3, JobTyped DEF HasHit
  <2>. QED BY <1>1, <1>2, <2>1, <2>4, <2>5 DEF Moves, HasHit, Job
<1>4. ASSUME ~Hit(f)
      PROVE  Moves(j, HasGone(x)) /\ cache' = Without(f)
  <2>1. cache' = Without(f) /\ jobs' = Done(j)
    BY <1>4 DEF CacheGet, Hit
  <2>. QED BY <1>1, <2>1, GoneMoves
<1>. QED BY <1>1, <1>2, <1>3, <1>4

-----------------------------------------------------------------------------
(* Starting a job                                                          *)

(* A job of that program, with nothing done yet, is the last one.          *)
Starts(x) ==
  /\ x \in Job /\ JobOK(x)
  /\ x.held = NothingHeld /\ ~x.dead /\ ~x.failed /\ x.hitAge = None
  /\ x.over = {j \in DOMAIN jobs : Running(j)}
  /\ x.kind = "official" => x.todo = TrainOfficialXgbV1
  /\ x.kind = "register" => x.todo = RegisterTrainingRun
  /\ IsScore(x) => {"manifest", "model", "calibrator"} \subseteq NamesIn(x.todo)
  /\ jobs' = Append(jobs, x)
  /\ UNCHANGED <<work, disk, now, mlEnabled, scorer, cache>>

Fresh(kind, dir, todo, feature) ==
  [kind |-> kind, dir |-> dir, todo |-> todo, held |-> NothingHeld,
   over |-> {j \in DOMAIN jobs : Running(j)},
   dead |-> FALSE, failed |-> FALSE, feature |-> feature, hitAge |-> None]

(* A launched job is appended, and nothing else changes.                   *)
LEMMA LaunchStarts ==
  ASSUME StoreTyped, NEW kind \in JobKinds, NEW dir \in Dirs \cup {Official}, NEW todo,
         NEW feature \in Features \cup {None}, Launch(kind, dir, todo, feature)
  PROVE  /\ jobs' = Append(jobs, Fresh(kind, dir, todo, feature))
         /\ UNCHANGED <<work, disk, now, mlEnabled, scorer, cache>>
         /\ todo \in Seq(Instructions \X Names) => Fresh(kind, dir, todo, feature) \in Job
<1>1. {j \in DOMAIN jobs : Running(j)} \in SUBSET Nat
  BY DEF StoreTyped, StoreTypeOK
<1>2. NothingHeld \in Held
  BY HeldTyped
<1>3. /\ jobs' = Append(jobs, Fresh(kind, dir, todo, feature))
      /\ UNCHANGED <<work, disk, now, mlEnabled, scorer, cache>>
  BY DEF Launch, Fresh
<1>4. ASSUME todo \in Seq(Instructions \X Names)
      PROVE  Fresh(kind, dir, todo, feature) \in Job
  BY <1>1, <1>2, <1>4 DEF Fresh, Job
<1>. QED BY <1>3, <1>4

(* Whatever starts, starts with a program for its files.                   *)
LEMMA EveryStart ==
  ASSUME StoreTyped,
         \/ StartOfficial \/ StartTraining \/ StartCalibration \/ StartRegistration
         \/ StartScore \/ StartExplain
  PROVE  \E x : Starts(x)
<1>1. CASE StartOfficial
  <2>. DEFINE x == Fresh("official", Official, TrainOfficialXgbV1, None)
  <2>1. x.kind = "official" /\ x.dir = Official /\ x.todo = TrainOfficialXgbV1
    BY DEF Fresh
  <2>2. Program(x, TrainOfficialXgbV1)
    BY <2>1, OfficialProgram
  <2>3. TrainOfficialXgbV1 \in Seq(Instructions \X Names)
    BY <2>2 DEF Program
  <2>4. /\ jobs' = Append(jobs, x) /\ x \in Job
        /\ UNCHANGED <<work, disk, now, mlEnabled, scorer, cache>>
    BY <1>1, <2>3, LaunchStarts DEF StartOfficial, JobKinds
  <2>5. JobOK(x)
    BY <2>1, <2>2 DEF JobOK, Prepared, Fresh
  <2>6. Starts(x)
    BY <2>1, <2>4, <2>5 DEF Starts, Fresh, IsScore
  <2>. QED BY <2>6
<1>2. CASE StartTraining
  <2>. DEFINE dir == RunDirs[now + 1]
              x == Fresh("candidate", dir, RunTraining, None)
  <2>1. x.kind = "candidate" /\ x.dir \in Dirs /\ x.todo = RunTraining /\ dir \in Dirs
    BY <1>2 DEF Fresh, StartTraining, Dirs
  <2>2. Program(x, RunTraining)
    BY <2>1, CandidateProgram
  <2>3. RunTraining \in Seq(Instructions \X Names)
    BY <2>2 DEF Program
  <2>4. /\ jobs' = Append(jobs, x) /\ x \in Job
        /\ UNCHANGED <<work, disk, now, mlEnabled, scorer, cache>>
    BY <1>2, <2>1, <2>3, LaunchStarts DEF StartTraining, JobKinds
  <2>5. JobOK(x)
    BY <2>1, <2>2 DEF JobOK, Prepared, Fresh
  <2>6. Starts(x)
    BY <2>1, <2>4, <2>5 DEF Starts, Fresh, IsScore
  <2>. QED BY <2>6
<1>3. CASE StartCalibration
  <2>. DEFINE dir == FindLatestManifest
              x == Fresh("calibrate", dir, CalibrateManifest, None)
  <2>1. dir \in Dirs
    BY <1>3, LatestManifestIsOne DEF StartCalibration
  <2>2. x.kind = "calibrate" /\ x.dir \in Dirs /\ x.todo = CalibrateManifest
    BY <2>1 DEF Fresh
  <2>3. Program(x, CalibrateManifest)
    BY <2>2, CalibrateProgram
  <2>4. CalibrateManifest \in Seq(Instructions \X Names)
    BY <2>3 DEF Program
  <2>5. /\ jobs' = Append(jobs, x) /\ x \in Job
        /\ UNCHANGED <<work, disk, now, mlEnabled, scorer, cache>>
    BY <1>3, <2>1, <2>4, LaunchStarts DEF StartCalibration, JobKinds
  <2>6. JobOK(x)
    BY <2>2, <2>3 DEF JobOK, Prepared, Fresh
  <2>7. Starts(x)
    BY <2>2, <2>5, <2>6 DEF Starts, Fresh, IsScore
  <2>. QED BY <2>7
<1>4. CASE StartRegistration
  <2>. PICK dir \in Dirs : Launch("register", dir, RegisterTrainingRun, None)
    BY <1>4 DEF StartRegistration
  <2>. DEFINE x == Fresh("register", dir, RegisterTrainingRun, None)
  <2>1. x.kind = "register" /\ x.dir \in Dirs /\ x.todo = RegisterTrainingRun
    BY DEF Fresh
  <2>2. Program(x, RegisterTrainingRun) /\ "manifest" \in NamesIn(RegisterTrainingRun)
    BY <2>1, RegisterProgram
  <2>3. RegisterTrainingRun \in Seq(Instructions \X Names)
    BY <2>2 DEF Program
  <2>4. /\ jobs' = Append(jobs, x) /\ x \in Job
        /\ UNCHANGED <<work, disk, now, mlEnabled, scorer, cache>>
    BY <2>3, LaunchStarts DEF JobKinds
  <2>5. JobOK(x)
    BY <2>1, <2>2 DEF JobOK, Prepared, Fresh
  <2>6. Starts(x)
    BY <2>1, <2>4, <2>5 DEF Starts, Fresh, IsScore
  <2>. QED BY <2>6
<1>5. CASE StartScore
  <2>. DEFINE x == Fresh("score", scorer, ExplainFeatureRow, None)
  <2>1. scorer \in Dirs \cup {Official}
    BY <1>5 DEF StartScore, StoreTyped, StoreTypeOK
  <2>2. x.kind = "score" /\ x.dir \in Dirs \cup {Official} /\ x.todo = ExplainFeatureRow
    BY <2>1 DEF Fresh
  <2>3. /\ Program(x, ExplainFeatureRow)
        /\ {"manifest", "model", "calibrator"} \subseteq NamesIn(ExplainFeatureRow)
    BY <2>2, ScoreProgram
  <2>4. ExplainFeatureRow \in Seq(Instructions \X Names)
    BY <2>3 DEF Program
  <2>5. /\ jobs' = Append(jobs, x) /\ x \in Job
        /\ UNCHANGED <<work, disk, now, mlEnabled, scorer, cache>>
    BY <1>5, <2>1, <2>4, LaunchStarts DEF StartScore, JobKinds
  <2>6. JobOK(x)
    BY <2>2, <2>3 DEF JobOK, Prepared, Fresh
  <2>7. Starts(x)
    BY <2>2, <2>3, <2>5, <2>6 DEF Starts, Fresh
  <2>. QED BY <2>7
<1>6. CASE StartExplain
  <2>. PICK f \in Features : Launch("explain", Official, CachedExplain, f)
    BY <1>6 DEF StartExplain
  <2>. DEFINE x == Fresh("explain", Official, CachedExplain, f)
  <2>1. x.kind = "explain" /\ x.dir = Official /\ x.todo = CachedExplain /\ x.feature = f
    BY DEF Fresh
  <2>2. /\ Program(x, CachedExplain)
        /\ {"manifest", "model", "calibrator"} \subseteq NamesIn(CachedExplain)
    BY <2>1, ExplainProgram
  <2>3. CachedExplain \in Seq(Instructions \X Names)
    BY <2>2 DEF Program
  <2>4. /\ jobs' = Append(jobs, x) /\ x \in Job
        /\ UNCHANGED <<work, disk, now, mlEnabled, scorer, cache>>
    BY <2>3, LaunchStarts DEF JobKinds
  <2>5. JobOK(x)
    BY <2>1, <2>2 DEF JobOK, Prepared, Fresh
  <2>6. Starts(x)
    BY <2>1, <2>2, <2>4, <2>5 DEF Starts, Fresh
  <2>. QED BY <2>6
<1>. QED BY <1>1, <1>2, <1>3, <1>4, <1>5, <1>6

(* What the jobs are once one more has started.                            *)
LEMMA OneStarts ==
  ASSUME StoreTypeOK, NEW x, Starts(x)
  PROVE  /\ jobs' \in Seq(Job) /\ Len(jobs') = Len(jobs) + 1 /\ Len(jobs) \in Nat
         /\ jobs'[Len(jobs) + 1] = x
         /\ DOMAIN jobs = 1..Len(jobs)
         /\ DOMAIN jobs' = DOMAIN jobs \cup {Len(jobs) + 1}
         /\ Len(jobs) + 1 \notin DOMAIN jobs
         /\ \A j \in DOMAIN jobs : jobs'[j] = jobs[j]
BY DEF StoreTypeOK, Starts

-----------------------------------------------------------------------------
(* The cache                                                               *)

Distinct(entries) ==
  \A i, k \in DOMAIN entries : entries[i].feature = entries[k].feature => i = k

(* A sequence with one element removed: those behind it move up.           *)
LEMMA Removed ==
  ASSUME NEW S, NEW s \in Seq(S), NEW p \in DOMAIN s
  PROVE  /\ RemoveAt(s, p) \in Seq(S) /\ Len(RemoveAt(s, p)) = Len(s) - 1
         /\ \A i \in 1..(Len(s) - 1) : RemoveAt(s, p)[i] = IF i < p THEN s[i] ELSE s[i + 1]
<1>. DEFINE u == SubSeq(s, 1, p - 1)
            v == SubSeq(s, p + 1, Len(s))
<1>1. /\ p \in 1..Len(s) /\ Len(s) \in Nat
      /\ u \in Seq(S) /\ Len(u) = p - 1 /\ \A i \in 1..(p - 1) : u[i] = s[i]
      /\ v \in Seq(S) /\ Len(v) = Len(s) - p /\ \A i \in 1..(Len(s) - p) : v[i] = s[p + i]
  OBVIOUS
<1>. DEFINE w == u \o v
<1>2. RemoveAt(s, p) = w
  BY DEF RemoveAt
<1>. HIDE DEF u, v
<1>3. /\ w \in Seq(S) /\ Len(w) = Len(u) + Len(v)
      /\ \A i \in 1..Len(u) : w[i] = u[i]
      /\ \A i \in 1..Len(v) : w[Len(u) + i] = v[i]
  <2>1. u \in Seq(S) /\ v \in Seq(S)
    BY <1>1
  <2>. QED BY <2>1, Joined
<1>. HIDE DEF w
<1>4. ASSUME NEW i \in 1..(Len(s) - 1)
      PROVE  w[i] = IF i < p THEN s[i] ELSE s[i + 1]
  <2>1. CASE i < p
    <3>1. i \in 1..Len(u) /\ i \in 1..(p - 1)
      BY <1>1, <2>1
    <3>2. w[i] = u[i] /\ u[i] = s[i]
      BY <1>1, <1>3, <3>1
    <3>. QED BY <2>1, <3>2
  <2>2. CASE i >= p
    <3>1. i - Len(u) \in 1..Len(v) /\ Len(u) + (i - Len(u)) = i /\ p + (i - Len(u)) = i + 1
      BY <1>1, <2>2, SMTT(60)
    <3>2. w[Len(u) + (i - Len(u))] = v[i - Len(u)]
      BY <1>3, <3>1
    <3>3. v[i - Len(u)] = s[p + (i - Len(u))]
      BY <1>1, <3>1
    <3>4. w[i] = s[i + 1]
      BY <3>1, <3>2, <3>3
    <3>5. ~(i < p)
      BY <1>1, <2>2
    <3>. QED BY <3>4, <3>5
  <2>3. i < p \/ i >= p
    BY <1>1
  <2>. QED BY <2>1, <2>2, <2>3
<1>5. Len(w) = Len(s) - 1
  BY <1>1, <1>3
<1>. QED BY <1>2, <1>3, <1>4, <1>5

(* Without a feature row's entry, the others remain, each of its own row.  *)
LEMMA WithoutKeeps ==
  ASSUME NEW T, cache \in Seq(T), Distinct(cache), NEW f
  PROVE  /\ Without(f) \in Seq(T) /\ Distinct(Without(f))
         /\ \A i \in DOMAIN Without(f) : Without(f)[i].feature # f
         /\ Len(Without(f)) = IF HasEntry(f) THEN Len(cache) - 1 ELSE Len(cache)
<1>1. CASE ~HasEntry(f)
  BY <1>1 DEF HasEntry, Without, Entries
<1>2. CASE HasEntry(f)
  <2>. DEFINE p == Position(f)
              w == Without(f)
  <2>1. p \in DOMAIN cache /\ cache[p].feature = f
    BY <1>2 DEF HasEntry, Entries, Position
  <2>2. w = RemoveAt(cache, p)
    BY <1>2 DEF HasEntry, Without
  <2>3. /\ w \in Seq(T) /\ Len(w) = Len(cache) - 1
        /\ \A i \in 1..(Len(cache) - 1) : w[i] = IF i < p THEN cache[i] ELSE cache[i + 1]
    BY <2>1, <2>2, Removed
  <2>. HIDE DEF p, w
  <2>4. /\ Len(cache) \in Nat \ {0} /\ p \in 1..Len(cache)
        /\ DOMAIN w = 1..(Len(cache) - 1)
    BY <2>1, <2>3
  <2>5. \A i \in DOMAIN w : w[i].feature # f
    BY <2>1, <2>3, <2>4 DEF Distinct
  <2>6. ASSUME NEW i \in DOMAIN w, NEW k \in DOMAIN w, w[i].feature = w[k].feature
        PROVE  i = k
    <3>1. PICK m \in DOMAIN cache : w[i] = cache[m] /\ m = IF i < p THEN i ELSE i + 1
      BY <2>3, <2>4
    <3>2. PICK n \in DOMAIN cache : w[k] = cache[n] /\ n = IF k < p THEN k ELSE k + 1
      BY <2>3, <2>4
    <3>3. m = n
      BY <2>6, <3>1, <3>2 DEF Distinct
    <3>. QED BY <2>4, <3>1, <3>2, <3>3
  <2>7. Distinct(w)
    BY <2>6 DEF Distinct
  <2>. QED BY <1>2, <2>3, <2>5, <2>7 DEF w
<1>. QED BY <1>1, <1>2

(* An entry added for a row that has none is the only one of its row.      *)
LEMMA AppendedKeeps ==
  ASSUME NEW T, NEW c \in Seq(T), Distinct(c), NEW e \in T,
         \A i \in DOMAIN c : c[i].feature # e.feature
  PROVE  /\ Append(c, e) \in Seq(T) /\ Distinct(Append(c, e)) /\ Len(Append(c, e)) = Len(c) + 1
BY DEF Distinct

(* The cache after a hit, and after an explanation was stored.             *)
LEMMA TouchedKeeps ==
  ASSUME NEW T, cache \in Seq(T), Distinct(cache), NEW f, HasEntry(f)
  PROVE  /\ Touched(f) \in Seq(T) /\ Distinct(Touched(f)) /\ Len(Touched(f)) = Len(cache)
         /\ EntryOf(f) \in T
<1>1. Position(f) \in DOMAIN cache /\ cache[Position(f)].feature = f
  BY DEF HasEntry, Entries, Position
<1>2. EntryOf(f) \in T /\ EntryOf(f).feature = f
  BY <1>1 DEF EntryOf
<1>3. /\ Without(f) \in Seq(T) /\ Distinct(Without(f))
      /\ \A i \in DOMAIN Without(f) : Without(f)[i].feature # f
      /\ Len(Without(f)) = Len(cache) - 1
  BY WithoutKeeps
<1>4. /\ Touched(f) \in Seq(T) /\ Distinct(Touched(f)) /\ Len(Touched(f)) = Len(Without(f)) + 1
  BY <1>2, <1>3, AppendedKeeps DEF Touched
<1>5. Len(cache) \in Nat
  OBVIOUS
<1>. QED BY <1>2, <1>3, <1>4, <1>5

(* A stored entry is the only one of its row, and the cache stays within   *)
(* its limit.                                                              *)
LEMMA StoredKeeps ==
  ASSUME NEW T, cache \in Seq(T), Distinct(cache), Len(cache) <= MaxEntries,
         NEW f, NEW e \in T, e.feature = f
  PROVE  LET after == Trimmed(Append(Without(f), e))
         IN  after \in Seq(T) /\ Distinct(after) /\ Len(after) <= MaxEntries
<1>. DEFINE added == Append(Without(f), e)
<1>1. /\ Without(f) \in Seq(T) /\ Distinct(Without(f))
      /\ \A i \in DOMAIN Without(f) : Without(f)[i].feature # f
      /\ Len(Without(f)) = IF HasEntry(f) THEN Len(cache) - 1 ELSE Len(cache)
  BY WithoutKeeps
<1>2. added \in Seq(T) /\ Distinct(added) /\ Len(added) = Len(Without(f)) + 1
  BY <1>1, AppendedKeeps
<1>. HIDE DEF added
<1>3. Len(cache) \in Nat /\ MaxEntries \in Nat /\ Len(added) \in Nat /\ Len(added) <= MaxEntries + 1
  BY <1>1, <1>2, StoreAssumption
<1>4. CASE Len(added) > MaxEntries
  <2>1. /\ Tail(added) \in Seq(T) /\ Len(Tail(added)) = Len(added) - 1
        /\ \A i \in DOMAIN Tail(added) : i + 1 \in DOMAIN added /\ Tail(added)[i] = added[i + 1]
        /\ \A i \in DOMAIN Tail(added) : i \in Nat
    BY <1>2, <1>3, <1>4, StoreAssumption
  <2>2. Distinct(Tail(added))
    BY <1>2, <2>1 DEF Distinct
  <2>. QED BY <1>3, <1>4, <2>1, <2>2 DEF Trimmed, added
<1>5. CASE ~(Len(added) > MaxEntries)
  BY <1>2, <1>3, <1>5 DEF Trimmed, added
<1>. QED BY <1>4, <1>5

-----------------------------------------------------------------------------
(* The types are preserved                                                 *)

Scorers == {None, Down, Official} \cup Dirs

DiskTyped ==
  /\ DOMAIN disk = Paths
  /\ \A p \in Paths \ {Registry} : disk[p] \in {Absent, Half} \cup [by : 0..Len(jobs), at : 0..now]
  /\ disk[Registry] \in {Absent, Half} \cup Rows(Clock)

CacheTyped == cache \in Seq(CacheEntry) /\ Len(cache) <= MaxEntries /\ Distinct(cache)

(* The types of the store, in parts.                                       *)
LEMMA TypesInParts ==
  StoreTypeOK <=> /\ work.time \in Nat /\ now \in Clock /\ scorer \in Scorers
                  /\ jobs \in Seq(Job) /\ DiskTyped /\ CacheTyped
BY DEF StoreTypeOK, Scorers, DiskTyped, CacheTyped, Distinct

(* What has a content is not None.                                         *)
LEMMA ContentIsSome ==
  ASSUME work.time \in Nat, NEW name, NEW v \in Content(name, Clock)
  PROVE  v # None /\ v # Absent /\ v # Half
<1>1. Clock \subseteq Nat
  BY DEF Clock
<1>2. v \in File(Nat) \cup Rows(Nat)
  BY <1>1 DEF Content, File, Rows
<1>. QED BY <1>2, NothingAssumption

(* The kind, directory and feature row of a job decide on its program.     *)
LEMMA SameProgram ==
  ASSUME NEW x, NEW y, NEW t, y.kind = x.kind, y.dir = x.dir, y.feature = x.feature, Program(x, t)
  PROVE  Program(y, t)
BY DEF Program, LegalStep, IsScore

(* A reading that succeeds finds something, unless the file may be missing. *)
LEMMA FoundIsSome ==
  ASSUME StoreTyped, NEW j \in DOMAIN jobs, ReadFile(j), ~Raises(jobs[j]),
         Head(jobs[j].todo)[1] = "need" \/ FoundBy(jobs[j]) # Absent
  PROVE  /\ ReadBy(jobs[j]) = FoundBy(jobs[j]) /\ ReadBy(jobs[j]) # None
         /\ ReadBy(jobs[j]) \in Content(NameOf(jobs[j]), Clock)
<1>. DEFINE x == jobs[j]
            n == NameOf(x)
<1>1. FoundBy(x) \notin {Absent, Half} /\ ReadBy(x) = FoundBy(x)
  BY DEF Raises, ReadBy
<1>2. PathOf(x.dir, n) \in Paths
  BY ReadFileMoves
<1>3. x.dir \in Dirs \cup {Official}
  <2>1. x \in Job
    BY DEF StoreTyped, StoreTypeOK
  <2>. QED BY <2>1 DEF Job
<1>4. FoundBy(x) \in Content(n, Clock)
  <2>1. CASE n = "rows"
    <3>1. FoundBy(x) = disk[Registry]
      BY <1>3, <2>1, PathsApart DEF FoundBy
    <3>. QED BY <1>1, <2>1, <3>1 DEF StoreTyped, StoreTypeOK, Content
  <2>2. CASE n # "rows"
    <3>1. PathOf(x.dir, n) \in Paths \ {Registry}
      BY <1>2, <1>3, <2>2, PathsApart
    <3>2. FoundBy(x) \in [by : 0..Len(jobs), at : 0..now]
      BY <1>1, <3>1 DEF StoreTyped, StoreTypeOK, FoundBy
    <3>3. [by : 0..Len(jobs), at : 0..now] \subseteq File(Clock)
      BY DEF StoreTyped, StoreTypeOK, File, Clock
    <3>. QED BY <2>2, <3>2, <3>3 DEF Content
  <2>. QED BY <2>1, <2>2
<1>5. FoundBy(x) # None
  BY <1>4, ContentIsSome DEF StoreTyped, StoreTypeOK
<1>. QED BY <1>1, <1>4, <1>5

(* A job that starts is well formed, and disturbs nothing.                 *)
LEMMA StartKeepsTypes ==
  ASSUME StoreTyped, NEW x, Starts(x)
  PROVE  StoreTyped'
<1>1. /\ jobs' \in Seq(Job) /\ Len(jobs') = Len(jobs) + 1 /\ Len(jobs) \in Nat
      /\ jobs'[Len(jobs) + 1] = x
      /\ DOMAIN jobs' = DOMAIN jobs \cup {Len(jobs) + 1}
      /\ \A j \in DOMAIN jobs : jobs'[j] = jobs[j]
  BY OneStarts DEF StoreTyped
<1>2. UNCHANGED <<work, disk, now, mlEnabled, scorer, cache>> /\ JobOK(x)
  BY DEF Starts
<1>3. Clock' = Clock /\ CacheEntry' = CacheEntry
  BY <1>2 DEF Clock, CacheEntry, Held
<1>4. (jobs \in Seq(Job))'
  BY <1>1, <1>3 DEF Job, Held
<1>5. DiskTyped'
  BY <1>1, <1>2, <1>3, TypesInParts DEF DiskTyped, StoreTyped
<1>6. CacheTyped'
  BY <1>2, <1>3, TypesInParts DEF CacheTyped, StoreTyped, Distinct
<1>7. StoreTypeOK'
  <2>1. work'.time \in Nat /\ now' \in Clock' /\ scorer' \in Scorers
    BY <1>2, <1>3, TypesInParts DEF StoreTyped
  <2>2. Scorers' = Scorers
    BY DEF Scorers
  <2>. QED BY <1>4, <1>5, <1>6, <2>1, <2>2 DEF StoreTypeOK, Scorers, DiskTyped, CacheTyped, Distinct
<1>8. ASSUME NEW j \in DOMAIN jobs' PROVE JobOK(jobs[j])'
  <2>1. JobOK(jobs'[j])
    BY <1>1, <1>2 DEF StoreTyped
  <2>. QED BY <1>3, <2>1 DEF JobOK, Prepared
<1>. QED BY <1>7, <1>8 DEF StoreTyped

(* So does a job that moves, if its files and the cache keep their types.  *)
LEMMA MoveKeepsTypes ==
  ASSUME StoreTyped, NEW j \in DOMAIN jobs, NEW y, Moves(j, y), JobOK(y), now' = now, scorer' = scorer,
         DiskTyped', CacheTyped'
  PROVE  StoreTyped'
<1>1. /\ jobs' \in Seq(Job) /\ DOMAIN jobs' = DOMAIN jobs /\ jobs'[j] = y
      /\ \A k \in DOMAIN jobs : k # j => jobs'[k] = jobs[k]
  BY OneMoves DEF StoreTyped
<1>2. work' = work
  BY DEF Moves
<1>3. Clock' = Clock
  BY <1>2 DEF Clock
<1>4. (jobs \in Seq(Job))'
  BY <1>1, <1>3 DEF Job, Held
<1>5. StoreTypeOK'
  <2>1. work'.time \in Nat /\ now' \in Clock' /\ scorer' \in Scorers
    BY <1>2, <1>3, TypesInParts DEF StoreTyped
  <2>. QED BY <1>4, <2>1 DEF StoreTypeOK, Scorers, DiskTyped, CacheTyped, Distinct
<1>6. ASSUME NEW k \in DOMAIN jobs' PROVE JobOK(jobs[k])'
  <2>1. JobOK(jobs'[k])
    BY <1>1 DEF StoreTyped
  <2>. QED BY <1>3, <2>1 DEF JobOK, Prepared
<1>. QED BY <1>5, <1>6 DEF StoreTyped

(* Moving changes neither the times nor the number of jobs.                *)
LEMMA MoveKeepsFiles ==
  ASSUME StoreTyped, NEW j \in DOMAIN jobs, NEW y, Moves(j, y), now' = now
  PROVE  /\ disk' = disk => DiskTyped'
         /\ cache' = cache => CacheTyped'
         /\ CacheEntry' = CacheEntry /\ Clock' = Clock /\ Len(jobs') = Len(jobs)
<1>1. Len(jobs') = Len(jobs) /\ work' = work
  BY OneMoves DEF StoreTyped, Moves
<1>2. CacheEntry' = CacheEntry /\ Clock' = Clock
  BY <1>1 DEF CacheEntry, Held, Clock
<1>3. disk' = disk => DiskTyped'
  BY <1>1, <1>2, TypesInParts DEF DiskTyped, StoreTyped
<1>4. cache' = cache => CacheTyped'
  BY <1>2, TypesInParts DEF CacheTyped, StoreTyped, Distinct
<1>. QED BY <1>1, <1>2, <1>3, <1>4

(* A read: what is held came from a file of that name.                     *)
LEMMA ReadFileKeepsTypes ==
  ASSUME StoreTyped, NEW j \in DOMAIN jobs, ReadFile(j)
  PROVE  StoreTyped'
<1>. DEFINE x == jobs[j]
            n == NameOf(x)
<1>1. /\ n \in Parts /\ Head(x.todo)[1] \in Reads
      /\ ReadBy(x) \in {None} \cup Content(n, Clock)
      /\ Raises(x) => Moves(j, HasFailed(x))
      /\ ~Raises(x) => Moves(j, HasRead(x, ReadBy(x)))
      /\ UNCHANGED <<disk, now, mlEnabled, scorer, cache>>
  BY ReadFileMoves
<1>2. x \in Job /\ JobOK(x) /\ x.todo # <<>>
  BY DEF StoreTyped, StoreTypeOK, ReadFile, Running, Unfinished
<1>3. CASE Raises(x)
  <2>. DEFINE y == HasFailed(x)
  <2>1. /\ y.kind = x.kind /\ y.dir = x.dir /\ y.feature = x.feature /\ y.todo = <<>>
    BY <1>2 DEF HasFailed, Job
  <2>2. JobOK(y)
    BY <1>2, <2>1, NothingLeft DEF JobOK, Prepared
  <2>. QED BY <1>1, <1>3, <2>2, MoveKeepsTypes, MoveKeepsFiles
<1>4. CASE ~Raises(x)
  <2>. DEFINE y == HasRead(x, ReadBy(x))
  <2>1. /\ y.kind = x.kind /\ y.dir = x.dir /\ y.feature = x.feature /\ y.todo = Tail(x.todo)
        /\ y.dead = x.dead /\ y.held = [x.held EXCEPT ![n] = ReadBy(x)]
    BY <1>2 DEF HasRead, Job, NameOf
  <2>0. ~y.failed
    BY <1>2 DEF HasRead, Job, JobOK, Prepared
  <2>2. Program(x, Tail(x.todo)) /\ NamesIn(x.todo) = {n} \cup NamesIn(Tail(x.todo))
        /\ Head(x.todo) = x.todo[1] /\ 1 \in DOMAIN x.todo
    BY <1>2, TailIsProgram DEF JobOK, NameOf
  <2>3. Program(y, y.todo)
    BY <2>1, <2>2, SameProgram
  <2>4. ASSUME y.kind = "register", ~y.dead, "manifest" \notin NamesIn(y.todo)
        PROVE  y.held["manifest"] \in File(Clock)
    <3>1. x.held \in Held
      BY <1>2, JobTyped
    <3>2. CASE n = "manifest"
      <4>1. RegisterStep(x.todo, 1)
        BY <1>2, <2>1, <2>2, <2>4 DEF JobOK, Program
      <4>2. Head(x.todo)[1] = "need"
        BY <2>2, <3>2, <4>1 DEF RegisterStep, NameOf
      <4>3. ReadBy(x) \in File(Clock)
        BY <1>4, <3>2, <4>2, FoundIsSome DEF Content
      <4>. QED BY <1>1, <2>1, <3>1, <3>2, <4>3, HeldTyped
    <3>3. CASE n # "manifest"
      <4>1. "manifest" \notin NamesIn(x.todo)
        BY <2>1, <2>2, <2>4, <3>3
      <4>2. x.held["manifest"] \in File(Clock)
        BY <1>2, <2>1, <2>4, <4>1 DEF JobOK, Prepared
      <4>3. y.held["manifest"] = x.held["manifest"]
        BY <1>1, <2>1, <3>1, <3>3, HeldTyped DEF Parts
      <4>. QED BY <4>2, <4>3
    <3>. QED BY <3>2, <3>3
  <2>5. JobOK(y)
    BY <1>2, <2>0, <2>1, <2>3, <2>4 DEF JobOK, Prepared
  <2>. QED BY <1>1, <1>4, <2>5, MoveKeepsTypes, MoveKeepsFiles
<1>. QED BY <1>3, <1>4

(* Nothing but the todo of a job, or its death, changes in the steps that  *)
(* neither read nor hit.                                                   *)
LEMMA OpenFileKeepsTypes ==
  ASSUME StoreTyped, NEW j \in DOMAIN jobs, OpenFile(j)
  PROVE  StoreTyped'
<1>. DEFINE x == jobs[j]
            y == HasOpened(x)
            path == PathOf(x.dir, NameOf(x))
<1>1. /\ Head(x.todo)[1] = "write" /\ Moves(j, y)
      /\ disk' = [disk EXCEPT ![path] = Half]
      /\ UNCHANGED <<now, mlEnabled, scorer, cache>>
  BY OpenFileMoves
<1>2. x \in Job /\ JobOK(x) /\ x.todo # <<>> /\ Head(x.todo) = x.todo[1]
  BY WriterHasPath DEF OpenFile, Writes
<1>3. /\ y.kind = x.kind /\ y.dir = x.dir /\ y.feature = x.feature /\ y.dead = x.dead
      /\ y.held = x.held /\ y.todo = <<<<"fill", x.todo[1][2]>>>> \o Tail(x.todo)
  BY <1>2 DEF HasOpened, Job
<1>0. ~y.failed
  BY <1>2 DEF HasOpened, Job, JobOK, Prepared
<1>4. Program(x, y.todo) /\ NamesIn(y.todo) = NamesIn(x.todo) /\ y.todo # <<>>
  <2>1. Program(x, x.todo) /\ x.todo[1][1] = "write"
    BY <1>1, <1>2 DEF JobOK
  <2>. QED BY <1>2, <1>3, <2>1, OpenedIsProgram, ZenonT(60)
<1>5. JobOK(y)
  <2>1. Program(y, y.todo)
    BY <1>3, <1>4, SameProgram
  <2>. QED BY <1>2, <1>0, <1>3, <1>4, <2>1 DEF JobOK, Prepared
<1>6. DiskTyped'
  <2>1. DiskTyped
    BY TypesInParts DEF StoreTyped
  <2>2. Len(jobs') = Len(jobs) /\ Clock' = Clock /\ now' = now
    BY <1>1, MoveKeepsFiles
  <2>. QED BY <1>1, <2>1, <2>2 DEF DiskTyped, Rows
<1>. QED BY <1>1, <1>5, <1>6, MoveKeepsFiles, MoveKeepsTypes

(* A registration writes with its manifest in hand.                        *)
LEMMA WrittenIsTyped ==
  ASSUME StoreTyped, NEW j \in DOMAIN jobs, CloseFile(j)
  PROVE  /\ NameOf(jobs[j]) = "rows" => /\ jobs[j].kind = "register" /\ Len(jobs[j].todo) = 1
                                        /\ RecordOf(jobs[j]).version = jobs[j].dir
                                        /\ WrittenBy(j) \in Rows(Clock)
         /\ NameOf(jobs[j]) # "rows" => WrittenBy(j) = [by |-> j, at |-> now]
<1>. DEFINE x == jobs[j]
<1>1. /\ x \in Job /\ JobOK(x) /\ x.todo # <<>> /\ Head(x.todo) = x.todo[1] /\ 1 \in DOMAIN x.todo
      /\ LegalStep(x, x.todo, 1) /\ ~x.dead
  BY WriterHasPath DEF CloseFile, Writes, Running
<1>2. Head(x.todo)[1] \in Writes
  BY DEF CloseFile, Instr, Writes
<1>3. ASSUME NameOf(x) = "rows"
      PROVE  /\ x.kind = "register" /\ Len(x.todo) = 1 /\ RecordOf(x).version = x.dir
             /\ WrittenBy(j) \in Rows(Clock)
  <2>1. x.kind = "register"
    BY <1>1, <1>2, <1>3 DEF LegalStep, NameOf
  <2>2. RegisterStep(x.todo, 1)
    BY <1>1, <2>1 DEF JobOK, Program
  <2>3. Len(x.todo) = 1
    BY <1>1, <1>2, <2>2 DEF RegisterStep
  <2>4. "manifest" \notin NamesIn(x.todo)
    <3>1. \A i \in DOMAIN x.todo : i = 1
      BY <1>1, <2>3 DEF Job
    <3>. QED BY <1>1, <1>3, <3>1 DEF NamesIn, NameOf
  <2>5. x.held["manifest"] \in File(Clock) /\ x.dir \in Dirs
    BY <1>1, <2>1, <2>4 DEF JobOK, Prepared
  <2>6. x.held \in Held
    BY <1>1 DEF Job
  <2>7. x.held["calibration"] \in {None} \cup File(Clock)
    BY <2>6, HeldTyped DEF Parts, Content
  <2>8. x.held["rows"] \in {None} \cup Rows(Clock)
    BY <2>6, HeldTyped DEF Parts, Content
  <2>. DEFINE Row == [version : Dirs, created : Clock, calibrator : Nat \cup {None}]
  <2>9. RecordOf(x) \in Row
    <3>1. ExtractCalibrationMetrics(x.held["calibration"]) \in Nat \cup {None}
      BY <2>7 DEF ExtractCalibrationMetrics, File
    <3>2. x.held["manifest"].at \in Clock
      BY <2>5 DEF File
    <3>. QED BY <2>5, <3>1, <3>2 DEF RecordOf
  <2>10. RowsIn(x.held["rows"]) \subseteq Row
    <3>1. CASE x.held["rows"] = None
      BY <3>1 DEF RowsIn
    <3>2. CASE x.held["rows"] \in Rows(Clock)
      BY <3>2 DEF RowsIn, Rows
    <3>. QED BY <2>8, <3>1, <3>2
  <2>11. UpsertRecord(RowsIn(x.held["rows"]), RecordOf(x)) \in SUBSET Row
    BY <2>9, <2>10 DEF UpsertRecord
  <2>12. WrittenBy(j) \in Rows(Clock)
    BY <1>3, <2>11 DEF WrittenBy, Rows
  <2>. QED BY <2>1, <2>3, <2>12 DEF RecordOf
<1>4. NameOf(x) # "rows" => WrittenBy(j) = [by |-> j, at |-> now]
  BY DEF WrittenBy
<1>. QED BY <1>3, <1>4

(* A close: what is written is a content of that file.                     *)
LEMMA CloseFileKeepsTypes ==
  ASSUME StoreTyped, NEW j \in DOMAIN jobs, CloseFile(j)
  PROVE  StoreTyped'
<1>. DEFINE x == jobs[j]
            y == HasWritten(x)
            path == PathOf(x.dir, NameOf(x))
<1>1. /\ Head(x.todo)[1] \in {"fill", "put"} /\ Moves(j, y)
      /\ disk' = [disk EXCEPT ![path] = WrittenBy(j)]
      /\ UNCHANGED <<now, mlEnabled, scorer, cache>>
  BY CloseFileMoves
<1>2. /\ x \in Job /\ JobOK(x) /\ x.todo # <<>> /\ Head(x.todo) = x.todo[1] /\ 1 \in DOMAIN x.todo
      /\ path \in Paths
  BY WriterHasPath DEF CloseFile, Writes
<1>3. /\ y.kind = x.kind /\ y.dir = x.dir /\ y.feature = x.feature /\ y.dead = x.dead
      /\ y.todo = Tail(x.todo)
  BY <1>2 DEF HasWritten, Job
<1>0. ~y.failed
  BY <1>2 DEF HasWritten, Job, JobOK, Prepared
<1>4. Program(x, Tail(x.todo)) /\ NamesIn(x.todo) = {Head(x.todo)[2]} \cup NamesIn(Tail(x.todo))
  BY <1>2, TailIsProgram DEF JobOK
<1>5. x.kind = "register" => Tail(x.todo) = <<>>
  <2>1. x.kind = "register" => RegisterStep(x.todo, 1)
    BY <1>2 DEF JobOK, Program
  <2>2. x.kind = "register" => Len(x.todo) = 1
    BY <1>1, <1>2, <2>1 DEF RegisterStep, Writes
  <2>3. x.todo \in Seq(Instructions \X Names)
    BY <1>2 DEF Job
  <2>4. Len(x.todo) = 1 => Tail(x.todo) = <<>>
    BY <2>3, OneStepLeft
  <2>. QED BY <2>2, <2>4
<1>6. JobOK(y)
  <2>1. Program(y, y.todo)
    BY <1>3, <1>4, SameProgram
  <2>. QED BY <1>0, <1>2, <1>3, <1>5, <2>1 DEF JobOK, Prepared
<1>7. DiskTyped'
  <2>1. DiskTyped /\ now \in Nat /\ Len(jobs) \in Nat /\ j \in 1..Len(jobs)
    BY TypesInParts DEF StoreTyped, StoreTypeOK, Clock
  <2>2. Len(jobs') = Len(jobs) /\ Clock' = Clock /\ now' = now
    BY <1>1, MoveKeepsFiles
  <2>3. DOMAIN disk' = Paths /\ \A p \in Paths : disk'[p] = IF p = path THEN WrittenBy(j) ELSE disk[p]
    BY <1>1, <2>1 DEF DiskTyped
  <2>4. path = Registry <=> NameOf(x) = "rows"
    BY <1>2, PathsApart DEF Job
  <2>5. NameOf(x) = "rows" => WrittenBy(j) \in Rows(Clock)
    BY WrittenIsTyped
  <2>6. NameOf(x) # "rows" => WrittenBy(j) \in [by : 0..Len(jobs), at : 0..now]
    BY <2>1, WrittenIsTyped
  <2>7. Registry \in Paths /\ Rows(Clock)' = Rows(Clock)
    BY <2>2 DEF Paths, Rows
  <2>8. (disk[Registry] \in {Absent, Half} \cup Rows(Clock))'
    BY <2>1, <2>3, <2>4, <2>5, <2>7 DEF DiskTyped
  <2>9. (\A p \in Paths \ {Registry} : disk[p] \in {Absent, Half} \cup [by : 0..Len(jobs), at : 0..now])'
    BY <2>1, <2>2, <2>3, <2>4, <2>6 DEF DiskTyped
  <2>. QED BY <2>3, <2>8, <2>9 DEF DiskTyped
<1>. QED BY <1>1, <1>6, <1>7, MoveKeepsFiles, MoveKeepsTypes

(* A death changes no file.                                                *)
LEMMA DieKeepsTypes ==
  ASSUME StoreTyped, NEW j \in DOMAIN jobs, Die(j)
  PROVE  StoreTyped'
<1>. DEFINE x == jobs[j]
            y == HasDied(x)
<1>1. x \in Job /\ JobOK(x)
  BY DEF StoreTyped, StoreTypeOK
<1>2. /\ y.kind = x.kind /\ y.dir = x.dir /\ y.feature = x.feature /\ y.dead /\ y.todo = x.todo
  BY <1>1 DEF HasDied, Job
<1>0. y.failed => y.todo = <<>>
  BY <1>1, <1>2 DEF HasDied, Job, JobOK, Prepared
<1>3. JobOK(y)
  <2>1. Program(y, y.todo)
    BY <1>1, <1>2, SameProgram DEF JobOK
  <2>. QED BY <1>0, <1>1, <1>2, <2>1 DEF JobOK, Prepared
<1>. QED BY <1>3, DieMoves, MoveKeepsFiles, MoveKeepsTypes

(* A step of the cache that leaves the job its program.                    *)
LEMMA GoneIsOK ==
  ASSUME NEW x \in Job, JobOK(x), x.todo # <<>>, Head(x.todo)[1] \in {"get", "set"}
  PROVE  JobOK(HasGone(x))
<1>. DEFINE y == HasGone(x)
<1>1. /\ y.kind = x.kind /\ y.dir = x.dir /\ y.feature = x.feature /\ y.dead = x.dead
      /\ y.todo = Tail(x.todo) /\ y.held = x.held
  BY DEF HasGone, Job
<1>2. /\ Program(x, Tail(x.todo)) /\ NamesIn(x.todo) = {Head(x.todo)[2]} \cup NamesIn(Tail(x.todo))
      /\ Head(x.todo) = x.todo[1] /\ 1 \in DOMAIN x.todo
  BY TailIsProgram DEF JobOK
<1>0. ~y.failed
  BY DEF HasGone, Job, JobOK, Prepared
<1>3. Program(y, y.todo)
  BY <1>1, <1>2, SameProgram
<1>4. x.kind = "register" => Head(x.todo)[2] # "manifest"
  <2>1. x.kind = "register" => RegisterStep(x.todo, 1)
    BY <1>2 DEF JobOK, Program
  <2>. QED BY <1>2, <2>1 DEF RegisterStep
<1>5. Prepared(y)
  BY <1>0, <1>1, <1>2, <1>4 DEF JobOK, Prepared
<1>. QED BY <1>3, <1>5 DEF JobOK

(* A look in the cache: what is held came from an entry.                   *)
LEMMA CacheGetKeepsTypes ==
  ASSUME StoreTyped, NEW j \in DOMAIN jobs, CacheGet(j)
  PROVE  StoreTyped'
<1>. DEFINE x == jobs[j]
            f == jobs[j].feature
<1>1. /\ Hit(f) => Moves(j, HasHit(x, EntryOf(f))) /\ cache' = Touched(f)
      /\ ~Hit(f) => Moves(j, HasGone(x)) /\ cache' = Without(f)
      /\ UNCHANGED <<disk, now, mlEnabled, scorer>>
  BY CacheGetMoves
<1>2. x \in Job /\ JobOK(x) /\ x.todo # <<>> /\ Head(x.todo)[1] = "get"
  BY CacheStepsExplain DEF CacheGet, Instr
<1>3. cache \in Seq(CacheEntry) /\ Distinct(cache) /\ Len(cache) <= MaxEntries /\ Len(cache) \in Nat
  BY TypesInParts DEF StoreTyped, CacheTyped
<1>4. CASE Hit(f)
  <2>. DEFINE y == HasHit(x, EntryOf(f))
  <2>1. Touched(f) \in Seq(CacheEntry) /\ Distinct(Touched(f)) /\ Len(Touched(f)) = Len(cache)
    BY <1>3, <1>4, TouchedKeeps DEF Hit, HasEntry
  <2>2. CacheEntry' = CacheEntry
    BY <1>1, <1>4, MoveKeepsFiles
  <2>3. CacheTyped'
    BY <1>1, <1>3, <1>4, <2>1, <2>2 DEF CacheTyped, Distinct
  <2>4. /\ y.kind = x.kind /\ y.dir = x.dir /\ y.feature = x.feature /\ y.todo = <<>>
    BY <1>2 DEF HasHit, Job
  <2>5. JobOK(y)
    BY <1>2, <2>4, NothingLeft DEF JobOK, Prepared
  <2>. QED BY <1>1, <1>4, <2>3, <2>5, MoveKeepsFiles, MoveKeepsTypes
<1>5. CASE ~Hit(f)
  <2>1. /\ Without(f) \in Seq(CacheEntry) /\ Distinct(Without(f))
        /\ Len(Without(f)) = IF HasEntry(f) THEN Len(cache) - 1 ELSE Len(cache)
    BY <1>3, WithoutKeeps
  <2>2. CacheEntry' = CacheEntry
    BY <1>1, <1>5, MoveKeepsFiles
  <2>3. Len(Without(f)) <= MaxEntries
    BY <1>3, <2>1, StoreAssumption
  <2>4. CacheTyped'
    BY <1>1, <1>5, <2>1, <2>2, <2>3 DEF CacheTyped, Distinct
  <2>5. JobOK(HasGone(x))
    BY <1>2, GoneIsOK
  <2>. QED BY <1>1, <1>5, <2>4, <2>5, MoveKeepsFiles, MoveKeepsTypes
<1>. QED BY <1>4, <1>5

(* A store into the cache: what is kept came from the job.                 *)
LEMMA CacheSetKeepsTypes ==
  ASSUME StoreTyped, NEW j \in DOMAIN jobs, CacheSet(j)
  PROVE  StoreTyped'
<1>. DEFINE x == jobs[j]
            f == jobs[j].feature
            e == [feature |-> f, stored |-> now, made |-> now, held |-> x.held]
<1>1. /\ Moves(j, HasGone(x)) /\ f \in Features
      /\ cache' = Trimmed(Append(Without(f), e))
      /\ UNCHANGED <<disk, now, mlEnabled, scorer>>
  BY CacheSetMoves
<1>2. x \in Job /\ JobOK(x) /\ x.todo # <<>> /\ Head(x.todo)[1] = "set"
  BY CacheStepsExplain DEF CacheSet, Instr
<1>3. cache \in Seq(CacheEntry) /\ Distinct(cache) /\ Len(cache) <= MaxEntries
  BY TypesInParts DEF StoreTyped, CacheTyped
<1>4. e \in CacheEntry /\ e.feature = f
  <2>1. now \in 0..now
    BY DEF StoreTyped, StoreTypeOK, Clock
  <2>2. x.held \in Held
    BY <1>2 DEF Job
  <2>. QED BY <1>1, <2>1, <2>2 DEF CacheEntry
<1>. HIDE DEF e
<1>5. CacheTyped'
  <2>1. CacheEntry' = CacheEntry
    BY <1>1, MoveKeepsFiles
  <2>2. /\ cache' \in Seq(CacheEntry) /\ Distinct(Trimmed(Append(Without(f), e)))
        /\ Len(cache') <= MaxEntries
    BY <1>1, <1>3, <1>4, StoredKeeps
  <2>. QED BY <1>1, <2>1, <2>2 DEF CacheTyped, Distinct
<1>6. JobOK(HasGone(x))
  BY <1>2, GoneIsOK
<1>. QED BY <1>1, <1>5, <1>6, MoveKeepsFiles, MoveKeepsTypes

(* Whatever the disk holds, the worker gets a directory, or none.          *)
LEMMA ScorerTyped ==
  ASSUME work.time \in Nat, DiskTyped
  PROVE  LoadScorerFromEnv \in Scorers
<1>1. \A dir \in Dirs \cup {Official} : FromManifest(dir) \in Scorers
  BY DEF FromManifest, Scorers
<1>2. AnyManifest => FindLatestManifest \in Dirs
  BY LatestManifestIsOne
<1>3. ASSUME RowsIn(disk[Registry]) # {}, disk[Registry] # Half
      PROVE  Latest(RowsIn(disk[Registry])).version \in Dirs
  <2>1. disk[Registry] \in Rows(0..work.time) /\ RowsIn(disk[Registry]) = disk[Registry].rows
    BY <1>3 DEF DiskTyped, Clock, RowsIn
  <2>. QED BY <1>3, <2>1, LatestIsOne
<1>. QED BY <1>1, <1>2, <1>3 DEF LoadScorerFromEnv, Scorers

(* Every step of the store keeps the types.                                *)
LEMMA StoreTypesKept == ASSUME StoreTyped, StoreNext PROVE StoreTyped'
<1>1. ASSUME \/ StartOfficial \/ StartTraining \/ StartCalibration \/ StartRegistration
             \/ StartScore \/ StartExplain
      PROVE  StoreTyped'
  BY <1>1, EveryStart, StartKeepsTypes
<1>2. ASSUME NEW j \in DOMAIN jobs,
             \/ ReadFile(j) \/ OpenFile(j) \/ CloseFile(j) \/ Die(j)
             \/ CacheGet(j) \/ CacheSet(j)
      PROVE  StoreTyped'
  BY <1>2, ReadFileKeepsTypes, OpenFileKeepsTypes, CloseFileKeepsTypes, DieKeepsTypes,
     CacheGetKeepsTypes, CacheSetKeepsTypes
<1>3. CASE Tick
  <2>1. /\ now' = now + 1 /\ now < work.time
        /\ UNCHANGED <<work, disk, jobs, mlEnabled, scorer, cache>>
    BY <1>3 DEF Tick
  <2>2. now \in Nat /\ work.time \in Nat /\ Clock' = Clock /\ now' \in Clock
    BY <2>1 DEF StoreTyped, StoreTypeOK, Clock
  <2>3. /\ Held' = Held /\ Job' = Job /\ Rows(Clock)' = Rows(Clock) /\ Scorers' = Scorers
    BY <2>2 DEF Held, Job, Rows, Scorers
  <2>4. 0..now \subseteq 0..now'
    BY <2>1, <2>2
  <2>5. CacheEntry \subseteq CacheEntry'
    BY <2>3, <2>4 DEF CacheEntry
  <2>6. CacheTyped'
    <3>1. CacheTyped
      BY TypesInParts DEF StoreTyped
    <3>2. cache' \in Seq(CacheEntry')
      BY <2>1, <2>5, <3>1 DEF CacheTyped
    <3>. QED BY <2>1, <3>1, <3>2 DEF CacheTyped, Distinct
  <2>7. DiskTyped'
    <3>1. DiskTyped
      BY TypesInParts DEF StoreTyped
    <3>2. [by : 0..Len(jobs), at : 0..now] \subseteq [by : 0..Len(jobs'), at : 0..now']
      BY <2>1, <2>4
    <3>. QED BY <2>1, <2>3, <3>1, <3>2 DEF DiskTyped
  <2>8. StoreTypeOK'
    BY <2>1, <2>2, <2>3, <2>6, <2>7 DEF StoreTyped, StoreTypeOK, DiskTyped, CacheTyped, Distinct
  <2>9. \A j \in DOMAIN jobs : JobOK(jobs[j])'
    BY <2>1, <2>2 DEF StoreTyped, JobOK, Prepared
  <2>. QED BY <2>1, <2>8, <2>9 DEF StoreTyped
<1>4. CASE RestartWorker
  <2>1. scorer' = LoadScorerFromEnv /\ UNCHANGED <<work, disk, jobs, now, mlEnabled, cache>>
    BY <1>4 DEF RestartWorker
  <2>2. scorer' \in Scorers
    BY <2>1, ScorerTyped, TypesInParts DEF StoreTyped
  <2>3. /\ Clock' = Clock /\ Held' = Held /\ Job' = Job /\ Rows(Clock)' = Rows(Clock)
        /\ CacheEntry' = CacheEntry
    BY <2>1 DEF Clock, Held, Job, Rows, CacheEntry
  <2>4. StoreTypeOK'
    BY <2>1, <2>2, <2>3 DEF StoreTyped, StoreTypeOK, Scorers
  <2>5. \A j \in DOMAIN jobs : JobOK(jobs[j])'
    BY <2>1, <2>3 DEF StoreTyped, JobOK, Prepared
  <2>. QED BY <2>1, <2>4, <2>5 DEF StoreTyped
<1>. QED BY <1>1, <1>2, <1>3, <1>4 DEF StoreNext

(* At first there are no jobs, and the files are those of a checkout or of *)
(* a deployment.                                                           *)
LEMMA StoreStartsTyped ==
  ASSUME NEW workloads, StoreInit(workloads), \A w \in workloads : w.time \in Nat
  PROVE  StoreTyped
<1>1. /\ work.time \in Nat /\ jobs = <<>> /\ now = 0 /\ cache = <<>>
      /\ disk = Deployed \/ disk = CheckedOut
      /\ scorer = LoadScorerFromEnv
  BY DEF StoreInit
<1>2. now \in Clock /\ jobs \in Seq(Job) /\ Len(jobs) = 0 /\ DOMAIN jobs = {}
  BY <1>1 DEF Clock
<1>3. DiskTyped
  <2>1. Shipped \in [by : 0..Len(jobs), at : 0..now]
    BY <1>1, <1>2 DEF Shipped
  <2>2. DOMAIN disk = Paths /\ \A p \in Paths : disk[p] \in {Shipped, Absent}
    BY <1>1 DEF Deployed, CheckedOut
  <2>3. disk[Registry] = Absent
    <3>1. Registry \in Paths /\ Registry[1] # Official
          /\ Registry[2] \notin {"model", "search", "manifest", "spec", "snapshot"}
      BY DEF Paths, Registry, Official
    <3>2. Registry \notin {Official} \X {"spec", "snapshot", "search", "manifest"}
      BY <3>1
    <3>. QED BY <1>1, <3>1, <3>2 DEF Deployed, CheckedOut
  <2>. QED BY <2>1, <2>2, <2>3 DEF DiskTyped
<1>4. CacheTyped
  BY <1>1, StoreAssumption DEF CacheTyped, Distinct
<1>5. scorer \in Scorers
  BY <1>1, <1>3, ScorerTyped
<1>. QED BY <1>1, <1>2, <1>3, <1>4, <1>5, TypesInParts DEF StoreTyped

-----------------------------------------------------------------------------
(* What every step of the store is                                         *)

(* A job starts, or one job makes one of its steps, or none is concerned.  *)
LEMMA StoreSteps ==
  ASSUME StoreTyped, StoreNext
  PROVE  \/ \E x : Starts(x)
         \/ \E j \in DOMAIN jobs : \/ ReadFile(j) \/ OpenFile(j) \/ CloseFile(j)
                                  \/ Die(j) \/ CacheGet(j) \/ CacheSet(j)
         \/ UNCHANGED <<work, disk, jobs, cache>>
BY EveryStart DEF StoreNext, Tick, RestartWorker

(* The step of a job is one of these.                                      *)
LEMMA JobSteps ==
  ASSUME StoreTyped, NEW j \in DOMAIN jobs,
         \/ ReadFile(j) \/ OpenFile(j) \/ CloseFile(j) \/ Die(j) \/ CacheGet(j) \/ CacheSet(j)
  PROVE  /\ jobs[j] \in Job /\ jobs[j].todo # <<>> /\ ~jobs[j].dead
         /\ now' = now
         /\ \/ Moves(j, HasFailed(jobs[j]))
            \/ Moves(j, HasRead(jobs[j], ReadBy(jobs[j])))
            \/ Moves(j, HasOpened(jobs[j]))
            \/ Moves(j, HasWritten(jobs[j]))
            \/ Moves(j, HasDied(jobs[j]))
            \/ Moves(j, HasHit(jobs[j], EntryOf(jobs[j].feature))) /\ Hit(jobs[j].feature)
            \/ Moves(j, HasGone(jobs[j]))
<1>1. jobs[j] \in Job
  BY DEF StoreTyped, StoreTypeOK
<1>2. jobs[j].todo # <<>> /\ ~jobs[j].dead
  BY DEF ReadFile, OpenFile, CloseFile, Die, CacheGet, CacheSet, Running, Unfinished
<1>3. now' = now
  BY DEF ReadFile, OpenFile, CloseFile, Die, CacheGet, CacheSet
<1>4. ReadFile(j) => \/ Moves(j, HasFailed(jobs[j])) \/ Moves(j, HasRead(jobs[j], ReadBy(jobs[j])))
  BY ReadFileMoves
<1>5. OpenFile(j) => Moves(j, HasOpened(jobs[j]))
  BY OpenFileMoves
<1>6. CloseFile(j) => Moves(j, HasWritten(jobs[j]))
  BY CloseFileMoves
<1>7. Die(j) => Moves(j, HasDied(jobs[j]))
  BY DieMoves
<1>8. CacheGet(j) => \/ Moves(j, HasGone(jobs[j]))
                     \/ Moves(j, HasHit(jobs[j], EntryOf(jobs[j].feature))) /\ Hit(jobs[j].feature)
  BY CacheGetMoves
<1>9. CacheSet(j) => Moves(j, HasGone(jobs[j]))
  BY CacheSetMoves
<1>. QED BY <1>1, <1>2, <1>3, <1>4, <1>5, <1>6, <1>7, <1>8, <1>9

(* Jobs keep what they are and whom they overlap; the finished and the     *)
(* dead rest.                                                              *)
LEMMA JobsStay ==
  ASSUME StoreTyped, StoreNext
  PROVE  /\ DOMAIN jobs \subseteq DOMAIN jobs' /\ DOMAIN jobs \subseteq Nat \ {0}
         /\ \A j \in DOMAIN jobs :
              /\ jobs'[j].kind = jobs[j].kind /\ jobs'[j].dir = jobs[j].dir
              /\ jobs'[j].over = jobs[j].over /\ jobs'[j].feature = jobs[j].feature
              /\ ~Running(j) => jobs'[j] = jobs[j] /\ ~Running(j)'
              /\ ~Unfinished(j) => jobs'[j] = jobs[j] /\ ~Unfinished(j)'
         /\ \A k \in DOMAIN jobs' \ DOMAIN jobs :
              /\ \A j \in DOMAIN jobs : j < k
              /\ k \in Nat /\ DOMAIN jobs' = DOMAIN jobs \cup {k}
              /\ Starts(jobs'[k])
              /\ \A j \in DOMAIN jobs : jobs'[j] = jobs[j]
<1>0. StoreTypeOK /\ DOMAIN jobs \subseteq Nat \ {0}
  BY DEF StoreTyped, StoreTypeOK
<1>1. ASSUME NEW x, Starts(x)
      PROVE  /\ \A j \in DOMAIN jobs : jobs'[j] = jobs[j]
             /\ DOMAIN jobs \subseteq DOMAIN jobs'
             /\ \A k \in DOMAIN jobs' \ DOMAIN jobs :
                  /\ \A j \in DOMAIN jobs : j < k
                  /\ k \in Nat /\ DOMAIN jobs' = DOMAIN jobs \cup {k}
                  /\ Starts(jobs'[k])
  <2>1. /\ Len(jobs) \in Nat /\ DOMAIN jobs = 1..Len(jobs)
        /\ DOMAIN jobs' = DOMAIN jobs \cup {Len(jobs) + 1}
        /\ jobs'[Len(jobs) + 1] = x
        /\ \A j \in DOMAIN jobs : jobs'[j] = jobs[j]
    BY <1>0, <1>1, OneStarts
  <2>2. \A j \in DOMAIN jobs : j < Len(jobs) + 1
    BY <2>1
  <2>3. \A k \in DOMAIN jobs' \ DOMAIN jobs : k = Len(jobs) + 1
    BY <2>1
  <2>. QED BY <1>1, <2>1, <2>2, <2>3
<1>2. ASSUME NEW j \in DOMAIN jobs,
             \/ ReadFile(j) \/ OpenFile(j) \/ CloseFile(j) \/ Die(j) \/ CacheGet(j) \/ CacheSet(j)
      PROVE  /\ DOMAIN jobs' = DOMAIN jobs /\ Running(j) /\ Unfinished(j)
             /\ \A k \in DOMAIN jobs : k # j => jobs'[k] = jobs[k]
             /\ jobs'[j].kind = jobs[j].kind /\ jobs'[j].dir = jobs[j].dir
             /\ jobs'[j].over = jobs[j].over /\ jobs'[j].feature = jobs[j].feature
  <2>1. PICK y : Moves(j, y)
    BY <1>2, JobSteps
  <2>2. Running(j)
    BY <1>2, JobSteps DEF Running, Unfinished
  <2>. QED BY <1>0, <2>1, <2>2, OneMoves DEF Moves, Running
<1>3. \A j \in DOMAIN jobs :
        jobs'[j] = jobs[j] => (Unfinished(j)' <=> Unfinished(j)) /\ (Running(j)' <=> Running(j))
  BY DEF Unfinished, Running
<1>4. CASE \E x : Starts(x)
  BY <1>0, <1>1, <1>3, <1>4
<1>5. CASE \E j \in DOMAIN jobs : \/ ReadFile(j) \/ OpenFile(j) \/ CloseFile(j)
                                  \/ Die(j) \/ CacheGet(j) \/ CacheSet(j)
  <2>1. PICK j \in DOMAIN jobs : \/ ReadFile(j) \/ OpenFile(j) \/ CloseFile(j)
                                 \/ Die(j) \/ CacheGet(j) \/ CacheSet(j)
    BY <1>5
  <2>2. /\ DOMAIN jobs' = DOMAIN jobs /\ Running(j) /\ Unfinished(j)
        /\ \A k \in DOMAIN jobs : k # j => jobs'[k] = jobs[k]
        /\ jobs'[j].kind = jobs[j].kind /\ jobs'[j].dir = jobs[j].dir
        /\ jobs'[j].over = jobs[j].over /\ jobs'[j].feature = jobs[j].feature
    BY <1>2, <2>1
  <2>. QED BY <1>0, <1>3, <2>2
<1>6. CASE UNCHANGED <<work, disk, jobs, cache>>
  BY <1>0, <1>3, <1>6
<1>. QED BY <1>4, <1>5, <1>6, StoreSteps

(* Whose job changed is who moved.                                         *)
LEMMA WhoChangedMoved ==
  ASSUME StoreTyped, StoreNext, NEW j \in DOMAIN jobs, jobs'[j] # jobs[j]
  PROVE  \/ ReadFile(j) \/ OpenFile(j) \/ CloseFile(j) \/ Die(j) \/ CacheGet(j) \/ CacheSet(j)
<1>1. \A x : Starts(x) => jobs'[j] = jobs[j]
  BY OneStarts DEF StoreTyped
<1>2. PICK i \in DOMAIN jobs : \/ ReadFile(i) \/ OpenFile(i) \/ CloseFile(i)
                                \/ Die(i) \/ CacheGet(i) \/ CacheSet(i)
  BY <1>1, StoreSteps
<1>3. PICK y : Moves(i, y)
  BY <1>2, JobSteps
<1>. QED BY <1>2, <1>3, OneMoves DEF StoreTyped

-----------------------------------------------------------------------------
(* Overlaps                                                                *)

(* Who is running was running when any later job started.                  *)
Overlapping ==
  \A j, k \in DOMAIN jobs : j < k /\ Running(j) => j \in jobs[k].over

(* Every step keeps that, as no job runs again.                            *)
LEMMA OverlappingKept ==
  ASSUME StoreTyped, Overlapping, StoreNext PROVE Overlapping'
<1>. SUFFICES ASSUME NEW j \in DOMAIN jobs', NEW k \in DOMAIN jobs', j < k, Running(j)'
              PROVE  j \in jobs'[k].over
  BY DEF Overlapping
<1>1. CASE k \in DOMAIN jobs
  <2>1. j \in DOMAIN jobs
    <3>1. j \notin DOMAIN jobs => k < j /\ j \in Nat /\ k \in Nat
      BY <1>1, JobsStay
    <3>. QED BY <3>1
  <2>2. Running(j) /\ jobs'[k].over = jobs[k].over
    BY <1>1, <2>1, JobsStay
  <2>. QED BY <1>1, <2>1, <2>2 DEF Overlapping
<1>2. CASE k \notin DOMAIN jobs
  <2>1. /\ k \in Nat /\ DOMAIN jobs' = DOMAIN jobs \cup {k} /\ Starts(jobs'[k])
        /\ \A i \in DOMAIN jobs : jobs'[i] = jobs[i]
    BY <1>2, JobsStay
  <2>2. j \in DOMAIN jobs
    BY <2>1
  <2>3. Running(j)
    BY <2>1, <2>2 DEF Running, Unfinished
  <2>. QED BY <2>1, <2>2, <2>3 DEF Starts
<1>. QED BY <1>1, <1>2

-----------------------------------------------------------------------------
(* The cache's hits                                                        *)

(* An entry is dated by when its explanation was computed.                 *)
Dated == \A i \in DOMAIN cache : cache[i].stored = cache[i].made

DatedEntry == {e \in CacheEntry : e.stored = e.made}

(* Every step keeps that: a hit moves the entry and does not renew it.     *)
LEMMA DatedKept ==
  ASSUME StoreTyped, Dated, StoreNext PROVE Dated'
<1>0. /\ cache \in Seq(CacheEntry) /\ Distinct(cache) /\ Len(cache) <= MaxEntries
  BY TypesInParts DEF StoreTyped, CacheTyped
<1>1. cache \in Seq(DatedEntry)
  BY <1>0 DEF Dated, DatedEntry
<1>2. cache' \in Seq(DatedEntry) => Dated'
  BY DEF Dated, DatedEntry
<1>3. cache' = cache => Dated'
  BY DEF Dated
<1>4. ASSUME NEW j \in DOMAIN jobs, CacheGet(j) PROVE cache' \in Seq(DatedEntry)
  <2>. DEFINE f == jobs[j].feature
  <2>1. cache' = IF Hit(f) THEN Touched(f) ELSE Without(f)
    BY <1>4, CacheGetMoves
  <2>2. Hit(f) => Touched(f) \in Seq(DatedEntry)
    BY <1>0, <1>1, TouchedKeeps DEF Hit, HasEntry
  <2>3. Without(f) \in Seq(DatedEntry)
    BY <1>0, <1>1, WithoutKeeps
  <2>. QED BY <2>1, <2>2, <2>3
<1>5. ASSUME NEW j \in DOMAIN jobs, CacheSet(j) PROVE cache' \in Seq(DatedEntry)
  <2>. DEFINE f == jobs[j].feature
              e == [feature |-> f, stored |-> now, made |-> now, held |-> jobs[j].held]
  <2>1. cache' = Trimmed(Append(Without(f), e)) /\ f \in Features /\ jobs[j] \in Job
    BY <1>5, CacheSetMoves
  <2>2. e \in DatedEntry /\ e.feature = f
    <3>1. now \in 0..now
      BY DEF StoreTyped, StoreTypeOK, Clock
    <3>2. jobs[j].held \in Held
      BY <2>1 DEF Job
    <3>. QED BY <2>1, <3>1, <3>2 DEF CacheEntry, DatedEntry
  <2>. HIDE DEF e
  <2>. QED BY <1>0, <1>1, <2>1, <2>2, StoredKeeps
<1>6. ASSUME NEW x, Starts(x) PROVE cache' = cache
  BY <1>6 DEF Starts
<1>7. ASSUME NEW j \in DOMAIN jobs, ReadFile(j) \/ OpenFile(j) \/ CloseFile(j) \/ Die(j)
      PROVE  cache' = cache
  BY <1>7 DEF ReadFile, OpenFile, CloseFile, Die
<1>. QED BY <1>2, <1>3, <1>4, <1>5, <1>6, <1>7, StoreSteps

(* So a hit is no older than the time to live.                             *)
LEMMA HitsExpireKept ==
  ASSUME StoreTyped, Dated, HitsExpire, StoreNext PROVE HitsExpire'
<1>. SUFFICES ASSUME NEW k \in DOMAIN jobs', jobs'[k].hitAge # None
              PROVE  jobs'[k].hitAge <= TTL
  BY DEF HitsExpire
<1>1. CASE k \in DOMAIN jobs /\ jobs'[k].hitAge = jobs[k].hitAge
  BY <1>1 DEF HitsExpire
<1>2. ASSUME NEW x, Starts(x)
      PROVE  k \in DOMAIN jobs /\ jobs'[k].hitAge = jobs[k].hitAge
  <2>1. k \in DOMAIN jobs
    BY JobsStay DEF Starts
  <2>. QED BY <2>1, <1>2, OneStarts DEF StoreTyped
<1>3. ASSUME NEW j \in DOMAIN jobs,
             \/ ReadFile(j) \/ OpenFile(j) \/ CloseFile(j) \/ Die(j) \/ CacheGet(j) \/ CacheSet(j)
      PROVE  \/ k \in DOMAIN jobs /\ jobs'[k].hitAge = jobs[k].hitAge
             \/ jobs'[k].hitAge <= TTL
  <2>. DEFINE x == jobs[j]
              f == jobs[j].feature
              e == EntryOf(f)
  <2>1. PICK y : /\ Moves(j, y)
                 /\ \/ y = HasHit(x, e) /\ Hit(f)
                    \/ y \in {HasFailed(x), HasRead(x, ReadBy(x)), HasOpened(x), HasWritten(x),
                              HasDied(x), HasGone(x)}
    BY <1>3, JobSteps
  <2>2. x \in Job
    BY <1>3, JobSteps
  <2>3. /\ DOMAIN jobs' = DOMAIN jobs /\ jobs'[j] = y
        /\ \A i \in DOMAIN jobs : i # j => jobs'[i] = jobs[i]
    BY <2>1, OneMoves DEF StoreTyped
  <2>4. CASE y = HasHit(x, e) /\ Hit(f)
    <3>1. Position(f) \in DOMAIN cache /\ e = cache[Position(f)] /\ now - e.stored <= TTL
      BY <2>4, EntryTyped DEF Hit, HasEntry, EntryOf, StoreTyped
    <3>2. e.stored = e.made
      BY <3>1 DEF Dated
    <3>3. y.hitAge = now - e.made
      BY <2>2, <2>4 DEF HasHit, Job
    <3>. QED BY <2>3, <3>1, <3>2, <3>3
  <2>5. CASE y \in {HasFailed(x), HasRead(x, ReadBy(x)), HasOpened(x), HasWritten(x),
                    HasDied(x), HasGone(x)}
    <3>1. y.hitAge = x.hitAge
      BY <2>2, <2>5 DEF HasFailed, HasRead, HasOpened, HasWritten, HasDied, HasGone, Job
    <3>. QED BY <2>3, <3>1
  <2>. QED BY <2>1, <2>4, <2>5
<1>4. CASE UNCHANGED <<work, disk, jobs, cache>>
  BY <1>1, <1>4
<1>. QED BY <1>1, <1>2, <1>3, <1>4, StoreSteps

-----------------------------------------------------------------------------
(* Registrations                                                           *)

HasRow(content, dir) == \E r \in RowsIn(content) : r.version = dir

(* No other registration that overlapped it was completed.                 *)
Alone(j) ==
  \A k \in DOMAIN jobs : jobs[k].kind = "register" /\ k # j => ~(Finished(k) /\ Overlap(j, k))

Lasting(j) == jobs[j].kind = "register" /\ Finished(j) /\ Alone(j)

(* It has read the rows, and its next step empties or writes the registry. *)
AboutToWrite(k) ==
  jobs[k].kind = "register" /\ Running(k) /\ Head(jobs[k].todo)[1] \in Writes

(* A row that lasts is in the registry, and in the hands of whoever is     *)
(* about to replace it, if that one came after it.                         *)
Registered ==
  \A j \in DOMAIN jobs : Lasting(j) =>
    /\ disk[Registry] # Half => HasRow(disk[Registry], jobs[j].dir)
    /\ \A k \in DOMAIN jobs :
         AboutToWrite(k) /\ ~Overlap(j, k) => HasRow(jobs[k].held["rows"], jobs[j].dir)

(* A registration reads until it writes, once, and is then done.           *)
LEMMA RegistrationSteps ==
  ASSUME StoreTyped, NEW j \in DOMAIN jobs, jobs[j].kind = "register",
         \/ ReadFile(j) \/ OpenFile(j) \/ CloseFile(j) \/ Die(j) \/ CacheGet(j) \/ CacheSet(j)
  PROVE  LET x == jobs[j]
         IN  /\ ~CacheGet(j) /\ ~CacheSet(j)
             /\ ReadFile(j) => /\ Tail(x.todo) # <<>>
                               /\ Head(Tail(x.todo))[1] \in Writes => NameOf(x) = "rows"
             /\ CloseFile(j) => Tail(x.todo) = <<>> /\ NameOf(x) = "rows"
             /\ OpenFile(j) => AboutToWrite(j)
             /\ CloseFile(j) => AboutToWrite(j)
<1>. DEFINE x == jobs[j]
<1>1. x \in Job /\ x.todo # <<>> /\ JobOK(x) /\ Running(j)
  BY JobSteps DEF StoreTyped, Running, Unfinished
<1>2. /\ Head(x.todo) = x.todo[1] /\ 1 \in DOMAIN x.todo /\ Program(x, Tail(x.todo))
      /\ x.todo \in Seq(Instructions \X Names)
  BY <1>1, TailIsProgram DEF JobOK, Program
<1>3. RegisterStep(x.todo, 1) /\ LegalStep(x, x.todo, 1)
  BY <1>1, <1>2 DEF JobOK, Program
<1>4. ~CacheGet(j) /\ ~CacheSet(j)
  BY <1>2, <1>3 DEF CacheGet, CacheSet, Instr, RegisterStep, Reads, Writes
<1>5. ASSUME CloseFile(j) \/ OpenFile(j)
      PROVE  Head(x.todo)[1] \in Writes /\ Tail(x.todo) = <<>> /\ NameOf(x) = "rows"
  <2>1. Head(x.todo)[1] \in Writes
    BY <1>5 DEF CloseFile, OpenFile, Instr, Writes
  <2>2. Len(x.todo) = 1
    BY <1>2, <1>3, <2>1 DEF RegisterStep
  <2>3. Tail(x.todo) = <<>>
    BY <1>2, <2>2, OneStepLeft
  <2>. QED BY <1>2, <1>3, <2>1, <2>3 DEF LegalStep, NameOf
<1>6. ASSUME ReadFile(j)
      PROVE  /\ Tail(x.todo) # <<>>
             /\ Head(Tail(x.todo))[1] \in Writes => NameOf(x) = "rows"
  <2>1. Head(x.todo)[1] \notin Writes
    BY <1>6 DEF ReadFile, Instr, Writes
  <2>2. Len(x.todo) # 1 /\ Len(x.todo) \in Nat \ {0}
    BY <1>1, <1>2, <1>3, <2>1 DEF RegisterStep
  <2>3. Tail(x.todo) # <<>> /\ Len(Tail(x.todo)) = Len(x.todo) - 1 /\ 1 \in DOMAIN Tail(x.todo)
    BY <1>1, <1>2, <2>2, MoreStepsLeft
  <2>4. Head(Tail(x.todo)) = Tail(x.todo)[1]
    BY <1>2, <2>3, TailIsProgram
  <2>5. ASSUME Head(Tail(x.todo))[1] \in Writes PROVE NameOf(x) = "rows"
    <3>1. RegisterStep(Tail(x.todo), 1)
      BY <1>2, <2>3 DEF Program
    <3>2. Len(Tail(x.todo)) = 1
      BY <2>4, <2>5, <3>1 DEF RegisterStep
    <3>3. x.todo[1] = <<"read", "rows">>
      BY <1>3, <2>2, <2>3, <3>2 DEF RegisterStep
    <3>. QED BY <1>2, <3>3 DEF NameOf
  <2>. QED BY <2>3, <2>5
<1>7. OpenFile(j) \/ CloseFile(j) => AboutToWrite(j)
  BY <1>1, <1>5 DEF AboutToWrite
<1>. QED BY <1>4, <1>5, <1>6, <1>7

(* What is written keeps the rows that were read, and has the new one.     *)
LEMMA WrittenHasRows ==
  ASSUME StoreTyped, NEW j \in DOMAIN jobs, CloseFile(j), NameOf(jobs[j]) = "rows"
  PROVE  /\ HasRow(WrittenBy(j), jobs[j].dir)
         /\ \A dir : HasRow(jobs[j].held["rows"], dir) => HasRow(WrittenBy(j), dir)
<1>. DEFINE x == jobs[j]
            rows == RowsIn(x.held["rows"])
<1>1. WrittenBy(j) \in Rows(Clock) /\ RecordOf(x).version = x.dir
  BY WrittenIsTyped
<1>2. WrittenBy(j) # None /\ WrittenBy(j) # Absent
  BY <1>1, ContentIsSome DEF StoreTyped, StoreTypeOK, Content
<1>3. WrittenBy(j) = [rows |-> UpsertRecord(rows, RecordOf(x))]
  BY DEF WrittenBy
<1>4. RowsIn(WrittenBy(j)) = UpsertRecord(rows, RecordOf(x))
  <2>1. RowsIn(WrittenBy(j)) = WrittenBy(j).rows
    BY <1>2 DEF RowsIn
  <2>. QED BY <1>3, <2>1
<1>. QED BY <1>1, <1>4 DEF UpsertRecord, HasRow

(* The registry that is written is no half one.                            *)
LEMMA RowsAreWritten ==
  ASSUME StoreTyped, NEW j \in DOMAIN jobs, CloseFile(j), NameOf(jobs[j]) = "rows"
  PROVE  WrittenBy(j) # Half
<1>1. WrittenBy(j) \in Rows(Clock)
  BY WrittenIsTyped
<1>. QED BY <1>1, ContentIsSome DEF StoreTyped, StoreTypeOK, Content

(* When a registration ends, whoever is about to write overlapped it.      *)
LEMMA RegistrationEnds ==
  ASSUME StoreTyped, Overlapping, NEW j \in DOMAIN jobs, NEW i \in DOMAIN jobs,
         \/ ReadFile(i) \/ OpenFile(i) \/ CloseFile(i) \/ Die(i) \/ CacheGet(i) \/ CacheSet(i),
         Lasting(j)', Alone(j), ~Lasting(j)
  PROVE  /\ HasRow(disk'[Registry], jobs[j].dir)
         /\ \A k \in DOMAIN jobs : AboutToWrite(k)' => Overlap(j, k)
<1>. DEFINE x == jobs[j]
<1>1. PICK y : Moves(i, y)
  BY JobSteps
<1>2. /\ DOMAIN jobs' = DOMAIN jobs /\ jobs'[i] = y
      /\ \A k \in DOMAIN jobs : k # i => jobs'[k] = jobs[k]
  BY <1>1, OneMoves DEF StoreTyped
<1>3. j = i
  <2>1. jobs'[j] = jobs[j] => Finished(j) /\ x.kind = "register"
    BY DEF Lasting, Finished, Unfinished
  <2>. QED BY <1>2, <2>1 DEF Lasting
<1>4. y.todo = <<>> /\ y.failed = FALSE /\ x.kind = "register" /\ Running(j)
  <2>1. x \in Job /\ x.todo # <<>>
    BY <1>3, JobSteps
  <2>2. y.todo = <<>> /\ ~y.failed /\ y.kind = "register"
    BY <1>2, <1>3 DEF Lasting, Finished, Unfinished
  <2>3. y \in Job /\ y.kind = x.kind
    BY <1>1, <1>3 DEF Moves
  <2>4. Running(j)
    BY <1>3, JobSteps DEF Running, Unfinished
  <2>. QED BY <2>1, <2>2, <2>3, <2>4 DEF Job
<1>5. CloseFile(j)
  <2>1. x \in Job /\ x.todo # <<>>
    BY <1>3, JobSteps
  <2>2. ASSUME ReadFile(j) PROVE FALSE
    <3>1. /\ Raises(x) => Moves(j, HasFailed(x))
          /\ ~Raises(x) => Moves(j, HasRead(x, ReadBy(x)))
      BY <2>2, ReadFileMoves
    <3>2. \A z : Moves(j, z) => z = y
      BY <1>2, <1>3, OneMoves DEF StoreTyped
    <3>3. y = HasFailed(x) \/ y = HasRead(x, ReadBy(x))
      BY <3>1, <3>2
    <3>4. HasFailed(x).failed /\ HasRead(x, ReadBy(x)).todo = Tail(x.todo)
      BY <2>1 DEF HasFailed, HasRead, Job
    <3>. QED BY <1>4, <2>2, <3>3, <3>4, RegistrationSteps
  <2>3. ASSUME OpenFile(j) PROVE FALSE
    <3>1. y = HasOpened(x)
      BY <1>2, <1>3, <2>3, OpenFileMoves, OneMoves DEF StoreTyped
    <3>2. /\ Program(x, x.todo) /\ Head(x.todo) = x.todo[1] /\ x.todo[1][1] = "write"
      BY <2>3, WriterHasPath DEF OpenFile, Writes, Instr, JobOK
    <3>3. y.todo = <<<<"fill", x.todo[1][2]>>>> \o Tail(x.todo)
      BY <2>1, <3>1, <3>2 DEF HasOpened, Job
    <3>4. y.todo # <<>>
      BY <2>1, <3>2, <3>3, OpenedIsProgram
    <3>. QED BY <1>4, <3>4
  <2>4. ASSUME Die(j) PROVE FALSE
    <3>1. y = HasDied(x)
      BY <1>2, <1>3, <2>4, DieMoves, OneMoves DEF StoreTyped
    <3>. QED BY <1>4, <2>1, <3>1 DEF HasDied, Job
  <2>. QED BY <1>3, <1>4, <2>2, <2>3, <2>4, RegistrationSteps
<1>6. HasRow(disk'[Registry], x.dir)
  <2>1. NameOf(x) = "rows"
    BY <1>4, <1>5, RegistrationSteps
  <2>2. disk' = [disk EXCEPT ![PathOf(x.dir, NameOf(x))] = WrittenBy(j)]
    BY <1>5, CloseFileMoves
  <2>3. PathOf(x.dir, NameOf(x)) = Registry /\ Registry \in DOMAIN disk
    BY <2>1 DEF PathOf, StoreTyped, StoreTypeOK, Paths
  <2>4. disk'[Registry] = WrittenBy(j)
    BY <2>2, <2>3
  <2>. QED BY <1>5, <2>1, <2>4, WrittenHasRows
<1>7. ASSUME NEW k \in DOMAIN jobs, AboutToWrite(k)' PROVE Overlap(j, k)
  <2>1. k # j
    BY <1>2, <1>3, <1>4, <1>7 DEF AboutToWrite, Running, Unfinished
  <2>2. Running(k)
    BY <1>2, <1>3, <1>7, <2>1 DEF AboutToWrite, Running, Unfinished
  <2>4. j < k \/ k < j
    BY <2>1 DEF StoreTyped, StoreTypeOK
  <2>. QED BY <1>4, <2>2, <2>4 DEF Overlapping, Overlap
<1>. QED BY <1>6, <1>7

(* Who completes a registration beside another ends the other's claim.     *)
LEMMA RegistrationCompletes ==
  ASSUME StoreTyped, NEW j \in DOMAIN jobs, Lasting(j), Lasting(j)', NEW i \in DOMAIN jobs,
         CloseFile(i), jobs[i].kind = "register"
  PROVE  ~Overlap(j, i)
<1>. SUFFICES ASSUME Overlap(j, i) PROVE FALSE
  OBVIOUS
<1>. DEFINE x == jobs[i]
<1>1. x \in Job /\ x.todo # <<>> /\ Tail(x.todo) = <<>>
  BY JobSteps, RegistrationSteps
<1>2. jobs'[i] = HasWritten(x) /\ DOMAIN jobs' = DOMAIN jobs
      /\ \A k \in DOMAIN jobs : k # i => jobs'[k] = jobs[k]
  BY CloseFileMoves, OneMoves DEF StoreTyped
<1>3. /\ HasWritten(x).todo = <<>> /\ HasWritten(x).failed = x.failed
      /\ HasWritten(x).kind = x.kind /\ HasWritten(x).over = x.over
  BY <1>1 DEF HasWritten, Job
<1>4. ~x.failed
  BY <1>1 DEF StoreTyped, JobOK, Prepared
<1>5. i # j /\ jobs'[j] = jobs[j]
  BY <1>1, <1>2 DEF Lasting, Finished, Unfinished
<1>6. Finished(i)' /\ Overlap(j, i)' /\ jobs'[i].kind = "register"
  BY <1>2, <1>3, <1>4, <1>5 DEF Finished, Unfinished, Overlap
<1>. QED BY <1>2, <1>5, <1>6 DEF Lasting, Alone

(* A step of a job keeps the rows that last: who replaces one without      *)
(* having read it completes a registration that overlapped its own.        *)
LEMMA RowsLast ==
  ASSUME StoreTyped, Registered, NEW j \in DOMAIN jobs, Lasting(j), Lasting(j)', NEW i \in DOMAIN jobs,
         \/ ReadFile(i) \/ OpenFile(i) \/ CloseFile(i) \/ Die(i) \/ CacheGet(i) \/ CacheSet(i)
  PROVE  /\ disk'[Registry] # Half => HasRow(disk'[Registry], jobs[j].dir)
         /\ \A k \in DOMAIN jobs :
              AboutToWrite(k)' /\ ~Overlap(j, k) => HasRow(jobs'[k].held["rows"], jobs[j].dir)
<1>. DEFINE x == jobs[i]
            dir == jobs[j].dir
<1>0. /\ disk[Registry] # Half => HasRow(disk[Registry], dir)
      /\ \A k \in DOMAIN jobs :
           AboutToWrite(k) /\ ~Overlap(j, k) => HasRow(jobs[k].held["rows"], dir)
  BY DEF Registered
<1>1. x \in Job /\ JobOK(x) /\ x.todo # <<>>
  BY JobSteps DEF StoreTyped
<1>2. x.dir \in Dirs \cup {Official} /\ DOMAIN disk = Paths /\ Registry \in Paths
  BY <1>1 DEF Job, StoreTyped, StoreTypeOK, Paths
<1>3. disk'[Registry] # Half => HasRow(disk'[Registry], dir)
  <2>1. CASE OpenFile(i)
    <3>1. disk' = [disk EXCEPT ![PathOf(x.dir, NameOf(x))] = Half]
      BY <2>1, OpenFileMoves
    <3>2. disk'[Registry] = Half \/ disk'[Registry] = disk[Registry]
      BY <1>2, <3>1
    <3>. QED BY <1>0, <3>2
  <2>2. CASE CloseFile(i)
    <3>1. disk' = [disk EXCEPT ![PathOf(x.dir, NameOf(x))] = WrittenBy(i)]
      BY <2>2, CloseFileMoves
    <3>2. CASE NameOf(x) = "rows"
      <4>1. x.kind = "register"
        BY <2>2, <3>2, WrittenIsTyped
      <4>0. ~Overlap(j, i)
        BY <2>2, <4>1, RegistrationCompletes
      <4>2. HasRow(x.held["rows"], dir)
        BY <1>0, <2>2, <4>0, <4>1, RegistrationSteps
      <4>3. HasRow(WrittenBy(i), dir)
        BY <2>2, <3>2, <4>2, WrittenHasRows
      <4>4. disk'[Registry] = WrittenBy(i)
        BY <1>2, <3>1, <3>2 DEF PathOf
      <4>. QED BY <4>3, <4>4
    <3>3. CASE NameOf(x) # "rows"
      <4>1. PathOf(x.dir, NameOf(x)) # Registry
        BY <1>2, <3>3, PathsApart
      <4>. QED BY <1>0, <1>2, <3>1, <4>1
    <3>. QED BY <3>2, <3>3
  <2>3. CASE ReadFile(i) \/ Die(i) \/ CacheGet(i) \/ CacheSet(i)
    <3>1. disk' = disk
      BY <2>3 DEF ReadFile, Die, CacheGet, CacheSet
    <3>. QED BY <1>0, <3>1
  <2>. QED BY <2>1, <2>2, <2>3
<1>4. PICK y : Moves(i, y)
  BY JobSteps
<1>5. /\ jobs'[i] = y /\ \A k \in DOMAIN jobs : k # i => jobs'[k] = jobs[k]
      /\ \A z : Moves(i, z) => z = y
  BY <1>4, OneMoves DEF StoreTyped
<1>6. ASSUME NEW k \in DOMAIN jobs, k # i, AboutToWrite(k)', ~Overlap(j, k)
      PROVE  HasRow(jobs'[k].held["rows"], dir)
  <2>1. jobs'[k] = jobs[k] /\ AboutToWrite(k)
    BY <1>5, <1>6 DEF AboutToWrite, Running, Unfinished
  <2>. QED BY <1>0, <1>6, <2>1
<1>7. ASSUME AboutToWrite(i)', ~Overlap(j, i)
      PROVE  HasRow(jobs'[i].held["rows"], dir)
  <2>0. x.kind = "register" /\ y.todo # <<>> /\ ~y.dead /\ Head(y.todo)[1] \in Writes
    BY <1>4, <1>5, <1>7 DEF AboutToWrite, Running, Unfinished, Moves
  <2>1. CASE ReadFile(i)
    <3>1. /\ Raises(x) => Moves(i, HasFailed(x))
          /\ ~Raises(x) => Moves(i, HasRead(x, ReadBy(x)))
      BY <2>1, ReadFileMoves
    <3>2. ~Raises(x)
      <4>1. HasFailed(x).todo = <<>>
        BY <1>1 DEF HasFailed, Job
      <4>. QED BY <1>5, <2>0, <3>1, <4>1
    <3>3. y = HasRead(x, ReadBy(x))
      BY <1>5, <3>1, <3>2
    <3>4. y.todo = Tail(x.todo) /\ y.held = [x.held EXCEPT ![NameOf(x)] = ReadBy(x)]
      BY <1>1, <3>3 DEF HasRead, NameOf, Job
    <3>5. NameOf(x) = "rows"
      BY <2>0, <2>1, <3>4, RegistrationSteps
    <3>6. FoundBy(x) = disk[Registry]
      BY <3>5 DEF FoundBy, PathOf
    <3>7. disk[Registry] # Half
      BY <3>2, <3>6 DEF Raises
    <3>8. HasRow(disk[Registry], dir)
      BY <1>0, <3>7
    <3>9. ReadBy(x) = disk[Registry]
      <4>1. disk[Registry] # Absent
        BY <3>8 DEF HasRow, RowsIn
      <4>. QED BY <3>6, <3>7, <4>1 DEF ReadBy
    <3>10. y.held["rows"] = ReadBy(x)
      <4>1. x.held \in Held /\ "rows" \in Parts
        BY <1>1 DEF Job, Parts
      <4>2. ReadBy(x) \in {None} \cup Content(NameOf(x), Clock)
        BY <2>1, ReadFileMoves
      <4>. QED BY <3>4, <3>5, <4>1, <4>2, HeldTyped
    <3>. QED BY <1>5, <3>8, <3>9, <3>10
  <2>2. CASE OpenFile(i)
    <3>1. y = HasOpened(x)
      BY <1>5, <2>2, OpenFileMoves
    <3>2. y.held = x.held
      BY <1>1, <3>1 DEF HasOpened, Job
    <3>3. AboutToWrite(i)
      BY <2>0, <2>2, RegistrationSteps
    <3>. QED BY <1>0, <1>5, <1>7, <3>2, <3>3
  <2>3. CASE CloseFile(i)
    <3>1. y = HasWritten(x)
      BY <1>5, <2>3, CloseFileMoves
    <3>2. y.todo = Tail(x.todo)
      BY <1>1, <3>1 DEF HasWritten, Job
    <3>. QED BY <2>0, <2>3, <3>2, RegistrationSteps
  <2>4. CASE Die(i)
    <3>1. y = HasDied(x)
      BY <1>5, <2>4, DieMoves
    <3>. QED BY <1>1, <2>0, <3>1 DEF HasDied, Job
  <2>. QED BY <2>0, <2>1, <2>2, <2>3, <2>4, RegistrationSteps
<1>. QED BY <1>3, <1>6, <1>7

(* Every step keeps the rows that last: who writes had read them.          *)
LEMMA RegisteredKept ==
  ASSUME StoreTyped, Overlapping, Registered, StoreNext PROVE Registered'
<1>. SUFFICES ASSUME NEW j \in DOMAIN jobs', Lasting(j)'
              PROVE  /\ disk'[Registry] # Half => HasRow(disk'[Registry], jobs'[j].dir)
                     /\ \A k \in DOMAIN jobs' :
                          AboutToWrite(k)' /\ ~Overlap(j, k)' => HasRow(jobs'[k].held["rows"], jobs'[j].dir)
  <2>1. (\A j \in DOMAIN jobs' : Lasting(j)' =>
           /\ disk'[Registry] # Half => HasRow(disk'[Registry], jobs'[j].dir)
           /\ \A k \in DOMAIN jobs' :
                AboutToWrite(k)' /\ ~Overlap(j, k)' => HasRow(jobs'[k].held["rows"], jobs'[j].dir)) => Registered'
    BY DEF Registered, HasRow, RowsIn
  <2>. QED BY <2>1
<1>1. j \in DOMAIN jobs
  <2>1. SUFFICES ASSUME j \notin DOMAIN jobs PROVE FALSE
    OBVIOUS
  <2>2. Starts(jobs'[j])
    BY <2>1, JobsStay
  <2>3. jobs'[j].todo = RegisterTrainingRun
    BY <2>2 DEF Starts, Lasting
  <2>4. RegisterTrainingRun # <<>>
    BY DEF RegisterTrainingRun
  <2>. QED BY <2>3, <2>4 DEF Lasting, Finished, Unfinished
<1>2. jobs'[j].dir = jobs[j].dir /\ jobs'[j].kind = jobs[j].kind /\ DOMAIN jobs \subseteq DOMAIN jobs'
  BY <1>1, JobsStay
<1>3. Alone(j)
  <2>1. ASSUME NEW k \in DOMAIN jobs, jobs[k].kind = "register", k # j, Finished(k), Overlap(j, k)
        PROVE  FALSE
    <3>1. jobs'[k] = jobs[k] /\ jobs'[j].over = jobs[j].over
      BY <1>1, <2>1, JobsStay DEF Finished
    <3>2. Overlap(j, k)' /\ Finished(k)'
      BY <2>1, <3>1 DEF Overlap, Finished, Unfinished
    <3>. QED BY <1>2, <2>1, <3>1, <3>2 DEF Lasting, Alone
  <2>. QED BY <2>1 DEF Alone
<1>9. \A k \in DOMAIN jobs : Overlap(j, k)' <=> Overlap(j, k)
  BY <1>1, JobsStay DEF Overlap
<1>4. CASE \E x : Starts(x)
  <2>1. PICK x : Starts(x)
    BY <1>4
  <2>2. PICK n \in DOMAIN jobs' \ DOMAIN jobs : n = Len(jobs) + 1 /\ jobs'[n] = x
    BY <2>1, OneStarts DEF StoreTyped
  <2>3. /\ DOMAIN jobs' = DOMAIN jobs \cup {n}
        /\ \A k \in DOMAIN jobs : jobs'[k] = jobs[k]
        /\ disk' = disk
    BY <2>1, <2>2, OneStarts DEF StoreTyped, Starts
  <2>4. Lasting(j)
    BY <1>1, <1>3, <2>3 DEF Lasting, Finished, Unfinished
  <2>5. \A k \in DOMAIN jobs : AboutToWrite(k)' => AboutToWrite(k)
    BY <2>3 DEF AboutToWrite, Running, Unfinished
  <2>6. ~AboutToWrite(n)'
    <3>1. SUFFICES ASSUME x.kind = "register" PROVE Head(x.todo)[1] \notin Writes
      BY <2>2 DEF AboutToWrite
    <3>2. x.todo = RegisterTrainingRun
      BY <2>1, <3>1 DEF Starts
    <3>. QED BY <3>2 DEF RegisterTrainingRun, Writes
  <2>. QED BY <1>1, <1>9, <2>3, <2>4, <2>5, <2>6 DEF Registered
<1>5. CASE \E i \in DOMAIN jobs : \/ ReadFile(i) \/ OpenFile(i) \/ CloseFile(i)
                                  \/ Die(i) \/ CacheGet(i) \/ CacheSet(i)
  <2>1. PICK i \in DOMAIN jobs : \/ ReadFile(i) \/ OpenFile(i) \/ CloseFile(i)
                                 \/ Die(i) \/ CacheGet(i) \/ CacheSet(i)
    BY <1>5
  <2>2. DOMAIN jobs' = DOMAIN jobs
    <3>1. PICK y : Moves(i, y)
      BY <2>1, JobSteps
    <3>. QED BY <3>1, OneMoves DEF StoreTyped
  <2>3. CASE Lasting(j)
    BY <1>1, <1>2, <1>9, <2>1, <2>2, <2>3, RowsLast
  <2>4. CASE ~Lasting(j)
    BY <1>1, <1>2, <1>3, <1>9, <2>1, <2>2, <2>4, RegistrationEnds
  <2>. QED BY <2>3, <2>4
<1>6. CASE UNCHANGED <<work, disk, jobs, cache>>
  <2>1. Lasting(j) /\ \A k \in DOMAIN jobs : AboutToWrite(k)' => AboutToWrite(k)
    BY <1>6, <1>3 DEF Lasting, Finished, Unfinished, AboutToWrite, Running
  <2>. QED BY <1>1, <1>6, <1>9, <2>1 DEF Registered
<1>. QED BY <1>4, <1>5, <1>6, StoreSteps

(* A registry that is half written is being written, or its writer died.   *)
Filling(k) == jobs[k].kind = "register" /\ Unfinished(k) /\ Instr(k)[1] = "fill"
HalfIsWritten == disk[Registry] = Half => \E k \in DOMAIN jobs : Filling(k)

(* Its writer does nothing else before it closes the file.                 *)
LEMMA FillingStays ==
  ASSUME StoreTyped, NEW k \in DOMAIN jobs, Filling(k),
         \/ ReadFile(k) \/ OpenFile(k) \/ CloseFile(k) \/ Die(k) \/ CacheGet(k) \/ CacheSet(k)
  PROVE  Filling(k)' \/ disk'[Registry] # Half
<1>. DEFINE x == jobs[k]
<1>1. x \in Job
  BY JobSteps
<1>2. ~ReadFile(k) /\ ~OpenFile(k) /\ ~CacheGet(k) /\ ~CacheSet(k)
  BY DEF Filling, ReadFile, OpenFile, CacheGet, CacheSet, Instr
<1>3. CASE Die(k)
  <2>1. jobs'[k] = HasDied(x)
    BY <1>3, DieMoves, OneMoves DEF StoreTyped
  <2>2. HasDied(x).todo = x.todo /\ HasDied(x).kind = x.kind
    BY <1>1 DEF HasDied, Job
  <2>. QED BY <2>1, <2>2 DEF Filling, Unfinished, Instr
<1>4. CASE CloseFile(k)
  <2>1. NameOf(x) = "rows" /\ x.dir \in Dirs \cup {Official}
    BY <1>1, <1>4, RegistrationSteps DEF Filling, Job
  <2>2. disk' = [disk EXCEPT ![PathOf(x.dir, NameOf(x))] = WrittenBy(k)]
    BY <1>4, CloseFileMoves
  <2>3. PathOf(x.dir, NameOf(x)) = Registry /\ Registry \in DOMAIN disk
    BY <2>1 DEF PathOf, StoreTyped, StoreTypeOK, Paths
  <2>4. WrittenBy(k) # Half
    BY <1>4, <2>1, RowsAreWritten
  <2>. QED BY <2>2, <2>3, <2>4
<1>. QED BY <1>2, <1>3, <1>4

(* Every step keeps that.                                                  *)
LEMMA HalfIsWrittenKept ==
  ASSUME StoreTyped, HalfIsWritten, StoreNext PROVE HalfIsWritten'
<1>. SUFFICES ASSUME disk'[Registry] = Half PROVE \E k \in DOMAIN jobs' : Filling(k)'
  BY DEF HalfIsWritten, Filling, Unfinished, Instr
<1>1. CASE disk[Registry] = Half
  <2>1. PICK k \in DOMAIN jobs : Filling(k)
    BY <1>1 DEF HalfIsWritten
  <2>2. k \in DOMAIN jobs' /\ (jobs'[k] = jobs[k] => Filling(k)')
    BY <2>1, JobsStay DEF Filling, Unfinished, Instr
  <2>3. jobs'[k] # jobs[k] => \/ ReadFile(k) \/ OpenFile(k) \/ CloseFile(k)
                              \/ Die(k) \/ CacheGet(k) \/ CacheSet(k)
    BY WhoChangedMoved
  <2>. QED BY <2>1, <2>2, <2>3, FillingStays
<1>2. CASE disk[Registry] # Half
  <2>1. PICK m \in DOMAIN jobs : OpenFile(m) \/ CloseFile(m)
    BY <1>2, StoreSteps DEF Starts, ReadFile, Die, CacheGet, CacheSet
  <2>. DEFINE x == jobs[m]
  <2>2. /\ x \in Job /\ LegalStep(x, x.todo, 1) /\ Head(x.todo) = x.todo[1]
        /\ Head(x.todo)[1] \in Writes
    BY <2>1, WriterHasPath DEF OpenFile, CloseFile, Writes, Instr
  <2>3. /\ OpenFile(m) => disk' = [disk EXCEPT ![PathOf(x.dir, NameOf(x))] = Half]
        /\ CloseFile(m) => disk' = [disk EXCEPT ![PathOf(x.dir, NameOf(x))] = WrittenBy(m)]
    BY <2>1, OpenFileMoves, CloseFileMoves
  <2>4. PathOf(x.dir, NameOf(x)) = Registry /\ Registry \in DOMAIN disk
    BY <1>2, <2>1, <2>3 DEF StoreTyped, StoreTypeOK, Paths
  <2>5. NameOf(x) = "rows"
    <3>1. x.dir \in Dirs \cup {Official}
      BY <2>2 DEF Job
    <3>. QED BY <2>4, <3>1, PathsApart
  <2>6. OpenFile(m)
    <3>1. CloseFile(m) => WrittenBy(m) # Half
      BY <2>5, RowsAreWritten
    <3>. QED BY <2>1, <2>3, <2>4, <3>1
  <2>7. x.kind = "register" /\ x.todo[1][1] = "write" /\ x.todo # <<>>
    BY <2>2, <2>5, <2>6 DEF LegalStep, NameOf, OpenFile, Instr, Running, Unfinished
  <2>8. jobs'[m] = HasOpened(x) /\ DOMAIN jobs' = DOMAIN jobs
    BY <2>6, OpenFileMoves, OneMoves DEF StoreTyped
  <2>9. /\ HasOpened(x).todo = <<<<"fill", Head(x.todo)[2]>>>> \o Tail(x.todo)
        /\ HasOpened(x).kind = x.kind
    BY <2>2 DEF HasOpened, Job
  <2>10. PICK t : t = HasOpened(x).todo /\ t # <<>> /\ Head(t)[1] = "fill"
    <3>1. Program(x, x.todo)
      BY DEF StoreTyped, JobOK
    <3>2. /\ HasOpened(x).todo # <<>> /\ HasOpened(x).todo[1] = <<"fill", x.todo[1][2]>>
          /\ Program(x, HasOpened(x).todo)
      BY <2>2, <2>7, <2>9, <3>1, OpenedIsProgram
    <3>3. Head(HasOpened(x).todo) = HasOpened(x).todo[1]
      BY <3>2, TailIsProgram
    <3>. QED BY <3>2, <3>3
  <2>. QED BY <2>7, <2>8, <2>9, <2>10 DEF Filling, Unfinished, Instr
<1>. QED BY <1>1, <1>2
=============================================================================
