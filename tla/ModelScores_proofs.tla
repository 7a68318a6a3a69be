-------------------------- MODULE ModelScores_proofs --------------------------
(***************************************************************************)
(* What a scored application can have been scored with: lemmas about the   *)
(* files of the official model, which its trainings write, and about the   *)
(* scores that read them, for any number of trainings and scores.          *)
(***************************************************************************)
EXTENDS ModelStore_proofs

ScoredFiles == {"manifest", "model", "calibrator"}
Shown(f) == disk[<<Official, f>>]
There(f) == Shown(f) \notin {Absent, Half}
Left(j)  == NamesIn(jobs[j].todo)

(* A file of the official model was shipped or is by one of its trainings, *)
(* and a manifest is by one that is over.                                  *)
Authored  == \A f \in ScoredFiles : There(f) => Shown(f).by = 0 \/ Shown(f).by \in OfficialJobs
Published == There("manifest") /\ Shown("manifest").by # 0 => ~Unfinished(Shown("manifest").by)

(* A training that has written a file is not followed by an older file.    *)
Ahead ==
  \A k \in OfficialJobs : \A f \in ScoredFiles : f \notin Left(k) /\ There(f) => Shown(f).by >= k

(* A file that was written stays, and a shipped model has a calibrator.    *)
Stays == \A k \in OfficialJobs : \A f \in ScoredFiles : f \notin Left(k) => Shown(f) # Absent
Bundled == There("model") /\ Shown("model").by = 0 => Shown("calibrator") # Absent

OfficialInv == Authored /\ Published /\ Stays /\ Bundled /\ (Serial(OfficialJobs) => Ahead)

-----------------------------------------------------------------------------
(* Trainings of the official model                                         *)

AJobMoves(j) ==
  \/ ReadFile(j) \/ OpenFile(j) \/ CloseFile(j) \/ Die(j) \/ CacheGet(j) \/ CacheSet(j)

(* What a step leaves to do, and leaves held.                              *)
LEMMA AfterSteps ==
  ASSUME NEW x \in Job
  PROVE  /\ HasOpened(x).todo = <<<<"fill", Head(x.todo)[2]>>>> \o Tail(x.todo)
         /\ HasOpened(x).held = x.held
         /\ HasWritten(x).todo = Tail(x.todo)
         /\ HasDied(x).todo = x.todo
         /\ HasGone(x).todo = Tail(x.todo) /\ HasGone(x).held = x.held
         /\ HasGone(x).failed = x.failed /\ HasGone(x).hitAge = x.hitAge
         /\ HasFailed(x).todo = <<>> /\ HasFailed(x).failed
BY DEF HasOpened, HasWritten, HasDied, HasGone, HasFailed, Job

(* And of what was read.                                                   *)
LEMMA AfterRead ==
  ASSUME NEW x \in Job, NEW v
  PROVE  /\ HasRead(x, v).todo = Tail(x.todo) /\ HasRead(x, v).failed = x.failed
         /\ HasRead(x, v).held = [x.held EXCEPT ![NameOf(x)] = v] /\ HasRead(x, v).hitAge = x.hitAge
BY DEF HasRead, NameOf, Job

(* And of a hit.                                                           *)
LEMMA AfterHit ==
  ASSUME NEW x \in Job, NEW e
  PROVE  HasHit(x, e).todo = <<>> /\ HasHit(x, e).hitAge = now - e.made
BY DEF HasHit, Job

(* They write, and that is all they do.                                    *)
LEMMA OfficialSteps ==
  ASSUME StoreTyped, NEW k \in OfficialJobs, AJobMoves(k)
  PROVE  /\ k \in DOMAIN jobs /\ jobs[k].dir = Official /\ ~ReadFile(k) /\ ~CacheGet(k) /\ ~CacheSet(k)
         /\ OpenFile(k) => NamesIn(jobs'[k].todo) = Left(k) /\ NameOf(jobs[k]) \in Left(k)
         /\ CloseFile(k) => /\ Left(k) = {NameOf(jobs[k])} \cup NamesIn(jobs'[k].todo)
                            /\ NameOf(jobs[k]) = "manifest" => jobs'[k].todo = <<>>
         /\ Die(k) => jobs'[k].todo = jobs[k].todo
<1>. DEFINE x == jobs[k]
<1>1. k \in DOMAIN jobs /\ x.kind = "official"
  BY DEF OfficialJobs
<1>2. x \in Job /\ JobOK(x) /\ x.todo # <<>>
  BY <1>1, JobSteps DEF StoreTyped, AJobMoves
<1>3. /\ Head(x.todo) = x.todo[1] /\ 1 \in DOMAIN x.todo
      /\ NamesIn(x.todo) = {NameOf(x)} \cup NamesIn(Tail(x.todo))
      /\ x.todo \in Seq(Instructions \X Names)
  BY <1>2, TailIsProgram DEF JobOK, Program, NameOf
<1>4. OfficialStep(x.todo, 1)
  BY <1>1, <1>2, <1>3 DEF JobOK, Program
<1>5. x.dir = Official /\ ~ReadFile(k) /\ ~CacheGet(k) /\ ~CacheSet(k)
  BY <1>1, <1>2, <1>3, <1>4 DEF JobOK, Prepared, OfficialStep, ReadFile, CacheGet, CacheSet, Instr, Writes
<1>6. ASSUME OpenFile(k)
      PROVE  NamesIn(jobs'[k].todo) = Left(k) /\ NameOf(x) \in Left(k)
  <2>1. Moves(k, HasOpened(x)) /\ x.todo[1][1] = "write"
    BY <1>1, <1>3, <1>6, OpenFileMoves
  <2>0. jobs'[k] = HasOpened(x)
    BY <1>1, <2>1, OneMoves DEF StoreTyped
  <2>2. jobs'[k].todo = <<<<"fill", x.todo[1][2]>>>> \o Tail(x.todo)
    BY <1>2, <1>3, <2>0, AfterSteps
  <2>3. Program(x, x.todo)
    BY <1>2 DEF JobOK
  <2>4. NamesIn(jobs'[k].todo) = NamesIn(x.todo)
    BY <1>2, <2>1, <2>2, <2>3, OpenedIsProgram
  <2>. QED BY <1>3, <2>4 DEF Left
<1>7. ASSUME CloseFile(k)
      PROVE  /\ Left(k) = {NameOf(x)} \cup NamesIn(jobs'[k].todo)
             /\ NameOf(x) = "manifest" => jobs'[k].todo = <<>>
  <2>1. Moves(k, HasWritten(x))
    BY <1>1, <1>7, CloseFileMoves
  <2>0. jobs'[k] = HasWritten(x)
    BY <1>1, <2>1, OneMoves DEF StoreTyped
  <2>2. jobs'[k].todo = Tail(x.todo)
    BY <1>2, <2>0, AfterSteps
  <2>3. NameOf(x) = "manifest" => Tail(x.todo) = <<>>
    <3>1. NameOf(x) = "manifest" => Len(x.todo) = 1
      BY <1>3, <1>4 DEF OfficialStep, NameOf
    <3>. QED BY <1>3, <3>1, OneStepLeft
  <2>. QED BY <1>3, <2>2, <2>3 DEF Left
<1>8. ASSUME Die(k) PROVE jobs'[k].todo = x.todo
  <2>1. Moves(k, HasDied(x))
    BY <1>1, <1>8, DieMoves
  <2>2. jobs'[k] = HasDied(x)
    BY <1>1, <2>1, OneMoves DEF StoreTyped
  <2>. QED BY <1>2, <2>2, AfterSteps
<1>. QED BY <1>1, <1>5, <1>6, <1>7, <1>8

(* A file of the official model changes only by the hand of a training.    *)
LEMMA OfficialFileChanges ==
  ASSUME StoreTyped, StoreNext, NEW f \in ScoredFiles
  PROVE  \/ Shown(f)' = Shown(f)
         \/ \E m \in OfficialJobs :
              /\ Running(m) /\ NameOf(jobs[m]) = f
              /\ \/ OpenFile(m) /\ Shown(f)' = Half
                 \/ CloseFile(m) /\ Shown(f)' = [by |-> m, at |-> now]
<1>. SUFFICES ASSUME Shown(f)' # Shown(f)
              PROVE  \E m \in OfficialJobs :
                       /\ Running(m) /\ NameOf(jobs[m]) = f
                       /\ \/ OpenFile(m) /\ Shown(f)' = Half
                          \/ CloseFile(m) /\ Shown(f)' = [by |-> m, at |-> now]
  OBVIOUS
<1>1. disk' # disk
  BY DEF Shown
<1>2. PICK m \in DOMAIN jobs : OpenFile(m) \/ CloseFile(m)
  BY <1>1, StoreSteps DEF Starts, ReadFile, Die, CacheGet, CacheSet
<1>. DEFINE x == jobs[m]
            path == PathOf(x.dir, NameOf(x))
<1>3. /\ x \in Job /\ LegalStep(x, x.todo, 1) /\ Head(x.todo) = x.todo[1] /\ Running(m)
      /\ Head(x.todo)[1] \in Writes
  BY <1>2, WriterHasPath DEF OpenFile, CloseFile, Writes, Instr
<1>4. /\ OpenFile(m) => disk' = [disk EXCEPT ![path] = Half]
      /\ CloseFile(m) => disk' = [disk EXCEPT ![path] = WrittenBy(m)]
  BY <1>2, OpenFileMoves, CloseFileMoves
<1>8. <<Official, f>> \in DOMAIN disk
  BY DEF StoreTyped, StoreTypeOK, Paths, OfficialFiles, ScoredFiles
<1>5. path = <<Official, f>>
  <2>1. path # <<Official, f>> => disk'[<<Official, f>>] = disk[<<Official, f>>]
    BY <1>2, <1>4, <1>8
  <2>. QED BY <2>1 DEF Shown
<1>6. x.dir = Official /\ NameOf(x) = f /\ f # "rows"
  <2>1. x.dir \in Dirs \cup {Official} /\ f # "rows"
    BY <1>3 DEF Job, ScoredFiles
  <2>. QED BY <1>5, <2>1, PathsApart
<1>7. m \in OfficialJobs
  BY <1>3, <1>6 DEF LegalStep, OfficialJobs
<1>9. /\ OpenFile(m) => Shown(f)' = Half
      /\ CloseFile(m) => Shown(f)' = [by |-> m, at |-> now]
  <2>1. OpenFile(m) => disk'[<<Official, f>>] = Half
    BY <1>4, <1>5, <1>8
  <2>2. CloseFile(m) => disk'[<<Official, f>>] = WrittenBy(m)
    BY <1>4, <1>5, <1>8
  <2>3. CloseFile(m) => WrittenBy(m) = [by |-> m, at |-> now]
    BY <1>6, WrittenIsTyped
  <2>. QED BY <2>1, <2>2, <2>3 DEF Shown
<1>. QED BY <1>2, <1>3, <1>6, <1>7, <1>9

(* A name leaves the todo of a training when its file is written.          *)
LEMMA OfficialTodo ==
  ASSUME StoreTyped, StoreNext, NEW k \in OfficialJobs
  PROVE  /\ k \in DOMAIN jobs' /\ jobs'[k].kind = "official"
         /\ NamesIn(jobs'[k].todo) \subseteq Left(k)
         /\ \A f \in Left(k) \ NamesIn(jobs'[k].todo) : CloseFile(k) /\ NameOf(jobs[k]) = f
<1>1. k \in DOMAIN jobs /\ k \in DOMAIN jobs' /\ jobs'[k].kind = "official"
  BY JobsStay DEF OfficialJobs
<1>2. CASE jobs'[k] = jobs[k]
  BY <1>1, <1>2 DEF Left
<1>3. CASE jobs'[k] # jobs[k]
  <2>1. PICK j \in DOMAIN jobs : AJobMoves(j)
    <3>1. \A x : Starts(x) => jobs'[k] = jobs[k]
      BY <1>1, OneStarts DEF StoreTyped
    <3>2. UNCHANGED <<work, disk, jobs, cache>> => jobs'[k] = jobs[k]
      OBVIOUS
    <3>. QED BY <1>3, <3>1, <3>2, StoreSteps DEF AJobMoves
  <2>2. j = k
    <3>1. PICK y : Moves(j, y)
      BY <2>1, JobSteps DEF AJobMoves
    <3>. QED BY <1>1, <1>3, <3>1, OneMoves DEF StoreTyped
  <2>. QED BY <1>1, <2>1, <2>2, OfficialSteps DEF AJobMoves, Left
<1>. QED BY <1>2, <1>3

(* Serial trainings: only the last one runs.                               *)
LEMMA LastWrites ==
  ASSUME StoreTyped, Overlapping, Serial(OfficialJobs),
         NEW m \in OfficialJobs, Running(m), NEW k \in OfficialJobs
  PROVE  m >= k
<1>1. m \in DOMAIN jobs /\ k \in DOMAIN jobs /\ m \in Nat /\ k \in Nat
  BY DEF OfficialJobs, StoreTyped, StoreTypeOK
<1>2. SUFFICES ASSUME m < k PROVE FALSE
  BY <1>1
<1>3. m \in jobs[k].over
  BY <1>1, <1>2 DEF Overlapping
<1>. QED BY <1>1, <1>2, <1>3 DEF Serial, Overlap

(* Trainings are added, and those there were stay serial.                  *)
LEMMA OfficialJobsGrow ==
  ASSUME StoreTyped, StoreNext
  PROVE  /\ OfficialJobs \subseteq OfficialJobs'
         /\ Serial(OfficialJobs)' => Serial(OfficialJobs)
         /\ \A k \in OfficialJobs' \ OfficialJobs :
              /\ \A m \in OfficialJobs : m < k
              /\ NamesIn(jobs'[k].todo) = NamesIn(TrainOfficialXgbV1)
<1>1. OfficialJobs \subseteq OfficialJobs'
  BY JobsStay DEF OfficialJobs
<1>2. ASSUME Serial(OfficialJobs)' PROVE Serial(OfficialJobs)
  <2>1. ASSUME NEW j \in OfficialJobs, NEW k \in OfficialJobs, j # k, Overlap(j, k) PROVE FALSE
    <3>1. jobs'[j].over = jobs[j].over /\ jobs'[k].over = jobs[k].over
      BY JobsStay DEF OfficialJobs
    <3>2. Overlap(j, k)'
      BY <2>1, <3>1 DEF Overlap
    <3>. QED BY <1>1, <1>2, <2>1, <3>2 DEF Serial
  <2>. QED BY <2>1 DEF Serial
<1>3. ASSUME NEW k \in OfficialJobs' \ OfficialJobs
      PROVE  /\ \A m \in OfficialJobs : m < k
             /\ NamesIn(jobs'[k].todo) = NamesIn(TrainOfficialXgbV1)
  <2>1. k \in DOMAIN jobs' \ DOMAIN jobs
    BY <1>3, JobsStay DEF OfficialJobs
  <2>2. Starts(jobs'[k]) /\ jobs'[k].kind = "official" /\ \A m \in DOMAIN jobs : m < k
    BY <2>1, JobsStay DEF OfficialJobs
  <2>. QED BY <2>2 DEF Starts, OfficialJobs
<1>. QED BY <1>1, <1>2, <1>3

(* A new training has the scored files before it.                          *)
LEMMA TrainingWritesAll == ScoredFiles \subseteq NamesIn(TrainOfficialXgbV1)
<1>1. /\ 1 \in DOMAIN TrainOfficialXgbV1 /\ TrainOfficialXgbV1[1][2] = "model"
      /\ 2 \in DOMAIN TrainOfficialXgbV1 /\ TrainOfficialXgbV1[2][2] = "calibrator"
      /\ 6 \in DOMAIN TrainOfficialXgbV1 /\ TrainOfficialXgbV1[6][2] = "manifest"
  BY DEF TrainOfficialXgbV1
<1>. QED BY <1>1 DEF NamesIn, ScoredFiles

(* What a training has written is there.                                   *)
LEMMA WrittenIsThere ==
  ASSUME StoreTyped, NEW m \in DOMAIN jobs
  PROVE  [by |-> m, at |-> now] \notin {None, Absent, Half}
<1>1. [by |-> m, at |-> now] \in Content("model", Clock) /\ work.time \in Nat
  BY DEF StoreTyped, StoreTypeOK, Content, File
<1>. QED BY <1>1, ContentIsSome

(* A training that has just finished a file wrote it.                      *)
LEMMA TrainingWrote ==
  ASSUME StoreTyped, StoreNext, NEW k \in OfficialJobs, NEW f \in ScoredFiles,
         f \in Left(k), f \notin NamesIn(jobs'[k].todo)
  PROVE  Shown(f)' = [by |-> k, at |-> now]
<1>0. k \in DOMAIN jobs
  BY DEF OfficialJobs
<1>1. CloseFile(k) /\ NameOf(jobs[k]) = f
  BY OfficialTodo
<1>2. jobs[k].dir = Official
  BY <1>1, OfficialSteps DEF AJobMoves
<1>3. disk' = [disk EXCEPT ![PathOf(jobs[k].dir, NameOf(jobs[k]))] = WrittenBy(k)]
  BY <1>0, <1>1, CloseFileMoves
<1>4. PathOf(jobs[k].dir, NameOf(jobs[k])) = <<Official, f>> /\ f # "rows"
  BY <1>1, <1>2 DEF PathOf, ScoredFiles
<1>5. WrittenBy(k) = [by |-> k, at |-> now]
  BY <1>0, <1>1, <1>4, WrittenIsTyped
<1>6. <<Official, f>> \in DOMAIN disk
  BY DEF StoreTyped, StoreTypeOK, Paths, OfficialFiles, ScoredFiles
<1>. QED BY <1>3, <1>4, <1>5, <1>6 DEF Shown

(* A file that is there, in whatever state, is never taken away.           *)
LEMMA FileStays ==
  ASSUME StoreTyped, StoreNext, NEW f \in ScoredFiles, Shown(f) # Absent
  PROVE  Shown(f)' # Absent
<1>1. CASE Shown(f)' = Shown(f)
  BY <1>1
<1>2. CASE Shown(f)' # Shown(f)
  <2>1. PICK m \in OfficialJobs : Shown(f)' = Half \/ Shown(f)' = [by |-> m, at |-> now]
    BY <1>2, OfficialFileChanges
  <2>2. [by |-> m, at |-> now] # Absent
    <3>1. m \in DOMAIN jobs
      BY DEF OfficialJobs
    <3>. QED BY <3>1, WrittenIsThere
  <2>. QED BY <2>1, <2>2, NothingAssumption
<1>. QED BY <1>1, <1>2

(* Every step keeps the files of the official model in the order of its    *)
(* trainings.                                                              *)
LEMMA OfficialKept ==
  ASSUME StoreTyped, Overlapping, OfficialInv, StoreNext PROVE OfficialInv'
<1>0. \A m \in OfficialJobs : m \in DOMAIN jobs /\ m \in Nat \ {0}
  BY DEF OfficialJobs, StoreTyped, StoreTypeOK
<1>1. Authored'
  <2>. SUFFICES ASSUME NEW f \in ScoredFiles, There(f)'
                PROVE  Shown(f)'.by = 0 \/ Shown(f)'.by \in OfficialJobs'
    BY DEF Authored
  <2>1. CASE Shown(f)' = Shown(f)
    <3>1. There(f)
      BY <2>1 DEF There
    <3>. QED BY <2>1, <3>1, OfficialJobsGrow DEF OfficialInv, Authored
  <2>2. CASE Shown(f)' # Shown(f)
    <3>1. PICK m \in OfficialJobs : Shown(f)' = Half \/ Shown(f)' = [by |-> m, at |-> now]
      BY <2>2, OfficialFileChanges
    <3>. QED BY <3>1, OfficialJobsGrow DEF There
  <2>. QED BY <2>1, <2>2
<1>2. Published'
  <2>. SUFFICES ASSUME There("manifest")', Shown("manifest")'.by # 0
                PROVE  ~Unfinished(Shown("manifest").by)'
    BY DEF Published
  <2>0. "manifest" \in ScoredFiles
    BY DEF ScoredFiles
  <2>1. CASE Shown("manifest")' = Shown("manifest")
    <3>1. PICK m : m = Shown("manifest").by
      OBVIOUS
    <3>2. m \in OfficialJobs /\ ~Unfinished(m)
      BY <2>0, <2>1, <3>1 DEF OfficialInv, Authored, Published, There
    <3>3. ~Unfinished(m)'
      BY <1>0, <3>2, JobsStay
    <3>. QED BY <2>1, <3>1, <3>3 DEF Unfinished
  <2>2. CASE Shown("manifest")' # Shown("manifest")
    <3>1. PICK m \in OfficialJobs :
            /\ Running(m) /\ NameOf(jobs[m]) = "manifest"
            /\ \/ OpenFile(m) /\ Shown("manifest")' = Half
               \/ CloseFile(m) /\ Shown("manifest")' = [by |-> m, at |-> now]
      BY <2>0, <2>2, OfficialFileChanges
    <3>2. CloseFile(m) /\ Shown("manifest")'.by = m
      BY <3>1 DEF There
    <3>3. jobs'[m].todo = <<>>
      BY <3>1, <3>2, OfficialSteps DEF AJobMoves
    <3>. QED BY <3>2, <3>3 DEF Unfinished
  <2>. QED BY <2>1, <2>2
<1>3. Stays'
  <2>. SUFFICES ASSUME NEW k \in OfficialJobs', NEW f \in ScoredFiles, f \notin NamesIn(jobs'[k].todo)
                PROVE  Shown(f)' # Absent
    BY DEF Stays, Left, NamesIn
  <2>1. k \in OfficialJobs
    BY OfficialJobsGrow, TrainingWritesAll
  <2>2. CASE f \notin Left(k)
    BY <2>1, <2>2, FileStays DEF OfficialInv, Stays
  <2>3. CASE f \in Left(k)
    <3>1. Shown(f)' = [by |-> k, at |-> now]
      BY <2>1, <2>3, TrainingWrote
    <3>. QED BY <1>0, <2>1, <3>1, WrittenIsThere
  <2>. QED BY <2>2, <2>3
<1>6. Bundled'
  <2>. SUFFICES ASSUME There("model")', Shown("model")'.by = 0 PROVE Shown("calibrator")' # Absent
    BY DEF Bundled
  <2>0. "model" \in ScoredFiles /\ "calibrator" \in ScoredFiles
    BY DEF ScoredFiles
  <2>1. Shown("model")' = Shown("model")
    <3>. SUFFICES ASSUME Shown("model")' # Shown("model") PROVE FALSE
      OBVIOUS
    <3>1. PICK m \in OfficialJobs : Shown("model")' = Half \/ Shown("model")' = [by |-> m, at |-> now]
      BY <2>0, OfficialFileChanges
    <3>2. Shown("model")'.by = m
      BY <3>1 DEF There
    <3>. QED BY <1>0, <3>2
  <2>2. Shown("calibrator") # Absent
    BY <2>1 DEF OfficialInv, Bundled, There
  <2>. QED BY <2>0, <2>2, FileStays
<1>4. ASSUME Serial(OfficialJobs)' PROVE Ahead'
  <2>. SUFFICES ASSUME NEW k \in OfficialJobs', NEW f \in ScoredFiles,
                       f \notin NamesIn(jobs'[k].todo), There(f)'
                PROVE  Shown(f)'.by >= k
    BY DEF Ahead, Left, NamesIn
  <2>0. Serial(OfficialJobs) /\ Ahead
    BY <1>4, OfficialJobsGrow DEF OfficialInv
  <2>1. k \in OfficialJobs
    BY OfficialJobsGrow, TrainingWritesAll
  <2>2. CASE Shown(f)' = Shown(f)
    <3>1. CASE f \notin Left(k)
      BY <2>0, <2>1, <2>2, <3>1 DEF Ahead, There
    <3>2. CASE f \in Left(k)
      <4>1. Shown(f)' = [by |-> k, at |-> now]
        BY <2>1, <3>2, TrainingWrote
      <4>. QED BY <1>0, <2>1, <4>1
    <3>. QED BY <3>1, <3>2
  <2>3. CASE Shown(f)' # Shown(f)
    <3>1. PICK m \in OfficialJobs :
            Running(m) /\ (Shown(f)' = Half \/ Shown(f)' = [by |-> m, at |-> now])
      BY <2>3, OfficialFileChanges
    <3>2. m >= k
      BY <2>0, <2>1, <3>1, LastWrites
    <3>. QED BY <3>1, <3>2 DEF There
  <2>. QED BY <2>2, <2>3
<1>. QED BY <1>1, <1>2, <1>3, <1>4, <1>6 DEF OfficialInv

-----------------------------------------------------------------------------
(* Scores                                                                  *)

(* It reads the official model itself, and has not failed.                 *)
Scoring(j) == IsScore(jobs[j]) /\ jobs[j].dir = Official /\ ~jobs[j].failed /\ jobs[j].hitAge = None

(* It has what it needs by now, the manifest before the other two.         *)
ReadSoFar(j) ==
  /\ \A f \in {"manifest", "model"} : f \notin Left(j) => jobs[j].held[f] # None
  /\ "manifest" \in Left(j) => \A f \in {"model", "calibrator"} : jobs[j].held[f] = None

(* Its manifest is of a training that is over, and the rest no older.      *)
Attributed(j) ==
  jobs[j].held["manifest"] # None =>
    /\ \/ jobs[j].held["manifest"].by = 0
       \/ /\ jobs[j].held["manifest"].by \in OfficialJobs
          /\ ~Unfinished(jobs[j].held["manifest"].by)
    /\ \A f \in {"model", "calibrator"} :
         jobs[j].held[f] # None => jobs[j].held[f].by >= jobs[j].held["manifest"].by

OnDisk(f) == IF There(f) THEN Shown(f) ELSE None

(* What it read was shipped, or is by a training; one that started later   *)
(* found it at work.                                                       *)
PlacedAt(j, v) ==
  v # None =>
    v.by = 0 \/ (v.by \in OfficialJobs /\ (v.by > j => j \in jobs[v.by].over))
Placed(j) == \A f \in ScoredFiles : PlacedAt(j, jobs[j].held[f])

(* Its manifest is no older than any training that was over before.        *)
RecentAt(j, v) ==
  v # None =>
    \A k \in OfficialJobs : k < j /\ k \notin jobs[j].over /\ ~jobs[k].dead => v.by >= k
Recent(j) == RecentAt(j, jobs[j].held["manifest"])

(* It finds no calibrator only beside a training, or after a dead one.     *)
Accompanied(j) ==
  /\ jobs[j].held["model"] # None /\ jobs[j].held["model"].by = 0 => Shown("calibrator") # Absent
  /\ "calibrator" \notin Left(j) =>
       /\ "model" \notin Left(j)
       /\ jobs[j].held["calibrator"] = None => Disturbed(j, jobs[j].held["model"].by)

ScoreOK(j) ==
  /\ ReadSoFar(j)
  /\ Placed(j) /\ Accompanied(j)
  /\ Serial(OfficialJobs) => Attributed(j) /\ Recent(j)

ScoresOK == \A j \in DOMAIN jobs : Scoring(j) => ScoreOK(j)

(* A training that has work left now is beside a running score, or died.   *)
LEMMA UnderWay ==
  ASSUME StoreTyped, Overlapping, NEW j \in DOMAIN jobs, Running(j), IsScore(jobs[j]),
         NEW k \in OfficialJobs, Unfinished(k)
  PROVE  Disturbed(j, k)
<1>1. k \in DOMAIN jobs /\ jobs[k].kind = "official" /\ k \in Nat /\ j \in Nat
  BY DEF OfficialJobs, StoreTyped, StoreTypeOK
<1>2. j < k \/ k < j
  BY <1>1 DEF IsScore
<1>3. ~jobs[k].dead => Running(k)
  BY DEF Running
<1>. QED BY <1>1, <1>2, <1>3 DEF Overlapping, Overlap, Disturbed

(* That is remembered.                                                     *)
LEMMA DisturbedStays ==
  ASSUME StoreTyped, StoreNext, NEW j \in DOMAIN jobs, NEW k, Disturbed(j, k)
  PROVE  Disturbed(j, k)'
<1>1. k \in DOMAIN jobs /\ k \in OfficialJobs'
  BY OfficialJobsGrow DEF Disturbed, OfficialJobs
<1>2. jobs'[j].over = jobs[j].over /\ jobs'[k].over = jobs[k].over
  BY <1>1, JobsStay
<1>3. ASSUME jobs[k].dead PROVE jobs'[k].dead
  <2>1. ~Running(k)
    BY <1>3 DEF Running
  <2>2. jobs'[k] = jobs[k]
    BY <1>1, <2>1, JobsStay
  <2>. QED BY <1>3, <2>2
<1>. QED BY <1>1, <1>2, <1>3 DEF Disturbed, Overlap

(* So is which training started later and found the score at work.         *)
LEMMA PlacedAtStays ==
  ASSUME StoreTyped, StoreNext, NEW j \in DOMAIN jobs, NEW v, PlacedAt(j, v)
  PROVE  PlacedAt(j, v)'
<1>. SUFFICES ASSUME v # None, v.by # 0
              PROVE  v.by \in OfficialJobs' /\ (v.by > j => j \in jobs'[v.by].over)
  BY DEF PlacedAt
<1>1. v.by \in OfficialJobs /\ (v.by > j => j \in jobs[v.by].over)
  BY DEF PlacedAt
<1>2. v.by \in DOMAIN jobs
  BY <1>1 DEF OfficialJobs
<1>. QED BY <1>1, <1>2, OfficialJobsGrow, JobsStay

(* What a running score finds is so.                                       *)
LEMMA FoundIsPlaced ==
  ASSUME StoreTyped, Overlapping, OfficialInv, NEW j \in DOMAIN jobs, Running(j), NEW f \in ScoredFiles
  PROVE  PlacedAt(j, OnDisk(f))
<1>. SUFFICES ASSUME There(f), Shown(f).by # 0
              PROVE  /\ Shown(f).by \in OfficialJobs
                     /\ Shown(f).by > j => j \in jobs[Shown(f).by].over
  BY DEF PlacedAt, OnDisk
<1>1. PICK b : b = Shown(f).by
  OBVIOUS
<1>2. b \in OfficialJobs
  BY <1>1 DEF OfficialInv, Authored
<1>3. b \in DOMAIN jobs /\ b \in Nat /\ j \in Nat
  BY <1>2 DEF OfficialJobs, StoreTyped, StoreTypeOK
<1>4. b > j => j < b
  BY <1>3
<1>5. b > j => j \in jobs[b].over
  BY <1>3, <1>4 DEF Overlapping
<1>. QED BY <1>1, <1>2, <1>5

(* A training that was over before stays the only kind of which the        *)
(* manifest has to be no older.                                            *)
LEMMA RecentAtStays ==
  ASSUME StoreTyped, StoreNext, NEW j \in DOMAIN jobs, NEW v, RecentAt(j, v)
  PROVE  RecentAt(j, v)'
<1>. SUFFICES ASSUME v # None, NEW k \in OfficialJobs', k < j, k \notin jobs'[j].over, ~jobs'[k].dead
              PROVE  v.by >= k
  BY DEF RecentAt
<1>1. j \in Nat /\ k \in Nat /\ k \in DOMAIN jobs'
  BY JobsStay DEF OfficialJobs, StoreTyped, StoreTypeOK
<1>2. k \in DOMAIN jobs
  <2>1. k \notin DOMAIN jobs => j < k
    BY <1>1, JobsStay
  <2>. QED BY <1>1, <2>1
<1>3. k \in OfficialJobs /\ k \notin jobs[j].over
  BY <1>2, JobsStay DEF OfficialJobs
<1>4. ~jobs[k].dead
  <2>1. jobs[k].dead => jobs'[k] = jobs[k]
    BY <1>2, JobsStay DEF Running
  <2>. QED BY <2>1
<1>. QED BY <1>3, <1>4 DEF RecentAt

(* The manifest that is there is so for whoever reads it.                  *)
LEMMA FoundIsRecent ==
  ASSUME StoreTyped, Overlapping, OfficialInv, Serial(OfficialJobs), NEW j \in DOMAIN jobs
  PROVE  RecentAt(j, OnDisk("manifest"))
<1>. SUFFICES ASSUME There("manifest"),
                     NEW k \in OfficialJobs, k < j, k \notin jobs[j].over, ~jobs[k].dead
              PROVE  Shown("manifest").by >= k
  BY DEF RecentAt, OnDisk
<1>1. ~Running(k)
  BY DEF Overlapping, OfficialJobs
<1>2. "manifest" \notin Left(k)
  BY <1>1 DEF Running, Unfinished, Left, NamesIn
<1>. QED BY <1>2 DEF OfficialInv, Ahead, ScoredFiles

(* A score reads, waits for the cache, or fails or is served by it.        *)
LEMMA ScoreSteps ==
  ASSUME StoreTyped, NEW j \in DOMAIN jobs, IsScore(jobs[j]), AJobMoves(j), ~jobs'[j].failed,
         jobs'[j].hitAge = None
  PROVE  /\ jobs[j] \in Job /\ Unfinished(j)
         /\ Left(j) = {NameOf(jobs[j])} \cup NamesIn(jobs'[j].todo)
         /\ jobs'[j].failed = jobs[j].failed /\ jobs'[j].hitAge = jobs[j].hitAge
         /\ disk' = disk
         /\ \/ NameOf(jobs[j]) \notin ScoredFiles /\ jobs'[j].held = jobs[j].held
            \/ /\ ReadFile(j) /\ ~Raises(jobs[j]) /\ NameOf(jobs[j]) \in Parts
               /\ jobs'[j].held = [jobs[j].held EXCEPT ![NameOf(jobs[j])] = ReadBy(jobs[j])]
         /\ NameOf(jobs[j]) \in {"manifest", "model"} => Head(jobs[j].todo)[1] = "need"
         /\ NameOf(jobs[j]) \in {"model", "calibrator"} => "manifest" \notin Left(j)
         /\ NameOf(jobs[j]) = "calibrator" => "model" \notin Left(j)
<1>. DEFINE x == jobs[j]
            n == NameOf(x)
<1>1. x \in Job /\ JobOK(x) /\ x.todo # <<>>
  BY JobSteps DEF StoreTyped, AJobMoves
<1>2. /\ Head(x.todo) = x.todo[1] /\ 1 \in DOMAIN x.todo
      /\ NamesIn(x.todo) = {n} \cup NamesIn(Tail(x.todo))
      /\ DOMAIN x.todo \subseteq Nat \ {0}
  BY <1>1, TailIsProgram DEF JobOK, Program, NameOf
<1>3. \A i \in DOMAIN x.todo : ScoreStep(x.todo, i)
  BY <1>1 DEF JobOK, Program
<1>4. /\ Head(x.todo)[1] \notin Writes
      /\ n \in {"manifest", "model"} => Head(x.todo)[1] = "need"
      /\ n \in ScoredFiles => Head(x.todo)[1] \in Reads
  BY <1>2, <1>3 DEF ScoreStep, NameOf, Reads, ScoredFiles
<1>5. n \in {"model", "calibrator"} => "manifest" \notin NamesIn(x.todo)
  <2>1. SUFFICES ASSUME n \in {"model", "calibrator"}, NEW i \in DOMAIN x.todo, x.todo[i][2] = "manifest"
                 PROVE  FALSE
    BY DEF NamesIn
  <2>2. i < 1
    BY <1>2, <1>3, <2>1 DEF ScoreStep, NameOf
  <2>. QED BY <1>2, <2>2
<1>9. n = "calibrator" => "model" \notin NamesIn(x.todo)
  <2>1. SUFFICES ASSUME n = "calibrator", NEW i \in DOMAIN x.todo, x.todo[i][2] = "model" PROVE FALSE
    BY DEF NamesIn
  <2>2. i < 1
    BY <1>2, <1>3, <2>1 DEF ScoreStep, NameOf
  <2>. QED BY <1>2, <2>2
<1>6. ~OpenFile(j) /\ ~CloseFile(j) /\ ~Die(j)
  BY <1>4 DEF OpenFile, CloseFile, Die, Instr, Writes, IsScore
<1>7. CASE ReadFile(j)
  <2>1. ~Raises(x)
    <3>1. Raises(x) => jobs'[j] = HasFailed(x)
      BY <1>7, ReadFileMoves, OneMoves DEF StoreTyped
    <3>2. HasFailed(x).failed
      BY <1>1, AfterSteps
    <3>. QED BY <3>1, <3>2
  <2>2. jobs'[j] = HasRead(x, ReadBy(x)) /\ n \in Parts /\ disk' = disk
    BY <1>7, <2>1, ReadFileMoves, OneMoves DEF StoreTyped
  <2>3. /\ jobs'[j].todo = Tail(x.todo) /\ jobs'[j].failed = x.failed
        /\ jobs'[j].held = [x.held EXCEPT ![n] = ReadBy(x)] /\ jobs'[j].hitAge = x.hitAge
    BY <1>1, <2>2, AfterRead
  <2>. QED BY <1>1, <1>2, <1>4, <1>5, <1>7, <1>9, <2>1, <2>2, <2>3 DEF Left, Unfinished
<1>8. CASE CacheGet(j) \/ CacheSet(j)
  <2>1. jobs'[j] = HasGone(x) /\ disk' = disk
    <3>1. CASE CacheSet(j)
      BY <3>1, CacheSetMoves, OneMoves DEF StoreTyped
    <3>2. CASE CacheGet(j)
      <4>. DEFINE e == EntryOf(x.feature)
      <4>1. ~Hit(x.feature)
        <5>. SUFFICES ASSUME Hit(x.feature) PROVE FALSE
          OBVIOUS
        <5>1. jobs'[j] = HasHit(x, e)
          BY <3>2, CacheGetMoves, OneMoves DEF StoreTyped
        <5>2. jobs'[j].hitAge = now - e.made
          BY <1>1, <5>1, AfterHit
        <5>3. e \in CacheEntry
          BY EntryTyped DEF Hit, HasEntry, StoreTyped
        <5>4. now - e.made \in Nat
          BY <5>3 DEF CacheEntry, StoreTyped, StoreTypeOK, Clock
        <5>. QED BY <5>2, <5>4, NothingAssumption
      <4>. QED BY <3>2, <4>1, CacheGetMoves, OneMoves DEF StoreTyped
    <3>. QED BY <1>8, <3>1, <3>2
  <2>2. /\ jobs'[j].todo = Tail(x.todo) /\ jobs'[j].failed = x.failed
        /\ jobs'[j].held = x.held /\ jobs'[j].hitAge = x.hitAge
    BY <1>1, <2>1, AfterSteps
  <2>3. n \notin ScoredFiles
    BY <1>4, <1>8 DEF CacheGet, CacheSet, Instr, Reads
  <2>. QED BY <1>1, <1>2, <1>4, <1>5, <1>9, <2>1, <2>2, <2>3 DEF Left, Unfinished
<1>. QED BY <1>6, <1>7, <1>8 DEF AJobMoves

(* What is found on disk is what a reading holds.                          *)
LEMMA ReadingHolds ==
  ASSUME StoreTyped, NEW j \in DOMAIN jobs, jobs[j].dir = Official, ReadFile(j), ~Raises(jobs[j]),
         NameOf(jobs[j]) \in ScoredFiles
  PROVE  /\ ReadBy(jobs[j]) = OnDisk(NameOf(jobs[j]))
         /\ Shown(NameOf(jobs[j])) # Half
         /\ Head(jobs[j].todo)[1] = "need" => There(NameOf(jobs[j])) /\ ReadBy(jobs[j]) # None
<1>1. FoundBy(jobs[j]) = Shown(NameOf(jobs[j]))
  BY DEF FoundBy, PathOf, Shown, ScoredFiles
<1>2. Head(jobs[j].todo)[1] = "need" => ReadBy(jobs[j]) # None
  BY FoundIsSome
<1>. QED BY <1>1, <1>2 DEF ReadBy, OnDisk, There, Raises

(* The names held are told apart.                                          *)
LEMMA HeldAfterRead ==
  ASSUME StoreTyped, NEW j \in DOMAIN jobs, ReadFile(j), NameOf(jobs[j]) \in Parts,
         jobs'[j].held = [jobs[j].held EXCEPT ![NameOf(jobs[j])] = ReadBy(jobs[j])]
  PROVE  /\ jobs'[j].held[NameOf(jobs[j])] = ReadBy(jobs[j])
         /\ \A f \in Parts : f # NameOf(jobs[j]) => jobs'[j].held[f] = jobs[j].held[f]
<1>1. jobs[j].held \in Held
  <2>1. jobs[j] \in Job
    BY DEF StoreTyped, StoreTypeOK
  <2>. QED BY <2>1 DEF Job
<1>2. ReadBy(jobs[j]) \in {None} \cup Content(NameOf(jobs[j]), Clock)
  BY ReadFileMoves
<1>. QED BY <1>1, <1>2, HeldTyped

(* A score that has just started holds nothing.                            *)
LEMMA ScoreStarts ==
  ASSUME StoreTyped, StoreNext, NEW j \in DOMAIN jobs' \ DOMAIN jobs, Scoring(j)'
  PROVE  ScoreOK(j)'
<1>1. Starts(jobs'[j]) /\ IsScore(jobs'[j])
  BY JobsStay DEF Scoring
<1>2. jobs'[j].held = NothingHeld /\ ScoredFiles \subseteq NamesIn(jobs'[j].todo)
  BY <1>1 DEF Starts, ScoredFiles
<1>3. \A f \in ScoredFiles : jobs'[j].held[f] = None
  BY <1>2 DEF NothingHeld, Parts, ScoredFiles
<1>5. ReadSoFar(j)'
  BY <1>2, <1>3 DEF ReadSoFar, Left, ScoredFiles
<1>6. Attributed(j)'
  BY <1>3 DEF Attributed, ScoredFiles
<1>7. Placed(j)' /\ Accompanied(j)' /\ Recent(j)'
  BY <1>2, <1>3 DEF Placed, PlacedAt, Accompanied, Recent, RecentAt, Left, ScoredFiles
<1>. QED BY <1>5, <1>6, <1>7 DEF ScoreOK

(* What was finished, and by whom, others do not change.                   *)
LEMMA AttributedStays ==
  ASSUME StoreTyped, StoreNext, NEW j \in DOMAIN jobs, Attributed(j),
         jobs'[j].held = jobs[j].held
  PROVE  Attributed(j)'
<1>. DEFINE m == jobs[j].held["manifest"].by
<1>1. SUFFICES ASSUME jobs[j].held["manifest"] # None
               PROVE  m = 0 \/ (m \in OfficialJobs' /\ jobs'[m].todo = <<>>)
  BY DEF Attributed, Unfinished
<1>2. m = 0 \/ (m \in OfficialJobs /\ ~Unfinished(m))
  BY <1>1 DEF Attributed
<1>3. ASSUME m \in OfficialJobs, ~Unfinished(m) PROVE m \in OfficialJobs' /\ jobs'[m].todo = <<>>
  <2>1. m \in DOMAIN jobs
    BY <1>3 DEF OfficialJobs
  <2>2. jobs'[m] = jobs[m]
    BY <1>3, <2>1, JobsStay
  <2>. QED BY <1>3, <2>2, OfficialJobsGrow DEF Unfinished
<1>. QED BY <1>2, <1>3

(* What a score reads now is by a training that is over, if a manifest,    *)
(* and else no older than the manifest it holds.                           *)
LEMMA ReadIsAttributed ==
  ASSUME StoreTyped, OfficialInv, StoreNext, Serial(OfficialJobs), NEW j \in DOMAIN jobs,
         jobs[j].dir = Official, ReadSoFar(j), Attributed(j),
         ReadFile(j), ~Raises(jobs[j]), NameOf(jobs[j]) \in Parts,
         NameOf(jobs[j]) \in Left(j),
         jobs'[j].held = [jobs[j].held EXCEPT ![NameOf(jobs[j])] = ReadBy(jobs[j])],
         NameOf(jobs[j]) \in {"model", "calibrator"} => "manifest" \notin Left(j)
  PROVE  Attributed(j)'
<1>. DEFINE n == NameOf(jobs[j])
            h == jobs[j].held
            v == ReadBy(jobs[j])
            g == jobs'[j].held
<1>1. g[n] = v /\ \A f \in Parts : f # n => g[f] = h[f]
  BY HeldAfterRead
<1>2. disk' = disk /\ DOMAIN jobs' = DOMAIN jobs
  <2>1. \E y : Moves(j, y)
    BY JobSteps
  <2>. QED BY <2>1, OneMoves DEF ReadFile, StoreTyped
<1>. DEFINE Over(m) == m = 0 \/ (m \in OfficialJobs /\ ~Unfinished(m))
<1>3. \A m : Over(m) => m = 0 \/ (m \in OfficialJobs' /\ jobs'[m].todo = <<>>)
  <2>1. SUFFICES ASSUME NEW m \in OfficialJobs, ~Unfinished(m)
                 PROVE  m \in OfficialJobs' /\ jobs'[m].todo = <<>>
    OBVIOUS
  <2>2. m \in DOMAIN jobs
    BY DEF OfficialJobs
  <2>3. jobs'[m] = jobs[m]
    BY <2>1, <2>2, JobsStay
  <2>. QED BY <2>1, <2>3, OfficialJobsGrow DEF Unfinished
<1>4. ASSUME g["manifest"] # None
      PROVE  /\ Over(g["manifest"].by)
             /\ \A f \in {"model", "calibrator"} : g[f] # None => g[f].by >= g["manifest"].by
  <2>1. CASE n \notin ScoredFiles
    <3>1. \A f \in ScoredFiles : g[f] = h[f]
      BY <1>1, <2>1 DEF Parts, ScoredFiles
    <3>. QED BY <1>4, <3>1 DEF Attributed, ScoredFiles
  <2>2. CASE n = "manifest"
    <3>1. v = OnDisk("manifest") /\ g["manifest"] = v
      BY <1>1, <2>2, ReadingHolds DEF ScoredFiles
    <3>2. There("manifest") /\ v = Shown("manifest")
      BY <1>4, <3>1 DEF OnDisk
    <3>3. Over(v.by)
      BY <3>2 DEF OfficialInv, Authored, Published, ScoredFiles
    <3>4. \A f \in {"model", "calibrator"} : g[f] = None
      BY <1>1, <2>2 DEF ReadSoFar, Parts
    <3>. QED BY <3>1, <3>3, <3>4
  <2>3. CASE n \in {"model", "calibrator"}
    <3>. DEFINE m == h["manifest"].by
    <3>1. g["manifest"] = h["manifest"] /\ "manifest" \notin Left(j)
      BY <1>1, <2>3 DEF Parts
    <3>2. Over(m) /\ \A f \in {"model", "calibrator"} : h[f] # None => h[f].by >= m
      BY <1>4, <3>1 DEF Attributed
    <3>3. ASSUME g[n] # None PROVE g[n].by >= m
      <4>1. v = OnDisk(n) /\ n \in ScoredFiles
        BY <2>3, ReadingHolds DEF ScoredFiles
      <4>2. There(n) /\ v = Shown(n)
        BY <1>1, <3>3, <4>1 DEF OnDisk
      <4>3. CASE m = 0
        <5>1. Shown(n).by = 0 \/ Shown(n).by \in OfficialJobs
          BY <4>1, <4>2 DEF OfficialInv, Authored
        <5>2. \A k \in OfficialJobs : k \in Nat
          BY DEF OfficialJobs, StoreTyped, StoreTypeOK
        <5>3. PICK b : b = Shown(n).by
          OBVIOUS
        <5>4. b \in Nat
          BY <5>1, <5>2, <5>3
        <5>. QED BY <1>1, <4>2, <4>3, <5>3, <5>4
      <4>4. CASE m \in OfficialJobs /\ ~Unfinished(m)
        <5>1. n \notin Left(m)
          BY <4>4 DEF Left, Unfinished, NamesIn
        <5>2. Shown(n).by >= m
          BY <4>1, <4>2, <4>4, <5>1 DEF OfficialInv, Ahead
        <5>. QED BY <1>1, <4>2, <5>2
      <4>. QED BY <3>2, <4>3, <4>4
    <3>4. ASSUME NEW f \in {"model", "calibrator"}, g[f] # None PROVE g[f].by >= g["manifest"].by
      <4>1. CASE f = n
        BY <3>1, <3>3, <3>4, <4>1
      <4>2. CASE f # n
        <5>1. g[f] = h[f]
          BY <1>1, <4>2 DEF Parts
        <5>. QED BY <3>1, <3>2, <3>4, <5>1
      <4>. QED BY <4>1, <4>2
    <3>. QED BY <3>1, <3>2, <3>4
  <2>. QED BY <2>1, <2>2, <2>3 DEF ScoredFiles
<1>. HIDE DEF Over
<1>5. g["manifest"] # None =>
        /\ g["manifest"].by = 0 \/ (g["manifest"].by \in OfficialJobs' /\ jobs'[g["manifest"].by].todo = <<>>)
        /\ \A f \in {"model", "calibrator"} : g[f] # None => g[f].by >= g["manifest"].by
  BY <1>3, <1>4
<1>. QED BY <1>5 DEF Attributed, Unfinished

(* What a step of a score leaves held: what it read was on disk.           *)
LEMMA ScoreHolds ==
  ASSUME StoreTyped, NEW j \in DOMAIN jobs, IsScore(jobs[j]), jobs[j].dir = Official, AJobMoves(j),
         ~jobs'[j].failed, jobs'[j].hitAge = None, NEW f \in ScoredFiles
  PROVE  /\ f # NameOf(jobs[j]) => jobs'[j].held[f] = jobs[j].held[f]
         /\ f = NameOf(jobs[j]) =>
              /\ jobs'[j].held[f] = OnDisk(f) /\ Shown(f) # Half
              /\ f \in {"manifest", "model"} => jobs'[j].held[f] # None
<1>. DEFINE n == NameOf(jobs[j])
<1>1. CASE n \notin ScoredFiles /\ jobs'[j].held = jobs[j].held
  BY <1>1
<1>2. CASE /\ ReadFile(j) /\ ~Raises(jobs[j]) /\ n \in Parts
           /\ jobs'[j].held = [jobs[j].held EXCEPT ![n] = ReadBy(jobs[j])]
  <2>1. jobs'[j].held[n] = ReadBy(jobs[j]) /\ \A g \in Parts : g # n => jobs'[j].held[g] = jobs[j].held[g]
    BY <1>2, HeldAfterRead
  <2>2. f \in Parts
    BY DEF ScoredFiles, Parts
  <2>3. f = n => ReadBy(jobs[j]) = OnDisk(f) /\ Shown(f) # Half
    BY <1>2, ReadingHolds
  <2>4. f = n /\ f \in {"manifest", "model"} => ReadBy(jobs[j]) # None
    BY <1>2, ReadingHolds, ScoreSteps
  <2>. QED BY <2>1, <2>2, <2>3, <2>4
<1>. QED BY <1>1, <1>2, ScoreSteps

(* What is there is something.                                             *)
LEMMA ShownIsSome == ASSUME StoreTyped, NEW f \in ScoredFiles, There(f) PROVE Shown(f) # None
<1>1. <<Official, f>> \in Paths \ {Registry}
  BY DEF Paths, OfficialFiles, Registry, Official, ScoredFiles
<1>2. Shown(f) \in [by : 0..Len(jobs), at : 0..now]
  BY <1>1 DEF StoreTyped, StoreTypeOK, Shown, There
<1>3. [by : 0..Len(jobs), at : 0..now] \subseteq File(Nat)
  BY DEF StoreTyped, StoreTypeOK, File, Clock
<1>. QED BY <1>2, <1>3, NothingAssumption

(* One step of a score keeps what it has read as it should be.             *)
LEMMA ScoreMoves ==
  ASSUME StoreTyped, Overlapping, OfficialInv, StoreNext, NEW j \in DOMAIN jobs,
         AJobMoves(j), Scoring(j), ScoreOK(j), Scoring(j)'
  PROVE  ScoreOK(j)'
<1>. DEFINE n == NameOf(jobs[j])
<1>0. /\ IsScore(jobs[j]) /\ jobs[j].dir = Official
      /\ ~jobs'[j].failed /\ jobs'[j].hitAge = None
  BY DEF Scoring
<1>1. Unfinished(j) /\ Left(j) = {n} \cup NamesIn(jobs'[j].todo) /\ n \in Left(j)
  BY <1>0, ScoreSteps
<1>4. Running(j)
  BY JobSteps DEF AJobMoves, Running, Unfinished
<1>2. n \in {"model", "calibrator"} => "manifest" \notin Left(j)
  BY <1>0, ScoreSteps
<1>3. \A f \in ScoredFiles :
        /\ f # n => jobs'[j].held[f] = jobs[j].held[f]
        /\ f = n => /\ jobs'[j].held[f] = OnDisk(f) /\ Shown(f) # Half
                    /\ f \in {"manifest", "model"} => jobs'[j].held[f] # None
  BY <1>0, ScoreHolds
<1>9. ReadSoFar(j)'
  <2>1. ReadSoFar(j)
    BY DEF ScoreOK
  <2>2. ASSUME NEW f \in {"manifest", "model"}, f \notin NamesIn(jobs'[j].todo)
        PROVE  jobs'[j].held[f] # None
    BY <1>1, <1>3, <2>1, <2>2 DEF ReadSoFar, ScoredFiles
  <2>3. ASSUME "manifest" \in NamesIn(jobs'[j].todo), NEW f \in {"model", "calibrator"}
        PROVE  jobs'[j].held[f] = None
    BY <1>1, <1>2, <1>3, <2>1, <2>3 DEF ReadSoFar, ScoredFiles
  <2>. QED BY <2>2, <2>3 DEF ReadSoFar, Left
<1>5. ASSUME Serial(OfficialJobs)' PROVE Attributed(j)'
  <2>1. Serial(OfficialJobs) /\ Attributed(j) /\ ReadSoFar(j)
    BY <1>5, OfficialJobsGrow DEF ScoreOK
  <2>2. CASE jobs'[j].held = jobs[j].held
    BY <2>1, <2>2, AttributedStays
  <2>3. CASE /\ ReadFile(j) /\ ~Raises(jobs[j]) /\ n \in Parts
             /\ jobs'[j].held = [jobs[j].held EXCEPT ![n] = ReadBy(jobs[j])]
    BY <1>0, <1>1, <1>2, <2>1, <2>3, ReadIsAttributed
  <2>. QED BY <1>0, <2>2, <2>3, ScoreSteps
<1>6. Placed(j)'
  <2>. SUFFICES ASSUME NEW f \in ScoredFiles PROVE PlacedAt(j, jobs[j].held[f])'
    BY DEF Placed
  <2>1. PICK v : v = jobs'[j].held[f]
    OBVIOUS
  <2>2. PlacedAt(j, v)
    <3>1. CASE f # n
      BY <1>3, <2>1, <3>1 DEF ScoreOK, Placed
    <3>2. CASE f = n
      BY <1>3, <1>4, <2>1, <3>2, FoundIsPlaced
    <3>. QED BY <3>1, <3>2
  <2>3. PlacedAt(j, v)'
    BY <2>2, PlacedAtStays
  <2>. QED BY <2>1, <2>3 DEF PlacedAt
<1>7. Accompanied(j)'
  <2>0. Accompanied(j) /\ Placed(j) /\ ReadSoFar(j) /\ {"model", "calibrator"} \subseteq ScoredFiles
    BY DEF ScoreOK, ScoredFiles
  <2>1. ASSUME jobs'[j].held["model"] # None, jobs'[j].held["model"].by = 0
        PROVE  Shown("calibrator")' # Absent
    <3>1. CASE n # "model"
      BY <1>3, <2>0, <2>1, <3>1, FileStays DEF Accompanied
    <3>2. CASE n = "model"
      <4>1. There("model") /\ Shown("model").by = 0
        BY <1>3, <2>0, <2>1, <3>2 DEF OnDisk
      <4>. QED BY <2>0, <4>1, FileStays DEF OfficialInv, Bundled
    <3>. QED BY <3>1, <3>2
  <2>2. ASSUME "calibrator" \notin NamesIn(jobs'[j].todo)
        PROVE  /\ "model" \notin NamesIn(jobs'[j].todo)
               /\ jobs'[j].held["calibrator"] = None => Disturbed(j, jobs[j].held["model"].by)
               /\ jobs'[j].held["model"] = jobs[j].held["model"]
    <3>1. CASE n # "calibrator"
      <4>1. "calibrator" \notin Left(j) /\ n # "model"
        BY <1>1, <2>0, <2>2, <3>1 DEF Accompanied
      <4>. QED BY <1>1, <1>3, <2>0, <3>1, <4>1 DEF Accompanied
    <3>2. CASE n = "calibrator"
      <4>1. "model" \notin Left(j) /\ jobs[j].held["model"] # None
        BY <1>0, <2>0, <3>2, ScoreSteps DEF ReadSoFar
      <4>2. ASSUME jobs'[j].held["calibrator"] = None PROVE Disturbed(j, jobs[j].held["model"].by)
        <5>1. Shown("calibrator") = Absent
          <6>1. OnDisk("calibrator") = None /\ Shown("calibrator") # Half
            BY <1>3, <2>0, <3>2, <4>2
          <6>2. There("calibrator") => Shown("calibrator") # None
            BY ShownIsSome DEF ScoredFiles
          <6>. QED BY <6>1, <6>2 DEF OnDisk, There
        <5>2. PICK b : b = jobs[j].held["model"].by
          OBVIOUS
        <5>3. b \in OfficialJobs
          BY <2>0, <4>1, <5>1, <5>2 DEF Accompanied, Placed, PlacedAt
        <5>4. "calibrator" \in Left(b)
          BY <2>0, <5>1, <5>3 DEF OfficialInv, Stays
        <5>5. Unfinished(b)
          BY <5>4 DEF Unfinished, Left, NamesIn
        <5>. QED BY <1>0, <1>4, <5>2, <5>3, <5>5, UnderWay
      <4>. QED BY <1>1, <1>3, <2>0, <3>2, <4>1, <4>2
    <3>. QED BY <3>1, <3>2
  <2>3. PICK b : b = jobs[j].held["model"].by
    OBVIOUS
  <2>4. Disturbed(j, b) => Disturbed(j, b)'
    BY DisturbedStays
  <2>. QED BY <2>1, <2>2, <2>3, <2>4 DEF Accompanied, Left, NamesIn
<1>8. ASSUME Serial(OfficialJobs)' PROVE Recent(j)'
  <2>1. Serial(OfficialJobs) /\ Recent(j) /\ "manifest" \in ScoredFiles
    BY <1>8, OfficialJobsGrow DEF ScoreOK, ScoredFiles
  <2>2. PICK v : v = jobs'[j].held["manifest"]
    OBVIOUS
  <2>3. RecentAt(j, v)
    <3>1. CASE n # "manifest"
      BY <1>3, <2>1, <2>2, <3>1 DEF Recent
    <3>2. CASE n = "manifest"
      BY <1>3, <2>1, <2>2, <3>2, FoundIsRecent
    <3>. QED BY <3>1, <3>2
  <2>4. RecentAt(j, v)'
    BY <2>3, RecentAtStays
  <2>. QED BY <2>2, <2>4 DEF Recent, RecentAt
<1>. QED BY <1>5, <1>6, <1>7, <1>8, <1>9 DEF ScoreOK

(* Whatever happens, the scores are as they should be.                     *)
LEMMA ScoresKept ==
  ASSUME StoreTyped, Overlapping, OfficialInv, ScoresOK, StoreNext PROVE ScoresOK'
<1>. SUFFICES ASSUME NEW j \in DOMAIN jobs', Scoring(j)' PROVE ScoreOK(j)'
  BY DEF ScoresOK
<1>1. CASE j \notin DOMAIN jobs
  BY <1>1, ScoreStarts
<1>2. CASE j \in DOMAIN jobs /\ jobs'[j] = jobs[j]
  <2>0. j \in DOMAIN jobs /\ jobs'[j] = jobs[j] /\ IsScore(jobs[j])
    BY <1>2 DEF Scoring
  <2>1. ScoreOK(j)
    BY <2>0 DEF ScoresOK, Scoring
  <2>2. ReadSoFar(j)'
    BY <2>0, <2>1 DEF ScoreOK, ReadSoFar, Left
  <2>3. Serial(OfficialJobs)' => Attributed(j)'
    BY <2>0, <2>1, OfficialJobsGrow, AttributedStays DEF ScoreOK
  <2>4. Placed(j)'
    <3>. SUFFICES ASSUME NEW f \in ScoredFiles PROVE PlacedAt(j, jobs[j].held[f])'
      BY DEF Placed
    <3>1. PICK v : v = jobs[j].held[f]
      OBVIOUS
    <3>2. PlacedAt(j, v)'
      BY <2>0, <2>1, <3>1, PlacedAtStays DEF ScoreOK, Placed
    <3>. QED BY <2>0, <3>1, <3>2 DEF PlacedAt
  <2>5. Accompanied(j)'
    <3>1. PICK b : b = jobs[j].held["model"].by
      OBVIOUS
    <3>2. Disturbed(j, b) => Disturbed(j, b)'
      BY <2>0, DisturbedStays
    <3>3. Shown("calibrator") # Absent => Shown("calibrator")' # Absent
      BY FileStays DEF ScoredFiles
    <3>. QED BY <2>0, <2>1, <3>1, <3>2, <3>3 DEF ScoreOK, Accompanied, Left
  <2>6. Serial(OfficialJobs)' => Recent(j)'
    <3>1. PICK v : v = jobs[j].held["manifest"]
      OBVIOUS
    <3>2. RecentAt(j, v) => RecentAt(j, v)'
      BY <2>0, RecentAtStays
    <3>. QED BY <2>0, <2>1, <3>1, <3>2, OfficialJobsGrow DEF ScoreOK, Recent, RecentAt
  <2>. QED BY <2>2, <2>3, <2>4, <2>5, <2>6 DEF ScoreOK
<1>3. CASE j \in DOMAIN jobs /\ jobs'[j] # jobs[j]
  <2>1. AJobMoves(j)
    BY <1>3, WhoChangedMoved DEF AJobMoves
  <2>2. IsScore(jobs[j]) /\ jobs[j].dir = Official
    BY <1>3, JobsStay DEF Scoring, IsScore
  <2>3. jobs'[j].failed = jobs[j].failed /\ jobs'[j].hitAge = jobs[j].hitAge
    BY <1>3, <2>1, <2>2, ScoreSteps DEF Scoring
  <2>4. Scoring(j)
    BY <2>2, <2>3 DEF Scoring
  <2>. QED BY <1>3, <2>1, <2>4, ScoreMoves DEF ScoresOK
<1>. QED BY <1>1, <1>2, <1>3

-----------------------------------------------------------------------------
(* What the invariants say of the scores                                   *)

(* A score that is over has its manifest and its model.                    *)
LEMMA FinishedScores ==
  ASSUME ScoresOK, NEW j \in OfficialScores
  PROVE  /\ ScoreOK(j) /\ ~Unfinished(j)
         /\ jobs[j].held["manifest"] # None /\ jobs[j].held["model"] # None
<1>1. j \in DOMAIN jobs /\ Scoring(j) /\ ~Unfinished(j)
  BY DEF OfficialScores, Scoring, IsScore, Finished
<1>2. ScoreOK(j)
  BY <1>1 DEF ScoresOK
<1>3. \A f : f \notin Left(j)
  BY <1>1 DEF Unfinished, Left, NamesIn
<1>. QED BY <1>1, <1>2, <1>3 DEF ScoreOK, ReadSoFar

(* What is not of the training that its manifest names is of one that was  *)
(* under way beside it, or died.                                           *)
LEMMA OddFilesAreDisturbed ==
  ASSUME StoreTyped, ScoresOK, Serial(OfficialJobs), NEW j \in OfficialScores,
         NEW f \in {"model", "calibrator"}, jobs[j].held[f] # None,
         jobs[j].held[f].by # jobs[j].held["manifest"].by
  PROVE  Disturbed(j, jobs[j].held[f].by)
<1>1. PICK m, b : m = jobs[j].held["manifest"].by /\ b = jobs[j].held[f].by
  OBVIOUS
<1>2. /\ ScoreOK(j) /\ Attributed(j) /\ Recent(j) /\ Placed(j)
      /\ jobs[j].held["manifest"] # None
  BY FinishedScores DEF ScoreOK
<1>3. b >= m /\ b # m /\ (m = 0 \/ m \in OfficialJobs)
  BY <1>1, <1>2 DEF Attributed
<1>4. (b = 0 \/ b \in OfficialJobs) /\ (b \in OfficialJobs /\ b > j => j \in jobs[b].over)
  <2>1. f \in ScoredFiles
    BY DEF ScoredFiles
  <2>2. PlacedAt(j, jobs[j].held[f])
    BY <1>2, <2>1 DEF Placed
  <2>3. \A k \in OfficialJobs : k # 0
    BY DEF OfficialJobs, StoreTyped, StoreTypeOK
  <2>. QED BY <1>1, <2>2, <2>3 DEF PlacedAt
<1>5. \A k \in OfficialJobs : k \in Nat \ {0}
  BY DEF OfficialJobs, StoreTyped, StoreTypeOK
<1>6. b \in OfficialJobs /\ m < b /\ m \in Nat /\ b \in Nat
  <2>1. m \in Nat /\ b \in Nat
    BY <1>3, <1>4, <1>5
  <2>2. m < b
    BY <1>3, <2>1
  <2>. QED BY <1>4, <2>1, <2>2
<1>7. j \in Nat /\ j # b
  BY <1>6 DEF OfficialScores, OfficialJobs, StoreTyped, StoreTypeOK
<1>8. CASE b > j
  BY <1>1, <1>4, <1>6, <1>8 DEF Disturbed, Overlap
<1>9. CASE b < j
  <2>1. b \in jobs[j].over \/ jobs[b].dead
    <3>1. b \notin jobs[j].over /\ ~jobs[b].dead => m >= b
      BY <1>1, <1>2, <1>6, <1>9 DEF Recent, RecentAt
    <3>. QED BY <1>6, <3>1
  <2>. QED BY <1>1, <1>6, <2>1 DEF Disturbed, Overlap
<1>. QED BY <1>6, <1>7, <1>8, <1>9

(* So a calm score is whole.                                               *)
LEMMA ScoresAreWhole == ASSUME StoreTyped, ScoresOK PROVE ScoreIsWhole
<1>. SUFFICES ASSUME Serial(OfficialJobs), NEW j \in OfficialScores
              PROVE  LET manifest   == jobs[j].held["manifest"]
                         model      == jobs[j].held["model"]
                         calibrator == jobs[j].held["calibrator"]
                     IN  /\ model.by = manifest.by \/ Disturbed(j, model.by)
                         /\ IF calibrator = None THEN Disturbed(j, model.by)
                            ELSE calibrator.by = manifest.by \/ Disturbed(j, calibrator.by)
  BY DEF ScoreIsWhole
<1>1. ScoreOK(j) /\ ~Unfinished(j) /\ jobs[j].held["model"] # None
  BY FinishedScores
<1>2. jobs[j].held["calibrator"] = None => Disturbed(j, jobs[j].held["model"].by)
  BY <1>1 DEF ScoreOK, Accompanied, Left, Unfinished, NamesIn
<1>. QED BY <1>1, <1>2, OddFilesAreDisturbed

(* Any has nothing older than its manifest.                                *)
LEMMA ScoresAreNoOlder == ASSUME ScoresOK PROVE NothingOlderThanManifest
<1>. SUFFICES ASSUME Serial(OfficialJobs), NEW j \in OfficialScores
              PROVE  /\ jobs[j].held["model"].by >= jobs[j].held["manifest"].by
                     /\ jobs[j].held["calibrator"] # None =>
                          jobs[j].held["calibrator"].by >= jobs[j].held["manifest"].by
  BY DEF NothingOlderThanManifest
<1>1. Attributed(j) /\ jobs[j].held["manifest"] # None /\ jobs[j].held["model"] # None
  BY FinishedScores DEF ScoreOK
<1>. QED BY <1>1 DEF Attributed

(* At first there are no jobs; the official model was shipped or is not    *)
(* there.                                                                  *)
LEMMA OfficialStarts ==
  ASSUME NEW workloads, StoreInit(workloads) PROVE Overlapping /\ OfficialInv /\ ScoresOK
<1>1. jobs = <<>> /\ DOMAIN jobs = {} /\ OfficialJobs = {}
  BY DEF StoreInit, OfficialJobs
<1>2. disk = Deployed \/ disk = CheckedOut
  BY DEF StoreInit
<1>3. \A f \in ScoredFiles :
        /\ <<Official, f>> \in Paths
        /\ <<Official, f>>[1] = Official /\ <<Official, f>>[2] = f
        /\ <<Official, f>> \in {Official} \X {"spec", "snapshot", "search", "manifest"} <=> f = "manifest"
  BY DEF Paths, ScoredFiles, OfficialFiles
<1>4. \/ \A f \in ScoredFiles : Shown(f) = Shipped
      \/ Shown("model") = Absent /\ \A f \in ScoredFiles : Shown(f) \in {Absent, Shipped}
  <2>1. CASE disk = Deployed
    BY <1>3, <2>1 DEF Deployed, Shown
  <2>2. CASE disk = CheckedOut
    BY <1>3, <2>2 DEF CheckedOut, Shown, ScoredFiles
  <2>. QED BY <1>2, <2>1, <2>2
<1>5. /\ \A f \in ScoredFiles : There(f) => Shown(f).by = 0
      /\ There("model") => Shown("calibrator") = Shipped
  BY <1>4 DEF There, Shipped, ScoredFiles
<1>6. OfficialInv
  <2>1. Shipped \in File(Nat)
    BY DEF Shipped, File
  <2>2. Shipped # Absent
    BY <2>1, NothingAssumption
  <2>. QED BY <1>1, <1>5, <2>2 DEF OfficialInv, Authored, Published, Ahead, Stays, Bundled, ScoredFiles
<1>. QED BY <1>1, <1>6 DEF Overlapping, ScoresOK
=============================================================================
