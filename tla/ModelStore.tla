----------------------------- MODULE ModelStore -----------------------------
(***************************************************************************)
(* The files of the models and the jobs that read and write them: the two  *)
(* trainers, the calibrator, registration in the JSON registry, and the    *)
(* scoring of one application, which reads its manifest, model and         *)
(* calibrator again from disk every time.  No file is replaced atomically  *)
(* and nothing is locked: a write empties the file first, and a job may    *)
(* die in the middle.                                                      *)
(***************************************************************************)
EXTENDS Integers, Sequences, FiniteSets, SequencesExt

CONSTANTS
  None,        \* nothing read, no scorer
  Absent,      \* no such file
  Half,        \* a file opened for writing and not yet written
  Down,        \* the worker did not come up
  RunDirs,     \* the run directories, by the second they are named after
  Features,    \* feature rows an explanation is asked for
  MaxEntries,  \* PREDICTION_CACHE_SIZE
  TTL          \* PREDICTION_CACHE_TTL

ASSUME StoreAssumption == TTL \in Nat /\ MaxEntries \in Nat \ {0}

VARIABLES
  work,       \* bounds of this history: [jobs, time], and how it is deployed
  disk,       \* path to Absent, Half or a content
  jobs,       \* the jobs in the order they were started
  now,        \* the clock, in seconds
  mlEnabled,  \* ML_ENABLED
  scorer,     \* whose manifest the worker's MLScorer has, None or Down
  cache       \* PredictionCache._cache, least recently used first

storeVars == <<work, disk, jobs, now, mlEnabled, scorer, cache>>

JobKinds == {"official", "candidate", "calibrate", "register", "score", "explain"}

Official == "official"
Dirs     == {RunDirs[i] : i \in DOMAIN RunDirs}
(* A run directory is named after a second, not like the official model or *)
(* the registry, and no directory is named None.                           *)
ASSUME DirsAssumption ==
  /\ RunDirs \in Seq(Dirs) /\ RunDirs # <<>>
  /\ Dirs \cap {Official, "registry", None} = {}

OfficialFiles == {"model", "calibrator", "spec", "snapshot", "search", "manifest"}
RunFiles == {"model", "search", "manifest", "calibrator", "calibration", "curves", "report"}
Registry == <<"registry", "rows">>
Paths == ({Official} \X OfficialFiles) \cup (Dirs \X RunFiles) \cup {Registry}

Parts == {"manifest", "model", "calibrator", "calibration", "rows"}
NothingHeld == [p \in Parts |-> None]

(* A file names the job that wrote it, and when; the registry has a row    *)
(* per version.                                                            *)
File(times) == [by : Nat, at : times]
Rows(times) == [rows : SUBSET [version : Dirs, created : times, calibrator : Nat \cup {None}]]
Content(name, times) == IF name = "rows" THEN Rows(times) ELSE File(times)

(* What stands for nothing is no content, no number and no other nothing.  *)
ASSUME NothingAssumption ==
  /\ \A v \in {None, Absent, Half} : v \notin File(Nat) \cup Rows(Nat)
  /\ Absent # Half
  /\ None \notin Nat \cup {Absent, Half, Down, Official}

(* A checkout holds the texts of the official model and not its pickles,   *)
(* which a deployment has beside them, and finished candidate runs too.    *)
Shipped == [by |-> 0, at |-> 0]
CheckedOut ==
  [p \in Paths |->
     IF p \in {Official} \X {"spec", "snapshot", "search", "manifest"} THEN Shipped ELSE Absent]
Deployed ==
  [p \in Paths |->
     IF p[1] = Official \/ p[2] \in {"model", "search", "manifest"} THEN Shipped ELSE Absent]

-----------------------------------------------------------------------------
(* What each job does: "need" a file, "read" one that may be missing,      *)
(* "write" it in two steps, or "put" one whose half-written state no reader *)
(* can tell from its absence or reads at all.                              *)

(* MUTANT of TrainOfficialXgbV1: the manifest is written first.            *)
TrainOfficialManifestFirst ==
  <<<<"write", "manifest">>, <<"write", "model">>, <<"write", "calibrator">>,
    <<"put", "spec">>, <<"put", "snapshot">>, <<"put", "search">>>>

(* MUTANT of TrainOfficialXgbV1: the calibrator of the last run is kept.   *)
TrainOfficialKeepsCalibrator ==
  <<<<"write", "model">>, <<"put", "spec">>,
    <<"put", "snapshot">>, <<"put", "search">>, <<"write", "manifest">>>>

(* The training distribution the drift checks compare with.                *)
WriteOfficialReferenceSnapshot == <<"put", "snapshot">>

TrainOfficialXgbV1 ==
  <<<<"write", "model">>, <<"write", "calibrator">>, <<"put", "spec">>,
    WriteOfficialReferenceSnapshot, <<"put", "search">>, <<"write", "manifest">>>>

RunTraining == <<<<"write", "model">>, <<"put", "search">>, <<"write", "manifest">>>>

CalibrateManifest ==
  <<<<"need", "manifest">>, <<"need", "model">>, <<"write", "calibrator">>,
    <<"put", "curves">>, <<"write", "calibration">>, <<"put", "report">>>>

LoadOptionalCalibrationManifest == <<"read", "calibration">>

RegisterTrainingRun ==
  <<<<"need", "manifest">>, LoadOptionalCalibrationManifest, <<"read", "rows">>, <<"write", "rows">>>>

ExplainFeatureRow == <<<<"need", "manifest">>, <<"need", "model">>, <<"read", "calibrator">>>>

CachedExplain == <<<<"get", "cache">>>> \o ExplainFeatureRow \o <<<<"set", "cache">>>>

Instructions == {"need", "read", "write", "fill", "put", "get", "set"}
Names == OfficialFiles \cup RunFiles \cup {"rows", "cache"}

PathOf(dir, name) == IF name = "rows" THEN Registry ELSE <<dir, name>>

-----------------------------------------------------------------------------
(* The registry                                                            *)

(* MUTANT of UpsertRecord: the file holds the last registration only.      *)
UpsertLast(rows, row) == {row}

UpsertRecord(rows, row) == {r \in rows : r.version # row.version} \cup {row}

(* The records that a registry file holds.                                 *)
RowsIn(content) == IF content \in {Absent, None} THEN {} ELSE content.rows

(* By the time of creation, then by version.                               *)
Latest(rows) ==
  CHOOSE r \in rows : \A s \in rows :
    \/ r.created > s.created
    \/ /\ r.created = s.created
       /\ \E i, k \in DOMAIN RunDirs : RunDirs[i] = r.version /\ RunDirs[k] = s.version /\ i >= k

(* Of the calibration metrics: which calibrator they are of.               *)
ExtractCalibrationMetrics(calibration) ==
  IF calibration = None THEN None ELSE calibration.by

RecordOf(job) ==
  [version |-> job.dir, created |-> job.held["manifest"].at,
   calibrator |-> ExtractCalibrationMetrics(job.held["calibration"])]

-----------------------------------------------------------------------------
(* Jobs                                                                    *)

Unfinished(j) == jobs[j].todo # <<>>
Running(j) == Unfinished(j) /\ ~jobs[j].dead

(* A job remembers which others were running when it started.              *)
Launch(kind, dir, todo, feature) ==
  /\ Cardinality({j \in DOMAIN jobs : jobs[j].kind = kind}) < work.jobs[kind]
  /\ jobs' = Append(jobs, [kind |-> kind, dir |-> dir, todo |-> todo, held |-> NothingHeld,
                           over |-> {j \in DOMAIN jobs : Running(j)},
                           dead |-> FALSE, failed |-> FALSE, feature |-> feature, hitAge |-> None])
  /\ UNCHANGED <<work, disk, now, mlEnabled, scorer, cache>>

HasManifest(dir) == disk[<<dir, "manifest">>] # Absent

(* The manifest whose directory sorts last.                                *)
FindLatestManifest ==
  RunDirs[CHOOSE i \in DOMAIN RunDirs :
            HasManifest(RunDirs[i]) /\ \A k \in DOMAIN RunDirs : HasManifest(RunDirs[k]) => k <= i]
AnyManifest == \E dir \in Dirs : HasManifest(dir)

StartOfficial == Launch("official", Official, TrainOfficialXgbV1, None)

(* Two runs of one second and label share their directory.                 *)
StartTraining == now + 1 \in DOMAIN RunDirs /\ Launch("candidate", RunDirs[now + 1], RunTraining, None)

StartCalibration == AnyManifest /\ Launch("calibrate", FindLatestManifest, CalibrateManifest, None)

StartRegistration ==
  \E dir \in Dirs : HasManifest(dir) /\ Launch("register", dir, RegisterTrainingRun, None)

StartScore == scorer \notin {None, Down} /\ Launch("score", scorer, ExplainFeatureRow, None)

StartExplain ==
  \E f \in Features : HasManifest(Official) /\ Launch("explain", Official, CachedExplain, f)

Instr(j) == Head(jobs[j].todo)
PathFor(j) == PathOf(jobs[j].dir, Instr(j)[2])
Done(j) == [jobs EXCEPT ![j].todo = Tail(@)]

(* Nothing is written by a job that has failed, and all reads come first.  *)
ReadFile(j) ==
  /\ Running(j) /\ Instr(j)[1] \in {"need", "read"}
  /\ LET found == disk[PathFor(j)]
         raises == \/ found = Half
                   \/ found = Absent /\ Instr(j)[1] = "need"
     IN  jobs' = IF raises THEN [jobs EXCEPT ![j].todo = <<>>, ![j].failed = TRUE, ![j].held = NothingHeld]
                 ELSE [Done(j) EXCEPT ![j].held[Instr(j)[2]] =
                         IF found \in {Absent, Half} THEN None ELSE found]
  /\ UNCHANGED <<work, disk, now, mlEnabled, scorer, cache>>

OpenFile(j) ==
  /\ Running(j) /\ Instr(j)[1] = "write"
  /\ disk' = [disk EXCEPT ![PathFor(j)] = Half]
  /\ jobs' = [jobs EXCEPT ![j].todo = <<<<"fill", Instr(j)[2]>>>> \o Tail(@)]
  /\ UNCHANGED <<work, now, mlEnabled, scorer, cache>>

CloseFile(j) ==
  /\ Running(j) /\ Instr(j)[1] \in {"fill", "put"}
  /\ disk' = [disk EXCEPT ![PathFor(j)] =
       IF Instr(j)[2] = "rows"
         THEN [rows |-> UpsertRecord(RowsIn(jobs[j].held["rows"]), RecordOf(jobs[j]))]
         ELSE [by |-> j, at |-> now]]
  /\ jobs' = [Done(j) EXCEPT ![j].held = IF Len(jobs[j].todo) = 1 THEN NothingHeld ELSE @]
  /\ UNCHANGED <<work, now, mlEnabled, scorer, cache>>

(* Any job of the command line can be killed.                              *)
Die(j) ==
  /\ Running(j) /\ jobs[j].kind \in {"official", "candidate", "calibrate", "register"}
  /\ jobs' = [jobs EXCEPT ![j].dead = TRUE, ![j].held = NothingHeld]
  /\ UNCHANGED <<work, disk, now, mlEnabled, scorer, cache>>

Tick ==
  /\ now < work.time /\ now' = now + 1
  /\ UNCHANGED <<work, disk, jobs, mlEnabled, scorer, cache>>

-----------------------------------------------------------------------------
(* The prediction cache: [feature, stored, made, held], made being when    *)
(* the explanation was computed.  The key names the default version, not   *)
(* the model's.                                                            *)

Entries(f)  == {i \in DOMAIN cache : cache[i].feature = f}
Position(f) == CHOOSE i \in DOMAIN cache : cache[i].feature = f
EntryOf(f)  == cache[Position(f)]
Without(f)  == IF Entries(f) = {} THEN cache ELSE RemoveAt(cache, Position(f))

(* MUTANT of Touched: a hit renews the entry.                              *)
TouchedRenews(f) == Append(Without(f), [EntryOf(f) EXCEPT !.stored = now])

Touched(f) == Append(Without(f), EntryOf(f))

(* MUTANT of Trimmed: one entry too many stays.                            *)
TrimmedLate(entries) ==
  IF Len(entries) > MaxEntries + 1 THEN Tail(entries) ELSE entries

(* One entry too many at most, as each is added by itself.                 *)
Trimmed(entries) == IF Len(entries) > MaxEntries THEN Tail(entries) ELSE entries

CacheGet(j) ==
  /\ Running(j) /\ Instr(j)[1] = "get"
  /\ LET f   == jobs[j].feature
         hit == Entries(f) # {} /\ now - EntryOf(f).stored <= TTL
     IN  /\ cache' = IF hit THEN Touched(f) ELSE Without(f)
         /\ jobs' = IF hit THEN [jobs EXCEPT ![j].todo = <<>>, ![j].held = EntryOf(f).held,
                                             ![j].hitAge = now - EntryOf(f).made]
                    ELSE Done(j)
  /\ UNCHANGED <<work, disk, now, mlEnabled, scorer>>

CacheSet(j) ==
  /\ Running(j) /\ Instr(j)[1] = "set"
  /\ LET f == jobs[j].feature
     IN  cache' = Trimmed(Append(Without(f), [feature |-> f, stored |-> now, made |-> now,
                                              held |-> jobs[j].held]))
  /\ jobs' = Done(j)
  /\ UNCHANGED <<work, disk, now, mlEnabled, scorer>>

-----------------------------------------------------------------------------
(* The worker's scorer, resolved once per process                          *)

FromManifest(dir) ==
  IF disk[<<dir, "manifest">>] \in {Absent, Half} THEN Down ELSE dir

(* The official model; else, unless ML is on and the official pickle is    *)
(* missing, the newest registered run; else, unless this is the preload,   *)
(* the newest run there is.                                                *)
LoadScorerFromEnv ==
  LET registered == disk[Registry]
  IN  IF disk[<<Official, "manifest">>] = Half THEN Down
      ELSE IF HasManifest(Official) /\ disk[<<Official, "model">>] # Absent THEN FromManifest(Official)
      ELSE IF HasManifest(Official) /\ mlEnabled THEN None
      ELSE IF registered = Half THEN Down
      ELSE IF RowsIn(registered) # {} THEN FromManifest(Latest(RowsIn(registered)).version)
      ELSE IF mlEnabled \/ ~AnyManifest THEN None ELSE FromManifest(FindLatestManifest)

RestartWorker ==
  /\ work.jobs["score"] > 0
  /\ scorer' = LoadScorerFromEnv
  /\ UNCHANGED <<work, disk, jobs, now, mlEnabled, cache>>

-----------------------------------------------------------------------------
StoreInit(workloads) ==
  /\ work \in workloads
  /\ disk = IF work.deployed THEN Deployed ELSE CheckedOut
  /\ jobs = <<>>
  /\ now = 0
  /\ mlEnabled \in work.ml
  /\ scorer = LoadScorerFromEnv
  /\ cache = <<>>

StoreNext ==
  \/ StartOfficial \/ StartTraining \/ StartCalibration \/ StartRegistration
  \/ StartScore \/ StartExplain
  \/ \E j \in DOMAIN jobs : \/ ReadFile(j) \/ OpenFile(j) \/ CloseFile(j) \/ Die(j)
                            \/ CacheGet(j) \/ CacheSet(j)
  \/ Tick \/ RestartWorker

-----------------------------------------------------------------------------
(* Properties                                                              *)

Overlap(j, k) == j \in jobs[k].over \/ k \in jobs[j].over
Finished(j) == ~Unfinished(j) /\ ~jobs[j].failed
OfficialJobs == {j \in DOMAIN jobs : jobs[j].kind = "official"}
Serial(s) == \A j, k \in s : j # k => ~Overlap(j, k)
OfficialScores ==
  {j \in DOMAIN jobs : jobs[j].kind \in {"score", "explain"} /\ jobs[j].dir = Official
                         /\ Finished(j) /\ jobs[j].hitAge = None}

(* The types of the files, the jobs and the cache: what is held came from  *)
(* the disk, every job has a path for what it reads and writes, and the    *)
(* cache has one entry of a feature row.                                   *)
Clock == 0..work.time
Held == {h \in [Parts -> {None} \cup File(Clock) \cup Rows(Clock)] :
           \A n \in Parts : h[n] \in {None} \cup Content(n, Clock)}
Job == [kind : JobKinds, dir : Dirs \cup {Official}, todo : Seq(Instructions \X Names),
        held : Held, over : SUBSET Nat, dead : BOOLEAN, failed : BOOLEAN,
        feature : Features \cup {None}, hitAge : Nat \cup {None}]
CacheEntry == [feature : Features, stored : 0..now, made : 0..now, held : Held]

StoreTypeOK ==
  /\ work.time \in Nat
  /\ now \in Clock
  /\ DOMAIN disk = Paths
  /\ \A p \in Paths \ {Registry} :
       disk[p] \in {Absent, Half} \cup [by : 0..Len(jobs), at : 0..now]
  /\ disk[Registry] \in {Absent, Half} \cup Rows(Clock)
  /\ scorer \in {None, Down, Official} \cup Dirs
  /\ jobs \in Seq(Job)
  /\ cache \in Seq(CacheEntry) /\ Len(cache) <= MaxEntries
  /\ \A i, k \in DOMAIN cache : cache[i].feature = cache[k].feature => i = k

(* What was found of training k was found beside it, or after it died.     *)
Disturbed(j, k) == k \in OfficialJobs /\ (Overlap(j, k) \/ jobs[k].dead)

(* While trainings follow one another, an application is scored by the     *)
(* model and the calibrator of the training its manifest names, unless the *)
(* one that wrote the odd file was under way beside the score or died: a   *)
(* calm score is whole, also once a training that died was repeated.       *)
ScoreIsWhole ==
  Serial(OfficialJobs) =>
    \A j \in OfficialScores :
      LET manifest   == jobs[j].held["manifest"]
          model      == jobs[j].held["model"]
          calibrator == jobs[j].held["calibrator"]
      IN  /\ model.by = manifest.by \/ Disturbed(j, model.by)
          /\ IF calibrator = None THEN Disturbed(j, model.by)
             ELSE calibrator.by = manifest.by \/ Disturbed(j, calibrator.by)

(* The manifest is published last and read first: even a score taken in    *)
(* the middle of a training, or after one that died, never runs a model or *)
(* a calibrator older than the manifest it is attributed to.               *)
NothingOlderThanManifest ==
  Serial(OfficialJobs) =>
    \A j \in OfficialScores :
      /\ jobs[j].held["model"].by >= jobs[j].held["manifest"].by
      /\ jobs[j].held["calibrator"] # None =>
           jobs[j].held["calibrator"].by >= jobs[j].held["manifest"].by

(* A run that was registered is in the registry, unless another            *)
(* registration that overlapped its own was completed too: one that fails, *)
(* dies or comes before or after takes no row away.  While the file is     *)
(* half written a registration is writing it, or died doing so.            *)
RegistrationsSurvive ==
  LET Registrations == {j \in DOMAIN jobs : jobs[j].kind = "register"}
  IN  IF disk[Registry] = Half
        THEN \E k \in Registrations : Unfinished(k) /\ Instr(k)[1] = "fill"
        ELSE \A j \in Registrations : Finished(j) =>
               \/ \E r \in RowsIn(disk[Registry]) : r.version = jobs[j].dir
               \/ \E k \in Registrations \ {j} : Finished(k) /\ Overlap(j, k)

(* However often it is asked for, an explanation is served from the cache  *)
(* for no longer than its time to live: a retrained model takes over then. *)
HitsExpire == \A j \in DOMAIN jobs : jobs[j].hitAge # None => jobs[j].hitAge <= TTL
=============================================================================
