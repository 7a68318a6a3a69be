--------------------------- MODULE ModelOps_proofs ---------------------------
(***************************************************************************)
(* Theorems about the model files, their jobs and the loader that reads    *)
(* them meanwhile: for any numbers of jobs, loading threads, callers and   *)
(* reloads.  What the jobs' own steps preserve is in the lemmas of         *)
(* ModelStore_proofs and ModelScores_proofs.                               *)
(***************************************************************************)
EXTENDS ModelOps, ModelScores_proofs

-----------------------------------------------------------------------------
(* The jobs and their files                                                *)

(* What every step of the store preserves.                                 *)
StoreInd ==
  /\ StoreTyped /\ Overlapping
  /\ Registered /\ HalfIsWritten
  /\ OfficialInv /\ ScoresOK
  /\ Dated /\ HitsExpire

(* At first there are no jobs and nothing is cached.                       *)
LEMMA StoreStarts == ASSUME Init PROVE StoreInd
<1>1. StoreInit(Workloads)
  BY DEF Init
<1>2. DOMAIN jobs = {} /\ DOMAIN cache = {}
  BY <1>1 DEF StoreInit
<1>3. StoreTyped
  BY <1>1, StoreStartsTyped, WorkloadsAssumption
<1>4. Overlapping /\ OfficialInv /\ ScoresOK
  BY <1>1, OfficialStarts
<1>5. Registered /\ Dated /\ HitsExpire
  BY <1>2 DEF Registered, Dated, HitsExpire
<1>6. HalfIsWritten
  <2>1. disk = Deployed \/ disk = CheckedOut
    BY <1>1 DEF StoreInit
  <2>2. Registry \in Paths /\ Registry[1] # Official /\ Registry[2] = "rows"
        /\ Registry \notin {Official} \X {"spec", "snapshot", "search", "manifest"}
    BY DEF Paths, Registry, Official
  <2>3. disk[Registry] = Absent
    BY <2>1, <2>2 DEF Deployed, CheckedOut
  <2>. QED BY <2>3, NothingAssumption DEF HalfIsWritten
<1>. QED BY <1>3, <1>4, <1>5, <1>6 DEF StoreInd

(* The loader writes no file and starts no job.                            *)
LEMMA StoreUntouched == ASSUME StoreInd, UNCHANGED storeVars PROVE StoreInd'
<1>1. /\ work' = work /\ disk' = disk /\ jobs' = jobs /\ now' = now
      /\ scorer' = scorer /\ cache' = cache
  BY DEF storeVars
<1>2. StoreTypeOK'
  BY <1>1 DEF StoreInd, StoreTyped, StoreTypeOK, Clock, Rows, Job, Held, File, Content, CacheEntry
<1>3. ASSUME NEW j \in DOMAIN jobs' PROVE JobOK(jobs[j])'
  BY <1>1 DEF StoreInd, StoreTyped, JobOK, Prepared, Clock
<1>4. Overlapping'
  BY <1>1 DEF StoreInd, Overlapping, Running, Unfinished
<1>5. Registered'
  BY <1>1 DEF StoreInd, Registered, Lasting, Alone, Overlap, Finished, Unfinished, AboutToWrite, Running
<1>6. OfficialInv'
  BY <1>1 DEF StoreInd, OfficialInv, Authored, Published, Stays, Bundled, Ahead, Serial, Overlap,
              OfficialJobs, There, Shown, Left, Unfinished
<1>7. ScoresOK'
  BY <1>1 DEF StoreInd, ScoresOK, Scoring, ScoreOK, ReadSoFar, Attributed, Placed, PlacedAt,
              Recent, RecentAt, Accompanied, Disturbed, Serial, Overlap, OfficialJobs, Shown, Left,
              Unfinished
<1>9. HalfIsWritten'
  BY <1>1 DEF StoreInd, HalfIsWritten, Filling, Unfinished, Instr
<1>8. Dated' /\ HitsExpire'
  BY <1>1 DEF StoreInd, Dated, HitsExpire
<1>. QED BY <1>2, <1>3, <1>4, <1>5, <1>6, <1>7, <1>8, <1>9 DEF StoreInd, StoreTyped

(* Jobs, each by its own steps, in any order.                              *)
LEMMA StoreKept == ASSUME StoreInd, [Next]_vars PROVE StoreInd'
<1>1. CASE StoreNext
  BY <1>1, StoreTypesKept, OverlappingKept, RegisteredKept, HalfIsWrittenKept, OfficialKept, ScoresKept, DatedKept,
     HitsExpireKept DEF StoreInd
<1>2. CASE UNCHANGED storeVars
  BY <1>2, StoreUntouched
<1>. QED BY <1>1, <1>2 DEF Next, vars

(* The store's invariant, with a loader beside it.                         *)
LEMMA StoreInvariant == Spec => []StoreInd
<1>1. Init => StoreInd
  BY StoreStarts
<1>2. StoreInd /\ [Next]_vars => StoreInd'
  BY StoreKept
<1>. QED BY <1>1, <1>2, PTL DEF Spec

(* However many trainings and scores there are: while trainings follow one *)
(* another, a score is of one training, or what is odd about it is of a    *)
(* training that was under way beside it or died.                          *)
THEOREM ScoreIsWholeHolds == Spec => []ScoreIsWhole
<1>1. StoreInd => ScoreIsWhole
  BY ScoresAreWhole DEF StoreInd
<1>. QED BY <1>1, StoreInvariant, PTL

(* Even in the middle of a training, or after one that died, a score has   *)
(* no model or calibrator older than its manifest.                         *)
THEOREM NothingOlderThanManifestHolds == Spec => []NothingOlderThanManifest
<1>1. StoreInd => NothingOlderThanManifest
  BY ScoresAreNoOlder DEF StoreInd
<1>. QED BY <1>1, StoreInvariant, PTL

(* A completed registration is lost only to another completed one that     *)
(* overlapped it, and a half-written registry has its writer.              *)
THEOREM RegistrationsSurviveHolds == Spec => []RegistrationsSurvive
<1>. DEFINE Registrations == {j \in DOMAIN jobs : jobs[j].kind = "register"}
<1>1. ASSUME Registered, HalfIsWritten PROVE RegistrationsSurvive
  <2>1. CASE disk[Registry] = Half
    BY <1>1, <2>1 DEF RegistrationsSurvive, HalfIsWritten, Filling
  <2>2. CASE disk[Registry] # Half
    <3>1. ASSUME NEW j \in Registrations, Finished(j),
                 \A k \in Registrations \ {j} : ~(Finished(k) /\ Overlap(j, k))
          PROVE  \E r \in RowsIn(disk[Registry]) : r.version = jobs[j].dir
      <4>1. Lasting(j)
        BY <3>1 DEF Lasting, Alone
      <4>. QED BY <1>1, <2>2, <4>1 DEF Registered, HasRow
    <3>. QED BY <2>2, <3>1 DEF RegistrationsSurvive
  <2>. QED BY <2>1, <2>2
<1>. QED BY <1>1, StoreInvariant, PTL DEF StoreInd

(* However often it is hit, a cached explanation is served no longer than  *)
(* its time to live after it was computed.                                 *)
THEOREM HitsExpireHolds == Spec => []HitsExpire
<1>1. StoreInd => HitsExpire
  BY DEF StoreInd
<1>. QED BY <1>1, StoreInvariant, PTL

-----------------------------------------------------------------------------
(* The loader                                                              *)

Loading == L!Reading \cup {"begin"}

(* The fields the invariants speak of.                                     *)
LoaderTyped ==
  /\ loader = [model |-> loader.model, error |-> loader.error, ready |-> loader.ready,
               gen |-> loader.gen, inProgress |-> loader.inProgress,
               reloading |-> loader.reloading, raced |-> loader.raced]
  /\ loader.gen \in Nat
  /\ DOMAIN threads = Loaders
  /\ \A l \in Loaders :
       /\ threads[l] = [pc |-> threads[l].pc, gen |-> threads[l].gen, model |-> threads[l].model]
       /\ threads[l].gen \in Nat

(* In progress is set while a thread loads, and one thread loads.          *)
Exclusive ==
  /\ \A l \in Loaders : threads[l].pc \in Loading => loader.inProgress
  /\ L!OneLoadAtATime

(* What a thread is about to publish was read after the reload it began    *)
(* under.                                                                  *)
Current ==
  /\ \A l \in Loaders : threads[l].pc = "publish" =>
       /\ threads[l].model.read \in Nat
       /\ threads[l].gen <= threads[l].model.read
       /\ threads[l].model.read <= loader.gen
  /\ \A l \in Loaders : threads[l].gen <= loader.gen
  /\ L!NoModelFromBeforeReload

LoaderInd == LoaderTyped /\ Exclusive /\ Current

(* At first one thread may be loading, or none, and nothing is loaded.     *)
LEMMA LoaderStarts == ASSUME L!LoaderInit PROVE LoaderInd
<1>. PICK preload \in BOOLEAN, first \in Loaders :
       /\ loader = [model |-> None, error |-> FALSE, ready |-> FALSE, gen |-> 0,
                    inProgress |-> preload, reloading |-> FALSE, raced |-> FALSE]
       /\ threads = [l \in Loaders |->
                       IF preload /\ l = first THEN [L!Off EXCEPT !.pc = "begin"] ELSE L!Off]
  BY DEF L!LoaderInit
<1>1. \A l \in Loaders : l # first => threads[l] = [pc |-> "off", gen |-> 0, model |-> None]
  BY DEF L!Off
<1>2. \/ threads[first] = [pc |-> "off", gen |-> 0, model |-> None]
      \/ threads[first] = [pc |-> "begin", gen |-> 0, model |-> None] /\ preload
  <2>1. CASE preload = TRUE
    BY <2>1 DEF L!Off
  <2>2. CASE preload = FALSE
    BY <2>2 DEF L!Off
  <2>. QED BY <2>1, <2>2
<1>3. loader.gen = 0 /\ loader.model = None /\ loader.inProgress = preload
  OBVIOUS
<1>4. LoaderTyped
  BY <1>1, <1>2, <1>3 DEF LoaderTyped
<1>5. Exclusive
  BY <1>1, <1>2, <1>3 DEF Exclusive, Loading, L!Reading, L!OneLoadAtATime
<1>6. Current
  BY <1>1, <1>2, <1>3 DEF Current, L!NoModelFromBeforeReload
<1>. QED BY <1>4, <1>5, <1>6 DEF LoaderInd

(* Callers touch the loader only to start a thread, and only when none is  *)
(* in progress.                                                            *)
LEMMA CallersKeep ==
  ASSUME LoaderInd, NEW c \in Callers,
         L!EnsureLoading(c) \/ L!StartLoader(c) \/ L!Wait(c) \/ L!GetModel(c)
  PROVE  LoaderInd'
<1>1. CASE UNCHANGED <<loader, threads>>
  BY <1>1 DEF LoaderInd, LoaderTyped, Exclusive, Current, L!OneLoadAtATime, L!NoModelFromBeforeReload
<1>2. CASE L!StartLoader(c) /\ ~loader.inProgress
  <2>. PICK l \in Loaders :
         /\ threads' = [threads EXCEPT ![l] = [L!Off EXCEPT !.pc = "begin"]]
         /\ loader' = [loader EXCEPT !.inProgress = TRUE]
    BY <1>2 DEF L!StartLoader
  <2>. USE DEF LoaderInd
  <2>1. /\ threads'[l] = [pc |-> "begin", gen |-> 0, model |-> None]
        /\ \A m \in Loaders : m # l => threads'[m] = threads[m]
        /\ loader'.inProgress /\ loader'.gen = loader.gen /\ loader'.model = loader.model
    BY DEF LoaderTyped, L!Off
  <2>2. LoaderTyped'
    BY <2>1 DEF LoaderTyped, L!Off
  <2>3. Exclusive'
    BY <1>2, <2>1 DEF Exclusive, Loading, L!Reading, L!OneLoadAtATime
  <2>4. Current'
    BY <2>1 DEF Current, LoaderTyped, L!NoModelFromBeforeReload
  <2>. QED BY <2>2, <2>3, <2>4
<1>. QED BY <1>1, <1>2 DEF L!EnsureLoading, L!StartLoader, L!Wait, L!GetModel

(* A thread's own steps: only Begin takes a generation, only ReadArtifact  *)
(* a model, and only Publish hands it over.                                *)
LEMMA ThreadsKeep ==
  ASSUME LoaderInd, NEW l \in Loaders,
         L!Begin(l) \/ L!ReadManifest(l) \/ L!ReadArtifact(l) \/ L!Publish(l) \/ L!Signal(l)
  PROVE  LoaderInd'
<1>. USE DEF LoaderInd
<1>1. CASE L!Begin(l)
  <2>1. /\ threads'[l] = [pc |-> "manifest", gen |-> loader.gen, model |-> None]
        /\ \A m \in Loaders : m # l => threads'[m] = threads[m]
        /\ loader' = loader
    BY <1>1 DEF L!Begin, LoaderTyped
  <2>2. LoaderTyped'
    BY <1>1, <2>1 DEF L!Begin, LoaderTyped
  <2>3. Exclusive'
    BY <1>1, <2>1 DEF L!Begin, Exclusive, Loading, L!Reading, L!OneLoadAtATime
  <2>4. Current'
    BY <2>1 DEF Current, LoaderTyped, L!NoModelFromBeforeReload
  <2>. QED BY <2>2, <2>3, <2>4
<1>2. CASE L!ReadManifest(l)
  <2>1. /\ threads'[l].pc \in {"artifact", "fail"}
        /\ threads'[l] = [pc |-> threads'[l].pc, gen |-> threads[l].gen, model |-> threads[l].model]
        /\ \A m \in Loaders : m # l => threads'[m] = threads[m]
        /\ loader' = loader
    BY <1>2 DEF L!ReadManifest, LoaderTyped
  <2>2. LoaderTyped'
    BY <1>2, <2>1 DEF L!ReadManifest, LoaderTyped
  <2>3. Exclusive'
    BY <1>2, <2>1 DEF L!ReadManifest, Exclusive, Loading, L!Reading, L!OneLoadAtATime
  <2>4. Current'
    BY <2>1 DEF Current, LoaderTyped, L!NoModelFromBeforeReload
  <2>. QED BY <2>2, <2>3, <2>4
<1>3. CASE L!ReadArtifact(l)
  <2>1. /\ threads'[l].pc \in {"publish", "fail"}
        /\ threads'[l] = [pc |-> threads'[l].pc, gen |-> threads[l].gen, model |-> threads'[l].model]
        /\ threads'[l].pc = "publish" => threads'[l].model.read = loader.gen
        /\ \A m \in Loaders : m # l => threads'[m] = threads[m]
        /\ loader' = loader
    <3>0. loader' = loader
      BY <1>3 DEF L!ReadArtifact
    <3>1. CASE L!Readable(disk[<<Official, "model">>])
      <4>1. threads' = [threads EXCEPT ![l].pc = "publish",
                          ![l].model = [by |-> disk[<<Official, "model">>].by, read |-> loader.gen]]
        BY <1>3, <3>1 DEF L!ReadArtifact
      <4>2. threads[l] = [pc |-> threads[l].pc, gen |-> threads[l].gen, model |-> threads[l].model]
        BY DEF LoaderTyped
      <4>3. threads'[l] = [pc |-> "publish", gen |-> threads[l].gen,
                           model |-> [by |-> disk[<<Official, "model">>].by, read |-> loader.gen]]
        BY <4>1, <4>2 DEF LoaderTyped
      <4>4. \A m \in Loaders : m # l => threads'[m] = threads[m]
        BY <4>1 DEF LoaderTyped
      <4>. QED BY <3>0, <4>3, <4>4
    <3>2. CASE ~L!Readable(disk[<<Official, "model">>])
      <4>1. threads' = [threads EXCEPT ![l].pc = "fail", ![l].model = None]
        BY <1>3, <3>2 DEF L!ReadArtifact
      <4>2. threads[l] = [pc |-> threads[l].pc, gen |-> threads[l].gen, model |-> threads[l].model]
        BY DEF LoaderTyped
      <4>3. threads'[l] = [pc |-> "fail", gen |-> threads[l].gen, model |-> None]
        BY <4>1, <4>2 DEF LoaderTyped
      <4>4. \A m \in Loaders : m # l => threads'[m] = threads[m]
        BY <4>1 DEF LoaderTyped
      <4>. QED BY <3>0, <4>3, <4>4
    <3>. QED BY <3>1, <3>2
  <2>2. LoaderTyped'
    BY <1>3, <2>1 DEF L!ReadArtifact, LoaderTyped
  <2>3. Exclusive'
    <3>1. threads[l].pc = "artifact"
      BY <1>3 DEF L!ReadArtifact
    <3>. QED BY <2>1, <3>1 DEF Exclusive, Loading, L!Reading, L!OneLoadAtATime
  <2>4. Current'
    BY <2>1 DEF Current, LoaderTyped, L!NoModelFromBeforeReload
  <2>. QED BY <2>2, <2>3, <2>4
<1>4. CASE L!Publish(l) /\ threads[l].gen # loader.gen
  <2>1. /\ threads'[l] = [pc |-> "begin", gen |-> threads[l].gen, model |-> threads[l].model]
        /\ \A m \in Loaders : m # l => threads'[m] = threads[m]
        /\ loader' = loader
    BY <1>4 DEF L!Publish, LoaderTyped
  <2>2. LoaderTyped'
    BY <1>4, <2>1 DEF L!Publish, LoaderTyped
  <2>3. Exclusive'
    BY <1>4, <2>1 DEF L!Publish, Exclusive, Loading, L!Reading, L!OneLoadAtATime
  <2>4. Current'
    BY <2>1 DEF Current, LoaderTyped, L!NoModelFromBeforeReload
  <2>. QED BY <2>2, <2>3, <2>4
<1>5. CASE L!Publish(l) /\ threads[l].gen = loader.gen
  <2>1. /\ threads'[l] = [pc |-> "signal", gen |-> threads[l].gen, model |-> threads[l].model]
        /\ \A m \in Loaders : m # l => threads'[m] = threads[m]
        /\ loader'.gen = loader.gen
        /\ loader'.model = IF threads[l].pc = "publish" THEN threads[l].model ELSE loader.model
    BY <1>5 DEF L!Publish, LoaderTyped
  <2>2. LoaderTyped'
    BY <1>5, <2>1 DEF L!Publish, LoaderTyped
  <2>3. \A m \in Loaders : threads'[m].pc \notin Loading
    BY <1>5, <2>1 DEF L!Publish, Exclusive, Loading, L!Reading, L!OneLoadAtATime
  <2>4. Exclusive'
    BY <2>3 DEF Exclusive, L!OneLoadAtATime, Loading, L!Reading
  <2>5. Current'
    BY <1>5, <2>1 DEF Current, LoaderTyped, L!NoModelFromBeforeReload
  <2>. QED BY <2>2, <2>4, <2>5
<1>6. CASE L!Signal(l)
  <2>1. /\ threads'[l] = [pc |-> "off", gen |-> 0, model |-> None]
        /\ \A m \in Loaders : m # l => threads'[m] = threads[m]
        /\ loader'.gen = loader.gen /\ loader'.model = loader.model
        /\ loader'.inProgress = loader.inProgress
    BY <1>6 DEF L!Signal, LoaderTyped, L!Off
  <2>2. LoaderTyped'
    BY <1>6, <2>1 DEF L!Signal, LoaderTyped, L!Off
  <2>3. Exclusive'
    BY <2>1 DEF Exclusive, Loading, L!Reading, L!OneLoadAtATime
  <2>4. Current'
    BY <2>1 DEF Current, LoaderTyped, L!NoModelFromBeforeReload
  <2>. QED BY <2>2, <2>3, <2>4
<1>. QED BY <1>1, <1>2, <1>3, <1>4, <1>5, <1>6

(* A reload makes every reading so far one of an earlier generation, and   *)
(* drops the model.                                                        *)
LEMMA ReloadKeeps ==
  ASSUME LoaderInd, L!Reload \/ L!ClearReady PROVE LoaderInd'
<1>1. /\ threads' = threads
      /\ loader'.inProgress = loader.inProgress
      /\ \/ loader'.gen = loader.gen /\ loader'.model = loader.model
         \/ loader'.gen = loader.gen + 1 /\ loader'.model = None
  BY DEF L!Reload, L!ClearReady, LoaderInd, LoaderTyped
<1>2. LoaderTyped'
  <2>1. CASE L!Reload
    <3>1. \E r : loader' = [loader EXCEPT !.gen = @ + 1, !.model = None, !.error = FALSE,
                                          !.reloading = TRUE, !.raced = r]
      BY <2>1, Zenon DEF L!Reload
    <3>2. PICK r : loader' = [loader EXCEPT !.gen = @ + 1, !.model = None, !.error = FALSE,
                                            !.reloading = TRUE, !.raced = r]
      BY <3>1
    <3>3. loader = [model |-> loader.model, error |-> loader.error, ready |-> loader.ready,
                    gen |-> loader.gen, inProgress |-> loader.inProgress,
                    reloading |-> loader.reloading, raced |-> loader.raced]
      BY DEF LoaderInd, LoaderTyped
    <3>4. loader' = [model |-> None, error |-> FALSE, ready |-> loader.ready,
                     gen |-> loader.gen + 1, inProgress |-> loader.inProgress,
                     reloading |-> TRUE, raced |-> r]
      BY <3>2, <3>3
    <3>. QED BY <1>1, <3>4 DEF LoaderInd, LoaderTyped
  <2>2. CASE L!ClearReady
    BY <1>1, <2>2 DEF L!ClearReady, LoaderInd, LoaderTyped
  <2>. QED BY <2>1, <2>2
<1>3. Exclusive'
  BY <1>1 DEF LoaderInd, Exclusive, Loading, L!Reading, L!OneLoadAtATime
<1>4. Current'
  BY <1>1 DEF LoaderInd, LoaderTyped, Current, L!NoModelFromBeforeReload
<1>. QED BY <1>2, <1>3, <1>4 DEF LoaderInd

(* The jobs of the store leave the loader alone: its files may change at   *)
(* any time.                                                               *)
LEMMA LoaderKept == ASSUME LoaderInd, [Next]_vars PROVE LoaderInd'
<1>1. CASE UNCHANGED <<loader, threads, callers>>
  BY <1>1 DEF LoaderInd, LoaderTyped, Exclusive, Current, L!OneLoadAtATime, L!NoModelFromBeforeReload
<1>2. CASE L!LoaderNext
  BY <1>2, CallersKeep, ThreadsKeep, ReloadKeeps DEF L!LoaderNext
<1>. QED BY <1>1, <1>2 DEF Next, vars

(* The loader's invariant, with any jobs beside it.                        *)
LEMMA LoaderInvariant == Spec => []LoaderInd
<1>1. Init => LoaderInd
  BY LoaderStarts DEF Init
<1>2. LoaderInd /\ [Next]_vars => LoaderInd'
  BY LoaderKept
<1>. QED BY <1>1, <1>2, PTL DEF Spec

(* However many callers find the loader idle at once, one thread loads.    *)
THEOREM OneLoadAtATimeHolds == Spec => []OneLoadAtATime
<1>1. LoaderInd => OneLoadAtATime
  BY DEF LoaderInd, Exclusive, OneLoadAtATime
<1>. QED BY <1>1, LoaderInvariant, PTL

(* Whatever is trained, killed or reloaded meanwhile, a model held after a *)
(* reload was read after it.                                               *)
THEOREM NoModelFromBeforeReloadHolds == Spec => []NoModelFromBeforeReload
<1>1. LoaderInd => NoModelFromBeforeReload
  BY DEF LoaderInd, Current, NoModelFromBeforeReload
<1>. QED BY <1>1, LoaderInvariant, PTL

-----------------------------------------------------------------------------
(* What the loader has to show                                             *)

Loaded == [by : 0..Len(jobs), read : Nat]

(* A model is one a job wrote or that was shipped.                         *)
ModelsTyped ==
  /\ loader.gen <= MaxReloads
  /\ loader.model \in {None} \cup Loaded
  /\ \A l \in Loaders : threads[l].pc = "publish" => threads[l].model \in Loaded

(* A model or an error is there from the publication on, until a reload.   *)
HasAnswer == loader.model # None \/ loader.error
Answers ==
  ~loader.raced =>
    /\ loader.ready /\ ~loader.reloading => HasAnswer
    /\ \A l \in Loaders : threads[l].pc = "signal" => HasAnswer

AnswerInd == ModelsTyped /\ Answers

(* At first nothing is ready.                                              *)
LEMMA AnswerStarts == ASSUME Init PROVE AnswerInd
<1>1. LoaderInd /\ StoreTyped
  BY LoaderStarts, StoreStarts DEF Init, StoreInd
<1>2. PICK preload \in BOOLEAN, first \in Loaders :
       /\ loader = [model |-> None, error |-> FALSE, ready |-> FALSE, gen |-> 0,
                    inProgress |-> preload, reloading |-> FALSE, raced |-> FALSE]
       /\ threads = [l \in Loaders |->
                       IF preload /\ l = first THEN [L!Off EXCEPT !.pc = "begin"] ELSE L!Off]
  BY DEF Init, L!LoaderInit
<1>3. loader.gen = 0 /\ loader.model = None /\ loader.ready = FALSE
  BY <1>2
<1>4. \A l \in Loaders : threads[l].pc \in {"off", "begin"}
  <2>1. CASE preload = TRUE
    BY <1>2, <2>1 DEF L!Off
  <2>2. CASE preload = FALSE
    BY <1>2, <2>2 DEF L!Off
  <2>. QED BY <2>1, <2>2
<1>. QED BY <1>3, <1>4, LoaderAssumption DEF AnswerInd, ModelsTyped, Answers

(* What a thread reads of the model is a job's, and no stand-in for none.  *)
LEMMA ReadableIsLoaded ==
  ASSUME StoreTyped, L!Readable(disk[<<Official, "model">>]), NEW g \in Nat
  PROVE  [by |-> disk[<<Official, "model">>].by, read |-> g] \in Loaded
<1>1. <<Official, "model">> \in Paths \ {Registry}
  BY DEF Paths, OfficialFiles, Registry, Official
<1>2. disk[<<Official, "model">>] \in [by : 0..Len(jobs), at : 0..now]
  BY <1>1 DEF StoreTyped, StoreTypeOK, L!Readable
<1>. QED BY <1>2 DEF Loaded

(* A model is not the absence of one.                                      *)
LEMMA LoadedIsSome == ASSUME StoreTyped, NEW m \in Loaded PROVE m # None
<1>1. m \in [by : Nat, read : Nat]
  BY DEF Loaded, StoreTyped, StoreTypeOK
<1>. QED BY <1>1, LoaderAssumption

(* The store's steps leave the loader alone and only add to the jobs.      *)
LEMMA AnswersBesideJobs ==
  ASSUME StoreTyped, AnswerInd, StoreNext, UNCHANGED <<loader, threads, callers>>
  PROVE  AnswerInd'
<1>1. Len(jobs) \in Nat /\ Len(jobs') \in Nat /\ Len(jobs) <= Len(jobs')
  <2>1. jobs \in Seq(Job) /\ jobs' \in Seq(Job')
    BY StoreTypesKept DEF StoreTyped, StoreTypeOK
  <2>2. Len(jobs) = 0 \/ Len(jobs) \in DOMAIN jobs
    BY <2>1
  <2>. QED BY <2>1, <2>2, JobsStay
<1>2. \A m \in Loaded : m \in Loaded'
  BY <1>1 DEF Loaded
<1>3. ModelsTyped'
  BY <1>2 DEF AnswerInd, ModelsTyped
<1>4. Answers'
  BY DEF AnswerInd, Answers, HasAnswer
<1>. QED BY <1>3, <1>4 DEF AnswerInd

(* Callers start threads, which have nothing yet.                          *)
LEMMA CallersKeepAnswers ==
  ASSUME LoaderInd, AnswerInd, jobs' = jobs, NEW c \in Callers,
         L!EnsureLoading(c) \/ L!StartLoader(c) \/ L!Wait(c) \/ L!GetModel(c)
  PROVE  AnswerInd'
<1>1. CASE UNCHANGED <<loader, threads>>
  BY <1>1 DEF AnswerInd, ModelsTyped, Answers, HasAnswer, Loaded
<1>2. CASE L!StartLoader(c) /\ ~loader.inProgress
  <2>. PICK l \in Loaders :
         /\ threads' = [threads EXCEPT ![l] = [L!Off EXCEPT !.pc = "begin"]]
         /\ loader' = [loader EXCEPT !.inProgress = TRUE]
    BY <1>2 DEF L!StartLoader
  <2>1. threads'[l].pc = "begin" /\ \A m \in Loaders : m # l => threads'[m] = threads[m]
    BY DEF LoaderInd, LoaderTyped, L!Off
  <2>2. /\ loader'.gen = loader.gen /\ loader'.model = loader.model /\ loader'.error = loader.error
        /\ loader'.ready = loader.ready /\ loader'.reloading = loader.reloading
        /\ loader'.raced = loader.raced
    BY DEF LoaderInd, LoaderTyped
  <2>3. ModelsTyped'
    BY <2>1, <2>2 DEF AnswerInd, ModelsTyped, Loaded
  <2>4. Answers'
    BY <2>1, <2>2 DEF AnswerInd, Answers, HasAnswer
  <2>. QED BY <2>3, <2>4 DEF AnswerInd
<1>. QED BY <1>1, <1>2 DEF L!EnsureLoading, L!StartLoader, L!Wait, L!GetModel

(* A thread publishes an answer before it says that there is one.          *)
LEMMA ThreadsKeepAnswers ==
  ASSUME StoreTyped, LoaderInd, AnswerInd, jobs' = jobs, NEW l \in Loaders,
         L!Begin(l) \/ L!ReadManifest(l) \/ L!ReadArtifact(l) \/ L!Publish(l) \/ L!Signal(l)
  PROVE  AnswerInd'
<1>. USE DEF AnswerInd
<1>1. CASE L!Begin(l) \/ L!ReadManifest(l)
  <2>1. threads'[l].pc \in {"manifest", "artifact", "fail"} /\ loader' = loader
    BY <1>1 DEF L!Begin, L!ReadManifest, LoaderInd, LoaderTyped
  <2>2. \A m \in Loaders : m # l => threads'[m] = threads[m]
    BY <1>1 DEF L!Begin, L!ReadManifest, LoaderInd, LoaderTyped
  <2>3. ModelsTyped'
    BY <2>1, <2>2 DEF ModelsTyped, Loaded
  <2>4. Answers'
    BY <2>1, <2>2 DEF Answers, HasAnswer
  <2>. QED BY <2>3, <2>4
<1>2. CASE L!ReadArtifact(l)
  <2>0. loader' = loader /\ loader.gen \in Nat
    BY <1>2 DEF L!ReadArtifact, LoaderInd, LoaderTyped
  <2>1. /\ threads'[l].pc \in {"publish", "fail"}
        /\ threads'[l].pc = "publish" => threads'[l].model \in Loaded
    <3>1. CASE L!Readable(disk[<<Official, "model">>])
      <4>1. threads' = [threads EXCEPT ![l].pc = "publish",
                          ![l].model = [by |-> disk[<<Official, "model">>].by, read |-> loader.gen]]
        BY <1>2, <3>1 DEF L!ReadArtifact
      <4>2. /\ threads'[l].pc = "publish"
            /\ threads'[l].model = [by |-> disk[<<Official, "model">>].by, read |-> loader.gen]
        BY <4>1 DEF LoaderInd, LoaderTyped
      <4>. QED BY <2>0, <3>1, <4>2, ReadableIsLoaded
    <3>2. CASE ~L!Readable(disk[<<Official, "model">>])
      <4>1. threads' = [threads EXCEPT ![l].pc = "fail", ![l].model = None]
        BY <1>2, <3>2 DEF L!ReadArtifact
      <4>. QED BY <4>1 DEF LoaderInd, LoaderTyped
    <3>. QED BY <3>1, <3>2
  <2>2. \A m \in Loaders : m # l => threads'[m] = threads[m]
    BY <1>2 DEF L!ReadArtifact, LoaderInd, LoaderTyped
  <2>3. ModelsTyped'
    BY <2>0, <2>1, <2>2 DEF ModelsTyped, Loaded
  <2>4. Answers'
    BY <2>0, <2>1, <2>2 DEF Answers, HasAnswer
  <2>. QED BY <2>3, <2>4
<1>3. CASE L!Publish(l) /\ threads[l].gen # loader.gen
  <2>1. /\ threads'[l].pc = "begin" /\ loader' = loader
        /\ \A m \in Loaders : m # l => threads'[m] = threads[m]
    BY <1>3 DEF L!Publish, LoaderInd, LoaderTyped
  <2>3. ModelsTyped'
    BY <2>1 DEF ModelsTyped, Loaded
  <2>4. Answers'
    BY <2>1 DEF Answers, HasAnswer
  <2>. QED BY <2>3, <2>4
<1>4. CASE L!Publish(l) /\ threads[l].gen = loader.gen
  <2>1. /\ threads'[l].pc = "signal"
        /\ \A m \in Loaders : m # l => threads'[m] = threads[m]
        /\ threads[l].pc \in {"publish", "fail"}
    BY <1>4 DEF L!Publish, LoaderInd, LoaderTyped
  <2>2. CASE threads[l].pc = "fail"
    <3>1. loader' = [loader EXCEPT !.error = TRUE, !.inProgress = FALSE]
      BY <1>4, <2>2 DEF L!Publish
    <3>2. loader'.error = TRUE /\ loader'.gen = loader.gen /\ loader'.model = loader.model
      BY <3>1 DEF LoaderInd, LoaderTyped
    <3>3. ModelsTyped'
      BY <2>1, <3>2 DEF ModelsTyped, Loaded
    <3>4. Answers'
      BY <3>2 DEF Answers, HasAnswer
    <3>. QED BY <3>3, <3>4
  <2>3. CASE threads[l].pc = "publish"
    <3>1. loader' = [loader EXCEPT !.model = threads[l].model, !.error = FALSE, !.inProgress = FALSE]
      BY <1>4, <2>3 DEF L!Publish
    <3>2. loader'.gen = loader.gen /\ loader'.model = threads[l].model /\ threads[l].model \in Loaded
      BY <2>3, <3>1 DEF LoaderInd, LoaderTyped, ModelsTyped
    <3>3. ModelsTyped'
      BY <2>1, <3>2 DEF ModelsTyped, Loaded
    <3>4. Answers'
      BY <3>2, LoadedIsSome DEF Answers, HasAnswer
    <3>. QED BY <3>3, <3>4
  <2>. QED BY <2>1, <2>2, <2>3
<1>5. CASE L!Signal(l)
  <2>1. /\ threads[l].pc = "signal" /\ threads'[l].pc = "off"
        /\ \A m \in Loaders : m # l => threads'[m] = threads[m]
    BY <1>5 DEF L!Signal, LoaderInd, LoaderTyped, L!Off
  <2>2. /\ loader'.gen = loader.gen /\ loader'.model = loader.model /\ loader'.error = loader.error
        /\ loader'.raced = loader.raced
    BY <1>5 DEF L!Signal, LoaderInd, LoaderTyped
  <2>3. ModelsTyped'
    BY <2>1, <2>2 DEF ModelsTyped, Loaded
  <2>4. Answers'
    BY <2>1, <2>2 DEF Answers, HasAnswer
  <2>. QED BY <2>3, <2>4
<1>. QED BY <1>1, <1>2, <1>3, <1>4, <1>5

(* A reload takes the answer away before it takes ready back, and leaves   *)
(* its mark if a thread was about to say ready.                            *)
LEMMA ReloadKeepsAnswers ==
  ASSUME LoaderInd, AnswerInd, jobs' = jobs, L!Reload \/ L!ClearReady PROVE AnswerInd'
<1>1. CASE L!Reload
  <2>1. /\ loader'.gen = loader.gen + 1 /\ loader.gen < MaxReloads /\ loader'.model = None
        /\ loader'.reloading = TRUE /\ threads' = threads
    BY <1>1 DEF L!Reload, LoaderInd, LoaderTyped
  <2>2. loader'.raced = \E l \in Loaders : threads[l].pc = "signal"
    BY <1>1 DEF L!Reload, LoaderInd, LoaderTyped
  <2>3. ModelsTyped'
    BY <2>1, LoaderAssumption DEF AnswerInd, ModelsTyped, LoaderInd, LoaderTyped, Loaded
  <2>4. Answers'
    BY <2>1, <2>2 DEF Answers
  <2>. QED BY <2>3, <2>4 DEF AnswerInd
<1>2. CASE L!ClearReady
  <2>1. /\ loader'.gen = loader.gen /\ loader'.model = loader.model /\ loader'.error = loader.error
        /\ loader'.raced = loader.raced /\ loader'.ready = FALSE /\ threads' = threads
    BY <1>2 DEF L!ClearReady, LoaderInd, LoaderTyped
  <2>3. ModelsTyped'
    BY <2>1 DEF AnswerInd, ModelsTyped, Loaded
  <2>4. Answers'
    BY <2>1 DEF AnswerInd, Answers, HasAnswer
  <2>. QED BY <2>3, <2>4 DEF AnswerInd
<1>. QED BY <1>1, <1>2

(* Both invariants are needed: the files are what the threads read.        *)
LEMMA AnswerKept == ASSUME StoreInd, LoaderInd, AnswerInd, [Next]_vars PROVE AnswerInd'
<1>1. CASE StoreNext /\ UNCHANGED <<loader, threads, callers>>
  BY <1>1, AnswersBesideJobs DEF StoreInd
<1>2. CASE L!LoaderNext /\ UNCHANGED storeVars
  <2>1. jobs' = jobs
    BY <1>2 DEF storeVars
  <2>. QED BY <1>2, <2>1, CallersKeepAnswers, ThreadsKeepAnswers, ReloadKeepsAnswers
           DEF L!LoaderNext, StoreInd
<1>3. CASE UNCHANGED vars
  BY <1>3 DEF vars, storeVars, AnswerInd, ModelsTyped, Answers, HasAnswer, Loaded
<1>. QED BY <1>1, <1>2, <1>3 DEF Next

(* The invariant of the whole: store, loader and answers.                  *)
LEMMA OpsInvariant == Spec => [](StoreInd /\ LoaderInd /\ AnswerInd)
<1>1. Init => AnswerInd
  BY AnswerStarts
<1>2. StoreInd /\ LoaderInd /\ AnswerInd /\ [Next]_vars => AnswerInd'
  BY AnswerKept
<1>. QED BY <1>1, <1>2, StoreInvariant, LoaderInvariant, PTL DEF Spec

(* A loader that says it is ready has a model or an error to show for it,  *)
(* unless the last reload came between a publication and its signal: the   *)
(* next reload mends that.                                                 *)
THEOREM ReadyMeansAnswerHolds == Spec => []ReadyMeansAnswer
<1>1. AnswerInd => ReadyMeansAnswer
  BY DEF AnswerInd, Answers, HasAnswer, ReadyMeansAnswer, L!ReadyMeansAnswer
<1>. QED BY <1>1, OpsInvariant, PTL

(* Files, jobs, cache and loader keep their types: every job has a path    *)
(* for what it reads and writes, what it holds came from the disk, and     *)
(* what is loaded is of a job there was.                                   *)
THEOREM TypeOKHolds == Spec => []TypeOK
<1>1. ASSUME StoreInd, LoaderInd, AnswerInd PROVE TypeOK
  <2>1. loader.gen \in 0..MaxReloads
    BY <1>1, LoaderAssumption DEF LoaderInd, LoaderTyped, AnswerInd, ModelsTyped
  <2>2. loader.model = None \/ loader.model.by \in 0..Len(jobs)
    BY <1>1 DEF AnswerInd, ModelsTyped, Loaded
  <2>. QED BY <1>1, <2>1, <2>2 DEF TypeOK, StoreInd, StoreTyped, LoaderInd, Current
<1>. QED BY <1>1, OpsInvariant, PTL
=============================================================================
