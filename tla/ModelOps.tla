------------------------------ MODULE ModelOps ------------------------------
(***************************************************************************)
(* The model files shared by the jobs of ModelStore and by one             *)
(* AsyncModelLoader on the official manifest.  A history keeps to the     *)
(* bounds of one of the Workloads: how many jobs of each kind and how long *)
(* on the clock; the loader runs where loads is set.                       *)
(***************************************************************************)
EXTENDS ModelStore

CONSTANTS Workloads, Loaders, Callers, MaxReloads

ASSUME WorkloadsAssumption == \A w \in Workloads : w.time \in Nat

(* No model, and how many reloads there may be.                            *)
ASSUME LoaderAssumption == MaxReloads \in Nat /\ None \notin [by : Nat, read : Nat]

VARIABLES loader, threads, callers

vars == <<storeVars, loader, threads, callers>>

L == INSTANCE AsyncModelLoader WITH
       manifest <- disk[<<Official, "manifest">>], artifact <- disk[<<Official, "model">>]

Init == StoreInit(Workloads) /\ L!LoaderInit

Next ==
  \/ StoreNext /\ UNCHANGED <<loader, threads, callers>>
  \/ work.loads /\ L!LoaderNext /\ UNCHANGED storeVars

Spec == Init /\ [][Next]_vars

-----------------------------------------------------------------------------
(* The types of the files, the jobs, the cache and the loader.             *)
TypeOK ==
  /\ StoreTypeOK
  /\ loader.gen \in 0..MaxReloads
  /\ loader.model = None \/ loader.model.by \in 0..Len(jobs)
  /\ \A l \in Loaders : threads[l].gen <= loader.gen

NoModelFromBeforeReload == L!NoModelFromBeforeReload
OneLoadAtATime == L!OneLoadAtATime
ReadyMeansAnswer == L!ReadyMeansAnswer
=============================================================================
