-------------------------- MODULE AsyncModelLoader --------------------------
(***************************************************************************)
(* The model loader: threads that read the manifest and the model from     *)
(* disk and publish what they read, callers that wait for a model, and     *)
(* reload.  Each step is what happens under one hold of the lock, or one   *)
(* unlocked access to the ready event or to a file.                        *)
(***************************************************************************)
EXTENDS Integers, FiniteSets

CONSTANTS
  None, Absent, Half,
  Loaders,      \* bound: loading threads alive at a time
  Callers,      \* threads that call get_model
  MaxReloads    \* bound: calls of reload

VARIABLES
  manifest,     \* the manifest file
  artifact,     \* the model file
  loader,       \* the fields of the AsyncModelLoader, and the progress of reload
  threads,      \* loading threads
  callers       \* callers of get_model

loaderVars == <<loader, threads, callers>>

Readable(file) == file \notin {Absent, Half}
Off == [pc |-> "off", gen |-> 0, model |-> None]
Reading == {"manifest", "artifact", "publish", "fail"}

(* What a thread has read is what it read, and after which reload.         *)
LoaderInit ==
  \E preload \in BOOLEAN :
    /\ loader = [model |-> None, error |-> FALSE, ready |-> FALSE, gen |-> 0,
                 inProgress |-> preload, reloading |-> FALSE, raced |-> FALSE]
    /\ \E first \in Loaders :
         threads = [l \in Loaders |-> IF preload /\ l = first THEN [Off EXCEPT !.pc = "begin"] ELSE Off]
    /\ callers = [c \in Callers |-> [pc |-> "idle", answer |-> None]]

-----------------------------------------------------------------------------
(* Callers                                                                 *)

Goto(c, pc) == callers' = [callers EXCEPT ![c].pc = pc]

EnsureLoading(c) ==
  /\ callers[c].pc = "idle"
  /\ callers' = [callers EXCEPT ![c] =
       [pc |-> IF loader.ready \/ loader.inProgress THEN "wait" ELSE "start", answer |-> None]]
  /\ UNCHANGED <<loader, threads>>

(* MUTANT of StartLoader: the check made before is trusted.                *)
StartLoaderUnchecked(c) ==
  /\ callers[c].pc = "start"
  /\ Goto(c, "wait")
  /\ \E l \in Loaders :
       /\ threads[l].pc = "off"
       /\ threads' = [threads EXCEPT ![l] = [Off EXCEPT !.pc = "begin"]]
       /\ loader' = [loader EXCEPT !.inProgress = TRUE]

StartLoader(c) ==
  /\ callers[c].pc = "start"
  /\ Goto(c, "wait")
  /\ IF loader.inProgress THEN UNCHANGED <<loader, threads>>
     ELSE \E l \in Loaders :
            /\ threads[l].pc = "off"
            /\ threads' = [threads EXCEPT ![l] = [Off EXCEPT !.pc = "begin"]]
            /\ loader' = [loader EXCEPT !.inProgress = TRUE]

Wait(c) ==
  /\ callers[c].pc = "wait"
  /\ \/ loader.ready /\ Goto(c, "take")
     \/ callers' = [callers EXCEPT ![c] = [pc |-> "idle", answer |-> "timeout"]]
  /\ UNCHANGED <<loader, threads>>

GetModel(c) ==
  /\ callers[c].pc = "take"
  /\ callers' = [callers EXCEPT ![c] =
       [pc |-> "idle", answer |-> IF loader.error THEN "load failed"
                                  ELSE IF loader.model = None THEN "not loaded" ELSE "model"]]
  /\ UNCHANGED <<loader, threads>>

-----------------------------------------------------------------------------
(* Loading threads                                                         *)

Begin(l) ==
  /\ threads[l].pc = "begin"
  /\ threads' = [threads EXCEPT ![l] = [pc |-> "manifest", gen |-> loader.gen, model |-> None]]
  /\ UNCHANGED <<loader, callers>>

ReadManifest(l) ==
  /\ threads[l].pc = "manifest"
  /\ threads' = [threads EXCEPT ![l].pc = IF Readable(manifest) THEN "artifact" ELSE "fail"]
  /\ UNCHANGED <<loader, callers>>

ReadArtifact(l) ==
  /\ threads[l].pc = "artifact"
  /\ threads' = [threads EXCEPT
       ![l].pc    = IF Readable(artifact) THEN "publish" ELSE "fail",
       ![l].model = IF Readable(artifact) THEN [by |-> artifact.by, read |-> loader.gen] ELSE None]
  /\ UNCHANGED <<loader, callers>>

(* MUTANT of Publish: whatever was read is published.                      *)
PublishUnchecked(l) ==
  /\ threads[l].pc \in {"publish", "fail"}
  /\ threads' = [threads EXCEPT ![l].pc = "signal"]
  /\ loader' = IF threads[l].pc = "fail" THEN [loader EXCEPT !.error = TRUE, !.inProgress = FALSE]
               ELSE [loader EXCEPT !.model = threads[l].model, !.error = FALSE, !.inProgress = FALSE]
  /\ UNCHANGED callers

(* MUTANT of Publish: a failed load is not remembered.                     *)
PublishForgetsError(l) ==
  /\ threads[l].pc \in {"publish", "fail"}
  /\ IF threads[l].gen # loader.gen
       THEN threads' = [threads EXCEPT ![l].pc = "begin"] /\ UNCHANGED loader
       ELSE /\ threads' = [threads EXCEPT ![l].pc = "signal"]
            /\ loader' = [loader EXCEPT !.inProgress = FALSE,
                            !.model = IF threads[l].pc = "publish" THEN threads[l].model ELSE @]
  /\ UNCHANGED callers

(* A load that a reload has overtaken starts again.                        *)
Publish(l) ==
  /\ threads[l].pc \in {"publish", "fail"}
  /\ IF threads[l].gen # loader.gen
       THEN threads' = [threads EXCEPT ![l].pc = "begin"] /\ UNCHANGED loader
       ELSE /\ threads' = [threads EXCEPT ![l].pc = "signal"]
            /\ loader' = IF threads[l].pc = "fail"
                           THEN [loader EXCEPT !.error = TRUE, !.inProgress = FALSE]
                           ELSE [loader EXCEPT !.model = threads[l].model, !.error = FALSE,
                                               !.inProgress = FALSE]
  /\ UNCHANGED callers

Signal(l) ==
  /\ threads[l].pc = "signal"
  /\ loader' = [loader EXCEPT !.ready = TRUE]
  /\ threads' = [threads EXCEPT ![l] = Off]
  /\ UNCHANGED callers

-----------------------------------------------------------------------------
(* reload: the fields under the lock, then the event; raced remembers that *)
(* at the last reload a thread was between its publication and its signal. *)

Reload ==
  /\ ~loader.reloading /\ loader.gen < MaxReloads
  /\ loader' = [loader EXCEPT !.gen = @ + 1, !.model = None, !.error = FALSE, !.reloading = TRUE,
                  !.raced = \E l \in Loaders : threads[l].pc = "signal"]
  /\ UNCHANGED <<threads, callers>>

ClearReady ==
  /\ loader.reloading
  /\ loader' = [loader EXCEPT !.ready = FALSE, !.reloading = FALSE]
  /\ UNCHANGED <<threads, callers>>

LoaderNext ==
  \/ \E c \in Callers : EnsureLoading(c) \/ StartLoader(c) \/ Wait(c) \/ GetModel(c)
  \/ \E l \in Loaders : Begin(l) \/ ReadManifest(l) \/ ReadArtifact(l) \/ Publish(l) \/ Signal(l)
  \/ Reload \/ ClearReady

-----------------------------------------------------------------------------
(* Properties                                                              *)

(* A model held after a reload was read from disk after that reload, even  *)
(* if its loading began before, or a second thread is loading too.         *)
NoModelFromBeforeReload == loader.model # None => loader.model.read = loader.gen

(* However callers and reloads interleave, two threads never load at once: *)
(* a second one may start only once the first has published.               *)
OneLoadAtATime ==
  \A l, m \in Loaders :
    threads[l].pc \in Reading \cup {"begin"} /\ threads[m].pc \in Reading \cup {"begin"} => l = m

(* A loader that says it is ready has a model or an error to show for it,  *)
(* unless the last reload came between a thread's publication and its      *)
(* signal: then ready stays set with nothing behind it and no caller       *)
(* starts a new load, until the next reload mends it.                      *)
ReadyMeansAnswer ==
  loader.ready /\ ~loader.reloading /\ ~loader.raced => loader.model # None \/ loader.error
=============================================================================
