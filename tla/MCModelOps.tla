----------------------------- MODULE MCModelOps -----------------------------
EXTENDS ModelOps, TLC

CONSTANTS r1, r2, t1, t2, c1, c2, f1, f2

MCRunDirs  == <<r1, r2>>
MCLoaders  == {t1, t2}
MCCallers  == {c1, c2}
MCFeatures == {f1, f2}

Bounds(f, t, d, l) ==
  [jobs |-> f @@ [k \in JobKinds |-> 0], time |-> t, deployed |-> d, loads |-> l,
   ml |-> IF "score" \in DOMAIN f THEN BOOLEAN ELSE {TRUE}]

(* Scores while the official model is trained twice; explanations served   *)
(* from the cache; an API process that loads the model; runs registered    *)
(* beside a new one; one calibrated meanwhile; a worker that serves it.   *)
MCWorkloads ==
  {Bounds("official" :> 2 @@ "score" :> 1, 0, FALSE, FALSE),
   Bounds("explain" :> 3, 2, TRUE, FALSE),
   Bounds("official" :> 1, 0, FALSE, TRUE),
   Bounds("candidate" :> 1 @@ "register" :> 2, 0, TRUE, FALSE),
   Bounds("candidate" :> 1 @@ "calibrate" :> 1 @@ "register" :> 1, 1, FALSE, FALSE),
   Bounds("candidate" :> 2 @@ "register" :> 1 @@ "score" :> 1, 0, FALSE, FALSE)}

Symmetry == Permutations(MCLoaders) \cup Permutations(MCCallers) \cup Permutations(MCFeatures)
=============================================================================
