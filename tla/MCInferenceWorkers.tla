------------------------- MODULE MCInferenceWorkers -------------------------
EXTENDS InferenceWorkers, TLC

(* No property tells two generations, two workers or two predictions apart. *)
Interchangeable ==
    Permutations(Generations) \union Permutations(Workers) \union Permutations(Predictors)
=============================================================================
