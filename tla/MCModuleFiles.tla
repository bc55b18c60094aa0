---------------------------- MODULE MCModuleFiles ----------------------------
(* Values for the model checking of ModuleFiles, and of ModuleTypes in it. *)
EXTENDS ModuleFiles, TLC

CONSTANTS w1, w2, w3, o1, o2, o3, f1, f2

MCWorkers == {w1, w2, w3}
MCObjects == {o1, o2, o3}
MCFiles == {f1, f2}
MCSymmetry ==
    Permutations(MCWorkers) \union Permutations(MCObjects) \union Permutations(MCFiles)
=============================================================================
