---------------------------- MODULE MCFileBench ----------------------------
(* A small instance of FileBench for TLC. *)
EXTENDS FileBench, TLC

AnyWorker == Permutations(Workers)
\* A journal that keeps its word, or one that breaks it in any of the ways.
NoneOrAll == {{}, {"lost", "copied", "refused", "swapped", "receipt"}}
=============================================================================
