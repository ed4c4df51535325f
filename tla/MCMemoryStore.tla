--------------------------- MODULE MCMemoryStore ----------------------------
(***************************************************************************)
(* Instances of MemoryStore for TLC.  Clients, contents and keys are       *)
(* interchangeable, so the safety runs may use their symmetry; memory ids  *)
(* are ordered and are not.                                                *)
(***************************************************************************)
EXTENDS MemoryStore, TLC

Symmetry == Permutations(Clients) \cup Permutations(Contents)
=============================================================================
