------------------------ MODULE MCProjectResolution -------------------------
(***************************************************************************)
(* ProjectResolution for TLC.  Clients, project ids and slugs are          *)
(* interchangeable.                                                        *)
(***************************************************************************)
EXTENDS ProjectResolution, TLC

Symmetry == Permutations(Clients) \cup Permutations(ProjIds) \cup Permutations(Slugs)
=============================================================================
