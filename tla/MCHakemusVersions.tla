------------------------- MODULE MCHakemusVersions -------------------------
(* Small instances of HakemusVersions for TLC. *)
EXTENDS HakemusVersions, TLC

\* Requests do not differ by their thread.
ThreadSymmetry == Permutations(Threads)
=============================================================================
