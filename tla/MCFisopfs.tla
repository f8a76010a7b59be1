------------------------------- MODULE MCFisopfs -------------------------------
(* Fisopfs for TLC: no thread and no name is special.  Histories with a race   *)
(* between two directories are followed to their first store only.             *)
EXTENDS Fisopfs

Symmetry == Permutations(Threads) \cup Permutations(Names)

RacesUnsaved == raced => disk = NoFile
=============================================================================
