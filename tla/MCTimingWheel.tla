--------------------------- MODULE MCTimingWheel ---------------------------
(* The timing wheel with few bins and few bits of relative time.  User     *)
(* data only names elements: permuting it permutes behaviours.             *)
EXTENDS TimingWheel, TLC
Symmetry == Permutations(Users)
=============================================================================
