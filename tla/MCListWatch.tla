----------------------------- MODULE MCListWatch -----------------------------
(* Model values and symmetry for checking ListWatch with TLC. *)
EXTENDS ListWatch, TLC

CONSTANTS k1, k2, p1, p2, w1

TwoKeys == {k1, k2}
TwoProcs == {p1, p2}
OneWatcher == {w1}
Symmetry == Permutations(TwoKeys) \cup Permutations(TwoProcs)
=============================================================================
