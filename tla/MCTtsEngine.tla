---------------------------- MODULE MCTtsEngine ----------------------------
(* Small instances of TtsEngine for TLC.                                   *)
EXTENDS TtsEngine, TLC

(* Texts and voices are interchangeable.                                   *)
Symmetry == Permutations(Texts) \cup Permutations(Voices)
============================================================================
