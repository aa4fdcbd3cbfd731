-------------------------- MODULE MCTranscriptScan --------------------------
(* Two requests, told apart only by their keys.                            *)
EXTENDS TranscriptScan, TLC

Symmetry == Permutations(Requests)
=============================================================================
