----------------------------- MODULE MCProcessor -----------------------------
(* Two validators, two MadIDs, and a chain of a few epochs for TLC.        *)
EXTENDS Processor, TLC

CONSTANTS v1, v2, m1, m2

MCValidators == {v1, v2}
MCMadIDs == {m1, m2}
=============================================================================
