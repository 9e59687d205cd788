----------------------------- MODULE MCTftpTimer -----------------------------
(* A small instance of TftpTimer for TLC. *)
EXTENDS TftpTimer, TLC

CONSTANTS h1, h2, h3

MCHolders == {h1, h2, h3}
MCConfigs == {[timeout |-> 1, max |-> 1], [timeout |-> 2, max |-> 0]}

Symmetry == Permutations(MCHolders)
=============================================================================
