------------------------------ MODULE MCTftpApp ------------------------------
(* Small instances of TftpApp for TLC: one stored file, a short block. *)
EXTENDS TftpApp, TLC

CONSTANTS empty, absent

MCNames      == {empty, absent}
MCFileBlocks == empty :> 0

Symmetry == Permutations(Fds)
=============================================================================
