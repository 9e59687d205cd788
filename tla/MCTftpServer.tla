---------------------------- MODULE MCTftpServer ----------------------------
(* Small instances of TftpServer for TLC. *)
EXTENDS TftpServer, TLC

CONSTANTS small, absent, refused

\* One stored file of one full block and a short one, one name that is not
\* stored, and one that transfer_filename_valid refuses.
MCNames      == {small, absent, refused}
MCValidNames == {small, absent}
MCFileBlocks == small :> 1

\* Endpoints and descriptors are interchangeable.
Symmetry == Permutations(Peers) \cup Permutations(Fds)
=============================================================================
