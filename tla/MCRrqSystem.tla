----------------------------- MODULE MCRrqSystem -----------------------------
(* Small instances of RrqSystem for TLC: one stored file of Full full blocks *)
(* and a short one, and a name that is not stored.                           *)
EXTENDS RrqSystem, TLC

CONSTANTS stored, absent, Full

MCNames      == {stored, absent}
MCFileBlocks == stored :> Full
MCBlockMod   == ByteMod * ByteMod

Symmetry == Permutations(Fds) \cup Permutations(Peers)
=============================================================================
