--------------------------- MODULE MCLegacyThreads ---------------------------
(* Small instances of LegacyThreads. *)
EXTENDS LegacyThreads

CONSTANTS a, b, t1, t2, f, g

OneClient == {a}
TwoClients == {a, b}
TwoThreads == {t1, t2}
=============================================================================
