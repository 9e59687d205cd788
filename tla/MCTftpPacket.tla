---------------------------- MODULE MCTftpPacket ----------------------------
(* A small instance of TftpPacket for TLC: six and seven are the letters of *)
(* the mode, eight the first of them in upper case.                         *)
EXTENDS TftpPacket, TLC

Strings(S, n) == UNION {[1..k -> S] : k \in 0..n}
Tail4 == {0, 6, 7, 8}

MCLower == 8 :> 6
MCOctet == <<6, 7>>
MCInputs == {<<>>, <<0>>} \cup
            {h \o t : h \in {<<0, op>> : op \in 0..6} \cup {<<1, 1>>},
                       t \in Strings(Tail4, 7)}
MCBlocks == {0, 1, ByteMod - 1, ByteMod, ByteMod * ByteMod - 1}
MCPayloads == Strings({0, 6}, 3)
MCMessages == Strings({6, 7}, 3)
=============================================================================
