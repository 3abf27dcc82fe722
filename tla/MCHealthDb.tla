----------------------------- MODULE MCHealthDb -----------------------------
(* Small instances of HealthDb for TLC.                                    *)
EXTENDS HealthDb, TLC

CONSTANTS c1, c2, c3

MCChunks == {c1, c2, c3}
OneChunk == {c1}
TwoChunks == {c1, c2}
Symmetric == Permutations(MCChunks)

Charged(n, b) == [name |-> n, via |-> "", basis |-> b]
Caused(n, b)  == [name |-> n, via |-> "journald", basis |-> b]

(* Two exact writers, an estimated one (handed in without a via), and a    *)
(* writer journald wrote for.                                              *)
MCRows == {Charged(1, "kernel"), Charged(4, "kernel"), [name |-> 2, via |-> None, basis |-> "procfs"], Caused(3, "journald_lines")}
CausedRows == {Caused(3, "journald_lines"), Caused(4, "journald_lines")}
SoleRow == {Charged(1, "kernel")}
ChargedRows == {Charged(1, "kernel"), Charged(2, "procfs")}
=============================================================================
