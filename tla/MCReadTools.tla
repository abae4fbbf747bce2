---------------------------- MODULE MCReadTools ----------------------------
(* Small instances of ReadTools for TLC. *)
EXTENDS ReadTools

CONSTANTS b1, b2, v1, v2, f, g

MCBatch == <<b1, b2>>
MCReceipts == <<f, g>>

\* The voucher whose file is read is also the first of the batch.
MCIdOf == [c \in {b1, b2, Lookup} |-> IF c = b2 THEN v2 ELSE v1]
=============================================================================
