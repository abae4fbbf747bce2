--------------------------- MODULE MCUpdateTools ---------------------------
(* Small instances of UpdateTools for TLC. *)
EXTENDS UpdateTools, TLC

\* One plain key is enough to see an update lost.
MCPlain == {"remark"}

\* Every rule of update-voucher; a contactId with an empty name is a contactId
\* alone, and the other way round.
MCAsks ==
  {{"contactId", "contactName"}, {"remark", "voucherStatus"}, {"useCollectiveContact"}}

\* Callers differ in nothing but their names.
Symmetry == Permutations(Callers)
=============================================================================
