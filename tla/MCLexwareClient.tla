-------------------------- MODULE MCLexwareClient --------------------------
(* Small instances of LexwareClient for TLC. *)
EXTENDS LexwareClient, TLC

\* Retry-After in the past and an hour ahead, beyond both bounds on a wait.
MCRetryAfters == {-1000, 3600000}
=============================================================================
