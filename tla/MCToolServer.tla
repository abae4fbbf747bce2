---------------------------- MODULE MCToolServer ----------------------------
(* Small instances of ToolServer for TLC. *)
EXTENDS ToolServer

\* Every way to be protected, or not, with the tiers as they come.
MCAuthEnvironments ==
  {e \in AllEnvironments :
     /\ e.readOnly = "unset" /\ e.finalize = "true" /\ e.drafts = "unset"
     /\ e.apiKey = "good" /\ e.rest = "good"}

\* Every combination of tiers on a server with a static token.
MCTierEnvironments ==
  {e \in AllEnvironments :
     /\ e.issuer = "unset" /\ e.resource = "unset" /\ e.oauthRest = "good"
     /\ e.token = "strong" /\ e.allow = "unset"}
\* Both: the two halves of an environment do not meet in the code.
MCEnvironments == MCAuthEnvironments \cup MCTierEnvironments
=============================================================================
