------------------------- MODULE DeleteIdempotent --------------------------
(***************************************************************************)
(* deleteIdempotent() of src/tools/shared.ts: calls that DELETE the same   *)
(* resource through the client of LexwareClient, with its retries and the  *)
(* requests it gives up.  Lexware carries out a DELETE of a resource it    *)
(* has and answers 404 for one it does not have; ids are never reused.     *)
(***************************************************************************)
EXTENDS LexwareClient

VARIABLES exists,    \* Lexware has the resource
          existed    \* it had it in the beginning

dvars == <<vars, exists, existed>>

DInit ==
  /\ Init
  /\ exists \in BOOLEAN
  /\ existed = exists

\* The DELETE is carried out; its answer may still be a 5xx of a gateway.
Carry(c, n, s) ==
  /\ exists
  /\ Execute(c, n, s)
  /\ exists' = FALSE
  /\ UNCHANGED existed

\* The DELETE is answered without an effect: 404 when there is nothing.
Decline(c, n, s) ==
  /\ s = "notFound" => ~exists
  /\ Refuse(c, n, s)
  /\ UNCHANGED <<exists, existed>>

DNext ==
  \/ \E c \in Calls :
       \/ ClientStep(c) /\ UNCHANGED <<exists, existed>>
       \/ \E n \in 0..MaxRetries, s \in Statuses : Carry(c, n, s) \/ Decline(c, n, s)
  \/ Finished /\ UNCHANGED <<exists, existed>>

DSpec == DInit /\ [][DNext]_dvars

-----------------------------------------------------------------------------
(* What deleteIdempotent() returns: { deleted: true, alreadyAbsent } for a  *)
(* 2xx and for a 404 (isNotFound()), and nothing, it throws, for the rest.  *)

\* Faulty variants: a 404 is not told apart; any refusal counts as absent.
ReportsDeletedWith404(c)   == outcome[c] \in {"returned", "notFound"}
ReportsAbsentIfRefused(c)  == outcome[c] \in {"notFound", "refused"}

ReportsDeleted(c)       == outcome[c] = "returned"
ReportsAlreadyAbsent(c) == outcome[c] = "notFound"

\* { deleted: true } is true: the resource is gone, with either flag, however
\* many attempts were lost on the way.
DeletedIsGone ==
  \A c \in Calls : ReportsDeleted(c) \/ ReportsAlreadyAbsent(c) => ~exists

\* "Deleted it" is said by one call at most, of a resource that existed, even
\* when several delete it at once and Lexware handles attempts late.
OneDeleter ==
  /\ \A c, d \in Calls : ReportsDeleted(c) /\ ReportsDeleted(d) => c = d
  /\ (\E c \in Calls : ReportsDeleted(c)) => existed

\* A call that says "it was already absent" did not delete it itself: callers
\* can tell the two apart (shared.ts: deleteIdempotent).
AbsentMeansNotMine ==
  \A c \in Calls : ReportsAlreadyAbsent(c) => executed[c] = 0
=============================================================================
