---------------------------- MODULE UpdateTools ----------------------------
(***************************************************************************)
(* The read-modify-write of update-article, update-contact and             *)
(* update-voucher: GET the resource, merge the caller's fields over it,    *)
(* PUT the whole of it with a version, which Lexware checks.  The client   *)
(* sends a PUT once (RemoteCalls): it may be answered, lose its answer, or *)
(* be handled after its caller gave up.  Others edit the resource in the   *)
(* web app, and payments set its status.                                   *)
(*                                                                         *)
(* Contents are functions from keys to values.  The keys in Plain are      *)
(* those that are only merged: every key of an article, the leaves of a    *)
(* contact, and those of a voucher but for the four with rules.            *)
(***************************************************************************)
EXTENDS Integers

CONSTANTS Callers,    \* calls of an update tool on the resource
          Plain,      \* keys that are merged and nothing else
          Asks,       \* the sets of keys a caller may pass
          NoVersion,  \* the caller passes no version
          Blank,      \* the empty string: a string, and falsy
          Absent,     \* what a key holds that is not there
          MaxEdits    \* bound: edits and payments by others

ContactKeys == {"contactId", "contactName"}
BookingKeys == ContactKeys \cup {"useCollectiveContact"}
Keys        == Plain \cup BookingKeys \cup {"voucherStatus"}

ASSUME UpdateAssumption ==
  /\ Plain \cap (BookingKeys \cup {"voucherStatus"}) = {}
  /\ Asks \subseteq (SUBSET Keys) \ {{}}
  /\ NoVersion \notin Nat
  /\ MaxEdits \in Nat
  /\ Callers \cap (0..MaxEdits) = {}
  /\ Blank \notin Callers \cup (0..MaxEdits)

VARIABLES
  resource,  \* [version, content], as Lexware has it
  edits,     \* changes by others so far
  pc,        \* where each call is
  patch,     \* patch[c]: the fields the caller passed
  version,   \* version[c]: the version the caller passed
  snapshot,  \* snapshot[c]: what the GET of c returned
  put,       \* PUTs Lexware has not handled: [by, version, body]
  outcome,   \* outcome[c]: what the caller was told
  applied    \* history: calls whose PUT was carried out

vars == <<resource, edits, pc, patch, version, snapshot, put, outcome, applied>>

Derived  == {"paid", "voided"}       \* DERIVED_VOUCHER_STATUSES
Statuses == {"open"} \cup Derived
Writers  == Callers \cup (0..MaxEdits)

\* What may be stored under a key.
Domain(k) ==
  CASE k = "voucherStatus" -> Statuses
    [] k = "useCollectiveContact" -> BOOLEAN
    [] k \in ContactKeys -> Writers \cup {Blank}
    [] OTHER -> Writers

IsContent(f) == DOMAIN f \subseteq Keys /\ \A k \in DOMAIN f : f[k] \in Domain(k)

Nothing == [k \in {} |-> 0]

TypeOK ==
  /\ resource.version \in Nat /\ IsContent(resource.content)
  /\ edits \in 0..MaxEdits
  /\ pc \in [Callers -> {"idle", "reading", "read", "writing", "done"}]
  /\ DOMAIN patch = Callers /\ \A c \in Callers : IsContent(patch[c])
  /\ version \in [Callers -> Nat \cup {NoVersion}]
  /\ DOMAIN snapshot = Callers
  /\ \A c \in Callers : snapshot[c].version \in Nat /\ IsContent(snapshot[c].content)
  /\ \A r \in put : r.by \in Callers /\ r.version \in Nat /\ IsContent(r.body)
  /\ outcome \in [Callers -> {"pending", "updated", "stale", "invalid", "failed", "unknown"}]
  /\ applied \subseteq Callers

\* A voucher booked to a contact, or to the collective contact, where it may
\* have a name.
InitialContents ==
  {[k \in Plain \cup C \cup {"useCollectiveContact", "voucherStatus"} |->
      CASE k = "voucherStatus" -> s
        [] k = "useCollectiveContact" -> "contactId" \notin C
        [] OTHER -> 0] :
     C \in {{}, {"contactId"}, {"contactName"}}, s \in {"open", "paid"}}

Init ==
  /\ resource \in [version : {0}, content : InitialContents]
  /\ edits = 0
  /\ pc = [c \in Callers |-> "idle"]
  /\ patch = [c \in Callers |-> Nothing]
  /\ version = [c \in Callers |-> NoVersion]
  /\ snapshot = [c \in Callers |-> [version |-> 0, content |-> Nothing]]
  /\ put = {}
  /\ outcome = [c \in Callers |-> "pending"]
  /\ applied = {}

-----------------------------------------------------------------------------
(* The body of the PUT. *)

\* deepMergePatch(), on keys that stand for the leaves it recurses to.
Merge(base, over) ==
  [k \in DOMAIN base \cup DOMAIN over |-> IF k \in DOMAIN over THEN over[k] ELSE base[k]]

\* Faulty variant: the key is set to null instead of being deleted.
WithoutNulled(f, k) == [j \in DOMAIN f |-> IF j = k THEN NoVersion ELSE f[j]]

Without(f, k) == [j \in DOMAIN f \ {k} |-> f[j]]

\* The key is there and does not hold the empty string.
Truthy(f, k) == k \in DOMAIN f /\ f[k] # Blank

\* Faulty variant: useCollectiveContact is left as it was.
LinkContactOnly(body, over) ==
  CASE Truthy(over, "contactId") -> Without(body, "contactName")
    [] ~Truthy(over, "contactId") /\ Truthy(over, "contactName") -> Without(body, "contactId")
    [] OTHER -> body

\* A contactId and a custom contactName never go out together, when the caller
\* passes one of them; useCollectiveContact by itself is only merged.
LinkContact(body, over) ==
  CASE Truthy(over, "contactId") ->
         Merge(Without(body, "contactName"), [useCollectiveContact |-> FALSE])
    [] ~Truthy(over, "contactId") /\ Truthy(over, "contactName") ->
         Merge(Without(body, "contactId"), [useCollectiveContact |-> TRUE])
    [] OTHER -> body

\* Faulty variant: the status of the current voucher is sent back.
OmitDerivedNever(body, over) == body

\* A payment-derived status is sent only when the caller passed it.
OmitDerived(body, over) ==
  IF /\ "voucherStatus" \notin DOMAIN over
     /\ "voucherStatus" \in DOMAIN body /\ body.voucherStatus \in Derived
  THEN Without(body, "voucherStatus") ELSE body

Body(current, over) == OmitDerived(LinkContact(Merge(current, over), over), over)

\* Faulty variants: the caller's version is ignored; the version is read anew
\* for the PUT.
SentVersionOfRead(c)  == snapshot[c].version
SentVersionOfWrite(c) == resource.version

SentVersion(c) == IF version[c] = NoVersion THEN snapshot[c].version ELSE version[c]

-----------------------------------------------------------------------------
(* The tools. *)

\* A caller passes its own value under each key, or an empty contact, and a
\* version it has seen or none.
Call(c) ==
  /\ pc[c] = "idle"
  /\ \E K \in Asks, s \in Statuses \ {"paid"}, b \in BOOLEAN, empty \in SUBSET ContactKeys :
       patch' = [patch EXCEPT ![c] = [k \in K |->
                   CASE k = "voucherStatus" -> s
                     [] k = "useCollectiveContact" -> b
                     [] k \in empty -> Blank
                     [] OTHER -> c]]
  /\ \E v \in (0..resource.version) \cup {NoVersion} : version' = [version EXCEPT ![c] = v]
  /\ pc' = [pc EXCEPT ![c] = "reading"]
  /\ UNCHANGED <<resource, edits, snapshot, put, outcome, applied>>

Finish(c, result) ==
  /\ pc' = [pc EXCEPT ![c] = "done"]
  /\ outcome' = [outcome EXCEPT ![c] = result]

\* Lexware answers the GET; the answer travels on.
Read(c) ==
  /\ pc[c] = "reading"
  /\ snapshot' = [snapshot EXCEPT ![c] = resource]
  /\ pc' = [pc EXCEPT ![c] = "read"]
  /\ UNCHANGED <<resource, edits, patch, version, put, outcome, applied>>

\* The GET throws, with or without retries: no PUT is sent.
ReadFails(c) ==
  /\ pc[c] \in {"reading", "read"}
  /\ Finish(c, "failed")
  /\ UNCHANGED <<resource, edits, patch, version, snapshot, put, applied>>

Write(c) ==
  /\ pc[c] = "read"
  /\ put' = put \cup {[by |-> c, version |-> SentVersion(c),
                       body |-> Body(snapshot[c].content, patch[c])]}
  /\ pc' = [pc EXCEPT ![c] = "writing"]
  /\ UNCHANGED <<resource, edits, patch, version, snapshot, outcome, applied>>

\* The PUT throws without an answer; Lexware may still have it.
WriteFails(c) ==
  /\ pc[c] = "writing"
  /\ Finish(c, "unknown")
  /\ UNCHANGED <<resource, edits, patch, version, snapshot, put, applied>>

-----------------------------------------------------------------------------
(* Lexware and its other users. *)

\* A contact, or the collective contact and at most a name.
Booked(f) ==
  \/ Truthy(f, "contactId") /\ "contactName" \notin DOMAIN f /\ ~f.useCollectiveContact
  \/ "contactId" \notin DOMAIN f /\ f.useCollectiveContact

\* What Lexware is known to refuse: both contacts, or a payment-derived status.
Invalid(body) ==
  \/ Truthy(body, "contactId") /\ Truthy(body, "contactName")
  \/ "voucherStatus" \in DOMAIN body /\ body.voucherStatus \in Derived

\* The answer reaches a caller that still waits for it, or is lost.
Reply(c, result) ==
  IF pc[c] = "writing"
  THEN Finish(c, result) \/ UNCHANGED <<pc, outcome>>
  ELSE UNCHANGED <<pc, outcome>>

\* The PUT replaces the whole resource; without a status the old one stays.
Accept(r) ==
  /\ r.version = resource.version /\ ~Invalid(r.body)
  /\ resource' = [version |-> resource.version + 1,
                  content |-> Merge([voucherStatus |-> resource.content.voucherStatus], r.body)]
  /\ put' = put \ {r}
  /\ applied' = applied \cup {r.by}
  /\ Reply(r.by, "updated")
  /\ UNCHANGED <<edits, patch, version, snapshot>>

\* A contact and a flag that contradict each other may be refused, or not.
Refuse(r) ==
  /\ \/ r.version # resource.version /\ Reply(r.by, "stale")
     \/ (Invalid(r.body) \/ ~Booked(r.body)) /\ Reply(r.by, "invalid")
  /\ put' = put \ {r}
  /\ UNCHANGED <<resource, edits, patch, version, snapshot, applied>>

Change(content) ==
  /\ edits < MaxEdits
  /\ edits' = edits + 1
  /\ resource' = [version |-> resource.version + 1, content |-> content]
  /\ UNCHANGED <<pc, patch, version, snapshot, put, outcome, applied>>

WebEdit(k) == Change(Merge(resource.content, [j \in {k} |-> edits + 1]))

\* The web app books a voucher to one contact or to one name.
Rebooked(f, key, value) ==
  [k \in (DOMAIN f \ ContactKeys) \cup {key, "useCollectiveContact"} |->
     CASE k = key -> value
       [] k = "useCollectiveContact" -> key = "contactName"
       [] OTHER -> f[k]]

Rebook(key) == Change(Rebooked(resource.content, key, edits + 1))

Payment == Change(Merge(resource.content, [voucherStatus |-> "paid"]))

-----------------------------------------------------------------------------
\* Every call has ended and Lexware has nothing left to handle.
Finished == (\A c \in Callers : pc[c] = "done") /\ put = {} /\ UNCHANGED vars

Next ==
  \/ \E c \in Callers : Call(c) \/ Read(c) \/ ReadFails(c) \/ Write(c) \/ WriteFails(c)
  \/ \E r \in put : Accept(r) \/ Refuse(r)
  \/ \E k \in Plain : WebEdit(k)
  \/ \E k \in ContactKeys : Rebook(k)
  \/ Payment
  \/ Finished

Spec == Init /\ [][Next]_vars

-----------------------------------------------------------------------------
(* Properties. *)

\* A caller that passes a version changes that version or nothing: nobody's
\* change slipped in between its read and its write.
ExplicitVersionGuards ==
  [][\A c \in Callers :
       c \in applied' \ applied /\ version[c] # NoVersion =>
         resource.version = version[c]]_vars

\* The caller names whom the voucher is booked to.
NamesContact(p) == Truthy(p, "contactId") \/ Truthy(p, "contactName")

\* It names nobody, and yet passes the flag or an empty contact: the code merges
\* these as they are, and what comes out may contradict itself.
Loose(p) == ~NamesContact(p) /\ DOMAIN p \cap BookingKeys # {}

\* Lexware refuses a body as invalid only for what the caller itself passed, a
\* payment-derived status or a flag or empty contact without a contact, or when
\* the voucher it read was booked to nobody in the first place: never for a
\* contact or a status that the merge carried over, and never, whatever the
\* voucher was, for the contact of a caller that names one.
InvalidIsAskedFor ==
  \A c \in Callers :
    outcome[c] = "invalid" =>
      \/ "voucherStatus" \in DOMAIN patch[c] /\ patch[c].voucherStatus \in Derived
      \/ ~NamesContact(patch[c]) /\ (Loose(patch[c]) \/ ~Booked(snapshot[c].content))

\* A voucher stays booked to one contact, or to the collective contact, through
\* any interleaving of updates and edits, but for an update that passes the flag
\* or an empty contact and names nobody; an update that names somebody books
\* the voucher to that one alone, whatever it was before.
OneContact ==
  [][/\ Booked(resource.content) /\ ~Booked(resource'.content) =>
          \E c \in applied' \ applied : Loose(patch[c])
     /\ \A c \in applied' \ applied :
          NamesContact(patch[c]) => Booked(resource'.content)]_vars

\* The update tools together are atomic patches of the fields they name: the
\* concurrent read-modify-writes of PatchedResource, with no update lost.  To
\* name a contact is to name all of the booking, to pass the flag alone is not.
Whole(f) == [k \in Keys |-> IF k \in DOMAIN f THEN f[k] ELSE Absent]

Spelled(p) ==
  CASE Truthy(p, "contactId") ->
         Merge(p, [contactName |-> Absent, useCollectiveContact |-> FALSE])
    [] ~Truthy(p, "contactId") /\ Truthy(p, "contactName") ->
         Merge(p, [contactId |-> Absent, useCollectiveContact |-> TRUE])
    [] OTHER -> p

Patched == INSTANCE PatchedResource
             WITH Fields <- Keys,
                  Refusals <- {"stale", "invalid"},
                  value <- Whole(resource.content),
                  asked <- [c \in Callers |-> Spelled(patch[c])],
                  told <- outcome
ImplementsPatchedResource == Patched!Spec
=============================================================================
