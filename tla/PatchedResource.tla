-------------------------- MODULE PatchedResource --------------------------
(***************************************************************************)
(* What the update tools promise: a call changes the fields it names and   *)
(* nothing else, in one step and at most once, whoever else writes the     *)
(* resource.  A caller told "updated" had its change made, a caller told   *)
(* of a refusal had not and never will; any other outcome says nothing.    *)
(* What a field may hold is left open.                                     *)
(***************************************************************************)
EXTENDS Naturals

CONSTANTS Callers,  \* update calls
          Fields,   \* what the resource consists of
          Refusals  \* outcomes that say nothing was changed

VARIABLES value,    \* value[f]: the contents of the resource
          asked,    \* asked[c]: the fields call c names, with their values
          applied,  \* the calls whose change was made
          told      \* told[c]: what the caller of c was told

vars == <<applied, told, value, asked>>

Nothing == [f \in {} |-> 0]

Init ==
  /\ DOMAIN value = Fields
  /\ asked = [c \in Callers |-> Nothing]
  /\ applied = {}
  /\ told = [c \in Callers |-> "pending"]

Ask(c) ==
  /\ UNCHANGED <<applied, told, value>>
  /\ asked[c] = Nothing
  /\ DOMAIN asked'[c] \subseteq Fields
  /\ asked' = [asked EXCEPT ![c] = asked'[c]]

Apply(c) ==
  /\ c \notin applied /\ told[c] \notin Refusals /\ asked[c] # Nothing
  /\ applied' = applied \cup {c}
  /\ told' \in {told, [told EXCEPT ![c] = IF @ = "pending" THEN "updated" ELSE @]}
  /\ value' = [f \in Fields |-> IF f \in DOMAIN asked[c] THEN asked[c][f] ELSE value[f]]
  /\ UNCHANGED asked

Tell(c) ==
  /\ told[c] = "pending"
  /\ \E r \in Refusals \cup {"failed", "unknown"} :
       /\ r \in Refusals => c \notin applied
       /\ told' = [told EXCEPT ![c] = r]
  /\ UNCHANGED <<applied, value, asked>>

\* Somebody edits the resource in the web app, or a payment is booked.
Edit ==
  /\ UNCHANGED <<applied, told, asked>>
  /\ DOMAIN value' = Fields

Next == Edit \/ \E c \in Callers : Ask(c) \/ Apply(c) \/ Tell(c)

Spec == Init /\ [][Next]_vars
=============================================================================
