---------------------------- MODULE RemoteCalls ----------------------------
(***************************************************************************)
(* What the tools may assume of a call to Lexware, without attempts,       *)
(* replies or timers.  A call takes effect some number of times and ends   *)
(* with an outcome.  A call that must not be replayed takes effect at most *)
(* once, and never when its outcome is a definite refusal.                 *)
(***************************************************************************)
EXTENDS Naturals

CONSTANTS Calls,       \* the calls
          Replayable,  \* the calls that may take effect more than once
          Definite,    \* outcomes that say the call was not carried out
          Outcomes     \* every outcome but "pending" and "returned"

VARIABLES effects,     \* effects[c]: how often call c took effect
          outcome      \* outcome[c]: what its caller was told

vars == <<effects, outcome>>

Init ==
  /\ effects = [c \in Calls |-> 0]
  /\ outcome = [c \in Calls |-> "pending"]

\* The call takes effect, perhaps long after its caller was told something.
TakeEffect(c) ==
  /\ c \notin Replayable => effects[c] = 0 /\ outcome[c] \notin Definite
  /\ effects' = [effects EXCEPT ![c] = @ + 1]
  /\ UNCHANGED outcome

\* The caller gets a result: the call did take effect.
Return(c) ==
  /\ outcome[c] = "pending"
  /\ effects[c] > 0
  /\ outcome' = [outcome EXCEPT ![c] = "returned"]
  /\ UNCHANGED effects

\* The caller gets an error; only a definite one says anything about effects.
Fail(c) ==
  /\ outcome[c] = "pending"
  /\ \E o \in Outcomes :
       /\ o \in Definite /\ c \notin Replayable => effects[c] = 0
       /\ outcome' = [outcome EXCEPT ![c] = o]
  /\ UNCHANGED effects

Next == \E c \in Calls : TakeEffect(c) \/ Return(c) \/ Fail(c)

Spec == Init /\ [][Next]_vars
=============================================================================
