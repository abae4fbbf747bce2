---------------------------- MODULE PacedGrants ----------------------------
(***************************************************************************)
(* What a rate limiter promises its callers, without buckets, timers or    *)
(* promises: calls are served once each, in the order they asked, and the  *)
(* times at which they are served keep every window of time within a burst *)
(* of Capacity plus what Rate earns over that window.                      *)
(*                                                                         *)
(* Tokens are counted in parts: one call costs Unit parts and one unit of  *)
(* time earns Rate parts, so that all the arithmetic is exact.             *)
(***************************************************************************)
EXTENDS Integers, Sequences

CONSTANTS Calls,     \* the calls that may ask for a grant
          Capacity,  \* calls that may be served at once after a long rest
          Rate,      \* parts earned per unit of time
          Unit,      \* parts one call costs
          Times      \* the times at which a call may be served

VARIABLES asked,     \* sequence of calls, in the order they asked
          served     \* sequence of [call, at], in the order they were served

vars == <<asked, served>>

Init == asked = <<>> /\ served = <<>>

\* Serving one more call at time t keeps every window that ends at t within
\* the burst plus what the window earned.
Affordable(t) ==
  \A i \in 1..Len(served) :
    (Len(served) - i + 2) * Unit <= Capacity * Unit + Rate * (t - served[i].at)

Ask(c) ==
  /\ \A i \in 1..Len(asked) : asked[i] # c
  /\ asked' = Append(asked, c)
  /\ UNCHANGED served

Serve(t) ==
  /\ Len(served) < Len(asked)
  /\ \A i \in 1..Len(served) : served[i].at <= t
  /\ Affordable(t)
  /\ served' = Append(served, [call |-> asked[Len(served) + 1], at |-> t])
  /\ UNCHANGED asked

Next == (\E c \in Calls : Ask(c)) \/ (\E t \in Times : Serve(t))

Spec == Init /\ [][Next]_vars
=============================================================================
