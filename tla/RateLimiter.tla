---------------------------- MODULE RateLimiter ----------------------------
(***************************************************************************)
(* The token-bucket limiter of src/lexware/rate-limiter.ts.                *)
(*                                                                         *)
(* acquire() hangs each reservation on the promise left by the previous    *)
(* one (chain); reserve() refills the bucket from the clock, takes a token *)
(* or sleeps for the time one token needs and looks again.  Everything     *)
(* between two awaits is one step, as in the event loop.                   *)
(*                                                                         *)
(* Two clocks run: now() is the wall clock (Date.now), which may be set    *)
(* back or jump, while sleep() is a timer on the monotonic clock (mono).   *)
(*                                                                         *)
(* Tokens are counted in parts: one token is Unit parts and a millisecond  *)
(* refills RefillPerSec of them, so fractions of a token are exact.        *)
(***************************************************************************)
EXTENDS Integers, Sequences

CONSTANTS Calls,         \* the invocations of acquire()
          Resolved,      \* the promise chain starts from, already resolved
          Capacity,      \* tokens the bucket holds
          RefillPerSec,  \* tokens earned per second
          MsPerSec,      \* milliseconds in a second (1000 in the program)
          MaxLag,        \* how late, in ms, a due timer may run
          LastArrival,   \* bound: no acquire() after this time
          MaxTime,       \* bound: the monotonic clock stops here
          MaxJumped,     \* bound: total ms the wall clock jumps forward
          MaxSetBack     \* bound: total ms the wall clock is set back

ASSUME LimiterAssumption ==
  /\ Resolved \notin Calls
  /\ Capacity \in Nat \ {0}
  /\ RefillPerSec \in Nat \ {0}
  /\ MsPerSec \in Nat \ {0}
  /\ MaxLag \in Nat /\ LastArrival \in Nat /\ MaxTime \in Nat
  /\ MaxJumped \in Nat /\ MaxSetBack \in Nat

VARIABLES
  tokens,      \* parts in the bucket
  lastRefill,  \* wall time of the last refill that earned something
  chain,       \* the call whose promise the next acquire() waits for
  prev,        \* prev[c]: the promise call c found in chain
  pc,          \* where each call is
  wake,        \* wake[c]: monotonic deadline of the sleep of c
  mono,        \* monotonic time
  jumped,      \* total ms the wall clock jumped forward
  setBack,     \* total ms the wall clock was set back
  issued,      \* history: calls in the order of their acquire()
  grants,      \* history: [call, at] in the order tokens were taken, at = lastRefill then
  askedAt,     \* history: monotonic time of acquire(), per call
  grantedAt    \* history: monotonic time the token was taken, per call

bucket  == <<tokens, lastRefill>>
clocks  == <<mono, jumped, setBack>>
vars    == <<tokens, lastRefill, chain, prev, pc, wake, mono, jumped, setBack,
             issued, grants, askedAt, grantedAt>>

Unit == MsPerSec
Full == Capacity * Unit

\* The injected now(): Date.now() of a clock that is not monotonic.
Now == mono + jumped - setBack

TypeOK ==
  /\ tokens \in 0..Full
  /\ lastRefill \in (-MaxSetBack)..(MaxTime + MaxJumped)
  /\ chain \in Calls \cup {Resolved}
  /\ prev \in [Calls -> Calls \cup {Resolved}]
  /\ pc \in [Calls -> {"idle", "queued", "asleep", "granted"}]
  /\ wake \in [Calls -> Nat]
  /\ mono \in 0..MaxTime
  /\ jumped \in 0..MaxJumped
  /\ setBack \in 0..MaxSetBack
  /\ issued \in Seq(Calls)
  /\ grants \in Seq([call : Calls, at : (-MaxSetBack)..(MaxTime + MaxJumped)])
  /\ askedAt \in [Calls -> Nat]
  /\ grantedAt \in [Calls -> Nat]

Init ==
  /\ tokens = Full
  /\ lastRefill = 0
  /\ chain = Resolved
  /\ prev = [c \in Calls |-> Resolved]
  /\ pc = [c \in Calls |-> "idle"]
  /\ wake = [c \in Calls |-> 0]
  /\ mono = 0 /\ jumped = 0 /\ setBack = 0
  /\ issued = <<>> /\ grants = <<>>
  /\ askedAt = [c \in Calls |-> 0]
  /\ grantedAt = [c \in Calls |-> 0]

-----------------------------------------------------------------------------
(* refill(): what the bucket holds, and since when, after looking at now(). *)

\* Faulty variant: the bucket has no limit.
CreditedUncapped ==
  IF Now > lastRefill THEN tokens + (Now - lastRefill) * RefillPerSec ELSE tokens

Credited ==
  IF Now > lastRefill
  THEN LET earned == tokens + (Now - lastRefill) * RefillPerSec
       IN  IF earned < Full THEN earned ELSE Full
  ELSE tokens

RefilledAt == IF Now > lastRefill THEN Now ELSE lastRefill

\* Math.max(1, Math.ceil(needed / refillPerSec * 1000)), needed in parts.
WaitMs(needed) ==
  LET ms == (needed + RefillPerSec - 1) \div RefillPerSec
  IN  IF ms < 1 THEN 1 ELSE ms

-----------------------------------------------------------------------------
(* acquire() and the steps of reserve(). *)

Acquire(c) ==
  /\ pc[c] = "idle"
  /\ mono <= LastArrival
  /\ prev' = [prev EXCEPT ![c] = chain]
  /\ chain' = c
  /\ pc' = [pc EXCEPT ![c] = "queued"]
  /\ issued' = Append(issued, c)
  /\ askedAt' = [askedAt EXCEPT ![c] = mono]
  /\ UNCHANGED <<bucket, wake, clocks, grants, grantedAt>>

\* Faulty variants: nobody waits; the predecessor's promise never settles.
SettledAtOnce(p) == TRUE
SettledNever(p)  == p = Resolved

\* The promise a call waits for has settled.
Settled(p) == p = Resolved \/ (p \in Calls /\ pc[p] = "granted")

\* The call is inside reserve(), or about to enter it.
Reserving(c) == pc[c] = "asleep" \/ (pc[c] = "queued" /\ Settled(prev[c]))

Runnable(c) == Reserving(c) /\ (pc[c] = "asleep" => mono >= wake[c])

\* refill() finds a whole token: the loop ends, the token is taken.
Grant(c) ==
  /\ Runnable(c)
  /\ Credited >= Unit
  /\ tokens' = Credited - Unit
  /\ lastRefill' = RefilledAt
  /\ pc' = [pc EXCEPT ![c] = "granted"]
  /\ grants' = Append(grants, [call |-> c, at |-> RefilledAt])
  /\ grantedAt' = [grantedAt EXCEPT ![c] = mono]
  /\ UNCHANGED <<chain, prev, wake, clocks, issued, askedAt>>

\* Faulty variant: sleep for what a full bucket misses.
SleepForFullBucket(c) ==
  /\ Runnable(c)
  /\ Credited < Unit
  /\ tokens' = Credited
  /\ lastRefill' = RefilledAt
  /\ pc' = [pc EXCEPT ![c] = "asleep"]
  /\ wake' = [wake EXCEPT ![c] = mono + WaitMs(Full - Credited)]
  /\ UNCHANGED <<chain, prev, clocks, issued, grants, askedAt, grantedAt>>

\* refill() leaves less than a token: sleep for what is missing.
Sleep(c) ==
  /\ Runnable(c)
  /\ Credited < Unit
  /\ tokens' = Credited
  /\ lastRefill' = RefilledAt
  /\ pc' = [pc EXCEPT ![c] = "asleep"]
  /\ wake' = [wake EXCEPT ![c] = mono + WaitMs(Unit - Credited)]
  /\ UNCHANGED <<chain, prev, clocks, issued, grants, askedAt, grantedAt>>

-----------------------------------------------------------------------------
(* Time.  Continuations of settled promises run before time passes, timers  *)
(* at most MaxLag late.                                                      *)

Overdue(c) ==
  /\ Runnable(c)
  /\ pc[c] = "asleep" => mono >= wake[c] + MaxLag

Tick ==
  /\ mono < MaxTime
  /\ \A c \in Calls : ~Overdue(c)
  /\ mono' = mono + 1
  /\ UNCHANGED <<bucket, chain, prev, pc, wake, jumped, setBack, issued, grants,
                 askedAt, grantedAt>>

JumpForward ==
  /\ jumped < MaxJumped
  /\ jumped' = jumped + 1
  /\ UNCHANGED <<bucket, chain, prev, pc, wake, mono, setBack, issued, grants,
                 askedAt, grantedAt>>

SetBack ==
  /\ setBack < MaxSetBack
  /\ setBack' = setBack + 1
  /\ UNCHANGED <<bucket, chain, prev, pc, wake, mono, jumped, issued, grants,
                 askedAt, grantedAt>>

\* Nobody waits for a token: the limiter is at rest.
Quiescent == (\A c \in Calls : pc[c] \in {"idle", "granted"}) /\ UNCHANGED vars

Next ==
  \/ \E c \in Calls : Acquire(c) \/ Grant(c) \/ Sleep(c)
  \/ Tick \/ JumpForward \/ SetBack
  \/ Quiescent

Spec == Init /\ [][Next]_vars

\* Promise continuations and due timers run; the monotonic clock advances.
\* Nobody has to call acquire(), and nobody has to adjust the wall clock.
Fairness ==
  /\ WF_vars(Tick)
  /\ \A c \in Calls : WF_vars(Grant(c) \/ Sleep(c))

FairSpec == Spec /\ Fairness

-----------------------------------------------------------------------------
(* Properties. *)

\* At most one reservation is in progress: the promise chain serialises
\* reserve(), so no two callers ever look at the same token.
OneReservation ==
  \A c, d \in Calls : Reserving(c) /\ Reserving(d) => c = d

\* Calls get their tokens in the order of their acquire(), none twice and none
\* overtaken, whoever wakes first.
FifoService ==
  /\ Len(grants) <= Len(issued)
  /\ \A i \in 1..Len(grants) : grants[i].call = issued[i]
  /\ \A i, j \in 1..Len(issued) : issued[i] = issued[j] => i = j

\* In every window of real (monotonic) time, from the grant of the i-th call to
\* that of the j-th, no more calls pass than the bucket holds plus what the
\* window refills; only time the wall clock jumped over can add to it, and a
\* clock set back never does.
PacedInRealTime ==
  \A i, j \in 1..Len(grants) :
    i <= j => (j - i + 1) * Unit <=
              Full + RefillPerSec * (grantedAt[grants[j].call]
                                     - grantedAt[grants[i].call] + jumped)

\* The limiter never holds a call longer than it must: a call is served within
\* one token's refill time, and once the lag of a timer, after it asked and its
\* predecessor was served.  A clock set back costs no more than it was set
\* back, however often the call has to sleep again for it.
ServiceGap ==
  \A i \in 1..Len(grants) :
    LET c     == grants[i].call
        start == IF i = 1 \/ askedAt[c] >= grantedAt[grants[i - 1].call]
                 THEN askedAt[c] ELSE grantedAt[grants[i - 1].call]
    IN  grantedAt[c] - start <= WaitMs(Unit) + MaxLag + setBack

\* Every call that asked for a token gets one.
Served == \A c \in Calls : (pc[c] = "queued") ~> (pc[c] = "granted")

\* The bucket and the chain together implement the promise of PacedGrants:
\* calls in order, each window of refill time within its budget.
Paced == INSTANCE PacedGrants
           WITH Rate <- RefillPerSec, asked <- issued, served <- grants,
                Times <- (-MaxSetBack)..(MaxTime + MaxJumped)
ImplementsPacedGrants == Paced!Spec
=============================================================================
