------------------------ MODULE RateLimiter_proofs -------------------------
(***************************************************************************)
(* Theorems about RateLimiter, for every number of calls, every capacity,  *)
(* refill rate, timer lag and clock adjustment.                            *)
(***************************************************************************)
EXTENDS RateLimiter, SequenceTheorems, WellFoundedInduction, TLAPS

\* The wall times the model can show.
WallTimes == (-MaxSetBack)..(MaxTime + MaxJumped)

-----------------------------------------------------------------------------
(* Facts about refill(). *)

\* refill() leaves a legal bucket, never moves lastRefill back, never past
\* the wall clock, and credits no more than the time that went by earns.
LEMMA RefillFacts ==
  ASSUME TypeOK
  PROVE  /\ Credited \in 0..Full
         /\ RefilledAt \in WallTimes
         /\ RefilledAt >= lastRefill
         /\ RefilledAt >= Now
         /\ RefilledAt = lastRefill \/ RefilledAt = Now
         /\ Credited <= tokens + RefillPerSec * (RefilledAt - lastRefill)
<1> USE LimiterAssumption DEF TypeOK
<1>1. Now \in WallTimes
  BY DEF Now, WallTimes
<1>2. /\ Full \in Nat /\ tokens \in Nat /\ tokens <= Full
      /\ lastRefill \in WallTimes /\ WallTimes \subseteq Int
  BY DEF Full, Unit, WallTimes
<1>3. CASE Now > lastRefill
  <2> DEFINE gain == (Now - lastRefill) * RefillPerSec
  <2>1. RefilledAt = Now
    BY <1>3 DEF RefilledAt
  <2>2. gain \in Nat
    BY <1>1, <1>2, <1>3
  <2>3. Credited = IF tokens + gain < Full THEN tokens + gain ELSE Full
    BY <1>3, <2>2 DEF Credited
  <2>4. gain = RefillPerSec * (RefilledAt - lastRefill)
    BY <1>1, <1>2, <2>1
  <2> HIDE DEF gain
  <2>5. Credited \in 0..Full /\ Credited <= tokens + gain
    BY <1>2, <2>2, <2>3
  <2> QED
    BY <1>1, <1>2, <1>3, <2>1, <2>4, <2>5
<1>4. CASE ~(Now > lastRefill)
  <2>1. RefilledAt = lastRefill /\ Credited = tokens
    BY <1>4 DEF RefilledAt, Credited
  <2>2. RefillPerSec * (RefilledAt - lastRefill) = 0
    BY <1>2, <2>1
  <2> QED
    BY <1>1, <1>2, <1>4, <2>1, <2>2
<1> QED
  BY <1>3, <1>4

\* The wait computed from a token deficit is a number of milliseconds.
LEMMA WaitMsType ==
  ASSUME NEW needed \in Int
  PROVE  WaitMs(needed) \in Nat
  BY LimiterAssumption DEF WaitMs

-----------------------------------------------------------------------------
(* Type correctness. *)

\* The bucket stays within its capacity and never goes below zero, and every
\* variable within its type, through every interleaving of calls and clocks.
THEOREM TypeCorrect == Spec => []TypeOK
<1>1. Init => TypeOK
  BY LimiterAssumption DEF Init, TypeOK, Full, Unit
<1>2. TypeOK /\ [Next]_vars => TypeOK'
  <2> SUFFICES ASSUME TypeOK, [Next]_vars
               PROVE  TypeOK'
    OBVIOUS
  <2> USE LimiterAssumption
  <2>1. ASSUME NEW c \in Calls, Acquire(c)
        PROVE  TypeOK'
    BY <2>1 DEF Acquire, TypeOK, bucket, clocks, Full, Unit
  <2>2. ASSUME NEW c \in Calls, Grant(c)
        PROVE  TypeOK'
    <3>1. /\ tokens' \in 0..Full /\ lastRefill' \in WallTimes
      BY <2>2, RefillFacts DEF Grant, Full, Unit
    <3>2. grants' \in Seq([call : Calls, at : WallTimes])
      BY <2>2, RefillFacts DEF Grant, TypeOK, WallTimes
    <3>3. /\ pc' \in [Calls -> {"idle", "queued", "asleep", "granted"}]
          /\ grantedAt' \in [Calls -> Nat]
      BY <2>2 DEF Grant, TypeOK
    <3> QED
      BY <2>2, <3>1, <3>2, <3>3
      DEF Grant, TypeOK, clocks, WallTimes, Full, Unit
  <2>3. ASSUME NEW c \in Calls, Sleep(c)
        PROVE  TypeOK'
    <3>1. /\ tokens' \in 0..Full /\ lastRefill' \in WallTimes
          /\ Unit - Credited \in Int
      BY <2>3, RefillFacts DEF Sleep, Full, Unit
    <3>2. mono + WaitMs(Unit - Credited) \in Nat
      <4>1. WaitMs(Unit - Credited) \in Nat
        BY <3>1, WaitMsType
      <4> QED
        BY <4>1 DEF TypeOK
    <3>3. pc' \in [Calls -> {"idle", "queued", "asleep", "granted"}]
      BY <2>3 DEF Sleep, TypeOK
    <3>4. wake' \in [Calls -> Nat]
      <4> DEFINE w == mono + WaitMs(Unit - Credited)
      <4>1. w \in Nat /\ wake' = [wake EXCEPT ![c] = w]
        BY <2>3, <3>2 DEF Sleep
      <4> HIDE DEF w
      <4> QED
        BY <4>1 DEF TypeOK
    <3> QED
      BY <2>3, <3>1, <3>3, <3>4
      DEF Sleep, TypeOK, clocks, WallTimes, Full, Unit
  <2>4. CASE Tick
    BY <2>4 DEF Tick, TypeOK, bucket, Full, Unit
  <2>5. CASE JumpForward
    BY <2>5 DEF JumpForward, TypeOK, bucket, Full, Unit
  <2>6. CASE SetBack
    BY <2>6 DEF SetBack, TypeOK, bucket, Full, Unit
  <2>7. CASE UNCHANGED vars
    BY <2>7 DEF vars, TypeOK, Full, Unit
  <2> QED
    BY <2>1, <2>2, <2>3, <2>4, <2>5, <2>6, <2>7 DEF Next, Quiescent
<1> QED
  BY <1>1, <1>2, PTL DEF Spec

-----------------------------------------------------------------------------
(* The promise chain: issued is the chain spelled out, and the calls that    *)
(* have their token are a prefix of it.                                      *)

ChainInv ==
  /\ \A i, j \in 1..Len(issued) : issued[i] = issued[j] => i = j
  /\ \A i \in 1..Len(issued) : pc[issued[i]] # "idle"
  /\ \A c \in Calls : pc[c] # "idle" => \E i \in 1..Len(issued) : issued[i] = c
  /\ chain = IF Len(issued) = 0 THEN Resolved ELSE issued[Len(issued)]
  /\ \A i \in 1..Len(issued) :
       prev[issued[i]] = IF i = 1 THEN Resolved ELSE issued[i - 1]
  /\ Len(grants) <= Len(issued)
  /\ \A i \in 1..Len(grants) : grants[i].call = issued[i]
  /\ \A i \in 1..Len(issued) : pc[issued[i]] = "granted" <=> i <= Len(grants)
  /\ \A i \in 1..Len(issued) : pc[issued[i]] = "asleep" => i = Len(grants) + 1

\* Only the call next in the chain can be inside reserve().
LEMMA ReservingIsNext ==
  ASSUME TypeOK, ChainInv, NEW c \in Calls, Reserving(c)
  PROVE  /\ Len(grants) + 1 \in 1..Len(issued)
         /\ c = issued[Len(grants) + 1]
<1> USE LimiterAssumption
<1>1. Len(issued) \in Nat /\ Len(grants) \in Nat
  BY DEF TypeOK
<1>2. pc[c] # "idle" /\ pc[c] # "granted"
  BY DEF Reserving
<1>3. PICK i \in 1..Len(issued) : issued[i] = c
  BY <1>2 DEF ChainInv
<1>4. i > Len(grants)
  BY <1>1, <1>2, <1>3 DEF ChainInv
<1>5. CASE pc[c] = "asleep"
  BY <1>1, <1>3, <1>5 DEF ChainInv
<1>6. CASE pc[c] = "queued" /\ Settled(prev[c])
  <2>1. CASE i = 1
    BY <1>1, <1>3, <1>4, <2>1
  <2>2. CASE i # 1
    <3>1. i - 1 \in 1..Len(issued) /\ prev[c] = issued[i - 1]
      BY <1>1, <1>3, <2>2 DEF ChainInv
    <3>2. issued[i - 1] \in Calls
      BY <3>1 DEF TypeOK
    <3>3. pc[issued[i - 1]] = "granted"
      BY <1>6, <3>1, <3>2 DEF Settled
    <3>4. i - 1 <= Len(grants)
      BY <3>1, <3>3 DEF ChainInv
    <3> QED
      BY <1>1, <1>3, <1>4, <3>4
  <2> QED
    BY <2>1, <2>2
<1> QED
  BY <1>5, <1>6 DEF Reserving

\* acquire() appends one link to the chain.
LEMMA AcquireKeepsChain ==
  ASSUME TypeOK, ChainInv, NEW c \in Calls, Acquire(c)
  PROVE  ChainInv'
<1> USE LimiterAssumption
<1>1. Len(issued) \in Nat /\ Len(grants) \in Nat /\ issued \in Seq(Calls)
  BY DEF TypeOK
<1>2. /\ Len(issued') = Len(issued) + 1
      /\ issued'[Len(issued) + 1] = c
      /\ \A i \in 1..Len(issued) : issued'[i] = issued[i] /\ issued[i] \in Calls
  BY <1>1 DEF Acquire
<1>3. \A i \in 1..Len(issued) : issued[i] # c
  BY DEF Acquire, ChainInv
<1>4. /\ pc'[c] = "queued" /\ prev'[c] = chain /\ chain' = c
      /\ grants' = grants
      /\ \A d \in Calls : d # c => pc'[d] = pc[d] /\ prev'[d] = prev[d]
  BY DEF Acquire, TypeOK
<1>5. (\A i, j \in 1..Len(issued) : issued[i] = issued[j] => i = j)'
  BY <1>1, <1>2, <1>3 DEF ChainInv
<1>6. (\A i \in 1..Len(issued) : pc[issued[i]] # "idle")'
  <2> SUFFICES ASSUME NEW i \in 1..Len(issued') PROVE pc'[issued'[i]] # "idle"
    OBVIOUS
  <2>1. CASE i = Len(issued) + 1
    BY <1>2, <1>4, <2>1
  <2>2. CASE i # Len(issued) + 1
    <3>1. i \in 1..Len(issued)
      BY <1>1, <1>2, <2>2
    <3>2. issued'[i] = issued[i] /\ issued[i] \in Calls /\ issued[i] # c /\ pc[issued[i]] # "idle"
      BY <1>2, <1>3, <3>1 DEF ChainInv
    <3> QED
      BY <1>4, <3>2
  <2> QED
    BY <2>1, <2>2
<1>7. (\A d \in Calls : pc[d] # "idle" => \E i \in 1..Len(issued) : issued[i] = d)'
  <2> SUFFICES ASSUME NEW d \in Calls, pc'[d] # "idle"
               PROVE  \E i \in 1..Len(issued') : issued'[i] = d
    OBVIOUS
  <2>1. CASE d = c
    BY <1>1, <1>2, <2>1
  <2>2. CASE d # c
    <3>1. PICK i \in 1..Len(issued) : issued[i] = d
      BY <1>4, <2>2 DEF ChainInv
    <3> QED
      BY <1>1, <1>2, <3>1
  <2> QED
    BY <2>1, <2>2
<1>8. (chain = IF Len(issued) = 0 THEN Resolved ELSE issued[Len(issued)])'
  BY <1>1, <1>2, <1>4
<1>9. (\A i \in 1..Len(issued) :
         prev[issued[i]] = IF i = 1 THEN Resolved ELSE issued[i - 1])'
  <2> SUFFICES ASSUME NEW i \in 1..Len(issued')
               PROVE  prev'[issued'[i]] = IF i = 1 THEN Resolved ELSE issued'[i - 1]
    OBVIOUS
  <2>1. CASE i = Len(issued) + 1
    BY <1>1, <1>2, <1>4, <2>1 DEF ChainInv
  <2>2. CASE i \in 1..Len(issued)
    <3>1. /\ issued'[i] = issued[i] /\ issued[i] # c /\ issued[i] \in Calls
          /\ i # 1 => issued'[i - 1] = issued[i - 1]
      BY <1>1, <1>2, <1>3, <2>2
    <3> QED
      BY <1>4, <2>2, <3>1 DEF ChainInv
  <2> QED
    BY <1>1, <1>2, <2>1, <2>2
<1>10. (/\ Len(grants) <= Len(issued)
        /\ \A i \in 1..Len(grants) : grants[i].call = issued[i])'
  BY <1>1, <1>2, <1>4 DEF ChainInv
<1>11. \A i \in 1..Len(issued') :
         pc'[issued'[i]] = IF i = Len(issued) + 1 THEN "queued" ELSE pc[issued[i]]
  BY <1>1, <1>2, <1>3, <1>4
<1>12. (/\ \A i \in 1..Len(issued) : pc[issued[i]] = "granted" <=> i <= Len(grants)
        /\ \A i \in 1..Len(issued) : pc[issued[i]] = "asleep" => i = Len(grants) + 1)'
  <2> SUFFICES ASSUME NEW i \in 1..Len(issued')
               PROVE  /\ pc'[issued'[i]] = "granted" <=> i <= Len(grants)
                      /\ pc'[issued'[i]] = "asleep" => i = Len(grants) + 1
    BY <1>4
  <2>1. CASE i = Len(issued) + 1
    <3>1. pc'[issued'[i]] = "queued" /\ Len(grants) <= Len(issued)
      BY <1>11, <2>1 DEF ChainInv
    <3> QED
      BY <1>1, <2>1, <3>1
  <2>2. CASE i # Len(issued) + 1
    <3>1. i \in 1..Len(issued) /\ pc'[issued'[i]] = pc[issued[i]]
      BY <1>1, <1>2, <1>11, <2>2
    <3> QED
      BY <3>1 DEF ChainInv
  <2> QED
    BY <2>1, <2>2
<1> QED
  BY <1>5, <1>6, <1>7, <1>8, <1>9, <1>10, <1>11, <1>12 DEF ChainInv

\* Taking a token moves the boundary between served and waiting by one link.
LEMMA GrantKeepsChain ==
  ASSUME TypeOK, ChainInv, NEW c \in Calls, Grant(c)
  PROVE  ChainInv'
<1>1. Len(issued) \in Nat /\ Len(grants) \in Nat
  BY DEF TypeOK
<1>2. /\ Len(grants) + 1 \in 1..Len(issued)
      /\ c = issued[Len(grants) + 1]
  BY ReservingIsNext DEF Grant, Runnable
<1>3. /\ issued' = issued /\ chain' = chain /\ prev' = prev
      /\ pc'[c] = "granted" /\ pc[c] # "idle"
      /\ \A d \in Calls : d # c => pc'[d] = pc[d]
  BY DEF Grant, TypeOK, Runnable, Reserving
<1>4. \A i \in 1..Len(issued) :
        issued[i] \in Calls /\ (issued[i] = c <=> i = Len(grants) + 1)
  <2>1. issued \in Seq(Calls)
    BY DEF TypeOK
  <2> QED
    BY <1>1, <1>2, <2>1 DEF ChainInv
<1>5. /\ Len(grants') = Len(grants) + 1
      /\ grants'[Len(grants) + 1].call = c
      /\ \A i \in 1..Len(grants) : grants'[i] = grants[i]
  BY <1>1 DEF Grant, TypeOK
<1>6. (/\ Len(grants) <= Len(issued)
       /\ \A i \in 1..Len(grants) : grants[i].call = issued[i])'
  BY <1>1, <1>2, <1>3, <1>5 DEF ChainInv
<1>7. \A i \in 1..Len(issued) :
        pc'[issued[i]] = IF i = Len(grants) + 1 THEN "granted" ELSE pc[issued[i]]
  BY <1>3, <1>4
<1>8. (\A i \in 1..Len(issued) : pc[issued[i]] = "granted" <=> i <= Len(grants))'
  BY <1>1, <1>3, <1>5, <1>7 DEF ChainInv
<1>9. (\A i \in 1..Len(issued) : pc[issued[i]] = "asleep" => i = Len(grants) + 1)'
  BY <1>1, <1>3, <1>5, <1>7 DEF ChainInv
<1>10. (\A i \in 1..Len(issued) : pc[issued[i]] # "idle")'
  BY <1>3, <1>7 DEF ChainInv
<1>11. (\A d \in Calls : pc[d] # "idle" => \E i \in 1..Len(issued) : issued[i] = d)'
  BY <1>3 DEF ChainInv
<1> QED
  BY <1>3, <1>6, <1>8, <1>9, <1>10, <1>11 DEF ChainInv

\* Going to sleep leaves the chain as it is.
LEMMA SleepKeepsChain ==
  ASSUME TypeOK, ChainInv, NEW c \in Calls, Sleep(c)
  PROVE  ChainInv'
<1>1. /\ Len(grants) + 1 \in 1..Len(issued)
      /\ c = issued[Len(grants) + 1]
  BY ReservingIsNext DEF Sleep, Runnable
<1>2. /\ issued' = issued /\ chain' = chain /\ prev' = prev /\ grants' = grants
      /\ pc'[c] = "asleep" /\ pc[c] # "idle" /\ pc[c] # "granted"
      /\ \A d \in Calls : d # c => pc'[d] = pc[d]
  BY DEF Sleep, TypeOK, Runnable, Reserving
<1>3. \A i \in 1..Len(issued) :
        issued[i] \in Calls /\ (issued[i] = c <=> i = Len(grants) + 1)
  <2>1. issued \in Seq(Calls) /\ Len(issued) \in Nat /\ Len(grants) \in Nat
    BY DEF TypeOK
  <2> QED
    BY <1>1, <2>1 DEF ChainInv
<1>4. \A i \in 1..Len(issued) :
        pc'[issued[i]] = IF i = Len(grants) + 1 THEN "asleep" ELSE pc[issued[i]]
  BY <1>2, <1>3
<1>5. (/\ \A i \in 1..Len(issued) : pc[issued[i]] # "idle"
       /\ \A i \in 1..Len(issued) : pc[issued[i]] = "granted" <=> i <= Len(grants)
       /\ \A i \in 1..Len(issued) : pc[issued[i]] = "asleep" => i = Len(grants) + 1)'
  <2> SUFFICES ASSUME NEW i \in 1..Len(issued)
               PROVE  /\ pc'[issued[i]] # "idle"
                      /\ pc'[issued[i]] = "granted" <=> i <= Len(grants)
                      /\ pc'[issued[i]] = "asleep" => i = Len(grants) + 1
    BY <1>2
  <2>1. CASE i = Len(grants) + 1
    <3>1. ~(i <= Len(grants))
      BY <2>1 DEF TypeOK
    <3> QED
      BY <1>4, <2>1, <3>1
  <2>2. CASE i # Len(grants) + 1
    BY <1>4, <2>2 DEF ChainInv
  <2> QED
    BY <2>1, <2>2
<1>6. (\A d \in Calls : pc[d] # "idle" => \E i \in 1..Len(issued) : issued[i] = d)'
  BY <1>2 DEF ChainInv
<1> QED
  BY <1>2, <1>5, <1>6 DEF ChainInv

\* The chain keeps its shape through every step.
LEMMA ChainCorrect == Spec => []ChainInv
<1>1. Init => ChainInv
  BY LimiterAssumption DEF Init, ChainInv
<1>2. TypeOK /\ ChainInv /\ [Next]_vars => ChainInv'
  <2> SUFFICES ASSUME TypeOK, ChainInv, [Next]_vars
               PROVE  ChainInv'
    OBVIOUS
  <2>1. CASE \E c \in Calls : Acquire(c) \/ Grant(c) \/ Sleep(c)
    BY <2>1, AcquireKeepsChain, GrantKeepsChain, SleepKeepsChain
  <2>2. CASE UNCHANGED <<chain, prev, pc, issued, grants>>
    BY <2>2 DEF ChainInv
  <2> QED
    BY <2>1, <2>2 DEF Next, Tick, JumpForward, SetBack, Quiescent, vars
<1> QED
  BY <1>1, <1>2, TypeCorrect, PTL DEF Spec

\* No two calls are inside reserve() at once, whatever the interleaving: the
\* promise chain is a lock.
THEOREM OneReservationCorrect == Spec => []OneReservation
<1>1. TypeOK /\ ChainInv => OneReservation
  <2> SUFFICES ASSUME TypeOK, ChainInv,
                      NEW c \in Calls, NEW d \in Calls, Reserving(c), Reserving(d)
               PROVE  c = d
    BY DEF OneReservation
  <2> QED
    BY ReservingIsNext
<1> QED
  BY <1>1, TypeCorrect, ChainCorrect, PTL

\* Tokens go out in the order of the acquire() calls, one to each.
THEOREM FifoServiceCorrect == Spec => []FifoService
<1>1. ChainInv => FifoService
  BY DEF ChainInv, FifoService
<1> QED
  BY <1>1, ChainCorrect, PTL

-----------------------------------------------------------------------------
(* The ledger: what was taken since the i-th grant and what is left cannot   *)
(* exceed a full bucket and what the wall clock earned since then; and wall  *)
(* time between two grants exceeds real time by no more than the jumps.      *)

Ledger ==
  \A i \in 1..Len(grants) :
    /\ grants[i].at <= lastRefill
    /\ (Len(grants) - i + 1) * Unit + tokens <=
         Full + RefillPerSec * (lastRefill - grants[i].at)

RealTime ==
  \A i \in 1..Len(grants) :
    /\ pc[grants[i].call] = "granted"
    /\ grants[i].at >= grantedAt[grants[i].call] - setBack
    /\ lastRefill - grants[i].at <= mono - grantedAt[grants[i].call] + jumped

Windows ==
  \A i, j \in 1..Len(grants) :
    i <= j => /\ (j - i + 1) * Unit <=
                   Full + RefillPerSec * (grants[j].at - grants[i].at)
              /\ grants[j].at - grants[i].at <=
                   grantedAt[grants[j].call] - grantedAt[grants[i].call] + jumped

LedgerInv == Ledger /\ RealTime /\ Windows

\* Multiplying by a rate keeps the order.
LEMMA Products ==
  ASSUME NEW r \in Nat, NEW x \in Int, NEW y \in Int, x <= y
  PROVE  r * x <= r * y
<1> DEFINE d == y - x
<1>1. d \in Nat /\ y = x + d
  OBVIOUS
<1> HIDE DEF d
<1>2. r * (x + d) = r * x + r * d /\ r * d \in Nat
  BY <1>1
<1> QED
  BY <1>1, <1>2

\* Calculating with integers gives integers.
LEMMA IntClosed ==
  \A x, y \in Int : x - y \in Int /\ x * y \in Int
  OBVIOUS

\* What two stretches of time earn is what their sum earns.
LEMMA Distribute ==
  ASSUME NEW r \in Int, NEW x \in Int, NEW y \in Int
  PROVE  r * (x + y) = r * x + r * y
  OBVIOUS

\* The types of the numbers the ledger is about.
LEMMA LedgerTypes ==
  ASSUME TypeOK
  PROVE  /\ Unit \in Nat /\ Full \in Nat /\ tokens \in Int /\ lastRefill \in Int
         /\ Credited \in Int /\ RefilledAt \in Int
         /\ mono \in Int /\ jumped \in Nat /\ setBack \in Nat
         /\ Len(grants) \in Nat
         /\ \A i \in 1..Len(grants) :
              grants[i].call \in Calls /\ grants[i].at \in Int
         /\ \A d \in Calls : grantedAt[d] \in Int
<1>1. /\ Unit \in Nat /\ Full \in Nat /\ tokens \in Int /\ lastRefill \in Int
      /\ mono \in Int /\ jumped \in Nat /\ setBack \in Nat
  BY LimiterAssumption DEF TypeOK, Full, Unit
<1>2. /\ \A w \in WallTimes : w \in Int
      /\ \A p \in 0..Full : p \in Int
  BY <1>1, LimiterAssumption DEF WallTimes
<1>3. Credited \in Int /\ RefilledAt \in Int
  BY <1>2, RefillFacts
<1>4. grants \in Seq([call : Calls, at : WallTimes])
  BY DEF TypeOK, WallTimes
<1>5. \A i \in 1..Len(grants) : grants[i] \in [call : Calls, at : WallTimes]
  BY <1>4, ElementOfSeq
<1>6. \A i \in 1..Len(grants) :
        grants[i].call \in Calls /\ grants[i].at \in WallTimes
  BY <1>5
<1>7. Len(grants) \in Nat
  BY <1>4
<1>8. \A d \in Calls : grantedAt[d] \in Int
  BY DEF TypeOK
<1> QED
  BY <1>1, <1>2, <1>3, <1>6, <1>7, <1>8

\* What refill() credits fits the ledger, before anything is taken.
LEMMA RefilledLedger ==
  ASSUME TypeOK, Ledger, NEW i \in 1..Len(grants)
  PROVE  (Len(grants) - i + 1) * Unit + Credited <=
           Full + RefillPerSec * (RefilledAt - grants[i].at)
<1> USE LimiterAssumption
<1> DEFINE g == grants[i].at
           n == (Len(grants) - i + 1) * Unit
           x == lastRefill - g
           y == RefilledAt - lastRefill
<1>1. /\ g \in Int /\ lastRefill \in Int /\ RefilledAt \in Int
      /\ tokens \in Int /\ Credited \in Int /\ n \in Int /\ Full \in Int
  BY LedgerTypes
<1>2. n + tokens <= Full + RefillPerSec * x
  BY DEF Ledger
<1>3. Credited <= tokens + RefillPerSec * y
  BY RefillFacts
<1>4. x \in Int /\ y \in Int /\ x + y = RefilledAt - g
  BY <1>1
<1>5. RefillPerSec * (x + y) = RefillPerSec * x + RefillPerSec * y
  BY <1>4, Distribute
<1>6. RefillPerSec * x \in Int /\ RefillPerSec * y \in Int
  BY <1>4
<1> HIDE DEF n, x, y, g
<1>7. n + Credited <= Full + RefillPerSec * (x + y)
  BY <1>1, <1>2, <1>3, <1>5, <1>6
<1>8. n + Credited <= Full + RefillPerSec * (RefilledAt - g)
  BY <1>4, <1>7
<1> QED
  BY <1>8 DEF n, g

\* Taking a token adds one line to the ledger.
LEMMA GrantKeepsLedger ==
  ASSUME TypeOK, LedgerInv, NEW c \in Calls, Grant(c)
  PROVE  LedgerInv'
<1> USE LimiterAssumption
<1> DEFINE n == Len(grants)
<1>1. /\ n \in Nat /\ Unit \in Nat /\ Full \in Nat
      /\ lastRefill \in Int /\ RefilledAt \in Int /\ Credited \in Int
      /\ mono \in Int /\ jumped \in Nat /\ setBack \in Nat
  BY LedgerTypes
<1>2. /\ Len(grants') = n + 1
      /\ grants'[n + 1] = [call |-> c, at |-> RefilledAt]
      /\ \A i \in 1..n : /\ grants'[i] = grants[i]
                         /\ grants[i].call \in Calls /\ grants[i].at \in Int
  <2>1. /\ grants \in Seq([call : Calls, at : WallTimes])
        /\ grants' = Append(grants, [call |-> c, at |-> RefilledAt])
    BY DEF Grant, TypeOK, WallTimes
  <2> QED
    BY <2>1, LedgerTypes
<1>3. /\ lastRefill' = RefilledAt /\ tokens' = Credited - Unit
      /\ mono' = mono /\ jumped' = jumped /\ setBack' = setBack
  BY DEF Grant, clocks
<1>4. /\ pc[c] # "granted" /\ pc'[c] = "granted" /\ grantedAt'[c] = mono
      /\ \A d \in Calls : d # c => pc'[d] = pc[d] /\ grantedAt'[d] = grantedAt[d]
      /\ \A d \in Calls : grantedAt[d] \in Int
  BY DEF Grant, TypeOK, Runnable, Reserving
<1>5. \A i \in 1..n : /\ grants[i].call # c
                      /\ pc'[grants[i].call] = "granted"
                      /\ grantedAt'[grants[i].call] = grantedAt[grants[i].call]
                      /\ grantedAt[grants[i].call] \in Int
  BY <1>2, <1>4 DEF LedgerInv, RealTime
<1>6. /\ RefilledAt >= lastRefill /\ RefilledAt >= mono + jumped - setBack
      /\ RefilledAt = lastRefill \/ RefilledAt = mono + jumped - setBack
      /\ Credited \in 0..Full /\ Credited >= Unit
  BY RefillFacts DEF Grant, Now
<1>7. Ledger'
  <2> SUFFICES ASSUME NEW i \in 1..(n + 1)
               PROVE  /\ grants'[i].at <= RefilledAt
                      /\ (n + 1 - i + 1) * Unit + (Credited - Unit) <=
                           Full + RefillPerSec * (RefilledAt - grants'[i].at)
    BY <1>2, <1>3 DEF Ledger, Full, Unit
  <2>1. CASE i = n + 1
    <3>1. grants'[i].at = RefilledAt /\ (n + 1 - i + 1) * Unit = Unit
      BY <1>1, <1>2, <2>1
    <3>2. RefillPerSec * (RefilledAt - RefilledAt) = 0 /\ RefilledAt <= RefilledAt
      BY <1>1
    <3>3. Unit + (Credited - Unit) <= Full + 0
      BY <1>1, <1>6
    <3> QED
      BY <3>1, <3>2, <3>3
  <2>2. CASE i \in 1..n
    <3>1. grants'[i] = grants[i] /\ grants[i].at \in Int /\ grants[i].at <= lastRefill
      BY <1>2, <2>2 DEF LedgerInv, Ledger
    <3>2. (n - i + 1) * Unit + Credited <=
            Full + RefillPerSec * (RefilledAt - grants[i].at)
      BY <2>2, RefilledLedger DEF LedgerInv
    <3>3. (n + 1 - i + 1) * Unit = (n - i + 1) * Unit + Unit
      BY <1>1, <2>2
    <3>4. (n - i + 1) * Unit \in Int /\ RefillPerSec * (RefilledAt - grants[i].at) \in Int
      BY <1>1, <2>2, <3>1
    <3>5. (n + 1 - i + 1) * Unit + (Credited - Unit) <=
            Full + RefillPerSec * (RefilledAt - grants[i].at)
      BY <1>1, <3>2, <3>3, <3>4
    <3>6. grants[i].at <= RefilledAt
      BY <1>1, <1>6, <3>1
    <3> QED
      BY <3>1, <3>5, <3>6
  <2> QED
    BY <1>1, <2>1, <2>2
<1>8. RealTime'
  <2> SUFFICES ASSUME NEW i \in 1..(n + 1)
               PROVE  /\ pc'[grants'[i].call] = "granted"
                      /\ grants'[i].at >= grantedAt'[grants'[i].call] - setBack
                      /\ RefilledAt - grants'[i].at <=
                           mono - grantedAt'[grants'[i].call] + jumped
    BY <1>2, <1>3 DEF RealTime
  <2>1. CASE i = n + 1
    <3>1. /\ grants'[i].call = c /\ grants'[i].at = RefilledAt
      BY <1>2, <2>1
    <3>2. RefilledAt >= mono - setBack /\ RefilledAt - RefilledAt <= mono - mono + jumped
      BY <1>1, <1>6
    <3> QED
      BY <1>4, <3>1, <3>2
  <2>2. CASE i \in 1..n
    <3>1. /\ grants'[i] = grants[i] /\ grants[i].at \in Int
          /\ grantedAt'[grants[i].call] = grantedAt[grants[i].call]
          /\ grantedAt[grants[i].call] \in Int
          /\ pc'[grants[i].call] = "granted"
      BY <1>2, <1>5, <2>2
    <3>2. /\ grants[i].at >= grantedAt[grants[i].call] - setBack
          /\ lastRefill - grants[i].at <= mono - grantedAt[grants[i].call] + jumped
      BY <2>2 DEF LedgerInv, RealTime
    <3>3. RefilledAt - grants[i].at <= mono - grantedAt[grants[i].call] + jumped
      <4> DEFINE a == grants[i].at
                 t == grantedAt[grants[i].call]
      <4>1. a \in Int /\ t \in Int /\ a >= t - setBack /\ lastRefill - a <= mono - t + jumped
        BY <3>1, <3>2
      <4> SUFFICES RefilledAt - a <= mono - t + jumped
        OBVIOUS
      <4> HIDE DEF a, t
      <4>2. CASE RefilledAt = lastRefill
        BY <4>1, <4>2
      <4>3. CASE RefilledAt = mono + jumped - setBack
        BY <1>1, <4>1, <4>3
      <4> QED
        BY <1>6, <4>2, <4>3
    <3> QED
      BY <3>1, <3>2, <3>3
  <2> QED
    BY <1>1, <2>1, <2>2
<1>9. Windows'
  <2> SUFFICES ASSUME NEW i \in 1..(n + 1), NEW j \in 1..(n + 1), i <= j
               PROVE  /\ (j - i + 1) * Unit <=
                           Full + RefillPerSec * (grants'[j].at - grants'[i].at)
                      /\ grants'[j].at - grants'[i].at <=
                           grantedAt'[grants'[j].call]
                           - grantedAt'[grants'[i].call] + jumped
    BY <1>2, <1>3 DEF Windows, Full, Unit
  <2>1. CASE j \in 1..n
    <3>1. i \in 1..n
      BY <1>1, <2>1
    <3>2. /\ grants'[i] = grants[i] /\ grants'[j] = grants[j]
          /\ grantedAt'[grants[i].call] = grantedAt[grants[i].call]
          /\ grantedAt'[grants[j].call] = grantedAt[grants[j].call]
      BY <1>2, <1>5, <2>1, <3>1
    <3> QED
      BY <2>1, <3>1, <3>2 DEF LedgerInv, Windows
  <2>2. CASE j = n + 1
    <3>1. /\ grants'[j] = [call |-> c, at |-> RefilledAt]
          /\ grantedAt'[grants'[j].call] = mono
      BY <1>2, <1>4, <2>2
    <3>2. /\ RefilledAt - grants'[i].at <= mono - grantedAt'[grants'[i].call] + jumped
      BY <1>2, <1>3, <1>8 DEF RealTime
    <3>3. (n + 1 - i + 1) * Unit + (Credited - Unit) <=
            Full + RefillPerSec * (RefilledAt - grants'[i].at)
      BY <1>2, <1>3, <1>7 DEF Ledger, Full, Unit
    <3>4. /\ (n + 1 - i + 1) * Unit \in Int
          /\ grants'[i].at \in Int
          /\ RefillPerSec * (RefilledAt - grants'[i].at) \in Int
      <4>1. grants'[i].at \in Int
        BY <1>1, <1>2
      <4>2. n + 1 - i + 1 \in Int /\ Unit \in Int
        BY <1>1
      <4>3. RefillPerSec \in Int /\ RefilledAt - grants'[i].at \in Int
        BY <1>1, <4>1
      <4> QED
        BY <4>1, <4>2, <4>3, IntClosed, Zenon
    <3>5. (j - i + 1) * Unit <= Full + RefillPerSec * (RefilledAt - grants'[i].at)
      <4> DEFINE p == (n + 1 - i + 1) * Unit
                 q == RefillPerSec * (RefilledAt - grants'[i].at)
      <4>1. (j - i + 1) * Unit = p
        BY <2>2
      <4>2. p \in Int /\ q \in Int /\ p + (Credited - Unit) <= Full + q
        BY <3>3, <3>4
      <4>3. Credited \in Int /\ Credited >= Unit /\ Unit \in Int /\ Full \in Int
        BY <1>1, <1>6
      <4> HIDE DEF p, q
      <4>4. p <= Full + q
        BY <4>2, <4>3
      <4> QED
        BY <4>1, <4>4 DEF p, q
    <3> QED
      BY <3>1, <3>2, <3>5
  <2> QED
    BY <1>1, <2>1, <2>2
<1> QED
  BY <1>7, <1>8, <1>9 DEF LedgerInv

\* Going to sleep only moves what refill() credited into the bucket.
LEMMA SleepKeepsLedger ==
  ASSUME TypeOK, LedgerInv, NEW c \in Calls, Sleep(c)
  PROVE  LedgerInv'
<1>1. /\ grants' = grants /\ grantedAt' = grantedAt
      /\ tokens' = Credited /\ lastRefill' = RefilledAt
      /\ mono' = mono /\ jumped' = jumped /\ setBack' = setBack
  BY DEF Sleep, clocks
<1>2. \A d \in Calls : pc[d] = "granted" => pc'[d] = "granted"
  BY DEF Sleep, TypeOK, Runnable, Reserving
<1>3. /\ RefilledAt >= lastRefill
      /\ RefilledAt = lastRefill \/ RefilledAt = mono + jumped - setBack
  BY RefillFacts DEF Now
<1>4. Ledger'
  <2> SUFFICES ASSUME NEW i \in 1..Len(grants)
               PROVE  /\ grants[i].at <= RefilledAt
                      /\ (Len(grants) - i + 1) * Unit + Credited <=
                           Full + RefillPerSec * (RefilledAt - grants[i].at)
    BY <1>1 DEF Ledger, Full, Unit
  <2>1. grants[i].at <= lastRefill /\ grants[i].at \in Int
    BY LedgerTypes DEF LedgerInv, Ledger
  <2>2. lastRefill \in Int /\ RefilledAt \in Int
    BY LedgerTypes
  <2>3. grants[i].at <= RefilledAt
    BY <1>3, <2>1, <2>2
  <2> QED
    BY <2>3, RefilledLedger DEF LedgerInv
<1>5. RealTime'
  <2> SUFFICES ASSUME NEW i \in 1..Len(grants)
               PROVE  /\ pc'[grants[i].call] = "granted"
                      /\ grants[i].at >= grantedAt[grants[i].call] - setBack
                      /\ RefilledAt - grants[i].at <=
                           mono - grantedAt[grants[i].call] + jumped
    BY <1>1 DEF RealTime
  <2> DEFINE a == grants[i].at
             t == grantedAt[grants[i].call]
  <2>1. grants[i].call \in Calls /\ a \in Int
    BY LedgerTypes
  <2>2. /\ pc[grants[i].call] = "granted" /\ a >= t - setBack
        /\ lastRefill - a <= mono - t + jumped
    BY DEF LedgerInv, RealTime
  <2>3. t \in Int
    BY <2>1, LedgerTypes
  <2> SUFFICES RefilledAt - a <= mono - t + jumped
    BY <1>2, <2>1, <2>2
  <2> HIDE DEF a, t
  <2>4. CASE RefilledAt = lastRefill
    BY <2>2, <2>4
  <2>5. CASE RefilledAt = mono + jumped - setBack
    <3>1. mono \in Int /\ jumped \in Int /\ setBack \in Int
      BY LedgerTypes
    <3> QED
      BY <2>1, <2>2, <2>3, <2>5, <3>1
  <2> QED
    BY <1>3, <2>4, <2>5
<1>6. Windows'
  BY <1>1 DEF LedgerInv, Windows, Full, Unit
<1> QED
  BY <1>4, <1>5, <1>6 DEF LedgerInv

\* Time going by, the wall clock being adjusted and calls arriving leave the
\* ledger true: none of them touches the bucket, and mono, jumped and setBack
\* only grow.
LEMMA TimeKeepsLedger ==
  ASSUME TypeOK, LedgerInv,
         tokens' = tokens, lastRefill' = lastRefill,
         grants' = grants, grantedAt' = grantedAt,
         \A d \in Calls : pc[d] = "granted" => pc'[d] = "granted",
         NEW m \in Int, NEW j \in Int, NEW s \in Int,
         mono' = m, jumped' = j, setBack' = s,
         m >= mono, j >= jumped, s >= setBack
  PROVE  LedgerInv'
<1>1. Ledger'
  BY DEF LedgerInv, Ledger, Full, Unit
<1>2. RealTime'
  <2> SUFFICES ASSUME NEW i \in 1..Len(grants)
               PROVE  /\ pc'[grants[i].call] = "granted"
                      /\ grants[i].at >= grantedAt[grants[i].call] - s
                      /\ lastRefill - grants[i].at <=
                           m - grantedAt[grants[i].call] + j
    BY DEF RealTime
  <2> DEFINE a == grants[i].at
             t == grantedAt[grants[i].call]
  <2>1. grants[i].call \in Calls /\ a \in Int
    BY LedgerTypes
  <2>2. /\ pc[grants[i].call] = "granted" /\ a >= t - setBack
        /\ lastRefill - a <= mono - t + jumped
    BY DEF LedgerInv, RealTime
  <2>3. t \in Int
    BY <2>1, LedgerTypes
  <2> SUFFICES a >= t - s /\ lastRefill - a <= m - t + j
    BY <2>1, <2>2
  <2>4. lastRefill \in Int /\ mono \in Int /\ jumped \in Int /\ setBack \in Int
    BY LedgerTypes
  <2>5. a >= t - setBack /\ lastRefill - a <= mono - t + jumped
    BY <2>2
  <2> HIDE DEF a, t
  <2>6. a >= t - s
    BY <2>1, <2>3, <2>4, <2>5
  <2>7. lastRefill - a <= m - t + j
    BY <2>1, <2>3, <2>4, <2>5
  <2> QED
    BY <2>6, <2>7
<1>3. Windows'
  <2> SUFFICES ASSUME NEW i \in 1..Len(grants), NEW k \in 1..Len(grants), i <= k
               PROVE  grants[k].at - grants[i].at <=
                        grantedAt[grants[k].call] - grantedAt[grants[i].call]
                        + j
    BY DEF LedgerInv, Windows, Full, Unit
  <2> DEFINE x == grants[k].at - grants[i].at
             y == grantedAt[grants[k].call] - grantedAt[grants[i].call]
  <2>1. grants[i].call \in Calls /\ grants[k].call \in Calls
        /\ grants[i].at \in Int /\ grants[k].at \in Int
    BY LedgerTypes
  <2>2. grantedAt[grants[i].call] \in Int /\ grantedAt[grants[k].call] \in Int
    BY <2>1, LedgerTypes
  <2>3. x \in Int /\ y \in Int
    BY <2>1, <2>2, IntClosed, Zenon
  <2>4. jumped \in Int
    BY LedgerTypes
  <2>5. x <= y + jumped
    BY DEF LedgerInv, Windows
  <2> SUFFICES x <= y + j
    OBVIOUS
  <2> HIDE DEF x, y
  <2> QED
    BY <2>3, <2>4, <2>5
<1> QED
  BY <1>1, <1>2, <1>3 DEF LedgerInv

\* The ledger holds in every reachable state.
LEMMA LedgerCorrect == Spec => []LedgerInv
<1>1. Init => LedgerInv
  BY DEF Init, LedgerInv, Ledger, RealTime, Windows
<1>2. TypeOK /\ LedgerInv /\ [Next]_vars => LedgerInv'
  <2> SUFFICES ASSUME TypeOK, LedgerInv, [Next]_vars
               PROVE  LedgerInv'
    OBVIOUS
  <2>1. mono \in Int /\ jumped \in Int /\ setBack \in Int
    BY LedgerTypes
  <2>2. ASSUME NEW c \in Calls, Acquire(c)
        PROVE  LedgerInv'
    <3>1. \A d \in Calls : pc[d] = "granted" => pc'[d] = "granted"
      BY <2>2 DEF Acquire, TypeOK
    <3> QED
      BY <2>1, <2>2, <3>1, TimeKeepsLedger DEF Acquire, bucket, clocks
  <2>3. CASE Tick
    BY <2>1, <2>3, TimeKeepsLedger DEF Tick, bucket
  <2>4. CASE JumpForward
    BY <2>1, <2>4, TimeKeepsLedger DEF JumpForward, bucket
  <2>5. CASE SetBack
    BY <2>1, <2>5, TimeKeepsLedger DEF SetBack, bucket
  <2>6. CASE UNCHANGED vars
    BY <2>1, <2>6, TimeKeepsLedger DEF vars
  <2> QED
    BY <2>2, <2>3, <2>4, <2>5, <2>6, GrantKeepsLedger, SleepKeepsLedger
    DEF Next, Quiescent
<1> QED
  BY <1>1, <1>2, TypeCorrect, PTL DEF Spec

\* Over any stretch of real time the limiter lets through no more than a
\* burst and what the stretch earned, plus what the wall clock jumped over.
THEOREM PacedInRealTimeCorrect == Spec => []PacedInRealTime
<1>1. TypeOK /\ LedgerInv => PacedInRealTime
  <2> SUFFICES ASSUME TypeOK, LedgerInv,
                      NEW i \in 1..Len(grants), NEW j \in 1..Len(grants), i <= j
               PROVE  (j - i + 1) * Unit <=
                        Full + RefillPerSec * (grantedAt[grants[j].call]
                                               - grantedAt[grants[i].call] + jumped)
    BY DEF PacedInRealTime
  <2> DEFINE x == grants[j].at - grants[i].at
             y == grantedAt[grants[j].call] - grantedAt[grants[i].call] + jumped
             n == (j - i + 1) * Unit
  <2>1. /\ grants[i].call \in Calls /\ grants[j].call \in Calls
        /\ grants[i].at \in Int /\ grants[j].at \in Int
    BY LedgerTypes
  <2>2. grantedAt[grants[i].call] \in Int /\ grantedAt[grants[j].call] \in Int
    BY <2>1, LedgerTypes
  <2>3. jumped \in Int /\ Unit \in Int /\ Full \in Int /\ Len(grants) \in Nat
    BY LedgerTypes
  <2>4. x \in Int /\ y \in Int /\ n \in Int
    BY <2>1, <2>2, <2>3
  <2>5. n <= Full + RefillPerSec * x /\ x <= y
    BY DEF LedgerInv, Windows
  <2>6. RefillPerSec \in Nat
    BY LimiterAssumption
  <2> SUFFICES n <= Full + RefillPerSec * y
    OBVIOUS
  <2> HIDE DEF x, y, n
  <2>7. /\ RefillPerSec * x <= RefillPerSec * y
        /\ RefillPerSec * x \in Int /\ RefillPerSec * y \in Int
    BY <2>4, <2>5, <2>6, Products
  <2> QED
    BY <2>3, <2>4, <2>5, <2>7
<1> QED
  BY <1>1, TypeCorrect, LedgerCorrect, PTL

-----------------------------------------------------------------------------
(* How long a call is held: the next call in the chain sleeps until a time   *)
(* that no number of rounds of reserve() can put off.                        *)

\* Since when the call c is next: it has asked, and the one before is served.
Start(c) ==
  IF Len(grants) = 0 \/ askedAt[c] >= grantedAt[grants[Len(grants)].call]
  THEN askedAt[c] ELSE grantedAt[grants[Len(grants)].call]

Past ==
  /\ \A c \in Calls : askedAt[c] <= mono /\ grantedAt[c] <= mono
  /\ lastRefill <= mono + jumped

\* A call that can reserve does so at once.  One that sleeps misses less than
\* a token, which the wall clock earns in time, and is not woken after that.
Turn(c) ==
  /\ pc[c] = "queued" /\ Settled(prev[c]) => mono = Start(c)
  /\ pc[c] = "asleep" =>
       /\ tokens < Unit
       /\ lastRefill + WaitMs(Unit - tokens) <= Start(c) + jumped + WaitMs(Unit)
       /\ wake[c] <= Start(c) + WaitMs(Unit) + setBack
       /\ mono <= wake[c] + MaxLag

GapInv == Past /\ (\A c \in Calls : Turn(c)) /\ ServiceGap

\* Integer division, by what it bounds.
LEMMA CeilLeast ==
  ASSUME NEW r \in Nat \ {0}, NEW x \in Int, NEW k \in Int
  PROVE  /\ x \div r \in Int
         /\ r * (x \div r) <= x
         /\ r * k <= x => k <= x \div r
<1> DEFINE p == x \div r
<1>1. p \in Int /\ r * p <= x /\ x < r * p + r
  OBVIOUS
<1> HIDE DEF p
<1>2. ASSUME r * k <= x, k > p PROVE FALSE
  <2>1. p + 1 <= k
    BY <1>1, <1>2
  <2>2. r * (p + 1) <= r * k
    BY <1>1, <2>1, Products
  <2>3. r * (p + 1) = r * p + r
    BY <1>1
  <2>4. r * p \in Int /\ r * k \in Int
    BY <1>1
  <2> QED
    BY <1>1, <1>2, <2>2, <2>3, <2>4
<1> QED
  BY <1>1, <1>2 DEF p

\* What is missing of a token takes no longer than a token, and what the
\* clock earned meanwhile shortens the wait by as much.
LEMMA WaitShrinks ==
  ASSUME NEW n \in Int, n >= 1, NEW d \in Nat
  PROVE  /\ WaitMs(n) \in Int
         /\ WaitMs(n) + d <= WaitMs(n + RefillPerSec * d)
         /\ n <= Unit => WaitMs(n) <= WaitMs(Unit)
<1> DEFINE R == RefillPerSec
           W(k) == (k + R - 1) \div R
<1>1. R \in Nat /\ R \in Nat \ {0} /\ R >= 1 /\ Unit \in Int
  BY LimiterAssumption DEF Unit
<1>2. ASSUME NEW k \in Int, k >= 1
      PROVE  WaitMs(k) = W(k) /\ W(k) \in Int /\ R * W(k) <= k + R - 1
  <2> DEFINE x == k + R - 1
  <2>1. x \in Int /\ R * 1 <= x
    BY <1>1, <1>2
  <2> HIDE DEF x
  <2>2. x \div R \in Int /\ R * (x \div R) <= x /\ 1 <= x \div R
    BY <1>1, <2>1, CeilLeast
  <2>3. WaitMs(k) = x \div R
    BY <2>2 DEF WaitMs, x
  <2> QED
    BY <2>2, <2>3 DEF x
<1>3. R * d \in Nat
  BY <1>1
<1>4. n + R * d \in Int /\ n + R * d >= 1
  BY <1>3
<1>5. /\ W(n) \in Int /\ R * W(n) <= n + R - 1
      /\ WaitMs(n) = W(n) /\ WaitMs(n + R * d) = W(n + R * d)
  BY <1>2, <1>4
<1> DEFINE w == W(n)
           y == n + R * d + R - 1
<1>6. R * (w + d) <= y
  <2>1. w \in Int /\ R * w <= n + R - 1 /\ R * w \in Int
    BY <1>1, <1>5
  <2> HIDE DEF w
  <2>2. R * (w + d) = R * w + R * d
    BY <1>1, <2>1
  <2> QED
    BY <1>1, <1>3, <2>1, <2>2
<1>7. w + d \in Int /\ y \in Int
  BY <1>1, <1>3, <1>5
<1>8. w + d <= y \div R
  BY <1>1, <1>6, <1>7, CeilLeast
<1>9. n <= Unit => w <= W(Unit) /\ WaitMs(Unit) = W(Unit)
  <2> SUFFICES ASSUME n <= Unit PROVE w <= W(Unit) /\ WaitMs(Unit) = W(Unit)
    OBVIOUS
  <2>1. WaitMs(Unit) = W(Unit)
    BY <1>1, <1>2
  <2> DEFINE z == Unit + R - 1
  <2>2. w \in Int /\ R * w \in Int /\ R * w <= z /\ z \in Int
    BY <1>1, <1>5
  <2> HIDE DEF z, w
  <2>3. w <= z \div R
    BY <1>1, <2>2, CeilLeast
  <2> QED
    BY <2>1, <2>3 DEF z
<1> QED
  BY <1>5, <1>8, <1>9

\* The types of the numbers the gap is about.
LEMMA GapTypes ==
  ASSUME TypeOK
  PROVE  /\ mono \in Int /\ jumped \in Int /\ setBack \in Nat /\ lastRefill \in Int
         /\ tokens \in Int /\ Unit \in Int /\ MaxLag \in Nat /\ WaitMs(Unit) \in Nat
         /\ \A c \in Calls : /\ askedAt[c] \in Int /\ grantedAt[c] \in Int
                             /\ wake[c] \in Int /\ Start(c) \in Int
<1>1. /\ mono \in Int /\ jumped \in Int /\ setBack \in Nat /\ lastRefill \in Int
      /\ tokens \in Int /\ Unit \in Int /\ Len(grants) \in Nat
      /\ \A i \in 1..Len(grants) : grants[i].call \in Calls
  BY LedgerTypes
<1>2. \A c \in Calls : askedAt[c] \in Int /\ grantedAt[c] \in Int /\ wake[c] \in Int
  BY DEF TypeOK
<1>3. ASSUME NEW c \in Calls PROVE Start(c) \in Int
  <2>1. CASE Len(grants) = 0
    BY <1>2, <2>1 DEF Start
  <2>2. CASE Len(grants) # 0
    <3>1. grants[Len(grants)].call \in Calls
      BY <1>1, <2>2
    <3> HIDE DEF Start
    <3>2. askedAt[c] \in Int /\ grantedAt[grants[Len(grants)].call] \in Int
      BY <1>2, <3>1
    <3> QED
      BY <3>2 DEF Start
  <2> QED
    BY <2>1, <2>2
<1>4. MaxLag \in Nat /\ WaitMs(Unit) \in Nat
  BY <1>1, WaitMsType, LimiterAssumption
<1> QED
  BY <1>1, <1>2, <1>3, <1>4, LimiterAssumption

\* What changes neither bucket nor turn leaves the sleep of a call in order.
LEMMA TurnStays ==
  ASSUME TypeOK, NEW d \in Calls, Turn(d),
         pc'[d] = pc[d], Settled(prev[d])' => Settled(prev[d]),
         UNCHANGED <<tokens, lastRefill, mono>>, wake'[d] = wake[d], Start(d)' = Start(d),
         NEW j \in Int, NEW s \in Int, jumped' = j, setBack' = s, j >= jumped, s >= setBack
  PROVE  Turn(d)'
<1>1. (pc[d] = "queued" /\ Settled(prev[d])' => mono = Start(d))
  BY DEF Turn
<1>2. CASE pc[d] = "asleep"
  <2>1. /\ tokens < Unit
        /\ lastRefill + WaitMs(Unit - tokens) <= Start(d) + jumped + WaitMs(Unit)
        /\ wake[d] <= Start(d) + WaitMs(Unit) + setBack
        /\ mono <= wake[d] + MaxLag
    BY <1>2 DEF Turn
  <2>2. /\ jumped \in Int /\ setBack \in Int /\ lastRefill \in Int /\ Start(d) \in Int
        /\ WaitMs(Unit) \in Int /\ wake[d] \in Int
    BY GapTypes
  <2>3. WaitMs(Unit - tokens) \in Int
    BY GapTypes, WaitMsType
  <2> DEFINE a == WaitMs(Unit - tokens)  w == WaitMs(Unit)  b == Start(d)
  <2>4. a \in Int /\ w \in Int /\ b \in Int /\ lastRefill + a <= b + jumped + w /\ wake[d] <= b + w + setBack
    BY <2>1, <2>2, <2>3
  <2> HIDE DEF a, w, b
  <2>5. lastRefill + a <= b + j + w /\ wake[d] <= b + w + s
    BY <2>2, <2>4
  <2>6. /\ lastRefill + WaitMs(Unit - tokens) <= Start(d) + j + WaitMs(Unit)
        /\ wake[d] <= Start(d) + WaitMs(Unit) + s
    BY <2>5 DEF a, w, b
  <2>7. WaitMs(Unit)' = WaitMs(Unit) /\ WaitMs(Unit - tokens)' = WaitMs(Unit - tokens)
    BY DEF WaitMs, Unit
  <2> QED
    BY <1>2, <2>1, <2>6, <2>7 DEF Turn, Unit
<1>3. CASE pc[d] # "asleep"
  BY <1>1, <1>3 DEF Turn
<1> QED
  BY <1>2, <1>3

\* A bound that only grows.
LEMMA GapStays ==
  ASSUME TypeOK, ServiceGap, UNCHANGED <<grants, grantedAt>>,
         \A i \in 1..Len(grants) : askedAt'[grants[i].call] = askedAt[grants[i].call],
         NEW s \in Int, setBack' = s, s >= setBack
  PROVE  ServiceGap'
<1> SUFFICES ASSUME NEW i \in 1..Len(grants),
                    NEW c, c = grants[i].call,
                    NEW start, start = IF i = 1 \/ askedAt[c] >= grantedAt[grants[i - 1].call]
                                       THEN askedAt[c] ELSE grantedAt[grants[i - 1].call]
             PROVE  grantedAt[c] - start <= WaitMs(Unit) + MaxLag + s
  BY DEF ServiceGap, WaitMs, Unit
<1>1. /\ Len(grants) \in Nat /\ c \in Calls
      /\ i # 1 => i - 1 \in 1..Len(grants) /\ grants[i - 1].call \in Calls
  <2>1. Len(grants) \in Nat /\ \A k \in 1..Len(grants) : grants[k].call \in Calls
    BY LedgerTypes
  <2>2. \A l \in Nat : \A k \in 1..l : k # 1 => k - 1 \in 1..l
    OBVIOUS
  <2>3. i # 1 => i - 1 \in 1..Len(grants)
    BY <2>1, <2>2, Zenon
  <2> QED
    BY <2>1, <2>3, Zenon
<1>2. setBack \in Int /\ MaxLag \in Int /\ WaitMs(Unit) \in Int
      /\ grantedAt[c] \in Int /\ askedAt[c] \in Int
  BY <1>1, GapTypes
<1>3. start \in Int
  <2>1. i # 1 => grantedAt[grants[i - 1].call] \in Int
    BY <1>1, GapTypes
  <2> QED
    BY <1>2, <2>1
<1>4. grantedAt[c] - start <= WaitMs(Unit) + MaxLag + setBack
  BY DEF ServiceGap
<1> DEFINE g == grantedAt[c]  w == WaitMs(Unit)
<1>5. g \in Int /\ w \in Int /\ g - start <= w + MaxLag + setBack
  BY <1>2, <1>4
<1> HIDE DEF g, w
<1>6. g - start <= w + MaxLag + s
  <2>1. \A m, n, k, e, b, l \in Int : m - n <= k + l + b /\ b <= e => m - n <= k + l + e
    OBVIOUS
  <2>2. setBack <= s
    BY <1>2
  <2> QED
    BY <1>2, <1>3, <1>5, <2>1, <2>2, Zenon
<1> QED
  BY <1>6 DEF g, w

LEMMA AcquireKeepsGap ==
  ASSUME TypeOK, ChainInv, LedgerInv, GapInv, NEW c \in Calls, Acquire(c)
  PROVE  GapInv'
<1>1. /\ pc[c] = "idle" /\ pc' = [pc EXCEPT ![c] = "queued"]
      /\ prev' = [prev EXCEPT ![c] = chain]
      /\ askedAt' = [askedAt EXCEPT ![c] = mono]
      /\ UNCHANGED <<tokens, lastRefill, wake, mono, jumped, setBack, grants, grantedAt>>
  BY DEF Acquire, bucket, clocks
<1>2. /\ Len(grants) \in Nat
      /\ \A i \in 1..Len(grants) : grants[i].call \in Calls /\ pc[grants[i].call] = "granted"
  BY LedgerTypes DEF LedgerInv, RealTime
<1>3. mono \in Int /\ jumped \in Int /\ setBack \in Int
      /\ \A d \in Calls : askedAt[d] <= mono /\ grantedAt[d] <= mono /\ grantedAt[d] \in Int
  BY GapTypes DEF GapInv, Past
<1>4. Past'
  BY <1>1, <1>3 DEF GapInv, Past, TypeOK
<1>5. ASSUME NEW d \in Calls PROVE Turn(d)'
  <2>1. CASE d = c
    <3>1. pc'[d] = "queued" /\ askedAt'[d] = mono
      BY <1>1, <2>1 DEF TypeOK
    <3>2. Len(grants) # 0 => grants[Len(grants)].call \in Calls
      BY <1>2
    <3>3. Len(grants) # 0 => grantedAt[grants[Len(grants)].call] <= mono
      BY <1>3, <3>2
    <3>4. Start(d)' = mono
      BY <1>1, <1>3, <3>1, <3>3 DEF Start
    <3> QED
      BY <1>1, <3>1, <3>4 DEF Turn
  <2>2. CASE d # c
    <3>1. pc'[d] = pc[d] /\ prev'[d] = prev[d] /\ askedAt'[d] = askedAt[d]
      BY <1>1, <2>2 DEF TypeOK
    <3>2. Settled(prev[d])' => Settled(prev[d])
      BY <1>1, <3>1 DEF Settled, TypeOK
    <3>3. Start(d)' = Start(d)
      BY <1>1, <3>1 DEF Start
    <3> QED
      BY <1>1, <1>3, <1>5, <3>1, <3>2, <3>3, TurnStays DEF GapInv
  <2> QED
    BY <2>1, <2>2
<1>6. ServiceGap'
  <2>1. \A i \in 1..Len(grants) : askedAt'[grants[i].call] = askedAt[grants[i].call]
    BY <1>1, <1>2 DEF TypeOK
  <2> QED
    BY <1>1, <1>3, <2>1, GapStays DEF GapInv
<1> QED
  BY <1>4, <1>5, <1>6 DEF GapInv

\* Nobody but the one call inside reserve() can be asleep or about to look.
LEMMA OneTurn ==
  ASSUME TypeOK, ChainInv, NEW c \in Calls, Reserving(c), NEW d \in Calls, d # c
  PROVE  pc[d] # "asleep" /\ ~(pc[d] = "queued" /\ Settled(prev[d]))
  BY ReservingIsNext DEF Reserving

LEMMA GrantKeepsGap ==
  ASSUME TypeOK, ChainInv, LedgerInv, GapInv, NEW c \in Calls, Grant(c)
  PROVE  GapInv'
<1> DEFINE n == Len(grants)
<1>1. /\ Reserving(c) /\ pc' = [pc EXCEPT ![c] = "granted"]
      /\ lastRefill' = RefilledAt
      /\ grants' = Append(grants, [call |-> c, at |-> RefilledAt])
      /\ grantedAt' = [grantedAt EXCEPT ![c] = mono]
      /\ UNCHANGED <<prev, mono, jumped, setBack, askedAt>>
  BY DEF Grant, Runnable, clocks
<1>2. /\ n \in Nat /\ Len(grants') = n + 1 /\ grants'[n + 1].call = c
      /\ \A i \in 1..n : grants'[i] = grants[i]
  BY <1>1 DEF TypeOK
<1>3. \A i \in 1..n : grants[i].call \in Calls /\ grants[i].call # c
  BY <1>1, LedgerTypes DEF LedgerInv, RealTime, Reserving
<1>4. /\ grantedAt'[c] = mono /\ \A d \in Calls \ {c} : grantedAt'[d] = grantedAt[d]
      /\ pc'[c] = "granted" /\ \A d \in Calls \ {c} : pc'[d] = pc[d]
  BY <1>1 DEF TypeOK
<1>5. /\ mono \in Int /\ jumped \in Int /\ setBack \in Nat /\ MaxLag \in Nat
      /\ WaitMs(Unit) \in Nat /\ Start(c) \in Int /\ wake[c] \in Int
      /\ \A d \in Calls : askedAt[d] <= mono /\ grantedAt[d] <= mono /\ askedAt[d] \in Int
  BY GapTypes DEF GapInv, Past
<1>6. Past'
  <2>1. lastRefill <= mono + jumped /\ Now <= mono + jumped
    BY <1>5 DEF GapInv, Past, Now
  <2>2. RefilledAt <= mono + jumped
    BY <2>1 DEF RefilledAt
  <2> QED
    BY <1>1, <1>4, <1>5, <2>2 DEF Past
<1> HIDE DEF n
<1>7. ASSUME NEW d \in Calls PROVE Turn(d)'
  <2>1. CASE d = c
    BY <1>4, <2>1 DEF Turn
  <2>2. CASE d # c
    <3>1. pc'[d] # "asleep"
      BY <1>1, <1>4, <2>2, OneTurn
    <3>2. Start(d)' = mono
      <4>1. Len(grants') # 0 /\ grantedAt'[grants'[Len(grants')].call] = mono
        BY <1>2, <1>4
      <4> QED
        BY <1>1, <1>5, <4>1 DEF Start
    <3> QED
      BY <1>1, <3>1, <3>2 DEF Turn
  <2> QED
    BY <2>1, <2>2
<1>8. mono - Start(c) <= WaitMs(Unit) + MaxLag + setBack
  <2>1. CASE pc[c] = "queued"
    <3>1. mono = Start(c)
      BY <1>1, <2>1 DEF Reserving, GapInv, Turn
    <3> QED
      BY <1>5, <3>1
  <2>2. CASE pc[c] = "asleep"
    <3>1. wake[c] <= Start(c) + WaitMs(Unit) + setBack /\ mono <= wake[c] + MaxLag
      BY <2>2 DEF GapInv, Turn
    <3> QED
      BY <1>5, <3>1
  <2> QED
    BY <1>1, <2>1, <2>2 DEF Reserving
<1>9. ServiceGap'
  <2> SUFFICES ASSUME NEW i \in 1..Len(grants'),
                      NEW e, e = grants'[i].call,
                      NEW start, start = IF i = 1 \/ askedAt[e] >= grantedAt'[grants'[i - 1].call]
                                         THEN askedAt[e] ELSE grantedAt'[grants'[i - 1].call]
               PROVE  grantedAt'[e] - start <= WaitMs(Unit) + MaxLag + setBack
    BY <1>1 DEF ServiceGap, WaitMs, Unit
  <2>1. i # 1 => /\ i - 1 \in 1..n /\ grants'[i - 1] = grants[i - 1]
                 /\ grantedAt'[grants'[i - 1].call] = grantedAt[grants[i - 1].call]
    BY <1>2, <1>3, <1>4
  <2>2. CASE i \in 1..n
    <3>1. /\ e = grants[i].call /\ grantedAt'[e] = grantedAt[e]
          /\ start = IF i = 1 \/ askedAt[e] >= grantedAt[grants[i - 1].call]
                     THEN askedAt[e] ELSE grantedAt[grants[i - 1].call]
      BY <1>2, <1>3, <1>4, <2>1, <2>2
    <3>2. grantedAt[e] - start <= WaitMs(Unit) + MaxLag + setBack
      BY <2>2, <3>1 DEF GapInv, ServiceGap, n
    <3> QED
      BY <3>1, <3>2
  <2>3. CASE i = n + 1
    <3>1. e = c /\ grantedAt'[e] = mono
      BY <1>2, <1>4, <2>3
    <3>2. (i = 1 <=> n = 0) /\ (i # 1 => i - 1 = n)
      BY <1>2, <2>3
    <3>3. start = Start(c)
      BY <2>1, <3>1, <3>2 DEF Start, n
    <3> QED
      BY <1>8, <3>1, <3>3
  <2> QED
    BY <1>2, <2>2, <2>3
<1> QED
  BY <1>6, <1>7, <1>9 DEF GapInv

\* Sleeping again puts the end of the wait off by nothing but a clock set back.
LEMMA SleepKeepsGap ==
  ASSUME TypeOK, ChainInv, LedgerInv, GapInv, NEW c \in Calls, Sleep(c)
  PROVE  GapInv'
<1>1. /\ Reserving(c) /\ pc' = [pc EXCEPT ![c] = "asleep"]
      /\ Credited < Unit /\ tokens' = Credited /\ lastRefill' = RefilledAt
      /\ wake' = [wake EXCEPT ![c] = mono + WaitMs(Unit - Credited)]
      /\ UNCHANGED <<prev, mono, jumped, setBack, grants, askedAt, grantedAt>>
  BY DEF Sleep, Runnable, clocks
<1>2. /\ pc'[c] = "asleep" /\ wake'[c] = mono + WaitMs(Unit - Credited)
      /\ \A d \in Calls \ {c} : pc'[d] = pc[d] /\ wake'[d] = wake[d]
  BY <1>1 DEF TypeOK
<1>3. \A d \in Calls : Start(d)' = Start(d)
  BY <1>1 DEF Start
<1>4. /\ mono \in Int /\ jumped \in Int /\ setBack \in Nat /\ MaxLag \in Nat
      /\ WaitMs(Unit) \in Nat /\ Start(c) \in Int /\ lastRefill \in Int /\ tokens \in Int
      /\ Unit \in Int /\ Credited \in Int /\ RefilledAt \in Int
  BY GapTypes, LedgerTypes
<1>5. lastRefill <= mono + jumped /\ Now = mono + jumped - setBack /\ Now \in Int
  BY <1>4 DEF GapInv, Past, Now
<1>6. Past'
  <2>1. RefilledAt <= mono + jumped
    BY <1>4, <1>5 DEF RefilledAt
  <2> QED
    BY <1>1, <2>1 DEF GapInv, Past
<1> DEFINE a == WaitMs(Unit - Credited)  w == WaitMs(Unit)
<1>7. Unit - Credited \in Int /\ Unit - Credited >= 1 /\ Unit - Credited <= Unit
  <2>1. Credited >= 0
    BY <1>4, RefillFacts, LedgerTypes
  <2> QED
    BY <1>1, <1>4, <2>1
<1>8. a \in Int /\ a <= w
  BY <1>7, WaitShrinks
<1>9. RefilledAt + a <= Start(c) + jumped + w
  <2>1. CASE pc[c] = "queued"
    <3>1. mono = Start(c)
      BY <1>1, <2>1 DEF Reserving, GapInv, Turn
    <3>2. RefilledAt <= mono + jumped
      BY <1>4, <1>5 DEF RefilledAt
    <3> HIDE DEF a, w
    <3>3. w \in Int
      BY <1>4 DEF w
    <3> QED
      BY <1>4, <1>8, <3>1, <3>2, <3>3
  <2>2. CASE pc[c] = "asleep"
    <3>1. lastRefill + WaitMs(Unit - tokens) <= Start(c) + jumped + w /\ tokens < Unit
      BY <2>2 DEF GapInv, Turn
    <3>2. CASE Now > lastRefill
      <4> DEFINE d == Now - lastRefill
      <4>1. d \in Nat
        BY <1>4, <1>5, <3>2
      <4>2. RefilledAt = lastRefill + d
        BY <1>4, <1>5, <3>2 DEF RefilledAt
      <4>3. Unit <= Full
        BY LimiterAssumption DEF Full, Unit
      <4>4. Credited = tokens + RefillPerSec * d
        <5>1. RefillPerSec * d \in Int /\ RefillPerSec * d = (Now - lastRefill) * RefillPerSec
          BY <1>4, <1>5, <4>1, LimiterAssumption
        <5>2. Full \in Int
          BY LedgerTypes
        <5> DEFINE g == (Now - lastRefill) * RefillPerSec
        <5>3. Credited = IF tokens + g < Full THEN tokens + g ELSE Full
          BY <3>2 DEF Credited
        <5>4. g \in Int
          BY <5>1
        <5> HIDE DEF g
        <5>5. Credited = tokens + g
          BY <1>1, <1>4, <4>3, <5>2, <5>3, <5>4
        <5> QED
          BY <5>1, <5>5 DEF g
      <4> HIDE DEF d
      <4>5. RefillPerSec * d \in Int
        BY <4>1, LimiterAssumption
      <4>6. Unit - tokens = (Unit - Credited) + RefillPerSec * d
        BY <1>4, <4>4, <4>5
      <4>7. a + d <= WaitMs((Unit - Credited) + RefillPerSec * d)
        BY <1>7, <4>1, WaitShrinks
      <4>8. WaitMs(Unit - tokens) \in Int
        BY <1>4, WaitMsType
      <4> DEFINE b == WaitMs(Unit - tokens)
      <4>9. a + d <= b /\ b \in Int /\ lastRefill + b <= Start(c) + jumped + w /\ w \in Int
        BY <1>4, <3>1, <4>6, <4>7, <4>8
      <4> HIDE DEF a, b, w
      <4> QED
        BY <1>4, <1>8, <4>1, <4>2, <4>9
    <3>3. CASE ~(Now > lastRefill)
      BY <3>1, <3>3 DEF RefilledAt, Credited
    <3> QED
      BY <3>2, <3>3
  <2> QED
    BY <1>1, <2>1, <2>2 DEF Reserving
<1>10. mono + a <= Start(c) + w + setBack /\ mono <= (mono + a) + MaxLag
  <2>1. Now <= RefilledAt /\ a \in Nat /\ w \in Int
    BY <1>4, <1>7, RefillFacts, WaitMsType
  <2> HIDE DEF a, w
  <2>2. mono + jumped - setBack <= RefilledAt
    BY <1>5, <2>1
  <2> QED
    BY <1>4, <1>9, <2>1, <2>2
<1>11. ASSUME NEW d \in Calls PROVE Turn(d)'
  <2>1. CASE d = c
    <3>1. WaitMs(Unit)' = w /\ WaitMs(Unit - tokens)' = a
      BY <1>1 DEF WaitMs, Unit
    <3> QED
      BY <1>1, <1>2, <1>3, <1>9, <1>10, <2>1, <3>1 DEF Turn, Unit
  <2>2. CASE d # c
    <3>1. pc'[d] # "asleep" /\ ~(pc'[d] = "queued" /\ Settled(prev[d]))
      BY <1>1, <1>2, <2>2, OneTurn
    <3>2. Settled(prev[d])' => Settled(prev[d])
      BY <1>1, <1>2 DEF Settled
    <3> QED
      BY <3>1, <3>2 DEF Turn
  <2> QED
    BY <2>1, <2>2
<1>12. ServiceGap'
  BY <1>1, <1>4, GapStays DEF GapInv
<1> QED
  BY <1>6, <1>11, <1>12 DEF GapInv

\* Time does not pass for a call that can go on, nor beyond a timer's lag.
LEMMA TickKeepsGap ==
  ASSUME TypeOK, GapInv, Tick
  PROVE  GapInv'
<1> DEFINE m == mono + 1
<1>1. mono' = m /\ UNCHANGED <<tokens, lastRefill, prev, pc, wake, jumped, setBack, grants,
                               askedAt, grantedAt>>
  BY DEF Tick, bucket
<1>2. mono \in Int /\ jumped \in Int /\ setBack \in Nat /\ lastRefill \in Int /\ MaxLag \in Nat
      /\ \A d \in Calls : askedAt[d] \in Int /\ grantedAt[d] \in Int /\ wake[d] \in Int
  BY GapTypes
<1>3. m \in Int /\ m = mono + 1
  BY <1>2
<1> HIDE DEF m
<1>4. Past'
  BY <1>1, <1>2, <1>3 DEF GapInv, Past
<1>5. ASSUME NEW d \in Calls PROVE Turn(d)'
  <2>1. ~Overdue(d) /\ Turn(d)
    BY DEF Tick, GapInv
  <2>2. Start(d)' = Start(d) /\ WaitMs(Unit)' = WaitMs(Unit)
        /\ WaitMs(Unit - tokens)' = WaitMs(Unit - tokens) /\ (Settled(prev[d])' <=> Settled(prev[d]))
    BY <1>1 DEF Start, WaitMs, Unit, Settled
  <2>3. CASE pc[d] = "queued" /\ Settled(prev[d])
    BY <2>1, <2>3 DEF Overdue, Runnable, Reserving
  <2>4. CASE pc[d] = "asleep"
    <3>1. ~(mono >= wake[d]) \/ ~(mono >= wake[d] + MaxLag)
      BY <2>1, <2>4 DEF Overdue, Runnable, Reserving
    <3>2. m <= wake[d] + MaxLag
      BY <1>2, <1>3, <3>1
    <3> QED
      BY <1>1, <2>1, <2>2, <2>4, <3>2 DEF Turn, Unit
  <2>5. CASE pc[d] # "asleep" /\ ~(pc[d] = "queued" /\ Settled(prev[d]))
    BY <1>1, <2>2, <2>5 DEF Turn
  <2> QED
    BY <2>3, <2>4, <2>5
<1>6. ServiceGap'
  BY <1>1, <1>2, GapStays DEF GapInv
<1> QED
  BY <1>4, <1>5, <1>6 DEF GapInv

\* The wall clock is adjusted, or nothing happens.
LEMMA ClockKeepsGap ==
  ASSUME TypeOK, GapInv,
         UNCHANGED <<tokens, lastRefill, prev, pc, wake, mono, grants, askedAt, grantedAt>>,
         NEW j \in Int, NEW s \in Int, jumped' = j, setBack' = s, j >= jumped, s >= setBack
  PROVE  GapInv'
<1>1. mono \in Int /\ jumped \in Int /\ lastRefill \in Int
  BY GapTypes
<1>2. Past'
  <2>1. lastRefill <= mono + j
    BY <1>1 DEF GapInv, Past
  <2> QED
    BY <2>1 DEF GapInv, Past
<1>3. ASSUME NEW d \in Calls PROVE Turn(d)'
  <2>1. Start(d)' = Start(d) /\ (Settled(prev[d])' <=> Settled(prev[d]))
    BY DEF Start, Settled
  <2> QED
    BY <1>3, <2>1, TurnStays DEF GapInv
<1>4. ServiceGap'
  BY GapStays DEF GapInv
<1> QED
  BY <1>2, <1>3, <1>4 DEF GapInv

\* The turn of each call keeps its limits through every step.
LEMMA GapCorrect == Spec => []GapInv
<1>1. Init => GapInv
  <2> SUFFICES ASSUME Init PROVE GapInv
    OBVIOUS
  <2>1. Past
    BY DEF Init, Past
  <2>2. \A c \in Calls : Turn(c)
    BY DEF Init, Turn
  <2>3. ServiceGap
    BY DEF Init, ServiceGap
  <2> QED
    BY <2>1, <2>2, <2>3 DEF GapInv
<1>2. TypeOK /\ ChainInv /\ LedgerInv /\ GapInv /\ [Next]_vars => GapInv'
  <2> SUFFICES ASSUME TypeOK, ChainInv, LedgerInv, GapInv, [Next]_vars
               PROVE  GapInv'
    OBVIOUS
  <2>1. mono \in Int /\ jumped \in Int /\ setBack \in Int
    BY GapTypes
  <2>2. CASE JumpForward
    BY <2>1, <2>2, ClockKeepsGap DEF JumpForward, bucket
  <2>3. CASE SetBack
    BY <2>1, <2>3, ClockKeepsGap DEF SetBack, bucket
  <2>4. CASE UNCHANGED vars
    BY <2>1, <2>4, ClockKeepsGap DEF vars
  <2> QED
    BY <2>2, <2>3, <2>4, AcquireKeepsGap, GrantKeepsGap, SleepKeepsGap, TickKeepsGap
    DEF Next, Quiescent
<1> QED
  BY <1>1, <1>2, TypeCorrect, ChainCorrect, LedgerCorrect, PTL DEF Spec

\* acquire() resolves within one token's refill time of its turn, plus once
\* the lag of a timer, plus what the wall clock was set back.
THEOREM ServiceGapCorrect == Spec => []ServiceGap
<1>1. GapInv => ServiceGap
  BY DEF GapInv
<1> QED
  BY <1>1, GapCorrect, PTL

-----------------------------------------------------------------------------
(* How long a call waits in the queue, whatever is in front of it.  The      *)
(* safety half of Served: there is always a call that looks next, it looks   *)
(* in time, and so every call leaves the queue in time.                      *)

\* The call whose turn it is.
NextUp == issued[Len(grants) + 1]

\* What one call costs those behind it: the refill of a token, the lag of a
\* timer and what the clock was set back.
Hold == WaitMs(Unit) + MaxLag + setBack

\* When the k-th call of the chain left it; now, if it has not.
LeftAt(k) == IF k <= Len(grants) THEN grantedAt[issued[k]] ELSE mono

\* Somebody waits only while exactly one call is inside reserve(), and that
\* one runs at once or is woken after a token's refill time.
NextUpLooks ==
  (\E c \in Calls : pc[c] \in {"queued", "asleep"}) =>
    /\ NextUp \in Calls /\ Reserving(NextUp)
    /\ pc[NextUp] = "asleep" => wake[NextUp] <= mono + WaitMs(Unit) + setBack

\* A call that finds all but m calls before it served when it asks waits no
\* longer, served by now or not, than Hold for each of the m and for itself.
WaitBounded ==
  \A j \in 1..Len(issued), i \in 0..Len(grants) :
    i < j /\ (i = 0 \/ grantedAt[issued[i]] <= askedAt[issued[j]])
      => LeftAt(j) - askedAt[issued[j]] <= (j - i) * Hold

AskedInOrder ==
  \A m, n \in 1..Len(issued) : m <= n => askedAt[issued[m]] <= askedAt[issued[n]]

\* Induction on the naturals, for a property given as a set: a smallest number
\* without it would be a contradiction.
LEMMA CountingUp ==
  ASSUME NEW G, 0 \in G, \A n \in Nat : n \in G => n + 1 \in G
  PROVE  Nat \subseteq G
<1> DEFINE Bad == Nat \ G
           R   == OpToRel(<, Nat)
<1> SUFFICES ASSUME Bad # {} PROVE FALSE
  OBVIOUS
<1>1. IsWellFoundedOn(R, Nat)
  BY NatLessThanWellFounded
<1>2. \A m, n \in Nat : m < n => <<m, n>> \in R
  BY DEF OpToRel
<1>3. Bad \subseteq Nat
  OBVIOUS
<1> HIDE DEF R, Bad
<1>4. PICK n \in Bad : \A m \in Bad : <<m, n>> \notin R
  BY <1>1, <1>3, WFMin
<1>5. n \in Nat \ {0} /\ n \notin G
  BY <1>4 DEF Bad
<1>6. n - 1 \in Nat /\ n - 1 < n /\ n - 1 \notin G
  BY <1>5
<1>7. n - 1 \in Bad /\ <<n - 1, n>> \in R
  BY <1>2, <1>5, <1>6 DEF Bad
<1> QED
  BY <1>4, <1>7
\* Time spent in a queue: l[k] is when the k-th leaves, at most b after it came (a[k]) and
\* the one before it left.
LEMMA Waits ==
  ASSUME NEW b \in Nat, NEW n \in Nat, NEW a \in [1..n -> Int], NEW l \in [1..n -> Int],
         \A k \in 1..n : l[k] <= a[k] + b \/ (k # 1 /\ l[k] <= l[k - 1] + b),
         NEW t \in Int, \A k \in 1..n : a[k] <= t,
         NEW i \in 0..n, i = 0 \/ l[i] <= t
  PROVE  \A k \in 1..n : i < k => l[k] <= t + (k - i) * b
<1> DEFINE G == {m \in Nat : i + m \in 1..n => l[i + m] <= t + m * b}
<1>1. 0 \in G
  BY DEF G
<1>2. ASSUME NEW m \in Nat, m \in G PROVE m + 1 \in G
  <2> SUFFICES ASSUME i + (m + 1) \in 1..n PROVE l[i + (m + 1)] <= t + (m + 1) * b
    OBVIOUS
  <2> DEFINE k == i + (m + 1)
             p == m * b
  <2>1. /\ k \in 1..n /\ k \in Int /\ k - 1 = i + m /\ (m + 1) * b = p + b /\ p \in Nat
    OBVIOUS
  <2>2. l[k] \in Int /\ a[k] \in Int /\ a[k] <= t
    BY <2>1
  <2>3. k # 1 => i + m \in 1..n /\ l[i + m] \in Int /\ l[i + m] <= t + p
    <3> SUFFICES ASSUME k # 1 PROVE i + m \in 1..n /\ l[i + m] \in Int /\ l[i + m] <= t + p
      OBVIOUS
    <3>1. i + m \in 1..n
      BY <2>1
    <3> QED
      BY <1>2, <3>1
  <2>4. l[k] <= a[k] + b \/ (k # 1 /\ l[k] <= l[i + m] + b)
    BY <2>1
  <2> HIDE DEF k, p, G
  <2>5. l[k] <= t + (p + b)
    BY <2>1, <2>2, <2>3, <2>4
  <2> QED
    BY <2>1, <2>5 DEF k
<1>3. Nat \subseteq G
  <2> HIDE DEF G
  <2> QED
    BY <1>1, <1>2, CountingUp
<1> TAKE k \in 1..n
<1> HAVE i < k
<1>4. k - i \in Nat /\ i + (k - i) = k
  OBVIOUS
<1>5. k - i \in G
  BY <1>3, <1>4
<1> QED
  BY <1>4, <1>5

\* The turn of a call began in the past.
LEMMA StartPast ==
  ASSUME TypeOK, Past, NEW c \in Calls
  PROVE  Start(c) <= mono
<1>1. Len(grants) # 0 => grants[Len(grants)].call \in Calls
  BY LedgerTypes
<1> QED
  BY <1>1 DEF Start, Past

\* The chain's calls and the numbers that belong to them.
LEMMA QueueTypes ==
  ASSUME TypeOK, ChainInv
  PROVE  /\ Len(issued) \in Nat /\ Len(grants) \in Nat /\ Len(grants) <= Len(issued)
         /\ \A k \in 1..Len(issued) :
              /\ issued[k] \in Calls
              /\ askedAt[issued[k]] \in Int /\ grantedAt[issued[k]] \in Int
              /\ LeftAt(k) \in Int
         /\ mono \in Int /\ Hold \in Nat
<1>1. Len(issued) \in Nat /\ Len(grants) \in Nat /\ Len(grants) <= Len(issued)
  BY DEF TypeOK, ChainInv
<1>2. \A k \in 1..Len(issued) : issued[k] \in Calls
  BY DEF TypeOK
<1>3. \A k \in 1..Len(issued) : askedAt[issued[k]] \in Int /\ grantedAt[issued[k]] \in Int
  BY <1>2, GapTypes
<1>4. mono \in Int
  BY GapTypes
<1>5. Hold \in Nat
  <2>1. WaitMs(Unit) \in Nat /\ MaxLag \in Nat /\ setBack \in Nat
    BY GapTypes
  <2> QED
    BY <2>1 DEF Hold
<1>6. \A k \in 1..Len(issued) : LeftAt(k) \in Int
  BY <1>3, <1>4 DEF LeftAt
<1> QED
  BY <1>1, <1>2, <1>3, <1>4, <1>5, <1>6

\* While a call waits the next one in the chain may go on: its predecessor is
\* served, or there is none.
LEMMA NextUpReserves ==
  ASSUME TypeOK, ChainInv, Len(grants) < Len(issued)
  PROVE  /\ Len(grants) + 1 \in 1..Len(issued)
         /\ NextUp \in Calls /\ Reserving(NextUp)
<1>1. Len(issued) \in Nat /\ Len(grants) \in Nat /\ Len(grants) + 1 \in 1..Len(issued)
  BY DEF TypeOK
<1>2. NextUp \in Calls /\ pc[NextUp] # "idle"
  BY <1>1, QueueTypes DEF NextUp, ChainInv
<1>3. pc[NextUp] # "granted"
  <2>1. ~(Len(grants) + 1 <= Len(grants))
    BY <1>1
  <2> QED
    BY <1>1, <2>1 DEF NextUp, ChainInv
<1>4. Settled(prev[NextUp])
  <2>1. CASE Len(grants) = 0
    BY <1>1, <2>1 DEF NextUp, ChainInv, Settled
  <2>2. CASE Len(grants) # 0
    <3> DEFINE k == Len(grants) + 1
    <3>1. k - 1 \in 1..Len(issued) /\ k - 1 <= Len(grants) /\ k # 1
      BY <1>1, <2>2
    <3>2. prev[NextUp] = issued[k - 1]
      BY <1>1, <3>1 DEF NextUp, ChainInv
    <3>3. issued[k - 1] \in Calls /\ pc[issued[k - 1]] = "granted"
      BY <3>1, QueueTypes DEF ChainInv
    <3> QED
      BY <3>2, <3>3 DEF Settled
  <2> QED
    BY <2>1, <2>2
<1>5. pc[NextUp] \in {"idle", "queued", "asleep", "granted"}
  BY <1>2 DEF TypeOK
<1> QED
  BY <1>1, <1>2, <1>3, <1>4, <1>5 DEF Reserving

\* The lock of the promise chain is never lost: while any call waits, one is
\* inside reserve(), and it looks at the bucket again within bounded time.
THEOREM NextUpLooksCorrect == Spec => []NextUpLooks
<1>1. TypeOK /\ ChainInv /\ GapInv => NextUpLooks
  <2> SUFFICES ASSUME TypeOK, ChainInv, GapInv,
                      NEW c \in Calls, pc[c] \in {"queued", "asleep"}
               PROVE  /\ NextUp \in Calls /\ Reserving(NextUp)
                      /\ pc[NextUp] = "asleep" => wake[NextUp] <= mono + WaitMs(Unit) + setBack
    BY DEF NextUpLooks
  <2>1. PICK i \in 1..Len(issued) : issued[i] = c
    BY DEF ChainInv
  <2>2. ~(i <= Len(grants))
    BY <2>1 DEF ChainInv
  <2>3. Len(grants) < Len(issued)
    BY <2>1, <2>2, QueueTypes
  <2>4. NextUp \in Calls /\ Reserving(NextUp)
    BY <2>3, NextUpReserves
  <2>5. ASSUME pc[NextUp] = "asleep"
        PROVE  wake[NextUp] <= mono + WaitMs(Unit) + setBack
    <3> DEFINE w == WaitMs(Unit)  s == Start(NextUp)  e == wake[NextUp]
    <3>1. e <= s + w + setBack
      BY <2>4, <2>5 DEF GapInv, Turn
    <3>2. s \in Int /\ w \in Int /\ e \in Int /\ mono \in Int /\ setBack \in Int
      BY <2>4, GapTypes
    <3>3. s <= mono
      BY <2>4, StartPast DEF GapInv
    <3> HIDE DEF w, s, e
    <3>4. e <= mono + w + setBack
      BY <3>1, <3>2, <3>3
    <3> QED
      BY <3>4 DEF w, e
  <2> QED
    BY <2>4, <2>5
<1> QED
  BY <1>1, TypeCorrect, ChainCorrect, GapCorrect, PTL

\* Calls ask one after the other, and time does not run backwards.
LEMMA AskedInOrderCorrect == Spec => []AskedInOrder
<1>1. Init => AskedInOrder
  BY DEF Init, AskedInOrder
<1>2. TypeOK /\ ChainInv /\ GapInv /\ AskedInOrder /\ [Next]_vars => AskedInOrder'
  <2> SUFFICES ASSUME TypeOK, ChainInv, GapInv, AskedInOrder, [Next]_vars
               PROVE  AskedInOrder'
    OBVIOUS
  <2>1. ASSUME NEW c \in Calls, Acquire(c)
        PROVE  AskedInOrder'
    <3> DEFINE l == Len(issued)
    <3>1. /\ l \in Nat /\ mono \in Int
          /\ \A k \in 1..l : issued[k] \in Calls /\ askedAt[issued[k]] \in Int
      BY QueueTypes
    <3>2. /\ Len(issued') = l + 1 /\ issued'[l + 1] = c
          /\ \A k \in 1..l : issued'[k] = issued[k]
      BY <2>1 DEF Acquire, TypeOK
    <3>3. \A k \in 1..l : issued[k] # c
      BY <2>1 DEF Acquire, ChainInv
    <3>4. askedAt'[c] = mono /\ \A d \in Calls : d # c => askedAt'[d] = askedAt[d]
      BY <2>1 DEF Acquire, TypeOK
    <3>5. \A k \in 1..l : askedAt[issued[k]] <= mono
      BY <3>1 DEF GapInv, Past
    <3> SUFFICES ASSUME NEW m \in 1..(l + 1), NEW n \in 1..(l + 1), m <= n
                 PROVE  askedAt'[issued'[m]] <= askedAt'[issued'[n]]
      BY <3>2 DEF AskedInOrder
    <3> HIDE DEF l
    <3>6. CASE n = l + 1 /\ m = l + 1
      BY <3>1, <3>2, <3>4, <3>6
    <3>7. CASE n = l + 1 /\ m \in 1..l
      BY <3>1, <3>2, <3>3, <3>4, <3>5, <3>7
    <3>8. CASE n \in 1..l
      <4>1. m \in 1..l
        BY <3>1, <3>8
      <4>2. askedAt[issued[m]] <= askedAt[issued[n]]
        BY <3>8, <4>1 DEF AskedInOrder, l
      <4> QED
        BY <3>1, <3>2, <3>3, <3>4, <3>8, <4>1, <4>2
    <3> QED
      BY <3>1, <3>6, <3>7, <3>8
  <2>2. CASE UNCHANGED <<issued, askedAt>>
    BY <2>2 DEF AskedInOrder
  <2> QED
    BY <2>1, <2>2 DEF Next, Grant, Sleep, Tick, JumpForward, SetBack, Quiescent, vars
<1> QED
  BY <1>1, <1>2, TypeCorrect, ChainCorrect, GapCorrect, PTL DEF Spec

\* A call leaves at most Hold after it asked or, if that is later, after the
\* one before it left; for the next one that holds at any time.
LEMMA LeavesInTime ==
  ASSUME TypeOK, ChainInv, GapInv, NEW k \in 1..Len(issued), k <= Len(grants) + 1
  PROVE  \/ LeftAt(k) <= askedAt[issued[k]] + Hold
         \/ k # 1 /\ LeftAt(k) <= LeftAt(k - 1) + Hold
<1> DEFINE a == askedAt[issued[k]]
           p == LeftAt(k - 1)
           w == WaitMs(Unit)
<1>1. /\ Len(issued) \in Nat /\ Len(grants) \in Nat
      /\ mono \in Int /\ setBack \in Int /\ MaxLag \in Int /\ w \in Int /\ a \in Int
      /\ LeftAt(k) \in Int
  BY QueueTypes, GapTypes
<1>2. k # 1 => /\ k - 1 \in 1..Len(issued) /\ k - 1 \in 1..Len(grants) /\ p \in Int
               /\ p = grantedAt[issued[k - 1]]
  <2> SUFFICES ASSUME k # 1
               PROVE  /\ k - 1 \in 1..Len(issued) /\ k - 1 \in 1..Len(grants) /\ p \in Int
                      /\ p = grantedAt[issued[k - 1]]
    OBVIOUS
  <2>1. k - 1 \in 1..Len(issued) /\ k - 1 \in 1..Len(grants)
    BY <1>1
  <2>2. p \in Int
    BY <2>1, QueueTypes
  <2> QED
    BY <2>1, <2>2 DEF LeftAt
<1>3. \A g \in 1..Len(grants) : grants[g].call = issued[g]
  BY DEF ChainInv
<1>4. \E s \in Int : /\ s = a \/ (k # 1 /\ s = p)
                     /\ LeftAt(k) <= s + w + MaxLag + setBack
  <2>1. CASE k <= Len(grants)
    <3> DEFINE s == IF k = 1 \/ a >= p THEN a ELSE p
               g == grantedAt[issued[k]]
    <3>1. k \in 1..Len(grants) /\ LeftAt(k) = g /\ g \in Int
      BY <1>1, <2>1 DEF LeftAt
    <3>2. grants[k].call = issued[k] /\ (k # 1 => grants[k - 1].call = issued[k - 1])
      BY <1>2, <1>3, <3>1
    <3>3. g - s <= w + MaxLag + setBack
      BY <1>2, <3>1, <3>2 DEF GapInv, ServiceGap
    <3>4. s \in Int /\ (s = a \/ (k # 1 /\ s = p))
      BY <1>1, <1>2
    <3> HIDE DEF s, g, w, a, p
    <3>5. g <= s + w + MaxLag + setBack
      BY <1>1, <3>1, <3>3, <3>4
    <3> QED
      BY <3>1, <3>4, <3>5
  <2>2. CASE k = Len(grants) + 1
    <3> DEFINE s == Start(NextUp)
    <3>1. Len(grants) < Len(issued) /\ issued[k] = NextUp /\ LeftAt(k) = mono
      BY <1>1, <2>2 DEF NextUp, LeftAt
    <3>2. NextUp \in Calls /\ Reserving(NextUp)
      BY <3>1, NextUpReserves
    <3>3. s \in Int /\ wake[NextUp] \in Int
      BY <3>2, GapTypes
    <3>4. s = a \/ (k # 1 /\ s = p)
      <4>1. k # 1 <=> Len(grants) # 0
        BY <1>1, <2>2
      <4>2. k - 1 = Len(grants)
        BY <1>1, <2>2
      <4>3. Len(grants) # 0 => grantedAt[grants[Len(grants)].call] = p
        BY <1>2, <1>3, <4>1, <4>2
      <4> HIDE DEF p
      <4> QED
        BY <3>1, <4>1, <4>3 DEF Start
    <3>5. mono <= s + w + MaxLag + setBack
      <4>1. w >= 0 /\ MaxLag >= 0 /\ setBack >= 0
        BY GapTypes
      <4>2. CASE pc[NextUp] = "queued" /\ Settled(prev[NextUp])
        <5>1. mono = s
          BY <3>2, <4>2 DEF GapInv, Turn
        <5> HIDE DEF s, w
        <5> QED
          BY <1>1, <3>3, <4>1, <5>1
      <4>3. CASE pc[NextUp] = "asleep"
        <5>1. wake[NextUp] <= s + w + setBack /\ mono <= wake[NextUp] + MaxLag
          BY <3>2, <4>3 DEF GapInv, Turn
        <5> HIDE DEF s, w
        <5> QED
          BY <1>1, <3>3, <5>1
      <4> QED
        BY <3>2, <4>2, <4>3 DEF Reserving
    <3> HIDE DEF s
    <3> QED
      BY <3>1, <3>3, <3>4, <3>5
  <2> QED
    BY <1>1, <2>1, <2>2
<1>5. Hold = w + MaxLag + setBack
  BY DEF Hold
<1> HIDE DEF a, p, w
<1>6. PICK s \in Int : /\ s = a \/ (k # 1 /\ s = p)
                       /\ LeftAt(k) <= s + w + MaxLag + setBack
  BY <1>4
<1>7. LeftAt(k) <= s + Hold
  BY <1>1, <1>5, <1>6
<1> QED
  BY <1>6, <1>7 DEF a, p

\* No call waits longer than one refill, lag and setback for itself and for
\* each call it found waiting: time-bounded service, with any number of calls
\* in front, whoever sleeps and however the wall clock is moved.
THEOREM WaitBoundedCorrect == Spec => []WaitBounded
<1>1. TypeOK /\ ChainInv /\ GapInv /\ AskedInOrder => WaitBounded
  <2> SUFFICES ASSUME TypeOK, ChainInv, GapInv, AskedInOrder,
                      NEW j \in 1..Len(issued), NEW i \in 0..Len(grants),
                      i < j, i = 0 \/ grantedAt[issued[i]] <= askedAt[issued[j]]
               PROVE  LeftAt(j) - askedAt[issued[j]] <= (j - i) * Hold
    BY DEF WaitBounded
  <2> DEFINE n == IF j <= Len(grants) THEN j ELSE Len(grants) + 1
             a == [k \in 1..n |-> askedAt[issued[k]]]
             l == [k \in 1..n |-> LeftAt(k)]
             t == askedAt[issued[j]]
  <2>1. Len(issued) \in Nat /\ Len(grants) \in Nat /\ Hold \in Nat /\ t \in Int
    BY QueueTypes
  <2>2. n \in Nat /\ n \in 1..Len(issued) /\ n <= Len(grants) + 1 /\ n <= j /\ i < n
    BY <2>1
  <2>3. LeftAt(n) = LeftAt(j)
    BY <2>1 DEF LeftAt
  <2> HIDE DEF n
  <2>4. \A k \in 1..n : k \in 1..Len(issued) /\ k <= Len(grants) + 1 /\ k <= j
    BY <2>1, <2>2
  <2>5. a \in [1..n -> Int] /\ l \in [1..n -> Int]
    BY <2>4, QueueTypes
  <2>6. \A k \in 1..n : l[k] <= a[k] + Hold \/ (k # 1 /\ l[k] <= l[k - 1] + Hold)
    <3> TAKE k \in 1..n
    <3>1. l[k] = LeftAt(k) /\ a[k] = askedAt[issued[k]]
      OBVIOUS
    <3>2. k # 1 => l[k - 1] = LeftAt(k - 1)
      BY <2>2
    <3> HIDE DEF l, a
    <3> QED
      BY <2>4, <3>1, <3>2, LeavesInTime
  <2>7. \A k \in 1..n : a[k] <= t
    BY <2>4 DEF AskedInOrder
  <2>8. i \in 0..n /\ (i = 0 \/ l[i] <= t)
    BY <2>1, <2>2 DEF LeftAt
  <2>9. n \in 1..n /\ l[n] = LeftAt(j)
    BY <2>2, <2>3
  <2> HIDE DEF a, l, t
  <2>10. LeftAt(j) <= t + (n - i) * Hold
    BY <2>1, <2>2, <2>5, <2>6, <2>7, <2>8, <2>9, Waits
  <2>11. (n - i) * Hold <= (j - i) * Hold
    <3>1. n - i \in Int /\ j - i \in Int /\ n - i <= j - i
      BY <2>2
    <3>2. Hold * (n - i) <= Hold * (j - i)
      BY <2>1, <3>1, Products
    <3> QED
      BY <2>1, <3>1, <3>2
  <2>12. LeftAt(j) \in Int /\ (n - i) * Hold \in Int /\ (j - i) * Hold \in Int
    BY <2>1, <2>2, QueueTypes
  <2>13. LeftAt(j) - t <= (j - i) * Hold
    BY <2>1, <2>10, <2>11, <2>12
  <2> QED
    BY <2>13 DEF t
<1> QED
  BY <1>1, TypeCorrect, ChainCorrect, GapCorrect, AskedInOrderCorrect, PTL

-----------------------------------------------------------------------------
(* The limiter implements PacedGrants: acquire() is Ask, taking a token is   *)
(* Serve, and everything else is invisible.                                  *)

\* The bucket and the promise chain deliver what PacedGrants promises.
THEOREM Implements == Spec => ImplementsPacedGrants
<1>1. Init => Paced!Init
  BY DEF Init, Paced!Init
<1>2. TypeOK /\ ChainInv /\ LedgerInv /\ [Next]_vars => [Paced!Next]_Paced!vars
  <2> SUFFICES ASSUME TypeOK, ChainInv, LedgerInv, [Next]_vars
               PROVE  [Paced!Next]_Paced!vars
    OBVIOUS
  <2>1. ASSUME NEW c \in Calls, Acquire(c)
        PROVE  Paced!Ask(c)
    BY <2>1 DEF Acquire, Paced!Ask, ChainInv
  <2>2. ASSUME NEW c \in Calls, Grant(c)
        PROVE  Paced!Serve(RefilledAt)
    <3>1. /\ Len(grants) + 1 \in 1..Len(issued)
          /\ c = issued[Len(grants) + 1]
      BY <2>2, ReservingIsNext DEF Grant, Runnable
    <3>2. Len(grants) < Len(issued)
      BY <3>1, LedgerTypes DEF TypeOK
    <3>3. \A i \in 1..Len(grants) : grants[i].at <= RefilledAt
      <4> TAKE i \in 1..Len(grants)
      <4>1. grants[i].at \in Int /\ grants[i].at <= lastRefill
        BY LedgerTypes DEF LedgerInv, Ledger
      <4>2. lastRefill \in Int /\ RefilledAt \in Int /\ RefilledAt >= lastRefill
        BY LedgerTypes, RefillFacts
      <4> QED
        BY <4>1, <4>2
    <3>4. Paced!Affordable(RefilledAt)
      <4> SUFFICES ASSUME NEW i \in 1..Len(grants)
                   PROVE  (Len(grants) - i + 2) * Unit <=
                            Full + RefillPerSec * (RefilledAt - grants[i].at)
        BY DEF Paced!Affordable, Full
      <4> DEFINE n == (Len(grants) - i + 1) * Unit
                 e == RefillPerSec * (RefilledAt - grants[i].at)
      <4>1. Credited >= Unit
        BY <2>2 DEF Grant
      <4>2. n + Credited <= Full + e
        BY RefilledLedger DEF LedgerInv
      <4>3. (Len(grants) - i + 2) * Unit = n + Unit
        BY LedgerTypes
      <4>4. RefillPerSec \in Int /\ RefilledAt - grants[i].at \in Int
        <5>1. grants[i].at \in Int /\ RefilledAt \in Int
          BY LedgerTypes
        <5> QED
          BY <5>1, LimiterAssumption
      <4>5. n \in Int /\ e \in Int
        <5>1. Len(grants) - i + 1 \in Int /\ Unit \in Int
          BY LedgerTypes
        <5> QED
          BY <4>4, <5>1
      <4>6. Unit \in Int /\ Credited \in Int /\ Full \in Int
        BY LedgerTypes
      <4> HIDE DEF n, e
      <4>7. n + Unit <= Full + e
        BY <4>1, <4>2, <4>5, <4>6
      <4> QED
        BY <4>3, <4>7 DEF e
    <3> QED
      BY <2>2, <3>1, <3>2, <3>3, <3>4 DEF Grant, Paced!Serve
  <2>3. ASSUME NEW c \in Calls, Grant(c)
        PROVE  RefilledAt \in WallTimes
    BY RefillFacts
  <2>4. CASE UNCHANGED <<issued, grants>>
    BY <2>4 DEF Paced!vars
  <2> QED
    BY <2>1, <2>2, <2>3, <2>4
    DEF Next, Sleep, Tick, JumpForward, SetBack, Quiescent, vars,
        Paced!Next, WallTimes
<1> QED
  BY <1>1, <1>2, TypeCorrect, ChainCorrect, LedgerCorrect, PTL
  DEF Spec, ImplementsPacedGrants, Paced!Spec

-----------------------------------------------------------------------------
(* The limiter as its callers see it: a queue, which ReadTools has in place  *)
(* of it.                                                                    *)

\* The calls that wait, in the order of acquire().
Waiting == SubSeq(issued, Len(grants) + 1, Len(issued))

\* What acquire() and a token do to it.
Enter(c) == pc[c] = "idle" /\ Waiting' = Append(Waiting, c)
Serve(c) ==
  Waiting # <<>> /\ c = Head(Waiting) /\ Waiting' = Tail(Waiting) /\ pc'[c] = "granted"

\* Once in the queue each, the calls that wait and no others.
HoldsThoseWaiting ==
  /\ \A i, j \in 1..Len(Waiting) : Waiting[i] = Waiting[j] => i = j
  /\ \A c \in Calls :
       pc[c] \in {"queued", "asleep"} <=> \E i \in 1..Len(Waiting) : Waiting[i] = c

\* What is left of a sequence without its first n members.
LEMMA RestFacts ==
  ASSUME NEW S, NEW s \in Seq(S), NEW n \in Nat, n <= Len(s)
  PROVE  /\ SubSeq(s, n + 1, Len(s)) \in Seq(S)
         /\ Len(SubSeq(s, n + 1, Len(s))) = Len(s) - n
         /\ \A i \in 1..(Len(s) - n) : SubSeq(s, n + 1, Len(s))[i] = s[n + i]
<1>1. Len(s) \in Nat
  OBVIOUS
<1>2. SubSeq(s, n + 1, Len(s)) \in Seq(S)
  BY <1>1
<1>3. Len(SubSeq(s, n + 1, Len(s))) = Len(s) - n
  BY <1>1
<1>4. \A i \in 1..(Len(s) - n) : SubSeq(s, n + 1, Len(s))[i] = s[n + i]
  BY <1>1
<1> QED
  BY <1>2, <1>3, <1>4

\* What Waiting is, position by position.
LEMMA WaitingFacts ==
  ASSUME TypeOK, ChainInv
  PROVE  /\ issued \in Seq(Calls)
         /\ Len(issued) \in Nat /\ Len(grants) \in Nat /\ Len(grants) <= Len(issued)
         /\ Waiting \in Seq(Calls) /\ Len(Waiting) = Len(issued) - Len(grants)
         /\ \A i \in 1..Len(Waiting) : Waiting[i] = issued[Len(grants) + i]
<1>1. /\ issued \in Seq(Calls) /\ Len(issued) \in Nat /\ Len(grants) \in Nat
      /\ Len(grants) <= Len(issued)
  BY QueueTypes DEF TypeOK
<1> QED
  BY <1>1, RestFacts, SMT DEF Waiting

\* acquire() enters the queue at its end.
LEMMA AcquireEnters ==
  ASSUME TypeOK, ChainInv, NEW c \in Calls, Acquire(c)
  PROVE  Enter(c)
<1>1. /\ issued \in Seq(Calls) /\ issued' = Append(issued, c) /\ grants' = grants
      /\ pc[c] = "idle"
  BY DEF Acquire, TypeOK
<1>2. /\ Len(issued') = Len(issued) + 1 /\ issued'[Len(issued) + 1] = c
      /\ \A i \in 1..Len(issued) : issued'[i] = issued[i]
  BY <1>1
<1>3. /\ Len(issued) \in Nat /\ Len(grants) \in Nat /\ Len(grants) <= Len(issued)
      /\ issued \in Seq(Calls) /\ Waiting \in Seq(Calls)
      /\ Len(Waiting) = Len(issued) - Len(grants)
      /\ \A i \in 1..Len(Waiting) : Waiting[i] = issued[Len(grants) + i]
  BY WaitingFacts
<1>4. /\ Waiting' \in Seq(Calls) /\ Len(Waiting') = Len(issued') - Len(grants')
      /\ \A i \in 1..Len(Waiting') : Waiting'[i] = issued'[Len(grants') + i]
  <2>1. issued' \in Seq(Calls) /\ Len(grants') \in Nat /\ Len(grants') <= Len(issued')
    BY <1>1, <1>2, <1>3
  <2> QED
    BY <2>1, RestFacts, SMT DEF Waiting
<1> DEFINE A == Append(Waiting, c)
<1>5. /\ A \in Seq(Calls) /\ Len(A) = Len(Waiting) + 1 /\ A[Len(Waiting) + 1] = c
      /\ \A i \in 1..Len(Waiting) : A[i] = Waiting[i]
  BY <1>3
<1> HIDE DEF A
<1>6. Len(Waiting') = Len(A)
  BY <1>1, <1>2, <1>3, <1>4, <1>5
<1>7. ASSUME NEW i \in 1..Len(A) PROVE Waiting'[i] = A[i]
  <2>1. Waiting'[i] = issued'[Len(grants) + i]
    BY <1>1, <1>4, <1>6, <1>7
  <2>2. CASE i = Len(Waiting) + 1
    <3>1. Len(grants) + i = Len(issued) + 1
      BY <1>3, <2>2
    <3> QED
      BY <1>2, <1>5, <2>1, <2>2, <3>1
  <2>3. CASE i # Len(Waiting) + 1
    <3>1. i \in 1..Len(Waiting)
      BY <1>3, <1>5, <1>7, <2>3
    <3>2. Len(grants) + i \in 1..Len(issued)
      BY <1>3, <3>1
    <3> QED
      BY <1>2, <1>3, <1>5, <2>1, <3>1, <3>2
  <2> QED
    BY <2>2, <2>3
<1>8. Waiting' = A
  BY <1>4, <1>5, <1>6, <1>7, SeqEqual, Zenon
<1> QED
  BY <1>1, <1>8 DEF Enter, A

\* A token goes to the head of the queue.
LEMMA GrantServes ==
  ASSUME TypeOK, ChainInv, NEW c \in Calls, Grant(c)
  PROVE  Serve(c)
<1>1. Len(grants) + 1 \in 1..Len(issued) /\ c = issued[Len(grants) + 1]
  BY ReservingIsNext DEF Grant, Runnable
<1>2. issued' = issued /\ pc'[c] = "granted" /\ Len(grants') = Len(grants) + 1
  BY DEF Grant, TypeOK
<1>3. /\ Len(issued) \in Nat /\ Len(grants) \in Nat /\ Len(grants) <= Len(issued)
      /\ issued \in Seq(Calls) /\ Waiting \in Seq(Calls)
      /\ Len(Waiting) = Len(issued) - Len(grants)
      /\ \A i \in 1..Len(Waiting) : Waiting[i] = issued[Len(grants) + i]
  BY WaitingFacts
<1>4. /\ Waiting' \in Seq(Calls) /\ Len(Waiting') = Len(issued') - Len(grants')
      /\ \A i \in 1..Len(Waiting') : Waiting'[i] = issued'[Len(grants') + i]
  <2>1. issued' \in Seq(Calls) /\ Len(grants') \in Nat /\ Len(grants') <= Len(issued')
    BY <1>1, <1>2, <1>3
  <2> QED
    BY <2>1, RestFacts, SMT DEF Waiting
<1>5. Len(Waiting) \in Nat /\ Len(Waiting) > 0
  BY <1>1, <1>3
<1>6. Waiting # <<>> /\ Head(Waiting) = Waiting[1]
  BY <1>3, <1>5
<1> DEFINE R == Tail(Waiting)
<1>7. /\ R \in Seq(Calls) /\ Len(R) = Len(Waiting) - 1
      /\ \A i \in 1..Len(R) : R[i] = Waiting[i + 1]
  BY <1>3, <1>5
<1> HIDE DEF R
<1>8. c = Head(Waiting)
  <2>1. 1 \in 1..Len(Waiting)
    BY <1>5
  <2> QED
    BY <1>1, <1>3, <1>6, <2>1
<1>9. Len(Waiting') = Len(R)
  BY <1>2, <1>3, <1>4, <1>7
<1>10. ASSUME NEW i \in 1..Len(R) PROVE Waiting'[i] = R[i]
  <2>1. i + 1 \in 1..Len(Waiting) /\ i \in 1..Len(Waiting')
    BY <1>5, <1>7, <1>9, <1>10
  <2>2. Waiting'[i] = issued[(Len(grants) + 1) + i]
    BY <1>2, <1>4, <2>1
  <2>3. R[i] = issued[Len(grants) + (i + 1)]
    BY <1>3, <1>7, <1>10, <2>1
  <2>4. (Len(grants) + 1) + i = Len(grants) + (i + 1)
    BY <1>3
  <2> QED
    BY <2>2, <2>3, <2>4
<1>11. Waiting' = R
  BY <1>4, <1>7, <1>9, <1>10, SeqEqual, Zenon
<1> QED
  BY <1>2, <1>6, <1>8, <1>11 DEF Serve, R

\* The queue holds the calls that wait, whatever they wait for.
LEMMA QueueHolds ==
  ASSUME TypeOK, ChainInv
  PROVE  HoldsThoseWaiting
<1>1. /\ Len(issued) \in Nat /\ Len(grants) \in Nat /\ Len(grants) <= Len(issued)
      /\ issued \in Seq(Calls) /\ Waiting \in Seq(Calls)
      /\ Len(Waiting) = Len(issued) - Len(grants)
      /\ \A i \in 1..Len(Waiting) : Waiting[i] = issued[Len(grants) + i]
  BY WaitingFacts
<1>2. \A i \in 1..Len(Waiting) : Len(grants) + i \in 1..Len(issued)
  BY <1>1
<1>3. ASSUME NEW i \in 1..Len(Waiting), NEW j \in 1..Len(Waiting), Waiting[i] = Waiting[j]
      PROVE  i = j
  <2>1. issued[Len(grants) + i] = issued[Len(grants) + j]
    BY <1>1, <1>3
  <2>2. Len(grants) + i = Len(grants) + j
    BY <1>2, <1>3, <2>1 DEF ChainInv
  <2> QED
    BY <1>1, <2>2
<1>4. ASSUME NEW c \in Calls, pc[c] \in {"queued", "asleep"}
      PROVE  \E i \in 1..Len(Waiting) : Waiting[i] = c
  <2>1. PICK k \in 1..Len(issued) : issued[k] = c
    BY <1>4 DEF ChainInv
  <2>2. ~(k <= Len(grants))
    BY <1>4, <2>1 DEF ChainInv
  <2>3. k - Len(grants) \in 1..Len(Waiting) /\ Len(grants) + (k - Len(grants)) = k
    BY <1>1, <2>1, <2>2
  <2>4. Waiting[k - Len(grants)] = c
    BY <1>1, <2>1, <2>3
  <2> QED
    BY <2>3, <2>4
<1>5. ASSUME NEW c \in Calls, NEW i \in 1..Len(Waiting), Waiting[i] = c
      PROVE  pc[c] \in {"queued", "asleep"}
  <2>1. Len(grants) + i \in 1..Len(issued) /\ issued[Len(grants) + i] = c
    BY <1>1, <1>2, <1>5
  <2>2. ~(Len(grants) + i <= Len(grants))
    BY <1>1, <1>5
  <2>3. pc[c] # "granted" /\ pc[c] # "idle"
    BY <2>1, <2>2 DEF ChainInv
  <2>4. pc[c] \in {"idle", "queued", "asleep", "granted"}
    BY <1>5 DEF TypeOK
  <2> QED
    BY <2>3, <2>4
<1> QED
  BY <1>3, <1>4, <1>5 DEF HoldsThoseWaiting

\* To its callers the limiter is a queue, whatever clocks and timers do: an
\* acquire() enters at the end, a token goes to the head, nothing else moves,
\* and in it are exactly the calls that wait.
THEOREM LimiterIsQueue ==
  Spec => /\ Waiting = <<>>
          /\ []HoldsThoseWaiting
          /\ [][\E c \in Calls : Enter(c) \/ Serve(c)]_Waiting
<1>1. Init => Waiting = <<>>
  <2> SUFFICES ASSUME Init PROVE Waiting = <<>>
    OBVIOUS
  <2>1. issued = <<>> /\ grants = <<>>
    BY DEF Init
  <2> QED
    BY <2>1 DEF Waiting
<1>2. TypeOK /\ ChainInv => HoldsThoseWaiting
  BY QueueHolds
<1>3. ASSUME TypeOK, ChainInv, [Next]_vars
      PROVE  [\E c \in Calls : Enter(c) \/ Serve(c)]_Waiting
  <2>1. CASE \E c \in Calls : Acquire(c) \/ Grant(c) \/ Sleep(c)
    <3>1. PICK c \in Calls : Acquire(c) \/ Grant(c) \/ Sleep(c)
      BY <2>1
    <3>2. CASE Acquire(c)
      BY <1>3, <3>2, AcquireEnters
    <3>3. CASE Grant(c)
      BY <1>3, <3>3, GrantServes
    <3>4. CASE Sleep(c)
      BY <3>4 DEF Sleep, Waiting
    <3> QED
      BY <3>1, <3>2, <3>3, <3>4
  <2>2. CASE UNCHANGED <<issued, grants>>
    BY <2>2 DEF Waiting
  <2> QED
    BY <1>3, <2>1, <2>2 DEF Next, Tick, JumpForward, SetBack, Quiescent, vars
<1> QED
  BY <1>1, <1>2, <1>3, TypeCorrect, ChainCorrect, PTL DEF Spec
=============================================================================
