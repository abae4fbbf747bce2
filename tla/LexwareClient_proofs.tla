----------------------- MODULE LexwareClient_proofs ------------------------
(***************************************************************************)
(* Theorems about LexwareClient, for any calls, any number of retries and  *)
(* any Retry-After headers.                                                *)
(***************************************************************************)
EXTENDS LexwareClient, FiniteSetTheorems, TLAPS

\* What holds of every call, idempotent or not.
Progress(c) ==
  /\ pc[c] # "done" => outcome[c] = "pending"
  /\ reply[c] # "none" => pc[c] = "waiting"
  /\ reply[c] = "ok" \/ pc[c] = "reading" => executed[c] > 0

\* A call that is not replayed has one request that matters: while it is on
\* the wire nothing was executed and no answer is under way.
SingleShot(c) ==
  /\ \A n \in 0..MaxRetries :
       <<c, n>> \in wire => /\ n = attempt[c]
                            /\ executed[c] = 0
                            /\ reply[c] = "none"
                            /\ pc[c] \in {"waiting", "done"}
                            /\ outcome[c] \notin NotExecuted
  /\ executed[c] <= 1
  /\ pc[c] \in {"idle", "acquiring", "sleeping"} => executed[c] = 0
  /\ reply[c] \in NotExecuted \/ outcome[c] \in NotExecuted => executed[c] = 0

IInv ==
  /\ TypeOK
  /\ \A c \in Calls : Progress(c)
  /\ \A c \in Calls \ Idempotent : SingleShot(c)

-----------------------------------------------------------------------------
\* The inductive invariant holds before any call begins.
LEMMA InitIInv == Init => IInv
  BY ClientAssumption
  DEF Init, IInv, TypeOK, Progress, SingleShot, NotExecuted

\* A wait is a number of milliseconds: half the base at least, and never as
\* much as the whole of it.
LEMMA BackoffBounds ==
  ASSUME NEW n \in Nat, NEW k \in Jitter
  PROVE  /\ BackoffMs(n, k) \in Int
         /\ 250 <= BackoffMs(n, k)
         /\ BackoffMs(n, k) <= 8000
<1> DEFINE base == IF n >= 4 THEN 8000 ELSE 500 * 2^n
<1>1. n < 4 => n = 0 \/ n = 1 \/ n = 2 \/ n = 3
  OBVIOUS
<1>2. 2^0 = 1 /\ 2^1 = 2 /\ 2^2 = 4 /\ 2^3 = 8
  OBVIOUS
<1>3. base \in 500..8000
  <2>1. CASE n >= 4
    BY <2>1
  <2>2. CASE n < 4
    <3>1. 2^n \in {1, 2, 4, 8}
      BY <1>1, <1>2, <2>2
    <3>2. ~(n >= 4) /\ 500 * 2^n \in 500..8000
      BY <2>2, <3>1
    <3> QED
      BY <3>2
  <2> HIDE DEF base
  <2>3. n >= 4 \/ n < 4
    OBVIOUS
  <2> QED
    BY <2>1, <2>2, <2>3
<1>4. k \in Nat /\ JitterSteps \in Nat \ {0} /\ k < JitterSteps
  BY ClientAssumption DEF Jitter
<1> HIDE DEF base
<1> DEFINE num == base * (JitterSteps + k)
           den == 2 * JitterSteps
<1>5. num \in Nat /\ den \in Nat \ {0}
  BY <1>3, <1>4
<1>6. 250 * den <= num /\ num <= 8000 * den
  <2>1. 250 * den = 500 * JitterSteps /\ 500 * JitterSteps <= base * JitterSteps
    BY <1>3, <1>4
  <2>2. base * JitterSteps <= num /\ base * JitterSteps \in Nat
    BY <1>3, <1>4
  <2>3. num <= base * den /\ base * den <= 8000 * den /\ base * den \in Nat
    BY <1>3, <1>4
  <2> HIDE DEF num, den
  <2>4. 500 * JitterSteps \in Nat /\ 250 * den \in Nat /\ 8000 * den \in Nat
    BY <1>4, <1>5
  <2> QED
    BY <1>5, <2>1, <2>2, <2>3, <2>4
<1> HIDE DEF num, den
<1>7. num \div den \in Int /\ 250 <= num \div den /\ num \div den <= 8000
  BY <1>5, <1>6
<1> QED
  BY <1>7 DEF BackoffMs, base, num, den

\* A wait is a number of milliseconds.
LEMMA BackoffType ==
  ASSUME NEW n \in Nat, NEW k \in Jitter
  PROVE  BackoffMs(n, k) \in Nat
<1>1. /\ BackoffMs(n, k) \in Int
      /\ 250 <= BackoffMs(n, k)
      /\ BackoffMs(n, k) <= 8000
  BY BackoffBounds
<1> QED
  BY <1>1

\* Clamped or not, what Retry-After makes of a wait is between the bounds.
LEMMA RetryAfterBounds ==
  ASSUME NEW h \in RetryAfters \cup {NoRetryAfter}, NEW n \in Nat, NEW k \in Jitter
  PROVE  /\ RetryAfterMs(h, n, k) \in Int
         /\ 250 <= RetryAfterMs(h, n, k)
         /\ RetryAfterMs(h, n, k) <= 30000
<1>1. CASE h = NoRetryAfter
  <2>1. /\ BackoffMs(n, k) \in Int
        /\ 250 <= BackoffMs(n, k)
        /\ BackoffMs(n, k) <= 8000
    BY BackoffBounds
  <2> QED
    BY <1>1, <2>1 DEF RetryAfterMs
<1>2. CASE h # NoRetryAfter
  <2>1. h \in Int
    BY <1>2, ClientAssumption
  <2>2. CASE h < 250
    BY <1>2, <2>1, <2>2 DEF RetryAfterMs, MinWaitMs, MaxWaitMs
  <2>3. CASE h > 30000
    BY <1>2, <2>1, <2>3 DEF RetryAfterMs, MinWaitMs, MaxWaitMs
  <2>4. CASE ~(h < 250) /\ ~(h > 30000)
    BY <1>2, <2>1, <2>4 DEF RetryAfterMs, MinWaitMs, MaxWaitMs
  <2> QED
    BY <2>1, <2>2, <2>3, <2>4
<1> QED
  BY <1>1, <1>2

\* So it is a number of milliseconds.
LEMMA RetryAfterType ==
  ASSUME NEW h \in RetryAfters \cup {NoRetryAfter}, NEW n \in Nat, NEW k \in Jitter
  PROVE  RetryAfterMs(h, n, k) \in Nat
<1>1. /\ RetryAfterMs(h, n, k) \in Int
      /\ 250 <= RetryAfterMs(h, n, k)
      /\ RetryAfterMs(h, n, k) <= 30000
  BY RetryAfterBounds
<1> QED
  BY <1>1

\* What a retry and the end of a call do to the types.
LEMMA RetryType ==
  ASSUME TypeOK, NEW c \in Calls, NEW ms \in Nat,
         attempt[c] < MaxRetries, Retry(c, ms)
  PROVE  /\ pc' \in [Calls -> {"idle", "acquiring", "waiting", "sleeping", "reading", "done"}]
         /\ attempt' \in [Calls -> 0..MaxRetries]
         /\ slept' \in [Calls -> Seq(Nat)]
         /\ outcome' \in [Calls -> Errors \cup {"pending", "returned"}]
<1>1. attempt[c] + 1 \in 0..MaxRetries /\ Append(slept[c], ms) \in Seq(Nat)
  BY ClientAssumption DEF TypeOK
<1> QED
  BY <1>1 DEF TypeOK, Retry

\* What the end of a call does to the types.
LEMMA SettleType ==
  ASSUME TypeOK, NEW c \in Calls, NEW o \in Errors \cup {"returned"}, Settle(c, o)
  PROVE  /\ pc' \in [Calls -> {"idle", "acquiring", "waiting", "sleeping", "reading", "done"}]
         /\ attempt' \in [Calls -> 0..MaxRetries]
         /\ slept' \in [Calls -> Seq(Nat)]
         /\ outcome' \in [Calls -> Errors \cup {"pending", "returned"}]
  BY DEF TypeOK, Settle

\* Every step of sendWithRetry(), of the network and of Lexware keeps the types.
LEMMA TypeStep == TypeOK /\ [Next]_vars => TypeOK'
<1> SUFFICES ASSUME TypeOK, [Next]_vars
             PROVE  TypeOK'
  OBVIOUS
<1>1. ASSUME NEW c \in Calls, Begin(c) \/ Wake(c)
      PROVE  TypeOK'
  BY <1>1 DEF Begin, Wake, TypeOK
<1>2. ASSUME NEW c \in Calls, Send(c)
      PROVE  TypeOK'
  <2>1. <<c, attempt[c]>> \in Calls \X (0..MaxRetries)
    BY DEF TypeOK
  <2> QED
    BY <1>2, <2>1 DEF Send, TypeOK
<1>3. ASSUME NEW c \in Calls, TransportFailure(c)
      PROVE  TypeOK'
  <2>1. /\ reply' \in [Calls -> Statuses \cup {"none"}]
        /\ wire' = wire /\ executed' = executed
    BY <1>3 DEF TransportFailure, TypeOK
  <2>2. CASE c \in Idempotent /\ attempt[c] < MaxRetries
    <3>1. PICK k \in Jitter : Retry(c, BackoffMs(attempt[c], k))
      BY <1>3, <2>2 DEF TransportFailure
    <3>2. BackoffMs(attempt[c], k) \in Nat
      <4>1. attempt[c] \in Nat
        BY ClientAssumption DEF TypeOK
      <4> QED
        BY <4>1, BackoffType
    <3> QED
      BY <2>1, <2>2, <3>1, <3>2, RetryType DEF TypeOK
  <2>3. CASE Settle(c, "network")
    BY <2>1, <2>3, SettleType DEF TypeOK, Errors
  <2> QED
    BY <1>3, <2>2, <2>3 DEF TransportFailure
<1>4. ASSUME NEW c \in Calls, Receive(c)
      PROVE  TypeOK'
  <2>1. /\ reply' \in [Calls -> Statuses \cup {"none"}]
        /\ wire' = wire /\ executed' = executed
        /\ attempt[c] \in Nat
    BY <1>4, ClientAssumption DEF Receive, TypeOK
  <2>2. ASSUME RetriesStatus(c), NEW h \in RetryAfters \cup {NoRetryAfter},
               NEW k \in Jitter, Retry(c, RetryAfterMs(h, attempt[c], k))
        PROVE  TypeOK'
    <3>1. RetryAfterMs(h, attempt[c], k) \in Nat /\ attempt[c] < MaxRetries
      BY <2>1, <2>2, RetryAfterType DEF RetriesStatus
    <3> QED
      BY <2>1, <2>2, <3>1, RetryType DEF TypeOK
  <2>3. ASSUME RetriesStatus(c), NEW k \in Jitter, Retry(c, BackoffMs(attempt[c], k))
        PROVE  TypeOK'
    <3>1. BackoffMs(attempt[c], k) \in Nat /\ attempt[c] < MaxRetries
      BY <2>1, <2>3, BackoffType DEF RetriesStatus
    <3> QED
      BY <2>1, <2>3, <3>1, RetryType DEF TypeOK
  <2>4. CASE reply[c] # "ok" /\ Settle(c, reply[c])
    <3>1. reply[c] \in Errors
      BY <1>4, <2>4 DEF Receive, TypeOK, Statuses, Errors
    <3> QED
      BY <2>1, <2>4, <3>1, SettleType DEF TypeOK
  <2>5. CASE pc' = [pc EXCEPT ![c] = "reading"] /\ UNCHANGED <<attempt, slept, outcome>>
    BY <2>1, <2>5 DEF TypeOK
  <2> QED
    BY <1>4, <2>2, <2>3, <2>4, <2>5 DEF Receive
<1>5. ASSUME NEW c \in Calls, ReadBody(c)
      PROVE  TypeOK'
  <2>1. UNCHANGED <<wire, reply, executed>>
    BY <1>5 DEF ReadBody
  <2>2. PICK o \in Errors \cup {"returned"} : Settle(c, o)
    BY <1>5 DEF ReadBody, Errors
  <2> QED
    BY <2>1, <2>2, SettleType DEF TypeOK
<1>6. ASSUME NEW c \in Calls, NEW n \in 0..MaxRetries, NEW s \in Statuses,
             Execute(c, n, s) \/ Refuse(c, n, s)
      PROVE  TypeOK'
  <2>1. executed' \in [Calls -> Nat]
    <3>1. executed \in [Calls -> Nat]
      BY DEF TypeOK
    <3> QED
      BY <1>6, <3>1 DEF Execute, Refuse
  <2>2. Answer(c, n, s)
    BY <1>6 DEF Execute, Refuse
  <2> QED
    BY <2>1, <2>2 DEF Answer, TypeOK
<1>7. CASE UNCHANGED vars
  BY <1>7 DEF vars, TypeOK
<1> QED
  BY <1>1, <1>2, <1>3, <1>4, <1>5, <1>6, <1>7
  DEF Next, ClientStep, LexwareStep, Finished

-----------------------------------------------------------------------------
(* The inductive step, call by call. *)

\* A step of one call leaves the others as they are.
LEMMA Untouched ==
  ASSUME NEW d \in Calls,
         pc'[d] = pc[d], attempt'[d] = attempt[d], reply'[d] = reply[d],
         executed'[d] = executed[d], outcome'[d] = outcome[d],
         \A n \in 0..MaxRetries : <<d, n>> \in wire' => <<d, n>> \in wire
  PROVE  /\ Progress(d) => Progress(d)'
         /\ SingleShot(d) => SingleShot(d)'
  BY DEF Progress, SingleShot

\* What a step of call c changes, and that it changes nothing else.
OnlyTouches(c) ==
  \A d \in Calls \ {c} :
    /\ pc'[d] = pc[d] /\ attempt'[d] = attempt[d] /\ reply'[d] = reply[d]
    /\ executed'[d] = executed[d] /\ outcome'[d] = outcome[d]
    /\ \A n \in 0..MaxRetries : <<d, n>> \in wire' => <<d, n>> \in wire

\* A step of one call is a step on its own data only.
LEMMA StepTouchesOne ==
  ASSUME TypeOK, NEW c \in Calls, ClientStep(c) \/ LexwareStep(c)
  PROVE  OnlyTouches(c)
<1>1. CASE Begin(c) \/ Wake(c) \/ Send(c)
  BY <1>1 DEF Begin, Wake, Send, OnlyTouches, TypeOK
<1>2. CASE TransportFailure(c) \/ Receive(c) \/ ReadBody(c)
  BY <1>2 DEF TransportFailure, Receive, ReadBody, Retry, Settle, OnlyTouches, TypeOK
<1>3. CASE LexwareStep(c)
  BY <1>3 DEF LexwareStep, Execute, Refuse, Answer, OnlyTouches, TypeOK
<1> QED
  BY <1>1, <1>2, <1>3 DEF ClientStep

\* A pending call stays pending until it is done, and an "ok" was executed.
LEMMA StepKeepsProgress ==
  ASSUME IInv, NEW c \in Calls, ClientStep(c) \/ LexwareStep(c)
  PROVE  Progress(c)'
<1> USE DEF IInv, Progress, TypeOK
<1>1. CASE Begin(c) \/ Wake(c) \/ Send(c)
  BY <1>1 DEF Begin, Wake, Send
<1>2. CASE TransportFailure(c)
  BY <1>2 DEF TransportFailure, Retry, Settle
<1>3. CASE Receive(c)
  BY <1>3 DEF Receive, Retry, Settle
<1>4. CASE ReadBody(c)
  BY <1>4 DEF ReadBody, Settle
<1>5. ASSUME NEW n \in 0..MaxRetries, NEW s \in Statuses, Execute(c, n, s)
      PROVE  Progress(c)'
  <2>1. executed'[c] > 0
    BY <1>5 DEF Execute
  <2> QED
    BY <1>5, <2>1 DEF Execute, Answer
<1>6. ASSUME NEW n \in 0..MaxRetries, NEW s \in Statuses, Refuse(c, n, s)
      PROVE  Progress(c)'
  BY <1>6 DEF Refuse, Answer, NotExecuted
<1> QED
  BY <1>1, <1>2, <1>3, <1>4, <1>5, <1>6 DEF ClientStep, LexwareStep

\* A call that is not replayed keeps to its one request that matters.
LEMMA StepKeepsSingleShot ==
  ASSUME IInv, NEW c \in Calls \ Idempotent, ClientStep(c) \/ LexwareStep(c)
  PROVE  SingleShot(c)'
<1>0. /\ TypeOK /\ Progress(c) /\ SingleShot(c)
      /\ attempt[c] \in 0..MaxRetries /\ executed[c] \in Nat
  BY DEF IInv, TypeOK
<1>1. CASE Begin(c) \/ Wake(c)
  BY <1>0, <1>1 DEF Begin, Wake, TypeOK, SingleShot
<1>2. CASE Send(c)
  BY <1>0, <1>2 DEF Send, TypeOK, Progress, SingleShot, NotExecuted
<1>3. CASE TransportFailure(c)
  BY <1>0, <1>3 DEF TransportFailure, Settle, TypeOK, Progress, SingleShot, NotExecuted
<1>4. CASE Receive(c)
  BY <1>0, <1>4
  DEF Receive, RetriesStatus, Retry, Settle, TypeOK, Progress, SingleShot,
      NotExecuted, Statuses
<1>5. CASE ReadBody(c)
  BY <1>0, <1>5 DEF ReadBody, Settle, TypeOK, Progress, SingleShot, NotExecuted
<1>6. ASSUME NEW n \in 0..MaxRetries, NEW s \in Statuses, Execute(c, n, s)
      PROVE  SingleShot(c)'
  BY <1>0, <1>6 DEF Execute, Answer, TypeOK, SingleShot, NotExecuted
<1>7. ASSUME NEW n \in 0..MaxRetries, NEW s \in Statuses, Refuse(c, n, s)
      PROVE  SingleShot(c)'
  BY <1>0, <1>7 DEF Refuse, Answer, TypeOK, SingleShot, NotExecuted
<1> QED
  BY <1>1, <1>2, <1>3, <1>4, <1>5, <1>6, <1>7 DEF ClientStep, LexwareStep

\* The inductive invariant survives every step.
LEMMA InductiveStep == IInv /\ [Next]_vars => IInv'
<1> SUFFICES ASSUME IInv, [Next]_vars
             PROVE  IInv'
  OBVIOUS
<1>1. TypeOK /\ TypeOK'
  BY TypeStep DEF IInv
<1>2. ASSUME NEW c \in Calls, ClientStep(c) \/ LexwareStep(c)
      PROVE  IInv'
  <2>1. OnlyTouches(c)
    BY <1>1, <1>2, StepTouchesOne
  <2>2. ASSUME NEW d \in Calls
        PROVE  Progress(d)'
    <3>1. CASE d = c
      BY <1>2, <3>1, StepKeepsProgress
    <3>2. CASE d # c
      BY <2>1, <3>2, Untouched DEF OnlyTouches, IInv
    <3> QED
      BY <3>1, <3>2
  <2>3. ASSUME NEW d \in Calls \ Idempotent
        PROVE  SingleShot(d)'
    <3>1. CASE d = c
      BY <1>2, <3>1, StepKeepsSingleShot
    <3>2. CASE d # c
      BY <2>1, <3>2, Untouched DEF OnlyTouches, IInv
    <3> QED
      BY <3>1, <3>2
  <2> QED
    BY <1>1, <2>2, <2>3 DEF IInv
<1>3. CASE UNCHANGED vars
  <2>1. ASSUME NEW d \in Calls
        PROVE  /\ Progress(d) => Progress(d)'
               /\ SingleShot(d) => SingleShot(d)'
    BY <1>3, Untouched DEF vars
  <2> QED
    BY <1>1, <2>1 DEF IInv
<1> QED
  BY <1>2, <1>3 DEF Next, Finished

-----------------------------------------------------------------------------
(* What callers rely on. *)

\* The inductive invariant holds in every reachable state.
LEMMA Invariance == Spec => []IInv
  BY InitIInv, InductiveStep, PTL DEF Spec

\* Every variable keeps its type: in particular no call makes more than
\* MaxRetries retries.
THEOREM TypeCorrect == Spec => []TypeOK
<1>1. IInv => TypeOK
  BY DEF IInv
<1> QED
  BY <1>1, Invariance, PTL

\* No call that must not be replayed takes effect twice.
THEOREM AtMostOnceCorrect == Spec => []AtMostOnce
<1>1. IInv => AtMostOnce
  BY DEF IInv, SingleShot, AtMostOnce
<1> QED
  BY <1>1, Invariance, PTL

\* A refusal of a call that is not replayed says that it had no effect, and
\* never will.
THEOREM RefusalIsFinalCorrect == Spec => []RefusalIsFinal
<1>1. IInv => RefusalIsFinal
  BY DEF IInv, SingleShot, RefusalIsFinal
<1> QED
  BY <1>1, Invariance, PTL

\* What it takes to be within the bounds on a wait.
LEMMA WaitBetween ==
  ASSUME NEW ms \in Int, 250 <= ms, ms <= 30000
  PROVE  ms \in MinWaitMs..MaxWaitMs
<1>1. MinWaitMs \in Int /\ MinWaitMs <= ms /\ MaxWaitMs \in Int /\ ms <= MaxWaitMs
  BY DEF MinWaitMs, MaxWaitMs
<1> QED
  BY <1>1

\* A retry adds one wait to those of its call.
LEMMA RetrySpaced ==
  ASSUME TypeOK, RetriesSpaced, NEW c \in Calls, NEW ms \in MinWaitMs..MaxWaitMs,
         attempt[c] < MaxRetries, Retry(c, ms)
  PROVE  RetriesSpaced'
<1> DEFINE W == MinWaitMs..MaxWaitMs
<1> SUFFICES ASSUME NEW d \in Calls
             PROVE  /\ attempt'[d] <= MaxRetries
                    /\ Len(slept'[d]) = attempt'[d]
                    /\ slept'[d] \in Seq(W)
  BY Zenon DEF RetriesSpaced
<1>1. /\ attempt[d] <= MaxRetries
      /\ Len(slept[d]) = attempt[d]
      /\ slept[d] \in Seq(W)
  BY Zenon DEF RetriesSpaced
<1>2. attempt[d] \in Int /\ MaxRetries \in Int /\ ms \in W
  BY ClientAssumption DEF TypeOK
<1> HIDE DEF W
<1>3. CASE d = c
  <2>1. attempt'[d] = attempt[d] + 1 /\ slept'[d] = Append(slept[d], ms)
    BY <1>3 DEF Retry, TypeOK
  <2>2. Append(slept[d], ms) \in Seq(W) /\ Len(Append(slept[d], ms)) = Len(slept[d]) + 1
    BY <1>1, <1>2
  <2>3. attempt[d] + 1 <= MaxRetries
    BY <1>2, <1>3
  <2> QED
    BY <1>1, <2>1, <2>2, <2>3
<1>4. CASE d # c
  <2>1. attempt'[d] = attempt[d] /\ slept'[d] = slept[d]
    BY <1>4 DEF Retry, TypeOK
  <2> QED
    BY <1>1, <2>1
<1> QED
  BY <1>3, <1>4

\* Nothing but a retry makes a call wait.
LEMMA SpacedStep ==
  ASSUME TypeOK, RetriesSpaced, [Next]_vars
  PROVE  RetriesSpaced'
<1>1. CASE UNCHANGED <<attempt, slept>>
  BY <1>1 DEF RetriesSpaced
<1>2. ASSUME NEW c \in Calls, TransportFailure(c)
      PROVE  RetriesSpaced'
  <2>1. CASE c \in Idempotent /\ attempt[c] < MaxRetries
    <3>1. PICK k \in Jitter : Retry(c, BackoffMs(attempt[c], k))
      BY <1>2, <2>1 DEF TransportFailure
    <3>2. attempt[c] \in Nat
      BY ClientAssumption DEF TypeOK
    <3>3. /\ BackoffMs(attempt[c], k) \in Int
          /\ 250 <= BackoffMs(attempt[c], k)
          /\ BackoffMs(attempt[c], k) <= 8000
      BY <3>2, BackoffBounds
    <3>4. BackoffMs(attempt[c], k) <= 30000
      BY <3>3
    <3>5. BackoffMs(attempt[c], k) \in MinWaitMs..MaxWaitMs
      BY <3>3, <3>4, WaitBetween
    <3> QED
      BY <2>1, <3>1, <3>5, RetrySpaced
  <2>2. CASE ~(c \in Idempotent /\ attempt[c] < MaxRetries)
    BY <1>1, <1>2, <2>2 DEF TransportFailure, Settle
  <2> QED
    BY <2>1, <2>2
<1>3. ASSUME NEW c \in Calls, Receive(c)
      PROVE  RetriesSpaced'
  <2>1. attempt[c] \in Nat
    BY ClientAssumption DEF TypeOK
  <2>2. ASSUME RetriesStatus(c),
               NEW h \in RetryAfters \cup {NoRetryAfter}, NEW k \in Jitter,
               Retry(c, RetryAfterMs(h, attempt[c], k))
        PROVE  RetriesSpaced'
    <3>1. /\ RetryAfterMs(h, attempt[c], k) \in Int
          /\ 250 <= RetryAfterMs(h, attempt[c], k)
          /\ RetryAfterMs(h, attempt[c], k) <= 30000
      BY <2>1, <2>2, RetryAfterBounds
    <3>2. attempt[c] < MaxRetries
      BY <2>2 DEF RetriesStatus
    <3>3. RetryAfterMs(h, attempt[c], k) \in MinWaitMs..MaxWaitMs
      BY <3>1, WaitBetween
    <3> QED
      BY <2>2, <3>2, <3>3, RetrySpaced
  <2>3. ASSUME RetriesStatus(c), NEW k \in Jitter, Retry(c, BackoffMs(attempt[c], k))
        PROVE  RetriesSpaced'
    <3>1. /\ BackoffMs(attempt[c], k) \in Int
          /\ 250 <= BackoffMs(attempt[c], k)
          /\ BackoffMs(attempt[c], k) <= 8000
      BY <2>1, BackoffBounds
    <3>2. BackoffMs(attempt[c], k) <= 30000 /\ attempt[c] < MaxRetries
      BY <2>3, <3>1 DEF RetriesStatus
    <3>3. BackoffMs(attempt[c], k) \in MinWaitMs..MaxWaitMs
      BY <3>1, <3>2, WaitBetween
    <3> QED
      BY <2>3, <3>2, <3>3, RetrySpaced
  <2> QED
    BY <1>1, <1>3, <2>2, <2>3 DEF Receive, Settle
<1> QED
  BY <1>1, <1>2, <1>3
  DEF Next, vars, ClientStep, LexwareStep, Finished, Begin, Send, Wake, ReadBody,
      Settle, Execute, Refuse, Answer

\* Every retry has a wait of its own of 250 ms to 30 s before it, whatever
\* Retry-After says and however many retries there are.
THEOREM RetriesSpacedCorrect == Spec => []RetriesSpaced
<1>1. ASSUME Init PROVE RetriesSpaced
  <2> SUFFICES ASSUME NEW c \in Calls
               PROVE  /\ attempt[c] <= MaxRetries
                      /\ Len(slept[c]) = attempt[c]
                      /\ slept[c] \in Seq(MinWaitMs..MaxWaitMs)
    BY Zenon DEF RetriesSpaced
  <2>1. MaxRetries \in Nat
    BY ClientAssumption
  <2>2. attempt[c] = 0 /\ slept[c] = <<>>
    BY <1>1 DEF Init
  <2> QED
    BY <2>1, <2>2 DEF MinWaitMs, MaxWaitMs
<1>2. Init => RetriesSpaced
  BY <1>1
<1>3. TypeOK /\ RetriesSpaced /\ [Next]_vars => RetriesSpaced'
  BY SpacedStep
<1> QED
  BY <1>2, <1>3, TypeCorrect, PTL DEF Spec

\* The client implements RemoteCalls: what Lexware executes is TakeEffect,
\* the end of a call Return or Fail, and everything else is invisible.
THEOREM Implements == Spec => ImplementsRemoteCalls
<1>1. Init => Promise!Init
  BY DEF Init, Promise!Init
<1>2. IInv /\ [Next]_vars => [Promise!Next]_Promise!vars
  <2> SUFFICES ASSUME IInv, [Next]_vars
               PROVE  [Promise!Next]_Promise!vars
    OBVIOUS
  <2> USE DEF Promise!vars
  <2>1. CASE UNCHANGED <<executed, outcome>>
    BY <2>1
  <2>2. ASSUME NEW c \in Calls, NEW o \in Errors, Settle(c, o),
               pc[c] # "done", UNCHANGED executed,
               o \in NotExecuted => o = reply[c]
        PROVE  Promise!Fail(c)
    <3>1. outcome[c] = "pending"
      BY <2>2 DEF IInv, Progress
    <3>2. o \in NotExecuted /\ c \notin Idempotent => executed[c] = 0
      BY <2>2 DEF IInv, SingleShot
    <3> QED
      BY <2>2, <3>1, <3>2 DEF Settle, Promise!Fail
  <2>3. ASSUME NEW c \in Calls, TransportFailure(c)
        PROVE  [Promise!Next]_Promise!vars
    <3>1. CASE Settle(c, "network")
      <4>1. Promise!Fail(c)
        BY <2>2, <2>3, <3>1 DEF TransportFailure, Errors, NotExecuted
      <4> QED
        BY <4>1 DEF Promise!Next
    <3> QED
      BY <2>1, <2>3, <3>1 DEF TransportFailure, Retry
  <2>4. ASSUME NEW c \in Calls, Receive(c)
        PROVE  [Promise!Next]_Promise!vars
    <3>1. CASE reply[c] # "ok" /\ Settle(c, reply[c])
      <4>1. reply[c] \in Errors
        BY <2>4, <3>1 DEF Receive, IInv, TypeOK, Statuses, Errors
      <4>2. Promise!Fail(c)
        BY <2>2, <2>4, <3>1, <4>1 DEF Receive
      <4> QED
        BY <4>2 DEF Promise!Next
    <3> QED
      BY <2>1, <2>4, <3>1 DEF Receive, Retry
  <2>5. ASSUME NEW c \in Calls, ReadBody(c)
        PROVE  [Promise!Next]_Promise!vars
    <3>1. CASE Settle(c, "returned")
      <4>1. outcome[c] = "pending" /\ executed[c] > 0
        BY <2>5 DEF ReadBody, IInv, Progress
      <4>2. Promise!Return(c)
        BY <2>5, <3>1, <4>1 DEF ReadBody, Settle, Promise!Return
      <4> QED
        BY <4>2 DEF Promise!Next
    <3>2. CASE \E o \in {"raw", "network"} : Settle(c, o)
      <4>1. Promise!Fail(c)
        BY <2>2, <2>5, <3>2 DEF ReadBody, Errors, NotExecuted
      <4> QED
        BY <4>1 DEF Promise!Next
    <3> QED
      BY <2>5, <3>1, <3>2 DEF ReadBody
  <2>6. ASSUME NEW c \in Calls, NEW n \in 0..MaxRetries, NEW s \in Statuses,
               Execute(c, n, s)
        PROVE  Promise!TakeEffect(c)
    <3>1. c \notin Idempotent => executed[c] = 0 /\ outcome[c] \notin NotExecuted
      BY <2>6 DEF Execute, IInv, SingleShot
    <3> QED
      BY <2>6, <3>1 DEF Execute, Answer, Promise!TakeEffect
  <2> QED
    BY <2>1, <2>3, <2>4, <2>5, <2>6
    DEF Next, ClientStep, LexwareStep, Begin, Send, Wake, Refuse, Answer,
        Finished, vars, Promise!Next
<1> QED
  BY <1>1, <1>2, Invariance, PTL DEF Spec, ImplementsRemoteCalls, Promise!Spec

-----------------------------------------------------------------------------
(* What Lexware may do for a call, replayed or not: it cannot carry out more *)
(* than it was sent, and what it refused it did not carry out.               *)

\* The attempts of a call that Lexware has not handled yet.
Unhandled(c) == {n \in 0..MaxRetries : <<c, n>> \in wire}

\* How often Lexware carried the call out or still may.
MayExecute(c) == executed[c] + Cardinality(Unhandled(c))

\* The attempts it was sent.
Sent(c) == IF pc[c] \in {"waiting", "reading", "done"} THEN attempt[c] + 1 ELSE attempt[c]

\* A refusal of the current attempt leaves the earlier ones.
Counted(c) ==
  /\ MayExecute(c) <= Sent(c)
  /\ reply[c] \in NotExecuted \/ outcome[c] \in NotExecuted => MayExecute(c) <= attempt[c]

\* A call has at most one effect for each attempt, however late Lexware
\* handles them, and one less when it ends in a refusal: a GET or DELETE that
\* is told 404 at once had no effect and never will have one.
EffectsCounted ==
  \A c \in Calls :
    /\ MayExecute(c) <= attempt[c] + 1
    /\ outcome[c] \in NotExecuted => MayExecute(c) <= attempt[c]

\* There are finitely many of them.
LEMMA UnhandledCount ==
  ASSUME NEW c
  PROVE  IsFiniteSet(Unhandled(c)) /\ Cardinality(Unhandled(c)) \in Nat
<1>1. IsFiniteSet(0..MaxRetries)
  BY FS_Interval, ClientAssumption
<1>2. IsFiniteSet(Unhandled(c))
  BY <1>1, FS_Subset DEF Unhandled
<1> QED
  BY <1>2, FS_CardinalityType

\* The numbers that the count is about.
LEMMA CountTypes ==
  ASSUME TypeOK, NEW c \in Calls
  PROVE  executed[c] \in Nat /\ attempt[c] \in Nat /\ MayExecute(c) \in Nat
<1>1. executed[c] \in Nat /\ attempt[c] \in Nat
  BY ClientAssumption DEF TypeOK
<1>2. Cardinality(Unhandled(c)) \in Nat
  BY UnhandledCount
<1> QED
  BY <1>1, <1>2 DEF MayExecute

\* Sending an attempt adds one.
LEMMA SendCounts ==
  ASSUME TypeOK, NEW c \in Calls, Send(c)
  PROVE  MayExecute(c)' \in Int /\ MayExecute(c)' <= MayExecute(c) + 1
<1> DEFINE u == Unhandled(c)  n == attempt[c]
<1>1. Unhandled(c)' = u \cup {n}
  BY DEF Send, Unhandled, TypeOK
<1>2. IsFiniteSet(u) /\ Cardinality(u) \in Nat
  BY UnhandledCount
<1> HIDE DEF u, n
<1>3. Cardinality(u \cup {n}) \in Nat /\ Cardinality(u \cup {n}) <= Cardinality(u) + 1
  <2>1. Cardinality(u \cup {n}) = IF n \in u THEN Cardinality(u) ELSE Cardinality(u) + 1
    BY <1>2, FS_AddElement
  <2> QED
    BY <1>2, <2>1
<1>4. executed' = executed /\ executed[c] \in Nat
  BY DEF Send, TypeOK
<1>5. MayExecute(c)' = executed[c] + Cardinality(u \cup {n})
  BY <1>1, <1>4 DEF MayExecute
<1>6. MayExecute(c) = executed[c] + Cardinality(u)
  BY DEF MayExecute, u
<1> QED
  BY <1>2, <1>3, <1>4, <1>5, <1>6

\* Handling one takes it off the wire: carried out it still counts, refused no more.
LEMMA AnswerCounts ==
  ASSUME TypeOK, NEW c \in Calls, NEW n \in 0..MaxRetries, NEW s, <<c, n>> \in wire,
         Answer(c, n, s)
  PROVE  /\ executed'[c] = executed[c] + 1 => MayExecute(c)' = MayExecute(c)
         /\ executed' = executed => MayExecute(c)' = MayExecute(c) - 1
<1> DEFINE u == Unhandled(c)
<1>1. Unhandled(c)' = u \ {n} /\ n \in u
  BY DEF Answer, Unhandled
<1>2. IsFiniteSet(u) /\ Cardinality(u) \in Nat /\ executed[c] \in Nat
  BY UnhandledCount, CountTypes
<1> HIDE DEF u
<1>3. Cardinality(u \ {n}) = Cardinality(u) - 1
  BY <1>1, <1>2, FS_RemoveElement
<1>4. MayExecute(c)' = executed'[c] + (Cardinality(u) - 1)
  BY <1>1, <1>3 DEF MayExecute
<1>5. MayExecute(c) = executed[c] + Cardinality(u)
  BY DEF MayExecute, u
<1> QED
  BY <1>2, <1>4, <1>5

\* Nothing else counts.
LEMMA NothingCounts ==
  ASSUME NEW d, executed'[d] = executed[d],
         \A n \in 0..MaxRetries : <<d, n>> \in wire' <=> <<d, n>> \in wire
  PROVE  MayExecute(d)' = MayExecute(d)
<1>1. Unhandled(d)' = Unhandled(d)
  BY DEF Unhandled
<1> QED
  BY <1>1 DEF MayExecute

\* A step of the call itself keeps its count.
LEMMA StepKeepsCount ==
  ASSUME IInv, NEW c \in Calls, Counted(c), ClientStep(c) \/ LexwareStep(c)
  PROVE  Counted(c)'
<1>1. /\ attempt[c] \in Nat /\ MayExecute(c) \in Nat
      /\ MayExecute(c) <= Sent(c)
      /\ reply[c] \in NotExecuted \/ outcome[c] \in NotExecuted => MayExecute(c) <= attempt[c]
  BY CountTypes DEF IInv, Counted
<1>2. /\ pc[c] # "done" => outcome[c] = "pending"
      /\ reply[c] # "none" => pc[c] = "waiting"
      /\ "pending" \notin NotExecuted /\ "none" \notin NotExecuted
      /\ "returned" \notin NotExecuted /\ "network" \notin NotExecuted /\ "raw" \notin NotExecuted
  BY DEF IInv, Progress, NotExecuted
<1>3. ASSUME UNCHANGED <<wire, executed>>
      PROVE  MayExecute(c)' = MayExecute(c)
  BY <1>3, NothingCounts
<1>4. CASE Begin(c) \/ Wake(c)
  <2>1. /\ MayExecute(c)' = MayExecute(c) /\ pc'[c] = "acquiring"
        /\ pc[c] \in {"idle", "sleeping"} /\ UNCHANGED <<attempt, reply, outcome>>
    BY <1>3, <1>4 DEF Begin, Wake, IInv, TypeOK
  <2> QED
    BY <1>1, <2>1 DEF Counted, Sent
<1>5. CASE Send(c)
  <2>1. /\ MayExecute(c)' \in Int /\ MayExecute(c)' <= MayExecute(c) + 1
        /\ pc'[c] = "waiting" /\ pc[c] = "acquiring" /\ UNCHANGED <<attempt, reply, outcome>>
    BY <1>5, SendCounts DEF Send, IInv, TypeOK
  <2>2. reply'[c] = "none" /\ outcome'[c] = "pending"
    BY <1>2, <2>1
  <2>3. Sent(c)' = attempt[c] + 1 /\ Sent(c) = attempt[c]
    BY <2>1 DEF Sent
  <2> QED
    BY <1>1, <1>2, <2>1, <2>2, <2>3 DEF Counted
<1>6. CASE TransportFailure(c) \/ Receive(c) \/ ReadBody(c)
  <2>1. MayExecute(c)' = MayExecute(c)
    BY <1>3, <1>6 DEF TransportFailure, Receive, ReadBody
  <2>2. pc[c] \in {"waiting", "reading"} /\ outcome[c] = "pending"
    BY <1>2, <1>6 DEF TransportFailure, Receive, ReadBody
  <2>3. reply'[c] = "none"
    BY <1>2, <1>6 DEF TransportFailure, Receive, ReadBody, IInv, TypeOK
  <2>4. \/ pc'[c] = "sleeping" /\ attempt'[c] = attempt[c] + 1 /\ outcome'[c] = "pending"
        \/ pc'[c] = "reading" /\ attempt'[c] = attempt[c] /\ outcome'[c] = "pending"
        \/ /\ pc'[c] = "done" /\ attempt'[c] = attempt[c]
           /\ outcome'[c] \in {"network", "raw", "returned", reply[c]}
    BY <1>6, <2>2 DEF TransportFailure, Receive, ReadBody, Retry, Settle, IInv, TypeOK
  <2>5. Sent(c) = attempt[c] + 1 /\ Sent(c)' = attempt[c] + 1
    BY <2>2, <2>4 DEF Sent
  <2>6. outcome'[c] \in NotExecuted =>
          reply[c] \in NotExecuted /\ attempt'[c] = attempt[c]
    BY <1>2, <2>4
  <2> QED
    BY <1>1, <1>2, <2>1, <2>3, <2>5, <2>6 DEF Counted
<1>7. ASSUME NEW n \in 0..MaxRetries, NEW s \in Statuses, Execute(c, n, s) \/ Refuse(c, n, s)
      PROVE  Counted(c)'
  <2>1. /\ <<c, n>> \in wire /\ Answer(c, n, s) /\ UNCHANGED <<pc, attempt, outcome>>
        /\ \/ executed'[c] = executed[c] + 1 /\ s \notin NotExecuted
           \/ executed' = executed
    BY <1>7 DEF Execute, Refuse, Answer, NotExecuted, IInv, TypeOK
  <2>2. TypeOK
    BY DEF IInv
  <2>3. MayExecute(c)' \in Int /\ MayExecute(c)' <= MayExecute(c)
        /\ (executed' = executed => MayExecute(c)' = MayExecute(c) - 1)
    BY <1>1, <2>1, <2>2, AnswerCounts
  <2>4. Sent(c)' = Sent(c) /\ Sent(c) \in Int /\ Sent(c) <= attempt[c] + 1
    BY <1>1, <2>1 DEF Sent
  <2>5. reply'[c] = reply[c] \/ reply'[c] = s
    BY <2>1, <2>2 DEF Answer, TypeOK
  <2>6. MayExecute(c)' <= Sent(c)'
    BY <1>1, <2>3, <2>4
  <2>7. reply'[c] \in NotExecuted \/ outcome'[c] \in NotExecuted => MayExecute(c)' <= attempt'[c]
    <3>1. CASE reply[c] \in NotExecuted \/ outcome[c] \in NotExecuted
      BY <1>1, <2>1, <2>3, <3>1
    <3>2. CASE s \in NotExecuted
      <4>1. MayExecute(c)' = MayExecute(c) - 1
        BY <2>1, <2>3, <3>2
      <4> QED
        BY <1>1, <2>1, <2>4, <4>1
    <3> QED
      BY <2>1, <2>5, <3>1, <3>2
  <2> QED
    BY <2>6, <2>7 DEF Counted
<1> QED
  BY <1>4, <1>5, <1>6, <1>7 DEF ClientStep, LexwareStep

\* A step of another call leaves it alone.
LEMMA StepKeepsOthers ==
  ASSUME TypeOK, NEW c \in Calls, ClientStep(c) \/ LexwareStep(c),
         NEW d \in Calls, d # c, Counted(d)
  PROVE  Counted(d)'
<1>1. OnlyTouches(c)
  BY StepTouchesOne
<1>2. \A n \in 0..MaxRetries : <<d, n>> \in wire => <<d, n>> \in wire'
  <2>1. CASE ClientStep(c)
    BY <2>1 DEF ClientStep, Begin, Wake, Send, TransportFailure, Receive, ReadBody
  <2>2. CASE LexwareStep(c)
    BY <2>2 DEF LexwareStep, Execute, Refuse, Answer
  <2> QED
    BY <2>1, <2>2
<1>3. MayExecute(d)' = MayExecute(d)
  BY <1>1, <1>2, NothingCounts DEF OnlyTouches
<1> QED
  BY <1>1, <1>3 DEF OnlyTouches, Counted, Sent

\* Every call's effects are within its attempts, in every state.
LEMMA AlwaysCounted == Spec => [](\A c \in Calls : Counted(c))
<1> DEFINE All == \A c \in Calls : Counted(c)
<1>1. Init => All
  <2> SUFFICES ASSUME Init, NEW c \in Calls PROVE Counted(c)
    OBVIOUS
  <2>1. Unhandled(c) = {} /\ executed[c] = 0 /\ attempt[c] = 0 /\ pc[c] = "idle"
    BY DEF Init, Unhandled
  <2>2. MayExecute(c) = 0
    BY <2>1, FS_EmptySet DEF MayExecute
  <2> QED
    BY <2>1, <2>2 DEF Counted, Sent
<1>2. IInv /\ All /\ [Next]_vars => All'
  <2> SUFFICES ASSUME IInv, All, [Next]_vars, NEW d \in Calls PROVE Counted(d)'
    OBVIOUS
  <2>1. ASSUME NEW c \in Calls, ClientStep(c) \/ LexwareStep(c)
        PROVE  Counted(d)'
    <3>1. CASE d = c
      BY <2>1, <3>1, StepKeepsCount
    <3>2. CASE d # c
      BY <2>1, <3>2, StepKeepsOthers DEF IInv
    <3> QED
      BY <3>1, <3>2
  <2>2. CASE UNCHANGED vars
    <3>1. MayExecute(d)' = MayExecute(d)
      BY <2>2, NothingCounts DEF vars
    <3> QED
      BY <2>2, <3>1 DEF vars, Counted, Sent
  <2> QED
    BY <2>1, <2>2 DEF Next, Finished
<1> QED
  BY <1>1, <1>2, Invariance, PTL DEF Spec

\* No call, idempotent or not, has more effects than attempts, and a refusal
\* takes one off: the load a call can put on Lexware is bounded.
THEOREM EffectsCountedCorrect == Spec => []EffectsCounted
<1>1. IInv /\ (\A c \in Calls : Counted(c)) => EffectsCounted
  <2> SUFFICES ASSUME IInv, NEW c \in Calls, Counted(c)
               PROVE  /\ MayExecute(c) <= attempt[c] + 1
                      /\ outcome[c] \in NotExecuted => MayExecute(c) <= attempt[c]
    BY DEF EffectsCounted
  <2>1. attempt[c] \in Nat /\ MayExecute(c) \in Nat
    BY CountTypes DEF IInv
  <2>2. Sent(c) = attempt[c] + 1 \/ Sent(c) = attempt[c]
    BY DEF Sent
  <2> QED
    BY <2>1, <2>2 DEF Counted
<1> QED
  BY <1>1, AlwaysCounted, Invariance, PTL
-----------------------------------------------------------------------------
(* No call goes on for ever. *)

\* The steps that are left to a call if every attempt fails that may.
StepsLeft(c) ==
  3 * (MaxRetries - attempt[c])
  + CASE pc[c] \in {"idle", "sleeping"} -> 4
      [] pc[c] = "acquiring" -> 3
      [] pc[c] = "waiting"   -> 2
      [] pc[c] = "reading"   -> 1
      [] pc[c] = "done"      -> 0

\* Every step of a call brings it nearer to its end, and nothing that others or
\* Lexware do takes it further away.
EveryStepCounts ==
  [][\A c \in Calls :
       /\ StepsLeft(c)' <= StepsLeft(c)
       /\ ClientStep(c) => StepsLeft(c)' < StepsLeft(c)]_vars

\* It depends on the place of the call and its attempt.
LEMMA StepsLeftFacts ==
  ASSUME TypeOK, NEW c \in Calls
  PROVE  /\ StepsLeft(c) \in Nat /\ StepsLeft(c) <= 3 * MaxRetries + 4
         /\ attempt'[c] = attempt[c] /\ pc'[c] = pc[c] => StepsLeft(c)' = StepsLeft(c)
<1>1. /\ attempt[c] \in Nat /\ attempt[c] <= MaxRetries /\ MaxRetries \in Nat
      /\ pc[c] \in {"idle", "acquiring", "waiting", "sleeping", "reading", "done"}
  BY ClientAssumption DEF TypeOK
<1> QED
  BY <1>1 DEF StepsLeft

\* A retry is nearer to the end than the attempt it follows.
LEMMA StepCounts ==
  ASSUME TypeOK, TypeOK', NEW c \in Calls, ClientStep(c)
  PROVE  StepsLeft(c)' < StepsLeft(c)
<1>1. /\ attempt[c] \in Nat /\ attempt[c] <= MaxRetries /\ MaxRetries \in Nat
      /\ attempt'[c] \in Nat /\ attempt'[c] <= MaxRetries
  BY ClientAssumption DEF TypeOK
<1>2. CASE Begin(c)
  <2>1. pc[c] = "idle" /\ pc'[c] = "acquiring" /\ attempt'[c] = attempt[c]
    BY <1>2 DEF Begin, TypeOK
  <2> QED
    BY <1>1, <2>1 DEF StepsLeft
<1>3. CASE Wake(c)
  <2>1. pc[c] = "sleeping" /\ pc'[c] = "acquiring" /\ attempt'[c] = attempt[c]
    BY <1>3 DEF Wake, TypeOK
  <2> QED
    BY <1>1, <2>1 DEF StepsLeft
<1>4. CASE Send(c)
  <2>1. pc[c] = "acquiring" /\ pc'[c] = "waiting" /\ attempt'[c] = attempt[c]
    BY <1>4 DEF Send, TypeOK
  <2> QED
    BY <1>1, <2>1 DEF StepsLeft
<1>5. CASE TransportFailure(c) \/ Receive(c)
  <2>1. pc[c] = "waiting"
    BY <1>5 DEF TransportFailure, Receive
  <2>2. \/ pc'[c] = "sleeping" /\ attempt'[c] = attempt[c] + 1
        \/ pc'[c] \in {"reading", "done"} /\ attempt'[c] = attempt[c]
    BY <1>5 DEF TransportFailure, Receive, Retry, Settle, TypeOK
  <2> QED
    BY <1>1, <2>1, <2>2 DEF StepsLeft
<1>6. CASE ReadBody(c)
  <2>1. pc[c] = "reading" /\ pc'[c] = "done" /\ attempt'[c] = attempt[c]
    BY <1>6 DEF ReadBody, Settle, TypeOK
  <2> QED
    BY <1>1, <2>1 DEF StepsLeft
<1> QED
  BY <1>2, <1>3, <1>4, <1>5, <1>6 DEF ClientStep

\* The safety half of Settles: a call makes at most three steps for each retry
\* and four more, whatever Lexware answers and however often it does not
\* (client.ts: sendWithRetry).  What is left to fairness is that it makes them.
THEOREM EveryStepCountsCorrect ==
  Spec => [](\A c \in Calls : StepsLeft(c) \in 0..(3 * MaxRetries + 4)) /\ EveryStepCounts
<1> DEFINE Bounded == \A c \in Calls : StepsLeft(c) \in 0..(3 * MaxRetries + 4)
           Counts  == \A c \in Calls :
                        /\ StepsLeft(c)' <= StepsLeft(c)
                        /\ ClientStep(c) => StepsLeft(c)' < StepsLeft(c)
<1>1. TypeOK => Bounded
  BY StepsLeftFacts, ClientAssumption
<1>2. TypeOK /\ TypeOK' /\ [Next]_vars => [Counts]_vars
  <2> SUFFICES ASSUME TypeOK, TypeOK', Next, NEW c \in Calls
               PROVE  /\ StepsLeft(c)' <= StepsLeft(c)
                      /\ ClientStep(c) => StepsLeft(c)' < StepsLeft(c)
    OBVIOUS
  <2>1. StepsLeft(c) \in Nat /\ StepsLeft(c)' \in Nat
    <3>1. \A d \in Calls : StepsLeft(d) \in Nat
      BY StepsLeftFacts
    <3>2. StepsLeft(c)' \in Nat
      BY ClientAssumption DEF StepsLeft, TypeOK
    <3> QED
      BY <3>1, <3>2
  <2>2. CASE ClientStep(c)
    BY <2>1, <2>2, StepCounts
  <2>3. CASE ~ClientStep(c)
    <3>1. attempt'[c] = attempt[c] /\ pc'[c] = pc[c]
      <4>1. ASSUME NEW d \in Calls, ClientStep(d) \/ LexwareStep(d), d # c
            PROVE  attempt'[c] = attempt[c] /\ pc'[c] = pc[c]
        BY <4>1, StepTouchesOne DEF OnlyTouches
      <4>2. CASE LexwareStep(c)
        BY <4>2 DEF LexwareStep, Execute, Refuse, Answer
      <4>3. CASE Finished
        BY <4>3 DEF Finished, vars
      <4> QED
        BY <2>3, <4>1, <4>2, <4>3 DEF Next
    <3>2. StepsLeft(c)' = StepsLeft(c)
      BY <3>1, StepsLeftFacts
    <3> QED
      BY <2>1, <2>3, <3>2
  <2> QED
    BY <2>2, <2>3
<1> QED
  BY <1>1, <1>2, TypeCorrect, PTL DEF Spec, EveryStepCounts
=============================================================================
