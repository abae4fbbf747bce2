---------------------- MODULE DeleteIdempotent_proofs ----------------------
(***************************************************************************)
(* Theorems about DeleteIdempotent, for any number of calls that delete    *)
(* the resource at once and any number of retries.                         *)
(***************************************************************************)
EXTENDS DeleteIdempotent, LexwareClient_proofs

\* A 2xx for the call c is on its way, being read, or returned.
Succeeds(c) == reply[c] = "ok" \/ pc[c] = "reading" \/ outcome[c] = "returned"

\* A 404 for the call c is on its way or returned.
Misses(c) == reply[c] = "notFound" \/ outcome[c] = "notFound"

\* A success spends the one resource there was, and nothing brings it back.
DInv ==
  /\ TypeOK
  /\ exists \in BOOLEAN /\ (exists => existed)
  /\ \A c \in Calls : Succeeds(c) \/ Misses(c) => ~exists
  /\ \A c \in Calls : Succeeds(c) => existed
  /\ \A c, d \in Calls : Succeeds(c) /\ Succeeds(d) => c = d

-----------------------------------------------------------------------------
\* Nothing is under way before a call begins.
LEMMA InitDInv == DInit => DInv
<1> SUFFICES ASSUME DInit PROVE DInv
  OBVIOUS
<1>1. TypeOK
  BY InitIInv DEF DInit, IInv
<1>2. \A c \in Calls : ~Succeeds(c) /\ ~Misses(c)
  BY DEF DInit, Init, Succeeds, Misses
<1>3. exists \in BOOLEAN /\ existed = exists
  BY DEF DInit
<1> QED
  BY <1>1, <1>2, <1>3 DEF DInv

\* Every step is one of the client and Lexware, seen without the resource.
LEMMA StepOfClient == DNext => Next
<1> SUFFICES ASSUME DNext PROVE Next
  OBVIOUS
<1>1. CASE \E c \in Calls : ClientStep(c)
  BY <1>1 DEF Next
<1>2. ASSUME NEW c \in Calls, NEW n \in 0..MaxRetries, NEW s \in Statuses,
             Carry(c, n, s) \/ Decline(c, n, s)
      PROVE  Next
  BY <1>2 DEF Next, LexwareStep, Carry, Decline
<1>3. CASE Finished
  BY <1>3 DEF Next
<1> QED
  BY <1>1, <1>2, <1>3 DEF DNext

\* The client on its own makes no success and no 404 of anything else.
LEMMA ClientPassesOn ==
  ASSUME TypeOK, NEW c \in Calls, ClientStep(c), NEW d \in Calls
  PROVE  /\ Succeeds(d)' => Succeeds(d)
         /\ Misses(d)' => Misses(d)
<1>1. CASE d # c
  BY <1>1 DEF TypeOK, Succeeds, Misses, ClientStep, Begin, Send, TransportFailure,
    Receive, Wake, ReadBody, Retry, Settle
<1>2. CASE d = c
  <2>1. CASE Begin(c) \/ Send(c) \/ Wake(c)
    BY <1>2, <2>1 DEF TypeOK, Succeeds, Misses, Begin, Send, Wake
  <2>2. CASE TransportFailure(c)
    BY <1>2, <2>2 DEF TypeOK, Succeeds, Misses, TransportFailure, Retry, Settle
  <2>3. CASE Receive(c)
    <3>1. reply'[c] = "none"
      BY <2>3 DEF TypeOK, Receive
    <3>2. CASE reply[c] = "ok" /\ pc'[c] = "reading" /\ outcome' = outcome
      BY <1>2, <3>1, <3>2 DEF Succeeds, Misses
    <3>3. CASE pc'[c] = "sleeping" /\ outcome' = outcome
      BY <1>2, <3>1, <3>3 DEF Succeeds, Misses
    <3>4. CASE reply[c] # "ok" /\ pc'[c] = "done" /\ outcome'[c] = reply[c]
      <4>1. reply[c] # "returned"
        BY DEF TypeOK, Statuses, NotExecuted
      <4> QED
        BY <1>2, <3>1, <3>4, <4>1 DEF Succeeds, Misses
    <3> QED
      BY <2>3, <3>2, <3>3, <3>4 DEF TypeOK, Receive, Retry, Settle
  <2>4. CASE ReadBody(c)
    BY <1>2, <2>4 DEF TypeOK, Succeeds, Misses, ReadBody, Settle
  <2> QED
    BY <2>1, <2>2, <2>3, <2>4 DEF ClientStep
<1> QED
  BY <1>1, <1>2

\* An answer concerns the call it is for, and says what Lexware answered.
LEMMA AnswerPassesOn ==
  ASSUME TypeOK, NEW c \in Calls, NEW n \in 0..MaxRetries, NEW s \in Statuses,
         Answer(c, n, s), NEW d \in Calls
  PROVE  /\ Succeeds(d)' => Succeeds(d) \/ (d = c /\ s = "ok")
         /\ Misses(d)' => Misses(d) \/ s = "notFound"
  BY DEF TypeOK, Answer, Succeeds, Misses

\* Every step keeps the invariant.
LEMMA StepDInv == DInv /\ [DNext]_dvars => DInv'
<1> SUFFICES ASSUME DInv, [DNext]_dvars PROVE DInv'
  OBVIOUS
<1>1. TypeOK'
  <2>1. [Next]_vars
    BY StepOfClient DEF dvars
  <2> QED
    BY <2>1, TypeStep DEF DInv
<1>2. ASSUME UNCHANGED <<exists, existed>>,
             \A d \in Calls : (Succeeds(d)' => Succeeds(d)) /\ (Misses(d)' => Misses(d) \/ ~exists)
      PROVE  DInv'
  BY <1>1, <1>2 DEF DInv
<1>3. ASSUME NEW c \in Calls, ClientStep(c), UNCHANGED <<exists, existed>>
      PROVE  DInv'
  <2>1. TypeOK
    BY DEF DInv
  <2> QED
    BY <1>2, <1>3, <2>1, ClientPassesOn
<1>4. ASSUME NEW c \in Calls, NEW n \in 0..MaxRetries, NEW s \in Statuses, Carry(c, n, s)
      PROVE  DInv'
  <2>1. exists /\ exists' = FALSE /\ existed' = existed
    BY <1>4 DEF Carry
  <2>2. \A d \in Calls : ~Succeeds(d) /\ ~Misses(d)
    BY <2>1 DEF DInv
  <2>3. existed
    BY <2>1 DEF DInv
  <2>4. \A d \in Calls : Succeeds(d)' => d = c
    <3>1. TypeOK /\ Answer(c, n, s)
      BY <1>4 DEF DInv, Carry, Execute
    <3> QED
      BY <2>2, <3>1, AnswerPassesOn
  <2> QED
    BY <1>1, <2>1, <2>3, <2>4 DEF DInv
<1>5. ASSUME NEW c \in Calls, NEW n \in 0..MaxRetries, NEW s \in Statuses, Decline(c, n, s)
      PROVE  DInv'
  <2>1. TypeOK /\ Answer(c, n, s) /\ s # "ok" /\ (s = "notFound" => ~exists)
    BY <1>5 DEF DInv, Decline, Refuse, NotExecuted
  <2>2. UNCHANGED <<exists, existed>>
    BY <1>5 DEF Decline
  <2>3. \A d \in Calls : (Succeeds(d)' => Succeeds(d)) /\ (Misses(d)' => Misses(d) \/ ~exists)
    BY <2>1, AnswerPassesOn
  <2> QED
    BY <1>2, <2>2, <2>3
<1>6. CASE UNCHANGED dvars
  <2>1. \A d \in Calls : (Succeeds(d)' => Succeeds(d)) /\ (Misses(d)' => Misses(d) \/ ~exists)
    BY <1>6 DEF dvars, vars, Succeeds, Misses
  <2> QED
    BY <1>2, <1>6, <2>1 DEF dvars
<1>7. CASE Finished /\ UNCHANGED <<exists, existed>>
  BY <1>6, <1>7 DEF Finished, dvars
<1> QED
  BY <1>3, <1>4, <1>5, <1>6, <1>7 DEF DNext

\* The invariant holds in every state.
LEMMA DInvariance == DSpec => []DInv
  BY InitDInv, StepDInv, PTL DEF DSpec

-----------------------------------------------------------------------------
\* Whoever is told that the resource is deleted finds it gone.
THEOREM DeletedIsGoneCorrect == DSpec => []DeletedIsGone
<1>1. DInv => DeletedIsGone
  BY DEF DInv, DeletedIsGone, ReportsDeleted, ReportsAlreadyAbsent, Succeeds, Misses
<1> QED
  BY <1>1, DInvariance, PTL

\* One of any number of calls is told that it deleted the resource.
THEOREM OneDeleterCorrect == DSpec => []OneDeleter
<1>1. DInv => OneDeleter
  BY DEF DInv, OneDeleter, ReportsDeleted, Succeeds
<1> QED
  BY <1>1, DInvariance, PTL

-----------------------------------------------------------------------------
(* Deleting is calling the client: what is proved of every call holds here.  *)

\* The resource restricts which answers Lexware gives, and nothing else.
THEOREM DeletesAreCalls == DSpec => Spec
<1>1. DInit => Init
  BY DEF DInit
<1>2. [DNext]_dvars => [Next]_vars
  BY StepOfClient DEF dvars
<1> QED
  BY <1>1, <1>2, PTL DEF DSpec, Spec

\* A call that says "already absent" although it deleted the resource itself
\* (shared.ts: deleteIdempotent) was retried: without a retry the flag is true.
WrongFlagNeedsRetry ==
  \A c \in Calls : ReportsAlreadyAbsent(c) /\ attempt[c] = 0 =>
    executed[c] = 0 /\ \A n \in 0..MaxRetries : <<c, n>> \notin wire

\* The flag alreadyAbsent of a DELETE that was answered at its first attempt
\* is right and stays right, whatever other deletes do meanwhile.
THEOREM WrongFlagNeedsRetryCorrect == DSpec => []WrongFlagNeedsRetry
<1>1. TypeOK /\ EffectsCounted => WrongFlagNeedsRetry
  <2> SUFFICES ASSUME TypeOK, EffectsCounted, NEW c \in Calls,
                      ReportsAlreadyAbsent(c), attempt[c] = 0
               PROVE  executed[c] = 0 /\ \A n \in 0..MaxRetries : <<c, n>> \notin wire
    BY DEF WrongFlagNeedsRetry
  <2>1. MayExecute(c) <= 0
    BY DEF EffectsCounted, ReportsAlreadyAbsent, NotExecuted
  <2>2. IsFiniteSet(Unhandled(c)) /\ Cardinality(Unhandled(c)) \in Nat /\ executed[c] \in Nat
    BY UnhandledCount, CountTypes
  <2>3. executed[c] = 0 /\ Cardinality(Unhandled(c)) = 0
    BY <2>1, <2>2 DEF MayExecute
  <2>4. Unhandled(c) = {}
    BY <2>2, <2>3, FS_EmptySet
  <2> QED
    BY <2>3, <2>4 DEF Unhandled
<1> QED
  BY <1>1, DeletesAreCalls, TypeCorrect, EffectsCountedCorrect, PTL
=============================================================================
