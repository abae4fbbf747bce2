--------------------------- MODULE LexwareClient ---------------------------
(***************************************************************************)
(* The HTTP client of src/lexware/client.ts: sendWithRetry(), and request(),*)
(* getBinary() and postMultipart() that read the body of what it returns.  *)
(*                                                                         *)
(* A call is one invocation of these; it makes up to MaxRetries + 1        *)
(* attempts.  The network may lose a request or a reply, and the timeout   *)
(* may fire while Lexware still has the request: an abandoned request may  *)
(* take effect at any later time.  Lexware answers a request with a class  *)
(* of status:                                                              *)
(*   "ok"         2xx: carried out                                         *)
(*   "throttled"  429: not carried out                                     *)
(*   "transient"  500, 502, 503, 504: carried out or not                   *)
(*   "notFound", "refused"  404, any other status: not carried out         *)
(* The rate limiter appears as the wait in "acquiring".                    *)
(***************************************************************************)
EXTENDS Integers, Sequences

CONSTANTS Calls,         \* invocations of the client
          Idempotent,    \* those made with idempotent: true (GET, DELETE)
          Uploads,       \* those of postMultipart()
          MaxRetries,    \* maxRetries
          RetryAfters,   \* Retry-After headers, in ms from now
          NoRetryAfter,  \* the header is absent or unreadable
          JitterSteps    \* random() is k / JitterSteps, k < JitterSteps

ASSUME ClientAssumption ==
  /\ Idempotent \subseteq Calls /\ Uploads \subseteq Calls \ Idempotent
  /\ MaxRetries \in Nat
  /\ RetryAfters \subseteq Int /\ NoRetryAfter \notin Int
  /\ JitterSteps \in Nat \ {0}

VARIABLES
  pc,        \* where each call is
  attempt,   \* attempt[c]: its attempts so far, but the first
  slept,     \* slept[c]: the waits before its retries, in ms
  wire,      \* requests Lexware has not handled yet: <<call, attempt>>
  reply,     \* reply[c]: the status on its way to the current attempt of c
  executed,  \* executed[c]: how often Lexware carried out a request of c
  outcome    \* outcome[c]: what the caller of c got

vars == <<pc, attempt, slept, wire, reply, executed, outcome>>

NotExecuted == {"throttled", "notFound", "refused"}
Statuses    == NotExecuted \cup {"ok", "transient"}
Errors      == NotExecuted \cup {"transient", "network", "raw"}

TypeOK ==
  /\ pc \in [Calls -> {"idle", "acquiring", "waiting", "sleeping", "reading", "done"}]
  /\ attempt \in [Calls -> 0..MaxRetries]
  /\ slept \in [Calls -> Seq(Nat)]
  /\ wire \subseteq Calls \X (0..MaxRetries)
  /\ reply \in [Calls -> Statuses \cup {"none"}]
  /\ executed \in [Calls -> Nat]
  /\ outcome \in [Calls -> Errors \cup {"pending", "returned"}]

Init ==
  /\ pc = [c \in Calls |-> "idle"]
  /\ attempt = [c \in Calls |-> 0]
  /\ slept = [c \in Calls |-> <<>>]
  /\ wire = {}
  /\ reply = [c \in Calls |-> "none"]
  /\ executed = [c \in Calls |-> 0]
  /\ outcome = [c \in Calls |-> "pending"]

-----------------------------------------------------------------------------
(* How long to wait before the next attempt. *)

MinWaitMs == 250
MaxWaitMs == 30000

\* backoffMs(): exponential from 500 ms, at most 8 s, the upper half jittered.
BackoffMs(n, k) ==
  LET base == IF n >= 4 THEN 8000 ELSE 500 * 2^n
  IN  (base * (JitterSteps + k)) \div (2 * JitterSteps)

\* Faulty variant: the header is believed.
RetryAfterMsUnclamped(h, n, k) == IF h = NoRetryAfter THEN BackoffMs(n, k) ELSE h

\* retryAfterMs(): the header clamped, or a backoff without one.
RetryAfterMs(h, n, k) ==
  CASE h = NoRetryAfter -> BackoffMs(n, k)
    [] h # NoRetryAfter /\ h < MinWaitMs -> MinWaitMs
    [] h # NoRetryAfter /\ h > MaxWaitMs -> MaxWaitMs
    [] OTHER -> h

Jitter == 0..(JitterSteps - 1)

-----------------------------------------------------------------------------
(* The client. *)

Begin(c) ==
  /\ pc[c] = "idle"
  /\ pc' = [pc EXCEPT ![c] = "acquiring"]
  /\ UNCHANGED <<attempt, slept, wire, reply, executed, outcome>>

\* The limiter let the call pass: fetch().
Send(c) ==
  /\ pc[c] = "acquiring"
  /\ pc' = [pc EXCEPT ![c] = "waiting"]
  /\ wire' = wire \cup {<<c, attempt[c]>>}
  /\ UNCHANGED <<attempt, slept, reply, executed, outcome>>

Retry(c, ms) ==
  /\ pc' = [pc EXCEPT ![c] = "sleeping"]
  /\ attempt' = [attempt EXCEPT ![c] = @ + 1]
  /\ slept' = [slept EXCEPT ![c] = Append(@, ms)]
  /\ UNCHANGED outcome

Settle(c, result) ==
  /\ pc' = [pc EXCEPT ![c] = "done"]
  /\ outcome' = [outcome EXCEPT ![c] = result]
  /\ UNCHANGED <<attempt, slept>>

\* Faulty variants: every failure is retried; no timeout ends a fetch() whose
\* request Lexware still holds.
TransportFailureRetried(c) ==
  /\ pc[c] = "waiting"
  /\ reply' = [reply EXCEPT ![c] = "none"]
  /\ IF attempt[c] < MaxRetries
     THEN \E k \in Jitter : Retry(c, BackoffMs(attempt[c], k))
     ELSE Settle(c, "network")
  /\ UNCHANGED <<wire, executed>>

TransportFailureUntimed(c) ==
  /\ pc[c] = "waiting" /\ <<c, attempt[c]>> \notin wire
  /\ reply' = [reply EXCEPT ![c] = "none"]
  /\ IF c \in Idempotent /\ attempt[c] < MaxRetries
     THEN \E k \in Jitter : Retry(c, BackoffMs(attempt[c], k))
     ELSE Settle(c, "network")
  /\ UNCHANGED <<wire, executed>>

\* fetch() rejects: the connection failed or AbortSignal.timeout fired.
TransportFailure(c) ==
  /\ pc[c] = "waiting"
  /\ reply' = [reply EXCEPT ![c] = "none"]
  /\ IF c \in Idempotent /\ attempt[c] < MaxRetries
     THEN \E k \in Jitter : Retry(c, BackoffMs(attempt[c], k))
     ELSE Settle(c, "network")
  /\ UNCHANGED <<wire, executed>>

\* Faulty variants: no limit on attempts; a 5xx is retried for every call.
RetriesStatusUnlimited(c) ==
  reply[c] = "throttled" \/ (reply[c] = "transient" /\ c \in Idempotent)

RetriesStatusOfAll(c) == attempt[c] < MaxRetries /\ reply[c] \in {"throttled", "transient"}

RetriesStatus(c) ==
  /\ attempt[c] < MaxRetries
  /\ reply[c] = "throttled" \/ (reply[c] = "transient" /\ c \in Idempotent)

\* fetch() resolves with a status.
Receive(c) ==
  /\ pc[c] = "waiting" /\ reply[c] # "none"
  /\ reply' = [reply EXCEPT ![c] = "none"]
  /\ \/ /\ RetriesStatus(c) /\ reply[c] = "throttled"
        /\ \E h \in RetryAfters \cup {NoRetryAfter}, k \in Jitter :
             Retry(c, RetryAfterMs(h, attempt[c], k))
     \/ /\ RetriesStatus(c) /\ reply[c] = "transient"
        /\ \E k \in Jitter : Retry(c, BackoffMs(attempt[c], k))
     \/ /\ ~RetriesStatus(c) /\ reply[c] # "ok"
        /\ Settle(c, reply[c])
     \/ /\ reply[c] = "ok"
        /\ pc' = [pc EXCEPT ![c] = "reading"]
        /\ UNCHANGED <<attempt, slept, outcome>>
  /\ UNCHANGED <<wire, executed>>

Wake(c) ==
  /\ pc[c] = "sleeping"
  /\ pc' = [pc EXCEPT ![c] = "acquiring"]
  /\ UNCHANGED <<attempt, slept, wire, reply, executed, outcome>>

\* The body arrives, or reading it fails: bodyReadError(), which
\* postMultipart() does not call.
ReadBody(c) ==
  /\ pc[c] = "reading"
  /\ \/ Settle(c, "returned")
     \/ Settle(c, IF c \in Uploads THEN "raw" ELSE "network")
  /\ UNCHANGED <<wire, reply, executed>>

-----------------------------------------------------------------------------
(* Lexware.  A reply to an attempt the client gave up goes nowhere. *)

Answer(c, n, status) ==
  /\ wire' = wire \ {<<c, n>>}
  /\ reply' = IF pc[c] = "waiting" /\ attempt[c] = n
              THEN [reply EXCEPT ![c] = status] ELSE reply
  /\ UNCHANGED <<pc, attempt, slept, outcome>>

Execute(c, n, status) ==
  /\ <<c, n>> \in wire
  /\ status \in {"ok", "transient"}
  /\ executed' = [executed EXCEPT ![c] = @ + 1]
  /\ Answer(c, n, status)

Refuse(c, n, status) ==
  /\ <<c, n>> \in wire
  /\ status \in NotExecuted \cup {"transient"}
  /\ UNCHANGED executed
  /\ Answer(c, n, status)

-----------------------------------------------------------------------------
ClientStep(c) ==
  Begin(c) \/ Send(c) \/ TransportFailure(c) \/ Receive(c) \/ Wake(c) \/ ReadBody(c)

LexwareStep(c) ==
  \E n \in 0..MaxRetries, s \in Statuses : Execute(c, n, s) \/ Refuse(c, n, s)

\* Every call has settled and nothing is left on the wire.
Finished == (\A c \in Calls : pc[c] = "done") /\ wire = {} /\ UNCHANGED vars

Next == (\E c \in Calls : ClientStep(c) \/ LexwareStep(c)) \/ Finished

Spec == Init /\ [][Next]_vars

\* The limiter serves every call (RateLimiter!Served), timers fire, and
\* AbortSignal.timeout ends a fetch() and a body that hang.  Lexware need not
\* answer, and nobody has to make a call.
Fairness ==
  \A c \in Calls :
    /\ WF_vars(Send(c))
    /\ WF_vars(TransportFailure(c) \/ Receive(c))
    /\ WF_vars(Wake(c))
    /\ WF_vars(ReadBody(c))

FairSpec == Spec /\ Fairness

-----------------------------------------------------------------------------
(* Properties. *)

\* A call that is not idempotent takes effect at most once, through 429s,
\* timeouts, lost replies and requests Lexware handles late: no retry of the
\* client can create a second document.
AtMostOnce == \A c \in Calls \ Idempotent : executed[c] <= 1

\* When the caller of a non-idempotent call is told 429, 404 or another
\* refusal, the call had no effect and no request is left that could still
\* have one: making the call again is safe.
RefusalIsFinal ==
  \A c \in Calls \ Idempotent :
    outcome[c] \in NotExecuted =>
      executed[c] = 0 /\ \A n \in 0..MaxRetries : <<c, n>> \notin wire

\* Whatever Retry-After says, every retry of a call comes after a wait of its
\* own of 250 ms to 30 s, and there are at most MaxRetries of them: the client
\* neither hammers Lexware nor hangs.
RetriesSpaced ==
  \A c \in Calls :
    /\ attempt[c] <= MaxRetries
    /\ Len(slept[c]) = attempt[c]
    /\ slept[c] \in Seq(MinWaitMs..MaxWaitMs)

\* Every call ends, even when Lexware never answers.
Settles == \A c \in Calls : (pc[c] = "acquiring") ~> (pc[c] = "done")

\* Every failure reaches the caller as a LexwareApiError (CHANGELOG, 0.1.4).
FailuresAreClassified == \A c \in Calls : outcome[c] # "raw"

\* The client keeps the promise the tools build on.
Promise == INSTANCE RemoteCalls
             WITH Replayable <- Idempotent, Definite <- NotExecuted,
                  Outcomes <- Errors, effects <- executed
ImplementsRemoteCalls == Promise!Spec
=============================================================================
