--------------------------- MODULE TokenVerifier ---------------------------
(***************************************************************************)
(* verifyAccessToken() of src/oauth.ts with allowedEmailDomains set: the   *)
(* email of a token is its verified claim, or a cached userinfo answer, or *)
(* a userinfo lookup that other verifications, the clock and changes at    *)
(* the identity provider (IdP) can overtake.                               *)
(*                                                                         *)
(* Tokens have passed the checks of signature, issuer, audience and sub;   *)
(* an email is what isEmailDomainAllowed() says of it: "allowed" or        *)
(* "other".  The cache key, a hash of the token, is the token.             *)
(***************************************************************************)
EXTENDS Integers, FiniteSets

CONSTANTS Slots,         \* verifications that may run at once
          Tokens,        \* the tokens presented
          Claims,        \* tokens with a verified claim of an allowed email
          Expiring,      \* tokens with an exp claim
          ExpiresAt,     \* that exp, in seconds
          Ttl,           \* seconds a token without exp is cached (300)
          Timeout,       \* USERINFO_TIMEOUT_MS, in seconds
          MaxEntries,    \* MAX_EMAIL_CACHE_ENTRIES
          MaxTime,       \* bound: the clock stops here
          MaxChanges     \* bound: changes of emails at the IdP

ASSUME VerifierAssumption ==
  /\ Claims \subseteq Tokens /\ Expiring \subseteq Tokens
  /\ ExpiresAt \in Nat /\ Ttl \in Nat /\ Timeout \in Nat
  /\ MaxEntries \in Nat \ {0}
  /\ MaxTime \in Nat /\ MaxChanges \in Nat

VARIABLES
  now,       \* Date.now() in seconds
  account,   \* account[t]: what the IdP knows of the email of t's user, for the
             \* tokens that do not say it themselves
  changes,   \* how often that changed
  cache,     \* emailCache: token -> [email, exp, at], at is history
  job,       \* job[v]: the lookup verification v waits for
  verdict,   \* verdict[v]: how the last verification of v ended; history: an
             \* accepted token, when it was, and since when its email is known
  answered   \* history: answered[t]: the verified emails the IdP gave for t

vars == <<now, account, changes, cache, job, verdict, answered>>

Emails  == {"allowed", "other"}
Seconds == 0..MaxTime

\* No lookup; one on its way to the IdP; one the IdP answered at `at`.
Idle == [is |-> "idle"]
Jobs ==
  {Idle}
  \cup [is : {"asking"}, token : Tokens, nowSec : Seconds]
  \cup [is : {"answered"}, token : Tokens, nowSec : Seconds,
        email : Emails \cup {"none"}, at : Seconds]

Verdicts ==
  [is : {"none", "invalid", "forbidden"}]
  \cup [is : {"accepted"}, token : Tokens, at : Seconds, on : Seconds]

TypeOK ==
  /\ now \in Seconds
  /\ account \in [Tokens \ Claims -> Emails \cup {"unverified"}]
  /\ changes \in 0..MaxChanges
  /\ DOMAIN cache \subseteq Tokens
  /\ \A t \in DOMAIN cache : cache[t] \in [email : Emails, exp : Nat, at : Seconds]
  /\ job \in [Slots -> Jobs]
  /\ verdict \in [Slots -> Verdicts]
  /\ answered \in [Tokens -> SUBSET Emails]

NoVerdict == [is |-> "none"]

Init ==
  /\ now = 0
  /\ account \in [Tokens \ Claims -> Emails]
  /\ changes = 0
  /\ cache = <<>>
  /\ job = [v \in Slots |-> Idle]
  /\ verdict = [v \in Slots |-> NoVerdict]
  /\ answered = [t \in Tokens |-> {}]

-----------------------------------------------------------------------------
(* The verifier. *)

\* The domain check, on an email of token t known since `at`.
Decide(v, t, email, at) ==
  verdict' = [verdict EXCEPT ![v] =
    IF email = "allowed" THEN [is |-> "accepted", token |-> t, at |-> at, on |-> now]
    ELSE [is |-> "forbidden"]]

Expired(t) == t \in Expiring /\ now >= ExpiresAt
Hit(t)     == t \in DOMAIN cache /\ cache[t].exp > now

\* jwtVerify() rejects.
Reject(v, t) ==
  /\ job[v] = Idle
  /\ Expired(t)
  /\ verdict' = [verdict EXCEPT ![v] = [is |-> "invalid"]]
  /\ UNCHANGED <<now, account, changes, cache, job, answered>>

\* The claim or the cache has the email.
VerifyAtOnce(v, t) ==
  /\ job[v] = Idle
  /\ ~Expired(t)
  /\ \/ t \in Claims /\ Decide(v, t, "allowed", now)
     \/ t \notin Claims /\ Hit(t) /\ Decide(v, t, cache[t].email, cache[t].at)
  /\ UNCHANGED <<now, account, changes, cache, job, answered>>

\* The email has to be looked up.
Ask(v, t) ==
  /\ job[v] = Idle
  /\ ~Expired(t) /\ t \notin Claims /\ ~Hit(t)
  /\ job' = [job EXCEPT ![v] = [is |-> "asking", token |-> t, nowSec |-> now]]
  /\ verdict' = [verdict EXCEPT ![v] = NoVerdict]
  /\ UNCHANGED <<now, account, changes, cache, answered>>

\* Faulty variants: nothing is evicted; live entries go with the expired.
KeptAll(asOf)       == DOMAIN cache
KeptOrCleared(asOf) == IF Cardinality(DOMAIN cache) < MaxEntries THEN DOMAIN cache ELSE {}

\* Which entries survive when one is added: all, or the live ones, or none.
Kept(asOf) ==
  LET live == {t \in DOMAIN cache : cache[t].exp > asOf}
  IN  CASE Cardinality(DOMAIN cache) < MaxEntries -> DOMAIN cache
        [] Cardinality(DOMAIN cache) >= MaxEntries /\ Cardinality(live) < MaxEntries -> live
        [] OTHER -> {}

\* Faulty variant: the lifetime starts when the answer is delivered.
EntryExpLate(t, asOf) == IF t \in Expiring THEN ExpiresAt ELSE now + Ttl

EntryExp(t, asOf) == IF t \in Expiring THEN ExpiresAt ELSE asOf + Ttl

\* The answer arrives with a verified email: it is cached, then judged.
Learn(v) ==
  /\ job[v].is = "answered" /\ job[v].email \in Emails
  /\ LET t     == job[v].token
         entry == [email |-> job[v].email, exp |-> EntryExp(t, job[v].nowSec),
                   at |-> job[v].at]
     IN  /\ cache' = [k \in Kept(job[v].nowSec) \cup {t} |->
                        IF k = t THEN entry ELSE cache[k]]
         /\ Decide(v, t, entry.email, entry.at)
  /\ job' = [job EXCEPT ![v] = Idle]
  /\ UNCHANGED <<now, account, changes, answered>>

\* Faulty variant: misses are cached.
MissCached(v) ==
  /\ job[v].is = "asking" \/ (job[v].is = "answered" /\ job[v].email = "none")
  /\ Decide(v, job[v].token, "none", now)
  /\ cache' = [k \in DOMAIN cache \cup {job[v].token} |->
                 IF k \in DOMAIN cache THEN cache[k]
                 ELSE [email |-> "none", exp |-> now + Ttl, at |-> now]]
  /\ job' = [job EXCEPT ![v] = Idle]
  /\ UNCHANGED <<now, account, changes, answered>>

\* No answer, an error, a timeout or an unverified email: 403, not cached.
Miss(v) ==
  /\ job[v].is = "asking" \/ (job[v].is = "answered" /\ job[v].email = "none")
  /\ Decide(v, job[v].token, "none", now)
  /\ job' = [job EXCEPT ![v] = Idle]
  /\ UNCHANGED <<now, account, changes, cache, answered>>

-----------------------------------------------------------------------------
(* The IdP and the clock. *)

\* Faulty variant: email_verified is not looked at.
UserinfoUnverified(v) ==
  /\ job[v].is = "asking"
  /\ LET t == job[v].token
         e == IF account[t] \in Emails THEN account[t] ELSE "allowed"
     IN  /\ job' = [job EXCEPT ![v] = [is |-> "answered", token |-> t,
                      nowSec |-> job[v].nowSec, email |-> e, at |-> now]]
         /\ answered' = [answered EXCEPT ![t] = @ \cup ({account[t]} \cap Emails)]
  /\ UNCHANGED <<now, account, changes, cache, verdict>>

\* The IdP handles the lookup; its answer travels on.
Userinfo(v) ==
  /\ job[v].is = "asking"
  /\ LET t == job[v].token
         e == IF account[t] \in Emails THEN account[t] ELSE "none"
     IN  /\ job' = [job EXCEPT ![v] = [is |-> "answered", token |-> t,
                      nowSec |-> job[v].nowSec, email |-> e, at |-> now]]
         /\ answered' = [answered EXCEPT ![t] = @ \cup ({e} \cap Emails)]
  /\ UNCHANGED <<now, account, changes, cache, verdict>>

ChangeAccount(t) ==
  /\ changes < MaxChanges
  /\ changes' = changes + 1
  /\ \E a \in (Emails \cup {"unverified"}) \ {account[t]} :
       account' = [account EXCEPT ![t] = a]
  /\ UNCHANGED <<now, cache, job, verdict, answered>>

\* A lookup ends before its timeout.
Tick ==
  /\ now < MaxTime
  /\ \A v \in Slots : job[v] # Idle => now < job[v].nowSec + Timeout
  /\ now' = now + 1
  /\ UNCHANGED <<account, changes, cache, job, verdict, answered>>

Next ==
  \/ \E v \in Slots :
       \/ \E t \in Tokens : Reject(v, t) \/ VerifyAtOnce(v, t) \/ Ask(v, t)
       \/ Learn(v) \/ Miss(v) \/ Userinfo(v)
  \/ \E t \in Tokens \ Claims : ChangeAccount(t)
  \/ Tick

Spec == Init /\ [][Next]_vars

-----------------------------------------------------------------------------
(* Properties. *)

\* However many lookups end together, the cache never outgrows its limit.
CacheBounded == Cardinality(DOMAIN cache) <= MaxEntries

\* What is cached for a token is an email the IdP gave as verified for that
\* very token; a failed lookup leaves nothing behind that could turn the next
\* verification away.
CachedWasAnswered ==
  \A t \in DOMAIN cache : cache[t].email \in answered[t]

\* When an answer the IdP gave for token t at `at` stops counting.
Lapse(t, at) == IF t \in Expiring THEN ExpiresAt ELSE at + Ttl

\* Nobody is accepted on an email that is out of date, however slow the lookups
\* and in whatever order those of one token ended: what the IdP said serves the
\* lookup it answers, up to its timeout, and beyond that for less than Ttl
\* seconds from the moment the IdP said it or, for a token with exp, only until
\* that token itself expires, which is all the code promises there.
FreshBasis ==
  \A v \in Slots :
    LET d == verdict[v]
    IN  d.is = "accepted" => d.on <= d.at + Timeout \/ d.on < Lapse(d.token, d.at)

\* An entry that is still good leaves the cache only when every one of
\* MaxEntries entries is: expired ones always go first.
LiveEntriesKept ==
  [][\A v \in Slots :
       job[v].is = "answered" /\ job'[v] = Idle =>
         LET live == {t \in DOMAIN cache : cache[t].exp > job[v].nowSec}
         IN  Cardinality(live) < MaxEntries => live \subseteq DOMAIN cache']_vars
=============================================================================
