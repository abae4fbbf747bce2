------------------------ MODULE TokenVerifier_proofs ------------------------
(***************************************************************************)
(* Theorems about TokenVerifier, for any number of overlapping             *)
(* verifications, any tokens and any limit of the cache.                   *)
(***************************************************************************)
EXTENDS TokenVerifier, FiniteSetTheorems, TLAPS

Asking(j)   == j.is = "asking"
Answered(j) == j.is = "answered"

\* A lookup is not older than its timeout, and its answer not older than it;
\* what it brings for the cache is what the IdP gave.
JobInv(v) ==
  /\ Asking(job[v]) \/ Answered(job[v]) =>
       job[v].nowSec <= now /\ now <= job[v].nowSec + Timeout
  /\ Answered(job[v]) =>
       /\ job[v].nowSec <= job[v].at /\ job[v].at <= now
       /\ job[v].email \in Emails => job[v].email \in answered[job[v].token]

\* An entry without exp ends Ttl after its answer at the latest.
EntryInv(t) ==
  /\ cache[t].at <= now
  /\ t \notin Expiring => cache[t].exp <= cache[t].at + Ttl
  /\ cache[t].email \in answered[t]

IInv ==
  /\ TypeOK
  /\ \A v \in Slots : JobInv(v)
  /\ \A t \in DOMAIN cache : EntryInv(t)
  /\ FreshBasis
  /\ IsFiniteSet(DOMAIN cache) /\ CacheBounded

-----------------------------------------------------------------------------
\* A job is idle, on its way, or answered, and knows what that takes.
LEMMA JobCases ==
  ASSUME NEW j \in Jobs
  PROVE  /\ Asking(j) \/ Answered(j) => j.token \in Tokens /\ j.nowSec \in Seconds
         /\ Answered(j) => j.email \in Emails \cup {"none"} /\ j.at \in Seconds
         /\ j = Idle <=> ~Asking(j) /\ ~Answered(j)
  BY DEF Jobs, Idle, Asking, Answered

\* What the actions put into job.
LEMMA NewJobs ==
  ASSUME NEW t \in Tokens, NEW s \in Seconds, NEW e \in Emails \cup {"none"}, NEW a \in Seconds
  PROVE  /\ Idle \in Jobs
         /\ [is |-> "asking", token |-> t, nowSec |-> s] \in Jobs
         /\ [is |-> "answered", token |-> t, nowSec |-> s, email |-> e, at |-> a] \in Jobs
  BY DEF Jobs

\* Nothing is cached or asked in the beginning.
LEMMA InitIInv == Init => IInv
<1> SUFFICES ASSUME Init PROVE IInv
  OBVIOUS
<1>1. DOMAIN cache = {}
  BY DEF Init
<1>2. TypeOK
  <2>1. /\ Idle \in Jobs
        /\ NoVerdict \in Verdicts
    BY DEF Jobs, NoVerdict, Verdicts
  <2>2. 0 \in Seconds /\ 0 \in 0..MaxChanges
    BY VerifierAssumption DEF Seconds
  <2> QED
    BY <1>1, <2>1, <2>2 DEF Init, TypeOK
<1>3. \A v \in Slots : JobInv(v)
  BY DEF Init, Idle, JobInv, Asking, Answered
<1>4. FreshBasis
  BY DEF Init, FreshBasis, NoVerdict
<1>5. IsFiniteSet(DOMAIN cache) /\ CacheBounded
  BY <1>1, FS_EmptySet, VerifierAssumption DEF CacheBounded
<1> QED
  BY <1>1, <1>2, <1>3, <1>4, <1>5 DEF IInv

-----------------------------------------------------------------------------
(* The parts of a step. *)

\* What the actions put into verdict.
LEMMA NewVerdicts ==
  ASSUME NEW t \in Tokens, NEW at \in Seconds, NEW on \in Seconds
  PROVE  /\ [is |-> "none"] \in Verdicts
         /\ [is |-> "invalid"] \in Verdicts
         /\ [is |-> "forbidden"] \in Verdicts
         /\ [is |-> "accepted", token |-> t, at |-> at, on |-> on] \in Verdicts
  BY DEF Verdicts

\* Whoever is not accepted rests on nothing.
LEMMA OtherVerdict ==
  ASSUME TypeOK, FreshBasis, NEW v \in Slots, NEW d \in Verdicts, d.is # "accepted",
         verdict' = [verdict EXCEPT ![v] = d]
  PROVE  verdict' \in [Slots -> Verdicts] /\ FreshBasis'
<1>1. verdict \in [Slots -> Verdicts]
  BY DEF TypeOK
<1> QED
  BY <1>1 DEF FreshBasis

\* A verdict on an email known since `at`, which still counts.
LEMMA DecideStep ==
  ASSUME TypeOK, FreshBasis, NEW v \in Slots, NEW t \in Tokens, NEW email,
         NEW at \in Seconds, Decide(v, t, email, at),
         email = "allowed" => now <= at + Timeout \/ now < Lapse(t, at)
  PROVE  verdict' \in [Slots -> Verdicts] /\ FreshBasis'
<1>1. now \in Seconds
  BY DEF TypeOK
<1>2. CASE email = "allowed"
  <2> DEFINE new == [is |-> "accepted", token |-> t, at |-> at, on |-> now]
  <2>1. new \in Verdicts
    BY <1>1, NewVerdicts
  <2>2. new.on <= new.at + Timeout \/ new.on < Lapse(new.token, new.at)
    BY <1>2
  <2>3. verdict' = [verdict EXCEPT ![v] = new]
    BY <1>2 DEF Decide
  <2>4. verdict \in [Slots -> Verdicts]
    BY DEF TypeOK
  <2> HIDE DEF new
  <2> QED
    BY <2>1, <2>2, <2>3, <2>4 DEF FreshBasis
<1>3. CASE email # "allowed"
  <2> DEFINE new == [is |-> "forbidden"]
  <2>1. new \in Verdicts /\ new.is # "accepted"
    BY DEF Verdicts
  <2>2. verdict' = [verdict EXCEPT ![v] = new]
    BY <1>3 DEF Decide
  <2> HIDE DEF new
  <2> QED
    BY <2>1, <2>2, OtherVerdict
<1> QED
  BY <1>2, <1>3

\* Adding an entry to those kept respects the limit.
LEMMA KeptBounded ==
  ASSUME IsFiniteSet(DOMAIN cache), CacheBounded, NEW t, NEW asOf
  PROVE  /\ Kept(asOf) \subseteq DOMAIN cache
         /\ IsFiniteSet(Kept(asOf) \cup {t})
         /\ Cardinality(Kept(asOf) \cup {t}) <= MaxEntries
<1> DEFINE live == {k \in DOMAIN cache : cache[k].exp > asOf}
<1>1. Kept(asOf) \subseteq DOMAIN cache
  BY DEF Kept
<1>2. IsFiniteSet(Kept(asOf))
  BY <1>1, FS_Subset
<1>3. Cardinality(Kept(asOf)) < MaxEntries
  <2>1. Cardinality({}) = 0 /\ 0 < MaxEntries
    BY FS_EmptySet, VerifierAssumption
  <2>2. CASE Cardinality(DOMAIN cache) < MaxEntries
    BY <2>2 DEF Kept
  <2>3. CASE ~(Cardinality(DOMAIN cache) < MaxEntries) /\ Cardinality(live) < MaxEntries
    <3>1. Cardinality(DOMAIN cache) \in Nat /\ MaxEntries \in Nat
      BY FS_CardinalityType, VerifierAssumption
    <3>2. Cardinality(DOMAIN cache) >= MaxEntries
      BY <2>3, <3>1
    <3>3. Kept(asOf) = live
      BY <2>3, <3>2 DEF Kept
    <3> QED
      BY <2>3, <3>3
  <2>4. CASE ~(Cardinality(DOMAIN cache) < MaxEntries) /\ ~(Cardinality(live) < MaxEntries)
    <3>1. Kept(asOf) = {}
      BY <2>4 DEF Kept
    <3> QED
      BY <2>1, <3>1
  <2> QED
    BY <2>2, <2>3, <2>4
<1>4. /\ IsFiniteSet(Kept(asOf) \cup {t})
      /\ Cardinality(Kept(asOf) \cup {t}) <= Cardinality(Kept(asOf)) + 1
  <2>1. CASE t \in Kept(asOf)
    <3>1. Kept(asOf) \cup {t} = Kept(asOf)
      BY <2>1
    <3>2. Cardinality(Kept(asOf)) \in Nat
      BY <1>2, FS_CardinalityType
    <3>3. IsFiniteSet(Kept(asOf) \cup {t})
      BY <1>2, <3>1, Zenon
    <3>4. Cardinality(Kept(asOf) \cup {t}) = Cardinality(Kept(asOf))
      BY <3>1, Zenon
    <3> HIDE <3>1
    <3> QED
      BY <3>2, <3>3, <3>4
  <2>2. CASE t \notin Kept(asOf)
    <3>1. /\ IsFiniteSet(Kept(asOf) \cup {t})
          /\ Cardinality(Kept(asOf) \cup {t}) = Cardinality(Kept(asOf)) + 1
      BY <1>2, <2>2, FS_AddElement
    <3>2. Cardinality(Kept(asOf)) \in Nat
      BY <1>2, FS_CardinalityType
    <3> QED
      BY <3>1, <3>2
  <2> QED
    BY <2>1, <2>2
<1>5. /\ Cardinality(Kept(asOf)) \in Nat
      /\ Cardinality(Kept(asOf) \cup {t}) \in Nat
      /\ MaxEntries \in Nat
  BY <1>2, <1>4, FS_CardinalityType, VerifierAssumption
<1> QED
  BY <1>1, <1>3, <1>4, <1>5

\* When nothing but a verdict and a job that ends changes, the rest stands.
LEMMA CacheUntouched ==
  ASSUME IInv, UNCHANGED cache, now' = now,
         \A t \in Tokens : answered[t] \subseteq answered'[t]
  PROVE  /\ \A t \in DOMAIN cache' : EntryInv(t)'
         /\ IsFiniteSet(DOMAIN cache') /\ CacheBounded'
  BY DEF IInv, TypeOK, EntryInv, CacheBounded

\* A lookup that does not move stays in order while the IdP answers others.
LEMMA JobStays ==
  ASSUME NEW w, JobInv(w), job'[w] = job[w], now' = now,
         \A t \in Tokens : answered[t] \subseteq answered'[t],
         Answered(job[w]) => job[w].token \in Tokens
  PROVE  JobInv(w)'
  BY DEF JobInv, Asking, Answered

\* A job that ended is in order.
LEMMA JobEnds ==
  ASSUME NEW w, job'[w] = Idle
  PROVE  JobInv(w)'
  BY DEF JobInv, Asking, Answered, Idle

-----------------------------------------------------------------------------
(* One lemma for each action. *)

LEMMA RejectStep ==
  ASSUME IInv, NEW v \in Slots, NEW t \in Tokens, Reject(v, t)
  PROVE  IInv'
<1>1. verdict' \in [Slots -> Verdicts] /\ FreshBasis'
  <2> DEFINE new == [is |-> "invalid"]
  <2>1. new \in Verdicts /\ new.is # "accepted"
    BY DEF Verdicts
  <2>2. verdict' = [verdict EXCEPT ![v] = new]
    BY DEF Reject
  <2> HIDE DEF new
  <2> QED
    BY <2>1, <2>2, OtherVerdict DEF IInv
<1>2. TypeOK'
  BY <1>1 DEF IInv, TypeOK, Reject
<1>3. FreshBasis'
  BY <1>1
<1>4. \A w \in Slots : JobInv(w)'
  BY DEF IInv, JobInv, Reject
<1> QED
  BY <1>2, <1>3, <1>4 DEF IInv, Reject, EntryInv, CacheBounded

LEMMA VerifyAtOnceStep ==
  ASSUME IInv, NEW v \in Slots, NEW t \in Tokens, VerifyAtOnce(v, t)
  PROVE  IInv'
<1>1. now \in Seconds /\ now \in Int /\ MaxTime \in Nat /\ Timeout \in Nat /\ Ttl \in Nat
  BY VerifierAssumption DEF IInv, TypeOK, Seconds
<1>2. verdict' \in [Slots -> Verdicts] /\ FreshBasis'
  <2>1. CASE Decide(v, t, "allowed", now)
    <3>1. now <= now + Timeout
      BY <1>1
    <3> QED
      BY <1>1, <2>1, <3>1, DecideStep DEF IInv
  <2>2. CASE Hit(t) /\ Decide(v, t, cache[t].email, cache[t].at)
    <3>1. t \in DOMAIN cache /\ EntryInv(t) /\ cache[t].exp > now
      BY <2>2 DEF IInv, Hit
    <3>2. cache[t] \in [email : Emails, exp : Nat, at : Seconds]
      BY <3>1 DEF IInv, TypeOK
    <3> DEFINE a == cache[t].at  x == cache[t].exp
    <3>3. a \in Seconds /\ a \in Int /\ x \in Nat
      BY <3>2 DEF Seconds
    <3>4. (t \notin Expiring => x <= a + Ttl) /\ x > now
      BY <3>1 DEF EntryInv
    <3>5. Decide(v, t, cache[t].email, a)
      BY <2>2
    <3>6. t \in Expiring => now < ExpiresAt
      BY <1>1, VerifierAssumption DEF VerifyAtOnce, Expired
    <3> HIDE DEF a, x
    <3>7. now < Lapse(t, a)
      BY <1>1, <3>3, <3>4, <3>6 DEF Lapse
    <3> QED
      BY <3>3, <3>5, <3>7, DecideStep DEF IInv
  <2> QED
    BY <2>1, <2>2 DEF VerifyAtOnce
<1>3. TypeOK'
  BY <1>2 DEF IInv, TypeOK, VerifyAtOnce
<1>4. \A w \in Slots : JobInv(w)'
  BY DEF IInv, JobInv, VerifyAtOnce
<1> QED
  BY <1>2, <1>3, <1>4 DEF IInv, VerifyAtOnce, EntryInv, CacheBounded

LEMMA AskStep ==
  ASSUME IInv, NEW v \in Slots, NEW t \in Tokens, Ask(v, t)
  PROVE  IInv'
<1> DEFINE j == [is |-> "asking", token |-> t, nowSec |-> now]
<1>1. now \in Seconds /\ now \in Int /\ MaxTime \in Nat /\ Timeout \in Nat
  BY VerifierAssumption DEF IInv, TypeOK, Seconds
<1>2. j \in Jobs
  BY <1>1 DEF Jobs
<1>3. Asking(j) /\ ~Answered(j) /\ j.nowSec = now
  BY DEF Asking, Answered
<1>4. job' = [job EXCEPT ![v] = j]
  BY DEF Ask
<1> HIDE DEF j
<1>5. NoVerdict \in Verdicts
  BY DEF NoVerdict, Verdicts
<1>6. verdict' = [verdict EXCEPT ![v] = NoVerdict]
  BY DEF Ask
<1>7. TypeOK'
  BY <1>2, <1>4, <1>5, <1>6 DEF IInv, TypeOK, Ask
<1>8. FreshBasis'
  <2>1. NoVerdict.is # "accepted"
    BY DEF NoVerdict
  <2> QED
    BY <1>6, <2>1 DEF IInv, TypeOK, FreshBasis
<1>9. ASSUME NEW w \in Slots PROVE JobInv(w)'
  <2>1. CASE w = v
    <3>1. job'[w] = j
      BY <1>4, <2>1 DEF IInv, TypeOK
    <3>2. now <= now + Timeout
      BY <1>1
    <3> QED
      BY <1>1, <1>3, <3>1, <3>2 DEF JobInv, Ask
  <2>2. CASE w # v
    <3>1. job'[w] = job[w]
      BY <1>4, <2>2 DEF IInv, TypeOK
    <3> QED
      BY <1>9, <3>1 DEF IInv, JobInv, Ask
  <2> QED
    BY <2>1, <2>2
<1> QED
  BY <1>7, <1>8, <1>9 DEF IInv, Ask, EntryInv, CacheBounded

LEMMA UserinfoStep ==
  ASSUME IInv, NEW v \in Slots, Userinfo(v)
  PROVE  IInv'
<1> DEFINE t == job[v].token
           e == IF account[t] \in Emails THEN account[t] ELSE "none"
           j == [is |-> "answered", token |-> t, nowSec |-> job[v].nowSec,
                 email |-> e, at |-> now]
<1>1. now \in Seconds /\ MaxTime \in Nat
  BY VerifierAssumption DEF IInv, TypeOK
<1>2. job[v] \in Jobs /\ Asking(job[v]) /\ JobInv(v)
  BY DEF IInv, TypeOK, Userinfo, Asking
<1>3. t \in Tokens /\ job[v].nowSec \in Seconds
  BY <1>2, JobCases
<1>4. e \in Emails \cup {"none"}
  OBVIOUS
<1>5. j \in Jobs
  BY <1>1, <1>3, <1>4, NewJobs
<1>6. /\ Answered(j) /\ ~Asking(j) /\ j.token = t /\ j.nowSec = job[v].nowSec
      /\ j.email = e /\ j.at = now
  BY DEF Answered, Asking
<1>7. /\ job' = [job EXCEPT ![v] = j]
      /\ answered' = [answered EXCEPT ![t] = @ \cup ({e} \cap Emails)]
  BY DEF Userinfo
<1> HIDE DEF j, e, t
<1>8. answered' \in [Tokens -> SUBSET Emails]
  BY <1>3, <1>7 DEF IInv, TypeOK
<1>9. /\ e \in Emails => e \in answered'[t]
      /\ \A k \in Tokens : answered[k] \subseteq answered'[k]
  BY <1>3, <1>7 DEF IInv, TypeOK
<1>10. TypeOK'
  BY <1>5, <1>7, <1>8 DEF IInv, TypeOK, Userinfo
<1>11. FreshBasis'
  BY DEF IInv, FreshBasis, Userinfo
<1>12. ASSUME NEW w \in Slots PROVE JobInv(w)'
  <2>1. CASE w = v
    <3>1. job'[w] = j
      BY <1>7, <2>1 DEF IInv, TypeOK
    <3>2. job[v].nowSec <= now /\ now <= job[v].nowSec + Timeout /\ now <= now
      BY <1>1, <1>2 DEF JobInv, Seconds
    <3> QED
      BY <1>6, <1>9, <3>1, <3>2 DEF JobInv, Userinfo
  <2>2. CASE w # v
    <3>1. job'[w] = job[w]
      BY <1>7, <2>2 DEF IInv, TypeOK
    <3>2. Answered(job[w]) => job[w].token \in Tokens
      BY <1>12, JobCases DEF IInv, TypeOK
    <3> QED
      BY <1>9, <1>12, <3>1, <3>2, JobStays DEF IInv, Userinfo
  <2> QED
    BY <2>1, <2>2
<1>13. UNCHANGED <<cache, now>>
  BY DEF Userinfo
<1> QED
  BY <1>9, <1>10, <1>11, <1>12, <1>13, CacheUntouched DEF IInv

LEMMA MissStep ==
  ASSUME IInv, NEW v \in Slots, Miss(v)
  PROVE  IInv'
<1>1. now \in Seconds
  BY DEF IInv, TypeOK
<1>2. Decide(v, job[v].token, "none", now)
  BY DEF Miss
<1>3. verdict' \in [Slots -> Verdicts] /\ FreshBasis'
  <2>1. job[v] \in Jobs /\ (Asking(job[v]) \/ Answered(job[v]))
    BY DEF IInv, TypeOK, Miss, Asking, Answered
  <2>2. job[v].token \in Tokens
    BY <2>1, JobCases
  <2> QED
    BY <1>1, <1>2, <2>2, DecideStep DEF IInv
<1>4. Idle \in Jobs
  BY DEF Jobs
<1>5. TypeOK'
  BY <1>3, <1>4 DEF IInv, TypeOK, Miss
<1>6. ASSUME NEW w \in Slots PROVE JobInv(w)'
  <2>1. CASE w = v
    BY <2>1, JobEnds DEF IInv, TypeOK, Miss
  <2>2. CASE w # v
    <3>1. job'[w] = job[w]
      BY <2>2 DEF IInv, TypeOK, Miss
    <3> QED
      BY <1>6, <3>1 DEF IInv, JobInv, Miss
  <2> QED
    BY <2>1, <2>2
<1> QED
  BY <1>3, <1>5, <1>6 DEF IInv, Miss, EntryInv, CacheBounded

LEMMA LearnStep ==
  ASSUME IInv, NEW v \in Slots, Learn(v)
  PROVE  IInv'
<1> DEFINE t == job[v].token
           a == job[v].at
           s == job[v].nowSec
           entry == [email |-> job[v].email, exp |-> EntryExp(t, s), at |-> a]
<1>1. now \in Seconds /\ MaxTime \in Nat /\ Timeout \in Nat /\ Ttl \in Nat /\ ExpiresAt \in Nat
  BY VerifierAssumption DEF IInv, TypeOK
<1>2. job[v] \in Jobs /\ Answered(job[v]) /\ JobInv(v) /\ job[v].email \in Emails
  BY DEF IInv, TypeOK, Learn, Answered
<1>3. t \in Tokens /\ s \in Seconds /\ a \in Seconds
  BY <1>2, JobCases
<1>4. /\ s <= a /\ a <= now /\ s <= now /\ now <= s + Timeout
      /\ job[v].email \in answered[t]
  BY <1>2 DEF JobInv
<1>5. /\ cache' = [k \in Kept(s) \cup {t} |-> IF k = t THEN entry ELSE cache[k]]
      /\ Decide(v, t, entry.email, entry.at)
      /\ job' = [job EXCEPT ![v] = Idle]
      /\ UNCHANGED <<now, account, changes, answered>>
  BY DEF Learn
<1>6. EntryExp(t, s) \in Nat /\ (t \notin Expiring => EntryExp(t, s) = s + Ttl)
  BY <1>1, <1>3 DEF EntryExp, Seconds
<1>7. /\ entry \in [email : Emails, exp : Nat, at : Seconds]
      /\ entry.email = job[v].email /\ entry.at = a /\ entry.exp = EntryExp(t, s)
  BY <1>2, <1>3, <1>6
<1> HIDE DEF t, a, s, entry
<1>8. now <= a + Timeout
  BY <1>1, <1>3, <1>4 DEF Seconds
<1>9. verdict' \in [Slots -> Verdicts] /\ FreshBasis'
  BY <1>3, <1>5, <1>7, <1>8, DecideStep DEF IInv
<1>10. /\ Kept(s) \subseteq DOMAIN cache
       /\ IsFiniteSet(Kept(s) \cup {t})
       /\ Cardinality(Kept(s) \cup {t}) <= MaxEntries
  BY KeptBounded DEF IInv
<1>11. DOMAIN cache' = Kept(s) \cup {t}
  BY <1>5
<1>12. IsFiniteSet(DOMAIN cache') /\ CacheBounded'
  BY <1>10, <1>11 DEF CacheBounded
<1>13. /\ DOMAIN cache' \subseteq Tokens
       /\ \A k \in DOMAIN cache' : cache'[k] \in [email : Emails, exp : Nat, at : Seconds]
  BY <1>3, <1>5, <1>7, <1>10, <1>11 DEF IInv, TypeOK
<1>14. Idle \in Jobs
  BY DEF Jobs
<1>15. TypeOK'
  BY <1>5, <1>9, <1>13, <1>14 DEF IInv, TypeOK
<1>16. ASSUME NEW k \in DOMAIN cache' PROVE EntryInv(k)'
  <2>1. CASE k = t
    <3>1. cache'[k] = entry
      BY <1>5, <1>11, <1>16, <2>1
    <3>2. s + Ttl <= a + Ttl
      BY <1>1, <1>3, <1>4 DEF Seconds
    <3> QED
      BY <1>4, <1>5, <1>6, <1>7, <2>1, <3>1, <3>2 DEF EntryInv
  <2>2. CASE k # t
    <3>1. k \in DOMAIN cache /\ cache'[k] = cache[k]
      BY <1>5, <1>10, <1>11, <1>16, <2>2
    <3> QED
      BY <1>5, <3>1 DEF IInv, EntryInv
  <2> QED
    BY <2>1, <2>2
<1>17. ASSUME NEW w \in Slots PROVE JobInv(w)'
  <2>1. CASE w = v
    BY <1>5, <2>1, JobEnds DEF IInv, TypeOK
  <2>2. CASE w # v
    <3>1. job'[w] = job[w]
      BY <1>5, <2>2 DEF IInv, TypeOK
    <3> QED
      BY <1>5, <1>17, <3>1 DEF IInv, JobInv
  <2> QED
    BY <2>1, <2>2
<1> QED
  BY <1>9, <1>12, <1>15, <1>16, <1>17 DEF IInv

LEMMA ChangeAccountStep ==
  ASSUME IInv, NEW t \in Tokens \ Claims, ChangeAccount(t)
  PROVE  IInv'
<1>1. account' \in [Tokens \ Claims -> Emails \cup {"unverified"}] /\ changes' \in 0..MaxChanges
  BY VerifierAssumption DEF IInv, TypeOK, ChangeAccount
<1>2. TypeOK'
  BY <1>1 DEF IInv, TypeOK, ChangeAccount
<1>3. \A w \in Slots : JobInv(w)'
  BY DEF IInv, JobInv, ChangeAccount
<1> QED
  BY <1>2, <1>3 DEF IInv, ChangeAccount, EntryInv, CacheBounded, FreshBasis

LEMMA TickStep ==
  ASSUME IInv, Tick
  PROVE  IInv'
<1> DEFINE m == now + 1
<1>1. now \in Nat /\ now < MaxTime /\ MaxTime \in Nat /\ Timeout \in Nat
  BY VerifierAssumption DEF IInv, TypeOK, Seconds, Tick
<1>2. m \in Seconds /\ m \in Nat /\ m = now + 1 /\ now' = m
  BY <1>1 DEF Seconds, Tick
<1>3. UNCHANGED <<account, changes, cache, job, verdict, answered>>
  BY DEF Tick
<1> HIDE DEF m
<1>4. TypeOK'
  BY <1>2, <1>3 DEF IInv, TypeOK
<1>5. ASSUME NEW w \in Slots PROVE JobInv(w)'
  <2>1. job[w] \in Jobs /\ JobInv(w)
    BY <1>5 DEF IInv, TypeOK
  <2>2. CASE Asking(job[w]) \/ Answered(job[w])
    <3>1. job[w].nowSec \in Seconds /\ (Answered(job[w]) => job[w].at \in Seconds)
      BY <2>1, <2>2, JobCases
    <3>2. now < job[w].nowSec + Timeout
      BY <1>5, <2>1, <2>2, JobCases DEF Tick
    <3> QED
      BY <1>1, <1>2, <1>3, <2>1, <2>2, <3>1, <3>2 DEF JobInv, Seconds
  <2>3. CASE ~Asking(job[w]) /\ ~Answered(job[w])
    BY <1>3, <2>3 DEF JobInv
  <2> QED
    BY <2>2, <2>3
<1>6. ASSUME NEW k \in DOMAIN cache' PROVE EntryInv(k)'
  <2>1. k \in DOMAIN cache /\ EntryInv(k) /\ cache[k].at \in Seconds
    BY <1>3, <1>6 DEF IInv, TypeOK
  <2>2. cache[k].at <= now /\ cache[k].at \in Int
    BY <2>1 DEF EntryInv, Seconds
  <2>3. cache[k].at <= m
    BY <1>1, <1>2, <2>2
  <2> QED
    BY <1>2, <1>3, <2>1, <2>3 DEF EntryInv
<1> QED
  BY <1>3, <1>4, <1>5, <1>6 DEF IInv, CacheBounded, FreshBasis

-----------------------------------------------------------------------------
\* The invariant is inductive.
LEMMA NextIInv == IInv /\ [Next]_vars => IInv'
<1> SUFFICES ASSUME IInv, [Next]_vars PROVE IInv'
  OBVIOUS
<1>1. ASSUME NEW v \in Slots, NEW t \in Tokens, Reject(v, t) \/ VerifyAtOnce(v, t) \/ Ask(v, t)
      PROVE  IInv'
  BY <1>1, RejectStep, VerifyAtOnceStep, AskStep
<1>2. ASSUME NEW v \in Slots, Learn(v) \/ Miss(v) \/ Userinfo(v)
      PROVE  IInv'
  BY <1>2, LearnStep, MissStep, UserinfoStep
<1>3. ASSUME NEW t \in Tokens \ Claims, ChangeAccount(t)
      PROVE  IInv'
  BY <1>3, ChangeAccountStep
<1>4. CASE Tick
  BY <1>4, TickStep
<1>5. CASE UNCHANGED vars
  BY <1>5 DEF IInv, vars, TypeOK, JobInv, EntryInv, FreshBasis, CacheBounded
<1> QED
  BY <1>1, <1>2, <1>3, <1>4, <1>5 DEF Next

THEOREM Invariance == Spec => []IInv
  BY InitIInv, NextIInv, PTL DEF Spec

\* Every variable keeps the kind of value it is declared with.
THEOREM TypeCorrect == Spec => []TypeOK
<1>1. IInv => TypeOK
  BY DEF IInv
<1> QED
  BY <1>1, Invariance, PTL

\* emailCache never outgrows MAX_EMAIL_CACHE_ENTRIES, whatever lookups end
\* together (src/oauth.ts, the eviction before emailCache.set()).
THEOREM CacheBoundedCorrect == Spec => []CacheBounded
<1>1. IInv => CacheBounded
  BY DEF IInv
<1> QED
  BY <1>1, Invariance, PTL

\* emailCache only holds what the IdP gave as a verified email of that token:
\* a failed lookup is not remembered.
THEOREM CachedWasAnsweredCorrect == Spec => []CachedWasAnswered
<1>1. IInv => CachedWasAnswered
  BY DEF IInv, EntryInv, CachedWasAnswered
<1> QED
  BY <1>1, Invariance, PTL

\* verifyAccessToken() accepts on an answer of the IdP only within the timeout
\* of the lookup it waited for or, from the cache, less than Ttl seconds after
\* the IdP gave it and, for a token with exp, before that token expires.
THEOREM FreshBasisCorrect == Spec => []FreshBasis
<1>1. IInv => FreshBasis
  BY DEF IInv
<1> QED
  BY <1>1, Invariance, PTL

-----------------------------------------------------------------------------
(* What a single step may do to the cache. *)

\* Live entries go only when there are MaxEntries of them.
LEMMA LiveKept ==
  ASSUME IsFiniteSet(DOMAIN cache), NEW asOf,
         Cardinality({t \in DOMAIN cache : cache[t].exp > asOf}) < MaxEntries
  PROVE  {t \in DOMAIN cache : cache[t].exp > asOf} \subseteq Kept(asOf)
<1>1. Cardinality(DOMAIN cache) \in Nat /\ MaxEntries \in Int
  BY FS_CardinalityType, VerifierAssumption
<1>2. CASE Cardinality(DOMAIN cache) < MaxEntries
  BY <1>2 DEF Kept
<1>3. CASE Cardinality(DOMAIN cache) >= MaxEntries
  BY <1>1, <1>3 DEF Kept
<1> QED
  BY <1>1, <1>2, <1>3

\* The lookup of v ends only by its own Learn or Miss.
LEMMA LookupEnds ==
  ASSUME TypeOK, Next, NEW v \in Slots, job[v].is = "answered", job'[v] = Idle
  PROVE  Learn(v) \/ UNCHANGED cache
<1>1. job[v] # Idle
  BY DEF Idle
<1>2. ASSUME NEW w \in Slots, Learn(w) PROVE w = v
  BY <1>1, <1>2 DEF Learn, TypeOK
<1>3. ASSUME NEW w \in Slots, NEW t \in Tokens, Reject(w, t) \/ VerifyAtOnce(w, t) \/ Ask(w, t)
      PROVE  UNCHANGED cache
  BY <1>3 DEF Reject, VerifyAtOnce, Ask
<1>4. ASSUME NEW w \in Slots, Miss(w) \/ Userinfo(w)
      PROVE  UNCHANGED cache
  BY <1>4 DEF Miss, Userinfo
<1>5. ASSUME NEW t \in Tokens \ Claims, ChangeAccount(t)
      PROVE  UNCHANGED cache
  BY <1>5 DEF ChangeAccount
<1>6. CASE Tick
  BY <1>6 DEF Tick
<1> QED
  BY <1>2, <1>3, <1>4, <1>5, <1>6 DEF Next

\* When an answer is cached, entries that are still good leave emailCache only
\* if all it may hold are still good (src/oauth.ts, the eviction of expired
\* entries before emailCache.clear()).
THEOREM LiveEntriesKeptCorrect == Spec => LiveEntriesKept
<1> DEFINE Live(v) == {t \in DOMAIN cache : cache[t].exp > job[v].nowSec}
           Keeps == \A v \in Slots :
             job[v].is = "answered" /\ job'[v] = Idle =>
               (Cardinality(Live(v)) < MaxEntries => Live(v) \subseteq DOMAIN cache')
<1>1. ASSUME IInv, Next PROVE Keeps
  <2> SUFFICES ASSUME NEW v \in Slots, job[v].is = "answered", job'[v] = Idle,
                      Cardinality(Live(v)) < MaxEntries
               PROVE  Live(v) \subseteq DOMAIN cache'
    OBVIOUS
  <2>1. Learn(v) \/ UNCHANGED cache
    BY <1>1, LookupEnds DEF IInv
  <2>2. CASE Learn(v)
    <3>1. Kept(job[v].nowSec) \subseteq DOMAIN cache'
      BY <2>2 DEF Learn
    <3> QED
      BY <1>1, <3>1, LiveKept DEF IInv
  <2>3. CASE UNCHANGED cache
    BY <2>3
  <2> QED
    BY <2>1, <2>2, <2>3
<1>2. IInv /\ [Next]_vars => [Keeps]_vars
  BY <1>1
<1>3. [][Keeps]_vars => LiveEntriesKept
  BY PTL DEF LiveEntriesKept
<1> QED
  BY <1>2, <1>3, Invariance, PTL DEF Spec

=============================================================================
