# Formal models of lexware-mcp

lexware-mcp is an MCP server (TypeScript, Express through Skybridge) that lets
an assistant read and, where its operator allows it, write the bookkeeping of a
Lexware Office account through Lexware's REST API. This directory holds TLA+
models of the parts of it whose correctness depends on order, time, failure or
the combination of many settings, the TLC configurations that check them, and
TLAPS proofs of the most important facts. Paths below are relative to the
repository's root, lines are those of this commit.

Lexware itself, the identity provider (IdP), the event loop, Express and the MCP
SDK are outside the repository. They are modelled from how the code uses them,
as permissively as the properties allow; section 7 lists what is assumed.

## 1. Inventory

| Component (source) | State it keeps | Operations | Interacts with | What is hard | What makes it correct |
|---|---|---|---|---|---|
| Rate limiter (`src/lexware/rate-limiter.ts`) | `tokens`, `lastRefill`, promise `chain` | `acquire`, `reserve`, `refill` | every attempt of the HTTP client waits for it | concurrent reservations, a wall clock that is set, timers on another clock | one reservation at a time, in order, never too fast in real time, never stuck |
| HTTP client (`src/lexware/client.ts`) | per call: attempt, wait | `request`, `getBinary`, `postMultipart`, `sendWithRetry`, `retryAfterMs`, `backoffMs` | limiter, Lexware | lost and late requests and replies, timeouts, retries of what was done | no write twice, a refusal is final, bounded waits, every call ends |
| Errors (`src/lexware/errors.ts`) | none | `LexwareApiError`, `describeErrorBody` | client, tools | a failure that escapes the classification | each failure is classified |
| Deletes (`src/tools/shared.ts`) | none | `deleteIdempotent` | client (idempotent, so replayed) | the retry of a DELETE that was carried out | "deleted" is true, and said once |
| Update tools (`src/tools/articles.ts`, `contacts.ts`, `vouchers.ts`) | none between calls | GET, merge, PUT with version | client; other users of Lexware | edits between GET and PUT, late PUTs, voucher rules | atomic patches, no lost update |
| Merge (`src/tools/shared.ts`) | none | `deepMergePatch`, `mergeAddresses` | update tools | nested objects, lists, nulls | named leaves change, others stay |
| Access-token verifier (`src/oauth.ts`) | `emailCache` | `verifyAccessToken`, `fetchVerifiedUserinfoEmail` | IdP, server gate | overlapping lookups, expiry, eviction | bounded cache, nobody accepted on a stale answer |
| Configuration (`src/config.ts`) | none (result is read once) | `loadConfig`, `resolveAuth`, `parseBool` | everything | combinations of a dozen variables | fails closed, flags compose |
| HTTP server and gate (`src/server.ts`, `src/auth.ts`) | the layers, in order | body parsers, `/status`, gate, `/mcp` | configuration, verifier, tools | the order of layers Skybridge and the program mount | nothing large is parsed, nothing is done without a credential |
| Tool tiers (`src/tools/index.ts`) | the registered tools | `registerTools` | configuration | read-only, draft and finalize flags | a tool of a disabled tier does not exist |
| Document creation (`src/tools/documents.ts`, `schemas.ts`) | none | `create-draft-*`, `create-finalized-*`, `mergeBody` | client | ways to finalize by accident | binding only deliberately |
| Voucher summary (`src/tools/documents.ts`) | totals of one walk | `summarize-vouchers` | client, other users | a list that changes under offset pagination | exact or bounded error, honest truncation |
| Batch and file reads (`documents.ts`) | lists of one call | `get-vouchers`, `get-voucher-file` | client, limiter, other tools and users | partial failure, files that move between two GETs, sharing the limiter | each id is accounted for, the right file, nobody starved |
| Creation of contacts, articles and vouchers (`contacts.ts`, `articles.ts`, `vouchers.ts`, `schemas.ts`) | none | `mergeBody`, one POST each | client | arguments in two encodings, an escape hatch beside typed fields | what was asked is sent, nothing else |
| Webhooks and uploads (`event-subscriptions.ts`, `files.ts`, `vouchers.ts`) | none | one POST each | client | that of the client | at most one effect |
| Single reads (`reference.ts`, `profile.ts`, ...) | none | one GET each | client | none of their own | none of their own |
| Input schemas (`schemas.ts`, `types.ts`) | none | zod validation | all tools | fields passed as text, defaults in nested objects, unknown keys | no value is lost or added on the way |

The call path is: HTTP request -> layers of `server.ts` -> gate (verifier or
static token) -> MCP SDK -> tool -> client -> limiter -> Lexware. All of it runs
in one process on one event loop; nothing is persisted, so a crash loses only
calls under way. Concurrency is that of promises: several MCP requests, each at
its own `await`, share the limiter, the verifier's cache and the account at
Lexware, which other people change too.

## 2. Modules

| Module | Models | Kind |
|---|---|---|
| `PacedGrants` | what a limiter promises: order, once each, every window within burst plus rate | abstract |
| `RateLimiter` | `rate-limiter.ts` | detailed, implements `PacedGrants` |
| `RateLimiter_proofs` | | theorems |
| `RemoteCalls` | what tools may assume of a call to Lexware | abstract |
| `LexwareClient` | `client.ts`, classes of `errors.ts` | detailed, implements `RemoteCalls` |
| `LexwareClient_proofs` | | theorems |
| `DeleteIdempotent` | `deleteIdempotent()` on top of `LexwareClient` (EXTENDS it) | composition |
| `DeleteIdempotent_proofs` | | theorems |
| `ReadTools` | `get-vouchers` and `get-voucher-file` on top of `LexwareClient` and the limiter's queue | composition |
| `ReadTools_proofs` | | theorems |
| `PatchedResource` | what an update tool promises: one atomic patch of the named fields | abstract |
| `UpdateTools` | `update-article`, `update-contact`, `update-voucher` against Lexware's optimistic locking | detailed, implements `PatchedResource` |
| `UpdateTools_proofs` | | theorems |
| `TokenVerifier` | `verifyAccessToken()` with an email allow-list | detailed |
| `TokenVerifier_proofs` | | theorems |
| `ToolServer` | `config.ts`, the layers of `server.ts`, `auth.ts`, tiers, document creation | composition |
| `ToolServer_proofs` | | theorems |
| `SummarizeVouchers` | `summarize-vouchers` | detailed |
| `SummarizeVouchers_proofs` | | theorems |
| `DeepMerge` | one level of `deepMergePatch`, and what a merge is to leave alone | data, without recursion |
| `RequestBodies` | shapes of `schemas.ts`, `deepMergePatch`, `mergeAddresses`, `mergeBody`, bodies of creations and updates | data, with the state of one resource |
| `MC*` | small instances of the above | TLC only |

`PROJECT.json` maps every definition to the lines it stands for. Definitions
introduced by "Faulty variant" are not part of any specification: each is the
definition below it with a plausible bug (a dropped guard, an off-by-one, a
swapped order), kept to show that the property it is listed with can fail.

### RateLimiter

`Acquire` is the synchronous part of `acquire()` (lines 39-48): it takes the
promise found in `chain` and leaves its own. `Grant` and `Sleep` are one turn of
the loop of `reserve()` (50-58): `refill()` is part of both (`Credited`,
`RefilledAt`), the first takes a token, the second sleeps `WaitMs`. Everything
between two awaits is one step. `Tick` is the monotonic clock that drives timers,
`JumpForward` and `SetBack` make the wall clock `now()` (injected, `Date.now`)
differ from it. Tokens are counted in parts of 1/1000, so fractions are exact
where the program has floating point; the last digits of a double are the one
thing this leaves out.

### LexwareClient

A call goes `idle -> acquiring -> waiting -> (sleeping -> acquiring ...) ->
reading -> done`. `Send` puts a request on `wire`, `TransportFailure` is any
rejection of `fetch()` (connection, timeout), and may happen while Lexware still
has the request, `Receive` is the chain of conditions on the status (195-227),
`ReadBody` the body. Lexware may `Execute` or `Refuse` a request at any later
time; a reply to an attempt that was given up goes nowhere. The wait for the
limiter is the state `acquiring`, which `RateLimiter` details; URL building,
headers and logging change no state.

### DeleteIdempotent

Calls of `LexwareClient`, all DELETEs of one resource. `Carry` is a DELETE that
finds the resource, `Decline` one that is answered without effect, and 404 only
when the resource is absent. `ReportsDeleted` and `ReportsAlreadyAbsent` are the
two branches of `deleteIdempotent()` (100-111).

### ReadTools

`EXTENDS LexwareClient`: each action is one of the client's with the tools and
the limiter around it. The limiter is reduced to what `RateLimiter` shows of it,
a queue that is served in order: `Call` and `Again` enter it (a first attempt
and a retry), `Pass` leaves it. `Ready` says which call a handler makes next:
`get-vouchers` (`documents.ts` 343-352) awaits one GET after the other, in its
order; `get-voucher-file` (427-440) looks the voucher up and then downloads the
file at the index, if there is one (`Chosen`). `Collect` is the `try`/`catch` of
the batch. `Serve` and `Decline` are Lexware, which answers from `present` and
`attached` at the time it handles a request; others `Attach`, `Detach` and
`Remove` meanwhile. `offered` is history: what was at the caller's index while
the tool looked. A file that was detached may still be downloadable; the model
leaves that open.

### UpdateTools

`Call`, `Read`, `ReadFails`, `Write`, `WriteFails` are the steps of the tool
between its awaits; `Body` is what it PUTs (`deepMergePatch`, the contact rules
and the derived status of `update-voucher`), `SentVersion` the version. A PUT is
sent once (`RemoteCalls`: it is not replayable) and may be answered, lose its
answer or be handled late (`Accept`, `Refuse` act on `put` whatever the caller
was told). `WebEdit`, `Rebook` and `Payment` are other users. Contents are
functions from keys to values; `Plain` keys are those without a rule, so an
article or a contact is the special case in which callers ask for plain keys
only. A caller may pass any of `contactId`, `contactName` and
`useCollectiveContact`, the first two also as the empty string (`Blank`), which
`LinkContact` treats as the code does: a key counts when its value is truthy
(vouchers.ts 70, 73). To name a contact is, for `PatchedResource`, to name the
whole booking (`Spelled`): the other contact goes and the flag is set. An update
that passes the flag or an empty contact and names nobody (`Loose`) is merged
as it is, as in the code, and may leave a flag that contradicts the contact.
`Booked` says which bookings make sense, and Lexware may refuse one that does
not, or take it; `OneContact` and `InvalidIsAskedFor` say that nothing but such
an update brings one about.

### TokenVerifier

Verifications `Reject`, `VerifyAtOnce` (claim or cache) or `Ask`; the answer of
the IdP is taken at `Userinfo`, travels, and ends in `Learn` (cached, then
judged) or `Miss`. `Kept` is the eviction (158-162) and `EntryExp` the lifetime.
An accepted `verdict` remembers the token, when it was accepted and when the IdP
gave the email it rests on. `FreshBasis` judges that: beyond the lookup itself an
answer serves for less than `Ttl` seconds or, for a token with `exp`, until that
token expires. The code has no shorter limit there (oauth.ts 157), so the email
of a token that is valid for a day may be a day old.
`nowSec` is read before the lookup and used after it, as in the code. Whether a
signature or an issuer is right is a verdict of the `jose` library; such tokens
end like `Reject`.

### ToolServer

`Start` is `loadConfig()` and the mounting of layers; a request then passes
`GlobalParser`, `StatusRoute`, `Gate`, `UploadParser`, `CallTool` in that order,
and each may answer it. `deferred` is whether `deferMcpBodyParsing()` found
Skybridge's parser (25-41). `LoadConfig` keeps the order of checks only as far
as an outcome depends on it: every failure is the same exit. `Run` says what a
tool does at Lexware; two document types stand for those that can be created and
those that are only read, and `write`, `delete` and `subscribe` for the other
tools of the two tiers.

### SummarizeVouchers

`Page` is one turn of the loop (196-228), `PageFails` a GET that throws.
`Enter` and `Leave` change the list between GETs. `counted`, `stayed`,
`entered` and `left` are history. Open amounts and currencies are kept the same
way as amounts and left out; amounts are integers (cents), so that the rounding
of the result is not modelled.

### DeepMerge

`MergeFields` is the loop of `deepMergePatch()` (130-142), what the recursive
calls return being a parameter: what becomes of each key when it is in the
current object, the patch or both. The rest is how a merge is judged: a value is seen as its leaves,
each with the path to it (`LeavesOf`), and `Overlay` says which leaves of two
sets remain when one is laid over the other. `IsDeepMerge` and `IsLeaves` are
the equations of the two recursions, for functions on a set of values instead of
recursive operators, so that theorems can be about any depth.

### RequestBodies

JSON values are tagged records (`Leaf`, `Array`, `Object`, `Text`, `Null`), for
which `Parse` is zod: required and unknown fields, defaults, lists with a
minimum, and the preprocessor `jsonObj` of `schemas.ts` that also takes a field
as text. Which scalar a leaf is, the members of enumerations, lengths and the
`refine` of numbers are left out. The shapes of `schemas.ts` follow under their
own names. The state is one resource at Lexware and the last call: it is created
(`CreateResource`), changed by any sequence of updates (`UpdateResource`) and
payments (`Payment`); documents are only created (`CreateDocument`). Every call
is made in every encoding, that is with each subset of the fields declared with
`jsonObj` passed as text. `Derived` has two members for the five statuses that
`update-voucher` leaves out. The merge is recursive over nested objects, which
is why this module is for TLC only (the recursion is that of `DeepMerge`);
interleavings of updates are the subject of `UpdateTools`, where the merge is an
overlay of keys.

## 3. What the runs show

| Run | Instance | Properties |
|---|---|---|
| `limiter_safety` | 4 calls, bucket of 2, lag 1 ms, clock jumps by 1 ms and is set back by 2 | `OneReservation`, `FifoService`, `PacedInRealTime`, `ServiceGap` |
| `limiter_live` | 3 calls | `Served`, `ImplementsPacedGrants` |
| `client` | a GET, a POST and an upload, one retry, Retry-After absent, in the past or an hour ahead | `AtMostOnce`, `RefusalIsFinal`, `RetriesSpaced`, `Settles`, `ImplementsRemoteCalls` |
| `client_bodies` | an upload | `FailuresAreClassified`, violated (section 6) |
| `delete_safety` | two deletes, two retries each | `DeletedIsGone`, `OneDeleter` |
| `delete_flag` | the same | `AbsentMeansNotMine`, violated (section 6) |
| `updates` | two updates of a voucher with each combination of a contact, a name, empty ones, a status or the flag, one change by others | `ExplicitVersionGuards`, `InvalidIsAskedFor`, `OneContact`, `ImplementsPatchedResource` |
| `verifier` | two slots, four tokens, cache of two, one change of an email | `CacheBounded`, `LiveEntriesKept`, `CachedWasAnswered`, `FreshBasis` |
| `server` | every authentication environment and every tier environment, every request | `FailsClosed`, `UploadsBehindGate`, `BindingIsDeliberate`, `ReadOnlyWins` |
| `summary` | up to five vouchers, pages of two, a cap of two pages, three changes | `ExactWhenQuiet`, `DriftBounded`, `TruncationIsHonest` |
| `reads` | a batch of two beside the download of a receipt, one retry, two files, two changes by others | `BatchAccounts`, `FileWasAttached`, `BatchYields`, `ToolsEnd` |
| `bodies` | a contact, an article and a voucher, created and updated in any sequence of 25 patches; documents of four tools | `CreatesWhatWasAsked`, `UpdatesTouchOnlyNamed` |

The type invariant of the module (`TypeOK`, `RTypeOK`) is checked by `limiter_safety`,
`client`, `updates`, `verifier`, `server` and `reads` as well. Each property is stated
in words above its definition.

Bounds, and why they are enough to reach the interesting cases:

- Limiter: a bucket of two and four calls give a burst, a first sleeper and a
  second call queued behind it. The rate is 2 per second of 5 (3) milliseconds,
  which leaves a remainder in every wait. `MaxJumped` and `MaxSetBack` are
  enough to skip or repeat part of a wait; `LastArrival` lets the last call come
  after tokens were earned again; `MaxTime` lets every call be served. The clock
  stops the model there, so `limiter_live` does not check for deadlock;
  `limiter_safety` does, and shows that calls are served before the clock ends.
- Client: attempts of one call are told apart by their number, and what can go
  wrong needs two of them: one given up and its successor. The two Retry-After
  headers lie beyond the two bounds on a wait. `slept` keeps every wait by
  itself; those of later retries, up to the cap of the backoff, and headers
  between the bounds are covered by the proof of `RetriesSpaced`.
- Deletes: two calls of three attempts let a retry meet the other call's success.
- Updates: two callers and one other writer produce every conflict of two
  read-modify-writes with a third change before, between or after them. One plain
  key is enough to see an update lost. `MCAsks` has the contacts together (an
  empty one counts like one that is not passed, so that each alone is among
  them), the status with a plain key, and the flag alone, which is how an update
  contradicts itself; the proofs are about every set of keys. The voucher starts
  with a contact, with a name, or without either, open or paid. Callers are
  interchangeable, so the run uses their symmetry; its properties are invariants
  and action properties, for which that is sound.
- Verifier: three tokens enter a cache of two; the fourth carries its email in a
  claim. Times are 0..3 with a lifetime of 2 and a timeout of 1 (5 min and 10 s
  in the code's defaults): what matters is that a lookup takes less than a lifetime
  and an entry expires within the run. The token with `exp` expires at 3, so that
  its cached email can get older than the lifetime of the others.
- Server: the variables are enumerated completely in two halves, those that
  decide authentication and those that decide tiers. `LoadConfig` uses the
  halves independently (`ResolveAuth` and `Enable*` share no variable).
- Summary: five vouchers are three pages, so that the cap of two bites, and
  four are exactly two pages.
- Reads: a batch of two lets a failure be followed by a success and the reverse,
  with one retry each; the voucher of the file is also in the batch. The caller
  asks for the second of two files, so that a change of either moves it, and two
  changes can put a file back in another place. `Answers` is 2xx and 404: other
  classes end a GET in the same way as a timeout, which is always possible.
- Bodies: patches are chosen to meet each branch of the merge (nested objects
  with keys nobody declares, `null`, empty objects and lists, address lists
  longer and shorter than what is stored, scalars over objects), bodies to meet
  each encoding and each clash of `additionalFields` with typed fields, defaults
  and control parameters. All sequences of them are explored. Callers need not
  go on calling, and documents are not updated, so the run does not check for
  deadlock.

## 4. Fairness

`limiter_live` assumes that the monotonic clock advances and that runnable
continuations and due timers run (`WF` of `Tick` and of each call's turn): this
is what the event loop does. Nobody has to call, and the wall clock need not be
adjusted. `client` assumes that the limiter serves (which is what
`limiter_live` shows), that timers fire, and that a `fetch()` or a body ends:
each carries `AbortSignal.timeout` (client.ts 168-178). Nothing is assumed of Lexware,
which may never answer. `reads` adds to this that the limiter serves the head of its
queue (`Served` of `limiter_live`) and that a handler whose `await` has settled
goes on to its next call, as the event loop makes it; nobody has to call a tool
in the first place. The other specifications state safety only.

## 5. Proofs

TLAPS proves the following for every value of the constants that meets the
`ASSUME` of the modules involved (`LimiterAssumption`, `ClientAssumption`,
`UpdateAssumption`, `ServerAssumption`, `VerifierAssumption`, `ReadAssumption`,
`SummaryAssumption`), nothing else being assumed. The assumptions say what kind
of value each constant is and which names are distinct; `ReadAssumption` also
that the GETs of the two tools are different calls and all of them replayable.

**RateLimiter.** `TypeCorrect` is inductive as it stands, given that `refill()`
stays within the bucket (`RefillFacts`). `OneReservation` is not inductive: it
needs that the promise chain is a list. `ChainInv` says that `issued` spells the
chain out, that the calls with a token are a prefix of it, and that only the one
after the prefix may be asleep; `FifoService` is part of it. `PacedInRealTime`
needs the ledger: for each earlier grant, what was taken since plus what is left
is at most a full bucket plus what the *wall clock* earned since (`Ledger`),
wall time between grants exceeds real time by no more than the jumps
(`RealTime`), and windows that are closed stay as they are (`Windows`). The same
ledger gives `Implements`: each `Grant` is a `Serve` that `PacedGrants` can
afford, each `Acquire` an `Ask`, all else stutters.

`ServiceGap`, that nobody is held longer than a token takes, needs `GapInv`. The
call whose turn it is has either just become next (and acts before time passes)
or sleeps, and then its wake-up is bounded in two ways that survive every round
of `reserve()`: on the wall clock, `lastRefill` plus the wait for what is missing
never exceeds the start of its turn plus the jumps plus the wait for a whole
token; in real time, a round begins only after the previous timer and can put
the wake-up off by no more than the clock was set back. `WaitShrinks` is the
arithmetic behind the first: what a refill earns shortens the rounded-up wait by
at least the time it took.

From these follow two facts that no run checks and that hold for any number of
calls; they are stated in the proofs module. `NextUpLooks`: as long as a call
waits, the one next in the chain is inside `reserve()` and looks at the bucket
within a token's refill time, so the chain can neither break nor stall.
`WaitBounded`: a call waits at most `Hold` (one token, the lag of timers, what
the clock was set back) for itself and for each call it found in front of it,
whether it has been served or not. `LeavesInTime` says that a call leaves within
`Hold` of its request or of its predecessor, `AskedInOrder` that later calls of
the chain asked later, and an induction along the chain adds the steps up. That
induction, like the others here, is over the set of numbers for which the claim
holds (`CountingUp`, from the well-foundedness of `<` on Nat), because the
library's rules take the property as an operator. With that, what remains of
`Served` is that time goes on.

`LimiterIsQueue` is what the modules above the limiter build on: what was issued
and not yet granted (`Waiting`) is a queue that holds exactly the calls that
wait; a step leaves it alone, appends a call that was idle, or takes its head.
`ReadTools` has `queue` in the place of the limiter and the same two steps,
`Append` in `Call` and `Again`, `Tail` in `Pass`.

**LexwareClient.** `AtMostOnce` and `RefusalIsFinal` follow from
`IInv == TypeOK /\ Progress /\ SingleShot`. `SingleShot` is the idea of the
program: a call that is not replayed has at most one request that matters. While
one is on the wire nothing was executed and no reply is under way, and a new
attempt is made only after a reply that says "not carried out". `Implements`
maps `Execute` to `TakeEffect`, the end of a call to `Return` or `Fail`.
`RetriesSpaced` is about each wait, not their sum: there are as many waits as
retries, and every one is within the bounds, by cases on the header and on
whether the backoff has reached its cap.

Two more theorems are about all calls, replayed ones too. `EffectsCounted`: what
Lexware carried out for a call and what is on the wire and may still be carried
out are together no more than its attempts, one less if the call was refused.
Attempts of a call are numbered, so a request that is sent is a new element of
the wire, an `Execute` moves one to the count, and a refusal takes one away
(`Counted`, by cardinalities). `EveryStepCounts` is the safety half of
`Settles`: `StepsLeft` is at most `3 * MaxRetries + 4`, each step of a call
lowers it, and nothing else raises it. A call therefore ends if only it goes on,
which is what fairness adds.

**DeleteIdempotent.** On top of the client's invariant, `DInv` says that a
success on its way, being read or returned, and a 404 likewise, means that the
resource is gone for good, and that there is one success in the whole history,
of a resource that existed. `DeletesAreCalls` shows that deletes are a behaviour
of `LexwareClient`, the resource only restricting Lexware's answers, so that the
client's theorems hold of them. One use is `WrongFlagNeedsRetry`, which limits
the second finding of section 6: a DELETE that was answered 404 at its first
attempt had no effect and will have none (`EffectsCounted` leaves room for
none), so `alreadyAbsent` is wrong at most after a retry.

**ReadTools.** `RInv` adds four facts to the types: the queue holds each waiting
call once; before the loop's position every GET of the batch is done, after it
none has begun; the lists agree with the GETs done so far; and whatever
`get-voucher-file` was told, on its way or taken, was offered. `BatchAccounts`
counts positions against calls, so the proof goes through cardinalities of
sequences that grow by one; `FileWasAttached` rests on the fact that an answer
is cut from the list during the lookup. `NobodyForgotten` is the safety half of
`ToolsEnd`: the queue of the limiter holds exactly the calls that wait for it
(`Queued`, preserved because only the head leaves, and it leaves to be sent), by
`BatchYields` no more than two of them, and `get-vouchers` never stands at a GET
that has ended.

**UpdateTools.** `IInv` adds to the types what makes a late PUT harmless. What a
call has read is the resource at some version, and the resource itself while its
version is still the current one (`Snapped`); a PUT under way is the one its
call made from what it read, was not carried out before, and its caller was told
neither success nor refusal (`OnWire`); the resource is always a voucher
(`Voucher`). `BodyFacts` is the heart: the body, stored over what was read, is
the patched voucher, although the derived status was left out of it; it is
booked properly when its caller names a contact, or leaves the booking of a
properly booked voucher alone, and then holds nothing Lexware refuses but what
the caller passed. From these follow `InvalidIsAskedFor`, the action properties
`OneContact` and `ExplicitVersionGuards` and the refinement of `PatchedResource`, in which a PUT
that is carried out is the atomic patch of the fields its caller named
(`OverlayFacts`). `AnswersAreTrue` is about what callers are told: `updated` of a
PUT that was carried out, `stale`, `invalid` and `failed` of one that was not and
is not on its way, and `stale` only when the resource has become newer than the
version sent, never because the tool mixed versions up. The proofs are for any
number of callers, keys and edits.

**The merge.** `UpdateTools_proofs` also proves what justifies the `Merge` of
`UpdateTools`, whose keys stand for leaves. The theorems are about every pair of
functions `merge` and `leaves` that solve the equations of `DeepMerge` on a set
of values in which nesting ends (`Solved`; the height of a value is any number
above that of its fields). `MergeTouchesOnlyNamed`: the leaves of a merge are
those of the current object with those of the patch over them, at any depth and
for any keys. `EntriesTouchOnlyNamed` is the same for the lists of
`mergeAddresses()`. The argument is that an overlay can be taken key by key
(`OverlayJoin`, from what it means for a path to be a prefix of another), that a
value with one leaf replaces or is replaced (`UnderOne`, `OverOne`,
`UnderEmpty`), and an induction over the height of the patch with one level in
each step (`FieldsMerged`, `ObjectsMerged`). `MergeOfLeaves` adds that no leaf of
a value lies inside another (`LeavesTidy`), so that leaves are a function from
paths, and the overlay is `Merge` wherever patch and resource have leaves at the
same places; where a patch puts an object over a scalar or a scalar over an
object, the first theorem still says what happens. `MergeRepeats`: repeating an
update changes nothing more. That the recursive operators of `RequestBodies`
solve the equations is an assumption TLC evaluates with the run `bodies`
(`MergeIsDeepMerge`, `LeavesAreLeaves`, `TreesAreNested` of `MCRequestBodies`),
on 38 values; it also shows that the hypothesis can be met.

**ToolServer.** `IInv` is `TypeOK`, the fact that every running server has the
configuration `loadConfig()` makes of some environment (`Configured`), and that
a request past the gate carries what the gate asks for (`Screened`). All four
safety properties of the run follow, for every set of environments and requests
rather than for the two halves that TLC enumerates.

**TokenVerifier.** `IInv` dates everything: a lookup under way is no older than
its timeout, its answer lies between its start and now, an entry of a token
without `exp` ends at most `Ttl` after its answer, and each email is one the IdP
gave for that token. Both `FreshBasis` and `CachedWasAnswered` follow; for a
token with `exp` the former rests on `jwtVerify()` having let the token pass. For `CacheBounded`, eviction in a
full cache removes at least one entry before the new one enters, however many
lookups end together. `LiveEntriesKept` is an action property of the same
`Learn`: if fewer than `MaxEntries` entries are good, a full cache has an expired
one, so dropping the expired ones makes room and the cache is not cleared.

**SummarizeVouchers.** `TruncationIsHonest` needs to know only where the walk is
(`Walk`): while it goes on the cap was not reached, at the end the last answer
compares with the pages as the flag says. What others do to the list between two
GETs never enters.

`DriftBounded` needs the list cut in two at the place the walk has reached
(`Drift`): the front, where the pages that were scanned lay, and the back. Of the
vouchers that stayed, those never counted and now in the front are lost, at most
one for each that left; those counted and now in the back will be counted again,
and together with what was counted twice already they are at most as many as
entered. A voucher that enters or leaves moves at most one other across the cut
(`EnterParts`, `LeaveParts`), and a page moves its rows from back to front,
counting each once (`PageParts`). `ExactWhenQuiet` adds `Quiet`: with nobody else at
work the groups are the `Tally` of the front, which is the whole list at the end.
Both are about sums over finite sets. The sum is a fold that the community
modules define by recursion; `SumsExist`, `SumsUnique` and `SumRec` establish
that recursion by an induction over subsets (`SubsetInduction`), and
`SumRemove`, `SumUnion` and `SumBump` are what the rest needs of it.

Only model-checked: all liveness (`Served`, `Settles`, `ToolsEnd`), which with
its fairness and ENABLED is beyond the prover, although the theorems above leave
little of it but the fairness; and the two properties of `RequestBodies`, whose
merge and schemas are RECURSIVE operators on values of any depth, which the
prover cannot expand. What `UpdatesTouchOnlyNamed` asks of the merge itself is
the theorem `MergeTouchesOnlyNamed`; that the schemas, the encodings of arguments
and the rules of vouchers around it lose nothing either, and `CreatesWhatWasAsked`,
rest on TLC. The theorems about the merge are not tied to `RequestBodies` by a
proof but by the equations, for the same reason.

## 6. Where code and documentation disagree

- `postMultipart()` awaits `safeParse()` outside any `try` (client.ts 145), so
  an upload whose answer breaks off rejects with the raw error of `fetch`.
  `CHANGELOG.md` 73-74 says that body-read failures are mapped to a classified
  `LexwareApiError`; `request()` and `getBinary()` do so. Run `client_bodies`
  shows it, after an upload that was carried out.
- `deleteIdempotent()` returns `alreadyAbsent: true` when its own DELETE was
  carried out, the answer lost and the retry answered 404. `shared.ts` 96-98
  says callers can tell "deleted it" from "it was already absent". Run
  `delete_flag` shows it; `delete_safety` shows what does hold, and the theorem
  `WrongFlagNeedsRetryCorrect` that it takes a retry.

## 7. Assumptions about what is outside the repository

- Lexware handles a request at most once, carries out nothing it answers with
  429, 404 or another 4xx, and may have carried out what it answers with 5xx.
- Lexware raises the version of a resource with every change, payments included,
  and accepts a PUT only for the current version. A PUT without `voucherStatus`
  leaves it. Callers pass a version they have seen, or none; a guessed future
  version is not modelled.
- Lexware refuses a voucher with both a `contactId` and a custom `contactName`
  (vouchers.ts 67-69), and a payment-derived status. What it says to an empty
  contact, or to a flag that contradicts the contact, the repository does not
  tell: it may refuse them or take them. The web app books a voucher to a contact
  or to a name with the collective contact, never to both.
- Ids of deleted resources are not used again.
- Pages of the voucher list are cut from the list as it is at each GET.
- The IdP may answer or not, in any order; emails may change or lose their
  verification. A lookup takes no longer than its timeout.
- Express runs layers in the order they were mounted.

## 8. Not modelled, and why

- Single reads, reference data, profile: one GET and a rendering of its answer.
- The base64 check of uploads and the guess of a file's type: pure functions of
  one argument. The POST itself is a call of `LexwareClient`.
- Paging parameters, enumerations, lengths and ranges of the input schemas, and
  the response types of `types.ts`, which exist at compile time only.
- `describeErrorBody()`, logging, wording and Markdown rendering.
- Signature checks, the JWKS cache and the metadata router: libraries.
- Crashes: nothing is persisted, so a restart is the initial state, and a call
  that was cut off is to Lexware one whose answer was lost.

## 9. State of the plan

Done, in this order: limiter, client, deletes, verifier, updates, server,
summary; batch and file reads with the limiter's queue between tools and client;
bodies, merge and schemas; proofs about every module but `RequestBodies`, and
about the merge in it.

Left, should the code grow in these directions:

1. `ReadTools` over `RateLimiter` itself instead of its queue, to bound in
   seconds how long a batch of 50 keeps another tool waiting; this needs
   `RateLimiter` with calls that come back, where a call now asks once.
2. Uploads beside deletes of the same voucher, once a tool deletes vouchers.
