-------------------------- MODULE ReadTools_proofs --------------------------
(***************************************************************************)
(* Theorems about ReadTools, for a batch of any length, any index and any  *)
(* number of retries and of changes by others.                             *)
(***************************************************************************)
EXTENDS ReadTools, LexwareClient_proofs, FiniteSetTheorems, SequenceTheorems

\* A call is settled when it is done, and hears replies only while it waits.
Talk(c) ==
  /\ pc[c] = "done" <=> outcome[c] # "pending"
  /\ reply[c] # "none" => pc[c] = "waiting"

\* The queue holds calls that wait for the limiter, each once.
QueueInv ==
  /\ \A i \in DOMAIN queue : pc[queue[i]] = "acquiring"
  /\ \A i, j \in DOMAIN queue : queue[i] = queue[j] => i = j

\* Of the batch, the GETs before next are done and those after it not begun.
BatchInv ==
  \A i \in DOMAIN Batch :
    /\ pc[Batch[i]] = "done" <=> i < next
    /\ pc[Batch[i]] # "idle" => i <= next

\* What get-voucher-file was told, and the history of what it could be told.
Told == reply[Lookup] = "ok" \/ pc[Lookup] = "reading" \/ outcome[Lookup] = "returned"

FileInv ==
  /\ pc[Download] # "idle" => outcome[Lookup] = "returned" /\ Chosen(files) # {}
  /\ pc[Lookup] \notin {"idle", "done"} => AtIndex \subseteq offered
  /\ Told => Chosen(files) \subseteq offered

\* The lists agree with what the GETs ended with so far.
ListInv ==
  \A id \in Vouchers :
    /\ HowMany(vouchers, id) = Settled(id, {"returned"})
    /\ HowMany(errors, id) = Settled(id, Errors)

RInv ==
  /\ RTypeOK
  /\ \A c \in Calls : Talk(c)
  /\ QueueInv /\ BatchInv /\ FileInv /\ ListInv

-----------------------------------------------------------------------------
(* What a step of one call changes. *)

\* The other calls are left alone.
LEMMA Elsewhere ==
  ASSUME TypeOK, NEW c \in Calls, NEW d \in Calls, d # c,
         \/ ClientStep(c)
         \/ \E n \in 0..MaxRetries, s \in Statuses : Answer(c, n, s)
  PROVE  pc'[d] = pc[d] /\ reply'[d] = reply[d] /\ outcome'[d] = outcome[d]
<1>1. CASE Begin(c) \/ Wake(c) \/ Send(c)
  BY <1>1 DEF Begin, Wake, Send, TypeOK
<1>2. CASE TransportFailure(c) \/ Receive(c) \/ ReadBody(c)
  BY <1>2 DEF TransportFailure, Receive, ReadBody, Retry, Settle, TypeOK
<1>3. CASE \E n \in 0..MaxRetries, s \in Statuses : Answer(c, n, s)
  BY <1>3 DEF Answer, TypeOK
<1> QED
  BY <1>1, <1>2, <1>3 DEF ClientStep

\* The three ways a call goes on from what it hears: another attempt, the
\* body, or the end.
Tries(c) == pc'[c] = "sleeping" /\ outcome'[c] = outcome[c]
Reads(c) == reply[c] = "ok" /\ pc'[c] = "reading" /\ outcome'[c] = outcome[c]
Ends(c)  ==
  /\ pc'[c] = "done" /\ outcome'[c] \in Errors \cup {"returned"}
  /\ outcome'[c] = "returned" => pc[c] = "reading"

LEMMA HearCases ==
  ASSUME TypeOK, NEW c \in Calls, Talk(c), TransportFailure(c) \/ Receive(c) \/ ReadBody(c)
  PROVE  /\ pc[c] \in {"waiting", "reading"} /\ outcome[c] = "pending"
         /\ reply'[c] = "none"
         /\ Tries(c) \/ Reads(c) \/ Ends(c)
<1>1. CASE TransportFailure(c)
  BY <1>1 DEF TransportFailure, Retry, Settle, TypeOK, Talk, Tries, Ends, Errors
<1>2. CASE Receive(c)
  <2>1. pc[c] = "waiting" /\ reply'[c] = "none" /\ outcome[c] = "pending"
    BY <1>2 DEF Receive, TypeOK, Talk
  <2>2. CASE reply[c] # "ok" /\ Settle(c, reply[c])
    <3>1. reply[c] \in Errors /\ reply[c] # "returned"
      BY <1>2, <2>2 DEF Receive, TypeOK, Statuses, Errors, NotExecuted
    <3> QED
      BY <2>1, <2>2, <3>1 DEF Settle, TypeOK, Ends
  <2>3. CASE reply[c] = "ok" /\ pc' = [pc EXCEPT ![c] = "reading"] /\ UNCHANGED outcome
    BY <2>1, <2>3 DEF Reads, TypeOK
  <2>4. ASSUME NEW ms, Retry(c, ms)
        PROVE  Tries(c)
    BY <2>4 DEF Retry, Tries, TypeOK
  <2> QED
    BY <1>2, <2>1, <2>2, <2>3, <2>4 DEF Receive
<1>3. CASE ReadBody(c)
  BY <1>3 DEF ReadBody, Settle, TypeOK, Talk, Ends, Errors
<1> QED
  BY <1>1, <1>2, <1>3

\* The steps of ReadTools are steps of the client, or answers of Lexware.
LEMMA RStepKinds ==
  ASSUME NEW c \in Calls
  PROVE  /\ Call(c) => Begin(c)
         /\ Again(c) => Wake(c)
         /\ Pass(c) => Send(c)
         /\ Hear(c) => TransportFailure(c) \/ Receive(c) \/ ReadBody(c)
         /\ Call(c) \/ Again(c) \/ Pass(c) \/ Hear(c) => ClientStep(c)
  BY DEF Call, Again, Pass, Hear, ClientStep

\* The client's own types.
LEMMA ClientTypes ==
  ASSUME TypeOK, NEW c \in Calls,
         \/ ClientStep(c)
         \/ \E n \in 0..MaxRetries, s \in Statuses : Answer(c, n, s) /\ UNCHANGED executed
  PROVE  TypeOK'
<1>1. CASE ClientStep(c)
  BY <1>1, TypeStep DEF Next
<1>2. ASSUME NEW n \in 0..MaxRetries, NEW s \in Statuses, Answer(c, n, s), UNCHANGED executed
      PROVE  TypeOK'
  BY <1>2 DEF Answer, TypeOK
<1> QED
  BY <1>1, <1>2

-----------------------------------------------------------------------------
(* The lists. *)

\* Appending an id counts it once more.
LEMMA HowManyAppend ==
  ASSUME NEW ids \in Seq(Vouchers), NEW x \in Vouchers, NEW id
  PROVE  /\ HowMany(ids, id) \in Nat
         /\ HowMany(Append(ids, x), id) = HowMany(ids, id) + (IF x = id THEN 1 ELSE 0)
<1> DEFINE new == Append(ids, x)
           n   == Len(ids)
           S   == {i \in DOMAIN ids : ids[i] = id}
<1>1. n \in Nat /\ DOMAIN ids = 1..n /\ DOMAIN new = 1..(n + 1)
  OBVIOUS
<1>2. new[n + 1] = x /\ \A i \in 1..n : new[i] = ids[i]
  OBVIOUS
<1>3. IsFiniteSet(S) /\ Cardinality(S) \in Nat
  <2>1. IsFiniteSet(1..n)
    BY <1>1, FS_Interval
  <2>2. S \in SUBSET (1..n)
    BY <1>1
  <2> QED
    BY <2>1, <2>2, FS_Subset, FS_CardinalityType
<1>4. n + 1 \notin S
  BY <1>1
<1>5. {i \in DOMAIN new : new[i] = id} = IF x = id THEN S \cup {n + 1} ELSE S
  BY <1>1, <1>2
<1>6. Cardinality(S \cup {n + 1}) = Cardinality(S) + 1
  BY <1>3, <1>4, FS_AddElement
<1> HIDE DEF S, n, new
<1>7. HowMany(ids, id) = Cardinality(S)
  BY DEF HowMany, S
<1>8. HowMany(new, id) = IF x = id THEN Cardinality(S \cup {n + 1}) ELSE Cardinality(S)
  BY <1>5 DEF HowMany
<1> QED
  BY <1>3, <1>6, <1>7, <1>8 DEF new

\* A batch is finite.
LEMMA BatchFinite == IsFiniteSet(BatchCalls)
<1>1. Len(Batch) \in Nat /\ DOMAIN Batch = 1..Len(Batch)
  BY ReadAssumption
<1>2. IsFiniteSet(DOMAIN Batch)
  BY <1>1, FS_Interval
<1> DEFINE f == [i \in DOMAIN Batch |-> Batch[i]]
<1>3. f \in Surjection(DOMAIN Batch, BatchCalls)
  BY DEF BatchCalls, Surjection
<1> QED
  BY <1>2, <1>3, FS_Surjection

\* A GET of the batch that settles counts where it belongs.
LEMMA SettledStep ==
  ASSUME NEW c \in BatchCalls, NEW results, NEW id,
         outcome[c] \notin results,
         \A d \in BatchCalls \ {c} : outcome'[d] = outcome[d]
  PROVE  /\ Settled(id, results) \in Nat
         /\ Settled(id, results)' =
              Settled(id, results) + (IF IdOf[c] = id /\ outcome'[c] \in results THEN 1 ELSE 0)
<1> DEFINE S == {d \in BatchCalls : IdOf[d] = id /\ outcome[d] \in results}
           T == {d \in BatchCalls : IdOf[d] = id /\ outcome'[d] \in results}
<1>1. IsFiniteSet(S) /\ Cardinality(S) \in Nat
  BY BatchFinite, FS_Subset, FS_CardinalityType
<1>2. c \notin S
  OBVIOUS
<1>3. T = IF IdOf[c] = id /\ outcome'[c] \in results THEN S \cup {c} ELSE S
  OBVIOUS
<1>4. Cardinality(S \cup {c}) = Cardinality(S) + 1
  BY <1>1, <1>2, FS_AddElement
<1>5. Settled(id, results) = Cardinality(S) /\ Settled(id, results)' = Cardinality(T)
  BY DEF Settled
<1> HIDE DEF S, T
<1> QED
  BY <1>1, <1>3, <1>4, <1>5

\* When no GET of the batch settles and the lists stay, so does the account.
LEMMA ListStays ==
  ASSUME ListInv, UNCHANGED <<vouchers, errors>>,
         \A d \in BatchCalls : outcome'[d] = outcome[d]
  PROVE  ListInv'
<1>1. ASSUME NEW id, NEW results
      PROVE  Settled(id, results)' = Settled(id, results)
  <2>1. {d \in BatchCalls : IdOf[d] = id /\ outcome'[d] \in results}
          = {d \in BatchCalls : IdOf[d] = id /\ outcome[d] \in results}
    OBVIOUS
  <2> QED
    BY <2>1 DEF Settled
<1> QED
  BY <1>1 DEF ListInv

-----------------------------------------------------------------------------
(* The queue and the loop. *)

LEMMA QueueAppend ==
  ASSUME NEW c \in Calls, queue \in Seq(Calls), QueueInv,
         pc[c] # "acquiring", pc'[c] = "acquiring",
         \A d \in Calls \ {c} : pc'[d] = pc[d],
         queue' = Append(queue, c)
  PROVE  QueueInv' /\ queue' \in Seq(Calls)
<1> DEFINE n == Len(queue)
<1>1. n \in Nat /\ DOMAIN queue = 1..n /\ \A i \in 1..n : queue[i] \in Calls
  OBVIOUS
<1>2. /\ queue' \in Seq(Calls) /\ DOMAIN queue' = 1..(n + 1)
      /\ queue'[n + 1] = c /\ \A i \in 1..n : queue'[i] = queue[i]
  OBVIOUS
<1>3. \A i \in 1..n : queue[i] # c /\ pc'[queue[i]] = "acquiring"
  BY <1>1 DEF QueueInv
<1> HIDE DEF n
<1>4. \A i \in 1..(n + 1) : i \in 1..n \/ i = n + 1
  BY <1>1
<1> QED
  BY <1>1, <1>2, <1>3, <1>4 DEF QueueInv

LEMMA QueuePass ==
  ASSUME NEW c \in Calls, queue \in Seq(Calls), QueueInv,
         queue # <<>>, c = Head(queue), queue' = Tail(queue),
         \A d \in Calls \ {c} : pc'[d] = pc[d]
  PROVE  QueueInv' /\ queue' \in Seq(Calls)
<1> DEFINE n == Len(queue)
<1>1. n \in Nat \ {0} /\ DOMAIN queue = 1..n /\ \A i \in 1..n : queue[i] \in Calls
  OBVIOUS
<1>2. /\ queue' \in Seq(Calls) /\ DOMAIN queue' = 1..(n - 1)
      /\ \A i \in 1..(n - 1) : queue'[i] = queue[i + 1]
  OBVIOUS
<1>3. queue[1] = c
  OBVIOUS
<1> HIDE DEF n
<1>4. \A i \in 1..(n - 1) : i + 1 \in 1..n /\ i + 1 # 1
  BY <1>1
<1>5. \A i \in 1..(n - 1) : queue[i + 1] # c
  BY <1>1, <1>3, <1>4 DEF QueueInv
<1>6. \A i \in 1..(n - 1) : pc'[queue'[i]] = "acquiring"
  BY <1>1, <1>2, <1>4, <1>5 DEF QueueInv
<1>7. \A i, j \in 1..(n - 1) : queue'[i] = queue'[j] => i = j
  BY <1>1, <1>2, <1>4 DEF QueueInv
<1> QED
  BY <1>2, <1>6, <1>7 DEF QueueInv

LEMMA QueueStays ==
  ASSUME queue \in Seq(Calls), QueueInv, queue' = queue,
         \A d \in Calls : pc[d] = "acquiring" => pc'[d] = "acquiring"
  PROVE  QueueInv'
  BY DEF QueueInv

LEMMA BatchStays ==
  ASSUME BatchInv, next' = next,
         \A d \in BatchCalls : /\ pc'[d] = "done" <=> pc[d] = "done"
                               /\ pc'[d] # "idle" => pc[d] # "idle"
  PROVE  BatchInv'
  BY DEF BatchInv, BatchCalls

\* A GET of the batch that is under way is the one of the loop.
LEMMA UnderWay ==
  ASSUME RTypeOK, BatchInv, NEW c \in BatchCalls, pc[c] \notin {"idle", "done"}
  PROVE  next \in DOMAIN Batch /\ c = Batch[next]
<1>1. PICK i \in DOMAIN Batch : c = Batch[i]
  BY DEF BatchCalls
<1>2. ~(i < next) /\ i <= next
  BY <1>1 DEF BatchInv
<1>3. i \in Nat /\ next \in Nat
  BY ReadAssumption DEF RTypeOK
<1>4. i = next
  BY <1>2, <1>3
<1> QED
  BY <1>1, <1>4

\* get-vouchers collects a GET that ended, and goes on to the next id.
LEMMA CollectStep ==
  ASSUME RInv, NEW c \in BatchCalls,
         pc[c] \in {"waiting", "reading"}, outcome[c] = "pending", Ends(c), Collect(c),
         \A d \in Calls \ {c} : pc'[d] = pc[d] /\ outcome'[d] = outcome[d]
  PROVE  /\ next' \in 1..(Len(Batch) + 1)
         /\ vouchers' \in Seq(Vouchers) /\ errors' \in Seq(Vouchers)
         /\ BatchInv' /\ ListInv'
<1>1. next \in DOMAIN Batch /\ c = Batch[next] /\ IdOf[c] \in Vouchers
  BY UnderWay, ReadAssumption DEF RInv, VoucherCalls
<1>2. /\ next \in Nat /\ Len(Batch) \in Nat /\ DOMAIN Batch = 1..Len(Batch)
      /\ vouchers \in Seq(Vouchers) /\ errors \in Seq(Vouchers)
      /\ \A i \in DOMAIN Batch : Batch[i] \in Calls
  BY ReadAssumption DEF RInv, RTypeOK
<1>3. outcome'[c] # "pending"
  BY DEF Ends, Errors, NotExecuted
<1>4. next' = next + 1
  BY <1>3 DEF Collect
<1>5. next' \in 1..(Len(Batch) + 1)
  BY <1>1, <1>2, <1>4
<1>6. \/ /\ outcome'[c] = "returned" /\ vouchers' = Append(vouchers, IdOf[c]) /\ errors' = errors
      \/ /\ outcome'[c] # "returned" /\ errors' = Append(errors, IdOf[c]) /\ vouchers' = vouchers
  BY <1>3 DEF Collect
<1>7. BatchInv'
  <2> SUFFICES ASSUME NEW i \in DOMAIN Batch
               PROVE  /\ pc'[Batch[i]] = "done" <=> i < next'
                      /\ pc'[Batch[i]] # "idle" => i <= next'
    BY DEF BatchInv
  <2>1. /\ pc[Batch[i]] = "done" <=> i < next
        /\ pc[Batch[i]] # "idle" => i <= next
    BY DEF BatchInv, RInv
  <2>2. i \in Nat
    BY <1>2
  <2>3. CASE i = next
    BY <1>1, <1>2, <1>4, <2>3 DEF Ends
  <2>4. CASE i # next
    <3>1. Batch[i] # c
      BY <1>1, <2>4, ReadAssumption
    <3>2. pc'[Batch[i]] = pc[Batch[i]]
      BY <1>2, <3>1
    <3> QED
      BY <1>2, <1>4, <2>1, <2>2, <2>4, <3>2
  <2> QED
    BY <2>3, <2>4
<1>8. \A d \in BatchCalls \ {c} : outcome'[d] = outcome[d]
  BY <1>2 DEF BatchCalls
<1>9. ASSUME NEW id \in Vouchers
      PROVE  /\ HowMany(vouchers, id)' = Settled(id, {"returned"})'
             /\ HowMany(errors, id)' = Settled(id, Errors)'
  <2>1. /\ HowMany(vouchers, id) = Settled(id, {"returned"})
        /\ HowMany(errors, id) = Settled(id, Errors)
    BY DEF RInv, ListInv
  <2>2. outcome[c] \notin {"returned"} /\ outcome[c] \notin Errors
    BY DEF Errors, NotExecuted
  <2>3. Settled(id, {"returned"})' = Settled(id, {"returned"})
          + (IF IdOf[c] = id /\ outcome'[c] \in {"returned"} THEN 1 ELSE 0)
    BY <1>8, <2>2, SettledStep
  <2>4. Settled(id, Errors)' = Settled(id, Errors)
          + (IF IdOf[c] = id /\ outcome'[c] \in Errors THEN 1 ELSE 0)
    BY <1>8, <2>2, SettledStep
  <2>5. Settled(id, Errors) \in Nat /\ Settled(id, {"returned"}) \in Nat
    BY <1>8, <2>2, SettledStep
  <2>6. outcome'[c] \in Errors <=> outcome'[c] # "returned"
    BY DEF Ends, Errors, NotExecuted
  <2>7. HowMany(vouchers', id) = HowMany(vouchers, id)
          + (IF IdOf[c] = id /\ outcome'[c] = "returned" THEN 1 ELSE 0)
    <3>1. CASE outcome'[c] = "returned"
      <4>1. vouchers' = Append(vouchers, IdOf[c])
        BY <1>6, <3>1
      <4>2. HowMany(Append(vouchers, IdOf[c]), id) = HowMany(vouchers, id) + (IF IdOf[c] = id THEN 1 ELSE 0)
        BY <1>1, <1>2, HowManyAppend
      <4> QED
        BY <3>1, <4>1, <4>2
    <3>2. CASE outcome'[c] # "returned"
      <4>1. HowMany(vouchers, id) \in Nat
        BY <2>1, <2>5
      <4> QED
        BY <1>6, <3>2, <4>1
    <3> QED
      BY <3>1, <3>2
  <2>8. HowMany(errors', id) = HowMany(errors, id)
          + (IF IdOf[c] = id /\ outcome'[c] # "returned" THEN 1 ELSE 0)
    <3>1. CASE outcome'[c] # "returned"
      <4>1. errors' = Append(errors, IdOf[c])
        BY <1>6, <3>1
      <4>2. HowMany(Append(errors, IdOf[c]), id) = HowMany(errors, id) + (IF IdOf[c] = id THEN 1 ELSE 0)
        BY <1>1, <1>2, HowManyAppend
      <4> QED
        BY <3>1, <4>1, <4>2
    <3>2. CASE outcome'[c] = "returned"
      <4>1. HowMany(errors, id) \in Nat
        BY <2>1, <2>5
      <4> QED
        BY <1>6, <3>2, <4>1
    <3> QED
      BY <3>1, <3>2
  <2>9. HowMany(vouchers, id)' = HowMany(vouchers', id) /\ HowMany(errors, id)' = HowMany(errors', id)
    BY DEF HowMany
  <2> QED
    BY <2>1, <2>3, <2>4, <2>6, <2>7, <2>8, <2>9
<1>10. vouchers' \in Seq(Vouchers) /\ errors' \in Seq(Vouchers)
  <2>1. Append(vouchers, IdOf[c]) \in Seq(Vouchers) /\ Append(errors, IdOf[c]) \in Seq(Vouchers)
    BY <1>1, <1>2
  <2> QED
    BY <1>2, <1>6, <2>1, Zenon
<1>11. ListInv'
  BY <1>9 DEF ListInv
<1> QED
  BY <1>5, <1>7, <1>10, <1>11

-----------------------------------------------------------------------------
(* The steps of the tools, one lemma each. *)

\* Files are at the index, if anything is.
LEMMA AtIndexFiles == attached \in Seq(Files) => AtIndex \subseteq Files
<1> SUFFICES ASSUME attached \in Seq(Files) PROVE AtIndex \subseteq Files
  OBVIOUS
<1>1. \A i \in DOMAIN attached : attached[i] \in Files
  OBVIOUS
<1> QED
  BY <1>1 DEF AtIndex

\* The constants that name calls, as the proofs use them.
LEMMA Names ==
  /\ Lookup \in Calls /\ Download \in Calls /\ Lookup # Download
  /\ Lookup \notin BatchCalls /\ Download \notin BatchCalls
  /\ BatchCalls \subseteq Calls
  /\ Calls = BatchCalls \cup {Lookup, Download}
  /\ Len(Batch) \in Nat /\ DOMAIN Batch = 1..Len(Batch)
<1>1. Len(Batch) \in Nat /\ DOMAIN Batch = 1..Len(Batch) /\ \A i \in DOMAIN Batch : Batch[i] \in Calls
  BY ReadAssumption
<1> QED
  BY <1>1, ReadAssumption DEF VoucherCalls, BatchCalls

LEMMA CallStep ==
  ASSUME RInv, NEW c \in Calls, Call(c)
  PROVE  RInv'
<1>1. /\ TypeOK /\ queue \in Seq(Calls) /\ QueueInv /\ BatchInv /\ FileInv /\ ListInv
      /\ attached \in Seq(Files) /\ \A d \in Calls : Talk(d)
  BY DEF RInv, RTypeOK
<1>2. /\ Ready(c) /\ Begin(c) /\ ClientStep(c)
      /\ pc[c] = "idle" /\ pc' = [pc EXCEPT ![c] = "acquiring"]
      /\ UNCHANGED <<reply, outcome, present, attached, changes, files, next, vouchers, errors>>
      /\ queue' = Append(queue, c)
      /\ offered' = IF c = Lookup THEN AtIndex ELSE offered
  BY DEF Call, Begin, ClientStep
<1>3. pc'[c] = "acquiring" /\ \A d \in Calls \ {c} : pc'[d] = pc[d]
  BY <1>1, <1>2 DEF TypeOK
<1>4. TypeOK'
  BY <1>1, <1>2, ClientTypes
<1>5. QueueInv' /\ queue' \in Seq(Calls)
  BY <1>1, <1>2, <1>3, QueueAppend
<1>6. RTypeOK'
  <2>1. offered' \subseteq Files
    BY <1>1, <1>2, AtIndexFiles DEF RInv, RTypeOK
  <2> QED
    BY <1>2, <1>4, <1>5, <2>1 DEF RInv, RTypeOK
<1>7. \A d \in Calls : Talk(d)'
  BY <1>1, <1>2, <1>3 DEF Talk
<1>8. BatchInv'
  <2> SUFFICES ASSUME NEW i \in DOMAIN Batch
               PROVE  /\ pc'[Batch[i]] = "done" <=> i < next
                      /\ pc'[Batch[i]] # "idle" => i <= next
    BY <1>2 DEF BatchInv
  <2>1. /\ pc[Batch[i]] = "done" <=> i < next
        /\ pc[Batch[i]] # "idle" => i <= next
    BY <1>1 DEF BatchInv
  <2>2. Batch[i] \in BatchCalls /\ Batch[i] \in Calls
    BY Names DEF BatchCalls
  <2>3. CASE Batch[i] = c
    <3>1. c = Batch[next] /\ next \in DOMAIN Batch
      <4>1. next \in 1..(Len(Batch) + 1)
        BY DEF RInv, RTypeOK
      <4>2. next <= Len(Batch) /\ c = Batch[next]
        BY <1>2, <2>2, <2>3, Names DEF Ready
      <4> QED
        BY <4>1, <4>2, Names
    <3>2. i = next
      BY <2>3, <3>1, ReadAssumption
    <3>3. i \in Nat
      BY Names
    <3>4. ~(i < next) /\ i <= next
      BY <3>2, <3>3
    <3>5. pc'[Batch[i]] # "done"
      BY <1>3, <2>3
    <3> QED
      BY <3>4, <3>5
  <2>4. CASE Batch[i] # c
    BY <1>3, <2>1, <2>2, <2>4
  <2> QED
    BY <2>3, <2>4
<1>9. FileInv'
  <2>1. AtIndex' = AtIndex
    BY <1>2 DEF AtIndex
  <2>2. CASE c = Lookup
    <3>1. reply[c] = "none" /\ outcome[c] = "pending"
      BY <1>1, <1>2 DEF Talk
    <3>2. ~Told'
      BY <1>2, <1>3, <2>2, <3>1 DEF Told
    <3>3. pc'[Download] = "idle"
      BY <1>1, <1>3, <2>2, <3>1, Names DEF FileInv
    <3> QED
      BY <1>2, <2>1, <2>2, <3>2, <3>3 DEF FileInv
  <2>3. CASE c # Lookup
    <3>1. /\ pc'[Lookup] = pc[Lookup] /\ offered' = offered /\ files' = files
          /\ reply' = reply /\ outcome' = outcome
      BY <1>2, <1>3, <2>3, Names
    <3>2. pc'[Download] # "idle" => outcome[Lookup] = "returned" /\ Chosen(files) # {}
      <4>1. CASE c = Download
        <5>1. next <= Len(Batch) => Batch[next] \in BatchCalls
          <6>1. next \in 1..(Len(Batch) + 1)
            BY DEF RInv, RTypeOK
          <6> QED
            BY <6>1, Names DEF BatchCalls
        <5> QED
          BY <1>2, <4>1, <5>1, Names DEF Ready
      <4>2. CASE c # Download
        BY <1>1, <1>3, <4>2, Names DEF FileInv
      <4> QED
        BY <4>1, <4>2
    <3>3. Chosen(files)' = Chosen(files)
      BY <3>1 DEF Chosen
    <3> QED
      BY <1>1, <2>1, <3>1, <3>2, <3>3 DEF FileInv, Told
  <2> QED
    BY <2>2, <2>3
<1>10. ListInv'
  BY <1>1, <1>2, ListStays
<1> QED
  BY <1>5, <1>6, <1>7, <1>8, <1>9, <1>10 DEF RInv

\* A call that was asked for goes on without the tool noticing.
LEMMA QuietStep ==
  ASSUME RInv, NEW c \in Calls, Again(c) \/ Pass(c)
  PROVE  RInv'
<1>1. /\ TypeOK /\ queue \in Seq(Calls) /\ QueueInv /\ BatchInv /\ FileInv /\ ListInv
      /\ \A d \in Calls : Talk(d)
  BY DEF RInv, RTypeOK
<1>2. /\ ClientStep(c)
      /\ UNCHANGED <<reply, outcome, present, attached, changes, files, next, vouchers, errors,
                     offered>>
  BY DEF Again, Pass, ClientStep, Wake, Send
<1>3. \/ pc[c] = "sleeping" /\ pc'[c] = "acquiring" /\ queue' = Append(queue, c)
      \/ /\ pc[c] = "acquiring" /\ pc'[c] = "waiting"
         /\ queue # <<>> /\ c = Head(queue) /\ queue' = Tail(queue)
  BY <1>1 DEF Again, Pass, Wake, Send, TypeOK
<1>4. \A d \in Calls \ {c} : pc'[d] = pc[d]
  BY <1>1, <1>2, Elsewhere
<1>5. TypeOK'
  BY <1>1, <1>2, ClientTypes
<1>6. QueueInv' /\ queue' \in Seq(Calls)
  <2>1. CASE pc[c] = "sleeping" /\ pc'[c] = "acquiring" /\ queue' = Append(queue, c)
    BY <1>1, <1>4, <2>1, QueueAppend
  <2>2. CASE queue # <<>> /\ c = Head(queue) /\ queue' = Tail(queue)
    BY <1>1, <1>4, <2>2, QueuePass
  <2> QED
    BY <1>3, <2>1, <2>2
<1>7. RTypeOK'
  BY <1>2, <1>5, <1>6 DEF RInv, RTypeOK
<1>8. \A d \in Calls : Talk(d)'
  <2>1. reply[c] = "none"
    BY <1>1, <1>3 DEF Talk
  <2> QED
    BY <1>1, <1>2, <1>3, <1>4, <2>1 DEF Talk
<1>9. \A d \in Calls : /\ pc'[d] = "done" <=> pc[d] = "done"
                       /\ pc'[d] = "idle" <=> pc[d] = "idle"
                       /\ pc'[d] = "reading" <=> pc[d] = "reading"
  BY <1>3, <1>4
<1>10. BatchInv'
  BY <1>1, <1>2, <1>9, BatchStays, Names
<1>11. FileInv'
  <2>1. AtIndex' = AtIndex /\ Chosen(files)' = Chosen(files)
    BY <1>2 DEF AtIndex, Chosen
  <2>2. Told' <=> Told
    BY <1>2, <1>9, Names DEF Told
  <2> QED
    BY <1>1, <1>2, <1>9, <2>1, <2>2, Names DEF FileInv
<1>12. ListInv'
  BY <1>1, <1>2, ListStays
<1> QED
  BY <1>6, <1>7, <1>8, <1>10, <1>11, <1>12 DEF RInv

LEMMA HearStep ==
  ASSUME RInv, NEW c \in Calls, Hear(c)
  PROVE  RInv'
<1>1. /\ TypeOK /\ queue \in Seq(Calls) /\ QueueInv /\ BatchInv /\ FileInv /\ ListInv
      /\ \A d \in Calls : Talk(d)
  BY DEF RInv, RTypeOK
<1>2. /\ ClientStep(c) /\ Collect(c)
      /\ UNCHANGED <<queue, present, attached, changes, files, offered>>
  BY DEF Hear, ClientStep
<1>3. /\ pc[c] \in {"waiting", "reading"} /\ outcome[c] = "pending" /\ reply'[c] = "none"
      /\ Tries(c) \/ Reads(c) \/ Ends(c)
  BY <1>1, HearCases DEF Hear
<1>4. \A d \in Calls \ {c} : pc'[d] = pc[d] /\ reply'[d] = reply[d] /\ outcome'[d] = outcome[d]
  BY <1>1, <1>2, Elsewhere
<1>5. TypeOK'
  BY <1>1, <1>2, ClientTypes
<1>6. QueueInv'
  BY <1>1, <1>2, <1>3, <1>4, QueueStays
<1>7. \A d \in Calls : Talk(d)'
  <2>1. Talk(c)'
    BY <1>3 DEF Talk, Tries, Reads, Ends, Errors, NotExecuted
  <2> QED
    BY <1>1, <1>4, <2>1 DEF Talk
<1>8. /\ next' \in 1..(Len(Batch) + 1)
      /\ vouchers' \in Seq(Vouchers) /\ errors' \in Seq(Vouchers)
      /\ BatchInv' /\ ListInv'
  <2>1. CASE c \in BatchCalls /\ Ends(c)
    BY <1>2, <1>3, <1>4, <2>1, CollectStep
  <2>2. CASE c \notin BatchCalls \/ Tries(c) \/ Reads(c)
    <3>1. UNCHANGED <<next, vouchers, errors>>
      BY <1>2, <1>3, <2>2 DEF Collect, Tries, Reads
    <3>2. \A d \in BatchCalls : outcome'[d] = outcome[d]
      BY <1>4, <2>2, Names DEF Tries, Reads
    <3>3. \A d \in BatchCalls : /\ pc'[d] = "done" <=> pc[d] = "done"
                                /\ pc'[d] # "idle" => pc[d] # "idle"
      BY <1>3, <1>4, <2>2, Names DEF Tries, Reads
    <3>4. BatchInv' /\ ListInv'
      BY <1>1, <3>1, <3>2, <3>3, BatchStays, ListStays
    <3> QED
      BY <3>1, <3>4 DEF RInv, RTypeOK
  <2> QED
    BY <1>3, <2>1, <2>2
<1>9. RTypeOK'
  BY <1>2, <1>5, <1>8 DEF RInv, RTypeOK
<1>10. FileInv'
  <2>1. AtIndex' = AtIndex /\ Chosen(files)' = Chosen(files) /\ offered' = offered
    BY <1>2 DEF AtIndex, Chosen
  <2>2. CASE c = Lookup
    <3>1. pc'[Download] = "idle"
      BY <1>1, <1>3, <1>4, <2>2, Names DEF FileInv
    <3>2. Told' => Told
      BY <1>3, <2>2 DEF Told, Tries, Reads, Ends
    <3>3. pc[Lookup] \notin {"idle", "done"}
      BY <1>3, <2>2
    <3> QED
      BY <1>1, <2>1, <3>1, <3>2, <3>3 DEF FileInv
  <2>3. CASE c # Lookup
    <3>1. pc'[Download] # "idle" => pc[Download] # "idle"
      BY <1>3, <1>4, Names
    <3>2. pc'[Lookup] = pc[Lookup] /\ reply'[Lookup] = reply[Lookup] /\ outcome'[Lookup] = outcome[Lookup]
      BY <1>4, <2>3, Names
    <3> QED
      BY <1>1, <2>1, <3>1, <3>2 DEF FileInv, Told
  <2> QED
    BY <2>2, <2>3
<1> QED
  BY <1>6, <1>7, <1>8, <1>9, <1>10 DEF RInv

-----------------------------------------------------------------------------
(* Lexware and its other users. *)

\* An answer, whatever it says, but a 2xx to the Lookup only with its files.
LEMMA AnswerStep ==
  ASSUME RInv, NEW c \in Calls, NEW n \in 0..MaxRetries, NEW s \in Statuses,
         Answer(c, n, s),
         UNCHANGED <<executed, queue, present, attached, changes, next, vouchers, errors, offered>>,
         files' \in Seq(Files),
         \/ files' = files /\ (c = Lookup => s # "ok" \/ reply' = reply)
         \/ c = Lookup /\ pc[c] = "waiting" /\ Chosen(files') \subseteq AtIndex
  PROVE  RInv'
<1>1. /\ TypeOK /\ QueueInv /\ BatchInv /\ FileInv /\ ListInv
      /\ \A d \in Calls : Talk(d)
  BY DEF RInv, RTypeOK
<1>2. UNCHANGED <<pc, outcome>>
  BY DEF Answer
<1>3. TypeOK'
  BY <1>1, ClientTypes
<1>4. RTypeOK'
  BY <1>3 DEF RInv, RTypeOK
<1>5. reply' = reply \/ (pc[c] = "waiting" /\ reply' = [reply EXCEPT ![c] = s])
  BY DEF Answer
<1>6. \A d \in Calls : Talk(d)'
  BY <1>1, <1>2, <1>5 DEF Talk, TypeOK
<1>7. QueueInv' /\ BatchInv'
  BY <1>1, <1>2 DEF QueueInv, BatchInv
<1>8. ListInv'
  BY <1>1, <1>2, ListStays
<1>9. FileInv'
  <2>1. AtIndex' = AtIndex
    BY DEF AtIndex
  <2>2. CASE files' = files /\ (c = Lookup => s # "ok" \/ reply' = reply)
    <3>1. Told' => Told
      BY <1>1, <1>2, <1>5, <2>2, Names DEF Told, TypeOK
    <3>2. Chosen(files)' = Chosen(files)
      BY <2>2 DEF Chosen
    <3> QED
      BY <1>1, <1>2, <2>1, <3>1, <3>2 DEF FileInv
  <2>3. CASE c = Lookup /\ pc[c] = "waiting" /\ Chosen(files') \subseteq AtIndex
    <3>1. outcome[Lookup] = "pending"
      BY <1>1, <2>3 DEF Talk
    <3>2. pc[Download] = "idle"
      BY <1>1, <3>1 DEF FileInv
    <3>3. AtIndex \subseteq offered
      BY <1>1, <2>3 DEF FileInv
    <3>4. Chosen(files)' \subseteq offered
      BY <2>3, <3>3 DEF Chosen
    <3> QED
      BY <1>2, <2>1, <3>2, <3>3, <3>4 DEF FileInv
  <2> QED
    BY <2>2, <2>3
<1> QED
  BY <1>4, <1>6, <1>7, <1>8, <1>9 DEF RInv

LEMMA ServeStep ==
  ASSUME RInv, NEW c \in Calls, NEW n \in 0..MaxRetries, Serve(c, n)
  PROVE  RInv'
<1>1. /\ Answer(c, n, "ok") /\ Found(c)
      /\ UNCHANGED <<executed, queue, present, attached, changes, next, vouchers, errors, offered>>
      /\ files' = IF c = Lookup /\ reply'[c] # reply[c] THEN attached ELSE files
  BY DEF Serve
<1>2. "ok" \in Statuses /\ files \in Seq(Files) /\ attached \in Seq(Files) /\ TypeOK
  BY DEF Statuses, RInv, RTypeOK
<1>3. files' \in Seq(Files)
  BY <1>1, <1>2
<1>4. CASE c = Lookup /\ reply'[c] # reply[c]
  <2>1. pc[c] = "waiting"
    BY <1>1, <1>4 DEF Answer
  <2>2. IdOf[Lookup] \in present
    BY <1>1, <1>4 DEF Found, VoucherCalls
  <2>3. Chosen(attached) \subseteq AtIndex
    BY <2>2 DEF Chosen, AtIndex
  <2>4. Chosen(files') \subseteq AtIndex
    BY <1>1, <1>4, <2>3
  <2> QED
    BY <1>1, <1>2, <1>3, <1>4, <2>1, <2>4, AnswerStep
<1>5. CASE ~(c = Lookup /\ reply'[c] # reply[c])
  <2>1. files' = files
    BY <1>1, <1>5
  <2>2. c = Lookup => reply' = reply
    BY <1>1, <1>2, <1>5 DEF Answer, TypeOK
  <2> QED
    BY <1>1, <1>2, <1>3, <2>1, <2>2, AnswerStep
<1> QED
  BY <1>4, <1>5

LEMMA DeclineStep ==
  ASSUME RInv, NEW c \in Calls, NEW n \in 0..MaxRetries, NEW s \in Answers, Decline(c, n, s)
  PROVE  RInv'
<1>1. /\ Answer(c, n, s) /\ s # "ok" /\ s \in Statuses
      /\ UNCHANGED <<executed, queue, present, attached, changes, next, vouchers, errors, offered>>
      /\ files' = files
  BY ReadAssumption DEF Decline, Refuse, NotExecuted
<1>2. files' \in Seq(Files)
  BY <1>1 DEF RInv, RTypeOK
<1> QED
  BY <1>1, <1>2, AnswerStep

LEMMA ChangeStep ==
  ASSUME RInv, Change, present' \subseteq Vouchers, attached' \in Seq(Files)
  PROVE  RInv'
<1>1. /\ UNCHANGED <<pc, attempt, slept, wire, reply, executed, outcome,
                     queue, files, next, vouchers, errors>>
      /\ offered' = IF pc[Lookup] \in {"idle", "done"} THEN offered ELSE offered \cup AtIndex'
  BY DEF Change, vars
<1>2. changes' \in 0..MaxChanges
  BY ReadAssumption DEF Change, RInv, RTypeOK
<1>3. AtIndex' \subseteq Files
  <2>1. \A i \in DOMAIN attached' : attached'[i] \in Files
    OBVIOUS
  <2> QED
    BY <2>1 DEF AtIndex
<1>4. TypeOK'
  BY <1>1 DEF RInv, RTypeOK, TypeOK
<1>5. RTypeOK'
  BY <1>1, <1>2, <1>3, <1>4 DEF RInv, RTypeOK
<1>6. offered \subseteq offered'
  BY <1>1
<1>7. FileInv'
  <2>1. Chosen(files)' = Chosen(files) /\ Told' = Told
    BY <1>1 DEF Chosen, Told
  <2> QED
    BY <1>1, <1>6, <2>1 DEF RInv, FileInv
<1>8. (\A c \in Calls : Talk(c))' /\ QueueInv' /\ BatchInv'
  BY <1>1 DEF RInv, Talk, QueueInv, BatchInv
<1>9. ListInv'
  BY <1>1, ListStays DEF RInv
<1> QED
  BY <1>5, <1>7, <1>8, <1>9 DEF RInv

\* Taking one file out leaves files.
LEMMA DetachType ==
  ASSUME NEW s \in Seq(Files), NEW i \in DOMAIN s
  PROVE  SubSeq(s, 1, i - 1) \o SubSeq(s, i + 1, Len(s)) \in Seq(Files)
<1>1. Len(s) \in Nat /\ i \in 1..Len(s) /\ \A j \in 1..Len(s) : s[j] \in Files
  OBVIOUS
<1>2. SubSeq(s, 1, i - 1) \in Seq(Files) /\ SubSeq(s, i + 1, Len(s)) \in Seq(Files)
  BY <1>1, SubSeqProperties
<1> QED
  BY <1>2, ConcatProperties

-----------------------------------------------------------------------------
LEMMA InitRInv == RInit => RInv
<1> SUFFICES ASSUME RInit PROVE RInv
  OBVIOUS
<1>1. TypeOK
  BY InitIInv DEF RInit, IInv
<1>2. /\ \A c \in Calls : pc[c] = "idle" /\ reply[c] = "none" /\ outcome[c] = "pending"
      /\ queue = <<>> /\ next = 1 /\ vouchers = <<>> /\ errors = <<>> /\ offered = {}
      /\ files = <<>> /\ attached = Receipts /\ present = Vouchers /\ changes = 0
  BY DEF RInit, Init
<1>3. RTypeOK
  BY <1>1, <1>2, ReadAssumption, Names DEF RTypeOK
<1>4. QueueInv /\ \A c \in Calls : Talk(c)
  BY <1>2 DEF QueueInv, Talk
<1>5. BatchInv
  <2>1. \A i \in DOMAIN Batch : Batch[i] \in Calls /\ ~(i < 1)
    BY Names DEF BatchCalls
  <2> QED
    BY <1>2, <2>1 DEF BatchInv
<1>6. FileInv
  BY <1>2, Names DEF FileInv, Told
<1>7. ListInv
  <2> SUFFICES ASSUME NEW id \in Vouchers
               PROVE  /\ HowMany(vouchers, id) = Settled(id, {"returned"})
                      /\ HowMany(errors, id) = Settled(id, Errors)
    BY DEF ListInv
  <2>1. {i \in DOMAIN vouchers : vouchers[i] = id} = {}
    BY <1>2
  <2>2. {i \in DOMAIN errors : errors[i] = id} = {}
    BY <1>2
  <2>3. {c \in BatchCalls : IdOf[c] = id /\ outcome[c] \in {"returned"}} = {}
    BY <1>2, Names
  <2>4. {c \in BatchCalls : IdOf[c] = id /\ outcome[c] \in Errors} = {}
    BY <1>2, Names DEF Errors, NotExecuted
  <2> QED
    BY <2>1, <2>2, <2>3, <2>4 DEF HowMany, Settled
<1> QED
  BY <1>3, <1>4, <1>5, <1>6, <1>7 DEF RInv

\* The invariant is inductive.
LEMMA NextRInv == RInv /\ [RNext]_rvars => RInv'
<1> SUFFICES ASSUME RInv, [RNext]_rvars PROVE RInv'
  OBVIOUS
<1>1. ASSUME NEW c \in Calls, Call(c) \/ Again(c) \/ Pass(c) \/ Hear(c)
      PROVE  RInv'
  BY <1>1, CallStep, QuietStep, HearStep
<1>2. ASSUME NEW c \in Calls, NEW n \in 0..MaxRetries,
             Serve(c, n) \/ \E s \in Answers : Decline(c, n, s)
      PROVE  RInv'
  BY <1>2, ServeStep, DeclineStep
<1>3. present \subseteq Vouchers /\ attached \in Seq(Files)
  BY DEF RInv, RTypeOK
<1>4. ASSUME NEW v \in Vouchers, Remove(v)
      PROVE  RInv'
  <2>1. Change /\ present' \subseteq Vouchers /\ attached' \in Seq(Files)
    BY <1>3, <1>4 DEF Remove
  <2> QED
    BY <2>1, ChangeStep
<1>5. ASSUME NEW f \in Files, Attach(f)
      PROVE  RInv'
  <2>1. Change /\ present' \subseteq Vouchers /\ attached' \in Seq(Files)
    BY <1>3, <1>5 DEF Attach
  <2> QED
    BY <2>1, ChangeStep
<1>6. ASSUME NEW f \in Files, Detach(f)
      PROVE  RInv'
  <2>1. PICK i \in DOMAIN attached :
          attached' = SubSeq(attached, 1, i - 1) \o SubSeq(attached, i + 1, Len(attached))
    BY <1>6 DEF Detach
  <2>2. attached' \in Seq(Files)
    BY <1>3, <2>1, DetachType
  <2>3. Change /\ present' \subseteq Vouchers
    BY <1>3, <1>6 DEF Detach
  <2> QED
    BY <2>2, <2>3, ChangeStep
<1>7. CASE UNCHANGED rvars
  <2>1. ListInv'
    BY <1>7, ListStays DEF RInv, rvars, vars
  <2>2. RTypeOK'
    BY <1>7 DEF RInv, RTypeOK, TypeOK, rvars, vars
  <2>3. (\A c \in Calls : Talk(c))' /\ QueueInv' /\ BatchInv'
    BY <1>7 DEF RInv, Talk, QueueInv, BatchInv, rvars, vars
  <2>4. FileInv'
    <3>1. Chosen(files)' = Chosen(files) /\ AtIndex' = AtIndex /\ Told' = Told
      BY <1>7 DEF Chosen, AtIndex, Told, rvars, vars
    <3> QED
      BY <1>7, <3>1 DEF RInv, FileInv, rvars, vars
  <2> QED
    BY <2>1, <2>2, <2>3, <2>4 DEF RInv
<1> QED
  BY <1>1, <1>2, <1>4, <1>5, <1>6, <1>7 DEF RNext, Rest

LEMMA RInvariance == RSpec => []RInv
  BY InitRInv, NextRInv, PTL DEF RSpec

\* The variables keep the kinds of value they are declared with.
THEOREM RTypeCorrect == RSpec => []RTypeOK
<1>1. RInv => RTypeOK
  BY DEF RInv
<1> QED
  BY <1>1, RInvariance, PTL

\* get-vouchers accounts for every id it was given, whatever fails on the way
\* (src/tools/documents.ts, the loop with its try and catch).
THEOREM BatchAccountsCorrect == RSpec => []BatchAccounts
<1>1. RInv => BatchAccounts
  <2> SUFFICES ASSUME RInv, BatchReturned, NEW id \in Vouchers
               PROVE  /\ HowMany(vouchers, id) = Settled(id, {"returned"})
                      /\ HowMany(errors, id) = Settled(id, Errors)
                      /\ Settled(id, {"pending"}) = 0
    BY DEF BatchAccounts
  <2>1. HowMany(vouchers, id) = Settled(id, {"returned"}) /\ HowMany(errors, id) = Settled(id, Errors)
    BY DEF RInv, ListInv
  <2>2. ASSUME NEW c \in BatchCalls
        PROVE  outcome[c] # "pending"
    <3>1. PICK i \in DOMAIN Batch : c = Batch[i]
      BY DEF BatchCalls
    <3>2. next \in Nat /\ next > Len(Batch)
      BY Names DEF BatchReturned, RInv, RTypeOK
    <3>3. i < next
      BY <3>1, <3>2, Names
    <3> QED
      BY <3>1, <3>3, Names DEF RInv, BatchInv, Talk
  <2>3. {c \in BatchCalls : IdOf[c] = id /\ outcome[c] \in {"pending"}} = {}
    BY <2>2
  <2> QED
    BY <2>1, <2>3, FS_EmptySet DEF Settled
<1> QED
  BY <1>1, RInvariance, PTL

\* get-voucher-file returns a file that was attached at the caller's index
\* while the tool looked the voucher up.
THEOREM FileWasAttachedCorrect == RSpec => []FileWasAttached
<1>1. RInv => FileWasAttached
  <2> SUFFICES ASSUME RInv, outcome[Download] = "returned"
               PROVE  Chosen(files) # {} /\ Chosen(files) \subseteq offered
    BY DEF FileWasAttached
  <2>1. pc[Download] # "idle"
    BY Names DEF RInv, Talk
  <2>2. FileInv
    BY DEF RInv
  <2> QED
    BY <2>1, <2>2 DEF FileInv, Told
<1> QED
  BY <1>1, RInvariance, PTL

\* The GETs of a batch, retries included, are never two in the limiter's queue.
THEOREM BatchYieldsCorrect == RSpec => []BatchYields
<1>1. RInv => BatchYields
  <2> SUFFICES ASSUME RInv, NEW i \in DOMAIN queue, NEW j \in DOMAIN queue,
                      queue[i] \in BatchCalls <=> queue[j] \in BatchCalls
               PROVE  i = j
    BY DEF BatchYields
  <2>1. /\ queue[i] \in Calls /\ queue[j] \in Calls
        /\ pc[queue[i]] = "acquiring" /\ pc[queue[j]] = "acquiring"
    BY DEF RInv, RTypeOK, QueueInv
  <2>2. CASE queue[i] \in BatchCalls /\ queue[j] \in BatchCalls
    <3>1. queue[i] = Batch[next] /\ queue[j] = Batch[next]
      BY <2>1, <2>2, UnderWay DEF RInv
    <3> QED
      BY <3>1 DEF RInv, QueueInv
  <2>3. CASE queue[i] \notin BatchCalls /\ queue[j] \notin BatchCalls
    <3>1. {queue[i], queue[j]} \subseteq {Lookup, Download}
      BY <2>1, <2>3, Names
    <3>2. ~(pc[Lookup] = "acquiring" /\ pc[Download] = "acquiring")
      BY Names DEF RInv, FileInv, Talk
    <3>3. queue[i] = queue[j]
      BY <2>1, <3>1, <3>2
    <3> QED
      BY <3>3 DEF RInv, QueueInv
  <2> QED
    BY <2>2, <2>3
<1> QED
  BY <1>1, RInvariance, PTL

-----------------------------------------------------------------------------
(* Nobody is forgotten. *)

\* Who waits for the limiter is in its queue.
Queued ==
  \A c \in Calls : pc[c] = "acquiring" => \E i \in DOMAIN queue : queue[i] = c

\* The safety core of ToolsEnd.  The limiter holds exactly the calls that wait
\* for it and never more than two of them, and get-vouchers, until it returns,
\* is at a GET that has not ended: neither tool waits for what cannot come.
NobodyForgotten ==
  /\ \A c \in Calls : pc[c] = "acquiring" <=> \E i \in DOMAIN queue : queue[i] = c
  /\ Len(queue) <= 2
  /\ ~BatchReturned => pc[Batch[next]] # "done"

\* Taking a turn puts a call into the queue.
LEMMA QueuedAppend ==
  ASSUME Queued, queue \in Seq(Calls), NEW c \in Calls, queue' = Append(queue, c),
         \A d \in Calls \ {c} : pc'[d] = pc[d]
  PROVE  Queued'
<1> DEFINE n == Len(queue)
<1>1. n \in Nat /\ DOMAIN queue = 1..n
  OBVIOUS
<1>2. /\ DOMAIN queue' = 1..(n + 1)
      /\ queue'[n + 1] = c /\ \A i \in 1..n : queue'[i] = queue[i]
  OBVIOUS
<1> HIDE DEF n
<1>3. n + 1 \in 1..(n + 1) /\ \A i \in 1..n : i \in 1..(n + 1)
  BY <1>1
<1> QED
  BY <1>1, <1>2, <1>3 DEF Queued

\* The call that goes ahead is the only one to leave the queue.
LEMMA QueuedPass ==
  ASSUME Queued, queue \in Seq(Calls), queue # <<>>, NEW c \in Calls, c = Head(queue),
         queue' = Tail(queue), pc'[c] # "acquiring",
         \A d \in Calls \ {c} : pc'[d] = pc[d]
  PROVE  Queued'
<1> DEFINE n == Len(queue)
<1>1. n \in Nat \ {0} /\ DOMAIN queue = 1..n /\ queue[1] = c
  OBVIOUS
<1>2. /\ DOMAIN queue' = 1..(n - 1)
      /\ \A i \in 1..(n - 1) : queue'[i] = queue[i + 1]
  OBVIOUS
<1> HIDE DEF n
<1> SUFFICES ASSUME NEW d \in Calls, pc'[d] = "acquiring"
             PROVE  \E i \in DOMAIN queue' : queue'[i] = d
  BY DEF Queued
<1>3. d # c /\ pc[d] = "acquiring"
  OBVIOUS
<1>4. PICK i \in 1..n : queue[i] = d
  BY <1>1, <1>3 DEF Queued
<1>5. i - 1 \in 1..(n - 1) /\ (i - 1) + 1 = i
  <2>1. i # 1
    BY <1>1, <1>3, <1>4
  <2> QED
    BY <1>1, <2>1
<1> QED
  BY <1>2, <1>4, <1>5

LEMMA NextQueued ==
  ASSUME RInv, Queued, [RNext]_rvars
  PROVE  Queued'
<1>1. TypeOK /\ queue \in Seq(Calls) /\ \A c \in Calls : Talk(c)
  BY DEF RInv, RTypeOK
<1>2. ASSUME NEW c \in Calls, Call(c) \/ Again(c) \/ Pass(c) \/ Hear(c)
      PROVE  \A d \in Calls \ {c} : pc'[d] = pc[d]
  BY <1>1, <1>2, RStepKinds, Elsewhere
<1>3. ASSUME NEW c \in Calls, Call(c) \/ Again(c)
      PROVE  Queued'
  <2>1. queue' = Append(queue, c)
    BY <1>3 DEF Call, Again
  <2> QED
    BY <1>1, <1>2, <1>3, <2>1, QueuedAppend
<1>4. ASSUME NEW c \in Calls, Pass(c)
      PROVE  Queued'
  <2>1. queue # <<>> /\ c = Head(queue) /\ queue' = Tail(queue)
    BY <1>4 DEF Pass
  <2>2. pc'[c] # "acquiring"
    BY <1>1, <1>4 DEF Pass, Send, TypeOK
  <2> QED
    BY <1>1, <1>2, <1>4, <2>1, <2>2, QueuedPass
<1>5. ASSUME queue' = queue, \A d \in Calls : pc'[d] = "acquiring" => pc[d] = "acquiring"
      PROVE  Queued'
  BY <1>5 DEF Queued
<1>6. ASSUME NEW c \in Calls, Hear(c)
      PROVE  Queued'
  <2>1. queue' = queue
    BY <1>6 DEF Hear
  <2>2. pc'[c] # "acquiring"
    <3>1. Tries(c) \/ Reads(c) \/ Ends(c)
      BY <1>1, <1>6, RStepKinds, HearCases
    <3> QED
      BY <3>1 DEF Tries, Reads, Ends
  <2> QED
    BY <1>2, <1>5, <1>6, <2>1, <2>2
<1>7. ASSUME NEW c \in Calls, NEW n \in 0..MaxRetries,
             Serve(c, n) \/ \E s \in Answers : Decline(c, n, s)
      PROVE  Queued'
  <2>1. queue' = queue /\ pc' = pc
    BY <1>7 DEF Serve, Decline, Refuse, Answer
  <2> QED
    BY <1>5, <2>1
<1>8. ASSUME Change \/ UNCHANGED rvars
      PROVE  Queued'
  <2>1. queue' = queue /\ pc' = pc
    BY <1>8 DEF Change, rvars, vars
  <2> QED
    BY <1>5, <2>1
<1> QED
  BY <1>3, <1>4, <1>6, <1>7, <1>8 DEF RNext, Rest, Remove, Attach, Detach

\* Two requests of one tool never wait together, so no three do.
LEMMA ShortQueue == RInv /\ BatchYields => Len(queue) <= 2
<1> SUFFICES ASSUME RInv, BatchYields, ~(Len(queue) <= 2)
             PROVE  FALSE
  OBVIOUS
<1>1. Len(queue) \in Nat /\ DOMAIN queue = 1..Len(queue)
  BY DEF RInv, RTypeOK
<1>2. 1 \in DOMAIN queue /\ 2 \in DOMAIN queue /\ 3 \in DOMAIN queue
  BY <1>1
<1> QED
  BY <1>2 DEF BatchYields

\* The queue of the limiter loses nobody and get-vouchers does not stand at a
\* GET that ended (src/tools/documents.ts and the acquire() of every attempt).
THEOREM NobodyForgottenCorrect == RSpec => []NobodyForgotten
<1>1. RInit => Queued
  BY DEF RInit, Init, Queued
<1>2. RSpec => []Queued
  BY <1>1, RInvariance, NextQueued, PTL DEF RSpec
<1>3. RInv /\ Queued /\ BatchYields => NobodyForgotten
  <2> SUFFICES ASSUME RInv, Queued, BatchYields
               PROVE  NobodyForgotten
    OBVIOUS
  <2>1. \A c \in Calls : pc[c] = "acquiring" <=> \E i \in DOMAIN queue : queue[i] = c
    BY DEF RInv, QueueInv, Queued
  <2>2. ASSUME ~BatchReturned
        PROVE  pc[Batch[next]] # "done"
    <3>1. next \in 1..(Len(Batch) + 1) /\ Len(Batch) \in Nat /\ DOMAIN Batch = 1..Len(Batch)
      BY ReadAssumption DEF RInv, RTypeOK
    <3>2. next \in DOMAIN Batch /\ ~(next < next)
      BY <2>2, <3>1 DEF BatchReturned
    <3> QED
      BY <3>2 DEF RInv, BatchInv
  <2> QED
    BY <2>1, <2>2, ShortQueue DEF NobodyForgotten
<1> QED
  BY <1>2, <1>3, RInvariance, BatchYieldsCorrect, PTL
=============================================================================
