----------------------------- MODULE ReadTools -----------------------------
(***************************************************************************)
(* get-vouchers and get-voucher-file of src/tools/documents.ts, at work    *)
(* together on one LexwareClient, that is on its retries and on the one    *)
(* limiter every attempt of every tool call waits for.                     *)
(*                                                                         *)
(* The limiter is the queue that RateLimiter promises: first come, first   *)
(* served (FifoService), and everybody is served (Served).  When is left   *)
(* out.  Others attach and detach files and remove vouchers meanwhile; the *)
(* files are told apart of the voucher get-voucher-file reads.             *)
(***************************************************************************)
EXTENDS LexwareClient, FiniteSets

CONSTANTS Batch,       \* the GETs of get-vouchers, one for each of its ids
          Lookup,      \* the GET of the voucher by get-voucher-file,
          Download,    \* and its GET of the file
          FileIndex,   \* its fileIndex
          IdOf,        \* IdOf[c]: the voucher the GET c is for
          Vouchers, Files,
          Receipts,    \* the files of the voucher to begin with
          MaxChanges,  \* bound: changes by others
          Answers      \* bound: the classes of status Lexware answers with

BatchCalls   == {Batch[i] : i \in DOMAIN Batch}
VoucherCalls == BatchCalls \cup {Lookup}

ASSUME ReadAssumption ==
  /\ Batch \in Seq(Calls) \ {<<>>}
  /\ \A i, j \in DOMAIN Batch : Batch[i] = Batch[j] => i = j
  /\ {Lookup, Download} \subseteq Calls \ BatchCalls /\ Lookup # Download
  /\ Calls = VoucherCalls \cup {Download} /\ Calls \subseteq Idempotent
  /\ IdOf \in [VoucherCalls -> Vouchers]
  /\ Receipts \in Seq(Files)
  /\ FileIndex \in Nat /\ MaxChanges \in Nat
  /\ Answers \subseteq Statuses

VARIABLES
  queue,     \* calls that wait for the limiter, in the order of acquire()
  present,   \* the vouchers Lexware has
  attached,  \* the files of the voucher of Lookup
  changes,   \* changes by others so far
  files,     \* the files that the answer to Lookup carries
  next,      \* the loop of get-vouchers is at this id
  vouchers,  \* the two lists it fills, as ids
  errors,
  offered    \* history: files at FileIndex while get-voucher-file looked

rvars == <<vars, queue, present, attached, changes, files, next, vouchers, errors, offered>>

RTypeOK ==
  /\ TypeOK
  /\ queue \in Seq(Calls)
  /\ present \subseteq Vouchers
  /\ attached \in Seq(Files)
  /\ changes \in 0..MaxChanges
  /\ files \in Seq(Files)
  /\ next \in 1..(Len(Batch) + 1)
  /\ vouchers \in Seq(Vouchers) /\ errors \in Seq(Vouchers)
  /\ offered \subseteq Files

RInit ==
  /\ Init
  /\ queue = <<>>
  /\ present = Vouchers /\ attached = Receipts
  /\ changes = 0
  /\ files = <<>>
  /\ next = 1 /\ vouchers = <<>> /\ errors = <<>>
  /\ offered = {}

-----------------------------------------------------------------------------
(* The tools. *)

\* Faulty variant: when there is no file at the index, take the first.
ChosenOrFirst(fs) ==
  {fs[i] : i \in DOMAIN fs \cap {IF FileIndex + 1 > Len(fs) THEN 1 ELSE FileIndex + 1}}

\* voucher.files?.[fileIndex], no file or one.
Chosen(fs) == {fs[i] : i \in DOMAIN fs \cap {FileIndex + 1}}

\* Faulty variant: every GET of the batch is started at once.
ReadyTogether(c) ==
  \/ c \in BatchCalls \cup {Lookup}
  \/ c = Download /\ outcome[Lookup] = "returned" /\ Chosen(files) # {}

\* The handler has come to the call c.
Ready(c) ==
  \/ next <= Len(Batch) /\ c = Batch[next]
  \/ c = Lookup
  \/ c = Download /\ outcome[Lookup] = "returned" /\ Chosen(files) # {}

\* Faulty variant: the first failure ends the loop.
CollectUntilFailure(c) ==
  IF c \notin BatchCalls \/ outcome'[c] = "pending"
  THEN UNCHANGED <<next, vouchers, errors>>
  ELSE IF outcome'[c] = "returned"
       THEN /\ vouchers' = Append(vouchers, IdOf[c])
            /\ next' = next + 1 /\ UNCHANGED errors
       ELSE /\ errors' = Append(errors, IdOf[c])
            /\ next' = Len(Batch) + 1 /\ UNCHANGED vouchers

\* Faulty variant: a failure skips the id after it, too.
CollectSkipping(c) ==
  IF c \notin BatchCalls \/ outcome'[c] = "pending"
  THEN UNCHANGED <<next, vouchers, errors>>
  ELSE IF outcome'[c] = "returned"
       THEN vouchers' = Append(vouchers, IdOf[c]) /\ next' = next + 1 /\ UNCHANGED errors
       ELSE errors' = Append(errors, IdOf[c]) /\ next' = next + 2 /\ UNCHANGED vouchers

\* get-vouchers: a GET that settles goes into one of the lists; the loop goes on.
Collect(c) ==
  IF c \notin BatchCalls \/ outcome'[c] = "pending"
  THEN UNCHANGED <<next, vouchers, errors>>
  ELSE /\ next' = next + 1
       /\ IF outcome'[c] = "returned"
          THEN vouchers' = Append(vouchers, IdOf[c]) /\ UNCHANGED errors
          ELSE errors' = Append(errors, IdOf[c]) /\ UNCHANGED vouchers

-----------------------------------------------------------------------------
(* The calls of the client, each attempt of which the limiter lets pass. *)

\* What is at the caller's index now.
AtIndex ==
  IF IdOf[Lookup] \in present /\ FileIndex + 1 \in DOMAIN attached
  THEN {attached[FileIndex + 1]} ELSE {}

Call(c) ==
  /\ Ready(c) /\ Begin(c)
  /\ queue' = Append(queue, c)
  /\ offered' = IF c = Lookup THEN AtIndex ELSE offered
  /\ UNCHANGED <<present, attached, changes, files, next, vouchers, errors>>

Again(c) ==
  /\ Wake(c)
  /\ queue' = Append(queue, c)
  /\ UNCHANGED <<present, attached, changes, files, next, vouchers, errors, offered>>

Pass(c) ==
  /\ queue # <<>> /\ c = Head(queue)
  /\ Send(c)
  /\ queue' = Tail(queue)
  /\ UNCHANGED <<present, attached, changes, files, next, vouchers, errors, offered>>

Hear(c) ==
  /\ TransportFailure(c) \/ Receive(c) \/ ReadBody(c)
  /\ Collect(c)
  /\ UNCHANGED <<queue, present, attached, changes, files, offered>>

-----------------------------------------------------------------------------
(* Lexware and its other users. *)

\* Whether a file that was detached can still be fetched is left open.
Found(c)  == c \in VoucherCalls => IdOf[c] \in present
Absent(c) == c \in VoucherCalls => IdOf[c] \notin present

\* A GET has no effect to count.
Serve(c, n) ==
  /\ <<c, n>> \in wire /\ Found(c)
  /\ Answer(c, n, "ok")
  /\ files' = IF c = Lookup /\ reply'[c] # reply[c] THEN attached ELSE files
  /\ UNCHANGED <<executed, queue, present, attached, changes, next, vouchers, errors, offered>>

Decline(c, n, s) ==
  /\ s \in Answers /\ s = "notFound" => Absent(c)
  /\ Refuse(c, n, s)
  /\ UNCHANGED <<queue, present, attached, changes, files, next, vouchers, errors, offered>>

Change ==
  /\ changes < MaxChanges
  /\ changes' = changes + 1
  /\ offered' = IF pc[Lookup] \in {"idle", "done"} THEN offered ELSE offered \cup AtIndex'
  /\ UNCHANGED <<vars, queue, files, next, vouchers, errors>>

Attach(f) ==
  /\ \A i \in DOMAIN attached : attached[i] # f
  /\ attached' = Append(attached, f) /\ UNCHANGED present
  /\ Change

Detach(f) ==
  /\ \E i \in DOMAIN attached :
       /\ attached[i] = f
       /\ attached' = SubSeq(attached, 1, i - 1) \o SubSeq(attached, i + 1, Len(attached))
  /\ UNCHANGED present
  /\ Change

Remove(v) ==
  /\ v \in present
  /\ present' = present \ {v} /\ UNCHANGED attached
  /\ Change

-----------------------------------------------------------------------------
BatchReturned == next > Len(Batch)

FileEnded ==
  \/ pc[Download] = "done"
  \/ pc[Lookup] = "done" /\ ~Ready(Download)

\* Both tools have ended and no request is on the wire.
Rest == BatchReturned /\ FileEnded /\ wire = {} /\ UNCHANGED rvars

RNext ==
  \/ \E c \in Calls :
       \/ Call(c) \/ Again(c) \/ Pass(c) \/ Hear(c)
       \/ \E n \in 0..MaxRetries : Serve(c, n) \/ \E s \in Answers : Decline(c, n, s)
  \/ \E v \in Vouchers : Remove(v)
  \/ \E f \in Files : Attach(f) \/ Detach(f)
  \/ Rest

RSpec == RInit /\ [][RNext]_rvars

\* As for the client; the limiter serves the head of its queue, and a handler
\* goes on to its next call.  Nobody has to call a tool.
RFairness ==
  \A c \in Calls :
    /\ c \notin {Batch[1], Lookup} => WF_rvars(Call(c))
    /\ WF_rvars(Again(c)) /\ WF_rvars(Pass(c)) /\ WF_rvars(Hear(c))

RFairSpec == RSpec /\ RFairness

-----------------------------------------------------------------------------
(* Properties. *)

HowMany(ids, id)     == Cardinality({i \in DOMAIN ids : ids[i] = id})
Settled(id, results) ==
  Cardinality({c \in BatchCalls : IdOf[c] = id /\ outcome[c] \in results})

\* Whatever fails on the way, get-vouchers accounts for every id it was given
\* when it returns: each is among the vouchers as often as a GET of it was
\* answered and among the errors as often as one failed, none is left untried.
BatchAccounts ==
  BatchReturned =>
    \A id \in Vouchers :
      /\ HowMany(vouchers, id) = Settled(id, {"returned"})
      /\ HowMany(errors, id) = Settled(id, Errors)
      /\ Settled(id, {"pending"}) = 0

\* The file get-voucher-file returns was attached to the voucher, at the index
\* the caller chose, at some time while the tool looked the voucher up: a file
\* that moves to that index later, or one from another index, is never it.
FileWasAttached ==
  outcome[Download] = "returned" =>
    LET file == Chosen(files)
    IN  file # {} /\ file \subseteq offered

\* A batch does not crowd out other tool calls: it never has two requests in
\* the queue of the limiter, so no more than one of them, retries included,
\* goes ahead of a request that somebody else has asked for.
BatchYields ==
  \A i, j \in DOMAIN queue :
    (queue[i] \in BatchCalls <=> queue[j] \in BatchCalls) => i = j

\* Both tools end, with or without a result, though Lexware need not answer and
\* they wait for each other in the queue.
ToolsEnd ==
  /\ pc[Batch[1]] = "acquiring" ~> BatchReturned
  /\ pc[Lookup] = "acquiring" ~> FileEnded
=============================================================================
