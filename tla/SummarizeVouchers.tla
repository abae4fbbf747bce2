------------------------- MODULE SummarizeVouchers -------------------------
(***************************************************************************)
(* The summarize-vouchers tool of src/tools/documents.ts: it walks the     *)
(* pages of the voucher list and keeps a count and a sum per group, while  *)
(* vouchers are booked, deleted or change so that they enter or leave the  *)
(* list.  Lexware answers each GET from the list as it is at that moment.  *)
(*                                                                         *)
(* A voucher's group is the value of the dimension the caller chose; its   *)
(* amount is in cents, 0 when the row has none.  The open amounts and the  *)
(* currencies are kept the same way and left out, as is the rounding.      *)
(***************************************************************************)
EXTENDS Integers, Sequences, FiniteSets, FiniteSetsExt

CONSTANTS Vouchers,    \* the vouchers there may be
          Groups,      \* the values of the grouping dimension
          GroupOf,     \* GroupOf[v]: the summaryGroupKey() of v
          AmountOf,    \* AmountOf[v]: its amount
          Size,        \* rows per page (250)
          MaxPages,    \* the caller's cap on pages
          MaxChanges   \* bound: vouchers that enter or leave the list

ASSUME SummaryAssumption ==
  /\ GroupOf \in [Vouchers -> Groups] /\ AmountOf \in [Vouchers -> Int]
  /\ Size \in Nat \ {0} /\ MaxPages \in Nat \ {0} /\ MaxChanges \in Nat

VARIABLES
  list,           \* the voucher list, in Lexware's order
  pc,             \* "scanning", "done" or "failed"
  page,           \* the next page to GET
  groups,         \* groups[g]: [count, sum] of the rows counted
  scanned,        \* rows counted
  totalElements,  \* of the last answer
  pagesScanned,   \* answers so far
  truncated,      \* the cap was hit
  counted,        \* history: counted[v]: how often v was counted
  stayed,         \* history: vouchers that were in the list all the time
  entered, left   \* history: how many vouchers entered or left the list

scan == <<pc, page, groups, scanned, totalElements, pagesScanned, truncated, counted>>
vars == <<list, scan, stayed, entered, left>>

Listed(l) == {l[i] : i \in 1..Len(l)}

\* The sum of w[v] over the vouchers v in S.
SumOver(w, S) == MapThenSumSet(LAMBDA v : w[v], S)

Init ==
  /\ \E n \in 0..Cardinality(Vouchers) :
       list \in {l \in [1..n -> Vouchers] : Cardinality(Listed(l)) = n}
  /\ pc = "scanning"
  /\ page = 0
  /\ groups = [g \in Groups |-> [count |-> 0, sum |-> 0]]
  /\ scanned = 0 /\ totalElements = 0 /\ pagesScanned = 0
  /\ truncated = FALSE
  /\ counted = [v \in Vouchers |-> 0]
  /\ stayed = Listed(list)
  /\ entered = 0 /\ left = 0

-----------------------------------------------------------------------------
\* Faulty variant: pages are taken to count from 1.
ContentOneBased(p) ==
  SubSeq(list, (p + 1) * Size + 1,
         IF (p + 2) * Size < Len(list) THEN (p + 2) * Size ELSE Len(list))

\* GET /v1/voucherlist: the rows of page p, and whether it is the last one.
Content(p) ==
  SubSeq(list, p * Size + 1,
         IF (p + 1) * Size < Len(list) THEN (p + 1) * Size ELSE Len(list))

Last(p) == (p + 1) * Size >= Len(list)

\* Faulty variant: a group is begun anew on every page.
AddedAnew(rows) ==
  [g \in Groups |->
     LET mine == {v \in Listed(rows) : GroupOf[v] = g}
     IN  IF mine = {} THEN groups[g]
         ELSE [count |-> Cardinality(mine),
               sum   |-> SumOver(AmountOf, mine)]]

\* The totals with the rows of one page added.
Added(rows) ==
  [g \in Groups |->
     LET mine == {v \in Listed(rows) : GroupOf[v] = g}
     IN  [count |-> groups[g].count + Cardinality(mine),
          sum   |-> groups[g].sum + SumOver(AmountOf, mine)]]

\* Faulty variant: the cap is off by one.
CapReachedEarly == page + 2 >= MaxPages

CapReached == page + 1 >= MaxPages

\* A page arrives: its rows are counted, then the loop ends or goes on.
Page ==
  /\ pc = "scanning"
  /\ totalElements' = Len(list)
  /\ pagesScanned' = pagesScanned + 1
  /\ scanned' = scanned + Len(Content(page))
  /\ groups' = Added(Content(page))
  /\ counted' = [v \in Vouchers |->
                   counted[v] + IF v \in Listed(Content(page)) THEN 1 ELSE 0]
  /\ IF Last(page)
     THEN pc' = "done" /\ UNCHANGED <<page, truncated>>
     ELSE /\ page' = page + 1
          /\ truncated' = CapReached
          /\ pc' = IF CapReached THEN "done" ELSE "scanning"
  /\ UNCHANGED <<list, stayed, entered, left>>

\* The client gives the GET up: the tool throws, nothing is returned.
PageFails ==
  /\ pc = "scanning"
  /\ pc' = "failed"
  /\ UNCHANGED <<list, page, groups, scanned, totalElements, pagesScanned, truncated,
                 counted, stayed, entered, left>>

-----------------------------------------------------------------------------
(* The other users of Lexware. *)

Enter(v, i) ==
  /\ entered + left < MaxChanges /\ v \notin Listed(list)
  /\ list' = SubSeq(list, 1, i) \o <<v>> \o SubSeq(list, i + 1, Len(list))
  /\ entered' = entered + 1
  /\ UNCHANGED <<scan, stayed, left>>

Leave(i) ==
  /\ entered + left < MaxChanges
  /\ list' = SubSeq(list, 1, i - 1) \o SubSeq(list, i + 1, Len(list))
  /\ stayed' = stayed \ {list[i]}
  /\ left' = left + 1
  /\ UNCHANGED <<scan, entered>>

\* The tool has returned.
Returned == pc # "scanning" /\ UNCHANGED vars

Next ==
  \/ Page \/ PageFails
  \/ \E v \in Vouchers, i \in 0..Len(list) : Enter(v, i)
  \/ \E i \in 1..Len(list) : Leave(i)
  \/ Returned

Spec == Init /\ [][Next]_vars

-----------------------------------------------------------------------------
(* Properties. *)

Complete == pc = "done" /\ ~truncated

\* Over a list that does not change, the summary is that of the list: every
\* voucher counted once in its group, with its amount, unless it says
\* truncated.
ExactWhenQuiet ==
  Complete /\ entered = 0 /\ left = 0 =>
    /\ scanned = Len(list) /\ totalElements = Len(list)
    /\ \A g \in Groups :
         LET mine == {v \in Listed(list) : GroupOf[v] = g}
         IN  groups[g] = [count |-> Cardinality(mine),
                          sum   |-> SumOver(AmountOf, mine)]

\* Excess[v]: how often v was counted beyond the first time.
Excess == [v \in Vouchers |-> IF counted[v] > 1 THEN counted[v] - 1 ELSE 0]

\* Over a list that changes, each voucher that leaves it makes the walk miss
\* at most one other, and each that enters makes it count at most one twice.
DriftBounded ==
  Complete =>
    /\ Cardinality({v \in stayed : counted[v] = 0}) <= left
    /\ SumOver(Excess, stayed) <= entered

\* "truncated" is said exactly when the list went on behind the pages that
\* were scanned, and their number is reported right when the cap is hit.
TruncationIsHonest ==
  pc = "done" =>
    /\ truncated <=> totalElements > pagesScanned * Size
    /\ truncated => pagesScanned = MaxPages
=============================================================================
