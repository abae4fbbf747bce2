-------------------------- MODULE MCRequestBodies --------------------------
(* What callers pass, for TLC. *)
EXTENDS RequestBodies

x == Leaf("x")
y == Leaf("y")
blank == Leaf("")
O(f) == Object(f)

\* deepMergePatch() and Leaves() solve the equations of DeepMerge, here on the
\* objects of two keys with values, or with such an object under one of them.
Flat    == {O(f) : f \in UNION {[K -> {x, y}] : K \in SUBSET {"a", "b"}}}
Nested == {O([a |-> t] @@ f) : t \in Flat, f \in {NoKeys, [b |-> x], [b |-> y]}}
Trees   == {x, y} \cup Flat \cup Nested

ASSUME MergeIsDeepMerge ==
  IsDeepMerge([t \in Objects(Trees) \X Objects(Trees) |->
                 O(deepMergePatch(t[1].fields, t[2].fields))], Trees)
ASSUME LeavesAreLeaves == IsLeaves([v \in Trees |-> Leaves(v)], Trees, {"a", "b"})
ASSUME TreesAreNested ==
  IsNested(Trees, {"a", "b"},
           [v \in Trees |-> CASE v \in Nested -> 2 [] v \in Flat -> 1 [] OTHER -> 0])

MCContact ==
  [roles |-> O([customer |-> O(NoKeys)]), note |-> Text(Array(<<x>>)),
   company |-> O([name |-> x, taxNumber |-> x, extra |-> O([a |-> x, b |-> Null])]),
   addresses |-> O([billing |-> Array(<<O([street |-> x, city |-> x]), O([street |-> y])>>)]),
   additionalFields |-> O([archived |-> x, note |-> y, version |-> x])]

MCContactPatches ==
  {[id |-> x, company |-> O([taxNumber |-> y, extra |-> O([a |-> Null])])],
   [id |-> x, addresses |-> O([billing |-> Array(<<O([city |-> y])>>)]), version |-> Leaf("current")],
   [id |-> x, addresses |-> O([billing |-> Array(<<>>), shipping |-> Array(<<O([zip |-> y])>>)])],
   [id |-> x, addresses |-> O([billing |-> Array([i \in 1..3 |-> O([zip |-> x])])])],
   [id |-> x, emailAddresses |-> O([business |-> Array(<<x, y>>)]), archived |-> y],
   [id |-> x, emailAddresses |-> O([business |-> Array(<<x>>)]), roles |-> O([customer |-> O(NoKeys)])],
   [id |-> x, roles |-> O([vendor |-> O([number |-> x])]), note |-> y]}

MCArticle ==
  [title |-> x, type |-> x, unitName |-> x,
   price |-> O([leadingPrice |-> x, taxRate |-> x, netPrice |-> x]),
   additionalFields |-> O([id |-> x, extra |-> x])]

MCArticlePatches ==
  {[id |-> x, price |-> O([netPrice |-> y])], [id |-> x, title |-> y, price |-> O(NoKeys)],
   [id |-> x, gtin |-> Text(x)], [id |-> x, price |-> x]}

item == O([amount |-> x, taxAmount |-> x, taxRatePercent |-> x, categoryId |-> x])

MCVoucher ==
  [type |-> x, voucherDate |-> x, contactName |-> x, voucherItems |-> Array(<<item, item>>),
   useCollectiveContact |-> Leaf("true"), files |-> Array(<<x>>)]

MCVoucherPatches ==
  {[id |-> x, contactId |-> x], [id |-> x, contactName |-> y], [id |-> x, contactId |-> y, contactName |-> y],
   [id |-> x, voucherItems |-> Array(<<item>>), files |-> Array(<<>>)], [id |-> x, remark |-> x],
   [id |-> x, voucherStatus |-> Leaf("voided")], [id |-> x, voucherStatus |-> Leaf("open")],
   [id |-> x, contactId |-> blank], [id |-> x, contactName |-> blank],
   [id |-> x, contactId |-> blank, contactName |-> x]}
  \cup {[id |-> x, useCollectiveContact |-> Leaf(b)] : b \in {"true", "false"}}
  \cup {[id |-> x, useCollectiveContact |-> Leaf(b), contactId |-> y] : b \in {"true", "false"}}

MCDocument ==
  [voucherDate |-> x, address |-> O([name |-> x]), totalPrice |-> O(NoKeys),
   lineItems |-> Array(<<O([type |-> x, name |-> x, unitPrice |-> O([netAmount |-> x])])>>),
   taxConditions |-> O([taxType |-> x]), xRechnung |-> x,
   additionalFields |-> O([xRechnung |-> O([a |-> x]), finalize |-> x, title |-> x])]

MCDocuments ==
  {MCDocument, Without(MCDocument, {"additionalFields"}), [title |-> y] @@ MCDocument,
   [address |-> O([countryCode |-> x])] @@ MCDocument,
   [lineItems |-> Array(<<>>)] @@ MCDocument,
   [precedingSalesVoucherId |-> x], [finalize |-> Leaf("true")] @@ MCDocument}

MCArguments ==
  [t \in Creators \cup Range(Updates) |->
     CASE t = "create-contact" -> {MCContact, Without(MCContact, {"company"}),
                                   [person |-> O([lastName |-> x])] @@ Without(MCContact, {"company"})}
       [] t = "update-contact" -> MCContactPatches
       [] t = "create-article" -> {MCArticle, Without(MCArticle, {"price"})}
       [] t = "update-article" -> MCArticlePatches
       [] t = "create-voucher" -> {MCVoucher, [contactId |-> x] @@ MCVoucher, [contactId |-> blank] @@ MCVoucher,
                                   [additionalFields |-> O([contactId |-> x])] @@ MCVoucher}
       [] t = "update-voucher" -> MCVoucherPatches
       [] t = "create-finalized-invoice" ->
            {[confirm_finalize |-> c] @@ d : c \in {Leaf("true"), Leaf("false")}, d \in MCDocuments}
            \cup MCDocuments
       [] OTHER -> MCDocuments]
=============================================================================
