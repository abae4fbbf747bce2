--------------------------- MODULE RequestBodies ---------------------------
(***************************************************************************)
(* The bodies of the requests that create and update: the arguments of a   *)
(* tool call, checked against the shapes of src/tools/schemas.ts, and what *)
(* the handlers make of them with mergeBody(), deepMergePatch() and        *)
(* mergeAddresses().                                                       *)
(*                                                                         *)
(* A resource is created and then updated again and again; the version     *)
(* and the interleaving of updates are the subject of UpdateTools.         *)
(*                                                                         *)
(* JSON values are tagged.  Which scalar it is does not matter, so Leaf    *)
(* stands for all of them; Text is a string that holds JSON, in which form *)
(* some clients pass objects, arrays, numbers and booleans.                *)
(***************************************************************************)
EXTENDS DeepMerge, Naturals, SequencesExt

Leaf(x)    == [is |-> "leaf", of |-> x]
Array(s)   == [is |-> "array", items |-> s]
Text(v)    == [is |-> "text", json |-> v]
Null       == [is |-> "null"]
Rejected   == [is |-> "rejected"]

Without(f, K) == [k \in DOMAIN f \ K |-> f[k]]
Get(f, k)     == IF k \in DOMAIN f THEN f[k] ELSE Null

\* A string that is passed and not empty.
Truthy(f, k) == k \in DOMAIN f /\ f[k] # Leaf("")

-----------------------------------------------------------------------------
(* Schemas: z.string() and z.enum(), z.number() and z.boolean(), z.array(), *)
(* z.object(), and the preprocessors that also take a string.               *)

String      == [type |-> "string"]
Plain       == [type |-> "plain"]
AnyRecord   == [type |-> "record"]
ArrayOf(s)  == [type |-> "array", of |-> s, min |-> 0]
Json(s)     == [type |-> "json", of |-> s]
Strings(K)  == [k \in K |-> String]
Plains(K)   == [k \in K |-> Plain]
Shape(required, optional) ==
  [type |-> "object", fields |-> required @@ optional, required |-> DOMAIN required,
   oneOf |-> {}, defaults |-> NoKeys]

\* An object keeps the keys no field is declared for (.passthrough()).
RECURSIVE Parse(_, _)
Parse(s, v) ==
  CASE s.type = "json" -> Parse(s.of, IF v.is = "text" THEN v.json ELSE v)
    [] s.type = "string" /\ v.is \in {"leaf", "text"} -> v
    [] s.type = "plain" /\ v.is = "leaf" -> v
    [] s.type = "record" /\ v.is = "object" -> v
    [] s.type = "array" /\ v.is = "array" ->
         LET items == [i \in DOMAIN v.items |-> Parse(s.of, v.items[i])]
         IN  IF Rejected \in Range(items) \/ Len(items) < s.min THEN Rejected ELSE Array(items)
    [] s.type = "object" /\ v.is = "object" ->
         LET known  == [k \in DOMAIN v.fields \cap DOMAIN s.fields |->
                          Parse(s.fields[k], v.fields[k])]
             fields == known @@ v.fields @@ s.defaults
         IN  IF \/ Rejected \in Range(fields)
                \/ ~(s.required \subseteq DOMAIN v.fields)
                \/ s.oneOf # {} /\ s.oneOf \cap DOMAIN v.fields = {}
             THEN Rejected ELSE Object(fields)
    [] OTHER -> Rejected

\* The SDK drops the top-level keys a shape does not declare.
ParseArguments(s, f) == Parse(s, Object([k \in DOMAIN f \cap DOMAIN s.fields |-> f[k]]))

-----------------------------------------------------------------------------
(* The shapes of schemas.ts. *)

WithDefaultEUR(s) == [s EXCEPT !.defaults = [currency |-> Leaf("EUR")]]

moneySchema ==
  WithDefaultEUR(Shape(NoKeys, Strings({"currency"})
                               @@ Plains({"netAmount", "grossAmount", "taxRatePercentage"})))

lineItemSchema ==
  Shape(Strings({"type", "name"}),
        Strings({"description", "unitName"}) @@ [quantity |-> Plain, unitPrice |-> moneySchema]
        @@ [k \in {"optional", "alternative"} |-> Json(Plain)])

addressSchema ==
  [Shape(NoKeys, Strings({"contactId", "name", "countryCode"}))
     EXCEPT !.oneOf = {"contactId", "name"}]

paymentConditionsSchema ==
  Shape(NoKeys, [paymentTermLabel |-> String, paymentTermDuration |-> Plain])

baseDocumentShape ==
  Shape([voucherDate |-> String, address |-> Json(addressSchema),
         lineItems |-> Json([ArrayOf(lineItemSchema) EXCEPT !.min = 1]),
         totalPrice |-> Json(WithDefaultEUR(Shape(NoKeys, Strings({"currency"})))),
         taxConditions |-> Json(Shape(Strings({"taxType"}), NoKeys))],
        Strings({"title", "introduction", "remark"})
        @@ [paymentConditions |-> Json(paymentConditionsSchema)])

shippingConditions == [shippingConditions |-> Json(Shape(Strings({"shippingType"}), NoKeys))]

\* z.object({ ...shape, ...more }).
Extend(s, required, optional) ==
  [s EXCEPT !.fields = required @@ optional @@ @,
            !.required = (@ \ DOMAIN optional) \cup DOMAIN required]

invoiceInputShape         == Extend(baseDocumentShape, shippingConditions, NoKeys)
quotationInputShape       == Extend(baseDocumentShape, Strings({"expirationDate"}), NoKeys)
genericDocumentInputShape == Extend(baseDocumentShape, NoKeys, shippingConditions)

prices == Plains({"netPrice", "grossPrice"})

articleInputShape ==
  Shape(Strings({"title", "type", "unitName"})
        @@ [price |-> Json(Shape([leadingPrice |-> String, taxRate |-> Plain], prices))],
        Strings({"articleNumber", "gtin", "description"}))

articleUpdateShape ==
  Shape(NoKeys,
        Strings({"title", "type", "unitName", "articleNumber", "gtin", "description"})
        @@ [price |-> Json(Shape(NoKeys, [leadingPrice |-> String, taxRate |-> Plain] @@ prices))])

contactRolesSchema ==
  Shape(NoKeys, [k \in {"customer", "vendor"} |-> Shape(NoKeys, [number |-> Json(Plain)])])

contactPersonsSchema ==
  ArrayOf(Shape(NoKeys,
    Strings({"salutation", "firstName", "lastName", "emailAddress", "phoneNumber"})
    @@ [primary |-> Json(Plain)]))

StringLists(K) == Shape(NoKeys, [k \in K |-> ArrayOf(String)])

contactCompanyFields ==
  Strings({"vatRegistrationId", "taxNumber"})
  @@ [allowTaxFreeInvoices |-> Json(Plain), contactPersons |-> contactPersonsSchema]

contactAddressesSchema ==
  Shape(NoKeys, [k \in {"billing", "shipping"} |->
    ArrayOf(Shape(NoKeys, Strings({"supplement", "street", "zip", "city", "countryCode"})))])

\* The fields that create-contact and update-contact declare alike.
contactDetails ==
  [addresses |-> Json(contactAddressesSchema),
   emailAddresses |-> Json(StringLists({"business", "office", "private", "other"})),
   phoneNumbers |-> Json(StringLists({"business", "office", "mobile", "private", "fax", "other"})),
   note |-> String]

contactPersonBase == Strings({"salutation", "firstName"})

contactInputShape ==
  Shape([roles |-> Json(contactRolesSchema)],
        [person  |-> Json(Shape(Strings({"lastName"}), contactPersonBase)),
         company |-> Json(Shape(Strings({"name"}), contactCompanyFields))]
        @@ contactDetails)

contactUpdateShape ==
  Shape(NoKeys,
        [roles   |-> Json(contactRolesSchema),
         person  |-> Json(Shape(NoKeys, Strings({"lastName"}) @@ contactPersonBase)),
         company |-> Json(Shape(NoKeys, Strings({"name"}) @@ contactCompanyFields))]
        @@ contactDetails)

voucherInputShape ==
  Shape(Strings({"type", "voucherDate"}),
        Strings({"voucherStatus", "voucherNumber", "shippingDate", "dueDate", "taxType",
                 "contactId", "contactName", "remark"})
        @@ [k \in {"totalGrossAmount", "totalTaxAmount", "useCollectiveContact"} |-> Json(Plain)]
        @@ [voucherItems |-> Json(ArrayOf(
              Shape(Plains({"amount", "taxAmount", "taxRatePercent"})
                    @@ Strings({"categoryId"}), NoKeys))),
            files |-> Json(ArrayOf(String))])

voucherUpdateShape == Extend(voucherInputShape, NoKeys, Strings({"type", "voucherDate"}))

-----------------------------------------------------------------------------
(* Bodies of new resources. *)

RESERVED_BODY_KEYS == {"finalize", "confirm_finalize", "precedingSalesVoucherId", "version", "id"}

\* Faulty variant: additionalFields is merged over the typed fields.
MergeBodyOver(input, additionalFields) ==
  [k \in DOMAIN additionalFields \ RESERVED_BODY_KEYS |-> additionalFields[k]] @@ input

mergeBody(input, additionalFields) ==
  input @@ [k \in DOMAIN additionalFields \ RESERVED_BODY_KEYS |-> additionalFields[k]]

additionalFieldsParam == [additionalFields |-> Json(AnyRecord)]

Extra(in) == IF "additionalFields" \in DOMAIN in THEN in.additionalFields.fields ELSE NoKeys

\* The typed fields over the escape hatch, and version 0.
Body(in)    == mergeBody(Without(in, {"additionalFields"}), Extra(in))
NewBody(in) == Body(in) @@ [version |-> Leaf("0")]

\* A new contact is a person or a company.
ContactBody(in) ==
  IF {"person", "company"} \cap DOMAIN in = {} THEN Rejected ELSE Object(NewBody(in))

\* A new voucher with a contactId has no contactName.
VoucherBody(in) ==
  Object(IF Truthy(in, "contactId")
         THEN [useCollectiveContact |-> Leaf("false")] @@ Without(NewBody(in), {"contactName"})
         ELSE NewBody(in))

Controls == {"finalize", "confirm_finalize", "precedingSalesVoucherId"}

DraftBody(in) ==
  IF "confirm_finalize" \in DOMAIN in \/ Get(in, "finalize") = Leaf("true") THEN Rejected
  ELSE Object(Body(Without(in, Controls)))

FinalizedBody(in) ==
  IF in.confirm_finalize = Leaf("true") THEN Object(Body(Without(in, Controls))) ELSE Rejected

\* optionalShape(), and the parameters of the two tools for documents.
Drafted(s) ==
  Extend([s EXCEPT !.required = {}], NoKeys,
         [precedingSalesVoucherId |-> String, finalize |-> Json(Plain),
          confirm_finalize |-> Json(Plain)] @@ additionalFieldsParam)

Finalized(s) ==
  Extend([s EXCEPT !.required = {}], [confirm_finalize |-> Json(Plain)],
         [precedingSalesVoucherId |-> String] @@ additionalFieldsParam)

Create(tool, in) ==
  CASE tool = "create-contact" -> ContactBody(in)
    [] tool = "create-voucher" -> VoucherBody(in)
    [] tool = "create-article" -> Object(Body(in))
    [] tool = "create-finalized-invoice" -> FinalizedBody(in)
    [] OTHER -> DraftBody(in)

-----------------------------------------------------------------------------
(* Bodies of updates: the current resource with the caller's fields over it. *)

RECURSIVE deepMergePatch(_, _)
deepMergePatch(base, patch) ==
  MergeFields(base, patch, [k \in BothObjects(base, patch) |->
                              Object(deepMergePatch(base[k].fields, patch[k].fields))])

\* Faulty variant: the entries beyond those of the patch are dropped.
MergeEntriesOfPatch(base, patch) ==
  [i \in DOMAIN patch |->
     IF i \in DOMAIN base THEN Object(deepMergePatch(base[i].fields, patch[i].fields)) ELSE patch[i]]

MergeEntries(base, patch) ==
  MergeFields(base, patch, [i \in BothObjects(base, patch) |->
                              Object(deepMergePatch(base[i].fields, patch[i].fields))])

mergeAddresses(current, patch) ==
  LET cur == IF current.is = "object" THEN current.fields ELSE NoKeys
      pat == patch.fields
  IN  Object([k \in DOMAIN cur \cup DOMAIN pat |->
        IF k \notin DOMAIN pat THEN cur[k]
        ELSE IF pat[k].is # "array" THEN pat[k]
        ELSE Array(MergeEntries(IF Get(cur, k).is = "array" THEN cur[k].items ELSE <<>>,
                                pat[k].items))])

Patched(current, in) ==
  deepMergePatch(current, Without(in, {"id"}) @@ [version |-> current.version])

ContactUpdate(current, in) ==
  LET body == Patched(current, Without(in, {"addresses"}))
  IN  IF "addresses" \in DOMAIN in
      THEN [addresses |-> mergeAddresses(Get(current, "addresses"), in.addresses)] @@ body
      ELSE body

\* Of DERIVED_VOUCHER_STATUSES, the one that payments set and one that callers try.
Derived == {Leaf("paid"), Leaf("voided")}

VoucherUpdate(current, in) ==
  LET body   == Patched(current, in)
      linked ==
        CASE Truthy(in, "contactId") ->
               [useCollectiveContact |-> Leaf("false")] @@ Without(body, {"contactName"})
          [] ~Truthy(in, "contactId") /\ Truthy(in, "contactName") ->
               [useCollectiveContact |-> Leaf("true")] @@ Without(body, {"contactId"})
          [] OTHER -> body
  IN  IF "voucherStatus" \notin DOMAIN in /\ Get(linked, "voucherStatus") \in Derived
      THEN Without(linked, {"voucherStatus"}) ELSE linked

Update(tool, current, in) ==
  Object(CASE tool = "update-contact" -> ContactUpdate(current, in)
           [] tool = "update-voucher" -> VoucherUpdate(current, in)
           [] OTHER -> Patched(current, in))

-----------------------------------------------------------------------------
(* The tools and their input schemas. *)

Creates   == [contact |-> "create-contact", article |-> "create-article",
              voucher |-> "create-voucher"]
Updates   == [contact |-> "update-contact", article |-> "update-article",
              voucher |-> "update-voucher"]
Kinds     == DOMAIN Creates
Drafts    == {"create-draft-invoice", "create-draft-quotation", "create-draft-credit-note"}
Documents == Drafts \cup {"create-finalized-invoice"}
Creators  == Range(Creates) \cup Documents

ForCreate(s) == Extend(s, NoKeys, additionalFieldsParam)
ForUpdate(s) == Extend(s, Strings({"id"}), [version |-> Json(Plain)])

InputSchema(t) ==
  CASE t = "create-contact" -> ForCreate(contactInputShape)
    [] t = "create-article" -> ForCreate(articleInputShape)
    [] t = "create-voucher" -> ForCreate(voucherInputShape)
    [] t = "update-contact" -> ForUpdate(contactUpdateShape)
    [] t = "update-article" -> ForUpdate(articleUpdateShape)
    [] t = "update-voucher" -> ForUpdate(voucherUpdateShape)
    [] t = "create-draft-invoice"     -> Drafted(invoiceInputShape)
    [] t = "create-draft-quotation"   -> Drafted(quotationInputShape)
    [] t = "create-draft-credit-note" -> Drafted(genericDocumentInputShape)
    [] t = "create-finalized-invoice" -> Finalized(invoiceInputShape)

CONSTANT Arguments  \* bound: Arguments[t], what callers pass to the tool t

VARIABLES
  kind,    \* of the resource, "none" before it is created
  stored,  \* its fields in Lexware
  tool,    \* the last tool called, or "payment",
  asked,   \* the arguments its caller meant,
  sent     \* and the body of its request, Rejected if it sent none

vars == <<kind, stored, tool, asked, sent>>

Init ==
  /\ kind = "none" /\ stored = NoKeys
  /\ tool = "none" /\ asked = NoKeys /\ sent = Rejected

\* The caller passes the arguments K, which are not declared as strings, as text.
Typed(t, f)    == {k \in DOMAIN f \cap DOMAIN InputSchema(t).fields :
                     InputSchema(t).fields[k].type = "json"}
Passed(f, K)   == [k \in DOMAIN f |-> IF k \in K THEN Text(f[k]) ELSE f[k]]
Input(t, f, K) == ParseArguments(InputSchema(t), Passed(f, K))

\* Lexware refuses a body that names two contacts.
Accepts(body) ==
  /\ body # Rejected
  /\ ~(Truthy(body.fields, "contactId") /\ Truthy(body.fields, "contactName"))

Call(t, f, body) == tool' = t /\ asked' = f /\ sent' = body

CreateResource(k, f, K) ==
  LET in   == Input(Creates[k], f, K)
      body == IF in = Rejected THEN Rejected ELSE Create(Creates[k], in.fields)
  IN  /\ kind = "none"
      /\ Call(Creates[k], f, body)
      /\ IF Accepts(body)
         THEN kind' = k /\ stored' = [version |-> Leaf("current")] @@ body.fields
         ELSE UNCHANGED <<kind, stored>>

CreateDocument(t, f, K) ==
  LET in == Input(t, f, K)
  IN  /\ kind = "none"
      /\ Call(t, f, IF in = Rejected THEN Rejected ELSE Create(t, in.fields))
      /\ UNCHANGED <<kind, stored>>

\* A PUT replaces the whole resource, but for the status that payments decide,
\* which it must not contain.
UpdateResource(f, K) ==
  LET in     == Input(Updates[kind], f, K)
      body   == IF in = Rejected THEN Rejected ELSE Update(Updates[kind], stored, in.fields)
      status == [k \in {"voucherStatus"} \cap DOMAIN stored |-> stored[k]]
  IN  /\ Call(Updates[kind], f, body)
      /\ stored' = IF Accepts(body) /\ Get(body.fields, "voucherStatus") \notin Derived
                   THEN [version |-> Leaf("current")] @@ body.fields @@ status ELSE stored
      /\ UNCHANGED kind

\* Someone pays the voucher.
Payment ==
  /\ kind = "voucher" /\ stored' = [voucherStatus |-> Leaf("paid")] @@ stored
  /\ tool' = "payment" /\ asked' = NoKeys /\ sent' = Rejected
  /\ UNCHANGED kind

Next ==
  \/ \E k \in Kinds : \E f \in Arguments[Creates[k]] :
       \E K \in SUBSET Typed(Creates[k], f) : CreateResource(k, f, K)
  \/ \E t \in Documents : \E f \in Arguments[t] :
       \E K \in SUBSET Typed(t, f) : CreateDocument(t, f, K)
  \/ /\ kind # "none"
     /\ \E f \in Arguments[Updates[kind]] :
          \E K \in SUBSET Typed(Updates[kind], f) : UpdateResource(f, K)
  \/ Payment

Spec == Init /\ [][Next]_vars

-----------------------------------------------------------------------------
(* Properties.  They see a value as its leaves, each with the path to it. *)

RECURSIVE Leaves(_)
Leaves(v) == LeavesOf(v, LAMBDA w : Leaves(w))

\* Arrays as objects with the indices for keys.
RECURSIVE Opened(_)
Opened(v) ==
  CASE v.is = "object" -> Object([k \in DOMAIN v.fields |-> Opened(v.fields[k])])
    [] v.is = "array" /\ v.items # <<>> ->
         Object([k \in {ToString(i) : i \in DOMAIN v.items} |->
           Opened(v.items[CHOOSE i \in DOMAIN v.items : ToString(i) = k])])
    [] OTHER -> v

\* What the SDK lets through of the arguments, the control parameters aside.
Meant(t, f) ==
  [k \in (DOMAIN f \cap DOMAIN InputSchema(t).fields) \ (Controls \cup {"id", "version"}) |->
     f[k]]

\* Naming one contact of a voucher drops the other; an empty one names nobody.
DroppedKeys(f) ==
  CASE Truthy(f, "contactId") -> {"contactName"}
    [] ~Truthy(f, "contactId") /\ Truthy(f, "contactName") -> {"contactId"}
    [] OTHER -> {}

Outside(L, K) == {l \in L : \A k \in K : ~IsPrefix(<<k>>, l[1])}

\* The entries of the address lists are updated one by one, other lists as a whole.
Entries(f) ==
  Leaves(Object([k \in DOMAIN f |-> IF k = "addresses" THEN Opened(f[k]) ELSE f[k]]))

\* An update changes what its caller named and nothing else, however deep it
\* lies, whatever the payments made of the status meanwhile and in whichever
\* form the arguments were passed: omitted fields, the siblings of a nested
\* field, the addresses beyond those named and keys that the schemas do not
\* know survive the PUT, which replaces the whole resource.
UpdatesTouchOnlyNamed ==
  [][tool' \in Range(Updates) /\ sent' # Rejected /\ Get(asked', "voucherStatus") \notin Derived =>
       LET f       == Meant(tool', asked')
           dropped == DroppedKeys(f)
           managed == {"version"} \cup IF dropped = {} THEN {} ELSE {"useCollectiveContact"}
       IN  Outside(Entries(stored'), managed)
             = Outside(Overlay(Entries(stored), Entries(f), {Object(NoKeys), Array(<<>>)}),
                       managed \cup dropped)]_vars

\* The request that creates a resource or a document carries every value its
\* caller gave, typed ones before those of additionalFields, and no other but
\* the defaults: no control parameter gets into a body, and none gets lost
\* between the encodings of the arguments, the schemas and the merge.
CreatesWhatWasAsked ==
  tool \in Creators /\ sent # Rejected =>
    LET f     == Meant(tool, asked)
        typed == Without(f, {"additionalFields"})
        extra == IF typed = f THEN NoKeys ELSE f.additionalFields.fields
        meant == Leaves(Opened(Object(
                   typed @@ Without(extra, Controls \cup {"id", "version"}))))
        body  == Leaves(Opened(sent))
        linked == IF tool = "create-voucher" /\ Truthy(typed, "contactId")
                  THEN {"contactName", "useCollectiveContact"} ELSE {}
    IN  /\ \A l \in Outside(meant, linked) :
             l \in body \/ (l[2] = Object(NoKeys) /\ \E b \in body : IsPrefix(l[1], b[1]))
        /\ \A b \in body \ Outside(meant, linked) :
             \/ "currency" \in Range(b[1]) /\ b[2] = Leaf("EUR")
             \/ b = <<<<"version">>, Leaf("0")>>
             \/ b = <<<<"useCollectiveContact">>, Leaf("false")>> /\ linked # {}
=============================================================================
