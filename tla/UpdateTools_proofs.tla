------------------------- MODULE UpdateTools_proofs -------------------------
(***************************************************************************)
(* Theorems about UpdateTools, for any callers, any plain keys, any sets   *)
(* of keys to pass and any number of changes by others, and about the      *)
(* deepMergePatch() of DeepMerge, for objects nested to any depth.         *)
(***************************************************************************)
EXTENDS UpdateTools, DeepMerge, SequenceTheorems, WellFoundedInduction, TLAPS

IsMap(f) == f = [k \in DOMAIN f |-> f[k]]

\* A voucher as Lexware has it: every plain key, the flag and a status.
Voucher(f) ==
  /\ IsMap(f) /\ IsContent(f)
  /\ Plain \cup {"useCollectiveContact", "voucherStatus"} \subseteq DOMAIN f

\* What a caller passes.
Patch(p) == IsMap(p) /\ IsContent(p) /\ DOMAIN p # {}

\* The contents after the PUT of a body, as Accept() stores them.
Stored(f, body) == Merge([voucherStatus |-> f.voucherStatus], body)

-----------------------------------------------------------------------------
(* Contents: what the merge and the rules of update-voucher make of them. *)

\* No key with a rule is a plain key.
LEMMA KeyFacts ==
  /\ "contactId" \notin Plain /\ "contactName" \notin Plain
  /\ "useCollectiveContact" \notin Plain /\ "voucherStatus" \notin Plain
  BY UpdateAssumption DEF BookingKeys, ContactKeys

\* What a key may hold.
LEMMA DomainFacts ==
  /\ Domain("voucherStatus") = Statuses /\ Domain("useCollectiveContact") = BOOLEAN
  /\ \A k \in ContactKeys : Domain(k) = Writers \cup {Blank}
  /\ \A k \in Plain : Domain(k) = Writers
<1>1. \A k \in ContactKeys \cup Plain : k \notin {"voucherStatus", "useCollectiveContact"}
  BY KeyFacts DEF ContactKeys
<1>2. \A k \in Plain : k \notin ContactKeys
  BY KeyFacts DEF ContactKeys
<1> QED
  BY <1>1, <1>2 DEF Domain

\* Merging two contents gives a content.
LEMMA MergeFacts ==
  ASSUME NEW f, NEW p
  PROVE  /\ DOMAIN Merge(f, p) = DOMAIN f \cup DOMAIN p
         /\ \A k \in DOMAIN p : Merge(f, p)[k] = p[k]
         /\ \A k \in DOMAIN f \ DOMAIN p : Merge(f, p)[k] = f[k]
         /\ IsMap(Merge(f, p))
         /\ IsContent(f) /\ IsContent(p) => IsContent(Merge(f, p))
  BY DEF Merge, IsMap, IsContent

\* Deleting a key leaves the others.
LEMMA WithoutFacts ==
  ASSUME NEW f, NEW k
  PROVE  /\ DOMAIN Without(f, k) = DOMAIN f \ {k}
         /\ \A j \in DOMAIN f \ {k} : Without(f, k)[j] = f[j]
         /\ IsMap(Without(f, k))
         /\ IsContent(f) => IsContent(Without(f, k))
  BY DEF Without, IsMap, IsContent

\* The flag of the collective contact is a content of its own.
LEMMA FlagFacts ==
  ASSUME NEW b \in BOOLEAN
  PROVE  /\ DOMAIN [useCollectiveContact |-> b] = {"useCollectiveContact"}
         /\ [useCollectiveContact |-> b].useCollectiveContact = b
         /\ IsContent([useCollectiveContact |-> b])
<1> DEFINE g == [useCollectiveContact |-> b]
<1>1. DOMAIN g = {"useCollectiveContact"} /\ g.useCollectiveContact = b
  OBVIOUS
<1> HIDE DEF g
<1>2. g.useCollectiveContact \in BOOLEAN
  BY <1>1
<1>3. g.useCollectiveContact \in Domain("useCollectiveContact")
  BY <1>2, DomainFacts
<1>4. IsContent(g)
  BY <1>1, <1>3 DEF IsContent, Keys, BookingKeys
<1> QED
  BY <1>1, <1>4 DEF g

\* So is the status that a PUT without one leaves in place.
LEMMA StatusFacts ==
  ASSUME NEW s \in Statuses
  PROVE  /\ DOMAIN [voucherStatus |-> s] = {"voucherStatus"}
         /\ [voucherStatus |-> s].voucherStatus = s
         /\ IsContent([voucherStatus |-> s])
  BY DomainFacts DEF IsContent, Keys

\* The fields of a voucher have their types.
LEMMA VoucherFacts ==
  ASSUME NEW f, Voucher(f)
  PROVE  /\ f.voucherStatus \in Statuses /\ f.useCollectiveContact \in BOOLEAN
         /\ DOMAIN f \subseteq Keys
  BY DomainFacts DEF Voucher, IsContent

\* LinkContact() settles the contact by what the caller named, and touches no
\* other key; a caller that names nobody has its fields merged.
LEMMA LinkFacts ==
  ASSUME NEW f, Voucher(f), NEW p, Patch(p)
  PROVE  LET l == LinkContact(Merge(f, p), p)
         IN  /\ IsMap(l) /\ IsContent(l)
             /\ Plain \cup {"useCollectiveContact", "voucherStatus"} \subseteq DOMAIN l
             /\ \A k \in Plain \cup {"voucherStatus"} :
                  l[k] = IF k \in DOMAIN p THEN p[k] ELSE f[k]
             /\ Truthy(p, "contactId") =>
                  /\ "contactId" \in DOMAIN l /\ l.contactId = p.contactId
                  /\ "contactName" \notin DOMAIN l /\ l.useCollectiveContact = FALSE
             /\ ~Truthy(p, "contactId") /\ Truthy(p, "contactName") =>
                  /\ "contactName" \in DOMAIN l /\ l.contactName = p.contactName
                  /\ "contactId" \notin DOMAIN l /\ l.useCollectiveContact = TRUE
             /\ ~NamesContact(p) => l = Merge(f, p)
<1> DEFINE m == Merge(f, p)
           l == LinkContact(m, p)
           settled == /\ IsMap(l) /\ IsContent(l)
                      /\ Plain \cup {"useCollectiveContact", "voucherStatus"} \subseteq DOMAIN l
                      /\ \A k \in Plain \cup {"voucherStatus"} : l[k] = m[k]
<1>1. /\ IsMap(m) /\ IsContent(m) /\ DOMAIN m = DOMAIN f \cup DOMAIN p
      /\ \A k \in DOMAIN p : m[k] = p[k]
      /\ \A k \in DOMAIN f \ DOMAIN p : m[k] = f[k]
  BY MergeFacts DEF Voucher, Patch
<1>2. Plain \cup {"useCollectiveContact", "voucherStatus"} \subseteq DOMAIN m
  BY <1>1 DEF Voucher
<1>3. \A k \in Plain \cup {"voucherStatus"} : m[k] = IF k \in DOMAIN p THEN p[k] ELSE f[k]
  BY <1>1 DEF Voucher
<1> HIDE DEF m
<1>4. CASE Truthy(p, "contactId")
  <2> DEFINE w == Without(m, "contactName")
             g == [useCollectiveContact |-> FALSE]
  <2>1. l = Merge(w, g)
    BY <1>4 DEF LinkContact
  <2>2. /\ DOMAIN w = DOMAIN m \ {"contactName"} /\ IsContent(w)
        /\ \A k \in DOMAIN w : w[k] = m[k]
    BY <1>1, WithoutFacts
  <2>3. DOMAIN g = {"useCollectiveContact"} /\ g.useCollectiveContact = FALSE /\ IsContent(g)
    BY FlagFacts
  <2> HIDE DEF w, g, l
  <2>4. /\ DOMAIN l = DOMAIN w \cup DOMAIN g /\ IsMap(l) /\ IsContent(l)
        /\ \A k \in DOMAIN g : l[k] = g[k]
        /\ \A k \in DOMAIN w \ DOMAIN g : l[k] = w[k]
    <3>1. IsContent(Merge(w, g))
      BY <2>2, <2>3, MergeFacts
    <3>2. /\ DOMAIN Merge(w, g) = DOMAIN w \cup DOMAIN g /\ IsMap(Merge(w, g))
          /\ \A k \in DOMAIN g : Merge(w, g)[k] = g[k]
          /\ \A k \in DOMAIN w \ DOMAIN g : Merge(w, g)[k] = w[k]
      BY MergeFacts
    <3> QED
      BY <2>1, <3>1, <3>2
  <2>5. "contactId" \in DOMAIN p
    BY <1>4 DEF Truthy
  <2>6. /\ "contactId" \in DOMAIN l /\ "contactName" \notin DOMAIN l
        /\ l.contactId = p.contactId /\ l.useCollectiveContact = FALSE
    BY <1>1, <2>2, <2>3, <2>4, <2>5
  <2>7. \A k \in Plain \cup {"voucherStatus"} : k \in DOMAIN l /\ l[k] = m[k]
    BY <1>2, <2>2, <2>3, <2>4, KeyFacts
  <2>8. settled
    BY <2>3, <2>4, <2>7
  <2> QED
    BY <1>3, <1>4, <2>6, <2>8 DEF l, m, NamesContact
<1>5. CASE ~Truthy(p, "contactId") /\ Truthy(p, "contactName")
  <2> DEFINE w == Without(m, "contactId")
             g == [useCollectiveContact |-> TRUE]
  <2>1. l = Merge(w, g)
    BY <1>5 DEF LinkContact
  <2>2. /\ DOMAIN w = DOMAIN m \ {"contactId"} /\ IsContent(w)
        /\ \A k \in DOMAIN w : w[k] = m[k]
    BY <1>1, WithoutFacts
  <2>3. DOMAIN g = {"useCollectiveContact"} /\ g.useCollectiveContact = TRUE /\ IsContent(g)
    BY FlagFacts
  <2> HIDE DEF w, g, l
  <2>4. /\ DOMAIN l = DOMAIN w \cup DOMAIN g /\ IsMap(l) /\ IsContent(l)
        /\ \A k \in DOMAIN g : l[k] = g[k]
        /\ \A k \in DOMAIN w \ DOMAIN g : l[k] = w[k]
    <3>1. IsContent(Merge(w, g))
      BY <2>2, <2>3, MergeFacts
    <3>2. /\ DOMAIN Merge(w, g) = DOMAIN w \cup DOMAIN g /\ IsMap(Merge(w, g))
          /\ \A k \in DOMAIN g : Merge(w, g)[k] = g[k]
          /\ \A k \in DOMAIN w \ DOMAIN g : Merge(w, g)[k] = w[k]
      BY MergeFacts
    <3> QED
      BY <2>1, <3>1, <3>2
  <2>5. "contactName" \in DOMAIN p
    BY <1>5 DEF Truthy
  <2>6. /\ "contactName" \in DOMAIN l /\ "contactId" \notin DOMAIN l
        /\ l.contactName = p.contactName /\ l.useCollectiveContact = TRUE
    BY <1>1, <2>2, <2>3, <2>4, <2>5
  <2>7. \A k \in Plain \cup {"voucherStatus"} : k \in DOMAIN l /\ l[k] = m[k]
    BY <1>2, <2>2, <2>3, <2>4, KeyFacts
  <2>8. settled
    BY <2>3, <2>4, <2>7
  <2> QED
    BY <1>3, <1>5, <2>6, <2>8 DEF l, m, NamesContact
<1>6. CASE ~Truthy(p, "contactId") /\ ~Truthy(p, "contactName")
  <2>1. l = m
    BY <1>6 DEF LinkContact
  <2> HIDE DEF l
  <2>2. settled
    BY <1>1, <1>2, <2>1
  <2> QED
    BY <1>3, <1>6, <2>1, <2>2 DEF l, m
<1> QED
  BY <1>4, <1>5, <1>6

\* The contents of the resource after a patch.
Linked(f, p) == LinkContact(Merge(f, p), p)

\* A voucher that is patched is a voucher.
LEMMA LinkedVoucher ==
  ASSUME NEW f, Voucher(f), NEW p, Patch(p)
  PROVE  Voucher(Linked(f, p))
  BY LinkFacts DEF Linked, Voucher

\* Contents with the same booking are booked alike.
LEMMA SameBooking ==
  ASSUME NEW f, NEW g,
         \A k \in BookingKeys : /\ k \in DOMAIN f <=> k \in DOMAIN g
                                /\ k \in DOMAIN f => f[k] = g[k],
         "useCollectiveContact" \in DOMAIN f
  PROVE  Booked(f) <=> Booked(g)
<1>1. /\ "contactId" \in DOMAIN f <=> "contactId" \in DOMAIN g
      /\ "contactId" \in DOMAIN f => f.contactId = g.contactId
      /\ "contactName" \in DOMAIN f <=> "contactName" \in DOMAIN g
      /\ f.useCollectiveContact = g.useCollectiveContact
  BY DEF BookingKeys, ContactKeys
<1>2. Truthy(f, "contactId") <=> Truthy(g, "contactId")
  BY <1>1 DEF Truthy
<1> QED
  BY <1>1, <1>2 DEF Booked

\* A patch that names a contact books the voucher to it; one that passes
\* neither a contact nor the flag leaves it booked as it was.
LEMMA LinkedBooked ==
  ASSUME NEW f, Voucher(f), NEW p, Patch(p)
  PROVE  /\ NamesContact(p) => Booked(Linked(f, p))
         /\ ~NamesContact(p) /\ ~Loose(p) => (Booked(Linked(f, p)) <=> Booked(f))
<1> DEFINE l == Linked(f, p)
<1>1. CASE Truthy(p, "contactId")
  <2>1. /\ "contactId" \in DOMAIN l /\ l.contactId = p.contactId
        /\ "contactName" \notin DOMAIN l /\ l.useCollectiveContact = FALSE
    BY <1>1, LinkFacts DEF Linked
  <2> HIDE DEF l
  <2>2. Truthy(l, "contactId")
    BY <1>1, <2>1 DEF Truthy
  <2>3. Booked(l)
    BY <2>1, <2>2 DEF Booked
  <2> QED
    BY <1>1, <2>3 DEF l, NamesContact
<1>2. CASE ~Truthy(p, "contactId") /\ Truthy(p, "contactName")
  <2>1. "contactId" \notin DOMAIN l /\ l.useCollectiveContact = TRUE
    BY <1>2, LinkFacts DEF Linked
  <2> HIDE DEF l
  <2>2. Booked(l)
    BY <2>1 DEF Booked
  <2> QED
    BY <1>2, <2>2 DEF l, NamesContact
<1>3. CASE ~NamesContact(p)
  <2> SUFFICES ASSUME ~Loose(p)
               PROVE  Booked(Linked(f, p)) <=> Booked(f)
    BY <1>3
  <2>1. DOMAIN p \cap BookingKeys = {}
    BY <1>3 DEF Loose
  <2>2. l = Merge(f, p)
    BY <1>3, LinkFacts DEF Linked
  <2>3. /\ DOMAIN Merge(f, p) = DOMAIN f \cup DOMAIN p
        /\ \A k \in DOMAIN f \ DOMAIN p : Merge(f, p)[k] = f[k]
    BY MergeFacts
  <2> HIDE DEF l
  <2>4. \A k \in BookingKeys : /\ k \in DOMAIN f <=> k \in DOMAIN l
                               /\ k \in DOMAIN f => f[k] = l[k]
    BY <2>1, <2>2, <2>3
  <2>5. "useCollectiveContact" \in DOMAIN f
    BY DEF Voucher
  <2>6. Booked(f) <=> Booked(l)
    BY <2>4, <2>5, SameBooking
  <2> QED
    BY <2>6 DEF l
<1> QED
  BY <1>1, <1>2, <1>3 DEF NamesContact

\* What a caller can be told is invalid, of a patch p of the voucher f.
Contradicts(p, f) ==
  \/ "voucherStatus" \in DOMAIN p /\ p.voucherStatus \in Derived
  \/ ~NamesContact(p) /\ (Loose(p) \/ ~Booked(f))

\* A body that Lexware may refuse as invalid is one its caller asked for;
\* stored, a body is the patched voucher: what was omitted had not changed.
LEMMA BodyFacts ==
  ASSUME NEW f, Voucher(f), NEW p, Patch(p)
  PROVE  /\ IsContent(Body(f, p))
         /\ Stored(f, Body(f, p)) = Linked(f, p)
         /\ Invalid(Body(f, p)) \/ ~Booked(Body(f, p)) => Contradicts(p, f)
<1> DEFINE l == Linked(f, p)
           b == Body(f, p)
           s == [voucherStatus |-> f.voucherStatus]
           omitted == "voucherStatus" \notin DOMAIN p /\ l.voucherStatus \in Derived
<1>1. /\ IsMap(l) /\ IsContent(l)
      /\ "voucherStatus" \in DOMAIN l /\ "useCollectiveContact" \in DOMAIN l
      /\ "voucherStatus" \notin DOMAIN p => l.voucherStatus = f.voucherStatus
      /\ "voucherStatus" \in DOMAIN p => l.voucherStatus = p.voucherStatus
  <2>1. /\ IsMap(l) /\ IsContent(l)
        /\ Plain \cup {"useCollectiveContact", "voucherStatus"} \subseteq DOMAIN l
        /\ \A k \in Plain \cup {"voucherStatus"} : l[k] = IF k \in DOMAIN p THEN p[k] ELSE f[k]
    BY LinkFacts DEF Linked
  <2> HIDE DEF l
  <2> QED
    BY <2>1
<1>2. DOMAIN s = {"voucherStatus"} /\ s.voucherStatus = f.voucherStatus
  OBVIOUS
<1>3. b = IF omitted THEN Without(l, "voucherStatus") ELSE l
  BY <1>1 DEF Body, OmitDerived, Linked
<1>4. Stored(f, b) = Merge(s, b)
  BY DEF Stored
<1>5. Booked(l) \/ (~NamesContact(p) /\ (Loose(p) \/ ~Booked(f)))
  BY LinkedBooked
<1> HIDE DEF l, b, s
<1>6. /\ IsContent(b) /\ DOMAIN b \cup {"voucherStatus"} = DOMAIN l
      /\ \A k \in DOMAIN b : b[k] = l[k]
      /\ "voucherStatus" \in DOMAIN b /\ b.voucherStatus \in Derived =>
           "voucherStatus" \in DOMAIN p /\ p.voucherStatus \in Derived
      /\ "voucherStatus" \notin DOMAIN b => l.voucherStatus = f.voucherStatus
  <2>1. CASE omitted
    <3>1. /\ DOMAIN b = DOMAIN l \ {"voucherStatus"} /\ IsContent(b)
          /\ \A k \in DOMAIN l \ {"voucherStatus"} : b[k] = l[k]
      BY <1>1, <1>3, <2>1, WithoutFacts
    <3> QED
      BY <1>1, <2>1, <3>1
  <2>2. CASE ~omitted
    <3>1. b = l
      BY <1>3, <2>2
    <3> QED
      BY <1>1, <2>2, <3>1
  <2> QED
    BY <2>1, <2>2
<1>7. Merge(s, b) = l
  <2> DEFINE n == Merge(s, b)
  <2>1. /\ DOMAIN n = DOMAIN s \cup DOMAIN b /\ IsMap(n)
        /\ \A k \in DOMAIN b : n[k] = b[k]
        /\ \A k \in DOMAIN s \ DOMAIN b : n[k] = s[k]
    BY MergeFacts
  <2> HIDE DEF n
  <2>2. DOMAIN n = DOMAIN l
    BY <1>2, <1>6, <2>1
  <2>3. \A k \in DOMAIN l : n[k] = l[k]
    BY <1>2, <1>6, <2>1
  <2>4. n = l
    BY <1>1, <2>1, <2>2, <2>3 DEF IsMap
  <2> QED
    BY <2>4 DEF n
<1>8. Booked(b) <=> Booked(l)
  <2>1. "useCollectiveContact" \in DOMAIN b
    BY <1>1, <1>6
  <2>2. \A k \in BookingKeys : /\ k \in DOMAIN b <=> k \in DOMAIN l
                               /\ k \in DOMAIN b => b[k] = l[k]
    BY <1>6 DEF BookingKeys, ContactKeys
  <2> QED
    BY <2>1, <2>2, SameBooking
<1>9. Invalid(b) => ~Booked(b) \/ ("voucherStatus" \in DOMAIN b /\ b.voucherStatus \in Derived)
  BY DEF Invalid, Booked, Truthy
<1>10. Invalid(b) \/ ~Booked(b) => Contradicts(p, f)
  BY <1>5, <1>6, <1>8, <1>9 DEF Contradicts
<1> QED
  BY <1>4, <1>6, <1>7, <1>10 DEF b, l

-----------------------------------------------------------------------------
(* Contents as PatchedResource sees them: every key, there or not. *)

\* The keys of a content, with what they hold.
LEMMA WholeFacts ==
  ASSUME NEW f
  PROVE  /\ DOMAIN Whole(f) = Keys /\ IsMap(Whole(f))
         /\ \A k \in Keys : Whole(f)[k] = IF k \in DOMAIN f THEN f[k] ELSE Absent
  BY DEF Whole, IsMap

\* The keys that a patch names: to name a contact is to name all three.
LEMMA SpelledFacts ==
  ASSUME NEW p, Patch(p)
  PROVE  /\ DOMAIN Spelled(p) \subseteq Keys /\ DOMAIN Spelled(p) # {}
         /\ \A k \in Plain \cup {"voucherStatus"} :
              /\ k \in DOMAIN Spelled(p) <=> k \in DOMAIN p
              /\ k \in DOMAIN p => Spelled(p)[k] = p[k]
         /\ Truthy(p, "contactId") =>
              /\ BookingKeys \subseteq DOMAIN Spelled(p)
              /\ Spelled(p).contactId = p.contactId
              /\ Spelled(p).contactName = Absent
              /\ Spelled(p).useCollectiveContact = FALSE
         /\ ~Truthy(p, "contactId") /\ Truthy(p, "contactName") =>
              /\ BookingKeys \subseteq DOMAIN Spelled(p)
              /\ Spelled(p).contactId = Absent
              /\ Spelled(p).contactName = p.contactName
              /\ Spelled(p).useCollectiveContact = TRUE
         /\ ~NamesContact(p) => Spelled(p) = p
<1>1. DOMAIN p \subseteq Keys /\ DOMAIN p # {}
  BY DEF Patch, IsContent
<1>2. CASE Truthy(p, "contactId")
  <2> DEFINE g == [contactName |-> Absent, useCollectiveContact |-> FALSE]
             n == Merge(p, g)
  <2>1. Spelled(p) = n
    BY <1>2 DEF Spelled
  <2>2. /\ DOMAIN g = {"contactName", "useCollectiveContact"}
        /\ g.contactName = Absent /\ g.useCollectiveContact = FALSE
    OBVIOUS
  <2> HIDE DEF g
  <2>3. /\ DOMAIN n = DOMAIN p \cup DOMAIN g
        /\ \A k \in DOMAIN g : n[k] = g[k]
        /\ \A k \in DOMAIN p \ DOMAIN g : n[k] = p[k]
    BY MergeFacts
  <2> HIDE DEF n
  <2>4. "contactId" \in DOMAIN p
    BY <1>2 DEF Truthy
  <2>5. DOMAIN n \subseteq Keys /\ DOMAIN n # {} /\ BookingKeys \subseteq DOMAIN n
    BY <1>1, <2>2, <2>3, <2>4 DEF Keys, BookingKeys, ContactKeys
  <2>6. /\ n.contactId = p.contactId /\ n.contactName = Absent
        /\ n.useCollectiveContact = FALSE
    BY <2>2, <2>3, <2>4
  <2>7. \A k \in Plain \cup {"voucherStatus"} :
          /\ k \in DOMAIN n <=> k \in DOMAIN p
          /\ k \in DOMAIN p => n[k] = p[k]
    BY <2>2, <2>3, KeyFacts
  <2> QED
    BY <1>2, <2>1, <2>5, <2>6, <2>7 DEF NamesContact
<1>3. CASE ~Truthy(p, "contactId") /\ Truthy(p, "contactName")
  <2> DEFINE g == [contactId |-> Absent, useCollectiveContact |-> TRUE]
             n == Merge(p, g)
  <2>1. Spelled(p) = n
    BY <1>3 DEF Spelled
  <2>2. /\ DOMAIN g = {"contactId", "useCollectiveContact"}
        /\ g.contactId = Absent /\ g.useCollectiveContact = TRUE
    OBVIOUS
  <2> HIDE DEF g
  <2>3. /\ DOMAIN n = DOMAIN p \cup DOMAIN g
        /\ \A k \in DOMAIN g : n[k] = g[k]
        /\ \A k \in DOMAIN p \ DOMAIN g : n[k] = p[k]
    BY MergeFacts
  <2> HIDE DEF n
  <2>4. "contactName" \in DOMAIN p
    BY <1>3 DEF Truthy
  <2>5. DOMAIN n \subseteq Keys /\ DOMAIN n # {} /\ BookingKeys \subseteq DOMAIN n
    BY <1>1, <2>2, <2>3, <2>4 DEF Keys, BookingKeys, ContactKeys
  <2>6. /\ n.contactName = p.contactName /\ n.contactId = Absent
        /\ n.useCollectiveContact = TRUE
    BY <2>2, <2>3, <2>4
  <2>7. \A k \in Plain \cup {"voucherStatus"} :
          /\ k \in DOMAIN n <=> k \in DOMAIN p
          /\ k \in DOMAIN p => n[k] = p[k]
    BY <2>2, <2>3, KeyFacts
  <2> QED
    BY <1>3, <2>1, <2>5, <2>6, <2>7 DEF NamesContact
<1>4. CASE ~Truthy(p, "contactId") /\ ~Truthy(p, "contactName")
  <2>1. Spelled(p) = p
    BY <1>4 DEF Spelled
  <2> QED
    BY <1>1, <1>4, <2>1
<1> QED
  BY <1>2, <1>3, <1>4

\* A patched voucher shows the keys that the patch names over those it had.
LEMMA OverlayFacts ==
  ASSUME NEW f, Voucher(f), NEW p, Patch(p)
  PROVE  Whole(Linked(f, p)) =
           [k \in Keys |-> IF k \in DOMAIN Spelled(p) THEN Spelled(p)[k] ELSE Whole(f)[k]]
<1> DEFINE l == Linked(f, p)
           over == [k \in Keys |-> IF k \in DOMAIN Spelled(p)
                                   THEN Spelled(p)[k] ELSE Whole(f)[k]]
<1>1. /\ Plain \cup {"useCollectiveContact", "voucherStatus"} \subseteq DOMAIN l
      /\ \A k \in Plain \cup {"voucherStatus"} : l[k] = IF k \in DOMAIN p THEN p[k] ELSE f[k]
  BY LinkFacts DEF Linked
<1>2. Plain \cup {"useCollectiveContact", "voucherStatus"} \subseteq DOMAIN f
  BY DEF Voucher
<1>3. ASSUME NEW k \in Plain \cup {"voucherStatus"}
      PROVE  Whole(l)[k] = over[k]
  <2>1. k \in Keys /\ k \in DOMAIN l /\ k \in DOMAIN f
    BY <1>1, <1>2, <1>3 DEF Keys
  <2>2. Whole(l)[k] = IF k \in DOMAIN p THEN p[k] ELSE f[k]
    BY <1>1, <1>3, <2>1, WholeFacts
  <2>3. Whole(f)[k] = f[k]
    BY <2>1, WholeFacts
  <2>4. /\ k \in DOMAIN Spelled(p) <=> k \in DOMAIN p
        /\ k \in DOMAIN p => Spelled(p)[k] = p[k]
    BY <1>3, SpelledFacts
  <2> QED
    BY <2>1, <2>2, <2>3, <2>4
<1>4. ASSUME NEW k \in BookingKeys
      PROVE  Whole(l)[k] = over[k]
  <2>1. k \in Keys /\ k \in {"contactId", "contactName", "useCollectiveContact"}
    BY <1>4 DEF Keys, BookingKeys, ContactKeys
  <2>2. Whole(l)[k] = IF k \in DOMAIN l THEN l[k] ELSE Absent
    BY <2>1, WholeFacts
  <2>3. CASE Truthy(p, "contactId")
    <3>1. /\ "contactId" \in DOMAIN l /\ l.contactId = p.contactId
          /\ "contactName" \notin DOMAIN l /\ l.useCollectiveContact = FALSE
      BY <2>3, LinkFacts DEF Linked
    <3>2. /\ BookingKeys \subseteq DOMAIN Spelled(p)
          /\ Spelled(p).contactId = p.contactId /\ Spelled(p).contactName = Absent
          /\ Spelled(p).useCollectiveContact = FALSE
      BY <2>3, SpelledFacts
    <3> HIDE DEF l
    <3> QED
      BY <1>1, <1>4, <2>1, <2>2, <3>1, <3>2
  <2>4. CASE ~Truthy(p, "contactId") /\ Truthy(p, "contactName")
    <3>1. /\ "contactName" \in DOMAIN l /\ l.contactName = p.contactName
          /\ "contactId" \notin DOMAIN l /\ l.useCollectiveContact = TRUE
      BY <2>4, LinkFacts DEF Linked
    <3>2. /\ BookingKeys \subseteq DOMAIN Spelled(p)
          /\ Spelled(p).contactId = Absent /\ Spelled(p).contactName = p.contactName
          /\ Spelled(p).useCollectiveContact = TRUE
      BY <2>4, SpelledFacts
    <3> HIDE DEF l
    <3> QED
      BY <1>1, <1>4, <2>1, <2>2, <3>1, <3>2
  <2>5. CASE ~NamesContact(p)
    <3>1. l = Merge(f, p) /\ Spelled(p) = p
      BY <2>5, LinkFacts, SpelledFacts DEF Linked
    <3>2. /\ DOMAIN Merge(f, p) = DOMAIN f \cup DOMAIN p
          /\ \A j \in DOMAIN p : Merge(f, p)[j] = p[j]
          /\ \A j \in DOMAIN f \ DOMAIN p : Merge(f, p)[j] = f[j]
      BY MergeFacts
    <3>3. Whole(f)[k] = IF k \in DOMAIN f THEN f[k] ELSE Absent
      BY <2>1, WholeFacts
    <3> HIDE DEF l
    <3> QED
      BY <2>1, <2>2, <3>1, <3>2, <3>3
  <2> QED
    BY <2>3, <2>4, <2>5 DEF NamesContact
<1> HIDE DEF l
<1>5. \A k \in Keys : Whole(l)[k] = over[k]
  BY <1>3, <1>4 DEF Keys
<1>6. DOMAIN Whole(l) = Keys /\ IsMap(Whole(l))
  BY WholeFacts
<1>7. Whole(l) = over
  BY <1>5, <1>6 DEF IsMap
<1> QED
  BY <1>7 DEF l

-----------------------------------------------------------------------------
(* The inductive invariant. *)

HasRead(c) == pc[c] \in {"read", "writing"} \/ \E r \in put : r.by = c

\* What a caller asked for, and what it can have been told.
Asked(c) ==
  /\ pc[c] = "idle" => patch[c] = Nothing
  /\ pc[c] # "idle" => Patch(patch[c])
  /\ version[c] # NoVersion => version[c] <= resource.version
  /\ pc[c] # "done" => outcome[c] = "pending"
  /\ pc[c] \in {"idle", "reading", "read"} => c \notin applied

\* What a call read is the resource at some version, and the resource as it is
\* when the version still is; a version that was passed is not newer.
Snapped(c) ==
  HasRead(c) =>
    /\ Voucher(snapshot[c].content)
    /\ snapshot[c].version <= resource.version
    /\ version[c] # NoVersion => version[c] <= snapshot[c].version
    /\ snapshot[c].version = resource.version => snapshot[c].content = resource.content

\* A PUT under way is the one its call made from what it read, was not carried
\* out before, and its caller has not been told anything of it.
OnWire(r) ==
  /\ r = [by |-> r.by, version |-> SentVersion(r.by),
          body |-> Body(snapshot[r.by].content, patch[r.by])]
  /\ pc[r.by] \in {"writing", "done"}
  /\ outcome[r.by] \in {"pending", "unknown"}
  /\ r.by \notin applied

IInv ==
  /\ TypeOK
  /\ Voucher(resource.content)
  /\ \A c \in Callers : Asked(c) /\ Snapped(c)
  /\ \A r \in put : OnWire(r)
  /\ InvalidIsAskedFor

\* An account starts with a voucher booked to a contact, a name or nobody.
LEMMA InitIInv == Init => IInv
<1> SUFFICES ASSUME Init
             PROVE  IInv
  OBVIOUS
<1>1. IsContent(Nothing)
  BY DEF Nothing, IsContent
<1>2. Voucher(resource.content) /\ resource.version = 0
  <2>1. resource.content \in InitialContents /\ resource.version = 0
    BY DEF Init
  <2>2. \A f \in InitialContents : Voucher(f)
    <3> SUFFICES ASSUME NEW f \in InitialContents
                 PROVE  Voucher(f)
      OBVIOUS
    <3>1. PICK C \in {{}, {"contactId"}, {"contactName"}}, s \in {"open", "paid"} :
            f = [k \in Plain \cup C \cup {"useCollectiveContact", "voucherStatus"} |->
                   CASE k = "voucherStatus" -> s
                     [] k = "useCollectiveContact" -> "contactId" \notin C
                     [] OTHER -> 0]
      BY DEF InitialContents
    <3>2. /\ DOMAIN f = Plain \cup C \cup {"useCollectiveContact", "voucherStatus"}
          /\ f.voucherStatus = s /\ IsMap(f) /\ C \subseteq ContactKeys
      BY <3>1 DEF IsMap, ContactKeys
    <3>3. \A k \in Plain \cup C : f[k] = 0
      BY <3>1, KeyFacts DEF ContactKeys
    <3>4. f.useCollectiveContact = ("contactId" \notin C)
      BY <3>1
    <3>5. f.useCollectiveContact \in BOOLEAN
      BY <3>4
    <3>6. 0 \in Writers
      BY UpdateAssumption DEF Writers
    <3>7. DOMAIN f \subseteq Keys
      BY <3>2 DEF Keys, BookingKeys
    <3>8. \A k \in Plain \cup C : f[k] \in Domain(k)
      BY <3>2, <3>3, <3>6, DomainFacts
    <3>9. f.voucherStatus \in Domain("voucherStatus")
          /\ f.useCollectiveContact \in Domain("useCollectiveContact")
      <4>1. f.voucherStatus \in Domain("voucherStatus")
        BY <3>2, DomainFacts DEF Statuses, Derived
      <4> QED
        BY <3>5, <4>1, DomainFacts
    <3>10. IsContent(f)
      BY <3>2, <3>7, <3>8, <3>9 DEF IsContent
    <3> QED
      BY <3>2, <3>10 DEF Voucher
  <2> QED
    BY <2>1, <2>2
<1>3. TypeOK
  BY <1>1, <1>2, UpdateAssumption DEF Init, TypeOK, Voucher
<1>4. \A c \in Callers : Asked(c) /\ Snapped(c)
  BY DEF Init, Asked, Snapped, HasRead
<1>5. (\A r \in put : OnWire(r)) /\ InvalidIsAskedFor
  BY DEF Init, InvalidIsAskedFor
<1> QED
  BY <1>2, <1>3, <1>4, <1>5 DEF IInv

-----------------------------------------------------------------------------
(* Steps. *)

InvalidAsked(c) == outcome[c] = "invalid" => Contradicts(patch[c], snapshot[c].content)

\* A step that leaves a call alone, and one that only adds versions.
Untouched(d) ==
  /\ pc'[d] = pc[d] /\ patch'[d] = patch[d] /\ version'[d] = version[d]
  /\ snapshot'[d] = snapshot[d] /\ outcome'[d] = outcome[d]
  /\ d \in applied' <=> d \in applied

Grown ==
  \E m \in Nat : /\ resource'.version = m /\ resource.version <= m
                 /\ m = resource.version => resource'.content = resource.content

\* What the invariant says of a call still holds when other calls, Lexware or
\* other users take a step that leaves the call alone.
LEMMA Bystander ==
  ASSUME IInv, NEW d \in Callers, Untouched(d), NEW m \in Nat,
         resource'.version = m, resource.version <= m,
         m = resource.version => resource'.content = resource.content,
         \A r \in put' : r.by = d => r \in put
  PROVE  /\ Asked(d)' /\ Snapped(d)' /\ InvalidAsked(d)'
         /\ \A r \in put' : r.by = d => OnWire(r)'
<1>1. /\ pc'[d] = pc[d] /\ patch'[d] = patch[d] /\ version'[d] = version[d]
      /\ snapshot'[d] = snapshot[d] /\ outcome'[d] = outcome[d]
      /\ d \in applied' <=> d \in applied
  BY DEF Untouched
<1>2. Asked(d)'
  <2>1. Asked(d) /\ resource.version \in Nat /\ version[d] \in Nat \cup {NoVersion}
    BY DEF IInv, TypeOK
  <2> QED
    BY <1>1, <2>1 DEF Asked
<1>3. Snapped(d)'
  <2> SUFFICES ASSUME HasRead(d)'
               PROVE  /\ Voucher(snapshot[d].content)
                      /\ snapshot[d].version <= m
                      /\ version[d] # NoVersion => version[d] <= snapshot[d].version
                      /\ snapshot[d].version = m => snapshot[d].content = resource'.content
    BY <1>1 DEF Snapped, Voucher, IsMap, IsContent
  <2>1. HasRead(d)
    BY <1>1 DEF HasRead
  <2>2. Snapped(d) /\ resource.version \in Nat /\ snapshot[d].version \in Nat
    BY DEF IInv, TypeOK
  <2> QED
    BY <2>1, <2>2 DEF Snapped
<1>4. InvalidAsked(d)'
  <2>1. InvalidAsked(d)
    BY DEF IInv, InvalidIsAskedFor, InvalidAsked, Contradicts
  <2> QED
    BY <1>1, <2>1 DEF InvalidAsked, Contradicts, NamesContact, Loose, Truthy, Booked
<1>5. \A r \in put' : r.by = d => OnWire(r)'
  <2> SUFFICES ASSUME NEW r \in put', r.by = d
               PROVE  OnWire(r)'
    OBVIOUS
  <2>1. OnWire(r)
    BY DEF IInv
  <2>2. SentVersion(r.by)' = SentVersion(r.by)
    BY <1>1 DEF SentVersion
  <2> QED
    BY <1>1, <2>1, <2>2 DEF OnWire
<1> QED
  BY <1>2, <1>3, <1>4, <1>5

\* The same of several calls.
LEMMA Bystanders ==
  ASSUME IInv, NEW D, D \subseteq Callers, Grown,
         \A d \in D : Untouched(d),
         \A r \in put' : r.by \in D => r \in put
  PROVE  /\ \A d \in D : Asked(d)' /\ Snapped(d)' /\ InvalidAsked(d)'
         /\ \A r \in put' : r.by \in D => OnWire(r)'
<1>1. PICK m \in Nat : /\ resource'.version = m /\ resource.version <= m
                       /\ m = resource.version => resource'.content = resource.content
  BY DEF Grown
<1>2. ASSUME NEW d \in D
      PROVE  /\ Asked(d)' /\ Snapped(d)' /\ InvalidAsked(d)'
             /\ \A r \in put' : r.by = d => OnWire(r)'
  <2>1. d \in Callers /\ Untouched(d) /\ \A r \in put' : r.by = d => r \in put
    OBVIOUS
  <2> QED
    BY <1>1, <2>1, Bystander
<1>3. \A d \in D : /\ Asked(d)' /\ Snapped(d)' /\ InvalidAsked(d)'
                   /\ \A r \in put' : r.by = d => OnWire(r)'
  BY <1>2, Zenon
<1> QED
  BY <1>3, Zenon

\* What callers may pass is not empty, and nothing but the keys of a voucher.
LEMMA AskFacts ==
  ASSUME NEW K \in Asks
  PROVE  K # {} /\ K \subseteq Keys
<1>1. K \in (SUBSET Keys) \ {{}}
  BY UpdateAssumption, Zenon
<1> QED
  BY <1>1, Zenon

\* What is known of a PUT under way.
LEMMA WireFacts ==
  ASSUME IInv, NEW r \in put
  PROVE  /\ r.by \in Callers /\ r.version = SentVersion(r.by)
         /\ r.body = Body(snapshot[r.by].content, patch[r.by])
         /\ pc[r.by] \in {"writing", "done"} /\ outcome[r.by] \in {"pending", "unknown"}
         /\ r.by \notin applied
         /\ Patch(patch[r.by])
         /\ Voucher(snapshot[r.by].content)
<1>1. OnWire(r) /\ r.by \in Callers
  BY DEF IInv, TypeOK
<1> DEFINE v == SentVersion(r.by)
           b == Body(snapshot[r.by].content, patch[r.by])
<1>2. r = [by |-> r.by, version |-> v, body |-> b]
  BY <1>1 DEF OnWire
<1> HIDE DEF v, b
<1>3. r.version = v /\ r.body = b
  BY <1>2
<1>4. pc[r.by] \in {"writing", "done"} /\ outcome[r.by] \in {"pending", "unknown"}
      /\ r.by \notin applied
  BY <1>1 DEF OnWire
<1>5. Asked(r.by) /\ Snapped(r.by) /\ HasRead(r.by)
  BY <1>1 DEF IInv, HasRead
<1>6. Patch(patch[r.by]) /\ Voucher(snapshot[r.by].content)
  BY <1>4, <1>5 DEF Asked, Snapped
<1> QED
  BY <1>1, <1>3, <1>4, <1>6 DEF v, b

\* The contents stay a voucher while they stay.
LEMMA SameVoucher ==
  ASSUME Voucher(resource.content), resource'.content = resource.content
  PROVE  Voucher(resource.content)'
  BY DEF Voucher, IsMap, IsContent

\* The invariant, call by call.
LEMMA Conclude ==
  ASSUME TypeOK', Voucher(resource.content)', \A r \in put' : OnWire(r)',
         \A d \in Callers : Asked(d)' /\ Snapped(d)' /\ InvalidAsked(d)'
  PROVE  IInv'
<1>1. InvalidIsAskedFor'
  BY DEF InvalidIsAskedFor, InvalidAsked, Contradicts
<1> QED
  BY <1>1 DEF IInv

\* A call begins: nothing is known of it yet but what it asks for.
LEMMA CallStep ==
  ASSUME IInv, NEW c \in Callers, Call(c)
  PROVE  IInv'
<1>1. /\ pc[c] = "idle" /\ pc' = [pc EXCEPT ![c] = "reading"]
      /\ UNCHANGED <<resource, edits, snapshot, put, outcome, applied>>
  BY DEF Call
<1>2. PICK K \in Asks, s \in Statuses \ {"paid"}, b \in BOOLEAN, empty \in SUBSET ContactKeys :
        patch' = [patch EXCEPT ![c] = [k \in K |->
                    CASE k = "voucherStatus" -> s
                      [] k = "useCollectiveContact" -> b
                      [] k \in empty -> Blank
                      [] OTHER -> c]]
  BY DEF Call
<1>3. PICK v \in (0..resource.version) \cup {NoVersion} :
        version' = [version EXCEPT ![c] = v]
  BY DEF Call
<1>4. TypeOK /\ resource.version \in Nat
  BY DEF IInv, TypeOK
<1> DEFINE p == [k \in K |-> CASE k = "voucherStatus" -> s
                              [] k = "useCollectiveContact" -> b
                              [] k \in empty -> Blank
                              [] OTHER -> c]
<1>5. Patch(p)
  <2>1. DOMAIN p = K /\ IsMap(p)
    BY DEF IsMap
  <2>2. K # {} /\ K \subseteq Keys
    BY AskFacts
  <2>3. \A k \in K : p[k] \in Domain(k)
    <3> SUFFICES ASSUME NEW k \in K
                 PROVE  p[k] \in Domain(k)
      OBVIOUS
    <3>1. CASE k = "voucherStatus"
      BY <3>1, DomainFacts
    <3>2. CASE k = "useCollectiveContact"
      <4>1. p[k] = b
        BY <3>2 DEF ContactKeys
      <4>2. p[k] \in BOOLEAN
        BY <4>1
      <4> QED
        BY <3>2, <4>2, DomainFacts
    <3>3. CASE k \in ContactKeys
      <4>1. p[k] \in {Blank, c}
        BY <3>3 DEF ContactKeys
      <4> QED
        BY <3>3, <4>1, DomainFacts DEF Writers
    <3>4. CASE k \in Plain
      <4>1. p[k] = c
        BY <3>4, KeyFacts DEF ContactKeys
      <4> QED
        BY <3>4, <4>1, DomainFacts DEF Writers
    <3> QED
      BY <2>2, <3>1, <3>2, <3>3, <3>4 DEF Keys, BookingKeys
  <2>4. IsContent(p)
    BY <2>1, <2>2, <2>3 DEF IsContent
  <2> QED
    BY <2>1, <2>2, <2>4 DEF Patch
<1>6. patch' = [patch EXCEPT ![c] = p]
  BY <1>2
<1> HIDE DEF p
<1>7. /\ patch'[c] = p /\ version'[c] = v /\ pc'[c] = "reading"
      /\ DOMAIN patch' = Callers
      /\ \A d \in Callers \ {c} :
           patch'[d] = patch[d] /\ version'[d] = version[d] /\ pc'[d] = pc[d]
  BY <1>1, <1>3, <1>4, <1>6 DEF TypeOK
<1>8. TypeOK'
  <2>1. version' \in [Callers -> Nat \cup {NoVersion}]
    BY <1>3, <1>4 DEF TypeOK
  <2>2. \A d \in Callers : IsContent(patch'[d])
    BY <1>4, <1>5, <1>7 DEF TypeOK, Patch
  <2>3. pc' \in [Callers -> {"idle", "reading", "read", "writing", "done"}]
    BY <1>1, <1>4 DEF TypeOK
  <2> QED
    BY <1>1, <1>4, <1>7, <2>1, <2>2, <2>3 DEF TypeOK
<1>9. \A r \in put : r.by # c
  BY <1>1, WireFacts
<1>10. /\ \A d \in Callers \ {c} : Asked(d)' /\ Snapped(d)' /\ InvalidAsked(d)'
       /\ \A r \in put' : r.by \in Callers \ {c} => OnWire(r)'
  <2>1. Grown
    BY <1>1, <1>4 DEF Grown
  <2>2. \A d \in Callers \ {c} : Untouched(d)
    BY <1>1, <1>7 DEF Untouched
  <2>3. \A r \in put' : r.by \in Callers \ {c} => r \in put
    BY <1>1
  <2> QED
    BY <2>1, <2>2, <2>3, Bystanders
<1>11. Asked(c)' /\ Snapped(c)' /\ InvalidAsked(c)'
  <2>1. Asked(c) /\ outcome[c] = "pending" /\ c \notin applied
    BY <1>1 DEF IInv, Asked
  <2>2. Asked(c)'
    BY <1>1, <1>3, <1>4, <1>5, <1>7, <2>1 DEF Asked
  <2>3. Snapped(c)'
    BY <1>1, <1>7, <1>9 DEF Snapped, HasRead
  <2> QED
    BY <1>1, <2>1, <2>2, <2>3 DEF InvalidAsked
<1>12. Voucher(resource.content)'
  BY <1>1, SameVoucher DEF IInv
<1>13. \A r \in put' : OnWire(r)'
  BY <1>1, <1>9, <1>10, WireFacts
<1>14. \A d \in Callers : Asked(d)' /\ Snapped(d)' /\ InvalidAsked(d)'
  BY <1>10, <1>11, Zenon
<1> QED
  BY <1>8, <1>12, <1>13, <1>14, Conclude

\* A step of one call, or of Lexware with its PUT, keeps the invariant when it
\* keeps it of that call.
LEMMA StepOf ==
  ASSUME IInv, NEW c \in Callers, TypeOK', Grown, Voucher(resource.content)',
         \A d \in Callers \ {c} : Untouched(d),
         \A r \in put' : r.by # c => r \in put,
         Asked(c)' /\ Snapped(c)' /\ InvalidAsked(c)',
         \A r \in put' : r.by = c => OnWire(r)'
  PROVE  IInv'
<1>1. \A r \in put' : r.by \in Callers
  BY DEF TypeOK
<1>2. /\ \A d \in Callers \ {c} : Asked(d)' /\ Snapped(d)' /\ InvalidAsked(d)'
      /\ \A r \in put' : r.by \in Callers \ {c} => OnWire(r)'
  <2>1. \A r \in put' : r.by \in Callers \ {c} => r \in put
    OBVIOUS
  <2> DEFINE D == Callers \ {c}
  <2>2. D \subseteq Callers /\ (\A d \in D : Untouched(d)) /\ \A r \in put' : r.by \in D => r \in put
    BY <2>1
  <2> HIDE DEF D
  <2>3. /\ \A d \in D : Asked(d)' /\ Snapped(d)' /\ InvalidAsked(d)'
        /\ \A r \in put' : r.by \in D => OnWire(r)'
    BY <2>2, Bystanders
  <2> QED
    BY <2>3 DEF D
<1>3. \A r \in put' : OnWire(r)'
  BY <1>1, <1>2, Zenon
<1>4. \A d \in Callers : Asked(d)' /\ Snapped(d)' /\ InvalidAsked(d)'
  BY <1>2, Zenon
<1> QED
  BY <1>3, <1>4, Conclude

\* The answer of a GET is the resource as it is.
LEMMA ReadStep ==
  ASSUME IInv, NEW c \in Callers, Read(c)
  PROVE  IInv'
<1>1. /\ pc[c] = "reading" /\ pc' = [pc EXCEPT ![c] = "read"]
      /\ snapshot' = [snapshot EXCEPT ![c] = resource]
      /\ UNCHANGED <<resource, edits, patch, version, put, outcome, applied>>
  BY DEF Read
<1>2. TypeOK /\ resource.version \in Nat
  BY DEF IInv, TypeOK
<1>3. /\ pc'[c] = "read" /\ snapshot'[c] = resource /\ DOMAIN snapshot' = Callers
      /\ \A d \in Callers \ {c} : snapshot'[d] = snapshot[d] /\ pc'[d] = pc[d]
  BY <1>1, <1>2 DEF TypeOK
<1>4. Voucher(resource.content)'
  BY <1>1, SameVoucher DEF IInv
<1>5. TypeOK'
  <2>1. \A d \in Callers : snapshot'[d].version \in Nat /\ IsContent(snapshot'[d].content)
    BY <1>2, <1>3 DEF TypeOK
  <2>2. pc' \in [Callers -> {"idle", "reading", "read", "writing", "done"}]
    BY <1>1, <1>2 DEF TypeOK
  <2> QED
    BY <1>1, <1>2, <1>3, <2>1, <2>2 DEF TypeOK
<1>6. Asked(c) /\ Voucher(resource.content)
  BY DEF IInv
<1>7. Asked(c)' /\ InvalidAsked(c)'
  BY <1>1, <1>3, <1>6 DEF Asked, InvalidAsked
<1>8. Snapped(c)'
  BY <1>1, <1>2, <1>3, <1>4, <1>6 DEF Snapped, Asked
<1>9. Grown
  BY <1>1, <1>2 DEF Grown
<1>10. \A d \in Callers \ {c} : Untouched(d)
  BY <1>1, <1>3 DEF Untouched
<1>11. \A r \in put' : r \in put /\ r.by # c
  BY <1>1, WireFacts
<1> QED
  BY <1>4, <1>5, <1>7, <1>8, <1>9, <1>10, <1>11, StepOf

\* A call that gives up: all that is known of it is that it did.
LEMMA GivesUp ==
  ASSUME IInv, NEW c \in Callers, pc[c] \in {"reading", "read", "writing"},
         NEW result \in {"failed", "unknown"}, Finish(c, result),
         UNCHANGED <<resource, edits, patch, version, snapshot, put, applied>>,
         result = "failed" => pc[c] # "writing"
  PROVE  IInv'
<1>1. TypeOK /\ resource.version \in Nat
  BY DEF IInv, TypeOK
<1>2. /\ pc'[c] = "done" /\ outcome'[c] = result
      /\ \A d \in Callers \ {c} : outcome'[d] = outcome[d] /\ pc'[d] = pc[d]
  BY <1>1 DEF TypeOK, Finish
<1>3. TypeOK'
  <2>1. pc' \in [Callers -> {"idle", "reading", "read", "writing", "done"}]
    BY <1>1 DEF TypeOK, Finish
  <2>2. outcome' \in [Callers -> {"pending", "updated", "stale", "invalid", "failed", "unknown"}]
    BY <1>1 DEF TypeOK, Finish
  <2> QED
    BY <1>1, <2>1, <2>2 DEF TypeOK
<1>4. Voucher(resource.content)'
  BY SameVoucher DEF IInv
<1>5. Asked(c) /\ Snapped(c)
  BY DEF IInv
<1>6. Asked(c)' /\ InvalidAsked(c)'
  BY <1>2, <1>5 DEF Asked, InvalidAsked
<1>7. Snapped(c)'
  BY <1>2, <1>4, <1>5 DEF Snapped, HasRead
<1>8. Grown
  BY <1>1 DEF Grown
<1>9. \A d \in Callers \ {c} : Untouched(d)
  BY <1>2 DEF Untouched
<1>10. \A r \in put' : r.by # c => r \in put
  OBVIOUS
<1>11. \A r \in put' : r.by = c => OnWire(r)'
  <2> SUFFICES ASSUME NEW r \in put', r.by = c
               PROVE  OnWire(r)'
    OBVIOUS
  <2>1. OnWire(r) /\ pc[c] \in {"writing", "done"}
    BY DEF IInv, OnWire
  <2>2. SentVersion(r.by)' = SentVersion(r.by)
    BY DEF SentVersion
  <2> QED
    BY <1>2, <2>1, <2>2 DEF OnWire
<1> QED
  BY <1>3, <1>4, <1>6, <1>7, <1>8, <1>9, <1>10, <1>11, StepOf

\* The PUT of a call is made from what it read.
LEMMA WriteStep ==
  ASSUME IInv, NEW c \in Callers, Write(c)
  PROVE  IInv'
<1> DEFINE w == [by |-> c, version |-> SentVersion(c),
                 body |-> Body(snapshot[c].content, patch[c])]
<1>1. /\ pc[c] = "read" /\ pc' = [pc EXCEPT ![c] = "writing"]
      /\ put' = put \cup {w}
      /\ UNCHANGED <<resource, edits, patch, version, snapshot, outcome, applied>>
  BY DEF Write
<1>2. TypeOK /\ resource.version \in Nat
  BY DEF IInv, TypeOK
<1>3. /\ pc'[c] = "writing"
      /\ \A d \in Callers \ {c} : pc'[d] = pc[d]
  BY <1>1, <1>2 DEF TypeOK
<1>4. Voucher(resource.content)'
  BY <1>1, SameVoucher DEF IInv
<1>5. Asked(c) /\ Snapped(c) /\ HasRead(c)
  BY <1>1 DEF IInv, HasRead
<1>6. /\ Patch(patch[c]) /\ Voucher(snapshot[c].content) /\ SentVersion(c) \in Nat
      /\ outcome[c] = "pending" /\ c \notin applied
  BY <1>1, <1>2, <1>5 DEF Asked, Snapped, SentVersion, TypeOK
<1>7. IsContent(Body(snapshot[c].content, patch[c]))
  BY <1>6, BodyFacts
<1>8. w.by = c /\ w.version = SentVersion(c) /\ w.body = Body(snapshot[c].content, patch[c])
  OBVIOUS
<1>9. TypeOK'
  <2> HIDE DEF w
  <2>1. \A r \in put' : r.by \in Callers /\ r.version \in Nat /\ IsContent(r.body)
    BY <1>1, <1>2, <1>6, <1>7, <1>8 DEF TypeOK
  <2>2. pc' \in [Callers -> {"idle", "reading", "read", "writing", "done"}]
    BY <1>1, <1>2 DEF TypeOK
  <2> QED
    BY <1>1, <1>2, <2>1, <2>2 DEF TypeOK
<1>10. Asked(c)' /\ InvalidAsked(c)'
  BY <1>1, <1>3, <1>5, <1>6 DEF Asked, InvalidAsked
<1>11. Snapped(c)'
  BY <1>1, <1>4, <1>5 DEF Snapped
<1>12. Grown
  BY <1>1, <1>2 DEF Grown
<1>13. \A d \in Callers \ {c} : Untouched(d)
  BY <1>1, <1>3 DEF Untouched
<1>14. \A r \in put' : r.by # c => r \in put
  BY <1>1, <1>8
<1>15. \A r \in put' : r.by = c => OnWire(r)'
  <2> SUFFICES ASSUME NEW r \in put', r.by = c
               PROVE  OnWire(r)'
    OBVIOUS
  <2>1. r = w
    BY <1>1, WireFacts
  <2>2. SentVersion(c)' = SentVersion(c)
    BY <1>1 DEF SentVersion
  <2> QED
    BY <1>1, <1>3, <1>6, <1>8, <2>1, <2>2 DEF OnWire
<1> HIDE DEF w
<1> QED
  BY <1>4, <1>9, <1>10, <1>11, <1>12, <1>13, <1>14, <1>15, StepOf

\* An answer that arrives ends its call, one that is lost leaves it waiting.
LEMMA ReplyFacts ==
  ASSUME TypeOK, NEW c \in Callers, NEW result \in {"updated", "stale", "invalid"},
         Reply(c, result)
  PROVE  /\ pc' \in [Callers -> {"idle", "reading", "read", "writing", "done"}]
         /\ outcome' \in [Callers ->
                            {"pending", "updated", "stale", "invalid", "failed", "unknown"}]
         /\ \A d \in Callers \ {c} : pc'[d] = pc[d] /\ outcome'[d] = outcome[d]
         /\ \/ pc[c] = "writing" /\ pc'[c] = "done" /\ outcome'[c] = result
            \/ pc'[c] = pc[c] /\ outcome'[c] = outcome[c]
  BY DEF TypeOK, Reply, Finish

\* No other PUT of the same call is under way.
LEMMA OnePut ==
  ASSUME IInv, NEW r \in put, NEW q \in put, q.by = r.by
  PROVE  q = r
<1>1. OnWire(r) /\ OnWire(q)
  BY DEF IInv
<1> DEFINE w(c) == [by |-> c, version |-> SentVersion(c),
                    body |-> Body(snapshot[c].content, patch[c])]
<1>2. r = w(r.by) /\ q = w(q.by)
  BY <1>1 DEF OnWire
<1> HIDE DEF w
<1> QED
  BY <1>2

\* A PUT with the version of the resource was made from its contents, and
\* stores them patched.
LEMMA AcceptFacts ==
  ASSUME IInv, NEW r \in put, r.version = resource.version
  PROVE  /\ snapshot[r.by].version = resource.version
         /\ Stored(resource.content, r.body) = Linked(resource.content, patch[r.by])
<1> DEFINE c == r.by
<1>1. /\ c \in Callers /\ r.version = SentVersion(c)
      /\ r.body = Body(snapshot[c].content, patch[c]) /\ Patch(patch[c])
  BY WireFacts
<1>2. /\ Snapped(c) /\ HasRead(c) /\ Voucher(resource.content)
      /\ resource.version \in Nat /\ snapshot[c].version \in Nat
      /\ version[c] \in Nat \cup {NoVersion}
  BY <1>1 DEF IInv, HasRead, TypeOK
<1> HIDE DEF c
<1>3. snapshot[c].version = resource.version
  BY <1>1, <1>2 DEF Snapped, SentVersion
<1>4. snapshot[c].content = resource.content
  BY <1>2, <1>3 DEF Snapped
<1>5. Stored(resource.content, r.body) = Linked(resource.content, patch[c])
  BY <1>1, <1>2, <1>4, BodyFacts
<1> QED
  BY <1>3, <1>5 DEF c

\* Lexware carries a PUT out.
LEMMA AcceptStep ==
  ASSUME IInv, NEW r \in put, Accept(r)
  PROVE  IInv'
<1> DEFINE c == r.by
           m == resource.version + 1
           f == Linked(resource.content, patch[c])
<1>1. /\ r.version = resource.version
      /\ resource' = [version |-> resource.version + 1,
                      content |-> Stored(resource.content, r.body)]
      /\ put' = put \ {r} /\ applied' = applied \cup {c} /\ Reply(c, "updated")
      /\ UNCHANGED <<edits, patch, version, snapshot>>
  BY DEF Accept, Stored
<1>2. TypeOK /\ Voucher(resource.content) /\ resource.version \in Nat
  BY DEF IInv, TypeOK
<1>3. /\ c \in Callers /\ Patch(patch[c])
      /\ pc[c] \in {"writing", "done"} /\ outcome[c] \in {"pending", "unknown"}
  BY WireFacts
<1>4. snapshot[c].version = resource.version /\ Stored(resource.content, r.body) = f
  BY <1>1, AcceptFacts
<1>5. Voucher(f)
  BY <1>2, <1>3, LinkedVoucher
<1> HIDE DEF f, c, m
<1>6. resource'.version = m /\ resource'.content = f /\ m \in Nat /\ m > resource.version
  BY <1>1, <1>2, <1>4 DEF m
<1>7. Voucher(resource.content)'
  BY <1>5, <1>6 DEF Voucher, IsMap, IsContent
<1>8. /\ pc' \in [Callers -> {"idle", "reading", "read", "writing", "done"}]
      /\ outcome' \in [Callers ->
                         {"pending", "updated", "stale", "invalid", "failed", "unknown"}]
      /\ \A d \in Callers \ {c} : pc'[d] = pc[d] /\ outcome'[d] = outcome[d]
      /\ \/ pc[c] = "writing" /\ pc'[c] = "done" /\ outcome'[c] = "updated"
         \/ pc'[c] = pc[c] /\ outcome'[c] = outcome[c]
  BY <1>1, <1>2, <1>3, ReplyFacts
<1>9. TypeOK'
  <2>1. resource'.version \in Nat /\ IsContent(resource'.content)
    BY <1>5, <1>6 DEF Voucher
  <2>2. applied' \subseteq Callers
    BY <1>1, <1>2, <1>3 DEF TypeOK
  <2> QED
    BY <1>1, <1>2, <1>8, <2>1, <2>2 DEF TypeOK
<1>10. Asked(c) /\ Snapped(c) /\ HasRead(c)
  BY <1>3 DEF IInv, HasRead, c
<1>11. version[c] \in Nat \cup {NoVersion}
  BY <1>2, <1>3 DEF TypeOK
<1>12. Asked(c)' /\ InvalidAsked(c)'
  <2>1. version'[c] # NoVersion => version'[c] <= m
    BY <1>1, <1>2, <1>6, <1>10, <1>11 DEF Asked
  <2> QED
    BY <1>1, <1>3, <1>6, <1>8, <1>10, <2>1 DEF Asked, InvalidAsked
<1>13. Snapped(c)'
  <2>1. /\ Voucher(snapshot[c].content) /\ snapshot[c].version < m
        /\ version[c] # NoVersion => version[c] <= snapshot[c].version
    BY <1>2, <1>4, <1>6, <1>10 DEF Snapped
  <2>2. snapshot[c].version # m
    BY <1>2, <1>4, <1>6
  <2> QED
    BY <1>1, <1>2, <1>4, <1>6, <2>1, <2>2 DEF Snapped, Voucher, IsMap, IsContent
<1>14. Grown
  BY <1>2, <1>6 DEF Grown
<1>15. \A d \in Callers \ {c} : Untouched(d)
  BY <1>1, <1>8 DEF Untouched
<1>16. \A q \in put' : q \in put /\ q.by # c
  BY <1>1, OnePut DEF c
<1> QED
  BY <1>3, <1>7, <1>9, <1>12, <1>13, <1>14, <1>15, <1>16, StepOf

\* Lexware refuses a PUT: one that is not stale, for what its caller passed.
LEMMA RefuseStep ==
  ASSUME IInv, NEW r \in put, Refuse(r)
  PROVE  IInv'
<1> DEFINE c == r.by
<1>1. /\ \/ Reply(c, "stale")
         \/ (Invalid(r.body) \/ ~Booked(r.body)) /\ Reply(c, "invalid")
      /\ put' = put \ {r}
      /\ UNCHANGED <<resource, edits, patch, version, snapshot, applied>>
  BY DEF Refuse
<1>2. TypeOK /\ resource.version \in Nat
  BY DEF IInv, TypeOK
<1>3. /\ c \in Callers /\ Patch(patch[c]) /\ Voucher(snapshot[c].content)
      /\ r.body = Body(snapshot[c].content, patch[c])
      /\ outcome[c] \in {"pending", "unknown"}
  BY WireFacts
<1>4. Invalid(r.body) \/ ~Booked(r.body) => Contradicts(patch[c], snapshot[c].content)
  BY <1>3, BodyFacts
<1>5. Asked(c) /\ Snapped(c) /\ HasRead(c)
  BY <1>3 DEF IInv, HasRead
<1> HIDE DEF c
<1>6. /\ pc' \in [Callers -> {"idle", "reading", "read", "writing", "done"}]
      /\ outcome' \in [Callers ->
                         {"pending", "updated", "stale", "invalid", "failed", "unknown"}]
      /\ \A d \in Callers \ {c} : pc'[d] = pc[d] /\ outcome'[d] = outcome[d]
      /\ \/ pc[c] = "writing" /\ pc'[c] = "done" /\ outcome'[c] \in {"stale", "invalid"}
         \/ pc'[c] = pc[c] /\ outcome'[c] = outcome[c]
      /\ outcome'[c] = "invalid" => Invalid(r.body) \/ ~Booked(r.body)
  <2>1. CASE Reply(c, "stale")
    BY <1>2, <1>3, <2>1, ReplyFacts
  <2>2. CASE (Invalid(r.body) \/ ~Booked(r.body)) /\ Reply(c, "invalid")
    BY <1>2, <1>3, <2>2, ReplyFacts
  <2> QED
    BY <1>1, <2>1, <2>2
<1>7. Voucher(resource.content)'
  BY <1>1, SameVoucher DEF IInv
<1>8. TypeOK'
  BY <1>1, <1>2, <1>6 DEF TypeOK
<1>9. Asked(c)'
  BY <1>1, <1>5, <1>6 DEF Asked
<1>10. InvalidAsked(c)'
  BY <1>1, <1>4, <1>6
     DEF InvalidAsked, Contradicts, NamesContact, Loose, Truthy, Booked
<1>11. Snapped(c)'
  BY <1>1, <1>5, <1>7 DEF Snapped, Voucher, IsMap, IsContent
<1>12. Grown
  BY <1>1, <1>2 DEF Grown
<1>13. \A d \in Callers \ {c} : Untouched(d)
  BY <1>1, <1>6 DEF Untouched
<1>14. \A q \in put' : q \in put /\ q.by # c
  BY <1>1, OnePut DEF c
<1> QED
  BY <1>3, <1>7, <1>8, <1>9, <1>10, <1>11, <1>12, <1>13, <1>14, StepOf

\* Another user's change leaves a voucher, and every call where it was.
LEMMA ChangeStep ==
  ASSUME IInv, NEW f, Voucher(f), Change(f)
  PROVE  IInv'
<1> DEFINE m == resource.version + 1
<1>1. /\ edits' = edits + 1 /\ edits < MaxEdits
      /\ resource' = [version |-> m, content |-> f]
      /\ UNCHANGED <<pc, patch, version, snapshot, put, outcome, applied>>
  BY DEF Change
<1>2. TypeOK /\ resource.version \in Nat /\ edits \in 0..MaxEdits
  BY DEF IInv, TypeOK
<1>3. m \in Nat /\ m > resource.version
  BY <1>2
<1> HIDE DEF m
<1>4. resource'.version = m /\ resource'.content = f
  BY <1>1
<1>5. Voucher(resource.content)'
  BY <1>4 DEF Voucher, IsMap, IsContent
<1>6. TypeOK'
  <2>1. edits' \in 0..MaxEdits
    BY <1>1, <1>2, UpdateAssumption
  <2>2. resource'.version \in Nat /\ IsContent(resource'.content)
    BY <1>3, <1>4 DEF Voucher
  <2> QED
    BY <1>1, <1>2, <2>1, <2>2 DEF TypeOK
<1>7. Grown
  BY <1>2, <1>3, <1>4 DEF Grown
<1>8. \A d \in Callers : Untouched(d)
  BY <1>1 DEF Untouched
<1>9. \A r \in put' : r \in put /\ r.by \in Callers
  BY <1>1, <1>2 DEF TypeOK
<1>10. /\ \A d \in Callers : Asked(d)' /\ Snapped(d)' /\ InvalidAsked(d)'
       /\ \A r \in put' : r.by \in Callers => OnWire(r)'
  BY <1>7, <1>8, <1>9, Bystanders
<1>11. \A r \in put' : OnWire(r)'
  BY <1>9, <1>10, Zenon
<1> QED
  BY <1>5, <1>6, <1>10, <1>11, Conclude

\* What the web app and a payment make of a voucher is a voucher.
LEMMA EditFacts ==
  ASSUME NEW f, Voucher(f), edits \in 0..MaxEdits, edits < MaxEdits
  PROVE  /\ \A k \in Plain : Voucher(Merge(f, [j \in {k} |-> edits + 1]))
         /\ \A k \in ContactKeys : Voucher(Rebooked(f, k, edits + 1))
         /\ Voucher(Merge(f, [voucherStatus |-> "paid"]))
<1>1. edits + 1 \in Writers
  BY UpdateAssumption DEF Writers
<1>2. ASSUME NEW p, IsContent(p)
      PROVE  Voucher(Merge(f, p))
  BY <1>2, MergeFacts DEF Voucher
<1>3. ASSUME NEW k \in Plain
      PROVE  Voucher(Merge(f, [j \in {k} |-> edits + 1]))
  <2>1. IsContent([j \in {k} |-> edits + 1])
    BY <1>1, <1>3, DomainFacts DEF IsContent, Keys
  <2> QED
    BY <1>2, <2>1
<1>4. Voucher(Merge(f, [voucherStatus |-> "paid"]))
  <2>1. IsContent([voucherStatus |-> "paid"])
    BY StatusFacts DEF Statuses, Derived
  <2> QED
    BY <1>2, <2>1
<1>5. ASSUME NEW k \in ContactKeys
      PROVE  Voucher(Rebooked(f, k, edits + 1))
  <2> DEFINE g == Rebooked(f, k, edits + 1)
  <2>1. /\ DOMAIN g = (DOMAIN f \ ContactKeys) \cup {k, "useCollectiveContact"} /\ IsMap(g)
        /\ g[k] = edits + 1 /\ g.useCollectiveContact = (k = "contactName")
        /\ \A j \in DOMAIN f \ BookingKeys : g[j] = f[j]
    BY <1>5 DEF Rebooked, IsMap, BookingKeys, ContactKeys
  <2>2. g.useCollectiveContact \in BOOLEAN
    BY <2>1
  <2> HIDE DEF g
  <2>3. DOMAIN g \subseteq Keys
    BY <1>5, <2>1 DEF Voucher, IsContent, Keys, BookingKeys
  <2>4. \A j \in DOMAIN g : g[j] \in Domain(j)
    <3>1. g[k] \in Domain(k) /\ g.useCollectiveContact \in Domain("useCollectiveContact")
      BY <1>1, <1>5, <2>1, <2>2, DomainFacts
    <3>2. \A j \in DOMAIN f \ BookingKeys : g[j] \in Domain(j)
      BY <2>1 DEF Voucher, IsContent
    <3>3. DOMAIN g \subseteq (DOMAIN f \ BookingKeys) \cup {k, "useCollectiveContact"}
      BY <2>1 DEF BookingKeys
    <3> QED
      BY <3>1, <3>2, <3>3
  <2>5. Plain \cup {"useCollectiveContact", "voucherStatus"} \subseteq DOMAIN g
    BY <2>1, KeyFacts DEF Voucher, ContactKeys
  <2> QED
    BY <2>1, <2>3, <2>4, <2>5 DEF Voucher, IsContent, g
<1> QED
  BY <1>3, <1>4, <1>5

\* None of them unbooks a voucher.
LEMMA EditBooked ==
  ASSUME NEW f, Voucher(f), edits \in 0..MaxEdits, edits < MaxEdits
  PROVE  /\ \A k \in Plain : Booked(Merge(f, [j \in {k} |-> edits + 1])) <=> Booked(f)
         /\ \A k \in ContactKeys : Booked(Rebooked(f, k, edits + 1))
         /\ Booked(Merge(f, [voucherStatus |-> "paid"])) <=> Booked(f)
<1>1. ASSUME NEW p, DOMAIN p \cap BookingKeys = {}
      PROVE  Booked(Merge(f, p)) <=> Booked(f)
  <2>1. /\ DOMAIN Merge(f, p) = DOMAIN f \cup DOMAIN p
        /\ \A k \in DOMAIN f \ DOMAIN p : Merge(f, p)[k] = f[k]
    BY MergeFacts
  <2>2. \A k \in BookingKeys : /\ k \in DOMAIN f <=> k \in DOMAIN Merge(f, p)
                               /\ k \in DOMAIN f => f[k] = Merge(f, p)[k]
    BY <1>1, <2>1
  <2>3. "useCollectiveContact" \in DOMAIN f
    BY DEF Voucher
  <2> QED
    BY <2>2, <2>3, SameBooking
<1>2. ASSUME NEW k \in Plain
      PROVE  Booked(Merge(f, [j \in {k} |-> edits + 1])) <=> Booked(f)
  <2>1. DOMAIN [j \in {k} |-> edits + 1] \cap BookingKeys = {}
    BY <1>2, KeyFacts DEF BookingKeys, ContactKeys
  <2> QED
    BY <1>1, <2>1
<1>3. Booked(Merge(f, [voucherStatus |-> "paid"])) <=> Booked(f)
  <2>1. DOMAIN [voucherStatus |-> "paid"] \cap BookingKeys = {}
    BY DEF BookingKeys, ContactKeys
  <2> QED
    BY <1>1, <2>1
<1>4. ASSUME NEW k \in ContactKeys
      PROVE  Booked(Rebooked(f, k, edits + 1))
  <2> DEFINE g == Rebooked(f, k, edits + 1)
  <2>1. /\ DOMAIN g = (DOMAIN f \ ContactKeys) \cup {k, "useCollectiveContact"}
        /\ g[k] = edits + 1 /\ g.useCollectiveContact = (k = "contactName")
    BY <1>4 DEF Rebooked, ContactKeys
  <2> HIDE DEF g
  <2>2. edits + 1 # Blank
    BY UpdateAssumption
  <2>3. CASE k = "contactId"
    BY <2>1, <2>2, <2>3 DEF Booked, Truthy, ContactKeys, g
  <2>4. CASE k = "contactName"
    BY <2>1, <2>4 DEF Booked, ContactKeys, g
  <2> QED
    BY <1>4, <2>3, <2>4 DEF ContactKeys
<1> QED
  BY <1>2, <1>3, <1>4

\* Every step keeps the invariant.
LEMMA NextIInv == IInv /\ [Next]_vars => IInv'
<1> SUFFICES ASSUME IInv, [Next]_vars
             PROVE  IInv'
  OBVIOUS
<1>1. ASSUME NEW c \in Callers, Call(c)
      PROVE  IInv'
  BY <1>1, CallStep
<1>2. ASSUME NEW c \in Callers, Read(c)
      PROVE  IInv'
  BY <1>2, ReadStep
<1>3. ASSUME NEW c \in Callers, ReadFails(c)
      PROVE  IInv'
  BY <1>3, GivesUp DEF ReadFails
<1>4. ASSUME NEW c \in Callers, Write(c)
      PROVE  IInv'
  BY <1>4, WriteStep
<1>5. ASSUME NEW c \in Callers, WriteFails(c)
      PROVE  IInv'
  BY <1>5, GivesUp DEF WriteFails
<1>6. ASSUME NEW r \in put, Accept(r)
      PROVE  IInv'
  BY <1>6, AcceptStep
<1>7. ASSUME NEW r \in put, Refuse(r)
      PROVE  IInv'
  BY <1>7, RefuseStep
<1>8. ASSUME NEW f, Change(f), Voucher(f)
      PROVE  IInv'
  BY <1>8, ChangeStep
<1>9. /\ \A k \in Plain : WebEdit(k) => IInv'
      /\ \A k \in ContactKeys : Rebook(k) => IInv'
      /\ Payment => IInv'
  <2>1. Voucher(resource.content) /\ edits \in 0..MaxEdits
    BY DEF IInv, TypeOK
  <2>2. ASSUME NEW k \in Plain, WebEdit(k)
        PROVE  IInv'
    <3>1. edits < MaxEdits
      BY <2>2 DEF WebEdit, Change
    <3> QED
      BY <1>8, <2>1, <2>2, <3>1, EditFacts DEF WebEdit
  <2>3. ASSUME NEW k \in ContactKeys, Rebook(k)
        PROVE  IInv'
    <3>1. edits < MaxEdits
      BY <2>3 DEF Rebook, Change
    <3> QED
      BY <1>8, <2>1, <2>3, <3>1, EditFacts DEF Rebook
  <2>4. ASSUME Payment
        PROVE  IInv'
    <3>1. edits < MaxEdits
      BY <2>4 DEF Payment, Change
    <3> QED
      BY <1>8, <2>1, <2>4, <3>1, EditFacts DEF Payment
  <2> QED
    BY <2>2, <2>3, <2>4
<1>10. CASE UNCHANGED vars
  <2>1. TypeOK' /\ \A r \in put' : r \in put /\ r.by \in Callers
    BY <1>10 DEF IInv, TypeOK, vars
  <2>2. Grown
    BY <1>10 DEF IInv, TypeOK, vars, Grown
  <2>3. \A d \in Callers : Untouched(d)
    BY <1>10 DEF Untouched, vars
  <2>4. Voucher(resource.content)'
    BY <1>10, SameVoucher DEF IInv, vars
  <2>5. /\ \A d \in Callers : Asked(d)' /\ Snapped(d)' /\ InvalidAsked(d)'
        /\ \A r \in put' : r.by \in Callers => OnWire(r)'
    BY <2>1, <2>2, <2>3, Bystanders
  <2>6. \A r \in put' : OnWire(r)'
    BY <2>1, <2>5, Zenon
  <2> QED
    BY <2>1, <2>4, <2>5, <2>6, Conclude
<1> QED
  BY <1>1, <1>2, <1>3, <1>4, <1>5, <1>6, <1>7, <1>9, <1>10 DEF Next, Finished

\* The invariant holds of every behaviour.
LEMMA Invariance == Spec => []IInv
  BY InitIInv, NextIInv, PTL DEF Spec

-----------------------------------------------------------------------------
(* The theorems. *)

\* The variables have their types, with every content a legal one.
THEOREM TypeCorrect == Spec => []TypeOK
<1>1. IInv => TypeOK
  BY DEF IInv
<1> QED
  BY <1>1, Invariance, PTL

\* Lexware refuses a body as invalid only for what its caller passed, or because
\* the voucher was booked to nobody before; never when the caller names a
\* contact and no payment-derived status.
THEOREM InvalidIsAskedForCorrect == Spec => []InvalidIsAskedFor
<1>1. IInv => InvalidIsAskedFor
  BY DEF IInv
<1> QED
  BY <1>1, Invariance, PTL

\* A voucher stays booked to one contact, whoever updates it together with whom,
\* but for an update that passes the flag or an empty contact and names nobody.
THEOREM OneContactCorrect == Spec => OneContact
<1> DEFINE kept == Booked(resource.content) /\ ~Booked(resource'.content) =>
                     \E c \in applied' \ applied : Loose(patch[c])
           booked == \A c \in applied' \ applied :
                       NamesContact(patch[c]) => Booked(resource'.content)
<1>1. ASSUME IInv, NEW r \in put, Accept(r)
      PROVE  kept /\ booked
  <2>1. /\ r.version = resource.version /\ applied' = applied \cup {r.by}
        /\ resource' = [version |-> resource.version + 1,
                        content |-> Stored(resource.content, r.body)]
    BY <1>1 DEF Accept, Stored
  <2>2. Voucher(resource.content) /\ Patch(patch[r.by]) /\ r.by \notin applied
    BY <1>1, WireFacts DEF IInv
  <2>3. resource'.content = Linked(resource.content, patch[r.by])
    BY <1>1, <2>1, AcceptFacts
  <2>4. applied' \ applied = {r.by}
    BY <2>1, <2>2
  <2>5. /\ NamesContact(patch[r.by]) => Booked(resource'.content)
        /\ Booked(resource.content) /\ ~Booked(resource'.content) => Loose(patch[r.by])
    BY <2>2, <2>3, LinkedBooked
  <2> QED
    BY <2>4, <2>5
<1>2. ASSUME NEW f, Change(f), Booked(resource.content) => Booked(f)
      PROVE  kept /\ booked
  <2>1. resource'.content = f /\ applied' = applied
    BY <1>2 DEF Change
  <2> QED
    BY <1>2, <2>1
<1>3. ASSUME UNCHANGED <<resource, applied>>
      PROVE  kept /\ booked
  BY <1>3
<1>4. IInv /\ [Next]_vars => [kept /\ booked]_vars
  <2> SUFFICES ASSUME IInv, Next
               PROVE  kept /\ booked
    OBVIOUS
  <2> HIDE DEF kept, booked
  <2>1. Voucher(resource.content) /\ edits \in 0..MaxEdits
    BY DEF IInv, TypeOK
  <2>2. ASSUME NEW k \in Plain, WebEdit(k)
        PROVE  kept /\ booked
    <3>1. edits < MaxEdits
      BY <2>2 DEF WebEdit, Change
    <3> QED
      BY <1>2, <2>1, <2>2, <3>1, EditBooked DEF WebEdit
  <2>3. ASSUME NEW k \in ContactKeys, Rebook(k)
        PROVE  kept /\ booked
    <3>1. edits < MaxEdits
      BY <2>3 DEF Rebook, Change
    <3> QED
      BY <1>2, <2>1, <2>3, <3>1, EditBooked DEF Rebook
  <2>4. ASSUME Payment
        PROVE  kept /\ booked
    <3>1. edits < MaxEdits
      BY <2>4 DEF Payment, Change
    <3> QED
      BY <1>2, <2>1, <2>4, <3>1, EditBooked DEF Payment
  <2>5. ASSUME NEW c \in Callers, Call(c) \/ Read(c) \/ ReadFails(c) \/ Write(c) \/ WriteFails(c)
        PROVE  kept /\ booked
    BY <1>3, <2>5 DEF Call, Read, ReadFails, Write, WriteFails
  <2>6. ASSUME NEW r \in put, Refuse(r)
        PROVE  kept /\ booked
    BY <1>3, <2>6 DEF Refuse
  <2> QED
    BY <1>1, <1>3, <2>2, <2>3, <2>4, <2>5, <2>6 DEF Next, Finished, vars
<1> QED
  BY <1>4, Invariance, PTL DEF Spec, OneContact

\* A caller that passes a version changes that version or nothing.
THEOREM ExplicitVersionGuardsCorrect == Spec => ExplicitVersionGuards
<1> DEFINE Guarded ==
      \A c \in Callers :
        c \in applied' \ applied /\ version[c] # NoVersion => resource.version = version[c]
<1>1. IInv /\ [Next]_vars => [Guarded]_vars
  <2> SUFFICES ASSUME IInv, Next, NEW c \in Callers, c \in applied', c \notin applied,
                      version[c] # NoVersion
               PROVE  resource.version = version[c]
    OBVIOUS
  <2>1. PICK r \in put : Accept(r)
    BY DEF Next, Finished, vars, Call, Read, ReadFails, Write, WriteFails, Refuse,
           WebEdit, Rebook, Payment, Change
  <2>2. r.by = c /\ r.version = resource.version
    BY <2>1 DEF Accept
  <2>3. r.version = SentVersion(c)
    BY <2>2, WireFacts
  <2> QED
    BY <2>2, <2>3 DEF SentVersion
<1> QED
  BY <1>1, Invariance, PTL DEF Spec, ExplicitVersionGuards
-----------------------------------------------------------------------------
(* The update tools implement PatchedResource. *)

AskedFields == [c \in Callers |-> Spelled(patch[c])]

\* What the abstract variables are after a step.
LEMMA NextFields ==
  /\ Whole(resource.content)' = Whole(resource'.content)
  /\ AskedFields' = [c \in Callers |-> Spelled(patch'[c])]
  BY DEF AskedFields, Whole, Spelled, Truthy, Merge

\* Who has not called yet asks for nothing, and nobody else does.
LEMMA NothingAsked ==
  ASSUME IInv, NEW c \in Callers
  PROVE  /\ AskedFields[c] = Spelled(patch[c])
         /\ AskedFields[c] = Patched!Nothing <=> pc[c] = "idle"
<1>1. Asked(c)
  BY DEF IInv
<1>2. AskedFields[c] = Spelled(patch[c])
  BY DEF AskedFields
<1>3. CASE pc[c] = "idle"
  <2>1. patch[c] = Nothing
    BY <1>1, <1>3 DEF Asked
  <2>2. Spelled(Nothing) = Patched!Nothing
    BY DEF Spelled, Truthy, Nothing, Patched!Nothing
  <2> QED
    BY <1>2, <1>3, <2>1, <2>2
<1>4. CASE pc[c] # "idle"
  <2>1. DOMAIN Spelled(patch[c]) # {}
    BY <1>1, <1>4, SpelledFacts DEF Asked
  <2>2. DOMAIN Patched!Nothing = {}
    BY DEF Patched!Nothing
  <2> QED
    BY <1>2, <1>4, <2>1, <2>2
<1> QED
  BY <1>3, <1>4

\* An account starts as PatchedResource does.
LEMMA RefinesInit == Init => Patched!Init
<1> SUFFICES ASSUME Init
             PROVE  Patched!Init
  OBVIOUS
<1>1. IInv
  BY InitIInv
<1>2. DOMAIN Whole(resource.content) = Keys
  BY WholeFacts
<1>3. \A c \in Callers : AskedFields[c] = Patched!Nothing
  BY <1>1, NothingAsked DEF Init
<1>4. AskedFields = [c \in Callers |-> Patched!Nothing]
  BY <1>3 DEF AskedFields
<1> QED
  BY <1>2, <1>4 DEF Patched!Init, Init, AskedFields

\* A call asks for the fields its caller passed.
LEMMA RefinesCall ==
  ASSUME IInv, IInv', NEW c \in Callers, Call(c)
  PROVE  Patched!Ask(c)
<1>1. /\ pc[c] = "idle" /\ pc' = [pc EXCEPT ![c] = "reading"]
      /\ UNCHANGED <<resource, applied, outcome>>
  BY DEF Call
<1>2. \A d \in Callers \ {c} : patch'[d] = patch[d]
  BY DEF Call, IInv, TypeOK
<1>3. pc'[c] = "reading"
  BY <1>1 DEF IInv, TypeOK
<1>4. Patch(patch'[c])
  <2>1. Asked(c)'
    BY DEF IInv
  <2> QED
    BY <1>3, <2>1 DEF Asked, Patch, IsMap, IsContent
<1>5. DOMAIN Spelled(patch'[c]) \subseteq Keys
  BY <1>4, SpelledFacts
<1>6. AskedFields[c] = Patched!Nothing
  BY <1>1, NothingAsked
<1> DEFINE after == [d \in Callers |-> Spelled(patch'[d])]
<1>7. AskedFields' = after
  BY NextFields
<1>8. after = [AskedFields EXCEPT ![c] = after[c]]
  BY <1>2 DEF AskedFields
<1>9. DOMAIN after[c] \subseteq Keys
  BY <1>5
<1> HIDE DEF after
<1>10. Whole(resource.content)' = Whole(resource.content)
  BY <1>1, NextFields
<1>11. /\ AskedFields[c] = Patched!Nothing
       /\ DOMAIN AskedFields'[c] \subseteq Keys
       /\ AskedFields' = [AskedFields EXCEPT ![c] = AskedFields'[c]]
  BY <1>6, <1>7, <1>8, <1>9
<1> QED
  BY <1>1, <1>10, <1>11 DEF Patched!Ask, AskedFields

\* A PUT that is carried out changes the fields its caller passed, in what the
\* resource then is.
LEMMA RefinesAccept ==
  ASSUME IInv, NEW r \in put, Accept(r)
  PROVE  Patched!Apply(r.by)
<1> DEFINE c == r.by
           f == resource.content
           l == Linked(f, patch[c])
<1>1. /\ r.version = resource.version
      /\ resource' = [version |-> resource.version + 1, content |-> Stored(f, r.body)]
      /\ applied' = applied \cup {c} /\ Reply(c, "updated") /\ UNCHANGED patch
  BY DEF Accept, Stored
<1>2. /\ c \in Callers /\ c \notin applied /\ Patch(patch[c])
      /\ pc[c] \in {"writing", "done"} /\ outcome[c] \in {"pending", "unknown"}
  BY WireFacts
<1>3. Voucher(f) /\ TypeOK
  BY DEF IInv
<1>4. Stored(f, r.body) = l
  BY <1>1, AcceptFacts
<1>5. Whole(l) = [k \in Keys |-> IF k \in DOMAIN Spelled(patch[c])
                                        THEN Spelled(patch[c])[k] ELSE Whole(f)[k]]
  BY <1>2, <1>3, OverlayFacts
<1> HIDE DEF l, f, c
<1>6. resource'.content = l
  BY <1>1, <1>4
<1>7. AskedFields[c] = Spelled(patch[c]) /\ AskedFields[c] # Patched!Nothing
  BY <1>2, NothingAsked
<1>8. Whole(f)' =
        [k \in Keys |-> IF k \in DOMAIN AskedFields[c]
                          THEN AskedFields[c][k] ELSE Whole(f)[k]]
  BY <1>5, <1>6, <1>7, NextFields DEF f
<1>9. outcome' \in {outcome, [outcome EXCEPT ![c] = IF @ = "pending" THEN "updated" ELSE @]}
  <2>1. CASE pc[c] = "writing" /\ Finish(c, "updated")
    <3>1. Asked(c)
      BY <1>2 DEF IInv
    <3>2. outcome[c] = "pending"
      BY <2>1, <3>1 DEF Asked
    <3> QED
      BY <2>1, <3>2 DEF Finish
  <2>2. CASE UNCHANGED <<pc, outcome>>
    BY <2>2
  <2> QED
    BY <1>1, <2>1, <2>2 DEF Reply
<1>10. AskedFields' = AskedFields
  BY <1>1, NextFields DEF AskedFields
<1> QED
  BY <1>1, <1>2, <1>7, <1>8, <1>9, <1>10 DEF Patched!Apply, AskedFields, f, c

\* A caller is told of a refusal, or gives up, once.
LEMMA RefinesTell ==
  ASSUME IInv, NEW c \in Callers, outcome[c] = "pending",
         NEW result \in {"stale", "invalid", "failed", "unknown"},
         result \in {"stale", "invalid"} => c \notin applied,
         outcome' = [outcome EXCEPT ![c] = result],
         UNCHANGED <<resource, patch, applied>>
  PROVE  Patched!Tell(c)
<1>1. AskedFields' = AskedFields /\ Whole(resource.content)' = Whole(resource.content)
  BY NextFields DEF AskedFields
<1> QED
  BY <1>1 DEF Patched!Tell, AskedFields

\* A change by others is an edit.
LEMMA RefinesChange ==
  ASSUME NEW f, Change(f)
  PROVE  Patched!Edit
<1>1. UNCHANGED <<patch, outcome, applied>>
  BY DEF Change
<1>2. AskedFields' = AskedFields
  BY <1>1, NextFields DEF AskedFields
<1>3. DOMAIN Whole(resource.content)' = Keys
  BY NextFields, WholeFacts
<1> QED
  BY <1>1, <1>2, <1>3 DEF Patched!Edit, AskedFields

\* A step of the tools is a step of PatchedResource, or none that it sees.
LEMMA RefinesNext ==
  ASSUME IInv, IInv', [Next]_vars
  PROVE  [Patched!Next]_(Patched!vars)
<1>1. ASSUME NEW c \in Callers, Call(c)
      PROVE  Patched!Next
  BY <1>1, RefinesCall DEF Patched!Next
<1>2. ASSUME UNCHANGED <<resource, patch, applied, outcome>>
      PROVE  UNCHANGED Patched!vars
  <2>1. AskedFields' = AskedFields /\ Whole(resource.content)' = Whole(resource.content)
    BY <1>2, NextFields DEF AskedFields
  <2> QED
    BY <1>2, <2>1 DEF Patched!vars, AskedFields
<1>3. ASSUME NEW c \in Callers, outcome[c] = "pending",
             NEW result \in {"stale", "invalid", "failed", "unknown"},
             result \in {"stale", "invalid"} => c \notin applied,
             outcome' = [outcome EXCEPT ![c] = result],
             UNCHANGED <<resource, patch, applied>>
      PROVE  Patched!Next
  BY <1>3, RefinesTell DEF Patched!Next
<1>4. ASSUME NEW c \in Callers, Read(c) \/ Write(c)
      PROVE  UNCHANGED Patched!vars
  BY <1>2, <1>4 DEF Read, Write
<1>5. ASSUME NEW c \in Callers, ReadFails(c) \/ WriteFails(c)
      PROVE  Patched!Next
  <2>1. Asked(c)
    BY DEF IInv
  <2>2. outcome[c] = "pending"
    BY <1>5, <2>1 DEF ReadFails, WriteFails, Asked
  <2>3. PICK result \in {"failed", "unknown"} : outcome' = [outcome EXCEPT ![c] = result]
    BY <1>5 DEF ReadFails, WriteFails, Finish
  <2>4. UNCHANGED <<resource, patch, applied>>
    BY <1>5 DEF ReadFails, WriteFails
  <2> QED
    BY <1>3, <2>2, <2>3, <2>4
<1>6. ASSUME NEW r \in put, Accept(r)
      PROVE  Patched!Next
  <2>1. r.by \in Callers
    BY WireFacts
  <2> QED
    BY <1>6, <2>1, RefinesAccept DEF Patched!Next
<1>7. ASSUME NEW r \in put, Refuse(r)
      PROVE  Patched!Next \/ UNCHANGED Patched!vars
  <2> DEFINE c == r.by
  <2>1. c \in Callers /\ c \notin applied
    BY WireFacts
  <2>2. UNCHANGED <<resource, patch, applied>>
    BY <1>7 DEF Refuse
  <2>3. Reply(c, "stale") \/ Reply(c, "invalid")
    BY <1>7 DEF Refuse
  <2> HIDE DEF c
  <2>4. CASE UNCHANGED <<pc, outcome>>
    BY <1>2, <2>2, <2>4
  <2>5. ASSUME NEW result \in {"stale", "invalid"}, pc[c] = "writing", Finish(c, result)
        PROVE  Patched!Next
    <3>1. Asked(c)
      BY <2>1 DEF IInv
    <3>2. outcome[c] = "pending" /\ outcome' = [outcome EXCEPT ![c] = result]
      BY <2>5, <3>1 DEF Asked, Finish
    <3> QED
      BY <1>3, <2>1, <2>2, <2>5, <3>2
  <2> QED
    BY <2>3, <2>4, <2>5 DEF Reply
<1>8. ASSUME NEW f, Change(f)
      PROVE  Patched!Next
  BY <1>8, RefinesChange DEF Patched!Next
<1>9. (\E k \in Plain : WebEdit(k)) \/ (\E k \in ContactKeys : Rebook(k)) \/ Payment => Patched!Next
  BY <1>8 DEF WebEdit, Rebook, Payment
<1>10. CASE UNCHANGED vars
  BY <1>2, <1>10 DEF vars
<1> QED
  BY <1>1, <1>4, <1>5, <1>6, <1>7, <1>9, <1>10 DEF Next, Finished

\* The update tools together are atomic patches of the fields their callers
\* name, each made at most once, and none lost or made for a caller that was
\* told of a refusal.
THEOREM UpdateToolsImplementPatchedResource == Spec => ImplementsPatchedResource
<1>1. IInv /\ IInv' /\ [Next]_vars => [Patched!Next]_(Patched!vars)
  BY RefinesNext
<1> QED
  BY <1>1, RefinesInit, Invariance, PTL DEF Spec, ImplementsPatchedResource, Patched!Spec
-----------------------------------------------------------------------------
(* What a caller is told is true. *)

\* "updated" is told of a change that was made, a failure of one that was not,
\* and "stale" only when the resource has got newer than the version sent.
Truthful(c) ==
  /\ outcome[c] = "updated" => c \in applied
  /\ outcome[c] \in {"stale", "invalid", "failed"} =>
       c \notin applied /\ \A r \in put : r.by # c
  /\ outcome[c] = "stale" => SentVersion(c) < resource.version

AnswersAreTrue == \A c \in Callers : Truthful(c)

\* A call that a step leaves alone was told the truth still.
LEMMA TruthLasts ==
  ASSUME NEW c \in Callers, Truthful(c), TypeOK,
         outcome'[c] = outcome[c], \A r \in put' : r.by = c => r \in put,
         c \in applied' => c \in applied \/ outcome[c] \in {"pending", "unknown"},
         applied \subseteq applied',
         resource'.version \in Nat, resource.version <= resource'.version,
         outcome[c] = "stale" => version'[c] = version[c] /\ snapshot'[c] = snapshot[c]
  PROVE  Truthful(c)'
<1>1. outcome'[c] = "updated" => c \in applied'
  BY DEF Truthful
<1>2. outcome'[c] \in {"stale", "invalid", "failed"} =>
        c \notin applied' /\ \A r \in put' : r.by # c
  BY DEF Truthful
<1>3. ASSUME outcome'[c] = "stale"
      PROVE  SentVersion(c)' < resource'.version
  <2>1. SentVersion(c)' = SentVersion(c)
    BY <1>3 DEF SentVersion
  <2>2. SentVersion(c) \in Nat /\ resource.version \in Nat
    BY DEF SentVersion, TypeOK
  <2>3. SentVersion(c) < resource.version
    BY <1>3 DEF Truthful
  <2> QED
    BY <2>1, <2>2, <2>3
<1> QED
  BY <1>1, <1>2, <1>3 DEF Truthful

\* The version a PUT carries is never newer than the resource.
LEMMA SentIsNotNewer ==
  ASSUME IInv, NEW r \in put
  PROVE  /\ r.version \in Nat /\ r.version <= resource.version
         /\ r.version = SentVersion(r.by)
<1> DEFINE c == r.by
<1>1. c \in Callers /\ r.version = SentVersion(c)
  BY WireFacts
<1>2. Snapped(c) /\ HasRead(c)
  BY <1>1 DEF IInv, HasRead
<1>3. /\ resource.version \in Nat /\ snapshot[c].version \in Nat
      /\ version[c] \in Nat \cup {NoVersion}
  BY <1>1 DEF IInv, TypeOK
<1> HIDE DEF c
<1>4. SentVersion(c) \in Nat /\ SentVersion(c) <= resource.version
  BY <1>2, <1>3 DEF Snapped, SentVersion
<1> QED
  BY <1>1, <1>4 DEF c

\* Only the call of a PUT that is handled hears of it.
LEMMA TruthfulAnswer ==
  ASSUME IInv, AnswersAreTrue, NEW r \in put, Accept(r) \/ Refuse(r)
  PROVE  AnswersAreTrue'
<1> DEFINE c == r.by
<1>1. TypeOK /\ resource.version \in Nat
  BY DEF IInv, TypeOK
<1>2. /\ c \in Callers /\ c \notin applied /\ outcome[c] \in {"pending", "unknown"}
      /\ r.version = SentVersion(c) /\ r.version \in Nat /\ r.version <= resource.version
  BY WireFacts, SentIsNotNewer
<1>3. put' = put \ {r} /\ UNCHANGED <<version, snapshot>>
  BY DEF Accept, Refuse
<1>4. \A q \in put' : q \in put /\ q.by # c
  BY <1>3, OnePut
<1>5. ASSUME NEW result \in {"updated", "stale", "invalid"}, Reply(c, result)
      PROVE  /\ \A d \in Callers \ {c} : outcome'[d] = outcome[d]
             /\ outcome'[c] \in {result, outcome[c]}
  BY <1>1, <1>2, <1>5, ReplyFacts
<1>6. resource'.version \in Nat /\ resource.version <= resource'.version
  BY <1>1 DEF Accept, Refuse
<1>7. /\ \A d \in Callers \ {c} : outcome'[d] = outcome[d]
      /\ \/ /\ applied' = applied \cup {c}
            /\ outcome'[c] \in {"updated", "pending", "unknown"}
         \/ /\ applied' = applied /\ resource' = resource
            /\ outcome'[c] \in {"stale", "invalid", "pending", "unknown"}
            /\ outcome'[c] = "stale" => r.version # resource.version
  <2>1. CASE Accept(r)
    <3>1. applied' = applied \cup {c} /\ Reply(c, "updated")
      BY <2>1 DEF Accept
    <3> QED
      BY <1>2, <1>5, <3>1
  <2>2. CASE Refuse(r)
    <3>1. applied' = applied /\ resource' = resource
      BY <2>2 DEF Refuse
    <3>2. CASE r.version # resource.version /\ Reply(c, "stale")
      BY <1>2, <1>5, <3>1, <3>2
    <3>3. CASE Reply(c, "invalid")
      BY <1>2, <1>5, <3>1, <3>3
    <3> QED
      BY <2>2, <3>2, <3>3 DEF Refuse
  <2> QED
    BY <2>1, <2>2
<1> HIDE DEF c
<1>8. Truthful(c)'
  <2>1. outcome'[c] = "updated" => c \in applied'
    BY <1>7
  <2>2. outcome'[c] \in {"stale", "invalid", "failed"} => c \notin applied'
    BY <1>2, <1>7
  <2>3. SentVersion(c)' = SentVersion(c)
    BY <1>3 DEF SentVersion
  <2>4. outcome'[c] = "stale" => SentVersion(c) < resource'.version
    BY <1>1, <1>2, <1>7
  <2> QED
    BY <1>4, <2>1, <2>2, <2>3, <2>4 DEF Truthful
<1>9. ASSUME NEW d \in Callers \ {c}
      PROVE  Truthful(d)'
  <2>1. Truthful(d) /\ outcome'[d] = outcome[d]
    BY <1>7, <1>9 DEF AnswersAreTrue
  <2>2. (d \in applied' => d \in applied) /\ applied \subseteq applied'
    BY <1>7, <1>9
  <2> QED
    BY <1>1, <1>3, <1>4, <1>6, <1>9, <2>1, <2>2, TruthLasts
<1> QED
  BY <1>8, <1>9 DEF AnswersAreTrue

\* Nor does any other step tell a caller what is not so.
LEMMA TruthfulStep ==
  ASSUME IInv, AnswersAreTrue, [Next]_vars
  PROVE  AnswersAreTrue'
<1>1. TypeOK /\ resource.version \in Nat /\ \A d \in Callers : Truthful(d) /\ Asked(d)
  BY DEF IInv, TypeOK, AnswersAreTrue
<1>2. ASSUME NEW d \in Callers, outcome'[d] = outcome[d], applied' = applied,
             \A r \in put' : r.by = d => r \in put,
             resource'.version \in Nat, resource.version <= resource'.version,
             outcome[d] = "stale" => version'[d] = version[d] /\ snapshot'[d] = snapshot[d]
      PROVE  Truthful(d)'
  BY <1>1, <1>2, TruthLasts
<1>3. ASSUME NEW c \in Callers, Call(c) \/ Read(c) \/ Write(c)
      PROVE  AnswersAreTrue'
  <2>1. UNCHANGED <<resource, outcome, applied>> /\ pc[c] # "done"
    BY <1>3 DEF Call, Read, Write
  <2>2. outcome[c] = "pending"
    BY <1>1, <2>1 DEF Asked
  <2>3. \A d \in Callers \ {c} : version'[d] = version[d] /\ snapshot'[d] = snapshot[d]
    BY <1>1, <1>3 DEF Call, Read, Write, TypeOK
  <2>4. \A r \in put' : r.by # c => r \in put
    BY <1>3 DEF Call, Read, Write
  <2>5. ASSUME NEW d \in Callers \ {c}
        PROVE  Truthful(d)'
    BY <1>1, <1>2, <2>1, <2>3, <2>4, <2>5
  <2>6. Truthful(c)'
    BY <2>1, <2>2 DEF Truthful
  <2> QED
    BY <2>5, <2>6 DEF AnswersAreTrue
<1>4. ASSUME NEW c \in Callers, ReadFails(c) \/ WriteFails(c)
      PROVE  AnswersAreTrue'
  <2>1. UNCHANGED <<resource, version, snapshot, put, applied>>
    BY <1>4 DEF ReadFails, WriteFails
  <2>2. /\ \A d \in Callers \ {c} : outcome'[d] = outcome[d]
        /\ \/ outcome'[c] = "failed" /\ pc[c] \in {"reading", "read"}
           \/ outcome'[c] = "unknown"
    BY <1>1, <1>4 DEF ReadFails, WriteFails, Finish, TypeOK
  <2>3. Truthful(c)'
    <3>1. CASE outcome'[c] = "failed" /\ pc[c] \in {"reading", "read"}
      <4>1. c \notin applied
        BY <1>1, <3>1 DEF Asked
      <4>2. \A r \in put : r.by # c
        BY <3>1, WireFacts
      <4> QED
        BY <2>1, <3>1, <4>1, <4>2 DEF Truthful
    <3>2. CASE outcome'[c] = "unknown"
      BY <3>2 DEF Truthful
    <3> QED
      BY <2>2, <3>1, <3>2
  <2>4. ASSUME NEW d \in Callers \ {c}
        PROVE  Truthful(d)'
    BY <1>1, <1>2, <2>1, <2>2, <2>4
  <2> QED
    BY <2>3, <2>4 DEF AnswersAreTrue
<1>5. ASSUME NEW f, Change(f)
      PROVE  AnswersAreTrue'
  <2>1. /\ UNCHANGED <<version, snapshot, put, outcome, applied>>
        /\ resource'.version \in Nat /\ resource.version <= resource'.version
    BY <1>1, <1>5 DEF Change
  <2> QED
    BY <1>2, <2>1 DEF AnswersAreTrue
<1>6. CASE UNCHANGED vars
  BY <1>1, <1>2, <1>6 DEF AnswersAreTrue, vars
<1>7. ASSUME NEW r \in put, Accept(r) \/ Refuse(r)
      PROVE  AnswersAreTrue'
  BY <1>7, TruthfulAnswer
<1> QED
  BY <1>3, <1>4, <1>5, <1>6, <1>7 DEF Next, Finished, WebEdit, Rebook, Payment

\* An update tool tells its caller the truth: "updated" of a PUT that was
\* carried out, an error of Lexware or of the GET of one that was not and never
\* will be, and a conflict only when somebody changed the resource since.
THEOREM AnswersAreTrueCorrect == Spec => []AnswersAreTrue
<1>1. Init => AnswersAreTrue
  BY DEF Init, AnswersAreTrue, Truthful
<1> QED
  BY <1>1, TruthfulStep, Invariance, PTL DEF Spec

-----------------------------------------------------------------------------
(* deepMergePatch() on nested objects.  First, leaves and their paths.  Here T *)
(* is a set of values, N the keys and L, M sets of leaves of T.               *)

\* A prefix position by position.
LEMMA PrefixFacts ==
  ASSUME NEW N, NEW s \in Seq(N), NEW t \in Seq(N)
  PROVE  IsPrefix(s, t) <=> Len(s) <= Len(t) /\ \A i \in 1..Len(s) : s[i] = t[i]
<1>1. ASSUME Len(s) <= Len(t)
      PROVE  /\ SubSeq(s, 1, Len(s)) \in Seq(N) /\ SubSeq(t, 1, Len(s)) \in Seq(N)
             /\ Len(SubSeq(s, 1, Len(s))) = Len(s) /\ Len(SubSeq(t, 1, Len(s))) = Len(s)
             /\ \A i \in 1..Len(s) : SubSeq(s, 1, Len(s))[i] = s[i]
             /\ \A i \in 1..Len(s) : SubSeq(t, 1, Len(s))[i] = t[i]
  BY <1>1
<1>2. ASSUME Len(s) <= Len(t), \A i \in 1..Len(s) : s[i] = t[i]
      PROVE  SubSeq(s, 1, Len(s)) = SubSeq(t, 1, Len(s))
  BY <1>1, <1>2
<1> QED
  BY <1>1, <1>2 DEF IsPrefix

\* Paths that begin with a key.
LEMMA PathFacts ==
  ASSUME NEW N, NEW k \in N, NEW j \in N, NEW q \in Seq(N), NEW r \in Seq(N)
  PROVE  /\ <<k>> \o q \in Seq(N) /\ <<k>> \o q # <<>>
         /\ <<k>> \o q = <<j>> \o r <=> k = j /\ q = r
         /\ IsPrefix(<<k>> \o q, <<j>> \o r) <=> k = j /\ IsPrefix(q, r)
         /\ IsPrefix(<<>>, q) /\ ~IsPrefix(<<k>> \o q, <<>>)
<1> DEFINE s == <<k>> \o q
           t == <<j>> \o r
<1>1. /\ s \in Seq(N) /\ Len(s) = Len(q) + 1 /\ s[1] = k
      /\ \A i \in 1..Len(q) : s[i + 1] = q[i]
  OBVIOUS
<1>2. /\ t \in Seq(N) /\ Len(t) = Len(r) + 1 /\ t[1] = j
      /\ \A i \in 1..Len(r) : t[i + 1] = r[i]
  OBVIOUS
<1>3. <<>> \in Seq(N) /\ Len(<<>>) = 0
  OBVIOUS
<1>4. s # <<>>
  BY <1>1, <1>3
<1> HIDE DEF s, t
<1>5. ASSUME s = t PROVE k = j /\ q = r
  <2>1. k = j /\ Len(q) = Len(r)
    BY <1>1, <1>2, <1>5
  <2>2. \A i \in 1..Len(q) : q[i] = r[i]
    BY <1>1, <1>2, <1>5, <2>1
  <2> QED
    BY <2>1, <2>2, SeqEqual, Zenon
<1>6. k = j /\ q = r => s = t
  BY DEF s, t
<1>7. IsPrefix(s, t) <=> Len(s) <= Len(t) /\ \A i \in 1..Len(s) : s[i] = t[i]
  <2>1. s \in Seq(N) /\ t \in Seq(N)
    BY <1>1, <1>2
  <2> QED
    BY <2>1, PrefixFacts, SMT
<1>8. IsPrefix(q, r) <=> Len(q) <= Len(r) /\ \A i \in 1..Len(q) : q[i] = r[i]
  BY PrefixFacts
<1>9. ASSUME IsPrefix(s, t) PROVE k = j /\ IsPrefix(q, r)
  <2>1. Len(q) <= Len(r) /\ k = j
    BY <1>1, <1>2, <1>7, <1>9
  <2>2. ASSUME NEW i \in 1..Len(q) PROVE q[i] = r[i]
    <3>1. i + 1 \in 1..Len(s) /\ i \in 1..Len(r)
      BY <1>1, <2>1
    <3>2. s[i + 1] = t[i + 1]
      BY <1>7, <1>9, <3>1
    <3> QED
      BY <1>1, <1>2, <3>1, <3>2
  <2> QED
    BY <1>8, <2>1, <2>2
<1>10. ASSUME k = j, IsPrefix(q, r) PROVE IsPrefix(s, t)
  <2>1. Len(s) <= Len(t)
    BY <1>1, <1>2, <1>8, <1>10
  <2>2. ASSUME NEW i \in 1..Len(s) PROVE s[i] = t[i]
    <3>1. CASE i = 1
      BY <1>1, <1>2, <1>10, <3>1
    <3>2. CASE i # 1
      <4>1. i - 1 \in 1..Len(q) /\ i - 1 \in 1..Len(r) /\ (i - 1) + 1 = i
        BY <1>1, <1>8, <1>10, <3>2
      <4>2. q[i - 1] = r[i - 1]
        BY <1>8, <1>10, <4>1
      <4>3. s[(i - 1) + 1] = q[i - 1] /\ t[(i - 1) + 1] = r[i - 1]
        BY <1>1, <1>2, <4>1
      <4> QED
        BY <4>1, <4>2, <4>3
    <3> QED
      BY <3>1, <3>2
  <2> QED
    BY <1>7, <2>1, <2>2
<1>11. IsPrefix(<<>>, q)
  <2>1. SubSeq(<<>>, 1, 0) = <<>> /\ SubSeq(q, 1, 0) = <<>> /\ Len(q) \in Nat
    BY SubSeqEmpty
  <2>2. 0 <= Len(q)
    BY <2>1
  <2> QED
    BY <1>3, <2>1, <2>2, Zenon DEF IsPrefix
<1>12. ~IsPrefix(s, <<>>)
  <2>1. IsPrefix(s, <<>>) => Len(s) <= Len(<<>>)
    BY Zenon DEF IsPrefix
  <2>2. Len(q) \in Nat
    OBVIOUS
  <2> QED
    BY <1>1, <1>3, <2>1, <2>2
<1> QED
  BY <1>1, <1>4, <1>5, <1>6, <1>9, <1>10, <1>11, <1>12 DEF s, t

\* The leaf l of the value under the key k, seen from the object.
At(k, l) == <<<<k>> \o l[1], l[2]>>

\* Leaves under keys are equal, or one within the other, as they are without the keys.
LEMMA AtFacts ==
  ASSUME NEW N, NEW T, NEW k \in N, NEW j \in N,
         NEW l \in Located(T, N), NEW n \in Located(T, N)
  PROVE  /\ At(k, l) \in Located(T, N) /\ At(k, l)[1] # <<>> /\ At(k, l)[2] = l[2]
         /\ At(k, l) = At(j, n) <=> k = j /\ l = n
         /\ At(k, l)[1] = At(j, n)[1] <=> k = j /\ l[1] = n[1]
         /\ Within(At(k, l), At(j, n)) <=> k = j /\ Within(l, n)
<1> PICK q \in Seq(N), x \in T, r \in Seq(N), y \in T : l = <<q, x>> /\ n = <<r, y>>
  BY DEF Located
<1> DEFINE s == <<k>> \o q
           t == <<j>> \o r
<1>1. At(k, l) = <<s, x>> /\ At(j, n) = <<t, y>>
  BY DEF At
<1>2. s \in Seq(N) /\ s # <<>> /\ (s = t <=> k = j /\ q = r)
  BY PathFacts
<1>3. IsPrefix(t, s) <=> k = j /\ IsPrefix(r, q)
  BY PathFacts
<1> HIDE DEF s, t
<1>4. Within(<<s, x>>, <<t, y>>) <=> IsPrefix(t, s) /\ t # s
  BY DEF Within
<1>5. Within(<<q, x>>, <<r, y>>) <=> IsPrefix(r, q) /\ r # q
  BY DEF Within
<1>6. Within(At(k, l), At(j, n)) <=> k = j /\ Within(l, n)
  BY <1>1, <1>2, <1>3, <1>4, <1>5
<1> QED
  BY <1>1, <1>2, <1>6 DEF Located

\* The same for one leaf.
LEMMA AtEqual ==
  ASSUME NEW N, NEW T, NEW k \in N, NEW j \in N,
         NEW l \in Located(T, N), NEW n \in Located(T, N), At(k, l) = At(j, n)
  PROVE  k = j /\ l = n
  BY AtFacts, SMT

\* They are apart unless under one key, or as they are without it.
LEMMA AtApart ==
  ASSUME NEW N, NEW T, NEW k \in N, NEW j \in N,
         NEW l \in Located(T, N), NEW n \in Located(T, N)
  PROVE  /\ Within(At(k, l), At(j, n)) <=> k = j /\ Within(l, n)
         /\ Apart(At(k, l), At(j, n)) <=> (k = j => Apart(l, n))
<1>1. Within(At(k, l), At(j, n)) <=> k = j /\ Within(l, n)
  BY AtFacts, SMT
<1>2. Within(At(j, n), At(k, l)) <=> j = k /\ Within(n, l)
  BY AtFacts, SMT
<1>3. At(k, l)[1] = At(j, n)[1] <=> k = j /\ l[1] = n[1]
  BY AtFacts, SMT
<1> QED
  BY <1>1, <1>2, <1>3 DEF Apart

-----------------------------------------------------------------------------
(* Overlay() key by key. *)

\* A[k] are the leaves of the value under k.
LeavesByKey(A, N, T) ==
  /\ DOMAIN A \subseteq N
  /\ \A k \in DOMAIN A : A[k] \subseteq Located(T, N)

\* What is in Join(A).
LEMMA JoinFacts ==
  ASSUME NEW N, NEW T, NEW A, LeavesByKey(A, N, T)
  PROVE  /\ Join(A) \subseteq Located(T, N)
         /\ \A e : e \in Join(A) <=> \E k \in DOMAIN A : \E l \in A[k] : e = At(k, l)
         /\ \A k \in DOMAIN A, l \in Located(T, N) : At(k, l) \in Join(A) <=> l \in A[k]
<1>1. ASSUME NEW e
      PROVE  e \in Join(A) <=> \E k \in DOMAIN A : \E l \in A[k] : e = At(k, l)
  <2>1. Join(A) = UNION {{At(k, l) : l \in A[k]} : k \in DOMAIN A}
    BY DEF Join, At
  <2> QED
    BY <2>1
<1>2. \A k \in DOMAIN A : k \in N /\ \A l \in A[k] : l \in Located(T, N)
  BY DEF LeavesByKey
<1>3. ASSUME NEW e \in Join(A) PROVE e \in Located(T, N)
  <2>1. PICK k \in DOMAIN A : \E l \in A[k] : e = At(k, l)
    BY <1>1, <1>3
  <2> PICK l \in A[k] : e = At(k, l)
    BY <2>1
  <2>2. k \in N /\ l \in Located(T, N)
    BY <1>2, <2>1
  <2>3. At(k, l) \in Located(T, N)
    BY <2>2, AtFacts, Zenon
  <2> QED
    BY <2>3
<1>4. ASSUME NEW k \in DOMAIN A, NEW l \in Located(T, N), At(k, l) \in Join(A) PROVE l \in A[k]
  <2>1. PICK j \in DOMAIN A : \E n \in A[j] : At(k, l) = At(j, n)
    BY <1>1, <1>4
  <2> PICK n \in A[j] : At(k, l) = At(j, n)
    BY <2>1
  <2>2. k \in N /\ j \in N /\ n \in Located(T, N)
    BY <1>2, <1>4, <2>1
  <2>3. k = j /\ l = n
    BY <1>4, <2>2, AtEqual
  <2> QED
    BY <2>1, <2>3
<1> QED
  BY <1>1, <1>3, <1>4, Zenon

\* S has the leaves of C, and under each key those C has there.
KeyByKey(S, C, N, T) ==
  /\ \A e \in S : \E k \in DOMAIN C : \E l \in Located(T, N) : e = At(k, l)
  /\ \A k \in DOMAIN C, l \in Located(T, N) : At(k, l) \in S <=> l \in C[k]

\* A set of leaves under keys is a join when it is one key by key.
LEMMA JoinEqual ==
  ASSUME NEW N, NEW T, NEW C, LeavesByKey(C, N, T), NEW S, KeyByKey(S, C, N, T)
  PROVE  S = Join(C)
<1> USE DEF KeyByKey
<1>1. \A k \in DOMAIN C : C[k] \subseteq Located(T, N)
  BY DEF LeavesByKey
<1>2. \A e : e \in Join(C) <=> \E k \in DOMAIN C : \E l \in C[k] : e = At(k, l)
  BY JoinFacts
<1>3. ASSUME NEW e \in S PROVE e \in Join(C)
  <2>1. PICK k \in DOMAIN C : \E l \in Located(T, N) : e = At(k, l)
    BY <1>3
  <2>2. PICK l \in Located(T, N) : e = At(k, l)
    BY <2>1
  <2>3. l \in C[k]
    BY <1>3, <2>2
  <2> QED
    BY <1>2, <2>2, <2>3
<1>4. ASSUME NEW e \in Join(C) PROVE e \in S
  <2>1. PICK k \in DOMAIN C : \E l \in C[k] : e = At(k, l)
    BY <1>2, <1>4
  <2>2. PICK l \in C[k] : e = At(k, l)
    BY <2>1
  <2> QED
    BY <1>1, <2>2
<1> QED
  BY <1>3, <1>4

\* The leaves of fields lie over other fields key by key.
LEMMA OverlayJoin ==
  ASSUME NEW N, NEW T, NEW E, NEW A, NEW B, LeavesByKey(A, N, T), LeavesByKey(B, N, T),
         DOMAIN A = DOMAIN B
  PROVE  Overlay(Join(A), Join(B), E)
           = Join([k \in DOMAIN A |-> Overlay(A[k], B[k], E)])
<1> DEFINE K    == DOMAIN A
           LL   == Located(T, N)
           Eff  == [k \in K |-> Effective(A[k], B[k], E)]
           Stay == [k \in K |-> Kept(A[k], Eff[k])]
           Both == [k \in K |-> Overlay(A[k], B[k], E)]
<1>1. /\ \A k \in K : k \in N /\ A[k] \subseteq LL /\ B[k] \subseteq LL
      /\ DOMAIN Eff = K /\ DOMAIN Stay = K /\ DOMAIN Both = K /\ DOMAIN B = K
      /\ \A k \in K : Eff[k] \subseteq B[k] /\ Stay[k] \subseteq A[k]
      /\ \A k \in K : Both[k] = Eff[k] \cup Stay[k]
  BY DEF LeavesByKey, Effective, Kept, Overlay
<1>2. LeavesByKey(Eff, N, T) /\ LeavesByKey(Stay, N, T) /\ LeavesByKey(Both, N, T)
  BY <1>1 DEF LeavesByKey
<1>3. \A k \in K, n \in LL :
        /\ At(k, n) \in Join(A) <=> n \in A[k]
        /\ At(k, n) \in Join(B) <=> n \in B[k]
        /\ At(k, n) \in Join(Eff) <=> n \in Eff[k]
        /\ At(k, n) \in Join(Stay) <=> n \in Stay[k]
  <2>1. \A k \in K, n \in LL : At(k, n) \in Join(A) <=> n \in A[k]
    BY JoinFacts
  <2>2. \A k \in K, n \in LL : At(k, n) \in Join(B) <=> n \in B[k]
    BY JoinFacts
  <2>3. \A k \in DOMAIN Eff, n \in LL : At(k, n) \in Join(Eff) <=> n \in Eff[k]
    BY <1>2, JoinFacts
  <2>4. \A k \in DOMAIN Stay, n \in LL : At(k, n) \in Join(Stay) <=> n \in Stay[k]
    BY <1>2, JoinFacts
  <2> QED
    BY <1>1, <2>1, <2>2, <2>3, <2>4
<1>4. /\ \A e \in Join(A) : \E k \in K : \E l \in A[k] : e = At(k, l)
      /\ \A e \in Join(B) : \E k \in K : \E l \in B[k] : e = At(k, l)
      /\ \A e \in Join(Eff) : \E k \in K : \E l \in Eff[k] : e = At(k, l)
      /\ \A e \in Join(Stay) : \E k \in K : \E l \in Stay[k] : e = At(k, l)
  <2>1. \A e \in Join(A) : \E k \in K : \E l \in A[k] : e = At(k, l)
    BY JoinFacts
  <2>2. \A e \in Join(B) : \E k \in K : \E l \in B[k] : e = At(k, l)
    BY JoinFacts
  <2>3. \A e \in Join(Eff) : \E k \in DOMAIN Eff : \E l \in Eff[k] : e = At(k, l)
    BY <1>2, JoinFacts
  <2>4. \A e \in Join(Stay) : \E k \in DOMAIN Stay : \E l \in Stay[k] : e = At(k, l)
    BY <1>2, JoinFacts
  <2> QED
    BY <1>1, <2>1, <2>2, <2>3, <2>4
<1>5. \A k \in K : Eff[k] = Effective(A[k], B[k], E) /\ Stay[k] = Kept(A[k], Eff[k])
  OBVIOUS
<1>6. \A k, j \in K : \A l, n \in LL :
        /\ At(k, l)[2] = l[2]
        /\ Within(At(k, l), At(j, n)) <=> k = j /\ Within(l, n)
        /\ Apart(At(k, l), At(j, n)) <=> (k = j => Apart(l, n))
  <2> SUFFICES ASSUME NEW k \in K, NEW j \in K, NEW l \in LL, NEW n \in LL
               PROVE  /\ At(k, l)[2] = l[2]
                      /\ Within(At(k, l), At(j, n)) <=> k = j /\ Within(l, n)
                      /\ Apart(At(k, l), At(j, n)) <=> (k = j => Apart(l, n))
    OBVIOUS
  <2>1. k \in N /\ j \in N
    BY <1>1
  <2>2. At(k, l)[2] = l[2]
    BY <2>1, AtFacts, SMT
  <2> QED
    BY <2>1, <2>2, AtApart, SMT
<1> HIDE DEF K, LL, Eff, Stay, Both
<1>7. Effective(Join(A), Join(B), E) = Join(Eff)
  <2> DEFINE S == Effective(Join(A), Join(B), E)
  <2>1. \A e \in S : \E k \in DOMAIN Eff : \E l \in LL : e = At(k, l)
    BY <1>1, <1>4 DEF Effective
  <2>2. ASSUME NEW k \in K, NEW n \in LL
        PROVE  At(k, n) \in S <=> n \in Eff[k]
    <3>1. (\A l \in Join(A) : ~Within(l, At(k, n))) <=> \A l \in A[k] : ~Within(l, n)
      <4>1. ASSUME \A l \in Join(A) : ~Within(l, At(k, n)), NEW l \in A[k]
            PROVE  ~Within(l, n)
        BY <1>1, <1>3, <1>6, <2>2, <4>1
      <4>2. ASSUME \A l \in A[k] : ~Within(l, n), NEW e \in Join(A)
            PROVE  ~Within(e, At(k, n))
        <5>1. PICK j \in K : \E l \in A[j] : e = At(j, l)
          BY <1>4, <4>2
        <5>2. PICK l \in A[j] : e = At(j, l)
          BY <5>1
        <5>3. Within(At(j, l), At(k, n)) <=> j = k /\ Within(l, n)
          BY <1>1, <1>6, <2>2, <5>2
        <5> QED
          BY <4>2, <5>2, <5>3
      <4> QED
        BY <4>1, <4>2
    <3>2. At(k, n) \in S <=> /\ At(k, n) \in Join(B)
                             /\ At(k, n)[2] \in E => \A l \in Join(A) : ~Within(l, At(k, n))
      BY DEF Effective
    <3>3. n \in Eff[k] <=> n \in B[k] /\ (n[2] \in E => \A l \in A[k] : ~Within(l, n))
      BY <1>5, <2>2 DEF Effective
    <3>4. (At(k, n) \in Join(B) <=> n \in B[k]) /\ At(k, n)[2] = n[2]
      BY <1>3, <1>6, <2>2
    <3> QED
      BY <3>1, <3>2, <3>3, <3>4
  <2> HIDE DEF S
  <2>3. \A k \in DOMAIN Eff, l \in LL : At(k, l) \in S <=> l \in Eff[k]
    BY <1>1, <2>2
  <2>4. KeyByKey(S, Eff, N, T)
    BY <2>1, <2>3 DEF KeyByKey, LL
  <2>5. S = Join(Eff)
    BY <1>2, <2>4, JoinEqual, Zenon
  <2> QED
    BY <2>5 DEF S
<1>8. Kept(Join(A), Join(Eff)) = Join(Stay)
  <2> DEFINE S == Kept(Join(A), Join(Eff))
  <2>1. \A e \in S : \E k \in DOMAIN Stay : \E l \in LL : e = At(k, l)
    BY <1>1, <1>4 DEF Kept
  <2>2. ASSUME NEW k \in K, NEW l \in LL
        PROVE  At(k, l) \in S <=> l \in Stay[k]
    <3>1. (\A n \in Join(Eff) : Apart(At(k, l), n)) <=> \A n \in Eff[k] : Apart(l, n)
      <4>1. ASSUME \A n \in Join(Eff) : Apart(At(k, l), n), NEW n \in Eff[k]
            PROVE  Apart(l, n)
        BY <1>1, <1>3, <1>6, <2>2, <4>1
      <4>2. ASSUME \A n \in Eff[k] : Apart(l, n), NEW e \in Join(Eff)
            PROVE  Apart(At(k, l), e)
        <5>1. PICK j \in K : \E n \in Eff[j] : e = At(j, n)
          BY <1>4, <4>2
        <5>2. PICK n \in Eff[j] : e = At(j, n)
          BY <5>1
        <5>3. Apart(At(k, l), At(j, n)) <=> (k = j => Apart(l, n))
          BY <1>1, <1>6, <2>2, <5>2
        <5> QED
          BY <4>2, <5>2, <5>3
      <4> QED
        BY <4>1, <4>2
    <3>2. At(k, l) \in S <=> At(k, l) \in Join(A) /\ \A n \in Join(Eff) : Apart(At(k, l), n)
      BY DEF Kept
    <3>3. l \in Stay[k] <=> l \in A[k] /\ \A n \in Eff[k] : Apart(l, n)
      BY <1>5, <2>2 DEF Kept
    <3>4. At(k, l) \in Join(A) <=> l \in A[k]
      BY <1>3, <2>2
    <3> QED
      BY <3>1, <3>2, <3>3, <3>4
  <2> HIDE DEF S
  <2>3. \A k \in DOMAIN Stay, l \in LL : At(k, l) \in S <=> l \in Stay[k]
    BY <1>1, <2>2
  <2>4. KeyByKey(S, Stay, N, T)
    BY <2>1, <2>3 DEF KeyByKey, LL
  <2>5. S = Join(Stay)
    BY <1>2, <2>4, JoinEqual, Zenon
  <2> QED
    BY <2>5 DEF S
<1>9. Join(Eff) \cup Join(Stay) = Join(Both)
  <2>1. \A e \in Join(Eff) \cup Join(Stay) : \E k \in DOMAIN Both : \E l \in LL : e = At(k, l)
    BY <1>1, <1>4
  <2>2. \A k \in DOMAIN Both, l \in LL :
          At(k, l) \in Join(Eff) \cup Join(Stay) <=> l \in Both[k]
    BY <1>1, <1>3
  <2>3. KeyByKey(Join(Eff) \cup Join(Stay), Both, N, T)
    BY <2>1, <2>2 DEF KeyByKey, LL
  <2> QED
    BY <1>2, <2>3, JoinEqual, Zenon
<1> QED
  BY <1>7, <1>8, <1>9 DEF Overlay, Both, K

-----------------------------------------------------------------------------
(* Overlay() with a value that has one leaf, itself. *)

\* The empty path leads to the whole value.
LEMMA RootFacts ==
  ASSUME NEW N, NEW T, NEW x, NEW l \in Located(T, N)
  PROVE  /\ ~Within(<<<<>>, x>>, l) /\ ~Apart(<<<<>>, x>>, l) /\ ~Apart(l, <<<<>>, x>>)
         /\ Within(l, <<<<>>, x>>) <=> l[1] # <<>>
<1> DEFINE q == l[1]
           r == <<<<>>, x>>
<1>1. q \in Seq(N) /\ r[1] = <<>>
  BY DEF Located
<1>2. /\ SubSeq(<<>>, 1, 0) = <<>> /\ SubSeq(q, 1, 0) = <<>>
      /\ Len(q) \in Nat /\ Len(<<>>) = 0 /\ (Len(q) = 0 => q = <<>>)
  BY <1>1, SubSeqEmpty
<1>3. 0 <= Len(q) /\ (Len(q) <= 0 => q = <<>>)
  BY <1>2
<1> HIDE DEF q, r
<1>4. IsPrefix(<<>>, q)
  BY <1>2, <1>3, Zenon DEF IsPrefix
<1>5. IsPrefix(q, <<>>) => q = <<>>
  BY <1>2, <1>3, Zenon DEF IsPrefix
<1>6. ~Within(r, l) /\ (Within(l, r) <=> q # <<>>)
  BY <1>1, <1>4, <1>5 DEF Within, q
<1>7. ~Apart(r, l) /\ ~Apart(l, r)
  BY <1>1, <1>6 DEF Apart, q
<1> QED
  BY <1>6, <1>7 DEF q, r

\* What is laid over nothing, or nothing over something, comes out as it was.
LEMMA OverNothing ==
  ASSUME NEW E, NEW L
  PROVE  Overlay(L, {}, E) = L /\ Overlay({}, L, E) = L
  BY DEF Overlay, Effective, Kept

\* Whatever is laid over a single value replaces it.
LEMMA OverOne ==
  ASSUME NEW N, NEW T, NEW E, NEW x, NEW M \in SUBSET Located(T, N), M # {}
  PROVE  Overlay({<<<<>>, x>>}, M, E) = M
<1> DEFINE r == <<<<>>, x>>
<1>1. \A n \in M : ~Within(r, n) /\ ~Apart(r, n)
  BY RootFacts, SMT
<1> HIDE DEF r
<1>2. Effective({r}, M, E) = M
  BY <1>1 DEF Effective
<1>3. Kept({r}, M) = {}
  BY <1>1 DEF Kept
<1> QED
  BY <1>2, <1>3 DEF Overlay, r

\* A single value replaces what it is laid over, unless it is empty.
LEMMA UnderOne ==
  ASSUME NEW N, NEW T, NEW E, NEW y, y \notin E, NEW L \in SUBSET Located(T, N)
  PROVE  Overlay(L, {<<<<>>, y>>}, E) = {<<<<>>, y>>}
<1> DEFINE r == <<<<>>, y>>
<1>1. r[2] = y /\ \A l \in L : ~Apart(l, r)
  BY RootFacts, SMT
<1> HIDE DEF r
<1>2. Effective(L, {r}, E) = {r} /\ Kept(L, {r}) = {}
  BY <1>1 DEF Effective, Kept
<1> QED
  BY <1>2 DEF Overlay, r

\* An empty value changes nothing that has something inside.
LEMMA UnderEmpty ==
  ASSUME NEW N, NEW T, NEW E, NEW y \in E,
         NEW L \in SUBSET Located(T, N), L # {}, \A l \in L : l[1] # <<>>
  PROVE  Overlay(L, {<<<<>>, y>>}, E) = L
<1> DEFINE r == <<<<>>, y>>
<1>1. r[2] = y /\ \A l \in L : Within(l, r) <=> l[1] # <<>>
  BY RootFacts, SMT
<1> HIDE DEF r
<1>2. Effective(L, {r}, E) = {} /\ Kept(L, {}) = L
  BY <1>1 DEF Effective, Kept
<1> QED
  BY <1>2 DEF Overlay, r

-----------------------------------------------------------------------------
(* The merge, level by level. *)

\* Induction on the naturals, for a property given as a set.
LEMMA CountingUp ==
  ASSUME NEW G, 0 \in G, \A n \in Nat : n \in G => n + 1 \in G
  PROVE  Nat \subseteq G
<1> DEFINE Bad == Nat \ G
           R   == OpToRel(<, Nat)
<1> SUFFICES ASSUME Bad # {} PROVE FALSE
  OBVIOUS
<1>1. IsWellFoundedOn(R, Nat)
  BY NatLessThanWellFounded
<1>2. \A a, n \in Nat : a < n => <<a, n>> \in R
  BY DEF OpToRel
<1>3. Bad \subseteq Nat
  OBVIOUS
<1> HIDE DEF R, Bad
<1>4. PICK n \in Bad : \A a \in Bad : <<a, n>> \notin R
  BY <1>1, <1>3, WFMin
<1>5. n \in Nat \ {0} /\ n \notin G
  BY <1>4 DEF Bad
<1>6. n - 1 \in Nat /\ n - 1 < n /\ (n - 1) + 1 = n
  BY <1>5
<1>7. n - 1 \in Bad
  BY <1>5, <1>6 DEF Bad
<1> QED
  BY <1>2, <1>4, <1>6, <1>7, <1>3

\* Empty objects take nothing away.
Empty   == Object(NoKeys)
Empties == {Empty}

\* merge and leaves solve the equations of deepMergePatch() and of the leaves on
\* the values of T.  RequestBodies' recursive operators do: MCRequestBodies has
\* TLC evaluate it.
Solved(merge, leaves, T, N, height) ==
  IsNested(T, N, height) /\ IsDeepMerge(merge, T) /\ IsLeaves(leaves, T, N)

\* Fields of an object, or entries of a list.
Level(f, T, N) ==
  DOMAIN f \subseteq N /\ \A k \in DOMAIN f : f[k] \in T

\* The leaves of one level.
LeavesIn(f, leaves) == Join([k \in DOMAIN f |-> leaves[f[k]]])

\* What the equations say of one value, or two.
Values(leaves, T, N, height) ==
  \A v \in T :
    /\ leaves[v] \subseteq Located(T, N) /\ height[v] \in Nat
    /\ v.is # "object" \/ v = Empty => leaves[v] = {<<<<>>, v>>}
    /\ v.is = "object" =>
         /\ v # Empty => leaves[v] = LeavesIn(v.fields, leaves)
         /\ Level(v.fields, T, N)
         /\ v = Object([k \in DOMAIN v.fields |-> v.fields[k]])
         /\ \A k \in DOMAIN v.fields : height[v.fields[k]] < height[v]

Merges(merge, T) ==
  \A b, p \in T :
    b.is = "object" /\ p.is = "object" =>
      /\ merge[<<b, p>>] \in T /\ merge[<<b, p>>].is = "object"
      /\ merge[<<b, p>>] = Object(Merged(b.fields, p.fields, merge))

\* The equations, value by value.
LEMMA SolvedFacts ==
  ASSUME NEW merge, NEW leaves, NEW T, NEW N, NEW height, Solved(merge, leaves, T, N, height)
  PROVE  Values(leaves, T, N, height) /\ Merges(merge, T)
<1> USE DEF Solved
<1>1. ASSUME NEW v \in T
      PROVE  /\ leaves[v] \subseteq Located(T, N) /\ height[v] \in Nat
             /\ v.is # "object" \/ v = Empty => leaves[v] = {<<<<>>, v>>}
             /\ v.is = "object" /\ v # Empty => leaves[v] = LeavesIn(v.fields, leaves)
  <2>1. leaves[v] = LeavesOf(v, LAMBDA w : leaves[w])
    BY DEF IsLeaves
  <2>2. leaves[v] \subseteq Located(T, N) /\ height[v] \in Nat
    BY DEF IsLeaves, IsNested
  <2> QED
    BY <2>1, <2>2, Zenon DEF LeavesOf, LeavesIn, Empty
<1>2. ASSUME NEW v \in T, v.is = "object"
      PROVE  /\ Level(v.fields, T, N)
             /\ v = Object([k \in DOMAIN v.fields |-> v.fields[k]])
             /\ \A k \in DOMAIN v.fields : height[v.fields[k]] < height[v]
  BY <1>2 DEF IsNested, Objects, Level
<1>3. ASSUME NEW b \in T, NEW p \in T, b.is = "object", p.is = "object"
      PROVE  /\ merge[<<b, p>>] \in T /\ merge[<<b, p>>].is = "object"
             /\ merge[<<b, p>>] = Object(Merged(b.fields, p.fields, merge))
  <2>1. b \in Objects(T) /\ p \in Objects(T)
    BY <1>3 DEF Objects
  <2>2. merge[<<b, p>>] \in Objects(T)
    BY <2>1 DEF IsDeepMerge
  <2>3. merge[<<b, p>>] = Object(Merged(b.fields, p.fields, merge))
    BY <2>1 DEF IsDeepMerge
  <2> QED
    BY <2>2, <2>3 DEF Objects
<1>4. Values(leaves, T, N, height)
  BY <1>1, <1>2 DEF Values
<1>5. Merges(merge, T)
  BY <1>3 DEF Merges
<1> QED
  BY <1>4, <1>5

\* The fields of a merge, one by one.
IsMerged(M, f, g, merge) ==
  /\ DOMAIN M = DOMAIN f \cup DOMAIN g
  /\ \A k \in DOMAIN f \cup DOMAIN g :
       /\ k \notin DOMAIN g => M[k] = f[k]
       /\ k \in DOMAIN g /\ ~(g[k].is = "object" /\ k \in DOMAIN f /\ f[k].is = "object")
            => M[k] = g[k]
       /\ k \in DOMAIN g /\ g[k].is = "object" /\ k \in DOMAIN f /\ f[k].is = "object"
            => M[k] = merge[<<f[k], g[k]>>]

\* MergeFields() does what it says to each field.
LEMMA MergedFacts ==
  ASSUME NEW f, NEW g, NEW merge
  PROVE  IsMerged(Merged(f, g, merge), f, g, merge)
  BY DEF Merged, MergeFields, BothObjects, IsMerged

\* The leaf of a field is a leaf of the object.
LEMMA JoinHas ==
  ASSUME NEW A, NEW k \in DOMAIN A, NEW l \in A[k]
  PROVE  At(k, l) \in Join(A)
<1>1. At(k, l) \in {<<<<k>> \o n[1], n[2]>> : n \in A[k]}
  BY DEF At
<1> QED
  BY <1>1 DEF Join

\* No value is without leaves.
LEMMA LeavesExist ==
  ASSUME NEW leaves, NEW T, NEW N, NEW height, Values(leaves, T, N, height), NEW v \in T
  PROVE  leaves[v] # {}
<1> DEFINE G == {n \in Nat : \A w \in T : height[w] < n => leaves[w] # {}}
<1>0. \A w \in T : height[w] \in Nat
  BY DEF Values
<1>1. 0 \in G
  BY <1>0
<1>2. ASSUME NEW n \in Nat, n \in G PROVE n + 1 \in G
  <2> SUFFICES ASSUME NEW w \in T, height[w] < n + 1 PROVE leaves[w] # {}
    OBVIOUS
  <2>1. CASE w.is # "object" \/ w = Empty
    BY <2>1 DEF Values
  <2>2. CASE w.is = "object" /\ w # Empty
    <3>1. /\ w = Object([k \in DOMAIN w.fields |-> w.fields[k]]) /\ Level(w.fields, T, N)
          /\ \A k \in DOMAIN w.fields : height[w.fields[k]] < height[w]
          /\ leaves[w] = LeavesIn(w.fields, leaves)
      BY <2>2 DEF Values
    <3>2. DOMAIN w.fields # {}
      BY <2>2, <3>1 DEF Empty, NoKeys
    <3>3. PICK k \in DOMAIN w.fields : TRUE
      BY <3>2
    <3>4. w.fields[k] \in T /\ height[w.fields[k]] \in Nat /\ height[w] \in Nat
      BY <3>1 DEF Level, Values
    <3>5. leaves[w.fields[k]] # {}
      BY <1>2, <3>1, <3>4
    <3>6. PICK l : l \in leaves[w.fields[k]]
      BY <3>5
    <3>7. At(k, l) \in LeavesIn(w.fields, leaves)
      BY <3>6, JoinHas DEF LeavesIn
    <3> QED
      BY <3>1, <3>7
  <2> QED
    BY <2>1, <2>2
<1> HIDE DEF G
<1>3. height[v] + 1 \in Nat /\ height[v] < height[v] + 1
  BY <1>0
<1>4. height[v] + 1 \in G
  BY <1>1, <1>2, <1>3, CountingUp
<1> QED
  BY <1>3, <1>4 DEF G

\* Keys without leaves add nothing.
LEMMA JoinPadded ==
  ASSUME NEW F, NEW K, DOMAIN F \subseteq K
  PROVE  Join([k \in K |-> IF k \in DOMAIN F THEN F[k] ELSE {}]) = Join(F)
<1> DEFINE P == [k \in K |-> IF k \in DOMAIN F THEN F[k] ELSE {}]
<1>1. \A A, e : e \in Join(A) <=> \E k \in DOMAIN A : \E l \in A[k] : e = At(k, l)
  <2> TAKE A, e
  <2>1. Join(A) = UNION {{At(k, l) : l \in A[k]} : k \in DOMAIN A}
    BY DEF Join, At
  <2> QED
    BY <2>1
<1>2. DOMAIN P = K /\ \A k \in K : P[k] = IF k \in DOMAIN F THEN F[k] ELSE {}
  OBVIOUS
<1> HIDE DEF P
<1>3. ASSUME NEW e \in Join(P) PROVE e \in Join(F)
  <2>1. PICK k \in K : \E l \in P[k] : e = At(k, l)
    BY <1>1, <1>2, <1>3
  <2> QED
    BY <1>1, <1>2, <2>1
<1>4. ASSUME NEW e \in Join(F) PROVE e \in Join(P)
  <2>1. PICK k \in DOMAIN F : \E l \in F[k] : e = At(k, l)
    BY <1>1, <1>4
  <2> QED
    BY <1>1, <1>2, <2>1
<1>5. Join(P) = Join(F)
  BY <1>3, <1>4
<1> QED
  BY <1>5 DEF P

\* What is merged below this level is laid over what was there.
OverlaidBelow(f, g, merge, leaves) ==
  \A k \in DOMAIN f \cap DOMAIN g :
    f[k].is = "object" /\ g[k].is = "object" =>
      leaves[merge[<<f[k], g[k]>>]] = Overlay(leaves[f[k]], leaves[g[k]], Empties)

\* One level of the merge, given the levels below.
LEMMA FieldsMerged ==
  ASSUME NEW merge, NEW leaves, NEW T, NEW N, NEW height, Values(leaves, T, N, height),
         NEW f, NEW g, Level(f, T, N), Level(g, T, N), OverlaidBelow(f, g, merge, leaves)
  PROVE  LeavesIn(Merged(f, g, merge), leaves)
           = Overlay(LeavesIn(f, leaves), LeavesIn(g, leaves), Empties)
<1> DEFINE K == DOMAIN f \cup DOMAIN g
           F == [k \in DOMAIN f |-> leaves[f[k]]]
           H == [k \in DOMAIN g |-> leaves[g[k]]]
           A == [k \in K |-> IF k \in DOMAIN F THEN F[k] ELSE {}]
           B == [k \in K |-> IF k \in DOMAIN H THEN H[k] ELSE {}]
           M == Merged(f, g, merge)
<1>1. Join(A) = LeavesIn(f, leaves) /\ Join(B) = LeavesIn(g, leaves)
  <2>1. DOMAIN F \subseteq K /\ DOMAIN H \subseteq K
    OBVIOUS
  <2>2. Join(A) = Join(F) /\ Join(B) = Join(H)
    BY <2>1, JoinPadded
  <2> QED
    BY <2>2 DEF LeavesIn
<1>2. DOMAIN A = K /\ DOMAIN B = K
  OBVIOUS
<1>3. /\ \A k \in DOMAIN f : f[k] \in T /\ k \in N
      /\ \A k \in DOMAIN g : g[k] \in T /\ k \in N
  BY DEF Level
<1>4. \A k \in K : /\ k \in DOMAIN f => A[k] = leaves[f[k]]
                   /\ k \notin DOMAIN f => A[k] = {}
                   /\ k \in DOMAIN g => B[k] = leaves[g[k]]
                   /\ k \notin DOMAIN g => B[k] = {}
  OBVIOUS
<1>5. \A v \in T : /\ leaves[v] \in SUBSET Located(T, N) /\ leaves[v] # {}
                   /\ v.is # "object" => leaves[v] = {<<<<>>, v>>}
  BY LeavesExist DEF Values
<1>6. IsMerged(M, f, g, merge)
  BY MergedFacts, Zenon
<1> HIDE DEF A, B, F, H, M
<1>7. LeavesByKey(A, N, T) /\ LeavesByKey(B, N, T)
  <2>1. \A k \in K : A[k] \subseteq Located(T, N)
    BY <1>3, <1>4, <1>5
  <2>2. \A k \in K : B[k] \subseteq Located(T, N)
    BY <1>3, <1>4, <1>5
  <2> QED
    BY <1>2, <1>3, <2>1, <2>2 DEF LeavesByKey
<1>8. ASSUME NEW k \in K PROVE Overlay(A[k], B[k], Empties) = leaves[M[k]]
  <2>1. CASE k \notin DOMAIN g
    <3>1. M[k] = f[k] /\ A[k] = leaves[f[k]] /\ B[k] = {}
      BY <1>4, <1>6, <1>8, <2>1 DEF IsMerged
    <3> QED
      BY <3>1, OverNothing
  <2>2. CASE k \in DOMAIN g /\ k \notin DOMAIN f
    <3>1. M[k] = g[k] /\ B[k] = leaves[g[k]] /\ A[k] = {}
      BY <1>4, <1>6, <1>8, <2>2 DEF IsMerged
    <3> QED
      BY <3>1, OverNothing
  <2>3. CASE k \in DOMAIN g /\ k \in DOMAIN f
    <3>1. A[k] = leaves[f[k]] /\ B[k] = leaves[g[k]] /\ f[k] \in T /\ g[k] \in T
      BY <1>3, <1>4, <1>8, <2>3
    <3>2. A[k] \in SUBSET Located(T, N) /\ B[k] \in SUBSET Located(T, N) /\ B[k] # {}
      BY <1>5, <3>1
    <3>3. CASE g[k].is = "object" /\ f[k].is = "object"
      <4>1. M[k] = merge[<<f[k], g[k]>>]
        BY <1>6, <1>8, <2>3, <3>3 DEF IsMerged
      <4> QED
        BY <2>3, <3>1, <3>3, <4>1 DEF OverlaidBelow
    <3>4. CASE g[k].is # "object"
      <4>1. M[k] = g[k] /\ B[k] = {<<<<>>, g[k]>>}
        BY <1>5, <1>6, <1>8, <2>3, <3>1, <3>4 DEF IsMerged
      <4>2. g[k] \notin Empties
        BY <3>4 DEF Empties, Empty, Object
      <4>3. Overlay(A[k], {<<<<>>, g[k]>>}, Empties) = {<<<<>>, g[k]>>}
        BY <3>2, <4>2, UnderOne
      <4> QED
        BY <3>1, <4>1, <4>3
    <3>5. CASE g[k].is = "object" /\ f[k].is # "object"
      <4>1. M[k] = g[k] /\ A[k] = {<<<<>>, f[k]>>}
        BY <1>5, <1>6, <1>8, <2>3, <3>1, <3>5 DEF IsMerged
      <4>2. Overlay({<<<<>>, f[k]>>}, B[k], Empties) = B[k]
        BY <3>2, OverOne
      <4> QED
        BY <3>1, <4>1, <4>2
    <3> QED
      BY <3>3, <3>4, <3>5
  <2> QED
    BY <1>8, <2>1, <2>2, <2>3
<1>9. Overlay(Join(A), Join(B), Empties) = Join([k \in DOMAIN A |-> Overlay(A[k], B[k], Empties)])
  BY <1>2, <1>7, OverlayJoin
<1>10. [k \in DOMAIN A |-> Overlay(A[k], B[k], Empties)] = [k \in DOMAIN M |-> leaves[M[k]]]
  BY <1>2, <1>6, <1>8 DEF IsMerged
<1> QED
  BY <1>1, <1>9, <1>10 DEF LeavesIn, M

\* An object under another, given the levels below.
LEMMA ObjectsMerged ==
  ASSUME NEW merge, NEW leaves, NEW T, NEW N, NEW height,
         Values(leaves, T, N, height), Merges(merge, T)
  PROVE  \A b, p \in T :
           /\ b.is = "object" /\ p.is = "object"
           /\ OverlaidBelow(b.fields, p.fields, merge, leaves)
           => leaves[merge[<<b, p>>]] = Overlay(leaves[b], leaves[p], Empties)
<1> SUFFICES ASSUME NEW b \in T, NEW p \in T, b.is = "object", p.is = "object",
                    OverlaidBelow(b.fields, p.fields, merge, leaves)
             PROVE  leaves[merge[<<b, p>>]] = Overlay(leaves[b], leaves[p], Empties)
  OBVIOUS
<1> DEFINE o == merge[<<b, p>>]
           M == Merged(b.fields, p.fields, merge)
           W == [k \in DOMAIN M |-> M[k]]
<1>1. o \in T /\ o.is = "object" /\ o = Object(M) /\ o.fields = M
  BY DEF Merges, Object
<1>2. /\ Level(b.fields, T, N) /\ Level(p.fields, T, N)
      /\ b = Object([k \in DOMAIN b.fields |-> b.fields[k]])
      /\ p = Object([k \in DOMAIN p.fields |-> p.fields[k]])
      /\ o = Object([k \in DOMAIN o.fields |-> o.fields[k]])
  BY <1>1 DEF Values
<1>3. IsMerged(M, b.fields, p.fields, merge)
  BY MergedFacts, Zenon
<1> HIDE DEF o, M
<1>4. \A v \in T : /\ leaves[v] \in SUBSET Located(T, N) /\ leaves[v] # {}
                   /\ v = Empty => leaves[v] = {<<<<>>, v>>}
                   /\ v.is = "object" /\ v # Empty => leaves[v] = LeavesIn(v.fields, leaves)
  BY LeavesExist DEF Values
<1>5. Empty.fields = NoKeys /\ DOMAIN Empty.fields = {}
  BY DEF Empty, Object, NoKeys
<1>6. LeavesIn(M, leaves) = Overlay(LeavesIn(b.fields, leaves), LeavesIn(p.fields, leaves), Empties)
  BY <1>2, FieldsMerged DEF M
<1>7. \A v \in {b, p, o} : v # Empty => DOMAIN v.fields # {}
  BY <1>2 DEF Empty, NoKeys, Object
<1>8. CASE p = Empty
  <2>1. DOMAIN M = DOMAIN b.fields /\ \A k \in DOMAIN M : M[k] = b.fields[k]
    BY <1>3, <1>5, <1>8 DEF IsMerged
  <2>2. o = b
    BY <1>1, <1>2, <2>1
  <2>3. leaves[p] = {<<<<>>, Empty>>}
    BY <1>4, <1>8
  <2>4. CASE b = Empty
    <3>1. Overlay({<<<<>>, Empty>>}, {<<<<>>, Empty>>}, Empties) = {<<<<>>, Empty>>}
      BY <1>4, <2>3, <1>8, OverOne
    <3> QED
      BY <1>8, <2>2, <2>3, <2>4, <3>1 DEF o
  <2>5. CASE b # Empty
    <3>1. \A l \in leaves[b] : l[1] # <<>>
      <4> DEFINE C == [k \in DOMAIN b.fields |-> leaves[b.fields[k]]]
      <4>1. leaves[b] = Join(C)
        BY <1>4, <2>5 DEF LeavesIn
      <4>2. /\ DOMAIN C = DOMAIN b.fields
            /\ \A k \in DOMAIN b.fields : k \in N /\ C[k] \subseteq Located(T, N)
        BY <1>2, <1>4 DEF Level
      <4> HIDE DEF C
      <4>3. LeavesByKey(C, N, T)
        BY <4>2 DEF LeavesByKey
      <4>4. ASSUME NEW l \in Join(C) PROVE l[1] # <<>>
        <5>1. PICK k \in DOMAIN C : \E n \in C[k] : l = At(k, n)
          BY <4>3, <4>4, JoinFacts
        <5>2. PICK n \in C[k] : l = At(k, n)
          BY <5>1
        <5>3. k \in N /\ n \in Located(T, N)
          BY <4>2, <5>2
        <5> QED
          BY <5>2, <5>3, AtFacts, SMT
      <4> QED
        BY <4>1, <4>4
    <3>2. Overlay(leaves[b], {<<<<>>, Empty>>}, Empties) = leaves[b]
      BY <1>4, <3>1, UnderEmpty DEF Empties
    <3> QED
      BY <2>2, <2>3, <3>2 DEF o
  <2> QED
    BY <2>4, <2>5
<1>9. CASE p # Empty /\ b = Empty
  <2>1. DOMAIN M = DOMAIN p.fields /\ \A k \in DOMAIN M : M[k] = p.fields[k]
    BY <1>3, <1>5, <1>9 DEF IsMerged
  <2>2. o = p
    BY <1>1, <1>2, <2>1
  <2>3. leaves[b] = {<<<<>>, Empty>>}
    BY <1>4, <1>9
  <2>4. Overlay({<<<<>>, Empty>>}, leaves[p], Empties) = leaves[p]
    BY <1>4, OverOne
  <2> QED
    BY <2>2, <2>3, <2>4 DEF o
<1>10. CASE p # Empty /\ b # Empty
  <2>1. DOMAIN M # {}
    BY <1>3, <1>7, <1>10 DEF IsMerged
  <2>2. o # Empty
    BY <1>1, <1>5, <2>1
  <2> QED
    BY <1>1, <1>4, <1>6, <1>10, <2>2 DEF o
<1> QED
  BY <1>8, <1>9, <1>10

-----------------------------------------------------------------------------
(* Objects of any depth. *)

\* Whatever the nesting, an object merged over another is laid over it.
LEMMA MergedAtHeight ==
  ASSUME NEW merge, NEW leaves, NEW T, NEW N, NEW height,
         Values(leaves, T, N, height), Merges(merge, T)
  PROVE  \A b, p \in T :
           b.is = "object" /\ p.is = "object"
             => leaves[merge[<<b, p>>]] = Overlay(leaves[b], leaves[p], Empties)
<1> SUFFICES ASSUME NEW b \in T, NEW p \in T, b.is = "object", p.is = "object"
             PROVE  leaves[merge[<<b, p>>]] = Overlay(leaves[b], leaves[p], Empties)
  OBVIOUS
<1> DEFINE Good(v, w) == leaves[merge[<<v, w>>]] = Overlay(leaves[v], leaves[w], Empties)
           G == {n \in Nat : \A v, w \in T :
                   v.is = "object" /\ w.is = "object" /\ height[w] < n => Good(v, w)}
<1>1. \A v \in T : height[v] \in Nat
  BY DEF Values
<1>2. 0 \in G
  BY <1>1
<1>3. ASSUME NEW n \in Nat, n \in G PROVE n + 1 \in G
  <2> SUFFICES ASSUME NEW v \in T, NEW w \in T, v.is = "object", w.is = "object",
                      height[w] < n + 1
               PROVE  Good(v, w)
    OBVIOUS
  <2>1. /\ Level(v.fields, T, N) /\ Level(w.fields, T, N)
        /\ \A k \in DOMAIN w.fields : height[w.fields[k]] < height[w]
    BY DEF Values
  <2>2. ASSUME NEW k \in DOMAIN v.fields \cap DOMAIN w.fields,
               v.fields[k].is = "object", w.fields[k].is = "object"
        PROVE  Good(v.fields[k], w.fields[k])
    <3>1. v.fields[k] \in T /\ w.fields[k] \in T /\ height[w.fields[k]] < height[w]
      BY <2>1, <2>2 DEF Level
    <3>2. height[w.fields[k]] < n
      BY <1>1, <3>1
    <3> QED
      BY <1>3, <2>2, <3>1, <3>2
  <2>3. OverlaidBelow(v.fields, w.fields, merge, leaves)
    BY <2>2 DEF OverlaidBelow
  <2> QED
    BY <2>3, ObjectsMerged
<1>4. height[p] + 1 \in Nat /\ height[p] < height[p] + 1
  BY <1>1
<1> HIDE DEF G
<1>5. height[p] + 1 \in G
  BY <1>2, <1>3, <1>4, CountingUp
<1> QED
  BY <1>4, <1>5 DEF G

\* deepMergePatch() changes what the patch names and nothing else, for objects
\* of any keys nested to any depth: the leaves of its result are those of the
\* current object with those of the patch over them.  The siblings of a nested
\* field survive, and an empty object in the patch takes nothing away.
THEOREM MergeTouchesOnlyNamed ==
  ASSUME NEW merge, NEW leaves, NEW T, NEW N, NEW height, Solved(merge, leaves, T, N, height)
  PROVE  \A b, p \in Objects(T) :
           leaves[merge[<<b, p>>]] = Overlay(leaves[b], leaves[p], Empties)
<1>1. Values(leaves, T, N, height) /\ Merges(merge, T)
  BY SolvedFacts
<1>2. ASSUME NEW b \in Objects(T), NEW p \in Objects(T)
      PROVE  leaves[merge[<<b, p>>]] = Overlay(leaves[b], leaves[p], Empties)
  <2>1. b \in T /\ p \in T /\ b.is = "object" /\ p.is = "object"
    BY <1>2 DEF Objects
  <2> QED
    BY <1>1, <2>1, MergedAtHeight
<1> QED
  BY <1>2

\* The same for one level alone, which is what mergeAddresses() does to the
\* entries of two lists: those beyond the patch survive, and so do the fields
\* the patch leaves out of an entry.
THEOREM EntriesTouchOnlyNamed ==
  ASSUME NEW merge, NEW leaves, NEW T, NEW N, NEW height, Solved(merge, leaves, T, N, height),
         NEW f, NEW g, Level(f, T, N), Level(g, T, N)
  PROVE  LeavesIn(Merged(f, g, merge), leaves)
           = Overlay(LeavesIn(f, leaves), LeavesIn(g, leaves), Empties)
<1>1. Values(leaves, T, N, height) /\ Merges(merge, T)
  BY SolvedFacts
<1>2. OverlaidBelow(f, g, merge, leaves)
  <2> SUFFICES ASSUME NEW k \in DOMAIN f \cap DOMAIN g, f[k].is = "object", g[k].is = "object"
               PROVE  leaves[merge[<<f[k], g[k]>>]] = Overlay(leaves[f[k]], leaves[g[k]], Empties)
    BY DEF OverlaidBelow
  <2>1. f[k] \in T /\ g[k] \in T
    BY DEF Level
  <2> QED
    BY <1>1, <2>1, MergedAtHeight
<1> QED
  BY <1>1, <1>2, FieldsMerged

-----------------------------------------------------------------------------
(* Leaves as contents. *)

\* No leaf lies inside of another, and none has the path of another.
Tidy(L) == \A l, n \in L : l = n \/ Apart(l, n)

\* The leaves of every value are tidy.
LEMMA LeavesTidy ==
  ASSUME NEW leaves, NEW T, NEW N, NEW height, Values(leaves, T, N, height)
  PROVE  \A v \in T : Tidy(leaves[v])
<1> DEFINE G == {n \in Nat : \A v \in T : height[v] < n => Tidy(leaves[v])}
<1>1. \A v \in T : height[v] \in Nat
  BY DEF Values
<1>2. 0 \in G
  BY <1>1
<1>3. ASSUME NEW n \in Nat, n \in G PROVE n + 1 \in G
  <2> SUFFICES ASSUME NEW v \in T, height[v] < n + 1 PROVE Tidy(leaves[v])
    OBVIOUS
  <2>1. CASE v.is # "object" \/ v = Empty
    <3>1. leaves[v] = {<<<<>>, v>>}
      BY <2>1 DEF Values
    <3> QED
      BY <3>1 DEF Tidy
  <2>2. CASE v.is = "object" /\ v # Empty
    <3> DEFINE C == [k \in DOMAIN v.fields |-> leaves[v.fields[k]]]
    <3>1. leaves[v] = Join(C)
      BY <2>2 DEF Values, LeavesIn
    <3>2. \A k \in DOMAIN v.fields :
            /\ k \in N /\ v.fields[k] \in T /\ leaves[v.fields[k]] \subseteq Located(T, N)
            /\ height[v.fields[k]] < height[v]
      BY <2>2 DEF Values, Level
    <3>3. \A k \in DOMAIN v.fields : Tidy(leaves[v.fields[k]])
      <4> TAKE k \in DOMAIN v.fields
      <4>1. height[v.fields[k]] < n
        BY <1>1, <3>2
      <4> QED
        BY <1>3, <3>2, <4>1
    <3>4. \A k \in DOMAIN C : k \in N /\ C[k] \subseteq Located(T, N) /\ Tidy(C[k])
      BY <3>2, <3>3
    <3> HIDE DEF C
    <3>5. \A e : e \in Join(C) <=> \E k \in DOMAIN C : \E l \in C[k] : e = At(k, l)
      <4>1. LeavesByKey(C, N, T)
        BY <3>4 DEF LeavesByKey
      <4> QED
        BY <4>1, JoinFacts
    <3>6. ASSUME NEW d \in Join(C), NEW e \in Join(C) PROVE d = e \/ Apart(d, e)
      <4>1. PICK k \in DOMAIN C : \E l \in C[k] : d = At(k, l)
        BY <3>5, <3>6
      <4>2. PICK l \in C[k] : d = At(k, l)
        BY <4>1
      <4>3. PICK j \in DOMAIN C : \E m \in C[j] : e = At(j, m)
        BY <3>5, <3>6
      <4>4. PICK m \in C[j] : e = At(j, m)
        BY <4>3
      <4>5. k \in N /\ j \in N /\ l \in Located(T, N) /\ m \in Located(T, N)
        BY <3>4, <4>2, <4>4
      <4>6. Apart(At(k, l), At(j, m)) <=> (k = j => Apart(l, m))
        BY <4>5, AtApart, SMT
      <4>7. k = j => l = m \/ Apart(l, m)
        BY <3>4, <4>2, <4>4 DEF Tidy
      <4> QED
        BY <4>2, <4>4, <4>6, <4>7
    <3> QED
      BY <3>1, <3>6 DEF Tidy
  <2> QED
    BY <2>1, <2>2
<1> TAKE v \in T
<1>4. height[v] + 1 \in Nat /\ height[v] < height[v] + 1
  BY <1>1
<1> HIDE DEF G
<1>5. height[v] + 1 \in G
  BY <1>2, <1>3, <1>4, CountingUp
<1> QED
  BY <1>4, <1>5 DEF G

\* Leaves as contents: what is stored under each path.
Paths(L)   == {l[1] : l \in L}
Content(L) == [q \in Paths(L) |-> (CHOOSE l \in L : l[1] = q)[2]]

\* The leaves at the same place have the same path.
Matching(L, M) == \A l \in L, n \in M : l[1] = n[1] \/ Apart(l, n)

\* Tidy leaves are what their contents say.
LEMMA ContentFacts ==
  ASSUME NEW L, Tidy(L)
  PROVE  DOMAIN Content(L) = Paths(L) /\ \A l \in L : Content(L)[l[1]] = l[2]
<1>1. ASSUME NEW l \in L PROVE Content(L)[l[1]] = l[2]
  <2> DEFINE n == CHOOSE m \in L : m[1] = l[1]
  <2>1. n \in L /\ n[1] = l[1]
    BY <1>1
  <2> HIDE DEF n
  <2>2. n = l
    BY <1>1, <2>1 DEF Tidy, Apart
  <2> QED
    BY <1>1, <2>2 DEF Content, Paths, n
<1> QED
  BY <1>1 DEF Content

\* Where leaves match, those laid over others replace them one by one.
LEMMA OverlayContent ==
  ASSUME NEW L, NEW M, NEW E, Tidy(L), Tidy(M), Tidy(Overlay(L, M, E)), Matching(L, M)
  PROVE  Content(Overlay(L, M, E)) = Merge(Content(L), Content(M))
<1> DEFINE O == Overlay(L, M, E)
           S == Kept(L, M)
<1>1. Effective(L, M, E) = M
  BY DEF Effective, Matching, Apart, Within
<1>2. O = M \cup S
  BY <1>1 DEF Overlay
<1>3. S = {l \in L : l[1] \notin Paths(M)}
  BY DEF Kept, Matching, Paths, Apart
<1> HIDE DEF O, S
<1>4. Paths(O) = Paths(L) \cup Paths(M)
  BY <1>2, <1>3 DEF Paths
<1>5. /\ DOMAIN Content(O) = Paths(O) /\ \A l \in O : Content(O)[l[1]] = l[2]
      /\ DOMAIN Content(L) = Paths(L) /\ \A l \in L : Content(L)[l[1]] = l[2]
      /\ DOMAIN Content(M) = Paths(M) /\ \A l \in M : Content(M)[l[1]] = l[2]
  BY ContentFacts DEF O
<1>6. ASSUME NEW q \in Paths(O)
      PROVE  Content(O)[q] = IF q \in Paths(M) THEN Content(M)[q] ELSE Content(L)[q]
  <2>1. CASE q \in Paths(M)
    <3>1. PICK n \in M : n[1] = q
      BY <2>1 DEF Paths
    <3> QED
      BY <1>2, <1>5, <2>1, <3>1
  <2>2. CASE q \notin Paths(M)
    <3>1. PICK l \in L : l[1] = q
      BY <1>4, <1>6, <2>2 DEF Paths
    <3>2. l \in O
      BY <1>2, <1>3, <2>2, <3>1
    <3> QED
      BY <1>5, <2>2, <3>1, <3>2
  <2> QED
    BY <2>1, <2>2
<1>7. Content(O) = [q \in Paths(O) |-> Content(O)[q]]
  BY DEF Content
<1> QED
  BY <1>4, <1>5, <1>6, <1>7 DEF Merge, O

\* What UpdateTools takes for deepMergePatch(): where the leaves of the patch
\* match those of the current object, the merge of the objects is the Merge()
\* of their contents, functions from the paths of leaves to what is stored there.
THEOREM MergeOfLeaves ==
  ASSUME NEW merge, NEW leaves, NEW T, NEW N, NEW height, Solved(merge, leaves, T, N, height)
  PROVE  \A b, p \in Objects(T) :
           Matching(leaves[b], leaves[p]) =>
             Content(leaves[merge[<<b, p>>]]) = Merge(Content(leaves[b]), Content(leaves[p]))
<1>1. Values(leaves, T, N, height) /\ Merges(merge, T)
  BY SolvedFacts
<1> SUFFICES ASSUME NEW b \in Objects(T), NEW p \in Objects(T), Matching(leaves[b], leaves[p])
             PROVE  Content(leaves[merge[<<b, p>>]])
                      = Merge(Content(leaves[b]), Content(leaves[p]))
  OBVIOUS
<1>2. leaves[merge[<<b, p>>]] = Overlay(leaves[b], leaves[p], Empties)
  BY MergeTouchesOnlyNamed
<1>3. b \in T /\ p \in T /\ merge[<<b, p>>] \in T
  BY <1>1 DEF Objects, Merges
<1>4. Tidy(leaves[b]) /\ Tidy(leaves[p]) /\ Tidy(leaves[merge[<<b, p>>]])
  BY <1>1, <1>3, LeavesTidy
<1>5. Tidy(Overlay(leaves[b], leaves[p], Empties))
  BY <1>2, <1>4
<1> QED
  BY <1>2, <1>4, <1>5, OverlayContent

-----------------------------------------------------------------------------
(* Repeating an update. *)

\* A patch that is merged once more, after the answer to the first PUT was lost,
\* changes nothing: the update can be repeated.
THEOREM MergeRepeats ==
  ASSUME NEW merge, NEW leaves, NEW T, NEW N, NEW height, Solved(merge, leaves, T, N, height)
  PROVE  \A b, p \in Objects(T) :
           merge[<<p, p>>] = p /\ merge[<<merge[<<b, p>>], p>>] = merge[<<b, p>>]
<1> DEFINE Again(b, p) == merge[<<merge[<<b, p>>], p>>] = merge[<<b, p>>]
           Good(b, p)  == merge[<<p, p>>] = p /\ Again(b, p)
           G == {n \in Nat : \A b, p \in T :
                   b.is = "object" /\ p.is = "object" /\ height[p] < n => Good(b, p)}
<1>1. Values(leaves, T, N, height) /\ Merges(merge, T)
  BY SolvedFacts
<1>0. \A v \in T : height[v] \in Nat
  BY <1>1 DEF Values
<1>2. \A v \in T : v.is = "object" =>
        /\ v = Object([k \in DOMAIN v.fields |-> v.fields[k]])
        /\ \A k \in DOMAIN v.fields : v.fields[k] \in T /\ height[v.fields[k]] < height[v]
  BY <1>1 DEF Values, Level
<1>3. \A v, w \in T : v.is = "object" /\ w.is = "object" =>
        /\ merge[<<v, w>>] \in T /\ merge[<<v, w>>].is = "object"
        /\ IsMerged(merge[<<v, w>>].fields, v.fields, w.fields, merge)
  <2> SUFFICES ASSUME NEW v \in T, NEW w \in T, v.is = "object", w.is = "object"
               PROVE  /\ merge[<<v, w>>] \in T /\ merge[<<v, w>>].is = "object"
                      /\ IsMerged(merge[<<v, w>>].fields, v.fields, w.fields, merge)
    OBVIOUS
  <2>1. /\ merge[<<v, w>>] \in T /\ merge[<<v, w>>].is = "object"
        /\ merge[<<v, w>>] = Object(Merged(v.fields, w.fields, merge))
    BY <1>1 DEF Merges
  <2>2. merge[<<v, w>>].fields = Merged(v.fields, w.fields, merge)
    BY <2>1 DEF Object
  <2> QED
    BY <2>1, <2>2, MergedFacts
<1> HIDE DEF Good
<1>4. 0 \in G
  BY <1>0
<1>5. ASSUME NEW n \in Nat, n \in G PROVE n + 1 \in G
  <2> SUFFICES ASSUME NEW b \in T, NEW p \in T, b.is = "object", p.is = "object",
                      height[p] < n + 1
               PROVE  Good(b, p)
    OBVIOUS
  <2> DEFINE m == merge[<<b, p>>]
             r == merge[<<m, p>>]
             s == merge[<<p, p>>]
  <2>1. \A v \in T, k \in DOMAIN p.fields :
          v.is = "object" /\ p.fields[k].is = "object" => Good(v, p.fields[k])
    <3> SUFFICES ASSUME NEW v \in T, NEW k \in DOMAIN p.fields,
                        v.is = "object", p.fields[k].is = "object"
                 PROVE  Good(v, p.fields[k])
      OBVIOUS
    <3>1. p.fields[k] \in T /\ height[p.fields[k]] < height[p]
      BY <1>2
    <3>2. height[p.fields[k]] < n
      BY <1>0, <3>1
    <3> QED
      BY <1>5, <3>1, <3>2
  <2>2. /\ m \in T /\ m.is = "object" /\ IsMerged(m.fields, b.fields, p.fields, merge)
        /\ r \in T /\ r.is = "object" /\ IsMerged(r.fields, m.fields, p.fields, merge)
        /\ s \in T /\ s.is = "object" /\ IsMerged(s.fields, p.fields, p.fields, merge)
    BY <1>3
  <2> HIDE DEF m, r, s
  <2>3. DOMAIN s.fields = DOMAIN p.fields /\ \A k \in DOMAIN p.fields : s.fields[k] = p.fields[k]
    <3> SUFFICES ASSUME NEW k \in DOMAIN p.fields PROVE s.fields[k] = p.fields[k]
      BY <2>2 DEF IsMerged
    <3>1. CASE p.fields[k].is = "object"
      <4>1. p.fields[k] \in T
        BY <1>2
      <4>2. Good(p.fields[k], p.fields[k])
        BY <2>1, <3>1, <4>1
      <4> QED
        BY <2>2, <3>1, <4>2 DEF IsMerged, Good
    <3>2. CASE p.fields[k].is # "object"
      BY <2>2, <3>2 DEF IsMerged
    <3> QED
      BY <3>1, <3>2
  <2>4. DOMAIN r.fields = DOMAIN m.fields /\ DOMAIN m.fields = DOMAIN b.fields \cup DOMAIN p.fields
    BY <2>2 DEF IsMerged
  <2>5. ASSUME NEW k \in DOMAIN m.fields PROVE r.fields[k] = m.fields[k]
    <3>1. CASE k \notin DOMAIN p.fields
      BY <2>2, <2>4, <2>5, <3>1 DEF IsMerged
    <3>2. CASE k \in DOMAIN p.fields /\ p.fields[k].is # "object"
      BY <2>2, <2>4, <2>5, <3>2 DEF IsMerged
    <3>3. CASE /\ k \in DOMAIN p.fields /\ p.fields[k].is = "object"
               /\ k \in DOMAIN b.fields /\ b.fields[k].is = "object"
      <4>1. b.fields[k] \in T /\ p.fields[k] \in T
        BY <1>2, <3>3
      <4>2. m.fields[k] = merge[<<b.fields[k], p.fields[k]>>] /\ m.fields[k].is = "object"
        BY <1>3, <2>2, <3>3, <4>1 DEF IsMerged
      <4>3. r.fields[k] = merge[<<m.fields[k], p.fields[k]>>]
        BY <2>2, <2>5, <3>3, <4>2 DEF IsMerged
      <4>4. Again(b.fields[k], p.fields[k])
        BY <2>1, <3>3, <4>1 DEF Good
      <4> QED
        BY <4>2, <4>3, <4>4
    <3>4. CASE /\ k \in DOMAIN p.fields /\ p.fields[k].is = "object"
               /\ ~(k \in DOMAIN b.fields /\ b.fields[k].is = "object")
      <4>1. m.fields[k] = p.fields[k]
        BY <2>2, <2>4, <2>5, <3>4 DEF IsMerged
      <4>2. r.fields[k] = merge[<<p.fields[k], p.fields[k]>>]
        BY <2>2, <2>5, <3>4, <4>1 DEF IsMerged
      <4>3. p.fields[k] \in T
        BY <1>2, <3>4
      <4>4. Good(p.fields[k], p.fields[k])
        BY <2>1, <3>4, <4>3
      <4> QED
        BY <4>1, <4>2, <4>4 DEF Good
    <3> QED
      BY <3>1, <3>2, <3>3, <3>4
  <2>6. /\ s = Object([k \in DOMAIN s.fields |-> s.fields[k]])
        /\ p = Object([k \in DOMAIN p.fields |-> p.fields[k]])
        /\ m = Object([k \in DOMAIN m.fields |-> m.fields[k]])
        /\ r = Object([k \in DOMAIN r.fields |-> r.fields[k]])
    BY <1>2, <2>2
  <2>7. [k \in DOMAIN s.fields |-> s.fields[k]] = [k \in DOMAIN p.fields |-> p.fields[k]]
    BY <2>3
  <2>8. [k \in DOMAIN r.fields |-> r.fields[k]] = [k \in DOMAIN m.fields |-> m.fields[k]]
    BY <2>4, <2>5
  <2> QED
    BY <2>6, <2>7, <2>8 DEF m, r, s, Good
<1>6. ASSUME NEW b \in Objects(T), NEW p \in Objects(T) PROVE Good(b, p)
  <2>1. b \in T /\ p \in T /\ b.is = "object" /\ p.is = "object"
    BY <1>6 DEF Objects
  <2>2. height[p] + 1 \in Nat /\ height[p] < height[p] + 1
    BY <1>0, <2>1
  <2> HIDE DEF G
  <2>3. height[p] + 1 \in G
    BY <1>4, <1>5, <2>2, CountingUp
  <2> QED
    BY <2>1, <2>2, <2>3 DEF G
<1> QED
  BY <1>6 DEF Good
=============================================================================
