----------------------------- MODULE DeepMerge -----------------------------
(***************************************************************************)
(* deepMergePatch() of src/tools/shared.ts without its recursion: what it  *)
(* makes of one level of two objects, given what it makes of the levels    *)
(* below, and how a value looks from outside, as leaves with the paths to  *)
(* them.  RequestBodies closes the recursion with RECURSIVE operators, for *)
(* TLC; here the functions that solve the same equations on a set of       *)
(* values are described, for proofs about objects nested to any depth.     *)
(***************************************************************************)
EXTENDS Naturals, SequencesExt

Object(f) == [is |-> "object", fields |-> f]
NoKeys    == [k \in {} |-> 0]

-----------------------------------------------------------------------------
(* The merge.  The entries of a list are merged like the fields of an       *)
(* object, their indices being the keys.                                    *)

\* The keys under which both have an object.
BothObjects(base, patch) ==
  {k \in DOMAIN base \cap DOMAIN patch : base[k].is = "object" /\ patch[k].is = "object"}

\* deep[k] is the merge of the two objects under k.
MergeFields(base, patch, deep) ==
  [k \in DOMAIN base \cup DOMAIN patch |->
     IF k \in DOMAIN deep THEN deep[k] ELSE IF k \in DOMAIN patch THEN patch[k] ELSE base[k]]

-----------------------------------------------------------------------------
(* Leaves: pairs of a path and what is not an object, or an empty one. *)

\* The leaves of fields from those of their values.
Join(leaves) ==
  UNION {{<<<<k>> \o l[1], l[2]>> : l \in leaves[k]} : k \in DOMAIN leaves}

LeavesOf(v, Deep(_)) ==
  IF v.is # "object" \/ v = Object(NoKeys) THEN {<<<<>>, v>>}
  ELSE Join([k \in DOMAIN v.fields |-> Deep(v.fields[k])])

\* The leaf l is somewhere inside of what the leaf n replaces.
Within(l, n) == IsPrefix(n[1], l[1]) /\ n[1] # l[1]
Apart(l, n)  == l[1] # n[1] /\ ~Within(l, n) /\ ~Within(n, l)

\* L with the leaves M over it.  Values in empty take nothing away.
Effective(L, M, empty) == {n \in M : n[2] \in empty => \A l \in L : ~Within(l, n)}
Kept(L, M)             == {l \in L : \A n \in M : Apart(l, n)}
Overlay(L, M, empty)   == Effective(L, M, empty) \cup Kept(L, Effective(L, M, empty))

-----------------------------------------------------------------------------
(* Functions on a set T of values. *)

Objects(T) == {v \in T : v.is = "object"}

\* Names are the keys of objects and the indices of lists.  The values of an
\* object are in T, too, and the nesting has an end.
IsNested(T, Names, height) ==
  /\ height \in [T -> Nat]
  /\ \A v \in Objects(T) :
       /\ v = Object([k \in DOMAIN v.fields |-> v.fields[k]])
       /\ \A k \in DOMAIN v.fields :
            k \in Names /\ v.fields[k] \in T /\ height[v.fields[k]] < height[v]

\* One level, with the function merge for the levels below.
Merged(f, g, merge) == MergeFields(f, g, [k \in BothObjects(f, g) |-> merge[<<f[k], g[k]>>]])

IsDeepMerge(merge, T) ==
  /\ merge \in [Objects(T) \X Objects(T) -> Objects(T)]
  /\ \A b, p \in Objects(T) :
       merge[<<b, p>>] = Object(Merged(b.fields, p.fields, merge))

Located(T, Names) == Seq(Names) \X T

IsLeaves(leaves, T, Names) ==
  /\ leaves \in [T -> SUBSET Located(T, Names)]
  /\ \A v \in T : leaves[v] = LeavesOf(v, LAMBDA w : leaves[w])
=============================================================================
