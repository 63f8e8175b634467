-------------------------- MODULE SimplifyDisjunction --------------------------
(***************************************************************************)
(* simplify_disjunction (src/src/validator/ddec.cc): turn a disjunction of *)
(* conjunctions into the conjuncts common to every disjunct, followed by  *)
(* the disjunction of what is left.                                       *)
(*                                                                         *)
(* A conjunction is a sequence of atoms, a disjunction a sequence of       *)
(* conjunctions.  An atom is a model value; FalseAtom stands for           *)
(* FalseInvariant, and two atoms are equal (Invariant::operator==) when    *)
(* they are the same value.  The result is                                 *)
(*   [defined |-> TRUE, common |-> the common conjuncts,                   *)
(*    rest |-> the disjuncts left]                                         *)
(* or Undefined where the code reads disjs[0] of an empty vector.          *)
(***************************************************************************)
EXTENDS Naturals, Sequences, SequencesExt

CONSTANTS
  Atoms,        \* the invariants other than false
  FalseAtom,    \* FalseInvariant
  MaxConj,      \* the most conjuncts in one disjunct
  MaxDisj       \* the most disjuncts

ASSUME FalseAtom \notin Atoms

Atom == Atoms \cup {FalseAtom}
Conjunctions == SeqOf(Atom, MaxConj)
Disjunctions == SeqOf(Conjunctions, MaxDisj)

\* the read of disjs[0] when no disjunct is left
Undefined == [defined |-> FALSE, common |-> <<>>, rest |-> <<>>]

-----------------------------------------------------------------------------
(***************************************************************************)
(* The first loop: walk the disjuncts by index; one with a false conjunct *)
(* is removed and, through i--, the index stays where it is (the          *)
(* unsigned wrap at i = 0 is undone by ++i).                              *)
(***************************************************************************)
RECURSIVE DropFalseFrom(_, _)
DropFalseFrom(d, i) ==
  IF i > Len(d) THEN d
  ELSE IF FalseAtom \in ToSet(d[i]) THEN DropFalseFrom(RemoveAt(d, i), i)
  ELSE DropFalseFrom(d, i + 1)

RECURSIVE DropFalseFromNoDecrement(_, _)
DropFalseFromNoDecrement(d, i) ==
  IF i > Len(d) THEN d
  ELSE IF FalseAtom \in ToSet(d[i]) THEN DropFalseFromNoDecrement(RemoveAt(d, i), i + 1)
  ELSE DropFalseFromNoDecrement(d, i + 1)

drop_false_nodec(d) == DropFalseFromNoDecrement(d, 1)
drop_false(d) == DropFalseFrom(d, 1)

\* contained_in_all, the &= over the disjuncts after the first
contained_in_all(d, leaf) == \A j \in 2..Len(d) : leaf \in ToSet(d[j])

(***************************************************************************)
(* The second loop, over the first disjunct by index i.  A leaf found in  *)
(* all the others is added to the common conjunction and every copy of it *)
(* is removed from every disjunct, the first included (the k loop with   *)
(* k--); i-- then looks at index i again.                                 *)
(***************************************************************************)
RECURSIVE Extract(_, _, _)
Extract(d, common, i) ==
  IF i > Len(d[1]) THEN [defined |-> TRUE, common |-> common, rest |-> d]
  ELSE LET leaf == d[1][i]
       IN  IF contained_in_all(d, leaf)
           THEN Extract([j \in 1..Len(d) |-> Remove(d[j], leaf)], Append(common, leaf), i)
           ELSE Extract(d, common, i + 1)

simplify_disjunction(disjs) ==
  LET d == drop_false(disjs)
  IN  IF d = <<>> THEN Undefined ELSE Extract(d, <<>>, 1)

-----------------------------------------------------------------------------

(***************************************************************************)
(* The reference: drop every disjunct that contains false; the common     *)
(* conjuncts are the atoms in every disjunct left; each disjunct keeps,   *)
(* in order, its atoms that are not common.                               *)
(***************************************************************************)
Live(disjs) == SelectSeq(disjs, LAMBDA c : FalseAtom \notin ToSet(c))
CommonAtoms(d) == {a \in Atom : \A j \in DOMAIN d : a \in ToSet(d[j])}
ReferenceRest(d) == [j \in DOMAIN d |-> SelectSeq(d[j], LAMBDA a : a \notin CommonAtoms(d))]

-----------------------------------------------------------------------------
(* Every input the function can be given, one call per behaviour.          *)
VARIABLES disjs, called, result

vars == <<disjs, called, result>>

Init == disjs \in Disjunctions /\ called = FALSE /\ result = Undefined

Simplify ==
  /\ ~called
  /\ called' = TRUE /\ result' = simplify_disjunction(disjs)
  /\ UNCHANGED disjs

Returned == called /\ UNCHANGED vars

Next == Simplify \/ Returned

Spec == Init /\ [][Next]_vars

-----------------------------------------------------------------------------
Called == called

(***************************************************************************)
(* The spec's open question on the contained_in_all extraction: each      *)
(* common conjunct is extracted from every disjunct exactly once, none is *)
(* lost or duplicated.  The result holds the common atoms once each, and  *)
(* every surviving disjunct keeps exactly its other atoms, in order.      *)
(***************************************************************************)
ExtractedExactlyOnce ==
  Called /\ Live(disjs) # <<>> =>
    /\ ToSet(result.common) = CommonAtoms(Live(disjs))
    /\ IsInjective(result.common)
    /\ result.rest = ReferenceRest(Live(disjs))

====
