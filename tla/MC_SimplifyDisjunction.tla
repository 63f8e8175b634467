------------------------ MODULE MC_SimplifyDisjunction ------------------------
(***************************************************************************)
(* Every disjunction of at most three disjuncts, each of at most two      *)
(* atoms drawn from a, b and false: repeated atoms in one disjunct,       *)
(* false anywhere, a single disjunct, and all disjuncts false.           *)
(***************************************************************************)
EXTENDS SimplifyDisjunction

CONSTANTS a, b, f

MCAtoms == {a, b}
MCMaxConj == 2
MCMaxDisj == 3
====
