---------------------------- MODULE MC_Validator ----------------------------
(***************************************************************************)
(* The two helpers of the Validator base class modelled here, side by     *)
(* side: memory_map_to_testcase on MC_MemoryMap's maps and                 *)
(* inline_functions on the fragments below.  They share no state; a step  *)
(* is a step of one of them.                                               *)
(*                                                                         *)
(* The fragments give every case of the renaming: a caller and a callee   *)
(* that both define L, a callee called twice, a callee with two rets and a *)
(* forward jump, and a fragment with no call.  Callees call nothing.       *)
(***************************************************************************)
EXTENDS MC_MemoryMap

Op == [op |-> "op", arg |-> <<>>]
Lbl(l) == [op |-> "label", arg |-> <<l>>]
Jmp(l) == [op |-> "jmp", arg |-> <<l>>]
Jcc(l) == [op |-> "jcc", arg |-> <<l>>]
Call(f) == [op |-> "call", arg |-> <<f>>]
Ret == [op |-> "ret", arg |-> <<>>]

MCFunctions ==
  [f \in {<<"f">>, <<"g">>} |->
     IF f = <<"f">> THEN <<Lbl("L"), Op, Jcc("L"), Ret>>
     ELSE <<Jcc("K"), Op, Ret, Lbl("K"), Ret>>]

MCPrograms ==
  { <<Lbl("L"), Op, Call("f"), Jcc("L"), Ret>>,
    <<Call("f"), Call("g"), Ret>>,
    <<Call("f"), Call("f"), Ret>>,
    <<Jmp("K"), Op, Lbl("K"), Ret>> }

VARIABLES prog, pc, active

Inline == INSTANCE InlineFunctions WITH Programs <- MCPrograms, Functions <- MCFunctions

\* the inlined fragments, evaluated once when the model is loaded
MCInlined == [p \in MCPrograms |-> Inline!inline_functions(p, MCFunctions)]

(***************************************************************************)
(* A run is a call of one helper; the other stays in an initial state      *)
(* (an empty solver model, the first fragment).  Since the helpers share   *)
(* no state, each property, about one of them, holds here exactly when it *)
(* holds of their interleaving.                                            *)
(***************************************************************************)
IdleProgram == <<Call("f"), Call("g"), Ret>>

ValidatorInit ==
  /\ active \in {"memory_map", "inline"}
  /\ Init /\ Inline!Init
  /\ active = "inline" => concrete = <<>>
  /\ active = "memory_map" => prog = IdleProgram

ValidatorNext ==
  /\ UNCHANGED active
  /\ \/ active = "memory_map" /\ Next /\ UNCHANGED <<prog, pc>>
     \/ active = "inline" /\ Inline!Next /\ UNCHANGED vars

ValidatorSpec == ValidatorInit /\ [][ValidatorNext]_<<vars, prog, pc, active>>

(***************************************************************************)
(* InlineFunctions' ImplementsCallRet on these fragments: the flat code   *)
(* inline_functions builds runs as the original with calls and rets.      *)
(***************************************************************************)
ImplementsCallRet == Inline!ImplementsCallRet
====
