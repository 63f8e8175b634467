------------------------------- MODULE CallRet -------------------------------
(***************************************************************************)
(* The control flow of a code fragment that calls functions, as the       *)
(* validator sees it before inlining (spec 5, step 1): a call pushes a     *)
(* return point and enters the callee, a ret resumes the caller after the *)
(* call, a jump goes to a definition of its label in the same function,   *)
(* and a conditional jump may go either way.  Data is left out.            *)
(*                                                                         *)
(* An instruction is [op |-> "op" | "label" | "jmp" | "jcc" | "call" |     *)
(* "ret" | "push_rbp" | "pop_rbp", arg |-> its label operand, <<>> if     *)
(* none]; a label is a tuple.  A frame is [fn |-> the function's label,    *)
(* <<>> for main, pc |-> index of its next                                 *)
(* instruction]; frames is the call stack, empty once main has returned.   *)
(***************************************************************************)
EXTENDS Naturals, Sequences

CONSTANTS
  Programs,    \* the fragments (main) the validator is given
  Functions    \* the sandbox's functions: label -> code

VARIABLES prog, frames

CodeOf(fr) == IF fr.fn = <<>> THEN prog ELSE Functions[fr.fn]

\* the positions of the definitions of label l in code
Defs(code, l) == {k \in DOMAIN code : code[k] = [op |-> "label", arg |-> l]}

Top == frames[Len(frames)]
Running == frames # <<>> /\ Top.pc \in DOMAIN CodeOf(Top)
Current == CodeOf(Top)[Top.pc]
Goto(k) == frames' = [frames EXCEPT ![Len(frames)].pc = k]

Init == prog \in Programs /\ frames = <<[fn |-> <<>>, pc |-> 1]>>

\* an instruction that falls through, or a conditional jump not taken
Advance ==
  /\ Running
  /\ Current.op \in {"op", "label", "push_rbp", "pop_rbp", "jcc"}
  /\ Goto(Top.pc + 1)
  /\ UNCHANGED prog

Jump ==
  /\ Running
  /\ Current.op \in {"jmp", "jcc"}
  /\ \E k \in Defs(CodeOf(Top), Current.arg) : Goto(k)
  /\ UNCHANGED prog

Call ==
  /\ Running
  /\ Current.op = "call"
  /\ frames' = Append([frames EXCEPT ![Len(frames)].pc = Top.pc + 1],
                      [fn |-> Current.arg, pc |-> 1])
  /\ UNCHANGED prog

Ret ==
  /\ Running
  /\ Current.op = "ret"
  /\ frames' = SubSeq(frames, 1, Len(frames) - 1)
  /\ UNCHANGED prog

Next == Advance \/ Jump \/ Call \/ Ret

Spec == Init /\ [][Next]_<<prog, frames>>

====
