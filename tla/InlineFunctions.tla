--------------------------- MODULE InlineFunctions ---------------------------
(***************************************************************************)
(* Validator::inline_functions (src/src/validator/validator.cc): replace  *)
(* every call of a fragment by push rbp, a copy of the callee whose rets   *)
(* become jumps to a fresh end label and whose label operands are renamed  *)
(* apart, the end label's definition, and pop rbp.                         *)
(*                                                                         *)
(* Instructions and frames are CallRet's; an original label is <<old>>.  *)
(* The label "%%INLINE%%_<id>_<old>" is <<"inline", id, old>> and          *)
(* "%%END%%_<id>" is <<"end", id>>: the strings                            *)
(* are distinct for distinct (id, old) since id has only digits.  Along    *)
(* with each instruction the loop is made to record `at`, the call stack  *)
(* of the original fragment the instruction stands for; it is not in the   *)
(* code, and serves as the refinement mapping.                             *)
(*                                                                         *)
(* The state machine is the inlined fragment run as a flat stream, as the *)
(* path enumeration and the solver treat it: pc is its next instruction,  *)
(* 0 once it has returned.                                                 *)
(***************************************************************************)
EXTENDS Naturals, Sequences

CONSTANTS Programs, Functions

VARIABLES prog, pc

Ins(op, arg) == [op |-> op, arg |-> arg]
PushRbp == Ins("push_rbp", <<>>)
PopRbp == Ins("pop_rbp", <<>>)

\* the instructions whose operand is a Label (Type::LABEL)
HasLabel(ins) == ins.op \in {"label", "jmp", "jcc", "call"}

Frame(fn, k) == [fn |-> fn, pc |-> k]

-----------------------------------------------------------------------------
\* the label renamed for copy unique_id
RenameLabelKept(unique_id, old_label) == old_label
RenameLabel(unique_id, old_label) == <<"inline", unique_id, old_label>>

\* one callee instruction of copy unique_id: ret jumps to the end label
InlineInstr(instr, unique_id, end_label) ==
  CASE instr.op = "ret" -> Ins("jmp", end_label)
    [] HasLabel(instr)  -> [instr EXCEPT !.arg = RenameLabel(unique_id, instr.arg)]
    [] OTHER            -> instr

(***************************************************************************)
(* The loop over old_code from index i with the next unique_id.  The      *)
(* callee is sandbox_->get_function(label); the code asserts it exists.    *)
(***************************************************************************)
RECURSIVE InlineFrom(_, _, _, _)
InlineFrom(old_code, fns, i, unique_id) ==
  IF i > Len(old_code) THEN <<>>
  ELSE IF old_code[i].op = "call"
  THEN LET callee == old_code[i].arg
           inline_code == fns[callee]
           end_label == <<"end", unique_id>>
           back == <<Frame(<<>>, i + 1)>>
       IN  << [ins |-> PushRbp, at |-> <<Frame(<<>>, i)>>] >>
           \o [j \in DOMAIN inline_code |->
                 [ins |-> InlineInstr(inline_code[j], unique_id, end_label),
                  at  |-> back \o <<Frame(callee, j)>>]]
           \o << [ins |-> Ins("label", end_label), at |-> back],
                 [ins |-> PopRbp, at |-> back] >>
           \o InlineFrom(old_code, fns, i + 1, unique_id + 1)
  ELSE << [ins |-> old_code[i], at |-> <<Frame(<<>>, i)>>] >>
       \o InlineFrom(old_code, fns, i + 1, unique_id)

inline_functions(old_code, fns) == InlineFrom(old_code, fns, 1, 0)

-----------------------------------------------------------------------------
\* the inlined fragments, computed once
Inlined == [p \in Programs |-> inline_functions(p, Functions)]

Code == [k \in DOMAIN Inlined[prog] |-> Inlined[prog][k].ins]
Current == Code[pc]
Running == pc \in DOMAIN Code

Init == prog \in Programs /\ pc = 1

FlatAdvance ==
  /\ Running
  /\ Current.op \in {"op", "label", "push_rbp", "pop_rbp", "jcc"}
  /\ pc' = pc + 1
  /\ UNCHANGED prog

\* a label defined more than once: the assembler may bind either definition
FlatJump ==
  /\ Running
  /\ Current.op \in {"jmp", "jcc"}
  /\ \E k \in DOMAIN Code : Code[k] = Ins("label", Current.arg) /\ pc' = k
  /\ UNCHANGED prog

\* the fragment's own ret
FlatRet ==
  /\ Running
  /\ Current.op = "ret"
  /\ pc' = 0
  /\ UNCHANGED prog

\* the fragment has returned to the sandbox
Returned == pc = 0 /\ UNCHANGED <<prog, pc>>

Next == FlatAdvance \/ FlatJump \/ FlatRet \/ Returned

Spec == Init /\ [][Next]_<<prog, pc>>

-----------------------------------------------------------------------------
\* the original call stack at pc; past the end, main past its end
Frames ==
  CASE pc = 0 -> <<>>
    [] Running -> Inlined[prog][pc].at
    [] OTHER   -> <<Frame(<<>>, Len(prog) + 1)>>

Original == INSTANCE CallRet WITH frames <- Frames

(***************************************************************************)
(* Spec 5, step 1: inlining removes the calls without changing the control *)
(* flow.  Every run of the flat fragment is a run of the original with     *)
(* calls and rets: a jump of a copy lands in the same copy, its rets       *)
(* resume after its own call.  This is about the renaming of label        *)
(* operands with unique_id (validator.cc lines 265-273, 281) and the end   *)
(* label (lines 254-256, 262, 278).                                        *)
(***************************************************************************)
ImplementsCallRet == Original!Spec

====
