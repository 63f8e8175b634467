------------------------------ MODULE MC_Ddec ------------------------------
(***************************************************************************)
(* Ddec with a 2-bit register and ZF, over families of program pairs:     *)
(*  - StraightPairs: entry; block 1 `op; retq`; exit.  Every pair of ops,  *)
(*    "cpuid" included, flags live or dead, the one cutpoint choice       *)
(*    {entry, exit}.                                                       *)
(*  - LoopPairs: entry; block 1 `op1; jcc c1 -> 1` (a self loop that      *)
(*    falls through to 2); block 2 `mov; retq`; exit, with the choices    *)
(*    {entry, exit} and then {entry, (1, 1), exit}.                       *)
(*  - BranchPairs: entry; block 1 `op1; jz -> 3`; block 2 `mov; retq`;    *)
(*    block 3 `op3; retq`; exit, with the one choice {entry, exit}.       *)
(*  - NoCutpointPair: a pair for which no cutpoint choice exists.         *)
(* MC_Ddec.cfg checks AllPairs (the branch pairs with ZF dead);            *)
(* MC_DdecBranch.cfg checks the branch pairs with ZF a def-in and live-out.*)
(***************************************************************************)
EXTENDS Ddec

MCWidth == 2
\* bound_ of make_tcs
MCTcBound == 2
\* jump budget of the data runs: long enough to go around a loop of 4 values
MCMaxJumps == 6
\* the sandbox starts with one test case: a register value and ZF
MCCorpora == { {<<v, f>>} : v \in 0..3, f \in BOOLEAN }

\* a function on blocks 0..Len(s)-1 from a tuple
OnBlocks(s) == [b \in 0..(Len(s) - 1) |-> s[b + 1]]

Straight(op) ==
  [succ   |-> OnBlocks(<<<<1>>, <<2>>, <<>>>>),
   instrs |-> OnBlocks(<<0, 1, 0>>),
   op     |-> OnBlocks(<<"id", op, "id">>),
   jcc    |-> OnBlocks(<<"none", "none", "none">>),
   entry  |-> 0, exit |-> 2]

Loop(op1, c1, op2) ==
  [succ   |-> OnBlocks(<<<<1>>, <<2, 1>>, <<3>>, <<>>>>),
   instrs |-> OnBlocks(<<0, 1, 1, 0>>),
   op     |-> OnBlocks(<<"id", op1, op2, "id">>),
   jcc    |-> OnBlocks(<<"none", c1, "none", "none">>),
   entry  |-> 0, exit |-> 3]

Branch(op1, c1, op2, op3) ==
  [succ   |-> OnBlocks(<<<<1>>, <<2, 3>>, <<4>>, <<4>>, <<>>>>),
   instrs |-> OnBlocks(<<0, 1, 1, 1, 0>>),
   op     |-> OnBlocks(<<"id", op1, op2, op3, "id">>),
   jcc    |-> OnBlocks(<<"none", c1, "none", "none", "none">>),
   entry  |-> 0, exit |-> 4]

StraightOps == {"id", "inc", "dec", "zero", "cpuid"}
LoopOps == {"id", "inc", "dec"}

StraightPairs ==
  { [target |-> Straight(a), rewrite |-> Straight(b), flags |-> f,
     cuts |-> << <<<<0, 0>>, <<2, 2>>>> >>] : a, b \in StraightOps, f \in BOOLEAN }

\* loops on jnz that count up, count down, or spin on the input's ZF, and
\* one on jz that repeats only when the increment wraps to zero
LoopPrograms == { Loop(o, "nz", "id") : o \in LoopOps } \cup {Loop("inc", "z", "id")}

LoopPairs ==
  { [target |-> t, rewrite |-> r, flags |-> FALSE,
     cuts |-> << <<<<0, 0>>, <<3, 3>>>>, <<<<0, 0>>, <<1, 1>>, <<3, 3>>>> >>]
    : t, r \in LoopPrograms }

\* a pair for which no cutpoint choice is found (new Cutpoints fails)
NoCutpointPair ==
  [target |-> Straight("inc"), rewrite |-> Straight("dec"), flags |-> FALSE, cuts |-> <<>>]

\* branch programs jumping on jz to an `op3` arm, the fallthrough arm a mov;
\* op1 either leaves ZF as the input had it or sets it
BranchPrograms ==
  { Branch(o1, "z", "id", o3) : o1 \in {"id", "zero"}, o3 \in {"id", "zero"} }

\* flags: whether ZF is a def-in and live-out
BranchPairs(flags) ==
  { [target |-> t, rewrite |-> r, flags |-> f, cuts |-> << <<<<0, 0>>, <<4, 4>>>> >>]
    : t, r \in BranchPrograms, f \in flags }

BranchPairsFlagsLive == BranchPairs({TRUE})
BranchPairsFlagsDead == BranchPairs({FALSE})

AllPairs == StraightPairs \cup LoopPairs \cup BranchPairsFlagsDead \cup {NoCutpointPair}

=============================================================================
