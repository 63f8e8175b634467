---------------------------- MODULE MC_CfgPaths ----------------------------
(***************************************************************************)
(* Model of CfgPaths over every control-flow graph of NBlocks blocks of the *)
(* shape stoke builds: block 0 is the empty entry block with the single   *)
(* successor 1, the last block is the empty exit block with no successor, *)
(* and every interior block holds one instruction and ends in a           *)
(* fallthrough, an unconditional jump or a conditional jump (fallthrough  *)
(* successor first, then the jump target).  A jump may target any block   *)
(* but the entry, which has no predecessors.                              *)
(***************************************************************************)
EXTENDS Naturals, Sequences

\* number of blocks, entry and exit included
NBlocks == 5
\* largest revisit bound compared
MCKMax == 4

Entry == 0
Exit == NBlocks - 1
Interior == 1..(NBlocks - 2)

\* terminators of interior block b: the successor sequence
Terminators(b) ==
  { <<t>> : t \in 1..Exit } \cup { <<b + 1, t>> : t \in (1..Exit) \ {b + 1} }

MCCfgs ==
  { [succ   |-> [b \in 0..Exit |-> IF b = Entry THEN <<1>>
                                   ELSE IF b = Exit THEN <<>> ELSE term[b]],
     instrs |-> [b \in 0..Exit |-> IF b \in Interior THEN 1 ELSE 0],
     entry  |-> Entry, exit |-> Exit]
    : term \in { f \in [Interior -> UNION { Terminators(b) : b \in Interior }] :
                  \A b \in Interior : f[b] \in Terminators(b) } }

VARIABLES cfg, start, end, nopass, results, called

INSTANCE CfgPaths WITH Cfgs <- MCCfgs, KMax <- MCKMax
=============================================================================
