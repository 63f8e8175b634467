----------------------------- MODULE MC_CpuState -----------------------------
(***************************************************************************)
(* A 4-bit address space with one general purpose register of 2 bits and *)
(* bytes of one bit.  Every state has the layout memory_map_to_testcase   *)
(* gives a counterexample with five segments: heap [0,2), stack [4,6),     *)
(* data [8,9) and the extra segments [10,12) and [13,15); the gaps leave  *)
(* accesses that no region holds, and two-byte accesses that straddle a   *)
(* region's end.  The states differ in the register, in the bytes of each *)
(* region, in one invalid stack byte, and (S0 and S2) only in an extra     *)
(* segment.                                                               *)
(***************************************************************************)
EXTENDS CpuState

MkMem(lb, bs, vs) ==
  [lb |-> lb, size |-> Len(bs),
   bytes |-> [k \in 0..(Len(bs) - 1) |-> bs[k + 1]],
   valid |-> [k \in 0..(Len(vs) - 1) |-> vs[k + 1]]]

MkState(g, h, s, d, e1, e2, sv) ==
  [gp |-> [i \in {0} |-> g],
   heap |-> MkMem(0, h, <<TRUE, TRUE>>),
   stack |-> MkMem(4, s, sv),
   data |-> MkMem(8, d, <<TRUE>>),
   segments |-> <<MkMem(10, e1, <<TRUE, TRUE>>), MkMem(13, e2, <<TRUE, TRUE>>)>>]

S0 == MkState(0, <<0, 0>>, <<0, 0>>, <<0>>, <<0, 0>>, <<0, 0>>, <<TRUE, TRUE>>)
S1 == MkState(1, <<1, 0>>, <<0, 1>>, <<1>>, <<1, 1>>, <<0, 1>>, <<TRUE, FALSE>>)
S2 == MkState(0, <<0, 0>>, <<0, 0>>, <<0>>, <<1, 0>>, <<0, 0>>, <<TRUE, TRUE>>)

MCW == 4
MCByte == {0, 1}
MCOthers == {S0, S1, S2}
MCAccesses == {[addr |-> a, n |-> n] : a \in 0..15, n \in {1, 2}}
====
