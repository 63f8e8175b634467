---------------------------- MODULE MC_StateGen ----------------------------
(***************************************************************************)
(* StateGen over a 10-bit address space: rsp = 768 stands for 0x700000000 *)
(* and the empty heap at 512 for 0x100000000; the stack is 16 bytes below  *)
(* rsp and a region may grow to 64 bytes.  The programs exercise every     *)
(* path of the loop and of fix:                                            *)
(*  - a load through rbx (heap allocation, growth into the stack window,   *)
(*    relocation for an address near 0),                                   *)
(*  - two loads through rbx 6 bytes apart (two regions that would overlap),*)
(*  - aligned 16- and 32-byte loads with displacement 0, 8 and 8/24 (the   *)
(*    misalignment fix, and two accesses that undo each other's fix),     *)
(*  - push/pop around an rsp-relative load, a division, an implicit       *)
(*    dereference, and a program the sandbox cannot link.                  *)
(***************************************************************************)
EXTENDS StateGen, TLC

MCW == 10
MCRsp == 768
MCHeapBase == 512
MCStackSize == 16
MCMaxMemory == 64
MCMaxAttempts == 2
\* small, misaligned, below the stack window, above the stack (an access
\* that crosses the top of the address space is not modelled)
MCRegValues == {0, 4, 36, 700, 900}

\* registers of three 2-bit bytes; maxima whose bytes are not ordered like
\* the value (3 = <<3,0,0>>, 17 = <<1,0,1>>, 40 = <<0,2,2>>) and masks
MCByteBits == 2
MCRegBytes == 3
MCLimits ==
  {[max_register_values |-> mx, bitmask_values |-> mk] :
     mx \in {<<>>, "rbx" :> 3, "rbx" :> 17, "rbx" :> 40},
     mk \in {<<>>, "rbx" :> 45, "rbx" :> 6}}

Ins(op, base, disp, size) == [op |-> op, base |-> base, disp |-> disp, size |-> size]
Ld(base, disp, size) == Ins("mem", base, disp, size)
Ret == Ins("ret", "none", 0, 8)
Prog(code) == [code |-> code, linked |-> TRUE]

MCPrograms ==
  { Prog(<<Ld("rbx", 0, 8), Ret>>),
    Prog(<<Ld("rbx", 0, 8), Ld("rbx", 6, 8), Ret>>),
    Prog(<<Ld("rbx", 0, 16), Ret>>),
    Prog(<<Ld("rbx", 8, 16), Ret>>),
    Prog(<<Ld("rbx", 8, 32), Ld("rbx", 24, 32), Ret>>),
    Prog(<<Ins("push", "none", 0, 8), Ld("rsp", 8, 8), Ins("pop", "none", 0, 8), Ret>>),
    Prog(<<Ins("div", "none", 0, 8), Ret>>),
    Prog(<<Ins("implicit", "rbx", 0, 8), Ret>>),
    [code |-> <<Ret>>, linked |-> FALSE] }

=============================================================================
