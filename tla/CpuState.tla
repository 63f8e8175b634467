------------------------------- MODULE CpuState -------------------------------
(***************************************************************************)
(* struct CpuState (src/src/state/cpu_state.h): operator^=, operator==,   *)
(* and the three memory-operand queries in_range, is_valid and            *)
(* operator[](Mem), each of which builds the vector my_segments of        *)
(* pointers to heap, stack, data and the extra segments and dispatches to *)
(* the first one holding both ends of the access.                         *)
(*                                                                         *)
(* The state has the shape of MachineState's: gp, heap, stack, data and   *)
(* segments, a Memory being [lb, size, bytes, valid] over its offsets.     *)
(* The error code, sse and rf are left out; get_addr has been applied, so *)
(* an operand is [addr, n] with n = m.size()/8.                           *)
(*                                                                         *)
(* The loops at lines 189, 211 and 237 push &it, the address of a copy of *)
(* the segment that is destroyed at the end of each turn.  Reading        *)
(* through it is undefined behaviour; the outcomes modelled are the ones  *)
(* a build produces: the copies share one stack slot, so every pointer    *)
(* sees the window of the last copy, or each has its own slot and sees    *)
(* its own window; either way the bytes and validity bits live in freed   *)
(* storage and read as anything.                                          *)
(***************************************************************************)
EXTENDS Naturals, Sequences, SequencesExt, Bitwise

CONSTANTS W, Byte, Others, Accesses

VARIABLES cs, answer

vars == <<cs, answer>>

M == 2 ^ W

NoAnswer == [op |-> "none", arg |-> [addr |-> 0, n |-> 0], ok |-> FALSE, bytes |-> <<>>]

\* Memory::in_range and Memory::operator^=, bit-wise over the byte vectors
InRangeOf(r, addr) == r.lb <= addr /\ addr < r.lb + r.size
MemXor(r, q) ==
  [r EXCEPT !.bytes = [k \in DOMAIN r.bytes |->
                         IF k \in DOMAIN q.bytes THEN r.bytes[k] ^^ q.bytes[k]
                         ELSE r.bytes[k]]]

\* the last byte of the access, addr + size/8 - 1 in uint64_t
LastByte(acc) == (acc.addr + acc.n - 1) % M

-----------------------------------------------------------------------------
(***************************************************************************)
(* my_segments: heap, stack and data by address, then one pointer per     *)
(* extra segment.  A pointer to a destroyed copy is [alive |-> FALSE] with *)
(* the window it is seen to have.                                          *)
(***************************************************************************)
Live(r) == [lb |-> r.lb, size |-> r.size, alive |-> TRUE, bytes |-> r.bytes, valid |-> r.valid]
Dead(r) == [lb |-> r.lb, size |-> r.size, alive |-> FALSE]

my_segments(sharedSlot) ==
  <<Live(cs.heap), Live(cs.stack), Live(cs.data)>> \o
    [k \in DOMAIN cs.segments |->
       Dead(IF sharedSlot THEN Last(cs.segments) ELSE cs.segments[k])]

Holds(p, acc) == InRangeOf(p, acc.addr) /\ InRangeOf(p, LastByte(acc))

\* the segment the loop stops at, 0 when it runs off the end
FirstHolding(ps, acc) ==
  IF \E k \in DOMAIN ps : Holds(ps[k], acc)
  THEN CHOOSE k \in DOMAIN ps : Holds(ps[k], acc) /\ \A j \in 1..(k - 1) : ~Holds(ps[j], acc)
  ELSE 0

ByteOf(p, x) == p.bytes[x - p.lb]

-----------------------------------------------------------------------------
Init == cs \in Others /\ answer = NoAnswer

\* operator^=: note the heap line
XorAssign(rhs) ==
  /\ cs' = [gp       |-> [i \in DOMAIN cs.gp |-> cs.gp[i] ^^ rhs.gp[i]],
            stack    |-> MemXor(cs.stack, rhs.stack),
            heap     |-> MemXor(cs.heap, rhs.stack),
            data     |-> MemXor(cs.data, rhs.data),
            segments |-> cs.segments]
  /\ UNCHANGED answer

\* operator==, with the error code equal on both sides
Equal(rhs) ==
  /\ answer' = [op |-> "eq", arg |-> rhs,
                ok |-> /\ cs.gp = rhs.gp /\ cs.stack = rhs.stack
                       /\ cs.heap = rhs.heap /\ cs.data = rhs.data,
                bytes |-> <<>>]
  /\ UNCHANGED cs

in_range(acc) ==
  /\ \E shared \in BOOLEAN :
       answer' = [op |-> "in_range", arg |-> acc, ok |-> FirstHolding(my_segments(shared), acc) # 0,
                  bytes |-> <<>>]
  /\ UNCHANGED cs

\* the first segment holding the access decides; a freed one's bits are anything
is_valid(acc) ==
  /\ \E shared \in BOOLEAN :
       LET ps == my_segments(shared)
           k == FirstHolding(ps, acc)
       IN  \E freed \in BOOLEAN :
             answer' = [op |-> "is_valid", arg |-> acc,
                        ok |-> CASE k = 0 -> FALSE
                                 [] ps[k].alive ->
                                      \A x \in 0..(acc.n - 1) : ps[k].valid[((acc.addr + x) % M) - ps[k].lb]
                                 [] OTHER -> freed,
                        bytes |-> <<>>]
  /\ UNCHANGED cs

\* operator[](Mem); past the loop, assert(false) and, under NDEBUG, zeros
ReadMem(acc) ==
  /\ \E shared \in BOOLEAN :
       LET ps == my_segments(shared)
           k == FirstHolding(ps, acc)
       IN  \/ /\ k # 0 /\ ps[k].alive
              /\ answer' = [op |-> "read", arg |-> acc, ok |-> TRUE,
                            bytes |-> [i \in 1..acc.n |-> ByteOf(ps[k], (acc.addr + i - 1) % M)]]
           \/ /\ k # 0 /\ ~ps[k].alive
              /\ \E v \in [1..acc.n -> Byte] : answer' = [op |-> "read", arg |-> acc, ok |-> TRUE, bytes |-> v]
           \/ /\ k = 0
              /\ answer' = [op |-> "read", arg |-> acc, ok |-> TRUE, bytes |-> [i \in 1..acc.n |-> 0]]
  /\ UNCHANGED cs

Next ==
  \/ \E rhs \in Others : XorAssign(rhs) \/ Equal(rhs)
  \/ \E acc \in Accesses : in_range(acc) \/ is_valid(acc) \/ ReadMem(acc)

Spec == Init /\ [][Next]_vars

-----------------------------------------------------------------------------
Machine == INSTANCE MachineState WITH st <- cs

(***************************************************************************)
(* Spec 4.2: CpuState implements the Machine State.  Every ^= is the      *)
(* bit-wise XOR of every region with its namesake, every == compares      *)
(* every component, and every memory query answers from a region holding  *)
(* the access.  This is about operator^= (line 44), operator== (lines     *)
(* 56-60) and the &it pointers of the dispatch loops (lines 189-191,      *)
(* 211-213, 237-239).                                                     *)
(***************************************************************************)
ImplementsMachineState == Machine!Spec

====
