------------------------------ MODULE MemoryMap ------------------------------
(***************************************************************************)
(* Validator::memory_map_to_testcase (src/src/validator/validator.cc):    *)
(* turn the concrete memory of a solver model, a map from address to the  *)
(* bytes read there, into the stack, heap, data and extra segments of a    *)
(* counterexample CpuState.                                               *)
(*                                                                         *)
(* Addresses are W bits wide (uint64_t scaled down); a map entry is an     *)
(* address with its BitVector's byte count.  A Memory is its window       *)
(* [lb |-> lower bound, size |-> bytes].  Byte values and valid bits are  *)
(* left out: every byte the loop writes lies in the window of             *)
(* last_segment, so the windows say which bytes the state maps.           *)
(***************************************************************************)
EXTENDS Naturals, Sequences, SequencesExt, FiniteSets

CONSTANTS
  W,           \* address width in bits
  Concretes,   \* the concrete maps the solver may return
  Rsp,         \* 0x700000000, where the empty stack is placed
  HeapBase     \* 0x100000000, where the empty heap is placed

M == 2 ^ W

Mem(lb, size) == [lb |-> lb, size |-> size]
Window(m) == {m.lb + k : k \in 0..(m.size - 1)}

\* the bytes of a map entry
Bytes(a, size) == {a + k : k \in 0..(size - 1)}

-----------------------------------------------------------------------------
VARIABLES
  concrete,    \* the map
  i,           \* the loop index into concrete_vector
  segments,    \* vector<Memory> segments
  last,        \* last_segment, as an index into segments
  maxAddr,     \* max_addr
  cs,          \* the CpuState's stack, heap, data and extra segments
  phase        \* "start", "loop", then "done"

vars == <<concrete, i, segments, last, maxAddr, cs, phase>>

\* concrete_vector after the sort; the keys of a std::map are distinct
Vec == SetToSortSeq(DOMAIN concrete, <)
Size(k) == concrete[Vec[k]]

\* case 1: the access lies below max_addr, and neither end has wrapped
Inside(address, size, max) == address < max /\ (address + size) % M <= max

\* case 2: address - max_addr < 32, in unsigned arithmetic
Adjacent(address, max) == (address + M - max) % M < 32

\* the expanded size, address + size - last_segment->lower_bound()
ExpandSizeNoAccess(lb, address, size) == (address + M - lb) % M
ExpandSize(lb, address, size) == (address + size + M - lb) % M

\* push_back a new segment; last_segment is taken again after the push
StartSegment(segs, lst, address, size) ==
  [segments |-> Append(segs, Mem(address, size)), last |-> Len(segs) + 1]

Init ==
  /\ concrete \in Concretes
  /\ i = 1
  /\ segments = <<>>
  /\ last = 0
  /\ maxAddr = 0
  /\ cs = [stack |-> Mem(Rsp, 0), heap |-> Mem(HeapBase, 0), data |-> Mem(0, 0),
           extra |-> <<>>]
  /\ phase = "start"

\* the resizes of lines 98-100 are Init; an empty map returns at once,
\* otherwise the first segment is built from the lowest entry
Start ==
  /\ phase = "start"
  /\ IF DOMAIN concrete = {}
     THEN /\ phase' = "done"
          /\ UNCHANGED <<i, segments, last, maxAddr>>
     ELSE /\ segments' = <<Mem(Vec[1], Size(1))>>
          /\ last' = 1
          /\ maxAddr' = (Vec[1] + Size(1)) % M
          /\ i' = 2
          /\ phase' = "loop"
  /\ UNCHANGED <<concrete, cs>>

\* one turn of the loop over the remaining entries
Step ==
  /\ phase = "loop"
  /\ i <= Len(Vec)
  /\ LET address == Vec[i]
         size == Size(i)
         seg == segments[last]
     IN  /\ CASE Inside(address, size, maxAddr) ->
                   UNCHANGED <<segments, last>>
              [] Adjacent(address, maxAddr) ->
                   /\ segments' = [segments EXCEPT ![last] =
                                     Mem(seg.lb, ExpandSize(seg.lb, address, size))]
                   /\ UNCHANGED last
              [] OTHER ->
                   LET n == StartSegment(segments, last, address, size)
                   IN  segments' = n.segments /\ last' = n.last
         /\ maxAddr' = (address + size) % M
  /\ i' = i + 1
  /\ UNCHANGED <<concrete, cs, phase>>

\* the fall-through switch: heap, stack, data, then the extra segments
Assign ==
  /\ phase = "loop"
  /\ i > Len(Vec)
  /\ cs' = [heap  |-> segments[1],
            stack |-> IF Len(segments) >= 2 THEN segments[2] ELSE cs.stack,
            data  |-> IF Len(segments) >= 3 THEN segments[3] ELSE cs.data,
            extra |-> SubSeq(segments, 4, Len(segments))]
  /\ phase' = "done"
  /\ UNCHANGED <<concrete, i, segments, last, maxAddr>>

Done == phase = "done" /\ UNCHANGED vars

Next == Start \/ Step \/ Assign \/ Done

Spec == Init /\ [][Next]_vars

-----------------------------------------------------------------------------
Regions(c) == {c.stack, c.heap, c.data} \cup ToSet(c.extra)

(***************************************************************************)
(* The counterexample maps every byte the solver's model read: each byte  *)
(* of each entry lies in the window of one of the state's regions.  This  *)
(* is about the case analysis at lines 151-160 and the resize of case 2.  *)
(***************************************************************************)
AllBytesMapped ==
  phase = "done" =>
    \A a \in DOMAIN concrete :
      Bytes(a, concrete[a]) \subseteq UNION {Window(m) : m \in Regions(cs)}

(***************************************************************************)
(* Spec 4.2: a memory access dispatches to the region whose range holds   *)
(* it, so the counterexample must give each byte the solver's model read  *)
(* exactly one home: every byte of every entry lies in the window of      *)
(* exactly one of heap, stack, data and the extra segments.  This is      *)
(* about overlapping reads of the same memory at different widths, which  *)
(* the case analysis at lines 151-160 meets.                              *)
(***************************************************************************)
RegionSeq(c) == <<c.heap, c.stack, c.data>> \o c.extra

EachByteMappedOnce ==
  phase = "done" =>
    \A a \in DOMAIN concrete : \A x \in Bytes(a, concrete[a]) :
      Cardinality({k \in DOMAIN RegionSeq(cs) : x \in Window(RegionSeq(cs)[k])}) = 1

====
