------------------------------- MODULE StateGen -------------------------------
(***************************************************************************)
(* The state generator's search for an input on which a code fragment runs *)
(* without faulting (src/src/stategen/stategen.cc, StateGen::get(cs, cfg)  *)
(* and the repairs it calls).                                              *)
(*                                                                         *)
(* Addresses and size_t arithmetic are W bits wide (uint64_t scaled down). *)
(* A state has two general registers, rbx (random) and rsp (fixed high), a *)
(* stack and a heap region [lb |-> lower bound, size |-> bytes]; the data  *)
(* region is empty and never contains an address.  A program is a          *)
(* sequence of instructions                                                *)
(*   [op |-> "mem" | "implicit" | "push" | "pop" | "div" | "ret",          *)
(*    base |-> "rbx" | "rsp" | "none", disp |-> d, size |-> bytes]         *)
(* and a flag `linked`: whether the sandbox can link it.  16- and 32-byte  *)
(* accesses are the aligned SSE/AVX forms.                                 *)
(***************************************************************************)
EXTENDS Naturals, Sequences, Bitwise

CONSTANTS
  W,            \* address width in bits
  Programs,     \* the cfgs StateGen::get(cs, cfg) is asked about
  RegValues,    \* the values gen_() may give rbx
  Rsp,          \* the fixed high value of rsp (0x700000000)
  HeapBase,     \* lower bound of the empty default heap (0x100000000)
  StackSize,    \* stack_size_
  MaxMemory,    \* max_memory_
  MaxAttempts,  \* max_attempts_
  ByteBits,     \* bits of a byte of a register (8, scaled down)
  RegBytes,     \* bytes of a general register (num_fixed_bytes, 8)
  Limits        \* the maps set_max_value and set_bitmask may have built:
                \* [max_register_values |-> f, bitmask_values |-> g]

M == 2 ^ W
Addr == 0..(M - 1)
\* no line index: the callback has not written last_line_index
Undef == 0

ASSUME RegValues \subseteq Addr /\ {Rsp, HeapBase} \subseteq Addr
ASSUME StackSize \in 1..Rsp /\ MaxMemory \in Nat /\ MaxAttempts \in Nat

-----------------------------------------------------------------------------
(* Memory (src/ext: not in this repository): a window [lb, lb + size).     *)

UpperBound(m) == (m.lb + m.size) % M
InRange(m, a) == m.lb <= a /\ a < m.lb + m.size
Mem(lb, size) == [lb |-> lb, size |-> size]

\* already_allocated and is_misaligned (stategen.h)
already_allocated(m, a, size) == InRange(m, a) /\ InRange(m, (a + size - 1) % M)
is_misaligned(a, size) == (size = 16 /\ a % 16 # 0) \/ (size = 32 /\ a % 32 # 0)

-----------------------------------------------------------------------------
(* The sandbox (not in this repository): run the program from line 1,      *)
(* calling the before-callback with each line; stop at the first fault.    *)

\* the address an instruction touches, from the registers before it runs
AddrOf(ins, regs) ==
  CASE ins.op = "push"        -> (regs.rsp + M - 8) % M
    [] ins.op = "pop"         -> regs.rsp
    [] OTHER                  -> (regs[ins.base] + ins.disp) % M

Allocated(cs, a, size) == \E m \in {cs.stack, cs.heap} : already_allocated(m, a, size)

Accessible(cs, ins, regs) ==
  ~is_misaligned(AddrOf(ins, regs), ins.size) /\
  Allocated(cs, AddrOf(ins, regs), ins.size)

\* the output: error code, the last line whose callback ran, the registers
RECURSIVE RunFrom(_, _, _, _)
RunFrom(code, k, regs, cs) ==
  LET ins == code[k]
      stop(c) == [code |-> c, line |-> k, regs |-> regs]
  IN  CASE ins.op = "ret" -> stop("NORMAL")
        [] ins.op = "div" /\ regs.rbx = 0 -> stop("SIGFPE")
        [] ins.op \in {"mem", "implicit", "push", "pop"} /\ ~Accessible(cs, ins, regs)
             -> stop("SIGSEGV")
        [] ins.op = "push" -> RunFrom(code, k + 1, [regs EXCEPT !.rsp = (@ + M - 8) % M], cs)
        [] ins.op = "pop"  -> RunFrom(code, k + 1, [regs EXCEPT !.rsp = (@ + 8) % M], cs)
        [] OTHER           -> RunFrom(code, k + 1, regs, cs)

\* run_one(0): an unlinked program never runs, so no callback fires
Run(prog, cs) ==
  IF prog.linked THEN RunFrom(prog.code, 1, [rbx |-> cs.rbx, rsp |-> cs.rsp], cs)
  ELSE [code |-> "SIGBUS", line |-> Undef, regs |-> [rbx |-> cs.rbx, rsp |-> cs.rsp]]

-----------------------------------------------------------------------------
(* StateGen::get(cs): random rbx, rsp high, the default stack below it, an *)
(* empty heap.                                                             *)
Generate(v) ==
  [rbx |-> v, rsp |-> Rsp, stack |-> Mem(Rsp - StackSize, StackSize),
   heap |-> Mem(HeapBase, 0)]

\* is_supported_deref and get_size
is_supported_deref(ins) == ins.op \in {"mem", "push", "pop"}
get_size(ins) == ins.size

\* is_ok: a normal run, or an allowed misaligned fault on allocated memory
is_ok(out, ins, cs, allowUnaligned) ==
  \/ out.code = "NORMAL"
  \/ /\ is_supported_deref(ins)
     /\ allowUnaligned
     /\ is_misaligned(AddrOf(ins, out.regs), get_size(ins))
     /\ out.code = "SIGSEGV"
     /\ \/ already_allocated(cs.stack, AddrOf(ins, out.regs), get_size(ins))
        \/ already_allocated(cs.heap, AddrOf(ins, out.regs), get_size(ins))

\* the resize helpers give the new region, or NoMem where they return false
NoMem == Mem(M, 0)

resize_within(m, a, size) ==
  LET delta == (a + size + M - UpperBound(m)) % M
  IN  IF (m.size + delta) % M > MaxMemory THEN NoMem ELSE Mem(m.lb, (m.size + delta) % M)

resize_below(m, a, size) ==
  LET newSize == IF (a + size + M - m.size) % M > m.lb THEN size
                 ELSE (UpperBound(m) + M - a) % M
  IN  IF newSize > MaxMemory THEN NoMem ELSE Mem(a, newSize)

resize_above(m, a, size) ==
  LET delta == (a + size + 2 * M - m.lb - m.size) % M
  IN  IF (m.size + delta) % M > MaxMemory THEN NoMem ELSE Mem(m.lb, (m.size + delta) % M)

resize_mem(m, a, size) ==
  CASE m.size = 0 -> Mem(a, size)
    [] InRange(m, a) /\ resize_within(m, a, size) # NoMem -> resize_within(m, a, size)
    [] a < m.lb /\ resize_below(m, a, size) # NoMem -> resize_below(m, a, size)
    [] UpperBound(m) # 0 /\ a >= UpperBound(m) /\ resize_above(m, a, size) # NoMem
         -> resize_above(m, a, size)
    [] OTHER -> NoMem

\* set the low byte of a register, keeping the rest
SetLowByte(v, b) == v - (v % 256) + b

(***************************************************************************)
(* fix_misalignment: perturb the base register of the faulting access.   *)
(* `current` is read from the output state, and the new low byte is       *)
(* written into the input state: (current & 0x1f) - offset, truncated to a *)
(* byte.  It is tried once per generated state.  The result is            *)
(* [ok, tried, cs].                                                        *)
(***************************************************************************)
MisalignFix(out, cs, ins, tried, newByte(_, _)) ==
  LET offset == AddrOf(ins, out.regs) % 32
      current == out.regs[ins.base]
  IN  IF ins.base # "none" /\ ((current + M - offset) % M) % 32 # 0 /\ ~tried
      THEN [ok |-> TRUE, tried |-> TRUE,
            cs |-> [cs EXCEPT ![ins.base] = SetLowByte(@, newByte(current, offset))]]
      ELSE [ok |-> FALSE, tried |-> FALSE, cs |-> cs]

fix_misalignment_untruncated(out, cs, ins, tried) ==
  MisalignFix(out, cs, ins, tried, LAMBDA c, o : (c % 32) - o)
fix_misalignment_retry(out, cs, ins, tried) ==
  MisalignFix(out, cs, ins, FALSE, LAMBDA c, o : ((c % 32) + 256 - o) % 256)
fix_misalignment(out, cs, ins, tried) ==
  MisalignFix(out, cs, ins, tried, LAMBDA c, o : ((c % 32) + 256 - o) % 256)

\* stack and heap overlap, tested as fix does, by unsigned distances
Overlap(cs) ==
  IF cs.stack.lb <= cs.heap.lb THEN (cs.heap.lb - cs.stack.lb) < cs.stack.size
  ELSE (cs.stack.lb - cs.heap.lb) < cs.heap.size

(***************************************************************************)
(* fix: only a SIGSEGV of a supported dereference is fixable; a            *)
(* misalignment is fixed by the register, otherwise memory not yet         *)
(* allocated is added to the stack, failing that to the heap, and the fix *)
(* is refused if they now overlap.  The result is [ok, tried, cs].        *)
(***************************************************************************)
Fix(out, cs, ins, tried, allowUnaligned, checkOverlap) ==
  LET a == AddrOf(ins, out.regs)
      size == get_size(ins)
      st == resize_mem(cs.stack, a, size)
      hp == resize_mem(cs.heap, a, size)
      resized == IF st # NoMem THEN [cs EXCEPT !.stack = st]
                 ELSE [cs EXCEPT !.heap = hp]
      fail(t) == [ok |-> FALSE, tried |-> t, cs |-> cs]
  IN  CASE out.code # "SIGSEGV" \/ ~is_supported_deref(ins) -> fail(tried)
        [] is_misaligned(a, size) /\ ~allowUnaligned
             -> fix_misalignment(out, cs, ins, tried)
        [] already_allocated(cs.stack, a, size) \/ already_allocated(cs.heap, a, size)
             -> fail(FALSE)
        [] st = NoMem /\ hp = NoMem -> fail(tried)
        [] checkOverlap /\ Overlap(resized) -> [fail(tried) EXCEPT !.cs = resized]
        [] OTHER -> [ok |-> TRUE, tried |-> tried, cs |-> resized]

fix_without_overlap_check(out, cs, ins, tried, allowUnaligned) ==
  Fix(out, cs, ins, tried, allowUnaligned, FALSE)
fix(out, cs, ins, tried, allowUnaligned) ==
  Fix(out, cs, ins, tried, allowUnaligned, TRUE)

-----------------------------------------------------------------------------
(***************************************************************************)
(* The register loop of StateGen::get(cs): byte j of a register is        *)
(* (gen_() % (max_byte + 1)) & mask_byte, from the low bytes of max and    *)
(* mask, which are then shifted down a byte.  gen_() is a 64-bit random    *)
(* number, so gen_() % (max_byte + 1) takes every value 0..max_byte.       *)
(* A value is a natural below 2^(ByteBits * RegBytes).                     *)
(***************************************************************************)
ByteBase == 2 ^ ByteBits
RegMax == ByteBase ^ RegBytes - 1

\* get_max_value and get_bitmask: the value set, else (uint64_t)(-1)
get_max_value(l, r) ==
  IF r \in DOMAIN l.max_register_values THEN l.max_register_values[r] ELSE RegMax
get_bitmask(l, r) ==
  IF r \in DOMAIN l.bitmask_values THEN l.bitmask_values[r] ELSE RegMax

\* the values the last j bytes may get from the remaining max and mask
RECURSIVE RandomizeUnshifted(_, _, _)
RandomizeUnshifted(max, mask, j) ==
  IF j = 0 THEN {0}
  ELSE { ((g % ((max % ByteBase) + 1)) & (mask % ByteBase)) + ByteBase * rest :
           g \in 0..(ByteBase - 1), rest \in RandomizeUnshifted(max, mask, j - 1) }

RECURSIVE Randomize(_, _, _)
Randomize(max, mask, j) ==
  IF j = 0 THEN {0}
  ELSE LET max_byte == max % ByteBase
           mask_byte == mask % ByteBase
       IN  { ((g % (max_byte + 1)) & mask_byte) + ByteBase * rest :
               g \in 0..(ByteBase - 1),
               rest \in Randomize(max \div ByteBase, mask \div ByteBase, j - 1) }

RandomRegister(l, r) == Randomize(get_max_value(l, r), get_bitmask(l, r), RegBytes)

-----------------------------------------------------------------------------
VARIABLES
  prog,            \* the cfg
  allowUnaligned,  \* allow_unaligned_
  cs,              \* the state being generated
  i,               \* the attempt counter of the loop
  tried,           \* tried_to_fix_misalign_
  lastLine,        \* last_line_index, written by the callback
  phase,           \* "loop" while get(cs, cfg) runs, then "done"
  result,          \* its return value
  limits           \* max_register_values_ and bitmask_values_

vars == <<prog, allowUnaligned, cs, i, tried, lastLine, phase, result, limits>>

\* the sandbox output on the current state, and the line the loop reads
Out == Run(prog, cs)
LastLine == IF Out.line = Undef THEN lastLine ELSE Out.line

\* compile the cfg with the callback, then get(cs) and clear the flag
Init ==
  /\ prog \in Programs
  /\ allowUnaligned \in BOOLEAN
  /\ \E v \in RegValues : cs = Generate(v)
  /\ i = 0
  /\ tried = FALSE
  /\ lastLine = Undef
  /\ phase = "loop"
  /\ result = FALSE
  /\ limits \in Limits

(***************************************************************************)
(* One turn of the loop: run, read cfg.get_code()[last_line_index], then   *)
(* a link failure ends it, an acceptable run ends it, a successful fix     *)
(* retries without using up the attempt (i--), and anything else          *)
(* generates a fresh state.                                                *)
(***************************************************************************)
Attempt ==
  /\ phase = "loop"
  /\ i < MaxAttempts
  /\ lastLine' = LastLine
  /\ UNCHANGED <<prog, allowUnaligned, limits>>
  /\ IF Out.code = "SIGBUS"
     THEN /\ phase' = "done" /\ result' = FALSE
          /\ UNCHANGED <<cs, i, tried>>
     ELSE LET ins == prog.code[LastLine]
              fx == fix(Out, cs, ins, tried, allowUnaligned)
          IN  \/ /\ is_ok(Out, ins, cs, allowUnaligned)
                 /\ phase' = "done" /\ result' = TRUE
                 /\ UNCHANGED <<cs, i, tried>>
              \/ /\ ~is_ok(Out, ins, cs, allowUnaligned) /\ fx.ok
                 /\ cs' = fx.cs /\ tried' = fx.tried
                 /\ UNCHANGED <<i, phase, result>>
              \/ /\ ~is_ok(Out, ins, cs, allowUnaligned) /\ ~fx.ok
                 /\ \E v \in RegValues : cs' = Generate(v)
                 /\ tried' = FALSE
                 /\ i' = i + 1
                 /\ UNCHANGED <<phase, result>>

\* the attempts are used up: cleanup and return false
GiveUp ==
  /\ phase = "loop"
  /\ i >= MaxAttempts
  /\ phase' = "done" /\ result' = FALSE
  /\ UNCHANGED <<prog, allowUnaligned, cs, i, tried, lastLine, limits>>

\* get(cs, cfg) has returned
Terminated == phase = "done" /\ UNCHANGED vars

Next == Attempt \/ GiveUp \/ Terminated

\* the loop runs on the caller's thread until it returns
Spec == Init /\ [][Next]_vars /\ WF_vars(Next)

-----------------------------------------------------------------------------
Region(m) == { (m.lb + k) % M : k \in 0..(m.size - 1) }

TypeOK ==
  /\ prog \in Programs
  /\ allowUnaligned \in BOOLEAN
  /\ cs.rbx \in Addr /\ cs.rsp \in Addr
  /\ \A m \in {cs.stack, cs.heap} : m.lb \in Addr /\ m.size \in 0..(M - 1)
  /\ i \in 0..MaxAttempts
  /\ tried \in BOOLEAN
  /\ lastLine \in {Undef} \cup DOMAIN prog.code
  /\ phase \in {"loop", "done"}
  /\ result \in BOOLEAN
  /\ limits \in Limits

(***************************************************************************)
(* A generated state is usable: when get(cs, cfg) returns true, its stack *)
(* and heap share no byte.  This is about the overlap test fix makes after *)
(* resizing (spec 4.4: an overlapping repair is rejected), over several    *)
(* successive repairs of either region.                                    *)
(***************************************************************************)
StackHeapDisjoint ==
  phase = "done" /\ result => Region(cs.stack) \cap Region(cs.heap) = {}

(***************************************************************************)
(* get(cs, cfg) returns: a successful fix does not use up an attempt, so  *)
(* the loop ends only because repairs run out (memory bounded by          *)
(* max_memory_, one misalignment fix per generated state).                *)
(***************************************************************************)
Termination == <>(phase = "done")

(***************************************************************************)
(* Spec 4.4: a misaligned fault is repaired by perturbing the base        *)
(* register, the first time for a generated state.  fix_misalignment      *)
(* refuses when (current - offset) & 0x1f is zero, which is exactly when  *)
(* the displacement is a multiple of 32, e.g. movdqa (%rbx).              *)
(***************************************************************************)
FirstMisalignmentRepaired ==
  [][ /\ phase = "loop" /\ i < MaxAttempts /\ ~tried /\ ~allowUnaligned
      /\ Out.code = "SIGSEGV"
      /\ LET ins == prog.code[LastLine]
         IN  ins.op = "mem" /\ is_misaligned(AddrOf(ins, Out.regs), ins.size)
      => i' = i ]_vars

(***************************************************************************)
(* The comment of resize_below: the access replaces the region only when  *)
(* it is bigger than the whole region.  Otherwise a repair extends the     *)
(* region downwards and keeps every byte it had.  The unsigned             *)
(* addr + size - mem.size() wraps for an access near address 0.           *)
(***************************************************************************)
RepairKeepsRegions ==
  [][ (phase' = "loop" /\ i' = i) =>
        /\ Region(cs.stack) \subseteq Region(cs'.stack)
        /\ Region(cs.heap) \subseteq Region(cs'.heap) ]_vars

(***************************************************************************)
(* The comment at the SIGBUS test: if linking fails the program never     *)
(* runs and last_line_index is never set.  The loop reads                 *)
(* cfg.get_code()[last_line_index] before that test.                       *)
(***************************************************************************)
LastLineSetBeforeRead ==
  [][phase = "loop" /\ i < MaxAttempts => lastLine' # Undef]_vars

(***************************************************************************)
(* Spec 4.4: get(cs) gives every register a value respecting its maximum  *)
(* and its bitmask, and by default (neither set) any value at all.  The    *)
(* loop of stategen.cc lines 40-51 bounds each byte separately by the     *)
(* matching byte of max; the reference is the whole-value definition.     *)
(***************************************************************************)
Respecting(max, mask) == {v \in 0..RegMax : v <= max /\ (v & mask) = v}

RegistersRespectLimits ==
  \A r \in {"rbx"} :
    /\ RandomRegister(limits, r)
         \subseteq Respecting(get_max_value(limits, r), get_bitmask(limits, r))
    /\ r \notin DOMAIN limits.max_register_values \cup DOMAIN limits.bitmask_values
         => RandomRegister(limits, r) = 0..RegMax

====
