# TLA+ models of the STOKE data-driven equivalence checker (jyi/abc)

This directory holds TLA+ models of the parts of this repository that decide
program equivalence:
- the bounded path enumerator (`src/src/cfg/paths.cc`);
- the DDEC validator (`src/src/validator/ddec.cc`) and the validator base it
  uses (`src/src/validator/validator.cc`);
- the jump classification and path constraints used to build proof
  obligations (`src/tools/apps/stoke_extract_formulas.cc`);
- the translation of a solver model's memory into a counterexample state
  (`memory_map_to_testcase` in `validator.cc`);
- the state generator's search for a fault-free input
  (`src/src/stategen/stategen.cc`).

There are also TLC configurations that check the models, and `PROJECT.json`.
`PROJECT.json` lists the components, the runs, the mutants, the mapping from
each definition to its source lines, the findings and the hazards.

## 1. Inventory

| Component | Source | State it keeps | Operations |
|---|---|---|---|
| Path enumerator | `src/cfg/paths.cc` | none between calls; per call the DFS path, a per-block visit count map passed by value, the result list | `enumerate_paths`, `enumerate_paths_helper`; `learn_path` / `learn_path_callback` (recover the path a run took) |
| DDEC validator | `src/validator/ddec.cc` | `sandbox_` (test inputs), `cutpoints_` (current cutpoint choice), `no_bv_`, `bound_`, `has_error_`, and inside `verify` the invariant list and `failed_invariants` | `verify`, `make_tcs`, `find_invariants`, `learn_disjunction_invariant`, `learn_simple_invariant`, `check_proof`, `get_jump_inv`, `transform_with_assumption`, `simplify_disjunction` (never called, pure) |
| Validator base | `src/validator/validator.cc` | support table; inside `memory_map_to_testcase` the segment list, `last_segment`, `max_addr` | `sanity_checks`, `inline_functions`, `memory_map_to_testcase`, `state_from_model` |
| Obligation circuit | `tools/apps/stoke_extract_formulas.cc` | symbolic state, constraint list | `build_circuit`, `is_jump` |
| Machine state | `src/state/cpu_state.h` | registers, flags, stack/heap/data/extra segments, error code | xor, equality, segment list |
| State generator | `src/stategen/stategen.cc` | sandbox, attempt counter, `last_line_index`, `tried_to_fix_misalign_`, the state's stack and heap | `get(cs)`, `get(cs, cfg)`, `is_ok`, `fix`, `resize_*`, `fix_misalignment` |
| Sandbox | `src/sandbox/sandbox.h` (header only) | inputs, outputs, callbacks, jump budget, label pools | `insert_input`, `run`, `set_label_pool`, `get_label` |
| Disassembler, tools, tests | the rest | parsing state | text parsing, front ends, gtest suites |

**How they interact.** `verify` runs on one thread, and every step blocks
until it is done:
1. It runs `sanity_checks`; a `validator_error` ends it with `has_error_`.
2. `make_tcs` enumerates every entry-to-exit path at `bound_` of both
   programs and asks the solver for an input per feasible path. Each input
   goes into the sandbox.
3. It builds `Cutpoints`, which runs the sandbox on those inputs. The
   cutpoint code is not in this repository.
4. For each cutpoint choice, `find_invariants` fixes StateEquality at entry
   and exit and learns invariants from the states recorded at interior
   cutpoints (`data_at`). The data is split on the cutpoint block's closing
   jcc.
5. The Houdini loop calls `check_proof`, which enumerates paths between
   cutpoints:
   - it tests finiteness by comparing the path counts at bounds 1 and 2;
   - it checks `inv(i) {P;Q} inv(j)` per conjunct;
   - it checks that paths to different cutpoints cannot both run.

   `check_proof` stops at the first failing pair, and the loop removes the
   failed interior conjuncts by position. If nothing can be removed, the next
   cutpoint choice is tried.

The other two parts are called from outside `verify`:
- a validator turns a solver counterexample into a test case with
  `memory_map_to_testcase`;
- the search and the test tools call `StateGen::get(cs, cfg)`. Each turn of
  its loop runs the sandbox on a candidate state, reads the instruction
  that faulted, and then returns, repairs the state, or generates a new
  one.

**Hard behaviours.** There is no concurrency: spec section 5 and the code
say everything is synchronous. What is hard is:
- the ordering inside the proof (which state a jump assumption is placed
  on);
- the positional removal loop, with repeated indices;
- the first-failure early return;
- termination of two unbounded loops;
- boundary arithmetic in the visit counts and the finiteness test;
- the sandbox jump budget that truncates data runs;
- in the state generator, a loop whose successful repairs do not use up an
  attempt, unsigned arithmetic in the resize helpers, and a value read
  before the callback that sets it has run;
- in the memory map, unsigned gap tests and a `max_addr` that can move
  back.

**What makes each component correct.**
- Enumerator: it returns exactly the paths with bounded revisits, each once.
  Bounds 1 and 2 agree exactly when the path set is finite.
- Validator: soundness. When `verify` returns true, the programs agree on
  every input. Houdini finds the greatest inductive subset of the learned
  conjuncts, and `verify` terminates.

## 2. Modules

- `CfgPaths.tla` models the enumerator. `enumerate_paths_helper` becomes the
  mutually recursive `Helper` / `Explore`. The counts are passed by value as
  in the code. `StripEmpty` is the erase loop of lines 42-51. `ReferencePaths`
  is an independent definition of bounded paths. The state machine makes
  every call the validator makes (`Calls`) once, for bounds 1..KMax.
- `MC_CfgPaths.tla` covers every 5-block CFG of the shape stoke builds:
  - an empty entry and an empty exit;
  - interior blocks ending in a fallthrough, a jump or a jcc.
- `Ddec.tla` models `verify` as a state machine, with
  `phase` ∈ sanity → make_tcs → cutpoints → find → houdini → exhausted → done.
  The actions are `sanity_checks`, `make_tcs`, `compute_cutpoints`,
  `FindInvariants`, `Houdini`, `NextCutpoints` and `Terminated`. Each one is
  the whole corresponding piece of `verify`.
  - A side's state is `<<value, zf>>`: one `Width`-bit register and ZF.
  - Arithmetic ops set ZF; `id` (mov) and `cpuid` keep it.
  - The learning, `check_proof`, `get_jump_inv`, `is_jump` and the
    `build_circuit` path constraints are operators translated from the code.
  - The solver is replaced by enumeration over `State`.
  - `Cutpoints::data_at`, the sandbox semantics and the invariant classes are
    not in the repository. They are modelled from the spec and marked
    `spec_modelled`.
- `MC_Ddec.tla` gives four families of program pairs (see its header): the
  straight-line, loop, branch and no-cutpoint families.

- `StateGen.tla` models `StateGen::get(cs, cfg)`.
  - The state holds the program, `allow_unaligned_`, the candidate state
    (`rbx`, `rsp`, a stack and a heap window), the counter `i`,
    `tried_to_fix_misalign_`, `last_line_index`, and the return value.
  - `Attempt` is one whole turn of the loop (lines 92-123): the run, the
    read of `cfg.get_code()[last_line_index]`, the SIGBUS test, then
    `is_ok`, `fix` (with `i--`) or `get(cs)`. `GiveUp` is the return false
    after `max_attempts_` turns.
  - `fix`, `fix_misalignment`, `resize_mem` and the three resize helpers
    are operators translated line by line, in W-bit unsigned arithmetic.
    `NoMem` stands for their `false`.
  - The sandbox, `Memory` and `get_addr` are not in the repository. The
    sandbox runs the program from line 1, calls the callback with each line,
    and stops at the first fault. These parts are modelled from the spec and
    marked `spec_modelled`.
  - A program that cannot be linked never runs, so `last_line_index` keeps
    whatever it held. That is the uninitialised `Undef` on the first turn,
    or the previous turn's line later.
  - The register loop of `get(cs)` (lines 40-51) is the operator
    `Randomize`. Byte j of a register is `(gen_() % (max_byte + 1)) &
    mask_byte`, and max and mask are shifted down a byte after each one.
    `get_max_value` and `get_bitmask` default to all ones. The maps set by
    `set_max_value` and `set_bitmask` are the variable `limits`, fixed at
    `Init`. The registers of this operator are three 2-bit bytes wide,
    apart from the 10-bit addresses of the loop.
- `MC_StateGen.tla` has nine programs (see its header). They include loads
  at displacements 0, 6, 8 and 24, 16- and 32-byte aligned forms, a
  push/load/pop, a division, an implicit access, and an unlinked program.
- `SimplifyDisjunction.tla` models `simplify_disjunction` as operators:
  - `DropFalseFrom` is the first loop, with its `i--`;
  - `Extract` is the second loop, with `contained_in_all` and the removal
    of every copy of a leaf;
  - `Live`, `CommonAtoms` and `ReferenceRest` are an independent set-based
    definition of the result.

  A one-step state machine calls the function once per input.
- `MemoryMap.tla` models `memory_map_to_testcase` as a state machine:
  - `Start` builds the first segment, or returns for an empty map;
  - `Step` is one turn of the loop, with cases 1-3;
  - `Assign` is the fall-through switch.

  `last_segment` is an index into the segment list. A segment is its
  window; byte values and valid bits are left out, because every byte the
  loop writes lies in `last_segment`'s window.
- `InlineFunctions.tla` models `inline_functions`. The operator
  `InlineFrom` is the loop over `old_code`:
  - a call becomes push rbp, the callee copied, `LABEL_DEFN` of
    `%%END%%_id`, and pop rbp;
  - in the copy, a ret becomes a jump to the end label, and every label
    operand becomes `%%INLINE%%_id_old`;
  - after each call, `unique_id` is incremented.

  The two label forms are tuples. The strings are distinct for distinct
  ids and labels, because an id is all digits. Along with each instruction
  the operator records a ghost field `at`: the call stack of the original
  code that the instruction stands for. The state machine runs the flat
  result: `pc` only, with a label defined twice bound to either
  definition. `Frames` maps `pc` to `at`, and that is the refinement
  mapping.
- `CallRet.tla` is the abstract specification, written from spec step 1:
  the original code run with a call stack. A call pushes a frame, a ret
  pops one, and a jump stays inside its function.
- `MC_Validator.tla` puts `memory_map_to_testcase` (with MC_MemoryMap's
  maps) and `inline_functions` (four fragments) in one model. The variable
  `active` says which helper a behaviour calls, and the other helper stays
  in an initial state. The helpers share no state, and each property is
  about one of them, so this checks the same thing as their interleaving
  with far fewer states.
- `MachineState.tla` is the Machine State of spec 4.1-4.2, written from
  the spec: registers and named regions, each a window with a byte and a
  validity bit per offset. XOR is bit-wise with each region's namesake,
  equality is structural, and a memory query answers from a region holding
  the whole access (an access no region holds reads anything).
- `CpuState.tla` models `struct CpuState` over the same state shape:
  - `XorAssign` is `operator^=` (lines 39-48), `Equal` is `operator==`
    (lines 56-60);
  - `in_range`, `is_valid` and `ReadMem` are the three memory-operand
    queries. Each builds `my_segments` and stops at the first segment
    holding both ends of the access;
  - `answer` holds what the last query returned, with its argument.

  The loops `for (auto it : segments) my_segments.push_back(&it);` keep
  pointers to copies destroyed at the end of each turn. That is undefined
  behaviour, modelled by the outcomes a build gives. If the copies share one
  stack slot, every pointer has the last segment's window; otherwise each
  has its own. Either way the bytes and validity bits come from freed
  storage and read as anything. `ImplementsMachineState` instantiates
  `MachineState` with `st <- cs`, so the refinement mapping is the identity
  on the shared shape.
- `MC_CpuState.tla` has three states with the five-segment layout that
  `memory_map_to_testcase` gives a counterexample (see its header).

## 3. Runs

| Run | Checks | Result |
|---|---|---|
| `cfgpaths` (`MC_CfgPaths.cfg`) | `EnumerationMatchesReference`, `FinitenessTestExact` | pass, about 72k states |
| `cfgpaths_visit_bound` (`MC_CfgPathsVisit.cfg`) | `VisitBoundOfContract` | violation: the start block is never counted, so a cutpoint-to-itself path visits it max_len+1 times (spec 4.3 says at most max_len) |
| `ddec` (`MC_Ddec.cfg`) | `TypeOK`, `Soundness`, `HoudiniFindsGreatestInductive`, `Termination` | pass, about 40k states |
| `ddec_entry_jump` (`MC_DdecBranch.cfg`) | `Soundness` | violation, explained below |
| `stategen` (`MC_StateGen.cfg`) | `TypeOK`, `StackHeapDisjoint`, `RegistersRespectLimits`, `Termination` | pass, 4596 states |
| `stategen_misalign` (`MC_StateGen_FirstMisalignmentRepaired.cfg`) | `FirstMisalignmentRepaired` | violation: `movdqa 0(%rbx)` with rbx = 4 is regenerated, not repaired |
| `stategen_relocate` (`MC_StateGen_RepairKeepsRegions.cfg`) | `RepairKeepsRegions` | violation: a load at 0(%rbx) with rbx = 0 moves the stack from [752,768) to [0,8) |
| `stategen_last_line` (`MC_StateGen_LastLineSetBeforeRead.cfg`) | `LastLineSetBeforeRead` | violation: the unlinked program reads `last_line_index` unset |
| `simplify_disjunction` (`MC_SimplifyDisjunction.cfg`) | `ExtractedExactlyOnce` | pass, 4760 states |
| `validator` (`MC_Validator.cfg`) | `AllBytesMapped`, `ImplementsCallRet` | pass, 4255 states; the memory maps are those whose reads share no byte |
| `memory_map_bytes` (`MC_MemoryMap_EachByteMappedOnce.cfg`) | `EachByteMappedOnce` | violation: {120:8, 124:4} puts bytes 124-127 in two segments |
| `cpustate` (`MC_CpuState.cfg`) | `ImplementsMachineState` | violation: `S0 == S2` is true though their extra segments differ |

The `ddec_entry_jump` violation is a soundness bug with ZF live:
1. Stripping the empty entry block makes an entry path start at a
   flag-setting block.
2. `get_jump_inv` then assumes that block's jcc outcome on the state before
   the block runs.
3. Mixed jump/fall obligations become vacuous, and `verify` proves
   `mov; jz; mov` equal to `xor; jz; mov`.

With ZF dead (the `ddec` run) the same programs are handled soundly.

`HoudiniFindsGreatestInductive` is an action property. Whenever the Houdini
loop leaves, it has found a proof exactly when a set-based reference does.
The reference removes every failing interior conjunct until it reaches a
fixed point. This covers:
- the code's first-failure return;
- the index sort and dedup;
- the restriction to interior cutpoints.

**State generator.**
- `fix_misalignment` tests `(current - offset) & 0x1f`, and
  `offset = (current + disp) & 0x1f`. The test is zero exactly when the
  displacement is a multiple of 32, so the commonest aligned form,
  `movdqa (%rbx)`, is never repaired. Spec 4.4 says it is, giving up only
  after one try per state.
- `resize_below` computes `addr + size - mem.size()` in uint64_t. For an
  access near address 0 this wraps, and the stack is moved to the access,
  dropping the bytes it had. The comment says that branch is for an access
  bigger than the whole region.
- `last_line_index` is read before the SIGBUS test that the comment says
  exists because it is never set.

`Termination` holds: a successful fix does not use up an attempt, but
memory growth is capped by `max_memory_`, and the misalignment fix is tried
once per state. `StackHeapDisjoint` holds because of the overlap test after
each resize.

`RegistersRespectLimits` holds. Each byte is at most the matching byte of
the maximum and lies inside the mask, so the whole value is at most the
maximum. With neither limit set, every value can be drawn. The maxima in
the model have bytes in every order relative to each other, for example
<<3,0,0>>, so a missing shift would break the property.

**inline_functions.** `ImplementsCallRet` holds on the four fragments:
- a caller and a callee that both define `L`;
- one callee called twice;
- two callees, one with two rets and a forward jump;
- a fragment with no call.

A jump in a copy lands in that copy, and a ret resumes after its own call.
Two changes each break the property: keeping the old labels, and reusing
`unique_id`. The second was checked on a copy of the module; the first is
the recorded mutant.

The callees in the model call nothing. The code inlines one level only:
a call inside a callee is copied with its target renamed to
`%%INLINE%%_id_f`. No function has that name, and the flat stream still
contains a call, against spec step 1. This is listed as a hazard.

**simplify_disjunction.** The spec asks whether a common conjunct can be
lost or duplicated. On every disjunction of up to three disjuncts of up to
two atoms (false included, repeats included), it cannot:
- each common atom is extracted once;
- each disjunct keeps exactly its other atoms, in order.

That the result means the same as the input follows from this, by
distributivity, so it is not checked separately.

Reading `disjs[0]` when no disjunct survives is listed as a hazard.

**memory_map_to_testcase.** When the reads share no byte, every byte is
mapped (`AllBytesMapped`). `EachByteMappedOnce` asks more, over all maps:
each byte read has exactly one home. Two
overlapping reads break it, in two ways:
- a narrow read inside a wide one moves `max_addr` back, and the next read
  shrinks the segment;
- a read that straddles `max_addr` makes `address - max_addr` wrap, so a
  new segment is opened inside the last one. The same happens after a read
  that ends at the top of the address space.

TLC reports the second one (byte 124 in two segments). The first shows when
`Concretes` is cut down to the map {0:16, 4:4, 8:4}: TLC's trace ends with
the segment [0,12), and bytes 12-15 are in no segment.

The comment at validator.cc:119 says the segments are built "so that
there's no 16-byte invalid gap". The code merges reads less than 32 bytes
apart (line 152), so a segment can hold an unread gap of up to 31 bytes.
The code and the comment disagree. It is not clear which one is intended,
and no run checks this: a property for the comment's rule would need a
violation run of its own, and every run is in use. It is listed as a
hazard.

**CpuState.** `ImplementsMachineState` fails three ways. TLC stops at the
first, so each of the others was shown by checking a copy of `CpuState.tla`
with the earlier ones corrected:
1. `operator==` skips `segments`, so `S0 == S2` is true (the run's trace).
2. `operator^=` does `heap ^= rhs.stack` and never xors `segments`. With
   `==` made structural, the trace is `S0 ^= S1`: the heap gets S1's stack
   bytes.
3. With `^=` also corrected, the trace is `in_range` of an access inside the
   first extra segment. It answers false, because every dangling pointer
   has the last segment's window.

With all three corrected, the copy implements `MachineState` (908 states).
Counterexamples get extra segments once `memory_map_to_testcase` builds a
fourth segment (validator.cc:184), so these queries meet them.

Each property of a passing run has a mutant in `PROJECT.json`, a plausible
bug that TLC then catches:
- an inclusive bound test;
- a start count of 1;
- a finiteness test comparing bound 1 with itself;
- a Houdini loop that gives up at the first failure;
- a cutpoint loop that does not advance;
- a `true` sentinel for empty data;
- an untruncated misalignment byte;
- a misalignment fix retried forever;
- no overlap test after a resize;
- no `i--` after removing a false disjunct;
- an expanded size without the access;
- a register loop that does not shift max and mask;
- inlined labels that are not renamed.

**Bounds.**
- Register width 2 (4 values). It is enough for loops that wrap, for
  `mod2n`/`sign` candidates and for zero tests.
- `bound_` = 2 for `make_tcs`, and a jump budget of 6. The budget lets a
  counting loop over 4 values finish, so the data runs see every iteration.
- The corpus starts with one input.
- Enumerator graphs have 5 blocks (3 interior), with KMax = 4. That is
  enough for nested loops, self-loops and cutpoint-to-itself paths.
- The state generator uses 10-bit addresses, rsp = 768 and heap base 512
  (for 0x700000000 and 0x100000000), a 16-byte stack, `max_memory_` = 64,
  and two attempts. The values of rbx are 0, 4, 36, 700 and 900. They
  cover an access near 0, a misaligned one, one just below the stack, and
  accesses between or far from the regions. Values whose accesses cross
  the top of the address space are left out: `Memory::in_range` is not in
  the repository, and its meaning for a window that wraps is unknown.
- `simplify_disjunction` inputs have up to 3 disjuncts of up to 2 atoms
  over {a, b, false}. That is enough for a repeated atom, a false disjunct
  next to another, and a single disjunct.
- Memory maps have up to 3 entries of 4, 8 or 16 bytes at 8 addresses of a
  7-bit space. That gives gaps of 4 to 80 bytes, reads inside reads, and a
  read ending at the top.
- Registers for the randomisation are 3 bytes of 2 bits (0..63). The
  maxima 3, 17 and 40 and the masks 45 and 6 are each set or left unset.
- The inlined fragments have up to 5 instructions, and the callees up to 5
  (see `MC_Validator.tla`).
- CpuState uses a 4-bit address space, one 2-bit register and 1-bit bytes.
  The five regions leave gaps and region ends, so accesses of 1 and 2 bytes
  at every address cover: inside a region, straddling an end, in a gap, and
  in either extra segment. Three states are enough to tell the heap from
  the stack and one extra segment from another.

**Fairness.** `verify` is one thread that keeps running until it returns.
`Fairness` is weak fairness of `Next`, written without `ENABLED`: every
non-final state has a step that changes the variables, and `done` is
absorbing. Deadlock checking is on for `ddec`. The enumerator runs are one
call, so they turn deadlock checking off.
`StateGen::get(cs, cfg)` likewise runs on its caller's thread until it
returns, so `Spec` there has `WF_vars(Next)`. `Termination` is checked
under it. The other new modules have loops bounded by their input, and
their properties are invariants at the end state. Their specifications
have no fairness, and the `Done`/`Returned` stutter keeps deadlock
checking meaningful.

## 4. Not modelled, and the plan

**Not modelled**, with the reason:
- memory, signals and SSE registers: the MemoryEquality and NoSignals
  conjuncts are kept only as always-true placeholders, so positions match;
- inequality and memory-null candidates;
- the def-in/live-out agreement checks of `sanity_checks`: a pair has one
  `flags` field, so the sides always agree;
- the solver itself;
- `state_from_model`, which copies solver-model values into a CpuState by
  register name;
- in `inline_functions`: nested calls (see above), and the 8-bit
  displacement of `JMP_LABEL_1`, since instruction sizes are not modelled;
- in the state generator: SSE registers, flags, memory contents, the rip-relative address
  case of `fix`, and windows that cross the top of the address space;
- in `CpuState`: the register views (`read_gp`, `update`, `gp_update`),
  the error code, `sse`, `rf`, and `get_addr` and serialisation, which are
  in `cpu_state.cc` and not in the repository;
- the sandbox label pools (`set_label_pool`, `get_label`,
  `clear_label_pools`). `get_label` returns a reference into a vector that a
  later call may resize. The callers that keep such references are in
  `sandbox.cc`, which is not in the repository, so whether one is used after
  a resize cannot be read from the code here. The rest of `sandbox.h`
  declares functions defined in that file, or forwards to them;
- `learn_path` / `learn_path_callback`: what they record depends on where
  the sandbox calls the `insert_before` / `insert_after` callbacks, which is
  in `sandbox.cc`, not in the repository. With blocks abstracted, the path
  they record follows the successor relation the enumerator already walks,
  so a model would show nothing the enumerator's run does not;
- the disassembler, the tools, the tests and the example.

**What is left**, for a later extension:
1. The register views of `CpuState` (in `cpu_state.cc`, not in the
   repository, so they can only be modelled from the spec).
2. An abstract `Equivalence` specification, with `Ddec` refining it when
   flags are dead.
3. The nested-call case of `inline_functions`, as a violation run.
