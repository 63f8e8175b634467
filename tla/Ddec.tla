-------------------------------- MODULE Ddec --------------------------------
(***************************************************************************)
(* The data-driven equivalence checker (src/src/validator/ddec.cc,         *)
(* DdecValidator::verify and the steps it calls).                          *)
(*                                                                         *)
(* The state of a side is <<value, zf>>: one general-purpose register of  *)
(* Width bits and the zero flag.  A program is a control-flow graph        *)
(* record as in                                                            *)
(* CfgPaths, extended with                                                 *)
(*   op  |-> block -> the block's straight-line effect (one of Ops),       *)
(*   jcc |-> block -> the condition of the block's closing conditional     *)
(*                    jump, or "none".                                     *)
(* A block with two successors ends in a jcc (fallthrough first) that     *)
(* tests ZF.  Arithmetic ops set ZF from their result; "id" (a mov) and    *)
(* "cpuid" leave it.  A pair says (field `flags`) whether ZF is among the  *)
(* def-ins and live-outs.  The state of a side at a cutpoint is the state  *)
(* after the cutpoint block's op, before its jump.  Signals and memory    *)
(* are not modelled: the NoSignals and                                     *)
(* MemoryEquality conjuncts are kept as conjuncts that always hold, so     *)
(* that the conjunct positions Houdini removes by index stay as in the    *)
(* code.                                                                   *)
(***************************************************************************)
EXTENDS Naturals, Sequences, SequencesExt, FiniteSets

CONSTANTS
  Width,     \* bits of the modelled register
  Pairs,     \* the (target, rewrite, cutpoint choices) inputs of verify
  TcBound,   \* bound_: revisit bound of the paths make_tcs tests
  MaxJumps,  \* the sandbox jump budget of the runs that collect data
  Corpora    \* the test-case sets the sandbox may hold when verify starts

ASSUME Width \in Nat \ {0} /\ TcBound \in Nat \ {0} /\ MaxJumps \in Nat
Modulus == 2 ^ Width
Val == 0..(Modulus - 1)
\* <<register value, ZF>>
State == Val \X BOOLEAN

ASSUME Corpora \subseteq (SUBSET State) \ {{}}

CP == INSTANCE CfgPaths WITH Cfgs <- {}, KMax <- 1, cfg <- {}, start <- 0,
                             end <- 0, nopass <- {}, results <- <<>>,
                             called <- FALSE

-----------------------------------------------------------------------------
(* Concrete semantics: what the sandbox computes on one input.            *)

\* the instructions a block may hold; "cpuid" has no validator handler
Ops == {"id", "inc", "dec", "dbl", "zero", "cpuid"}
Conds == {"z", "nz"}

\* an arithmetic result and the ZF it sets
Arith(v) == <<v, v = 0>>

Apply(op, x) ==
  CASE op = "inc"  -> Arith((x[1] + 1) % Modulus)
    [] op = "dec"  -> Arith((x[1] + Modulus - 1) % Modulus)
    [] op = "dbl"  -> Arith((2 * x[1]) % Modulus)
    [] op = "zero" -> Arith(0)
    [] OTHER       -> x

\* ConditionalHandler::condition_satisfied for je / jne: reads ZF
CondHolds(c, x) == IF c = "z" THEN x[2] ELSE ~x[2]

\* the successor a run takes from block b in state x
NextBlock(g, b, x) ==
  IF Len(g.succ[b]) = 2 /\ CondHolds(g.jcc[b], x)
  THEN g.succ[b][2] ELSE g.succ[b][1]

\* the blocks visited from b (holding x after b's op) with `fuel` jumps left
RECURSIVE Run(_, _, _, _)
Run(g, b, x, fuel) ==
  IF b = g.exit \/ fuel = 0 THEN <<[blk |-> b, val |-> x]>>
  ELSE LET nb == NextBlock(g, b, x)
       IN  <<[blk |-> b, val |-> x]>> \o Run(g, nb, Apply(g.op[nb], x), fuel - 1)

\* a deterministic run over State x Blocks that has not reached the exit
\* after this many jumps never does
DecidingFuel(g) == Cardinality(DOMAIN g.succ) * Cardinality(State) + 1

\* the live-outs of a state: the register, and ZF when flags are live-out
LiveOut(flags, x) == IF flags THEN x ELSE <<x[1]>>

\* whether a run on input v ends, and its live-outs if it does
Outcome(g, flags, v) ==
  LET tr == Run(g, g.entry, Apply(g.op[g.entry], v), DecidingFuel(g))
  IN  IF Last(tr).blk = g.exit
      THEN [ends |-> TRUE, out |-> LiveOut(flags, Last(tr).val)]
      ELSE [ends |-> FALSE, out |-> <<>>]

-----------------------------------------------------------------------------
(* Invariants.  A conjunct is [guard |-> set of flag atoms, atom |-> atom]:  *)
(* an ImplicationInvariant (guard => atom) made by                         *)
(* transform_with_assumption, or the atom alone when the guard is empty.  *)

FlagAtom(side, c, fall) == [kind |-> "flag", side |-> side, cond |-> c, fall |-> fall]
Atom(k) == [kind |-> k]
\* StateEqualityInvariant over the register, and ZF if `flags`
StateEq(flags) == [kind |-> "stateeq", flags |-> flags]
SideAtom(k, side, n) == [kind |-> k, side |-> side, n |-> n]
LinAtom(ct, cr, c) == [kind |-> "lin", ct |-> ct, cr |-> cr, c |-> c]
Conj(guard, a) == [guard |-> guard, atom |-> a]

SideVal(side, t, r) == IF side = "t" THEN t ELSE r

\* the meaning of each invariant class over a (target, rewrite) state pair
AtomHolds(a, t, r) ==
  LET s == IF "side" \in DOMAIN a THEN SideVal(a.side, t, r) ELSE t
      x == s[1]
  IN  CASE a.kind = "false"   -> FALSE
        [] a.kind = "stateeq" -> t[1] = r[1] /\ (a.flags => t[2] = r[2])
        [] a.kind = "eq"      -> t[1] = r[1]
        [] a.kind = "flag"    -> CondHolds(a.cond, s) = ~a.fall
        [] a.kind = "topzero" -> x < 2 ^ (Width \div 2)
        [] a.kind = "nonzero" -> x # 0
        [] a.kind = "mod2n"   -> x % (2 ^ a.n) = 0
        [] a.kind = "sign"    -> (x >= 2 ^ (Width - 1)) = (a.n = 1)
        [] a.kind = "lin"     -> (a.ct * t[1] + a.cr * r[1]) % Modulus = a.c
        [] OTHER              -> TRUE   \* true, nosigs, memeq

ConjHolds(cj, t, r) ==
  (\A f \in cj.guard : AtomHolds(f, t, r)) => AtomHolds(cj.atom, t, r)

TrueConj == Conj({}, Atom("true"))
FalseConj == Conj({}, Atom("false"))

-----------------------------------------------------------------------------
(* Learning (learn_simple_invariant, learn_disjunction_invariant).  `data` *)
(* is the set of aligned (target, rewrite) state pairs at the cutpoint.    *)

\* the candidates learn_simple_invariant tries, in the order it adds them:
\* TopZero/Nonzero per side, Mod2N for n = 1..Width per side, Sign per side,
\* the brute-force column equality, then the nullspace equalities, which
\* over two columns are t = c, r = c and t - r = c (mod 2^Width)
SimpleCandidates ==
  <<SideAtom("topzero", "t", 0), SideAtom("nonzero", "t", 0),
    SideAtom("topzero", "r", 0), SideAtom("nonzero", "r", 0)>>
  \o [n \in 1..Width |-> SideAtom("mod2n", "t", n)]
  \o [n \in 1..Width |-> SideAtom("mod2n", "r", n)]
  \o <<SideAtom("sign", "t", 1), SideAtom("sign", "t", 0),
       SideAtom("sign", "r", 1), SideAtom("sign", "r", 0), Atom("eq")>>
  \o [c \in 1..Modulus |-> LinAtom(1, 0, c - 1)]
  \o [c \in 1..Modulus |-> LinAtom(0, 1, c - 1)]
  \o [c \in 1..Modulus |-> LinAtom(1, Modulus - 1, c - 1)]

learn_simple_invariant_true_sentinel(data) ==
  <<Atom("nosigs"), Atom("memeq")>> \o
  IF data = {} THEN <<Atom("true")>>
  ELSE SelectSeq(SimpleCandidates,
                 LAMBDA a : \A d \in data : AtomHolds(a, d[1], d[2]))

learn_simple_invariant(data) ==
  <<Atom("nosigs"), Atom("memeq")>> \o
  IF data = {} THEN <<Atom("false")>>
  ELSE SelectSeq(SimpleCandidates,
                 LAMBDA a : \A d \in data : AtomHolds(a, d[1], d[2]))

transform_with_assumption(guard, atoms) ==
  [k \in 1..Len(atoms) |-> Conj(guard, atoms[k])]

\* split the data on the cutpoint blocks' closing jccs, learn on each part
learn_disjunction_invariant(tcc, rcc, data) ==
  LET Part(tj, rj) ==
        {d \in data : /\ tcc # "none" => CondHolds(tcc, d[1]) = tj
                      /\ rcc # "none" => CondHolds(rcc, d[2]) = rj}
      Learn(tj, rj) ==
        transform_with_assumption(
          (IF tcc # "none" THEN {FlagAtom("t", tcc, ~tj)} ELSE {})
            \cup (IF rcc # "none" THEN {FlagAtom("r", rcc, ~rj)} ELSE {}),
          learn_simple_invariant(Part(tj, rj)))
  IN  CASE tcc = "none" /\ rcc = "none" -> Learn(TRUE, TRUE)
        [] rcc = "none" -> Learn(FALSE, TRUE) \o Learn(TRUE, TRUE)
        [] tcc = "none" -> Learn(TRUE, FALSE) \o Learn(TRUE, TRUE)
        [] OTHER -> Learn(TRUE, TRUE) \o Learn(TRUE, FALSE)
                      \o Learn(FALSE, TRUE) \o Learn(FALSE, FALSE)

-----------------------------------------------------------------------------
(* Proof obligations.  A path here is what enumerate_paths returns (empty *)
(* entry/exit blocks stripped), with its first block erased when the      *)
(* cutpoint block has instructions.                                        *)

\* is_jump (tools/apps/stoke_extract_formulas.cc): how the path leaves its
\* i-th block; NONE for the last block and for blocks with one successor
is_jump(g, P, i) ==
  CASE i = Len(P)              -> "NONE"
    [] Len(g.succ[P[i]]) < 2   -> "NONE"
    [] P[i + 1] = P[i] + 1     -> "FALL_THROUGH"
    [] OTHER                   -> "JUMP"

\* the states after each block of P, executed from x
RECURSIVE Trace(_, _, _)
Trace(g, P, x) ==
  IF P = <<>> THEN <<>>
  ELSE LET y == Apply(g.op[Head(P)], x) IN <<y>> \o Trace(g, Tail(P), y)

\* the state after executing all of P from x
Exec(g, P, x) == IF P = <<>> THEN x ELSE Last(Trace(g, P, x))

\* build_circuit: every block but the last constrains its jcc to go the
\* way the path goes, on the flags its own op left
PathConstraints(g, P, x) ==
  LET tr == Trace(g, P, x)
  IN  \A i \in 1..Len(P) :
        LET how == is_jump(g, P, i)
        IN  how = "NONE" \/ g.jcc[P[i]] = "none" \/
            CondHolds(g.jcc[P[i]], tr[i]) = (how = "JUMP")

\* the post-state pairs of P ; Q from every pre-state pair that satisfies
\* the assumed conjuncts (a set: the conjunction `copy`) and both paths'
\* constraints
Posts(gT, gR, P, Q, assume) ==
  { <<Exec(gT, P, s[1]), Exec(gR, Q, s[2])>> :
      s \in { s \in {t \in State : PathConstraints(gT, P, t)} \X
                    {r \in State : PathConstraints(gR, Q, r)} :
                 \A a \in assume : ConjHolds(a, s[1], s[2]) } }

\* ObligationChecker::check: every such post-state pair satisfies the
\* conjunct to prove
check(gT, gR, P, Q, assume, prove) ==
  \A s \in Posts(gT, gR, P, Q, assume) : ConjHolds(prove, s[1], s[2])

\* get_jump_inv: the flag assumption for the path's first edge
get_jump_inv(g, p, side) ==
  LET how == is_jump(g, p, 1)
  IN  IF how = "NONE" \/ g.jcc[p[1]] = "none" THEN TrueConj
      ELSE Conj({}, FlagAtom(side, g.jcc[p[1]], how = "FALL_THROUGH"))

-----------------------------------------------------------------------------
(* check_proof over cutpoint lists tc (target) and rc (rewrite) and the    *)
(* invariant sequences invs: the outcome of the pair (i, j), then the      *)
(* outcome of the first failing pair in the code's order.                 *)

Paths(g, cuts, bound, i, j) ==
  CP!EnumeratePaths(g, bound, cuts[i], cuts[j], Range(cuts))

Body(g, cuts, i, p) == IF g.instrs[cuts[i]] # 0 THEN Tail(p) ELSE p

\* the conjuncts m of invs[j] failing for some path pair, with repetitions,
\* in the order the loops push them into failed_invariants[j]
CorrespondenceFailures(gT, gR, tc, rc, invs, i, j) ==
  LET PT == Paths(gT, tc, 1, i, j)
      PR == Paths(gR, rc, 1, i, j)
      Fails(p, q) ==
        LET posts == Posts(gT, gR, Body(gT, tc, i, p), Body(gR, rc, i, q),
                           ToSet(invs[i]) \cup {get_jump_inv(gT, p, "t"),
                                                get_jump_inv(gR, q, "r")})
        IN  SelectSeq([m \in 1..Len(invs[j]) |-> m],
              LAMBDA m : \E s \in posts : ~ConjHolds(invs[j][m], s[1], s[2]))
  IN  FlattenSeq([a \in 1..Len(PT) |->
        FlattenSeq([b \in 1..Len(PR) |-> Fails(PT[a], PR[b])])])

\* some target path i -> j runs beside a rewrite path i -> k, k # j, from
\* states satisfying the conjuncts `inv` assumed at cutpoint i
Diverges(gT, gR, tc, rc, inv, i, j) ==
  \E k \in (1..Len(rc)) \ {j} :
    LET PT == Paths(gT, tc, 1, i, j)
        PR == Paths(gR, rc, 1, i, k)
    IN  \E a \in 1..Len(PT), b \in 1..Len(PR) :
          ~check(gT, gR, Body(gT, tc, i, PT[a]), Body(gR, rc, i, PR[b]),
                 inv \cup {get_jump_inv(gT, PT[a], "t"),
                        get_jump_inv(gR, PR[b], "r")},
                 FalseConj)

\* the finiteness test: as many paths at bound 1 as at bound 2
FiniteSameBound(g, cuts, i, j) ==
  Len(Paths(g, cuts, 1, i, j)) = Len(Paths(g, cuts, 1, i, j))
Finite(g, cuts, i, j) ==
  Len(Paths(g, cuts, 1, i, j)) = Len(Paths(g, cuts, 2, i, j))

PairOutcome(gT, gR, tc, rc, invs, i, j) ==
  LET fails == CorrespondenceFailures(gT, gR, tc, rc, invs, i, j)
  IN  CASE ~Finite(gT, tc, i, j) \/ ~Finite(gR, rc, i, j)
             -> [ok |-> FALSE, j |-> j, failed |-> <<>>]
        [] fails # <<>>
             -> [ok |-> FALSE, j |-> j, failed |-> fails]
        [] Diverges(gT, gR, tc, rc, ToSet(invs[i]), i, j)
             -> [ok |-> FALSE, j |-> j, failed |-> <<>>]
        [] OTHER -> [ok |-> TRUE, j |-> j, failed |-> <<>>]

\* check_proof returns at the first failing pair (i, j), in the order of
\* its two loops; failed_invariants then holds only that pair's failures
RECURSIVE FirstFailing(_, _, _, _, _, _, _)
FirstFailing(gT, gR, tc, rc, invs, i, j) ==
  LET out == PairOutcome(gT, gR, tc, rc, invs, i, j)
      n == Len(tc)
  IN  CASE ~out.ok -> out
        [] j < n   -> FirstFailing(gT, gR, tc, rc, invs, i, j + 1)
        [] i < n   -> FirstFailing(gT, gR, tc, rc, invs, i + 1, 1)
        [] OTHER   -> out

check_proof(gT, gR, tc, rc, invs) == FirstFailing(gT, gR, tc, rc, invs, 1, 1)

-----------------------------------------------------------------------------
(* Data at the cutpoints (Cutpoints::data_at, not in this repository): the *)
(* sandbox runs both programs on every input of the corpus, with the jump *)
(* budget, and pairs the k-th target state at the target cutpoint block    *)
(* with the k-th rewrite state at the rewrite cutpoint block.             *)

Visits(g, v, b) ==
  LET at == SelectSeq(Run(g, g.entry, Apply(g.op[g.entry], v), MaxJumps),
                      LAMBDA e : e.blk = b)
  IN  [k \in 1..Len(at) |-> at[k].val]

data_at(pr, cuts, k, inputs) ==
  UNION { LET tv == Visits(pr.target, v, cuts[k][1])
              rv == Visits(pr.rewrite, v, cuts[k][2])
          IN  { <<tv[n], rv[n]>> : n \in 1..(IF Len(tv) < Len(rv) THEN Len(tv)
                                                             ELSE Len(rv)) }
        : v \in inputs }

\* the jcc closing a cutpoint block (get_last_instr(...).is_jcc())
LastJcc(g, b) == IF g.instrs[b] # 0 THEN g.jcc[b] ELSE "none"

\* the fixed invariants: StateEquality over def_ins / live_outs, NoSignals
\* and, at the entry, MemoryEquality
EntryInvariant(pr) ==
  <<Conj({}, StateEq(pr.flags)), Conj({}, Atom("nosigs")), Conj({}, Atom("memeq"))>>
ExitInvariant(pr) == <<Conj({}, StateEq(pr.flags)), Conj({}, Atom("nosigs"))>>

find_invariants(pr, cuts, inputs) ==
  [k \in 1..Len(cuts) |->
     CASE cuts[k][1] = pr.target.entry -> EntryInvariant(pr)
       [] cuts[k][1] = pr.target.exit  -> ExitInvariant(pr)
       [] OTHER -> learn_disjunction_invariant(
                     LastJcc(pr.target, cuts[k][1]), LastJcc(pr.rewrite, cuts[k][2]),
                     data_at(pr, cuts, k, inputs))]

\* the inputs make_tcs may add: one counterexample per feasible path from
\* entry to exit at bound_, of either program, each any input driving the
\* program down that path
PathWitnesses(g) ==
  LET ps == CP!EnumeratePaths(g, TcBound, g.entry, g.exit, {})
  IN  SelectSeq([k \in 1..Len(ps) |-> {v \in State : PathConstraints(g, ps[k], v)}],
                LAMBDA w : w # {})

RECURSIVE Picks(_)
Picks(ws) ==
  IF ws = <<>> THEN {{}}
  ELSE { {v} \cup rest : v \in Head(ws), rest \in Picks(Tail(ws)) }

\* per pair, every set of counterexamples make_tcs may add
CegChoices ==
  [pr \in Pairs |-> Picks(PathWitnesses(pr.target) \o PathWitnesses(pr.rewrite))]

\* the positions the removal loop of verify erases, in its order: sorted,
\* walked from the largest, a repeat of the previous one skipped
RemovalOrder(idx) ==
  LET d == Reverse(SortSeq(idx, <))
  IN  SelectSeq([k \in 1..Len(d) |-> <<k, d[k]>>],
                LAMBDA e : e[1] = 1 \/ d[e[1] - 1] # e[2])

RemoveFailed(conjs, idx) ==
  FoldLeft(LAMBDA acc, e : RemoveAt(acc, e[2]), conjs, RemovalOrder(idx))

Unsupported(g) == \E b \in DOMAIN g.op : g.op[b] = "cpuid"

-----------------------------------------------------------------------------
VARIABLES
  pair,      \* the target, the rewrite and the cutpoint choices
  noBv,      \* no_bv_: make_tcs is skipped
  corpus,    \* the inputs of the sandbox
  phase,     \* where verify is
  choice,    \* the index of the current cutpoint choice (Cutpoints::next)
  invs,      \* invariants: one conjunct sequence per cutpoint
  learned,   \* the invariants as find_invariants returned them
  failed,    \* failed_invariants of the last check_proof
  result,    \* verify's return value, once phase = "done"
  error      \* has_error_

vars == <<pair, noBv, corpus, phase, choice, invs, learned, failed, result, error>>

Target == pair.target
Rewrite == pair.rewrite
\* the current cutpoint locations, target side and rewrite side
TCuts == [k \in 1..Len(pair.cuts[choice]) |-> pair.cuts[choice][k][1]]
RCuts == [k \in 1..Len(pair.cuts[choice]) |-> pair.cuts[choice][k][2]]
Interior == 2..(Len(TCuts) - 1)

Init ==
  /\ pair \in Pairs
  /\ noBv \in BOOLEAN
  /\ corpus \in Corpora
  /\ phase = "sanity"
  /\ choice = 1
  /\ invs = <<>>
  /\ learned = <<>>
  /\ failed = <<>>
  /\ result = FALSE
  /\ error = FALSE

\* sanity_checks: an instruction without a handler throws a validator_error,
\* which verify catches, setting has_error_ and returning false
sanity_checks ==
  /\ phase = "sanity"
  /\ \/ /\ Unsupported(Target) \/ Unsupported(Rewrite)
        /\ error' = TRUE
        /\ result' = FALSE
        /\ phase' = "done"
     \/ /\ ~Unsupported(Target) /\ ~Unsupported(Rewrite)
        /\ phase' = "make_tcs"
        /\ UNCHANGED <<error, result>>
  /\ UNCHANGED <<pair, noBv, corpus, choice, invs, learned, failed>>

\* make_tcs: each feasible path's counterexample joins the corpus
make_tcs ==
  /\ phase = "make_tcs"
  /\ \/ noBv /\ UNCHANGED corpus
     \/ /\ ~noBv
        /\ \E new \in CegChoices[pair] : corpus' = corpus \cup new
  /\ phase' = "cutpoints"
  /\ UNCHANGED <<pair, noBv, choice, invs, learned, failed, result, error>>

\* new Cutpoints(target, rewrite, sandbox): an error ends verify with false
compute_cutpoints ==
  /\ phase = "cutpoints"
  /\ \/ /\ pair.cuts = <<>>
        /\ result' = FALSE
        /\ phase' = "done"
     \/ /\ pair.cuts # <<>>
        /\ phase' = "find"
        /\ UNCHANGED result
  /\ UNCHANGED <<pair, noBv, corpus, choice, invs, learned, failed, error>>

\* the outer loop: learn the invariants of the current cutpoint choice
FindInvariants ==
  /\ phase = "find"
  /\ invs' = find_invariants(pair, pair.cuts[choice], corpus)
  /\ learned' = invs'
  /\ phase' = "houdini"
  /\ UNCHANGED <<pair, noBv, corpus, choice, failed, result, error>>

\* one turn of the Houdini loop: check_proof, then on failure the removal
\* of the failed conjuncts of the cutpoints in cuts
HoudiniStep(cuts) ==
  /\ phase = "houdini"
  /\ LET out == check_proof(Target, Rewrite, TCuts, RCuts, invs)
         fmap == [k \in 1..Len(invs) |-> IF k = out.j THEN out.failed ELSE <<>>]
         made_a_change == \E k \in cuts : fmap[k] # <<>>
     IN  /\ failed' = fmap
         /\ \/ /\ out.ok
               /\ result' = TRUE
               /\ phase' = "done"
               /\ UNCHANGED invs
            \/ /\ ~out.ok /\ made_a_change
               /\ invs' = [k \in 1..Len(invs) |->
                             IF k \in cuts THEN RemoveFailed(invs[k], fmap[k])
                             ELSE invs[k]]
               /\ UNCHANGED <<phase, result>>
            \/ /\ ~out.ok /\ ~made_a_change
               /\ phase' = "exhausted"
               /\ UNCHANGED <<invs, result>>
  /\ UNCHANGED <<pair, noBv, corpus, choice, learned, error>>

HoudiniNoRetry == HoudiniStep({})
\* removal at the interior cutpoints 1..size-2 only
Houdini == HoudiniStep(Interior)

\* a Houdini fixed point that does not prove: the next cutpoint choice, if
\* Cutpoints::has_more, else verify returns false
NextCutpointsSameChoice ==
  /\ phase = "exhausted"
  /\ \/ /\ choice < Len(pair.cuts)
        /\ UNCHANGED choice
        /\ phase' = "find"
        /\ UNCHANGED result
     \/ /\ choice = Len(pair.cuts)
        /\ result' = FALSE
        /\ phase' = "done"
        /\ UNCHANGED choice
  /\ UNCHANGED <<pair, noBv, corpus, invs, learned, failed, error>>

NextCutpoints ==
  /\ phase = "exhausted"
  /\ \/ /\ choice < Len(pair.cuts)
        /\ choice' = choice + 1
        /\ phase' = "find"
        /\ UNCHANGED result
     \/ /\ choice = Len(pair.cuts)
        /\ result' = FALSE
        /\ phase' = "done"
        /\ UNCHANGED choice
  /\ UNCHANGED <<pair, noBv, corpus, invs, learned, failed, error>>

\* verify has returned
Terminated == phase = "done" /\ UNCHANGED vars

Next ==
  \/ sanity_checks \/ make_tcs \/ compute_cutpoints
  \/ FindInvariants \/ Houdini \/ NextCutpoints \/ Terminated

(***************************************************************************)
(* verify runs on one thread: until it returns it keeps executing.  This  *)
(* is WF_vars(Next), which is                                              *)
(*   []<>~ENABLED <<Next>>_vars \/ []<><<Next>>_vars,                      *)
(* written with ENABLED <<Next>>_vars replaced by phase # "done": every    *)
(* state but "done" has a step that changes the variables (each action    *)
(* sets a new phase or removes at least one conjunct; deadlock checking    *)
(* confirms there is a step), and "done" is never left.                    *)
(***************************************************************************)
Fairness == <>[](phase = "done") \/ []<><<Next>>_vars

Spec == Init /\ [][Next]_vars /\ Fairness

-----------------------------------------------------------------------------
Phases == {"sanity", "make_tcs", "cutpoints", "find", "houdini", "exhausted", "done"}

FlagAtoms == {FlagAtom(sd, c, f) : sd \in {"t", "r"}, c \in Conds, f \in BOOLEAN}
Atoms == ToSet(SimpleCandidates) \cup
         {Atom(k) : k \in {"false", "nosigs", "memeq"}} \cup
         {StateEq(f) : f \in BOOLEAN}

\* a sequence, per cutpoint, of conjunct sequences
IsInvariantList(l) ==
  \A k \in DOMAIN l : \A m \in DOMAIN l[k] :
    l[k][m].guard \subseteq FlagAtoms /\ l[k][m].atom \in Atoms

TypeOK ==
  /\ pair \in Pairs
  /\ noBv \in BOOLEAN
  /\ corpus \in (SUBSET State) \ {{}}
  /\ phase \in Phases
  /\ choice \in 1..(IF pair.cuts = <<>> THEN 1 ELSE Len(pair.cuts))
  /\ IsInvariantList(invs) /\ IsInvariantList(learned)
  /\ \A k \in DOMAIN failed : \A m \in DOMAIN failed[k] :
        failed[k][m] \in DOMAIN learned[k]
  /\ result \in BOOLEAN
  /\ error \in BOOLEAN

(***************************************************************************)
(* Soundness (spec section 8): when verify returns true, target and        *)
(* rewrite agree on every input state: both end with the same live-outs,  *)
(* or neither ends.  This is about the whole proof: the finiteness test,   *)
(* the path obligations with their first-edge jump assumptions, the        *)
(* divergence test and what Houdini leaves of the learned invariants.      *)
(***************************************************************************)
Soundness ==
  phase = "done" /\ result =>
    \A v \in State : Outcome(Target, pair.flags, v) = Outcome(Rewrite, pair.flags, v)

(***************************************************************************)
(* Reference for the Houdini loop of verify: the greatest subset of the    *)
(* learned interior conjuncts that is inductive, computed on sets by       *)
(* removing, all at once and until nothing changes, every conjunct some   *)
(* path pair ending at its cutpoint fails; the choice proves iff all path *)
(* sets are finite and this subset passes every obligation.               *)
(***************************************************************************)
FailingAt(S, j) ==
  { c \in S[j] :
      \E i \in 1..Len(TCuts) :
        LET PT == Paths(Target, TCuts, 1, i, j)
            PR == Paths(Rewrite, RCuts, 1, i, j)
        IN  \E a \in 1..Len(PT), b \in 1..Len(PR) :
              ~check(Target, Rewrite, Body(Target, TCuts, i, PT[a]),
                     Body(Rewrite, RCuts, i, PR[b]),
                     S[i] \cup {get_jump_inv(Target, PT[a], "t"),
                                get_jump_inv(Rewrite, PR[b], "r")}, c) }

RECURSIVE GreatestInductive(_)
GreatestInductive(S) ==
  LET S2 == [k \in DOMAIN S |-> IF k \in Interior THEN S[k] \ FailingAt(S, k)
                                ELSE S[k]]
  IN  IF S2 = S THEN S ELSE GreatestInductive(S2)

HoudiniProves(L) ==
  LET n == Len(TCuts)
      G == GreatestInductive([k \in 1..n |-> ToSet(L[k])])
  IN  /\ \A i, j \in 1..n : Finite(Target, TCuts, i, j) /\ Finite(Rewrite, RCuts, i, j)
      /\ \A j \in 1..n : FailingAt(G, j) = {}
      /\ \A i, j \in 1..n : ~Diverges(Target, Rewrite, TCuts, RCuts, G[i], i, j)

(***************************************************************************)
(* The Houdini loop of verify, which checks pairs in order, stops at the  *)
(* first failing one and removes conjuncts by position (sorted, from the   *)
(* last, repeats skipped, never at the start or end cutpoint), leaves a    *)
(* cutpoint choice with a proof exactly when the set-based reference       *)
(* proves it.                                                               *)
(***************************************************************************)
HoudiniFindsGreatestInductive ==
  [][ (phase = "houdini" /\ phase' \in {"done", "exhausted"})
        => ((phase' = "done") = HoudiniProves(learned)) ]_vars

(***************************************************************************)
(* verify returns: the Houdini loop removes a conjunct on every turn that  *)
(* does not leave it, and there are finitely many cutpoint choices.        *)
(***************************************************************************)
Termination == <>(phase = "done")

=============================================================================
