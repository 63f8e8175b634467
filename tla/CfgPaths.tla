------------------------------ MODULE CfgPaths ------------------------------
(***************************************************************************)
(* Bounded path enumeration over a control-flow graph                      *)
(* (src/src/cfg/paths.cc, CfgPaths::enumerate_paths and its helper).       *)
(*                                                                         *)
(* A control-flow graph is a record                                        *)
(*   [succ   |-> block -> sequence of successor blocks (Cfg::succ_begin),  *)
(*    instrs |-> block -> number of instructions   (Cfg::num_instrs),      *)
(*    entry  |-> entry block, exit |-> exit block]                         *)
(* Paths are sequences of block ids.  The enumerator is a pure function,   *)
(* so it is an operator; the state machine below applies it once to an    *)
(* input chosen from a family of graphs and remembers the result for every *)
(* revisit bound 1..KMax, so that the results can be compared with each   *)
(* other and with a reference definition.                                  *)
(***************************************************************************)
EXTENDS Naturals, Sequences, SequencesExt, FiniteSets

CONSTANTS
  Cfgs,    \* the family of control-flow graphs the enumerator is run on
  KMax     \* the largest revisit bound (max_len) the results are kept for

ASSUME KMax \in Nat \ {0}

Blocks(cfg) == DOMAIN cfg.succ
Succs(cfg, b) == ToSet(cfg.succ[b])

(***************************************************************************)
(* enumerate_paths_helper: depth-first search.  `path` and `counts` are    *)
(* passed by value, as in the code, so the decrement after the recursive   *)
(* call only restores the caller's copy.  A solution is recorded when the  *)
(* last block is the end block and the path has more than one block; the  *)
(* search stops past a block of `nopass` (path longer than one) and past  *)
(* the exit; a successor is explored only if its incremented count does    *)
(* not exceed max_count.  The start block's count is never incremented.   *)
(* An absent nopass list (a null pointer) is the empty set.               *)
(***************************************************************************)
\* a solution: the last block is the end block and the path is not just <<start>>
IsSolution(path, endBlock) ==
  path[Len(path)] = endBlock /\ Len(path) > 1

\* the two early returns: past a nopass block (not the start) or the exit
StopsAfter(cfg, path, nopass) ==
  \/ Len(path) > 1 /\ path[Len(path)] \in nopass
  \/ path[Len(path)] = cfg.exit

\* a successor whose incremented count exceeds max_count is a dead end
ExceedsBoundInclusive(thisCount, maxCount) == thisCount >= maxCount
ExceedsBound(thisCount, maxCount) == thisCount > maxCount

RECURSIVE Helper(_, _, _, _, _, _), Explore(_, _, _, _, _, _, _)

Helper(cfg, path, endBlock, maxCount, counts, nopass) ==
  LET found == IF IsSolution(path, endBlock) THEN <<path>> ELSE <<>>
  IN  IF StopsAfter(cfg, path, nopass)
      THEN found
      ELSE found \o Explore(cfg, path, endBlock, maxCount, counts, nopass,
                            cfg.succ[path[Len(path)]])

\* the loop over successors, in successor order
Explore(cfg, path, endBlock, maxCount, counts, nopass, succs) ==
  IF succs = <<>> THEN <<>>
  ELSE LET s         == Head(succs)
           thisCount == counts[s] + 1
           here      == IF ExceedsBound(thisCount, maxCount) THEN <<>>
                        ELSE Helper(cfg, Append(path, s), endBlock, maxCount,
                                    [counts EXCEPT ![s] = thisCount], nopass)
       IN  here \o Explore(cfg, path, endBlock, maxCount, counts, nopass,
                           Tail(succs))

\* blocks with zero instructions are removed from every recorded path
StripEmpty(cfg, p) == SelectSeq(p, LAMBDA b : cfg.instrs[b] # 0)

(***************************************************************************)
(* enumerate_paths(cfg, max_len, start, end, nopass): the DFS from <<start>> *)
(* with all counts zero, run only when max_len > 0, then the stripping of  *)
(* empty blocks.                                                           *)
(***************************************************************************)
\* node_counts: an empty std::map, every count reads as zero
InitialCountsWithStart(cfg, start) ==
  [b \in Blocks(cfg) |-> IF b = start THEN 1 ELSE 0]
InitialCounts(cfg, start) == [b \in Blocks(cfg) |-> 0]

EnumeratePaths(cfg, maxLen, start, end, nopass) ==
  LET raw == IF maxLen > 0
             THEN Helper(cfg, <<start>>, end, maxLen,
                         InitialCounts(cfg, start), nopass)
             ELSE <<>>
  IN  [i \in 1..Len(raw) |-> StripEmpty(cfg, raw[i])]

-----------------------------------------------------------------------------
(***************************************************************************)
(* Reference definition, independent of the search order: the paths from  *)
(* start to end with more than one block, following edges, that pass      *)
(* neither the exit nor (after the first block) a nopass block before     *)
(* their last block, and in whose tail (everything after the first block)  *)
(* no block occurs more than k times.                                      *)
(***************************************************************************)
Occurrences(p, b) == Cardinality({i \in 2..Len(p) : p[i] = b})

IsBoundedPath(cfg, k, start, end, nopass, p) ==
  /\ Len(p) > 1
  /\ p[1] = start /\ p[Len(p)] = end
  /\ \A i \in 1..Len(p) - 1 : p[i + 1] \in Succs(cfg, p[i])
  /\ \A i \in 1..Len(p) - 1 : p[i] # cfg.exit
  /\ \A i \in 2..Len(p) - 1 : p[i] \notin nopass
  /\ \A b \in Blocks(cfg) : Occurrences(p, b) <= k

\* every walk from start whose tail visits no block more than k times
RECURSIVE Walks(_, _, _, _)
Walks(cfg, k, start, n) ==
  IF n = 1 THEN {<<start>>}
  ELSE LET shorter == Walks(cfg, k, start, n - 1)
       IN  shorter \cup
           UNION { { Append(w, b) : b \in { c \in Succs(cfg, w[Len(w)]) :
                                                Occurrences(w, c) < k } } :
                   w \in { v \in shorter : Len(v) = n - 1 } }

ReferencePaths(cfg, k, start, end, nopass) ==
  { p \in Walks(cfg, k, start, k * Cardinality(Blocks(cfg)) + 1) :
      IsBoundedPath(cfg, k, start, end, nopass, p) }

-----------------------------------------------------------------------------
VARIABLES
  cfg,      \* the graph enumerated
  start,    \* start block
  end,      \* end block
  nopass,   \* the blocks the search may not pass (the cutpoints), or {}
  results,  \* results[k] = enumerate_paths(cfg, k, start, end, nopass)
  called    \* whether the calls have been made

vars == <<cfg, start, end, nopass, results, called>>

\* The calls the code makes: make_tcs enumerates from entry to exit with no
\* nopass list; check_proof enumerates between two cutpoints with the
\* cutpoints (always including entry and exit) as the nopass list.
Calls(g) ==
  {[s |-> g.entry, e |-> g.exit, np |-> {}]} \cup
  UNION { { [s |-> s, e |-> e, np |-> cuts] : s \in cuts, e \in cuts } :
          cuts \in { c \cup {g.entry, g.exit} : c \in SUBSET Blocks(g) } }

Init ==
  /\ cfg \in Cfgs
  /\ \E c \in Calls(cfg) : start = c.s /\ end = c.e /\ nopass = c.np
  /\ results = [k \in 1..KMax |-> <<>>]
  /\ called = FALSE

\* enumerate_paths called with every bound 1..KMax on the same arguments
Enumerate ==
  /\ ~called
  /\ called' = TRUE
  /\ results' = [k \in 1..KMax |-> EnumeratePaths(cfg, k, start, end, nopass)]
  /\ UNCHANGED <<cfg, start, end, nopass>>

Next == Enumerate

Spec == Init /\ [][Next]_vars

-----------------------------------------------------------------------------
Enumerated == called

(***************************************************************************)
(* The depth-first search finds exactly the bounded paths, each once:     *)
(* for every bound k the enumerated paths are, after stripping empty       *)
(* blocks, the reference paths, and no path is recorded twice.  This is   *)
(* about the count bookkeeping of enumerate_paths_helper (increment,      *)
(* bound test, restore) and its two early returns.                        *)
(***************************************************************************)
EnumerationMatchesReference ==
  Enumerated =>
    \A k \in 1..KMax :
      /\ ToSet(results[k]) =
           { StripEmpty(cfg, p) : p \in ReferencePaths(cfg, k, start, end, nopass) }
      /\ Cardinality(ToSet(results[k])) = Len(results[k])

(***************************************************************************)
(* The finiteness test of DdecValidator::check_proof compares the number   *)
(* of paths at bounds 1 and 2.  It is sound and complete exactly when     *)
(* equal counts at 1 and 2 mean the count never grows at any larger bound, *)
(* and different counts mean it keeps growing.                             *)
(***************************************************************************)
FinitenessTestExact ==
  Enumerated /\ KMax >= 3 =>
    IF Len(results[1]) = Len(results[2])
    THEN \A k \in 2..KMax : Len(results[k]) = Len(results[1])
    ELSE \A k \in 2..KMax : Len(results[k]) > Len(results[k - 1])

(***************************************************************************)
(* The contract of spec section 4.3: no block is visited more than        *)
(* max_len times on an enumerated path.  The code does not count the      *)
(* start block, so a path from a cutpoint back to itself visits it         *)
(* max_len + 1 times.                                                      *)
(***************************************************************************)
VisitBoundOfContract ==
  Enumerated =>
    \A k \in 1..KMax : \A i \in 1..Len(results[k]) :
      \A b \in Blocks(cfg) :
        Cardinality({n \in DOMAIN results[k][i] : results[k][i][n] = b}) <= k

=============================================================================
