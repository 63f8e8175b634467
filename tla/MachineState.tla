----------------------------- MODULE MachineState -----------------------------
(***************************************************************************)
(* The Machine State as spec 4.1 and 4.2 describe it: general purpose     *)
(* registers and named memory regions (heap, stack, data and the extra    *)
(* segments), each a window [lb, lb + size) with a byte and a validity    *)
(* bit per offset.  It says what the state's operations promise:          *)
(*   - XOR is bit-wise over every component, each region with its         *)
(*     namesake of the other state;                                       *)
(*   - equality is structural over every component;                       *)
(*   - a memory access dispatches to a region whose range holds the whole *)
(*     span; when none does the access is invalid and, at this layer,     *)
(*     what it reads is unspecified (the caller raises SIGSEGV).          *)
(* answer is what the last query returned, with its argument: ok for   *)
(* Boolean queries, bytes for a read.                                      *)
(***************************************************************************)
EXTENDS Naturals, Sequences, SequencesExt, Bitwise

CONSTANTS
  W,          \* address width in bits (uint64_t scaled down)
  Byte,       \* the values of one byte
  Others,     \* the right-hand states of ^= and ==
  Accesses    \* memory operands, as [addr |-> address, n |-> bytes]

VARIABLES st, answer

M == 2 ^ W

NoAnswer == [op |-> "none", arg |-> [addr |-> 0, n |-> 0], ok |-> FALSE, bytes |-> <<>>]

Span(acc) == {(acc.addr + k) % M : k \in 0..(acc.n - 1)}
Window(r) == {r.lb + k : k \in 0..(r.size - 1)}

Regions(s) == <<s.heap, s.stack, s.data>> \o s.segments
Holding(s, acc) == {r \in ToSet(Regions(s)) : Span(acc) \subseteq Window(r)}

XorBytes(r, q) ==
  [r EXCEPT !.bytes = [k \in DOMAIN r.bytes |->
                         IF k \in DOMAIN q.bytes THEN r.bytes[k] ^^ q.bytes[k]
                         ELSE r.bytes[k]]]

XorState(s, o) ==
  [gp       |-> [i \in DOMAIN s.gp |-> s.gp[i] ^^ o.gp[i]],
   heap     |-> XorBytes(s.heap, o.heap),
   stack    |-> XorBytes(s.stack, o.stack),
   data     |-> XorBytes(s.data, o.data),
   segments |-> [k \in DOMAIN s.segments |->
                   IF k \in DOMAIN o.segments THEN XorBytes(s.segments[k], o.segments[k])
                   ELSE s.segments[k]]]

ReadFrom(r, acc) == [k \in 1..acc.n |-> r.bytes[((acc.addr + k - 1) % M) - r.lb]]
ValidIn(r, acc) == \A x \in Span(acc) : r.valid[x - r.lb]

-----------------------------------------------------------------------------
Init == st \in Others /\ answer = NoAnswer

XorWith(o) == st' = XorState(st, o) /\ UNCHANGED answer

Equal(o) ==
  answer' = [op |-> "eq", arg |-> o, ok |-> st = o, bytes |-> <<>>] /\ UNCHANGED st

InRange(acc) ==
  answer' = [op |-> "in_range", arg |-> acc, ok |-> Holding(st, acc) # {}, bytes |-> <<>>]
  /\ UNCHANGED st

IsValid(acc) ==
  /\ \/ \E r \in Holding(st, acc) :
          answer' = [op |-> "is_valid", arg |-> acc, ok |-> ValidIn(r, acc), bytes |-> <<>>]
     \/ Holding(st, acc) = {} /\ answer' = [op |-> "is_valid", arg |-> acc, ok |-> FALSE, bytes |-> <<>>]
  /\ UNCHANGED st

Read(acc) ==
  /\ \/ \E r \in Holding(st, acc) :
          answer' = [op |-> "read", arg |-> acc, ok |-> TRUE, bytes |-> ReadFrom(r, acc)]
     \/ /\ Holding(st, acc) = {}
        /\ \E v \in [1..acc.n -> Byte] : answer' = [op |-> "read", arg |-> acc, ok |-> TRUE, bytes |-> v]
  /\ UNCHANGED st

Next ==
  \/ \E o \in Others : XorWith(o) \/ Equal(o)
  \/ \E acc \in Accesses : InRange(acc) \/ IsValid(acc) \/ Read(acc)

Spec == Init /\ [][Next]_<<st, answer>>

====
