---------------------------- MODULE MC_MemoryMap ----------------------------
(***************************************************************************)
(* Maps of up to three entries over a 7-bit address space.  The addresses *)
(* give gaps below and above 32 bytes and an entry ending at the top of   *)
(* the address space (120 + 8 = 128); the sizes are 4, 8 and 16 bytes.    *)
(* MCDisjointConcretes holds the maps whose entries share no byte, as     *)
(* from distinct accesses; MCConcretes also has overlapping reads of the  *)
(* same memory at different widths.                                       *)
(***************************************************************************)
EXTENDS MemoryMap, FiniteSets

MCW == 7
MCRsp == 112
MCHeapBase == 64
Addrs == {0, 4, 8, 16, 40, 60, 120, 124}
Sizes == {4, 8, 16}

MCConcretes ==
  UNION { {f \in [D -> Sizes] : \A a \in D : a + f[a] <= 2 ^ MCW} :
          D \in {D \in SUBSET Addrs : Cardinality(D) <= 3} }

MCDisjointConcretes ==
  {f \in MCConcretes :
     \A a, b \in DOMAIN f : a # b => Bytes(a, f[a]) \cap Bytes(b, f[b]) = {}}
====
