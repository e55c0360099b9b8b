------------------------------ MODULE Allocator ------------------------------
(***************************************************************************)
(* What alloc and free promise their callers (include/stdlib/kernelheap.h, *)
(* lines 52-60): alloc answers with a region of the size asked for that no *)
(* other caller has, and that stays its caller's until it is freed.        *)
(***************************************************************************)
EXTENDS Integers

CONSTANT Addresses       (* where a byte of a region may be                 *)

VARIABLE regions         (* the regions in use, as records [p, size]        *)

Bytes(r) == r.p .. r.p + r.size - 1
Region == [p : Addresses, size : Nat \ {0}]

Init == regions = {}

Alloc ==
  \E r \in regions' \ regions :
    /\ r \in Region
    /\ regions' = regions \cup {r}
    /\ Bytes(r) \subseteq Addresses
    /\ \A other \in regions : r.p + r.size <= other.p \/ other.p + other.size <= r.p

Free == \E r \in regions \ regions' : regions' = regions \ {r}

Next == Alloc \/ Free

Spec == Init /\ [][Next]_regions
=============================================================================
