---------------------------- MODULE MCKernelHeap ----------------------------
(* The kernel heap with the page size and the header sizes of the source, at a
   fraction of its size.                                                    *)
EXTENDS KernelHeap

(* the kernel's own requests: tasks, page tables, directories; none is freed *)
KernelsOwn ==
  [sizes |-> {24, 4096, 8196}, aligns |-> BOOLEAN, live |-> 6, frees |-> "none", span |-> 49152]

(* blocks freed in reverse order, through growth and contraction *)
Reversed ==
  [sizes |-> {24, 12000}, aligns |-> {FALSE}, live |-> 3, frees |-> "lifo", span |-> 49152]

(* a growth past the page table of the heap, with room for another and without *)
PastTable ==
  [sizes |-> {8000, 12000}, aligns |-> {FALSE}, live |-> 4, frees |-> "lifo", span |-> 40960]

(* clients that only allocate, on any address: growth after growth             *)
Growing ==
  [sizes |-> {24, 4084, 8196}, aligns |-> {FALSE}, live |-> 8, frees |-> "none", span |-> 49152]

(* the kernel's requests in a heap that is soon full; one beside its own sizes;
   small blocks freed in any order                                          *)
SoonFull == [KernelsOwn EXCEPT !.live = 4]
Odd == [KernelsOwn EXCEPT !.live = 4, !.sizes = {2048, 4096, 8196}]
AnyOrder ==
  [sizes |-> {24, 100}, aligns |-> {FALSE}, live |-> 3, frees |-> "any", span |-> 49152]

Used == {KernelsOwn, Reversed, PastTable, Growing}
JustFull == {SoonFull}
JustOdd == {Odd}
JustAny == {AnyOrder}
=============================================================================
