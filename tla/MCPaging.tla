------------------------------ MODULE MCPaging ------------------------------
(* A small machine: 8 frames in two words of the bitset, tables of two pages
   and four directory slots: the identity map, the initial heap, a slot the
   heap may grow into, and the stack of the tasks.                          *)
EXTENDS Paging

MCHeapArea == {3, 4}
MCStackArea == {6}
=============================================================================
