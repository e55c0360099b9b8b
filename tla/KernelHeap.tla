----------------------------- MODULE KernelHeap -----------------------------
(***************************************************************************)
(* The kernel heap: alloc and free of common/stdlib/kernelheap.c over the  *)
(* index of holes of common/stdlib/ordered_array.c.                        *)
(*                                                                         *)
(* Headers and footers are kept where the code keeps them, in the memory   *)
(* that is being managed, so that one may overwrite another.  An address   *)
(* is a byte offset from heap->start_address.  A 32-bit word is            *)
(* represented by its signed value: a size that wrapped around is          *)
(* negative.  Requests are multiples of 4 bytes, as all of the kernel's    *)
(* are; then so are all addresses, and memory is a function of words.      *)
(***************************************************************************)
EXTENDS Integers, FiniteSets, Sequences, SequencesExt

CONSTANTS
  PageSize,        (* 0x1000                                                *)
  InitialSize,     (* end - start_address of the heap of initialise_paging  *)
  MinSize,         (* HEAP_MIN_SIZE                                         *)
  MaxAddress,      (* max_address                                           *)
  Workloads        (* what clients do: the sizes and the page_align arguments
                      they ask for, how many blocks they hold at one time
                      (a bound), which they free ("none", "lifo" or "any");
                      and the bytes of the heap that the page tables of
                      current_directory reach, 4 MB in the kernel           *)

ASSUME HeapAssumption ==
  /\ PageSize = 4096     (* contract and expand have it in their masks      *)
  /\ InitialSize \in Nat /\ InitialSize % PageSize = 0
  /\ MinSize \in 2 * PageSize .. InitialSize    (* contract may round to two pages *)
  /\ MinSize % PageSize = 0                    (* HEAP_MIN_SIZE is 0x70000  *)
  /\ MaxAddress \in Nat /\ InitialSize <= MaxAddress
  /\ \A w \in Workloads :
       /\ w.sizes \subseteq {n \in 4 .. MaxAddress : n % 4 = 0}
       /\ w.aligns \subseteq BOOLEAN /\ w.live \in Nat
       /\ w.frees \in {"none", "lifo", "any"}
       /\ w.span \in Nat /\ w.span % PageSize = 0 /\ InitialSize <= w.span

VARIABLES
  workload,     (* one of Workloads                                         *)
  mem,          (* the words that hold a header's or a footer's field       *)
  index,        (* heap->index: addresses of the holes' headers             *)
  end_address,
  backed,       (* the pages that have a frame                              *)
  request,      (* the call of alloc under way                              *)
  live,         (* the blocks the clients hold, in the order of their calls *)
  status        (* "ok", "panic" after an ASSERT, "fault" after a page
                   fault, "overflow" when the stack has no end to grow to   *)

heap == [mem |-> mem, index |-> index, end |-> end_address, backed |-> backed,
         status |-> status]
vars == <<workload, mem, index, end_address, backed, request, live, status>>

Magic == 305434795          (* HEAP_MAGIC *)
HeaderSize == 12            (* magic, is_hole, size *)
FooterSize == 8             (* magic, header *)
Overhead == HeaderSize + FooterSize
NoRequest == [size |-> 0, align |-> FALSE]

(* a >= b for two u32 *)
UGeq(a, b) == IF (a < 0) <=> (b < 0) THEN a >= b ELSE a < 0

-----------------------------------------------------------------------------
(* Memory.  A step of the code is a heap to heap operator; once the machine
   has stopped, what follows does nothing.                                  *)
PageOf(a) == a \div PageSize

Read(h, a) == IF a \in DOMAIN h.mem THEN h.mem[a] ELSE 0

Stop(h, why) == [h EXCEPT !.status = IF @ = "ok" THEN why ELSE @]
panic_unless(h, holds) == IF holds THEN h ELSE Stop(h, "panic")
Touch(h, a) == IF PageOf(a) \in h.backed THEN h ELSE Stop(h, "fault")

Write(h, a, v) ==
  LET t == Touch(h, a)
  IN  IF t.status # "ok" THEN t
      ELSE [t EXCEPT !.mem = [x \in DOMAIN @ \cup {a} |-> IF x = a THEN v ELSE @[x]]]

IsHole(h, header) == Read(h, header + 4)
SizeOf(h, header) == Read(h, header + 8)
HeaderOf(h, footer) == Read(h, footer + 4)

PutSize(h, header, size) == Write(h, header + 8, size)
PutHeader(h, header, is_hole, size) ==
  PutSize(Write(Write(h, header, Magic), header + 4, is_hole), header, size)
PutFooter(h, footer, header) == Write(Write(h, footer, Magic), footer + 4, header)

(* The owner of a block overwrites what it was given. *)
Fill(h, p, size) ==
  [h EXCEPT !.mem = [x \in {a \in DOMAIN @ : a < p \/ a >= p + size} |-> @[x]]]

-----------------------------------------------------------------------------
(* ordered_array.c *)
less_than(h, a, b) == FALSE     (* header_t_less_then compares a with a *)

insert_ordered_array(h, item) ==
  LET before == {i \in 1 .. Len(h.index) :
                   \A j \in 1 .. i : less_than(h, h.index[j], item)}
  IN  IF h.status = "ok"
        THEN [h EXCEPT !.index = InsertAt(@, 1 + Cardinality(before), item)]
        ELSE h

(* Mutant: the entry stays. *)
remove_ordered_array_not(h, i) == h

remove_ordered_array(h, i) ==
  IF h.status = "ok" THEN [h EXCEPT !.index = RemoveAt(@, i)] ELSE h

(* The first position of the index whose entry satisfies the test; 0 if none *)
FirstWhere(h, Test(_)) == SelectInSeq(h.index, Test)

-----------------------------------------------------------------------------
(* contract(new_size).  Bit 12 of the size is tested for "not a page boundary",
   and the size is then masked with that bit.                               *)
Rounded(new_size) == IF PageOf(new_size) % 2 = 1 THEN 2 * PageSize ELSE new_size
(* Mutant: the minimal size is not kept. *)
ContractTo_any(new_size) == Rounded(new_size)

ContractTo(new_size) == IF Rounded(new_size) < MinSize THEN MinSize ELSE Rounded(new_size)

contract(h, new_size) ==
  LET to == ContractTo(new_size)
      freed == {PageOf(h.end - PageSize * k) :
                  k \in {k \in 1 .. PageOf(h.end) : h.end - PageSize * k > to}}
      checked == panic_unless(h, new_size < h.end)
  IN  IF checked.status # "ok" THEN checked
      ELSE [checked EXCEPT
              !.backed = @ \ freed, !.end = to,
              !.mem = [x \in {a \in DOMAIN @ : PageOf(a) \notin freed} |-> @[x]]]

(* find_smallest_hole: the first entry of the index that fits.  The test for
   the alignment offset (line 112) is never true of an even address.        *)
find_smallest_hole(h, new_size, page_align) ==
  FirstWhere(h, LAMBDA hole : IF page_align THEN SizeOf(h, hole) >= new_size
                              ELSE UGeq(SizeOf(h, hole), new_size))

(* the hole left in front of a block whose data is page-aligned: 240-252 *)
(* Mutant: the header's own bytes are forgotten. *)
FrontSize_plain(hole) == PageSize - (hole % PageSize)

FrontSize(hole) == PageSize - (hole % PageSize) - HeaderSize
split_front(h, hole) ==
  PutFooter(PutHeader(h, hole, 1, FrontSize(hole)),
            hole + FrontSize(hole) - FooterSize, hole)

(* the hole left behind a block: 271-285 *)
split_back(h, hole, size) ==
  IF size = 0 THEN h
  ELSE LET headed == PutHeader(h, hole, 1, size)
           footer == hole + size - FooterSize
       IN  insert_ordered_array(IF footer < h.end THEN PutFooter(headed, footer, hole)
                                ELSE headed, hole)

(* the part of alloc for which entry i of the index fits: 227-288 *)
Absorbed(orig, new_size) ==
  IF orig - new_size \in 0 .. Overhead - 1 THEN orig - new_size ELSE 0

BlockAt(hole, page_align) == IF page_align THEN hole + FrontSize(hole) ELSE hole

(* Mutant: the hole behind the block starts where the footer does. *)
BackAt_tight(block, new_size) == block + new_size - FooterSize

BackAt(block, new_size) == block + new_size

Rest(orig, front) == orig - front

place(h, i, request_size, page_align) ==
  LET hole == h.index[i]
      orig == SizeOf(h, hole)
      size == request_size + Absorbed(orig, request_size + Overhead)
      new_size == size + Overhead
      opened == IF page_align THEN split_front(h, hole) ELSE remove_ordered_array(h, i)
      rest == IF page_align THEN Rest(orig, SizeOf(opened, hole)) ELSE orig
      block == BlockAt(hole, page_align)
      taken == PutFooter(PutHeader(opened, block, 0, new_size),
                         block + HeaderSize + size, block)
  IN  split_back(taken, BackAt(block, new_size), rest - new_size)

(* Mutant: the pages of a new table are there at once. *)
WithTable_shared(h, fresh) == [h EXCEPT !.backed = @ \cup fresh]

(* get_page for pages beyond the table of the heap calls alloc for a new one, in
   the middle of expand: another growth comes to the same page again.  The table
   is entered in kernel_directory, not in current_directory.                *)
WithTable(h, fresh) ==
  LET fit == find_smallest_hole(h, PageSize + Overhead, TRUE)
  IN  IF fresh = {} THEN h
      ELSE IF fit = 0 THEN Stop(h, "overflow")
      ELSE LET table == BlockAt(h.index[fit], TRUE) + HeaderSize
           IN  Fill(place(h, fit, PageSize, TRUE), table, PageSize)

(* expand(new_size).  The mask of line 58 is (new_size & 1): an even size is
   not rounded.  Pages are visited in steps of 1000 bytes.                  *)
expand(h, new_size) ==
  LET visited == {PageOf(h.end + 1000 * k) : k \in 0 .. (new_size - h.end - 1) \div 1000}
      fresh == {page \in visited : page >= PageOf(workload.span)}
      checked == panic_unless(panic_unless(h, new_size > h.end), new_size <= MaxAddress)
      grown == WithTable([checked EXCEPT !.backed = @ \cup (visited \ fresh)], fresh)
  IN  IF checked.status # "ok" THEN checked
      ELSE IF grown.status # "ok" THEN grown
      ELSE [grown EXCEPT !.end = new_size]

(* Mutant: the headers' part of the growth is forgotten. *)
GrownSize_short(h, header, by) == by - Overhead

(* the endmost hole takes what the heap has grown by: 217 *)
GrownSize(h, header, by) == SizeOf(h, header) + by

(* the part of alloc for which no hole fits: lines 176-222 *)
grow(h, new_size) ==
  LET old == h.end
      expanded == expand(h, old + new_size)
      last == FirstWhere(expanded, LAMBDA a : \A i \in 1 .. Len(expanded.index) :
                                                expanded.index[i] <= a)
      header == expanded.index[last]
      size == GrownSize(expanded, header, expanded.end - old)
  IN  IF expanded.status # "ok" THEN expanded
      ELSE IF last = 0
        THEN insert_ordered_array(
               PutFooter(PutHeader(expanded, old, 1, new_size),
                         old + new_size - FooterSize, old), old)
        ELSE PutFooter(PutSize(expanded, header, size), header + size - FooterSize, header)

-----------------------------------------------------------------------------
(* Mutant: whatever is on the left is taken for a hole. *)
unify_left_always(h, header, footer) ==
  LET into == HeaderOf(h, header - FooterSize)
  IN  IF Read(h, header - FooterSize) # Magic THEN [heap |-> h, header |-> header]
      ELSE LET linked == Write(h, footer + 4, into)
           IN  [heap |-> PutSize(linked, into, SizeOf(linked, into) + SizeOf(h, header)),
                header |-> into]

(* free: 312-323, 325-345, 347-372, and the whole *)
unify_left(h, header, footer) ==
  LET left == header - FooterSize
      near == Touch(h, left)
      into == HeaderOf(h, left)
  IN  IF near.status # "ok" \/ Read(h, left) # Magic THEN [heap |-> near, header |-> header]
      ELSE IF Touch(h, into).status # "ok" THEN [heap |-> Touch(h, into), header |-> header]
      ELSE IF IsHole(h, into) # 1 THEN [heap |-> h, header |-> header]
      ELSE LET linked == Write(h, footer + 4, into)
           IN  [heap |-> PutSize(linked, into, SizeOf(linked, into) + SizeOf(h, header)),
                header |-> into]

(* Mutant: the size of the hole on the right is not added. *)
unify_right_plain(h, header, footer) ==
  LET right == footer + FooterSize
      near == Touch(h, right)
      i == FirstWhere(h, LAMBDA a : a = right)
  IN  IF near.status # "ok" \/ Read(h, right) # Magic \/ IsHole(h, right) = 0
        THEN [heap |-> near, footer |-> footer]
        ELSE [heap |-> remove_ordered_array(panic_unless(h, i # 0), i),
              footer |-> right + SizeOf(h, right) - FooterSize]

unify_right(h, header, footer) ==
  LET right == footer + FooterSize
      near == Touch(h, right)
      i == FirstWhere(h, LAMBDA a : a = right)
  IN  IF near.status # "ok" \/ Read(h, right) # Magic \/ IsHole(h, right) = 0
        THEN [heap |-> near, footer |-> footer]
        ELSE LET grown == PutSize(h, header, SizeOf(h, header) + SizeOf(h, right))
             IN  [heap |-> remove_ordered_array(panic_unless(grown, i # 0), i),
                  footer |-> right + SizeOf(grown, right) - FooterSize]

shrink(h, header, test_header) ==
  LET smaller == contract(h, header)
      size == SizeOf(h, header) - (h.end - smaller.end)
      i == FirstWhere(smaller, LAMBDA a : a = test_header)
  IN  IF smaller.status # "ok" THEN smaller
      ELSE IF size # 0
        THEN PutFooter(PutSize(smaller, header, size), header + size - FooterSize, header)
        ELSE IF i # 0 THEN remove_ordered_array(smaller, i) ELSE smaller

free(h, p) ==
  LET header == p - HeaderSize
      footer == header + SizeOf(h, header) - FooterSize
      sane == panic_unless(panic_unless(h, Read(h, header) = Magic), Read(h, footer) = Magic)
      hole == Write(sane, header + 4, 1)
      left == unify_left(hole, header, footer)
      right == unify_right(left.heap, left.header, footer)
      last == right.footer + FooterSize = right.heap.end
      shrunk == IF right.heap.status = "ok" /\ last
                  THEN shrink(right.heap, left.header, footer + FooterSize)
                  ELSE right.heap
  IN  IF left.header = header THEN insert_ordered_array(shrunk, header) ELSE shrunk

-----------------------------------------------------------------------------
Become(h) ==
  /\ mem' = h.mem /\ index' = h.index /\ end_address' = h.end
  /\ backed' = h.backed /\ status' = h.status

(* create_heap writes no footer for the first hole.  The page below it, which
   holds the end of the index, is backed.                                   *)
Init ==
  LET start == [mem |-> [a \in {} |-> 0], index |-> <<>>, end |-> InitialSize,
                backed |-> -1 .. PageOf(InitialSize) - 1, status |-> "ok"]
      h == insert_ordered_array(PutHeader(start, 0, 1, InitialSize), 0)
  IN  /\ workload \in Workloads
      /\ mem = h.mem /\ index = h.index /\ end_address = h.end
      /\ backed = h.backed /\ status = h.status
      /\ request = NoRequest
      /\ live = <<>>

Fitting == find_smallest_hole(heap, request.size + Overhead, request.align)

(* A client calls alloc. *)
Call(size, page_align) ==
  /\ status = "ok"
  /\ request = NoRequest
  /\ Len(live) < workload.live
  /\ request' = [size |-> size, align |-> page_align]
  /\ UNCHANGED <<workload, mem, index, end_address, backed, live, status>>

(* Nothing fits: the heap grows, and alloc calls itself again. *)
Grow ==
  /\ status = "ok"
  /\ request # NoRequest
  /\ Fitting = 0
  /\ Become(grow(heap, request.size + Overhead))
  /\ UNCHANGED <<workload, request, live>>

(* A hole fits: it becomes the block, and its owner fills it. *)
Place ==
  /\ status = "ok"
  /\ request # NoRequest
  /\ Fitting # 0
  /\ LET placed == place(heap, Fitting, request.size, request.align)
         p == BlockAt(index[Fitting], request.align) + HeaderSize
     IN  IF placed.status = "ok"
           THEN /\ Become(Fill(placed, p, request.size))
                /\ live' = Append(live, [p |-> p, size |-> request.size,
                                         align |-> request.align])
           ELSE Become(placed) /\ UNCHANGED live
  /\ request' = NoRequest
  /\ UNCHANGED workload

(* A client frees the i-th of the blocks in use. *)
Free(i) ==
  /\ status = "ok"
  /\ request = NoRequest
  /\ workload.frees = "any" \/ (workload.frees = "lifo" /\ i = Len(live))
  /\ Become(free(heap, live[i].p))
  /\ live' = RemoveAt(live, i)
  /\ UNCHANGED <<workload, request>>

Next ==
  \/ \E size \in workload.sizes, page_align \in workload.aligns : Call(size, page_align)
  \/ Grow
  \/ Place
  \/ \E i \in 1 .. Len(live) : Free(i)

Spec == Init /\ [][Next]_vars

-----------------------------------------------------------------------------
Running == status = "ok"
Blocks == {live[i] : i \in 1 .. Len(live)}

(* the bytes from a block's header to its footer, and the bytes of a hole *)
Extent(b) == [first |-> b.p - HeaderSize, last |-> b.p + b.size + FooterSize - 1]
HoleExtent(a) == [first |-> a, last |-> a + SizeOf(heap, a) - 1]
Apart(x, y) == x.last < y.first \/ y.last < x.first

(* What alloc gives a client: a block at a page boundary, if that was asked for
   (kernelheap.c:239-252).                                                  *)
Given(w) == {b \in [p : Int, size : w.sizes, align : w.aligns] :
               b.align => b.p % PageSize = 0}

(* Every variable has its type; the heap never grows past max_address
   (kernelheap.c:54-74), and requests for page boundaries are met.          *)
TypeOK ==
  /\ mem \in [DOMAIN mem -> Int] /\ DOMAIN mem \subseteq Int
  /\ index \in Seq(Int)
  /\ end_address \in MinSize .. MaxAddress
  /\ backed \subseteq Int
  /\ workload \in Workloads
  /\ request \in [size : workload.sizes \cup {0}, align : BOOLEAN]
  /\ live \in Seq(Given(workload))
  /\ status \in {"ok", "panic", "fault", "overflow"}

(* No two blocks in use overlap, headers and footers included, whatever was
   split, absorbed, unified or grown in between (kernelheap.c:168-378).     *)
BlocksDisjoint ==
  Running => \A i, j \in 1 .. Len(live) : i # j => Apart(Extent(live[i]), Extent(live[j]))

(* Each page that a block in use reaches has a frame (expand, contract).    *)
BlocksBacked ==
  Running => \A b \in Blocks :
    PageOf(Extent(b).first) .. PageOf(Extent(b).last) \subseteq backed

(* "We now have enough space" (kernelheap.c:223): every page of the heap has a
   frame, those of a growth included.                                       *)
GrowthIsBacked == PageOf(0) .. PageOf(end_address - 1) \subseteq backed

(* A heap in use never goes on past the page table that the tasks share: the
   growth that needs another one stops the machine, whether or not the heap
   still has a page for it (kernelheap.c:66-73, paging.c:195-217, 267-296).
   So it is with the sizes of the workloads.  With others the new table may be
   all that is left of the endmost hole; the growth then goes to the hole in
   front of it, over the table, and the heap goes on without its last pages. *)
OneTable == Running => end_address <= workload.span

(* The header and the footer of a block in use are those that alloc wrote,
   and name each other, as the sanity checks of free require: nobody's hole
   is written over them (kernelheap.c:259-267, 302-304).                    *)
BlocksIntact ==
  Running => \A b \in Blocks :
    LET header == b.p - HeaderSize
        footer == header + SizeOf(heap, header) - FooterSize
    IN  /\ Read(heap, header) = Magic /\ IsHole(heap, header) = 0
        /\ SizeOf(heap, header) >= b.size + Overhead
        /\ Read(heap, footer) = Magic /\ HeaderOf(heap, footer) = header

(* Each entry of the index is the header of a hole, and no hole reaches into a
   block in use or into another hole (find_smallest_hole trusts the index). *)
HolesSound ==
  Running => \A i \in 1 .. Len(index) :
    /\ Read(heap, index[i]) = Magic /\ IsHole(heap, index[i]) = 1
    /\ \A b \in Blocks : Apart(HoleExtent(index[i]), Extent(b))
    /\ \A j \in 1 .. Len(index) :
         i # j => Apart(HoleExtent(index[i]), HoleExtent(index[j]))

(* No byte is lost: the sizes of the holes in the index and of the blocks in
   use add up to the size of the heap (alloc, free, expand, contract).      *)
Tiled ==
  LET holes == FoldLeft(LAMBDA s, a : s + SizeOf(heap, a), 0, index)
      blocks == FoldLeft(LAMBDA s, b : s + SizeOf(heap, b.p - HeaderSize), 0, live)
  IN  Running => holes + blocks = end_address

(* Room in a hole for n bytes at a page boundary: what is left in front of the block
   holds a header and a footer, and so does what is left behind it, if anything is. *)
Wide(h, a, n) ==
  LET left == SizeOf(h, a) - (FrontSize(a) + n + Overhead)
  IN  FrontSize(a) >= Overhead /\ (left = 0 \/ left >= Overhead)

(* The last word of the block's footer would be on a page after those of the heap. *)
Beyond(h, a, n) ==
  FrontSize(a) >= Overhead /\ PageOf(a + FrontSize(a) + n + 16) > PageOf(h.end - 1)

(* The heap ends in a hole, or has none. *)
EndsInHole(h) ==
  \/ h.index = <<>>
  \/ \E i \in 1 .. Len(h.index) : h.index[i] + SizeOf(h, h.index[i]) = h.end

(* The hole found for a page boundary has room for the block there, as line 112 sets
   out to test and does not; or else the machine stops at the footer.  And when no hole
   fits, the one that line 217 enlarges is the one at the end of the heap.  So it is
   with these workloads; with others see the run heap_aligned.  (kernelheap.c:107-115, 196-217) *)
RequestFits ==
  Running /\ request # NoRequest =>
    IF Fitting = 0 THEN EndsInHole(heap)
    ELSE request.align =>
           \/ Wide(heap, index[Fitting], request.size)
           \/ Beyond(heap, index[Fitting], request.size)

(* "We now have enough space. Recurse, and call the function again."
   (kernelheap.c:223): alloc calls itself once at most.                     *)
EnoughAfterGrow ==
  [][end_address' > end_address => ~Running' \/ Fitting' # 0]_vars

(* alloc and free implement the allocator that kernelheap.h promises. *)
Promised == INSTANCE Allocator WITH
              Addresses <- 0 .. MaxAddress - 1,
              regions <- {[p |-> b.p, size |-> b.size] : b \in Blocks}
IsAllocator == Promised!Spec
=============================================================================
