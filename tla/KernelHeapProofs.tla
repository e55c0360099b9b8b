-------------------------- MODULE KernelHeapProofs --------------------------
(***************************************************************************)
(* Four things are proved of the kernel heap.                              *)
(*                                                                         *)
(* For every workload: the types, the bounds of the heap, and that aligned *)
(* requests are met.  Each operator of the model makes a heap of a heap,   *)
(* so that this holds whatever has been written over.                      *)
(*                                                                         *)
(* For clients that ask for memory on any address and keep it, or free     *)
(* what they were given last (LastFirst), in a heap of one page table: the *)
(* layout.  Blocks lie one right behind the other, in the order of their   *)
(* calls, and there is at most one hole, behind the last of them.  From it *)
(* follow that blocks are disjoint, intact and backed, that the index is   *)
(* sound, that no byte is lost, that one growth is enough and goes to the  *)
(* hole at the end, and that alloc and free are an allocator.              *)
(*                                                                         *)
(* For the same clients: the heap keeps to its page table, whatever it is  *)
(* asked for, unless a page table put into it fills its last hole exactly, *)
(* or is put right behind the header of that hole (Coincidence).           *)
(*                                                                         *)
(* For clients that keep their blocks, at page boundaries or not (Roomy):  *)
(* blocks and holes lie clear of each other, in any order (Mosaic).  From  *)
(* it follow the same but for the sum of the sizes, in a heap of one page  *)
(* table, as long as the hole that is found has room at the boundary.      *)
(*                                                                         *)
(* In general these are false: the runs heap_any and heap_aligned have     *)
(* counterexamples with another order of free and with alignment.          *)
(***************************************************************************)
EXTENDS KernelHeap, FiniteSetTheorems, SequenceTheorems, WellFoundedInduction, TLAPS

(* The heap that the operators of the model are given and make, a record. *)
Statuses == {"ok", "panic", "fault", "overflow"}
Memories == UNION {[D -> Int] : D \in SUBSET Int}
Heaps == [mem : Memories, index : Seq(Int), end : MinSize .. MaxAddress,
          backed : SUBSET Int, status : Statuses]

(* A memory is a function from words to integers. *)
LEMMA Memory == \A m : m \in Memories <=> m \in [DOMAIN m -> Int] /\ DOMAIN m \subseteq Int
<1>1. ASSUME NEW m, m \in Memories PROVE m \in [DOMAIN m -> Int] /\ DOMAIN m \subseteq Int
  <2>1. PICK D \in SUBSET Int : m \in [D -> Int]
    BY <1>1 DEF Memories
  <2> QED
    BY <2>1
<1>2. ASSUME NEW m, m \in [DOMAIN m -> Int], DOMAIN m \subseteq Int PROVE m \in Memories
  BY <1>2 DEF Memories
<1> QED
  BY <1>1, <1>2

(* Min, from the community modules, is the least element of a set of positions.  *)
LEMMA Least == ASSUME NEW n \in Nat, NEW I \in SUBSET (1 .. n), I # {}
               PROVE  Min(I) \in I /\ \A i \in I : Min(I) <= i
<1>1. I \subseteq Nat
  OBVIOUS
<1>2. PICK m \in I : \A k \in I : <<k, m>> \notin OpToRel(<, Nat)
  BY <1>1, WFMin, NatLessThanWellFounded, Zenon
<1>3. \A k \in I : ~(k < m)
  BY <1>1, <1>2, Zenon DEF OpToRel
<1>4. \A k \in I : m <= k
  BY <1>1, <1>3, SMT
<1> QED
  BY <1>4, Zenon DEF Min

(* Max is the greatest.  *)
LEMMA Above == ASSUME NEW n \in Nat, NEW I \in SUBSET (1 .. n), I # {}
               PROVE  Max(I) \in I /\ \A i \in I : i <= Max(I)
<1> DEFINE J == {n + 1 - i : i \in I}
<1>1. J \in SUBSET (1 .. n) /\ J # {}
  <2>1. \A i \in I : n + 1 - i \in 1 .. n
    OBVIOUS
  <2>2. PICK i \in I : TRUE
    OBVIOUS
  <2> QED
    BY <2>1, <2>2, Zenon
<1>2. Min(J) \in J /\ \A j \in J : Min(J) <= j
  BY <1>1, Least
<1>3. PICK m \in I : Min(J) = n + 1 - m
  BY <1>2
<1>4. \A i \in I : i <= m
  <2> SUFFICES ASSUME NEW i \in I PROVE i <= m
    OBVIOUS
  <2>1. Min(J) <= n + 1 - i
    BY <1>2
  <2> HIDE DEF J
  <2> QED
    BY <1>3, <2>1
<1>5. \A i \in I : m >= i
  BY <1>4
<1> QED
  BY <1>4, <1>5, Zenon DEF Max

(* Parts of a heap *)
LEMMA Parts ==
  ASSUME NEW h \in Heaps
  PROVE  /\ h.mem \in Memories /\ h.index \in Seq(Int) /\ h.end \in MinSize .. MaxAddress
         /\ h.end \in Int /\ h.backed \subseteq Int /\ h.status \in Statuses
<1>1. MinSize \in Int /\ MaxAddress \in Int
  BY HeapAssumption
<1> QED
  BY <1>1 DEF Heaps

(* A heap with another memory is a heap. *)
LEMMA WithMemory == ASSUME NEW h \in Heaps, NEW m \in Memories
                    PROVE  [h EXCEPT !.mem = m] \in Heaps
BY DEF Heaps

(* A heap with another index is a heap. *)
LEMMA WithIndex == ASSUME NEW h \in Heaps, NEW s \in Seq(Int)
                   PROVE  [h EXCEPT !.index = s] \in Heaps
BY DEF Heaps

(* A word that was never written reads as zero, so that every read is a word. *)
LEMMA ReadInt == ASSUME NEW h \in Heaps, NEW a PROVE Read(h, a) \in Int
BY Memory, Parts DEF Read

(* Each operator of the model makes a heap of a heap; so does a stop of the machine. *)
LEMMA StopHeap == ASSUME NEW h \in Heaps, NEW why \in Statuses
                  PROVE  Stop(h, why) \in Heaps
BY DEF Stop, Heaps

(* An assertion leaves a heap. *)
LEMMA PanicHeap == ASSUME NEW h \in Heaps, NEW holds PROVE panic_unless(h, holds) \in Heaps
BY StopHeap DEF panic_unless, Statuses

(* An access to a page leaves a heap. *)
LEMMA TouchHeap == ASSUME NEW h \in Heaps, NEW a PROVE Touch(h, a) \in Heaps
BY StopHeap DEF Touch, Statuses

(* A write leaves a heap. *)
LEMMA WriteHeap == ASSUME NEW h \in Heaps, NEW a \in Int, NEW v \in Int
                   PROVE  Write(h, a, v) \in Heaps
<1> DEFINE t == Touch(h, a)
           m == [x \in DOMAIN t.mem \cup {a} |-> IF x = a THEN v ELSE t.mem[x]]
<1>1. t \in Heaps
  BY TouchHeap
<1>2. m \in Memories
  BY <1>1, Parts, Memory
<1>3. Write(h, a, v) = IF t.status # "ok" THEN t ELSE [t EXCEPT !.mem = m]
  BY DEF Write
<1> HIDE DEF t, m
<1> QED
  BY <1>1, <1>2, <1>3, WithMemory

(* The size of a header, written, leaves a heap. *)
LEMMA PutSizeHeap == ASSUME NEW h \in Heaps, NEW a \in Int, NEW n \in Int
                     PROVE  PutSize(h, a, n) \in Heaps
BY WriteHeap DEF PutSize

(* A header leaves a heap. *)
LEMMA PutHeaderHeap ==
  ASSUME NEW h \in Heaps, NEW a \in Int, NEW k \in Int, NEW n \in Int
  PROVE  PutHeader(h, a, k, n) \in Heaps
<1>1. Write(h, a, Magic) \in Heaps
  BY WriteHeap DEF Magic
<1>2. Write(Write(h, a, Magic), a + 4, k) \in Heaps
  BY <1>1, WriteHeap
<1> QED
  BY <1>2, PutSizeHeap DEF PutHeader

(* A footer leaves a heap. *)
LEMMA PutFooterHeap == ASSUME NEW h \in Heaps, NEW a \in Int, NEW b \in Int
                       PROVE  PutFooter(h, a, b) \in Heaps
<1>1. Write(h, a, Magic) \in Heaps
  BY WriteHeap DEF Magic
<1> QED
  BY <1>1, WriteHeap DEF PutFooter

(* What an owner writes leaves a heap. *)
LEMMA FillHeap == ASSUME NEW h \in Heaps, NEW p, NEW n PROVE Fill(h, p, n) \in Heaps
<1> DEFINE m == [x \in {a \in DOMAIN h.mem : a < p \/ a >= p + n} |-> h.mem[x]]
<1>1. m \in Memories
  BY Parts, Memory
<1>2. Fill(h, p, n) = [h EXCEPT !.mem = m]
  BY DEF Fill
<1> HIDE DEF m
<1> QED
  BY <1>1, <1>2, WithMemory

(* insert_ordered_array puts the entry first, because less_than is never true. *)
LEMMA InsertsFirst ==
  ASSUME NEW h \in Heaps, NEW a \in Int
  PROVE  insert_ordered_array(h, a)
           = IF h.status = "ok" THEN [h EXCEPT !.index = <<a>> \o @] ELSE h
<1> DEFINE before == {i \in 1 .. Len(h.index) :
                        \A j \in 1 .. i : less_than(h, h.index[j], a)}
<1>1. h.index \in Seq(Int) /\ Len(h.index) \in Nat
  BY Parts
<1>2. ASSUME NEW i \in before PROVE FALSE
  <2>1. 1 \in 1 .. i
    BY <1>1
  <2> QED
    BY <2>1 DEF less_than
<1>3. Cardinality(before) = 0
  BY <1>2, FS_EmptySet
<1>4. SubSeq(h.index, 1, 0) = <<>> /\ SubSeq(h.index, 1, Len(h.index)) = h.index
  BY <1>1, SubSeqEmpty, SubSeqFull
<1>5. InsertAt(h.index, 1, a) = <<a>> \o h.index
  <2>1. <<>> \o <<a>> = <<a>>
    OBVIOUS
  <2> QED
    BY <1>4, <2>1 DEF InsertAt
<1>6. InsertAt(h.index, 1 + Cardinality(before), a) = <<a>> \o h.index
  <2> HIDE DEF before
  <2>1. 1 + Cardinality(before) = 1
    BY <1>3
  <2> QED
    BY <1>5, <2>1, Zenon
<1> QED
  BY <1>6, Zenon DEF insert_ordered_array

(* An insertion leaves a heap. *)
LEMMA InsertHeap == ASSUME NEW h \in Heaps, NEW a \in Int
                    PROVE  insert_ordered_array(h, a) \in Heaps
<1>1. h.index \in Seq(Int) /\ <<a>> \o h.index \in Seq(Int)
  BY Parts
<1> QED
  BY <1>1, InsertsFirst, WithIndex

(* Removing an element leaves a sequence of the same elements. *)
LEMMA Removed == ASSUME NEW s, NEW T, s \in Seq(T), NEW i \in 1 .. Len(s)
                 PROVE  RemoveAt(s, i) \in Seq(T) /\ Len(RemoveAt(s, i)) = Len(s) - 1
<1>1. Len(s) \in Nat
  OBVIOUS
<1>2. SubSeq(s, 1, i - 1) \in Seq(T) /\ Len(SubSeq(s, 1, i - 1)) = i - 1
  BY <1>1, SubSeqProperties
<1>3. SubSeq(s, i + 1, Len(s)) \in Seq(T) /\ Len(SubSeq(s, i + 1, Len(s))) = Len(s) - i
  BY <1>1, SubSeqProperties
<1> DEFINE f == SubSeq(s, 1, i - 1)
           b == SubSeq(s, i + 1, Len(s))
<1>4. RemoveAt(s, i) = f \o b
  BY DEF RemoveAt
<1>5. f \in Seq(T) /\ b \in Seq(T) /\ Len(f) = i - 1 /\ Len(b) = Len(s) - i
  BY <1>2, <1>3
<1> HIDE DEF f, b
<1>6. Len(f) + Len(b) = Len(s) - 1
  BY <1>1, <1>5
<1> QED
  BY <1>4, <1>5, <1>6, ConcatProperties

(* remove_ordered_array leaves a heap. *)
LEMMA RemoveHeap ==
  ASSUME NEW h \in Heaps, NEW i, h.status = "ok" => i \in 1 .. Len(h.index)
  PROVE  remove_ordered_array(h, i) \in Heaps
<1>1. CASE h.status = "ok"
  <2>1. RemoveAt(h.index, i) \in Seq(Int)
    BY <1>1, Removed, Parts
  <2> QED
    BY <1>1, <2>1, WithIndex DEF remove_ordered_array
<1>2. CASE h.status # "ok"
  BY <1>2 DEF remove_ordered_array
<1> QED
  BY <1>1, <1>2
(* A page is an integer. *)
LEMMA PageInt == ASSUME NEW a \in Int PROVE PageOf(a) \in Int
BY HeapAssumption DEF PageOf

(* contract keeps the heap between its least and its greatest size, whatever it
   is asked for (kernelheap.c:77-97).  *)
LEMMA Contracts == ASSUME NEW h \in Heaps, NEW n \in Int PROVE contract(h, n) \in Heaps
<1> DEFINE to == ContractTo(n)
           freed == {PageOf(h.end - PageSize * k) :
                       k \in {k \in 1 .. PageOf(h.end) : h.end - PageSize * k > to}}
           checked == panic_unless(h, n < h.end)
           b == checked.backed \ freed
           m == [x \in {a \in DOMAIN checked.mem : PageOf(a) \notin freed} |-> checked.mem[x]]
<1>1. checked \in Heaps
  BY PanicHeap
<1>2. m \in Memories /\ b \subseteq Int
  BY <1>1, Parts, Memory
<1>3. ASSUME checked.status = "ok" PROVE to \in MinSize .. MaxAddress
  <2>1. n < h.end
    BY <1>3, StopHeap DEF panic_unless, Stop, Heaps
  <2>2. h.end \in MinSize .. MaxAddress /\ MinSize \in Int /\ MaxAddress \in Int /\ MinSize >= 8192
    BY Parts, HeapAssumption
  <2>3. Rounded(n) \in {n, 8192}
    BY HeapAssumption DEF Rounded
  <2> QED
    BY <2>1, <2>2, <2>3 DEF ContractTo
<1>4. contract(h, n) = IF checked.status # "ok" THEN checked
                       ELSE [checked EXCEPT !.backed = b, !.end = to, !.mem = m]
  BY DEF contract
<1> HIDE DEF to, b, m, checked
<1>5. CASE checked.status = "ok"
  <2>1. [checked EXCEPT !.backed = b, !.end = to, !.mem = m] \in Heaps
    BY <1>1, <1>2, <1>3, <1>5 DEF Heaps
  <2> QED
    BY <1>4, <1>5, <2>1
<1>6. CASE checked.status # "ok"
  BY <1>1, <1>4, <1>6
<1> QED
  BY <1>5, <1>6

(* find_smallest_hole returns a position of the index, or 0. *)
LEMMA Fits ==
  ASSUME NEW h \in Heaps, NEW n, NEW page_align
  PROVE  find_smallest_hole(h, n, page_align) \in 0 .. Len(h.index)
<1> DEFINE I == {i \in 1 .. Len(h.index) :
                   IF page_align THEN SizeOf(h, h.index[i]) >= n
                   ELSE UGeq(SizeOf(h, h.index[i]), n)}
<1>1. find_smallest_hole(h, n, page_align) = IF I # {} THEN Min(I) ELSE 0
  BY DEF find_smallest_hole, FirstWhere, SelectInSeq
<1>2. Len(h.index) \in Nat /\ I \in SUBSET (1 .. Len(h.index))
  BY Parts
<1> HIDE DEF I
<1>3. CASE I # {}
  <2>1. Min(I) \in I
    BY <1>2, <1>3, Least
  <2>2. find_smallest_hole(h, n, page_align) \in 1 .. Len(h.index)
    BY <1>1, <1>2, <1>3, <2>1, Zenon
  <2> QED
    BY <1>2, <2>2
<1>4. CASE I = {}
  BY <1>1, <1>2, <1>4
<1> QED
  BY <1>3, <1>4

(* The hole in front of an aligned block has an integer size, maybe negative. *)
LEMMA FrontInt == ASSUME NEW a \in Int PROVE FrontSize(a) \in Int
BY HeapAssumption DEF FrontSize, HeaderSize

(* split_front leaves a heap. *)
LEMMA SplitsFront == ASSUME NEW h \in Heaps, NEW a \in Int PROVE split_front(h, a) \in Heaps
<1>1. PutHeader(h, a, 1, FrontSize(a)) \in Heaps
  BY FrontInt, PutHeaderHeap
<1>2. a + FrontSize(a) - FooterSize \in Int
  BY FrontInt DEF FooterSize
<1> QED
  BY <1>1, <1>2, PutFooterHeap DEF split_front

(* split_back leaves a heap. *)
LEMMA SplitsBack == ASSUME NEW h \in Heaps, NEW a \in Int, NEW n \in Int
                    PROVE  split_back(h, a, n) \in Heaps
<1> DEFINE headed == PutHeader(h, a, 1, n)
           footer == a + n - FooterSize
           ended == IF footer < h.end THEN PutFooter(headed, footer, a) ELSE headed
<1>1. headed \in Heaps
  BY PutHeaderHeap
<1>2. footer \in Int
  BY DEF FooterSize
<1>3. split_back(h, a, n) = IF n = 0 THEN h ELSE insert_ordered_array(ended, a)
  BY DEF split_back
<1> HIDE DEF headed, footer
<1>4. ended \in Heaps
  BY <1>1, <1>2, PutFooterHeap
<1> HIDE DEF ended
<1> QED
  BY <1>3, <1>4, InsertHeap

(* place leaves a heap for any entry of the index and any size. *)
LEMMA Places ==
  ASSUME NEW h \in Heaps, NEW i \in 1 .. Len(h.index), NEW n \in Int, NEW page_align
  PROVE  /\ place(h, i, n, page_align) \in Heaps
         /\ BlockAt(h.index[i], page_align) \in Int
<1> DEFINE hole == h.index[i]
           orig == SizeOf(h, hole)
           size == n + Absorbed(orig, n + Overhead)
           new_size == size + Overhead
           opened == IF page_align THEN split_front(h, hole) ELSE remove_ordered_array(h, i)
           rest == IF page_align THEN Rest(orig, SizeOf(opened, hole)) ELSE orig
           block == BlockAt(hole, page_align)
           headed == PutHeader(opened, block, 0, new_size)
           taken == PutFooter(headed, block + HeaderSize + size, block)
<1>1. hole \in Int
  BY Parts
<1>2. orig \in Int
  BY ReadInt DEF SizeOf
<1>3. block \in Int
  <2> HIDE DEF hole
  <2> QED
    BY <1>1, FrontInt DEF BlockAt
<1>4. place(h, i, n, page_align) = split_back(taken, BackAt(block, new_size), rest - new_size)
  BY DEF place
<1> HIDE DEF hole, orig, block
<1>5. size \in Int /\ new_size \in Int
  BY <1>2 DEF Absorbed, Overhead, HeaderSize, FooterSize
<1> HIDE DEF size, new_size
<1>6. opened \in Heaps
  BY <1>1, SplitsFront, RemoveHeap
<1>7. rest \in Int
  <2>1. SizeOf(opened, hole) \in Int
    BY <1>6, ReadInt DEF SizeOf
  <2> QED
    BY <1>2, <2>1 DEF Rest
<1> HIDE DEF opened, rest
<1>8. headed \in Heaps
  BY <1>3, <1>5, <1>6, PutHeaderHeap
<1> HIDE DEF headed
<1>9. taken \in Heaps
  <2>1. block + HeaderSize + size \in Int
    BY <1>3, <1>5 DEF HeaderSize
  <2> QED
    BY <1>3, <1>8, <2>1, PutFooterHeap
<1> HIDE DEF taken
<1>10. BackAt(block, new_size) \in Int /\ rest - new_size \in Int
  BY <1>3, <1>5, <1>7 DEF BackAt
<1>11. place(h, i, n, page_align) \in Heaps
  BY <1>4, <1>9, <1>10, SplitsBack
<1> QED
  BY <1>3, <1>11 DEF block, hole

(* A new page table leaves a heap. *)
LEMMA TableHeap == ASSUME NEW h \in Heaps, NEW fresh PROVE WithTable(h, fresh) \in Heaps
<1> DEFINE fit == find_smallest_hole(h, PageSize + Overhead, TRUE)
           table == BlockAt(h.index[fit], TRUE) + HeaderSize
<1>1. fit \in 0 .. Len(h.index) /\ Len(h.index) \in Nat
  <2>1. Len(h.index) \in Nat
    BY Parts
  <2> QED
    BY <2>1, Fits
<1>2. WithTable(h, fresh) = IF fresh = {} THEN h
                            ELSE IF fit = 0 THEN Stop(h, "overflow")
                            ELSE Fill(place(h, fit, PageSize, TRUE), table, PageSize)
  BY DEF WithTable
<1> HIDE DEF fit, table
<1>3. ASSUME fit # 0 PROVE Fill(place(h, fit, PageSize, TRUE), table, PageSize) \in Heaps
  <2>1. fit \in 1 .. Len(h.index) /\ PageSize \in Int
    BY <1>1, <1>3, HeapAssumption
  <2>2. place(h, fit, PageSize, TRUE) \in Heaps
    BY <2>1, Places
  <2> QED
    BY <2>2, FillHeap
<1> QED
  BY <1>2, <1>3, StopHeap DEF Statuses

(* expand leaves a heap, and one of the size it was asked for if it goes on: the
   assertion against max_address holds then (kernelheap.c:54-74).  *)
LEMMA Expands ==
  ASSUME NEW h \in Heaps, NEW n \in Int
  PROVE  /\ expand(h, n) \in Heaps
         /\ expand(h, n).status = "ok" => expand(h, n).end = n /\ n > h.end
<1> DEFINE visited == {PageOf(h.end + 1000 * k) : k \in 0 .. (n - h.end - 1) \div 1000}
           fresh == {page \in visited : page >= PageOf(workload.span)}
           longer == panic_unless(h, n > h.end)
           checked == panic_unless(longer, n <= MaxAddress)
           b == checked.backed \cup (visited \ fresh)
           grown == WithTable([checked EXCEPT !.backed = b], fresh)
<1>1. longer \in Heaps /\ checked \in Heaps
  BY PanicHeap
<1>2. visited \subseteq Int
  <2>1. ASSUME NEW k \in 0 .. (n - h.end - 1) \div 1000 PROVE PageOf(h.end + 1000 * k) \in Int
    <3>1. h.end \in Int /\ k \in Int
      BY Parts
    <3>2. h.end + 1000 * k \in Int
      BY <3>1
    <3> QED
      BY <3>2, PageInt
  <2> QED
    BY <2>1
<1>3. b \subseteq Int
  BY <1>1, <1>2, Parts
<1>4. expand(h, n) = IF checked.status # "ok" THEN checked
                     ELSE IF grown.status # "ok" THEN grown
                     ELSE [grown EXCEPT !.end = n]
  BY DEF expand
<1>5. ASSUME checked.status = "ok" PROVE n > h.end /\ n <= MaxAddress
  BY <1>5, StopHeap DEF panic_unless, Stop, Heaps
<1> HIDE DEF visited, fresh, checked, longer, b
<1>6. [checked EXCEPT !.backed = b] \in Heaps
  BY <1>1, <1>3 DEF Heaps
<1>7. grown \in Heaps
  BY <1>6, TableHeap
<1> HIDE DEF grown
<1>8. ASSUME checked.status = "ok", grown.status = "ok"
      PROVE  [grown EXCEPT !.end = n] \in Heaps
  <2>1. n \in MinSize .. MaxAddress
    BY <1>5, <1>8, Parts, HeapAssumption
  <2> QED
    BY <1>7, <2>1 DEF Heaps
<1> QED
  BY <1>1, <1>4, <1>5, <1>7, <1>8 DEF Heaps

(* grow leaves a heap. *)
LEMMA Grows == ASSUME NEW h \in Heaps, NEW n \in Int PROVE grow(h, n) \in Heaps
<1> DEFINE old == h.end
           expanded == expand(h, old + n)
           I == {i \in 1 .. Len(expanded.index) :
                   \A j \in 1 .. Len(expanded.index) : expanded.index[j] <= expanded.index[i]}
           last == IF I # {} THEN Min(I) ELSE 0
           header == expanded.index[last]
           size == GrownSize(expanded, header, expanded.end - old)
           made == PutFooter(PutHeader(expanded, old, 1, n), old + n - FooterSize, old)
           longer == PutFooter(PutSize(expanded, header, size),
                               header + size - FooterSize, header)
<1>1. grow(h, n) = IF expanded.status # "ok" THEN expanded
                   ELSE IF last = 0 THEN insert_ordered_array(made, old) ELSE longer
  BY DEF grow, FirstWhere, SelectInSeq
<1>2. old \in Int /\ old + n \in Int /\ old + n - FooterSize \in Int
  BY Parts DEF FooterSize
<1>3. expanded \in Heaps
  BY <1>2, Expands
<1>4. last \in {0} \cup I /\ I \subseteq 1 .. Len(expanded.index)
  <2>1. Len(expanded.index) \in Nat /\ I \in SUBSET (1 .. Len(expanded.index))
    BY <1>3, Parts
  <2> HIDE DEF I
  <2> QED
    BY <2>1, Least
<1> HIDE DEF old, expanded, I, last
<1>5. insert_ordered_array(made, old) \in Heaps
  <2>1. PutHeader(expanded, old, 1, n) \in Heaps
    BY <1>2, <1>3, PutHeaderHeap
  <2>2. made \in Heaps
    BY <1>2, <2>1, PutFooterHeap
  <2> HIDE DEF made
  <2> QED
    BY <1>2, <2>2, InsertHeap
<1>6. ASSUME last # 0 PROVE longer \in Heaps
  <2>1. header \in Int
    BY <1>3, <1>4, <1>6, Parts
  <2> HIDE DEF header
  <2>2. size \in Int
    <3>1. SizeOf(expanded, header) \in Int /\ expanded.end \in Int
      BY <1>3, ReadInt, Parts DEF SizeOf
    <3> QED
      BY <1>2, <3>1 DEF GrownSize
  <2> HIDE DEF size
  <2>3. PutSize(expanded, header, size) \in Heaps
    BY <1>3, <2>1, <2>2, PutSizeHeap
  <2>4. header + size - FooterSize \in Int
    BY <2>1, <2>2 DEF FooterSize
  <2> QED
    BY <2>1, <2>3, <2>4, PutFooterHeap
<1> HIDE DEF made, longer
<1> QED
  BY <1>1, <1>3, <1>5, <1>6

(* Unification on the left leaves a heap. *)
LEMMA UnifiesLeft ==
  ASSUME NEW h \in Heaps, NEW a \in Int, NEW b \in Int
  PROVE  /\ unify_left(h, a, b).heap \in Heaps
         /\ unify_left(h, a, b).header \in Int
<1> DEFINE left == a - FooterSize
           near == Touch(h, left)
           into == HeaderOf(h, left)
           linked == Write(h, b + 4, into)
           grown == PutSize(linked, into, SizeOf(linked, into) + SizeOf(h, a))
<1>1. near \in Heaps /\ Touch(h, into) \in Heaps
  BY TouchHeap
<1>2. into \in Int
  BY ReadInt DEF HeaderOf
<1>3. unify_left(h, a, b) \in {[heap |-> near, header |-> a],
                               [heap |-> Touch(h, into), header |-> a],
                               [heap |-> h, header |-> a],
                               [heap |-> grown, header |-> into]}
  BY DEF unify_left
<1> HIDE DEF left, near, into
<1>4. linked \in Heaps
  BY <1>2, WriteHeap
<1> HIDE DEF linked
<1>5. SizeOf(linked, into) + SizeOf(h, a) \in Int
  <2>1. SizeOf(linked, into) \in Int /\ SizeOf(h, a) \in Int
    BY <1>4, ReadInt DEF SizeOf
  <2> QED
    BY <2>1
<1>6. grown \in Heaps
  BY <1>2, <1>4, <1>5, PutSizeHeap
<1> HIDE DEF grown
<1> QED
  BY <1>1, <1>2, <1>3, <1>6

(* The entry of the index that is x; 0 if there is none. *)
Position(h, a) == LET I == {i \in 1 .. Len(h.index) : h.index[i] = a}
                  IN  IF I # {} THEN Min(I) ELSE 0

(* The search for an entry returns a position of the index, or 0. *)
LEMMA Found ==
  ASSUME NEW h \in Heaps, NEW a
  PROVE  Position(h, a) \in 0 .. Len(h.index) /\ Len(h.index) \in Nat
<1> DEFINE I == {i \in 1 .. Len(h.index) : h.index[i] = a}
           found == IF I # {} THEN Min(I) ELSE 0
<1>1. Position(h, a) = found
  BY DEF Position
<1>2. Len(h.index) \in Nat /\ I \in SUBSET (1 .. Len(h.index))
  BY Parts
<1> HIDE DEF I
<1>3. found \in {0} \cup I
  BY <1>2, Least
<1> HIDE DEF found
<1> QED
  BY <1>1, <1>2, <1>3

(* Unification on the right leaves a heap. *)
LEMMA UnifiesRight ==
  ASSUME NEW h \in Heaps, NEW a \in Int, NEW b \in Int
  PROVE  /\ unify_right(h, a, b).heap \in Heaps
         /\ unify_right(h, a, b).footer \in Int
<1> DEFINE right == b + FooterSize
           near == Touch(h, right)
           i == FirstWhere(h, LAMBDA c : c = right)
           grown == PutSize(h, a, SizeOf(h, a) + SizeOf(h, right))
           checked == panic_unless(grown, i # 0)
           footer == right + SizeOf(grown, right) - FooterSize
<1>1. near \in Heaps
  BY TouchHeap
<1>2. unify_right(h, a, b) \in {[heap |-> near, footer |-> b],
                                [heap |-> remove_ordered_array(checked, i), footer |-> footer]}
  BY DEF unify_right
<1>3. grown \in Heaps
  <2>1. SizeOf(h, a) \in Int /\ SizeOf(h, right) \in Int
    BY ReadInt DEF SizeOf
  <2>2. SizeOf(h, a) + SizeOf(h, right) \in Int
    BY <2>1
  <2> QED
    BY <2>2, PutSizeHeap
<1>4. footer \in Int
  <2>1. SizeOf(grown, right) \in Int
    BY <1>3, ReadInt DEF SizeOf
  <2> QED
    BY <2>1 DEF FooterSize
<1>5. i \in 0 .. Len(h.index) /\ Len(h.index) \in Nat
  <2>1. i = Position(h, right)
    BY DEF FirstWhere, SelectInSeq, Position
  <2> QED
    BY <2>1, Found
<1>6. grown.index = h.index
  BY DEF PutSize, Write, Touch, Stop
<1>7. checked \in Heaps
  BY <1>3, PanicHeap
<1>8. checked.status = "ok" => i # 0 /\ checked.index = h.index
  BY <1>3, <1>6, StopHeap DEF panic_unless, Stop, Heaps
<1> HIDE DEF near, i, grown, checked, footer
<1>9. remove_ordered_array(checked, i) \in Heaps
  <2>1. checked.status = "ok" => i \in 1 .. Len(checked.index)
    BY <1>5, <1>8
  <2> QED
    BY <1>7, <2>1, RemoveHeap
<1> QED
  BY <1>1, <1>2, <1>4, <1>9

(* Giving back the end of the heap leaves a heap. *)
LEMMA Shrinks == ASSUME NEW h \in Heaps, NEW a \in Int, NEW b PROVE shrink(h, a, b) \in Heaps
<1> DEFINE smaller == contract(h, a)
           size == SizeOf(h, a) - (h.end - smaller.end)
           i == FirstWhere(smaller, LAMBDA c : c = b)
           resized == PutFooter(PutSize(smaller, a, size), a + size - FooterSize, a)
<1>1. smaller \in Heaps
  BY Contracts
<1>2. \/ shrink(h, a, b) \in {smaller, resized}
      \/ i # 0 /\ shrink(h, a, b) = remove_ordered_array(smaller, i)
  BY DEF shrink
<1>3. i \in 0 .. Len(smaller.index) /\ Len(smaller.index) \in Nat
  <2>1. i = Position(smaller, b)
    BY DEF FirstWhere, SelectInSeq, Position
  <2> HIDE DEF i, smaller
  <2> QED
    BY <1>1, <2>1, Found
<1>4. size \in Int
  <2>1. SizeOf(h, a) \in Int /\ h.end \in Int /\ smaller.end \in Int
    BY <1>1, ReadInt, Parts DEF SizeOf
  <2> QED
    BY <2>1
<1> HIDE DEF smaller, size, i
<1>5. resized \in Heaps
  <2>1. PutSize(smaller, a, size) \in Heaps
    BY <1>1, <1>4, PutSizeHeap
  <2>2. a + size - FooterSize \in Int
    BY <1>4 DEF FooterSize
  <2> QED
    BY <2>1, <2>2, PutFooterHeap
<1>6. i # 0 => remove_ordered_array(smaller, i) \in Heaps
  BY <1>1, <1>3, RemoveHeap
<1> HIDE DEF resized
<1> QED
  BY <1>1, <1>2, <1>5, <1>6

(* free leaves a heap, for any address it is given (kernelheap.c:292-378). *)
LEMMA Frees == ASSUME NEW h \in Heaps, NEW p \in Int PROVE free(h, p) \in Heaps
<1> DEFINE header == p - HeaderSize
           footer == header + SizeOf(h, header) - FooterSize
           once == panic_unless(h, Read(h, header) = Magic)
           sane == panic_unless(once, Read(h, footer) = Magic)
           hole == Write(sane, header + 4, 1)
           left == unify_left(hole, header, footer)
           right == unify_right(left.heap, left.header, footer)
           last == right.footer + FooterSize = right.heap.end
           shrunk == IF right.heap.status = "ok" /\ last
                       THEN shrink(right.heap, left.header, footer + FooterSize)
                       ELSE right.heap
<1>1. free(h, p) = IF left.header = header THEN insert_ordered_array(shrunk, header) ELSE shrunk
  BY DEF free
<1>2. header \in Int
  BY DEF HeaderSize
<1>3. footer \in Int
  <2>1. SizeOf(h, header) \in Int
    BY ReadInt DEF SizeOf
  <2> QED
    BY <1>2, <2>1 DEF FooterSize
<1>4. once \in Heaps
  BY PanicHeap
<1>5. sane \in Heaps
  BY <1>4, PanicHeap
<1> HIDE DEF header, footer, once, sane
<1>6. hole \in Heaps
  BY <1>2, <1>5, WriteHeap
<1> HIDE DEF hole
<1>7. left.heap \in Heaps /\ left.header \in Int
  BY <1>2, <1>3, <1>6, UnifiesLeft
<1> HIDE DEF left
<1>8. right.heap \in Heaps
  BY <1>3, <1>7, UnifiesRight
<1> HIDE DEF right
<1>9. shrunk \in Heaps
  BY <1>7, <1>8, Shrinks
<1> HIDE DEF shrunk
<1> QED
  BY <1>1, <1>2, <1>9, InsertHeap

-----------------------------------------------------------------------------
(* The inductive invariant of the types. *)
Sound ==
  /\ heap \in Heaps
  /\ workload \in Workloads
  /\ request \in {NoRequest} \cup [size : workload.sizes, align : workload.aligns]
  /\ live \in Seq(Given(workload))

(* Sizes are words: multiples of 4. *)
LEMMA Sizes == ASSUME NEW w \in Workloads, NEW n \in w.sizes
               PROVE  n \in Int /\ n % 4 = 0 /\ n >= 4
BY HeapAssumption

(* The variables take the value of a heap. *)
LEMMA Becomes == ASSUME NEW h \in Heaps, Become(h) PROVE heap' = h
BY DEF Become, heap, Heaps

(* The heap before its first hole. *)
Unused == [mem |-> [a \in {} |-> 0], index |-> <<>>, end |-> InitialSize,
           backed |-> -1 .. PageOf(InitialSize) - 1, status |-> "ok"]

(* create_heap makes a heap with one hole (kernelheap.c:137-166). *)
LEMMA Created ==
  ASSUME Init
  PROVE  /\ Unused \in Heaps /\ PutHeader(Unused, 0, 1, InitialSize) \in Heaps
         /\ heap = insert_ordered_array(PutHeader(Unused, 0, 1, InitialSize), 0)
<1> DEFINE headed == PutHeader(Unused, 0, 1, InitialSize)
           h == insert_ordered_array(headed, 0)
<1>1. InitialSize \in Int /\ InitialSize \in MinSize .. MaxAddress
  BY HeapAssumption
<1>2. Unused \in Heaps
  <2>1. [a \in {} |-> 0] \in Memories
    BY Memory
  <2>2. -1 .. PageOf(InitialSize) - 1 \subseteq Int
    BY <1>1, PageInt
  <2> QED
    BY <1>1, <2>1, <2>2 DEF Heaps, Statuses, Unused
<1>3. headed \in Heaps
  BY <1>1, <1>2, PutHeaderHeap
<1>4. h \in Heaps
  <2> HIDE DEF headed
  <2> QED
    BY <1>3, InsertHeap
<1>5. heap = h
  <2>1. /\ mem = h.mem /\ index = h.index /\ end_address = h.end
        /\ backed = h.backed /\ status = h.status
    BY Zenon DEF Init, h, headed, Unused
  <2> HIDE DEF h
  <2> QED
    BY <1>4, <2>1 DEF heap, Heaps
<1> QED
  BY <1>2, <1>3, <1>5

(* The types hold at first. *)
LEMMA InitSound == Init => Sound
<1> SUFFICES ASSUME Init PROVE Sound
  OBVIOUS
<1>1. heap \in Heaps
  BY Created, InsertHeap
<1> QED
  BY <1>1 DEF Init, Sound

(* A call keeps the types. *)
LEMMA SoundCall ==
  ASSUME Sound, NEW size \in workload.sizes, NEW page_align \in workload.aligns,
         Call(size, page_align)
  PROVE  Sound'
<1>1. heap' = heap
  BY DEF Call, heap
<1> QED
  BY <1>1 DEF Sound, Call

(* A growth keeps the types. *)
LEMMA SoundGrow == ASSUME Sound, Grow PROVE Sound'
<1>1. request.size + Overhead \in Int
  BY Sizes DEF Sound, Grow, Overhead, HeaderSize, FooterSize
<1>2. grow(heap, request.size + Overhead) \in Heaps
  BY <1>1, Grows DEF Sound
<1>3. heap' \in Heaps
  BY <1>2, Becomes DEF Grow
<1> QED
  BY <1>3 DEF Sound, Grow

(* The data of an aligned block is at a page boundary (kernelheap.c:239-252). *)
LEMMA AtAligned == ASSUME NEW hole \in Int, NEW page_align, page_align
                   PROVE  (BlockAt(hole, page_align) + HeaderSize) % PageSize = 0
BY HeapAssumption DEF BlockAt, FrontSize, HeaderSize

(* A placement keeps the types, and the alignment of what it gives out. *)
LEMMA SoundPlace == ASSUME Sound, Place PROVE Sound'
<1> DEFINE placed == place(heap, Fitting, request.size, request.align)
           p == BlockAt(index[Fitting], request.align) + HeaderSize
           b == [p |-> p, size |-> request.size, align |-> request.align]
<1>1. Fitting \in 1 .. Len(heap.index) /\ heap.index = index
  <2>1. Len(heap.index) \in Nat
    BY Parts DEF Sound
  <2> QED
    BY <2>1, Fits DEF Fitting, Place, Sound, heap
<1>2. request.size \in workload.sizes /\ request.align \in workload.aligns /\ request.size \in Int
  BY Sizes DEF Sound, Place
<1>3. placed \in Heaps /\ BlockAt(index[Fitting], request.align) \in Int
  BY <1>1, <1>2, Places DEF Sound
<1>4. p \in Int
  BY <1>3 DEF HeaderSize
<1>5. index[Fitting] \in Int
  BY <1>1, Parts DEF Sound
<1>6. request.align => p % PageSize = 0
  BY <1>5, AtAligned
<1> HIDE DEF placed, p
<1>7. b \in Given(workload)
  BY <1>2, <1>4, <1>6 DEF Given
<1>8. Fill(placed, p, request.size) \in Heaps
  BY <1>3, FillHeap
<1>9. \/ Become(Fill(placed, p, request.size)) /\ live' = Append(live, b)
      \/ Become(placed) /\ live' = live
  BY Zenon DEF Place, placed, p
<1> HIDE DEF b
<1>10. heap' \in Heaps
  BY <1>3, <1>8, <1>9, Becomes
<1>11. live' \in Seq(Given(workload))
  BY <1>7, <1>9, AppendProperties DEF Sound
<1> QED
  BY <1>10, <1>11 DEF Sound, Place

(* A call of free keeps the types. *)
LEMMA SoundFree == ASSUME Sound, NEW i \in 1 .. Len(live), Free(i) PROVE Sound'
<1>1. live[i].p \in Int
  BY DEF Sound, Given
<1>2. free(heap, live[i].p) \in Heaps
  BY <1>1, Frees DEF Sound
<1>3. heap' \in Heaps
  BY <1>2, Becomes DEF Free
<1>4. live' \in Seq(Given(workload))
  BY Removed DEF Sound, Free
<1> QED
  BY <1>3, <1>4 DEF Sound, Free

(* The types are inductive. *)
LEMMA SoundStep == ASSUME Sound, [Next]_vars PROVE Sound'
<1>1. CASE UNCHANGED vars
  BY <1>1 DEF Sound, vars, heap
<1> QED
  BY <1>1, SoundCall, SoundGrow, SoundPlace, SoundFree DEF Next

(* The types hold in every behaviour. *)
LEMMA Soundness == Spec => []Sound
BY InitSound, SoundStep, PTL DEF Spec

(* Every variable of the heap keeps its type and the heap stays between MinSize
   and MaxAddress, for every workload: whatever sizes are asked for, aligned or
   not, and whatever is freed, in any order (kernelheap.c:54-74, 77-97, 168-378).  *)
THEOREM Types == Spec => []TypeOK
<1>1. Sound => TypeOK
  <2> SUFFICES ASSUME Sound PROVE TypeOK
    OBVIOUS
  <2>1. heap \in Heaps
    BY DEF Sound
  <2>2. /\ mem \in Memories /\ index \in Seq(Int) /\ end_address \in MinSize .. MaxAddress
        /\ backed \subseteq Int /\ status \in Statuses
    BY <2>1 DEF heap, Heaps
  <2>3. workload.aligns \subseteq BOOLEAN
    BY HeapAssumption DEF Sound
  <2>4. request \in [size : workload.sizes \cup {0}, align : BOOLEAN]
    <3>1. [size : workload.sizes, align : workload.aligns]
            \subseteq [size : workload.sizes \cup {0}, align : BOOLEAN]
      BY <2>3
    <3>2. NoRequest \in [size : workload.sizes \cup {0}, align : BOOLEAN]
      BY DEF NoRequest
    <3> QED
      BY <3>1, <3>2, Zenon DEF Sound
  <2>5. live \in Seq(Given(workload))
    BY DEF Sound
  <2> QED
    BY <2>2, <2>4, <2>5, Memory DEF TypeOK, Sound, Statuses
<1> QED
  BY <1>1, Soundness, PTL

-----------------------------------------------------------------------------
(* A heap with the same index, end and pages, still in use. *)
Same(t, h) == /\ t.index = h.index /\ t.end = h.end /\ t.backed = h.backed
              /\ t.status = "ok" /\ h.status = "ok"

(* A write that does not stop the machine changes one word and no more. *)
LEMMA Writes ==
  ASSUME NEW h \in Heaps, NEW a \in Int, NEW v \in Int, Write(h, a, v).status = "ok"
  PROVE  /\ Same(Write(h, a, v), h) /\ PageOf(a) \in h.backed
         /\ \A x \in Int : Read(Write(h, a, v), x) = IF x = a THEN v ELSE Read(h, x)
<1> DEFINE m == [x \in DOMAIN h.mem \cup {a} |-> IF x = a THEN v ELSE h.mem[x]]
<1>1. Touch(h, a) = h /\ h.status = "ok" /\ PageOf(a) \in h.backed
  BY Parts DEF Write, Touch, Stop, Heaps
<1>2. Write(h, a, v) = [h EXCEPT !.mem = m]
  BY <1>1 DEF Write
<1> DEFINE t == [h EXCEPT !.mem = m]
<1>3. t.mem = m /\ t.index = h.index /\ t.end = h.end /\ t.backed = h.backed /\ t.status = h.status
  BY DEF Heaps
<1>4. ASSUME NEW x PROVE Read(t, x) = IF x = a THEN v ELSE Read(h, x)
  <2> HIDE DEF t
  <2> QED
    BY <1>3 DEF Read
<1> HIDE DEF t
<1> QED
  BY <1>1, <1>2, <1>3, <1>4 DEF Same, t

(* A size changes one word. *)
LEMMA SizePut ==
  ASSUME NEW h \in Heaps, NEW a \in Int, NEW n \in Int, PutSize(h, a, n).status = "ok"
  PROVE  /\ Same(PutSize(h, a, n), h)
         /\ \A x \in Int : Read(PutSize(h, a, n), x) = IF x = a + 8 THEN n ELSE Read(h, x)
BY Writes DEF PutSize

(* A header changes three words. *)
LEMMA HeaderPut ==
  ASSUME NEW h \in Heaps, NEW a \in Int, NEW k \in Int, NEW n \in Int,
         PutHeader(h, a, k, n).status = "ok"
  PROVE  /\ Same(PutHeader(h, a, k, n), h)
         /\ \A x \in Int : Read(PutHeader(h, a, k, n), x)
                     = IF x = a THEN Magic ELSE IF x = a + 4 THEN k
                       ELSE IF x = a + 8 THEN n ELSE Read(h, x)
<1> DEFINE once == Write(h, a, Magic)
           twice == Write(once, a + 4, k)
           t == PutHeader(h, a, k, n)
<1>1. Magic \in Int /\ a + 4 \in Int /\ a + 8 \in Int
  BY DEF Magic
<1>2. once \in Heaps
  BY <1>1, WriteHeap
<1>3. twice \in Heaps
  BY <1>1, <1>2, WriteHeap
<1>4. t = PutSize(twice, a, n)
  BY DEF PutHeader
<1>5. Same(t, twice) /\ \A x \in Int : Read(t, x) = IF x = a + 8 THEN n ELSE Read(twice, x)
  BY <1>3, <1>4, SizePut
<1>6. Same(twice, once) /\ \A x \in Int : Read(twice, x) = IF x = a + 4 THEN k ELSE Read(once, x)
  BY <1>1, <1>2, <1>5, Writes DEF Same
<1>7. Same(once, h) /\ \A x \in Int : Read(once, x) = IF x = a THEN Magic ELSE Read(h, x)
  BY <1>1, <1>6, Writes DEF Same
<1> HIDE DEF once, twice, t
<1>8. Same(t, h)
  BY <1>5, <1>6, <1>7 DEF Same
<1>9. ASSUME NEW x \in Int
      PROVE  Read(t, x) = IF x = a THEN Magic ELSE IF x = a + 4 THEN k
                                      ELSE IF x = a + 8 THEN n ELSE Read(h, x)
  <2>1. a # a + 4 /\ a # a + 8 /\ a + 4 # a + 8
    OBVIOUS
  <2> QED
    BY <2>1, <1>5, <1>6, <1>7
<1> QED
  BY <1>8, <1>9 DEF t

(* A footer changes two words, and its page has a frame. *)
LEMMA FooterPut ==
  ASSUME NEW h \in Heaps, NEW a \in Int, NEW b \in Int, PutFooter(h, a, b).status = "ok"
  PROVE  /\ Same(PutFooter(h, a, b), h) /\ PageOf(a + 4) \in h.backed
         /\ \A x \in Int : Read(PutFooter(h, a, b), x)
                     = IF x = a THEN Magic ELSE IF x = a + 4 THEN b ELSE Read(h, x)
<1> DEFINE once == Write(h, a, Magic)
           t == PutFooter(h, a, b)
<1>1. Magic \in Int /\ a + 4 \in Int
  BY DEF Magic
<1>2. once \in Heaps
  BY <1>1, WriteHeap
<1>3. t = Write(once, a + 4, b)
  BY DEF PutFooter
<1>4. /\ Same(t, once) /\ PageOf(a + 4) \in once.backed
      /\ \A x \in Int : Read(t, x) = IF x = a + 4 THEN b ELSE Read(once, x)
  BY <1>1, <1>2, <1>3, Writes
<1>5. Same(once, h) /\ \A x \in Int : Read(once, x) = IF x = a THEN Magic ELSE Read(h, x)
  BY <1>1, <1>4, Writes DEF Same
<1> HIDE DEF once, t
<1>6. Same(t, h) /\ PageOf(a + 4) \in h.backed
  BY <1>4, <1>5 DEF Same
<1>7. ASSUME NEW x \in Int
      PROVE  Read(t, x) = IF x = a THEN Magic ELSE IF x = a + 4 THEN b ELSE Read(h, x)
  <2>1. a # a + 4
    OBVIOUS
  <2> QED
    BY <2>1, <1>4, <1>5
<1> QED
  BY <1>6, <1>7 DEF t

(* An insertion changes the index only. *)
LEMMA Inserted ==
  ASSUME NEW h \in Heaps, NEW a \in Int, insert_ordered_array(h, a).status = "ok"
  PROVE  LET t == insert_ordered_array(h, a)
         IN  /\ h.status = "ok" /\ t.index = <<a>> \o h.index
             /\ t.end = h.end /\ t.backed = h.backed /\ t.status = "ok"
             /\ \A x \in Int : Read(t, x) = Read(h, x)
<1> DEFINE t == [h EXCEPT !.index = <<a>> \o h.index]
<1>1. h.status = "ok" /\ insert_ordered_array(h, a) = t
  BY InsertsFirst
<1>2. /\ t.index = <<a>> \o h.index /\ t.end = h.end /\ t.backed = h.backed
      /\ t.status = h.status /\ t.mem = h.mem
  BY DEF Heaps
<1> HIDE DEF t
<1> QED
  BY <1>1, <1>2 DEF Read

-----------------------------------------------------------------------------
(* A hole that reaches to the end of the heap. *)
HoleIn(h, a) ==
  /\ a >= 0 /\ Read(h, a) = Magic /\ IsHole(h, a) = 1
  /\ SizeOf(h, a) >= Overhead /\ a + SizeOf(h, a) = h.end

(* A block for n bytes, with the header and the footer that alloc wrote. *)
BlockIn(h, a, n) ==
  /\ SizeOf(h, a) >= n + Overhead
  /\ Read(h, a) = Magic /\ IsHole(h, a) = 0
  /\ Read(h, a + SizeOf(h, a) - FooterSize) = Magic
  /\ HeaderOf(h, a + SizeOf(h, a) - FooterSize) = a

(* The block takes the front of the only hole, or all of it. *)
LEMMA PlacesPlain ==
  ASSUME NEW h \in Heaps, NEW a \in Int, h.index = <<a>>, HoleIn(h, a),
         NEW n \in Int, n >= 0, SizeOf(h, a) >= n + Overhead,
         place(h, 1, n, FALSE).status = "ok"
  PROVE  LET t == place(h, 1, n, FALSE)
             back == a + SizeOf(t, a)
         IN  /\ h.status = "ok" /\ t.end = h.end /\ t.backed = h.backed
             /\ BlockIn(t, a, n)
             /\ \A x \in Int : x < a => Read(t, x) = Read(h, x)
             /\ \/ t.index = <<>> /\ back = h.end
                \/ t.index = <<back>> /\ HoleIn(t, back)
<1> DEFINE orig == SizeOf(h, a)
           size == n + Absorbed(orig, n + Overhead)
           new_size == size + Overhead
           opened == remove_ordered_array(h, 1)
           headed == PutHeader(opened, a, 0, new_size)
           footer == a + HeaderSize + size
           taken == PutFooter(headed, footer, a)
           rest == orig - new_size
           back == a + new_size
           behind == PutHeader(taken, back, 1, rest)
           end == back + rest - FooterSize
           ended == PutFooter(behind, end, back)
           t == place(h, 1, n, FALSE)
<1>1. orig \in Int /\ orig >= n + 20 /\ a + orig = h.end /\ a >= 0 /\ h.end \in Int
  BY ReadInt, Parts DEF SizeOf, HoleIn, Overhead, HeaderSize, FooterSize
<1>2. h.index[1] = a /\ Len(h.index) = 1
  OBVIOUS
<1>3. t = split_back(taken, back, rest)
  BY <1>2 DEF place, BlockAt, BackAt
<1>4. t = IF rest = 0 THEN taken
          ELSE insert_ordered_array(IF end < taken.end THEN ended ELSE behind, back)
  BY <1>3 DEF split_back
<1>5. /\ new_size \in Int /\ size \in Int /\ new_size = size + 20 /\ size >= n
      /\ new_size = orig \/ new_size + 20 <= orig
  <2> HIDE DEF orig
  <2> QED
    BY <1>1 DEF Absorbed, Overhead, HeaderSize, FooterSize
<1> HIDE DEF orig, size
<1>6. /\ footer = back - 8 /\ back = a + new_size /\ end = back + rest - 8
      /\ rest = 0 \/ rest >= 20
      /\ footer \in Int /\ rest \in Int /\ back \in Int /\ end \in Int /\ new_size \in Int
      /\ back + rest = h.end /\ back >= a + 20
  BY <1>1, <1>5 DEF HeaderSize, FooterSize
<1> HIDE DEF new_size, footer, rest, back, end
<1>7. opened \in Heaps
  BY <1>2, RemoveHeap
<1> HIDE DEF opened
<1>8. headed \in Heaps
  BY <1>5, <1>7, PutHeaderHeap
<1> HIDE DEF headed
<1>9. taken \in Heaps
  BY <1>6, <1>8, PutFooterHeap
<1> HIDE DEF taken
<1>10. behind \in Heaps
  <2>1. taken \in Heaps /\ back \in Int /\ rest \in Int /\ 1 \in Int
    BY <1>6, <1>9
  <2> QED
    BY <2>1, PutHeaderHeap
<1> HIDE DEF behind
<1>11. ended \in Heaps
  BY <1>6, <1>10, PutFooterHeap
<1> HIDE DEF ended
<1>0. t.status = "ok"
  OBVIOUS
<1> HIDE DEF t
<1>12. ASSUME taken.status = "ok"
       PROVE  /\ h.status = "ok" /\ taken.index = <<>> /\ taken.end = h.end
              /\ taken.backed = h.backed
              /\ \A x \in Int : Read(taken, x) = IF x = back - 8 THEN Magic
                                        ELSE IF x = back - 4 THEN a
                                        ELSE IF x = a THEN Magic ELSE IF x = a + 4 THEN 0
                                        ELSE IF x = a + 8 THEN new_size ELSE Read(h, x)
  <2>1. /\ Same(taken, headed)
        /\ \A x \in Int : Read(taken, x) = IF x = footer THEN Magic ELSE IF x = footer + 4 THEN a
                                  ELSE Read(headed, x)
    BY <1>6, <1>8, <1>12, FooterPut DEF taken
  <2>2. /\ Same(headed, opened)
        /\ \A x \in Int : Read(headed, x) = IF x = a THEN Magic ELSE IF x = a + 4 THEN 0
                                   ELSE IF x = a + 8 THEN new_size ELSE Read(opened, x)
    BY <1>5, <1>7, <2>1, HeaderPut DEF headed, Same
  <2>3. /\ h.status = "ok" /\ opened.index = <<>> /\ opened.end = h.end
        /\ opened.backed = h.backed /\ \A x \in Int : Read(opened, x) = Read(h, x)
    <3>1. opened.status = "ok" => h.status = "ok"
      BY DEF opened, remove_ordered_array
    <3>2. RemoveAt(h.index, 1) = <<>>
      <4>1. SubSeq(h.index, 1, 1 - 1) = <<>> /\ SubSeq(h.index, 1 + 1, Len(h.index)) = <<>>
        BY <1>2, SubSeqEmpty
      <4> QED
        BY <4>1, EmptySeq, ConcatEmptySeq DEF RemoveAt
    <3>3. opened = [h EXCEPT !.index = <<>>]
      BY <2>2, <3>1, <3>2 DEF opened, remove_ordered_array, Same
    <3> QED
      BY <2>2, <3>1, <3>3 DEF Heaps, Read, Same
  <2>4. footer + 4 = back - 4
    BY <1>6
  <2> QED
    BY <1>6, <2>1, <2>2, <2>3, <2>4 DEF Same
<1>13. ASSUME taken.status = "ok"
       PROVE  BlockIn(taken, a, n) /\ SizeOf(taken, a) = new_size
  <2>1. /\ SizeOf(taken, a) = new_size
        /\ Read(taken, a) = Magic /\ IsHole(taken, a) = 0
    <3>1. \A x \in Int : Read(taken, x) = IF x = back - 8 THEN Magic ELSE IF x = back - 4 THEN a
                                  ELSE IF x = a THEN Magic ELSE IF x = a + 4 THEN 0
                                  ELSE IF x = a + 8 THEN new_size ELSE Read(h, x)
      BY <1>12, <1>13
    <3>2. /\ a # back - 8 /\ a # back - 4 /\ a + 4 # back - 8 /\ a + 4 # back - 4
          /\ a + 8 # back - 8 /\ a + 8 # back - 4 /\ a + 4 # a /\ a + 8 # a /\ a + 8 # a + 4
      BY <1>6
    <3> QED
      BY <3>1, <3>2 DEF SizeOf, IsHole
  <2>2. Read(taken, back - 8) = Magic /\ HeaderOf(taken, back - 8) = a
    BY <1>6, <1>12, <1>13 DEF HeaderOf
  <2>3. a + SizeOf(taken, a) - FooterSize = back - 8
    BY <1>6, <2>1 DEF FooterSize
  <2>4. SizeOf(taken, a) >= n + Overhead
    BY <1>5, <2>1 DEF Overhead, HeaderSize, FooterSize
  <2> QED
    BY <2>1, <2>2, <2>3, <2>4 DEF BlockIn
<1>14. CASE rest = 0
  <2>1. t = taken /\ taken.status = "ok"
    BY <1>4, <1>14 DEF t
  <2>2. back = h.end
    BY <1>6, <1>14
  <2>3. \A x \in Int : x < a => Read(t, x) = Read(h, x)
    BY <1>6, <1>12, <2>1
  <2>4. back = a + SizeOf(t, a)
    BY <1>6, <1>13, <2>1
  <2> QED
    BY <1>12, <1>13, <2>1, <2>2, <2>3, <2>4 DEF t
<1>15. CASE rest # 0
  <2>1. rest >= 20
    BY <1>6, <1>15
  <2> DEFINE last == IF end < taken.end THEN ended ELSE behind
  <2>2. last \in Heaps
    BY <1>10, <1>11
  <2>3. t = insert_ordered_array(last, back)
    BY <1>4, <1>15
  <2> HIDE DEF last
  <2>4. /\ last.status = "ok" /\ t.index = <<back>> \o last.index
        /\ t.end = last.end /\ t.backed = last.backed /\ t.status = "ok"
        /\ \A x \in Int : Read(t, x) = Read(last, x)
    BY <1>0, <1>6, <2>2, <2>3, Inserted
  <2>5. Same(last, behind) /\ behind.status = "ok"
        /\ \A x \in Int : Read(last, x) = Read(behind, x) \/ x \in {end, end + 4}
    <3>1. CASE end < taken.end
      <4>1. last = ended
        BY <3>1 DEF last
      <4>2. /\ Same(ended, behind)
            /\ \A x \in Int : Read(ended, x) = IF x = end THEN Magic ELSE IF x = end + 4 THEN back
                                      ELSE Read(behind, x)
        BY <1>6, <1>10, <2>4, <4>1, FooterPut DEF ended
      <4> QED
        BY <4>1, <4>2 DEF Same
    <3>2. CASE ~(end < taken.end)
      BY <2>4, <3>2 DEF last, Same
    <3> QED
      BY <3>1, <3>2
  <2>6. /\ Same(behind, taken)
        /\ \A x \in Int : Read(behind, x) = IF x = back THEN Magic ELSE IF x = back + 4 THEN 1
                                   ELSE IF x = back + 8 THEN rest ELSE Read(taken, x)
    BY <1>6, <1>9, <2>5, HeaderPut DEF behind
  <2>7. taken.status = "ok"
    BY <2>6 DEF Same
  <2>8. t.index = <<back>> /\ t.end = h.end /\ t.backed = h.backed
    <3>1. <<back>> \o <<>> = <<back>>
      BY <1>6, ConcatEmptySeq
    <3>2. /\ taken.index = <<>> /\ taken.end = h.end /\ taken.backed = h.backed
      BY <1>12, <2>7
    <3> QED
      BY <2>4, <2>5, <2>6, <3>1, <3>2, Zenon DEF Same
  <2>9. \A x \in Int : x < back => Read(t, x) = Read(taken, x)
    <3> SUFFICES ASSUME NEW x \in Int, x < back PROVE Read(t, x) = Read(taken, x)
      OBVIOUS
    <3>1. x # end /\ x # end + 4 /\ x # back /\ x # back + 4 /\ x # back + 8
      BY <1>6, <2>1
    <3>2. Read(t, x) = Read(last, x) /\ Read(last, x) = Read(behind, x)
      BY <2>4, <2>5, <3>1, Zenon
    <3>3. Read(behind, x) = Read(taken, x)
      BY <2>6, <3>1, Zenon
    <3> QED
      BY <3>2, <3>3
  <2>10. \A x \in Int : x < a => Read(t, x) = Read(h, x)
    BY <1>6, <1>12, <2>7, <2>9
  <2>11. HoleIn(t, back)
    <3>1. Read(t, back) = Magic /\ IsHole(t, back) = 1 /\ SizeOf(t, back) = rest
      <4>1. /\ back \in Int /\ back + 4 \in Int /\ back + 8 \in Int
            /\ {back, back + 4, back + 8} \cap {end, end + 4} = {}
            /\ back + 4 # back /\ back + 8 # back /\ back + 8 # back + 4
        BY <1>6, <2>1
      <4>2. \A x \in {back, back + 4, back + 8} : Read(t, x) = Read(behind, x)
        BY <2>4, <2>5, <4>1
      <4>3. /\ Read(behind, back) = Magic /\ Read(behind, back + 4) = 1
            /\ Read(behind, back + 8) = rest
        BY <2>6, <4>1
      <4> QED
        BY <4>2, <4>3 DEF IsHole, SizeOf
    <3> QED
      BY <1>1, <1>6, <2>1, <2>8, <3>1 DEF HoleIn, Overhead, HeaderSize, FooterSize
  <2>12. SizeOf(t, a) = new_size
    BY <1>6, <1>13, <2>7, <2>9 DEF SizeOf
  <2>13. BlockIn(t, a, n)
    <3>1. /\ Read(t, a) = Read(taken, a) /\ Read(t, a + 4) = Read(taken, a + 4)
          /\ Read(t, back - 8) = Read(taken, back - 8)
          /\ Read(t, back - 8 + 4) = Read(taken, back - 8 + 4)
      BY <1>6, <2>9
    <3>2. a + new_size - FooterSize = back - 8
      BY <1>6 DEF FooterSize
    <3> QED
      BY <1>13, <2>7, <2>12, <3>1, <3>2 DEF BlockIn, IsHole, HeaderOf
  <2>14. back = a + SizeOf(t, a)
    BY <1>6, <2>12
  <2> QED
    BY <1>12, <2>7, <2>8, <2>10, <2>11, <2>13, <2>14 DEF t
<1> QED
  BY <1>14, <1>15

(* The pages of a growth, all but the last of which expand is sure to visit. *)
LEMMA PagesVisited ==
  ASSUME NEW old \in Int, NEW new \in Int, old < new,
         NEW q \in Int, PageOf(old) <= q, q < PageOf(new - 1)
  PROVE  \E k \in 0 .. (new - old - 1) \div 1000 : PageOf(old + 1000 * k) = q
<1>1. PageSize = 4096
  BY HeapAssumption
<1>2. CASE q = PageOf(old)
  <2>1. 0 \in 0 .. (new - old - 1) \div 1000 /\ old + 1000 * 0 = old
    OBVIOUS
  <2> QED
    BY <1>2, <2>1
<1>3. CASE q > PageOf(old)
  <2> DEFINE k == (4096 * q - old + 999) \div 1000
  <2>1. 4096 * q > old /\ 4096 * (q + 1) <= new - 1
    BY <1>1, <1>3 DEF PageOf
  <2>2. k \in Int /\ 1000 * k >= 4096 * q - old /\ 1000 * k <= 4096 * q - old + 999
    OBVIOUS
  <2> HIDE DEF k
  <2>3. k >= 0 /\ 1000 * k <= new - old - 1
    BY <2>1, <2>2
  <2>4. k \in 0 .. (new - old - 1) \div 1000
    BY <2>2, <2>3
  <2>5. PageOf(old + 1000 * k) = q
    <3>1. old + 1000 * k \in Int /\ old + 1000 * k >= 4096 * q /\ old + 1000 * k < 4096 * q + 4096
      BY <2>2
    <3> QED
      BY <1>1, <3>1 DEF PageOf
  <2> QED
    BY <2>4, <2>5
<1>4. PageOf(old) \in Int
  BY PageInt
<1> QED
  BY <1>2, <1>3, <1>4

(* A growth within the page table of the heap. *)
LEMMA ExpandsPlain ==
  ASSUME NEW h \in Heaps, NEW n \in Int, workload \in Workloads, n <= workload.span,
         expand(h, n).status = "ok"
  PROVE  LET t == expand(h, n)
         IN  /\ h.status = "ok" /\ t.index = h.index /\ t.end = n /\ n > h.end
             /\ \A x \in Int : Read(t, x) = Read(h, x)
             /\ t.backed = h.backed \cup
                  {PageOf(h.end + 1000 * k) : k \in 0 .. (n - h.end - 1) \div 1000}
<1> DEFINE visited == {PageOf(h.end + 1000 * k) : k \in 0 .. (n - h.end - 1) \div 1000}
           fresh == {page \in visited : page >= PageOf(workload.span)}
           longer == panic_unless(h, n > h.end)
           checked == panic_unless(longer, n <= MaxAddress)
           b == checked.backed \cup (visited \ fresh)
           grown == WithTable([checked EXCEPT !.backed = b], fresh)
           t == expand(h, n)
<1>1. t = IF checked.status # "ok" THEN checked
          ELSE IF grown.status # "ok" THEN grown
          ELSE [grown EXCEPT !.end = n]
  BY DEF expand
<1>2. t.status = "ok"
  OBVIOUS
<1>3. longer \in Heaps /\ checked \in Heaps
  BY PanicHeap
<1>4. checked.status = "ok" => n > h.end /\ checked = h
  BY StopHeap DEF panic_unless, Stop, Heaps
<1> HIDE DEF t, visited, longer, checked
<1>5. ASSUME checked.status = "ok" PROVE fresh = {}
  <2> SUFFICES ASSUME NEW page \in visited, page >= PageOf(workload.span) PROVE FALSE
    OBVIOUS
  <2>0. PICK k \in 0 .. (n - h.end - 1) \div 1000 : page = PageOf(h.end + 1000 * k)
    BY DEF visited
  <2>1. n > h.end /\ h.end \in Int
    BY <1>4, <1>5, Parts
  <2>2. PageSize = 4096 /\ workload.span \in Nat /\ workload.span % 4096 = 0
    BY HeapAssumption
  <2>3. k \in Int /\ 1000 * k <= n - h.end - 1
    BY <2>1
  <2>4. h.end + 1000 * k < workload.span
    BY <2>1, <2>2, <2>3
  <2> DEFINE a == h.end + 1000 * k
             w == workload.span
  <2>5. a \in Int /\ w \in Int /\ a < w /\ w % 4096 = 0
    BY <2>1, <2>2, <2>3, <2>4
  <2> HIDE DEF a, w
  <2>6. ~(PageOf(a) >= PageOf(w))
    BY <2>2, <2>5 DEF PageOf
  <2> QED
    BY <2>0, <2>6 DEF a, w
<1>6. ASSUME checked.status = "ok"
      PROVE  /\ t = [[h EXCEPT !.backed = h.backed \cup visited] EXCEPT !.end = n]
             /\ h.status = "ok"
  <2>1. checked = h /\ fresh = {}
    BY <1>4, <1>5, <1>6
  <2>2. grown = [h EXCEPT !.backed = h.backed \cup visited]
    BY <2>1 DEF WithTable
  <2>3. grown.status = h.status
    BY <2>2 DEF Heaps
  <2> QED
    BY <1>1, <1>6, <2>1, <2>2, <2>3
<1>7. checked.status = "ok"
  BY <1>1, <1>2
<1>8. /\ t.index = h.index /\ t.end = n /\ t.mem = h.mem /\ t.backed = h.backed \cup visited
  BY <1>6, <1>7 DEF Heaps
<1>9. \A x \in Int : Read(t, x) = Read(h, x)
  BY <1>8 DEF Read
<1> QED
  BY <1>4, <1>6, <1>7, <1>8, <1>9 DEF t, visited

(* Where the blocks end and the hole begins. *)
Top(h) == IF h.index = <<>> THEN h.end ELSE h.index[1]

(* The pages of the heap, and the one below it that holds the end of the index. *)
Framed(h) == -1 \in h.backed /\ 0 .. PageOf(h.end - 1) \subseteq h.backed

(* No page that belongs to another page table. *)
Tabled(h) == \A q \in h.backed : q < PageOf(workload.span)

(* The end of the heap is a word, its pages have frames, and its only hole, if
   there is one, is at its end. *)
Tidy(h) ==
  /\ h.end % 4 = 0
  /\ Framed(h)
  /\ \/ h.index = <<>>
     \/ \E a \in Int : h.index = <<a>> /\ HoleIn(h, a)

(* The hole that ends where the heap does is the endmost one; or there is none at all. *)
EndHole(h, a) ==
  \/ h.index = <<>> /\ a = h.end
  \/ \E i \in 1 .. Len(h.index) :
       /\ a = h.index[i] /\ HoleIn(h, a)
       /\ \A j \in 1 .. Len(h.index) : j # i => h.index[j] < a

(* The heap has no frame after its last page. *)
NoFrameAfter(h) == \A q \in h.backed : q <= PageOf(h.end - 1)

(* A heap within its page table grows by one hole at its end, and gets frames for all
   of its pages and no more, or stops the machine. *)
LEMMA GrowsLast ==
  ASSUME NEW h \in Heaps, Framed(h), h.end % 4 = 0, NEW a \in Int, EndHole(h, a),
         NEW n \in Int, n >= Overhead, n % 4 = 0,
         workload \in Workloads, h.end + n <= workload.span,
         grow(h, n).status = "ok"
  PROVE  LET t == grow(h, n)
         IN  /\ t.end = h.end + n /\ t.end % 4 = 0 /\ Framed(t)
             /\ (Tabled(h) => Tabled(t)) /\ (NoFrameAfter(h) => NoFrameAfter(t))
             /\ t.index = (IF h.index = <<>> THEN <<a>> ELSE h.index)
             /\ HoleIn(t, a) /\ SizeOf(t, a) >= n
             /\ \A x \in Int : x < a => Read(t, x) = Read(h, x)
<1> DEFINE old == h.end
           new == h.end + n
           e == expand(h, old + n)
           I == {i \in 1 .. Len(e.index) :
                   \A j \in 1 .. Len(e.index) : e.index[j] <= e.index[i]}
           last == IF I # {} THEN Min(I) ELSE 0
           header == e.index[last]
           size == GrownSize(e, header, e.end - old)
           headed == PutHeader(e, old, 1, n)
           made == PutFooter(headed, old + n - FooterSize, old)
           sized == PutSize(e, header, size)
           longer == PutFooter(sized, header + size - FooterSize, header)
           t == grow(h, n)
           visited == {PageOf(h.end + 1000 * k) : k \in 0 .. (new - h.end - 1) \div 1000}
           Claim == /\ t.end = new /\ t.end % 4 = 0 /\ Framed(t)
                    /\ (Tabled(h) => Tabled(t)) /\ (NoFrameAfter(h) => NoFrameAfter(t))
                    /\ t.index = (IF h.index = <<>> THEN <<a>> ELSE h.index)
                    /\ HoleIn(t, a) /\ SizeOf(t, a) >= n
                    /\ \A x \in Int : x < a => Read(t, x) = Read(h, x)
<1>1. t = IF e.status # "ok" THEN e
          ELSE IF last = 0 THEN insert_ordered_array(made, old) ELSE longer
  BY DEF grow, FirstWhere, SelectInSeq
<1>2. t.status = "ok"
  OBVIOUS
<1>3. n \in Int /\ n >= 20 /\ n % 4 = 0 /\ old \in Int /\ old >= 8192 /\ new = old + n
  BY Parts, HeapAssumption DEF Overhead, HeaderSize, FooterSize
<1>4. e \in Heaps
  BY <1>3, Expands
<1>5. e.status = "ok"
  BY <1>1, <1>2
<1>6. /\ e.index = h.index /\ e.end = new
      /\ \A x \in Int : Read(e, x) = Read(h, x)
      /\ e.backed = h.backed \cup visited
  BY <1>3, <1>5, ExpandsPlain
<1>7. ASSUME PageOf(new - 4) \in e.backed PROVE 0 .. PageOf(new - 1) \subseteq e.backed
  <2> SUFFICES ASSUME NEW q \in 0 .. PageOf(new - 1) PROVE q \in e.backed
    OBVIOUS
  <2>1. PageSize = 4096
    BY HeapAssumption
  <2>2. new % 4 = 0 /\ old % 4 = 0
    BY <1>3
  <2>3. PageOf(new - 4) = PageOf(new - 1)
    <3> HIDE DEF new
    <3>1. new \in Int
      BY <1>3
    <3> QED
      BY <2>1, <2>2, <3>1 DEF PageOf
  <2>4. CASE q = PageOf(new - 1)
    BY <1>7, <2>3, <2>4
  <2>5. CASE q <= PageOf(old - 1)
    <3>1. PageOf(old - 1) \in Int
      BY <1>3, PageInt
    <3>2. q \in 0 .. PageOf(old - 1)
      BY <2>5, <3>1
    <3> QED
      BY <1>6, <3>2 DEF Framed
  <2>6. CASE PageOf(old) <= q /\ q < PageOf(new - 1)
    <3>1. \E k \in 0 .. (new - old - 1) \div 1000 : PageOf(old + 1000 * k) = q
      <4>1. new \in Int /\ old < new /\ q \in Int /\ old \in Int
        BY <1>3
      <4> HIDE DEF new, old
      <4> QED
        BY <2>6, <4>1, PagesVisited
    <3> QED
      BY <1>6, <3>1 DEF visited
  <2>7. q <= PageOf(old - 1) \/ PageOf(old) <= q
    <3> HIDE DEF old
    <3> QED
      BY <1>3, <2>1 DEF PageOf
  <2>8. PageOf(new - 1) \in Int /\ PageOf(old - 1) \in Int /\ PageOf(old) \in Int
    BY <1>3, PageInt
  <2> QED
    BY <2>4, <2>5, <2>6, <2>7, <2>8
<1>8. e.index \in Seq(Int) /\ new \in Int /\ new - 8 \in Int /\ new % 4 = 0
  <2>1. old % 4 = 0
    OBVIOUS
  <2>2. e.index \in Seq(Int)
    BY <1>4, Parts
  <2>3. new \in Int
    BY <1>3
  <2> HIDE DEF old, new
  <2>4. new % 4 = 0
    BY <1>3, <2>1
  <2> QED
    BY <2>2, <2>3, <2>4
<1>12. -1 \in e.backed
  BY <1>6 DEF Framed
<1>13. Tabled(h) => \A q \in e.backed : q < PageOf(workload.span)
  <2> SUFFICES ASSUME NEW q \in visited PROVE q < PageOf(workload.span)
    BY <1>6 DEF Tabled
  <2>1. PICK k \in 0 .. (new - h.end - 1) \div 1000 : q = PageOf(h.end + 1000 * k)
    BY DEF visited
  <2>2. /\ PageSize = 4096 /\ workload.span \in Nat /\ workload.span % 4096 = 0
        /\ new <= workload.span
    BY <1>3, HeapAssumption
  <2> DEFINE c == h.end + 1000 * k
             w == workload.span
  <2>3. c \in Int /\ w \in Int /\ c < w /\ w % 4096 = 0
    <3>1. k \in Int /\ 1000 * k <= new - h.end - 1 /\ h.end \in Int /\ new \in Int
      <4> DEFINE d == new - h.end - 1
      <4>1. d \in Int /\ h.end \in Int /\ new \in Int /\ d >= 0
        BY <1>3
      <4>2. k \in 0 .. d \div 1000
        OBVIOUS
      <4> HIDE DEF d
      <4>3. k \in Int /\ 1000 * k <= d
        BY <4>1, <4>2
      <4> QED
        BY <4>1, <4>3 DEF d
    <3> HIDE DEF new
    <3> QED
      BY <2>2, <3>1
  <2> HIDE DEF c, w
  <2>4. PageOf(c) < PageOf(w)
    BY <2>2, <2>3 DEF PageOf
  <2> QED
    BY <2>1, <2>4 DEF c, w
<1>14. NoFrameAfter(h) => \A q \in e.backed : q <= PageOf(new - 1)
  <2> SUFFICES ASSUME NoFrameAfter(h), NEW q \in e.backed PROVE q <= PageOf(new - 1)
    OBVIOUS
  <2>1. PageSize = 4096 /\ new \in Int
    BY <1>3, HeapAssumption
  <2>2. CASE q \in h.backed
    <3> DEFINE v == old - 1
               w == new - 1
    <3>1. v \in Int /\ w \in Int /\ v <= w
      BY <1>3
    <3>2. q \in Int /\ q <= PageOf(v)
      BY <2>2, Parts DEF NoFrameAfter
    <3> HIDE DEF v, w
    <3>3. PageOf(v) <= PageOf(w) /\ PageOf(v) \in Int /\ PageOf(w) \in Int
      BY <2>1, <3>1 DEF PageOf
    <3>4. q <= PageOf(w)
      BY <3>2, <3>3
    <3> QED
      BY <3>4 DEF w
  <2>3. CASE q \in visited
    <3> DEFINE d == new - old - 1
               w == new - 1
    <3>1. PICK k \in 0 .. d \div 1000 : q = PageOf(old + 1000 * k)
      BY <2>3 DEF visited
    <3>2. d \in Int /\ d >= 0 /\ w \in Int /\ old + d = w
      BY <1>3
    <3> DEFINE c == old + 1000 * k
    <3> HIDE DEF d, w
    <3>3. k \in Int /\ 1000 * k <= d
      BY <3>2
    <3>4. c \in Int /\ c <= w
      BY <1>3, <3>2, <3>3
    <3> HIDE DEF c
    <3>5. PageOf(c) <= PageOf(w)
      BY <2>1, <3>2, <3>4 DEF PageOf
    <3> QED
      BY <3>1, <3>5 DEF c, w
  <2> QED
    BY <1>6, <2>2, <2>3
<1> HIDE DEF t, e, visited, new, last
<1>9. ASSUME h.index = <<>> PROVE Claim
  <2>1. last = 0
    <3>1. Len(e.index) = 0
      BY <1>6, <1>9
    <3> QED
      BY <3>1 DEF last
  <2>2. t = insert_ordered_array(made, old) /\ old + n - FooterSize = new - 8
    BY <1>1, <1>3, <1>5, <2>1 DEF FooterSize
  <2>3. headed \in Heaps
    BY <1>3, <1>4, PutHeaderHeap
  <2> HIDE DEF headed, old
  <2>4. made \in Heaps
    BY <1>3, <1>8, <2>2, <2>3, PutFooterHeap
  <2> HIDE DEF made
  <2>5. /\ made.status = "ok" /\ t.index = <<old>> \o made.index
        /\ t.end = made.end /\ t.backed = made.backed
        /\ \A x \in Int : Read(t, x) = Read(made, x)
    <3> DEFINE u == insert_ordered_array(made, old)
    <3>1. old \in Int /\ u.status = "ok" /\ t = u
      BY <1>2, <1>3, <2>2
    <3>2. /\ made.status = "ok" /\ u.index = <<old>> \o made.index
          /\ u.end = made.end /\ u.backed = made.backed
          /\ \A x \in Int : Read(u, x) = Read(made, x)
      BY <2>4, <3>1, Inserted
    <3> HIDE DEF u
    <3> QED
      BY <3>1, <3>2
  <2>6. /\ Same(made, headed) /\ PageOf(new - 8 + 4) \in headed.backed
        /\ \A x \in Int : Read(made, x) = IF x = new - 8 THEN Magic
                             ELSE IF x = new - 8 + 4 THEN old ELSE Read(headed, x)
    <3> DEFINE c == new - 8
               u == PutFooter(headed, c, old)
    <3>1. made = u /\ u.status = "ok"
      BY <2>2, <2>5 DEF made
    <3>2. c \in Int /\ old \in Int
      BY <1>3, <1>8
    <3> HIDE DEF c
    <3>3. /\ Same(u, headed) /\ PageOf(c + 4) \in headed.backed
          /\ \A x \in Int : Read(u, x) = IF x = c THEN Magic
                                         ELSE IF x = c + 4 THEN old ELSE Read(headed, x)
      BY <2>3, <3>1, <3>2, FooterPut
    <3> HIDE DEF u
    <3> QED
      BY <3>1, <3>3 DEF c
  <2>7. /\ Same(headed, e)
        /\ \A x \in Int : Read(headed, x) = IF x = old THEN Magic ELSE IF x = old + 4 THEN 1
                                           ELSE IF x = old + 8 THEN n ELSE Read(e, x)
    BY <1>3, <1>4, <2>6, HeaderPut DEF headed, Same
  <2>8. t.index = <<old>> /\ t.end = new /\ t.backed = e.backed
    <3>1. <<old>> \o <<>> = <<old>>
      BY <1>3, ConcatEmptySeq
    <3> QED
      BY <1>6, <1>9, <2>5, <2>6, <2>7, <3>1, Zenon DEF Same
  <2>9. Read(t, old) = Magic /\ Read(t, old + 4) = 1 /\ Read(t, old + 8) = n
    <3>1. /\ old # new - 8 /\ old + 4 # new - 8 /\ old + 8 # new - 8
          /\ old # new - 8 + 4 /\ old + 4 # new - 8 + 4 /\ old + 8 # new - 8 + 4
          /\ old \in Int /\ old + 4 \in Int /\ old + 8 \in Int
          /\ old + 4 # old /\ old + 8 # old /\ old + 8 # old + 4
      BY <1>3
    <3> QED
      BY <2>5, <2>6, <2>7, <3>1
  <2>10. HoleIn(t, old) /\ SizeOf(t, old) = n
    BY <1>3, <2>8, <2>9 DEF HoleIn, IsHole, SizeOf, Overhead, HeaderSize, FooterSize
  <2>11. ASSUME NEW x \in Int, x < old PROVE Read(t, x) = Read(h, x)
    <3>1. x # new - 8 /\ x # new - 8 + 4 /\ x # old /\ x # old + 4 /\ x # old + 8
      BY <1>3, <2>11
    <3> QED
      BY <1>6, <2>5, <2>6, <2>7, <3>1
  <2>12. PageOf(new - 4) \in e.backed
    <3>1. new - 8 + 4 = new - 4
      BY <1>8
    <3> QED
      BY <2>6, <2>7, <3>1 DEF Same
  <2>13. t.end % 4 = 0 /\ Framed(t)
    BY <1>7, <1>8, <1>12, <2>8, <2>12 DEF Framed
  <2>14. a = old
    <3>1. ~ \E i \in 1 .. Len(h.index) : TRUE
      BY <1>9
    <3> QED
      BY <3>1 DEF EndHole, old
  <2> QED
    BY <1>9, <1>13, <1>14, <2>8, <2>10, <2>11, <2>13, <2>14 DEF Tabled, NoFrameAfter
<1>10. ASSUME NEW b \in Int, b = a, NEW i \in 1 .. Len(h.index), b = h.index[i], HoleIn(h, b),
              \A j \in 1 .. Len(h.index) : j # i => h.index[j] < b
       PROVE  Claim
  <2>0. h.index # <<>> /\ Len(h.index) \in Nat /\ h.index \in Seq(Int)
    <3>1. h.index \in Seq(Int)
      BY Parts
    <3> QED
      BY <1>10, <3>1
  <2>1. last = i /\ header = b
    <3>1. e.index = h.index
      BY <1>6
    <3>2. \A j \in 1 .. Len(h.index) : h.index[j] \in Int
      BY <2>0
    <3>3. I = {i}
      <4>1. I = {k \in 1 .. Len(h.index) :
                   \A j \in 1 .. Len(h.index) : h.index[j] <= h.index[k]}
        BY <3>1
      <4> HIDE DEF I
      <4>2. i \in I
        <5>1. \A j \in 1 .. Len(h.index) : h.index[j] <= h.index[i]
          BY <1>10, <3>2
        <5> QED
          BY <4>1, <5>1
      <4>3. ASSUME NEW k \in I PROVE k = i
        <5>1. k \in 1 .. Len(h.index) /\ h.index[i] <= h.index[k]
          BY <4>1
        <5>2. k # i => h.index[k] < h.index[i]
          BY <1>10, <5>1
        <5> QED
          BY <3>2, <5>1, <5>2
      <4> QED
        BY <4>2, <4>3
    <3> HIDE DEF I
    <3>4. I \in SUBSET (1 .. Len(h.index)) /\ I # {}
      BY <1>10, <3>3
    <3>5. Min(I) = i
      BY <2>0, <3>3, <3>4, Least
    <3>6. last = i
      BY <3>4, <3>5 DEF last
    <3> QED
      BY <1>10, <3>1, <3>6
  <2>2. t = longer
    BY <1>1, <1>5, <2>1
  <2>3. size = SizeOf(h, b) + n /\ b + size = new /\ size \in Int /\ size >= 20 /\ b >= 0
    <3>1. SizeOf(e, b) = SizeOf(h, b) /\ SizeOf(h, b) \in Int
      <4>1. b + 8 \in Int
        OBVIOUS
      <4>2. Read(e, b + 8) = Read(h, b + 8) /\ Read(h, b + 8) \in Int
        BY <1>6, <4>1, ReadInt
      <4> QED
        BY <4>2 DEF SizeOf
    <3>2. SizeOf(h, b) >= 20 /\ b + SizeOf(h, b) = old /\ b >= 0
      BY <1>10 DEF HoleIn, Overhead, HeaderSize, FooterSize
    <3>3. size = SizeOf(e, b) + (new - old)
      BY <1>6, <2>1 DEF GrownSize
    <3>4. n \in Int /\ n >= 20 /\ old \in Int /\ new = old + n
      BY <1>3
    <3> HIDE DEF new, old, size, header
    <3> QED
      BY <3>1, <3>2, <3>3, <3>4
  <2> HIDE DEF size, header, old
  <2>4. header + size - FooterSize = new - 8
    <3>1. header = b /\ b + size = new /\ size \in Int
      BY <2>1, <2>3
    <3> QED
      BY <1>8, <3>1 DEF FooterSize
  <2>5. sized \in Heaps
    BY <1>4, <2>1, <2>3, PutSizeHeap
  <2> HIDE DEF sized
  <2>6. /\ Same(t, sized) /\ PageOf(new - 8 + 4) \in sized.backed
        /\ \A x \in Int : Read(t, x) = IF x = new - 8 THEN Magic
                                       ELSE IF x = new - 8 + 4 THEN b ELSE Read(sized, x)
    <3> DEFINE c == new - 8
               u == PutFooter(sized, c, b)
    <3>1. t = u /\ u.status = "ok"
      BY <1>2, <2>1, <2>2, <2>4
    <3>2. c \in Int /\ b \in Int
      BY <1>8
    <3> HIDE DEF c
    <3>3. /\ Same(u, sized) /\ PageOf(c + 4) \in sized.backed
          /\ \A x \in Int : Read(u, x) = IF x = c THEN Magic
                                         ELSE IF x = c + 4 THEN b ELSE Read(sized, x)
      BY <2>5, <3>1, <3>2, FooterPut
    <3> HIDE DEF u
    <3> QED
      BY <3>1, <3>3 DEF c
  <2>7. /\ Same(sized, e)
        /\ \A x \in Int : Read(sized, x) = IF x = b + 8 THEN size ELSE Read(e, x)
    <3> DEFINE u == PutSize(e, b, size)
    <3>1. sized = u
      BY <2>1 DEF sized
    <3>2. b \in Int /\ size \in Int /\ u.status = "ok"
      BY <2>3, <2>6, <3>1 DEF Same
    <3>3. Same(u, e) /\ \A x \in Int : Read(u, x) = IF x = b + 8 THEN size ELSE Read(e, x)
      BY <1>4, <3>2, SizePut
    <3> HIDE DEF u
    <3> QED
      BY <3>1, <3>3
  <2>8. t.index = h.index /\ t.end = new /\ t.backed = e.backed
    BY <1>6, <1>10, <2>6, <2>7 DEF Same
  <2>9. Read(t, b) = Magic /\ Read(t, b + 4) = 1 /\ Read(t, b + 8) = size
    <3>1. /\ b # new - 8 /\ b + 4 # new - 8 /\ b + 8 # new - 8
          /\ b # new - 8 + 4 /\ b + 4 # new - 8 + 4 /\ b + 8 # new - 8 + 4
          /\ b \in Int /\ b + 4 \in Int /\ b + 8 \in Int
          /\ b + 8 # b /\ b + 8 # b + 4
      BY <1>8, <2>3
    <3>2. Read(h, b) = Magic /\ Read(h, b + 4) = 1
      BY <1>10 DEF HoleIn, IsHole
    <3> QED
      BY <1>6, <2>6, <2>7, <3>1, <3>2
  <2>10. HoleIn(t, b) /\ SizeOf(t, b) >= n
    <3>1. size >= n
      <4>1. SizeOf(h, b) \in Int /\ SizeOf(h, b) >= 20
        BY <1>10, ReadInt DEF SizeOf, HoleIn, Overhead, HeaderSize, FooterSize
      <4> QED
        BY <1>3, <2>3, <4>1
    <3> QED
      BY <2>3, <2>8, <2>9, <3>1 DEF HoleIn, IsHole, SizeOf, Overhead, HeaderSize, FooterSize
  <2>11. ASSUME NEW x \in Int, x < b PROVE Read(t, x) = Read(h, x)
    <3>1. x # new - 8 /\ x # new - 8 + 4 /\ x # b + 8
      BY <1>8, <2>3, <2>11
    <3> QED
      BY <1>6, <2>6, <2>7, <3>1
  <2>12. PageOf(new - 4) \in e.backed
    <3>1. new - 8 + 4 = new - 4
      BY <1>8
    <3> QED
      BY <2>6, <2>7, <3>1 DEF Same
  <2>13. t.end % 4 = 0 /\ Framed(t)
    BY <1>7, <1>8, <1>12, <2>8, <2>12 DEF Framed
  <2> QED
    BY <1>10, <1>13, <1>14, <2>0, <2>8, <2>10, <2>11, <2>13 DEF Tabled, NoFrameAfter
<1>11. Claim
  <2> HIDE DEF Claim
  <2> QED
    BY <1>9, <1>10 DEF EndHole
<1> QED
  BY <1>11 DEF t, new

(* So does a tidy heap, whose only hole is at its end. *)
LEMMA GrowsPlain ==
  ASSUME NEW h \in Heaps, Tidy(h), NEW n \in Int, n >= Overhead, n % 4 = 0,
         workload \in Workloads, h.end + n <= workload.span,
         grow(h, n).status = "ok"
  PROVE  LET t == grow(h, n)
             a == Top(h)
         IN  /\ t.end = h.end + n /\ Tidy(t) /\ (Tabled(h) => Tabled(t))
             /\ t.index = <<a>> /\ a \in Int /\ HoleIn(t, a) /\ SizeOf(t, a) >= n
             /\ \A x \in Int : x < a => Read(t, x) = Read(h, x)
<1> DEFINE t == grow(h, n)
           a == Top(h)
<1>1. a \in Int /\ EndHole(h, a) /\ (h.index # <<>> => h.index = <<a>>)
  <2>1. CASE h.index = <<>>
    BY <2>1, Parts DEF Top, EndHole
  <2>2. CASE h.index # <<>>
    <3>1. PICK b \in Int : h.index = <<b>> /\ HoleIn(h, b)
      BY <2>2 DEF Tidy
    <3>2. a = b /\ Len(h.index) = 1 /\ h.index[1] = b
      BY <3>1 DEF Top
    <3> HIDE DEF a
    <3>3. EndHole(h, a)
      BY <3>1, <3>2 DEF EndHole
    <3> QED
      BY <3>1, <3>2, <3>3
  <2> QED
    BY <2>1, <2>2
<1> HIDE DEF a
<1>2. /\ t.end = h.end + n /\ t.end % 4 = 0 /\ Framed(t) /\ (Tabled(h) => Tabled(t))
      /\ t.index = <<a>> /\ HoleIn(t, a) /\ SizeOf(t, a) >= n
      /\ \A x \in Int : x < a => Read(t, x) = Read(h, x)
  BY <1>1, GrowsLast DEF Tidy
<1> HIDE DEF t
<1> QED
  BY <1>1, <1>2 DEF Tidy, t, a

-----------------------------------------------------------------------------
(* The header of a block in use, and where it ends. *)
HeaderOfBlock(b) == b.p - HeaderSize
EndOf(h, b) == HeaderOfBlock(b) + SizeOf(h, HeaderOfBlock(b))

(* Clients ask for memory on any address.  They keep it, or free what they were
   given last; then they start no block above the least size of the heap, which
   contract never goes below. *)
LastFirst ==
  /\ workload.frees \in {"none", "lifo"} /\ workload.aligns \subseteq {FALSE}
  /\ workload.frees = "lifo" =>
       \A k \in 1 .. Len(live) : HeaderOfBlock(live[k]) + Overhead <= MinSize

(* And the heap needs one page table only. *)
Orderly == LastFirst /\ OneTable

(* The blocks lie one behind the other, in the order of their calls, below the
   hole. *)
Stacked(h, s) ==
  /\ \A k \in 1 .. Len(s) :
       LET a == HeaderOfBlock(s[k])
       IN  /\ a >= 0 /\ BlockIn(h, a, s[k].size)
           /\ a + SizeOf(h, a) <= Top(h)
  /\ \A j, k \in 1 .. Len(s) :
       j < k => HeaderOfBlock(s[j]) + SizeOf(h, HeaderOfBlock(s[j])) <= HeaderOfBlock(s[k])

(* Where the k-th block has to start for no byte to be between it and the one
   before; and so they lie, the hole behind the last.  Nothing before the first
   looks like a footer. *)
Below(h, s, k) == IF k = 1 THEN 0 ELSE EndOf(h, s[k - 1])
Packed(h, s) ==
  /\ \A k \in 1 .. Len(s) : HeaderOfBlock(s[k]) = Below(h, s, k)
  /\ Top(h) = Below(h, s, Len(s) + 1)
  /\ Read(h, 0 - FooterSize) # Magic

(* The inductive invariant of the layout. *)
Layout ==
  Running => Tidy(heap) /\ Tabled(heap) /\ Stacked(heap, live) /\ Packed(heap, live)

(* A block stays whole as long as nothing below its end is written. *)
LEMMA BlockKept ==
  ASSUME NEW h \in Heaps, NEW t \in Heaps, NEW a \in Int, NEW n \in Int, n >= 0, BlockIn(h, a, n),
         NEW c \in Int, a + SizeOf(h, a) <= c,
         \A x \in Int : x < c => Read(t, x) = Read(h, x)
  PROVE  BlockIn(t, a, n) /\ SizeOf(t, a) = SizeOf(h, a)
<1> DEFINE size == SizeOf(h, a)
<1>1. size \in Int /\ size >= n + 20 /\ a + size <= c
  BY ReadInt DEF SizeOf, BlockIn, Overhead, HeaderSize, FooterSize
<1> HIDE DEF size
<1>2. /\ Read(t, a) = Read(h, a) /\ Read(t, a + 4) = Read(h, a + 4)
      /\ Read(t, a + 8) = Read(h, a + 8)
      /\ Read(t, a + size - FooterSize) = Read(h, a + size - FooterSize)
      /\ Read(t, a + size - FooterSize + 4) = Read(h, a + size - FooterSize + 4)
  BY <1>1 DEF FooterSize
<1> QED
  BY <1>2 DEF BlockIn, SizeOf, IsHole, HeaderOf, size

(* An owner writes its own bytes only. *)
LEMMA Filled ==
  ASSUME NEW h \in Heaps, NEW p \in Int, NEW n \in Int
  PROVE  LET t == Fill(h, p, n)
         IN  /\ t.index = h.index /\ t.end = h.end /\ t.backed = h.backed /\ t.status = h.status
             /\ \A x \in Int : x < p \/ x >= p + n => Read(t, x) = Read(h, x)
<1> DEFINE m == [x \in {a \in DOMAIN h.mem : a < p \/ a >= p + n} |-> h.mem[x]]
           t == [h EXCEPT !.mem = m]
<1>1. /\ t.index = h.index /\ t.end = h.end /\ t.backed = h.backed /\ t.status = h.status
      /\ t.mem = m
  BY DEF Heaps
<1>2. Fill(h, p, n) = t
  BY DEF Fill
<1> HIDE DEF t
<1>3. ASSUME NEW x \in Int, x < p \/ x >= p + n PROVE Read(t, x) = Read(h, x)
  BY <1>1, <1>3 DEF Read
<1> QED
  BY <1>1, <1>2, <1>3

(* A block taken from the only hole, then filled by its owner. *)
LEMMA FillsPlain ==
  ASSUME NEW h \in Heaps, Tidy(h), NEW a \in Int, h.index = <<a>>, HoleIn(h, a),
         NEW n \in Int, n >= 0, SizeOf(h, a) >= n + Overhead,
         place(h, 1, n, FALSE).status = "ok"
  PROVE  LET t == Fill(place(h, 1, n, FALSE), a + HeaderSize, n)
         IN  /\ t.end = h.end /\ t.backed = h.backed /\ Tidy(t) /\ BlockIn(t, a, n)
             /\ a + SizeOf(t, a) = Top(t) /\ Top(t) \in Int
             /\ \A x \in Int : x < a => Read(t, x) = Read(h, x)
<1> DEFINE placed == place(h, 1, n, FALSE)
           back == a + SizeOf(placed, a)
           t == Fill(placed, a + HeaderSize, n)
<1>1. placed \in Heaps
  <2>1. 1 \in 1 .. Len(h.index)
    OBVIOUS
  <2> QED
    BY <2>1, Places
<1>2. /\ placed.end = h.end /\ placed.backed = h.backed /\ BlockIn(placed, a, n)
      /\ \A x \in Int : x < a => Read(placed, x) = Read(h, x)
      /\ \/ placed.index = <<>> /\ back = h.end
         \/ placed.index = <<back>> /\ HoleIn(placed, back)
  BY PlacesPlain
<1> HIDE DEF placed
<1>3. SizeOf(placed, a) \in Int /\ SizeOf(placed, a) >= n + 20
  BY <1>1, <1>2, ReadInt DEF SizeOf, BlockIn, Overhead, HeaderSize, FooterSize
<1>4. a + HeaderSize \in Int /\ a + HeaderSize = a + 12
  BY DEF HeaderSize
<1>5. /\ t.index = placed.index /\ t.end = placed.end /\ t.backed = placed.backed
      /\ \A x \in Int : x < a + 12 \/ x >= a + 12 + n => Read(t, x) = Read(placed, x)
  BY <1>1, <1>4, Filled
<1> HIDE DEF t
<1>6. Read(t, a + 8) = Read(placed, a + 8)
  BY <1>5
<1>7. SizeOf(t, a) = SizeOf(placed, a)
  BY <1>6 DEF SizeOf
<1>8. BlockIn(t, a, n)
  <2> DEFINE f == a + SizeOf(placed, a) - FooterSize
  <2>1. f \in Int /\ f >= a + 12 + n /\ f + 4 >= a + 12 + n
    BY <1>3 DEF FooterSize
  <2>2. /\ Read(t, a) = Read(placed, a) /\ Read(t, a + 4) = Read(placed, a + 4)
        /\ Read(t, f) = Read(placed, f) /\ Read(t, f + 4) = Read(placed, f + 4)
    <3> HIDE DEF f
    <3> QED
      BY <1>5, <2>1
  <2> QED
    BY <1>2, <1>7, <2>2 DEF BlockIn, IsHole, HeaderOf
<1>9. back \in Int /\ back >= a + 12 + n
  BY <1>3
<1> HIDE DEF back
<1>10. HoleIn(placed, back) => HoleIn(t, back)
  <2>1. /\ Read(t, back) = Read(placed, back) /\ Read(t, back + 4) = Read(placed, back + 4)
        /\ Read(t, back + 8) = Read(placed, back + 8)
    BY <1>5, <1>9
  <2> QED
    BY <1>5, <2>1 DEF HoleIn, IsHole, SizeOf
<1>11. Tidy(t)
  BY <1>2, <1>5, <1>9, <1>10 DEF Tidy, Framed
<1>12. Top(t) = back
  BY <1>2, <1>5 DEF Top
<1>13. \A x \in Int : x < a => Read(t, x) = Read(h, x)
  BY <1>2, <1>5
<1> QED
  BY <1>2, <1>5, <1>7, <1>8, <1>9, <1>11, <1>12, <1>13 DEF t, placed, back

(* The hole fits a request exactly if it has that many bytes. *)
LEMMA FitsEnough ==
  ASSUME NEW h \in Heaps, NEW a \in Int, h.index = <<a>>, NEW n \in Int, n >= 0,
         SizeOf(h, a) >= 0
  PROVE  find_smallest_hole(h, n, FALSE) # 0 <=> SizeOf(h, a) >= n
<1> DEFINE I == {i \in 1 .. Len(h.index) : UGeq(SizeOf(h, h.index[i]), n)}
<1>1. find_smallest_hole(h, n, FALSE) = IF I # {} THEN Min(I) ELSE 0
  BY DEF find_smallest_hole, FirstWhere, SelectInSeq
<1>2. Len(h.index) = 1 /\ h.index[1] = a
  OBVIOUS
<1>3. SizeOf(h, a) \in Int
  BY ReadInt DEF SizeOf
<1>4. I \in SUBSET (1 .. 1) /\ (I # {} <=> SizeOf(h, a) >= n)
  BY <1>2, <1>3 DEF UGeq
<1> HIDE DEF I
<1>5. I # {} => Min(I) = 1
  <2> SUFFICES ASSUME I # {} PROVE Min(I) = 1
    OBVIOUS
  <2>1. Min(I) \in I
    BY <1>4, Least
  <2>2. I \subseteq 1 .. 1
    BY <1>4
  <2>3. Min(I) \in 1 .. 1
    BY <2>1, <2>2, Zenon
  <2> QED
    BY <2>3
<1>6. find_smallest_hole(h, n, FALSE) # 0 <=> I # {}
  <2> DEFINE r == find_smallest_hole(h, n, FALSE)
  <2>1. I = {} => r = 0
    BY <1>1, Zenon
  <2>2. I # {} => r = 1
    BY <1>1, <1>5, Zenon
  <2> HIDE DEF r
  <2>3. r # 0 <=> I # {}
    BY <2>1, <2>2
  <2> QED
    BY <2>3 DEF r
<1> QED
  BY <1>4, <1>6, Zenon

(* A write to a page that has a frame does not stop the machine. *)
LEMMA WriteOk ==
  ASSUME NEW h \in Heaps, NEW a \in Int, NEW v \in Int, h.status = "ok", PageOf(a) \in h.backed
  PROVE  Write(h, a, v).status = "ok"
<1>1. Touch(h, a) = h
  BY DEF Touch
<1> DEFINE m == [x \in DOMAIN h.mem \cup {a} |-> IF x = a THEN v ELSE h.mem[x]]
<1>2. Write(h, a, v) = [h EXCEPT !.mem = m]
  BY <1>1 DEF Write
<1>3. [h EXCEPT !.mem = m].status = h.status
  BY DEF Heaps
<1> HIDE DEF m
<1> QED
  BY <1>2, <1>3

(* What lies left of a block is another block, or the page below the heap. *)
Leftmost(h, a) ==
  Read(h, a - FooterSize) = Magic =>
    LET c == HeaderOf(h, a - FooterSize)
    IN  c >= 0 /\ c < a /\ IsHole(h, c) = 0

(* Each word of the heap, and the footer below it, is on a page that has a frame. *)
LEMMA WordFramed ==
  ASSUME NEW h \in Heaps, Framed(h), NEW a \in Int, -FooterSize <= a, a < h.end
  PROVE  PageOf(a) \in h.backed
<1>1. PageSize = 4096 /\ h.end \in Int /\ -8 <= a
  BY Parts, HeapAssumption DEF FooterSize
<1> DEFINE e == h.end
<1>2. e \in Int /\ a < e
  BY <1>1
<1> HIDE DEF e
<1>3. PageOf(a) \in Int /\ PageOf(a) >= -1 /\ PageOf(a) <= PageOf(e - 1) /\ PageOf(e - 1) \in Int
  BY <1>1, <1>2 DEF PageOf
<1>4. PageOf(a) = -1 \/ PageOf(a) \in 0 .. PageOf(e - 1)
  BY <1>3
<1> QED
  BY <1>4 DEF Framed, e

(* free finds no hole on the left of the block: it stays where it is
   (kernelheap.c:312-323). *)
LEMMA LeftStays ==
  ASSUME NEW h \in Heaps, h.status = "ok", Framed(h), NEW a \in Int, a >= 0, a < h.end,
         Leftmost(h, a), NEW footer \in Int
  PROVE  unify_left(h, a, footer) = [heap |-> h, header |-> a]
<1> DEFINE left == a - FooterSize
           into == HeaderOf(h, left)
<1>1. h.end \in Int
  BY Parts
<1>2. PageOf(left) \in h.backed
  <2>1. left \in Int /\ -FooterSize <= left /\ left < h.end
    BY <1>1 DEF FooterSize
  <2> HIDE DEF left
  <2> QED
    BY <2>1, WordFramed
<1>3. Touch(h, left) = h
  BY <1>2 DEF Touch
<1>4. CASE Read(h, left) # Magic
  BY <1>3, <1>4 DEF unify_left
<1>5. CASE Read(h, left) = Magic
  <2>1. into >= 0 /\ into < a /\ IsHole(h, into) = 0
    BY <1>5 DEF Leftmost
  <2>2. into \in Int
    BY ReadInt DEF HeaderOf
  <2>3. PageOf(into) \in h.backed
    <3> DEFINE c == into
    <3>1. c \in Int /\ -FooterSize <= c /\ c < h.end
      <4> HIDE DEF into
      <4> QED
        BY <1>1, <2>1, <2>2 DEF FooterSize
    <3> HIDE DEF c
    <3> QED
      BY <3>1, WordFramed DEF c
  <2>4. Touch(h, into) = h
    BY <2>3 DEF Touch
  <2>5. IsHole(h, into) # 1
    BY <2>1
  <2> HIDE DEF left, into
  <2> QED
    BY <1>3, <2>4, <2>5, Zenon DEF unify_left, left, into
<1> QED
  BY <1>4, <1>5

(* The free block takes the hole on its right, which is then out of the index. *)
LEMMA RightJoins ==
  ASSUME NEW h \in Heaps, h.status = "ok", Framed(h), NEW a \in Int, a >= 0,
         NEW b \in Int, a + 20 <= b, SizeOf(h, a) = b - a,
         \/ h.index = <<>> /\ b = h.end
         \/ h.index = <<b>> /\ HoleIn(h, b),
         LET r == unify_right(h, a, b - FooterSize) IN r.heap.status = "ok"
  PROVE  LET r == unify_right(h, a, b - FooterSize)
         IN  /\ r.heap \in Heaps /\ r.footer + FooterSize = h.end
             /\ r.heap.index = <<>> /\ r.heap.end = h.end /\ r.heap.backed = h.backed
             /\ SizeOf(r.heap, a) = h.end - a
             /\ \A x \in Int : x < a + 8 => Read(r.heap, x) = Read(h, x)
<1> DEFINE footer == b - FooterSize
           right == footer + FooterSize
           near == Touch(h, right)
           i == FirstWhere(h, LAMBDA c : c = right)
           sum == SizeOf(h, a) + SizeOf(h, right)
           grown == PutSize(h, a, sum)
           checked == panic_unless(grown, i # 0)
           joined == remove_ordered_array(checked, i)
           r == unify_right(h, a, footer)
<1>1. r = IF near.status # "ok" \/ Read(h, right) # Magic \/ IsHole(h, right) = 0
            THEN [heap |-> near, footer |-> footer]
            ELSE [heap |-> joined, footer |-> right + SizeOf(grown, right) - FooterSize]
  BY DEF unify_right
<1>2. right = b /\ footer \in Int /\ footer = b - 8
  BY DEF FooterSize
<1>3. i = Position(h, right)
  BY DEF FirstWhere, SelectInSeq, Position
<1>4. r.heap \in Heaps
  BY <1>2, UnifiesRight
<1>5. SizeOf(h, a) \in Int /\ SizeOf(h, b) \in Int /\ h.end \in Int
  BY ReadInt, Parts DEF SizeOf
<1>6. sum \in Int /\ grown \in Heaps
  BY <1>2, <1>5, PutSizeHeap
<1>7. r.heap.status = "ok"
  OBVIOUS
<1> HIDE DEF r, i, footer, near, checked, joined
<1>8. CASE h.index = <<>> /\ b = h.end
  <2>1. i = 0
    <3>1. {j \in 1 .. Len(h.index) : h.index[j] = right} = {}
      BY <1>8
    <3> QED
      BY <1>3, <3>1, Zenon DEF Position
  <2>2. joined.status # "ok"
    BY <2>1 DEF joined, checked, panic_unless, remove_ordered_array, Stop
  <2>3. r = [heap |-> near, footer |-> footer]
    BY <1>1, <1>7, <2>2
  <2>4. near = h
    BY <1>7, <2>3, TouchHeap DEF near, Touch, Stop, Heaps
  <2> QED
    BY <1>2, <1>4, <1>5, <1>8, <2>3, <2>4 DEF r, footer, FooterSize
<1>9. CASE h.index = <<b>> /\ HoleIn(h, b)
  <2>1. b >= 0 /\ b < h.end /\ Read(h, b) = Magic /\ IsHole(h, b) = 1
        /\ b + SizeOf(h, b) = h.end /\ SizeOf(h, b) >= 20
    BY <1>5, <1>9 DEF HoleIn, Overhead, HeaderSize, FooterSize
  <2>2. near = h
    <3>1. PageOf(b) \in h.backed
      BY <2>1, WordFramed DEF FooterSize
    <3> QED
      BY <1>2, <3>1 DEF near, Touch
  <2>3. r = [heap |-> joined, footer |-> right + SizeOf(grown, right) - FooterSize]
    BY <1>1, <1>2, <2>1, <2>2
  <2>4. i = 1
    <3>1. Len(h.index) = 1 /\ h.index[1] = b
      BY <1>9
    <3> DEFINE I == {j \in 1 .. Len(h.index) : h.index[j] = right}
    <3>2. I = {1}
      BY <1>2, <3>1
    <3> HIDE DEF I
    <3>3. I \in SUBSET (1 .. 1) /\ I # {}
      BY <3>2
    <3>4. Min(I) = 1
      <4>1. Min(I) \in I
        BY <3>3, Least
      <4> QED
        BY <3>2, <4>1
    <3> QED
      BY <1>3, <3>3, <3>4 DEF Position, I
  <2>5. checked.status = "ok" /\ joined.status = "ok"
    BY <1>7, <2>3 DEF joined, remove_ordered_array
  <2>6. checked = grown
    BY <2>4 DEF checked, panic_unless
  <2>7. /\ Same(grown, h)
        /\ \A x \in Int : Read(grown, x) = IF x = a + 8 THEN sum ELSE Read(h, x)
    BY <1>6, <2>5, <2>6, SizePut
  <2>8. joined.index = <<>> /\ joined.end = h.end /\ joined.backed = h.backed
        /\ \A x : Read(joined, x) = Read(grown, x)
    <3>1. RemoveAt(h.index, 1) = <<>>
      <4>1. Len(h.index) = 1
        BY <1>9
      <4>2. SubSeq(h.index, 1, 1 - 1) = <<>> /\ SubSeq(h.index, 1 + 1, Len(h.index)) = <<>>
        BY <4>1, SubSeqEmpty
      <4> QED
        BY <4>2, EmptySeq, ConcatEmptySeq DEF RemoveAt
    <3> HIDE DEF grown
    <3>2. joined = [grown EXCEPT !.index = <<>>]
      BY <2>4, <2>6, <2>7, <3>1 DEF joined, remove_ordered_array, Same
    <3> QED
      BY <1>6, <2>7, <3>2 DEF Heaps, Read, Same
  <2>9. a + 8 \in Int /\ b + 8 \in Int /\ a + 8 # b + 8
    OBVIOUS
  <2>10. SizeOf(joined, a) = sum /\ SizeOf(grown, b) = SizeOf(h, b)
    BY <2>7, <2>8, <2>9 DEF SizeOf
  <2>11. sum = h.end - a
    BY <1>2, <1>5, <2>1
  <2>12. r.footer + FooterSize = h.end
    BY <1>2, <1>5, <2>1, <2>3, <2>10 DEF FooterSize
  <2>13. \A x \in Int : x < a + 8 => Read(joined, x) = Read(h, x)
    BY <2>7, <2>8
  <2> HIDE DEF grown
  <2> QED
    BY <1>4, <2>3, <2>8, <2>10, <2>11, <2>12, <2>13 DEF r, footer
<1> QED
  BY <1>8, <1>9

(* With a header low enough, contract gives back what lies above the least size. *)
LEMMA ContractsLow ==
  ASSUME NEW h \in Heaps, h.status = "ok", Framed(h), NEW a \in Int, a >= 0,
         a + Overhead <= MinSize
  PROVE  LET t == contract(h, a)
         IN  /\ t.status = "ok" /\ t.index = h.index /\ t.end = MinSize /\ Framed(t)
             /\ t.backed \subseteq h.backed
             /\ \A x \in Int : x < MinSize => Read(t, x) = Read(h, x)
<1> DEFINE freed == {PageOf(h.end - PageSize * k) :
                       k \in {k \in 1 .. PageOf(h.end) : h.end - PageSize * k > ContractTo(a)}}
           b == h.backed \ freed
           m == [x \in {c \in DOMAIN h.mem : PageOf(c) \notin freed} |-> h.mem[x]]
           t == [h EXCEPT !.backed = b, !.end = ContractTo(a), !.mem = m]
<1>1. /\ PageSize = 4096 /\ MinSize \in Int /\ MinSize >= 8192 /\ MinSize % 4096 = 0
      /\ h.end \in Int /\ MinSize <= h.end /\ a + 20 <= MinSize
  BY Parts, HeapAssumption DEF Overhead, HeaderSize, FooterSize
<1>2. ContractTo(a) = MinSize
  <2>1. Rounded(a) \in {a, 8192}
    BY <1>1 DEF Rounded
  <2> QED
    BY <1>1, <2>1 DEF ContractTo
<1>3. contract(h, a) = t
  <2>1. panic_unless(h, a < h.end) = h
    BY <1>1 DEF panic_unless
  <2> HIDE DEF freed
  <2> QED
    BY <2>1 DEF contract, freed
<1>4. \A q \in freed : q >= PageOf(MinSize)
  <2> SUFFICES ASSUME NEW k \in 1 .. PageOf(h.end), h.end - PageSize * k > ContractTo(a)
               PROVE  PageOf(h.end - PageSize * k) >= PageOf(MinSize)
    OBVIOUS
  <2>1. PageOf(h.end) \in Int
    BY <1>1, PageInt
  <2>2. k \in Int
    BY <2>1
  <2> DEFINE c == h.end - 4096 * k
  <2>3. c \in Int /\ c > MinSize
    BY <1>1, <1>2, <2>2
  <2> HIDE DEF c
  <2>4. PageOf(c) >= PageOf(MinSize)
    BY <1>1, <2>3 DEF PageOf
  <2> QED
    BY <1>1, <2>4 DEF c
<1> HIDE DEF freed
<1>5. /\ t.status = "ok" /\ t.index = h.index /\ t.end = MinSize /\ t.backed = b /\ t.mem = m
  BY <1>2 DEF Heaps
<1>6. PageOf(MinSize - 1) < PageOf(MinSize) /\ PageOf(MinSize) \in Int /\ PageOf(MinSize) >= 2
      /\ PageOf(MinSize - 1) \in Int /\ PageOf(MinSize - 1) <= PageOf(h.end - 1)
      /\ PageOf(h.end - 1) \in Int
  BY <1>1 DEF PageOf
<1>7. Framed(t)
  <2>1. -1 \in b
    BY <1>4, <1>6 DEF Framed
  <2>2. ASSUME NEW q \in 0 .. PageOf(MinSize - 1) PROVE q \in b
    <3>1. q \in 0 .. PageOf(h.end - 1) /\ ~(q >= PageOf(MinSize))
      BY <1>6
    <3> QED
      BY <1>4, <3>1 DEF Framed
  <2> QED
    BY <1>5, <2>1, <2>2 DEF Framed
<1>8. ASSUME NEW x \in Int, x < MinSize PROVE Read(t, x) = Read(h, x)
  <2>1. PageOf(x) < PageOf(MinSize) /\ PageOf(x) \in Int
    BY <1>1, <1>8 DEF PageOf
  <2>2. PageOf(x) \notin freed
    BY <1>4, <1>6, <2>1
  <2>3. x \in DOMAIN m <=> x \in DOMAIN h.mem
    BY <2>2
  <2>4. x \in DOMAIN m => m[x] = h.mem[x]
    OBVIOUS
  <2> HIDE DEF t, m
  <2> QED
    BY <1>5, <2>3, <2>4 DEF Read
<1> HIDE DEF t
<1> QED
  BY <1>3, <1>5, <1>7, <1>8

(* A hole that reaches to the end of the heap then ends at the least size
   (kernelheap.c:347-372). *)
LEMMA ShrinksLow ==
  ASSUME NEW h \in Heaps, h.status = "ok", Framed(h), h.index = <<>>, NEW a \in Int, a >= 0,
         a + Overhead <= MinSize, SizeOf(h, a) = h.end - a,
         Read(h, a) = Magic, IsHole(h, a) = 1, NEW b, shrink(h, a, b).status = "ok"
  PROVE  LET t == shrink(h, a, b)
         IN  /\ t.index = <<>> /\ t.end = MinSize /\ Framed(t) /\ t.backed \subseteq h.backed
             /\ HoleIn(t, a) /\ \A x \in Int : x < a => Read(t, x) = Read(h, x)
<1> DEFINE smaller == contract(h, a)
           size == SizeOf(h, a) - (h.end - smaller.end)
           sized == PutSize(smaller, a, size)
           footed == PutFooter(sized, a + size - FooterSize, a)
           t == shrink(h, a, b)
<1>1. /\ smaller.status = "ok" /\ smaller.index = h.index /\ smaller.end = MinSize
      /\ Framed(smaller) /\ smaller.backed \subseteq h.backed
      /\ \A x \in Int : x < MinSize => Read(smaller, x) = Read(h, x)
  BY ContractsLow
<1>2. MinSize \in Int /\ h.end \in Int /\ a + 20 <= MinSize
  BY Parts, HeapAssumption DEF Overhead, HeaderSize, FooterSize
<1>3. smaller \in Heaps
  BY Contracts
<1> HIDE DEF smaller
<1>4. size \in Int /\ size = MinSize - a /\ size >= 20
  BY <1>1, <1>2
<1>5. t = footed
  BY <1>1, <1>4 DEF shrink, smaller
<1> HIDE DEF size
<1>6. sized \in Heaps
  BY <1>3, <1>4, PutSizeHeap
<1>7. a + size - FooterSize = MinSize - 8
  BY <1>2, <1>4 DEF FooterSize
<1>8. t.status = "ok"
  OBVIOUS
<1> HIDE DEF sized, t
<1>9. /\ Same(t, sized)
      /\ \A x \in Int : Read(t, x) = IF x = MinSize - 8 THEN Magic
                                     ELSE IF x = MinSize - 8 + 4 THEN a ELSE Read(sized, x)
  <2>1. MinSize - 8 \in Int /\ t = PutFooter(sized, MinSize - 8, a)
    BY <1>2, <1>5, <1>7
  <2> QED
    BY <1>6, <1>8, <2>1, FooterPut
<1>10. /\ Same(sized, smaller)
       /\ \A x \in Int : Read(sized, x) = IF x = a + 8 THEN size ELSE Read(smaller, x)
  BY <1>3, <1>4, <1>9, SizePut DEF sized, Same
<1>11. t.index = <<>> /\ t.end = MinSize /\ t.backed = smaller.backed
  BY <1>1, <1>9, <1>10 DEF Same
<1>12. \A x \in Int : x < a + 8 => Read(t, x) = Read(h, x)
  <2> SUFFICES ASSUME NEW x \in Int, x < a + 8 PROVE Read(t, x) = Read(h, x)
    OBVIOUS
  <2>1. x # MinSize - 8 /\ x # MinSize - 8 + 4 /\ x # a + 8 /\ x < MinSize
    BY <1>2
  <2> QED
    BY <1>1, <1>9, <1>10, <2>1
<1>13. Read(t, a + 8) = size
  <2>1. a + 8 \in Int /\ a + 8 # MinSize - 8 /\ a + 8 # MinSize - 8 + 4
    BY <1>2
  <2> QED
    BY <1>9, <1>10, <2>1
<1>14. HoleIn(t, a)
  <2>1. Read(t, a) = Magic /\ Read(t, a + 4) = 1
    BY <1>12 DEF IsHole
  <2>2. size >= Overhead /\ a + size = t.end
    BY <1>2, <1>4, <1>11 DEF Overhead, HeaderSize, FooterSize
  <2> QED
    BY <1>13, <2>1, <2>2 DEF HoleIn, IsHole, SizeOf
<1>15. Framed(t)
  BY <1>1, <1>11 DEF Framed
<1> QED
  BY <1>1, <1>11, <1>12, <1>14, <1>15 DEF t

(* free of the block below the hole: the two become one, at the end of a heap of the
   least size, and nothing below the block is written (kernelheap.c:292-378). *)
LEMMA FreesLast ==
  ASSUME NEW h \in Heaps, h.status = "ok", Tidy(h), Framed(h),
         NEW a \in Int, a >= 0, a + Overhead <= MinSize, NEW n \in Int, n >= 0,
         BlockIn(h, a, n), a + SizeOf(h, a) = Top(h), Leftmost(h, a),
         free(h, a + HeaderSize).status = "ok"
  PROVE  LET t == free(h, a + HeaderSize)
         IN  /\ t.end = MinSize /\ Tidy(t) /\ Framed(t) /\ t.backed \subseteq h.backed
             /\ Top(t) = a /\ \A x \in Int : x < a => Read(t, x) = Read(h, x)
<1> DEFINE p == a + HeaderSize
           b == Top(h)
           footer == a + SizeOf(h, a) - FooterSize
           sane == panic_unless(panic_unless(h, Read(h, a) = Magic), Read(h, footer) = Magic)
           hole == Write(sane, a + 4, 1)
           left == unify_left(hole, a, footer)
           right == unify_right(left.heap, left.header, footer)
           last == right.footer + FooterSize = right.heap.end
           shrunk == IF right.heap.status = "ok" /\ last
                       THEN shrink(right.heap, left.header, footer + FooterSize)
                       ELSE right.heap
           t == free(h, p)
<1>1. /\ SizeOf(h, a) \in Int /\ SizeOf(h, a) >= 20 /\ b = a + SizeOf(h, a) /\ b \in Int
      /\ footer = b - FooterSize /\ MinSize \in Int /\ a + 20 <= MinSize
      /\ h.end \in Int /\ MinSize <= h.end /\ MinSize % 4 = 0
  <2>1. MinSize \in Int /\ MinSize % 4096 = 0
    BY HeapAssumption
  <2>2. MinSize % 4 = 0
    BY <2>1
  <2> QED
    BY <2>1, <2>2, ReadInt, Parts DEF SizeOf, BlockIn, Overhead, HeaderSize, FooterSize
<1>2. t = IF left.header = a THEN insert_ordered_array(shrunk, a) ELSE shrunk
  <2>1. p - HeaderSize = a
    BY DEF HeaderSize
  <2> HIDE DEF p
  <2> QED
    BY <2>1, ZenonT(60) DEF free
<1>3. Read(h, a) = Magic /\ IsHole(h, a) = 0
      /\ Read(h, footer) = Magic /\ HeaderOf(h, footer) = a
  BY DEF BlockIn
<1>4. sane = h
  BY <1>3 DEF panic_unless
<1> HIDE DEF p, b, footer, t
<1>5. hole \in Heaps /\ hole.status = "ok"
  <2>1. PageOf(a + 4) \in h.backed
    <3>1. a + 4 \in Int /\ -FooterSize <= a + 4 /\ a + 4 < h.end
      BY <1>1 DEF FooterSize
    <3> QED
      BY <3>1, WordFramed
  <2> QED
    BY <1>4, <2>1, WriteOk, WriteHeap
<1>6. /\ Same(hole, h) /\ \A x \in Int : Read(hole, x) = IF x = a + 4 THEN 1 ELSE Read(h, x)
  <2>1. hole = Write(h, a + 4, 1) /\ a + 4 \in Int
    BY <1>4
  <2> HIDE DEF hole
  <2> QED
    BY <1>5, <2>1, Writes
<1> HIDE DEF sane, hole
<1>7. Framed(hole) /\ hole.end = h.end /\ hole.index = h.index /\ hole.backed = h.backed
  BY <1>6 DEF Same, Framed
<1>8. Leftmost(hole, a)
  <2> DEFINE into == HeaderOf(h, a - FooterSize)
  <2>1. a - FooterSize = a - 8
    BY DEF FooterSize
  <2>2. Read(hole, a - 8) = Read(h, a - 8) /\ Read(hole, a - 8 + 4) = Read(h, a - 8 + 4)
    BY <1>6
  <2>3. into \in Int
    BY ReadInt DEF HeaderOf
  <2>4. HeaderOf(hole, a - FooterSize) = into
    BY <2>1, <2>2 DEF HeaderOf
  <2> HIDE DEF into
  <2>5. into < a => IsHole(hole, into) = IsHole(h, into)
    BY <1>6, <2>3 DEF IsHole
  <2> QED
    BY <2>1, <2>2, <2>4, <2>5 DEF Leftmost, into
<1>9. left = [heap |-> hole, header |-> a]
  <2>1. a < hole.end /\ footer \in Int
    BY <1>1, <1>7 DEF FooterSize
  <2> QED
    BY <1>5, <1>7, <1>8, <2>1, LeftStays
<1>10. right = unify_right(hole, a, footer) /\ left.header = a
  BY <1>9
<1> HIDE DEF left
<1>11. t = insert_ordered_array(shrunk, a)
  BY <1>2, <1>10
<1>12. right.heap \in Heaps
  <2>1. footer \in Int
    BY <1>1 DEF FooterSize
  <2> QED
    BY <1>5, <1>10, <2>1, UnifiesRight
<1>13. shrunk \in Heaps
  BY <1>10, <1>12, Shrinks
<1>14. /\ shrunk.status = "ok" /\ t.index = <<a>> \o shrunk.index
       /\ t.end = shrunk.end /\ t.backed = shrunk.backed /\ t.status = "ok"
       /\ \A x \in Int : Read(t, x) = Read(shrunk, x)
  <2>1. insert_ordered_array(shrunk, a).status = "ok"
    BY <1>11 DEF t, p
  <2> HIDE DEF shrunk
  <2> QED
    BY <1>11, <1>13, <2>1, Inserted
<1>15. right.heap.status = "ok"
  BY <1>14
<1>16. /\ right.footer + FooterSize = h.end
       /\ right.heap.index = <<>> /\ right.heap.end = h.end /\ right.heap.backed = h.backed
       /\ SizeOf(right.heap, a) = h.end - a
       /\ \A x \in Int : x < a + 8 => Read(right.heap, x) = Read(hole, x)
  <2>1. SizeOf(hole, a) = b - a
    <3>1. a + 8 \in Int /\ a + 8 # a + 4
      OBVIOUS
    <3>2. SizeOf(hole, a) = SizeOf(h, a)
      BY <1>6, <3>1 DEF SizeOf
    <3> QED
      BY <1>1, <3>2
  <2>2. \/ hole.index = <<>> /\ b = hole.end
        \/ hole.index = <<b>> /\ HoleIn(hole, b)
    <3>1. CASE h.index = <<>>
      BY <1>7, <3>1 DEF Top, b
    <3>2. ASSUME NEW c \in Int, h.index = <<c>>, HoleIn(h, c)
          PROVE  hole.index = <<b>> /\ HoleIn(hole, b)
      <4>1. b = c
        BY <3>2 DEF Top, b
      <4>2. c # a + 4 /\ c + 4 # a + 4 /\ c + 8 # a + 4
        BY <1>1, <4>1
      <4>3. Read(hole, c) = Read(h, c) /\ Read(hole, c + 4) = Read(h, c + 4)
            /\ Read(hole, c + 8) = Read(h, c + 8)
        BY <1>6, <4>2
      <4> QED
        BY <1>7, <3>2, <4>1, <4>3 DEF HoleIn, IsHole, SizeOf
    <3> QED
      BY <3>1, <3>2 DEF Tidy
  <2>3. a + 20 <= b
    BY <1>1
  <2> DEFINE r == unify_right(hole, a, b - FooterSize)
  <2>4. r = right
    BY <1>1, <1>10
  <2>5. r.heap.status = "ok"
    BY <1>15, <2>4
  <2>6. /\ r.heap \in Heaps /\ r.footer + FooterSize = hole.end
        /\ r.heap.index = <<>> /\ r.heap.end = hole.end /\ r.heap.backed = hole.backed
        /\ SizeOf(r.heap, a) = hole.end - a
        /\ \A x \in Int : x < a + 8 => Read(r.heap, x) = Read(hole, x)
    BY <1>1, <1>5, <1>7, <2>1, <2>2, <2>3, <2>5, RightJoins
  <2> HIDE DEF r, right
  <2> QED
    BY <1>7, <2>4, <2>6
<1> DEFINE g == right.heap
<1>17. shrunk = shrink(g, a, footer + FooterSize)
  BY <1>10, <1>15, <1>16
<1> HIDE DEF right, shrunk
<1>18. Read(g, a) = Magic /\ IsHole(g, a) = 1
  <2>1. Read(g, a) = Read(hole, a) /\ Read(g, a + 4) = Read(hole, a + 4)
    BY <1>16
  <2>2. Read(hole, a) = Read(h, a) /\ Read(hole, a + 4) = 1
    BY <1>6
  <2> QED
    BY <1>3, <2>1, <2>2 DEF IsHole
<1>19. Framed(g)
  BY <1>16 DEF Framed
<1>20. /\ shrunk.index = <<>> /\ shrunk.end = MinSize /\ Framed(shrunk)
       /\ shrunk.backed \subseteq g.backed
       /\ HoleIn(shrunk, a) /\ \A x \in Int : x < a => Read(shrunk, x) = Read(g, x)
  <2> DEFINE f == footer + FooterSize
  <2>1. shrink(g, a, f).status = "ok"
    BY <1>14, <1>17
  <2>2. g \in Heaps /\ g.status = "ok" /\ g.index = <<>> /\ SizeOf(g, a) = g.end - a
    BY <1>12, <1>15, <1>16
  <2> HIDE DEF f, g
  <2>3. LET s == shrink(g, a, f)
        IN  /\ s.index = <<>> /\ s.end = MinSize /\ Framed(s) /\ s.backed \subseteq g.backed
            /\ HoleIn(s, a) /\ \A x \in Int : x < a => Read(s, x) = Read(g, x)
    BY <1>18, <1>19, <2>1, <2>2, ShrinksLow
  <2> QED
    BY <1>17, <2>3 DEF f
<1>21. t.index = <<a>>
  <2>1. <<a>> \o <<>> = <<a>>
    BY ConcatEmptySeq
  <2> QED
    BY <1>14, <1>20, <2>1, Zenon
<1>22. HoleIn(t, a)
  <2>1. Read(t, a) = Read(shrunk, a) /\ Read(t, a + 4) = Read(shrunk, a + 4)
        /\ Read(t, a + 8) = Read(shrunk, a + 8)
    BY <1>14
  <2> QED
    BY <1>14, <1>20, <2>1 DEF HoleIn, IsHole, SizeOf
<1>23. Framed(t) /\ t.end = MinSize /\ t.backed \subseteq h.backed
  BY <1>14, <1>16, <1>20 DEF Framed
<1>24. Tidy(t)
  BY <1>1, <1>21, <1>22, <1>23 DEF Tidy, Framed
<1>25. ASSUME NEW x \in Int, x < a PROVE Read(t, x) = Read(h, x)
  <2>1. x < a + 8 /\ x # a + 4
    BY <1>25
  <2> QED
    BY <1>6, <1>14, <1>16, <1>20, <1>25, <2>1
<1>26. Top(t) = a
  BY <1>21 DEF Top
<1> QED
  BY <1>23, <1>24, <1>25, <1>26 DEF t, p

(* At first the whole heap is one hole. *)
LEMMA Starts ==
  ASSUME Init, status = "ok"
  PROVE  /\ heap.index = <<0>> /\ heap.end = InitialSize
         /\ heap.backed = -1 .. PageOf(InitialSize) - 1
         /\ HoleIn(heap, 0) /\ Read(heap, 0 - FooterSize) # Magic
<1> DEFINE headed == PutHeader(Unused, 0, 1, InitialSize)
<1>1. /\ InitialSize \in Int /\ InitialSize % 4096 = 0 /\ InitialSize >= 8192 /\ PageSize = 4096
  BY HeapAssumption
<1>2. headed \in Heaps /\ heap = insert_ordered_array(headed, 0) /\ heap.status = "ok"
  BY Created DEF heap
<1> HIDE DEF headed
<1>3. /\ headed.status = "ok" /\ heap.index = <<0>> \o headed.index
      /\ heap.end = headed.end /\ heap.backed = headed.backed
      /\ \A x \in Int : Read(heap, x) = Read(headed, x)
  BY <1>2, Inserted
<1>4. /\ Same(headed, Unused)
      /\ \A x \in Int : Read(headed, x) = IF x = 0 THEN Magic ELSE IF x = 0 + 4 THEN 1
                                   ELSE IF x = 0 + 8 THEN InitialSize ELSE Read(Unused, x)
  BY <1>1, <1>3, Created, HeaderPut DEF headed
<1>5. heap.index = <<0>> /\ heap.end = InitialSize /\ heap.backed = -1 .. PageOf(InitialSize) - 1
  <2>1. <<0>> \o <<>> = <<0>>
    BY ConcatEmptySeq
  <2> QED
    BY <1>3, <1>4, <2>1, Zenon DEF Same, Unused
<1>6. HoleIn(heap, 0)
  BY <1>1, <1>3, <1>4, <1>5 DEF HoleIn, IsHole, SizeOf, Overhead, HeaderSize, FooterSize
<1>7. Read(heap, 0 - FooterSize) # Magic
  <2>1. 0 - FooterSize \in Int /\ 0 - FooterSize = -8
    BY DEF FooterSize
  <2> DEFINE x == 0 - FooterSize
  <2> HIDE DEF x
  <2>2. x \in Int /\ x # 0 /\ x # 0 + 4 /\ x # 0 + 8
    BY <2>1 DEF x
  <2>3. Read(heap, x) = Read(Unused, x)
    BY <1>3, <1>4, <2>2
  <2>4. Read(Unused, x) = 0
    BY DEF Read, Unused
  <2> QED
    BY <2>3, <2>4 DEF Magic, x
<1> QED
  BY <1>5, <1>6, <1>7

(* create_heap lays the heap out: one hole, the whole heap. *)
LEMMA LayoutInit == Init => Layout
<1> SUFFICES ASSUME Init, status = "ok"
             PROVE  Tidy(heap) /\ Tabled(heap) /\ Stacked(heap, live) /\ Packed(heap, live)
  BY DEF Layout, Running
<1>1. /\ InitialSize \in Int /\ InitialSize % 4096 = 0 /\ InitialSize >= 8192 /\ PageSize = 4096
  BY HeapAssumption
<1>2. /\ heap.index = <<0>> /\ heap.end = InitialSize
      /\ heap.backed = -1 .. PageOf(InitialSize) - 1
      /\ HoleIn(heap, 0) /\ Read(heap, 0 - FooterSize) # Magic
  BY Starts
<1>3. Framed(heap)
  BY <1>1, <1>2 DEF PageOf, Framed
<1>4. heap.end % 4 = 0
  BY <1>1, <1>2
<1>5. Tidy(heap)
  BY <1>2, <1>3, <1>4 DEF Tidy
<1>6. Stacked(heap, live)
  BY DEF Init, Stacked
<1>7. Tabled(heap)
  <2> DEFINE w == workload.span
  <2>1. w \in Int /\ w % 4096 = 0 /\ InitialSize <= w
    BY HeapAssumption DEF Init
  <2> HIDE DEF w
  <2>2. \A q \in -1 .. PageOf(InitialSize) - 1 : q < PageOf(w)
    BY <1>1, <2>1 DEF PageOf
  <2> QED
    BY <1>2, <2>2 DEF Tabled, w
<1>8. Packed(heap, live)
  <2>1. live = <<>> /\ Len(live) = 0
    BY DEF Init
  <2>2. Top(heap) = 0
    BY <1>2 DEF Top
  <2> QED
    BY <1>2, <2>1, <2>2 DEF Packed, Below
<1> QED
  BY <1>5, <1>6, <1>7, <1>8

(* A growth that does not stop the machine is by as much as was asked for. *)
LEMMA GrowsBy ==
  ASSUME NEW h \in Heaps, NEW n \in Int, grow(h, n).status = "ok"
  PROVE  grow(h, n).end = h.end + n /\ n > 0
<1> DEFINE old == h.end
           e == expand(h, old + n)
           I == {i \in 1 .. Len(e.index) :
                   \A j \in 1 .. Len(e.index) : e.index[j] <= e.index[i]}
           last == IF I # {} THEN Min(I) ELSE 0
           header == e.index[last]
           size == GrownSize(e, header, e.end - old)
           headed == PutHeader(e, old, 1, n)
           made == PutFooter(headed, old + n - FooterSize, old)
           sized == PutSize(e, header, size)
           longer == PutFooter(sized, header + size - FooterSize, header)
           t == grow(h, n)
<1>1. t = IF e.status # "ok" THEN e
          ELSE IF last = 0 THEN insert_ordered_array(made, old) ELSE longer
  BY DEF grow, FirstWhere, SelectInSeq
<1>2. t.status = "ok"
  OBVIOUS
<1>3. old \in Int /\ old + n \in Int /\ old + n - FooterSize \in Int
  BY Parts DEF FooterSize
<1>4. e \in Heaps /\ e.status = "ok"
  BY <1>1, <1>2, <1>3, Expands
<1>5. e.end = old + n /\ n > 0
  <2>1. e.end = old + n /\ old + n > old
    BY <1>3, <1>4, Expands
  <2> HIDE DEF e, old
  <2> QED
    BY <1>3, <2>1
<1>6. last \in {0} \cup I /\ I \subseteq 1 .. Len(e.index)
  <2>1. Len(e.index) \in Nat /\ I \in SUBSET (1 .. Len(e.index))
    BY <1>4, Parts
  <2> HIDE DEF I
  <2> QED
    BY <2>1, Least
<1> HIDE DEF t, e, I, last, old
<1>7. CASE last = 0
  <2>1. headed \in Heaps
    BY <1>3, <1>4, PutHeaderHeap
  <2> HIDE DEF headed
  <2>2. made \in Heaps
    BY <1>3, <2>1, PutFooterHeap
  <2> HIDE DEF made
  <2>3. made.status = "ok" /\ t.end = made.end
    BY <1>1, <1>2, <1>3, <1>4, <1>7, <2>2, Inserted
  <2>4. Same(made, headed)
    BY <1>3, <2>1, <2>3, FooterPut DEF made
  <2>5. Same(headed, e)
    BY <1>3, <1>4, <2>4, HeaderPut DEF headed, Same
  <2> QED
    BY <1>5, <2>3, <2>4, <2>5 DEF Same, t, old
<1>8. CASE last # 0
  <2>1. header \in Int
    <3>1. last \in 1 .. Len(e.index) /\ e.index \in Seq(Int)
      BY <1>4, <1>6, <1>8, Parts
    <3> QED
      BY <3>1
  <2> HIDE DEF header
  <2>2. size \in Int
    <3>1. SizeOf(e, header) \in Int /\ e.end \in Int
      BY <1>4, ReadInt, Parts DEF SizeOf
    <3> QED
      BY <1>3, <3>1 DEF GrownSize
  <2> HIDE DEF size
  <2>3. sized \in Heaps /\ header + size - FooterSize \in Int
    BY <1>4, <2>1, <2>2, PutSizeHeap DEF FooterSize
  <2> HIDE DEF sized
  <2>4. t = longer
    BY <1>1, <1>4, <1>8
  <2>5. Same(t, sized)
    BY <1>2, <2>1, <2>3, <2>4, FooterPut
  <2>6. Same(sized, e)
    BY <1>4, <2>1, <2>2, <2>5, SizePut DEF sized, Same
  <2> QED
    BY <1>5, <2>5, <2>6 DEF Same, t, old
<1> QED
  BY <1>7, <1>8

(* Blocks stay packed while their sizes stay, and nothing new is below the first. *)
LEMMA PackKept ==
  ASSUME NEW h, NEW t, NEW s, NEW T, s \in Seq(T), Packed(h, s), Top(t) = Top(h),
         \A k \in 1 .. Len(s) : SizeOf(t, HeaderOfBlock(s[k])) = SizeOf(h, HeaderOfBlock(s[k])),
         Read(t, 0 - FooterSize) = Read(h, 0 - FooterSize)
  PROVE  Packed(t, s)
<1>1. Len(s) \in Nat
  OBVIOUS
<1>2. \A k \in 1 .. Len(s) + 1 : Below(t, s, k) = Below(h, s, k)
  <2> SUFFICES ASSUME NEW k \in 1 .. Len(s) + 1, k # 1 PROVE EndOf(t, s[k - 1]) = EndOf(h, s[k - 1])
    BY DEF Below
  <2>1. k - 1 \in 1 .. Len(s)
    BY <1>1
  <2> QED
    BY <2>1 DEF EndOf
<1> QED
  BY <1>1, <1>2 DEF Packed

(* A growth keeps the layout, and then there is a hole that fits: alloc calls
   itself once (kernelheap.c:176-224).  *)
LEMMA LayoutGrow ==
  ASSUME Sound, Layout, Orderly, Grow, Running', OneTable'
  PROVE  /\ Tidy(heap)' /\ Tabled(heap)' /\ Stacked(heap, live)' /\ Packed(heap, live)'
         /\ (Fitting # 0)'
<1> DEFINE n == request.size + Overhead
           t == grow(heap, n)
           a == Top(heap)
<1>1. heap \in Heaps /\ workload \in Workloads
  BY DEF Sound
<1>2. request.size \in workload.sizes /\ request.align \in workload.aligns
  BY DEF Sound, Grow
<1>3. n \in Int /\ n >= Overhead /\ n % 4 = 0 /\ n >= 0
  BY <1>1, <1>2, Sizes DEF Overhead, HeaderSize, FooterSize
<1>4. heap' = t
  BY <1>1, <1>3, Grows, Becomes DEF Grow
<1>5. t.status = "ok" /\ t.end <= workload.span /\ t \in Heaps
  BY <1>1, <1>3, <1>4, Grows DEF heap, OneTable, Running, Grow
<1>6. t.end = heap.end + n /\ n > 0
  BY <1>1, <1>3, <1>5, GrowsBy
<1>7. Running /\ heap.end + n <= workload.span
  BY <1>5, <1>6 DEF Running, Grow
<1>8. Tidy(heap) /\ Tabled(heap) /\ Stacked(heap, live) /\ Packed(heap, live)
  BY <1>7 DEF Layout
<1> HIDE DEF n
<1>9. /\ t.end = heap.end + n /\ Tidy(t) /\ Tabled(t) /\ t.index = <<a>> /\ a \in Int
      /\ HoleIn(t, a) /\ SizeOf(t, a) >= n
      /\ \A x \in Int : x < a => Read(t, x) = Read(heap, x)
  BY <1>1, <1>3, <1>5, <1>7, <1>8, GrowsPlain
<1> HIDE DEF t, a
<1>10. Top(t) = a
  BY <1>9 DEF Top
<1>11. Stacked(t, live) /\ Packed(t, live)
  <2>1. ASSUME NEW k \in 1 .. Len(live)
        PROVE  LET b == HeaderOfBlock(live[k])
               IN  /\ b >= 0 /\ BlockIn(t, b, live[k].size)
                   /\ b + SizeOf(t, b) <= Top(t) /\ SizeOf(t, b) = SizeOf(heap, b)
    <3> DEFINE b == HeaderOfBlock(live[k])
    <3>1. live[k] \in Given(workload)
      BY DEF Sound
    <3>2. b \in Int /\ live[k].size \in Int /\ live[k].size >= 0
      BY <1>1, <3>1, Sizes DEF Given, HeaderOfBlock, HeaderSize
    <3>3. b >= 0 /\ BlockIn(heap, b, live[k].size) /\ b + SizeOf(heap, b) <= a
      BY <1>8 DEF Stacked, a
    <3> HIDE DEF b
    <3>4. BlockIn(t, b, live[k].size) /\ SizeOf(t, b) = SizeOf(heap, b)
      BY <1>1, <1>5, <1>9, <3>2, <3>3, BlockKept
    <3> QED
      BY <1>10, <3>3, <3>4 DEF b
  <2>2. Stacked(t, live)
    BY <1>8, <2>1 DEF Stacked
  <2>3. Read(t, 0 - FooterSize) = Read(heap, 0 - FooterSize)
    <3>1. 0 - FooterSize \in Int /\ 0 - FooterSize < a
      BY <1>9 DEF HoleIn, FooterSize
    <3> QED
      BY <1>9, <3>1
  <2>4. Top(heap) = a
    BY DEF a
  <2>5. Packed(t, live)
    BY <1>1, <1>8, <1>10, <2>1, <2>3, <2>4, PackKept DEF Sound
  <2> QED
    BY <2>2, <2>5
<1>12. Stacked(heap, live)' /\ Packed(heap, live)'
  BY <1>4, <1>11 DEF Grow
<1>13. Tidy(heap)' /\ Tabled(heap)'
  <2>1. workload' = workload
    BY DEF Grow
  <2> QED
    BY <1>4, <1>9, <2>1 DEF Tidy, Tabled
<1>14. (Fitting # 0)'
  <2>1. request' = request /\ request.align = FALSE
    BY <1>2 DEF Grow, Orderly, LastFirst
  <2>2. find_smallest_hole(t, n, FALSE) # 0
    <3>1. SizeOf(t, a) >= 0 /\ SizeOf(t, a) >= n
      <4>1. SizeOf(t, a) >= Overhead
        BY <1>9 DEF HoleIn
      <4>2. SizeOf(t, a) \in Int
        BY <1>5, ReadInt DEF SizeOf
      <4> QED
        BY <1>9, <4>1, <4>2 DEF Overhead, HeaderSize, FooterSize
    <3> QED
      BY <1>3, <1>5, <1>9, <3>1, FitsEnough
  <2> QED
    BY <1>4, <2>1, <2>2 DEF Fitting, n
<1> QED
  BY <1>12, <1>13, <1>14

(* No write moves the end of the heap. *)
LEMMA WriteEnd == ASSUME NEW h, NEW a, NEW v PROVE Write(h, a, v).end = h.end
BY DEF Write, Touch, Stop

(* A header does not move the end of the heap. *)
LEMMA HeaderEnd == ASSUME NEW h, NEW a, NEW k, NEW n PROVE PutHeader(h, a, k, n).end = h.end
<1> DEFINE first == Write(h, a, Magic)
           second == Write(first, a + 4, k)
           third == Write(second, a + 8, n)
<1>1. first.end = h.end /\ second.end = first.end /\ third.end = second.end
  BY WriteEnd
<1>2. PutHeader(h, a, k, n) = third
  BY DEF PutHeader, PutSize
<1> HIDE DEF first, second, third
<1> QED
  BY <1>1, <1>2

(* A footer does not move the end of the heap. *)
LEMMA FooterEnd == ASSUME NEW h, NEW a, NEW b PROVE PutFooter(h, a, b).end = h.end
<1> DEFINE first == Write(h, a, Magic)
           second == Write(first, a + 4, b)
<1>1. first.end = h.end /\ second.end = first.end
  BY WriteEnd
<1>2. PutFooter(h, a, b) = second
  BY DEF PutFooter
<1> HIDE DEF first, second
<1> QED
  BY <1>1, <1>2

(* Placing a block does not move the end of the heap. *)
LEMMA PlaceEnd == ASSUME NEW h, NEW i, NEW n, NEW page_align
                  PROVE  place(h, i, n, page_align).end = h.end
<1>1. ASSUME NEW g, NEW a PROVE insert_ordered_array(g, a).end = g.end
  BY DEF insert_ordered_array
<1>2. ASSUME NEW g, NEW j PROVE remove_ordered_array(g, j).end = g.end
  BY DEF remove_ordered_array
<1>3. ASSUME NEW g, NEW a PROVE split_front(g, a).end = g.end
  <2> DEFINE headed == PutHeader(g, a, 1, FrontSize(a))
             footed == PutFooter(headed, a + FrontSize(a) - FooterSize, a)
  <2>1. headed.end = g.end
    BY HeaderEnd
  <2>2. split_front(g, a) = footed
    BY DEF split_front
  <2> HIDE DEF headed
  <2>3. footed.end = headed.end
    BY FooterEnd
  <2> HIDE DEF footed
  <2> QED
    BY <2>1, <2>2, <2>3
<1>4. ASSUME NEW g, NEW a, NEW m PROVE split_back(g, a, m).end = g.end
  <2> DEFINE headed == PutHeader(g, a, 1, m)
             footed == PutFooter(headed, a + m - FooterSize, a)
             ended == IF a + m - FooterSize < g.end THEN footed ELSE headed
             whole == insert_ordered_array(ended, a)
  <2>1. headed.end = g.end
    BY HeaderEnd
  <2>2. split_back(g, a, m) = IF m = 0 THEN g ELSE whole
    BY DEF split_back
  <2> HIDE DEF headed
  <2>3. footed.end = headed.end
    BY FooterEnd
  <2> HIDE DEF footed
  <2>4. ended.end = g.end
    BY <2>1, <2>3
  <2> HIDE DEF ended
  <2>5. whole.end = ended.end
    BY <1>1
  <2> HIDE DEF whole
  <2> QED
    BY <2>2, <2>4, <2>5
<1> DEFINE hole == h.index[i]
           orig == SizeOf(h, hole)
           size == n + Absorbed(orig, n + Overhead)
           new_size == size + Overhead
           split == split_front(h, hole)
           removed == remove_ordered_array(h, i)
           opened == IF page_align THEN split ELSE removed
           rest == IF page_align THEN Rest(orig, SizeOf(opened, hole)) ELSE orig
           block == BlockAt(hole, page_align)
           headed == PutHeader(opened, block, 0, new_size)
           taken == PutFooter(headed, block + HeaderSize + size, block)
           t == split_back(taken, BackAt(block, new_size), rest - new_size)
<1>5. place(h, i, n, page_align) = t
  BY DEF place
<1>6. split.end = h.end /\ removed.end = h.end
  BY <1>2, <1>3
<1> HIDE DEF split, removed
<1>7. opened.end = h.end
  BY <1>6
<1> HIDE DEF opened
<1>8. headed.end = opened.end
  BY HeaderEnd
<1> HIDE DEF headed
<1>9. taken.end = headed.end
  BY FooterEnd
<1> HIDE DEF taken
<1>10. t.end = taken.end
  BY <1>4
<1> HIDE DEF t
<1> QED
  BY <1>5, <1>7, <1>8, <1>9, <1>10

(* A block that takes the place of the hole goes on top of the stack. *)
LEMMA StackGrows ==
  ASSUME NEW h \in Heaps, NEW t \in Heaps, workload \in Workloads,
         NEW s \in Seq(Given(workload)), NEW b \in Given(workload), b.size >= 0,
         NEW a \in Int, a >= 0, HeaderOfBlock(b) = a, Top(h) = a, Stacked(h, s),
         BlockIn(t, a, b.size), a + SizeOf(t, a) = Top(t), Top(t) \in Int,
         \A x \in Int : x < a => Read(t, x) = Read(h, x)
  PROVE  /\ Stacked(t, Append(s, b))
         /\ \A k \in 1 .. Len(s) : SizeOf(t, HeaderOfBlock(s[k])) = SizeOf(h, HeaderOfBlock(s[k]))
<1> DEFINE n == Len(s)
           more == Append(s, b)
<1>1. n \in Nat /\ Len(more) = n + 1 /\ more[n + 1] = b /\ \A k \in 1 .. n : more[k] = s[k]
  BY AppendProperties
<1>2. SizeOf(t, a) \in Int /\ SizeOf(t, a) >= 20 /\ Top(t) > a
  <2>1. SizeOf(t, a) \in Int
    BY ReadInt DEF SizeOf
  <2>2. SizeOf(t, a) >= b.size + 20 /\ b.size \in Int
    BY Sizes DEF BlockIn, Given, Overhead, HeaderSize, FooterSize
  <2> QED
    BY <2>1, <2>2
<1>3. ASSUME NEW k \in 1 .. n
      PROVE  LET c == HeaderOfBlock(s[k])
             IN  /\ c \in Int /\ c >= 0 /\ BlockIn(t, c, s[k].size)
                 /\ SizeOf(t, c) = SizeOf(h, c) /\ c + SizeOf(t, c) <= a
                 /\ c + SizeOf(t, c) \in Int
  <2> DEFINE c == HeaderOfBlock(s[k])
  <2>1. s[k] \in Given(workload)
    OBVIOUS
  <2>2. c \in Int /\ s[k].size \in Int /\ s[k].size >= 0
    <3> DEFINE r == s[k]
    <3>1. r.p \in Int /\ r.size \in workload.sizes
      BY <2>1 DEF Given
    <3> HIDE DEF r
    <3> QED
      BY <3>1, Sizes DEF r, HeaderOfBlock, HeaderSize
  <2>3. c >= 0 /\ BlockIn(h, c, s[k].size) /\ c + SizeOf(h, c) <= a
    BY DEF Stacked
  <2>4. SizeOf(h, c) \in Int
    BY ReadInt DEF SizeOf
  <2> HIDE DEF c
  <2>5. BlockIn(t, c, s[k].size) /\ SizeOf(t, c) = SizeOf(h, c)
    BY <2>2, <2>3, BlockKept
  <2> QED
    BY <2>2, <2>3, <2>4, <2>5 DEF c
<1>6. \A k \in 1 .. Len(s) : SizeOf(t, HeaderOfBlock(s[k])) = SizeOf(h, HeaderOfBlock(s[k]))
  BY <1>3
<1> HIDE DEF n, more
<1>4. ASSUME NEW k \in 1 .. Len(more)
      PROVE  LET c == HeaderOfBlock(more[k])
             IN  /\ c >= 0 /\ BlockIn(t, c, more[k].size) /\ c + SizeOf(t, c) <= Top(t)
  <2>1. CASE k = n + 1
    BY <1>1, <1>2, <2>1
  <2>2. CASE k # n + 1
    <3>1. k \in 1 .. n /\ more[k] = s[k]
      BY <1>1, <2>2
    <3> DEFINE c == HeaderOfBlock(s[k])
    <3>2. /\ c >= 0 /\ BlockIn(t, c, s[k].size) /\ c + SizeOf(t, c) <= a
          /\ c + SizeOf(t, c) \in Int
      BY <1>3, <3>1
    <3> HIDE DEF c
    <3>3. c + SizeOf(t, c) <= Top(t)
      BY <1>2, <3>2
    <3> QED
      BY <3>1, <3>2, <3>3 DEF c
  <2> QED
    BY <2>1, <2>2
<1>5. ASSUME NEW j \in 1 .. Len(more), NEW k \in 1 .. Len(more), j < k
      PROVE  HeaderOfBlock(more[j]) + SizeOf(t, HeaderOfBlock(more[j])) <= HeaderOfBlock(more[k])
  <2>1. j \in 1 .. n /\ more[j] = s[j]
    BY <1>1, <1>5
  <2>2. CASE k = n + 1
    BY <1>1, <1>3, <2>1, <2>2
  <2>3. CASE k # n + 1
    <3>1. k \in 1 .. n /\ more[k] = s[k]
      BY <1>1, <2>3
    <3>2. HeaderOfBlock(s[j]) + SizeOf(h, HeaderOfBlock(s[j])) <= HeaderOfBlock(s[k])
      BY <1>5, <2>1, <3>1 DEF Stacked, n
    <3> QED
      BY <1>3, <2>1, <3>1, <3>2
  <2> QED
    BY <2>2, <2>3
<1> QED
  BY <1>4, <1>5, <1>6 DEF Stacked, more

(* And no byte is between it and the block below. *)
LEMMA PackGrows ==
  ASSUME NEW h, NEW t, NEW T, NEW s \in Seq(T), NEW b \in T, Packed(h, s),
         HeaderOfBlock(b) = Top(h), EndOf(t, b) = Top(t),
         \A k \in 1 .. Len(s) : SizeOf(t, HeaderOfBlock(s[k])) = SizeOf(h, HeaderOfBlock(s[k])),
         Read(t, 0 - FooterSize) = Read(h, 0 - FooterSize)
  PROVE  Packed(t, Append(s, b))
<1> DEFINE n == Len(s)
           more == Append(s, b)
<1>1. n \in Nat /\ Len(more) = n + 1 /\ more[n + 1] = b /\ \A k \in 1 .. n : more[k] = s[k]
  BY AppendProperties
<1> HIDE DEF more
<1>2. \A k \in 1 .. n + 1 : Below(t, more, k) = Below(h, s, k)
  <2> SUFFICES ASSUME NEW k \in 1 .. n + 1, k # 1
               PROVE  EndOf(t, more[k - 1]) = EndOf(h, s[k - 1])
    BY DEF Below
  <2>1. k - 1 \in 1 .. n
    BY <1>1
  <2> QED
    BY <1>1, <2>1 DEF EndOf
<1>3. \A k \in 1 .. n + 1 : HeaderOfBlock(more[k]) = Below(h, s, k)
  BY <1>1 DEF Packed
<1>4. Top(t) = Below(t, more, n + 2)
  <2>1. n + 2 # 1 /\ n + 2 - 1 = n + 1
    BY <1>1
  <2> QED
    BY <1>1, <2>1 DEF Below
<1>5. n + 1 + 1 = n + 2
  BY <1>1
<1> QED
  BY <1>1, <1>2, <1>3, <1>4, <1>5 DEF Packed, more

(* Placing a block keeps the layout: it goes on top of the stack, and the hole
   above it (kernelheap.c:227-288).  *)
LEMMA LayoutPlace ==
  ASSUME Sound, Layout, Orderly, Place, Running'
  PROVE  /\ Tidy(heap)' /\ Tabled(heap)' /\ Stacked(heap, live)' /\ Packed(heap, live)'
         /\ end_address' = end_address
         /\ \E b \in Given(workload) : live' = Append(live, b)
<1> DEFINE n == request.size
           p == BlockAt(index[Fitting], request.align) + HeaderSize
           b == [p |-> p, size |-> n, align |-> request.align]
           placed == place(heap, Fitting, n, request.align)
           t == Fill(placed, p, n)
<1>1. heap \in Heaps /\ workload \in Workloads /\ workload' = workload /\ index = heap.index
  BY DEF Sound, Place, heap
<1>2. n \in workload.sizes /\ request.align \in workload.aligns /\ request.align \in {FALSE}
  BY <1>1 DEF Sound, Place, Orderly, LastFirst
<1>3. n \in Int /\ n >= 4 /\ request.align = FALSE
  BY <1>1, <1>2, Sizes
<1>4. Running
  BY DEF Place, Running
<1>5. placed.status = "ok" /\ Become(t) /\ live' = Append(live, b)
  <2> HIDE DEF placed, p, n
  <2>1. \/ placed.status = "ok" /\ Become(t) /\ live' = Append(live, b)
        \/ placed.status # "ok" /\ Become(placed)
    BY Zenon DEF Place, placed, p, n
  <2> QED
    BY <2>1 DEF Become, Running
<1>6. end_address' = end_address
  <2> HIDE DEF placed
  <2>1. t.end = placed.end
    BY DEF Fill
  <2>2. placed.end = heap.end
    BY PlaceEnd DEF placed
  <2> QED
    BY <1>5, <2>1, <2>2 DEF Become, heap
<1>7. Tidy(heap) /\ Tabled(heap) /\ Stacked(heap, live) /\ Packed(heap, live)
  BY <1>4 DEF Layout
<1>8. Fitting = find_smallest_hole(heap, n + Overhead, FALSE) /\ Fitting # 0
  BY <1>3 DEF Fitting, Place
<1>9. Fitting \in 0 .. Len(index)
  BY <1>1, <1>8, Fits
<1>10. index # <<>>
  <2> DEFINE f == Fitting
  <2>1. f \in 0 .. Len(index) /\ f # 0
    BY <1>8, <1>9
  <2> HIDE DEF f
  <2>2. Len(<<>>) = 0
    OBVIOUS
  <2> SUFFICES ASSUME index = <<>> PROVE FALSE
    OBVIOUS
  <2>3. f \in 0 .. 0
    BY <2>1, <2>2
  <2> QED
    BY <2>1, <2>3
<1>11. PICK a \in Int : index = <<a>> /\ HoleIn(heap, a)
  BY <1>1, <1>7, <1>10 DEF Tidy
<1>12. Fitting = 1 /\ index[Fitting] = a /\ a >= 0
  <2>1. Len(index) = 1 /\ index[1] = a
    BY <1>11
  <2> DEFINE f == Fitting
  <2>2. f \in 0 .. Len(index) /\ f # 0
    BY <1>8, <1>9
  <2> HIDE DEF f
  <2>3. f = 1
    BY <2>1, <2>2
  <2>4. a >= 0
    BY <1>11 DEF HoleIn
  <2> QED
    BY <2>1, <2>3, <2>4 DEF f
<1>13. SizeOf(heap, a) >= n + Overhead
  <2>1. n + Overhead \in Int /\ n + Overhead >= 0
    BY <1>3 DEF Overhead, HeaderSize, FooterSize
  <2>2. SizeOf(heap, a) >= 0
    <3>1. SizeOf(heap, a) \in Int
      BY <1>1, ReadInt DEF SizeOf
    <3> QED
      BY <1>11, <3>1 DEF HoleIn, Overhead, HeaderSize, FooterSize
  <2>3. heap.index = <<a>>
    BY <1>1, <1>11
  <2> HIDE DEF n
  <2> QED
    BY <1>1, <1>8, <2>1, <2>2, <2>3, FitsEnough
<1>14. p = a + HeaderSize /\ placed = place(heap, 1, n, FALSE)
  BY <1>3, <1>12 DEF BlockAt
<1>15. n >= 0
  <2> HIDE DEF n
  <2> QED
    BY <1>3
<1> HIDE DEF n
<1>16. /\ t.end = heap.end /\ t.backed = heap.backed /\ Tidy(t) /\ BlockIn(t, a, n)
       /\ a + SizeOf(t, a) = Top(t) /\ Top(t) \in Int
       /\ \A x \in Int : x < a => Read(t, x) = Read(heap, x)
  <2> DEFINE there == place(heap, 1, n, FALSE)
             full == Fill(there, a + HeaderSize, n)
  <2>1. there.status = "ok" /\ heap.index = <<a>>
    BY <1>1, <1>5, <1>11, <1>14
  <2>2. t = full
    BY <1>14 DEF t
  <2>3. heap \in Heaps /\ Tidy(heap) /\ HoleIn(heap, a) /\ n \in Int
    BY <1>1, <1>3, <1>7, <1>11
  <2>4. /\ full.end = heap.end /\ full.backed = heap.backed /\ Tidy(full) /\ BlockIn(full, a, n)
        /\ a + SizeOf(full, a) = Top(full) /\ Top(full) \in Int
        /\ \A x \in Int : x < a => Read(full, x) = Read(heap, x)
    BY <1>13, <1>15, <2>1, <2>3, FillsPlain
  <2> HIDE DEF t, full
  <2> QED
    BY <2>2, <2>4
<1>17. t \in Heaps
  <2>1. 1 \in 1 .. Len(heap.index)
    BY <1>1, <1>11
  <2>2. placed \in Heaps
    BY <1>1, <1>3, <1>14, <2>1, Places
  <2> HIDE DEF placed, p
  <2> QED
    BY <2>2, FillHeap
<1>18. heap' = t
  BY <1>5, <1>17, Becomes
<1>19. b \in Given(workload)
  <2>1. p \in Int
    BY <1>14 DEF HeaderSize
  <2> HIDE DEF p
  <2> QED
    BY <1>2, <1>3, <2>1 DEF Given
<1>20. HeaderOfBlock(b) = a /\ b.size = n
  BY <1>14 DEF HeaderOfBlock, HeaderSize
<1>21. Top(heap) = a
  BY <1>1, <1>11 DEF Top
<1> HIDE DEF t, b
<1>22. live \in Seq(Given(workload))
  BY DEF Sound
<1>23. /\ Stacked(t, Append(live, b))
       /\ \A k \in 1 .. Len(live) :
            SizeOf(t, HeaderOfBlock(live[k])) = SizeOf(heap, HeaderOfBlock(live[k]))
  <2>1. heap \in Heaps /\ workload \in Workloads /\ b.size >= 0 /\ BlockIn(t, a, b.size)
    BY <1>1, <1>15, <1>16, <1>20
  <2>2. a >= 0 /\ Stacked(heap, live)
    BY <1>7, <1>12
  <2> QED
    BY <1>16, <1>17, <1>19, <1>20, <1>21, <1>22, <2>1, <2>2, StackGrows
<1>26. Packed(t, Append(live, b))
  <2>1. Read(t, 0 - FooterSize) = Read(heap, 0 - FooterSize)
    <3>1. 0 - FooterSize \in Int /\ 0 - FooterSize < a
      BY <1>12 DEF FooterSize
    <3> QED
      BY <1>16, <3>1
  <2>2. EndOf(t, b) = Top(t)
    BY <1>16, <1>20 DEF EndOf
  <2> QED
    BY <1>7, <1>19, <1>20, <1>21, <1>22, <1>23, <2>1, <2>2, PackGrows
<1>24. Stacked(heap, live)' /\ Packed(heap, live)'
  BY <1>5, <1>18, <1>23, <1>26
<1>25. Tidy(heap)' /\ Tabled(heap)'
  BY <1>1, <1>7, <1>16, <1>18 DEF Tidy, Tabled
<1> QED
  BY <1>5, <1>6, <1>19, <1>24, <1>25

(* Without its last element a sequence has the others where they were. *)
LEMMA LastOut ==
  ASSUME NEW T, NEW s \in Seq(T), Len(s) # 0
  PROVE  LET u == RemoveAt(s, Len(s))
         IN  /\ u \in Seq(T) /\ Len(u) = Len(s) - 1
             /\ \A k \in 1 .. Len(s) - 1 : u[k] = s[k]
<1> DEFINE n == Len(s)
           f == SubSeq(s, 1, n - 1)
<1>1. n \in Nat /\ n \in 1 .. n
  OBVIOUS
<1>2. f \in Seq(T) /\ Len(f) = n - 1 /\ \A k \in 1 .. n - 1 : f[k] = s[k]
  <2>1. 1 \in 1 .. Len(s) + 1 /\ n - 1 \in 0 .. Len(s)
    BY <1>1
  <2>2. /\ f \in Seq(T) /\ Len(f) = IF 1 <= n - 1 THEN n - 1 - 1 + 1 ELSE 0
        /\ \A k \in 1 .. n - 1 - 1 + 1 : f[k] = s[1 + k - 1]
    BY <2>1, SubSeqProperties
  <2> HIDE DEF f
  <2> DEFINE m == Len(f)
  <2>3. m = n - 1
    <3>1. m = IF 1 <= n - 1 THEN n - 1 - 1 + 1 ELSE 0
      BY <2>2
    <3>2. n \in Int /\ n >= 1
      BY <1>1
    <3> HIDE DEF m, n
    <3> QED
      BY <3>1, <3>2
  <2>4. ASSUME NEW k \in 1 .. n - 1 PROVE f[k] = s[k]
    <3>1. k \in 1 .. n - 1 - 1 + 1 /\ 1 + k - 1 = k
      BY <1>1
    <3> QED
      BY <2>2, <3>1
  <2> QED
    BY <2>2, <2>3, <2>4
<1>3. RemoveAt(s, n) = f
  <2>1. SubSeq(s, n + 1, n) = <<>>
    BY <1>1, SubSeqEmpty
  <2>2. RemoveAt(s, n) = f \o <<>>
    BY <2>1, Zenon DEF RemoveAt
  <2> HIDE DEF f
  <2> QED
    BY <1>2, <2>2, ConcatEmptySeq
<1> HIDE DEF f
<1> QED
  BY <1>2, <1>3

(* When the block on top goes, the others stay as they are. *)
LEMMA StackShrinks ==
  ASSUME NEW h \in Heaps, NEW t \in Heaps, workload \in Workloads,
         NEW s \in Seq(Given(workload)), Len(s) # 0, Stacked(h, s), Packed(h, s),
         Top(t) = HeaderOfBlock(s[Len(s)]),
         \A x \in Int : x < Top(t) => Read(t, x) = Read(h, x)
  PROVE  LET u == RemoveAt(s, Len(s)) IN Stacked(t, u) /\ Packed(t, u)
<1> DEFINE n == Len(s)
           u == RemoveAt(s, n)
           a == HeaderOfBlock(s[n])
<1>1. n \in Nat /\ n \in 1 .. n /\ Len(u) = n - 1 /\ \A k \in 1 .. n - 1 : u[k] = s[k]
  <2> HIDE DEF u
  <2> QED
    BY LastOut DEF u
<1>2. ASSUME NEW k \in 1 .. n
      PROVE  HeaderOfBlock(s[k]) \in Int /\ s[k].size \in Int /\ s[k].size >= 0
  <2> DEFINE r == s[k]
  <2>1. r \in Given(workload)
    OBVIOUS
  <2>2. r.p \in Int /\ r.size \in workload.sizes
    BY <2>1 DEF Given
  <2> HIDE DEF r
  <2> QED
    BY <2>2, Sizes DEF r, HeaderOfBlock, HeaderSize
<1>3. a \in Int /\ a >= 0 /\ Top(t) = a
  BY <1>1, <1>2 DEF Stacked
<1>4. ASSUME NEW k \in 1 .. n - 1
      PROVE  LET c == HeaderOfBlock(s[k])
             IN  /\ c \in Int /\ c >= 0 /\ BlockIn(t, c, s[k].size)
                 /\ SizeOf(t, c) = SizeOf(h, c) /\ c + SizeOf(h, c) <= a
  <2> DEFINE c == HeaderOfBlock(s[k])
  <2>1. k \in 1 .. n /\ k < n
    BY <1>1
  <2>2. c \in Int /\ s[k].size \in Int /\ s[k].size >= 0
    BY <1>2, <2>1
  <2>3. c >= 0 /\ BlockIn(h, c, s[k].size) /\ c + SizeOf(h, c) <= a
    BY <1>1, <2>1 DEF Stacked
  <2> HIDE DEF c, a
  <2>4. BlockIn(t, c, s[k].size) /\ SizeOf(t, c) = SizeOf(h, c)
    BY <1>3, <2>2, <2>3, BlockKept
  <2> QED
    BY <2>2, <2>3, <2>4 DEF c
<1> HIDE DEF a, u
<1>5. Stacked(t, u)
  <2>1. ASSUME NEW j \in 1 .. n - 1, NEW k \in 1 .. n - 1, j < k
        PROVE  HeaderOfBlock(s[j]) + SizeOf(t, HeaderOfBlock(s[j])) <= HeaderOfBlock(s[k])
    <3>1. j \in 1 .. n /\ k \in 1 .. n
      BY <1>1
    <3> QED
      BY <1>4, <2>1, <3>1 DEF Stacked
  <2>2. ASSUME NEW k \in 1 .. n - 1
        PROVE  HeaderOfBlock(s[k]) + SizeOf(t, HeaderOfBlock(s[k])) <= Top(t)
    BY <1>3, <1>4
  <2> QED
    BY <1>1, <1>4, <2>1, <2>2 DEF Stacked
<1>6. Packed(t, u)
  <2>1. \A k \in 1 .. n : Below(t, u, k) = Below(h, s, k)
    <3> SUFFICES ASSUME NEW k \in 1 .. n, k # 1 PROVE EndOf(t, u[k - 1]) = EndOf(h, s[k - 1])
      BY DEF Below
    <3>1. k - 1 \in 1 .. n - 1
      BY <1>1
    <3> QED
      BY <1>1, <1>4, <3>1 DEF EndOf
  <2>2. \A k \in 1 .. n - 1 : k \in 1 .. n
    BY <1>1
  <2>3. n - 1 + 1 = n
    BY <1>1
  <2>4. Read(t, 0 - FooterSize) = Read(h, 0 - FooterSize)
    BY <1>3 DEF FooterSize
  <2>5. a = Below(h, s, n)
    BY <1>1 DEF Packed, a
  <2> QED
    BY <1>1, <1>3, <2>1, <2>2, <2>3, <2>4, <2>5 DEF Packed
<1> QED
  BY <1>5, <1>6 DEF u

(* Freeing the block on top keeps the layout: with what is above it it becomes
   the only hole, at the end of a heap of the least size (kernelheap.c:292-378). *)
LEMMA LayoutFree ==
  ASSUME Sound, Layout, Orderly, NEW i \in 1 .. Len(live), Free(i), Running'
  PROVE  /\ Tidy(heap)' /\ Tabled(heap)' /\ Stacked(heap, live)' /\ Packed(heap, live)'
         /\ end_address' = MinSize
<1> DEFINE n == Len(live)
           b == live[n]
           a == HeaderOfBlock(b)
           t == free(heap, b.p)
<1>1. heap \in Heaps /\ workload \in Workloads /\ live \in Seq(Given(workload))
  BY DEF Sound
<1>2. i = n /\ workload.frees = "lifo" /\ n \in Nat /\ n # 0 /\ n \in 1 .. n
  BY <1>1 DEF Free, Orderly, LastFirst
<1>3. a + Overhead <= MinSize
  BY <1>2 DEF Orderly, LastFirst
<1>4. heap.status = "ok" /\ Running
  BY DEF Free, heap, Running
<1>5. Tidy(heap) /\ Tabled(heap) /\ Stacked(heap, live) /\ Packed(heap, live)
  BY <1>4 DEF Layout
<1>6. ASSUME NEW k \in 1 .. n
      PROVE  HeaderOfBlock(live[k]) \in Int /\ live[k].size \in Int /\ live[k].size >= 0
             /\ live[k].p = HeaderOfBlock(live[k]) + HeaderSize
  <2> DEFINE r == live[k]
  <2>1. r \in Given(workload)
    BY <1>1
  <2>2. r.p \in Int /\ r.size \in workload.sizes
    BY <2>1 DEF Given
  <2> HIDE DEF r
  <2> QED
    BY <1>1, <2>2, Sizes DEF r, HeaderOfBlock, HeaderSize
<1>7. /\ a \in Int /\ a >= 0 /\ b.size \in Int /\ b.size >= 0 /\ b.p = a + HeaderSize
      /\ BlockIn(heap, a, b.size) /\ a + SizeOf(heap, a) = Top(heap)
  <2>1. n + 1 # 1 /\ n + 1 - 1 = n
    BY <1>2
  <2>2. Top(heap) = EndOf(heap, b)
    BY <1>5, <2>1 DEF Packed, Below
  <2> QED
    BY <1>2, <1>5, <1>6, <2>2 DEF Stacked, EndOf
<1>8. Leftmost(heap, a)
  <2>1. CASE n = 1
    <3>1. a = 0
      BY <1>2, <1>5, <2>1 DEF Packed, Below
    <3> QED
      BY <1>5, <3>1 DEF Packed, Leftmost
  <2>2. CASE n # 1
    <3> DEFINE c == HeaderOfBlock(live[n - 1])
               m == SizeOf(heap, c)
    <3>1. n - 1 \in 1 .. n
      BY <1>2, <2>2
    <3>2. a = c + m
      BY <1>2, <1>5, <2>2 DEF Packed, Below, EndOf
    <3>3. c \in Int /\ c >= 0 /\ BlockIn(heap, c, live[n - 1].size) /\ live[n - 1].size >= 0
          /\ live[n - 1].size \in Int
      BY <1>5, <1>6, <3>1 DEF Stacked
    <3>4. m \in Int /\ m >= 20
      <4>1. m \in Int
        BY <1>1, ReadInt DEF SizeOf
      <4>2. m >= live[n - 1].size + 20
        BY <3>3 DEF BlockIn, Overhead, HeaderSize, FooterSize
      <4> HIDE DEF m
      <4> QED
        BY <3>3, <4>1, <4>2
    <3>5. HeaderOf(heap, c + m - FooterSize) = c /\ IsHole(heap, c) = 0
      BY <3>3 DEF BlockIn
    <3> HIDE DEF c, m, a
    <3>6. c < a /\ a - FooterSize = c + m - FooterSize
      <4>1. c < c + m
        BY <3>3, <3>4
      <4>2. a - FooterSize = c + m - FooterSize
        BY <3>2, <3>3, <3>4, SMT DEF FooterSize
      <4>3. c < a
        BY <3>2, <4>1
      <4> QED
        BY <4>2, <4>3
    <3> QED
      BY <3>3, <3>5, <3>6 DEF Leftmost
  <2> QED
    BY <2>1, <2>2
<1>9. heap' = t /\ t \in Heaps
  <2>1. b.p \in Int
    BY <1>7 DEF HeaderSize
  <2>2. t \in Heaps
    BY <1>1, <2>1, Frees
  <2>3. Become(t)
    BY <1>2 DEF Free
  <2> HIDE DEF t
  <2> QED
    BY <2>2, <2>3, Becomes
<1>10. t.status = "ok" /\ t.end = end_address'
  BY <1>9 DEF heap, Running
<1> HIDE DEF a, n
<1>11. /\ t.end = MinSize /\ Tidy(t) /\ Framed(t) /\ t.backed \subseteq heap.backed
       /\ Top(t) = a /\ \A x \in Int : x < a => Read(t, x) = Read(heap, x)
  <2> DEFINE f == free(heap, a + HeaderSize)
  <2>1. f = t
    BY <1>7
  <2>2. f.status = "ok"
    BY <1>10, <2>1
  <2>3. Framed(heap)
    BY <1>5 DEF Tidy
  <2>4. /\ f.end = MinSize /\ Tidy(f) /\ Framed(f) /\ f.backed \subseteq heap.backed
        /\ Top(f) = a /\ \A x \in Int : x < a => Read(f, x) = Read(heap, x)
    BY <1>1, <1>3, <1>4, <1>5, <1>7, <1>8, <2>2, <2>3, FreesLast
  <2> HIDE DEF f, t
  <2> QED
    BY <2>1, <2>4
<1> HIDE DEF t
<1>12. Stacked(t, RemoveAt(live, n)) /\ Packed(t, RemoveAt(live, n))
  BY <1>1, <1>2, <1>5, <1>9, <1>11, StackShrinks DEF n, a
<1>13. live' = RemoveAt(live, n) /\ workload' = workload
  BY <1>2 DEF Free
<1>14. Stacked(heap, live)' /\ Packed(heap, live)'
  BY <1>9, <1>12, <1>13
<1>15. Tidy(heap)' /\ Tabled(heap)'
  BY <1>5, <1>9, <1>11, <1>13 DEF Tabled
<1> QED
  BY <1>10, <1>11, <1>14, <1>15

(* The layout is inductive for such clients, in a heap of one page table. *)
LEMMA LayoutStep ==
  ASSUME Sound, Layout, Orderly, OneTable', [Next]_vars
  PROVE  Layout'
<1> SUFFICES ASSUME Running'
             PROVE  Tidy(heap)' /\ Tabled(heap)' /\ Stacked(heap, live)' /\ Packed(heap, live)'
  BY DEF Layout
<1>1. CASE UNCHANGED <<heap, live, workload>>
  <2>1. heap' = heap /\ live' = live /\ workload' = workload
    BY <1>1
  <2>2. heap.status = "ok" /\ heap'.status = status'
    BY <2>1 DEF heap, Running
  <2>3. Tidy(heap) /\ Tabled(heap) /\ Stacked(heap, live) /\ Packed(heap, live)
    BY <2>2 DEF Layout, Running, heap
  <2>4. Tidy(heap)' /\ Tabled(heap)' /\ Stacked(heap, live)' /\ Packed(heap, live)'
    BY <2>1, <2>3 DEF Tidy, Tabled, Stacked, Packed
  <2> QED
    BY <2>4
<1>2. ASSUME NEW size, NEW page_align, Call(size, page_align)
      PROVE  UNCHANGED <<heap, live, workload>>
  BY <1>2 DEF Call, heap
<1>3. CASE UNCHANGED vars
  BY <1>1, <1>3 DEF vars, heap
<1> QED
  BY <1>1, <1>2, <1>3, LayoutGrow, LayoutPlace, LayoutFree DEF Next

(* The layout holds in every behaviour of such clients. *)
LEMMA LaidOut == Spec /\ []Orderly => [](Sound /\ Layout)
<1>1. Sound /\ Layout /\ Orderly /\ Orderly' /\ [Next]_vars => (Sound /\ Layout)'
  BY SoundStep, LayoutStep DEF Orderly
<1> QED
  BY <1>1, InitSound, LayoutInit, PTL DEF Spec

-----------------------------------------------------------------------------
(* find_smallest_hole returns an entry of a hole that is large enough for a request
   for alignment. *)
LEMMA FitIs ==
  ASSUME NEW h \in Heaps, NEW n, find_smallest_hole(h, n, TRUE) # 0
  PROVE  LET i == find_smallest_hole(h, n, TRUE)
         IN  i \in 1 .. Len(h.index) /\ SizeOf(h, h.index[i]) >= n
<1> DEFINE I == {i \in 1 .. Len(h.index) : SizeOf(h, h.index[i]) >= n}
<1>1. find_smallest_hole(h, n, TRUE) = IF I # {} THEN Min(I) ELSE 0
  BY DEF find_smallest_hole, FirstWhere, SelectInSeq
<1>2. Len(h.index) \in Nat /\ I \in SUBSET (1 .. Len(h.index)) /\ I # {}
  <2>1. Len(h.index) \in Nat /\ I \in SUBSET (1 .. Len(h.index))
    BY Parts
  <2> HIDE DEF I
  <2> QED
    BY <1>1, <2>1, Zenon
<1>3. find_smallest_hole(h, n, TRUE) \in I
  <2> HIDE DEF I
  <2>1. Min(I) \in I
    BY <1>2, Least
  <2> QED
    BY <1>1, <1>2, <2>1, Zenon
<1> QED
  BY <1>3

(* A footer cannot be written past the page table of the heap. *)
LEMMA PastTable ==
  ASSUME NEW h \in Heaps, workload \in Workloads, Tabled(h), NEW a \in Int, NEW b \in Int,
         a + 4 >= workload.span
  PROVE  PutFooter(h, a, b).status # "ok"
<1> SUFFICES ASSUME PutFooter(h, a, b).status = "ok" PROVE FALSE
  OBVIOUS
<1>1. PageOf(a + 4) < PageOf(workload.span)
  BY FooterPut DEF Tabled
<1> DEFINE w == workload.span
<1>2. PageSize = 4096 /\ w \in Int /\ a + 4 >= w /\ PageOf(a + 4) < PageOf(w)
  BY <1>1, HeapAssumption
<1> HIDE DEF w
<1> QED
  BY <1>2 DEF PageOf

(* The hole behind a block is the new first entry of the index.  Its footer goes over
   its own size if the hole is that small. *)
LEMMA SplitsBehind ==
  ASSUME NEW h \in Heaps, NEW a \in Int, NEW n \in Int, n # 0,
         split_back(h, a, n).status = "ok"
  PROVE  LET t == split_back(h, a, n)
         IN  /\ h.status = "ok" /\ t.index = <<a>> \o h.index
             /\ t.end = h.end /\ t.backed = h.backed
             /\ \/ SizeOf(t, a) = n
                \/ n = 12 /\ SizeOf(t, a) = a
                \/ n = 16 /\ SizeOf(t, a) = Magic
<1> DEFINE headed == PutHeader(h, a, 1, n)
           footer == a + n - FooterSize
           footed == PutFooter(headed, footer, a)
           ended == IF footer < h.end THEN footed ELSE headed
           t == split_back(h, a, n)
<1>1. t = insert_ordered_array(ended, a) /\ t.status = "ok"
  BY DEF split_back
<1>2. footer \in Int /\ footer = a + n - 8
  BY DEF FooterSize
<1>3. headed \in Heaps
  BY PutHeaderHeap
<1> HIDE DEF headed, footer
<1>4. footed \in Heaps
  BY <1>2, <1>3, PutFooterHeap
<1> HIDE DEF footed
<1>5. ended \in Heaps
  BY <1>3, <1>4
<1> HIDE DEF ended, t
<1>6. /\ ended.status = "ok" /\ t.index = <<a>> \o ended.index /\ t.end = ended.end
      /\ t.backed = ended.backed /\ \A x \in Int : Read(t, x) = Read(ended, x)
  BY <1>1, <1>5, Inserted
<1>7. /\ Same(ended, headed)
      /\ \/ \A x \in Int : Read(ended, x) = Read(headed, x)
         \/ \A x \in Int : Read(ended, x) = IF x = footer THEN Magic ELSE IF x = footer + 4 THEN a
                                            ELSE Read(headed, x)
  <2>1. CASE footer < h.end
    <3>1. ended = footed
      BY <2>1 DEF ended
    <3>2. /\ Same(footed, headed)
          /\ \A x \in Int : Read(footed, x) = IF x = footer THEN Magic ELSE IF x = footer + 4 THEN a
                                              ELSE Read(headed, x)
      BY <1>2, <1>3, <1>6, <3>1, FooterPut DEF footed
    <3> HIDE DEF footed
    <3> QED
      BY <3>1, <3>2
  <2>2. CASE ~(footer < h.end)
    <3>1. ended = headed
      BY <2>2 DEF ended
    <3> QED
      BY <1>6, <3>1 DEF Same
  <2> QED
    BY <2>1, <2>2
<1>8. /\ Same(headed, h)
      /\ \A x \in Int : Read(headed, x) = IF x = a THEN Magic ELSE IF x = a + 4 THEN 1
                                          ELSE IF x = a + 8 THEN n ELSE Read(h, x)
  BY <1>7, HeaderPut DEF headed, Same
<1>9. Read(headed, a + 8) = n
  BY <1>8
<1>10. \/ SizeOf(t, a) = n
       \/ n = 12 /\ SizeOf(t, a) = a
       \/ n = 16 /\ SizeOf(t, a) = Magic
  <2>1. a + 8 \in Int /\ (a + 8 = footer => n = 16) /\ (a + 8 = footer + 4 => n = 12)
    BY <1>2
  <2>2. Read(t, a + 8) = Read(ended, a + 8)
    BY <1>6, <2>1
  <2> QED
    BY <1>7, <1>9, <2>1, <2>2 DEF SizeOf
<1> QED
  BY <1>6, <1>7, <1>8, <1>10 DEF Same, t

(* Two sequences of one element each make one of two. *)
LEMMA Paired == ASSUME NEW a \in Int, NEW b \in Int PROVE <<a>> \o <<b>> = <<a, b>>
<1> DEFINE s == <<a>>
           t == <<b>>
           u == s \o t
           v == <<a, b>>
<1>1. s \in Seq(Int) /\ t \in Seq(Int) /\ Len(s) = 1 /\ Len(t) = 1 /\ s[1] = a /\ t[1] = b
  OBVIOUS
<1>2. v \in Seq(Int) /\ Len(v) = 2 /\ v[1] = a /\ v[2] = b
  OBVIOUS
<1> HIDE DEF s, t, v
<1>3. /\ u \in Seq(Int) /\ Len(u) = Len(s) + Len(t)
      /\ \A i \in 1 .. Len(s) + Len(t) : u[i] = IF i <= Len(s) THEN s[i] ELSE t[i - Len(s)]
  BY <1>1, ConcatProperties
<1> HIDE DEF u
<1>4. Len(u) = 2 /\ u[1] = a /\ u[2] = b
  BY <1>1, <1>3
<1>5. \A i \in 1 .. 2 : u[i] = v[i]
  BY <1>2, <1>4
<1>6. u = v
  BY <1>2, <1>3, <1>4, <1>5, SeqEqual
<1> QED
  BY <1>6 DEF s, t, u, v

(* The new page table is taken from the only hole, and what is left of the hole
   behind it is the endmost one: except if nothing is left, or if the footer of the
   hole in front goes over that hole's own size (kernelheap.c:239-287). *)
LEMMA TablePlaced ==
  ASSUME NEW h \in Heaps, NEW a \in Int, h.index = <<a>>, HoleIn(h, a),
         SizeOf(h, a) >= PageSize + Overhead,
         FrontSize(a) \notin {0, HeaderSize, HeaderSize + 4}, h.end % PageSize # FooterSize,
         place(h, 1, PageSize, TRUE).status = "ok"
  PROVE  LET t == Fill(place(h, 1, PageSize, TRUE), BlockAt(a, TRUE) + HeaderSize, PageSize)
         IN  /\ t.backed = h.backed /\ t.end = h.end
             /\ \E c \in Int : t.index = <<c, a>> /\ a < c /\ h.end <= c + SizeOf(t, c)
<1> DEFINE f == FrontSize(a)
           orig == SizeOf(h, a)
           size == PageSize + Absorbed(orig, PageSize + Overhead)
           new_size == size + Overhead
           front == PutHeader(h, a, 1, f)
           opened == PutFooter(front, a + f - FooterSize, a)
           block == a + f
           headed == PutHeader(opened, block, 0, new_size)
           taken == PutFooter(headed, block + HeaderSize + size, block)
           rest == orig - SizeOf(opened, a)
           back == block + new_size
           left == rest - new_size
           placed == place(h, 1, PageSize, TRUE)
           t == Fill(placed, block + HeaderSize, PageSize)
<1>1. /\ PageSize = 4096 /\ a \in Int /\ a >= 0 /\ orig \in Int /\ orig >= 4116
      /\ a + orig = h.end /\ h.end \in Int /\ h.end % 4096 # 8
  BY ReadInt, Parts, HeapAssumption DEF SizeOf, HoleIn, Overhead, HeaderSize, FooterSize
<1>2. /\ f \in Int /\ f >= -11 /\ f = 4084 - (a % 4096)
      /\ f # 0 /\ f # 12 /\ f # 16
  BY <1>1 DEF FrontSize, HeaderSize
<1>3. placed = split_back(taken, back, left)
  <2>1. h.index[1] = a
    OBVIOUS
  <2> QED
    BY <2>1 DEF place, BlockAt, BackAt, Rest, split_front
<1>4. /\ size \in Int /\ size >= 4096 /\ new_size = size + 20
      /\ new_size = 4116 \/ new_size = orig
  <2> HIDE DEF orig
  <2> QED
    BY <1>1 DEF Absorbed, Overhead, HeaderSize, FooterSize
<1> HIDE DEF f, orig, size
<1>5. /\ a + f - FooterSize \in Int /\ a + f - FooterSize = a + f - 8 /\ block \in Int
      /\ block + HeaderSize + size \in Int /\ new_size \in Int /\ back \in Int
      /\ block + HeaderSize = block + 12
  BY <1>2, <1>4 DEF FooterSize, HeaderSize
<1>6. front \in Heaps
  <2>1. 1 \in Int /\ f \in Int
    BY <1>2
  <2> QED
    BY <2>1, PutHeaderHeap
<1> HIDE DEF front
<1>7. opened \in Heaps
  BY <1>5, <1>6, PutFooterHeap
<1> HIDE DEF opened, new_size, block
<1>8. headed \in Heaps
  BY <1>5, <1>7, PutHeaderHeap
<1> HIDE DEF headed
<1>9. taken \in Heaps
  BY <1>5, <1>8, PutFooterHeap
<1> HIDE DEF taken
<1>10. rest \in Int /\ left \in Int
  BY <1>1, <1>5, <1>7, ReadInt DEF SizeOf
<1>11. ASSUME taken.status = "ok"
       PROVE  /\ taken.index = <<a>> /\ taken.end = h.end /\ taken.backed = h.backed
              /\ rest = orig - f
  <2>1. Same(taken, headed)
    BY <1>5, <1>8, <1>11, FooterPut DEF taken
  <2>2. Same(headed, opened)
    <3>1. headed.status = "ok"
      BY <2>1 DEF Same
    <3>2. 0 \in Int
      OBVIOUS
    <3> QED
      BY <1>5, <1>7, <3>1, <3>2, HeaderPut DEF headed
  <2>3. /\ Same(opened, front)
        /\ \A x \in Int : Read(opened, x) = IF x = a + f - 8 THEN Magic
                             ELSE IF x = a + f - 8 + 4 THEN a ELSE Read(front, x)
    BY <1>5, <1>6, <2>2, FooterPut DEF opened, Same
  <2>4. /\ Same(front, h)
        /\ \A x \in Int : Read(front, x) = IF x = a THEN Magic ELSE IF x = a + 4 THEN 1
                                           ELSE IF x = a + 8 THEN f ELSE Read(h, x)
    BY <1>2, <2>3, HeaderPut DEF front, Same
  <2>5. SizeOf(opened, a) = f
    <3>1. a + 8 \in Int /\ a + 8 # a + f - 8 /\ a + 8 # a + f - 8 + 4 /\ a + 8 # a /\ a + 8 # a + 4
      BY <1>2
    <3> QED
      BY <2>3, <2>4, <3>1 DEF SizeOf
  <2> QED
    BY <2>1, <2>2, <2>3, <2>4, <2>5 DEF Same
<1> HIDE DEF rest
<1>12. ASSUME rest = orig - f PROVE left # 0 /\ back + left = h.end /\ a < back /\ back >= 12
  <2>1. CASE new_size = orig
    BY <1>1, <1>2, <1>4, <1>12, <2>1 DEF block
  <2>2. CASE new_size = 4116
    <3>1. left = orig - f - 4116 /\ back = a + f + 4116
      BY <1>12, <2>2 DEF block
    <3>2. back + left = h.end /\ a < back /\ back >= 12
      BY <1>1, <1>2, <3>1
    <3>3. ASSUME left = 0 PROVE FALSE
      <4>1. h.end = a + f + 4116
        BY <1>1, <1>2, <1>10, <3>1, <3>3
      <4>2. h.end = a - (a % 4096) + 8200
        BY <1>1, <1>2, <4>1
      <4>3. h.end % 4096 = 8
        BY <1>1, <4>2
      <4> QED
        BY <1>1, <4>3
    <3> QED
      BY <3>2, <3>3
  <2> QED
    BY <1>4, <2>1, <2>2
<1> HIDE DEF left, back
<1>13. placed.status = "ok" /\ placed \in Heaps
  <2>1. 1 \in 1 .. Len(h.index) /\ PageSize \in Int
    BY <1>1
  <2> QED
    BY <2>1, Places
<1> HIDE DEF placed
<1>14. taken.status = "ok"
  <2>1. CASE left = 0
    BY <1>3, <1>13, <2>1 DEF split_back
  <2>2. CASE left # 0
    <3>1. split_back(taken, back, left).status = "ok"
      BY <1>3, <1>13
    <3>2. taken \in Heaps /\ back \in Int /\ left \in Int /\ left # 0
      BY <1>5, <1>9, <1>10, <2>2
    <3> QED
      BY <3>1, <3>2, SplitsBehind
  <2> QED
    BY <2>1, <2>2
<1>15. /\ taken.index = <<a>> /\ taken.end = h.end /\ taken.backed = h.backed
       /\ left # 0 /\ back + left = h.end /\ a < back /\ back >= 12
  BY <1>11, <1>12, <1>14
<1>16. /\ placed.index = <<back>> \o <<a>> /\ placed.end = h.end /\ placed.backed = h.backed
       /\ \/ SizeOf(placed, back) = left
          \/ left = 12 /\ SizeOf(placed, back) = back
          \/ left = 16 /\ SizeOf(placed, back) = Magic
  <2>1. split_back(taken, back, left).status = "ok"
    BY <1>3, <1>13
  <2> DEFINE x == split_back(taken, back, left)
  <2>2. back \in Int /\ left \in Int /\ left # 0 /\ x = placed
    BY <1>3, <1>5, <1>10, <1>15
  <2>3. /\ x.index = <<back>> \o taken.index
        /\ x.end = taken.end /\ x.backed = taken.backed
        /\ \/ SizeOf(x, back) = left
           \/ left = 12 /\ SizeOf(x, back) = back
           \/ left = 16 /\ SizeOf(x, back) = Magic
    BY <1>9, <2>1, <2>2, SplitsBehind
  <2> HIDE DEF x
  <2> QED
    BY <1>15, <2>2, <2>3, Zenon
<1>17. h.end <= back + SizeOf(placed, back)
  BY <1>1, <1>5, <1>10, <1>15, <1>16 DEF Magic
<1>18. /\ t.index = placed.index /\ t.end = placed.end /\ t.backed = placed.backed
       /\ \A x \in Int : x >= block + 12 + 4096 => Read(t, x) = Read(placed, x)
  <2>1. block + 12 \in Int /\ t = Fill(placed, block + 12, 4096)
    BY <1>1, <1>5
  <2> HIDE DEF t
  <2> QED
    BY <1>13, <2>1, Filled
<1>19. SizeOf(t, back) = SizeOf(placed, back)
  <2>1. back + 8 \in Int /\ back + 8 >= block + 12 + 4096
    BY <1>4, <1>5 DEF back, new_size
  <2> QED
    BY <1>18, <2>1 DEF SizeOf
<1>20. t = Fill(placed, BlockAt(a, TRUE) + HeaderSize, PageSize)
  BY DEF BlockAt, block, f
<1>21. <<back>> \o <<a>> = <<back, a>>
  BY <1>5, Paired
<1> HIDE DEF t
<1> QED
  BY <1>5, <1>15, <1>16, <1>17, <1>18, <1>19, <1>20, <1>21 DEF placed

(* Where a new page table may go without losing the end of the heap to the hole at
   the end.  It does not end where the heap does, which is what an end 8 bytes past
   a page boundary means; its header is not put on the hole's own, and the footer
   of what is left in front of it not on the hole's own size. *)
Uncrossed(h) ==
  /\ h.end % PageSize # FooterSize
  /\ h.index # <<>> => FrontSize(h.index[1]) \notin {0, HeaderSize, HeaderSize + 4}

(* Whatever the growth, with or without a new page table, the endmost hole comes
   first in the index and reaches at least to the old end of the heap. *)
Endmost(t, old) ==
  t.index # <<>> =>
    \E c \in Int : /\ old <= c + SizeOf(t, c)
                   /\ t.index = <<c>> \/ \E a \in Int : a < c /\ t.index = <<c, a>>

(* expand, which may place a new page table in the middle of its work, leaves the
   endmost hole at the end and takes no page of another table (kernelheap.c:54-74). *)
LEMMA ExpandsOver ==
  ASSUME NEW h \in Heaps, Tidy(h), Tabled(h), Uncrossed(h), NEW n \in Int,
         workload \in Workloads, expand(h, n).status = "ok"
  PROVE  LET t == expand(h, n) IN Tabled(t) /\ t.end = n /\ Endmost(t, h.end)
<1> DEFINE visited == {PageOf(h.end + 1000 * k) : k \in 0 .. (n - h.end - 1) \div 1000}
           fresh == {page \in visited : page >= PageOf(workload.span)}
           longer == panic_unless(h, n > h.end)
           checked == panic_unless(longer, n <= MaxAddress)
           b == checked.backed \cup (visited \ fresh)
           grown == WithTable([checked EXCEPT !.backed = b], fresh)
           t == expand(h, n)
<1>1. t = IF checked.status # "ok" THEN checked
          ELSE IF grown.status # "ok" THEN grown
          ELSE [grown EXCEPT !.end = n]
  BY DEF expand
<1>2. t.status = "ok"
  OBVIOUS
<1>3. longer \in Heaps /\ checked \in Heaps
  BY PanicHeap
<1>4. checked.status = "ok" => checked = h
  BY StopHeap DEF panic_unless, Stop, Heaps
<1>5. visited \subseteq Int
  <2>1. ASSUME NEW k \in 0 .. (n - h.end - 1) \div 1000 PROVE PageOf(h.end + 1000 * k) \in Int
    <3>1. h.end \in Int /\ k \in Int
      BY Parts
    <3>2. h.end + 1000 * k \in Int
      BY <3>1
    <3> QED
      BY <3>2, PageInt
  <2> QED
    BY <2>1
<1> HIDE DEF t, visited, longer, checked
<1>6. checked = h /\ h.backed \subseteq Int
  BY <1>1, <1>2, <1>4, Parts
<1> DEFINE g == [h EXCEPT !.backed = b]
<1>7. b \subseteq Int /\ \A q \in b : q < PageOf(workload.span)
  <2>1. PageOf(workload.span) \in Int
    BY HeapAssumption, PageInt
  <2>2. ASSUME NEW q \in visited, q \notin fresh PROVE q \in Int /\ q < PageOf(workload.span)
    <3>1. q \in Int /\ ~(q >= PageOf(workload.span))
      BY <1>5, <2>2
    <3> QED
      BY <2>1, <3>1
  <2> HIDE DEF fresh
  <2> QED
    BY <1>6, <2>2 DEF Tabled
<1> HIDE DEF b
<1>8. /\ g \in Heaps /\ g.index = h.index /\ g.end = h.end /\ g.backed = b
      /\ g.mem = h.mem
  BY <1>7 DEF Heaps
<1>9. \A x : Read(g, x) = Read(h, x)
  <2> HIDE DEF g
  <2> QED
    BY <1>8 DEF Read
<1>10. grown = WithTable(g, fresh)
  BY <1>6
<1> HIDE DEF g, fresh
<1>11. grown.status = "ok" /\ t = [grown EXCEPT !.end = n]
  BY <1>1, <1>2, <1>6
<1>12. grown \in Heaps
  BY <1>8, <1>10, TableHeap
<1> HIDE DEF grown
<1>13. t.index = grown.index /\ t.end = n /\ t.backed = grown.backed /\ t.mem = grown.mem
  BY <1>11, <1>12 DEF Heaps
<1>14. \A x : Read(t, x) = Read(grown, x)
  BY <1>13 DEF Read
<1>15. grown.backed = b /\ Endmost(grown, h.end)
  <2>1. CASE fresh = {}
    <3>1. grown = g
      BY <1>10, <2>1 DEF WithTable
    <3>2. ASSUME NEW a \in Int, h.index = <<a>>, HoleIn(h, a) PROVE h.end <= a + SizeOf(g, a)
      <4>1. SizeOf(g, a) = SizeOf(h, a) /\ h.end = a + SizeOf(h, a) /\ h.end \in Int
        BY <1>9, <3>2, Parts DEF SizeOf, HoleIn
      <4> QED
        BY <4>1
    <3> QED
      BY <1>8, <3>1, <3>2 DEF Tidy, Endmost
  <2>2. CASE fresh # {}
    <3> DEFINE fit == find_smallest_hole(g, PageSize + Overhead, TRUE)
               table == BlockAt(g.index[fit], TRUE) + HeaderSize
    <3>1. grown = IF fit = 0 THEN Stop(g, "overflow")
                  ELSE Fill(place(g, fit, PageSize, TRUE), table, PageSize)
      BY <1>10, <2>2 DEF WithTable
    <3>2. Stop(g, "overflow").status # "ok"
      BY <1>8 DEF Stop, Heaps
    <3>3. fit # 0
      BY <1>11, <3>1, <3>2
    <3>4. fit \in 1 .. Len(h.index) /\ SizeOf(g, g.index[fit]) >= PageSize + Overhead
      BY <1>8, <3>3, FitIs
    <3> HIDE DEF fit
    <3>5. PICK a \in Int : h.index = <<a>> /\ HoleIn(h, a)
      <4>1. h.index # <<>>
        <5> SUFFICES ASSUME h.index = <<>> PROVE FALSE
          OBVIOUS
        <5>1. Len(h.index) = 0
          OBVIOUS
        <5> QED
          BY <3>4, <5>1
      <4> QED
        BY <4>1 DEF Tidy
    <3>6. fit = 1 /\ g.index = <<a>> /\ g.index[fit] = a
      <4>1. Len(h.index) = 1
        BY <3>5
      <4>2. fit = 1
        BY <3>4, <4>1
      <4> QED
        BY <1>8, <3>5, <4>2
    <3>7. HoleIn(g, a)
      BY <1>8, <1>9, <3>5 DEF HoleIn, IsHole, SizeOf
    <3> DEFINE placed == place(g, 1, PageSize, TRUE)
               p == BlockAt(a, TRUE) + HeaderSize
    <3>8. grown = Fill(placed, p, PageSize)
      BY <3>1, <3>3, <3>6
    <3>9. placed \in Heaps /\ p \in Int /\ PageSize \in Int
      <4>1. PageSize \in Int
        BY HeapAssumption
      <4>2. 1 \in 1 .. Len(g.index)
        BY <3>4, <3>6, <1>8
      <4>3. placed \in Heaps
        BY <1>8, <4>1, <4>2, Places
      <4>4. p \in Int
        BY FrontInt DEF BlockAt, HeaderSize
      <4> QED
        BY <4>1, <4>3, <4>4
    <3>10. placed.status = "ok"
      <4> HIDE DEF placed, p
      <4>1. grown.status = placed.status
        BY <3>8, <3>9, Filled
      <4> QED
        BY <1>11, <4>1
    <3>11. /\ FrontSize(a) \notin {0, HeaderSize, HeaderSize + 4}
           /\ g.end % PageSize # FooterSize /\ SizeOf(g, a) >= PageSize + Overhead
      <4>1. h.index # <<>> /\ h.index[1] = a
        <5>1. Len(h.index) = 1 /\ h.index[1] = a
          BY <3>5
        <5> QED
          BY <5>1
      <4> QED
        BY <1>8, <3>4, <3>6, <4>1 DEF Uncrossed
    <3>12. LET u == Fill(placed, p, PageSize)
           IN  /\ u.backed = g.backed /\ u.end = g.end
               /\ \E c \in Int : u.index = <<c, a>> /\ a < c /\ g.end <= c + SizeOf(u, c)
      BY <1>8, <3>6, <3>7, <3>10, <3>11, TablePlaced
    <3> HIDE DEF placed, p
    <3> QED
      BY <1>8, <3>8, <3>12 DEF Endmost
  <2> QED
    BY <2>1, <2>2
<1>16. Endmost(t, h.end)
  <2>1. \A c : SizeOf(t, c) = SizeOf(grown, c)
    BY <1>14 DEF SizeOf
  <2> QED
    BY <1>13, <1>15, <2>1 DEF Endmost
<1> QED
  BY <1>7, <1>13, <1>15, <1>16 DEF Tabled, t

(* Then a growth past the page table stops the machine: the footer of the endmost
   hole goes to a page that has no frame (kernelheap.c:194-217). *)
LEMMA GrowFails ==
  ASSUME NEW h \in Heaps, Tidy(h), Tabled(h), Uncrossed(h), NEW n \in Int, n >= Overhead,
         n % 4 = 0, workload \in Workloads, workload.span < h.end + n
  PROVE  grow(h, n).status # "ok"
<1> DEFINE old == h.end
           e == expand(h, old + n)
           I == {i \in 1 .. Len(e.index) :
                   \A j \in 1 .. Len(e.index) : e.index[j] <= e.index[i]}
           last == IF I # {} THEN Min(I) ELSE 0
           header == e.index[last]
           size == GrownSize(e, header, e.end - old)
           headed == PutHeader(e, old, 1, n)
           made == PutFooter(headed, old + n - FooterSize, old)
           sized == PutSize(e, header, size)
           longer == PutFooter(sized, header + size - FooterSize, header)
           t == grow(h, n)
<1> SUFFICES ASSUME t.status = "ok" PROVE FALSE
  OBVIOUS
<1>1. t = IF e.status # "ok" THEN e
          ELSE IF last = 0 THEN insert_ordered_array(made, old) ELSE longer
  BY DEF grow, FirstWhere, SelectInSeq
<1>2. old \in Int /\ old + n \in Int
  BY Parts
<1>3. old + n - 4 >= workload.span
  <2> DEFINE w == workload.span
  <2>1. w \in Int /\ w % 4096 = 0 /\ w < old + n /\ old % 4 = 0
    BY HeapAssumption DEF Tidy
  <2> HIDE DEF w, old
  <2>2. w % 4 = 0 /\ (old + n) % 4 = 0
    BY <1>2, <2>1
  <2>3. w + 4 <= old + n
    BY <1>2, <2>1, <2>2
  <2> QED
    BY <1>2, <2>1, <2>3 DEF w
<1>4. e \in Heaps /\ e.status = "ok"
  BY <1>1, <1>2, Expands
<1>5. Tabled(e) /\ e.end = old + n /\ Endmost(e, old)
  BY <1>2, <1>4, ExpandsOver
<1>6. workload.span \in Int
  BY HeapAssumption
<1> HIDE DEF t, e, last, old
<1>7. CASE e.index = <<>>
  <2>1. last = 0
    <3>1. Len(e.index) = 0
      BY <1>7
    <3> QED
      BY <3>1 DEF last
  <2>2. t = insert_ordered_array(made, old)
    BY <1>1, <1>4, <2>1
  <2>3. headed \in Heaps
    <3>1. 1 \in Int
      OBVIOUS
    <3> QED
      BY <1>2, <1>4, <3>1, PutHeaderHeap
  <2> HIDE DEF headed
  <2>4. old + n - FooterSize \in Int /\ old + n - FooterSize + 4 >= workload.span
    BY <1>2, <1>3, <1>6 DEF FooterSize
  <2>5. made \in Heaps
    BY <1>2, <2>3, <2>4, PutFooterHeap
  <2>6. made.status = "ok"
    <3> HIDE DEF made
    <3> QED
      BY <1>2, <2>2, <2>5, Inserted
  <2>7. headed.status = "ok"
    BY <1>2, <2>3, <2>4, <2>6, FooterPut DEF Same
  <2>8. Same(headed, e)
    <3>1. 1 \in Int
      OBVIOUS
    <3> QED
      BY <1>2, <1>4, <2>7, <3>1, HeaderPut DEF headed
  <2>9. Tabled(headed)
    BY <1>5, <2>8 DEF Tabled, Same
  <2> QED
    BY <1>2, <2>3, <2>4, <2>6, <2>9, PastTable
<1>8. ASSUME NEW c \in Int, old <= c + SizeOf(e, c),
             e.index = <<c>> \/ \E a \in Int : a < c /\ e.index = <<c, a>>
      PROVE  FALSE
  <2>1. last = 1 /\ header = c
    <3>1. I = {1} /\ e.index[1] = c
      <4>1. CASE e.index = <<c>>
        <5>1. Len(e.index) = 1 /\ e.index[1] = c
          BY <4>1
        <5> QED
          BY <5>1
      <4>2. ASSUME NEW a \in Int, a < c, e.index = <<c, a>> PROVE I = {1} /\ e.index[1] = c
        <5>1. Len(e.index) = 2 /\ e.index[1] = c /\ e.index[2] = a
          BY <4>2
        <5> QED
          BY <4>2, <5>1
      <4> QED
        BY <1>8, <4>1, <4>2
    <3> HIDE DEF I
    <3>2. I \in SUBSET (1 .. 1) /\ I # {}
      BY <3>1
    <3>3. Min(I) = 1
      BY <3>1, <3>2, Least
    <3>4. last = 1
      BY <3>2, <3>3 DEF last
    <3> QED
      BY <3>1, <3>4
  <2>2. t = longer
    BY <1>1, <1>4, <2>1
  <2>3. size \in Int /\ c + size - FooterSize \in Int /\ c + size - FooterSize + 4 >= workload.span
    <3> DEFINE m == SizeOf(e, c)
    <3>1. m \in Int /\ old <= c + m
      BY <1>4, <1>8, ReadInt DEF SizeOf
    <3>2. size = m + (old + n - old)
      <4>1. size = SizeOf(e, header) + (e.end - old)
        BY DEF GrownSize
      <4>2. SizeOf(e, header) = m
        BY <2>1
      <4> HIDE DEF size, header, m
      <4>3. e.end = old + n /\ old \in Int /\ n \in Int
        BY <1>2, <1>5
      <4> QED
        BY <3>1, <4>1, <4>2, <4>3
    <3> HIDE DEF m, size
    <3> QED
      BY <1>2, <1>3, <1>6, <3>1, <3>2 DEF FooterSize
  <2> HIDE DEF size, header
  <2>4. sized \in Heaps
    BY <1>4, <2>1, <2>3, PutSizeHeap
  <2> HIDE DEF sized
  <2>5. longer.status = "ok"
    BY <2>2
  <2>6. sized.status = "ok"
    BY <2>1, <2>3, <2>4, <2>5, FooterPut DEF Same
  <2>7. Same(sized, e)
    BY <1>4, <2>1, <2>3, <2>6, SizePut DEF sized
  <2>8. Tabled(sized)
    BY <1>5, <2>7 DEF Tabled, Same
  <2> QED
    BY <2>1, <2>3, <2>4, <2>5, <2>8, PastTable
<1> QED
  BY <1>5, <1>7, <1>8 DEF Endmost

(* The next growth goes past the page table, and the new table would be put where it
   loses the end of the heap. *)
Coincidence ==
  /\ Running /\ request # NoRequest /\ Fitting = 0
  /\ end_address + request.size + Overhead > workload.span
  /\ ~Uncrossed(heap)

(* The heap of such clients stays within its page table, step by step. *)
LEMMA TableStep ==
  ASSUME Sound, Layout, LastFirst, OneTable, ~Coincidence, [Next]_vars
  PROVE  OneTable'
<1> SUFFICES ASSUME Running' PROVE end_address' <= workload'.span
  BY DEF OneTable
<1>1. heap \in Heaps /\ workload \in Workloads /\ heap.end = end_address /\ end_address \in Int
  BY Parts DEF Sound, heap
<1>2. workload.span \in Int
  BY <1>1, HeapAssumption
<1>3. CASE Grow
  <2> DEFINE n == request.size + Overhead
             t == grow(heap, n)
  <2>1. Running /\ request # NoRequest /\ Fitting = 0 /\ workload' = workload
    BY <1>3 DEF Grow, Running
  <2>2. n \in Int /\ n >= Overhead /\ n % 4 = 0
    BY <1>1, <2>1, Sizes DEF Sound, Overhead, HeaderSize, FooterSize
  <2>3. heap' = t
    BY <1>1, <1>3, <2>2, Grows, Becomes DEF Grow
  <2>4. t.status = "ok" /\ t.end = end_address'
    BY <2>3 DEF heap, Running
  <2>5. t.end = end_address + n
    BY <1>1, <2>2, <2>4, GrowsBy
  <2>6. Tidy(heap) /\ Tabled(heap)
    BY <2>1 DEF Layout
  <2>7. end_address + n > workload.span => Uncrossed(heap)
    <3>1. n = request.size + Overhead
      OBVIOUS
    <3>2. end_address + n = end_address + request.size + Overhead
      <4>1. request.size \in Int
        BY <1>1, <2>1, Sizes DEF Sound
      <4> QED
        BY <1>1, <4>1 DEF Overhead, HeaderSize, FooterSize
    <3> QED
      BY <2>1, <3>2 DEF Coincidence
  <2> HIDE DEF n
  <2>8. ~(workload.span < heap.end + n)
    <3> SUFFICES ASSUME workload.span < heap.end + n PROVE FALSE
      OBVIOUS
    <3>1. Uncrossed(heap)
      BY <1>1, <1>2, <2>2, <2>7
    <3> QED
      BY <1>1, <2>2, <2>4, <2>6, <3>1, GrowFails
  <2> QED
    BY <1>1, <1>2, <2>1, <2>2, <2>4, <2>5, <2>8
<1>4. CASE Place
  <2>1. end_address' = end_address /\ workload' = workload /\ Running
    BY <1>4, LayoutPlace DEF Orderly, Place, Running
  <2> QED
    BY <2>1 DEF OneTable
<1>5. ASSUME NEW i \in 1 .. Len(live), Free(i) PROVE end_address' <= workload'.span
  <2>1. end_address' = MinSize /\ workload' = workload
    BY <1>5, LayoutFree DEF Free, Orderly
  <2>2. /\ MinSize <= InitialSize /\ InitialSize <= workload.span
        /\ MinSize \in Int /\ InitialSize \in Int
    BY <1>1, HeapAssumption
  <2> QED
    BY <1>2, <2>1, <2>2
<1>6. ASSUME NEW size, NEW page_align, Call(size, page_align)
      PROVE  end_address' <= workload'.span
  BY <1>6 DEF Call, OneTable, Running
<1>7. CASE UNCHANGED vars
  BY <1>7 DEF vars, OneTable, Running
<1> QED
  BY <1>3, <1>4, <1>5, <1>6, <1>7 DEF Next

(* A heap in use never goes on past its page table, whatever is asked for: the growth
   that needs another one stops the machine, with or without room for the new table
   (kernelheap.c:66-73, 194-217).  With a coincidence it may go on: see OneTable. *)
THEOREM KeepsToOneTable == Spec /\ []LastFirst /\ []~Coincidence => []OneTable
<1>1. Init => OneTable
  <2> SUFFICES ASSUME Init PROVE end_address <= workload.span
    BY DEF OneTable
  <2>1. end_address = InitialSize
    <3> DEFINE headed == PutHeader(Unused, 0, 1, InitialSize)
    <3>1. heap = insert_ordered_array(headed, 0) /\ headed \in Heaps /\ heap.end = end_address
      BY Created DEF heap
    <3>2. headed.end = InitialSize
      BY HeaderEnd DEF Unused
    <3> HIDE DEF headed
    <3>3. insert_ordered_array(headed, 0).end = headed.end
      BY <3>1 DEF insert_ordered_array, Heaps
    <3> QED
      BY <3>1, <3>2, <3>3
  <2> QED
    BY <2>1, HeapAssumption DEF Init
<1>2. Sound /\ Layout /\ OneTable /\ LastFirst /\ ~Coincidence /\ LastFirst' /\ [Next]_vars
        => (Sound /\ Layout /\ OneTable)'
  BY SoundStep, LayoutStep, TableStep DEF Orderly
<1> QED
  BY <1>1, <1>2, InitSound, LayoutInit, PTL DEF Spec

-----------------------------------------------------------------------------
(* What the layout says of the blocks' extents. *)
Spaced ==
  Running =>
    /\ \A k \in 1 .. Len(live) :
         LET x == Extent(live[k])
         IN  /\ x.first \in Int /\ x.last \in Int /\ 0 <= x.first
             /\ x.last < Top(heap)
             /\ BlockIn(heap, x.first, live[k].size)
    /\ \A j, k \in 1 .. Len(live) : j < k => Extent(live[j]).last < Extent(live[k]).first
    /\ Top(heap) \in Int /\ Top(heap) <= end_address

(* The layout keeps blocks apart. *)
LEMMA LayoutSpaces == Sound /\ Layout => Spaced
<1> SUFFICES ASSUME Sound, Layout, Running PROVE Spaced
  BY DEF Spaced
<1>1. heap \in Heaps /\ workload \in Workloads /\ live \in Seq(Given(workload))
  BY DEF Sound
<1>2. Tidy(heap) /\ Stacked(heap, live)
  BY DEF Layout
<1>3. Top(heap) \in Int /\ Top(heap) <= end_address
  <2>1. heap.end \in Int /\ heap.end = end_address
    BY <1>1, Parts DEF heap
  <2>2. ASSUME NEW a \in Int, heap.index = <<a>>, HoleIn(heap, a)
        PROVE  a <= heap.end
    <3>1. SizeOf(heap, a) \in Int
      BY <1>1, ReadInt DEF SizeOf
    <3> QED
      BY <2>1, <2>2, <3>1 DEF HoleIn, Overhead, HeaderSize, FooterSize
  <2> QED
    BY <1>2, <2>1, <2>2 DEF Tidy, Top
<1>4. ASSUME NEW k \in 1 .. Len(live)
      PROVE  LET x == Extent(live[k])
             IN  /\ x.first = HeaderOfBlock(live[k])
                 /\ x.first \in Int /\ x.last \in Int /\ 0 <= x.first
                 /\ x.last < x.first + SizeOf(heap, x.first)
                 /\ SizeOf(heap, x.first) \in Int
                 /\ x.first + SizeOf(heap, x.first) <= Top(heap)
                 /\ BlockIn(heap, x.first, live[k].size)
  <2> DEFINE b == live[k]
             a == HeaderOfBlock(b)
  <2>1. b.p \in Int /\ b.size \in Int
    <3>1. b \in Given(workload)
      BY <1>1
    <3> HIDE DEF b
    <3>2. b.p \in Int /\ b.size \in workload.sizes
      BY <3>1 DEF Given
    <3> QED
      BY <1>1, <3>2, Sizes
  <2>2. a >= 0 /\ BlockIn(heap, a, b.size) /\ a + SizeOf(heap, a) <= Top(heap)
    BY <1>2 DEF Stacked
  <2> HIDE DEF b
  <2>3. Extent(b).first = a /\ a = b.p - 12 /\ Extent(b).last = b.p + b.size + 7
    BY <2>1 DEF Extent, HeaderOfBlock, HeaderSize, FooterSize
  <2>4. SizeOf(heap, a) \in Int /\ SizeOf(heap, a) >= b.size + 20
    BY <1>1, <2>2, ReadInt DEF SizeOf, BlockIn, Overhead, HeaderSize, FooterSize
  <2> HIDE DEF a
  <2> QED
    BY <2>1, <2>2, <2>3, <2>4 DEF a, b
<1>5. ASSUME NEW k \in 1 .. Len(live)
      PROVE  LET x == Extent(live[k])
             IN  /\ x.first \in Int /\ x.last \in Int /\ 0 <= x.first
                 /\ x.last < Top(heap)
                 /\ BlockIn(heap, x.first, live[k].size)
  <2> DEFINE x == Extent(live[k])
  <2>1. /\ x.first \in Int /\ x.last \in Int /\ 0 <= x.first
        /\ x.last < x.first + SizeOf(heap, x.first)
        /\ SizeOf(heap, x.first) \in Int
        /\ x.first + SizeOf(heap, x.first) <= Top(heap)
        /\ BlockIn(heap, x.first, live[k].size)
    BY <1>4
  <2> HIDE DEF x
  <2> QED
    BY <1>3, <2>1 DEF x
<1>6. ASSUME NEW j \in 1 .. Len(live), NEW k \in 1 .. Len(live), j < k
      PROVE  Extent(live[j]).last < Extent(live[k]).first
  <2> DEFINE x == Extent(live[j])
             y == Extent(live[k])
  <2>1. /\ x.first = HeaderOfBlock(live[j]) /\ x.first \in Int /\ x.last \in Int
        /\ x.last < x.first + SizeOf(heap, x.first) /\ SizeOf(heap, x.first) \in Int
        /\ y.first = HeaderOfBlock(live[k]) /\ y.first \in Int
    BY <1>4
  <2>2. HeaderOfBlock(live[j]) + SizeOf(heap, HeaderOfBlock(live[j])) <= HeaderOfBlock(live[k])
    BY <1>2, <1>6 DEF Stacked
  <2> HIDE DEF x, y
  <2> QED
    BY <2>1, <2>2 DEF x, y
<1> QED
  BY <1>3, <1>5, <1>6 DEF Spaced

(* The blocks within the heap, whole and apart, in whatever order they lie. *)
Spread ==
  Running =>
    /\ \A k \in 1 .. Len(live) :
         LET x == Extent(live[k])
         IN  /\ x.first \in Int /\ x.last \in Int /\ 0 <= x.first
             /\ x.last < end_address
             /\ BlockIn(heap, x.first, live[k].size)
    /\ \A j, k \in 1 .. Len(live) : j # k => Apart(Extent(live[j]), Extent(live[k]))

(* In the order of their calls they do. *)
LEMMA SpacedSpreads == Sound /\ Spaced => Spread
<1> SUFFICES ASSUME Sound, Spaced, Running PROVE Spread
  BY DEF Spread
<1>1. Top(heap) \in Int /\ Top(heap) <= end_address /\ end_address \in Int
  BY Parts DEF Spaced, Sound, heap
<1>2. ASSUME NEW k \in 1 .. Len(live)
      PROVE  LET x == Extent(live[k])
             IN  /\ x.first \in Int /\ x.last \in Int /\ 0 <= x.first
                 /\ x.last < end_address
                 /\ BlockIn(heap, x.first, live[k].size)
  <2> DEFINE x == Extent(live[k])
  <2>1. /\ x.first \in Int /\ x.last \in Int /\ 0 <= x.first
        /\ x.last < Top(heap) /\ BlockIn(heap, x.first, live[k].size)
    BY DEF Spaced
  <2> HIDE DEF x
  <2>2. x.last < end_address
    BY <1>1, <2>1
  <2> QED
    BY <2>1, <2>2 DEF x
<1>3. ASSUME NEW j \in 1 .. Len(live), NEW k \in 1 .. Len(live), j # k
      PROVE  Apart(Extent(live[j]), Extent(live[k]))
  <2>1. j < k \/ k < j
    BY <1>3 DEF Sound
  <2> QED
    BY <2>1 DEF Spaced, Apart
<1> QED
  BY <1>2, <1>3 DEF Spread

(* Blocks that lie so are disjoint and intact. *)
LEMMA SpreadBlocks == Spread => BlocksDisjoint /\ BlocksIntact
<1>1. Spread => BlocksDisjoint
  BY DEF Spread, BlocksDisjoint
<1>2. Spread => BlocksIntact
  <2> SUFFICES ASSUME Spread, Running, NEW k \in 1 .. Len(live)
               PROVE  LET b == live[k]
                          header == b.p - HeaderSize
                          footer == header + SizeOf(heap, header) - FooterSize
                      IN  /\ Read(heap, header) = Magic /\ IsHole(heap, header) = 0
                          /\ SizeOf(heap, header) >= b.size + Overhead
                          /\ Read(heap, footer) = Magic /\ HeaderOf(heap, footer) = header
    BY DEF BlocksIntact, Blocks
  <2>1. BlockIn(heap, live[k].p - HeaderSize, live[k].size)
    BY DEF Spread, Extent
  <2> QED
    BY <2>1 DEF BlockIn
<1> QED
  BY <1>1, <1>2

(* And backed, if the heap is. *)
LEMMA SpreadBacked ==
  ASSUME Sound, Spread, Running => Framed(heap)
  PROVE  BlocksBacked
<1> SUFFICES ASSUME Running, NEW k \in 1 .. Len(live)
             PROVE  PageOf(Extent(live[k]).first) .. PageOf(Extent(live[k]).last) \subseteq backed
  BY DEF BlocksBacked, Blocks
<1> DEFINE first == Extent(live[k]).first
           last == Extent(live[k]).last
<1>1. /\ first \in Int /\ last \in Int /\ 0 <= first /\ last < end_address
      /\ end_address \in Int
  BY Parts DEF Spread, Sound, heap
<1>2. 0 .. PageOf(end_address - 1) \subseteq backed
  BY DEF Framed, heap
<1> HIDE DEF first, last
<1>3. PageOf(first) \in Nat /\ PageOf(last) <= PageOf(end_address - 1)
  BY <1>1, HeapAssumption DEF PageOf
<1>4. PageOf(last) \in Int /\ PageOf(end_address - 1) \in Int
  BY <1>1, PageInt
<1>5. PageOf(first) .. PageOf(last) \subseteq 0 .. PageOf(end_address - 1)
  BY <1>3, <1>4
<1> QED
  BY <1>2, <1>5 DEF first, last

(* No two blocks in use overlap, headers and footers included: for every number
   of blocks, of any sizes, before and after any growth (kernelheap.c:168-288).  *)
THEOREM BlocksAreDisjoint == Spec /\ []Orderly => []BlocksDisjoint
BY LaidOut, LayoutSpaces, SpacedSpreads, SpreadBlocks, PTL

(* The header and the footer of each block in use are those that alloc wrote:
   neither a later block nor a growth goes over them (kernelheap.c:259-267).  *)
THEOREM BlocksAreIntact == Spec /\ []Orderly => []BlocksIntact
BY LaidOut, LayoutSpaces, SpacedSpreads, SpreadBlocks, PTL

(* Each page that a block in use reaches has a frame, although expand visits the
   new bytes in steps of 1000: the last page, which it may pass over, is the one
   the footer is written to, and a heap that goes on has written it
   (kernelheap.c:66-73, 204-217).  *)
THEOREM BlocksAreBacked == Spec /\ []Orderly => []BlocksBacked
<1>1. Layout => (Running => Framed(heap))
  BY DEF Layout, Tidy
<1>2. Sound /\ Layout => BlocksBacked
  BY <1>1, LayoutSpaces, SpacedSpreads, SpreadBacked
<1> QED
  BY <1>2, LaidOut, PTL

(* Each entry of the index is the header of a hole that no block and no other
   hole reaches into (kernelheap.c:103-128).  *)
THEOREM HolesAreSound == Spec /\ []Orderly => []HolesSound
<1>1. Sound /\ Layout /\ Spaced => HolesSound
  <2> SUFFICES ASSUME Sound, Layout, Spaced, Running, NEW i \in 1 .. Len(index)
               PROVE  /\ Read(heap, index[i]) = Magic /\ IsHole(heap, index[i]) = 1
                      /\ \A b \in Blocks : Apart(HoleExtent(index[i]), Extent(b))
                      /\ \A j \in 1 .. Len(index) :
                           i # j => Apart(HoleExtent(index[i]), HoleExtent(index[j]))
    BY DEF HolesSound
  <2>1. heap.index = index
    BY DEF heap
  <2>2. index # <<>>
    <3> SUFFICES ASSUME index = <<>> PROVE FALSE
      OBVIOUS
    <3>1. Len(index) = 0
      OBVIOUS
    <3> QED
      BY <3>1
  <2>3. PICK a \in Int : index = <<a>> /\ HoleIn(heap, a)
    BY <2>1, <2>2 DEF Layout, Tidy
  <2>4. Len(index) = 1 /\ index[1] = a /\ i = 1 /\ Top(heap) = a
    <3>1. Len(index) = 1 /\ index[1] = a
      BY <2>3
    <3> QED
      BY <2>1, <2>2, <3>1 DEF Top
  <2>5. ASSUME NEW b \in Blocks PROVE Apart(HoleExtent(a), Extent(b))
    <3>1. PICK k \in 1 .. Len(live) : b = live[k]
      BY DEF Blocks
    <3>2. Extent(b).last < a
      BY <2>4, <3>1 DEF Spaced
    <3> QED
      BY <3>2 DEF Apart, HoleExtent
  <2> QED
    BY <2>3, <2>4, <2>5 DEF HoleIn
<1> QED
  BY <1>1, LayoutSpaces, LaidOut, PTL

-----------------------------------------------------------------------------
(* What the folds of Tiled come to.  A fold of the community modules is chosen
   among the functions from sets of positions that satisfy its recursion: f[S]
   is the sum of c over S. *)
Sums(n, c, f) == f = [S \in SUBSET (1 .. n) |->
                        IF S = {} THEN 0 ELSE f[S \ {Max(S)}] + c[Max(S)]]

(* There is such a function, by induction on the number of positions. *)
LEMMA SumsExist == ASSUME NEW n \in Nat, NEW c \in [1 .. n -> Int]
                   PROVE  \E f \in [SUBSET (1 .. n) -> Int] : Sums(n, c, f)
<1> DEFINE P(k) == \E f \in [SUBSET (1 .. k) -> Int] : Sums(k, c, f)
           Bad == {k \in 1 .. n : ~P(k)}
<1>1. P(0)
  <2> DEFINE f == [S \in SUBSET (1 .. 0) |-> 0]
  <2>1. 1 .. 0 = {}
    OBVIOUS
  <2>2. \A S \in SUBSET (1 .. 0) : S = {}
    BY <2>1
  <2>3. f = [S \in SUBSET (1 .. 0) |-> IF S = {} THEN 0 ELSE f[S \ {Max(S)}] + c[Max(S)]]
    BY <2>2
  <2>4. f \in [SUBSET (1 .. 0) -> Int]
    OBVIOUS
  <2> QED
    BY <2>3, <2>4 DEF Sums
<1>2. ASSUME NEW k \in 1 .. n, P(k - 1) PROVE P(k)
  <2>1. PICK f \in [SUBSET (1 .. k - 1) -> Int] : Sums(k - 1, c, f)
    BY <1>2
  <2> DEFINE g == [S \in SUBSET (1 .. k) |-> IF k \in S THEN f[S \ {k}] + c[k] ELSE f[S]]
  <2>2. ASSUME NEW S \in SUBSET (1 .. k), k \in S
        PROVE  /\ S \ {k} \in SUBSET (1 .. k - 1) /\ S # {} /\ Max(S) = k
               /\ g[S] = f[S \ {k}] + c[k] /\ g[S \ {k}] = f[S \ {k}]
               /\ g[S] \in Int
    <3>1. S \ {k} \in SUBSET (1 .. k - 1) /\ S # {} /\ c[k] \in Int
      BY <2>2
    <3>0. k \in Nat /\ S \in SUBSET (1 .. k)
      OBVIOUS
    <3>2. Max(S) \in S /\ k <= Max(S)
      BY <2>2, <3>0, <3>1, Above, Zenon
    <3>3. Max(S) \in 1 .. k
      BY <3>2
    <3>4. Max(S) = k
      BY <3>2, <3>3
    <3>5. S \ {k} \in SUBSET (1 .. k) /\ k \notin S \ {k}
      BY <3>1
    <3>6. f[S \ {k}] \in Int
      BY <3>1
    <3> QED
      BY <2>2, <3>1, <3>4, <3>5, <3>6
  <2>3. ASSUME NEW S \in SUBSET (1 .. k), k \notin S
        PROVE  /\ S \in SUBSET (1 .. k - 1) /\ g[S] = f[S] /\ g[S] \in Int
               /\ S # {} => Max(S) \in S /\ g[S \ {Max(S)}] = f[S \ {Max(S)}]
    <3>1. S \in SUBSET (1 .. k - 1) /\ k \in Nat
      BY <2>3
    <3>2. S # {} => Max(S) \in S
      BY <3>1, Above
    <3>3. S \ {Max(S)} \in SUBSET (1 .. k) /\ k \notin S \ {Max(S)}
      BY <2>3
    <3> QED
      BY <2>3, <3>1, <3>2, <3>3
  <2>4. g = [S \in SUBSET (1 .. k) |-> IF S = {} THEN 0 ELSE g[S \ {Max(S)}] + c[Max(S)]]
    <3> SUFFICES ASSUME NEW S \in SUBSET (1 .. k)
                 PROVE  g[S] = IF S = {} THEN 0 ELSE g[S \ {Max(S)}] + c[Max(S)]
      BY Zenon
    <3> HIDE DEF g
    <3>1. CASE k \in S
      BY <2>2, <3>1
    <3>2. CASE k \notin S
      <4>1. f[S] = IF S = {} THEN 0 ELSE f[S \ {Max(S)}] + c[Max(S)]
        BY <2>1, <2>3, <3>2 DEF Sums
      <4> QED
        BY <2>3, <3>2, <4>1
    <3> QED
      BY <3>1, <3>2
  <2>5. g \in [SUBSET (1 .. k) -> Int]
    BY <2>2, <2>3
  <2> QED
    BY <2>4, <2>5 DEF Sums
<1> HIDE DEF P
<1>3. Bad = {}
  <2> SUFFICES ASSUME Bad # {} PROVE FALSE
    OBVIOUS
  <2>1. Bad \in SUBSET (1 .. n)
    OBVIOUS
  <2>2. Min(Bad) \in Bad /\ \A k \in Bad : Min(Bad) <= k
    BY <2>1, Least
  <2> DEFINE m == Min(Bad)
  <2>3. m \in 1 .. n /\ ~P(m)
    BY <2>2
  <2>4. P(m - 1)
    <3>1. CASE m = 1
      <4>1. m - 1 = 0
        BY <3>1
      <4> QED
        BY <1>1, <4>1
    <3>2. CASE m # 1
      <4>1. m - 1 \in 1 .. n /\ ~(m <= m - 1)
        BY <2>3, <3>2
      <4> QED
        BY <2>2, <4>1
    <3> QED
      BY <3>1, <3>2
  <2> HIDE DEF m
  <2> QED
    BY <1>2, <2>3, <2>4
<1> QED
  <2>1. CASE n = 0
    BY <1>1, <2>1 DEF P
  <2>2. CASE n # 0
    <3>1. n \in 1 .. n
      BY <2>2
    <3> QED
      BY <1>3, <3>1 DEF P
  <2> QED
    BY <2>1, <2>2

(* Its value for all of the positions is the last of the partial sums. *)
LEMMA SumsTo ==
  ASSUME NEW n \in Nat, NEW c, NEW f, Sums(n, c, f),
         NEW b, b[0] = 0, \A k \in 1 .. n : b[k] = b[k - 1] + c[k]
  PROVE  f[1 .. n] = b[n]
<1> DEFINE Bad == {k \in 1 .. n : f[1 .. k] # b[k]}
<1>1. f[1 .. 0] = b[0]
  <2>1. 1 .. 0 = {} /\ {} \in SUBSET (1 .. n)
    OBVIOUS
  <2>2. f[{}] = 0
    BY <2>1 DEF Sums
  <2> QED
    BY <2>1, <2>2
<1>2. ASSUME NEW k \in 1 .. n, f[1 .. k - 1] = b[k - 1] PROVE f[1 .. k] = b[k]
  <2> DEFINE S == 1 .. k
  <2>1. k \in Nat /\ k \in S /\ S \in SUBSET (1 .. k) /\ S \in SUBSET (1 .. n)
    <3>1. k \in 1 .. k /\ 1 .. k \subseteq 1 .. n
      OBVIOUS
    <3> QED
      BY <3>1
  <2>2. Max(S) = k
    <3>1. Max(S) \in S /\ k <= Max(S)
      <4>1. S # {}
        BY <2>1, Zenon
      <4> HIDE DEF S
      <4> QED
        BY <2>1, <4>1, Above
    <3> QED
      BY <3>1
  <2>3. S \ {k} = 1 .. k - 1
    OBVIOUS
  <2> HIDE DEF S
  <2>4. f[S] = f[S \ {Max(S)}] + c[Max(S)]
    <3>1. S # {}
      BY <2>1, Zenon
    <3> QED
      BY <2>1, <3>1 DEF Sums
  <2> QED
    BY <1>2, <2>2, <2>3, <2>4 DEF S
<1>3. ASSUME NEW k \in 1 .. n PROVE f[1 .. k] = b[k]
  <2> SUFFICES ASSUME Bad # {} PROVE FALSE
    OBVIOUS
  <2>1. Bad \in SUBSET (1 .. n)
    OBVIOUS
  <2>2. Min(Bad) \in Bad /\ \A j \in Bad : Min(Bad) <= j
    BY <2>1, Least
  <2> DEFINE m == Min(Bad)
  <2>3. m \in 1 .. n /\ f[1 .. m] # b[m]
    BY <2>2
  <2>4. f[1 .. m - 1] = b[m - 1]
    <3>1. CASE m = 1
      <4>1. m - 1 = 0
        BY <3>1
      <4> QED
        BY <1>1, <4>1
    <3>2. CASE m # 1
      <4>1. m - 1 \in 1 .. n /\ ~(m <= m - 1)
        BY <2>3, <3>2
      <4> QED
        BY <2>2, <4>1
    <3> QED
      BY <3>1, <3>2
  <2> HIDE DEF m
  <2> QED
    BY <1>2, <2>3, <2>4
<1> QED
  <2>1. CASE n = 0
    BY <1>1, <2>1
  <2>2. CASE n # 0
    <3>1. n \in 1 .. n
      BY <2>2
    <3> QED
      BY <1>3, <3>1
  <2> QED
    BY <2>1, <2>2

(* The sizes of the holes of the index add up to the last partial sum. *)
LEMMA HolesSum ==
  ASSUME heap \in Heaps, NEW n \in Nat, DOMAIN index = 1 .. n,
         NEW b, b[0] = 0, \A k \in 1 .. n : b[k] = b[k - 1] + SizeOf(heap, index[k])
  PROVE  FoldLeft(LAMBDA t, a : t + SizeOf(heap, a), 0, index) = b[n]
<1> DEFINE c == [k \in 1 .. n |-> SizeOf(heap, index[k])]
           E(f) == f = [S \in SUBSET (DOMAIN index) |->
                          IF S = {} THEN 0 ELSE f[S \ {Max(S)}] + SizeOf(heap, index[Max(S)])]
           F == CHOOSE f : E(f)
<1>1. FoldLeft(LAMBDA t, a : t + SizeOf(heap, a), 0, index) = F[DOMAIN index]
  BY DEF FoldLeft, MapThenFoldSet
<1>2. DOMAIN c = 1 .. n /\ c \in [1 .. n -> Int] /\ \A k \in 1 .. n : c[k] = SizeOf(heap, index[k])
  BY ReadInt DEF SizeOf
<1> HIDE DEF c
<1>3. ASSUME NEW f PROVE E(f) <=> Sums(n, c, f)
  <2>1. \A S \in SUBSET (1 .. n) : S # {} => SizeOf(heap, index[Max(S)]) = c[Max(S)]
    BY <1>2, Above
  <2> DEFINE x == [S \in SUBSET (1 .. n) |->
                     IF S = {} THEN 0 ELSE f[S \ {Max(S)}] + SizeOf(heap, index[Max(S)])]
             y == [S \in SUBSET (1 .. n) |->
                     IF S = {} THEN 0 ELSE f[S \ {Max(S)}] + c[Max(S)]]
  <2>2. x = y
    BY <2>1
  <2> QED
    BY <2>2, Zenon DEF Sums
<1>4. \E f : E(f)
  <2> HIDE DEF E
  <2> QED
    BY <1>2, <1>3, SumsExist
<1>5. E(F)
  <2> HIDE DEF E
  <2> QED
    BY <1>4, Zenon
<1> HIDE DEF E, F
<1>6. Sums(n, c, F)
  BY <1>3, <1>5
<1>7. F[1 .. n] = b[n]
  BY <1>2, <1>6, SumsTo
<1> QED
  BY <1>1, <1>7

(* So do those of the blocks in use. *)
LEMMA BlocksSum ==
  ASSUME heap \in Heaps, NEW n \in Nat, DOMAIN live = 1 .. n,
         NEW b, b[0] = 0, \A k \in 1 .. n : b[k] = b[k - 1] + SizeOf(heap, live[k].p - HeaderSize)
  PROVE  FoldLeft(LAMBDA t, x : t + SizeOf(heap, x.p - HeaderSize), 0, live) = b[n]
<1> DEFINE c == [k \in 1 .. n |-> SizeOf(heap, live[k].p - HeaderSize)]
           E(f) == f = [S \in SUBSET (DOMAIN live) |->
                          IF S = {} THEN 0
                          ELSE f[S \ {Max(S)}] + SizeOf(heap, live[Max(S)].p - HeaderSize)]
           F == CHOOSE f : E(f)
<1>1. FoldLeft(LAMBDA t, x : t + SizeOf(heap, x.p - HeaderSize), 0, live) = F[DOMAIN live]
  BY DEF FoldLeft, MapThenFoldSet
<1>2. /\ DOMAIN c = 1 .. n /\ c \in [1 .. n -> Int]
      /\ \A k \in 1 .. n : c[k] = SizeOf(heap, live[k].p - HeaderSize)
  BY ReadInt DEF SizeOf
<1> HIDE DEF c
<1>3. ASSUME NEW f PROVE E(f) <=> Sums(n, c, f)
  <2>1. \A S \in SUBSET (1 .. n) : S # {} => SizeOf(heap, live[Max(S)].p - HeaderSize) = c[Max(S)]
    BY <1>2, Above
  <2> DEFINE x == [S \in SUBSET (1 .. n) |->
                     IF S = {} THEN 0
                     ELSE f[S \ {Max(S)}] + SizeOf(heap, live[Max(S)].p - HeaderSize)]
             y == [S \in SUBSET (1 .. n) |->
                     IF S = {} THEN 0 ELSE f[S \ {Max(S)}] + c[Max(S)]]
  <2>2. x = y
    BY <2>1
  <2> QED
    BY <2>2, Zenon DEF Sums
<1>4. \E f : E(f)
  <2> HIDE DEF E
  <2> QED
    BY <1>2, <1>3, SumsExist
<1>5. E(F)
  <2> HIDE DEF E
  <2> QED
    BY <1>4, Zenon
<1> HIDE DEF E, F
<1>6. Sums(n, c, F)
  BY <1>3, <1>5
<1>7. F[1 .. n] = b[n]
  BY <1>2, <1>6, SumsTo
<1> QED
  BY <1>1, <1>7

(* No byte is lost: the sizes of the hole and of the blocks in use add up to the
   size of the heap (kernelheap.c:200-217, 259-287, 325-372). *)
THEOREM HeapIsTiled == Spec /\ []Orderly => []Tiled
<1>1. Sound /\ Layout => Tiled
  <2> DEFINE holes == FoldLeft(LAMBDA s, a : s + SizeOf(heap, a), 0, index)
             blocks == FoldLeft(LAMBDA s, b : s + SizeOf(heap, b.p - HeaderSize), 0, live)
  <2> SUFFICES ASSUME Sound, Layout, Running PROVE holes + blocks = end_address
    BY DEF Tiled
  <2>1. heap \in Heaps /\ live \in Seq(Given(workload))
    BY DEF Sound
  <2>2. heap.index = index /\ heap.end = end_address /\ end_address \in Int
    <3>1. heap.index = index /\ heap.end = end_address
      BY DEF heap
    <3> QED
      BY <2>1, <3>1, Parts
  <2>3. blocks = Top(heap)
    <3> DEFINE n == Len(live)
               e == [k \in 0 .. n |-> Below(heap, live, k + 1)]
    <3>1. n \in Nat /\ DOMAIN live = 1 .. n
      BY <2>1
    <3>2. e[0] = 0 /\ e[n] = Below(heap, live, n + 1)
      BY <3>1 DEF Below
    <3>3. ASSUME NEW k \in 1 .. n
          PROVE  e[k] = e[k - 1] + SizeOf(heap, live[k].p - HeaderSize)
      <4>1. /\ k + 1 # 1 /\ k + 1 - 1 = k /\ k - 1 + 1 = k
            /\ k \in 0 .. n /\ k - 1 \in 0 .. n
        BY <3>1
      <4>2. e[k] = EndOf(heap, live[k]) /\ e[k - 1] = Below(heap, live, k)
        BY <4>1 DEF Below
      <4>3. HeaderOfBlock(live[k]) = Below(heap, live, k)
        BY DEF Layout, Packed
      <4> HIDE DEF e
      <4> QED
        BY <4>2, <4>3 DEF EndOf, HeaderOfBlock
    <3> HIDE DEF e
    <3>4. blocks = e[n]
      BY <2>1, <3>1, <3>2, <3>3, BlocksSum
    <3> QED
      BY <3>2, <3>4 DEF Layout, Packed
  <2> HIDE DEF blocks
  <2>4. CASE index = <<>>
    <3> DEFINE e == [k \in 0 .. 0 |-> 0]
    <3>1. DOMAIN index = 1 .. 0 /\ e[0] = 0
      BY <2>4
    <3>2. \A k \in 1 .. 0 : e[k] = e[k - 1] + SizeOf(heap, index[k])
      OBVIOUS
    <3> HIDE DEF e
    <3>3. holes = e[0]
      BY <2>1, <3>1, <3>2, HolesSum
    <3>4. Top(heap) = end_address
      BY <2>2, <2>4 DEF Top
    <3> HIDE DEF holes
    <3> QED
      BY <2>2, <2>3, <3>1, <3>3, <3>4
  <2>5. ASSUME NEW a \in Int, index = <<a>>, HoleIn(heap, a)
        PROVE  holes + blocks = end_address
    <3> DEFINE m == SizeOf(heap, a)
               e == [k \in 0 .. 1 |-> IF k = 0 THEN 0 ELSE m]
    <3>1. DOMAIN index = 1 .. 1 /\ index[1] = a /\ index # <<>>
      BY <2>5
    <3>2. m \in Int
      BY <2>1, ReadInt DEF SizeOf
    <3>3. e[0] = 0 /\ e[1] = m
      OBVIOUS
    <3>4. \A k \in 1 .. 1 : e[k] = e[k - 1] + SizeOf(heap, index[k])
      <4> HIDE DEF e
      <4>1. e[1] = e[1 - 1] + SizeOf(heap, index[1])
        BY <3>1, <3>2, <3>3
      <4> QED
        BY <4>1
    <3> HIDE DEF e
    <3>5. holes = e[1]
      BY <2>1, <3>1, <3>3, <3>4, HolesSum
    <3>6. Top(heap) = a /\ a + m = end_address
      BY <2>2, <2>5, <3>1 DEF Top, HoleIn
    <3> HIDE DEF holes, m
    <3> QED
      BY <2>2, <2>3, <3>2, <3>3, <3>5, <3>6
  <2> QED
    BY <2>2, <2>4, <2>5 DEF Layout, Tidy
<1> QED
  BY <1>1, LaidOut, PTL

-----------------------------------------------------------------------------
(* All of this holds whatever is asked for, the growth past the page table included:
   it needs no assumption on the size of the heap (kernelheap.c:168-378). *)
THEOREM HeapIsSound ==
  Spec /\ []LastFirst /\ []~Coincidence
    => [](BlocksDisjoint /\ BlocksIntact /\ BlocksBacked /\ HolesSound /\ Tiled)
<1>1. LastFirst /\ OneTable => Orderly
  BY DEF Orderly
<1> QED
  BY <1>1, KeepsToOneTable, BlocksAreDisjoint, BlocksAreIntact, BlocksAreBacked, HolesAreSound,
     HeapIsTiled, PTL

(* When no hole fits, the heap ends in a hole, or has none: it grows where it ends
   (kernelheap.c:196-217).  *)
THEOREM RequestsFit == Spec /\ []Orderly => []RequestFits
<1>1. Sound /\ Layout /\ Orderly => RequestFits
  <2> SUFFICES ASSUME Sound, Layout, Orderly, Running, request # NoRequest
               PROVE  EndsInHole(heap) /\ request.align = FALSE
    BY DEF RequestFits
  <2>1. request.align = FALSE
    <3>1. request.align \in workload.aligns /\ workload.aligns \subseteq {FALSE}
      BY DEF Sound, Orderly, LastFirst
    <3> QED
      BY <3>1
  <2>2. EndsInHole(heap)
    <3>1. CASE heap.index = <<>>
      BY <3>1 DEF EndsInHole
    <3>2. CASE heap.index # <<>>
      <4>1. PICK a \in Int : heap.index = <<a>> /\ HoleIn(heap, a)
        BY <3>2 DEF Layout, Tidy
      <4>2. 1 \in 1 .. Len(heap.index) /\ heap.index[1] = a
        BY <4>1
      <4> QED
        BY <4>1, <4>2 DEF EndsInHole, HoleIn
    <3> QED
      BY <3>1, <3>2
  <2> QED
    BY <2>1, <2>2
<1> QED
  BY <1>1, LaidOut, PTL

(* After a growth the request fits: alloc calls itself once at most
   (kernelheap.c:223-224).  *)
THEOREM GrowthSuffices == Spec /\ []Orderly => EnoughAfterGrow
<1>1. Sound /\ Layout /\ Orderly /\ Orderly' /\ [Next]_vars
        => [end_address' > end_address => ~Running' \/ Fitting' # 0]_vars
  <2> SUFFICES ASSUME Sound, Layout, Orderly, OneTable', Next,
                      end_address' > end_address, Running'
               PROVE  Fitting' # 0
    BY DEF Orderly
  <2>1. end_address \in Int
    BY Parts DEF Sound, heap
  <2>2. CASE Grow
    BY <2>2, LayoutGrow
  <2>3. CASE Place
    <3>1. end_address' = end_address
      BY <2>3, LayoutPlace
    <3> QED
      BY <2>1, <3>1
  <2>4. ASSUME NEW size, NEW page_align, Call(size, page_align) PROVE FALSE
    BY <2>1, <2>4 DEF Call
  <2>5. ASSUME NEW i \in 1 .. Len(live), Free(i) PROVE FALSE
    <3>1. end_address' = MinSize
      BY <2>5, LayoutFree
    <3>2. end_address \in MinSize .. MaxAddress /\ MinSize \in Int
      BY Parts, HeapAssumption DEF Sound, heap
    <3> QED
      BY <3>1, <3>2
  <2> QED
    BY <2>2, <2>3, <2>4, <2>5 DEF Next
<1> QED
  BY <1>1, LaidOut, PTL DEF Spec, EnoughAfterGrow

(* A placement that gives a block out has not stopped the machine. *)
LEMMA PlaceRuns == ASSUME Sound, Place, live' # live PROVE Running'
<1> DEFINE placed == place(heap, Fitting, request.size, request.align)
           p == BlockAt(index[Fitting], request.align) + HeaderSize
           full == Fill(placed, p, request.size)
<1>1. placed.status = "ok" /\ Become(full)
  BY Zenon DEF Place
<1> HIDE DEF placed
<1>2. full.status = placed.status
  <2>1. Fitting \in 1 .. Len(heap.index)
    <3>1. Len(heap.index) \in Nat
      BY Parts DEF Sound
    <3> QED
      BY <3>1, Fits DEF Fitting, Place, Sound, heap
  <2>2. request.size \in Int
    BY Sizes DEF Sound, Place
  <2>3. placed \in Heaps
    BY <2>1, <2>2, Places DEF Sound, placed
  <2> QED
    BY <2>3 DEF Fill, Heaps
<1> HIDE DEF full
<1> QED
  BY <1>1, <1>2 DEF Become, Running

(* Blocks whose extents are apart have no byte in common. *)
LEMMA ApartBytes ==
  ASSUME NEW b, b.p \in Int, b.size \in Nat \ {0}, NEW c, c.p \in Int, c.size \in Nat \ {0},
         Apart(Extent(b), Extent(c))
  PROVE  (b.p + b.size <= c.p \/ c.p + c.size <= b.p) /\ b.p # c.p
<1>1. \/ b.p + b.size + 8 - 1 < c.p - 12
      \/ c.p + c.size + 8 - 1 < b.p - 12
  BY DEF Apart, Extent, HeaderSize, FooterSize
<1> QED
  BY <1>1

(* A block given out apart from the others, inside the heap, is a step of Allocator. *)
LEMMA AllocStep ==
  ASSUME Sound, Sound', Spread', Running', workload' = workload,
         NEW b \in Given(workload), live' = Append(live, b)
  PROVE  Promised!Alloc
<1> DEFINE region(c) == [p |-> c.p, size |-> c.size]
           regions == {region(c) : c \in Blocks}
           n == Len(live)
           r == region(b)
<1>1. /\ n \in Nat /\ Len(live') = n + 1 /\ live'[n + 1] = b
      /\ \A k \in 1 .. n : live'[k] = live[k]
  BY AppendProperties DEF Sound
<1> HIDE DEF n
<1>2. Blocks' = Blocks \cup {b}
  <2>1. 1 .. n + 1 = 1 .. n \cup {n + 1}
    BY <1>1
  <2>2. Blocks = {live[k] : k \in 1 .. n}
    BY DEF Blocks, n
  <2>3. Blocks' = {live'[k] : k \in 1 .. n + 1}
    BY <1>1 DEF Blocks
  <2> QED
    BY <1>1, <2>1, <2>2, <2>3
<1>3. regions' = regions \cup {r}
  BY <1>2
<1>4. b.p \in Int /\ b.size \in Nat \ {0}
  <2>1. b.p \in Int /\ b.size \in workload.sizes
    BY DEF Given
  <2> QED
    BY <2>1, Sizes DEF Sound
<1>5. MaxAddress \in Int
  BY HeapAssumption
<1>6. b.p >= 12 /\ b.p + b.size <= MaxAddress
  <2>1. 0 <= Extent(b).first /\ Extent(b).last < end_address'
    BY <1>1 DEF Spread
  <2>2. end_address' \in Int /\ end_address' <= MaxAddress
    <3>1. heap' \in Heaps /\ heap'.end = end_address'
      BY DEF Sound, heap
    <3>2. MinSize \in Int /\ MaxAddress \in Int
      BY HeapAssumption
    <3> QED
      BY <3>1, <3>2 DEF Heaps
  <2> QED
    BY <1>4, <1>5, <2>1, <2>2 DEF Extent, HeaderSize, FooterSize
<1>7. ASSUME NEW other \in regions
      PROVE  /\ other.p # b.p
             /\ b.p + b.size <= other.p \/ other.p + other.size <= b.p
  <2>1. PICK k \in 1 .. n : other = region(live[k])
    BY DEF Blocks, n
  <2>2. live[k].p \in Int /\ live[k].size \in Nat \ {0}
    <3>1. live[k] \in Given(workload)
      BY DEF Sound, n
    <3>2. live[k].p \in Int /\ live[k].size \in workload.sizes
      BY <3>1 DEF Given
    <3> QED
      BY <3>2, Sizes DEF Sound
  <2>3. Apart(Extent(live[k]), Extent(b))
    <3>1. k \in 1 .. Len(live') /\ n + 1 \in 1 .. Len(live') /\ k # n + 1
      BY <1>1
    <3>2. Apart(Extent(live'[k]), Extent(live'[n + 1]))
      BY <3>1 DEF Spread
    <3> QED
      BY <1>1, <3>2
  <2> QED
    BY <1>4, <2>1, <2>2, <2>3, ApartBytes
<1>8. r \notin regions
  BY <1>7
<1>9. r \in Promised!Region /\ Promised!Bytes(r) \subseteq 0 .. MaxAddress - 1
  BY <1>4, <1>5, <1>6 DEF Promised!Region, Promised!Bytes
<1>10. \A other \in regions : r.p + r.size <= other.p \/ other.p + other.size <= r.p
  BY <1>7
<1> HIDE DEF r, regions
<1>11. r \in regions' \ regions
  BY <1>3, <1>8
<1> QED
  BY <1>3, <1>9, <1>10, <1>11 DEF Promised!Alloc, regions

(* At first nothing is given out. *)
LEMMA AllocInit == Init => Promised!Init
<1> SUFFICES ASSUME Init PROVE Blocks = {}
  BY DEF Promised!Init
<1>1. live = <<>> /\ Len(live) = 0
  BY DEF Init
<1> QED
  BY <1>1 DEF Blocks

(* alloc gives out memory that nobody else has, inside the heap, and it stays
   its owner's: each step is a step of Allocator or changes no region
   (kernelheap.c:168-288, kernelheap.h:52-60).  *)
THEOREM HeapImplementsAllocator == Spec /\ []Orderly => IsAllocator
<1> DEFINE region(b) == [p |-> b.p, size |-> b.size]
           regions == {region(b) : b \in Blocks}
<1>1. ASSUME Sound, Layout, Orderly, Sound', Spread', Place, live' # live
      PROVE  Promised!Alloc
  <2>1. Running'
    BY <1>1, PlaceRuns
  <2>2. PICK b \in Given(workload) : live' = Append(live, b)
    BY <1>1, <2>1, LayoutPlace
  <2>3. workload' = workload
    BY <1>1 DEF Place
  <2> QED
    BY <1>1, <2>1, <2>2, <2>3, AllocStep
<1>2. ASSUME Sound, Layout, Spread, Orderly, NEW i \in 1 .. Len(live), Free(i)
      PROVE  Promised!Free
  <2> DEFINE n == Len(live)
             r == region(live[n])
  <2>1. live \in Seq(Given(workload)) /\ workload \in Workloads
    BY <1>2 DEF Sound
  <2>2. i = n /\ n \in Nat /\ n # 0 /\ n \in 1 .. n /\ Running
    BY <1>2, <2>1 DEF Free, Orderly, LastFirst, Running
  <2>3. live' = RemoveAt(live, n)
    BY <1>2, <2>2 DEF Free
  <2>4. Len(live') = n - 1 /\ \A k \in 1 .. n - 1 : live'[k] = live[k]
    BY <2>1, <2>2, <2>3, LastOut
  <2>5. ASSUME NEW k \in 1 .. n - 1 PROVE region(live[k]) # r
    <3>1. k \in 1 .. n /\ k < n
      BY <2>2
    <3> DEFINE x == live[k]
               y == live[n]
    <3>2. Apart(Extent(x), Extent(y))
      BY <1>2, <2>2, <3>1 DEF Spread
    <3>3. x \in Given(workload) /\ y \in Given(workload)
      BY <2>1, <2>2, <3>1
    <3> HIDE DEF x, y
    <3>4. /\ x.p \in Int /\ x.size \in workload.sizes
          /\ y.p \in Int /\ y.size \in workload.sizes
      BY <3>3 DEF Given
    <3>5. x.size \in Nat \ {0} /\ y.size \in Nat \ {0}
      <4>1. \A m \in workload.sizes : m \in Nat \ {0}
        BY <2>1, Sizes
      <4> QED
        BY <3>4, <4>1
    <3>6. x.p # y.p
      BY <3>2, <3>4, <3>5, ApartBytes
    <3> QED
      BY <3>6 DEF x, y
  <2> HIDE DEF n
  <2>6. regions' = {region(live[k]) : k \in 1 .. n - 1}
    BY <2>4 DEF Blocks
  <2>7. regions = {region(live[k]) : k \in 1 .. n}
    BY DEF Blocks, n
  <2>8. 1 .. n = 1 .. n - 1 \cup {n}
    BY <2>2
  <2> HIDE DEF regions, region
  <2>9. r \in regions /\ r \notin regions' /\ regions' = regions \ {r}
    BY <2>5, <2>6, <2>7, <2>8
  <2> QED
    BY <2>9 DEF Promised!Free, regions, region
<1>3. Sound /\ Layout /\ Spread /\ Orderly /\ Sound' /\ Spread' /\ [Next]_vars
        => [Promised!Next]_regions
  <2> SUFFICES ASSUME Sound, Layout, Spread, Orderly, Sound', Spread', [Next]_vars,
                      live' # live
               PROVE  Promised!Next
    BY DEF Blocks
  <2>1. ~ Grow
    BY DEF Grow
  <2>2. ASSUME NEW size, NEW page_align, Call(size, page_align) PROVE FALSE
    BY <2>2 DEF Call
  <2> QED
    BY <1>1, <1>2, <2>1, <2>2 DEF Next, vars, Promised!Next
<1>4. Spec /\ []Orderly => []Sound /\ []Layout
  BY LaidOut, PTL
<1>5. Spec /\ []Orderly => []Spread
  BY LaidOut, LayoutSpaces, SpacedSpreads, PTL
<1> HIDE DEF regions
<1> QED
  BY AllocInit, <1>3, <1>4, <1>5, PTL DEF Spec, IsAllocator, Promised!Spec, regions

-----------------------------------------------------------------------------
(* A hole within the heap. *)
HoleThere(h, a) ==
  /\ a >= 0 /\ Read(h, a) = Magic /\ IsHole(h, a) = 1
  /\ SizeOf(h, a) >= Overhead /\ a + SizeOf(h, a) <= h.end

(* The header and the footer that make a block write inside of it. *)
LEMMA Takes ==
  ASSUME NEW h \in Heaps, NEW c \in Int, NEW size \in Int, size >= 0,
         PutFooter(PutHeader(h, c, 0, size + Overhead), c + HeaderSize + size, c).status = "ok"
  PROVE  LET t == PutFooter(PutHeader(h, c, 0, size + Overhead), c + HeaderSize + size, c)
         IN  /\ t \in Heaps /\ Same(t, h) /\ PageOf(c + size + 16) \in h.backed
             /\ BlockIn(t, c, size) /\ SizeOf(t, c) = size + Overhead
             /\ \A x \in Int : x < c \/ x >= c + size + Overhead => Read(t, x) = Read(h, x)
<1> DEFINE new_size == size + Overhead
           footer == c + HeaderSize + size
           headed == PutHeader(h, c, 0, new_size)
           t == PutFooter(headed, footer, c)
<1>1. /\ new_size \in Int /\ new_size = size + 20 /\ footer \in Int
      /\ footer = c + size + 12 /\ footer + 4 = c + size + 16
  BY DEF Overhead, HeaderSize, FooterSize
<1>2. t.status = "ok"
  OBVIOUS
<1> HIDE DEF new_size, footer
<1>3. headed \in Heaps
  BY <1>1, PutHeaderHeap
<1>4. t \in Heaps
  <2> HIDE DEF headed
  <2> QED
    BY <1>1, <1>3, PutFooterHeap
<1>5. /\ Same(t, headed) /\ PageOf(footer + 4) \in headed.backed
      /\ \A x \in Int : Read(t, x) = IF x = footer THEN Magic ELSE IF x = footer + 4 THEN c
                                     ELSE Read(headed, x)
  <2>1. PutFooter(headed, footer, c).status = "ok"
    BY <1>2
  <2>2. headed \in Heaps /\ footer \in Int /\ c \in Int
    BY <1>1, <1>3
  <2> HIDE DEF headed
  <2> QED
    BY <2>1, <2>2, FooterPut
<1> HIDE DEF t
<1>6. /\ Same(headed, h)
      /\ \A x \in Int : Read(headed, x) = IF x = c THEN Magic ELSE IF x = c + 4 THEN 0
                                          ELSE IF x = c + 8 THEN new_size ELSE Read(h, x)
  <2>1. headed.status = "ok" /\ new_size \in Int /\ 0 \in Int
    BY <1>1, <1>5 DEF Same
  <2> QED
    BY <2>1, HeaderPut
<1> HIDE DEF headed
<1>7. Same(t, h) /\ PageOf(c + size + 16) \in h.backed
  BY <1>1, <1>5, <1>6 DEF Same
<1>8. Read(t, c) = Magic /\ IsHole(t, c) = 0 /\ SizeOf(t, c) = new_size
  <2>1. /\ c \in Int /\ c + 4 \in Int /\ c + 8 \in Int /\ c + 4 # c /\ c + 8 # c /\ c + 8 # c + 4
        /\ c # footer /\ c + 4 # footer /\ c + 8 # footer
        /\ c # footer + 4 /\ c + 4 # footer + 4 /\ c + 8 # footer + 4
    BY <1>1
  <2> QED
    BY <1>5, <1>6, <2>1 DEF IsHole, SizeOf
<1>9. c + SizeOf(t, c) - FooterSize = footer
  BY <1>1, <1>8 DEF FooterSize
<1>10. Read(t, footer) = Magic /\ HeaderOf(t, footer) = c
  BY <1>1, <1>5 DEF HeaderOf
<1>11. BlockIn(t, c, size)
  <2>1. SizeOf(t, c) >= size + Overhead
    BY <1>1, <1>8 DEF Overhead, HeaderSize, FooterSize
  <2> QED
    BY <1>8, <1>9, <1>10, <2>1 DEF BlockIn
<1>12. ASSUME NEW x \in Int, x < c \/ x >= c + size + Overhead PROVE Read(t, x) = Read(h, x)
  <2>1. x < c \/ x >= c + new_size
    BY <1>1, <1>12 DEF Overhead, HeaderSize, FooterSize
  <2>2. x # c /\ x # c + 4 /\ x # c + 8 /\ x # footer /\ x # footer + 4
    BY <1>1, <2>1
  <2> QED
    BY <1>5, <1>6, <2>2
<1> QED
  BY <1>4, <1>7, <1>8, <1>11, <1>12 DEF t, headed, new_size, footer

(* What is left behind a block becomes a hole, with a header and a footer inside of it. *)
LEMMA SplitsOff ==
  ASSUME NEW h \in Heaps, NEW a \in Int, a >= 0, NEW n \in Int, n >= Overhead,
         a + n <= h.end, split_back(h, a, n).status = "ok"
  PROVE  LET t == split_back(h, a, n)
         IN  /\ h.status = "ok" /\ t.index = <<a>> \o h.index /\ t.end = h.end
             /\ t.backed = h.backed /\ HoleThere(t, a) /\ SizeOf(t, a) = n
             /\ \A x \in Int : x < a \/ x >= a + n => Read(t, x) = Read(h, x)
<1> DEFINE headed == PutHeader(h, a, 1, n)
           footer == a + n - FooterSize
           footed == PutFooter(headed, footer, a)
           ended == IF footer < h.end THEN footed ELSE headed
           t == split_back(h, a, n)
<1>1. /\ footer \in Int /\ footer = a + n - 8 /\ n >= 20 /\ h.end \in Int /\ footer < h.end
  <2>1. n >= 20 /\ h.end \in Int
    BY Parts DEF Overhead, HeaderSize, FooterSize
  <2>2. footer = a + n - 8
    BY DEF FooterSize
  <2> HIDE DEF footer
  <2> QED
    BY <2>1, <2>2
<1>2. t = insert_ordered_array(footed, a) /\ t.status = "ok"
  BY <1>1 DEF split_back
<1> HIDE DEF footer
<1>3. headed \in Heaps
  BY PutHeaderHeap
<1> HIDE DEF headed
<1>4. footed \in Heaps
  BY <1>1, <1>3, PutFooterHeap
<1> HIDE DEF footed, t
<1>5. /\ footed.status = "ok" /\ t.index = <<a>> \o footed.index /\ t.end = footed.end
      /\ t.backed = footed.backed /\ \A x \in Int : Read(t, x) = Read(footed, x)
  BY <1>2, <1>4, Inserted
<1>6. /\ Same(footed, headed)
      /\ \A x \in Int : Read(footed, x) = IF x = footer THEN Magic ELSE IF x = footer + 4 THEN a
                                          ELSE Read(headed, x)
  BY <1>1, <1>3, <1>5, FooterPut DEF footed
<1>7. /\ Same(headed, h)
      /\ \A x \in Int : Read(headed, x) = IF x = a THEN Magic ELSE IF x = a + 4 THEN 1
                                          ELSE IF x = a + 8 THEN n ELSE Read(h, x)
  BY <1>3, <1>6, HeaderPut DEF headed, Same
<1>8. h.status = "ok" /\ t.index = <<a>> \o h.index /\ t.end = h.end /\ t.backed = h.backed
  BY <1>5, <1>6, <1>7 DEF Same
<1>9. Read(t, a) = Magic /\ IsHole(t, a) = 1 /\ SizeOf(t, a) = n
  <2>1. /\ a \in Int /\ a + 4 \in Int /\ a + 8 \in Int /\ a + 4 # a /\ a + 8 # a /\ a + 8 # a + 4
        /\ a # footer /\ a + 4 # footer /\ a + 8 # footer
        /\ a # footer + 4 /\ a + 4 # footer + 4 /\ a + 8 # footer + 4
    BY <1>1
  <2> QED
    BY <1>5, <1>6, <1>7, <2>1 DEF IsHole, SizeOf
<1>10. HoleThere(t, a)
  BY <1>8, <1>9 DEF HoleThere
<1>11. ASSUME NEW x \in Int, x < a \/ x >= a + n PROVE Read(t, x) = Read(h, x)
  <2>1. x # a /\ x # a + 4 /\ x # a + 8 /\ x # footer /\ x # footer + 4
    BY <1>1, <1>11
  <2> QED
    BY <1>5, <1>6, <1>7, <2>1
<1> QED
  BY <1>8, <1>9, <1>10, <1>11 DEF t

(* A block for n bytes at c, in place of the bytes of h up to z; the rest of them, if
   any, is the first hole of the index. *)
Carved(h, t, c, n, z) ==
  LET back == c + SizeOf(t, c)
  IN  /\ h.status = "ok" /\ t.end = h.end /\ t.backed = h.backed /\ BlockIn(t, c, n)
      /\ \A x \in Int : x < c \/ x >= z => Read(t, x) = Read(h, x)
      /\ \/ t.index = h.index /\ back = z
         \/ t.index = <<back>> \o h.index /\ HoleThere(t, back) /\ back + SizeOf(t, back) = z

(* So place makes a block, if what is left behind it is nothing or has room for a
   header and a footer. *)
LEMMA Carves ==
  ASSUME NEW h \in Heaps, NEW c \in Int, c >= 0, NEW n \in Int, NEW size \in Int, n >= 0, size >= n,
         NEW left \in Int, left = 0 \/ left >= Overhead,
         NEW z \in Int, z = c + size + Overhead + left, z <= h.end,
         split_back(PutFooter(PutHeader(h, c, 0, size + Overhead), c + HeaderSize + size, c),
                    c + (size + Overhead), left).status = "ok"
  PROVE  Carved(h, split_back(PutFooter(PutHeader(h, c, 0, size + Overhead),
                                        c + HeaderSize + size, c),
                              c + (size + Overhead), left), c, n, z)
<1> DEFINE taken == PutFooter(PutHeader(h, c, 0, size + Overhead), c + HeaderSize + size, c)
           back == c + (size + Overhead)
           t == split_back(taken, back, left)
<1>1. /\ back \in Int /\ back = c + size + 20 /\ z = back + left
      /\ size + Overhead = size + 20 /\ c + size + Overhead = back
  BY DEF Overhead, HeaderSize, FooterSize
<1>2. taken \in Heaps
  <2>1. PutHeader(h, c, 0, size + Overhead) \in Heaps
    BY <1>1, PutHeaderHeap
  <2>2. c + HeaderSize + size \in Int
    BY DEF HeaderSize
  <2> QED
    BY <2>1, <2>2, PutFooterHeap
<1>3. t.status = "ok"
  OBVIOUS
<1>4. ASSUME taken.status = "ok"
      PROVE  /\ Same(taken, h) /\ BlockIn(taken, c, size) /\ SizeOf(taken, c) = size + 20
             /\ \A x \in Int : x < c \/ x >= back => Read(taken, x) = Read(h, x)
  BY <1>1, <1>4, Takes
<1> HIDE DEF taken, back, t
<1>5. CASE left = 0
  <2>1. t = taken
    BY <1>5 DEF t, split_back
  <2>2. back = z
    BY <1>1, <1>5
  <2>3. BlockIn(taken, c, n)
    <3>1. size + 20 >= n + Overhead
      BY DEF Overhead, HeaderSize, FooterSize
    <3> QED
      BY <1>3, <1>4, <2>1, <3>1 DEF BlockIn
  <2>4. c + SizeOf(t, c) = z
    BY <1>1, <1>3, <1>4, <2>1, <2>2
  <2>5. /\ taken.index = h.index /\ taken.end = h.end /\ taken.backed = h.backed /\ h.status = "ok"
    BY <1>3, <1>4, <2>1 DEF Same
  <2>6. \A x \in Int : x < c \/ x >= z => Read(t, x) = Read(h, x)
    BY <1>3, <1>4, <2>1, <2>2
  <2>7. Carved(h, t, c, n, z)
    BY <2>1, <2>3, <2>4, <2>5, <2>6 DEF Carved
  <2> QED
    BY <2>7 DEF t, taken, back
<1>6. CASE left # 0
  <2>1. left >= Overhead /\ left >= 20 /\ back >= 0
    BY <1>1, <1>6 DEF Overhead, HeaderSize, FooterSize
  <2>2. /\ taken.status = "ok" /\ t.index = <<back>> \o taken.index /\ t.end = taken.end
        /\ t.backed = taken.backed /\ HoleThere(t, back) /\ SizeOf(t, back) = left
        /\ \A x \in Int : x < back \/ x >= back + left => Read(t, x) = Read(taken, x)
    <3>1. taken.status = "ok" => taken.end = h.end
      BY <1>4 DEF Same
    <3>2. taken.end = h.end
      <4>1. taken.end = h.end
        <5>1. PutHeader(h, c, 0, size + Overhead).end = h.end
          BY HeaderEnd
        <5> QED
          BY <5>1, FooterEnd DEF taken
      <4> QED
        BY <4>1
    <3>3. back + left <= taken.end
      BY <1>1, <3>2
    <3> QED
      BY <1>1, <1>2, <1>3, <2>1, <3>3, SplitsOff DEF t
  <2>3. /\ taken.index = h.index /\ taken.end = h.end /\ taken.backed = h.backed /\ h.status = "ok"
    BY <1>4, <2>2 DEF Same
  <2>4. back + left = z /\ c < back
    BY <1>1
  <2>5. BlockIn(t, c, n) /\ SizeOf(t, c) = size + 20
    <3>1. t \in Heaps
      <4>1. back \in Int /\ left \in Int
        BY <1>1
      <4> QED
        BY <1>2, <4>1, SplitsBack DEF t
    <3>2. c + SizeOf(taken, c) <= back /\ \A x \in Int : x < back => Read(t, x) = Read(taken, x)
      BY <1>1, <1>4, <2>2
    <3>0. size >= 0 /\ BlockIn(taken, c, size)
      BY <1>4, <2>2
    <3>3. BlockIn(t, c, size) /\ SizeOf(t, c) = SizeOf(taken, c)
      BY <1>1, <1>2, <3>0, <3>1, <3>2, BlockKept
    <3>4. size + 20 >= n + Overhead
      BY DEF Overhead, HeaderSize, FooterSize
    <3> QED
      BY <1>4, <2>2, <3>3, <3>4 DEF BlockIn
  <2>6. ASSUME NEW x \in Int, x < c \/ x >= z PROVE Read(t, x) = Read(h, x)
    <3>1. x < back \/ x >= back + left
      BY <1>1, <2>4, <2>6
    <3>2. x < c \/ x >= back
      BY <1>1, <2>1, <2>4, <2>6
    <3> QED
      BY <1>4, <2>2, <3>1, <3>2
  <2>7. c + SizeOf(t, c) = back
    BY <1>1, <2>5
  <2>8. back + SizeOf(t, back) = z
    BY <2>2, <2>4
  <2>9. Carved(h, t, c, n, z)
    BY <2>2, <2>3, <2>5, <2>6, <2>7, <2>8 DEF Carved
  <2> QED
    BY <2>9 DEF t, taken, back
<1> QED
  BY <1>5, <1>6

(* What a block absorbs is all that is behind it, or nothing. *)
LEMMA Absorbs ==
  ASSUME NEW orig \in Int, NEW m \in Int
  PROVE  LET n == Absorbed(orig, m)
         IN  n \in Nat /\ (n = orig - m \/ (n = 0 /\ (orig >= m => orig - m >= 20)))
<1>1. Overhead = 20
  BY DEF Overhead, HeaderSize, FooterSize
<1>2. CASE orig - m \in 0 .. Overhead - 1
  <2>1. Absorbed(orig, m) = orig - m
    BY <1>2 DEF Absorbed
  <2> QED
    BY <1>1, <1>2, <2>1
<1>3. CASE orig - m \notin 0 .. Overhead - 1
  <2>1. Absorbed(orig, m) = 0
    BY <1>3 DEF Absorbed
  <2> QED
    BY <1>1, <1>3, <2>1
<1> QED
  BY <1>2, <1>3

(* A block at the front of a hole, which leaves the index; nothing else changes. *)
LEMMA PlacesOpen ==
  ASSUME NEW h \in Heaps, NEW i \in 1 .. Len(h.index), HoleThere(h, h.index[i]),
         NEW n \in Int, n >= 0, SizeOf(h, h.index[i]) >= n + Overhead,
         place(h, i, n, FALSE).status = "ok"
  PROVE  \E o \in Heaps :
           /\ o.status = h.status /\ o.end = h.end /\ o.backed = h.backed
           /\ o.index = RemoveAt(h.index, i) /\ \A x \in Int : Read(o, x) = Read(h, x)
           /\ Carved(o, place(h, i, n, FALSE), h.index[i], n, h.index[i] + SizeOf(h, h.index[i]))
<1> DEFINE a == h.index[i]
           orig == SizeOf(h, a)
           size == n + Absorbed(orig, n + Overhead)
           o == remove_ordered_array(h, i)
           left == orig - (size + Overhead)
           taken == PutFooter(PutHeader(o, a, 0, size + Overhead), a + HeaderSize + size, a)
           z == a + orig
           t == place(h, i, n, FALSE)
<1>1. a \in Int /\ a >= 0 /\ orig \in Int /\ orig >= n + 20 /\ z <= h.end
  <2>1. a \in Int
    BY Parts
  <2>2. orig \in Int
    BY ReadInt DEF SizeOf
  <2> QED
    BY <2>1, <2>2 DEF HoleThere, Overhead, HeaderSize, FooterSize
<1>2. t = split_back(taken, a + (size + Overhead), left)
  BY DEF place, BlockAt, BackAt
<1>3. o \in Heaps
  BY RemoveHeap
<1>4. /\ o.status = h.status /\ o.end = h.end /\ o.backed = h.backed
      /\ \A x \in Int : Read(o, x) = Read(h, x)
      /\ h.status = "ok" => o.index = RemoveAt(h.index, i)
  BY DEF remove_ordered_array, Read, Heaps
<1>5. t.status = "ok"
  OBVIOUS
<1> HIDE DEF o, a, orig, t
<1>6. size \in Int /\ size >= n /\ (left = 0 \/ left >= 20) /\ left \in Int
  <2> DEFINE more == Absorbed(orig, n + Overhead)
  <2>1. Overhead = 20 /\ n + Overhead \in Int
    BY DEF Overhead, HeaderSize, FooterSize
  <2>2. /\ more \in Nat
        /\ \/ more = orig - (n + Overhead)
           \/ more = 0 /\ (orig >= n + Overhead => orig - (n + Overhead) >= 20)
    BY <1>1, <2>1, Absorbs
  <2>3. size = n + more /\ left = orig - (n + more + Overhead)
    OBVIOUS
  <2> HIDE DEF more, size, left
  <2> QED
    BY <1>1, <2>1, <2>2, <2>3
<1>7. z = a + size + Overhead + left /\ z \in Int
  BY <1>1, <1>6 DEF Overhead, HeaderSize, FooterSize
<1> HIDE DEF size, left
<1>8. Carved(o, t, a, n, z)
  <2>1. left = 0 \/ left >= Overhead
    BY <1>6 DEF Overhead, HeaderSize, FooterSize
  <2>2. z <= o.end
    BY <1>1, <1>4
  <2> HIDE DEF z
  <2> QED
    BY <1>1, <1>2, <1>3, <1>5, <1>6, <1>7, <2>1, <2>2, Carves
<1>9. h.status = "ok"
  BY <1>4, <1>8 DEF Carved
<1> QED
  BY <1>3, <1>4, <1>8, <1>9 DEF t, a, z, orig

(* A block at a page boundary in a hole that has room for it there: what is in front of
   it stays a hole, smaller.  Beyond the last page of the heap the machine stops. *)
LEMMA PlacesWide ==
  ASSUME NEW h \in Heaps, NEW i \in 1 .. Len(h.index), HoleThere(h, h.index[i]),
         NEW n \in Int, n >= 0, SizeOf(h, h.index[i]) >= n + Overhead,
         Wide(h, h.index[i], n) \/ Beyond(h, h.index[i], n), NoFrameAfter(h),
         place(h, i, n, TRUE).status = "ok"
  PROVE  \E o \in Heaps :
           LET a == h.index[i]
               f == FrontSize(a)
               z == a + SizeOf(h, a)
           IN  /\ f >= Overhead /\ f <= SizeOf(h, a)
               /\ o.status = h.status /\ o.end = h.end /\ o.backed = h.backed
               /\ o.index = h.index /\ HoleThere(o, a) /\ SizeOf(o, a) = f
               /\ \A x \in Int : x < a \/ x >= a + f => Read(o, x) = Read(h, x)
               /\ Carved(o, place(h, i, n, TRUE), a + f, n, z)
<1> DEFINE a == h.index[i]
           orig == SizeOf(h, a)
           f == FrontSize(a)
           c == a + f
           size == n + Absorbed(orig, n + Overhead)
           o == split_front(h, a)
           headed == PutHeader(o, c, 0, size + Overhead)
           taken == PutFooter(headed, c + HeaderSize + size, c)
           left == Rest(orig, SizeOf(o, a)) - (size + Overhead)
           z == a + orig
           t == place(h, i, n, TRUE)
<1>0. Overhead = 20 /\ HeaderSize = 12 /\ FooterSize = 8
  BY DEF Overhead, HeaderSize, FooterSize
<1>1. a \in Int /\ a >= 0 /\ orig \in Int /\ orig >= n + 20
  <2>1. a \in Int
    BY Parts
  <2>2. orig \in Int
    BY ReadInt DEF SizeOf
  <2> QED
    BY <1>0, <2>1, <2>2 DEF HoleThere
<1>18. a + orig <= h.end /\ h.end \in Int
  BY Parts DEF HoleThere
<1>2. f \in Int /\ f >= 20
  <2>1. f \in Int
    BY <1>1, FrontInt
  <2>2. f >= 20
    BY <1>0 DEF Wide, Beyond
  <2> HIDE DEF f, a
  <2> QED
    BY <1>1, <2>1, <2>2
<1>19. c \in Int
  <2> HIDE DEF a, f
  <2> QED
    BY <1>1, <1>2
<1>3. t = split_back(taken, c + (size + Overhead), left)
  BY DEF place, BlockAt, BackAt
<1>4. t.status = "ok"
  OBVIOUS
<1>5. o \in Heaps
  BY <1>1, SplitsFront
<1>6. size \in Int /\ size >= n
  <2>1. orig \in Int /\ n + Overhead \in Int
    BY <1>0, <1>1
  <2> HIDE DEF orig
  <2>2. Absorbed(orig, n + Overhead) \in Nat
    BY <2>1, Absorbs
  <2> QED
    BY <2>2
<1>7. left \in Int
  <2>1. SizeOf(o, a) \in Int
    BY <1>5, ReadInt DEF SizeOf
  <2> HIDE DEF o, a, orig, size
  <2> QED
    BY <1>0, <1>1, <1>6, <2>1 DEF Rest
<1> HIDE DEF t, size
<1>8. headed \in Heaps /\ taken \in Heaps
  <2> HIDE DEF o, c
  <2>1. headed \in Heaps
    BY <1>0, <1>5, <1>6, <1>19, PutHeaderHeap
  <2> HIDE DEF headed
  <2>2. c + HeaderSize + size \in Int
    BY <1>0, <1>6, <1>19
  <2> QED
    BY <1>19, <2>1, <2>2, PutFooterHeap
<1>9. taken.status = "ok"
  <2>1. c + (size + Overhead) \in Int
    BY <1>0, <1>6, <1>19
  <2> HIDE DEF taken, left, c
  <2>2. CASE left = 0
    BY <1>3, <1>4, <2>2 DEF split_back
  <2>3. CASE left # 0
    BY <1>3, <1>4, <1>7, <1>8, <2>1, <2>3, SplitsBehind
  <2> QED
    BY <2>2, <2>3
<1>10. o.status = "ok" /\ PageOf(c + size + 16) \in o.backed
  <2>1. size >= 0
    BY <1>6
  <2> HIDE DEF o, c
  <2> QED
    BY <1>5, <1>6, <1>9, <1>19, <2>1, Takes DEF Same
<1>11. /\ Same(o, h) /\ SizeOf(o, a) = f /\ Read(o, a) = Magic /\ IsHole(o, a) = 1
       /\ \A x \in Int : x < a \/ x >= c => Read(o, x) = Read(h, x)
  <2> DEFINE front == PutHeader(h, a, 1, f)
             e == a + f - FooterSize
  <2>1. o = PutFooter(front, e, a)
    BY DEF split_front
  <2>2. e \in Int /\ e = a + f - 8
    BY <1>0, <1>1, <1>2
  <2>0. a \in Int /\ 1 \in Int /\ f \in Int
    BY <1>1, <1>2
  <2> HIDE DEF e, a, f, o
  <2>3. front \in Heaps
    BY <2>0, PutHeaderHeap
  <2> HIDE DEF front
  <2>4. /\ Same(o, front)
        /\ \A x \in Int : Read(o, x) = IF x = e THEN Magic ELSE IF x = e + 4 THEN a ELSE Read(front, x)
    BY <1>1, <1>10, <2>1, <2>2, <2>3, FooterPut
  <2>5. /\ Same(front, h)
        /\ \A x \in Int : Read(front, x) = IF x = a THEN Magic ELSE IF x = a + 4 THEN 1
                                           ELSE IF x = a + 8 THEN f ELSE Read(h, x)
    <3>1. front.status = "ok"
      BY <2>4 DEF Same
    <3> QED
      BY <2>0, <3>1, HeaderPut DEF front
  <2>6. Read(o, a) = Magic /\ IsHole(o, a) = 1 /\ SizeOf(o, a) = f
    <3>1. /\ a + 4 \in Int /\ a + 8 \in Int /\ a + 4 # a /\ a + 8 # a /\ a + 8 # a + 4
          /\ a # e /\ a + 4 # e /\ a + 8 # e /\ a # e + 4 /\ a + 4 # e + 4 /\ a + 8 # e + 4
      BY <1>1, <1>2, <2>2
    <3> QED
      BY <1>1, <2>4, <2>5, <3>1 DEF IsHole, SizeOf
  <2>7. ASSUME NEW x \in Int, x < a \/ x >= c PROVE Read(o, x) = Read(h, x)
    <3>1. x # a /\ x # a + 4 /\ x # a + 8 /\ x # e /\ x # e + 4
      BY <1>1, <1>2, <2>2, <2>7
    <3> QED
      BY <2>4, <2>5, <3>1
  <2> QED
    BY <2>4, <2>5, <2>6, <2>7 DEF Same
<1>12. Wide(h, a, n)
  <2> SUFFICES ASSUME Beyond(h, a, n) PROVE FALSE
    OBVIOUS
  <2> DEFINE v == a + f + n + 16
             w == c + size + 16
  <2>1. PageOf(v) > PageOf(h.end - 1)
    BY DEF Beyond
  <2>2. PageOf(w) <= PageOf(h.end - 1)
    BY <1>10, <1>11 DEF NoFrameAfter, Same
  <2>3. v \in Int /\ w \in Int /\ v <= w /\ h.end - 1 \in Int
    <3>1. c \in Int /\ n \in Int /\ size \in Int /\ n <= size
      BY <1>6, <1>19
    <3>2. v = c + n + 16 /\ w = c + size + 16
      OBVIOUS
    <3>3. h.end - 1 \in Int
      BY <1>18
    <3> HIDE DEF c, v, w
    <3> QED
      BY <3>1, <3>2, <3>3
  <2> HIDE DEF v, w
  <2>4. PageOf(v) <= PageOf(w) /\ PageOf(v) \in Int /\ PageOf(w) \in Int /\ PageOf(h.end - 1) \in Int
    BY <2>3, PageInt, HeapAssumption DEF PageOf
  <2> QED
    BY <2>1, <2>2, <2>4
<1>13. size = n /\ left = orig - (f + n + 20) /\ (left = 0 \/ left >= 20)
  <2> DEFINE room == orig - (f + n + Overhead)
  <2>1. room = 0 \/ room >= Overhead
    BY <1>12 DEF Wide
  <2>2. left = orig - f - (size + Overhead)
    BY <1>11 DEF Rest
  <2> HIDE DEF orig, f, left
  <2>3. orig - (n + Overhead) >= 20
    BY <1>0, <1>1, <1>2, <2>1
  <2>4. Absorbed(orig, n + Overhead) = 0
    BY <1>0, <1>1, <2>3 DEF Absorbed
  <2>5. size = n
    BY <2>4 DEF size
  <2> QED
    BY <1>0, <1>1, <1>2, <2>1, <2>2, <2>5
<1> HIDE DEF left
<1>14. /\ z = c + size + Overhead + left /\ z \in Int /\ z <= o.end /\ c >= 0
       /\ left = 0 \/ left >= Overhead
       /\ f <= orig
  <2>1. o.end = h.end
    BY <1>11 DEF Same
  <2> HIDE DEF a, f, orig, o
  <2> QED
    BY <1>0, <1>1, <1>2, <1>7, <1>13, <1>18, <2>1
<1>15. Carved(o, t, c, n, z)
  <2> HIDE DEF o, c, z
  <2> QED
    BY <1>3, <1>4, <1>5, <1>6, <1>7, <1>14, <1>19, Carves
<1>16. HoleThere(o, a)
  <2>1. a + f <= o.end
    <3>1. o.end = h.end
      BY <1>11 DEF Same
    <3> HIDE DEF a, f, orig, o
    <3> QED
      BY <1>1, <1>2, <1>14, <1>18, <3>1
  <2> HIDE DEF o, f, a
  <2> QED
    BY <1>0, <1>1, <1>2, <1>11, <2>1 DEF HoleThere
<1>17. o.status = h.status /\ o.end = h.end /\ o.backed = h.backed /\ o.index = h.index
  BY <1>11 DEF Same
<1> HIDE DEF o
<1> QED
  BY <1>0, <1>2, <1>5, <1>11, <1>14, <1>15, <1>16, <1>17 DEF t, z, c, orig, f, a

(* A hole stays one as long as nothing in it is written. *)
LEMMA HoleStays ==
  ASSUME NEW h \in Heaps, NEW t \in Heaps, NEW a \in Int, HoleThere(h, a), h.end <= t.end,
         \A x \in Int : a <= x /\ x < a + SizeOf(h, a) => Read(t, x) = Read(h, x)
  PROVE  HoleThere(t, a) /\ SizeOf(t, a) = SizeOf(h, a)
<1> DEFINE size == SizeOf(h, a)
<1>1. size \in Int /\ size >= 20 /\ a + size <= h.end /\ h.end \in Int /\ t.end \in Int
  BY ReadInt, Parts DEF SizeOf, HoleThere, Overhead, HeaderSize, FooterSize
<1> HIDE DEF size
<1>2. /\ a + 4 \in Int /\ a + 8 \in Int /\ a < a + size
      /\ a <= a + 4 /\ a + 4 < a + size /\ a <= a + 8 /\ a + 8 < a + size
  BY <1>1
<1>3. Read(t, a) = Read(h, a) /\ Read(t, a + 4) = Read(h, a + 4) /\ Read(t, a + 8) = Read(h, a + 8)
  BY <1>2 DEF size
<1>4. a + size <= t.end
  BY <1>1
<1> QED
  BY <1>3, <1>4 DEF HoleThere, SizeOf, IsHole, size

(* And a block stays whole. *)
LEMMA BlockStays ==
  ASSUME NEW h \in Heaps, NEW t \in Heaps, NEW a \in Int, NEW n \in Int, n >= 0, BlockIn(h, a, n),
         \A x \in Int : a <= x /\ x < a + SizeOf(h, a) => Read(t, x) = Read(h, x)
  PROVE  BlockIn(t, a, n) /\ SizeOf(t, a) = SizeOf(h, a)
<1> DEFINE size == SizeOf(h, a)
<1>1. size \in Int /\ size >= n + 20
  BY ReadInt DEF SizeOf, BlockIn, Overhead, HeaderSize, FooterSize
<1> HIDE DEF size
<1>2. /\ a + 4 \in Int /\ a + 8 \in Int /\ a < a + size
      /\ a <= a + 4 /\ a + 4 < a + size /\ a <= a + 8 /\ a + 8 < a + size
  BY <1>1
<1> DEFINE f == a + size - FooterSize
<1>3. f \in Int /\ f + 4 \in Int /\ a <= f /\ f < a + size /\ a <= f + 4 /\ f + 4 < a + size
  BY <1>1 DEF FooterSize
<1> HIDE DEF f
<1>4. /\ Read(t, a) = Read(h, a) /\ Read(t, a + 4) = Read(h, a + 4) /\ Read(t, a + 8) = Read(h, a + 8)
      /\ Read(t, f) = Read(h, f) /\ Read(t, f + 4) = Read(h, f + 4)
  BY <1>2, <1>3 DEF size
<1> QED
  BY <1>4 DEF BlockIn, SizeOf, IsHole, HeaderOf, size, f

(* Two places, each a block or a hole, that have no byte in common. *)
Clear(h, a, b) == a + SizeOf(h, a) <= b \/ b + SizeOf(h, b) <= a

(* The holes of the index and the blocks in use lie within the heap, and none reaches
   into another. *)
Mosaic(h, s) ==
  /\ \A i \in 1 .. Len(h.index) : HoleThere(h, h.index[i])
  /\ \A k \in 1 .. Len(s) :
       LET a == HeaderOfBlock(s[k])
       IN  a >= 0 /\ BlockIn(h, a, s[k].size) /\ a + SizeOf(h, a) <= h.end
  /\ \A i, j \in 1 .. Len(h.index) : i # j => Clear(h, h.index[i], h.index[j])
  /\ \A j, k \in 1 .. Len(s) : j # k => Clear(h, HeaderOfBlock(s[j]), HeaderOfBlock(s[k]))
  /\ \A i \in 1 .. Len(h.index), k \in 1 .. Len(s) : Clear(h, h.index[i], HeaderOfBlock(s[k]))

(* What is left of the hole from a to z, beside a block at c, is a hole. *)
LeftOver(t, x, a, z, c) == HoleThere(t, x) /\ a <= x /\ x + SizeOf(t, x) <= z /\ Clear(t, x, c)

(* The block b is cut from the i-th hole of the index; holes may be left of it.  Where
   an entry of the new index comes from is g: the same entry of the old one, or one of
   what is left. *)
Cut(h, t, i, b) ==
  LET a == h.index[i]
      z == a + SizeOf(h, a)
      c == HeaderOfBlock(b)
  IN  /\ t.end = h.end /\ \A x \in Int : x < a \/ x >= z => Read(t, x) = Read(h, x)
      /\ BlockIn(t, c, b.size) /\ a <= c /\ c + SizeOf(t, c) <= z
      /\ \E g \in [1 .. Len(t.index) -> 0 .. Len(h.index)] :
           /\ \A j, k \in 1 .. Len(t.index) : j # k => g[j] # g[k]
           /\ \A j \in 1 .. Len(t.index) :
                IF g[j] \in {0, i} THEN LeftOver(t, t.index[j], a, z, c)
                ELSE t.index[j] = h.index[g[j]]
           /\ \A j, k \in 1 .. Len(t.index) :
                j # k /\ g[j] \in {0, i} /\ g[k] \in {0, i} => Clear(t, t.index[j], t.index[k])

(* A cut keeps the mosaic: what it writes is inside of the hole. *)
LEMMA CutKeeps ==
  ASSUME NEW h \in Heaps, NEW t \in Heaps, workload \in Workloads,
         NEW s \in Seq(Given(workload)), NEW b \in Given(workload), Mosaic(h, s),
         NEW i \in 1 .. Len(h.index), Cut(h, t, i, b)
  PROVE  Mosaic(t, Append(s, b))
<1> DEFINE a == h.index[i]
           z == a + SizeOf(h, a)
           c == HeaderOfBlock(b)
           both == Append(s, b)
           Old(x) == /\ x \in Int /\ SizeOf(t, x) = SizeOf(h, x) /\ SizeOf(h, x) \in Int
                     /\ x + SizeOf(h, x) <= a \/ z <= x
           In(x) == /\ x \in Int /\ SizeOf(t, x) \in Int /\ SizeOf(t, x) >= 20
                    /\ a <= x /\ x + SizeOf(t, x) <= z
<1>0. \A x \in Int : SizeOf(h, x) \in Int /\ SizeOf(t, x) \in Int
  BY ReadInt DEF SizeOf
<1>1. a \in Int /\ SizeOf(h, a) \in Int /\ SizeOf(h, a) >= 20 /\ z \in Int /\ z <= h.end /\ h.end \in Int
  <2>1. a \in Int /\ h.end \in Int
    BY Parts
  <2>2. HoleThere(h, a) /\ SizeOf(h, a) \in Int
    BY <1>0, <2>1 DEF Mosaic
  <2> HIDE DEF a
  <2>3. SizeOf(h, a) >= 20 /\ z <= h.end /\ z \in Int
    BY <2>1, <2>2 DEF HoleThere, Overhead, HeaderSize, FooterSize
  <2> QED
    BY <2>1, <2>2, <2>3
<1>2. /\ t.end = h.end /\ \A x \in Int : x < a \/ x >= z => Read(t, x) = Read(h, x)
      /\ BlockIn(t, c, b.size) /\ a <= c /\ c + SizeOf(t, c) <= z
  BY DEF Cut
<1>3. PICK g \in [1 .. Len(t.index) -> 0 .. Len(h.index)] :
           /\ \A j, k \in 1 .. Len(t.index) : j # k => g[j] # g[k]
           /\ \A j \in 1 .. Len(t.index) :
                IF g[j] \in {0, i} THEN LeftOver(t, t.index[j], a, z, c)
                ELSE t.index[j] = h.index[g[j]]
           /\ \A j, k \in 1 .. Len(t.index) :
                j # k /\ g[j] \in {0, i} /\ g[k] \in {0, i} => Clear(t, t.index[j], t.index[k])
  BY DEF Cut
<1>4. a >= 0
  BY DEF Mosaic, HoleThere
<1> HIDE DEF a, z
<1>19. ASSUME NEW d \in Given(workload)
       PROVE  d.size \in Int /\ d.size >= 0 /\ HeaderOfBlock(d) \in Int
  BY Sizes DEF Given, HeaderOfBlock, HeaderSize
<1>5. b.size \in Int /\ b.size >= 0 /\ c \in Int
  BY <1>19
<1>6. In(c)
  <2> HIDE DEF c
  <2>1. SizeOf(t, c) \in Int
    BY <1>0, <1>5
  <2>2. SizeOf(t, c) >= b.size + 20
    BY <1>2 DEF BlockIn, Overhead, HeaderSize, FooterSize
  <2>3. SizeOf(t, c) >= 20
    BY <1>5, <2>1, <2>2
  <2> QED
    BY <1>2, <1>5, <2>1, <2>3
<1>7. ASSUME NEW x \in Int, HoleThere(h, x), Clear(h, x, a) PROVE HoleThere(t, x) /\ Old(x)
  <2>1. SizeOf(h, x) \in Int
    BY <1>0
  <2>2. x + SizeOf(h, x) <= a \/ z <= x
    BY <1>7 DEF Clear, z
  <2>3. \A y \in Int : x <= y /\ y < x + SizeOf(h, x) => Read(t, y) = Read(h, y)
    <3> SUFFICES ASSUME NEW y \in Int, x <= y, y < x + SizeOf(h, x) PROVE y < a \/ y >= z
      BY <1>2
    <3> QED
      BY <1>1, <2>1, <2>2
  <2>4. h.end <= t.end
    BY <1>1, <1>2
  <2>5. HoleThere(t, x) /\ SizeOf(t, x) = SizeOf(h, x)
    BY <1>7, <2>3, <2>4, HoleStays
  <2> QED
    BY <2>1, <2>2, <2>5
<1>8. ASSUME NEW k \in 1 .. Len(s)
      PROVE  LET x == HeaderOfBlock(s[k])
             IN  x >= 0 /\ BlockIn(t, x, s[k].size) /\ x + SizeOf(t, x) <= t.end /\ Old(x)
  <2> DEFINE x == HeaderOfBlock(s[k])
  <2>1. s[k].size \in Int /\ s[k].size >= 0 /\ x \in Int
    <3>1. s[k] \in Given(workload)
      OBVIOUS
    <3> QED
      BY <1>19, <3>1
  <2>2. x >= 0 /\ BlockIn(h, x, s[k].size) /\ x + SizeOf(h, x) <= h.end /\ Clear(h, a, x)
    BY DEF Mosaic, a
  <2> HIDE DEF x
  <2>3. SizeOf(h, x) \in Int
    BY <1>0, <2>1
  <2>4. x + SizeOf(h, x) <= a \/ z <= x
    BY <2>2 DEF Clear, z
  <2>5. \A y \in Int : x <= y /\ y < x + SizeOf(h, x) => Read(t, y) = Read(h, y)
    <3> SUFFICES ASSUME NEW y \in Int, x <= y, y < x + SizeOf(h, x) PROVE y < a \/ y >= z
      BY <1>2
    <3> QED
      BY <1>1, <2>1, <2>3, <2>4
  <2>6. BlockIn(t, x, s[k].size) /\ SizeOf(t, x) = SizeOf(h, x)
    BY <2>1, <2>2, <2>5, BlockStays
  <2> QED
    BY <1>2, <2>1, <2>2, <2>3, <2>4, <2>6 DEF x
<1>9. ASSUME NEW x, NEW y, Old(x), Old(y), Clear(h, x, y) PROVE Clear(t, x, y)
  BY <1>9 DEF Clear
<1>10. ASSUME NEW x, NEW y, Old(x), In(y) PROVE Clear(t, x, y) /\ Clear(t, y, x)
  BY <1>1, <1>10 DEF Clear
<1> HIDE DEF Old, In, c
<1>11. ASSUME NEW j \in 1 .. Len(t.index)
       PROVE  /\ HoleThere(t, t.index[j])
              /\ g[j] \in {0, i} => In(t.index[j]) /\ Clear(t, t.index[j], c)
              /\ g[j] \notin {0, i} =>
                   g[j] \in 1 .. Len(h.index) /\ t.index[j] = h.index[g[j]] /\ Old(t.index[j])
  <2>1. t.index[j] \in Int
    BY Parts
  <2>2. CASE g[j] \in {0, i}
    <3>1. LeftOver(t, t.index[j], a, z, c)
      BY <1>3, <2>2
    <3>2. SizeOf(t, t.index[j]) \in Int
      BY <1>0, <2>1
    <3> QED
      BY <2>1, <2>2, <3>1, <3>2 DEF LeftOver, In, HoleThere, Overhead, HeaderSize, FooterSize
  <2>3. CASE g[j] \notin {0, i}
    <3>1. g[j] \in 1 .. Len(h.index) /\ g[j] # i
      <4>1. g[j] \in 0 .. Len(h.index) /\ Len(h.index) \in Nat
        BY Parts
      <4> QED
        BY <2>3, <4>1
    <3>2. t.index[j] = h.index[g[j]]
      BY <1>3, <2>3
    <3>3. HoleThere(h, t.index[j]) /\ Clear(h, t.index[j], a)
      BY <3>1, <3>2 DEF Mosaic, a
    <3> QED
      BY <1>7, <2>1, <2>3, <3>1, <3>2, <3>3
  <2> QED
    BY <2>2, <2>3
<1>12. /\ Len(both) = Len(s) + 1 /\ Len(s) \in Nat
       /\ \A k \in 1 .. Len(s) : both[k] = s[k]
       /\ both[Len(s) + 1] = b
  BY AppendProperties
<1> HIDE DEF both
<1>13. ASSUME NEW k \in 1 .. Len(both)
       PROVE  \/ k \in 1 .. Len(s) /\ both[k] = s[k] /\ Old(HeaderOfBlock(both[k]))
              \/ k = Len(s) + 1 /\ both[k] = b /\ HeaderOfBlock(both[k]) = c
  <2>1. CASE k \in 1 .. Len(s)
    BY <1>8, <1>12, <2>1
  <2>2. CASE k = Len(s) + 1
    BY <1>12, <2>2 DEF c
  <2> QED
    BY <1>12, <2>1, <2>2
<1>14. ASSUME NEW k \in 1 .. Len(both)
       PROVE  LET x == HeaderOfBlock(both[k])
              IN  x >= 0 /\ BlockIn(t, x, both[k].size) /\ x + SizeOf(t, x) <= t.end
  <2>1. CASE k \in 1 .. Len(s) /\ both[k] = s[k]
    BY <1>8, <2>1
  <2>2. CASE both[k] = b /\ HeaderOfBlock(both[k]) = c
    <3>1. c >= 0 /\ c + SizeOf(t, c) <= t.end
      <4>1. SizeOf(t, c) \in Int
        BY <1>0, <1>5
      <4>2. c + SizeOf(t, c) <= z /\ z <= t.end /\ t.end \in Int
        BY <1>1, <1>2
      <4>3. a <= c /\ a >= 0 /\ a \in Int /\ z \in Int /\ c \in Int
        BY <1>1, <1>2, <1>4, <1>5
      <4> QED
        BY <4>1, <4>2, <4>3
    <3> QED
      BY <1>2, <2>2, <3>1
  <2> QED
    BY <1>13, <2>1, <2>2
<1>15. ASSUME NEW j \in 1 .. Len(t.index), NEW k \in 1 .. Len(t.index), j # k
       PROVE  Clear(t, t.index[j], t.index[k])
  <2>1. CASE g[j] \in {0, i} /\ g[k] \in {0, i}
    BY <1>3, <1>15, <2>1
  <2>2. CASE g[j] \in {0, i} /\ g[k] \notin {0, i}
    BY <1>10, <1>11, <2>2
  <2>3. CASE g[j] \notin {0, i} /\ g[k] \in {0, i}
    BY <1>10, <1>11, <2>3
  <2>4. CASE g[j] \notin {0, i} /\ g[k] \notin {0, i}
    <3>1. g[j] \in 1 .. Len(h.index) /\ g[k] \in 1 .. Len(h.index) /\ g[j] # g[k]
      BY <1>3, <1>11, <1>15, <2>4
    <3>2. Clear(h, h.index[g[j]], h.index[g[k]])
      BY <3>1 DEF Mosaic
    <3> QED
      BY <1>9, <1>11, <2>4, <3>2
  <2> QED
    BY <2>1, <2>2, <2>3, <2>4
<1>16. ASSUME NEW j \in 1 .. Len(both), NEW k \in 1 .. Len(both), j # k
       PROVE  Clear(t, HeaderOfBlock(both[j]), HeaderOfBlock(both[k]))
  <2>1. CASE j \in 1 .. Len(s) /\ k \in 1 .. Len(s)
    <3>1. Clear(h, HeaderOfBlock(s[j]), HeaderOfBlock(s[k]))
      BY <1>16, <2>1 DEF Mosaic
    <3>2. both[j] = s[j] /\ both[k] = s[k]
      BY <1>12, <2>1
    <3>3. Old(HeaderOfBlock(s[j])) /\ Old(HeaderOfBlock(s[k]))
      BY <1>8, <2>1
    <3> QED
      BY <1>9, <3>1, <3>2, <3>3
  <2>2. CASE ~(j \in 1 .. Len(s) /\ k \in 1 .. Len(s))
    <3>1. \/ Old(HeaderOfBlock(both[j])) /\ HeaderOfBlock(both[k]) = c
          \/ Old(HeaderOfBlock(both[k])) /\ HeaderOfBlock(both[j]) = c
      BY <1>13, <1>16, <2>2
    <3> QED
      BY <1>6, <1>10, <3>1
  <2> QED
    BY <2>1, <2>2
<1>17. ASSUME NEW j \in 1 .. Len(t.index), NEW k \in 1 .. Len(both)
       PROVE  Clear(t, t.index[j], HeaderOfBlock(both[k]))
  <2>1. CASE HeaderOfBlock(both[k]) = c
    <3>1. g[j] \notin {0, i} => Clear(t, t.index[j], c)
      BY <1>6, <1>10, <1>11
    <3> QED
      BY <1>11, <2>1, <3>1
  <2>2. CASE k \in 1 .. Len(s) /\ both[k] = s[k] /\ Old(HeaderOfBlock(both[k]))
    <3>1. CASE g[j] \in {0, i}
      BY <1>10, <1>11, <2>2, <3>1
    <3>2. CASE g[j] \notin {0, i}
      <4>1. Clear(h, h.index[g[j]], HeaderOfBlock(s[k]))
        BY <1>11, <2>2, <3>2 DEF Mosaic
      <4> QED
        BY <1>9, <1>11, <2>2, <3>2, <4>1
    <3> QED
      BY <3>1, <3>2
  <2> QED
    BY <1>13, <2>1, <2>2
<1>18. Mosaic(t, both)
  BY <1>11, <1>14, <1>15, <1>16, <1>17 DEF Mosaic
<1> QED
  BY <1>18 DEF both

(* The owner writes inside of what was carved. *)
LEMMA CarvedStays ==
  ASSUME NEW h \in Heaps, NEW t \in Heaps, NEW c \in Int, NEW n \in Int, n >= 0, NEW z \in Int,
         Carved(h, t, c, n, z)
  PROVE  Carved(h, Fill(t, c + HeaderSize, n), c, n, z) /\ Fill(t, c + HeaderSize, n) \in Heaps
<1> DEFINE u == Fill(t, c + HeaderSize, n)
           size == SizeOf(t, c)
           back == c + size
<1>1. c + HeaderSize \in Int /\ c + HeaderSize = c + 12
  BY DEF HeaderSize
<1>2. u \in Heaps
  BY FillHeap
<1>3. /\ u.index = t.index /\ u.end = t.end /\ u.backed = t.backed
      /\ \A x \in Int : x < c + 12 \/ x >= c + 12 + n => Read(u, x) = Read(t, x)
  BY <1>1, Filled
<1>4. /\ h.status = "ok" /\ t.end = h.end /\ t.backed = h.backed /\ BlockIn(t, c, n)
      /\ \A x \in Int : x < c \/ x >= z => Read(t, x) = Read(h, x)
      /\ \/ t.index = h.index /\ back = z
         \/ t.index = <<back>> \o h.index /\ HoleThere(t, back) /\ back + SizeOf(t, back) = z
  BY DEF Carved
<1>5. size \in Int /\ size >= n + 20
  BY <1>4, ReadInt DEF SizeOf, BlockIn, Overhead, HeaderSize, FooterSize
<1> HIDE DEF u, size
<1>6. back \in Int /\ back >= c + 12 + n + 8
  BY <1>5
<1>7. Read(u, c + 8) = Read(t, c + 8)
  BY <1>3
<1>8. SizeOf(u, c) = size
  BY <1>7 DEF SizeOf, size
<1>9. BlockIn(u, c, n)
  <2> DEFINE f == c + size - FooterSize
  <2>1. f \in Int /\ f >= c + 12 + n /\ f + 4 >= c + 12 + n
    BY <1>5 DEF FooterSize
  <2> HIDE DEF f
  <2>2. /\ Read(u, c) = Read(t, c) /\ Read(u, c + 4) = Read(t, c + 4)
        /\ Read(u, f) = Read(t, f) /\ Read(u, f + 4) = Read(t, f + 4)
    BY <1>3, <2>1
  <2>3. SizeOf(u, c) = SizeOf(t, c)
    BY <1>8 DEF size
  <2> QED
    BY <1>4, <2>2, <2>3 DEF BlockIn, IsHole, HeaderOf, f, size
<1> HIDE DEF back
<1>10. back + 4 \in Int /\ back + 8 \in Int /\ back + 4 >= c + 12 + n /\ back + 8 >= c + 12 + n
       /\ back >= c + 12 + n
  BY <1>6
<1>11. /\ Read(u, back) = Read(t, back) /\ Read(u, back + 4) = Read(t, back + 4)
       /\ Read(u, back + 8) = Read(t, back + 8)
  BY <1>3, <1>6, <1>10
<1>12. SizeOf(u, back) = SizeOf(t, back) /\ (HoleThere(t, back) => HoleThere(u, back))
  BY <1>3, <1>11 DEF HoleThere, IsHole, SizeOf
<1>13. z >= back
  <2>1. CASE back = z
    BY <1>6, <2>1
  <2>2. CASE HoleThere(t, back) /\ back + SizeOf(t, back) = z
    <3>1. SizeOf(t, back) \in Int /\ SizeOf(t, back) >= 20
      BY <2>2, ReadInt DEF SizeOf, HoleThere, Overhead, HeaderSize, FooterSize
    <3> QED
      BY <1>6, <2>2, <3>1
  <2> QED
    BY <1>4, <2>1, <2>2
<1>14. ASSUME NEW x \in Int, x < c \/ x >= z PROVE Read(u, x) = Read(h, x)
  <2>1. x < c + 12 \/ x >= c + 12 + n
    BY <1>6, <1>13, <1>14
  <2> QED
    BY <1>3, <1>4, <1>14, <2>1
<1>15. c + SizeOf(u, c) = back
  BY <1>8 DEF back
<1>16. Carved(h, u, c, n, z)
  BY <1>3, <1>4, <1>9, <1>12, <1>14, <1>15 DEF Carved
<1> QED
  BY <1>2, <1>16 DEF u

(* What a sequence is without one of its elements. *)
LEMMA RemovedAt ==
  ASSUME NEW s \in Seq(Int), NEW i \in 1 .. Len(s)
  PROVE  /\ Len(RemoveAt(s, i)) = Len(s) - 1
         /\ \A j \in 1 .. Len(s) - 1 : RemoveAt(s, i)[j] = IF j < i THEN s[j] ELSE s[j + 1]
<1> DEFINE f == SubSeq(s, 1, i - 1)
           b == SubSeq(s, i + 1, Len(s))
<1>1. Len(s) \in Nat
  OBVIOUS
<1>2. f \in Seq(Int) /\ Len(f) = i - 1 /\ \A j \in 1 .. i - 1 : f[j] = s[j]
  BY <1>1, SubSeqProperties
<1>3. /\ b \in Seq(Int) /\ Len(b) = Len(s) - i
      /\ \A j \in 1 .. Len(s) - i : b[j] = s[i + j]
  BY <1>1, SubSeqProperties
<1>4. RemoveAt(s, i) = f \o b
  BY DEF RemoveAt
<1> HIDE DEF f, b
<1>5. /\ Len(f \o b) = Len(f) + Len(b)
      /\ \A j \in 1 .. Len(f) + Len(b) : (f \o b)[j] = IF j <= Len(f) THEN f[j] ELSE b[j - Len(f)]
  BY <1>2, <1>3, ConcatProperties
<1>6. Len(f) + Len(b) = Len(s) - 1
  BY <1>1, <1>2, <1>3
<1>7. ASSUME NEW j \in 1 .. Len(s) - 1 PROVE (f \o b)[j] = IF j < i THEN s[j] ELSE s[j + 1]
  <2>1. (f \o b)[j] = IF j <= i - 1 THEN f[j] ELSE b[j - (i - 1)]
    BY <1>2, <1>5, <1>6
  <2>2. CASE j < i
    BY <1>1, <1>2, <2>1, <2>2
  <2>3. CASE ~(j < i)
    <3>1. j - (i - 1) \in 1 .. Len(s) - i /\ i + (j - (i - 1)) = j + 1 /\ ~(j <= i - 1)
      BY <1>1, <2>3
    <3>2. b[j - (i - 1)] = s[j + 1]
      BY <1>3, <3>1
    <3> QED
      BY <2>1, <2>3, <3>1, <3>2
  <2> QED
    BY <2>2, <2>3
<1> QED
  BY <1>4, <1>5, <1>6, <1>7

(* And with one more in front. *)
LEMMA Prepended ==
  ASSUME NEW s \in Seq(Int), NEW x \in Int
  PROVE  /\ Len(<<x>> \o s) = Len(s) + 1 /\ (<<x>> \o s)[1] = x
         /\ \A j \in 2 .. Len(s) + 1 : (<<x>> \o s)[j] = s[j - 1]
<1>1. <<x>> \in Seq(Int) /\ Len(<<x>>) = 1 /\ Len(s) \in Nat
  OBVIOUS
<1>2. /\ Len(<<x>> \o s) = 1 + Len(s)
      /\ \A j \in 1 .. 1 + Len(s) : (<<x>> \o s)[j] = IF j <= 1 THEN <<x>>[j] ELSE s[j - 1]
  BY <1>1, ConcatProperties
<1>3. (<<x>> \o s)[1] = x
  BY <1>1, <1>2
<1>4. ASSUME NEW j \in 2 .. Len(s) + 1 PROVE (<<x>> \o s)[j] = s[j - 1]
  <2>1. j \in 1 .. 1 + Len(s) /\ ~(j <= 1)
    BY <1>1
  <2> QED
    BY <1>2, <2>1
<1>5. Len(<<x>> \o s) = Len(s) + 1
  BY <1>1, <1>2
<1> QED
  BY <1>3, <1>4, <1>5

(* A block on any address is cut from the hole that was found. *)
LEMMA CutsOpen ==
  ASSUME NEW h \in Heaps, NEW i \in 1 .. Len(h.index), HoleThere(h, h.index[i]),
         NEW b, b.p \in Int, b.size \in Int, b.size >= 0, HeaderOfBlock(b) = h.index[i],
         SizeOf(h, h.index[i]) >= b.size + Overhead,
         place(h, i, b.size, FALSE).status = "ok"
  PROVE  LET t == Fill(place(h, i, b.size, FALSE), b.p, b.size)
         IN  t \in Heaps /\ t.backed = h.backed /\ Cut(h, t, i, b)
<1> DEFINE a == h.index[i]
           z == a + SizeOf(h, a)
           n == b.size
           r == RemoveAt(h.index, i)
           placed == place(h, i, n, FALSE)
           t == Fill(placed, b.p, n)
           back == a + SizeOf(t, a)
<1>1. a \in Int /\ z \in Int /\ h.index \in Seq(Int) /\ Len(h.index) \in Nat
  <2>1. a \in Int /\ h.index \in Seq(Int)
    BY Parts
  <2>2. SizeOf(h, a) \in Int
    BY ReadInt DEF SizeOf
  <2> QED
    BY <2>1, <2>2
<1>2. b.p = a + HeaderSize
  BY DEF HeaderOfBlock, HeaderSize
<1>3. PICK o \in Heaps :
           /\ o.status = h.status /\ o.end = h.end /\ o.backed = h.backed
           /\ o.index = r /\ \A x \in Int : Read(o, x) = Read(h, x)
           /\ Carved(o, placed, a, n, z)
  BY PlacesOpen
<1>4. placed \in Heaps
  BY Places
<1> HIDE DEF placed
<1>5. t \in Heaps /\ Carved(o, t, a, n, z)
  <2> HIDE DEF a, z
  <2> QED
    BY <1>1, <1>2, <1>3, <1>4, CarvedStays
<1> HIDE DEF t
<1>6. /\ t.end = h.end /\ t.backed = h.backed /\ BlockIn(t, a, n)
      /\ \A x \in Int : x < a \/ x >= z => Read(t, x) = Read(h, x)
      /\ \/ t.index = r /\ back = z
         \/ t.index = <<back>> \o r /\ HoleThere(t, back) /\ back + SizeOf(t, back) = z
  BY <1>3, <1>5 DEF Carved
<1>7. SizeOf(t, a) \in Int /\ SizeOf(t, a) >= 20 /\ back \in Int /\ a <= back
  <2>1. SizeOf(t, a) \in Int
    BY <1>5, ReadInt DEF SizeOf
  <2>2. SizeOf(t, a) >= n + 20
    BY <1>6 DEF BlockIn, Overhead, HeaderSize, FooterSize
  <2> HIDE DEF a
  <2> QED
    BY <1>1, <2>1, <2>2
<1>8. /\ Len(r) = Len(h.index) - 1 /\ r \in Seq(Int)
      /\ \A j \in 1 .. Len(h.index) - 1 : r[j] = IF j < i THEN h.index[j] ELSE h.index[j + 1]
  BY <1>1, Removed, RemovedAt
<1> HIDE DEF r
<1>9. a + SizeOf(t, a) <= z
  <2>1. HoleThere(t, back) => SizeOf(t, back) \in Int /\ SizeOf(t, back) >= 20
    BY <1>5, <1>7, ReadInt DEF SizeOf, HoleThere, Overhead, HeaderSize, FooterSize
  <2>2. back <= z
    <3> HIDE DEF back, z
    <3> QED
      BY <1>1, <1>6, <1>7, <2>1
  <2> QED
    BY <2>2
<1>10. ASSUME t.index = r
       PROVE  \E g \in [1 .. Len(t.index) -> 0 .. Len(h.index)] :
                /\ \A j, k \in 1 .. Len(t.index) : j # k => g[j] # g[k]
                /\ \A j \in 1 .. Len(t.index) :
                     IF g[j] \in {0, i} THEN LeftOver(t, t.index[j], a, z, a)
                     ELSE t.index[j] = h.index[g[j]]
                /\ \A j, k \in 1 .. Len(t.index) :
                     j # k /\ g[j] \in {0, i} /\ g[k] \in {0, i} => Clear(t, t.index[j], t.index[k])
  <2> DEFINE g == [j \in 1 .. Len(t.index) |-> IF j < i THEN j ELSE j + 1]
  <2>1. Len(t.index) = Len(h.index) - 1
    BY <1>8, <1>10
  <2>2. ASSUME NEW j \in 1 .. Len(t.index)
        PROVE  /\ g[j] \in 0 .. Len(h.index) /\ g[j] \notin {0, i}
               /\ g[j] = (IF j < i THEN j ELSE j + 1) /\ t.index[j] = h.index[g[j]]
    <3>1. g[j] = (IF j < i THEN j ELSE j + 1)
      OBVIOUS
    <3> HIDE DEF g
    <3>2. g[j] \in 0 .. Len(h.index) /\ g[j] \notin {0, i}
      <4>1. j \in Int /\ j >= 1 /\ j <= Len(h.index) - 1 /\ i \in Int /\ i >= 1 /\ Len(h.index) \in Int
        BY <1>1, <2>1
      <4>2. CASE j < i
        BY <3>1, <4>1, <4>2
      <4>3. CASE ~ j < i
        BY <3>1, <4>1, <4>3
      <4> QED
        BY <4>2, <4>3
    <3>3. t.index[j] = h.index[g[j]]
      BY <1>8, <1>10, <2>1, <3>1
    <3> QED
      BY <3>1, <3>2, <3>3
  <2>3. g \in [1 .. Len(t.index) -> 0 .. Len(h.index)]
    BY <2>2
  <2> HIDE DEF g
  <2>4. \A j, k \in 1 .. Len(t.index) : j # k => g[j] # g[k]
    <3> SUFFICES ASSUME NEW j \in 1 .. Len(t.index), NEW k \in 1 .. Len(t.index), j # k
                 PROVE  g[j] # g[k]
      OBVIOUS
    <3>1. /\ g[j] = (IF j < i THEN j ELSE j + 1)
          /\ g[k] = (IF k < i THEN k ELSE k + 1)
      BY <2>2
    <3>2. j \in Int /\ k \in Int /\ i \in Int /\ j >= 1 /\ k >= 1 /\ i >= 1
      BY <1>1, <2>1
    <3> QED
      BY <3>1, <3>2
  <2> QED
    BY <2>2, <2>3, <2>4
<1>11. ASSUME t.index = <<back>> \o r, HoleThere(t, back), back + SizeOf(t, back) = z
       PROVE  \E g \in [1 .. Len(t.index) -> 0 .. Len(h.index)] :
                /\ \A j, k \in 1 .. Len(t.index) : j # k => g[j] # g[k]
                /\ \A j \in 1 .. Len(t.index) :
                     IF g[j] \in {0, i} THEN LeftOver(t, t.index[j], a, z, a)
                     ELSE t.index[j] = h.index[g[j]]
                /\ \A j, k \in 1 .. Len(t.index) :
                     j # k /\ g[j] \in {0, i} /\ g[k] \in {0, i} => Clear(t, t.index[j], t.index[k])
  <2> DEFINE g == [j \in 1 .. Len(t.index) |->
                     IF j = 1 THEN 0 ELSE IF j - 1 < i THEN j - 1 ELSE j]
  <2>1. /\ Len(t.index) = Len(h.index) /\ t.index[1] = back
        /\ \A j \in 2 .. Len(h.index) : t.index[j] = r[j - 1]
    <3>1. /\ Len(<<back>> \o r) = Len(r) + 1 /\ (<<back>> \o r)[1] = back
          /\ \A j \in 2 .. Len(r) + 1 : (<<back>> \o r)[j] = r[j - 1]
      BY <1>7, <1>8, Prepended
    <3>2. Len(r) + 1 = Len(h.index)
      BY <1>1, <1>8
    <3> QED
      BY <1>11, <3>1, <3>2
  <2>2. ASSUME NEW j \in 1 .. Len(t.index)
        PROVE  /\ g[j] \in 0 .. Len(h.index) /\ (g[j] \in {0, i} => j = 1)
               /\ g[j] = (IF j = 1 THEN 0 ELSE IF j - 1 < i THEN j - 1 ELSE j)
               /\ j # 1 => t.index[j] = h.index[g[j]]
    <3>1. g[j] = (IF j = 1 THEN 0 ELSE IF j - 1 < i THEN j - 1 ELSE j)
      OBVIOUS
    <3> HIDE DEF g
    <3>2. g[j] \in 0 .. Len(h.index) /\ (g[j] \in {0, i} => j = 1)
      BY <1>1, <2>1, <3>1
    <3>3. ASSUME j # 1 PROVE t.index[j] = h.index[g[j]]
      <4>1. j \in 2 .. Len(h.index) /\ j - 1 \in 1 .. Len(h.index) - 1 /\ (j - 1) + 1 = j
        BY <1>1, <2>1, <3>3
      <4>2. t.index[j] = IF j - 1 < i THEN h.index[j - 1] ELSE h.index[j]
        BY <1>8, <2>1, <4>1
      <4> QED
        BY <3>1, <3>3, <4>2
    <3> QED
      BY <3>1, <3>2, <3>3
  <2>3. g \in [1 .. Len(t.index) -> 0 .. Len(h.index)]
    BY <2>2
  <2> HIDE DEF g
  <2>4. \A j, k \in 1 .. Len(t.index) : j # k => g[j] # g[k]
    <3> SUFFICES ASSUME NEW j \in 1 .. Len(t.index), NEW k \in 1 .. Len(t.index), j # k
                 PROVE  g[j] # g[k]
      OBVIOUS
    <3>1. /\ g[j] = (IF j = 1 THEN 0 ELSE IF j - 1 < i THEN j - 1 ELSE j)
          /\ g[k] = (IF k = 1 THEN 0 ELSE IF k - 1 < i THEN k - 1 ELSE k)
      BY <2>2
    <3>2. j \in Int /\ k \in Int /\ i \in Int /\ j >= 1 /\ k >= 1 /\ i >= 1
      BY <1>1, <2>1
    <3> QED
      BY <3>1, <3>2
  <2>5. LeftOver(t, back, a, z, a)
    <3>1. back + SizeOf(t, back) <= z
      <4> HIDE DEF back, z
      <4> QED
        BY <1>1, <1>11
    <3>2. Clear(t, back, a)
      <4>1. a + SizeOf(t, a) <= back
        <5>1. a + SizeOf(t, a) = back /\ back \in Int
          BY <1>7
        <5> HIDE DEF back
        <5> QED
          BY <5>1
      <4> HIDE DEF back
      <4> QED
        BY <4>1 DEF Clear
    <3> HIDE DEF back, z, a
    <3> QED
      BY <1>7, <1>11, <3>1, <3>2 DEF LeftOver
  <2>6. ASSUME NEW j \in 1 .. Len(t.index)
        PROVE  IF g[j] \in {0, i} THEN LeftOver(t, t.index[j], a, z, a)
               ELSE t.index[j] = h.index[g[j]]
    <3>1. CASE j = 1
      <4>1. t.index[j] = back /\ g[j] = 0
        BY <2>1, <2>2, <3>1
      <4> HIDE DEF back, a, z
      <4> QED
        BY <2>5, <4>1
    <3>2. CASE j # 1
      BY <2>2, <3>2
    <3> QED
      BY <3>1, <3>2
  <2>7. \A j, k \in 1 .. Len(t.index) : ~(j # k /\ g[j] \in {0, i} /\ g[k] \in {0, i})
    BY <2>2
  <2> HIDE DEF back, a, z
  <2> QED
    BY <2>3, <2>4, <2>6, <2>7
<1>12. Cut(h, t, i, b)
  <2>1. HeaderOfBlock(b) = a /\ b.size = n
    OBVIOUS
  <2> DEFINE G == \E g \in [1 .. Len(t.index) -> 0 .. Len(h.index)] :
                /\ \A j, k \in 1 .. Len(t.index) : j # k => g[j] # g[k]
                /\ \A j \in 1 .. Len(t.index) :
                     IF g[j] \in {0, i} THEN LeftOver(t, t.index[j], a, z, a)
                     ELSE t.index[j] = h.index[g[j]]
                /\ \A j, k \in 1 .. Len(t.index) :
                     j # k /\ g[j] \in {0, i} /\ g[k] \in {0, i} => Clear(t, t.index[j], t.index[k])
  <2>2. G
    <3> HIDE DEF G
    <3>1. t.index = r => G
      BY <1>10 DEF G
    <3>2. t.index = <<back>> \o r /\ HoleThere(t, back) /\ back + SizeOf(t, back) = z => G
      BY <1>11 DEF G
    <3> QED
      BY <1>6, <3>1, <3>2
  <2>3. a <= a
    BY <1>1
  <2> QED
    BY <1>6, <1>9, <2>1, <2>2, <2>3 DEF Cut
<1> QED
  BY <1>5, <1>6, <1>12 DEF t, placed

(* And a block at a page boundary, the machine running on, from a hole that has room
   for it there. *)
LEMMA CutsWide ==
  ASSUME NEW h \in Heaps, NEW i \in 1 .. Len(h.index), HoleThere(h, h.index[i]),
         NEW b, b.p \in Int, b.size \in Int, b.size >= 0,
         HeaderOfBlock(b) = h.index[i] + FrontSize(h.index[i]),
         SizeOf(h, h.index[i]) >= b.size + Overhead,
         Wide(h, h.index[i], b.size) \/ Beyond(h, h.index[i], b.size), NoFrameAfter(h),
         place(h, i, b.size, TRUE).status = "ok"
  PROVE  LET t == Fill(place(h, i, b.size, TRUE), b.p, b.size)
         IN  t \in Heaps /\ t.backed = h.backed /\ Cut(h, t, i, b)
<1> DEFINE a == h.index[i]
           f == FrontSize(a)
           c == a + f
           z == a + SizeOf(h, a)
           n == b.size
           placed == place(h, i, n, TRUE)
           t == Fill(placed, b.p, n)
           back == c + SizeOf(t, c)
           G == \E g \in [1 .. Len(t.index) -> 0 .. Len(h.index)] :
                  /\ \A j, k \in 1 .. Len(t.index) : j # k => g[j] # g[k]
                  /\ \A j \in 1 .. Len(t.index) :
                       IF g[j] \in {0, i} THEN LeftOver(t, t.index[j], a, z, c)
                       ELSE t.index[j] = h.index[g[j]]
                  /\ \A j, k \in 1 .. Len(t.index) :
                       j # k /\ g[j] \in {0, i} /\ g[k] \in {0, i} =>
                         Clear(t, t.index[j], t.index[k])
<1>0. Overhead = 20 /\ HeaderSize = 12
  BY DEF Overhead, HeaderSize, FooterSize
<1>1. a \in Int /\ SizeOf(h, a) \in Int /\ h.index \in Seq(Int) /\ Len(h.index) \in Nat
  <2>1. a \in Int /\ h.index \in Seq(Int)
    BY Parts
  <2> QED
    BY <2>1, ReadInt DEF SizeOf
<1>2. HeaderOfBlock(b) = c /\ b.p = c + HeaderSize /\ f \in Int
  <2>1. f \in Int
    BY <1>1, FrontInt
  <2>2. b.p - 12 = c
    BY <1>0 DEF HeaderOfBlock
  <2>3. c \in Int
    <3> HIDE DEF a, f
    <3> QED
      BY <1>1, <2>1
  <2> HIDE DEF c
  <2> QED
    BY <1>0, <2>1, <2>2, <2>3 DEF HeaderOfBlock
<1>3. PICK o \in Heaps :
           /\ f >= Overhead /\ f <= SizeOf(h, a)
           /\ o.status = h.status /\ o.end = h.end /\ o.backed = h.backed
           /\ o.index = h.index /\ HoleThere(o, a) /\ SizeOf(o, a) = f
           /\ \A x \in Int : x < a \/ x >= a + f => Read(o, x) = Read(h, x)
           /\ Carved(o, placed, c, n, z)
  BY PlacesWide
<1>4. placed \in Heaps
  BY Places
<1> HIDE DEF placed, a, f
<1>5. c \in Int /\ z \in Int /\ f >= 20 /\ a < c /\ c <= z /\ a + f = c
  <2>1. a \in Int /\ f \in Int /\ SizeOf(h, a) \in Int
    BY <1>1, <1>2
  <2>2. f >= 20 /\ f <= SizeOf(h, a)
    BY <1>0, <1>3
  <2> QED
    BY <2>1, <2>2
<1>6. t \in Heaps /\ Carved(o, t, c, n, z)
  <2> HIDE DEF c, z
  <2> QED
    BY <1>2, <1>3, <1>4, <1>5, CarvedStays
<1> HIDE DEF t, z, c
<1>7. /\ t.end = h.end /\ t.backed = h.backed /\ BlockIn(t, c, n)
      /\ \A x \in Int : x < c \/ x >= z => Read(t, x) = Read(o, x)
      /\ \/ t.index = h.index /\ back = z
         \/ t.index = <<back>> \o h.index /\ HoleThere(t, back) /\ back + SizeOf(t, back) = z
  BY <1>3, <1>6 DEF Carved
<1>8. SizeOf(t, c) \in Int /\ SizeOf(t, c) >= 20 /\ back \in Int /\ c <= back
  <2>1. SizeOf(t, c) \in Int
    BY <1>6, ReadInt DEF SizeOf
  <2>2. SizeOf(t, c) >= n + 20
    BY <1>0, <1>7 DEF BlockIn
  <2> QED
    BY <1>5, <2>1, <2>2
<1>9. c + SizeOf(t, c) = back
  OBVIOUS
<1> HIDE DEF back
<1>10. back <= z
  <2>1. HoleThere(t, back) => SizeOf(t, back) \in Int /\ SizeOf(t, back) >= 20
    BY <1>0, <1>6, <1>8, ReadInt DEF SizeOf, HoleThere
  <2> QED
    BY <1>5, <1>7, <1>8, <2>1
<1>11. HoleThere(t, a) /\ SizeOf(t, a) = f
  <2>1. \A x \in Int : a <= x /\ x < a + SizeOf(o, a) => Read(t, x) = Read(o, x)
    BY <1>3, <1>5, <1>7
  <2>2. o.end <= t.end
    <3>1. o.end = t.end /\ t.end \in Int
      BY <1>3, <1>6, <1>7, Parts
    <3> QED
      BY <3>1
  <2> QED
    BY <1>1, <1>3, <1>6, <2>1, <2>2, HoleStays
<1>12. LeftOver(t, a, a, z, c)
  <2>1. a <= a /\ a + SizeOf(t, a) <= z /\ a + SizeOf(t, a) <= c
    BY <1>1, <1>5, <1>11
  <2> QED
    BY <1>11, <2>1 DEF LeftOver, Clear
<1>13. ASSUME t.index = h.index PROVE G
  <2> DEFINE g == [j \in 1 .. Len(t.index) |-> j]
  <2>1. g \in [1 .. Len(t.index) -> 0 .. Len(h.index)] /\ \A j \in 1 .. Len(t.index) : g[j] = j
    BY <1>1, <1>13
  <2> HIDE DEF g
  <2>2. \A j \in 1 .. Len(t.index) : (g[j] \in {0, i}) => j = i
    BY <1>1, <1>13, <2>1
  <2>3. ASSUME NEW j \in 1 .. Len(t.index)
        PROVE  IF g[j] \in {0, i} THEN LeftOver(t, t.index[j], a, z, c)
               ELSE t.index[j] = h.index[g[j]]
    <3>1. CASE j = i
      <4>1. t.index[j] = a
        BY <1>13, <3>1 DEF a
      <4> QED
        BY <1>12, <2>1, <3>1, <4>1
    <3>2. CASE j # i
      BY <1>13, <2>1, <2>2, <3>2
    <3> QED
      BY <3>1, <3>2
  <2> QED
    BY <2>1, <2>2, <2>3
<1>14. ASSUME t.index = <<back>> \o h.index, HoleThere(t, back), back + SizeOf(t, back) = z
       PROVE  G
  <2> DEFINE g == [j \in 1 .. Len(t.index) |-> j - 1]
  <2>1. /\ Len(t.index) = Len(h.index) + 1 /\ t.index[1] = back
        /\ \A j \in 2 .. Len(h.index) + 1 : t.index[j] = h.index[j - 1]
    BY <1>1, <1>8, <1>14, Prepended
  <2>2. /\ g \in [1 .. Len(t.index) -> 0 .. Len(h.index)]
        /\ \A j \in 1 .. Len(t.index) : g[j] = j - 1
    <3>1. \A j \in 1 .. Len(t.index) : j - 1 \in 0 .. Len(h.index)
      BY <1>1, <2>1
    <3> QED
      BY <3>1
  <2> HIDE DEF g
  <2>3. \A j \in 1 .. Len(t.index) : g[j] \in {0, i} => j = 1 \/ j = i + 1
    BY <1>1, <2>1, <2>2
  <2>4. t.index[i + 1] = a /\ i + 1 \in 1 .. Len(t.index) /\ 1 \in 1 .. Len(t.index) /\ 1 # i + 1
    <3>1. i + 1 \in 2 .. Len(h.index) + 1 /\ (i + 1) - 1 = i
      BY <1>1
    <3> QED
      BY <1>1, <2>1, <3>1 DEF a
  <2>5. LeftOver(t, back, a, z, c) /\ Clear(t, a, back) /\ Clear(t, back, a)
    <3>1. a <= back /\ back + SizeOf(t, back) <= z
      BY <1>1, <1>5, <1>8, <1>14
    <3>2. c + SizeOf(t, c) <= back /\ a + SizeOf(t, a) <= back
      BY <1>1, <1>5, <1>8, <1>9, <1>11
    <3> QED
      BY <1>14, <3>1, <3>2 DEF LeftOver, Clear
  <2>6. ASSUME NEW j \in 1 .. Len(t.index)
        PROVE  IF g[j] \in {0, i} THEN LeftOver(t, t.index[j], a, z, c)
               ELSE t.index[j] = h.index[g[j]]
    <3>1. CASE g[j] \in {0, i}
      BY <1>12, <2>1, <2>3, <2>4, <2>5, <3>1
    <3>2. CASE g[j] \notin {0, i}
      <4>1. j \in 2 .. Len(h.index) + 1
        BY <1>1, <2>1, <2>2, <3>2
      <4> QED
        BY <2>1, <2>2, <3>2, <4>1
    <3> QED
      BY <3>1, <3>2
  <2>7. ASSUME NEW j \in 1 .. Len(t.index), NEW k \in 1 .. Len(t.index), j # k,
               g[j] \in {0, i}, g[k] \in {0, i}
        PROVE  Clear(t, t.index[j], t.index[k])
    BY <2>1, <2>3, <2>4, <2>5, <2>7
  <2>8. \A j, k \in 1 .. Len(t.index) : j # k => g[j] # g[k]
    <3> SUFFICES ASSUME NEW j \in 1 .. Len(t.index), NEW k \in 1 .. Len(t.index), j # k
                 PROVE  g[j] # g[k]
      OBVIOUS
    <3>1. g[j] = j - 1 /\ g[k] = k - 1
      BY <2>2
    <3> QED
      BY <1>1, <2>1, <3>1
  <2> QED
    BY <2>2, <2>6, <2>7, <2>8
<1>15. G
  <2> HIDE DEF G
  <2> QED
    BY <1>7, <1>13, <1>14
<1>16. \A x \in Int : x < a \/ x >= z => Read(t, x) = Read(h, x)
  <2> SUFFICES ASSUME NEW x \in Int, x < a \/ x >= z PROVE Read(t, x) = Read(h, x)
    OBVIOUS
  <2>1. (x < c \/ x >= z) /\ (x < a \/ x >= a + f)
    BY <1>1, <1>5
  <2> QED
    BY <1>3, <1>7, <2>1
<1>17. Cut(h, t, i, b)
  <2>1. a <= c /\ c + SizeOf(t, c) <= z
    BY <1>1, <1>5, <1>9, <1>10
  <2>2. h.index[i] = a /\ HeaderOfBlock(b) = c /\ b.size = n /\ h.index[i] + SizeOf(h, h.index[i]) = z
    BY <1>2 DEF a, z
  <2> QED
    BY <1>7, <1>15, <1>16, <2>1, <2>2 DEF Cut
<1> QED
  BY <1>6, <1>7, <1>17 DEF t, placed

(* What find_smallest_hole finds is large enough, and it finds what is. *)
LEMMA FitsAny ==
  ASSUME NEW h \in Heaps, NEW n \in Int, n >= 0, NEW page_align \in BOOLEAN,
         \A i \in 1 .. Len(h.index) : SizeOf(h, h.index[i]) >= 0
  PROVE  LET f == find_smallest_hole(h, n, page_align)
         IN  /\ f # 0 => f \in 1 .. Len(h.index) /\ SizeOf(h, h.index[f]) >= n
             /\ (\E i \in 1 .. Len(h.index) : SizeOf(h, h.index[i]) >= n) => f # 0
<1> DEFINE I == {i \in 1 .. Len(h.index) :
                   IF page_align THEN SizeOf(h, h.index[i]) >= n
                   ELSE UGeq(SizeOf(h, h.index[i]), n)}
           f == find_smallest_hole(h, n, page_align)
<1>1. f = IF I # {} THEN Min(I) ELSE 0
  BY DEF find_smallest_hole, FirstWhere, SelectInSeq
<1>2. Len(h.index) \in Nat /\ I \in SUBSET (1 .. Len(h.index))
  BY Parts
<1>3. \A i \in 1 .. Len(h.index) : i \in I <=> SizeOf(h, h.index[i]) >= n
  <2> SUFFICES ASSUME NEW i \in 1 .. Len(h.index)
               PROVE  UGeq(SizeOf(h, h.index[i]), n) <=> SizeOf(h, h.index[i]) >= n
    OBVIOUS
  <2>1. SizeOf(h, h.index[i]) \in Int /\ SizeOf(h, h.index[i]) >= 0
    BY ReadInt DEF SizeOf
  <2> QED
    BY <2>1 DEF UGeq
<1> HIDE DEF I, f
<1>4. CASE I # {}
  <2>1. Min(I) \in I
    BY <1>2, <1>4, Least
  <2>2. f \in I
    BY <1>1, <1>4, <2>1, Zenon
  <2>3. f \in 1 .. Len(h.index) /\ f # 0
    BY <1>2, <2>2
  <2> QED
    BY <1>3, <2>2, <2>3 DEF f
<1>5. CASE I = {}
  BY <1>1, <1>3, <1>5 DEF f
<1> QED
  BY <1>4, <1>5

(* Clients that keep their blocks, ask for page boundaries or not, and whose requests
   fit where the heap puts them. *)
Roomy == workload.frees = "none" /\ OneTable /\ RequestFits

(* The inductive invariant of their heap. *)
Kept ==
  Running => /\ Mosaic(heap, live) /\ Framed(heap) /\ NoFrameAfter(heap)
             /\ heap.end % 4 = 0

(* The heap begins as one hole. *)
LEMMA KeptInit == Init => Kept
<1> SUFFICES ASSUME Init, status = "ok"
             PROVE  /\ Mosaic(heap, live) /\ Framed(heap) /\ NoFrameAfter(heap)
                    /\ heap.end % 4 = 0
  BY DEF Kept, Running
<1>1. /\ heap.index = <<0>> /\ heap.end = InitialSize
      /\ heap.backed = -1 .. PageOf(InitialSize) - 1 /\ HoleIn(heap, 0)
  BY Starts
<1>2. Framed(heap) /\ heap.end % 4 = 0
  BY LayoutInit DEF Layout, Running, Tidy
<1>3. Len(live) = 0
  BY DEF Init
<1>4. Len(heap.index) = 1 /\ heap.index[1] = 0
  BY <1>1
<1>5. HoleThere(heap, 0)
  <2>1. 0 + SizeOf(heap, 0) = InitialSize /\ InitialSize \in Int
    BY <1>1, HeapAssumption DEF HoleIn
  <2> QED
    BY <1>1, <2>1 DEF HoleIn, HoleThere
<1>6. Mosaic(heap, live)
  <2>1. \A i \in 1 .. Len(heap.index) : i = 1
    BY <1>4
  <2> QED
    BY <1>3, <1>4, <1>5, <2>1 DEF Mosaic
<1>7. NoFrameAfter(heap)
  <2>1. PageOf(InitialSize - 1) = PageOf(InitialSize) - 1 /\ PageOf(InitialSize) \in Int
    BY HeapAssumption DEF PageOf
  <2> QED
    BY <1>1, <2>1 DEF NoFrameAfter
<1> QED
  BY <1>2, <1>6, <1>7

(* A hole that ends where the heap does is the last of them. *)
LEMMA EndsLast ==
  ASSUME NEW h \in Heaps, NEW s, Mosaic(h, s), EndsInHole(h)
  PROVE  \E a \in Int : EndHole(h, a)
<1>1. CASE h.index = <<>>
  BY <1>1, Parts DEF EndHole
<1>2. CASE h.index # <<>>
  <2>1. PICK i \in 1 .. Len(h.index) : h.index[i] + SizeOf(h, h.index[i]) = h.end
    BY <1>2 DEF EndsInHole
  <2> DEFINE a == h.index[i]
  <2>2. a \in Int /\ HoleThere(h, a) /\ a + SizeOf(h, a) = h.end /\ h.end \in Int
    BY <2>1, Parts DEF Mosaic
  <2>3. HoleIn(h, a)
    BY <2>2 DEF HoleThere, HoleIn
  <2>4. ASSUME NEW j \in 1 .. Len(h.index), j # i PROVE h.index[j] < a
    <3> DEFINE b == h.index[j]
    <3>1. b \in Int /\ HoleThere(h, b) /\ Clear(h, a, b)
      BY <2>4, Parts DEF Mosaic
    <3> HIDE DEF a, b
    <3>2. SizeOf(h, b) \in Int /\ SizeOf(h, b) >= 20 /\ b + SizeOf(h, b) <= h.end
      BY <3>1, ReadInt DEF SizeOf, HoleThere, Overhead, HeaderSize, FooterSize
    <3>3. h.end <= b \/ b + SizeOf(h, b) <= a
      BY <2>2, <3>1 DEF Clear
    <3>4. b < a
      BY <2>2, <3>1, <3>2, <3>3
    <3> QED
      BY <3>4 DEF a, b
  <2>5. EndHole(h, a)
    BY <2>3, <2>4 DEF EndHole
  <2> QED
    BY <2>2, <2>5
<1> QED
  BY <1>1, <1>2

(* The heap grows at its end: what lies below the hole there, or below the old end,
   stays. *)
LEMMA MosaicGrows ==
  ASSUME NEW h \in Heaps, NEW t \in Heaps, workload \in Workloads,
         NEW s \in Seq(Given(workload)), Mosaic(h, s),
         NEW a \in Int, EndHole(h, a),
         h.end <= t.end, t.index = (IF h.index = <<>> THEN <<a>> ELSE h.index), HoleIn(t, a),
         \A x \in Int : x < a => Read(t, x) = Read(h, x)
  PROVE  Mosaic(t, s)
<1>0. /\ h.index = <<>> => a = h.end
      /\ h.index # <<>> => \E i \in 1 .. Len(h.index) : a = h.index[i] /\ HoleIn(h, a)
  BY DEF EndHole
<1>1. h.end \in Int /\ t.end \in Int /\ a + SizeOf(t, a) = t.end /\ SizeOf(t, a) \in Int
  BY Parts, ReadInt DEF HoleIn, SizeOf
<1>2. HoleThere(t, a)
  <2>1. a + SizeOf(t, a) <= t.end
    BY <1>1
  <2> QED
    BY <2>1 DEF HoleIn, HoleThere
<1>3. a <= h.end
  <2>1. CASE h.index = <<>>
    BY <1>0, <1>1, <2>1
  <2>2. CASE h.index # <<>>
    <3>1. SizeOf(h, a) \in Int /\ SizeOf(h, a) >= 20 /\ a + SizeOf(h, a) = h.end
      BY <1>0, <2>2, ReadInt DEF HoleIn, SizeOf, Overhead, HeaderSize, FooterSize
    <3> QED
      BY <1>1, <3>1
  <2> QED
    BY <2>1, <2>2
<1> DEFINE Low(x) == /\ x \in Int /\ SizeOf(t, x) = SizeOf(h, x) /\ SizeOf(h, x) \in Int
                     /\ x + SizeOf(h, x) <= a
<1>4. ASSUME NEW x \in Int, HoleThere(h, x), x + SizeOf(h, x) <= a
      PROVE  HoleThere(t, x) /\ Low(x)
  <2>1. SizeOf(h, x) \in Int
    BY ReadInt DEF SizeOf
  <2>2. \A y \in Int : x <= y /\ y < x + SizeOf(h, x) => Read(t, y) = Read(h, y)
    <3> SUFFICES ASSUME NEW y \in Int, y < x + SizeOf(h, x) PROVE y < a
      OBVIOUS
    <3> DEFINE n == SizeOf(h, x)
    <3>1. n \in Int /\ y < x + n /\ x + n <= a
      BY <1>4, <2>1
    <3> HIDE DEF n
    <3> QED
      BY <3>1
  <2>3. HoleThere(t, x) /\ SizeOf(t, x) = SizeOf(h, x)
    BY <1>4, <2>2, HoleStays
  <2> QED
    BY <1>4, <2>1, <2>3
<1>5. ASSUME NEW k \in 1 .. Len(s)
      PROVE  LET x == HeaderOfBlock(s[k])
             IN  x >= 0 /\ BlockIn(t, x, s[k].size) /\ x + SizeOf(t, x) <= t.end /\ Low(x)
  <2> DEFINE x == HeaderOfBlock(s[k])
  <2>1. s[k].p \in Int /\ s[k].size \in workload.sizes
    BY DEF Given
  <2>2. x \in Int /\ s[k].size \in Int /\ s[k].size >= 0
    <3>1. s[k].size \in Int /\ s[k].size >= 0
      BY <2>1, Sizes
    <3>2. x \in Int
      BY <2>1 DEF HeaderOfBlock, HeaderSize
    <3> QED
      BY <3>1, <3>2
  <2>3. x >= 0 /\ BlockIn(h, x, s[k].size) /\ x + SizeOf(h, x) <= h.end
    BY DEF Mosaic
  <2>4. SizeOf(h, x) \in Int
    BY ReadInt DEF SizeOf
  <2>5. x + SizeOf(h, x) <= a
    <3>1. CASE h.index = <<>>
      BY <1>0, <2>3, <3>1
    <3>2. CASE h.index # <<>>
      <4>1. PICK i \in 1 .. Len(h.index) : a = h.index[i] /\ HoleIn(h, a)
        BY <1>0, <3>2
      <4>2. Clear(h, a, x)
        BY <4>1 DEF Mosaic
      <4> HIDE DEF x
      <4>3. a + SizeOf(h, a) = h.end /\ SizeOf(h, x) >= 20
        <5>1. SizeOf(h, x) >= s[k].size + 20
          BY <2>3 DEF BlockIn, Overhead, HeaderSize, FooterSize
        <5> QED
          BY <2>2, <2>4, <4>1, <5>1 DEF HoleIn
      <4>4. h.end <= x \/ x + SizeOf(h, x) <= a
        BY <4>2, <4>3 DEF Clear
      <4> QED
        BY <1>1, <2>2, <2>3, <2>4, <4>3, <4>4
    <3> QED
      BY <3>1, <3>2
  <2> HIDE DEF x
  <2>6. BlockIn(t, x, s[k].size) /\ SizeOf(t, x) = SizeOf(h, x)
    BY <2>2, <2>3, <2>5, BlockKept
  <2>7. x + SizeOf(t, x) <= t.end
    BY <1>1, <1>3, <2>2, <2>4, <2>5, <2>6
  <2> QED
    BY <2>2, <2>3, <2>4, <2>5, <2>6, <2>7 DEF x
<1>6. ASSUME NEW x, NEW y, Low(x), Low(y), Clear(h, x, y) PROVE Clear(t, x, y)
  BY <1>6 DEF Clear
<1>7. ASSUME NEW x, Low(x) PROVE Clear(t, x, a) /\ Clear(t, a, x)
  BY <1>7 DEF Clear
<1> HIDE DEF Low
<1>8. ASSUME NEW j \in 1 .. Len(t.index)
      PROVE  \/ t.index[j] = a /\ (h.index # <<>> => j \in 1 .. Len(h.index) /\ h.index[j] = a)
             \/ /\ j \in 1 .. Len(h.index) /\ t.index[j] = h.index[j] /\ t.index[j] # a
                /\ HoleThere(t, t.index[j]) /\ Low(t.index[j])
  <2>1. CASE h.index = <<>>
    <3>1. t.index = <<a>>
      BY <2>1
    <3>2. Len(<<a>>) = 1 /\ <<a>>[1] = a
      OBVIOUS
    <3>3. Len(t.index) = 1 /\ t.index[1] = a
      BY <3>1, <3>2, Zenon
    <3>4. j = 1
      <4>1. j \in 1 .. 1
        BY <3>3, Zenon
      <4> QED
        BY <4>1
    <3> QED
      BY <2>1, <3>3, <3>4
  <2>2. CASE h.index # <<>>
    <3>1. t.index = h.index /\ j \in 1 .. Len(h.index)
      BY <2>2
    <3>2. PICK i \in 1 .. Len(h.index) : a = h.index[i] /\ HoleIn(h, a)
      BY <1>0, <2>2
    <3> DEFINE b == h.index[j]
    <3>3. ASSUME b # a PROVE HoleThere(t, b) /\ Low(b)
      <4>0. i # j
        BY <3>2, <3>3
      <4>1. b \in Int /\ HoleThere(h, b) /\ Clear(h, a, b)
        BY <3>1, <3>2, <4>0, Parts DEF Mosaic
      <4> HIDE DEF b
      <4>2. SizeOf(h, b) \in Int /\ SizeOf(h, b) >= 20 /\ b + SizeOf(h, b) <= h.end
        BY <4>1, ReadInt DEF SizeOf, HoleThere, Overhead, HeaderSize, FooterSize
      <4>3. h.end <= b \/ b + SizeOf(h, b) <= a
        BY <3>2, <4>1 DEF Clear, HoleIn
      <4>4. b + SizeOf(h, b) <= a
        BY <1>1, <4>1, <4>2, <4>3
      <4> QED
        BY <1>4, <4>1, <4>4
    <3> HIDE DEF b
    <3>4. t.index[j] = b /\ h.index[j] = b
      BY <3>1 DEF b
    <3> QED
      BY <3>1, <3>3, <3>4
  <2> QED
    BY <2>1, <2>2
<1>9. ASSUME NEW j \in 1 .. Len(t.index), NEW k \in 1 .. Len(t.index), j # k
      PROVE  Clear(t, t.index[j], t.index[k])
  <2>1. h.index # <<>> /\ t.index = h.index
    <3> SUFFICES ASSUME h.index = <<>> PROVE FALSE
      OBVIOUS
    <3>1. t.index = <<a>>
      OBVIOUS
    <3>2. j = 1 /\ k = 1
      BY <3>1
    <3> QED
      BY <1>9, <3>2
  <2>2. Clear(h, h.index[j], h.index[k])
    BY <1>9, <2>1 DEF Mosaic
  <2>3. CASE t.index[j] # a /\ t.index[k] # a
    BY <1>6, <1>8, <2>1, <2>2, <2>3
  <2>4. CASE t.index[j] = a /\ t.index[k] # a
    BY <1>7, <1>8, <2>4
  <2>5. CASE t.index[j] # a /\ t.index[k] = a
    BY <1>7, <1>8, <2>5
  <2>6. CASE t.index[j] = a /\ t.index[k] = a
    <3>1. Clear(h, a, a)
      BY <2>1, <2>2, <2>6
    <3>2. SizeOf(h, a) \in Int /\ SizeOf(h, a) >= 20
      BY <1>0, <2>1, ReadInt DEF HoleIn, SizeOf, Overhead, HeaderSize, FooterSize
    <3> QED
      BY <3>1, <3>2 DEF Clear
  <2> QED
    BY <2>3, <2>4, <2>5, <2>6
<1>10. ASSUME NEW j \in 1 .. Len(s), NEW k \in 1 .. Len(s), j # k
       PROVE  Clear(t, HeaderOfBlock(s[j]), HeaderOfBlock(s[k]))
  <2>1. Clear(h, HeaderOfBlock(s[j]), HeaderOfBlock(s[k]))
    BY <1>10 DEF Mosaic
  <2> QED
    BY <1>5, <1>6, <2>1
<1>11. ASSUME NEW i \in 1 .. Len(t.index), NEW k \in 1 .. Len(s)
       PROVE  Clear(t, t.index[i], HeaderOfBlock(s[k]))
  <2>1. CASE t.index[i] = a
    BY <1>5, <1>7, <2>1
  <2>2. CASE t.index[i] # a
    <3>1. i \in 1 .. Len(h.index) /\ t.index[i] = h.index[i] /\ Low(t.index[i])
      BY <1>8, <2>2
    <3>2. Clear(h, t.index[i], HeaderOfBlock(s[k]))
      BY <3>1 DEF Mosaic
    <3> QED
      BY <1>5, <1>6, <3>1, <3>2
  <2> QED
    BY <2>1, <2>2
<1>12. \A j \in 1 .. Len(t.index) : HoleThere(t, t.index[j])
  BY <1>2, <1>8
<1> QED
  BY <1>5, <1>9, <1>10, <1>11, <1>12 DEF Mosaic

(* A growth goes to the hole at the end of the heap, and the request then fits. *)
LEMMA KeptGrow ==
  ASSUME Sound, Kept, Roomy, Grow, Running', OneTable'
  PROVE  /\ Mosaic(heap, live)' /\ Framed(heap)' /\ NoFrameAfter(heap)' /\ (heap.end % 4 = 0)'
         /\ (Fitting # 0)'
<1> DEFINE n == request.size + Overhead
           t == grow(heap, n)
<1>1. heap \in Heaps /\ workload \in Workloads /\ live \in Seq(Given(workload))
  BY DEF Sound
<1>2. request.size \in workload.sizes /\ request.align \in BOOLEAN
  BY HeapAssumption DEF Sound, Grow
<1>3. n \in Int /\ n >= Overhead /\ n % 4 = 0 /\ n >= 0
  BY <1>1, <1>2, Sizes DEF Overhead, HeaderSize, FooterSize
<1>4. heap' = t
  BY <1>1, <1>3, Grows, Becomes DEF Grow
<1>5. t.status = "ok" /\ t.end <= workload.span /\ t \in Heaps
  BY <1>1, <1>3, <1>4, Grows DEF heap, OneTable, Running, Grow
<1>6. t.end = heap.end + n /\ n > 0
  BY <1>1, <1>3, <1>5, GrowsBy
<1>7. Running /\ heap.end + n <= workload.span
  BY <1>5, <1>6 DEF Running, Grow
<1>8. Mosaic(heap, live) /\ Framed(heap) /\ NoFrameAfter(heap) /\ heap.end % 4 = 0
  BY <1>7 DEF Kept
<1>9. EndsInHole(heap)
  BY <1>7 DEF Roomy, RequestFits, Grow
<1>10. PICK a \in Int : EndHole(heap, a)
  BY <1>1, <1>8, <1>9, EndsLast
<1> HIDE DEF n
<1>11. /\ t.end % 4 = 0 /\ Framed(t) /\ NoFrameAfter(t)
       /\ t.index = (IF heap.index = <<>> THEN <<a>> ELSE heap.index)
       /\ HoleIn(t, a) /\ SizeOf(t, a) >= n
       /\ \A x \in Int : x < a => Read(t, x) = Read(heap, x)
  BY <1>1, <1>3, <1>5, <1>7, <1>8, <1>10, GrowsLast
<1> HIDE DEF t
<1>12. Mosaic(t, live)
  <2>1. heap.end <= t.end
    BY <1>1, <1>3, <1>6, Parts
  <2> QED
    BY <1>1, <1>5, <1>8, <1>10, <1>11, <2>1, MosaicGrows
<1>13. find_smallest_hole(t, n, request.align) # 0
  <2>1. ASSUME NEW i \in 1 .. Len(t.index) PROVE SizeOf(t, t.index[i]) >= 0
    <3>1. t.index[i] \in Int /\ HoleThere(t, t.index[i])
      BY <1>5, <1>12, Parts DEF Mosaic
    <3> QED
      BY <1>5, <3>1, ReadInt DEF HoleThere, SizeOf, Overhead, HeaderSize, FooterSize
  <2>2. \E i \in 1 .. Len(t.index) : t.index[i] = a
    <3>1. CASE heap.index = <<>>
      <4>1. t.index = <<a>>
        BY <1>11, <3>1
      <4>2. Len(<<a>>) = 1 /\ <<a>>[1] = a /\ 1 \in 1 .. 1
        OBVIOUS
      <4> QED
        BY <4>1, <4>2, Zenon
    <3>2. CASE heap.index # <<>>
      BY <1>10, <1>11, <3>2 DEF EndHole
    <3> QED
      BY <3>1, <3>2
  <2> QED
    BY <1>2, <1>3, <1>5, <1>11, <2>1, <2>2, FitsAny
<1>14. (Fitting # 0)'
  BY <1>4, <1>13 DEF Fitting, n, Grow
<1> QED
  BY <1>4, <1>11, <1>12, <1>14 DEF Grow

(* A block is cut from the hole that was found. *)
LEMMA KeptPlace ==
  ASSUME Sound, Kept, Roomy, Place, Running'
  PROVE  /\ Mosaic(heap, live)' /\ Framed(heap)' /\ NoFrameAfter(heap)' /\ (heap.end % 4 = 0)'
         /\ end_address' = end_address
         /\ \E b \in Given(workload) : live' = Append(live, b)
<1> DEFINE n == request.size
           i == Fitting
           p == BlockAt(index[i], request.align) + HeaderSize
           b == [p |-> p, size |-> n, align |-> request.align]
           placed == place(heap, i, n, request.align)
           t == Fill(placed, p, n)
<1>1. heap \in Heaps /\ workload \in Workloads /\ workload' = workload /\ index = heap.index
  BY DEF Sound, Place, heap
<1>2. n \in workload.sizes /\ request.align \in workload.aligns /\ request.align \in BOOLEAN
  BY <1>1, HeapAssumption DEF Sound, Place
<1>3. n \in Int /\ n >= 0 /\ n + Overhead \in Int /\ n + Overhead >= 0
  BY <1>1, <1>2, Sizes DEF Overhead, HeaderSize, FooterSize
<1>4. Running /\ request # NoRequest /\ i # 0
  BY DEF Place, Running
<1>5. placed.status = "ok" /\ Become(t) /\ live' = Append(live, b)
  <2> HIDE DEF placed, p, n, i
  <2>1. \/ placed.status = "ok" /\ Become(t) /\ live' = Append(live, b)
        \/ placed.status # "ok" /\ Become(placed)
    BY Zenon DEF Place, placed, p, n, i
  <2> QED
    BY <2>1 DEF Become, Running
<1>6. /\ Mosaic(heap, live) /\ Framed(heap) /\ NoFrameAfter(heap) /\ heap.end % 4 = 0
  BY <1>4 DEF Kept
<1>7. i \in 1 .. Len(heap.index) /\ SizeOf(heap, heap.index[i]) >= n + Overhead
  <2>1. ASSUME NEW j \in 1 .. Len(heap.index) PROVE SizeOf(heap, heap.index[j]) >= 0
    <3>1. heap.index[j] \in Int /\ HoleThere(heap, heap.index[j])
      BY <1>1, <1>6, Parts DEF Mosaic
    <3> QED
      BY <1>1, <3>1, ReadInt DEF HoleThere, SizeOf, Overhead, HeaderSize, FooterSize
  <2>2. i = find_smallest_hole(heap, n + Overhead, request.align)
    BY DEF Fitting
  <2> HIDE DEF i, n
  <2> QED
    BY <1>1, <1>2, <1>3, <1>4, <2>1, <2>2, FitsAny
<1>8. index[i] \in Int /\ HoleThere(heap, heap.index[i])
  BY <1>1, <1>6, <1>7, Parts DEF Mosaic
<1>9. request.align => Wide(heap, heap.index[i], n) \/ Beyond(heap, heap.index[i], n)
  BY <1>1, <1>4 DEF Roomy, RequestFits
<1>10. placed \in Heaps /\ p \in Int
  <2>1. placed \in Heaps /\ BlockAt(index[i], request.align) \in Int
    BY <1>1, <1>3, <1>7, Places
  <2> QED
    BY <2>1 DEF HeaderSize
<1>11. request.align => p % PageSize = 0
  BY <1>8, AtAligned
<1>12. b \in Given(workload)
  <2> HIDE DEF p, n
  <2> QED
    BY <1>2, <1>10, <1>11 DEF Given
<1>13. t \in Heaps /\ t.backed = heap.backed /\ Cut(heap, t, i, b)
  <2>1. CASE request.align = FALSE
    <3> DEFINE there == place(heap, i, n, FALSE)
               full == Fill(there, b.p, b.size)
    <3>1. HeaderOfBlock(b) = heap.index[i] /\ b.p \in Int /\ b.size = n /\ b.p = p
      <4>1. p = index[i] + 12
        BY <2>1 DEF BlockAt, HeaderSize
      <4> HIDE DEF p, i, n
      <4> QED
        BY <1>1, <1>8, <4>1 DEF HeaderOfBlock, HeaderSize
    <3>2. placed = there /\ t = full
      BY <2>1
    <3>3. there.status = "ok"
      BY <1>5, <3>2
    <3>4. full \in Heaps /\ full.backed = heap.backed /\ Cut(heap, full, i, b)
      <4> HIDE DEF b, i, n
      <4> QED
        BY <1>1, <1>3, <1>7, <1>8, <3>1, <3>3, CutsOpen
    <3> HIDE DEF t, full, b, i
    <3> QED
      BY <3>2, <3>4
  <2>2. CASE request.align = TRUE
    <3> DEFINE there == place(heap, i, n, TRUE)
               full == Fill(there, b.p, b.size)
    <3>1. HeaderOfBlock(b) = heap.index[i] + FrontSize(heap.index[i])
          /\ b.p \in Int /\ b.size = n /\ b.p = p
      <4>1. p = (index[i] + FrontSize(index[i])) + 12
        BY <2>2 DEF BlockAt, HeaderSize
      <4>2. index[i] + FrontSize(index[i]) \in Int
        BY <1>8, FrontInt
      <4> DEFINE c == index[i] + FrontSize(index[i])
      <4> HIDE DEF p, n, c
      <4>3. HeaderOfBlock(b) = c
        BY <4>1, <4>2 DEF HeaderOfBlock, HeaderSize, c
      <4> QED
        BY <1>1, <1>10, <4>3 DEF c
    <3>2. placed = there /\ t = full
      BY <2>2
    <3>3. there.status = "ok"
      BY <1>5, <3>2
    <3>4. full \in Heaps /\ full.backed = heap.backed /\ Cut(heap, full, i, b)
      <4> HIDE DEF b, i, n
      <4>1. /\ heap \in Heaps /\ i \in 1 .. Len(heap.index) /\ HoleThere(heap, heap.index[i])
            /\ b.p \in Int /\ b.size \in Int /\ b.size >= 0
            /\ HeaderOfBlock(b) = heap.index[i] + FrontSize(heap.index[i])
        BY <1>1, <1>3, <1>7, <1>8, <3>1
      <4>2. /\ SizeOf(heap, heap.index[i]) >= b.size + Overhead
            /\ Wide(heap, heap.index[i], b.size) \/ Beyond(heap, heap.index[i], b.size)
            /\ NoFrameAfter(heap) /\ place(heap, i, b.size, TRUE).status = "ok"
            /\ full = Fill(place(heap, i, b.size, TRUE), b.p, b.size)
        BY <1>6, <1>7, <1>9, <2>2, <3>1, <3>3
      <4> HIDE DEF full
      <4> QED
        BY <4>1, <4>2, CutsWide
    <3> HIDE DEF t, full, b, i
    <3> QED
      BY <3>2, <3>4
  <2> QED
    BY <1>2, <2>1, <2>2
<1>14. heap' = t
  BY <1>5, <1>13, Becomes
<1>15. t.end = heap.end
  BY <1>13 DEF Cut
<1> HIDE DEF t, b, i
<1>16. Mosaic(t, Append(live, b))
  BY <1>1, <1>6, <1>7, <1>12, <1>13, CutKeeps DEF Sound
<1>17. Framed(t) /\ NoFrameAfter(t) /\ t.end % 4 = 0
  BY <1>6, <1>13, <1>15 DEF Framed, NoFrameAfter
<1>18. end_address' = end_address
  BY <1>14, <1>15 DEF heap
<1> QED
  BY <1>5, <1>12, <1>14, <1>16, <1>17, <1>18

(* The clients' own steps keep the invariant. *)
LEMMA KeptStep ==
  ASSUME Sound, Kept, Roomy, OneTable', [Next]_vars
  PROVE  Kept'
<1> SUFFICES ASSUME Running'
             PROVE  /\ Mosaic(heap, live)' /\ Framed(heap)' /\ NoFrameAfter(heap)'
                    /\ (heap.end % 4 = 0)'
  BY DEF Kept
<1>1. CASE UNCHANGED <<heap, live>>
  <2>1. heap' = heap /\ live' = live
    BY <1>1
  <2>2. heap.status = "ok" /\ heap'.status = status'
    BY <2>1 DEF heap, Running
  <2>3. Mosaic(heap, live) /\ Framed(heap) /\ NoFrameAfter(heap) /\ heap.end % 4 = 0
    BY <2>2 DEF Kept, Running, heap
  <2> QED
    BY <2>1, <2>3
<1>2. ASSUME NEW size, NEW page_align, Call(size, page_align) PROVE UNCHANGED <<heap, live>>
  BY <1>2 DEF Call, heap
<1>3. ASSUME NEW k, Free(k) PROVE FALSE
  BY <1>3 DEF Free, Roomy
<1>4. CASE UNCHANGED vars
  BY <1>1, <1>4 DEF vars, heap
<1> QED
  BY <1>1, <1>2, <1>3, <1>4, KeptGrow, KeptPlace DEF Next

(* It holds in every behaviour of such clients. *)
LEMMA KeptApart == Spec /\ []Roomy => [](Sound /\ Kept)
<1>1. Sound /\ Kept /\ Roomy /\ Roomy' /\ [Next]_vars => (Sound /\ Kept)'
  BY SoundStep, KeptStep DEF Roomy
<1> QED
  BY <1>1, InitSound, KeptInit, PTL DEF Spec

(* A block's extent lies within what its header says it has. *)
LEMMA KeptExtents ==
  ASSUME Sound, Kept, Running, NEW k \in 1 .. Len(live)
  PROVE  LET x == Extent(live[k])
             a == HeaderOfBlock(live[k])
         IN  /\ x.first = a /\ a \in Int /\ SizeOf(heap, a) \in Int /\ x.last \in Int /\ 0 <= a
             /\ x.last < a + SizeOf(heap, a) /\ x.last < end_address
             /\ BlockIn(heap, a, live[k].size)
<1> DEFINE b == live[k]
           a == HeaderOfBlock(b)
           x == Extent(b)
<1>1. b.p \in Int /\ b.size \in Int
  <2>1. b \in Given(workload) /\ workload \in Workloads
    BY DEF Sound
  <2> HIDE DEF b
  <2>2. b.p \in Int /\ b.size \in workload.sizes
    BY <2>1 DEF Given
  <2> QED
    BY <2>1, <2>2, Sizes
<1>2. a >= 0 /\ BlockIn(heap, a, b.size) /\ a + SizeOf(heap, a) <= heap.end
  BY DEF Kept, Mosaic
<1>3. heap.end = end_address /\ end_address \in Int
  BY Parts DEF Sound, heap
<1> HIDE DEF b
<1>4. x.first = a /\ a = b.p - 12 /\ x.last = b.p + b.size + 7
  BY <1>1 DEF Extent, HeaderOfBlock, HeaderSize, FooterSize
<1>5. SizeOf(heap, a) \in Int /\ SizeOf(heap, a) >= b.size + 20
  BY <1>2, ReadInt DEF SizeOf, BlockIn, Overhead, HeaderSize, FooterSize, Sound
<1> HIDE DEF a, x
<1>6. a \in Int /\ x.last \in Int
  BY <1>1, <1>4
<1>7. x.last < a + SizeOf(heap, a) /\ x.last < end_address
  <2> DEFINE n == SizeOf(heap, a)
             size == b.size
             last == x.last
  <2>1. n \in Int /\ n >= size + 20 /\ a + n <= end_address /\ end_address \in Int
    BY <1>2, <1>3, <1>5
  <2>2. size \in Int /\ last \in Int /\ a \in Int /\ last = a + size + 19
    <3> DEFINE q == b.p
    <3>1. q \in Int /\ size \in Int /\ last \in Int /\ a \in Int /\ a = q - 12 /\ last = q + size + 7
      BY <1>1, <1>4, <1>6
    <3> HIDE DEF q, size, last
    <3> QED
      BY <3>1
  <2> HIDE DEF n, size, last
  <2>3. last < a + n /\ last < end_address
    BY <2>1, <2>2
  <2> QED
    BY <2>3 DEF n, last
<1> QED
  BY <1>2, <1>4, <1>5, <1>6, <1>7 DEF a, x, b

(* Blocks that are kept lie within the heap, whole and apart. *)
LEMMA KeptSpreads == Sound /\ Kept => Spread
<1> SUFFICES ASSUME Sound, Kept, Running PROVE Spread
  BY DEF Spread
<1>1. ASSUME NEW k \in 1 .. Len(live)
      PROVE  LET x == Extent(live[k])
             IN  /\ x.first \in Int /\ x.last \in Int /\ 0 <= x.first
                 /\ x.last < end_address
                 /\ BlockIn(heap, x.first, live[k].size)
  BY KeptExtents
<1>2. ASSUME NEW j \in 1 .. Len(live), NEW k \in 1 .. Len(live), j # k
      PROVE  Apart(Extent(live[j]), Extent(live[k]))
  <2> DEFINE a == HeaderOfBlock(live[j])
             c == HeaderOfBlock(live[k])
             x == Extent(live[j])
             y == Extent(live[k])
  <2>1. Clear(heap, a, c)
    BY <1>2 DEF Kept, Mosaic
  <2>2. /\ x.first = a /\ a \in Int /\ SizeOf(heap, a) \in Int /\ x.last \in Int
        /\ x.last < a + SizeOf(heap, a)
        /\ y.first = c /\ c \in Int /\ SizeOf(heap, c) \in Int /\ y.last \in Int
        /\ y.last < c + SizeOf(heap, c)
    BY KeptExtents
  <2> HIDE DEF a, c, x, y
  <2>3. x.last < y.first \/ y.last < x.first
    BY <2>1, <2>2 DEF Clear
  <2> QED
    BY <2>3 DEF Apart, x, y
<1> QED
  BY <1>1, <1>2 DEF Spread

(* And so do the holes. *)
LEMMA KeptHoles == Sound /\ Kept => HolesSound
<1> SUFFICES ASSUME Sound, Kept, Running, NEW i \in 1 .. Len(index)
             PROVE  /\ Read(heap, index[i]) = Magic /\ IsHole(heap, index[i]) = 1
                    /\ \A b \in Blocks : Apart(HoleExtent(index[i]), Extent(b))
                    /\ \A j \in 1 .. Len(index) :
                         i # j => Apart(HoleExtent(index[i]), HoleExtent(index[j]))
  BY DEF HolesSound
<1>1. index = heap.index /\ Mosaic(heap, live)
  BY DEF heap, Kept
<1>2. \A a : HoleExtent(a).first = a /\ HoleExtent(a).last = a + SizeOf(heap, a) - 1
  BY DEF HoleExtent
<1>3. ASSUME NEW j \in 1 .. Len(index) PROVE index[j] \in Int /\ SizeOf(heap, index[j]) \in Int
  BY <1>1, Parts, ReadInt DEF Sound, SizeOf
<1>4. ASSUME NEW k \in 1 .. Len(live) PROVE Apart(HoleExtent(index[i]), Extent(live[k]))
  <2> DEFINE a == index[i]
             c == HeaderOfBlock(live[k])
             x == Extent(live[k])
  <2>1. Clear(heap, a, c)
    BY <1>1 DEF Mosaic
  <2>2. /\ x.first = c /\ c \in Int /\ SizeOf(heap, c) \in Int /\ x.last \in Int
        /\ x.last < c + SizeOf(heap, c)
    BY KeptExtents
  <2>3. a \in Int /\ SizeOf(heap, a) \in Int
    BY <1>3
  <2> HIDE DEF a, c, x
  <2>4. HoleExtent(a).last < x.first \/ x.last < HoleExtent(a).first
    BY <1>2, <2>1, <2>2, <2>3 DEF Clear
  <2> QED
    BY <2>4 DEF Apart, a, x
<1>5. ASSUME NEW j \in 1 .. Len(index), i # j PROVE Apart(HoleExtent(index[i]), HoleExtent(index[j]))
  <2> DEFINE a == index[i]
             c == index[j]
  <2>1. Clear(heap, a, c)
    BY <1>1, <1>5 DEF Mosaic
  <2>2. a \in Int /\ SizeOf(heap, a) \in Int /\ c \in Int /\ SizeOf(heap, c) \in Int
    BY <1>3
  <2> HIDE DEF a, c
  <2>3. HoleExtent(a).last < HoleExtent(c).first \/ HoleExtent(c).last < HoleExtent(a).first
    BY <1>2, <2>1, <2>2 DEF Clear
  <2> QED
    BY <2>3 DEF Apart, a, c
<1>6. Read(heap, index[i]) = Magic /\ IsHole(heap, index[i]) = 1
  BY <1>1 DEF Mosaic, HoleThere
<1> QED
  BY <1>4, <1>5, <1>6 DEF Blocks

(* Clients that keep their blocks, asking for page boundaries or not, have a sound heap
   as long as their requests fit where the heap puts them (kernelheap.c:168-288). *)
THEOREM KeepersAreSafe ==
  Spec /\ []Roomy => [](BlocksDisjoint /\ BlocksIntact /\ BlocksBacked /\ HolesSound)
<1>1. Kept => (Running => Framed(heap))
  BY DEF Kept
<1>2. Sound /\ Kept => BlocksDisjoint /\ BlocksIntact /\ BlocksBacked /\ HolesSound
  BY <1>1, KeptSpreads, KeptHoles, SpreadBlocks, SpreadBacked
<1> QED
  BY <1>2, KeptApart, PTL

(* Their requests too fit after one growth (kernelheap.c:223-224). *)
THEOREM KeepersGetEnough == Spec /\ []Roomy => EnoughAfterGrow
<1>1. Sound /\ Kept /\ Roomy /\ Roomy' /\ [Next]_vars
        => [end_address' > end_address => ~Running' \/ Fitting' # 0]_vars
  <2> SUFFICES ASSUME Sound, Kept, Roomy, OneTable', Next,
                      end_address' > end_address, Running'
               PROVE  Fitting' # 0
    BY DEF Roomy
  <2>1. end_address \in Int
    BY Parts DEF Sound, heap
  <2>2. CASE Grow
    BY <2>2, KeptGrow
  <2>3. CASE Place
    <3>1. end_address' = end_address
      BY <2>3, KeptPlace
    <3> QED
      BY <2>1, <3>1
  <2>4. ASSUME NEW size, NEW page_align, Call(size, page_align) PROVE FALSE
    BY <2>1, <2>4 DEF Call
  <2>5. ASSUME NEW i, Free(i) PROVE FALSE
    BY <2>5 DEF Free, Roomy
  <2> QED
    BY <2>2, <2>3, <2>4, <2>5 DEF Next
<1> QED
  BY <1>1, KeptApart, PTL DEF Spec, EnoughAfterGrow

(* And alloc keeps its promise to them (kernelheap.c:168-288, kernelheap.h:52-60). *)
THEOREM KeepersHaveAllocator == Spec /\ []Roomy => IsAllocator
<1> DEFINE regions == {[p |-> b.p, size |-> b.size] : b \in Blocks}
<1>1. Sound /\ Kept /\ Roomy /\ Sound' /\ Spread' /\ [Next]_vars => [Promised!Next]_regions
  <2> SUFFICES ASSUME Sound, Kept, Roomy, Sound', Spread', [Next]_vars, live' # live
               PROVE  Promised!Alloc
    BY DEF Blocks, Promised!Next
  <2>1. ~ Grow
    BY DEF Grow
  <2>2. ASSUME NEW size, NEW page_align, Call(size, page_align) PROVE FALSE
    BY <2>2 DEF Call
  <2>3. ASSUME NEW i, Free(i) PROVE FALSE
    BY <2>3 DEF Free, Roomy
  <2>4. Place
    BY <2>1, <2>2, <2>3 DEF Next, vars
  <2>5. Running'
    BY <2>4, PlaceRuns
  <2>6. PICK b \in Given(workload) : live' = Append(live, b)
    BY <2>4, <2>5, KeptPlace
  <2>7. workload' = workload
    BY <2>4 DEF Place
  <2> QED
    BY <2>5, <2>6, <2>7, AllocStep
<1>2. Spec /\ []Roomy => [](Sound /\ Kept) /\ []Spread
  BY KeptApart, KeptSpreads, PTL
<1> HIDE DEF regions
<1> QED
  BY AllocInit, <1>1, <1>2, PTL DEF Spec, IsAllocator, Promised!Spec, regions
=============================================================================
