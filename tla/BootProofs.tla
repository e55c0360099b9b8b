----------------------------- MODULE BootProofs -----------------------------
(***************************************************************************)
(* Proofs about Boot: for every size of the memory, the heap and the two    *)
(* stacks and every memory contents that the assumptions of Boot allow.     *)
(*                                                                         *)
(* The invariant of initialise_paging says how far each loop has come. The  *)
(* identity loop chases a bound that its own body moves; what stops it is   *)
(* that a page table is made once for each slot and that the slots are      *)
(* known beforehand, so the invariant counts the tables.  Every allocation  *)
(* of a frame finds a free one because the invariant also counts those.    *)
(***************************************************************************)
EXTENDS Boot, FiniteSetTheorems, WellFoundedInduction, TLAPS

Scan == INSTANCE PCIProofs
Mover == INSTANCE MoveStackProofs WITH mapped <- DOMAIN pte

Bottom == StackPointer - StackWords

(* where the placement starts once the directory is made, and the most that one
   page table adds to it                                                    *)
Base(image) == image.end + PageSize + DirectoryBytes
TableSpan == PageSize + TableBytes

(* Every page has a frame of its own, and the frame is marked. *)
Owned ==
  /\ frames \subseteq 0 .. NumFrames - 1
  /\ DOMAIN pte \subseteq Nat
  /\ pte \in [DOMAIN pte -> frames]
  /\ \A p, q \in DOMAIN pte : pte[p] = pte[q] => p = q

(* What has been placed behind the image. *)
Placed(image) ==
  /\ placement_address \in Nat /\ placement_address >= PageSize
  /\ tables \subseteq TableSlots
  /\ CASE pc = "bitset" ->
            /\ placement_address = image.end /\ frames = image.ram
            /\ bitset = 0 /\ kernel_directory = 0 /\ tables = {}
       [] pc = "directory" ->
            /\ placement_address = image.end + BitsetBytes
            /\ bitset = image.end /\ kernel_directory = 0 /\ tables = {}
       [] OTHER ->
            /\ placement_address >= image.end + PageSize
            /\ bitset = image.end /\ kernel_directory = image.end + PageSize
  /\ pc \in {"premap", "identity"} =>
       placement_address <= Base(image) + Cardinality(tables) * TableSpan

(* Pages below n are mapped to themselves. *)
Identical(n) == \A p \in 0 .. n - 1 : p \in DOMAIN pte /\ pte[p] = p

(* Where each loop stands. *)
Loops(image) ==
  /\ pc \in {"bitset", "directory", "premap"} => DOMAIN pte = {}
  /\ pc \in {"directory", "premap"} =>
       \A f \in 0 .. IdentityPages(image) - 1 : f \notin frames
  /\ pc = "premap" =>
       i \in HeapFirst .. HeapEnd /\ \A p \in HeapFirst .. i - 1 : SlotOf(p) \in tables
  /\ pc \in {"identity", "heapframes"} =>
       \A p \in HeapFirst .. HeapEnd - 1 : SlotOf(p) \in tables
  /\ pc = "identity" =>
       /\ i \in 0 .. IdentityPages(image)
       /\ DOMAIN pte = 0 .. i - 1 /\ Identical(i)
       /\ \A f \in i .. IdentityPages(image) - 1 : f \notin frames
  /\ pc = "heapframes" =>
       i \in HeapFirst .. HeapEnd /\ HeapFirst .. i - 1 \subseteq DOMAIN pte
  /\ pc \in {"create_heap", "done"} => HeapFirst .. HeapEnd - 1 \subseteq DOMAIN pte
  /\ pc \in {"heapframes", "create_heap", "done"} =>
       \E n \in 0 .. IdentityPages(image) :
         /\ Identical(n)
         /\ placement_address + (IF pc = "done" THEN 0 ELSE PageSize) <= n * PageSize

(* The pages that initialise_paging has still to map. *)
PagesLeft(image) ==
  CASE pc = "identity"   -> IdentityPages(image) - i + HeapPages
    [] pc = "heapframes" -> HeapEnd - i
    [] OTHER             -> IF pc \in {"directory", "premap"}
                              THEN IdentityPages(image) + HeapPages ELSE 0

(* The pages that move_stack has still to map. *)
StackLeft == Move!WordPage(top) - Move!WordPage(Bottom) + 1

PagingInv(image) ==
  /\ pc \in {"bitset", "directory", "premap", "identity", "heapframes",
             "create_heap", "done"}
  /\ i \in Nat
  /\ Owned /\ Placed(image) /\ Loops(image)

Room(image) ==
  pc # "bitset" =>
    Cardinality(FreeFrames) >= PagesLeft(image) + Cardinality(StackPages)

BootInv ==
  /\ Scan!ScanInv
  /\ phase = "scan" => pc = "bitset"
  /\ phase \in {"scan", "paging"} => moving = "no" /\ top = 0 /\ esp = stack_esp /\ ebp = stack_esp
  /\ phase \in {"tasking", "booted"} => pc = "done" /\ Mover!Inv /\ top \in Nat
  /\ phase = "tasking" /\ moving = "map" => Cardinality(FreeFrames) >= StackLeft
  /\ phase = "booted" => moving = "moved"
  /\ phase \in {"scan", "paging", "tasking", "booted"}
  /\ \E image \in Images : PagingInv(image) /\ (phase \in {"scan", "paging"} => Room(image))

-----------------------------------------------------------------------------
(* Sizes and pages *)

(* What is assumed of the constants, in numbers. *)
LEMMA Numbers ==
  /\ PageSize \in Nat \ {0} /\ Entries \in Nat \ {0} /\ NumFrames \in Nat \ {0}
  /\ WordBits \in Nat \ {0}
  /\ HeapFirst \in Nat /\ HeapPages \in Nat /\ HeapEnd \in Nat /\ HeapEnd = HeapFirst + HeapPages
  /\ DirectoryBytes \in Nat /\ TableBytes \in Nat /\ HeapBytes \in Nat
  /\ TableSpan \in Nat /\ NumFrames <= HeapFirst
BY PagingInitAssumption DEF HeapEnd, TableSpan

(* The bits that first_frame looks at are bits of frames. *)
LEMMA Bits ==
  /\ BitsetBytes \in Nat /\ BitsetBytes < PageSize
  /\ BitsetBytes * WordBits \in Nat /\ BitsetBytes * WordBits <= NumFrames
<1>1. NumFrames \in Int /\ WordBits \in Nat \ {0} /\ BitsetBytes = NumFrames \div WordBits
      /\ NumFrames >= 0
  BY Numbers DEF BitsetBytes
<1>2. /\ BitsetBytes \in Int /\ NumFrames % WordBits >= 0
      /\ NumFrames = (WordBits * BitsetBytes) + (NumFrames % WordBits)
  BY <1>1, Mover!Division
<1>3. BitsetBytes >= 0
  BY <1>1, SMT
<1>4. BitsetBytes * WordBits = WordBits * BitsetBytes /\ BitsetBytes * WordBits \in Nat
  BY <1>1, <1>2, <1>3, SMT
<1>5. BitsetBytes * WordBits <= NumFrames
  <2> DEFINE r == NumFrames % WordBits  w == WordBits * BitsetBytes
  <2>1. r \in Int /\ w \in Int
    BY <1>1, <1>2, <1>3
  <2> HIDE DEF r, w
  <2> QED
    BY <1>1, <1>2, <1>4, <2>1 DEF r, w
<1> QED
  BY <1>2, <1>3, <1>4, <1>5, PagingInitAssumption

(* The slots are finitely many, so that placement_address stays below a bound. *)
LEMMA SlotsFinite ==
  /\ IsFiniteSet(TableSlots) /\ Cardinality(TableSlots) \in Nat
  /\ \A S \in SUBSET TableSlots : IsFiniteSet(S) /\ Cardinality(S) \in Nat
                                  /\ Cardinality(S) <= Cardinality(TableSlots)
<1>1. IsFiniteSet(0 .. Entries - 1)
  BY Numbers, FS_Interval
<1>2. TableSlots \in SUBSET (0 .. Entries - 1)
  BY PagingInitAssumption
<1>3. IsFiniteSet(TableSlots)
  BY <1>1, <1>2, FS_Subset
<1> QED
  BY <1>3, FS_Subset, FS_CardinalityType

(* The frames that are free can be counted. *)
LEMMA FreeFinite ==
  FreeFrames \subseteq Nat /\ IsFiniteSet(FreeFrames) /\ Cardinality(FreeFrames) \in Nat
<1>1. IsFiniteSet(0 .. BitsetBytes * WordBits - 1)
  BY Bits, FS_Interval
<1>2. FreeFrames \in SUBSET (0 .. BitsetBytes * WordBits - 1)
  BY DEF FreeFrames
<1>3. FreeFrames \subseteq Nat
  BY <1>2, Bits
<1>4. IsFiniteSet(FreeFrames)
  BY <1>1, <1>2, FS_Subset, Zenon
<1> QED
  BY <1>3, <1>4, FS_CardinalityType

(* The image, the directory behind it, and the bounds of the identity map. *)
LEMMA ImageNumbers ==
  ASSUME NEW image \in Images
  PROVE  /\ image.end \in Nat /\ image.end % PageSize = 0 /\ image.end >= PageSize
         /\ image.ram \subseteq 0 .. NumFrames - 1
         /\ Base(image) \in Nat /\ Furthest(image) \in Nat
         /\ Furthest(image) = Base(image) + Cardinality(TableSlots) * TableSpan
         /\ IdentityPages(image) \in Nat
         /\ IdentityPages(image) <= BitsetBytes * WordBits
         /\ IdentityPages(image) <= NumFrames
         /\ \A f \in image.ram : f < IdentityPages(image) => f < ClearedBits
<1>1. /\ image.end \in Nat /\ image.end % PageSize = 0 /\ image.end >= PageSize
      /\ image.ram \subseteq 0 .. NumFrames - 1
      /\ IdentityPages(image) <= BitsetBytes * WordBits
      /\ \A f \in image.ram : f < IdentityPages(image) => f < ClearedBits
  BY PagingInitAssumption
<1>2. Base(image) \in Nat /\ TableSpan \in Nat /\ Cardinality(TableSlots) \in Nat
  BY <1>1, Numbers, SlotsFinite DEF Base
<1>3. Furthest(image) = Base(image) + Cardinality(TableSlots) * TableSpan
  BY DEF Furthest, Base, TableSpan
<1>4. Cardinality(TableSlots) * TableSpan \in Nat
  BY <1>2
<1>5. Furthest(image) \in Nat
  BY <1>2, <1>3, <1>4
<1>6. IdentityPages(image) \in Nat
  <2>1. Furthest(image) \div PageSize \in Nat
    BY <1>5, Numbers
  <2> QED
    BY <2>1 DEF IdentityPages
<1> QED
  BY <1>1, <1>2, <1>3, <1>5, <1>6, Bits, Numbers

(* kmalloc with "align" goes on to the start of the next page, at most a page
   further (kernelheap.c:25-40).                                            *)
LEMMA AlignedIsNext ==
  ASSUME NEW a \in Nat, a >= PageSize
  PROVE  /\ Aligned(a) \in Nat /\ a <= Aligned(a) /\ Aligned(a) <= a + PageSize
         /\ Aligned(a) = PageSize * (a \div PageSize) + PageSize
<1> DEFINE k == a \div PageSize  r == a % PageSize
<1>1. PageSize \in Nat \ {0} /\ a \in Int
  BY Numbers
<1>2. k \in Int /\ r \in 0 .. PageSize - 1 /\ a = (PageSize * k) + r
  BY <1>1, Mover!Division
<1>3. Aligned(a) = IF k # 0 THEN k * PageSize + PageSize ELSE a
  BY DEF Aligned
<1> HIDE DEF k, r
<1>4. k # 0
  <2> SUFFICES ASSUME k = 0 PROVE FALSE
    OBVIOUS
  <2>1. a = r
    BY <1>1, <1>2
  <2> QED
    BY <1>1, <1>2, <2>1
<1>5. Aligned(a) = PageSize * k + PageSize /\ PageSize * k \in Int
  BY <1>1, <1>2, <1>3, <1>4
<1>6. Aligned(a) = a - r + PageSize
  BY <1>1, <1>2, <1>5
<1> QED
  BY <1>1, <1>2, <1>5, <1>6 DEF k

(* The directory comes a page behind the image, where the bitset is. *)
LEMMA DirectoryPlace ==
  ASSUME NEW image \in Images
  PROVE  Aligned(image.end + BitsetBytes) = image.end + PageSize
<1> DEFINE a == image.end + BitsetBytes  j == image.end \div PageSize  k == a \div PageSize
           r == a % PageSize
<1>1. /\ PageSize \in Nat \ {0} /\ image.end \in Nat /\ image.end >= PageSize
      /\ BitsetBytes \in Nat /\ BitsetBytes < PageSize /\ a \in Nat /\ a >= PageSize
      /\ a \in Int /\ image.end \in Int /\ image.end % PageSize = 0
  BY Numbers, ImageNumbers, Bits
<1> HIDE DEF a
<1>2. j \in Int /\ image.end = (PageSize * j) + 0
  <2>1. j \in Int /\ image.end = (PageSize * j) + (image.end % PageSize)
    BY <1>1, Mover!Division
  <2> QED
    BY <1>1, <2>1
<1>3. k \in Int /\ r \in 0 .. PageSize - 1 /\ a = (PageSize * k) + r
  BY <1>1, Mover!Division
<1>4. Aligned(a) = PageSize * k + PageSize
  BY <1>1, AlignedIsNext
<1>0. a = image.end + BitsetBytes
  BY DEF a
<1> HIDE DEF j, k, r
<1>5. k = j
  <2> DEFINE d == k - j
  <2>1. d \in Int /\ k = d + j
    BY <1>2, <1>3
  <2> HIDE DEF d
  <2>2. PageSize * k = PageSize * d + PageSize * j /\ PageSize * d \in Int
        /\ PageSize * j \in Int
    BY <1>1, <1>2, <2>1
  <2>3. PageSize * d + r = BitsetBytes
    BY <1>0, <1>1, <1>2, <1>3, <2>2
  <2>4. CASE d >= 1
    <3>1. PageSize * d >= PageSize
      BY <1>1, <2>1, <2>4, Z3
    <3> QED BY <1>1, <1>3, <2>2, <2>3, <3>1
  <2>5. CASE d <= -1
    <3>1. PageSize * d <= -PageSize
      BY <1>1, <2>1, <2>5, Z3
    <3> QED BY <1>1, <1>3, <2>2, <2>3, <3>1
  <2>6. d = 0
    BY <2>1, <2>4, <2>5
  <2> QED
    BY <1>2, <2>1, <2>6
<1> QED
  BY <1>1, <1>2, <1>4, <1>5 DEF a

-----------------------------------------------------------------------------
(* Page tables and frames *)

(* get_page makes at most one page table, for a slot that has none
   (paging.c:195-217).                                                      *)
LEMMA GetPageStep ==
  ASSUME NEW image \in Images, NEW page \in Nat, SlotOf(page) \in TableSlots,
         tables \subseteq TableSlots,
         placement_address \in Nat, placement_address >= PageSize,
         GetPage(page)
  PROVE  /\ tables' \subseteq TableSlots /\ tables \subseteq tables' /\ SlotOf(page) \in tables'
         /\ placement_address' \in Nat /\ placement_address <= placement_address'
         /\ placement_address <= Base(image) + Cardinality(tables) * TableSpan =>
              placement_address' <= Base(image) + Cardinality(tables') * TableSpan
         /\ SlotOf(page) \in tables => placement_address' = placement_address
<1>1. tables' = tables \cup {SlotOf(page)}
  BY DEF GetPage
<1>2. CASE SlotOf(page) \in tables
  <2>1. tables' = tables /\ placement_address' = placement_address
    BY <1>2, <1>1 DEF GetPage
  <2> QED
    BY <1>2, <2>1
<1>3. CASE SlotOf(page) \notin tables
  <2>1. placement_address' = Aligned(placement_address) + TableBytes
    BY <1>3 DEF GetPage
  <2>2. /\ Aligned(placement_address) \in Nat
        /\ placement_address <= Aligned(placement_address)
        /\ Aligned(placement_address) <= placement_address + PageSize
    BY AlignedIsNext
  <2>3. /\ placement_address' \in Nat /\ placement_address <= placement_address'
        /\ placement_address' <= placement_address + TableSpan
    BY <2>1, <2>2, Numbers DEF TableSpan
  <2>4. Cardinality(tables') = Cardinality(tables) + 1 /\ Cardinality(tables) \in Nat
    BY <1>1, <1>3, SlotsFinite, FS_AddElement
  <2>5. Base(image) \in Nat /\ TableSpan \in Nat
    BY Numbers, ImageNumbers
  <2>6. (Cardinality(tables) + 1) * TableSpan = Cardinality(tables) * TableSpan + TableSpan
        /\ Cardinality(tables) * TableSpan \in Nat
    <3> DEFINE c == Cardinality(tables)
    <3> HIDE DEF c
    <3>1. (c + 1) * TableSpan = c * TableSpan + TableSpan /\ c * TableSpan \in Nat
      BY <2>4, <2>5 DEF c
    <3> QED
      BY <3>1 DEF c
  <2>7. placement_address <= Base(image) + Cardinality(tables) * TableSpan =>
          placement_address' <= Base(image) + Cardinality(tables') * TableSpan
    BY <2>3, <2>4, <2>5, <2>6
  <2> QED
    BY <1>1, <1>3, <2>3, <2>7
<1> QED
  BY <1>2, <1>3

(* first_frame answers the lowest free frame when there is one (paging.c:49-67). *)
LEMMA LowestFree ==
  ASSUME FreeFrames # {}
  PROVE  FirstFrame \in FreeFrames /\ \A g \in FreeFrames : FirstFrame <= g
<1>1. FreeFrames \subseteq Nat
  BY FreeFinite
<1>2. PICK m \in FreeFrames : \A k \in FreeFrames : <<k, m>> \notin OpToRel(<, Nat)
  BY <1>1, WFMin, NatLessThanWellFounded, Zenon
<1>3. \A k \in FreeFrames : ~(k < m)
  BY <1>1, <1>2, Zenon DEF OpToRel
<1>4. \A k \in FreeFrames : m <= k
  BY <1>1, <1>3, SMT
<1> QED
  BY <1>4, Zenon DEF FirstFrame

(* alloc_frame gives a page that has no frame a free one (paging.c:72-92). *)
LEMMA AllocFrameStep ==
  ASSUME Owned, NEW page \in Nat, FreeFrames # {}, AllocFrame(page)
  PROVE  /\ Owned' /\ page \in DOMAIN pte'
         /\ DOMAIN pte' = DOMAIN pte \cup {page} /\ frames \subseteq frames'
         /\ \A p \in DOMAIN pte : p # page => pte'[p] = pte[p]
         /\ Cardinality(FreeFrames') >= Cardinality(FreeFrames) - 1
         /\ Cardinality(FreeFrames') \in Nat
         /\ ~HasFrame(page) => frames' = frames \cup {FirstFrame} /\ pte'[page] = FirstFrame
<1>1. IsFiniteSet(FreeFrames) /\ Cardinality(FreeFrames) \in Nat
  BY FreeFinite
<1>2. CASE HasFrame(page)
  <2>1. frames' = frames /\ pte' = pte
    BY <1>2 DEF AllocFrame
  <2>2. FreeFrames' = FreeFrames
    BY <2>1 DEF FreeFrames
  <2>3. Owned'
    BY <2>1 DEF Owned
  <2> QED
    BY <1>1, <1>2, <2>1, <2>2, <2>3 DEF HasFrame
<1>3. CASE ~HasFrame(page)
  <2>1. /\ frames' = frames \cup {FirstFrame}
        /\ pte' = [p \in DOMAIN pte \cup {page} |->
                     IF p = page THEN FirstFrame ELSE pte[p]]
    BY <1>3 DEF AllocFrame
  <2>2. FirstFrame \in FreeFrames /\ FirstFrame \notin frames /\ FirstFrame \in 0 .. NumFrames - 1
    <3>1. FirstFrame \in FreeFrames
      BY LowestFree
    <3>2. FirstFrame \in 0 .. BitsetBytes * WordBits - 1 /\ FirstFrame \notin frames
      BY <3>1 DEF FreeFrames
    <3> QED
      BY <3>1, <3>2, Bits, Numbers
  <2>3. FreeFrames' = FreeFrames \ {FirstFrame}
    BY <2>1 DEF FreeFrames
  <2>4. Cardinality(FreeFrames') = Cardinality(FreeFrames) - 1
        /\ Cardinality(FreeFrames') \in Nat
    BY <1>1, <2>2, <2>3, FS_RemoveElement, FS_CardinalityType
  <2>5. Owned'
    <3>1. frames' \subseteq 0 .. NumFrames - 1 /\ DOMAIN pte' \subseteq Nat
      BY <2>1, <2>2 DEF Owned
    <3>2. pte' \in [DOMAIN pte' -> frames']
      BY <2>1 DEF Owned
    <3>3. \A p, q \in DOMAIN pte' : pte'[p] = pte'[q] => p = q
      BY <2>1, <2>2 DEF Owned
    <3> QED
      BY <3>1, <3>2, <3>3 DEF Owned
  <2> HIDE DEF Owned
  <2> QED
    BY <1>1, <1>3, <2>1, <2>4, <2>5
<1> QED
  BY <1>2, <1>3

-----------------------------------------------------------------------------
(* The steps of initialise_paging *)

(* The page tables of the memory and of the heap are among those foreseen. *)
LEMMA SlotIn ==
  ASSUME NEW page \in (0 .. NumFrames - 1) \cup (HeapFirst .. HeapEnd - 1)
  PROVE  SlotOf(page) \in TableSlots
BY DEF SlotOf, TableSlots

(* The pages of the new stack, and the frames there are for them. *)
LEMMA Frames ==
  ASSUME NEW image \in Images
  PROVE  /\ Cardinality(StackPages) \in Nat
         /\ IsFiniteSet(FreeAtStart(image)) /\ Cardinality(FreeAtStart(image)) \in Nat
         /\ IdentityPages(image) + HeapPages + Cardinality(StackPages)
              <= Cardinality(FreeAtStart(image))
<1>1. IsFiniteSet(StackPages)
  <2>1. PageWords \in Nat \ {0} /\ StackPointer \in Int /\ Bottom \in Int
    BY BootAssumption DEF Move!MoveStackAssumption, Bottom
  <2>2. StackPointer \div PageWords \in Int /\ Bottom \div PageWords \in Int
    BY <2>1, Mover!Division
  <2>3. StackPages = (Bottom \div PageWords) .. (StackPointer \div PageWords)
    BY DEF StackPages, Bottom, Move!Pages, Move!WordPage
  <2> QED
    BY <2>2, <2>3, FS_Interval
<1>2. IsFiniteSet(FreeAtStart(image))
  <2>1. IsFiniteSet(0 .. BitsetBytes * WordBits - 1)
    BY Bits, FS_Interval
  <2>2. FreeAtStart(image) \in SUBSET (0 .. BitsetBytes * WordBits - 1)
    BY DEF FreeAtStart
  <2> QED
    BY <2>1, <2>2, FS_Subset, Zenon
<1> QED
  BY <1>1, <1>2, FS_CardinalityType, BootAssumption

(* initialise_paging starts with an image and whatever the memory holds. *)
LEMMA InitPaging ==
  ASSUME Init
  PROVE  \E image \in Images : PagingInv(image) /\ Room(image)
<1>1. PICK image \in Images :
        /\ pc = "bitset" /\ i = 0 /\ placement_address = image.end /\ frames = image.ram
        /\ bitset = 0 /\ kernel_directory = 0 /\ tables = {} /\ pte = [p \in {} |-> 0]
  BY DEF Init
<1>2. /\ image.end \in Nat /\ image.end >= PageSize
      /\ image.ram \subseteq 0 .. NumFrames - 1
  BY ImageNumbers
<1>3. DOMAIN pte = {}
  BY <1>1
<1>4. Owned
  BY <1>1, <1>2, <1>3 DEF Owned
<1>5. Placed(image)
  BY <1>1, <1>2 DEF Placed
<1>6. Loops(image)
  BY <1>1, <1>3 DEF Loops
<1>7. PagingInv(image) /\ Room(image)
  BY <1>1, <1>4, <1>5, <1>6 DEF PagingInv, Room
<1> QED
  BY <1>7

(* memset clears a quarter of the bitset, and what is free then is counted
   (paging.c:117-118). *)
LEMMA MakeBitsetInv ==
  ASSUME NEW image \in Images, PagingInv(image), MakeBitset
  PROVE  PagingInv(image)' /\ Room(image)'
<1>1. /\ pc = "bitset" /\ pc' = "directory" /\ i' = i /\ pte' = pte /\ tables' = {}
      /\ frames = image.ram /\ kernel_directory' = 0 /\ bitset' = image.end
      /\ placement_address' = image.end + BitsetBytes
      /\ frames' = {f \in image.ram : f >= ClearedBits}
      /\ DOMAIN pte = {} /\ i \in Nat
  BY DEF MakeBitset, PagingInv, Placed, Loops
<1>2. /\ image.end \in Nat /\ image.end >= PageSize /\ image.ram \subseteq 0 .. NumFrames - 1
      /\ IdentityPages(image) \in Nat
      /\ \A f \in image.ram : f < IdentityPages(image) => f < ClearedBits
  BY ImageNumbers
<1>3. ClearedBits \in Nat
  BY Bits DEF ClearedBits
<1>4. Owned'
  BY <1>1, <1>2 DEF PagingInv, Owned
<1>5. Placed(image)'
  <2>1. placement_address' \in Nat /\ placement_address' >= PageSize
    BY <1>1, <1>2, Bits, Numbers
  <2> QED
    BY <1>1, <2>1 DEF Placed
<1>6. Loops(image)'
  <2>1. \A f \in 0 .. IdentityPages(image) - 1 : f \notin frames'
    BY <1>1, <1>2, <1>3
  <2> QED
    BY <1>1, <2>1 DEF Loops
<1>7. FreeFrames' = FreeAtStart(image)
  <2>1. FreeFrames' = (0 .. BitsetBytes * WordBits - 1) \ {f \in image.ram : f >= ClearedBits}
    BY <1>1 DEF FreeFrames
  <2>2. \A f \in 0 .. BitsetBytes * WordBits - 1 : f >= ClearedBits <=> ~(f < ClearedBits)
    BY <1>3, Bits
  <2> QED
    BY <2>1, <2>2 DEF FreeAtStart
<1>8. Room(image)'
  BY <1>1, <1>7, Frames DEF Room, PagesLeft
<1> QED
  BY <1>1, <1>4, <1>5, <1>6, <1>8 DEF PagingInv

(* The directory comes on the next page, behind the bitset (paging.c:121). *)
LEMMA MakeDirectoryInv ==
  ASSUME NEW image \in Images, PagingInv(image), Room(image), MakeDirectory
  PROVE  PagingInv(image)' /\ Room(image)'
<1>1. /\ pc = "directory" /\ pc' = "premap" /\ i' = HeapFirst /\ pte' = pte /\ tables = {}
      /\ tables' = {} /\ frames' = frames /\ bitset' = image.end
      /\ placement_address = image.end + BitsetBytes
      /\ kernel_directory' = Aligned(placement_address)
      /\ placement_address' = kernel_directory' + DirectoryBytes
      /\ DOMAIN pte = {}
      /\ \A f \in 0 .. IdentityPages(image) - 1 : f \notin frames
  BY DEF MakeDirectory, PagingInv, Placed, Loops
<1>2. kernel_directory' = image.end + PageSize
  BY <1>1, DirectoryPlace
<1>3. image.end \in Nat /\ DirectoryBytes \in Nat /\ PageSize \in Nat /\ TableSpan \in Nat
      /\ HeapFirst \in Nat /\ HeapPages \in Nat /\ HeapEnd = HeapFirst + HeapPages
  BY ImageNumbers, Numbers
<1>4. Owned'
  BY <1>1 DEF PagingInv, Owned
<1>5. placement_address' <= Base(image) + Cardinality(tables') * TableSpan
  <2>1. Cardinality(tables') = 0
    BY <1>1, FS_EmptySet
  <2>2. placement_address' = Base(image)
    BY <1>1, <1>2 DEF Base
  <2> QED
    BY <1>3, <2>1, <2>2, ImageNumbers
<1>6. Placed(image)'
  <2>1. placement_address' \in Nat /\ placement_address' >= PageSize
        /\ placement_address' >= image.end + PageSize
    BY <1>1, <1>2, <1>3
  <2> QED
    BY <1>1, <1>2, <1>5, <2>1 DEF Placed
<1>7. Loops(image)'
  <2>1. HeapFirst \in HeapFirst .. HeapEnd /\ HeapFirst .. HeapFirst - 1 = {}
    BY <1>3
  <2> QED
    BY <1>1, <2>1 DEF Loops
<1>8. Room(image)'
  <2>1. FreeFrames' = FreeFrames
    BY <1>1 DEF FreeFrames
  <2> QED
    BY <1>1, <2>1 DEF Room, PagesLeft
<1> QED
  BY <1>1, <1>3, <1>4, <1>6, <1>7, <1>8 DEF PagingInv

(* An iteration of the first loop makes the page table of its slot, or finds it
   (paging.c:131-132). *)
LEMMA PremapInv ==
  ASSUME NEW image \in Images, PagingInv(image), Room(image), Premap
  PROVE  PagingInv(image)' /\ Room(image)'
<1>1. /\ pc = "premap" /\ pc' = "premap" /\ i' = i + 1 /\ pte' = pte /\ frames' = frames
      /\ bitset' = bitset /\ kernel_directory' = kernel_directory /\ GetPage(i)
      /\ i < HeapEnd /\ i \in HeapFirst .. HeapEnd
      /\ \A p \in HeapFirst .. i - 1 : SlotOf(p) \in tables
      /\ DOMAIN pte = {}
      /\ \A f \in 0 .. IdentityPages(image) - 1 : f \notin frames
  BY DEF Premap, PagingInv, Loops
<1>2. i \in HeapFirst .. HeapEnd - 1 /\ i \in Nat /\ SlotOf(i) \in TableSlots
  BY <1>1, SlotIn, Numbers
<1>3. /\ tables \subseteq TableSlots
      /\ placement_address \in Nat /\ placement_address >= PageSize
      /\ placement_address >= image.end + PageSize
      /\ placement_address <= Base(image) + Cardinality(tables) * TableSpan
      /\ bitset = image.end /\ kernel_directory = image.end + PageSize
  BY <1>1 DEF PagingInv, Placed
<1>4. /\ tables' \subseteq TableSlots /\ tables \subseteq tables' /\ SlotOf(i) \in tables'
      /\ placement_address' \in Nat /\ placement_address <= placement_address'
      /\ placement_address' <= Base(image) + Cardinality(tables') * TableSpan
  BY <1>1, <1>2, <1>3, GetPageStep
<1>5. Owned'
  BY <1>1 DEF PagingInv, Owned
<1>6. Placed(image)'
  <2>1. placement_address' >= PageSize /\ placement_address' >= image.end + PageSize
    BY <1>3, <1>4, Numbers, ImageNumbers
  <2> QED
    BY <1>1, <1>3, <1>4, <2>1 DEF Placed
<1>7. Loops(image)'
  <2>1. i + 1 \in HeapFirst .. HeapEnd /\ (i + 1) - 1 = i
        /\ HeapFirst .. i = (HeapFirst .. i - 1) \cup {i}
    BY <1>2, Numbers
  <2>2. \A p \in HeapFirst .. i' - 1 : SlotOf(p) \in tables'
    BY <1>1, <1>4, <2>1
  <2> QED
    BY <1>1, <2>1, <2>2 DEF Loops
<1>8. Room(image)'
  <2>1. FreeFrames' = FreeFrames
    BY <1>1 DEF FreeFrames
  <2> QED
    BY <1>1, <2>1 DEF Room, PagesLeft
<1> QED
  BY <1>1, <1>2, <1>5, <1>6, <1>7, <1>8 DEF PagingInv

(* All page tables of the heap are there when the identity map begins. *)
LEMMA PremapDoneInv ==
  ASSUME NEW image \in Images, PagingInv(image), Room(image), PremapDone
  PROVE  PagingInv(image)' /\ Room(image)'
<1>1. /\ pc = "premap" /\ pc' = "identity" /\ i' = 0 /\ pte' = pte /\ frames' = frames
      /\ bitset' = bitset /\ kernel_directory' = kernel_directory /\ tables' = tables
      /\ placement_address' = placement_address
      /\ i >= HeapEnd /\ i \in HeapFirst .. HeapEnd
      /\ \A p \in HeapFirst .. i - 1 : SlotOf(p) \in tables
      /\ DOMAIN pte = {}
      /\ \A f \in 0 .. IdentityPages(image) - 1 : f \notin frames
  BY DEF PremapDone, PagingInv, Loops
<1>2. i = HeapEnd /\ IdentityPages(image) \in Nat
  BY <1>1, Numbers, ImageNumbers
<1>3. Owned'
  BY <1>1 DEF PagingInv, Owned
<1>4. Placed(image)'
  <2>1. /\ tables \subseteq TableSlots
        /\ placement_address \in Nat /\ placement_address >= PageSize
        /\ placement_address >= image.end + PageSize
        /\ placement_address <= Base(image) + Cardinality(tables) * TableSpan
        /\ bitset = image.end /\ kernel_directory = image.end + PageSize
    BY <1>1 DEF PagingInv, Placed
  <2> QED
    BY <1>1, <2>1 DEF Placed
<1>5. Loops(image)'
  <2>1. 0 \in 0 .. IdentityPages(image) /\ 0 .. 0 - 1 = {}
    BY <1>2
  <2> QED
    BY <1>1, <1>2, <2>1 DEF Loops, Identical
<1>6. Room(image)'
  <2>1. FreeFrames' = FreeFrames
    BY <1>1 DEF FreeFrames
  <2>2. PagesLeft(image) = IdentityPages(image) + HeapPages
    BY <1>1 DEF PagesLeft
  <2>3. PagesLeft(image)' = IdentityPages(image) - 0 + HeapPages
    BY <1>1 DEF PagesLeft
  <2>4. PagesLeft(image)' = PagesLeft(image)
    BY <1>2, <2>2, <2>3, Numbers
  <2> QED
    BY <1>1, <2>1, <2>4 DEF Room
<1> QED
  BY <1>1, <1>3, <1>4, <1>5, <1>6 DEF PagingInv

(* The bound of the identity loop stays below the memory: there is a page table at
   most for each slot (paging.c:141).                                       *)
LEMMA IdentityBounded ==
  ASSUME NEW image \in Images, PagingInv(image), pc = "identity", IdentityMore
  PROVE  i < IdentityPages(image)
<1>1. /\ i \in Nat /\ placement_address \in Nat /\ tables \subseteq TableSlots
      /\ placement_address <= Base(image) + Cardinality(tables) * TableSpan
      /\ i * PageSize < placement_address + PageSize
  BY DEF PagingInv, Placed, IdentityMore
<1>2. /\ Cardinality(tables) \in Nat /\ Cardinality(TableSlots) \in Nat
      /\ Cardinality(tables) <= Cardinality(TableSlots)
  BY <1>1, SlotsFinite
<1>3. /\ Base(image) \in Nat /\ Furthest(image) \in Nat /\ TableSpan \in Nat
      /\ Furthest(image) = Base(image) + Cardinality(TableSlots) * TableSpan
      /\ PageSize \in Nat \ {0}
  BY ImageNumbers, Numbers
<1>4. Cardinality(tables) * TableSpan <= Cardinality(TableSlots) * TableSpan
      /\ Cardinality(tables) * TableSpan \in Nat /\ Cardinality(TableSlots) * TableSpan \in Nat
  <2> DEFINE c == Cardinality(tables)  d == Cardinality(TableSlots)
  <2>1. c \in Nat /\ d \in Nat /\ c <= d
    BY <1>2
  <2> HIDE DEF c, d
  <2>2. c * TableSpan <= d * TableSpan /\ c * TableSpan \in Nat /\ d * TableSpan \in Nat
    BY <1>3, <2>1, Z3
  <2> QED
    BY <2>2 DEF c, d
<1>5. i * PageSize < Furthest(image) + PageSize
  BY <1>1, <1>3, <1>4
<1> DEFINE k == Furthest(image) \div PageSize  r == Furthest(image) % PageSize
<1>6. k \in Int /\ r \in 0 .. PageSize - 1 /\ Furthest(image) = (PageSize * k) + r
  <2> DEFINE F == Furthest(image)
  <2>1. F \in Int /\ PageSize \in Nat \ {0}
    BY <1>3
  <2> HIDE DEF F
  <2>2. F \div PageSize \in Int /\ F % PageSize \in 0 .. PageSize - 1
        /\ F = (PageSize * (F \div PageSize)) + (F % PageSize)
    BY <2>1, Mover!Division
  <2> QED
    BY <2>2 DEF F
<1> HIDE DEF k, r
<1>7. i <= k + 1
  <2> SUFFICES ASSUME i >= k + 2 PROVE FALSE
    BY <1>1, <1>6
  <2> DEFINE d == i - (k + 2)
  <2>1. d \in Nat /\ i = d + k + 2
    BY <1>1, <1>6
  <2> HIDE DEF d
  <2>2. i * PageSize = PageSize * d + PageSize * k + 2 * PageSize
        /\ PageSize * d \in Nat /\ PageSize * k \in Int
    BY <1>3, <1>6, <2>1, Z3
  <2> QED
    BY <1>3, <1>5, <1>6, <2>2
<1> QED
  BY <1>1, <1>6, <1>7 DEF IdentityPages, k

(* An iteration of the identity loop makes a table if it must, which moves the bound,
   and finds the frame of the page's own number free and the lowest
   (paging.c:141-145).                                                      *)
LEMMA IdentityInv ==
  ASSUME NEW image \in Images, PagingInv(image), Room(image), Identity
  PROVE  PagingInv(image)' /\ Room(image)'
<1>1. /\ pc = "identity" /\ pc' = "identity" /\ i' = i + 1
      /\ bitset' = bitset /\ kernel_directory' = kernel_directory
      /\ IdentityMore /\ GetPage(i) /\ AllocFrame(i)
  BY DEF Identity
<1>2. /\ i \in 0 .. IdentityPages(image) /\ DOMAIN pte = 0 .. i - 1 /\ Identical(i)
      /\ \A f \in i .. IdentityPages(image) - 1 : f \notin frames
      /\ \A p \in HeapFirst .. HeapEnd - 1 : SlotOf(p) \in tables
      /\ Owned
  BY <1>1 DEF PagingInv, Loops
<1>3. /\ i \in Nat /\ i < IdentityPages(image) /\ IdentityPages(image) \in Nat
      /\ IdentityPages(image) <= BitsetBytes * WordBits /\ IdentityPages(image) <= NumFrames
      /\ BitsetBytes * WordBits \in Nat
  BY <1>1, <1>2, IdentityBounded, ImageNumbers, Bits
<1>4. SlotOf(i) \in TableSlots
  BY <1>3, SlotIn, Numbers
<1>5. /\ tables \subseteq TableSlots
      /\ placement_address \in Nat /\ placement_address >= PageSize
      /\ placement_address >= image.end + PageSize
      /\ placement_address <= Base(image) + Cardinality(tables) * TableSpan
      /\ bitset = image.end /\ kernel_directory = image.end + PageSize
  BY <1>1 DEF PagingInv, Placed
<1>6. /\ tables' \subseteq TableSlots /\ tables \subseteq tables'
      /\ placement_address' \in Nat /\ placement_address <= placement_address'
      /\ placement_address' <= Base(image) + Cardinality(tables') * TableSpan
  BY <1>1, <1>3, <1>4, <1>5, GetPageStep
<1>7. i \in FreeFrames /\ \A g \in FreeFrames : i <= g
  <2>1. i \in FreeFrames
    BY <1>2, <1>3 DEF FreeFrames
  <2>2. ASSUME NEW g \in FreeFrames, g < i
        PROVE  FALSE
    <3>1. g \in 0 .. i - 1 /\ g \notin frames
      BY <1>3, <2>2 DEF FreeFrames
    <3>2. g \in DOMAIN pte /\ pte[g] = g
      BY <1>2, <3>1 DEF Identical
    <3>3. pte[g] \in frames
      BY <1>2, <3>2 DEF Owned
    <3> QED
      BY <3>1, <3>2, <3>3
  <2> QED
    BY <1>3, <2>1, <2>2, FreeFinite
<1>8. FirstFrame = i
  <2>1. FirstFrame \in FreeFrames /\ FirstFrame <= i
    BY <1>7, LowestFree
  <2>2. i <= FirstFrame /\ FirstFrame \in Nat
    BY <1>7, <2>1, FreeFinite
  <2> QED
    BY <1>3, <2>1, <2>2
<1>9. /\ Owned' /\ DOMAIN pte' = DOMAIN pte \cup {i} /\ i \in DOMAIN pte'
      /\ \A p \in DOMAIN pte : p # i => pte'[p] = pte[p]
      /\ Cardinality(FreeFrames') >= Cardinality(FreeFrames) - 1
      /\ Cardinality(FreeFrames') \in Nat
      /\ frames' = frames \cup {i} /\ pte'[i] = i
  <2>1. ~HasFrame(i)
    BY <1>2, <1>3 DEF HasFrame
  <2>2. FreeFrames # {}
    BY <1>7
  <2> QED
    BY <1>1, <1>2, <1>3, <1>8, <2>1, <2>2, AllocFrameStep
<1>10. Placed(image)'
  <2>1. placement_address' >= PageSize /\ placement_address' >= image.end + PageSize
    BY <1>5, <1>6, Numbers, ImageNumbers
  <2> QED
    BY <1>1, <1>5, <1>6, <2>1 DEF Placed
<1>11. Loops(image)'
  <2>1. i + 1 \in 0 .. IdentityPages(image) /\ (i + 1) - 1 = i
        /\ 0 .. i = (0 .. i - 1) \cup {i} /\ i \notin 0 .. i - 1
    BY <1>3
  <2>2. DOMAIN pte' = 0 .. i' - 1
    BY <1>1, <1>2, <1>9, <2>1
  <2>4. \A p \in 0 .. i' - 1 : p \in DOMAIN pte' /\ pte'[p] = p
    BY <1>1, <1>2, <1>9, <2>1 DEF Identical
  <2>5. \A f \in i' .. IdentityPages(image) - 1 : f \notin frames'
    BY <1>1, <1>2, <1>3, <1>9
  <2>6. \A p \in HeapFirst .. HeapEnd - 1 : SlotOf(p) \in tables'
    BY <1>2, <1>6
  <2> QED
    BY <1>1, <2>1, <2>2, <2>4, <2>5, <2>6 DEF Loops, Identical
<1>12. Room(image)'
  <2>1. Cardinality(FreeFrames) >= IdentityPages(image) - i + HeapPages + Cardinality(StackPages)
    BY <1>1 DEF Room, PagesLeft
  <2>2. PagesLeft(image)' = IdentityPages(image) - (i + 1) + HeapPages
    BY <1>1 DEF PagesLeft
  <2>3. Cardinality(FreeFrames) \in Nat /\ Cardinality(StackPages) \in Nat /\ HeapPages \in Nat
    BY FreeFinite, Frames, Numbers
  <2>4. Cardinality(FreeFrames') >= PagesLeft(image)' + Cardinality(StackPages)
    BY <1>3, <1>9, <2>1, <2>2, <2>3
  <2> QED
    BY <2>4 DEF Room
<1> QED
  BY <1>1, <1>3, <1>9, <1>10, <1>11, <1>12 DEF PagingInv

(* When the identity loop ends, a page more than is in use is mapped
   (paging.c:141). *)
LEMMA IdentityDoneInv ==
  ASSUME NEW image \in Images, PagingInv(image), Room(image), IdentityDone
  PROVE  PagingInv(image)' /\ Room(image)'
<1>1. /\ pc = "identity" /\ pc' = "heapframes" /\ i' = HeapFirst /\ pte' = pte
      /\ frames' = frames /\ bitset' = bitset /\ kernel_directory' = kernel_directory
      /\ tables' = tables /\ placement_address' = placement_address /\ ~IdentityMore
  BY DEF IdentityDone
<1>2. /\ i \in 0 .. IdentityPages(image) /\ Identical(i)
      /\ \A p \in HeapFirst .. HeapEnd - 1 : SlotOf(p) \in tables
  BY <1>1 DEF PagingInv, Loops
<1>3. /\ tables \subseteq TableSlots
      /\ placement_address \in Nat /\ placement_address >= PageSize
      /\ placement_address >= image.end + PageSize
      /\ bitset = image.end /\ kernel_directory = image.end + PageSize
  BY <1>1 DEF PagingInv, Placed
<1>4. placement_address + PageSize <= i * PageSize
  <2>1. i \in Nat /\ PageSize \in Nat /\ i * PageSize \in Nat
    BY <1>2, Numbers
  <2> QED
    BY <1>1, <1>3, <2>1 DEF IdentityMore
<1>5. Owned'
  BY <1>1 DEF PagingInv, Owned
<1>6. Placed(image)'
  BY <1>1, <1>3 DEF Placed
<1>7. Loops(image)'
  <2>1. HeapFirst \in HeapFirst .. HeapEnd /\ HeapFirst .. HeapFirst - 1 = {}
    BY Numbers
  <2>3. \E n \in 0 .. IdentityPages(image) :
          /\ \A p \in 0 .. n - 1 : p \in DOMAIN pte' /\ pte'[p] = p
          /\ placement_address' + PageSize <= n * PageSize
    BY <1>1, <1>2, <1>4 DEF Identical
  <2> QED
    BY <1>1, <1>2, <2>1, <2>3 DEF Loops, Identical
<1>8. Room(image)'
  <2>1. FreeFrames' = FreeFrames
    BY <1>1 DEF FreeFrames
  <2>2. PagesLeft(image) = IdentityPages(image) - i + HeapPages
    BY <1>1 DEF PagesLeft
  <2>3. PagesLeft(image)' = HeapEnd - HeapFirst
    BY <1>1 DEF PagesLeft
  <2>4. PagesLeft(image)' <= PagesLeft(image) /\ PagesLeft(image) \in Int
        /\ PagesLeft(image)' \in Int
    BY <1>2, <2>2, <2>3, Numbers, ImageNumbers
  <2>5. Cardinality(FreeFrames) \in Nat /\ Cardinality(StackPages) \in Nat
    BY FreeFinite, Frames
  <2> QED
    BY <1>1, <2>1, <2>4, <2>5 DEF Room
<1> QED
  BY <1>1, <1>5, <1>6, <1>7, <1>8, Numbers DEF PagingInv

(* A page of the heap gets a frame, without a page table being made
   (paging.c:148-149). *)
LEMMA HeapFramesInv ==
  ASSUME NEW image \in Images, PagingInv(image), Room(image), HeapFrames
  PROVE  PagingInv(image)' /\ Room(image)'
<1>1. /\ pc = "heapframes" /\ pc' = "heapframes" /\ i' = i + 1
      /\ bitset' = bitset /\ kernel_directory' = kernel_directory
      /\ i < HeapEnd /\ GetPage(i) /\ AllocFrame(i)
  BY DEF HeapFrames
<1>2. /\ i \in HeapFirst .. HeapEnd /\ HeapFirst .. i - 1 \subseteq DOMAIN pte
      /\ \A p \in HeapFirst .. HeapEnd - 1 : SlotOf(p) \in tables
      /\ Owned
  BY <1>1 DEF PagingInv, Loops
<1>3. PICK n \in 0 .. IdentityPages(image) :
        Identical(n) /\ placement_address + PageSize <= n * PageSize
  BY <1>1 DEF PagingInv, Loops
<1>4. i \in HeapFirst .. HeapEnd - 1 /\ i \in Nat /\ SlotOf(i) \in tables
  BY <1>1, <1>2, Numbers
<1>5. /\ tables \subseteq TableSlots
      /\ placement_address \in Nat /\ placement_address >= PageSize
      /\ placement_address >= image.end + PageSize
      /\ bitset = image.end /\ kernel_directory = image.end + PageSize
  BY <1>1 DEF PagingInv, Placed
<1>6. tables' = tables /\ placement_address' = placement_address
  BY <1>1, <1>4 DEF GetPage
<1>7. Cardinality(FreeFrames) >= HeapEnd - i + Cardinality(StackPages)
      /\ Cardinality(FreeFrames) \in Nat /\ Cardinality(StackPages) \in Nat
  BY <1>1, FreeFinite, Frames DEF Room, PagesLeft
<1>8. FreeFrames # {}
  <2>1. Cardinality(FreeFrames) # 0
    BY <1>4, <1>7, Numbers
  <2> QED
    BY <2>1, FS_EmptySet
<1>9. /\ Owned' /\ DOMAIN pte' = DOMAIN pte \cup {i}
      /\ \A p \in DOMAIN pte : p # i => pte'[p] = pte[p]
      /\ Cardinality(FreeFrames') >= Cardinality(FreeFrames) - 1
      /\ Cardinality(FreeFrames') \in Nat
  BY <1>1, <1>2, <1>4, <1>8, AllocFrameStep
<1>10. Placed(image)'
  BY <1>1, <1>5, <1>6 DEF Placed
<1>11. Loops(image)'
  <2>1. i + 1 \in HeapFirst .. HeapEnd /\ (i + 1) - 1 = i
        /\ HeapFirst .. i = (HeapFirst .. i - 1) \cup {i}
    BY <1>4, Numbers
  <2>2. HeapFirst .. i' - 1 \subseteq DOMAIN pte'
    BY <1>1, <1>2, <1>9, <2>1
  <2>3. \A p \in 0 .. n - 1 : p \in DOMAIN pte' /\ pte'[p] = p
    <3>1. \A p \in 0 .. n - 1 : p # i
      BY <1>4, Numbers, ImageNumbers
    <3> QED
      BY <1>3, <1>9, <3>1 DEF Identical
  <2> QED
    BY <1>1, <1>2, <1>3, <1>6, <2>1, <2>2, <2>3 DEF Loops, Identical
<1>12. Room(image)'
  <2>1. PagesLeft(image)' = HeapEnd - (i + 1)
    BY <1>1 DEF PagesLeft
  <2>2. Cardinality(FreeFrames') >= PagesLeft(image)' + Cardinality(StackPages)
    BY <1>4, <1>7, <1>9, <2>1, Numbers
  <2> QED
    BY <2>2 DEF Room
<1> QED
  BY <1>1, <1>4, <1>9, <1>10, <1>11, <1>12 DEF PagingInv

(* Paging is turned on: nothing that the invariant speaks of changes. *)
LEMMA EnablePagingInv ==
  ASSUME NEW image \in Images, PagingInv(image), Room(image), EnablePaging
  PROVE  PagingInv(image)' /\ Room(image)'
<1>1. /\ pc = "heapframes" /\ pc' = "create_heap" /\ i' = i /\ pte' = pte
      /\ frames' = frames /\ bitset' = bitset /\ kernel_directory' = kernel_directory
      /\ tables' = tables /\ placement_address' = placement_address /\ i >= HeapEnd
  BY DEF EnablePaging
<1>2. /\ i \in HeapFirst .. HeapEnd /\ HeapFirst .. i - 1 \subseteq DOMAIN pte
  BY <1>1 DEF PagingInv, Loops
<1>3. PICK n \in 0 .. IdentityPages(image) :
        Identical(n) /\ placement_address + PageSize <= n * PageSize
  BY <1>1 DEF PagingInv, Loops
<1>4. /\ tables \subseteq TableSlots
      /\ placement_address \in Nat /\ placement_address >= PageSize
      /\ placement_address >= image.end + PageSize
      /\ bitset = image.end /\ kernel_directory = image.end + PageSize
  BY <1>1 DEF PagingInv, Placed
<1>5. i = HeapEnd
  BY <1>1, <1>2, Numbers
<1>6. Owned' /\ Placed(image)'
  BY <1>1, <1>4 DEF PagingInv, Owned, Placed
<1>7. Loops(image)'
  BY <1>1, <1>2, <1>3, <1>5 DEF Loops, Identical
<1>8. Room(image)'
  <2>1. FreeFrames' = FreeFrames
    BY <1>1 DEF FreeFrames
  <2>2. PagesLeft(image) = 0 /\ PagesLeft(image)' = 0
    BY <1>1, <1>5, Numbers DEF PagesLeft
  <2> QED
    BY <1>1, <2>1, <2>2 DEF Room
<1> QED
  BY <1>1, <1>2, <1>6, <1>7, <1>8, Numbers DEF PagingInv

(* heap_t still fits in the page that the identity loop maps beyond what is in use
   (kernelheap.c:134-136, paging.c:141).                                    *)
LEMMA CreateHeapInv ==
  ASSUME NEW image \in Images, PagingInv(image), Room(image), CreateHeap
  PROVE  PagingInv(image)' /\ Room(image)'
<1>1. /\ pc = "create_heap" /\ pc' = "done" /\ i' = i /\ pte' = pte
      /\ frames' = frames /\ bitset' = bitset /\ kernel_directory' = kernel_directory
      /\ tables' = tables /\ placement_address' = placement_address + HeapBytes
  BY DEF CreateHeap
<1>2. HeapFirst .. HeapEnd - 1 \subseteq DOMAIN pte
  BY <1>1 DEF PagingInv, Loops
<1>3. PICK n \in 0 .. IdentityPages(image) :
        Identical(n) /\ placement_address + PageSize <= n * PageSize
  BY <1>1 DEF PagingInv, Loops
<1>4. /\ tables \subseteq TableSlots
      /\ placement_address \in Nat /\ placement_address >= PageSize
      /\ placement_address >= image.end + PageSize
      /\ bitset = image.end /\ kernel_directory = image.end + PageSize
  BY <1>1 DEF PagingInv, Placed
<1>5. HeapBytes \in Nat /\ HeapBytes <= PageSize /\ PageSize \in Nat /\ image.end \in Nat
  BY PagingInitAssumption, ImageNumbers
<1>6. Owned'
  BY <1>1 DEF PagingInv, Owned
<1>7. Placed(image)'
  <2>1. placement_address' \in Nat /\ placement_address' >= PageSize
        /\ placement_address' >= image.end + PageSize
    BY <1>1, <1>4, <1>5
  <2> QED
    BY <1>1, <1>4, <2>1 DEF Placed
<1>8. Loops(image)'
  <2>1. placement_address' + 0 <= n * PageSize
    <3>1. n * PageSize \in Nat
      BY <1>5, ImageNumbers
    <3> QED
      BY <1>1, <1>3, <1>4, <1>5, <3>1
  <2> QED
    BY <1>1, <1>2, <1>3, <2>1 DEF Loops, Identical
<1>9. Room(image)'
  <2>1. FreeFrames' = FreeFrames
    BY <1>1 DEF FreeFrames
  <2>2. PagesLeft(image) = 0 /\ PagesLeft(image)' = 0
    BY <1>1 DEF PagesLeft
  <2> QED
    BY <1>1, <2>1, <2>2 DEF Room
<1> QED
  BY <1>1, <1>6, <1>7, <1>8, <1>9 DEF PagingInv

-----------------------------------------------------------------------------
(* The steps of main *)

(* Boot and these proofs have the module PCI under two names. *)
LEMMA SameScan ==
  /\ Scan!PCIAssumption
  /\ PCI!ScanInit <=> Scan!ScanInit
  /\ PCI!Scan <=> Scan!Scan
  /\ PCI!Scanned <=> Scan!Scanned
  /\ PCI!ScanComplete <=> Scan!ScanComplete
  /\ PCI!ScanTypeOK <=> Scan!ScanTypeOK
<1>1. PCI!PCIAssumption <=> Scan!PCIAssumption
  BY DEF PCI!PCIAssumption, Scan!PCIAssumption, PCI!Slots, Scan!Slots
<1>2. PCI!ScanInit <=> Scan!ScanInit
  BY DEF PCI!ScanInit, Scan!ScanInit
<1>3. PCI!Scan <=> Scan!Scan
  BY DEF PCI!Scan, Scan!Scan, PCI!ScanDevice, Scan!ScanDevice, PCI!ScanFunction,
         Scan!ScanFunction, PCI!PrintIf, Scan!PrintIf, PCI!Answers, Scan!Answers,
         PCI!HasSeveral, Scan!HasSeveral, PCI!NextDevice, Scan!NextDevice, PCI!Scanned,
         Scan!Scanned, PCI!Selected, Scan!Selected, PCI!Address, Scan!Address
<1>4. PCI!Scanned <=> Scan!Scanned
  BY DEF PCI!Scanned, Scan!Scanned
<1>5. PCI!ScanComplete <=> Scan!ScanComplete
  BY DEF PCI!ScanComplete, Scan!ScanComplete, PCI!Scanned, Scan!Scanned,
         PCI!Findable, Scan!Findable
<1>6. PCI!ScanTypeOK <=> Scan!ScanTypeOK
  BY DEF PCI!ScanTypeOK, Scan!ScanTypeOK, PCI!Slots, Scan!Slots
<1> QED
  BY <1>1, <1>2, <1>3, <1>4, <1>5, <1>6, BootAssumption

(* Boot and these proofs have the module MoveStack under two names. *)
LEMMA SameMove ==
  /\ Mover!MoveStackAssumption
  /\ \A stack : Move!Begin(stack) <=> Mover!Begin(stack)
  /\ Move!MapStackPage <=> Mover!MapStackPage
  /\ Move!CopyStack <=> Mover!CopyStack
  /\ Move!RelocateStack <=> Mover!RelocateStack
  /\ Move!SwitchStack <=> Mover!SwitchStack
  /\ Move!StackMoved <=> Mover!StackMoved
<1>1. Move!MoveStackAssumption <=> Mover!MoveStackAssumption
  BY DEF Move!MoveStackAssumption, Mover!MoveStackAssumption, Move!Live, Mover!Live
<1>2. \A stack : Move!Begin(stack) <=> Mover!Begin(stack)
  BY DEF Move!Begin, Mover!Begin
<1>3. Move!MapStackPage <=> Mover!MapStackPage
  BY DEF Move!MapStackPage, Mover!MapStackPage, Move!MapMore, Mover!MapMore,
         Move!WordPage, Mover!WordPage
<1>4. Move!CopyStack <=> Mover!CopyStack
  BY DEF Move!CopyStack, Mover!CopyStack, Move!MapMore, Mover!MapMore, Move!WordPage,
         Mover!WordPage, Move!Access, Mover!Access, Move!Pages, Mover!Pages,
         Move!new_esp, Mover!new_esp, Move!offset, Mover!offset
<1>5. Move!RelocateStack <=> Mover!RelocateStack
  BY DEF Move!RelocateStack, Mover!RelocateStack, Move!WordPage, Mover!WordPage,
         Move!Access, Mover!Access, Move!Pages, Mover!Pages, Move!ScanFirst, Mover!ScanFirst,
         Move!PointsIntoOld, Mover!PointsIntoOld, Move!offset, Mover!offset
<1>6. Move!SwitchStack <=> Mover!SwitchStack
  BY DEF Move!SwitchStack, Mover!SwitchStack, Move!new_esp, Mover!new_esp,
         Move!offset, Mover!offset
<1>7. Move!StackMoved <=> Mover!StackMoved
  BY DEF Move!StackMoved, Mover!StackMoved, Move!offset, Mover!offset, Move!Live, Mover!Live
<1> QED
  BY <1>1, <1>2, <1>3, <1>4, <1>5, <1>6, <1>7, BootAssumption

(* What initialise_paging has built does not change while it is not running. *)
LEMMA PagingStays ==
  ASSUME NEW image \in Images, PagingInv(image), UNCHANGED vars
  PROVE  PagingInv(image)' /\ FreeFrames' = FreeFrames
         /\ (Room(image) => Room(image)')
<1>1. /\ pc' = pc /\ i' = i /\ placement_address' = placement_address /\ frames' = frames
      /\ bitset' = bitset /\ kernel_directory' = kernel_directory /\ tables' = tables
      /\ pte' = pte
  BY DEF vars
<1>2. FreeFrames' = FreeFrames
  BY <1>1 DEF FreeFrames
<1>3. Owned'
  BY <1>1 DEF PagingInv, Owned
<1>4. Placed(image)'
  BY <1>1 DEF PagingInv, Placed
<1>5. Loops(image)'
  BY <1>1 DEF PagingInv, Loops, Identical
<1>6. Room(image) => Room(image)'
  BY <1>1, <1>2 DEF Room, PagesLeft
<1>7. PagingInv(image)'
  BY <1>1, <1>3, <1>4, <1>5 DEF PagingInv
<1> QED
  BY <1>2, <1>6, <1>7

(* Every step of initialise_paging keeps its invariant. *)
LEMMA PagingNext ==
  ASSUME NEW image \in Images, PagingInv(image), Room(image), Next
  PROVE  PagingInv(image)' /\ Room(image)'
BY MakeBitsetInv, MakeDirectoryInv, PremapInv, PremapDoneInv, IdentityInv, IdentityDoneInv,
   HeapFramesInv, EnablePagingInv, CreateHeapInv DEF Next

(* main starts with the scan, before anything is placed. *)
LEMMA BootStarts == BootInit => BootInv
<1> SUFFICES ASSUME BootInit PROVE BootInv
  OBVIOUS
<1>1. /\ phase = "scan" /\ Init /\ Scan!ScanInit /\ moving = "no" /\ top = 0
      /\ esp = stack_esp /\ ebp = stack_esp
  BY SameScan DEF BootInit
<1>2. Scan!ScanInv
  BY <1>1, SameScan, Scan!InitScan
<1>3. \E image \in Images : PagingInv(image) /\ Room(image)
  BY <1>1, InitPaging
<1>4. pc = "bitset"
  BY <1>1 DEF Init
<1> QED
  BY <1>1, <1>2, <1>3, <1>4 DEF BootInv

(* A header is read. *)
LEMMA PCIScanInv == ASSUME BootInv, PCIScan PROVE BootInv'
<1>1. /\ phase = "scan" /\ phase' = "scan" /\ UNCHANGED vars /\ PCI!Scan
      /\ moving' = moving /\ top' = top /\ esp' = esp /\ ebp' = ebp /\ pc' = pc
  BY DEF PCIScan, move_vars, vars
<1>2. PICK image \in Images : PagingInv(image) /\ Room(image)
  BY <1>1 DEF BootInv
<1>3. PagingInv(image)' /\ Room(image)'
  BY <1>1, <1>2, PagingStays
<1>4. Scan!ScanInv'
  BY <1>1, SameScan, Scan!ScanStep DEF BootInv
<1> QED
  BY <1>1, <1>3, <1>4 DEF BootInv

(* The scan is over, and initialise_paging begins. *)
LEMMA PCIScannedInv == ASSUME BootInv, PCIScanned PROVE BootInv'
<1>1. /\ phase = "scan" /\ phase' = "paging" /\ UNCHANGED vars /\ Scan!Scanned
      /\ moving' = moving /\ top' = top /\ esp' = esp /\ ebp' = ebp
      /\ bus' = bus /\ dev' = dev /\ func' = func
      /\ machine' = [functions |-> {}, several |-> {}] /\ printed' = <<>>
  BY SameScan DEF PCIScanned, move_vars
<1>2. PICK image \in Images : PagingInv(image) /\ Room(image)
  BY <1>1 DEF BootInv
<1>3. PagingInv(image)' /\ Room(image)'
  BY <1>1, <1>2, PagingStays
<1>4. Scan!ScanInv'
  BY <1>1, Scan!ScanForgets DEF BootInv
<1> QED
  BY <1>1, <1>3, <1>4 DEF BootInv

(* A step of initialise_paging. *)
LEMMA initialise_pagingInv == ASSUME BootInv, initialise_paging PROVE BootInv'
<1>1. /\ phase = "paging" /\ phase' = "paging" /\ Next
      /\ moving' = moving /\ top' = top /\ esp' = esp /\ ebp' = ebp
      /\ UNCHANGED <<machine, bus, dev, func, printed>>
  BY DEF initialise_paging, move_vars, scan_vars
<1>2. PICK image \in Images : PagingInv(image) /\ Room(image)
  BY <1>1 DEF BootInv
<1>3. PagingInv(image)' /\ Room(image)'
  BY <1>1, <1>2, PagingNext
<1>4. Scan!ScanInv'
  BY <1>1, Scan!ScanStays DEF BootInv, Scan!vars
<1> QED
  BY <1>1, <1>3, <1>4 DEF BootInv

(* Words and the pages they are on. *)
LEMMA StackNumbers ==
  /\ PageWords \in Nat \ {0} /\ PageSize = 4 * PageWords
  /\ StackPointer \in Nat /\ StackPointer % PageWords = 0
  /\ Bottom \in Int /\ Bottom % PageWords = 0 /\ Bottom <= StackPointer
  /\ Bottom >= HeapEnd * PageWords /\ HeapEnd \in Nat /\ HeapEnd > 0
  /\ Move!WordPage(Bottom) \in Int /\ Move!WordPage(StackPointer) \in Int
  /\ HeapEnd <= Move!WordPage(Bottom) /\ PageWords <= Bottom
  /\ Cardinality(StackPages) = Move!WordPage(StackPointer) - Move!WordPage(Bottom) + 1
<1>1. /\ PageWords \in Nat \ {0} /\ PageSize = 4 * PageWords
      /\ StackPointer \in Nat /\ StackPointer % PageWords = 0
      /\ StackWords \in Nat /\ StackWords % PageWords = 0
      /\ Bottom >= HeapEnd * PageWords
  BY BootAssumption DEF Move!MoveStackAssumption, Bottom
<1>2. Bottom \in Int /\ Bottom <= StackPointer
  BY <1>1 DEF Bottom
<1>3. Bottom % PageWords = 0
  BY SameMove, Mover!Sizes DEF Bottom, Mover!Bottom
<1>4. HeapEnd \in Nat /\ HeapEnd > 0
  BY Numbers
<1>5. Move!WordPage(Bottom) \in Int /\ Move!WordPage(StackPointer) \in Int
      /\ Bottom = PageWords * Move!WordPage(Bottom)
      /\ Move!WordPage(Bottom) <= Move!WordPage(StackPointer)
  <2>1. StackPointer \in Int
    BY <1>1
  <2>2. /\ Bottom \div PageWords \in Int /\ StackPointer \div PageWords \in Int
        /\ Bottom = (PageWords * (Bottom \div PageWords)) + (Bottom % PageWords)
    BY <1>1, <1>2, <2>1, Mover!Division
  <2>3. Bottom \div PageWords <= StackPointer \div PageWords
    BY <1>1, <1>2, <2>1, Mover!LaterPage
  <2>4. Bottom = PageWords * (Bottom \div PageWords)
    BY <1>1, <1>3, <2>2
  <2> QED
    BY <2>2, <2>3, <2>4 DEF Move!WordPage
<1>6. HeapEnd <= Move!WordPage(Bottom)
  <2> DEFINE w == Move!WordPage(Bottom)
  <2>1. w \in Int /\ PageWords * w >= HeapEnd * PageWords
    BY <1>1, <1>5
  <2> HIDE DEF w
  <2>2. SUFFICES ASSUME w < HeapEnd PROVE FALSE
    BY <1>4, <2>1 DEF w
  <2>3. w + 1 <= HeapEnd
    BY <1>4, <2>1, <2>2
  <2>4. PageWords * (w + 1) <= HeapEnd * PageWords
    BY <1>1, <1>4, <2>1, <2>3, Z3
  <2>5. PageWords * (w + 1) = PageWords * w + PageWords /\ PageWords * w \in Int
        /\ HeapEnd * PageWords \in Int
    BY <1>1, <1>4, <2>1
  <2> QED
    BY <1>1, <2>1, <2>4, <2>5
<1>7. PageWords <= Bottom
  <2>1. PageWords <= HeapEnd * PageWords /\ HeapEnd * PageWords \in Nat
    BY <1>1, <1>4, Z3
  <2> QED
    BY <1>1, <1>2, <2>1
<1>8. Cardinality(StackPages) = Move!WordPage(StackPointer) - Move!WordPage(Bottom) + 1
  <2>1. StackPages = Move!WordPage(Bottom) .. Move!WordPage(StackPointer)
    BY DEF StackPages, Bottom, Move!Pages
  <2>2. ~(Move!WordPage(Bottom) > Move!WordPage(StackPointer))
    BY <1>5
  <2> QED
    BY <1>5, <2>1, <2>2, FS_Interval
<1> QED
  BY <1>1, <1>2, <1>3, <1>4, <1>5, <1>6, <1>7, <1>8

(* The loader's stack is in the identity map (task.c:182-191, paging.c:133-145). *)
LEMMA OldStackMapped ==
  ASSUME NEW image \in Images, PagingInv(image), pc = "done", NEW stack \in Stacks
  PROVE  Mover!Pages(stack.esp, stack_esp - 1) \subseteq DOMAIN pte
<1>1. PICK n \in 0 .. IdentityPages(image) :
        Identical(n) /\ placement_address + 0 <= n * PageSize
  BY DEF PagingInv, Loops
<1>2. placement_address \in Nat /\ placement_address >= image.end + PageSize
      /\ image.end \in Nat /\ 4 * stack_esp <= image.end /\ n \in Nat
  BY BootAssumption, ImageNumbers DEF PagingInv, Placed
<1>3. /\ PageWords \in Nat \ {0} /\ PageSize = 4 * PageWords
      /\ stack_esp \in Nat /\ stack.esp \in Nat /\ stack.esp <= stack_esp
  BY BootAssumption DEF Move!MoveStackAssumption
<1>4. stack_esp <= PageWords * n /\ PageWords * n \in Nat
  <2>1. n * PageSize = 4 * (PageWords * n) /\ PageWords * n \in Nat
    BY <1>2, <1>3, Z3
  <2> QED
    BY <1>1, <1>2, <1>3, <2>1
<1> DEFINE k == (stack_esp - 1) \div PageWords  r == (stack_esp - 1) % PageWords
           j == stack.esp \div PageWords  q == stack.esp % PageWords
<1>5. k \in Int /\ r \in 0 .. PageWords - 1 /\ stack_esp - 1 = (PageWords * k) + r
  <2>1. stack_esp - 1 \in Int
    BY <1>3
  <2> QED
    BY <1>3, <2>1, Mover!Division
<1>6. j \in Int /\ 0 <= j
  <2>1. stack.esp \in Int
    BY <1>3
  <2>2. j \in Int
    BY <1>3, <2>1, Mover!Division
  <2> QED
    BY <1>3, <2>2
<1>7. Mover!Pages(stack.esp, stack_esp - 1) = j .. k
  BY DEF Mover!Pages, Mover!WordPage
<1> HIDE DEF k, r, j, q
<1>8. k < n
  <2> SUFFICES ASSUME k >= n PROVE FALSE
    BY <1>2, <1>5
  <2>1. PageWords * k >= PageWords * n /\ PageWords * k \in Int
    BY <1>2, <1>3, <1>5, Z3
  <2> QED
    BY <1>3, <1>4, <1>5, <2>1
<1>9. j .. k \subseteq 0 .. n - 1
  BY <1>2, <1>5, <1>6, <1>8
<1> QED
  BY <1>1, <1>7, <1>9 DEF Identical

(* move_stack begins on the stack of the loader (task.c:33-37). *)
LEMMA BeginMoveInv == ASSUME BootInv, BeginMove PROVE BootInv'
<1>1. /\ phase = "paging" /\ phase' = "tasking" /\ UNCHANGED vars /\ pc = "done" /\ pc' = "done"
      /\ pte' = pte
      /\ UNCHANGED <<machine, bus, dev, func, printed>>
  BY DEF BeginMove, scan_vars, vars
<1>2. PICK stack \in Stacks : Mover!Begin(stack)
  BY SameMove DEF BeginMove
<1>3. PICK image \in Images : PagingInv(image) /\ Room(image)
  BY <1>1 DEF BootInv
<1>4. PagingInv(image)' /\ FreeFrames' = FreeFrames
  BY <1>1, <1>3, PagingStays
<1>5. Scan!ScanInv'
  BY <1>1, Scan!ScanStays DEF BootInv, Scan!vars
<1>6. Mover!Inv'
  <2>1. Mover!Pages(stack.esp, stack_esp - 1) \subseteq (DOMAIN pte)'
    BY <1>1, <1>3, OldStackMapped
  <2> QED
    BY <1>2, <2>1, SameMove, Mover!BeginInv
<1>7. top' = StackPointer /\ top' \in Nat /\ moving' = "map"
  BY <1>2, StackNumbers DEF Mover!Begin
<1>8. Cardinality(FreeFrames)' >= StackLeft'
  <2>1. PagesLeft(image) = 0
    BY <1>1 DEF PagesLeft
  <2>2. Cardinality(FreeFrames) >= 0 + Cardinality(StackPages)
    BY <1>1, <1>3, <2>1 DEF Room
  <2>3. StackLeft' = Cardinality(StackPages)
    BY <1>7, StackNumbers DEF StackLeft, Move!WordPage
  <2> QED
    BY <1>4, <2>2, <2>3, Frames
<1> QED
  BY <1>1, <1>4, <1>5, <1>6, <1>7, <1>8 DEF BootInv

(* A page of the new stack gets one of the frames that were counted for it; it is
   no page of the identity map (task.c:168-173). *)
LEMMA MapStackInv == ASSUME BootInv, MapStack PROVE BootInv'
<1>1. /\ phase = "tasking" /\ phase' = "tasking" /\ AllocFrame(Move!WordPage(top))
      /\ Mover!MapStackPage /\ pc' = pc /\ i' = i /\ placement_address' = placement_address
      /\ bitset' = bitset /\ kernel_directory' = kernel_directory /\ tables' = tables
      /\ UNCHANGED <<machine, bus, dev, func, printed>>
  BY SameMove DEF MapStack, scan_vars
<1>2. /\ moving = "map" /\ moving' = "map" /\ top' = top - PageWords
      /\ top >= Bottom /\ Mover!Inv /\ pc = "done"
      /\ Cardinality(FreeFrames) >= StackLeft
  BY <1>1 DEF BootInv, Mover!MapStackPage, Mover!MapMore, Bottom
<1>3. PICK image \in Images : PagingInv(image)
  BY DEF BootInv
<1>4. top \in Int /\ top % PageWords = 0
  BY <1>2 DEF Mover!Inv, Mover!Mapped
<1> DEFINE v == Move!WordPage(top)  b == Move!WordPage(Bottom)
<1>5. v \in Int /\ b \in Int /\ b <= v /\ HeapEnd <= b /\ v \in Nat /\ v >= HeapEnd
  <2>1. v \in Int
    BY <1>4, StackNumbers, Mover!Division DEF Move!WordPage
  <2>2. b <= v
    BY <1>2, <1>4, StackNumbers, Mover!LaterPage DEF Move!WordPage
  <2> QED
    BY <2>1, <2>2, StackNumbers
<1>6. top' \in Nat /\ Move!WordPage(top') = v - 1
  <2>1. (top - PageWords) \div PageWords = top \div PageWords - 1
    BY <1>4, StackNumbers, Mover!PageBefore
  <2>2. top' \in Nat
    BY <1>2, <1>4, StackNumbers
  <2> QED
    BY <1>2, <2>1, <2>2 DEF Move!WordPage
<1>7. StackLeft = v - b + 1 /\ StackLeft' = (v - 1) - b + 1
  <2>1. StackLeft' = Move!WordPage(top') - b + 1
    BY DEF StackLeft, Move!WordPage
  <2> QED
    BY <1>6, <2>1 DEF StackLeft
<1> HIDE DEF v, b
<1>8. Cardinality(FreeFrames) \in Nat /\ FreeFrames # {}
  <2>1. Cardinality(FreeFrames) \in Nat
    BY FreeFinite
  <2>2. Cardinality(FreeFrames) # 0
    BY <1>2, <1>5, <1>7, <2>1
  <2> QED
    BY <2>1, <2>2, FS_EmptySet
<1>9. /\ Owned' /\ DOMAIN pte' = DOMAIN pte \cup {v}
      /\ \A p \in DOMAIN pte : p # v => pte'[p] = pte[p]
      /\ Cardinality(FreeFrames') >= Cardinality(FreeFrames) - 1
      /\ Cardinality(FreeFrames') \in Nat
  <2>1. Owned
    BY <1>3 DEF PagingInv
  <2>2. AllocFrame(v)
    BY <1>1 DEF v
  <2> QED
    BY <1>5, <1>8, <2>1, <2>2, AllocFrameStep
<1>10. Cardinality(FreeFrames)' >= StackLeft'
  BY <1>2, <1>5, <1>7, <1>8, <1>9
<1>11. Placed(image)'
  BY <1>1, <1>2, <1>3 DEF PagingInv, Placed
<1>12. Loops(image)'
  <2>1. HeapFirst .. HeapEnd - 1 \subseteq DOMAIN pte
    BY <1>2, <1>3 DEF PagingInv, Loops
  <2>2. PICK n \in 0 .. IdentityPages(image) :
          Identical(n) /\ placement_address + 0 <= n * PageSize
    BY <1>2, <1>3 DEF PagingInv, Loops
  <2>3. \A p \in 0 .. n - 1 : p \in DOMAIN pte' /\ pte'[p] = p
    <3>1. \A p \in 0 .. n - 1 : p # v
      BY <1>5, Numbers, ImageNumbers
    <3> QED
      BY <1>9, <2>2, <3>1 DEF Identical
  <2> QED
    BY <1>1, <1>2, <1>9, <2>1, <2>2, <2>3 DEF Loops, Identical
<1>13. PagingInv(image)'
  BY <1>1, <1>3, <1>9, <1>11, <1>12 DEF PagingInv
<1>14. Mover!Inv'
  BY <1>1, <1>2, SameMove, Mover!MapStackPageInv
<1>15. Scan!ScanInv'
  BY <1>1, Scan!ScanStays DEF BootInv, Scan!vars
<1> QED
  BY <1>1, <1>2, <1>6, <1>10, <1>13, <1>14, <1>15 DEF BootInv

(* The stack is copied, relocated, or taken (task.c:182-209). *)
LEMMA MoveItInv == ASSUME BootInv, MoveIt PROVE BootInv'
<1>1. /\ phase = "tasking" /\ phase' = "tasking" /\ UNCHANGED vars /\ pc' = pc
      /\ UNCHANGED <<machine, bus, dev, func, printed>>
      /\ Mover!CopyStack \/ Mover!RelocateStack \/ Mover!SwitchStack
  BY SameMove DEF MoveIt, scan_vars, vars
<1>2. Mover!Inv /\ pc = "done" /\ top \in Nat
  BY <1>1 DEF BootInv
<1>3. PICK image \in Images : PagingInv(image)
  BY DEF BootInv
<1>4. PagingInv(image)'
  BY <1>1, <1>3, PagingStays
<1>5. Mover!Inv'
  BY <1>1, <1>2, SameMove, Mover!CopyStackInv, Mover!RelocateStackInv, Mover!SwitchStackInv
<1>6. top' = top /\ moving' # "map"
  BY <1>1 DEF Mover!CopyStack, Mover!RelocateStack, Mover!SwitchStack, Mover!Access
<1>7. Scan!ScanInv'
  BY <1>1, Scan!ScanStays DEF BootInv, Scan!vars
<1> QED
  BY <1>1, <1>2, <1>4, <1>5, <1>6, <1>7 DEF BootInv

(* initialise_tasking goes on to the first task. *)
LEMMA initialise_taskingInv == ASSUME BootInv, initialise_tasking PROVE BootInv'
<1>1. /\ phase = "tasking" /\ phase' = "booted" /\ moving = "moved" /\ UNCHANGED vars
      /\ pc' = pc /\ pte' = pte
      /\ UNCHANGED <<machine, bus, dev, func, printed>>
      /\ UNCHANGED <<moving, top, words, esp, ebp, old>>
  BY DEF initialise_tasking, scan_vars, vars, move_vars
<1>2. Mover!Inv /\ pc = "done" /\ top \in Nat
  BY <1>1 DEF BootInv
<1>3. PICK image \in Images : PagingInv(image)
  BY DEF BootInv
<1>4. PagingInv(image)'
  BY <1>1, <1>3, PagingStays
<1>5. Mover!Inv'
  BY <1>1, <1>2, Mover!Stays
<1>6. Scan!ScanInv'
  BY <1>1, Scan!ScanStays DEF BootInv, Scan!vars
<1> QED
  BY <1>1, <1>2, <1>4, <1>5, <1>6 DEF BootInv

(* Nothing happens. *)
LEMMA BootStutters == ASSUME BootInv, UNCHANGED boot_vars PROVE BootInv'
<1>1. /\ phase' = phase /\ UNCHANGED vars /\ pc' = pc /\ pte' = pte
      /\ UNCHANGED <<machine, bus, dev, func, printed>>
      /\ UNCHANGED <<moving, top, words, esp, ebp, old>>
  BY DEF boot_vars, scan_vars, vars, move_vars
<1>2. PICK image \in Images :
        PagingInv(image) /\ (phase \in {"scan", "paging"} => Room(image))
  BY DEF BootInv
<1>3. /\ PagingInv(image)' /\ FreeFrames' = FreeFrames
      /\ phase' \in {"scan", "paging"} => Room(image)'
  BY <1>1, <1>2, PagingStays
<1>4. phase' \in {"tasking", "booted"} => Mover!Inv'
  BY <1>1, Mover!Stays DEF BootInv
<1>5. Scan!ScanInv'
  BY <1>1, Scan!ScanStays DEF BootInv, Scan!vars
<1>6. StackLeft' = StackLeft
  BY <1>1 DEF StackLeft, Move!WordPage
<1> QED
  BY <1>1, <1>3, <1>4, <1>5, <1>6 DEF BootInv

(* Every step of main keeps the invariant. *)
LEMMA BootStep == BootInv /\ [BootNext]_boot_vars => BootInv'
BY BootStutters, PCIScanInv, PCIScannedInv, initialise_pagingInv, BeginMoveInv, MapStackInv,
   MoveItInv, initialise_taskingInv DEF BootNext

(* The invariant holds while the kernel boots. *)
LEMMA BootInvariant == BootSpec => []BootInv
BY BootStarts, BootStep, PTL DEF BootSpec

-----------------------------------------------------------------------------
(* What the invariant says *)

(* The invariant gives every variable its type. *)
LEMMA InvTypes == BootInv => BootTypeOK
<1> SUFFICES ASSUME BootInv PROVE BootTypeOK
  OBVIOUS
<1>1. PICK image \in Images : PagingInv(image)
  BY DEF BootInv
<1>2. TypeOK
  <2>1. bitset \in Nat /\ kernel_directory \in Nat /\ placement_address \in Nat
        /\ tables \subseteq TableSlots
    <3>1. image.end \in Nat /\ PageSize \in Nat
      BY ImageNumbers, Numbers
    <3> QED
      BY <1>1, <3>1 DEF PagingInv, Placed
  <2>2. tables \subseteq 0 .. Entries - 1
    BY <2>1, PagingInitAssumption
  <2>3. frames \subseteq 0 .. NumFrames - 1 /\ DOMAIN pte \subseteq Nat
        /\ pte \in [DOMAIN pte -> frames]
    BY <1>1 DEF PagingInv, Owned
  <2>4. pte \in [DOMAIN pte -> 0 .. NumFrames - 1]
    BY <2>3
  <2> QED
    BY <1>1, <2>1, <2>2, <2>3, <2>4 DEF PagingInv, TypeOK
<1>3. PCI!ScanTypeOK
  BY SameScan DEF BootInv, Scan!ScanInv
<1>4. CASE phase \in {"scan", "paging"}
  BY <1>2, <1>3, <1>4, BootAssumption DEF BootInv, BootTypeOK, Move!MoveStackAssumption
<1>5. CASE phase \in {"tasking", "booted"}
  <2>1. Mover!Inv /\ top \in Nat
    BY <1>5 DEF BootInv
  <2>2. moving \in {"map", "relocate", "switch", "moved"} /\ old \in Stacks
        /\ IF moving = "moved" THEN esp = old.esp + Mover!offset /\ ebp = old.ebp + Mover!offset
                               ELSE esp = old.esp /\ ebp = old.ebp
    BY <2>1 DEF Mover!Inv, Mover!Pointers
  <2>3. /\ old.esp \in Nat /\ old.ebp \in old.esp .. stack_esp - 1
        /\ StackPointer \in Nat /\ stack_esp \in Nat /\ StackWords \in Nat
        /\ stack_esp + StackWords < StackPointer
    BY <2>2, BootAssumption DEF Move!MoveStackAssumption, Move!Live
  <2>4. Mover!offset \in Nat
    BY <2>3 DEF Mover!offset
  <2>5. esp \in Nat /\ ebp \in Nat
    BY <2>2, <2>3, <2>4
  <2> QED
    BY <1>2, <1>3, <1>5, <2>1, <2>2, <2>5 DEF BootTypeOK
<1> QED
  BY <1>4, <1>5 DEF BootInv

(* What is in use lies in the pages that the loop has mapped. *)
LEMMA InvIdentity == BootInv => IdentityMapped
<1> SUFFICES ASSUME BootInv, PagingOn, NEW p \in UsedPages
             PROVE  p \in DOMAIN pte /\ pte[p] = p
  BY DEF IdentityMapped
<1>1. PICK image \in Images : PagingInv(image)
  BY DEF BootInv
<1>2. PICK n \in 0 .. IdentityPages(image) :
        /\ Identical(n)
        /\ placement_address + (IF pc = "done" THEN 0 ELSE PageSize) <= n * PageSize
  BY <1>1 DEF PagingInv, Loops, PagingOn
<1>3. placement_address \in Nat /\ placement_address >= PageSize /\ n \in Nat
      /\ PageSize \in Nat \ {0}
  BY <1>1, Numbers, ImageNumbers DEF PagingInv, Placed
<1>4. placement_address <= PageSize * n /\ PageSize * n \in Nat
  <2>1. n * PageSize = PageSize * n /\ n * PageSize \in Nat
    BY <1>3
  <2>2. (IF pc = "done" THEN 0 ELSE PageSize) \in Nat
    BY <1>3
  <2> QED
    BY <1>2, <1>3, <2>1, <2>2
<1> DEFINE k == (placement_address - 1) \div PageSize  r == (placement_address - 1) % PageSize
<1>5. k \in Int /\ r \in 0 .. PageSize - 1 /\ placement_address - 1 = (PageSize * k) + r
  <2>1. placement_address - 1 \in Int
    BY <1>3
  <2> QED
    BY <1>3, <2>1, Mover!Division
<1>6. p \in 0 .. k
  BY DEF UsedPages
<1> HIDE DEF k, r
<1>7. k < n
  <2> SUFFICES ASSUME k >= n PROVE FALSE
    BY <1>3, <1>5
  <2>1. PageSize * k >= PageSize * n /\ PageSize * k \in Int
    BY <1>3, <1>5, Z3
  <2> QED
    BY <1>3, <1>4, <1>5, <2>1
<1>8. p \in 0 .. n - 1
  BY <1>3, <1>5, <1>6, <1>7
<1> QED
  BY <1>2, <1>8 DEF Identical

(* A page that has a frame has it for itself. *)
LEMMA OwnFrame ==
  ASSUME BootInv, NEW v \in DOMAIN pte
  PROVE  pte[v] \in frames /\ \A p \in DOMAIN pte : pte[p] = pte[v] => p = v
BY DEF BootInv, PagingInv, Owned

(* The last loop has passed every page of the heap. *)
LEMMA InvHeap == BootInv => HeapBacked
<1> SUFFICES ASSUME BootInv, PagingOn
             PROVE  HeapFirst .. HeapEnd - 1 \subseteq DOMAIN pte
  BY OwnFrame DEF HeapBacked
<1> QED
  BY DEF BootInv, PagingInv, Loops, PagingOn

(* The directory is a page behind the bitset, which needs no more than that. *)
LEMMA InvBitset == BootInv => BitsetDisjoint
<1> SUFFICES ASSUME BootInv, kernel_directory # 0
             PROVE  bitset + NumFrames \div 8 <= kernel_directory
  BY DEF BitsetDisjoint
<1>1. PICK image \in Images : PagingInv(image)
  BY DEF BootInv
<1>2. bitset = image.end /\ kernel_directory = image.end + PageSize
  BY <1>1 DEF PagingInv, Placed
<1>3. NumFrames \div 8 <= PageSize /\ NumFrames \div 8 \in Int
      /\ image.end \in Int /\ PageSize \in Int
  BY PagingInitAssumption, Numbers, ImageNumbers
<1> QED
  BY <1>2, <1>3

(* What the invariant of the scan says when it is over. *)
LEMMA InvScan == BootInv => ScanComplete
BY SameScan, Scan!InvComplete DEF BootInv, ScanComplete

(* What the invariant of move_stack says once there is a stack to move. *)
LEMMA InvMove == BootInv => StackMoved
<1> SUFFICES ASSUME BootInv PROVE Move!StackMoved
  BY DEF StackMoved
<1>1. CASE phase \in {"scan", "paging"}
  BY <1>1 DEF BootInv, Move!StackMoved
<1>2. CASE phase \in {"tasking", "booted"}
  BY <1>2, SameMove, Mover!InvMoved DEF BootInv
<1> QED
  BY <1>1, <1>2 DEF BootInv

(* The new stack lies in pages that have frames of their own. *)
LEMMA InvStack == BootInv => StackBacked
<1> SUFFICES ASSUME BootInv, phase = "booted"
             PROVE  Move!Pages(esp, StackPointer - 1) \subseteq DOMAIN pte
  BY OwnFrame DEF StackBacked
<1>1. Mover!Inv /\ moving = "moved"
  BY DEF BootInv
<1>2. Mover!Pages(esp, StackPointer - 1) \subseteq DOMAIN pte
  BY <1>1, SameMove, Mover!NewStackMapped
<1>3. Mover!Pages(esp, StackPointer - 1) = Move!Pages(esp, StackPointer - 1)
  BY DEF Mover!Pages, Move!Pages, Mover!WordPage, Move!WordPage
<1> QED
  BY <1>2, <1>3

-----------------------------------------------------------------------------
(* Every variable keeps its type while the kernel boots: among them the slots of
   the page tables, which stay within the directory, and the frames, which stay
   within the memory (kernel.c, paging.c:111-157).                          *)
THEOREM BootTypes == BootSpec => []BootTypeOK
BY BootInvariant, InvTypes, PTL

(* For every place of the image's end and every contents of the memory, paging is
   turned on over an identity map of all that has been placed, although the loop
   that makes the map places its own page tables (paging.c:133-145).        *)
THEOREM IdentityIsComplete == BootSpec => []IdentityMapped
BY BootInvariant, InvIdentity, PTL

(* The initial heap has frames of its own (paging.c:147-149). *)
THEOREM HeapHasFrames == BootSpec => []HeapBacked
BY BootInvariant, InvHeap, PTL

(* The bitset is asked for too small, and the alignment of what comes next makes
   up for it (paging.c:117-121).                                            *)
THEOREM BitsetApart == BootSpec => []BitsetDisjoint
BY BootInvariant, InvBitset, PTL

(* Whatever is on the buses, the scan prints each function it can find, once
   (pci.c:139-163).                                                         *)
THEOREM EveryFunctionFound == BootSpec => []ScanComplete
BY BootInvariant, InvScan, PTL

(* Over the pages that initialise_paging has left, move_stack never faults and
   main goes on with the same stack (task.c:165-210).                       *)
THEOREM StackIsTheSame == BootSpec => []StackMoved
BY BootInvariant, InvMove, PTL

(* The new stack has frames that neither the identity map nor the heap has
   (task.c:168-173).                                                        *)
THEOREM StackHasFrames == BootSpec => []StackBacked
BY BootInvariant, InvStack, PTL
=============================================================================
