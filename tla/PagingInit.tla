----------------------------- MODULE PagingInit -----------------------------
(***************************************************************************)
(* initialise_paging() of common/stdlib/paging.c together with the         *)
(* placement branch of kmalloc_internal (common/stdlib/kernelheap.c): how  *)
(* the kernel builds its first page directory out of memory it hands out   *)
(* by moving placement_address, and identity-maps that same memory while   *)
(* it is still growing.  One action is one iteration of a loop of the      *)
(* function, or one straight-line statement between the loops.             *)
(*                                                                         *)
(* Virtual and physical pages are numbered (address / 0x1000);             *)
(* placement_address is a byte address.                                    *)
(***************************************************************************)
EXTENDS Integers, FiniteSets

CONSTANTS
  PageSize,         (* 0x1000                                               *)
  Entries,          (* page entries of a page table: 1024                   *)
  WordBits,         (* bits of one u32 of the frame bitset: 32              *)
  NumFrames,        (* number_of_frames                                     *)
  HeapFirst,        (* KHEAP_START / 0x1000                                 *)
  HeapPages,        (* KHEAP_INITIAL_SIZE / 0x1000                          *)
  DirectoryBytes,   (* sizeof(page_directory)                               *)
  TableBytes,       (* sizeof(page_table)                                   *)
  HeapBytes,        (* sizeof(heap_t)                                       *)
  Images            (* the machines to boot: where the linker's "end" is    *)
                    (* and which bits the RAM under "frames" happens to     *)
                    (* hold when the kernel is loaded                       *)

(* Bytes that the code asks for the bitset, INDEX_FROM_BIT(number_of_frames),
   and the bits that memset clears in it: a quarter of the bits in use.     *)
BitsetBytes == NumFrames \div WordBits
ClearedBits == 8 * BitsetBytes

HeapEnd == HeapFirst + HeapPages

(* The page tables that the identity map and the initial heap may need, how far
   they and the directory can move placement_address, and the pages of which
   none is beyond the identity map.                                         *)
TableSlots == {page \div Entries : page \in (0 .. NumFrames - 1) \cup (HeapFirst .. HeapEnd - 1)}
Furthest(image) ==
  image.end + PageSize + DirectoryBytes + Cardinality(TableSlots) * (PageSize + TableBytes)
IdentityPages(image) == Furthest(image) \div PageSize + 2

(* "end" is the start of a page, and not of the first one; the bitset as it is
   asked for, the bitset that is used and heap_t each fit in a page; there is
   memory for the identity map, and the bits that memset does not clear claim
   none of it; the heap lies above the memory there is.                     *)
ASSUME PagingInitAssumption ==
  /\ {PageSize, Entries, WordBits, NumFrames} \subseteq Nat \ {0}
  /\ {HeapFirst, HeapPages, DirectoryBytes, TableBytes, HeapBytes} \subseteq Nat
  /\ BitsetBytes < PageSize /\ NumFrames \div 8 <= PageSize /\ HeapBytes <= PageSize
  /\ NumFrames <= HeapFirst
  /\ TableSlots \subseteq 0 .. Entries - 1
  /\ \A image \in Images :
       /\ image.end \in Nat /\ image.end % PageSize = 0 /\ image.end >= PageSize
       /\ image.ram \subseteq 0 .. NumFrames - 1
       /\ IdentityPages(image) <= BitsetBytes * WordBits
       /\ \A f \in image.ram : f < IdentityPages(image) => f < ClearedBits

VARIABLES
  pc,                  (* the statement of initialise_paging to run next    *)
  i,                   (* the loop variable, as a page number               *)
  placement_address,
  frames,              (* the frames whose bit is set in the bitset         *)
  bitset,              (* the address kmalloc gave the bitset; 0 before     *)
  kernel_directory,    (* its address; 0 before                             *)
  tables,              (* directory slots that hold a page table            *)
  pte                  (* page -> frame, for the pages alloc_frame has seen *)

vars == <<pc, i, placement_address, frames, bitset, kernel_directory,
          tables, pte>>

(* Mutant: the request for alignment is not looked at. *)
Aligned_not(a) == a

(***************************************************************************)
(* kmalloc_internal while kheap is 0.  "align" rounds up even an address   *)
(* that is a page boundary already.                                        *)
(***************************************************************************)
Aligned(a) == IF a \div PageSize # 0 THEN (a \div PageSize) * PageSize + PageSize
                                     ELSE a

(***************************************************************************)
(* get_page(address, 1, kernel_directory): the page table of the slot is   *)
(* made on demand, with kmalloc_ap.                                        *)
(***************************************************************************)
(* Mutant: the page number is the slot. *)
SlotOf_page(page) == page

SlotOf(page) == page \div Entries

GetPage(page) ==
  /\ tables' = tables \cup {SlotOf(page)}
  /\ placement_address' = IF SlotOf(page) \in tables
                            THEN placement_address
                            ELSE Aligned(placement_address) + TableBytes

(***************************************************************************)
(* first_frame() scans whole words of the bitset.  When every bit is set   *)
(* it runs off its end without a return statement; the build of the        *)
(* Makefile then leaves the loop bound in the return register.             *)
(***************************************************************************)
FreeFrames == (0 .. BitsetBytes * WordBits - 1) \ frames

FirstFrame == IF FreeFrames = {} THEN BitsetBytes
              ELSE CHOOSE f \in FreeFrames : \A g \in FreeFrames : f <= g

(***************************************************************************)
(* alloc_frame(page, ..): nothing to do for a page that has a frame, and   *)
(* frame 0 counts as "no frame".                                           *)
(***************************************************************************)
HasFrame(page) == page \in DOMAIN pte /\ pte[page] # 0

(* Mutant: the bit is not set. *)
AllocFrame_unmarked(page) ==
  IF HasFrame(page)
    THEN UNCHANGED <<frames, pte>>
    ELSE /\ frames' = frames
         /\ pte' = [p \in DOMAIN pte \cup {page} |->
                      IF p = page THEN FirstFrame ELSE pte[p]]

AllocFrame(page) ==
  IF HasFrame(page)
    THEN UNCHANGED <<frames, pte>>
    ELSE /\ frames' = frames \cup {FirstFrame}
         /\ pte' = [p \in DOMAIN pte \cup {page} |->
                      IF p = page THEN FirstFrame ELSE pte[p]]

-----------------------------------------------------------------------------
Init ==
  \E image \in Images :
    /\ pc = "bitset"
    /\ i = 0
    /\ placement_address = image.end
    /\ frames = image.ram
    /\ bitset = 0
    /\ kernel_directory = 0
    /\ tables = {}
    /\ pte = [p \in {} |-> 0]

(* frames = kmalloc(INDEX_FROM_BIT(number_of_frames)); memset(frames, 0, ..) *)
MakeBitset ==
  /\ pc = "bitset"
  /\ bitset' = placement_address
  /\ placement_address' = placement_address + BitsetBytes
  /\ frames' = {f \in frames : f >= ClearedBits}
  /\ pc' = "directory"
  /\ UNCHANGED <<i, kernel_directory, tables, pte>>

(* kernel_directory = kmalloc_a(sizeof(page_directory)) *)
MakeDirectory ==
  /\ pc = "directory"
  /\ kernel_directory' = Aligned(placement_address)
  /\ placement_address' = kernel_directory' + DirectoryBytes
  /\ pc' = "premap"
  /\ i' = HeapFirst
  /\ UNCHANGED <<frames, bitset, tables, pte>>

(* First loop: the page tables of the heap area, before anything is mapped. *)
Premap ==
  /\ pc = "premap"
  /\ i < HeapEnd
  /\ GetPage(i)
  /\ i' = i + 1
  /\ UNCHANGED <<pc, frames, bitset, kernel_directory, pte>>

PremapDone ==
  /\ pc = "premap"
  /\ i >= HeapEnd
  /\ pc' = "identity"
  /\ i' = 0
  /\ UNCHANGED <<placement_address, frames, bitset, kernel_directory, tables, pte>>

(* Second loop: identity mapping, up to a placement_address that get_page
   may move inside the body; one page more than is in use.                  *)
(* Mutant: no page more than is in use. *)
IdentityMore_exact == i * PageSize < placement_address

IdentityMore == i * PageSize < placement_address + PageSize

(* Mutant: the address is not advanced. *)
Identity_stuck ==
  /\ pc = "identity"
  /\ IdentityMore
  /\ GetPage(i)
  /\ AllocFrame(i)
  /\ UNCHANGED <<i, pc, bitset, kernel_directory>>

Identity ==
  /\ pc = "identity"
  /\ IdentityMore
  /\ GetPage(i)
  /\ AllocFrame(i)
  /\ i' = i + 1
  /\ UNCHANGED <<pc, bitset, kernel_directory>>

IdentityDone ==
  /\ pc = "identity"
  /\ ~IdentityMore
  /\ pc' = "heapframes"
  /\ i' = HeapFirst
  /\ UNCHANGED <<placement_address, frames, bitset, kernel_directory, tables, pte>>

(* Third loop: frames for the initial heap. *)
HeapFrames ==
  /\ pc = "heapframes"
  /\ i < HeapEnd
  /\ GetPage(i)
  /\ AllocFrame(i)
  /\ i' = i + 1
  /\ UNCHANGED <<pc, bitset, kernel_directory>>

(* register_interrupt_handler(14, ..) and switch_page_directory, which turns
   paging on.                                                               *)
EnablePaging ==
  /\ pc = "heapframes"
  /\ i >= HeapEnd
  /\ pc' = "create_heap"
  /\ UNCHANGED <<i, placement_address, frames, bitset, kernel_directory, tables, pte>>

(* create_heap: the heap_t still comes from placement_address, as kheap is 0
   until create_heap has returned.                                          *)
CreateHeap ==
  /\ pc = "create_heap"
  /\ placement_address' = placement_address + HeapBytes
  /\ pc' = "done"
  /\ UNCHANGED <<i, frames, bitset, kernel_directory, tables, pte>>

Next ==
  \/ MakeBitset \/ MakeDirectory
  \/ Premap \/ PremapDone
  \/ Identity \/ IdentityDone
  \/ HeapFrames \/ EnablePaging
  \/ CreateHeap

Spec == Init /\ [][Next]_vars

-----------------------------------------------------------------------------
PagingOn == pc \in {"create_heap", "done"}

(* The pages that hold the kernel image and all that was placed behind it. *)
UsedPages == 0 .. ((placement_address - 1) \div PageSize)

(* Every variable has its type (initialise_paging, paging.c). *)
TypeOK ==
  /\ pc \in {"bitset", "directory", "premap", "identity", "heapframes",
             "create_heap", "done"}
  /\ i \in Nat
  /\ placement_address \in Nat
  /\ frames \subseteq 0 .. NumFrames - 1
  /\ bitset \in Nat
  /\ kernel_directory \in Nat
  /\ tables \subseteq 0 .. Entries - 1
  /\ DOMAIN pte \subseteq Nat
  /\ pte \in [DOMAIN pte -> 0 .. NumFrames - 1]

(* When paging is turned on, and after the heap_t has been placed too, every
   page in use below placement_address is mapped to the frame of the same
   number: the kernel, the bitset, the directory and the page tables made
   while the loop was running keep their addresses (paging.c:133-145).      *)
IdentityMapped ==
  PagingOn => \A p \in UsedPages : p \in DOMAIN pte /\ pte[p] = p

(* When paging is turned on the initial heap is backed: each of its pages
   has a frame, that frame's bit is set, and no other page has that frame
   (paging.c:147-149, alloc_frame).                                         *)
HeapBacked ==
  PagingOn => \A v \in HeapFirst .. HeapEnd - 1 :
                /\ v \in DOMAIN pte
                /\ pte[v] \in frames
                /\ \A p \in DOMAIN pte : pte[p] = pte[v] => p = v

(* kmalloc is asked for fewer bytes than the bitset has: the bytes of it that
   set_frame and first_frame use never reach the page directory placed next
   (paging.c:117-121).                                                      *)
BitsetDisjoint ==
  kernel_directory # 0 => bitset + NumFrames \div 8 <= kernel_directory
=============================================================================
