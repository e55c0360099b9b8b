------------------------------- MODULE Paging -------------------------------
(***************************************************************************)
(* The page frames, page tables and page directories of                    *)
(* common/stdlib/paging.c once initialise_paging has returned: alloc_frame, *)
(* free_frame, get_page, clone_directory and clone_table, as the kernel    *)
(* heap (expand, contract), move_stack, fork and task_switch call them.    *)
(*                                                                         *)
(* Addresses are page numbers.  clone_directory is a loop over directory   *)
(* slots with a loop over page entries inside; each iteration is a step,   *)
(* because its kmalloc calls may grow the kernel heap, and so map pages,   *)
(* between two iterations.                                                 *)
(***************************************************************************)
EXTENDS Integers

CONSTANTS
  PageSize,       (* 0x1000, the divisor in set_frame and clear_frame       *)
  WordBits,       (* bits of one u32 of the frame bitset: 32                *)
  NumFrames,      (* number_of_frames: 4096                                 *)
  Entries,        (* entries of a page table: 1024                          *)
  Slots,          (* tables of a page directory: 1024                       *)
  IdentityPages,  (* pages that initialise_paging identity-maps             *)
  HeapSlot,       (* directory slot of KHEAP_START                          *)
  BootHeap,       (* pages of the initial heap                              *)
  HeapArea,       (* pages the kernel heap may ever cover                   *)
  StackArea,      (* pages move_stack maps                                  *)
  MaxTables,      (* bound: page tables ever made                           *)
  MaxDirs         (* bound: page directories ever made                      *)

ASSUME PagingAssumption ==
  /\ {PageSize, WordBits, Entries} \subseteq Nat \ {0}
  /\ {NumFrames, Slots, IdentityPages, HeapSlot, BootHeap} \subseteq Nat
  /\ NumFrames <= PageSize
  /\ NumFrames \div WordBits < NumFrames
  /\ 0 < IdentityPages /\ IdentityPages + BootHeap <= NumFrames
  /\ 0 < HeapSlot /\ HeapSlot < Slots
  /\ HeapArea \cup StackArea \subseteq Nat
  /\ \A page \in HeapArea \cup StackArea : page \div Entries < Slots
  /\ MaxTables \in Nat /\ MaxTables >= 2
  /\ MaxDirs \in Nat /\ MaxDirs >= 2

VARIABLES
  frames,             (* the frames whose bit is set                        *)
  tables,             (* table id -> entry -> page                          *)
  table_count,        (* page tables made so far                            *)
  directories,        (* directory id -> slot -> table id, 0 for NULL       *)
  directory_count,    (* page directories made so far                       *)
  current_directory,
  clone,              (* the locals of clone_directory and clone_table      *)
  exhausted           (* history: first_frame once found no free frame      *)

vars == <<frames, tables, table_count, directories, directory_count,
          current_directory, clone, exhausted>>

TableIds == 1 .. MaxTables
DirIds == 1 .. MaxDirs
SlotSet == 0 .. Slots - 1
EntrySet == 0 .. Entries - 1

(* kernel_directory is the first directory made and never changes. *)
kernel_directory == 1

(* struct page_struct, without the bits that only the processor writes *)
Page == [present : BOOLEAN, rw : BOOLEAN, user : BOOLEAN, frame : 0 .. NumFrames - 1]
ZeroPage == [present |-> FALSE, rw |-> FALSE, user |-> FALSE, frame |-> 0]
ZeroTable == [e \in EntrySet |-> ZeroPage]
ZeroDirectory == [s \in SlotSet |-> 0]

Idle == [dir |-> 0, src |-> 0, slot |-> 0, table |-> 0, entry |-> 0]

-----------------------------------------------------------------------------
(***************************************************************************)
(* The frame bitset.  first_frame falls off its end when every bit is set; *)
(* the build of the Makefile (no optimisation) then returns the bound of   *)
(* its loop, INDEX_FROM_BIT(number_of_frames).                             *)
(***************************************************************************)
Words == NumFrames \div WordBits
FreeFrames == {f \in 0 .. NumFrames - 1 : f \div WordBits < Words} \ frames

(* Mutant: when nothing is free, the number of frames is the answer. *)
first_frame_past_end ==
  IF FreeFrames = {} THEN NumFrames
  ELSE CHOOSE f \in FreeFrames : \A g \in FreeFrames : f <= g

first_frame ==
  IF FreeFrames = {} THEN Words
  ELSE CHOOSE f \in FreeFrames : \A g \in FreeFrames : f <= g

(* alloc_frame on an entry that has no frame: what the entry becomes *)
Backed(is_kernel, is_writeable) ==
  [present |-> TRUE, rw |-> is_writeable, user |-> ~is_kernel, frame |-> first_frame]

(* Mutant: the bit is not set. *)
TakeFrame_unmarked ==
  /\ frames' = frames
  /\ exhausted' = (exhausted \/ FreeFrames = {})

(* set_frame and its bookkeeping: the bit of first_frame is set *)
TakeFrame ==
  /\ frames' = frames \cup {first_frame}
  /\ exhausted' = (exhausted \/ FreeFrames = {})

(* Mutant: no early return for a page that has a frame. *)
AllocFrame_always(tbls, t, e, is_kernel, is_writeable) ==
  /\ tables' = [tbls EXCEPT ![t][e] = Backed(is_kernel, is_writeable)]
  /\ TakeFrame

(* alloc_frame(&tables[t][e], is_kernel, is_writeable) in the tables tbls:
   returns straight away when the page has a frame other than 0             *)
AllocFrame(tbls, t, e, is_kernel, is_writeable) ==
  IF tbls[t][e].frame # 0
    THEN tables' = tbls /\ UNCHANGED <<frames, exhausted>>
    ELSE /\ tables' = [tbls EXCEPT ![t][e] = Backed(is_kernel, is_writeable)]
         /\ TakeFrame

(* free_frame(&tables[t][e]).  clear_frame takes an address and is given the
   frame number, which it divides by 0x1000 once more; present stays set.   *)
FreeFrame(t, e) ==
  /\ tables[t][e].frame # 0
  /\ frames' = frames \ {tables[t][e].frame \div PageSize}
  /\ tables' = [tables EXCEPT ![t][e].frame = 0]

SlotOf(page) == page \div Entries
EntryOf(page) == page % Entries

(* alloc_frame(get_page(page, 1, dir), is_kernel, is_writeable): the table of
   the slot is made, zeroed, when the directory has none                    *)
MapPage(dir, page, is_kernel, is_writeable) ==
  LET t == directories[dir][SlotOf(page)]
      new == table_count + 1
  IN  \/ /\ t # 0
         /\ AllocFrame(tables, t, EntryOf(page), is_kernel, is_writeable)
         /\ UNCHANGED <<table_count, directories>>
      \/ /\ t = 0
         /\ new <= MaxTables
         /\ table_count' = new
         /\ directories' = [directories EXCEPT ![dir][SlotOf(page)] = new]
         /\ AllocFrame([tables EXCEPT ![new] = ZeroTable], new, EntryOf(page),
                       is_kernel, is_writeable)

-----------------------------------------------------------------------------
(* What initialise_paging leaves: the identity map in slot 0, the initial heap
   in HeapSlot, and current_directory a clone that shares both tables.      *)
Init ==
  /\ frames = 0 .. IdentityPages + BootHeap - 1
  /\ tables = [t \in TableIds |-> [e \in EntrySet |->
       CASE t = 1 /\ e < IdentityPages ->
              [present |-> TRUE, rw |-> FALSE, user |-> TRUE, frame |-> e]
         [] t = 2 /\ e < BootHeap ->
              [present |-> TRUE, rw |-> FALSE, user |-> TRUE,
               frame |-> IdentityPages + e]
         [] OTHER -> ZeroPage]]
  /\ table_count = 2
  /\ directories = [d \in DirIds |-> [s \in SlotSet |->
       CASE d <= 2 /\ s = 0 -> 1
         [] d <= 2 /\ s = HeapSlot -> 2
         [] OTHER -> 0]]
  /\ directory_count = 2
  /\ current_directory = 2
  /\ clone = Idle
  /\ exhausted = FALSE

(* expand(): one page of the growing heap, in kernel_directory only.  It may
   run inside clone_directory, whose kmalloc calls grow the heap, but not
   inside the entry loop of clone_table.                                    *)
MapHeapPage(page) ==
  /\ clone.table = 0
  /\ MapPage(kernel_directory, page, FALSE, TRUE)
  /\ UNCHANGED <<directory_count, current_directory, clone>>

(* contract(): free_frame(get_page(page, 0, kernel_directory)) *)
UnmapHeapPage(page) ==
  /\ clone.dir = 0
  /\ directories[kernel_directory][SlotOf(page)] # 0
  /\ FreeFrame(directories[kernel_directory][SlotOf(page)], EntryOf(page))
  /\ UNCHANGED <<table_count, directories, directory_count, current_directory,
                 clone, exhausted>>

(* move_stack(): one page of the new stack, in the current directory *)
MapStackPage(page) ==
  /\ clone.dir = 0
  /\ MapPage(current_directory, page, FALSE, TRUE)
  /\ UNCHANGED <<directory_count, current_directory, clone>>

(* task_switch(): the directory of the next task; kernel_directory itself
   belongs to no task.                                                      *)
SwitchDirectory(dir) ==
  /\ clone.dir = 0
  /\ dir \in 2 .. directory_count
  /\ current_directory' = dir
  /\ UNCHANGED <<frames, tables, table_count, directories, directory_count,
                 clone, exhausted>>

(* fork(): clone_directory(current_directory) makes an empty directory *)
BeginClone ==
  /\ clone.dir = 0
  /\ directory_count < MaxDirs
  /\ directory_count' = directory_count + 1
  /\ directories' = [directories EXCEPT ![directory_count + 1] = ZeroDirectory]
  /\ clone' = [Idle EXCEPT !.dir = directory_count + 1, !.src = current_directory]
  /\ UNCHANGED <<frames, tables, table_count, current_directory, exhausted>>

SourceTable == directories[clone.src][clone.slot]
InSlotLoop == clone.dir # 0 /\ clone.table = 0 /\ clone.slot < Slots

(* Mutant: a kernel table is skipped like an empty slot. *)
CloneSlot_unlinked ==
  /\ InSlotLoop
  /\ SourceTable \in {0, directories[kernel_directory][clone.slot]}
  /\ clone' = [clone EXCEPT !.slot = @ + 1]
  /\ UNCHANGED <<frames, tables, table_count, directories, directory_count,
                 current_directory, exhausted>>

(* the slot is empty, or its table is the kernel's and is linked, not copied *)
CloneSlot ==
  /\ InSlotLoop
  /\ SourceTable \in {0, directories[kernel_directory][clone.slot]}
  /\ directories' = [directories EXCEPT ![clone.dir][clone.slot] = SourceTable]
  /\ clone' = [clone EXCEPT !.slot = @ + 1]
  /\ UNCHANGED <<frames, tables, table_count, directory_count,
                 current_directory, exhausted>>

(* clone_table() starts: a zeroed table *)
BeginCloneTable ==
  /\ InSlotLoop
  /\ SourceTable \notin {0, directories[kernel_directory][clone.slot]}
  /\ table_count < MaxTables
  /\ table_count' = table_count + 1
  /\ tables' = [tables EXCEPT ![table_count + 1] = ZeroTable]
  /\ clone' = [clone EXCEPT !.table = table_count + 1, !.entry = 0]
  /\ UNCHANGED <<frames, directories, directory_count, current_directory, exhausted>>

(* Mutant: the entry is copied whole, so that both pages have one frame. *)
CloneEntry_shares ==
  /\ clone.table # 0
  /\ clone.entry < Entries
  /\ tables' = [tables EXCEPT ![clone.table][clone.entry] = tables[SourceTable][clone.entry]]
  /\ clone' = [clone EXCEPT !.entry = @ + 1]
  /\ UNCHANGED <<frames, exhausted, table_count, directories, directory_count,
                 current_directory>>

(* one iteration of clone_table.  A page without a frame gets one, with the
   flags of the original added; a page that has a frame is skipped.         *)
CloneEntry ==
  /\ clone.table # 0
  /\ clone.entry < Entries
  /\ LET original == tables[SourceTable][clone.entry]
         fresh == Backed(FALSE, FALSE)
     IN  IF original.frame = 0
           THEN /\ tables' = [tables EXCEPT ![clone.table][clone.entry] =
                     [fresh EXCEPT !.rw = original.rw, !.user = @ \/ original.user]]
                /\ TakeFrame
           ELSE UNCHANGED <<tables, frames, exhausted>>
  /\ clone' = [clone EXCEPT !.entry = @ + 1]
  /\ UNCHANGED <<table_count, directories, directory_count, current_directory>>

(* Mutant: the table of the original is entered. *)
EndCloneTable_links ==
  /\ clone.table # 0
  /\ clone.entry = Entries
  /\ directories' = [directories EXCEPT ![clone.dir][clone.slot] = SourceTable]
  /\ clone' = [clone EXCEPT !.table = 0, !.entry = 0, !.slot = @ + 1]
  /\ UNCHANGED <<frames, tables, table_count, directory_count,
                 current_directory, exhausted>>

(* clone_table() returns and the new table is entered in the new directory *)
EndCloneTable ==
  /\ clone.table # 0
  /\ clone.entry = Entries
  /\ directories' = [directories EXCEPT ![clone.dir][clone.slot] = clone.table]
  /\ clone' = [clone EXCEPT !.table = 0, !.entry = 0, !.slot = @ + 1]
  /\ UNCHANGED <<frames, tables, table_count, directory_count,
                 current_directory, exhausted>>

EndClone ==
  /\ clone.dir # 0
  /\ clone.table = 0
  /\ clone.slot = Slots
  /\ clone' = Idle
  /\ UNCHANGED <<frames, tables, table_count, directories, directory_count,
                 current_directory, exhausted>>

Next ==
  \/ \E page \in HeapArea : MapHeapPage(page)
  \/ \E page \in HeapArea : UnmapHeapPage(page)
  \/ \E page \in StackArea : MapStackPage(page)
  \/ \E dir \in DirIds : SwitchDirectory(dir)
  \/ BeginClone \/ CloneSlot
  \/ BeginCloneTable \/ CloneEntry \/ EndCloneTable
  \/ EndClone

Spec == Init /\ [][Next]_vars

-----------------------------------------------------------------------------
FrameOf(t, e) == tables[t][e].frame

(* Every variable has its type (paging.c). *)
TypeOK ==
  /\ frames \subseteq 0 .. NumFrames - 1
  /\ tables \in [TableIds -> [EntrySet -> Page]]
  /\ table_count \in 2 .. MaxTables
  /\ directories \in [DirIds -> [SlotSet -> 0 .. table_count]]
  /\ directory_count \in 2 .. MaxDirs
  /\ current_directory \in 2 .. directory_count
  /\ clone \in [dir : 0 .. directory_count, src : 0 .. directory_count,
                slot : 0 .. Slots, table : 0 .. table_count, entry : 0 .. Entries]
  /\ exhausted \in BOOLEAN

(* A frame that some page owns is never handed out by first_frame: its bit is
   set for as long as a page has it, across alloc_frame, free_frame (whose
   clear_frame clears another bit than that of the frame it is given) and the
   frames that clone_table takes (paging.c:72-107, 244-264).                *)
OwnedFramesMarked ==
  \A t \in TableIds, e \in EntrySet : FrameOf(t, e) # 0 => FrameOf(t, e) \in frames

(* Until memory runs out no two pages, of one table or of the tables of two
   tasks, have the same frame other than frame 0 (paging.c:72-92, 244-264). *)
ExclusiveFrames ==
  ~exhausted =>
    \A t, u \in TableIds : \A e, g \in EntrySet :
      FrameOf(t, e) # 0 /\ FrameOf(t, e) = FrameOf(u, g) => t = u /\ e = g

(* A directory that clone_directory has finished holds the kernel's own tables
   in the identity-mapped slot and in the slot of the initial heap, so that
   the kernel runs on the same memory in every task (paging.c:278-287).     *)
KernelTablesShared ==
  \A d \in 1 .. directory_count : d # clone.dir =>
    \A s \in {0, HeapSlot} :
      directories[d][s] = directories[kernel_directory][s] /\ directories[d][s] # 0

(* A table that two directories hold, in whatever slots, is one that
   kernel_directory holds in that slot: what a task maps for itself is never
   seen by another task (paging.c:283-293).                                 *)
PrivateTables ==
  \A c, d \in 1 .. directory_count : \A r, s \in SlotSet :
    directories[c][r] # 0 /\ directories[c][r] = directories[d][s] =>
      r = s /\ (c # d => directories[c][r] = directories[kernel_directory][r])

(* A page that has a frame keeps it until free_frame takes it away; no call of
   alloc_frame or of clone_table gives it another (paging.c:74-77).         *)
FramesAreStable ==
  [][\A t \in TableIds, e \in EntrySet :
       FrameOf(t, e) # 0 => FrameOf(t, e)' \in {FrameOf(t, e), 0}]_vars

(* "Frame is now free again." (paging.c:104): a page that loses its frame gives
   it back to the bitset.                                                   *)
FreedFrameIsFree ==
  [][\A t \in TableIds, e \in EntrySet :
       FrameOf(t, e) # 0 /\ FrameOf(t, e)' = 0 => FrameOf(t, e) \notin frames']_vars

(* "Copies a page directory" (clone_directory): once the clone is finished a
   page that is present in the original is present in the copy.             *)
Present(d, s, e) == directories[d][s] # 0 /\ tables[directories[d][s]][e].present
ClonedAll ==
  (clone.dir # 0 /\ clone.table = 0 /\ clone.slot = Slots) =>
    \A s \in SlotSet, e \in EntrySet :
      Present(clone.src, s, e) => Present(clone.dir, s, e)
=============================================================================
