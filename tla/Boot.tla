-------------------------------- MODULE Boot --------------------------------
(***************************************************************************)
(* main of kernel.c up to its first task: PCIScan, initialise_paging and    *)
(* initialise_tasking, each by the steps of its own module, one after the   *)
(* other on the only processor.  They share the page frames: move_stack     *)
(* maps its pages with the frames that initialise_paging has left, and      *)
(* reads a stack that the identity map must have kept in reach.            *)
(***************************************************************************)
EXTENDS PagingInit

CONSTANTS
  Buses, Devices, Functions, Machines,
  PageWords, StackPointer, StackWords, stack_esp, Stacks

VARIABLES
  phase,                               (* the call of main under way        *)
  machine, bus, dev, func, printed,    (* of PCI                            *)
  moving, top, words, esp, ebp, old    (* of MoveStack                      *)

scan_vars == <<machine, bus, dev, func, printed>>
move_vars == <<moving, top, words, esp, ebp, old>>
boot_vars == <<phase, vars, scan_vars, move_vars>>

PCI == INSTANCE PCI

(* current_directory shares all tables that the first directory has *)
Move == INSTANCE MoveStack WITH mapped <- DOMAIN pte

(* the pages that move_stack maps *)
StackPages == Move!Pages(StackPointer - StackWords, StackPointer)

(* what the bitset leaves free when memset has cleared what it clears *)
FreeAtStart(image) ==
  {f \in 0 .. BitsetBytes * WordBits - 1 : f < ClearedBits \/ f \notin image.ram}

(* The loader's stack lies below the end of the image, the new one above the
   heap, and there are frames for the identity map, the heap and the new stack. *)
ASSUME BootAssumption ==
  /\ PCI!PCIAssumption /\ Move!MoveStackAssumption
  /\ PageSize = 4 * PageWords
  /\ StackPointer - StackWords >= HeapEnd * PageWords
  /\ \A image \in Images :
       /\ 4 * stack_esp <= image.end
       /\ IdentityPages(image) + HeapPages + Cardinality(StackPages)
            <= Cardinality(FreeAtStart(image))

NoStack == [esp |-> stack_esp, ebp |-> stack_esp, words |-> [a \in {} |-> 0]]

BootInit ==
  /\ phase = "scan"
  /\ Init /\ PCI!ScanInit
  /\ moving = "no" /\ top = 0 /\ words = NoStack.words
  /\ esp = stack_esp /\ ebp = stack_esp /\ old = NoStack

PCIScan ==
  /\ phase = "scan"
  /\ PCI!Scan
  /\ UNCHANGED <<phase, vars, move_vars>>

(* What was found is not kept. *)
PCIScanned ==
  /\ phase = "scan" /\ PCI!Scanned
  /\ phase' = "paging"
  /\ machine' = [functions |-> {}, several |-> {}] /\ printed' = <<>>
  /\ UNCHANGED <<vars, bus, dev, func, move_vars>>

initialise_paging ==
  /\ phase = "paging"
  /\ Next
  /\ UNCHANGED <<phase, scan_vars, move_vars>>

(* initialise_tasking: cli; move_stack *)
BeginMove ==
  /\ phase = "paging" /\ pc = "done"
  /\ phase' = "tasking"
  /\ \E stack \in Stacks : Move!Begin(stack)
  /\ UNCHANGED <<vars, scan_vars>>

(* alloc_frame(get_page(i, 1, current_directory)): the page table comes from
   the heap                                                                 *)
MapStack ==
  /\ phase = "tasking"
  /\ AllocFrame(Move!WordPage(top))
  /\ Move!MapStackPage
  /\ UNCHANGED <<phase, pc, i, placement_address, bitset, kernel_directory, tables, scan_vars>>

MoveIt ==
  /\ phase = "tasking"
  /\ UNCHANGED <<phase, vars, scan_vars>>
  /\ Move!CopyStack \/ Move!RelocateStack \/ Move!SwitchStack

initialise_tasking ==
  /\ phase = "tasking" /\ moving = "moved"
  /\ phase' = "booted"
  /\ UNCHANGED <<vars, scan_vars, move_vars>>

BootNext ==
  \/ PCIScan \/ PCIScanned
  \/ initialise_paging
  \/ BeginMove \/ MapStack \/ MoveIt \/ initialise_tasking

(* main runs on the only processor, with no other task yet: nothing keeps its
   next statement from being executed.                                      *)
BootSpec == BootInit /\ [][BootNext]_boot_vars /\ WF_boot_vars(BootNext)

-----------------------------------------------------------------------------
(* Every variable has its type (kernel.c). *)
BootTypeOK ==
  /\ phase \in {"scan", "paging", "tasking", "booted"}
  /\ TypeOK /\ PCI!ScanTypeOK
  /\ moving \in {"no", "map", "relocate", "switch", "moved", "fault"}
  /\ top \in Nat /\ esp \in Nat /\ ebp \in Nat

(* The scan finds what there is to find (pci.c:139-163). *)
ScanComplete == PCI!ScanComplete

(* move_stack reaches the old stack through the identity map, and the new one on
   pages it has mapped itself, and main goes on with the same stack at another
   place (task.c:168-209, paging.c:133-145).                                *)
StackMoved == Move!StackMoved

(* The new stack is backed by frames that are marked and that no other page has,
   in the identity map or the heap (task.c:168-173, paging.c:133-149).      *)
StackBacked ==
  phase = "booted" =>
    \A v \in Move!Pages(esp, StackPointer - 1) :
      /\ v \in DOMAIN pte /\ pte[v] \in frames
      /\ \A p \in DOMAIN pte : pte[p] = pte[v] => p = v

(* main comes to its first task: the scan ends, and so does the identity loop,
   although its own body moves its bound (kernel.c:28-44, paging.c:133-145). *)
Boots == <>(phase = "booted")
=============================================================================
