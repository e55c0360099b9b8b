# Duck Kernel: specifications, checks and proofs

TLA+ modules for the parts of the Duck Kernel that keep state over time: the boot,
the page frames, tables and directories, the kernel heap, the interrupt dispatch,
tasks under the timer interrupt, and the console under the keyboard's. TLC checks
them on small instances; TLAPS proves nearly all of the safety properties for every value
of the constants, those of the heap for the clients for which they are true.

Paths below are relative to the repository (`common/stdlib/paging.c` is
`src/common/stdlib/paging.c` in `PROJECT.json`).

## 1. The system

One processor, one address space per task, no user mode. `main` (`kernel.c`)
runs straight through: descriptor tables, screen, PCI scan, keyboard, `sti`,
paging, timer, tasking, one `fork`. From `sti` on, interrupts run between any two
instructions of it.

| component | state | operations | used by |
|---|---|---|---|
| paging initialisation (`paging.c` 111-157, `kernelheap.c` 14-40) | `placement_address`, the bitset, the first directory | `initialise_paging`, the placement branch of `kmalloc_internal` | `main` |
| page frames, tables, directories (`paging.c`) | frame bitset `frames`, page tables, directories, `current_directory` | `alloc_frame`, `free_frame`, `get_page`, `clone_directory`, `clone_table`, `switch_page_directory` | heap (`expand`, `contract`), `move_stack`, `fork`, `task_switch` |
| kernel heap (`kernelheap.c`) | headers and footers in the memory it manages, the index of holes, `end_address` | `alloc`, `free`, `expand`, `contract` | `kmalloc*`, `kfree` |
| ordered array (`ordered_array.c`) | the index of holes | insert, lookup, remove | heap |
| tasks (`task.c`, `process.s`) | `ready_queue`, `current_task`, `next_pid`, each task's `eip`, `esp`, `ebp`, directory | `initialise_tasking`, `fork`, `task_switch`, `move_stack`, `getpid` | timer, `main` |
| interrupt dispatch (`interrupt.s`, `isr.c`, `descriptor_tables.c`, `gdt.s`) | `interrupt_handlers`, the interrupt flag, the interrupt controllers | the stubs, `irq_handler`, `isr_handler`, `isr_error_handler`, `register_interrupt_handler` | the processor |
| timer (`timer.c`) | `tick` | `timer_callback` | `irq_handler` |
| boot (`kernel.c`, `loader.s`) | `stack_esp` | `main` | the loader |
| console (`screen.c`) | `curr_col`, `curr_row`, video memory | `cons_putc`, `putchar`, `clear_screen` | `printf`, keyboard |
| keyboard (`keyboard.c`) | `oneSymbolBuffor` | `keyboard_press_callback` | `irq_handler` |
| formatted output (`printf.c`) | none but the console's | `printf`, `panic`, `panic_assert` | all |
| PCI scan (`PCI/pci.c`) | none | `PCIScan` | `main` |
| memory and strings (`memory.c`, `String/string.c`) | none | `memcpy`, `memset`, port I/O | all |

What is hard in them:

* **Paging.** `initialise_paging` builds the page tables out of memory that it is
  identity-mapping at the same time. Frame 0 means "no frame". `first_frame` falls
  off its end when memory is full. `clone_directory` shares some tables and copies
  others while its own `kmalloc` calls may change the kernel's tables.
* **Heap.** The bookkeeping lies between the blocks, so an error in one place
  damages a header somewhere else and shows much later: unification, contraction,
  growth, alignment and remainders too small for a hole interact.
* **Tasks.** A context is an instruction pointer and a stack pointer; `fork` returns
  twice through one saved context, on two stacks; `task_switch` runs inside an
  interrupt that the next task does not return from.
* **Interrupts.** What a stub pushes and removes must be what the processor and its
  dispatcher expect, vector by vector; two controllers must be told the right number
  of times; `main` registers handlers and enables interrupts while devices are
  already raising their lines; the timer's handler enables interrupts in its middle.
* **Boot.** `move_stack` copies the stack that it is running on and guesses which of
  its words are pointers.
* **Console.** `printf` in the keyboard's handler interrupts `printf` in `main`.

## 2. Modules

| module | models | role |
|---|---|---|
| `PagingInit` | `initialise_paging`, `kmalloc_internal` before there is a heap | state machine, one action per loop iteration |
| `PCI` | `pci.c` | state machine, one action per header read |
| `MoveStack` | `move_stack` of `task.c` | state machine, one action per page of the first loop, then copy, relocation and switch |
| `Boot` | `main` up to its first task | composition: EXTENDS `PagingInit`, INSTANCEs `PCI` and `MoveStack` on the same pages and frames |
| `Paging` | frames, tables and directories afterwards | state machine |
| `KernelHeap` | `kernelheap.c` over `ordered_array.c` | state machine; `alloc` and `free` are operators on a record `heap` |
| `Allocator` | what `alloc` and `free` promise | abstract specification, refined by `KernelHeap` |
| `Tasks` | `task.c` with the timer's interrupt | state machine over `at`, where the processor is, and the stacks |
| `RoundRobin` | what the scheduler promises | abstract specification, refined by `Tasks` |
| `Interrupts` | `interrupt.s`, `isr.c`, `descriptor_tables.c`, `keyboard.c`, `timer.c` under `main`'s set-up | state machine over `at`, where the processor is, the words on the stack and the controllers |
| `Console` | `screen.c` under `main`'s `printf` and the handler of `keyboard.c` | state machine, one action per load, test or store |
| `PagingProofs`, `KernelHeapProofs`, `TasksProofs`, `InterruptsProofs`, `ConsoleProofs`, `PCIProofs`, `MoveStackProofs`, `BootProofs` | | the proofs; `BootProofs` INSTANCEs the two before it |
| `MC...` | | constants for TLC that a cfg cannot write |

### PagingInit
`pc` names the statement of `initialise_paging`; `i` is the loop variable. Pages
and frames are numbers, `placement_address` a byte address, the bitset the set of
the frames whose bit is set. The RAM under the bitset is not cleared as far as it
is used (`memset` clears a quarter of it): `Images` gives what it held, and where the
linker put `end`. The constants are those of the source. Its run is that of `Boot`.

### PCI, MoveStack and Boot
`PCI`: `machine` is what is on the buses, `bus`, `dev`, `func` the loop variables,
`printed` the calls of `PrintPCIDevHeader`. The address that a read sends is computed
from the fields of `PCIConfigAddres` and taken apart again as the host bridge does
(`Selected`, external). A header is reduced to whether a function answers and whether
the device says that it has several.

`MoveStack` counts in words. `words` is the part of memory that holds a stack,
`mapped` the pages with a frame. The first loop maps one page per action; `memcpy`,
the relocation loop and the switch of the stack pointer are one action each, because
interrupts are off. An access to a page that is not mapped leads to `"fault"`.
`stack_esp` is the value that the loader pushed, so the live words end below it. The
live stack is smaller than `StackWords`: the relocation loop visits the words in
`(sp - size, sp]`, one off, and would miss the lowest word of a full one.

`Boot` runs the scan, the initialisation of paging and `initialise_tasking` one
after the other. `MapStack` is at once `AllocFrame` of `PagingInit` and
`MapStackPage` of `MoveStack`, so that the stack's frames compete with those of the
identity map and the heap, and `move_stack` reaches the old stack only through the
identity map. Buses 2 of 255 and devices 2 of 32: what is found on one slot does not
depend on another. When paging starts, the result of the scan is forgotten, as the
code forgets it.

### Paging
`frames` is the set of marked frames, `tables` and `directories` are the structures
by number (`get_page` makes tables in order), `kernel_directory` is directory 1 and
the clone that `initialise_paging` ends with is directory 2, the initial
`current_directory`. One iteration of a loop of `clone_directory` or `clone_table` is
one action; `clone` holds their locals. `MapHeapPage` and `UnmapHeapPage` are what
`expand` and `contract` do to one page, in any order of pages: more than the heap
asks for. The page fault handler stops the machine; the other modules show where.
When no frame is free `first_frame` has no return statement; the build that the
Makefile describes (no optimisation) leaves the loop bound in `eax`, and so
does the model.

### KernelHeap
Memory is a function from word addresses (offsets from `start_address`) to words,
holding the fields of headers and footers; a size that wrapped around is a negative
number. A block's owner overwrites its block (`Fill`). `Call` starts an allocation,
`Grow` is the branch that extends the heap and calls `alloc` again, `Place` the one
that takes a hole; `Free` is `kfree`. A failed `ASSERT` leaves the status `panic`,
an access to a page without a frame `fault`, and both stop the machine. Requests are
multiples of 4 bytes, as all of the kernel's are. What is in a page that `contract`
gave back is dropped. A workload says which sizes and alignments clients ask for,
how many blocks they hold, which they free: none (the kernel itself never calls
`kfree`), in reverse order of allocation, or any; and its `span`: the bytes of the
heap that one page table reaches, 4 MB in the kernel. Beyond it `expand` needs a
table: `get_page` calls `alloc` again in the middle of the growth (`WithTable`).
That call either finds a hole, and the page of the table is then in
`kernel_directory` but not in `current_directory`, so that the write of a footer
faults; or finds none and grows again, calling itself for the same page until the
stack is used up (`"overflow"`).

### Interrupts
The stack is kept word by word as far as a stub or a dispatcher may take one word
for another: the processor's frame, its error code, the two numbers of a stub, the
saved registers. `at` says where the processor is: in `main` (`"code"`), at a
dispatcher (`"isr"`, `"error"`, `"irq"`), in a handler, returning from a switched
task (`"return"`), or in the tail of a stub (`"restore"`, `"drop"`, `"iret"`).
`regs` says whose values the registers hold. `irr` and `isr` are the request and
in-service bits of both controllers, `ready` the lines whose device may raise them
again. The keyboard raises its line only when its buffer becomes non-empty (`keys`).
`main` is the position in the set-up of `kernel.c`. Devices, controllers and
exceptions are external; `Spurious` lines are those on which a controller reports a
request that has gone (7 and 15). There is one task; the switch to another is in
`Tasks`.

### Tasks
`at` is the place in the code where the processor is, `stack` the frames each task is
inside of: a call of `fork`, with its local `parent_task`, or an interrupt, with the
place it returns to. `task` has the saved `eip` and `esp`; a saved `esp` is a depth.
`IF_` is the interrupt flag and `in_service` the timer's bit in the interrupt
controller. Interrupts nest up to `MaxNesting`, which stands for the timer's period.
`sti` delays interrupts by one instruction, so that `sti; iret` and `sti; jmp` are one
step. Two facts about the build and the rest of the kernel decide whether a second
task can run at all, and `build` holds them: whether `clone_directory` copies the
pages of the stack (the source does not), and whether the compiler kept the operand
for `ebp` out of `ecx`, which the `asm` of `task_switch` overwrites first. The properties
are checked for all four combinations.

### Console
`main` prints a character at a time; `at` is the place in `cons_putc` where it is, `row`
and `col` what it has loaded of the cursor. Without optimisation an increment is a load
and a store, and `PUT` loads the row before the column, so each is a step and a key
may come between any two. The handler runs with interrupts off and is one
step, `keyboard_press_callback`; `Handled` says what it prints for a letter, enter, tab,
backspace or the release of a key. `written` is the cells of the last step only. No second
task prints: the first switch to one resets the machine (see `clone` in 3).

## 3. What the runs check

| run | bounds | what it shows |
|---|---|---|
| `boot` | the source's constants, four memories; 2 buses of 2 devices with 8 functions, five kinds of device in each slot; 4 live words on the stack | every function that answers is printed once (`ScanComplete`); paging is enabled over a complete identity map of everything the kernel has used (`IdentityMapped`), the initial heap is backed by frames of its own (`HeapBacked`), the bitset overlaps nothing that is in use (`BitsetDisjoint`), although the bound of the identity loop moves while it runs; the stack is the same at its new place, with pointers into it moved and nothing else (`StackMoved`), on frames that no other page has (`StackBacked`); `main` gets there (`Boots`) |
| `paging` | 8 frames in words of 4, tables of 2 entries, 4 slots, 5 tables, 4 directories | `OwnedFramesMarked`, `ExclusiveFrames`, `KernelTablesShared`, `PrivateTables`, `FramesAreStable` over all interleavings of heap growth and shrinking, stack mapping, two clones and directory switches, into and beyond the exhaustion of memory |
| `free_frame` (violation) | as `paging` | a freed frame stays marked: `clear_frame` divides the frame number by 0x1000 again |
| `clone` (violation) | as `paging` | `clone_table` skips the entries that have a frame and copies the others. For `fork` this means that the first switch to the new task has no stack: the processor faults without being able to push anything, which resets the machine |
| `heap` | 8 to 11 pages, 7 at least; four workloads: the kernel's 24, 4096 and 8196 bytes, aligned or not, 6 blocks, no `free`; 24 and 12000 bytes, 3 blocks, freed in reverse order; 8000 and 12000 bytes, 4 blocks, in reverse order, in a heap whose table reaches 10 pages; 24, 4084 and 8196 bytes, unaligned, 8 blocks, no `free` | holes are cut in front of and behind blocks, unified on both sides, extended by growth and cut off by contraction: blocks are disjoint, aligned, backed and intact, holes are what the index says, no byte is lost (`Tiled`), one growth is enough (`EnoughAfterGrow`), a hole found for a page boundary has room for the block there, or the machine stops at its footer, and a growth goes to a hole at the end (`RequestFits`), the heap refines `Allocator`; with these sizes a growth past the page table stops the machine before anything is damaged (`OneTable`). With the kernel's sizes every growth faults (`heap_growth`), and the claims end there |
| `heap_growth` (violation) | 5 pages, the kernel's sizes | after `expand` the last page of the heap has no frame, and `alloc` faults on its footer |
| `heap_aligned` (violation) | 5 pages, 2048 bytes beside the kernel's sizes | a hole is taken for an aligned request that fits in it only at its start; the block is placed over another one |
| `heap_any` (violation) | 24 and 100 bytes, 3 blocks | freed in another order, a stale footer makes `alloc` give out memory that is in use |
| `tasks` | 4 tasks, 4 nested frames, all builds | contexts are defined and intact, `fork` answers once in each task, the tasks take turns as in `RoundRobin`, every task runs again and again |
| `console` | 16 columns, 3 rows, 3 keys | the cursor is on the screen wherever `main` is not between an increment and its check (`CursorOnScreen`); nothing is written farther than the line below the screen (`WritesNearScreen`), which a handler that finds the cursor past the end may reach; every character is printed, the loop of a tab included (`CharacterPrinted`) |
| `interrupts` | a timer, a keyboard and line 8; spurious 7 and 15; exceptions 3 and 14; 3 keys, 1 exception | every dispatcher calls the handler of the vector that was raised (`Dispatched`); each return goes to the code that was interrupted, with its registers (`ReturnsIntact`); no controller holds a line back when interrupts are enabled (`LinesOpen`); every request is served and every key read (`RequestsServed`, `KeysRead`), unless a key was waiting before the controllers were set up |
| `error_stub` (violation) | as `interrupts`, exception 13 | the processor's error code is left on the stack, and `iret` takes it for an address |

Why the bounds are enough. `paging`: three slots are told apart (identity map,
initial heap, the rest), tables need two entries for one entry to be disturbed
through another, two tasks beside the kernel's directory are what sharing can go
wrong between, and 8 frames are used up within the run. `heap`: an aligned request
in a fresh heap, one across a page boundary and the filling of the holes they leave
meet in 6 calls; two large blocks fill the heap, the third grows it past a page
boundary, and freeing it contracts the heap below its initial size; the third
workload comes to the end of its page table with a hole for another table and
without one; the fourth grows again and again, into the page that it grew into
before. The growths are ones that `expand` happens to map completely, and no
block in use lies above `MinSize` when the heap is contracted. Where one does,
`contract` takes its page: bit 12 of the size is tested and kept, so that most sizes
contract to the minimum (kernelheap.c:80). `boot`: the images differ in where `end`
is in its page, in the bits that the RAM leaves in the bitset, and one makes the
second page table inside the identity loop; a slot may be empty, have one function,
several in a row, with gaps or hidden, or lack function 0; the words of the stack
are numbers, pointers to both ends, to the top word, and just outside, and a saved
frame pointer; the real `StackPointer`, `StackWords` and `stack_esp` leave the two
loops their real ends. `interrupts`: each controller has a line and a spurious one,
the timer outranks the keyboard, three keys fill the buffer while one is being
handled, and an exception may fall between any two of `main`'s calls and interrupts.
`tasks`: a list of four tasks has a first, a middle and a last one; depth 4 holds a
fork, an interrupt in a new task and an interrupt nested in its return. `console`:
two tab stops and three rows have a middle and an end in both directions, and three
keys can disturb the load, the store and the check of one increment. The keys are
finite in number, which the end of a tab's loop needs: somebody who pressed a key
that moves the column at every turn could prolong it for ever.

Deadlock is checked in `tasks`, where the processor always has something to do (a
reset or lost processor is the action `Halt`), in `interrupts`, and in `console`.
The other systems stop: `initialise_paging` returns, a heap or a table pool reaches
its bound, a machine panics.

Fairness: `Boot`, `Tasks`, `Console` and `Interrupts` assume weak fairness of the
steps of the processor, which executes whatever is next, and `Tasks` of `Tick`,
because the timer is programmed to fire periodically and stays pending until it is
taken. In `Interrupts` nothing is assumed of the devices; the taking of a request is
a step of the processor. There each line is raised at most once between two steps of
`main`: devices are slower than the handlers, and a line that was raised without
pause would keep lower ones waiting for ever. Nothing is assumed of `Fork`: no task
has to fork. `EachTaskRuns` is claimed for the builds on which a switch to a forked
task works.

## 4. What is proved

`PagingProofs` (for every `PageSize`, `WordBits`, `NumFrames`, `Entries`, `Slots`
and all bounds, under `PagingAssumption`):

* `TypeCorrect`, `OwnedFramesAreMarked`, `FramesAreExclusive`, `FramesStayStable`,
  `KernelTablesStayShared`, `TablesStayPrivate`: all properties of the run `paging`.
* The base is `Reach`: besides types, tables not made yet own no frame, the
  directory being cloned is the newest and not the kernel's, and the table being
  cloned is in no directory and owns no frame from the current entry on. It is
  needed because `clone_table` overwrites an entry without looking at it.
* `FrameStep` says that a step gives at most one entry a frame, by `first_frame`, to
  an entry that had none, and clears at most bit 0. Marking, exclusiveness and
  stability each follow from it; exclusiveness needs marking, since a frame that is
  free is then owned by nobody.
* `DirectoryStep` does the same for directories. Sharing needs `CloneLinked`, what
  the loop of `clone_directory` has done so far; privacy needs only that an entered
  table is new, private to the clone, or the kernel's in that slot (`PutTable`).
* `PagingAssumption` asks that `NumFrames <= PageSize` (4096 frames and 0x1000):
  with more memory `clear_frame` would clear the bits of other frames, and
  `OwnedFramesMarked` would not hold.

`KernelHeapProofs`. For every workload, under `HeapAssumption`:

* `Types` (`TypeOK`): the types, the bounds of the heap, and that a block is at a page
  boundary if that was asked for (`Given`). Each operator of the model makes a heap of
  a heap (`Contracts`, `Places`, `Grows`, `Frees`, ...), for any address and any
  contents of the memory, so that this holds even where a block has been written over.
  `MinSize` is a whole number of pages, and at least two, because `contract` may round
  to two (`HEAP_MIN_SIZE` is 0x70000).

For clients that ask unaligned and keep what they get, or free the last block first
(`LastFirst`), any number of blocks of any sizes, through growth and contraction:

* `BlocksAreDisjoint`, `BlocksAreIntact`, `BlocksAreBacked`, `HolesAreSound`,
  `HeapIsTiled` (`Tiled`), `RequestsFit` (`RequestFits`), `GrowthSuffices`
  (`EnoughAfterGrow`), and `HeapImplementsAllocator`, the refinement of `Allocator`,
  as long as the heap is within its page table (`Orderly`). With other orders of
  `free`, or with any sizes at page boundaries, some of them are false: `heap_any`,
  `heap_aligned`.
* `LastFirst` asks of clients that free that no block starts within 20 bytes of
  `MinSize` or above it. `contract` rounds to two pages at most and then up to
  `MinSize`, so every `free` of the last block brings the heap back to `MinSize`, and
  frees the pages of a header that is above it.
* The invariant is `Layout`: the blocks lie one behind the other in the order of their
  calls, with the header and the footer that `alloc` wrote (`Stacked`), nothing
  between them (`Packed`), below the only hole, if there is one, which ends where the
  heap does; and every page below the end has a frame (`Tidy`). Disjoint blocks alone
  are not inductive: what a growth enlarges is the endmost hole, wherever it is. Nor
  are blocks without gaps dispensable: `unify_left` reads the word in front of the
  block, and it must be the footer of the block before.
* With the blocks stacked, `free` has two cases (`LayoutFree`): the block is followed
  by the hole, which goes into it, or by the end of the heap. On the left is always a
  block or the page that holds the index.
* `expand` visits the new bytes in steps of 1000. `PagesVisited` shows that it cannot
  pass over a page other than the last; `GrowsLast`, that a heap which goes on has
  written a footer into that one.
* `Tiled` is a sum folded over two sequences. `SumsExist` and `SumsTo` read a fold of
  the community modules as its partial sums, each by a least counterexample; those of
  the blocks are where the blocks end (`BlocksSum`).

And for the same clients, of growth past the page table:

* `KeepsToOneTable`: `OneTable` holds, so that `HeapIsSound`, the five invariants
  together, needs no assumption on the size of the heap. The new table goes to the
  front of the hole, `grow` extends what is left behind it, which is mapped nowhere,
  and the footer that is written there stops the machine.
* It assumes that the table is put nowhere where the end of the heap is lost
  (`Coincidence`): on the very end of the heap, right behind the header of the last
  hole, or so that the footer in front of it is the header's size field. The first of
  these is real, see 5. None is reached by a workload of `heap` that is `LastFirst`
  throughout, nor by its workload that goes past the page table.

For clients that keep their blocks, at page boundaries or not, as the kernel does, of
any number and sizes (`Roomy`):

* `KeepersAreSafe` (`BlocksDisjoint`, `BlocksIntact`, `BlocksBacked`, `HolesSound`),
  `KeepersGetEnough` (`EnoughAfterGrow`) and `KeepersHaveAllocator` (the refinement of
  `Allocator`).
* A block at a page boundary is cut out of the middle of a hole and leaves one in front
  and one behind, so the blocks are in no order. The invariant is `Kept`: every
  entry of the index is a whole hole, every block has the header and the footer
  that `alloc` wrote, all within the heap, no two with a byte in common (`Mosaic`);
  all pages of the heap have frames, and none behind them has (`NoFrameAfter`).
* `Mosaic` is needed because `find_smallest_hole` and `alloc` believe the header of a
  hole: its size has to be the truth for what is cut from it to be nobody else's.
  `Cut` says where each entry of the new index comes from, through the removal and the
  insertions, which move the others; `CutKeeps`, that such a cut keeps the mosaic.
  `NoFrameAfter` is needed because some requests overrun the end of the heap: the
  machine then faults at the footer, before the heap is used again (`Beyond`).
* `Roomy` assumes `OneTable` and `RequestFits`. The code does not test for the latter:
  line 112 ignores its own offset, and `heap_aligned` shows what follows with a size of
  2048. What the theorems say is that nothing else can go wrong. For the kernel's
  24, 4096 and 8196 bytes both are checked by the run `heap`, up to its bounds.

`TasksProofs` (for every number of tasks, depth and set of builds):

* `TypeCorrect`, `ContextIsDefined`, `ContextStaysIntact`, `ForkAnswersEach`
  (`ForkAnswers`), and `TasksTakeTurns`, which is the refinement of `RoundRobin`.
* The inductive invariant `Inv` adds what is on the stacks: frames fit on each other
  (`WellFormed`: a frame of `fork` is the outermost, an interrupt's frame returns to
  what is below it), the running stack fits `at` (`Position`), who called the fork a
  stack is inside of (`Parents`), where interrupts are off (`Masked`), and the queue
  is `1 .. next_pid - 1` in order (`Queue`). Intact contexts alone are not
  inductive, because what a return does depends on the frame below.
* `ForkAnswers` needs `Answered` besides: a forked task has had an answer exactly
  when it has left the call that made it (`Waiting`), and every number that was told
  is lower than the newest one until that call has returned.

`InterruptsProofs` (for any lines, exceptions and bounds):

* `Types`, `LinesAreOpen` (`LinesOpen`) and `DispatchIsRight` (`Dispatched`), with any
  set of exceptions; `Returning` (`ReturnsIntact`) under `PageFaultsOnly`: page
  faults, which panic, are the only exceptions that push an error code. With others
  it is false (`error_stub`).
* A stub pops what is on top and cannot tell whose words they are. `Inv` describes the
  words on top by the place the code is at (`Shape`), and says the same of each
  frame below and the place it will return to (`Nested`), so that what an `iret`
  uncovers is again of the right shape. `Masked` says where interrupts are off.
* `ErrorCodes` is a second invariant: an error code lies on the stack only on the way
  to a panic.

`ConsoleProofs` (for every screen of up to 254 columns, a multiple of 8, and 254 rows):

* `TypeCorrect`, `CursorStaysOnScreen`, `WritesStayNear`.
* `Inv` adds `Registers`: what `main` loaded was on the screen when it was loaded,
  so a stale store is at most one past the end. `Cursors` is the set of cursors that
  are past one end at most; the handler keeps a cursor in it, and does not carry a
  coordinate past an end that it was not past (`HandledKeeps`). The cells are near
  the screen because a cursor past one end is within the other (`CellNear`).

`PCIProofs` (for any buses, devices and functions): `ScanInv`. The functions printed
are those that can be found among the ones that the loops have passed, once each;
`Behind` is where the three nested loops are, as one set.

`MoveStackProofs` (for every page size, every place and size of the two stacks, and
any words on the old one, under `MoveStackAssumption`, which `Boot` assumes of its
constants and TLC evaluates there):

* `StackIsMoved`: `StackMoved`.
* `Inv` says how far the statements have come: which pages have frames (`Mapped`),
  what is at the new place (`Copied`), and that the stack pointers are still the old
  ones (`Pointers`). `StackMoved` alone says nothing before the end.
* `LoopEnd` is where the two loops meet: the first one goes down in whole pages and
  stops below `Bottom`, so the page of `Bottom` and all above it have frames; the
  words that are copied and visited are between `Bottom` and `StackPointer` because
  the live stack is smaller than `StackWords`. The page numbers need facts on
  division by an arbitrary page size (`Division` to `Difference`).

`BootProofs` (for every size of memory, heap and stacks and every `Images`, under the
assumptions of `PagingInit` and `Boot`):

* `BootTypes`, `IdentityIsComplete` (`IdentityMapped`), `HeapHasFrames` (`HeapBacked`),
  `BitsetApart` (`BitsetDisjoint`), `EveryFunctionFound` (`ScanComplete`),
  `StackIsTheSame` (`StackMoved`) and `StackHasFrames` (`StackBacked`): every safety
  property of the run `boot`.
* `BootInv` takes `ScanInv` and the invariant of `MoveStackProofs` and adds how far
  `initialise_paging` has come (`PagingInv`). Its identity loop chases
  `placement_address`, which its own body moves when `get_page` makes a table. That it
  comes to an end before the heap begins is counted: a slot gets one table, the
  slots are `TableSlots`, and so no more than `IdentityPages` are visited.
* `alloc_frame` fails when memory is full, so the invariant also counts frames: for
  the pages still to come (`PagesLeft`, `StackLeft`) there are as many free ones.
* The invariant of `move_stack` holds over the pages that paging has left because
  the new stack is above the heap and the old one inside the identity map.

The assumptions are what the kernel's build fixes: the linker script puts `end` at a
page boundary above 1 MB, and the boot loader's stack is below it; the first
heap page is above the memory of 4096 frames; the new stack is above the heap; the
memory has frames enough. `memset` clears a quarter of the bitset only: bits that the
RAM has set beyond it (`ClearedBits`) must not be of pages to be identity-mapped. TLC
evaluates them on the constants of the source in `boot`.

Only model-checked:

* liveness (`Boots`, `EachTaskRuns`, `CharacterPrinted`, `RequestsServed`,
  `KeysRead`), which TLAPS cannot prove under fairness;
* `OneTable` and `RequestFits` where clients ask for aligned blocks, as the kernel does:
  whether they hold depends on the sizes;
* `Tiled` for these clients: `Mosaic` leaves open whether bytes are lost between its
  parts.

Neither checked nor proved, but for `TypeOK`, is the heap of clients that ask for aligned
blocks and free some: the kernel never calls `kfree`.

## 5. Disagreements found

Six, in `PROJECT.json` under `findings`: `free_frame` does not free; the condition
of `clone_table` is inverted, so that the first switch to a forked task cannot work;
`expand` passes over pages; `find_smallest_hole` ignores the alignment; unifying
right leaves a stale footer; and the stub for exceptions with an error code returns
through it. Each has a run that shows it.

The proofs of the heap brought up one more, which has no run of its own. When a heap
grows past its page table, `expand` calls `alloc` for another one, and `alloc` looks
for the endmost hole afterwards (kernelheap.c:70, 191-217). If the table takes exactly
what was left of it, the growth is added to the hole in front of the table, which then
covers the table, and the heap goes on although its last pages are nowhere mapped: a
counterexample to `OneTable` and `Tiled` with sizes 2980, 5988 and 6268, nine blocks,
none freed, on the initial heap of the run `heap` with a `MaxAddress` of 53248. Without
the coincidence the machine stops (`KeepsToOneTable`), as it does with the sizes of the
run `heap`.

## 6. Not modelled

* Formatting (`printf.c`), port I/O, `memcpy` and `memset` as such, `string.c` (not
  in the Makefile), `print_task_info` and `getpid`, which keep no state;
  `oneSymbolBuffor` and `tick`, which nothing reads; the class names of `pci.c`.
* The segment descriptors and the selector and flags of the gates, which are
  constants, and the PIT's divisor: how often the timer fires is left open.
* The registers that a C function may leave changed on the stack of its caller: a
  handler gets the registers by value and none assigns to them.
* A key that waited in the keyboard before the controllers were set up is lost with
  all that follow it (`deaf` in `Interrupts`): nothing in the repository handles it,
  so the property excludes it.
* `page_fault` reads the vector where it expects the processor's error code; only
  the text it prints depends on it.

## 7. Plan

1. `RequestFits` for the kernel's own sizes, proved instead of checked: which remainders
   24, 4096 and 8196 bytes can leave between page boundaries; and `Tiled` for them, a
   sum over holes and blocks in any order.
2. `fork` over `Paging` and `Tasks` together, when the two disagreements on its way
   are settled.
