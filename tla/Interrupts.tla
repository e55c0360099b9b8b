----------------------------- MODULE Interrupts -----------------------------
(***************************************************************************)
(* From a device's line or a processor's exception to a C handler and back: *)
(* the vectors and gates of common/descriptor_tables.c, the stubs of        *)
(* common/interrupt.s, the three dispatchers of common/isr.c, and the       *)
(* handlers of the keyboard, the timer and the page fault, while main       *)
(* (kernel.c) sets them up and lets interrupts in.                         *)
(*                                                                         *)
(* What an interrupt leaves on the stack is kept word by word, as far as a  *)
(* stub or a C function may take one word for another.  There is one task:  *)
(* the switch to another is in module Tasks.                               *)
(***************************************************************************)
EXTENDS Integers, Sequences, SequencesExt

CONSTANTS
  Lines,         (* lines of the interrupt controllers with a device on them *)
  Spurious,      (* lines a controller reports a vanished request on: 7, 15 *)
  Exceptions,    (* vectors of the exceptions that the code may raise       *)
  MaxFaults,     (* bound: exceptions raised                                *)
  MaxKeys        (* bound: keys pressed                                     *)

ASSUME InterruptsAssumption ==
  /\ Lines \subseteq 0 .. 15 \ {2} /\ Spurious \subseteq {7, 15}
  /\ 1 \in Lines                                           (* the keyboard *)
  /\ Exceptions \subseteq 0 .. 31
  /\ MaxFaults \in Nat /\ MaxKeys \in Nat

VARIABLES
  main,        (* the position of main in Calls                             *)
  at,          (* where the processor is: the places below                  *)
  stack,       (* what interrupts have pushed, the last word on top         *)
  regs,        (* whose values the registers hold: 0 for main's             *)
  IF_,         (* the interrupt flag                                        *)
  handlers,    (* the vectors whose interrupt_handlers entry is not 0       *)
  called,      (* the entry that the last dispatch called, or None          *)
  irr, isr,    (* the controllers' lines requested, and in service          *)
  ready,       (* lines that may be raised again, see Now                   *)
  keys,        (* key codes that the keyboard holds for port 0x60           *)
  pressed,     (* history: keys pressed                                     *)
  deaf,        (* history: a key was waiting when the controllers were set
                  up, which forgot its request                              *)
  faults       (* history: exceptions raised                                *)

cpu == <<at, stack, regs, IF_>>
devices == <<irr, isr, ready, keys, pressed, deaf>>
vars == <<main, cpu, handlers, called, devices, faults>>

None == -1
KEYBOARD == 1
Stopped == {"panic", "lost"}
Places == {"code", "isr", "error", "irq", "handler", "return", "restore", "drop",
           "iret"} \cup Stopped

-----------------------------------------------------------------------------
(* Words of the stack.  "saved" and "vector" of a frame say what is to be
   restored and what was raised: no instruction reads them.                 *)
Frame(v) == [kind |-> "frame", back |-> at, flag |-> IF_, saved |-> regs, vector |-> v]
Number(n) == [kind |-> "number", n |-> n]
ErrorCode == [kind |-> "error"]
Registers == [kind |-> "registers", of |-> regs]
Word == [kind : {"frame"}, back : Places, flag : BOOLEAN, saved : Nat, vector : 0 .. 47]
          \cup [kind : {"number"}, n : 0 .. 47] \cup {ErrorCode}
          \cup [kind : {"registers"}, of : Nat]

Top(k) == stack[Len(stack) - k]
Drop(k) == stack' = SubSeq(stack, 1, Len(stack) - k)

(* exceptions for which the processor itself pushes an error code *)
PushesErrorCode == {8, 10, 11, 12, 13, 14}

(* the vectors of ISR_ERRCODE *)
ErrorStubs == {8, 10, 11, 12, 13, 14}

(* Mutant: the number is pushed first in every stub. *)
Numbers_swapped(v) == <<Number(v), Number(0)>>

(* the two words that a stub pushes: ISR_ERRCODE has them the other way round *)
Numbers(v) ==
  IF v \in ErrorStubs THEN <<Number(v), Number(0)>> ELSE <<Number(0), Number(v)>>

Dispatcher(v) == IF v >= 32 THEN "irq" ELSE IF v \in ErrorStubs THEN "error" ELSE "isr"

(* Through gate v, an interrupt gate, to the call of a dispatcher. *)
Enter(v) ==
  /\ stack' = stack \o <<Frame(v)>>
                    \o (IF v \in PushesErrorCode THEN <<ErrorCode>> ELSE <<>>)
                    \o Numbers(v) \o <<Registers>>
  /\ at' = Dispatcher(v) /\ IF_' = FALSE
  /\ UNCHANGED regs

(* registers_table: what a dispatcher reads in its argument *)
interruption_number == Top(1).n
error_code == Top(2).n

(* the vector that was really raised *)
Raised == stack[SelectLastInSeq(stack, LAMBDA word : word.kind = "frame")].vector

-----------------------------------------------------------------------------
(* The two controllers, the second one on line 2 of the first. *)
First(lines) == {l \in lines : l < 8}
Second(lines) == {l \in lines : l >= 8}
Outranks(k, l) == (IF k >= 8 THEN 2 ELSE k) < (IF l >= 8 THEN 2 ELSE l)
                    \/ (k >= 8 /\ l >= 8 /\ k < l)
InService(l) == IF l >= 8 THEN {l, 2} ELSE {l}
Blocked(l) == \/ \E s \in First(isr) : s <= (IF l >= 8 THEN 2 ELSE l)
              \/ l >= 8 /\ \E s \in Second(isr) : s <= l
Pending == {l \in irr : ~Blocked(l)}

(* Mutant: the controllers are left as the firmware sets them. *)
Vector_firmware(l) == IF l >= 8 THEN 112 + (l - 8) ELSE 8 + l

(* ICW2 of each controller: 0x20 and 0x28 *)
Vector(l) == IF l >= 8 THEN 40 + (l - 8) ELSE 32 + l

(* outb(0x20, 0x20) or outb(0xA0, 0x20) *)
Highest(lines) == {l \in lines : \A k \in lines : l <= k}

(* Mutant: the first of the second controller's vectors is left out. *)
AfterEOI_above(n, lines) ==
  LET second == IF n > 40 THEN Highest(Second(lines)) ELSE {}
  IN  lines \ (second \cup Highest(First(lines)))

AfterEOI(n, lines) ==
  LET second == IF n >= 40 THEN Highest(Second(lines)) ELSE {}
  IN  lines \ (second \cup Highest(First(lines)))

-----------------------------------------------------------------------------
Init ==
  /\ main = 1 /\ at = "code" /\ stack = <<>> /\ regs = 0 /\ IF_ = FALSE
  /\ handlers = {} /\ called = None
  /\ isr = {} /\ ready = Lines \cup Spurious
  /\ pressed = 0 /\ faults = 0
  /\ deaf = FALSE
  /\ keys \in 0 .. 1
  /\ irr = (IF keys = 1 THEN {KEYBOARD} ELSE {})

(* Mutant: interrupts are let in before the keyboard's handler is there. *)
Calls_early ==
  <<"initialize_descriptor_tables", "sti", "init_keyboard", "initialise_paging",
    "initialise_timer", "cli", "initialise_tasking", "idle">>

(* what main does that interrupts depend on, in its order *)
Calls ==
  <<"initialize_descriptor_tables", "init_keyboard", "sti", "initialise_paging",
    "initialise_timer", "cli", "initialise_tasking", "idle">>

HasTask == main > 7

(* main's next call.  A request that can be taken is taken first.  Each line
   can be raised again: the devices are slower than the handlers.           *)
Now(call) ==
  /\ at = "code" /\ Calls[main] = call
  /\ IF_ => Pending = {}
  /\ ready' = Lines \cup Spurious
  /\ main' = IF call = "idle" THEN main ELSE main + 1
  /\ UNCHANGED <<at, stack, regs, called, isr, keys, pressed, faults>>

(* ICW1 forgets the requests: a line that is up already is not one again. *)
initialize_descriptor_tables ==
  /\ Now("initialize_descriptor_tables")
  /\ handlers' = {} /\ irr' = {} /\ deaf' = (keys > 0)
  /\ UNCHANGED IF_

Register(call, v) == Now(call) /\ handlers' = handlers \cup {v} /\ UNCHANGED <<IF_, irr, deaf>>
init_keyboard == Register("init_keyboard", 33)
initialise_paging == Register("initialise_paging", 14)
initialise_timer == Register("initialise_timer", 32)

Flag(call, value) == Now(call) /\ IF_' = value /\ UNCHANGED <<handlers, irr, deaf>>
EnableInterrupts == Flag("sti", TRUE)
DisableInterrupts == Flag("cli", FALSE)
initialise_tasking == Flag("initialise_tasking", TRUE)

(* jmp $ *)
Idle == Now("idle") /\ UNCHANGED <<IF_, handlers, irr, deaf>>

-----------------------------------------------------------------------------
(* The devices.  A key pressed while another one waits raises no line. *)
Raise(l) ==
  /\ at \notin Stopped
  /\ l \in ready /\ l # KEYBOARD
  /\ irr' = irr \cup {l} /\ ready' = ready \ {l}
  /\ UNCHANGED <<main, cpu, handlers, called, isr, keys, pressed, deaf, faults>>

Press ==
  /\ at \notin Stopped
  /\ pressed < MaxKeys
  /\ pressed' = pressed + 1 /\ keys' = keys + 1
  /\ irr' = IF keys = 0 THEN irr \cup {KEYBOARD} ELSE irr
  /\ UNCHANGED <<main, cpu, handlers, called, isr, ready, deaf, faults>>

Takes == IF_ /\ at \notin Stopped

(* The processor takes the highest of the requests that nothing blocks. *)
Interrupt ==
  /\ Takes
  /\ \E l \in Pending :
       /\ \A k \in Pending : ~Outranks(k, l)
       /\ irr' = irr \ {l} /\ isr' = isr \cup InService(l)
       /\ Enter(Vector(l))
  /\ UNCHANGED <<main, handlers, called, ready, keys, pressed, deaf, faults>>

(* A request has gone before the processor asks for its vector. *)
Vanish(l) ==
  /\ Takes
  /\ l \in ready /\ ready' = ready \ {l}
  /\ isr' = isr \cup (InService(l) \ {l})
  /\ Enter(Vector(l))
  /\ UNCHANGED <<main, handlers, called, irr, keys, pressed, deaf, faults>>

(* The code of main raises an exception; a page fault once there are pages. *)
Fault(v) ==
  /\ at = "code" /\ main > 1
  /\ faults < MaxFaults
  /\ v = 14 => v \in handlers
  /\ faults' = faults + 1
  /\ Enter(v)
  /\ UNCHANGED <<main, handlers, called, devices>>

-----------------------------------------------------------------------------
(* A dispatcher looks at entry n and calls it unless it is 0; any code it runs
   has values of its own in the registers.                                  *)
Dispatch(n) ==
  /\ IF n \in handlers THEN at' = "handler" /\ called' = n
                       ELSE at' = "restore" /\ called' = None
  /\ regs' = Len(stack)
  /\ UNCHANGED <<main, stack, IF_, handlers, irr, ready, keys, pressed, deaf, faults>>

isr_handler == at = "isr" /\ Dispatch(interruption_number) /\ UNCHANGED isr
isr_error_handler == at = "error" /\ Dispatch(error_code) /\ UNCHANGED isr

(* Mutant: the controllers are told after a handler, not before it. *)
irq_handler_late ==
  /\ at = "irq"
  /\ Dispatch(interruption_number)
  /\ isr' = IF interruption_number \in handlers THEN isr
            ELSE AfterEOI(interruption_number, isr)

irq_handler ==
  /\ at = "irq"
  /\ Dispatch(interruption_number)
  /\ isr' = AfterEOI(interruption_number, isr)

Returns(to) == at' = to /\ UNCHANGED <<main, stack, regs, handlers, called, isr, ready,
                                     pressed, deaf, faults>>

(* One key is taken; if another one waits, the line goes up again. *)
keyboard_press_callback ==
  /\ at = "handler" /\ called = 33
  /\ keys' = IF keys > 0 THEN keys - 1 ELSE 0
  /\ irr' = IF keys > 1 THEN irr \cup {KEYBOARD} ELSE irr
  /\ Returns("restore") /\ UNCHANGED IF_

(* task_switch returns at once when there is no task; the only task is switched
   to itself, which enables interrupts in the middle of the handler.        *)
timer_callback ==
  /\ at = "handler" /\ called = 32
  /\ IF HasTask THEN Returns("return") /\ IF_' = TRUE
              ELSE Returns("restore") /\ UNCHANGED IF_
  /\ UNCHANGED <<irr, keys>>

Return == at = "return" /\ Returns("restore") /\ UNCHANGED <<IF_, irr, keys>>

page_fault ==
  /\ at = "handler" /\ called = 14
  /\ Returns("panic") /\ IF_' = FALSE
  /\ UNCHANGED <<irr, keys>>

Stub == UNCHANGED <<main, handlers, called, devices, faults>>

(* RESTORE_CPU_REGISTERS *)
Restore ==
  /\ at = "restore"
  /\ regs' = Top(0).of /\ Drop(1)
  /\ at' = "drop"
  /\ UNCHANGED IF_ /\ Stub

(* Mutant: only the interrupt number is removed. *)
Cleanup_short ==
  /\ at = "drop"
  /\ Drop(1)
  /\ at' = "iret"
  /\ UNCHANGED <<regs, IF_>> /\ Stub

(* add esp, 8 *)
Cleanup ==
  /\ at = "drop"
  /\ Drop(2)
  /\ at' = "iret"
  /\ UNCHANGED <<regs, IF_>> /\ Stub

(* sti; iret: interrupts wait for the instruction after sti.  A word that is no
   instruction pointer sends the processor nowhere.                         *)
Iret ==
  /\ at = "iret"
  /\ IF Top(0).kind = "frame" THEN at' = Top(0).back /\ IF_' = Top(0).flag /\ Drop(1)
                              ELSE at' = "lost" /\ UNCHANGED <<IF_, stack>>
  /\ UNCHANGED regs /\ Stub

Halt == at \in Stopped /\ UNCHANGED vars

Main ==
  \/ initialize_descriptor_tables \/ init_keyboard \/ EnableInterrupts
  \/ initialise_paging \/ initialise_timer \/ DisableInterrupts
  \/ initialise_tasking \/ Idle
Handler ==
  \/ isr_handler \/ isr_error_handler \/ irq_handler
  \/ keyboard_press_callback \/ timer_callback \/ page_fault
  \/ Return \/ Restore \/ Cleanup \/ Iret
Processor == Main \/ Interrupt \/ Handler

Next ==
  \/ Processor
  \/ Press
  \/ \E l \in Lines : Raise(l)
  \/ \E l \in Spurious : Vanish(l)
  \/ \E v \in Exceptions : Fault(v)
  \/ Halt

Spec == Init /\ [][Next]_vars

(* The processor goes on; nothing is assumed of the devices. *)
FairSpec == Spec /\ WF_vars(Processor)

-----------------------------------------------------------------------------
(* Every variable has its type (isr.c, interrupt.s). *)
TypeOK ==
  /\ main \in 1 .. Len(Calls) /\ at \in Places /\ stack \in Seq(Word)
  /\ regs \in Nat /\ IF_ \in BOOLEAN
  /\ handlers \subseteq {14, 32, 33} /\ called \in handlers \cup {None}
  /\ irr \subseteq Lines /\ isr \subseteq Lines \cup {2}
  /\ ready \subseteq Lines \cup Spurious
  /\ keys \in 0 .. MaxKeys + 1 /\ pressed \in 0 .. MaxKeys
  /\ deaf \in BOOLEAN /\ faults \in 0 .. MaxFaults

(* Wherever interrupts are enabled, the middle of a handler that has switched
   tasks included, the controllers hold no line back: each of them was told,
   and was told as often as it should (isr.c:43-53).                        *)
LinesOpen == IF_ => isr = {}

(* A dispatcher calls the handler of the vector that was raised, wherever the
   stub has put its number, and calls nothing when there is none
   (interrupt.s:33-60, isr.c:15-61).                                        *)
Dispatched ==
  [][at' # at /\ at \in {"isr", "error", "irq"} =>
       called' = (IF Raised \in handlers THEN Raised ELSE None)]_vars

(* "Cleans up the pushed error code and pushed ISR number from ESP stack"
   (interrupt.s:133): when a stub is at iret, what the processor pushed is on
   top, and the registers are those of the code that was interrupted, however
   many interrupts there were in between.                                   *)
ReturnsIntact ==
  at = "iret" => Top(0).kind = "frame" /\ regs = Top(0).saved

(* Unless a key was waiting when the controllers were set up, every key that is
   pressed is read: the order of main leaves no moment at which nobody takes
   the line of a key (kernel.c:32-34, keyboard.c:17-44).                    *)
KeysRead == (main > 1 /\ ~deaf /\ keys > 0) ~> (keys = 0 \/ at \in Stopped)

(* Every request is taken (isr.c:43-53, descriptor_tables.c:100-113). *)
RequestsServed ==
  \A l \in Lines : l \in irr ~> (l \notin irr \/ at \in Stopped)
=============================================================================
