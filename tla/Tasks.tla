------------------------------- MODULE Tasks -------------------------------
(***************************************************************************)
(* Tasks of common/stdlib/task.c: initialise_tasking, fork and task_switch, *)
(* with what drives them: the timer interrupt (common/devices/timer.c), the *)
(* interrupt stub irq_common_stub (common/interrupt.s) and the end-of-      *)
(* interrupt signal of irq_handler (common/isr.c).                         *)
(*                                                                         *)
(* There is one processor.  "at" is where its next instruction is, and     *)
(* "stack" holds, for each task, the calls and interrupts it is inside of. *)
(***************************************************************************)
EXTENDS Integers, Sequences

CONSTANTS
  MaxTasks,      (* bound: tasks ever made                                  *)
  MaxNesting,    (* bound: calls and interrupts that one task is inside of  *)
  Builds         (* the kernels to run, see the variable build              *)

ASSUME TasksAssumption ==
  /\ MaxTasks \in Nat \ {0}
  /\ MaxNesting \in Nat \ {0}
  /\ Builds \subseteq [clone_copies : BOOLEAN, frame_survives : BOOLEAN]

VARIABLES
  build,         (* clone_copies: clone_directory copies the pages of the
                    stack (its comment says so; the code leaves them out);
                    frame_survives: the compiler has not put the operand for
                    ebp in ecx, which the asm of task_switch overwrites first
                    without saying so                                       *)
  next_pid,
  current_task,  (* 0 is a null pointer, a task is named by its id          *)
  ready_queue,
  task,          (* id -> the fields eip, esp and next of the task_t        *)
  stack,         (* id -> its frames, the outermost first                   *)
  at,
  IF_,           (* the interrupt flag of the processor                     *)
  in_service,    (* the timer's interrupt has not been acknowledged yet     *)
  answers        (* history: id -> what fork has returned in that task      *)

vars == <<build, next_pid, current_task, ready_queue, task, stack, at, IF_,
          in_service, answers>>

TaskIds == 1 .. MaxTasks

(* Where the processor can be.  "test" and "switched" are the two places where
   read_eip returns; "nowhere" is address 0; "lost" is running on with a wrong
   frame pointer; "reset" is a fault with no stack to push its frame on.    *)
Places == {"boot", "tasking", "code", "fork", "test", "irq", "switch", "pick",
           "switched", "nowhere", "lost", "reset"}
Stopped == {"nowhere", "lost", "reset"}

(* A frame: where it returns to, and parent_task if it is one of fork. *)
Frame == [back : Places, parent : 0 .. MaxTasks]
NewTask == [eip |-> "nowhere", esp |-> 0, next |-> 0]

(* before there is a task the processor runs on what becomes task 1's stack *)
Running == IF current_task = 0 THEN 1 ELSE current_task
Depth == Len(stack[Running])
Top == stack[Running][Depth]
Push(frame) == stack' = [stack EXCEPT ![Running] = Append(@, frame)]
Pop == stack' = [stack EXCEPT ![Running] = SubSeq(@, 1, Len(@) - 1)]

Init ==
  /\ build \in Builds
  /\ next_pid = 1
  /\ current_task = 0 /\ ready_queue = 0
  /\ task = [t \in TaskIds |-> NewTask]
  /\ stack = [t \in TaskIds |-> <<>>]
  /\ at = "boot"
  /\ IF_ = TRUE
  /\ in_service = FALSE
  /\ answers = [t \in TaskIds |-> <<>>]

-----------------------------------------------------------------------------
(* initialise_tasking: cli; the timer is running already *)
DisableInterrupts ==
  /\ at = "boot"
  /\ at' = "tasking" /\ IF_' = FALSE
  /\ UNCHANGED <<build, next_pid, current_task, ready_queue, task, stack,
                 in_service, answers>>

(* Mutant: the queue starts at the number that comes next. *)
initialise_tasking_late ==
  /\ at = "tasking"
  /\ current_task' = next_pid /\ ready_queue' = next_pid + 1
  /\ task' = [task EXCEPT ![next_pid] = NewTask]
  /\ next_pid' = next_pid + 1
  /\ at' = "code" /\ IF_' = TRUE
  /\ UNCHANGED <<build, stack, in_service, answers>>

(* the first task; sti *)
initialise_tasking ==
  /\ at = "tasking"
  /\ current_task' = next_pid /\ ready_queue' = next_pid
  /\ task' = [task EXCEPT ![next_pid] = NewTask]
  /\ next_pid' = next_pid + 1
  /\ at' = "code" /\ IF_' = TRUE
  /\ UNCHANGED <<build, stack, in_service, answers>>

(* Mutant: interrupts stay enabled in fork. *)
Fork_interruptible ==
  /\ at = "code"
  /\ next_pid <= MaxTasks /\ Depth < MaxNesting
  /\ Push([back |-> "code", parent |-> current_task])
  /\ at' = "fork"
  /\ UNCHANGED <<build, next_pid, current_task, ready_queue, task, IF_, in_service, answers>>

(* fork: cli *)
Fork ==
  /\ at = "code"
  /\ next_pid <= MaxTasks /\ Depth < MaxNesting
  /\ Push([back |-> "code", parent |-> current_task])
  /\ at' = "fork" /\ IF_' = FALSE
  /\ UNCHANGED <<build, next_pid, current_task, ready_queue, task, in_service, answers>>

(* The end of the list that starts at ready_queue *)
LastTask == CHOOSE t \in 1 .. next_pid - 1 : task[t].next = 0

(* Mutant: the new task comes second in the queue. *)
ForkLink_second ==
  /\ at = "fork"
  /\ next_pid <= MaxTasks
  /\ task' = [task EXCEPT ![1].next = next_pid,
                          ![next_pid] = [NewTask EXCEPT !.next = task[1].next]]
  /\ stack' = [stack EXCEPT ![next_pid] = stack[current_task]]
  /\ next_pid' = next_pid + 1
  /\ at' = "test"
  /\ UNCHANGED <<build, current_task, ready_queue, IF_, in_service, answers>>

(* fork: the address space is cloned, the new task is linked at the end of the
   queue, before it has a context to run with                               *)
ForkLink ==
  /\ at = "fork"
  /\ next_pid <= MaxTasks
  /\ task' = [task EXCEPT ![LastTask].next = next_pid, ![next_pid] = NewTask]
  /\ stack' = [stack EXCEPT ![next_pid] = stack[current_task]]
  /\ next_pid' = next_pid + 1
  /\ at' = "test"
  /\ UNCHANGED <<build, current_task, ready_queue, IF_, in_service, answers>>

(* Mutant: the number of the new task is read after it was advanced. *)
ForkParent_next ==
  /\ at = "test"
  /\ Depth > 0
  /\ current_task = Top.parent
  /\ task' = [task EXCEPT ![next_pid - 1].eip = "test", ![next_pid - 1].esp = Depth]
  /\ answers' = [answers EXCEPT ![current_task] = Append(@, next_pid)]
  /\ Pop /\ at' = Top.back
  /\ IF_' = TRUE
  /\ UNCHANGED <<build, next_pid, current_task, ready_queue, in_service>>

(* fork, after read_eip, in the task that called it *)
ForkParent ==
  /\ at = "test"
  /\ Depth > 0
  /\ current_task = Top.parent
  /\ task' = [task EXCEPT ![next_pid - 1].eip = "test", ![next_pid - 1].esp = Depth]
  /\ answers' = [answers EXCEPT ![current_task] = Append(@, next_pid - 1)]
  /\ Pop /\ at' = Top.back
  /\ IF_' = TRUE
  /\ UNCHANGED <<build, next_pid, current_task, ready_queue, in_service>>

(* fork, after read_eip, in the task that was made *)
ForkChild ==
  /\ at = "test"
  /\ Depth > 0
  /\ current_task # Top.parent
  /\ answers' = [answers EXCEPT ![current_task] = Append(@, 0)]
  /\ Pop /\ at' = Top.back
  /\ UNCHANGED <<build, next_pid, current_task, ready_queue, task, IF_, in_service>>

-----------------------------------------------------------------------------
(* The timer interrupts, through an interrupt gate.  The period of the timer
   bounds how deep interrupts nest.                                         *)
Tick ==
  /\ IF_ /\ ~in_service
  /\ at \notin Stopped
  /\ Depth < MaxNesting
  /\ Push([back |-> at, parent |-> 0])
  /\ at' = "irq" /\ IF_' = FALSE /\ in_service' = TRUE
  /\ UNCHANGED <<build, next_pid, current_task, ready_queue, task, answers>>

(* Mutant: the interrupt is acknowledged after the handler, which a task that
   starts in fork never comes back to.                                      *)
EndOfInterrupt_never ==
  /\ at = "irq"
  /\ at' = "switch"
  /\ UNCHANGED <<build, next_pid, current_task, ready_queue, task, stack, IF_,
                 in_service, answers>>

(* irq_handler acknowledges the interrupt, then calls timer_callback *)
EndOfInterrupt ==
  /\ at = "irq"
  /\ in_service' = FALSE
  /\ at' = "switch"
  /\ UNCHANGED <<build, next_pid, current_task, ready_queue, task, stack, IF_, answers>>

(* task_switch: no task yet *)
SwitchNone ==
  /\ at = "switch"
  /\ current_task = 0
  /\ at' = "switched"
  /\ UNCHANGED <<build, next_pid, current_task, ready_queue, task, stack, IF_,
                 in_service, answers>>

(* Mutant: only the instruction pointer is saved. *)
SwitchSave_eip ==
  /\ at = "switch"
  /\ current_task # 0
  /\ task' = [task EXCEPT ![current_task].eip = "switched"]
  /\ at' = "pick"
  /\ UNCHANGED <<build, next_pid, current_task, ready_queue, stack, IF_, in_service, answers>>

(* task_switch: the context of the current task is saved *)
SwitchSave ==
  /\ at = "switch"
  /\ current_task # 0
  /\ task' = [task EXCEPT ![current_task].eip = "switched", ![current_task].esp = Depth]
  /\ at' = "pick"
  /\ UNCHANGED <<build, next_pid, current_task, ready_queue, stack, IF_, in_service, answers>>

Following == IF task[current_task].next = 0 THEN ready_queue ELSE task[current_task].next

(* A task made by fork runs on pages that clone_directory was to copy. *)
HasStack(t) == t = 1 \/ build.clone_copies

Resumed(t) ==
  IF ~build.frame_survives THEN "lost"
  ELSE IF ~HasStack(t) THEN "reset"
  ELSE task[t].eip

(* task_switch: the next task's context is loaded; sti; jmp *)
SwitchJump ==
  /\ at = "pick"
  /\ current_task' = Following
  /\ stack' = [stack EXCEPT ![Following] = SubSeq(@, 1, task[Following].esp)]
  /\ at' = Resumed(Following)
  /\ IF_' = TRUE
  /\ UNCHANGED <<build, next_pid, ready_queue, task, in_service, answers>>

(* task_switch finds 0x12345 and returns, up to the iret of the stub, which
   restores the flags of the code that was interrupted                      *)
InterruptReturn ==
  /\ at = "switched"
  /\ Depth > 0
  /\ Pop /\ at' = Top.back
  /\ IF_' = TRUE
  /\ UNCHANGED <<build, next_pid, current_task, ready_queue, task, in_service, answers>>

Halt == at \in Stopped /\ UNCHANGED vars

Next ==
  \/ DisableInterrupts \/ initialise_tasking
  \/ Fork \/ ForkLink \/ ForkParent \/ ForkChild
  \/ Tick \/ EndOfInterrupt \/ SwitchNone \/ SwitchSave \/ SwitchJump
  \/ InterruptReturn
  \/ Halt

Spec == Init /\ [][Next]_vars

(* The processor goes on with the code it is in, and the timer keeps ticking
   whenever it may; nothing makes a task call fork.                         *)
FairSpec ==
  /\ Spec
  /\ WF_vars(DisableInterrupts) /\ WF_vars(initialise_tasking)
  /\ WF_vars(ForkLink) /\ WF_vars(ForkParent) /\ WF_vars(ForkChild)
  /\ WF_vars(EndOfInterrupt) /\ WF_vars(SwitchNone) /\ WF_vars(SwitchSave)
  /\ WF_vars(SwitchJump) /\ WF_vars(InterruptReturn)
  /\ WF_vars(Tick)

-----------------------------------------------------------------------------
Linked == 1 .. next_pid - 1

(* Every variable has its type (task.c). *)
TypeOK ==
  /\ build \in [clone_copies : BOOLEAN, frame_survives : BOOLEAN]
  /\ next_pid \in 1 .. MaxTasks + 1
  /\ current_task \in 0 .. next_pid - 1
  /\ ready_queue \in 0 .. 1
  /\ task \in [TaskIds -> [eip : Places, esp : Nat, next : 0 .. MaxTasks]]
  /\ stack \in [TaskIds -> Seq(Frame)]
  /\ at \in Places
  /\ IF_ \in BOOLEAN
  /\ in_service \in BOOLEAN
  /\ answers \in [TaskIds -> Seq(0 .. MaxTasks)]

(* task_switch never resumes a task that fork has linked in the ready queue but
   not given a context yet, wherever a timer interrupt falls
   (task.c:91-111, 123-162).                                                *)
ContextDefined == at # "nowhere"

(* A task that is not running has its whole stack below its saved stack
   pointer, and on top of it the frame that the saved instruction pointer
   returns through: an interrupt's, or that of the fork that made it
   (task.c:107-111, 129-151).                                               *)
ContextIntact ==
  \A t \in Linked \ {Running} :
    (at = "test" /\ ~IF_ => t # next_pid - 1) =>
      /\ task[t].esp = Len(stack[t]) /\ task[t].esp > 0
      /\ LET top == stack[t][task[t].esp]
         IN  IF task[t].eip = "switched" THEN top.parent = 0
             ELSE task[t].eip = "test" /\ top.parent \in 1 .. t - 1

(* fork returns once in each of its two tasks: the number of the new task in
   the one that called it, 0 in the new one before anything else
   (task.c:103-118).                                                        *)
ForkAnswers ==
  /\ \A t \in TaskIds : \A k \in 1 .. Len(answers[t]) :
       /\ answers[t][k] = 0 <=> (k = 1 /\ t # 1)
       /\ answers[t][k] < next_pid
  /\ \A t, u \in TaskIds : \A j \in 1 .. Len(answers[t]), k \in 1 .. Len(answers[u]) :
       answers[t][j] # 0 /\ answers[t][j] = answers[u][k] => t = u /\ j = k

(* The tasks take turns in the order of their numbers (task.c:98-101, 144-145). *)
Turns == INSTANCE RoundRobin WITH tasks <- next_pid - 1, turn <- current_task
InTurns == Turns!Spec

(* Where the address space is copied and the frame pointer survives, every task
   runs again and again, however many others there are: a switch never leaves
   the timer unacknowledged or interrupts disabled (isr.c:43-60,
   task.c:123-162, interrupt.s:112-135).                                    *)
EachTaskRuns ==
  (build.clone_copies /\ build.frame_survives) =>
    \A t \in TaskIds : [](t < next_pid => <>(current_task = t))
=============================================================================
