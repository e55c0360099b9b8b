---------------------------- MODULE TasksProofs ----------------------------
(***************************************************************************)
(* Proofs about Tasks, for any number of tasks, any depth of nesting and    *)
(* every build: no interrupt makes task_switch resume a task without a      *)
(* context, contexts stay intact, and the scheduler implements RoundRobin.  *)
(*                                                                         *)
(* The properties of the runs depend on what is on the stacks, so the       *)
(* inductive invariant describes them: the code that an interrupt returns   *)
(* to is the code that the frame below belongs to.                          *)
(***************************************************************************)
EXTENDS Tasks, SequenceTheorems, TLAPS

(* The code that runs when no call and no interrupt is under way. *)
Base == IF current_task = 0 THEN "boot" ELSE "code"

(* The tasks that have a stack; before initialise_tasking, the first one has. *)
Made == IF current_task = 0 THEN {1} ELSE Linked

(* Inside fork with interrupts disabled, where the new task has no context *)
InFork == at = "fork" \/ (at = "test" /\ ~IF_)

(* Only the outermost frame can be one of fork: an interrupt comes in the code
   below, on return from an interrupt, or where a new task starts.          *)
WellFormed(st) ==
  \A i \in 1 .. Len(st) :
    IF i = 1 THEN st[i].back = Base
    ELSE st[i].parent = 0 /\ st[i].back = (IF st[i - 1].parent = 0 THEN "switched" ELSE "test")

Queue ==
  /\ current_task = 0 <=> next_pid = 1
  /\ ready_queue = (IF next_pid = 1 THEN 0 ELSE 1)
  /\ \A t \in Linked : task[t].next = (IF t + 1 < next_pid THEN t + 1 ELSE 0)

Masked == at \in {"tasking", "fork", "irq", "switch", "pick"} => ~IF_

Stacks == \A t \in Made : WellFormed(stack[t])

(* What is on the running stack, and in the task, at each place *)
Position ==
  /\ at \in {"boot", "tasking"} => Depth = 0 /\ current_task = 0
  /\ at = "code" => Depth = 0 /\ current_task # 0
  /\ at \in {"fork", "test"} => Depth = 1 /\ Top.parent # 0 /\ current_task # 0
  /\ at \in {"irq", "switch", "pick", "switched"} => Depth > 0 /\ Top.parent = 0
  /\ at = "pick" => /\ current_task # 0
                    /\ task[current_task].eip = "switched"
                    /\ task[current_task].esp = Depth

(* Who called the fork that a stack is inside of *)
Parents ==
  /\ InFork => Top.parent = current_task
  /\ at = "test" /\ ~IF_ => /\ current_task < next_pid - 1
                            /\ stack[next_pid - 1] = stack[current_task]
  /\ \A t \in Made : Len(stack[t]) > 0 /\ stack[t][1].parent # 0 =>
       stack[t][1].parent \in 1 .. t - 1 \/ (t = Running /\ InFork)

(* A task that fork has made and not returned in yet *)
Waiting(st, t) == Len(st[t]) > 0 /\ st[t][1].parent \notin {0, t}

(* Between the link of the new task and the return in the one that called fork,
   nobody knows the new number.                                             *)
Unnamed == at = "test" /\ ~IF_

(* Which tasks have had an answer, and how large it can be *)
Answered ==
  /\ \A t \in TaskIds \ Linked : Len(answers[t]) = 0
  /\ \A t \in Linked \ {1} : Waiting(stack, t) <=> Len(answers[t]) = 0
  /\ \A t \in TaskIds : \A k \in 1 .. Len(answers[t]) :
       answers[t][k] < (IF Unnamed THEN next_pid - 1 ELSE next_pid)

Inv ==
  /\ TypeOK
  /\ Queue
  /\ Masked
  /\ Stacks
  /\ Position
  /\ Parents
  /\ ContextDefined
  /\ ContextIntact

-----------------------------------------------------------------------------
(* Sequences *)
LEMMA Popped ==
  ASSUME NEW st \in Seq(Frame), Len(st) > 0
  PROVE  /\ SubSeq(st, 1, Len(st) - 1) \in Seq(Frame)
         /\ Len(SubSeq(st, 1, Len(st) - 1)) = Len(st) - 1
         /\ \A i \in 1 .. Len(st) - 1 : SubSeq(st, 1, Len(st) - 1)[i] = st[i]
<1> DEFINE n == Len(st) - 1
<1>1. n \in Int /\ n >= 0 /\ \A i \in 1 .. n : st[i] \in Frame
  OBVIOUS
<1>2. /\ SubSeq(st, 1, n) \in Seq(Frame)
      /\ Len(SubSeq(st, 1, n)) = IF 1 <= n THEN n - 1 + 1 ELSE 0
      /\ \A i \in 1 .. n - 1 + 1 : SubSeq(st, 1, n)[i] = st[1 + i - 1]
  <2> HIDE DEF n
  <2> QED
    BY <1>1, SubSeqProperties
<1>3. n - 1 + 1 = n /\ \A i \in 1 .. n : 1 + i - 1 = i
  BY <1>1
<1>4. Len(SubSeq(st, 1, n)) = n /\ \A i \in 1 .. n : SubSeq(st, 1, n)[i] = st[i]
  <2> HIDE DEF n
  <2> QED
    BY <1>1, <1>2, <1>3
<1> QED
  BY <1>2, <1>4

LEMMA Pushed ==
  ASSUME NEW st \in Seq(Frame), NEW f \in Frame
  PROVE  /\ Append(st, f) \in Seq(Frame)
         /\ Len(Append(st, f)) = Len(st) + 1
         /\ \A i \in 1 .. Len(st) : Append(st, f)[i] = st[i]
         /\ Append(st, f)[Len(st) + 1] = f
BY AppendProperties

LEMMA Whole ==
  ASSUME NEW st \in Seq(Frame)
  PROVE  SubSeq(st, 1, Len(st)) = st
BY SubSeqFull

(* A frame of fork that is on top of a stack is alone on it. *)
LEMMA ForkFrameAlone ==
  ASSUME NEW st \in Seq(Frame), WellFormed(st), Len(st) > 0, st[Len(st)].parent # 0
  PROVE  Len(st) = 1
<1>1. Len(st) \in Nat /\ Len(st) \in 1 .. Len(st)
  OBVIOUS
<1> QED
  BY <1>1 DEF WellFormed

-----------------------------------------------------------------------------
(* What the steps below use of the invariant *)
LEMMA ForkedBy ==
  ASSUME Inv, NEW t \in Made, Len(stack[t]) > 0, stack[t][1].parent # 0, ~InFork
  PROVE  stack[t][1].parent \in 1 .. t - 1
BY Zenon DEF Inv, Parents

LEMMA Facts ==
  ASSUME Inv
  PROVE  /\ MaxTasks \in Nat /\ next_pid \in 1 .. MaxTasks + 1
         /\ current_task \in 0 .. next_pid - 1
         /\ task \in [TaskIds -> [eip : Places, esp : Nat, next : 0 .. MaxTasks]]
         /\ stack \in [TaskIds -> Seq(Frame)]
         /\ Running \in Made /\ Made \subseteq TaskIds /\ Running \in TaskIds
         /\ stack[Running] \in Seq(Frame) /\ Depth \in Nat
         /\ Linked \subseteq TaskIds /\ Linked \subseteq Made
         /\ WellFormed(stack[Running])
         /\ Depth > 0 => Top \in Frame
<1>1. /\ MaxTasks \in Nat \ {0} /\ next_pid \in 1 .. MaxTasks + 1
      /\ current_task \in 0 .. next_pid - 1
      /\ task \in [TaskIds -> [eip : Places, esp : Nat, next : 0 .. MaxTasks]]
      /\ stack \in [TaskIds -> Seq(Frame)]
      /\ current_task = 0 <=> next_pid = 1
  BY TasksAssumption DEF Inv, TypeOK, Queue
<1>2. /\ Running \in Made /\ Made \subseteq TaskIds /\ Running \in TaskIds
      /\ Linked \subseteq TaskIds /\ Linked \subseteq Made
  BY <1>1 DEF Running, Made, Linked, TaskIds
<1>3. stack[Running] \in Seq(Frame) /\ Depth \in Nat
  BY <1>1, <1>2 DEF Depth
<1>4. Depth > 0 => Top \in Frame
  BY <1>3 DEF Top, Depth
<1> QED
  BY <1>1, <1>2, <1>3, <1>4 DEF Inv, Stacks

LEMMA InvInit == Init => Inv
<1> SUFFICES ASSUME Init PROVE Inv
  OBVIOUS
<1>1. TypeOK
  <2>1. /\ build \in [clone_copies : BOOLEAN, frame_survives : BOOLEAN]
        /\ IF_ \in BOOLEAN /\ in_service \in BOOLEAN
    BY TasksAssumption DEF Init
  <2>2. next_pid \in 1 .. MaxTasks + 1 /\ current_task \in 0 .. next_pid - 1 /\ ready_queue \in 0 .. 1
    BY TasksAssumption DEF Init
  <2>3. NewTask \in [eip : Places, esp : Nat, next : 0 .. MaxTasks]
    BY TasksAssumption DEF NewTask, Places
  <2>4. /\ task \in [TaskIds -> [eip : Places, esp : Nat, next : 0 .. MaxTasks]]
        /\ at \in Places
    BY <2>3 DEF Init, Places
  <2>5. /\ stack \in [TaskIds -> Seq(Frame)]
        /\ answers \in [TaskIds -> Seq(0 .. MaxTasks)]
    BY DEF Init
  <2> QED
    BY <2>1, <2>2, <2>4, <2>5 DEF TypeOK
<1>2. Running = 1 /\ Made = {1} /\ 1 \in TaskIds /\ stack[1] = <<>> /\ Depth = 0
  BY TasksAssumption DEF Init, Running, Made, TaskIds, Depth
<1>3. Queue /\ Masked /\ ContextDefined
  BY DEF Init, Queue, Masked, ContextDefined, Linked
<1>4. Stacks
  BY <1>2 DEF Stacks, WellFormed
<1>5. Position /\ Parents
  BY <1>2 DEF Init, Position, Parents, InFork
<1>6. ContextIntact
  BY DEF Init, ContextIntact, Linked
<1> QED
  BY <1>1, <1>3, <1>4, <1>5, <1>6 DEF Inv

-----------------------------------------------------------------------------
StackType == [TaskIds -> Seq(Frame)]

(* What a call and an interrupt do to the running stack, the frame fitting *)
LEMMA PushEffect ==
  ASSUME Inv, NEW f \in Frame, Push(f), UNCHANGED <<next_pid, current_task>>,
         Depth = 0 => f.back = Base,
         Depth > 0 => f.parent = 0 /\ f.back = (IF Top.parent = 0 THEN "switched" ELSE "test")
  PROVE  /\ stack' \in StackType
         /\ Running' = Running /\ Made' = Made /\ Linked' = Linked /\ Base' = Base
         /\ Depth' = Depth + 1 /\ Top' = f
         /\ \A t \in Made : t # Running => stack'[t] = stack[t]
         /\ stack'[Running][1] = (IF Depth = 0 THEN f ELSE stack[Running][1])
         /\ Len(stack'[Running]) = Depth + 1
         /\ Stacks'
<1>0. /\ stack \in StackType /\ Running \in TaskIds /\ Made \subseteq TaskIds /\ Running \in Made
      /\ stack[Running] \in Seq(Frame) /\ Depth = Len(stack[Running]) /\ Depth \in Nat
      /\ WellFormed(stack[Running])
  BY Facts DEF StackType, Depth
<1>1. Running' = Running /\ Made' = Made /\ Linked' = Linked /\ Base' = Base
  BY DEF Running, Made, Linked, Base
<1>2. stack' = [stack EXCEPT ![Running] = Append(stack[Running], f)]
  BY DEF Push
<1>3. /\ Append(stack[Running], f) \in Seq(Frame)
      /\ Len(Append(stack[Running], f)) = Depth + 1
      /\ \A i \in 1 .. Depth : Append(stack[Running], f)[i] = stack[Running][i]
      /\ Append(stack[Running], f)[Depth + 1] = f
  BY <1>0, Pushed
<1>4. /\ stack'[Running] = Append(stack[Running], f)
      /\ \A t \in TaskIds : t # Running => stack'[t] = stack[t]
      /\ stack' \in StackType
  BY <1>0, <1>2, <1>3 DEF StackType
<1>5. Depth' = Depth + 1 /\ Top' = f
  BY <1>1, <1>3, <1>4 DEF Depth, Top
<1>6. Stacks'
  <2> SUFFICES ASSUME NEW t \in Made, NEW i \in 1 .. Len(stack'[t])
               PROVE  IF i = 1 THEN stack'[t][i].back = Base
                      ELSE /\ stack'[t][i].parent = 0
                           /\ stack'[t][i].back =
                                (IF stack'[t][i - 1].parent = 0 THEN "switched" ELSE "test")
    BY <1>1 DEF Stacks, WellFormed
  <2>1. CASE t # Running
    BY <1>0, <1>4, <2>1 DEF Inv, Stacks, WellFormed
  <2>2. CASE t = Running /\ i <= Depth
    <3>1. i \in 1 .. Len(stack[Running]) /\ (i # 1 => i - 1 \in 1 .. Depth)
      BY <1>0, <1>3, <1>4, <2>2
    <3>2. stack'[t][i] = stack[Running][i] /\ (i # 1 => stack'[t][i - 1] = stack[Running][i - 1])
      BY <1>0, <1>3, <1>4, <2>2, <3>1
    <3> QED
      BY <1>0, <3>1, <3>2 DEF WellFormed
  <2>3. CASE t = Running /\ i = Depth + 1
    BY <1>0, <1>3, <1>4, <2>3 DEF Top
  <2> QED
    BY <1>0, <1>3, <1>4, <2>1, <2>2, <2>3
<1> QED
  BY <1>0, <1>1, <1>3, <1>4, <1>5, <1>6

(* What a return does to the running stack *)
LEMMA PopEffect ==
  ASSUME Inv, Pop, Depth > 0, UNCHANGED <<next_pid, current_task>>
  PROVE  /\ stack' \in StackType
         /\ Running' = Running /\ Made' = Made /\ Linked' = Linked /\ Base' = Base
         /\ Depth' = Depth - 1
         /\ \A t \in Made : t # Running => stack'[t] = stack[t]
         /\ Depth > 1 => /\ stack'[Running][1] = stack[Running][1]
                         /\ Top' = stack[Running][Depth - 1]
         /\ Len(stack'[Running]) = Depth - 1
         /\ Stacks'
<1>0. /\ stack \in StackType /\ Running \in TaskIds /\ Made \subseteq TaskIds /\ Running \in Made
      /\ stack[Running] \in Seq(Frame) /\ Depth = Len(stack[Running]) /\ Depth \in Nat
      /\ WellFormed(stack[Running])
  BY Facts DEF StackType, Depth
<1> DEFINE p == SubSeq(stack[Running], 1, Len(stack[Running]) - 1)
<1>1. Running' = Running /\ Made' = Made /\ Linked' = Linked /\ Base' = Base
  BY DEF Running, Made, Linked, Base
<1>2. stack' = [stack EXCEPT ![Running] = p]
  BY DEF Pop
<1>3. /\ p \in Seq(Frame) /\ Len(p) = Depth - 1
      /\ \A i \in 1 .. Depth - 1 : p[i] = stack[Running][i]
  BY <1>0, Popped
<1> HIDE DEF p
<1>4. /\ stack'[Running] = p
      /\ \A t \in TaskIds : t # Running => stack'[t] = stack[t]
      /\ stack' \in StackType
  BY <1>0, <1>2, <1>3 DEF StackType
<1>5. Depth' = Depth - 1 /\ (Depth > 1 => Top' = stack[Running][Depth - 1])
  BY <1>0, <1>1, <1>3, <1>4 DEF Depth, Top
<1>6. Stacks'
  <2> SUFFICES ASSUME NEW t \in Made, NEW i \in 1 .. Len(stack'[t])
               PROVE  IF i = 1 THEN stack'[t][i].back = Base
                      ELSE /\ stack'[t][i].parent = 0
                           /\ stack'[t][i].back =
                                (IF stack'[t][i - 1].parent = 0 THEN "switched" ELSE "test")
    BY <1>1 DEF Stacks, WellFormed
  <2>1. CASE t # Running
    BY <1>0, <1>4, <2>1 DEF Inv, Stacks, WellFormed
  <2>2. CASE t = Running
    <3>1. i \in 1 .. Len(stack[Running]) /\ i \in 1 .. Depth - 1 /\ (i # 1 => i - 1 \in 1 .. Depth - 1)
      BY <1>0, <1>3, <1>4, <2>2
    <3> QED
      BY <1>0, <1>3, <1>4, <2>2, <3>1 DEF WellFormed
  <2> QED
    BY <2>1, <2>2
<1>7. Depth > 1 => stack'[Running][1] = stack[Running][1]
  BY <1>0, <1>3, <1>4
<1> QED
  BY <1>0, <1>1, <1>3, <1>4, <1>5, <1>6, <1>7

(* initialise_tasking, from cli to sti *)
LEMMA StartStep ==
  ASSUME Inv, DisableInterrupts \/ initialise_tasking
  PROVE  Inv'
<1>0. /\ next_pid = 1 /\ current_task = 0 /\ Running = 1 /\ Depth = 0
      /\ Made = {1} /\ 1 \in TaskIds /\ MaxTasks \in Nat \ {0}
      /\ stack[1] \in Seq(Frame) /\ Len(stack[1]) = 0
  BY Facts, TasksAssumption
  DEF Inv, Queue, Position, DisableInterrupts, initialise_tasking, Running, Depth, Made, TaskIds
<1>1. CASE DisableInterrupts
  <2>1. UNCHANGED <<next_pid, current_task, ready_queue, task, stack>> /\ at' = "tasking" /\ ~IF_'
    BY <1>1 DEF DisableInterrupts
  <2>2. TypeOK'
    BY <1>1 DEF DisableInterrupts, Inv, TypeOK, Places
  <2> QED
    BY <1>0, <2>1, <2>2
    DEF Inv, Queue, Masked, Stacks, Position, Parents, ContextDefined, ContextIntact,
        Made, Base, Linked, Running, Depth, Top, InFork, WellFormed
<1>2. CASE initialise_tasking
  <2>1. /\ next_pid' = 2 /\ current_task' = 1 /\ ready_queue' = 1
        /\ task' = [task EXCEPT ![1] = NewTask]
        /\ at' = "code" /\ IF_' = TRUE
        /\ stack' = stack /\ UNCHANGED <<build, in_service, answers>>
    BY <1>0, <1>2 DEF initialise_tasking
  <2>2. /\ NewTask \in [eip : Places, esp : Nat, next : 0 .. MaxTasks] /\ NewTask.next = 0
    BY <1>0 DEF NewTask, Places
  <2>3. /\ task' \in [TaskIds -> [eip : Places, esp : Nat, next : 0 .. MaxTasks]]
        /\ task'[1].next = 0
    BY <1>0, <2>1, <2>2, Facts
  <2>4. TypeOK'
    <3>1. next_pid' \in 1 .. MaxTasks + 1 /\ current_task' \in 0 .. next_pid' - 1 /\ ready_queue' \in 0 .. 1
      BY <1>0, <2>1
    <3>2. at' \in Places /\ IF_' \in BOOLEAN
      BY <2>1 DEF Places
    <3> QED
      BY <2>1, <2>3, <3>1, <3>2 DEF Inv, TypeOK
  <2>5. Linked' = {1} /\ Made' = {1} /\ Running' = 1 /\ Depth' = 0 /\ Len(stack'[1]) = 0
    BY <1>0, <2>1 DEF Linked, Made, Running, Depth
  <2>6. Queue'
    BY <2>1, <2>3, <2>5 DEF Queue
  <2>7. Masked' /\ ContextDefined' /\ Position'
    BY <2>1, <2>5 DEF Masked, ContextDefined, Position
  <2>8. Stacks' /\ ContextIntact'
    BY <2>5 DEF Stacks, WellFormed, ContextIntact
  <2>9. Parents'
    BY <2>1, <2>5 DEF Parents, InFork
  <2> QED
    BY <2>4, <2>6, <2>7, <2>8, <2>9 DEF Inv
<1> QED
  BY <1>1, <1>2

(* fork up to the clone of the address space: interrupts are disabled *)
LEMMA ForkStep ==
  ASSUME Inv, Fork
  PROVE  Inv'
<1> DEFINE f == [back |-> "code", parent |-> current_task]
<1>0. /\ Depth = 0 /\ current_task # 0 /\ Base = "code" /\ Running = current_task
      /\ at = "code" /\ at' = "fork" /\ ~IF_' /\ IF_' = FALSE /\ Push(f)
      /\ UNCHANGED <<build, next_pid, current_task, ready_queue, task, in_service, answers>>
  BY DEF Inv, Position, Fork, Base, Running
<1>1. f \in Frame /\ f.back = "code" /\ f.parent = current_task
  BY Facts DEF Frame, Places
<1> HIDE DEF f
<1>2. /\ stack' \in StackType
      /\ Running' = Running /\ Made' = Made /\ Linked' = Linked /\ Base' = Base
      /\ Depth' = Depth + 1 /\ Top' = f
      /\ \A t \in Made : t # Running => stack'[t] = stack[t]
      /\ stack'[Running][1] = f
      /\ Stacks'
  BY <1>0, <1>1, PushEffect
<1>3. TypeOK'
  BY <1>0, <1>2 DEF Inv, TypeOK, StackType, Places
<1>4. Queue' /\ Masked' /\ ContextDefined'
  BY <1>0, <1>2 DEF Inv, Queue, Masked, ContextDefined
<1>5. Position'
  BY <1>0, <1>1, <1>2 DEF Position
<1>6. Parents'
  BY <1>0, <1>1, <1>2 DEF Inv, Parents, InFork
<1>7. ContextIntact'
  BY <1>0, <1>2, Facts DEF Inv, ContextIntact
<1> QED
  BY <1>2, <1>3, <1>4, <1>5, <1>6, <1>7 DEF Inv

(* a timer interrupt, wherever interrupts are enabled *)
LEMMA TickStep ==
  ASSUME Inv, Tick
  PROVE  Inv'
<1> DEFINE f == [back |-> at, parent |-> 0]
<1>0. /\ IF_ /\ at \notin Stopped /\ at \in Places
      /\ at' = "irq" /\ ~IF_' /\ IF_' = FALSE /\ in_service' = TRUE /\ Push(f)
      /\ UNCHANGED <<build, next_pid, current_task, ready_queue, task, answers>>
  BY DEF Inv, TypeOK, Tick
<1>1. f \in Frame /\ f.back = at /\ f.parent = 0
  BY <1>0, Facts DEF Frame
<1>2. at \in {"boot", "code", "test", "switched"} /\ ~InFork
  BY <1>0 DEF Inv, Masked, Stopped, Places, InFork
<1>3. /\ Depth = 0 => at = Base
      /\ Depth > 0 => at = (IF Top.parent = 0 THEN "switched" ELSE "test")
  BY <1>2, Facts DEF Inv, Position, Base
<1> HIDE DEF f
<1>4. /\ stack' \in StackType
      /\ Running' = Running /\ Made' = Made /\ Linked' = Linked /\ Base' = Base
      /\ Depth' = Depth + 1 /\ Top' = f
      /\ \A t \in Made : t # Running => stack'[t] = stack[t]
      /\ stack'[Running][1] = (IF Depth = 0 THEN f ELSE stack[Running][1])
      /\ Stacks'
  BY <1>0, <1>1, <1>3, PushEffect
<1>5. TypeOK'
  BY <1>0, <1>4 DEF Inv, TypeOK, StackType, Places
<1>6. Queue' /\ Masked' /\ ContextDefined'
  BY <1>0, <1>4 DEF Inv, Queue, Masked, ContextDefined
<1>7. Position'
  BY <1>0, <1>1, <1>4, Facts DEF Position
<1>8. Parents'
  <2>1. ~InFork' /\ ~(at' = "test")
    BY <1>0 DEF InFork
  <2>2. \A t \in Made' : Len(stack'[t]) > 0 /\ stack'[t][1].parent # 0 =>
          stack'[t][1].parent \in 1 .. t - 1
    <3> SUFFICES ASSUME NEW t \in Made, Len(stack'[t]) > 0, stack'[t][1].parent # 0
                 PROVE  stack'[t][1].parent \in 1 .. t - 1
      BY <1>4
    <3>1. CASE t # Running
      BY <1>2, <1>4, <3>1 DEF Inv, Parents
    <3>2. CASE t = Running /\ Depth # 0
      <4>1. stack'[t][1] = stack[t][1]
        BY <1>4, <3>2
      <4>2. Len(stack[t]) > 0
        BY <3>2, Facts DEF Depth
      <4> QED
        BY <1>2, <4>1, <4>2, ForkedBy
    <3>3. CASE t = Running /\ Depth = 0
      BY <1>1, <1>4, <3>3
    <3> QED
      BY <3>1, <3>2, <3>3
  <2> QED
    BY <2>1, <2>2 DEF Parents
<1>9. ContextIntact'
  BY <1>0, <1>2, <1>4, Facts DEF Inv, ContextIntact, InFork
<1> QED
  BY <1>4, <1>5, <1>6, <1>7, <1>8, <1>9 DEF Inv

(* the steps of an interrupt that change no stack: the acknowledgement, the
   return of task_switch before there is a task, the saving of the context  *)
LEMMA InterruptStep ==
  ASSUME Inv, EndOfInterrupt \/ SwitchNone
  PROVE  Inv'
<1>0. /\ UNCHANGED <<build, next_pid, current_task, ready_queue, task, stack, IF_, answers>>
      /\ at \in {"irq", "switch"} /\ at' \in {"switch", "switched"} /\ at' \in Places
      /\ at' \notin {"fork", "test", "nowhere", "pick"} /\ ~IF_
  BY DEF EndOfInterrupt, SwitchNone, Inv, Masked, Places
<1>1. TypeOK'
  BY <1>0 DEF Inv, TypeOK, EndOfInterrupt, SwitchNone
<1> QED
  BY <1>0, <1>1
  DEF Inv, Queue, Masked, Stacks, Position, Parents, ContextDefined, ContextIntact,
      Made, Base, Linked, Running, Depth, Top, InFork, WellFormed

LEMMA SaveStep ==
  ASSUME Inv, SwitchSave
  PROVE  Inv'
<1>0. /\ at = "switch" /\ at' = "pick" /\ current_task # 0 /\ Running = current_task
      /\ current_task \in TaskIds /\ ~IF_
      /\ task' = [task EXCEPT ![current_task] =
                    [task[current_task] EXCEPT !.eip = "switched", !.esp = Depth]]
      /\ UNCHANGED <<build, next_pid, current_task, ready_queue, stack, IF_, in_service, answers>>
  BY Facts DEF SwitchSave, Inv, Masked, Running, TaskIds
<1> DEFINE c == [task[current_task] EXCEPT !.eip = "switched", !.esp = Depth]
<1>1. /\ c \in [eip : Places, esp : Nat, next : 0 .. MaxTasks]
      /\ c.eip = "switched" /\ c.esp = Depth /\ c.next = task[current_task].next
  BY <1>0, Facts DEF Places
<1> HIDE DEF c
<1>2. /\ task' \in [TaskIds -> [eip : Places, esp : Nat, next : 0 .. MaxTasks]]
      /\ task'[current_task] = c
      /\ \A t \in TaskIds : t # current_task => task'[t] = task[t]
  BY <1>0, <1>1, Facts DEF c
<1>3. TypeOK'
  BY <1>0, <1>2 DEF Inv, TypeOK, Places
<1>4. /\ Running' = Running /\ Made' = Made /\ Linked' = Linked /\ Base' = Base
      /\ Depth' = Depth /\ Top' = Top /\ ~InFork /\ ~InFork'
  BY <1>0 DEF Running, Made, Linked, Base, Depth, Top, InFork
<1>5. Queue'
  BY <1>0, <1>1, <1>2, <1>4, Facts DEF Inv, Queue
<1>6. Masked' /\ ContextDefined' /\ Stacks'
  BY <1>0, <1>4 DEF Inv, Masked, ContextDefined, Stacks, WellFormed
<1>7. Position'
  BY <1>0, <1>1, <1>2, <1>4 DEF Inv, Position
<1>8. Parents'
  BY <1>0, <1>4 DEF Inv, Parents
<1>9. ContextIntact'
  BY <1>0, <1>2, <1>4, Facts DEF Inv, ContextIntact
<1> QED
  BY <1>3, <1>5, <1>6, <1>7, <1>8, <1>9 DEF Inv

(* What is below the frame that is on top *)
LEMMA BelowTop ==
  ASSUME Inv, Depth > 0
  PROVE  /\ Depth = 1 => Top.back = Base /\ Top = stack[Running][1]
         /\ Depth > 1 => Top.back = (IF stack[Running][Depth - 1].parent = 0
                                      THEN "switched" ELSE "test")
         /\ Depth > 1 /\ stack[Running][Depth - 1].parent # 0 => Depth = 2
<1>0. /\ Depth \in Nat /\ Depth = Len(stack[Running]) /\ WellFormed(stack[Running])
      /\ Top = stack[Running][Depth]
  BY Facts DEF Depth, Top
<1>1. CASE Depth = 1
  BY <1>0, <1>1 DEF WellFormed
<1>2. CASE Depth > 1
  <2> DEFINE st == stack[Running]
  <2>1. Depth \in 1 .. Len(st) /\ Depth - 1 \in 1 .. Len(st) /\ Depth # 1
    BY <1>0, <1>2
  <2>2. st[Depth].back = (IF st[Depth - 1].parent = 0 THEN "switched" ELSE "test")
    BY <1>0, <2>1 DEF WellFormed
  <2>3. st[Depth - 1].parent # 0 => Depth - 1 = 1
    BY <1>0, <2>1 DEF WellFormed
  <2> QED
    BY <1>0, <1>2, <2>2, <2>3
<1> QED
  BY <1>0, <1>1, <1>2

(* the return from an interrupt to what was interrupted *)
LEMMA ReturnStep ==
  ASSUME Inv, InterruptReturn
  PROVE  Inv'
<1>0. /\ at = "switched" /\ Depth > 0 /\ Depth \in Nat /\ Pop /\ at' = Top.back
      /\ IF_' = TRUE /\ Top \in Frame /\ Top.parent = 0
      /\ UNCHANGED <<build, next_pid, current_task, ready_queue, task, in_service, answers>>
  BY Facts DEF InterruptReturn, Inv, Position
<1>1. /\ stack' \in StackType
      /\ Running' = Running /\ Made' = Made /\ Linked' = Linked /\ Base' = Base
      /\ Depth' = Depth - 1
      /\ \A t \in Made : t # Running => stack'[t] = stack[t]
      /\ Depth > 1 => /\ stack'[Running][1] = stack[Running][1]
                      /\ Top' = stack[Running][Depth - 1]
      /\ Len(stack'[Running]) = Depth - 1
      /\ Stacks'
  BY <1>0, PopEffect
<1>2. ~InFork /\ ~InFork'
  <2>1. at' # "fork"
    BY <1>0, BelowTop DEF Base
  <2> QED
    BY <1>0, <2>1 DEF InFork
<1>3. TypeOK'
  <2>1. at' \in Places
    BY <1>0 DEF Frame
  <2> QED
    BY <1>0, <1>1, <2>1 DEF Inv, TypeOK, StackType
<1>4. Queue'
  BY <1>0, <1>1 DEF Inv, Queue
<1>5. at' \in {"boot", "code", "switched", "test"}
  BY <1>0, BelowTop DEF Base
<1>6. Masked' /\ ContextDefined'
  BY <1>0, <1>5 DEF Masked, ContextDefined
<1>7. Parents'
  <2> SUFFICES ASSUME NEW t \in Made, Len(stack'[t]) > 0, stack'[t][1].parent # 0
               PROVE  stack'[t][1].parent \in 1 .. t - 1
    BY <1>0, <1>1, <1>2 DEF Parents
  <2>1. CASE t # Running
    BY <1>1, <1>2, <2>1 DEF Inv, Parents
  <2>2. CASE t = Running
    <3>1. Depth > 1 /\ stack'[t][1] = stack[t][1] /\ Len(stack[t]) > 0
      BY <1>0, <1>1, <2>2, Facts DEF Depth
    <3> QED
      BY <1>2, <3>1, ForkedBy
  <2> QED
    BY <2>1, <2>2
<1>8. Position'
  <2>1. CASE Depth = 1
    <3>1. at' = Base /\ Depth' = 0
      BY <1>0, <1>1, <2>1, BelowTop
    <3> QED
      BY <1>0, <1>1, <3>1 DEF Position, Base
  <2>2. CASE Depth > 1 /\ stack[Running][Depth - 1].parent = 0
    <3>1. at' = "switched" /\ Depth' > 0 /\ Top'.parent = 0
      BY <1>0, <1>1, <2>2, BelowTop
    <3> QED
      BY <3>1 DEF Position
  <2>3. CASE Depth > 1 /\ stack[Running][Depth - 1].parent # 0
    <3>1. at' = "test" /\ Depth' = 1 /\ Top'.parent # 0
      BY <1>0, <1>1, <2>3, BelowTop
    <3>2. Depth = 2 /\ stack[Running][1].parent # 0 /\ Len(stack[Running]) > 0
      <4>1. Depth = 2
        BY <1>0, <2>3, BelowTop
      <4>2. Depth - 1 = 1 /\ Len(stack[Running]) = 2
        BY <4>1 DEF Depth
      <4> QED
        BY <2>3, <4>1, <4>2
    <3>3. stack[Running][1].parent \in 1 .. Running - 1
      BY <1>2, <3>2, Facts DEF Inv, Parents
    <3>4. current_task # 0
      BY <3>3 DEF Running
    <3> QED
      BY <1>0, <3>1, <3>4 DEF Position
  <2> QED
    BY <1>0, <2>1, <2>2, <2>3
<1>9. ContextIntact'
  BY <1>0, <1>1, <1>2, Facts DEF Inv, ContextIntact, InFork
<1> QED
  BY <1>1, <1>3, <1>4, <1>6, <1>7, <1>8, <1>9 DEF Inv

(* fork links the new task, which gets a copy of the stack *)
LEMMA LinkStep ==
  ASSUME Inv, ForkLink
  PROVE  Inv'
<1> DEFINE new == next_pid
           last == next_pid - 1
<1>0. /\ at = "fork" /\ at' = "test" /\ ~IF_ /\ InFork /\ IF_' = IF_
      /\ Depth = 1 /\ Top.parent # 0 /\ current_task # 0 /\ Top.parent = current_task
      /\ next_pid' = next_pid + 1 /\ next_pid <= MaxTasks
      /\ stack' = [stack EXCEPT ![new] = stack[current_task]]
      /\ task' = [task EXCEPT ![LastTask].next = new, ![new] = NewTask]
      /\ UNCHANGED <<build, current_task, ready_queue, in_service, answers>>
  BY DEF ForkLink, Inv, Masked, InFork, Position, Parents
<1>1. /\ next_pid \in TaskIds /\ last \in TaskIds /\ current_task \in 1 .. last
      /\ current_task \in TaskIds /\ next_pid \in Nat /\ next_pid > 1 /\ MaxTasks \in Nat
      /\ Running = current_task /\ Made = Linked /\ Linked = 1 .. last
  BY <1>0, Facts DEF Running, Made, Linked, TaskIds
<1>2. LastTask = last
  <2>1. \A t \in 1 .. next_pid - 1 : task[t].next = 0 <=> t = last
    BY <1>1 DEF Inv, Queue, Linked
  <2> QED
    BY <1>1, <2>1 DEF LastTask
<1>3. /\ task' \in [TaskIds -> [eip : Places, esp : Nat, next : 0 .. MaxTasks]]
      /\ task'[new] = NewTask
      /\ \A t \in TaskIds \ {new} :
           /\ task'[t].eip = task[t].eip /\ task'[t].esp = task[t].esp
           /\ task'[t].next = (IF t = last THEN new ELSE task[t].next)
  <2>1. NewTask \in [eip : Places, esp : Nat, next : 0 .. MaxTasks]
    BY <1>1 DEF NewTask, Places
  <2>2. new \in 0 .. MaxTasks /\ new # last
    BY <1>0, <1>1
  <2>3. task' = [task EXCEPT ![last].next = new, ![new] = NewTask]
    BY <1>0, <1>2
  <2> HIDE DEF new, last
  <2> QED
    BY <1>1, <2>1, <2>2, <2>3, Facts DEF new, last
<1>4. /\ stack' \in StackType /\ stack'[new] = stack[current_task]
      /\ \A t \in TaskIds \ {new} : stack'[t] = stack[t]
  BY <1>0, <1>1, Facts DEF StackType
<1>5. /\ Running' = Running /\ Base' = Base /\ Made' = Made \cup {new} /\ Linked' = Linked \cup {new}
      /\ Depth' = Depth /\ Top' = Top
  BY <1>0, <1>1, <1>4 DEF Running, Base, Made, Linked, Depth, Top
<1>6. TypeOK'
  <2>1. next_pid' \in 1 .. MaxTasks + 1 /\ current_task' \in 0 .. next_pid' - 1 /\ at' \in Places
    BY <1>0, <1>1 DEF Places
  <2> QED
    BY <1>0, <1>3, <1>4, <2>1 DEF Inv, TypeOK, StackType
<1>7. Queue'
  <2>1. /\ (current_task' = 0 <=> next_pid' = 1) /\ next_pid' # 1 /\ ready_queue' = 1
    BY <1>0, <1>1 DEF Inv, Queue
  <2>2. \A t \in Linked : task'[t].next = (IF t + 1 < next_pid' THEN t + 1 ELSE 0)
    BY <1>0, <1>1, <1>3 DEF Inv, Queue, TaskIds
  <2>3. task'[new].next = 0 /\ ~(new + 1 < next_pid')
    BY <1>0, <1>1, <1>3 DEF NewTask
  <2> QED
    BY <1>5, <2>1, <2>2, <2>3 DEF Queue
<1>8. Masked' /\ ContextDefined'
  BY <1>0 DEF Masked, ContextDefined
<1>9. Stacks'
  <2>1. \A t \in Made : WellFormed(stack[t])
    BY DEF Inv, Stacks
  <2>2. \A t \in Made' : \E u \in Made : stack'[t] = stack[u]
    BY <1>1, <1>4, <1>5, Facts DEF TaskIds
  <2> QED
    BY <1>5, <2>1, <2>2 DEF Stacks, WellFormed
<1>10. Position'
  BY <1>0, <1>5 DEF Position
<1>11. Parents'
  <2>1. InFork' /\ at' = "test" /\ ~IF_'
    BY <1>0 DEF InFork
  <2>2. current_task' < next_pid' - 1 /\ stack'[next_pid' - 1] = stack'[current_task']
    BY <1>0, <1>1, <1>4
  <2>3. \A t \in Made : Len(stack'[t]) > 0 /\ stack'[t][1].parent # 0 =>
          stack'[t][1].parent \in 1 .. t - 1 \/ t = Running
    BY <1>1, <1>4 DEF Inv, Parents, TaskIds
  <2>4. stack'[new][1].parent = current_task
    BY <1>0, <1>1, <1>4 DEF Top, Depth
  <2> QED
    BY <1>0, <1>1, <1>5, <2>1, <2>2, <2>3, <2>4 DEF Parents
<1>12. ContextIntact'
  <2>1. \A t \in Linked : t \in TaskIds \ {new}
    BY <1>1 DEF TaskIds
  <2>2. \A t \in Linked \ {Running} :
          /\ task[t].esp = Len(stack[t]) /\ task[t].esp > 0
          /\ LET top == stack[t][task[t].esp]
             IN  IF task[t].eip = "switched" THEN top.parent = 0
                 ELSE task[t].eip = "test" /\ top.parent \in 1 .. t - 1
    BY <1>0 DEF Inv, ContextIntact
  <2>3. \A t \in Linked' \ {Running'} :
          (at' = "test" /\ ~IF_' => t # next_pid' - 1) => t \in Linked \ {Running}
    BY <1>0, <1>1, <1>5
  <2>4. \A t \in Linked : /\ task'[t].eip = task[t].eip /\ task'[t].esp = task[t].esp
                          /\ stack'[t] = stack[t]
    BY <1>3, <1>4, <2>1
  <2> QED
    BY <2>2, <2>3, <2>4 DEF ContextIntact
<1> QED
  BY <1>6, <1>7, <1>8, <1>9, <1>10, <1>11, <1>12 DEF Inv

(* fork returns in the task that called it, which gives the new task its
   context first                                                            *)
LEMMA ParentStep ==
  ASSUME Inv, ForkParent
  PROVE  Inv'
<1> DEFINE new == next_pid - 1
<1>0. /\ at = "test" /\ ~IF_ /\ Depth = 1 /\ current_task # 0 /\ Top.parent = current_task
      /\ Top.back = "code" /\ Top = stack[Running][1] /\ at' = "code" /\ IF_' = TRUE
      /\ Running = current_task /\ Pop
  <2>1. /\ at = "test" /\ Depth = 1 /\ Top.parent = current_task /\ current_task # 0
        /\ at' = Top.back /\ IF_' = TRUE /\ Pop
    BY DEF ForkParent, Inv, Position
  <2>2. Top.back = "code" /\ Top = stack[Running][1] /\ Running = current_task
    BY <2>1, BelowTop DEF Base, Running
  <2>3. ~IF_
    <3> SUFFICES ASSUME IF_ PROVE FALSE
      OBVIOUS
    <3>1. ~InFork /\ Len(stack[Running]) > 0 /\ stack[Running][1].parent = Running
      BY <2>1, <2>2 DEF InFork, Depth
    <3>2. Running \in 1 .. Running - 1
      BY <2>1, <2>2, <3>1, Facts DEF Inv, Parents
    <3> QED
      BY <2>2, <3>2, Facts
  <2> QED
    BY <2>1, <2>2, <2>3
<1>1. /\ current_task < new /\ stack[new] = stack[current_task] /\ new \in TaskIds
      /\ new \in Linked /\ next_pid \in Nat /\ current_task \in 1 .. new - 1 /\ Made = Linked
  BY <1>0, Facts DEF Inv, Parents, Linked, Made, TaskIds
<1>2. /\ task' = [task EXCEPT ![new] = [task[new] EXCEPT !.eip = "test", !.esp = 1]]
      /\ UNCHANGED <<build, next_pid, current_task, ready_queue, in_service>>
      /\ answers' = [answers EXCEPT ![current_task] = Append(answers[current_task], new)]
  BY <1>0 DEF ForkParent
<1> DEFINE c == [task[new] EXCEPT !.eip = "test", !.esp = 1]
<1>3. /\ c \in [eip : Places, esp : Nat, next : 0 .. MaxTasks]
      /\ c.eip = "test" /\ c.esp = 1 /\ c.next = task[new].next
  BY <1>1, Facts DEF Places
<1> HIDE DEF c
<1>4. /\ task' \in [TaskIds -> [eip : Places, esp : Nat, next : 0 .. MaxTasks]]
      /\ task'[new] = c /\ \A t \in TaskIds : t # new => task'[t] = task[t]
  BY <1>1, <1>2, <1>3, Facts DEF c
<1>5. /\ stack' \in StackType
      /\ Running' = Running /\ Made' = Made /\ Linked' = Linked /\ Base' = Base
      /\ Depth' = 0 /\ Len(stack'[Running]) = 0
      /\ \A t \in Made : t # Running => stack'[t] = stack[t]
      /\ Stacks'
  BY <1>0, <1>2, PopEffect
<1>6. TypeOK'
  <2>1. at' \in Places /\ IF_' \in BOOLEAN
    BY <1>0 DEF Places
  <2>2. answers' \in [TaskIds -> Seq(0 .. MaxTasks)]
    <3>1. /\ new \in 0 .. MaxTasks /\ current_task \in TaskIds
          /\ answers \in [TaskIds -> Seq(0 .. MaxTasks)]
      <4>1. answers \in [TaskIds -> Seq(0 .. MaxTasks)]
        BY Zenon DEF Inv, TypeOK
      <4>2. new \in TaskIds /\ current_task \in TaskIds
        BY <1>0, <1>1, Facts DEF TaskIds
      <4> QED
        BY <4>1, <4>2, Facts DEF TaskIds
    <3>2. Append(answers[current_task], new) \in Seq(0 .. MaxTasks)
      BY <3>1, AppendProperties
    <3> QED
      BY <1>2, <3>1, <3>2
  <2> QED
    BY <1>2, <1>4, <1>5, <2>1, <2>2 DEF Inv, TypeOK, StackType
<1>7. Queue'
  BY <1>2, <1>3, <1>4, <1>5, Facts DEF Inv, Queue
<1>8. Masked' /\ ContextDefined' /\ Position' /\ ~InFork'
  BY <1>0, <1>2, <1>5 DEF Masked, ContextDefined, Position, InFork
<1>9. Parents'
  <2>1. \A t \in Made : Len(stack'[t]) > 0 /\ stack'[t][1].parent # 0 =>
          stack'[t][1].parent \in 1 .. t - 1
    BY <1>5 DEF Inv, Parents
  <2> QED
    BY <1>0, <1>5, <1>8, <2>1 DEF Parents
<1>10. ContextIntact'
  <2> SUFFICES ASSUME NEW t \in Linked, t # Running
               PROVE  /\ task'[t].esp = Len(stack'[t]) /\ task'[t].esp > 0
                      /\ LET top == stack'[t][task'[t].esp]
                         IN  IF task'[t].eip = "switched" THEN top.parent = 0
                             ELSE task'[t].eip = "test" /\ top.parent \in 1 .. t - 1
    BY <1>5 DEF ContextIntact
  <2>1. t \in TaskIds /\ stack'[t] = stack[t]
    BY <1>1, <1>5, Facts
  <2>2. CASE t = new
    <3>1. task'[t].esp = 1 /\ task'[t].eip = "test" /\ stack'[t] = stack[current_task]
      BY <1>1, <1>3, <1>4, <2>1, <2>2
    <3> QED
      BY <1>0, <1>1, <2>2, <3>1 DEF Depth
  <2>3. CASE t # new
    BY <1>4, <2>1, <2>3 DEF Inv, ContextIntact
  <2> QED
    BY <2>2, <2>3
<1> QED
  BY <1>5, <1>6, <1>7, <1>8, <1>9, <1>10 DEF Inv

(* fork returns in the new task *)
LEMMA ChildStep ==
  ASSUME Inv, ForkChild
  PROVE  Inv'
<1>0. /\ at = "test" /\ Depth = 1 /\ Top.parent # current_task /\ current_task # 0
      /\ Top.back = "code" /\ at' = "code" /\ IF_' = IF_ /\ Pop /\ ~InFork /\ ~InFork'
      /\ UNCHANGED <<build, next_pid, current_task, ready_queue, task, in_service>>
  <2>1. /\ at = "test" /\ Depth = 1 /\ Top.parent # current_task /\ current_task # 0
        /\ at' = Top.back /\ IF_' = IF_ /\ Pop
        /\ UNCHANGED <<build, next_pid, current_task, ready_queue, task, in_service>>
    BY DEF ForkChild, Inv, Position
  <2>2. Top.back = "code"
    BY <2>1, BelowTop DEF Base
  <2>3. ~InFork /\ ~InFork'
    BY <2>1, <2>2 DEF Inv, Parents, InFork
  <2> QED
    BY <2>1, <2>2, <2>3
<1>1. /\ stack' \in StackType
      /\ Running' = Running /\ Made' = Made /\ Linked' = Linked /\ Base' = Base
      /\ Depth' = 0 /\ Len(stack'[Running]) = 0
      /\ \A t \in Made : t # Running => stack'[t] = stack[t]
      /\ Stacks'
  BY <1>0, PopEffect
<1>2. TypeOK'
  <2>1. answers' = [answers EXCEPT ![current_task] = Append(answers[current_task], 0)]
    BY DEF ForkChild
  <2>2. /\ 0 \in 0 .. MaxTasks /\ current_task \in TaskIds
        /\ answers \in [TaskIds -> Seq(0 .. MaxTasks)]
    BY <1>0, Facts DEF Inv, TypeOK, TaskIds
  <2>3. Append(answers[current_task], 0) \in Seq(0 .. MaxTasks)
    BY <2>2, AppendProperties
  <2>4. answers' \in [TaskIds -> Seq(0 .. MaxTasks)] /\ at' \in Places
    BY <1>0, <2>1, <2>2, <2>3 DEF Places
  <2> QED
    BY <1>0, <1>1, <2>4 DEF Inv, TypeOK, StackType
<1>3. Queue'
  BY <1>0, <1>1 DEF Inv, Queue
<1>4. Masked' /\ ContextDefined' /\ Position'
  BY <1>0, <1>1 DEF Masked, ContextDefined, Position
<1>5. Parents'
  BY <1>0, <1>1 DEF Inv, Parents
<1>6. ContextIntact'
  BY <1>0, <1>1, Facts DEF Inv, ContextIntact, InFork
<1> QED
  BY <1>1, <1>2, <1>3, <1>4, <1>5, <1>6 DEF Inv

-----------------------------------------------------------------------------
(* The task that task_switch picks *)
LEMMA FollowingTask ==
  ASSUME Inv, current_task # 0
  PROVE  /\ Following \in Linked
         /\ Following = (IF current_task + 1 < next_pid THEN current_task + 1 ELSE 1)
<1>1. /\ next_pid \in Nat /\ current_task \in 1 .. next_pid - 1 /\ next_pid > 1
      /\ Linked = 1 .. next_pid - 1
  BY Facts DEF Linked
<1>2. /\ ready_queue = 1
      /\ task[current_task].next = (IF current_task + 1 < next_pid THEN current_task + 1 ELSE 0)
  BY <1>1 DEF Inv, Queue
<1>3. Following = (IF current_task + 1 < next_pid THEN current_task + 1 ELSE 1)
  BY <1>1, <1>2 DEF Following
<1> QED
  BY <1>1, <1>3

(* task_switch jumps to the next task *)
LEMMA JumpContext ==
  ASSUME Inv, SwitchJump
  PROVE  /\ current_task # 0 /\ Running = current_task /\ Depth > 0 /\ Top.parent = 0
         /\ stack' = stack
         /\ \A t \in Linked : /\ task[t].esp = Len(stack[t]) /\ task[t].esp > 0
                             /\ LET top == stack[t][task[t].esp]
                                IN  IF task[t].eip = "switched" THEN top.parent = 0
                                    ELSE task[t].eip = "test" /\ top.parent \in 1 .. t - 1
<1> DEFINE F == Following
<1>0. /\ at = "pick" /\ current_task # 0 /\ Running = current_task /\ Depth > 0 /\ Top.parent = 0
      /\ task[current_task].eip = "switched" /\ task[current_task].esp = Depth
      /\ current_task' = F /\ at' = Resumed(F) /\ IF_' = TRUE
      /\ stack' = [stack EXCEPT ![F] = SubSeq(stack[F], 1, task[F].esp)]
      /\ UNCHANGED <<build, next_pid, ready_queue, task, in_service, answers>>
      /\ F \in Linked /\ F \in TaskIds /\ F # 0 /\ current_task \in Linked
  BY Facts, FollowingTask DEF SwitchJump, Inv, Position, Running, Linked, TaskIds
<1>1. \A t \in Linked : /\ task[t].esp = Len(stack[t]) /\ task[t].esp > 0
                        /\ LET top == stack[t][task[t].esp]
                           IN  IF task[t].eip = "switched" THEN top.parent = 0
                               ELSE task[t].eip = "test" /\ top.parent \in 1 .. t - 1
  <2> TAKE t \in Linked
  <2>1. CASE t = current_task
    BY <1>0, <2>1 DEF Depth, Top
  <2>2. CASE t # current_task
    BY <1>0, <2>2 DEF Inv, ContextIntact
  <2> QED
    BY <2>1, <2>2
<1> HIDE DEF F
<1>2. stack' = stack
  BY <1>0, <1>1, Whole, Facts
<1> QED
  BY <1>0, <1>1, <1>2

LEMMA JumpStep ==
  ASSUME Inv, SwitchJump
  PROVE  Inv'
<1> DEFINE F == Following
<1>0. /\ at = "pick" /\ current_task # 0 /\ Running = current_task /\ Depth > 0 /\ Top.parent = 0
      /\ task[current_task].eip = "switched" /\ task[current_task].esp = Depth
      /\ current_task' = F /\ at' = Resumed(F) /\ IF_' = TRUE
      /\ stack' = [stack EXCEPT ![F] = SubSeq(stack[F], 1, task[F].esp)]
      /\ UNCHANGED <<build, next_pid, ready_queue, task, in_service, answers>>
      /\ F \in Linked /\ F \in TaskIds /\ F # 0 /\ current_task \in Linked
  BY Facts, FollowingTask DEF SwitchJump, Inv, Position, Running, Linked, TaskIds
<1>1. /\ stack' = stack
      /\ \A t \in Linked : /\ task[t].esp = Len(stack[t]) /\ task[t].esp > 0
                          /\ LET top == stack[t][task[t].esp]
                             IN  IF task[t].eip = "switched" THEN top.parent = 0
                                 ELSE task[t].eip = "test" /\ top.parent \in 1 .. t - 1
  BY JumpContext
<1> HIDE DEF F
<1>2. stack' = stack
  BY <1>1
<1>3. at' \in {"lost", "reset", "switched", "test"} /\ (at' \in {"switched", "test"} => at' = task[F].eip)
  BY <1>0, <1>1 DEF Resumed
<1>4. Running' = F /\ Made' = Made /\ Linked' = Linked /\ Base' = Base /\ Depth' = Len(stack[F])
      /\ ~InFork /\ ~InFork'
  BY <1>0, <1>2, <1>3 DEF Running, Made, Linked, Base, Depth, InFork
<1>5. TypeOK'
  <2>1. at' \in Places /\ current_task' \in 0 .. next_pid' - 1 /\ IF_' \in BOOLEAN
    BY <1>0, <1>3, Facts DEF Places, Linked
  <2> QED
    BY <1>0, <1>2, <2>1 DEF Inv, TypeOK
<1>6. Queue' /\ Masked' /\ ContextDefined'
  BY <1>0, <1>3, <1>4 DEF Inv, Queue, Masked, ContextDefined
<1>7. Stacks'
  BY <1>2, <1>4 DEF Inv, Stacks, WellFormed
<1>8. Parents'
  BY <1>0, <1>2, <1>3, <1>4 DEF Inv, Parents
<1>9. Position'
  <2>1. Depth' = task[F].esp /\ Depth' > 0 /\ Top' = stack[F][task[F].esp]
    BY <1>0, <1>1, <1>2, <1>4 DEF Top
  <2>2. CASE at' = "switched"
    BY <1>0, <1>1, <1>3, <2>1, <2>2 DEF Position
  <2>3. CASE at' = "test"
    <3>1. Top'.parent # 0
      BY <1>0, <1>1, <1>3, <2>1, <2>3
    <3>2. Len(stack[F]) = 1
      <4>1. stack[F] \in Seq(Frame) /\ WellFormed(stack[F]) /\ task[F].esp = Len(stack[F])
        BY <1>0, <1>1, Facts DEF Inv, Stacks
      <4> QED
        BY <2>1, <3>1, <4>1, ForkFrameAlone
    <3> QED
      BY <1>0, <1>4, <2>3, <3>1, <3>2 DEF Position
  <2> QED
    BY <1>3, <2>2, <2>3 DEF Position
<1>10. ContextIntact'
  BY <1>0, <1>1, <1>2, <1>4 DEF ContextIntact
<1> QED
  BY <1>5, <1>6, <1>7, <1>8, <1>9, <1>10 DEF Inv

LEMMA InvNext == Inv /\ [Next]_vars => Inv'
<1> SUFFICES ASSUME Inv, [Next]_vars PROVE Inv'
  OBVIOUS
<1>1. CASE Halt \/ UNCHANGED vars
  <2>1. UNCHANGED <<build, next_pid, current_task, ready_queue, task, stack, at, IF_,
                    in_service, answers>>
    BY <1>1 DEF Halt, vars
  <2>2. /\ Made' = Made /\ Base' = Base /\ Linked' = Linked /\ Running' = Running
        /\ Depth' = Depth /\ Top' = Top /\ (InFork' <=> InFork)
    BY <2>1 DEF Made, Base, Linked, Running, Depth, Top, InFork
  <2>3. TypeOK' /\ Queue' /\ Masked' /\ ContextDefined'
    BY <2>1, <2>2 DEF Inv, TypeOK, Queue, Masked, ContextDefined
  <2>4. Stacks' /\ Position' /\ Parents' /\ ContextIntact'
    BY <2>1, <2>2 DEF Inv, Stacks, WellFormed, Position, Parents, ContextIntact
  <2> QED
    BY <2>3, <2>4 DEF Inv
<1> QED
  BY <1>1, StartStep, ForkStep, LinkStep, ParentStep, ChildStep, TickStep, InterruptStep,
     SaveStep, JumpStep, ReturnStep DEF Next

LEMMA Invariant == Spec => []Inv
BY InvInit, InvNext, PTL DEF Spec

(* The variables keep their types (task.c). *)
THEOREM TypeCorrect == Spec => []TypeOK
<1>1. Inv => TypeOK
  BY DEF Inv
<1> QED
  BY <1>1, Invariant, PTL

(* task_switch never jumps to the address 0 that fork leaves in a task without
   a context: interrupts stay disabled from the moment the task is linked
   until it has one (task.c:85-111, 123-162).                               *)
THEOREM ContextIsDefined == Spec => []ContextDefined
<1>1. Inv => ContextDefined
  BY DEF Inv
<1> QED
  BY <1>1, Invariant, PTL

(* A task that waits has its stack below its saved stack pointer and on top of
   it the frame that its saved instruction pointer returns through, however
   interrupts nested and tasks forked meanwhile (task.c:107-111, 129-151).  *)
THEOREM ContextStaysIntact == Spec => []ContextIntact
<1>1. Inv => ContextIntact
  BY DEF Inv
<1> QED
  BY <1>1, Invariant, PTL

-----------------------------------------------------------------------------
(* What fork answers *)

(* Nobody has called fork yet. *)
LEMMA AnswersInit == Init => Answered /\ ForkAnswers
<1> SUFFICES ASSUME Init PROVE Answered /\ ForkAnswers
  OBVIOUS
<1>1. \A t \in TaskIds : answers[t] = <<>> /\ Len(answers[t]) = 0
  BY DEF Init
<1>2. Linked = {}
  BY DEF Init, Linked
<1> QED
  BY <1>1, <1>2 DEF Answered, ForkAnswers

(* An answer of fork is 0 or the number of a task. *)
LEMMA AnswersTyped ==
  ASSUME Inv, NEW t \in TaskIds
  PROVE  /\ answers[t] \in Seq(0 .. MaxTasks) /\ Len(answers[t]) \in Nat
         /\ \A k \in 1 .. Len(answers[t]) : answers[t][k] \in 0 .. MaxTasks /\ answers[t][k] \in Nat
<1>1. answers \in [TaskIds -> Seq(0 .. MaxTasks)]
  BY Zenon DEF Inv, TypeOK
<1>2. MaxTasks \in Nat
  BY TasksAssumption
<1> QED
  BY <1>1, <1>2

(* The steps that leave what was answered, and whom is waited for *)
LEMMA AnswersSame ==
  ASSUME Inv, Answered, ForkAnswers, answers' = answers, next_pid' = next_pid,
         Unnamed' => Unnamed, \A t \in Linked : Waiting(stack', t) <=> Waiting(stack, t)
  PROVE  Answered' /\ ForkAnswers'
<1>1. Linked' = Linked /\ next_pid \in Nat
  BY Facts DEF Linked
<1>2. \A t \in TaskIds : \A k \in 1 .. Len(answers[t]) : answers[t][k] \in Nat
  BY AnswersTyped
<1>3. Answered'
  BY <1>1, <1>2 DEF Answered
<1>4. ForkAnswers'
  BY DEF ForkAnswers
<1> QED
  BY <1>3, <1>4

(* Who waits for an answer is a matter of the stacks. *)
LEMMA StackSame ==
  ASSUME stack' = stack
  PROVE  \A t \in Linked : Waiting(stack', t) <=> Waiting(stack, t)
BY DEF Waiting

(* One more answer, of the task that runs *)
LEMMA OneMoreAnswer ==
  ASSUME Inv, NEW t \in TaskIds, NEW a \in 0 .. MaxTasks,
         answers' = [answers EXCEPT ![t] = Append(answers[t], a)]
  PROVE  /\ \A u \in TaskIds : u # t => answers'[u] = answers[u]
         /\ answers[t] \in Seq(0 .. MaxTasks) /\ Len(answers'[t]) = Len(answers[t]) + 1
         /\ \A k \in 1 .. Len(answers[t]) : answers'[t][k] = answers[t][k]
         /\ answers'[t][Len(answers[t]) + 1] = a
<1>1. answers \in [TaskIds -> Seq(0 .. MaxTasks)]
  BY Zenon DEF Inv, TypeOK
<1>2. answers[t] \in Seq(0 .. MaxTasks) /\ answers'[t] = Append(answers[t], a)
  BY <1>1
<1> QED
  BY <1>1, <1>2, AppendProperties

(* fork in the task that called it *)
LEMMA ParentAnswers ==
  ASSUME Inv, Answered, ForkAnswers, ForkParent
  PROVE  Answered' /\ ForkAnswers'
<1> DEFINE c == current_task
           new == next_pid - 1
           n == Len(answers[c])
<1>1. /\ at = "test" /\ Depth > 0 /\ Depth = 1 /\ c # 0 /\ Top.parent = c /\ Pop
      /\ Top = stack[c][1] /\ Len(stack[c]) = 1 /\ Running = c
      /\ UNCHANGED <<next_pid, current_task>> /\ IF_' = TRUE
      /\ answers' = [answers EXCEPT ![c] = Append(answers[c], new)]
  BY DEF ForkParent, Inv, Position, Top, Depth, Running
<1>2. Unnamed
  <2> SUFFICES ASSUME IF_ PROVE FALSE
    BY <1>1 DEF Unnamed
  <2>1. ~InFork /\ c \in Made
    BY <1>1, Facts DEF InFork
  <2>2. c \in 1 .. c - 1
    BY <1>1, <2>1, ForkedBy
  <2> QED
    BY <2>2, Facts
<1>3. /\ c \in 1 .. new - 1 /\ new \in 1 .. MaxTasks /\ next_pid \in Nat /\ c \in TaskIds
      /\ c \in Linked /\ c \in Made
  BY <1>1, <1>2, Facts DEF Inv, Parents, Unnamed, Linked, Made, TaskIds
<1>4. /\ \A u \in TaskIds : u # c => answers'[u] = answers[u]
      /\ answers[c] \in Seq(0 .. MaxTasks) /\ Len(answers'[c]) = n + 1
      /\ \A k \in 1 .. n : answers'[c][k] = answers[c][k]
      /\ answers'[c][n + 1] = new
  <2>1. new \in 0 .. MaxTasks
    BY <1>3, Facts
  <2> HIDE DEF c, new, n
  <2>2. /\ \A u \in TaskIds : u # c => answers'[u] = answers[u]
        /\ answers[c] \in Seq(0 .. MaxTasks) /\ Len(answers'[c]) = Len(answers[c]) + 1
        /\ \A k \in 1 .. Len(answers[c]) : answers'[c][k] = answers[c][k]
        /\ answers'[c][Len(answers[c]) + 1] = new
    <3>1. c \in TaskIds /\ answers' = [answers EXCEPT ![c] = Append(answers[c], new)]
      BY <1>1, <1>3
    <3> QED
      BY <2>1, <3>1, OneMoreAnswer, Zenon
  <2> QED
    BY <2>2 DEF n
<1>5. /\ n \in Nat
      /\ \A u \in TaskIds : Len(answers[u]) \in Nat
      /\ \A u \in TaskIds : \A k \in 1 .. Len(answers[u]) : answers[u][k] \in Nat
  BY <1>3, AnswersTyped
<1>6. Linked' = Linked /\ ~Unnamed' /\ \A t \in Linked : t # c => stack'[t] = stack[t]
  <2>1. \A t \in Made : t # Running => stack'[t] = stack[t]
    BY <1>1, PopEffect
  <2> QED
    BY <1>1, <1>3, <2>1 DEF Linked, Made, Unnamed
<1>7. ~Waiting(stack, c) /\ ~Waiting(stack', c)
  <2>1. Len(stack'[c]) = 0
    BY <1>1, PopEffect
  <2> QED
    BY <1>1, <2>1 DEF Waiting
<1>8. c # 1 => n > 0
  BY <1>3, <1>5, <1>7 DEF Answered
<1>9. \A t \in TaskIds : \A k \in 1 .. Len(answers[t]) : answers[t][k] < new
  BY <1>2 DEF Answered
<1> HIDE DEF c, new, n
<1>10. \A t \in TaskIds : \A k \in 1 .. Len(answers'[t]) :
         \/ t = c /\ k = n + 1 /\ answers'[t][k] = new
         \/ k \in 1 .. Len(answers[t]) /\ answers'[t][k] = answers[t][k] /\ ~(t = c /\ k = n + 1)
  BY <1>4, <1>5 DEF n
<1>11. Answered'
  <2>1. \A t \in TaskIds \ Linked : Len(answers'[t]) = 0
    BY <1>3, <1>4 DEF Answered
  <2>2. \A t \in Linked \ {1} : Waiting(stack', t) <=> Len(answers'[t]) = 0
    <3> SUFFICES ASSUME NEW t \in Linked \ {1} PROVE Waiting(stack', t) <=> Len(answers'[t]) = 0
      OBVIOUS
    <3>1. CASE t = c
      <4>1. ~Waiting(stack', t) /\ Len(answers'[t]) = n + 1
        BY <1>4, <1>7, <3>1
      <4> QED
        BY <1>5, <4>1
    <3>2. CASE t # c
      <4>1. t \in TaskIds /\ answers'[t] = answers[t] /\ (Waiting(stack', t) <=> Waiting(stack, t))
        BY <1>4, <1>6, <3>2, Facts DEF Waiting
      <4> QED
        BY <4>1 DEF Answered
    <3> QED
      BY <3>1, <3>2
  <2>3. \A t \in TaskIds : \A k \in 1 .. Len(answers'[t]) : answers'[t][k] < next_pid'
    <3> SUFFICES ASSUME NEW t \in TaskIds, NEW k \in 1 .. Len(answers'[t])
                 PROVE  answers'[t][k] < next_pid
      BY <1>1
    <3>1. new < next_pid /\ new \in Nat
      BY <1>3 DEF new
    <3>2. CASE answers'[t][k] = new
      BY <3>1, <3>2
    <3>3. CASE k \in 1 .. Len(answers[t]) /\ answers'[t][k] = answers[t][k]
      BY <1>3, <1>5, <1>9, <3>1, <3>3
    <3> QED
      BY <1>10, <3>2, <3>3
  <2> QED
    BY <1>6, <2>1, <2>2, <2>3 DEF Answered
<1>12. ForkAnswers'
  <2>1. \A t \in TaskIds : \A k \in 1 .. Len(answers'[t]) :
          /\ answers'[t][k] = 0 <=> (k = 1 /\ t # 1)
          /\ answers'[t][k] < next_pid'
    <3> SUFFICES ASSUME NEW t \in TaskIds, NEW k \in 1 .. Len(answers'[t])
                 PROVE  /\ answers'[t][k] = 0 <=> (k = 1 /\ t # 1)
                        /\ answers'[t][k] < next_pid'
      OBVIOUS
    <3>1. CASE t = c /\ k = n + 1
      BY <1>1, <1>3, <1>4, <1>5, <1>8, <3>1 DEF new
    <3>2. CASE ~(t = c /\ k = n + 1)
      BY <1>1, <1>10, <3>2 DEF ForkAnswers
    <3> QED
      BY <3>1, <3>2
  <2>2. \A t, u \in TaskIds : \A j \in 1 .. Len(answers'[t]), k \in 1 .. Len(answers'[u]) :
          answers'[t][j] # 0 /\ answers'[t][j] = answers'[u][k] => t = u /\ j = k
    <3> SUFFICES ASSUME NEW t \in TaskIds, NEW u \in TaskIds,
                        NEW j \in 1 .. Len(answers'[t]), NEW k \in 1 .. Len(answers'[u]),
                        answers'[t][j] # 0, answers'[t][j] = answers'[u][k]
                 PROVE  t = u /\ j = k
      OBVIOUS
    <3>1. \A v \in TaskIds : \A i \in 1 .. Len(answers[v]) : answers[v][i] # new
      BY <1>3, <1>5, <1>9
    <3>2. CASE t = c /\ j = n + 1
      BY <1>10, <3>1, <3>2
    <3>3. CASE u = c /\ k = n + 1
      BY <1>10, <3>1, <3>3
    <3>4. CASE ~(t = c /\ j = n + 1) /\ ~(u = c /\ k = n + 1)
      <4>1. /\ j \in 1 .. Len(answers[t]) /\ answers'[t][j] = answers[t][j]
            /\ k \in 1 .. Len(answers[u]) /\ answers'[u][k] = answers[u][k]
        BY <1>10, <3>4
      <4>2. answers[t][j] # 0 /\ answers[t][j] = answers[u][k] => t = u /\ j = k
        <5>1. \A v, w \in TaskIds : \A a \in 1 .. Len(answers[v]), b \in 1 .. Len(answers[w]) :
                answers[v][a] # 0 /\ answers[v][a] = answers[w][b] => v = w /\ a = b
          BY Zenon DEF ForkAnswers
        <5> QED
          BY <4>1, <5>1, SMT
      <4> QED
        BY <4>1, <4>2
    <3> QED
      BY <3>2, <3>3, <3>4
  <2> QED
    BY <2>1, <2>2 DEF ForkAnswers
<1> QED
  BY <1>11, <1>12

(* fork in the task that it made *)
LEMMA ChildAnswers ==
  ASSUME Inv, Answered, ForkAnswers, ForkChild
  PROVE  Answered' /\ ForkAnswers'
<1> DEFINE c == current_task
<1>1. /\ at = "test" /\ Depth > 0 /\ Depth = 1 /\ c # 0 /\ Top.parent # c /\ Top.parent # 0
      /\ Pop /\ Top = stack[c][1] /\ Len(stack[c]) = 1 /\ Running = c
      /\ UNCHANGED <<next_pid, current_task>> /\ IF_' = IF_ /\ at' = Top.back
      /\ answers' = [answers EXCEPT ![c] = Append(answers[c], 0)]
  BY DEF ForkChild, Inv, Position, Top, Depth, Running
<1>2. ~InFork /\ ~Unnamed /\ ~Unnamed'
  <2>1. at' = "code" /\ (InFork => Top.parent = c)
    BY <1>1, BelowTop DEF Inv, Parents, Base
  <2> QED
    BY <1>1, <2>1 DEF InFork, Unnamed
<1>3. c \in Made /\ c \in Linked /\ c \in TaskIds /\ next_pid \in Nat /\ Made = Linked
  BY <1>1, Facts DEF Linked, Made, TaskIds
<1>4. Waiting(stack, c) /\ c # 1
  <2>1. Top.parent \in 1 .. c - 1
    BY <1>1, <1>2, <1>3, ForkedBy
  <2> QED
    BY <1>1, <2>1 DEF Waiting
<1>5. Len(answers[c]) = 0
  BY <1>3, <1>4 DEF Answered
<1>6. /\ \A u \in TaskIds : u # c => answers'[u] = answers[u]
      /\ Len(answers'[c]) = 1 /\ answers'[c][1] = 0
  <2>1. 0 \in 0 .. MaxTasks
    BY Facts
  <2> QED
    <3> HIDE DEF c
    <3>1. /\ \A u \in TaskIds : u # c => answers'[u] = answers[u]
          /\ Len(answers'[c]) = Len(answers[c]) + 1
          /\ answers'[c][Len(answers[c]) + 1] = 0
      BY <1>1, <1>3, <2>1, OneMoreAnswer
    <3> QED
      BY <1>5, <3>1
<1>7. Linked' = Linked /\ (\A t \in Linked : t # c => stack'[t] = stack[t]) /\ ~Waiting(stack', c)
  <2>1. (\A t \in Made : t # Running => stack'[t] = stack[t]) /\ Len(stack'[Running]) = 0
    BY <1>1, PopEffect
  <2> QED
    BY <1>1, <1>3, <2>1 DEF Linked, Waiting
<1> HIDE DEF c
<1>8. Answered'
  <2>1. \A t \in TaskIds \ Linked : Len(answers'[t]) = 0
    BY <1>3, <1>6 DEF Answered
  <2>2. \A t \in Linked \ {1} : Waiting(stack', t) <=> Len(answers'[t]) = 0
    <3> SUFFICES ASSUME NEW t \in Linked \ {1} PROVE Waiting(stack', t) <=> Len(answers'[t]) = 0
      OBVIOUS
    <3>1. CASE t = c
      <4>1. ~Waiting(stack', t) /\ Len(answers'[t]) = 1
        BY <1>6, <1>7, <3>1
      <4> QED
        BY <4>1
    <3>2. CASE t # c
      <4>1. t \in TaskIds /\ answers'[t] = answers[t] /\ (Waiting(stack', t) <=> Waiting(stack, t))
        BY <1>6, <1>7, <3>2, Facts DEF Waiting
      <4> QED
        BY <4>1 DEF Answered
    <3> QED
      BY <3>1, <3>2
  <2>3. \A t \in TaskIds : \A k \in 1 .. Len(answers'[t]) : answers'[t][k] < next_pid'
    <3>1. next_pid > 0
      BY Facts
    <3> QED
      BY <1>1, <1>2, <1>6, <3>1 DEF Answered
  <2> QED
    BY <1>2, <1>7, <2>1, <2>2, <2>3 DEF Answered
<1>9. ForkAnswers'
  <2>1. \A t \in TaskIds : \A k \in 1 .. Len(answers'[t]) :
          /\ answers'[t][k] = 0 <=> (k = 1 /\ t # 1)
          /\ answers'[t][k] < next_pid'
    <3> SUFFICES ASSUME NEW t \in TaskIds, NEW k \in 1 .. Len(answers'[t])
                 PROVE  /\ answers'[t][k] = 0 <=> (k = 1 /\ t # 1)
                        /\ answers'[t][k] < next_pid'
      OBVIOUS
    <3>1. CASE t = c
      <4>1. Len(answers'[t]) = 1 /\ 1 .. 1 = {1} /\ 0 < next_pid
        BY <1>3, <1>6, <3>1, Facts
      <4>2. k = 1 /\ answers'[t][k] = 0
        BY <1>6, <3>1, <4>1
      <4> QED
        BY <1>1, <1>4, <3>1, <4>1, <4>2
    <3>2. CASE t # c
      BY <1>1, <1>6, <3>2 DEF ForkAnswers
    <3> QED
      BY <3>1, <3>2
  <2>2. \A t, u \in TaskIds : \A j \in 1 .. Len(answers'[t]), k \in 1 .. Len(answers'[u]) :
          answers'[t][j] # 0 /\ answers'[t][j] = answers'[u][k] => t = u /\ j = k
    <3>1. \A j \in 1 .. Len(answers'[c]) : answers'[c][j] = 0
      BY <1>6
    <3> QED
      BY <1>6, <3>1 DEF ForkAnswers
  <2> QED
    BY <2>1, <2>2 DEF ForkAnswers
<1> QED
  BY <1>8, <1>9

(* the link of a new task *)
LEMMA LinkAnswers ==
  ASSUME Inv, Answered, ForkAnswers, ForkLink
  PROVE  Answered' /\ ForkAnswers'
<1> DEFINE c == current_task
           new == next_pid
<1>1. /\ at = "fork" /\ Depth = 1 /\ c # 0 /\ Top.parent = c /\ answers' = answers
      /\ Top = stack[c][1] /\ Len(stack[c]) = 1
      /\ next_pid' = new + 1 /\ new \in TaskIds /\ new \in Nat /\ c \in 1 .. new - 1
      /\ stack' = [stack EXCEPT ![new] = stack[c]]
  <2>1. at = "fork" /\ next_pid <= MaxTasks
    BY DEF ForkLink
  <2>2. c # 0 /\ Depth = 1 /\ Running = c /\ Top.parent = c
    BY <2>1 DEF Inv, Position, Parents, InFork, Running
  <2> QED
    BY <2>1, <2>2, Facts DEF ForkLink, Top, Depth, TaskIds
<1>2. Linked' = Linked \cup {new} /\ new \notin Linked /\ new # 1 /\ Linked \subseteq TaskIds
  <2>1. Linked = 1 .. new - 1 /\ Linked' = 1 .. new + 1 - 1
    BY <1>1 DEF Linked
  <2>3. Linked \subseteq TaskIds
    BY Facts
  <2> HIDE DEF new, c
  <2>2. 1 .. new + 1 - 1 = 1 .. new /\ 1 .. new = (1 .. new - 1) \cup {new}
    BY <1>1
  <2> QED
    BY <1>1, <2>1, <2>2, <2>3
<1>3. /\ stack'[new] = stack[c] /\ \A t \in Linked : stack'[t] = stack[t]
  BY <1>1, <1>2, Facts DEF TaskIds
<1>4. Waiting(stack', new) /\ \A t \in Linked : Waiting(stack', t) <=> Waiting(stack, t)
  <2>1. \A t \in Linked : Waiting(stack', t) <=> Waiting(stack, t)
    BY <1>3 DEF Waiting
  <2>2. Len(stack'[new]) = 1 /\ stack'[new][1].parent = c
    BY <1>1, <1>3
  <2>3. Waiting(stack', new)
    BY <1>1, <2>2 DEF Waiting
  <2> QED
    BY <2>1, <2>3
<1>5. Len(answers[new]) = 0
  BY <1>1, <1>2 DEF Answered
<1>6. \A t \in TaskIds : \A k \in 1 .. Len(answers[t]) :
        answers[t][k] \in Nat /\ answers[t][k] < next_pid
  BY AnswersTyped DEF ForkAnswers
<1> HIDE DEF new, c
<1>7. Answered'
  <2>1. \A t \in TaskIds \ Linked' : Len(answers'[t]) = 0
    BY <1>1, <1>2 DEF Answered
  <2>2. \A t \in Linked' \ {1} : Waiting(stack', t) <=> Len(answers'[t]) = 0
    BY <1>1, <1>2, <1>4, <1>5 DEF Answered
  <2>3. \A t \in TaskIds : \A k \in 1 .. Len(answers'[t]) :
          answers'[t][k] < next_pid' - 1 /\ answers'[t][k] < next_pid'
    BY <1>1, <1>6 DEF new
  <2> QED
    BY <2>1, <2>2, <2>3 DEF Answered
<1>8. ForkAnswers'
  BY <1>1, <1>6 DEF ForkAnswers, new
<1> QED
  BY <1>7, <1>8

(* the first task *)
LEMMA StartAnswers ==
  ASSUME Inv, Answered, ForkAnswers, initialise_tasking
  PROVE  Answered' /\ ForkAnswers'
<1>1. next_pid = 1 /\ next_pid' = 2 /\ answers' = answers /\ IF_' = TRUE
  BY DEF initialise_tasking, Inv, Position, Queue
<1>2. Linked = {} /\ Linked' = {1}
  BY <1>1 DEF Linked
<1>3. \A t \in TaskIds : Len(answers[t]) = 0
  BY <1>2 DEF Answered
<1> QED
  BY <1>1, <1>2, <1>3 DEF Answered, ForkAnswers, Unnamed

(* Every step of the tasks keeps what is known of the answers. *)
LEMMA AnswersStep ==
  ASSUME Inv, Answered, ForkAnswers, [Next]_vars
  PROVE  Answered' /\ ForkAnswers'
<1>1. CASE DisableInterrupts \/ EndOfInterrupt \/ SwitchNone \/ SwitchSave \/ Halt \/ UNCHANGED vars
  <2>1. stack' = stack /\ answers' = answers /\ next_pid' = next_pid /\ (Unnamed' => Unnamed)
    BY <1>1 DEF DisableInterrupts, EndOfInterrupt, SwitchNone, SwitchSave, Halt, vars, Unnamed
  <2> QED
    BY <2>1, StackSame, AnswersSame
<1>2. CASE SwitchJump
  <2>1. answers' = answers /\ next_pid' = next_pid /\ ~Unnamed'
    BY <1>2 DEF SwitchJump, Unnamed
  <2> QED
    BY <1>2, <2>1, JumpContext, StackSame, AnswersSame
<1>3. CASE Fork
  <2> DEFINE f == [back |-> "code", parent |-> current_task]
  <2>1. /\ Depth = 0 /\ current_task # 0 /\ Base = "code" /\ Running = current_task /\ Push(f)
        /\ UNCHANGED <<next_pid, current_task, answers>> /\ ~Unnamed'
    BY <1>3 DEF Inv, Position, Fork, Base, Running, Unnamed
  <2>2. f \in Frame /\ f.back = "code" /\ f.parent = Running
    BY <2>1, Facts DEF Frame, Places
  <2> HIDE DEF f
  <2>3. /\ \A t \in Made : t # Running => stack'[t] = stack[t]
        /\ stack'[Running][1] = f
    BY <2>1, <2>2, PushEffect
  <2>4. Linked \subseteq Made /\ ~Waiting(stack, Running) /\ ~Waiting(stack', Running)
    BY <2>1, <2>2, <2>3, Facts DEF Waiting, Depth, Running
  <2>5. \A t \in Linked : Waiting(stack', t) <=> Waiting(stack, t)
    BY <2>3, <2>4 DEF Waiting
  <2> QED
    BY <2>1, <2>5, AnswersSame
<1>4. CASE Tick
  <2> DEFINE f == [back |-> at, parent |-> 0]
  <2>1. /\ IF_ /\ at \notin Stopped /\ at \in Places /\ at' = "irq" /\ Push(f)
        /\ UNCHANGED <<next_pid, current_task, answers>>
    BY <1>4 DEF Inv, TypeOK, Tick
  <2>2. f \in Frame /\ f.back = at /\ f.parent = 0
    BY <2>1, Facts DEF Frame
  <2>3. at \in {"boot", "code", "test", "switched"}
    BY <2>1 DEF Inv, Masked, Stopped, Places
  <2>4. /\ Depth = 0 => at = Base
        /\ Depth > 0 => at = (IF Top.parent = 0 THEN "switched" ELSE "test")
    BY <2>3, Facts DEF Inv, Position, Base
  <2> HIDE DEF f
  <2>5. /\ \A t \in Made : t # Running => stack'[t] = stack[t]
        /\ stack'[Running][1] = (IF Depth = 0 THEN f ELSE stack[Running][1])
        /\ Len(stack'[Running]) = Depth + 1
    BY <2>1, <2>2, <2>4, PushEffect
  <2>6. \A t \in Linked : Waiting(stack', t) <=> Waiting(stack, t)
    <3>1. Linked \subseteq Made /\ Depth \in Nat /\ Depth = Len(stack[Running])
      BY Facts DEF Depth
    <3>2. CASE Depth = 0
      <4>1. ~Waiting(stack, Running) /\ ~Waiting(stack', Running)
        BY <2>2, <2>5, <3>1, <3>2 DEF Waiting
      <4> QED
        BY <2>5, <3>1, <4>1 DEF Waiting
    <3>3. CASE Depth > 0
      <4>1. Waiting(stack, Running) <=> Waiting(stack', Running)
        BY <2>2, <2>5, <3>1, <3>3 DEF Waiting
      <4> QED
        BY <2>5, <3>1, <4>1 DEF Waiting
    <3> QED
      BY <3>1, <3>2, <3>3
  <2> QED
    BY <2>1, <2>6, AnswersSame DEF Unnamed
<1>5. CASE InterruptReturn
  <2>1. /\ Depth > 0 /\ Depth \in Nat /\ Pop /\ IF_' = TRUE /\ Top.parent = 0
        /\ UNCHANGED <<next_pid, current_task, answers>>
    BY <1>5, Facts DEF InterruptReturn, Inv, Position
  <2>2. /\ \A t \in Made : t # Running => stack'[t] = stack[t]
        /\ Depth > 1 => stack'[Running][1] = stack[Running][1]
        /\ Len(stack'[Running]) = Depth - 1
    BY <2>1, PopEffect
  <2>3. \A t \in Linked : Waiting(stack', t) <=> Waiting(stack, t)
    <3>1. Linked \subseteq Made /\ Depth = Len(stack[Running]) /\ Top = stack[Running][Depth]
      BY Facts DEF Depth, Top
    <3>2. CASE Depth = 1
      BY <2>1, <2>2, <3>1, <3>2 DEF Waiting
    <3>3. CASE Depth > 1
      BY <2>2, <3>1, <3>3 DEF Waiting
    <3> QED
      BY <2>1, <3>2, <3>3
  <2> QED
    BY <2>1, <2>3, AnswersSame DEF Unnamed
<1> QED
  BY <1>1, <1>2, <1>3, <1>4, <1>5, StartAnswers, LinkAnswers, ParentAnswers, ChildAnswers DEF Next

(* fork returns once in each of its two tasks: the number of the new task, which
   nobody else was told, in the one that called it, and 0 in the new one before
   anything else, however forks and timer interrupts interleave
   (task.c:103-118).                                                        *)
THEOREM ForkAnswersEach == Spec => []ForkAnswers
<1>1. Inv /\ Answered /\ ForkAnswers /\ [Next]_vars => (Answered /\ ForkAnswers)'
  BY AnswersStep
<1> QED
  BY <1>1, AnswersInit, Invariant, PTL DEF Spec

-----------------------------------------------------------------------------
(* Every step is a step of the round-robin scheduler or changes neither the
   number of tasks nor whose turn it is: the ready queue is always the tasks
   in the order of their numbers (task.c:98-101, 144-145).                  *)
THEOREM TasksTakeTurns == Spec => InTurns
<1>1. Init => Turns!Init
  BY DEF Init, Turns!Init
<1>2. Inv /\ [Next]_vars => [Turns!Next]_(Turns!vars)
  <2> SUFFICES ASSUME Inv, [Next]_vars, ~UNCHANGED <<next_pid - 1, current_task>>
               PROVE  Turns!Next
    BY DEF Turns!vars
  <2>1. CASE initialise_tasking
    <3>1. next_pid = 1
      BY <2>1 DEF initialise_tasking, Inv, Position, Queue
    <3> QED
      BY <2>1, <3>1 DEF initialise_tasking, Turns!Next, Turns!Start
  <2>2. CASE ForkLink
    <3>1. current_task # 0 /\ next_pid > 1
      BY <2>2, Facts DEF ForkLink, Inv, Position, Queue
    <3> QED
      BY <2>2, <3>1, Facts DEF ForkLink, Turns!Next, Turns!Spawn
  <2>3. CASE SwitchJump
    <3>1. /\ current_task # 0 /\ current_task' = Following /\ next_pid' = next_pid
      BY <2>3 DEF SwitchJump, Inv, Position
    <3>2. /\ current_task \in 1 .. next_pid - 1 /\ next_pid \in Nat /\ next_pid > 1
      BY <3>1, Facts
    <3>3. current_task % (next_pid - 1) = (IF current_task + 1 < next_pid THEN current_task ELSE 0)
      BY <3>2, SMT
    <3> QED
      BY <3>1, <3>2, <3>3, FollowingTask DEF Turns!Next, Turns!Turn
  <2>4. CASE \/ DisableInterrupts \/ Fork \/ ForkParent \/ ForkChild \/ Tick \/ EndOfInterrupt
             \/ SwitchNone \/ SwitchSave \/ InterruptReturn \/ Halt \/ UNCHANGED vars
    BY <2>4
    DEF DisableInterrupts, Fork, ForkParent, ForkChild, Tick, EndOfInterrupt, SwitchNone,
        SwitchSave, InterruptReturn, Halt, vars
  <2> QED
    BY <2>1, <2>2, <2>3, <2>4 DEF Next
<1> QED
  BY <1>1, <1>2, Invariant, PTL DEF Spec, InTurns, Turns!Spec
=============================================================================
