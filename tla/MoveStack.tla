------------------------------ MODULE MoveStack ------------------------------
(***************************************************************************)
(* move_stack of common/stdlib/task.c, which initialise_tasking calls with  *)
(* interrupts off: pages are mapped for a new stack, the live words of the  *)
(* old one are copied to its top, the words of the copy that look like      *)
(* pointers into the old stack are relocated, and the processor goes on     *)
(* there.  An address is counted in words of 4 bytes.                      *)
(***************************************************************************)
EXTENDS Integers

CONSTANTS
  PageWords,     (* words of a page: 1024                                   *)
  StackPointer,  (* move_stack's first argument: 0xE0000000                 *)
  StackWords,    (* its second argument: 0x2000                             *)
  stack_esp,     (* the stack pointer that the loader found                 *)
  Stacks         (* what the stack may be then: esp, ebp, and its words     *)

Live(stack) == stack.esp .. stack_esp - 1

(* whole pages above the old stack, and a live stack smaller than the new one *)
MoveStackAssumption ==
  /\ PageWords \in Nat \ {0}
  /\ StackWords \in Nat /\ StackWords % PageWords = 0
  /\ StackPointer \in Nat /\ StackPointer % PageWords = 0
  /\ stack_esp \in Nat /\ stack_esp + StackWords < StackPointer
  /\ \A stack \in Stacks :
       /\ stack.esp \in Nat
       /\ stack.esp <= stack_esp /\ stack_esp - stack.esp < StackWords
       /\ stack.ebp \in Live(stack)
       /\ stack.words \in [Live(stack) -> Int]

VARIABLES
  moving,        (* the statement of move_stack to run next                 *)
  top,           (* the loop variable i of the first loop                   *)
  mapped,        (* pages that have a frame                                 *)
  words,         (* the words of memory that hold a stack                   *)
  esp, ebp,
  old            (* history: the stack that is moved                        *)

vars == <<moving, top, mapped, words, esp, ebp, old>>

WordPage(a) == a \div PageWords
offset == StackPointer - stack_esp
new_esp == esp + offset

Begin(stack) ==
  /\ old' = stack /\ words' = stack.words /\ esp' = stack.esp /\ ebp' = stack.ebp
  /\ moving' = "map" /\ top' = StackPointer

MapMore == top >= StackPointer - StackWords

(* the first loop *)
MapStackPage ==
  /\ moving = "map" /\ MapMore
  /\ mapped' = mapped \cup {WordPage(top)}
  /\ top' = top - PageWords
  /\ UNCHANGED <<moving, words, esp, ebp, old>>

Pages(first, last) == WordPage(first) .. WordPage(last)

(* What follows reads or writes these pages; one without a frame is a fault. *)
Access(pages, next) == moving' = IF pages \subseteq mapped THEN next ELSE "fault"

(* memcpy of the live words *)
CopyStack ==
  /\ moving = "map" /\ ~MapMore
  /\ Access(Pages(esp, stack_esp - 1) \cup Pages(new_esp, StackPointer - 1), "relocate")
  /\ words' = [a \in DOMAIN words \cup (new_esp .. StackPointer - 1) |->
                 IF a >= new_esp THEN words[a - offset] ELSE words[a]]
  /\ UNCHANGED <<top, mapped, esp, ebp, old>>

(* Mutant: only pointers below the frame pointer are seen. *)
PointsIntoOld_frame(v) == esp < v /\ v < ebp

PointsIntoOld(v) == esp < v /\ v < stack_esp

(* the words that the second loop visits *)
ScanFirst == StackPointer - StackWords + 1

RelocateStack ==
  /\ moving = "relocate"
  /\ Access(Pages(ScanFirst, StackPointer), "switch")
  /\ words' = [a \in DOMAIN words |->
                 IF a \in ScanFirst .. StackPointer /\ PointsIntoOld(words[a])
                   THEN words[a] + offset ELSE words[a]]
  /\ UNCHANGED <<top, mapped, esp, ebp, old>>

SwitchStack ==
  /\ moving = "switch"
  /\ esp' = new_esp /\ ebp' = ebp + offset
  /\ moving' = "moved"
  /\ UNCHANGED <<top, mapped, words, old>>

Init ==
  \E stack \in Stacks :
    /\ old = stack /\ words = stack.words /\ esp = stack.esp /\ ebp = stack.ebp
    /\ moving = "map" /\ top = StackPointer
    /\ mapped = Pages(stack.esp, stack_esp - 1)
Next == MapStackPage \/ CopyStack \/ RelocateStack \/ SwitchStack
Spec == Init /\ [][Next]_vars

-----------------------------------------------------------------------------
(* Neither loop nor memcpy touches a word of a page that the first loop has not
   mapped, although the loops have different ends, and
   the processor goes on with the same stack at another place: each live word is
   there, a pointer to a live word above the top one points to that word's copy,
   frame pointers included, and what is no pointer into the stack is unchanged
   (task.c:168-209).                                                        *)
StackMoved ==
  /\ moving # "fault"
  /\ moving = "moved" =>
    /\ esp = old.esp + offset /\ ebp = old.ebp + offset
    /\ \A a \in Live(old) :
         LET was == old.words[a]
         IN  /\ a + offset \in DOMAIN words
             /\ old.esp < was /\ was < stack_esp => words[a + offset] = was + offset
             /\ was < old.esp \/ was > stack_esp => words[a + offset] = was
=============================================================================
