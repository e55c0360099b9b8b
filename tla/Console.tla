------------------------------- MODULE Console -------------------------------
(***************************************************************************)
(* The console of common/screen.c: cons_putc, called character by          *)
(* character by the printf of main, and by the printf of the keyboard's    *)
(* handler (common/devices/keyboard.c), which interrupts it.               *)
(*                                                                         *)
(* The build does not optimise: curr_row += 1 is a load and a store, PUT   *)
(* loads the row, then the column, then writes.  Each is a step here, and  *)
(* the key interrupt may come between any two; the handler itself runs     *)
(* with interrupts off (interrupt.s 53-60, 139-146), so it is one step.    *)
(***************************************************************************)
EXTENDS Integers

CONSTANTS
  MAX_COL, MAX_ROW,     (* the size of the screen                           *)
  Text,                 (* kinds of characters that main prints             *)
  KeyCodes,             (* kinds of key codes that the keyboard sends       *)
  MaxKeys               (* bound: keys pressed                              *)

ASSUME ConsoleAssumption ==
  /\ MAX_COL \in 8 .. 254 /\ MAX_COL % 8 = 0      (* curr_col and curr_row  *)
  /\ MAX_ROW \in 1 .. 254                         (* are bytes              *)
  /\ Text \subseteq {"plain", "newline", "tab"}
  /\ KeyCodes \subseteq {"plain", "enter", "tab", "backspace", "release"}
  /\ MaxKeys \in Nat

VARIABLES
  curr_col, curr_row,
  written,              (* the cells that the last step has written         *)
  at,                   (* where main is in cons_putc; "idle" outside of it *)
  c,                    (* the kind of main's character                     *)
  row, col,             (* the registers that main has loaded them into     *)
  IF_,                  (* the interrupt flag                               *)
  keys                  (* the keys still to be pressed                     *)

vars == <<curr_col, curr_row, written, at, c, row, col, IF_, keys>>

VRAM_SIZE == MAX_COL * MAX_ROW
Cell(p) == p.row * MAX_COL + p.col

-----------------------------------------------------------------------------
(* cons_putc, undisturbed, on a cursor p *)
(* Mutants: an end that was passed is not seen; it is seen one late; the last
   line is no end.                                                          *)
AtEnd_equal(n, limit) == n = limit

AtEnd_late(n, limit) == n > limit

NextLine_unbounded(p) == [col |-> 0, row |-> p.row + 1]

AtEnd(n, limit) == n >= limit

NextLine(p) == [col |-> 0, row |-> IF AtEnd(p.row + 1, MAX_ROW) THEN 0 ELSE p.row + 1]

Forward(p) == IF AtEnd(p.col + 1, MAX_COL) THEN NextLine(p) ELSE [p EXCEPT !.col = @ + 1]

(* the cursor after the spaces of a tab: one at least *)
NextStop(p) ==
  LET stop == ((p.col \div 8) + 1) * 8
  IN  IF AtEnd(stop, MAX_COL) THEN NextLine(p) ELSE [p EXCEPT !.col = stop]

(* the cells from p to the end of its tab, in its line *)
TabCells(p) ==
  LET stop == ((p.col \div 8) + 1) * 8
  IN  {Cell([p EXCEPT !.col = k]) : k \in p.col .. (IF p.col >= MAX_COL THEN p.col ELSE stop - 1)}

(* What the handler prints for a code: the cursor and the cells it writes *)
Handled(code, p) ==
  CASE code = "plain"     -> [cursor |-> Forward(p), cells |-> {Cell(p)}]
    [] code = "enter"     -> [cursor |-> NextLine(p), cells |-> {}]
    [] code = "tab"       -> [cursor |-> NextStop(p), cells |-> TabCells(p)]
    [] code = "backspace" /\ p.col > 0 ->
         [cursor |-> [p EXCEPT !.col = @ - 1], cells |-> {Cell(p) - 1}]
    [] OTHER              -> [cursor |-> p, cells |-> {}]

-----------------------------------------------------------------------------
Init ==
  /\ curr_col = 0 /\ curr_row = 0
  /\ written = {}
  /\ at = "idle" /\ c = "plain"
  /\ row = 0 /\ col = 0
  /\ IF_ = FALSE
  /\ keys = MaxKeys

(* clear_screen, which main calls while interrupts are off *)
clear_screen ==
  /\ at = "idle" /\ ~IF_
  /\ curr_col' = 0 /\ curr_row' = 0
  /\ written' = 0 .. VRAM_SIZE - 1
  /\ UNCHANGED <<at, c, row, col, IF_, keys>>

(* main: init_keyboard(); sti *)
EnableInterrupts ==
  /\ at = "idle" /\ ~IF_
  /\ IF_' = TRUE
  /\ written' = {}
  /\ UNCHANGED <<curr_col, curr_row, at, c, row, col, keys>>

(* main prints a character: putchar puts a carriage return before a newline *)
Putchar(kind) ==
  /\ at = "idle"
  /\ c' = kind
  /\ at' = IF kind = "newline" THEN "zero" ELSE "row"
  /\ written' = {}
  /\ UNCHANGED <<curr_col, curr_row, row, col, IF_, keys>>

(* A step of main in cons_putc, from one place to another *)
Step(from, to) ==
  /\ at = from /\ at' = to
  /\ UNCHANGED <<c, IF_, keys>>

Silent(from, to) == Step(from, to) /\ written' = {}

(* PUT(c) *)
LoadRow ==
  Silent("row", "column") /\ row' = curr_row /\ UNCHANGED <<curr_col, curr_row, col>>

LoadColumn ==
  Silent("column", "put") /\ col' = curr_col /\ UNCHANGED <<curr_col, curr_row, row>>

Put ==
  /\ Step("put", "load")
  /\ written' = {Cell([row |-> row, col |-> col])}
  /\ UNCHANGED <<curr_col, curr_row, row, col>>

(* curr_col += 1; if (curr_col >= MAX_COL) *)
IncrementColumn ==
  \/ Silent("load", "store") /\ col' = curr_col /\ UNCHANGED <<curr_col, curr_row, row>>
  \/ Silent("store", "wrap") /\ curr_col' = col + 1 /\ UNCHANGED <<curr_row, row, col>>

(* The end of the call, or of one turn of the loop of a tab.
   Mutant: the loop has no end.                                             *)
Return_loop == IF c = "tab" THEN "row" ELSE "idle"

Return == IF c = "tab" THEN "tabs" ELSE "idle"

WrapColumn ==
  /\ Silent("wrap", IF AtEnd(curr_col, MAX_COL) THEN "zero" ELSE Return)
  /\ UNCHANGED <<curr_col, curr_row, row, col>>

(* curr_col = 0, of a wrap or a carriage return *)
ZeroColumn ==
  Silent("zero", "rload") /\ curr_col' = 0 /\ UNCHANGED <<curr_row, row, col>>

(* curr_row += 1 *)
IncrementRow ==
  \/ Silent("rload", "rstore") /\ row' = curr_row /\ UNCHANGED <<curr_col, curr_row, col>>
  \/ Silent("rstore", "rwrap") /\ curr_row' = row + 1 /\ UNCHANGED <<curr_col, row, col>>

(* if (curr_row >= MAX_ROW) curr_row = 0 *)
WrapRow ==
  \/ /\ Silent("rwrap", IF AtEnd(curr_row, MAX_ROW) THEN "rzero" ELSE Return)
     /\ UNCHANGED <<curr_col, curr_row, row, col>>
  \/ Silent("rzero", Return) /\ curr_row' = 0 /\ UNCHANGED <<curr_col, row, col>>

(* while ((curr_col % 8) != 0), of a tab *)
TabLoop ==
  /\ Silent("tabs", IF curr_col % 8 = 0 THEN "idle" ELSE "row")
  /\ UNCHANGED <<curr_col, curr_row, row, col>>

cons_putc ==
  \/ LoadRow \/ LoadColumn \/ Put
  \/ IncrementColumn \/ WrapColumn \/ ZeroColumn
  \/ IncrementRow \/ WrapRow
  \/ TabLoop

(* A key is pressed: keyboard_press_callback prints what it stands for. *)
keyboard_press_callback(code) ==
  /\ IF_ /\ keys > 0
  /\ LET done == Handled(code, [col |-> curr_col, row |-> curr_row])
     IN  /\ curr_col' = done.cursor.col
         /\ curr_row' = done.cursor.row
         /\ written' = done.cells
  /\ keys' = keys - 1
  /\ UNCHANGED <<at, c, row, col, IF_>>

Next ==
  \/ clear_screen
  \/ EnableInterrupts
  \/ \E kind \in Text : Putchar(kind)
  \/ cons_putc
  \/ \E code \in KeyCodes : keyboard_press_callback(code)

(* The processor executes main whenever no handler runs. *)
Spec == Init /\ [][Next]_vars /\ WF_vars(cons_putc)

-----------------------------------------------------------------------------
Places == {"idle", "row", "column", "put", "load", "store", "wrap", "zero",
           "rload", "rstore", "rwrap", "rzero", "tabs"}

(* Every variable has its type: between an increment and its check the cursor
   is one past the end, and no interrupt carries it further.                *)
TypeOK ==
  /\ curr_col \in 0 .. MAX_COL /\ curr_row \in 0 .. MAX_ROW
  /\ written \subseteq Int
  /\ at \in Places
  /\ c \in {"plain", "newline", "tab"}
  /\ row \in 0 .. MAX_ROW /\ col \in 0 .. MAX_COL
  /\ IF_ \in BOOLEAN
  /\ keys \in 0 .. MaxKeys

(* The cursor is on the screen whenever main is not between an increment and
   its check, whatever keys came in the meantime (screen.c:38-57).          *)
CursorOnScreen ==
  /\ at \notin {"wrap", "zero"} => curr_col < MAX_COL
  /\ at \notin {"rwrap", "rzero"} => curr_row < MAX_ROW

(* What is written past the screen, by a handler that finds the cursor past
   the end, is in the line below it (screen.c:14, 47-57).                   *)
WritesNearScreen == \A cell \in written : cell \in 0 .. VRAM_SIZE + MAX_COL - 1

(* Every character that main prints is printed in the end: the loop of a tab
   ends although keys move the cursor (screen.c:25-31).                     *)
CharacterPrinted == (at # "idle") ~> (at = "idle")
=============================================================================
