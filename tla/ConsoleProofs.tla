---------------------------- MODULE ConsoleProofs ----------------------------
(***************************************************************************)
(* Proofs about Console, for a screen of any size that its assumption      *)
(* allows: types, the cursor on the screen, and what is written past it.   *)
(***************************************************************************)
EXTENDS Console, TLAPS

LastCell == VRAM_SIZE + MAX_COL - 1

(* The cursor is past one end of the screen at most. *)
Cursors == {p \in [col : 0 .. MAX_COL, row : 0 .. MAX_ROW] :
              p.col < MAX_COL \/ p.row < MAX_ROW}

(* What main holds in registers was on the screen when it was loaded. *)
Registers ==
  /\ at \in {"column", "put", "rstore"} => row < MAX_ROW
  /\ at \in {"put", "store"} => col < MAX_COL

Inv == TypeOK /\ CursorOnScreen /\ Registers /\ WritesNearScreen

-----------------------------------------------------------------------------
(* Cells *)

(* The size of the screen in integers. *)
LEMMA Sizes ==
  /\ MAX_COL \in Nat /\ MAX_COL >= 8 /\ MAX_COL % 8 = 0
  /\ MAX_ROW \in Nat /\ MAX_ROW >= 1
BY ConsoleAssumption

(* Multiplication by the width is monotonic. *)
LEMMA Monotonic ==
  ASSUME NEW m \in Nat, NEW n \in Nat, m <= n, NEW w \in Nat
  PROVE  m * w <= n * w
<1> DEFINE d == n - m
<1>1. d \in Nat /\ n = m + d
  OBVIOUS
<1> HIDE DEF d
<1>2. n * w = m * w + d * w
  BY <1>1
<1>3. d * w \in Nat /\ m * w \in Nat
  BY <1>1
<1> QED BY <1>2, <1>3

(* A cursor that is past one end at most points to the screen or to the line
   below it (PUT, screen.c:15).                                             *)
LEMMA CellNear ==
  ASSUME NEW p \in Cursors
  PROVE  Cell(p) \in 0 .. LastCell
<1> DEFINE r == p.row  k == p.col
<1>1. /\ r \in Nat /\ k \in Nat /\ r <= MAX_ROW /\ k <= MAX_COL
      /\ k < MAX_COL \/ r < MAX_ROW
  BY Sizes DEF Cursors
<1>2. Cell(p) = r * MAX_COL + k
  BY DEF Cell
<1>3. LastCell = MAX_ROW * MAX_COL + MAX_COL - 1
  BY Sizes DEF LastCell, VRAM_SIZE
<1> HIDE DEF r, k
<1>4. r * MAX_COL \in Nat /\ MAX_ROW * MAX_COL \in Nat
  BY <1>1, Sizes
<1>5. CASE k < MAX_COL
  <2>1. r * MAX_COL <= MAX_ROW * MAX_COL
    BY <1>1, Sizes, Monotonic
  <2> QED BY <1>1, <1>2, <1>3, <1>4, <1>5, <2>1, Sizes
<1>6. CASE r < MAX_ROW
  <2>1. (r + 1) * MAX_COL <= MAX_ROW * MAX_COL
    BY <1>1, <1>6, Sizes, Monotonic
  <2>2. (r + 1) * MAX_COL = r * MAX_COL + MAX_COL
    BY <1>1, Sizes
  <2> QED BY <1>1, <1>2, <1>3, <1>4, <2>1, <2>2, Sizes
<1> QED BY <1>1, <1>5, <1>6

(* The cell in front of the cursor, which a backspace clears, is near too. *)
LEMMA CellBefore ==
  ASSUME NEW p \in Cursors, p.col > 0
  PROVE  Cell(p) - 1 \in 0 .. LastCell
<1>1. p.row * MAX_COL \in Nat /\ p.col \in Nat
  BY Sizes DEF Cursors
<1>2. Cell(p) >= 1
  BY <1>1 DEF Cell
<1>3. LastCell \in Int
  BY Sizes DEF LastCell, VRAM_SIZE
<1> QED BY CellNear, <1>2, <1>3

-----------------------------------------------------------------------------
(* The handler *)

(* Where the cursor is on the screen it stays there, and where it is past an
   end it does not go farther.                                              *)
Kept(p, q) ==
  /\ q \in Cursors
  /\ p.col < MAX_COL => q.col < MAX_COL
  /\ p.row < MAX_ROW => q.row < MAX_ROW

(* A new line keeps the cursor (screen.c:50-57). *)
LEMMA NextLineKeeps ==
  ASSUME NEW p \in Cursors
  PROVE  Kept(p, NextLine(p))
<1> DEFINE r == IF p.row + 1 >= MAX_ROW THEN 0 ELSE p.row + 1
<1>1. NextLine(p) = [col |-> 0, row |-> r]
  BY DEF NextLine, AtEnd
<1>2. r \in 0 .. MAX_ROW /\ r < MAX_ROW
  BY Sizes DEF Cursors
<1> HIDE DEF r
<1>3. [col |-> 0, row |-> r] \in Cursors
  BY <1>2, Sizes DEF Cursors
<1> QED BY <1>1, <1>2, <1>3, Sizes DEF Kept

(* Another column of the same line keeps the cursor. *)
LEMMA SameLineKeeps ==
  ASSUME NEW p \in Cursors, NEW k \in Nat, k < MAX_COL
  PROVE  Kept(p, [p EXCEPT !.col = k])
<1>1. [p EXCEPT !.col = k] = [col |-> k, row |-> p.row]
  BY DEF Cursors
<1>2. p.row \in 0 .. MAX_ROW
  BY DEF Cursors
<1>3. [col |-> k, row |-> p.row] \in Cursors
  BY <1>2, Sizes DEF Cursors
<1> QED BY <1>1, <1>3 DEF Kept

(* A character keeps the cursor (screen.c:46-57). *)
LEMMA ForwardKeeps ==
  ASSUME NEW p \in Cursors
  PROVE  Kept(p, Forward(p))
<1>1. p.col \in Nat
  BY DEF Cursors
<1>2. CASE AtEnd(p.col + 1, MAX_COL)
  BY <1>2, NextLineKeeps DEF Forward
<1>3. CASE ~AtEnd(p.col + 1, MAX_COL)
  <2>1. p.col + 1 \in Nat /\ p.col + 1 < MAX_COL
    BY <1>1, <1>3, Sizes DEF AtEnd
  <2>2. Kept(p, [p EXCEPT !.col = p.col + 1])
    BY <2>1, SameLineKeeps
  <2> QED BY <1>3, <2>2 DEF Forward
<1> QED BY <1>2, <1>3

(* A tab keeps the cursor (screen.c:23-28). *)
LEMMA NextStopKeeps ==
  ASSUME NEW p \in Cursors
  PROVE  Kept(p, NextStop(p))
<1> DEFINE stop == ((p.col \div 8) + 1) * 8
<1>1. stop \in Nat
  <2>1. p.col \in Nat
    BY DEF Cursors
  <2> QED BY <2>1
<1>2. NextStop(p) = IF AtEnd(stop, MAX_COL) THEN NextLine(p) ELSE [p EXCEPT !.col = stop]
  BY DEF NextStop
<1> HIDE DEF stop
<1>3. CASE AtEnd(stop, MAX_COL)
  BY <1>2, <1>3, NextLineKeeps
<1>4. CASE ~AtEnd(stop, MAX_COL)
  <2>1. stop < MAX_COL
    BY <1>1, <1>4, Sizes DEF AtEnd
  <2> QED BY <1>1, <1>2, <1>4, <2>1, SameLineKeeps
<1> QED BY <1>3, <1>4

(* The cells of a tab are near: its line is a whole number of tab stops. *)
LEMMA TabCellsNear ==
  ASSUME NEW p \in Cursors
  PROVE  TabCells(p) \subseteq 0 .. LastCell
<1> DEFINE n == p.col
           last == IF n >= MAX_COL THEN n ELSE ((n \div 8) + 1) * 8 - 1
<1>1. n \in Nat /\ n <= MAX_COL /\ p.row \in 0 .. MAX_ROW /\ (n < MAX_COL \/ p.row < MAX_ROW)
  BY Sizes DEF Cursors
<1>2. TabCells(p) = {Cell([p EXCEPT !.col = k]) : k \in n .. last}
  BY DEF TabCells
<1>3. last \in Int /\ last <= MAX_COL /\ (n < MAX_COL => last < MAX_COL)
  BY <1>1, Sizes
<1> HIDE DEF n, last
<1>4. ASSUME NEW k \in n .. last
      PROVE  Cell([p EXCEPT !.col = k]) \in 0 .. LastCell
  <2>1. k \in 0 .. MAX_COL /\ (k < MAX_COL \/ p.row < MAX_ROW)
    BY <1>1, <1>3, Sizes
  <2>2. [p EXCEPT !.col = k] = [col |-> k, row |-> p.row]
    BY DEF Cursors
  <2>3. [col |-> k, row |-> p.row] \in Cursors
    BY <1>1, <2>1 DEF Cursors
  <2> QED BY <2>2, <2>3, CellNear
<1> QED BY <1>2, <1>4

(* Whatever the key, the handler keeps the cursor and writes near the screen
   (keyboard.c:17-38).                                                      *)
LEMMA HandledKeeps ==
  ASSUME NEW p \in Cursors, NEW code \in KeyCodes
  PROVE  /\ Kept(p, Handled(code, p).cursor)
         /\ Handled(code, p).cells \subseteq 0 .. LastCell
<1>1. CASE code = "plain"
  <2>1. Handled(code, p) = [cursor |-> Forward(p), cells |-> {Cell(p)}]
    BY <1>1 DEF Handled
  <2> QED BY <2>1, ForwardKeeps, CellNear
<1>2. CASE code = "enter"
  <2>1. Handled(code, p) = [cursor |-> NextLine(p), cells |-> {}]
    BY <1>2 DEF Handled
  <2> QED BY <2>1, NextLineKeeps
<1>3. CASE code = "tab"
  <2>1. Handled(code, p) = [cursor |-> NextStop(p), cells |-> TabCells(p)]
    BY <1>3 DEF Handled
  <2> QED BY <2>1, NextStopKeeps, TabCellsNear
<1>4. CASE code = "backspace" /\ p.col > 0
  <2>1. Handled(code, p) = [cursor |-> [p EXCEPT !.col = p.col - 1], cells |-> {Cell(p) - 1}]
    BY <1>4 DEF Handled
  <2>2. p.col - 1 \in Nat /\ p.col - 1 < MAX_COL
    BY <1>4, Sizes DEF Cursors
  <2>3. Kept(p, [p EXCEPT !.col = p.col - 1])
    BY <2>2, SameLineKeeps
  <2> QED BY <2>1, <2>3, <1>4, CellBefore
<1>5. CASE /\ code \notin {"plain", "enter", "tab"}
           /\ ~(code = "backspace" /\ p.col > 0)
  <2>1. Handled(code, p) = [cursor |-> p, cells |-> {}]
    BY <1>5 DEF Handled
  <2> QED BY <2>1 DEF Kept
<1> QED BY <1>1, <1>2, <1>3, <1>4, <1>5

-----------------------------------------------------------------------------
(* The invariant *)

(* WritesNearScreen, as a set of cells. *)
LEMMA NearScreen ==
  /\ WritesNearScreen <=> written \subseteq 0 .. LastCell
  /\ 0 .. LastCell \subseteq Int
BY Sizes DEF WritesNearScreen, LastCell, VRAM_SIZE

(* The console starts with the cursor in the corner (screen.c:11-12). *)
LEMMA InitInv == Init => Inv
<1> SUFFICES ASSUME Init PROVE Inv
  OBVIOUS
<1>1. IF_ \in BOOLEAN
  BY Zenon DEF Init
<1>2. at \in Places
  BY DEF Init, Places
<1>3. keys \in 0 .. MaxKeys
  BY ConsoleAssumption DEF Init
<1>4. TypeOK
  <2>1. /\ curr_col \in 0 .. MAX_COL /\ curr_row \in 0 .. MAX_ROW
        /\ row \in 0 .. MAX_ROW /\ col \in 0 .. MAX_COL
        /\ written \subseteq Int /\ c \in {"plain", "newline", "tab"}
    BY Sizes DEF Init
  <2> QED BY <1>1, <1>2, <1>3, <2>1, Zenon DEF TypeOK
<1>5. CursorOnScreen /\ Registers /\ WritesNearScreen
  BY Sizes DEF Init, CursorOnScreen, Registers, WritesNearScreen
<1> QED BY <1>4, <1>5 DEF Inv

(* clear_screen writes the screen and no more, and main's registers hold
   nothing then (screen.c:66-77).                                           *)
LEMMA ClearInv == Inv /\ clear_screen => Inv'
<1> SUFFICES ASSUME Inv, clear_screen PROVE Inv'
  OBVIOUS
<1>1. 0 .. VRAM_SIZE - 1 \subseteq 0 .. LastCell
  BY Sizes DEF LastCell, VRAM_SIZE
<1>2. written' \subseteq 0 .. LastCell /\ written' \subseteq Int
  BY <1>1, NearScreen DEF clear_screen
<1>3. WritesNearScreen'
  BY <1>2 DEF WritesNearScreen, LastCell
<1> QED BY <1>2, <1>3, Sizes
        DEF Inv, clear_screen, TypeOK, CursorOnScreen, Registers, Places

(* Turning interrupts on (kernel.c:34) and starting a character. *)
LEMMA MainInv ==
  ASSUME Inv, EnableInterrupts \/ \E kind \in Text : Putchar(kind)
  PROVE  Inv'
<1>1. CASE EnableInterrupts
  BY <1>1, Sizes
     DEF Inv, EnableInterrupts, TypeOK, CursorOnScreen, Registers, WritesNearScreen, Places
<1>2. ASSUME NEW kind \in Text, Putchar(kind)
      PROVE  Inv'
  <2>1. kind \in {"plain", "newline", "tab"}
    BY ConsoleAssumption
  <2> QED BY <1>2, <2>1, Sizes
          DEF Inv, Putchar, TypeOK, CursorOnScreen, Registers, WritesNearScreen, Places
<1> QED BY <1>1, <1>2

(* Every step of cons_putc: the loads find the cursor on the screen, because
   the place they are at is not between an increment and its check.         *)
LEMMA PutcInv == Inv /\ cons_putc => Inv'
<1> SUFFICES ASSUME Inv, cons_putc PROVE Inv'
  OBVIOUS
<1> USE Sizes
<1>0. Return \in {"tabs", "idle"}
  BY DEF Return
<1> USE DEF Step, Silent, Inv, TypeOK, CursorOnScreen, Registers, Places
<1>1. CASE LoadRow
  BY <1>1 DEF LoadRow, WritesNearScreen
<1>2. CASE LoadColumn
  BY <1>2 DEF LoadColumn, WritesNearScreen
<1>3. CASE Put
  <2>1. [row |-> row, col |-> col] \in Cursors
    BY <1>3 DEF Put, Cursors
  <2>2. Cell([row |-> row, col |-> col]) \in 0 .. LastCell
    BY <2>1, CellNear
  <2>3. written' \subseteq 0 .. LastCell /\ written' \subseteq Int
    BY <1>3, <2>2, NearScreen DEF Put
  <2>4. WritesNearScreen'
    BY <2>3 DEF WritesNearScreen, LastCell
  <2> QED BY <1>3, <2>3, <2>4 DEF Put
<1>4. CASE IncrementColumn
  BY <1>4 DEF IncrementColumn, WritesNearScreen
<1>5. CASE WrapColumn
  BY <1>0, <1>5 DEF WrapColumn, WritesNearScreen, AtEnd
<1>6. CASE ZeroColumn
  BY <1>6 DEF ZeroColumn, WritesNearScreen
<1>7. CASE IncrementRow
  BY <1>7 DEF IncrementRow, WritesNearScreen
<1>8. CASE WrapRow
  BY <1>0, <1>8 DEF WrapRow, WritesNearScreen, AtEnd
<1>9. CASE TabLoop
  BY <1>9 DEF TabLoop, WritesNearScreen
<1> QED
  BY <1>1, <1>2, <1>3, <1>4, <1>5, <1>6, <1>7, <1>8, <1>9 DEF cons_putc

(* A key: the handler keeps the cursor, and main's registers are its own. *)
LEMMA KeyInv ==
  ASSUME Inv, NEW code \in KeyCodes, keyboard_press_callback(code)
  PROVE  Inv'
<1> DEFINE p == [col |-> curr_col, row |-> curr_row]
           done == Handled(code, p)
<1>1. p \in Cursors
  BY Sizes DEF Inv, TypeOK, CursorOnScreen, Cursors
<1>2. Kept(p, done.cursor) /\ done.cells \subseteq 0 .. LastCell
  BY <1>1, HandledKeeps
<1>3. /\ curr_col' = done.cursor.col /\ curr_row' = done.cursor.row
      /\ written' = done.cells
      /\ keys > 0 /\ keys' = keys - 1
      /\ UNCHANGED <<at, c, row, col, IF_>>
  BY DEF keyboard_press_callback
<1> HIDE DEF done
<1>4. /\ curr_col' \in 0 .. MAX_COL /\ curr_row' \in 0 .. MAX_ROW
      /\ curr_col < MAX_COL => curr_col' < MAX_COL
      /\ curr_row < MAX_ROW => curr_row' < MAX_ROW
  BY <1>2, <1>3 DEF Kept, Cursors
<1>5. written' \subseteq 0 .. LastCell /\ written' \subseteq Int
  BY <1>2, <1>3, NearScreen
<1>6. WritesNearScreen'
  BY <1>5 DEF WritesNearScreen, LastCell
<1>7. keys' \in 0 .. MaxKeys
  BY <1>3, ConsoleAssumption DEF Inv, TypeOK
<1>8. TypeOK'
  BY <1>3, <1>4, <1>5, <1>7 DEF Inv, TypeOK
<1>9. CursorOnScreen' /\ Registers'
  BY <1>3, <1>4 DEF Inv, CursorOnScreen, Registers
<1> QED BY <1>6, <1>8, <1>9 DEF Inv

(* Inv holds throughout. *)
THEOREM Invariance == Spec => []Inv
<1>1. Inv /\ [Next]_vars => Inv'
  <2> SUFFICES ASSUME Inv, [Next]_vars PROVE Inv'
    OBVIOUS
  <2>1. CASE UNCHANGED vars
    BY <2>1
       DEF vars, Inv, TypeOK, CursorOnScreen, Registers, WritesNearScreen
  <2> QED
    BY <2>1, ClearInv, MainInv, PutcInv, KeyInv DEF Next
<1> QED BY <1>1, InitInv, PTL DEF Spec

(* The cursor, main's registers and the cells written have their types
   (screen.c:11-12).                                                        *)
THEOREM TypeCorrect == Spec => []TypeOK
<1>1. Inv => TypeOK
  BY DEF Inv
<1> QED BY <1>1, Invariance, PTL

(* Whatever keys interrupt it, main finds the cursor on the screen wherever
   it is not itself between an increment and its check (screen.c:48-57).    *)
THEOREM CursorStaysOnScreen == Spec => []CursorOnScreen
<1>1. Inv => CursorOnScreen
  BY DEF Inv
<1> QED BY <1>1, Invariance, PTL

(* Nothing is written farther than the line below the screen (screen.c:15). *)
THEOREM WritesStayNear == Spec => []WritesNearScreen
<1>1. Inv => WritesNearScreen
  BY DEF Inv
<1> QED BY <1>1, Invariance, PTL
=============================================================================
