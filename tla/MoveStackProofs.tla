--------------------------- MODULE MoveStackProofs ---------------------------
(***************************************************************************)
(* Proofs about MoveStack, for every page size, every place and size of the *)
(* two stacks, and whatever words the old one holds.                       *)
(***************************************************************************)
EXTENDS MoveStack, TLAPS

Bottom == StackPointer - StackWords
New == old.esp + offset .. StackPointer - 1

(* The old stack has frames, and so have the pages that the loop has passed. *)
Mapped ==
  /\ Pages(old.esp, stack_esp - 1) \subseteq mapped
  /\ moving = "map" => /\ top \in Int /\ top % PageWords = 0
                       /\ WordPage(top) + 1 .. WordPage(StackPointer) \subseteq mapped
  /\ moving \in {"relocate", "switch", "moved"} =>
       WordPage(Bottom) .. WordPage(StackPointer) \subseteq mapped

(* The stack pointers are the old ones until the end. *)
Pointers ==
  IF moving = "moved" THEN esp = old.esp + offset /\ ebp = old.ebp + offset
                      ELSE esp = old.esp /\ ebp = old.ebp

(* A pointer into the old stack is moved with it, and nothing else. *)
Relocated(was) == IF old.esp < was /\ was < stack_esp THEN was + offset ELSE was

(* What is at the new place of each live word. *)
Copied ==
  /\ moving = "map" => words = old.words
  /\ moving = "relocate" => New \subseteq DOMAIN words
                            /\ \A a \in New : words[a] = old.words[a - offset]
  /\ moving \in {"switch", "moved"} =>
       New \subseteq DOMAIN words
       /\ \A a \in New : words[a] = Relocated(old.words[a - offset])

Inv ==
  /\ old \in Stacks
  /\ moving \in {"map", "relocate", "switch", "moved"}
  /\ Mapped /\ Pointers /\ Copied

-----------------------------------------------------------------------------
(* Pages *)

(* The page of a word, and its place in the page. *)
LEMMA Division ==
  ASSUME NEW a \in Int, NEW p \in Nat \ {0}
  PROVE  /\ a \div p \in Int /\ a % p \in 0 .. p - 1
         /\ a = (p * (a \div p)) + (a % p)
OBVIOUS

(* A later word is on no earlier page. *)
LEMMA LaterPage ==
  ASSUME NEW a \in Int, NEW b \in Int, NEW p \in Nat \ {0}, a <= b
  PROVE  a \div p <= b \div p
<1> DEFINE j == a \div p  k == b \div p
<1>1. /\ j \in Int /\ a >= p * j
      /\ k \in Int /\ b < p * k + p
  BY Division
<1> HIDE DEF j, k
<1>2. CASE k + 1 <= j
  <2>1. p * (k + 1) = p * k + p /\ p * (k + 1) \in Int /\ p * j \in Int /\ p * k \in Int
    BY <1>1
  <2>2. p * (k + 1) <= p * j
    BY <1>1, <1>2, Z3
  <2> QED BY <1>1, <2>1, <2>2
<1>3. j <= k
  BY <1>1, <1>2
<1> QED BY <1>3 DEF j, k

(* The page before a page. *)
LEMMA PageBefore ==
  ASSUME NEW a \in Int, NEW p \in Nat \ {0}, a % p = 0
  PROVE  (a - p) % p = 0 /\ (a - p) \div p = a \div p - 1
<1> DEFINE k == a \div p  j == (a - p) \div p  r == (a - p) % p
<1>1. k \in Int /\ j \in Int /\ r \in 0 .. p - 1 /\ a = p * k /\ a - p = p * j + r
  <2>1. k \in Int /\ a = p * k + 0
    BY Division
  <2>2. a - p \in Int
    OBVIOUS
  <2>3. j \in Int /\ r \in 0 .. p - 1 /\ a - p = p * j + r
    BY <2>2, Division
  <2> HIDE DEF k, j, r
  <2> QED BY <2>1, <2>3
<1> HIDE DEF k, j, r
<1>2. r = 0 /\ j = k - 1
  <2> DEFINE d == k - 1 - j
  <2>1. d \in Int /\ k = d + 1 + j
    BY <1>1
  <2> HIDE DEF d
  <2>2. p * k = p * d + p + p * j /\ p * d \in Int /\ p * j \in Int
    BY <1>1, <2>1
  <2>3. p * d = r
    BY <1>1, <2>2
  <2>4. CASE d >= 1
    <3>1. p * d >= p
      BY <2>1, <2>4, Z3
    <3> QED BY <1>1, <2>3, <3>1
  <2>5. CASE d <= -1
    <3>1. p * d <= -p
      BY <2>1, <2>5, Z3
    <3> QED BY <1>1, <2>3, <3>1
  <2>6. d = 0
    BY <2>1, <2>4, <2>5
  <2> QED BY <1>1, <2>1, <2>3, <2>6
<1> QED BY <1>2 DEF j, k, r

(* The start of a page is on a later page than the start of a lower one. *)
LEMMA LaterStart ==
  ASSUME NEW a \in Int, NEW b \in Int, NEW p \in Nat \ {0}, a % p = 0, b % p = 0, a < b
  PROVE  a \div p + 1 <= b \div p
<1> DEFINE j == a \div p  k == b \div p
<1>1. j \in Int /\ k \in Int /\ a = p * j /\ b = p * k
  BY Division
<1>2. j <= k
  BY LaterPage
<1> HIDE DEF j, k
<1>3. j # k
  BY <1>1
<1>4. j + 1 <= k
  BY <1>1, <1>2, <1>3
<1> QED BY <1>4 DEF j, k

(* The difference of two starts of pages is one. *)
LEMMA Difference ==
  ASSUME NEW a \in Int, NEW b \in Int, NEW p \in Nat \ {0}, a % p = 0, b % p = 0
  PROVE  (a - b) % p = 0
<1> DEFINE j == a \div p  k == b \div p  q == (a - b) \div p  r == (a - b) % p
<1>1. /\ j \in Int /\ k \in Int /\ a = p * j /\ b = p * k
      /\ q \in Int /\ r \in 0 .. p - 1 /\ a - b = p * q + r
  <2>1. j \in Int /\ a = p * j + 0 /\ k \in Int /\ b = p * k + 0
    BY Division
  <2>2. a - b \in Int
    OBVIOUS
  <2>3. q \in Int /\ r \in 0 .. p - 1 /\ a - b = p * q + r
    BY <2>2, Division
  <2> HIDE DEF j, k, q, r
  <2> QED BY <2>1, <2>3
<1> HIDE DEF j, k, q, r
<1> DEFINE d == j - k - q
<1>2. d \in Int /\ j = d + k + q
  BY <1>1
<1> HIDE DEF d
<1>3. p * j = p * d + p * k + p * q /\ p * d \in Int /\ p * k \in Int /\ p * q \in Int
  BY <1>1, <1>2
<1>4. p * d = r
  BY <1>1, <1>3
<1>5. CASE d >= 1
  <2>1. p * d >= p
    BY <1>2, <1>5, Z3
  <2> QED BY <1>1, <1>4, <2>1
<1>6. CASE d <= -1
  <2>1. p * d <= -p
    BY <1>2, <1>6, Z3
  <2> QED BY <1>1, <1>4, <2>1
<1>7. r = 0
  BY <1>1, <1>2, <1>4, <1>5, <1>6
<1> QED BY <1>7 DEF r
-----------------------------------------------------------------------------
(* The two stacks *)

(* What is assumed of the constants, in integers. *)
LEMMA Sizes ==
  ASSUME MoveStackAssumption
  PROVE  /\ PageWords \in Nat \ {0} /\ StackPointer \in Nat /\ Bottom \in Int
         /\ stack_esp \in Nat /\ offset \in Int
         /\ StackWords \in Nat /\ stack_esp + StackWords < StackPointer
         /\ StackPointer % PageWords = 0 /\ Bottom % PageWords = 0
<1>1. StackPointer \in Int /\ StackWords \in Int /\ PageWords \in Nat \ {0}
  BY DEF MoveStackAssumption
<1>2. StackPointer % PageWords = 0 /\ StackWords % PageWords = 0
  BY DEF MoveStackAssumption
<1>3. Bottom % PageWords = 0
  BY <1>1, <1>2, Difference DEF Bottom
<1> QED BY <1>3 DEF MoveStackAssumption, Bottom, offset

(* Where the old stack is, and where the new one. *)
LEMMA Places ==
  ASSUME MoveStackAssumption, old \in Stacks
  PROVE  /\ old.esp \in Nat /\ old.esp <= stack_esp /\ stack_esp - old.esp < StackWords
         /\ Live(old) = old.esp .. stack_esp - 1
         /\ DOMAIN old.words = Live(old)
         /\ \A a \in Live(old) : a + offset \in New
         /\ \A a \in New : a - offset \in Live(old) /\ a \in ScanFirst .. StackPointer
<1>1. /\ old.esp \in Nat /\ old.esp <= stack_esp /\ stack_esp - old.esp < StackWords
      /\ old.words \in [Live(old) -> Int]
  BY DEF MoveStackAssumption
<1>2. DOMAIN old.words = Live(old)
  BY <1>1
<1>3. \A a \in Live(old) : a + offset \in New
  <2>1. /\ offset = StackPointer - stack_esp
        /\ StackPointer \in Int /\ stack_esp \in Int /\ old.esp \in Int
    BY <1>1, Sizes DEF offset
  <2>2. \A a \in old.esp .. stack_esp - 1 : a + offset \in old.esp + offset .. StackPointer - 1
    BY <2>1
  <2> QED BY <2>2 DEF Live, New
<1>4. \A a \in New : a - offset \in Live(old) /\ a \in ScanFirst .. StackPointer
  <2> SUFFICES ASSUME NEW a \in New
               PROVE  a - offset \in Live(old) /\ a \in ScanFirst .. StackPointer
    OBVIOUS
  <2>1. /\ offset = StackPointer - stack_esp /\ ScanFirst = StackPointer - StackWords + 1
        /\ a \in old.esp + offset .. StackPointer - 1
    BY DEF New, offset, ScanFirst
  <2>2. /\ StackPointer \in Int /\ stack_esp \in Int /\ StackWords \in Int
        /\ old.esp \in Int /\ stack_esp - old.esp < StackWords
    BY <1>1, Sizes
  <2>3. a - offset \in old.esp .. stack_esp - 1 /\ a \in ScanFirst .. StackPointer
    BY <2>1, <2>2
  <2> QED BY <2>3 DEF Live
<1> QED BY <1>1, <1>2, <1>3, <1>4 DEF Live

(* A page is a number. *)
LEMMA PageNumber ==
  ASSUME NEW a \in Int, PageWords \in Nat \ {0}
  PROVE  WordPage(a) \in Int
BY Division DEF WordPage

(* Words between two others are on pages between theirs. *)
LEMMA PagesWithin ==
  ASSUME NEW a \in Int, NEW b \in Int, NEW c \in Int, NEW d \in Int,
         PageWords \in Nat \ {0}, c <= a, b <= d
  PROVE  Pages(a, b) \subseteq WordPage(c) .. WordPage(d)
<1>1. WordPage(c) <= WordPage(a) /\ WordPage(b) <= WordPage(d)
  BY LaterPage DEF WordPage
<1>2. /\ WordPage(a) \in Int /\ WordPage(b) \in Int
      /\ WordPage(c) \in Int /\ WordPage(d) \in Int
  BY Division DEF WordPage
<1> QED BY <1>1, <1>2 DEF Pages

-----------------------------------------------------------------------------
(* The steps *)

(* move_stack starts with the old stack as it is. *)
LEMMA InitInv == ASSUME MoveStackAssumption, Init PROVE Inv
<1>1. /\ old \in Stacks /\ words = old.words /\ esp = old.esp /\ ebp = old.ebp
      /\ moving = "map" /\ top = StackPointer
      /\ mapped = Pages(old.esp, stack_esp - 1)
  BY DEF Init
<1>2. top \in Int /\ top % PageWords = 0
  BY <1>1, Sizes
<1>3. WordPage(top) + 1 .. WordPage(StackPointer) = {}
  <2>1. WordPage(top) \in Int /\ WordPage(top) = WordPage(StackPointer)
    BY <1>1, <1>2, Sizes, PageNumber
  <2> QED BY <2>1
<1> QED BY <1>1, <1>2, <1>3 DEF Inv, Mapped, Pointers, Copied

(* So it does on a stack that other pages surround. *)
LEMMA BeginInv ==
  ASSUME MoveStackAssumption, NEW stack \in Stacks, Begin(stack),
         Pages(stack.esp, stack_esp - 1) \subseteq mapped'
  PROVE  Inv'
<1>1. /\ old' \in Stacks /\ words' = old'.words /\ esp' = old'.esp /\ ebp' = old'.ebp
      /\ moving' = "map" /\ top' = StackPointer /\ old' = stack
  BY DEF Begin
<1>2. top' \in Int /\ top' % PageWords = 0
  BY <1>1, Sizes
<1>3. WordPage(top') + 1 .. WordPage(StackPointer) = {}
  <2>1. WordPage(top') \in Int /\ WordPage(top') = WordPage(StackPointer)
    BY <1>1, <1>2, Sizes, PageNumber
  <2> QED BY <2>1
<1>4. Mapped'
  BY <1>1, <1>2, <1>3 DEF Mapped, Pages, WordPage
<1> QED BY <1>1, <1>4 DEF Inv, Pointers, Copied

(* An iteration of the first loop maps the next page below (task.c:168-173). *)
LEMMA MapStackPageInv == ASSUME MoveStackAssumption, Inv, MapStackPage PROVE Inv'
<1>1. /\ moving = "map" /\ moving' = "map" /\ old' = old /\ words' = words
      /\ esp' = esp /\ ebp' = ebp
      /\ mapped' = mapped \cup {WordPage(top)} /\ top' = top - PageWords
  BY DEF MapStackPage
<1>2. top \in Int /\ top % PageWords = 0
  BY <1>1 DEF Inv, Mapped
<1>3. top' \in Int /\ top' % PageWords = 0 /\ WordPage(top') = WordPage(top) - 1
  BY <1>1, <1>2, Sizes, PageBefore DEF WordPage
<1>4. WordPage(top') + 1 .. WordPage(StackPointer) \subseteq mapped'
  <2>1. WordPage(top) \in Int /\ WordPage(StackPointer) \in Int
    <3>1. PageWords \in Nat \ {0} /\ StackPointer \in Int
      BY Sizes
    <3> QED BY <1>2, <3>1, PageNumber
  <2>2. WordPage(top) + 1 .. WordPage(StackPointer) \subseteq mapped
    BY <1>1 DEF Inv, Mapped
  <2> QED BY <1>1, <1>3, <2>1, <2>2
<1>5. WordPage(StackPointer)' = WordPage(StackPointer)
  BY DEF WordPage
<1>6. Mapped'
  BY <1>1, <1>3, <1>4, <1>5 DEF Inv, Mapped, Pages, WordPage
<1>7. Pointers' /\ Copied'
  BY <1>1 DEF Inv, Pointers, Copied
<1> QED BY <1>1, <1>6, <1>7 DEF Inv

(* When the first loop ends, the pages of the new stack have frames. *)
LEMMA LoopEnd ==
  ASSUME MoveStackAssumption, Inv, moving = "map", ~MapMore
  PROVE  WordPage(Bottom) .. WordPage(StackPointer) \subseteq mapped
<1>1. top \in Int /\ top % PageWords = 0 /\ top < Bottom
  BY Sizes DEF Inv, Mapped, MapMore, Bottom
<1>2. WordPage(top) + 1 <= WordPage(Bottom)
  BY <1>1, Sizes, LaterStart DEF WordPage
<1>3. /\ WordPage(top) \in Int /\ WordPage(Bottom) \in Int
      /\ WordPage(StackPointer) \in Int
  <2>1. PageWords \in Nat \ {0} /\ Bottom \in Int /\ StackPointer \in Int
    BY Sizes
  <2> QED BY <1>1, <2>1, PageNumber
<1>4. WordPage(top) + 1 .. WordPage(StackPointer) \subseteq mapped
  BY DEF Inv, Mapped
<1> QED BY <1>2, <1>3, <1>4

(* memcpy reads the old stack, writes the new one, and faults on neither
   (task.c:191).                                                            *)
LEMMA CopyStackInv == ASSUME MoveStackAssumption, Inv, CopyStack PROVE Inv'
<1>1. /\ moving = "map" /\ ~MapMore /\ old \in Stacks
      /\ old' = old /\ mapped' = mapped /\ esp' = esp /\ ebp' = ebp
      /\ esp = old.esp /\ ebp = old.ebp /\ words = old.words
  BY DEF Inv, CopyStack, Pointers, Copied
<1>2. WordPage(Bottom) .. WordPage(StackPointer) \subseteq mapped
  BY <1>1, LoopEnd
<1>3. Pages(esp, stack_esp - 1) \subseteq mapped
  BY <1>1 DEF Inv, Mapped
<1>4. Pages(new_esp, StackPointer - 1) \subseteq mapped
  <2>1. /\ new_esp \in Int /\ Bottom <= new_esp
        /\ StackPointer - 1 \in Int /\ StackPointer - 1 <= StackPointer
    <3>1. /\ old.esp \in Int /\ stack_esp \in Int /\ stack_esp - old.esp < StackWords
          /\ StackPointer \in Int /\ StackWords \in Int
      BY <1>1, Sizes, Places
    <3>2. /\ new_esp = old.esp + (StackPointer - stack_esp)
          /\ Bottom = StackPointer - StackWords
      BY <1>1 DEF new_esp, offset, Bottom
    <3> QED BY <3>1, <3>2
  <2>2. Pages(new_esp, StackPointer - 1) \subseteq WordPage(Bottom) .. WordPage(StackPointer)
    <3>1. PageWords \in Nat \ {0} /\ Bottom \in Int /\ StackPointer \in Int
      BY Sizes
    <3> QED BY <2>1, <3>1, PagesWithin
  <2> QED BY <1>2, <2>2
<1>5. moving' = "relocate"
  BY <1>3, <1>4 DEF CopyStack, Access
<1>6. New \subseteq DOMAIN words' /\ \A a \in New : words'[a] = old.words[a - offset]
  <2>1. New = new_esp .. StackPointer - 1
    BY <1>1 DEF New, new_esp
  <2>2. \A a \in New : a >= new_esp
    BY <1>1, <2>1, Sizes, Places DEF new_esp
  <2> QED BY <1>1, <2>1, <2>2 DEF CopyStack
<1>7. Mapped'
  BY <1>1, <1>2, <1>5 DEF Inv, Mapped, Pages, WordPage, Bottom
<1>8. Copied'
  BY <1>1, <1>5, <1>6 DEF Copied, New, offset
<1>9. Pointers'
  BY <1>1, <1>5 DEF Pointers
<1> QED BY <1>1, <1>5, <1>7, <1>8, <1>9 DEF Inv

(* The second loop visits every word of the copy, on pages with a frame
   (task.c:193-206).                                                        *)
LEMMA RelocateStackInv == ASSUME MoveStackAssumption, Inv, RelocateStack PROVE Inv'
<1>1. /\ moving = "relocate" /\ old \in Stacks
      /\ old' = old /\ mapped' = mapped /\ esp' = esp /\ ebp' = ebp
      /\ esp = old.esp /\ ebp = old.ebp
      /\ New \subseteq DOMAIN words /\ \A a \in New : words[a] = old.words[a - offset]
      /\ WordPage(Bottom) .. WordPage(StackPointer) \subseteq mapped
  BY DEF Inv, RelocateStack, Pointers, Copied, Mapped
<1>2. Pages(ScanFirst, StackPointer) \subseteq mapped
  <2>1. ScanFirst \in Int /\ Bottom <= ScanFirst /\ StackPointer <= StackPointer
    BY Sizes DEF ScanFirst, Bottom
  <2>2. Pages(ScanFirst, StackPointer) \subseteq WordPage(Bottom) .. WordPage(StackPointer)
    <3>1. PageWords \in Nat \ {0} /\ Bottom \in Int /\ StackPointer \in Int
      BY Sizes
    <3> QED BY <2>1, <3>1, PagesWithin
  <2> QED BY <1>1, <2>2
<1>3. moving' = "switch"
  BY <1>2 DEF RelocateStack, Access
<1>4. ASSUME NEW a \in New
      PROVE  a \in DOMAIN words' /\ words'[a] = Relocated(old.words[a - offset])
  <2>1. a \in DOMAIN words /\ words[a] = old.words[a - offset]
        /\ a \in ScanFirst .. StackPointer
    BY <1>1, Places
  <2> QED BY <1>1, <2>1 DEF RelocateStack, Relocated, PointsIntoOld
<1>5. Copied'
  BY <1>1, <1>3, <1>4 DEF Copied, New, offset, Relocated
<1>6. Mapped'
  BY <1>1, <1>3 DEF Inv, Mapped, Pages, WordPage, Bottom
<1>7. Pointers'
  BY <1>1, <1>3 DEF Pointers
<1> QED BY <1>1, <1>3, <1>5, <1>6, <1>7 DEF Inv

(* The processor goes on with the new stack (task.c:208-209). *)
LEMMA SwitchStackInv == ASSUME MoveStackAssumption, Inv, SwitchStack PROVE Inv'
<1>1. /\ moving = "switch" /\ moving' = "moved" /\ old \in Stacks /\ old' = old
      /\ mapped' = mapped /\ words' = words
      /\ esp = old.esp /\ ebp = old.ebp /\ esp' = new_esp /\ ebp' = ebp + offset
  BY DEF Inv, SwitchStack, Pointers
<1>2. Pointers'
  BY <1>1 DEF Pointers, new_esp, offset
<1>3. Copied'
  BY <1>1 DEF Inv, Copied, New, offset, Relocated
<1>4. Mapped'
  BY <1>1 DEF Inv, Mapped, Pages, WordPage, Bottom
<1> QED BY <1>1, <1>2, <1>3, <1>4 DEF Inv

(* Nothing is moved, though other pages may be mapped. *)
LEMMA Stays ==
  ASSUME Inv, mapped \subseteq mapped', UNCHANGED <<moving, top, words, esp, ebp, old>>
  PROVE  Inv'
<1>1. /\ moving' = moving /\ top' = top /\ words' = words /\ esp' = esp /\ ebp' = ebp
      /\ old' = old
  OBVIOUS
<1>2. Mapped'
  BY <1>1 DEF Inv, Mapped, Pages, WordPage, Bottom
<1>3. Pointers' /\ Copied'
  BY <1>1 DEF Inv, Pointers, Copied, New, offset, Relocated
<1> QED
  BY <1>1, <1>2, <1>3 DEF Inv

(* What the invariant says of the stack once it is moved. *)
LEMMA InvMoved == ASSUME MoveStackAssumption, Inv PROVE StackMoved
<1>1. moving # "fault"
  BY DEF Inv
<1>2. ASSUME moving = "moved"
      PROVE  /\ esp = old.esp + offset /\ ebp = old.ebp + offset
             /\ \A a \in Live(old) :
                  LET was == old.words[a]
                  IN  /\ a + offset \in DOMAIN words
                      /\ old.esp < was /\ was < stack_esp => words[a + offset] = was + offset
                      /\ was < old.esp \/ was > stack_esp => words[a + offset] = was
  <2>1. esp = old.esp + offset /\ ebp = old.ebp + offset
    BY <1>2 DEF Inv, Pointers
  <2>2. ASSUME NEW a \in Live(old)
        PROVE  LET was == old.words[a]
               IN  /\ a + offset \in DOMAIN words
                   /\ old.esp < was /\ was < stack_esp => words[a + offset] = was + offset
                   /\ was < old.esp \/ was > stack_esp => words[a + offset] = was
    <3>1. old \in Stacks /\ a \in Int /\ a + offset \in New /\ offset \in Int
      BY Sizes, Places DEF Inv, Live
    <3>2. (a + offset) - offset = a
      BY <3>1
    <3>3. a + offset \in DOMAIN words /\ words[a + offset] = Relocated(old.words[a])
      BY <1>2, <3>1, <3>2 DEF Inv, Copied
    <3>4. old.words[a] \in Int /\ old.esp \in Int /\ stack_esp \in Int
      BY <3>1, Sizes, Places DEF MoveStackAssumption
    <3> QED BY <3>3, <3>4 DEF Relocated
  <2> QED BY <2>1, <2>2
<1> QED BY <1>1, <1>2 DEF StackMoved

(* The new stack lies in pages that the first loop has mapped. *)
LEMMA NewStackMapped ==
  ASSUME MoveStackAssumption, Inv, moving = "moved"
  PROVE  Pages(esp, StackPointer - 1) \subseteq WordPage(Bottom) .. WordPage(StackPointer)
         /\ WordPage(Bottom) .. WordPage(StackPointer) \subseteq mapped
<1>1. /\ old.esp \in Int /\ stack_esp \in Int /\ stack_esp - old.esp < StackWords
      /\ StackPointer \in Int /\ StackWords \in Int /\ PageWords \in Nat \ {0}
      /\ Bottom \in Int
  BY Sizes, Places DEF Inv
<1>2. esp = old.esp + (StackPointer - stack_esp) /\ Bottom = StackPointer - StackWords
  BY DEF Inv, Pointers, offset, Bottom
<1>3. esp \in Int /\ Bottom <= esp /\ StackPointer - 1 \in Int /\ StackPointer - 1 <= StackPointer
  BY <1>1, <1>2
<1>4. Pages(esp, StackPointer - 1) \subseteq WordPage(Bottom) .. WordPage(StackPointer)
  BY <1>1, <1>3, PagesWithin
<1> QED BY <1>4 DEF Inv, Mapped

(* Wherever the two stacks are and whatever is on the old one, move_stack faults
   nowhere and ends on the same stack with its pointers moved
   (task.c:165-210).                                                        *)
THEOREM StackIsMoved == ASSUME MoveStackAssumption PROVE Spec => []StackMoved
<1>1. Inv /\ [Next]_vars => Inv'
  <2> SUFFICES ASSUME Inv, [Next]_vars PROVE Inv'
    OBVIOUS
  <2>1. CASE UNCHANGED vars
    BY <2>1, Stays DEF vars
  <2> QED BY <2>1, MapStackPageInv, CopyStackInv, RelocateStackInv, SwitchStackInv DEF Next
<1>2. Init => Inv
  BY InitInv
<1>3. Inv => StackMoved
  BY InvMoved
<1> QED BY <1>1, <1>2, <1>3, PTL DEF Spec
=============================================================================
