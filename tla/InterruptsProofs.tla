-------------------------- MODULE InterruptsProofs --------------------------
(***************************************************************************)
(* Proofs about Interrupts, for any request lines, exceptions and bounds.   *)
(*                                                                         *)
(* A stub knows nothing of who pushed the words it pops: the stack says it. *)
(* The invariant describes the words that the running code has on top of    *)
(* the stack by the place the code is at, and says the same of every frame  *)
(* below and the place it will return to, so that what iret, "drop" and     *)
(* "restore" uncover is again of the right shape.  A word too many (an      *)
(* error code, which only the processor pushes) is part of that shape; that *)
(* nobody returns over one is a second invariant, for a machine on which    *)
(* page faults are all that push one.                                      *)
(***************************************************************************)
EXTENDS Interrupts, SequenceTheorems, TLAPS

(* The places at which interrupts may be enabled. *)
Interruptible == {"code", "return", "restore", "drop", "iret"}

(* The places at which the words that the stub pushed are all on the stack. *)
Dispatchers == {"isr", "error", "irq"}
InHandler == Dispatchers \cup {"handler", "return", "restore"}

(* The frame under word j of st: the processor may push an error code on it. *)
Under(st, j) == IF st[j].kind = "error" THEN j - 1 ELSE j

IsFrame(st, j) == j \in 1 .. Len(st) /\ st[j].kind = "frame"

(* An interrupt that has the registers at word k *)
Entry(st, k) ==
  LET j == Under(st, k - 3)
      v == st[j].vector
  IN  /\ k > 3 /\ IsFrame(st, j)
      /\ st[k - 3].kind = "error" <=> v \in PushesErrorCode
      /\ <<st[k - 2], st[k - 1]>> = Numbers(v)
      /\ st[k].kind = "registers" /\ st[k].of = st[j].saved

(* What the words up to k are when code is at place b with registers r. *)
Shape(st, b, k, r) ==
  /\ b \in InHandler => Entry(st, k)
  /\ b \in Dispatchers => b = Dispatcher(st[Under(st, k - 3)].vector)
  /\ b = "drop" => /\ k > 2 /\ IsFrame(st, Under(st, k - 2))
                   /\ st[Under(st, k - 2)].saved = r
  /\ b = "iret" => /\ k > 0 /\ IsFrame(st, Under(st, k))
                   /\ st[Under(st, k)].saved = r

(* Below each frame is the stack of the code that it returns to. *)
Nested(st) ==
  \A j \in 1 .. Len(st) : st[j].kind = "frame" =>
    st[j].back \in Interruptible /\ Shape(st, st[j].back, j - 1, st[j].saved)

(* Interrupts are off in a dispatcher and in a handler, and only a dispatcher
   of the controllers' requests is to tell them.                            *)
Masked ==
  /\ IF_ => at \in Interruptible \cup Stopped
  /\ at # "irq" => isr = {}
  /\ at = "irq" => AfterEOI(interruption_number, isr) = {}

Starting == main = 1 => at = "code" /\ ~IF_ /\ called = None

Inv ==
  /\ TypeOK
  /\ keys <= pressed + 1
  /\ Starting
  /\ Masked
  /\ Nested(stack)
  /\ Shape(stack, at, Len(stack), regs)

(* Where an error code is on the stack, if page faults are all that push one *)
PageFaultsOnly == Exceptions \cap PushesErrorCode \subseteq {14}
ErrorCodes ==
  /\ \A j \in 1 .. Len(stack) : stack[j].kind = "error" => at \in {"error", "handler", "panic"}
  /\ at = "error" => error_code = 14 /\ 14 \in handlers
  /\ at = "handler" /\ (\E j \in 1 .. Len(stack) : stack[j].kind = "error") => called = 14

-----------------------------------------------------------------------------
(* The stack *)

(* Words of the two kinds that have fields *)
LEMMA WordFields ==
  ASSUME NEW w \in Word
  PROVE  /\ w.kind = "frame" => /\ w.back \in Places /\ w.flag \in BOOLEAN
                                /\ w.saved \in Nat /\ w.vector \in 0 .. 47
         /\ w.kind = "registers" => w.of \in Nat
<1>1. CASE w \in [kind : {"frame"}, back : Places, flag : BOOLEAN, saved : Nat, vector : 0 .. 47]
  BY <1>1
<1>2. CASE w \in [kind : {"number"}, n : 0 .. 47]
  BY <1>2
<1>3. CASE w = ErrorCode
  BY <1>3 DEF ErrorCode
<1>4. CASE w \in [kind : {"registers"}, of : Nat]
  BY <1>4
<1> QED
  BY <1>1, <1>2, <1>3, <1>4 DEF Word

(* What is left of a stack when words are popped. *)
LEMMA Popped ==
  ASSUME NEW st \in Seq(Word), NEW k \in 0 .. Len(st)
  PROVE  /\ SubSeq(st, 1, Len(st) - k) \in Seq(Word)
         /\ Len(SubSeq(st, 1, Len(st) - k)) = Len(st) - k
         /\ \A i \in 1 .. Len(st) - k : SubSeq(st, 1, Len(st) - k)[i] = st[i]
<1> DEFINE n == Len(st) - k
<1>1. n \in Int /\ n >= 0 /\ \A i \in 1 .. n : st[i] \in Word
  OBVIOUS
<1>2. /\ SubSeq(st, 1, n) \in Seq(Word)
      /\ Len(SubSeq(st, 1, n)) = IF 1 <= n THEN n - 1 + 1 ELSE 0
      /\ \A i \in 1 .. n - 1 + 1 : SubSeq(st, 1, n)[i] = st[1 + i - 1]
  <2> HIDE DEF n
  <2> QED
    BY <1>1, SubSeqProperties
<1>3. n - 1 + 1 = n /\ \A i \in 1 .. n : 1 + i - 1 = i
  BY <1>1
<1>4. Len(SubSeq(st, 1, n)) = n /\ \A i \in 1 .. n : SubSeq(st, 1, n)[i] = st[i]
  <2> HIDE DEF n
  <2> QED
    BY <1>1, <1>2, <1>3
<1> QED
  BY <1>2, <1>4

(* Two stacks that have the first k words in common *)
Agree(s, t, k) == k <= Len(s) /\ k <= Len(t) /\ \A i \in 1 .. k : s[i] = t[i]

(* A shape depends only on the words that it is about. *)
LEMMA ShapeAgrees ==
  ASSUME NEW s \in Seq(Word), NEW t \in Seq(Word), NEW k \in Nat, Agree(s, t, k),
         NEW b, NEW r, Shape(s, b, k, r)
  PROVE  Shape(t, b, k, r)
<1>1. ASSUME NEW j \in 1 .. k
      PROVE  /\ s[j] = t[j] /\ Under(t, j) = Under(s, j)
             /\ Under(s, j) \in 0 .. k
             /\ IsFrame(s, Under(s, j)) => /\ t[Under(s, j)] = s[Under(s, j)]
                                            /\ IsFrame(t, Under(t, j))
  BY DEF Agree, Under, IsFrame
<1>2. ASSUME Entry(s, k)
      PROVE  Entry(t, k) /\ t[Under(t, k - 3)] = s[Under(s, k - 3)]
  <2>1. k > 3 /\ k - 3 \in 1 .. k /\ k - 2 \in 1 .. k /\ k - 1 \in 1 .. k /\ k \in 1 .. k
    BY <1>2 DEF Entry
  <2>2. /\ s[k - 3] = t[k - 3] /\ s[k - 2] = t[k - 2] /\ s[k - 1] = t[k - 1] /\ s[k] = t[k]
        /\ Under(t, k - 3) = Under(s, k - 3)
        /\ IsFrame(t, Under(t, k - 3)) /\ t[Under(t, k - 3)] = s[Under(s, k - 3)]
    BY <1>1, <1>2, <2>1 DEF Entry
  <2> QED
    BY <1>2, <2>1, <2>2 DEF Entry
<1>3. CASE b \in InHandler
  BY <1>2, <1>3 DEF Shape, InHandler, Dispatchers
<1>4. CASE b = "drop"
  <2>1. k > 2 /\ k - 2 \in 1 .. k
    BY <1>4 DEF Shape
  <2> QED
    BY <1>1, <1>4, <2>1 DEF Shape, InHandler, Dispatchers
<1>5. CASE b = "iret"
  <2>1. k > 0 /\ k \in 1 .. k
    BY <1>5 DEF Shape
  <2> QED
    BY <1>1, <1>5, <2>1 DEF Shape, InHandler, Dispatchers
<1>6. CASE b \notin InHandler \cup {"drop", "iret"}
  BY <1>6 DEF Shape, InHandler
<1> QED
  BY <1>3, <1>4, <1>5, <1>6

(* What is below the frames of the first words does not depend on later ones. *)
LEMMA NestedAgrees ==
  ASSUME NEW s \in Seq(Word), NEW t \in Seq(Word), NEW k \in Nat, Agree(s, t, k),
         Nested(s)
  PROVE  \A j \in 1 .. k : t[j].kind = "frame" =>
           t[j].back \in Interruptible /\ Shape(t, t[j].back, j - 1, t[j].saved)
<1> SUFFICES ASSUME NEW j \in 1 .. k, t[j].kind = "frame"
             PROVE  t[j].back \in Interruptible /\ Shape(t, t[j].back, j - 1, t[j].saved)
  OBVIOUS
<1>1. s[j] = t[j] /\ j \in 1 .. Len(s) /\ j - 1 \in Nat /\ Agree(s, t, j - 1)
  BY DEF Agree
<1>2. s[j].back \in Interruptible /\ Shape(s, s[j].back, j - 1, s[j].saved)
  BY <1>1 DEF Nested
<1> QED
  BY <1>1, <1>2, ShapeAgrees

(* What the processor and the stub of vector v push *)
LEMMA Entered ==
  ASSUME TypeOK, NEW v \in 0 .. 47, Enter(v)
  PROVE  /\ stack' \in Seq(Word) /\ Agree(stack, stack', Len(stack))
         /\ LET n == Len(stack)
                k == Len(stack')
            IN  /\ k = (IF v \in PushesErrorCode THEN n + 5 ELSE n + 4)
                /\ stack'[n + 1] = Frame(v)
                /\ v \in PushesErrorCode => stack'[n + 2] = ErrorCode
                /\ <<stack'[k - 2], stack'[k - 1]>> = Numbers(v)
                /\ stack'[k] = Registers
<1> DEFINE a == Numbers(v)[1]
           b == Numbers(v)[2]
<1>1. Numbers(v) = <<a, b>> /\ a \in Word /\ b \in Word
  BY DEF Numbers, Number, Word
<1>2. Frame(v) \in Word /\ ErrorCode \in Word /\ Registers \in Word /\ stack \in Seq(Word)
  BY DEF TypeOK, Word, Frame, ErrorCode, Registers
<1> DEFINE n == Len(stack)
           s1 == stack \o <<Frame(v)>>
           s2 == s1 \o (IF v \in PushesErrorCode THEN <<ErrorCode>> ELSE <<>>)
           s3 == s2 \o <<a, b>>
           m == IF v \in PushesErrorCode THEN n + 2 ELSE n + 1
<1>3. stack' = s3 \o <<Registers>>
  BY <1>1 DEF Enter
<1> HIDE DEF a, b
<1>4. /\ s1 \in Seq(Word) /\ Len(s1) = n + 1 /\ s1[n + 1] = Frame(v)
      /\ \A i \in 1 .. n : s1[i] = stack[i]
  BY <1>2
<1> HIDE DEF s1
<1>5. /\ s2 \in Seq(Word) /\ Len(s2) = m
      /\ \A i \in 1 .. n + 1 : s2[i] = s1[i]
      /\ v \in PushesErrorCode => s2[n + 2] = ErrorCode
  BY <1>2, <1>4
<1> HIDE DEF s2
<1>6. n \in Nat /\ m \in Nat /\ m > n
  BY <1>2
<1> HIDE DEF m
<1>7. /\ s3 \in Seq(Word) /\ Len(s3) = m + 2
      /\ \A i \in 1 .. m : s3[i] = s2[i]
      /\ s3[m + 1] = a /\ s3[m + 2] = b
  BY <1>1, <1>5, <1>6
<1> HIDE DEF s3
<1>8. /\ stack' \in Seq(Word) /\ Len(stack') = m + 3
      /\ \A i \in 1 .. m + 2 : stack'[i] = s3[i]
      /\ stack'[m + 3] = Registers
  BY <1>2, <1>3, <1>6, <1>7
<1>9. /\ \A i \in 1 .. n : stack'[i] = stack[i]
      /\ stack'[n + 1] = Frame(v)
      /\ v \in PushesErrorCode => stack'[n + 2] = ErrorCode
      /\ stack'[m + 3 - 2] = a /\ stack'[m + 3 - 1] = b
  <2>1. \A i \in 1 .. n + 1 : i \in 1 .. m /\ i \in 1 .. m + 2
    BY <1>6
  <2>2. \A i \in 1 .. n + 1 : stack'[i] = s1[i]
    BY <1>5, <1>7, <1>8, <2>1
  <2>3. \A i \in 1 .. n : i \in 1 .. n + 1 /\ stack'[i] = stack[i]
    BY <1>4, <1>6, <2>2
  <2>4. n + 1 \in 1 .. n + 1 /\ stack'[n + 1] = Frame(v)
    BY <1>4, <1>6, <2>2
  <2>5. v \in PushesErrorCode => stack'[n + 2] = ErrorCode
    <3> SUFFICES ASSUME v \in PushesErrorCode PROVE stack'[n + 2] = ErrorCode
      OBVIOUS
    <3>1. n + 2 \in 1 .. m /\ n + 2 \in 1 .. m + 2
      BY <1>6 DEF m
    <3> QED
      BY <1>5, <1>7, <1>8, <3>1
  <2>6. m + 3 - 2 = m + 1 /\ m + 3 - 1 = m + 2 /\ m + 1 \in 1 .. m + 2 /\ m + 2 \in 1 .. m + 2
    BY <1>6
  <2> QED
    BY <1>7, <1>8, <2>3, <2>4, <2>5, <2>6
<1> QED
  BY <1>1, <1>2, <1>6, <1>8, <1>9 DEF Agree, m

(* A dispatcher's stack is as the invariant says, whatever was interrupted. *)
LEMMA EnteredShape ==
  ASSUME TypeOK, Nested(stack), Shape(stack, at, Len(stack), regs),
         at \in Interruptible, NEW v \in 0 .. 47, Enter(v)
  PROVE  Nested(stack') /\ Shape(stack', at', Len(stack'), regs')
<1> DEFINE n == Len(stack)
           k == Len(stack')
<1>1. stack \in Seq(Word) /\ n \in Nat
  BY DEF TypeOK
<1>2. /\ stack' \in Seq(Word) /\ Agree(stack, stack', n)
      /\ k = (IF v \in PushesErrorCode THEN n + 5 ELSE n + 4)
      /\ stack'[n + 1] = Frame(v)
      /\ v \in PushesErrorCode => stack'[n + 2] = ErrorCode
      /\ <<stack'[k - 2], stack'[k - 1]>> = Numbers(v)
      /\ stack'[k] = Registers
  BY Entered
<1>3. k \in Nat /\ n + 1 \in 1 .. k /\ k > 3 /\ k <= n + 5
  BY <1>1, <1>2
<1>4. Shape(stack', at, n, regs)
  BY <1>1, <1>2, ShapeAgrees
<1> HIDE DEF n, k
<1>5. \A j \in 1 .. n : stack'[j].kind = "frame" =>
        stack'[j].back \in Interruptible /\ Shape(stack', stack'[j].back, j - 1, stack'[j].saved)
  BY <1>1, <1>2, NestedAgrees
<1>6. \A j \in n + 2 .. k : stack'[j].kind # "frame"
  <2>1. stack'[k - 2].kind = "number" /\ stack'[k - 1].kind = "number"
    BY <1>2 DEF Numbers, Number
  <2>2. stack'[k].kind = "registers" /\ (v \in PushesErrorCode => stack'[n + 2].kind = "error")
    BY <1>2 DEF Registers, ErrorCode
  <2>3. \A j \in n + 2 .. k : j = k \/ j = k - 1 \/ j = k - 2
                               \/ (v \in PushesErrorCode /\ j = n + 2)
    BY <1>1, <1>2, <1>3
  <2> QED
    BY <2>1, <2>2, <2>3
<1>7. Nested(stack')
  <2> SUFFICES ASSUME NEW j \in 1 .. Len(stack'), stack'[j].kind = "frame"
               PROVE  /\ stack'[j].back \in Interruptible
                      /\ Shape(stack', stack'[j].back, j - 1, stack'[j].saved)
    BY DEF Nested
  <2>1. j \in 1 .. n \/ j = n + 1
    BY <1>1, <1>3, <1>6 DEF k
  <2>2. CASE j \in 1 .. n
    BY <1>5, <2>2
  <2>3. CASE j = n + 1
    <3>1. j - 1 = n /\ stack'[j].back = at /\ stack'[j].saved = regs
      BY <1>1, <1>2, <2>3 DEF Frame
    <3> QED
      BY <1>4, <3>1
  <2> QED
    BY <2>1, <2>2, <2>3
<1>8. /\ Under(stack', k - 3) = n + 1
      /\ stack'[k - 3].kind = "error" <=> v \in PushesErrorCode
  BY <1>1, <1>2 DEF Under, Frame, ErrorCode
<1>9. /\ stack'[n + 1].kind = "frame" /\ stack'[n + 1].vector = v
      /\ stack'[n + 1].saved = regs
      /\ stack'[k].kind = "registers" /\ stack'[k].of = regs
      /\ regs' = regs /\ at' = Dispatcher(v)
  <2>1. regs' = regs /\ at' = Dispatcher(v)
    BY DEF Enter
  <2> QED
    BY <1>2, <2>1 DEF Frame, Registers
<1>10. Entry(stack', k)
  BY <1>2, <1>3, <1>8, <1>9 DEF Entry, IsFrame, k
<1>11. at' \in Dispatchers
  BY <1>9 DEF Dispatcher, Dispatchers
<1>12. Shape(stack', at', k, regs')
  BY <1>8, <1>9, <1>10, <1>11 DEF Shape, InHandler, Dispatchers
<1> QED
  BY <1>7, <1>12 DEF k
-----------------------------------------------------------------------------
(* The controllers *)

(* Both controllers are told of a request that is in service, and the first one
   alone of a line of its own.                                              *)
LEMMA Told ==
  ASSUME NEW l \in 0 .. 15
  PROVE  /\ Vector(l) \in 32 .. 47
         /\ AfterEOI(Vector(l), InService(l)) = {}
         /\ l \in {7, 15} => AfterEOI(Vector(l), InService(l) \ {l}) = {}
<1>1. CASE l < 8
  <2>1. Vector(l) = 32 + l /\ InService(l) = {l}
    BY <1>1 DEF Vector, InService
  <2>2. Highest(First({l})) = {l}
    BY <1>1 DEF Highest, First
  <2> QED
    BY <1>1, <2>1, <2>2 DEF AfterEOI
<1>2. CASE l >= 8
  <2>1. Vector(l) = 32 + l /\ InService(l) = {l, 2} /\ ~(32 + l < 40)
    BY <1>2 DEF Vector, InService
  <2>2. Highest(Second({l, 2})) = {l} /\ Highest(First({l, 2})) = {2}
    BY <1>2 DEF Highest, First, Second
  <2>3. Highest(Second({2})) = {} /\ Highest(First({2})) = {2} /\ {l, 2} \ {l} = {2}
    BY <1>2 DEF Highest, First, Second
  <2> QED
    BY <1>2, <2>1, <2>2, <2>3 DEF AfterEOI
<1> QED
  BY <1>1, <1>2

(* Telling a controller leaves lines only of those that were in service. *)
LEMMA EOISubset ==
  ASSUME NEW n, NEW lines
  PROVE  AfterEOI(n, lines) \subseteq lines
BY DEF AfterEOI

(* The kernel starts with no word on the stack and interrupts off. *)
LEMMA InitInv == Init => Inv
<1> SUFFICES ASSUME Init PROVE Inv
  OBVIOUS
<1>1. TypeOK
  <2>1. irr \subseteq Lines
    BY InterruptsAssumption DEF Init, KEYBOARD
  <2>2. Len(Calls) = 8 /\ stack \in Seq(Word) /\ MaxKeys \in Nat /\ MaxFaults \in Nat
    BY InterruptsAssumption DEF Init, Calls
  <2>3. keys \in 0 .. MaxKeys + 1 /\ pressed \in 0 .. MaxKeys /\ faults \in 0 .. MaxFaults
    BY <2>2 DEF Init
  <2>4. main \in 1 .. Len(Calls) /\ isr \subseteq Lines \cup {2} /\ called \in handlers \cup {None}
    BY <2>2 DEF Init
  <2> QED
    BY <2>1, <2>2, <2>3, <2>4 DEF Init, TypeOK, Places
<1>2. Masked /\ Starting /\ keys <= pressed + 1
  BY DEF Init, Masked, Starting
<1>3. Nested(stack) /\ Shape(stack, at, Len(stack), regs)
  BY DEF Init, Nested, Shape, InHandler, Dispatchers
<1> QED
  BY <1>1, <1>2, <1>3 DEF Inv

-----------------------------------------------------------------------------
(* The steps *)

(* A step of main *)
LEMMA MainStep ==
  ASSUME Inv, Main
  PROVE  Inv'
<1>1. /\ at = "code" /\ at' = "code" /\ stack' = stack /\ regs' = regs
      /\ called' = called /\ isr' = isr /\ keys' = keys /\ pressed' = pressed
      /\ faults' = faults /\ ready' = Lines \cup Spurious
  BY DEF Main, initialize_descriptor_tables, init_keyboard, EnableInterrupts,
         initialise_paging, initialise_timer, DisableInterrupts, initialise_tasking, Idle,
         Register, Flag, Now
<1>2. main \in 1 .. 8 /\ Len(Calls) = 8
  BY DEF Inv, TypeOK, Calls
<1>3. main' \in 2 .. 8
  <2>1. ASSUME NEW call, Now(call) PROVE main' \in 2 .. 8
    <3>1. CASE main = 8
      BY <2>1, <3>1 DEF Now, Calls
    <3>2. CASE main \in 1 .. 7
      <4>1. call # "idle"
        BY <2>1, <3>2 DEF Now, Calls
      <4> QED
        BY <2>1, <3>2, <4>1 DEF Now
    <3> QED
      BY <1>2, <3>1, <3>2
  <2> QED
    BY <2>1 DEF Main, initialize_descriptor_tables, init_keyboard, EnableInterrupts,
                initialise_paging, initialise_timer, DisableInterrupts, initialise_tasking,
                Idle, Register, Flag
<1>4. /\ handlers' \subseteq {14, 32, 33} /\ called' \in handlers' \cup {None}
      /\ irr' \subseteq Lines /\ IF_' \in BOOLEAN /\ deaf' \in BOOLEAN
  <2>1. CASE initialize_descriptor_tables
    <3>1. main = 1
      BY <1>2, <2>1 DEF initialize_descriptor_tables, Now, Calls
    <3> QED
      BY <1>1, <2>1, <3>1 DEF Inv, TypeOK, Starting, initialize_descriptor_tables
  <2>2. ASSUME NEW call, NEW v \in {14, 32, 33}, Register(call, v)
        PROVE  <1>4
    BY <1>1, <2>2 DEF Inv, TypeOK, Register
  <2>3. ASSUME NEW call, NEW value \in BOOLEAN, Flag(call, value)
        PROVE  <1>4
    BY <1>1, <2>3 DEF Inv, TypeOK, Flag
  <2>4. CASE Idle
    BY <1>1, <2>4 DEF Inv, TypeOK, Idle
  <2> QED
    BY <2>1, <2>2, <2>3, <2>4 DEF Main, init_keyboard, EnableInterrupts, initialise_paging,
                                  initialise_timer, DisableInterrupts, initialise_tasking
<1>5. TypeOK'
  BY <1>1, <1>2, <1>3, <1>4 DEF Inv, TypeOK, Calls
<1>6. Starting' /\ Masked'
  BY <1>1, <1>3 DEF Inv, Starting, Masked, Interruptible
<1>7. Nested(stack') /\ Shape(stack', at', Len(stack'), regs')
  BY <1>1 DEF Inv, Shape, InHandler, Dispatchers
<1> QED
  BY <1>1, <1>5, <1>6, <1>7 DEF Inv

(* A step of a device *)
LEMMA DeviceStep ==
  ASSUME Inv, Press \/ \E l \in Lines : Raise(l)
  PROVE  Inv'
<1>1. /\ main' = main /\ at' = at /\ stack' = stack /\ regs' = regs /\ IF_' = IF_
      /\ handlers' = handlers /\ called' = called /\ isr' = isr
      /\ deaf' = deaf /\ faults' = faults
  BY DEF Press, Raise, cpu
<1>2. /\ irr' \subseteq Lines /\ ready' \subseteq Lines \cup Spurious
      /\ keys' \in 0 .. MaxKeys + 1 /\ pressed' \in 0 .. MaxKeys /\ keys' <= pressed' + 1
  <2>1. /\ irr \subseteq Lines /\ ready \subseteq Lines \cup Spurious
        /\ keys \in 0 .. MaxKeys + 1 /\ pressed \in 0 .. MaxKeys /\ keys <= pressed + 1
        /\ MaxKeys \in Nat /\ KEYBOARD \in Lines
    BY InterruptsAssumption DEF Inv, TypeOK, KEYBOARD
  <2>2. CASE Press
    BY <2>1, <2>2 DEF Press
  <2>3. ASSUME NEW l \in Lines, Raise(l) PROVE <1>2
    BY <2>1, <2>3 DEF Raise
  <2> QED
    BY <2>2, <2>3
<1>3. TypeOK'
  BY <1>1, <1>2 DEF Inv, TypeOK
<1>4. Starting' /\ Masked'
  BY <1>1 DEF Inv, Starting, Masked, interruption_number, Top
<1> QED
  BY <1>1, <1>2, <1>3, <1>4 DEF Inv
(* A gate taken from a place where interrupts may be enabled *)
LEMMA EnterStep ==
  ASSUME Inv, at \in Interruptible, NEW v \in 0 .. 47, Enter(v),
         main' = main, main > 1, handlers' = handlers, called' = called,
         keys' = keys, pressed' = pressed, deaf' = deaf,
         irr' \subseteq Lines, isr' \subseteq Lines \cup {2},
         ready' \subseteq Lines \cup Spurious, faults' \in 0 .. MaxFaults,
         IF v >= 32 THEN AfterEOI(v, isr') = {} ELSE isr' = {}
  PROVE  Inv'
<1>1. /\ stack' \in Seq(Word) /\ at' = Dispatcher(v) /\ IF_' = FALSE /\ regs' = regs
      /\ <<stack'[Len(stack') - 2], stack'[Len(stack') - 1]>> = Numbers(v)
  BY Entered DEF Inv, Enter
<1>2. at' \in Dispatchers
  BY <1>1 DEF Dispatcher, Dispatchers
<1>3. TypeOK'
  BY <1>1, <1>2 DEF Inv, TypeOK, Dispatchers, Places
<1>4. ASSUME v >= 32 PROVE interruption_number' = v
  <2>1. stack'[Len(stack') - 1] = Number(v)
    BY <1>1, <1>4 DEF Numbers, ErrorStubs
  <2> QED
    BY <2>1 DEF interruption_number, Top, Number
<1>5. Masked'
  <2>1. CASE v >= 32
    BY <1>1, <1>4, <2>1 DEF Masked, Dispatcher
  <2>2. CASE v < 32
    BY <1>1, <2>2 DEF Masked, Dispatcher
  <2> QED
    BY <2>1, <2>2
<1>6. Starting' /\ (keys <= pressed + 1)'
  BY DEF Inv, Starting
<1>7. Nested(stack') /\ Shape(stack', at', Len(stack'), regs')
  BY EnteredShape DEF Inv
<1> QED
  BY <1>3, <1>5, <1>6, <1>7 DEF Inv

(* The controllers make a request and the processor takes it. *)
LEMMA InterruptStep ==
  ASSUME Inv, Interrupt
  PROVE  Inv'
<1>1. at \in Interruptible /\ main > 1 /\ isr = {}
  BY DEF Inv, TypeOK, Interrupt, Takes, Masked, Starting, Interruptible
<1>2. PICK l \in Pending : /\ irr' = irr \ {l} /\ isr' = isr \cup InService(l)
                           /\ Enter(Vector(l))
  BY DEF Interrupt
<1>3. l \in Lines /\ l \in 0 .. 15
  BY <1>2, InterruptsAssumption DEF Pending, Inv, TypeOK
<1>4. /\ Vector(l) \in 0 .. 47 /\ Vector(l) >= 32
      /\ isr' = InService(l) /\ AfterEOI(Vector(l), isr') = {}
  BY <1>1, <1>2, <1>3, Told
<1>5. isr' \subseteq Lines \cup {2}
  BY <1>3, <1>4 DEF InService
<1> QED
  BY <1>1, <1>2, <1>4, <1>5, EnterStep DEF Inv, TypeOK, Interrupt

(* A request goes away before it is acknowledged; a vector comes all the same. *)
LEMMA VanishStep ==
  ASSUME Inv, NEW l \in Spurious, Vanish(l)
  PROVE  Inv'
<1>1. at \in Interruptible /\ main > 1 /\ isr = {}
  BY DEF Inv, TypeOK, Vanish, Takes, Masked, Starting, Interruptible
<1>2. l \in {7, 15} /\ l \in 0 .. 15
  BY InterruptsAssumption
<1>3. /\ Vector(l) \in 0 .. 47 /\ Vector(l) >= 32
      /\ isr' = InService(l) \ {l} /\ AfterEOI(Vector(l), isr') = {}
  BY <1>1, <1>2, Told DEF Vanish
<1>4. isr' \subseteq Lines \cup {2}
  BY <1>3 DEF InService
<1> QED
  BY <1>1, <1>3, <1>4, EnterStep DEF Inv, TypeOK, Vanish

(* An exception, which no flag masks. *)
LEMMA FaultStep ==
  ASSUME Inv, NEW v \in Exceptions, Fault(v)
  PROVE  Inv'
<1>1. at \in Interruptible /\ main > 1 /\ isr = {}
  BY DEF Inv, Fault, Masked, Interruptible
<1>2. v \in 0 .. 47 /\ v < 32 /\ faults' \in 0 .. MaxFaults
  BY InterruptsAssumption DEF Inv, TypeOK, Fault
<1>3. /\ Enter(v) /\ main' = main /\ handlers' = handlers /\ called' = called
      /\ keys' = keys /\ pressed' = pressed /\ deaf' = deaf
      /\ irr' = irr /\ isr' = isr /\ ready' = ready /\ main > 1
  BY DEF Fault, devices
<1>4. irr \subseteq Lines /\ isr \subseteq Lines \cup {2} /\ ready \subseteq Lines \cup Spurious
  BY DEF Inv, TypeOK
<1> QED
  BY <1>1, <1>2, <1>3, <1>4, EnterStep

(* A dispatcher reads the number of the vector that was raised. *)
LEMMA DispatcherReads ==
  ASSUME Inv, at \in Dispatchers
  PROVE  LET v == stack[Under(stack, Len(stack) - 3)].vector
         IN  /\ Entry(stack, Len(stack)) /\ v \in 0 .. 47
             /\ at \in {"isr", "irq"} => interruption_number = v
             /\ at = "error" => error_code = v
<1> DEFINE k == Len(stack)
           j == Under(stack, k - 3)
           v == stack[j].vector
<1>1. Entry(stack, k) /\ at = Dispatcher(v)
  BY DEF Inv, Shape, InHandler, Dispatchers
<1>2. /\ j \in 1 .. k /\ stack[j].kind = "frame" /\ stack[j] \in Word
      /\ <<stack[k - 2], stack[k - 1]>> = Numbers(v)
  BY <1>1 DEF Entry, IsFrame, Inv, TypeOK
<1>3. v \in 0 .. 47
  BY <1>2, WordFields
<1>4. ASSUME at \in {"isr", "irq"} PROVE interruption_number = v
  <2>1. v \notin ErrorStubs
    BY <1>1, <1>3, <1>4 DEF Dispatcher, ErrorStubs
  <2>2. stack[k - 1] = Number(v)
    BY <1>2, <2>1 DEF Numbers
  <2> QED
    BY <2>2 DEF interruption_number, Top, Number
<1>5. ASSUME at = "error" PROVE error_code = v
  <2>1. v \in ErrorStubs
    BY <1>1, <1>3, <1>5 DEF Dispatcher, ErrorStubs
  <2>2. stack[k - 2] = Number(v)
    BY <1>2, <2>1 DEF Numbers
  <2> QED
    BY <2>2 DEF error_code, Top, Number
<1> QED
  BY <1>1, <1>3, <1>4, <1>5

(* A step of a dispatcher *)
LEMMA DispatchStep ==
  ASSUME Inv, isr_handler \/ isr_error_handler \/ irq_handler
  PROVE  Inv'
<1>1. PICK n : Dispatch(n)
  BY DEF isr_handler, isr_error_handler, irq_handler
<1>2. /\ at \in Dispatchers /\ at' \in {"handler", "restore"}
      /\ stack' = stack /\ IF_' = IF_ /\ main' = main /\ handlers' = handlers
      /\ called' \in handlers \cup {None} /\ regs' = Len(stack)
      /\ irr' = irr /\ ready' = ready /\ keys' = keys /\ pressed' = pressed
      /\ deaf' = deaf /\ faults' = faults
  BY <1>1 DEF Dispatch, isr_handler, isr_error_handler, irq_handler, Dispatchers
<1>3. isr' = {}
  BY DEF isr_handler, isr_error_handler, irq_handler, Inv, Masked
<1>4. main # 1 /\ ~IF_ /\ Len(stack) \in Nat
  BY <1>2 DEF Inv, TypeOK, Starting, Masked, Dispatchers, Interruptible, Stopped
<1>5. TypeOK'
  BY <1>2, <1>3, <1>4 DEF Inv, TypeOK, Places
<1>6. Starting' /\ Masked' /\ (keys <= pressed + 1)'
  BY <1>2, <1>3, <1>4 DEF Inv, Starting, Masked
<1>7. Entry(stack, Len(stack))
  BY <1>2, DispatcherReads
<1>8. Nested(stack') /\ Shape(stack', at', Len(stack'), regs')
  BY <1>2, <1>7 DEF Inv, Shape, InHandler, Dispatchers
<1> QED
  BY <1>5, <1>6, <1>8 DEF Inv

(* A step of a handler *)
LEMMA HandlerStep ==
  ASSUME Inv, keyboard_press_callback \/ timer_callback \/ Return \/ page_fault
  PROVE  Inv'
<1>1. /\ at \in {"handler", "return"} /\ at' \in {"restore", "return", "panic"}
      /\ main' = main /\ stack' = stack /\ regs' = regs /\ handlers' = handlers
      /\ called' = called /\ isr' = isr /\ ready' = ready /\ pressed' = pressed
      /\ deaf' = deaf /\ faults' = faults
  BY DEF keyboard_press_callback, timer_callback, Return, page_fault, Returns
<1>2. /\ irr' \subseteq Lines /\ keys' \in 0 .. MaxKeys + 1 /\ keys' <= pressed + 1
      /\ IF_' \in BOOLEAN
  <2>1. /\ irr \subseteq Lines /\ keys \in 0 .. MaxKeys + 1 /\ MaxKeys \in Nat
        /\ keys <= pressed + 1 /\ pressed \in Nat /\ IF_ \in BOOLEAN /\ KEYBOARD \in Lines
    BY InterruptsAssumption DEF Inv, TypeOK, KEYBOARD
  <2>2. CASE keyboard_press_callback
    BY <2>1, <2>2 DEF keyboard_press_callback
  <2>3. CASE timer_callback
    BY <2>1, <2>3 DEF timer_callback
  <2>4. CASE Return
    BY <2>1, <2>4 DEF Return
  <2>5. CASE page_fault
    BY <2>1, <2>5 DEF page_fault
  <2> QED
    BY <2>2, <2>3, <2>4, <2>5
<1>3. main # 1 /\ isr = {}
  BY <1>1 DEF Inv, Starting, Masked
<1>4. TypeOK'
  BY <1>1, <1>2 DEF Inv, TypeOK, Places, Stopped
<1>5. Starting' /\ Masked' /\ (keys <= pressed + 1)'
  BY <1>1, <1>2, <1>3 DEF Inv, Starting, Masked, Interruptible, Stopped
<1>6. Nested(stack') /\ Shape(stack', at', Len(stack'), regs')
  BY <1>1 DEF Inv, Shape, InHandler, Dispatchers
<1> QED
  BY <1>1, <1>2, <1>4, <1>5, <1>6 DEF Inv
(* The stub's RESTORE_CPU_REGISTERS, add esp, 8 and iret *)
LEMMA PopStep ==
  ASSUME Inv, NEW k \in 0 .. Len(stack), Drop(k)
  PROVE  /\ stack' \in Seq(Word) /\ Len(stack') = Len(stack) - k
         /\ Agree(stack, stack', Len(stack) - k)
         /\ Nested(stack')
<1>1. stack \in Seq(Word) /\ Len(stack) \in Nat
  BY DEF Inv, TypeOK
<1>2. /\ stack' \in Seq(Word) /\ Len(stack') = Len(stack) - k
      /\ \A i \in 1 .. Len(stack) - k : stack'[i] = stack[i]
  BY <1>1, Popped DEF Drop
<1>3. Agree(stack, stack', Len(stack) - k) /\ Len(stack) - k \in Nat
  BY <1>1, <1>2 DEF Agree
<1>4. Nested(stack')
  BY <1>1, <1>2, <1>3, NestedAgrees DEF Inv, Nested
<1> QED
  BY <1>2, <1>3, <1>4

(* The stub pops the registers. *)
LEMMA RestoreStep ==
  ASSUME Inv, Restore
  PROVE  Inv'
<1> DEFINE k == Len(stack)
           j == Under(stack, k - 3)
<1>1. k \in Nat /\ stack \in Seq(Word) /\ main # 1 /\ isr = {}
  BY DEF Inv, TypeOK, Restore, Starting, Masked
<1>2. Entry(stack, k)
  BY DEF Inv, Shape, InHandler, Dispatchers, Restore
<1>3. k > 3 /\ j \in 1 .. k - 3 /\ stack[j].kind = "frame" /\ regs' = stack[j].saved
  BY <1>1, <1>2 DEF Entry, IsFrame, Under, Restore, Top
<1>4. /\ stack' \in Seq(Word) /\ Len(stack') = k - 1 /\ Agree(stack, stack', k - 1)
      /\ Nested(stack')
  BY <1>1, <1>3, PopStep DEF Restore
<1>5. regs' \in Nat
  BY <1>1, <1>3, WordFields
<1>6. /\ stack'[k - 3] = stack[k - 3] /\ stack'[j] = stack[j] /\ k - 1 - 2 = k - 3
      /\ j \in 1 .. k - 1 /\ k - 1 > 2
  BY <1>1, <1>3, <1>4 DEF Agree
<1>7. Under(stack', Len(stack') - 2) = j
  BY <1>4, <1>6 DEF Under
<1>8. Shape(stack', "drop", Len(stack'), regs')
  BY <1>3, <1>4, <1>6, <1>7 DEF Shape, IsFrame, InHandler, Dispatchers
<1>9. /\ at' = "drop" /\ IF_' = IF_ /\ main' = main /\ handlers' = handlers
      /\ called' = called /\ irr' = irr /\ isr' = isr /\ ready' = ready /\ keys' = keys
      /\ pressed' = pressed /\ deaf' = deaf /\ faults' = faults
  BY DEF Restore, Stub, devices
<1>10. TypeOK'
  BY <1>4, <1>5, <1>9 DEF Inv, TypeOK, Places
<1>11. Starting' /\ Masked' /\ (keys <= pressed + 1)'
  BY <1>1, <1>9 DEF Inv, Starting, Masked, Interruptible
<1> QED
  BY <1>4, <1>8, <1>9, <1>10, <1>11 DEF Inv

(* The stub drops its two words. *)
LEMMA CleanupStep ==
  ASSUME Inv, Cleanup
  PROVE  Inv'
<1> DEFINE k == Len(stack)
           j == Under(stack, k - 2)
<1>1. k \in Nat /\ stack \in Seq(Word) /\ main # 1 /\ isr = {}
  BY DEF Inv, TypeOK, Cleanup, Starting, Masked
<1>2. /\ at = "drop" /\ at' = "iret" /\ Drop(2) /\ regs' = regs /\ IF_' = IF_
      /\ main' = main /\ handlers' = handlers
      /\ called' = called /\ irr' = irr /\ isr' = isr /\ ready' = ready /\ keys' = keys
      /\ pressed' = pressed /\ deaf' = deaf /\ faults' = faults
  BY DEF Cleanup, Stub, devices
<1>3. k > 2 /\ j \in 1 .. k - 2 /\ stack[j].kind = "frame" /\ stack[j].saved = regs
  BY <1>1, <1>2 DEF Inv, Shape, IsFrame, Under
<1>4. /\ stack' \in Seq(Word) /\ Len(stack') = k - 2 /\ Agree(stack, stack', k - 2)
      /\ Nested(stack')
  BY <1>1, <1>2, <1>3, PopStep
<1>5. stack'[k - 2] = stack[k - 2] /\ stack'[j] = stack[j] /\ k - 2 > 0
  BY <1>1, <1>3, <1>4 DEF Agree
<1>6. Under(stack', Len(stack')) = j
  BY <1>4, <1>5 DEF Under
<1>7. Shape(stack', "iret", Len(stack'), regs')
  BY <1>2, <1>3, <1>4, <1>5, <1>6 DEF Shape, IsFrame, InHandler, Dispatchers
<1>8. TypeOK'
  BY <1>2, <1>4 DEF Inv, TypeOK, Places
<1>9. Starting' /\ Masked' /\ (keys <= pressed + 1)'
  BY <1>1, <1>2 DEF Inv, Starting, Masked, Interruptible
<1> QED
  BY <1>2, <1>4, <1>7, <1>8, <1>9 DEF Inv

(* iret pops a frame, and what it finds on top is a frame. *)
LEMMA IretStep ==
  ASSUME Inv, Iret
  PROVE  Inv'
<1> DEFINE k == Len(stack)
           f == stack[k]
<1>1. k \in Nat /\ stack \in Seq(Word) /\ main # 1 /\ isr = {} /\ Top(0) = f
  BY DEF Inv, TypeOK, Iret, Starting, Masked, Top
<1>2. /\ at = "iret" /\ regs' = regs
      /\ main' = main /\ handlers' = handlers
      /\ called' = called /\ irr' = irr /\ isr' = isr /\ ready' = ready /\ keys' = keys
      /\ pressed' = pressed /\ deaf' = deaf /\ faults' = faults
  BY DEF Iret, Stub, devices
<1>3. k > 0 /\ f \in Word /\ (f.kind = "frame" => f.saved = regs)
  BY <1>1, <1>2 DEF Inv, Shape, IsFrame, Under
<1>4. CASE f.kind = "frame"
  <2>1. at' = f.back /\ IF_' = f.flag /\ Drop(1)
    BY <1>1, <1>4 DEF Iret
  <2>2. /\ f.back \in Interruptible /\ Shape(stack, f.back, k - 1, f.saved)
        /\ f.flag \in BOOLEAN
    BY <1>1, <1>3, <1>4, WordFields DEF Inv, Nested
  <2>3. /\ stack' \in Seq(Word) /\ Len(stack') = k - 1 /\ Agree(stack, stack', k - 1)
        /\ Nested(stack')
    BY <1>1, <1>3, <2>1, PopStep
  <2>4. Shape(stack', at', Len(stack'), regs')
    BY <1>1, <1>2, <1>3, <1>4, <2>1, <2>2, <2>3, ShapeAgrees
  <2>5. TypeOK'
    BY <1>2, <2>1, <2>2, <2>3 DEF Inv, TypeOK, Places, Interruptible
  <2>6. Starting' /\ Masked' /\ (keys <= pressed + 1)'
    BY <1>1, <1>2, <2>1, <2>2 DEF Inv, Starting, Masked, Interruptible
  <2> QED
    BY <2>3, <2>4, <2>5, <2>6 DEF Inv
<1>5. CASE f.kind # "frame"
  <2>1. at' = "lost" /\ IF_' = IF_ /\ stack' = stack
    BY <1>1, <1>5 DEF Iret
  <2>2. TypeOK'
    BY <1>2, <2>1 DEF Inv, TypeOK, Places, Stopped
  <2>3. Starting' /\ Masked' /\ (keys <= pressed + 1)'
    BY <1>1, <1>2, <2>1 DEF Inv, Starting, Masked, Interruptible, Stopped
  <2>4. Nested(stack') /\ Shape(stack', at', Len(stack'), regs')
    BY <2>1 DEF Inv, Shape, InHandler, Dispatchers
  <2> QED
    BY <2>2, <2>3, <2>4 DEF Inv
<1> QED
  BY <1>4, <1>5

(* Every step keeps the invariant. *)
LEMMA StepInv == Inv /\ [Next]_vars => Inv'
<1> SUFFICES ASSUME Inv, [Next]_vars PROVE Inv'
  OBVIOUS
<1>1. CASE UNCHANGED vars
  <2>1. /\ main' = main /\ at' = at /\ stack' = stack /\ regs' = regs /\ IF_' = IF_
        /\ handlers' = handlers /\ called' = called /\ irr' = irr /\ isr' = isr
        /\ ready' = ready /\ keys' = keys /\ pressed' = pressed /\ deaf' = deaf
        /\ faults' = faults
    BY <1>1 DEF vars, cpu, devices
  <2>2. TypeOK' /\ Starting' /\ Masked' /\ (keys <= pressed + 1)'
    BY <2>1 DEF Inv, TypeOK, Starting, Masked, interruption_number, Top
  <2> QED
    BY <2>1, <2>2 DEF Inv
<1>2. CASE Main
  BY <1>2, MainStep
<1>3. CASE Interrupt
  BY <1>3, InterruptStep
<1>4. CASE Handler
  BY <1>4, DispatchStep, HandlerStep, RestoreStep, CleanupStep, IretStep DEF Handler
<1>5. CASE Press \/ \E l \in Lines : Raise(l)
  BY <1>5, DeviceStep
<1>6. CASE \E l \in Spurious : Vanish(l)
  BY <1>6, VanishStep
<1>7. CASE \E v \in Exceptions : Fault(v)
  BY <1>7, FaultStep
<1> QED
  BY <1>1, <1>2, <1>3, <1>4, <1>5, <1>6, <1>7 DEF Next, Processor, Halt

(* The invariant holds. *)
LEMMA Invariance == Spec => []Inv
<1> QED
  BY InitInv, StepInv, PTL DEF Spec

-----------------------------------------------------------------------------
(* Every variable has its type (isr.c, interrupt.s). *)
THEOREM Types == Spec => []TypeOK
<1>1. Inv => TypeOK
  BY DEF Inv
<1> QED
  BY <1>1, Invariance, PTL

(* Wherever interrupts are enabled, the controllers hold no line back, however
   deep the handlers are nested (isr.c:43-53).                              *)
THEOREM LinesAreOpen == Spec => []LinesOpen
<1>1. Inv => LinesOpen
  BY DEF Inv, Masked, LinesOpen, Interruptible, Stopped
<1> QED
  BY <1>1, Invariance, PTL

(* The frame under a dispatcher's words is the last one. *)
LEMMA RaisedIs ==
  ASSUME Inv, at \in Dispatchers
  PROVE  Raised = stack[Under(stack, Len(stack) - 3)].vector
<1> DEFINE k == Len(stack)
           j == Under(stack, k - 3)
           I == {i \in 1 .. k : stack[i].kind = "frame"}
<1>1. k \in Nat /\ Entry(stack, k)
  BY DispatcherReads DEF Inv, TypeOK
<1>2. k > 3 /\ j \in I /\ j >= k - 4
  BY <1>1 DEF Entry, IsFrame, Under
<1>3. \A i \in I : i <= j
  <2> SUFFICES ASSUME NEW i \in 1 .. k, i > j PROVE stack[i].kind # "frame"
    BY <1>1, <1>2
  <2>1. stack[k - 2].kind = "number" /\ stack[k - 1].kind = "number" /\ stack[k].kind = "registers"
    BY <1>1 DEF Entry, Numbers, Number
  <2>2. i = k \/ i = k - 1 \/ i = k - 2 \/ (i = k - 3 /\ j = k - 4)
    BY <1>1, <1>2 DEF Under
  <2>3. j = k - 4 => stack[k - 3].kind = "error"
    BY <1>1, <1>2 DEF Under
  <2> QED
    BY <2>1, <2>2, <2>3
<1>4. SelectLastInSeq(stack, LAMBDA word : word.kind = "frame") = j
  <2>1. SelectLastInSeq(stack, LAMBDA word : word.kind = "frame")
          = IF I # {} THEN CHOOSE i \in I : \A h \in I : i >= h ELSE 0
    BY DEF SelectLastInSeq, Max
  <2>2. \A i \in I : (\A h \in I : i >= h) => i = j
    BY <1>1, <1>2, <1>3
  <2>3. \A h \in I : j >= h
    BY <1>1, <1>2, <1>3
  <2> HIDE DEF I, j
  <2> QED
    BY <1>2, <2>1, <2>2, <2>3
<1> QED
  BY <1>4 DEF Raised

(* A dispatcher calls the handler of the vector that was raised, and nothing
   when there is none, whatever exceptions there are (isr.c:15-61).         *)
THEOREM DispatchIsRight == Spec => Dispatched
<1>1. ASSUME Inv, [Next]_vars, at' # at, at \in {"isr", "error", "irq"}
      PROVE  called' = (IF Raised \in handlers THEN Raised ELSE None)
  <2>1. at \in Dispatchers
    BY <1>1 DEF Dispatchers
  <2>2. /\ at \in {"isr", "irq"} => interruption_number = Raised
        /\ at = "error" => error_code = Raised
    BY <1>1, <2>1, RaisedIs, DispatcherReads
  <2>3. ~Interrupt /\ \A l : ~Vanish(l)
    BY <1>1, <2>1 DEF Inv, Masked, Dispatchers, Interruptible, Stopped, Interrupt, Vanish, Takes
  <2>4. isr_handler \/ isr_error_handler \/ irq_handler
    <3>1. ~(UNCHANGED vars) /\ ~Press /\ (\A l : ~Raise(l)) /\ ~Halt
      BY <1>1 DEF vars, cpu, Press, Raise, Halt
    <3>2. ~Main /\ \A v : ~Fault(v)
      BY <1>1 DEF Main, initialize_descriptor_tables, init_keyboard, EnableInterrupts,
                  initialise_paging, initialise_timer, DisableInterrupts, initialise_tasking,
                  Idle, Register, Flag, Now, Fault
    <3>3. /\ ~keyboard_press_callback /\ ~timer_callback /\ ~page_fault
          /\ ~Return /\ ~Restore /\ ~Cleanup /\ ~Iret
      BY <1>1 DEF keyboard_press_callback, timer_callback, page_fault, Return, Restore,
                  Cleanup, Iret
    <3> QED
      BY <1>1, <2>3, <3>1, <3>2, <3>3 DEF Next, Processor, Handler
  <2>5. ASSUME NEW n, Dispatch(n) PROVE called' = (IF n \in handlers THEN n ELSE None)
    BY <2>5 DEF Dispatch
  <2> QED
    BY <1>1, <2>2, <2>4, <2>5 DEF isr_handler, isr_error_handler, irq_handler
<1>2. Inv /\ [Next]_vars
        => (at' # at /\ at \in {"isr", "error", "irq"} =>
              called' = (IF Raised \in handlers THEN Raised ELSE None))
  BY <1>1
<1>3. Inv /\ [Next]_vars
        => [at' # at /\ at \in {"isr", "error", "irq"} =>
              called' = (IF Raised \in handlers THEN Raised ELSE None)]_vars
  BY <1>2
<1> QED
  BY <1>3, Invariance, PTL DEF Spec, Dispatched

-----------------------------------------------------------------------------
(* Returning from an interrupt *)

(* There is no error code at the start. *)
LEMMA ErrorCodesInit == Init => ErrorCodes
BY DEF Init, ErrorCodes

(* An error code is only ever under the handler that ends in panic. *)
LEMMA ErrorCodesStep ==
  ASSUME PageFaultsOnly, Inv, ErrorCodes, [Next]_vars
  PROVE  ErrorCodes'
<1> DEFINE Errors == {j \in 1 .. Len(stack) : stack[j].kind = "error"}
<1>1. /\ ErrorCodes <=> /\ Errors # {} => at \in {"error", "handler", "panic"}
                        /\ at = "error" => error_code = 14 /\ 14 \in handlers
                        /\ at = "handler" /\ Errors # {} => called = 14
  BY DEF ErrorCodes
<1>2. stack \in Seq(Word) /\ Len(stack) \in Nat
  BY DEF Inv, TypeOK
<1>3. ASSUME at \in Interruptible, NEW v \in 0 .. 47, Enter(v), handlers' = handlers,
             v \in PushesErrorCode => v = 14 /\ 14 \in handlers
      PROVE  ErrorCodes'
  <2> DEFINE n == Len(stack)
             k == Len(stack')
  <2>1. /\ stack' \in Seq(Word) /\ Agree(stack, stack', n)
        /\ k = (IF v \in PushesErrorCode THEN n + 5 ELSE n + 4)
        /\ stack'[n + 1] = Frame(v)
        /\ <<stack'[k - 2], stack'[k - 1]>> = Numbers(v)
        /\ stack'[k] = Registers
    BY <1>3, Entered DEF Inv
  <2>2. at' = Dispatcher(v) /\ Errors = {}
    BY <1>1, <1>3 DEF Enter, ErrorCodes, Interruptible
  <2>3. CASE v \in PushesErrorCode
    <3>1. v = 14 /\ at' = "error" /\ 14 \in handlers'
      BY <1>3, <2>2, <2>3 DEF Dispatcher, ErrorStubs
    <3>2. stack'[k - 2] = Number(14)
      BY <2>1, <3>1 DEF Numbers, ErrorStubs
    <3>3. error_code' = 14
      BY <3>2 DEF error_code, Top, Number
    <3> QED
      BY <3>1, <3>3 DEF ErrorCodes
  <2>4. CASE v \notin PushesErrorCode
    <3>1. at' # "error" /\ at' # "handler"
      BY <2>2, <2>4 DEF Dispatcher, ErrorStubs, PushesErrorCode
    <3>2. stack'[k - 2].kind = "number" /\ stack'[k - 1].kind = "number"
      BY <2>1 DEF Numbers, Number
    <3>3. stack'[n + 1].kind = "frame" /\ stack'[k].kind = "registers"
      BY <2>1 DEF Frame, Registers
    <3>4. \A i \in 1 .. n : stack'[i].kind # "error"
      BY <2>1, <2>2 DEF Agree
    <3>5. \A i \in 1 .. k : i \in 1 .. n \/ i = n + 1 \/ i = k - 2 \/ i = k - 1 \/ i = k
      BY <1>2, <2>1, <2>4
    <3>6. \A i \in 1 .. k : stack'[i].kind # "error"
      BY <3>2, <3>3, <3>4, <3>5
    <3> QED
      BY <3>1, <3>6 DEF ErrorCodes
  <2> QED
    BY <2>3, <2>4
<1>4. ASSUME NEW k \in 0 .. Len(stack), Drop(k), at \in Interruptible, at' \in Interruptible
      PROVE  ErrorCodes'
  <2>1. \A i \in 1 .. Len(stack') : i \in 1 .. Len(stack) /\ stack'[i] = stack[i]
    BY <1>2, <1>4, PopStep DEF Agree
  <2>2. \A i \in 1 .. Len(stack') : stack'[i].kind # "error"
    BY <1>4, <2>1 DEF ErrorCodes, Interruptible
  <2> QED
    BY <1>4, <2>2 DEF ErrorCodes, Interruptible
<1>5. ASSUME stack' = stack, at' = at, handlers' = handlers, called' = called
      PROVE  ErrorCodes'
  BY <1>5 DEF ErrorCodes, error_code, Top
<1>6. ASSUME stack' = stack, Errors = {}, at' # "error"
      PROVE  ErrorCodes'
  BY <1>6 DEF ErrorCodes
<1>7. CASE UNCHANGED vars
  BY <1>5, <1>7 DEF vars, cpu
<1>8. CASE Main
  <2>1. stack' = stack /\ at = "code" /\ at' = "code"
    BY <1>8 DEF Main, initialize_descriptor_tables, init_keyboard, EnableInterrupts,
                initialise_paging, initialise_timer, DisableInterrupts, initialise_tasking,
                Idle, Register, Flag, Now
  <2> QED
    BY <1>1, <1>6, <2>1
<1>9. CASE Press \/ \E l \in Lines : Raise(l)
  BY <1>5, <1>9 DEF Press, Raise, cpu
<1>10. ASSUME at \in Interruptible, handlers' = handlers, NEW l \in 0 .. 15, Enter(Vector(l))
       PROVE  ErrorCodes'
  <2>1. Vector(l) \in 0 .. 47 /\ Vector(l) \notin PushesErrorCode
    BY Told DEF PushesErrorCode
  <2> QED
    BY <1>3, <1>10, <2>1
<1>11. CASE Interrupt
  <2>1. at \in Interruptible /\ handlers' = handlers
    BY <1>11 DEF Inv, TypeOK, Interrupt, Takes, Masked, Interruptible
  <2>2. PICK l \in Pending : Enter(Vector(l))
    BY <1>11 DEF Interrupt
  <2>3. l \in 0 .. 15
    BY InterruptsAssumption DEF Pending, Inv, TypeOK
  <2> QED
    BY <1>10, <2>1, <2>2, <2>3
<1>12. ASSUME NEW l \in Spurious, Vanish(l)
       PROVE  ErrorCodes'
  <2>1. at \in Interruptible /\ handlers' = handlers /\ l \in 0 .. 15
    BY <1>12, InterruptsAssumption DEF Inv, TypeOK, Vanish, Takes, Masked, Interruptible
  <2> QED
    BY <1>10, <1>12, <2>1 DEF Vanish
<1>13. ASSUME NEW v \in Exceptions, Fault(v)
       PROVE  ErrorCodes'
  <2>1. at \in Interruptible /\ handlers' = handlers /\ v \in 0 .. 47 /\ Enter(v)
    BY <1>13, InterruptsAssumption DEF Fault, Interruptible
  <2>2. v \in PushesErrorCode => v = 14 /\ 14 \in handlers
    BY <1>13 DEF PageFaultsOnly, Fault
  <2> QED
    BY <1>3, <2>1, <2>2
<1>14. CASE isr_handler \/ irq_handler
  <2>1. stack' = stack /\ at \in {"isr", "irq"} /\ at' \in {"handler", "restore"}
    BY <1>14 DEF isr_handler, irq_handler, Dispatch
  <2> QED
    BY <1>1, <1>6, <2>1
<1>15. CASE isr_error_handler
  <2>1. error_code = 14 /\ 14 \in handlers
    BY <1>1, <1>15 DEF isr_error_handler
  <2>2. stack' = stack /\ at' = "handler" /\ called' = 14
    BY <1>15, <2>1 DEF isr_error_handler, Dispatch
  <2> QED
    BY <2>2 DEF ErrorCodes
<1>16. CASE keyboard_press_callback \/ timer_callback
  <2>1. stack' = stack /\ at = "handler" /\ called # 14 /\ at' \in {"restore", "return"}
    BY <1>16 DEF keyboard_press_callback, timer_callback, Returns
  <2> QED
    BY <1>1, <1>6, <2>1
<1>17. CASE page_fault
  BY <1>17 DEF page_fault, Returns, ErrorCodes
<1>18. CASE Return
  <2>1. stack' = stack /\ at = "return" /\ at' = "restore"
    BY <1>18 DEF Return, Returns
  <2> QED
    BY <1>1, <1>6, <2>1
<1>19. CASE Restore
  <2>1. Entry(stack, Len(stack))
    BY <1>19 DEF Inv, Shape, InHandler, Dispatchers, Restore
  <2>2. 1 \in 0 .. Len(stack)
    BY <1>2, <2>1 DEF Entry
  <2> QED
    BY <1>4, <1>19, <2>2 DEF Restore, Interruptible
<1>20. CASE Cleanup
  <2>1. 2 \in 0 .. Len(stack)
    BY <1>2, <1>20 DEF Inv, Shape, Cleanup
  <2> QED
    BY <1>4, <1>20, <2>1 DEF Cleanup, Interruptible
<1>21. CASE Iret
  <2>1. /\ Len(stack) > 0 /\ 1 \in 0 .. Len(stack) /\ Top(0) = stack[Len(stack)]
        /\ at = "iret"
    BY <1>2, <1>21 DEF Inv, Shape, Iret, Top
  <2>2. CASE Top(0).kind = "frame"
    <3>1. at' \in Interruptible /\ Drop(1)
      BY <1>2, <1>21, <2>1, <2>2 DEF Inv, Nested, Iret
    <3> QED
      BY <1>4, <2>1, <3>1 DEF Interruptible
  <2>3. CASE Top(0).kind # "frame"
    BY <1>1, <1>6, <1>21, <2>3 DEF Iret
  <2> QED
    BY <2>2, <2>3
<1>22. CASE Handler
  BY <1>14, <1>15, <1>16, <1>17, <1>18, <1>19, <1>20, <1>21, <1>22 DEF Handler
<1>23. Main \/ Interrupt \/ Handler \/ Press \/ (\E l \in Lines : Raise(l))
         \/ (\E l \in Spurious : Vanish(l)) \/ (\E v \in Exceptions : Fault(v))
         \/ UNCHANGED vars
  BY DEF Next, Processor, Halt
<1> QED
  BY <1>7, <1>8, <1>9, <1>11, <1>12, <1>13, <1>22, <1>23

(* When a stub is at iret, what the processor pushed is on top and the registers
   are those of the interrupted code, however many interrupts there were in
   between (interrupt.s:127-135), provided that no exception other than a page
   fault, which never returns, has the processor push an error code.        *)
THEOREM Returning == ASSUME PageFaultsOnly PROVE Spec => []ReturnsIntact
<1>1. Inv /\ ErrorCodes /\ [Next]_vars => ErrorCodes'
  BY ErrorCodesStep
<1>2. Inv /\ ErrorCodes => ReturnsIntact
  <2> SUFFICES ASSUME Inv, ErrorCodes, at = "iret"
               PROVE  Top(0).kind = "frame" /\ regs = Top(0).saved
    BY DEF ReturnsIntact
  <2>1. /\ Len(stack) > 0 /\ IsFrame(stack, Under(stack, Len(stack)))
        /\ stack[Under(stack, Len(stack))].saved = regs /\ Len(stack) \in Nat
    BY DEF Inv, TypeOK, Shape
  <2>2. stack[Len(stack)].kind # "error"
    BY <2>1 DEF ErrorCodes
  <2> QED
    BY <2>1, <2>2 DEF Under, IsFrame, Top
<1> QED
  BY <1>1, <1>2, ErrorCodesInit, Invariance, PTL DEF Spec
=============================================================================
