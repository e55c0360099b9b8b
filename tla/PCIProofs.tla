------------------------------ MODULE PCIProofs ------------------------------
(***************************************************************************)
(* Proofs about PCI, for any numbers of buses, devices and functions within *)
(* those of the source, and whatever is on the buses.                      *)
(*                                                                         *)
(* The scan is a nest of three loops with a way out of the innermost one:   *)
(* the invariant says what has been printed when the loops stand at (bus,   *)
(* dev, func), by the order in which they come to the functions.           *)
(***************************************************************************)
EXTENDS PCI, SequenceTheorems, TLAPS

AllFunctions == Slots \X (0 .. Functions - 1)

(* the functions that the loops have left behind *)
Behind(f) ==
  \/ f[1][1] < bus
  \/ f[1][1] = bus /\ f[1][2] < dev
  \/ f[1] = <<bus, dev>> /\ f[2] < func

ScanInv ==
  /\ ScanTypeOK
  /\ machine.functions \subseteq AllFunctions /\ machine.several \subseteq Slots
  /\ Scanned => dev = 0 /\ func = 0
  /\ func > 0 => /\ <<<<bus, dev>>, 0>> \in machine.functions
                 /\ <<bus, dev>> \in machine.several
  /\ {printed[k] : k \in DOMAIN printed} = {f \in Findable : Behind(f)}
  /\ \A j, k \in DOMAIN printed : printed[j] = printed[k] => j = k

-----------------------------------------------------------------------------
(* The host bridge selects the function that the loops stand at: no field of an
   address reaches into the next one.                                       *)
LEMMA AddressSelects ==
  ASSUME PCIAssumption,
         NEW b \in 0 .. Buses - 1, NEW d \in 0 .. Devices - 1,
         NEW f \in 0 .. Functions - 1, NEW reg \in {0, 3}
  PROVE  Selected(Address(b, d, f, reg)) = <<<<b, d>>, f>>
<1>1. b \in 0 .. 254 /\ d \in 0 .. 31 /\ f \in 0 .. 7
  BY DEF PCIAssumption
<1> DEFINE a == Address(b, d, f, reg)
<1>2. a = 65536 * b + 2048 * d + 256 * f + 4 * reg
  BY DEF Address
<1>3. (a \div 65536) % 256 = b
  BY <1>1, <1>2
<1>4. (a \div 2048) % 32 = d
  <2>1. a \div 2048 = 32 * b + d
    BY <1>1, <1>2
  <2> HIDE DEF a
  <2>2. (32 * b + d) % 32 = d
    BY <1>1
  <2> QED
    BY <2>1, <2>2
<1>5. (a \div 256) % 8 = f
  <2>1. a \div 256 = 8 * (32 * b + d) + f
    BY <1>1, <1>2
  <2>2. 32 * b + d \in Nat
    BY <1>1
  <2> DEFINE q == 32 * b + d
  <2> HIDE DEF q, a
  <2>3. (8 * q + f) % 8 = f
    BY <1>1, <2>2 DEF q
  <2> QED
    BY <2>1, <2>3 DEF q
<1> QED
  BY <1>3, <1>4, <1>5 DEF Selected

(* A header read answers for the function that the loops stand at, and for no other. *)
LEMMA Reads ==
  ASSUME PCIAssumption, ScanTypeOK, ~Scanned
  PROVE  /\ <<bus, dev>> \in Slots /\ <<<<bus, dev>>, func>> \in AllFunctions
         /\ Answers(func) <=> <<<<bus, dev>>, func>> \in machine.functions
         /\ HasSeveral <=> <<bus, dev>> \in machine.several
<1>1. /\ bus \in 0 .. Buses - 1 /\ dev \in 0 .. Devices - 1 /\ func \in 0 .. Functions - 1
      /\ 0 \in 0 .. Functions - 1
  BY DEF PCIAssumption, ScanTypeOK, Scanned
<1>2. /\ Selected(Address(bus, dev, func, 0)) = <<<<bus, dev>>, func>>
      /\ Selected(Address(bus, dev, 0, 3)) = <<<<bus, dev>>, 0>>
  BY <1>1, AddressSelects
<1> QED
  BY <1>1, <1>2 DEF Answers, HasSeveral, Slots, AllFunctions

(* What one header adds to what is printed *)
LEMMA Prints ==
  ASSUME ScanTypeOK, NEW there \in BOOLEAN, PrintIf(there, func), NEW x, x = <<<<bus, dev>>, func>>,
         x \in AllFunctions,
         \A j, k \in DOMAIN printed : printed[j] = printed[k] => j = k,
         x \notin {printed[k] : k \in DOMAIN printed}
  PROVE  /\ printed' \in Seq(AllFunctions)
         /\ {printed'[k] : k \in DOMAIN printed'}
              = {printed[k] : k \in DOMAIN printed} \cup (IF there THEN {x} ELSE {})
         /\ \A j, k \in DOMAIN printed' : printed'[j] = printed'[k] => j = k
<1>1. printed \in Seq(AllFunctions)
  BY DEF ScanTypeOK, AllFunctions
<1>2. CASE ~there
  BY <1>1, <1>2 DEF PrintIf
<1>3. CASE there
  <2>1. printed' = Append(printed, x)
    BY <1>3 DEF PrintIf
  <2> DEFINE n == Len(printed)
  <2>2. /\ n \in Nat /\ DOMAIN printed = 1 .. n /\ DOMAIN printed' = 1 .. n + 1
        /\ printed' \in Seq(AllFunctions)
        /\ \A k \in 1 .. n : printed'[k] = printed[k]
        /\ printed'[n + 1] = x
    BY <1>1, <2>1, AppendProperties
  <2> HIDE DEF n
  <2>3. 1 .. n + 1 = (1 .. n) \cup {n + 1}
    BY <2>2
  <2>4. {printed'[k] : k \in DOMAIN printed'} = {printed[k] : k \in DOMAIN printed} \cup {x}
    <3>1. {printed'[k] : k \in 1 .. n} = {printed[k] : k \in 1 .. n}
      BY <2>2
    <3>2. {printed'[k] : k \in (1 .. n) \cup {n + 1}}
            = {printed'[k] : k \in 1 .. n} \cup {printed'[n + 1]}
      OBVIOUS
    <3>3. DOMAIN printed' = (1 .. n) \cup {n + 1}
      BY <2>2, <2>3
    <3> QED
      BY <2>2, <3>1, <3>2, <3>3
  <2>5. \A j, k \in DOMAIN printed' : printed'[j] = printed'[k] => j = k
    BY <2>2, <2>3
  <2> QED
    BY <1>3, <2>2, <2>4, <2>5
<1> QED
  BY <1>2, <1>3

(* Before the first header nothing is behind the loops, and nothing is printed. *)
LEMMA InitScan == ASSUME PCIAssumption, ScanInit PROVE ScanInv
<1>1. ScanTypeOK
  BY DEF PCIAssumption, ScanInit, ScanTypeOK
<1>2. machine.functions \subseteq AllFunctions /\ machine.several \subseteq Slots
  BY DEF PCIAssumption, ScanInit, AllFunctions
<1>3. ~Scanned /\ func = 0 /\ printed = <<>>
  BY DEF PCIAssumption, ScanInit, Scanned
<1>4. \A f \in AllFunctions : ~Behind(f)
  BY DEF ScanInit, Behind, AllFunctions, Slots
<1>5. {f \in Findable : Behind(f)} = {}
  BY <1>2, <1>4 DEF Findable
<1> QED
  BY <1>1, <1>2, <1>3, <1>5 DEF ScanInv

(* The loops go on to the next function, or to the next device. *)
LEMMA Moves ==
  ASSUME PCIAssumption, ScanTypeOK, ~Scanned
  PROVE  /\ func' = func + 1 /\ func + 1 < Functions /\ bus' = bus /\ dev' = dev =>
              /\ func' \in 0 .. Functions - 1
              /\ \A f \in AllFunctions : Behind(f)' <=> Behind(f) \/ f = <<<<bus, dev>>, func>>
         /\ NextDevice =>
              /\ bus' \in 0 .. Buses /\ dev' \in 0 .. Devices - 1 /\ func' \in 0 .. Functions - 1
              /\ func' = 0 /\ (Scanned' => dev' = 0)
              /\ \A f \in AllFunctions : Behind(f)' <=> Behind(f) \/ f[1] = <<bus, dev>>
<1>1. /\ Buses \in Nat /\ Devices \in Nat /\ Functions \in Nat /\ Functions > 0 /\ Devices > 0
      /\ bus \in 0 .. Buses - 1 /\ dev \in 0 .. Devices - 1 /\ func \in 0 .. Functions - 1
  BY DEF PCIAssumption, ScanTypeOK, Scanned
<1>2. ASSUME NEW f \in AllFunctions
      PROVE  \E b \in 0 .. Buses - 1, d \in 0 .. Devices - 1, n \in 0 .. Functions - 1 :
               f = <<<<b, d>>, n>>
  BY DEF AllFunctions, Slots
<1>3. ASSUME func' = func + 1, func + 1 < Functions, bus' = bus, dev' = dev
      PROVE  /\ func' \in 0 .. Functions - 1
             /\ \A f \in AllFunctions : Behind(f)' <=> Behind(f) \/ f = <<<<bus, dev>>, func>>
  <2>1. func' \in 0 .. Functions - 1
    BY <1>1, <1>3
  <2>2. ASSUME NEW f \in AllFunctions
        PROVE  Behind(f)' <=> Behind(f) \/ f = <<<<bus, dev>>, func>>
    <3>1. PICK b \in 0 .. Buses - 1, d \in 0 .. Devices - 1, n \in 0 .. Functions - 1 :
            f = <<<<b, d>>, n>>
      BY <1>2
    <3> QED
      BY <1>1, <1>3, <3>1 DEF Behind
  <2> QED
    BY <2>1, <2>2
<1>4. ASSUME NextDevice
      PROVE  /\ bus' \in 0 .. Buses /\ dev' \in 0 .. Devices - 1 /\ func' \in 0 .. Functions - 1
             /\ func' = 0 /\ (Scanned' => dev' = 0)
             /\ \A f \in AllFunctions : Behind(f)' <=> Behind(f) \/ f[1] = <<bus, dev>>
  <2>1. /\ bus' \in 0 .. Buses /\ dev' \in 0 .. Devices - 1 /\ func' \in 0 .. Functions - 1
        /\ func' = 0 /\ (Scanned' => dev' = 0)
    BY <1>1, <1>4 DEF NextDevice, Scanned
  <2>2. ASSUME NEW f \in AllFunctions
        PROVE  Behind(f)' <=> Behind(f) \/ f[1] = <<bus, dev>>
    <3>1. PICK b \in 0 .. Buses - 1, d \in 0 .. Devices - 1, n \in 0 .. Functions - 1 :
            f = <<<<b, d>>, n>>
      BY <1>2
    <3>2. CASE dev + 1 < Devices
      <4>1. func' = 0 /\ bus' = bus /\ dev' = dev + 1
        BY <1>4, <3>2 DEF NextDevice
      <4> QED
        BY <1>1, <3>1, <4>1 DEF Behind
    <3>3. CASE ~(dev + 1 < Devices)
      <4>1. func' = 0 /\ bus' = bus + 1 /\ dev' = 0 /\ dev = Devices - 1
        BY <1>1, <1>4, <3>3 DEF NextDevice
      <4> QED
        BY <1>1, <3>1, <4>1 DEF Behind
    <3> QED
      BY <3>2, <3>3
  <2> QED
    BY <2>1, <2>2
<1> QED
  BY <1>3, <1>4

(* A header is read. *)
LEMMA ScanStep ==
  ASSUME PCIAssumption, ScanInv, Scan
  PROVE  ScanInv'
<1> DEFINE x == <<<<bus, dev>>, func>>
<1>1. /\ ScanTypeOK /\ ~Scanned /\ machine' = machine
      /\ machine.functions \subseteq AllFunctions /\ machine.several \subseteq Slots
      /\ Findable' = Findable /\ Findable \subseteq AllFunctions
  BY DEF ScanInv, Scan, ScanDevice, ScanFunction, Findable
<1>2. /\ <<bus, dev>> \in Slots /\ x \in AllFunctions
      /\ Answers(func) <=> x \in machine.functions
      /\ HasSeveral <=> <<bus, dev>> \in machine.several
  BY <1>1, Reads
<1>3. ~Behind(x) /\ func \in 0 .. Functions - 1
  BY <1>1 DEF Behind, ScanTypeOK, PCIAssumption
<1>4. PrintIf(Answers(func), func) /\ (Answers(func) <=> x \in Findable)
  <2>1. CASE ScanDevice
    BY <1>2, <2>1 DEF ScanDevice, Findable
  <2>2. CASE ScanFunction
    <3>1. <<<<bus, dev>>, 0>> \in machine.functions /\ <<bus, dev>> \in machine.several
      BY <2>2 DEF ScanFunction, ScanInv
    <3> QED
      BY <1>2, <2>2, <3>1 DEF ScanFunction, Findable
  <2> QED
    BY <2>1, <2>2 DEF Scan
<1>5. x \notin {printed[k] : k \in DOMAIN printed}
  BY <1>3 DEF ScanInv
<1>6. /\ printed' \in Seq(AllFunctions)
      /\ {printed'[k] : k \in DOMAIN printed'}
           = {printed[k] : k \in DOMAIN printed} \cup (IF Answers(func) THEN {x} ELSE {})
      /\ \A j, k \in DOMAIN printed' : printed'[j] = printed'[k] => j = k
  <2>1. Answers(func) \in BOOLEAN
    BY DEF Answers
  <2>2. \A j, k \in DOMAIN printed : printed[j] = printed[k] => j = k
    BY DEF ScanInv
  <2> HIDE DEF x
  <2> QED
    BY <1>1, <1>2, <1>4, <1>5, <2>1, <2>2, Prints DEF x
<1>7. {printed'[k] : k \in DOMAIN printed'}
        = {f \in Findable : Behind(f) \/ f = x}
  BY <1>4, <1>6 DEF ScanInv
<1>8. CASE func' = func + 1 /\ func + 1 < Functions /\ bus' = bus /\ dev' = dev
  <2>1. /\ func' \in 0 .. Functions - 1
        /\ \A f \in AllFunctions : Behind(f)' <=> Behind(f) \/ f = x
    BY <1>1, <1>8, Moves
  <2>2. {printed'[k] : k \in DOMAIN printed'} = {f \in Findable : Behind(f)'}
    BY <1>1, <1>7, <2>1
  <2>3. <<<<bus, dev>>, 0>> \in machine.functions /\ <<bus, dev>> \in machine.several
    <3>1. CASE ScanDevice
      BY <1>2, <1>8, <3>1 DEF ScanDevice, NextDevice, ScanTypeOK
    <3>2. CASE ScanFunction
      BY <3>2 DEF ScanFunction, ScanInv
    <3> QED
      BY <3>1, <3>2 DEF Scan
  <2>4. ScanTypeOK'
    BY <1>1, <1>6, <1>8, <2>1 DEF ScanTypeOK, AllFunctions
  <2>5. ~Scanned'
    BY <1>1, <1>8 DEF Scanned
  <2> QED
    BY <1>1, <1>6, <1>8, <2>2, <2>3, <2>4, <2>5 DEF ScanInv
<1>9. CASE NextDevice
  <2>1. /\ bus' \in 0 .. Buses /\ dev' \in 0 .. Devices - 1 /\ func' \in 0 .. Functions - 1
        /\ func' = 0 /\ (Scanned' => dev' = 0)
        /\ \A f \in AllFunctions : Behind(f)' <=> Behind(f) \/ f[1] = <<bus, dev>>
    BY <1>1, <1>9, Moves
  <2>2. ASSUME NEW f \in Findable, f[1] = <<bus, dev>>
        PROVE  Behind(f) \/ f = x
    <3>1. /\ f \in AllFunctions /\ f[2] \in 0 .. Functions - 1 /\ f = <<<<bus, dev>>, f[2]>>
          /\ <<<<bus, dev>>, 0>> \in machine.functions
          /\ f[2] = 0 \/ <<bus, dev>> \in machine.several
      BY <1>1, <2>2 DEF Findable, AllFunctions, Slots
    <3>2. f[2] <= func
      <4>1. CASE ScanDevice
        <5>1. CASE f[2] = 0
          BY <4>1, <5>1 DEF ScanDevice
        <5>2. CASE f[2] > 0
          <6>1. Answers(0) /\ HasSeveral /\ Functions > 1 /\ func = 0
            BY <1>2, <1>3, <3>1, <4>1, <5>2 DEF ScanDevice, PCIAssumption
          <6>2. func' = 1
            BY <4>1, <6>1 DEF ScanDevice
          <6> QED
            BY <2>1, <6>2
        <5> QED
          BY <3>1, <5>1, <5>2 DEF PCIAssumption
      <4>2. CASE ScanFunction
        <5>1. ~(func + 1 < Functions)
          BY <1>3, <2>1, <4>2 DEF ScanFunction
        <5> QED
          BY <1>3, <3>1, <5>1 DEF PCIAssumption
      <4> QED
        BY <4>1, <4>2 DEF Scan
    <3> QED
      BY <1>3, <3>1, <3>2 DEF Behind, PCIAssumption
  <2>3. x[1] = <<bus, dev>>
    OBVIOUS
  <2>4. {printed'[k] : k \in DOMAIN printed'} = {f \in Findable : Behind(f)'}
    <3> HIDE DEF x
    <3>1. \A f \in Findable : Behind(f)' <=> Behind(f) \/ f = x
      BY <1>1, <2>1, <2>2, <2>3
    <3> QED
      BY <1>7, <3>1
  <2>5. ScanTypeOK'
    BY <1>6, <2>1 DEF ScanTypeOK, AllFunctions
  <2> QED
    BY <1>1, <1>6, <2>1, <2>4, <2>5 DEF ScanInv
<1> QED
  <2>1. CASE ScanDevice
    BY <1>8, <1>9, <2>1 DEF ScanDevice
  <2>2. CASE ScanFunction
    BY <1>8, <1>9, <2>2 DEF ScanFunction
  <2> QED
    BY <2>1, <2>2 DEF Scan

(* Nothing is read. *)
LEMMA ScanStays == ASSUME ScanInv, UNCHANGED vars PROVE ScanInv'
<1>1. machine' = machine /\ bus' = bus /\ dev' = dev /\ func' = func /\ printed' = printed
  BY DEF vars
<1> QED
  BY <1>1 DEF ScanInv, ScanTypeOK, Scanned, Findable, Behind

(* The scan is over and what was printed is forgotten. *)
LEMMA ScanForgets ==
  ASSUME ScanInv, bus' = bus /\ dev' = dev /\ func' = func, Scanned,
         machine' = [functions |-> {}, several |-> {}], printed' = <<>>
  PROVE  ScanInv'
<1>1. printed' \in Seq(AllFunctions) /\ DOMAIN printed' = {}
  OBVIOUS
<1>2. Findable' = {} /\ machine'.functions = {} /\ machine'.several = {}
  BY DEF Findable
<1>3. func = 0 /\ dev = 0 /\ Scanned'
  BY DEF ScanInv, Scanned
<1>4. ScanTypeOK'
  BY <1>1 DEF ScanInv, ScanTypeOK, AllFunctions
<1>5. {printed'[k] : k \in DOMAIN printed'} = {f \in Findable' : Behind(f)'}
  BY <1>1, <1>2
<1> QED
  BY <1>1, <1>2, <1>3, <1>4, <1>5 DEF ScanInv

(* When the scan is over every function is behind. *)
LEMMA InvComplete == ASSUME PCIAssumption, ScanInv PROVE ScanComplete
<1> SUFFICES ASSUME Scanned
             PROVE  /\ {printed[k] : k \in DOMAIN printed} = Findable
                    /\ \A j, k \in DOMAIN printed : printed[j] = printed[k] => j = k
  BY DEF ScanComplete
<1>1. \A f \in AllFunctions : Behind(f)
  BY DEF PCIAssumption, Behind, AllFunctions, Slots, Scanned
<1>2. Findable \subseteq AllFunctions
  BY DEF ScanInv, Findable
<1>3. {f \in Findable : Behind(f)} = Findable
  BY <1>1, <1>2
<1> QED
  BY <1>3 DEF ScanInv
=============================================================================
