--------------------------------- MODULE PCI ---------------------------------
(***************************************************************************)
(* PCIScan of common/PCI/pci.c: reading the configuration header of every   *)
(* function that a bus can have, through one address port and one data      *)
(* port.  One action is one header read.                                   *)
(***************************************************************************)
EXTENDS Integers, Sequences

CONSTANTS
  Buses, Devices, Functions,   (* PCI_MAX_BUSES, _DEVICES and _FUNCTIONS    *)
  Machines                     (* what may be on the buses: the functions
                                  there are, and the devices whose header
                                  type says that they have several          *)

Slots == (0 .. Buses - 1) \X (0 .. Devices - 1)

(* the limits of the source, or less, and any machine within them *)
PCIAssumption ==
  /\ Buses \in 1 .. 255 /\ Devices \in 1 .. 32 /\ Functions \in 1 .. 8
  /\ \A machine \in Machines :
       /\ machine.functions \subseteq Slots \X (0 .. Functions - 1)
       /\ machine.several \subseteq Slots

VARIABLES
  machine, bus, dev, func,
  printed      (* the functions that PrintPCIDevHeader has been called for  *)

vars == <<machine, bus, dev, func, printed>>

(* the bit fields of PCIConfigAddres, without the enable bit *)
Address(b, d, f, reg) == 65536 * b + 2048 * d + 256 * f + 4 * reg

(* which function the host bridge selects for an address *)
Selected(address) ==
  <<<<(address \div 65536) % 256, (address \div 2048) % 32>>, (address \div 256) % 8>>

(* ReadPCIDevHeader: register 0 has the vendor, all ones where nothing answers;
   register 3 has the header type                                           *)
Answers(f) == Selected(Address(bus, dev, f, 0)) \in machine.functions
HasSeveral == Selected(Address(bus, dev, 0, 3))[1] \in machine.several

PrintIf(there, f) == printed' = IF there THEN Append(printed, <<<<bus, dev>>, f>>) ELSE printed

ScanInit ==
  /\ machine \in Machines
  /\ bus = 0 /\ dev = 0 /\ func = 0
  /\ printed = <<>>

Scanned == bus = Buses

NextDevice ==
  /\ func' = 0
  /\ IF dev + 1 < Devices THEN dev' = dev + 1 /\ UNCHANGED bus
                          ELSE dev' = 0 /\ bus' = bus + 1

(* Function 0; the others only if the header says that there are more. *)
ScanDevice ==
  /\ ~Scanned /\ func = 0
  /\ PrintIf(Answers(0), 0)
  /\ IF Answers(0) /\ HasSeveral /\ Functions > 1
       THEN func' = 1 /\ UNCHANGED <<bus, dev>>
       ELSE NextDevice
  /\ UNCHANGED machine

(* Mutant: the scan of a device ends where a function is missing. *)
ScanFunction_gap ==
  /\ ~Scanned /\ func > 0
  /\ PrintIf(Answers(func), func)
  /\ IF Answers(func) /\ func + 1 < Functions
       THEN func' = func + 1 /\ UNCHANGED <<bus, dev>> ELSE NextDevice
  /\ UNCHANGED machine

(* The functions after it, with gaps where one is missing. *)
ScanFunction ==
  /\ ~Scanned /\ func > 0
  /\ PrintIf(Answers(func), func)
  /\ IF func + 1 < Functions THEN func' = func + 1 /\ UNCHANGED <<bus, dev>> ELSE NextDevice
  /\ UNCHANGED machine

Scan == ScanDevice \/ ScanFunction

-----------------------------------------------------------------------------
(* Every variable has its type (pci.c). *)
ScanTypeOK ==
  /\ bus \in 0 .. Buses /\ dev \in 0 .. Devices - 1 /\ func \in 0 .. Functions - 1
  /\ printed \in Seq(Slots \X (0 .. Functions - 1))

(* the functions that a scan can find *)
Findable ==
  {f \in machine.functions : /\ <<f[1], 0>> \in machine.functions
                             /\ f[2] = 0 \/ f[1] \in machine.several}

(* When the scan is over each function that can be found has been printed, and
   once: gaps between functions, devices without a function 0 and the order of
   reading and overwriting the one header do not matter (pci.c:139-163).    *)
ScanComplete ==
  Scanned => /\ {printed[k] : k \in DOMAIN printed} = Findable
             /\ \A j, k \in DOMAIN printed : printed[j] = printed[k] => j = k
=============================================================================
