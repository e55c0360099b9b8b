------------------------------- MODULE MCBoot -------------------------------
(* Boot with the constants of the source: 16 MB of RAM, 1 MB of heap at
   0xC0000000, a stack of 8 KB below 0xE0000000, eight functions per device.
   Two of the 255 buses and two of the 32 devices of each.                  *)
EXTENDS Boot

(* "end" as the linker script leaves it (1 MB + the image, page aligned):
   a usual image over zeroed RAM, the same over RAM full of ones, an image
   over scattered bits, and an image so large that the second page table of
   the identity map is made inside the identity loop.                       *)
MCImages ==
  { [end |-> 1114112, ram |-> {}],
    [end |-> 1114112, ram |-> 0 .. 4095],
    [end |-> 1191936, ram |-> {0, 3, 290, 1023, 1024, 4095}],
    [end |-> 4194304 - 5 * 4096, ram |-> {7}] }

(* what may be in a slot: nothing; one function; function 0 with others, in a
   row, with gaps, or hidden by the header type; others without function 0   *)
Devices_ ==
  { [functions |-> {}, several |-> FALSE],
    [functions |-> {0}, several |-> FALSE],
    [functions |-> {0, 1, 7}, several |-> TRUE],
    [functions |-> {0, 3}, several |-> FALSE],
    [functions |-> {2, 5}, several |-> TRUE] }

Slots_ == (0 .. Buses - 1) \X (0 .. Devices - 1)

MCMachines ==
  { [functions |-> {f \in Slots_ \X (0 .. Functions - 1) : f[2] \in kind[f[1]].functions},
     several |-> {s \in Slots_ : kind[s].several}] : kind \in [Slots_ -> Devices_] }

(* four live words: a number or a pointer to an end of the stack, a saved frame
   pointer, another word, and what the loader pushed                        *)
MCStacks ==
  { [esp |-> stack_esp - 4, ebp |-> stack_esp - 3,
     words |-> [a \in stack_esp - 4 .. stack_esp - 1 |->
                  (<<w[1], stack_esp - 1, w[2], stack_esp>>)[a - stack_esp + 5]]] :
       w \in {<<7, stack_esp + 1>>, <<stack_esp - 4, 0>>,
              <<stack_esp - 2, stack_esp - 1>>, <<stack_esp - 5, stack_esp - 2>>} }
=============================================================================
