---------------------------- MODULE PagingProofs ----------------------------
(***************************************************************************)
(* Proofs about Paging, for every size of the memory, of the bitset's      *)
(* words, of the page tables and of the directories.                       *)
(*                                                                         *)
(* The invariants of the runs are not inductive by themselves: what a step *)
(* writes into a new page table or a new directory does no harm because    *)
(* nobody can reach it yet, which the four invariants that come first say. *)
(***************************************************************************)
EXTENDS Paging, WellFoundedInduction, TLAPS

(* A page table that has not been made yet has no frames. *)
UnmadeTables ==
  \A t \in TableIds : t > table_count => \A e \in EntrySet : FrameOf(t, e) = 0

(* The directory being cloned is the newest one, and its source is older. *)
CloneShape ==
  /\ clone.dir # 0 => clone.dir = directory_count /\ clone.src \in 2 .. directory_count - 1
  /\ clone.dir # 0 => directory_count > 2
  /\ clone.dir # 0 => current_directory < directory_count
  /\ clone.table # 0 => clone.dir # 0 /\ clone.slot < Slots /\ SourceTable # 0

(* The table being cloned is in no directory, and the entries that the loop
   has not come to have no frames.                                          *)
CloneTablePrivate ==
  clone.table # 0 =>
    /\ \A d \in 1 .. directory_count, s \in SlotSet : directories[d][s] # clone.table
    /\ \A e \in EntrySet : e >= clone.entry => FrameOf(clone.table, e) = 0

(* The slots that clone_directory has passed hold the kernel's tables, and it
   copies no table in a slot whose table the kernel has shared.             *)
CloneLinked ==
  clone.dir # 0 =>
    \A s \in {0, HeapSlot} :
      /\ s < clone.slot => directories[clone.dir][s] = directories[kernel_directory][s]
      /\ clone.table # 0 => s # clone.slot

-----------------------------------------------------------------------------
(* first_frame always answers a frame of the machine, and one whose bit is
   clear as long as there is one (paging.c:49-67).                          *)
LEMMA FirstFrame ==
  /\ first_frame \in 0 .. NumFrames - 1
  /\ FreeFrames # {} => first_frame \in FreeFrames
<1>1. CASE FreeFrames = {}
  <2>1. Words \in Nat /\ Words < NumFrames
    BY PagingAssumption, SMT DEF Words
  <2> QED
    BY <1>1, <2>1, PagingAssumption DEF first_frame
<1>2. CASE FreeFrames # {}
  <2>1. FreeFrames \subseteq 0 .. NumFrames - 1 /\ FreeFrames \subseteq Nat
    BY PagingAssumption DEF FreeFrames
  <2>2. PICK m \in FreeFrames : \A k \in FreeFrames : <<k, m>> \notin OpToRel(<, Nat)
    BY <1>2, <2>1, WFMin, NatLessThanWellFounded, Zenon
  <2>3. \A k \in FreeFrames : ~(k < m)
    BY <2>1, <2>2, Zenon DEF OpToRel
  <2>4. \A k \in FreeFrames : m <= k
    BY <2>1, <2>3, SMT
  <2>5. first_frame \in FreeFrames
    BY <1>2, <2>4, Zenon DEF first_frame
  <2> QED
    BY <2>1, <2>5
<1> QED
  BY <1>1, <1>2

(* What alloc_frame writes is a page of the machine. *)
LEMMA BackedType ==
  ASSUME NEW k \in BOOLEAN, NEW w \in BOOLEAN
  PROVE  Backed(k, w) \in Page /\ Backed(k, w).frame = first_frame
BY FirstFrame DEF Backed, Page

LEMMA ZeroTableType ==
  ZeroTable \in [EntrySet -> Page] /\ \A e \in EntrySet : ZeroTable[e].frame = 0
BY PagingAssumption DEF ZeroTable, ZeroPage, Page

(* A page number has a slot and an entry. *)
LEMMA PageIndex ==
  ASSUME NEW page \in HeapArea \cup StackArea
  PROVE  SlotOf(page) \in SlotSet /\ EntryOf(page) \in EntrySet
<1>1. page \in Nat /\ Entries \in Nat \ {0} /\ page \div Entries < Slots /\ Slots \in Nat
  BY PagingAssumption
<1>2. page \div Entries \in Nat /\ page % Entries \in 0 .. Entries - 1
  BY <1>1, SMT
<1> QED
  BY <1>1, <1>2 DEF SlotOf, EntryOf, SlotSet, EntrySet

(* What alloc_frame does to the tables it is given and to the bitset: nothing,
   or the one entry gets first_frame (paging.c:72-92).                      *)
LEMMA AllocFrameEffect ==
  ASSUME NEW tbls \in [TableIds -> [EntrySet -> Page]],
         NEW t \in TableIds, NEW e \in EntrySet,
         NEW k \in BOOLEAN, NEW w \in BOOLEAN,
         AllocFrame(tbls, t, e, k, w)
  PROVE  /\ tables' \in [TableIds -> [EntrySet -> Page]]
         /\ \/ tables' = tbls /\ frames' = frames /\ exhausted' = exhausted
            \/ /\ tbls[t][e].frame = 0 /\ tables'[t][e].frame = first_frame
               /\ \A u \in TableIds, g \in EntrySet :
                    <<u, g>> # <<t, e>> => tables'[u][g] = tbls[u][g]
               /\ TakeFrame
<1>1. CASE tbls[t][e].frame # 0
  BY <1>1 DEF AllocFrame
<1>2. CASE tbls[t][e].frame = 0
  <2>1. tables' = [tbls EXCEPT ![t][e] = Backed(k, w)] /\ TakeFrame
    BY <1>2 DEF AllocFrame
  <2>2. tables' \in [TableIds -> [EntrySet -> Page]]
    BY <2>1, BackedType
  <2>3. tables'[t][e].frame = first_frame
    BY <2>1, BackedType
  <2>4. \A u \in TableIds, g \in EntrySet : <<u, g>> # <<t, e>> => tables'[u][g] = tbls[u][g]
    BY <2>1
  <2> QED
    BY <1>2, <2>1, <2>2, <2>3, <2>4
<1> QED
  BY <1>1, <1>2

-----------------------------------------------------------------------------
Reach ==
  /\ TypeOK
  /\ UnmadeTables
  /\ CloneShape
  /\ CloneTablePrivate

TablesType == [TableIds -> [EntrySet -> Page]]
DirectoriesType(n) == [DirIds -> [SlotSet -> 0 .. n]]

(* Entry e of table t, which has no frame, gets first_frame; no other entry
   gets a frame.                                                            *)
Gains(t, e) ==
  /\ FrameOf(t, e) = 0 /\ tables'[t][e].frame = first_frame
  /\ \A u \in TableIds, g \in EntrySet :
       <<u, g>> # <<t, e>> => FrameOf(u, g)' \in {FrameOf(u, g), 0}
  /\ TakeFrame

(* No entry gets a frame, and no bit but bit 0 is cleared. *)
GainsNothing ==
  /\ \A u \in TableIds, g \in EntrySet : FrameOf(u, g)' \in {FrameOf(u, g), 0}
  /\ frames \ {0} \subseteq frames' /\ frames' \subseteq frames
  /\ exhausted' = exhausted

(* alloc_frame on an entry that get_page found or made: at most one table is
   made, and it is entered in an empty slot (paging.c:195-217).             *)
LEMMA MapPageEffect ==
  ASSUME TypeOK, UnmadeTables,
         NEW dir \in DirIds, NEW page \in HeapArea \cup StackArea,
         NEW k \in BOOLEAN, NEW w \in BOOLEAN,
         MapPage(dir, page, k, w)
  PROVE  /\ tables' \in TablesType
         /\ \/ table_count' = table_count /\ directories' = directories
            \/ /\ table_count' = table_count + 1 /\ table_count + 1 <= MaxTables
               /\ \E s \in SlotSet :
                    /\ directories[dir][s] = 0
                    /\ directories' = [directories EXCEPT ![dir][s] = table_count + 1]
         /\ GainsNothing \/ \E t \in 1 .. table_count', e \in EntrySet : Gains(t, e)
<1> DEFINE s == SlotOf(page)
           e == EntryOf(page)
           t == directories[dir][s]
           new == table_count + 1
<1>0. /\ s \in SlotSet /\ e \in EntrySet
      /\ tables \in TablesType
      /\ table_count \in 2 .. MaxTables /\ MaxTables \in Nat
      /\ directories \in DirectoriesType(table_count)
      /\ t \in 0 .. table_count
  BY PageIndex, PagingAssumption DEF TypeOK, TablesType, DirectoriesType
<1>1. CASE t # 0 /\ AllocFrame(tables, t, e, k, w) /\ UNCHANGED <<table_count, directories>>
  <2>1. t \in 1 .. table_count' /\ t \in TableIds
    BY <1>0, <1>1 DEF TableIds
  <2>2. /\ tables' \in TablesType
        /\ \/ tables' = tables /\ frames' = frames /\ exhausted' = exhausted
           \/ /\ tables[t][e].frame = 0 /\ tables'[t][e].frame = first_frame
              /\ \A u \in TableIds, g \in EntrySet :
                    <<u, g>> # <<t, e>> => tables'[u][g] = tables[u][g]
              /\ TakeFrame
    BY <1>0, <1>1, <2>1, AllocFrameEffect DEF TablesType
  <2>3. GainsNothing \/ Gains(t, e)
    BY <2>2 DEF GainsNothing, Gains, FrameOf
  <2> QED
    BY <1>0, <1>1, <2>1, <2>2, <2>3
<1>2. CASE /\ t = 0
           /\ new <= MaxTables
           /\ table_count' = new
           /\ directories' = [directories EXCEPT ![dir][s] = new]
           /\ AllocFrame([tables EXCEPT ![new] = ZeroTable], new, e, k, w)
  <2> DEFINE tbls == [tables EXCEPT ![new] = ZeroTable]
  <2>1. new \in TableIds /\ new \in 1 .. table_count'
    BY <1>0, <1>2 DEF TableIds
  <2>2. tbls \in TablesType
    BY <1>0, ZeroTableType DEF TablesType
  <2>3. /\ tables' \in TablesType
        /\ \/ tables' = tbls /\ frames' = frames /\ exhausted' = exhausted
           \/ /\ tbls[new][e].frame = 0 /\ tables'[new][e].frame = first_frame
              /\ \A u \in TableIds, g \in EntrySet :
                    <<u, g>> # <<new, e>> => tables'[u][g] = tbls[u][g]
              /\ TakeFrame
    <3> HIDE DEF tbls
    <3>1. AllocFrame(tbls, new, e, k, w)
      BY <1>2 DEF tbls
    <3> QED
      BY <1>0, <2>1, <2>2, <3>1, AllocFrameEffect DEF TablesType
  <2>4. \A u \in TableIds, g \in EntrySet : tbls[u][g].frame \in {FrameOf(u, g), 0}
    BY <1>0, ZeroTableType DEF FrameOf, TablesType
  <2>5. FrameOf(new, e) = 0
    BY <1>0, <2>1 DEF UnmadeTables
  <2>6. GainsNothing \/ Gains(new, e)
    <3> HIDE DEF tbls, new
    <3> QED
      BY <2>3, <2>4, <2>5 DEF GainsNothing, Gains, FrameOf
  <2> QED
    BY <1>0, <1>2, <2>1, <2>3, <2>6
<1> QED
  BY <1>1, <1>2 DEF MapPage

(* The types of the variables one by one, as the steps below use them. *)
LEMMA TypeFacts ==
  ASSUME TypeOK
  PROVE  /\ tables \in TablesType
         /\ table_count \in 2 .. MaxTables /\ MaxTables \in Nat
         /\ directories \in DirectoriesType(table_count)
         /\ directory_count \in 2 .. MaxDirs /\ MaxDirs \in Nat
         /\ kernel_directory \in DirIds /\ current_directory \in DirIds
         /\ Slots \in Nat /\ Entries \in Nat \ {0}
<1>1. tables \in TablesType /\ directories \in DirectoriesType(table_count)
  BY Zenon DEF TypeOK, TablesType, DirectoriesType
<1>2. /\ table_count \in 2 .. MaxTables /\ directory_count \in 2 .. MaxDirs
      /\ current_directory \in 2 .. directory_count
  BY Zenon DEF TypeOK
<1>3. /\ MaxTables \in Nat /\ MaxDirs \in Nat /\ Slots \in Nat /\ Entries \in Nat \ {0}
  BY PagingAssumption, Zenon
<1>4. kernel_directory \in DirIds /\ current_directory \in DirIds
  BY <1>2, <1>3 DEF DirIds, kernel_directory
<1> QED
  BY <1>1, <1>2, <1>3, <1>4

(* get_page and alloc_frame leave every table and directory well formed. *)
LEMMA MapPageReach ==
  ASSUME Reach, NEW dir \in 1 .. directory_count, NEW page \in HeapArea \cup StackArea,
         MapPage(dir, page, FALSE, TRUE), clone.table = 0,
         UNCHANGED <<directory_count, current_directory, clone>>
  PROVE  Reach'
<1>0. /\ dir \in DirIds
      /\ TypeOK /\ UnmadeTables
  BY TypeFacts DEF Reach, DirIds
<1>1. /\ tables' \in TablesType
      /\ \/ table_count' = table_count /\ directories' = directories
         \/ /\ table_count' = table_count + 1 /\ table_count + 1 <= MaxTables
            /\ \E s \in SlotSet :
                 /\ directories[dir][s] = 0
                 /\ directories' = [directories EXCEPT ![dir][s] = table_count + 1]
      /\ GainsNothing \/ \E t \in 1 .. table_count', e \in EntrySet : Gains(t, e)
  BY <1>0, MapPageEffect, Zenon
<1>2. /\ table_count' \in 2 .. MaxTables /\ table_count' >= table_count
      /\ directories' \in DirectoriesType(table_count')
  BY <1>0, <1>1, TypeFacts DEF DirectoriesType
<1>3. frames' \subseteq 0 .. NumFrames - 1 /\ exhausted' \in BOOLEAN
  BY <1>0, <1>1, FirstFrame DEF TypeOK, GainsNothing, Gains, TakeFrame
<1>4. TypeOK'
  BY <1>0, <1>1, <1>2, <1>3 DEF TypeOK, TablesType, DirectoriesType
<1>5. UnmadeTables'
  <2> SUFFICES ASSUME NEW t \in TableIds, t > table_count', NEW e \in EntrySet
               PROVE  FrameOf(t, e)' = 0
    BY DEF UnmadeTables
  <2>1. FrameOf(t, e) = 0
    BY <1>0, <1>2, TypeFacts DEF UnmadeTables, TableIds
  <2>2. CASE GainsNothing
    BY <2>1, <2>2 DEF GainsNothing
  <2>3. CASE \E u \in 1 .. table_count', g \in EntrySet : Gains(u, g)
    BY <1>2, <2>1, <2>3 DEF Gains
  <2> QED
    BY <1>1, <2>2, <2>3
<1>6. CloneShape' /\ CloneTablePrivate'
  BY DEF Reach, CloneShape, CloneTablePrivate
<1> QED
  BY <1>4, <1>5, <1>6 DEF Reach

LEMMA ReachInit == Init => Reach
<1> SUFFICES ASSUME Init PROVE Reach
  OBVIOUS
<1>1. tables \in [TableIds -> [EntrySet -> Page]]
  <2> DEFINE backed(f) == [present |-> TRUE, rw |-> FALSE, user |-> TRUE, frame |-> f]
             entry(t, e) == CASE t = 1 /\ e < IdentityPages -> backed(e)
                              [] t = 2 /\ e < BootHeap -> backed(IdentityPages + e)
                              [] OTHER -> ZeroPage
  <2>1. ZeroPage \in Page /\ \A f \in 0 .. NumFrames - 1 : backed(f) \in Page
    BY PagingAssumption DEF ZeroPage, Page
  <2>2. ASSUME NEW t \in TableIds, NEW e \in EntrySet
        PROVE  \/ \E f \in 0 .. NumFrames - 1 : entry(t, e) = backed(f)
               \/ entry(t, e) = ZeroPage
    <3>1. /\ e \in Int /\ 0 <= e
          /\ IdentityPages \in Int /\ 0 <= IdentityPages /\ BootHeap \in Int
          /\ NumFrames \in Int /\ IdentityPages + BootHeap <= NumFrames /\ 0 <= BootHeap
      BY PagingAssumption DEF EntrySet
    <3>2. CASE t = 1 /\ e < IdentityPages
      <4>1. entry(t, e) = backed(e)
        BY <3>2
      <4>2. e \in 0 .. NumFrames - 1
        BY <3>1, <3>2
      <4> QED
        BY <4>1, <4>2
    <3>3. CASE t = 2 /\ e < BootHeap
      <4>1. entry(t, e) = backed(IdentityPages + e)
        BY <3>3
      <4>2. IdentityPages + e \in 0 .. NumFrames - 1
        BY <3>1, <3>3
      <4> QED
        BY <4>1, <4>2
    <3>4. CASE ~(t = 1 /\ e < IdentityPages) /\ ~(t = 2 /\ e < BootHeap)
      BY <3>4
    <3> QED
      BY <3>2, <3>3, <3>4
  <2>3. \A t \in TableIds, e \in EntrySet : entry(t, e) \in Page
    BY <2>1, <2>2
  <2>4. tables = [t \in TableIds |-> [e \in EntrySet |-> entry(t, e)]]
    BY DEF Init
  <2> HIDE DEF entry
  <2> QED
    BY <2>3, <2>4
<1>2. directories \in [DirIds -> [SlotSet -> 0 .. table_count]]
  BY DEF Init
<1>3. TypeOK
  <2>1. clone \in [dir : 0 .. directory_count, src : 0 .. directory_count,
                   slot : 0 .. Slots, table : 0 .. table_count, entry : 0 .. Entries]
    BY PagingAssumption DEF Init, Idle
  <2>2. frames \subseteq 0 .. NumFrames - 1
    BY PagingAssumption DEF Init
  <2>3. /\ table_count = 2 /\ directory_count = 2
        /\ current_directory = 2
    BY DEF Init
  <2>4. /\ table_count \in 2 .. MaxTables /\ directory_count \in 2 .. MaxDirs
        /\ current_directory \in 2 .. directory_count
    BY <2>3, PagingAssumption
  <2>5. exhausted \in BOOLEAN
    BY DEF Init
  <2> QED
    BY <1>1, <1>2, <2>1, <2>2, <2>4, <2>5 DEF TypeOK
<1>4. UnmadeTables
  BY DEF Init, UnmadeTables, FrameOf, ZeroPage, TableIds
<1>5. CloneShape /\ CloneTablePrivate
  BY DEF Init, CloneShape, CloneTablePrivate, Idle
<1> QED
  BY <1>3, <1>4, <1>5 DEF Reach

(* What an iteration of clone_table does: nothing, or the entry of the copy
   gets first_frame (paging.c:250-262).                                     *)
LEMMA CloneEntryEffect ==
  ASSUME TypeOK, CloneEntry, clone.table \in TableIds, clone.entry \in EntrySet,
         SourceTable \in TableIds
  PROVE  /\ tables' \in TablesType
         /\ \/ UNCHANGED <<tables, frames, exhausted>>
            \/ TakeFrame /\ tables'[clone.table][clone.entry].frame = first_frame
         /\ \A u \in TableIds, g \in EntrySet :
              <<u, g>> # <<clone.table, clone.entry>> => tables'[u][g] = tables[u][g]
<1> DEFINE t == clone.table
           e == clone.entry
           original == tables[SourceTable][e]
           copied == [Backed(FALSE, FALSE) EXCEPT !.rw = original.rw,
                                                  !.user = @ \/ original.user]
<1>1. original \in Page /\ tables \in TablesType
  BY TypeFacts DEF TablesType
<1>2. copied \in Page /\ copied.frame = first_frame
  BY <1>1, FirstFrame DEF Backed, Page
<1>3. CASE original.frame = 0
  <2>1. tables' = [tables EXCEPT ![t][e] = copied] /\ TakeFrame
    BY <1>3 DEF CloneEntry
  <2> HIDE DEF t, e, copied
  <2>2. t \in TableIds /\ e \in EntrySet
    BY DEF t, e
  <2>3. tables' \in TablesType /\ tables'[t][e] = copied
    BY <1>1, <1>2, <2>1, <2>2 DEF TablesType
  <2>4. \A u \in TableIds, g \in EntrySet : <<u, g>> # <<t, e>> => tables'[u][g] = tables[u][g]
    BY <1>1, <2>1, <2>2 DEF TablesType
  <2> QED
    BY <1>2, <2>1, <2>3, <2>4 DEF t, e
<1>4. CASE original.frame # 0
  BY <1>1, <1>4 DEF CloneEntry
<1> QED
  BY <1>3, <1>4

(* clone_table copies a table that exists. *)
LEMMA SourceTableMade ==
  ASSUME Reach, clone.table # 0
  PROVE  SourceTable \in TableIds
<1>0. /\ clone.slot \in 0 .. Slots /\ clone.slot < Slots /\ Slots \in Nat
      /\ clone.src \in 2 .. directory_count - 1 /\ directory_count \in 2 .. MaxDirs
      /\ MaxDirs \in Nat /\ SourceTable # 0
  BY TypeFacts DEF Reach, TypeOK, CloneShape
<1>1. clone.src \in DirIds /\ clone.slot \in SlotSet /\ SourceTable # 0
  BY <1>0 DEF DirIds, SlotSet
<1>2. directories[clone.src][clone.slot] \in 0 .. table_count
  BY <1>1, TypeFacts DEF Reach, DirectoriesType
<1> QED
  BY <1>1, <1>2, TypeFacts DEF Reach, SourceTable, TableIds

LEMMA ReachNext == Reach /\ [Next]_vars => Reach'
<1> SUFFICES ASSUME Reach, [Next]_vars PROVE Reach'
  OBVIOUS
<1>0. /\ TypeOK /\ UnmadeTables /\ CloneShape /\ CloneTablePrivate
      /\ tables \in TablesType
      /\ table_count \in 2 .. MaxTables /\ MaxTables \in Nat
      /\ directories \in DirectoriesType(table_count)
      /\ directory_count \in 2 .. MaxDirs /\ MaxDirs \in Nat
      /\ Slots \in Nat /\ Entries \in Nat \ {0}
  BY TypeFacts DEF Reach
<1> DEFINE CloneType == [dir : 0 .. directory_count, src : 0 .. directory_count,
                         slot : 0 .. Slots, table : 0 .. table_count, entry : 0 .. Entries]
<1>00. clone \in CloneType
  BY <1>0 DEF TypeOK
<1>1. CASE \E page \in HeapArea : MapHeapPage(page)
  <2>1. PICK page \in HeapArea : MapHeapPage(page)
    BY <1>1
  <2>2. kernel_directory \in 1 .. directory_count
    BY <1>0 DEF kernel_directory
  <2> QED
    BY <2>1, <2>2, MapPageReach DEF MapHeapPage
<1>2. CASE \E page \in HeapArea : UnmapHeapPage(page)
  <2>1. PICK page \in HeapArea : UnmapHeapPage(page)
    BY <1>2
  <2> DEFINE t == directories[kernel_directory][SlotOf(page)]
             e == EntryOf(page)
  <2>2. t \in TableIds /\ e \in EntrySet
    BY <1>0, <2>1, PageIndex DEF UnmapHeapPage, DirectoriesType, DirIds, kernel_directory, TableIds
  <2>3. /\ frames' \subseteq frames
        /\ tables' = [tables EXCEPT ![t][e].frame = 0]
    BY <2>1 DEF UnmapHeapPage, FreeFrame
  <2>4. tables' \in TablesType
    <3> HIDE DEF t, e
    <3>1. 0 \in 0 .. NumFrames - 1
      BY FirstFrame, PagingAssumption
    <3>2. [tables[t][e] EXCEPT !.frame = 0] \in Page
      BY <1>0, <2>2, <3>1 DEF TablesType, Page
    <3> QED
      BY <1>0, <2>2, <2>3, <3>2 DEF TablesType
  <2>5. \A u \in TableIds, g \in EntrySet : FrameOf(u, g)' \in {FrameOf(u, g), 0}
    <3> HIDE DEF t, e
    <3> QED
      BY <1>0, <2>2, <2>3 DEF TablesType, FrameOf, Page
  <2>6. UNCHANGED <<table_count, directories, directory_count, current_directory,
                    clone, exhausted>> /\ clone.table = 0
    BY <1>0, <2>1 DEF UnmapHeapPage, CloneShape
  <2> QED
    BY <1>0, <2>3, <2>4, <2>5, <2>6
    DEF Reach, TypeOK, UnmadeTables, CloneShape, CloneTablePrivate, TablesType
<1>3. CASE \E page \in StackArea : MapStackPage(page)
  <2>1. PICK page \in StackArea : MapStackPage(page)
    BY <1>3
  <2>2. clone.table = 0 /\ current_directory \in 1 .. directory_count
    BY <1>0, <2>1 DEF MapStackPage, CloneShape, TypeOK
  <2> QED
    BY <2>1, <2>2, MapPageReach DEF MapStackPage
<1>4. CASE \E dir \in DirIds : SwitchDirectory(dir)
  BY <1>0, <1>4
  DEF SwitchDirectory, Reach, TypeOK, UnmadeTables, CloneShape, CloneTablePrivate, FrameOf
<1>5. CASE BeginClone
  <2>1. /\ clone' = [dir |-> directory_count + 1, src |-> current_directory,
                     slot |-> 0, table |-> 0, entry |-> 0]
        /\ directory_count' = directory_count + 1 /\ directory_count + 1 <= MaxDirs
        /\ directories' = [directories EXCEPT ![directory_count + 1] = ZeroDirectory]
        /\ UNCHANGED <<frames, tables, table_count, current_directory, exhausted>>
    <3>1. Idle \in CloneType /\ Idle.slot = 0 /\ Idle.table = 0 /\ Idle.entry = 0
      BY <1>0 DEF Idle
    <3>2. clone' = [Idle EXCEPT !.dir = directory_count + 1, !.src = current_directory]
      BY <1>5 DEF BeginClone
    <3>3. clone' = [dir |-> directory_count + 1, src |-> current_directory,
                    slot |-> 0, table |-> 0, entry |-> 0]
      BY <3>1, <3>2
    <3>4. directory_count + 1 <= MaxDirs
      BY <1>0, <1>5 DEF BeginClone
    <3> QED
      BY <1>5, <3>3, <3>4, Zenon DEF BeginClone
  <2>2. directories' \in DirectoriesType(table_count)
    BY <1>0, <2>1 DEF DirectoriesType, ZeroDirectory, SlotSet, DirIds
  <2>3. clone' \in CloneType'
    BY <1>0, <2>1 DEF TypeOK
  <2>4. TypeOK'
    BY <1>0, <2>1, <2>2, <2>3 DEF TypeOK, DirectoriesType
  <2>5. CloneShape' /\ CloneTablePrivate' /\ UnmadeTables'
    BY <1>0, <2>1 DEF CloneShape, CloneTablePrivate, UnmadeTables, FrameOf, TypeOK
  <2> QED
    BY <2>4, <2>5 DEF Reach
<1>6. CASE CloneSlot
  <2>1. /\ clone.dir \in DirIds /\ clone.slot \in SlotSet /\ clone.src \in DirIds
        /\ clone.table = 0
        /\ SourceTable \in 0 .. table_count
    BY <1>0, <1>00, <1>6
    DEF CloneSlot, InSlotLoop, CloneShape, DirIds, SlotSet, SourceTable, DirectoriesType
  <2>2. /\ directories' = [directories EXCEPT ![clone.dir][clone.slot] = SourceTable]
        /\ clone' = [clone EXCEPT !.slot = clone.slot + 1]
        /\ UNCHANGED <<frames, tables, table_count, directory_count,
                       current_directory, exhausted>>
    BY <1>6 DEF CloneSlot
  <2>3. directories' \in DirectoriesType(table_count)
    BY <1>0, <2>1, <2>2 DEF DirectoriesType
  <2>4. clone' \in CloneType'
    BY <1>0, <1>00, <2>1, <2>2 DEF SlotSet
  <2>5. TypeOK'
    BY <1>0, <2>2, <2>3, <2>4 DEF TypeOK, DirectoriesType
  <2>6. CloneShape' /\ CloneTablePrivate' /\ UnmadeTables'
    BY <1>0, <1>00, <2>1, <2>2 DEF CloneShape, CloneTablePrivate, UnmadeTables, FrameOf
  <2> QED
    BY <2>5, <2>6 DEF Reach
<1>7. CASE BeginCloneTable
  <2> DEFINE new == table_count + 1
  <2>1. /\ new \in TableIds /\ table_count' = new
        /\ tables' = [tables EXCEPT ![new] = ZeroTable]
        /\ clone' = [clone EXCEPT !.table = new, !.entry = 0]
        /\ UNCHANGED <<frames, directories, directory_count, current_directory, exhausted>>
        /\ InSlotLoop
    BY <1>0, <1>7 DEF BeginCloneTable, TableIds
  <2>2. tables' \in TablesType
    BY <1>0, <2>1, ZeroTableType DEF TablesType
  <2>3. clone' \in CloneType'
    <3>1. clone' = [dir |-> clone.dir, src |-> clone.src, slot |-> clone.slot,
                    table |-> new, entry |-> 0]
      BY <1>00, <2>1
    <3> QED
      BY <1>0, <1>00, <2>1, <3>1
  <2>4. directories' \in DirectoriesType(table_count')
    BY <1>0, <2>1 DEF DirectoriesType
  <2>5. TypeOK'
    <3>1. table_count' \in 2 .. MaxTables
      BY <1>0, <2>1 DEF TableIds
    <3>2. /\ frames' \subseteq 0 .. NumFrames - 1 /\ exhausted' \in BOOLEAN
          /\ directory_count' \in 2 .. MaxDirs /\ current_directory' \in 2 .. directory_count'
      BY <1>0, <2>1 DEF TypeOK
    <3> QED
      BY <2>2, <2>3, <2>4, <3>1, <3>2, Zenon DEF TypeOK, TablesType, DirectoriesType
  <2>6. UnmadeTables'
    BY <1>0, <2>1 DEF UnmadeTables, FrameOf, TableIds
  <2>7. CloneShape'
    BY <1>0, <1>00, <1>7, <2>1 DEF CloneShape, InSlotLoop, SourceTable, BeginCloneTable
  <2>8. CloneTablePrivate'
    BY <1>0, <1>00, <2>1, ZeroTableType
    DEF CloneTablePrivate, FrameOf, DirectoriesType, TablesType, DirIds
  <2> QED
    BY <2>5, <2>6, <2>7, <2>8 DEF Reach
<1>8. CASE CloneEntry
  <2> DEFINE t == clone.table
             e == clone.entry
  <2>1. /\ t \in TableIds /\ t <= table_count /\ e \in EntrySet
        /\ clone' = [clone EXCEPT !.entry = e + 1]
        /\ UNCHANGED <<table_count, directories, directory_count, current_directory>>
    BY <1>0, <1>00, <1>8 DEF CloneEntry, TableIds, EntrySet
  <2>2. SourceTable \in TableIds
    BY <1>8, SourceTableMade DEF CloneEntry
  <2>3. /\ tables' \in TablesType
        /\ \A u \in TableIds, g \in EntrySet : <<u, g>> # <<t, e>> => tables'[u][g] = tables[u][g]
        /\ UNCHANGED <<frames, exhausted>> \/ TakeFrame
    BY <1>0, <1>8, <2>1, <2>2, CloneEntryEffect
  <2>4. frames' \subseteq 0 .. NumFrames - 1 /\ exhausted' \in BOOLEAN
    BY <1>0, <2>3, FirstFrame DEF TypeOK, TakeFrame
  <2>5. clone' \in CloneType'
    BY <1>0, <1>00, <2>1 DEF EntrySet
  <2>6. TypeOK'
    BY <1>0, <2>1, <2>3, <2>4, <2>5 DEF TypeOK, TablesType
  <2>7. UnmadeTables'
    BY <1>0, <1>00, <2>1, <2>3 DEF UnmadeTables, FrameOf, TableIds
  <2>8. CloneShape'
    BY <1>0, <1>00, <1>8, <2>1 DEF CloneShape, SourceTable, CloneEntry
  <2>9. CloneTablePrivate'
    BY <1>0, <1>00, <2>1, <2>3 DEF CloneTablePrivate, FrameOf, EntrySet
  <2> QED
    BY <2>6, <2>7, <2>8, <2>9 DEF Reach
<1>9. CASE EndCloneTable
  <2>1. /\ clone.dir \in DirIds /\ clone.slot \in SlotSet /\ clone.table \in 0 .. table_count
        /\ directories' = [directories EXCEPT ![clone.dir][clone.slot] = clone.table]
        /\ clone' = [clone EXCEPT !.table = 0, !.entry = 0, !.slot = clone.slot + 1]
        /\ UNCHANGED <<frames, tables, table_count, directory_count,
                       current_directory, exhausted>>
    BY <1>0, <1>00, <1>9 DEF EndCloneTable, CloneShape, DirIds, SlotSet
  <2>2. directories' \in DirectoriesType(table_count)
    BY <1>0, <2>1 DEF DirectoriesType
  <2>3. clone' \in CloneType'
    <3>1. clone' = [dir |-> clone.dir, src |-> clone.src, slot |-> clone.slot + 1,
                    table |-> 0, entry |-> 0]
      BY <1>00, <2>1
    <3> QED
      BY <1>0, <1>00, <2>1, <3>1 DEF SlotSet
  <2>4. TypeOK'
    BY <1>0, <2>1, <2>2, <2>3 DEF TypeOK, DirectoriesType
  <2>5. CloneShape' /\ CloneTablePrivate' /\ UnmadeTables'
    BY <1>0, <1>00, <2>1 DEF CloneShape, CloneTablePrivate, UnmadeTables, FrameOf
  <2> QED
    BY <2>4, <2>5 DEF Reach
<1>10. CASE EndClone
  <2>1. clone' = Idle /\ clone' \in CloneType'
    BY <1>0, <1>10 DEF EndClone, Idle
  <2> QED
    BY <1>0, <1>10, <2>1
    DEF EndClone, Idle, Reach, TypeOK, UnmadeTables, CloneShape, CloneTablePrivate, FrameOf
<1>11. CASE UNCHANGED vars
  BY <1>11 DEF vars, Reach, TypeOK, UnmadeTables, CloneShape, CloneTablePrivate, FrameOf,
               SourceTable
<1> QED
  BY <1>1, <1>2, <1>3, <1>4, <1>5, <1>6, <1>7, <1>8, <1>9, <1>10, <1>11 DEF Next

(* The variables keep their types: first_frame answers a frame of the machine
   even when no frame is free, tables and directories refer to tables that
   were made, and the loops of clone_directory stay in bounds (paging.c).   *)
THEOREM TypeCorrect == Spec => []TypeOK
<1>1. Spec => []Reach
  BY ReachInit, ReachNext, PTL DEF Spec
<1>2. Reach => TypeOK
  BY DEF Reach
<1> QED
  BY <1>1, <1>2, PTL

-----------------------------------------------------------------------------
(* Every step gives a frame to one entry that has none, by first_frame, or to
   none; and clear_frame never clears a bit but bit 0, because the frame
   number that free_frame passes it is below PageSize (paging.c:30-37, 104). *)
LEMMA FrameStep ==
  ASSUME Reach, [Next]_vars
  PROVE  GainsNothing \/ \E t \in TableIds, e \in EntrySet : Gains(t, e)
<1>0. /\ TypeOK /\ UnmadeTables /\ CloneShape /\ CloneTablePrivate
      /\ tables \in TablesType
      /\ table_count \in 2 .. MaxTables /\ MaxTables \in Nat
      /\ directories \in DirectoriesType(table_count)
      /\ directory_count \in 2 .. MaxDirs /\ MaxDirs \in Nat
      /\ kernel_directory \in DirIds /\ current_directory \in DirIds
      /\ Slots \in Nat /\ Entries \in Nat \ {0}
  BY TypeFacts DEF Reach
<1>00. clone \in [dir : 0 .. directory_count, src : 0 .. directory_count,
                  slot : 0 .. Slots, table : 0 .. table_count, entry : 0 .. Entries]
  BY <1>0 DEF TypeOK
<1>1. ASSUME NEW dir \in DirIds, NEW page \in HeapArea \cup StackArea,
             MapPage(dir, page, FALSE, TRUE)
      PROVE  GainsNothing \/ \E t \in TableIds, e \in EntrySet : Gains(t, e)
  <2>1. /\ GainsNothing \/ \E t \in 1 .. table_count', e \in EntrySet : Gains(t, e)
        /\ table_count' = table_count \/ (table_count' = table_count + 1 /\ table_count + 1 <= MaxTables)
    BY <1>0, <1>1, MapPageEffect, Zenon
  <2>2. 1 .. table_count' \subseteq TableIds
    BY <1>0, <2>1 DEF TableIds
  <2> QED
    BY <2>1, <2>2
<1>2. CASE \E page \in HeapArea : MapHeapPage(page)
  BY <1>0, <1>1, <1>2 DEF MapHeapPage
<1>3. CASE \E page \in HeapArea : UnmapHeapPage(page)
  <2>1. PICK page \in HeapArea : UnmapHeapPage(page)
    BY <1>3
  <2> DEFINE t == directories[kernel_directory][SlotOf(page)]
             e == EntryOf(page)
             f == tables[t][e].frame
  <2>2. t \in TableIds /\ e \in EntrySet
    BY <1>0, <2>1, PageIndex DEF UnmapHeapPage, DirectoriesType, TableIds
  <2>3. /\ frames' = frames \ {f \div PageSize}
        /\ tables' = [tables EXCEPT ![t][e].frame = 0]
        /\ exhausted' = exhausted
    BY <2>1 DEF UnmapHeapPage, FreeFrame
  <2> HIDE DEF t, e
  <2>4. f \in 0 .. NumFrames - 1
    BY <1>0, <2>2 DEF TablesType, Page
  <2>5. f \div PageSize = 0
    <3>1. f \in Nat /\ PageSize \in Nat \ {0} /\ f < PageSize
      BY <2>4, PagingAssumption
    <3> HIDE DEF f
    <3> QED
      BY <3>1, SMT
  <2>6. \A u \in TableIds, g \in EntrySet : FrameOf(u, g)' \in {FrameOf(u, g), 0}
    BY <1>0, <2>2, <2>3 DEF TablesType, FrameOf, Page
  <2> QED
    BY <2>3, <2>5, <2>6 DEF GainsNothing
<1>4. CASE \E page \in StackArea : MapStackPage(page)
  BY <1>0, <1>1, <1>4 DEF MapStackPage
<1>5. CASE \/ \E dir \in DirIds : SwitchDirectory(dir)
           \/ BeginClone \/ CloneSlot \/ EndCloneTable \/ EndClone
           \/ UNCHANGED vars
  <2>1. UNCHANGED <<tables, frames, exhausted>>
    BY <1>5 DEF SwitchDirectory, BeginClone, CloneSlot, EndCloneTable, EndClone, vars
  <2> QED
    BY <2>1 DEF GainsNothing, FrameOf
<1>6. CASE BeginCloneTable
  <2> DEFINE new == table_count + 1
  <2>1. /\ new \in TableIds
        /\ tables' = [tables EXCEPT ![new] = ZeroTable]
        /\ frames' = frames /\ exhausted' = exhausted
    BY <1>0, <1>6 DEF BeginCloneTable, TableIds
  <2> QED
    BY <1>0, <2>1, ZeroTableType DEF GainsNothing, FrameOf, TablesType
<1>7. CASE CloneEntry
  <2> DEFINE t == clone.table
             e == clone.entry
  <2>1. t \in TableIds /\ e \in EntrySet
    BY <1>0, <1>00, <1>7 DEF CloneEntry, TableIds, EntrySet
  <2>2. SourceTable \in TableIds
    BY <1>7, SourceTableMade DEF CloneEntry
  <2>3. /\ \/ UNCHANGED <<tables, frames, exhausted>>
           \/ TakeFrame /\ tables'[t][e].frame = first_frame
        /\ \A u \in TableIds, g \in EntrySet : <<u, g>> # <<t, e>> => tables'[u][g] = tables[u][g]
    BY <1>0, <1>7, <2>1, <2>2, CloneEntryEffect
  <2>4. FrameOf(t, e) = 0
    BY <1>0, <1>00, <1>7, <2>1 DEF CloneTablePrivate, CloneEntry
  <2>5. CASE UNCHANGED <<tables, frames, exhausted>>
    BY <2>5 DEF GainsNothing, FrameOf
  <2>6. CASE TakeFrame /\ tables'[t][e].frame = first_frame
    <3>1. Gains(t, e)
      BY <2>3, <2>4, <2>6 DEF Gains, FrameOf
    <3> QED
      BY <2>1, <3>1
  <2> QED
    BY <2>3, <2>5, <2>6
<1> QED
  BY <1>2, <1>3, <1>4, <1>5, <1>6, <1>7 DEF Next

(* The bit of a frame stays set for as long as a page has the frame: no bit is
   cleared but that of frame 0, and a page that gains a frame sets its bit
   (paging.c:72-107, 244-264).                                              *)
THEOREM OwnedFramesAreMarked == Spec => []OwnedFramesMarked
<1>1. Init => OwnedFramesMarked
  <2> SUFFICES ASSUME Init, NEW t \in TableIds, NEW e \in EntrySet, FrameOf(t, e) # 0
               PROVE  FrameOf(t, e) \in frames
    BY DEF OwnedFramesMarked
  <2>1. e \in Nat
    BY PagingAssumption DEF EntrySet
  <2>2. \/ e < IdentityPages /\ FrameOf(t, e) = e
        \/ e < BootHeap /\ FrameOf(t, e) = IdentityPages + e
    BY DEF Init, FrameOf, ZeroPage
  <2> QED
    BY <2>1, <2>2, PagingAssumption DEF Init
<1>2. Reach /\ OwnedFramesMarked /\ [Next]_vars => OwnedFramesMarked'
  <2> SUFFICES ASSUME Reach, OwnedFramesMarked, [Next]_vars,
                      NEW u \in TableIds, NEW g \in EntrySet, FrameOf(u, g)' # 0
               PROVE  FrameOf(u, g)' \in frames'
    BY DEF OwnedFramesMarked
  <2>1. CASE GainsNothing
    BY <2>1 DEF GainsNothing, OwnedFramesMarked
  <2>2. ASSUME NEW t \in TableIds, NEW e \in EntrySet, Gains(t, e)
        PROVE  FrameOf(u, g)' \in frames'
    <3>1. CASE <<u, g>> = <<t, e>>
      BY <2>2, <3>1 DEF Gains, FrameOf, TakeFrame
    <3>2. CASE <<u, g>> # <<t, e>>
      BY <2>2, <3>2 DEF Gains, TakeFrame, OwnedFramesMarked
    <3> QED
      BY <3>1, <3>2
  <2> QED
    BY <2>1, <2>2, FrameStep
<1>3. Spec => []Reach
  BY ReachInit, ReachNext, PTL DEF Spec
<1> QED
  BY <1>1, <1>2, <1>3, PTL DEF Spec

(* As long as first_frame has always found a free frame, a frame other than
   frame 0 belongs to one page: the frame it finds is marked by nobody, and so,
   by OwnedFramesMarked, owned by nobody (paging.c:72-92, 244-264).         *)
THEOREM FramesAreExclusive == Spec => []ExclusiveFrames
<1>1. Init => ExclusiveFrames
  <2> SUFFICES ASSUME Init, NEW t \in TableIds, NEW e \in EntrySet,
                      NEW u \in TableIds, NEW g \in EntrySet,
                      FrameOf(t, e) # 0, FrameOf(t, e) = FrameOf(u, g)
               PROVE  t = u /\ e = g
    BY DEF ExclusiveFrames
  <2>1. e \in Nat /\ g \in Nat /\ IdentityPages \in Nat
    BY PagingAssumption DEF EntrySet
  <2>2. \/ t = 1 /\ e < IdentityPages /\ FrameOf(t, e) = e
        \/ t = 2 /\ e < BootHeap /\ FrameOf(t, e) = IdentityPages + e
    BY DEF Init, FrameOf, ZeroPage
  <2>3. \/ u = 1 /\ g < IdentityPages /\ FrameOf(u, g) = g
        \/ u = 2 /\ g < BootHeap /\ FrameOf(u, g) = IdentityPages + g
    BY DEF Init, FrameOf, ZeroPage
  <2> QED
    BY <2>1, <2>2, <2>3
<1>2. Reach /\ OwnedFramesMarked /\ ExclusiveFrames /\ [Next]_vars => ExclusiveFrames'
  <2> SUFFICES ASSUME Reach, OwnedFramesMarked, ExclusiveFrames, [Next]_vars, ~exhausted',
                      NEW u \in TableIds, NEW g \in EntrySet,
                      NEW v \in TableIds, NEW h \in EntrySet,
                      FrameOf(u, g)' # 0, FrameOf(u, g)' = FrameOf(v, h)'
               PROVE  u = v /\ g = h
    BY DEF ExclusiveFrames
  <2>1. CASE GainsNothing
    BY <2>1 DEF GainsNothing, ExclusiveFrames
  <2>2. ASSUME NEW t \in TableIds, NEW e \in EntrySet, Gains(t, e)
        PROVE  u = v /\ g = h
    <3>1. ~exhausted /\ FreeFrames # {}
      BY <2>2 DEF Gains, TakeFrame
    <3>2. first_frame \notin frames
      BY <3>1, FirstFrame DEF FreeFrames
    <3>3. \A w \in TableIds, i \in EntrySet :
            FrameOf(w, i)' # 0 /\ <<w, i>> # <<t, e>> =>
              FrameOf(w, i)' = FrameOf(w, i) /\ FrameOf(w, i)' # first_frame
      BY <2>2, <3>2 DEF Gains, OwnedFramesMarked
    <3>4. FrameOf(t, e)' = first_frame
      BY <2>2 DEF Gains, FrameOf
    <3>5. CASE <<u, g>> = <<t, e>> \/ <<v, h>> = <<t, e>>
      BY <3>3, <3>4, <3>5
    <3>6. CASE <<u, g>> # <<t, e>> /\ <<v, h>> # <<t, e>>
      BY <3>1, <3>3, <3>6 DEF ExclusiveFrames
    <3> QED
      BY <3>5, <3>6
  <2> QED
    BY <2>1, <2>2, FrameStep
<1>3. Spec => []Reach
  BY ReachInit, ReachNext, PTL DEF Spec
<1> QED
  BY <1>1, <1>2, <1>3, OwnedFramesAreMarked, PTL DEF Spec

(* A page that has a frame keeps it or loses it, and never gets another: an
   entry that gains a frame had none (paging.c:74-77, 250-262).             *)
THEOREM FramesStayStable == Spec => FramesAreStable
<1>1. Reach /\ [Next]_vars =>
        [\A t \in TableIds, e \in EntrySet :
           FrameOf(t, e) # 0 => FrameOf(t, e)' \in {FrameOf(t, e), 0}]_vars
  <2> SUFFICES ASSUME Reach, [Next]_vars, NEW u \in TableIds, NEW g \in EntrySet,
                      FrameOf(u, g) # 0
               PROVE  FrameOf(u, g)' \in {FrameOf(u, g), 0}
    OBVIOUS
  <2>1. CASE GainsNothing
    BY <2>1 DEF GainsNothing
  <2>2. ASSUME NEW t \in TableIds, NEW e \in EntrySet, Gains(t, e)
        PROVE  FrameOf(u, g)' \in {FrameOf(u, g), 0}
    BY <2>2 DEF Gains
  <2> QED
    BY <2>1, <2>2, FrameStep
<1>2. Spec => []Reach
  BY ReachInit, ReachNext, PTL DEF Spec
<1> QED
  BY <1>1, <1>2, PTL DEF Spec, FramesAreStable

-----------------------------------------------------------------------------
(* What get_page does to the directories: nothing, or a table that was just
   made is entered in an empty slot.                                        *)
EntersNewTable(dir) ==
  /\ table_count + 1 <= MaxTables
  /\ \E s \in SlotSet :
       /\ directories[dir][s] = 0
       /\ directories' = [directories EXCEPT ![dir][s] = table_count + 1]

(* Every step that changes the directories is one of these. *)
LEMMA DirectoryStep ==
  ASSUME Reach, [Next]_vars
  PROVE  \/ /\ directories' = directories
            /\ UNCHANGED <<directory_count, clone>>
         \/ /\ \/ EntersNewTable(kernel_directory)
               \/ clone.dir = 0 /\ EntersNewTable(current_directory)
            /\ clone.table = 0
            /\ UNCHANGED <<directory_count, clone>>
         \/ BeginClone \/ CloneSlot \/ BeginCloneTable \/ CloneEntry \/ EndCloneTable \/ EndClone
<1>0. TypeOK /\ UnmadeTables /\ CloneShape
      /\ kernel_directory \in DirIds /\ current_directory \in DirIds
  BY TypeFacts DEF Reach
<1>1. ASSUME NEW dir \in DirIds, NEW page \in HeapArea \cup StackArea,
             MapPage(dir, page, FALSE, TRUE)
      PROVE  directories' = directories \/ EntersNewTable(dir)
  BY <1>0, <1>1, MapPageEffect DEF EntersNewTable
<1>2. CASE \E page \in HeapArea : MapHeapPage(page)
  BY <1>0, <1>1, <1>2 DEF MapHeapPage
<1>3. CASE \E page \in StackArea : MapStackPage(page)
  BY <1>0, <1>1, <1>3 DEF MapStackPage, CloneShape
<1>4. CASE \/ \E page \in HeapArea : UnmapHeapPage(page)
           \/ \E dir \in DirIds : SwitchDirectory(dir)
           \/ UNCHANGED vars
  BY <1>4 DEF UnmapHeapPage, SwitchDirectory, vars
<1> QED
  BY <1>2, <1>3, <1>4 DEF Next

Shared == KernelTablesShared /\ CloneLinked

LEMMA SharedInit == Init => Shared
<1> SUFFICES ASSUME Init PROVE Shared
  OBVIOUS
<1>1. 0 \in SlotSet /\ HeapSlot \in SlotSet /\ HeapSlot # 0
  BY PagingAssumption DEF SlotSet
<1>2. \A d \in DirIds : d <= 2 => directories[d][0] = 1 /\ directories[d][HeapSlot] = 2
  BY <1>1 DEF Init
<1>3. 1 .. directory_count \subseteq {d \in DirIds : d <= 2} /\ 1 \in {d \in DirIds : d <= 2}
  BY PagingAssumption DEF Init, DirIds
<1>4. KernelTablesShared
  BY <1>2, <1>3 DEF KernelTablesShared, kernel_directory
<1>5. CloneLinked
  BY DEF Init, CloneLinked, Idle
<1> QED
  BY <1>4, <1>5 DEF Shared

LEMMA SharedNext == Reach /\ Shared /\ [Next]_vars => Shared'
<1> SUFFICES ASSUME Reach, Shared, [Next]_vars PROVE Shared'
  OBVIOUS
<1>0. /\ TypeOK /\ CloneShape /\ KernelTablesShared /\ CloneLinked
      /\ table_count \in 2 .. MaxTables /\ MaxTables \in Nat
      /\ directories \in DirectoriesType(table_count)
      /\ directory_count \in 2 .. MaxDirs /\ MaxDirs \in Nat
      /\ kernel_directory = 1 /\ current_directory \in 1 .. directory_count
      /\ 1 .. directory_count \subseteq DirIds
  BY TypeFacts DEF Reach, Shared, TypeOK, kernel_directory, DirIds
<1>01. {0, HeapSlot} \subseteq SlotSet /\ {0, HeapSlot} \subseteq Nat /\ Slots \in Nat
  BY PagingAssumption DEF SlotSet
<1>00. clone \in [dir : 0 .. directory_count, src : 0 .. directory_count,
                  slot : 0 .. Slots, table : 0 .. table_count, entry : 0 .. Entries]
  BY <1>0 DEF TypeOK
<1>1. CASE directories' = directories /\ UNCHANGED <<directory_count, clone>>
  BY <1>1 DEF Shared, KernelTablesShared, CloneLinked, kernel_directory
<1>2. ASSUME NEW dir \in 1 .. directory_count, dir # clone.dir, EntersNewTable(dir),
             clone.table = 0, UNCHANGED <<directory_count, clone>>
      PROVE  Shared'
  <2>1. PICK s \in SlotSet : /\ directories[dir][s] = 0
                             /\ directories' = [directories EXCEPT ![dir][s] = table_count + 1]
    BY <1>2 DEF EntersNewTable
  <2>2. s \notin {0, HeapSlot}
    BY <1>0, <1>01, <1>2, <2>1 DEF KernelTablesShared
  <2>3. \A d \in 1 .. directory_count, r \in {0, HeapSlot} :
          directories'[d][r] = directories[d][r]
    BY <1>0, <1>01, <2>1, <2>2 DEF DirectoriesType
  <2> QED
    BY <1>0, <1>01, <1>00, <1>2, <2>3 DEF Shared, KernelTablesShared, CloneLinked, kernel_directory
<1>3. CASE BeginClone
  <2>1. /\ clone.dir = 0
        /\ clone'.dir = directory_count + 1 /\ clone'.slot = 0 /\ clone'.table = 0
        /\ directory_count' = directory_count + 1 /\ directory_count + 1 \in DirIds
        /\ directories' = [directories EXCEPT ![directory_count + 1] = ZeroDirectory]
    BY <1>0, <1>01, <1>3 DEF BeginClone, Idle, DirIds
  <2>2. \A d \in 1 .. directory_count : directories'[d] = directories[d]
    BY <1>0, <1>01, <2>1 DEF DirectoriesType
  <2>3. KernelTablesShared'
    BY <1>0, <1>01, <2>1, <2>2 DEF KernelTablesShared, kernel_directory
  <2>4. CloneLinked'
    BY <1>0, <1>01, <2>1 DEF CloneLinked
  <2> QED
    BY <2>3, <2>4 DEF Shared
<1>4. CASE CloneSlot \/ EndCloneTable
  <2>1. /\ clone.dir \in 3 .. directory_count /\ clone.slot \in SlotSet
        /\ clone.dir # kernel_directory
        /\ clone'.dir = clone.dir /\ clone'.slot = clone.slot + 1 /\ clone'.table = 0
        /\ directory_count' = directory_count
    <3>1. CASE CloneSlot
      BY <1>0, <1>01, <1>00, <3>1 DEF CloneSlot, InSlotLoop, CloneShape, SlotSet
    <3>2. CASE EndCloneTable
      BY <1>0, <1>01, <1>00, <3>2 DEF EndCloneTable, CloneShape, SlotSet
    <3> QED
      BY <1>4, <3>1, <3>2
  <2>2. PICK t : directories' = [directories EXCEPT ![clone.dir][clone.slot] = t]
                 /\ (clone.slot \in {0, HeapSlot} =>
                       CloneSlot /\ t = directories[clone.src][clone.slot])
    <3>1. CASE CloneSlot
      BY <3>1 DEF CloneSlot, SourceTable
    <3>2. CASE EndCloneTable
      BY <1>0, <3>2 DEF EndCloneTable, CloneShape, CloneLinked
    <3> QED
      BY <1>4, <3>1, <3>2
  <2>3. /\ \A d \in DirIds \ {clone.dir} : directories'[d] = directories[d]
        /\ \A r \in SlotSet \ {clone.slot} : directories'[clone.dir][r] = directories[clone.dir][r]
        /\ directories'[clone.dir][clone.slot] = t
    BY <1>0, <1>01, <2>1, <2>2 DEF DirectoriesType
  <2>4. KernelTablesShared'
    BY <1>0, <1>01, <2>1, <2>3 DEF KernelTablesShared
  <2>5. clone.slot \in {0, HeapSlot} =>
          t = directories[kernel_directory][clone.slot]
    BY <1>0, <1>01, <2>1, <2>2 DEF KernelTablesShared, CloneShape
  <2>6. CloneLinked'
    BY <1>0, <1>01, <1>00, <2>1, <2>3, <2>5 DEF CloneLinked, SlotSet
  <2> QED
    BY <2>4, <2>6 DEF Shared
<1>5. CASE BeginCloneTable
  <2>1. /\ clone.dir # 0 /\ clone.slot < Slots
        /\ directories[clone.src][clone.slot] # directories[kernel_directory][clone.slot]
        /\ clone'.dir = clone.dir /\ clone'.slot = clone.slot
        /\ directories' = directories /\ directory_count' = directory_count
    BY <1>0, <1>01, <1>00, <1>5 DEF BeginCloneTable, InSlotLoop, SourceTable
  <2>2. clone.slot \notin {0, HeapSlot}
    BY <1>0, <1>01, <2>1 DEF KernelTablesShared, CloneShape
  <2> QED
    BY <1>0, <1>01, <2>1, <2>2 DEF Shared, KernelTablesShared, CloneLinked, kernel_directory
<1>6. CASE CloneEntry
  <2>1. /\ clone'.dir = clone.dir /\ clone'.slot = clone.slot /\ clone'.table = clone.table
        /\ directories' = directories /\ directory_count' = directory_count
    BY <1>0, <1>01, <1>00, <1>6 DEF CloneEntry
  <2> QED
    BY <1>0, <1>01, <2>1 DEF Shared, KernelTablesShared, CloneLinked, kernel_directory
<1>7. CASE EndClone
  <2>1. /\ clone.dir # 0 /\ clone.slot = Slots /\ clone'.dir = 0
        /\ directories' = directories /\ directory_count' = directory_count
    BY <1>7 DEF EndClone, Idle
  <2>2. \A s \in {0, HeapSlot} : /\ directories[clone.dir][s] = directories[kernel_directory][s]
                                 /\ directories[kernel_directory][s] # 0
    BY <1>0, <1>01, <2>1 DEF CloneLinked, KernelTablesShared, CloneShape, SlotSet
  <2> QED
    BY <1>0, <1>01, <2>1, <2>2 DEF Shared, KernelTablesShared, CloneLinked, kernel_directory
<1> QED
  <2>1. kernel_directory \in 1 .. directory_count /\ kernel_directory # clone.dir
    BY <1>0, <1>01, <1>00 DEF CloneShape
  <2>2. clone.dir = 0 => current_directory # clone.dir
    BY <1>0
  <2> QED
    BY <1>0, <1>01, <1>1, <1>2, <1>3, <1>4, <1>5, <1>6, <1>7, <2>1, <2>2, DirectoryStep

(* Whatever clone_directory was interrupted by, a finished directory has the
   kernel's own tables where the kernel's code and its first heap are: those
   slots are linked when the loop passes them, and never change afterwards
   (paging.c:278-287).                                                      *)
THEOREM KernelTablesStayShared == Spec => []KernelTablesShared
<1>1. Spec => []Reach
  BY ReachInit, ReachNext, PTL DEF Spec
<1>2. Spec => []Shared
  BY <1>1, SharedInit, SharedNext, PTL DEF Spec
<1>3. Shared => KernelTablesShared
  BY DEF Shared
<1> QED
  BY <1>2, <1>3, PTL

(* A directory gets, in one slot, a table that nobody holds, no table, or the
   one that the kernel has in that slot: tables stay private.               *)
LEMMA PutTable ==
  ASSUME PrivateTables, directories \in DirectoriesType(table_count),
         1 .. directory_count \subseteq DirIds, directory_count \in Nat,
         kernel_directory \in 1 .. directory_count,
         NEW n \in 1 .. directory_count, NEW slot \in SlotSet, NEW t,
         directories' = [directories EXCEPT ![n][slot] = t],
         directory_count' = directory_count,
         \/ t \in {0, directories[kernel_directory][slot]}
         \/ \A d \in 1 .. directory_count, s \in SlotSet : directories[d][s] # t,
         n = kernel_directory => directories[n][slot] = 0
  PROVE  PrivateTables'
<1> SUFFICES ASSUME NEW c \in 1 .. directory_count, NEW d \in 1 .. directory_count,
                    NEW r \in SlotSet, NEW s \in SlotSet,
                    directories'[c][r] # 0, directories'[c][r] = directories'[d][s]
             PROVE  r = s /\ (c # d => directories'[c][r] = directories'[kernel_directory][r])
  BY DEF PrivateTables, kernel_directory
<1>1. /\ directories'[n][slot] = t
      /\ \A b \in 1 .. directory_count, q \in SlotSet :
           <<b, q>> # <<n, slot>> => directories'[b][q] = directories[b][q]
  BY DEF DirectoriesType
<1>2. \A b \in 1 .. directory_count, q \in SlotSet :
        directories[b][q] # 0 /\ directories[b][q] = directories[kernel_directory][slot] =>
          q = slot
  BY DEF PrivateTables
<1>3. CASE <<c, r>> = <<n, slot>> \/ <<d, s>> = <<n, slot>>
  BY <1>1, <1>2, <1>3
<1>4. CASE <<c, r>> # <<n, slot>> /\ <<d, s>> # <<n, slot>>
  <2>1. directories[c][r] # 0 /\ directories[c][r] = directories[d][s]
    BY <1>1, <1>4
  <2>2. r = s /\ (c # d => directories[c][r] = directories[kernel_directory][r])
    BY <2>1 DEF PrivateTables
  <2>3. c # d => directories'[kernel_directory][r] = directories[kernel_directory][r]
    BY <1>1, <2>1, <2>2
  <2> QED
    BY <1>1, <1>4, <2>2, <2>3
<1> QED
  BY <1>3, <1>4

(* A table that two directories hold is the kernel's: clone_directory links
   only tables that kernel_directory has in the same slot, and every other
   table that a directory gets was made for it (paging.c:205-212, 278-293). *)
THEOREM TablesStayPrivate == Spec => []PrivateTables
<1>1. Init => PrivateTables
  <2> SUFFICES ASSUME Init,
                      NEW c \in 1 .. directory_count, NEW d \in 1 .. directory_count,
                      NEW r \in SlotSet, NEW s \in SlotSet,
                      directories[c][r] # 0, directories[c][r] = directories[d][s]
               PROVE  r = s /\ (c # d => directories[c][r] = directories[kernel_directory][r])
    BY DEF PrivateTables
  <2>1. /\ c \in DirIds /\ c <= 2 /\ d \in DirIds /\ d <= 2
        /\ 1 \in DirIds /\ 1 <= 2
    <3>1. directory_count = 2
      BY Zenon DEF Init
    <3>2. MaxDirs \in Nat /\ 2 <= MaxDirs
      BY PagingAssumption
    <3> QED
      BY <3>1, <3>2 DEF DirIds
  <2>2. \A b \in DirIds, q \in SlotSet : b <= 2 =>
          \/ q = 0 /\ directories[b][q] = 1
          \/ q = HeapSlot /\ directories[b][q] = 2
          \/ directories[b][q] = 0
    <3> SUFFICES ASSUME NEW b \in DirIds, NEW q \in SlotSet, b <= 2
                 PROVE  \/ q = 0 /\ directories[b][q] = 1
                        \/ q = HeapSlot /\ directories[b][q] = 2
                        \/ directories[b][q] = 0
      OBVIOUS
    <3>1. directories[b][q] = CASE b <= 2 /\ q = 0 -> 1
                                [] b <= 2 /\ q = HeapSlot -> 2
                                [] OTHER -> 0
      BY Zenon DEF Init
    <3>2. HeapSlot # 0
      BY PagingAssumption
    <3> QED
      BY <3>1, <3>2
  <2> QED
    BY <2>1, <2>2 DEF kernel_directory
<1>2. Reach /\ PrivateTables /\ [Next]_vars => PrivateTables'
  <2> SUFFICES ASSUME Reach, PrivateTables, [Next]_vars
               PROVE  PrivateTables'
    OBVIOUS
  <2>0. /\ CloneShape /\ CloneTablePrivate /\ TypeOK
        /\ table_count \in 2 .. MaxTables /\ MaxTables \in Nat
        /\ directories \in DirectoriesType(table_count)
        /\ directory_count \in Nat /\ directory_count <= MaxDirs /\ MaxDirs \in Nat
        /\ current_directory \in 1 .. directory_count
        /\ kernel_directory \in 1 .. directory_count
        /\ 1 .. directory_count \subseteq DirIds
    BY TypeFacts DEF Reach, TypeOK, kernel_directory, DirIds
  <2>1. ASSUME directories' = directories, directory_count' = directory_count
        PROVE  PrivateTables'
    BY <2>1 DEF PrivateTables, kernel_directory
  <2>2. ASSUME NEW dir \in 1 .. directory_count, EntersNewTable(dir),
               directory_count' = directory_count
        PROVE  PrivateTables'
    <3>1. PICK s \in SlotSet : /\ directories[dir][s] = 0
                               /\ directories' = [directories EXCEPT ![dir][s] = table_count + 1]
      BY <2>2 DEF EntersNewTable
    <3>2. \A d \in 1 .. directory_count, q \in SlotSet : directories[d][q] # table_count + 1
      BY <2>0 DEF DirectoriesType
    <3> QED
      BY <2>0, <2>2, <3>1, <3>2, PutTable
  <2>3. CASE BeginClone
    <3>1. /\ directory_count' = directory_count + 1 /\ directory_count + 1 \in DirIds
          /\ directories' = [directories EXCEPT ![directory_count + 1] = ZeroDirectory]
      BY <2>0, <2>3 DEF BeginClone, DirIds
    <3>2. /\ \A d \in 1 .. directory_count : directories'[d] = directories[d]
          /\ \A s \in SlotSet : directories'[directory_count + 1][s] = 0
      BY <2>0, <3>1 DEF DirectoriesType, ZeroDirectory
    <3> QED
      BY <2>0, <3>1, <3>2 DEF PrivateTables, kernel_directory
  <2>4. ASSUME CloneSlot \/ EndCloneTable
        PROVE  /\ clone.dir \in 1 .. directory_count /\ clone.slot \in SlotSet
               /\ clone.dir # kernel_directory
               /\ directory_count' = directory_count
    <3>1. clone.dir \in 0 .. directory_count /\ clone.slot \in 0 .. Slots /\ Slots \in Nat
      BY <2>0, PagingAssumption DEF TypeOK
    <3>2. clone.dir # 0 /\ clone.slot < Slots
      BY <2>0, <2>4 DEF CloneSlot, EndCloneTable, InSlotLoop, CloneShape
    <3> QED
      BY <2>0, <2>4, <3>1, <3>2
      DEF CloneSlot, EndCloneTable, CloneShape, SlotSet, kernel_directory
  <2>5. CASE CloneSlot
    <3>1. /\ SourceTable \in {0, directories[kernel_directory][clone.slot]}
          /\ directories' = [directories EXCEPT ![clone.dir][clone.slot] = SourceTable]
      BY <2>5 DEF CloneSlot
    <3> QED
      BY <2>0, <2>4, <2>5, <3>1, PutTable
  <2>6. CASE EndCloneTable
    <3>1. /\ clone.table # 0
          /\ directories' = [directories EXCEPT ![clone.dir][clone.slot] = clone.table]
      BY <2>6 DEF EndCloneTable
    <3> QED
      BY <2>0, <2>4, <2>6, <3>1, PutTable DEF CloneTablePrivate
  <2>7. CASE BeginCloneTable \/ CloneEntry \/ EndClone
    BY <2>1, <2>7 DEF BeginCloneTable, CloneEntry, EndClone
  <2> QED
    BY <2>0, <2>1, <2>2, <2>3, <2>5, <2>6, <2>7, DirectoryStep
<1>3. Spec => []Reach
  BY ReachInit, ReachNext, PTL DEF Spec
<1> QED
  BY <1>1, <1>2, <1>3, PTL DEF Spec
=============================================================================
