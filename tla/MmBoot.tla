-------------------------------- MODULE MmBoot --------------------------------
(***************************************************************************)
(* How mm comes to life.  init builds mm's task out of the RAM it got from *)
(* the kernel (launch_mm), starts it, and hands over all it knows: its own *)
(* page tables, every RAM capability and the tables it has made for mm.    *)
(* mm maps a first page of heap before it can allocate anything, registers *)
(* what it was given, grows its stack, and answers; from then on it serves *)
(* the fetches of MemoryManager.                                           *)
(*                                                                         *)
(* Virtual addresses are counted in KILO pages, RAM in smaller units,      *)
(* since the kernel's objects need not fill a page.  init and mm run side  *)
(* by side once mm is started.                                             *)
(***************************************************************************)
EXTENDS MemoryManager, SequencesExt

CONSTANTS
  MemCaps,     \* the RAM regions in the kernel's order, root_boot_info->caps
  UsedAtBoot,  \* what the kernel may have used of each region
  DtbStart, DtbEnd, \* arch_info: where the device tree lies in RAM
  MaxPage,     \* get_max_page()
  PageSize,    \* get_page_size, a function of the level
  UserEnd,     \* sys_system_user_space_end()
  KiloMem,     \* the RAM of a KILO page
  ObjectSize,  \* Kind -> <<size, alignment>>
  SelfGrow,    \* what mm grows its stack by
  Elves,       \* the pages of mm's program: <<first, number>>
  CapSpaceVa   \* where the kernel puts the tables of a capability space

Kilo == 0
Mega == 1
Level == 0 .. MaxPage
TablesPerLevel == 8
Kind == {"cap_space", "page_table", "task", "endpoint"}

ASSUME MmBootAssumption ==
  /\ \A r \in Region : \E i \in DOMAIN MemCaps : MemCaps[i] = r
  /\ \A u \in UsedAtBoot : u \in [Region -> Nat] /\ \A r \in Region : u[r] <= Size[r]
  /\ MaxPage \in Nat /\ MaxPage > Mega
  /\ PageSize \in [Level -> Nat \ {0}] /\ PageSize[Kilo] = 1
  /\ \A l, m \in Level : l <= m => PageSize[m] % PageSize[l] = 0
  /\ KiloMem \in Nat \ {0} /\ ObjectSize \in [Kind -> (Nat \ {0}) \X Nat]
  /\ UserEnd \in Nat /\ UserEnd % PageSize[MaxPage] = 0
  /\ CapSpaceVa \in Nat /\ CapSpaceVa >= UserEnd
  /\ Elves \subseteq Nat \X (Nat \ {0}) /\ \A elf \in Elves : elf[1] + elf[2] <= UserEnd
  /\ SelfGrow \in Nat /\ SelfGrow < PageSize[Mega]

VARIABLES
  todo,      \* init: the objects and pages of mm's task not made yet
  slots,     \* init: level -> the bases of the tables it made, page_table_caps
  heap_root, \* the end of mm's program, passed to it in a register
  init,      \* working | running | calling | answered | aborted
  mm,        \* what mm does: none | started | receiving | attaching | growing
             \* | serving; asserted, exited, refused or lost if it does not get there
  tables,    \* kernel: <<level, base>>: the tables in mm's address space
  pages,     \* kernel: <<level, address>>: the pages mapped in it
  known,     \* mm: the tables registered for itself, info.page_table_caps
  grown      \* mm: the pages grow_stack has mapped

bootVars == <<used, objects, todo, slots, heap_root, init, mm, tables, pages, known, grown>>

-----------------------------------------------------------------------------
(* RAM, as init and mm choose it while mm's own registry is empty.         *)

Holds(r, addr) == Addr[r] <= addr /\ addr < Addr[r] + Size[r]

\* init takes nothing from a region the device tree begins or ends in.
Spared == {r \in Region : ~Holds(r, DtbStart) /\ ~Holds(r, DtbEnd)}

Before(r, s) == \E i, j \in DOMAIN MemCaps : i <= j /\ MemCaps[i] = r /\ MemCaps[j] = s

\* The smallest region of those with room, the first of several such.
EarlyBest(candidates, r, size, align) ==
  /\ r \in candidates /\ HasRoom(r, size, align)
  /\ \A s \in candidates : HasRoom(s, size, align) =>
       Size[r] < Size[s] \/ (Size[r] = Size[s] /\ Before(r, s))

EarlyFetch(candidates, size, align) ==
  \E r \in candidates : EarlyBest(candidates, r, size, align) /\ Cut(r, size, align)

\* The memory for a kernel object, or for a page of a level.
Need(kind) == ObjectSize[kind]
NeedPage(level) == <<PageSize[level] * KiloMem, PageSize[level] * KiloMem>>

InitFetch(need) == EarlyFetch(Spared, need[1], need[2])
MmFetch(need) == Fetch(need[1], need[2])
Short(candidates, need) == \A r \in candidates : ~HasRoom(r, need[1], need[2])

-----------------------------------------------------------------------------
(* mm's address space.                                                     *)

RoundDown(va, align) == (va \div align) * align
TableBase(va, lv) == IF lv = MaxPage THEN 0 ELSE RoundDown(va, PageSize[lv + 1])

Occupied(lv, va) ==
  \/ <<lv, RoundDown(va, PageSize[lv])>> \in pages
  \/ lv > Kilo /\ <<lv - 1, RoundDown(va, PageSize[lv])>> \in tables

\* The highest table that is not in a registry for an address, if any.
Lacks(registry, va) ==
  {lv \in Level : /\ <<lv, TableBase(va, lv)>> \notin registry
                  /\ \A l \in Level : l > lv => <<l, TableBase(va, l)>> \in registry}

-----------------------------------------------------------------------------
(* init: create_task, load_elf and alloc_stack with early_vmap, and the    *)
(* endpoint of the hand-over.                                              *)

Make(kind) == [kind |-> kind, va |-> 0]
Map(va) == [kind |-> "page", va |-> va]

Jobs(elf) ==
  << Make("cap_space"), Make("page_table") >>
    \o [lv \in 1 .. MaxPage |-> Make("page_table")] \o << Make("task") >>
    \o [i \in 1 .. elf[2] |-> Map(elf[1] + i - 1)]
    \o << Map(UserEnd - 1), Make("endpoint") >>

Made == {t \in tables : t[2] \in Range(slots[t[1]])}

InitMake ==
  /\ init = "working" /\ todo # <<>> /\ Head(todo).kind # "page"
  /\ InitFetch(Need(Head(todo).kind))
  /\ todo' = Tail(todo)
  /\ UNCHANGED <<slots, heap_root, init, mm, tables, pages, known, grown>>

InitTable(lv) ==
  LET base == TableBase(Head(todo).va, lv) IN
  /\ init = "working" /\ todo # <<>> /\ Head(todo).kind = "page"
  /\ lv \in Lacks(Made, Head(todo).va) /\ Len(slots[lv]) < TablesPerLevel
  /\ InitFetch(Need("page_table"))
  /\ slots' = [slots EXCEPT ![lv] = Append(@, base)]
  /\ tables' = tables \cup {<<lv, base>>}
  /\ UNCHANGED <<todo, heap_root, init, mm, pages, known, grown>>

InitPage ==
  /\ init = "working" /\ todo # <<>> /\ Head(todo).kind = "page"
  /\ Lacks(Made, Head(todo).va) = {}
  /\ InitFetch(NeedPage(Kilo))
  /\ pages' = pages \cup {<<Kilo, Head(todo).va>>}
  /\ todo' = Tail(todo)
  /\ UNCHANGED <<slots, heap_root, init, mm, tables, known, grown>>

\* Out of RAM, or of places to note a table in.
InitAborts ==
  /\ init = "working" /\ todo # <<>>
  /\ LET job  == Head(todo)
         lack == IF job.kind = "page" THEN Lacks(Made, job.va) ELSE {}
     IN IF job.kind # "page" THEN Short(Spared, Need(job.kind))
        ELSE IF lack = {} THEN Short(Spared, NeedPage(Kilo))
        ELSE \E lv \in lack : Len(slots[lv]) = TablesPerLevel \/ Short(Spared, Need("page_table"))
  /\ init' = "aborted"
  /\ UNCHANGED <<used, objects, todo, slots, heap_root, mm, tables, pages, known, grown>>

\* mm is resumed and runs beside init, which fills the message and calls.
InitResumes ==
  /\ init = "working" /\ todo = <<>>
  /\ init' = "running" /\ mm' = "started"
  /\ UNCHANGED <<used, objects, todo, slots, heap_root, tables, pages, known, grown>>

InitCalls ==
  /\ init = "running" /\ init' = "calling"
  /\ UNCHANGED <<used, objects, todo, slots, heap_root, mm, tables, pages, known, grown>>

\* The tables of a level in the message, in its order, by their bases: those
\* of the program and the stack, then that of the capability space.  The tables
\* of init have been taken out of it before mm looks at the rest.
SentTables(lv) == slots[lv] \o (IF lv < MaxPage THEN <<CapSpaceVa>> ELSE <<>>)

-----------------------------------------------------------------------------
(* mm: main and handshake.                                                 *)

GoodHeapRoot == heap_root % PageSize[Mega] = 0 /\ heap_root % PageSize[MaxPage] # 0

MmStarts ==
  /\ mm = "started"
  /\ mm' = IF GoodHeapRoot THEN "receiving" ELSE "asserted"
  /\ UNCHANGED <<used, objects, todo, slots, heap_root, init, tables, pages, known, grown>>

\* Mutant: the tables of the stack are not told from those of the program.
BugProgramTables(lv) == {i \in DOMAIN SentTables(lv) : SentTables(lv)[i] < UserEnd}

\* The places in the message of a level's tables but for those of the stack,
\* which is in the last page of the highest level, and beyond.
ProgramTables(lv) ==
  {i \in DOMAIN SentTables(lv) : SentTables(lv)[i] < UserEnd - PageSize[MaxPage]}

HasTables == \A lv \in 0 .. MaxPage - 1 : ProgramTables(lv) # {}

\* The last one is kept.
KeptTable(lv) == SentTables(lv)[Max(ProgramTables(lv))]

\* The address at which a page lands that is entered, by the index of
\* heap_root, in the table of level Mega that was kept.
HeapVa == KeptTable(Mega) + (heap_root % PageSize[Mega + 1])

MmReceives(ok) == mm = "receiving" /\ init = "calling" /\ HasTables = ok

\* load_page_table_caps fails and handshake returns 1, which main takes for
\* the endpoint to serve.
MmLost ==
  /\ MmReceives(FALSE)
  /\ mm' = "lost"
  /\ UNCHANGED <<used, objects, todo, slots, heap_root, init, tables, pages, known, grown>>

MapFirstHeap ==
  /\ MmReceives(TRUE)
  /\ ~Occupied(Mega, HeapVa)
  /\ EarlyFetch(Region, NeedPage(Mega)[1], NeedPage(Mega)[2])
  /\ pages' = pages \cup {<<Mega, HeapVa>>}
  /\ mm' = "attaching"
  /\ UNCHANGED <<todo, slots, heap_root, init, tables, known, grown>>

\* Mutant: only the tables of the program are registered.
BugRegistered == {<<lv, KeptTable(lv)>> : lv \in Level}

\* All tables of the message are, and the root table once more.
Registered == {<<MaxPage, 0>>} \cup UNION {{lv} \X Range(SentTables(lv)) : lv \in Level}

\* register_mem_cap for all RAM, then attach_self up to its grow_stack.
AttachSelf ==
  /\ mm = "attaching" /\ mm' = "growing"
  /\ known' = Registered
  /\ UNCHANGED <<used, objects, todo, slots, heap_root, init, tables, pages, grown>>

\* What attach_self enters for the page of stack that init has made.
SelfCommit == 1

\* grow_stack goes upwards from the new end of the stack.  For an entry that
\* is taken, or a table missing in the registry where there is one, the
\* kernel refuses and mm aborts.
GrowVa == UserEnd - SelfCommit - SelfGrow + grown

GrowPage ==
  /\ mm = "growing" /\ grown < SelfGrow
  /\ MmFetch(NeedPage(Kilo))
  /\ IF Lacks(known, GrowVa) = {} /\ ~Occupied(Kilo, GrowVa)
     THEN pages' = pages \cup {<<Kilo, GrowVa>>} /\ UNCHANGED mm
     ELSE mm' = "refused" /\ UNCHANGED pages
  /\ grown' = grown + 1
  /\ UNCHANGED <<todo, slots, heap_root, init, tables, known>>

\* init's task is attached and given an endpoint to call mm by.
MmAnswers ==
  /\ mm = "growing" /\ grown = SelfGrow
  /\ MmFetch(Need("endpoint"))
  /\ mm' = "serving" /\ init' = "answered"
  /\ UNCHANGED <<todo, slots, heap_root, tables, pages, known, grown>>

\* Out of RAM: mm ends, and init waits for an answer that does not come.
MmExits ==
  /\ \/ MmReceives(TRUE) /\ (Short(Region, NeedPage(Mega)) \/ Occupied(Mega, HeapVa))
     \/ mm = "growing" /\ grown < SelfGrow /\ Short(Region, NeedPage(Kilo))
     \/ mm = "growing" /\ grown = SelfGrow /\ Short(Region, Need("endpoint"))
  /\ mm' = "exited"
  /\ UNCHANGED <<used, objects, todo, slots, heap_root, init, tables, pages, known, grown>>

Serve(req) ==
  /\ mm = "serving"
  /\ Fetch(req[1], req[2])
  /\ UNCHANGED <<todo, slots, heap_root, init, mm, tables, pages, known, grown>>

-----------------------------------------------------------------------------

BootInit ==
  /\ used \in UsedAtBoot
  /\ objects = <<>>
  /\ \E elf \in Elves :
       /\ todo = Jobs(elf)
       /\ heap_root = RoundUp(elf[1] + elf[2], PageSize[Mega])
  /\ slots = [lv \in Level |-> IF lv = MaxPage THEN <<0>> ELSE <<>>]
  /\ init = "working" /\ mm = "none"
  /\ tables = {<<MaxPage, 0>>} /\ pages = {} /\ known = {} /\ grown = 0

BootNext ==
  \/ InitMake
  \/ \E lv \in Level : InitTable(lv)
  \/ InitPage
  \/ InitAborts
  \/ InitResumes
  \/ InitCalls
  \/ MmStarts
  \/ MmLost
  \/ MapFirstHeap
  \/ AttachSelf
  \/ GrowPage
  \/ MmAnswers
  \/ MmExits
  \/ \E req \in Requests : Serve(req)

BootSpec == BootInit /\ [][BootNext]_bootVars

-----------------------------------------------------------------------------

\* The first page of heap is where mm believes it is, at heap_root: the table
\* it was entered in was picked out of a message that says nothing of what a
\* table is for, and the entry out of the address alone.
HeapInPlace ==
  mm \in {"attaching", "growing", "serving"} => <<Mega, heap_root>> \in pages

\* mm's registry, once filled, has every table the kernel has in mm's address
\* space and, but for those of the capability space, no other; so the kernel
\* never refuses a mapping that mm's registry says is possible, and the page
\* of stack made by init is not mapped again.
HandedOver ==
  /\ mm \in {"growing", "serving"} => \A lv \in Level, va \in 0 .. UserEnd - 1 :
       <<lv, va>> \in tables <=> <<lv, va>> \in known
  /\ mm # "refused"
=============================================================================
