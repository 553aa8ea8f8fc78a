------------------------------ MODULE TaskTable ------------------------------
(***************************************************************************)
(* The task table of the memory manager (mm): for every attached task, the *)
(* page tables and pages that mm has mapped for it and what they are       *)
(* charged against, and the handlers that change them.                     *)
(*                                                                         *)
(* Addresses and sizes are counted in KILO pages.  mm serves one request   *)
(* at a time, so a request is one action; the growth of a stack, a loop of *)
(* mappings that may stop half way, takes one step per mapping while the   *)
(* server accepts nothing else.  A request that is refused and changes     *)
(* nothing is not a step.                                                  *)
(***************************************************************************)
EXTENDS Integers

CONSTANTS
  Task,          \* ids (id caps) of attached or attachable tasks
  Self,          \* the id of mm itself, __this_id_cap
  InitTask,      \* the id of init, attached while mm boots
  Client,        \* the ids that requests name; that of mm never leaves it
  Cap,           \* virtual page objects that can ever be created
  NoCap,         \* no page registered
  BootVa,        \* the pages of init that the kernel mapped: cap -> address
  MaxPage,       \* get_max_page()
  PageSize,      \* get_page_size, a function of the level
  UserEnd,       \* sys_system_user_space_end()
  RandomBase,    \* where random_va starts (10 MEGA pages)
  DefaultStack, DefaultTotal, \* default_stack_available, default_total_available
  SelfStack, SelfGrow,        \* what mm attaches itself with and then grows by
  AttachArgs,    \* the requests to attach that clients make
  VaArgs,        \* the addresses clients ask for; 0 is MM_VA_RAMDOM
  OwnLevels      \* the levels of the pages that clients create themselves

Level   == 0 .. MaxPage
Va      == 1 .. (UserEnd - 1)
BootCap == DOMAIN BootVa
NoLevel == -1
Unmapped == <<>>

AttachArg == [stack_available: 0 .. UserEnd - 1, total_available: Nat,
              stack_commit: Nat, data: BOOLEAN]

ASSUME TaskAssumption == Self \in Task /\ InitTask \in Task /\ Self # InitTask
                         /\ Client \subseteq Task \ {Self}
ASSUME LevelAssumption ==
  /\ MaxPage \in Nat
  /\ PageSize \in [Level -> Nat \ {0}]
  /\ \A l, m \in Level : l <= m => PageSize[l] <= PageSize[m]
\* A page of one level is a whole number of pages of the level below, the
\* smallest being the unit.
ASSUME NestingAssumption ==
  /\ PageSize[0] = 1
  /\ \A l, m \in Level : l <= m => PageSize[m] % PageSize[l] = 0
ASSUME SpaceAssumption ==
  /\ UserEnd \in Nat /\ RandomBase \in Nat \ {0}
  /\ DefaultStack \in Nat /\ DefaultTotal \in Nat
  /\ SelfStack \in Nat /\ SelfGrow \in Nat
  /\ SelfStack + SelfGrow <= DefaultStack
  /\ DefaultStack <= DefaultTotal /\ DefaultStack < UserEnd
  /\ OwnLevels \subseteq Level /\ VaArgs \subseteq 0 .. UserEnd - 1 /\ AttachArgs \subseteq AttachArg
ASSUME CapAssumption ==
  /\ NoCap \notin Cap
  /\ BootCap \subseteq Cap
  /\ BootVa \in [BootCap -> Va]
  /\ \A c, d \in BootCap : BootVa[c] = BootVa[d] => c = d

VARIABLES
  status,          \* task -> fresh | attached | orphan | detached
  info,            \* task -> the counters of task_info
  page_table_caps, \* <<task, level, base>>: the page tables mm knows of
  virt_page_caps,  \* task -> address -> the page mm has registered there
  cap_level,       \* kernel: level of a page object, NoLevel before it exists
  mapped,          \* kernel: <<task, address>> of a page object, or Unmapped
  held,            \* page caps in the hands of clients
  server,          \* ready | growing | aborted (gave up) | asserted
  grow             \* the locals of grow_stack while server is growing

kernel == <<cap_level, mapped>>
vars == <<status, info, page_table_caps, virt_page_caps, kernel, held, server, grow>>

TaskInfo == [stack_available: Nat, total_available: Int,
             stack_commit: Nat, total_commit: Int]
NoInfo == [stack_available |-> 0, total_available |-> 0,
           stack_commit |-> 0, total_commit |-> 0]
NoGrow == [id |-> Self, start |-> 0, end |-> 0, size |-> 0, sz |-> 0,
           level |-> NoLevel, data |-> FALSE]

InTable(id) == status[id] \in {"attached", "orphan"}

-----------------------------------------------------------------------------
(* Addresses and page tables.                                              *)

RoundUp(x, align)   == ((x + align - 1) \div align) * align
RoundDown(x, align) == (x \div align) * align

\* The base of the table at level lv that covers va; the root covers all.
TableBase(va, lv) == IF lv = MaxPage THEN 0 ELSE RoundDown(va, PageSize[lv + 1])

\* Does the kernel hold something in the entry of level lv that covers va?
SlotOccupied(id, lv, va) ==
  LET base == RoundDown(va, PageSize[lv]) IN
  \/ \E c \in Cap : mapped[c] = <<id, base>> /\ cap_level[c] = lv
  \/ lv > 0 /\ <<id, lv - 1, base>> \in page_table_caps

\* The tables walk has to create before it reaches level.
Missing(id, level, va) ==
  {lv \in level .. MaxPage - 1 : <<id, lv, TableBase(va, lv)>> \notin page_table_caps}

\* Mutant: the result of map_table is not looked at.
BugWalks(id, level, va, stop) == stop \in Missing(id, level, va) \cup {NoLevel}

\* walk may create the missing tables above stop, top down.  It reaches its
\* level when stop is NoLevel, and has stopped at level stop otherwise: out
\* of memory there, or the kernel refused the table.
Walks(id, level, va, stop) ==
  /\ stop \in Missing(id, level, va) \cup {NoLevel}
  /\ \A lv \in Missing(id, level, va) :
       lv > stop => ~SlotOccupied(id, lv + 1, va)

\* Mutant: only the table of the level itself is entered.
BugTables(id, level, va, stop) == {<<id, level, TableBase(va, level)>>}

Tables(id, level, va, stop) ==
  {<<id, lv, TableBase(va, lv)>> : lv \in {l \in Missing(id, level, va) : l > stop}}

\* The address random_va proposes: it steps over the pages registered at
\* the addresses it lands on, and sees no page that starts elsewhere.
RandomVa(id, level) ==
  LET size == PageSize[level]
      scan[a \in Nat] ==
        IF a < UserEnd - size /\ virt_page_caps[id][a] # NoCap
        THEN scan[RoundUp(a + PageSize[cap_level[virt_page_caps[id][a]]], size)]
        ELSE a
  IN scan[RoundUp(RandomBase, size)]

Place(id, level, va) == IF va = 0 THEN RandomVa(id, level) ELSE va

\* What map, remap and walk assert of the address they are given.
InSpace(level, va) ==
  va \in Va /\ va % PageSize[level] = 0 /\ va <= UserEnd - PageSize[level]

\* What vmap, vpmap and vpremap check before they use an address.
BelowStack(id, level, va) ==
  /\ va % PageSize[level] = 0
  /\ va \in Va
  /\ va < UserEnd - info[id].stack_available - PageSize[level]

Quota(id, level) ==
  info[id].total_available >= info[id].total_commit + PageSize[level]

-----------------------------------------------------------------------------
(* map, for a page without data and for one with.                          *)

\* Mutant: the quota is not checked.
BugMappable(id, level, va) == virt_page_caps[id][va] = NoCap

Mappable(id, level, va) == Quota(id, level) /\ virt_page_caps[id][va] = NoCap

Charged(f, id, amount) == [f EXCEPT ![id].total_commit = @ + amount]
Granted(f, id, amount) == [f EXCEPT ![id].total_available = @ + amount]

\* Mutant: the page is mapped and not entered in virt_page_caps.
BugNewPage(id, level, va) ==
  \E c \in Cap :
    /\ cap_level[c] = NoLevel
    /\ cap_level' = [cap_level EXCEPT ![c] = level]
    /\ mapped' = [mapped EXCEPT ![c] = <<id, va>>]
    /\ UNCHANGED virt_page_caps

\* The memory for the page is fetched, made a page object and mapped.
NewPage(id, level, va) ==
  \E c \in Cap :
    /\ cap_level[c] = NoLevel
    /\ cap_level' = [cap_level EXCEPT ![c] = level]
    /\ mapped' = [mapped EXCEPT ![c] = <<id, va>>]
    /\ virt_page_caps' = [virt_page_caps EXCEPT ![id][va] = c]

MapPage(id, level, va) ==
  /\ Mappable(id, level, va)
  /\ Walks(id, level, va, NoLevel)
  /\ ~SlotOccupied(id, level, va)
  /\ NewPage(id, level, va)
  /\ page_table_caps' = page_table_caps \cup Tables(id, level, va, NoLevel)
  /\ info' = Charged(info, id, PageSize[level])

\* With data, the page is first mapped into mm (vpmap), filled, and moved on
\* (remap); both registered and charged by remap and, once more, by map.
\* Only the stack of a task being attached is mapped so: its address space
\* is empty there, and the kernel has nothing to refuse the move for.
MapData(id, level, va) ==
  LET own == RandomVa(Self, level) IN
  /\ Mappable(id, level, va)
  /\ Walks(id, level, va, NoLevel)
  /\ ~SlotOccupied(id, level, va)
  /\ BelowStack(Self, level, own)
  /\ Walks(Self, level, own, NoLevel)
  /\ ~SlotOccupied(Self, level, own)
  /\ NewPage(id, level, va)
  /\ page_table_caps' = page_table_caps \cup Tables(id, level, va, NoLevel)
                                        \cup Tables(Self, level, own, NoLevel)
  /\ info' = Granted(Charged(info, id, 2 * PageSize[level]), Self, PageSize[level])

\* map returns an error.  Tables it created on the way stay.
MapFails(id, level, va) ==
  /\ \/ ~Mappable(id, level, va) /\ UNCHANGED page_table_caps
     \/ /\ Mappable(id, level, va)
        /\ \E stop \in Missing(id, level, va) \cup {NoLevel} :
             /\ Walks(id, level, va, stop)
             /\ page_table_caps' = page_table_caps \cup Tables(id, level, va, stop)
  /\ UNCHANGED <<kernel, virt_page_caps, info>>

\* The page exists and mm has no room for it in its own address space.
MapDataFails(id, level, va) ==
  LET own == RandomVa(Self, level) IN
  /\ Mappable(id, level, va)
  /\ Walks(id, level, va, NoLevel)
  /\ BelowStack(Self, level, own)
  /\ \E stop \in Missing(Self, level, own) \cup {NoLevel} :
       /\ Walks(Self, level, own, stop)
       /\ stop # NoLevel \/ SlotOccupied(Self, level, own)
       /\ page_table_caps' = page_table_caps \cup Tables(id, level, va, NoLevel)
                                             \cup Tables(Self, level, own, stop)
  /\ UNCHANGED <<kernel, virt_page_caps, info>>

-----------------------------------------------------------------------------
(* attach, and the stack it grows.                                         *)

Ready(id) == server = "ready" /\ status[id] = "attached"

\* Mutant: the lowest page is left out.
BugGrowFrom(id, end, size, data) ==
  [id |-> id, start |-> end - size + 1, end |-> end, size |-> size,
   sz |-> size, level |-> MaxPage, data |-> data]

\* The locals of grow_stack as its loop begins, the stack ending at end.
GrowFrom(id, end, size, data) ==
  [id |-> id, start |-> end - size, end |-> end, size |-> size,
   sz |-> size, level |-> MaxPage, data |-> data]

\* The reply to attach: the stack pointer is set, or that fails, the id is
\* destroyed and the entry stays in the table without a client.
Attached(id) ==
  /\ server' = "ready" /\ grow' = NoGrow
  /\ \E set \in BOOLEAN :
       status' = [status EXCEPT ![id] = IF set THEN "attached" ELSE "orphan"]

StackOf(arg) == IF arg.stack_available = 0 THEN DefaultStack ELSE arg.stack_available
TotalOf(arg) == IF arg.total_available = 0 THEN DefaultTotal ELSE arg.total_available

\* Mutant: the initial stack is not held against the limit.
BugAcceptsStack(arg) == StackOf(arg) <= TotalOf(arg)
AcceptsStack(arg) == StackOf(arg) <= TotalOf(arg) /\ arg.stack_commit <= StackOf(arg)

Attach(id, arg) ==
  /\ server = "ready" /\ status[id] = "fresh"
  /\ AcceptsStack(arg)
  /\ info' = [info EXCEPT ![id] =
       [stack_available |-> StackOf(arg), total_available |-> TotalOf(arg),
        stack_commit |-> 0, total_commit |-> 0]]
  /\ page_table_caps' = page_table_caps \cup {<<id, MaxPage, 0>>}
  /\ IF arg.stack_commit > 0
     THEN /\ server' = "growing"
          /\ grow' = GrowFrom(id, UserEnd, arg.stack_commit, arg.data)
          /\ status' = [status EXCEPT ![id] = "attached"]
     ELSE Attached(id)
  /\ UNCHANGED <<kernel, virt_page_caps, held>>

\* Mutant: a page must be smaller than what is left.
BugFits(level) == grow.sz > PageSize[level] /\ grow.start % PageSize[level] = 0

\* The levels the loop of grow_stack still tries this round.  It compares
\* them with the length sz that was left when the round began.
Fits(level) == grow.sz >= PageSize[level] /\ grow.start % PageSize[level] = 0
Untried == {level \in 0 .. grow.level : Fits(level)}
Tries(level) == level \in Untried /\ \A l \in Untried : l <= level

GrowPage(level) ==
  /\ server = "growing" /\ Tries(level)
  /\ InSpace(level, grow.start)
  /\ IF grow.data THEN MapData(grow.id, level, grow.start)
                  ELSE MapPage(grow.id, level, grow.start)
  /\ grow' = [grow EXCEPT !.start = @ + PageSize[level], !.level = level - 1]
  /\ UNCHANGED <<status, held, server>>

GrowAsserts(level) ==
  /\ server = "growing" /\ Tries(level)
  /\ ~InSpace(level, grow.start)
  /\ server' = "asserted"
  /\ UNCHANGED <<status, info, page_table_caps, virt_page_caps, kernel, held, grow>>

GrowRound ==
  /\ server = "growing" /\ Untried = {} /\ grow.start < grow.end
  /\ grow' = [grow EXCEPT !.sz = grow.end - grow.start, !.level = MaxPage]
  /\ UNCHANGED <<status, info, page_table_caps, virt_page_caps, kernel, held, server>>

\* attach goes on whether its stack has grown or not; mm, growing its own
\* stack as it boots, gives up if it cannot.
Grown(id) ==
  IF id = Self THEN server' = "ready" /\ grow' = NoGrow /\ UNCHANGED status
               ELSE Attached(id)

GrowDone ==
  /\ server = "growing" /\ Untried = {} /\ grow.start >= grow.end
  /\ info' = [info EXCEPT ![grow.id].stack_commit = @ + grow.size]
  /\ Grown(grow.id)
  /\ UNCHANGED <<page_table_caps, virt_page_caps, kernel, held>>

GrowFails(level) ==
  /\ server = "growing" /\ Tries(level)
  /\ InSpace(level, grow.start)
  /\ \/ MapFails(grow.id, level, grow.start)
     \/ grow.data /\ MapDataFails(grow.id, level, grow.start)
  /\ IF grow.id = Self THEN server' = "aborted" /\ UNCHANGED <<status, grow>>
                       ELSE Attached(grow.id)
  /\ UNCHANGED held

-----------------------------------------------------------------------------
(* The requests of clients.                                                *)

\* The tables an attempt may leave behind when it does not get its mapping.
LeavesTables(id, level, va) ==
  \E stop \in Missing(id, level, va) \cup {NoLevel} :
    /\ Walks(id, level, va, stop)
    /\ page_table_caps' = page_table_caps \cup Tables(id, level, va, stop)

Vmap(id, level, arg) ==
  LET va == Place(id, level, arg) IN
  /\ Ready(id)
  /\ BelowStack(id, level, va)
  /\ MapPage(id, level, va) \/ MapFails(id, level, va)
  /\ UNCHANGED <<status, held, server, grow>>

\* Mutant: the source keeps its entry.
BugMovePage(c, src, sva, dst, dva) ==
  /\ virt_page_caps' = [virt_page_caps EXCEPT ![dst][dva] = c]
  /\ mapped' = [mapped EXCEPT ![c] = <<dst, dva>>]
  /\ UNCHANGED cap_level

\* The move of page c from one address to another, in the table and in the
\* kernel.  The tables of the page's old address exist (ReachablePages).
MovePage(c, src, sva, dst, dva) ==
  /\ virt_page_caps' = [virt_page_caps EXCEPT ![dst][dva] = c, ![src][sva] = NoCap]
  /\ mapped' = [mapped EXCEPT ![c] = <<dst, dva>>]
  /\ UNCHANGED cap_level

\* The charge moves with the page, the quota does not.  Callers move pages
\* that they have had mapped for them, never pages of their stack.
Vremap(src, dst, sva, arg) ==
  LET c     == virt_page_caps[src][sva]
      level == cap_level[c]
      dva   == Place(dst, level, arg)
  IN
  /\ Ready(src) /\ Ready(dst)
  /\ c # NoCap
  /\ sva < UserEnd - info[src].stack_available
  /\ arg # 0 => virt_page_caps[dst][arg] = NoCap
  /\ IF ~InSpace(level, dva)
     THEN /\ server' = "asserted"
          /\ UNCHANGED <<info, page_table_caps, virt_page_caps, kernel>>
     ELSE /\ Mappable(dst, level, dva)
          /\ \/ /\ Walks(dst, level, dva, NoLevel) /\ ~SlotOccupied(dst, level, dva)
                /\ page_table_caps' = page_table_caps \cup Tables(dst, level, dva, NoLevel)
                /\ MovePage(c, src, sva, dst, dva)
                /\ info' = Charged(Charged(info, dst, PageSize[level]), src, -PageSize[level])
             \/ /\ LeavesTables(dst, level, dva)
                /\ UNCHANGED <<info, virt_page_caps, kernel>>
          /\ UNCHANGED server
  /\ UNCHANGED <<status, held, grow>>

\* Mutant: the quota grows and nothing is charged.
BugBrought(f, id, amount) == Granted(f, id, amount)

\* A client brings a page of its own: quota and charge grow by it.
Brought(f, id, amount) == Charged(Granted(f, id, amount), id, amount)

Acceptable(id, level, va) ==
  BelowStack(id, level, va) /\ virt_page_caps[id][va] = NoCap

Vpmap(id, c, arg) ==
  LET level == cap_level[c]
      va    == Place(id, level, arg)
  IN
  /\ Ready(id) /\ c \in held /\ mapped[c] = Unmapped
  /\ held' = held \ {c}
  /\ \/ /\ Acceptable(id, level, va)
        /\ Walks(id, level, va, NoLevel) /\ ~SlotOccupied(id, level, va)
        /\ page_table_caps' = page_table_caps \cup Tables(id, level, va, NoLevel)
        /\ virt_page_caps' = [virt_page_caps EXCEPT ![id][va] = c]
        /\ mapped' = [mapped EXCEPT ![c] = <<id, va>>]
        /\ info' = Brought(info, id, PageSize[level])
        /\ UNCHANGED cap_level
     \/ \* refused: the page cap is destroyed
        /\ IF Acceptable(id, level, va) THEN LeavesTables(id, level, va)
                                        ELSE UNCHANGED page_table_caps
        /\ UNCHANGED <<info, virt_page_caps, kernel>>
  /\ UNCHANGED <<status, server, grow>>

\* A client hands over a page that the kernel holds mapped, of a task it
\* names.  src gives the charge back whether it was ever charged or not.
Vpremap(dst, c, arg) ==
  LET src   == mapped[c][1]
      level == cap_level[c]
      va    == Place(dst, level, arg)
  IN
  /\ c \in held /\ mapped[c] # Unmapped
  /\ Ready(src) /\ Ready(dst)
  /\ held' = held \ {c}
  /\ \/ /\ Acceptable(dst, level, va)
        /\ Walks(dst, level, va, NoLevel) /\ ~SlotOccupied(dst, level, va)
        /\ page_table_caps' = page_table_caps \cup Tables(dst, level, va, NoLevel)
        /\ MovePage(c, src, mapped[c][2], dst, va)
        /\ info' = Charged(Brought(info, dst, PageSize[level]), src, -PageSize[level])
     \/ /\ IF Acceptable(dst, level, va) THEN LeavesTables(dst, level, va)
                                         ELSE UNCHANGED page_table_caps
        /\ UNCHANGED <<info, virt_page_caps, kernel>>
  /\ UNCHANGED <<status, server, grow>>

\* detach forgets the task; the kernel keeps what is mapped for it.
Detach(id) ==
  /\ Ready(id)
  /\ status' = [status EXCEPT ![id] = "detached"]
  /\ info' = [info EXCEPT ![id] = NoInfo]
  /\ page_table_caps' = {t \in page_table_caps : t[1] # id}
  /\ virt_page_caps' = [virt_page_caps EXCEPT ![id] = [va \in Va |-> NoCap]]
  /\ UNCHANGED <<kernel, held, server, grow>>

\* A client fetches memory and makes a page object of it, to be brought to
\* vpmap later.
CreatePage(c, level) ==
  /\ server = "ready" /\ cap_level[c] = NoLevel
  /\ cap_level' = [cap_level EXCEPT ![c] = level]
  /\ held' = held \cup {c}
  /\ UNCHANGED <<status, info, page_table_caps, virt_page_caps, mapped, server, grow>>

-----------------------------------------------------------------------------
(* mm and init are attached as mm boots, and mm grows its own stack.       *)

BootTables ==
  {<<Self, MaxPage, 0>>, <<InitTask, MaxPage, 0>>} \cup
  {<<InitTask, lv, TableBase(BootVa[c], lv)>> : lv \in 0 .. MaxPage - 1, c \in BootCap}

Init ==
  /\ status = [id \in Task |-> IF id \in {Self, InitTask} THEN "attached" ELSE "fresh"]
  /\ info = [id \in Task |->
       IF id \in {Self, InitTask}
       THEN [stack_available |-> DefaultStack, total_available |-> DefaultTotal,
             stack_commit |-> IF id = Self THEN SelfStack ELSE 0,
             total_commit |-> IF id = Self THEN SelfStack ELSE 0]
       ELSE NoInfo]
  /\ page_table_caps = BootTables
  /\ virt_page_caps = [id \in Task |-> [va \in Va |-> NoCap]]
  /\ cap_level = [c \in Cap |-> IF c \in BootCap THEN 0 ELSE NoLevel]
  /\ mapped = [c \in Cap |-> IF c \in BootCap THEN <<InitTask, BootVa[c]>> ELSE Unmapped]
  /\ held = BootCap
  /\ server = "growing"
  /\ grow = GrowFrom(Self, UserEnd - SelfStack, SelfGrow, FALSE)

Grow ==
  \/ GrowRound
  \/ GrowDone
  \/ \E level \in Level : GrowPage(level) \/ GrowAsserts(level) \/ GrowFails(level)

Next ==
  \/ \E id \in Client, arg \in AttachArgs : Attach(id, arg)
  \/ Grow
  \/ \E id \in Client, level \in Level, arg \in VaArgs : Vmap(id, level, arg)
  \/ \E src, dst \in Client, sva \in Va, arg \in VaArgs : Vremap(src, dst, sva, arg)
  \/ \E id \in Client, c \in Cap, arg \in VaArgs : Vpmap(id, c, arg)
  \/ \E dst \in Client, c \in Cap, arg \in VaArgs : Vpremap(dst, c, arg)
  \/ \E id \in Client : Detach(id)
  \/ \E c \in Cap, level \in OwnLevels : CreatePage(c, level)

\* mm is never without a request to serve for ever once one is under way.
Spec     == Init /\ [][Next]_vars
FairSpec == Spec /\ WF_vars(Grow)

-----------------------------------------------------------------------------
(* What has to hold of the table.                                          *)

GrowLocals == [id: Task, start: Int, end: Int, size: Int, sz: Int,
               level: Level \cup {NoLevel}, data: BOOLEAN]

TypeOK ==
  /\ status \in [Task -> {"fresh", "attached", "orphan", "detached"}]
  /\ info \in [Task -> TaskInfo]
  /\ page_table_caps \subseteq Task \X Level \X Nat
  /\ virt_page_caps \in [Task -> [Va -> Cap \cup {NoCap}]]
  /\ cap_level \in [Cap -> Level \cup {NoLevel}]
  /\ mapped \in [Cap -> (Task \X Va) \cup {Unmapped}]
  /\ held \subseteq Cap
  /\ server \in {"ready", "growing", "aborted", "asserted"}
  /\ grow \in GrowLocals
  /\ \A id \in Task : info[id].stack_commit <= info[id].stack_available

\* A page registered for a task is where the kernel has it mapped, so no
\* page is registered twice, in one task or in two: vremap and vpremap take
\* the page out of the source's map when they enter it in the target's.
RegistryMatchesKernel ==
  \A id \in Task, va \in Va :
    virt_page_caps[id][va] # NoCap => mapped[virt_page_caps[id][va]] = <<id, va>>

\* A page the kernel holds mapped for a task in the table is registered
\* there, or is one of init's own from before mm ran: mm loses no page that
\* it would later have to move.
NoStrayPage ==
  \A c \in Cap, id \in Task, va \in Va :
    (mapped[c] = <<id, va>> /\ InTable(id)) =>
      \/ virt_page_caps[id][va] = c
      \/ c \in BootCap /\ id = InitTask /\ va = BootVa[c]

\* Every table and every registered page hangs from tables mm knows of: the
\* at() calls of walk find the parent, however often a walk failed half way,
\* and a walk to a page that is mapped creates nothing.
ReachablePages ==
  /\ \A id \in Task, va \in Va :
       virt_page_caps[id][va] # NoCap =>
         Missing(id, cap_level[virt_page_caps[id][va]], va) = {}
  /\ \A t \in page_table_caps : t[2] < MaxPage =>
       <<t[1], t[2] + 1, TableBase(t[3], t[2] + 1)>> \in page_table_caps

\* Two pages registered for one task never cover the same address: mm looks
\* only for an exact hit, the tables it has built keep the rest apart.
NoOverlap ==
  \A id \in Task, va, wa \in Va :
    /\ virt_page_caps[id][va] # NoCap /\ virt_page_caps[id][wa] # NoCap
    /\ va < wa
    => va + PageSize[cap_level[virt_page_caps[id][va]]] <= wa

\* What is charged to a task exceeds its quota by one page at most: the last
\* page of initial stack data, which is charged twice after one check.
QuotaOvershoot ==
  \A id \in Task : InTable(id) =>
    info[id].total_commit <= info[id].total_available + PageSize[MaxPage]

\* The sum of w[1] to w[n].
SumTo(w, n) ==
  LET sum[k \in Nat] == IF k = 0 THEN 0 ELSE sum[k - 1] + w[k]
  IN sum[n]

\* What is registered for a task at each address, in KILO pages.
Sizes(id) ==
  [va \in Nat |-> IF va \in Va /\ virt_page_caps[id][va] # NoCap
                  THEN PageSize[cap_level[virt_page_caps[id][va]]] ELSE 0]

\* No page is had for nothing: what is mapped for a task, other than init, is
\* charged to it in full, so that the charge given back when a page leaves
\* (an unsigned subtraction) never wraps.
ChargedInFull ==
  \A id \in Task \ {InitTask} :
    InTable(id) => SumTo(Sizes(id), UserEnd - 1) <= info[id].total_commit

\* The stack a task is told it has is there: every page of it is registered.
StackBacked ==
  \A id \in Client \ {InitTask}, a \in Va :
    InTable(id) /\ a >= UserEnd - info[id].stack_commit =>
      \E va \in Va : /\ virt_page_caps[id][va] # NoCap
                     /\ va <= a
                     /\ a < va + PageSize[cap_level[virt_page_caps[id][va]]]

\* No assertion of map, remap or walk fails (assert in task_table.cpp).
NoAssertFails == server # "asserted"

\* A request to attach is answered, however the growth of its stack ends.
GrowthEnds == [](server = "growing" => <>(server # "growing"))

=============================================================================
