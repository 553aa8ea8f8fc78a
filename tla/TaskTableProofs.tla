--------------------------- MODULE TaskTableProofs ---------------------------
(* What is proved of mm's task table for any address space, any number of   *)
(* tasks and pages and any requests.  First types, the agreement of the     *)
(* registry with the kernel and the bound on what a task is charged, from   *)
(* an invariant that says nothing of places; then what a walk finds, which  *)
(* pages are mapped where and what the stack of a task is made of, from one *)
(* that says where each page and each table is, and that what holds a place *)
(* is made before it; last, that what a task has is charged to it, from the *)
(* sum of its pages before and after a step.                                *)
EXTENDS TaskTable, NaturalsInduction, WellFoundedInduction, TLAPS

-----------------------------------------------------------------------------
(* The invariant, in three parts that are disturbed by different actions.   *)

Pages ==
  /\ status \in [Task -> {"fresh", "attached", "orphan", "detached"}]
  /\ virt_page_caps \in [Task -> [Va -> Cap \cup {NoCap}]]
  /\ cap_level \in [Cap -> Level \cup {NoLevel}]
  /\ mapped \in [Cap -> (Task \X Va) \cup {Unmapped}]
  /\ held \subseteq Cap
  /\ \A c \in Cap : mapped[c] # Unmapped \/ c \in held => cap_level[c] # NoLevel
  /\ RegistryMatchesKernel

PageTables == page_table_caps \subseteq Task \X Level \X Nat

\* Counters f of all tasks, each within its limits.
Within(f) ==
  /\ f \in [Task -> TaskInfo]
  /\ \A id \in Task :
       /\ f[id].stack_commit <= f[id].stack_available
       /\ f[id].total_commit <= f[id].total_available + PageSize[MaxPage]

\* The stack that is being grown was held against its limit before.
Counters ==
  /\ Within(info)
  /\ server \in {"ready", "growing", "aborted", "asserted"}
  /\ grow \in GrowLocals
  /\ server = "growing" =>
       /\ grow.size \in Nat
       /\ info[grow.id].stack_commit + grow.size <= info[grow.id].stack_available

IInv == Pages /\ PageTables /\ Counters

-----------------------------------------------------------------------------
(* Addresses and tables.                                                    *)

LEMMA RoundDownNat ==
  ASSUME NEW x \in Nat, NEW align \in Nat \ {0}
  PROVE  RoundDown(x, align) \in Nat
<1>1. x \div align \in Nat
  OBVIOUS
<1> QED
  BY <1>1 DEF RoundDown

LEMMA VaIsNat == Va \subseteq Nat
  BY SpaceAssumption DEF Va

LEMMA TopLevel ==
  /\ MaxPage \in Level
  /\ \A l \in Level : PageSize[l] \in Nat \ {0} /\ PageSize[l] <= PageSize[MaxPage]
<1>1. MaxPage \in Level
  BY LevelAssumption DEF Level
<1>2. \A l \in Level : l <= MaxPage
  BY LevelAssumption DEF Level
<1> QED
  BY <1>1, <1>2, LevelAssumption

LEMMA TablesTyped ==
  ASSUME NEW id \in Task, NEW level \in Level, NEW va \in Va, NEW stop
  PROVE  Tables(id, level, va, stop) \subseteq Task \X Level \X Nat
<1> SUFFICES ASSUME NEW lv \in level .. MaxPage - 1
             PROVE  <<id, lv, TableBase(va, lv)>> \in Task \X Level \X Nat
  BY DEF Tables, Missing
<1>1. lv \in Level /\ lv + 1 \in Level /\ lv # MaxPage
  BY LevelAssumption DEF Level
<1>2. PageSize[lv + 1] \in Nat \ {0}
  BY <1>1, LevelAssumption
<1>3. TableBase(va, lv) \in Nat
  BY <1>1, <1>2, RoundDownNat, VaIsNat DEF TableBase
<1> QED
  BY <1>1, <1>3

-----------------------------------------------------------------------------
(* The three ways in which a page gets its place.                           *)

LEMMA PlaceIsNotUnmapped ==
  ASSUME NEW t, NEW w PROVE <<t, w>> # Unmapped
  BY DEF Unmapped

LEMMA NewPageKeepsPages ==
  ASSUME Pages, NEW id \in Task, NEW level \in Level, NEW va \in Va,
         NewPage(id, level, va), UNCHANGED <<status, held>>
  PROVE  Pages'
<1>1. PICK c \in Cap :
        /\ cap_level[c] = NoLevel
        /\ cap_level' = [cap_level EXCEPT ![c] = level]
        /\ mapped' = [mapped EXCEPT ![c] = <<id, va>>]
        /\ virt_page_caps' = [virt_page_caps EXCEPT ![id][va] = c]
  BY DEF NewPage
<1>2. level # NoLevel
  BY LevelAssumption DEF Level, NoLevel
<1>3. mapped[c] = Unmapped /\ c \notin held
  BY <1>1 DEF Pages
<1>4. RegistryMatchesKernel'
  <2> SUFFICES ASSUME NEW t \in Task, NEW w \in Va, virt_page_caps'[t][w] # NoCap
               PROVE  mapped'[virt_page_caps'[t][w]] = <<t, w>>
    BY DEF RegistryMatchesKernel
  <2>1. CASE t = id /\ w = va
    BY <2>1, <1>1 DEF Pages
  <2>2. CASE ~(t = id /\ w = va)
    <3>1. virt_page_caps'[t][w] = virt_page_caps[t][w]
      BY <2>2, <1>1 DEF Pages
    <3>2. mapped[virt_page_caps[t][w]] = <<t, w>> /\ virt_page_caps[t][w] \in Cap
      BY <3>1 DEF Pages, RegistryMatchesKernel
    <3>3. virt_page_caps[t][w] # c
      BY <3>2, <1>3, PlaceIsNotUnmapped
    <3> QED
      BY <3>1, <3>2, <3>3, <1>1 DEF Pages
  <2> QED
    BY <2>1, <2>2
<1>5. /\ cap_level' \in [Cap -> Level \cup {NoLevel}]
      /\ mapped' \in [Cap -> (Task \X Va) \cup {Unmapped}]
      /\ virt_page_caps' \in [Task -> [Va -> Cap \cup {NoCap}]]
  BY <1>1 DEF Pages
<1>6. \A d \in Cap : mapped'[d] # Unmapped \/ d \in held' => cap_level'[d] # NoLevel
  BY <1>1, <1>2 DEF Pages
<1> QED
  BY <1>4, <1>5, <1>6 DEF Pages

\* A page that is registered at its place in the kernel, or nowhere.
LEMMA MovePageKeepsPages ==
  ASSUME Pages, NEW c \in Cap, mapped[c] # Unmapped,
         NEW dst \in Task, NEW dva \in Va,
         MovePage(c, mapped[c][1], mapped[c][2], dst, dva),
         UNCHANGED status, held' \subseteq held
  PROVE  Pages'
<1>1. PICK src \in Task, sva \in Va : mapped[c] = <<src, sva>>
  BY DEF Pages
<1>2. /\ virt_page_caps' = [virt_page_caps EXCEPT ![dst][dva] = c, ![src][sva] = NoCap]
      /\ mapped' = [mapped EXCEPT ![c] = <<dst, dva>>]
      /\ cap_level' = cap_level
  BY <1>1 DEF MovePage
<1>3. /\ virt_page_caps' \in [Task -> [Va -> Cap \cup {NoCap}]]
      /\ mapped' \in [Cap -> (Task \X Va) \cup {Unmapped}]
  BY <1>2 DEF Pages
<1>4. \A d \in Cap : mapped'[d] # Unmapped \/ d \in held' => cap_level'[d] # NoLevel
  BY <1>2 DEF Pages
<1>5. RegistryMatchesKernel'
  <2> SUFFICES ASSUME NEW t \in Task, NEW w \in Va, virt_page_caps'[t][w] # NoCap
               PROVE  mapped'[virt_page_caps'[t][w]] = <<t, w>>
    BY DEF RegistryMatchesKernel
  <2>1. ~(t = src /\ w = sva)
    BY <1>2 DEF Pages
  <2>2. CASE t = dst /\ w = dva
    BY <2>1, <2>2, <1>2 DEF Pages
  <2>3. CASE ~(t = dst /\ w = dva)
    <3>1. virt_page_caps'[t][w] = virt_page_caps[t][w]
      BY <2>1, <2>3, <1>2 DEF Pages
    <3>2. mapped[virt_page_caps[t][w]] = <<t, w>> /\ virt_page_caps[t][w] \in Cap
      BY <3>1 DEF Pages, RegistryMatchesKernel
    <3>3. virt_page_caps[t][w] # c
      BY <3>2, <2>1, <1>1
    <3> QED
      BY <3>1, <3>2, <3>3, <1>2 DEF Pages
  <2> QED
    BY <2>2, <2>3
<1> QED
  BY <1>2, <1>3, <1>4, <1>5 DEF Pages

LEMMA BroughtPageKeepsPages ==
  ASSUME Pages, NEW c \in held, mapped[c] = Unmapped,
         NEW id \in Task, NEW va \in Va,
         virt_page_caps' = [virt_page_caps EXCEPT ![id][va] = c],
         mapped' = [mapped EXCEPT ![c] = <<id, va>>],
         UNCHANGED <<status, cap_level>>, held' \subseteq held
  PROVE  Pages'
<1>1. c \in Cap
  BY DEF Pages
<1>2. /\ virt_page_caps' \in [Task -> [Va -> Cap \cup {NoCap}]]
      /\ mapped' \in [Cap -> (Task \X Va) \cup {Unmapped}]
  BY <1>1 DEF Pages
<1>3. \A d \in Cap : mapped'[d] # Unmapped \/ d \in held' => cap_level'[d] # NoLevel
  BY <1>1 DEF Pages
<1>4. RegistryMatchesKernel'
  <2> SUFFICES ASSUME NEW t \in Task, NEW w \in Va, virt_page_caps'[t][w] # NoCap
               PROVE  mapped'[virt_page_caps'[t][w]] = <<t, w>>
    BY DEF RegistryMatchesKernel
  <2>1. CASE t = id /\ w = va
    BY <2>1, <1>1 DEF Pages
  <2>2. CASE ~(t = id /\ w = va)
    <3>1. virt_page_caps'[t][w] = virt_page_caps[t][w]
      BY <2>2 DEF Pages
    <3>2. mapped[virt_page_caps[t][w]] = <<t, w>> /\ virt_page_caps[t][w] \in Cap
      BY <3>1 DEF Pages, RegistryMatchesKernel
    <3>3. virt_page_caps[t][w] # c
      BY <3>2, PlaceIsNotUnmapped
    <3> QED
      BY <3>1, <3>2, <3>3, <1>1 DEF Pages
  <2> QED
    BY <2>1, <2>2
<1> QED
  BY <1>2, <1>3, <1>4 DEF Pages

-----------------------------------------------------------------------------
(* The counters.                                                            *)

\* Counters f and g agree on the stacks.
SameStacks(f, g) ==
  \A t \in Task : /\ g[t].stack_commit = f[t].stack_commit
                  /\ g[t].stack_available = f[t].stack_available

LEMMA ChargedFields ==
  ASSUME NEW f \in [Task -> TaskInfo], NEW id \in Task, NEW amount \in Int
  PROVE  /\ Charged(f, id, amount) \in [Task -> TaskInfo]
         /\ SameStacks(f, Charged(f, id, amount))
         /\ \A t \in Task :
              /\ Charged(f, id, amount)[t].total_available = f[t].total_available
              /\ t # id => Charged(f, id, amount)[t].total_commit = f[t].total_commit
         /\ Charged(f, id, amount)[id].total_commit = f[id].total_commit + amount
  BY DEF Charged, TaskInfo, SameStacks

LEMMA BroughtFields ==
  ASSUME NEW f \in [Task -> TaskInfo], NEW id \in Task, NEW amount \in Int
  PROVE  /\ Brought(f, id, amount) \in [Task -> TaskInfo]
         /\ SameStacks(f, Brought(f, id, amount))
         /\ \A t \in Task \ {id} :
              /\ Brought(f, id, amount)[t].total_available = f[t].total_available
              /\ Brought(f, id, amount)[t].total_commit = f[t].total_commit
         /\ Brought(f, id, amount)[id].total_available = f[id].total_available + amount
         /\ Brought(f, id, amount)[id].total_commit = f[id].total_commit + amount
<1> DEFINE g == Granted(f, id, amount)
<1>1. /\ g \in [Task -> TaskInfo]
      /\ SameStacks(f, g)
      /\ \A t \in Task : /\ g[t].total_commit = f[t].total_commit
                         /\ t # id => g[t].total_available = f[t].total_available
      /\ g[id].total_available = f[id].total_available + amount
  BY DEF Granted, TaskInfo, SameStacks
<1> HIDE DEF g
<1>2. /\ Charged(g, id, amount) \in [Task -> TaskInfo]
      /\ SameStacks(g, Charged(g, id, amount))
      /\ \A t \in Task :
           /\ Charged(g, id, amount)[t].total_available = g[t].total_available
           /\ t # id => Charged(g, id, amount)[t].total_commit = g[t].total_commit
      /\ Charged(g, id, amount)[id].total_commit = g[id].total_commit + amount
  BY <1>1, ChargedFields
<1>3. Brought(f, id, amount) = Charged(g, id, amount)
  BY DEF Brought, g
<1> QED
  BY <1>1, <1>2, <1>3 DEF SameStacks

\* What one page more than the quota, counted after the check, comes to.
LEMMA ChargeWithin ==
  ASSUME NEW f, Within(f), NEW id \in Task, NEW amount \in Int,
         f[id].total_commit + amount <= f[id].total_available + PageSize[MaxPage]
  PROVE  Within(Charged(f, id, amount)) /\ SameStacks(f, Charged(f, id, amount))
<1> DEFINE g == Charged(f, id, amount)
<1>1. f \in [Task -> TaskInfo]
  BY DEF Within
<1>2. g \in [Task -> TaskInfo] /\ SameStacks(f, g)
  BY <1>1, ChargedFields
<1>3. \A t \in Task : g[t].stack_commit <= g[t].stack_available
  BY <1>2 DEF Within, SameStacks
<1>4. \A t \in Task : g[t].total_commit <= g[t].total_available + PageSize[MaxPage]
  <2> SUFFICES ASSUME NEW t \in Task
               PROVE  g[t].total_commit <= g[t].total_available + PageSize[MaxPage]
    OBVIOUS
  <2>1. g[t].total_available = f[t].total_available
    BY <1>1, ChargedFields
  <2>2. CASE t = id
    BY <2>1, <2>2, <1>1, ChargedFields
  <2>3. CASE t # id
    <3>1. g[t].total_commit = f[t].total_commit
      BY <2>3, <1>1, ChargedFields
    <3> QED
      BY <2>1, <3>1 DEF Within
  <2> QED
    BY <2>2, <2>3
<1> QED
  BY <1>2, <1>3, <1>4 DEF Within

LEMMA BringWithin ==
  ASSUME NEW f, Within(f), NEW id \in Task, NEW amount \in Int
  PROVE  Within(Brought(f, id, amount)) /\ SameStacks(f, Brought(f, id, amount))
<1> DEFINE g == Brought(f, id, amount)
<1>1. f \in [Task -> TaskInfo]
  BY DEF Within
<1>2. g \in [Task -> TaskInfo] /\ SameStacks(f, g)
  BY <1>1, BroughtFields
<1>3. \A t \in Task : g[t].stack_commit <= g[t].stack_available
  BY <1>2 DEF Within, SameStacks
<1>4. \A t \in Task : g[t].total_commit <= g[t].total_available + PageSize[MaxPage]
  <2> SUFFICES ASSUME NEW t \in Task
               PROVE  g[t].total_commit <= g[t].total_available + PageSize[MaxPage]
    OBVIOUS
  <2>1. f[t].total_commit <= f[t].total_available + PageSize[MaxPage]
    BY DEF Within
  <2>2. CASE t = id
    <3>1. /\ g[t].total_available = f[t].total_available + amount
          /\ g[t].total_commit = f[t].total_commit + amount
      BY <2>2, <1>1, BroughtFields
    <3>2. f[t].total_available \in Int /\ f[t].total_commit \in Int /\ PageSize[MaxPage] \in Int
      BY <1>1, TopLevel DEF TaskInfo
    <3> QED
      BY <2>1, <3>1, <3>2
  <2>3. CASE t # id
    BY <2>1, <2>3, <1>1, BroughtFields
  <2> QED
    BY <2>2, <2>3
<1> QED
  BY <1>2, <1>3, <1>4 DEF Within

\* A step that leaves the stacks and the server's loop as they are.
LEMMA CountersKept ==
  ASSUME Counters, Within(info'), SameStacks(info, info'), UNCHANGED <<server, grow>>
  PROVE  Counters'
<1>1. grow.id \in Task
  BY DEF Counters, GrowLocals
<1> QED
  BY <1>1 DEF Counters, SameStacks, Within

\* More quota harms nobody.
LEMMA GrantWithin ==
  ASSUME NEW f, Within(f), NEW id \in Task, NEW amount \in Nat
  PROVE  Within(Granted(f, id, amount)) /\ SameStacks(f, Granted(f, id, amount))
<1> DEFINE g == Granted(f, id, amount)
<1>1. /\ g \in [Task -> TaskInfo]
      /\ SameStacks(f, g)
      /\ \A t \in Task : /\ g[t].total_commit = f[t].total_commit
                         /\ t # id => g[t].total_available = f[t].total_available
      /\ g[id].total_available = f[id].total_available + amount
  BY DEF Granted, TaskInfo, SameStacks, Within
<1> HIDE DEF g
<1>2. \A t \in Task : g[t].stack_commit <= g[t].stack_available
  BY <1>1 DEF Within, SameStacks
<1>3. ASSUME NEW t \in Task
      PROVE  g[t].total_commit <= g[t].total_available + PageSize[MaxPage]
  <2>1. /\ f[t].total_commit \in Int /\ f[t].total_available \in Int /\ PageSize[MaxPage] \in Int
        /\ f[t].total_commit <= f[t].total_available + PageSize[MaxPage]
    BY TopLevel DEF Within, TaskInfo
  <2>2. CASE t = id
    BY <1>1, <2>1, <2>2
  <2>3. CASE t # id
    BY <1>1, <2>1, <2>3
  <2> QED
    BY <2>2, <2>3
<1> QED
  BY <1>1, <1>2, <1>3 DEF Within, g

-----------------------------------------------------------------------------
(* map and its failures, at an address of the task's space.                 *)

\* What a mapping leaves intact; the stack that is growing is not its concern.
Kept == Pages' /\ PageTables' /\ Within(info') /\ SameStacks(info, info')

LEMMA MapPageKeeps ==
  ASSUME IInv, NEW id \in Task, NEW level \in Level, NEW va \in Va,
         MapPage(id, level, va), UNCHANGED <<status, held>>
  PROVE  Kept
<1>1. Pages'
  BY NewPageKeepsPages DEF MapPage, IInv
<1>2. PageTables'
  BY TablesTyped DEF MapPage, IInv, PageTables
<1>3. Within(info') /\ SameStacks(info, info')
  <2>1. info[id].total_commit + PageSize[level] <= info[id].total_available + PageSize[MaxPage]
    <3>1. /\ PageSize[level] \in Nat /\ PageSize[MaxPage] \in Nat
          /\ info[id].total_commit \in Int /\ info[id].total_available \in Int
      BY TopLevel DEF IInv, Counters, Within, TaskInfo
    <3>2. info[id].total_available >= info[id].total_commit + PageSize[level]
      BY DEF MapPage, Mappable, Quota
    <3> QED
      BY <3>1, <3>2
  <2>2. PageSize[level] \in Int
    BY TopLevel
  <2> QED
    BY <2>1, <2>2, ChargeWithin DEF MapPage, IInv, Counters
<1> QED
  BY <1>1, <1>2, <1>3 DEF Kept

\* One check, two charges: this is where a page over the quota comes from.
LEMMA MapDataKeeps ==
  ASSUME IInv, NEW id \in Task, NEW level \in Level, NEW va \in Va,
         MapData(id, level, va), UNCHANGED <<status, held>>
  PROVE  Kept
<1> DEFINE own == RandomVa(Self, level)
           f   == Charged(info, id, 2 * PageSize[level])
<1>0. Self \in Task
  BY TaskAssumption
<1>1. Pages'
  BY NewPageKeepsPages DEF MapData, IInv
<1>2. PageTables'
  <2>1. own \in Va
    BY DEF MapData, BelowStack
  <2> QED
    BY <2>1, <1>0, TablesTyped DEF MapData, IInv, PageTables
<1>3. Within(info') /\ SameStacks(info, info')
  <2>1. /\ PageSize[level] \in Nat /\ PageSize[MaxPage] \in Nat /\ PageSize[level] <= PageSize[MaxPage]
        /\ info[id].total_commit \in Int /\ info[id].total_available \in Int
    BY TopLevel DEF IInv, Counters, Within, TaskInfo
  <2>2. info[id].total_available >= info[id].total_commit + PageSize[level]
    BY DEF MapData, Mappable, Quota
  <2>3. info[id].total_commit + 2 * PageSize[level] <= info[id].total_available + PageSize[MaxPage]
    BY <2>1, <2>2
  <2>4. 2 * PageSize[level] \in Int
    BY <2>1
  <2>5. Within(f) /\ SameStacks(info, f)
    BY <2>3, <2>4, ChargeWithin DEF IInv, Counters
  <2>6. info' = Granted(f, Self, PageSize[level])
    BY DEF MapData
  <2>7. Within(info') /\ SameStacks(f, info')
    BY <2>1, <2>5, <2>6, <1>0, GrantWithin
  <2> HIDE DEF f
  <2> QED
    BY <2>5, <2>7 DEF SameStacks
<1> QED
  BY <1>1, <1>2, <1>3 DEF Kept

\* No step but one that touches them disturbs pages or counters.
LEMMA PagesUnchanged ==
  ASSUME Pages, UNCHANGED <<status, virt_page_caps, kernel>>, held' \subseteq held
  PROVE  Pages'
  BY DEF Pages, kernel, RegistryMatchesKernel

LEMMA MapFailsKeeps ==
  ASSUME IInv, NEW id \in Task, NEW level \in Level, NEW va \in Va,
         MapFails(id, level, va), UNCHANGED <<status, held>>
  PROVE  Kept
<1>1. Pages'
  BY PagesUnchanged DEF MapFails, IInv
<1>2. PageTables'
  BY TablesTyped DEF MapFails, IInv, PageTables
<1>3. Within(info') /\ SameStacks(info, info')
  BY DEF MapFails, IInv, Counters, SameStacks
<1> QED
  BY <1>1, <1>2, <1>3 DEF Kept

LEMMA MapDataFailsKeeps ==
  ASSUME IInv, NEW id \in Task, NEW level \in Level, NEW va \in Va,
         MapDataFails(id, level, va), UNCHANGED <<status, held>>
  PROVE  Kept
<1>0. Self \in Task /\ RandomVa(Self, level) \in Va
  BY TaskAssumption DEF MapDataFails, BelowStack
<1>1. Pages'
  BY PagesUnchanged DEF MapDataFails, IInv
<1>2. PageTables'
  BY <1>0, TablesTyped DEF MapDataFails, IInv, PageTables
<1>3. Within(info') /\ SameStacks(info, info')
  BY DEF MapDataFails, IInv, Counters, SameStacks
<1> QED
  BY <1>1, <1>2, <1>3 DEF Kept

LEMMA LeavesTablesKeeps ==
  ASSUME PageTables, NEW id \in Task, NEW level \in Level, NEW va \in Va,
         LeavesTables(id, level, va)
  PROVE  PageTables'
  BY TablesTyped DEF LeavesTables, PageTables

-----------------------------------------------------------------------------
(* attach, and the growth of a stack.                                       *)

LEMMA GrowIsTyped == Counters => grow.id \in Task /\ grow.start \in Int /\ grow.level \in Int
  BY LevelAssumption DEF Counters, GrowLocals, Level, NoLevel

\* The reply to attach.
LEMMA AttachedKeeps ==
  ASSUME NEW id \in Task, Attached(id),
         status \in [Task -> {"fresh", "attached", "orphan", "detached"}]
  PROVE  /\ status' \in [Task -> {"fresh", "attached", "orphan", "detached"}]
         /\ server' = "ready" /\ grow' = NoGrow
  BY DEF Attached

LEMMA NoGrowTyped == NoGrow \in GrowLocals
  BY TaskAssumption DEF NoGrow, GrowLocals, NoLevel

\* The status of a task says nothing of its pages.
LEMMA StatusApart ==
  ASSUME Pages, UNCHANGED <<virt_page_caps, kernel, held>>,
         status' \in [Task -> {"fresh", "attached", "orphan", "detached"}]
  PROVE  Pages'
  BY DEF Pages, kernel, RegistryMatchesKernel

LEMMA AttachKeeps ==
  ASSUME IInv, NEW id \in Client, NEW arg \in AttachArgs, Attach(id, arg)
  PROVE  IInv'
<1>1. id \in Task /\ arg \in AttachArg
  BY TaskAssumption, SpaceAssumption
<1>2. /\ StackOf(arg) \in Nat /\ TotalOf(arg) \in Nat
      /\ arg.stack_commit \in Nat /\ arg.stack_commit <= StackOf(arg)
      /\ arg.data \in BOOLEAN
  BY <1>1, SpaceAssumption DEF StackOf, TotalOf, AttachArg, Attach, AcceptsStack
<1> DEFINE new == [stack_available |-> StackOf(arg), total_available |-> TotalOf(arg),
                   stack_commit |-> 0, total_commit |-> 0]
<1>3. /\ new \in TaskInfo
      /\ new.stack_available = StackOf(arg) /\ new.total_available = TotalOf(arg)
      /\ new.stack_commit = 0 /\ new.total_commit = 0
  BY <1>2 DEF TaskInfo
<1>4. info' = [info EXCEPT ![id] = new]
  BY DEF Attach
<1> HIDE DEF new
<1>5. Within(info') /\ info'[id] = new
  <2>1. info' \in [Task -> TaskInfo] /\ info'[id] = new
        /\ \A t \in Task \ {id} : info'[t] = info[t]
    BY <1>1, <1>3, <1>4 DEF IInv, Counters, Within
  <2>2. PageSize[MaxPage] \in Nat
    BY TopLevel
  <2> QED
    BY <1>2, <1>3, <2>1, <2>2 DEF IInv, Counters, Within
<1>6. /\ status' \in [Task -> {"fresh", "attached", "orphan", "detached"}]
      /\ \/ server' = "growing" /\ grow' = GrowFrom(id, UserEnd, arg.stack_commit, arg.data)
         \/ server' = "ready" /\ grow' = NoGrow
  BY <1>1, AttachedKeeps DEF Attach, IInv, Pages
<1>7. Pages'
  BY <1>6, StatusApart DEF Attach, IInv
<1>8. PageTables'
  BY <1>1, TopLevel DEF Attach, IInv, PageTables
<1>9. Counters'
  <2>1. CASE server' = "ready" /\ grow' = NoGrow
    BY <2>1, <1>5, NoGrowTyped DEF Counters
  <2>2. CASE server' = "growing" /\ grow' = GrowFrom(id, UserEnd, arg.stack_commit, arg.data)
    <3>1. grow' \in GrowLocals /\ grow'.id = id /\ grow'.size = arg.stack_commit
      BY <2>2, <1>1, <1>2, TopLevel, SpaceAssumption DEF GrowFrom, GrowLocals
    <3>2. info'[grow'.id].stack_commit + grow'.size <= info'[grow'.id].stack_available
      BY <3>1, <1>2, <1>3, <1>5
    <3> QED
      BY <2>2, <3>1, <3>2, <1>2, <1>5 DEF Counters
  <2> QED
    BY <1>6, <2>1, <2>2
<1> QED
  BY <1>7, <1>8, <1>9 DEF IInv

\* A step of the loop that maps a page and goes on.
LEMMA GrowPageKeeps ==
  ASSUME IInv, NEW level \in Level, GrowPage(level)
  PROVE  IInv'
<1>1. grow.id \in Task /\ grow.start \in Va
  BY GrowIsTyped DEF IInv, GrowPage, InSpace
<1>2. Kept
  BY <1>1, MapPageKeeps, MapDataKeeps DEF GrowPage
<1>3. Counters'
  <2>1. /\ grow' \in GrowLocals /\ grow'.id = grow.id /\ grow'.size = grow.size
    <3>1. PageSize[level] \in Int /\ level - 1 \in Level \cup {NoLevel}
      BY TopLevel, LevelAssumption DEF Level, NoLevel
    <3> DEFINE mid == [grow EXCEPT !.start = @ + PageSize[level]]
    <3>2. mid \in GrowLocals /\ mid.id = grow.id /\ mid.size = grow.size
      BY <3>1 DEF IInv, Counters, GrowLocals
    <3>3. grow' = [mid EXCEPT !.level = level - 1]
      BY DEF GrowPage
    <3> HIDE DEF mid
    <3> QED
      BY <3>1, <3>2, <3>3 DEF GrowLocals
  <2>2. server' = "growing" /\ server = "growing"
    BY DEF GrowPage
  <2> QED
    BY <1>1, <1>2, <2>1, <2>2 DEF Kept, IInv, Counters, SameStacks
<1> QED
  BY <1>2, <1>3 DEF Kept, IInv

LEMMA GrowFailsKeeps ==
  ASSUME IInv, NEW level \in Level, GrowFails(level)
  PROVE  IInv'
<1>1. grow.id \in Task /\ grow.start \in Va
  BY GrowIsTyped DEF IInv, GrowFails, InSpace
<1>2. UNCHANGED <<kernel, virt_page_caps, info, held>>
  BY DEF GrowFails, MapFails, MapDataFails
<1>3. PageTables'
  <2>1. CASE MapFails(grow.id, level, grow.start)
    BY <2>1, <1>1, TablesTyped DEF MapFails, IInv, PageTables
  <2>2. CASE MapDataFails(grow.id, level, grow.start)
    <3>1. Self \in Task /\ RandomVa(Self, level) \in Va
      BY <2>2, TaskAssumption DEF MapDataFails, BelowStack
    <3> QED
      BY <2>2, <3>1, <1>1, TablesTyped DEF MapDataFails, IInv, PageTables
  <2> QED
    BY <2>1, <2>2 DEF GrowFails
<1>4. /\ status' \in [Task -> {"fresh", "attached", "orphan", "detached"}]
      /\ \/ server' = "aborted" /\ grow' = grow
         \/ server' = "ready" /\ grow' = NoGrow
  BY <1>1, AttachedKeeps DEF GrowFails, IInv, Pages
<1>5. Counters'
  BY <1>2, <1>4, NoGrowTyped DEF IInv, Counters
<1> QED
  BY <1>2, <1>3, <1>4, <1>5, StatusApart DEF IInv

LEMMA GrowDoneKeeps ==
  ASSUME IInv, GrowDone
  PROVE  IInv'
<1>1. grow.id \in Task /\ grow.size \in Nat
      /\ info[grow.id].stack_commit + grow.size <= info[grow.id].stack_available
  BY GrowIsTyped DEF IInv, GrowDone, Counters
<1>2. Within(info')
  <2>1. info' = [info EXCEPT ![grow.id].stack_commit = @ + grow.size]
    BY DEF GrowDone
  <2>2. info \in [Task -> TaskInfo] /\ info[grow.id].stack_commit \in Nat
    BY <1>1 DEF IInv, Counters, Within, TaskInfo
  <2>3. /\ info' \in [Task -> TaskInfo]
        /\ info'[grow.id].stack_commit = info[grow.id].stack_commit + grow.size
        /\ \A t \in Task : /\ t # grow.id => info'[t].stack_commit = info[t].stack_commit
                           /\ info'[t].stack_available = info[t].stack_available
                           /\ info'[t].total_commit = info[t].total_commit
                           /\ info'[t].total_available = info[t].total_available
    BY <1>1, <2>1, <2>2 DEF TaskInfo
  <2> QED
    BY <1>1, <2>3 DEF IInv, Counters, Within
<1>3. /\ status' \in [Task -> {"fresh", "attached", "orphan", "detached"}]
      /\ server' = "ready" /\ grow' = NoGrow
  BY <1>1, AttachedKeeps DEF GrowDone, Grown, IInv, Pages
<1>4. Pages'
  BY <1>3, StatusApart DEF GrowDone, IInv
<1>5. Counters'
  BY <1>2, <1>3, NoGrowTyped DEF Counters
<1> QED
  BY <1>4, <1>5 DEF GrowDone, IInv, PageTables

LEMMA GrowRestKeeps ==
  ASSUME IInv, GrowRound \/ \E level \in Level : GrowAsserts(level)
  PROVE  IInv'
<1>1. UNCHANGED <<status, info, page_table_caps, virt_page_caps, kernel, held>>
  BY DEF GrowRound, GrowAsserts
<1>2. Pages' /\ PageTables'
  BY <1>1, PagesUnchanged DEF IInv, PageTables
<1>3. Counters'
  <2>1. CASE GrowRound
    <3>1. grow' \in GrowLocals /\ grow'.id = grow.id /\ grow'.size = grow.size
      <4> DEFINE mid == [grow EXCEPT !.sz = grow.end - grow.start]
      <4>1. mid \in GrowLocals /\ mid.id = grow.id /\ mid.size = grow.size
        BY DEF IInv, Counters, GrowLocals
      <4>2. grow' = [mid EXCEPT !.level = MaxPage]
        BY <2>1 DEF GrowRound
      <4> HIDE DEF mid
      <4> QED
        BY <4>1, <4>2, TopLevel DEF GrowLocals
    <3> QED
      BY <2>1, <3>1 DEF GrowRound, IInv, Counters
  <2>2. CASE \E level \in Level : GrowAsserts(level)
    BY <2>2 DEF GrowAsserts, IInv, Counters
  <2> QED
    BY <2>1, <2>2
<1> QED
  BY <1>2, <1>3 DEF IInv

-----------------------------------------------------------------------------
(* The requests of clients.                                                 *)

LEMMA VmapKeeps ==
  ASSUME IInv, NEW id \in Client, NEW level \in Level, NEW arg \in VaArgs,
         Vmap(id, level, arg)
  PROVE  IInv'
<1> DEFINE va == Place(id, level, arg)
<1>1. id \in Task /\ va \in Va
  BY TaskAssumption DEF Vmap, BelowStack
<1>2. Kept
  BY <1>1, MapPageKeeps, MapFailsKeeps DEF Vmap
<1> QED
  BY <1>2, CountersKept DEF Vmap, Kept, IInv

\* The page moves from where the kernel has it, as the registry says; the
\* target pays within its quota, the source is given back what it paid.
LEMMA VremapKeeps ==
  ASSUME IInv, NEW src \in Client, NEW dst \in Client, NEW sva \in Va, NEW arg \in VaArgs,
         Vremap(src, dst, sva, arg)
  PROVE  IInv'
<1> DEFINE c     == virt_page_caps[src][sva]
           level == cap_level[c]
           dva   == Place(dst, level, arg)
<1>1. src \in Task /\ dst \in Task
  BY TaskAssumption
<1>2. c \in Cap /\ mapped[c] = <<src, sva>> /\ level \in Level
  <2>1. c \in Cap /\ mapped[c] = <<src, sva>>
    BY <1>1 DEF Vremap, IInv, Pages, RegistryMatchesKernel
  <2> QED
    BY <2>1, PlaceIsNotUnmapped DEF IInv, Pages
<1>3. CASE ~InSpace(level, dva)
  <2>1. UNCHANGED <<status, info, page_table_caps, virt_page_caps, kernel, held, grow>>
        /\ server' = "asserted"
    BY <1>3 DEF Vremap
  <2>2. Pages' /\ PageTables'
    BY <2>1, PagesUnchanged DEF IInv, PageTables
  <2> QED
    BY <2>1, <2>2 DEF IInv, Counters
<1>4. CASE InSpace(level, dva)
  <2>1. dva \in Va
    BY <1>4 DEF InSpace
  <2>2. UNCHANGED <<status, held, server, grow>> /\ Mappable(dst, level, dva)
    BY <1>4 DEF Vremap
  <2>3. \/ /\ page_table_caps' = page_table_caps \cup Tables(dst, level, dva, NoLevel)
           /\ MovePage(c, src, sva, dst, dva)
           /\ info' = Charged(Charged(info, dst, PageSize[level]), src, -PageSize[level])
        \/ /\ LeavesTables(dst, level, dva)
           /\ UNCHANGED <<info, virt_page_caps, kernel>>
    BY <1>4 DEF Vremap
  <2>4. CASE /\ page_table_caps' = page_table_caps \cup Tables(dst, level, dva, NoLevel)
             /\ MovePage(c, src, sva, dst, dva)
             /\ info' = Charged(Charged(info, dst, PageSize[level]), src, -PageSize[level])
    <3>1. Pages'
      <4>1. mapped[c] # Unmapped /\ mapped[c][1] = src /\ mapped[c][2] = sva
        BY <1>2, PlaceIsNotUnmapped
      <4> HIDE DEF c, level, dva
      <4> QED
        BY <4>1, <1>1, <1>2, <2>1, <2>2, <2>4, MovePageKeepsPages DEF IInv
    <3>2. PageTables'
      BY <1>1, <1>2, <2>1, <2>4, TablesTyped DEF IInv, PageTables
    <3>3. Within(info') /\ SameStacks(info, info')
      <4> DEFINE f == Charged(info, dst, PageSize[level])
      <4>1. /\ PageSize[level] \in Nat /\ PageSize[MaxPage] \in Nat
            /\ info[dst].total_commit \in Int /\ info[dst].total_available \in Int
        BY <1>1, <1>2, TopLevel DEF IInv, Counters, Within, TaskInfo
      <4>2. info[dst].total_available >= info[dst].total_commit + PageSize[level]
        BY <2>2 DEF Mappable, Quota
      <4>3. info[dst].total_commit + PageSize[level]
              <= info[dst].total_available + PageSize[MaxPage]
        BY <4>1, <4>2
      <4>4. Within(f) /\ SameStacks(info, f)
        BY <4>1, <4>3, <1>1, ChargeWithin DEF IInv, Counters
      <4>5. info' = Charged(f, src, -PageSize[level])
        BY <2>4
      <4> HIDE DEF f
      <4>6. f[src].total_commit + (-PageSize[level])
              <= f[src].total_available + PageSize[MaxPage]
        <5>1. /\ f[src].total_commit \in Int /\ f[src].total_available \in Int
              /\ f[src].total_commit <= f[src].total_available + PageSize[MaxPage]
          BY <4>4, <1>1 DEF Within, TaskInfo
        <5> QED
          BY <5>1, <4>1
      <4>7. -PageSize[level] \in Int
        BY <4>1
      <4>8. Within(info') /\ SameStacks(f, info')
        BY <4>4, <4>5, <4>6, <4>7, <1>1, ChargeWithin
      <4> QED
        BY <4>4, <4>8 DEF SameStacks
    <3> QED
      BY <3>1, <3>2, <3>3, <2>2, CountersKept DEF IInv
  <2>5. CASE LeavesTables(dst, level, dva) /\ UNCHANGED <<info, virt_page_caps, kernel>>
    <3>1. Pages'
      BY <2>2, <2>5, PagesUnchanged DEF IInv
    <3>2. PageTables'
      BY <1>1, <1>2, <2>1, <2>5, LeavesTablesKeeps DEF IInv
    <3> QED
      BY <3>1, <3>2, <2>2, <2>5 DEF IInv, Counters
  <2> QED
    BY <2>3, <2>4, <2>5
<1> QED
  BY <1>3, <1>4

LEMMA VpmapKeeps ==
  ASSUME IInv, NEW id \in Client, NEW c \in Cap, NEW arg \in VaArgs, Vpmap(id, c, arg)
  PROVE  IInv'
<1> DEFINE level == cap_level[c]
           va    == Place(id, level, arg)
<1>1. id \in Task /\ c \in held /\ mapped[c] = Unmapped /\ held' \subseteq held
      /\ UNCHANGED <<status, server, grow>>
  BY TaskAssumption DEF Vpmap
<1>2. level \in Level
  BY <1>1 DEF IInv, Pages
<1>3. Acceptable(id, level, va) => va \in Va
  BY DEF Acceptable, BelowStack
<1>4. CASE /\ Acceptable(id, level, va)
           /\ page_table_caps' = page_table_caps \cup Tables(id, level, va, NoLevel)
           /\ virt_page_caps' = [virt_page_caps EXCEPT ![id][va] = c]
           /\ mapped' = [mapped EXCEPT ![c] = <<id, va>>]
           /\ info' = Brought(info, id, PageSize[level])
           /\ UNCHANGED cap_level
  <2>1. Pages'
    <3> HIDE DEF level, va
    <3> QED
      BY <1>1, <1>3, <1>4, BroughtPageKeepsPages DEF IInv
  <2>2. PageTables'
    BY <1>1, <1>2, <1>3, <1>4, TablesTyped DEF IInv, PageTables
  <2>3. Within(info') /\ SameStacks(info, info')
    <3>1. PageSize[level] \in Int
      BY <1>2, TopLevel
    <3> QED
      BY <3>1, <1>1, <1>4, BringWithin DEF IInv, Counters
  <2> QED
    BY <2>1, <2>2, <2>3, <1>1, CountersKept DEF IInv
<1>5. CASE /\ IF Acceptable(id, level, va) THEN LeavesTables(id, level, va)
                                           ELSE UNCHANGED page_table_caps
           /\ UNCHANGED <<info, virt_page_caps, kernel>>
  <2>1. Pages'
    BY <1>1, <1>5, PagesUnchanged DEF IInv
  <2>2. PageTables'
    BY <1>1, <1>2, <1>3, <1>5, LeavesTablesKeeps DEF IInv, PageTables
  <2> QED
    BY <2>1, <2>2, <1>1, <1>5 DEF IInv, Counters
<1> QED
  BY <1>4, <1>5 DEF Vpmap

LEMMA VpremapKeeps ==
  ASSUME IInv, NEW dst \in Client, NEW c \in Cap, NEW arg \in VaArgs, Vpremap(dst, c, arg)
  PROVE  IInv'
<1> DEFINE src   == mapped[c][1]
           level == cap_level[c]
           va    == Place(dst, level, arg)
<1>1. dst \in Task /\ mapped[c] # Unmapped /\ held' \subseteq held
      /\ UNCHANGED <<status, server, grow>>
  BY TaskAssumption DEF Vpremap
<1>2. src \in Task /\ level \in Level
  BY <1>1 DEF IInv, Pages
<1>3. Acceptable(dst, level, va) => va \in Va
  BY DEF Acceptable, BelowStack
<1>4. CASE /\ Acceptable(dst, level, va)
           /\ page_table_caps' = page_table_caps \cup Tables(dst, level, va, NoLevel)
           /\ MovePage(c, src, mapped[c][2], dst, va)
           /\ info' = Charged(Brought(info, dst, PageSize[level]), src, -PageSize[level])
  <2>1. Pages'
    <3> HIDE DEF level, va
    <3> QED
      BY <1>1, <1>3, <1>4, MovePageKeepsPages DEF IInv
  <2>2. PageTables'
    BY <1>1, <1>2, <1>3, <1>4, TablesTyped DEF IInv, PageTables
  <2>3. Within(info') /\ SameStacks(info, info')
    <3> DEFINE f == Brought(info, dst, PageSize[level])
    <3>1. PageSize[level] \in Nat /\ PageSize[MaxPage] \in Nat /\ -PageSize[level] \in Int
      BY <1>2, TopLevel
    <3>2. Within(f) /\ SameStacks(info, f)
      BY <3>1, <1>1, BringWithin DEF IInv, Counters
    <3>3. info' = Charged(f, src, -PageSize[level])
      BY <1>4
    <3> HIDE DEF f
    <3>4. f[src].total_commit + (-PageSize[level]) <= f[src].total_available + PageSize[MaxPage]
      <4>1. /\ f[src].total_commit \in Int /\ f[src].total_available \in Int
            /\ f[src].total_commit <= f[src].total_available + PageSize[MaxPage]
        BY <3>2, <1>2 DEF Within, TaskInfo
      <4> QED
        BY <4>1, <3>1
    <3>5. Within(info') /\ SameStacks(f, info')
      BY <3>1, <3>2, <3>3, <3>4, <1>2, ChargeWithin
    <3> QED
      BY <3>2, <3>5 DEF SameStacks
  <2> QED
    BY <2>1, <2>2, <2>3, <1>1, CountersKept DEF IInv
<1>5. CASE /\ IF Acceptable(dst, level, va) THEN LeavesTables(dst, level, va)
                                            ELSE UNCHANGED page_table_caps
           /\ UNCHANGED <<info, virt_page_caps, kernel>>
  <2>1. Pages'
    BY <1>1, <1>5, PagesUnchanged DEF IInv
  <2>2. PageTables'
    BY <1>1, <1>2, <1>3, <1>5, LeavesTablesKeeps DEF IInv, PageTables
  <2> QED
    BY <2>1, <2>2, <1>1, <1>5 DEF IInv, Counters
<1> QED
  BY <1>4, <1>5 DEF Vpremap

LEMMA DetachKeeps ==
  ASSUME IInv, NEW id \in Client, Detach(id)
  PROVE  IInv'
<1>1. id \in Task /\ server = "ready"
  BY TaskAssumption DEF Detach, Ready
<1>2. Pages'
  <2>1. /\ virt_page_caps' = [virt_page_caps EXCEPT ![id] = [va \in Va |-> NoCap]]
        /\ status' \in [Task -> {"fresh", "attached", "orphan", "detached"}]
        /\ UNCHANGED <<kernel, held>>
    BY DEF Detach, IInv, Pages
  <2>2. virt_page_caps' \in [Task -> [Va -> Cap \cup {NoCap}]]
    BY <2>1, <1>1 DEF IInv, Pages
  <2>3. RegistryMatchesKernel'
    <3>1. \A t \in Task, w \in Va :
            virt_page_caps'[t][w] # NoCap => virt_page_caps'[t][w] = virt_page_caps[t][w]
      BY <2>1, <1>1 DEF IInv, Pages
    <3> QED
      BY <3>1, <2>1 DEF IInv, Pages, RegistryMatchesKernel, kernel
  <2> QED
    BY <2>1, <2>2, <2>3 DEF IInv, Pages, kernel
<1>3. PageTables'
  BY DEF Detach, IInv, PageTables
<1>4. Counters'
  <2>1. NoInfo \in TaskInfo /\ NoInfo.stack_commit = 0 /\ NoInfo.stack_available = 0
        /\ NoInfo.total_commit = 0 /\ NoInfo.total_available = 0
    BY DEF NoInfo, TaskInfo
  <2>2. PageSize[MaxPage] \in Nat
    BY TopLevel
  <2>3. info' = [info EXCEPT ![id] = NoInfo]
    BY DEF Detach
  <2>4. Within(info')
    BY <1>1, <2>1, <2>2, <2>3 DEF IInv, Counters, Within
  <2> QED
    BY <1>1, <2>4 DEF Detach, IInv, Counters
<1> QED
  BY <1>2, <1>3, <1>4 DEF IInv

LEMMA CreatePageKeeps ==
  ASSUME IInv, NEW c \in Cap, NEW level \in OwnLevels, CreatePage(c, level)
  PROVE  IInv'
<1>1. level \in Level /\ level # NoLevel
  BY SpaceAssumption, LevelAssumption DEF Level, NoLevel
<1>2. Pages'
  BY <1>1 DEF CreatePage, IInv, Pages, RegistryMatchesKernel
<1>3. PageTables' /\ Counters'
  BY DEF CreatePage, IInv, PageTables, Counters
<1> QED
  BY <1>2, <1>3 DEF IInv

-----------------------------------------------------------------------------
(* The theorems.                                                            *)

LEMMA InitHolds == Init => IInv
<1> SUFFICES ASSUME Init PROVE IInv
  OBVIOUS
<1>1. Pages
  <2>1. mapped \in [Cap -> (Task \X Va) \cup {Unmapped}]
    BY CapAssumption, TaskAssumption DEF Init
  <2>2. cap_level \in [Cap -> Level \cup {NoLevel}]
        /\ \A c \in Cap : mapped[c] # Unmapped \/ c \in held => cap_level[c] # NoLevel
    <3>1. 0 \in Level /\ 0 # NoLevel
      BY LevelAssumption DEF Level, NoLevel
    <3> QED
      BY <3>1, CapAssumption DEF Init
  <2> QED
    BY <2>1, <2>2, CapAssumption DEF Init, Pages, RegistryMatchesKernel
<1>2. PageTables
  <2>1. ASSUME NEW lv \in 0 .. MaxPage - 1, NEW c \in BootCap
        PROVE  <<InitTask, lv, TableBase(BootVa[c], lv)>> \in Task \X Level \X Nat
    <3>1. lv \in Level /\ lv + 1 \in Level /\ lv # MaxPage
      BY LevelAssumption DEF Level
    <3>2. BootVa[c] \in Nat
      BY CapAssumption, VaIsNat
    <3>3. TableBase(BootVa[c], lv) \in Nat
      BY <3>1, <3>2, LevelAssumption, RoundDownNat DEF TableBase
    <3> QED
      BY <3>1, <3>3, TaskAssumption
  <2> QED
    BY <2>1, TaskAssumption, TopLevel DEF Init, PageTables, BootTables
<1>3. Counters
  <2>1. Within(info)
    <3>1. PageSize[MaxPage] \in Nat
      BY TopLevel
    <3>2. info \in [Task -> TaskInfo]
      BY SpaceAssumption DEF Init, NoInfo, TaskInfo
    <3>3. ASSUME NEW t \in Task
          PROVE  /\ info[t].stack_commit <= info[t].stack_available
                 /\ info[t].total_commit <= info[t].total_available + PageSize[MaxPage]
      BY <3>1, SpaceAssumption DEF Init, NoInfo
    <3> QED
      BY <3>2, <3>3 DEF Within
  <2>2. grow \in GrowLocals /\ grow.size = SelfGrow /\ grow.id = Self
    BY SpaceAssumption, TaskAssumption, TopLevel DEF Init, GrowFrom, GrowLocals
  <2>3. info[Self].stack_commit = SelfStack /\ info[Self].stack_available = DefaultStack
    BY TaskAssumption DEF Init
  <2> QED
    BY <2>1, <2>2, <2>3, SpaceAssumption DEF Init, Counters
<1> QED
  BY <1>1, <1>2, <1>3 DEF IInv

LEMMA StepHolds == IInv /\ [Next]_vars => IInv'
<1> SUFFICES ASSUME IInv, [Next]_vars PROVE IInv'
  OBVIOUS
<1>1. CASE \E id \in Client, arg \in AttachArgs : Attach(id, arg)
  BY <1>1, AttachKeeps
<1>2. CASE Grow
  BY <1>2, GrowPageKeeps, GrowFailsKeeps, GrowDoneKeeps, GrowRestKeeps DEF Grow
<1>3. CASE \E id \in Client, level \in Level, arg \in VaArgs : Vmap(id, level, arg)
  BY <1>3, VmapKeeps
<1>4. CASE \E src, dst \in Client, sva \in Va, arg \in VaArgs : Vremap(src, dst, sva, arg)
  BY <1>4, VremapKeeps
<1>5. CASE \E id \in Client, c \in Cap, arg \in VaArgs : Vpmap(id, c, arg)
  BY <1>5, VpmapKeeps
<1>6. CASE \E dst \in Client, c \in Cap, arg \in VaArgs : Vpremap(dst, c, arg)
  BY <1>6, VpremapKeeps
<1>7. CASE \E id \in Client : Detach(id)
  BY <1>7, DetachKeeps
<1>8. CASE \E c \in Cap, level \in OwnLevels : CreatePage(c, level)
  BY <1>8, CreatePageKeeps
<1>9. CASE UNCHANGED vars
  <2>1. Pages' /\ PageTables'
    BY <1>9, PagesUnchanged DEF vars, IInv, PageTables
  <2> QED
    BY <1>9, <2>1 DEF vars, IInv, Counters
<1> QED
  BY <1>1, <1>2, <1>3, <1>4, <1>5, <1>6, <1>7, <1>8, <1>9 DEF Next

\* The invariant of the task table holds whatever attach, detach, map, unmap
\* and remap do, those that stop half way included.
THEOREM IInvHolds == Spec => []IInv
  BY InitHolds, StepHolds, PTL DEF Spec

\* Every state of the table is of its type, and no task has more of its
\* stack committed than the limit it was attached with: grow_stack commits
\* what attach has held against the limit, and the growth of mm's own stack
\* starts within the default.
THEOREM Typed == Spec => []TypeOK
<1>1. IInv => TypeOK
  BY DEF IInv, Pages, PageTables, Counters, Within, TypeOK
<1> QED
  BY <1>1, IInvHolds, PTL

\* A page is registered at most once, and where the kernel has it mapped:
\* map, vremap, vpmap and vpremap enter it for the task and address that
\* they map it to, and take it out of the map of the task it comes from.
THEOREM RegistryAgrees == Spec => []RegistryMatchesKernel
<1>1. IInv => RegistryMatchesKernel
  BY DEF IInv, Pages
<1> QED
  BY <1>1, IInvHolds, PTL

\* Whatever tasks ask for, and however often the growth of a stack stops
\* half way, a task is charged at most one page beyond its quota.
THEOREM QuotaHolds == Spec => []QuotaOvershoot
<1>1. IInv => QuotaOvershoot
  BY DEF IInv, Counters, Within, QuotaOvershoot
<1> QED
  BY <1>1, IInvHolds, PTL

-----------------------------------------------------------------------------
(* Rounding.                                                                *)

LEMMA Multiple ==
  ASSUME NEW x \in Nat, NEW a \in Nat \ {0}
  PROVE  x = a * (x \div a) + (x % a) /\ x % a \in 0 .. a - 1 /\ x \div a \in Nat
  OBVIOUS

LEMMA Whole ==
  ASSUME NEW x \in Nat, NEW a \in Nat \ {0}, x % a = 0
  PROVE  \E k \in Nat : x = k * a
<1>1. x = (x \div a) * a /\ x \div a \in Nat
  BY Multiple
<1> QED
  BY <1>1

LEMMA QuotientIs ==
  ASSUME NEW x \in Nat, NEW a \in Nat \ {0}, NEW k \in Nat, k * a <= x, x < k * a + a
  PROVE  x \div a = k
<1>1. PICK q \in Nat : q = x \div a /\ q * a <= x /\ x < q * a + a
  BY Multiple
<1>2. ASSUME NEW i \in Nat, NEW j \in Nat, i < j PROVE i * a + a <= j * a
  <2>1. i + 1 <= j
    BY <1>2
  <2>2. (i + 1) * a <= j * a
    BY <2>1
  <2> QED
    BY <2>2
<1>3. ~(q < k) /\ ~(k < q)
  BY <1>1, <1>2
<1> QED
  BY <1>1, <1>3

LEMMA Rounded ==
  ASSUME NEW x \in Nat, NEW a \in Nat \ {0}
  PROVE  /\ RoundDown(x, a) \in Nat /\ RoundDown(x, a) <= x /\ x < RoundDown(x, a) + a
         /\ RoundDown(x, a) % a = 0
         /\ x % a = 0 => RoundDown(x, a) = x
  BY Multiple DEF RoundDown

\* What is aligned and not further than a below x is x rounded down.
LEMMA RoundedIs ==
  ASSUME NEW x \in Nat, NEW a \in Nat \ {0}, NEW b \in Nat, b % a = 0, b <= x, x < b + a
  PROVE  RoundDown(x, a) = b
<1>1. PICK k \in Nat : b = k * a
  BY Whole
<1>2. x \div a = k
  BY <1>1, QuotientIs
<1> QED
  BY <1>1, <1>2 DEF RoundDown

\* A multiple of a multiple is one.
LEMMA MultipleOf ==
  ASSUME NEW x \in Nat, NEW a \in Nat \ {0}, NEW b \in Nat \ {0}, b % a = 0, x % b = 0
  PROVE  x % a = 0
<1>1. PICK j \in Nat : b = j * a
  BY Whole
<1>2. PICK k \in Nat : x = k * b
  BY Whole
<1>3. x = (k * j) * a
  BY <1>1, <1>2
<1>4. k * j \in Nat
  OBVIOUS
<1>5. x \div a = k * j
  BY <1>3, <1>4, QuotientIs
<1> DEFINE q == x \div a
           r == x % a
<1>6. x = a * q + r /\ r \in Nat /\ q = k * j
  BY <1>5, Multiple
<1>7. x = a * q
  BY <1>3, <1>6
<1> HIDE DEF q, r
<1>8. a * q \in Nat
  BY <1>7
<1>9. r = 0
  BY <1>6, <1>7, <1>8
<1> QED
  BY <1>9 DEF r

\* Rounding down twice.
LEMMA RoundedTwice ==
  ASSUME NEW x \in Nat, NEW a \in Nat \ {0}, NEW b \in Nat \ {0}, b % a = 0
  PROVE  RoundDown(RoundDown(x, a), b) = RoundDown(x, b)
<1> DEFINE y == RoundDown(x, a)
           z == RoundDown(x, b)
<1>1. y \in Nat /\ y <= x /\ z \in Nat /\ z <= x /\ x < z + b /\ z % b = 0
  BY Rounded
<1>2. z % a = 0
  BY <1>1, MultipleOf
<1>3. z <= y
  <2>1. PICK k \in Nat : z = k * a
    BY <1>1, <1>2, Whole
  <2>2. PICK q \in Nat : y = q * a /\ x < q * a + a
    BY Multiple, Rounded DEF RoundDown
  <2>3. CASE k <= q
    BY <2>1, <2>2, <2>3
  <2>4. CASE q + 1 <= k
    <3>1. (q + 1) * a <= k * a
      BY <2>4
    <3> QED
      BY <3>1, <2>1, <2>2, <1>1
  <2> QED
    BY <2>3, <2>4
<1>4. RoundDown(y, b) = z
  <2> HIDE DEF y, z
  <2> QED
    BY <1>1, <1>3, RoundedIs
<1> QED
  BY <1>4

-----------------------------------------------------------------------------
(* The invariant: where tables and pages are.                               *)

\* A page of this level at va has its tables above it, and no table in its
\* place.
InPlace(level, id, va, tables) ==
  /\ va % PageSize[level] = 0
  /\ \A lv \in level .. MaxPage - 1 : <<id, lv, TableBase(va, lv)>> \in tables
  /\ level > 0 => <<id, level - 1, va>> \notin tables

Hung(tables) ==
  \A c \in Cap, id \in Task, va \in Va :
    mapped[c] = <<id, va>> /\ InTable(id) => InPlace(cap_level[c], id, va, tables)

\* The tables of every attached task hang together, from its root.
Rooted(tables) ==
  /\ \A id \in Task : InTable(id) => <<id, MaxPage, 0>> \in tables
  /\ \A id \in Task, lv \in Level, b \in Nat : <<id, lv, b>> \in tables =>
       /\ InTable(id)
       /\ lv < MaxPage => <<id, lv + 1, TableBase(b, lv + 1)>> \in tables

\* No two pages are at one place.
Alone ==
  \A c, d \in Cap, id \in Task, va \in Va :
    InTable(id) /\ mapped[c] = <<id, va>> /\ mapped[d] = <<id, va>> => c = d

\* Pages are mapped for tasks that were attached, registered for those that
\* still are.
Attachments ==
  /\ \A id \in Task, va \in Va : virt_page_caps[id][va] # NoCap => InTable(id)
  /\ \A c \in Cap, id \in Task, va \in Va : mapped[c] = <<id, va>> => status[id] # "fresh"

Places == /\ Rooted(page_table_caps) /\ Hung(page_table_caps)
          /\ Alone /\ Attachments /\ NoStrayPage

\* What a walk may add to the tables.
Grafted(new) ==
  /\ new \subseteq Task \X Level \X Nat
  /\ \A id \in Task, lv \in Level, b \in Nat : <<id, lv, b>> \in new =>
       /\ InTable(id) /\ lv < MaxPage
       /\ <<id, lv + 1, TableBase(b, lv + 1)>> \in page_table_caps \cup new
       /\ \A c \in Cap : ~(mapped[c] = <<id, b>> /\ cap_level[c] = lv + 1)

-----------------------------------------------------------------------------
(* Walks.                                                                   *)

LEMMA LevelBelow ==
  ASSUME NEW level \in Level, NEW lv \in level .. MaxPage - 1
  PROVE  lv \in Level /\ lv + 1 \in Level /\ lv # MaxPage /\ lv < MaxPage
  BY LevelAssumption DEF Level

LEMMA BaseIs ==
  ASSUME NEW va \in Nat, NEW lv \in Level, lv < MaxPage
  PROVE  /\ TableBase(va, lv) = RoundDown(va, PageSize[lv + 1])
         /\ PageSize[lv + 1] \in Nat \ {0} /\ lv + 1 \in Level
         /\ TableBase(va, lv) \in Nat
<1>1. lv + 1 \in Level /\ lv # MaxPage
  BY LevelAssumption DEF Level
<1>2. PageSize[lv + 1] \in Nat \ {0}
  BY <1>1, LevelAssumption
<1> QED
  BY <1>1, <1>2, RoundDownNat DEF TableBase

\* The parent of a table covers what the table covers.
LEMMA BaseOfBase ==
  ASSUME NEW va \in Nat, NEW lv \in Level, lv < MaxPage
  PROVE  TableBase(TableBase(va, lv), lv + 1) = TableBase(va, lv + 1)
<1>1. CASE lv + 1 = MaxPage
  BY <1>1 DEF TableBase
<1>2. CASE lv + 1 # MaxPage
  <2>1. lv + 1 \in Level /\ lv + 1 < MaxPage /\ lv + 2 \in Level /\ lv + 1 <= lv + 2
    BY <1>2, LevelAssumption DEF Level
  <2>2. /\ PageSize[lv + 1] \in Nat \ {0} /\ PageSize[lv + 2] \in Nat \ {0}
        /\ PageSize[lv + 2] % PageSize[lv + 1] = 0
    BY <2>1, LevelAssumption, NestingAssumption
  <2>3. TableBase(va, lv) = RoundDown(va, PageSize[lv + 1]) /\ TableBase(va, lv) \in Nat
    BY BaseIs
  <2>4. \A x \in Nat : TableBase(x, lv + 1) = RoundDown(x, PageSize[lv + 2])
    <3>1. (lv + 1) + 1 = lv + 2
      BY LevelAssumption DEF Level
    <3> QED
      BY <3>1, <1>2 DEF TableBase
  <2> QED
    BY <2>2, <2>3, <2>4, RoundedTwice
<1> QED
  BY <1>1, <1>2

LEMMA WalkGrafts ==
  ASSUME NEW id \in Task, InTable(id), NEW level \in Level, NEW va \in Va, NEW stop,
         Rooted(page_table_caps), Walks(id, level, va, stop)
  PROVE  Grafted(Tables(id, level, va, stop))
<1> DEFINE new == Tables(id, level, va, stop)
<1>0. va \in Nat
  BY VaIsNat
<1>1. stop \in Int
  BY LevelAssumption DEF Walks, Missing, Level, NoLevel
<1>2. new \subseteq Task \X Level \X Nat
  BY TablesTyped
<1>3. ASSUME NEW i \in Task, NEW lv \in Level, NEW b \in Nat, <<i, lv, b>> \in new
      PROVE  /\ InTable(i) /\ lv < MaxPage
             /\ <<i, lv + 1, TableBase(b, lv + 1)>> \in page_table_caps \cup new
             /\ \A c \in Cap : ~(mapped[c] = <<i, b>> /\ cap_level[c] = lv + 1)
  <2>1. /\ i = id /\ b = TableBase(va, lv) /\ lv > stop
        /\ lv \in Missing(id, level, va)
    BY <1>3 DEF Tables
  <2>2. lv \in level .. MaxPage - 1 /\ lv < MaxPage /\ lv + 1 \in Level
    BY <2>1, LevelBelow DEF Missing
  <2>3. TableBase(b, lv + 1) = TableBase(va, lv + 1)
    BY <2>1, <2>2, <1>0, BaseOfBase
  <2>4. <<id, lv + 1, TableBase(va, lv + 1)>> \in page_table_caps \cup new
    <3>1. CASE lv + 1 = MaxPage
      BY <3>1 DEF Rooted, TableBase
    <3>2. CASE lv + 1 # MaxPage
      <4>1. lv + 1 \in level .. MaxPage - 1 /\ lv + 1 > stop
        BY <3>2, <2>1, <2>2, <1>1, LevelAssumption DEF Level
      <4> QED
        BY <4>1 DEF Missing, Tables
    <3> QED
      BY <3>1, <3>2
  <2>5. ~SlotOccupied(id, lv + 1, va)
    BY <2>1 DEF Walks
  <2>6. b = RoundDown(va, PageSize[lv + 1])
    BY <2>1, <2>2, <1>0, BaseIs
  <2> QED
    BY <2>1, <2>2, <2>3, <2>4, <2>5, <2>6 DEF SlotOccupied
<1> HIDE DEF new
<1>4. Grafted(new)
  BY <1>2, <1>3 DEF Grafted
<1> QED
  BY <1>4 DEF new

\* A walk that reaches its level leaves no table missing.
LEMMA WalkReaches ==
  ASSUME NEW id \in Task, NEW level \in Level, NEW va \in Va,
         NEW lv \in level .. MaxPage - 1
  PROVE  <<id, lv, TableBase(va, lv)>> \in page_table_caps \cup Tables(id, level, va, NoLevel)
<1>1. lv > NoLevel
  BY LevelAssumption DEF Level, NoLevel
<1> QED
  BY <1>1 DEF Tables, Missing

LEMMA GraftUnion ==
  ASSUME NEW S, NEW T, Grafted(S), Grafted(T)
  PROVE  Grafted(S \cup T)
  BY DEF Grafted

LEMMA GraftHolds ==
  ASSUME Pages, NEW new, Grafted(new), Rooted(page_table_caps), Hung(page_table_caps)
  PROVE  Rooted(page_table_caps \cup new) /\ Hung(page_table_caps \cup new)
<1>1. Rooted(page_table_caps \cup new)
  BY DEF Rooted, Grafted
<1>2. ASSUME NEW c \in Cap, NEW id \in Task, NEW va \in Va,
             mapped[c] = <<id, va>>, InTable(id)
      PROVE  InPlace(cap_level[c], id, va, page_table_caps \cup new)
  <2>1. cap_level[c] \in Level
    BY <1>2, PlaceIsNotUnmapped DEF Pages
  <2>2. InPlace(cap_level[c], id, va, page_table_caps)
    BY <1>2 DEF Hung
  <2>3. cap_level[c] > 0 => <<id, cap_level[c] - 1, va>> \notin new
    <3> SUFFICES ASSUME cap_level[c] > 0, <<id, cap_level[c] - 1, va>> \in new PROVE FALSE
      OBVIOUS
    <3>1. cap_level[c] - 1 \in Level /\ (cap_level[c] - 1) + 1 = cap_level[c] /\ va \in Nat
      BY <2>1, LevelAssumption, VaIsNat DEF Level
    <3> QED
      BY <3>1, <1>2 DEF Grafted
  <2> QED
    BY <2>2, <2>3 DEF InPlace
<1> QED
  BY <1>1, <1>2 DEF Hung

-----------------------------------------------------------------------------
(* What steps do to the places.                                             *)

\* The tasks in the table are the same.
SameTasks == \A t \in Task : /\ status'[t] \in {"attached", "orphan"} <=> InTable(t)
                             /\ status'[t] = "fresh" <=> status[t] = "fresh"

\* A step that adds tables and nothing else.
LEMMA TablesGrow ==
  ASSUME Pages, Places, SameTasks, NEW new, Grafted(new),
         page_table_caps' = page_table_caps \cup new,
         UNCHANGED <<virt_page_caps, cap_level, mapped>>
  PROVE  Places'
<1>1. Rooted(page_table_caps') /\ Hung(page_table_caps')
  BY GraftHolds DEF Places
<1>2. \A t \in Task : InTable(t)' <=> InTable(t)
  BY DEF SameTasks, InTable
<1>3. Rooted(page_table_caps)'
  BY <1>1, <1>2 DEF Rooted
<1>4. Hung(page_table_caps)'
  BY <1>1, <1>2 DEF Hung
<1>5. Alone' /\ NoStrayPage'
  BY <1>2 DEF Places, Alone, NoStrayPage
<1>6. Attachments'
  BY <1>2 DEF Places, Attachments, SameTasks
<1> QED
  BY <1>3, <1>4, <1>5, <1>6 DEF Places

\* Where a walk ends and the kernel has nothing in the slot, no page of any
\* level is mapped.
LEMMA SlotIsFree ==
  ASSUME Pages, NEW tables, Hung(tables), page_table_caps \subseteq tables,
         NEW id \in Task, InTable(id), NEW level \in Level, NEW va \in Va,
         InPlace(level, id, va, tables), ~SlotOccupied(id, level, va),
         NEW c \in Cap
  PROVE  mapped[c] # <<id, va>>
<1> SUFFICES ASSUME mapped[c] = <<id, va>> PROVE FALSE
  OBVIOUS
<1>0. va \in Nat /\ \A l \in Level : PageSize[l] \in Nat \ {0} /\ l \in Nat
  BY VaIsNat, LevelAssumption DEF Level
<1> DEFINE l == cap_level[c]
<1>1. l \in Level /\ InPlace(l, id, va, tables)
  BY PlaceIsNotUnmapped DEF Pages, Hung
<1>2. RoundDown(va, PageSize[level]) = va
  BY <1>0, Rounded DEF InPlace
<1>3. CASE l = level
  BY <1>2, <1>3 DEF SlotOccupied
<1>4. ASSUME NEW m \in Level, NEW n \in Level, m < n,
             InPlace(m, id, va, tables), InPlace(n, id, va, tables)
      PROVE  FALSE
  <2>1. n - 1 \in m .. MaxPage - 1 /\ n - 1 \in Level /\ n - 1 < MaxPage /\ (n - 1) + 1 = n /\ n > 0
    BY <1>4, LevelAssumption DEF Level
  <2>2. TableBase(va, n - 1) = RoundDown(va, PageSize[n])
    BY <2>1, <1>0, BaseIs
  <2>3. RoundDown(va, PageSize[n]) = va
    BY <1>0, <1>4, Rounded DEF InPlace
  <2> QED
    BY <2>1, <2>2, <2>3, <1>4 DEF InPlace
<1>5. l = level \/ l < level \/ level < l
  BY <1>0, <1>1
<1> HIDE DEF l
<1> QED
  BY <1>1, <1>3, <1>4, <1>5

\* Page c is put at va of task id: the registry and the kernel enter it
\* there, and take it from where it was, if it was mapped.
Put(c, id, va, level) ==
  /\ mapped' = [mapped EXCEPT ![c] = <<id, va>>]
  /\ cap_level' \in [Cap -> Level \cup {NoLevel}]
  /\ cap_level'[c] = level
  /\ \A d \in Cap \ {c} : cap_level'[d] = cap_level[d]
  /\ virt_page_caps'[id][va] = c
  /\ \A t \in Task, w \in Va : ~(t = id /\ w = va) =>
       virt_page_caps'[t][w] = IF mapped[c] = <<t, w>> THEN NoCap ELSE virt_page_caps[t][w]

LEMMA PutKeepsPlaces ==
  ASSUME Pages, Places, UNCHANGED status,
         NEW c \in Cap, NEW id \in Task, InTable(id), NEW va \in Va, NEW level \in Level,
         NEW new, Grafted(new), page_table_caps' = page_table_caps \cup new,
         InPlace(level, id, va, page_table_caps'), ~SlotOccupied(id, level, va),
         Put(c, id, va, level)
  PROVE  Places'
<1>1. Rooted(page_table_caps') /\ Hung(page_table_caps')
  BY GraftHolds DEF Places
<1>2. \A t \in Task : InTable(t)' <=> InTable(t)
  BY DEF InTable
<1>3. \A d \in Cap : mapped[d] # <<id, va>>
  BY <1>1, SlotIsFree
<1>4. mapped'[c] = <<id, va>> /\ \A d \in Cap \ {c} : mapped'[d] = mapped[d]
  BY DEF Put, Pages
<1>5. Rooted(page_table_caps)'
  BY <1>1, <1>2 DEF Rooted
<1>6. Hung(page_table_caps)'
  <2> SUFFICES ASSUME NEW d \in Cap, NEW t \in Task, NEW w \in Va,
                      mapped'[d] = <<t, w>>, InTable(t)
               PROVE  InPlace(cap_level'[d], t, w, page_table_caps')
    BY <1>2 DEF Hung, InPlace
  <2>1. CASE d = c
    BY <2>1, <1>4 DEF Put
  <2>2. CASE d # c
    BY <2>2, <1>1, <1>4 DEF Put, Hung
  <2> QED
    BY <2>1, <2>2
<1>7. Alone'
  <2> SUFFICES ASSUME NEW d \in Cap, NEW e \in Cap, NEW t \in Task, NEW w \in Va,
                      InTable(t), mapped'[d] = <<t, w>>, mapped'[e] = <<t, w>>
               PROVE  d = e
    BY <1>2 DEF Alone
  <2> QED
    BY <1>3, <1>4 DEF Places, Alone
<1>8. Attachments'
  <2>1. ASSUME NEW t \in Task, NEW w \in Va, virt_page_caps'[t][w] # NoCap
        PROVE  InTable(t)'
    <3>1. CASE t = id /\ w = va
      BY <3>1, <1>2
    <3>2. CASE ~(t = id /\ w = va)
      BY <3>2, <2>1, <1>2 DEF Put, Places, Attachments
    <3> QED
      BY <3>1, <3>2
  <2>2. status[id] # "fresh"
    BY DEF InTable
  <2>3. ASSUME NEW d \in Cap, NEW t \in Task, NEW w \in Va, mapped'[d] = <<t, w>>
        PROVE  status'[t] # "fresh"
    <3>1. CASE d = c
      BY <3>1, <2>2, <2>3, <1>4
    <3>2. CASE d # c
      BY <3>2, <2>3, <1>4 DEF Places, Attachments
    <3> QED
      BY <3>1, <3>2
  <2> QED
    BY <2>1, <2>3 DEF Attachments
<1>9. NoStrayPage'
  <2> SUFFICES ASSUME NEW d \in Cap, NEW t \in Task, NEW w \in Va,
                      mapped'[d] = <<t, w>>, InTable(t)
               PROVE  \/ virt_page_caps'[t][w] = d
                      \/ d \in BootCap /\ t = InitTask /\ w = BootVa[d]
    BY <1>2 DEF NoStrayPage
  <2>1. CASE d = c
    BY <2>1, <1>4 DEF Put
  <2>2. CASE d # c
    <3>1. mapped[d] = <<t, w>> /\ ~(t = id /\ w = va)
      BY <2>2, <1>3, <1>4
    <3>2. mapped[c] # <<t, w>>
      BY <3>1, <2>2 DEF Places, Alone
    <3>3. virt_page_caps'[t][w] = virt_page_caps[t][w]
      BY <3>1, <3>2 DEF Put
    <3> QED
      BY <3>1, <3>3 DEF Places, NoStrayPage
  <2> QED
    BY <2>1, <2>2
<1> QED
  BY <1>5, <1>6, <1>7, <1>8, <1>9 DEF Places

\* The three ways in which a page gets its place.
LEMMA NewPagePuts ==
  ASSUME Pages, NEW id \in Task, NEW va \in Va, NEW level \in Level, NewPage(id, level, va)
  PROVE  \E c \in Cap : Put(c, id, va, level) /\ mapped[c] = Unmapped
<1>1. PICK c \in Cap :
        /\ cap_level[c] = NoLevel
        /\ cap_level' = [cap_level EXCEPT ![c] = level]
        /\ mapped' = [mapped EXCEPT ![c] = <<id, va>>]
        /\ virt_page_caps' = [virt_page_caps EXCEPT ![id][va] = c]
  BY DEF NewPage
<1>2. mapped[c] = Unmapped
  BY <1>1 DEF Pages
<1>3. \A t \in Task, w \in Va : mapped[c] # <<t, w>>
  BY <1>2, PlaceIsNotUnmapped
<1>4. cap_level' \in [Cap -> Level \cup {NoLevel}] /\ cap_level'[c] = level
      /\ \A d \in Cap \ {c} : cap_level'[d] = cap_level[d]
  BY <1>1 DEF Pages
<1>5. virt_page_caps'[id][va] = c
      /\ \A t \in Task, w \in Va : ~(t = id /\ w = va) =>
           virt_page_caps'[t][w] = virt_page_caps[t][w]
  BY <1>1 DEF Pages
<1>6. Put(c, id, va, level)
  BY <1>1, <1>3, <1>4, <1>5 DEF Put
<1> QED
  BY <1>2, <1>6

LEMMA MovePagePuts ==
  ASSUME Pages, NEW c \in Cap, NEW src \in Task, NEW sva \in Va, mapped[c] = <<src, sva>>,
         NEW id \in Task, NEW va \in Va, ~(src = id /\ sva = va),
         MovePage(c, src, sva, id, va)
  PROVE  Put(c, id, va, cap_level[c])
<1>1. /\ virt_page_caps' = [virt_page_caps EXCEPT ![id][va] = c, ![src][sva] = NoCap]
      /\ mapped' = [mapped EXCEPT ![c] = <<id, va>>]
      /\ cap_level' = cap_level
  BY DEF MovePage
<1>2. virt_page_caps'[id][va] = c
  BY <1>1 DEF Pages
<1>3. ASSUME NEW t \in Task, NEW w \in Va, ~(t = id /\ w = va)
      PROVE  virt_page_caps'[t][w] = IF mapped[c] = <<t, w>> THEN NoCap ELSE virt_page_caps[t][w]
  <2>1. CASE t = src /\ w = sva
    BY <2>1, <1>1 DEF Pages
  <2>2. CASE ~(t = src /\ w = sva)
    BY <2>2, <1>1, <1>3 DEF Pages
  <2> QED
    BY <2>1, <2>2
<1> QED
  BY <1>1, <1>2, <1>3 DEF Put, Pages

LEMMA BroughtPagePuts ==
  ASSUME Pages, NEW c \in Cap, mapped[c] = Unmapped, NEW id \in Task, NEW va \in Va,
         virt_page_caps' = [virt_page_caps EXCEPT ![id][va] = c],
         mapped' = [mapped EXCEPT ![c] = <<id, va>>],
         UNCHANGED cap_level
  PROVE  Put(c, id, va, cap_level[c])
<1>1. \A t \in Task, w \in Va : mapped[c] # <<t, w>>
  BY PlaceIsNotUnmapped
<1>2. virt_page_caps'[id][va] = c
      /\ \A t \in Task, w \in Va : ~(t = id /\ w = va) =>
           virt_page_caps'[t][w] = virt_page_caps[t][w]
  BY DEF Pages
<1> QED
  BY <1>1, <1>2 DEF Put, Pages

-----------------------------------------------------------------------------
(* The actions.                                                             *)

\* mm is always attached, and so is the task whose stack it grows, which is
\* its own only without data.
Serving ==
  /\ InTable(Self)
  /\ server = "growing" => status[grow.id] = "attached" /\ (grow.data => grow.id # Self)

PInv == IInv /\ Places /\ Serving

\* A walk adds tables of its task alone, none of them below its level.
LEMMA WalkStays ==
  ASSUME NEW id, NEW level \in Level, NEW va, NEW stop,
         NEW t, NEW l, NEW w, <<t, l, w>> \in Tables(id, level, va, stop)
  PROVE  t = id /\ l # level - 1
<1>1. PICK lv \in level .. MaxPage - 1 : t = id /\ l = lv
  BY DEF Tables, Missing
<1> QED
  BY <1>1, LevelAssumption DEF Level

LEMMA MapPagePlaces ==
  ASSUME IInv, Places, NEW id \in Task, InTable(id), NEW level \in Level, NEW va \in Va,
         va % PageSize[level] = 0, MapPage(id, level, va), UNCHANGED status
  PROVE  Places'
<1> DEFINE new == Tables(id, level, va, NoLevel)
<1>1. Grafted(new) /\ page_table_caps' = page_table_caps \cup new
  BY WalkGrafts DEF MapPage, Places
<1>2. level > 0 => <<id, level - 1, va>> \notin page_table_caps \cup new
  <2>1. RoundDown(va, PageSize[level]) = va
    BY VaIsNat, LevelAssumption, Rounded
  <2>2. <<id, level - 1, va>> \notin new
    BY WalkStays
  <2> QED
    BY <2>1, <2>2 DEF MapPage, SlotOccupied
<1>3. InPlace(level, id, va, page_table_caps')
  BY <1>1, <1>2, WalkReaches DEF InPlace
<1>4. PICK c \in Cap : Put(c, id, va, level)
  BY NewPagePuts DEF MapPage, IInv
<1> HIDE DEF new
<1> QED
  BY <1>1, <1>3, <1>4, PutKeepsPlaces DEF MapPage, IInv

LEMMA MapDataPlaces ==
  ASSUME IInv, Places, InTable(Self), NEW id \in Task, InTable(id), id # Self,
         NEW level \in Level, NEW va \in Va,
         va % PageSize[level] = 0, MapData(id, level, va), UNCHANGED status
  PROVE  Places'
<1> DEFINE own  == RandomVa(Self, level)
           here == Tables(id, level, va, NoLevel)
           mine == Tables(Self, level, own, NoLevel)
           new  == here \cup mine
<1>1. Self \in Task /\ own \in Va
  BY TaskAssumption DEF MapData, BelowStack
<1>2. Grafted(here) /\ Grafted(mine)
  BY <1>1, WalkGrafts DEF MapData, Places
<1>3. Grafted(new)
  BY <1>2, GraftUnion
<1>4. page_table_caps' = page_table_caps \cup new
  BY DEF MapData
<1>5. level > 0 => <<id, level - 1, va>> \notin page_table_caps \cup new
  <2>1. RoundDown(va, PageSize[level]) = va
    BY VaIsNat, LevelAssumption, Rounded
  <2>2. <<id, level - 1, va>> \notin here /\ <<id, level - 1, va>> \notin mine
    BY WalkStays
  <2> QED
    BY <2>1, <2>2 DEF MapData, SlotOccupied
<1>6. InPlace(level, id, va, page_table_caps')
  BY <1>4, <1>5, WalkReaches DEF InPlace
<1>7. PICK c \in Cap : Put(c, id, va, level)
  BY NewPagePuts DEF MapData, IInv
<1>8. ~SlotOccupied(id, level, va)
  BY DEF MapData
<1> HIDE DEF new
<1> QED
  BY <1>3, <1>4, <1>6, <1>7, <1>8, PutKeepsPlaces DEF IInv

LEMMA LeavesTablesPlaces ==
  ASSUME IInv, Places, SameTasks, NEW id \in Task, InTable(id), NEW level \in Level, NEW va \in Va,
         LeavesTables(id, level, va), UNCHANGED <<virt_page_caps, kernel>>
  PROVE  Places'
<1>1. PICK stop : /\ Walks(id, level, va, stop)
                  /\ page_table_caps' = page_table_caps \cup Tables(id, level, va, stop)
  BY DEF LeavesTables
<1>2. Grafted(Tables(id, level, va, stop))
  BY <1>1, WalkGrafts DEF Places
<1> QED
  BY <1>1, <1>2, TablesGrow DEF IInv, kernel

LEMMA PlacesUnchanged ==
  ASSUME Pages, Places, SameTasks, UNCHANGED <<page_table_caps, virt_page_caps, kernel>>
  PROVE  Places'
<1>1. Grafted({}) /\ page_table_caps' = page_table_caps \cup {}
  BY DEF Grafted
<1> QED
  BY <1>1, TablesGrow DEF kernel

LEMMA MapFailsPlaces ==
  ASSUME IInv, Places, SameTasks, NEW id \in Task, InTable(id), NEW level \in Level, NEW va \in Va,
         MapFails(id, level, va)
  PROVE  Places'
<1>1. CASE UNCHANGED page_table_caps
  BY <1>1, PlacesUnchanged DEF MapFails, IInv
<1>2. CASE LeavesTables(id, level, va)
  BY <1>2, LeavesTablesPlaces DEF MapFails
<1> QED
  BY <1>1, <1>2 DEF MapFails, LeavesTables

LEMMA MapDataFailsPlaces ==
  ASSUME IInv, Places, SameTasks, InTable(Self), NEW id \in Task, InTable(id),
         NEW level \in Level, NEW va \in Va, MapDataFails(id, level, va)
  PROVE  Places'
<1> DEFINE own == RandomVa(Self, level)
<1>1. Self \in Task /\ own \in Va
  BY TaskAssumption DEF MapDataFails, BelowStack
<1>2. PICK stop : /\ Walks(Self, level, own, stop)
                  /\ page_table_caps' = (page_table_caps \cup Tables(id, level, va, NoLevel))
                                          \cup Tables(Self, level, own, stop)
  BY DEF MapDataFails
<1>3. Grafted(Tables(id, level, va, NoLevel)) /\ Grafted(Tables(Self, level, own, stop))
  BY <1>1, <1>2, WalkGrafts DEF MapDataFails, Places
<1> DEFINE new == Tables(id, level, va, NoLevel) \cup Tables(Self, level, own, stop)
<1>4. Grafted(new) /\ page_table_caps' = page_table_caps \cup new
  BY <1>2, <1>3, GraftUnion
<1> HIDE DEF new
<1> QED
  BY <1>4, TablesGrow DEF MapDataFails, IInv, kernel

-----------------------------------------------------------------------------

LEMMA SameTasksUnchanged == UNCHANGED status => SameTasks
  BY DEF SameTasks, InTable

\* attach: a task that had no page and no table gets its root.
LEMMA AttachPlaces ==
  ASSUME IInv, Places, NEW id \in Client, NEW arg \in AttachArgs, Attach(id, arg)
  PROVE  Places'
<1>1. /\ id \in Task /\ status[id] = "fresh"
      /\ page_table_caps' = page_table_caps \cup {<<id, MaxPage, 0>>}
      /\ UNCHANGED <<virt_page_caps, mapped, cap_level>>
  BY TaskAssumption DEF Attach, kernel
<1>2. /\ InTable(id)' /\ status'[id] # "fresh"
      /\ \A t \in Task \ {id} : status'[t] = status[t]
  BY <1>1 DEF Attach, Attached, InTable, IInv, Pages
<1>3. \A t \in Task : InTable(t)' <=> InTable(t) \/ t = id
  BY <1>1, <1>2 DEF InTable
<1>4. \A c \in Cap, va \in Va : mapped[c] # <<id, va>>
  BY <1>1 DEF Places, Attachments
<1>5. Rooted(page_table_caps)'
  <2>1. ASSUME NEW t \in Task, InTable(t)' PROVE <<t, MaxPage, 0>> \in page_table_caps'
    BY <2>1, <1>1, <1>3 DEF Places, Rooted
  <2>2. ASSUME NEW t \in Task, NEW lv \in Level, NEW b \in Nat, <<t, lv, b>> \in page_table_caps'
        PROVE  /\ InTable(t)'
               /\ lv < MaxPage => <<t, lv + 1, TableBase(b, lv + 1)>> \in page_table_caps'
    <3>1. CASE <<t, lv, b>> \in page_table_caps
      <4>1. InTable(t) /\ (lv < MaxPage => <<t, lv + 1, TableBase(b, lv + 1)>> \in page_table_caps)
        BY <3>1 DEF Places, Rooted
      <4> QED
        BY <4>1, <1>1, <1>3
    <3>2. CASE <<t, lv, b>> = <<id, MaxPage, 0>>
      BY <3>2, <1>2, LevelAssumption
    <3> QED
      BY <3>1, <3>2, <2>2, <1>1
  <2> QED
    BY <2>1, <2>2 DEF Rooted
<1>6. Hung(page_table_caps)'
  <2> SUFFICES ASSUME NEW c \in Cap, NEW t \in Task, NEW va \in Va,
                      mapped[c] = <<t, va>>, InTable(t)
               PROVE  InPlace(cap_level[c], t, va, page_table_caps')
    BY <1>1, <1>3, <1>4 DEF Hung, InPlace
  <2>1. t # id
    BY <1>4
  <2> QED
    BY <1>1, <2>1 DEF Places, Hung, InPlace
<1>7. Alone' /\ NoStrayPage'
  BY <1>1, <1>3, <1>4 DEF Places, Alone, NoStrayPage
<1>8. Attachments'
  BY <1>1, <1>2, <1>3 DEF Places, Attachments
<1> QED
  BY <1>5, <1>6, <1>7, <1>8 DEF Places

\* detach: the table forgets the task altogether.
LEMMA DetachPlaces ==
  ASSUME IInv, Places, NEW id \in Client, Detach(id)
  PROVE  Places'
<1>1. /\ id \in Task
      /\ page_table_caps' = {t \in page_table_caps : t[1] # id}
      /\ virt_page_caps' = [virt_page_caps EXCEPT ![id] = [va \in Va |-> NoCap]]
      /\ UNCHANGED <<mapped, cap_level>>
  BY TaskAssumption DEF Detach, kernel
<1>2. \A t \in Task : /\ InTable(t)' <=> InTable(t) /\ t # id
                      /\ status'[t] = "fresh" => status[t] = "fresh"
  BY <1>1 DEF Detach, InTable, IInv, Pages
<1>3. \A t \in Task, va \in Va :
        virt_page_caps'[t][va] = IF t = id THEN NoCap ELSE virt_page_caps[t][va]
  BY <1>1 DEF IInv, Pages
<1>4. \A t \in Task : \A lv, b : <<t, lv, b>> \in page_table_caps' <=>
                                  <<t, lv, b>> \in page_table_caps /\ t # id
  BY <1>1
<1>5. Rooted(page_table_caps)'
  <2>1. ASSUME NEW t \in Task, InTable(t)' PROVE <<t, MaxPage, 0>> \in page_table_caps'
    BY <2>1, <1>2, <1>4 DEF Places, Rooted
  <2>2. ASSUME NEW t \in Task, NEW lv \in Level, NEW b \in Nat, <<t, lv, b>> \in page_table_caps'
        PROVE  /\ InTable(t)'
               /\ lv < MaxPage => <<t, lv + 1, TableBase(b, lv + 1)>> \in page_table_caps'
    <3>1. <<t, lv, b>> \in page_table_caps /\ t # id
      BY <2>2, <1>4
    <3>2. InTable(t) /\ (lv < MaxPage => <<t, lv + 1, TableBase(b, lv + 1)>> \in page_table_caps)
      BY <3>1 DEF Places, Rooted
    <3> QED
      BY <3>1, <3>2, <1>2, <1>4
  <2> QED
    BY <2>1, <2>2 DEF Rooted
<1>6. Hung(page_table_caps)'
  BY <1>1, <1>2, <1>4 DEF Places, Hung, InPlace
<1>7. Alone' /\ NoStrayPage'
  BY <1>1, <1>2, <1>3 DEF Places, Alone, NoStrayPage
<1>8. Attachments'
  BY <1>1, <1>2, <1>3 DEF Places, Attachments
<1> QED
  BY <1>5, <1>6, <1>7, <1>8 DEF Places

\* The growth of a stack.
LEMMA GrowPlaces ==
  ASSUME PInv, Grow
  PROVE  Places'
<1>1. grow.id \in Task /\ InTable(grow.id)
  BY GrowIsTyped DEF Grow, GrowRound, GrowDone, GrowPage, GrowAsserts, GrowFails,
                     PInv, IInv, Serving, InTable
<1>2. CASE GrowRound \/ \E level \in Level : GrowAsserts(level)
  BY <1>2, SameTasksUnchanged, PlacesUnchanged DEF GrowRound, GrowAsserts, PInv, IInv
<1>3. ASSUME UNCHANGED status \/ Attached(grow.id) PROVE SameTasks
  BY <1>1, <1>3 DEF SameTasks, InTable, Attached, PInv, IInv, Pages
<1>4. CASE GrowDone
  BY <1>3, <1>4, PlacesUnchanged DEF GrowDone, Grown, PInv, IInv
<1>5. ASSUME NEW level \in Level, GrowPage(level) PROVE Places'
  <2>1. grow.start \in Va /\ grow.start % PageSize[level] = 0 /\ UNCHANGED status
    BY <1>5 DEF GrowPage, InSpace
  <2>2. CASE grow.data /\ MapData(grow.id, level, grow.start)
    BY <1>1, <1>5, <2>1, <2>2, MapDataPlaces DEF GrowPage, PInv, Serving
  <2>3. CASE MapPage(grow.id, level, grow.start)
    BY <1>1, <2>1, <2>3, MapPagePlaces DEF PInv
  <2> QED
    BY <1>5, <2>2, <2>3 DEF GrowPage
<1>6. ASSUME NEW level \in Level, GrowFails(level) PROVE Places'
  <2>1. grow.start \in Va /\ SameTasks
    BY <1>3, <1>6 DEF GrowFails, InSpace
  <2> QED
    BY <1>1, <1>6, <2>1, MapFailsPlaces, MapDataFailsPlaces DEF GrowFails, PInv, Serving
<1> QED
  BY <1>2, <1>4, <1>5, <1>6 DEF Grow

LEMMA VmapPlaces ==
  ASSUME PInv, NEW id \in Client, NEW level \in Level, NEW arg \in VaArgs,
         Vmap(id, level, arg)
  PROVE  Places'
<1> DEFINE va == Place(id, level, arg)
<1>1. id \in Task /\ InTable(id) /\ SameTasks /\ UNCHANGED status
  BY TaskAssumption, SameTasksUnchanged DEF Vmap, Ready, InTable
<1>2. va \in Va /\ va % PageSize[level] = 0 /\ (MapPage(id, level, va) \/ MapFails(id, level, va))
  BY DEF Vmap, BelowStack
<1> HIDE DEF va
<1> QED
  BY <1>1, <1>2, MapPagePlaces, MapFailsPlaces DEF PInv

\* The walk to the new place, and the page put there.
LEMMA PutAfterWalk ==
  ASSUME IInv, Places, NEW id \in Task, InTable(id), NEW level \in Level, NEW va \in Va,
         va % PageSize[level] = 0, UNCHANGED status,
         Walks(id, level, va, NoLevel), ~SlotOccupied(id, level, va),
         page_table_caps' = page_table_caps \cup Tables(id, level, va, NoLevel),
         NEW c \in Cap, Put(c, id, va, level)
  PROVE  Places'
<1> DEFINE new == Tables(id, level, va, NoLevel)
<1>1. Grafted(new)
  BY WalkGrafts DEF Places
<1>2. level > 0 => <<id, level - 1, va>> \notin page_table_caps \cup new
  <2>1. RoundDown(va, PageSize[level]) = va
    BY VaIsNat, LevelAssumption, Rounded
  <2>2. <<id, level - 1, va>> \notin new
    BY WalkStays
  <2> QED
    BY <2>1, <2>2 DEF SlotOccupied
<1>3. InPlace(level, id, va, page_table_caps')
  BY <1>2, WalkReaches DEF InPlace
<1> HIDE DEF new
<1> QED
  BY <1>1, <1>3, PutKeepsPlaces DEF IInv, new

LEMMA VremapPlaces ==
  ASSUME PInv, NEW src \in Client, NEW dst \in Client, NEW sva \in Va, NEW arg \in VaArgs,
         Vremap(src, dst, sva, arg)
  PROVE  Places'
<1> DEFINE c     == virt_page_caps[src][sva]
           level == cap_level[c]
           va    == Place(dst, level, arg)
<1>1. src \in Task /\ dst \in Task /\ InTable(dst) /\ SameTasks /\ UNCHANGED status
  BY TaskAssumption, SameTasksUnchanged DEF Vremap, Ready, InTable
<1>2. c \in Cap /\ mapped[c] = <<src, sva>> /\ level \in Level
  <2>1. c \in Cap /\ mapped[c] = <<src, sva>>
    BY <1>1 DEF Vremap, PInv, IInv, Pages, RegistryMatchesKernel
  <2> QED
    BY <2>1, PlaceIsNotUnmapped DEF PInv, IInv, Pages
<1>3. \/ UNCHANGED <<page_table_caps, virt_page_caps, kernel>>
      \/ /\ InSpace(level, va) /\ Mappable(dst, level, va)
         /\ \/ /\ Walks(dst, level, va, NoLevel) /\ ~SlotOccupied(dst, level, va)
               /\ page_table_caps' = page_table_caps \cup Tables(dst, level, va, NoLevel)
               /\ MovePage(c, src, sva, dst, va)
            \/ LeavesTables(dst, level, va) /\ UNCHANGED <<virt_page_caps, kernel>>
  BY DEF Vremap
<1>4. InSpace(level, va) => va \in Va /\ va % PageSize[level] = 0
  BY DEF InSpace
<1>5. ~(src = dst /\ sva = va) \/ ~Mappable(dst, level, va)
  BY DEF Vremap, Mappable
<1> HIDE DEF c, level, va
<1>6. CASE UNCHANGED <<page_table_caps, virt_page_caps, kernel>>
  BY <1>1, <1>6, PlacesUnchanged DEF PInv, IInv
<1>7. CASE InSpace(level, va) /\ LeavesTables(dst, level, va) /\ UNCHANGED <<virt_page_caps, kernel>>
  BY <1>1, <1>2, <1>4, <1>7, LeavesTablesPlaces DEF PInv
<1>8. CASE /\ InSpace(level, va) /\ Mappable(dst, level, va)
           /\ Walks(dst, level, va, NoLevel) /\ ~SlotOccupied(dst, level, va)
           /\ page_table_caps' = page_table_caps \cup Tables(dst, level, va, NoLevel)
           /\ MovePage(c, src, sva, dst, va)
  <2>1. Put(c, dst, va, level)
    BY <1>1, <1>2, <1>4, <1>5, <1>8, MovePagePuts DEF PInv, IInv, level
  <2> QED
    BY <2>1, <1>1, <1>2, <1>4, <1>8, PutAfterWalk DEF PInv
<1> QED
  BY <1>3, <1>6, <1>7, <1>8

LEMMA VpmapPlaces ==
  ASSUME PInv, NEW id \in Client, NEW c \in Cap, NEW arg \in VaArgs, Vpmap(id, c, arg)
  PROVE  Places'
<1> DEFINE level == cap_level[c]
           va    == Place(id, level, arg)
<1>1. /\ id \in Task /\ InTable(id) /\ SameTasks /\ UNCHANGED status
      /\ mapped[c] = Unmapped /\ level \in Level
  BY TaskAssumption, SameTasksUnchanged DEF Vpmap, Ready, InTable, PInv, IInv, Pages
<1>2. Acceptable(id, level, va) => va \in Va /\ va % PageSize[level] = 0
  BY DEF Acceptable, BelowStack
<1>3. \/ /\ Acceptable(id, level, va)
         /\ Walks(id, level, va, NoLevel) /\ ~SlotOccupied(id, level, va)
         /\ page_table_caps' = page_table_caps \cup Tables(id, level, va, NoLevel)
         /\ virt_page_caps' = [virt_page_caps EXCEPT ![id][va] = c]
         /\ mapped' = [mapped EXCEPT ![c] = <<id, va>>]
         /\ UNCHANGED cap_level
      \/ Acceptable(id, level, va) /\ LeavesTables(id, level, va) /\ UNCHANGED <<virt_page_caps, kernel>>
      \/ UNCHANGED <<page_table_caps, virt_page_caps, kernel>>
  BY DEF Vpmap
<1> HIDE DEF level, va
<1>4. CASE UNCHANGED <<page_table_caps, virt_page_caps, kernel>>
  BY <1>1, <1>4, PlacesUnchanged DEF PInv, IInv
<1>5. CASE Acceptable(id, level, va) /\ LeavesTables(id, level, va) /\ UNCHANGED <<virt_page_caps, kernel>>
  BY <1>1, <1>2, <1>5, LeavesTablesPlaces DEF PInv
<1>6. CASE /\ Acceptable(id, level, va)
           /\ Walks(id, level, va, NoLevel) /\ ~SlotOccupied(id, level, va)
           /\ page_table_caps' = page_table_caps \cup Tables(id, level, va, NoLevel)
           /\ virt_page_caps' = [virt_page_caps EXCEPT ![id][va] = c]
           /\ mapped' = [mapped EXCEPT ![c] = <<id, va>>]
           /\ UNCHANGED cap_level
  <2>1. Put(c, id, va, level)
    BY <1>1, <1>2, <1>6, BroughtPagePuts DEF PInv, IInv, level
  <2> QED
    BY <2>1, <1>1, <1>2, <1>6, PutAfterWalk DEF PInv
<1> QED
  BY <1>3, <1>4, <1>5, <1>6

\* A page that is brought while it is mapped, for a task that may be another.
LEMMA VpremapPlaces ==
  ASSUME PInv, NEW dst \in Client, NEW c \in Cap, NEW arg \in VaArgs, Vpremap(dst, c, arg)
  PROVE  Places'
<1> DEFINE level == cap_level[c]
           va    == Place(dst, level, arg)
<1>1. /\ dst \in Task /\ InTable(dst) /\ SameTasks /\ UNCHANGED status
      /\ mapped[c] # Unmapped /\ level \in Level
  BY TaskAssumption, SameTasksUnchanged DEF Vpremap, Ready, InTable, PInv, IInv, Pages
<1>2. PICK src \in Task, sva \in Va : mapped[c] = <<src, sva>>
  BY <1>1 DEF PInv, IInv, Pages
<1>3. Acceptable(dst, level, va) => va \in Va /\ va % PageSize[level] = 0
  BY DEF Acceptable, BelowStack
<1>4. \/ /\ Acceptable(dst, level, va)
         /\ Walks(dst, level, va, NoLevel) /\ ~SlotOccupied(dst, level, va)
         /\ page_table_caps' = page_table_caps \cup Tables(dst, level, va, NoLevel)
         /\ MovePage(c, src, sva, dst, va)
      \/ Acceptable(dst, level, va) /\ LeavesTables(dst, level, va) /\ UNCHANGED <<virt_page_caps, kernel>>
      \/ UNCHANGED <<page_table_caps, virt_page_caps, kernel>>
  BY <1>2 DEF Vpremap
<1> HIDE DEF level, va
<1>5. CASE UNCHANGED <<page_table_caps, virt_page_caps, kernel>>
  BY <1>1, <1>5, PlacesUnchanged DEF PInv, IInv
<1>6. CASE Acceptable(dst, level, va) /\ LeavesTables(dst, level, va) /\ UNCHANGED <<virt_page_caps, kernel>>
  BY <1>1, <1>3, <1>6, LeavesTablesPlaces DEF PInv
<1>7. CASE /\ Acceptable(dst, level, va)
           /\ Walks(dst, level, va, NoLevel) /\ ~SlotOccupied(dst, level, va)
           /\ page_table_caps' = page_table_caps \cup Tables(dst, level, va, NoLevel)
           /\ MovePage(c, src, sva, dst, va)
  <2>1. ~(src = dst /\ sva = va)
    <3>1. va \in Nat /\ RoundDown(va, PageSize[level]) = va
      BY <1>1, <1>3, <1>7, VaIsNat, LevelAssumption, Rounded
    <3> QED
      BY <3>1, <1>2, <1>7 DEF SlotOccupied, level
  <2>2. Put(c, dst, va, level)
    BY <1>1, <1>2, <1>3, <1>7, <2>1, MovePagePuts DEF PInv, IInv, level
  <2> QED
    BY <2>2, <1>1, <1>3, <1>7, PutAfterWalk DEF PInv
<1> QED
  BY <1>4, <1>5, <1>6, <1>7

\* A page object that nobody has mapped yet.
LEMMA CreatePagePlaces ==
  ASSUME PInv, NEW c \in Cap, NEW level \in OwnLevels, CreatePage(c, level)
  PROVE  Places'
<1>1. /\ cap_level[c] = NoLevel /\ cap_level' = [cap_level EXCEPT ![c] = level]
      /\ UNCHANGED <<status, page_table_caps, virt_page_caps, mapped>>
  BY DEF CreatePage
<1>2. \A d \in Cap : mapped[d] # Unmapped => cap_level'[d] = cap_level[d]
  BY <1>1 DEF PInv, IInv, Pages
<1>3. Hung(page_table_caps)'
  <2> SUFFICES ASSUME NEW d \in Cap, NEW t \in Task, NEW w \in Va,
                      mapped[d] = <<t, w>>, InTable(t)
               PROVE  InPlace(cap_level'[d], t, w, page_table_caps)
    BY <1>1 DEF Hung, InPlace, InTable
  <2>1. cap_level'[d] = cap_level[d]
    BY <1>2, PlaceIsNotUnmapped
  <2> QED
    BY <2>1 DEF PInv, Places, Hung
<1>4. Rooted(page_table_caps)' /\ Alone' /\ Attachments' /\ NoStrayPage'
  BY <1>1 DEF PInv, Places, Rooted, Alone, Attachments, NoStrayPage, InTable
<1> QED
  BY <1>3, <1>4 DEF Places

LEMMA ServingKept ==
  ASSUME PInv, [Next]_vars
  PROVE  Serving'
<1>0. Self \in Task /\ Self \notin Client /\ Client \subseteq Task
  BY TaskAssumption
<1>1. ASSUME NEW id \in Client, NEW arg \in AttachArgs, Attach(id, arg) PROVE Serving'
  <2>1. /\ status[id] = "fresh" /\ id # Self /\ id \in Task
        /\ \/ /\ grow' = GrowFrom(id, UserEnd, arg.stack_commit, arg.data)
              /\ status' = [status EXCEPT ![id] = "attached"]
           \/ /\ server' = "ready"
              /\ \E set \in BOOLEAN :
                   status' = [status EXCEPT ![id] = IF set THEN "attached" ELSE "orphan"]
    BY <1>0, <1>1 DEF Attach, Attached
  <2> QED
    BY <2>1, <1>0 DEF PInv, Serving, InTable, IInv, Pages, GrowFrom
<1>2. CASE Grow
  <2>1. grow.id \in Task
    BY GrowIsTyped DEF PInv, IInv
  <2>2. CASE GrowRound
    <3>1. server' = server /\ UNCHANGED status
          /\ grow'.id = grow.id /\ grow'.data = grow.data
      BY <2>2 DEF GrowRound, PInv, IInv, Counters, GrowLocals
    <3> QED
      BY <3>1 DEF PInv, Serving, InTable
  <2>3. ASSUME NEW level \in Level, GrowPage(level) PROVE Serving'
    <3>1. server' = server /\ UNCHANGED status
          /\ grow'.id = grow.id /\ grow'.data = grow.data
      BY <2>3 DEF GrowPage, PInv, IInv, Counters, GrowLocals
    <3> QED
      BY <3>1 DEF PInv, Serving, InTable
  <2>4. ASSUME NEW level \in Level, GrowAsserts(level) PROVE Serving'
    BY <2>4 DEF GrowAsserts, PInv, Serving, InTable
  <2>5. ASSUME GrowDone \/ \E level \in Level : GrowFails(level) PROVE Serving'
    <3>1. /\ server' # "growing"
          /\ UNCHANGED status \/ (grow.id # Self /\ Attached(grow.id))
      BY <2>5 DEF GrowDone, Grown, GrowFails, Attached
    <3>2. status'[Self] = status[Self]
      BY <3>1, <2>1, <1>0 DEF Attached, PInv, IInv, Pages
    <3> QED
      BY <3>1, <3>2 DEF PInv, Serving, InTable
  <2> QED
    BY <1>2, <2>2, <2>3, <2>4, <2>5 DEF Grow
<1>3. ASSUME UNCHANGED status, server = "ready", server' # "growing" PROVE Serving'
  BY <1>3 DEF PInv, Serving, InTable
<1>4. CASE \E id \in Client, level \in Level, arg \in VaArgs : Vmap(id, level, arg)
  BY <1>3, <1>4 DEF Vmap, Ready
<1>5. CASE \E src, dst \in Client, sva \in Va, arg \in VaArgs : Vremap(src, dst, sva, arg)
  BY <1>3, <1>5 DEF Vremap, Ready
<1>6. CASE \E id \in Client, c \in Cap, arg \in VaArgs : Vpmap(id, c, arg)
  BY <1>3, <1>6 DEF Vpmap, Ready
<1>7. CASE \E dst \in Client, c \in Cap, arg \in VaArgs : Vpremap(dst, c, arg)
  BY <1>3, <1>7 DEF Vpremap, Ready
<1>8. ASSUME NEW id \in Client, Detach(id) PROVE Serving'
  BY <1>0, <1>8 DEF Detach, Ready, PInv, Serving, InTable, IInv, Pages
<1>9. CASE \E c \in Cap, level \in OwnLevels : CreatePage(c, level)
  BY <1>3, <1>9 DEF CreatePage
<1>10. CASE UNCHANGED vars
  BY <1>10 DEF vars, PInv, Serving, InTable
<1> QED
  BY <1>1, <1>2, <1>4, <1>5, <1>6, <1>7, <1>8, <1>9, <1>10 DEF Next

LEMMA PlacesKept ==
  ASSUME PInv, [Next]_vars
  PROVE  Places'
<1>1. CASE \E id \in Client, arg \in AttachArgs : Attach(id, arg)
  BY <1>1, AttachPlaces DEF PInv
<1>2. CASE Grow
  BY <1>2, GrowPlaces
<1>3. CASE \E id \in Client, level \in Level, arg \in VaArgs : Vmap(id, level, arg)
  BY <1>3, VmapPlaces
<1>4. CASE \E src, dst \in Client, sva \in Va, arg \in VaArgs : Vremap(src, dst, sva, arg)
  BY <1>4, VremapPlaces
<1>5. CASE \E id \in Client, c \in Cap, arg \in VaArgs : Vpmap(id, c, arg)
  BY <1>5, VpmapPlaces
<1>6. CASE \E dst \in Client, c \in Cap, arg \in VaArgs : Vpremap(dst, c, arg)
  BY <1>6, VpremapPlaces
<1>7. CASE \E id \in Client : Detach(id)
  BY <1>7, DetachPlaces DEF PInv
<1>8. CASE \E c \in Cap, level \in OwnLevels : CreatePage(c, level)
  BY <1>8, CreatePagePlaces
<1>9. CASE UNCHANGED vars
  BY <1>9, SameTasksUnchanged, PlacesUnchanged DEF vars, PInv, IInv
<1> QED
  BY <1>1, <1>2, <1>3, <1>4, <1>5, <1>6, <1>7, <1>8, <1>9 DEF Next

LEMMA PlacesInit == Init => Places /\ Serving
<1> SUFFICES ASSUME Init PROVE Places /\ Serving
  OBVIOUS
<1>0. Self \in Task /\ InitTask \in Task
  BY TaskAssumption
<1>1. InTable(Self) /\ InTable(InitTask) /\ \A t \in Task : InTable(t) => t \in {Self, InitTask}
  BY <1>0 DEF Init, InTable
<1>2. ASSUME NEW c \in Cap, NEW id \in Task, NEW va \in Va, mapped[c] = <<id, va>>
      PROVE  c \in BootCap /\ id = InitTask /\ va = BootVa[c] /\ cap_level[c] = 0
  BY <1>2, PlaceIsNotUnmapped, CapAssumption DEF Init
<1>3. Rooted(page_table_caps)
  <2>1. ASSUME NEW id \in Task, NEW lv \in Level, NEW b \in Nat, <<id, lv, b>> \in page_table_caps
        PROVE  /\ InTable(id)
               /\ lv < MaxPage => <<id, lv + 1, TableBase(b, lv + 1)>> \in page_table_caps
    <3>1. CASE <<id, lv, b>> \in {<<Self, MaxPage, 0>>, <<InitTask, MaxPage, 0>>}
      BY <3>1, <1>1, LevelAssumption
    <3>2. CASE \E c \in BootCap : id = InitTask /\ lv \in 0 .. MaxPage - 1 /\ b = TableBase(BootVa[c], lv)
      <4>1. PICK c \in BootCap : id = InitTask /\ lv \in 0 .. MaxPage - 1 /\ b = TableBase(BootVa[c], lv)
        BY <3>2
      <4>2. BootVa[c] \in Nat /\ lv < MaxPage
        <5>1. BootVa[c] \in Nat
          BY CapAssumption, VaIsNat
        <5>2. lv < MaxPage
          BY <4>1, LevelAssumption
        <5> QED
          BY <5>1, <5>2
      <4>3. TableBase(b, lv + 1) = TableBase(BootVa[c], lv + 1)
        BY <4>1, <4>2, BaseOfBase
      <4>4. CASE lv + 1 = MaxPage
        BY <4>1, <4>3, <4>4, <1>1 DEF Init, BootTables, TableBase
      <4>5. CASE lv + 1 # MaxPage
        <5>1. lv + 1 \in 0 .. MaxPage - 1
          BY <4>1, <4>5, LevelAssumption
        <5> QED
          BY <5>1, <4>1, <4>3, <1>1 DEF Init, BootTables
      <4> QED
        BY <4>4, <4>5
    <3> QED
      BY <3>1, <3>2, <2>1 DEF Init, BootTables
  <2> QED
    BY <2>1, <1>1 DEF Rooted, Init, BootTables
<1>4. Hung(page_table_caps)
  <2> SUFFICES ASSUME NEW c \in Cap, NEW id \in Task, NEW va \in Va, mapped[c] = <<id, va>>
               PROVE  InPlace(0, id, va, page_table_caps)
    BY <1>2 DEF Hung
  <2>1. c \in BootCap /\ id = InitTask /\ va = BootVa[c]
    BY <1>2
  <2>2. va % PageSize[0] = 0
    BY NestingAssumption, VaIsNat
  <2>3. \A lv \in 0 .. MaxPage - 1 : <<id, lv, TableBase(va, lv)>> \in page_table_caps
    BY <2>1 DEF Init, BootTables
  <2> QED
    BY <2>2, <2>3 DEF InPlace
<1>5. Alone
  BY <1>2, CapAssumption DEF Alone
<1>6. Attachments
  BY <1>0, <1>2 DEF Attachments, Init
<1>7. NoStrayPage
  BY <1>2 DEF NoStrayPage
<1>8. Serving
  BY <1>0, <1>1 DEF Serving, Init, GrowFrom
<1> QED
  BY <1>3, <1>4, <1>5, <1>6, <1>7, <1>8 DEF Places

\* The invariant of the page tables holds whatever calls mm serves, walks that
\* fail half way and tasks that are detached while others map included.
THEOREM PInvHolds == Spec => []PInv
<1>1. Init => PInv
  BY InitHolds, PlacesInit DEF PInv
<1>2. PInv /\ [Next]_vars => PInv'
  BY StepHolds, PlacesKept, ServingKept DEF PInv
<1> QED
  BY <1>1, <1>2, PTL DEF Spec

\* mm loses no page: what the kernel has mapped for an attached task is
\* registered with mm, or is one of init's own from before mm ran.
THEOREM NoPageStray == Spec => []NoStrayPage
<1>1. PInv => NoStrayPage
  BY DEF PInv, Places
<1> QED
  BY <1>1, PInvHolds, PTL

\* The tables of a task hang together from its root, and those above a
\* registered page are all there: walk never misses a parent, however often
\* a walk has failed half way.
THEOREM PagesReachable == Spec => []ReachablePages
<1>1. ASSUME PInv PROVE ReachablePages
  <2>1. ASSUME NEW id \in Task, NEW va \in Va, virt_page_caps[id][va] # NoCap
        PROVE  Missing(id, cap_level[virt_page_caps[id][va]], va) = {}
    <3>1. /\ InTable(id) /\ virt_page_caps[id][va] \in Cap
          /\ mapped[virt_page_caps[id][va]] = <<id, va>>
      BY <1>1, <2>1 DEF PInv, IInv, Pages, RegistryMatchesKernel, Places, Attachments
    <3>2. InPlace(cap_level[virt_page_caps[id][va]], id, va, page_table_caps)
      BY <1>1, <3>1 DEF PInv, Places, Hung
    <3> QED
      BY <3>2 DEF InPlace, Missing
  <2>2. ASSUME NEW t \in page_table_caps, t[2] < MaxPage
        PROVE  <<t[1], t[2] + 1, TableBase(t[3], t[2] + 1)>> \in page_table_caps
    <3>1. PICK id \in Task, lv \in Level, b \in Nat : t = <<id, lv, b>>
      BY <1>1 DEF PInv, IInv, PageTables
    <3> QED
      BY <1>1, <2>2, <3>1 DEF PInv, Places, Rooted
  <2> QED
    BY <2>1, <2>2 DEF ReachablePages
<1> QED
  BY <1>1, PInvHolds, PTL

\* No two pages registered for one task overlap.  A page that reached into
\* a larger one would need a table in the larger one's place; a larger one
\* that began inside a page would not be aligned to that page, which its own
\* alignment implies.
THEOREM PagesApart == Spec => []NoOverlap
<1>1. ASSUME PInv, NEW id \in Task, NEW va \in Va, NEW wa \in Va,
             virt_page_caps[id][va] # NoCap, virt_page_caps[id][wa] # NoCap, va < wa
      PROVE  va + PageSize[cap_level[virt_page_caps[id][va]]] <= wa
  <2>1. PICK c \in Cap, d \in Cap : c = virt_page_caps[id][va] /\ d = virt_page_caps[id][wa]
    BY <1>1 DEF PInv, IInv, Pages
  <2>2. InTable(id) /\ mapped[c] = <<id, va>> /\ mapped[d] = <<id, wa>>
    BY <1>1, <2>1 DEF PInv, IInv, Pages, RegistryMatchesKernel, Places, Attachments
  <2>3. PICK l \in Level, m \in Level : l = cap_level[c] /\ m = cap_level[d]
    BY <1>1, <2>2, PlaceIsNotUnmapped DEF PInv, IInv, Pages
  <2>4. InPlace(l, id, va, page_table_caps) /\ InPlace(m, id, wa, page_table_caps)
    BY <1>1, <2>2, <2>3 DEF PInv, Places, Hung
  <2>5. /\ va \in Nat /\ wa \in Nat /\ l \in Nat /\ m \in Nat
        /\ PageSize[l] \in Nat \ {0} /\ PageSize[m] \in Nat \ {0}
    BY VaIsNat, LevelAssumption DEF Level
  <2> SUFFICES ASSUME wa < va + PageSize[l] PROVE FALSE
    BY <2>1, <2>3, <2>5
  <2>6. RoundDown(wa, PageSize[l]) = va
    BY <1>1, <2>4, <2>5, RoundedIs DEF InPlace
  <2>7. CASE m < l
    <3>1. l - 1 \in m .. MaxPage - 1 /\ l - 1 \in Level /\ l - 1 < MaxPage /\ (l - 1) + 1 = l /\ l > 0
      BY <2>5, <2>7, LevelAssumption DEF Level
    <3>2. TableBase(wa, l - 1) = va
      BY <2>5, <2>6, <3>1, BaseIs
    <3> QED
      BY <2>4, <3>1, <3>2 DEF InPlace
  <2>8. CASE l <= m
    <3>1. wa % PageSize[l] = 0
      BY <2>4, <2>5, <2>8, NestingAssumption, MultipleOf DEF InPlace
    <3>2. RoundDown(wa, PageSize[l]) = wa
      BY <2>5, <3>1, Rounded
    <3> QED
      BY <1>1, <2>5, <2>6, <3>2
  <2> QED
    BY <2>5, <2>7, <2>8
<1>2. PInv => NoOverlap
  BY <1>1 DEF NoOverlap
<1> QED
  BY <1>2, PInvHolds, PTL

-----------------------------------------------------------------------------
(* The stack of a task.                                                     *)

\* Pages that begin there cover the addresses of a task between from and to.
Covered(id, from, to) ==
  \A a \in Va : from <= a /\ a < to =>
    \E va \in Va : /\ virt_page_caps[id][va] # NoCap
                   /\ from <= va /\ va <= a
                   /\ a < va + PageSize[cap_level[virt_page_caps[id][va]]]

Backed ==
  \A id \in Client \ {InitTask} : InTable(id) => Covered(id, UserEnd - info[id].stack_commit, UserEnd)

\* Of the pages in the hands of clients none is registered, and only those
\* of init from before mm ran are mapped, so no page of another task's stack
\* can be brought to vpremap.
HeldPages ==
  /\ \A c \in held, id \in Task, va \in Va : mapped[c] = <<id, va>> => id = InitTask
  /\ \A id \in Task, va \in Va : virt_page_caps[id][va] \notin held
  /\ status[InitTask] # "fresh"

\* The stack of a client is grown upwards to the end of its space.
Climbing ==
  server = "growing" /\ grow.id # Self =>
    /\ info[grow.id].stack_commit = 0
    /\ grow.end = UserEnd
    /\ grow.start >= UserEnd - grow.size
    /\ Covered(grow.id, UserEnd - grow.size, grow.start)

SInv == PInv /\ Backed /\ HeldPages /\ Climbing

\* No page from address low of a task on is taken from it.
Undisturbed(id, low) ==
  \A va \in Va : low <= va /\ virt_page_caps[id][va] # NoCap =>
    /\ virt_page_caps'[id][va] # NoCap
    /\ cap_level'[virt_page_caps'[id][va]] = cap_level[virt_page_caps[id][va]]

LEMMA CoveredStays ==
  ASSUME NEW id \in Task, NEW from \in Int, NEW to \in Int, NEW low \in Int, low <= from,
         Undisturbed(id, low), Covered(id, from, to)
  PROVE  Covered(id, from, to)'
<1> SUFFICES ASSUME NEW a \in Va, from <= a, a < to
             PROVE  \E va \in Va : /\ virt_page_caps'[id][va] # NoCap
                                   /\ from <= va /\ va <= a
                                   /\ a < va + PageSize[cap_level'[virt_page_caps'[id][va]]]
  BY DEF Covered
<1>1. PICK va \in Va : /\ virt_page_caps[id][va] # NoCap
                       /\ from <= va /\ va <= a
                       /\ a < va + PageSize[cap_level[virt_page_caps[id][va]]]
  BY DEF Covered
<1>2. va \in Nat /\ low <= va
  BY <1>1, VaIsNat
<1>3. /\ virt_page_caps'[id][va] # NoCap
      /\ cap_level'[virt_page_caps'[id][va]] = cap_level[virt_page_caps[id][va]]
  BY <1>1, <1>2 DEF Undisturbed
<1> QED
  BY <1>1, <1>3

\* A page put where nothing was registered takes only the page that moved.
LEMMA PutDisturbs ==
  ASSUME Pages, NEW c \in Cap, NEW id \in Task, NEW va \in Va, NEW level \in Level,
         virt_page_caps[id][va] = NoCap, Put(c, id, va, level),
         mapped[c] = Unmapped \/ level = cap_level[c],
         NEW t \in Task, NEW low \in Int,
         \A w \in Va : mapped[c] = <<t, w>> => w < low
  PROVE  Undisturbed(t, low)
<1> SUFFICES ASSUME NEW w \in Va, low <= w, virt_page_caps[t][w] # NoCap
             PROVE  /\ virt_page_caps'[t][w] = virt_page_caps[t][w]
                    /\ cap_level'[virt_page_caps[t][w]] = cap_level[virt_page_caps[t][w]]
                    /\ virt_page_caps'[t][w] # NoCap
  BY DEF Undisturbed
<1>1. ~(t = id /\ w = va)
  OBVIOUS
<1>2. mapped[c] # <<t, w>>
  BY VaIsNat
<1>3. virt_page_caps'[t][w] = virt_page_caps[t][w]
  BY <1>1, <1>2 DEF Put
<1>4. virt_page_caps[t][w] \in Cap /\ mapped[virt_page_caps[t][w]] = <<t, w>>
  BY DEF Pages, RegistryMatchesKernel
<1>5. virt_page_caps[t][w] # c
  BY <1>2, <1>4
<1> QED
  BY <1>3, <1>4, <1>5 DEF Put

LEMMA NothingDisturbed ==
  ASSUME UNCHANGED <<virt_page_caps, cap_level>>, NEW t, NEW low
  PROVE  Undisturbed(t, low)
  BY DEF Undisturbed

\* The pages of every stack stay where they are.
StacksStay == \A t \in Client \ {InitTask} :
                InTable(t) => Undisturbed(t, UserEnd - info[t].stack_commit)

LEMMA StackTyped ==
  ASSUME IInv, NEW t \in Task
  PROVE  /\ info[t].stack_commit \in Nat /\ info[t].stack_available \in Nat
         /\ info[t].stack_commit <= info[t].stack_available
         /\ UserEnd \in Int /\ UserEnd - info[t].stack_commit \in Int
         /\ UserEnd - info[t].stack_available \in Int
<1>1. info[t] \in TaskInfo /\ info[t].stack_commit <= info[t].stack_available
  BY DEF IInv, Counters, Within
<1> QED
  BY <1>1, SpaceAssumption DEF TaskInfo

LEMMA BackedKept ==
  ASSUME IInv, Backed, SameTasks, SameStacks(info, info'), StacksStay
  PROVE  Backed'
<1> SUFFICES ASSUME NEW t \in Client \ {InitTask}, InTable(t)
             PROVE  Covered(t, UserEnd - info[t].stack_commit, UserEnd)'
  <2>1. ASSUME NEW t \in Client \ {InitTask}, InTable(t)' PROVE InTable(t)
    BY <2>1, TaskAssumption DEF SameTasks, InTable
  <2> QED
    BY <2>1 DEF Backed
<1>1. t \in Task /\ info'[t].stack_commit = info[t].stack_commit
  BY TaskAssumption DEF SameStacks
<1>2. PICK low \in Int : low = UserEnd - info[t].stack_commit
  BY <1>1, StackTyped
<1>3. Covered(t, low, UserEnd) /\ Undisturbed(t, low) /\ UserEnd \in Int /\ low <= low
  BY <1>2, SpaceAssumption DEF Backed, StacksStay
<1>4. Covered(t, low, UserEnd)'
  BY <1>1, <1>3, CoveredStays
<1> QED
  BY <1>1, <1>2, <1>4 DEF Covered

\* What is newly registered is not held any more.
NewlyTaken == \A t \in Task, w \in Va : \/ virt_page_caps'[t][w] = virt_page_caps[t][w]
                                      \/ virt_page_caps'[t][w] \notin held'

LEMMA HeldPagesKept ==
  ASSUME HeldPages, status'[InitTask] # "fresh", held' \subseteq held, NewlyTaken,
         \A d \in held' : mapped'[d] = mapped[d]
  PROVE  HeldPages'
  BY DEF HeldPages, NewlyTaken

\* A new page is put where nothing was, and comes from nowhere.
LEMMA NewPageDisturbs ==
  ASSUME Pages, NEW id \in Task, NEW va \in Va, NEW level \in Level,
         virt_page_caps[id][va] = NoCap, NewPage(id, level, va), UNCHANGED held
  PROVE  /\ \A t \in Task, low \in Int : Undisturbed(t, low)
         /\ NewlyTaken
         /\ \A d \in held : mapped'[d] = mapped[d]
         /\ virt_page_caps'[id][va] # NoCap /\ cap_level'[virt_page_caps'[id][va]] = level
<1>1. PICK c \in Cap :
        /\ cap_level[c] = NoLevel
        /\ cap_level' = [cap_level EXCEPT ![c] = level]
        /\ mapped' = [mapped EXCEPT ![c] = <<id, va>>]
        /\ virt_page_caps' = [virt_page_caps EXCEPT ![id][va] = c]
  BY DEF NewPage
<1>2. c \notin held
  BY <1>1 DEF Pages
<1>3. virt_page_caps'[id][va] = c /\ cap_level'[c] = level /\ c # NoCap
  BY <1>1, CapAssumption DEF Pages
<1>4. ASSUME NEW t \in Task, NEW low \in Int PROVE Undisturbed(t, low)
  <2> SUFFICES ASSUME NEW w \in Va, virt_page_caps[t][w] # NoCap
               PROVE  /\ virt_page_caps'[t][w] # NoCap
                      /\ cap_level'[virt_page_caps'[t][w]] = cap_level[virt_page_caps[t][w]]
    BY DEF Undisturbed
  <2>1. virt_page_caps'[t][w] = virt_page_caps[t][w]
    BY <1>1 DEF Pages
  <2>2. virt_page_caps[t][w] \in Cap /\ cap_level[virt_page_caps[t][w]] # NoLevel
    <3>1. virt_page_caps[t][w] \in Cap /\ mapped[virt_page_caps[t][w]] = <<t, w>>
      BY DEF Pages, RegistryMatchesKernel
    <3> QED
      BY <3>1, PlaceIsNotUnmapped DEF Pages
  <2> QED
    BY <1>1, <2>1, <2>2 DEF Pages
<1>5. NewlyTaken
  BY <1>1, <1>2 DEF NewlyTaken, Pages
<1> QED
  BY <1>1, <1>2, <1>3, <1>4, <1>5 DEF Pages

LEMMA GrowPageStacks ==
  ASSUME SInv, NEW level \in Level, GrowPage(level)
  PROVE  Backed' /\ HeldPages' /\ Climbing'
<1>1. grow.id \in Task /\ grow.start \in Va /\ UNCHANGED <<status, held>>
  BY GrowIsTyped DEF SInv, PInv, IInv, GrowPage, InSpace
<1>2. virt_page_caps[grow.id][grow.start] = NoCap /\ NewPage(grow.id, level, grow.start)
  BY DEF GrowPage, MapPage, MapData, Mappable
<1>3. /\ \A t \in Task, low \in Int : Undisturbed(t, low)
      /\ \A d \in held : mapped'[d] = mapped[d]
      /\ NewlyTaken
      /\ virt_page_caps'[grow.id][grow.start] # NoCap
      /\ cap_level'[virt_page_caps'[grow.id][grow.start]] = level
  BY <1>1, <1>2, NewPageDisturbs DEF SInv, PInv, IInv
<1>4. SameStacks(info, info')
  BY <1>1, MapPageKeeps, MapDataKeeps DEF GrowPage, SInv, PInv, Kept
<1>5. Backed'
  <2>1. StacksStay
    BY <1>3, StackTyped, TaskAssumption DEF StacksStay, SInv, PInv
  <2> QED
    BY <1>1, <1>4, <2>1, SameTasksUnchanged, BackedKept DEF SInv, PInv
<1>6. HeldPages'
  BY <1>1, <1>3, HeldPagesKept DEF SInv, HeldPages
<1>7. Climbing'
  <2>1. PICK id, start, size : id = grow.id /\ start = grow.start /\ size = grow.size
    OBVIOUS
  <2>2. /\ grow'.id = id /\ grow'.end = grow.end /\ grow'.size = size
        /\ grow'.start = start + PageSize[level]
    BY <2>1 DEF GrowPage, SInv, PInv, IInv, Counters, GrowLocals
  <2>3. /\ id \in Task /\ start \in Nat /\ PageSize[level] \in Nat
        /\ UserEnd - size \in Int /\ UserEnd \in Int
    BY <1>1, <2>1, VaIsNat, TopLevel, SpaceAssumption DEF SInv, PInv, IInv, Counters, GrowLocals
  <2> SUFFICES ASSUME id # Self
               PROVE  /\ info'[id].stack_commit = 0
                      /\ grow'.end = UserEnd
                      /\ grow'.start >= UserEnd - size
                      /\ Covered(id, UserEnd - size, start + PageSize[level])'
    BY <2>1, <2>2 DEF Climbing, Covered
  <2>4. /\ info[id].stack_commit = 0 /\ grow.end = UserEnd /\ start >= UserEnd - size
        /\ Covered(id, UserEnd - size, start)
    BY <2>1 DEF SInv, Climbing, GrowPage
  <2>5. Covered(id, UserEnd - size, start)'
    <3> DEFINE low == UserEnd - size
    <3>1. low \in Int /\ low <= low /\ start \in Int /\ Covered(id, low, start)
      BY <2>3, <2>4
    <3>2. Undisturbed(id, low)
      BY <1>3, <2>3
    <3> HIDE DEF low
    <3>3. Covered(id, low, start)'
      BY <2>3, <3>1, <3>2, CoveredStays
    <3> QED
      BY <3>3 DEF low, Covered
  <2>6. Covered(id, UserEnd - size, start + PageSize[level])'
    <3> SUFFICES ASSUME NEW a \in Va, UserEnd - size <= a, a < start + PageSize[level]
                 PROVE  \E va \in Va : /\ virt_page_caps'[id][va] # NoCap
                                       /\ UserEnd - size <= va /\ va <= a
                                       /\ a < va + PageSize[cap_level'[virt_page_caps'[id][va]]]
      BY DEF Covered
    <3>1. CASE a < start
      BY <2>5, <3>1 DEF Covered
    <3>2. CASE start <= a
      BY <1>1, <1>3, <2>1, <2>4, <3>2
    <3> QED
      BY <2>3, <3>1, <3>2, VaIsNat
  <2> QED
    BY <1>1, <1>4, <2>1, <2>2, <2>3, <2>4, <2>6 DEF SameStacks
<1> QED
  BY <1>5, <1>6, <1>7

\* A request that does not go on to grow a stack.
LEMMA RequestStacks ==
  ASSUME SInv, UNCHANGED status, server' # "growing", SameStacks(info, info'), StacksStay,
         held' \subseteq held, NewlyTaken, \A d \in held' : mapped'[d] = mapped[d]
  PROVE  Backed' /\ HeldPages' /\ Climbing'
<1>1. Backed'
  BY SameTasksUnchanged, BackedKept DEF SInv, PInv
<1>2. HeldPages'
  BY HeldPagesKept DEF SInv, HeldPages
<1>3. Climbing'
  BY DEF Climbing
<1> QED
  BY <1>1, <1>2, <1>3

LEMMA StillStacks ==
  ASSUME UNCHANGED <<virt_page_caps, cap_level>>
  PROVE  StacksStay /\ NewlyTaken
  BY NothingDisturbed DEF StacksStay, NewlyTaken

LEMMA PutTakes ==
  ASSUME Pages, NEW c \in Cap, NEW id \in Task, NEW va \in Va, NEW level,
         Put(c, id, va, level), held' \subseteq held, c \notin held'
  PROVE  NewlyTaken /\ \A d \in held' : mapped'[d] = mapped[d]
<1>1. NoCap \notin held'
  BY CapAssumption DEF Pages
<1>2. NewlyTaken
  BY <1>1 DEF NewlyTaken, Put
<1> QED
  BY <1>2 DEF Put, Pages

LEMMA VmapStacks ==
  ASSUME SInv, NEW id \in Client, NEW level \in Level, NEW arg \in VaArgs,
         Vmap(id, level, arg)
  PROVE  Backed' /\ HeldPages' /\ Climbing'
<1> DEFINE va == Place(id, level, arg)
<1>1. id \in Task /\ UNCHANGED <<status, held, server>> /\ server = "ready"
  BY TaskAssumption DEF Vmap, Ready
<1>2. va \in Va /\ (MapPage(id, level, va) \/ MapFails(id, level, va))
  BY DEF Vmap, BelowStack
<1> HIDE DEF va
<1>3. SameStacks(info, info')
  BY <1>1, <1>2, MapPageKeeps, MapFailsKeeps DEF SInv, PInv, Kept
<1>4. CASE MapPage(id, level, va)
  <2>1. NewPage(id, level, va) /\ virt_page_caps[id][va] = NoCap
    BY <1>4 DEF MapPage, Mappable
  <2>2. /\ \A t \in Task, low \in Int : Undisturbed(t, low)
        /\ NewlyTaken /\ \A d \in held : mapped'[d] = mapped[d]
    BY <1>1, <1>2, <2>1, NewPageDisturbs DEF SInv, PInv, IInv
  <2>3. StacksStay
    BY <2>2, StackTyped, TaskAssumption DEF StacksStay, SInv, PInv
  <2> QED
    BY <1>1, <1>3, <2>2, <2>3, RequestStacks
<1>5. CASE MapFails(id, level, va)
  <2>1. UNCHANGED <<virt_page_caps, mapped, cap_level>>
    BY <1>5 DEF MapFails, kernel
  <2> QED
    BY <1>1, <1>3, <2>1, StillStacks, RequestStacks
<1> QED
  BY <1>2, <1>4, <1>5

\* vremap takes no page at or above the limit of the source's stack.
LEMMA VremapStacks ==
  ASSUME SInv, NEW src \in Client, NEW dst \in Client, NEW sva \in Va, NEW arg \in VaArgs,
         Vremap(src, dst, sva, arg)
  PROVE  Backed' /\ HeldPages' /\ Climbing'
<1> DEFINE c     == virt_page_caps[src][sva]
           level == cap_level[c]
           va    == Place(dst, level, arg)
<1>1. /\ src \in Task /\ dst \in Task /\ UNCHANGED <<status, held>>
      /\ server' # "growing"
  BY TaskAssumption DEF Vremap, Ready
<1>2. c \in Cap /\ mapped[c] = <<src, sva>> /\ level \in Level
  <2>1. c \in Cap /\ mapped[c] = <<src, sva>>
    BY <1>1 DEF Vremap, SInv, PInv, IInv, Pages, RegistryMatchesKernel
  <2> QED
    BY <2>1, PlaceIsNotUnmapped DEF SInv, PInv, IInv, Pages
<1>3. sva < UserEnd - info[src].stack_available
  BY DEF Vremap
<1>4. \/ UNCHANGED <<info, virt_page_caps, kernel>>
      \/ /\ InSpace(level, va) /\ virt_page_caps[dst][va] = NoCap
         /\ MovePage(c, src, sva, dst, va)
         /\ info' = Charged(Charged(info, dst, PageSize[level]), src, -PageSize[level])
  BY DEF Vremap, Mappable
<1>5. virt_page_caps[src][sva] # NoCap
  BY DEF Vremap
<1>6. InSpace(level, va) => va \in Va
  BY DEF InSpace
<1>7. c = virt_page_caps[src][sva] /\ level = cap_level[c]
  OBVIOUS
<1> HIDE DEF c, level, va
<1>8. CASE UNCHANGED <<info, virt_page_caps, kernel>>
  BY <1>1, <1>8, StillStacks, RequestStacks DEF SameStacks, kernel
<1>9. CASE /\ InSpace(level, va) /\ virt_page_caps[dst][va] = NoCap
           /\ MovePage(c, src, sva, dst, va)
           /\ info' = Charged(Charged(info, dst, PageSize[level]), src, -PageSize[level])
  <2>1. ~(src = dst /\ sva = va)
    BY <1>5, <1>9
  <2>2. Put(c, dst, va, level)
    BY <1>1, <1>2, <1>6, <1>7, <1>9, <2>1, MovePagePuts DEF SInv, PInv, IInv
  <2>3. ASSUME NEW t \in Client \ {InitTask} PROVE Undisturbed(t, UserEnd - info[t].stack_commit)
    <3>1. t \in Task /\ UserEnd - info[t].stack_commit \in Int
      BY StackTyped, TaskAssumption DEF SInv, PInv
    <3>2. ASSUME NEW w \in Va, mapped[c] = <<t, w>> PROVE w < UserEnd - info[t].stack_commit
      BY <1>1, <1>2, <1>3, <3>2, StackTyped, VaIsNat DEF SInv, PInv
    <3> QED
      BY <1>1, <1>2, <1>6, <1>7, <1>9, <2>2, <3>1, <3>2, PutDisturbs DEF SInv, PInv, IInv
  <2>4. SameStacks(info, info')
    <3> DEFINE f == Charged(info, dst, PageSize[level])
    <3>1. info \in [Task -> TaskInfo] /\ PageSize[level] \in Int /\ -PageSize[level] \in Int
      BY <1>2, TopLevel DEF SInv, PInv, IInv, Counters, Within
    <3>2. f \in [Task -> TaskInfo] /\ SameStacks(info, f)
      BY <3>1, <1>1, ChargedFields
    <3>3. info' = Charged(f, src, -PageSize[level])
      BY <1>9
    <3> HIDE DEF f
    <3>4. SameStacks(f, info')
      BY <3>1, <3>2, <3>3, <1>1, ChargedFields
    <3> QED
      BY <3>2, <3>4 DEF SameStacks
  <2>5. NewlyTaken /\ \A d \in held : mapped'[d] = mapped[d]
    <3>1. c \notin held
      BY <1>1, <1>7 DEF SInv, HeldPages
    <3> QED
      BY <1>1, <1>2, <1>6, <1>9, <3>1, <2>2, PutTakes DEF SInv, PInv, IInv
  <2> QED
    BY <1>1, <2>3, <2>4, <2>5, RequestStacks DEF StacksStay
<1> QED
  BY <1>4, <1>8, <1>9

LEMMA VpmapStacks ==
  ASSUME SInv, NEW id \in Client, NEW c \in Cap, NEW arg \in VaArgs, Vpmap(id, c, arg)
  PROVE  Backed' /\ HeldPages' /\ Climbing'
<1> DEFINE level == cap_level[c]
           va    == Place(id, level, arg)
<1>1. /\ id \in Task /\ UNCHANGED <<status, server>> /\ server = "ready"
      /\ mapped[c] = Unmapped /\ level \in Level /\ held' = held \ {c}
  BY TaskAssumption DEF Vpmap, Ready, SInv, PInv, IInv, Pages
<1>2. Acceptable(id, level, va) => va \in Va /\ virt_page_caps[id][va] = NoCap
  BY DEF Acceptable, BelowStack
<1>3. \/ /\ Acceptable(id, level, va)
         /\ virt_page_caps' = [virt_page_caps EXCEPT ![id][va] = c]
         /\ mapped' = [mapped EXCEPT ![c] = <<id, va>>]
         /\ info' = Brought(info, id, PageSize[level])
         /\ UNCHANGED cap_level
      \/ UNCHANGED <<info, virt_page_caps, kernel>>
  BY DEF Vpmap
<1>4. level = cap_level[c] /\ held' \subseteq held /\ c \notin held'
  BY <1>1
<1> HIDE DEF level, va
<1>5. CASE UNCHANGED <<info, virt_page_caps, kernel>>
  BY <1>1, <1>4, <1>5, StillStacks, RequestStacks DEF SameStacks, kernel
<1>6. CASE /\ Acceptable(id, level, va)
           /\ virt_page_caps' = [virt_page_caps EXCEPT ![id][va] = c]
           /\ mapped' = [mapped EXCEPT ![c] = <<id, va>>]
           /\ info' = Brought(info, id, PageSize[level])
           /\ UNCHANGED cap_level
  <2>1. Put(c, id, va, level)
    BY <1>1, <1>2, <1>4, <1>6, BroughtPagePuts DEF SInv, PInv, IInv
  <2>2. StacksStay
    <3>1. ASSUME NEW t \in Client \ {InitTask} PROVE Undisturbed(t, UserEnd - info[t].stack_commit)
      <4>1. t \in Task /\ UserEnd - info[t].stack_commit \in Int
        BY StackTyped, TaskAssumption DEF SInv, PInv
      <4> QED
        BY <1>1, <1>2, <1>6, <2>1, <4>1, PlaceIsNotUnmapped, PutDisturbs DEF SInv, PInv, IInv
    <3> QED
      BY <3>1 DEF StacksStay
  <2>3. SameStacks(info, info')
    BY <1>1, <1>6, TopLevel, BroughtFields DEF SInv, PInv, IInv, Counters, Within
  <2>4. NewlyTaken /\ \A d \in held' : mapped'[d] = mapped[d]
    BY <1>1, <1>2, <1>4, <1>6, <2>1, PutTakes DEF SInv, PInv, IInv
  <2> QED
    BY <1>1, <1>4, <2>2, <2>3, <2>4, RequestStacks
<1> QED
  BY <1>3, <1>5, <1>6

\* vpremap takes pages that are in the hands of clients, and of those only
\* pages of init are mapped.
LEMMA VpremapStacks ==
  ASSUME SInv, NEW dst \in Client, NEW c \in Cap, NEW arg \in VaArgs, Vpremap(dst, c, arg)
  PROVE  Backed' /\ HeldPages' /\ Climbing'
<1> DEFINE level == cap_level[c]
           va    == Place(dst, level, arg)
<1>1. /\ dst \in Task /\ UNCHANGED <<status, server>> /\ server = "ready"
      /\ mapped[c] # Unmapped /\ level \in Level /\ held' = held \ {c} /\ c \in held
  BY TaskAssumption DEF Vpremap, Ready, SInv, PInv, IInv, Pages
<1>2. PICK src \in Task, sva \in Va : mapped[c] = <<src, sva>>
  BY <1>1 DEF SInv, PInv, IInv, Pages
<1>3. Acceptable(dst, level, va) => /\ va \in Va /\ virt_page_caps[dst][va] = NoCap
                                    /\ va % PageSize[level] = 0
  BY DEF Acceptable, BelowStack
<1>4. \/ /\ Acceptable(dst, level, va)
         /\ ~SlotOccupied(dst, level, va)
         /\ MovePage(c, src, sva, dst, va)
         /\ info' = Charged(Brought(info, dst, PageSize[level]), src, -PageSize[level])
      \/ UNCHANGED <<info, virt_page_caps, kernel>>
  BY <1>2 DEF Vpremap
<1>5. level = cap_level[c] /\ held' \subseteq held /\ c \notin held'
  BY <1>1
<1> HIDE DEF level, va
<1>6. CASE UNCHANGED <<info, virt_page_caps, kernel>>
  BY <1>1, <1>5, <1>6, StillStacks, RequestStacks DEF SameStacks, kernel
<1>7. CASE /\ Acceptable(dst, level, va)
           /\ ~SlotOccupied(dst, level, va)
           /\ MovePage(c, src, sva, dst, va)
           /\ info' = Charged(Brought(info, dst, PageSize[level]), src, -PageSize[level])
  <2>1. ~(src = dst /\ sva = va)
    <3>1. va \in Nat /\ RoundDown(va, PageSize[level]) = va
      BY <1>1, <1>3, <1>7, VaIsNat, LevelAssumption, Rounded
    <3> QED
      BY <3>1, <1>2, <1>5, <1>7 DEF SlotOccupied
  <2>2. Put(c, dst, va, level)
    BY <1>1, <1>2, <1>3, <1>5, <1>7, <2>1, MovePagePuts DEF SInv, PInv, IInv
  <2>3. src = InitTask
    BY <1>1, <1>2 DEF SInv, HeldPages
  <2>4. StacksStay
    <3>1. ASSUME NEW t \in Client \ {InitTask} PROVE Undisturbed(t, UserEnd - info[t].stack_commit)
      <4>1. t \in Task /\ UserEnd - info[t].stack_commit \in Int /\ t # src
        BY <2>3, StackTyped, TaskAssumption DEF SInv, PInv
      <4>2. \A w \in Va : mapped[c] # <<t, w>>
        BY <1>2, <4>1
      <4> QED
        BY <1>1, <1>3, <1>5, <1>7, <2>2, <4>1, <4>2, PutDisturbs DEF SInv, PInv, IInv
    <3> QED
      BY <3>1 DEF StacksStay
  <2>5. SameStacks(info, info')
    <3> DEFINE f == Brought(info, dst, PageSize[level])
    <3>1. info \in [Task -> TaskInfo] /\ PageSize[level] \in Int /\ -PageSize[level] \in Int
      BY <1>1, TopLevel DEF SInv, PInv, IInv, Counters, Within
    <3>2. f \in [Task -> TaskInfo] /\ SameStacks(info, f)
      BY <3>1, <1>1, BroughtFields
    <3>3. info' = Charged(f, src, -PageSize[level])
      BY <1>7
    <3> HIDE DEF f
    <3>4. SameStacks(f, info')
      BY <3>1, <3>2, <3>3, <1>2, ChargedFields
    <3> QED
      BY <3>2, <3>4 DEF SameStacks
  <2>6. NewlyTaken /\ \A d \in held' : mapped'[d] = mapped[d]
    BY <1>1, <1>3, <1>5, <1>7, <2>2, PutTakes DEF SInv, PInv, IInv
  <2> QED
    BY <1>1, <1>5, <2>4, <2>5, <2>6, RequestStacks
<1> QED
  BY <1>4, <1>6, <1>7

LEMMA NothingToCover ==
  ASSUME NEW id, NEW x \in Int
  PROVE  Covered(id, x, x)'
<1>1. \A a \in Va : ~ (x <= a /\ a < x)
  BY VaIsNat
<1> QED
  BY <1>1, Zenon DEF Covered

\* attach begins with no stack.
LEMMA AttachStacks ==
  ASSUME SInv, NEW id \in Client, NEW arg \in AttachArgs, Attach(id, arg)
  PROVE  Backed' /\ HeldPages' /\ Climbing'
<1>1. /\ id \in Task /\ id # Self /\ status[id] = "fresh" /\ UNCHANGED <<virt_page_caps, mapped, cap_level, held>>
      /\ arg \in AttachArg
  BY TaskAssumption, SpaceAssumption DEF Attach, kernel
<1>2. \A t \in Task \ {id} : status'[t] = status[t] /\ info'[t] = info[t]
  BY <1>1 DEF Attach, Attached, SInv, PInv, IInv, Pages, Counters, Within
<1>3. info'[id].stack_commit = 0
  BY <1>1 DEF Attach, SInv, PInv, IInv, Counters, Within
<1>4. Backed'
  <2> SUFFICES ASSUME NEW t \in Client \ {InitTask}, InTable(t)'
               PROVE  Covered(t, UserEnd - info[t].stack_commit, UserEnd)'
    BY DEF Backed, Covered
  <2>1. CASE t = id
    <3>1. UserEnd - info'[t].stack_commit = UserEnd
      BY <2>1, <1>3, SpaceAssumption
    <3> QED
      <4>1. Covered(id, UserEnd, UserEnd)'
        BY NothingToCover, SpaceAssumption
      <4> QED
        BY <2>1, <3>1, <4>1 DEF Covered
  <2>2. CASE t # id
    <3>1. InTable(t) /\ info'[t] = info[t]
      BY <2>2, <1>2, TaskAssumption DEF InTable
    <3> QED
      BY <3>1, <1>1 DEF SInv, Backed, Covered
  <2> QED
    BY <2>1, <2>2
<1>5. HeldPages'
  BY <1>1, <1>2, TaskAssumption DEF SInv, HeldPages
<1>6. Climbing'
  <2>1. CASE server' = "ready"
    BY <2>1 DEF Climbing
  <2>2. CASE server' = "growing" /\ grow' = GrowFrom(id, UserEnd, arg.stack_commit, arg.data)
    <3>1. /\ grow'.id = id /\ grow'.end = UserEnd /\ grow'.size = arg.stack_commit
          /\ grow'.start = UserEnd - arg.stack_commit
          /\ UserEnd - arg.stack_commit \in Int
      BY <2>2, <1>1, SpaceAssumption DEF GrowFrom, AttachArg
    <3>2. Covered(id, UserEnd - arg.stack_commit, UserEnd - arg.stack_commit)'
      BY <3>1, NothingToCover
    <3> QED
      BY <3>1, <3>2, <1>3 DEF Climbing, Covered
  <2> QED
    BY <2>1, <2>2 DEF Attach, Attached
<1> QED
  BY <1>4, <1>5, <1>6

LEMMA DetachStacks ==
  ASSUME SInv, NEW id \in Client, Detach(id)
  PROVE  Backed' /\ HeldPages' /\ Climbing'
<1>1. /\ id \in Task /\ server' # "growing" /\ UNCHANGED <<mapped, cap_level, held>>
      /\ status' = [status EXCEPT ![id] = "detached"]
      /\ info' = [info EXCEPT ![id] = NoInfo]
      /\ virt_page_caps' = [virt_page_caps EXCEPT ![id] = [va \in Va |-> NoCap]]
  BY TaskAssumption DEF Detach, Ready, kernel
<1>2. \A t \in Task \ {id} : /\ status'[t] = status[t] /\ info'[t] = info[t]
                             /\ virt_page_caps'[t] = virt_page_caps[t]
  BY <1>1 DEF SInv, PInv, IInv, Pages, Counters, Within
<1>3. ~InTable(id)' /\ status'[id] # "fresh"
  BY <1>1 DEF InTable, SInv, PInv, IInv, Pages
<1>4. Backed'
  <2> SUFFICES ASSUME NEW t \in Client \ {InitTask}, InTable(t)'
               PROVE  Covered(t, UserEnd - info[t].stack_commit, UserEnd)'
    BY DEF Backed, Covered
  <2>1. t \in Task \ {id} /\ InTable(t)
    BY <1>2, <1>3, TaskAssumption DEF InTable
  <2> QED
    BY <2>1, <1>1, <1>2 DEF SInv, Backed, Covered
<1>5. HeldPages'
  <2>1. \A t \in Task, va \in Va : virt_page_caps'[t][va] \in {NoCap, virt_page_caps[t][va]}
    BY <1>1, <1>2 DEF SInv, PInv, IInv, Pages
  <2>2. NoCap \notin held
    BY CapAssumption DEF SInv, PInv, IInv, Pages
  <2>3. status'[InitTask] # "fresh"
    BY <1>2, <1>3, TaskAssumption DEF SInv, HeldPages
  <2> QED
    BY <2>1, <2>2, <2>3, <1>1 DEF SInv, HeldPages
<1> QED
  BY <1>1, <1>4, <1>5 DEF Climbing

LEMMA CreatePageStacks ==
  ASSUME SInv, NEW c \in Cap, NEW level \in OwnLevels, CreatePage(c, level)
  PROVE  Backed' /\ HeldPages' /\ Climbing'
<1>1. /\ cap_level[c] = NoLevel /\ cap_level' = [cap_level EXCEPT ![c] = level]
      /\ UNCHANGED <<status, info, virt_page_caps, mapped, server>> /\ server = "ready"
      /\ held' = held \cup {c}
  BY DEF CreatePage
<1>2. \A d \in Cap : mapped[d] # Unmapped => cap_level'[d] = cap_level[d] /\ d # c
  BY <1>1 DEF SInv, PInv, IInv, Pages
<1>3. ASSUME NEW t \in Task, NEW w \in Va, virt_page_caps[t][w] # NoCap
      PROVE  virt_page_caps[t][w] # c /\ cap_level'[virt_page_caps[t][w]] = cap_level[virt_page_caps[t][w]]
  <2>1. virt_page_caps[t][w] \in Cap /\ mapped[virt_page_caps[t][w]] = <<t, w>>
    BY <1>3 DEF SInv, PInv, IInv, Pages, RegistryMatchesKernel
  <2> QED
    BY <2>1, <1>2, PlaceIsNotUnmapped
<1>4. StacksStay
  BY <1>1, <1>3, TaskAssumption DEF StacksStay, Undisturbed
<1>5. Backed'
  BY <1>1, <1>4, SameTasksUnchanged, BackedKept DEF SameStacks, SInv, PInv
<1>6. HeldPages'
  <2>1. ASSUME NEW t \in Task, NEW w \in Va PROVE mapped[c] # <<t, w>> /\ virt_page_caps[t][w] # c
    <3>1. mapped[c] = Unmapped
      BY <1>2
    <3>2. CASE virt_page_caps[t][w] = NoCap
      BY <3>1, <3>2, CapAssumption, PlaceIsNotUnmapped
    <3>3. CASE virt_page_caps[t][w] # NoCap
      BY <3>1, <3>3, <1>3, PlaceIsNotUnmapped
    <3> QED
      BY <3>2, <3>3
  <2> QED
    BY <1>1, <2>1 DEF SInv, HeldPages
<1> QED
  BY <1>1, <1>5, <1>6 DEF Climbing

\* The end of the growth: what has been covered becomes the stack.
LEMMA GrowDoneStacks ==
  ASSUME SInv, GrowDone
  PROVE  Backed' /\ HeldPages' /\ Climbing'
<1>0. PICK id, size : id = grow.id /\ size = grow.size
  OBVIOUS
<1>1. /\ id \in Task /\ size \in Nat /\ status[id] = "attached"
      /\ server = "growing" /\ server' = "ready"
      /\ UNCHANGED <<virt_page_caps, mapped, cap_level, held>>
      /\ grow.start >= grow.end /\ grow.start \in Int
  BY <1>0, GrowIsTyped DEF GrowDone, Grown, Attached, SInv, PInv, IInv, Counters, Serving, kernel
<1>2. SameTasks
  BY <1>0, <1>1, SameTasksUnchanged
     DEF GrowDone, Grown, Attached, SameTasks, InTable, SInv, PInv, IInv, Pages
<1>3. /\ \A t \in Task \ {id} : info'[t].stack_commit = info[t].stack_commit
      /\ info'[id].stack_commit = info[id].stack_commit + size
  BY <1>0, <1>1 DEF GrowDone, SInv, PInv, IInv, Counters, Within, TaskInfo
<1>4. Backed'
  <2> SUFFICES ASSUME NEW t \in Client \ {InitTask}, InTable(t)'
               PROVE  Covered(t, UserEnd - info[t].stack_commit, UserEnd)'
    BY DEF Backed
  <2>1. t \in Task /\ t # Self /\ InTable(t)
    BY <1>2, TaskAssumption DEF SameTasks, InTable
  <2>2. CASE t = id
    <3>1. /\ info[id].stack_commit = 0 /\ grow.end = UserEnd
          /\ Covered(id, UserEnd - size, grow.start)
      BY <1>0, <1>1, <2>1, <2>2 DEF SInv, Climbing
    <3>2. Covered(id, UserEnd - size, UserEnd)
      BY <1>1, <3>1, SpaceAssumption, VaIsNat DEF Covered
    <3>3. info'[t].stack_commit = size
      BY <1>1, <1>3, <2>2, <3>1
    <3> QED
      BY <1>1, <2>2, <3>2, <3>3 DEF Covered
  <2>3. CASE t # id
    BY <1>1, <1>3, <2>1, <2>3 DEF SInv, Backed, Covered
  <2> QED
    BY <2>2, <2>3
<1>5. HeldPages'
  BY <1>1, <1>2, TaskAssumption DEF SInv, HeldPages, SameTasks
<1> QED
  BY <1>1, <1>4, <1>5 DEF Climbing

LEMMA GrowRestStacks ==
  ASSUME SInv, GrowRound \/ \E level \in Level : GrowAsserts(level) \/ GrowFails(level)
  PROVE  Backed' /\ HeldPages' /\ Climbing'
<1>1. UNCHANGED <<virt_page_caps, mapped, cap_level, held, info>>
  BY DEF GrowRound, GrowAsserts, GrowFails, MapFails, MapDataFails, kernel
<1>2. SameTasks
  <2>1. grow.id \in Task /\ (server = "growing" => status[grow.id] = "attached")
    BY GrowIsTyped DEF SInv, PInv, IInv, Serving
  <2>2. UNCHANGED status \/ (server = "growing" /\ Attached(grow.id))
    BY DEF GrowRound, GrowAsserts, GrowFails
  <2> QED
    BY <2>1, <2>2, SameTasksUnchanged DEF Attached, SameTasks, InTable, SInv, PInv, IInv, Pages
<1>3. Backed'
  BY <1>1, <1>2, StillStacks, BackedKept DEF SInv, PInv, SameStacks
<1>4. HeldPages'
  BY <1>1, <1>2, TaskAssumption DEF SInv, HeldPages, SameTasks
<1>5. Climbing'
  <2>1. CASE GrowRound
    <3>1. /\ grow'.id = grow.id /\ grow'.end = grow.end /\ grow'.size = grow.size
          /\ grow'.start = grow.start /\ server' = server
      BY <2>1 DEF GrowRound, SInv, PInv, IInv, Counters, GrowLocals
    <3> QED
      BY <3>1, <1>1 DEF SInv, Climbing, Covered
  <2>2. CASE ~GrowRound
    <3>1. server' # "growing"
      BY <2>2 DEF GrowAsserts, GrowFails, Attached
    <3> QED
      BY <3>1 DEF Climbing
  <2> QED
    BY <2>1, <2>2
<1> QED
  BY <1>3, <1>4, <1>5

LEMMA StacksKept == SInv /\ [Next]_vars => SInv'
<1> SUFFICES ASSUME SInv, [Next]_vars PROVE SInv'
  OBVIOUS
<1>0. PInv'
  BY StepHolds, PlacesKept, ServingKept DEF SInv, PInv
<1> SUFFICES Backed' /\ HeldPages' /\ Climbing'
  BY <1>0 DEF SInv
<1>1. CASE \E id \in Client, arg \in AttachArgs : Attach(id, arg)
  BY <1>1, AttachStacks
<1>2. CASE Grow
  BY <1>2, GrowPageStacks, GrowDoneStacks, GrowRestStacks DEF Grow
<1>3. CASE \E id \in Client, level \in Level, arg \in VaArgs : Vmap(id, level, arg)
  BY <1>3, VmapStacks
<1>4. CASE \E src, dst \in Client, sva \in Va, arg \in VaArgs : Vremap(src, dst, sva, arg)
  BY <1>4, VremapStacks
<1>5. CASE \E id \in Client, c \in Cap, arg \in VaArgs : Vpmap(id, c, arg)
  BY <1>5, VpmapStacks
<1>6. CASE \E dst \in Client, c \in Cap, arg \in VaArgs : Vpremap(dst, c, arg)
  BY <1>6, VpremapStacks
<1>7. CASE \E id \in Client : Detach(id)
  BY <1>7, DetachStacks
<1>8. CASE \E c \in Cap, level \in OwnLevels : CreatePage(c, level)
  BY <1>8, CreatePageStacks
<1>9. CASE UNCHANGED vars
  BY <1>9 DEF vars, kernel, SInv, Backed, HeldPages, Climbing, Covered, InTable
<1> QED
  BY <1>1, <1>2, <1>3, <1>4, <1>5, <1>6, <1>7, <1>8, <1>9 DEF Next

LEMMA StacksInit == Init => Backed /\ HeldPages /\ Climbing
<1> SUFFICES ASSUME Init PROVE Backed /\ HeldPages /\ Climbing
  OBVIOUS
<1>1. Backed
  BY TaskAssumption DEF Init, Backed, InTable
<1>2. HeldPages
  <2>1. ASSUME NEW c \in held, NEW id \in Task, NEW va \in Va, mapped[c] = <<id, va>>
        PROVE  id = InitTask
    BY <2>1, CapAssumption DEF Init
  <2>2. \A id \in Task, va \in Va : virt_page_caps[id][va] \notin held
    BY CapAssumption DEF Init
  <2> QED
    BY <2>1, <2>2, TaskAssumption DEF Init, HeldPages
<1>3. Climbing
  BY DEF Init, Climbing, GrowFrom
<1> QED
  BY <1>1, <1>2, <1>3

\* A task has the stack it was told it has, page by page: what attach
\* committed was mapped before it was counted, and no later request takes
\* a page of it away, neither vremap, which stops at the stack's limit, nor
\* vpremap, which takes pages that were never registered.
THEOREM StackIsThere == Spec => []StackBacked
<1>1. Init => SInv
  BY InitHolds, PlacesInit, StacksInit DEF SInv, PInv
<1>2. SInv => StackBacked
  <2> SUFFICES ASSUME SInv, NEW id \in Client \ {InitTask}, NEW a \in Va,
                      InTable(id), a >= UserEnd - info[id].stack_commit
               PROVE  \E va \in Va : /\ virt_page_caps[id][va] # NoCap
                                     /\ va <= a
                                     /\ a < va + PageSize[cap_level[virt_page_caps[id][va]]]
    BY DEF StackBacked
  <2>1. id \in Task /\ UserEnd - info[id].stack_commit \in Int /\ a \in Nat /\ a < UserEnd
    BY StackTyped, TaskAssumption, SpaceAssumption DEF SInv, PInv, Va
  <2>2. Covered(id, UserEnd - info[id].stack_commit, UserEnd)
    BY DEF SInv, Backed
  <2> QED
    BY <2>1, <2>2 DEF Covered
<1> QED
  BY <1>1, <1>2, StacksKept, PTL DEF Spec
-----------------------------------------------------------------------------
(* Sums.                                                                    *)

\* Induction over the naturals, for a property given as the set that has it.
LEMMA ByInduction ==
  ASSUME NEW T, 0 \in T, \A n \in Nat : n \in T => n + 1 \in T
  PROVE  Nat \subseteq T
<1> SUFFICES ASSUME Nat \ T # {} PROVE FALSE
  OBVIOUS
<1>1. \E x \in Nat \ T : \A y \in Nat \ T : ~ (<<y, x>> \in OpToRel(<, Nat))
  BY NatLessThanWellFounded, WFMin
<1>2. PICK x \in Nat \ T : \A y \in Nat \ T : ~ (y < x)
  BY <1>1 DEF OpToRel
<1>3. x # 0 /\ x - 1 \in Nat /\ x = (x - 1) + 1
  OBVIOUS
<1>4. x - 1 \in T
  BY <1>2, <1>3
<1> QED
  BY <1>2, <1>3, <1>4

\* A start and a step, a function of a number and the value before it, make
\* a function of the naturals.
Stepwise(f, n, start, step) ==
  /\ f[0] = start
  /\ \A k \in 1 .. n : f[k] = step[<<k, f[k - 1]>>]

\* Up to n there is one ...
LEMMA StepsExist ==
  ASSUME NEW S, NEW start \in S, NEW step \in [Nat \X S -> S]
  PROVE  \A n \in Nat : \E f \in [0 .. n -> S] : Stepwise(f, n, start, step)
<1> DEFINE T == {n \in Nat : \E f \in [0 .. n -> S] : Stepwise(f, n, start, step)}
<1>1. 0 \in T
  <2> DEFINE f == [k \in 0 .. 0 |-> start]
  <2>1. f \in [0 .. 0 -> S] /\ Stepwise(f, 0, start, step)
    BY DEF Stepwise
  <2> QED
    BY <2>1
<1>2. ASSUME NEW n \in Nat, n \in T PROVE n + 1 \in T
  <2>1. PICK f \in [0 .. n -> S] : Stepwise(f, n, start, step)
    BY <1>2
  <2> DEFINE g == [k \in 0 .. n + 1 |-> IF k = n + 1 THEN step[<<n + 1, f[n]>>] ELSE f[k]]
  <2>2. f[n] \in S /\ <<n + 1, f[n]>> \in Nat \X S
    OBVIOUS
  <2>3. step[<<n + 1, f[n]>>] \in S
    BY <2>2
  <2>4. g \in [0 .. n + 1 -> S]
    <3>1. \A k \in 0 .. n + 1 : k # n + 1 => k \in 0 .. n
      OBVIOUS
    <3> QED
      BY <3>1, <2>3
  <2>5. Stepwise(g, n + 1, start, step)
    <3>1. g[0] = start
      BY <2>1 DEF Stepwise
    <3>2. \A k \in 1 .. n : g[k] = f[k] /\ g[k - 1] = f[k - 1]
      OBVIOUS
    <3>3. g[n + 1] = step[<<n + 1, g[n]>>]
      <4>1. n + 1 \in 0 .. n + 1 /\ n \in 0 .. n + 1 /\ n # n + 1
        OBVIOUS
      <4>2. g[n + 1] = step[<<n + 1, f[n]>>] /\ g[n] = f[n]
        BY <4>1, Zenon
      <4> QED
        BY <4>2, Zenon
    <3> HIDE DEF g
    <3>4. ASSUME NEW k \in 1 .. n + 1 PROVE g[k] = step[<<k, g[k - 1]>>]
      <4>1. CASE k = n + 1
        BY <4>1, <3>3
      <4>2. CASE k # n + 1
        <5>1. k \in 1 .. n
          BY <4>2
        <5> QED
          BY <5>1, <3>2, <2>1, Zenon DEF Stepwise
      <4> QED
        BY <4>1, <4>2
    <3> QED
      BY <3>1, <3>4 DEF Stepwise
  <2> HIDE DEF g
  <2> QED
    BY <2>4, <2>5
<1> HIDE DEF T
<1>3. Nat \subseteq T
  BY <1>1, <1>2, ByInduction
<1> QED
  BY <1>3 DEF T

\* ... and any two agree as far as both go.
LEMMA StepsAgree ==
  ASSUME NEW start, NEW step, NEW f, NEW g, NEW n \in Nat,
         Stepwise(f, n, start, step), Stepwise(g, n, start, step)
  PROVE  \A k \in 0 .. n : f[k] = g[k]
<1> DEFINE T == {k \in Nat : k <= n => f[k] = g[k]}
<1>1. 0 \in T
  BY DEF Stepwise
<1>2. ASSUME NEW k \in Nat, k \in T PROVE k + 1 \in T
  <2>1. CASE k + 1 <= n
    <3>1. k + 1 \in 1 .. n /\ (k + 1) - 1 = k /\ k <= n
      BY <2>1
    <3>2. f[k + 1] = step[<<k + 1, f[k]>>] /\ g[k + 1] = step[<<k + 1, g[k]>>]
      BY <3>1 DEF Stepwise
    <3> QED
      BY <3>1, <3>2, <1>2
  <2>2. CASE ~ (k + 1 <= n)
    BY <2>2
  <2> QED
    BY <2>1, <2>2
<1> HIDE DEF T
<1>3. Nat \subseteq T
  BY <1>1, <1>2, ByInduction
<1> QED
  BY <1>3 DEF T

\* So the recursive definition has a value.
Recursive(f, start, step) ==
  f = [n \in Nat |-> IF n = 0 THEN start ELSE step[<<n, f[n - 1]>>]]

LEMMA Recursion ==
  ASSUME NEW S, NEW start \in S, NEW step \in [Nat \X S -> S]
  PROVE  \E f \in [Nat -> S] : Recursive(f, start, step)
<1> DEFINE upTo == [n \in Nat |-> CHOOSE f \in [0 .. n -> S] : Stepwise(f, n, start, step)]
           f    == [n \in Nat |-> upTo[n][n]]
<1>1. \A n \in Nat : upTo[n] \in [0 .. n -> S] /\ Stepwise(upTo[n], n, start, step)
  BY StepsExist, Zenon
<1> HIDE DEF upTo
<1>2. f \in [Nat -> S]
  BY <1>1
<1>3. f[0] = start
  BY <1>1 DEF Stepwise
<1>4. ASSUME NEW n \in Nat, n # 0 PROVE f[n] = step[<<n, f[n - 1]>>]
  <2>1. n - 1 \in Nat /\ n \in 1 .. n /\ n - 1 \in 0 .. n - 1
    BY <1>4
  <2>2. f[n] = upTo[n][n] /\ f[n - 1] = upTo[n - 1][n - 1]
    BY <2>1
  <2>3. upTo[n][n] = step[<<n, upTo[n][n - 1]>>]
    BY <2>1, <1>1 DEF Stepwise
  <2>4. Stepwise(upTo[n], n - 1, start, step)
    <3>1. \A k \in 1 .. n - 1 : k \in 1 .. n
      BY <2>1
    <3> QED
      BY <3>1, <1>1, Zenon DEF Stepwise
  <2>5. Stepwise(upTo[n - 1], n - 1, start, step)
    BY <2>1, <1>1
  <2>6. upTo[n][n - 1] = upTo[n - 1][n - 1]
    <3>1. \A k \in 0 .. n - 1 : upTo[n][k] = upTo[n - 1][k]
      BY <2>1, <2>4, <2>5, StepsAgree
    <3> QED
      BY <2>1, <3>1, Zenon
  <2> QED
    BY <2>2, <2>3, <2>6, Zenon
<1> HIDE DEF f
<1>5. Recursive(f, start, step)
  BY <1>2, <1>3, <1>4 DEF Recursive
<1> QED
  BY <1>2, <1>5

\* The sum, step by step.
LEMMA SumIs ==
  ASSUME NEW w \in [Nat -> Nat]
  PROVE  /\ SumTo(w, 0) = 0
         /\ \A n \in Nat : /\ SumTo(w, n) \in Nat
                           /\ SumTo(w, n + 1) = SumTo(w, n) + w[n + 1]
<1> DEFINE Sums(s) == s = [k \in Nat |-> IF k = 0 THEN 0 ELSE s[k - 1] + w[k]]
           sum  == CHOOSE s : Sums(s)
           step == [p \in Nat \X Nat |-> p[2] + w[p[1]]]
<1>1. \E s : Sums(s)
  <2>1. step \in [Nat \X Nat -> Nat] /\ 0 \in Nat
    OBVIOUS
  <2>2. \A k, x \in Nat : step[<<k, x>>] = x + w[k]
    OBVIOUS
  <2> HIDE DEF step
  <2>3. PICK s \in [Nat -> Nat] : Recursive(s, 0, step)
    BY <2>1, Recursion
  <2>4. \A k \in Nat : k # 0 => k - 1 \in Nat /\ step[<<k, s[k - 1]>>] = s[k - 1] + w[k]
    BY <2>2
  <2>5. Sums(s)
    BY <2>3, <2>4 DEF Recursive
  <2> QED
    BY <2>5
<1>2. Sums(sum)
  BY <1>1, Zenon
<1>3. \A n \in Nat : SumTo(w, n) = sum[n]
  BY Zenon DEF SumTo
<1> HIDE DEF sum
<1>4. sum[0] = 0 /\ \A n \in Nat : sum[n + 1] = sum[n] + w[n + 1]
  <2>1. sum[0] = 0
    BY <1>2
  <2>2. ASSUME NEW n \in Nat PROVE sum[n + 1] = sum[n] + w[n + 1]
    <3>1. n + 1 \in Nat /\ n + 1 # 0 /\ (n + 1) - 1 = n
      OBVIOUS
    <3> QED
      BY <3>1, <1>2
  <2> QED
    BY <2>1, <2>2
<1>5. \A n \in Nat : sum[n] \in Nat
  <2> DEFINE T == {n \in Nat : sum[n] \in Nat}
  <2>1. 0 \in T /\ \A n \in Nat : n \in T => n + 1 \in T
    BY <1>4
  <2> HIDE DEF T
  <2>2. Nat \subseteq T
    BY <2>1, ByInduction
  <2> QED
    BY <2>2 DEF T
<1> QED
  BY <1>3, <1>4, <1>5

\* Nothing sums to nothing.
LEMMA SumOfNothing ==
  ASSUME NEW w \in [Nat -> Nat], \A k \in Nat : w[k] = 0, NEW n \in Nat
  PROVE  SumTo(w, n) = 0
<1> DEFINE T == {k \in Nat : SumTo(w, k) = 0}
<1>1. 0 \in T /\ \A k \in Nat : k \in T => k + 1 \in T
  BY SumIs
<1> HIDE DEF T
<1>2. Nat \subseteq T
  BY <1>1, ByInduction
<1> QED
  BY <1>2 DEF T

\* v is w but for one term.
OneTerm(v, w, a) == \A k \in Nat : k # a => v[k] = w[k]

\* A sum in which one term changes changes by as much.
LEMMA SumChanges ==
  ASSUME NEW w \in [Nat -> Nat], NEW v \in [Nat -> Nat], NEW a \in Nat \ {0},
         OneTerm(v, w, a), NEW n \in Nat, a <= n
  PROVE  SumTo(v, n) = SumTo(w, n) + v[a] - w[a]
<1> DEFINE T == {k \in Nat : SumTo(v, k) = SumTo(w, k) + (IF a <= k THEN v[a] - w[a] ELSE 0)}
<1>1. 0 \in T
  BY SumIs
<1>2. ASSUME NEW k \in Nat, k \in T PROVE k + 1 \in T
  <2>1. /\ SumTo(w, k) \in Nat /\ SumTo(v, k) \in Nat
        /\ SumTo(w, k + 1) = SumTo(w, k) + w[k + 1]
        /\ SumTo(v, k + 1) = SumTo(v, k) + v[k + 1]
    BY SumIs
  <2>2. v[a] \in Nat /\ w[a] \in Nat /\ v[k + 1] \in Nat /\ w[k + 1] \in Nat
    OBVIOUS
  <2>3. CASE k + 1 = a
    BY <1>2, <2>1, <2>2, <2>3
  <2>4. CASE k + 1 # a
    <3>1. v[k + 1] = w[k + 1] /\ (a <= k + 1 <=> a <= k)
      BY <2>4 DEF OneTerm
    <3> QED
      BY <1>2, <2>1, <2>2, <3>1
  <2> QED
    BY <2>3, <2>4 DEF Recursive
<1> HIDE DEF T
<1>3. Nat \subseteq T
  BY <1>1, <1>2, ByInduction
<1>4. SumTo(v, n) = SumTo(w, n) + (IF a <= n THEN v[a] - w[a] ELSE 0)
  BY <1>3 DEF T
<1>5. SumTo(w, n) \in Nat /\ v[a] \in Nat /\ w[a] \in Nat
  BY SumIs
<1> QED
  BY <1>4, <1>5

-----------------------------------------------------------------------------
(* What a task is charged.                                                  *)

Total(id) == SumTo(Sizes(id), UserEnd - 1)

LEMMA SizesTyped ==
  ASSUME Pages, Pages', NEW t \in Task
  PROVE  /\ Sizes(t) \in [Nat -> Nat] /\ Sizes(t)' \in [Nat -> Nat]
         /\ \A va \in Va : virt_page_caps[t][va] = NoCap => Sizes(t)[va] = 0
         /\ \A va \in Va : virt_page_caps[t][va] # NoCap =>
              Sizes(t)[va] = PageSize[cap_level[virt_page_caps[t][va]]]
<1>1. \A l \in Level : PageSize[l] \in Nat
  BY LevelAssumption
<1>2. ASSUME NEW va \in Va, virt_page_caps[t][va] # NoCap
      PROVE  cap_level[virt_page_caps[t][va]] \in Level
  <2>1. virt_page_caps[t][va] \in Cap /\ mapped[virt_page_caps[t][va]] = <<t, va>>
    BY <1>2 DEF Pages, RegistryMatchesKernel
  <2> QED
    BY <2>1, PlaceIsNotUnmapped DEF Pages
<1>3. ASSUME NEW va \in Va, virt_page_caps'[t][va] # NoCap
      PROVE  cap_level'[virt_page_caps'[t][va]] \in Level
  <2>1. virt_page_caps'[t][va] \in Cap /\ mapped'[virt_page_caps'[t][va]] = <<t, va>>
    BY <1>3 DEF Pages, RegistryMatchesKernel
  <2> QED
    BY <2>1, PlaceIsNotUnmapped DEF Pages
<1>4. Sizes(t) \in [Nat -> Nat]
  BY <1>1, <1>2 DEF Sizes
<1>5. Sizes(t)' \in [Nat -> Nat]
  BY <1>1, <1>3 DEF Sizes
<1> QED
  BY <1>4, <1>5, VaIsNat DEF Sizes

LEMMA TotalTyped ==
  ASSUME Pages, Pages', NEW t \in Task
  PROVE  Total(t) \in Nat /\ Total(t)' \in Nat
<1>1. UserEnd - 1 \in Nat
  BY SpaceAssumption
<1>2. PICK w, v : w = Sizes(t) /\ v = Sizes(t)'
  OBVIOUS
<1>3. SumTo(w, UserEnd - 1) \in Nat /\ SumTo(v, UserEnd - 1) \in Nat
  BY <1>1, <1>2, SizesTyped, SumIs
<1> QED
  BY <1>2, <1>3 DEF Total

\* Where every page keeps its size the total does not change.
LEMMA TotalStays ==
  ASSUME Pages, Pages', NEW t \in Task, \A va \in Va : Sizes(t)'[va] = Sizes(t)[va]
  PROVE  Total(t)' = Total(t)
<1>1. Sizes(t)' = Sizes(t)
  <2>1. \A va \in Nat \ Va : Sizes(t)'[va] = Sizes(t)[va]
    BY DEF Sizes
  <2> QED
    BY <2>1, SizesTyped
<1> QED
  BY <1>1 DEF Total

\* A page put where nothing was, and taken from nowhere of task t, adds its
\* size to its task.
LEMMA PutAdds ==
  ASSUME Pages, Pages', NEW c \in Cap, NEW id \in Task, NEW va \in Va, NEW level \in Level,
         virt_page_caps[id][va] = NoCap, Put(c, id, va, level),
         NEW t \in Task, \A w \in Va : mapped[c] # <<t, w>>
  PROVE  Total(t)' = Total(t) + (IF t = id THEN PageSize[level] ELSE 0)
<1>1. \A w \in Va : ~ (t = id /\ w = va) => Sizes(t)'[w] = Sizes(t)[w]
  <2> SUFFICES ASSUME NEW w \in Va, ~ (t = id /\ w = va) PROVE Sizes(t)'[w] = Sizes(t)[w]
    OBVIOUS
  <2>1. virt_page_caps'[t][w] = virt_page_caps[t][w]
    BY DEF Put
  <2>2. CASE virt_page_caps[t][w] = NoCap
    BY <2>1, <2>2, VaIsNat DEF Sizes
  <2>3. CASE virt_page_caps[t][w] # NoCap
    <3>1. virt_page_caps[t][w] \in Cap \ {c}
      BY <2>3 DEF Pages, RegistryMatchesKernel
    <3>2. cap_level'[virt_page_caps[t][w]] = cap_level[virt_page_caps[t][w]]
      BY <3>1 DEF Put
    <3> QED
      BY <2>1, <3>2, VaIsNat DEF Sizes
  <2> QED
    BY <2>2, <2>3
<1>2. CASE t # id
  <2>1. Total(t)' = Total(t)
    BY <1>1, <1>2, TotalStays
  <2>2. Total(t) \in Nat
    BY TotalTyped
  <2> QED
    BY <1>2, <2>1, <2>2
<1>3. CASE t = id
  <2>1. PICK w, v : w = Sizes(t) /\ v = Sizes(t)'
    OBVIOUS
  <2>2. w \in [Nat -> Nat] /\ v \in [Nat -> Nat]
    BY <2>1, SizesTyped
  <2>3. v[va] = PageSize[level] /\ w[va] = 0 /\ va \in Nat \ {0} /\ va <= UserEnd - 1
        /\ UserEnd - 1 \in Nat /\ PageSize[level] \in Nat
    <3>1. virt_page_caps'[id][va] = c /\ cap_level'[c] = level /\ c # NoCap
      BY CapAssumption DEF Put
    <3> QED
      BY <3>1, <2>1, <1>3, SpaceAssumption, LevelAssumption DEF Sizes, Va
  <2>4. OneTerm(v, w, va)
    <3>1. \A k \in Nat \ Va : v[k] = w[k]
      BY <2>1 DEF Sizes
    <3> QED
      BY <3>1, <1>1, <2>1, <1>3 DEF OneTerm
  <2>5. SumTo(v, UserEnd - 1) = SumTo(w, UserEnd - 1) + v[va] - w[va]
    BY <2>2, <2>3, <2>4, SumChanges
  <2>6. SumTo(w, UserEnd - 1) \in Nat
    BY <2>2, <2>3, SumIs
  <2>7. SumTo(v, UserEnd - 1) = SumTo(w, UserEnd - 1) + PageSize[level]
    BY <2>3, <2>5, <2>6
  <2> QED
    BY <1>3, <2>1, <2>7 DEF Total
<1> QED
  BY <1>2, <1>3

\* A page that moves takes its size along.
LEMMA PutMoves ==
  ASSUME Pages, Pages', NEW c \in Cap, NEW id \in Task, NEW va \in Va, NEW level \in Level,
         virt_page_caps[id][va] = NoCap, Put(c, id, va, level), level = cap_level[c],
         NEW src \in Task, NEW sva \in Va, virt_page_caps[src][sva] = c
  PROVE  Total(src)' = Total(src) + (IF src = id THEN PageSize[level] ELSE 0) - PageSize[level]
<1>1. PICK w, v : w = Sizes(src) /\ v = Sizes(src)'
  OBVIOUS
<1> DEFINE u == [w EXCEPT ![sva] = 0]
<1>2. w \in [Nat -> Nat] /\ v \in [Nat -> Nat] /\ u \in [Nat -> Nat]
  BY <1>1, SizesTyped
<1>3. c # NoCap /\ mapped[c] = <<src, sva>> /\ ~ (src = id /\ sva = va)
  BY CapAssumption DEF Pages, RegistryMatchesKernel
<1>4. /\ sva \in Nat \ {0} /\ sva <= UserEnd - 1 /\ va \in Nat \ {0} /\ va <= UserEnd - 1
      /\ UserEnd - 1 \in Nat /\ PageSize[level] \in Nat
  BY SpaceAssumption, LevelAssumption DEF Va
<1>5. w[sva] = PageSize[level] /\ u[sva] = 0 /\ \A k \in Nat : k # sva => u[k] = w[k]
  <2>1. w[sva] = PageSize[level]
    BY <1>1, <1>3, SizesTyped
  <2> QED
    BY <1>2, <1>4, <2>1
<1>6. SumTo(u, UserEnd - 1) = SumTo(w, UserEnd - 1) - PageSize[level]
  <2> HIDE DEF u
  <2>1. SumTo(u, UserEnd - 1) = SumTo(w, UserEnd - 1) + u[sva] - w[sva]
    <3>1. OneTerm(u, w, sva)
      BY <1>5 DEF OneTerm
    <3> QED
      BY <1>2, <1>4, <3>1, SumChanges
  <2>2. SumTo(w, UserEnd - 1) \in Nat
    BY <1>2, <1>4, SumIs
  <2> QED
    BY <1>4, <1>5, <2>1, <2>2
<1> HIDE DEF u
<1>7. \A k \in Nat : ~ (src = id /\ k = va) => v[k] = u[k]
  <2> SUFFICES ASSUME NEW k \in Nat, ~ (src = id /\ k = va) PROVE v[k] = u[k]
    OBVIOUS
  <2>1. CASE k \notin Va
    BY <2>1, <1>1, <1>5, SizesTyped DEF Sizes
  <2>2. CASE k = sva
    <3>1. virt_page_caps'[src][sva] = NoCap
      BY <1>3 DEF Put
    <3> QED
      BY <2>2, <3>1, <1>1, <1>5 DEF Sizes
  <2>3. CASE k \in Va /\ k # sva
    <3>1. mapped[c] # <<src, k>>
      BY <1>3, <2>3
    <3>2. virt_page_caps'[src][k] = virt_page_caps[src][k]
      BY <2>3, <3>1 DEF Put
    <3>3. virt_page_caps[src][k] # NoCap => virt_page_caps[src][k] \in Cap \ {c}
      BY <2>3, <3>1 DEF Pages, RegistryMatchesKernel
    <3>4. v[k] = w[k]
      BY <2>3, <3>2, <3>3, <1>1 DEF Sizes, Put
    <3> QED
      BY <2>3, <3>4, <1>5
  <2> QED
    BY <2>1, <2>2, <2>3
<1>8. CASE src # id
  <2>1. v = u
    BY <1>2, <1>7, <1>8
  <2>2. SumTo(w, UserEnd - 1) \in Nat
    BY <1>2, <1>4, SumIs
  <2> QED
    BY <1>1, <1>4, <1>6, <1>8, <2>1, <2>2 DEF Total
<1>9. CASE src = id
  <2>1. v[va] = PageSize[level] /\ u[va] = 0
    <3>1. virt_page_caps'[id][va] = c /\ cap_level'[c] = level
      BY DEF Put
    <3>2. w[va] = 0
      BY <1>1, <1>9, SizesTyped
    <3> QED
      BY <3>1, <3>2, <1>1, <1>3, <1>4, <1>5, <1>9 DEF Sizes
  <2>2. SumTo(v, UserEnd - 1) = SumTo(u, UserEnd - 1) + v[va] - u[va]
    <3>1. OneTerm(v, u, va)
      BY <1>7 DEF OneTerm
    <3> QED
      BY <1>2, <1>4, <3>1, SumChanges
  <2>3. SumTo(w, UserEnd - 1) \in Nat /\ SumTo(u, UserEnd - 1) \in Nat
    BY <1>2, <1>4, SumIs
  <2>4. SumTo(v, UserEnd - 1) = SumTo(w, UserEnd - 1)
    BY <1>4, <1>6, <2>1, <2>2, <2>3
  <2> QED
    BY <1>1, <1>4, <1>9, <2>3, <2>4 DEF Total
<1> QED
  BY <1>8, <1>9

\* Of every task but init what is mapped grows by no more than its charge.
Paid ==
  \A t \in Task \ {InitTask} : InTable(t) =>
    Total(t)' - Total(t) <= info'[t].total_commit - info[t].total_commit

LEMMA PaidKeeps ==
  ASSUME PInv, PInv', ChargedInFull, Paid, \A t \in Task : InTable(t)' => InTable(t)
  PROVE  ChargedInFull'
<1> SUFFICES ASSUME NEW t \in Task \ {InitTask}, InTable(t)
             PROVE  Total(t)' <= info'[t].total_commit
  BY DEF ChargedInFull, Total
<1>1. Total(t) <= info[t].total_commit
  BY DEF ChargedInFull, Total
<1>2. Total(t)' - Total(t) <= info'[t].total_commit - info[t].total_commit
  BY DEF Paid
<1>3. /\ Total(t) \in Nat /\ Total(t)' \in Nat
      /\ info[t].total_commit \in Int /\ info'[t].total_commit \in Int
  BY TotalTyped DEF PInv, IInv, Counters, Within, TaskInfo
<1> QED
  BY <1>1, <1>2, <1>3

\* Nothing is registered, and the charge stays.
LEMMA PaidWhenStill ==
  ASSUME PInv, PInv', UNCHANGED <<virt_page_caps, cap_level>>,
         \A t \in Task : info'[t].total_commit = info[t].total_commit
  PROVE  Paid
<1> SUFFICES ASSUME NEW t \in Task
             PROVE  Total(t)' - Total(t) <= info'[t].total_commit - info[t].total_commit
  BY DEF Paid
<1>1. Total(t)' = Total(t) /\ Total(t) \in Nat
  BY TotalTyped DEF Total, Sizes, PInv, IInv
<1>2. info[t].total_commit \in Int /\ info'[t].total_commit = info[t].total_commit
  BY DEF PInv, IInv, Counters, Within, TaskInfo
<1> QED
  BY <1>1, <1>2

\* A page that comes from nowhere, and is charged its size or more.
LEMMA PaidWhenPut ==
  ASSUME PInv, PInv', NEW c \in Cap, NEW id \in Task, NEW va \in Va, NEW level \in Level,
         virt_page_caps[id][va] = NoCap, Put(c, id, va, level),
         \A t \in Task \ {InitTask}, w \in Va : mapped[c] # <<t, w>>,
         id # InitTask =>
           info'[id].total_commit >= info[id].total_commit + PageSize[level],
         \A t \in Task \ {id, InitTask} : info'[t].total_commit = info[t].total_commit
  PROVE  Paid
<1> SUFFICES ASSUME NEW t \in Task \ {InitTask}
             PROVE  Total(t)' - Total(t) <= info'[t].total_commit - info[t].total_commit
  BY DEF Paid
<1>1. Total(t)' = Total(t) + (IF t = id THEN PageSize[level] ELSE 0)
  BY PutAdds DEF PInv, IInv
<1>2. Total(t) \in Nat /\ PageSize[level] \in Nat
  BY TotalTyped, LevelAssumption DEF PInv, IInv
<1>3. info[t].total_commit \in Int /\ info'[t].total_commit \in Int
  BY DEF PInv, IInv, Counters, Within, TaskInfo
<1>4. CASE t = id
  BY <1>1, <1>2, <1>3, <1>4
<1>5. CASE t # id
  BY <1>1, <1>2, <1>3, <1>5
<1> QED
  BY <1>4, <1>5

LEMMA NewPagePaid ==
  ASSUME PInv, PInv', NEW id \in Task, NEW va \in Va, NEW level \in Level,
         virt_page_caps[id][va] = NoCap, NewPage(id, level, va),
         info'[id].total_commit >= info[id].total_commit + PageSize[level],
         \A t \in Task \ {id} : info'[t].total_commit = info[t].total_commit
  PROVE  Paid
<1>1. PICK c \in Cap : Put(c, id, va, level) /\ mapped[c] = Unmapped
  BY NewPagePuts DEF PInv, IInv
<1>2. \A t \in Task, w \in Va : mapped[c] # <<t, w>>
  BY <1>1, PlaceIsNotUnmapped
<1> QED
  BY <1>1, <1>2, PaidWhenPut

LEMMA MapPagePaid ==
  ASSUME PInv, PInv', NEW id \in Task, NEW va \in Va, NEW level \in Level,
         MapPage(id, level, va)
  PROVE  Paid
<1>1. /\ virt_page_caps[id][va] = NoCap /\ NewPage(id, level, va)
      /\ info' = Charged(info, id, PageSize[level])
  BY DEF MapPage, Mappable
<1>2. info \in [Task -> TaskInfo] /\ PageSize[level] \in Int
  BY TopLevel, LevelAssumption DEF PInv, IInv, Counters, Within
<1>3. /\ \A t \in Task \ {id} : info'[t].total_commit = info[t].total_commit
      /\ info'[id].total_commit = info[id].total_commit + PageSize[level]
  BY <1>1, <1>2, ChargedFields
<1>4. info[id].total_commit \in Int
  BY <1>2 DEF TaskInfo
<1> QED
  BY <1>1, <1>2, <1>3, <1>4, NewPagePaid

\* A page with data is charged twice.
LEMMA MapDataPaid ==
  ASSUME PInv, PInv', NEW id \in Task, NEW va \in Va, NEW level \in Level,
         MapData(id, level, va)
  PROVE  Paid
<1> DEFINE f == Charged(info, id, 2 * PageSize[level])
<1>1. /\ virt_page_caps[id][va] = NoCap /\ NewPage(id, level, va)
      /\ info' = Granted(f, Self, PageSize[level])
  BY DEF MapData, Mappable
<1>2. info \in [Task -> TaskInfo] /\ PageSize[level] \in Nat /\ 2 * PageSize[level] \in Int
  BY TopLevel, LevelAssumption DEF PInv, IInv, Counters, Within
<1>3. /\ f \in [Task -> TaskInfo]
      /\ \A t \in Task \ {id} : f[t].total_commit = info[t].total_commit
      /\ f[id].total_commit = info[id].total_commit + 2 * PageSize[level]
  BY <1>2, ChargedFields
<1> HIDE DEF f
<1>4. \A t \in Task : info'[t].total_commit = f[t].total_commit
  BY <1>1, <1>2, <1>3 DEF Granted, TaskInfo
<1>5. info[id].total_commit \in Int
  BY <1>2 DEF TaskInfo
<1>6. info'[id].total_commit >= info[id].total_commit + PageSize[level]
  BY <1>2, <1>3, <1>4, <1>5
<1> QED
  BY <1>1, <1>3, <1>4, <1>6, NewPagePaid

LEMMA GrowPaid ==
  ASSUME PInv, PInv', Grow
  PROVE  Paid /\ \A t \in Task : InTable(t)' => InTable(t)
<1>1. grow.id \in Task /\ (server = "growing" => InTable(grow.id))
  BY GrowIsTyped DEF PInv, IInv, Serving, InTable
<1>2. ASSUME NEW level \in Level, GrowPage(level)
      PROVE  Paid /\ \A t \in Task : InTable(t)' => InTable(t)
  <2>1. grow.start \in Va /\ UNCHANGED status
    BY <1>2 DEF GrowPage, InSpace
  <2>2. MapData(grow.id, level, grow.start) \/ MapPage(grow.id, level, grow.start)
    BY <1>2 DEF GrowPage
  <2>3. Paid
    BY <1>1, <2>1, <2>2, MapPagePaid, MapDataPaid
  <2> QED
    BY <2>1, <2>3 DEF InTable
<1>3. ASSUME \/ GrowRound
             \/ \E level \in Level : GrowAsserts(level) \/ GrowFails(level)
             \/ GrowDone
      PROVE  /\ UNCHANGED <<virt_page_caps, cap_level>>
             /\ UNCHANGED info \/ GrowDone
             /\ UNCHANGED status \/ (server = "growing" /\ Attached(grow.id))
  BY <1>3 DEF GrowRound, GrowAsserts, GrowFails, GrowDone, Grown, MapFails, MapDataFails, kernel
<1>4. ASSUME \/ GrowRound
             \/ \E level \in Level : GrowAsserts(level) \/ GrowFails(level)
             \/ GrowDone
      PROVE  Paid /\ \A t \in Task : InTable(t)' => InTable(t)
  <2>1. \A t \in Task : info'[t].total_commit = info[t].total_commit
    <3>1. CASE GrowDone
      BY <3>1, <1>1 DEF GrowDone, PInv, IInv, Counters, Within, TaskInfo
    <3>2. CASE UNCHANGED info
      BY <3>2
    <3> QED
      BY <1>3, <1>4, <3>1, <3>2
  <2>2. Paid
    BY <1>3, <1>4, <2>1, PaidWhenStill
  <2>3. ASSUME NEW t \in Task, InTable(t)' PROVE InTable(t)
    <3>1. CASE UNCHANGED status
      BY <3>1, <2>3 DEF InTable
    <3>2. CASE server = "growing" /\ Attached(grow.id)
      BY <3>2, <2>3, <1>1 DEF Attached, InTable, PInv, IInv, Pages
    <3> QED
      BY <1>3, <1>4, <3>1, <3>2
  <2> QED
    BY <2>2, <2>3
<1> QED
  BY <1>2, <1>4 DEF Grow

LEMMA VmapPaid ==
  ASSUME PInv, PInv', NEW id \in Client, NEW level \in Level, NEW arg \in VaArgs,
         Vmap(id, level, arg)
  PROVE  Paid
<1> DEFINE va == Place(id, level, arg)
<1>1. id \in Task /\ va \in Va /\ (MapPage(id, level, va) \/ MapFails(id, level, va))
  BY TaskAssumption DEF Vmap, BelowStack
<1> HIDE DEF va
<1>2. CASE MapPage(id, level, va)
  BY <1>1, <1>2, MapPagePaid
<1>3. CASE MapFails(id, level, va)
  BY <1>3, PaidWhenStill DEF MapFails, kernel
<1> QED
  BY <1>1, <1>2, <1>3

\* A page of a client's own is charged as it comes.
LEMMA VpmapPaid ==
  ASSUME PInv, PInv', NEW id \in Client, NEW c \in Cap, NEW arg \in VaArgs, Vpmap(id, c, arg)
  PROVE  Paid
<1> DEFINE level == cap_level[c]
           va    == Place(id, level, arg)
<1>1. id \in Task /\ mapped[c] = Unmapped /\ level \in Level /\ level = cap_level[c]
  BY TaskAssumption DEF Vpmap, PInv, IInv, Pages
<1>2. Acceptable(id, level, va) => va \in Va /\ virt_page_caps[id][va] = NoCap
  BY DEF Acceptable, BelowStack
<1>3. \/ /\ Acceptable(id, level, va)
         /\ virt_page_caps' = [virt_page_caps EXCEPT ![id][va] = c]
         /\ mapped' = [mapped EXCEPT ![c] = <<id, va>>]
         /\ info' = Brought(info, id, PageSize[level])
         /\ UNCHANGED cap_level
      \/ UNCHANGED <<info, virt_page_caps, kernel>>
  BY DEF Vpmap
<1> HIDE DEF level, va
<1>4. CASE UNCHANGED <<info, virt_page_caps, kernel>>
  BY <1>4, PaidWhenStill DEF kernel
<1>5. CASE /\ Acceptable(id, level, va)
           /\ virt_page_caps' = [virt_page_caps EXCEPT ![id][va] = c]
           /\ mapped' = [mapped EXCEPT ![c] = <<id, va>>]
           /\ info' = Brought(info, id, PageSize[level])
           /\ UNCHANGED cap_level
  <2>1. Put(c, id, va, level)
    BY <1>1, <1>2, <1>5, BroughtPagePuts DEF PInv, IInv
  <2>2. info \in [Task -> TaskInfo] /\ PageSize[level] \in Int
    BY <1>1, TopLevel DEF PInv, IInv, Counters, Within
  <2>3. /\ \A t \in Task \ {id} : info'[t].total_commit = info[t].total_commit
        /\ info'[id].total_commit = info[id].total_commit + PageSize[level]
    BY <2>2, <1>1, <1>5, BroughtFields
  <2>4. info[id].total_commit \in Int
    BY <2>2, <1>1 DEF TaskInfo
  <2>5. \A t \in Task, w \in Va : mapped[c] # <<t, w>>
    BY <1>1, PlaceIsNotUnmapped
  <2>6. info'[id].total_commit >= info[id].total_commit + PageSize[level]
    BY <2>2, <2>3, <2>4
  <2> QED
    BY <1>1, <1>2, <1>5, <2>1, <2>3, <2>5, <2>6, PaidWhenPut
<1> QED
  BY <1>3, <1>4, <1>5

\* vpremap charges the target as vpmap does.  What it gives back is init's:
\* the only pages that clients hold mapped are those init began with.
LEMMA VpremapPaid ==
  ASSUME SInv, PInv', NEW dst \in Client, NEW c \in Cap, NEW arg \in VaArgs, Vpremap(dst, c, arg)
  PROVE  Paid
<1> DEFINE level == cap_level[c]
           va    == Place(dst, level, arg)
<1>1. /\ dst \in Task /\ mapped[c] # Unmapped /\ level \in Level /\ level = cap_level[c]
      /\ c \in held
  BY TaskAssumption DEF Vpremap, SInv, PInv, IInv, Pages
<1>2. PICK src \in Task, sva \in Va : mapped[c] = <<src, sva>>
  BY <1>1 DEF SInv, PInv, IInv, Pages
<1>3. src = InitTask
  BY <1>1, <1>2 DEF SInv, HeldPages
<1>4. Acceptable(dst, level, va) => /\ va \in Va /\ virt_page_caps[dst][va] = NoCap
                                    /\ va % PageSize[level] = 0
  BY DEF Acceptable, BelowStack
<1>5. \/ /\ Acceptable(dst, level, va)
         /\ ~SlotOccupied(dst, level, va)
         /\ MovePage(c, src, sva, dst, va)
         /\ info' = Charged(Brought(info, dst, PageSize[level]), src, -PageSize[level])
      \/ UNCHANGED <<info, virt_page_caps, kernel>>
  BY <1>2 DEF Vpremap
<1> HIDE DEF level, va
<1>6. CASE UNCHANGED <<info, virt_page_caps, kernel>>
  BY <1>6, PaidWhenStill DEF kernel, SInv
<1>7. CASE /\ Acceptable(dst, level, va)
           /\ ~SlotOccupied(dst, level, va)
           /\ MovePage(c, src, sva, dst, va)
           /\ info' = Charged(Brought(info, dst, PageSize[level]), src, -PageSize[level])
  <2>1. ~(src = dst /\ sva = va)
    <3>1. va \in Nat /\ RoundDown(va, PageSize[level]) = va
      BY <1>1, <1>4, <1>7, VaIsNat, LevelAssumption, Rounded
    <3> QED
      BY <3>1, <1>1, <1>2, <1>7 DEF SlotOccupied
  <2>2. Put(c, dst, va, level)
    BY <1>1, <1>2, <1>4, <1>7, <2>1, MovePagePuts DEF SInv, PInv, IInv
  <2>3. \A t \in Task \ {InitTask}, w \in Va : mapped[c] # <<t, w>>
    BY <1>2, <1>3
  <2> DEFINE f == Brought(info, dst, PageSize[level])
  <2>4. info \in [Task -> TaskInfo] /\ PageSize[level] \in Int /\ -PageSize[level] \in Int
    BY <1>1, TopLevel DEF SInv, PInv, IInv, Counters, Within
  <2>5. /\ f \in [Task -> TaskInfo]
        /\ \A t \in Task \ {dst} : f[t].total_commit = info[t].total_commit
        /\ f[dst].total_commit = info[dst].total_commit + PageSize[level]
    BY <2>4, <1>1, BroughtFields
  <2>6. info' = Charged(f, src, -PageSize[level])
    BY <1>7
  <2> HIDE DEF f
  <2>7. \A t \in Task \ {InitTask} : info'[t].total_commit = f[t].total_commit
    BY <2>4, <2>5, <2>6, <1>2, <1>3, ChargedFields
  <2>8. dst # InitTask => info'[dst].total_commit >= info[dst].total_commit + PageSize[level]
    <3>1. info[dst].total_commit \in Int
      BY <2>4, <1>1 DEF TaskInfo
    <3> QED
      BY <2>4, <2>5, <2>7, <1>1, <3>1
  <2> QED
    BY <1>1, <1>4, <1>7, <2>2, <2>3, <2>5, <2>7, <2>8, PaidWhenPut DEF SInv
<1> QED
  BY <1>5, <1>6, <1>7

\* vremap takes the charge along with the page.
LEMMA VremapPaid ==
  ASSUME PInv, PInv', NEW src \in Client, NEW dst \in Client, NEW sva \in Va, NEW arg \in VaArgs,
         Vremap(src, dst, sva, arg)
  PROVE  Paid
<1> DEFINE c     == virt_page_caps[src][sva]
           level == cap_level[c]
           va    == Place(dst, level, arg)
<1>1. src \in Task /\ dst \in Task
  BY TaskAssumption
<1>2. c # NoCap
  BY DEF Vremap
<1>3. c \in Cap /\ mapped[c] = <<src, sva>> /\ level \in Level
  <2>1. c \in Cap /\ mapped[c] = <<src, sva>>
    BY <1>1, <1>2 DEF PInv, IInv, Pages, RegistryMatchesKernel
  <2> QED
    BY <2>1, PlaceIsNotUnmapped DEF PInv, IInv, Pages
<1>4. \/ UNCHANGED <<info, virt_page_caps, kernel>>
      \/ /\ InSpace(level, va) /\ virt_page_caps[dst][va] = NoCap
         /\ MovePage(c, src, sva, dst, va)
         /\ info' = Charged(Charged(info, dst, PageSize[level]), src, -PageSize[level])
  BY DEF Vremap, Mappable
<1>5. InSpace(level, va) => va \in Va
  BY DEF InSpace
<1>6. c = virt_page_caps[src][sva] /\ level = cap_level[c]
  OBVIOUS
<1> HIDE DEF c, level, va
<1>7. CASE UNCHANGED <<info, virt_page_caps, kernel>>
  BY <1>7, PaidWhenStill DEF kernel
<1>8. CASE /\ InSpace(level, va) /\ virt_page_caps[dst][va] = NoCap
           /\ MovePage(c, src, sva, dst, va)
           /\ info' = Charged(Charged(info, dst, PageSize[level]), src, -PageSize[level])
  <2>1. ~(src = dst /\ sva = va)
    BY <1>2, <1>6, <1>8
  <2>2. Put(c, dst, va, level)
    BY <1>1, <1>3, <1>5, <1>6, <1>8, <2>1, MovePagePuts DEF PInv, IInv
  <2> DEFINE f == Charged(info, dst, PageSize[level])
  <2>3. info \in [Task -> TaskInfo] /\ PageSize[level] \in Nat /\ -PageSize[level] \in Int
    BY <1>3, TopLevel DEF PInv, IInv, Counters, Within
  <2>4. /\ f \in [Task -> TaskInfo]
        /\ \A t \in Task : t # dst => f[t].total_commit = info[t].total_commit
        /\ f[dst].total_commit = info[dst].total_commit + PageSize[level]
    BY <2>3, <1>1, ChargedFields
  <2>5. info' = Charged(f, src, -PageSize[level])
    BY <1>8
  <2> HIDE DEF f
  <2>6. /\ \A t \in Task : t # src => info'[t].total_commit = f[t].total_commit
        /\ info'[src].total_commit = f[src].total_commit + (-PageSize[level])
    BY <2>3, <2>4, <2>5, <1>1, ChargedFields
  <2> SUFFICES ASSUME NEW t \in Task
               PROVE  Total(t)' - Total(t) <= info'[t].total_commit - info[t].total_commit
    BY DEF Paid
  <2>7. /\ Total(t) \in Nat /\ info[t].total_commit \in Int
        /\ info[src].total_commit \in Int /\ info[dst].total_commit \in Int
    BY <1>1, <2>3, TotalTyped DEF TaskInfo, PInv, IInv
  <2>8. CASE t = src
    <3>1. Total(src)' = Total(src) + (IF src = dst THEN PageSize[level] ELSE 0) - PageSize[level]
      BY <1>1, <1>3, <1>5, <1>6, <1>8, <2>2, PutMoves DEF PInv, IInv
    <3> QED
      BY <2>3, <2>4, <2>6, <2>7, <2>8, <3>1, <1>1
  <2>9. CASE t # src
    <3>1. \A w \in Va : mapped[c] # <<t, w>>
      BY <1>3, <2>9
    <3>2. Total(t)' = Total(t) + (IF t = dst THEN PageSize[level] ELSE 0)
      BY <1>1, <1>3, <1>5, <1>8, <2>2, <3>1, PutAdds DEF PInv, IInv
    <3> QED
      BY <2>3, <2>4, <2>6, <2>7, <2>9, <3>2
  <2> QED
    BY <2>8, <2>9
<1> QED
  BY <1>4, <1>7, <1>8

\* A task that is attached has nothing yet, and is charged nothing.
LEMMA AttachCharged ==
  ASSUME PInv, PInv', ChargedInFull, NEW id \in Client, NEW arg \in AttachArgs, Attach(id, arg)
  PROVE  ChargedInFull'
<1>1. /\ id \in Task /\ status[id] = "fresh" /\ UNCHANGED <<virt_page_caps, cap_level>>
  BY TaskAssumption DEF Attach, kernel
<1>2. \A t \in Task \ {id} : status'[t] = status[t] /\ info'[t] = info[t]
  BY <1>1 DEF Attach, Attached, PInv, IInv, Pages, Counters, Within
<1>3. info'[id].total_commit = 0
  BY <1>1 DEF Attach, PInv, IInv, Counters, Within
<1>4. Total(id) = 0
  <2>1. PICK w : w = Sizes(id)
    OBVIOUS
  <2>2. w \in [Nat -> Nat] /\ \A k \in Nat : w[k] = 0
    <3>1. \A va \in Va : virt_page_caps[id][va] = NoCap
      BY <1>1 DEF PInv, Places, Attachments, InTable
    <3> QED
      BY <3>1, <2>1 DEF Sizes
  <2>3. SumTo(w, UserEnd - 1) = 0
    BY <2>2, SpaceAssumption, SumOfNothing
  <2> QED
    BY <2>1, <2>3 DEF Total
<1>5. \A t \in Task : Total(t)' = Total(t)
  BY <1>1 DEF Total, Sizes
<1> SUFFICES ASSUME NEW t \in Task \ {InitTask}, InTable(t)'
             PROVE  Total(t)' <= info'[t].total_commit
  BY DEF ChargedInFull, Total
<1>6. CASE t = id
  BY <1>3, <1>4, <1>5, <1>6
<1>7. CASE t # id
  <2>1. InTable(t)
    BY <1>2, <1>7 DEF InTable
  <2>2. Total(t) <= info[t].total_commit
    BY <2>1 DEF ChargedInFull, Total
  <2> QED
    BY <2>2, <1>2, <1>5, <1>7
<1> QED
  BY <1>6, <1>7

LEMMA DetachCharged ==
  ASSUME PInv, PInv', ChargedInFull, NEW id \in Client, Detach(id)
  PROVE  ChargedInFull'
<1>1. /\ id \in Task /\ UNCHANGED cap_level
      /\ status' = [status EXCEPT ![id] = "detached"]
      /\ info' = [info EXCEPT ![id] = NoInfo]
      /\ virt_page_caps' = [virt_page_caps EXCEPT ![id] = [va \in Va |-> NoCap]]
  BY TaskAssumption DEF Detach, kernel
<1>2. \A t \in Task \ {id} : /\ status'[t] = status[t] /\ info'[t] = info[t]
                             /\ virt_page_caps'[t] = virt_page_caps[t]
  BY <1>1 DEF PInv, IInv, Pages, Counters, Within
<1> SUFFICES ASSUME NEW t \in Task \ {InitTask}, InTable(t)'
             PROVE  Total(t)' <= info'[t].total_commit
  BY DEF ChargedInFull, Total
<1>3. t # id
  BY <1>1 DEF InTable, PInv, IInv, Pages
<1>4. Total(t)' = Total(t) /\ info'[t] = info[t] /\ InTable(t)
  BY <1>1, <1>2, <1>3 DEF Total, Sizes, InTable
<1>5. Total(t) <= info[t].total_commit
  BY <1>4 DEF ChargedInFull, Total
<1> QED
  BY <1>4, <1>5

LEMMA CreatePagePaid ==
  ASSUME PInv, PInv', NEW c \in Cap, NEW level \in OwnLevels, CreatePage(c, level)
  PROVE  Paid
<1>1. /\ cap_level[c] = NoLevel /\ cap_level' = [cap_level EXCEPT ![c] = level]
      /\ UNCHANGED <<info, virt_page_caps>>
  BY DEF CreatePage
<1> SUFFICES ASSUME NEW t \in Task
             PROVE  Total(t)' - Total(t) <= info'[t].total_commit - info[t].total_commit
  BY DEF Paid
<1>2. ASSUME NEW w \in Va PROVE Sizes(t)'[w] = Sizes(t)[w]
  <2>1. CASE virt_page_caps[t][w] = NoCap
    BY <2>1, <1>1, VaIsNat DEF Sizes
  <2>2. CASE virt_page_caps[t][w] # NoCap
    <3>1. virt_page_caps[t][w] \in Cap /\ mapped[virt_page_caps[t][w]] = <<t, w>>
      BY <2>2 DEF PInv, IInv, Pages, RegistryMatchesKernel
    <3>2. virt_page_caps[t][w] # c
      BY <3>1, <1>1, PlaceIsNotUnmapped DEF PInv, IInv, Pages
    <3>3. cap_level'[virt_page_caps[t][w]] = cap_level[virt_page_caps[t][w]]
      BY <3>1, <3>2, <1>1 DEF PInv, IInv, Pages
    <3> QED
      BY <3>3, <1>1, VaIsNat DEF Sizes
  <2> QED
    BY <2>1, <2>2
<1>3. Total(t)' = Total(t) /\ Total(t) \in Nat
  BY <1>2, TotalStays, TotalTyped DEF PInv, IInv
<1>4. info'[t].total_commit = info[t].total_commit /\ info[t].total_commit \in Int
  BY <1>1 DEF PInv, IInv, Counters, Within, TaskInfo
<1> QED
  BY <1>3, <1>4

LEMMA ChargesKept == SInv /\ ChargedInFull /\ [Next]_vars => ChargedInFull'
<1> SUFFICES ASSUME SInv, ChargedInFull, [Next]_vars PROVE ChargedInFull'
  OBVIOUS
<1>1. PInv /\ PInv'
  BY StepHolds, PlacesKept, ServingKept DEF SInv, PInv
<1>2. UNCHANGED status => \A t \in Task : InTable(t)' => InTable(t)
  BY DEF InTable
<1>3. CASE \E id \in Client, arg \in AttachArgs : Attach(id, arg)
  BY <1>1, <1>3, AttachCharged
<1>4. CASE Grow
  BY <1>1, <1>4, GrowPaid, PaidKeeps
<1>5. CASE \E id \in Client, level \in Level, arg \in VaArgs : Vmap(id, level, arg)
  <2>1. UNCHANGED status
    BY <1>5 DEF Vmap
  <2> QED
    BY <1>1, <1>2, <1>5, <2>1, VmapPaid, PaidKeeps
<1>6. CASE \E src, dst \in Client, sva \in Va, arg \in VaArgs : Vremap(src, dst, sva, arg)
  <2>1. UNCHANGED status
    BY <1>6 DEF Vremap
  <2> QED
    BY <1>1, <1>2, <1>6, <2>1, VremapPaid, PaidKeeps
<1>7. CASE \E id \in Client, c \in Cap, arg \in VaArgs : Vpmap(id, c, arg)
  <2>1. UNCHANGED status
    BY <1>7 DEF Vpmap
  <2> QED
    BY <1>1, <1>2, <1>7, <2>1, VpmapPaid, PaidKeeps
<1>8. CASE \E dst \in Client, c \in Cap, arg \in VaArgs : Vpremap(dst, c, arg)
  <2>1. UNCHANGED status
    BY <1>8 DEF Vpremap
  <2> QED
    BY <1>1, <1>2, <1>8, <2>1, VpremapPaid, PaidKeeps
<1>9. CASE \E id \in Client : Detach(id)
  BY <1>1, <1>9, DetachCharged
<1>10. CASE \E c \in Cap, level \in OwnLevels : CreatePage(c, level)
  <2>1. UNCHANGED status
    BY <1>10 DEF CreatePage
  <2> QED
    BY <1>1, <1>2, <1>10, <2>1, CreatePagePaid, PaidKeeps
<1>11. CASE UNCHANGED vars
  BY <1>11 DEF vars, kernel, ChargedInFull, Sizes, InTable
<1> QED
  BY <1>3, <1>4, <1>5, <1>6, <1>7, <1>8, <1>9, <1>10, <1>11 DEF Next

\* mm has, as it boots, nothing registered and its first stack charged.
LEMMA ChargesInit == Init => ChargedInFull
<1> SUFFICES ASSUME Init, NEW t \in Task \ {InitTask}, InTable(t)
             PROVE  Total(t) <= info[t].total_commit
  BY DEF ChargedInFull, Total
<1>1. PICK w : w = Sizes(t)
  OBVIOUS
<1>2. w \in [Nat -> Nat] /\ \A k \in Nat : w[k] = 0
  BY <1>1 DEF Init, Sizes
<1>3. SumTo(w, UserEnd - 1) = 0
  BY <1>2, SpaceAssumption, SumOfNothing
<1>4. info[t].total_commit \in Nat
  BY SpaceAssumption DEF Init, NoInfo
<1> QED
  BY <1>1, <1>3, <1>4 DEF Total

\* No page is had for nothing: what is mapped for a task, other than init, is
\* charged to it in full, however pages come, move between tasks and leave
\* with them, so that what is given back was charged before.
THEOREM NothingForFree == Spec => []ChargedInFull
<1>1. Init => SInv /\ ChargedInFull
  BY InitHolds, PlacesInit, StacksInit, ChargesInit DEF SInv, PInv
<1> QED
  BY <1>1, StacksKept, ChargesKept, PTL DEF Spec
==============================================================================
