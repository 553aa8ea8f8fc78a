----------------------------- MODULE MmBootProofs -----------------------------
(* The RAM of the machine, and how it passes from init to mm.  mm never    *)
(* hands out the same RAM twice, for any regions and any sequence of        *)
(* requests; and while mm comes to life and after, init and mm cut their    *)
(* objects out of the same RAM by rules that are not quite the same, one    *)
(* after the other and in part side by side: no two of them share any.      *)
(* Of the page tables and pages that init made for mm, mm is told by a      *)
(* message in parts and registers those it needs, and it looks for the      *)
(* table of its heap where its program ends: what it registers is all that  *)
(* is there, and its heap starts where it believes.                         *)
EXTENDS MmBoot, NaturalsInduction, WellFoundedInduction, TLAPS

-----------------------------------------------------------------------------
(* fetch_mem_cap.                                                           *)

\* Two regions, one below the other: what is used of the lower one ends
\* before anything in the upper one begins.
LEMMA BelowNext ==
  ASSUME NEW low \in Nat, NEW len \in Nat, NEW high \in Nat,
         NEW end \in Nat, NEW begin \in Nat,
         low + len <= high, end <= low + len, begin >= high
  PROVE  end <= begin
  OBVIOUS

\* RoundUp loses nothing and moves by less than the alignment.
LEMMA RoundUpBound ==
  ASSUME NEW x \in Nat, NEW align \in Nat \ {0}
  PROVE  RoundUp(x, align) \in Nat /\ RoundUp(x, align) >= x
<1> DEFINE q == (x + align - 1) \div align
<1>1. q \in Nat
  OBVIOUS
<1>2. x + align - 1 = align * q + ((x + align - 1) % align)
  OBVIOUS
<1>3. (x + align - 1) % align \in 0 .. align - 1
  OBVIOUS
<1>4. align * q = q * align /\ q * align \in Nat
  BY <1>1
<1> QED
  BY <1>1, <1>2, <1>3, <1>4 DEF RoundUp

\* The objects of a region lie in the part of it that is used.
Packed ==
  /\ \A i \in 1 .. Len(objects) :
       /\ objects[i].base >= Addr[objects[i].region]
       /\ objects[i].base + objects[i].size
            <= Addr[objects[i].region] + used[objects[i].region]
  /\ \A i, j \in 1 .. Len(objects) : i # j =>
       \/ objects[i].base + objects[i].size <= objects[j].base
       \/ objects[j].base + objects[j].size <= objects[i].base

IInv == TypeOK /\ Packed

\* What a cut does, in terms of the object: it lies above all that is used of
\* its region and within the region, which is then used up to it.
LEMMA CutFits ==
  ASSUME TypeOK, NEW r \in Region, NEW size \in Nat \ {0}, NEW align \in Nat,
         HasRoom(r, size, align)
  PROVE  /\ BaseIn(r, align) \in Nat
         /\ BaseIn(r, align) >= Addr[r] + used[r]
         /\ BaseIn(r, align) + size <= Addr[r] + Size[r]
<1>1. Addr[r] \in Nat /\ Size[r] \in Nat /\ used[r] \in Nat
  BY RegionAssumption DEF TypeOK
<1>2. Alignment(align) \in Nat \ {0}
  BY DEF Alignment
<1>3. BaseIn(r, align) \in Nat /\ BaseIn(r, align) >= Addr[r] + used[r]
  <2>1. Addr[r] + used[r] \in Nat
    BY <1>1
  <2> QED
    BY <2>1, <1>2, RoundUpBound DEF BaseIn
<1>4. BaseIn(r, align) + size <= Addr[r] + Size[r]
  BY <1>1, <1>3 DEF HasRoom
<1> QED
  BY <1>3, <1>4

\* Whoever cuts an object from a region that has room for it, mm or init.
LEMMA CutKeepsPacked ==
  ASSUME IInv, NEW r \in Region, NEW size \in Nat \ {0}, NEW align \in Nat,
         HasRoom(r, size, align), Cut(r, size, align)
  PROVE  IInv'
<1> DEFINE b   == BaseIn(r, align)
           new == [region |-> r, base |-> b, size |-> size]
           n   == Len(objects)
<1>1. /\ b \in Nat /\ b >= Addr[r] + used[r]
      /\ b + size <= Addr[r] + Size[r]
      /\ used' = [used EXCEPT ![r] = b + size - Addr[r]]
      /\ objects' = Append(objects, new)
  BY CutFits DEF IInv, Cut
<1> HIDE DEF b
<1>2. objects \in Seq(Object) /\ new \in Object
  BY <1>1 DEF IInv, TypeOK, Object
<1>3. /\ objects' \in Seq(Object)
      /\ Len(objects') = n + 1
      /\ objects'[n + 1] = new
      /\ \A i \in 1 .. n : objects'[i] = objects[i] /\ objects[i] \in Object
      /\ n \in Nat
  BY <1>1, <1>2
<1>4. \A s \in Region : Addr[s] \in Nat /\ Size[s] \in Nat /\ used[s] \in Nat /\ used[s] <= Size[s]
  BY RegionAssumption DEF IInv, TypeOK
<1>5. /\ used'[r] = b + size - Addr[r]
      /\ used'[r] >= used[r]
      /\ \A s \in Region : s # r => used'[s] = used[s]
      /\ \A s \in Region : used'[s] \in Nat /\ used'[s] >= used[s] /\ used'[s] <= Size[s]
  BY <1>1, <1>4, SMTT(30) DEF IInv, TypeOK
<1>6. TypeOK'
  <2>1. used' \in [Region -> Nat]
    BY <1>1, <1>4, <1>5 DEF IInv, TypeOK
  <2> QED
    BY <2>1, <1>3, <1>5 DEF TypeOK
<1>7. \A i \in 1 .. n :
        /\ objects[i].region \in Region /\ objects[i].base \in Nat /\ objects[i].size \in Nat \ {0}
        /\ objects[i].base >= Addr[objects[i].region]
        /\ objects[i].base + objects[i].size <= Addr[objects[i].region] + used[objects[i].region]
  BY <1>3 DEF IInv, Packed, Object
<1>8. \A i \in 1 .. n : \/ objects[i].base + objects[i].size <= b
                        \/ b + size <= objects[i].base
  <2> SUFFICES ASSUME NEW i \in 1 .. n
               PROVE  \/ objects[i].base + objects[i].size <= b
                      \/ b + size <= objects[i].base
    OBVIOUS
  <2> DEFINE s == objects[i].region
             e == objects[i].base + objects[i].size
  <2>0. /\ s \in Region /\ e \in Nat /\ objects[i].base \in Nat
        /\ objects[i].base >= Addr[s] /\ e <= Addr[s] + used[s]
    BY <1>7
  <2>1. CASE s = r
    <3>1. e <= Addr[r] + used[r]
      BY <2>0, <2>1
    <3> HIDE DEF e
    <3>2. e <= b
      BY <3>1, <2>0, <1>1, <1>4, SMTT(30)
    <3> QED
      BY <3>2 DEF e
  <2>2. CASE s # r
    <3>1. Addr[r] + Size[r] <= Addr[s] \/ Addr[s] + Size[s] <= Addr[r]
      BY <2>2, <1>7, RegionAssumption
    <3>2. Addr[s] + used[s] <= Addr[s] + Size[s]
      BY <2>0, <1>4
    <3>3. /\ Addr[r] \in Nat /\ used[r] \in Nat /\ Size[r] \in Nat
          /\ Addr[s] \in Nat /\ used[s] \in Nat /\ Size[s] \in Nat
      BY <2>0, <1>4
    <3>4. size \in Nat /\ b \in Nat /\ b >= Addr[r] + used[r] /\ b + size <= Addr[r] + Size[r]
      BY <1>1
    <3> HIDE DEF e, s
    <3>5. CASE Addr[r] + Size[r] <= Addr[s]
      <4>1. Addr[s] <= objects[i].base /\ objects[i].base \in Nat
        BY <2>0
      <4>2. b + size \in Nat
        BY <3>4
      <4>3. b + size <= objects[i].base
        BY <3>5, <3>3, <3>4, <4>1, <4>2, BelowNext
      <4> QED
        BY <4>3
    <3>6. CASE Addr[s] + Size[s] <= Addr[r]
      <4>1. e <= Addr[s] + Size[s]
        BY <3>2, <3>3, <2>0
      <4>2. b >= Addr[r]
        BY <3>3, <3>4
      <4>3. e <= b
        BY <4>1, <4>2, <3>6, <3>3, <3>4, <2>0, BelowNext
      <4> QED
        BY <4>3 DEF e
    <3> QED
      BY <3>1, <3>5, <3>6
  <2> QED
    BY <2>1, <2>2
<1>9. Packed'
  <2>1. ASSUME NEW i \in 1 .. n + 1
        PROVE  /\ objects'[i].base >= Addr[objects'[i].region]
               /\ objects'[i].base + objects'[i].size
                    <= Addr[objects'[i].region] + used'[objects'[i].region]
    <3>1. CASE i = n + 1
      <4>1. objects'[i] = new
        BY <3>1, <1>3
      <4>2. new.base = b /\ new.size = size /\ new.region = r
        OBVIOUS
      <4>3. b >= Addr[r] /\ b + size <= Addr[r] + used'[r]
        BY <1>1, <1>4, <1>5, SMTT(30)
      <4> QED
        BY <4>1, <4>2, <4>3
    <3>2. CASE i # n + 1
      <4>1. i \in 1 .. n
        BY <3>2, <1>3
      <4> DEFINE o == objects[i]
      <4>2. objects'[i] = o
        BY <4>1, <1>3
      <4>3. /\ o.region \in Region /\ o.base \in Nat /\ o.size \in Nat /\ o.base >= Addr[o.region]
            /\ o.base + o.size <= Addr[o.region] + used[o.region]
        BY <4>1, <1>7
      <4>4. /\ used[o.region] <= used'[o.region] /\ used[o.region] \in Nat
            /\ used'[o.region] \in Nat /\ Addr[o.region] \in Nat
        BY <4>3, <1>4, <1>5
      <4> HIDE DEF o
      <4>5. o.base >= Addr[o.region] /\ o.base + o.size <= Addr[o.region] + used'[o.region]
        BY <4>3, <4>4, SMTT(30)
      <4> QED
        BY <4>2, <4>5
    <3> QED
      BY <3>1, <3>2
  <2>2. ASSUME NEW i \in 1 .. n + 1, NEW j \in 1 .. n + 1, i # j
        PROVE  \/ objects'[i].base + objects'[i].size <= objects'[j].base
               \/ objects'[j].base + objects'[j].size <= objects'[i].base
    <3>1. CASE i = n + 1
      <4>1. j \in 1 .. n
        BY <3>1, <2>2, <1>3
      <4> QED
        BY <4>1, <3>1, <1>3, <1>8
    <3>2. CASE j = n + 1
      <4>1. i \in 1 .. n
        BY <3>2, <2>2, <1>3
      <4> QED
        BY <4>1, <3>2, <1>3, <1>8
    <3>3. CASE i # n + 1 /\ j # n + 1
      <4>1. i \in 1 .. n /\ j \in 1 .. n
        BY <3>3, <1>3
      <4> QED
        BY <4>1, <2>2, <1>3 DEF IInv, Packed
    <3> QED
      BY <3>1, <3>2, <3>3
  <2> QED
    BY <2>1, <2>2, <1>3 DEF Packed
<1> QED
  BY <1>6, <1>9 DEF IInv

LEMMA FetchKeepsPacked ==
  ASSUME IInv, NEW req \in (Nat \ {0}) \X Nat, Fetch(req[1], req[2])
  PROVE  IInv'
<1>1. PICK r \in Region : HasRoom(r, req[1], req[2]) /\ Cut(r, req[1], req[2])
  BY DEF Fetch, Best
<1>2. req[1] \in Nat \ {0} /\ req[2] \in Nat
  OBVIOUS
<1> QED
  BY <1>1, <1>2, CutKeepsPacked

\* The invariant: fetch_mem_cap keeps every object in the used part of its
\* region, and the next one is cut above it.
THEOREM PackedInvariant == Spec => []IInv
<1>1. Init => IInv
  BY RegionAssumption DEF Init, IInv, TypeOK, Packed
<1>2. IInv /\ [Next]_vars => IInv'
  <2> SUFFICES ASSUME IInv, [Next]_vars PROVE IInv'
    OBVIOUS
  <2>1. CASE Next
    BY <2>1, FetchKeepsPacked, RequestAssumption DEF Next
  <2>2. CASE UNCHANGED vars
    BY <2>2 DEF vars, IInv, TypeOK, Packed
  <2> QED
    BY <2>1, <2>2
<1> QED
  BY <1>1, <1>2, PTL DEF Spec

LEMMA PackedIsApart ==
  ASSUME IInv
  PROVE  ObjectsApart
<1>1. ASSUME NEW i \in 1 .. Len(objects)
      PROVE  objects[i].base + objects[i].size
               <= Addr[objects[i].region] + Size[objects[i].region]
  <2>1. objects[i] \in Object
    BY DEF IInv, TypeOK
  <2>2. objects[i].region \in Region /\ objects[i].base \in Nat /\ objects[i].size \in Nat
    BY <2>1 DEF Object
  <2>3. /\ used[objects[i].region] \in Nat
        /\ used[objects[i].region] <= Size[objects[i].region]
        /\ Addr[objects[i].region] \in Nat /\ Size[objects[i].region] \in Nat
    BY <2>2, RegionAssumption DEF IInv, TypeOK
  <2>4. objects[i].base + objects[i].size <= Addr[objects[i].region] + used[objects[i].region]
    BY DEF IInv, Packed
  <2> QED
    BY <2>2, <2>3, <2>4
<1> QED
  BY <1>1 DEF IInv, Packed, ObjectsApart

\* No memory object shares RAM with another or leaves its region: what
\* fetch_mem_cap cuts for a page, a table or a client is theirs alone.
THEOREM ObjectsStayApart == Spec => []ObjectsApart
BY PackedIsApart, PackedInvariant, PTL

-----------------------------------------------------------------------------
(* From the boot on.                                                        *)

Job == [kind : Kind \cup {"page"}, va : Int]

\* What init has still to make is something it knows the size of.
Queue == todo \in Seq(Job)

BootInv == IInv /\ Queue

LEMMA Sizes ==
  /\ \A kind \in Kind : Need(kind)[1] \in Nat \ {0} /\ Need(kind)[2] \in Nat
  /\ \A level \in Level : NeedPage(level)[1] \in Nat \ {0} /\ NeedPage(level)[2] \in Nat
<1>1. ASSUME NEW kind \in Kind
      PROVE  Need(kind)[1] \in Nat \ {0} /\ Need(kind)[2] \in Nat
  <2>1. ObjectSize[kind] \in (Nat \ {0}) \X Nat
    BY MmBootAssumption
  <2> QED
    BY <2>1 DEF Need
<1>2. ASSUME NEW level \in Level
      PROVE  NeedPage(level)[1] \in Nat \ {0} /\ NeedPage(level)[2] \in Nat
  <2>1. PageSize[level] \in Nat \ {0} /\ KiloMem \in Nat \ {0}
    BY MmBootAssumption
  <2>2. PageSize[level] * KiloMem \in Nat \ {0}
    BY <2>1
  <2> QED
    BY <2>2 DEF NeedPage
<1> QED
  BY <1>1, <1>2

LEMMA LevelsExist == Kilo \in Level /\ Mega \in Level
BY MmBootAssumption DEF Kilo, Mega, Level

LEMMA JobsKnown ==
  ASSUME NEW elf \in Elves
  PROVE  Jobs(elf) \in Seq(Job)
<1>1. elf[1] \in Nat /\ elf[2] \in Nat /\ MaxPage \in Nat /\ UserEnd \in Nat
  BY MmBootAssumption
<1>2. \A kind \in Kind : Make(kind) \in Job
  BY DEF Make, Job
<1>3. \A va \in Int : Map(va) \in Job
  BY DEF Map, Job
<1>4. << Make("cap_space"), Make("page_table") >> \in Seq(Job) /\ << Make("task") >> \in Seq(Job)
  BY <1>2 DEF Kind
<1>5. [lv \in 1 .. MaxPage |-> Make("page_table")] \in Seq(Job)
  BY <1>1, <1>2 DEF Kind
<1>6. [i \in 1 .. elf[2] |-> Map(elf[1] + i - 1)] \in Seq(Job)
  BY <1>1, <1>3
<1>7. << Map(UserEnd - 1), Make("endpoint") >> \in Seq(Job)
  BY <1>1, <1>2, <1>3 DEF Kind
<1> QED
  BY <1>4, <1>5, <1>6, <1>7 DEF Jobs

\* init, and mm before it has its registry, look among some of the regions.
LEMMA EarlyKeepsPacked ==
  ASSUME IInv, NEW candidates \in SUBSET Region,
         NEW size \in Nat \ {0}, NEW align \in Nat,
         EarlyFetch(candidates, size, align)
  PROVE  IInv'
<1>1. PICK r \in Region : HasRoom(r, size, align) /\ Cut(r, size, align)
  BY DEF EarlyFetch, EarlyBest
<1> QED
  BY <1>1, CutKeepsPacked

LEMMA InitKeepsPacked ==
  ASSUME IInv, NEW need, need[1] \in Nat \ {0}, need[2] \in Nat, InitFetch(need)
  PROVE  IInv'
<1>1. Spared \in SUBSET Region
  BY DEF Spared
<1> QED
  BY <1>1, EarlyKeepsPacked DEF InitFetch

LEMMA MmKeepsPacked ==
  ASSUME IInv, NEW size \in Nat \ {0}, NEW align \in Nat, Fetch(size, align)
  PROVE  IInv'
<1>1. PICK r \in Region : HasRoom(r, size, align) /\ Cut(r, size, align)
  BY DEF Fetch, Best
<1> QED
  BY <1>1, CutKeepsPacked

LEMMA QueueShrinks ==
  ASSUME Queue, todo # <<>>
  PROVE  Head(todo) \in Job /\ Tail(todo) \in Seq(Job)
BY DEF Queue

LEMMA BootKeeps ==
  ASSUME BootInv, BootNext
  PROVE  BootInv'
<1> USE DEF BootInv
<1>1. CASE InitMake
  <2>1. Head(todo).kind \in Kind
    BY <1>1, QueueShrinks DEF InitMake, Job
  <2>2. IInv'
    BY <2>1, <1>1, Sizes, InitKeepsPacked DEF InitMake
  <2> QED
    BY <2>2, <1>1, QueueShrinks DEF InitMake, Queue
<1>2. ASSUME NEW lv \in Level, InitTable(lv)
      PROVE  BootInv'
  <2>1. IInv'
    BY <1>2, Sizes, InitKeepsPacked DEF InitTable, Kind
  <2> QED
    BY <2>1, <1>2 DEF InitTable, Queue
<1>3. CASE InitPage
  <2>1. IInv'
    BY <1>3, Sizes, LevelsExist, InitKeepsPacked DEF InitPage
  <2> QED
    BY <2>1, <1>3, QueueShrinks DEF InitPage, Queue
<1>4. CASE MapFirstHeap
  <2>1. IInv'
    BY <1>4, Sizes, LevelsExist, EarlyKeepsPacked DEF MapFirstHeap
  <2> QED
    BY <2>1, <1>4 DEF MapFirstHeap, Queue
<1>5. CASE GrowPage
  <2>1. IInv'
    BY <1>5, Sizes, LevelsExist, MmKeepsPacked DEF GrowPage, MmFetch
  <2> QED
    BY <2>1, <1>5 DEF GrowPage, Queue
<1>6. CASE MmAnswers
  <2>1. IInv'
    BY <1>6, Sizes, MmKeepsPacked DEF MmAnswers, MmFetch, Kind
  <2> QED
    BY <2>1, <1>6 DEF MmAnswers, Queue
<1>7. ASSUME NEW req \in Requests, Serve(req)
      PROVE  BootInv'
  <2>1. IInv'
    BY <1>7, RequestAssumption, MmKeepsPacked DEF Serve
  <2> QED
    BY <2>1, <1>7 DEF Serve, Queue
<1>8. CASE InitAborts \/ InitResumes \/ InitCalls \/ MmStarts \/ MmLost \/ AttachSelf \/ MmExits
  <2>1. UNCHANGED <<used, objects, todo>>
    BY <1>8 DEF InitAborts, InitResumes, InitCalls, MmStarts, MmLost, AttachSelf, MmExits
  <2> QED
    BY <2>1 DEF IInv, TypeOK, Packed, Queue
<1> QED
  BY <1>1, <1>2, <1>3, <1>4, <1>5, <1>6, <1>7, <1>8 DEF BootNext

LEMMA BootInvariant == BootSpec => []BootInv
<1>1. BootInit => BootInv
  <2> SUFFICES ASSUME BootInit PROVE BootInv
    OBVIOUS
  <2>1. IInv
    BY MmBootAssumption, RegionAssumption DEF BootInit, IInv, TypeOK, Packed
  <2>2. Queue
    BY JobsKnown DEF BootInit, Queue
  <2> QED
    BY <2>1, <2>2 DEF BootInv
<1>2. BootInv /\ [BootNext]_bootVars => BootInv'
  <2> SUFFICES ASSUME BootInv, [BootNext]_bootVars PROVE BootInv'
    OBVIOUS
  <2>1. CASE BootNext
    BY <2>1, BootKeeps
  <2>2. CASE UNCHANGED bootVars
    BY <2>2 DEF bootVars, BootInv, IInv, TypeOK, Packed, Queue
  <2> QED
    BY <2>1, <2>2
<1> QED
  BY <1>1, <1>2, PTL DEF BootSpec

\* From init's first object to whatever clients fetch, no two objects share
\* RAM and none leaves its region: the choice that init makes, mm's before it
\* has registered the regions, and fetch_mem_cap agree on what is free.
THEOREM ObjectsApartFromBoot == BootSpec => []ObjectsApart
<1>1. BootInv => ObjectsApart
  BY PackedIsApart DEF BootInv
<1> QED
  BY <1>1, BootInvariant, PTL

-----------------------------------------------------------------------------
(* What init hands over to mm.                                              *)

\* The page of stack that init makes, and the first that mm adds.
Top      == UserEnd - 1
FirstOwn == UserEnd - SelfCommit - SelfGrow

\* The last page of mm's program.
End(elf) == elf[1] + elf[2] - 1

Covered(va) == \A lv \in Level : <<lv, TableBase(va, lv)>> \in tables

\* The tables in mm's address space are those init has noted.
Noted ==
  /\ slots \in [Level -> Seq(Nat)]
  /\ tables = UNION {{lv} \X Range(slots[lv]) : lv \in Level}
  /\ <<MaxPage, 0>> \in tables

\* init maps the pages of the program and one of stack, for which there are
\* tables in the end; mm adds its own below that one.
Ahead(elf) ==
  /\ \A i \in DOMAIN todo :
       todo[i].kind = "page" => todo[i].va \in elf[1] .. End(elf) \cup {Top}
  /\ Covered(Top) \/ \E i \in DOMAIN todo : todo[i] = Map(Top)
  /\ \A page \in pages : page[1] = Kilo =>
       page[2] \in elf[1] .. End(elf) \cup {Top} \cup FirstOwn .. FirstOwn + grown - 1
  /\ heap_root = RoundUp(elf[1] + elf[2], PageSize[Mega])

Stages ==
  /\ init = "working" => mm = "none"
  /\ mm # "none" => todo = <<>>
  /\ grown \in Nat
  /\ mm \in {"receiving", "attaching", "growing"} => GoodHeapRoot
  /\ mm \in {"growing", "serving"} => known = Registered
  /\ mm # "refused"

MegaBase(va) == TableBase(va, Mega)

\* The tables of level Mega come in the order of their addresses, and the last
\* one below the stack's is that of the program's last page.
Ascending(elf) ==
  /\ \A i, j \in DOMAIN todo :
       i < j /\ todo[i].kind = "page" /\ todo[j].kind = "page" => todo[i].va <= todo[j].va
  /\ \A i, j \in DOMAIN slots[Mega] : i < j => slots[Mega][i] <= slots[Mega][j]
  /\ \A i \in DOMAIN slots[Mega], j \in DOMAIN todo :
       todo[j].kind = "page" => slots[Mega][i] <= MegaBase(todo[j].va)
  /\ \A i \in DOMAIN slots[Mega] :
       slots[Mega][i] \in {MegaBase(va) : va \in elf[1] .. End(elf) \cup {Top}}
  /\ MegaBase(End(elf)) \in Range(slots[Mega]) \/ \E i \in DOMAIN todo : todo[i] = Map(End(elf))


-----------------------------------------------------------------------------
(* Pages and the tables for them.                                           *)

LEMMA Division ==
  ASSUME NEW v \in Nat, NEW a \in Nat \ {0}
  PROVE  /\ v \div a \in Nat /\ v % a \in 0 .. a - 1
         /\ v = (v \div a) * a + (v % a)
<1>1. v = a * (v \div a) + (v % a) /\ v \div a \in Nat
  OBVIOUS
<1>2. a * (v \div a) = (v \div a) * a
  BY <1>1
<1> QED
  BY <1>1, <1>2

LEMMA RoundDownBound ==
  ASSUME NEW v \in Nat, NEW a \in Nat \ {0}
  PROVE  /\ RoundDown(v, a) \in Nat /\ RoundDown(v, a) <= v /\ v < RoundDown(v, a) + a
         /\ v = RoundDown(v, a) + (v % a)
         /\ \E k \in Nat : RoundDown(v, a) = k * a
<1>1. PICK k \in Nat, r \in 0 .. a - 1 : k = v \div a /\ r = v % a /\ v = k * a + r
  BY Division
<1>2. RoundDown(v, a) = k * a
  BY <1>1 DEF RoundDown
<1>3. k * a \in Nat
  OBVIOUS
<1> QED
  BY <1>1, <1>2, <1>3, SMTT(30)

\* A multiple of the page size that is not above an address, with the next
\* one above it, is where its page begins.
LEMMA RoundDownIs ==
  ASSUME NEW v \in Nat, NEW a \in Nat \ {0}, NEW k \in Nat, k * a <= v, v < k * a + a
  PROVE  RoundDown(v, a) = k * a
<1>1. PICK q \in Nat : RoundDown(v, a) = q * a /\ q * a <= v /\ v < q * a + a
  BY RoundDownBound
<1>2. k * a \in Nat /\ q * a \in Nat
  OBVIOUS
<1>3. q <= k
  <2> SUFFICES ASSUME k + 1 <= q PROVE FALSE
    OBVIOUS
  <2>1. (k + 1) * a <= q * a
    OBVIOUS
  <2>2. (k + 1) * a = k * a + a
    OBVIOUS
  <2> QED
    BY <1>1, <1>2, <2>1, <2>2
<1>4. k <= q
  <2> SUFFICES ASSUME q + 1 <= k PROVE FALSE
    OBVIOUS
  <2>1. (q + 1) * a <= k * a
    OBVIOUS
  <2>2. (q + 1) * a = q * a + a
    OBVIOUS
  <2> QED
    BY <1>1, <1>2, <2>1, <2>2
<1>5. q = k
  BY <1>3, <1>4
<1> QED
  BY <1>1, <1>5

LEMMA RoundDownMonotone ==
  ASSUME NEW u \in Nat, NEW v \in Nat, u <= v, NEW a \in Nat \ {0}
  PROVE  RoundDown(u, a) <= RoundDown(v, a)
<1>1. PICK j \in Nat : RoundDown(u, a) = j * a /\ j * a <= u /\ u < j * a + a
  BY RoundDownBound
<1>2. PICK k \in Nat : RoundDown(v, a) = k * a /\ k * a <= v /\ v < k * a + a
  BY RoundDownBound
<1>3. k * a \in Nat /\ j * a \in Nat
  OBVIOUS
<1>4. j <= k
  <2> SUFFICES ASSUME k + 1 <= j PROVE FALSE
    OBVIOUS
  <2>1. (k + 1) * a <= j * a
    OBVIOUS
  <2>2. (k + 1) * a = k * a + a
    OBVIOUS
  <2> QED
    BY <1>1, <1>2, <1>3, <2>1, <2>2
<1>5. j * a <= k * a
  BY <1>4
<1> QED
  BY <1>1, <1>2, <1>5

LEMMA Multiple ==
  ASSUME NEW v \in Nat, NEW a \in Nat \ {0}, v % a = 0
  PROVE  \E k \in Nat : v = k * a
<1>1. PICK k \in Nat : k = v \div a /\ v = k * a + (v % a)
  BY Division
<1>2. k * a \in Nat
  OBVIOUS
<1> QED
  BY <1>1, <1>2

\* Of two multiples of a page size, the lower is a page below the upper.
LEMMA MultiplesApart ==
  ASSUME NEW j \in Nat, NEW k \in Nat, NEW a \in Nat \ {0}, j * a < k * a
  PROVE  j * a + a <= k * a
<1>1. j < k
  <2> SUFFICES ASSUME k <= j PROVE FALSE
    OBVIOUS
  <2>1. k * a <= j * a /\ k * a \in Nat /\ j * a \in Nat
    OBVIOUS
  <2> QED
    BY <2>1
<1>2. (j + 1) * a <= k * a
  BY <1>1
<1>3. (j + 1) * a = j * a + a
  OBVIOUS
<1> QED
  BY <1>2, <1>3

\* RoundUp gives the first multiple that is not below.
LEMMA RoundUpIs ==
  ASSUME NEW v \in Nat, NEW a \in Nat \ {0}
  PROVE  \E k \in Nat : RoundUp(v, a) = k * a /\ v <= k * a /\ k * a < v + a
<1>1. v + a - 1 \in Nat
  OBVIOUS
<1>2. PICK k \in Nat, r \in 0 .. a - 1 :
        k = (v + a - 1) \div a /\ v + a - 1 = k * a + r
  BY <1>1, Division
<1>3. RoundUp(v, a) = k * a
  BY <1>2 DEF RoundUp
<1>4. PICK m \in Nat : m = k * a
  OBVIOUS
<1>5. v <= m /\ m < v + a
  BY <1>2, <1>4
<1> QED
  BY <1>3, <1>4, <1>5, Zenon

\* A page that is within a larger one begins in it.
LEMMA LevelSizes ==
  /\ \A lv \in Level : PageSize[lv] \in Nat \ {0}
  /\ \A lv \in Level : \E k \in Nat : UserEnd = k * PageSize[lv]
  /\ \A lv \in Level \ {Kilo} : \E k \in Nat \ {0} : PageSize[lv] = k * PageSize[Mega]
<1>0. /\ MaxPage \in Nat /\ MaxPage > 1 /\ MaxPage \in Level /\ Mega \in Level
      /\ Level \subseteq Nat /\ \A lv \in Level : lv <= MaxPage /\ (lv # Kilo => Mega <= lv)
  BY MmBootAssumption DEF Level, Mega, Kilo
<1>1. \A lv \in Level : PageSize[lv] \in Nat \ {0}
  BY MmBootAssumption
<1>2. ASSUME NEW l \in Level, NEW m \in Level, l <= m
      PROVE  \E k \in Nat : PageSize[m] = k * PageSize[l]
  <2>1. PICK a \in Nat \ {0}, b \in Nat : a = PageSize[l] /\ b = PageSize[m]
    BY <1>1
  <2>2. PageSize[m] % PageSize[l] = 0
    BY <1>2, MmBootAssumption
  <2>3. \E k \in Nat : b = k * a
    BY <2>1, <2>2, Multiple
  <2> QED
    BY <2>1, <2>3, Zenon
<1>3. ASSUME NEW lv \in Level
      PROVE  \E k \in Nat : UserEnd = k * PageSize[lv]
  <2>1. PICK k \in Nat : UserEnd = k * PageSize[MaxPage]
    BY <1>0, <1>1, Multiple, MmBootAssumption
  <2>2. PICK j \in Nat : PageSize[MaxPage] = j * PageSize[lv]
    BY <1>0, <1>2
  <2>3. PICK s \in Nat : s = PageSize[lv]
    BY <1>1
  <2>4. k * (j * s) = (k * j) * s /\ k * j \in Nat
    OBVIOUS
  <2> QED
    BY <2>1, <2>2, <2>3, <2>4, Zenon
<1>4. ASSUME NEW lv \in Level \ {Kilo}
      PROVE  \E k \in Nat \ {0} : PageSize[lv] = k * PageSize[Mega]
  <2>1. PICK k \in Nat : PageSize[lv] = k * PageSize[Mega]
    BY <1>0, <1>2
  <2>2. k # 0
    BY <1>0, <1>1, <2>1
  <2> QED
    BY <2>1, <2>2
<1> QED
  BY <1>1, <1>3, <1>4

LEMMA MegaIsLeast ==
  ASSUME NEW lv \in Level, lv # Kilo
  PROVE  PageSize[Mega] <= PageSize[lv]
<1>1. PICK k \in Nat \ {0}, s \in Nat \ {0} : PageSize[lv] = k * s /\ PageSize[Mega] = s
  BY LevelSizes, LevelsExist
<1>2. s <= k * s
  OBVIOUS
<1> QED
  BY <1>1, <1>2

\* Addresses in the last MEGA page are in the same tables.
LEMMA SameTables ==
  ASSUME NEW va \in Nat, UserEnd - PageSize[Mega] <= va, va < UserEnd, NEW lv \in Level
  PROVE  TableBase(va, lv) = TableBase(Top, lv)
<1>0. UserEnd \in Nat /\ Top = UserEnd - 1 /\ Top \in Nat
  BY MmBootAssumption DEF Top
<1>1. CASE lv = MaxPage
  BY <1>1 DEF TableBase
<1>2. CASE lv # MaxPage
  <2>1. lv + 1 \in Level /\ lv + 1 # Kilo
    BY <1>2, MmBootAssumption DEF Level, Kilo
  <2>2. PICK k \in Nat, s \in Nat \ {0} : UserEnd = k * s /\ s = PageSize[lv + 1]
    BY <2>1, LevelSizes
  <2>3. PageSize[Mega] <= s /\ PageSize[Mega] \in Nat
    BY <2>1, <2>2, MegaIsLeast, LevelSizes, LevelsExist
  <2>4. k # 0
    BY <1>0, <2>2
  <2>5. PICK j \in Nat : j = k - 1
    BY <2>4
  <2>6. k * s = j * s + s /\ j * s \in Nat
    BY <2>5
  <2>7. j * s <= va /\ va < j * s + s /\ j * s <= Top /\ Top < j * s + s
    BY <1>0, <2>2, <2>3, <2>6
  <2>8. RoundDown(va, s) = j * s /\ RoundDown(Top, s) = j * s
    BY <1>0, <2>7, RoundDownIs
  <2> QED
    BY <1>2, <2>2, <2>8 DEF TableBase
<1> QED
  BY <1>1, <1>2

\* With the end of its program in a place that mm accepts, what mm adds to its
\* stack is above the program, and in the tables of the page init made.
LEMMA OwnStack ==
  ASSUME NEW elf \in Elves, NEW n \in Nat, n < SelfGrow,
         GoodHeapRoot, heap_root = RoundUp(elf[1] + elf[2], PageSize[Mega])
  PROVE  /\ FirstOwn + n \in Nat /\ End(elf) < FirstOwn + n /\ FirstOwn + n < Top
         /\ \A lv \in Level : TableBase(FirstOwn + n, lv) = TableBase(Top, lv)
<1>0. /\ elf[1] \in Nat /\ elf[2] \in Nat \ {0} /\ elf[1] + elf[2] <= UserEnd
      /\ UserEnd \in Nat /\ SelfGrow \in Nat /\ SelfGrow < PageSize[Mega]
      /\ UserEnd % PageSize[MaxPage] = 0
  BY MmBootAssumption
<1>1. PICK s \in Nat \ {0}, k \in Nat : s = PageSize[Mega] /\ UserEnd = k * s
  BY LevelSizes, LevelsExist
<1>2. elf[1] + elf[2] \in Nat
  BY <1>0
<1>3. PICK h \in Nat : /\ heap_root = h * s /\ elf[1] + elf[2] <= h * s
                       /\ h * s < elf[1] + elf[2] + s
  BY <1>1, <1>2, RoundUpIs
<1>4. h * s \in Nat /\ k * s \in Nat
  OBVIOUS
<1>5. h * s # UserEnd
  BY <1>0, <1>3 DEF GoodHeapRoot
<1>6. h * s < k * s
  <2> SUFFICES ASSUME k * s < h * s PROVE FALSE
    BY <1>1, <1>4, <1>5
  <2>1. k * s + s <= h * s
    BY MultiplesApart
  <2> QED
    BY <1>0, <1>1, <1>2, <1>3, <1>4, <2>1
<1>7. h * s + s <= k * s
  BY <1>6, MultiplesApart
<1>8. UserEnd - s <= FirstOwn + n /\ FirstOwn + n < Top /\ FirstOwn + n \in Int
  BY <1>0, <1>1 DEF FirstOwn, SelfCommit, Top
<1>9. elf[1] + elf[2] <= UserEnd - s
  BY <1>1, <1>2, <1>3, <1>4, <1>7
<1>10. End(elf) < FirstOwn + n /\ FirstOwn + n \in Nat
  BY <1>0, <1>1, <1>2, <1>8, <1>9 DEF End
<1>11. FirstOwn + n < UserEnd
  BY <1>0, <1>8 DEF Top
<1> QED
  BY <1>1, <1>8, <1>10, <1>11, SameTables

-----------------------------------------------------------------------------
(* The hand-over, step by step.                                             *)

\* A set of levels that is not empty has a highest one.
LEMMA HighestLevel ==
  ASSUME NEW S \in SUBSET Level, S # {}
  PROVE  \E l \in S : \A m \in S : m <= l
<1>0. MaxPage \in Nat
  BY MmBootAssumption
<1> DEFINE T == {MaxPage - l : l \in S}
<1>1. T \subseteq Nat /\ T # {}
  <2>1. \A l \in S : l \in Nat /\ l <= MaxPage
    BY DEF Level
  <2>2. \A l \in S : MaxPage - l \in Nat
    BY <1>0, <2>1
  <2> QED
    BY <2>2
<1>2. \E x \in T : \A y \in T : ~ (<<y, x>> \in OpToRel(<, Nat))
  BY <1>1, NatLessThanWellFounded, WFMin
<1>3. PICK x \in T : \A y \in T : ~ (y < x)
  BY <1>1, <1>2 DEF OpToRel
<1>4. PICK l \in S : x = MaxPage - l
  OBVIOUS
<1>5. \A m \in S : m <= l
  <2> TAKE m \in S
  <2>1. ~ (MaxPage - m < x)
    BY <1>3
  <2>2. m \in Nat /\ l \in Nat
    BY DEF Level
  <2> QED
    BY <1>0, <1>4, <2>1, <2>2
<1> QED
  BY <1>5

\* A registry lacks nothing for an address if it has a table of each level.
LEMMA LacksNothing ==
  ASSUME NEW registry, NEW va
  PROVE  Lacks(registry, va) = {} <=> \A lv \in Level : <<lv, TableBase(va, lv)>> \in registry
<1> DEFINE S == {lv \in Level : <<lv, TableBase(va, lv)>> \notin registry}
<1>1. ASSUME S # {} PROVE Lacks(registry, va) # {}
  <2>1. PICK l \in S : \A m \in S : m <= l
    BY <1>1, HighestLevel
  <2>2. \A m \in Level : m > l => m \notin S
    BY <2>1 DEF Level
  <2>3. l \in Lacks(registry, va)
    BY <2>2 DEF Lacks
  <2> QED
    BY <2>3
<1>2. Lacks(registry, va) \subseteq S
  BY DEF Lacks
<1> QED
  BY <1>1, <1>2

LEMMA RangeAppend ==
  ASSUME NEW S, NEW s \in Seq(S), NEW e \in S
  PROVE  Range(Append(s, e)) = Range(s) \cup {e}
BY SMTT(30) DEF Range

LEMMA RangeConcat ==
  ASSUME NEW S, NEW s \in Seq(S), NEW e \in S
  PROVE  Range(s \o <<e>>) = Range(s) \cup {e}
<1>1. s \o <<e>> = Append(s, e)
  OBVIOUS
<1>2. Range(Append(s, e)) = Range(s) \cup {e}
  BY RangeAppend
<1> QED
  BY <1>1, <1>2, Zenon

IsJoin(u, s, t) ==
  /\ Len(u) = Len(s) + Len(t)
  /\ \A i \in 1 .. Len(s) : u[i] = s[i]
  /\ \A i \in 1 .. Len(t) : u[Len(s) + i] = t[i]

LEMMA Joined ==
  ASSUME NEW S, NEW s \in Seq(S), NEW t \in Seq(S), NEW u, u = s \o t
  PROVE  u \in Seq(S) /\ IsJoin(u, s, t)
BY DEF IsJoin

LEMMA MapIs ==
  ASSUME NEW va \in Int
  PROVE  Map(va) \in Job /\ Map(va).kind = "page" /\ Map(va).va = va
BY DEF Map, Job

\* What is to be made: objects, then the pages of the program in their order,
\* then that of the stack.
LEMMA JobsAre ==
  ASSUME NEW elf \in Elves, NEW n, n = MaxPage + 3
  PROVE  /\ Len(Jobs(elf)) = n + elf[2] + 2
         /\ \A i \in 1 .. n : Jobs(elf)[i].kind # "page"
         /\ \A i \in 1 .. elf[2] : Jobs(elf)[n + i] = Map(elf[1] + i - 1)
         /\ Jobs(elf)[n + elf[2] + 1] = Map(Top)
         /\ Jobs(elf)[n + elf[2] + 2].kind # "page"
<1>1. elf[1] \in Nat /\ elf[2] \in Nat /\ MaxPage \in Nat /\ UserEnd \in Nat
  BY MmBootAssumption
<1>2. \A kind \in Kind : Make(kind) \in Job /\ Make(kind).kind # "page"
  BY DEF Make, Job, Kind
<1> DEFINE j1 == Make("cap_space")
           j2 == Make("page_table")
           j3 == Make("task")
           j4 == Make("endpoint")
           top == Map(Top)
<1>26. /\ j1 \in Job /\ j2 \in Job /\ j3 \in Job /\ j4 \in Job
       /\ j1.kind # "page" /\ j2.kind # "page" /\ j3.kind # "page" /\ j4.kind # "page"
  BY <1>2 DEF Kind
<1>27. top \in Job
  BY <1>1, MapIs DEF Top
<1>28. Jobs(elf) = <<j1, j2>> \o [lv \in 1 .. MaxPage |-> j2] \o <<j3>>
                     \o [i \in 1 .. elf[2] |-> Map(elf[1] + i - 1)] \o <<top, j4>>
  BY DEF Jobs, Top
<1> HIDE DEF j1, j2, j3, j4, top
<1>3. PICK A : A = <<j1, j2>>
  OBVIOUS
<1>4. A \in Seq(Job) /\ Len(A) = 2 /\ A[1] = j1 /\ A[2] = j2
  BY <1>3, <1>26
<1>5. PICK B : B = [lv \in 1 .. MaxPage |-> j2]
  OBVIOUS
<1>6. B \in Seq(Job) /\ Len(B) = MaxPage /\ \A i \in 1 .. MaxPage : B[i] = j2
  BY <1>1, <1>5, <1>26
<1>7. PICK C : C = <<j3>>
  OBVIOUS
<1>8. C \in Seq(Job) /\ Len(C) = 1 /\ C[1] = j3
  BY <1>7, <1>26
<1>9. PICK D : D = [i \in 1 .. elf[2] |-> Map(elf[1] + i - 1)]
  OBVIOUS
<1>10. D \in Seq(Job) /\ Len(D) = elf[2] /\ \A i \in 1 .. elf[2] : D[i] = Map(elf[1] + i - 1)
  <2>1. \A i \in 1 .. elf[2] : Map(elf[1] + i - 1) \in Job
    BY <1>1, MapIs
  <2> QED
    BY <1>1, <1>9, <2>1
<1>11. PICK E : E = <<top, j4>>
  OBVIOUS
<1>12. E \in Seq(Job) /\ Len(E) = 2 /\ E[1] = top /\ E[2] = j4
  BY <1>11, <1>26, <1>27
<1>13. PICK X : X = A \o B
  OBVIOUS
<1>14. /\ X \in Seq(Job) /\ Len(X) = 2 + MaxPage
       /\ X[1] = j1 /\ X[2] = j2 /\ \A i \in 1 .. MaxPage : X[2 + i] = j2
  <2>1. X \in Seq(Job) /\ IsJoin(X, A, B)
    BY <1>4, <1>6, <1>13, Joined
  <2> QED
    BY <2>1, <1>4, <1>6 DEF IsJoin
<1>15. PICK Y : Y = X \o C
  OBVIOUS
<1>16. /\ Y \in Seq(Job) /\ Len(Y) = 2 + MaxPage + 1
       /\ \A i \in 1 .. 2 + MaxPage : Y[i] = X[i]
       /\ Y[2 + MaxPage + 1] = j3
  <2>1. Y \in Seq(Job) /\ IsJoin(Y, X, C)
    BY <1>8, <1>14, <1>15, Joined
  <2> QED
    BY <2>1, <1>8, <1>14 DEF IsJoin
<1>17. Len(Y) = n /\ \A i \in 1 .. n : Y[i].kind # "page"
  <2> SUFFICES ASSUME NEW i \in 1 .. n PROVE Y[i].kind # "page"
    BY <1>1, <1>16
  <2>1. CASE i = 1 \/ i = 2
    BY <1>1, <1>26, <1>14, <1>16, <2>1
  <2>2. CASE i \in 3 .. 2 + MaxPage
    <3>1. PICK k \in 1 .. MaxPage : i = 2 + k
      BY <1>1, <2>2
    <3> QED
      BY <1>1, <1>26, <1>14, <1>16, <2>2, <3>1
  <2>3. CASE i = 2 + MaxPage + 1
    BY <1>26, <1>16, <2>3
  <2> QED
    BY <1>1, <2>1, <2>2, <2>3
<1>18. PICK Z : Z = Y \o D
  OBVIOUS
<1>19. /\ Z \in Seq(Job) /\ Len(Z) = n + elf[2]
       /\ \A i \in 1 .. n : Z[i] = Y[i]
       /\ \A i \in 1 .. elf[2] : Z[n + i] = D[i]
  <2>1. Z \in Seq(Job) /\ IsJoin(Z, Y, D)
    BY <1>10, <1>16, <1>18, Joined
  <2> QED
    BY <2>1, <1>10, <1>17 DEF IsJoin
<1>20. PICK V : V = Z \o E
  OBVIOUS
<1>21. /\ V \in Seq(Job) /\ Len(V) = n + elf[2] + 2
       /\ \A i \in 1 .. n + elf[2] : V[i] = Z[i]
       /\ V[n + elf[2] + 1] = top /\ V[n + elf[2] + 2] = j4
  <2>1. V \in Seq(Job) /\ IsJoin(V, Z, E)
    BY <1>12, <1>19, <1>20, Joined
  <2> QED
    BY <2>1, <1>12, <1>19 DEF IsJoin
<1>22. V = Jobs(elf)
  BY <1>3, <1>5, <1>7, <1>9, <1>11, <1>13, <1>15, <1>18, <1>20, <1>28, Zenon
<1>23. n \in Nat
  BY <1>1
<1>24. ASSUME NEW i \in 1 .. n PROVE V[i].kind # "page"
  <2>1. i \in 1 .. n + elf[2]
    BY <1>1, <1>23
  <2> QED
    BY <2>1, <1>17, <1>19, <1>21, Zenon
<1>25. ASSUME NEW i \in 1 .. elf[2] PROVE V[n + i] = Map(elf[1] + i - 1)
  <2>1. n + i \in 1 .. n + elf[2]
    BY <1>1, <1>23
  <2> QED
    BY <2>1, <1>10, <1>19, <1>21, Zenon
<1> QED
  BY <1>26, <1>21, <1>22, <1>24, <1>25, Zenon DEF top

HandOf(elf) == Noted /\ Ahead(elf) /\ Stages

LEMMA HandInit ==
  ASSUME BootInit
  PROVE  \E elf \in Elves : todo = Jobs(elf) /\ HandOf(elf)
<1>1. PICK elf \in Elves : todo = Jobs(elf) /\ heap_root = RoundUp(elf[1] + elf[2], PageSize[Mega])
  BY DEF BootInit
<1>2. elf[1] \in Nat /\ elf[2] \in Nat \ {0} /\ MaxPage \in Nat /\ MaxPage \in Level
  BY MmBootAssumption DEF Level
<1>3. Noted
  <2>1. slots = [lv \in Level |-> IF lv = MaxPage THEN <<0>> ELSE <<>>]
    BY DEF BootInit
  <2>2. slots \in [Level -> Seq(Nat)]
    BY <2>1
  <2>3. \A lv \in Level : Range(slots[lv]) = IF lv = MaxPage THEN {0} ELSE {}
    BY <2>1 DEF Range
  <2>4. tables = {<<MaxPage, 0>>}
    BY DEF BootInit
  <2>5. UNION {{lv} \X Range(slots[lv]) : lv \in Level} = {<<MaxPage, 0>>}
    BY <1>2, <2>3
  <2> QED
    BY <2>2, <2>4, <2>5 DEF Noted
<1>4. PICK n \in Nat : n = MaxPage + 3
  BY <1>2
<1>5. /\ todo \in Seq(Job) /\ Len(todo) = n + elf[2] + 2
      /\ \A i \in 1 .. n : todo[i].kind # "page"
      /\ \A i \in 1 .. elf[2] : todo[n + i] = Map(elf[1] + i - 1)
      /\ todo[n + elf[2] + 1] = Map(Top)
      /\ todo[n + elf[2] + 2].kind # "page"
  BY <1>1, <1>4, JobsAre, JobsKnown
<1>6. Ahead(elf)
  <2>1. ASSUME NEW i \in DOMAIN todo, todo[i].kind = "page"
        PROVE  todo[i].va \in elf[1] .. End(elf) \cup {Top}
    <3>1. i \in 1 .. n + elf[2] + 2 /\ ~ (i \in 1 .. n) /\ i # n + elf[2] + 2
      BY <1>5, <2>1
    <3>2. CASE i = n + elf[2] + 1
      BY <1>5, <3>2 DEF Map
    <3>3. CASE i \in n + 1 .. n + elf[2]
      <4>1. PICK k \in 1 .. elf[2] : i = n + k
        BY <1>2, <3>3
      <4>2. todo[i] = Map(elf[1] + k - 1)
        BY <1>5, <4>1, Zenon
      <4>3. todo[i].va = elf[1] + k - 1
        BY <1>2, <4>2, MapIs
      <4> QED
        BY <1>2, <4>3 DEF End
    <3> QED
      BY <1>2, <3>1, <3>2, <3>3
  <2>2. n + elf[2] + 1 \in DOMAIN todo
    BY <1>2, <1>5
  <2>3. pages = {}
    BY DEF BootInit
  <2> QED
    BY <1>1, <1>5, <2>1, <2>2, <2>3 DEF Ahead
<1>7. Stages
  BY DEF BootInit, Stages
<1> QED
  BY <1>1, <1>3, <1>6, <1>7 DEF HandOf

\* init's choice of a registry to look in makes no difference.
LEMMA MadeIsAll ==
  ASSUME Noted
  PROVE  Made = tables
<1>1. \A t \in tables : t[2] \in Range(slots[t[1]])
  BY DEF Noted
<1> QED
  BY <1>1 DEF Made

LEMMA RegisteredIs ==
  ASSUME Noted
  PROVE  Registered = tables \cup {<<lv, CapSpaceVa>> : lv \in 0 .. MaxPage - 1}
<1>0. MaxPage \in Nat /\ CapSpaceVa \in Nat /\ Level = 0 .. MaxPage
  BY MmBootAssumption DEF Level
<1>1. ASSUME NEW lv \in Level
      PROVE  Range(SentTables(lv)) = Range(slots[lv]) \cup (IF lv < MaxPage THEN {CapSpaceVa} ELSE {})
  <2>1. slots[lv] \in Seq(Nat)
    BY DEF Noted
  <2>2. CASE lv < MaxPage
    BY <1>0, <2>1, <2>2, RangeConcat DEF SentTables
  <2>3. CASE ~ (lv < MaxPage)
    <3>1. slots[lv] \o <<>> = slots[lv]
      BY <2>1
    <3> QED
      BY <2>3, <3>1 DEF SentTables
  <2> QED
    BY <2>2, <2>3
<1>2. \A lv \in Level : lv < MaxPage <=> lv \in 0 .. MaxPage - 1
  BY <1>0
<1>3. 0 .. MaxPage - 1 \subseteq Level
  BY <1>0
<1>4. \A t : t \in tables <=> \E lv \in Level : \E b \in Range(slots[lv]) : t = <<lv, b>>
  BY DEF Noted
<1>5. \A t : t \in Registered <=>
        \/ \E lv \in Level : \E b \in Range(SentTables(lv)) : t = <<lv, b>>
        \/ t = <<MaxPage, 0>>
  BY DEF Registered
<1>6. \A t : t \in {<<lv, CapSpaceVa>> : lv \in 0 .. MaxPage - 1}
               <=> \E lv \in Level : lv < MaxPage /\ t = <<lv, CapSpaceVa>>
  BY <1>2, <1>3
<1>7. <<MaxPage, 0>> \in tables
  BY DEF Noted
<1> QED
  BY <1>1, <1>4, <1>5, <1>6, <1>7

LEMMA HeadIsNext ==
  ASSUME Queue, todo # <<>>
  PROVE  /\ Head(todo) = todo[1] /\ 1 \in DOMAIN todo
         /\ DOMAIN Tail(todo) = 1 .. Len(todo) - 1 /\ DOMAIN todo = 1 .. Len(todo)
         /\ \A i \in DOMAIN Tail(todo) : i + 1 \in DOMAIN todo /\ Tail(todo)[i] = todo[i + 1]
         /\ \A i \in DOMAIN todo : i # 1 => i - 1 \in DOMAIN Tail(todo) /\ Tail(todo)[i - 1] = todo[i]
<1>1. PICK t \in Seq(Job) : t = todo
  BY DEF Queue
<1>2. t # <<>>
  BY <1>1
<1>3. /\ Head(t) = t[1] /\ 1 \in DOMAIN t
      /\ DOMAIN Tail(t) = 1 .. Len(t) - 1 /\ DOMAIN t = 1 .. Len(t) /\ Len(t) \in Nat
      /\ \A i \in 1 .. Len(t) - 1 : Tail(t)[i] = t[i + 1]
  BY <1>2
<1>4. /\ \A i \in DOMAIN Tail(t) : i + 1 \in DOMAIN t /\ Tail(t)[i] = t[i + 1]
      /\ \A i \in DOMAIN t : i # 1 => i - 1 \in DOMAIN Tail(t) /\ Tail(t)[i - 1] = t[i]
  BY <1>3
<1> QED
  BY <1>1, <1>3, <1>4

\* The next page is one of the program or that of the stack.
LEMMA NextPage ==
  ASSUME Queue, NEW elf \in Elves, Ahead(elf), todo # <<>>, Head(todo).kind = "page"
  PROVE  Head(todo).va \in elf[1] .. End(elf) \cup {Top} /\ Head(todo).va \in Nat
<1>1. elf[1] \in Nat /\ elf[2] \in Nat \ {0} /\ UserEnd \in Nat /\ elf[1] + elf[2] <= UserEnd
  BY MmBootAssumption
<1>2. Head(todo).va \in elf[1] .. End(elf) \cup {Top}
  BY HeadIsNext DEF Ahead
<1>3. Top \in Nat
  BY <1>1 DEF Top
<1> QED
  BY <1>1, <1>2, <1>3

\* Jobs are done in their order, and what was ahead still is.
LEMMA AheadStays ==
  ASSUME Queue, NEW elf \in Elves, Ahead(elf), todo # <<>>, todo' = Tail(todo),
         tables' = tables, grown' = grown, heap_root' = heap_root,
         Head(todo) = Map(Top) => Covered(Top),
         \A page \in pages' : page \in pages \/ page = <<Kilo, Head(todo).va>>,
         pages' = pages \/ Head(todo).kind = "page"
  PROVE  Ahead(elf)'
<1>1. \A i \in DOMAIN todo' :
        todo'[i].kind = "page" => todo'[i].va \in elf[1] .. End(elf) \cup {Top}
  BY HeadIsNext DEF Ahead
<1>2. Covered(Top)' \/ \E i \in DOMAIN todo' : todo'[i] = Map(Top)
  <2>1. CASE Covered(Top)
    BY <2>1 DEF Covered, TableBase, RoundDown
  <2>2. CASE ~ Covered(Top)
    <3>1. PICK i \in DOMAIN todo : todo[i] = Map(Top)
      BY <2>2 DEF Ahead
    <3>2. i # 1
      BY <2>2, <3>1, HeadIsNext
    <3> QED
      <4>1. todo' = Tail(todo) /\ i - 1 \in DOMAIN Tail(todo) /\ Tail(todo)[i - 1] = todo[i]
        BY <3>2, HeadIsNext
      <4> QED
        BY <3>1, <4>1, Zenon
  <2> QED
    BY <2>1, <2>2
<1>3. \A page \in pages' : page[1] = Kilo =>
        page[2] \in elf[1] .. End(elf) \cup {Top} \cup FirstOwn .. FirstOwn + grown - 1
  BY NextPage DEF Ahead
<1> QED
  BY <1>1, <1>2, <1>3 DEF Ahead, End, Top, FirstOwn, Covered

LEMMA HandTable ==
  ASSUME Queue, NEW elf \in Elves, HandOf(elf), NEW lv \in Level, InitTable(lv)
  PROVE  HandOf(elf)'
<1> DEFINE base == TableBase(Head(todo).va, lv)
<1>1. base \in Nat
  <2>1. Head(todo).va \in Nat
    BY NextPage DEF HandOf, InitTable
  <2>2. lv # MaxPage => lv + 1 \in Level
    BY MmBootAssumption DEF Level
  <2> QED
    BY <2>1, <2>2, LevelSizes, RoundDownBound DEF TableBase
<1>2. /\ slots' = [slots EXCEPT ![lv] = Append(@, base)]
      /\ tables' = tables \cup {<<lv, base>>}
      /\ UNCHANGED <<todo, heap_root, init, mm, pages, known, grown>> /\ init = "working"
  BY DEF InitTable
<1> HIDE DEF base
<1>3. Noted'
  <2>1. slots \in [Level -> Seq(Nat)] /\ slots[lv] \in Seq(Nat)
    BY DEF HandOf, Noted
  <2>2. slots' \in [Level -> Seq(Nat)]
    <3>1. Append(slots[lv], base) \in Seq(Nat)
      BY <1>1, <2>1
    <3> QED
      BY <1>2, <2>1, <3>1
  <2>3. \A l \in Level : Range(slots'[l]) = IF l = lv THEN Range(slots[l]) \cup {base} ELSE Range(slots[l])
    <3>1. Range(Append(slots[lv], base)) = Range(slots[lv]) \cup {base}
      BY <1>1, <2>1, RangeAppend
    <3> QED
      BY <1>2, <2>1, <3>1
  <2>4. tables' = UNION {{l} \X Range(slots'[l]) : l \in Level}
    <3>1. \A t : t \in tables <=> \E l \in Level : \E b \in Range(slots[l]) : t = <<l, b>>
      BY DEF HandOf, Noted
    <3>2. \A t : t \in UNION {{l} \X Range(slots'[l]) : l \in Level}
                 <=> \E l \in Level : \E b \in Range(slots'[l]) : t = <<l, b>>
      OBVIOUS
    <3>3. \A t : (\E l \in Level : \E b \in Range(slots'[l]) : t = <<l, b>>)
                 <=> (\E l \in Level : \E b \in Range(slots[l]) : t = <<l, b>>) \/ t = <<lv, base>>
      BY <2>3
    <3>4. \A t : t \in tables' <=> t \in tables \/ t = <<lv, base>>
      BY <1>2
    <3> QED
      BY <3>1, <3>2, <3>3, <3>4
  <2> QED
    BY <1>2, <2>2, <2>4 DEF HandOf, Noted
<1>4. Ahead(elf)'
  BY <1>2 DEF HandOf, Ahead, Covered, TableBase, RoundDown, End, Top, FirstOwn
<1>5. Stages'
  BY <1>2 DEF HandOf, Stages, GoodHeapRoot
<1> QED
  BY <1>3, <1>4, <1>5 DEF HandOf

LEMMA HandPage ==
  ASSUME Queue, NEW elf \in Elves, HandOf(elf), InitPage
  PROVE  HandOf(elf)'
<1>1. /\ init = "working" /\ todo # <<>> /\ Head(todo).kind = "page"
      /\ Lacks(Made, Head(todo).va) = {}
      /\ pages' = pages \cup {<<Kilo, Head(todo).va>>} /\ todo' = Tail(todo)
      /\ UNCHANGED <<slots, heap_root, init, mm, tables, known, grown>>
  BY DEF InitPage
<1>2. Covered(Head(todo).va)
  BY <1>1, MadeIsAll, LacksNothing DEF HandOf, Covered
<1>3. Head(todo) = Map(Top) => Covered(Top)
  <2>1. Top \in Int
    BY MmBootAssumption DEF Top
  <2> QED
    BY <1>2, <2>1, MapIs
<1>4. Ahead(elf)'
  BY <1>1, <1>3, AheadStays DEF HandOf
<1>5. Noted' /\ Stages'
  BY <1>1 DEF HandOf, Noted, Stages, GoodHeapRoot
<1> QED
  BY <1>4, <1>5 DEF HandOf

LEMMA HandMake ==
  ASSUME Queue, NEW elf \in Elves, HandOf(elf), InitMake
  PROVE  HandOf(elf)'
<1>1. /\ init = "working" /\ todo # <<>> /\ Head(todo).kind # "page" /\ todo' = Tail(todo)
      /\ UNCHANGED <<slots, heap_root, init, mm, tables, pages, known, grown>>
  BY DEF InitMake
<1>2. Head(todo) # Map(Top)
  BY <1>1, MapIs, MmBootAssumption DEF Top
<1>3. Ahead(elf)'
  BY <1>1, <1>2, AheadStays DEF HandOf
<1>4. Noted' /\ Stages'
  BY <1>1 DEF HandOf, Noted, Stages, GoodHeapRoot
<1> QED
  BY <1>3, <1>4 DEF HandOf

\* A page of mm's own stack finds its tables in the registry, and its entry free.
LEMMA HandGrow ==
  ASSUME NEW elf \in Elves, HandOf(elf), GrowPage
  PROVE  HandOf(elf)'
<1>1. /\ mm = "growing" /\ grown < SelfGrow /\ grown' = grown + 1
      /\ UNCHANGED <<todo, slots, heap_root, init, tables, known>>
      /\ IF Lacks(known, GrowVa) = {} /\ ~ Occupied(Kilo, GrowVa)
         THEN pages' = pages \cup {<<Kilo, GrowVa>>} /\ UNCHANGED mm
         ELSE mm' = "refused" /\ UNCHANGED pages
  BY DEF GrowPage
<1>2. grown \in Nat /\ GoodHeapRoot /\ known = Registered /\ todo = <<>>
  BY <1>1 DEF HandOf, Stages
<1>3. PICK va \in Nat :
        /\ va = FirstOwn + grown /\ End(elf) < va /\ va < Top
        /\ \A lv \in Level : TableBase(va, lv) = TableBase(Top, lv)
  BY <1>1, <1>2, OwnStack DEF HandOf, Ahead
<1>4. GrowVa = va
  BY <1>3 DEF GrowVa, FirstOwn
<1>5. Covered(Top)
  BY <1>2 DEF HandOf, Ahead
<1>6. Lacks(known, GrowVa) = {}
  <2>1. tables \subseteq known
    BY <1>2, RegisteredIs DEF HandOf
  <2>2. \A lv \in Level : <<lv, TableBase(va, lv)>> \in known
    BY <1>3, <1>5, <2>1 DEF Covered
  <2> QED
    BY <1>4, <2>2, LacksNothing
<1>7. elf[1] \in Nat /\ elf[2] \in Nat \ {0} /\ UserEnd \in Nat /\ SelfGrow \in Nat
  BY MmBootAssumption
<1>8. ~ Occupied(Kilo, GrowVa)
  <2>1. RoundDown(va, PageSize[Kilo]) = va
    <3>1. PageSize[Kilo] = 1 /\ va * 1 = va
      BY <1>3, MmBootAssumption
    <3> QED
      BY <1>3, <3>1, RoundDownIs
  <2>2. <<Kilo, va>> \notin pages
    <3>1. ~ (va \in elf[1] .. End(elf) \cup {Top} \cup FirstOwn .. FirstOwn + grown - 1)
      BY <1>2, <1>3, <1>7 DEF End, Top, FirstOwn, SelfCommit
    <3> QED
      BY <3>1 DEF HandOf, Ahead
  <2> QED
    BY <1>4, <2>1, <2>2 DEF Occupied, Kilo
<1>9. pages' = pages \cup {<<Kilo, va>>} /\ mm' = mm
  BY <1>1, <1>4, <1>6, <1>8
<1>10. Ahead(elf)'
  <2>1. \A n : n \in FirstOwn .. FirstOwn + grown - 1 => n \in FirstOwn .. FirstOwn + grown' - 1
    BY <1>1, <1>2, <1>7 DEF FirstOwn, SelfCommit
  <2>2. va \in FirstOwn .. FirstOwn + grown' - 1
    BY <1>1, <1>2, <1>3, <1>7 DEF FirstOwn, SelfCommit
  <2>3. \A page \in pages' : page[1] = Kilo =>
          page[2] \in elf[1] .. End(elf) \cup {Top} \cup FirstOwn .. FirstOwn + grown' - 1
    BY <1>9, <2>1, <2>2 DEF HandOf, Ahead
  <2> QED
    BY <1>1, <2>3 DEF HandOf, Ahead, Covered, TableBase, RoundDown, End, Top, FirstOwn
<1>11. Noted' /\ Stages'
  BY <1>1, <1>2, <1>9 DEF HandOf, Noted, Stages, GoodHeapRoot, Registered, SentTables
<1> QED
  BY <1>10, <1>11 DEF HandOf

LEMMA HandRest ==
  ASSUME NEW elf \in Elves, HandOf(elf),
         \/ InitAborts \/ InitResumes \/ InitCalls \/ MmStarts \/ MmLost
         \/ MapFirstHeap \/ AttachSelf \/ MmAnswers \/ MmExits
         \/ (\E req \in Requests : Serve(req)) \/ UNCHANGED bootVars
  PROVE  HandOf(elf)'
<1> USE DEF HandOf
<1>1. UNCHANGED <<slots, tables, heap_root, grown, todo>>
  BY DEF InitAborts, InitResumes, InitCalls, MmStarts, MmLost, MapFirstHeap, AttachSelf,
         MmAnswers, MmExits, Serve, bootVars
<1>2. Noted'
  BY <1>1 DEF Noted
<1>3. Ahead(elf)'
  <2>1. \A page \in pages' : page[1] = Kilo => page \in pages
    <3>1. pages' = pages \/ pages' = pages \cup {<<Mega, HeapVa>>}
      BY DEF InitAborts, InitResumes, InitCalls, MmStarts, MmLost, MapFirstHeap, AttachSelf,
             MmAnswers, MmExits, Serve, bootVars
    <3> QED
      BY <3>1 DEF Kilo, Mega
  <2> QED
    BY <1>1, <2>1 DEF Ahead, Covered, TableBase, RoundDown, End, Top, FirstOwn
<1>4. Registered' = Registered /\ GoodHeapRoot' = GoodHeapRoot
  BY <1>1 DEF Registered, SentTables, GoodHeapRoot
<1>5. Stages'
  BY <1>1, <1>4 DEF Stages, InitAborts, InitResumes, InitCalls, MmStarts, MmLost, MapFirstHeap,
         AttachSelf, MmReceives, MmAnswers, MmExits, Serve, bootVars
<1> QED
  BY <1>2, <1>3, <1>5

LEMMA HandKeeps ==
  ASSUME Queue, NEW elf \in Elves, HandOf(elf), [BootNext]_bootVars
  PROVE  HandOf(elf)'
BY HandMake, HandTable, HandPage, HandGrow, HandRest DEF BootNext

\* mm's registry has what the kernel's tables have: nothing that init has made
\* is missing in it, whatever the program and the page sizes, and the kernel
\* refuses no page that mm adds to its stack.
THEOREM HandOverComplete == BootSpec => []HandedOver
<1> DEFINE Inv == \E elf \in Elves : HandOf(elf)
<1>1. BootInit => Inv
  BY HandInit
<1>2. Inv /\ Queue /\ [BootNext]_bootVars => Inv'
  BY HandKeeps
<1>3. Inv => HandedOver
  <2> SUFFICES ASSUME NEW elf \in Elves, HandOf(elf) PROVE HandedOver
    OBVIOUS
  <2>1. ASSUME mm \in {"growing", "serving"}, NEW lv \in Level, NEW va \in 0 .. UserEnd - 1
        PROVE  <<lv, va>> \in tables <=> <<lv, va>> \in known
    <3>1. va # CapSpaceVa
      BY MmBootAssumption
    <3>2. known = tables \cup {<<l, CapSpaceVa>> : l \in 0 .. MaxPage - 1}
      BY <2>1, RegisteredIs DEF HandOf, Stages
    <3> QED
      BY <3>1, <3>2
  <2> QED
    BY <2>1 DEF HandedOver, HandOf, Stages
<1>4. BootInv => Queue
  BY DEF BootInv
<1> HIDE DEF Inv
<1> QED
  BY <1>1, <1>2, <1>3, <1>4, BootInvariant, PTL DEF BootSpec

-----------------------------------------------------------------------------
(* The first page of heap.                                                  *)

HeapOf(elf) ==
  /\ HandOf(elf) /\ Ascending(elf)
  /\ mm \in {"attaching", "growing", "serving"} => <<Mega, heap_root>> \in pages

LEMMA MegaBaseIs ==
  /\ PageSize[Mega + 1] \in Nat \ {0}
  /\ \A va \in Nat : MegaBase(va) = RoundDown(va, PageSize[Mega + 1]) /\ MegaBase(va) \in Nat
  /\ \A u \in Nat, v \in Nat : u <= v => MegaBase(u) <= MegaBase(v)
<1>1. Mega # MaxPage /\ Mega + 1 \in Level
  BY MmBootAssumption DEF Mega, Level
<1>2. PageSize[Mega + 1] \in Nat \ {0}
  BY <1>1, LevelSizes
<1>3. \A va \in Nat : MegaBase(va) = RoundDown(va, PageSize[Mega + 1])
  BY <1>1 DEF MegaBase, TableBase
<1>4. PICK a \in Nat \ {0} : a = PageSize[Mega + 1]
  BY <1>2
<1>5. \A va \in Nat : MegaBase(va) = RoundDown(va, a)
  BY <1>3, <1>4, Zenon
<1>6. \A va \in Nat : RoundDown(va, a) \in Nat
  BY RoundDownBound, Zenon
<1>7. \A u \in Nat, v \in Nat : u <= v => RoundDown(u, a) <= RoundDown(v, a)
  BY RoundDownMonotone, Zenon
<1> QED
  BY <1>2, <1>3, <1>5, <1>6, <1>7

LEMMA AscendingInit ==
  ASSUME BootInit, NEW elf \in Elves, todo = Jobs(elf)
  PROVE  Ascending(elf)
<1>1. /\ elf[1] \in Nat /\ elf[2] \in Nat \ {0} /\ MaxPage \in Nat /\ UserEnd \in Nat
      /\ elf[1] + elf[2] <= UserEnd /\ Mega # MaxPage
  BY MmBootAssumption DEF Mega
<1>2. slots[Mega] = <<>>
  BY <1>1, LevelsExist DEF BootInit
<1>3. PICK n \in Nat : n = MaxPage + 3
  BY <1>1
<1>4. /\ todo \in Seq(Job) /\ Len(todo) = n + elf[2] + 2
      /\ \A i \in 1 .. n : todo[i].kind # "page"
      /\ \A i \in 1 .. elf[2] : todo[n + i] = Map(elf[1] + i - 1)
      /\ todo[n + elf[2] + 1] = Map(Top)
      /\ todo[n + elf[2] + 2].kind # "page"
  BY <1>3, JobsAre, JobsKnown
<1>5. /\ \A i \in 1 .. elf[2] : todo[n + i].va = elf[1] + i - 1
      /\ todo[n + elf[2] + 1].va = Top /\ Top = UserEnd - 1
  <2>1. ASSUME NEW i \in 1 .. elf[2] PROVE todo[n + i].va = elf[1] + i - 1
    <3>1. elf[1] + i - 1 \in Int
      BY <1>1
    <3>2. Map(elf[1] + i - 1).va = elf[1] + i - 1
      BY <3>1, MapIs
    <3> QED
      BY <1>4, <3>2, Zenon
  <2>2. Top \in Int /\ Top = UserEnd - 1
    BY <1>1 DEF Top
  <2>3. Map(Top).va = Top
    BY <2>2, MapIs
  <2> QED
    BY <1>4, <2>1, <2>2, <2>3, Zenon
<1>6. ASSUME NEW i \in DOMAIN todo, NEW j \in DOMAIN todo, i < j,
             todo[i].kind = "page", todo[j].kind = "page"
      PROVE  todo[i].va <= todo[j].va
  <2>1. /\ i \in n + 1 .. n + elf[2] + 1 /\ j \in n + 1 .. n + elf[2] + 1
        /\ i \in n + 1 .. n + elf[2]
    <3>1. PICK m \in Nat : m = n + elf[2]
      BY <1>1
    <3>2. DOMAIN todo = 1 .. m + 2
      BY <1>4, <3>1
    <3>3. i \notin 1 .. n /\ j \notin 1 .. n /\ i # m + 2 /\ j # m + 2
      BY <1>4, <1>6, <3>1
    <3>4. i \in n + 1 .. m + 1 /\ j \in n + 1 .. m + 1
      BY <3>2, <3>3
    <3> QED
      BY <1>6, <3>1, <3>4
  <2>2. PICK a \in 1 .. elf[2] : i = n + a
    BY <1>1, <2>1
  <2>3. todo[i].va = elf[1] + a - 1
    BY <1>5, <2>2
  <2>4. CASE j = n + elf[2] + 1
    BY <1>1, <1>5, <2>3, <2>4
  <2>5. CASE j # n + elf[2] + 1
    <3>1. PICK b \in 1 .. elf[2] : j = n + b
      BY <1>1, <2>1, <2>5
    <3>2. todo[j].va = elf[1] + b - 1 /\ a < b
      BY <1>5, <1>6, <2>2, <3>1
    <3> QED
      BY <1>1, <2>3, <3>2
  <2> QED
    BY <2>4, <2>5
<1>7. n + elf[2] \in DOMAIN todo /\ todo[n + elf[2]] = Map(End(elf))
  BY <1>1, <1>4, SMTT(30) DEF End
<1> QED
  BY <1>2, <1>6, <1>7 DEF Ascending

LEMMA AscendingTable ==
  ASSUME Queue, NEW elf \in Elves, HandOf(elf), Ascending(elf),
         NEW lv \in Level, InitTable(lv)
  PROVE  Ascending(elf)'
<1>1. /\ todo # <<>> /\ Head(todo).kind = "page" /\ todo' = todo
      /\ slots' = [slots EXCEPT ![lv] = Append(@, TableBase(Head(todo).va, lv))]
  BY DEF InitTable
<1>2. PICK s \in Seq(Nat) : s = slots[Mega]
  BY LevelsExist DEF HandOf, Noted
<1>3. /\ Head(todo) = todo[1] /\ 1 \in DOMAIN todo
      /\ DOMAIN todo \subseteq Nat /\ \A j \in DOMAIN todo : j = 1 \/ 1 < j
  BY <1>1, HeadIsNext DEF Queue
<1>4. /\ \A i, j \in DOMAIN todo :
           i < j /\ todo[i].kind = "page" /\ todo[j].kind = "page" => todo[i].va <= todo[j].va
      /\ \A i, j \in DOMAIN s : i < j => s[i] <= s[j]
      /\ \A i \in DOMAIN s, j \in DOMAIN todo :
           todo[j].kind = "page" => s[i] <= MegaBase(todo[j].va)
      /\ \A i \in DOMAIN s : s[i] \in {MegaBase(va) : va \in elf[1] .. End(elf) \cup {Top}}
      /\ MegaBase(End(elf)) \in Range(s) \/ \E i \in DOMAIN todo : todo[i] = Map(End(elf))
  BY <1>2 DEF Ascending
<1>5. CASE lv # Mega
  <2>1. slots'[Mega] = slots[Mega]
    BY <1>1, <1>5, LevelsExist DEF HandOf, Noted
  <2> QED
    BY <1>1, <2>1 DEF Ascending, MegaBase, TableBase, RoundDown, End, Top
<1>6. CASE lv = Mega
  <2>1. PICK va \in Nat : va = Head(todo).va /\ va \in elf[1] .. End(elf) \cup {Top}
    BY <1>1, NextPage DEF HandOf
  <2>2. PICK base \in Nat : base = MegaBase(va)
    BY <2>1, MegaBaseIs
  <2>3. PICK t : t = Append(s, base)
    OBVIOUS
  <2>4. slots'[Mega] = t
    BY <1>1, <1>2, <1>6, <2>1, <2>2, <2>3, LevelsExist DEF HandOf, Noted, MegaBase
  <2>5. /\ DOMAIN t = 1 .. Len(s) + 1 /\ DOMAIN s = 1 .. Len(s) /\ Len(s) \in Nat
        /\ \A i \in DOMAIN s : t[i] = s[i] /\ s[i] \in Nat
        /\ t[Len(s) + 1] = base
    BY <2>3
  <2>6. \A i \in DOMAIN s : s[i] <= base
    BY <1>1, <1>3, <1>4, <2>1, <2>2
  <2>7. \A j \in DOMAIN todo : todo[j].kind = "page" => base <= MegaBase(todo[j].va)
    <3> SUFFICES ASSUME NEW j \in DOMAIN todo, todo[j].kind = "page"
                 PROVE  base <= MegaBase(todo[j].va)
      OBVIOUS
    <3>1. todo[j].va \in Nat
      <4>1. elf[1] \in Nat /\ elf[2] \in Nat \ {0} /\ UserEnd \in Nat /\ elf[1] + elf[2] <= UserEnd
        BY MmBootAssumption
      <4>2. todo[j].va \in elf[1] .. End(elf) \cup {Top}
        BY DEF HandOf, Ahead
      <4> QED
        BY <4>1, <4>2 DEF Top
    <3>2. va <= todo[j].va
      BY <1>1, <1>3, <1>4, <2>1
    <3> QED
      BY <2>1, <2>2, <3>1, <3>2, MegaBaseIs
  <2>8. \A i, j \in DOMAIN t : i < j => t[i] <= t[j]
    <3> SUFFICES ASSUME NEW i \in DOMAIN t, NEW j \in DOMAIN t, i < j PROVE t[i] <= t[j]
      OBVIOUS
    <3>1. i \in DOMAIN s
      BY <2>5
    <3>2. CASE j = Len(s) + 1
      BY <2>5, <2>6, <3>1, <3>2
    <3>3. CASE j \in DOMAIN s
      BY <1>4, <2>5, <3>1, <3>3
    <3> QED
      BY <2>5, <3>2, <3>3
  <2>9. \A i \in DOMAIN t : i \in DOMAIN s \/ i = Len(s) + 1
    BY <2>5
  <2>10. \A i \in DOMAIN t, j \in DOMAIN todo :
           todo[j].kind = "page" => t[i] <= MegaBase(todo[j].va)
    BY <1>4, <2>5, <2>7, <2>9
  <2>11. \A i \in DOMAIN t : t[i] \in {MegaBase(x) : x \in elf[1] .. End(elf) \cup {Top}}
    BY <1>4, <2>1, <2>2, <2>5, <2>9
  <2>12. Range(s) \subseteq Range(t)
    BY <2>5 DEF Range
  <2> QED
    BY <1>1, <1>4, <2>4, <2>8, <2>10, <2>11, <2>12
       DEF Ascending, MegaBase, TableBase, RoundDown, End, Top
<1> QED
  BY <1>5, <1>6

\* A job that is done leaves the others in their order, and the tables for it.
LEMMA AscendingStays ==
  ASSUME Queue, NEW elf \in Elves, Ascending(elf), todo # <<>>, todo' = Tail(todo),
         slots' = slots,
         Head(todo) = Map(End(elf)) => MegaBase(End(elf)) \in Range(slots[Mega])
  PROVE  Ascending(elf)'
<1>1. PICK t \in Seq(Job) : t = Tail(todo)
  BY QueueShrinks
<1>2. /\ \A i \in DOMAIN t : i \in Nat /\ i + 1 \in DOMAIN todo /\ t[i] = todo[i + 1]
      /\ \A i \in DOMAIN todo : i # 1 => i - 1 \in DOMAIN t /\ t[i - 1] = todo[i]
      /\ Head(todo) = todo[1]
  BY <1>1, HeadIsNext
<1>3. \A i, j \in DOMAIN t :
        i < j /\ t[i].kind = "page" /\ t[j].kind = "page" => t[i].va <= t[j].va
  <2> SUFFICES ASSUME NEW i \in DOMAIN t, NEW j \in DOMAIN t, i < j,
                      t[i].kind = "page", t[j].kind = "page"
               PROVE  t[i].va <= t[j].va
    OBVIOUS
  <2>1. i + 1 < j + 1
    BY <1>2
  <2> QED
    BY <1>2, <2>1 DEF Ascending
<1>4. \A i \in DOMAIN slots[Mega], j \in DOMAIN t :
        t[j].kind = "page" => slots[Mega][i] <= MegaBase(t[j].va)
  BY <1>2 DEF Ascending
<1>5. MegaBase(End(elf)) \in Range(slots[Mega]) \/ \E i \in DOMAIN t : t[i] = Map(End(elf))
  <2> SUFFICES ASSUME MegaBase(End(elf)) \notin Range(slots[Mega])
               PROVE  \E i \in DOMAIN t : t[i] = Map(End(elf))
    OBVIOUS
  <2>1. PICK i \in DOMAIN todo : todo[i] = Map(End(elf))
    BY DEF Ascending
  <2>2. i # 1
    BY <1>2, <2>1
  <2> QED
    BY <1>2, <2>1, <2>2
<1> QED
  BY <1>1, <1>3, <1>4, <1>5 DEF Ascending, MegaBase, TableBase, RoundDown, End, Top

LEMMA AscendingPage ==
  ASSUME Queue, NEW elf \in Elves, HandOf(elf), Ascending(elf), InitPage
  PROVE  Ascending(elf)'
<1>1. todo # <<>> /\ todo' = Tail(todo) /\ slots' = slots /\ Lacks(Made, Head(todo).va) = {}
  BY DEF InitPage
<1>2. Head(todo) = Map(End(elf)) => MegaBase(End(elf)) \in Range(slots[Mega])
  <2> SUFFICES ASSUME Head(todo) = Map(End(elf)) PROVE MegaBase(End(elf)) \in Range(slots[Mega])
    OBVIOUS
  <2>1. End(elf) \in Int
    BY MmBootAssumption DEF End
  <2>2. Head(todo).va = End(elf)
    BY <2>1, MapIs
  <2>3. <<Mega, MegaBase(End(elf))>> \in tables
    BY <1>1, <2>2, MadeIsAll, LacksNothing, LevelsExist DEF HandOf, MegaBase
  <2> QED
    BY <2>3 DEF HandOf, Noted
<1> QED
  BY <1>1, <1>2, AscendingStays

LEMMA AscendingMake ==
  ASSUME Queue, NEW elf \in Elves, Ascending(elf), InitMake
  PROVE  Ascending(elf)'
<1>1. todo # <<>> /\ todo' = Tail(todo) /\ slots' = slots /\ Head(todo).kind # "page"
  BY DEF InitMake
<1>2. Head(todo) # Map(End(elf))
  BY <1>1, MapIs, MmBootAssumption DEF End
<1> QED
  BY <1>1, <1>2, AscendingStays

LEMMA GreatestPlace ==
  ASSUME NEW n \in Nat, NEW S \in SUBSET (1 .. n), S # {}
  PROVE  Max(S) \in S /\ \A i \in S : i <= Max(S)
<1> DEFINE T == {n - i : i \in S}
<1>1. T \subseteq Nat /\ T # {}
  <2>1. \A i \in S : n - i \in Nat
    OBVIOUS
  <2> QED
    BY <2>1
<1>2. \E x \in T : \A y \in T : ~ (<<y, x>> \in OpToRel(<, Nat))
  BY <1>1, NatLessThanWellFounded, WFMin
<1>3. PICK x \in T : \A y \in T : ~ (y < x)
  BY <1>1, <1>2 DEF OpToRel
<1>4. PICK m \in S : x = n - m
  OBVIOUS
<1>5. \A i \in S : m >= i
  <2> TAKE i \in S
  <2>1. ~ (n - i < x)
    BY <1>3
  <2> QED
    BY <1>4, <2>1
<1> QED
  BY <1>5 DEF Max

\* The place where mm's program ends says in which MEGA table the heap begins,
\* unless it is at the border of two.
LEMMA HeapEntry ==
  ASSUME NEW v \in Nat, heap_root = RoundUp(v + 1, PageSize[Mega]),
         heap_root % PageSize[Mega + 1] # 0
  PROVE  MegaBase(v) + (heap_root % PageSize[Mega + 1]) = heap_root
<1>1. Mega + 1 \in Level \ {Kilo}
  BY MmBootAssumption DEF Mega, Kilo, Level
<1>2. PICK m \in Nat \ {0}, g \in Nat \ {0} : m = PageSize[Mega] /\ g = PageSize[Mega + 1]
  BY <1>1, LevelSizes, LevelsExist
<1>3. PICK k \in Nat : g = k * m
  BY <1>1, <1>2, LevelSizes
<1>4. PICK h \in Nat : heap_root = h * m /\ v + 1 <= h * m /\ h * m < v + 1 + m
  <2>1. v + 1 \in Nat
    OBVIOUS
  <2>2. \E h \in Nat : RoundUp(v + 1, m) = h * m /\ v + 1 <= h * m /\ h * m < v + 1 + m
    BY <2>1, RoundUpIs
  <2> QED
    BY <1>2, <2>2, Zenon
<1>5. PICK r \in Nat : r = heap_root /\ r = h * m
  BY <1>4
<1>6. /\ RoundDown(r, g) \in Nat /\ RoundDown(r, g) <= r /\ r < RoundDown(r, g) + g
      /\ r = RoundDown(r, g) + (r % g)
      /\ \E q \in Nat : RoundDown(r, g) = q * g
  BY RoundDownBound
<1>7. PICK q \in Nat, b \in Nat : b = RoundDown(r, g) /\ b = q * g
  BY <1>6
<1>8. q * (k * m) = (q * k) * m /\ q * k \in Nat
  OBVIOUS
<1>9. b # r
  <2>3. r % g \in Nat
    BY Division
  <2>4. r % g # 0
    BY <1>2, <1>5, Zenon
  <2>1. PICK e \in Nat : e = r % g /\ e # 0
    BY <2>3, <2>4
  <2>2. r = b + e
    BY <1>6, <1>7, <2>1, Zenon
  <2> QED
    BY <2>1, <2>2
<1>10. b + m <= r
  <2>0. b = (q * k) * m
    BY <1>3, <1>7, <1>8, Zenon
  <2>3. b < r
    BY <1>6, <1>7, <1>9
  <2>1. (q * k) * m < h * m
    BY <1>5, <2>0, <2>3, Zenon
  <2>2. (q * k) * m + m <= h * m
    BY <1>8, <2>1, MultiplesApart
  <2> QED
    BY <1>5, <2>0, <2>2, Zenon
<1>11. q * g <= v /\ v < q * g + g
  BY <1>4, <1>5, <1>6, <1>7, <1>10
<1>12. RoundDown(v, g) = q * g
  BY <1>11, RoundDownIs
<1>13. MegaBase(v) = b
  BY <1>2, <1>7, <1>12, MegaBaseIs
<1> QED
  BY <1>2, <1>5, <1>6, <1>7, <1>13

\* mm's program does not reach from below into the last of the largest pages,
\* in which the stack is.
ProgramApart ==
  \A elf \in Elves : \/ elf[1] + elf[2] <= UserEnd - PageSize[MaxPage]
                     \/ elf[1] >= UserEnd - PageSize[MaxPage]

\* The table that mm picks is that of the last page of its program.
LEMMA TableKept ==
  ASSUME NEW elf \in Elves, HandOf(elf), Ascending(elf), todo = <<>>, HasTables,
         MaxPage = Mega + 1, ProgramApart
  PROVE  KeptTable(Mega) = MegaBase(End(elf))
<1>1. /\ elf[1] \in Nat /\ elf[2] \in Nat \ {0} /\ UserEnd \in Nat /\ elf[1] + elf[2] <= UserEnd
      /\ CapSpaceVa \in Nat /\ CapSpaceVa >= UserEnd /\ Mega < MaxPage
  BY MmBootAssumption DEF Mega
<1>2. PICK g \in Nat \ {0}, c \in Nat : g = PageSize[MaxPage] /\ UserEnd = c * g
  <2>1. MaxPage \in Level
    BY MmBootAssumption DEF Level
  <2> QED
    BY <2>1, LevelSizes
<1>3. PICK v \in Nat : v = End(elf) /\ v = elf[1] + elf[2] - 1
  BY <1>1 DEF End
<1>4. PICK d \in Nat : c = d + 1
  <2>1. c # 0
    BY <1>1, <1>2
  <2>2. c - 1 \in Nat /\ c = (c - 1) + 1
    BY <2>1
  <2> QED
    BY <2>2
<1>5. PICK u \in Nat : u = d * g /\ u = UserEnd - g
  <2>1. (d + 1) * g = d * g + g /\ d * g \in Nat
    OBVIOUS
  <2> QED
    BY <1>2, <1>4, <2>1
<1>6. MegaBase(u) = u /\ MegaBase(Top) = u /\ Top \in Nat
  <2>0. UserEnd = u + g
    BY <1>1, <1>5
  <2>1. Top = u + g - 1 /\ Top \in Nat
    BY <2>0 DEF Top
  <2>4. u <= u /\ u < u + g /\ u <= Top /\ Top < u + g
    BY <2>1
  <2>2. d * g <= u /\ u < d * g + g /\ d * g <= Top /\ Top < d * g + g
    BY <1>5, <2>4, Zenon
  <2>3. RoundDown(u, g) = d * g /\ RoundDown(Top, g) = d * g
    BY <2>1, <2>2, RoundDownIs
  <2> QED
    BY <1>2, <1>5, <2>1, <2>3, MegaBaseIs
<1>7. PICK s \in Seq(Nat) : s = slots[Mega]
  BY LevelsExist DEF HandOf, Noted
<1>8. PICK t : t = s \o <<CapSpaceVa>>
  OBVIOUS
<1>9. SentTables(Mega) = t
  BY <1>1, <1>7, <1>8 DEF SentTables
<1>10. /\ t \in Seq(Nat) /\ DOMAIN t = 1 .. Len(s) + 1 /\ Len(s) \in Nat /\ DOMAIN s = 1 .. Len(s)
       /\ \A i \in DOMAIN s : t[i] = s[i] /\ s[i] \in Nat
       /\ t[Len(s) + 1] = CapSpaceVa
  BY <1>1, <1>8
<1>11. PICK P : P = ProgramTables(Mega)
  OBVIOUS
<1>12. P = {i \in DOMAIN t : t[i] < u}
  BY <1>2, <1>5, <1>9, <1>11 DEF ProgramTables
<1>13. P # {}
  <2>1. Mega \in 0 .. MaxPage - 1
    BY MmBootAssumption DEF Mega
  <2> QED
    BY <1>11, <2>1 DEF HasTables
<1>14. \A i \in P : i \in DOMAIN s /\ s[i] < u
  <2> SUFFICES ASSUME NEW i \in P PROVE i \in DOMAIN s /\ s[i] < u
    OBVIOUS
  <2>1. i # Len(s) + 1
    BY <1>1, <1>5, <1>10, <1>12
  <2> QED
    BY <1>10, <1>12, <2>1
<1>15. /\ \A i, j \in DOMAIN s : i < j => s[i] <= s[j]
       /\ \A i \in DOMAIN s : s[i] \in {MegaBase(va) : va \in elf[1] .. End(elf) \cup {Top}}
       /\ MegaBase(v) \in Range(s)
  BY <1>3, <1>7 DEF Ascending
<1>16. \A i \in P : \E va \in elf[1] .. v : s[i] = MegaBase(va)
  <2> TAKE i \in P
  <2>1. s[i] # u
    BY <1>10, <1>14
  <2>2. s[i] \in {MegaBase(va) : va \in elf[1] .. v \cup {Top}}
    BY <1>3, <1>14, <1>15
  <2> QED
    BY <1>6, <2>1, <2>2
<1>17. elf[1] + elf[2] <= u
  <2> SUFFICES ASSUME elf[1] >= u PROVE FALSE
    BY <1>2, <1>5 DEF ProgramApart
  <2>1. PICK i \in P : TRUE
    BY <1>13
  <2>2. PICK va \in elf[1] .. v : s[i] = MegaBase(va)
    BY <1>16
  <2>3. va \in Nat /\ u <= va
    BY <1>1, <1>3
  <2>4. u <= s[i]
    BY <1>6, <2>2, <2>3, MegaBaseIs
  <2> QED
    BY <1>10, <1>14, <2>4
<1>18. PICK i0 \in DOMAIN s : s[i0] = MegaBase(v)
  BY <1>15 DEF Range
<1>19. i0 \in P
  <2>1. MegaBase(v) <= v /\ MegaBase(v) \in Nat
    BY MegaBaseIs, RoundDownBound
  <2>2. MegaBase(v) < u
    BY <1>1, <1>3, <1>17, <2>1, SMTT(30)
  <2> QED
    BY <1>10, <1>12, <1>18, <2>2
<1>20. PICK m \in P : m = Max(P) /\ \A i \in P : i <= m
  <2>1. P \in SUBSET (1 .. Len(s) + 1) /\ Len(s) + 1 \in Nat
    BY <1>10, <1>12
  <2> QED
    BY <1>13, <2>1, GreatestPlace
<1>21. s[m] = MegaBase(v)
  <2>1. PICK va \in elf[1] .. v : s[m] = MegaBase(va)
    BY <1>16
  <2>2. s[m] <= MegaBase(v)
    <3>1. va \in Nat /\ va <= v
      BY <1>1, <1>3
    <3>2. MegaBase(va) <= MegaBase(v)
      BY <3>1, MegaBaseIs
    <3> QED
      BY <2>1, <3>2, Zenon
  <2>3. MegaBase(v) <= s[m]
    <3>1. CASE i0 = m
      BY <1>10, <1>14, <1>18, <3>1
    <3>2. CASE i0 < m
      BY <1>14, <1>15, <1>18, <3>2
    <3>3. i0 <= m /\ i0 \in Nat /\ m \in Nat
      BY <1>10, <1>14, <1>19, <1>20
    <3> QED
      BY <3>1, <3>2, <3>3
  <2> QED
    BY <1>10, <1>14, <2>2, <2>3, MegaBaseIs, SMTT(30)
<1>22. KeptTable(Mega) = t[m]
  BY <1>9, <1>11, <1>20 DEF KeptTable
<1> QED
  BY <1>3, <1>10, <1>14, <1>21, <1>22

LEMMA HeapLands ==
  ASSUME NEW elf \in Elves, HandOf(elf), Ascending(elf), MapFirstHeap,
         MaxPage = Mega + 1, ProgramApart
  PROVE  <<Mega, heap_root>> \in pages'
<1>1. mm = "receiving" /\ HasTables /\ pages' = pages \cup {<<Mega, HeapVa>>}
  BY DEF MapFirstHeap, MmReceives
<1>2. todo = <<>> /\ GoodHeapRoot
  BY <1>1 DEF HandOf, Stages
<1>3. HeapVa = MegaBase(End(elf)) + (heap_root % PageSize[Mega + 1])
  BY <1>1, <1>2, TableKept DEF HeapVa
<1>4. PICK v \in Nat : v = End(elf) /\ v + 1 = elf[1] + elf[2]
  BY MmBootAssumption DEF End
<1>5. heap_root = RoundUp(v + 1, PageSize[Mega]) /\ heap_root % PageSize[Mega + 1] # 0
  BY <1>2, <1>4 DEF HandOf, Ahead, GoodHeapRoot
<1>6. HeapVa = heap_root
  BY <1>3, <1>4, <1>5, HeapEntry
<1> QED
  BY <1>1, <1>6

LEMMA HeapKeeps ==
  ASSUME Queue, NEW elf \in Elves, HeapOf(elf), [BootNext]_bootVars,
         MaxPage = Mega + 1, ProgramApart
  PROVE  HeapOf(elf)'
<1>1. HandOf(elf) /\ Ascending(elf)
  BY DEF HeapOf
<1>2. HandOf(elf)'
  BY <1>1, HandKeeps
<1>3. Ascending(elf)'
  <2>1. ASSUME UNCHANGED <<todo, slots>> PROVE Ascending(elf)'
    BY <1>1, <2>1 DEF Ascending, MegaBase, TableBase, RoundDown, End, Top
  <2>2. CASE \/ InitAborts \/ InitResumes \/ InitCalls \/ MmStarts \/ MmLost
             \/ MapFirstHeap \/ AttachSelf \/ GrowPage \/ MmAnswers \/ MmExits
             \/ (\E req \in Requests : Serve(req)) \/ UNCHANGED bootVars
    BY <2>1, <2>2 DEF InitAborts, InitResumes, InitCalls, MmStarts, MmLost, MapFirstHeap,
       AttachSelf, GrowPage, MmAnswers, MmExits, Serve, bootVars
  <2> QED
    BY <1>1, <2>2, AscendingMake, AscendingTable, AscendingPage DEF BootNext
<1>4. ASSUME mm' \in {"attaching", "growing", "serving"}
      PROVE  <<Mega, heap_root>>' \in pages'
  <2>1. CASE MapFirstHeap
    BY <1>1, <2>1, HeapLands DEF MapFirstHeap
  <2>2. CASE ~ MapFirstHeap
    <3>1. mm \in {"attaching", "growing", "serving"}
      BY <1>4, <2>2 DEF BootNext, InitMake, InitTable, InitPage, InitAborts, InitResumes,
         InitCalls, MmStarts, MmLost, AttachSelf, GrowPage, MmAnswers, MmExits, Serve, bootVars
    <3>2. pages \subseteq pages' /\ heap_root' = heap_root
      BY <2>2 DEF BootNext, InitMake, InitTable, InitPage, InitAborts, InitResumes,
         InitCalls, MmStarts, MmLost, AttachSelf, GrowPage, MmAnswers, MmExits, Serve, bootVars
    <3> QED
      BY <3>1, <3>2 DEF HeapOf
  <2> QED
    BY <2>1, <2>2
<1> QED
  BY <1>2, <1>3, <1>4 DEF HeapOf, Mega

\* With three levels of page tables, and mm's program on one side of the last
\* of the largest pages, the first page of heap is where mm believes it is: of
\* the tables of level Mega in the message, whatever their number, the one that
\* load_page_table_caps is left with is that of the program's end.
THEOREM HeapWhereBelieved ==
  ASSUME MaxPage = Mega + 1, ProgramApart
  PROVE  BootSpec => []HeapInPlace
<1> DEFINE Inv == \E elf \in Elves : HeapOf(elf)
<1>1. BootInit => Inv
  <2> SUFFICES ASSUME BootInit PROVE Inv
    OBVIOUS
  <2>1. PICK elf \in Elves : todo = Jobs(elf) /\ HandOf(elf)
    BY HandInit
  <2>2. Ascending(elf)
    BY <2>1, AscendingInit
  <2>3. mm = "none"
    BY DEF BootInit
  <2> QED
    BY <2>1, <2>2, <2>3 DEF HeapOf
<1>2. Inv /\ Queue /\ [BootNext]_bootVars => Inv'
  BY HeapKeeps
<1>3. Inv => HeapInPlace
  BY DEF HeapOf, HeapInPlace
<1>4. BootInv => Queue
  BY DEF BootInv
<1> HIDE DEF Inv
<1> QED
  BY <1>1, <1>2, <1>3, <1>4, BootInvariant, PTL DEF BootSpec
=============================================================================

