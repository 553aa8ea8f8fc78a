--------------------------------- MODULE Heap ---------------------------------
(***************************************************************************)
(* The heap of the C library: a circular list of blocks, used and free,    *)
(* that begins with the first block of the first page; a request takes the *)
(* first free block that is large enough, split if enough is left over,    *)
(* and a new MEGA page if there is none.  Blocks are not joined again.     *)
(*                                                                         *)
(* Sizes and addresses are counted in units of alignof(max_align_t); a     *)
(* header is one unit, and the low bit of size is the field used.          *)
(***************************************************************************)
EXTENDS Integers, Sequences, SequencesExt, Bags

CONSTANTS
  PageSize,  \* MEGA_PAGE_SIZE
  Word,      \* size_t arithmetic is modulo this
  Bases,     \* where mm may map a page of the heap
  Requests   \* the sizes that are asked for, rounded up

ASSUME HeapAssumption ==
  /\ PageSize \in Nat /\ PageSize > 3
  /\ Bases \subseteq Nat /\ Bases # {}
  /\ \A b, c \in Bases : b < c => b + PageSize <= c
  /\ Requests \subseteq Nat \ {0}
  /\ Word \in Nat /\ \A b \in Bases : b + 2 * PageSize < Word

VARIABLES
  list,      \* the blocks in the order of their links, from __heap_block_free_list
  pages,     \* the pages the heap has, in the order it got them
  live,      \* history: the allocations not yet freed, <<header address, size>>
  oversized  \* history: a request has exceeded what a page can hold

vars == <<list, pages, live, oversized>>

Header == 1

Block(addr, size) == [addr |-> addr, size |-> size, used |-> FALSE]

\* Mutant: the new block is not smaller by its header.
BugSplit(l, i, size) ==
  LET b == l[i] IN
  IF (b.size - size) % Word >= Header + 1
  THEN InsertAt([l EXCEPT ![i].size = size], i + 1,
                Block(b.addr + Header + size, (b.size - size) % Word))
  ELSE l

\* __heap_split: block i is cut down to size and a new one made of the rest,
\* if the rest holds a header and one unit more.
Split(l, i, size) ==
  LET b == l[i] IN
  IF (b.size - size) % Word >= Header + 1
  THEN InsertAt([l EXCEPT ![i].size = size], i + 1,
                Block(b.addr + Header + size, (b.size - size - Header) % Word))
  ELSE l

\* Mutant: any block that is large enough is taken.
BugFits(i, size) == list[i].size >= size

Fits(i, size) == ~list[i].used /\ list[i].size >= size

Allocated(addr, size) == live' = live (+) SetToBag({<<addr, size>>})

\* Mutant: the size is written without the bit that says used.
BugTaken(l, i, size) == [l EXCEPT ![i].size = size]

\* A block that is taken has the size that was asked for, split or not: one
\* unit left over belongs to no block from then on.
Taken(l, i, size) == [l EXCEPT ![i].size = size, ![i].used = TRUE]

AllocFirstFit(size) ==
  \E i \in 1 .. Len(list) :
    /\ Fits(i, size) /\ \A j \in 1 .. i - 1 : ~Fits(j, size)
    /\ list' = Taken(Split(list, i, size), i, size)
    /\ Allocated(list[i].addr, size)
    /\ UNCHANGED <<pages, oversized>>

\* The block of a new page is taken as a whole if it is not split.  It is
\* split whatever was asked for, by a difference that may have wrapped.
AllocNewPage(size) ==
  /\ \A i \in 1 .. Len(list) : ~Fits(i, size)
  /\ \E base \in Bases \ Range(pages) :
       LET n == Len(list) + 1
           grown == Append(list, Block(base, PageSize - Header))
       IN
       /\ list' = [Split(grown, n, size) EXCEPT ![n].used = TRUE]
       /\ pages' = Append(pages, base)
       /\ Allocated(base, size)
  /\ oversized' = (oversized \/ size > PageSize - Header)

\* mm has no page to give and the caller gets none, which changes nothing.
Alloc(size) == AllocFirstFit(size) \/ AllocNewPage(size)

\* Callers free what they have got and not yet freed; free aborts otherwise.
Free(addr, size) ==
  /\ BagIn(<<addr, size>>, live)
  /\ list' = [i \in DOMAIN list |-> IF list[i].addr = addr THEN [list[i] EXCEPT !.used = FALSE]
                                                           ELSE list[i]]
  /\ live' = live (-) SetToBag({<<addr, size>>})
  /\ UNCHANGED <<pages, oversized>>

\* __heap_init, on the page the C runtime has got.
Init ==
  /\ \E base \in Bases :
       /\ pages = <<base>>
       /\ list = <<Block(base, PageSize - Header)>>
  /\ live = EmptyBag
  /\ oversized = FALSE

\* Beyond an oversized request the heap writes to memory that is not its own.
Next ==
  /\ ~oversized
  /\ \/ \E size \in Requests : Alloc(size)
     \/ \E e \in BagToSet(live) : Free(e[1], e[2])

Spec == Init /\ [][Next]_vars

-----------------------------------------------------------------------------

End(b) == b.addr + Header + b.size

\* As long as no request has been too large, the blocks lie inside the pages
\* and apart, headers and all: no allocation reaches into the header or the
\* data of another, whatever was allocated, freed and split before it.
BlocksApart ==
  ~oversized =>
    /\ \A i \in DOMAIN list : \E p \in Range(pages) :
         p <= list[i].addr /\ End(list[i]) <= p + PageSize
    /\ \A i, j \in DOMAIN list : i # j =>
         End(list[i]) <= list[j].addr \/ End(list[j]) <= list[i].addr

\* What a caller has got and not freed is the data of a used block of the
\* list, of the size it asked for at least; nobody else has got it, and every
\* used block is somebody's, so that none is stuck.
LiveBlocksUsed ==
  /\ \A e \in BagToSet(live) :
       /\ live[e] = 1 /\ \A f \in BagToSet(live) : e[1] = f[1] => e = f
       /\ \E i \in DOMAIN list :
            list[i].addr = e[1] /\ list[i].used /\ (oversized \/ list[i].size >= e[2])
  /\ \A i \in DOMAIN list : list[i].used => \E e \in BagToSet(live) : e[1] = list[i].addr

\* The heap does what malloc and free promise: what a caller is given lies in
\* the memory of the heap and is nobody else's until it is freed, until a
\* request exceeds a page.
Promise == INSTANCE Allocator WITH
  Memory <- UNION {b .. b + PageSize - 1 : b \in Bases},
  Limit  <- PageSize - Header,
  held   <- {<<e[1] + Header, e[2]>> : e \in BagToSet(live)},
  void   <- oversized

KeepsPromise == Promise!Spec
=============================================================================
