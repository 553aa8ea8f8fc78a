------------------------------ MODULE HeapProofs ------------------------------
(* What is proved of the heap, for pages of any size at any places, sizes   *)
(* of any kind and any sequence of allocations and frees.                   *)
EXTENDS Heap, SequenceTheorems, TLAPS

-----------------------------------------------------------------------------
(* The invariant: what BlocksApart says, the pages that the blocks are in,  *)
(* and a one-to-one correspondence of used blocks and live allocations.     *)

Blocks == [addr : Nat, size : Nat, used : BOOLEAN]

\* Block b lies in page p.
In(b, p) == p <= b.addr /\ End(b) <= p + PageSize

Apart(b, c) == End(b) <= c.addr \/ End(c) <= b.addr

Placed(l, P) ==
  /\ l \in Seq(Blocks)
  /\ \A i \in 1 .. Len(l) : \E p \in P : In(l[i], p)
  /\ \A i, j \in 1 .. Len(l) : i # j => Apart(l[i], l[j])

\* Each allocation is live once, and is of one block.
LiveOnce ==
  /\ live \in [DOMAIN live -> {1}] /\ DOMAIN live \subseteq Nat \X (Nat \ {0})
  /\ \A e, f \in DOMAIN live : e[1] = f[1] => e = f

\* A live allocation has its block, and a used block its allocation.
Owned(e) ==
  \E i \in 1 .. Len(list) : /\ list[i].addr = e[1] /\ list[i].used
                            /\ oversized \/ list[i].size >= e[2]

NoneStuck ==
  \A i \in 1 .. Len(list) : list[i].used => \E e \in DOMAIN live : e[1] = list[i].addr

\* One-to-one, in both directions.
Owners == /\ list \in Seq(Blocks)
          /\ LiveOnce /\ NoneStuck /\ \A e \in DOMAIN live : Owned(e)

HeapInv ==
  /\ oversized \in BOOLEAN
  /\ Owners
  /\ ~oversized => pages \in Seq(Bases) /\ Placed(list, Range(pages))

-----------------------------------------------------------------------------
(* Bags of which every element is there once.                               *)

LEMMA BagAdded ==
  ASSUME NEW B, B \in [DOMAIN B -> {1}], NEW e, e \notin DOMAIN B
  PROVE  B (+) SetToBag({e}) = [x \in DOMAIN B \cup {e} |-> 1]
<1>1. \A x \in DOMAIN B : B[x] = 1
  OBVIOUS
<1>2. DOMAIN SetToBag({e}) = {e} /\ SetToBag({e})[e] = 1
  BY DEF SetToBag
<1>3. \A x \in DOMAIN B : x \notin {e}
  OBVIOUS
<1> QED
  BY <1>1, <1>2, <1>3 DEF (+)

LEMMA BagRemoved ==
  ASSUME NEW B, B \in [DOMAIN B -> {1}], NEW e \in DOMAIN B
  PROVE  B (-) SetToBag({e}) = [x \in DOMAIN B \ {e} |-> 1]
<1> DEFINE C == [x \in DOMAIN B |-> IF x \in DOMAIN SetToBag({e}) THEN B[x] - SetToBag({e})[x]
                                                                  ELSE B[x]]
<1>1. \A x \in DOMAIN B : B[x] = 1
  OBVIOUS
<1>2. DOMAIN SetToBag({e}) = {e} /\ SetToBag({e})[e] = 1
  BY DEF SetToBag
<1>3. \A x \in DOMAIN C : C[x] = IF x = e THEN 0 ELSE 1
  BY <1>1, <1>2
<1>4. {x \in DOMAIN C : C[x] > 0} = DOMAIN B \ {e}
  BY <1>3
<1>5. B (-) SetToBag({e}) = [x \in {x \in DOMAIN C : C[x] > 0} |-> C[x]]
  BY DEF (-)
<1> QED
  BY <1>3, <1>4, <1>5

-----------------------------------------------------------------------------
(* Blocks and their pieces.                                                 *)

\* Sizes are small beside a word.
LEMMA NoWrap ==
  ASSUME NEW x \in Nat, x < PageSize
  PROVE  x % Word = x
<1>1. PICK b \in Bases : TRUE
  BY HeapAssumption
<1>2. b \in Nat /\ b + 2 * PageSize < Word /\ Word \in Nat /\ PageSize \in Nat
  BY HeapAssumption
<1> QED
  BY <1>2

\* A block has at least its header.
LEMMA BlockBounds ==
  ASSUME NEW b \in Blocks
  PROVE  /\ b.addr \in Int /\ b.addr >= 0 /\ b.size \in Int /\ b.size >= 0
         /\ End(b) \in Int /\ End(b) = b.addr + 1 + b.size
BY DEF Blocks, End, Header

\* s is l with a new block behind its i-th.
Inserted(s, l, i, new) ==
  /\ s \in Seq(Blocks) /\ Len(s) = Len(l) + 1
  /\ s[i + 1] = new
  /\ \A k \in 1 .. i : s[k] = l[k]
  /\ \A k \in i + 1 .. Len(l) : s[k + 1] = l[k]

LEMMA InsertShape ==
  ASSUME NEW l \in Seq(Blocks), NEW i \in 1 .. Len(l), NEW new \in Blocks
  PROVE  Inserted(InsertAt(l, i + 1, new), l, i, new)
<1>0. PICK s : s = InsertAt(l, i + 1, new)
  OBVIOUS
<1> DEFINE left == SubSeq(l, 1, i)
           right == SubSeq(l, i + 1, Len(l))
<1>1. \A k \in 1 .. Len(l) : l[k] \in Blocks
  OBVIOUS
<1>2. i \in Nat /\ Len(l) \in Nat /\ i >= 1 /\ i <= Len(l)
  OBVIOUS
<1>3. left \in Seq(Blocks) /\ Len(left) = i /\ \A k \in 1 .. i : left[k] = l[k]
  <2>1. \A k \in 1 .. i : l[k] \in Blocks
    BY <1>1, <1>2
  <2>2. /\ left \in Seq(Blocks) /\ Len(left) = IF 1 <= i THEN i - 1 + 1 ELSE 0
        /\ \A k \in 1 .. i - 1 + 1 : left[k] = l[1 + k - 1]
    BY <2>1, <1>2, SubSeqProperties
  <2> QED
    BY <2>2, <1>2
<1>4. /\ right \in Seq(Blocks) /\ Len(right) = Len(l) - i
      /\ \A k \in 1 .. Len(l) - i : right[k] = l[i + k]
  <2>1. \A k \in i + 1 .. Len(l) : l[k] \in Blocks
    BY <1>1, <1>2
  <2>2. /\ right \in Seq(Blocks)
        /\ Len(right) = IF i + 1 <= Len(l) THEN Len(l) - (i + 1) + 1 ELSE 0
        /\ \A k \in 1 .. Len(l) - (i + 1) + 1 : right[k] = l[(i + 1) + k - 1]
    <3>1. i + 1 \in Int /\ Len(l) \in Int
      BY <1>2
    <3> QED
      BY <2>1, <3>1, SubSeqProperties
  <2> QED
    BY <2>2, <1>2
<1>5. s = left \o <<new>> \o right
  <2>1. (i + 1) - 1 = i
    BY <1>2
  <2>2. InsertAt(l, i + 1, new) = SubSeq(l, 1, (i + 1) - 1) \o <<new>> \o SubSeq(l, i + 1, Len(l))
    BY DEF InsertAt
  <2>3. s = InsertAt(l, i + 1, new)
    BY <1>0
  <2> QED
    BY <2>1, <2>2, <2>3, Zenon
<1> HIDE DEF left, right
<1>6. /\ left \o <<new>> \in Seq(Blocks) /\ Len(left \o <<new>>) = i + 1
      /\ \A k \in 1 .. i : (left \o <<new>>)[k] = left[k]
      /\ (left \o <<new>>)[i + 1] = new
  BY <1>2, <1>3
<1> DEFINE start == left \o <<new>>
<1> HIDE DEF start
<1>7. s = start \o right
  BY <1>5 DEF start
<1>8. /\ s \in Seq(Blocks) /\ Len(s) = i + 1 + (Len(l) - i)
      /\ \A k \in 1 .. i + 1 + (Len(l) - i) :
           s[k] = IF k <= i + 1 THEN start[k] ELSE right[k - (i + 1)]
  <2>1. start \in Seq(Blocks) /\ Len(start) = i + 1
    BY <1>6 DEF start
  <2>2. /\ start \o right \in Seq(Blocks) /\ Len(start \o right) = Len(start) + Len(right)
        /\ \A k \in 1 .. Len(start) + Len(right) : (start \o right)[k] =
             IF k <= Len(start) THEN start[k] ELSE right[k - Len(start)]
    BY <2>1, <1>4, ConcatProperties, Zenon
  <2> QED
    BY <2>1, <2>2, <1>4, <1>7, Zenon
<1>9. \A k \in i + 1 .. Len(l) : right[k - i] = l[k]
  <2> TAKE k \in i + 1 .. Len(l)
  <2>1. k - i \in 1 .. Len(l) - i /\ i + (k - i) = k
    BY <1>2
  <2> QED
    BY <2>1, <1>4
<1>10. \A k \in 1 .. i : start[k] = l[k]
  BY <1>6, <1>3 DEF start
<1>11. start[i + 1] = new
  BY <1>6 DEF start
<1>12. s \in Seq(Blocks) /\ Len(s) = Len(l) + 1
  BY <1>2, <1>8
<1>13. s[i + 1] = new /\ \A k \in 1 .. i : s[k] = l[k]
  <2>1. \A k \in 1 .. i + 1 : s[k] = start[k]
    BY <1>2, <1>8
  <2> QED
    BY <2>1, <1>2, <1>10, <1>11
<1>14. \A k \in i + 1 .. Len(l) : s[k + 1] = l[k]
  <2> TAKE k \in i + 1 .. Len(l)
  <2>1. k + 1 \in 1 .. i + 1 + (Len(l) - i) /\ ~ (k + 1 <= i + 1) /\ k + 1 - (i + 1) = k - i
    BY <1>2
  <2> QED
    BY <2>1, <1>8, <1>9
<1> QED
  BY <1>0, <1>12, <1>13, <1>14 DEF Inserted

\* Block i of l is cut down and another goes in behind it.
Cut(s, l, i, size, new) ==
  /\ s \in Seq(Blocks) /\ Len(s) = Len(l) + 1
  /\ s[i] = [l[i] EXCEPT !.size = size]
  /\ s[i + 1] = new
  /\ \A k \in 1 .. i - 1 : s[k] = l[k]
  /\ \A k \in i + 1 .. Len(l) : s[k + 1] = l[k]

LEMMA CutShape ==
  ASSUME NEW l \in Seq(Blocks), NEW i \in 1 .. Len(l), NEW size \in Nat \ {0}, NEW new \in Blocks
  PROVE  Cut(InsertAt([l EXCEPT ![i].size = size], i + 1, new), l, i, size, new)
<1>1. l[i] \in Blocks /\ DOMAIN l = 1 .. Len(l)
  OBVIOUS
<1>2. PICK c : c = [l EXCEPT ![i].size = size]
  OBVIOUS
<1>3. [l[i] EXCEPT !.size = size] \in Blocks
  BY <1>1 DEF Blocks
<1>4. /\ c \in Seq(Blocks) /\ Len(c) = Len(l) /\ c[i] = [l[i] EXCEPT !.size = size]
      /\ \A k \in 1 .. Len(l) : k # i => c[k] = l[k]
  BY <1>1, <1>2, <1>3
<1>5. PICK s : s = InsertAt(c, i + 1, new)
  OBVIOUS
<1>6. Inserted(s, c, i, new)
  <2>1. c \in Seq(Blocks) /\ i \in 1 .. Len(c)
    BY <1>4
  <2> QED
    BY <2>1, <1>5, InsertShape
<1>7. \A k \in 1 .. i - 1 : s[k] = l[k]
  BY <1>4, <1>6 DEF Inserted
<1>8. \A k \in i + 1 .. Len(l) : s[k + 1] = l[k]
  BY <1>4, <1>6 DEF Inserted
<1>9. s[i] = [l[i] EXCEPT !.size = size] /\ Len(s) = Len(l) + 1
  BY <1>4, <1>6 DEF Inserted
<1> QED
  BY <1>2, <1>5, <1>6, <1>7, <1>8, <1>9 DEF Cut, Inserted

\* What __heap_split does: the block is cut if the rest, which may have
\* wrapped, holds a header and one unit more.
LEMMA SplitShape ==
  ASSUME NEW l \in Seq(Blocks), NEW i \in 1 .. Len(l), NEW size \in Nat \ {0}
  PROVE  LET b == l[i]
             rest == (b.size - size - Header) % Word
         IN \/ Split(l, i, size) = l /\ ~ ((b.size - size) % Word >= Header + 1)
            \/ /\ rest \in Nat
               /\ Cut(Split(l, i, size), l, i, size, Block(b.addr + Header + size, rest))
<1> DEFINE b == l[i]
           rest == (b.size - size - Header) % Word
<1>1. Word \in Nat /\ Word > 0
  <2>1. PICK base \in Bases : TRUE
    BY HeapAssumption
  <2> QED
    BY <2>1, HeapAssumption
<1>2. l[i] \in Blocks /\ b.size \in Int /\ b.addr \in Nat
  <2>1. l[i] \in Blocks
    OBVIOUS
  <2> QED
    BY <2>1 DEF Blocks
<1>3. rest \in Nat
  <2>1. b.size - size - Header \in Int
    BY <1>2 DEF Header
  <2> QED
    BY <1>1, <2>1
<1>4. CASE (b.size - size) % Word >= Header + 1
  <2>1. Block(b.addr + Header + size, rest) \in Blocks
    <3>1. b.addr + Header + size \in Nat
      BY <1>2 DEF Header
    <3> QED
      BY <1>3, <3>1 DEF Block, Blocks
  <2>2. Split(l, i, size)
          = InsertAt([l EXCEPT ![i].size = size], i + 1, Block(b.addr + Header + size, rest))
    BY <1>4 DEF Split
  <2> HIDE DEF b, rest
  <2>3. Cut(Split(l, i, size), l, i, size, Block(b.addr + Header + size, rest))
    BY <2>1, <2>2, CutShape
  <2> QED
    BY <1>3, <2>3 DEF b, rest
<1>5. CASE ~ ((b.size - size) % Word >= Header + 1)
  BY <1>5 DEF Split
<1> QED
  BY <1>4, <1>5

\* Block i of l is given away: it keeps its address, and the other blocks stay.
Given(s, l, i) ==
  /\ s \in Seq(Blocks) /\ Len(s) >= Len(l) /\ s[i].addr = l[i].addr /\ s[i].used
  /\ \A k \in 1 .. Len(s) : k # i /\ s[k].used => \E j \in 1 .. Len(l) : j # i /\ s[k] = l[j]
  /\ \A j \in 1 .. Len(l) : j # i => \E k \in 1 .. Len(s) : s[k] = l[j]

\* What it is given with is enough, and with what is cut off it fills no more
\* than it did.
Served(s, l, i, size) ==
  /\ s \in Seq(Blocks)
  /\ s[i].addr = l[i].addr /\ s[i].used /\ size <= s[i].size /\ s[i].size <= l[i].size
  /\ \A k \in 1 .. i - 1 : s[k] = l[k]
  /\ \/ Len(s) = Len(l) /\ \A k \in i + 1 .. Len(l) : s[k] = l[k]
     \/ /\ Len(s) = Len(l) + 1
        /\ ~ s[i + 1].used /\ s[i + 1].addr = End(s[i]) /\ End(s[i + 1]) <= End(l[i])
        /\ \A k \in i + 1 .. Len(l) : s[k + 1] = l[k]

LEMMA ServedPlaced ==
  ASSUME NEW l, NEW P \in SUBSET Nat, Placed(l, P), NEW i \in 1 .. Len(l), NEW size \in Nat,
         NEW s, Served(s, l, i, size)
  PROVE  Placed(s, P)
<1>1. l \in Seq(Blocks) /\ s \in Seq(Blocks) /\ Len(l) \in Nat /\ Len(s) \in Nat
  BY DEF Placed, Served
<1>2. \A k \in 1 .. Len(l) : l[k] \in Blocks
  BY <1>1
<1>3. \A k \in 1 .. Len(s) : s[k] \in Blocks
  BY <1>1
<1> DEFINE Of(k) == IF k <= i \/ Len(s) = Len(l) THEN k ELSE k - 1
<1>4. \A k \in 1 .. Len(s) :
        /\ Of(k) \in 1 .. Len(l)
        /\ l[Of(k)].addr <= s[k].addr /\ End(s[k]) <= End(l[Of(k)])
  <2> TAKE k \in 1 .. Len(s)
  <2>1. Of(k) \in 1 .. Len(l)
    BY <1>1 DEF Served
  <2>2. CASE k = i
    BY <2>2, <1>2, <1>3, SMTT(30) DEF Served, End, Blocks, Header
  <2>3. CASE k = i + 1 /\ Len(s) # Len(l)
    <3>1. Of(k) = i /\ i \in 1 .. Len(s)
      BY <2>3, <1>1 DEF Served
    <3>2. s[k].addr = End(s[i]) /\ End(s[k]) <= End(l[i]) /\ s[i].addr = l[i].addr
      BY <2>3 DEF Served
    <3>3. s[i] \in Blocks /\ l[i] \in Blocks /\ s[k] \in Blocks
      BY <1>2, <1>3, <3>1
    <3> QED
      BY <3>1, <3>2, <3>3, SMTT(60) DEF End, Blocks, Header
  <2>4. CASE k # i /\ ~ (k = i + 1 /\ Len(s) # Len(l))
    <3>1. s[k] = l[Of(k)]
      <4>1. CASE k < i
        <5>1. k \in 1 .. i - 1
          BY <4>1
        <5> QED
          BY <5>1 DEF Served
      <4>2. CASE k > i /\ Len(s) = Len(l)
        <5>1. k \in i + 1 .. Len(l)
          BY <4>2
        <5> QED
          BY <4>2, <5>1, <1>1 DEF Served
      <4>3. CASE k > i + 1 /\ Len(s) # Len(l)
        <5>1. k - 1 \in i + 1 .. Len(l) /\ (k - 1) + 1 = k /\ Of(k) = k - 1
          BY <4>3, <1>1 DEF Served
        <5>2. \A m \in i + 1 .. Len(l) : s[m + 1] = l[m]
          BY <4>3 DEF Served
        <5> QED
          BY <5>1, <5>2
      <4> QED
        BY <2>4, <4>1, <4>2, <4>3
    <3>2. s[k] \in Blocks
      BY <1>3
    <3> QED
      BY <2>1, <3>1, <3>2, SMTT(30) DEF End, Blocks, Header
  <2> QED
    BY <2>2, <2>3, <2>4
<1>5. \A j, k \in 1 .. Len(s) : j # k /\ Of(j) = Of(k) => Apart(s[j], s[k])
  <2> SUFFICES ASSUME NEW j \in 1 .. Len(s), NEW k \in 1 .. Len(s), j < k, Of(j) = Of(k)
               PROVE  Apart(s[j], s[k]) /\ Apart(s[k], s[j])
    BY DEF Apart
  <2>1. j = i /\ k = i + 1 /\ Len(s) # Len(l)
    BY <1>1
  <2>2. s[k].addr = End(s[j])
    BY <2>1 DEF Served
  <2>3. s[j] \in Blocks /\ s[k] \in Blocks
    BY <1>3
  <2> QED
    BY <2>2, <2>3, SMTT(30) DEF Apart, End, Blocks, Header
<1> HIDE DEF Of
<1>6. \A k \in 1 .. Len(s) : \E p \in P : In(s[k], p)
  <2> TAKE k \in 1 .. Len(s)
  <2>1. PICK p \in P : In(l[Of(k)], p)
    BY <1>4 DEF Placed
  <2>2. l[Of(k)] \in Blocks /\ s[k] \in Blocks /\ p \in Nat /\ PageSize \in Nat
    BY <1>2, <1>3, <1>4, HeapAssumption
  <2>3. /\ p <= l[Of(k)].addr /\ End(l[Of(k)]) <= p + PageSize
        /\ l[Of(k)].addr <= s[k].addr /\ End(s[k]) <= End(l[Of(k)])
    BY <1>4, <2>1 DEF In
  <2>4. /\ l[Of(k)].addr \in Int /\ s[k].addr \in Int
        /\ End(l[Of(k)]) \in Int /\ End(s[k]) \in Int
    BY <2>2, SMTT(30) DEF End, Blocks, Header
  <2>5. In(s[k], p)
    BY <2>2, <2>3, <2>4 DEF In
  <2> QED
    BY <2>5
<1>7. \A j, k \in 1 .. Len(s) : j # k => Apart(s[j], s[k])
  <2> SUFFICES ASSUME NEW j \in 1 .. Len(s), NEW k \in 1 .. Len(s), j # k, Of(j) # Of(k)
               PROVE  Apart(s[j], s[k])
    BY <1>5
  <2>1. Apart(l[Of(j)], l[Of(k)])
    BY <1>4 DEF Placed
  <2>2. s[j] \in Blocks /\ s[k] \in Blocks /\ l[Of(j)] \in Blocks /\ l[Of(k)] \in Blocks
    BY <1>2, <1>3, <1>4
  <2>3. /\ l[Of(j)].addr <= s[j].addr /\ End(s[j]) <= End(l[Of(j)])
        /\ l[Of(k)].addr <= s[k].addr /\ End(s[k]) <= End(l[Of(k)])
    BY <1>4
  <2>4. /\ l[Of(j)].addr \in Int /\ s[j].addr \in Int /\ l[Of(k)].addr \in Int /\ s[k].addr \in Int
        /\ End(l[Of(j)]) \in Int /\ End(s[j]) \in Int /\ End(l[Of(k)]) \in Int /\ End(s[k]) \in Int
    BY <2>2, BlockBounds
  <2> QED
    BY <2>1, <2>3, <2>4, SMTT(30) DEF Apart
<1> QED
  BY <1>1, <1>6, <1>7 DEF Placed

LEMMA TakenBlock ==
  ASSUME NEW b \in Blocks, NEW size, NEW u
  PROVE  [b EXCEPT !.size = size, !.used = u] = [addr |-> b.addr, size |-> size, used |-> u]
<1>1. PICK d : d = [b EXCEPT !.size = size]
  OBVIOUS
<1>2. d = [addr |-> b.addr, size |-> size, used |-> b.used]
  BY <1>1 DEF Blocks
<1>3. [d EXCEPT !.used = u] = [addr |-> b.addr, size |-> size, used |-> u]
  BY <1>2
<1> QED
  BY <1>1, <1>3, Zenon

LEMMA UsedBlock ==
  ASSUME NEW b \in Blocks, NEW u
  PROVE  [b EXCEPT !.used = u] = [addr |-> b.addr, size |-> b.size, used |-> u]
BY DEF Blocks

\* A free block that is large enough is served.
LEMMA FirstFitServed ==
  ASSUME NEW l \in Seq(Blocks), NEW i \in 1 .. Len(l), NEW size \in Nat \ {0},
         ~ l[i].used, l[i].size >= size, l[i].size < PageSize
  PROVE  Served(Taken(Split(l, i, size), i, size), l, i, size)
<1>1. l[i] \in Blocks /\ DOMAIN l = 1 .. Len(l) /\ Len(l) \in Nat
  OBVIOUS
<1>2. l[i].addr \in Nat /\ l[i].size \in Nat
  BY <1>1 DEF Blocks
<1>3. PICK c : c = Split(l, i, size)
  OBVIOUS
<1>4. PICK s : s = Taken(c, i, size)
  OBVIOUS
<1>5. /\ c \in Seq(Blocks) /\ i \in 1 .. Len(c) /\ c[i].addr = l[i].addr
      => /\ s \in Seq(Blocks) /\ Len(s) = Len(c)
         /\ s[i] = [addr |-> l[i].addr, size |-> size, used |-> TRUE]
         /\ \A k \in 1 .. Len(c) : k # i => s[k] = c[k]
  <2> SUFFICES ASSUME c \in Seq(Blocks), i \in 1 .. Len(c), c[i].addr = l[i].addr
               PROVE  /\ s \in Seq(Blocks) /\ Len(s) = Len(c)
                      /\ s[i] = [addr |-> l[i].addr, size |-> size, used |-> TRUE]
                      /\ \A k \in 1 .. Len(c) : k # i => s[k] = c[k]
    OBVIOUS
  <2>1. c[i] \in Blocks
    OBVIOUS
  <2>2. PICK b : b = [addr |-> l[i].addr, size |-> size, used |-> TRUE]
    OBVIOUS
  <2>3. b \in Blocks
    BY <1>2, <2>2 DEF Blocks
  <2>4. s = [c EXCEPT ![i] = b]
    <3>1. b = [c[i] EXCEPT !.size = size, !.used = TRUE]
      <4>1. [c[i] EXCEPT !.size = size, !.used = TRUE]
              = [addr |-> c[i].addr, size |-> size, used |-> TRUE]
        BY <2>1, TakenBlock
      <4>2. c[i].addr = l[i].addr
        OBVIOUS
      <4> QED
        BY <2>2, <4>1, <4>2
    <3>2. s = [c EXCEPT ![i] = [c[i] EXCEPT !.size = size, !.used = TRUE]]
      BY <1>4 DEF Taken
    <3> QED
      BY <3>1, <3>2
  <2> QED
    BY <2>2, <2>3, <2>4
<1>6. CASE c = l
  <2>1. /\ s \in Seq(Blocks) /\ Len(s) = Len(l)
        /\ s[i] = [addr |-> l[i].addr, size |-> size, used |-> TRUE]
        /\ \A k \in 1 .. Len(l) : k # i => s[k] = l[k]
    BY <1>5, <1>6
  <2>2. \A k \in 1 .. i - 1 : s[k] = l[k]
    BY <2>1, <1>1
  <2>3. \A k \in i + 1 .. Len(l) : s[k] = l[k]
    BY <2>1, <1>1
  <2> QED
    BY <1>2, <1>3, <1>4, <2>1, <2>2, <2>3 DEF Served
<1>7. CASE /\ (l[i].size - size - Header) % Word \in Nat
           /\ Cut(c, l, i, size,
                  Block(l[i].addr + Header + size, (l[i].size - size - Header) % Word))
           /\ c # l
  <2>1. l[i].size - size >= Header + 1
    <3>1. l[i].size - size \in Nat /\ l[i].size - size < PageSize
      BY <1>2, HeapAssumption
    <3>2. (l[i].size - size) % Word = l[i].size - size
      BY <3>1, NoWrap
    <3> QED
      BY <1>3, <1>7, <3>2 DEF Split
  <2>2. (l[i].size - size - Header) % Word = l[i].size - size - 1
    <3>1. l[i].size - size - Header \in Nat /\ l[i].size - size - Header < PageSize
      BY <1>2, <2>1, HeapAssumption DEF Header
    <3> QED
      BY <3>1, NoWrap DEF Header
  <2>3. PICK new : new = [addr |-> l[i].addr + 1 + size, size |-> l[i].size - size - 1, used |-> FALSE]
    OBVIOUS
  <2>4. Cut(c, l, i, size, new)
    BY <1>7, <2>2, <2>3 DEF Block, Header
  <2>5. /\ c \in Seq(Blocks) /\ Len(c) = Len(l) + 1 /\ i \in 1 .. Len(c) /\ i + 1 \in 1 .. Len(c)
        /\ c[i].addr = l[i].addr /\ c[i + 1] = new
        /\ \A k \in 1 .. i - 1 : c[k] = l[k]
        /\ \A k \in i + 1 .. Len(l) : c[k + 1] = l[k]
    <3>1. c[i].addr = l[i].addr
      BY <1>1, <2>4 DEF Cut, Blocks
    <3>2. c \in Seq(Blocks) /\ Len(c) = Len(l) + 1 /\ i \in 1 .. Len(c) /\ i + 1 \in 1 .. Len(c)
      BY <1>1, <2>4 DEF Cut
    <3> QED
      BY <3>1, <3>2, <2>4 DEF Cut
  <2>6. /\ s \in Seq(Blocks) /\ Len(s) = Len(c)
        /\ s[i] = [addr |-> l[i].addr, size |-> size, used |-> TRUE]
        /\ \A k \in 1 .. Len(c) : k # i => s[k] = c[k]
    BY <1>5, <2>5
  <2>7. \A k \in 1 .. i - 1 : s[k] = l[k]
    BY <2>5, <2>6, <1>1
  <2>8. s[i + 1] = new
    BY <2>5, <2>6
  <2>9. \A k \in i + 1 .. Len(l) : s[k + 1] = l[k]
    BY <2>5, <2>6, <1>1
  <2>10. s[i + 1].addr = End(s[i]) /\ End(s[i + 1]) <= End(l[i])
    BY <1>2, <2>3, <2>6, <2>8, SMTT(30) DEF End, Header
  <2> QED
    BY <1>2, <1>3, <1>4, <2>1, <2>3, <2>5, <2>6, <2>7, <2>8, <2>9, <2>10 DEF Served
<1>8. c = l \/ (/\ (l[i].size - size - Header) % Word \in Nat
                /\ Cut(c, l, i, size,
                       Block(l[i].addr + Header + size, (l[i].size - size - Header) % Word)))
  BY <1>3, SplitShape
<1> QED
  BY <1>6, <1>7, <1>8

\* What becomes of the blocks when the block of a new page is given away.
LEMMA NewPageGiven ==
  ASSUME NEW l \in Seq(Blocks), NEW n, n = Len(l), n > 0, NEW size \in Nat \ {0},
         NEW s, s = [Split(l, n, size) EXCEPT ![n].used = TRUE]
  PROVE  /\ Given(s, l, n)
         /\ size <= l[n].size /\ l[n].size < PageSize => Served(s, l, n, size)
<1>1. n \in 1 .. Len(l) /\ n \in Nat
  OBVIOUS
<1>2. l[n] \in Blocks /\ l[n].addr \in Nat /\ l[n].size \in Nat
  <2>1. l[n] \in Blocks
    BY <1>1
  <2> QED
    BY <2>1 DEF Blocks
<1>3. PICK c : c = Split(l, n, size)
  OBVIOUS
<1>4. c \in Seq(Blocks) /\ n \in 1 .. Len(c)
      => /\ s \in Seq(Blocks) /\ Len(s) = Len(c)
         /\ s[n].addr = c[n].addr /\ s[n].size = c[n].size /\ s[n].used
         /\ \A k \in 1 .. Len(c) : k # n => s[k] = c[k]
  <2> SUFFICES ASSUME c \in Seq(Blocks), n \in 1 .. Len(c)
               PROVE  /\ s \in Seq(Blocks) /\ Len(s) = Len(c)
                      /\ s[n].addr = c[n].addr /\ s[n].size = c[n].size /\ s[n].used
                      /\ \A k \in 1 .. Len(c) : k # n => s[k] = c[k]
    OBVIOUS
  <2>1. c[n] \in Blocks
    OBVIOUS
  <2>2. PICK b : b = [addr |-> c[n].addr, size |-> c[n].size, used |-> TRUE]
    OBVIOUS
  <2>3. b \in Blocks
    BY <2>1, <2>2 DEF Blocks
  <2>4. s = [c EXCEPT ![n] = b]
    <3>1. b = [c[n] EXCEPT !.used = TRUE]
      BY <2>1, <2>2, UsedBlock
    <3>2. s = [c EXCEPT ![n] = [c[n] EXCEPT !.used = TRUE]]
      BY <1>3
    <3> QED
      BY <3>1, <3>2
  <2>5. b.addr = c[n].addr /\ b.size = c[n].size /\ b.used
    BY <2>2
  <2>6. s \in Seq(Blocks) /\ Len(s) = Len(c) /\ s[n] = b /\ \A k \in 1 .. Len(c) : k # n => s[k] = c[k]
    <3>1. PICK d : d = [c EXCEPT ![n] = b]
      OBVIOUS
    <3>2. d \in Seq(Blocks) /\ Len(d) = Len(c) /\ d[n] = b /\ \A k \in 1 .. Len(c) : k # n => d[k] = c[k]
      BY <2>3, <3>1
    <3>3. s = d
      BY <2>4, <3>1
    <3> QED
      BY <3>2, <3>3
  <2> QED
    BY <2>5, <2>6
<1>5. CASE c = l
  <2>1. /\ s \in Seq(Blocks) /\ Len(s) = Len(l)
        /\ s[n].addr = l[n].addr /\ s[n].size = l[n].size /\ s[n].used
        /\ \A k \in 1 .. Len(l) : k # n => s[k] = l[k]
    BY <1>1, <1>4, <1>5
  <2>2. Given(s, l, n)
    BY <1>1, <2>1 DEF Given
  <2>3. size <= l[n].size => Served(s, l, n, size)
    BY <1>1, <1>2, <2>1 DEF Served
  <2> QED
    BY <2>2, <2>3
<1>6. ASSUME NEW rest \in Nat, c # l, rest = (l[n].size - size - Header) % Word,
             Cut(c, l, n, size, Block(l[n].addr + Header + size, rest))
      PROVE  /\ Given(s, l, n)
             /\ size <= l[n].size /\ l[n].size < PageSize => Served(s, l, n, size)
  <2>1. PICK new : new = [addr |-> l[n].addr + 1 + size, size |-> rest, used |-> FALSE]
    OBVIOUS
  <2>2. Cut(c, l, n, size, new)
    BY <1>6, <2>1 DEF Block, Header
  <2>3. /\ c \in Seq(Blocks) /\ Len(c) = n + 1 /\ n \in 1 .. Len(c)
        /\ c[n] = [addr |-> l[n].addr, size |-> size, used |-> l[n].used] /\ c[n + 1] = new
        /\ \A k \in 1 .. n - 1 : c[k] = l[k]
    <3>1. c[n] = [l[n] EXCEPT !.size = size] /\ Len(c) = n + 1
      BY <1>1, <2>2 DEF Cut
    <3>2. c[n] = [addr |-> l[n].addr, size |-> size, used |-> l[n].used]
      BY <3>1, <1>2 DEF Blocks
    <3> QED
      BY <3>1, <3>2, <2>2, <1>1 DEF Cut
  <2>4. /\ s \in Seq(Blocks) /\ Len(s) = n + 1
        /\ s[n].addr = l[n].addr /\ s[n].size = size /\ s[n].used
        /\ \A k \in 1 .. n + 1 : k # n => s[k] = c[k]
    BY <1>4, <2>3
  <2>5. s[n + 1] = new /\ \A k \in 1 .. n - 1 : s[k] = l[k]
    BY <1>1, <2>3, <2>4
  <2>6. Given(s, l, n)
    <3>1. ~ s[n + 1].used
      BY <2>1, <2>5
    <3>2. \A k \in 1 .. Len(s) : k # n /\ s[k].used => \E j \in 1 .. Len(l) : j # n /\ s[k] = l[j]
      <4> SUFFICES ASSUME NEW k \in 1 .. Len(s), k # n, s[k].used
                   PROVE  \E j \in 1 .. Len(l) : j # n /\ s[k] = l[j]
        OBVIOUS
      <4>1. k \in 1 .. n - 1
        BY <1>1, <2>4, <3>1
      <4>2. k \in 1 .. Len(l) /\ s[k] = l[k]
        BY <4>1, <2>5, <1>1
      <4> QED
        BY <4>2
    <3>3. \A j \in 1 .. Len(l) : j # n => \E k \in 1 .. Len(s) : s[k] = l[j]
      <4> SUFFICES ASSUME NEW j \in 1 .. Len(l), j # n PROVE \E k \in 1 .. Len(s) : s[k] = l[j]
        OBVIOUS
      <4>1. j \in 1 .. n - 1 /\ j \in 1 .. Len(s)
        BY <1>1, <2>4
      <4> QED
        BY <4>1, <2>5
    <3> QED
      <4>1. s \in Seq(Blocks) /\ Len(s) >= Len(l) /\ s[n].addr = l[n].addr /\ s[n].used
        BY <1>1, <2>4
      <4> QED
        BY <4>1, <3>2, <3>3, Zenon DEF Given
  <2>7. size <= l[n].size /\ l[n].size < PageSize => Served(s, l, n, size)
    <3> SUFFICES ASSUME size <= l[n].size, l[n].size < PageSize PROVE Served(s, l, n, size)
      OBVIOUS
    <3>1. l[n].size - size >= Header + 1
      <4>1. l[n].size - size \in Nat /\ l[n].size - size < PageSize
        BY <1>2, HeapAssumption, SMTT(30)
      <4>2. (l[n].size - size) % Word = l[n].size - size
        BY <4>1, NoWrap
      <4> QED
        BY <1>3, <1>6, <4>2 DEF Split
    <3>2. rest = l[n].size - size - 1
      <4>1. l[n].size - size - Header \in Nat /\ l[n].size - size - Header < PageSize
        BY <1>2, <3>1, HeapAssumption, SMTT(30) DEF Header
      <4> QED
        BY <1>6, <4>1, NoWrap DEF Header
    <3>3. s[n + 1].addr = End(s[n]) /\ End(s[n + 1]) <= End(l[n]) /\ ~ s[n + 1].used
      BY <1>2, <2>1, <2>4, <2>5, <3>2, SMTT(60) DEF End, Header
    <3> QED
      BY <1>1, <1>2, <2>4, <2>5, <3>3 DEF Served
  <2> QED
    BY <2>6, <2>7
<1>7. \/ c = l
      \/ \E rest \in Nat : /\ rest = (l[n].size - size - Header) % Word
                           /\ Cut(c, l, n, size, Block(l[n].addr + Header + size, rest))
  BY <1>1, <1>3, SplitShape
<1> QED
  BY <1>5, <1>6, <1>7

LEMMA ServedGiven ==
  ASSUME NEW l \in Seq(Blocks), NEW i \in 1 .. Len(l), NEW size, NEW s, Served(s, l, i, size)
  PROVE  Given(s, l, i)
<1>1. s \in Seq(Blocks) /\ Len(s) \in Nat /\ Len(l) \in Nat /\ i \in Nat
  BY DEF Served
<1>2. CASE Len(s) = Len(l) /\ \A k \in i + 1 .. Len(l) : s[k] = l[k]
  <2>1. \A k \in 1 .. Len(l) : k # i => s[k] = l[k]
    <3> SUFFICES ASSUME NEW k \in 1 .. Len(l), k # i PROVE s[k] = l[k]
      OBVIOUS
    <3>1. k \in 1 .. i - 1 \/ k \in i + 1 .. Len(l)
      BY <1>1
    <3> QED
      BY <3>1, <1>2 DEF Served
  <2> QED
    BY <1>1, <1>2, <2>1 DEF Served, Given
<1>3. CASE /\ Len(s) = Len(l) + 1 /\ ~ s[i + 1].used
           /\ \A k \in i + 1 .. Len(l) : s[k + 1] = l[k]
  <2>1. \A k \in 1 .. Len(s) : k # i /\ s[k].used => \E j \in 1 .. Len(l) : j # i /\ s[k] = l[j]
    <3> SUFFICES ASSUME NEW k \in 1 .. Len(s), k # i, s[k].used
                 PROVE  \E j \in 1 .. Len(l) : j # i /\ s[k] = l[j]
      OBVIOUS
    <3>1. CASE k < i
      <4>1. k \in 1 .. i - 1 /\ k \in 1 .. Len(l)
        BY <3>1, <1>1
      <4> QED
        BY <4>1 DEF Served
    <3>2. CASE k > i + 1
      <4>1. k - 1 \in i + 1 .. Len(l) /\ (k - 1) + 1 = k /\ k - 1 \in 1 .. Len(l) /\ k - 1 # i
        BY <3>2, <1>1, <1>3
      <4>2. s[(k - 1) + 1] = l[k - 1]
        BY <4>1, <1>3
      <4> QED
        BY <4>1, <4>2
    <3>3. k # i + 1
      BY <1>3
    <3> QED
      BY <3>1, <3>2, <3>3, <1>1
  <2>2. \A j \in 1 .. Len(l) : j # i => \E k \in 1 .. Len(s) : s[k] = l[j]
    <3> SUFFICES ASSUME NEW j \in 1 .. Len(l), j # i PROVE \E k \in 1 .. Len(s) : s[k] = l[j]
      OBVIOUS
    <3>1. CASE j < i
      <4>1. j \in 1 .. i - 1 /\ j \in 1 .. Len(s)
        BY <3>1, <1>1, <1>3
      <4> QED
        BY <4>1 DEF Served
    <3>2. CASE j > i
      <4>1. j \in i + 1 .. Len(l) /\ j + 1 \in 1 .. Len(s)
        BY <3>2, <1>1, <1>3
      <4> QED
        BY <4>1, <1>3
    <3> QED
      BY <3>1, <3>2, <1>1
  <2>3. s[i].addr = l[i].addr /\ s[i].used /\ Len(s) >= Len(l)
    BY <1>1, <1>3 DEF Served
  <2> QED
    BY <1>1, <2>1, <2>2, <2>3, Zenon DEF Given
<1> QED
  BY <1>2, <1>3 DEF Served

-----------------------------------------------------------------------------
(* The steps of the heap.                                                   *)

\* Blocks that are apart are told apart by their addresses.
LEMMA AddressesDiffer ==
  ASSUME NEW l, NEW P, Placed(l, P)
  PROVE  \A j, k \in 1 .. Len(l) : j # k => l[j].addr # l[k].addr
<1> SUFFICES ASSUME NEW j \in 1 .. Len(l), NEW k \in 1 .. Len(l), j # k
             PROVE  l[j].addr # l[k].addr
  OBVIOUS
<1>1. Apart(l[j], l[k]) /\ l[j] \in Blocks /\ l[k] \in Blocks
  BY DEF Placed
<1> QED
  BY <1>1, BlockBounds, SMTT(30) DEF Apart

\* A block in a page is smaller than the page.
LEMMA InsidePage ==
  ASSUME NEW l, NEW P \in SUBSET Nat, Placed(l, P), NEW i \in 1 .. Len(l)
  PROVE  l[i].size < PageSize
<1>1. PICK p \in P : In(l[i], p)
  BY DEF Placed
<1>2. l[i] \in Blocks /\ p \in Nat /\ PageSize \in Nat
  BY HeapAssumption DEF Placed
<1> QED
  BY <1>1, <1>2, BlockBounds DEF In

LEMMA PagesAreNumbers ==
  ASSUME pages \in Seq(Bases)
  PROVE  Range(pages) \in SUBSET Nat /\ Range(pages) \subseteq Bases
<1>1. \A x \in DOMAIN pages : pages[x] \in Bases
  OBVIOUS
<1>2. Range(pages) \subseteq Bases
  BY <1>1 DEF Range
<1> QED
  BY <1>2, HeapAssumption

\* l has the used blocks of the list and no others.
SameUsed(l) ==
  /\ \A j \in 1 .. Len(list) : list[j].used => \E k \in 1 .. Len(l) : l[k] = list[j]
  /\ \A k \in 1 .. Len(l) : l[k].used => \E j \in 1 .. Len(list) : l[k] = list[j]

\* A free block of l, which has the used blocks of the list and no others, is
\* given to the caller that is answered with its address.
LEMMA AllocatedStep ==
  ASSUME HeapInv, ~oversized, oversized' \in BOOLEAN,
         NEW l, NEW P, Placed(l, P), NEW i \in 1 .. Len(l), ~ l[i].used,
         SameUsed(l), NEW size \in Nat \ {0}, Given(list', l, i), Allocated(l[i].addr, size),
         oversized' \/ list'[i].size >= size
  PROVE  Owners'
<1> DEFINE e0 == <<l[i].addr, size>>
<1>1. \A j, k \in 1 .. Len(l) : j # k => l[j].addr # l[k].addr
  BY AddressesDiffer
<1>2. \A e \in DOMAIN live :
        \E k \in 1 .. Len(l) : k # i /\ l[k].addr = e[1] /\ l[k].used /\ l[k].size >= e[2]
  <2> TAKE e \in DOMAIN live
  <2>1. PICK j \in 1 .. Len(list) : list[j].addr = e[1] /\ list[j].used /\ list[j].size >= e[2]
    BY DEF HeapInv, Owners, Owned
  <2>2. PICK k \in 1 .. Len(l) : l[k] = list[j]
    BY <2>1 DEF SameUsed
  <2> QED
    BY <2>1, <2>2
<1>3. \A e \in DOMAIN live : e[1] # l[i].addr
  BY <1>1, <1>2
<1>4. live \in [DOMAIN live -> {1}] /\ e0 \notin DOMAIN live
  BY <1>3 DEF HeapInv, Owners, LiveOnce
<1>5. live' = [x \in DOMAIN live \cup {e0} |-> 1]
  BY <1>4, BagAdded DEF Allocated
<1>6. l[i].addr \in Nat /\ l[i] \in Blocks
  <2>1. l[i] \in Blocks
    BY DEF Placed
  <2> QED
    BY <2>1 DEF Blocks
<1>7. LiveOnce'
  <2>1. DOMAIN live' = DOMAIN live \cup {e0} /\ live' \in [DOMAIN live' -> {1}]
    BY <1>5
  <2>2. e0 \in Nat \X (Nat \ {0}) /\ e0[1] = l[i].addr
    BY <1>6
  <2>3. \A e, f \in DOMAIN live' : e[1] = f[1] => e = f
    BY <1>3, <2>1, <2>2 DEF HeapInv, Owners, LiveOnce
  <2> QED
    BY <2>1, <2>2, <2>3 DEF HeapInv, Owners, LiveOnce
<1>8. list' \in Seq(Blocks) /\ i \in 1 .. Len(list')
  BY DEF Given, Placed
<1>9. \A e \in DOMAIN live' : Owned(e)'
  <2> SUFFICES ASSUME NEW e \in DOMAIN live \cup {e0} PROVE Owned(e)'
    BY <1>5
  <2>1. CASE e = e0
    <3>1. list'[i].addr = e[1] /\ list'[i].used /\ (oversized' \/ list'[i].size >= e[2])
      BY <2>1 DEF Given
    <3> QED
      BY <3>1, <1>8 DEF Owned
  <2>2. CASE e \in DOMAIN live
    <3>1. PICK k \in 1 .. Len(l) : k # i /\ l[k].addr = e[1] /\ l[k].used /\ l[k].size >= e[2]
      BY <2>2, <1>2
    <3>2. PICK m \in 1 .. Len(list') : list'[m] = l[k]
      BY <3>1 DEF Given
    <3> QED
      BY <3>1, <3>2 DEF Owned
  <2> QED
    BY <2>1, <2>2
<1>10. NoneStuck'
  <2> SUFFICES ASSUME NEW k \in 1 .. Len(list'), list'[k].used
               PROVE  \E e \in DOMAIN live \cup {e0} : e[1] = list'[k].addr
    BY <1>5 DEF NoneStuck
  <2>1. CASE k = i
    <3>1. e0[1] = list'[k].addr
      BY <2>1 DEF Given
    <3> QED
      BY <3>1
  <2>2. CASE k # i
    <3>1. PICK j \in 1 .. Len(l) : list'[k] = l[j]
      BY <2>2 DEF Given
    <3>2. PICK m \in 1 .. Len(list) : l[j] = list[m]
      BY <3>1 DEF SameUsed
    <3>3. list[m].used /\ list[m].addr = list'[k].addr
      BY <3>1, <3>2
    <3> QED
      BY <3>3 DEF HeapInv, Owners, NoneStuck
  <2> QED
    BY <2>1, <2>2
<1> QED
  BY <1>7, <1>8, <1>9, <1>10 DEF Owners

\* What first fit does, for the invariant and for what it promises.
LEMMA FirstFitStep ==
  ASSUME HeapInv, ~oversized, NEW size \in Nat \ {0}, NEW i \in 1 .. Len(list), Fits(i, size),
         list' = Taken(Split(list, i, size), i, size), Allocated(list[i].addr, size),
         UNCHANGED <<pages, oversized>>
  PROVE  HeapInv'
<1>1. /\ list \in Seq(Blocks) /\ pages \in Seq(Bases) /\ Placed(list, Range(pages))
      /\ ~ list[i].used /\ list[i].size >= size
  BY DEF HeapInv, Owners, Fits
<1>2. Range(pages) \in SUBSET Nat
  BY <1>1, PagesAreNumbers
<1>3. list[i].size < PageSize
  BY <1>1, <1>2, InsidePage
<1>4. Served(list', list, i, size)
  BY <1>1, <1>3, FirstFitServed
<1>5. Given(list', list, i)
  BY <1>1, <1>4, ServedGiven
<1>6. Owners'
  <2>1. list'[i].size >= size
    BY <1>4 DEF Served
  <2>2. oversized' \in BOOLEAN
    BY DEF HeapInv, Owners
  <2>3. SameUsed(list)
    BY DEF SameUsed
  <2> QED
    BY <1>1, <1>5, <2>1, <2>2, <2>3, AllocatedStep
<1>7. Placed(list', Range(pages))
  BY <1>1, <1>2, <1>4, ServedPlaced
<1> QED
  BY <1>1, <1>6, <1>7 DEF HeapInv, Owners

\* The block of a page that the heap did not have is apart from its others.
Grown(g, l, base) ==
  /\ Placed(g, Range(pages) \cup {base})
  /\ Len(g) = Len(l) + 1 /\ Len(g) \in Nat /\ \A k \in 1 .. Len(l) : g[k] = l[k]
  /\ g[Len(g)] = [addr |-> base, size |-> PageSize - 1, used |-> FALSE]

LEMMA GrownPlaced ==
  ASSUME pages \in Seq(Bases), NEW base \in Bases \ Range(pages), NEW l, Placed(l, Range(pages)),
         NEW g, g = Append(l, Block(base, PageSize - Header))
  PROVE  Grown(g, l, base)
<1>1. /\ PageSize \in Nat /\ PageSize > 3 /\ base \in Nat /\ Bases \subseteq Nat
      /\ \A b, c \in Bases : b < c => b + PageSize <= c
  BY HeapAssumption
<1>2. PICK new : new = [addr |-> base, size |-> PageSize - 1, used |-> FALSE]
  OBVIOUS
<1>3. new \in Blocks /\ End(new) = base + PageSize
  BY <1>1, <1>2 DEF Blocks, End, Header
<1>4. g = Append(l, new) /\ l \in Seq(Blocks)
  BY <1>2 DEF Block, Header, Placed
<1>5. /\ g \in Seq(Blocks) /\ Len(g) = Len(l) + 1 /\ Len(l) \in Nat
      /\ g[Len(g)] = new /\ \A k \in 1 .. Len(l) : g[k] = l[k]
  BY <1>3, <1>4
<1>6. \A k \in 1 .. Len(g) : \E p \in Range(pages) \cup {base} : In(g[k], p)
  <2> TAKE k \in 1 .. Len(g)
  <2>1. CASE k = Len(g)
    <3>1. In(new, base)
      BY <1>1, <1>2, <1>3 DEF In
    <3> QED
      BY <2>1, <3>1, <1>5
  <2>2. CASE k \in 1 .. Len(l)
    BY <2>2, <1>5 DEF Placed
  <2> QED
    BY <2>1, <2>2, <1>5
<1>7. \A k \in 1 .. Len(l) : Apart(l[k], new) /\ Apart(new, l[k])
  <2> TAKE k \in 1 .. Len(l)
  <2>1. PICK p \in Range(pages) : In(l[k], p)
    BY DEF Placed
  <2>2. p \in Bases /\ p # base /\ p \in Nat
    BY <2>1, <1>1, PagesAreNumbers
  <2>3. p + PageSize <= base \/ base + PageSize <= p
    BY <1>1, <2>2
  <2>4. l[k] \in Blocks
    BY <1>4
  <2>5. /\ l[k].addr \in Int /\ End(l[k]) \in Int /\ p <= l[k].addr /\ End(l[k]) <= p + PageSize
        /\ new.addr = base
    BY <2>1, <2>4, <1>2, BlockBounds DEF In
  <2> QED
    BY <1>1, <1>3, <2>2, <2>3, <2>5 DEF Apart
<1>8. \A j, k \in 1 .. Len(g) : j # k => Apart(g[j], g[k])
  <2> SUFFICES ASSUME NEW j \in 1 .. Len(g), NEW k \in 1 .. Len(g), j # k
               PROVE  Apart(g[j], g[k])
    OBVIOUS
  <2>1. CASE j \in 1 .. Len(l) /\ k \in 1 .. Len(l)
    BY <2>1, <1>5 DEF Placed
  <2>2. CASE j = Len(g) /\ k \in 1 .. Len(l)
    BY <2>2, <1>5, <1>7
  <2>3. CASE k = Len(g) /\ j \in 1 .. Len(l)
    BY <2>3, <1>5, <1>7
  <2> QED
    BY <2>1, <2>2, <2>3, <1>5
<1> QED
  BY <1>2, <1>5, <1>6, <1>8 DEF Placed, Grown

LEMMA NewPageStep ==
  ASSUME HeapInv, ~oversized, NEW size \in Nat \ {0}, NEW base \in Bases \ Range(pages),
         NEW g, g = Append(list, Block(base, PageSize - Header)),
         NEW n, n = Len(list) + 1,
         list' = [Split(g, n, size) EXCEPT ![n].used = TRUE],
         pages' = Append(pages, base), Allocated(base, size),
         oversized' = (oversized \/ size > PageSize - Header)
  PROVE  HeapInv'
<1>1. list \in Seq(Blocks) /\ pages \in Seq(Bases) /\ Placed(list, Range(pages))
  BY DEF HeapInv, Owners
<1>2. /\ Placed(g, Range(pages) \cup {base}) /\ g \in Seq(Blocks)
      /\ n = Len(g) /\ n \in Nat /\ n > 0 /\ n \in 1 .. Len(g)
      /\ \A k \in 1 .. Len(list) : g[k] = list[k]
      /\ g[n] = [addr |-> base, size |-> PageSize - 1, used |-> FALSE]
  <2>1. Grown(g, list, base)
    BY <1>1, GrownPlaced
  <2>2. Len(list) \in Nat
    BY <1>1
  <2>3. n = Len(g) /\ n \in Nat /\ n > 0 /\ n \in 1 .. Len(g)
    BY <2>1, <2>2 DEF Grown
  <2>4. g \in Seq(Blocks)
    BY <2>1 DEF Placed, Grown
  <2> QED
    BY <2>1, <2>3, <2>4 DEF Grown
<1>3. /\ Given(list', g, n)
      /\ size <= g[n].size /\ g[n].size < PageSize => Served(list', g, n, size)
  BY <1>2, NewPageGiven
<1>4. oversized' \in BOOLEAN /\ ~oversized' => size <= PageSize - 1
  <2>1. oversized' = (size > PageSize - 1)
    BY DEF Header
  <2>2. PageSize \in Nat
    BY HeapAssumption
  <2>3. CASE size > PageSize - 1
    BY <2>1, <2>3
  <2>4. CASE ~ (size > PageSize - 1)
    BY <2>1, <2>2, <2>4
  <2> QED
    BY <2>3, <2>4
<1>5. ~oversized' => Served(list', g, n, size)
  <2>1. g[n].size = PageSize - 1 /\ PageSize - 1 < PageSize
    BY <1>2, HeapAssumption
  <2> QED
    BY <1>3, <1>4, <2>1
<1>6. Owners'
  <2>1. \A j \in 1 .. Len(list) : list[j].used => \E k \in 1 .. Len(g) : g[k] = list[j]
    <3> TAKE j \in 1 .. Len(list)
    <3>1. j \in 1 .. Len(g)
      BY <1>2
    <3> QED
      BY <1>2, <3>1
  <2>2. \A k \in 1 .. Len(g) : g[k].used => \E j \in 1 .. Len(list) : g[k] = list[j]
    <3> TAKE k \in 1 .. Len(g)
    <3>1. ~ g[n].used
      BY <1>2
    <3>2. k # n => k \in 1 .. Len(list)
      BY <1>2
    <3> QED
      BY <1>2, <3>1, <3>2
  <2>3. oversized' \/ list'[n].size >= size
    BY <1>5 DEF Served
  <2>4. g[n].addr = base /\ ~ g[n].used
    BY <1>2
  <2>5. Allocated(g[n].addr, size)
    BY <2>4
  <2>6. PICK P : Placed(g, P)
    BY <1>2
  <2>7. n \in 1 .. Len(g) /\ Given(list', g, n)
    BY <1>2, <1>3
  <2>8. SameUsed(g)
    BY <2>1, <2>2 DEF SameUsed
  <2> QED
    BY <2>7, <1>4, <2>8, <2>3, <2>4, <2>5, <2>6, AllocatedStep
<1>7. ~oversized' => pages' \in Seq(Bases) /\ Placed(list', Range(pages'))
  <2> SUFFICES ASSUME ~oversized' PROVE pages' \in Seq(Bases) /\ Placed(list', Range(pages'))
    OBVIOUS
  <2>1. pages' \in Seq(Bases) /\ Range(pages') = Range(pages) \cup {base}
    <3>1. /\ pages' \in Seq(Bases) /\ DOMAIN pages' = 1 .. Len(pages) + 1 /\ Len(pages) \in Nat
          /\ \A k \in 1 .. Len(pages) : pages'[k] = pages[k]
          /\ pages'[Len(pages) + 1] = base
      BY <1>1
    <3>2. DOMAIN pages = 1 .. Len(pages)
      BY <1>1
    <3>3. \A k \in DOMAIN pages' : k \in 1 .. Len(pages) \/ k = Len(pages) + 1
      BY <3>1
    <3> QED
      BY <3>1, <3>2, <3>3 DEF Range
  <2>2. Range(pages) \cup {base} \in SUBSET Nat
    BY <1>1, PagesAreNumbers, HeapAssumption
  <2>3. Placed(list', Range(pages) \cup {base})
    BY <1>2, <1>5, <2>2, ServedPlaced
  <2> QED
    BY <2>1, <2>3
<1> QED
  BY <1>6, <1>7 DEF HeapInv, Owners

LEMMA FreeStep ==
  ASSUME HeapInv, ~oversized, NEW e \in DOMAIN live, Free(e[1], e[2])
  PROVE  HeapInv'
<1>1. e = <<e[1], e[2]>> /\ e[1] \in Nat /\ live \in [DOMAIN live -> {1}]
  BY DEF HeapInv, Owners, LiveOnce
<1>2. /\ list' = [i \in DOMAIN list |-> IF list[i].addr = e[1] THEN [list[i] EXCEPT !.used = FALSE]
                                                              ELSE list[i]]
      /\ live' = live (-) SetToBag({e}) /\ UNCHANGED <<pages, oversized>>
  BY <1>1 DEF Free
<1>3. live' = [x \in DOMAIN live \ {e} |-> 1]
  BY <1>1, <1>2, BagRemoved
<1>4. /\ list \in Seq(Blocks) /\ DOMAIN list = 1 .. Len(list) /\ Len(list) \in Nat
      /\ pages \in Seq(Bases) /\ Placed(list, Range(pages))
  BY DEF HeapInv, Owners
<1>5. \A i \in 1 .. Len(list) : [list[i] EXCEPT !.used = FALSE]
                                  = [addr |-> list[i].addr, size |-> list[i].size, used |-> FALSE]
  <2> TAKE i \in 1 .. Len(list)
  <2>1. list[i] \in Blocks
    BY <1>4
  <2> QED
    BY <2>1, UsedBlock
<1>6. \A i \in 1 .. Len(list) : /\ list'[i].addr = list[i].addr /\ list'[i].size = list[i].size
                                /\ list'[i].used <=> list[i].used /\ list[i].addr # e[1]
                                /\ list'[i] \in Blocks
  <2> TAKE i \in 1 .. Len(list)
  <2>1. list[i] \in Blocks
    BY <1>4
  <2>2. CASE list[i].addr = e[1]
    <3>1. list'[i] = [addr |-> list[i].addr, size |-> list[i].size, used |-> FALSE]
      BY <1>2, <1>4, <1>5, <2>2
    <3>2. list'[i] \in Blocks
      BY <3>1, <2>1 DEF Blocks
    <3>3. list'[i].addr = list[i].addr /\ list'[i].size = list[i].size /\ ~ list'[i].used
      BY <3>1
    <3> QED
      BY <2>2, <3>2, <3>3
  <2>3. CASE list[i].addr # e[1]
    BY <1>2, <1>4, <2>1, <2>3
  <2> QED
    BY <2>2, <2>3
<1>7. list' \in Seq(Blocks) /\ Len(list') = Len(list)
  BY <1>2, <1>4, <1>6
<1>8. LiveOnce'
  BY <1>3 DEF HeapInv, Owners, LiveOnce
<1>9. \A f \in DOMAIN live' : Owned(f)'
  <2> SUFFICES ASSUME NEW f \in DOMAIN live, f # e PROVE Owned(f)'
    BY <1>3
  <2>1. f[1] # e[1]
    BY DEF HeapInv, Owners, LiveOnce
  <2>2. PICK i \in 1 .. Len(list) : list[i].addr = f[1] /\ list[i].used /\ list[i].size >= f[2]
    BY DEF HeapInv, Owners, Owned
  <2>3. /\ list'[i].addr = f[1] /\ list'[i].used /\ list'[i].size >= f[2]
        /\ i \in 1 .. Len(list')
    BY <1>6, <1>7, <2>1, <2>2
  <2> QED
    BY <2>3 DEF Owned
<1>10. NoneStuck'
  <2> SUFFICES ASSUME NEW i \in 1 .. Len(list), list'[i].used
               PROVE  \E f \in DOMAIN live \ {e} : f[1] = list'[i].addr
    BY <1>3, <1>7 DEF NoneStuck
  <2>1. list[i].used /\ list[i].addr # e[1] /\ list'[i].addr = list[i].addr
    BY <1>6
  <2>2. PICK f \in DOMAIN live : f[1] = list[i].addr
    BY <2>1 DEF HeapInv, Owners, NoneStuck
  <2> QED
    BY <2>1, <2>2
<1>11. Placed(list', Range(pages))
  <2>1. \A i \in 1 .. Len(list) : End(list'[i]) = End(list[i]) /\ list'[i].addr = list[i].addr
    BY <1>6 DEF End
  <2> QED
    BY <1>4, <1>7, <2>1 DEF Placed, In, Apart
<1> QED
  BY <1>2, <1>4, <1>7, <1>8, <1>9, <1>10, <1>11 DEF HeapInv, Owners

LEMMA InitHeapInv == Init => HeapInv
<1> SUFFICES ASSUME Init PROVE HeapInv
  OBVIOUS
<1>1. PICK base \in Bases : pages = <<base>> /\ list = <<Block(base, PageSize - Header)>>
  BY DEF Init
<1>2. DOMAIN live = {} /\ live \in [DOMAIN live -> {1}]
  BY DEF Init, EmptyBag, SetToBag
<1>3. PageSize \in Nat /\ PageSize > 3 /\ base \in Nat
  BY HeapAssumption
<1>4. list[1] = [addr |-> base, size |-> PageSize - 1, used |-> FALSE] /\ Len(list) = 1
  BY <1>1 DEF Block, Header
<1>5. list[1] \in Blocks /\ End(list[1]) = base + PageSize /\ list[1].addr = base
      /\ ~ list[1].used
  BY <1>3, <1>4 DEF Blocks, End, Header
<1>6. list \in Seq(Blocks) /\ \A i \in 1 .. Len(list) : i = 1
  BY <1>1, <1>4, <1>5
<1>7. pages \in Seq(Bases) /\ base \in Range(pages)
  <2>1. pages \in Seq(Bases) /\ 1 \in DOMAIN pages /\ pages[1] = base
    BY <1>1
  <2> QED
    BY <2>1 DEF Range
<1>8. Placed(list, Range(pages))
  <2>1. In(list[1], base)
    BY <1>3, <1>5 DEF In
  <2> QED
    BY <1>6, <1>7, <2>1 DEF Placed
<1>9. LiveOnce /\ NoneStuck /\ \A e \in DOMAIN live : Owned(e)
  BY <1>2, <1>5, <1>6 DEF LiveOnce, NoneStuck
<1> QED
  BY <1>6, <1>7, <1>8, <1>9 DEF HeapInv, Owners, Init

LEMMA StepKeepsHeapInv == HeapInv /\ [Next]_vars => HeapInv'
<1> SUFFICES ASSUME HeapInv, [Next]_vars PROVE HeapInv'
  OBVIOUS
<1>1. ASSUME ~oversized, NEW size \in Requests, AllocFirstFit(size)
      PROVE  HeapInv'
  BY <1>1, FirstFitStep, HeapAssumption DEF AllocFirstFit
<1>2. ASSUME ~oversized, NEW size \in Requests, AllocNewPage(size)
      PROVE  HeapInv'
  <2>1. PICK base \in Bases \ Range(pages) :
          /\ list' = [Split(Append(list, Block(base, PageSize - Header)), Len(list) + 1, size)
                        EXCEPT ![Len(list) + 1].used = TRUE]
          /\ pages' = Append(pages, base) /\ Allocated(base, size)
    BY <1>2 DEF AllocNewPage
  <2>2. oversized' = (oversized \/ size > PageSize - Header) /\ size \in Nat \ {0}
    BY <1>2, HeapAssumption DEF AllocNewPage
  <2> QED
    BY <1>2, <2>1, <2>2, NewPageStep
<1>3. ASSUME ~oversized, NEW e \in BagToSet(live), Free(e[1], e[2])
      PROVE  HeapInv'
  BY <1>3, FreeStep DEF BagToSet
<1>4. CASE UNCHANGED vars
  BY <1>4 DEF vars, HeapInv, Owners, LiveOnce, NoneStuck, Owned, Placed, In, Apart, End
<1> QED
  BY <1>1, <1>2, <1>3, <1>4 DEF Next, Alloc

LEMMA HeapInvariant == Spec => []HeapInv
BY InitHeapInv, StepKeepsHeapInv, PTL DEF Spec

\* However memory is asked for and freed, no block reaches into another's
\* header or data or out of its page, as long as no request exceeds a page.
THEOREM NoBlockInAnother == Spec => []BlocksApart
<1>1. HeapInv => BlocksApart
  <2> SUFFICES ASSUME HeapInv, ~oversized
               PROVE  /\ \A i \in DOMAIN list : \E p \in Range(pages) :
                           p <= list[i].addr /\ End(list[i]) <= p + PageSize
                      /\ \A i, j \in DOMAIN list : i # j =>
                           End(list[i]) <= list[j].addr \/ End(list[j]) <= list[i].addr
    BY DEF BlocksApart
  <2>1. DOMAIN list = 1 .. Len(list)
    BY DEF HeapInv, Owners
  <2> QED
    BY <2>1 DEF HeapInv, Owners, Placed, In, Apart
<1> QED
  BY <1>1, HeapInvariant, PTL

\* What callers have got and the used blocks are the same, one for one: the
\* heap hands nothing out twice and loses no block.
THEOREM LiveAndUsedAgree == Spec => []LiveBlocksUsed
<1>1. HeapInv => LiveBlocksUsed
  <2> SUFFICES ASSUME HeapInv PROVE LiveBlocksUsed
    OBVIOUS
  <2>1. DOMAIN list = 1 .. Len(list)
    BY DEF HeapInv, Owners
  <2>2. \A e \in DOMAIN live : live[e] = 1
    BY DEF HeapInv, Owners, LiveOnce
  <2> QED
    BY <2>1, <2>2 DEF HeapInv, Owners, LiveOnce, NoneStuck, Owned, LiveBlocksUsed, BagToSet
<1> QED
  BY <1>1, HeapInvariant, PTL

-----------------------------------------------------------------------------
(* The heap implements Allocator, step by step.                             *)

Memory == UNION {b .. b + PageSize - 1 : b \in Bases}
Held == {<<e[1] + Header, e[2]>> : e \in DOMAIN live}

\* What Promise is with the two names above.
LEMMA PromiseNext ==
  ASSUME ~oversized
  PROVE  /\ \A addr \in Memory, size \in Requests :
              /\ size <= PageSize - Header
              /\ addr .. addr + size - 1 \subseteq Memory
              /\ \A a \in Held : (a[1] .. a[1] + a[2] - 1) \cap (addr .. addr + size - 1) = {}
              /\ Held' = Held \cup {<<addr, size>>}
              /\ UNCHANGED oversized
              => Promise!Next
         /\ \A a \in Held : Held' = Held \ {a} /\ UNCHANGED oversized => Promise!Next
         /\ \A size \in Requests : size > PageSize - Header /\ oversized' = TRUE => Promise!Next
<1> USE DEF Held, Memory, Promise!Units, BagToSet
<1>1. \A addr \in Memory, size \in Requests :
        /\ size <= PageSize - Header
        /\ addr .. addr + size - 1 \subseteq Memory
        /\ \A a \in Held : (a[1] .. a[1] + a[2] - 1) \cap (addr .. addr + size - 1) = {}
        /\ Held' = Held \cup {<<addr, size>>}
        /\ UNCHANGED oversized
        => Promise!Allocate(addr, size)
  BY DEF Promise!Allocate
<1>2. \A a \in Held : Held' = Held \ {a} /\ UNCHANGED oversized => Promise!Release(a)
  BY DEF Promise!Release
<1>3. \A size \in Requests : size > PageSize - Header /\ oversized' = TRUE => Promise!Exceed(size)
  BY DEF Promise!Exceed
<1> QED
  BY <1>1, <1>2, <1>3 DEF Promise!Next

\* The data of blocks that are apart.
LEMMA DataApart ==
  ASSUME NEW a \in Nat, NEW m \in Nat, NEW x \in Nat, x <= m,
         NEW b \in Nat, NEW n \in Nat, NEW y \in Nat, y <= n,
         a + 1 + m <= b \/ b + 1 + n <= a
  PROVE  (a + 1 .. a + 1 + x - 1) \cap (b + 1 .. b + 1 + y - 1) = {}
OBVIOUS

\* A free block of l is nobody else's memory.
LEMMA AllocatesPromised ==
  ASSUME HeapInv, ~oversized, UNCHANGED oversized,
         NEW l, NEW P \in SUBSET Bases, Placed(l, P), SameUsed(l),
         NEW i \in 1 .. Len(l), ~ l[i].used,
         NEW size \in Requests, l[i].size >= size, Allocated(l[i].addr, size)
  PROVE  Promise!Next
<1>1. /\ Bases \subseteq Nat /\ PageSize \in Nat /\ size \in Nat \ {0} /\ P \in SUBSET Nat
  BY HeapAssumption
<1>2. PICK p \in P : In(l[i], p)
  BY DEF Placed
<1>3. l[i] \in Blocks /\ \A k \in 1 .. Len(l) : l[k] \in Blocks
  BY DEF Placed
<1>4. /\ p \in Nat /\ l[i].addr \in Nat /\ l[i].size \in Nat
      /\ p <= l[i].addr /\ l[i].addr + 1 + l[i].size <= p + PageSize
  BY <1>1, <1>2, <1>3 DEF In, End, Header, Blocks
<1> DEFINE addr == l[i].addr + 1
<1>5. addr .. addr + size - 1 \subseteq p .. p + PageSize - 1
  BY <1>1, <1>4
<1>6. p .. p + PageSize - 1 \subseteq Memory
  BY DEF Memory
<1>7. addr \in Memory
  <2>1. addr \in p .. p + PageSize - 1
    BY <1>1, <1>4
  <2> QED
    BY <2>1, <1>6
<1>8. size <= PageSize - Header
  BY <1>1, <1>4 DEF Header
<1>9. \A a \in Held : (a[1] .. a[1] + a[2] - 1) \cap (addr .. addr + size - 1) = {}
  <2> TAKE a \in Held
  <2>1. PICK e \in DOMAIN live : a = <<e[1] + Header, e[2]>>
    BY DEF Held
  <2>2. PICK j \in 1 .. Len(list) : list[j].addr = e[1] /\ list[j].used /\ list[j].size >= e[2]
    BY DEF HeapInv, Owners, Owned
  <2>3. PICK k \in 1 .. Len(l) : l[k] = list[j]
    BY <2>2 DEF SameUsed
  <2>4. k # i
    BY <2>2, <2>3
  <2>5. Apart(l[k], l[i])
    BY <2>4 DEF Placed
  <2>6. l[k].addr \in Nat /\ l[k].size \in Nat
    BY <1>3 DEF Blocks
  <2>7. e[1] = l[k].addr /\ e[2] <= l[k].size /\ e[2] \in Nat
    BY <2>2, <2>3 DEF HeapInv, Owners, LiveOnce
  <2>8. l[k].addr + 1 + l[k].size <= l[i].addr \/ l[i].addr + 1 + l[i].size <= l[k].addr
    BY <2>5 DEF Apart, End, Header
  <2>9. a[1] = l[k].addr + 1 /\ a[2] = e[2]
    BY <2>1, <2>7 DEF Header
  <2>10. (l[k].addr + 1 .. l[k].addr + 1 + e[2] - 1) \cap (addr .. addr + size - 1) = {}
    BY <1>1, <1>4, <2>6, <2>7, <2>8, DataApart
  <2> QED
    BY <2>9, <2>10
<1>10. Held' = Held \cup {<<addr, size>>}
  <2>1. DOMAIN live' = DOMAIN live \cup {<<l[i].addr, size>>}
    BY DEF Allocated, SetToBag, (+)
  <2>2. Held' = {<<e[1] + Header, e[2]>> : e \in DOMAIN live \cup {<<l[i].addr, size>>}}
    BY <2>1 DEF Held
  <2>3. <<l[i].addr, size>>[1] + Header = addr /\ <<l[i].addr, size>>[2] = size
    BY DEF Header
  <2> HIDE DEF addr
  <2> QED
    BY <2>2, <2>3 DEF Held
<1> HIDE DEF addr
<1> QED
  <2>1. /\ size <= PageSize - Header
        /\ addr .. addr + size - 1 \subseteq Memory
        /\ \A a \in Held : (a[1] .. a[1] + a[2] - 1) \cap (addr .. addr + size - 1) = {}
        /\ Held' = Held \cup {<<addr, size>>}
        /\ UNCHANGED oversized
    BY <1>5, <1>6, <1>8, <1>9, <1>10
  <2> QED
    BY <1>7, <2>1, PromiseNext

LEMMA ReleasesPromised ==
  ASSUME HeapInv, ~oversized, NEW e \in DOMAIN live, Free(e[1], e[2])
  PROVE  Promise!Next
<1>1. e = <<e[1], e[2]>> /\ live \in [DOMAIN live -> {1}]
      /\ \A f \in DOMAIN live : f = <<f[1], f[2]>> /\ f[1] \in Nat
  BY DEF HeapInv, Owners, LiveOnce
<1>2. live' = live (-) SetToBag({e}) /\ UNCHANGED oversized
  BY <1>1 DEF Free
<1>3. DOMAIN live' = DOMAIN live \ {e}
  <2>1. live (-) SetToBag({e}) = [x \in DOMAIN live \ {e} |-> 1]
    BY <1>1, BagRemoved
  <2> QED
    BY <1>2, <2>1
<1> DEFINE a == <<e[1] + Header, e[2]>>
<1>4. a \in Held
  BY DEF Held
<1>5. Held' = Held \ {a}
  <2>1. \A f \in DOMAIN live : <<f[1] + Header, f[2]>> = a => f = e
    <3> SUFFICES ASSUME NEW f \in DOMAIN live, <<f[1] + Header, f[2]>> = a PROVE f = e
      OBVIOUS
    <3>1. f[1] + Header = e[1] + Header /\ f[2] = e[2]
      OBVIOUS
    <3>2. f[1] = e[1]
      BY <1>1, <3>1 DEF Header
    <3> QED
      BY <1>1, <3>1, <3>2
  <2>2. Held' = {<<f[1] + Header, f[2]>> : f \in DOMAIN live \ {e}}
    BY <1>3 DEF Held
  <2> QED
    BY <2>1, <2>2 DEF Held
<1> QED
  BY <1>2, <1>4, <1>5, PromiseNext

LEMMA PromiseStep == HeapInv /\ [Next]_vars => [Promise!Next]_<<Held, oversized>>
<1> SUFFICES ASSUME HeapInv, [Next]_vars PROVE [Promise!Next]_<<Held, oversized>>
  OBVIOUS
<1>1. ASSUME ~oversized, NEW size \in Requests, AllocFirstFit(size)
      PROVE  Promise!Next
  <2>1. PICK i \in 1 .. Len(list) : Fits(i, size) /\ Allocated(list[i].addr, size)
    BY <1>1 DEF AllocFirstFit
  <2>2. UNCHANGED oversized
    BY <1>1 DEF AllocFirstFit
  <2>3. Placed(list, Range(pages)) /\ Range(pages) \in SUBSET Bases
    BY <1>1, PagesAreNumbers DEF HeapInv
  <2>4. ~ list[i].used /\ list[i].size >= size /\ SameUsed(list)
    BY <2>1 DEF Fits, SameUsed
  <2> QED
    BY <1>1, <2>1, <2>2, <2>3, <2>4, AllocatesPromised
<1>2. ASSUME ~oversized, NEW size \in Requests, AllocNewPage(size), ~ (size > PageSize - Header)
      PROVE  Promise!Next
  <2>1. PICK base \in Bases \ Range(pages) : Allocated(base, size)
    BY <1>2 DEF AllocNewPage
  <2>2. PICK g : g = Append(list, Block(base, PageSize - Header))
    OBVIOUS
  <2>3. pages \in Seq(Bases) /\ Placed(list, Range(pages)) /\ list \in Seq(Blocks)
    BY <1>2 DEF HeapInv, Owners
  <2>4. Grown(g, list, base)
    BY <2>2, <2>3, GrownPlaced
  <2>5. PICK P \in SUBSET Bases : Placed(g, P)
    BY <2>3, <2>4, PagesAreNumbers DEF Grown
  <2>6. PICK n : n = Len(g)
    OBVIOUS
  <2>7. /\ n \in 1 .. Len(g) /\ n = Len(list) + 1 /\ \A k \in 1 .. Len(list) : g[k] = list[k]
        /\ g[n].addr = base /\ g[n].size = PageSize - 1 /\ ~ g[n].used
    <3>1. Len(list) \in Nat
      BY <2>3
    <3> QED
      BY <3>1, <2>4, <2>6 DEF Grown
  <2>8. SameUsed(g)
    <3>1. \A j \in 1 .. Len(list) : j \in 1 .. Len(g)
      BY <2>3, <2>6, <2>7
    <3>2. \A k \in 1 .. Len(g) : k = n \/ k \in 1 .. Len(list)
      BY <2>3, <2>6, <2>7
    <3> QED
      BY <2>7, <3>1, <3>2 DEF SameUsed
  <2>9. g[n].size >= size /\ Allocated(g[n].addr, size) /\ UNCHANGED oversized
    <3>1. size \in Nat /\ PageSize \in Nat
      BY HeapAssumption
    <3>2. UNCHANGED oversized
      BY <1>2 DEF AllocNewPage, HeapInv
    <3> QED
      BY <1>2, <2>1, <2>7, <3>1, <3>2 DEF Header
  <2> QED
    BY <1>2, <2>5, <2>7, <2>8, <2>9, AllocatesPromised
<1>3. ASSUME ~oversized, NEW size \in Requests, AllocNewPage(size), size > PageSize - Header
      PROVE  Promise!Next
  <2>1. oversized' = TRUE
    BY <1>3 DEF AllocNewPage
  <2> QED
    BY <1>3, <2>1, PromiseNext
<1>4. ASSUME ~oversized, NEW e \in BagToSet(live), Free(e[1], e[2])
      PROVE  Promise!Next
  BY <1>4, ReleasesPromised DEF BagToSet
<1>5. CASE UNCHANGED vars
  BY <1>5 DEF vars, Held
<1> QED
  BY <1>1, <1>2, <1>3, <1>4, <1>5 DEF Next, Alloc

\* The heap does for its callers what malloc and free promise: each step of
\* the lists and blocks is a step of Allocator, or shows in no caller's memory.
THEOREM HeapKeepsPromise == Spec => KeepsPromise
<1>1. Init => Promise!Init
  BY DEF Init, Promise!Init, EmptyBag, SetToBag, BagToSet
<1>2. HeapInv /\ [Next]_vars
        => [Promise!Next]_<<{<<e[1] + Header, e[2]>> : e \in BagToSet(live)}, oversized>>
  BY PromiseStep DEF Held, BagToSet
<1> QED
  BY <1>1, <1>2, HeapInvariant, PTL DEF Spec, KeepsPromise, Promise!Spec
=============================================================================
