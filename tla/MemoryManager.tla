---------------------------- MODULE MemoryManager ----------------------------
(***************************************************************************)
(* The physical memory of the memory manager: fetch_mem_cap, which picks   *)
(* the RAM region a memory object is cut from, for the pages and tables of *)
(* mm itself and for the clients' requests to fetch.  A region is used     *)
(* from its bottom up and nothing comes back: revoke_mem_cap does nothing. *)
(***************************************************************************)
EXTENDS Integers, Sequences

CONSTANTS
  Region,     \* the RAM memory caps, ram_mem_caps
  Addr, Size, \* region -> phys_addr and size
  Requests    \* the <<size, alignment>> pairs that are asked for

ASSUME RegionAssumption ==
  /\ Addr \in [Region -> Nat]
  /\ Size \in [Region -> Nat \ {0}]
  /\ \A r, s \in Region : r # s =>
       Addr[r] + Size[r] <= Addr[s] \/ Addr[s] + Size[s] <= Addr[r]
ASSUME RequestAssumption == Requests \subseteq (Nat \ {0}) \X Nat

VARIABLES
  used,   \* kernel: region -> sys_mem_cap_used_size
  objects \* the memory objects handed out, in order

vars == <<used, objects>>

Object == [region: Region, base: Nat, size: Nat \ {0}]

Alignment(a) == IF a = 0 THEN 1 ELSE a
RoundUp(x, align) == ((x + align - 1) \div align) * align

\* The address an object cut from region r would get.
BaseIn(r, align) == RoundUp(Addr[r] + used[r], Alignment(align))

\* Mutant: the padding in front of the object is not counted.
BugHasRoom(r, size, align) == Size[r] - used[r] >= size

HasRoom(r, size, align) ==
  /\ BaseIn(r, align) < Addr[r] + Size[r]
  /\ Size[r] - (BaseIn(r, align) - Addr[r]) >= size

\* The smallest region with room, the lowest of several such.
Best(r, size, align) ==
  /\ HasRoom(r, size, align)
  /\ \A s \in Region : HasRoom(s, size, align) =>
       Size[r] < Size[s] \/ (Size[r] = Size[s] /\ Addr[r] <= Addr[s])

\* The kernel cuts an object from a region's first free address that is
\* aligned: sys_mem_cap_create_memory_object and its kin.
Cut(r, size, align) ==
  /\ used' = [used EXCEPT ![r] = BaseIn(r, align) + size - Addr[r]]
  /\ objects' = Append(objects, [region |-> r, base |-> BaseIn(r, align), size |-> size])

Fetch(size, align) == \E r \in Region : Best(r, size, align) /\ Cut(r, size, align)

Init == used = [r \in Region |-> 0] /\ objects = <<>>

Next == \E req \in Requests : Fetch(req[1], req[2])

Spec == Init /\ [][Next]_vars

-----------------------------------------------------------------------------

\* A region is never used beyond its size.
TypeOK == /\ used \in [Region -> Nat]
          /\ \A r \in Region : used[r] <= Size[r]
          /\ objects \in Seq(Object)

\* No two memory objects share an address, and none leaves its region: what
\* mm hands to two clients, or makes a page table of, is never the same RAM.
ObjectsApart ==
  /\ \A i \in 1 .. Len(objects) :
       /\ objects[i].base >= Addr[objects[i].region]
       /\ objects[i].base + objects[i].size <= Addr[objects[i].region] + Size[objects[i].region]
  /\ \A i, j \in 1 .. Len(objects) : i # j =>
       \/ objects[i].base + objects[i].size <= objects[j].base
       \/ objects[j].base + objects[j].size <= objects[i].base
=============================================================================
