------------------------------ MODULE VfsProofs ------------------------------
(* What is proved of fs for any paths, servers, ids and descriptors: it      *)
(* never follows a reference to a mount point that is gone, passes calls on  *)
(* a descriptor to the file system it is from and requests for a path to     *)
(* the nearest one, and its listings are complete.                           *)
EXTENDS Vfs, SequenceTheorems, FiniteSetTheorems, NaturalsInduction, WellFoundedInduction, TLAPS

\* The table of mount points and the mounts refer to each other.
Tables ==
  /\ \A id \in DOMAIN fs_mount_point_table :
       fs_mount_point_table[id] \in DOMAIN mnt /\ mnt[fs_mount_point_table[id]].id = id
  /\ \A dir \in DOMAIN mnt :
       mnt[dir].id \in DOMAIN fs_mount_point_table /\ fs_mount_point_table[mnt[dir].id] = dir

\* Descriptor fd is from the file system that is mounted at q, and has its id.
IsFrom(fd, q) ==
  /\ origin[fd] = FromMount(q)
  /\ Node(q, Len(q)) \in DOMAIN mnt
  /\ mnt[Node(q, Len(q))].id = fd_fs_table[fd]

Descriptors ==
  /\ DOMAIN origin = Fd
  /\ \A fd \in DOMAIN fd_fs_table :
       /\ fd \in Fd
       /\ origin[fd] = Gone \/ \E q \in Seq(Name) : IsFrom(fd, q)

IInv == Tables /\ Descriptors

-----------------------------------------------------------------------------

\* A set of numbers that is not empty and has a bound has a greatest element.
LEMMA GreatestExists ==
  ASSUME NEW n \in Nat, NEW S \in SUBSET (0 .. n), S # {}
  PROVE  \E m \in S : \A y \in S : m >= y
<1> DEFINE T == {n - x : x \in S}
<1>1. T \subseteq Nat /\ T # {}
  <2>1. \A x \in S : x \in Int /\ x <= n
    OBVIOUS
  <2>2. \A x \in S : n - x \in Nat
    BY <2>1
  <2> QED
    BY <2>2
<1>2. \E x \in T : \A y \in T : ~ (<<y, x>> \in OpToRel(<, Nat))
  BY <1>1, NatLessThanWellFounded, WFMin
<1>3. PICK x \in T : \A y \in T : ~ (y < x)
  BY <1>1, <1>2 DEF OpToRel
<1>4. PICK s \in S : x = n - s
  OBVIOUS
<1>5. \A r \in S : s >= r
  <2> TAKE r \in S
  <2>1. ~ (n - r < x)
    BY <1>3
  <2> QED
    BY <2>1, <1>4
<1> QED
  BY <1>5

LEMMA Greatest ==
  ASSUME NEW n \in Nat, NEW S \in SUBSET (0 .. n), S # {}
  PROVE  Max(S) \in S
BY GreatestExists DEF Max

LEMMA GreatestBounds ==
  ASSUME NEW n \in Nat, NEW S \in SUBSET (0 .. n), S # {}
  PROVE  \A x \in S : x <= Max(S)
BY GreatestExists DEF Max

\* find_mount_point finds a place on the path.
LEMMA FoundOnPath ==
  ASSUME NEW path \in Seq(Name), FindMountPoint(path) >= 0
  PROVE  FindMountPoint(path) \in 0 .. Len(path)
<1> DEFINE found == {n \in Visited(path) :
                       Node(path, n) \in IF path = <<>> THEN DOMAIN mnt ELSE type_mnt}
<1>1. FindMountPoint(path) = IF found = {} THEN -1 ELSE Max(found)
  BY DEF FindMountPoint
<1>2. found # {}
  BY <1>1
<1>3. found \in SUBSET (0 .. Len(path)) /\ Len(path) \in Nat
  BY DEF Visited
<1> HIDE DEF found
<1>4. Max(found) \in found
  BY <1>2, <1>3, Greatest
<1> QED
  BY <1>1, <1>2, <1>3, <1>4

\* Paths that lead to the same directory are the same.
LEMMA NodeInjective ==
  ASSUME NEW p \in Seq(Name), NEW q \in Seq(Name), Node(p, Len(p)) = Node(q, Len(q))
  PROVE  p = q
<1>1. Len(p) = Len(q)
  <2>1. DOMAIN Node(p, Len(p)) = 1 .. Len(p) /\ DOMAIN Node(q, Len(q)) = 1 .. Len(q)
    BY DEF Node
  <2>2. Len(p) \in Nat /\ Len(q) \in Nat /\ 1 .. Len(p) = 1 .. Len(q)
    BY <2>1
  <2> QED
    BY <2>2
<1>2. \A i \in 1 .. Len(p) : p[i] = q[i]
  <2> TAKE i \in 1 .. Len(p)
  <2>1. Node(p, Len(p))[i] = <<p[i]>> /\ Node(q, Len(q))[i] = <<q[i]>>
    BY <1>1 DEF Node
  <2> QED
    BY <2>1
<1> QED
  BY <1>1, <1>2

\* The beginning of a path leads where the path leads when cut there.
LEMMA NodeOfPrefix ==
  ASSUME NEW path \in Seq(Name), NEW n \in 0 .. Len(path)
  PROVE  /\ SubSeq(path, 1, n) \in Seq(Name)
         /\ Node(SubSeq(path, 1, n), Len(SubSeq(path, 1, n))) = Node(path, n)
<1>1. SubSeq(path, 1, n) \in Seq(Name) /\ Len(SubSeq(path, 1, n)) = n
  OBVIOUS
<1>2. \A i \in 1 .. n : SubSeq(path, 1, n)[i] = path[i]
  OBVIOUS
<1> QED
  BY <1>1, <1>2 DEF Node

-----------------------------------------------------------------------------

LEMMA InitIInv == Init => IInv
  BY DEF Init, IInv, Tables, Descriptors

\* A mount gets an id that no mount has, and so none that the table has.
LEMMA MountStep ==
  ASSUME IInv, NEW path \in Path, NEW ep \in Ep, Mount(path, ep)
  PROVE  IInv'
<1>1. CASE UNCHANGED <<mnt, fs_mount_point_table>>
  BY <1>1 DEF IInv, Tables, Descriptors, IsFrom, Node, Mount
<1>2. ASSUME Created(path) \notin DOMAIN mnt,
             NEW id \in Id \ {mnt[d].id : d \in DOMAIN mnt}, MountHere(path, ep, id)
      PROVE  IInv'
  <2> DEFINE dir == Created(path)
  <2>1. id \notin DOMAIN fs_mount_point_table
    BY <1>2 DEF IInv, Tables
  <2>2. /\ DOMAIN mnt' = DOMAIN mnt \cup {dir}
        /\ mnt'[dir].id = id
        /\ \A d \in DOMAIN mnt : mnt'[d] = mnt[d]
    BY <1>2 DEF MountHere, With
  <2>3. /\ DOMAIN fs_mount_point_table' = DOMAIN fs_mount_point_table \cup {id}
        /\ fs_mount_point_table'[id] = dir
        /\ \A j \in DOMAIN fs_mount_point_table : fs_mount_point_table'[j] = fs_mount_point_table[j]
    BY <1>2, <2>1 DEF MountHere, With
  <2> HIDE DEF dir
  <2>4. Tables'
    BY <2>1, <2>2, <2>3 DEF IInv, Tables
  <2>5. Descriptors'
    <3>1. UNCHANGED <<fd_fs_table, origin>>
      BY DEF Mount
    <3> QED
      BY <2>2, <3>1 DEF IInv, Descriptors, IsFrom, Node
  <2> QED
    BY <2>4, <2>5 DEF IInv
<1> QED
  BY <1>1, <1>2 DEF Mount

\* An unmount takes its own id out of the table, and marks the descriptors
\* from there; paths of other mounts lead elsewhere.
LEMMA UnmountStep ==
  ASSUME IInv, NEW path \in Path, Unmount(path)
  PROVE  IInv'
<1> DEFINE dir == Node(path, Len(path))
<1>0. path \in Seq(Name)
  BY VfsAssumption
<1>1. dir \in DOMAIN mnt
  BY DEF Unmount, IsMounted
<1>2. DOMAIN mnt' = DOMAIN mnt \ {dir} /\ \A d \in DOMAIN mnt \ {dir} : mnt'[d] = mnt[d]
  BY DEF Unmount, Without
<1>3. /\ DOMAIN fs_mount_point_table' = DOMAIN fs_mount_point_table \ {mnt[dir].id}
      /\ \A j \in DOMAIN fs_mount_point_table \ {mnt[dir].id} :
           fs_mount_point_table'[j] = fs_mount_point_table[j]
  BY DEF Unmount, Forgotten, Without
<1>4. /\ origin' = [fd \in Fd |-> IF origin[fd] = FromMount(path) THEN Gone ELSE origin[fd]]
      /\ UNCHANGED fd_fs_table
  BY DEF Unmount
<1>5. \A q \in Seq(Name) : q # path => Node(q, Len(q)) # dir
  BY <1>0, NodeInjective
<1> HIDE DEF dir
<1>6. Tables'
  BY <1>1, <1>2, <1>3 DEF IInv, Tables
<1>7. Descriptors'
  <2>1. DOMAIN origin' = Fd
    BY <1>4
  <2>2. ASSUME NEW fd \in DOMAIN fd_fs_table'
        PROVE  fd \in Fd /\ (origin'[fd] = Gone \/ \E q \in Seq(Name) : IsFrom(fd, q)')
    <3>1. fd \in DOMAIN fd_fs_table /\ fd \in Fd
      BY <1>4, <2>2 DEF IInv, Descriptors
    <3>2. CASE origin[fd] = Gone \/ origin[fd] = FromMount(path)
      BY <3>1, <3>2, <1>4
    <3>3. ASSUME NEW q \in Seq(Name), IsFrom(fd, q), origin[fd] # FromMount(path)
          PROVE  IsFrom(fd, q)'
      <4>1. q # path
        BY <3>3 DEF IsFrom
      <4>2. Node(q, Len(q)) \in DOMAIN mnt \ {dir}
        BY <3>3, <4>1, <1>5 DEF IsFrom
      <4>3. origin'[fd] = origin[fd] /\ fd_fs_table'[fd] = fd_fs_table[fd]
        BY <3>1, <3>3, <1>4
      <4> QED
        BY <3>3, <4>2, <4>3, <1>2 DEF IsFrom, Node
    <3> QED
      BY <3>1, <3>2, <3>3 DEF IInv, Descriptors
  <2> QED
    BY <2>1, <2>2 DEF Descriptors
<1> QED
  BY <1>6, <1>7 DEF IInv

\* A descriptor gets the id of the mount that its path leads to.
LEMMA OpenFileStep ==
  ASSUME IInv, NEW path \in Path, NEW fd \in Fd, OpenFile(path, fd)
  PROVE  IInv'
<1> DEFINE n == FindMountPoint(path)
<1>0. path \in Seq(Name)
  BY VfsAssumption
<1>1. n >= 0 /\ Node(path, n) \in DOMAIN mnt
  BY DEF OpenFile, PassedTo
<1>2. n \in 0 .. Len(path)
  BY <1>0, <1>1, FoundOnPath
<1>3. UNCHANGED <<mnt, fs_mount_point_table>>
  BY DEF OpenFile
<1>4. /\ origin' = [origin EXCEPT ![fd] = FromMount(SubSeq(path, 1, n))]
      /\ DOMAIN fd_fs_table' = DOMAIN fd_fs_table \cup {fd}
      /\ fd_fs_table'[fd] = mnt[Node(path, n)].id
      /\ \A f \in DOMAIN fd_fs_table \ {fd} : fd_fs_table'[f] = fd_fs_table[f]
  BY DEF OpenFile, With
<1> HIDE DEF n
<1>5. PICK p \in Seq(Name) : p = SubSeq(path, 1, n) /\ Node(p, Len(p)) = Node(path, n)
  BY <1>0, <1>2, NodeOfPrefix
<1>6. Tables'
  BY <1>3 DEF IInv, Tables
<1>7. Descriptors'
  <2>1. DOMAIN origin' = Fd /\ DOMAIN origin = Fd
    BY <1>4 DEF IInv, Descriptors
  <2>2. IsFrom(fd, p)'
    BY <2>1, <1>1, <1>3, <1>4, <1>5 DEF IsFrom, Node
  <2>3. ASSUME NEW f \in DOMAIN fd_fs_table \ {fd}, NEW q \in Seq(Name), IsFrom(f, q)
        PROVE  IsFrom(f, q)'
    <3>1. f \in Fd
      BY <2>3 DEF IInv, Descriptors
    <3> QED
      BY <2>1, <2>3, <3>1, <1>3, <1>4 DEF IsFrom, Node
  <2>4. ASSUME NEW f \in DOMAIN fd_fs_table \ {fd}
        PROVE  f \in Fd /\ (origin[f] = Gone => origin'[f] = Gone)
    BY <2>1, <2>4, <1>4 DEF IInv, Descriptors
  <2> QED
    BY <2>1, <2>2, <2>3, <2>4, <1>4, <1>5 DEF IInv, Descriptors
<1> QED
  BY <1>6, <1>7 DEF IInv

\* A descriptor that is given out is not in the table of the others.
LEMMA OpenDirectoryStep ==
  ASSUME IInv, NEW path \in Path, NEW fd \in Fd, OpenDirectory(path, fd)
  PROVE  IInv'
<1>1. UNCHANGED <<mnt, fs_mount_point_table, fd_fs_table>> /\ origin[fd] = Fresh
  BY DEF OpenDirectory
<1>2. fd \notin DOMAIN fd_fs_table
  BY <1>1 DEF IInv, Descriptors, IsFrom, Fresh, Gone, FromMount
<1>3. DOMAIN origin' = Fd /\ \A f \in Fd \ {fd} : origin'[f] = origin[f]
  BY DEF OpenDirectory, IInv, Descriptors
<1>4. Tables'
  BY <1>1 DEF IInv, Tables
<1>5. Descriptors'
  BY <1>1, <1>2, <1>3 DEF IInv, Descriptors, IsFrom, Node
<1> QED
  BY <1>4, <1>5 DEF IInv

LEMMA CloseStep ==
  ASSUME IInv, NEW fd \in Fd, Close(fd)
  PROVE  IInv'
<1>1. UNCHANGED <<mnt, fs_mount_point_table, origin>>
  BY DEF Close
<1>2. /\ DOMAIN fd_fs_table' \subseteq DOMAIN fd_fs_table
      /\ \A f \in DOMAIN fd_fs_table' : fd_fs_table'[f] = fd_fs_table[f]
  BY DEF Close, Without
<1>3. Tables'
  BY <1>1 DEF IInv, Tables
<1>4. Descriptors'
  BY <1>1, <1>2 DEF IInv, Descriptors, IsFrom, Node
<1> QED
  BY <1>3, <1>4 DEF IInv

LEMMA NextIInv == IInv /\ [Next]_vars => IInv'
<1> SUFFICES ASSUME IInv, [Next]_vars PROVE IInv'
  OBVIOUS
<1>1. ASSUME NEW path \in Path, NEW ep \in Ep, Mount(path, ep) PROVE IInv'
  BY <1>1, MountStep
<1>2. ASSUME NEW path \in Path, Unmount(path) PROVE IInv'
  BY <1>2, UnmountStep
<1>3. ASSUME NEW path \in Path, NEW fd \in Fd, OpenFile(path, fd) PROVE IInv'
  BY <1>3, OpenFileStep
<1>4. ASSUME NEW path \in Path, NEW fd \in Fd, OpenDirectory(path, fd) PROVE IInv'
  BY <1>4, OpenDirectoryStep
<1>5. ASSUME NEW fd \in Fd, Close(fd) PROVE IInv'
  BY <1>5, CloseStep
<1>6. ASSUME NEW fd \in Fd, ReadDirectory(fd) PROVE IInv'
  BY <1>6 DEF ReadDirectory, IInv, Tables, Descriptors, IsFrom, Node
<1>7. CASE UNCHANGED vars
  BY <1>7 DEF vars, IInv, Tables, Descriptors, IsFrom, Node
<1> QED
  BY <1>1, <1>2, <1>3, <1>4, <1>5, <1>6, <1>7 DEF Next

LEMMA Invariant == Spec => []IInv
  BY InitIInv, NextIInv, PTL DEF Spec

-----------------------------------------------------------------------------

\* Every reference in fs_mount_point_table is to a mount point that exists
\* and has that id, and every mount point has one: unmount erases the right
\* entry, and mount never finds an old one in its place.
THEOREM NeverDangling == Spec => []NoDanglingMount
<1>1. IInv => NoDanglingMount
  BY DEF IInv, Tables, NoDanglingMount
<1> QED
  BY <1>1, Invariant, PTL

\* Calls on a descriptor are passed on to the file system it was opened in,
\* as long as that is mounted: vfs_read, vfs_write and the others find its
\* mount point and no other.
THEOREM AlwaysHome == Spec => []HomeReached
<1>1. IInv => HomeReached
  <2> SUFFICES ASSUME IInv, NEW fd \in DOMAIN fd_fs_table, origin[fd] # Gone
               PROVE  HomeOf(fd) = {Node(origin[fd][2], Len(origin[fd][2]))}
    BY DEF HomeReached
  <2>1. PICK q \in Seq(Name) : IsFrom(fd, q)
    BY DEF IInv, Descriptors
  <2>2. origin[fd][2] = q
    BY <2>1 DEF IsFrom, FromMount
  <2> QED
    BY <2>1, <2>2 DEF IInv, Tables, IsFrom, HomeOf
<1> QED
  BY <1>1, Invariant, PTL

-----------------------------------------------------------------------------
(* Paths and the mount points on them.                                       *)

\* What has been mounted, by clients and in the tree.  For a path of more than
\* two names the directory that is made is not the one that a lookup finds.
Places ==
  /\ Root \in dirs /\ type_mnt \subseteq dirs
  /\ DOMAIN mounts \subseteq Path
  /\ type_mnt = {Created(p) : p \in DOMAIN mounts}
  /\ DOMAIN mnt \subseteq type_mnt
  /\ \A p \in DOMAIN mounts :
       IF mounts[p] = Nobody THEN Created(p) \notin DOMAIN mnt
       ELSE Created(p) \in DOMAIN mnt /\ mnt[Created(p)].ep = mounts[p]

LEMMA MinOfTwo ==
  ASSUME NEW a \in Int, NEW b \in Int
  PROVE  Min({a, b}) = IF a <= b THEN a ELSE b
BY DEF Min

\* Every key that create_directories makes begins with the name it is for.
LEMMA KeyBegins ==
  ASSUME NEW p \in Seq(Name), NEW i \in 1 .. Len(p)
  PROVE  /\ Dirname(p, i) \in Seq(Name) /\ Len(Dirname(p, i)) >= 1
         /\ Dirname(p, i)[1] = p[i]
<1>1. CASE i = Len(p)
  <2>1. Dirname(p, i) = <<p[i]>> /\ p[i] \in Name
    BY <1>1 DEF Dirname
  <2> QED
    BY <2>1
<1>2. CASE i # Len(p)
  <2>1. PICK m \in Nat : m = IF 2 * i - 1 <= Len(p) THEN 2 * i - 1 ELSE Len(p)
    OBVIOUS
  <2>2. Min({2 * i - 1, Len(p)}) = m
    <3>1. 2 * i - 1 \in Int /\ Len(p) \in Int
      OBVIOUS
    <3> QED
      BY <2>1, <3>1, MinOfTwo
  <2>3. Dirname(p, i) = SubSeq(p, i, m)
    BY <1>2, <2>2, Zenon DEF Dirname
  <2>4. i <= m /\ m <= Len(p)
    BY <1>2, <2>1
  <2> QED
    BY <2>3, <2>4
<1> QED
  BY <1>1, <1>2

LEMMA CreatedKeys ==
  ASSUME NEW p \in Seq(Name)
  PROVE  /\ Created(p) \in Seq(Seq(Name)) /\ Len(Created(p)) = Len(p)
         /\ \A i \in 1 .. Len(p) : Created(p)[i] = Dirname(p, i)
BY KeyBegins DEF Created

LEMMA CreatedInjective ==
  ASSUME NEW p \in Seq(Name), NEW q \in Seq(Name), Created(p) = Created(q)
  PROVE  p = q
<1>1. Len(p) = Len(q)
  BY CreatedKeys
<1>2. ASSUME NEW i \in 1 .. Len(p) PROVE p[i] = q[i]
  <2>1. Dirname(p, i) = Dirname(q, i)
    BY <1>1, CreatedKeys
  <2> QED
    BY <1>1, <2>1, KeyBegins
<1> QED
  BY <1>1, <1>2, SeqEqual

LEMMA ShortCreated ==
  ASSUME NEW p \in Seq(Name), Len(p) <= 2
  PROVE  Created(p) = Node(p, Len(p))
<1>1. ASSUME NEW i \in 1 .. Len(p) PROVE Dirname(p, i) = <<p[i]>>
  <2>1. CASE i = Len(p)
    BY <2>1 DEF Dirname
  <2>2. CASE i # Len(p)
    <3>1. i = 1 /\ Len(p) = 2
      BY <2>2
    <3>2. Min({2 * 1 - 1, Len(p)}) = 1
      BY <3>1, MinOfTwo
    <3>3. Dirname(p, i) = SubSeq(p, 1, 1)
      BY <2>2, <3>1, <3>2 DEF Dirname
    <3> QED
      BY <3>1, <3>3
  <2> QED
    BY <2>1, <2>2
<1> QED
  BY <1>1 DEF Created, Node

LEMMA LongCreated ==
  ASSUME NEW p \in Seq(Name), Len(p) > 2, NEW q \in Seq(Name), NEW n \in 0 .. Len(q)
  PROVE  Created(p) # Node(q, n)
<1>0. 2 # Len(p)
  BY SMTT(30)
<1> SUFFICES ASSUME Created(p) = Node(q, n) PROVE FALSE
  OBVIOUS
<1>1. n = Len(p)
  <2>1. DOMAIN Created(p) = 1 .. Len(p) /\ DOMAIN Node(q, n) = 1 .. n
    BY DEF Created, Node
  <2>2. 1 .. Len(p) = 1 .. n /\ Len(p) \in Nat /\ n \in Nat
    BY <2>1
  <2> QED
    BY <2>2
<1>2. Created(p)[2] = Dirname(p, 2)
  BY CreatedKeys
<1>3. Min({2 * 2 - 1, Len(p)}) = 3
  BY MinOfTwo
<1>4. Dirname(p, 2) = SubSeq(p, 2, 3)
  BY <1>0, <1>3, Zenon DEF Dirname
<1>5. Len(SubSeq(p, 2, 3)) = 2
  OBVIOUS
<1>6. Created(p)[2] = <<q[2]>>
  BY <1>1 DEF Node
<1>7. Len(<<q[2]>>) = 1
  OBVIOUS
<1> QED
  BY <1>2, <1>4, <1>5, <1>6, <1>7

\* A lookup finds what was made for a path, if it has two names at most.
LEMMA FoundIsMade ==
  ASSUME NEW p \in Seq(Name), NEW q \in Seq(Name)
  PROVE  Created(p) = Node(q, Len(q)) <=> p = q /\ Len(p) <= 2
<1>1. ASSUME Created(p) = Node(q, Len(q)) PROVE p = q /\ Len(p) <= 2
  <2>1. Len(p) <= 2
    BY <1>1, LongCreated
  <2>2. Node(p, Len(p)) = Node(q, Len(q))
    BY <1>1, <2>1, ShortCreated
  <2> QED
    BY <2>1, <2>2, NodeInjective
<1> QED
  BY <1>1, ShortCreated

LEMMA PlacesInit == Init => Places
  BY DEF Init, Places

LEMMA PlacesMount ==
  ASSUME Places, NEW path \in Path, NEW ep \in Ep, Mount(path, ep)
  PROVE  Places'
<1>1. dirs \subseteq dirs' /\ Created(path) \in dirs'
  <2>1. path \in Seq(Name) /\ Len(path) \in Nat
    BY VfsAssumption
  <2>2. Created(path) \in Seq(Seq(Name)) /\ Len(Created(path)) = Len(path)
    BY <2>1, CreatedKeys
  <2>3. CASE Len(path) = 0
    <3>1. Created(path) = Root
      BY <2>2, <2>3, EmptySeq DEF Root
    <3> QED
      BY <3>1 DEF Places, Mount, CreateDirectories
  <2>4. CASE Len(path) # 0
    <3>1. SubSeq(Created(path), 1, Len(path)) = Created(path)
      BY <2>2, SubSeqFull
    <3>2. Len(path) \in 1 .. Len(path)
      BY <2>1, <2>4
    <3> QED
      BY <3>1, <3>2 DEF Mount, CreateDirectories
  <2> QED
    BY <2>3, <2>4
<1>2. CASE UNCHANGED <<type_mnt, mnt, mounts>>
  BY <1>1, <1>2 DEF Places
<1>3. ASSUME Created(path) \notin DOMAIN mnt, NEW id \in Id, MountHere(path, ep, id)
      PROVE  Places'
  <2>1. PICK dir : dir = Created(path)
    OBVIOUS
  <2>2. /\ DOMAIN mnt' = DOMAIN mnt \cup {dir} /\ mnt'[dir].ep = ep
        /\ \A d \in DOMAIN mnt : d # dir => mnt'[d] = mnt[d]
        /\ DOMAIN mounts' = DOMAIN mounts \cup {path} /\ mounts'[path] = ep
        /\ \A p \in DOMAIN mounts : p # path => mounts'[p] = mounts[p]
        /\ type_mnt' = type_mnt \cup {dir}
    BY <1>3, <2>1 DEF MountHere, With
  <2>3. type_mnt' = {Created(p) : p \in DOMAIN mounts'}
    BY <2>1, <2>2 DEF Places
  <2>4. \A p \in DOMAIN mounts : p # path => Created(p) # dir
    BY <2>1, VfsAssumption, CreatedInjective DEF Places
  <2>5. ep # Nobody
    BY VfsAssumption
  <2>6. ASSUME NEW p \in DOMAIN mounts'
        PROVE  IF mounts'[p] = Nobody THEN Created(p) \notin DOMAIN mnt'
               ELSE Created(p) \in DOMAIN mnt' /\ mnt'[Created(p)].ep = mounts'[p]
    <3>1. CASE p = path
      BY <2>1, <2>2, <2>5, <3>1
    <3>2. CASE p # path
      BY <2>2, <2>4, <3>2 DEF Places
    <3> QED
      BY <3>1, <3>2
  <2> QED
    BY <1>1, <2>1, <2>2, <2>3, <2>6 DEF Places, Created, Dirname
<1> QED
  BY <1>2, <1>3 DEF Mount

LEMMA PlacesUnmount ==
  ASSUME Places, NEW path \in Path, Unmount(path)
  PROVE  Places'
<1>1. PICK dir : dir = Node(path, Len(path))
  OBVIOUS
<1>2. /\ dir \in DOMAIN mnt
      /\ DOMAIN mnt' = DOMAIN mnt \ {dir} /\ \A d \in DOMAIN mnt \ {dir} : mnt'[d] = mnt[d]
      /\ DOMAIN mounts' = DOMAIN mounts \cup {path} /\ mounts'[path] = Nobody
      /\ \A p \in DOMAIN mounts : p # path => mounts'[p] = mounts[p]
      /\ UNCHANGED <<dirs, type_mnt>>
  BY <1>1 DEF Unmount, IsMounted, Without, With
<1>3. PICK q \in DOMAIN mounts : Created(q) = dir
  BY <1>2 DEF Places
<1>4. q = path /\ Created(path) = dir
  <2>1. q \in Seq(Name) /\ path \in Seq(Name)
    BY VfsAssumption DEF Places
  <2> QED
    BY <1>1, <1>3, <2>1, FoundIsMade
<1>5. \A p \in DOMAIN mounts : p # path => Created(p) # dir
  BY <1>4, VfsAssumption, CreatedInjective DEF Places
<1>6. DOMAIN mounts' = DOMAIN mounts
  BY <1>2, <1>3, <1>4
<1>7. ASSUME NEW p \in DOMAIN mounts'
      PROVE  IF mounts'[p] = Nobody THEN Created(p) \notin DOMAIN mnt'
             ELSE Created(p) \in DOMAIN mnt' /\ mnt'[Created(p)].ep = mounts'[p]
  <2>1. CASE p = path
    BY <1>2, <1>4, <2>1
  <2>2. CASE p # path
    BY <1>2, <1>5, <1>6, <2>2 DEF Places
  <2> QED
    BY <2>1, <2>2
<1> QED
  BY <1>2, <1>6, <1>7 DEF Places, Created, Dirname

LEMMA PlacesHold == Spec => []Places
<1>1. Places /\ [Next]_vars => Places'
  <2> SUFFICES ASSUME Places, [Next]_vars PROVE Places'
    OBVIOUS
  <2>1. ASSUME UNCHANGED <<dirs, type_mnt, mnt, mounts>> PROVE Places'
    BY <2>1 DEF Places
  <2>2. ASSUME NEW path \in Path, NEW fd \in Fd, OpenFile(path, fd) \/ OpenDirectory(path, fd)
        PROVE  Places'
    BY <2>1, <2>2 DEF OpenFile, OpenDirectory
  <2>3. ASSUME NEW fd \in Fd, Close(fd) \/ ReadDirectory(fd) PROVE Places'
    BY <2>1, <2>3 DEF Close, ReadDirectory
  <2>4. CASE UNCHANGED vars
    BY <2>1, <2>4 DEF vars
  <2> QED
    BY <2>2, <2>3, <2>4, PlacesMount, PlacesUnmount DEF Next
<1> QED
  BY <1>1, PlacesInit, PTL DEF Spec

\* The mount points that a lookup meets on a path are those that clients have
\* mounted at its beginnings.
LEMMA MetOnPath ==
  ASSUME Places, NEW path \in Seq(Name), NEW n \in 0 .. Len(path)
  PROVE  /\ Node(path, n) \in type_mnt <=> SubSeq(path, 1, n) \in Findable
         /\ Node(path, n) \in DOMAIN mnt
              <=> SubSeq(path, 1, n) \in Findable /\ mounts[SubSeq(path, 1, n)] # Nobody
         /\ Node(path, n) \in DOMAIN mnt => mnt[Node(path, n)].ep = mounts[SubSeq(path, 1, n)]
<1>1. PICK q \in Seq(Name) : q = SubSeq(path, 1, n) /\ Node(q, Len(q)) = Node(path, n)
  BY NodeOfPrefix
<1>2. \A p \in DOMAIN mounts : Created(p) = Node(q, Len(q)) <=> p = q /\ Len(p) <= 2
  BY VfsAssumption, FoundIsMade DEF Places
<1>3. Node(path, n) \in type_mnt <=> q \in Findable
  BY <1>1, <1>2 DEF Places, Findable
<1>4. q \in Findable => Created(q) = Node(path, n)
  BY <1>1, <1>2 DEF Findable
<1>5. q \in Findable =>
        /\ Node(path, n) \in DOMAIN mnt <=> mounts[q] # Nobody
        /\ Node(path, n) \in DOMAIN mnt => mnt[Node(path, n)].ep = mounts[q]
  BY <1>4 DEF Places, Findable
<1>6. Node(path, n) \in DOMAIN mnt => q \in Findable
  BY <1>3 DEF Places
<1> QED
  BY <1>1, <1>3, <1>5, <1>6

LEMMA PrefixIsStart ==
  ASSUME NEW q \in Seq(Name), NEW path \in Seq(Name)
  PROVE  IsPrefix(q, path) <=> Len(q) \in 0 .. Len(path) /\ q = SubSeq(path, 1, Len(q))
<1>1. SubSeq(q, 1, Len(q)) = q
  BY SubSeqFull
<1> QED
  BY <1>1 DEF IsPrefix

\* What clients have mounted at the beginnings of a path, and the file system
\* of the nearest.
On(path) == {q \in Findable : IsPrefix(q, path)}

Nearest(path) ==
  IF On(path) = {} THEN Nobody
  ELSE mounts[CHOOSE q \in On(path) : \A r \in On(path) : Len(r) <= Len(q)]

LEMMA NearestFound ==
  ASSUME Places
  PROVE  NearestMount
<1> SUFFICES ASSUME NEW path \in Path PROVE PassedTo(path) = Nearest(path)
  BY DEF NearestMount, Nearest, On
<1> DEFINE on == On(path)
           found == {n \in Visited(path) :
                       Node(path, n) \in IF path = <<>> THEN DOMAIN mnt ELSE type_mnt}
           n == FindMountPoint(path)
<1>1. path \in Seq(Name) /\ Len(path) \in Nat
  BY VfsAssumption
<1>2. Findable \subseteq Seq(Name)
  BY VfsAssumption DEF Findable, Places
<1>3. n = IF found = {} THEN -1 ELSE Max(found)
  BY DEF FindMountPoint
<1>0. on = {q \in Findable : IsPrefix(q, path)}
  BY DEF On
<1>4. \A q \in on : Len(q) \in 0 .. Len(path) /\ q = SubSeq(path, 1, Len(q))
  BY <1>0, <1>1, <1>2, PrefixIsStart
<1>5. \A k \in 0 .. Len(path) : SubSeq(path, 1, k) \in Findable => SubSeq(path, 1, k) \in on
  <2> SUFFICES ASSUME NEW k \in 0 .. Len(path), SubSeq(path, 1, k) \in Findable
               PROVE  IsPrefix(SubSeq(path, 1, k), path)
    BY <1>0
  <2>1. SubSeq(path, 1, k) \in Seq(Name) /\ Len(SubSeq(path, 1, k)) = k
    BY <1>1
  <2>2. PICK q : q = SubSeq(path, 1, k)
    OBVIOUS
  <2>3. q \in Seq(Name) /\ Len(q) = k
    BY <2>1, <2>2
  <2>4. IsPrefix(q, path)
    BY <1>1, <2>2, <2>3, PrefixIsStart
  <2> QED
    BY <2>2, <2>4
<1>6. CASE path = <<>>
  <2>1. \A q \in on : q = path
    <3>1. Len(path) = 0
      BY <1>6
    <3>2. \A q \in on : Len(q) = 0 /\ q \in Seq(Name)
      BY <1>0, <1>2, <1>4, <3>1
    <3> QED
      BY <1>6, <3>2, EmptySeq
  <2>2. /\ Node(path, 0) \in DOMAIN mnt <=> path \in Findable /\ mounts[path] # Nobody
        /\ Node(path, 0) \in DOMAIN mnt => mnt[Node(path, 0)].ep = mounts[path]
    <3>1. SubSeq(path, 1, 0) = path /\ 0 \in 0 .. Len(path)
      BY <1>1, <1>6
    <3> QED
      BY <1>1, <3>1, MetOnPath
  <2>3. path \in Findable <=> path \in on
    <3>1. SubSeq(path, 1, 0) = path /\ 0 \in 0 .. Len(path)
      BY <1>1, <1>6
    <3> QED
      BY <1>0, <1>5, <3>1
  <2>4. Visited(path) = {0}
    <3>1. Node(path, 0) = Root /\ Len(path) = 0
      BY <1>6 DEF Node, Root
    <3> QED
      BY <3>1 DEF Visited, Places
  <2>5. found = IF Node(path, 0) \in DOMAIN mnt THEN {0} ELSE {}
    BY <1>6, <2>4
  <2>6. Max({0}) = 0
    BY DEF Max
  <2>7. PassedTo(path) = IF Node(path, 0) \in DOMAIN mnt THEN mnt[Node(path, 0)].ep ELSE Nobody
    BY <1>3, <2>5, <2>6 DEF PassedTo
  <2>8. on = {} \/ on = {path}
    BY <2>1
  <2>9. on = {path} => (CHOOSE q \in on : \A r \in on : Len(r) <= Len(q)) = path
    BY <1>1, <2>8
  <2>10. Nearest(path) = IF on = {} THEN Nobody
                         ELSE mounts[CHOOSE q \in on : \A r \in on : Len(r) <= Len(q)]
    BY DEF Nearest
  <2> HIDE DEF on, found, n
  <2> QED
    BY <2>2, <2>3, <2>7, <2>8, <2>9, <2>10
<1>7. CASE path # <<>>
  <2>1. \A k \in 0 .. Len(path) : k \in found <=> SubSeq(path, 1, k) \in Findable
    BY <1>1, <1>7, MetOnPath DEF Visited, Places
  <2>2. found \in SUBSET (0 .. Len(path))
    BY DEF Visited
  <2>10. Nearest(path) = IF on = {} THEN Nobody
                         ELSE mounts[CHOOSE q \in on : \A r \in on : Len(r) <= Len(q)]
    BY DEF Nearest
  <2> HIDE DEF on, found
  <2>3. CASE on = {}
    <3>1. found = {}
      BY <1>5, <2>1, <2>2, <2>3
    <3>2. n = -1
      BY <1>3, <3>1
    <3> QED
      BY <2>3, <2>10, <3>2 DEF PassedTo
  <2>4. CASE on # {}
    <3>1. PICK q0 \in on : TRUE
      BY <2>4
    <3>2. \A q \in on : Len(q) \in found /\ q \in Findable
      BY <1>0, <1>4, <2>1
    <3>3. n = Max(found) /\ n \in found
      BY <1>1, <1>3, <2>2, <3>1, <3>2, Greatest
    <3>4. \A k \in found : k <= n
      BY <1>1, <2>2, <3>1, <3>2, <3>3, GreatestBounds
    <3>5. PICK near \in on : near = SubSeq(path, 1, n)
      BY <1>5, <2>1, <2>2, <3>3
    <3>6. Len(near) = n
      <4>1. n \in 0 .. Len(path)
        BY <2>2, <3>3
      <4> QED
        BY <1>1, <3>5, <4>1
    <3>7. \A r \in on : Len(r) <= Len(near)
      BY <3>2, <3>4, <3>6
    <3>8. \A q \in on : (\A r \in on : Len(r) <= Len(q)) => q = near
      <4> SUFFICES ASSUME NEW q \in on, \A r \in on : Len(r) <= Len(q) PROVE q = near
        OBVIOUS
      <4>1. Len(near) <= Len(q) /\ Len(q) <= Len(near)
        BY <3>7
      <4>2. Len(q) = n
        BY <1>4, <3>6, <4>1
      <4> QED
        BY <1>4, <3>5, <4>2
    <3>9. (CHOOSE q \in on : \A r \in on : Len(r) <= Len(q)) = near
      BY <3>7, <3>8
    <3>10. n \in 0 .. Len(path)
      BY <2>2, <3>3
    <3>11. near \in Findable
      BY <3>2
    <3>12. PassedTo(path) = mounts[near]
      <4>1. /\ Node(path, n) \in DOMAIN mnt <=> near \in Findable /\ mounts[near] # Nobody
            /\ Node(path, n) \in DOMAIN mnt => mnt[Node(path, n)].ep = mounts[near]
        BY <1>1, <3>5, <3>10, MetOnPath
      <4>2. PassedTo(path) = IF n >= 0 /\ Node(path, n) \in DOMAIN mnt
                             THEN mnt[Node(path, n)].ep ELSE Nobody
        BY DEF PassedTo
      <4> HIDE DEF n
      <4> QED
        BY <3>10, <3>11, <4>1, <4>2
    <3> QED
      BY <2>4, <2>10, <3>9, <3>12
  <2> QED
    BY <2>3, <2>4
<1> QED
  BY <1>6, <1>7

\* A request for a path is passed on to the file system that a client mounted
\* nearest to it, over any sequence of mounts and unmounts; a path that was
\* unmounted stays in the way.
THEOREM PassedToNearest == Spec => []NearestMount
<1>1. Places => NearestMount
  BY NearestFound
<1> QED
  BY <1>1, PlacesHold, PTL

-----------------------------------------------------------------------------
(* The order of the entries of a directory.                                  *)

\* s comes before t because of the n-th place, up to which they are the same.
BeforeAt(s, t, n) ==
  /\ n \in 1 .. Len(t) /\ n <= Len(s) + 1
  /\ \A i \in 1 .. n - 1 : s[i] = t[i]
  /\ n = Len(s) + 1 \/ s[n] < t[n]

LEMMA BeforePlace ==
  ASSUME NEW s \in Seq(Name), NEW t \in Seq(Name)
  PROVE  Before(s, t) <=> \E n \in Nat : BeforeAt(s, t, n)
<1>0. /\ Len(s) \in Nat /\ Len(t) \in Nat
      /\ Min({Len(s), Len(t)}) = IF Len(s) <= Len(t) THEN Len(s) ELSE Len(t)
  BY MinOfTwo
<1>1. ASSUME IsStrictPrefix(s, t)
      PROVE  Len(s) + 1 \in Nat /\ BeforeAt(s, t, Len(s) + 1)
  <2>1. Len(s) <= Len(t) /\ s = SubSeq(t, 1, Len(s)) /\ s # t
    BY <1>0, <1>1, PrefixIsStart DEF IsStrictPrefix
  <2>2. Len(s) # Len(t)
    BY <2>1, SubSeqFull
  <2>3. PICK m \in 0 .. Len(t) : m = Len(s)
    BY <1>0, <2>1
  <2>4. \A i \in 1 .. m : SubSeq(t, 1, m)[i] = t[i]
    OBVIOUS
  <2>5. \A i \in 1 .. Len(s) : s[i] = t[i]
    BY <2>1, <2>3, <2>4
  <2>6. PICK n \in Nat : n = Len(s) + 1
    BY <1>0
  <2>7. n \in 1 .. Len(t) /\ n <= Len(s) + 1 /\ n - 1 = Len(s)
    BY <1>0, <2>1, <2>2, <2>6
  <2>8. BeforeAt(s, t, n)
    BY <2>5, <2>6, <2>7, Zenon DEF BeforeAt
  <2> QED
    BY <2>6, <2>8
<1>2. ASSUME NEW n \in 1 .. Min({Len(s), Len(t)}), s[n] < t[n],
             \A i \in 1 .. n - 1 : s[i] = t[i]
      PROVE  n \in Nat /\ BeforeAt(s, t, n)
  BY <1>0, <1>2 DEF BeforeAt
<1>3. ASSUME NEW n \in Nat, BeforeAt(s, t, n), n = Len(s) + 1
      PROVE  IsStrictPrefix(s, t)
  <2>1. /\ Len(s) <= Len(t) /\ Len(s) # Len(t)
        /\ \A i \in 1 .. Len(s) : s[i] = t[i]
    BY <1>0, <1>3 DEF BeforeAt
  <2>2. PICK m \in 0 .. Len(t) : m = Len(s)
    BY <1>0, <2>1
  <2>3. PICK u \in Seq(Name) : u = SubSeq(t, 1, m) /\ Len(u) = m /\ \A i \in 1 .. m : u[i] = t[i]
    <3>1. /\ SubSeq(t, 1, m) \in Seq(Name) /\ Len(SubSeq(t, 1, m)) = m
          /\ \A i \in 1 .. m : SubSeq(t, 1, m)[i] = t[i]
      OBVIOUS
    <3> QED
      BY <3>1
  <2>4. s = u
    BY <2>1, <2>2, <2>3, SeqEqual
  <2>5. IsPrefix(s, t)
    BY <2>2, <2>3, <2>4, PrefixIsStart
  <2> QED
    BY <2>1, <2>5 DEF IsStrictPrefix
<1>4. ASSUME NEW n \in Nat, BeforeAt(s, t, n), n # Len(s) + 1
      PROVE  /\ n \in 1 .. Min({Len(s), Len(t)}) /\ s[n] < t[n]
             /\ \A i \in 1 .. n - 1 : s[i] = t[i]
  BY <1>0, <1>4 DEF BeforeAt
<1> QED
  BY <1>1, <1>2, <1>3, <1>4 DEF Before

LEMMA NamesCompare ==
  ASSUME NEW s \in Seq(Name)
  PROVE  \A n \in 1 .. Len(s) : s[n] \in Nat
<1>1. Name \subseteq Nat
  BY VfsAssumption
<1>2. \A n \in 1 .. Len(s) : s[n] \in Name
  OBVIOUS
<1> QED
  BY <1>1, <1>2

LEMMA BeforeIrreflexive ==
  ASSUME NEW s \in Seq(Name)
  PROVE  ~ Before(s, s)
<1>1. ASSUME NEW n \in Nat, BeforeAt(s, s, n) PROVE FALSE
  <2>1. n \in 1 .. Len(s) /\ s[n] < s[n]
    BY <1>1 DEF BeforeAt
  <2> QED
    BY <2>1, NamesCompare
<1> QED
  BY <1>1, BeforePlace

LEMMA BeforeTransitive ==
  ASSUME NEW s \in Seq(Name), NEW t \in Seq(Name), NEW u \in Seq(Name),
         Before(s, t), Before(t, u)
  PROVE  Before(s, u)
<1>1. PICK n \in Nat : BeforeAt(s, t, n)
  BY BeforePlace
<1>2. PICK m \in Nat : BeforeAt(t, u, m)
  BY BeforePlace
<1>3. /\ n \in 1 .. Len(t) /\ n <= Len(s) + 1 /\ m \in 1 .. Len(u) /\ m <= Len(t) + 1
      /\ Len(s) \in Nat /\ Len(t) \in Nat /\ Len(u) \in Nat
  BY <1>1, <1>2 DEF BeforeAt
<1>4. /\ \A i \in 1 .. n - 1 : s[i] = t[i]
      /\ \A i \in 1 .. m - 1 : t[i] = u[i]
      /\ n = Len(s) + 1 \/ s[n] < t[n]
      /\ m = Len(t) + 1 \/ t[m] < u[m]
  BY <1>1, <1>2 DEF BeforeAt
<1>5. /\ \A i \in 1 .. Len(s) : s[i] \in Nat
      /\ \A i \in 1 .. Len(t) : t[i] \in Nat
      /\ \A i \in 1 .. Len(u) : u[i] \in Nat
  BY NamesCompare
<1>6. CASE n < m
  <2>1. t[n] = u[n]
    BY <1>3, <1>4, <1>6
  <2> QED
    BY <1>3, <1>4, <1>6, <2>1, BeforePlace DEF BeforeAt
<1>7. CASE m < n
  <2>1. s[m] = t[m] /\ m # Len(t) + 1 /\ t[m] < u[m]
    BY <1>3, <1>4, <1>7
  <2> QED
    BY <1>3, <1>4, <1>7, <2>1, BeforePlace DEF BeforeAt
<1>8. CASE m = n
  <2>1. t[n] < u[n]
    BY <1>3, <1>4, <1>8
  <2>2. n = Len(s) + 1 \/ s[n] < u[n]
    <3> SUFFICES ASSUME n # Len(s) + 1 PROVE s[n] < u[n]
      OBVIOUS
    <3>1. n \in 1 .. Len(s) /\ n \in 1 .. Len(t) /\ n \in 1 .. Len(u)
      BY <1>3, <1>8
    <3>2. s[n] < t[n] /\ s[n] \in Nat /\ t[n] \in Nat /\ u[n] \in Nat
      BY <1>4, <1>5, <3>1
    <3> QED
      BY <2>1, <3>2
  <2> QED
    BY <1>3, <1>4, <1>8, <2>2, BeforePlace DEF BeforeAt
<1> QED
  BY <1>3, <1>6, <1>7, <1>8

LEMMA BeforeTotal ==
  ASSUME NEW s \in Seq(Name), NEW t \in Seq(Name), s # t
  PROVE  Before(s, t) \/ Before(t, s)
<1> DEFINE Ends(n) == n = Len(s) + 1 \/ n = Len(t) + 1
           D == {n \in Nat : /\ 1 <= n /\ n <= Len(s) + 1 /\ n <= Len(t) + 1
                             /\ Ends(n) \/ s[n] # t[n]}
<1>0. Len(s) \in Nat /\ Len(t) \in Nat
  OBVIOUS
<1>1. D # {} /\ D \subseteq Nat
  <2>1. CASE Len(s) <= Len(t)
    BY <1>0, <2>1
  <2>2. CASE Len(t) <= Len(s)
    BY <1>0, <2>2
  <2> QED
    BY <1>0, <2>1, <2>2
<1> HIDE DEF D
<1>2. \E x \in D : \A y \in D : ~ (<<y, x>> \in OpToRel(<, Nat))
  BY <1>1, NatLessThanWellFounded, WFMin
<1>3. PICK n \in D : \A y \in D : ~ (y < n)
  BY <1>1, <1>2 DEF OpToRel
<1>4. /\ n \in Nat /\ 1 <= n /\ n <= Len(s) + 1 /\ n <= Len(t) + 1
      /\ Ends(n) \/ s[n] # t[n]
  BY <1>3 DEF D
<1>5. \A i \in 1 .. n - 1 : s[i] = t[i]
  <2> SUFFICES ASSUME NEW i \in 1 .. n - 1, s[i] # t[i] PROVE FALSE
    OBVIOUS
  <2>1. i \in D /\ i < n
    BY <1>0, <1>4 DEF D
  <2> QED
    BY <1>3, <2>1
<1>6. CASE n = Len(s) + 1 /\ n = Len(t) + 1
  <2>1. Len(s) = Len(t) /\ \A i \in 1 .. Len(s) : s[i] = t[i]
    BY <1>0, <1>5, <1>6
  <2> QED
    BY <2>1, SeqEqual
<1>7. CASE n = Len(s) + 1 /\ n # Len(t) + 1
  BY <1>0, <1>4, <1>5, <1>7, BeforePlace DEF BeforeAt
<1>8. CASE n # Len(s) + 1 /\ n = Len(t) + 1
  BY <1>0, <1>4, <1>5, <1>8, BeforePlace DEF BeforeAt
<1>9. CASE n # Len(s) + 1 /\ n # Len(t) + 1
  <2>1. s[n] # t[n] /\ n \in 1 .. Len(s) /\ n \in 1 .. Len(t)
    BY <1>0, <1>4, <1>9
  <2>2. s[n] < t[n] \/ t[n] < s[n]
    BY <2>1, NamesCompare
  <2> QED
    BY <1>0, <1>5, <2>1, <2>2, BeforePlace DEF BeforeAt
<1> QED
  BY <1>6, <1>7, <1>8, <1>9

\* How many of some keys come before one of them.
RankIn(K, key) == Cardinality({k \in K : Before(k, key)})

LEMMA RankType ==
  ASSUME NEW K, IsFiniteSet(K), NEW key
  PROVE  /\ IsFiniteSet({k \in K : Before(k, key)})
         /\ RankIn(K, key) \in Nat
<1>1. {k \in K : Before(k, key)} \in SUBSET K
  OBVIOUS
<1>2. IsFiniteSet({k \in K : Before(k, key)})
  BY <1>1, FS_Subset
<1> QED
  BY <1>2, FS_CardinalityType DEF RankIn

\* More keys never make a rank lower.
LEMMA RankGrows ==
  ASSUME NEW K, NEW K2, IsFiniteSet(K2), K \subseteq K2, NEW key
  PROVE  RankIn(K, key) <= RankIn(K2, key)
<1>1. {k \in K : Before(k, key)} \in SUBSET {k \in K2 : Before(k, key)}
  OBVIOUS
<1> QED
  BY <1>1, RankType, FS_Subset DEF RankIn

LEMMA RankRises ==
  ASSUME NEW K \in SUBSET Seq(Name), IsFiniteSet(K), NEW a \in K, NEW b \in K, Before(a, b)
  PROVE  RankIn(K, a) < RankIn(K, b)
<1> DEFINE A == {k \in K : Before(k, a)}
           B == {k \in K : Before(k, b)}
<1>1. A \in SUBSET B
  BY BeforeTransitive
<1>2. a \in B /\ a \notin A
  BY BeforeIrreflexive
<1>3. A # B
  BY <1>2
<1>4. IsFiniteSet(B)
  BY RankType
<1>5. Cardinality(A) <= Cardinality(B) /\ (Cardinality(B) = Cardinality(A) => B = A)
  BY <1>1, <1>4, FS_Subset
<1>6. RankIn(K, a) = Cardinality(A) /\ RankIn(K, b) = Cardinality(B)
  BY DEF RankIn
<1>7. RankIn(K, a) \in Nat /\ RankIn(K, b) \in Nat
  BY RankType
<1> HIDE DEF A, B
<1> QED
  BY <1>3, <1>5, <1>6, <1>7

LEMMA RankUnique ==
  ASSUME NEW K \in SUBSET Seq(Name), IsFiniteSet(K), NEW a \in K, NEW b \in K,
         RankIn(K, a) = RankIn(K, b)
  PROVE  a = b
<1> SUFFICES ASSUME a # b PROVE FALSE
  OBVIOUS
<1>1. Before(a, b) \/ Before(b, a)
  BY BeforeTotal
<1>2. RankIn(K, a) < RankIn(K, b) \/ RankIn(K, b) < RankIn(K, a)
  BY <1>1, RankRises
<1>3. PICK m \in Nat : RankIn(K, a) = m /\ RankIn(K, b) = m
  BY RankType
<1>4. m < m
  BY <1>2, <1>3, Zenon
<1> QED
  BY <1>4

\* Ranks leave no gap: with one at pos or above, there is one at pos.
LEMMA RanksFill ==
  ASSUME NEW K \in SUBSET Seq(Name), IsFiniteSet(K), NEW pos \in Nat,
         NEW key \in K, RankIn(K, key) >= pos
  PROVE  \E k \in K : RankIn(K, k) = pos
<1> SUFFICES ASSUME \A k \in K : RankIn(K, k) # pos PROVE FALSE
  OBVIOUS
<1>0. \A k \in K : RankIn(K, k) \in Nat
  BY RankType
<1> DEFINE T == {RankIn(K, k) : k \in {x \in K : RankIn(K, x) >= pos}}
<1>1. T # {} /\ T \subseteq Nat
  BY <1>0
<1>2. \E x \in T : \A y \in T : ~ (<<y, x>> \in OpToRel(<, Nat))
  BY <1>1, NatLessThanWellFounded, WFMin
<1>3. PICK r \in T : \A y \in T : ~ (y < r)
  BY <1>1, <1>2 DEF OpToRel
<1>4. PICK a \in K : r = RankIn(K, a) /\ r >= pos
  OBVIOUS
<1>5. r \in Nat /\ r > pos
  BY <1>0, <1>4
<1> DEFINE L == {k \in K : Before(k, a)}
<1>6. IsFiniteSet(L) /\ Cardinality(L) = r /\ L # {}
  <2>1. IsFiniteSet(L) /\ Cardinality(L) = r
    BY <1>4, RankType DEF RankIn
  <2>2. L # {}
    BY <1>5, <2>1, FS_EmptySet
  <2> QED
    BY <2>1, <2>2
<1>7. \A k \in L : RankIn(K, k) \in 0 .. pos /\ RankIn(K, k) < pos
  <2> SUFFICES ASSUME NEW k \in L PROVE RankIn(K, k) < pos
    BY <1>0
  <2>1. RankIn(K, k) < r
    BY <1>4, RankRises
  <2>2. RankIn(K, k) >= pos => RankIn(K, k) \in T
    OBVIOUS
  <2> HIDE DEF T
  <2> QED
    BY <1>0, <1>3, <2>1, <2>2
<1> DEFINE G == {RankIn(K, k) : k \in L}
<1>8. G \in SUBSET (0 .. pos) /\ G # {}
  BY <1>6, <1>7
<1> HIDE DEF T, L
<1>9. PICK g \in G : \A y \in G : g >= y
  BY <1>8, GreatestExists
<1>10. PICK b \in L : g = RankIn(K, b)
  OBVIOUS
<1>11. \A k \in L : RankIn(K, k) <= RankIn(K, b)
  BY <1>9, <1>10
<1> HIDE DEF G
<1>12. L \subseteq K
  BY DEF L
<1> DEFINE B == {k \in K : Before(k, b)}
<1>13. L \in SUBSET (B \cup {b})
  <2> SUFFICES ASSUME NEW k \in L, k # b, ~ Before(k, b) PROVE FALSE
    BY <1>12
  <2>1. Before(b, k)
    BY <1>12, BeforeTotal
  <2>2. RankIn(K, b) < RankIn(K, k)
    BY <1>12, <2>1, RankRises
  <2> QED
    BY <1>0, <1>11, <1>12, <2>2
<1>14. IsFiniteSet(B) /\ Cardinality(B) = RankIn(K, b)
  BY RankType DEF RankIn
<1>15. /\ IsFiniteSet(B \cup {b})
       /\ Cardinality(B \cup {b}) = IF b \in B THEN Cardinality(B) ELSE Cardinality(B) + 1
  BY <1>14, FS_AddElement
<1>16. Cardinality(L) <= Cardinality(B \cup {b})
  BY <1>13, <1>15, FS_Subset
<1>17. RankIn(K, b) \in Nat /\ RankIn(K, b) < pos
  BY <1>0, <1>7, <1>10, <1>12
<1> HIDE DEF B
<1>18. Cardinality(L) <= RankIn(K, b) + 1
  <2>1. CASE b \in B
    BY <1>5, <1>6, <1>14, <1>15, <1>16, <1>17, <2>1
  <2>2. CASE b \notin B
    BY <1>14, <1>15, <1>16, <2>2
  <2> QED
    BY <2>1, <2>2
<1> QED
  BY <1>5, <1>6, <1>17, <1>18

-----------------------------------------------------------------------------
(* Listings.                                                                 *)

\* Directories are found by keys, and there are finitely many.
Tree == IsFiniteSet(dirs) /\ Root \in dirs /\ dirs \subseteq Seq(Seq(Name))

\* What was there when a directory was opened and has not been read is still
\* to come: its rank is not below the position.
IsListing(s) ==
  /\ s \in [dir : dirs, pos : Nat, first : SUBSET Subdirs(s.dir), seen : SUBSET Seq(Name)]
  /\ \A key \in s.first \ s.seen : RankIn(Subdirs(s.dir), key) >= s.pos

Listings == Tree /\ \A fd \in DOMAIN dir_streams : IsListing(dir_streams[fd])

\* Subdirs, of any set of directories.
KeysIn(D, dir) == {key \in {Last(d) : d \in D \ {Root}} : Append(dir, key) \in D}

LEMMA KeysFinite ==
  ASSUME NEW D \in SUBSET Seq(Seq(Name)), IsFiniteSet(D), NEW dir
  PROVE  IsFiniteSet(KeysIn(D, dir)) /\ KeysIn(D, dir) \in SUBSET Seq(Name)
<1> DEFINE S == D \ {Root}
           T == {Last(d) : d \in S}
           f == [d \in S |-> Last(d)]
<1>1. \A d \in S : Last(d) \in Seq(Name)
  <2> TAKE d \in S
  <2>1. d \in Seq(Seq(Name)) /\ d # <<>>
    BY DEF Root
  <2> QED
    BY <2>1 DEF Last
<1>2. f \in Surjection(S, T)
  BY DEF Surjection
<1>3. IsFiniteSet(S)
  BY FS_RemoveElement
<1>4. IsFiniteSet(T)
  BY <1>2, <1>3, FS_Surjection
<1>5. KeysIn(D, dir) \in SUBSET T
  BY DEF KeysIn
<1> QED
  BY <1>1, <1>4, <1>5, FS_Subset

LEMMA SubdirsKeys ==
  ASSUME Tree, NEW dir
  PROVE  IsFiniteSet(Subdirs(dir)) /\ Subdirs(dir) \in SUBSET Seq(Name)
<1>1. Subdirs(dir) = KeysIn(dirs, dir)
  BY DEF Subdirs, KeysIn
<1> QED
  BY <1>1, KeysFinite DEF Tree

\* create_directories makes finitely many.
LEMMA MadeTree ==
  ASSUME Tree, NEW path \in Path, dirs' = CreateDirectories(path)
  PROVE  Tree' /\ dirs \subseteq dirs'
<1>1. path \in Seq(Name)
  BY VfsAssumption
<1>2. PICK c \in Seq(Seq(Name)) : c = Created(path) /\ Len(c) = Len(path)
  BY <1>1, CreatedKeys
<1> DEFINE N == 1 .. Len(path)
           T == {SubSeq(c, 1, n) : n \in N}
           f == [n \in N |-> SubSeq(c, 1, n)]
<1>3. dirs' = dirs \cup T
  BY <1>2 DEF CreateDirectories
<1>4. f \in Surjection(N, T)
  BY DEF Surjection
<1>5. IsFiniteSet(N)
  BY <1>1, FS_Interval
<1>6. IsFiniteSet(T)
  BY <1>4, <1>5, FS_Surjection
<1>7. T \subseteq Seq(Seq(Name))
  <2>1. \A n \in N : SubSeq(c, 1, n) \in Seq(Seq(Name))
    BY <1>1, <1>2
  <2> QED
    BY <2>1
<1> HIDE DEF T
<1>8. IsFiniteSet(dirs')
  BY <1>3, <1>6, FS_Union DEF Tree
<1> QED
  BY <1>3, <1>7, <1>8 DEF Tree, Root

\* Directories that are made do not disturb a listing.
LEMMA ListingStays ==
  ASSUME Tree', dirs \subseteq dirs', NEW s, IsListing(s)
  PROVE  IsListing(s)'
<1> DEFINE K  == KeysIn(dirs, s.dir)
           K2 == KeysIn(dirs', s.dir)
<1>1. Subdirs(s.dir) = K /\ Subdirs(s.dir)' = K2
  BY DEF Subdirs, KeysIn
<1>2. IsFiniteSet(K2)
  BY KeysFinite DEF Tree
<1>3. K \subseteq K2
  BY DEF KeysIn
<1> HIDE DEF K, K2
<1>4. \A key : RankIn(K, key) <= RankIn(K2, key) /\ RankIn(K2, key) \in Nat
  BY <1>2, <1>3, RankGrows, RankType
<1>5. /\ s \in [dir : dirs, pos : Nat, first : SUBSET K, seen : SUBSET Seq(Name)]
      /\ \A key \in s.first \ s.seen : RankIn(K, key) >= s.pos
  BY <1>1 DEF IsListing
<1>6. s \in [dir : dirs', pos : Nat, first : SUBSET K2, seen : SUBSET Seq(Name)]
  BY <1>3, <1>5
<1>7. IsFiniteSet(K)
  BY <1>2, <1>3, FS_Subset
<1>8. \A key \in s.first \ s.seen : RankIn(K2, key) >= s.pos
  <2> TAKE key \in s.first \ s.seen
  <2>1. RankIn(K, key) >= s.pos /\ RankIn(K, key) \in Nat /\ s.pos \in Nat
    BY <1>5, <1>7, RankType
  <2> QED
    BY <1>4, <2>1
<1> QED
  BY <1>1, <1>6, <1>8 DEF IsListing

LEMMA ListingsMount ==
  ASSUME Listings, NEW path \in Path, NEW ep \in Ep, Mount(path, ep)
  PROVE  Listings'
<1>1. Tree' /\ dirs \subseteq dirs'
  BY MadeTree DEF Listings, Mount
<1>2. ASSUME NEW fd \in DOMAIN dir_streams
      PROVE  IsListing(dir_streams[fd])'
  <2>1. PICK s : s = dir_streams[fd]
    OBVIOUS
  <2>2. dir_streams'[fd] = s
    BY <2>1 DEF Mount
  <2>3. IsListing(s)'
    BY <1>1, <2>1, ListingStays DEF Listings
  <2> QED
    BY <2>2, <2>3
<1> QED
  BY <1>1, <1>2 DEF Listings, Mount

LEMMA ListingsOpen ==
  ASSUME Listings, NEW path \in Path, NEW fd \in Fd, OpenDirectory(path, fd)
  PROVE  Listings'
<1>1. PICK dir \in dirs : dir = FindDirectory(path)
  <2>1. path \in Seq(Name) /\ Len(path) \in Nat
    BY VfsAssumption
  <2>2. Node(path, 0) = Root
    BY DEF Node, Root
  <2>3. Visited(path) \in SUBSET (0 .. Len(path)) /\ 0 \in Visited(path)
    BY <2>1, <2>2 DEF Visited, Listings, Tree
  <2>4. Max(Visited(path)) \in Visited(path)
    BY <2>1, <2>3, Greatest
  <2> QED
    BY <2>4 DEF FindDirectory, Visited
<1>2. PICK s : s = [dir |-> dir, pos |-> 0, first |-> Subdirs(dir), seen |-> {}]
  OBVIOUS
<1>3. /\ DOMAIN dir_streams' = DOMAIN dir_streams \cup {fd} /\ dir_streams'[fd] = s
      /\ \A f \in DOMAIN dir_streams : f # fd => dir_streams'[f] = dir_streams[f]
      /\ dirs' = dirs
  BY <1>1, <1>2 DEF OpenDirectory, With
<1>4. Subdirs(dir)' = Subdirs(dir)
  BY <1>3 DEF Subdirs
<1>5. IsListing(s)'
  <2>1. \A key : RankIn(Subdirs(dir), key) \in Nat
    BY SubdirsKeys, RankType DEF Listings
  <2>2. s \in [dir : dirs', pos : Nat, first : SUBSET Subdirs(dir), seen : SUBSET Seq(Name)]
    BY <1>2, <1>3
  <2>3. s.dir = dir /\ s.pos = 0
    BY <1>2
  <2> QED
    BY <1>4, <2>1, <2>2, <2>3 DEF IsListing
<1>6. ASSUME NEW f \in DOMAIN dir_streams, f # fd
      PROVE  IsListing(dir_streams[f])'
  BY <1>3, <1>6 DEF Listings, IsListing, Subdirs
<1>7. Tree'
  BY <1>3 DEF Listings, Tree
<1> QED
  BY <1>3, <1>5, <1>6, <1>7 DEF Listings

\* What is read is the one entry whose rank is the position.
LEMMA ListingsRead ==
  ASSUME Listings, NEW fd \in Fd, ReadDirectory(fd)
  PROVE  Listings'
<1>1. fd \in DOMAIN dir_streams /\ dirs' = dirs
  BY DEF ReadDirectory
<1>2. PICK s : s = dir_streams[fd]
  OBVIOUS
<1>3. IsListing(s)
  BY <1>1, <1>2 DEF Listings
<1>4. PICK K : K = Subdirs(s.dir)
  OBVIOUS
<1>5. IsFiniteSet(K) /\ K \in SUBSET Seq(Name)
  BY <1>4, SubdirsKeys DEF Listings
<1>6. /\ s \in [dir : dirs, pos : Nat, first : SUBSET K, seen : SUBSET Seq(Name)]
      /\ \A key \in s.first \ s.seen : RankIn(K, key) >= s.pos
  BY <1>3, <1>4 DEF IsListing
<1>7. PICK key \in K :
        /\ RankIn(K, key) = s.pos
        /\ dir_streams' = [dir_streams EXCEPT ![fd].pos = @ + 1, ![fd].seen = @ \cup {key}]
  BY <1>2, <1>4 DEF ReadDirectory, EntryAt, RankIn
<1>8. PICK t : t = [s EXCEPT !.pos = @ + 1, !.seen = @ \cup {key}]
  OBVIOUS
<1>9. /\ DOMAIN dir_streams' = DOMAIN dir_streams /\ dir_streams'[fd] = t
      /\ \A f \in DOMAIN dir_streams : f # fd => dir_streams'[f] = dir_streams[f]
  BY <1>1, <1>2, <1>6, <1>7, <1>8
<1>10. /\ t \in [dir : dirs, pos : Nat, first : SUBSET K, seen : SUBSET Seq(Name)]
       /\ t.dir = s.dir /\ t.pos = s.pos + 1 /\ t.first = s.first /\ t.seen = s.seen \cup {key}
       /\ s.pos \in Nat /\ s.first \subseteq K
  <2>1. /\ s.dir \in dirs /\ s.pos \in Nat /\ s.first \in SUBSET K /\ s.seen \in SUBSET Seq(Name)
        /\ s = [dir |-> s.dir, pos |-> s.pos, first |-> s.first, seen |-> s.seen]
    BY <1>6
  <2>2. key \in Seq(Name)
    BY <1>5
  <2>3. t = [dir |-> s.dir, pos |-> s.pos + 1, first |-> s.first, seen |-> s.seen \cup {key}]
    BY <1>8, <2>1
  <2> HIDE DEF IsListing
  <2> QED
    BY <2>1, <2>2, <2>3
<1>11. Subdirs(t.dir)' = K
  BY <1>1, <1>4, <1>10 DEF Subdirs
<1>12. \A k \in t.first \ t.seen : RankIn(K, k) >= t.pos
  <2> SUFFICES ASSUME NEW k \in s.first \ s.seen, k # key
               PROVE  RankIn(K, k) >= s.pos + 1
    BY <1>10
  <2>1. RankIn(K, k) \in Nat /\ RankIn(K, k) >= s.pos
    BY <1>5, <1>6, RankType
  <2>2. RankIn(K, k) # s.pos
    BY <1>5, <1>7, <1>10, RankUnique
  <2> QED
    BY <1>10, <2>1, <2>2
<1>13. IsListing(t)'
  BY <1>1, <1>10, <1>11, <1>12 DEF IsListing
<1>14. ASSUME NEW f \in DOMAIN dir_streams, f # fd
       PROVE  IsListing(dir_streams[f])'
  BY <1>1, <1>9, <1>14 DEF Listings, IsListing, Subdirs
<1>15. Tree'
  BY <1>1 DEF Listings, Tree
<1> QED
  BY <1>9, <1>13, <1>14, <1>15 DEF Listings

LEMMA ListingsHold == Spec => []Listings
<1>1. Init => Listings
  <2> SUFFICES ASSUME Init PROVE Listings
    OBVIOUS
  <2>1. dirs = {Root} /\ DOMAIN dir_streams = {}
    BY DEF Init
  <2>2. Root \in Seq(Seq(Name))
    BY DEF Root
  <2> QED
    BY <2>1, <2>2, FS_Singleton DEF Listings, Tree
<1>2. Listings /\ [Next]_vars => Listings'
  <2> SUFFICES ASSUME Listings, [Next]_vars PROVE Listings'
    OBVIOUS
  <2>1. ASSUME dirs' = dirs, DOMAIN dir_streams' \subseteq DOMAIN dir_streams,
               \A f \in DOMAIN dir_streams' : dir_streams'[f] = dir_streams[f]
        PROVE  Listings'
    BY <2>1 DEF Listings, Tree, IsListing, Subdirs
  <2>2. ASSUME NEW path \in Path, Unmount(path) PROVE Listings'
    BY <2>1, <2>2 DEF Unmount
  <2>3. ASSUME NEW path \in Path, NEW fd \in Fd, OpenFile(path, fd) PROVE Listings'
    BY <2>1, <2>3 DEF OpenFile
  <2>4. ASSUME NEW fd \in Fd, Close(fd) PROVE Listings'
    BY <2>1, <2>4 DEF Close, Without
  <2>5. CASE UNCHANGED vars
    BY <2>1, <2>5 DEF vars
  <2> QED
    BY <2>2, <2>3, <2>4, <2>5, ListingsMount, ListingsOpen, ListingsRead DEF Next
<1> QED
  BY <1>1, <1>2, PTL DEF Spec

\* Whoever lists a directory of fs to its end has seen every directory that
\* was there when it was opened, though positions count from the front, and
\* directories made meanwhile, which come in anywhere, move entries on.
THEOREM ListingsComplete == Spec => []NothingMissed
<1>1. Listings => NothingMissed
  <2> SUFFICES ASSUME Listings, NEW fd \in DOMAIN dir_streams,
                      dir_streams[fd].dir \notin DOMAIN mnt,
                      EntryAt(dir_streams[fd].dir, dir_streams[fd].pos) = {},
                      NEW key \in dir_streams[fd].first, key \notin dir_streams[fd].seen
               PROVE  FALSE
    BY DEF NothingMissed
  <2>1. PICK s : s = dir_streams[fd]
    OBVIOUS
  <2>2. PICK K : K = Subdirs(s.dir)
    OBVIOUS
  <2>3. IsFiniteSet(K) /\ K \in SUBSET Seq(Name)
    BY <2>2, SubdirsKeys DEF Listings
  <2>4. s.pos \in Nat /\ key \in K /\ RankIn(K, key) >= s.pos
    BY <2>1, <2>2 DEF Listings, IsListing
  <2>5. \A k \in K : RankIn(K, k) # s.pos
    BY <2>1, <2>2 DEF EntryAt, RankIn
  <2> QED
    BY <2>3, <2>4, <2>5, RanksFill
<1> QED
  BY <1>1, ListingsHold, PTL
=============================================================================
