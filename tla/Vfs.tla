--------------------------------- MODULE Vfs ---------------------------------
(***************************************************************************)
(* The virtual file system (fs): the tree of directories, the file systems *)
(* mounted in it, and the descriptors it has handed out, those of mounted  *)
(* file systems and those of its own directories.                          *)
(*                                                                         *)
(* A path is a sequence of names, each of one character.  fs serves one    *)
(* request at a time, so a request is one action; a request that changes   *)
(* nothing is not a step, and what fs would do for it is an operator.      *)
(***************************************************************************)
EXTENDS Integers, Sequences, FiniteSets, SequencesExt

CONSTANTS
  Name,   \* names, which are characters: numbers, as std::map orders them
  Path,   \* the paths in requests, without the leading slash
  Ep,     \* endpoints of file systems
  Id,     \* handles of id caps in fs; those of destroyed ids are used again
  Fd,     \* ids of descriptors, never used again
  Nobody

ASSUME VfsAssumption ==
  /\ Name \subseteq Nat /\ Path \subseteq Seq(Name)
  /\ Nobody \notin Ep \cup Id

VARIABLES
  dirs,         \* the directories: sequences of the keys that lead to them
  type_mnt,     \* those of type mount_point
  mnt,          \* directory -> its mount point, if it has one
  fs_mount_point_table, \* id -> the directory of the mount point
  fd_fs_table,  \* descriptor -> id of its file system
  dir_streams,  \* descriptor -> directory and position; history: seen
  origin,       \* history: descriptor -> where it is from
  mounts        \* history: path mounted by a client -> file system, or
                \* Nobody after it was unmounted

vars == <<dirs, type_mnt, mnt, fs_mount_point_table, fd_fs_table, dir_streams, origin, mounts>>

Root == <<>>
Without(f, x) == [y \in DOMAIN f \ {x} |-> f[y]]
With(f, x, v) == [y \in DOMAIN f \cup {x} |-> IF y = x THEN v ELSE f[y]]

-----------------------------------------------------------------------------
(* Directories.                                                            *)

\* The directory that the first n names of a path lead to by lookups.
Node(path, n) == [i \in 1 .. n |-> <<path[i]>>]

\* How far a lookup follows a path.
Visited(path) == {n \in 0 .. Len(path) : Node(path, n) \in dirs}

\* find_directory: the directory of a path, or the last one on the way.
FindDirectory(path) == Node(path, Max(Visited(path)))

\* Mutant: the mount point nearest to the root.
BugFindMountPoint(path) ==
  LET found == {n \in Visited(path) : Node(path, n) \in IF path = <<>> THEN DOMAIN mnt ELSE type_mnt}
  IN  IF found = {} THEN -1 ELSE Min(found)

\* find_mount_point: how many names lead to the last mount point on the way,
\* -1 without any.  What counts is the type, save for the root itself.
FindMountPoint(path) ==
  LET found == {n \in Visited(path) : Node(path, n) \in IF path = <<>> THEN DOMAIN mnt ELSE type_mnt}
  IN  IF found = {} THEN -1 ELSE Max(found)

\* is_mounted.  A directory that has lost its mount point keeps its type; what
\* was the mount point is read all the same and says that it is not mounted.
IsMounted(path) ==
  FindMountPoint(path) = Len(path) /\ Node(path, Len(path)) \in DOMAIN mnt

\* The file system that a request for a path is passed on to.
PassedTo(path) ==
  LET n == FindMountPoint(path) IN
  IF n >= 0 /\ Node(path, n) \in DOMAIN mnt THEN mnt[Node(path, n)].ep ELSE Nobody

\* The key of the n-th directory that create_directories makes: it takes the
\* position of the next slash in the path for the length of the name.
Dirname(path, n) ==
  IF n = Len(path) THEN <<path[n]>> ELSE SubSeq(path, n, Min({2 * n - 1, Len(path)}))

Created(path) == [i \in 1 .. Len(path) |-> Dirname(path, i)]

CreateDirectories(path) ==
  dirs \cup {SubSeq(Created(path), 1, n) : n \in 1 .. Len(path)}

\* Keys in the order of std::map; the slash comes before all names.
Before(s, t) ==
  \/ IsStrictPrefix(s, t)
  \/ \E n \in 1 .. Min({Len(s), Len(t)}) :
       s[n] < t[n] /\ \A i \in 1 .. n - 1 : s[i] = t[i]

Subdirs(dir) == {key \in {Last(d) : d \in dirs \ {Root}} : Append(dir, key) \in dirs}

\* Mutant: the last entry counts as the end.
BugEntryAt(dir, pos) ==
  {key \in Subdirs(dir) : dir \notin DOMAIN mnt /\ pos + 1 < Cardinality(Subdirs(dir))
                          /\ Cardinality({k \in Subdirs(dir) : Before(k, key)}) = pos}

\* directory::read of the entry at a position.
EntryAt(dir, pos) ==
  {key \in Subdirs(dir) : dir \notin DOMAIN mnt
                          /\ Cardinality({k \in Subdirs(dir) : Before(k, key)}) = pos}

-----------------------------------------------------------------------------
(* Mounting.                                                               *)

MountHere(path, ep, id) ==
  LET dir == Created(path) IN
  /\ mnt' = With(mnt, dir, [id |-> id, ep |-> ep])
  /\ type_mnt' = type_mnt \cup {dir}
  /\ fs_mount_point_table' = IF id \in DOMAIN fs_mount_point_table
                             THEN fs_mount_point_table
                             ELSE With(fs_mount_point_table, id, dir)
  /\ mounts' = With(mounts, path, ep)

\* mount.  Without an id the directories stay that were made for it.
Mount(path, ep) ==
  /\ dirs' = CreateDirectories(path)
  /\ \/ /\ Created(path) \notin DOMAIN mnt
        /\ \E id \in Id \ {mnt[d].id : d \in DOMAIN mnt} : MountHere(path, ep, id)
     \/ /\ dirs' # dirs
        /\ UNCHANGED <<type_mnt, mnt, fs_mount_point_table, mounts>>
  /\ UNCHANGED <<fd_fs_table, dir_streams, origin>>

\* What is recorded of a descriptor: it was not created yet, its file system
\* was unmounted, it is of a directory of fs, or of what is mounted at a path.
Fresh == <<"fresh", Root>>
Gone  == <<"gone", Root>>
OfFs  == <<"fs", Root>>
FromMount(path) == <<"mount", path>>

\* Mutant: the table keeps the reference to the mount point that goes.
BugForgotten(dir) == fs_mount_point_table

\* Mutant: all mounts of the same server are taken out.
BugForgottenAll(dir) ==
  LET of == {id \in DOMAIN fs_mount_point_table :
               mnt[fs_mount_point_table[id]].ep = mnt[dir].ep}
  IN  [id \in DOMAIN fs_mount_point_table \ of |-> fs_mount_point_table[id]]

Forgotten(dir) == Without(fs_mount_point_table, mnt[dir].id)

\* unmount.  The directory keeps its type, and descriptors their entries.
Unmount(path) ==
  LET dir == Node(path, Len(path)) IN
  /\ IsMounted(path)
  /\ fs_mount_point_table' = Forgotten(dir)
  /\ mnt' = Without(mnt, dir)
  /\ mounts' = With(mounts, path, Nobody)
  /\ origin' = [fd \in Fd |-> IF origin[fd] = FromMount(path) THEN Gone ELSE origin[fd]]
  /\ UNCHANGED <<dirs, type_mnt, fd_fs_table, dir_streams>>

-----------------------------------------------------------------------------
(* Descriptors.                                                            *)

\* open of a path in a mounted file system, which creates a descriptor; it
\* may as well refuse.
OpenFile(path, fd) ==
  LET dir == Node(path, FindMountPoint(path)) IN
  /\ origin[fd] = Fresh /\ PassedTo(path) # Nobody
  /\ fd_fs_table' = With(fd_fs_table, fd, mnt[dir].id)
  /\ origin' = [origin EXCEPT ![fd] = FromMount(SubSeq(path, 1, FindMountPoint(path)))]
  /\ UNCHANGED <<dirs, type_mnt, mnt, fs_mount_point_table, dir_streams, mounts>>

\* open of a path that passes no mount point: a directory of fs.
OpenDirectory(path, fd) ==
  LET dir == FindDirectory(path) IN
  /\ origin[fd] = Fresh /\ FindMountPoint(path) = -1
  /\ dir_streams' = With(dir_streams, fd,
                         [dir |-> dir, pos |-> 0, first |-> Subdirs(dir), seen |-> {}])
  /\ origin' = [origin EXCEPT ![fd] = OfFs]
  /\ UNCHANGED <<dirs, type_mnt, mnt, fs_mount_point_table, fd_fs_table, mounts>>

\* mount_point::find_mount_point: the mount point of a descriptor, to which
\* read, write, seek, tell and close are passed on.
HomeOf(fd) ==
  {dir \in DOMAIN mnt : /\ fd \in DOMAIN fd_fs_table
                        /\ fd_fs_table[fd] \in DOMAIN fs_mount_point_table
                        /\ fs_mount_point_table[fd_fs_table[fd]] = dir}

\* close.  The file system that is asked may refuse, and the entry stays.
Close(fd) ==
  /\ \/ fd \in DOMAIN dir_streams /\ dir_streams' = Without(dir_streams, fd) /\ UNCHANGED fd_fs_table
     \/ /\ fd \notin DOMAIN dir_streams /\ HomeOf(fd) # {}
        /\ fd_fs_table' = Without(fd_fs_table, fd) /\ UNCHANGED dir_streams
  /\ UNCHANGED <<dirs, type_mnt, mnt, fs_mount_point_table, origin, mounts>>

\* read of a descriptor of a directory of fs.
ReadDirectory(fd) ==
  /\ fd \in DOMAIN dir_streams
  /\ \E key \in EntryAt(dir_streams[fd].dir, dir_streams[fd].pos) :
       dir_streams' = [dir_streams EXCEPT ![fd].pos = @ + 1,
                                          ![fd].seen = @ \cup {key}]
  /\ UNCHANGED <<dirs, type_mnt, mnt, fs_mount_point_table, fd_fs_table, origin, mounts>>

Init ==
  /\ dirs = {Root}
  /\ type_mnt = {} /\ mnt = <<>> /\ fs_mount_point_table = <<>>
  /\ fd_fs_table = <<>> /\ dir_streams = <<>>
  /\ origin = [fd \in Fd |-> Fresh]
  /\ mounts = <<>>

Next ==
  \/ \E path \in Path, ep \in Ep : Mount(path, ep)
  \/ \E path \in Path : Unmount(path)
  \/ \E path \in Path, fd \in Fd : OpenFile(path, fd) \/ OpenDirectory(path, fd)
  \/ \E fd \in Fd : Close(fd) \/ ReadDirectory(fd)

Spec == Init /\ [][Next]_vars

-----------------------------------------------------------------------------

\* The references in fs_mount_point_table are to mount points that exist, and
\* every mount point is found there by its id, however often ids are used
\* again for other mounts: emplace would leave an old entry in place.
NoDanglingMount ==
  /\ \A id \in DOMAIN fs_mount_point_table :
       LET dir == fs_mount_point_table[id] IN dir \in DOMAIN mnt /\ mnt[dir].id = id
  /\ \A dir \in DOMAIN mnt : mnt[dir].id \in DOMAIN fs_mount_point_table

\* The paths clients have mounted or unmounted that a lookup can find: longer
\* ones get directories of other names (see Dirname).
Findable == {path \in DOMAIN mounts : Len(path) <= 2}

\* A request for a path is passed on to the file system that a client mounted
\* nearest to it; a path that was unmounted stays in the way of those around
\* it until it is mounted again, and is passed on to nobody.
NearestMount ==
  \A path \in Path :
    LET on == {q \in Findable : IsPrefix(q, path)} IN
    PassedTo(path) = IF on = {} THEN Nobody
                     ELSE mounts[CHOOSE q \in on : \A r \in on : Len(r) <= Len(q)]

\* Calls on a descriptor reach the file system that created it, as long as it
\* stays mounted, and no other, whatever else comes and goes: mounts of the
\* same server in other places, and mounts that got ids of earlier ones.
HomeReached ==
  \A fd \in DOMAIN fd_fs_table :
    origin[fd] # Gone =>
      HomeOf(fd) = {Node(origin[fd][2], Len(origin[fd][2]))}

\* A listing read to its end has every directory that was there when it was
\* opened, though others may be made while it is read.
NothingMissed ==
  \A fd \in DOMAIN dir_streams :
    LET s == dir_streams[fd] IN
    s.dir \notin DOMAIN mnt /\ EntryAt(s.dir, s.pos) = {} => s.first \subseteq s.seen
==============================================================================
