-------------------------------- MODULE Ramfs --------------------------------
(***************************************************************************)
(* The file system in memory (ramfs): its tree, the contents of its files  *)
(* and the streams that are open on them; and a client that reads a file   *)
(* from end to end while others go on, as apm does to load a program.      *)
(*                                                                         *)
(* Names have one character.  A close is not a step: ramfs looks for the   *)
(* descriptor in the wrong slot of the message and refuses, whatever it is *)
(* asked to close.  Streams stay, and when a file is removed those on it   *)
(* refer to nothing; what comes of using one is not defined, and the model *)
(* ends there.                                                             *)
(***************************************************************************)
EXTENDS Integers, Sequences, FiniteSets, SequencesExt

CONSTANTS
  Name, Path,  \* names and paths in requests, without the leading slash
  Obj,         \* files that can exist at a time
  Fd,          \* ids of descriptors
  Nobody,
  Boot,        \* what the file of the boot archive may contain
  BootName,    \* and its name
  MaxSize,     \* bound on the size of files
  Lengths,     \* lengths of reads and writes by clients
  Offsets,     \* offsets of seeks
  Chunk        \* what the loader reads at a time, 0x1000 bytes

ASSUME RamfsAssumption ==
  /\ Path \subseteq Seq(Name) /\ BootName \in Name
  /\ Lengths \subseteq Nat \ {0} /\ Offsets \subseteq Int
  /\ Chunk \in Nat \ {0} /\ MaxSize \in Nat /\ Boot \subseteq Seq(Nat)

VARIABLES
  dirs,         \* directories: sequences of the keys that lead to them
  files,        \* <<directory, key>> -> file
  data,         \* file -> its bytes
  file_streams, \* descriptor -> file and position
  dir_streams,  \* descriptor -> directory and position
  dangling,     \* descriptors whose file or directory is gone
  broken,       \* something undefined was done
  loader,       \* apm, reading a program
  made          \* history: path of a file that clients know of -> file

tree    == <<dirs, files>>
streams == <<file_streams, dir_streams, dangling>>
vars    == <<tree, data, streams, broken, loader, made>>

Root  == <<>>
Zeros(n) == [i \in 1 .. n |-> 0]
Without(f, xs)  == [y \in DOMAIN f \ xs |-> f[y]]
With(f, x, v)   == [y \in DOMAIN f \cup {x} |-> IF y = x THEN v ELSE f[y]]

-----------------------------------------------------------------------------
(* The tree.                                                               *)

Node(path) == [i \in 1 .. Len(path) |-> <<path[i]>>]

HasDirectory(path) == \A n \in 0 .. Len(path) : SubSeq(Node(path), 1, n) \in dirs

\* find_file: the place of the file, if there is one.
FindFile(path) ==
  {place \in DOMAIN files : /\ path # Root /\ HasDirectory(Front(path))
                            /\ place = <<Node(Front(path)), <<Last(path)>>>>}

\* The key of the n-th directory that create_directories makes: the position
\* of the next slash is taken for a length.
Dirname(path, n) ==
  IF n = Len(path) THEN <<path[n]>> ELSE SubSeq(path, n, Min({2 * n - 1, Len(path)}))

Created(path) == [i \in 1 .. Len(path) |-> Dirname(path, i)]

\* How far create_directories gets: a file of the same name is in its way.
CreatedTo(path) ==
  LET taken == {n \in 1 .. Len(path) : <<SubSeq(Created(path), 1, n - 1), Dirname(path, n)>> \in DOMAIN files}
  IN  IF taken = {} THEN Len(path) ELSE Min(taken) - 1

\* create_directories; what it has made stays when it stops on the way.
CreateDirectories(path) ==
  dirs \cup {SubSeq(Created(path), 1, n) : n \in 1 .. CreatedTo(path)}

\* create_file of a file that is not there.  Only a file is in its way, not a
\* directory of the same name.
CreateFile(path, file) ==
  LET place == <<Created(Front(path)), <<Last(path)>>>> IN
  /\ path # Root
  /\ dirs' = CreateDirectories(Front(path))
  /\ CreatedTo(Front(path)) = Len(Front(path)) /\ place \notin DOMAIN files
  /\ file \notin DOMAIN data
  /\ files' = With(files, place, file)
  /\ data' = With(data, file, <<>>)
  /\ made' = With(made, path, file)

\* create_file or create_directories that fails, having made directories.
CreateFails(path) ==
  /\ dirs' = CreateDirectories(path) /\ dirs' # dirs
  /\ CreatedTo(path) < Len(path)
  /\ UNCHANGED <<files, data, made>>

Create(path) ==
  /\ \/ \E file \in Obj : CreateFile(path, file)
     \/ path # Root /\ CreateFails(Front(path))
     \/ CreateFails(path)
     \/ /\ CreatedTo(path) = Len(path)
        /\ dirs' = CreateDirectories(path) /\ dirs' # dirs
        /\ UNCHANGED <<files, data, made>>
  /\ UNCHANGED <<streams, broken, loader>>

\* Mutant: a file of the same name goes with the directory.
BugRemovedBoth(path) == {place \in DOMAIN files : IsPrefix(Node(path), place[1])} \cup FindFile(path)

\* The files in a directory and all below it.
Removed(path) == {place \in DOMAIN files : IsPrefix(Node(path), place[1])}

Forget(places, paths) ==
  /\ files' = Without(files, places)
  /\ LET gone == {files[p] : p \in places} IN
       /\ data' = Without(data, gone)
       /\ dangling' = dangling \cup {fd \in DOMAIN file_streams : file_streams[fd].file \in gone}
                               \cup {fd \in DOMAIN dir_streams : dir_streams[fd].dir \notin dirs'}
       /\ made' = Without(made, paths)
       /\ loader' = IF loader.file \in gone THEN [loader EXCEPT !.quiet = FALSE] ELSE loader

\* directory::remove: a directory with all it contains, else a file.
RemovePath(path) ==
  /\ path # Root /\ HasDirectory(Front(path))
  /\ \/ /\ HasDirectory(path)
        /\ dirs' = {d \in dirs : ~IsPrefix(Node(path), d)}
        /\ Forget(Removed(path), {p \in DOMAIN made : IsStrictPrefix(path, p)})
     \/ /\ ~HasDirectory(path) /\ FindFile(path) # {}
        /\ dirs' = dirs
        /\ Forget(FindFile(path), {path})
  /\ UNCHANGED <<file_streams, dir_streams, broken>>

-----------------------------------------------------------------------------
(* Streams.                                                                *)

Fresh(fd) == fd \notin DOMAIN file_streams \cup DOMAIN dir_streams

\* open: the file of the path, or else a new one.
OpenFile(path, fd) ==
  /\ Fresh(fd)
  /\ \/ \E place \in FindFile(path) :
          /\ file_streams' = With(file_streams, fd, [file |-> files[place], pos |-> 0])
          /\ UNCHANGED <<tree, data, made>>
     \/ /\ FindFile(path) = {} /\ ~HasDirectory(path)
        /\ \E file \in Obj :
             /\ CreateFile(path, file)
             /\ file_streams' = With(file_streams, fd, [file |-> file, pos |-> 0])
  /\ UNCHANGED <<dir_streams, dangling, broken>>

OpenDirectory(path, fd) ==
  /\ Fresh(fd) /\ FindFile(path) = {} /\ HasDirectory(path)
  /\ dir_streams' = With(dir_streams, fd, [dir |-> Node(path), pos |-> 0])
  /\ UNCHANGED <<tree, data, file_streams, dangling, broken, loader, made>>

\* open of a path that can not be created.
OpenFails(path) ==
  /\ path # Root /\ FindFile(path) = {} /\ ~HasDirectory(path)
  /\ CreateFails(Front(path))
  /\ UNCHANGED <<streams, broken, loader>>

\* Descriptors that clients use; the loader has its own.
Usable == (DOMAIN file_streams \cup DOMAIN dir_streams) \ {loader.fd}

\* file::read: what is there from the position on.
Available(fd, len) ==
  LET s == file_streams[fd]  bytes == data[s.file] IN
  IF s.pos < 0 \/ s.pos >= Len(bytes) THEN <<>>
  ELSE SubSeq(bytes, s.pos + 1, Min({s.pos + len, Len(bytes)}))

Read(fd, len) ==
  /\ fd \in DOMAIN file_streams \ dangling
  /\ file_streams' = [file_streams EXCEPT ![fd].pos = @ + Len(Available(fd, len))]

ReadDirectory(fd) ==
  LET s == dir_streams[fd] IN
  /\ fd \in DOMAIN dir_streams \ dangling
  /\ s.pos < Cardinality({d \in dirs \ {Root} : Front(d) = s.dir})
             + Cardinality({place \in DOMAIN files : place[1] = s.dir})
  /\ dir_streams' = [dir_streams EXCEPT ![fd].pos = @ + 1]

\* Mutant: the file always ends behind what is written.
BugResized(bytes, pos, len) ==
  SubSeq(bytes, 1, Min({pos + len, Len(bytes)})) \o Zeros(pos + len - Len(bytes))

\* file::write makes room; what is between the old end and the position is 0.
Resized(bytes, pos, len) ==
  IF pos + len >= Len(bytes) THEN bytes \o Zeros(pos + len - Len(bytes)) ELSE bytes

\* A write before the start of a file resizes it to a length that wraps
\* around and copies to memory that is not the file's.
Write(fd, len) ==
  LET s == file_streams[fd] IN
  /\ fd \in DOMAIN file_streams \ dangling
  /\ s.pos + len <= MaxSize
  /\ IF s.pos < 0
     THEN broken' = TRUE /\ UNCHANGED <<data, file_streams, loader>>
     ELSE /\ data' = [data EXCEPT ![s.file] =
                       [i \in 1 .. Len(Resized(@, s.pos, len)) |->
                          IF i \in s.pos + 1 .. s.pos + len THEN 1
                          ELSE Resized(@, s.pos, len)[i]]]
          /\ file_streams' = [file_streams EXCEPT ![fd].pos = @ + len]
          /\ loader' = IF loader.file = s.file THEN [loader EXCEPT !.quiet = FALSE] ELSE loader
          /\ UNCHANGED broken

\* seek.  A new position of 0 is reported as a failure all the same.
Seek(fd, off, whence) ==
  LET s   == file_streams[fd]
      pos == CASE whence = "set" -> off
               [] whence = "cur" -> s.pos + off
               [] whence = "end" -> Len(data[s.file]) + off
  IN
  /\ fd \in DOMAIN file_streams \ dangling
  /\ pos \in -MaxSize .. MaxSize
  /\ file_streams' = [file_streams EXCEPT ![fd].pos = pos]

\* Any use of a stream on what is gone.
UseDangling(fd) == fd \in dangling /\ broken' = TRUE

-----------------------------------------------------------------------------
(* apm reads a program: from its start until less comes than it asked for. *)

LoadStart(path, fd) ==
  /\ loader.pc = "idle"
  /\ OpenFile(path, fd)
  /\ loader' = [pc |-> "reading", fd |-> fd, file |-> file_streams'[fd].file,
                got |-> <<>>, quiet |-> TRUE]

\* Mutant: a whole chunk is taken for the last.
BugLastChunk(chunk) == chunk = <<>> \/ Len(chunk) = Chunk

LastChunk(chunk) == Len(chunk) < Chunk

LoadChunk ==
  LET chunk == Available(loader.fd, Chunk) IN
  /\ loader.pc = "reading" /\ Read(loader.fd, Chunk)
  /\ loader' = [loader EXCEPT !.got = @ \o chunk,
                              !.pc  = IF LastChunk(chunk) THEN "done" ELSE @]
  /\ UNCHANGED <<tree, data, dir_streams, dangling, broken, made>>

Idle == [pc |-> "idle", fd |-> Nobody, file |-> Nobody, got |-> <<>>, quiet |-> FALSE]

Init ==
  /\ dirs = {Root}
  /\ \E file \in Obj, bytes \in Boot :
       /\ files = With(<<>>, <<Root, <<BootName>>>>, file)
       /\ data = With(<<>>, file, bytes)
       /\ made = With(<<>>, <<BootName>>, file)
  /\ file_streams = <<>> /\ dir_streams = <<>> /\ dangling = {}
  /\ broken = FALSE
  /\ loader = Idle

Use(fd) ==
  \/ /\ \E len \in Lengths : Read(fd, len)
     /\ UNCHANGED <<tree, data, dir_streams, dangling, broken, loader, made>>
  \/ ReadDirectory(fd) /\ UNCHANGED <<tree, data, file_streams, dangling, broken, loader, made>>
  \/ \E len \in Lengths : Write(fd, len) /\ UNCHANGED <<tree, dir_streams, dangling, made>>
  \/ /\ \E off \in Offsets, whence \in {"set", "cur", "end"} : Seek(fd, off, whence)
     /\ UNCHANGED <<tree, data, dir_streams, dangling, broken, loader, made>>
  \/ UseDangling(fd) /\ UNCHANGED <<tree, data, streams, loader, made>>

Next ==
  /\ ~broken
  /\ \/ \E path \in Path :
          \/ Create(path) \/ RemovePath(path) \/ OpenFails(path)
          \/ \E fd \in Fd : \/ OpenFile(path, fd) /\ UNCHANGED loader
                            \/ OpenDirectory(path, fd)
                            \/ LoadStart(path, fd)
     \/ \E fd \in Usable : Use(fd)
     \/ LoadChunk

Spec == Init /\ [][Next]_vars

-----------------------------------------------------------------------------

\* A file that was created, by itself or by opening it, is found again by its
\* path, and is the same file: whatever is created or removed around it.
\* Longer paths than these get directories of other names (see Dirname).
FoundAgain ==
  \A path \in DOMAIN made : Len(path) <= 3 =>
    \E place \in FindFile(path) : files[place] = made[path]

\* A write through one stream changes nothing of a file but the bytes it
\* writes, loses none behind them, and leaves zeros before them: streams on
\* the same file do not undo each other's writes.
WritesStayInside ==
  [][\A file \in DOMAIN data \cap DOMAIN data' : data'[file] # data[file] =>
       \E fd \in DOMAIN file_streams :
         LET from == file_streams[fd].pos  to == file_streams'[fd].pos IN
         /\ file_streams[fd].file = file /\ from < to
         /\ Len(data[file]) <= Len(data'[file])
         /\ \A i \in 1 .. Len(data'[file]) \ (from + 1 .. to) :
              data'[file][i] = IF i <= Len(data[file]) THEN data[file][i] ELSE 0]_vars

\* A program is loaded whole and once, whatever its size, if nobody writes or
\* removes it meanwhile: what others do to other files, through other streams
\* and to its directory does not matter.
LoadedWhole ==
  loader.pc = "done" /\ loader.quiet => loader.got = data[loader.file]
==============================================================================
