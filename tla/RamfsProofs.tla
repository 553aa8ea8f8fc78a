------------------------------ MODULE RamfsProofs ------------------------------
(* What is proved of ramfs and of the loader that reads from it, for any     *)
(* paths, files of any length and any sequence of requests: files are found  *)
(* where they were made, streams do not undo each other's writes, and a      *)
(* program is read whole.                                                    *)
EXTENDS Ramfs, SequenceTheorems, TLAPS

-----------------------------------------------------------------------------
(* The invariant.                                                            *)

\* Every file that is in the tree has its bytes, and has one place.
Contents ==
  /\ data \in [DOMAIN data -> Seq(Nat)] /\ DOMAIN data \subseteq Obj
  /\ \A place \in DOMAIN files : files[place] \in DOMAIN data
  /\ \A p, q \in DOMAIN files : files[p] = files[q] => p = q

\* A stream is on a file that is there, unless it is known to dangle.
Streams ==
  /\ file_streams \in [DOMAIN file_streams -> [file : Obj, pos : Int]]
  /\ \A fd \in DOMAIN file_streams \ dangling : file_streams[fd].file \in DOMAIN data

\* What the loader has read is what the file begins with, up to where its
\* stream is, as long as nobody has touched the file.
Loading ==
  /\ loader \in [pc : {"idle", "reading", "done"}, fd : Fd \cup {Nobody},
                 file : Obj \cup {Nobody}, got : Seq(Nat), quiet : BOOLEAN]
  /\ loader.quiet =>
       /\ loader.pc # "idle" /\ loader.file \in DOMAIN data
       /\ loader.fd \in DOMAIN file_streams
       /\ file_streams[loader.fd] = [file |-> loader.file, pos |-> Len(loader.got)]
       /\ Len(loader.got) <= Len(data[loader.file])
       /\ loader.got = SubSeq(data[loader.file], 1, Len(loader.got))
       /\ loader.pc = "done" => Len(loader.got) = Len(data[loader.file])

\* Where a file is that was created as path.
Place(path) == <<Node(Front(path)), <<Last(path)>>>>

IsAt(path) ==
  /\ HasDirectory(Front(path)) /\ Place(path) \in DOMAIN files
  /\ files[Place(path)] = made[path]

\* A file is at its path; the directories of longer paths have other names.
Found ==
  /\ Root \in dirs
  /\ DOMAIN made \subseteq Seq(Name) \ {Root}
  /\ \A path \in DOMAIN made : Len(path) <= 3 => IsAt(path)

IInv == Contents /\ Streams /\ Loading /\ Found

-----------------------------------------------------------------------------
(* Paths, and where their files are.                                         *)

\* p is what s has behind place m, up to place n.
IsPart(T, p, s, m, n) ==
  p \in Seq(T) /\ Len(p) = n - m /\ \A i \in 1 .. n - m : p[i] = s[m + i]

\* p is what s begins with, up to place n.
IsStart(T, p, s, n) == p \in Seq(T) /\ Len(p) = n /\ \A i \in 1 .. n : p[i] = s[i]

LEMMA Parted ==
  ASSUME NEW T, NEW s \in Seq(T), NEW m \in Nat, NEW n \in Nat, m <= n, n <= Len(s)
  PROVE  IsPart(T, SubSeq(s, m + 1, n), s, m, n)
  BY DEF IsPart

LEMMA Begun ==
  ASSUME NEW T, NEW s \in Seq(T), NEW n \in Nat, n <= Len(s)
  PROVE  IsStart(T, SubSeq(s, 1, n), s, n)
<1>1. PICK p : p = SubSeq(s, 1, n)
  OBVIOUS
<1>2. IsPart(T, SubSeq(s, 0 + 1, n), s, 0, n) /\ 0 + 1 = 1
  BY Parted
<1>3. IsPart(T, p, s, 0, n)
  BY <1>1, <1>2, Zenon
<1>4. IsStart(T, p, s, n)
  BY <1>3 DEF IsPart, IsStart
<1> QED
  BY <1>1, <1>4

\* A path is its directory and a name.
LEMMA PathParts ==
  ASSUME NEW path \in Seq(Name), path # Root
  PROVE  /\ Len(path) \in Nat \ {0}
         /\ Front(path) \in Seq(Name) /\ Len(Front(path)) = Len(path) - 1
         /\ \A i \in 1 .. Len(path) - 1 : Front(path)[i] = path[i]
         /\ Last(path) = path[Len(path)]
<1>1. Len(path) \in Nat \ {0}
  BY EmptySeq DEF Root
<1>2. PICK m \in 0 .. Len(path) : m = Len(path) - 1
  <2>1. PICK n \in Nat \ {0} : n = Len(path)
    BY <1>1
  <2>2. n - 1 \in 0 .. n
    OBVIOUS
  <2> QED
    BY <2>1, <2>2
<1>3. IsStart(Name, SubSeq(path, 1, m), path, m)
  BY <1>1, Begun
<1>4. IsStart(Name, Front(path), path, m)
  BY <1>2, <1>3, Zenon DEF Front
<1>5. Last(path) = path[Len(path)]
  BY DEF Last
<1> QED
  BY <1>1, <1>2, <1>4, <1>5 DEF IsStart

LEMMA NodeIs ==
  ASSUME NEW path \in Seq(Name)
  PROVE  /\ Node(path) \in Seq(Seq(Name)) /\ Len(Node(path)) = Len(path)
         /\ \A i \in 1 .. Len(path) : Node(path)[i] = <<path[i]>>
<1>1. \A i \in 1 .. Len(path) : <<path[i]>> \in Seq(Name)
  OBVIOUS
<1>2. Len(path) \in Nat
  OBVIOUS
<1> QED
  BY <1>1, <1>2 DEF Node

\* Below the place of q lies p only if its path does.
LEMMA NodePrefix ==
  ASSUME NEW p \in Seq(Name), NEW q \in Seq(Name), NEW n \in 0 .. Len(q),
         IsPrefix(Node(p), SubSeq(Node(q), 1, n))
  PROVE  IsPrefix(p, q) /\ Len(p) <= n
<1>1. PICK a \in Seq(Seq(Name)) : a = Node(p) /\ Len(a) = Len(p)
                                 /\ \A i \in 1 .. Len(p) : a[i] = <<p[i]>>
  BY NodeIs
<1>2. PICK b \in Seq(Seq(Name)) : b = Node(q) /\ Len(b) = Len(q)
                                 /\ \A i \in 1 .. Len(q) : b[i] = <<q[i]>>
  BY NodeIs
<1>0. n \in Nat /\ n <= Len(b)
  BY <1>2
<1>9. PICK c : c = SubSeq(b, 1, n)
  OBVIOUS
<1>10. IsStart(Seq(Name), c, b, n)
  BY <1>0, <1>9, Begun
<1>3. c \in Seq(Seq(Name)) /\ Len(c) = n /\ \A i \in 1 .. n : c[i] = b[i]
  BY <1>10 DEF IsStart
<1>4. IsPrefix(a, c)
  BY <1>1, <1>2, <1>9, Zenon
<1>5. Len(p) \in Nat /\ Len(q) \in Nat /\ Len(p) <= n
  BY <1>1, <1>3, <1>4 DEF IsPrefix
<1>6. \A i \in 1 .. Len(p) : a[i] = c[i]
  <2>1. SubSeq(a, 1, Len(a)) = SubSeq(c, 1, Len(a))
    BY <1>4 DEF IsPrefix
  <2>2. Len(a) \in 0 .. Len(a) /\ Len(a) \in 0 .. Len(c)
    BY <1>1, <1>3, <1>5
  <2>3. \A i \in 1 .. Len(a) : SubSeq(a, 1, Len(a))[i] = a[i] /\ SubSeq(c, 1, Len(a))[i] = c[i]
    BY <2>2
  <2> QED
    BY <1>1, <2>1, <2>3
<1>7. \A i \in 1 .. Len(p) : p[i] = q[i]
  <2> TAKE i \in 1 .. Len(p)
  <2>2. i \in 1 .. n /\ i \in 1 .. Len(q)
    BY <1>5
  <2>3. a[i] = <<p[i]>> /\ b[i] = <<q[i]>> /\ c[i] = b[i] /\ a[i] = c[i]
    BY <1>1, <1>2, <1>3, <1>6, <2>2, Zenon
  <2>1. <<p[i]>> = <<q[i]>>
    BY <2>3, Zenon
  <2> QED
    BY <2>1
<1>8. SubSeq(p, 1, Len(p)) = SubSeq(q, 1, Len(p))
  BY <1>5, <1>7
<1> QED
  BY <1>5, <1>8 DEF IsPrefix

\* What the directory of a path lies below, the path lies strictly below.
LEMMA StrictlyBelow ==
  ASSUME NEW p \in Seq(Name), NEW q \in Seq(Name) \ {Root}, IsPrefix(p, Front(q))
  PROVE  IsStrictPrefix(p, q)
<1>1. /\ Len(q) \in Nat \ {0} /\ Front(q) \in Seq(Name) /\ Len(Front(q)) = Len(q) - 1
      /\ \A i \in 1 .. Len(q) - 1 : Front(q)[i] = q[i]
  BY PathParts
<1>2. PICK f \in Seq(Name) : f = Front(q)
  BY <1>1
<1>3. Len(p) \in Nat /\ Len(p) <= Len(f) /\ Len(p) < Len(q)
  BY <1>1, <1>2 DEF IsPrefix
<1>4. PICK a : a = SubSeq(p, 1, Len(p))
  OBVIOUS
<1>5. a = SubSeq(f, 1, Len(p))
  BY <1>2, <1>4 DEF IsPrefix
<1>12. PICK n \in Nat : n = Len(p)
  BY <1>3
<1>13. IsStart(Name, a, p, n)
  BY <1>4, <1>12, Begun
<1>14. IsStart(Name, a, f, n)
  BY <1>3, <1>5, <1>12, Begun
<1>6. IsStart(Name, a, p, Len(p)) /\ IsStart(Name, a, f, Len(p))
  BY <1>12, <1>13, <1>14, Zenon
<1>7. PICK b : b = SubSeq(q, 1, Len(p))
  OBVIOUS
<1>8. IsStart(Name, b, q, Len(p))
  BY <1>3, <1>7, Begun
<1>9. \A i \in 1 .. Len(p) : a[i] = b[i]
  BY <1>1, <1>2, <1>3, <1>6, <1>8 DEF IsStart
<1>10. a = b
  BY <1>6, <1>8, <1>9, SeqEqual DEF IsStart
<1>11. p # q
  BY <1>3
<1> QED
  BY <1>3, <1>4, <1>7, <1>10, <1>11 DEF IsStrictPrefix, IsPrefix

LEMMA PlaceInjective ==
  ASSUME NEW p \in Seq(Name) \ {Root}, NEW q \in Seq(Name) \ {Root}, Place(p) = Place(q)
  PROVE  p = q
<1>1. Node(Front(p)) = Node(Front(q)) /\ <<Last(p)>> = <<Last(q)>>
  BY DEF Place
<1>2. /\ Len(p) \in Nat \ {0} /\ Front(p) \in Seq(Name) /\ Len(Front(p)) = Len(p) - 1
      /\ \A i \in 1 .. Len(p) - 1 : Front(p)[i] = p[i]
      /\ Last(p) = p[Len(p)]
  BY PathParts
<1>3. /\ Len(q) \in Nat \ {0} /\ Front(q) \in Seq(Name) /\ Len(Front(q)) = Len(q) - 1
      /\ \A i \in 1 .. Len(q) - 1 : Front(q)[i] = q[i]
      /\ Last(q) = q[Len(q)]
  BY PathParts
<1>4. Len(p) = Len(q)
  BY <1>1, <1>2, <1>3, NodeIs
<1>5. \A i \in 1 .. Len(p) - 1 : p[i] = q[i]
  <2> TAKE i \in 1 .. Len(p) - 1
  <2>1. i \in 1 .. Len(Front(p)) /\ i \in 1 .. Len(Front(q)) /\ i \in 1 .. Len(q) - 1
    BY <1>2, <1>3, <1>4
  <2>2. Node(Front(p))[i] = <<Front(p)[i]>> /\ Node(Front(q))[i] = <<Front(q)[i]>>
    BY <1>2, <1>3, <2>1, NodeIs
  <2>3. <<p[i]>> = <<q[i]>>
    BY <1>1, <1>2, <1>3, <2>1, <2>2
  <2> QED
    BY <2>3
<1>6. p[Len(p)] = q[Len(q)]
  BY <1>1, <1>2, <1>3
<1>7. ASSUME NEW i \in 1 .. Len(p) PROVE p[i] = q[i]
  <2>1. i \in 1 .. Len(p) - 1 \/ i = Len(p)
    BY <1>2
  <2> QED
    BY <1>4, <1>5, <1>6, <2>1
<1> QED
  BY <1>4, <1>7, SeqEqual

\* The directories of a path of one or two names get the right names.
LEMMA CreatedIsNode ==
  ASSUME NEW path \in Seq(Name), Len(path) <= 2
  PROVE  Created(path) = Node(path)
<1>1. Len(path) \in {0, 1, 2}
  <2>1. PICK n \in Nat : n = Len(path)
    OBVIOUS
  <2> QED
    BY <2>1
<1>2. Min({1, 2}) = 1
  BY DEF Min
<1>3. ASSUME NEW i \in 1 .. Len(path) PROVE Dirname(path, i) = <<path[i]>>
  <2>1. CASE i = Len(path)
    BY <2>1 DEF Dirname
  <2>2. CASE i # Len(path)
    <3>1. i = 1 /\ Len(path) = 2
      <4>1. PICK n : n = Len(path) /\ n \in {0, 1, 2} /\ i \in 1 .. n /\ i # n
        BY <1>1, <2>2
      <4>2. i = 1 /\ n = 2
        BY <4>1
      <4> QED
        BY <4>1, <4>2
    <3>2. Dirname(path, i) = SubSeq(path, 1, Min({1, 2}))
      BY <3>1 DEF Dirname
    <3>3. SubSeq(path, 1, 1) = <<path[1]>>
      <4>1. PICK s : s = SubSeq(path, 1, 1)
        OBVIOUS
      <4>2. IsStart(Name, s, path, 1)
        BY <3>1, <4>1, Begun
      <4>3. s = <<path[1]>>
        BY <4>2 DEF IsStart
      <4> QED
        BY <4>1, <4>3, Zenon
    <3> QED
      BY <1>2, <3>1, <3>2, <3>3
  <2> QED
    BY <2>1, <2>2
<1> QED
  BY <1>3 DEF Created, Node

-----------------------------------------------------------------------------
(* The tree.                                                                 *)

\* A file stays where it is if the directories above it and its entry do.
LEMMA StaysAt ==
  ASSUME NEW path, IsAt(path),
         \A n \in 0 .. Len(Front(path)) : SubSeq(Node(Front(path)), 1, n) \in dirs',
         Place(path) \in DOMAIN files', files'[Place(path)] = files[Place(path)],
         made'[path] = made[path]
  PROVE  IsAt(path)'
  BY DEF IsAt, HasDirectory

\* Directories that are made disturb no file.
LEMMA TreeGrows ==
  ASSUME Found, dirs \subseteq dirs', files' = files, made' = made
  PROVE  Found'
<1>1. ASSUME NEW path \in DOMAIN made, Len(path) <= 3 PROVE IsAt(path)'
  <2>1. IsAt(path)
    BY <1>1 DEF Found
  <2> QED
    BY <2>1, StaysAt DEF IsAt, HasDirectory
<1> QED
  BY <1>1 DEF Found

LEMMA FileCreated ==
  ASSUME Found, NEW path \in Path, NEW file \in Obj, CreateFile(path, file)
  PROVE  Found'
<1>1. path \in Seq(Name) /\ path # Root
  BY RamfsAssumption DEF CreateFile
<1>2. /\ Front(path) \in Seq(Name) /\ Len(Front(path)) = Len(path) - 1
      /\ Len(path) \in Nat \ {0}
  BY <1>1, PathParts
<1> DEFINE place == <<Created(Front(path)), <<Last(path)>>>>
           F == Front(path)
<1>3. /\ dirs' = CreateDirectories(F) /\ CreatedTo(F) = Len(F)
      /\ place \notin DOMAIN files
      /\ files' = With(files, place, file) /\ made' = With(made, path, file)
  BY DEF CreateFile
<1>4. /\ DOMAIN files' = DOMAIN files \cup {place} /\ files'[place] = file
      /\ \A y \in DOMAIN files : files'[y] = files[y]
  BY <1>3 DEF With
<1>5. /\ DOMAIN made' = DOMAIN made \cup {path} /\ made'[path] = file
      /\ \A y \in DOMAIN made \ {path} : made'[y] = made[y]
  BY <1>3 DEF With
<1>6. dirs \subseteq dirs' /\ \A n \in 1 .. Len(F) : SubSeq(Created(F), 1, n) \in dirs'
  BY <1>3 DEF CreateDirectories
<1>7. Root \in dirs' /\ DOMAIN made' \subseteq Seq(Name) \ {Root}
  BY <1>1, <1>5, <1>6 DEF Found
<1>8. ASSUME NEW q \in DOMAIN made, q # path, Len(q) <= 3 PROVE IsAt(q)'
  <2>1. IsAt(q)
    BY <1>8 DEF Found
  <2>2. Place(q) \in DOMAIN files /\ made'[q] = made[q]
    BY <1>5, <1>8, <2>1 DEF IsAt
  <2>3. \A n \in 0 .. Len(Front(q)) : SubSeq(Node(Front(q)), 1, n) \in dirs'
    BY <1>6, <2>1 DEF IsAt, HasDirectory
  <2> QED
    BY <1>4, <2>1, <2>2, <2>3, StaysAt
<1>9. ASSUME Len(path) <= 3 PROVE IsAt(path)'
  <2>1. Created(F) = Node(F)
    BY <1>2, <1>9, CreatedIsNode
  <2>2. place = Place(path)
    BY <2>1 DEF Place
  <2>3. SubSeq(Node(F), 1, 0) = Root
    BY DEF Root
  <2>4. \A n \in 0 .. Len(F) : SubSeq(Node(F), 1, n) \in dirs'
    <3> TAKE n \in 0 .. Len(F)
    <3>1. n = 0 \/ n \in 1 .. Len(F)
      BY <1>2
    <3> QED
      BY <1>6, <1>7, <2>1, <2>3, <3>1
  <2> QED
    BY <1>4, <1>5, <2>2, <2>4 DEF IsAt, HasDirectory
<1> QED
  BY <1>5, <1>7, <1>8, <1>9 DEF Found

\* What is removed with a directory lies below it.
LEMMA DirectoryRemoved ==
  ASSUME Found, NEW path \in Path, path # Root,
         dirs' = {d \in dirs : ~IsPrefix(Node(path), d)},
         files' = Without(files, Removed(path)),
         made' = Without(made, {p \in DOMAIN made : IsStrictPrefix(path, p)})
  PROVE  Found'
<1>1. path \in Seq(Name) /\ Len(path) \in Nat \ {0} /\ Len(Node(path)) = Len(path)
  BY RamfsAssumption, PathParts, NodeIs
<1>2. Root \in dirs'
  <2>1. ~IsPrefix(Node(path), Root)
    BY <1>1 DEF IsPrefix, Root
  <2> QED
    BY <2>1 DEF Found
<1>3. /\ DOMAIN made' = DOMAIN made \ {p \in DOMAIN made : IsStrictPrefix(path, p)}
      /\ \A y \in DOMAIN made' : made'[y] = made[y]
      /\ DOMAIN files' = DOMAIN files \ Removed(path)
      /\ \A y \in DOMAIN files' : files'[y] = files[y]
  BY DEF Without
<1>4. ASSUME NEW q \in DOMAIN made', Len(q) <= 3 PROVE IsAt(q)'
  <2>1. q \in DOMAIN made /\ q \in Seq(Name) \ {Root} /\ ~IsStrictPrefix(path, q) /\ IsAt(q)
    BY <1>3, <1>4 DEF Found
  <2>2. /\ Front(q) \in Seq(Name) /\ Len(Front(q)) = Len(q) - 1 /\ Len(q) \in Nat \ {0}
        /\ \A i \in 1 .. Len(q) - 1 : Front(q)[i] = q[i]
    BY <2>1, PathParts
  <2>3. \A n \in 0 .. Len(Front(q)) : ~IsPrefix(Node(path), SubSeq(Node(Front(q)), 1, n))
    <3> SUFFICES ASSUME NEW n \in 0 .. Len(Front(q)),
                        IsPrefix(Node(path), SubSeq(Node(Front(q)), 1, n))
                 PROVE  FALSE
      OBVIOUS
    <3>1. IsPrefix(path, Front(q)) /\ Len(path) <= n
      BY <1>1, <2>2, NodePrefix
    <3>2. IsStrictPrefix(path, q)
      BY <1>1, <2>1, <2>2, <3>1, StrictlyBelow
    <3> QED
      BY <2>1, <3>2
  <2>4. \A n \in 0 .. Len(Front(q)) : SubSeq(Node(Front(q)), 1, n) \in dirs'
    BY <2>1, <2>3 DEF IsAt, HasDirectory
  <2>5. ~IsPrefix(Node(path), Node(Front(q)))
    <3>1. /\ Len(Front(q)) \in 0 .. Len(Front(q))
          /\ SubSeq(Node(Front(q)), 1, Len(Front(q))) = Node(Front(q))
      BY <2>2, NodeIs, SubSeqFull
    <3> QED
      BY <2>3, <3>1
  <2>6. Place(q) \in DOMAIN files'
    BY <1>3, <2>1, <2>5 DEF IsAt, Place, Removed
  <2> QED
    BY <1>3, <1>4, <2>1, <2>4, <2>6, StaysAt
<1> QED
  BY <1>2, <1>3, <1>4 DEF Found

LEMMA FileRemoved ==
  ASSUME Found, NEW path \in Path, path # Root, UNCHANGED dirs,
         files' = Without(files, FindFile(path)), made' = Without(made, {path})
  PROVE  Found'
<1>1. path \in Seq(Name) \ {Root}
  BY RamfsAssumption
<1>3. /\ DOMAIN made' = DOMAIN made \ {path}
      /\ \A y \in DOMAIN made' : made'[y] = made[y]
      /\ DOMAIN files' = DOMAIN files \ FindFile(path)
      /\ \A y \in DOMAIN files' : files'[y] = files[y]
  BY DEF Without
<1>4. ASSUME NEW q \in DOMAIN made', Len(q) <= 3 PROVE IsAt(q)'
  <2>1. q \in DOMAIN made /\ q \in Seq(Name) \ {Root} /\ q # path /\ IsAt(q)
    BY <1>3, <1>4 DEF Found
  <2>2. Place(q) # Place(path)
    BY <1>1, <2>1, PlaceInjective
  <2>3. Place(q) \in DOMAIN files'
    BY <1>3, <2>1, <2>2 DEF IsAt, Place, FindFile
  <2>4. \A n \in 0 .. Len(Front(q)) : SubSeq(Node(Front(q)), 1, n) \in dirs'
    BY <2>1 DEF IsAt, HasDirectory
  <2> QED
    BY <1>3, <1>4, <2>1, <2>3, <2>4, StaysAt
<1> QED
  BY <1>3, <1>4 DEF Found

-----------------------------------------------------------------------------
(* Bytes and streams.                                                        *)

LEMMA ContentsCreated ==
  ASSUME Contents, NEW path, NEW file \in Obj, CreateFile(path, file)
  PROVE  /\ Contents'
         /\ file \in DOMAIN data' /\ file \notin DOMAIN data /\ data'[file] = <<>>
         /\ DOMAIN data \subseteq DOMAIN data'
         /\ \A x \in DOMAIN data : data'[x] = data[x]
<1> DEFINE place == <<Created(Front(path)), <<Last(path)>>>>
<1>1. /\ place \notin DOMAIN files /\ file \notin DOMAIN data
      /\ files' = With(files, place, file) /\ data' = With(data, file, <<>>)
  BY DEF CreateFile
<1> HIDE DEF place
<1>2. /\ DOMAIN files' = DOMAIN files \cup {place} /\ files'[place] = file
      /\ \A y \in DOMAIN files : files'[y] = files[y]
  BY <1>1 DEF With
<1>3. /\ DOMAIN data' = DOMAIN data \cup {file} /\ data'[file] = <<>>
      /\ \A y \in DOMAIN data : data'[y] = data[y]
  BY <1>1 DEF With
<1>4. data' \in [DOMAIN data' -> Seq(Nat)] /\ DOMAIN data' \subseteq Obj
  <2>0. <<>> \in Seq(Nat) /\ \A x \in DOMAIN data : data[x] \in Seq(Nat)
    BY DEF Contents
  <2>1. \A x \in DOMAIN data' : data'[x] \in Seq(Nat)
    BY <1>3, <2>0
  <2>2. data' = [x \in DOMAIN data' |-> data'[x]]
    BY <1>1 DEF With
  <2> QED
    BY <1>3, <2>1, <2>2 DEF Contents
<1>5. \A p \in DOMAIN files' : files'[p] \in DOMAIN data'
  BY <1>2, <1>3 DEF Contents
<1>6. ASSUME NEW p \in DOMAIN files', NEW q \in DOMAIN files', files'[p] = files'[q]
      PROVE  p = q
  BY <1>1, <1>2, <1>6 DEF Contents
<1> QED
  BY <1>1, <1>3, <1>4, <1>5, <1>6 DEF Contents

LEMMA StreamsStay ==
  ASSUME Streams, DOMAIN data \subseteq DOMAIN data', UNCHANGED <<file_streams, dangling>>
  PROVE  Streams'
  BY DEF Streams

LEMMA StreamOpened ==
  ASSUME Streams, DOMAIN data \subseteq DOMAIN data', UNCHANGED dangling,
         NEW fd, NEW file \in Obj, file \in DOMAIN data',
         file_streams' = With(file_streams, fd, [file |-> file, pos |-> 0])
  PROVE  Streams'
<1>1. /\ DOMAIN file_streams' = DOMAIN file_streams \cup {fd}
      /\ file_streams'[fd] = [file |-> file, pos |-> 0]
      /\ \A y \in DOMAIN file_streams \ {fd} : file_streams'[y] = file_streams[y]
  BY DEF With
<1>2. file_streams' = [y \in DOMAIN file_streams' |-> file_streams'[y]]
  BY DEF With
<1>3. \A y \in DOMAIN file_streams' : file_streams'[y] \in [file : Obj, pos : Int]
  BY <1>1 DEF Streams
<1>4. \A y \in DOMAIN file_streams' \ dangling' : file_streams'[y].file \in DOMAIN data'
  BY <1>1 DEF Streams
<1> QED
  BY <1>2, <1>3, <1>4 DEF Streams

\* A stream moves.
LEMMA StreamMoved ==
  ASSUME Streams, DOMAIN data \subseteq DOMAIN data', UNCHANGED dangling,
         NEW fd \in DOMAIN file_streams, NEW pos \in Int,
         file_streams' = [file_streams EXCEPT ![fd].pos = pos]
  PROVE  /\ Streams'
         /\ DOMAIN file_streams' = DOMAIN file_streams
         /\ file_streams'[fd] = [file |-> file_streams[fd].file, pos |-> pos]
         /\ \A y \in DOMAIN file_streams \ {fd} : file_streams'[y] = file_streams[y]
<1>1. file_streams[fd] \in [file : Obj, pos : Int]
  BY DEF Streams
<1>2. /\ DOMAIN file_streams' = DOMAIN file_streams
      /\ file_streams'[fd] = [file |-> file_streams[fd].file, pos |-> pos]
      /\ \A y \in DOMAIN file_streams \ {fd} : file_streams'[y] = file_streams[y]
  BY <1>1
<1>3. file_streams' = [y \in DOMAIN file_streams' |-> file_streams'[y]]
  BY DEF Streams
<1>4. \A y \in DOMAIN file_streams' : file_streams'[y] \in [file : Obj, pos : Int]
  BY <1>1, <1>2 DEF Streams
<1>5. \A y \in DOMAIN file_streams' \ dangling' : file_streams'[y].file \in DOMAIN data'
  BY <1>1, <1>2 DEF Streams
<1> QED
  BY <1>2, <1>3, <1>4, <1>5 DEF Streams

\* What the loader reads is as it was.
LEMMA LoadingKept ==
  ASSUME Loading, UNCHANGED loader,
         loader.quiet =>
           /\ loader.file \in DOMAIN data' /\ data'[loader.file] = data[loader.file]
           /\ loader.fd \in DOMAIN file_streams'
           /\ file_streams'[loader.fd] = file_streams[loader.fd]
  PROVE  Loading'
  BY DEF Loading

LEMMA LoadingDisturbed ==
  ASSUME Loading, loader' = [loader EXCEPT !.quiet = FALSE]
  PROVE  Loading'
  BY DEF Loading

\* Removing files leaves the others, and marks the streams on those that go.
LEMMA FilesForgotten ==
  ASSUME Contents, Streams, Loading, NEW places \in SUBSET DOMAIN files, NEW paths,
         Forget(places, paths), UNCHANGED file_streams
  PROVE  Contents' /\ Streams' /\ Loading'
<1> DEFINE gone == {files[p] : p \in places}
<1>1. /\ files' = Without(files, places) /\ data' = Without(data, gone)
      /\ dangling \cup {fd \in DOMAIN file_streams : file_streams[fd].file \in gone}
           \subseteq dangling'
      /\ loader' = IF loader.file \in gone THEN [loader EXCEPT !.quiet = FALSE] ELSE loader
  BY DEF Forget
<1>2. \A p \in DOMAIN files \ places : files[p] \notin gone
  BY DEF Contents
<1> HIDE DEF gone
<1>3. /\ DOMAIN files' = DOMAIN files \ places
      /\ \A y \in DOMAIN files' : files'[y] = files[y]
  BY <1>1 DEF Without
<1>4. /\ DOMAIN data' = DOMAIN data \ gone
      /\ \A y \in DOMAIN data' : data'[y] = data[y]
      /\ data' = [x \in DOMAIN data' |-> data'[x]]
  BY <1>1 DEF Without
<1>5. Contents'
  <2>1. data' \in [DOMAIN data' -> Seq(Nat)] /\ DOMAIN data' \subseteq Obj
    BY <1>4 DEF Contents
  <2>2. \A p \in DOMAIN files' : files'[p] \in DOMAIN data'
    BY <1>2, <1>3, <1>4 DEF Contents
  <2>3. \A p, q \in DOMAIN files' : files'[p] = files'[q] => p = q
    BY <1>3 DEF Contents
  <2> QED
    BY <2>1, <2>2, <2>3 DEF Contents
<1>6. Streams'
  <2>1. \A fd \in DOMAIN file_streams' \ dangling' : file_streams'[fd].file \in DOMAIN data'
    BY <1>1, <1>4 DEF Streams
  <2> QED
    BY <2>1 DEF Streams
<1>7. Loading'
  <2>1. CASE loader.file \in gone
    BY <1>1, <2>1, LoadingDisturbed
  <2>2. CASE loader.file \notin gone
    BY <1>1, <1>4, <2>2, LoadingKept DEF Loading
  <2> QED
    BY <2>1, <2>2
<1> QED
  BY <1>5, <1>6, <1>7

-----------------------------------------------------------------------------
(* Requests that change the tree.                                            *)

\* Types of what the actions are given.
LEMMA Streamed ==
  ASSUME Streams, NEW fd \in DOMAIN file_streams
  PROVE  /\ file_streams[fd].file \in Obj /\ file_streams[fd].pos \in Int
         /\ file_streams[fd] = [file |-> file_streams[fd].file, pos |-> file_streams[fd].pos]
  BY DEF Streams

LEMMA CreateStep ==
  ASSUME IInv, NEW path \in Path, Create(path)
  PROVE  IInv'
<1>0. Contents /\ Streams /\ Loading /\ Found
  BY DEF IInv
<1>1. UNCHANGED <<file_streams, dangling, loader>>
  BY DEF Create, streams
<1>2. ASSUME NEW file \in Obj, CreateFile(path, file) PROVE IInv'
  <2>1. /\ Contents' /\ DOMAIN data \subseteq DOMAIN data'
        /\ \A x \in DOMAIN data : data'[x] = data[x]
    BY <1>0, <1>2, ContentsCreated
  <2>2. Streams'
    BY <1>0, <1>1, <2>1, StreamsStay
  <2>3. Loading'
    BY <1>0, <1>1, <2>1, LoadingKept DEF Loading
  <2>4. Found'
    BY <1>0, <1>2, FileCreated
  <2> QED
    BY <2>1, <2>2, <2>3, <2>4 DEF IInv
<1>3. ASSUME dirs \subseteq dirs', UNCHANGED <<files, data, made>> PROVE IInv'
  <2>1. Contents'
    BY <1>0, <1>3 DEF Contents
  <2>2. Streams'
    BY <1>0, <1>1, <1>3, StreamsStay
  <2>3. Loading'
    BY <1>0, <1>1, <1>3, LoadingKept DEF Loading
  <2>4. Found'
    BY <1>0, <1>3, TreeGrows
  <2> QED
    BY <2>1, <2>2, <2>3, <2>4 DEF IInv
<1>4. \A p : CreateFails(p) => dirs \subseteq dirs' /\ UNCHANGED <<files, data, made>>
  BY DEF CreateFails, CreateDirectories
<1>5. dirs' = CreateDirectories(path) => dirs \subseteq dirs'
  BY DEF CreateDirectories
<1> QED
  BY <1>2, <1>3, <1>4, <1>5 DEF Create

LEMMA RemoveStep ==
  ASSUME IInv, NEW path \in Path, RemovePath(path)
  PROVE  IInv'
<1>0. Contents /\ Streams /\ Loading /\ Found
  BY DEF IInv
<1>1. path # Root /\ UNCHANGED file_streams
  BY DEF RemovePath
<1>2. ASSUME NEW places \in SUBSET DOMAIN files, NEW paths, Forget(places, paths)
      PROVE  Contents' /\ Streams' /\ Loading'
  BY <1>0, <1>1, <1>2, FilesForgotten
<1>3. CASE /\ dirs' = {d \in dirs : ~IsPrefix(Node(path), d)}
           /\ Forget(Removed(path), {p \in DOMAIN made : IsStrictPrefix(path, p)})
  <2>1. Removed(path) \in SUBSET DOMAIN files
    BY DEF Removed
  <2>2. Contents' /\ Streams' /\ Loading'
    BY <1>2, <1>3, <2>1
  <2>3. /\ files' = Without(files, Removed(path))
        /\ made' = Without(made, {p \in DOMAIN made : IsStrictPrefix(path, p)})
    BY <1>3 DEF Forget
  <2>4. Found'
    BY <1>0, <1>1, <1>3, <2>3, DirectoryRemoved
  <2> QED
    BY <2>2, <2>4 DEF IInv
<1>4. CASE dirs' = dirs /\ Forget(FindFile(path), {path})
  <2>1. FindFile(path) \in SUBSET DOMAIN files
    BY DEF FindFile
  <2>2. Contents' /\ Streams' /\ Loading'
    BY <1>2, <1>4, <2>1
  <2>3. files' = Without(files, FindFile(path)) /\ made' = Without(made, {path})
    BY <1>4 DEF Forget
  <2>4. Found'
    BY <1>0, <1>1, <1>4, <2>3, FileRemoved
  <2> QED
    BY <2>2, <2>4 DEF IInv
<1> QED
  BY <1>3, <1>4 DEF RemovePath

\* What an open does to files and streams, whoever opens.
LEMMA OpenedFile ==
  ASSUME IInv, NEW path \in Path, NEW fd, OpenFile(path, fd)
  PROVE  /\ Contents' /\ Streams' /\ Found'
         /\ fd \notin DOMAIN file_streams /\ fd \in DOMAIN file_streams'
         /\ file_streams'[fd].file \in DOMAIN data' /\ file_streams'[fd].file \in Obj
         /\ file_streams'[fd] = [file |-> file_streams'[fd].file, pos |-> 0]
         /\ \A y \in DOMAIN file_streams :
              y \in DOMAIN file_streams' /\ file_streams'[y] = file_streams[y]
         /\ \A x \in DOMAIN data : x \in DOMAIN data' /\ data'[x] = data[x]
<1>0. Contents /\ Streams /\ Found
  BY DEF IInv
<1>1. fd \notin DOMAIN file_streams /\ UNCHANGED dangling
  BY DEF OpenFile, Fresh
<1>2. PICK file \in Obj :
        /\ file_streams' = With(file_streams, fd, [file |-> file, pos |-> 0])
        /\ Contents' /\ Found' /\ file \in DOMAIN data'
        /\ \A x \in DOMAIN data : x \in DOMAIN data' /\ data'[x] = data[x]
  <2>1. ASSUME NEW place \in FindFile(path), UNCHANGED <<tree, data, made>>,
               file_streams' = With(file_streams, fd, [file |-> files[place], pos |-> 0])
        PROVE  \E file \in Obj :
                 /\ file_streams' = With(file_streams, fd, [file |-> file, pos |-> 0])
                 /\ Contents' /\ Found' /\ file \in DOMAIN data'
                 /\ \A x \in DOMAIN data : x \in DOMAIN data' /\ data'[x] = data[x]
    <3>1. files[place] \in DOMAIN data /\ files[place] \in Obj
      BY <1>0 DEF Contents, FindFile
    <3>2. Contents'
      BY <1>0, <2>1 DEF Contents, tree
    <3>3. Found'
      BY <1>0, <2>1, TreeGrows DEF tree
    <3> QED
      BY <2>1, <3>1, <3>2, <3>3
  <2>2. ASSUME NEW file \in Obj, CreateFile(path, file),
               file_streams' = With(file_streams, fd, [file |-> file, pos |-> 0])
        PROVE  /\ Contents' /\ Found' /\ file \in DOMAIN data'
               /\ \A x \in DOMAIN data : x \in DOMAIN data' /\ data'[x] = data[x]
    BY <1>0, <2>2, ContentsCreated, FileCreated
  <2> QED
    BY <2>1, <2>2 DEF OpenFile
<1>3. Streams'
  BY <1>0, <1>1, <1>2, StreamOpened
<1>4. /\ DOMAIN file_streams' = DOMAIN file_streams \cup {fd}
      /\ file_streams'[fd] = [file |-> file, pos |-> 0]
      /\ \A y \in DOMAIN file_streams \ {fd} : file_streams'[y] = file_streams[y]
  BY <1>2 DEF With
<1> QED
  BY <1>1, <1>2, <1>3, <1>4

LEMMA OpenFileStep ==
  ASSUME IInv, NEW path \in Path, NEW fd, OpenFile(path, fd), UNCHANGED loader
  PROVE  IInv'
<1>1. Loading'
  BY OpenedFile, LoadingKept DEF IInv, Loading
<1> QED
  BY <1>1, OpenedFile DEF IInv

\* The loader begins at the start of its file.
LEMMA LoadStartStep ==
  ASSUME IInv, NEW path \in Path, NEW fd \in Fd, LoadStart(path, fd)
  PROVE  IInv'
<1>1. PICK file \in Obj :
        /\ file \in DOMAIN data' /\ fd \in DOMAIN file_streams'
        /\ file_streams'[fd] = [file |-> file, pos |-> 0]
        /\ file = file_streams'[fd].file
        /\ Contents' /\ Streams' /\ Found'
  BY OpenedFile DEF LoadStart
<1>2. loader' = [pc |-> "reading", fd |-> fd, file |-> file, got |-> <<>>, quiet |-> TRUE]
  BY <1>1 DEF LoadStart
<1>3. PICK bytes \in Seq(Nat) : bytes = data'[file]
  BY <1>1 DEF Contents
<1>4. Len(bytes) >= 0 /\ SubSeq(bytes, 1, 0) = <<>> /\ Len(<<>>) = 0 /\ <<>> \in Seq(Nat)
  OBVIOUS
<1>5. /\ loader'.pc = "reading" /\ loader'.fd = fd /\ loader'.file = file /\ loader'.got = <<>>
      /\ loader' \in [pc : {"idle", "reading", "done"}, fd : Fd \cup {Nobody},
                      file : Obj \cup {Nobody}, got : Seq(Nat), quiet : BOOLEAN]
  BY <1>2, <1>4
<1>6. Loading'
  BY <1>1, <1>3, <1>4, <1>5 DEF Loading
<1> QED
  BY <1>1, <1>6 DEF IInv

-----------------------------------------------------------------------------
(* Requests on streams.                                                      *)

LEMMA MinOfTwo ==
  ASSUME NEW a \in Int, NEW b \in Int
  PROVE  Min({a, b}) = IF a <= b THEN a ELSE b
<1>1. CASE a <= b
  BY <1>1 DEF Min
<1>2. CASE ~(a <= b)
  BY <1>2 DEF Min
<1> QED
  BY <1>1, <1>2

\* chunk is what bytes have from pos on, up to a length of len.
IsChunk(chunk, bytes, pos, len) ==
  \/ (pos < 0 \/ pos >= Len(bytes)) /\ chunk = <<>>
  \/ /\ pos \in Nat /\ pos < Len(bytes)
     /\ \E m \in Nat : /\ pos < m /\ m <= Len(bytes) /\ m <= pos + len
                       /\ m = Len(bytes) \/ m = pos + len
                       /\ IsPart(Nat, chunk, bytes, pos, m)

\* A read gives what is there from the position on, up to its length.
LEMMA AvailableIs ==
  ASSUME Contents, Streams, NEW fd \in DOMAIN file_streams \ dangling, NEW len \in Nat \ {0}
  PROVE  /\ data[file_streams[fd].file] \in Seq(Nat) /\ file_streams[fd].pos \in Int
         /\ Available(fd, len) \in Seq(Nat)
         /\ IsChunk(Available(fd, len), data[file_streams[fd].file], file_streams[fd].pos, len)
<1>0. PICK bytes, pos, chunk :
        /\ bytes = data[file_streams[fd].file] /\ pos = file_streams[fd].pos
        /\ chunk = Available(fd, len)
  OBVIOUS
<1> SUFFICES bytes \in Seq(Nat) /\ pos \in Int /\ chunk \in Seq(Nat)
             /\ IsChunk(chunk, bytes, pos, len)
  BY <1>0, Zenon
<1>1. bytes \in Seq(Nat) /\ pos \in Int /\ Len(bytes) \in Nat
  BY <1>0, Streamed DEF Contents, Streams
<1>2. chunk = IF pos < 0 \/ pos >= Len(bytes) THEN <<>>
              ELSE SubSeq(bytes, pos + 1, Min({pos + len, Len(bytes)}))
  BY <1>0 DEF Available
<1>3. CASE pos < 0 \/ pos >= Len(bytes)
  <2>1. chunk = <<>>
    BY <1>2, <1>3
  <2> QED
    BY <1>1, <1>3, <2>1 DEF IsChunk
<1>4. CASE ~ (pos < 0 \/ pos >= Len(bytes))
  <2>1. pos \in Nat /\ pos < Len(bytes)
    BY <1>1, <1>4
  <2>2. PICK m \in Nat : /\ m = Min({pos + len, Len(bytes)})
                         /\ pos < m /\ m <= Len(bytes) /\ m <= pos + len
                         /\ m = Len(bytes) \/ m = pos + len
    <3>0. pos + len \in Nat /\ pos < pos + len
      BY <2>1
    <3>1. PICK a \in Nat, b \in Nat : a = pos + len /\ b = Len(bytes) /\ pos < a /\ pos < b
      BY <1>1, <2>1, <3>0
    <3>2. PICK m \in Nat : m = Min({a, b}) /\ m = IF a <= b THEN a ELSE b
      BY <3>1, MinOfTwo
    <3>3. pos < m /\ m <= b /\ m <= a /\ (m = b \/ m = a)
      <4>1. CASE a <= b
        <5>1. m = a
          BY <3>2, <4>1
        <5> QED
          BY <3>1, <4>1, <5>1
      <4>2. CASE ~ (a <= b)
        <5>1. m = b
          BY <3>2, <4>2
        <5> QED
          BY <3>1, <4>2, <5>1
      <4> QED
        BY <4>1, <4>2
    <3> QED
      BY <3>1, <3>2, <3>3, Zenon
  <2>3. chunk = SubSeq(bytes, pos + 1, m)
    BY <1>2, <1>4, <2>2
  <2>4. IsPart(Nat, chunk, bytes, pos, m)
    <3>1. IsPart(Nat, SubSeq(bytes, pos + 1, m), bytes, pos, m)
      BY <1>1, <2>1, <2>2, Parted
    <3> QED
      BY <2>3, <3>1, Zenon
  <2>5. chunk \in Seq(Nat)
    BY <2>4 DEF IsPart
  <2> QED
    BY <1>1, <2>1, <2>2, <2>4, <2>5 DEF IsChunk
<1> QED
  BY <1>3, <1>4

LEMMA ReadMoves ==
  ASSUME Contents, Streams, NEW fd, NEW len \in Nat \ {0}, Read(fd, len),
         UNCHANGED <<data, dangling>>
  PROVE  /\ fd \in DOMAIN file_streams \ dangling /\ Available(fd, len) \in Seq(Nat)
         /\ Streams' /\ DOMAIN file_streams' = DOMAIN file_streams
         /\ file_streams'[fd] = [file |-> file_streams[fd].file,
                                 pos |-> file_streams[fd].pos + Len(Available(fd, len))]
         /\ \A y \in DOMAIN file_streams \ {fd} : file_streams'[y] = file_streams[y]
<1>1. fd \in DOMAIN file_streams \ dangling
  BY DEF Read
<1>2. Available(fd, len) \in Seq(Nat) /\ file_streams[fd].pos \in Int
  BY <1>1, AvailableIs
<1>3. PICK to \in Int : to = file_streams[fd].pos + Len(Available(fd, len))
  BY <1>2
<1>4. file_streams' = [file_streams EXCEPT ![fd].pos = to]
  BY <1>3 DEF Read
<1> QED
  BY <1>1, <1>2, <1>3, <1>4, StreamMoved

\* Requests of others move other streams than the loader's.
LEMMA MoveStep ==
  ASSUME IInv, NEW fd \in DOMAIN file_streams, fd # loader.fd, NEW pos \in Int,
         file_streams' = [file_streams EXCEPT ![fd].pos = pos],
         UNCHANGED <<tree, data, dangling, loader, made>>
  PROVE  IInv'
<1>1. /\ Streams' /\ DOMAIN file_streams' = DOMAIN file_streams
      /\ \A y \in DOMAIN file_streams \ {fd} : file_streams'[y] = file_streams[y]
  BY StreamMoved DEF IInv
<1>2. Contents'
  BY DEF IInv, Contents, tree
<1>3. Loading'
  BY <1>1, LoadingKept DEF IInv, Loading
<1>4. Found'
  BY TreeGrows DEF IInv, tree
<1> QED
  BY <1>1, <1>2, <1>3, <1>4 DEF IInv

LEMMA ReadStep ==
  ASSUME IInv, NEW fd \in Usable, NEW len \in Lengths, Read(fd, len),
         UNCHANGED <<tree, data, dangling, loader, made>>
  PROVE  IInv'
<1>1. len \in Nat \ {0}
  BY RamfsAssumption
<1>2. fd \in DOMAIN file_streams \ dangling /\ fd # loader.fd
  BY DEF Read, Usable
<1>3. Available(fd, len) \in Seq(Nat) /\ file_streams[fd].pos \in Int
  BY <1>1, <1>2, AvailableIs DEF IInv
<1>4. PICK to \in Int : to = file_streams[fd].pos + Len(Available(fd, len))
  BY <1>3
<1>5. file_streams' = [file_streams EXCEPT ![fd].pos = to]
  BY <1>4 DEF Read
<1> QED
  BY <1>2, <1>5, MoveStep

LEMMA SeekStep ==
  ASSUME IInv, NEW fd \in Usable, NEW off, NEW whence, Seek(fd, off, whence),
         UNCHANGED <<tree, data, dangling, loader, made>>
  PROVE  IInv'
<1>1. PICK pos : /\ pos \in -MaxSize .. MaxSize
                 /\ file_streams' = [file_streams EXCEPT ![fd].pos = pos]
  BY DEF Seek
<1>2. pos \in Int
  BY <1>1, RamfsAssumption
<1>3. fd \in DOMAIN file_streams /\ fd # loader.fd
  BY DEF Seek, Usable
<1> QED
  BY <1>1, <1>2, <1>3, MoveStep

\* c is a followed by b.
IsJoin(T, c, a, b) ==
  /\ c \in Seq(T) /\ Len(c) = Len(a) + Len(b)
  /\ \A i \in 1 .. Len(a) : c[i] = a[i]
  /\ \A i \in 1 .. Len(b) : c[Len(a) + i] = b[i]

LEMMA Joined ==
  ASSUME NEW T, NEW a \in Seq(T), NEW b \in Seq(T), NEW c, c = a \o b
  PROVE  IsJoin(T, c, a, b)
  BY DEF IsJoin

\* What a resized file has: its bytes, and zeros behind them.
LEMMA ResizedIs ==
  ASSUME NEW bytes \in Seq(Nat), NEW pos \in Nat, NEW len \in Nat,
         NEW r, r = Resized(bytes, pos, len)
  PROVE  /\ r \in Seq(Nat) /\ Len(bytes) <= Len(r) /\ pos + len <= Len(r)
         /\ \A i \in 1 .. Len(r) : r[i] = IF i <= Len(bytes) THEN bytes[i] ELSE 0
<1>1. PICK n \in Nat : n = Len(bytes)
  OBVIOUS
<1>2. CASE pos + len >= n
  <2>1. PICK k \in Nat : k = pos + len - n
    BY <1>2
  <2>2. PICK z \in Seq(Nat) : /\ z = Zeros(k) /\ Len(z) = k
                              /\ \A i \in 1 .. k : z[i] = 0
    <3>1. PICK z : z = Zeros(k)
      OBVIOUS
    <3>2. z \in [1 .. k -> Nat] /\ \A i \in 1 .. k : z[i] = 0
      BY <3>1 DEF Zeros
    <3>3. z \in Seq(Nat) /\ Len(z) = k
      BY <3>2
    <3> QED
      BY <3>1, <3>2, <3>3
  <2>3. r = bytes \o z
    BY <1>1, <1>2, <2>1, <2>2 DEF Resized
  <2>6. IsJoin(Nat, r, bytes, z)
    BY <2>3, Joined
  <2>4. /\ r \in Seq(Nat) /\ Len(r) = n + k
        /\ \A i \in 1 .. n : r[i] = bytes[i]
        /\ \A i \in 1 .. k : r[n + i] = z[i]
    BY <1>1, <2>2, <2>6 DEF IsJoin
  <2>5. ASSUME NEW i \in 1 .. Len(r) PROVE r[i] = IF i <= n THEN bytes[i] ELSE 0
    <3>1. CASE i <= n
      BY <2>4, <3>1
    <3>2. CASE ~ (i <= n)
      <4>1. PICK j \in 1 .. k : i = n + j
        BY <2>4, <3>2
      <4> QED
        BY <2>2, <2>4, <3>2, <4>1
    <3> QED
      BY <3>1, <3>2
  <2> QED
    BY <1>1, <2>1, <2>4, <2>5
<1>3. CASE ~ (pos + len >= n)
  <2>1. r = bytes
    BY <1>1, <1>3 DEF Resized
  <2> QED
    BY <1>1, <1>3, <2>1
<1> QED
  BY <1>2, <1>3

\* A write changes its file, where it writes, and its stream.
LEMMA WriteChanges ==
  ASSUME Contents, Streams, NEW fd, NEW len \in Lengths, Write(fd, len),
         UNCHANGED <<tree, dangling>>,
         NEW file, file = file_streams[fd].file,
         NEW pos, pos = file_streams[fd].pos, pos >= 0, NEW to, to = pos + len
  PROVE  /\ fd \in DOMAIN file_streams /\ file \in DOMAIN data
         /\ pos \in Nat /\ to \in Nat /\ pos < to
         /\ Contents' /\ Streams' /\ DOMAIN data' = DOMAIN data
         /\ DOMAIN file_streams' = DOMAIN file_streams
         /\ file_streams'[fd].pos = to
         /\ \A y \in DOMAIN file_streams \ {fd} : file_streams'[y] = file_streams[y]
         /\ \A x \in DOMAIN data \ {file} : data'[x] = data[x]
         /\ Len(data[file]) <= Len(data'[file])
         /\ \A i \in 1 .. Len(data'[file]) :
              data'[file][i] = IF i \in pos + 1 .. to THEN 1
                               ELSE IF i <= Len(data[file]) THEN data[file][i] ELSE 0
         /\ loader' = IF loader.file = file THEN [loader EXCEPT !.quiet = FALSE] ELSE loader
<1>0. len \in Nat \ {0}
  BY RamfsAssumption
<1>1. fd \in DOMAIN file_streams \ dangling
  BY DEF Write
<1>10. file \in DOMAIN data /\ pos \in Nat
  BY <1>1, Streamed DEF Streams
<1>11. to \in Nat /\ pos < to
  BY <1>0, <1>10
<1>2. PICK bytes \in Seq(Nat) : bytes = data[file]
  BY <1>10 DEF Contents
<1>3. PICK r \in Seq(Nat) :
        /\ r = Resized(bytes, pos, len)
        /\ Len(bytes) <= Len(r)
        /\ \A i \in 1 .. Len(r) : r[i] = IF i <= Len(bytes) THEN bytes[i] ELSE 0
  <2>1. PICK r : r = Resized(bytes, pos, len)
    OBVIOUS
  <2>2. /\ r \in Seq(Nat) /\ Len(bytes) <= Len(r)
        /\ \A i \in 1 .. Len(r) : r[i] = IF i <= Len(bytes) THEN bytes[i] ELSE 0
    <3>1. len \in Nat
      BY <1>0
    <3>2. PICK n \in Nat, m \in Nat : n = pos /\ m = len
      BY <1>10, <3>1
    <3>3. r = Resized(bytes, n, m)
      BY <2>1, <3>2
    <3> QED
      BY <3>3, ResizedIs
  <2> QED
    BY <2>1, <2>2
<1>4. PICK w \in Seq(Nat) :
        /\ w = [i \in 1 .. Len(r) |-> IF i \in pos + 1 .. to THEN 1 ELSE r[i]]
        /\ Len(w) = Len(r)
        /\ \A i \in 1 .. Len(r) : w[i] = IF i \in pos + 1 .. to THEN 1 ELSE r[i]
  <2>1. PICK n \in Nat : n = Len(r)
    OBVIOUS
  <2>2. PICK w : w = [i \in 1 .. n |-> IF i \in pos + 1 .. to THEN 1 ELSE r[i]]
    OBVIOUS
  <2>3. \A i \in 1 .. n : r[i] \in Nat
    BY <2>1
  <2>4. w \in [1 .. n -> Nat]
    BY <2>2, <2>3
  <2>5. w \in Seq(Nat) /\ Len(w) = n
    BY <2>4
  <2> QED
    BY <2>1, <2>2, <2>5
<1>5. /\ data' = [data EXCEPT ![file] = w]
      /\ file_streams' = [file_streams EXCEPT ![fd].pos = to]
      /\ loader' = IF loader.file = file THEN [loader EXCEPT !.quiet = FALSE] ELSE loader
  <2>1. ~ (file_streams[fd].pos < 0)
    BY <1>10
  <2>2. /\ file_streams' = [file_streams EXCEPT ![fd].pos = @ + len]
        /\ data' = [data EXCEPT ![file] =
                      [i \in 1 .. Len(Resized(@, pos, len)) |->
                         IF i \in pos + 1 .. pos + len THEN 1 ELSE Resized(@, pos, len)[i]]]
        /\ loader' = IF loader.file = file THEN [loader EXCEPT !.quiet = FALSE] ELSE loader
    BY <2>1 DEF Write
  <2> QED
    BY <1>2, <1>3, <1>4, <2>2
<1>6. /\ DOMAIN data' = DOMAIN data /\ data'[file] = w
      /\ \A x \in DOMAIN data \ {file} : data'[x] = data[x]
      /\ data' \in [DOMAIN data' -> Seq(Nat)]
  BY <1>4, <1>5, <1>10 DEF Contents
<1>7. Contents'
  BY <1>6 DEF Contents, tree
<1>8. /\ Streams' /\ DOMAIN file_streams' = DOMAIN file_streams
      /\ file_streams'[fd] = [file |-> file, pos |-> to]
      /\ \A y \in DOMAIN file_streams \ {fd} : file_streams'[y] = file_streams[y]
  <2>1. to \in Int /\ DOMAIN data \subseteq DOMAIN data' /\ UNCHANGED dangling
    BY <1>6, <1>11
  <2> QED
    BY <1>1, <1>5, <2>1, StreamMoved
<1>9. /\ Len(bytes) <= Len(w)
      /\ \A i \in 1 .. Len(w) :
           w[i] = IF i \in pos + 1 .. to THEN 1 ELSE IF i <= Len(bytes) THEN bytes[i] ELSE 0
  BY <1>3, <1>4
<1>12. file_streams'[fd].pos = to
  BY <1>8
<1> QED
  BY <1>1, <1>2, <1>5, <1>6, <1>7, <1>8, <1>9, <1>10, <1>11, <1>12

LEMMA WriteStep ==
  ASSUME IInv, NEW fd \in Usable, NEW len \in Lengths, Write(fd, len),
         UNCHANGED <<tree, dangling, made>>
  PROVE  IInv'
<1>0. Contents /\ Streams /\ Loading /\ Found
  BY DEF IInv
<1>1. Found'
  BY <1>0, TreeGrows DEF tree
<1>2. fd \in DOMAIN file_streams \ dangling /\ fd # loader.fd
  BY DEF Write, Usable
<1>3. CASE file_streams[fd].pos < 0
  <2>1. UNCHANGED <<data, file_streams, loader>>
    BY <1>3 DEF Write
  <2>2. Contents' /\ Streams' /\ Loading'
    BY <1>0, <2>1 DEF Contents, Streams, Loading, tree
  <2> QED
    BY <1>1, <2>2 DEF IInv
<1>4. CASE ~ (file_streams[fd].pos < 0)
  <2>1. PICK file, pos, to : /\ file = file_streams[fd].file
                             /\ pos = file_streams[fd].pos /\ to = pos + len
    OBVIOUS
  <2>2. pos >= 0
    BY <1>0, <1>2, <1>4, <2>1, Streamed
  <2>3. /\ Contents' /\ Streams' /\ DOMAIN data' = DOMAIN data
        /\ DOMAIN file_streams' = DOMAIN file_streams
        /\ \A y \in DOMAIN file_streams \ {fd} : file_streams'[y] = file_streams[y]
        /\ \A x \in DOMAIN data \ {file} : data'[x] = data[x]
        /\ loader' = IF loader.file = file THEN [loader EXCEPT !.quiet = FALSE] ELSE loader
    BY <1>0, <2>1, <2>2, WriteChanges
  <2>4. CASE loader.file = file
    <3>1. Loading'
      BY <1>0, <2>3, <2>4, LoadingDisturbed
    <3> QED
      BY <1>1, <2>3, <3>1 DEF IInv
  <2>5. CASE loader.file # file
    <3>1. Loading'
      BY <1>0, <1>2, <2>3, <2>5, LoadingKept DEF Loading
    <3> QED
      BY <1>1, <2>3, <3>1 DEF IInv
  <2> QED
    BY <2>4, <2>5
<1> QED
  BY <1>3, <1>4

-----------------------------------------------------------------------------
(* The loader.                                                               *)

\* Pieces that follow one another from the start make a longer start.
LEMMA StartGrows ==
  ASSUME NEW T, NEW bytes \in Seq(T), NEW n \in Nat, NEW m \in Nat, n <= m, m <= Len(bytes),
         NEW got, IsStart(T, got, bytes, n), NEW chunk, IsPart(T, chunk, bytes, n, m)
  PROVE  IsStart(T, got \o chunk, bytes, m)
<1>1. got \in Seq(T) /\ Len(got) = n /\ \A i \in 1 .. n : got[i] = bytes[i]
  BY DEF IsStart
<1>2. chunk \in Seq(T) /\ Len(chunk) = m - n /\ \A i \in 1 .. m - n : chunk[i] = bytes[n + i]
  BY DEF IsPart
<1>3. PICK both : both = got \o chunk
  OBVIOUS
<1>4. IsJoin(T, both, got, chunk)
  BY <1>1, <1>2, <1>3, Joined
<1>5. /\ both \in Seq(T) /\ Len(both) = n + (m - n)
      /\ \A i \in 1 .. n : both[i] = got[i]
      /\ \A i \in 1 .. m - n : both[n + i] = chunk[i]
  BY <1>1, <1>2, <1>4 DEF IsJoin
<1>6. \A i \in 1 .. m : both[i] = bytes[i]
  <2> TAKE i \in 1 .. m
  <2>1. CASE i <= n
    BY <1>1, <1>5, <2>1
  <2>2. CASE ~ (i <= n)
    <3>1. PICK k \in 1 .. m - n : i = n + k
      BY <2>2
    <3> QED
      BY <1>2, <1>5, <3>1
  <2> QED
    BY <2>1, <2>2
<1>7. IsStart(T, both, bytes, m)
  BY <1>5, <1>6 DEF IsStart
<1> QED
  BY <1>3, <1>7, Zenon

LEMMA StartIs ==
  ASSUME NEW T, NEW bytes \in Seq(T), NEW n \in Nat, n <= Len(bytes),
         NEW got, IsStart(T, got, bytes, n)
  PROVE  got = SubSeq(bytes, 1, n)
<1>1. PICK p : p = SubSeq(bytes, 1, n)
  OBVIOUS
<1>2. IsStart(T, p, bytes, n)
  BY <1>1, Begun
<1>3. got = p
  BY <1>2, SeqEqual DEF IsStart
<1> QED
  BY <1>1, <1>3

LEMMA LoadChunkStep ==
  ASSUME IInv, LoadChunk
  PROVE  IInv'
<1>0. Contents /\ Streams /\ Loading /\ Found
  BY DEF IInv
<1>1. /\ Chunk \in Nat \ {0} /\ Read(loader.fd, Chunk)
      /\ UNCHANGED <<tree, data, dangling, made>>
  BY RamfsAssumption DEF LoadChunk
<1>2. PICK chunk, fd : /\ chunk \in Seq(Nat) /\ chunk = Available(loader.fd, Chunk)
                       /\ fd = loader.fd
  BY <1>0, <1>1, ReadMoves
<1>3. /\ fd \in DOMAIN file_streams \ dangling
      /\ Streams' /\ DOMAIN file_streams' = DOMAIN file_streams
      /\ file_streams'[fd] = [file |-> file_streams[fd].file,
                              pos |-> file_streams[fd].pos + Len(chunk)]
  BY <1>0, <1>1, <1>2, ReadMoves
<1>4. PICK both \in Seq(Nat) : both = loader.got \o chunk
  <2>1. PICK got \in Seq(Nat) : got = loader.got
    BY <1>0 DEF Loading
  <2>2. PICK both : both = got \o chunk
    OBVIOUS
  <2>5. chunk \in Seq(Nat)
    BY <1>2
  <2>3. IsJoin(Nat, both, got, chunk)
    BY <2>2, <2>5, Joined
  <2>4. both \in Seq(Nat)
    BY <2>3 DEF IsJoin
  <2> QED
    BY <2>1, <2>2, <2>4, Zenon
<1>5. /\ loader.pc = "reading"
      /\ loader' = [loader EXCEPT !.got = both, !.pc = IF LastChunk(chunk) THEN "done" ELSE @]
  BY <1>2, <1>4 DEF LoadChunk
<1>6. /\ loader'.got = both /\ loader'.fd = fd /\ loader'.file = loader.file
      /\ loader'.quiet = loader.quiet
      /\ loader'.pc = IF LastChunk(chunk) THEN "done" ELSE "reading"
      /\ loader' \in [pc : {"idle", "reading", "done"}, fd : Fd \cup {Nobody},
                      file : Obj \cup {Nobody}, got : Seq(Nat), quiet : BOOLEAN]
  BY <1>0, <1>2, <1>5 DEF Loading
<1>7. ASSUME loader.quiet
      PROVE  /\ file_streams'[fd] = [file |-> loader.file, pos |-> Len(both)]
             /\ Len(both) <= Len(data[loader.file])
             /\ both = SubSeq(data[loader.file], 1, Len(both))
             /\ LastChunk(chunk) => Len(both) = Len(data[loader.file])
  <2>1. /\ loader.file \in DOMAIN data /\ loader.got \in Seq(Nat)
        /\ file_streams[fd] = [file |-> loader.file, pos |-> Len(loader.got)]
        /\ Len(loader.got) <= Len(data[loader.file])
        /\ loader.got = SubSeq(data[loader.file], 1, Len(loader.got))
    BY <1>0, <1>2, <1>7 DEF Loading
  <2>2. PICK bytes \in Seq(Nat), n \in Nat, got \in Seq(Nat) :
          /\ bytes = data[loader.file] /\ got = loader.got /\ n = Len(got)
          /\ n <= Len(bytes) /\ got = SubSeq(bytes, 1, n)
    <3>1. PICK bytes \in Seq(Nat) : bytes = data[loader.file]
      BY <1>0, <2>1 DEF Contents
    <3>2. PICK got \in Seq(Nat) : got = loader.got
      BY <2>1
    <3>3. PICK n \in Nat : n = Len(got)
      OBVIOUS
    <3>4. n <= Len(bytes) /\ got = SubSeq(bytes, 1, n)
      BY <2>1, <3>1, <3>2, <3>3, Zenon
    <3> QED
      BY <3>1, <3>2, <3>3, <3>4
  <2>3. file_streams[fd].file = loader.file /\ file_streams[fd].pos = n
    BY <2>1, <2>2
  <2>4. \/ n >= Len(bytes) /\ chunk = <<>>
        \/ \E m \in Nat : /\ n < m /\ m <= Len(bytes)
                          /\ m = Len(bytes) \/ m = n + Chunk
                          /\ IsPart(Nat, chunk, bytes, n, m)
    <3>1. /\ bytes = data[file_streams[fd].file] /\ n = file_streams[fd].pos
          /\ chunk = Available(fd, Chunk)
      BY <1>2, <2>2, <2>3
    <3>2. IsChunk(Available(fd, Chunk), data[file_streams[fd].file], file_streams[fd].pos, Chunk)
      BY <1>0, <1>1, <1>3, AvailableIs
    <3>3. IsChunk(chunk, bytes, n, Chunk)
      BY <3>1, <3>2, Zenon
    <3>4. n \in Nat
      BY <2>2
    <3> QED
      BY <3>3, <3>4 DEF IsChunk
  <2>5. CASE n >= Len(bytes) /\ chunk = <<>>
    <3>1. both = got /\ Len(both) = n /\ n = Len(bytes) /\ Len(chunk) = 0
      BY <1>4, <2>2, <2>5
    <3> QED
      BY <1>3, <2>2, <2>3, <3>1
  <2>6. CASE \E m \in Nat : /\ n < m /\ m <= Len(bytes)
                            /\ m = Len(bytes) \/ m = n + Chunk
                            /\ IsPart(Nat, chunk, bytes, n, m)
    <3>1. PICK m \in Nat : /\ n < m /\ m <= Len(bytes)
                           /\ m = Len(bytes) \/ m = n + Chunk
                           /\ IsPart(Nat, chunk, bytes, n, m)
      BY <2>6
    <3>2. both = got \o chunk
      BY <1>4, <2>2
    <3>3. both = SubSeq(bytes, 1, m) /\ Len(both) = m
      <4>1. IsStart(Nat, SubSeq(bytes, 1, n), bytes, n)
        BY <2>2, Begun
      <4>2. IsStart(Nat, got, bytes, n)
        BY <2>2, <4>1, Zenon
      <4>3. n <= m /\ m <= Len(bytes)
        BY <3>1
      <4>4. IsStart(Nat, got \o chunk, bytes, m)
        BY <3>1, <4>2, <4>3, StartGrows
      <4>5. IsStart(Nat, both, bytes, m)
        BY <3>2, <4>4, Zenon
      <4>6. both = SubSeq(bytes, 1, m)
        BY <4>3, <4>5, StartIs
      <4> QED
        BY <4>5, <4>6 DEF IsStart
    <3>4. Len(chunk) = m - n
      BY <3>1 DEF IsPart
    <3>5. LastChunk(chunk) => m = Len(bytes)
      BY <1>1, <3>1, <3>4 DEF LastChunk
    <3>6. n + Len(chunk) = m
      BY <3>4
    <3> QED
      BY <1>3, <2>2, <2>3, <3>1, <3>3, <3>5, <3>6
  <2> QED
    BY <2>4, <2>5, <2>6
<1>8. Loading'
  <2>1. loader'.quiet => /\ loader'.file \in DOMAIN data' /\ loader'.fd \in DOMAIN file_streams'
    BY <1>0, <1>1, <1>3, <1>6 DEF Loading
  <2>2. loader'.pc # "idle"
    BY <1>6
  <2> QED
    BY <1>1, <1>6, <1>7, <2>1, <2>2 DEF Loading
<1>9. Contents' /\ Found'
  BY <1>0, <1>1, TreeGrows DEF Contents, tree
<1> QED
  BY <1>3, <1>8, <1>9 DEF IInv

-----------------------------------------------------------------------------
(* The theorems.                                                             *)

LEMMA InitIInv ==
  ASSUME Init
  PROVE  IInv
<1>1. PICK file \in Obj, bytes \in Boot :
        /\ files = With(<<>>, <<Root, <<BootName>>>>, file)
        /\ data = With(<<>>, file, bytes)
        /\ made = With(<<>>, <<BootName>>, file)
  BY DEF Init
<1>10. \A x, v : /\ DOMAIN With(<<>>, x, v) = {x} /\ With(<<>>, x, v)[x] = v
                /\ With(<<>>, x, v) = [y \in {x} |-> v]
  BY DEF With
<1>2. dirs = {Root} /\ file_streams = <<>> /\ dangling = {} /\ loader = Idle
  BY DEF Init
<1>3. PICK path : path = <<BootName>>
  OBVIOUS
<1>4. /\ path \in Seq(Name) \ {Root} /\ Front(path) = Root /\ Len(path) = 1
      /\ Place(path) = <<Root, <<BootName>>>>
  <2>1. path \in Seq(Name) /\ path # Root /\ Len(path) = 1 /\ path[1] = BootName
    BY <1>3, RamfsAssumption DEF Root
  <2>2. Front(path) \in Seq(Name) /\ Len(Front(path)) = 0 /\ Last(path) = BootName
    BY <2>1, PathParts
  <2>3. Front(path) = Root
    BY <2>2, EmptySeq DEF Root
  <2>4. Node(Root) = Root
    BY DEF Node, Root
  <2> QED
    BY <2>1, <2>2, <2>3, <2>4 DEF Place
<1>5. Contents
  <2>1. bytes \in Seq(Nat)
    BY RamfsAssumption
  <2>2. DOMAIN data = {file} /\ data[file] = bytes /\ data \in [{file} -> Seq(Nat)]
    <3>1. DOMAIN data = {file} /\ data[file] = bytes /\ data = [y \in {file} |-> bytes]
      BY <1>1, <1>10, Zenon
    <3> QED
      BY <2>1, <3>1
  <2>3. DOMAIN files = {<<Root, <<BootName>>>>} /\ files[<<Root, <<BootName>>>>] = file
    BY <1>1, <1>10
  <2> QED
    BY <2>2, <2>3 DEF Contents
<1>6. Streams
  BY <1>2 DEF Streams
<1>7. Loading
  BY <1>2 DEF Loading, Idle
<1>8. Found
  <2>1. DOMAIN made = {path} /\ made[path] = file
    BY <1>1, <1>3, <1>10
  <2>2. Place(path) \in DOMAIN files /\ files[Place(path)] = file
    <3>1. /\ DOMAIN files = {<<Root, <<BootName>>>>}
          /\ files[<<Root, <<BootName>>>>] = file
      BY <1>1, <1>10, Zenon
    <3> QED
      BY <1>4, <3>1
  <2>3. HasDirectory(Root)
    <3>1. Len(Root) = 0 /\ Node(Root) = Root /\ SubSeq(Root, 1, 0) = Root
      BY DEF Root, Node
    <3> QED
      BY <1>2, <3>1 DEF HasDirectory
  <2>4. IsAt(path)
    BY <1>4, <2>1, <2>2, <2>3 DEF IsAt
  <2> QED
    BY <1>2, <1>4, <2>1, <2>4 DEF Found
<1> QED
  BY <1>5, <1>6, <1>7, <1>8 DEF IInv

LEMMA UseStep ==
  ASSUME IInv, NEW fd \in Usable, Use(fd)
  PROVE  IInv'
<1>0. Contents /\ Streams /\ Loading /\ Found
  BY DEF IInv
<1>1. CASE /\ \E len \in Lengths : Read(fd, len)
           /\ UNCHANGED <<tree, data, dir_streams, dangling, broken, loader, made>>
  BY <1>1, ReadStep
<1>2. CASE \E len \in Lengths : Write(fd, len) /\ UNCHANGED <<tree, dir_streams, dangling, made>>
  BY <1>2, WriteStep
<1>3. CASE /\ \E off \in Offsets, whence \in {"set", "cur", "end"} : Seek(fd, off, whence)
           /\ UNCHANGED <<tree, data, dir_streams, dangling, broken, loader, made>>
  BY <1>3, SeekStep
<1>4. CASE UNCHANGED <<tree, data, file_streams, dangling, loader, made>>
  <2>1. Contents' /\ Streams' /\ Loading'
    BY <1>0, <1>4 DEF Contents, Streams, Loading, tree
  <2>2. Found'
    BY <1>0, <1>4, TreeGrows DEF tree
  <2> QED
    BY <2>1, <2>2 DEF IInv
<1>5. ReadDirectory(fd) /\ UNCHANGED <<tree, data, file_streams, dangling, broken, loader, made>>
        => UNCHANGED <<tree, data, file_streams, dangling, loader, made>>
  OBVIOUS
<1>6. UseDangling(fd) /\ UNCHANGED <<tree, data, streams, loader, made>>
        => UNCHANGED <<tree, data, file_streams, dangling, loader, made>>
  BY DEF streams
<1> QED
  BY <1>1, <1>2, <1>3, <1>4, <1>5, <1>6 DEF Use

\* The steps that touch no file and no file stream.
LEMMA TreeOnly ==
  ASSUME IInv, dirs \subseteq dirs',
         UNCHANGED <<files, data, file_streams, dangling, loader, made>>
  PROVE  IInv'
<1>1. Contents' /\ Streams' /\ Loading'
  BY DEF IInv, Contents, Streams, Loading
<1>2. Found'
  BY TreeGrows DEF IInv
<1> QED
  BY <1>1, <1>2 DEF IInv

LEMMA StepKeepsIInv ==
  ASSUME IInv, [Next]_vars
  PROVE  IInv'
<1>1. ASSUME NEW path \in Path, Create(path) PROVE IInv'
  BY <1>1, CreateStep
<1>2. ASSUME NEW path \in Path, RemovePath(path) PROVE IInv'
  BY <1>2, RemoveStep
<1>3. ASSUME NEW path \in Path, OpenFails(path) PROVE IInv'
  <2>1. dirs \subseteq dirs' /\ UNCHANGED <<files, data, file_streams, dangling, loader, made>>
    BY <1>3 DEF OpenFails, CreateFails, CreateDirectories, streams
  <2> QED
    BY <2>1, TreeOnly
<1>4. ASSUME NEW path \in Path, NEW fd \in Fd, OpenFile(path, fd) /\ UNCHANGED loader PROVE IInv'
  BY <1>4, OpenFileStep
<1>5. ASSUME NEW path \in Path, NEW fd \in Fd, OpenDirectory(path, fd) PROVE IInv'
  <2>1. dirs \subseteq dirs' /\ UNCHANGED <<files, data, file_streams, dangling, loader, made>>
    BY <1>5 DEF OpenDirectory, tree
  <2> QED
    BY <2>1, TreeOnly
<1>6. ASSUME NEW path \in Path, NEW fd \in Fd, LoadStart(path, fd) PROVE IInv'
  BY <1>6, LoadStartStep
<1>7. ASSUME NEW fd \in Usable, Use(fd) PROVE IInv'
  BY <1>7, UseStep
<1>8. CASE LoadChunk
  BY <1>8, LoadChunkStep
<1>9. CASE UNCHANGED vars
  <2>1. dirs \subseteq dirs' /\ UNCHANGED <<files, data, file_streams, dangling, loader, made>>
    BY <1>9 DEF vars, tree, streams
  <2> QED
    BY <2>1, TreeOnly
<1> QED
  BY <1>1, <1>2, <1>3, <1>4, <1>5, <1>6, <1>7, <1>8, <1>9 DEF Next

\* The invariant holds whatever the clients do: files have their bytes and
\* their places, open streams their files, and the loader is where it thinks.
THEOREM IInvHolds == Spec => []IInv
<1>1. Init => IInv
  BY InitIInv
<1>2. IInv /\ [Next]_vars => IInv'
  BY StepKeepsIInv
<1> QED
  BY <1>1, <1>2, PTL DEF Spec

\* A file is found where it was made, whatever was created or removed around
\* it since.
THEOREM FilesFoundAgain == Spec => []FoundAgain
<1>1. IInv => FoundAgain
  <2> SUFFICES ASSUME IInv, NEW path \in DOMAIN made, Len(path) <= 3
               PROVE  \E place \in FindFile(path) : files[place] = made[path]
    BY DEF FoundAgain
  <2>1. IsAt(path) /\ path # Root
    BY DEF IInv, Found
  <2>2. Place(path) \in FindFile(path) /\ files[Place(path)] = made[path]
    BY <2>1 DEF IsAt, Place, FindFile
  <2> QED
    BY <2>2
<1> QED
  BY <1>1, IInvHolds, PTL

\* The loader has the whole of a file that nobody wrote or removed meanwhile,
\* in order and once, for files of any length.
THEOREM ProgramLoadedWhole == Spec => []LoadedWhole
<1>1. IInv => LoadedWhole
  <2> SUFFICES ASSUME IInv, loader.pc = "done", loader.quiet
               PROVE  loader.got = data[loader.file]
    BY DEF LoadedWhole
  <2>1. PICK bytes \in Seq(Nat) : bytes = data[loader.file]
    BY DEF IInv, Loading, Contents
  <2>2. loader.got = SubSeq(bytes, 1, Len(bytes))
    BY <2>1 DEF IInv, Loading
  <2>3. SubSeq(bytes, 1, Len(bytes)) = bytes
    OBVIOUS
  <2> QED
    BY <2>1, <2>2, <2>3
<1> QED
  BY <1>1, IInvHolds, PTL

\* What a step may do to the bytes of a file that stays.
WriteInside ==
  \A file \in DOMAIN data \cap DOMAIN data' : data'[file] # data[file] =>
    \E fd \in DOMAIN file_streams :
      LET from == file_streams[fd].pos  to == file_streams'[fd].pos IN
      /\ file_streams[fd].file = file /\ from < to
      /\ Len(data[file]) <= Len(data'[file])
      /\ \A i \in 1 .. Len(data'[file]) \ (from + 1 .. to) :
           data'[file][i] = IF i <= Len(data[file]) THEN data[file][i] ELSE 0

LEMMA WriteIsInside ==
  ASSUME IInv, NEW fd \in Usable, NEW len \in Lengths, Write(fd, len),
         UNCHANGED <<tree, dangling>>
  PROVE  WriteInside
<1>0. Contents /\ Streams
  BY DEF IInv
<1>1. fd \in DOMAIN file_streams
  BY DEF Write
<1>2. PICK file, pos, to : /\ file = file_streams[fd].file
                           /\ pos = file_streams[fd].pos /\ to = pos + len
  OBVIOUS
<1>3. CASE file_streams[fd].pos < 0
  <2>1. data' = data
    BY <1>3 DEF Write
  <2> QED
    BY <2>1 DEF WriteInside
<1>4. CASE ~ (file_streams[fd].pos < 0)
  <2>1. pos >= 0
    BY <1>0, <1>1, <1>2, <1>4, Streamed
  <2>2. /\ pos < to /\ file_streams'[fd].pos = to
        /\ \A x \in DOMAIN data \ {file} : data'[x] = data[x]
        /\ Len(data[file]) <= Len(data'[file])
        /\ \A i \in 1 .. Len(data'[file]) :
             data'[file][i] = IF i \in pos + 1 .. to THEN 1
                              ELSE IF i <= Len(data[file]) THEN data[file][i] ELSE 0
    BY <1>0, <1>2, <2>1, WriteChanges
  <2>3. \A i \in 1 .. Len(data'[file]) \ (pos + 1 .. to) :
          data'[file][i] = IF i <= Len(data[file]) THEN data[file][i] ELSE 0
    BY <2>2
  <2>4. ASSUME NEW x \in DOMAIN data \cap DOMAIN data', data'[x] # data[x]
        PROVE  \E y \in DOMAIN file_streams :
                 LET from == file_streams[y].pos  end == file_streams'[y].pos IN
                 /\ file_streams[y].file = x /\ from < end
                 /\ Len(data[x]) <= Len(data'[x])
                 /\ \A i \in 1 .. Len(data'[x]) \ (from + 1 .. end) :
                      data'[x][i] = IF i <= Len(data[x]) THEN data[x][i] ELSE 0
    <3>1. x = file
      BY <2>2, <2>4
    <3>2. fd \in DOMAIN file_streams
      BY <1>1
    <3> WITNESS fd \in DOMAIN file_streams
    <3> QED
      BY <1>2, <2>2, <2>3, <3>1
  <2> QED
    BY <2>4, Zenon DEF WriteInside
<1> QED
  BY <1>3, <1>4

LEMMA StepsWriteInside ==
  ASSUME IInv, [Next]_vars
  PROVE  [WriteInside]_vars
<1>0. (\A file \in DOMAIN data \cap DOMAIN data' : data'[file] = data[file]) => WriteInside
  BY DEF WriteInside
<1>1. ASSUME NEW path \in Path, NEW file \in Obj, CreateFile(path, file) PROVE WriteInside
  <2>1. \A x \in DOMAIN data : data'[x] = data[x]
    BY <1>1 DEF CreateFile, With
  <2> QED
    BY <1>0, <2>1
<1>2. ASSUME NEW path \in Path, RemovePath(path) PROVE WriteInside
  <2>1. \E xs : data' = Without(data, xs)
    BY <1>2 DEF RemovePath, Forget
  <2> QED
    BY <1>0, <2>1 DEF Without
<1>3. data' = data => WriteInside
  BY <1>0
<1>4. ASSUME NEW path \in Path, Create(path) PROVE WriteInside
  BY <1>1, <1>3, <1>4 DEF Create, CreateFails
<1>5. ASSUME NEW path \in Path, NEW fd, OpenFile(path, fd) PROVE WriteInside
  BY <1>1, <1>3, <1>5 DEF OpenFile
<1>6. ASSUME NEW path \in Path, NEW fd, OpenDirectory(path, fd) PROVE WriteInside
  BY <1>3, <1>6 DEF OpenDirectory
<1>7. ASSUME NEW path \in Path, OpenFails(path) PROVE WriteInside
  BY <1>3, <1>7 DEF OpenFails, CreateFails
<1>8. ASSUME NEW fd \in Usable, Use(fd) PROVE WriteInside
  <2>1. CASE \E len \in Lengths : Write(fd, len) /\ UNCHANGED <<tree, dir_streams, dangling, made>>
    BY <2>1, WriteIsInside
  <2>2. CASE data' = data
    BY <1>3, <2>2
  <2> QED
    BY <1>8, <2>1, <2>2 DEF Use
<1>9. CASE LoadChunk
  BY <1>3, <1>9 DEF LoadChunk
<1>10. CASE UNCHANGED vars
  BY <1>10
<1> QED
  BY <1>2, <1>4, <1>5, <1>6, <1>7, <1>8, <1>9, <1>10 DEF Next, LoadStart

\* No step changes a file but a write, and that only where it writes and by
\* zeros up to there: streams on one file do not undo each other's writes.
THEOREM WritesKeepOthers == Spec => WritesStayInside
<1>1. IInv /\ [Next]_vars => [WriteInside]_vars
  BY StepsWriteInside
<1>2. Spec => [][WriteInside]_vars
  BY <1>1, IInvHolds, PTL DEF Spec
<1> QED
  BY <1>2 DEF WritesStayInside, WriteInside
=============================================================================
