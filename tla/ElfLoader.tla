------------------------------ MODULE ElfLoader ------------------------------
(***************************************************************************)
(* The two loaders of programs: apm's, which reads segments from a stream, *)
(* page by page, and init's, which copies them from the boot archive for   *)
(* the first tasks.  Both map a page of the new task at a time, with data  *)
(* or without, through mm.                                                 *)
(*                                                                         *)
(* Addresses count bytes.  The byte at position k of a program's file is   *)
(* k + 1, to tell it from zeros and from all others.  What is refused for  *)
(* its format, or because nothing can be mapped there, is one outcome.     *)
(***************************************************************************)
EXTENDS Integers, Sequences, FiniteSets, SequencesExt

CONSTANTS
  P,        \* KILO_PAGE_SIZE
  Programs  \* programs: sequences of segments of type load

Segment == [p_vaddr: Nat, p_offset: Nat, p_filesz: Nat, p_memsz: Nat]

ASSUME ElfLoaderAssumption == P \in Nat \ {0} /\ Programs \subseteq Seq(Segment)

VARIABLES
  loader,  \* apm or init
  program, \* the segments of the program
  index,   \* the segment that is being loaded
  written, \* how much of it is done; -1 before anything is
  stream,  \* apm: the position of its stream in the file
  image,   \* address of a page -> its bytes, in the new task
  pc       \* loading, done or refused

elf_vars == <<loader, program, index, written, stream, image, pc>>

Zeros == [k \in 0 .. P - 1 |-> 0]

\* What a page becomes that has len bytes of the file, from a position on,
\* behind a number of zeros.
Filled(start, pos, len) ==
  [k \in 0 .. P - 1 |-> IF k \in start .. start + len - 1 THEN pos + (k - start) + 1 ELSE 0]

\* Nothing may be mapped there yet.
MapPage(va, bytes) ==
  /\ va \notin DOMAIN image
  /\ image' = [a \in DOMAIN image \cup {va} |-> IF a = va THEN bytes ELSE image[a]]

seg      == program[index]
PageBase == (seg.p_vaddr \div P) * P
Offset   == seg.p_vaddr % P

\* Programs whose segments have more in the file than in memory are refused
\* before anything is mapped.
Valid == \A s \in Range(program) : s.p_filesz <= s.p_memsz

-----------------------------------------------------------------------------
(* apm                                                                     *)

\* The first page, if the segment begins inside it.
FirstPage ==
  LET len == Min({P - Offset, seg.p_filesz}) IN
  /\ written = -1
  /\ IF Offset = 0
     THEN written' = 0 /\ stream' = seg.p_offset /\ UNCHANGED image
     ELSE /\ MapPage(PageBase, Filled(Offset, seg.p_offset, len))
          /\ stream' = seg.p_offset + len
          /\ written' = P - Offset

\* Mutant: the page is filled up from the file.
BugFilePageLength == P

FilePageLength == Min({P, seg.p_filesz - written})

FilePage ==
  /\ written >= 0 /\ written < seg.p_filesz
  /\ MapPage(PageBase + Offset + written, Filled(0, stream, FilePageLength))
  /\ stream' = stream + FilePageLength
  /\ written' = written + P

ZeroPage ==
  /\ written >= seg.p_filesz /\ written < seg.p_memsz /\ written # -1
  /\ MapPage(PageBase + Offset + written, Zeros)
  /\ written' = written + P
  /\ UNCHANGED stream

AllWritten == written # -1 /\ written >= seg.p_memsz

-----------------------------------------------------------------------------
(* init                                                                    *)

InitEnd == ((seg.p_vaddr + seg.p_memsz + P - 1) \div P) * P

\* Where the page at an offset from the first page gets its data.  It does
\* not begin in the file where the page before it ended, if the segment does
\* not begin with its first page.
InitPage(offset) ==
  LET start == IF offset = 0 THEN Offset ELSE 0
      end   == Min({P, seg.p_filesz + Offset - offset})
  IN  IF offset < seg.p_filesz + Offset
      THEN Filled(start, seg.p_offset + offset, end - start)
      ELSE Zeros

\* The loop over pages; here written is the offset of the next one.
InitPages ==
  \/ written = -1 /\ written' = 0 /\ UNCHANGED <<image, stream>>
  \/ /\ written # -1 /\ PageBase + written < InitEnd
     /\ MapPage(PageBase + written, InitPage(written))
     /\ written' = written + P
     /\ UNCHANGED stream

InitAllWritten == written # -1 /\ PageBase + written >= InitEnd

-----------------------------------------------------------------------------

LoadPage ==
  /\ pc = "loading" /\ index <= Len(program) /\ Valid
  /\ \/ loader = "apm" /\ (FirstPage \/ FilePage \/ ZeroPage)
     \/ loader = "init" /\ InitPages
  /\ UNCHANGED <<loader, program, index, pc>>

NextSegment ==
  /\ pc = "loading" /\ index <= Len(program) /\ Valid
  /\ IF loader = "apm" THEN AllWritten ELSE InitAllWritten
  /\ index' = index + 1 /\ written' = -1
  /\ UNCHANGED <<loader, program, stream, image, pc>>

Finish ==
  /\ pc = "loading" /\ index > Len(program) /\ Valid
  /\ pc' = "done"
  /\ UNCHANGED <<loader, program, index, written, stream, image>>

Refuse ==
  /\ pc = "loading" /\ pc' = "refused"
  /\ UNCHANGED <<loader, program, index, written, stream, image>>

ElfInit ==
  /\ loader \in {"apm", "init"} /\ program \in Programs
  /\ index = 1 /\ written = -1 /\ stream = 0
  /\ image = <<>>
  /\ pc = "loading"

ElfNext == LoadPage \/ NextSegment \/ Finish \/ Refuse

ElfSpec == ElfInit /\ [][ElfNext]_elf_vars

-----------------------------------------------------------------------------

\* A segment that init loads right: it begins with a page, or what it has in
\* the file ends in its first page.
Straight(s) ==
  loader = "init" => s.p_vaddr % P = 0 \/ (s.p_vaddr % P) + s.p_filesz <= P

\* The byte of the image at an address, Nothing if it is not mapped.
Nothing == -1
ByteAt(va) ==
  LET page == (va \div P) * P IN IF page \in DOMAIN image THEN image[page][va % P] ELSE Nothing

\* A program that is loaded is in memory as its segments say: each has what
\* the file has, then zeros, up to its size, at every alignment and length of
\* segment; no page of one segment covers another's; and what else is in the
\* pages is zero, nothing of the file or of the buffer.
ImageLoaded ==
  pc = "done" /\ (\A s \in Range(program) : Straight(s)) =>
    /\ \A s \in Range(program) : \A k \in 0 .. s.p_memsz - 1 :
         ByteAt(s.p_vaddr + k) = IF k < s.p_filesz THEN s.p_offset + k + 1 ELSE 0
    /\ \A page \in DOMAIN image, k \in 0 .. P - 1 :
         image[page][k] = 0
         \/ \E s \in Range(program) : page + k - s.p_vaddr \in 0 .. s.p_filesz - 1
=============================================================================
