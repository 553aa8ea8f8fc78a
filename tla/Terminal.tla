------------------------------ MODULE Terminal ------------------------------
(***************************************************************************)
(* How programs read and write the terminal: a read of stdio is a request  *)
(* to fs, which asks cons for one piece after another, and cons its        *)
(* console.  fs and cons serve one request at a time and wait for the      *)
(* answers to their own calls, so a request that does not wait for keys is *)
(* one action, and a read is what happens between its calls of cons.       *)
(*                                                                         *)
(* Requests that change nothing, such as one with a descriptor that fs     *)
(* does not know or with more than FS_READ_MAX_SIZE, are not steps.        *)
(***************************************************************************)
EXTENDS Console

CONSTANTS
  Client,  \* programs
  Fd,      \* descriptors; bound: how many are opened
  Nobody

Char == Typed \cup {Newline}

\* A read as fs serves it: before and after its calls of cons.
ReadRequest == [client: Client, size: Nat, got: Seq(Char), pc: {"call", "wait", "done"}]

ASSUME TerminalAssumption == Nobody \notin Fd /\ Nobody \notin ReadRequest

VARIABLES
  open_files,  \* of cons
  fd_fs_table, \* of fs: the descriptors of cons
  fd,          \* client -> its descriptor, or Nobody
  req,         \* the read that fs is serving, or Nobody
  pending      \* history: what lines had in them when they were ended, and
               \* no reader has been given yet

files == <<open_files, fd_fs_table, fd>>
all == <<vars, files, req, pending>>

-----------------------------------------------------------------------------
(* The tree of cons, and opening and closing.                              *)

\* What cons_init creates, and the file in it.
Device == <<"tty", "0">>
Tree == {SubSeq(Device, 1, n) : n \in 0 .. Len(Device)}

\* find_directory finds no empty path.
Found(path) == path # <<>> /\ path \in Tree

Paths == Tree \cup {<<"0">>, <<"tty", "1">>, <<"tty", "0", "x">>}

FsIdle == req = Nobody

\* fs enters the descriptor that cons has made, and cons makes it for files.
Open(c, path) ==
  /\ FsIdle /\ fd[c] = Nobody
  /\ Found(path) /\ path = Device
  /\ \E f \in Fd \ open_files :
       /\ open_files' = open_files \cup {f}
       /\ fd_fs_table' = fd_fs_table \cup {f}
       /\ fd' = [fd EXCEPT ![c] = f]
  /\ UNCHANGED <<vars, req, pending>>

ConsClose(f) == open_files \ {f}

Close(c) ==
  /\ FsIdle /\ fd[c] \in fd_fs_table
  /\ open_files' = ConsClose(fd[c])
  /\ fd_fs_table' = fd_fs_table \ {fd[c]}
  /\ fd' = [fd EXCEPT ![c] = Nobody]
  /\ UNCHANGED <<vars, req, pending>>

\* A program ends.  stdio does not close what it has opened.
Exit(c) ==
  /\ fd[c] # Nobody /\ ~(req # Nobody /\ req.client = c)
  /\ fd' = [fd EXCEPT ![c] = Nobody]
  /\ UNCHANGED <<vars, open_files, fd_fs_table, req, pending>>

-----------------------------------------------------------------------------
(* Reading.                                                                *)

Request(c, size) ==
  /\ FsIdle /\ fd[c] \in fd_fs_table
  /\ req' = [client |-> c, size |-> size, got |-> <<>>, pc |-> "call"]
  /\ UNCHANGED <<vars, files, pending>>

\* Mutant: every call asks for the whole size again.
BugLength(r) == r.size

\* What a call asks for: as much as is missing.
Length(r) == r.size - Len(r.got)

ReadCall ==
  /\ ~FsIdle /\ req.pc = "call"
  /\ fd[req.client] \in open_files
  /\ Read(Length(req))
  /\ req' = [req EXCEPT !.pc = "wait"]
  /\ UNCHANGED <<files, pending>>

KeyPressed == Edit /\ UNCHANGED <<files, req, pending>>

\* A key ends the line.  Inside an escape sequence it adds no newline.
LineEnded ==
  /\ End
  /\ pending' = pending \o buffer \o (IF esc_buffer = <<>> THEN <<Newline>> ELSE <<>>)
  /\ UNCHANGED <<files, req>>

\* fs goes on until it has all that was asked for, or gets an empty piece.
AfterPiece(piece, r) ==
  IF piece # <<>> /\ Len(r.got) + Len(piece) < r.size THEN "call" ELSE "done"

Piece ==
  /\ ~FsIdle /\ req.pc = "wait" /\ status = "idle"
  /\ req' = [req EXCEPT !.got = @ \o given, !.pc = AfterPiece(given, req)]
  /\ given' = <<>>
  /\ UNCHANGED <<console, status, max_size, terminal, history, files, pending>>

Answer ==
  /\ ~FsIdle /\ req.pc = "done"
  /\ req' = Nobody
  /\ pending' = SubSeq(pending, Len(req.got) + 1, Len(pending))
  /\ UNCHANGED <<vars, files>>

Output(c, ch) ==
  /\ FsIdle /\ fd[c] \in fd_fs_table \cap open_files
  /\ Write(ch)
  /\ UNCHANGED <<files, req, pending>>

-----------------------------------------------------------------------------

TerminalInit ==
  /\ Init
  /\ open_files = {} /\ fd_fs_table = {} /\ fd = [c \in Client |-> Nobody]
  /\ req = Nobody /\ pending = <<>>

Use(c) ==
  \/ \E path \in Paths : Open(c, path)
  \/ Close(c)
  \/ Exit(c)
  \/ \E size \in MaxSizes : Request(c, size)
  \/ \E ch \in {"p", Newline} : Output(c, ch)

Serve == ReadCall \/ Piece \/ Answer

TerminalNext == (\E c \in Client : Use(c)) \/ Serve \/ KeyPressed \/ LineEnded

TerminalSpec == TerminalInit /\ [][TerminalNext]_all

-----------------------------------------------------------------------------

\* Whatever was in a line when it was ended is given to readers once and in
\* order: over several reads and readers, over the pieces that fs makes one
\* read of, and over the lines that a large read takes.
NothingLost ==
  LET unread == IF status = "reading" THEN <<>> ELSE buffer
      taken  == IF FsIdle THEN <<>> ELSE req.got
  IN status # "undefined" => taken \o given \o unread = pending

\* A read that returns has all the characters it asked for: a line that is
\* shorter does not end it, it waits for the next line.  Only a line that is
\* ended inside an escape sequence can end a read early, with nothing left
\* to give: then a program sees the end of its input.
ReadsWhole ==
  ~FsIdle /\ req.pc = "done" =>
    Len(req.got) = req.size \/ (cut /\ buffer = <<>>)

=============================================================================
