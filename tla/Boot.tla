--------------------------------- MODULE Boot ---------------------------------
(***************************************************************************)
(* The boot of the system and the shell it ends in: eight tasks and the    *)
(* programs the shell starts, each a loop of its own, that start one       *)
(* another and call one another.  A call blocks its caller until it is     *)
(* answered; a server answers one call before it receives the next, and    *)
(* while it serves it may itself have to call another.                     *)
(*                                                                         *)
(* A task is the list of what it still has to do.  mm is left out: every   *)
(* task calls it, and it calls nobody.                                     *)
(***************************************************************************)
EXTENDS Integers, Sequences

Task == {"init", "apm", "fs", "ramfs", "dm", "uart", "cons", "shell", "app"}
Nobody == "nobody"

VARIABLES
  todo,    \* task -> what it has to do; nothing: not started, or ended
  caller,  \* task -> whose call it serves
  ok,      \* task -> does it grant the call it serves
  named,   \* apm: the names in task_table
  mounted, \* fs: the mount points
  opened,  \* <<task, mount point>>: the files tasks have open in file systems
  watch,   \* kernel: the notification of the program's end, none | set | sent
  gave_up  \* history: tasks that ended because they were refused something

vars == <<todo, caller, ok, named, mounted, opened, watch, gave_up>>

-----------------------------------------------------------------------------
(* What tasks do.                                                          *)

Do(what, arg) == [do |-> what, to |-> Nobody, req |-> "", arg |-> arg, refused |-> ""]

\* A call whose caller gives up if it is refused, goes on, or calls again.
Call(server, req, arg) ==
  [do |-> "call", to |-> server, req |-> req, arg |-> arg, refused |-> "give up"]
Try(server, req, arg)  == [Call(server, req, arg) EXCEPT !.refused = "go on"]
Poll(server, req, arg) == [Call(server, req, arg) EXCEPT !.refused = "again"]

Send(task) == [Do("send", "") EXCEPT !.to = task]
Receive    == Do("receive", "")
Serve      == Do("serve", "")

\* The C runtime of every task but init and apm, before main: find fs and
\* open the terminal, which need not be there (one open for all of stdio).
Startup == <<Try("apm", "lookup", "fs"), Try("fs", "open", "/cons")>>

\* Mutant: init does not wait for the console.
BugLaunch ==
  << Do("start", "apm"), Receive,
     Call("apm", "attach", "fs"), Do("start", "fs"), Try("apm", "lookup", "fs"),
     Call("apm", "attach", "ramfs"), Do("start", "ramfs"), Poll("fs", "mounted", "/init"),
     Call("apm", "create", "dm"), Call("apm", "lookup", "dm"), Send("dm"), Call("dm", "done", ""),
     Call("apm", "create", "cons"),
     Call("apm", "create", "shell") >>

\* init.
Launch ==
  << Do("start", "apm"), Receive,
     Call("apm", "attach", "fs"), Do("start", "fs"), Try("apm", "lookup", "fs"),
     Call("apm", "attach", "ramfs"), Do("start", "ramfs"), Poll("fs", "mounted", "/init"),
     Call("apm", "create", "dm"), Call("apm", "lookup", "dm"), Send("dm"), Call("dm", "done", ""),
     Call("apm", "create", "cons"), Poll("fs", "mounted", "/cons"),
     Call("apm", "create", "shell") >>

\* Mutant: dm leaves the driver suspended.
BugLaunchDevice == <<Call("apm", "create", "uart"), Send("uart")>>

\* dm, to launch the driver of the console's device, created suspended.
LaunchDevice == <<Call("apm", "create", "uart"), Do("start", "uart"), Send("uart")>>

Prompt == <<Try("fs", "write", "/cons"), Try("fs", "read", "/cons"), Do("command", "")>>

\* Mutant: the shell does not ask to be notified.
BugRun == <<Try("fs", "info", "/init"), Call("apm", "create", "app"), Do("await", "")>>

\* The shell runs a program: apm has started it before the shell asks to be
\* notified of its end.
Run == << Try("fs", "info", "/init"), Call("apm", "create", "app"),
          Do("notify", "app"), Do("await", "") >>

ApmMain   == <<Send("init"), Serve>>
FsMain    == <<Try("apm", "lookup", "fs"), Serve>>
RamfsMain == Startup \o <<Call("fs", "mount", "/init"), Serve>>
DmMain    == Startup \o <<Receive>> \o LaunchDevice \o <<Serve>>
UartMain  == Startup \o <<Receive, Serve>>
ConsMain  == Startup \o <<Call("apm", "lookup", "uart"), Call("fs", "mount", "/cons"), Serve>>
ShellMain == Startup \o <<Try("apm", "getenv", ""), Try("apm", "setenv", "")>> \o Prompt
AppMain   == Startup \o <<Try("fs", "write", "/cons"), Do("exit", "")>>

Main(task) ==
  CASE task = "init" -> Launch       [] task = "apm"  -> ApmMain
    [] task = "fs"   -> FsMain       [] task = "ramfs" -> RamfsMain
    [] task = "dm"   -> DmMain       [] task = "uart" -> UartMain
    [] task = "cons" -> ConsMain     [] task = "shell" -> ShellMain
    [] task = "app"  -> AppMain

-----------------------------------------------------------------------------
(* What servers do for a call before they answer it, and whether they can  *)
(* grant it.                                                               *)

ApmHandler(req, arg) ==
  CASE req = "attach" -> <<Do("register", arg)>>
    [] req = "create" -> <<Call("fs", "open", "/init"), Call("fs", "read", "/init"), Do("spawn", arg)>>
    [] OTHER -> <<>>

FileServer(dir) == IF dir = "/init" THEN "ramfs" ELSE "cons"

\* Mutant: fs asks the server for something before it answers it.
BugFsHandler(req, arg) ==
  CASE req = "mount" -> <<Do("mount", arg), Try(FileServer(arg), "info", arg)>>
    [] req = "open" /\ arg \in mounted -> <<Call(FileServer(arg), req, arg), Do("opened", arg)>>
    [] req \in {"read", "write", "info"} /\ arg \in mounted -> <<Call(FileServer(arg), req, arg)>>
    [] OTHER -> <<>>

\* fs passes on what concerns a mounted file system.  It mounts a server
\* without a word to it, which would wait for the answer and not receive.
FsHandler(req, arg) ==
  CASE req = "mount" -> <<Do("mount", arg)>>
    [] req = "open" /\ arg \in mounted -> <<Call(FileServer(arg), req, arg), Do("opened", arg)>>
    [] req \in {"read", "write", "info"} /\ arg \in mounted -> <<Call(FileServer(arg), req, arg)>>
    [] OTHER -> <<>>

\* A read asks the driver for keys until there is one.
ConsHandler(req) ==
  CASE req = "write" -> <<Try("uart", "putc", "")>>
    [] req = "read"  -> <<Poll("uart", "getc", "")>>
    [] OTHER -> <<>>

Handler(server, req, arg) ==
  CASE server = "apm"  -> ApmHandler(req, arg)
    [] server = "fs"   -> FsHandler(req, arg)
    [] server = "cons" -> ConsHandler(req)
    [] OTHER -> <<>>

\* A program of the shell may not load.
ApmGrants(req, arg) ==
  CASE req = "lookup" -> {arg \in named}
    [] req = "attach" -> {arg \notin named}
    [] req = "create" -> IF arg = "app" THEN BOOLEAN ELSE {"fs" \in named /\ arg \notin named}
    [] OTHER -> {TRUE}

\* The open of a path that no file system is mounted for finds a directory
\* of fs itself, the root; reads and writes of that directory are refused.
FsGrants(task, req, arg) ==
  CASE req = "mounted" -> {arg \in mounted}
    [] req \in {"read", "write"} -> {(<<task, arg>> \in opened)}
    [] OTHER -> {TRUE}

\* A key may be there or not.
Grants(server, task, req, arg) ==
  CASE server = "apm" -> ApmGrants(req, arg)
    [] server = "fs"  -> FsGrants(task, req, arg)
    [] server = "uart" /\ req = "getc" -> BOOLEAN
    [] OTHER -> {TRUE}

-----------------------------------------------------------------------------

Does(task, what) == todo[task] # <<>> /\ Head(todo[task]).do = what
Calls(task, server) == Does(task, "call") /\ Head(todo[task]).to = server

\* A server that is ready receives a call.  What it cannot grant it answers
\* without further ado.
Accept(server, task) ==
  LET op == Head(todo[task]) IN
  /\ Does(server, "serve") /\ caller[server] = Nobody
  /\ Calls(task, server) /\ \A s \in Task : caller[s] # task
  /\ caller' = [caller EXCEPT ![server] = task]
  /\ \E granted \in Grants(server, task, op.req, op.arg) :
       /\ ok' = [ok EXCEPT ![server] = granted]
       /\ todo' = IF granted
                  THEN [todo EXCEPT ![server] = Handler(server, op.req, op.arg) \o @]
                  ELSE todo
  /\ UNCHANGED <<named, mounted, opened, watch, gave_up>>

\* What a task has to do when a call of its own is refused: a server answers
\* its client that it is, the shell prompts, the others end.
Abandon(task) ==
  IF caller[task] # Nobody THEN <<Serve>> ELSE IF task = "shell" THEN Prompt ELSE <<>>

Answer(server) ==
  LET task   == caller[server]
      op     == Head(todo[task])
      failed == ~ok[server] /\ op.refused = "give up"
  IN
  /\ Does(server, "serve") /\ task # Nobody
  /\ caller' = [caller EXCEPT ![server] = Nobody]
  /\ todo' = [todo EXCEPT ![task] = IF failed THEN Abandon(task)
                                    ELSE IF ~ok[server] /\ op.refused = "again" THEN @
                                    ELSE Tail(@)]
  /\ ok' = IF failed THEN [ok EXCEPT ![task] = FALSE] ELSE ok
  /\ gave_up' = IF failed /\ Abandon(task) = <<>> THEN gave_up \cup {task} ELSE gave_up
  /\ UNCHANGED <<named, mounted, opened, watch>>

\* A message that is not answered.
Transmit(sender, receiver) ==
  /\ Does(sender, "send") /\ Head(todo[sender]).to = receiver
  /\ Does(receiver, "receive")
  /\ todo' = [todo EXCEPT ![sender] = Tail(@), ![receiver] = Tail(@)]
  /\ UNCHANGED <<caller, ok, named, mounted, opened, watch, gave_up>>

\* apm enters a program and starts it; the driver's task stays suspended,
\* and programs of the shell have names of their own.
Spawn(task) ==
  /\ Does(task, "spawn")
  /\ LET new == Head(todo[task]).arg IN
       /\ named' = IF new = "app" THEN named ELSE named \cup {new}
       /\ opened' = {f \in opened : f[1] # new}
       /\ todo' = [todo EXCEPT ![task] = Tail(@), ![new] = IF new = "uart" THEN <<>> ELSE Main(new)]
  /\ UNCHANGED <<caller, ok, mounted, watch, gave_up>>

Start(task) ==
  /\ Does(task, "start")
  /\ LET new == Head(todo[task]).arg IN
       todo' = [todo EXCEPT ![task] = Tail(@), ![new] = Main(new)]
  /\ UNCHANGED <<caller, ok, named, mounted, opened, watch, gave_up>>

\* The entries that apm and fs make.
Record(task) ==
  /\ todo[task] # <<>>
  /\ LET op == Head(todo[task]) IN
     /\ op.do \in {"register", "mount", "opened"}
     /\ named'   = IF op.do = "register" THEN named \cup {op.arg} ELSE named
     /\ mounted' = IF op.do = "mount" THEN mounted \cup {op.arg} ELSE mounted
     /\ opened'  = IF op.do = "opened" THEN opened \cup {<<caller[task], op.arg>>} ELSE opened
  /\ todo' = [todo EXCEPT ![task] = Tail(@)]
  /\ UNCHANGED <<caller, ok, watch, gave_up>>

\* The line the shell has read is empty or a command of its own, or the name
\* of a program.
Command(task) ==
  /\ Does(task, "command")
  /\ \/ todo' = [todo EXCEPT ![task] = Prompt]
     \/ <<task, "/cons">> \in opened /\ todo' = [todo EXCEPT ![task] = Run \o Prompt]
  /\ UNCHANGED <<caller, ok, named, mounted, opened, watch, gave_up>>

\* The kernel may or may not notify of a task that has ended already.
Notify(task) ==
  /\ Does(task, "notify")
  /\ watch' \in IF todo[Head(todo[task]).arg] = <<>> THEN {"set", "sent"} ELSE {"set"}
  /\ todo' = [todo EXCEPT ![task] = Tail(@)]
  /\ UNCHANGED <<caller, ok, named, mounted, opened, gave_up>>

Exit(task) ==
  /\ Does(task, "exit")
  /\ todo' = [todo EXCEPT ![task] = <<>>]
  /\ watch' = IF watch = "set" THEN "sent" ELSE watch
  /\ UNCHANGED <<caller, ok, named, mounted, opened, gave_up>>

Await(task) ==
  /\ Does(task, "await") /\ watch = "sent"
  /\ watch' = "none"
  /\ todo' = [todo EXCEPT ![task] = Tail(@)]
  /\ UNCHANGED <<caller, ok, named, mounted, opened, gave_up>>

Init ==
  /\ todo = [task \in Task |-> IF task = "init" THEN Launch ELSE <<>>]
  /\ caller = [task \in Task |-> Nobody]
  /\ ok = [task \in Task |-> TRUE]
  /\ named = {} /\ mounted = {} /\ opened = {} /\ watch = "none" /\ gave_up = {}

Step(task) ==
  \/ Answer(task)
  \/ \E other \in Task : Transmit(task, other)
  \/ Spawn(task) \/ Start(task) \/ Record(task)
  \/ Command(task) \/ Notify(task) \/ Exit(task) \/ Await(task)

Next == \E task \in Task : Step(task) \/ \E server \in Task : Accept(server, task)

\* The kernel runs every task that can run, and a call that is waiting at an
\* endpoint is received before the others that keep coming in.
Fairness == \A task \in Task :
  /\ WF_vars(Step(task))
  /\ SF_vars(\E server \in Task : Accept(server, task))

Spec == Init /\ [][Next]_vars /\ Fairness

-----------------------------------------------------------------------------

WaitsFor(task) == IF Does(task, "call") \/ Does(task, "send") THEN {Head(todo[task]).to} ELSE {}

\* No tasks wait for one another in a circle: whatever a server is doing when
\* it is called, and whomever it has to call before it answers.
NoCircle ==
  ~\E circle \in SUBSET Task \ {{}} : \A task \in circle : WaitsFor(task) \cap circle # {}

\* What a task needs of the others is there when it gets that far: nobody
\* ends because he comes too early, and the shell reads from the terminal.
InOrder ==
  /\ gave_up = {}
  /\ Does("shell", "command") => <<"shell", "/cons">> \in opened

\* The shell's read of a line has reached the console.
AtPrompt == caller["cons"] = "fs" /\ caller["fs"] = "shell" /\ Does("shell", "call")
            /\ Head(todo["shell"]).req = "read"

\* The system boots: the console comes to wait for a line for the shell.
Boots == <>AtPrompt

\* The program ended before the shell asked to be notified, and the kernel
\* has not made up for that.
Missed == watch = "set" /\ todo["app"] = <<>>

\* The shell comes back from a program to its prompt unless it has missed
\* the program's end: then it waits for ever.
ShellReturns == Does("shell", "await") ~> (AtPrompt \/ Missed)
=============================================================================
