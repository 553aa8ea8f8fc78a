--------------------------------- MODULE Apm ---------------------------------
(***************************************************************************)
(* The application manager (apm): the tasks it knows by name and by task   *)
(* id, their environments, and the creation of a task from a program in    *)
(* several steps that may each fail, while other tasks go on.  apm serves  *)
(* one request at a time.                                                  *)
(*                                                                         *)
(* The file of a program is read before anything is changed, so a creation *)
(* that fails there is not a step.  An environment is the set of variables *)
(* that are set; their values are left out.                                *)
(***************************************************************************)
EXTENDS Integers, Sequences, FiniteSets, SequencesExt

CONSTANTS
  Name,   \* names of tasks, those that apm makes up for nameless ones included
  Tid,    \* ids of tasks; one is not used again as long as anybody holds a
          \* cap of the task
  Var,    \* environment variables, numbered in the order of std::map
  Nobody

ASSUME ApmAssumption == Var \subseteq Nat \ {0} /\ Nobody \notin Tid \cup Name

VARIABLES
  task_table,          \* name -> task id and environment
  tid_reference_table, \* task id -> name of its entry
  kernel,              \* task id -> free | suspended | running | ended
  attached,            \* tasks attached in mm, which keeps their caps
  create,              \* the creation that is being served
  list                 \* a task that lists its environment, as printenv does

vars == <<task_table, tid_reference_table, kernel, attached, create, list>>

With(f, x, v)    == [y \in DOMAIN f \cup {x} |-> IF y = x THEN v ELSE f[y]]
Emplace(f, x, v) == IF x \in DOMAIN f THEN f ELSE With(f, x, v)

Idle == [pc |-> "idle", name |-> Nobody, tid |-> Nobody, env |-> {}, suspended |-> FALSE]

\* apm receives the next request.
Ready == create.pc = "idle"

EnvOf(tid) == task_table[tid_reference_table[tid]].env

-----------------------------------------------------------------------------
(* Creating and attaching tasks.                                           *)

\* Mutant: a name is not looked up before it is given away.
BugVacant(name) == TRUE

Vacant(name) == name \notin DOMAIN task_table

\* The task constructor: a task object, attached in mm, which may fail and is
\* not looked at; and the environment of the sender, if apm knows it and the
\* task is not to be detached.
Create(parent, name, suspended, detached) ==
  /\ Ready /\ Vacant(name)
  /\ kernel[parent] = "running"
  /\ \E tid \in Tid : kernel[tid] = "free" /\
       /\ kernel' = [kernel EXCEPT ![tid] = "suspended"]
       /\ attached' \in {attached, attached \cup {tid}}
       /\ create' = [pc |-> "load", name |-> name, tid |-> tid, suspended |-> suspended,
                     env |-> IF ~detached /\ parent \in DOMAIN tid_reference_table
                             THEN EnvOf(parent) ELSE {}]
  /\ UNCHANGED <<task_table, tid_reference_table, list>>

\* load_program.  Without mm only a program without any segment loads.
Load ==
  /\ create.pc = "load"
  /\ \/ create' = [create EXCEPT !.pc = "enter"] /\ UNCHANGED kernel
     \/ /\ create' = Idle
        /\ kernel' = IF create.tid \in attached THEN kernel
                     ELSE [kernel EXCEPT ![create.tid] = "free"]
  /\ UNCHANGED <<task_table, tid_reference_table, attached, list>>

\* Mutant: a cap that is not there is not transferred.
BugTransfers == TRUE

\* The caps of the new task, its id in mm and its endpoint among them, are
\* copied and transferred.
Transfers == create.tid \in attached

\* The id under which an entry is entered: that of the task in the table.
EnteredTid(name) == task_table'[name].tid

\* The rest of create_task.  apm aborts over a cap that can not be copied.
Enter ==
  /\ create.pc = "enter"
  /\ \/ /\ Transfers
        /\ task_table' = Emplace(task_table, create.name, [tid |-> create.tid, env |-> create.env])
        /\ tid_reference_table' =
             Emplace(tid_reference_table, EnteredTid(create.name), create.name)
        /\ kernel' = IF create.suspended THEN kernel
                     ELSE [kernel EXCEPT ![task_table'[create.name].tid] = "running"]
        /\ create' = [create EXCEPT !.pc = "answer"]
     \/ /\ create' = [create EXCEPT !.pc = "aborted"]
        /\ UNCHANGED <<task_table, tid_reference_table, kernel>>
  /\ UNCHANGED <<attached, list>>

\* The creator is given the task of that name.
Answer ==
  /\ create.pc = "answer"
  /\ create' = Idle
  /\ UNCHANGED <<task_table, tid_reference_table, kernel, attached, list>>

\* attach of a task that init has made, and attached in mm.
Attach(name, tid) ==
  /\ Ready /\ Vacant(name) /\ kernel[tid] = "free"
  /\ kernel' = [kernel EXCEPT ![tid] = "suspended"]
  /\ attached' = attached \cup {tid}
  /\ task_table' = Emplace(task_table, name, [tid |-> tid, env |-> {}])
  /\ tid_reference_table' = Emplace(tid_reference_table, EnteredTid(name), name)
  /\ UNCHANGED <<create, list>>

\* A creator starts a task that was left suspended; tasks end, and apm is not
\* told.
Resume(tid) ==
  /\ kernel[tid] = "suspended" /\ tid \in DOMAIN tid_reference_table
  /\ kernel' = [kernel EXCEPT ![tid] = "running"]
  /\ UNCHANGED <<task_table, tid_reference_table, attached, create, list>>

End(tid) ==
  /\ kernel[tid] = "running"
  /\ kernel' = [kernel EXCEPT ![tid] = "ended"]
  /\ UNCHANGED <<task_table, tid_reference_table, attached, create, list>>

-----------------------------------------------------------------------------
(* Environments.                                                           *)

\* setenv, by anybody who has a cap of the task.
Setenv(tid, var) ==
  /\ Ready /\ tid \in DOMAIN tid_reference_table
  /\ task_table' = [task_table EXCEPT ![tid_reference_table[tid]].env = @ \cup {var}]
  /\ UNCHANGED <<tid_reference_table, kernel, attached, create, list>>

\* Mutant: the variable asked about counts as following itself.
BugNextenv(tid, var) == {v \in EnvOf(tid) : v >= var /\ \A w \in EnvOf(tid) : w >= var => v <= w}

\* nextenv: the variable after one that the client names, or nothing.
Nextenv(tid, var) == {v \in EnvOf(tid) : v > var /\ \A w \in EnvOf(tid) : w > var => v <= w}

ListStart(tid) ==
  /\ kernel[tid] = "running" /\ tid \in DOMAIN tid_reference_table
  /\ list.pc = "idle"
  /\ list' = [pc |-> "listing", tid |-> tid, listed |-> <<>>, first |-> EnvOf(tid)]
  /\ UNCHANGED <<task_table, tid_reference_table, kernel, attached, create>>

\* The last variable listed; "" at the start is before all others.
Listed == IF list.listed = <<>> THEN 0 ELSE Last(list.listed)

ListNext ==
  /\ Ready /\ list.pc = "listing"
  /\ \/ \E var \in Nextenv(list.tid, Listed) : list' = [list EXCEPT !.listed = Append(@, var)]
     \/ Nextenv(list.tid, Listed) = {} /\ list' = [list EXCEPT !.pc = "done"]
  /\ UNCHANGED <<task_table, tid_reference_table, kernel, attached, create>>

\* A task that is not in the table, init, runs from the start.
Init ==
  /\ task_table = <<>> /\ tid_reference_table = <<>> /\ attached = {}
  /\ \E init \in Tid : kernel = [tid \in Tid |-> IF tid = init THEN "running" ELSE "free"]
  /\ create = Idle
  /\ list = [pc |-> "idle", tid |-> Nobody, listed |-> <<>>, first |-> {}]

Next ==
  \/ \E parent \in Tid, name \in Name, suspended, detached \in BOOLEAN :
       Create(parent, name, suspended, detached)
  \/ Load \/ Enter \/ Answer
  \/ \E name \in Name, tid \in Tid : Attach(name, tid)
  \/ \E tid \in Tid : Resume(tid) \/ End(tid) \/ ListStart(tid)
  \/ \E tid \in Tid, var \in Var : Setenv(tid, var)
  \/ ListNext

Spec == Init /\ [][Next]_vars

-----------------------------------------------------------------------------

\* A task that is in the table can call mm: apm does not look whether mm has
\* attached it, but no task gets as far without.
KnownToMm == \A tid \in DOMAIN tid_reference_table : tid \in attached

\* Who creates a task is given that one, not an older task of the same name,
\* and it runs, unless it was to wait, and is known under its id: its first
\* request to apm finds its environment.
AnswersNewTask ==
  create.pc = "answer" =>
    /\ create.name \in DOMAIN task_table /\ task_table[create.name].tid = create.tid
    /\ create.tid \in DOMAIN tid_reference_table
    /\ create.suspended \/ kernel[create.tid] # "suspended"
    /\ create.env \subseteq EnvOf(create.tid)

\* A listing of an environment comes to its end with every variable that was
\* there when it began, each once and in order, though others are set
\* meanwhile, by the task or anybody else.
EnumeratesAll ==
  /\ \A i, j \in DOMAIN list.listed : i < j => list.listed[i] < list.listed[j]
  /\ list.pc = "done" => list.first \subseteq ToSet(list.listed)
==============================================================================
