------------------------------ MODULE ApmProofs ------------------------------
(* What is proved of apm for any number of tasks, names and variables: a    *)
(* task it knows is known to mm, a creator is given the task it created,    *)
(* and a listing of an environment is complete; and of its loader, with     *)
(* that of init, that a program is laid out in memory as its segments say.  *)
(* The two machines share no variable; the second half speaks of the loader. *)
EXTENDS Apm, ElfLoader, NaturalsInduction, WellFoundedInduction, TLAPS

-----------------------------------------------------------------------------
(* The invariant.                                                           *)

\* The two tables of apm refer to each other, entry by entry.
Tables ==
  /\ DOMAIN task_table \subseteq Name
  /\ \A name \in DOMAIN task_table :
       /\ task_table[name] \in [tid : Tid, env : SUBSET Var]
       /\ task_table[name].tid \in DOMAIN tid_reference_table
       /\ tid_reference_table[task_table[name].tid] = name
  /\ \A tid \in DOMAIN tid_reference_table :
       /\ tid_reference_table[tid] \in DOMAIN task_table
       /\ task_table[tid_reference_table[tid]].tid = tid

\* The tasks that apm knows exist, and mm has attached them.
Tasks ==
  /\ kernel \in [Tid -> {"free", "suspended", "running", "ended"}]
  /\ attached \subseteq Tid
  /\ \A tid \in DOMAIN tid_reference_table : tid \in attached /\ kernel[tid] # "free"

\* The task that is being created has a name that is still to be had, and is
\* nobody else's; when its creator is answered it is in the tables.
Creation ==
  /\ create \in [pc : {"idle", "load", "enter", "answer", "aborted"}, name : Name \cup {Nobody},
                 tid : Tid \cup {Nobody}, env : SUBSET Var, suspended : BOOLEAN]
  /\ create.pc \in {"load", "enter"} =>
       /\ create.name \in Name \ DOMAIN task_table
       /\ create.tid \in Tid \ DOMAIN tid_reference_table
       /\ kernel[create.tid] = "suspended"
  /\ AnswersNewTask

\* What has been listed lies in order, and nothing that was there when the
\* listing began has been passed over.
Listing ==
  /\ list \in [pc : {"idle", "listing", "done"}, tid : Tid \cup {Nobody},
               listed : Seq(Var), first : SUBSET Var]
  /\ \A i, j \in DOMAIN list.listed : i < j => list.listed[i] < list.listed[j]
  /\ list.pc = "listing" =>
       /\ list.tid \in DOMAIN tid_reference_table
       /\ list.first \subseteq EnvOf(list.tid)
       /\ \A var \in list.first : var > Listed \/ \E i \in DOMAIN list.listed : list.listed[i] = var
  /\ list.pc = "done" => \A var \in list.first : \E i \in DOMAIN list.listed : list.listed[i] = var

IInv == Tables /\ Tasks /\ Creation /\ Listing

-----------------------------------------------------------------------------
(* The steps of a creation.                                                 *)

LEMMA EmplaceNew ==
  ASSUME NEW f, NEW x, NEW v, x \notin DOMAIN f
  PROVE  /\ DOMAIN Emplace(f, x, v) = DOMAIN f \cup {x}
         /\ Emplace(f, x, v)[x] = v
         /\ \A y \in DOMAIN f : Emplace(f, x, v)[y] = f[y]
BY DEF Emplace, With

LEMMA InitIInv == Init => IInv
<1> SUFFICES ASSUME Init PROVE IInv
  OBVIOUS
<1>1. DOMAIN task_table = {} /\ DOMAIN tid_reference_table = {}
  BY DEF Init
<1>2. Tables
  BY <1>1 DEF Tables
<1>3. Tasks
  BY <1>1 DEF Tasks, Init
<1>4. Creation
  BY DEF Init, Idle, Creation, AnswersNewTask
<1>5. Listing
  BY DEF Init, Listing
<1> QED
  BY <1>2, <1>3, <1>4, <1>5 DEF IInv

\* An environment is a set of variables.
LEMMA EnvTyped ==
  ASSUME Tables, NEW tid \in DOMAIN tid_reference_table
  PROVE  EnvOf(tid) \subseteq Var
BY DEF Tables, EnvOf

LEMMA CreateStep ==
  ASSUME IInv, NEW parent \in Tid, NEW name \in Name, NEW suspended \in BOOLEAN,
         NEW detached \in BOOLEAN, Create(parent, name, suspended, detached)
  PROVE  IInv'
<1>1. PICK tid \in Tid :
        /\ kernel[tid] = "free"
        /\ kernel' = [kernel EXCEPT ![tid] = "suspended"]
        /\ attached' \in {attached, attached \cup {tid}}
        /\ create' = [pc |-> "load", name |-> name, tid |-> tid, suspended |-> suspended,
                      env |-> IF ~detached /\ parent \in DOMAIN tid_reference_table
                              THEN EnvOf(parent) ELSE {}]
  BY DEF Create
<1>2. UNCHANGED <<task_table, tid_reference_table, list>> /\ name \notin DOMAIN task_table
  BY DEF Create, Vacant
<1>3. tid \notin DOMAIN tid_reference_table
  BY <1>1 DEF IInv, Tasks
<1>4. Tables'
  BY <1>2 DEF IInv, Tables
<1>5. Tasks'
  BY <1>1, <1>2 DEF IInv, Tasks
<1>6. Creation'
  <2>1. create'.env \subseteq Var
    BY <1>1, EnvTyped DEF IInv
  <2>2. kernel'[tid] = "suspended"
    BY <1>1 DEF IInv, Tasks
  <2> QED
    BY <1>1, <1>2, <1>3, <2>1, <2>2 DEF Creation, AnswersNewTask
<1>7. Listing'
  BY <1>2 DEF IInv, Listing, Listed, EnvOf
<1> QED
  BY <1>4, <1>5, <1>6, <1>7 DEF IInv

LEMMA LoadStep ==
  ASSUME IInv, Load
  PROVE  IInv'
<1>1. UNCHANGED <<task_table, tid_reference_table, attached, list>> /\ create.pc = "load"
  BY DEF Load
<1>2. Tables' /\ Listing'
  BY <1>1 DEF IInv, Tables, Listing, Listed, EnvOf
<1>3. CASE create' = [create EXCEPT !.pc = "enter"] /\ UNCHANGED kernel
  <2>1. Tasks'
    BY <1>1, <1>3 DEF IInv, Tasks
  <2>2. Creation'
    BY <1>1, <1>3 DEF IInv, Creation, AnswersNewTask
  <2> QED
    BY <1>2, <2>1, <2>2 DEF IInv
<1>4. CASE /\ create' = Idle
           /\ kernel' = IF create.tid \in attached THEN kernel
                        ELSE [kernel EXCEPT ![create.tid] = "free"]
  <2>1. Tasks'
    BY <1>1, <1>4 DEF IInv, Tasks, Creation
  <2>2. Creation'
    BY <1>4 DEF Creation, AnswersNewTask, Idle
  <2> QED
    BY <1>2, <2>1, <2>2 DEF IInv
<1> QED
  BY <1>3, <1>4 DEF Load

\* A task that has got this far and can call mm is entered, under a name that
\* nobody had: both entries are new.
LEMMA EntryStep ==
  ASSUME Tables, Tasks, NEW name \in Name \ DOMAIN task_table, NEW tid \in Tid,
         NEW env \in SUBSET Var, tid \notin DOMAIN tid_reference_table,
         task_table' = Emplace(task_table, name, [tid |-> tid, env |-> env]),
         tid_reference_table' = Emplace(tid_reference_table, EnteredTid(name), name)
  PROVE  /\ Tables'
         /\ DOMAIN task_table' = DOMAIN task_table \cup {name}
         /\ task_table'[name] = [tid |-> tid, env |-> env]
         /\ \A n \in DOMAIN task_table : task_table'[n] = task_table[n]
         /\ DOMAIN tid_reference_table' = DOMAIN tid_reference_table \cup {tid}
         /\ tid_reference_table'[tid] = name
         /\ \A t \in DOMAIN tid_reference_table :
              tid_reference_table'[t] = tid_reference_table[t] /\ EnvOf(t)' = EnvOf(t)
<1>1. /\ DOMAIN task_table' = DOMAIN task_table \cup {name}
      /\ task_table'[name] = [tid |-> tid, env |-> env]
      /\ \A n \in DOMAIN task_table : task_table'[n] = task_table[n]
  BY DEF Emplace, With
<1>2. EnteredTid(name) = tid
  BY <1>1 DEF EnteredTid
<1>3. /\ DOMAIN tid_reference_table' = DOMAIN tid_reference_table \cup {tid}
      /\ tid_reference_table'[tid] = name
      /\ \A t \in DOMAIN tid_reference_table : tid_reference_table'[t] = tid_reference_table[t]
  BY <1>2, EmplaceNew
<1>4. \A t \in DOMAIN tid_reference_table : EnvOf(t)' = EnvOf(t)
  BY <1>1, <1>3 DEF EnvOf, Tables
<1>5. Tables'
  BY <1>1, <1>3 DEF Tables
<1> QED
  BY <1>1, <1>3, <1>4, <1>5

\* Environments that are listed are not disturbed by new tasks.
LEMMA ListingKept ==
  ASSUME Listing, UNCHANGED list,
         DOMAIN tid_reference_table \subseteq DOMAIN tid_reference_table',
         \A tid \in DOMAIN tid_reference_table : EnvOf(tid) \subseteq EnvOf(tid)'
  PROVE  Listing'
<1>1. Listed' = Listed
  BY DEF Listed
<1>2. list.pc = "listing" => EnvOf(list.tid) \subseteq EnvOf(list.tid)'
  BY DEF Listing, EnvOf
<1> QED
  BY <1>1, <1>2 DEF Listing

LEMMA EnterStep ==
  ASSUME IInv, Enter
  PROVE  IInv'
<1>1. CASE /\ Transfers
           /\ task_table' = Emplace(task_table, create.name, [tid |-> create.tid, env |-> create.env])
           /\ tid_reference_table' =
                Emplace(tid_reference_table, EnteredTid(create.name), create.name)
           /\ kernel' = IF create.suspended THEN kernel
                        ELSE [kernel EXCEPT ![task_table'[create.name].tid] = "running"]
           /\ create' = [create EXCEPT !.pc = "answer"]
  <2>1. /\ create.name \in Name \ DOMAIN task_table
        /\ create.tid \in Tid \ DOMAIN tid_reference_table
        /\ create.env \in SUBSET Var /\ create.suspended \in BOOLEAN
        /\ kernel[create.tid] = "suspended"
    BY DEF Enter, IInv, Creation
  <2>2. /\ Tables'
        /\ DOMAIN task_table' = DOMAIN task_table \cup {create.name}
        /\ task_table'[create.name] = [tid |-> create.tid, env |-> create.env]
        /\ DOMAIN tid_reference_table' = DOMAIN tid_reference_table \cup {create.tid}
        /\ tid_reference_table'[create.tid] = create.name
        /\ \A t \in DOMAIN tid_reference_table :
             tid_reference_table'[t] = tid_reference_table[t] /\ EnvOf(t)' = EnvOf(t)
    <3>1. /\ Tables /\ Tasks /\ create.tid \in Tid
          /\ create.tid \notin DOMAIN tid_reference_table
      BY <2>1 DEF IInv
    <3>2. /\ task_table' = Emplace(task_table, create.name, [tid |-> create.tid, env |-> create.env])
          /\ tid_reference_table' =
               Emplace(tid_reference_table, EnteredTid(create.name), create.name)
      BY <1>1
    <3>3. PICK name \in Name \ DOMAIN task_table, tid \in Tid, env \in SUBSET Var :
            name = create.name /\ tid = create.tid /\ env = create.env
      BY <2>1, <3>1
    <3>4. /\ task_table' = Emplace(task_table, name, [tid |-> tid, env |-> env])
          /\ tid_reference_table' = Emplace(tid_reference_table, EnteredTid(name), name)
          /\ tid \notin DOMAIN tid_reference_table
      BY <3>1, <3>2, <3>3, Zenon
    <3>5. /\ Tables'
          /\ DOMAIN task_table' = DOMAIN task_table \cup {name}
          /\ task_table'[name] = [tid |-> tid, env |-> env]
          /\ DOMAIN tid_reference_table' = DOMAIN tid_reference_table \cup {tid}
          /\ tid_reference_table'[tid] = name
          /\ \A t \in DOMAIN tid_reference_table :
               tid_reference_table'[t] = tid_reference_table[t] /\ EnvOf(t)' = EnvOf(t)
      BY <3>1, <3>4, EntryStep
    <3> QED
      BY <3>3, <3>5, Zenon
  <2>3. UNCHANGED <<attached, list>>
    BY DEF Enter
  <2>4. Tasks'
    BY <1>1, <2>1, <2>2, <2>3 DEF IInv, Tasks, Transfers
  <2>5. Creation'
    <3>1. kernel'[create.tid] = IF create.suspended THEN "suspended" ELSE "running"
      BY <1>1, <2>1, <2>2 DEF IInv, Tasks
    <3>2. /\ create' \in [pc : {"answer"}, name : Name \cup {Nobody}, tid : Tid \cup {Nobody},
                          env : SUBSET Var, suspended : BOOLEAN]
          /\ create'.name = create.name /\ create'.tid = create.tid
          /\ create'.env = create.env /\ create'.suspended = create.suspended
      BY <1>1 DEF IInv, Creation
    <3> QED
      BY <2>1, <2>2, <3>1, <3>2 DEF Creation, AnswersNewTask, EnvOf
  <2>6. Listing'
    BY <2>2, <2>3, ListingKept DEF IInv
  <2> QED
    BY <2>2, <2>4, <2>5, <2>6 DEF IInv
<1>2. CASE /\ create' = [create EXCEPT !.pc = "aborted"]
           /\ UNCHANGED <<task_table, tid_reference_table, kernel>>
  <2>1. UNCHANGED <<attached, list>>
    BY DEF Enter
  <2>2. Tables' /\ Tasks'
    BY <1>2, <2>1 DEF IInv, Tables, Tasks
  <2>3. Creation'
    BY <1>2 DEF IInv, Creation, AnswersNewTask
  <2>4. Listing'
    BY <1>2, <2>1, ListingKept DEF IInv, EnvOf
  <2> QED
    BY <2>2, <2>3, <2>4 DEF IInv
<1> QED
  BY <1>1, <1>2 DEF Enter

LEMMA AnswerStep ==
  ASSUME IInv, Answer
  PROVE  IInv'
<1>1. UNCHANGED <<task_table, tid_reference_table, kernel, attached, list>> /\ create' = Idle
  BY DEF Answer
<1>2. Tables' /\ Tasks' /\ Listing'
  BY <1>1, ListingKept DEF IInv, Tables, Tasks, EnvOf
<1>3. Creation'
  BY <1>1 DEF Creation, AnswersNewTask, Idle
<1> QED
  BY <1>2, <1>3 DEF IInv

LEMMA AttachStep ==
  ASSUME IInv, NEW name \in Name, NEW tid \in Tid, Attach(name, tid)
  PROVE  IInv'
<1>1. /\ name \notin DOMAIN task_table /\ kernel[tid] = "free" /\ create.pc = "idle"
      /\ kernel' = [kernel EXCEPT ![tid] = "suspended"]
      /\ attached' = attached \cup {tid}
      /\ UNCHANGED <<create, list>>
  BY DEF Attach, Vacant, Ready
<1>2. tid \notin DOMAIN tid_reference_table
  BY <1>1 DEF IInv, Tasks
<1>3. /\ Tables'
      /\ DOMAIN tid_reference_table' = DOMAIN tid_reference_table \cup {tid}
      /\ \A t \in DOMAIN tid_reference_table : EnvOf(t)' = EnvOf(t)
  <2>1. {} \in SUBSET Var
    OBVIOUS
  <2>2. /\ task_table' = Emplace(task_table, name, [tid |-> tid, env |-> {}])
        /\ tid_reference_table' = Emplace(tid_reference_table, EnteredTid(name), name)
    BY DEF Attach
  <2> QED
    BY <1>1, <1>2, <2>1, <2>2, EntryStep DEF IInv
<1>4. Tasks'
  BY <1>1, <1>3 DEF IInv, Tasks
<1>5. Creation'
  BY <1>1 DEF IInv, Creation, AnswersNewTask
<1>6. Listing'
  BY <1>1, <1>3, ListingKept DEF IInv
<1> QED
  BY <1>3, <1>4, <1>5, <1>6 DEF IInv

LEMMA ResumeStep ==
  ASSUME IInv, NEW tid \in Tid, Resume(tid)
  PROVE  IInv'
<1>1. /\ UNCHANGED <<task_table, tid_reference_table, attached, create, list>>
      /\ kernel' = [kernel EXCEPT ![tid] = "running"]
      /\ tid \in DOMAIN tid_reference_table
  BY DEF Resume
<1>2. Tables' /\ Tasks' /\ Listing'
  BY <1>1, ListingKept DEF IInv, Tables, Tasks, EnvOf
<1>3. Creation'
  BY <1>1 DEF IInv, Tasks, Creation, AnswersNewTask, EnvOf
<1> QED
  BY <1>2, <1>3 DEF IInv

LEMMA EndStep ==
  ASSUME IInv, NEW tid \in Tid, End(tid)
  PROVE  IInv'
<1>1. /\ UNCHANGED <<task_table, tid_reference_table, attached, create, list>>
      /\ kernel' = [kernel EXCEPT ![tid] = "ended"]
      /\ kernel[tid] = "running"
  BY DEF End
<1>2. Tables' /\ Tasks' /\ Listing'
  BY <1>1, ListingKept DEF IInv, Tables, Tasks, EnvOf
<1>3. Creation'
  BY <1>1 DEF IInv, Tasks, Creation, AnswersNewTask, EnvOf
<1> QED
  BY <1>2, <1>3 DEF IInv

-----------------------------------------------------------------------------
(* Environments.                                                            *)

LEMMA SetenvStep ==
  ASSUME IInv, NEW tid \in Tid, NEW var \in Var, Setenv(tid, var)
  PROVE  IInv'
<1> DEFINE name == tid_reference_table[tid]
<1>1. /\ create.pc = "idle" /\ tid \in DOMAIN tid_reference_table
      /\ task_table' = [task_table EXCEPT ![name].env = @ \cup {var}]
      /\ UNCHANGED <<tid_reference_table, kernel, attached, create, list>>
  BY DEF Setenv, Ready
<1>2. name \in DOMAIN task_table /\ task_table[name] \in [tid : Tid, env : SUBSET Var]
  BY <1>1 DEF IInv, Tables
<1>3. /\ DOMAIN task_table' = DOMAIN task_table
      /\ task_table'[name] = [task_table[name] EXCEPT !.env = @ \cup {var}]
      /\ \A n \in DOMAIN task_table : n # name => task_table'[n] = task_table[n]
  BY <1>1, <1>2
<1>4. /\ task_table'[name] \in [tid : Tid, env : SUBSET Var]
      /\ task_table'[name].tid = task_table[name].tid
      /\ task_table'[name].env = task_table[name].env \cup {var}
  BY <1>2, <1>3
<1> HIDE DEF name
<1>5. Tables'
  BY <1>1, <1>3, <1>4 DEF IInv, Tables
<1>6. Tasks' /\ Creation'
  BY <1>1 DEF IInv, Tasks, Creation, AnswersNewTask
<1>7. \A t \in DOMAIN tid_reference_table : EnvOf(t) \subseteq EnvOf(t)'
  BY <1>1, <1>3, <1>4 DEF IInv, Tables, EnvOf
<1>8. Listing'
  BY <1>1, <1>7, ListingKept DEF IInv
<1> QED
  BY <1>5, <1>6, <1>8 DEF IInv

LEMMA ListStartStep ==
  ASSUME IInv, NEW tid \in Tid, ListStart(tid)
  PROVE  IInv'
<1>1. /\ UNCHANGED <<task_table, tid_reference_table, kernel, attached, create>>
      /\ tid \in DOMAIN tid_reference_table
      /\ list' = [pc |-> "listing", tid |-> tid, listed |-> <<>>, first |-> EnvOf(tid)]
  BY DEF ListStart
<1>2. Tables' /\ Tasks' /\ Creation'
  BY <1>1 DEF IInv, Tables, Tasks, Creation, AnswersNewTask, EnvOf
<1>3. EnvOf(tid) \in SUBSET Var /\ Var \subseteq Nat \ {0}
  BY <1>1, EnvTyped, ApmAssumption DEF IInv
<1>4. Listed' = 0 /\ EnvOf(list.tid)' = EnvOf(tid)
  BY <1>1 DEF Listed, EnvOf
<1>5. Listing'
  <2>1. tid \in Tid \cup {Nobody} /\ <<>> \in Seq(Var) /\ DOMAIN list'.listed = {}
    BY <1>1
  <2>2. ASSUME NEW var \in EnvOf(tid)
        PROVE  var > 0
    <3>1. var \in Nat \ {0}
      BY <1>3
    <3> QED
      BY <3>1
  <2> QED
    BY <1>1, <1>3, <1>4, <2>1, <2>2 DEF Listing
<1> QED
  BY <1>2, <1>5 DEF IInv

\* A set of numbers has a least one.
LEMMA Least ==
  ASSUME NEW S \in SUBSET Nat, S # {}
  PROVE  \E m \in S : \A n \in S : m <= n
<1>1. PICK m \in S : \A n \in S : ~ (<<n, m>> \in OpToRel(<, Nat))
  BY NatLessThanWellFounded, WFMin
<1>2. \A n \in S : ~ (n < m)
  BY <1>1 DEF OpToRel
<1> QED
  BY <1>2

\* nextenv finds a variable if there is one behind the one it is asked about.
LEMMA NextenvFinds ==
  ASSUME NEW tid, NEW var \in Nat, EnvOf(tid) \subseteq Var, Nextenv(tid, var) = {}
  PROVE  \A v \in EnvOf(tid) : v <= var
<1> DEFINE S == {v \in EnvOf(tid) : v > var}
<1>1. S \in SUBSET Nat /\ var \in Nat
  BY ApmAssumption
<1>2. CASE S = {}
  <2> TAKE v \in EnvOf(tid)
  <2>1. v \in Nat /\ ~ (v > var)
    BY <1>2, ApmAssumption
  <2> QED
    BY <2>1
<1>3. CASE S # {}
  <2>1. PICK m \in S : \A n \in S : m <= n
    BY <1>1, <1>3, Least
  <2>2. m \in Nextenv(tid, var)
    BY <2>1 DEF Nextenv
  <2> QED
    BY <2>2
<1> QED
  BY <1>2, <1>3

\* The last variable listed is the greatest of them.
LEMMA ListedIsLast ==
  ASSUME Listing
  PROVE  /\ Listed \in Nat
         /\ \A i \in DOMAIN list.listed : list.listed[i] \in Var /\ list.listed[i] <= Listed
<1>1. list.listed \in Seq(Var) /\ Var \subseteq Nat
  BY ApmAssumption DEF Listing
<1>2. CASE list.listed = <<>>
  BY <1>1, <1>2 DEF Listed
<1>3. CASE list.listed # <<>>
  <2>1. Listed = list.listed[Len(list.listed)] /\ Len(list.listed) \in DOMAIN list.listed
    BY <1>1, <1>3 DEF Listed, Last
  <2>2. ASSUME NEW i \in DOMAIN list.listed
        PROVE  /\ list.listed[i] \in Var /\ list.listed[i] \in Nat
               /\ i < Len(list.listed) \/ i = Len(list.listed)
    <3>1. i \in 1 .. Len(list.listed) /\ Len(list.listed) \in Nat
      BY <1>1
    <3>2. list.listed[i] \in Var
      BY <1>1, <3>1
    <3>3. list.listed[i] \in Nat
      BY <1>1, <3>2
    <3>4. i < Len(list.listed) \/ i = Len(list.listed)
      BY <3>1
    <3> QED
      BY <3>2, <3>3, <3>4
  <2>3. \A i \in DOMAIN list.listed : list.listed[i] <= Listed
    BY <2>1, <2>2 DEF Listing
  <2> QED
    BY <2>1, <2>2, <2>3
<1> QED
  BY <1>2, <1>3

LEMMA ListNextStep ==
  ASSUME IInv, ListNext
  PROVE  IInv'
<1>1. /\ UNCHANGED <<task_table, tid_reference_table, kernel, attached, create>>
      /\ list.pc = "listing"
  BY DEF ListNext
<1>2. Tables' /\ Tasks' /\ Creation'
  BY <1>1 DEF IInv, Tables, Tasks, Creation, AnswersNewTask, EnvOf
<1>3. /\ list.tid \in DOMAIN tid_reference_table
      /\ list.first \subseteq EnvOf(list.tid)
      /\ EnvOf(list.tid) \subseteq Var
      /\ Var \subseteq Nat
  BY <1>1, EnvTyped, ApmAssumption DEF IInv, Listing
<1>4. /\ Listed \in Nat
      /\ \A i \in DOMAIN list.listed : list.listed[i] \in Var /\ list.listed[i] <= Listed
  BY ListedIsLast DEF IInv
<1>5. ASSUME NEW var \in Nextenv(list.tid, Listed),
             list' = [list EXCEPT !.listed = Append(@, var)]
      PROVE  Listing'
  <2>1. var \in Var /\ var > Listed /\ \A w \in EnvOf(list.tid) : w > Listed => var <= w
    BY <1>3, <1>5 DEF Nextenv
  <2>2. /\ list' \in [pc : {"listing"}, tid : {list.tid}, listed : {Append(list.listed, var)},
                      first : {list.first}]
        /\ list.listed \in Seq(Var)
    BY <1>1, <1>5 DEF IInv, Listing
  <2>3. /\ list'.listed \in Seq(Var)
        /\ DOMAIN list'.listed = DOMAIN list.listed \cup {Len(list.listed) + 1}
        /\ \A i \in DOMAIN list.listed : list'.listed[i] = list.listed[i]
        /\ list'.listed[Len(list.listed) + 1] = var
        /\ \A i \in DOMAIN list.listed : i \in Nat /\ i < Len(list.listed) + 1
    BY <2>1, <2>2
  <2>4. Listed' = var
    <3>1. list'.listed # <<>> /\ Len(list'.listed) = Len(list.listed) + 1
      BY <2>1, <2>2
    <3> QED
      BY <2>3, <3>1 DEF Listed, Last
  <2>5. \A i, j \in DOMAIN list'.listed : i < j => list'.listed[i] < list'.listed[j]
    <3>1. TAKE i, j \in DOMAIN list'.listed
    <3>2. CASE j \in DOMAIN list.listed
      <4>1. i < j => i \in DOMAIN list.listed
        BY <2>2, <2>3, <3>2
      <4> QED
        BY <2>3, <3>2, <4>1 DEF IInv, Listing
    <3>3. CASE j = Len(list.listed) + 1
      <4>1. i < j => i \in DOMAIN list.listed
        BY <2>2, <2>3, <3>3
      <4>2. i < j => list.listed[i] \in Nat /\ list.listed[i] <= Listed /\ Listed < var
        <5> SUFFICES ASSUME i < j
                     PROVE  list.listed[i] \in Nat /\ list.listed[i] <= Listed /\ Listed < var
          OBVIOUS
        <5>1. list.listed[i] \in Var /\ list.listed[i] <= Listed
          BY <1>4, <4>1
        <5>2. list.listed[i] \in Nat /\ var \in Nat
          BY <1>3, <2>1, <5>1
        <5> QED
          BY <1>4, <2>1, <5>1, <5>2
      <4>3. list'.listed[j] = var /\ (i < j => list'.listed[i] = list.listed[i])
        BY <2>3, <3>3, <4>1
      <4> QED
        <5> SUFFICES ASSUME i < j
                     PROVE  list'.listed[i] < list'.listed[j]
          OBVIOUS
        <5>1. list.listed[i] \in Nat /\ Listed \in Nat /\ var \in Nat
          BY <1>3, <1>4, <2>1, <4>2
        <5> QED
          BY <4>2, <4>3, <5>1
    <3> QED
      BY <2>3, <3>2, <3>3
  <2>6. \A v \in list'.first : v > Listed' \/ \E i \in DOMAIN list'.listed : list'.listed[i] = v
    <3> TAKE v \in list'.first
    <3>1. v \in list.first /\ v \in EnvOf(list.tid) /\ v \in Nat /\ var \in Nat
      BY <1>3, <2>1, <2>2
    <3>2. CASE v > Listed
      <4>1. var <= v
        BY <2>1, <3>1, <3>2
      <4> QED
        BY <2>3, <2>4, <3>1, <4>1
    <3>3. CASE \E i \in DOMAIN list.listed : list.listed[i] = v
      BY <2>3, <3>3
    <3> QED
      BY <1>1, <3>1, <3>2, <3>3 DEF IInv, Listing
  <2>7. list'.tid \in DOMAIN tid_reference_table' /\ list'.first \subseteq EnvOf(list.tid)'
    BY <1>1, <1>3, <2>2 DEF EnvOf
  <2>8. list' \in [pc : {"idle", "listing", "done"}, tid : Tid \cup {Nobody},
                   listed : Seq(Var), first : SUBSET Var] /\ list'.pc = "listing"
    BY <1>5, <2>2, <2>3 DEF IInv, Listing
  <2> QED
    <3> HIDE DEF EnvOf
    <3> QED
      BY <2>5, <2>6, <2>7, <2>8 DEF Listing
<1>6. ASSUME Nextenv(list.tid, Listed) = {}, list' = [list EXCEPT !.pc = "done"]
      PROVE  Listing'
  <2>1. \A v \in EnvOf(list.tid) : v <= Listed
    BY <1>3, <1>4, <1>6, NextenvFinds
  <2>2. \A v \in list.first : \E i \in DOMAIN list.listed : list.listed[i] = v
    <3> TAKE v \in list.first
    <3>1. v \in Nat /\ v <= Listed
      BY <1>3, <2>1
    <3>2. ~ (v > Listed)
      BY <1>4, <3>1
    <3> QED
      BY <1>1, <3>2 DEF IInv, Listing
  <2>3. /\ list' \in [pc : {"done"}, tid : Tid \cup {Nobody}, listed : Seq(Var), first : SUBSET Var]
        /\ list'.listed = list.listed /\ list'.first = list.first
    BY <1>6 DEF IInv, Listing
  <2> QED
    BY <2>2, <2>3 DEF IInv, Listing
<1>7. Listing'
  <2>1. \/ \E var \in Nextenv(list.tid, Listed) : list' = [list EXCEPT !.listed = Append(@, var)]
        \/ Nextenv(list.tid, Listed) = {} /\ list' = [list EXCEPT !.pc = "done"]
    BY DEF ListNext
  <2> QED
    BY <1>5, <1>6, <2>1
<1> QED
  BY <1>2, <1>7 DEF IInv

-----------------------------------------------------------------------------

LEMMA StepKeepsIInv == IInv /\ [Next]_vars => IInv'
<1> SUFFICES ASSUME IInv, [Next]_vars PROVE IInv'
  OBVIOUS
<1>1. ASSUME NEW parent \in Tid, NEW name \in Name, NEW suspended \in BOOLEAN,
             NEW detached \in BOOLEAN, Create(parent, name, suspended, detached)
      PROVE  IInv'
  BY <1>1, CreateStep
<1>2. CASE Load \/ Enter \/ Answer
  BY <1>2, LoadStep, EnterStep, AnswerStep
<1>3. ASSUME NEW name \in Name, NEW tid \in Tid, Attach(name, tid)
      PROVE  IInv'
  BY <1>3, AttachStep
<1>4. ASSUME NEW tid \in Tid, Resume(tid) \/ End(tid) \/ ListStart(tid)
      PROVE  IInv'
  BY <1>4, ResumeStep, EndStep, ListStartStep
<1>5. ASSUME NEW tid \in Tid, NEW var \in Var, Setenv(tid, var)
      PROVE  IInv'
  BY <1>5, SetenvStep
<1>6. CASE ListNext
  BY <1>6, ListNextStep
<1>7. CASE UNCHANGED vars
  <2>1. UNCHANGED <<task_table, tid_reference_table, kernel, attached, create, list>>
    BY <1>7 DEF vars
  <2> QED
    BY <2>1, ListingKept DEF IInv, Tables, Tasks, Creation, AnswersNewTask, EnvOf
<1> QED
  BY <1>1, <1>2, <1>3, <1>4, <1>5, <1>6, <1>7 DEF Next

LEMMA Invariant == Spec => []IInv
<1> QED
  BY InitIInv, StepKeepsIInv, PTL DEF Spec

\* Every task that apm has in its tables is attached in mm, though apm never
\* looks whether mm has attached it: those that are not do not get that far.
THEOREM EveryTaskKnownToMm == Spec => []KnownToMm
<1>1. IInv => KnownToMm
  BY DEF IInv, Tasks, KnownToMm
<1> QED
  BY <1>1, Invariant, PTL

\* Whoever creates a task is answered with that task, which is in both tables
\* and has the environment it was given, whatever became of older ones.
THEOREM CreatorGetsItsTask == Spec => []AnswersNewTask
<1>1. IInv => AnswersNewTask
  BY DEF IInv, Creation
<1> QED
  BY <1>1, Invariant, PTL

\* A listing made with one request for each variable, among others' requests,
\* ends with all the variables that were there, each once and in order.
THEOREM ListingsAreComplete == Spec => []EnumeratesAll
<1>1. IInv => EnumeratesAll
  <2> SUFFICES ASSUME IInv PROVE EnumeratesAll
    OBVIOUS
  <2>1. list.pc = "done" => list.first \subseteq ToSet(list.listed)
    <3> SUFFICES ASSUME list.pc = "done", NEW v \in list.first
                 PROVE  v \in ToSet(list.listed)
      OBVIOUS
    <3>1. PICK i \in DOMAIN list.listed : list.listed[i] = v
      BY DEF IInv, Listing
    <3> QED
      BY <3>1 DEF ToSet
  <2> QED
    BY <2>1 DEF IInv, Listing, EnumeratesAll
<1> QED
  BY <1>1, Invariant, PTL

-----------------------------------------------------------------------------
(* The loaders.  Where they are, and what is in memory up to there.          *)

\* The address up to which the segment is loaded.
Reached == (IF loader = "apm" THEN seg.p_vaddr ELSE PageBase) + written

FileByte(s, k) == IF k < s.p_filesz THEN s.p_offset + k + 1 ELSE 0

\* The segment is in memory as far as it lies below an address.
InMemory(s, top) ==
  \A k \in 0 .. s.p_memsz - 1 : s.p_vaddr + k < top => ByteAt(s.p_vaddr + k) = FileByte(s, k)

Whole(s) == \A k \in 0 .. s.p_memsz - 1 : ByteAt(s.p_vaddr + k) = FileByte(s, k)

AllStraight == \A s \in Range(program) : Straight(s)

\* Pages are aligned.
Image == \A va \in DOMAIN image : va \in Nat /\ va % P = 0 /\ image[va] \in [0 .. P - 1 -> Nat]

Loading ==
  /\ loader \in {"apm", "init"} /\ program \in Seq(Segment)
  /\ index \in 1 .. Len(program) + 1
  /\ written \in Nat \cup {-1} /\ stream \in Nat
  /\ pc = "done" => index = Len(program) + 1

\* The loader stands between two pages, and apm's stream at the byte of the
\* file that comes next.
Position ==
  index <= Len(program) /\ written # -1 =>
    /\ Reached \in Nat /\ Reached % P = 0
    /\ loader = "init" => written % P = 0
    /\ loader = "apm" /\ written < seg.p_filesz => stream = seg.p_offset + written

Loaded ==
  AllStraight =>
    /\ \A n \in 1 .. index - 1 : Whole(program[n])
    /\ index <= Len(program) /\ written # -1 => InMemory(seg, Reached)

\* A byte of a page is zero or one of the file.
Clean ==
  \A page \in DOMAIN image, k \in 0 .. P - 1 :
    image[page][k] = 0 \/ \E s \in Range(program) : page + k - s.p_vaddr \in 0 .. s.p_filesz - 1

ElfInv == Image /\ Loading /\ Position /\ Loaded /\ Clean

-----------------------------------------------------------------------------

LEMMA PageArithmetic ==
  ASSUME NEW a \in Nat
  PROVE  /\ a \div P \in Nat /\ a % P \in 0 .. P - 1 /\ (a \div P) * P \in Nat
         /\ a = (a \div P) * P + (a % P)
         /\ ((a \div P) * P) % P = 0
<1>0. P \in Nat \ {0}
  BY ElfLoaderAssumption
<1>1. a \div P \in Nat /\ a % P \in 0 .. P - 1 /\ a = P * (a \div P) + (a % P)
  BY <1>0
<1>2. PICK q \in Nat : q = a \div P
  BY <1>1
<1>3. q * P \in Nat /\ q * P = P * q /\ (q * P) % P = 0
  BY <1>0
<1> QED
  BY <1>1, <1>2, <1>3

\* The page that an address is in.
LEMMA PageOf ==
  ASSUME NEW va \in Nat, va % P = 0, NEW a \in Nat, va <= a, a < va + P
  PROVE  (a \div P) * P = va /\ a % P = a - va
<1>0. P \in Nat \ {0}
  BY ElfLoaderAssumption
<1>1. PICK q \in Nat, r \in 0 .. P - 1, p \in Nat :
        /\ q = a \div P /\ r = a % P /\ a = q * P + r
        /\ va = p * P
  <2>1. va = (va \div P) * P /\ va \div P \in Nat
    BY PageArithmetic
  <2> QED
    BY <2>1, PageArithmetic
<1>2. ASSUME NEW x \in Nat, NEW y \in Nat, x < y PROVE x * P + P <= y * P
  <2>1. x + 1 <= y
    BY <1>2
  <2>2. (x + 1) * P <= y * P
    BY <1>0, <2>1
  <2> QED
    BY <1>0, <2>2
<1>3. ~ (q < p)
  <2> SUFFICES ASSUME q < p PROVE FALSE
    OBVIOUS
  <2>1. q * P + P <= p * P
    BY <1>2
  <2>2. q * P \in Nat /\ p * P \in Nat
    BY <1>0
  <2> QED
    BY <1>0, <1>1, <2>1, <2>2
<1>4. ~ (p < q)
  <2> SUFFICES ASSUME p < q PROVE FALSE
    OBVIOUS
  <2>1. p * P + P <= q * P
    BY <1>2
  <2>2. q * P \in Nat /\ p * P \in Nat
    BY <1>0
  <2> QED
    BY <1>0, <1>1, <2>1, <2>2
<1>5. p = q
  BY <1>3, <1>4
<1>6. q * P \in Nat
  BY <1>0
<1> QED
  BY <1>0, <1>1, <1>5, <1>6

\* The next page begins where a page ends.
LEMMA NextPage ==
  ASSUME NEW va \in Nat, va % P = 0
  PROVE  va + P \in Nat /\ (va + P) % P = 0
<1>0. P \in Nat \ {0}
  BY ElfLoaderAssumption
<1>1. PICK q \in Nat : va = q * P
  <2>1. va = (va \div P) * P /\ va \div P \in Nat
    BY PageArithmetic
  <2> QED
    BY <2>1
<1>2. va + P = (q + 1) * P
  BY <1>0, <1>1
<1>3. ((q + 1) * P) % P = 0
  BY <1>0
<1> QED
  BY <1>0, <1>2, <1>3

LEMMA FileByteIs ==
  ASSUME NEW s \in Segment, NEW k \in Nat
  PROVE  FileByte(s, k) \in Nat
BY DEF FileByte, Segment

\* A page that is mapped shows its bytes, and hides nothing.
LEMMA PageMapped ==
  ASSUME Image, NEW va \in Nat, va % P = 0, NEW bytes \in [0 .. P - 1 -> Nat], MapPage(va, bytes)
  PROVE  /\ Image'
         /\ \A a \in Nat : va <= a /\ a < va + P => ByteAt(a)' = bytes[a - va]
         /\ \A a \in Nat : ByteAt(a) # Nothing => ByteAt(a)' = ByteAt(a)
         /\ DOMAIN image' = DOMAIN image \cup {va} /\ image'[va] = bytes
         /\ \A p \in DOMAIN image : image'[p] = image[p]
<1>1. /\ DOMAIN image' = DOMAIN image \cup {va} /\ va \notin DOMAIN image
      /\ image'[va] = bytes /\ \A p \in DOMAIN image : image'[p] = image[p]
  BY DEF MapPage
<1>2. Image'
  BY <1>1 DEF Image
<1>3. ASSUME NEW a \in Nat, va <= a, a < va + P PROVE ByteAt(a)' = bytes[a - va]
  <2>1. (a \div P) * P = va /\ a % P = a - va
    BY <1>3, PageOf
  <2> QED
    BY <1>1, <2>1 DEF ByteAt
<1>4. ASSUME NEW a \in Nat, ByteAt(a) # Nothing PROVE ByteAt(a)' = ByteAt(a)
  BY <1>1, <1>4 DEF ByteAt
<1> QED
  BY <1>1, <1>2, <1>3, <1>4

\* The segment that is being loaded.
LEMMA SegmentIs ==
  ASSUME Loading, index <= Len(program)
  PROVE  /\ seg \in Segment /\ seg \in Range(program) /\ index \in 1 .. Len(program)
         /\ seg.p_vaddr \in Nat /\ seg.p_offset \in Nat /\ seg.p_filesz \in Nat /\ seg.p_memsz \in Nat
         /\ PageBase \in Nat /\ PageBase % P = 0 /\ Offset \in 0 .. P - 1
         /\ seg.p_vaddr = PageBase + Offset
<1>1. index \in 1 .. Len(program) /\ Len(program) \in Nat
  BY DEF Loading
<1>2. seg \in Segment /\ seg \in Range(program)
  BY <1>1 DEF Loading, seg, Range
<1>3. seg.p_vaddr \in Nat /\ seg.p_offset \in Nat /\ seg.p_filesz \in Nat /\ seg.p_memsz \in Nat
  BY <1>2 DEF Segment
<1>4. /\ PageBase \in Nat /\ PageBase % P = 0 /\ Offset \in 0 .. P - 1
      /\ seg.p_vaddr = PageBase + Offset
  BY <1>3, PageArithmetic DEF PageBase, Offset
<1> QED
  BY <1>1, <1>2, <1>3, <1>4

\* A page that has what the segment says there brings the loader forward by
\* a page.
LEMMA PageLoaded ==
  ASSUME Image, Loading, Loaded, Clean, index <= Len(program),
         NEW va \in Nat, va % P = 0, NEW bytes \in [0 .. P - 1 -> Nat], MapPage(va, bytes),
         UNCHANGED <<loader, program, index, pc>>,
         AllStraight => InMemory(seg, va),
         AllStraight => \A k \in 0 .. seg.p_memsz - 1 :
           va <= seg.p_vaddr + k /\ seg.p_vaddr + k < va + P =>
             bytes[seg.p_vaddr + k - va] = FileByte(seg, k),
         \A j \in 0 .. P - 1 : bytes[j] = 0 \/ va + j - seg.p_vaddr \in 0 .. seg.p_filesz - 1,
         Reached' = va + P
  PROVE  Image' /\ Loaded' /\ Clean' /\ (Reached \in Nat)' /\ (Reached % P = 0)'
<1>1. /\ Image'
      /\ \A a \in Nat : va <= a /\ a < va + P => ByteAt(a)' = bytes[a - va]
      /\ \A a \in Nat : ByteAt(a) # Nothing => ByteAt(a)' = ByteAt(a)
      /\ DOMAIN image' = DOMAIN image \cup {va} /\ image'[va] = bytes
      /\ \A p \in DOMAIN image : image'[p] = image[p]
  BY PageMapped
<1>2. /\ seg \in Segment /\ seg \in Range(program) /\ index \in 1 .. Len(program)
      /\ seg.p_vaddr \in Nat /\ seg.p_memsz \in Nat
  BY SegmentIs
<1>3. seg' = seg /\ AllStraight' = AllStraight
  BY DEF seg, AllStraight, Straight
<1>4. ASSUME NEW s \in Segment, NEW k \in 0 .. s.p_memsz - 1, ByteAt(s.p_vaddr + k) = FileByte(s, k)
      PROVE  ByteAt(s.p_vaddr + k)' = FileByte(s, k)
  <2>1. s.p_vaddr \in Nat /\ s.p_memsz \in Nat
    BY DEF Segment
  <2>2. k \in Nat /\ s.p_vaddr + k \in Nat
    BY <2>1
  <2>3. FileByte(s, k) \in Nat
    BY <2>2, FileByteIs
  <2>4. ByteAt(s.p_vaddr + k) # Nothing
    BY <1>4, <2>3 DEF Nothing
  <2> QED
    BY <1>1, <1>4, <2>2, <2>4
<1>5. ASSUME AllStraight, NEW n \in 1 .. index - 1 PROVE Whole(program[n])'
  <2>1. program[n] \in Segment /\ Whole(program[n])
    BY <1>2, <1>5 DEF Loaded, Loading
  <2>2. ASSUME NEW s \in Segment, Whole(s) PROVE Whole(s)'
    BY <1>4, <2>2 DEF Whole
  <2>3. PICK s \in Segment : s = program[n] /\ s = program'[n]
    BY <2>1
  <2> QED
    BY <2>1, <2>2, <2>3 DEF Whole
<1>6. PICK this \in Segment : this = seg /\ this = seg'
  BY <1>2, <1>3
<1>7. ASSUME AllStraight, NEW k \in 0 .. this.p_memsz - 1, this.p_vaddr + k < va + P
      PROVE  ByteAt(this.p_vaddr + k)' = FileByte(this, k)
  <2>1. this.p_vaddr \in Nat /\ k \in Nat /\ this.p_vaddr + k \in Nat
    <3>1. this.p_vaddr \in Nat /\ this.p_memsz \in Nat
      BY DEF Segment
    <3> QED
      BY <3>1
  <2>2. CASE this.p_vaddr + k < va
    <3>1. ByteAt(this.p_vaddr + k) = FileByte(this, k)
      BY <1>6, <1>7, <2>2 DEF InMemory
    <3> QED
      BY <1>4, <3>1
  <2>3. CASE va <= this.p_vaddr + k
    <3>1. ByteAt(this.p_vaddr + k)' = bytes[this.p_vaddr + k - va]
      <4>1. /\ ((this.p_vaddr + k) \div P) * P = va
            /\ (this.p_vaddr + k) % P = this.p_vaddr + k - va
        BY <1>7, <2>1, <2>3, PageOf
      <4> QED
        BY <1>1, <4>1 DEF ByteAt
    <3>2. bytes[this.p_vaddr + k - va] = FileByte(this, k)
      BY <1>6, <1>7, <2>3
    <3> QED
      BY <3>1, <3>2, Zenon
  <2>4. va <= this.p_vaddr + k \/ this.p_vaddr + k < va
    BY <2>1
  <2> QED
    BY <2>2, <2>3, <2>4
<1>8. Loaded'
  <2>1. ASSUME AllStraight PROVE InMemory(this, va + P)'
    BY <1>7, <2>1 DEF InMemory, FileByte
  <2> QED
    BY <1>3, <1>5, <1>6, <2>1 DEF Loaded
<1>9. Clean'
  <2> SUFFICES ASSUME NEW page \in DOMAIN image', NEW k \in 0 .. P - 1
               PROVE  \/ image'[page][k] = 0
                      \/ \E s \in Range(program) : page + k - s.p_vaddr \in 0 .. s.p_filesz - 1
    BY DEF Clean
  <2>1. CASE page = va
    BY <1>1, <1>2, <2>1
  <2>2. CASE page # va
    BY <1>1, <2>2 DEF Clean
  <2> QED
    BY <2>1, <2>2
<1>10. (Reached \in Nat)' /\ (Reached % P = 0)'
  BY NextPage
<1> QED
  BY <1>1, <1>8, <1>9, <1>10

LEMMA MinOf ==
  ASSUME NEW a \in Int, NEW b \in Int
  PROVE  Min({a, b}) = IF a <= b THEN a ELSE b
<1>1. CASE a <= b
  <2> SUFFICES ASSUME NEW x \in {a, b} PROVE (\A y \in {a, b} : x <= y) <=> x = a
    BY <1>1 DEF Min
  <2> QED
    BY <1>1
<1>2. CASE ~ (a <= b)
  <2> SUFFICES ASSUME NEW x \in {a, b} PROVE (\A y \in {a, b} : x <= y) <=> x = b
    BY <1>2 DEF Min
  <2> QED
    BY <1>2
<1> QED
  BY <1>1, <1>2

LEMMA FilledIs ==
  ASSUME NEW start \in Nat, NEW pos \in Nat, NEW len \in Int
  PROVE  /\ Filled(start, pos, len) \in [0 .. P - 1 -> Nat]
         /\ \A j \in 0 .. P - 1 :
              Filled(start, pos, len)[j] =
                IF start <= j /\ j < start + len THEN pos + (j - start) + 1 ELSE 0
<1>0. P \in Nat \ {0}
  BY ElfLoaderAssumption
<1> QED
  BY <1>0 DEF Filled

LEMMA ZerosAre ==
  Zeros \in [0 .. P - 1 -> Nat] /\ \A j \in 0 .. P - 1 : Zeros[j] = 0
BY DEF Zeros

-----------------------------------------------------------------------------
(* The steps of the loaders.                                                 *)

LEMMA FirstPageStep ==
  ASSUME ElfInv, index <= Len(program), loader = "apm", FirstPage,
         UNCHANGED <<loader, program, index, pc>>, pc = "loading"
  PROVE  ElfInv'
<1>0. P \in Nat \ {0} /\ Image /\ Loading /\ Loaded /\ Clean
  BY ElfLoaderAssumption DEF ElfInv
<1>1. /\ seg.p_vaddr \in Nat /\ seg.p_offset \in Nat /\ seg.p_filesz \in Nat /\ seg.p_memsz \in Nat
      /\ PageBase \in Nat /\ PageBase % P = 0 /\ Offset \in 0 .. P - 1
      /\ seg.p_vaddr = PageBase + Offset
  BY <1>0, SegmentIs
<1>2. seg' = seg
  BY DEF seg
<1>3. written = -1
  BY DEF FirstPage
<1>4. CASE Offset = 0
  <2>1. written' = 0 /\ stream' = seg.p_offset /\ image' = image
    BY <1>4 DEF FirstPage
  <2>2. Image' /\ Clean' /\ Loading'
    BY <1>0, <1>1, <2>1 DEF Image, Clean, Loading
  <2>3. Reached' = seg.p_vaddr
    BY <1>1, <1>2, <2>1 DEF Reached
  <2>4. Position'
    BY <1>1, <1>2, <1>4, <2>1, <2>3 DEF Position
  <2>5. AllStraight' = AllStraight /\ \A n \in 1 .. index - 1 : Whole(program[n])' = Whole(program[n])
    BY <2>1 DEF AllStraight, Straight, Whole, ByteAt, FileByte
  <2>6. InMemory(seg, Reached)'
    BY <1>1, <1>2, <2>3 DEF InMemory
  <2>7. Loaded'
    BY <1>0, <2>5, <2>6 DEF Loaded
  <2> QED
    BY <2>2, <2>4, <2>7 DEF ElfInv
<1>5. CASE Offset # 0
  <2> DEFINE len   == Min({P - Offset, seg.p_filesz})
             bytes == Filled(Offset, seg.p_offset, len)
  <2>1. /\ MapPage(PageBase, bytes)
        /\ stream' = seg.p_offset + len
        /\ written' = P - Offset
    BY <1>5 DEF FirstPage
  <2>2. len = IF P - Offset <= seg.p_filesz THEN P - Offset ELSE seg.p_filesz
    BY <1>0, <1>1, MinOf
  <2>3. len \in Nat
    BY <1>0, <1>1, <2>2
  <2> HIDE DEF len
  <2>4. /\ bytes \in [0 .. P - 1 -> Nat]
        /\ \A j \in 0 .. P - 1 :
             bytes[j] = IF Offset <= j /\ j < Offset + len THEN seg.p_offset + (j - Offset) + 1 ELSE 0
    <3>1. Offset \in Nat /\ len \in Int /\ seg.p_offset \in Nat
      BY <1>0, <1>1, <2>3
    <3> QED
      BY <3>1, FilledIs, Zenon
  <2> HIDE DEF bytes
  <2>5. Reached' = PageBase + P
    BY <1>0, <1>1, <1>2, <2>1 DEF Reached
  <2>6. InMemory(seg, PageBase)
    BY <1>1 DEF InMemory
  <2>7. \A k \in 0 .. seg.p_memsz - 1 :
          PageBase <= seg.p_vaddr + k /\ seg.p_vaddr + k < PageBase + P =>
            bytes[seg.p_vaddr + k - PageBase] = FileByte(seg, k)
    <3> SUFFICES ASSUME NEW k \in 0 .. seg.p_memsz - 1, seg.p_vaddr + k < PageBase + P
                 PROVE  bytes[seg.p_vaddr + k - PageBase] = FileByte(seg, k)
      OBVIOUS
    <3>1. PICK j \in 0 .. P - 1 : j = seg.p_vaddr + k - PageBase /\ j = Offset + k
      BY <1>0, <1>1
    <3>2. bytes[j] = IF k < len THEN seg.p_offset + k + 1 ELSE 0
      BY <1>0, <1>1, <2>3, <2>4, <3>1
    <3>3. k < len <=> k < seg.p_filesz
      BY <1>0, <1>1, <2>2, <3>1
    <3>4. bytes[j] = FileByte(seg, k)
      BY <3>2, <3>3 DEF FileByte
    <3> QED
      BY <3>1, <3>4, Zenon
  <2>8. \A j \in 0 .. P - 1 : bytes[j] = 0 \/ PageBase + j - seg.p_vaddr \in 0 .. seg.p_filesz - 1
    <3> SUFFICES ASSUME NEW j \in 0 .. P - 1, bytes[j] # 0
                 PROVE  PageBase + j - seg.p_vaddr \in 0 .. seg.p_filesz - 1
      OBVIOUS
    <3>1. Offset <= j /\ j < Offset + len
      BY <2>4
    <3>2. PageBase + j - seg.p_vaddr = j - Offset
      BY <1>0, <1>1
    <3>3. j - Offset >= 0 /\ j - Offset < seg.p_filesz
      BY <1>0, <1>1, <2>2, <2>3, <3>1
    <3> QED
      BY <1>0, <1>1, <3>2, <3>3
  <2>9. Image' /\ Loaded' /\ Clean' /\ (Reached \in Nat)' /\ (Reached % P = 0)'
    BY <1>0, <1>1, <2>1, <2>4, <2>5, <2>6, <2>7, <2>8, PageLoaded
  <2>10. Loading'
    BY <1>0, <1>1, <2>1, <2>3 DEF Loading
  <2>11. Position'
    <3>1. written' < seg.p_filesz => stream' = seg.p_offset + written'
      BY <1>0, <1>1, <2>1, <2>2
    <3>2. loader' = "apm"
      OBVIOUS
    <3> QED
      BY <1>2, <2>9, <3>1, <3>2 DEF Position
  <2> QED
    BY <2>9, <2>10, <2>11 DEF ElfInv
<1> QED
  BY <1>4, <1>5

\* Where apm puts the next page.
LEMMA NextPageOfApm ==
  ASSUME ElfInv, index <= Len(program), loader = "apm", written >= 0
  PROVE  /\ PageBase + Offset + written \in Nat /\ (PageBase + Offset + written) % P = 0
         /\ Reached = PageBase + Offset + written
         /\ written \in Nat
         /\ AllStraight => InMemory(seg, PageBase + Offset + written)
<1>1. written \in Nat /\ written # -1
  BY DEF ElfInv, Loading
<1>2. PageBase \in Nat /\ Offset \in Nat /\ seg.p_vaddr = PageBase + Offset
  BY SegmentIs DEF ElfInv
<1>3. Reached = PageBase + Offset + written
  BY <1>2 DEF Reached
<1> QED
  BY <1>1, <1>2, <1>3 DEF ElfInv, Position, Loaded

LEMMA FilePageStep ==
  ASSUME ElfInv, index <= Len(program), loader = "apm", FilePage,
         UNCHANGED <<loader, program, index, pc>>, pc = "loading"
  PROVE  ElfInv'
<1> DEFINE va    == PageBase + Offset + written
           len   == FilePageLength
           bytes == Filled(0, stream, len)
<1>0. P \in Nat \ {0} /\ Image /\ Loading /\ Loaded /\ Clean
  BY ElfLoaderAssumption DEF ElfInv
<1>1. /\ seg.p_vaddr \in Nat /\ seg.p_offset \in Nat /\ seg.p_filesz \in Nat /\ seg.p_memsz \in Nat
      /\ PageBase \in Nat /\ Offset \in 0 .. P - 1
      /\ seg.p_vaddr = PageBase + Offset
  BY <1>0, SegmentIs
<1>2. seg' = seg
  BY DEF seg
<1>3. /\ written >= 0 /\ written < seg.p_filesz
      /\ MapPage(va, bytes) /\ stream' = stream + len /\ written' = written + P
  BY DEF FilePage
<1>4. /\ va \in Nat /\ va % P = 0 /\ Reached = va /\ written \in Nat
      /\ AllStraight => InMemory(seg, va)
  BY <1>3, NextPageOfApm
<1>5. stream = seg.p_offset + written
  BY <1>3 DEF ElfInv, Position, Loading
<1>6. len = IF P <= seg.p_filesz - written THEN P ELSE seg.p_filesz - written
  BY <1>0, <1>1, <1>4, MinOf DEF FilePageLength
<1>7. len \in Nat
  BY <1>0, <1>1, <1>3, <1>4, <1>6
<1>8. stream \in Nat
  BY <1>0 DEF Loading
<1>9. /\ bytes \in [0 .. P - 1 -> Nat]
      /\ \A j \in 0 .. P - 1 :
           bytes[j] = IF 0 <= j /\ j < 0 + len THEN stream + (j - 0) + 1 ELSE 0
  <2>1. 0 \in Nat /\ len \in Int
    BY <1>7
  <2> QED
    BY <1>8, <2>1, FilledIs, Zenon
<1>10. va = seg.p_vaddr + written
  BY <1>1, <1>4
<1> HIDE DEF va, len, bytes
<1>11. Reached' = va + P
  BY <1>0, <1>1, <1>2, <1>3, <1>4, <1>10 DEF Reached
<1>12. \A k \in 0 .. seg.p_memsz - 1 :
         va <= seg.p_vaddr + k /\ seg.p_vaddr + k < va + P =>
           bytes[seg.p_vaddr + k - va] = FileByte(seg, k)
  <2> SUFFICES ASSUME NEW k \in 0 .. seg.p_memsz - 1, va <= seg.p_vaddr + k, seg.p_vaddr + k < va + P
               PROVE  bytes[seg.p_vaddr + k - va] = FileByte(seg, k)
    OBVIOUS
  <2>1. PICK j \in 0 .. P - 1 : j = seg.p_vaddr + k - va /\ k = written + j
    BY <1>0, <1>1, <1>4, <1>10
  <2>2. bytes[j] = IF j < len THEN stream + j + 1 ELSE 0
    BY <1>0, <1>7, <1>8, <1>9, <2>1
  <2>3. j < len <=> k < seg.p_filesz
    BY <1>0, <1>1, <1>4, <1>6, <2>1
  <2>4. stream + j = seg.p_offset + k
    <3>1. written \in Nat
      BY <1>4
    <3> QED
      BY <1>1, <1>5, <2>1, <3>1
  <2>5. bytes[j] = FileByte(seg, k)
    BY <2>2, <2>3, <2>4 DEF FileByte
  <2> QED
    BY <2>1, <2>5, Zenon
<1>13. \A j \in 0 .. P - 1 : bytes[j] = 0 \/ va + j - seg.p_vaddr \in 0 .. seg.p_filesz - 1
  <2> SUFFICES ASSUME NEW j \in 0 .. P - 1, bytes[j] # 0
               PROVE  va + j - seg.p_vaddr \in 0 .. seg.p_filesz - 1
    OBVIOUS
  <2>1. j < len
    BY <1>7, <1>9
  <2>2. va + j - seg.p_vaddr = written + j /\ written \in Nat
    BY <1>1, <1>4, <1>10
  <2>3. written + j < seg.p_filesz
    BY <1>0, <1>1, <1>6, <2>1, <2>2
  <2> QED
    BY <1>1, <2>2, <2>3
<1>14. Image' /\ Loaded' /\ Clean' /\ (Reached \in Nat)' /\ (Reached % P = 0)'
  BY <1>0, <1>3, <1>4, <1>9, <1>11, <1>12, <1>13, PageLoaded
<1>15. Loading'
  BY <1>0, <1>3, <1>4, <1>7, <1>8 DEF Loading
<1>16. Position'
  <2>1. written' < seg.p_filesz => stream' = seg.p_offset + written'
    BY <1>0, <1>1, <1>3, <1>4, <1>5, <1>6
  <2>2. loader' = "apm"
    OBVIOUS
  <2> QED
    BY <1>2, <1>14, <2>1, <2>2 DEF Position
<1> QED
  BY <1>14, <1>15, <1>16 DEF ElfInv

LEMMA ZeroPageStep ==
  ASSUME ElfInv, index <= Len(program), loader = "apm", ZeroPage,
         UNCHANGED <<loader, program, index, pc>>, pc = "loading"
  PROVE  ElfInv'
<1> DEFINE va == PageBase + Offset + written
<1>0. P \in Nat \ {0} /\ Image /\ Loading /\ Loaded /\ Clean
  BY ElfLoaderAssumption DEF ElfInv
<1>1. /\ seg.p_vaddr \in Nat /\ seg.p_offset \in Nat /\ seg.p_filesz \in Nat /\ seg.p_memsz \in Nat
      /\ PageBase \in Nat /\ Offset \in 0 .. P - 1
      /\ seg.p_vaddr = PageBase + Offset
  BY <1>0, SegmentIs
<1>2. seg' = seg
  BY DEF seg
<1>3. /\ written >= seg.p_filesz /\ written # -1
      /\ MapPage(va, Zeros) /\ stream' = stream /\ written' = written + P
  BY DEF ZeroPage
<1>4. written >= 0
  BY <1>0, <1>3 DEF Loading
<1>5. /\ va \in Nat /\ va % P = 0 /\ Reached = va /\ written \in Nat
      /\ AllStraight => InMemory(seg, va)
  BY <1>4, NextPageOfApm
<1>6. va = seg.p_vaddr + written
  BY <1>1, <1>5
<1> HIDE DEF va
<1>7. Reached' = va + P
  BY <1>0, <1>1, <1>2, <1>3, <1>5, <1>6 DEF Reached
<1>8. \A k \in 0 .. seg.p_memsz - 1 :
        va <= seg.p_vaddr + k /\ seg.p_vaddr + k < va + P =>
          Zeros[seg.p_vaddr + k - va] = FileByte(seg, k)
  BY <1>0, <1>1, <1>3, <1>5, <1>6, ZerosAre DEF FileByte
<1>9. Image' /\ Loaded' /\ Clean' /\ (Reached \in Nat)' /\ (Reached % P = 0)'
  BY <1>0, <1>3, <1>5, <1>7, <1>8, ZerosAre, PageLoaded
<1>10. Loading'
  BY <1>0, <1>3, <1>5 DEF Loading
<1>11. Position'
  <2>1. ~ (written' < seg.p_filesz)
    BY <1>0, <1>1, <1>3, <1>5
  <2>2. loader' = "apm"
    OBVIOUS
  <2> QED
    BY <1>2, <1>9, <2>1, <2>2 DEF Position
<1> QED
  BY <1>9, <1>10, <1>11 DEF ElfInv

LEMMA InitPagesStep ==
  ASSUME ElfInv, index <= Len(program), loader = "init", InitPages,
         UNCHANGED <<loader, program, index, pc>>, pc = "loading"
  PROVE  ElfInv'
<1>0. P \in Nat \ {0} /\ Image /\ Loading /\ Loaded /\ Clean
  BY ElfLoaderAssumption DEF ElfInv
<1>1. /\ seg.p_vaddr \in Nat /\ seg.p_offset \in Nat /\ seg.p_filesz \in Nat /\ seg.p_memsz \in Nat
      /\ PageBase \in Nat /\ PageBase % P = 0 /\ Offset \in 0 .. P - 1
      /\ seg.p_vaddr = PageBase + Offset
  BY <1>0, SegmentIs
<1>2. seg' = seg /\ PageBase' = PageBase /\ loader' = "init"
  BY DEF seg, PageBase
<1>3. CASE written = -1 /\ written' = 0 /\ image' = image /\ stream' = stream
  <2>1. Image' /\ Clean' /\ Loading'
    BY <1>0, <1>3 DEF Image, Clean, Loading
  <2>2. Reached' = PageBase
    BY <1>1, <1>2, <1>3 DEF Reached
  <2>3. Position'
    <3>1. written' % P = 0
      BY <1>0, <1>3
    <3> QED
      BY <1>1, <1>2, <2>2, <3>1 DEF Position
  <2>4. AllStraight' = AllStraight /\ \A n \in 1 .. index - 1 : Whole(program[n])' = Whole(program[n])
    BY <1>3 DEF AllStraight, Straight, Whole, ByteAt, FileByte
  <2>5. InMemory(seg, Reached)'
    BY <1>1, <1>2, <2>2 DEF InMemory
  <2>6. Loaded'
    BY <1>0, <2>4, <2>5 DEF Loaded
  <2> QED
    BY <2>1, <2>3, <2>6 DEF ElfInv
<1>4. CASE /\ written # -1 /\ MapPage(PageBase + written, InitPage(written))
           /\ written' = written + P /\ stream' = stream
  <2> DEFINE va    == PageBase + written
             start == IF written = 0 THEN Offset ELSE 0
             end   == Min({P, seg.p_filesz + Offset - written})
             bytes == InitPage(written)
  <2>1. written \in Nat /\ written % P = 0
    BY <1>0, <1>4 DEF ElfInv, Position, Loading
  <2>2. Reached = va /\ va \in Nat /\ va % P = 0
    BY <1>1, <1>4, <2>1 DEF Reached, ElfInv, Position
  <2>3. AllStraight => InMemory(seg, va)
    BY <1>0, <1>4, <2>2 DEF Loaded
  <2>4. end = IF P <= seg.p_filesz + Offset - written THEN P ELSE seg.p_filesz + Offset - written
    BY <1>0, <1>1, <2>1, MinOf
  <2>5. start \in Nat /\ start < P /\ end \in Int /\ seg.p_offset + written \in Nat
    BY <1>0, <1>1, <2>1, <2>4
  <2>6. /\ bytes \in [0 .. P - 1 -> Nat]
        /\ \A j \in 0 .. P - 1 :
             bytes[j] = IF start <= j /\ j < end THEN seg.p_offset + written + (j - start) + 1 ELSE 0
    <3>1. CASE written < seg.p_filesz + Offset
      <4> DEFINE f == Filled(start, seg.p_offset + written, end - start)
      <4>1. bytes = f
        BY <3>1 DEF InitPage
      <4>2. end - start \in Int
        BY <2>5
      <4>3. /\ f \in [0 .. P - 1 -> Nat]
            /\ \A j \in 0 .. P - 1 :
                 f[j] = IF start <= j /\ j < start + (end - start)
                        THEN (seg.p_offset + written) + (j - start) + 1 ELSE 0
        BY <2>5, <4>2, FilledIs, Zenon
      <4>4. start + (end - start) = end
        BY <2>5
      <4> QED
        BY <4>1, <4>3, <4>4, Zenon
    <3>2. CASE ~ (written < seg.p_filesz + Offset)
      <4>1. bytes = Zeros
        BY <3>2 DEF InitPage
      <4>2. end <= 0
        BY <1>0, <1>1, <2>1, <2>4, <3>2
      <4> HIDE DEF start, end, bytes
      <4> QED
        BY <2>5, <4>1, <4>2, ZerosAre
    <3> QED
      BY <3>1, <3>2
  <2>7. written = 0 \/ written >= P
    <3>1. written = (written \div P) * P + (written % P) /\ written \div P \in Nat
      BY <2>1, PageArithmetic
    <3>2. PICK q \in Nat : written = q * P
      <4>1. written = (written \div P) * P
        BY <1>0, <2>1, <3>1
      <4> QED
        BY <3>1, <4>1, Zenon
    <3>3. CASE q = 0
      BY <1>0, <3>2, <3>3
    <3>4. CASE q # 0
      <4>1. PICK p \in Nat : q = p + 1
        BY <3>4
      <4>2. (p + 1) * P = p * P + P /\ p * P \in Nat
        BY <1>0
      <4> QED
        BY <1>0, <3>2, <4>1, <4>2
    <3> QED
      BY <3>3, <3>4
  <2>8. AllStraight => Offset = 0 \/ Offset + seg.p_filesz <= P
    BY <1>0, SegmentIs DEF AllStraight, Straight, Offset
  <2>9. MapPage(va, bytes)
    BY <1>4
  <2>10. start = IF written = 0 THEN Offset ELSE 0
    OBVIOUS
  <2>11. va = PageBase + written
    OBVIOUS
  <2> HIDE DEF va, start, end, bytes
  <2>12. Reached' = va + P
    BY <1>0, <1>1, <1>2, <1>4, <2>1, <2>11 DEF Reached
  <2>13. ASSUME AllStraight, NEW k \in 0 .. seg.p_memsz - 1,
                va <= seg.p_vaddr + k, seg.p_vaddr + k < va + P
         PROVE  bytes[seg.p_vaddr + k - va] = FileByte(seg, k)
    <3>1. PICK j \in 0 .. P - 1 : j = seg.p_vaddr + k - va /\ k = written + j - Offset
      BY <1>0, <1>1, <2>1, <2>11, <2>13
    <3>2. bytes[j] = IF start <= j /\ j < end THEN seg.p_offset + written + (j - start) + 1 ELSE 0
      BY <2>6
    <3>3. /\ written \in Nat /\ P \in Nat \ {0} /\ Offset \in Nat /\ Offset < P
          /\ seg.p_filesz \in Nat /\ seg.p_offset \in Nat /\ j \in Nat /\ j < P
          /\ k = written + j - Offset /\ k \in Nat
      BY <1>0, <1>1, <2>1, <3>1
    <3>4. ASSUME written = 0
          PROVE  /\ start <= j /\ j < end <=> k < seg.p_filesz
                 /\ seg.p_offset + written + (j - start) + 1 = seg.p_offset + k + 1
      <4>1. start = Offset /\ k = j - Offset
        BY <2>10, <3>3, <3>4
      <4>2. end = IF P <= seg.p_filesz + Offset THEN P ELSE seg.p_filesz + Offset
        BY <2>4, <3>3, <3>4
      <4>3. j < end <=> j < seg.p_filesz + Offset
        BY <3>3, <4>2
      <4> QED
        BY <3>3, <3>4, <4>1, <4>3
    <3>5. ASSUME written >= P, Offset = 0
          PROVE  /\ start <= j /\ j < end <=> k < seg.p_filesz
                 /\ seg.p_offset + written + (j - start) + 1 = seg.p_offset + k + 1
      <4>1. start = 0 /\ k = written + j
        BY <2>10, <3>3, <3>5
      <4>2. end = IF P <= seg.p_filesz - written THEN P ELSE seg.p_filesz - written
        BY <2>4, <3>3, <3>5
      <4>3. j < end <=> j < seg.p_filesz - written
        BY <3>3, <4>2
      <4> QED
        BY <3>3, <4>1, <4>3
    <3>6. ASSUME written >= P, Offset + seg.p_filesz <= P
          PROVE  ~ (j < end) /\ ~ (k < seg.p_filesz)
      <4>1. end <= 0
        BY <2>4, <3>3, <3>6
      <4>2. k >= seg.p_filesz
        BY <3>3, <3>6
      <4> QED
        BY <2>5, <3>3, <4>1, <4>2
    <3>7. bytes[j] = FileByte(seg, k)
      <4>1. CASE written = 0
        BY <3>2, <3>4, <4>1 DEF FileByte
      <4>2. CASE written >= P /\ Offset = 0
        BY <3>2, <3>5, <4>2 DEF FileByte
      <4>3. CASE written >= P /\ Offset + seg.p_filesz <= P
        BY <3>2, <3>6, <4>3 DEF FileByte
      <4> QED
        BY <2>7, <2>8, <2>13, <4>1, <4>2, <4>3
    <3> QED
      BY <3>1, <3>7, Zenon
  <2>14. ASSUME NEW j \in 0 .. P - 1
         PROVE  bytes[j] = 0 \/ va + j - seg.p_vaddr \in 0 .. seg.p_filesz - 1
    <3>1. CASE ~ (start <= j /\ j < end)
      BY <2>6, <3>1
    <3>2. CASE start <= j /\ j < end
      <4>1. va + j - seg.p_vaddr = written + j - Offset
        BY <1>1, <2>1, <2>11, <1>0
      <4>2. written + j - Offset >= 0
        BY <1>0, <1>1, <2>1, <2>7, <2>10, <3>2
      <4>3. written + j - Offset < seg.p_filesz
        BY <1>0, <1>1, <2>1, <2>4, <3>2
      <4> QED
        BY <1>0, <1>1, <2>1, <4>1, <4>2, <4>3
    <3> QED
      BY <3>1, <3>2
  <2>15. Image' /\ Loaded' /\ Clean' /\ (Reached \in Nat)' /\ (Reached % P = 0)'
    BY <1>0, <2>2, <2>3, <2>6, <2>9, <2>12, <2>13, <2>14, PageLoaded
  <2>16. Loading'
    BY <1>0, <1>4, <2>1 DEF Loading
  <2>17. Position'
    <3>1. written' % P = 0
      BY <1>4, <2>1, NextPage
    <3> QED
      BY <1>2, <2>15, <3>1 DEF Position
  <2> QED
    BY <2>15, <2>16, <2>17 DEF ElfInv
<1> QED
  BY <1>3, <1>4 DEF InitPages

\* A segment that is loaded up to its end is whole.
LEMMA NextSegmentStep ==
  ASSUME ElfInv, NextSegment
  PROVE  ElfInv'
<1>0. P \in Nat \ {0} /\ Image /\ Loading /\ Loaded /\ Clean
  BY ElfLoaderAssumption DEF ElfInv
<1>1. /\ index <= Len(program) /\ index' = index + 1 /\ written' = -1
      /\ loader' = loader /\ program' = program /\ stream' = stream /\ image' = image /\ pc' = pc
      /\ pc = "loading"
      /\ IF loader = "apm" THEN AllWritten ELSE InitAllWritten
  BY DEF NextSegment
<1>2. /\ seg.p_vaddr \in Nat /\ seg.p_memsz \in Nat /\ index \in 1 .. Len(program)
      /\ PageBase \in Nat
  BY <1>0, <1>1, SegmentIs
<1>3. written # -1 /\ written \in Nat /\ Reached >= seg.p_vaddr + seg.p_memsz
  <2>1. CASE loader = "apm"
    BY <1>0, <1>1, <1>2, <2>1 DEF AllWritten, Reached, Loading
  <2>2. CASE loader # "apm"
    <3> DEFINE last == seg.p_vaddr + seg.p_memsz + P - 1
    <3>1. last \in Nat
      BY <1>0, <1>2
    <3>2. last = (last \div P) * P + (last % P) /\ last % P \in 0 .. P - 1 /\ (last \div P) * P \in Nat
      BY <3>1, PageArithmetic
    <3>3. InitEnd = (last \div P) * P
      BY DEF InitEnd
    <3>4. InitEnd >= seg.p_vaddr + seg.p_memsz /\ InitEnd \in Nat
      <4> DEFINE e == (last \div P) * P
                 r == last % P
      <4>1. e \in Nat /\ r \in 0 .. P - 1 /\ seg.p_vaddr + seg.p_memsz + P - 1 = e + r
        BY <3>2
      <4> HIDE DEF e, r
      <4>2. e >= seg.p_vaddr + seg.p_memsz
        BY <1>0, <1>2, <4>1
      <4> QED
        BY <3>3, <4>1, <4>2 DEF e
    <3>5. written # -1 /\ PageBase + written >= InitEnd
      BY <1>1, <2>2 DEF InitAllWritten
    <3>6. Reached = PageBase + written /\ written \in Nat
      BY <1>0, <2>2, <3>5 DEF Reached, Loading
    <3> QED
      BY <1>2, <3>4, <3>5, <3>6
  <2> QED
    BY <2>1, <2>2
<1>4. AllStraight' = AllStraight /\ \A n \in 1 .. index : Whole(program[n])' = Whole(program[n])
  BY <1>1 DEF AllStraight, Straight, Whole, ByteAt, FileByte
<1>5. ASSUME AllStraight PROVE Whole(program[index])
  <2>1. InMemory(seg, Reached)
    BY <1>0, <1>1, <1>3, <1>5 DEF Loaded
  <2>2. Reached \in Nat
    BY <1>1, <1>3 DEF ElfInv, Position
  <2>3. Whole(seg)
    BY <1>2, <1>3, <2>1, <2>2 DEF InMemory, Whole
  <2> QED
    BY <2>3 DEF seg
<1>6. Loaded'
  <2>1. ASSUME AllStraight, NEW n \in 1 .. index PROVE Whole(program[n])
    BY <1>0, <1>2, <1>5, <2>1 DEF Loaded
  <2> QED
    BY <1>1, <1>2, <1>4, <2>1 DEF Loaded
<1>7. Image' /\ Clean' /\ Loading'
  BY <1>0, <1>1, <1>2 DEF Image, Clean, Loading
<1>8. Position'
  BY <1>1 DEF Position
<1> QED
  BY <1>6, <1>7, <1>8 DEF ElfInv

\* Nothing that the invariant speaks of changes.
LEMMA ElfStays ==
  ASSUME ElfInv, UNCHANGED <<loader, program, index, written, stream, image>>,
         pc' = "done" => index = Len(program) + 1
  PROVE  ElfInv'
<1>1. Image' /\ Clean' /\ Loading'
  BY DEF ElfInv, Image, Clean, Loading
<1>2. Reached' = Reached /\ seg' = seg
  BY DEF Reached, seg, PageBase
<1>3. Position'
  BY <1>2 DEF ElfInv, Position
<1>4. /\ AllStraight' = AllStraight /\ \A n \in 1 .. index - 1 : Whole(program[n])' = Whole(program[n])
      /\ InMemory(seg, Reached)' = InMemory(seg, Reached)
  BY <1>2 DEF AllStraight, Straight, Whole, InMemory, ByteAt, FileByte
<1>5. Loaded'
  BY <1>4 DEF ElfInv, Loaded
<1> QED
  BY <1>1, <1>3, <1>5 DEF ElfInv

LEMMA ElfInitInv == ElfInit => ElfInv
<1> SUFFICES ASSUME ElfInit PROVE ElfInv
  OBVIOUS
<1>1. /\ loader \in {"apm", "init"} /\ program \in Seq(Segment) /\ index = 1 /\ written = -1
      /\ stream = 0 /\ DOMAIN image = {} /\ pc = "loading"
  BY ElfLoaderAssumption DEF ElfInit
<1> QED
  BY <1>1 DEF ElfInv, Image, Loading, Position, Loaded, Clean

LEMMA ElfNextInv == ElfInv /\ [ElfNext]_elf_vars => ElfInv'
<1> SUFFICES ASSUME ElfInv, [ElfNext]_elf_vars PROVE ElfInv'
  OBVIOUS
<1>1. CASE LoadPage
  <2>1. index <= Len(program) /\ pc = "loading" /\ UNCHANGED <<loader, program, index, pc>>
    BY <1>1 DEF LoadPage
  <2>2. CASE loader = "apm" /\ FirstPage
    BY <2>1, <2>2, FirstPageStep
  <2>3. CASE loader = "apm" /\ FilePage
    BY <2>1, <2>3, FilePageStep
  <2>4. CASE loader = "apm" /\ ZeroPage
    BY <2>1, <2>4, ZeroPageStep
  <2>5. CASE loader = "init" /\ InitPages
    BY <2>1, <2>5, InitPagesStep
  <2> QED
    BY <1>1, <2>2, <2>3, <2>4, <2>5 DEF LoadPage
<1>2. CASE NextSegment
  BY <1>2, NextSegmentStep
<1>3. CASE Finish
  <2>1. index = Len(program) + 1
    BY <1>3 DEF Finish, ElfInv, Loading
  <2> QED
    BY <1>3, <2>1, ElfStays DEF Finish
<1>4. CASE Refuse
  BY <1>4, ElfStays DEF Refuse
<1>5. CASE UNCHANGED elf_vars
  <2>1. pc' = "done" => index = Len(program) + 1
    BY <1>5 DEF elf_vars, ElfInv, Loading
  <2> QED
    BY <1>5, <2>1, ElfStays DEF elf_vars
<1> QED
  BY <1>1, <1>2, <1>3, <1>4, <1>5 DEF ElfNext

LEMMA LoadedIs == ElfInv => ImageLoaded
<1> SUFFICES ASSUME ElfInv, pc = "done", \A s \in Range(program) : Straight(s)
             PROVE  /\ \A s \in Range(program) : \A k \in 0 .. s.p_memsz - 1 :
                         ByteAt(s.p_vaddr + k) = IF k < s.p_filesz THEN s.p_offset + k + 1 ELSE 0
                    /\ Clean
  BY DEF ImageLoaded, Clean
<1>1. index = Len(program) + 1 /\ Len(program) \in Nat /\ program \in Seq(Segment)
  BY DEF ElfInv, Loading
<1>2. \A n \in 1 .. Len(program) : Whole(program[n])
  BY <1>1 DEF ElfInv, Loaded, AllStraight
<1>3. ASSUME NEW s \in Range(program) PROVE Whole(s)
  BY <1>1, <1>2 DEF Range
<1> QED
  BY <1>3 DEF Whole, FileByte, ElfInv

\* A program that is loaded lies in memory as its segments say: every byte of
\* the file in its place, zeros behind, nothing else, no page of a segment
\* over another's (load_elf in apm's elf_loader.cpp and in init's task.c).
\* For pages of any size, and programs of any number of segments of any
\* alignment and length; those init loads, if they are straight.
THEOREM ProgramLaidOut == ElfSpec => []ImageLoaded
<1>1. ElfSpec => []ElfInv
  BY ElfInitInv, ElfNextInv, PTL DEF ElfSpec
<1> QED
  BY <1>1, LoadedIs, PTL
=============================================================================
