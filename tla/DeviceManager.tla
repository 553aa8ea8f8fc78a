---------------------------- MODULE DeviceManager ----------------------------
(***************************************************************************)
(* dm after the handshake: it reads the device tree out of the pages that  *)
(* init has handed over, looks up the device that /chosen names for the    *)
(* console, finds the memory capability that was handed over for it, and   *)
(* starts the uart driver with it.  All of it is the step DmLaunch of      *)
(* DmHandshake, which this module implements.                              *)
(*                                                                         *)
(* A device tree is a sequence of tokens [tag, name, unit, value].  A node *)
(* name and its unit address, the number behind the '@', are kept apart    *)
(* and Empty stands for a missing '@'.  The parser calls itself for every  *)
(* node: stack holds the nodes that its calls are building.                *)
(***************************************************************************)
EXTENDS DmHandshake, SequencesExt

CONSTANTS
  Blobs,  \* device trees, as firmwares may have them: [valid, tokens]
  Base,   \* numbers that a cell of a property holds, 2^32
  Phys(_) \* sys_mem_cap_phys_addr of a boot's i-th device capability

ASSUME DeviceManagerAssumption == Base \in Nat /\ Base > 1

\* A device tree is tokens up to the one that ends it, and an address or a
\* size is cells.
WellFormed(tokens) ==
  /\ tokens # <<>> /\ tokens \in Seq(Range(tokens))
  /\ tokens[Len(tokens)].tag \notin {"nop", "begin", "prop", "end"}
  /\ \A k \in 1 .. Len(tokens) : tokens[k].tag = "prop" =>
       /\ tokens[k].value \in Seq(Range(tokens[k].value))
       /\ tokens[k].name = "reg" => tokens[k].value \in Seq(0 .. Base - 1)

ASSUME BlobAssumption == \A b \in Blobs : b.valid => WellFormed(b.tokens)

VARIABLES
  blob,      \* what the pages of the device tree hold
  step,      \* none | parse | register | stdout | launch | endpoint | create
             \* | send, or how it ended: running | refused | aborted | failed
  pos,       \* the token that is read next
  stack,     \* the nodes being built, outermost first
  root,      \* dt: {the root node}, or {} before it is read
  launchers, \* device_launchers: the paths that have one
  node,      \* {the node that is being launched}
  mem_cap,   \* its memory capability
  driver_pc, \* none | suspended | opening | running | aborted
  driver     \* the message the driver got

parser  == <<pos, stack, root>>
launch  == <<launchers, node, mem_cap>>
uart    == <<driver_pc, driver>>
dm_vars == <<blob, step, parser, launch, uart>>
all     == <<vars, dm_vars>>

Empty == -1
DefaultCells == [address |-> 2, size |-> 1]

-----------------------------------------------------------------------------
(* device_tree::load and parse_node.                                       *)

Token == blob.tokens[pos]
Node == Last(stack)
Put(n) == stack' = Append(Front(stack), n)

\* The property as a number of one cell, or a default.
Number(n, name, default) ==
  IF name \in DOMAIN n.properties THEN n.properties[name][1] ELSE default

\* Mutant: a node hands down its own cells when it does not state any.
BugChildCells(n) ==
  [address |-> Number(n, "#address-cells", n.cells.address),
   size    |-> Number(n, "#size-cells", n.cells.size)]

\* What a node's properties, as far as they are read, say of its children.
ChildCells(n) ==
  [address |-> Number(n, "#address-cells", DefaultCells.address),
   size    |-> Number(n, "#size-cells", DefaultCells.size)]

\* A header that is no device tree's, or one that is longer than its pages.
ParseHeader ==
  /\ step = "none" /\ dm_pc = "load" /\ Len(got) = Total
  /\ IF blob.valid
     THEN step' = "parse" /\ UNCHANGED vars
     ELSE step' = "aborted" /\ DmLaunch /\ dm_pc' = "exit"
  /\ UNCHANGED <<blob, parser, launch, uart>>

Parsing(tag) == step = "parse" /\ Token.tag = tag /\ pos' = pos + 1

ParseNop ==
  /\ Parsing("nop")
  /\ UNCHANGED <<vars, blob, step, stack, root, launch, uart>>

ParseBegin ==
  /\ Parsing("begin")
  /\ stack' = Append(stack,
       [name       |-> Token.name,
        cells      |-> IF stack = <<>> THEN DefaultCells ELSE ChildCells(Node),
        properties |-> <<>>,
        children   |-> <<>>])
  /\ UNCHANGED <<vars, blob, step, root, launch, uart>>

\* Of entries of one name the first is kept.
Emplace(f, name, value) ==
  [m \in DOMAIN f \cup {name} |-> IF m \in DOMAIN f THEN f[m] ELSE value]

ParseProperty ==
  /\ Parsing("prop") /\ stack # <<>>
  /\ Put([Node EXCEPT !.properties = Emplace(@, Token.name, Token.value)])
  /\ UNCHANGED <<vars, blob, step, root, launch, uart>>

\* Of children of one name, whatever their unit addresses, the first is kept.
WithChild(parent, child) ==
  [parent EXCEPT !.children = Emplace(@, child.name, child)]

\* A node goes into its parent when it is complete; the root ends the parse.
ParseEnd ==
  /\ Parsing("end") /\ stack # <<>>
  /\ IF Len(stack) = 1
     THEN stack' = <<>> /\ root' = {Node} /\ step' = "register"
     ELSE /\ stack' = Append(Front(Front(stack)), WithChild(stack[Len(stack) - 1], Node))
          /\ UNCHANGED <<root, step>>
  /\ UNCHANGED <<vars, blob, launch, uart>>

\* Any other tag, or a property or an end where the root should begin.
ParseAbort ==
  /\ step = "parse"
  /\ \/ Token.tag \notin {"nop", "begin", "prop", "end"}
     \/ stack = <<>> /\ Token.tag \in {"prop", "end"}
  /\ step' = "aborted" /\ DmLaunch /\ dm_pc' = "exit"
  /\ UNCHANGED <<blob, parser, launch, uart>>

-----------------------------------------------------------------------------
(* The device manager.                                                     *)

\* has_node and get_node: the set of the one node at a path of names, or {}.
NodesAt(path) ==
  LET at[d \in 0 .. Len(path)] ==
        IF d = 0 THEN root
        ELSE {n.children[path[d]] : n \in {m \in at[d - 1] : path[d] \in DOMAIN m.children}}
  IN at[Len(path)]

UartPath   == <<"soc", "uart">>
SerialPath == <<"soc", "serial">>

\* load_dtb registers one kind of device.
Register ==
  /\ step = "register"
  /\ step' = "stdout"
  /\ launchers' = CASE NodesAt(UartPath) # {} -> {UartPath}
                    [] NodesAt(UartPath) = {} /\ NodesAt(SerialPath) # {} -> {SerialPath}
                    [] OTHER -> {}
  /\ UNCHANGED <<vars, blob, parser, node, mem_cap, uart>>

\* Mutant: a name keeps its unit address.
BugCutAtUnit(path) == [i \in 1 .. Len(path) |-> IF path[i].unit = Empty THEN path[i].name ELSE "unit"]

\* The names of a path up to its first '@'.  Without one the path keeps the
\* zero that ends the property, and is no node's.
CutAtUnit(path) ==
  LET at == {i \in 1 .. Len(path) : path[i].unit # Empty}
      first == CHOOSE i \in at : \A k \in at : i <= k
  IN IF at = {} THEN <<"zero">> ELSE [i \in 1 .. first |-> path[i].name]

\* Mutant: dm gives up and does not end.
BugRefuse == step' = "refused" /\ UNCHANGED vars

\* dm gives up: main returns, or an exception ends it.
Refuse == step' = "refused" /\ DmLaunch /\ dm_pc' = "exit"

\* lookup_node of /chosen aborts if there is none, and .at throws.
Stdout ==
  /\ step = "stdout"
  /\ LET chosen == {n \in NodesAt(<<"chosen">>) : "stdout-path" \in DOMAIN n.properties}
         paths == {CutAtUnit(n.properties["stdout-path"]) : n \in chosen} \cap launchers
     IN IF paths # {}
        THEN /\ step' = "launch" /\ node' = UNION {NodesAt(p) : p \in paths}
             /\ UNCHANGED vars
        ELSE Refuse /\ UNCHANGED node
  /\ UNCHANGED <<blob, parser, launchers, mem_cap, uart>>

\* Mutant: an address is one cell, however many the parent states.
BugCellsToNumber(cells) == cells[Len(cells)]

\* Cells put together, 32 bits each, in a word of 64.
CellsToNumber(cells) ==
  LET number[j \in 0 .. Len(cells)] ==
        IF j = 0 THEN 0 ELSE (number[j - 1] * Base + cells[j]) % (Base * Base)
  IN number[Len(cells)]

\* The address of the first region of to_reg.
Address(n) == CellsToNumber(SubSeq(n.properties["reg"], 1, n.cells.address))

\* dev_mem_caps has the capabilities that dm took for devices.
FindMemCap(addr) == {i \in 1 .. ndev : Phys(i) = addr}

\* ns16550a_launcher finds the memory of the device.
FindDevice ==
  /\ step = "launch"
  /\ LET devices == {n \in node : "reg" \in DOMAIN n.properties}
         caps == UNION {FindMemCap(Address(n)) : n \in devices}
     IN IF caps # {}
        THEN step' = "endpoint" /\ mem_cap' = got[ndtb + Max(caps)] /\ UNCHANGED vars
        ELSE Refuse /\ UNCHANGED mem_cap
  /\ UNCHANGED <<blob, parser, launchers, node, uart>>

Fail == step' = "failed" /\ DmLaunch /\ dm_pc' = "exit"

\* mm has no memory left for an endpoint, or apm does not create the driver.
MakeEndpoint ==
  /\ step = "endpoint"
  /\ \/ step' = "create" /\ UNCHANGED vars
     \/ Fail
  /\ UNCHANGED <<blob, parser, launch, uart>>

CreateDriver ==
  /\ step = "create"
  /\ \/ step' = "send" /\ driver_pc' = "suspended" /\ UNCHANGED vars
     \/ Fail /\ UNCHANGED driver_pc
  /\ UNCHANGED <<blob, parser, launch, driver>>

Shift(n) == Number(n, "reg-shift", 0)

\* The driver is resumed, and dm goes on when it has taken the message.
SendDriver ==
  /\ step = "send"
  /\ step' = "running"
  /\ driver_pc' = "opening"
  /\ driver' = {[cap |-> mem_cap, shift |-> Shift(n)] : n \in node}
  /\ DmLaunch /\ dm_pc' = "last"
  /\ UNCHANGED <<blob, parser, launch>>

\* The driver maps its device while dm goes on, and serves or aborts.
DriverOpen ==
  /\ driver_pc = "opening"
  /\ driver_pc' \in {"running", "aborted"}
  /\ UNCHANGED <<vars, blob, step, parser, launch, driver>>

-----------------------------------------------------------------------------

DmInit ==
  /\ Init
  /\ blob \in Blobs
  /\ step = "none" /\ pos = 1 /\ stack = <<>> /\ root = {}
  /\ launchers = {} /\ node = {} /\ mem_cap = NoCap
  /\ driver_pc = "none" /\ driver = {}

Handover ==
  /\ InitPut \/ InitFilled \/ Receive \/ DmOpen \/ DmLoad \/ DmMap \/ DmReply
  /\ UNCHANGED dm_vars

Parse  == ParseHeader \/ ParseNop \/ ParseBegin \/ ParseProperty \/ ParseEnd \/ ParseAbort
Launch == Register \/ Stdout \/ FindDevice \/ MakeEndpoint \/ CreateDriver \/ SendDriver

DmNext == Handover \/ Parse \/ Launch \/ DriverOpen

\* The kernel runs a task that is not blocked, init and dm as well as the
\* driver.
DmSpec == DmInit /\ [][DmNext]_all /\ WF_all(Handover \/ Parse \/ Launch) /\ WF_all(DriverOpen)

-----------------------------------------------------------------------------
(* What a device tree says, read off the tokens that were read.            *)

Tokens == blob.tokens
Read   == 1 .. pos - 1
Begins == {i \in Read : Tokens[i].tag = "begin"}

\* The nodes that token i is in, by the tokens they begin with.
Chain(i) ==
  LET chain[k \in Nat] ==
        IF k = 0 THEN <<>>
        ELSE CASE Tokens[k].tag = "begin" -> Append(chain[k - 1], k)
               [] Tokens[k].tag = "end" -> Front(chain[k - 1])
               [] OTHER -> chain[k - 1]
  IN chain[i]

Names(i) == [d \in 1 .. Len(Chain(i)) - 1 |-> Tokens[Chain(i)[d + 1]].name]

Units(i) == [d \in 1 .. Len(Chain(i)) - 1 |-> Tokens[Chain(i)[d + 1]].unit]

\* No node of the chain comes after a sibling of its name.
Foremost(i) ==
  \A k \in Range(Chain(i)) : ~\E j \in Begins :
    j < k /\ Tokens[j].name = Tokens[k].name /\ Front(Chain(j)) = Front(Chain(k))

\* Where the node that begins at token i states the property name.
Props(i, name) ==
  {k \in Read : Tokens[k].tag = "prop" /\ Tokens[k].name = name /\ Chain(k) = Chain(i)}

First(K) == CHOOSE k \in K : \A j \in K : k <= j

\* The property's value: the one that is stated first.
Value(i, name) == Tokens[First(Props(i, name))].value

\* The number that is stated first by one of the tokens K, or a default.
Stated(K, default) == IF K = {} THEN default ELSE Tokens[First(K)].value[1]

\* What the node around it has stated of its children when node i begins.
AddressCells(i) ==
  Stated({k \in Props(Last(Front(Chain(i))), "#address-cells") : k < i}, 2)

\* Node i has an address of one cell or two, as a number.
Addressed(i) ==
  /\ Props(i, "reg") # {}
  /\ AddressCells(i) \in {1, 2} /\ AddressCells(i) <= Len(Value(i, "reg"))

DeviceAddress(i) ==
  LET reg == Value(i, "reg")
  IN IF AddressCells(i) = 1 THEN reg[1] ELSE reg[1] * Base + reg[2]

\* The console's device: the node that /chosen names, unit addresses and all.
\* It is the first of its name, as those around it are, and none of them has
\* a unit address: dm keeps the first of siblings of one name, and cuts the
\* path at its first '@'.
ConsoleDevice ==
  LET chosen == {i \in Begins : Names(i) = <<"chosen">> /\ Foremost(i)}
      paths  == {Value(i, "stdout-path") : i \in {i \in chosen : Props(i, "stdout-path") # {}}}
  IN {i \in Begins :
        /\ Foremost(i) /\ \A d \in 1 .. Len(Units(i)) - 1 : Units(i)[d] = Empty
        /\ \E p \in paths : /\ Names(i) = [d \in 1 .. Len(p) |-> p[d].name]
                            /\ Units(i) = [d \in 1 .. Len(p) |-> p[d].unit]}

-----------------------------------------------------------------------------

\* The tree that parse_node builds has each node of the blob that does not
\* come after a sibling of its name, at the path of its names, with the
\* properties that the blob gives it, each as it is stated first, with the
\* cells that the node around it states before, and with its children.
TreeRead ==
  step = "register" =>
    \A i \in Begins : Foremost(i) =>
      \E n \in NodesAt(Names(i)) :
        /\ Len(Chain(i)) > 1 => n.cells.address = AddressCells(i)
        /\ DOMAIN n.properties = {Tokens[k].name : k \in
             {k \in Read : Tokens[k].tag = "prop" /\ Chain(k) = Chain(i)}}
        /\ \A name \in DOMAIN n.properties : n.properties[name] = Value(i, name)
        /\ DOMAIN n.children = {Tokens[j].name : j \in {j \in Begins : Front(Chain(j)) = Chain(i)}}

\* The driver works on the device that the firmware has chosen: it has that
\* device's memory, not a page of the device tree or another device's, and
\* its register spacing.
DriverGetsItsDevice ==
  driver # {} =>
    \A i \in ConsoleDevice : Addressed(i) =>
      \E k \in 1 .. ndev :
        /\ Phys(k) = DeviceAddress(i)
        /\ driver = {[cap |-> ndtb + k, shift |-> Stated(Props(i, "reg-shift"), 0)]}

\* dm does not give up a console that it could have: a serial or uart right
\* under /soc, chosen with its unit address, whose memory was handed over;
\* a serial only where there is no uart.
ConsoleLaunched ==
  step = "refused" =>
    ~\E i \in ConsoleDevice :
       /\ Units(i) # <<>> /\ Last(Units(i)) # Empty
       /\ \/ Names(i) = UartPath
          \/ Names(i) = SerialPath /\ ~\E j \in Begins : Names(j) = UartPath
       /\ Addressed(i)
       /\ \E k \in 1 .. ndev : Phys(k) = DeviceAddress(i)

\* All that dm does with the device tree is the one step DmLaunch of the
\* handshake: what is shown of the handshake holds with it.
Handshake == INSTANCE DmHandshake
ImplementsHandshake == Handshake!Spec
=============================================================================
