----------------------------- MODULE DmHandshake -----------------------------
(***************************************************************************)
(* How init hands the device manager (dm) the pages of the device tree and *)
(* the device memory: launch_dm in init against main in dm.  The caps are  *)
(* more than a message holds, so both sides count slots, each on its own,  *)
(* and nothing in a message says that it is the last.                      *)
(*                                                                         *)
(* A send is a rendezvous: it ends when dm receives.  Slot i of a message  *)
(* is its element i + 1; the caps are numbered in the order they are put.  *)
(***************************************************************************)
EXTENDS Integers, Sequences

CONSTANTS
  Slots,     \* slots of a message, 128
  DtbCounts, \* num_dtb_vp_caps, as boots may have it
  DevCounts  \* the number of device memory caps

ASSUME HandshakeAssumption ==
  /\ Slots \in Nat /\ Slots > 4
  /\ DtbCounts \subseteq Nat \ {0} /\ DevCounts \subseteq Nat

VARIABLES
  ndtb, ndev, \* the caps of this boot
  init_pc,    \* fill | send | call | await | done
  out,        \* the message init fills
  next,       \* the next cap to put
  dm_pc,      \* first | open | load | more | map | last | reply | idle | exit
  msg,        \* the message dm has received
  index,      \* dm's next slot
  cap,        \* what load_ipc_cap returns
  got         \* the caps dm has taken in

sender == <<init_pc, out, next>>
vars == <<ndtb, ndev, sender, dm_pc, msg, index, cap, got>>

Total  == ndtb + ndev
Header == <<-3, -2, -1>> \* num_dtb_vp_caps, num_mem_caps and the id cap of mm
NoCap  == 0 \* move_ipc_cap of a slot that holds no cap

Slot(i) == IF i < Len(msg) THEN msg[i + 1] ELSE NoCap

-----------------------------------------------------------------------------
(* init                                                                    *)

InitPut ==
  /\ init_pc = "fill" /\ next <= Total
  /\ out' = Append(out, next)
  /\ next' = next + 1
  /\ init_pc' = IF Len(out') = Slots THEN "send" ELSE "fill"
  /\ UNCHANGED <<ndtb, ndev, dm_pc, msg, index, cap, got>>

\* All caps are put: what is left is sent, and then dm is called.
InitFilled ==
  /\ init_pc = "fill" /\ next > Total
  /\ init_pc' = IF out # <<>> THEN "send" ELSE "call"
  /\ UNCHANGED <<ndtb, ndev, out, next, dm_pc, msg, index, cap, got>>

-----------------------------------------------------------------------------
(* The endpoint, and dm.                                                   *)

\* Mutant: dm reads on where it was in the message before.
BugStartSlot(pc) == 4

\* The slot dm reads a message from, by what it was received for.
StartSlot(pc) == IF pc = "first" THEN 4 ELSE 0

Received(pc) == CASE pc = "first" -> "open" [] pc = "more" -> "map" [] pc = "last" -> "reply"

Receive ==
  /\ init_pc \in {"send", "call"} /\ dm_pc \in {"first", "more", "last"}
  /\ msg' = out /\ out' = <<>>
  /\ init_pc' = IF init_pc = "send" THEN "fill" ELSE "await"
  /\ dm_pc' = Received(dm_pc)
  /\ index' = StartSlot(dm_pc)
  /\ UNCHANGED <<ndtb, ndev, next, cap, got>>

\* The first page of the device tree, at the address that mm chooses; with
\* no room for it dm gives up, here as below.
DmOpen ==
  /\ dm_pc = "open"
  /\ \/ dm_pc' = "load" /\ got' = <<Slot(3)>>
     \/ dm_pc' = "exit" /\ UNCHANGED got
  /\ UNCHANGED <<ndtb, ndev, sender, msg, index, cap>>

\* Mutant: the last slot of a message is not read.
BugAfter(i) == IF i = Slots - 1 THEN "more" ELSE "map"

\* load_ipc_cap goes for the next message as soon as it has emptied one,
\* before the cap it took is used and whether another cap is due or not.
After(i) == IF i = Slots THEN "more" ELSE "map"

DmLoad ==
  /\ dm_pc = "load" /\ Len(got) < Total
  /\ cap' = Slot(index)
  /\ index' = index + 1
  /\ dm_pc' = After(index')
  /\ UNCHANGED <<ndtb, ndev, sender, msg, got>>

DmMap ==
  /\ dm_pc = "map"
  /\ \/ dm_pc' = "load" /\ got' = Append(got, cap)
     \/ Len(got) < ndtb /\ dm_pc' = "exit" /\ UNCHANGED got
  /\ UNCHANGED <<ndtb, ndev, sender, msg, index, cap>>

\* The device tree is read and the console's device launched, or that fails.
DmLaunch ==
  /\ dm_pc = "load" /\ Len(got) = Total
  /\ dm_pc' \in {"last", "exit"}
  /\ UNCHANGED <<ndtb, ndev, sender, msg, index, cap, got>>

DmReply ==
  /\ dm_pc = "reply"
  /\ dm_pc' = "idle"
  /\ init_pc' = IF init_pc = "await" THEN "done" ELSE init_pc
  /\ UNCHANGED <<ndtb, ndev, out, next, msg, index, cap, got>>

Init ==
  /\ ndtb \in DtbCounts /\ ndev \in DevCounts
  /\ init_pc = "fill" /\ out = Header /\ next = 1
  /\ dm_pc = "first" /\ msg = <<>> /\ index = 0 /\ cap = NoCap /\ got = <<>>

Next ==
  \/ InitPut \/ InitFilled
  \/ Receive
  \/ DmOpen \/ DmLoad \/ DmMap \/ DmLaunch \/ DmReply

\* The kernel runs a task that is not blocked.
Spec == Init /\ [][Next]_vars /\ WF_vars(Next)

-----------------------------------------------------------------------------

\* The caps fill their messages to the last slot.
Boundary == (Len(Header) + Total) % Slots = 0

\* dm takes in the caps in the order init put them, however they fell into
\* messages: a page of the device tree is never registered as a device, nor
\* a device mapped as a page, and no empty slot is taken for a cap.
CapsInOrder ==
  /\ \A i \in 1 .. Len(got) : got[i] = i
  /\ dm_pc \in {"last", "reply", "idle"} => Len(got) = Total

\* init is answered when dm has launched the device, or dm gives up, unless
\* the caps fill their messages to the last slot: then load_ipc_cap takes
\* init's call for more caps, and each waits for the other for ever.
Answered == ~Boundary => <>(init_pc = "done" \/ dm_pc = "exit")
=============================================================================
