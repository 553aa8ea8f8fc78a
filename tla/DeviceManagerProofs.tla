------------------------- MODULE DeviceManagerProofs -------------------------
(* What is proved of the hand-over from init to dm, for messages of any     *)
(* length and any number of capabilities; of the device tree that dm reads  *)
(* between its steps, however deep it is and in whatever order; and of the  *)
(* driver that dm starts with what the tree says.                           *)
EXTENDS DeviceManager, NaturalsInduction, WellFoundedInduction, TLAPS

-----------------------------------------------------------------------------
(* The invariant of the hand-over: the capabilities that dm has used, the   *)
(* one it holds, those of its message that it has not read and those that   *)
(* init has put in the next are consecutive, in this order.                 *)

Counts == ndtb \in Nat \ {0} /\ ndev \in Nat

Sender ==
  /\ init_pc \in {"fill", "send", "call", "await", "done"}
  /\ out \in Seq(Int) /\ Len(out) <= Slots
  /\ next \in 1 .. Total + 1
  /\ init_pc = "fill" => Len(out) < Slots
  /\ init_pc = "send" => out # <<>> /\ (Len(out) = Slots \/ next = Total + 1)
  /\ init_pc \in {"call", "await", "done"} => out = <<>> /\ next = Total + 1

\* The capabilities that dm has read from its messages.
Taken == Len(got) + (IF dm_pc \in {"open", "more", "map"} THEN 1 ELSE 0)

\* The first message begins with something else.
FirstMessage ==
  /\ got = <<>> /\ init_pc \in {"fill", "send"}
  /\ Len(out) = Len(Header) + next - 1
  /\ \A i \in 1 .. next - 1 : out[Len(Header) + i] = i

Messages ==
  /\ msg \in Seq(Int) /\ Len(msg) <= Slots
  /\ index \in 0 .. Len(msg)
  /\ \A i \in index + 1 .. Len(msg) : msg[i] = Taken + i - index
  /\ next - Len(out) = Taken + (Len(msg) - index) + 1
  /\ \A i \in 1 .. Len(out) : out[i] = next - 1 - Len(out) + i
  /\ Len(msg) < Slots => Taken + (Len(msg) - index) = Total

\* Where dm is in its message.
Reader ==
  /\ dm_pc \in {"open", "load", "map"} => index < Slots
  /\ dm_pc = "more" => index = Slots
  /\ dm_pc \in {"more", "map"} => cap = Taken
  /\ dm_pc = "open" => got = <<>> /\ Len(msg) >= 4 /\ msg[4] = 1
  /\ dm_pc \in {"last", "reply", "idle"} => Len(got) = Total

HInv ==
  /\ Counts /\ Sender
  /\ got \in Seq(Int) /\ \A i \in 1 .. Len(got) : got[i] = i
  /\ dm_pc \in {"first", "open", "load", "more", "map", "last", "reply", "idle", "exit"}
  /\ dm_pc = "first" => FirstMessage
  /\ dm_pc \notin {"first", "exit"} => Messages /\ Reader

-----------------------------------------------------------------------------

LEMMA InitHInv == Init => HInv
<1> SUFFICES ASSUME Init PROVE HInv
  OBVIOUS
<1>1. Counts
  BY HandshakeAssumption DEF Init, Counts
<1>2. Sender
  BY <1>1, HandshakeAssumption DEF Init, Counts, Sender, Header, Total
<1>3. FirstMessage
  BY DEF Init, FirstMessage, Header
<1> QED
  BY <1>1, <1>2, <1>3 DEF Init, HInv

LEMMA InitPutStep ==
  ASSUME HInv, InitPut
  PROVE  HInv'
<1> USE HandshakeAssumption
<1>1. /\ next \in Nat \ {0} /\ next <= Total /\ Total \in Nat /\ out \in Seq(Int)
      /\ Len(out) < Slots /\ init_pc = "fill"
  BY DEF HInv, Counts, Sender, InitPut, Total
<1>2. /\ out' = Append(out, next) /\ next' = next + 1 /\ Len(out') = Len(out) + 1
      /\ init_pc' = IF Len(out') = Slots THEN "send" ELSE "fill"
      /\ UNCHANGED <<ndtb, ndev, dm_pc, msg, index, cap, got>>
  BY <1>1 DEF InitPut
<1>3. /\ out' \in Seq(Int)
      /\ \A i \in 1 .. Len(out) : out'[i] = out[i]
      /\ out'[Len(out) + 1] = next
  BY <1>1, <1>2
<1>4. Counts' /\ Total' = Total /\ Taken' = Taken
  BY <1>2 DEF HInv, Counts, Total, Taken
<1>5. Sender'
  <2>1. out' # <<>>
    BY <1>1, <1>2
  <2> QED
    BY <1>1, <1>2, <1>3, <1>4, <2>1 DEF Sender
<1>6. dm_pc = "first" => FirstMessage'
  <2> SUFFICES ASSUME dm_pc = "first" PROVE FirstMessage'
    OBVIOUS
  <2>1. FirstMessage /\ Len(Header) = 3
    BY DEF HInv, Header
  <2>2. \A i \in 1 .. next : out'[3 + i] = i
    <3> TAKE i \in 1 .. next
    <3>1. CASE i = next
      BY <3>1, <2>1, <1>1, <1>2, <1>3 DEF FirstMessage
    <3>2. CASE i # next
      <4>1. i \in 1 .. next - 1 /\ 3 + i \in 1 .. Len(out)
        BY <3>2, <2>1, <1>1 DEF FirstMessage
      <4> QED
        BY <4>1, <2>1, <1>3 DEF FirstMessage
    <3> QED
      BY <3>1, <3>2
  <2> QED
    BY <2>1, <2>2, <1>1, <1>2 DEF FirstMessage, Header
<1>7. dm_pc \notin {"first", "exit"} => Messages' /\ Reader'
  <2> SUFFICES ASSUME dm_pc \notin {"first", "exit"} PROVE Messages' /\ Reader'
    OBVIOUS
  <2>1. Messages /\ Reader
    BY DEF HInv
  <2>2. \A i \in 1 .. Len(out') : out'[i] = next' - 1 - Len(out') + i
    <3> TAKE i \in 1 .. Len(out')
    <3>1. CASE i = Len(out) + 1
      BY <3>1, <1>1, <1>2, <1>3
    <3>2. CASE i # Len(out) + 1
      <4>1. i \in 1 .. Len(out)
        BY <3>2, <1>1, <1>2
      <4>2. out[i] = next - 1 - Len(out) + i
        BY <4>1, <2>1 DEF Messages
      <4> QED
        BY <4>1, <4>2, <1>1, <1>2, <1>3
    <3> QED
      BY <3>1, <3>2
  <2>3. next' - Len(out') = next - Len(out)
    BY <1>1, <1>2
  <2>4. Messages'
    BY <2>1, <2>2, <2>3, <1>2, <1>4 DEF Messages
  <2>5. Reader'
    BY <2>1, <1>2, <1>4 DEF Reader
  <2> QED
    BY <2>4, <2>5
<1> QED
  BY <1>2, <1>4, <1>5, <1>6, <1>7 DEF HInv

LEMMA InitFilledStep ==
  ASSUME HInv, InitFilled
  PROVE  HInv'
<1>1. /\ UNCHANGED <<ndtb, ndev, out, next, dm_pc, msg, index, cap, got>>
      /\ init_pc = "fill" /\ next > Total
      /\ init_pc' = IF out # <<>> THEN "send" ELSE "call"
  BY DEF InitFilled
<1>2. Counts' /\ Total' = Total /\ Taken' = Taken
  BY <1>1 DEF HInv, Counts, Total, Taken
<1>3. Sender'
  <2>1. next = Total + 1
    BY <1>1 DEF HInv, Sender, Counts, Total
  <2> QED
    BY <1>1, <1>2, <2>1 DEF HInv, Sender
<1>4. dm_pc = "first" => FirstMessage'
  <2> SUFFICES ASSUME dm_pc = "first" PROVE FirstMessage'
    OBVIOUS
  <2>1. FirstMessage /\ out # <<>>
    BY DEF HInv, FirstMessage, Sender, Header
  <2> QED
    BY <1>1, <2>1 DEF FirstMessage
<1>5. dm_pc \notin {"first", "exit"} => Messages' /\ Reader'
  BY <1>1, <1>2 DEF HInv, Messages, Reader
<1> QED
  BY <1>1, <1>2, <1>3, <1>4, <1>5 DEF HInv

\* A message starts where the one before it ended.
LEMMA ReceiveStep ==
  ASSUME HInv, Receive
  PROVE  HInv'
<1> USE HandshakeAssumption
<1>1. /\ init_pc \in {"send", "call"} /\ dm_pc \in {"first", "more", "last"}
      /\ msg' = out /\ out' = <<>>
      /\ init_pc' = IF init_pc = "send" THEN "fill" ELSE "await"
      /\ dm_pc' = Received(dm_pc)
      /\ index' = StartSlot(dm_pc)
      /\ UNCHANGED <<ndtb, ndev, next, cap, got>>
  BY DEF Receive
<1>2. Counts' /\ Total' = Total /\ Total \in Nat
  BY <1>1 DEF HInv, Counts, Total
<1>3. Sender'
  BY <1>1, <1>2 DEF HInv, Sender
<1>4. dm_pc' \in {"open", "map", "reply"}
  BY <1>1 DEF Received
<1>5. /\ out \in Seq(Int) /\ Len(out) \in Nat /\ Len(out) <= Slots /\ next \in 1 .. Total + 1
      /\ got \in Seq(Int) /\ Len(got) \in Nat
      /\ Len(out) < Slots => next = Total + 1
  BY <1>1 DEF HInv, Sender
<1>6. CASE dm_pc = "first"
  <2>1. FirstMessage /\ dm_pc' = "open" /\ index' = 4 /\ Taken' = 1 /\ Len(Header) = 3
    BY <1>1, <1>6 DEF HInv, Received, StartSlot, Taken, Header, FirstMessage
  <2>2. Len(out) = 2 + next /\ \A i \in 1 .. next - 1 : out[3 + i] = i
    BY <2>1, <1>2, <1>5 DEF FirstMessage
  <2>3. next > 1
    BY <1>5, <2>2 DEF HInv, Counts, Total
  <2>4. \A i \in 5 .. Len(out) : out[i] = 1 + i - 4
    <3> TAKE i \in 5 .. Len(out)
    <3>1. i - 3 \in 1 .. next - 1 /\ 3 + (i - 3) = i
      BY <2>2, <1>5
    <3> QED
      BY <3>1, <2>2
  <2>5. Messages'
    BY <1>1, <1>2, <1>5, <2>1, <2>2, <2>3, <2>4 DEF Messages
  <2>6. Reader'
    <3>1. Len(out) >= 4 /\ out[4] = 1
      BY <1>5, <2>2, <2>3
    <3> QED
      BY <1>1, <2>1, <3>1 DEF Reader, FirstMessage
  <2> QED
    BY <1>1, <1>2, <1>3, <1>4, <2>1, <2>5, <2>6 DEF HInv
<1>7. CASE dm_pc \in {"more", "last"}
  <2>1. Messages /\ Reader /\ index' = 0
    BY <1>1, <1>7 DEF HInv, StartSlot
  <2>2. dm_pc' = (IF dm_pc = "more" THEN "map" ELSE "reply")
    BY <1>1, <1>7 DEF Received
  <2>3. Taken' = Taken /\ Taken \in Nat
    BY <1>1, <1>5, <1>7, <2>2 DEF Taken
  <2>4. index = Len(msg) \/ (Len(got) = Total /\ dm_pc = "last")
    BY <1>7, <2>1 DEF Reader, Messages
  <2>5. index = Len(msg) /\ Len(msg) \in Nat
    <3> SUFFICES ASSUME Len(got) = Total, dm_pc = "last" PROVE index = Len(msg)
      BY <2>1, <2>4 DEF Messages
    <3>1. Taken = Total
      BY DEF Taken
    <3> QED
      BY <3>1, <2>1, <1>2, <1>5 DEF Messages
  <2>6. next - Len(out) = Taken + 1
    BY <2>1, <2>5, <2>3 DEF Messages
  <2>7. \A i \in 1 .. Len(out) : out[i] = Taken + i
    <3> TAKE i \in 1 .. Len(out)
    <3>1. out[i] = next - 1 - Len(out) + i
      BY <2>1 DEF Messages
    <3> QED
      BY <3>1, <2>6, <2>3, <1>5
  <2>8. Messages'
    <3>1. /\ index' = 0 /\ msg' = out /\ Len(out') = 0 /\ next' = next /\ Total' = Total
          /\ Taken' = Taken
      BY <1>1, <1>2, <2>1, <2>3
    <3>2. \A i \in index' + 1 .. Len(msg') : msg'[i] = Taken' + i - index'
      BY <3>1, <2>3, <2>7
    <3>3. next' - Len(out') = Taken' + (Len(msg') - index') + 1
      BY <3>1, <1>2, <1>5, <2>3, <2>6
    <3>4. Len(msg') < Slots => Taken' + (Len(msg') - index') = Total'
      BY <3>1, <1>2, <1>5, <2>3, <2>6
    <3> QED
      BY <3>1, <3>2, <3>3, <3>4, <1>5 DEF Messages
  <2>9. Reader'
    BY <1>1, <1>2, <1>7, <2>1, <2>2, <2>3 DEF Reader
  <2> QED
    BY <1>1, <1>2, <1>3, <1>4, <1>5, <1>7, <2>2, <2>8, <2>9 DEF HInv
<1> QED
  BY <1>1, <1>6, <1>7

LEMMA DmOpenStep ==
  ASSUME HInv, DmOpen
  PROVE  HInv'
<1>1. /\ dm_pc = "open" /\ UNCHANGED <<ndtb, ndev, sender, msg, index, cap>>
      /\ \/ dm_pc' = "load" /\ got' = <<Slot(3)>>
         \/ dm_pc' = "exit" /\ UNCHANGED got
  BY DEF DmOpen
<1>2. Messages /\ Reader /\ got = <<>> /\ Taken = 1
  BY <1>1 DEF HInv, Reader, Taken
<1>3. Counts' /\ Sender' /\ Total' = Total
  BY <1>1 DEF HInv, Counts, Sender, Total, sender
<1>4. CASE dm_pc' = "exit" /\ UNCHANGED got
  BY <1>2, <1>3, <1>4 DEF HInv
<1>5. CASE dm_pc' = "load" /\ got' = <<Slot(3)>>
  <2>1. Slot(3) = 1
    BY <1>1, <1>2 DEF Reader, Slot, Messages
  <2>2. got' = <<1>> /\ Taken' = Taken
    BY <1>2, <1>5, <2>1 DEF Taken
  <2>3. Messages'
    BY <1>1, <1>2, <1>3, <2>2 DEF Messages, sender
  <2>4. Reader'
    BY <1>1, <1>2, <1>5 DEF Reader
  <2> QED
    BY <1>3, <1>5, <2>2, <2>3, <2>4 DEF HInv
<1> QED
  BY <1>1, <1>4, <1>5

\* There is a cap at dm's slot as long as one is due: only the last message
\* is shorter than its slots.
LEMMA DmLoadStep ==
  ASSUME HInv, DmLoad
  PROVE  HInv'
<1> USE HandshakeAssumption
<1>1. /\ dm_pc = "load" /\ Len(got) < Total /\ cap' = Slot(index) /\ index' = index + 1
      /\ dm_pc' = After(index') /\ UNCHANGED <<ndtb, ndev, sender, msg, got>>
  BY DEF DmLoad
<1>2. Messages /\ Reader /\ Taken = Len(got) /\ Len(got) \in Nat /\ index < Slots
  BY <1>1 DEF HInv, Reader, Taken
<1>3. Counts' /\ Sender' /\ Total' = Total /\ Total \in Nat
  BY <1>1 DEF HInv, Counts, Sender, Total, sender
<1>4. index < Len(msg) /\ index \in Nat /\ Len(msg) \in Nat
  BY <1>1, <1>2, <1>3 DEF Messages
<1>5. cap' = Taken + 1
  <2>1. cap' = msg[index + 1]
    BY <1>1, <1>4 DEF Slot
  <2>2. index + 1 \in index + 1 .. Len(msg)
    BY <1>4
  <2>3. msg[index + 1] = Taken + (index + 1) - index
    BY <1>2, <2>2 DEF Messages
  <2> QED
    BY <1>2, <1>4, <2>1, <2>3
<1>6. dm_pc' = (IF index' = Slots THEN "more" ELSE "map") /\ Taken' = Taken + 1
  BY <1>1, <1>2 DEF After, Taken
<1>7. Messages'
  <2>1. \A i \in index' + 1 .. Len(msg') : msg'[i] = Taken' + i - index'
    <3> TAKE i \in index' + 1 .. Len(msg')
    <3>1. i \in index + 1 .. Len(msg) /\ i \in Int
      BY <1>1, <1>4
    <3>2. msg[i] = Taken + i - index
      BY <3>1, <1>2 DEF Messages
    <3> QED
      BY <3>1, <3>2, <1>1, <1>2, <1>4, <1>6
  <2>2. index' \in 0 .. Len(msg')
    BY <1>1, <1>4
  <2>3. Taken' + (Len(msg') - index') = Taken + (Len(msg) - index)
    BY <1>1, <1>2, <1>4, <1>6
  <2>4. /\ next' = next /\ out' = out /\ msg' = msg
    BY <1>1 DEF sender
  <2> QED
    BY <1>2, <1>3, <2>1, <2>2, <2>3, <2>4 DEF Messages
<1>8. Reader'
  BY <1>1, <1>2, <1>4, <1>5, <1>6 DEF Reader
<1> QED
  BY <1>1, <1>3, <1>6, <1>7, <1>8 DEF HInv

LEMMA DmMapStep ==
  ASSUME HInv, DmMap
  PROVE  HInv'
<1>1. /\ dm_pc = "map" /\ UNCHANGED <<ndtb, ndev, sender, msg, index, cap>>
      /\ \/ dm_pc' = "load" /\ got' = Append(got, cap)
         \/ dm_pc' = "exit" /\ UNCHANGED got
  BY DEF DmMap
<1>2. Messages /\ Reader /\ cap = Len(got) + 1 /\ got \in Seq(Int)
  BY <1>1 DEF HInv, Reader, Taken
<1>3. Counts' /\ Sender' /\ Total' = Total
  BY <1>1 DEF HInv, Counts, Sender, Total, sender
<1>4. CASE dm_pc' = "exit" /\ UNCHANGED got
  BY <1>3, <1>4 DEF HInv
<1>5. CASE dm_pc' = "load" /\ got' = Append(got, cap)
  <2>1. got' \in Seq(Int) /\ Len(got') = Len(got) + 1
    BY <1>2, <1>5
  <2>2. Taken' = Taken
    BY <1>1, <1>2, <1>5, <2>1 DEF Taken
  <2>3. \A i \in 1 .. Len(got') : got'[i] = i
    BY <1>2, <1>5, <2>1 DEF HInv
  <2>4. Messages'
    BY <1>1, <1>2, <1>3, <2>2 DEF Messages, sender
  <2>5. Reader'
    BY <1>1, <1>2, <1>5 DEF Reader
  <2> QED
    BY <1>3, <1>5, <2>1, <2>3, <2>4, <2>5 DEF HInv
<1> QED
  BY <1>1, <1>4, <1>5

LEMMA DmLaunchStep ==
  ASSUME HInv, DmLaunch
  PROVE  HInv'
<1>1. /\ dm_pc = "load" /\ Len(got) = Total /\ dm_pc' \in {"last", "exit"}
      /\ UNCHANGED <<ndtb, ndev, sender, msg, index, cap, got>>
  BY DEF DmLaunch
<1>2. Messages /\ Reader
  BY <1>1 DEF HInv
<1>3. Counts' /\ Sender' /\ Total' = Total /\ Taken' = Taken
  BY <1>1 DEF HInv, Counts, Sender, Total, Taken, sender
<1>4. Messages'
  BY <1>1, <1>2, <1>3 DEF Messages, sender
<1>5. Reader'
  BY <1>1, <1>2, <1>3 DEF Reader
<1> QED
  BY <1>1, <1>3, <1>4, <1>5 DEF HInv

LEMMA DmReplyStep ==
  ASSUME HInv, DmReply
  PROVE  HInv'
<1>1. /\ dm_pc = "reply" /\ dm_pc' = "idle"
      /\ init_pc' = IF init_pc = "await" THEN "done" ELSE init_pc
      /\ UNCHANGED <<ndtb, ndev, out, next, msg, index, cap, got>>
  BY DEF DmReply
<1>2. Messages /\ Reader
  BY <1>1 DEF HInv
<1>3. Counts' /\ Sender' /\ Total' = Total /\ Taken' = Taken
  BY <1>1 DEF HInv, Counts, Sender, Total, Taken
<1>4. Messages'
  BY <1>1, <1>2, <1>3 DEF Messages
<1>5. Reader'
  BY <1>1, <1>2, <1>3 DEF Reader
<1> QED
  BY <1>1, <1>3, <1>4, <1>5 DEF HInv

LEMMA StepKeepsHInv == HInv /\ [Next]_vars => HInv'
<1> SUFFICES ASSUME HInv, [Next]_vars PROVE HInv'
  OBVIOUS
<1>1. CASE UNCHANGED vars
  <2>1. UNCHANGED <<ndtb, ndev, init_pc, out, next, dm_pc, msg, index, cap, got>>
    BY <1>1 DEF vars, sender
  <2> QED
    BY <2>1 DEF HInv, Counts, Sender, FirstMessage, Messages, Reader, Taken, Total
<1> QED
  BY <1>1, InitPutStep, InitFilledStep, ReceiveStep, DmOpenStep, DmLoadStep, DmMapStep,
     DmLaunchStep, DmReplyStep DEF Next

LEMMA HInvImplies == HInv => CapsInOrder
BY DEF HInv, Reader, CapsInOrder

\* dm takes in the capabilities in the order that init put them, for messages
\* of any length, as many capabilities as there are and wherever a message
\* ends among them.
THEOREM CapsTakenInOrder == Spec => []CapsInOrder
BY InitHInv, StepKeepsHInv, HInvImplies, PTL DEF Spec

-----------------------------------------------------------------------------
(* What dm does between the steps of the hand-over is none of its business. *)

\* Each step of dm with the device tree is a step of the hand-over or leaves
\* it alone.
LEMMA HandshakeStep == [DmNext]_all => [Next]_vars
<1> SUFFICES ASSUME [DmNext]_all PROVE [Next]_vars
  OBVIOUS
<1>1. CASE Handover
  BY <1>1 DEF Handover, Next
<1>2. CASE Parse
  BY <1>2 DEF Parse, ParseHeader, ParseNop, ParseBegin, ParseProperty, ParseEnd, ParseAbort,
              Next
<1>3. CASE Launch
  BY <1>3 DEF Launch, Register, Stdout, Refuse, FindDevice, MakeEndpoint, CreateDriver, Fail,
              SendDriver, Next
<1>4. CASE DriverOpen
  BY <1>4 DEF DriverOpen
<1>5. CASE UNCHANGED all
  BY <1>5 DEF all
<1> QED
  BY <1>1, <1>2, <1>3, <1>4, <1>5 DEF DmNext

\* dm at work with the device tree keeps to the hand-over: init and dm start
\* as it says and go from one of its steps to the next, whatever the tree and
\* however the launch of the console fails.
THEOREM DmKeepsToHandshake ==
  DmSpec => Handshake!Init /\ [][Handshake!Next]_(Handshake!vars)
<1>1. DmInit => Handshake!Init
  BY DEF DmInit, Init, Handshake!Init, Handshake!Header, Handshake!NoCap, Header, NoCap
<1>2. [DmNext]_all => [Handshake!Next]_(Handshake!vars)
  <2> SUFFICES ASSUME [Next]_vars PROVE [Handshake!Next]_(Handshake!vars)
    BY HandshakeStep
  <2> QED
    BY DEF Next, InitPut, InitFilled, Receive, DmOpen, DmLoad, DmMap, DmLaunch, DmReply,
           Received, StartSlot, After, Slot, Total, NoCap, sender, vars,
           Handshake!Next, Handshake!InitPut, Handshake!InitFilled, Handshake!Receive,
           Handshake!DmOpen, Handshake!DmLoad, Handshake!DmMap, Handshake!DmLaunch,
           Handshake!DmReply, Handshake!Received, Handshake!StartSlot, Handshake!After,
           Handshake!Slot, Handshake!Total, Handshake!NoCap, Handshake!sender, Handshake!vars
<1> QED
  BY <1>1, <1>2, PTL DEF DmSpec

-----------------------------------------------------------------------------
(* Which memory the driver gets.                                            *)

\* The memory capability with this number is the one of the node's device.
OfNode(c) == \E k \in 1 .. ndev, n \in node : c = ndtb + k /\ Phys(k) = Address(n)

\* The driver's memory is a device's, never a page of the device tree, and
\* lies where the node that is launched says.
DriverHasItsMemory == \A d \in driver : OfNode(d.cap)

\* dm is at work with the device tree.
AtWork == step \in {"parse", "register", "stdout", "launch", "endpoint", "create", "send"}

\* dm has all its capabilities then, and what it has found for the console is
\* not taken back while it asks for the endpoint and for the driver's task.
DInv ==
  /\ HInv
  /\ AtWork => dm_pc = "load" /\ Len(got) = Total
  /\ step \in {"endpoint", "create", "send"} => OfNode(mem_cap)
  /\ driver # {} => step = "running"
  /\ DriverHasItsMemory

LEMMA Greatest ==
  ASSUME NEW n \in Nat, NEW S \in SUBSET (1 .. n), S # {}
  PROVE  Max(S) \in S
<1> DEFINE T == {n - x : x \in S}
<1>1. T \subseteq Nat /\ T # {}
  <2>1. \A x \in S : x \in Int /\ x <= n
    OBVIOUS
  <2>2. \A x \in S : n - x \in Nat
    BY <2>1
  <2> QED
    BY <2>2
<1>2. \E x \in T : \A y \in T : ~ (<<y, x>> \in OpToRel(<, Nat))
  BY <1>1, NatLessThanWellFounded, WFMin
<1>3. PICK x \in T : \A y \in T : ~ (y < x)
  BY <1>1, <1>2 DEF OpToRel
<1>4. PICK s \in S : x = n - s
  OBVIOUS
<1>5. \A r \in S : s >= r
  <2> TAKE r \in S
  <2>1. ~ (n - r < x)
    BY <1>3
  <2> QED
    BY <2>1, <1>4
<1> QED
  BY <1>5 DEF Max

LEMMA InitDInv == DmInit => DInv
BY InitHInv DEF DmInit, DInv, AtWork, DriverHasItsMemory

\* A step that leaves alone what is launched.
LEMMA LaunchKept ==
  ASSUME UNCHANGED <<ndtb, ndev, node, mem_cap, driver>>
  PROVE  OfNode(mem_cap)' = OfNode(mem_cap) /\ DriverHasItsMemory' = DriverHasItsMemory
BY DEF OfNode, Address, DriverHasItsMemory

LEMMA KeepsHInv ==
  ASSUME DInv, [DmNext]_all
  PROVE  HInv'
BY HandshakeStep, StepKeepsHInv DEF DInv

\* While dm is at work init can but fill its next message.
LEMMA HandoverStep ==
  ASSUME DInv, Handover
  PROVE  DInv'
<1>1. HInv'
  BY KeepsHInv DEF DmNext
<1>2. UNCHANGED <<step, node, mem_cap, driver, ndtb, ndev>>
  BY DEF Handover, dm_vars, launch, uart, InitPut, InitFilled, Receive, DmOpen, DmLoad, DmMap,
         DmReply
<1>3. AtWork => (dm_pc = "load" /\ Len(got) = Total)'
  <2> SUFFICES ASSUME AtWork PROVE (dm_pc = "load" /\ Len(got) = Total)'
    OBVIOUS
  <2>1. dm_pc = "load" /\ Len(got) = Total /\ ~ (Len(got) < Total)
    BY DEF DInv, HInv, Counts, Total
  <2>2. UNCHANGED <<dm_pc, got>>
    BY <2>1 DEF Handover, InitPut, InitFilled, Receive, DmOpen, DmLoad, DmMap, DmReply
  <2> QED
    BY <1>2, <2>1, <2>2 DEF Total
<1> QED
  BY <1>1, <1>2, <1>3, LaunchKept DEF DInv, AtWork

LEMMA ParseStep ==
  ASSUME DInv, Parse
  PROVE  DInv'
<1>1. HInv'
  BY KeepsHInv DEF DmNext
<1>2. UNCHANGED <<node, mem_cap, driver, ndtb, ndev>>
  BY DEF Parse, ParseHeader, ParseNop, ParseBegin, ParseProperty, ParseEnd, ParseAbort, Parsing,
         launch, uart, vars, DmLaunch
<1>3. step \in {"none", "parse"} /\ step' \in {"parse", "register", "aborted"}
  BY DEF Parse, ParseHeader, ParseNop, ParseBegin, ParseProperty, ParseEnd, ParseAbort, Parsing
<1>4. AtWork' => (dm_pc = "load" /\ Len(got) = Total)'
  <2> SUFFICES ASSUME AtWork' PROVE (dm_pc = "load" /\ Len(got) = Total)'
    OBVIOUS
  <2>1. dm_pc = "load" /\ Len(got) = Total /\ UNCHANGED vars
    BY DEF AtWork, DInv, Parse, ParseHeader, ParseNop, ParseBegin, ParseProperty, ParseEnd,
           ParseAbort, Parsing
  <2> QED
    BY <2>1 DEF vars, Total
<1> QED
  BY <1>1, <1>2, <1>3, <1>4, LaunchKept DEF DInv

\* A capability that is found by its address is the node's device's.
LEMMA FindDeviceStep ==
  ASSUME DInv, FindDevice
  PROVE  DInv'
<1> DEFINE devices == {n \in node : "reg" \in DOMAIN n.properties}
           caps == UNION {FindMemCap(Address(n)) : n \in devices}
<1>1. HInv'
  BY KeepsHInv DEF DmNext, Launch
<1>2. step = "launch" /\ driver = {} /\ UNCHANGED <<ndtb, ndev, got, node, driver>>
  BY DEF FindDevice, DInv, launch, uart, vars, Refuse, DmLaunch
<1>3. DriverHasItsMemory'
  BY <1>2 DEF DriverHasItsMemory
<1>4. CASE caps = {}
  BY <1>1, <1>2, <1>3, <1>4 DEF FindDevice, Refuse, DInv, AtWork
<1>5. CASE caps # {}
  <2>1. step' = "endpoint" /\ mem_cap' = got[ndtb + Max(caps)] /\ UNCHANGED vars
    BY <1>5 DEF FindDevice
  <2>2. /\ ndev \in Nat /\ ndtb \in Nat /\ Len(got) = ndtb + ndev /\ dm_pc = "load"
        /\ \A i \in 1 .. Len(got) : got[i] = i
    BY <1>2 DEF DInv, AtWork, HInv, Counts, Total
  <2>3. caps \in SUBSET (1 .. ndev)
    BY DEF FindMemCap
  <2>4. Max(caps) \in caps
    BY <1>5, <2>2, <2>3, Greatest
  <2>5. PICK n \in node : Max(caps) \in 1 .. ndev /\ Phys(Max(caps)) = Address(n)
    BY <2>4 DEF FindMemCap
  <2>6. mem_cap' = ndtb + Max(caps)
    BY <2>1, <2>2, <2>5
  <2>7. OfNode(mem_cap)'
    <3> DEFINE k == Max(caps)
    <3>1. k \in 1 .. ndev' /\ n \in node' /\ mem_cap' = ndtb' + k /\ Phys(k) = Address(n)
      BY <1>2, <2>5, <2>6
    <3> HIDE DEF k
    <3> QED
      BY <3>1 DEF OfNode
  <2>8. (dm_pc = "load" /\ Len(got) = Total)'
    BY <2>1, <2>2 DEF vars, Total
  <2> QED
    BY <1>1, <1>2, <1>3, <2>1, <2>7, <2>8 DEF DInv
<1> QED
  BY <1>4, <1>5

LEMMA LaunchStep ==
  ASSUME DInv, Launch, ~ FindDevice
  PROVE  DInv'
<1>1. HInv'
  BY KeepsHInv DEF DmNext
<1>2. AtWork /\ UNCHANGED <<ndtb, ndev, mem_cap>>
  BY DEF AtWork, Launch, Register, Stdout, MakeEndpoint, CreateDriver, SendDriver, Refuse, Fail,
         launch, vars, DmLaunch
<1>3. AtWork' => (dm_pc = "load" /\ Len(got) = Total)'
  <2> SUFFICES ASSUME AtWork' PROVE (dm_pc = "load" /\ Len(got) = Total)'
    OBVIOUS
  <2>1. UNCHANGED vars
    BY DEF AtWork, Launch, Register, Stdout, MakeEndpoint, CreateDriver, SendDriver, Refuse, Fail
  <2> QED
    BY <1>2, <2>1 DEF vars, Total, DInv
<1>4. CASE Register \/ Stdout
  <2>1. /\ step \in {"register", "stdout"} /\ step' \in {"stdout", "launch", "refused"}
        /\ UNCHANGED driver
    BY <1>4 DEF Register, Stdout, Refuse, uart
  <2>2. driver = {} /\ driver' = {}
    BY <2>1 DEF DInv
  <2> QED
    BY <1>1, <1>3, <2>1, <2>2 DEF DInv, DriverHasItsMemory
<1>5. CASE MakeEndpoint \/ CreateDriver
  <2>1. /\ step \in {"endpoint", "create"} /\ step' \in {"create", "send", "failed"}
        /\ UNCHANGED <<driver, node>>
    BY <1>5 DEF MakeEndpoint, CreateDriver, Fail, uart, launch
  <2> QED
    BY <1>1, <1>2, <1>3, <2>1, LaunchKept DEF DInv
<1>6. CASE SendDriver
  <2>1. /\ step = "send" /\ step' = "running" /\ UNCHANGED node
        /\ driver' = {[cap |-> mem_cap, shift |-> Shift(n)] : n \in node}
    BY <1>6 DEF SendDriver, launch
  <2>2. OfNode(mem_cap)'
    BY <1>2, <2>1 DEF DInv, OfNode
  <2>3. \A d \in driver' : d.cap = mem_cap'
    BY <1>2, <2>1
  <2>4. DriverHasItsMemory'
    BY <2>2, <2>3 DEF DriverHasItsMemory, OfNode
  <2> QED
    BY <1>1, <1>3, <2>1, <2>4 DEF DInv
<1> QED
  BY <1>4, <1>5, <1>6 DEF Launch

LEMMA StepKeepsDInv == DInv /\ [DmNext]_all => DInv'
<1> SUFFICES ASSUME DInv, [DmNext]_all PROVE DInv'
  OBVIOUS
<1>1. CASE DriverOpen \/ UNCHANGED all
  <2>1. UNCHANGED <<vars, step, launch, driver>>
    BY <1>1 DEF DriverOpen, all, dm_vars, uart
  <2>2. UNCHANGED <<step, node, mem_cap, driver, ndtb, ndev, dm_pc, got>>
    BY <2>1 DEF vars, launch
  <2> QED
    BY <2>2, KeepsHInv, LaunchKept DEF DInv, AtWork, Total
<1> QED
  BY <1>1, HandoverStep, ParseStep, FindDeviceStep, LaunchStep DEF DmNext, Launch

\* The driver that dm starts gets device memory whose physical address is the
\* one that the node of the console gives, for every device tree, boot and
\* number of capabilities; it never gets a page of the device tree or none.
THEOREM DriverGetsDeviceMemory == DmSpec => []DriverHasItsMemory
<1>1. DInv => DriverHasItsMemory
  BY DEF DInv
<1> QED
  BY <1>1, InitDInv, StepKeepsDInv, PTL DEF DmSpec
-----------------------------------------------------------------------------
(* What a chain or a path is, is defined step by step.                      *)

\* Induction over the naturals, for a property given as the set that has it.
LEMMA ByInduction ==
  ASSUME NEW T, 0 \in T, \A n \in Nat : n \in T => n + 1 \in T
  PROVE  Nat \subseteq T
<1> SUFFICES ASSUME Nat \ T # {} PROVE FALSE
  OBVIOUS
<1>1. \E x \in Nat \ T : \A y \in Nat \ T : ~ (<<y, x>> \in OpToRel(<, Nat))
  BY NatLessThanWellFounded, WFMin
<1>2. PICK x \in Nat \ T : \A y \in Nat \ T : ~ (y < x)
  BY <1>1 DEF OpToRel
<1>3. x # 0 /\ x - 1 \in Nat /\ x = (x - 1) + 1
  OBVIOUS
<1>4. x - 1 \in T
  BY <1>2, <1>3
<1> QED
  BY <1>2, <1>3, <1>4

\* A start and a step, a function of a number and the value before it, make
\* a function of the naturals.
Stepwise(f, n, start, then) ==
  /\ f[0] = start
  /\ \A k \in 1 .. n : f[k] = then[<<k, f[k - 1]>>]

\* Up to n there is one ...
LEMMA StepsExist ==
  ASSUME NEW S, NEW start \in S, NEW then \in [Nat \X S -> S]
  PROVE  \A n \in Nat : \E f \in [0 .. n -> S] : Stepwise(f, n, start, then)
<1> DEFINE T == {n \in Nat : \E f \in [0 .. n -> S] : Stepwise(f, n, start, then)}
<1>1. 0 \in T
  <2> DEFINE f == [k \in 0 .. 0 |-> start]
  <2>1. f \in [0 .. 0 -> S] /\ Stepwise(f, 0, start, then)
    BY DEF Stepwise
  <2> QED
    BY <2>1
<1>2. ASSUME NEW n \in Nat, n \in T PROVE n + 1 \in T
  <2>1. PICK f \in [0 .. n -> S] : Stepwise(f, n, start, then)
    BY <1>2
  <2> DEFINE g == [k \in 0 .. n + 1 |-> IF k = n + 1 THEN then[<<n + 1, f[n]>>] ELSE f[k]]
  <2>2. f[n] \in S /\ <<n + 1, f[n]>> \in Nat \X S
    OBVIOUS
  <2>3. then[<<n + 1, f[n]>>] \in S
    BY <2>2
  <2>4. g \in [0 .. n + 1 -> S]
    <3>1. \A k \in 0 .. n + 1 : k # n + 1 => k \in 0 .. n
      OBVIOUS
    <3> QED
      BY <3>1, <2>3
  <2>5. Stepwise(g, n + 1, start, then)
    <3>1. g[0] = start
      BY <2>1 DEF Stepwise
    <3>2. \A k \in 1 .. n : g[k] = f[k] /\ g[k - 1] = f[k - 1]
      OBVIOUS
    <3>3. g[n + 1] = then[<<n + 1, g[n]>>]
      <4>1. n + 1 \in 0 .. n + 1 /\ n \in 0 .. n + 1 /\ n # n + 1
        OBVIOUS
      <4>2. g[n + 1] = then[<<n + 1, f[n]>>] /\ g[n] = f[n]
        BY <4>1, Zenon
      <4> QED
        BY <4>2, Zenon
    <3> HIDE DEF g
    <3>4. ASSUME NEW k \in 1 .. n + 1 PROVE g[k] = then[<<k, g[k - 1]>>]
      <4>1. CASE k = n + 1
        BY <4>1, <3>3
      <4>2. CASE k # n + 1
        <5>1. k \in 1 .. n
          BY <4>2
        <5> QED
          BY <5>1, <3>2, <2>1, Zenon DEF Stepwise
      <4> QED
        BY <4>1, <4>2
    <3> QED
      BY <3>1, <3>4 DEF Stepwise
  <2> HIDE DEF g
  <2> QED
    BY <2>4, <2>5
<1> HIDE DEF T
<1>3. Nat \subseteq T
  BY <1>1, <1>2, ByInduction
<1> QED
  BY <1>3 DEF T

\* ... and any two agree as far as both go.
LEMMA StepsAgree ==
  ASSUME NEW start, NEW then, NEW f, NEW g, NEW n \in Nat,
         Stepwise(f, n, start, then), Stepwise(g, n, start, then)
  PROVE  \A k \in 0 .. n : f[k] = g[k]
<1> DEFINE T == {k \in Nat : k <= n => f[k] = g[k]}
<1>1. 0 \in T
  BY DEF Stepwise
<1>2. ASSUME NEW k \in Nat, k \in T PROVE k + 1 \in T
  <2>1. CASE k + 1 <= n
    <3>1. k + 1 \in 1 .. n /\ (k + 1) - 1 = k /\ k <= n
      BY <2>1
    <3>2. f[k + 1] = then[<<k + 1, f[k]>>] /\ g[k + 1] = then[<<k + 1, g[k]>>]
      BY <3>1 DEF Stepwise
    <3> QED
      BY <3>1, <3>2, <1>2
  <2>2. CASE ~ (k + 1 <= n)
    BY <2>2
  <2> QED
    BY <2>1, <2>2
<1> HIDE DEF T
<1>3. Nat \subseteq T
  BY <1>1, <1>2, ByInduction
<1> QED
  BY <1>3 DEF T

\* So the recursive definition has a value.
Recursive(f, start, then) ==
  f = [n \in Nat |-> IF n = 0 THEN start ELSE then[<<n, f[n - 1]>>]]

LEMMA Recursion ==
  ASSUME NEW S, NEW start \in S, NEW then \in [Nat \X S -> S]
  PROVE  \E f \in [Nat -> S] : Recursive(f, start, then)
<1> DEFINE upTo == [n \in Nat |-> CHOOSE f \in [0 .. n -> S] : Stepwise(f, n, start, then)]
           f    == [n \in Nat |-> upTo[n][n]]
<1>1. \A n \in Nat : upTo[n] \in [0 .. n -> S] /\ Stepwise(upTo[n], n, start, then)
  BY StepsExist, Zenon
<1> HIDE DEF upTo
<1>2. f \in [Nat -> S]
  BY <1>1
<1>3. f[0] = start
  BY <1>1 DEF Stepwise
<1>4. ASSUME NEW n \in Nat, n # 0 PROVE f[n] = then[<<n, f[n - 1]>>]
  <2>1. n - 1 \in Nat /\ n \in 1 .. n /\ n - 1 \in 0 .. n - 1
    BY <1>4
  <2>2. f[n] = upTo[n][n] /\ f[n - 1] = upTo[n - 1][n - 1]
    BY <2>1
  <2>3. upTo[n][n] = then[<<n, upTo[n][n - 1]>>]
    BY <2>1, <1>1 DEF Stepwise
  <2>4. Stepwise(upTo[n], n - 1, start, then)
    <3>1. \A k \in 1 .. n - 1 : k \in 1 .. n
      BY <2>1
    <3> QED
      BY <3>1, <1>1, Zenon DEF Stepwise
  <2>5. Stepwise(upTo[n - 1], n - 1, start, then)
    BY <2>1, <1>1
  <2>6. upTo[n][n - 1] = upTo[n - 1][n - 1]
    <3>1. \A k \in 0 .. n - 1 : upTo[n][k] = upTo[n - 1][k]
      BY <2>1, <2>4, <2>5, StepsAgree
    <3> QED
      BY <2>1, <3>1, Zenon
  <2> QED
    BY <2>2, <2>3, <2>6, Zenon
<1> HIDE DEF f
<1>5. Recursive(f, start, then)
  BY <1>2, <1>3, <1>4 DEF Recursive
<1> QED
  BY <1>2, <1>5

-----------------------------------------------------------------------------
(* Chains: the nodes that are open at a token.                              *)

LEMMA ChainIs ==
  /\ Chain(0) = <<>>
  /\ \A k \in Nat : Chain(k) \in Seq(Nat)
  /\ \A k \in Nat \ {0} :
       /\ Tokens[k].tag = "begin" => Chain(k) = Append(Chain(k - 1), k)
       /\ Tokens[k].tag = "end" => Chain(k) = Front(Chain(k - 1))
       /\ Tokens[k].tag \notin {"begin", "end"} => Chain(k) = Chain(k - 1)
<1> DEFINE Then(k, c) == CASE Tokens[k].tag = "begin" -> Append(c, k)
                           [] Tokens[k].tag = "end" -> Front(c)
                           [] OTHER -> c
           Chains(s) == s = [k \in Nat |-> IF k = 0 THEN <<>> ELSE Then(k, s[k - 1])]
           chain == CHOOSE s : Chains(s)
           then  == [p \in Nat \X Seq(Nat) |-> Then(p[1], p[2])]
<1>1. \A k \in Nat, c \in Seq(Nat) :
        /\ Then(k, c) \in Seq(Nat)
        /\ Tokens[k].tag = "begin" => Then(k, c) = Append(c, k)
        /\ Tokens[k].tag = "end" => Then(k, c) = Front(c)
        /\ Tokens[k].tag \notin {"begin", "end"} => Then(k, c) = c
  BY DEF Front
<1>2. \A k \in Nat : Chain(k) = chain[k]
  BY Zenon DEF Chain
<1> HIDE DEF Next
<1>3. \E s : Chains(s)
  <2>1. then \in [Nat \X Seq(Nat) -> Seq(Nat)] /\ <<>> \in Seq(Nat)
    BY <1>1
  <2>2. \A k \in Nat, c \in Seq(Nat) : then[<<k, c>>] = Then(k, c)
    OBVIOUS
  <2> HIDE DEF then
  <2>3. PICK s \in [Nat -> Seq(Nat)] : Recursive(s, <<>>, then)
    BY <2>1, Recursion
  <2>4. \A k \in Nat : k # 0 => k - 1 \in Nat /\ then[<<k, s[k - 1]>>] = Then(k, s[k - 1])
    <3> SUFFICES ASSUME NEW k \in Nat, k # 0
                 PROVE  k - 1 \in Nat /\ then[<<k, s[k - 1]>>] = Then(k, s[k - 1])
      OBVIOUS
    <3>1. k - 1 \in Nat
      OBVIOUS
    <3>2. s[k - 1] \in Seq(Nat)
      BY <3>1
    <3> QED
      BY <2>2, <3>1, <3>2, Zenon
  <2>5. Chains(s)
    BY <2>3, <2>4 DEF Recursive
  <2> QED
    BY <2>5
<1>4. Chains(chain)
  BY <1>3, Zenon
<1> HIDE DEF chain
<1>5. chain[0] = <<>> /\ \A k \in Nat \ {0} : chain[k] = Then(k, chain[k - 1])
  BY <1>4
<1>6. \A k \in Nat : chain[k] \in Seq(Nat)
  <2> DEFINE T == {k \in Nat : chain[k] \in Seq(Nat)}
  <2>1. 0 \in T
    <3>1. <<>> \in Seq(Nat) /\ 0 \in Nat
      OBVIOUS
    <3> QED
      BY <3>1, <1>5
  <2>2. ASSUME NEW k \in Nat, k \in T PROVE k + 1 \in T
    <3>1. k + 1 \in Nat \ {0} /\ (k + 1) - 1 = k
      OBVIOUS
    <3>2. chain[k + 1] = Then(k + 1, chain[k])
      BY <3>1, <1>5
    <3> QED
      BY <3>1, <3>2, <2>2, <1>1
  <2> HIDE DEF T
  <2>3. Nat \subseteq T
    BY <2>1, <2>2, ByInduction
  <2> QED
    BY <2>3 DEF T
<1>7. \A k \in Nat \ {0} : k - 1 \in Nat /\ chain[k - 1] \in Seq(Nat) /\ chain[k] = Then(k, chain[k - 1])
  BY <1>5, <1>6
<1>8. Chain(0) = <<>> /\ \A k \in Nat : Chain(k) \in Seq(Nat)
  BY <1>2, <1>5, <1>6
<1>9. ASSUME NEW k \in Nat \ {0} PROVE Chain(k) = Then(k, Chain(k - 1)) /\ Chain(k - 1) \in Seq(Nat)
  BY <1>2, <1>7
<1> QED
  BY <1>1, <1>8, <1>9


\* A node that a token is in begins with a token before, is in the nodes
\* around it and no others, and stays open up to that token.
OnChain(e, k) == \E d \in 1 .. Len(Chain(k)) : Chain(k)[d] = e

Nested(k) ==
  \A d \in 1 .. Len(Chain(k)) :
    /\ Chain(k)[d] \in 1 .. k /\ Tokens[Chain(k)[d]].tag = "begin"
    /\ Chain(Chain(k)[d]) = SubSeq(Chain(k), 1, d)
    /\ \A m \in Chain(k)[d] .. k : OnChain(Chain(k)[d], m)

\* What pushing and popping do to a sequence.
Pushes(S, c) ==
  /\ Len(c) \in Nat
  /\ \A d \in 1 .. Len(c) : c[d] \in S
  /\ SubSeq(c, 1, Len(c)) = c
  /\ c # <<>> => /\ Len(c) >= 1 /\ Last(c) = c[Len(c)] /\ Front(c) \in Seq(S)
                 /\ Len(Front(c)) = Len(c) - 1
                 /\ \A d \in 1 .. Len(c) - 1 : Front(c)[d] = c[d]
  /\ \A x \in S : /\ Append(c, x) \in Seq(S) /\ Len(Append(c, x)) = Len(c) + 1
                  /\ Append(c, x)[Len(c) + 1] = x /\ Append(c, x) # <<>>
                  /\ \A d \in 1 .. Len(c) : Append(c, x)[d] = c[d]
                  /\ Front(Append(c, x)) = c /\ Last(Append(c, x)) = x

LEMMA PushFacts ==
  ASSUME NEW S, NEW c \in Seq(S)
  PROVE  Pushes(S, c)
<1>1. Len(c) \in Nat /\ \A d \in 1 .. Len(c) : c[d] \in S
  OBVIOUS
<1>2. SubSeq(c, 1, Len(c)) = c
  OBVIOUS
<1>3. ASSUME c # <<>>
      PROVE  /\ Len(c) >= 1 /\ Last(c) = c[Len(c)] /\ Front(c) \in Seq(S)
             /\ Len(Front(c)) = Len(c) - 1
             /\ \A d \in 1 .. Len(c) - 1 : Front(c)[d] = c[d]
  <2>1. Len(c) # 0
    BY <1>3
  <2>2. Len(c) >= 1
    BY <1>1, <2>1
  <2>3. Front(c) = SubSeq(c, 1, Len(c) - 1) /\ Last(c) = c[Len(c)]
    BY DEF Front, Last
  <2>4. Len(c) - 1 \in 0 .. Len(c)
    BY <1>1, <2>2
  <2>5. PICK m : m = Len(c) - 1
    OBVIOUS
  <2>6. SubSeq(c, 1, m) \in Seq(S) /\ Len(SubSeq(c, 1, m)) = m
        /\ \A d \in 1 .. m : SubSeq(c, 1, m)[d] = c[d]
    <3>1. m \in Nat /\ m <= Len(c) /\ Len(c) \in Nat
      BY <1>1, <2>2, <2>5
    <3>2. Len(SubSeq(c, 1, m)) = m
      BY <3>1
    <3>3. \A d \in 1 .. m : SubSeq(c, 1, m)[d] = c[d]
      BY <3>1
    <3>4. \A i \in 1 .. m : c[i] \in S
      BY <3>1, <1>1
    <3>5. SubSeq(c, 1, m) \in Seq(S)
      BY <3>1, <3>4
    <3> QED
      BY <3>2, <3>3, <3>5
  <2> QED
    BY <2>2, <2>3, <2>5, <2>6
<1>4. ASSUME NEW x \in S
      PROVE  /\ Append(c, x) \in Seq(S) /\ Len(Append(c, x)) = Len(c) + 1
             /\ Append(c, x)[Len(c) + 1] = x /\ Append(c, x) # <<>>
             /\ \A d \in 1 .. Len(c) : Append(c, x)[d] = c[d]
             /\ Front(Append(c, x)) = c /\ Last(Append(c, x)) = x
  BY DEF Last, Front
<1> QED
  BY <1>1, <1>2, <1>3, <1>4, Zenon DEF Pushes

LEMMA SeqFacts ==
  ASSUME NEW c \in Seq(Nat)
  PROVE  /\ Len(c) \in Nat
         /\ \A d \in 1 .. Len(c) : c[d] \in Nat
         /\ SubSeq(c, 1, Len(c)) = c
         /\ c # <<>> => /\ Len(c) >= 1 /\ Last(c) = c[Len(c)] /\ Front(c) \in Seq(Nat)
                        /\ Len(Front(c)) = Len(c) - 1
                        /\ \A d \in 1 .. Len(c) - 1 : Front(c)[d] = c[d]
         /\ \A x \in Nat : /\ Append(c, x) \in Seq(Nat) /\ Len(Append(c, x)) = Len(c) + 1
                           /\ Append(c, x)[Len(c) + 1] = x /\ Append(c, x) # <<>>
                           /\ \A d \in 1 .. Len(c) : Append(c, x)[d] = c[d]
                           /\ Front(Append(c, x)) = c /\ Last(Append(c, x)) = x
<1>1. Pushes(Nat, c)
  BY PushFacts
<1> QED
  BY <1>1 DEF Pushes

LEMMA ChainsNested == \A k \in Nat : Nested(k)
<1> DEFINE T == {k \in Nat : Nested(k)}
<1>1. 0 \in T
  <2>1. Len(Chain(0)) = 0
    BY ChainIs
  <2> QED
    BY <2>1 DEF Nested
<1>2. ASSUME NEW k \in Nat, k \in T PROVE k + 1 \in T
  <2>1. PICK c : c = Chain(k)
    OBVIOUS
  <2>2. c \in Seq(Nat) /\ k + 1 \in Nat \ {0} /\ (k + 1) - 1 = k
    BY <2>1, ChainIs
  <2>3. \A d \in 1 .. Len(c) : /\ c[d] \in 1 .. k /\ Tokens[c[d]].tag = "begin"
                               /\ Chain(c[d]) = SubSeq(c, 1, d)
                               /\ \A m \in c[d] .. k : OnChain(c[d], m)
    BY <1>2, <2>1, Zenon DEF Nested
  <2>4. ASSUME NEW d \in 1 .. Len(c), OnChain(c[d], k + 1)
        PROVE  /\ c[d] \in 1 .. k + 1 /\ Tokens[c[d]].tag = "begin"
               /\ Chain(c[d]) = SubSeq(c, 1, d)
               /\ \A m \in c[d] .. k + 1 : OnChain(c[d], m)
    <3>1. \A m \in c[d] .. k + 1 : m = k + 1 \/ m \in c[d] .. k
      BY <2>2, <2>3
    <3>2. \A m \in c[d] .. k + 1 : OnChain(c[d], m)
      BY <2>3, <2>4, <3>1, Zenon
    <3> QED
      BY <2>2, <2>3, <3>2
  <2>5. CASE Tokens[k + 1].tag = "begin"
    <3>1. Chain(k + 1) = Append(c, k + 1)
      BY <2>1, <2>2, <2>5, ChainIs
    <3>2. /\ Len(Chain(k + 1)) = Len(c) + 1 /\ Chain(k + 1)[Len(c) + 1] = k + 1
          /\ \A d \in 1 .. Len(c) : Chain(k + 1)[d] = c[d]
          /\ Len(c) \in Nat /\ Chain(k + 1) \in Seq(Nat)
      <4>1. k + 1 \in Nat
        BY <2>2
      <4>2. PICK x \in Nat : x = k + 1
        BY <4>1
      <4>3. /\ Len(c) \in Nat /\ Append(c, x) \in Seq(Nat) /\ Len(Append(c, x)) = Len(c) + 1
            /\ Append(c, x)[Len(c) + 1] = x /\ \A d \in 1 .. Len(c) : Append(c, x)[d] = c[d]
        BY <2>2, SeqFacts, Zenon
      <4> QED
        BY <3>1, <4>2, <4>3, Zenon
    <3>3. \A d \in 1 .. Len(c) : SubSeq(Chain(k + 1), 1, d) = SubSeq(c, 1, d)
      <4>1. PICK x, e : x = k + 1 /\ e = Append(c, x)
        OBVIOUS
      <4>2. Chain(k + 1) = e /\ x \in Nat
        BY <2>2, <3>1, <4>1
      <4>3. \A d \in 1 .. Len(c) : SubSeq(e, 1, d) = SubSeq(c, 1, d)
        BY <2>2, <4>1, <4>2
      <4> QED
        BY <4>2, <4>3
    <3>4. \A d \in 1 .. Len(c) : OnChain(c[d], k + 1)
      BY <3>2 DEF OnChain
    <3>5. OnChain(k + 1, k + 1)
      BY <3>2 DEF OnChain
    <3>6. SubSeq(Chain(k + 1), 1, Len(c) + 1) = Chain(k + 1)
      BY <3>2, SeqFacts
    <3> SUFFICES ASSUME NEW d \in 1 .. Len(Chain(k + 1))
                 PROVE  /\ Chain(k + 1)[d] \in 1 .. k + 1 /\ Tokens[Chain(k + 1)[d]].tag = "begin"
                        /\ Chain(Chain(k + 1)[d]) = SubSeq(Chain(k + 1), 1, d)
                        /\ \A m \in Chain(k + 1)[d] .. k + 1 : OnChain(Chain(k + 1)[d], m)
      BY <2>2 DEF Nested
    <3>7. CASE d = Len(c) + 1
      <4>1. \A m \in k + 1 .. k + 1 : m = k + 1
        OBVIOUS
      <4> QED
        BY <2>2, <2>5, <3>2, <3>5, <3>6, <3>7, <4>1
    <3>8. CASE d # Len(c) + 1
      <4>1. d \in 1 .. Len(c)
        BY <3>2, <3>8
      <4> QED
        BY <2>4, <3>2, <3>3, <3>4, <4>1
    <3> QED
      BY <3>7, <3>8
  <2>6. CASE Tokens[k + 1].tag # "begin"
    <3>1. PICK l \in Nat : /\ l <= Len(c) /\ Len(Chain(k + 1)) = l
                           /\ \A d \in 1 .. l : /\ Chain(k + 1)[d] = c[d]
                                                /\ SubSeq(Chain(k + 1), 1, d) = SubSeq(c, 1, d)
      <4>1. CASE Tokens[k + 1].tag = "end" /\ c # <<>>
        <5>1. Chain(k + 1) = Front(c)
          BY <2>1, <2>2, <4>1, ChainIs
        <5>2. PICK l : l = Len(c) - 1
          OBVIOUS
        <5>3. Chain(k + 1) = SubSeq(c, 1, l)
          BY <5>1, <5>2 DEF Front
        <5>4. l \in Nat /\ l <= Len(c) /\ Len(Chain(k + 1)) = l
          <6>1. Len(c) >= 1 /\ Len(c) \in Nat /\ Len(Front(c)) = Len(c) - 1
            BY <2>2, <4>1, SeqFacts
          <6> QED
            BY <5>1, <5>2, <6>1
        <5>5. \A d \in 1 .. l : /\ SubSeq(c, 1, l)[d] = c[d]
                                /\ SubSeq(SubSeq(c, 1, l), 1, d) = SubSeq(c, 1, d)
          BY <2>2, <5>4
        <5> QED
          BY <5>3, <5>4, <5>5
      <4>2. CASE Tokens[k + 1].tag = "end" /\ c = <<>>
        <5>1. Chain(k + 1) = Front(<<>>)
          BY <2>1, <2>2, <4>2, ChainIs
        <5>2. Len(Chain(k + 1)) = 0
          BY <5>1 DEF Front
        <5> QED
          BY <2>2, <5>2
      <4>3. CASE Tokens[k + 1].tag # "end"
        <5>1. Chain(k + 1) = c
          BY <2>1, <2>2, <2>6, <4>3, ChainIs
        <5> QED
          BY <2>2, <5>1, SeqFacts
      <4> QED
        BY <4>1, <4>2, <4>3
    <3>2. \A d \in 1 .. l : d \in 1 .. Len(c) /\ OnChain(c[d], k + 1)
      BY <2>2, <3>1 DEF OnChain
    <3> QED
      BY <2>2, <2>4, <3>1, <3>2 DEF Nested
  <2> QED
    BY <2>5, <2>6
<1> HIDE DEF T
<1>3. Nat \subseteq T
  BY <1>1, <1>2, ByInduction
<1> QED
  BY <1>3 DEF T

\* The node that a token is in most closely.
LEMMA Innermost ==
  ASSUME NEW k \in Nat, Chain(k) # <<>>
  PROVE  /\ Last(Chain(k)) \in 1 .. k /\ Tokens[Last(Chain(k))].tag = "begin"
         /\ Chain(Last(Chain(k))) = Chain(k)
<1>1. Chain(k) \in Seq(Nat)
  BY ChainIs
<1>2. Len(Chain(k)) \in 1 .. Len(Chain(k)) /\ Last(Chain(k)) = Chain(k)[Len(Chain(k))]
      /\ SubSeq(Chain(k), 1, Len(Chain(k))) = Chain(k)
  BY <1>1, SeqFacts
<1> QED
  BY <1>2, ChainsNested DEF Nested

\* A node is the last of its own chain.
LEMMA OwnChain ==
  ASSUME NEW i \in Nat \ {0}, Tokens[i].tag = "begin"
  PROVE  /\ Chain(i - 1) \in Seq(Nat) /\ Chain(i) = Append(Chain(i - 1), i)
         /\ Chain(i) # <<>> /\ Last(Chain(i)) = i /\ Front(Chain(i)) = Chain(i - 1)
         /\ Len(Chain(i)) = Len(Chain(i - 1)) + 1
         /\ Chain(i)[Len(Chain(i))] = i
<1>1. i - 1 \in Nat
  OBVIOUS
<1>2. Chain(i - 1) \in Seq(Nat) /\ Chain(i) = Append(Chain(i - 1), i)
  BY <1>1, ChainIs
<1> QED
  BY <1>2, SeqFacts

-----------------------------------------------------------------------------
(* The first of some tokens.                                                *)

LEMMA FirstIs ==
  ASSUME NEW K, K \subseteq Nat, K # {}
  PROVE  First(K) \in K /\ \A k \in K : First(K) <= k
<1>1. \E x \in K : \A y \in K : ~ (<<y, x>> \in OpToRel(<, Nat))
  BY NatLessThanWellFounded, WFMin
<1>2. PICK x \in K : \A y \in K : ~ (y < x)
  BY <1>1 DEF OpToRel
<1>3. \A y \in K : x <= y
  BY <1>2
<1> QED
  BY <1>3 DEF First

\* Which one is the first.
LEMMA FirstThat ==
  ASSUME NEW K, K \subseteq Nat, NEW k \in K, \A j \in K : k <= j
  PROVE  First(K) = k
<1>1. PICK x : x = First(K)
  OBVIOUS
<1>2. x \in K /\ x <= k
  BY <1>1, FirstIs
<1>3. k <= x /\ x \in Nat /\ k \in Nat
  BY <1>2
<1> QED
  BY <1>1, <1>2, <1>3

\* A later token does not change it.
LEMMA FirstStays ==
  ASSUME NEW p \in Nat, NEW K, K \subseteq 1 .. p - 1, K # {}
  PROVE  First(K \cup {p}) = First(K)
<1>1. K \subseteq Nat
  OBVIOUS
<1>2. First(K) \in K /\ \A k \in K : First(K) <= k
  BY <1>1, FirstIs
<1>3. PICK x : x = First(K)
  OBVIOUS
<1>4. x \in 1 .. p - 1 /\ x \in K \cup {p}
  BY <1>2, <1>3
<1>5. K \cup {p} \subseteq Nat /\ \A k \in K \cup {p} : x <= k
  BY <1>1, <1>2, <1>3, <1>4
<1> QED
  BY <1>3, <1>4, <1>5, FirstThat, Zenon

LEMMA FirstOfOne == \A p : First({p}) = p
BY DEF First

-----------------------------------------------------------------------------
(* Reading on.                                                              *)

LEMMA ChainStays ==
  ASSUME blob' = blob
  PROVE  Tokens' = Tokens /\ \A k : Chain(k)' = Chain(k)
<1>1. Tokens' = Tokens
  BY DEF Tokens
<1> QED
  BY <1>1 DEF Chain

\* What reading a token adds.
LEMMA Onward ==
  ASSUME blob' = blob, pos \in Nat \ {0}, pos' = pos + 1
  PROVE  /\ pos - 1 \in Nat /\ pos' - 1 = pos /\ pos' \in Nat \ {0}
         /\ Begins \subseteq 1 .. pos - 1 /\ Begins \subseteq Nat \ {0} /\ pos \notin Begins
         /\ \A i \in Begins : Tokens[i].tag = "begin"
         /\ Tokens[pos].tag = "begin" => Begins' = Begins \cup {pos}
         /\ Tokens[pos].tag # "begin" => Begins' = Begins
         /\ \A i, name : Props(i, name) \subseteq 1 .. pos - 1
         /\ \A i, name :
              IF Tokens[pos].tag = "prop" /\ Tokens[pos].name = name /\ Chain(pos) = Chain(i)
              THEN Props(i, name)' = Props(i, name) \cup {pos}
              ELSE Props(i, name)' = Props(i, name)
         /\ \A i, name : Value(i, name)' = Tokens[First(Props(i, name)')].value
         /\ \A i \in Begins : AddressCells(i)' = AddressCells(i)
<1>1. pos - 1 \in Nat /\ pos' - 1 = pos /\ pos' \in Nat \ {0}
  OBVIOUS
<1>2. Read' = Read \cup {pos} /\ Read = 1 .. pos - 1
  BY DEF Read
<1>3. Tokens' = Tokens /\ \A k : Chain(k)' = Chain(k)
  BY ChainStays
<1>4. /\ Begins \subseteq 1 .. pos - 1 /\ Begins \subseteq Nat \ {0} /\ pos \notin Begins
      /\ \A i \in Begins : Tokens[i].tag = "begin"
  BY <1>2 DEF Begins
<1>5. /\ Tokens[pos].tag = "begin" => Begins' = Begins \cup {pos}
      /\ Tokens[pos].tag # "begin" => Begins' = Begins
  BY <1>2, <1>3 DEF Begins
<1>6. \A i, name : Props(i, name) \subseteq 1 .. pos - 1
  BY <1>2 DEF Props
<1>7. ASSUME NEW i, NEW name
      PROVE  IF Tokens[pos].tag = "prop" /\ Tokens[pos].name = name /\ Chain(pos) = Chain(i)
             THEN Props(i, name)' = Props(i, name) \cup {pos}
             ELSE Props(i, name)' = Props(i, name)
  BY <1>2, <1>3 DEF Props
<1>8. ASSUME NEW i, NEW name PROVE Value(i, name)' = Tokens[First(Props(i, name)')].value
  BY <1>3 DEF Value, First
<1>9. ASSUME NEW i \in Begins PROVE AddressCells(i)' = AddressCells(i)
  <2> DEFINE P == Props(Last(Front(Chain(i))), "#address-cells")
             K == {k \in P : k < i}
  <2>1. P' = P \/ P' = P \cup {pos}
    <3>1. Last(Front(Chain(i)))' = Last(Front(Chain(i)))
      BY <1>3
    <3> QED
      BY <3>1, <1>7
  <2>2. i < pos /\ i \in Nat
    BY <1>4
  <2>3. P \subseteq Nat
    BY <1>6
  <2> HIDE DEF P
  <2>4. K' = K
    BY <2>1, <2>2, <2>3
  <2> HIDE DEF K
  <2>5. Stated(K, 2)' = Stated(K, 2)
    BY <2>4, <1>3 DEF Stated, First
  <2> QED
    BY <2>5 DEF AddressCells, K, P
<1> QED
  BY <1>1, <1>4, <1>5, <1>6, <1>7, <1>8, <1>9, Zenon

-----------------------------------------------------------------------------
(* The nodes that are built.                                                *)

\* The children of node i that are complete, of one name.
Kids(i, name) ==
  {j \in Begins : /\ ~ OnChain(j, pos - 1)
                  /\ Tokens[j].name = name /\ Chain(j - 1) = Chain(i)}

\* F gives the nodes that dm has built or is building: node i is what the
\* tokens that were read say of it.
IsNode(F, i) ==
  /\ F[i] = [name |-> F[i].name, cells |-> F[i].cells,
             properties |-> F[i].properties, children |-> F[i].children]
  /\ F[i].name = Tokens[i].name
  /\ Len(Chain(i)) > 1 => F[i].cells.address = AddressCells(i)
  /\ \A name : name \in DOMAIN F[i].properties <=> Props(i, name) # {}
  /\ \A name : Props(i, name) # {} => F[i].properties[name] = Value(i, name)
  /\ \A name : name \in DOMAIN F[i].children <=> Kids(i, name) # {}
  /\ \A name : Kids(i, name) # {} => F[i].children[name] = F[First(Kids(i, name))]

\* The first entry of a name stays.
LEMMA Emplaced ==
  ASSUME NEW f, NEW x, NEW v, NEW g, g = Emplace(f, x, v)
  PROVE  /\ \A y : y \in DOMAIN g <=> y \in DOMAIN f \/ y = x
         /\ \A y : y \in DOMAIN f => g[y] = f[y]
         /\ x \notin DOMAIN f => g[x] = v
BY DEF Emplace

LEMMA NoChild == \A y : y \notin DOMAIN <<>>
OBVIOUS

LEMMA KidsAre == \A i, name : Kids(i, name) \subseteq Begins /\ Kids(i, name) \subseteq Nat
BY DEF Kids, Begins, Read

\* A node stays what it is while nothing is said of it.
LEMMA KeepsNode ==
  ASSUME NEW F, NEW G, NEW i \in Begins, IsNode(F, i),
         blob' = blob, pos \in Nat \ {0}, pos' = pos + 1, G[i] = F[i],
         \A name : Props(i, name)' = Props(i, name),
         \A name : Kids(i, name)' = Kids(i, name),
         \A name : \A j \in Kids(i, name) : G[j] = F[j]
  PROVE  IsNode(G, i)'
<1>1. Tokens' = Tokens /\ \A k : Chain(k)' = Chain(k)
  BY ChainStays
<1>2. AddressCells(i)' = AddressCells(i)
  BY Onward
<1>3. \A name : Value(i, name)' = Value(i, name)
  BY Onward DEF Value
<1>4. \A name : Kids(i, name) # {} => G[First(Kids(i, name))] = F[First(Kids(i, name))]
  BY FirstIs, KidsAre
<1> QED
  BY <1>1, <1>2, <1>3, <1>4 DEF IsNode

\* Two tokens that nodes begin with have chains of their own.
LEMMA ChainOwned ==
  ASSUME NEW i \in Nat \ {0}, NEW j \in Nat \ {0},
         Tokens[i].tag = "begin", Tokens[j].tag = "begin", Chain(i) = Chain(j)
  PROVE  i = j
<1>1. Last(Chain(i)) = i /\ Last(Chain(j)) = j
  BY OwnChain
<1> QED
  BY <1>1

\* A node is no child of its own, or of a node that begins later.
LEMMA ChildAfter ==
  ASSUME NEW i \in Nat \ {0}, NEW j \in Nat \ {0}, Tokens[i].tag = "begin",
         Chain(j - 1) = Chain(i)
  PROVE  i < j
<1>1. j - 1 \in Nat
  OBVIOUS
<1>2. Chain(j - 1) # <<>> /\ Last(Chain(j - 1)) = i
  BY OwnChain
<1>3. i \in 1 .. j - 1
  BY <1>1, <1>2, Innermost
<1> QED
  BY <1>3

\* The nodes that a token is in are different ones, the outer ones before.
LEMMA ChainGrows ==
  ASSUME NEW k \in Nat, NEW d \in 1 .. Len(Chain(k)), NEW e \in 1 .. Len(Chain(k)),
         Chain(k)[d] = Chain(k)[e]
  PROVE  d = e
<1>1. PICK c \in Seq(Nat) : c = Chain(k)
  BY ChainIs
<1>2. SubSeq(c, 1, d) = SubSeq(c, 1, e)
  BY <1>1, ChainsNested DEF Nested
<1>3. Len(SubSeq(c, 1, d)) = d /\ Len(SubSeq(c, 1, e)) = e
  BY <1>1
<1> QED
  BY <1>2, <1>3

\* What reading a token completes: an end, the node it is in.
LEMMA KidsOnward ==
  ASSUME blob' = blob, pos \in Nat \ {0}, pos' = pos + 1
  PROVE  /\ Tokens[pos].tag # "end" => \A i, name : Kids(i, name)' = Kids(i, name)
         /\ Tokens[pos].tag = "end" /\ Chain(pos - 1) # <<>> =>
              \A i, name :
                LET x == Last(Chain(pos - 1))
                IN IF Tokens[x].name = name /\ Chain(x - 1) = Chain(i)
                   THEN Kids(i, name)' = Kids(i, name) \cup {x}
                   ELSE Kids(i, name)' = Kids(i, name)
<1>1. Tokens' = Tokens /\ \A k : Chain(k)' = Chain(k)
  BY ChainStays
<1>2. pos - 1 \in Nat /\ pos' - 1 = pos /\ pos - 1 < pos
  OBVIOUS
<1>3. \A i, name : Kids(i, name)' = {j \in Begins' : ~ OnChain(j, pos) /\ Tokens[j].name = name /\ Chain(j - 1) = Chain(i)}
  BY <1>1, <1>2 DEF Kids, OnChain
<1>8. \A i, name : Kids(i, name) = {j \in Begins : ~ OnChain(j, pos - 1) /\ Tokens[j].name = name /\ Chain(j - 1) = Chain(i)}
  BY DEF Kids
<1>4. PICK c \in Seq(Nat) : c = Chain(pos - 1)
  BY <1>2, ChainIs
<1>5. CASE Tokens[pos].tag = "begin"
  <2>1. Chain(pos) = Append(c, pos)
    BY <1>4, <1>5, ChainIs
  <2>2. /\ Len(c) \in Nat /\ Len(Chain(pos)) = Len(c) + 1 /\ Chain(pos)[Len(c) + 1] = pos
        /\ \A d \in 1 .. Len(c) : Chain(pos)[d] = c[d]
    BY <2>1, SeqFacts
  <2>3. OnChain(pos, pos)
    BY <2>2 DEF OnChain
  <2>4. \A j \in Begins : OnChain(j, pos) <=> OnChain(j, pos - 1)
    <3>1. \A d : d \in 1 .. Len(c) + 1 <=> d \in 1 .. Len(c) \/ d = Len(c) + 1
      BY <2>2
    <3>2. pos \notin Begins
      BY Onward
    <3> QED
      BY <1>4, <2>2, <3>1, <3>2 DEF OnChain
  <2>5. Begins' = Begins \cup {pos}
    BY <1>5, Onward
  <2>6. ASSUME NEW i, NEW name PROVE Kids(i, name)' = Kids(i, name)
    BY <1>3, <1>8, <2>3, <2>4, <2>5
  <2> QED
    BY <1>5, <2>6
<1>6. CASE Tokens[pos].tag = "end"
  <2>1. Chain(pos) = Front(c) /\ Begins' = Begins
    BY <1>4, <1>6, ChainIs, Onward
  <2> SUFFICES ASSUME c # <<>>
               PROVE  \A i, name :
                        LET x == Last(c)
                        IN IF Tokens[x].name = name /\ Chain(x - 1) = Chain(i)
                           THEN Kids(i, name)' = Kids(i, name) \cup {x}
                           ELSE Kids(i, name)' = Kids(i, name)
    BY <1>4, <1>6
  <2>2. PICK x : x = Last(c)
    OBVIOUS
  <2>3. /\ Len(c) \in Nat /\ Len(c) >= 1 /\ x = c[Len(c)] /\ Len(Chain(pos)) = Len(c) - 1
        /\ \A d \in 1 .. Len(c) - 1 : Chain(pos)[d] = c[d]
    BY <2>1, <2>2, SeqFacts
  <2>4. \A d \in 1 .. Len(c) - 1 : d \in 1 .. Len(c) /\ d # Len(c)
    BY <2>3
  <2>5. ASSUME NEW d \in 1 .. Len(c) - 1 PROVE c[d] # x
    <3>1. d \in 1 .. Len(c) /\ Len(c) \in 1 .. Len(c) /\ d # Len(c)
      BY <2>3
    <3> QED
      BY <1>2, <1>4, <2>3, <3>1, ChainGrows
  <2>6. \A d \in 1 .. Len(c) : d = Len(c) \/ d \in 1 .. Len(c) - 1
    BY <2>3
  <2>7. \A j : OnChain(j, pos) <=> OnChain(j, pos - 1) /\ j # x
    BY <1>4, <2>3, <2>4, <2>5, <2>6 DEF OnChain
  <2>8. x \in Begins
    <3>1. x \in 1 .. pos - 1 /\ Tokens[x].tag = "begin"
      BY <1>2, <1>4, <2>2, Innermost
    <3> QED
      BY <3>1 DEF Begins, Read
  <2>9. OnChain(x, pos - 1)
    BY <1>4, <2>3 DEF OnChain
  <2>10. ASSUME NEW i, NEW name
         PROVE  IF Tokens[x].name = name /\ Chain(x - 1) = Chain(i)
                THEN Kids(i, name)' = Kids(i, name) \cup {x}
                ELSE Kids(i, name)' = Kids(i, name)
    <3>1. Kids(i, name)' = {j \in Begins : ~ (OnChain(j, pos - 1) /\ j # x) /\ Tokens[j].name = name /\ Chain(j - 1) = Chain(i)}
      BY <1>3, <2>1, <2>7
    <3>2. Kids(i, name) = {j \in Begins : ~ OnChain(j, pos - 1) /\ Tokens[j].name = name /\ Chain(j - 1) = Chain(i)}
      BY <1>8
    <3>3. CASE Tokens[x].name = name /\ Chain(x - 1) = Chain(i)
      <4>1. \A j : j \in Kids(i, name)' <=> j \in Kids(i, name) \/ j = x
        BY <3>1, <3>2, <3>3, <2>8, <2>9, Zenon
      <4>2. PICK K, L : K = Kids(i, name) /\ L = Kids(i, name)'
        OBVIOUS
      <4>3. L = K \cup {x}
        BY <4>1, <4>2
      <4> QED
        BY <3>3, <4>2, <4>3
    <3>4. CASE ~ (Tokens[x].name = name /\ Chain(x - 1) = Chain(i))
      <4>1. \A j : j \in Kids(i, name)' <=> j \in Kids(i, name)
        BY <3>1, <3>2, <3>4, Zenon
      <4>2. PICK K, L : K = Kids(i, name) /\ L = Kids(i, name)'
        OBVIOUS
      <4>3. L = K
        BY <4>1, <4>2
      <4> QED
        BY <3>4, <4>2, <4>3
    <3> QED
      BY <3>3, <3>4
  <2> QED
    BY <2>2, <2>10
<1>7. CASE Tokens[pos].tag \notin {"begin", "end"}
  <2>1. Chain(pos) = Chain(pos - 1) /\ Begins' = Begins
    BY <1>7, ChainIs, Onward
  <2> QED
    <3>1. ASSUME NEW i, NEW name PROVE Kids(i, name)' = Kids(i, name)
      BY <1>3, <1>8, <2>1 DEF OnChain
    <3> QED
      BY <1>7, <3>1
<1> QED
  BY <1>5, <1>6, <1>7

-----------------------------------------------------------------------------
(* The stack.                                                               *)

\* A sequence as a function.
LEMMA AsFunction ==
  ASSUME NEW n \in Nat, NEW f, f = [d \in 1 .. n |-> f[d]]
  PROVE  /\ Len(f) = n /\ (f = <<>> <=> n = 0)
         /\ \A x : Append(f, x) = [d \in 1 .. n + 1 |-> IF d = n + 1 THEN x ELSE f[d]]
         /\ n # 0 => /\ Last(f) = f[n] /\ n - 1 \in Nat
                     /\ Front(f) = [d \in 1 .. n - 1 |-> f[d]]
<1>1. PICK S : S = {f[d] : d \in 1 .. n}
  OBVIOUS
<1>2. f \in Seq(S) /\ Len(f) = n
  <2>1. f \in [1 .. n -> S]
    BY <1>1
  <2> QED
    BY <2>1
<1>3. f = <<>> <=> n = 0
  BY <1>2
<1>4. ASSUME NEW x PROVE Append(f, x) = [d \in 1 .. n + 1 |-> IF d = n + 1 THEN x ELSE f[d]]
  <2>1. PICK T : T = S \cup {x}
    OBVIOUS
  <2>2. f \in Seq(T) /\ x \in T
    <3>1. f \in [1 .. n -> T]
      BY <1>1, <2>1
    <3> QED
      BY <2>1, <3>1
  <2>3. Pushes(T, f)
    BY <2>2, PushFacts
  <2>4. PICK g : g = Append(f, x)
    OBVIOUS
  <2>5. /\ g \in Seq(T) /\ Len(g) = n + 1 /\ g[n + 1] = x
        /\ \A d \in 1 .. n : g[d] = f[d]
    BY <1>2, <2>2, <2>3, <2>4 DEF Pushes
  <2>6. g = [d \in 1 .. n + 1 |-> g[d]]
    BY <2>5
  <2>7. \A d \in 1 .. n + 1 : g[d] = IF d = n + 1 THEN x ELSE f[d]
    <3>1. \A d \in 1 .. n + 1 : d = n + 1 \/ d \in 1 .. n
      OBVIOUS
    <3>2. n + 1 \notin 1 .. n
      OBVIOUS
    <3> QED
      BY <2>5, <3>1, <3>2
  <2> QED
    BY <2>4, <2>6, <2>7
<1>5. ASSUME n # 0
      PROVE  /\ Last(f) = f[n] /\ n - 1 \in Nat
             /\ Front(f) = [d \in 1 .. n - 1 |-> f[d]]
  <2>1. Pushes(S, f)
    BY <1>2, PushFacts
  <2>2. PICK g : g = Front(f)
    OBVIOUS
  <2>3. PICK m : m = n - 1
    OBVIOUS
  <2>4. m \in Nat /\ g \in Seq(S) /\ Len(g) = m /\ \A d \in 1 .. m : g[d] = f[d]
    BY <1>2, <1>3, <1>5, <2>1, <2>2, <2>3 DEF Pushes
  <2>5. g = [d \in 1 .. m |-> g[d]]
    BY <2>4
  <2>6. g = [d \in 1 .. m |-> f[d]]
    BY <2>4, <2>5
  <2> QED
    BY <1>2, <1>3, <1>5, <2>1, <2>2, <2>3, <2>4, <2>6 DEF Pushes
<1> QED
  BY <1>2, <1>3, <1>4, <1>5

\* The parser's calls build the nodes that the next token is in.
Nodes(F) ==
  /\ stack = [d \in 1 .. Len(Chain(pos - 1)) |-> F[Chain(pos - 1)[d]]]
  /\ \A i \in Begins : IsNode(F, i)

Reading ==
  /\ WellFormed(Tokens) /\ pos \in 1 .. Len(Tokens) /\ root = {}
  /\ \E F : Nodes(F)
  /\ \A i \in Begins : Chain(pos - 1) # <<>> /\ Chain(i)[1] = Chain(pos - 1)[1]

\* The tree is complete, and all that was read is in it.
Complete(F, r) ==
  /\ r \in Begins /\ root = {F[r]} /\ Chain(pos - 1) = <<>>
  /\ \A i \in Begins : IsNode(F, i) /\ Chain(i)[1] = r

\* A token that the parser goes on after is not the last one.
LEMMA TokenRead ==
  ASSUME Reading, Token.tag \in {"nop", "begin", "prop", "end"},
         blob' = blob, pos' = pos + 1
  PROVE  /\ Token = Tokens[pos] /\ pos \in Nat \ {0} /\ pos - 1 \in Nat /\ pos' - 1 = pos
         /\ WellFormed(Tokens)' /\ pos' \in 1 .. Len(Tokens)'
         /\ Chain(pos - 1)' = Chain(pos) /\ Chain(pos - 1) \in Seq(Nat)
<1>1. Token = Tokens[pos]
  BY DEF Token, Tokens
<1>2. WellFormed(Tokens) /\ pos \in 1 .. Len(Tokens)
  BY DEF Reading
<1>3. pos # Len(Tokens)
  BY <1>1, <1>2 DEF WellFormed
<1>4. Len(Tokens) \in Nat
  BY <1>2 DEF WellFormed
<1>5. pos \in Nat \ {0} /\ pos - 1 \in Nat /\ pos' - 1 = pos /\ pos' \in 1 .. Len(Tokens)
  BY <1>2, <1>3, <1>4
<1>6. Tokens' = Tokens /\ \A k : Chain(k)' = Chain(k)
  BY ChainStays
<1>7. Chain(pos - 1)' = Chain(pos)
  BY <1>5, <1>6 DEF Chain
<1>8. WellFormed(Tokens)' /\ pos' \in 1 .. Len(Tokens)'
  BY <1>2, <1>5, <1>6 DEF WellFormed
<1>9. Chain(pos - 1) \in Seq(Nat)
  BY <1>5, ChainIs
<1> QED
  BY <1>1, <1>5, <1>7, <1>8, <1>9

\* The stack, and what stays on it.
LEMMA StackIs ==
  ASSUME NEW F, Nodes(F), pos \in Nat \ {0}
  PROVE  /\ Chain(pos - 1) \in Seq(Nat) /\ Len(Chain(pos - 1)) \in Nat
         /\ Len(stack) = Len(Chain(pos - 1))
         /\ stack = <<>> <=> Chain(pos - 1) = <<>>
         /\ \A d \in 1 .. Len(Chain(pos - 1)) : stack[d] = F[Chain(pos - 1)[d]]
         /\ stack = [d \in 1 .. Len(Chain(pos - 1)) |-> stack[d]]
         /\ Chain(pos - 1) # <<>> => /\ Last(Chain(pos - 1)) \in Begins
                                     /\ Node = F[Last(Chain(pos - 1))]
<1>1. pos - 1 \in Nat
  OBVIOUS
<1>2. PICK c \in Seq(Nat) : c = Chain(pos - 1)
  BY <1>1, ChainIs
<1>3. PICK n : n = Len(c)
  OBVIOUS
<1>4. n \in Nat /\ stack = [d \in 1 .. n |-> F[c[d]]]
  BY <1>2, <1>3 DEF Nodes
<1>5. stack = [d \in 1 .. n |-> stack[d]] /\ \A d \in 1 .. n : stack[d] = F[c[d]]
  BY <1>4
<1>6. Len(stack) = n /\ (stack = <<>> <=> n = 0) /\ (n # 0 => Last(stack) = stack[n])
  <2>1. PICK s : s = stack
    OBVIOUS
  <2>2. n \in Nat /\ s = [d \in 1 .. n |-> s[d]]
    BY <1>4, <1>5, <2>1
  <2>3. Len(s) = n /\ (s = <<>> <=> n = 0) /\ (n # 0 => Last(s) = s[n])
    BY <2>2, AsFunction, Zenon
  <2> QED
    BY <2>1, <2>3
<1>7. c = <<>> <=> n = 0
  BY <1>3
<1>8. ASSUME c # <<>> PROVE Last(c) \in Begins /\ Node = F[Last(c)]
  <2>1. Last(c) \in 1 .. pos - 1 /\ Tokens[Last(c)].tag = "begin"
    BY <1>1, <1>2, <1>8, Innermost
  <2>2. Last(c) = c[n] /\ n \in 1 .. n
    BY <1>3, <1>4, <1>7, <1>8, SeqFacts
  <2>3. Node = F[Last(c)]
    BY <1>5, <1>6, <1>7, <1>8, <2>2 DEF Node
  <2> QED
    BY <2>1, <2>3 DEF Begins, Read
<1> QED
  BY <1>2, <1>3, <1>4, <1>5, <1>6, <1>7, <1>8

LEMMA ReadNop ==
  ASSUME Reading, ParseNop PROVE Reading'
<1>1. /\ Token.tag = "nop" /\ blob' = blob /\ pos' = pos + 1 /\ stack' = stack /\ root' = root
  BY DEF ParseNop, Parsing
<1>2. /\ Token = Tokens[pos] /\ pos \in Nat \ {0} /\ pos - 1 \in Nat /\ pos' - 1 = pos
      /\ WellFormed(Tokens)' /\ pos' \in 1 .. Len(Tokens)'
      /\ Chain(pos - 1)' = Chain(pos)
  BY <1>1, TokenRead
<1>3. PICK F : Nodes(F)
  BY DEF Reading
<1>4. Chain(pos) = Chain(pos - 1) /\ Begins' = Begins
  BY <1>1, <1>2, ChainIs, Onward
<1>5. \A k : Chain(k)' = Chain(k)
  BY <1>1, ChainStays
<1>6. ASSUME NEW i \in Begins PROVE IsNode(F, i)'
  <2>1. \A name : Props(i, name)' = Props(i, name)
    BY <1>1, <1>2, Onward
  <2>2. \A name : Kids(i, name)' = Kids(i, name)
    BY <1>1, <1>2, KidsOnward
  <2>3. IsNode(F, i)
    BY <1>3 DEF Nodes
  <2> QED
    BY <1>1, <1>2, <2>1, <2>2, <2>3, KeepsNode
<1>7. Nodes(F)'
  BY <1>1, <1>2, <1>3, <1>4, <1>5, <1>6 DEF Nodes
<1>8. (\A i \in Begins : Chain(pos - 1) # <<>> /\ Chain(i)[1] = Chain(pos - 1)[1])'
  BY <1>2, <1>4, <1>5 DEF Reading
<1> QED
  BY <1>1, <1>2, <1>7, <1>8 DEF Reading

\* The node that a token is in is no complete one.
LEMMA OpenNode ==
  ASSUME NEW i, NEW name, NEW j \in Kids(i, name), pos \in Nat \ {0}, Chain(pos - 1) # <<>>
  PROVE  j # Last(Chain(pos - 1))
<1>1. PICK c \in Seq(Nat) : c = Chain(pos - 1)
  BY ChainIs
<1>2. Last(c) = c[Len(c)] /\ Len(c) \in 1 .. Len(c)
  BY <1>1, SeqFacts
<1>3. OnChain(Last(c), pos - 1)
  BY <1>1, <1>2 DEF OnChain
<1> QED
  BY <1>1, <1>3 DEF Kids

LEMMA ReadProperty ==
  ASSUME Reading, ParseProperty PROVE Reading'
<1>1. /\ Token.tag = "prop" /\ blob' = blob /\ pos' = pos + 1 /\ root' = root /\ stack # <<>>
      /\ Put([Node EXCEPT !.properties = Emplace(@, Token.name, Token.value)])
  BY DEF ParseProperty, Parsing
<1>2. /\ Token = Tokens[pos] /\ pos \in Nat \ {0} /\ pos - 1 \in Nat /\ pos' - 1 = pos
      /\ WellFormed(Tokens)' /\ pos' \in 1 .. Len(Tokens)'
      /\ Chain(pos - 1)' = Chain(pos)
  BY <1>1, TokenRead
<1>3. PICK F : Nodes(F)
  BY DEF Reading
<1>4. Chain(pos) = Chain(pos - 1) /\ Begins' = Begins
  BY <1>1, <1>2, ChainIs, Onward
<1>5. Tokens' = Tokens /\ \A k : Chain(k)' = Chain(k)
  BY <1>1, ChainStays
<1>6. PICK c \in Seq(Nat) : c = Chain(pos - 1)
  BY <1>2, ChainIs
<1>7. PICK t : t = Last(c)
  OBVIOUS
<1>8. PICK n : n = [Node EXCEPT !.properties = Emplace(@, Token.name, Token.value)]
  OBVIOUS
<1>9. c # <<>> /\ t \in Begins /\ Node = F[t] /\ Len(stack) = Len(c) /\ stack = [d \in 1 .. Len(c) |-> stack[d]]
      /\ Len(c) \in Nat /\ \A d \in 1 .. Len(c) : stack[d] = F[c[d]]
  BY <1>1, <1>2, <1>3, <1>6, <1>7, StackIs
<1>10. t = c[Len(c)] /\ Len(c) # 0 /\ Chain(t) = c
  BY <1>2, <1>6, <1>7, <1>9, SeqFacts, Innermost
<1>11. PICK G : G = [i \in Nat |-> IF i = t THEN n ELSE F[i]]
  OBVIOUS
<1>12. G[t] = n /\ \A i \in Nat : i # t => G[i] = F[i]
  <2>1. t \in Nat
    BY <1>1, <1>2, <1>9, Onward
  <2> QED
    BY <1>11, <2>1
<1>13. stack' = [d \in 1 .. Len(c) |-> G[c[d]]]
  <2>1. PICK m : m = Len(c) - 1
    OBVIOUS
  <2>2. Front(stack) = [d \in 1 .. m |-> stack[d]] /\ m \in Nat /\ m + 1 = Len(c)
    <3>1. PICK s, l : s = stack /\ l = Len(c)
      OBVIOUS
    <3>2. l \in Nat /\ s = [d \in 1 .. l |-> s[d]] /\ l # 0
      BY <1>9, <1>10, <3>1
    <3>3. Front(s) = [d \in 1 .. l - 1 |-> s[d]] /\ l - 1 \in Nat
      BY <3>2, AsFunction
    <3> QED
      BY <2>1, <3>1, <3>2, <3>3
  <2>3. PICK f : f = Front(stack)
    OBVIOUS
  <2>4. f = [d \in 1 .. m |-> f[d]] /\ \A d \in 1 .. m : f[d] = stack[d]
    BY <2>2, <2>3
  <2>5. Append(f, n) = [d \in 1 .. m + 1 |-> IF d = m + 1 THEN n ELSE f[d]]
    BY <2>2, <2>4, AsFunction
  <2>6. stack' = Append(f, n)
    BY <1>1, <1>8, <2>3 DEF Put
  <2>7. ASSUME NEW d \in 1 .. Len(c) PROVE (IF d = m + 1 THEN n ELSE f[d]) = G[c[d]]
    <3>1. CASE d = m + 1
      BY <1>10, <1>12, <2>2, <3>1
    <3>2. CASE d # m + 1
      <4>1. d \in 1 .. m /\ d # Len(c) /\ Len(c) \in 1 .. Len(c)
        BY <2>2, <3>2
      <4>2. c[d] # t
        BY <1>2, <1>6, <1>10, <4>1, ChainGrows
      <4>3. c[d] \in Nat
        BY <1>6
      <4> QED
        BY <1>9, <1>12, <2>4, <3>2, <4>1, <4>2, <4>3
    <3> QED
      BY <3>1, <3>2
  <2> QED
    BY <2>2, <2>5, <2>6, <2>7
<1>14. ASSUME NEW i \in Begins PROVE IsNode(G, i)'
  <2>1. \A name : Kids(i, name)' = Kids(i, name)
    BY <1>1, <1>2, KidsOnward
  <2>2. \A name : \A j \in Kids(i, name) : G[j] = F[j]
    BY <1>2, <1>6, <1>7, <1>9, <1>12, OpenNode, KidsAre
  <2>3. IsNode(F, i) /\ i \in Nat \ {0} /\ Tokens[i].tag = "begin"
    BY <1>1, <1>2, <1>3, Onward DEF Nodes
  <2>4. CASE i # t
    <3>1. Chain(pos) # Chain(i)
      <4>1. t \in Nat \ {0} /\ Tokens[t].tag = "begin"
        BY <1>1, <1>2, <1>9, Onward
      <4> QED
        BY <1>4, <1>6, <1>10, <2>3, <2>4, <4>1, ChainOwned
    <3>2. \A name : Props(i, name)' = Props(i, name)
      BY <1>1, <1>2, <3>1, Onward
    <3>3. G[i] = F[i]
      BY <1>12, <2>3, <2>4
    <3> QED
      BY <1>1, <1>2, <2>1, <2>2, <2>3, <3>2, <3>3, KeepsNode
  <2>5. CASE i = t
    <3>1. PICK name, value : name = Tokens[pos].name /\ value = Tokens[pos].value
      OBVIOUS
    <3>2. PICK P, Q : P = F[t].properties /\ Q = Emplace(P, name, value)
      OBVIOUS
    <3>3. n = [F[t] EXCEPT !.properties = Q]
      BY <1>2, <1>8, <1>9, <3>1, <3>2
    <3>4. /\ F[t] = [name |-> F[t].name, cells |-> F[t].cells,
                     properties |-> F[t].properties, children |-> F[t].children]
          /\ F[t].name = Tokens[t].name
          /\ Len(Chain(t)) > 1 => F[t].cells.address = AddressCells(t)
          /\ \A m : m \in DOMAIN P <=> Props(t, m) # {}
          /\ \A m : Props(t, m) # {} => P[m] = Value(t, m)
          /\ \A m : m \in DOMAIN F[t].children <=> Kids(t, m) # {}
          /\ \A m : Kids(t, m) # {} => F[t].children[m] = F[First(Kids(t, m))]
      BY <2>3, <2>5, <3>2 DEF IsNode
    <3>5. /\ n = [name |-> n.name, cells |-> n.cells, properties |-> n.properties, children |-> n.children]
          /\ n.name = F[t].name /\ n.cells = F[t].cells /\ n.children = F[t].children /\ n.properties = Q
      BY <3>3, <3>4
    <3>6. /\ \A m : m \in DOMAIN Q <=> m \in DOMAIN P \/ m = name
          /\ \A m : m \in DOMAIN P => Q[m] = P[m]
          /\ name \notin DOMAIN P => Q[name] = value
      BY <3>2, Emplaced
    <3>7. /\ \A m : m # name => Props(t, m)' = Props(t, m)
          /\ Props(t, name)' = Props(t, name) \cup {pos}
      BY <1>1, <1>2, <1>4, <1>6, <1>10, <3>1, Onward
    <3>8. \A m : m \in DOMAIN Q <=> Props(t, m)' # {}
      BY <3>4, <3>6, <3>7
    <3>9. ASSUME NEW m, Props(t, m)' # {} PROVE Q[m] = Value(t, m)'
      <4>1. Value(t, m)' = Tokens[First(Props(t, m)')].value
        BY <1>1, <1>2, Onward
      <4>2. CASE m # name
        BY <3>4, <3>6, <3>7, <3>9, <4>1, <4>2 DEF Value
      <4>3. CASE m = name /\ Props(t, m) # {}
        <5>1. First(Props(t, m)') = First(Props(t, m))
          <6>1. Props(t, m) \subseteq 1 .. pos - 1
            BY <1>1, <1>2, Onward
          <6> QED
            BY <1>2, <3>7, <4>3, <6>1, FirstStays
        <5> QED
          BY <3>4, <3>6, <4>1, <4>3, <5>1 DEF Value
      <4>4. CASE m = name /\ Props(t, m) = {}
        <5>1. First(Props(t, m)') = pos
          BY <3>7, <4>4, FirstOfOne
        <5> QED
          BY <3>1, <3>4, <3>6, <4>1, <4>4, <5>1
      <4> QED
        BY <4>2, <4>3, <4>4
    <3>10. AddressCells(t)' = AddressCells(t)
      BY <1>1, <1>2, <1>9, Onward
    <3>11. \A m : Kids(t, m) # {} => G[First(Kids(t, m))] = F[First(Kids(t, m))]
      BY <2>2, <2>5, FirstIs, KidsAre
    <3> QED
      BY <1>5, <1>12, <2>1, <2>5, <3>4, <3>5, <3>8, <3>9, <3>10, <3>11 DEF IsNode
  <2> QED
    BY <2>4, <2>5
<1>15. Nodes(G)'
  BY <1>2, <1>4, <1>6, <1>13, <1>14 DEF Nodes
<1>16. (\A i \in Begins : Chain(pos - 1) # <<>> /\ Chain(i)[1] = Chain(pos - 1)[1])'
  BY <1>2, <1>4, <1>5 DEF Reading
<1> QED
  BY <1>1, <1>2, <1>15, <1>16 DEF Reading

\* Nothing is said of a node before it begins.
LEMMA NothingYet ==
  ASSUME NEW x \in Nat \ {0}, x = pos, blob' = blob, pos' = pos + 1, Tokens[x].tag = "begin"
  PROVE  \A name : /\ Props(x, name) = {} /\ Props(x, name)' = {}
                   /\ Kids(x, name) = {} /\ Kids(x, name)' = {}
<1> SUFFICES ASSUME NEW name
             PROVE  /\ Props(x, name) = {} /\ Props(x, name)' = {}
                    /\ Kids(x, name) = {} /\ Kids(x, name)' = {}
  OBVIOUS
<1>1. ASSUME NEW k \in Props(x, name) PROVE FALSE
  <2>1. k \in 1 .. x - 1 /\ Chain(k) = Chain(x)
    BY Onward DEF Props
  <2>2. Chain(k) # <<>> /\ Last(Chain(k)) = x
    BY <2>1, OwnChain
  <2>3. x \in 1 .. k
    BY <2>1, <2>2, Innermost
  <2> QED
    BY <2>1, <2>3
<1>2. Props(x, name)' = Props(x, name)
  BY Onward
<1>3. ASSUME NEW j \in Kids(x, name) PROVE FALSE
  <2>1. j \in Begins /\ Chain(j - 1) = Chain(x)
    BY DEF Kids
  <2>2. j \in 1 .. x - 1
    BY <2>1, Onward
  <2>3. x < j
    BY <2>1, <2>2, ChildAfter
  <2> QED
    BY <2>2, <2>3
<1>4. Kids(x, name)' = Kids(x, name)
  BY KidsOnward
<1>5. Props(x, name) = {} /\ Kids(x, name) = {}
  BY <1>1, <1>3
<1> QED
  BY <1>2, <1>4, <1>5

LEMMA ReadBegin ==
  ASSUME Reading, ParseBegin PROVE Reading'
<1>1. /\ Token.tag = "begin" /\ blob' = blob /\ pos' = pos + 1 /\ root' = root
      /\ stack' = Append(stack,
           [name |-> Token.name, cells |-> IF stack = <<>> THEN DefaultCells ELSE ChildCells(Node),
            properties |-> <<>>, children |-> <<>>])
  BY DEF ParseBegin, Parsing
<1>2. /\ Token = Tokens[pos] /\ pos \in Nat \ {0} /\ pos - 1 \in Nat /\ pos' - 1 = pos
      /\ WellFormed(Tokens)' /\ pos' \in 1 .. Len(Tokens)'
      /\ Chain(pos - 1)' = Chain(pos)
  BY <1>1, TokenRead
<1>3. PICK F : Nodes(F)
  BY DEF Reading
<1>4. PICK x \in Nat \ {0} : x = pos
  BY <1>2
<1>5. Tokens' = Tokens /\ \A k : Chain(k)' = Chain(k)
  BY <1>1, ChainStays
<1>6. PICK c \in Seq(Nat) : c = Chain(pos - 1)
  BY <1>2, ChainIs
<1>7. PICK l : l = Len(c)
  OBVIOUS
<1>8. PICK n : n = [name |-> Token.name, cells |-> IF stack = <<>> THEN DefaultCells ELSE ChildCells(Node),
                    properties |-> <<>>, children |-> <<>>]
  OBVIOUS
<1>9. /\ Len(stack) = l /\ stack = [d \in 1 .. l |-> stack[d]] /\ (stack = <<>> <=> c = <<>>)
      /\ l \in Nat /\ \A d \in 1 .. l : stack[d] = F[c[d]]
      /\ c # <<>> => Last(c) \in Begins /\ Node = F[Last(c)]
  BY <1>2, <1>3, <1>6, <1>7, StackIs
<1>10. /\ Begins' = Begins \cup {x} /\ x \notin Begins /\ Begins \subseteq 1 .. x - 1
       /\ \A i \in Begins : Tokens[i].tag = "begin"
  BY <1>1, <1>2, <1>4, Onward
<1>11. Tokens[x].tag = "begin" /\ Chain(x) = Append(c, x)
  BY <1>1, <1>2, <1>4, <1>6, ChainIs
<1>12. /\ Len(Chain(x)) = l + 1 /\ Chain(x)[l + 1] = x /\ Front(Chain(x)) = c
       /\ \A d \in 1 .. l : Chain(x)[d] = c[d]
  BY <1>7, <1>11, SeqFacts
<1>13. PICK G : G = [i \in Nat |-> IF i = x THEN n ELSE F[i]]
  OBVIOUS
<1>14. G[x] = n /\ \A i \in Nat : i # x => G[i] = F[i]
  BY <1>13
<1>15. stack' = [d \in 1 .. l + 1 |-> G[Chain(x)[d]]]
  <2>1. PICK s : s = stack
    OBVIOUS
  <2>2. s = [d \in 1 .. l |-> s[d]] /\ \A d \in 1 .. l : s[d] = F[c[d]]
    BY <1>9, <2>1
  <2>3. Append(s, n) = [d \in 1 .. l + 1 |-> IF d = l + 1 THEN n ELSE s[d]]
    BY <1>9, <2>2, AsFunction
  <2>4. stack' = Append(s, n)
    BY <1>1, <1>8, <2>1
  <2>5. ASSUME NEW d \in 1 .. l + 1 PROVE (IF d = l + 1 THEN n ELSE s[d]) = G[Chain(x)[d]]
    <3>1. CASE d = l + 1
      BY <1>12, <1>14, <3>1
    <3>2. CASE d # l + 1
      <4>1. d \in 1 .. l
        BY <1>9, <3>2
      <4>2. c[d] \in 1 .. x - 1
        BY <1>2, <1>4, <1>6, <1>7, <4>1, ChainsNested DEF Nested
      <4>3. c[d] \in Nat /\ c[d] # x
        BY <4>2
      <4> QED
        BY <1>12, <1>14, <2>2, <3>2, <4>1, <4>3
    <3> QED
      BY <3>1, <3>2
  <2> QED
    BY <2>3, <2>4, <2>5
<1>16. ASSUME NEW i \in Begins PROVE IsNode(G, i)'
  <2>1. \A name : Props(i, name)' = Props(i, name)
    BY <1>1, <1>2, Onward
  <2>2. \A name : Kids(i, name)' = Kids(i, name)
    BY <1>1, <1>2, KidsOnward
  <2>3. IsNode(F, i)
    BY <1>3 DEF Nodes
  <2>4. \A j \in Begins : G[j] = F[j]
    BY <1>10, <1>14
  <2>5. \A name : \A j \in Kids(i, name) : G[j] = F[j]
    BY <2>4, KidsAre
  <2> QED
    BY <1>1, <1>2, <2>1, <2>2, <2>3, <2>4, <2>5, KeepsNode
<1>17. IsNode(G, x)'
  <2>1. \A name : Props(x, name)' = {} /\ Kids(x, name)' = {}
    BY <1>1, <1>2, <1>4, <1>11, NothingYet
  <2>2. /\ n = [name |-> n.name, cells |-> n.cells, properties |-> n.properties, children |-> n.children]
        /\ n.name = Token.name /\ n.properties = <<>> /\ n.children = <<>>
        /\ n.cells = IF stack = <<>> THEN DefaultCells ELSE ChildCells(Node)
    BY <1>8
  <2>3. ASSUME Len(Chain(x)) > 1 PROVE n.cells.address = AddressCells(x)'
    <3>1. c # <<>> /\ stack # <<>>
      BY <1>7, <1>9, <1>12, <2>3
    <3>2. PICK t : t = Last(c)
      OBVIOUS
    <3>3. t \in Begins /\ n.cells = ChildCells(F[t]) /\ IsNode(F, t)
      BY <1>3, <1>9, <2>2, <3>1, <3>2 DEF Nodes
    <3>4. n.cells.address = Number(F[t], "#address-cells", 2)
      BY <3>3 DEF ChildCells, DefaultCells
    <3>5. PICK P : P = Props(t, "#address-cells")
      OBVIOUS
    <3>6. /\ "#address-cells" \in DOMAIN F[t].properties <=> P # {}
          /\ P # {} => F[t].properties["#address-cells"] = Tokens[First(P)].value
      BY <3>3, <3>5 DEF IsNode, Value
    <3>7. n.cells.address = Stated(P, 2)
      BY <3>4, <3>6 DEF Number, Stated
    <3>8. Props(t, "#address-cells")' = P /\ P \subseteq 1 .. x - 1
      BY <1>1, <1>2, <1>4, <3>5, Onward
    <3>9. {k \in P : k < x} = P
      <4>1. P \subseteq 1 .. x - 1
        BY <3>8
      <4>2. \A k \in P : k < x
        BY <4>1
      <4> QED
        BY <4>2
    <3>10. Last(Front(Chain(x)))' = t
      BY <1>5, <1>12, <3>2
    <3>11. AddressCells(x)' = Stated({k \in P : k < x}, 2)'
      BY <3>8, <3>10 DEF AddressCells
    <3>12. Stated({k \in P : k < x}, 2)' = Stated(P, 2)
      BY <1>5, <3>9 DEF Stated
    <3> QED
      BY <3>7, <3>11, <3>12
  <2> QED
    BY <1>2, <1>4, <1>5, <1>14, <2>1, <2>2, <2>3, NoChild DEF IsNode
<1>18. Nodes(G)'
  <2>1. \A i \in Begins' : IsNode(G, i)'
    BY <1>10, <1>16, <1>17
  <2>2. Chain(pos - 1)' = Chain(x) /\ Len(Chain(x)) = l + 1
    BY <1>2, <1>4, <1>12
  <2> QED
    BY <1>15, <2>1, <2>2 DEF Nodes
<1>19. \A i \in Begins' : Chain(x) # <<>> /\ Chain(i)[1] = Chain(x)[1]
  <2>1. Chain(x) # <<>>
    BY <1>7, <1>11, SeqFacts
  <2>2. ASSUME NEW i \in Begins PROVE Chain(i)[1] = Chain(x)[1]
    <3>1. c # <<>> /\ Chain(i)[1] = c[1]
      BY <1>6 DEF Reading
    <3>2. 1 \in 1 .. l
      BY <1>7, <1>9, <3>1
    <3> QED
      BY <1>12, <3>1, <3>2
  <2> QED
    BY <1>10, <2>1, <2>2
<1>20. (\A i \in Begins : Chain(pos - 1) # <<>> /\ Chain(i)[1] = Chain(pos - 1)[1])'
  BY <1>2, <1>4, <1>5, <1>19
<1>21. root' = {}
  BY <1>1 DEF Reading
<1> QED
  BY <1>1, <1>2, <1>18, <1>20, <1>21 DEF Reading

\* The complete children of a node begin before the one it is reading.
LEMMA KidsBefore ==
  ASSUME pos \in Nat \ {0}, Chain(pos - 1) # <<>>, NEW x, x = Last(Chain(pos - 1)),
         NEW y, Chain(x - 1) = Chain(y), NEW name
  PROVE  Kids(y, name) \subseteq 1 .. x - 1
<1>1. pos - 1 \in Nat
  OBVIOUS
<1>2. PICK c \in Seq(Nat) : c = Chain(pos - 1)
  BY <1>1, ChainIs
<1>3. x = c[Len(c)] /\ Len(c) \in 1 .. Len(c)
  BY <1>2, SeqFacts
<1>4. x \in 1 .. pos - 1 /\ \A m \in x .. pos - 1 : OnChain(x, m)
  BY <1>1, <1>2, <1>3, ChainsNested DEF Nested
<1>5. x - 1 \in Nat /\ x \in Nat
  BY <1>4
<1>6. ~ OnChain(x, x - 1)
  <2>1. \A d \in 1 .. Len(Chain(x - 1)) : Chain(x - 1)[d] \in 1 .. x - 1
    BY <1>5, ChainsNested DEF Nested
  <2>2. x \notin 1 .. x - 1
    BY <1>5
  <2> QED
    BY <2>1, <2>2 DEF OnChain
<1> SUFFICES ASSUME NEW j \in Kids(y, name) PROVE j \in 1 .. x - 1
  OBVIOUS
<1>7. j \in 1 .. pos - 1 /\ Chain(j - 1) = Chain(x - 1) /\ j # x
  <2>1. j # x
    BY OpenNode
  <2> QED
    BY <2>1 DEF Kids, Begins, Read
<1>8. ~ OnChain(x, j - 1)
  BY <1>6, <1>7 DEF OnChain
<1>9. ~ (x < j)
  <2> SUFFICES ASSUME x < j PROVE FALSE
    OBVIOUS
  <2>1. j - 1 \in x .. pos - 1
    BY <1>5, <1>7, <1>1
  <2> QED
    BY <1>4, <1>8, <2>1
<1> QED
  BY <1>5, <1>7, <1>9

\* An end completes the node that the token is in.
LEMMA EndedNode ==
  ASSUME Reading, ParseEnd
  PROVE  /\ Token = Tokens[pos] /\ Token.tag = "end" /\ pos \in Nat \ {0} /\ pos - 1 \in Nat
         /\ pos' - 1 = pos /\ blob' = blob /\ pos' = pos + 1
         /\ WellFormed(Tokens)' /\ pos' \in 1 .. Len(Tokens)'
         /\ Chain(pos - 1)' = Chain(pos) /\ Begins' = Begins
         /\ Chain(pos - 1) \in Seq(Nat) /\ Chain(pos - 1) # <<>>
         /\ Chain(pos) = Front(Chain(pos - 1))
         /\ Len(Chain(pos - 1)) = Len(stack) /\ Len(stack) \in Nat /\ Len(stack) # 0
         /\ Last(Chain(pos - 1)) \in Begins
         /\ Chain(Last(Chain(pos - 1)) - 1) = Chain(pos)
<1>1. Token.tag = "end" /\ blob' = blob /\ pos' = pos + 1 /\ stack # <<>>
  BY DEF ParseEnd, Parsing
<1>2. /\ Token = Tokens[pos] /\ pos \in Nat \ {0} /\ pos - 1 \in Nat /\ pos' - 1 = pos
      /\ WellFormed(Tokens)' /\ pos' \in 1 .. Len(Tokens)'
      /\ Chain(pos - 1)' = Chain(pos) /\ Chain(pos - 1) \in Seq(Nat)
  BY <1>1, TokenRead
<1>3. PICK F : Nodes(F)
  BY DEF Reading
<1>4. /\ Chain(pos - 1) # <<>> /\ Len(Chain(pos - 1)) = Len(stack)
      /\ Len(stack) \in Nat /\ Last(Chain(pos - 1)) \in Begins
  BY <1>1, <1>2, <1>3, StackIs
<1>5. Len(stack) # 0
  BY <1>2, <1>4, SeqFacts
<1>6. Chain(pos) = Front(Chain(pos - 1)) /\ Begins' = Begins
  BY <1>1, <1>2, ChainIs, Onward
<1>7. PICK x : x = Last(Chain(pos - 1))
  OBVIOUS
<1>8. x \in Nat \ {0} /\ Tokens[x].tag = "begin"
  BY <1>1, <1>2, <1>4, <1>7, Onward
<1>9. Chain(x) = Chain(pos - 1)
  BY <1>2, <1>4, <1>7, Innermost
<1>10. Chain(x - 1) = Chain(pos)
  BY <1>6, <1>8, <1>9, OwnChain
<1> QED
  BY <1>1, <1>2, <1>4, <1>5, <1>6, <1>7, <1>10

\* The root's end ends the tree.
LEMMA ReadRoot ==
  ASSUME Reading, ParseEnd, Len(stack) = 1
  PROVE  /\ WellFormed(Tokens)' /\ pos' \in 1 .. Len(Tokens)'
         /\ \E F, r : Complete(F, r)'
<1>1. PICK c : c = Chain(pos - 1)
  OBVIOUS
<1>2. PICK x : x = Last(c)
  OBVIOUS
<1>3. /\ Token = Tokens[pos] /\ Token.tag = "end" /\ pos \in Nat \ {0} /\ pos - 1 \in Nat
      /\ pos' - 1 = pos /\ blob' = blob /\ pos' = pos + 1
      /\ WellFormed(Tokens)' /\ pos' \in 1 .. Len(Tokens)'
      /\ Chain(pos - 1)' = Chain(pos) /\ Begins' = Begins
      /\ c \in Seq(Nat) /\ c # <<>> /\ Chain(pos) = Front(c) /\ Len(c) = 1
      /\ x \in Begins /\ Chain(x - 1) = Chain(pos)
  BY <1>1, <1>2, EndedNode
<1>4. Chain(pos) = <<>> /\ c[1] = x
  <2>1. Len(Front(c)) = 0 /\ Front(c) \in Seq(Nat) /\ Last(c) = c[1]
    <3>1. c \in Seq(Nat) /\ c # <<>> /\ Len(c) = 1
      BY <1>3
    <3>2. Len(Front(c)) = Len(c) - 1 /\ Front(c) \in Seq(Nat) /\ Last(c) = c[Len(c)]
      BY <3>1, SeqFacts
    <3> QED
      BY <3>1, <3>2
  <2> QED
    BY <1>2, <1>3, <2>1
<1>5. PICK F : Nodes(F)
  BY DEF Reading
<1>6. root' = {F[x]}
  <2>1. root' = {Node}
    BY DEF ParseEnd
  <2>2. Node = F[x]
    BY <1>1, <1>2, <1>3, <1>5, StackIs
  <2> QED
    BY <2>1, <2>2
<1>7. Tokens' = Tokens /\ \A k : Chain(k)' = Chain(k)
  BY <1>3, ChainStays
<1>8. ASSUME NEW i \in Begins PROVE IsNode(F, i)' /\ Chain(i)[1] = x
  <2>1. i \in Nat \ {0} /\ Tokens[i].tag = "begin"
    BY <1>3, Onward
  <2>2. Chain(i) # <<>>
    BY <2>1, OwnChain
  <2>3. \A name : Kids(i, name)' = Kids(i, name)
    BY <1>1, <1>2, <1>3, <1>4, <2>2, KidsOnward
  <2>4. \A name : Props(i, name)' = Props(i, name)
    BY <1>3, Onward
  <2>5. IsNode(F, i)
    BY <1>5 DEF Nodes
  <2>6. IsNode(F, i)'
    BY <1>3, <2>3, <2>4, <2>5, KeepsNode
  <2>7. Chain(i)[1] = c[1]
    BY <1>1 DEF Reading
  <2> QED
    BY <1>4, <2>6, <2>7
<1>9. Complete(F, x)'
  BY <1>3, <1>4, <1>6, <1>7, <1>8 DEF Complete
<1> QED
  BY <1>3, <1>9

\* Any other end puts the node among the children of the one around it.
LEMMA ReadEnd ==
  ASSUME Reading, ParseEnd, Len(stack) # 1 PROVE Reading'
<1>1. PICK c : c = Chain(pos - 1)
  OBVIOUS
<1>2. PICK x : x = Last(c)
  OBVIOUS
<1>3. /\ Token = Tokens[pos] /\ Token.tag = "end" /\ pos \in Nat \ {0} /\ pos - 1 \in Nat
      /\ pos' - 1 = pos /\ blob' = blob /\ pos' = pos + 1
      /\ WellFormed(Tokens)' /\ pos' \in 1 .. Len(Tokens)'
      /\ Chain(pos - 1)' = Chain(pos) /\ Begins' = Begins
      /\ c \in Seq(Nat) /\ c # <<>> /\ Chain(pos) = Front(c) /\ Len(c) = Len(stack)
      /\ Len(stack) \in Nat /\ Len(stack) # 0
      /\ x \in Begins /\ Chain(x - 1) = Chain(pos)
  BY <1>1, <1>2, EndedNode
<1>4. PICK l : l = Len(c)
  OBVIOUS
<1>5. l \in Nat /\ l > 1 /\ l - 1 \in Nat \ {0} /\ l - 2 \in Nat
  BY <1>3, <1>4
<1>6. PICK e : e = Chain(pos)
  OBVIOUS
<1>7. /\ e \in Seq(Nat) /\ Len(e) = l - 1 /\ e # <<>> /\ \A d \in 1 .. l - 1 : e[d] = c[d]
      /\ x = c[l]
  <2>1. /\ e = Front(c) /\ c \in Seq(Nat) /\ c # <<>>
    BY <1>3, <1>6
  <2>2. /\ e \in Seq(Nat) /\ Len(e) = Len(c) - 1 /\ Last(c) = c[Len(c)]
        /\ \A d \in 1 .. Len(c) - 1 : e[d] = c[d]
    BY <2>1, SeqFacts
  <2>3. Len(e) # 0
    BY <1>4, <1>5, <2>2
  <2> QED
    BY <1>2, <1>4, <2>2, <2>3
<1>8. PICK y : y = Last(e)
  OBVIOUS
<1>9. /\ y = e[l - 1] /\ y \in 1 .. pos /\ Tokens[y].tag = "begin" /\ Chain(y) = e
  <2>1. e # <<>> /\ e = Chain(pos) /\ pos \in Nat
    BY <1>3, <1>6, <1>7
  <2>2. y \in 1 .. pos /\ Tokens[y].tag = "begin" /\ Chain(y) = e
    BY <1>8, <2>1, Innermost
  <2>3. y = e[Len(e)]
    BY <1>7, <1>8, SeqFacts
  <2> QED
    BY <1>7, <2>2, <2>3
<1>10. y \in Begins /\ y \in Nat \ {0} /\ y # pos
  <2>1. y # pos
    BY <1>3, <1>9
  <2>2. y \in 1 .. pos - 1
    BY <1>3, <1>9, <2>1
  <2> QED
    BY <1>9, <2>2 DEF Begins, Read
<1>11. PICK F : Nodes(F)
  BY DEF Reading
<1>12. PICK n : n = WithChild(F[y], F[x])
  OBVIOUS
<1>13. PICK G : G = [i \in Nat |-> IF i = y THEN n ELSE F[i]]
  OBVIOUS
<1>14. G[y] = n /\ \A i \in Nat : i # y => G[i] = F[i]
  BY <1>10, <1>13
<1>15. /\ x = Last(Chain(pos - 1)) /\ x \in Nat /\ x < pos /\ x # y
       /\ OnChain(y, pos - 1)
  <2>1. x \in 1 .. pos - 1
    BY <1>3, Onward
  <2>2. l - 1 \in 1 .. l /\ l \in 1 .. l /\ l - 1 # l /\ l - 1 \in 1 .. l - 1
    BY <1>5
  <2>3. y = c[l - 1]
    BY <1>7, <1>9, <2>2
  <2>4. x # y
    BY <1>1, <1>3, <1>4, <1>7, <2>2, <2>3, ChainGrows
  <2>5. OnChain(y, pos - 1)
    BY <1>1, <1>4, <2>2, <2>3 DEF OnChain
  <2> QED
    BY <1>1, <1>2, <1>3, <2>1, <2>4, <2>5
<1>16. Tokens' = Tokens /\ \A k : Chain(k)' = Chain(k)
  BY <1>3, ChainStays
<1>17. /\ Node = F[x] /\ stack = [d \in 1 .. l |-> stack[d]] /\ \A d \in 1 .. l : stack[d] = F[c[d]]
  BY <1>1, <1>2, <1>3, <1>4, <1>11, StackIs
<1>18. stack' = [d \in 1 .. l - 1 |-> G[e[d]]]
  <2>1. PICK s : s = stack
    OBVIOUS
  <2>2. s = [d \in 1 .. l |-> s[d]] /\ \A d \in 1 .. l : s[d] = F[c[d]]
    BY <1>17, <2>1
  <2>3. PICK f : f = Front(s)
    OBVIOUS
  <2>4. PICK h, m : h = l - 1 /\ m = l - 2
    OBVIOUS
  <2>5. h \in Nat /\ h # 0 /\ m \in Nat /\ h - 1 = m /\ m + 1 = h /\ l - 1 = h /\ l # 0
    BY <1>5, <2>4
  <2>6. f = [d \in 1 .. h |-> s[d]]
    <3>1. l \in Nat /\ l # 0 /\ s = [d \in 1 .. l |-> s[d]]
      BY <1>5, <2>2, <2>5
    <3>2. Front(s) = [d \in 1 .. l - 1 |-> s[d]]
      BY <3>1, AsFunction, Zenon
    <3> QED
      BY <2>3, <2>5, <3>2
  <2>7. f = [d \in 1 .. h |-> f[d]] /\ \A d \in 1 .. h : f[d] = s[d]
    BY <2>6
  <2>8. PICK g : g = Front(f)
    OBVIOUS
  <2>9. g = [d \in 1 .. m |-> f[d]]
    <3>1. Front(f) = [d \in 1 .. h - 1 |-> f[d]]
      <4>1. h \in Nat /\ h # 0 /\ f = [d \in 1 .. h |-> f[d]]
        BY <2>5, <2>7
      <4> QED
        BY <4>1, AsFunction, Zenon
    <3> QED
      BY <2>5, <2>8, <3>1
  <2>10. g = [d \in 1 .. m |-> g[d]] /\ \A d \in 1 .. m : g[d] = f[d]
    BY <2>9
  <2>11. Append(g, n) = [d \in 1 .. m + 1 |-> IF d = m + 1 THEN n ELSE g[d]]
    BY <2>5, <2>10, AsFunction
  <2>12. stack' = Append(g, n)
    <3>1. stack' = Append(Front(Front(stack)), WithChild(stack[Len(stack) - 1], Node))
      BY <1>3, <1>4, <1>5 DEF ParseEnd
    <3>2. Len(stack) - 1 = h /\ h \in 1 .. l /\ h \in 1 .. l - 1
      BY <1>3, <1>4, <1>5, <2>4
    <3>3. stack[h] = F[y]
      BY <1>7, <1>9, <1>17, <2>4, <3>2
    <3> QED
      BY <1>12, <1>17, <2>1, <2>3, <2>8, <3>1, <3>2, <3>3
  <2>13. ASSUME NEW d \in 1 .. h PROVE (IF d = h THEN n ELSE g[d]) = G[e[d]]
    <3>1. CASE d = h
      BY <1>9, <1>14, <2>5, <3>1
    <3>2. CASE d # h
      <4>1. d \in 1 .. m /\ d \in 1 .. l /\ h \in 1 .. l /\ d \in 1 .. l - 1 /\ h \in 1 .. l - 1
        BY <1>5, <2>4, <3>2
      <4>2. c[d] # y
        <5>1. c[d] # c[h]
          BY <1>1, <1>3, <1>4, <3>2, <4>1, ChainGrows
        <5> QED
          BY <1>7, <1>9, <2>4, <4>1, <5>1
      <4>3. c[d] \in Nat
        <5>1. c \in Seq(Nat) /\ d \in 1 .. Len(c)
          BY <1>3, <1>4, <4>1
        <5> QED
          BY <5>1, SeqFacts
      <4>4. g[d] = F[c[d]]
        BY <2>2, <2>7, <2>10, <4>1
      <4> QED
        BY <1>7, <1>14, <3>2, <4>1, <4>2, <4>3, <4>4
    <3> QED
      BY <3>1, <3>2
  <2> QED
    BY <2>5, <2>11, <2>12, <2>13
<1>19. ASSUME NEW i \in Begins PROVE IsNode(G, i)'
  <2>1. i \in Nat \ {0} /\ Tokens[i].tag = "begin" /\ IsNode(F, i)
    BY <1>3, <1>11, Onward DEF Nodes
  <2>2. \A name : Props(i, name)' = Props(i, name)
    BY <1>3, Onward
  <2>3. \A name : \A j \in Kids(i, name) : G[j] = F[j]
    <3> SUFFICES ASSUME NEW name, NEW j \in Kids(i, name) PROVE G[j] = F[j]
      OBVIOUS
    <3>1. j \in Nat /\ ~ OnChain(j, pos - 1)
      BY KidsAre DEF Kids
    <3> QED
      BY <1>14, <1>15, <3>1
  <2>4. CASE i # y
    <3>1. Chain(i) # e
      BY <1>9, <1>10, <2>1, <2>4, ChainOwned
    <3>2. \A name : Kids(i, name)' = Kids(i, name)
      BY <1>1, <1>2, <1>3, <1>6, <3>1, KidsOnward
    <3>3. G[i] = F[i]
      BY <1>14, <2>1, <2>4
    <3> QED
      BY <1>3, <2>1, <2>2, <2>3, <3>2, <3>3, KeepsNode
  <2>5. CASE i = y
    <3>1. PICK name, C, D : name = Tokens[x].name /\ C = F[y].children /\ D = Emplace(C, name, F[x])
      OBVIOUS
    <3>2. F[x].name = name
      <4>1. IsNode(F, x)
        BY <1>3, <1>11 DEF Nodes
      <4> QED
        BY <3>1, <4>1 DEF IsNode
    <3>3. n = [F[y] EXCEPT !.children = D]
      BY <1>12, <3>1, <3>2 DEF WithChild
    <3>4. /\ F[y] = [name |-> F[y].name, cells |-> F[y].cells,
                     properties |-> F[y].properties, children |-> F[y].children]
          /\ F[y].name = Tokens[y].name
          /\ Len(Chain(y)) > 1 => F[y].cells.address = AddressCells(y)
          /\ \A m : m \in DOMAIN F[y].properties <=> Props(y, m) # {}
          /\ \A m : Props(y, m) # {} => F[y].properties[m] = Value(y, m)
          /\ \A m : m \in DOMAIN C <=> Kids(y, m) # {}
          /\ \A m : Kids(y, m) # {} => C[m] = F[First(Kids(y, m))]
      BY <2>1, <2>5, <3>1 DEF IsNode
    <3>5. /\ n = [name |-> n.name, cells |-> n.cells, properties |-> n.properties, children |-> n.children]
          /\ n.name = F[y].name /\ n.cells = F[y].cells /\ n.properties = F[y].properties /\ n.children = D
      BY <3>3, <3>4
    <3>6. /\ \A m : m \in DOMAIN D <=> m \in DOMAIN C \/ m = name
          /\ \A m : m \in DOMAIN C => D[m] = C[m]
          /\ name \notin DOMAIN C => D[name] = F[x]
      BY <3>1, Emplaced
    <3>7. /\ \A m : m # name => Kids(y, m)' = Kids(y, m)
          /\ Kids(y, name)' = Kids(y, name) \cup {x}
      BY <1>1, <1>2, <1>3, <1>6, <1>9, <3>1, KidsOnward
    <3>8. \A m : m \in DOMAIN D <=> Kids(y, m)' # {}
      BY <3>4, <3>6, <3>7
    <3>9. ASSUME NEW m, Kids(y, m)' # {} PROVE D[m] = G[First(Kids(y, m)')]
      <4>1. Kids(y, m) # {} => G[First(Kids(y, m))] = F[First(Kids(y, m))]
        BY <2>3, <2>5, FirstIs, KidsAre
      <4>2. CASE m # name
        BY <3>4, <3>6, <3>7, <3>9, <4>1, <4>2
      <4>3. CASE m = name /\ Kids(y, m) # {}
        <5>1. First(Kids(y, m)') = First(Kids(y, m))
          <6>1. Kids(y, m) \subseteq 1 .. x - 1
            BY <1>1, <1>3, <1>6, <1>9, <1>15, KidsBefore
          <6> QED
            BY <1>15, <3>7, <4>3, <6>1, FirstStays
        <5> QED
          BY <3>4, <3>6, <4>1, <4>3, <5>1
      <4>4. CASE m = name /\ Kids(y, m) = {}
        <5>1. First(Kids(y, m)') = x
          BY <3>7, <4>4, FirstOfOne
        <5>2. G[x] = F[x]
          BY <1>14, <1>15
        <5> QED
          BY <3>4, <3>6, <4>4, <5>1, <5>2
      <4> QED
        BY <4>2, <4>3, <4>4
    <3>10. AddressCells(y)' = AddressCells(y) /\ \A m : Value(y, m)' = Value(y, m)
      BY <1>3, <1>10, <2>2, <2>5, Onward DEF Value
    <3> QED
      BY <1>14, <1>16, <2>2, <2>5, <3>4, <3>5, <3>8, <3>9, <3>10 DEF IsNode
  <2> QED
    BY <2>4, <2>5
<1>20. Nodes(G)'
  BY <1>3, <1>6, <1>7, <1>18, <1>19 DEF Nodes
<1>21. \A i \in Begins : e # <<>> /\ Chain(i)[1] = e[1]
  <2>1. 1 \in 1 .. l - 1
    BY <1>5
  <2>2. e[1] = c[1]
    BY <1>7, <2>1
  <2> QED
    BY <1>1, <1>7, <2>2 DEF Reading
<1>22. (\A i \in Begins : Chain(pos - 1) # <<>> /\ Chain(i)[1] = Chain(pos - 1)[1])'
  BY <1>3, <1>6, <1>16, <1>21
<1>23. root' = {}
  BY <1>3, <1>4, <1>5 DEF ParseEnd, Reading
<1> QED
  BY <1>3, <1>20, <1>22, <1>23 DEF Reading

-----------------------------------------------------------------------------
(* Paths.                                                                   *)

\* The nodes that are reached from nodes s by the name of a path's step d.
Deeper(s, path, d) ==
  {n.children[path[d]] : n \in {m \in s : path[d] \in DOMAIN m.children}}

Reaches(at, path) ==
  /\ at[0] = root
  /\ \A d \in 1 .. Len(path) : at[d] = Deeper(at[d - 1], path, d)

\* From nodes of the tree one gets to nodes of the tree.
LEMMA DeeperIs ==
  ASSUME NEW F, NEW r, Complete(F, r), NEW s, s \subseteq {F[i] : i \in Begins},
         NEW path, NEW d
  PROVE  Deeper(s, path, d) \subseteq {F[i] : i \in Begins}
<1> SUFFICES ASSUME NEW m \in s, path[d] \in DOMAIN m.children
             PROVE  m.children[path[d]] \in {F[i] : i \in Begins}
  BY DEF Deeper
<1>1. PICK i \in Begins : m = F[i]
  OBVIOUS
<1>2. IsNode(F, i)
  BY DEF Complete
<1>3. PICK K : K = Kids(i, path[d])
  OBVIOUS
<1>4. K # {} /\ m.children[path[d]] = F[First(K)]
  BY <1>1, <1>2, <1>3 DEF IsNode
<1>5. First(K) \in Begins
  BY <1>3, <1>4, KidsAre, FirstIs
<1> QED
  BY <1>4, <1>5

LEMMA NodesAtIs ==
  ASSUME NEW F, NEW r, Complete(F, r), NEW path, Len(path) \in Nat
  PROVE  \E at : Reaches(at, path) /\ NodesAt(path) = at[Len(path)]
<1> DEFINE P(s) == s = [d \in 0 .. Len(path) |->
                          IF d = 0 THEN root
                          ELSE {n.children[path[d]] : n \in {m \in s[d - 1] : path[d] \in DOMAIN m.children}}]
           at   == CHOOSE s : P(s)
           S    == SUBSET {F[i] : i \in Begins}
           deeper == [p \in Nat \X S |-> Deeper(p[2], path, p[1])]
<1>1. NodesAt(path) = at[Len(path)]
  BY Zenon DEF NodesAt
<1>2. \E s : P(s)
  <2>1. root \in S
    BY DEF Complete
  <2>2. \A k \in Nat, s \in S : Deeper(s, path, k) \in S
    BY DeeperIs
  <2>3. deeper \in [Nat \X S -> S] /\ \A k \in Nat, s \in S : deeper[<<k, s>>] = Deeper(s, path, k)
    BY <2>2
  <2> HIDE DEF deeper, S
  <2>4. PICK s \in [0 .. Len(path) -> S] : Stepwise(s, Len(path), root, deeper)
    BY <2>1, <2>3, StepsExist
  <2>5. \A d \in 1 .. Len(path) : s[d] = Deeper(s[d - 1], path, d)
    <3> SUFFICES ASSUME NEW d \in 1 .. Len(path) PROVE s[d] = Deeper(s[d - 1], path, d)
      OBVIOUS
    <3>1. s[d] = deeper[<<d, s[d - 1]>>] /\ d \in Nat
      BY <2>4 DEF Stepwise
    <3>2. s[d - 1] \in S
      BY <2>4
    <3> QED
      BY <2>3, <3>1, <3>2
  <2>6. s[0] = root
    BY <2>4 DEF Stepwise
  <2>7. \A d \in 0 .. Len(path) : d # 0 => d \in 1 .. Len(path)
    OBVIOUS
  <2>8. \A d \in 0 .. Len(path) :
          s[d] = IF d = 0 THEN root
                 ELSE {n.children[path[d]] : n \in {m \in s[d - 1] : path[d] \in DOMAIN m.children}}
    BY <2>5, <2>6, <2>7, Zenon DEF Deeper
  <2>9. P(s)
    BY <2>4, <2>8
  <2> QED
    BY <2>9
<1>3. P(at)
  BY <1>2, Zenon
<1> HIDE DEF at
<1>4. Reaches(at, path)
  <2>1. \A d \in 1 .. Len(path) : d \in 0 .. Len(path) /\ d # 0
    OBVIOUS
  <2>2. at[0] = root
    BY <1>3
  <2>3. \A d \in 1 .. Len(path) : at[d] = Deeper(at[d - 1], path, d)
    BY <1>3, <2>1 DEF Deeper
  <2> QED
    BY <2>2, <2>3 DEF Reaches
<1> QED
  BY <1>1, <1>4

\* A node that does not come after a sibling of its name is found.
LEMMA ForemostFound ==
  ASSUME NEW F, NEW r, Complete(F, r), pos \in Nat \ {0}, NEW i \in Begins, Foremost(i)
  PROVE  NodesAt(Names(i)) = {F[i]}
<1>1. i \in 1 .. pos - 1 /\ i \in Nat \ {0} /\ Tokens[i].tag = "begin" /\ pos - 1 \in Nat
  BY DEF Begins, Read
<1>2. PICK c \in Seq(Nat) : c = Chain(i)
  BY <1>1, ChainIs
<1>3. PICK h : h = Len(c) - 1
  OBVIOUS
<1>4. Len(c) \in Nat /\ h \in Nat /\ Len(c) = h + 1 /\ c[h + 1] = i
  <2>1. /\ Chain(i) # <<>> /\ Chain(i)[Len(Chain(i))] = i
        /\ Len(Chain(i)) = Len(Chain(i - 1)) + 1 /\ Chain(i - 1) \in Seq(Nat)
    BY <1>1, OwnChain
  <2>2. Len(Chain(i - 1)) \in Nat
    BY <2>1, SeqFacts
  <2> QED
    BY <1>2, <1>3, <2>1, <2>2
<1>5. PICK path : path = Names(i)
  OBVIOUS
<1>6. Len(path) = h /\ \A d \in 1 .. h : path[d] = Tokens[c[d + 1]].name
  <2>1. path = [d \in 1 .. h |-> Tokens[c[d + 1]].name]
    BY <1>2, <1>3, <1>5 DEF Names
  <2>2. path = [d \in 1 .. h |-> path[d]] /\ \A d \in 1 .. h : path[d] = Tokens[c[d + 1]].name
    BY <2>1
  <2> QED
    BY <1>4, <2>2, AsFunction
<1>7. PICK at : Reaches(at, path) /\ NodesAt(path) = at[h]
  BY <1>4, <1>6, NodesAtIs
<1> DEFINE T == {d \in Nat : d <= h => at[d] = {F[c[d + 1]]}}
<1>8. 0 \in T
  <2>1. at[0] = {F[r]} /\ c[1] = r
    BY <1>2, <1>7 DEF Reaches, Complete
  <2> QED
    BY <2>1
<1>9. ASSUME NEW d \in Nat, d \in T PROVE d + 1 \in T
  <2> SUFFICES ASSUME d + 1 <= h PROVE at[d + 1] = {F[c[d + 2]]}
    OBVIOUS
  <2>1. d + 1 \in 1 .. h /\ (d + 1) - 1 = d /\ d <= h /\ (d + 1) + 1 = d + 2
    BY <1>4
  <2>2. PICK u, v, name : u = c[d + 1] /\ v = c[d + 2] /\ name = path[d + 1]
    OBVIOUS
  <2>3. at[d] = {F[u]} /\ at[d + 1] = Deeper({F[u]}, path, d + 1)
    <3>1. at[d] = {F[u]}
      BY <1>9, <2>1, <2>2
    <3>2. at[d + 1] = Deeper(at[(d + 1) - 1], path, d + 1)
      BY <1>6, <1>7, <2>1 DEF Reaches
    <3> QED
      BY <2>1, <3>1, <3>2
  <2>4. name = Tokens[v].name
    BY <1>6, <2>1, <2>2
  <2>5. d + 1 \in 1 .. Len(c) /\ d + 2 \in 1 .. Len(c)
    BY <1>4, <2>1
  <2>6. /\ u \in 1 .. i /\ Tokens[u].tag = "begin" /\ Chain(u) = SubSeq(c, 1, d + 1)
        /\ v \in 1 .. i /\ Tokens[v].tag = "begin" /\ Chain(v) = SubSeq(c, 1, d + 2)
    BY <1>1, <1>2, <2>2, <2>5, ChainsNested DEF Nested
  <2>7. u \in Begins /\ v \in Begins /\ v \in Nat \ {0} /\ u \in Nat \ {0}
    <3>1. u \in 1 .. pos - 1 /\ v \in 1 .. pos - 1
      BY <1>1, <2>6
    <3> QED
      BY <2>6, <3>1 DEF Begins, Read
  <2>8. Chain(v - 1) = Chain(u) /\ Front(Chain(v)) = Chain(u)
    <3>1. Front(Chain(v)) = Chain(v - 1)
      BY <2>6, <2>7, OwnChain
    <3>2. PICK m : m = d + 2
      OBVIOUS
    <3>3. m \in Nat /\ m <= Len(c) /\ m - 1 = d + 1
      BY <1>4, <2>5, <3>2
    <3>4. Len(SubSeq(c, 1, m)) = m
      BY <3>3
    <3>5. SubSeq(SubSeq(c, 1, m), 1, m - 1) = SubSeq(c, 1, m - 1)
      BY <3>3
    <3>6. Front(Chain(v)) = SubSeq(c, 1, d + 1)
      BY <2>6, <3>2, <3>3, <3>4, <3>5 DEF Front
    <3> QED
      BY <2>6, <3>1, <3>6
  <2>9. PICK K : K = Kids(u, name)
    OBVIOUS
  <2>10. v \in K /\ K \subseteq Nat
    <3>1. ~ OnChain(v, pos - 1)
      BY DEF OnChain, Complete
    <3> QED
      BY <2>4, <2>7, <2>8, <2>9, <3>1, KidsAre DEF Kids
  <2>11. \A j \in K : v <= j
    <3> SUFFICES ASSUME NEW j \in K, j < v PROVE FALSE
      BY <2>7, <2>10
    <3>1. j \in Begins /\ Tokens[j].name = Tokens[v].name /\ Chain(j - 1) = Chain(u)
      BY <2>4, <2>9 DEF Kids
    <3>2. j \in Nat \ {0} /\ Tokens[j].tag = "begin"
      BY <3>1 DEF Begins, Read
    <3>3. Front(Chain(j)) = Front(Chain(v))
      BY <2>8, <3>1, <3>2, OwnChain
    <3>4. v \in Range(Chain(i))
      BY <1>2, <1>4, <2>2, <2>5 DEF Range
    <3> QED
      BY <3>1, <3>3, <3>4 DEF Foremost
  <2>12. First(K) = v
    BY <2>10, <2>11, FirstThat
  <2>13. name \in DOMAIN F[u].children /\ F[u].children[name] = F[v]
    <3>1. IsNode(F, u) /\ K # {}
      BY <2>7, <2>10 DEF Complete
    <3> QED
      BY <2>9, <2>12, <3>1 DEF IsNode
  <2> QED
    BY <2>2, <2>3, <2>13 DEF Deeper
<1> HIDE DEF T
<1>10. Nat \subseteq T
  BY <1>8, <1>9, ByInduction
<1>11. at[h] = {F[c[h + 1]]}
  BY <1>4, <1>10 DEF T
<1> QED
  BY <1>4, <1>5, <1>7, <1>11

\* A path that leads to a node is the path of one of the blob's.
LEMMA FoundIsThere ==
  ASSUME NEW F, NEW r, Complete(F, r), pos \in Nat \ {0},
         NEW path, NEW h \in Nat, Len(path) = h, path = [d \in 1 .. h |-> path[d]],
         NodesAt(path) # {}
  PROVE  \E j \in Begins : Names(j) = path
<1>1. PICK at : Reaches(at, path) /\ NodesAt(path) = at[h]
  BY NodesAtIs
<1> DEFINE Leads(j, d) == /\ Len(Chain(j)) = d + 1
                          /\ \A k \in 1 .. d : Tokens[Chain(j)[k + 1]].name = path[k]
           T == {d \in Nat : d <= h => \A m \in at[d] : \E j \in Begins : m = F[j] /\ Leads(j, d)}
<1> HIDE DEF Leads
<1>2. \A j \in Begins : j \in Nat \ {0} /\ Tokens[j].tag = "begin"
  BY DEF Begins, Read
<1>3. 0 \in T
  <2>1. at[0] = {F[r]} /\ r \in Begins /\ Chain(r)[1] = r
    BY <1>1 DEF Reaches, Complete
  <2>2. /\ Chain(r)[Len(Chain(r))] = r /\ Len(Chain(r)) = Len(Chain(r - 1)) + 1
        /\ Chain(r - 1) \in Seq(Nat)
    BY <1>2, <2>1, OwnChain
  <2>3. 1 \in 1 .. Len(Chain(r)) /\ Len(Chain(r)) \in 1 .. Len(Chain(r))
    <3>1. Len(Chain(r - 1)) \in Nat
      BY <2>2, SeqFacts
    <3> QED
      BY <2>2, <3>1
  <2>4. Len(Chain(r)) = 1
    BY <1>2, <2>1, <2>2, <2>3, ChainGrows
  <2>5. Leads(r, 0)
    BY <2>4 DEF Leads
  <2> QED
    BY <2>1, <2>5
<1>4. ASSUME NEW d \in Nat, d \in T PROVE d + 1 \in T
  <2> SUFFICES ASSUME d + 1 <= h, NEW m \in at[d + 1]
               PROVE  \E j \in Begins : m = F[j] /\ Leads(j, d + 1)
    OBVIOUS
  <2>1. d + 1 \in 1 .. h /\ (d + 1) - 1 = d /\ d <= h
    OBVIOUS
  <2>2. at[d + 1] = Deeper(at[d], path, d + 1)
    <3>1. at[d + 1] = Deeper(at[(d + 1) - 1], path, d + 1)
      BY <1>1, <2>1 DEF Reaches
    <3> QED
      BY <2>1, <3>1
  <2>3. PICK n \in at[d] : path[d + 1] \in DOMAIN n.children /\ m = n.children[path[d + 1]]
    BY <2>2 DEF Deeper
  <2>4. PICK j \in Begins : n = F[j] /\ Leads(j, d)
    BY <1>4, <2>1, <2>3
  <2>5. PICK K, v : K = Kids(j, path[d + 1]) /\ v = First(K)
    OBVIOUS
  <2>6. m = F[v] /\ v \in K
    <3>1. IsNode(F, j)
      BY DEF Complete
    <3>2. K # {} /\ m = F[v]
      BY <2>3, <2>4, <2>5, <3>1 DEF IsNode
    <3> QED
      BY <2>5, <3>2, KidsAre, FirstIs
  <2>7. v \in Begins /\ Tokens[v].name = path[d + 1] /\ Chain(v - 1) = Chain(j)
    BY <2>5, <2>6 DEF Kids
  <2>8. PICK c \in Seq(Nat) : c = Chain(j)
    BY <1>2, ChainIs
  <2>9. Chain(v) = Append(c, v) /\ v \in Nat
    BY <1>2, <2>7, <2>8, OwnChain
  <2>10. /\ Len(Chain(v)) = Len(c) + 1 /\ Chain(v)[Len(c) + 1] = v
         /\ \A k \in 1 .. Len(c) : Chain(v)[k] = c[k]
    BY <2>9, SeqFacts
  <2>11. Len(c) = d + 1 /\ \A k \in 1 .. d : Tokens[c[k + 1]].name = path[k]
    BY <2>4, <2>8 DEF Leads
  <2>12. ASSUME NEW k \in 1 .. d + 1 PROVE Tokens[Chain(v)[k + 1]].name = path[k]
    <3>1. CASE k = d + 1
      BY <2>7, <2>10, <2>11, <3>1
    <3>2. CASE k # d + 1
      <4>1. k \in 1 .. d /\ k + 1 \in 1 .. d + 1
        BY <3>2
      <4> QED
        BY <2>10, <2>11, <4>1
    <3> QED
      BY <3>1, <3>2
  <2>13. Len(Chain(v)) = (d + 1) + 1
    BY <2>10, <2>11
  <2>14. Leads(v, d + 1)
    BY <2>12, <2>13 DEF Leads
  <2> QED
    BY <2>6, <2>7, <2>14
<1> HIDE DEF T
<1>5. Nat \subseteq T
  BY <1>3, <1>4, ByInduction
<1>6. PICK m : m \in at[h]
  BY <1>1
<1>7. PICK j \in Begins : Leads(j, h)
  BY <1>5, <1>6 DEF T
<1>8. Len(Chain(j)) - 1 = h
  BY <1>7 DEF Leads
<1>9. Names(j) = [d \in 1 .. h |-> Tokens[Chain(j)[d + 1]].name]
  BY <1>8 DEF Names
<1>10. \A d \in 1 .. h : Tokens[Chain(j)[d + 1]].name = path[d]
  BY <1>7 DEF Leads
<1> QED
  BY <1>9, <1>10

-----------------------------------------------------------------------------
(* What the tree says of the console.                                       *)

\* A node of the tree, as the blob states it.
LEMMA NodeSays ==
  ASSUME NEW F, NEW r, Complete(F, r), NEW i \in Begins
  PROVE  /\ Len(Chain(i)) > 1 => F[i].cells.address = AddressCells(i)
         /\ \A name : name \in DOMAIN F[i].properties <=> Props(i, name) # {}
         /\ \A name : Props(i, name) # {} => F[i].properties[name] = Value(i, name)
         /\ \A name, default : Number(F[i], name, default) = Stated(Props(i, name), default)
<1>1. IsNode(F, i)
  BY DEF Complete
<1>2. /\ Len(Chain(i)) > 1 => F[i].cells.address = AddressCells(i)
      /\ \A name : name \in DOMAIN F[i].properties <=> Props(i, name) # {}
      /\ \A name : Props(i, name) # {} => F[i].properties[name] = Value(i, name)
  BY <1>1 DEF IsNode
<1>3. ASSUME NEW name, NEW default
      PROVE  Number(F[i], name, default) = Stated(Props(i, name), default)
  BY <1>2 DEF Number, Stated, Value
<1> QED
  BY <1>2, <1>3

LEMMA TreeIsRead ==
  ASSUME NEW F, NEW r, Complete(F, r), pos \in Nat \ {0} PROVE TreeRead
<1> SUFFICES ASSUME NEW i \in Begins, Foremost(i)
             PROVE  \E n \in NodesAt(Names(i)) :
                      /\ Len(Chain(i)) > 1 => n.cells.address = AddressCells(i)
                      /\ DOMAIN n.properties = {Tokens[k].name : k \in
                           {k \in Read : Tokens[k].tag = "prop" /\ Chain(k) = Chain(i)}}
                      /\ \A name \in DOMAIN n.properties : n.properties[name] = Value(i, name)
                      /\ DOMAIN n.children = {Tokens[j].name : j \in {j \in Begins : Front(Chain(j)) = Chain(i)}}
  BY DEF TreeRead
<1>1. NodesAt(Names(i)) = {F[i]}
  BY ForemostFound
<1>2. PICK P, C : P = DOMAIN F[i].properties /\ C = DOMAIN F[i].children
  OBVIOUS
<1>3. P = {Tokens[k].name : k \in {k \in Read : Tokens[k].tag = "prop" /\ Chain(k) = Chain(i)}}
  <2>1. \A name : name \in P <=> Props(i, name) # {}
    BY <1>2, NodeSays
  <2>2. \A name : Props(i, name) # {} <=>
          name \in {Tokens[k].name : k \in {k \in Read : Tokens[k].tag = "prop" /\ Chain(k) = Chain(i)}}
    BY DEF Props
  <2> QED
    BY <2>1, <2>2
<1>4. C = {Tokens[j].name : j \in {j \in Begins : Front(Chain(j)) = Chain(i)}}
  <2>1. \A name : name \in C <=> Kids(i, name) # {}
    BY <1>2 DEF Complete, IsNode
  <2>2. \A j \in Begins : ~ OnChain(j, pos - 1) /\ Chain(j - 1) = Front(Chain(j))
    BY OwnChain DEF Begins, Read, OnChain, Complete
  <2>3. \A name : Kids(i, name) # {} <=>
          name \in {Tokens[j].name : j \in {j \in Begins : Front(Chain(j)) = Chain(i)}}
    BY <2>2 DEF Kids
  <2> QED
    BY <2>1, <2>3
<1> QED
  BY <1>1, <1>2, <1>3, <1>4, NodeSays

\* One cell is the number it holds, and two are the upper half and the lower.
LEMMA SmallRemainder ==
  ASSUME NEW a \in Nat, NEW m \in Nat, a < m PROVE a % m = a
OBVIOUS

LEMMA CellsAre ==
  ASSUME NEW a \in 0 .. Base - 1, NEW b \in 0 .. Base - 1, NEW cells
  PROVE  /\ Len(cells) = 1 /\ cells[1] = a => CellsToNumber(cells) = a
         /\ Len(cells) = 2 /\ cells[1] = a /\ cells[2] = b => CellsToNumber(cells) = a * Base + b
<1>1. PICK word : word = Base * Base
  OBVIOUS
<1>2. Base \in Nat /\ Base > 1 /\ word \in Nat /\ a \in Nat /\ b \in Nat
  BY <1>1, DeviceManagerAssumption
<1>3. a < word /\ a * Base + b \in Nat /\ a * Base + b < word
  <2>1. (a + 1) * Base <= Base * Base
    BY <1>2
  <2>2. (a + 1) * Base = a * Base + Base
    BY <1>2
  <2>3. a <= a * Base
    BY <1>2
  <2>4. PICK q : q = a * Base
    OBVIOUS
  <2>5. q \in Nat /\ q + Base <= word /\ a <= q
    BY <1>1, <1>2, <2>1, <2>2, <2>3, <2>4
  <2> QED
    BY <1>2, <2>4, <2>5
<1>4. a % word = a /\ (a * Base + b) % word = a * Base + b
  BY <1>2, <1>3, SmallRemainder
<1> DEFINE P(f) == f = [j \in 0 .. Len(cells) |->
                          IF j = 0 THEN 0 ELSE (f[j - 1] * Base + cells[j]) % (Base * Base)]
           number == CHOOSE f : P(f)
<1>5. CellsToNumber(cells) = number[Len(cells)]
  BY Zenon DEF CellsToNumber
<1> HIDE DEF number
<1>6. ASSUME Len(cells) = 1, cells[1] = a PROVE CellsToNumber(cells) = a
  <2> DEFINE f == [j \in 0 .. 1 |-> IF j = 0 THEN 0 ELSE a]
  <2>1. (0 * Base + a) % (Base * Base) = a
    BY <1>1, <1>2, <1>4
  <2>2. P(f)
    BY <1>6, <2>1
  <2>3. P(number)
    BY <2>2, Zenon DEF number
  <2>4. number[0] = 0 /\ number[1] = (number[0] * Base + a) % (Base * Base)
    BY <1>6, <2>3
  <2> QED
    BY <1>5, <1>6, <2>1, <2>4
<1>7. ASSUME Len(cells) = 2, cells[1] = a, cells[2] = b PROVE CellsToNumber(cells) = a * Base + b
  <2> DEFINE f == [j \in 0 .. 2 |-> IF j = 0 THEN 0 ELSE IF j = 1 THEN a ELSE a * Base + b]
  <2>1. (0 * Base + a) % (Base * Base) = a /\ (a * Base + b) % (Base * Base) = a * Base + b
    BY <1>1, <1>2, <1>4
  <2>2. P(f)
    BY <1>7, <2>1
  <2>3. P(number)
    BY <2>2, Zenon DEF number
  <2>4. /\ number[0] = 0 /\ number[1] = (number[0] * Base + a) % (Base * Base)
        /\ number[2] = (number[1] * Base + b) % (Base * Base)
    BY <1>7, <2>3
  <2> QED
    BY <1>5, <1>7, <2>1, <2>4
<1> QED
  BY <1>6, <1>7

\* A property that is stated is a sequence, and "reg" one of cells.
LEMMA ValueIs ==
  ASSUME WellFormed(Tokens), pos \in 1 .. Len(Tokens),
         NEW i, NEW name, Props(i, name) # {}
  PROVE  /\ Value(i, name) \in Seq(Range(Value(i, name)))
         /\ name = "reg" => Value(i, name) \in Seq(0 .. Base - 1)
<1>1. Len(Tokens) \in Nat
  BY DEF WellFormed
<1>2. PICK K, k : K = Props(i, name) /\ k = First(K)
  OBVIOUS
<1>3. K \subseteq Nat /\ K # {}
  BY <1>1, <1>2 DEF Props, Read
<1>4. k \in K
  BY <1>2, <1>3, FirstIs
<1>5. k \in 1 .. Len(Tokens) /\ Tokens[k].tag = "prop" /\ Tokens[k].name = name
  BY <1>1, <1>2, <1>4 DEF Props, Read
<1>6. Value(i, name) = Tokens[k].value
  BY <1>2 DEF Value
<1> QED
  BY <1>5, <1>6 DEF WellFormed

\* The address of a node is the one the blob gives it.
LEMMA AddressIs ==
  ASSUME NEW F, NEW r, Complete(F, r), WellFormed(Tokens), pos \in 1 .. Len(Tokens),
         NEW i \in Begins, Len(Chain(i)) > 1, Addressed(i)
  PROVE  "reg" \in DOMAIN F[i].properties /\ Address(F[i]) = DeviceAddress(i)
<1>1. PICK n, reg : n = AddressCells(i) /\ reg = Value(i, "reg")
  OBVIOUS
<1>2. Props(i, "reg") # {} /\ n \in {1, 2} /\ n <= Len(reg)
  BY <1>1 DEF Addressed
<1>3. /\ "reg" \in DOMAIN F[i].properties /\ F[i].properties["reg"] = reg
      /\ F[i].cells.address = n
  BY <1>1, <1>2, NodeSays
<1>4. reg \in Seq(0 .. Base - 1)
  BY <1>1, <1>2, ValueIs
<1>5. PICK cells : cells = SubSeq(reg, 1, n)
  OBVIOUS
<1>6. Address(F[i]) = CellsToNumber(cells)
  BY <1>3, <1>5 DEF Address
<1>7. DeviceAddress(i) = IF n = 1 THEN reg[1] ELSE reg[1] * Base + reg[2]
  BY <1>1 DEF DeviceAddress
<1>8. /\ Len(cells) = n /\ cells[1] = reg[1] /\ reg[1] \in 0 .. Base - 1
      /\ n = 2 => cells[2] = reg[2] /\ reg[2] \in 0 .. Base - 1
  <2>1. n \in Nat /\ 1 \in 1 .. n /\ (n = 2 => 2 \in 1 .. n)
    BY <1>2
  <2>2. PICK S : S = 0 .. Base - 1
    OBVIOUS
  <2>3. reg \in Seq(S) /\ n <= Len(reg)
    BY <1>2, <1>4, <2>2
  <2>4. Len(SubSeq(reg, 1, n)) = n /\ \A d \in 1 .. n : SubSeq(reg, 1, n)[d] = reg[d]
    BY <2>1, <2>3
  <2>5. \A d \in 1 .. n : reg[d] \in S
    BY <2>1, <2>3
  <2> QED
    BY <1>5, <2>1, <2>2, <2>4, <2>5
<1>9. CASE n = 1
  BY <1>3, <1>6, <1>7, <1>8, <1>9, CellsAre
<1>10. CASE n = 2
  <2>1. CellsToNumber(cells) = reg[1] * Base + reg[2]
    BY <1>8, <1>10, CellsAre
  <2> QED
    BY <1>3, <1>6, <1>7, <1>10, <2>1
<1> QED
  BY <1>2, <1>9, <1>10

\* A path of nodes without unit addresses but for the last one's is cut to
\* their names; if the last has none either it is nobody's.
LEMMA CutIs ==
  ASSUME NEW p, NEW l \in Nat, Len(p) = l,
         \A d \in 1 .. l - 1 : p[d].unit = Empty
  PROVE  /\ l = 0 => CutAtUnit(p) = <<"zero">>
         /\ l # 0 /\ p[l].unit = Empty => CutAtUnit(p) = <<"zero">>
         /\ l # 0 /\ p[l].unit # Empty => CutAtUnit(p) = [d \in 1 .. l |-> p[d].name]
<1> DEFINE at == {d \in 1 .. Len(p) : p[d].unit # Empty}
<1>1. \A d \in 1 .. l : d # l => d \in 1 .. l - 1
  OBVIOUS
<1>2. ASSUME l = 0 \/ p[l].unit = Empty PROVE CutAtUnit(p) = <<"zero">>
  <2>1. at = {}
    BY <1>1, <1>2
  <2> QED
    BY <2>1 DEF CutAtUnit
<1>3. ASSUME l # 0, p[l].unit # Empty PROVE CutAtUnit(p) = [d \in 1 .. l |-> p[d].name]
  <2>1. l \in 1 .. l
    BY <1>3
  <2>2. at = {l}
    BY <1>1, <1>3, <2>1
  <2>3. (CHOOSE d \in at : \A k \in at : d <= k) = l
    BY <2>2
  <2> HIDE DEF at
  <2>4. CutAtUnit(p) = [d \in 1 .. l |-> p[d].name]
    BY <2>2, <2>3 DEF CutAtUnit, at
  <2> QED
    BY <2>4
<1> QED
  BY <1>2, <1>3

-----------------------------------------------------------------------------
(* The console's device and its driver.                                     *)

\* What load_dtb registers, the paths that dm can use and the capabilities
\* of the device that is launched.
Registered ==
  CASE NodesAt(UartPath) # {} -> {UartPath}
    [] NodesAt(UartPath) = {} /\ NodesAt(SerialPath) # {} -> {SerialPath}
    [] OTHER -> {}

PathsOf(nodes) == {CutAtUnit(n.properties["stdout-path"]) :
                     n \in {m \in nodes : "stdout-path" \in DOMAIN m.properties}}

Usable == PathsOf(NodesAt(<<"chosen">>)) \cap launchers

CapsOf(nodes) == UNION {FindMemCap(Address(n)) : n \in {m \in nodes : "reg" \in DOMAIN m.properties}}

LEMMA RegisteredIs == Registered \in {{}, {UartPath}, {SerialPath}}
<1>1. CASE NodesAt(UartPath) # {}
  BY <1>1 DEF Registered
<1>2. CASE NodesAt(UartPath) = {} /\ NodesAt(SerialPath) # {}
  BY <1>2 DEF Registered
<1>3. CASE NodesAt(UartPath) = {} /\ NodesAt(SerialPath) = {}
  BY <1>3 DEF Registered
<1> QED
  BY <1>1, <1>2, <1>3

\* /chosen of a console device names it, and dm can use that path only if
\* its last name has a unit address.
LEMMA ChosenIs ==
  ASSUME NEW F, NEW r, Complete(F, r), WellFormed(Tokens), pos \in 1 .. Len(Tokens),
         launchers \subseteq {UartPath, SerialPath}, NEW i \in ConsoleDevice
  PROVE  /\ i \in Begins /\ Foremost(i)
         /\ Units(i) # <<>> /\ Last(Units(i)) # Empty => Usable = {Names(i)} \cap launchers
         /\ Units(i) = <<>> \/ Last(Units(i)) = Empty => Usable = {}
<1>1. pos \in Nat \ {0}
  BY DEF WellFormed
<1>2. i \in Begins /\ Foremost(i) /\ \A d \in 1 .. Len(Units(i)) - 1 : Units(i)[d] = Empty
  BY DEF ConsoleDevice
<1>3. PICK q \in Begins :
        /\ Names(q) = <<"chosen">> /\ Foremost(q) /\ Props(q, "stdout-path") # {}
        /\ Names(i) = [d \in 1 .. Len(Value(q, "stdout-path")) |-> Value(q, "stdout-path")[d].name]
        /\ Units(i) = [d \in 1 .. Len(Value(q, "stdout-path")) |-> Value(q, "stdout-path")[d].unit]
  BY DEF ConsoleDevice
<1>4. PICK p, l, u : p = Value(q, "stdout-path") /\ l = Len(p) /\ u = Units(i)
  OBVIOUS
<1>5. l \in Nat /\ Names(i) = [d \in 1 .. l |-> p[d].name] /\ u = [d \in 1 .. l |-> p[d].unit]
  <2>1. p \in Seq(Range(p))
    BY <1>3, <1>4, ValueIs
  <2> QED
    BY <1>3, <1>4, <2>1
<1>6. u = [d \in 1 .. l |-> u[d]] /\ \A d \in 1 .. l : u[d] = p[d].unit
  BY <1>5
<1>7. Len(u) = l /\ (u = <<>> <=> l = 0) /\ (l # 0 => Last(u) = u[l])
  BY <1>5, <1>6, AsFunction
<1>8. \A d \in 1 .. l - 1 : p[d].unit = Empty
  <2>1. \A d \in 1 .. l - 1 : d \in 1 .. l
    BY <1>5
  <2> QED
    BY <1>2, <1>4, <1>6, <1>7, <2>1
<1>9. NodesAt(<<"chosen">>) = {F[q]}
  BY <1>1, <1>3, ForemostFound
<1>10. "stdout-path" \in DOMAIN F[q].properties /\ F[q].properties["stdout-path"] = p
  BY <1>3, <1>4, NodeSays
<1>11. Usable = {CutAtUnit(p)} \cap launchers
  BY <1>9, <1>10 DEF Usable, PathsOf
<1>12. <<"zero">> \notin launchers
  BY DEF UartPath, SerialPath
<1>13. ASSUME u # <<>>, Last(u) # Empty PROVE Usable = {Names(i)} \cap launchers
  <2>1. l # 0 /\ l \in 1 .. l /\ p[l].unit # Empty
    BY <1>5, <1>6, <1>7, <1>13
  <2>2. l \in Nat /\ Len(p) = l
    BY <1>4, <1>5
  <2>3. CutAtUnit(p) = [d \in 1 .. l |-> p[d].name]
    BY <1>8, <2>1, <2>2, CutIs
  <2> QED
    BY <1>5, <1>11, <2>3
<1>14. ASSUME u = <<>> \/ Last(u) = Empty PROVE Usable = {}
  <2>1. l = 0 \/ (l # 0 /\ p[l].unit = Empty)
    <3>1. l # 0 => l \in 1 .. l
      BY <1>5
    <3> QED
      BY <1>6, <1>7, <1>14, <3>1
  <2>2. CutAtUnit(p) = <<"zero">>
    BY <1>4, <1>5, <1>8, <2>1, CutIs
  <2> QED
    BY <1>11, <1>12, <2>2
<1> QED
  BY <1>2, <1>4, <1>13, <1>14

\* A node that has a path of its own has an address of the cells that the
\* node around it states, and the capabilities found for it are those of its
\* address.
LEMMA CapsAre ==
  ASSUME NEW F, NEW r, Complete(F, r), WellFormed(Tokens), pos \in 1 .. Len(Tokens),
         NEW i \in Begins, Names(i) \in {UartPath, SerialPath}, Addressed(i)
  PROVE  CapsOf({F[i]}) = {k \in 1 .. ndev : Phys(k) = DeviceAddress(i)}
<1>1. Len(Chain(i)) > 1
  <2>1. Len(Names(i)) = 2
    BY DEF UartPath, SerialPath
  <2>2. i \in Nat
    BY DEF Begins, Read
  <2>3. PICK l : l = Len(Chain(i)) - 1
    OBVIOUS
  <2>4. l \in Int /\ Len(Chain(i)) = l + 1
    BY <2>2, <2>3, ChainIs, SeqFacts
  <2>5. Names(i) = [d \in 1 .. l |-> Names(i)[d]]
    BY <2>3 DEF Names
  <2>6. ~ (l <= 0)
    <3> SUFFICES ASSUME l <= 0 PROVE FALSE
      OBVIOUS
    <3>1. 1 .. l = 1 .. 0
      BY <2>4
    <3>2. PICK f : f = Names(i)
      OBVIOUS
    <3>3. f = [d \in 1 .. 0 |-> f[d]]
      BY <2>5, <3>1, <3>2
    <3>4. Len(f) = 0
      BY <3>3, AsFunction
    <3> QED
      BY <2>1, <3>2, <3>4
  <2> QED
    BY <2>4, <2>6
<1>2. "reg" \in DOMAIN F[i].properties /\ Address(F[i]) = DeviceAddress(i)
  BY <1>1, AddressIs
<1>3. CapsOf({F[i]}) = FindMemCap(DeviceAddress(i))
  BY <1>2 DEF CapsOf
<1> QED
  BY <1>3 DEF FindMemCap

\* A device tree that begins is well formed, what is read of it is built, and
\* once the root has ended all of it is.
Built ==
  /\ blob \in Blobs
  /\ step = "none" => pos = 1 /\ stack = <<>> /\ root = {}
  /\ step = "parse" => Reading
  /\ step \notin {"none", "parse", "aborted"} =>
       /\ WellFormed(Tokens) /\ pos \in 1 .. Len(Tokens)
       /\ \E F, r : Complete(F, r)

LEMMA InitBuilt == DmInit => Built
BY DEF DmInit, Built

\* A step that leaves the tree alone.
LEMMA BuiltStays ==
  ASSUME Built, UNCHANGED <<blob, pos, stack, root>>,
         step' = step \/ (step \notin {"none", "parse", "aborted"} /\ step' \notin {"none", "parse"})
                      \/ step' = "aborted"
  PROVE  Built'
<1>1. /\ Reading' = Reading /\ WellFormed(Tokens)' = WellFormed(Tokens)
      /\ (\E F, r : Complete(F, r))' = (\E F, r : Complete(F, r)) /\ Tokens' = Tokens
  <2>1. Tokens' = Tokens /\ \A k : Chain(k)' = Chain(k)
    BY ChainStays
  <2>2. Begins' = Begins /\ Read' = Read
    BY <2>1 DEF Begins, Read
  <2>3. \A i, name : Props(i, name)' = Props(i, name) /\ Kids(i, name)' = Kids(i, name)
    BY <2>1, <2>2 DEF Props, Kids, OnChain
  <2>4. \A i, name : Value(i, name)' = Value(i, name)
    BY <2>1, <2>3 DEF Value
  <2>5. \A i : AddressCells(i)' = AddressCells(i)
    <3> SUFFICES ASSUME NEW i PROVE AddressCells(i)' = AddressCells(i)
      OBVIOUS
    <3>1. Last(Front(Chain(i)))' = Last(Front(Chain(i)))
      BY <2>1
    <3>2. PICK e, K : e = Last(Front(Chain(i))) /\ K = {k \in Props(e, "#address-cells") : k < i}
      OBVIOUS
    <3>3. AddressCells(i) = Stated(K, 2)
      BY <3>2 DEF AddressCells
    <3>4. Props(e, "#address-cells")' = Props(e, "#address-cells")
      BY <2>3
    <3>5. AddressCells(i)' = Stated(K, 2)'
      BY <3>1, <3>2, <3>4 DEF AddressCells
    <3>6. Stated(K, 2)' = Stated(K, 2)
      BY <2>1 DEF Stated
    <3> QED
      BY <3>3, <3>5, <3>6
  <2>6. \A F, i : IsNode(F, i)' = IsNode(F, i)
    BY <2>1, <2>3, <2>4, <2>5 DEF IsNode
  <2>7. (\E F : Nodes(F))' = (\E F : Nodes(F))
    BY <2>1, <2>2, <2>6 DEF Nodes
  <2>8. Reading' = Reading
    BY <2>1, <2>2, <2>7 DEF Reading
  <2>9. \A F, r : Complete(F, r)' = Complete(F, r)
    BY <2>1, <2>2, <2>6 DEF Complete
  <2> QED
    BY <2>1, <2>8, <2>9
<1> QED
  BY <1>1 DEF Built

LEMMA HeaderStep ==
  ASSUME Built, ParseHeader PROVE Built'
<1>1. step = "none" /\ pos = 1 /\ stack = <<>> /\ root = {} /\ UNCHANGED <<blob, pos, stack, root>>
  BY DEF ParseHeader, Built, parser
<1>2. CASE ~ blob.valid
  <2>1. step' = "aborted"
    BY <1>2 DEF ParseHeader
  <2> QED
    BY <1>1, <2>1, BuiltStays
<1>3. CASE blob.valid
  <2>1. step' = "parse" /\ WellFormed(Tokens) /\ Tokens' = Tokens /\ blob' \in Blobs
    BY <1>1, <1>3, BlobAssumption DEF ParseHeader, Built, Tokens
  <2>2. pos \in 1 .. Len(Tokens)
    <3>1. Tokens # <<>> /\ Tokens \in Seq(Range(Tokens))
      BY <2>1 DEF WellFormed
    <3>2. Len(Tokens) \in Nat /\ Len(Tokens) # 0
      BY <3>1
    <3> QED
      BY <1>1, <3>2
  <2>3. Chain(pos - 1)' = Chain(0) /\ Chain(0) = <<>>
    <3>1. pos - 1 = 0 /\ pos' = pos
      BY <1>1
    <3> QED
      BY <1>1, <3>1, ChainStays, ChainIs
  <2>4. Begins' = {}
    BY <1>1 DEF Begins, Read
  <2>5. PICK F : F = <<>>
    OBVIOUS
  <2>6. Nodes(F)'
    BY <1>1, <2>3, <2>4 DEF Nodes
  <2>7. Reading'
    BY <1>1, <2>1, <2>2, <2>4, <2>6 DEF Reading
  <2> QED
    BY <2>1, <2>7 DEF Built
<1> QED
  BY <1>2, <1>3

LEMMA StepKeepsBuilt ==
  ASSUME Built, [DmNext]_all PROVE Built'
<1>1. CASE UNCHANGED all \/ Handover \/ DriverOpen
  <2>1. UNCHANGED <<blob, pos, stack, root, step>>
    BY <1>1 DEF all, dm_vars, parser, Handover, DriverOpen
  <2> QED
    BY <2>1, BuiltStays
<1>2. CASE Launch
  <2>1. /\ UNCHANGED <<blob, pos, stack, root>>
        /\ step \notin {"none", "parse", "aborted"} /\ step' \notin {"none", "parse"}
    BY <1>2 DEF Launch, Register, Stdout, FindDevice, MakeEndpoint, CreateDriver, SendDriver,
                Refuse, Fail, parser
  <2> QED
    BY <2>1, BuiltStays
<1>3. CASE ParseAbort
  <2>1. UNCHANGED <<blob, pos, stack, root>> /\ step' = "aborted"
    BY <1>3 DEF ParseAbort, parser
  <2> QED
    BY <2>1, BuiltStays
<1>4. CASE ParseNop \/ ParseBegin \/ ParseProperty
  <2>1. step = "parse" /\ step' = step /\ blob' = blob
    BY <1>4 DEF ParseNop, ParseBegin, ParseProperty, Parsing
  <2>2. Reading'
    BY <1>4, <2>1, ReadNop, ReadBegin, ReadProperty DEF Built
  <2> QED
    BY <2>1, <2>2 DEF Built
<1>5. CASE ParseEnd
  <2>1. step = "parse" /\ blob' = blob /\ Reading
    BY <1>5 DEF ParseEnd, Parsing, Built
  <2>2. CASE Len(stack) = 1
    <3>1. step' = "register"
      BY <1>5, <2>2 DEF ParseEnd
    <3> QED
      BY <1>5, <2>1, <2>2, <3>1, ReadRoot DEF Built
  <2>3. CASE Len(stack) # 1
    <3>1. step' = step
      BY <1>5, <2>3 DEF ParseEnd
    <3> QED
      BY <1>5, <2>1, <2>3, <3>1, ReadEnd DEF Built
  <2> QED
    BY <2>2, <2>3
<1> QED
  BY <1>1, <1>2, <1>3, <1>4, <1>5, HeaderStep DEF DmNext, Parse

LEMMA BuiltImplies == Built => TreeRead
<1> SUFFICES ASSUME Built, step = "register" PROVE TreeRead
  BY DEF TreeRead
<1>1. WellFormed(Tokens) /\ pos \in 1 .. Len(Tokens) /\ \E F, r : Complete(F, r)
  BY DEF Built
<1>2. pos \in Nat \ {0}
  BY <1>1 DEF WellFormed
<1> QED
  BY <1>1, <1>2, TreeIsRead

\* dm reads every device tree as it is written, however deep its nodes, in
\* whatever order their properties and children are and whatever names come
\* twice.
THEOREM TreeAsWritten == DmSpec => []TreeRead
BY InitBuilt, StepKeepsBuilt, BuiltImplies, PTL DEF DmSpec

\* What dm has found for the console when it is at a step or has given up:
\* the launchers, the node at a path it can use and the memory of that node.
NodeFound == Usable # {} /\ node = UNION {NodesAt(p) : p \in Usable}

Found ==
  /\ step \notin {"none", "parse", "aborted", "register"} => launchers = Registered
  /\ step \in {"launch", "endpoint", "create", "send", "running"} => NodeFound
  /\ step \in {"endpoint", "create", "send", "running"} =>
       CapsOf(node) # {} /\ mem_cap = ndtb + Max(CapsOf(node))
  /\ step = "refused" => Usable = {} \/ (NodeFound /\ CapsOf(node) = {})
  /\ driver # {} => driver = {[cap |-> mem_cap, shift |-> Shift(n)] : n \in node}

LEMMA InitFound == DmInit => Found
BY DEF DmInit, Found

\* What a step says of the tree does not change when the tree does not.
LEMMA SameTree ==
  ASSUME UNCHANGED <<root, ndev, ndtb>>
  PROVE  /\ \A path : NodesAt(path)' = NodesAt(path)
         /\ Registered' = Registered
         /\ launchers' = launchers => Usable' = Usable
         /\ \A nodes : CapsOf(nodes)' = CapsOf(nodes)
<1>1. \A path : NodesAt(path)' = NodesAt(path)
  BY DEF NodesAt
<1>2. Registered' = Registered
  BY <1>1 DEF Registered, UartPath, SerialPath
<1>3. launchers' = launchers => Usable' = Usable
  BY <1>1 DEF Usable
<1>4. \A nodes : CapsOf(nodes)' = CapsOf(nodes)
  BY DEF CapsOf, FindMemCap
<1> QED
  BY <1>1, <1>2, <1>3, <1>4

LEMMA FoundStays ==
  ASSUME Found, UNCHANGED <<root, ndev, ndtb, launchers, node, mem_cap, driver>>,
         \/ step' = step
         \/ step \in {"none", "parse"} /\ step' \in {"none", "parse", "aborted", "register"}
         \/ step \in {"endpoint", "create"} /\ step' \in {"create", "send", "failed"}
  PROVE  Found'
<1>1. /\ Registered' = Registered /\ Usable' = Usable /\ CapsOf(node)' = CapsOf(node)
      /\ \A path : NodesAt(path)' = NodesAt(path)
  <2>1. PICK nodes : nodes = node
    OBVIOUS
  <2>2. CapsOf(nodes)' = CapsOf(nodes)
    BY SameTree
  <2>3. CapsOf(node)' = CapsOf(node)
    BY <2>1, <2>2
  <2> QED
    BY <2>3, SameTree
<1>2. NodeFound' = NodeFound
  BY <1>1 DEF NodeFound
<1> QED
  BY <1>1, <1>2 DEF Found

LEMMA StepKeepsFound ==
  ASSUME Found, DInv, [DmNext]_all PROVE Found'
<1>1. CASE UNCHANGED all \/ Handover \/ DriverOpen
  <2>1. UNCHANGED <<root, launchers, node, mem_cap, driver, step>>
    BY <1>1 DEF all, dm_vars, parser, launch, uart, Handover, DriverOpen
  <2>2. UNCHANGED <<ndev, ndtb>>
    BY <1>1 DEF all, vars, Handover, DriverOpen, InitPut, InitFilled, Receive, DmOpen, DmLoad,
                DmMap, DmReply
  <2> QED
    BY <2>1, <2>2, FoundStays
<1>2. CASE Parse
  <2>1. /\ UNCHANGED <<launchers, node, mem_cap, driver, ndev, ndtb>>
        /\ step \in {"none", "parse"} /\ step' \in {"none", "parse", "aborted", "register"}
    BY <1>2 DEF Parse, ParseHeader, ParseNop, ParseBegin, ParseProperty, ParseEnd, ParseAbort,
                Parsing, launch, uart, vars, DmLaunch
  <2>2. driver = {} /\ driver' = {}
    BY <2>1 DEF DInv
  <2> QED
    BY <2>1, <2>2 DEF Found
<1>3. CASE Register
  <2>1. /\ step = "register" /\ step' = "stdout" /\ launchers' = Registered
        /\ UNCHANGED <<root, ndev, ndtb, node, mem_cap, driver>>
    BY <1>3 DEF Register, Registered, parser, uart, vars
  <2>2. driver' = {}
    BY <2>1 DEF DInv
  <2>3. Registered' = Registered
    BY <2>1, SameTree
  <2> QED
    BY <2>1, <2>2, <2>3 DEF Found
<1>4. CASE Stdout
  <2>1. /\ step = "stdout" /\ UNCHANGED <<root, ndev, ndtb, launchers, mem_cap, driver>>
    BY <1>4 DEF Stdout, Refuse, DmLaunch, parser, uart, vars
  <2>2. driver' = {} /\ launchers' = Registered'
    BY <2>1, SameTree DEF DInv, Found
  <2>3. \/ Usable # {} /\ step' = "launch" /\ node' = UNION {NodesAt(p) : p \in Usable}
        \/ Usable = {} /\ step' = "refused"
    BY <1>4 DEF Stdout, Refuse, Usable, PathsOf
  <2>4. Usable' = Usable /\ \A path : NodesAt(path)' = NodesAt(path)
    BY <2>1, SameTree
  <2>5. CASE Usable # {} /\ step' = "launch" /\ node' = UNION {NodesAt(p) : p \in Usable}
    <3>1. NodeFound'
      BY <2>4, <2>5 DEF NodeFound
    <3> QED
      BY <2>2, <2>5, <3>1 DEF Found
  <2>6. CASE Usable = {} /\ step' = "refused"
    BY <2>2, <2>4, <2>6 DEF Found
  <2> QED
    BY <2>3, <2>5, <2>6
<1>5. CASE FindDevice
  <2>1. step = "launch" /\ UNCHANGED <<root, ndev, ndtb, got, launchers, node, driver>>
    BY <1>5 DEF FindDevice, Refuse, DmLaunch, parser, uart, vars
  <2>2. driver' = {} /\ launchers' = Registered' /\ NodeFound /\ ndev \in Nat /\ ndtb \in Nat
    BY <2>1, SameTree DEF DInv, Found, HInv, Counts
  <2>3. NodeFound'
    BY <2>1, <2>2, SameTree DEF NodeFound
  <2>4. CapsOf(node)' = CapsOf(node)
    <3>1. PICK nodes : nodes = node
      OBVIOUS
    <3>2. CapsOf(nodes)' = CapsOf(nodes)
      BY <2>1, SameTree
    <3> QED
      BY <2>1, <3>1, <3>2
  <2>5. \/ CapsOf(node) # {} /\ step' = "endpoint" /\ mem_cap' = got[ndtb + Max(CapsOf(node))]
        \/ CapsOf(node) = {} /\ step' = "refused"
    BY <1>5 DEF FindDevice, Refuse, CapsOf
  <2>6. ASSUME CapsOf(node) # {}
        PROVE  got[ndtb + Max(CapsOf(node))] = ndtb + Max(CapsOf(node))
    <3>1. Len(got) = ndtb + ndev /\ \A k \in 1 .. Len(got) : got[k] = k
      BY <2>1 DEF DInv, AtWork, HInv, Total
    <3>2. CapsOf(node) \in SUBSET (1 .. ndev)
      BY DEF CapsOf, FindMemCap
    <3>3. Max(CapsOf(node)) \in 1 .. ndev
      BY <2>2, <2>6, <3>2, Greatest
    <3> QED
      BY <2>2, <3>1, <3>3
  <2>7. CASE CapsOf(node) # {} /\ step' = "endpoint" /\ mem_cap' = got[ndtb + Max(CapsOf(node))]
    BY <2>1, <2>2, <2>3, <2>4, <2>6, <2>7 DEF Found
  <2>8. CASE CapsOf(node) = {} /\ step' = "refused"
    BY <2>1, <2>2, <2>3, <2>4, <2>8 DEF Found
  <2> QED
    BY <2>5, <2>7, <2>8
<1>6. CASE MakeEndpoint \/ CreateDriver
  <2>1. /\ UNCHANGED <<root, ndev, ndtb, launchers, node, mem_cap, driver>>
        /\ step \in {"endpoint", "create"} /\ step' \in {"create", "send", "failed"}
    BY <1>6 DEF MakeEndpoint, CreateDriver, Fail, DmLaunch, parser, launch, uart, vars
  <2> QED
    BY <2>1, FoundStays
<1>7. CASE SendDriver
  <2>1. /\ UNCHANGED <<root, ndev, ndtb, launchers, node, mem_cap>>
        /\ step = "send" /\ step' = "running"
        /\ driver' = {[cap |-> mem_cap, shift |-> Shift(n)] : n \in node}
    BY <1>7 DEF SendDriver, DmLaunch, parser, launch
  <2>2. /\ Registered' = Registered /\ Usable' = Usable
        /\ \A path : NodesAt(path)' = NodesAt(path)
    BY <2>1, SameTree
  <2>3. CapsOf(node)' = CapsOf(node)
    <3>1. PICK nodes : nodes = node
      OBVIOUS
    <3>2. CapsOf(nodes)' = CapsOf(nodes)
      BY <2>1, SameTree
    <3> QED
      BY <2>1, <3>1, <3>2
  <2>4. NodeFound' = NodeFound
    BY <2>1, <2>2 DEF NodeFound
  <2>5. driver' = {[cap |-> mem_cap', shift |-> Shift(n)] : n \in node'}
    BY <2>1
  <2>6. driver' # {} => (driver = {[cap |-> mem_cap, shift |-> Shift(n)] : n \in node})'
    BY <2>5 DEF Shift
  <2> QED
    BY <2>1, <2>2, <2>3, <2>4, <2>6 DEF Found
<1> QED
  BY <1>1, <1>2, <1>3, <1>4, <1>5, <1>6, <1>7 DEF DmNext, Launch

DriverInv == Built /\ Found /\ DInv

LEMMA InitDriverInv == DmInit => DriverInv
BY InitBuilt, InitFound, InitDInv DEF DriverInv

LEMMA StepKeepsDriverInv == DriverInv /\ [DmNext]_all => DriverInv'
BY StepKeepsBuilt, StepKeepsFound, StepKeepsDInv DEF DriverInv

\* The driver gets the memory and the spacing of the node that /chosen names.
LEMMA DriverInvGives == DriverInv => DriverGetsItsDevice
<1> SUFFICES ASSUME DriverInv, driver # {}, NEW i \in ConsoleDevice, Addressed(i)
             PROVE  \E k \in 1 .. ndev :
                      /\ Phys(k) = DeviceAddress(i)
                      /\ driver = {[cap |-> ndtb + k, shift |-> Stated(Props(i, "reg-shift"), 0)]}
  BY DEF DriverGetsItsDevice
<1>1. step = "running" /\ NodeFound /\ CapsOf(node) # {} /\ mem_cap = ndtb + Max(CapsOf(node))
      /\ driver = {[cap |-> mem_cap, shift |-> Shift(n)] : n \in node}
      /\ launchers = Registered
  BY DEF DriverInv, DInv, Found
<1>2. WellFormed(Tokens) /\ pos \in 1 .. Len(Tokens) /\ \E F, r : Complete(F, r)
  BY <1>1 DEF DriverInv, Built
<1>3. PICK F, r : Complete(F, r)
  BY <1>2
<1>4. pos \in Nat \ {0}
  BY <1>2 DEF WellFormed
<1>5. launchers \subseteq {UartPath, SerialPath}
  BY <1>1, RegisteredIs
<1>6. i \in Begins /\ Foremost(i) /\ Usable = {Names(i)} \cap launchers
  BY <1>1, <1>2, <1>3, <1>5, ChosenIs DEF NodeFound
<1>7. Names(i) \in launchers /\ Usable = {Names(i)}
  BY <1>1, <1>6 DEF NodeFound
<1>8. node = {F[i]}
  <2>1. NodesAt(Names(i)) = {F[i]}
    BY <1>3, <1>4, <1>6, ForemostFound
  <2> QED
    BY <1>1, <1>7, <2>1 DEF NodeFound
<1>9. PICK caps : caps = CapsOf(node)
  OBVIOUS
<1>10. caps = {k \in 1 .. ndev : Phys(k) = DeviceAddress(i)}
  BY <1>2, <1>3, <1>5, <1>6, <1>7, <1>8, <1>9, CapsAre
<1>11. Max(caps) \in caps
  <2>1. ndev \in Nat
    BY DEF DriverInv, DInv, HInv, Counts
  <2>2. caps \in SUBSET (1 .. ndev) /\ caps # {}
    BY <1>1, <1>9, <1>10
  <2> QED
    BY <2>1, <2>2, Greatest
<1>12. Shift(F[i]) = Stated(Props(i, "reg-shift"), 0)
  BY <1>3, <1>6, NodeSays DEF Shift
<1>13. driver = {[cap |-> ndtb + Max(caps), shift |-> Stated(Props(i, "reg-shift"), 0)]}
  BY <1>1, <1>8, <1>9, <1>12
<1> QED
  BY <1>10, <1>11, <1>13

\* The driver works on the device that the firmware has chosen, whatever
\* the tree, the boot and the number of capabilities: the memory at the
\* address that the node gives in one cell or two, and its register spacing.
THEOREM DriverGetsChosen == DmSpec => []DriverGetsItsDevice
BY InitDriverInv, StepKeepsDriverInv, DriverInvGives, PTL DEF DmSpec

\* When dm has given up there was no console that it could have had.
LEMMA DriverInvLaunches == DriverInv => ConsoleLaunched
<1> SUFFICES ASSUME DriverInv, step = "refused", NEW i \in ConsoleDevice,
                    Units(i) # <<>>, Last(Units(i)) # Empty,
                    \/ Names(i) = UartPath
                    \/ Names(i) = SerialPath /\ ~ \E j \in Begins : Names(j) = UartPath,
                    Addressed(i), NEW k \in 1 .. ndev, Phys(k) = DeviceAddress(i)
             PROVE  FALSE
  BY DEF ConsoleLaunched
<1>1. launchers = Registered /\ (Usable = {} \/ (NodeFound /\ CapsOf(node) = {}))
  BY DEF DriverInv, Found
<1>2. WellFormed(Tokens) /\ pos \in 1 .. Len(Tokens) /\ \E F, r : Complete(F, r)
  BY DEF DriverInv, Built
<1>3. PICK F, r : Complete(F, r)
  BY <1>2
<1>4. pos \in Nat \ {0}
  BY <1>2 DEF WellFormed
<1>5. launchers \subseteq {UartPath, SerialPath}
  BY <1>1, RegisteredIs
<1>6. i \in Begins /\ Foremost(i) /\ Usable = {Names(i)} \cap launchers
  BY <1>2, <1>3, <1>5, ChosenIs
<1>7. NodesAt(Names(i)) = {F[i]}
  BY <1>3, <1>4, <1>6, ForemostFound
<1>8. Names(i) \in launchers
  <2>1. CASE Names(i) = UartPath
    BY <1>1, <1>7, <2>1 DEF Registered
  <2>2. CASE Names(i) = SerialPath /\ ~ \E j \in Begins : Names(j) = UartPath
    <3>1. Len(UartPath) = 2 /\ UartPath = [d \in 1 .. 2 |-> UartPath[d]]
      BY DEF UartPath
    <3>2. NodesAt(UartPath) = {}
      BY <1>3, <1>4, <2>2, <3>1, FoundIsThere
    <3>3. Registered = {SerialPath}
      BY <1>7, <2>2, <3>2 DEF Registered
    <3> QED
      BY <1>1, <2>2, <3>3
  <2> QED
    BY <2>1, <2>2
<1>9. NodeFound /\ CapsOf(node) = {} /\ Usable = {Names(i)}
  BY <1>1, <1>6, <1>8
<1>10. node = {F[i]}
  BY <1>7, <1>9 DEF NodeFound
<1>11. CapsOf({F[i]}) = {c \in 1 .. ndev : Phys(c) = DeviceAddress(i)}
  BY <1>2, <1>3, <1>5, <1>6, <1>8, CapsAre
<1> QED
  BY <1>9, <1>10, <1>11

\* dm gives up the console only if there is none under /soc that is chosen
\* with its unit address and has its memory handed over, in any tree.
THEOREM ConsoleNotGivenUp == DmSpec => []ConsoleLaunched
BY InitDriverInv, StepKeepsDriverInv, DriverInvLaunches, PTL DEF DmSpec
=============================================================================
