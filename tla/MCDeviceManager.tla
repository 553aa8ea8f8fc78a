--------------------------- MODULE MCDeviceManager ---------------------------
(* Device trees for DeviceManager: a soc with devices, and /chosen.         *)
EXTENDS DeviceManager

T(tag, name, unit, value) == [tag |-> tag, name |-> name, unit |-> unit, value |-> value]
Begin(name, unit) == T("begin", name, unit, <<>>)
Prop(name, value) == T("prop", name, Empty, value)
Nop == T("nop", "", Empty, <<>>)
End == T("end", "", Empty, <<>>)

\* A two-cell number has its upper half first.
InCells(n, cells) == IF cells = 1 THEN <<n>> ELSE <<n \div Base, n % Base>>
Cell(stated, i, default) == IF stated = <<>> THEN default ELSE stated[i]

DeviceTokens(d, stated) ==
  <<Begin(d.name, d.unit)>>
  \o (IF d.shift = 0 THEN <<>> ELSE <<Prop("reg-shift", <<d.shift>>), Nop>>)
  \o (IF d.unit = Empty THEN <<>>
      ELSE <<Prop("reg", InCells(d.unit, Cell(stated, 1, 2)) \o InCells(3, Cell(stated, 2, 1)))>>)
  \o <<End>>

Soc(devices, stated) ==
  <<Begin("soc", Empty)>>
  \o (IF stated = <<>> THEN <<>>
      ELSE <<Prop("#address-cells", <<stated[1]>>), Prop("#size-cells", <<stated[2]>>)>>)
  \o FlattenSeq([i \in 1 .. Len(devices) |-> DeviceTokens(devices[i], stated)])
  \o <<End>>

Chosen(path) == <<Begin("chosen", Empty), Prop("stdout-path", path), End>>

Tree(children) ==
  <<Nop, Begin("", Empty), Prop("#address-cells", <<1>>), Prop("#size-cells", <<1>>)>>
  \o children \o <<End, T("end of tree", "", Empty, <<>>)>>

D(name, unit, shift) == [name |-> name, unit |-> unit, shift |-> shift]
P(name, unit) == [name |-> name, unit |-> unit]

\* The devices under /soc, in their order; the cells it states, if it does;
\* what /chosen names.
Devices == {
  <<D("serial", 2, 0)>>,
  <<D("rtc", 1, 0), D("serial", 5, 2)>>,
  <<D("serial", 1, 2), D("serial", 2, 0)>>,
  <<D("uart", 5, 0), D("serial", 2, 1)>>,
  <<D("uart", Empty, 1)>>}
Cells == {<<>>, <<1, 1>>, <<2, 2>>}
Paths == {
  <<P("soc", Empty), P("serial", 2)>>,
  <<P("soc", Empty), P("serial", 5)>>,
  <<P("soc", Empty), P("serial", Empty)>>,
  <<P("soc", 0), P("serial", 2)>>,
  <<P("soc", Empty), P("uart", 5)>>}

\* Trees that a firmware need not avoid: two nodes of one name, a property
\* that is stated twice, or behind a child, and a device in a device.
Serial == <<Begin("serial", 2), Prop("reg", <<0, 2, 0, 3>>), Prop("reg-shift", <<1>>),
            Begin("port", 1), Prop("reg", <<0, 1>>), End,
            Prop("reg-shift", <<2>>), End>>
OddTrees == {
  Soc(<<D("serial", 2, 0)>>, <<>>) \o Chosen(<<P("soc", Empty), P("serial", 2)>>)
                                   \o Chosen(<<P("soc", Empty), P("uart", 5)>>),
  Chosen(<<P("soc", Empty), P("serial", 2)>>) \o Soc(<<D("rtc", 1, 0)>>, <<>>)
                                              \o Soc(<<D("serial", 2, 0)>>, <<>>),
  <<Begin("soc", Empty)>> \o Serial \o <<Prop("#address-cells", <<1>>), End>>
    \o Chosen(<<P("soc", Empty), P("serial", 2)>>),
  <<Begin("soc", Empty)>> \o Serial \o <<End>>
    \o Chosen(<<P("soc", Empty), P("serial", 2), P("port", 1)>>),
  <<Begin("soc", 0), Prop("#address-cells", <<1>>)>> \o Serial \o <<End, Begin("soc", Empty), End>>
    \o Chosen(<<P("soc", 0), P("serial", 2)>>)}

\* A cell that stands alone has no room for an address of Base or more.
MCBlobs ==
  {[valid |-> TRUE, tokens |-> Tree(Soc(d, c) \o Chosen(p))] :
     d \in Devices, c \in Cells \ {<<1, 1>>}, p \in Paths}
  \cup {[valid |-> TRUE, tokens |-> Tree(Soc(d, <<1, 1>>) \o Chosen(p))] :
     d \in {d \in Devices : \A i \in 1 .. Len(d) : d[i].unit < Base}, p \in Paths}
  \cup {[valid |-> TRUE, tokens |-> Tree(Chosen(p) \o Soc(<<D("serial", 2, 0)>>, <<2, 2>>))] : p \in Paths}
  \cup {[valid |-> TRUE, tokens |-> Tree(t)] : t \in OddTrees}
  \cup {[valid |-> TRUE, tokens |-> Tree(Chosen(<<P("soc", Empty), P("serial", 2)>>))],
        [valid |-> TRUE, tokens |-> Tree(Soc(<<D("serial", 2, 0)>>, <<>>))],
        [valid |-> TRUE, tokens |-> <<Nop, T("end of tree", "", Empty, <<>>)>>],
        [valid |-> FALSE, tokens |-> <<>>]}

MCPhys(i) == i
=============================================================================
