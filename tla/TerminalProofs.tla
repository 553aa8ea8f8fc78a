---------------------------- MODULE TerminalProofs ----------------------------
(* The terminal, the line editor and the readers behind it.  What the      *)
(* screen shows follows from where the console's cursor and the terminal's  *)
(* are, character by character; what readers get follows from what is left  *)
(* of the line in the console's buffer and of the read in fs.               *)
EXTENDS Terminal, SequenceTheorems, NaturalsInduction, WellFoundedInduction, TLAPS

-----------------------------------------------------------------------------
(* The number in an escape sequence.                                        *)

LEMMA LeastNat ==
  ASSUME NEW S \in SUBSET Nat, S # {}
  PROVE  \E m \in S : \A n \in S : m <= n
<1>1. PICK m \in S : \A n \in S : ~ (<<n, m>> \in OpToRel(<, Nat))
  BY NatLessThanWellFounded, WFMin
<1>2. \A n \in S : ~ (n < m)
  BY <1>1 DEF OpToRel
<1> QED
  BY <1>2

LEMMA DigitIsNat == \A ch : DigitValue(ch) \in Nat
  BY DEF DigitValue

\* f holds the value of the first n digits, for n up to m.
Spells(f, m, digits) ==
  /\ f \in [0 .. m -> Nat]
  /\ f[0] = 0
  /\ \A n \in 1 .. m : f[n] = 10 * f[n - 1] + DigitValue(digits[n])

LEMMA Spelt ==
  ASSUME NEW digits, NEW m \in Nat
  PROVE  \E f : Spells(f, m, digits)
<1> DEFINE S == {n \in Nat : ~\E f : Spells(f, n, digits)}
<1> SUFFICES ASSUME S # {} PROVE FALSE
  OBVIOUS
<1>1. PICK n \in S : \A k \in S : n <= k
  BY LeastNat
<1>2. CASE n = 0
  <2>1. Spells([i \in 0 .. 0 |-> 0], 0, digits)
    BY DEF Spells
  <2> QED
    BY <1>2, <2>1
<1>3. CASE n # 0
  <2>1. n - 1 \in Nat /\ n - 1 \notin S
    BY <1>1, <1>3
  <2>2. PICK f : Spells(f, n - 1, digits)
    BY <2>1
  <2>3. PICK v \in Nat : v = 10 * f[n - 1] + DigitValue(digits[n])
    BY <2>1, <2>2, DigitIsNat DEF Spells
  <2>4. Spells([i \in 0 .. n |-> IF i = n THEN v ELSE f[i]], n, digits)
    BY <2>1, <2>2, <2>3 DEF Spells
  <2> QED
    BY <2>4
<1> QED
  BY <1>2, <1>3

LEMMA NumberIsNat ==
  ASSUME NEW digits, Len(digits) \in Nat
  PROVE  Number(digits) \in Nat
<1> DEFINE m == Len(digits)
           value[n \in 0 .. m] ==
             IF n = 0 THEN 0 ELSE 10 * value[n - 1] + DigitValue(digits[n])
<1>1. PICK f : Spells(f, m, digits)
  BY Spelt
<1>2. f = [n \in 0 .. m |-> IF n = 0 THEN 0 ELSE 10 * f[n - 1] + DigitValue(digits[n])]
  BY <1>1 DEF Spells
<1>3. value = [n \in 0 .. m |-> IF n = 0 THEN 0 ELSE 10 * value[n - 1] + DigitValue(digits[n])]
  BY <1>2
<1>4. Number(digits) = value[m]
  BY DEF Number
<1> HIDE DEF value
<1>5. \A n \in 0 .. m : value[n] \in Nat
  <2> DEFINE S == {n \in 0 .. m : value[n] \notin Nat}
  <2> SUFFICES ASSUME S # {} PROVE FALSE
    OBVIOUS
  <2>0. S \in SUBSET Nat
    OBVIOUS
  <2>1. PICK n \in S : \A k \in S : n <= k
    <3> HIDE DEF S
    <3> QED
      BY <2>0, LeastNat
  <2>2. n # 0
    BY <1>3
  <2>3. n - 1 \in 0 .. m /\ n - 1 \notin S
    BY <2>1, <2>2
  <2>4. value[n] = 10 * value[n - 1] + DigitValue(digits[n])
    BY <1>3, <2>2
  <2> QED
    BY <2>3, <2>4, DigitIsNat
<1> QED
  BY <1>4, <1>5

-----------------------------------------------------------------------------
(* The invariant.                                                           *)

Ink == Char \cup {"p", Blank}
Code == Coded \cup {Esc, Enter}

Shapes ==
  /\ buffer \in Seq(Char) /\ cursor_pos \in Nat /\ esc_buffer \in Seq(Code)
  /\ status \in {"idle", "reading", "undefined"}
  /\ max_size \in Nat /\ given \in Seq(Char) /\ cut \in BOOLEAN
  /\ req \in ReadRequest \cup {Nobody} /\ pending \in Seq(Char)

\* Between lines the cursor is back at the start, unless a line was cut.
Editor ==
  ~cut => /\ status # "undefined"
          /\ cursor_pos <= Len(buffer)
          /\ status = "idle" => cursor_pos = 0

\* Between lines the row holds what programs have printed.
Screen ==
  ~cut => /\ row \in Seq(Ink) /\ start \in Nat /\ col \in Nat
          /\ status = "idle" => col = Len(row) /\ \A i \in 1 .. Len(row) : row[i] = "p"
          /\ ScreenShowsLine

\* A read is under way at the console while fs waits for a piece, and what
\* the console gives it is no more than it asked for.
Phases ==
  /\ status # "idle" => ~FsIdle /\ req.pc = "wait"
  /\ status = "reading" => given = <<>> /\ max_size = req.size - Len(req.got)
  /\ FsIdle \/ req.pc # "wait" => given = <<>>
  /\ ~FsIdle => Len(req.got) <= req.size
  /\ ~FsIdle /\ req.pc = "wait" /\ status = "idle" =>
       /\ Len(req.got) + Len(given) <= req.size
       /\ given = <<>> /\ Len(req.got) < req.size => cut /\ buffer = <<>>
  /\ ReadsWhole

TermInv == Shapes /\ Editor /\ Screen /\ Phases /\ NothingLost

-----------------------------------------------------------------------------
(* Sequences and the terminal, character by character.                      *)

LEMMA MaxOfTwo ==
  ASSUME NEW a \in Int, NEW b \in Int
  PROVE  Max({a, b}) = IF a >= b THEN a ELSE b
BY DEF Max

LEMMA MinOfTwo ==
  ASSUME NEW a \in Int, NEW b \in Int
  PROVE  Min({a, b}) = IF a <= b THEN a ELSE b
BY DEF Min

LEMMA One ==
  ASSUME NEW T, NEW e \in T
  PROVE  <<e>> \in Seq(T) /\ Len(<<e>>) = 1 /\ <<e>>[1] = e
OBVIOUS

\* c is a followed by b; t is s with e put in behind place n; t is s without
\* what is at place n.
IsJoin(T, c, a, b) ==
  /\ c \in Seq(T) /\ Len(c) = Len(a) + Len(b)
  /\ \A i \in 1 .. Len(a) : c[i] = a[i]
  /\ \A i \in 1 .. Len(b) : c[Len(a) + i] = b[i]

\* p is what s has behind place m, up to place n.
IsPart(T, p, s, m, n) ==
  p \in Seq(T) /\ Len(p) = n - m /\ \A i \in 1 .. n - m : p[i] = s[m + i]

IsInsertion(T, t, s, n, e) ==
  /\ t \in Seq(T) /\ Len(t) = Len(s) + 1
  /\ \A i \in 1 .. Len(t) :
       t[i] = IF i <= n THEN s[i] ELSE IF i = n + 1 THEN e ELSE s[i - 1]

IsRemoval(T, t, s, n) ==
  /\ t \in Seq(T) /\ Len(t) = Len(s) - 1
  /\ \A i \in 1 .. Len(t) : t[i] = IF i < n THEN s[i] ELSE s[i + 1]

LEMMA Joined ==
  ASSUME NEW T, NEW a \in Seq(T), NEW b \in Seq(T)
  PROVE  IsJoin(T, a \o b, a, b)
BY DEF IsJoin

LEMMA Parted ==
  ASSUME NEW T, NEW s \in Seq(T), NEW m \in Nat, NEW n \in Nat, m <= n, n <= Len(s)
  PROVE  IsPart(T, SubSeq(s, m + 1, n), s, m, n)
BY DEF IsPart

LEMMA Inserted ==
  ASSUME NEW T, NEW s \in Seq(T), NEW n \in Nat, n <= Len(s), NEW e \in T
  PROVE  IsInsertion(T, InsertAt(s, n + 1, e), s, n, e)
<1>1. PICK front, key, back, head, t :
        /\ t = InsertAt(s, n + 1, e)
        /\ front = SubSeq(s, 1, n) /\ key = <<e>> /\ back = SubSeq(s, n + 1, Len(s))
        /\ head = front \o key
  OBVIOUS
<1>2. front \in Seq(T) /\ Len(front) = n /\ \A i \in 1 .. n : front[i] = s[i]
  BY <1>1
<1>3. key \in Seq(T) /\ Len(key) = 1 /\ key[1] = e
  BY <1>1
<1>4. back \in Seq(T) /\ Len(back) = Len(s) - n /\ \A i \in 1 .. Len(s) - n : back[i] = s[n + i]
  BY <1>1
<1>5. /\ head \in Seq(T) /\ Len(head) = Len(front) + Len(key)
      /\ \A i \in 1 .. Len(front) : head[i] = front[i]
      /\ \A i \in 1 .. Len(key) : head[Len(front) + i] = key[i]
  <2>1. IsJoin(T, head, front, key)
    BY <1>1, <1>2, <1>3, Joined, Zenon
  <2> QED
    BY <2>1 DEF IsJoin
<1>6. t = head \o back
  <2>1. (n + 1) - 1 = n
    OBVIOUS
  <2> QED
    BY <1>1, <2>1, Zenon DEF InsertAt
<1>7. /\ t \in Seq(T) /\ Len(t) = Len(head) + Len(back)
      /\ \A i \in 1 .. Len(head) : t[i] = head[i]
      /\ \A i \in 1 .. Len(back) : t[Len(head) + i] = back[i]
  <2>1. IsJoin(T, t, head, back)
    BY <1>4, <1>5, <1>6, Joined
  <2> QED
    BY <2>1 DEF IsJoin
<1>8. Len(head) = n + 1 /\ head[n + 1] = e
  BY <1>2, <1>3, <1>5
<1>9. Len(t) = Len(s) + 1
  BY <1>4, <1>7, <1>8
<1>10. \A i \in n + 2 .. Len(t) : t[i] = s[i - 1]
  <2> SUFFICES ASSUME NEW i \in n + 2 .. Len(s) + 1 PROVE t[i] = s[i - 1]
    BY <1>9
  <2>1. PICK k \in 1 .. Len(s) - n : k = i - (n + 1)
    OBVIOUS
  <2>2. t[i] = back[k]
    BY <1>4, <1>7, <1>8, <2>1
  <2> QED
    BY <1>4, <2>1, <2>2
<1>11. \A i \in 1 .. n : t[i] = s[i]
  BY <1>2, <1>5, <1>7, <1>8
<1>12. t[n + 1] = e
  BY <1>7, <1>8
<1>13. \A i \in 1 .. Len(t) :
         t[i] = IF i <= n THEN s[i] ELSE IF i = n + 1 THEN e ELSE s[i - 1]
  <2> TAKE i \in 1 .. Len(t)
  <2>1. i \in 1 .. n \/ i = n + 1 \/ i \in n + 2 .. Len(t)
    BY <1>9
  <2>2. CASE i \in 1 .. n
    BY <1>11, <2>2
  <2>3. CASE i = n + 1
    BY <1>12, <2>3
  <2>4. CASE i \in n + 2 .. Len(t)
    BY <1>10, <2>4
  <2> QED
    BY <2>1, <2>2, <2>3, <2>4
<1> QED
  BY <1>1, <1>7, <1>9, <1>13 DEF IsInsertion

LEMMA Removed ==
  ASSUME NEW T, NEW s \in Seq(T), NEW n \in 1 .. Len(s)
  PROVE  IsRemoval(T, RemoveAt(s, n), s, n)
<1>1. PICK front, back, t : t = RemoveAt(s, n) /\ front = SubSeq(s, 1, n - 1) /\ back = SubSeq(s, n + 1, Len(s))
  OBVIOUS
<1>2. front \in Seq(T) /\ Len(front) = n - 1 /\ \A i \in 1 .. n - 1 : front[i] = s[i]
  BY <1>1
<1>3. back \in Seq(T) /\ Len(back) = Len(s) - n /\ \A i \in 1 .. Len(s) - n : back[i] = s[n + i]
  BY <1>1
<1>4. t = front \o back
  BY <1>1, Zenon DEF RemoveAt
<1>5. /\ t \in Seq(T) /\ Len(t) = Len(front) + Len(back)
      /\ \A i \in 1 .. Len(front) : t[i] = front[i]
      /\ \A i \in 1 .. Len(back) : t[Len(front) + i] = back[i]
  <2>1. IsJoin(T, t, front, back)
    BY <1>2, <1>3, <1>4, Joined
  <2> QED
    BY <2>1 DEF IsJoin
<1>6. Len(t) = Len(s) - 1
  BY <1>2, <1>3, <1>5
<1>7. \A i \in n .. Len(t) : t[i] = s[i + 1]
  <2> SUFFICES ASSUME NEW i \in n .. Len(s) - 1 PROVE t[i] = s[i + 1]
    BY <1>6
  <2>1. PICK k \in 1 .. Len(s) - n : k = i - (n - 1)
    OBVIOUS
  <2>2. k \in 1 .. Len(back) /\ Len(front) + k = i /\ n + k = i + 1
    BY <1>2, <1>3, <2>1
  <2>3. t[Len(front) + k] = back[k]
    BY <1>5, <2>2
  <2>4. back[k] = s[n + k]
    BY <1>3, <2>1
  <2> QED
    BY <2>2, <2>3, <2>4
<1>8. \A i \in 1 .. n - 1 : t[i] = s[i]
  BY <1>2, <1>5
<1> QED
  <2>1. \A i \in 1 .. Len(t) : t[i] = IF i < n THEN s[i] ELSE s[i + 1]
    BY <1>6, <1>7, <1>8
  <2> QED
    BY <1>1, <1>5, <1>6, <2>1 DEF IsRemoval

LEMMA PrintedAt ==
  ASSUME NEW r \in Seq(Ink), NEW c \in Nat, NEW s \in Seq(Ink)
  PROVE  LET t == Printed(r, c, s) IN
         /\ t \in Seq(Ink)
         /\ Len(t) = IF Len(r) >= c + Len(s) THEN Len(r) ELSE c + Len(s)
         /\ \A i \in 1 .. Len(t) :
              t[i] = IF i \in c + 1 .. c + Len(s) THEN s[i - c]
                     ELSE IF i <= Len(r) THEN r[i] ELSE Blank
<1>1. PICK n \in Nat : n = IF Len(r) >= c + Len(s) THEN Len(r) ELSE c + Len(s)
  OBVIOUS
<1>2. Max({Len(r), c + Len(s)}) = n
  BY <1>1, MaxOfTwo
<1>3. Printed(r, c, s) = [i \in 1 .. n |-> IF i \in c + 1 .. c + Len(s) THEN s[i - c]
                                           ELSE IF i <= Len(r) THEN r[i] ELSE Blank]
  BY <1>2 DEF Printed
<1>4. \A i \in 1 .. n : (IF i \in c + 1 .. c + Len(s) THEN s[i - c]
                         ELSE IF i <= Len(r) THEN r[i] ELSE Blank) \in Ink
  BY DEF Ink
<1> QED
  BY <1>1, <1>3, <1>4

LEMMA CountIsNat ==
  ASSUME esc_buffer \in Seq(Code), Len(esc_buffer) >= 2
  PROVE  Count \in Nat
<1> DEFINE digits == SubSeq(esc_buffer, 3, Len(esc_buffer))
<1>1. digits \in Seq(Code) /\ Len(digits) \in Nat
  OBVIOUS
<1>2. Count = IF digits = <<>> THEN 1 ELSE Number(digits)
  BY DEF Count
<1> HIDE DEF digits
<1> QED
  BY <1>1, <1>2, NumberIsNat

-----------------------------------------------------------------------------
(* Keys that leave the line open.                                           *)

LEMMA InvInit == ASSUME TerminalInit PROVE TermInv
<1> USE DEF TerminalInit, Init
<1>1. Shapes
  <2>1. <<>> \in Seq(Char) /\ <<>> \in Seq(Code)
    OBVIOUS
  <2> QED
    BY <2>1, Zenon DEF Shapes
<1>2. Editor
  BY DEF Editor
<1>3. Screen
  BY DEF Screen, ScreenShowsLine, Reading
<1>4. Phases
  BY DEF Phases, FsIdle, ReadsWhole
<1>5. NothingLost
  BY DEF NothingLost, FsIdle
<1> QED
  BY <1>1, <1>2, <1>3, <1>4, <1>5 DEF TermInv

\* What is right of the cursor.
LEMMA RestOfLine ==
  ASSUME Shapes, cursor_pos <= Len(buffer)
  PROVE  /\ Rest \in Seq(Ink) /\ Len(Rest) = Len(buffer) - cursor_pos
         /\ \A i \in 1 .. Len(Rest) : Rest[i] = buffer[cursor_pos + i]
<1>1. buffer \in Seq(Ink)
  <2>1. \A i \in 1 .. Len(buffer) : buffer[i] \in Ink
    BY DEF Shapes, Ink
  <2> QED
    BY <2>1 DEF Shapes
<1>2. PICK s \in Seq(Ink), n \in Nat : s = buffer /\ n = cursor_pos /\ n <= Len(s)
  BY <1>1 DEF Shapes
<1>3. LET t == SubSeq(s, n + 1, Len(s)) IN
      t \in Seq(Ink) /\ Len(t) = Len(s) - n /\ \A i \in 1 .. Len(t) : t[i] = s[n + i]
  BY <1>2, SMTT(30)
<1> QED
  BY <1>2, <1>3 DEF Rest

\* A key that changes neither the request nor what readers have keeps what
\* concerns them.
LEMMA KeyKeepsRequest ==
  ASSUME TermInv, Reading, UNCHANGED <<max_size, given, cut, req, pending>>,
         status' \in {"reading", "undefined"}
  PROVE  Phases' /\ NothingLost'
<1>1. status' # "idle" /\ status # "idle" /\ status = "reading"
  BY DEF Reading
<1>2. Phases'
  BY <1>1 DEF TermInv, Phases, ReadsWhole, FsIdle
<1>3. NothingLost'
  BY <1>1 DEF TermInv, NothingLost, FsIdle
<1> QED
  BY <1>2, <1>3

LEMMA TypeStep ==
  ASSUME TermInv, NEW ch \in Typed, Type(ch), UNCHANGED <<files, req, pending>>
  PROVE  TermInv'
<1>0. Shapes /\ Editor /\ Screen /\ Reading /\ status = "reading" /\ ch \in Char /\ ch \in Ink
  BY DEF TermInv, Type, Plain, Reading, Char, Ink
<1>1. UNCHANGED <<esc_buffer, max_size, given, start, cut, req, pending>>
  BY DEF Type, history
<1>2. CASE cursor_pos <= Len(buffer)
  <2>1. /\ buffer' = InsertAt(buffer, cursor_pos + 1, ch)
        /\ cursor_pos' = cursor_pos + 1
        /\ row' = Printed(row, col, <<ch>> \o Rest)
        /\ col' = col + Len(<<ch>> \o Rest) - Len(Rest)
        /\ status' = status
    BY <1>2 DEF Type, TypeEcho, Echo
  <2>2. /\ buffer' \in Seq(Char) /\ Len(buffer') = Len(buffer) + 1
        /\ \A i \in 1 .. Len(buffer') :
             buffer'[i] = IF i <= cursor_pos THEN buffer[i]
                          ELSE IF i = cursor_pos + 1 THEN ch ELSE buffer[i - 1]
    <3>1. buffer \in Seq(Char) /\ cursor_pos \in Nat
      BY <1>0 DEF Shapes
    <3> QED
      <4>1. IsInsertion(Char, buffer', buffer, cursor_pos, ch)
        BY <1>0, <1>2, <2>1, <3>1, Inserted
      <4> QED
        BY <4>1 DEF IsInsertion
  <2>3. Shapes'
    BY <1>0, <1>1, <2>1, <2>2 DEF Shapes
  <2>4. Editor'
    BY <1>0, <1>1, <1>2, <2>1, <2>2 DEF Editor, Shapes
  <2>5. Screen'
    <3> SUFFICES ASSUME ~cut
                 PROVE  /\ row' \in Seq(Ink) /\ start \in Nat /\ col' \in Nat
                        /\ status' # "idle"
                        /\ ScreenShowsLine'
      BY <1>1 DEF Screen
    <3>1. /\ row \in Seq(Ink) /\ start \in Nat /\ col \in Nat
          /\ cursor_pos \in Nat /\ buffer \in Seq(Char)
          /\ col = start + cursor_pos
          /\ Len(row) >= start + Len(buffer)
          /\ \A i \in 1 .. Len(row) :
               row[i] = IF i <= start THEN "p"
                        ELSE IF i <= start + Len(buffer) THEN buffer[i - start]
                        ELSE Blank
      BY <1>0 DEF Shapes, Screen, ScreenShowsLine
    <3>2. PICK rest \in Seq(Ink) : /\ rest = Rest /\ Len(rest) = Len(buffer) - cursor_pos
                                   /\ \A i \in 1 .. Len(rest) : rest[i] = buffer[cursor_pos + i]
      BY <1>0, <1>2, RestOfLine
    <3>3. PICK out \in Seq(Ink) : /\ out = <<ch>> \o rest
                                  /\ Len(out) = 1 + Len(rest)
                                  /\ out[1] = ch
                                  /\ \A i \in 1 .. Len(rest) : out[1 + i] = rest[i]
      <4>1. PICK key \in Seq(Ink) : key = <<ch>> /\ Len(key) = 1 /\ key[1] = ch
        BY <1>0, One
      <4>2. PICK both : both = key \o rest /\ IsJoin(Ink, both, key, rest)
        BY Joined
      <4>3. /\ both \in Seq(Ink) /\ Len(both) = Len(key) + Len(rest)
            /\ \A i \in 1 .. Len(key) : both[i] = key[i]
            /\ \A i \in 1 .. Len(rest) : both[Len(key) + i] = rest[i]
        BY <4>2 DEF IsJoin
      <4>4. both[1] = ch /\ \A i \in 1 .. Len(rest) : both[1 + i] = rest[i]
        BY <4>1, <4>3
      <4> QED
        BY <4>1, <4>2, <4>3, <4>4
    <3>4. /\ row' \in Seq(Ink)
          /\ Len(row') = IF Len(row) >= col + Len(out) THEN Len(row) ELSE col + Len(out)
          /\ \A i \in 1 .. Len(row') :
               row'[i] = IF i \in col + 1 .. col + Len(out) THEN out[i - col]
                         ELSE IF i <= Len(row) THEN row[i] ELSE Blank
      <4>1. row' = Printed(row, col, out)
        BY <2>1, <3>2, <3>3
      <4> QED
        BY <3>1, <4>1, PrintedAt
    <3>5. col' = col + 1
      <4>1. col' = col + Len(out) - Len(rest)
        BY <2>1, <3>2, <3>3
      <4> QED
        BY <3>1, <3>3, <4>1
    <3>6. Len(row') >= start + Len(buffer')
      BY <2>2, <3>1, <3>2, <3>3, <3>4
    <3>7. ASSUME NEW i \in 1 .. Len(row')
          PROVE  row'[i] = IF i <= start THEN "p"
                           ELSE IF i <= start + Len(buffer') THEN buffer'[i - start]
                           ELSE Blank
      <4>0. Len(row') \in Nat /\ i \in Int /\ Len(row) \in Nat /\ Len(buffer) \in Nat
        BY <3>1, <3>4
      <4>1. CASE i <= col
        <5>1. i \in 1 .. Len(row) /\ row'[i] = row[i]
          BY <1>2, <3>1, <3>4, <4>0, <4>1
        <5>2. i > start => i - start \in 1 .. Len(buffer') /\ buffer'[i - start] = buffer[i - start]
          BY <1>2, <2>2, <3>1, <4>0, <4>1
        <5> QED
          BY <1>2, <2>2, <3>1, <4>0, <4>1, <5>1, <5>2
      <4>2. CASE i = col + 1
        <5>1. i \in col + 1 .. col + Len(out) /\ i - col = 1
          BY <3>1, <3>2, <3>3, <4>0, <4>2
        <5>2. row'[i] = ch
          BY <3>3, <3>4, <5>1
        <5>3. i - start = cursor_pos + 1 /\ i - start \in 1 .. Len(buffer')
          BY <1>2, <2>2, <3>1, <4>0, <4>2
        <5> QED
          BY <2>2, <3>1, <4>0, <5>2, <5>3
      <4>3. CASE i > col + 1 /\ i <= col + Len(out)
        <5>1. /\ i \in col + 1 .. col + Len(out) /\ i - col \in 2 .. Len(out)
              /\ (i - col) - 1 \in 1 .. Len(rest)
              /\ 1 + ((i - col) - 1) = i - col
              /\ cursor_pos + ((i - col) - 1) = (i - start) - 1
          BY <3>1, <3>2, <3>3, <4>0, <4>3
        <5>4. PICK k \in 1 .. Len(rest) : k = (i - col) - 1 /\ 1 + k = i - col
                                          /\ cursor_pos + k = (i - start) - 1
          BY <5>1
        <5>5. row'[i] = out[i - col]
          BY <3>4, <5>1, <4>0
        <5>6. out[i - col] = rest[k]
          BY <3>3, <5>4
        <5>7. rest[k] = buffer[(i - start) - 1]
          BY <3>2, <5>4
        <5>2. row'[i] = buffer[(i - start) - 1]
          BY <5>5, <5>6, <5>7
        <5>3. i - start > cursor_pos + 1 /\ i - start \in 1 .. Len(buffer')
          BY <1>2, <2>2, <3>1, <3>2, <3>3, <4>0, <4>3
        <5> QED
          BY <2>2, <3>1, <4>0, <5>2, <5>3
      <4>4. CASE i > col + Len(out)
        <5>1. i \in 1 .. Len(row) /\ row'[i] = row[i]
          BY <3>1, <3>3, <3>4, <4>0, <4>4
        <5>2. i > start + Len(buffer') /\ i > start + Len(buffer)
          BY <1>2, <2>2, <3>1, <3>2, <3>3, <4>0, <4>4
        <5> QED
          BY <2>2, <3>1, <4>0, <5>1, <5>2
      <4> QED
        BY <3>1, <3>3, <4>0, <4>1, <4>2, <4>3, <4>4
    <3>8. ScreenShowsLine'
      <4>1. col' = start + cursor_pos'
        BY <2>1, <3>1, <3>5
      <4> QED
        BY <1>1, <3>6, <3>7, <4>1 DEF ScreenShowsLine
    <3> QED
      BY <1>0, <2>1, <3>1, <3>4, <3>5, <3>8
  <2> QED
    BY <1>0, <1>1, <2>1, <2>3, <2>4, <2>5, KeyKeepsRequest DEF TermInv
<1>3. CASE ~(cursor_pos <= Len(buffer))
  <2>1. status' = "undefined" /\ UNCHANGED <<buffer, cursor_pos, terminal>>
    BY <1>3 DEF Type
  <2>2. cut
    BY <1>0, <1>3 DEF Editor, Shapes
  <2>3. Shapes' /\ Editor' /\ Screen'
    BY <1>0, <1>1, <2>1, <2>2 DEF Shapes, Editor, Screen
  <2> QED
    BY <1>0, <1>1, <2>1, <2>3, KeyKeepsRequest DEF TermInv
<1> QED
  BY <1>2, <1>3

\* What is printed when the character left of the cursor goes: the rest of
\* the line and a blank over its last character.
IsErasure(out) ==
  /\ out \in Seq(Ink) /\ Len(out) = Len(buffer) - cursor_pos + 1
  /\ \A j \in 1 .. Len(buffer) - cursor_pos : out[j] = buffer[cursor_pos + j]
  /\ out[Len(buffer) - cursor_pos + 1] = Blank

LEMMA ErasedOnScreen ==
  ASSUME Shapes, Screen, Reading, ~cut, cursor_pos > 0, cursor_pos <= Len(buffer),
         NEW out, IsErasure(out), row' = Printed(row, col - 1, out), col' = col - 1,
         IsRemoval(Char, buffer', buffer, cursor_pos), cursor_pos' = cursor_pos - 1,
         start' = start
  PROVE  row' \in Seq(Ink) /\ col' \in Nat /\ ScreenShowsLine'
<1>1. /\ row \in Seq(Ink) /\ start \in Nat /\ col \in Nat
      /\ cursor_pos \in Nat /\ buffer \in Seq(Char)
      /\ col = start + cursor_pos
      /\ Len(row) >= start + Len(buffer)
      /\ \A i \in 1 .. Len(row) :
           row[i] = IF i <= start THEN "p"
                    ELSE IF i <= start + Len(buffer) THEN buffer[i - start]
                    ELSE Blank
  BY DEF Shapes, Screen, ScreenShowsLine
<1>2. PICK c \in Nat : c = col - 1
  BY <1>1
<1>3. PICK l \in Nat : l = Len(buffer) /\ Len(buffer') = l - 1
  BY <1>1 DEF IsRemoval
<1>4. /\ out \in Seq(Ink) /\ Len(out) = l - cursor_pos + 1
      /\ \A j \in 1 .. l - cursor_pos : out[j] = buffer[cursor_pos + j]
      /\ out[l - cursor_pos + 1] = Blank
  BY <1>3 DEF IsErasure
<1>5. \A i \in 1 .. l - 1 : buffer'[i] = IF i < cursor_pos THEN buffer[i] ELSE buffer[i + 1]
  BY <1>3 DEF IsRemoval
<1>6. /\ row' \in Seq(Ink)
      /\ Len(row') = IF Len(row) >= c + Len(out) THEN Len(row) ELSE c + Len(out)
      /\ \A i \in 1 .. Len(row') :
           row'[i] = IF i \in c + 1 .. c + Len(out) THEN out[i - c]
                     ELSE IF i <= Len(row) THEN row[i] ELSE Blank
  BY <1>1, <1>2, <1>4, PrintedAt, SMTT(30)
<1>7. PICK m \in Nat : m = Len(row) /\ Len(row') = m /\ m >= start + l
  BY <1>1, <1>2, <1>3, <1>4, <1>6
<1>7a. \A i \in 1 .. m : row'[i] = IF i > c /\ i <= c + (l - cursor_pos + 1) THEN out[i - c]
                                   ELSE row[i]
  BY <1>1, <1>2, <1>3, <1>4, <1>6, <1>7
<1>8. ASSUME NEW i \in 1 .. m
      PROVE  row'[i] = IF i <= start THEN "p"
                       ELSE IF i <= start + (l - 1) THEN buffer'[i - start]
                       ELSE Blank
  <2>1. CASE i <= c
    <3>1. row'[i] = row[i]
      BY <1>1, <1>2, <1>3, <1>7a, <2>1
    <3>2. i > start => i - start \in 1 .. l - 1 /\ i - start < cursor_pos
      BY <1>1, <1>2, <1>3, <2>1
    <3> QED
      BY <1>1, <1>2, <1>3, <1>5, <1>7, <2>1, <3>1, <3>2
  <2>2. CASE i > c /\ i < start + l
    <3>1. PICK j \in 1 .. l - cursor_pos : j = i - c /\ cursor_pos + j = (i - start) + 1
      BY <1>1, <1>2, <1>3, <2>2
    <3>2. row'[i] = out[j]
      <4>1. i > c /\ i <= c + (l - cursor_pos + 1)
        BY <1>1, <1>2, <1>3, <2>2
      <4> QED
        BY <1>7a, <3>1, <4>1
    <3>3. row'[i] = buffer[(i - start) + 1]
      BY <1>4, <3>1, <3>2
    <3>4. i - start \in 1 .. l - 1 /\ i - start >= cursor_pos
      BY <1>1, <1>2, <1>3, <2>2
    <3> QED
      BY <1>1, <1>5, <3>3, <3>4
  <2>3. CASE i = start + l
    <3>1. i - c = l - cursor_pos + 1 /\ i \in c + 1 .. c + Len(out)
      BY <1>1, <1>2, <1>3, <1>4, <2>3
    <3>2. row'[i] = Blank
      BY <1>4, <1>6, <1>7, <3>1
    <3>3. i > start /\ i > start + (l - 1)
      BY <1>1, <1>3, <2>3
    <3> QED
      BY <1>1, <3>2, <3>3
  <2>4. CASE i > start + l
    <3>1. i > c + Len(out)
      BY <1>1, <1>2, <1>3, <1>4, <2>4
    <3>2. row'[i] = row[i]
      BY <1>2, <1>4, <1>6, <1>7, <3>1
    <3> QED
      BY <1>1, <1>3, <1>7, <2>4, <3>2
  <2> QED
    BY <1>1, <1>2, <1>3, <2>1, <2>2, <2>3, <2>4
<1>9. col' = start + cursor_pos'
  BY <1>1
<1>10. Len(row') >= start + Len(buffer')
  BY <1>1, <1>3, <1>7
<1>11. \A i \in 1 .. Len(row') :
         row'[i] = IF i <= start THEN "p"
                   ELSE IF i <= start + Len(buffer') THEN buffer'[i - start]
                   ELSE Blank
  BY <1>3, <1>7, <1>8
<1> QED
  BY <1>1, <1>2, <1>6, <1>9, <1>10, <1>11 DEF ScreenShowsLine

LEMMA LastRemoved ==
  ASSUME NEW T, NEW s \in Seq(T), s # <<>>
  PROVE  IsRemoval(T, Front(s), s, Len(s))
<1>0. PICK n \in Nat : n = Len(s) - 1
  OBVIOUS
<1>1. PICK t : t = SubSeq(s, 1, n) /\ n = Len(s) - 1
  BY <1>0
<1>2. t \in Seq(T) /\ Len(t) = n /\ \A i \in 1 .. n : t[i] = s[i]
  BY <1>1
<1>3. \A i \in 1 .. Len(t) : t[i] = IF i < Len(s) THEN s[i] ELSE s[i + 1]
  BY <1>0, <1>2
<1>4. Front(s) = t
  BY <1>1 DEF Front
<1> QED
  BY <1>1, <1>2, <1>3, <1>4 DEF IsRemoval

LEMMA BackspaceStep ==
  ASSUME TermInv, Backspace, UNCHANGED <<files, req, pending>>
  PROVE  TermInv'
<1>0. /\ Shapes /\ Editor /\ Screen /\ Reading /\ status = "reading"
      /\ buffer \in Seq(Char) /\ cursor_pos \in Nat /\ Blank \in Ink
  BY DEF TermInv, Backspace, Plain, Reading, Shapes, Ink
<1>1. /\ UNCHANGED <<esc_buffer, status, max_size, given, start, cut, req, pending>>
      /\ cursor_pos > 0 /\ cursor_pos' = cursor_pos - 1
  BY DEF Backspace, history
<1>2. \/ /\ cursor_pos < Len(buffer)
         /\ EchoBack(Rest \o <<Blank>>, Len(Rest) + 1)
         /\ buffer' = RemoveAt(buffer, cursor_pos)
      \/ /\ cursor_pos >= Len(buffer) /\ buffer # <<>>
         /\ EchoBack(<<Blank>>, 1)
         /\ buffer' = Front(buffer)
  BY DEF Backspace
<1>3. ASSUME /\ cursor_pos < Len(buffer)
             /\ EchoBack(Rest \o <<Blank>>, Len(Rest) + 1)
             /\ buffer' = RemoveAt(buffer, cursor_pos)
      PROVE  /\ buffer' \in Seq(Char) /\ Len(buffer') = Len(buffer) - 1
             /\ ~cut => row' \in Seq(Ink) /\ col' \in Nat /\ ScreenShowsLine'
  <2>1. IsRemoval(Char, buffer', buffer, cursor_pos)
    BY <1>0, <1>1, <1>3, Removed
  <2>2. PICK rest \in Seq(Ink) : /\ rest = Rest /\ Len(rest) = Len(buffer) - cursor_pos
                                 /\ \A i \in 1 .. Len(rest) : rest[i] = buffer[cursor_pos + i]
    BY <1>0, <1>3, RestOfLine
  <2>3. PICK key \in Seq(Ink) : key = <<Blank>> /\ Len(key) = 1 /\ key[1] = Blank
    BY <1>0, One
  <2>4. PICK out : out = rest \o key /\ IsJoin(Ink, out, rest, key)
    BY Joined
  <2>5. /\ out \in Seq(Ink) /\ Len(out) = Len(rest) + 1
        /\ \A i \in 1 .. Len(rest) : out[i] = rest[i]
        /\ out[Len(rest) + 1] = Blank
    <3>1. /\ out \in Seq(Ink) /\ Len(out) = Len(rest) + Len(key)
          /\ \A i \in 1 .. Len(rest) : out[i] = rest[i]
          /\ \A i \in 1 .. Len(key) : out[Len(rest) + i] = key[i]
      BY <2>4 DEF IsJoin
    <3> QED
      BY <2>3, <3>1
  <2>6. IsErasure(out)
    BY <2>2, <2>5 DEF IsErasure
  <2>7. /\ row' = Printed(row, col - 1, out)
        /\ col' = col - 1 + Len(out) - (Len(rest) + 1)
    BY <1>3, <2>2, <2>3, <2>4 DEF EchoBack
  <2>8. ~cut => col' = col - 1
    BY <1>0, <2>5, <2>7 DEF Screen
  <2>9. ~cut => row' \in Seq(Ink) /\ col' \in Nat /\ ScreenShowsLine'
    BY <1>0, <1>1, <1>3, <2>1, <2>6, <2>7, <2>8, ErasedOnScreen
  <2> QED
    BY <2>1, <2>9 DEF IsRemoval
<1>4. ASSUME /\ cursor_pos >= Len(buffer) /\ buffer # <<>>
             /\ EchoBack(<<Blank>>, 1)
             /\ buffer' = Front(buffer)
      PROVE  /\ buffer' \in Seq(Char) /\ Len(buffer') = Len(buffer) - 1
             /\ ~cut => row' \in Seq(Ink) /\ col' \in Nat /\ ScreenShowsLine'
  <2>1. IsRemoval(Char, buffer', buffer, Len(buffer))
    BY <1>0, <1>4, LastRemoved
  <2>2. PICK out \in Seq(Ink) : out = <<Blank>> /\ Len(out) = 1 /\ out[1] = Blank
    BY <1>0, One
  <2>3. cursor_pos = Len(buffer) => IsErasure(out)
    BY <1>0, <2>2 DEF IsErasure
  <2>4. row' = Printed(row, col - 1, out) /\ col' = col - 1 + Len(out) - 1
    BY <1>4, <2>2 DEF EchoBack
  <2>5. ~cut => col' = col - 1 /\ cursor_pos = Len(buffer)
    BY <1>0, <1>4, <2>2, <2>4 DEF Screen, Editor
  <2>6. ~cut => row' \in Seq(Ink) /\ col' \in Nat /\ ScreenShowsLine'
    BY <1>0, <1>1, <1>4, <2>1, <2>3, <2>4, <2>5, ErasedOnScreen
  <2> QED
    BY <2>1, <2>6 DEF IsRemoval
<1>5. /\ buffer' \in Seq(Char) /\ Len(buffer') = Len(buffer) - 1
      /\ ~cut => row' \in Seq(Ink) /\ col' \in Nat /\ ScreenShowsLine'
  BY <1>2, <1>3, <1>4
<1>6. Shapes'
  BY <1>0, <1>1, <1>5 DEF Shapes
<1>7. Editor'
  BY <1>0, <1>1, <1>5 DEF Editor
<1>8. Screen'
  BY <1>0, <1>1, <1>5 DEF Screen
<1> QED
  BY <1>0, <1>1, <1>6, <1>7, <1>8, KeyKeepsRequest DEF TermInv

LEMMA EscapeStep ==
  ASSUME TermInv, Escape, UNCHANGED <<files, req, pending>>
  PROVE  TermInv'
<1>0. Shapes /\ Editor /\ Screen /\ Reading /\ status = "reading"
  BY DEF TermInv, Escape, Plain, Reading
<1>1. /\ UNCHANGED <<buffer, cursor_pos, status, max_size, given, row, col, start, cut,
                     req, pending>>
      /\ esc_buffer' = <<Esc>>
  BY DEF Escape, terminal, history
<1>2. esc_buffer' \in Seq(Code)
  BY <1>1, One DEF Code
<1>3. Shapes' /\ Editor' /\ Screen'
  BY <1>0, <1>1, <1>2 DEF Shapes, Editor, Screen, ScreenShowsLine, Reading
<1> QED
  BY <1>0, <1>1, <1>3, KeyKeepsRequest DEF TermInv

\* A key inside an escape sequence moves the cursor within the line.
LEMMA CursorMoved ==
  ASSUME Shapes, Editor, Screen, Reading, NEW ch \in Code, EscapeKey(ch)
  PROVE  /\ esc_buffer' \in Seq(Code) /\ cursor_pos' \in Nat /\ row' = row
         /\ ~cut => cursor_pos' <= Len(buffer) /\ col' = start + cursor_pos'
<1>0. /\ buffer \in Seq(Char) /\ cursor_pos \in Nat /\ esc_buffer \in Seq(Code)
      /\ ~cut => /\ cursor_pos <= Len(buffer) /\ start \in Nat /\ col \in Nat
                 /\ col = start + cursor_pos
  BY DEF Shapes, Editor, Screen, ScreenShowsLine
<1>1. PICK seq : seq = Append(esc_buffer, ch)
  OBVIOUS
<1>2. seq \in Seq(Code) /\ Len(seq) = Len(esc_buffer) + 1
  BY <1>0, <1>1
<1>3. /\ esc_buffer' = seq \/ esc_buffer' = <<>>
      /\ \/ Len(seq) > 2 /\ MoveRight
         \/ Len(seq) > 2 /\ MoveLeft
         \/ UNCHANGED <<cursor_pos, col>>
      /\ row' = row
  BY <1>1 DEF EscapeKey
<1>4. esc_buffer' \in Seq(Code)
  BY <1>2, <1>3, EmptySeq, Zenon
<1>5. ASSUME Len(seq) > 2 PROVE Count \in Nat
  <2>1. Len(esc_buffer) >= 2
    BY <1>0, <1>2, <1>5
  <2> QED
    BY <1>0, <2>1, CountIsNat
<1>6. CASE Len(seq) > 2 /\ MoveRight
  <2>1. PICK c \in Nat : c = cursor_pos + Count
    BY <1>0, <1>5, <1>6
  <2>2. PICK l \in Nat : l = Len(buffer)
    BY <1>0
  <2>3. cursor_pos' = Min({c, l})
    BY <1>6, <2>1, <2>2 DEF MoveRight
  <2>4. cursor_pos' = IF c <= l THEN c ELSE l
    BY <2>1, <2>2, <2>3, MinOfTwo
  <2>5. ~cut => cursor_pos' >= cursor_pos
    BY <1>0, <1>5, <1>6, <2>1, <2>2, <2>4
  <2>6. ~cut => col' = col + cursor_pos' - cursor_pos
    BY <1>6, <2>5 DEF MoveRight
  <2>7. cursor_pos' \in Nat /\ cursor_pos' <= Len(buffer)
    BY <2>1, <2>2, <2>4
  <2> QED
    BY <1>0, <1>3, <1>4, <2>6, <2>7
<1>7. CASE Len(seq) > 2 /\ MoveLeft
  <2>1. PICK c \in Nat : c = Count
    BY <1>5, <1>7
  <2>2. PICK n \in Nat : n = Min({Count, cursor_pos}) /\ n <= cursor_pos
    BY <1>0, <2>1, MinOfTwo
  <2>3. cursor_pos' = cursor_pos - n /\ col' = Max({0, col - n})
    BY <1>7, <2>2 DEF MoveLeft
  <2>4. ~cut => col' = col - n
    <3> SUFFICES ASSUME ~cut PROVE Max({0, col - n}) = col - n
      BY <2>3
    <3>1. PICK d \in Nat : d = col - n
      BY <1>0, <2>2
    <3> QED
      BY <3>1, MaxOfTwo
  <2> QED
    BY <1>0, <1>3, <1>4, <2>2, <2>3, <2>4, SMTT(30)
<1>8. CASE UNCHANGED <<cursor_pos, col>>
  BY <1>0, <1>3, <1>4, <1>8
<1> QED
  BY <1>3, <1>6, <1>7, <1>8

LEMMA EscapeKeyStep ==
  ASSUME TermInv, NEW ch \in Coded \ {Enter}, EscapeKey(ch), UNCHANGED <<files, req, pending>>
  PROVE  TermInv'
<1>0. Shapes /\ Editor /\ Screen /\ Reading /\ status = "reading" /\ ch \in Code /\ ch # Enter
  BY DEF TermInv, EscapeKey, Reading, Code
<1>1. UNCHANGED <<buffer, status, max_size, given, start, cut, req, pending>>
  BY <1>0 DEF EscapeKey
<1>2. /\ esc_buffer' \in Seq(Code) /\ cursor_pos' \in Nat /\ row' = row
      /\ ~cut => cursor_pos' <= Len(buffer) /\ col' = start + cursor_pos'
  BY <1>0, CursorMoved
<1>3. Shapes' /\ Editor'
  BY <1>0, <1>1, <1>2 DEF Shapes, Editor
<1>4. Screen'
  <2> SUFFICES ASSUME ~cut
               PROVE  row' \in Seq(Ink) /\ start' \in Nat /\ col' \in Nat /\ ScreenShowsLine'
    BY <1>0, <1>1 DEF Screen
  <2>1. row' \in Seq(Ink) /\ start' \in Nat /\ col' \in Nat
    BY <1>0, <1>1, <1>2 DEF Screen
  <2>2. ScreenShowsLine'
    BY <1>0, <1>1, <1>2 DEF Screen, ScreenShowsLine
  <2> QED
    BY <2>1, <2>2
<1> QED
  BY <1>0, <1>1, <1>3, <1>4, KeyKeepsRequest DEF TermInv

-----------------------------------------------------------------------------
(* Keys that end the line, and what readers are given.                      *)

LEMMA Regrouped ==
  ASSUME NEW a \in Seq(Char), NEW b \in Seq(Char), NEW c \in Seq(Char)
  PROVE  (a \o b) \o c = a \o (b \o c)
BY ConcatAssociative

LEMMA Delivered ==
  ASSUME NEW line \in Seq(Char), NEW size \in Nat, Deliver(line, size)
  PROVE  /\ buffer' \in Seq(Char) /\ given' \in Seq(Char)
         /\ given' \o buffer' = line
         /\ Len(given') <= size
         /\ given' = <<>> => buffer' = line /\ (size = 0 \/ line = <<>>)
         /\ status' = "idle" /\ max_size' = 0 /\ start' = 0
<1>1. PICK l \in Nat : l = Len(line)
  OBVIOUS
<1>2. PICK n \in Nat : n = IF size <= l THEN size ELSE l
  BY <1>1
<1>3. n = Min({size, Len(line)})
  BY <1>1, <1>2, MinOfTwo
<1>4. given' = SubSeq(line, 1, n) /\ buffer' = SubSeq(line, n + 1, l)
  BY <1>1, <1>3 DEF Deliver
<1>5. given' \in Seq(Char) /\ Len(given') = n /\ \A i \in 1 .. n : given'[i] = line[i]
  BY <1>1, <1>2, <1>4
<1>6. buffer' \in Seq(Char) /\ Len(buffer') = l - n /\ \A i \in 1 .. l - n : buffer'[i] = line[n + i]
  <2>1. IsPart(Char, buffer', line, n, l)
    BY <1>1, <1>2, <1>4, Parted
  <2> QED
    BY <2>1 DEF IsPart
<1>7. PICK both : both = given' \o buffer'
  OBVIOUS
<1>8. IsJoin(Char, both, given', buffer')
  BY <1>5, <1>6, <1>7, Joined
<1>9. /\ both \in Seq(Char) /\ Len(both) = l
      /\ \A i \in 1 .. n : both[i] = line[i]
      /\ \A i \in 1 .. l - n : both[n + i] = line[n + i]
  <2>1. /\ both \in Seq(Char) /\ Len(both) = Len(given') + Len(buffer')
        /\ \A i \in 1 .. Len(given') : both[i] = given'[i]
        /\ \A i \in 1 .. Len(buffer') : both[Len(given') + i] = buffer'[i]
    BY <1>8 DEF IsJoin
  <2>2. Len(given') = n /\ Len(buffer') = l - n /\ n + (l - n) = l
    BY <1>1, <1>2, <1>5, <1>6
  <2>3. Len(both) = l
    BY <2>1, <2>2
  <2>4. \A i \in 1 .. n : both[i] = line[i]
    BY <1>5, <2>1, <2>2
  <2>5. \A i \in 1 .. l - n : both[n + i] = line[n + i]
    BY <1>6, <2>1, <2>2
  <2> QED
    BY <2>1, <2>3, <2>4, <2>5
<1>10. \A i \in 1 .. l : both[i] = line[i]
  <2> SUFFICES ASSUME NEW i \in 1 .. l, i > n PROVE both[i] = line[i]
    BY <1>1, <1>2, <1>9
  <2>1. PICK k \in 1 .. l - n : k = i - n
    BY <1>1, <1>2
  <2>2. n + k = i
    BY <1>2, <2>1
  <2> QED
    BY <1>9, <2>1, <2>2
<1>11. both = line
  BY <1>1, <1>9, <1>10, SeqEqual
<1>12. given' = <<>> => n = 0
  BY <1>5
<1>13. n = 0 => given' = <<>> /\ (size = 0 \/ line = <<>>)
  BY <1>1, <1>2, <1>5
<1>14. given' = <<>> => buffer' = line
  BY <1>6, <1>7, <1>11, ConcatEmptySeq
<1>15. Len(given') <= size
  BY <1>1, <1>2, <1>5
<1>16. status' = "idle" /\ max_size' = 0 /\ start' = 0
  BY DEF Deliver
<1> QED
  BY <1>5, <1>6, <1>7, <1>11, <1>12, <1>13, <1>14, <1>15, <1>16

\* What a line that ends does to the request that waits for it.
LEMMA LineGoesToReader ==
  ASSUME TermInv, Reading, NEW line \in Seq(Char), Deliver(line, max_size), req' = req,
         pending' = pending \o line,
         cut' \/ line # <<>>
  PROVE  Phases' /\ NothingLost' /\ pending' \in Seq(Char)
<1>0. /\ Shapes /\ Phases /\ NothingLost /\ status = "reading"
      /\ pending \in Seq(Char) /\ max_size \in Nat /\ line \in Seq(Char)
  BY DEF TermInv, Shapes, Reading
<1>1. /\ buffer' \in Seq(Char) /\ given' \in Seq(Char)
      /\ given' \o buffer' = line
      /\ Len(given') <= max_size
      /\ given' = <<>> => buffer' = line /\ (max_size = 0 \/ line = <<>>)
      /\ status' = "idle"
  BY <1>0, Delivered
<1>2. ~FsIdle /\ req.pc = "wait" /\ given = <<>> /\ max_size = req.size - Len(req.got)
  BY <1>0 DEF Phases
<1>3. req.got \in Seq(Char) /\ req.size \in Nat
  BY <1>0, <1>2 DEF Shapes, ReadRequest, FsIdle
<1>4. FsIdle' = FsIdle
  BY DEF FsIdle
<1>5. Len(req.got) + Len(given') <= req.size
  BY <1>1, <1>2, <1>3
<1>6. given' = <<>> /\ Len(req.got) < req.size => cut' /\ buffer' = <<>>
  BY <1>1, <1>2, <1>3
<1>7. Len(req.got) <= req.size
  BY <1>0, <1>2 DEF Phases
<1>8. Phases'
  BY <1>1, <1>2, <1>4, <1>5, <1>6, <1>7 DEF Phases, ReadsWhole
<1>9. pending = req.got
  <2>1. req.got \o <<>> \o <<>> = pending
    BY <1>0, <1>2 DEF NothingLost
  <2> QED
    BY <1>3, <2>1, ConcatEmptySeq
<1>10. req.got \o given' \o buffer' = pending \o line
  <2>1. (req.got \o given') \o buffer' = req.got \o (given' \o buffer')
    <3>1. PICK a \in Seq(Char), b \in Seq(Char), c \in Seq(Char) :
            a = req.got /\ b = given' /\ c = buffer'
      BY <1>1, <1>3
    <3>2. (a \o b) \o c = a \o (b \o c)
      BY Regrouped
    <3> QED
      BY <3>1, <3>2
  <2> QED
    BY <1>1, <1>9, <2>1
<1>11. NothingLost'
  BY <1>1, <1>2, <1>4, <1>10 DEF NothingLost
<1>12. pending' \in Seq(Char)
  BY <1>0
<1> QED
  BY <1>8, <1>11, <1>12

LEMMA LineEndedStep ==
  ASSUME TermInv, LineEnded
  PROVE  TermInv'
<1>0. /\ Shapes /\ Editor /\ Screen /\ Reading /\ req' = req
      /\ buffer \in Seq(Char) /\ pending \in Seq(Char) /\ max_size \in Nat
  BY DEF TermInv, LineEnded, End, EndLine, EscapeKey, Plain, Shapes
<1>1. CASE EndLine
  <2>1. /\ esc_buffer = <<>> /\ esc_buffer' = esc_buffer
        /\ row' = <<>> /\ col' = 0 /\ cursor_pos' = 0 /\ cut' = FALSE
        /\ Deliver(Append(buffer, Newline), max_size)
    BY <1>1 DEF EndLine, Plain, EchoNewline
  <2>2. PICK line \in Seq(Char) : /\ line = Append(buffer, Newline) /\ line # <<>>
                                  /\ line = buffer \o <<Newline>>
    <3>1. Newline \in Char
      BY DEF Char
    <3>2. Append(buffer, Newline) = buffer \o <<Newline>>
      BY <1>0, <3>1, AppendIsConcat
    <3>3. Append(buffer, Newline) \in Seq(Char) /\ Append(buffer, Newline) # <<>>
      BY <1>0, <3>1, AppendProperties
    <3> QED
      BY <3>2, <3>3
  <2>3. pending' = pending \o line
    <3>1. pending' = (pending \o buffer) \o <<Newline>>
      BY <2>1 DEF LineEnded
    <3>2. <<Newline>> \in Seq(Char)
      BY DEF Char
    <3> QED
      BY <1>0, <2>2, <3>1, <3>2, ConcatAssociative
  <2>4. Phases' /\ NothingLost' /\ pending' \in Seq(Char)
    BY <1>0, <2>1, <2>2, <2>3, LineGoesToReader
  <2>5. /\ buffer' \in Seq(Char) /\ given' \in Seq(Char)
        /\ status' = "idle" /\ max_size' = 0 /\ start' = 0
    BY <1>0, <2>1, <2>2, Delivered
  <2>6. Shapes'
    BY <1>0, <2>1, <2>4, <2>5 DEF Shapes
  <2>7. Editor'
    BY <2>1, <2>5 DEF Editor
  <2>8. Screen'
    BY <2>1, <2>5 DEF Screen, ScreenShowsLine, Reading
  <2> QED
    BY <2>4, <2>6, <2>7, <2>8 DEF TermInv
<1>2. CASE EscapeKey(Enter)
  <2>1. /\ esc_buffer # <<>> /\ cut' = TRUE /\ Deliver(buffer, max_size)
    BY <1>2 DEF EscapeKey
  <2>2. pending' = pending \o buffer
    <3>1. pending' = (pending \o buffer) \o <<>>
      BY <2>1 DEF LineEnded
    <3>2. pending \o buffer \in Seq(Char)
      BY <1>0
    <3> QED
      BY <3>1, <3>2, ConcatEmptySeq
  <2>3. Phases' /\ NothingLost' /\ pending' \in Seq(Char)
    BY <1>0, <2>1, <2>2, LineGoesToReader
  <2>4. /\ buffer' \in Seq(Char) /\ given' \in Seq(Char)
        /\ status' = "idle" /\ max_size' = 0 /\ start' = 0
    BY <1>0, <2>1, Delivered
  <2>5. esc_buffer' \in Seq(Code) /\ cursor_pos' \in Nat
    BY <1>0, <1>2, CursorMoved DEF Code
  <2>6. Shapes'
    BY <1>0, <2>1, <2>3, <2>4, <2>5 DEF Shapes
  <2>7. Editor' /\ Screen'
    BY <2>1 DEF Editor, Screen
  <2> QED
    BY <2>3, <2>6, <2>7 DEF TermInv
<1> QED
  BY <1>1, <1>2 DEF LineEnded, End

-----------------------------------------------------------------------------
(* Requests.                                                                *)

LEMMA FilesStep ==
  ASSUME TermInv, UNCHANGED <<vars, req, pending>>
  PROVE  TermInv'
<1>1. UNCHANGED <<buffer, cursor_pos, esc_buffer, status, max_size, given, row, col,
                  start, cut, req, pending>>
  BY DEF vars, console, terminal, history
<1>2. Shapes' /\ Editor' /\ Screen'
  BY <1>1 DEF TermInv, Shapes, Editor, Screen, ScreenShowsLine, Reading
<1>3. Phases' /\ NothingLost'
  BY <1>1 DEF TermInv, Phases, ReadsWhole, NothingLost, FsIdle
<1> QED
  BY <1>2, <1>3 DEF TermInv

LEMMA RequestStep ==
  ASSUME TermInv, NEW c \in Client, NEW size \in MaxSizes, Request(c, size)
  PROVE  TermInv'
<1>0. Shapes /\ Editor /\ Screen /\ Phases /\ NothingLost /\ FsIdle
  BY DEF TermInv, Request
<1>1. UNCHANGED <<buffer, cursor_pos, esc_buffer, status, max_size, given, row, col,
                  start, cut, pending>>
  BY DEF Request, vars, console, terminal, history
<1>2. /\ req' = [client |-> c, size |-> size, got |-> <<>>, pc |-> "call"]
      /\ size \in Nat
  BY ConsoleAssumption DEF Request
<1>3. req' \in ReadRequest /\ req' # Nobody
  <2>1. <<>> \in Seq(Char)
    OBVIOUS
  <2>2. req' \in ReadRequest
    BY <1>2, <2>1 DEF ReadRequest
  <2> QED
    BY <2>2, TerminalAssumption
<1>4. status = "idle" /\ given = <<>> /\ ~FsIdle'
  BY <1>0, <1>3 DEF Phases, FsIdle
<1>5. Shapes' /\ Editor' /\ Screen'
  BY <1>0, <1>1, <1>3 DEF Shapes, Editor, Screen, ScreenShowsLine, Reading
<1>6. req'.got = <<>> /\ req'.pc = "call" /\ req'.size = size /\ Len(req'.got) = 0
  BY <1>2
<1>7. Phases'
  BY <1>1, <1>2, <1>4, <1>6 DEF Phases, ReadsWhole
<1>8. NothingLost'
  BY <1>0, <1>1, <1>4, <1>6 DEF NothingLost
<1> QED
  BY <1>5, <1>7, <1>8 DEF TermInv

LEMMA OutputStep ==
  ASSUME TermInv, NEW c \in Client, NEW ch \in {"p", Newline}, Output(c, ch)
  PROVE  TermInv'
<1>0. /\ Shapes /\ Editor /\ Screen /\ Phases /\ NothingLost /\ status = "idle"
      /\ Write(ch) /\ req' = req /\ pending' = pending
  BY DEF TermInv, Output, Write
<1>1. UNCHANGED <<buffer, cursor_pos, esc_buffer, status, max_size, given, start, cut>>
  BY <1>0 DEF Write, console, history
<1>2. Shapes' /\ Editor'
  BY <1>0, <1>1 DEF Shapes, Editor
<1>3. Phases' /\ NothingLost'
  BY <1>0, <1>1 DEF Phases, ReadsWhole, NothingLost, FsIdle
<1>4. Screen'
  <2> SUFFICES ASSUME ~cut
               PROVE  /\ row' \in Seq(Ink) /\ start \in Nat /\ col' \in Nat
                      /\ col' = Len(row') /\ \A i \in 1 .. Len(row') : row'[i] = "p"
    BY <1>0, <1>1 DEF Screen, ScreenShowsLine, Reading
  <2>0. /\ row \in Seq(Ink) /\ start \in Nat /\ col \in Nat /\ col = Len(row)
        /\ \A i \in 1 .. Len(row) : row[i] = "p"
    BY <1>0 DEF Screen
  <2>1. CASE ch = Newline
    <3>1. row' = <<>> /\ col' = 0
      BY <1>0, <2>1 DEF Write, EchoNewline
    <3> QED
      BY <2>0, <3>1
  <2>2. CASE ch # Newline
    <3>1. ch = "p" /\ Echo(<<ch>>, 0)
      BY <1>0, <2>2 DEF Write
    <3>2. PICK key \in Seq(Ink) : key = <<ch>> /\ Len(key) = 1 /\ key[1] = "p"
      BY <3>1, One DEF Ink
    <3>3. row' = Printed(row, col, key) /\ col' = col + Len(key) - 0
      BY <3>1, <3>2 DEF Echo
    <3>4. /\ row' \in Seq(Ink)
          /\ Len(row') = IF Len(row) >= col + Len(key) THEN Len(row) ELSE col + Len(key)
          /\ \A i \in 1 .. Len(row') :
               row'[i] = IF i \in col + 1 .. col + Len(key) THEN key[i - col]
                         ELSE IF i <= Len(row) THEN row[i] ELSE Blank
      BY <2>0, <3>3, PrintedAt, SMTT(30)
    <3>5. Len(row') = col + 1 /\ col' = col + 1
      BY <2>0, <3>2, <3>3, <3>4
    <3>6. \A i \in 1 .. col : row'[i] = "p"
      BY <2>0, <3>2, <3>4, <3>5
    <3>7. row'[col + 1] = "p"
      BY <2>0, <3>2, <3>4, <3>5
    <3> QED
      BY <2>0, <3>4, <3>5, <3>6, <3>7
  <2> QED
    BY <2>1, <2>2
<1> QED
  BY <1>2, <1>3, <1>4 DEF TermInv

LEMMA ReadCallStep ==
  ASSUME TermInv, ReadCall
  PROVE  TermInv'
<1>0. /\ Shapes /\ Editor /\ Screen /\ Phases /\ NothingLost
      /\ ~FsIdle /\ req.pc = "call" /\ status = "idle" /\ pending' = pending
      /\ req' = [req EXCEPT !.pc = "wait"]
      /\ Read(Length(req))
  BY DEF TermInv, ReadCall, Read
<1>1. req \in ReadRequest /\ req.got \in Seq(Char) /\ req.size \in Nat
  BY <1>0 DEF Shapes, ReadRequest, FsIdle
<1>2. req' \in ReadRequest /\ req'.got = req.got /\ req'.size = req.size /\ req'.pc = "wait"
  BY <1>0, <1>1 DEF ReadRequest
<1>3. ~FsIdle'
  BY <1>2, TerminalAssumption DEF FsIdle
<1>4. given = <<>> /\ Len(req.got) <= req.size
  BY <1>0 DEF Phases
<1>5. PICK size \in Nat : size = Length(req) /\ size = req.size - Len(req.got)
  BY <1>1, <1>4 DEF Length
<1>6. UNCHANGED <<row, col, cursor_pos, esc_buffer, cut>>
  BY <1>0 DEF Read, terminal, console
<1>7. CASE buffer = <<>>
  <2>1. /\ status' = "reading" /\ max_size' = size /\ start' = col
        /\ buffer' = buffer /\ given' = given
    BY <1>0, <1>5, <1>7 DEF Read, console
  <2>2. Shapes'
    BY <1>0, <1>2, <1>6, <2>1 DEF Shapes
  <2>3. Editor'
    BY <1>0, <1>6, <2>1 DEF Editor
  <2>4. Screen'
    <3> SUFFICES ASSUME ~cut
                 PROVE  row' \in Seq(Ink) /\ start' \in Nat /\ col' \in Nat /\ ScreenShowsLine'
      BY <1>6, <2>1 DEF Screen
    <3>1. /\ row \in Seq(Ink) /\ col \in Nat /\ col = Len(row) /\ cursor_pos = 0
          /\ \A i \in 1 .. Len(row) : row[i] = "p"
      BY <1>0 DEF Screen, Editor
    <3>2. Len(buffer) = 0
      BY <1>7
    <3>3. ScreenShowsLine'
      BY <1>6, <2>1, <3>1, <3>2 DEF ScreenShowsLine
    <3> QED
      BY <1>6, <2>1, <3>1, <3>3
  <2>5. Phases'
    BY <1>2, <1>3, <1>4, <1>5, <2>1 DEF Phases, ReadsWhole
  <2>6. NothingLost'
    <3>1. req.got \o given \o buffer = pending
      BY <1>0 DEF NothingLost
    <3> QED
      BY <1>0, <1>2, <1>3, <1>7, <2>1, <3>1 DEF NothingLost
  <2> QED
    BY <2>2, <2>3, <2>4, <2>5, <2>6 DEF TermInv
<1>8. CASE buffer # <<>>
  <2>0. buffer \in Seq(Char)
    BY <1>0 DEF Shapes
  <2>1. Deliver(buffer, size)
    BY <1>0, <1>5, <1>8 DEF Read
  <2>2. /\ buffer' \in Seq(Char) /\ given' \in Seq(Char)
        /\ given' \o buffer' = buffer
        /\ Len(given') <= size
        /\ given' = <<>> => buffer' = buffer /\ (size = 0 \/ buffer = <<>>)
        /\ status' = "idle" /\ max_size' = 0 /\ start' = 0
    BY <2>0, <2>1, Delivered
  <2>3. Shapes'
    BY <1>0, <1>2, <1>6, <2>2 DEF Shapes
  <2>4. Editor'
    BY <1>0, <1>6, <2>2 DEF Editor
  <2>5. Screen'
    BY <1>0, <1>6, <2>2 DEF Screen, ScreenShowsLine, Reading
  <2>6. Len(req.got) + Len(given') <= req.size
    BY <1>1, <1>5, <2>2
  <2>7. given' = <<>> => ~(Len(req.got) < req.size)
    BY <1>1, <1>5, <1>8, <2>2
  <2>8. Phases'
    BY <1>2, <1>3, <1>4, <2>2, <2>6, <2>7 DEF Phases, ReadsWhole
  <2>9. NothingLost'
    <3>1. req.got \o <<>> \o buffer = pending
      BY <1>0, <1>4 DEF NothingLost
    <3>2. req.got \o buffer = pending
      BY <1>1, <3>1, ConcatEmptySeq
    <3>3. (req.got \o given') \o buffer' = req.got \o (given' \o buffer')
      <4>1. PICK a \in Seq(Char), b \in Seq(Char), d \in Seq(Char) :
              a = req.got /\ b = given' /\ d = buffer'
        BY <1>1, <2>2
      <4>2. (a \o b) \o d = a \o (b \o d)
        BY Regrouped
      <4> QED
        BY <4>1, <4>2
    <3>4. (req.got \o given') \o buffer' = pending
      BY <2>2, <3>2, <3>3
    <3> QED
      BY <1>0, <1>2, <1>3, <2>2, <3>4 DEF NothingLost
  <2> QED
    BY <2>3, <2>4, <2>5, <2>8, <2>9 DEF TermInv
<1> QED
  BY <1>7, <1>8

LEMMA PieceStep ==
  ASSUME TermInv, Piece
  PROVE  TermInv'
<1>0. /\ Shapes /\ Editor /\ Screen /\ Phases /\ NothingLost
      /\ ~FsIdle /\ req.pc = "wait" /\ status = "idle" /\ pending' = pending
      /\ req' = [req EXCEPT !.got = @ \o given, !.pc = AfterPiece(given, req)]
      /\ given' = <<>>
  BY DEF TermInv, Piece
<1>1. UNCHANGED <<buffer, cursor_pos, esc_buffer, status, max_size, row, col, start, cut>>
  BY DEF Piece, console, terminal, history
<1>2. /\ req \in ReadRequest /\ req.got \in Seq(Char) /\ req.size \in Nat
      /\ given \in Seq(Char) /\ buffer \in Seq(Char)
  BY <1>0 DEF Shapes, ReadRequest, FsIdle
<1>3. PICK all_got \in Seq(Char) : /\ all_got = req.got \o given
                                   /\ Len(all_got) = Len(req.got) + Len(given)
  <2>1. PICK a \in Seq(Char), b \in Seq(Char) : a = req.got /\ b = given
    BY <1>2
  <2>2. a \o b \in Seq(Char) /\ Len(a \o b) = Len(a) + Len(b)
    BY ConcatProperties
  <2> QED
    BY <2>1, <2>2
<1>4. AfterPiece(given, req) \in {"call", "done"}
  BY DEF AfterPiece
<1>5. /\ req' \in ReadRequest
      /\ req'.got = all_got /\ req'.size = req.size /\ req'.pc = AfterPiece(given, req)
  BY <1>0, <1>2, <1>3, <1>4 DEF ReadRequest
<1>6. ~FsIdle'
  BY <1>5, TerminalAssumption DEF FsIdle
<1>7. Shapes'
  <2>1. <<>> \in Seq(Char)
    OBVIOUS
  <2> QED
    BY <1>0, <1>1, <1>5, <2>1 DEF Shapes
<1>8. Editor' /\ Screen'
  BY <1>0, <1>1 DEF Editor, Screen, ScreenShowsLine, Reading
<1>9. /\ Len(req.got) + Len(given) <= req.size
      /\ given = <<>> /\ Len(req.got) < req.size => cut /\ buffer = <<>>
  BY <1>0 DEF Phases
<1>10. ASSUME req'.pc = "done"
       PROVE  Len(req'.got) = req'.size \/ (cut' /\ buffer' = <<>>)
  <2>1. given = <<>> \/ ~(Len(req.got) + Len(given) < req.size)
    BY <1>5, <1>10 DEF AfterPiece
  <2>2. CASE ~(Len(req.got) + Len(given) < req.size)
    <3>1. Len(req.got) + Len(given) = req.size
      BY <1>2, <1>9, <2>2, SMTT(30)
    <3> QED
      BY <1>3, <1>5, <3>1
  <2>3. CASE given = <<>> /\ Len(req.got) + Len(given) < req.size
    <3>1. Len(req.got) < req.size
      BY <1>2, <2>3
    <3> QED
      BY <1>1, <1>9, <2>3, <3>1
  <2> QED
    BY <2>1, <2>2, <2>3
<1>11. Phases'
  <2>1. req'.pc # "wait"
    BY <1>4, <1>5
  <2>2. Len(req'.got) <= req'.size
    BY <1>3, <1>5, <1>9
  <2> QED
    BY <1>0, <1>1, <1>6, <1>10, <2>1, <2>2 DEF Phases, ReadsWhole
<1>12. NothingLost'
  <2>1. req.got \o given \o buffer = pending
    BY <1>0 DEF NothingLost
  <2>2. all_got \o <<>> = all_got
    BY ConcatEmptySeq
  <2>3. req'.got \o given' \o buffer' = pending'
    BY <1>0, <1>1, <1>3, <1>5, <2>1, <2>2
  <2> QED
    BY <1>0, <1>1, <1>6, <2>3 DEF NothingLost
<1> QED
  BY <1>7, <1>8, <1>11, <1>12 DEF TermInv

LEMMA AnswerStep ==
  ASSUME TermInv, Answer
  PROVE  TermInv'
<1>0. /\ Shapes /\ Editor /\ Screen /\ Phases /\ NothingLost
      /\ ~FsIdle /\ req.pc = "done" /\ req' = Nobody
      /\ pending' = SubSeq(pending, Len(req.got) + 1, Len(pending))
  BY DEF TermInv, Answer
<1>1. UNCHANGED <<buffer, cursor_pos, esc_buffer, status, max_size, given, row, col,
                  start, cut>>
  BY DEF Answer, vars, console, terminal, history
<1>2. status = "idle" /\ given = <<>>
  BY <1>0 DEF Phases
<1>3. req.got \in Seq(Char) /\ buffer \in Seq(Char) /\ pending \in Seq(Char)
  BY <1>0 DEF Shapes, ReadRequest, FsIdle
<1>4. FsIdle'
  BY <1>0 DEF FsIdle
<1>5. req.got \o buffer = pending
  <2>1. req.got \o <<>> \o buffer = pending
    BY <1>0, <1>2 DEF NothingLost
  <2> QED
    BY <1>3, <2>1, ConcatEmptySeq
<1>6. pending' = buffer
  <2>1. PICK a \in Seq(Char), b \in Seq(Char), m \in Nat, n \in Nat :
          a = req.got /\ b = buffer /\ m = Len(a) /\ n = Len(pending)
    BY <1>3
  <2>2. IsJoin(Char, pending, a, b)
    BY <1>5, <2>1, Joined
  <2>3. /\ Len(pending) = Len(a) + Len(b)
        /\ \A i \in 1 .. Len(b) : pending[Len(a) + i] = b[i]
    BY <2>2 DEF IsJoin
  <2>4. IsPart(Char, pending', pending, m, n)
    <3>1. m <= n
      BY <2>1, <2>3
    <3>2. pending' = SubSeq(pending, m + 1, n)
      BY <1>0, <2>1
    <3>3. IsPart(Char, SubSeq(pending, m + 1, n), pending, m, n)
      BY <1>3, <2>1, <3>1, Parted
    <3> QED
      BY <3>2, <3>3
  <2>5. pending' \in Seq(Char) /\ Len(pending') = Len(b)
        /\ \A i \in 1 .. Len(b) : pending'[i] = pending[m + i]
    BY <2>1, <2>3, <2>4 DEF IsPart
  <2> QED
    BY <2>1, <2>3, <2>5, SeqEqual
<1>7. Shapes'
  BY <1>0, <1>1, <1>3, <1>6 DEF Shapes
<1>8. Editor' /\ Screen'
  BY <1>0, <1>1 DEF Editor, Screen, ScreenShowsLine, Reading
<1>9. Phases'
  BY <1>1, <1>2, <1>4 DEF Phases, ReadsWhole
<1>10. NothingLost'
  <2>1. <<>> \o <<>> \o buffer = buffer
    BY <1>3, ConcatEmptySeq
  <2> QED
    BY <1>1, <1>2, <1>4, <1>6, <2>1 DEF NothingLost
<1> QED
  BY <1>7, <1>8, <1>9, <1>10 DEF TermInv

-----------------------------------------------------------------------------
(* Results.                                                                 *)

\* The invariant of the terminal holds for any keys, pauses and reads: the line
\* in the buffer, what the screen shows and what readers hold go together.
THEOREM InvHolds == TerminalSpec => []TermInv
<1>1. TermInv /\ [TerminalNext]_all => TermInv'
  <2> SUFFICES ASSUME TermInv, [TerminalNext]_all PROVE TermInv'
    OBVIOUS
  <2>1. ASSUME NEW c \in Client, Use(c) PROVE TermInv'
    <3>1. ASSUME NEW path \in Paths, Open(c, path) PROVE TermInv'
      BY <3>1, FilesStep DEF Open
    <3>2. ASSUME Close(c) PROVE TermInv'
      BY <3>2, FilesStep DEF Close
    <3>3. ASSUME Exit(c) PROVE TermInv'
      BY <3>3, FilesStep DEF Exit
    <3>4. ASSUME NEW size \in MaxSizes, Request(c, size) PROVE TermInv'
      BY <3>4, RequestStep
    <3>5. ASSUME NEW ch \in {"p", Newline}, Output(c, ch) PROVE TermInv'
      BY <3>5, OutputStep
    <3> QED
      BY <2>1, <3>1, <3>2, <3>3, <3>4, <3>5 DEF Use
  <2>2. CASE Serve
    BY <2>2, ReadCallStep, PieceStep, AnswerStep DEF Serve
  <2>3. CASE KeyPressed
    <3>1. UNCHANGED <<files, req, pending>> /\ Edit
      BY <2>3 DEF KeyPressed
    <3> QED
      BY <3>1, TypeStep, BackspaceStep, EscapeStep, EscapeKeyStep DEF Edit
  <2>4. CASE LineEnded
    BY <2>4, LineEndedStep
  <2>5. CASE UNCHANGED all
    BY <2>5, FilesStep DEF all
  <2> QED
    BY <2>1, <2>2, <2>3, <2>4, <2>5 DEF TerminalNext
<1> QED
  BY <1>1, InvInit, PTL DEF TerminalSpec

\* After any keys, requests and output, in any order and over any number of
\* lines, cooked_read has its cursor inside its buffer, unless a line was
\* ended inside an escape sequence: only then can an insert be undefined.
THEOREM EditorStaysInside == TerminalSpec => []EditsInsideLine
<1>1. TermInv => EditsInsideLine
  BY DEF TermInv, Shapes, Editor, EditsInsideLine
<1> QED
  BY <1>1, InvHolds, PTL

\* While a line is edited the terminal shows it behind the prompt, cursor
\* included, for every line length, prompt and escape sequence.
THEOREM TerminalShowsLine == TerminalSpec => []ScreenShowsLine
<1>1. TermInv => ScreenShowsLine
  BY DEF TermInv, Screen, ScreenShowsLine
<1> QED
  BY <1>1, InvHolds, PTL

\* What was in the lines that were ended reaches the readers once and in
\* order, through the console's buffer and the pieces that fs asks for.
THEOREM EveryKeyIsRead == TerminalSpec => []NothingLost
<1>1. TermInv => NothingLost
  BY DEF TermInv
<1> QED
  BY <1>1, InvHolds, PTL

\* fs answers a read with all that was asked for, or with less only after a
\* line that was ended inside an escape sequence has left nothing to give.
THEOREM ReadsAreWhole == TerminalSpec => []ReadsWhole
<1>1. TermInv => ReadsWhole
  BY DEF TermInv, Phases
<1> QED
  BY <1>1, InvHolds, PTL
===============================================================================
