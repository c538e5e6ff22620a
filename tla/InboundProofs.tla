--------------------------- MODULE InboundProofs ----------------------------
(***************************************************************************)
(* Proofs about Inbound.  The inductive invariant (InboundInv) has two     *)
(* halves.  Until a line of a payload is taken for a control line, Aligned *)
(* says what is on the wire (GoodWire: behind a control line comes its     *)
(* frame, the lines come in order), what the task in recv() has in hand    *)
(* (HandOf: how much of which frame, and that the wire goes on with the    *)
(* rest of it), and how far it has come (ReadUpTo: the lines up to frame n *)
(* have been read, the frames up to d are done with, the rest is on the    *)
(* wire); StrayInv says which payloads are read as lines.  From then on    *)
(* Strayed says what is left of that.                                      *)
(***************************************************************************)
EXTENDS Inbound, FiniteSetTheorems, TLAPS

-----------------------------------------------------------------------------
(* Frames and their cells                                                  *)

Bytes == {"chr", "nl", "text"}

Calls == [frame : 1 .. Frames, head : Nat, bytes : Seq(CellType), stray : BOOLEAN]

LEMMA ConcatFacts ==
  ASSUME NEW S, NEW s \in Seq(S), NEW t \in Seq(S), NEW u, u = s \o t,
         NEW n, n = Len(s)
  PROVE  /\ u \in Seq(S) /\ Len(u) = n + Len(t) /\ n \in Nat /\ Len(t) \in Nat
         /\ \A k \in 1 .. n : u[k] = s[k]
         /\ \A k \in 1 .. Len(t) : u[n + k] = t[k]
OBVIOUS

LEMMA FrameFacts ==
  ASSUME NEW f \in Frame
  PROVE  /\ f.kind \in Control \/ f.kind \in Message
         /\ f.kind \in Control => f.kind \notin Message /\ f.body = <<>>
         /\ f.body \in Seq(Bytes) /\ f.head \in Nat /\ f.reply \in BOOLEAN
         /\ f.kind \in Message => f.sid \in Sid
         /\ f.kind = "MSG" => f.head = 0
         /\ f.kind = "HMSG" => f.head <= Len(f.body)
<1> USE InboundAssumption
<1>1. CASE f \in [kind : Control, sid : {0}, reply : {FALSE}, head : {0}, body : {<<>>}]
  <2>1. <<>> \in Seq(Bytes)
    OBVIOUS
  <2>2. f.body = <<>> /\ f.kind \in Control /\ f.head = 0 /\ f.reply = FALSE
    BY <1>1
  <2> QED
    <3>1. f.kind \notin Message /\ f.kind # "MSG" /\ f.kind # "HMSG"
      BY <2>2 DEF Control, Message
    <3>2. f.body \in Seq(Bytes)
      BY <2>1, <2>2
    <3>3. f.head \in Nat
      BY <2>2
    <3>4. f.reply \in BOOLEAN
      BY <2>2
    <3> QED
      BY <2>2, <3>1, <3>2, <3>3, <3>4 DEF Message
<1>2. CASE f \in [kind : {"MSG"}, sid : Sid, reply : BOOLEAN, head : {0}, body : Body]
  BY <1>2 DEF Control, Message, Bytes
<1>3. CASE f \in [kind : {"HMSG"}, sid : Sid, reply : BOOLEAN, head : Heads, body : Body]
           /\ f.head <= Len(f.body)
  BY <1>3 DEF Control, Message, Bytes
<1> QED
  BY <1>1, <1>2, <1>3 DEF Frame

LEMMA NoLineFrame == NoLine \in Frame
BY DEF NoLine, Frame, Control

\* A frame has its line first, then the bytes of its payload, then CR and LF.
LEMMA CellsFacts ==
  ASSUME NEW f \in Frame, NEW i \in 1 .. Frames
  PROVE  /\ Cells(f, i) \in Seq(CellType)
         /\ Len(Cells(f, i)) = IF f.kind \in Message THEN Len(f.body) + 3 ELSE 1
         /\ Cells(f, i)[1] = Cell("line", i)
         /\ \A m \in 2 .. Len(Cells(f, i)) :
              Cells(f, i)[m].kind # "line" /\ Cells(f, i)[m].of = i
         /\ f.kind \in Message =>
              /\ \A m \in 1 .. Len(f.body) : Cells(f, i)[m + 1] = Cell(f.body[m], i)
              /\ Cells(f, i)[Len(f.body) + 2] = Cell("cr", i)
              /\ Cells(f, i)[Len(f.body) + 3] = Cell("lf", i)
<1> USE FrameFacts
<1>0. Cell("line", i) \in CellType /\ Cell("line", i).kind = "line" /\ Cell("line", i).of = i
  BY DEF Cell, CellType
<1>1. CASE f.kind \notin Message
  <2>1. Cells(f, i) = <<Cell("line", i)>> \o << >>
    BY <1>1 DEF Cells
  <2>2. Cells(f, i) = <<Cell("line", i)>>
    BY <2>1
  <2> QED
    BY <1>0, <1>1, <2>2
<1>2. CASE f.kind \in Message
  <2> DEFINE b == [k \in 1 .. Len(f.body) |-> Cell(f.body[k], i)]
             e == <<Cell("cr", i), Cell("lf", i)>>
             L == Len(f.body)
  <2>1. Cells(f, i) = <<Cell("line", i)>> \o (b \o e)
    BY <1>2 DEF Cells
  <2>2. f.body \in Seq(Bytes) /\ L \in Nat /\ \A k \in 1 .. L : f.body[k] \in Bytes
    OBVIOUS
  <2>3. \A k \in 1 .. L : Cell(f.body[k], i) \in CellType /\ Cell(f.body[k], i).kind \in Bytes
                          /\ Cell(f.body[k], i).of = i
    BY <2>2 DEF Cell, CellType, Bytes
  <2>4. b \in Seq(CellType) /\ Len(b) = L /\ \A k \in 1 .. L : b[k] = Cell(f.body[k], i)
    BY <2>2, <2>3
  <2>5. Cell("cr", i) \in CellType /\ Cell("lf", i) \in CellType
    BY DEF Cell, CellType
  <2>6. e \in Seq(CellType) /\ Len(e) = 2 /\ e[1] = Cell("cr", i) /\ e[2] = Cell("lf", i)
    BY <2>5
  <2> HIDE DEF b, e
  <2>7. /\ b \o e \in Seq(CellType) /\ Len(b \o e) = L + 2
        /\ \A k \in 1 .. L : (b \o e)[k] = Cell(f.body[k], i)
        /\ (b \o e)[L + 1] = Cell("cr", i) /\ (b \o e)[L + 2] = Cell("lf", i)
    <3> DEFINE r == b \o e
    <3>1. b \in Seq(CellType) /\ e \in Seq(CellType)
      BY <2>4, <2>6
    <3>2. /\ r \in Seq(CellType) /\ Len(r) = Len(b) + Len(e)
          /\ \A k \in 1 .. Len(b) : r[k] = b[k]
          /\ \A k \in 1 .. Len(e) : r[Len(b) + k] = e[k]
      BY ONLY <3>1, ConcatFacts
    <3> HIDE DEF r
    <3>3. r[L + 1] = e[1] /\ r[L + 2] = e[2] /\ Len(r) = L + 2
      <4>1. 1 \in 1 .. Len(e) /\ 2 \in 1 .. Len(e)
        BY <2>6
      <4> QED
        BY <2>4, <2>6, <3>2, <4>1
    <3>4. \A k \in 1 .. L : r[k] = Cell(f.body[k], i)
      BY <2>4, <3>2
    <3> QED
      BY <2>6, <3>2, <3>3, <3>4 DEF r
  <2>8. /\ Cells(f, i) \in Seq(CellType) /\ Len(Cells(f, i)) = L + 3
        /\ Cells(f, i)[1] = Cell("line", i)
        /\ \A k \in 1 .. L + 2 : Cells(f, i)[k + 1] = (b \o e)[k]
    <3> DEFINE r == b \o e
    <3>1. r \in Seq(CellType) /\ Len(r) = L + 2
      BY <2>7
    <3> HIDE DEF r
    <3>2. /\ <<Cell("line", i)>> \o r \in Seq(CellType) /\ Len(<<Cell("line", i)>> \o r) = L + 3
          /\ (<<Cell("line", i)>> \o r)[1] = Cell("line", i)
          /\ \A k \in 1 .. L + 2 : (<<Cell("line", i)>> \o r)[k + 1] = r[k]
      <4> DEFINE h == <<Cell("line", i)>>
                 c == h \o r
      <4>1. h \in Seq(CellType) /\ Len(h) = 1 /\ h[1] = Cell("line", i)
        BY <1>0
      <4> HIDE DEF h
      <4>2. h \in Seq(CellType)
        BY <4>1
      <4>3. /\ c \in Seq(CellType) /\ Len(c) = Len(h) + Len(r)
            /\ \A k \in 1 .. Len(h) : c[k] = h[k]
            /\ \A k \in 1 .. Len(r) : c[Len(h) + k] = r[k]
        <5>1. r \in Seq(CellType)
          BY <3>1
        <5> QED
          BY ONLY <4>2, <5>1, ConcatFacts
      <4> HIDE DEF c
      <4>4. \A k \in 1 .. L + 2 : c[k + 1] = r[k]
        <5>1. \A k \in 1 .. L + 2 : c[1 + k] = r[k] /\ 1 + k = k + 1
          BY <2>2, <3>1, <4>1, <4>3
        <5> QED
          BY <5>1
      <4>5. c[1] = Cell("line", i) /\ Len(c) = L + 3
        BY <2>2, <3>1, <4>1, <4>3
      <4> QED
        BY <4>3, <4>4, <4>5 DEF c, h
    <3> QED
      BY <2>1, <3>2 DEF r
  <2>9. ASSUME NEW m \in 1 .. L
        PROVE  Cells(f, i)[m + 1] = Cell(f.body[m], i)
    <3>1. m \in 1 .. L + 2
      BY <2>2
    <3> QED
      BY <2>7, <2>8, <3>1
  <2>10. Cells(f, i)[L + 2] = Cell("cr", i) /\ Cells(f, i)[L + 3] = Cell("lf", i)
    <3>1. Cells(f, i)[(L + 1) + 1] = (b \o e)[L + 1] /\ Cells(f, i)[(L + 2) + 1] = (b \o e)[L + 2]
      <4>1. L + 1 \in 1 .. L + 2 /\ L + 2 \in 1 .. L + 2
        BY <2>2
      <4> QED
        BY <2>8, <4>1
    <3>2. (L + 1) + 1 = L + 2 /\ (L + 2) + 1 = L + 3
      BY <2>2
    <3> QED
      BY <2>7, <3>1, <3>2
  <2>11. ASSUME NEW m \in 2 .. L + 3
         PROVE  Cells(f, i)[m].kind # "line" /\ Cells(f, i)[m].of = i
    <3>1. CASE m \in 2 .. L + 1
      <4>1. m - 1 \in 1 .. L /\ (m - 1) + 1 = m
        BY <2>2, <3>1
      <4>2. Cells(f, i)[m] = Cell(f.body[m - 1], i)
        BY <2>9, <4>1
      <4> QED
        BY <2>3, <4>1, <4>2 DEF Bytes
    <3>2. CASE m = L + 2 \/ m = L + 3
      BY <2>10, <3>2 DEF Cell
    <3> QED
      BY <2>2, <3>1, <3>2
  <2> QED
    BY <1>2, <2>8, <2>9, <2>10, <2>11
<1> QED
  BY <1>1, <1>2

\* A sequence in four parts, of which the first has three elements.
LEMMA FourParts ==
  ASSUME NEW S, NEW a \in S, NEW b \in S, NEW c \in S, NEW d \in S,
         NEW s \in Seq(S), NEW t \in Seq(S)
  PROVE  LET w == <<a, b, c>> \o s \o t \o <<d>> IN
         /\ w \in Seq(S) /\ Len(w) = Len(s) + Len(t) + 4
         /\ \A k \in 1 .. Len(s) : w[3 + k] = s[k]
         /\ \A k \in 1 .. Len(t) : w[3 + Len(s) + k] = t[k]
         /\ w[Len(w)] = d
<1> DEFINE h == <<a, b, c>>
           u == h \o s
           v == u \o t
           e == <<d>>
           w == v \o e
<1>1. h \in Seq(S) /\ e \in Seq(S)
  OBVIOUS
<1>2. Len(h) = 3 /\ Len(e) = 1 /\ e[1] = d
  OBVIOUS
<1> HIDE DEF h, e
<1>3. /\ u \in Seq(S) /\ Len(u) = Len(h) + Len(s) /\ Len(h) \in Nat /\ Len(s) \in Nat
      /\ \A k \in 1 .. Len(s) : u[Len(h) + k] = s[k]
  BY <1>1, ConcatFacts
<1> HIDE DEF u
<1>11. u \in Seq(S)
  BY <1>3
<1>4. /\ v \in Seq(S) /\ Len(v) = Len(u) + Len(t) /\ Len(t) \in Nat
      /\ \A k \in 1 .. Len(u) : v[k] = u[k]
      /\ \A k \in 1 .. Len(t) : v[Len(u) + k] = t[k]
  BY <1>11, ConcatFacts
<1> HIDE DEF v
<1>12. v \in Seq(S)
  BY <1>4
<1>5. /\ w \in Seq(S) /\ Len(w) = Len(v) + Len(e)
      /\ \A k \in 1 .. Len(v) : w[k] = v[k]
      /\ \A k \in 1 .. Len(e) : w[Len(v) + k] = e[k]
  BY <1>1, <1>12, ConcatFacts
<1> HIDE DEF w
<1>6. Len(u) = 3 + Len(s) /\ Len(v) = 3 + Len(s) + Len(t) /\ Len(w) = Len(v) + 1
  BY <1>2, <1>3, <1>4, <1>5
<1>7. ASSUME NEW k \in 1 .. Len(s) PROVE w[3 + k] = s[k]
  <2>1. 3 + k \in 1 .. Len(u) /\ 3 + k \in 1 .. Len(v)
    BY <1>3, <1>4, <1>6
  <2>2. u[3 + k] = s[k]
    BY <1>2, <1>3
  <2> QED
    BY <1>4, <1>5, <2>1, <2>2
<1>8. ASSUME NEW k \in 1 .. Len(t) PROVE w[3 + Len(s) + k] = t[k]
  <2>1. 3 + Len(s) + k \in 1 .. Len(v)
    BY <1>3, <1>4, <1>6
  <2>2. v[3 + Len(s) + k] = t[k]
    BY <1>4, <1>6
  <2> QED
    BY <1>5, <2>1, <2>2
<1>9. w[Len(w)] = d
  <2>1. 1 \in 1 .. Len(e) /\ w[Len(v) + 1] = e[1]
    BY <1>2, <1>5
  <2> QED
    BY <1>2, <1>6, <2>1
<1>10. Len(w) = Len(s) + Len(t) + 4
  BY <1>3, <1>4, <1>6
<1> QED
  BY <1>5, <1>7, <1>8, <1>9, <1>10 DEF w, v, u, h, e

\* The words of a message from the fourth on.
LEMMA WordsFacts ==
  ASSUME NEW f \in Frame, f.kind \in Message
  PROVE  /\ Words(f) \in Seq({f.kind, "subject", f.sid, NotANumber, f.head, Len(f.body)})
         /\ f.kind = "MSG" /\ ~f.reply => Len(Words(f)) = 4 /\ Words(f)[4] = Len(f.body)
         /\ f.kind = "MSG" /\ f.reply =>
              Len(Words(f)) = 5 /\ Words(f)[5] = Len(f.body) /\ Words(f)[4] = NotANumber
         /\ f.kind = "HMSG" /\ ~f.reply =>
              Len(Words(f)) = 5 /\ Words(f)[5] = Len(f.body) /\ Words(f)[4] = f.head
         /\ f.kind = "HMSG" /\ f.reply =>
              /\ Len(Words(f)) = 6 /\ Words(f)[6] = Len(f.body) /\ Words(f)[5] = f.head
              /\ Words(f)[4] = NotANumber
<1> DEFINE b == Len(f.body)
           S == {f.kind, "subject", f.sid, NotANumber, f.head, b}
           s == IF f.reply THEN <<NotANumber>> ELSE <<>>
           t == IF f.kind = "HMSG" THEN <<f.head>> ELSE <<>>
           w == <<f.kind, "subject", f.sid>> \o s \o t \o <<b>>
<1>1. f.kind \notin Control
  BY FrameFacts DEF Message, Control
<1>2. Words(f) = w
  BY <1>1 DEF Words
<1>3. /\ f.kind \in S /\ "subject" \in S /\ f.sid \in S /\ NotANumber \in S /\ f.head \in S
      /\ b \in S
  OBVIOUS
<1> HIDE DEF S
<1>4. /\ s \in Seq(S)
      /\ f.reply => Len(s) = 1 /\ s[1] = NotANumber
      /\ ~f.reply => Len(s) = 0
  BY <1>3
<1>5. /\ t \in Seq(S)
      /\ f.kind = "HMSG" => Len(t) = 1 /\ t[1] = f.head
      /\ f.kind = "MSG" => Len(t) = 0
  BY <1>3
<1> HIDE DEF s, t, b
<1>6. /\ w \in Seq(S) /\ Len(w) = Len(s) + Len(t) + 4
      /\ \A k \in 1 .. Len(s) : w[3 + k] = s[k]
      /\ \A k \in 1 .. Len(t) : w[3 + Len(s) + k] = t[k]
      /\ w[Len(w)] = b
  <2>1. s \in Seq(S) /\ t \in Seq(S)
    BY <1>4, <1>5
  <2> QED
    BY ONLY <1>3, <2>1, FourParts
<1> HIDE DEF w
<1>7. Len(s) = 1 => w[4] = s[1]
  <2>1. 1 \in 1 .. Len(s) => w[3 + 1] = s[1]
    BY <1>6
  <2> QED
    BY <2>1
<1>8. Len(t) = 1 => (Len(s) = 0 => w[4] = t[1]) /\ (Len(s) = 1 => w[5] = t[1])
  <2>1. 1 \in 1 .. Len(t) => w[3 + Len(s) + 1] = t[1]
    BY <1>6
  <2>2. \A n : (n = 0 => 3 + n + 1 = 4) /\ (n = 1 => 3 + n + 1 = 5)
    OBVIOUS
  <2>3. Len(t) = 1 => 1 \in 1 .. Len(t)
    OBVIOUS
  <2> QED
    BY <2>1, <2>2, <2>3
<1>9. /\ f.kind = "MSG" /\ ~f.reply => Len(w) = 4 /\ w[4] = b
      /\ f.kind = "MSG" /\ f.reply => Len(w) = 5 /\ w[5] = b /\ w[4] = NotANumber
      /\ f.kind = "HMSG" /\ ~f.reply => Len(w) = 5 /\ w[5] = b /\ w[4] = f.head
      /\ f.kind = "HMSG" /\ f.reply =>
           Len(w) = 6 /\ w[6] = b /\ w[5] = f.head /\ w[4] = NotANumber
  <2>1. Len(s) = (IF f.reply THEN 1 ELSE 0) /\ Len(t) = (IF f.kind = "HMSG" THEN 1 ELSE 0)
    BY <1>4, <1>5 DEF Message
  <2>2. Len(w) = Len(s) + Len(t) + 4 /\ w[Len(w)] = b
    BY <1>6
  <2>3. f.kind = "MSG" => f.kind # "HMSG"
    OBVIOUS
  <2> QED
    BY <1>4, <1>5, <1>7, <1>8, <2>1, <2>2, <2>3
<1> QED
  BY <1>2, <1>6, <1>9 DEF S, b

\* What strtok() leaves of them.
LEMMA ArgvFacts ==
  ASSUME NEW f \in Frame, f.kind \in Message
  PROVE  /\ Argc(f) = IF Len(Words(f)) < MaxArgs THEN Len(Words(f)) ELSE MaxArgs
         /\ \A k \in 1 .. Argc(f) : Argv(f)[k] = Words(f)[k]
         /\ Argc(f) \in Nat
<1> DEFINE S == {f.kind, "subject", f.sid, NotANumber, f.head, Len(f.body)}
           n == IF Len(Words(f)) < MaxArgs THEN Len(Words(f)) ELSE MaxArgs
<1>1. Words(f) \in Seq(S) /\ Len(Words(f)) \in Nat
  BY WordsFacts
<1>2. n \in 0 .. Len(Words(f))
  BY <1>1, InboundAssumption
<1>3. Argv(f) = SubSeq(Words(f), 1, n)
  BY DEF Argv
<1> HIDE DEF n, S
<1>4. Len(Argv(f)) = n /\ \A k \in 1 .. n : Argv(f)[k] = Words(f)[k]
  BY <1>1, <1>2, <1>3
<1> QED
  BY <1>2, <1>4 DEF Argc, n

\* What recv() accepts it reads as it was sent: the length of the payload and of
\* the headers in it, whatever NATS_MAX_ARGV is.
LEMMA AcceptsFacts ==
  ASSUME NEW f \in Frame, f.kind \in Message, Accepts(f)
  PROVE  ReadSize(f) = Len(f.body) /\ (f.kind = "HMSG" => HeaderSize(f) = f.head)
<1>1. MaxArgs \in Nat
  BY InboundAssumption
<1> USE DEF Message
<1>4. /\ Argc(f) = IF Len(Words(f)) < MaxArgs THEN Len(Words(f)) ELSE MaxArgs
      /\ \A k \in 1 .. Argc(f) : Argv(f)[k] = Words(f)[k]
  BY ArgvFacts
<1>5. /\ f.kind = "MSG" /\ ~f.reply => Len(Words(f)) = 4 /\ Words(f)[4] = Len(f.body)
      /\ f.kind = "MSG" /\ f.reply =>
           Len(Words(f)) = 5 /\ Words(f)[5] = Len(f.body) /\ Words(f)[4] = NotANumber
      /\ f.kind = "HMSG" /\ ~f.reply =>
           Len(Words(f)) = 5 /\ Words(f)[5] = Len(f.body) /\ Words(f)[4] = f.head
      /\ f.kind = "HMSG" /\ f.reply =>
           /\ Len(Words(f)) = 6 /\ Words(f)[6] = Len(f.body) /\ Words(f)[5] = f.head
           /\ Words(f)[4] = NotANumber
  BY WordsFacts
<1>2. CASE f.kind = "MSG"
  <2>1. Argc(f) \in {4, 5} /\ PayloadSize(f) >= 0
    BY <1>2 DEF Accepts, AcceptsMsg
  <2>2. CASE ~f.reply
    <3>1. Argc(f) = 4
      BY <1>1, <1>2, <2>1, <2>2, <1>4, <1>5
    <3>2. Argv(f)[4] = Len(f.body)
      BY <1>2, <2>2, <3>1, <1>4, <1>5
    <3> QED
      BY <1>2, <3>1, <3>2 DEF ReadSize, PayloadSize
  <2>3. CASE f.reply /\ Argc(f) = 5
    <3>1. Argv(f)[5] = Len(f.body)
      BY <1>2, <2>3, <1>4, <1>5
    <3> QED
      BY <1>2, <2>3, <3>1 DEF ReadSize, PayloadSize
  <2>4. CASE f.reply /\ Argc(f) = 4
    <3>1. Argv(f)[4] = NotANumber
      BY <1>2, <2>4, <1>4, <1>5
    <3> QED
      BY <2>1, <2>4, <3>1 DEF PayloadSize, NotANumber
  <2> QED
    BY <2>1, <2>2, <2>3, <2>4
<1>3. CASE f.kind = "HMSG"
  <2>1. Argc(f) \in {5, 6} /\ HeaderSize(f) >= 0
    BY <1>3 DEF Accepts, AcceptsHmsg
  <2>2. CASE ~f.reply
    <3>1. Argc(f) = 5
      BY <1>1, <1>3, <2>1, <2>2, <1>4, <1>5
    <3>2. Argv(f)[4] = f.head /\ Argv(f)[5] = Len(f.body)
      BY <1>3, <2>2, <3>1, <1>4, <1>5
    <3> QED
      BY <1>3, <3>1, <3>2 DEF ReadSize, TotalSize, HeaderSize
  <2>3. CASE f.reply /\ Argc(f) = 6
    <3>1. Argv(f)[5] = f.head /\ Argv(f)[6] = Len(f.body)
      BY <1>3, <2>3, <1>4, <1>5
    <3> QED
      BY <1>3, <2>3, <3>1 DEF ReadSize, TotalSize, HeaderSize
  <2>4. CASE f.reply /\ Argc(f) = 5
    <3>1. Argv(f)[4] = NotANumber
      BY <1>3, <2>4, <1>4, <1>5
    <3> QED
      BY <2>1, <2>4, <3>1 DEF HeaderSize, NotANumber
  <2> QED
    BY <2>1, <2>2, <2>3, <2>4
<1> QED
  BY <1>2, <1>3 

\* With five words recv() accepts every message within the limits, but for HMSG
\* with a reply.
LEMMA WithinAccepted ==
  ASSUME NEW f \in Frame, f.kind \in Message, WithinLimits(f), MaxArgs >= 5,
         ~(f.kind = "HMSG" /\ f.reply)
  PROVE  Accepts(f)
<1>1. MaxArgs \in Nat /\ Len(f.body) \in Nat
  BY InboundAssumption, FrameFacts
<1>5. /\ Argc(f) = IF Len(Words(f)) < MaxArgs THEN Len(Words(f)) ELSE MaxArgs
      /\ \A k \in 1 .. Argc(f) : Argv(f)[k] = Words(f)[k]
  BY ArgvFacts
<1>6. /\ f.kind = "MSG" /\ ~f.reply => Len(Words(f)) = 4 /\ Words(f)[4] = Len(f.body)
      /\ f.kind = "MSG" /\ f.reply => Len(Words(f)) = 5 /\ Words(f)[5] = Len(f.body)
      /\ f.kind = "HMSG" /\ ~f.reply =>
           Len(Words(f)) = 5 /\ Words(f)[5] = Len(f.body) /\ Words(f)[4] = f.head
  BY WordsFacts
<1>2. CASE f.kind = "MSG" /\ ~f.reply
  <2>4. Len(Words(f)) = 4
    BY <1>2, <1>6
  <2>1. Argc(f) = 4
    BY <1>1, <1>5, <2>4
  <2>2. Argv(f)[4] = Len(f.body)
    BY <1>2, <2>1, <1>5, <1>6
  <2> QED
    BY <1>1, <1>2, <2>1, <2>2 DEF Accepts, AcceptsMsg, PayloadSize, WithinLimits
<1>3. CASE f.kind = "MSG" /\ f.reply
  <2>4. Len(Words(f)) = 5
    BY <1>3, <1>6
  <2>1. Argc(f) = 5
    BY <1>1, <1>5, <2>4
  <2>2. Argv(f)[5] = Len(f.body)
    BY <1>3, <2>1, <1>5, <1>6
  <2> QED
    BY <1>1, <1>3, <2>1, <2>2 DEF Accepts, AcceptsMsg, PayloadSize, WithinLimits
<1>4. CASE f.kind = "HMSG" /\ ~f.reply
  <2>4. Len(Words(f)) = 5
    BY <1>4, <1>6
  <2>1. Argc(f) = 5
    BY <1>1, <1>5, <2>4
  <2>2. Argv(f)[4] = f.head /\ Argv(f)[5] = Len(f.body)
    BY <1>4, <2>1, <1>5, <1>6
  <2>3. f.head \in Nat /\ f.head <= Len(f.body)
    BY <1>4, FrameFacts
  <2> QED
    BY <1>1, <1>4, <2>1, <2>2, <2>3 DEF Accepts, AcceptsHmsg, HeaderSize, TotalSize, WithinLimits
<1> QED
  BY <1>2, <1>3, <1>4 DEF Message
-----------------------------------------------------------------------------
(* The wire                                                                *)

\* Wire w goes on behind its cell k with what comes after cell p of a frame, as
\* far as it goes; while the link is up that is to the end of the frame.
GoesOn(w, up, cells, k, p) ==
  /\ \A m \in 1 .. Len(w) - k : p + m <= Len(cells) => w[k + m] = cells[p + m]
  /\ up => p + Len(w) - k >= Len(cells)

IsLine(c) == c.kind = "line"

\* Behind a line comes its frame, before a line one that is complete; lines come
\* in order; while the link is up the last frame is complete.
GoodWire(w, up, s) ==
  /\ \A k \in 1 .. Len(w) :
       IsLine(w[k]) => /\ w[k].of \in 1 .. Len(s)
                       /\ GoesOn(w, up, Cells(s[w[k].of], w[k].of), k, 1)
                       /\ k > 1 => w[k - 1].kind \in {"lf", "line"}
  /\ \A k, l \in 1 .. Len(w) :
       k < l /\ IsLine(w[k]) /\ IsLine(w[l]) => w[k].of < w[l].of
  /\ up /\ w # <<>> => w[Len(w)].kind \in {"lf", "line"}

HasLine(w, j) == \E l \in 1 .. Len(w) : IsLine(w[l]) /\ w[l].of = j

\* The lines of frames up to n are gone, and those that follow have no gap.
LinesAbove(w, n) ==
  \A k \in 1 .. Len(w) :
    IsLine(w[k]) => n < w[k].of /\ \A j \in n + 1 .. w[k].of : HasLine(w, j)

\* What happens to the wire: n cells are taken, it is cut, a frame is added.
Taken(v, w, n) ==
  /\ n \in 0 .. Len(w) /\ Len(v) = Len(w) - n
  /\ \A m \in 1 .. Len(v) : v[m] = w[n + m]
Cut(v, w) == Len(v) <= Len(w) /\ \A m \in 1 .. Len(v) : v[m] = w[m]
Grown(v, w, c) ==
  /\ Len(v) = Len(w) + Len(c)
  /\ \A m \in 1 .. Len(w) : v[m] = w[m]
  /\ \A m \in 1 .. Len(c) : v[Len(w) + m] = c[m]

Wires == Seq(CellType)

LEMMA GoesOnTaken ==
  ASSUME NEW v \in Wires, NEW w \in Wires, NEW n, Taken(v, w, n), NEW up,
         NEW cells \in Wires, NEW k \in Nat, NEW p \in Nat
  PROVE  /\ GoesOn(w, up, cells, n + k, p) => GoesOn(v, up, cells, k, p)
         /\ GoesOn(w, up, cells, k, p) => GoesOn(v, up, cells, k, p + n)
<1> USE DEF Wires, Taken
<1>1. ASSUME GoesOn(w, up, cells, n + k, p) PROVE GoesOn(v, up, cells, k, p)
  <2>1. ASSUME NEW m \in 1 .. Len(v) - k, p + m <= Len(cells)
        PROVE  v[k + m] = cells[p + m]
    <3>1. m \in 1 .. Len(w) - (n + k) /\ k + m \in 1 .. Len(v) /\ (n + k) + m = n + (k + m)
      BY <2>1
    <3> QED
      BY <1>1, <2>1, <3>1 DEF GoesOn
  <2>2. p + Len(v) - k = p + Len(w) - (n + k)
    OBVIOUS
  <2> QED
    BY <1>1, <2>1, <2>2 DEF GoesOn
<1>2. ASSUME GoesOn(w, up, cells, k, p) PROVE GoesOn(v, up, cells, k, p + n)
  <2>1. ASSUME NEW m \in 1 .. Len(v) - k, p + n + m <= Len(cells)
        PROVE  v[k + m] = cells[p + n + m]
    <3>1. /\ n + m \in 1 .. Len(w) - k /\ k + m \in 1 .. Len(v)
          /\ n + (k + m) = k + (n + m) /\ p + (n + m) = p + n + m
      BY <2>1
    <3> QED
      BY <1>2, <2>1, <3>1 DEF GoesOn
  <2>2. (p + n) + Len(v) - k = p + Len(w) - k
    OBVIOUS
  <2> QED
    BY <1>2, <2>1, <2>2 DEF GoesOn
<1> QED
  BY <1>1, <1>2

LEMMA GoesOnCut ==
  ASSUME NEW v \in Wires, NEW w \in Wires, Cut(v, w), NEW up,
         NEW cells \in Wires, NEW k \in Nat, NEW p \in Nat,
         GoesOn(w, up, cells, k, p)
  PROVE  GoesOn(v, FALSE, cells, k, p)
<1> USE DEF Wires
<1>1. Len(v) \in Nat /\ Len(w) \in Nat /\ Len(v) <= Len(w)
  BY DEF Cut
<1>2. ASSUME NEW m \in 1 .. Len(v) - k, p + m <= Len(cells)
      PROVE  v[k + m] = cells[p + m]
  <2>1. m \in 1 .. Len(w) - k /\ k + m \in 1 .. Len(v)
    BY ONLY <1>1, <1>2, k \in Nat
  <2>2. v[k + m] = w[k + m]
    BY <2>1 DEF Cut
  <2>3. w[k + m] = cells[p + m]
    BY <1>2, <2>1 DEF GoesOn
  <2> QED
    BY <2>2, <2>3
<1> QED
  BY <1>2 DEF GoesOn

LEMMA GoesOnGrown ==
  ASSUME NEW v \in Wires, NEW w \in Wires, NEW c \in Wires, Grown(v, w, c),
         NEW cells \in Wires, NEW k \in Nat, NEW p \in Nat, k <= Len(w),
         GoesOn(w, TRUE, cells, k, p)
  PROVE  GoesOn(v, TRUE, cells, k, p)
<1> USE DEF Wires, Grown
<1>1. p + Len(w) - k >= Len(cells)
  BY DEF GoesOn
<1>2. ASSUME NEW m \in 1 .. Len(v) - k, p + m <= Len(cells)
      PROVE  v[k + m] = cells[p + m]
  <2>1. m \in 1 .. Len(w) - k /\ k + m \in 1 .. Len(w)
    BY <1>1, <1>2
  <2> QED
    BY <1>2, <2>1 DEF GoesOn
<1> QED
  BY <1>1, <1>2 DEF GoesOn

LEMMA SentCells ==
  ASSUME NEW s \in Seq(Frame), Len(s) <= Frames, NEW i \in 1 .. Len(s)
  PROVE  s[i] \in Frame /\ i \in 1 .. Frames /\ Cells(s[i], i) \in Wires
<1>1. s[i] \in Frame /\ i \in 1 .. Frames
  BY InboundAssumption
<1> QED
  BY <1>1, CellsFacts DEF Wires

LEMMA GoodTaken ==
  ASSUME NEW s \in Seq(Frame), Len(s) <= Frames, NEW up, NEW n,
         NEW v \in Wires, NEW w \in Wires, Taken(v, w, n), GoodWire(w, up, s)
  PROVE  GoodWire(v, up, s)
<1> USE DEF Wires
<1>1. \A k \in 1 .. Len(v) : v[k] = w[n + k] /\ n + k \in 1 .. Len(w)
  BY DEF Taken
<1>2. ASSUME NEW k \in 1 .. Len(v), IsLine(v[k])
      PROVE  /\ v[k].of \in 1 .. Len(s)
             /\ GoesOn(v, up, Cells(s[v[k].of], v[k].of), k, 1)
             /\ k > 1 => v[k - 1].kind \in {"lf", "line"}
  <2>1. /\ v[k].of \in 1 .. Len(s)
        /\ GoesOn(w, up, Cells(s[v[k].of], v[k].of), n + k, 1)
        /\ n + k > 1 => w[(n + k) - 1].kind \in {"lf", "line"}
    BY <1>1, <1>2 DEF GoodWire
  <2>2. GoesOn(v, up, Cells(s[v[k].of], v[k].of), k, 1)
    BY <2>1, GoesOnTaken, SentCells
  <2>3. k > 1 => k - 1 \in 1 .. Len(v) /\ n + (k - 1) = (n + k) - 1 /\ n + k > 1
    BY DEF Taken
  <2> QED
    BY <1>1, <2>1, <2>2, <2>3
<1>3. ASSUME NEW k \in 1 .. Len(v), NEW l \in 1 .. Len(v), k < l, IsLine(v[k]), IsLine(v[l])
      PROVE  v[k].of < v[l].of
  <2>1. n + k < n + l
    BY <1>3 DEF Taken
  <2> QED
    BY <1>1, <1>3, <2>1 DEF GoodWire
<1>4. v # <<>> => v[Len(v)] = w[Len(w)] /\ w # <<>>
  <2>1. v # <<>> => Len(v) \in 1 .. Len(v) /\ n + Len(v) = Len(w) /\ Len(w) # 0
    BY DEF Taken
  <2> QED
    BY <1>1, <2>1
<1> QED
  BY <1>2, <1>3, <1>4 DEF GoodWire

LEMMA GoodCut ==
  ASSUME NEW s \in Seq(Frame), Len(s) <= Frames, NEW up,
         NEW v \in Wires, NEW w \in Wires, Cut(v, w), GoodWire(w, up, s)
  PROVE  GoodWire(v, FALSE, s)
<1> USE DEF Wires
<1>1. \A k \in 1 .. Len(v) : v[k] = w[k] /\ k \in 1 .. Len(w)
  BY DEF Cut
<1>2. ASSUME NEW k \in 1 .. Len(v), IsLine(v[k])
      PROVE  /\ v[k].of \in 1 .. Len(s)
             /\ GoesOn(v, FALSE, Cells(s[v[k].of], v[k].of), k, 1)
             /\ k > 1 => v[k - 1].kind \in {"lf", "line"}
  <2>1. /\ v[k].of \in 1 .. Len(s)
        /\ GoesOn(w, up, Cells(s[v[k].of], v[k].of), k, 1)
        /\ k > 1 => w[k - 1].kind \in {"lf", "line"}
    BY <1>1, <1>2 DEF GoodWire
  <2>2. GoesOn(v, FALSE, Cells(s[v[k].of], v[k].of), k, 1)
    <3>1. Cells(s[v[k].of], v[k].of) \in Wires /\ k \in Nat
      BY <2>1, SentCells
    <3> QED
      BY <2>1, <3>1, GoesOnCut
  <2>3. k > 1 => k - 1 \in 1 .. Len(v)
    OBVIOUS
  <2> QED
    BY <1>1, <2>1, <2>2, <2>3
<1> QED
  BY <1>1, <1>2 DEF GoodWire

LEMMA GoodGrown ==
  ASSUME NEW s \in Seq(Frame), Len(s) < Frames, NEW f \in Frame,
         NEW v \in Wires, NEW w \in Wires, GoodWire(w, TRUE, s),
         Grown(v, w, Cells(f, Len(s) + 1))
  PROVE  GoodWire(v, TRUE, Append(s, f))
<1> DEFINE i == Len(s) + 1
           c == Cells(f, i)
           t == Append(s, f)
<1> USE DEF Wires
<1>1. i \in 1 .. Frames /\ i \in Nat /\ Len(s) \in Nat
  BY InboundAssumption
<1>2. /\ c \in Wires /\ Len(c) >= 1 /\ c[1].kind = "line" /\ c[1].of = i
      /\ \A m \in 2 .. Len(c) : ~IsLine(c[m])
      /\ c[Len(c)].kind \in {"lf", "line"}
  <2>1. /\ c \in Wires
        /\ c[1] = Cell("line", i)
        /\ \A m \in 2 .. Len(c) : ~IsLine(c[m])
    BY <1>1, CellsFacts DEF IsLine
  <2>2. f.kind \notin Message => Len(c) = 1
    BY <1>1, CellsFacts
  <2>3. f.kind \in Message =>
          Len(c) = Len(f.body) + 3 /\ c[Len(f.body) + 3] = Cell("lf", i)
    BY <1>1, CellsFacts
  <2>4. f.body \in Seq(Bytes)
    BY FrameFacts
  <2>5. Len(f.body) \in Nat
    BY <2>4
  <2> HIDE DEF c, i
  <2>6. c[1].kind = "line" /\ c[1].of = i
    BY <2>1 DEF Cell
  <2>7. CASE f.kind \notin Message
    BY <2>1, <2>2, <2>6, <2>7
  <2>8. CASE f.kind \in Message
    <3>1. c[Len(c)].kind = "lf" /\ Len(c) >= 1
      BY <2>3, <2>5, <2>8 DEF Cell
    <3> QED
      BY <2>1, <2>6, <3>1
  <2> QED
    BY <2>7, <2>8
<1>3. Len(t) = i /\ t[i] = f /\ \A j \in 1 .. Len(s) : t[j] = s[j]
  OBVIOUS
<1>4. Grown(v, w, c)
  OBVIOUS
<1> HIDE DEF c, t, i
<1>5. /\ \A k \in 1 .. Len(w) : v[k] = w[k]
      /\ \A k \in 1 .. Len(v) : k \in 1 .. Len(w) \/ k - Len(w) \in 1 .. Len(c)
      /\ \A m \in 1 .. Len(c) : v[Len(w) + m] = c[m]
      /\ Len(v) = Len(w) + Len(c) /\ Len(w) \in Nat /\ Len(c) \in Nat
  <2>1. /\ \A k \in 1 .. Len(w) : v[k] = w[k]
        /\ \A m \in 1 .. Len(c) : v[Len(w) + m] = c[m]
        /\ Len(v) = Len(w) + Len(c) /\ Len(w) \in Nat /\ Len(c) \in Nat
    <3>1. Len(w) \in Nat /\ Len(c) \in Nat
      BY <1>2
    <3> QED
      BY ONLY <1>4, <3>1 DEF Grown
  <2>2. \A k \in 1 .. Len(v) : k \in 1 .. Len(w) \/ k - Len(w) \in 1 .. Len(c)
    BY ONLY <2>1
  <2> QED
    BY <2>1, <2>2
<1>6. ASSUME NEW k \in 1 .. Len(v), k \notin 1 .. Len(w), IsLine(v[k])
      PROVE  k = Len(w) + 1 /\ v[k].of = i
  <2>1. k - Len(w) \in 1 .. Len(c) /\ v[k] = c[k - Len(w)]
    <3>1. k - Len(w) \in 1 .. Len(c) /\ Len(w) + (k - Len(w)) = k
      BY <1>5, <1>6
    <3> QED
      BY <1>5, <3>1
  <2>2. k - Len(w) = 1
    BY <1>2, <1>6, <2>1
  <2> QED
    BY <1>2, <1>5, <2>1, <2>2
<1>7. ASSUME NEW k \in 1 .. Len(v), IsLine(v[k])
      PROVE  /\ v[k].of \in 1 .. Len(t)
             /\ GoesOn(v, TRUE, Cells(t[v[k].of], v[k].of), k, 1)
             /\ k > 1 => v[k - 1].kind \in {"lf", "line"}
  <2>1. CASE k \in 1 .. Len(w)
    <3>1. /\ v[k] = w[k] /\ w[k].of \in 1 .. Len(s)
          /\ GoesOn(w, TRUE, Cells(s[w[k].of], w[k].of), k, 1)
          /\ k > 1 => w[k - 1].kind \in {"lf", "line"}
      BY <1>5, <1>7, <2>1 DEF GoodWire
    <3>2. Cells(s[w[k].of], w[k].of) \in Wires
      <4>1. Len(s) <= Frames
        BY InboundAssumption
      <4> QED
        BY <3>1, <4>1, SentCells
    <3>3. GoesOn(v, TRUE, Cells(s[w[k].of], w[k].of), k, 1)
      <4>1. k \in Nat /\ k <= Len(w)
        BY <1>5, <2>1
      <4> QED
        BY <1>2, <1>4, <3>1, <3>2, <4>1, GoesOnGrown
    <3>4. k > 1 => v[k - 1] = w[k - 1]
      BY <1>5, <2>1
    <3>5. t[w[k].of] = s[w[k].of] /\ w[k].of \in 1 .. Len(t)
      BY <1>1, <1>3, <3>1 DEF i
    <3> QED
      BY <3>1, <3>3, <3>4, <3>5
  <2>2. CASE k \notin 1 .. Len(w)
    <3>1. k = Len(w) + 1 /\ v[k].of = i
      BY <1>6, <1>7, <2>2
    <3>2. ASSUME NEW m \in 1 .. Len(v) - k, 1 + m <= Len(c)
          PROVE  v[k + m] = c[1 + m]
      <4>1. 1 + m \in 1 .. Len(c) /\ k + m = Len(w) + (1 + m)
        BY <1>5, <3>1, <3>2
      <4> QED
        BY <1>5, <4>1
    <3>3. 1 + Len(v) - k >= Len(c)
      BY <1>5, <3>1
    <3>4. GoesOn(v, TRUE, c, k, 1)
      BY <3>2, <3>3 DEF GoesOn
    <3>5. Cells(t[v[k].of], v[k].of) = c
      BY <1>3, <3>1 DEF c
    <3>6. k > 1 => v[k - 1].kind \in {"lf", "line"}
      <4>1. k > 1 => w # <<>> /\ k - 1 = Len(w) /\ Len(w) \in 1 .. Len(w)
        BY <1>5, <3>1
      <4> QED
        BY <1>5, <4>1 DEF GoodWire
    <3>7. v[k].of \in 1 .. Len(t)
      BY <1>1, <1>3, <3>1
    <3> QED
      BY <3>4, <3>5, <3>6, <3>7
  <2> QED
    BY <2>1, <2>2
<1>8. ASSUME NEW k \in 1 .. Len(v), NEW l \in 1 .. Len(v), k < l, IsLine(v[k]), IsLine(v[l])
      PROVE  v[k].of < v[l].of
  <2>1. CASE l \in 1 .. Len(w)
    <3>1. k \in 1 .. Len(w)
      BY <1>8, <2>1
    <3> QED
      BY <1>5, <1>8, <2>1, <3>1 DEF GoodWire
  <2>2. CASE l \notin 1 .. Len(w)
    <3>1. l = Len(w) + 1 /\ v[l].of = i
      BY <1>6, <1>8, <2>2
    <3>2. k \in 1 .. Len(w)
      BY <1>5, <1>8, <3>1
    <3>3. w[k].of \in 1 .. Len(s) /\ v[k] = w[k]
      BY <1>5, <1>8, <3>2 DEF GoodWire
    <3> QED
      BY <1>1, <3>1, <3>3 DEF i
  <2> QED
    BY <2>1, <2>2
<1>9. v[Len(v)].kind \in {"lf", "line"}
  <2>1. Len(c) \in 1 .. Len(c) /\ Len(v) = Len(w) + Len(c)
    BY <1>2, <1>5
  <2> QED
    BY <1>2, <1>5, <2>1
<1>10. GoodWire(v, TRUE, t)
  BY <1>7, <1>8, <1>9 DEF GoodWire
<1> QED
  BY <1>10 DEF t
-----------------------------------------------------------------------------
(* The invariant                                                           *)

\* The characters of a line that is not a control line; its end is on the way.
LineSoFar(got, w, up) ==
  /\ \A k \in 1 .. Len(got) : got[k].kind = "chr"
  /\ got # <<>> /\ up => w # <<>>
  /\ got # <<>> /\ w # <<>> => ~IsLine(w[1])

InBody(r) == r.pc \in {"payload", "skip", "call"}
AtControl(r) == r.pc = "parse" /\ Len(r.got) = 1 /\ IsLine(r.got[1])
Holds(r) == AtControl(r) \/ InBody(r)
Held(r) == IF r.pc = "parse" THEN r.got[1].of ELSE r.frame

\* What the task in recv() knows of message f, and how much of it.
BodyOK(r, f) ==
  /\ r.line = f /\ f.kind \in Message /\ Accepts(f)
  /\ \A m \in 1 .. Len(r.got) : r.got[m] = Cells(f, r.frame)[m + 1]
  /\ Len(r.got) + (IF r.pc = "payload" THEN r.need ELSE 0) = Len(f.body)
  /\ r.pc = "skip" => r.need \in 1 .. 2

\* How many of its cells have been read.
Position(r, f) ==
  IF r.pc = "skip" THEN Len(f.body) + 3 - r.need
  ELSE IF r.pc = "payload" THEN Len(r.got) + 1
  ELSE 1

HandOf(r, w, up, s) ==
  /\ r.pc = "line" => LineSoFar(r.got, w, up)
  /\ Holds(r) => Held(r) \in 1 .. Len(s)
  /\ InBody(r) => BodyOK(r, s[r.frame])
  /\ Holds(r) /\ r.pc # "call" =>
       /\ Position(r, s[Held(r)]) \in Nat
       /\ GoesOn(w, up, Cells(s[Held(r)], Held(r)), 0, Position(r, s[Held(r)]))

\* The callbacks so far, all of them for frames up to d.
DeliveredFrom(ds, s, d) ==
  /\ \A k \in 1 .. Len(ds) :
       /\ ds[k].frame \in 1 .. d
       /\ ds[k].bytes = SubSeq(Cells(s[ds[k].frame], ds[k].frame), 2, Len(s[ds[k].frame].body) + 1)
       /\ ds[k].head = s[ds[k].frame].head
  /\ \A k \in 1 .. Len(ds) - 1 : ds[k].frame < ds[k + 1].frame

\* The frames that NothingElseLost is about, and those it wants answered.
ToDeliver(f) == WithinLimits(f) /\ ~(f.kind = "HMSG" /\ f.reply)
PingsUpTo(s, d) == {j \in 1 .. d : s[j].kind = "PING"}

OwedOK ==
  \A i \in owed : i \in 1 .. Len(sent)
                  /\ (sent[i].kind \in Message => subs[sent[i].sid] = "live")

\* The lines up to that of frame n have been read, those that follow have not.
Ahead(n) ==
  /\ LinesAbove(wire, n)
  /\ conn.open => \A j \in n + 1 .. Len(sent) : HasLine(wire, j)
  /\ conn.connected => \A i \in owed : i > n => HasLine(wire, i)

\* The frames up to d are done with.
Behind(d) ==
  /\ pongs <= d
  /\ DeliveredFrom(delivered, sent, d)
  /\ MaxArgs >= 5 /\ conn.connected =>
       /\ \A i \in owed :
            i <= d /\ sent[i].kind \in Message /\ ToDeliver(sent[i]) => i \in Given
       /\ pongs >= Cardinality(PingsUpTo(sent, d))

\* Those are all whose lines have been read, but for the one in hand.
ReadUpTo(n, d) ==
  /\ Holds(rd) => Held(rd) = n
  /\ d = IF Holds(rd) THEN n - 1 ELSE n
  /\ Ahead(n) /\ Behind(d)

\* What a line of a payload that is taken for a control line puts an end to.
Aligned ==
  /\ TypeOK
  /\ GoodWire(wire, conn.open, sent)
  /\ HandOf(rd, wire, conn.open, sent)
  /\ OwedOK
  /\ \E n, d \in 0 .. Len(sent) : ReadUpTo(n, d)

-----------------------------------------------------------------------------
(* What reading, a cut and a new frame do to the lines on the wire         *)

LEMMA QuietTake ==
  ASSUME NEW v \in Wires, NEW w \in Wires, NEW n, Taken(v, w, n),
         \A m \in 1 .. n : ~IsLine(w[m])
  PROVE  /\ \A j : HasLine(w, j) => HasLine(v, j)
         /\ \A q \in Nat : LinesAbove(w, q) => LinesAbove(v, q)
<1>1. ASSUME NEW j, HasLine(w, j) PROVE HasLine(v, j)
  <2>1. PICK l \in 1 .. Len(w) : IsLine(w[l]) /\ w[l].of = j
    BY <1>1 DEF HasLine
  <2>2. l \notin 1 .. n /\ n \in Nat /\ Len(v) = Len(w) - n /\ Len(w) \in Nat
    BY <2>1 DEF Taken, Wires
  <2>3. l - n \in 1 .. Len(v) /\ n + (l - n) = l
    BY ONLY <2>2, l \in 1 .. Len(w)
  <2>4. v[l - n] = w[l]
    BY <2>3 DEF Taken
  <2> QED
    BY <2>1, <2>3, <2>4 DEF HasLine
<1>2. ASSUME NEW q \in Nat, LinesAbove(w, q) PROVE LinesAbove(v, q)
  <2>1. ASSUME NEW k \in 1 .. Len(v), IsLine(v[k])
        PROVE  q < v[k].of /\ \A j \in q + 1 .. v[k].of : HasLine(v, j)
    <3>1. n + k \in 1 .. Len(w) /\ v[k] = w[n + k]
      BY DEF Taken, Wires
    <3> QED
      BY <1>1, <1>2, <2>1, <3>1 DEF LinesAbove
  <2> QED
    BY <2>1 DEF LinesAbove
<1> QED
  BY <1>1, <1>2

LEMMA LineTake ==
  ASSUME NEW v \in Wires, NEW w \in Wires, Taken(v, w, 1), NEW up, NEW s \in Seq(Frame),
         GoodWire(w, up, s), IsLine(w[1]), NEW q \in Nat, LinesAbove(w, q)
  PROVE  /\ w[1].of = q + 1 /\ q + 1 <= Len(s)
         /\ LinesAbove(v, q + 1)
         /\ \A j \in Nat : j > q + 1 /\ HasLine(w, j) => HasLine(v, j)
<1>1. 1 \in 1 .. Len(w) /\ Len(w) \in Nat /\ Len(v) = Len(w) - 1
  BY DEF Taken, Wires
<1>2. w[1].of \in 1 .. Len(s) /\ q < w[1].of
      /\ \A j \in q + 1 .. w[1].of : HasLine(w, j)
  BY <1>1 DEF GoodWire, LinesAbove
<1>3. \A l \in 2 .. Len(w) : IsLine(w[l]) => w[1].of < w[l].of
  BY <1>1 DEF GoodWire
<1>4. w[1].of = q + 1
  <2>1. HasLine(w, q + 1)
    BY <1>2
  <2>2. PICK l \in 1 .. Len(w) : IsLine(w[l]) /\ w[l].of = q + 1
    BY <2>1 DEF HasLine
  <2>3. CASE l = 1
    BY <2>2, <2>3
  <2>4. CASE l \in 2 .. Len(w)
    BY <1>2, <1>3, <2>2, <2>4
  <2> QED
    BY <2>3, <2>4
<1>5. ASSUME NEW j \in Nat, j > q + 1, HasLine(w, j) PROVE HasLine(v, j)
  <2>1. PICK l \in 1 .. Len(w) : IsLine(w[l]) /\ w[l].of = j
    BY <1>5 DEF HasLine
  <2>2. l # 1
    BY <1>4, <1>5, <2>1
  <2>3. l - 1 \in 1 .. Len(v) /\ 1 + (l - 1) = l
    BY <1>1, <2>2
  <2>4. v[l - 1] = w[l]
    BY <2>3 DEF Taken
  <2> QED
    BY <2>1, <2>3, <2>4 DEF HasLine
<1>6. LinesAbove(v, q + 1)
  <2>1. ASSUME NEW k \in 1 .. Len(v), IsLine(v[k])
        PROVE  q + 1 < v[k].of /\ \A j \in (q + 1) + 1 .. v[k].of : HasLine(v, j)
    <3>1. 1 + k \in 2 .. Len(w) /\ 1 + k \in 1 .. Len(w) /\ v[k] = w[1 + k]
      BY <1>1 DEF Taken
    <3>2. q + 1 < v[k].of
      BY <1>3, <1>4, <2>1, <3>1
    <3>3. \A j \in q + 1 .. v[k].of : HasLine(w, j)
      BY <2>1, <3>1 DEF LinesAbove
    <3>4. v[k].of \in Nat
      BY <2>1, <3>1 DEF GoodWire
    <3>5. ASSUME NEW j \in (q + 1) + 1 .. v[k].of PROVE HasLine(v, j)
      <4>1. j \in q + 1 .. v[k].of /\ j \in Nat /\ j > q + 1
        BY <3>4
      <4> QED
        BY <1>5, <3>3, <4>1
    <3> QED
      BY <3>2, <3>5
  <2> QED
    BY <2>1 DEF LinesAbove
<1> QED
  BY <1>2, <1>4, <1>5, <1>6

LEMMA CutLines ==
  ASSUME NEW v \in Wires, NEW w \in Wires, Cut(v, w), NEW up, NEW s \in Seq(Frame),
         GoodWire(w, up, s), NEW q \in Nat, LinesAbove(w, q)
  PROVE  LinesAbove(v, q)
<1>1. ASSUME NEW k \in 1 .. Len(v), IsLine(v[k])
      PROVE  q < v[k].of /\ \A j \in q + 1 .. v[k].of : HasLine(v, j)
  <2>1. k \in 1 .. Len(w) /\ v[k] = w[k] /\ Len(v) \in Nat /\ Len(w) \in Nat
        /\ Len(v) <= Len(w)
    BY DEF Cut, Wires
  <2>2. /\ q < w[k].of /\ w[k].of \in Nat
        /\ \A j \in q + 1 .. w[k].of : HasLine(w, j)
    BY <1>1, <2>1 DEF LinesAbove, GoodWire
  <2>3. ASSUME NEW j \in q + 1 .. w[k].of PROVE HasLine(v, j)
    <3>1. PICK l \in 1 .. Len(w) : IsLine(w[l]) /\ w[l].of = j
      BY <2>2 DEF HasLine
    <3>2. ~(k < l)
      <4>1. k < l => w[k].of < w[l].of
        BY <1>1, <2>1, <3>1 DEF GoodWire
      <4> QED
        BY <2>2, <3>1, <4>1
    <3>3. l \in 1 .. Len(v)
      BY <2>1, <3>2
    <3>4. v[l] = w[l]
      BY <3>3 DEF Cut
    <3> QED
      BY <3>1, <3>3, <3>4 DEF HasLine
  <2> QED
    BY <2>1, <2>2, <2>3
<1> QED
  BY <1>1 DEF LinesAbove

LEMMA CutKeeps ==
  ASSUME NEW v \in Wires, NEW w \in Wires, Cut(v, w), NEW i, HasLine(w, i),
         \A m \in Len(v) + 1 .. Len(w) : w[m].of # i
  PROVE  HasLine(v, i)
<1>1. PICK l \in 1 .. Len(w) : IsLine(w[l]) /\ w[l].of = i
  BY DEF HasLine
<1>2. l \in 1 .. Len(v)
  BY <1>1 DEF Wires, Cut
<1> QED
  BY <1>1, <1>2 DEF HasLine, Cut

LEMMA GrownLines ==
  ASSUME NEW s \in Seq(Frame), Len(s) < Frames, NEW f \in Frame,
         NEW v \in Wires, NEW w \in Wires, GoodWire(w, TRUE, s),
         Grown(v, w, Cells(f, Len(s) + 1)),
         NEW q \in 0 .. Len(s), LinesAbove(w, q), \A j \in q + 1 .. Len(s) : HasLine(w, j)
  PROVE  /\ LinesAbove(v, q)
         /\ \A j : HasLine(w, j) => HasLine(v, j)
         /\ \A j \in q + 1 .. Len(s) + 1 : HasLine(v, j)
<1> DEFINE i == Len(s) + 1
           c == Cells(f, i)
<1>1. i \in 1 .. Frames /\ Len(s) \in Nat /\ Len(w) \in Nat
  BY InboundAssumption DEF Wires
<1>2. /\ c \in Wires /\ Len(c) \in Nat /\ Len(c) >= 1 /\ c[1] = Cell("line", i)
      /\ \A m \in 2 .. Len(c) : c[m].of = i
  <2>1. f.body \in Seq(Bytes)
    BY FrameFacts
  <2>2. Len(f.body) \in Nat
    BY <2>1
  <2>3. c \in Wires /\ c[1] = Cell("line", i) /\ \A m \in 2 .. Len(c) : c[m].of = i
    BY <1>1, CellsFacts DEF Wires
  <2>4. Len(c) = IF f.kind \in Message THEN Len(f.body) + 3 ELSE 1
    BY <1>1, CellsFacts
  <2> QED
    BY <2>2, <2>3, <2>4
<1>3. Grown(v, w, c)
  OBVIOUS
<1> HIDE DEF c
<1>4. /\ Len(v) = Len(w) + Len(c)
      /\ \A m \in 1 .. Len(w) : v[m] = w[m]
      /\ \A m \in 1 .. Len(c) : v[Len(w) + m] = c[m]
  BY <1>3 DEF Grown
<1>5. ASSUME NEW j, HasLine(w, j) PROVE HasLine(v, j)
  <2>1. PICK l \in 1 .. Len(w) : IsLine(w[l]) /\ w[l].of = j
    BY <1>5 DEF HasLine
  <2>2. l \in 1 .. Len(v)
    BY <1>1, <1>2, <1>4
  <2> QED
    BY <1>4, <2>1, <2>2 DEF HasLine
<1>6. HasLine(v, i)
  <2>1. Len(w) + 1 \in 1 .. Len(v) /\ 1 \in 1 .. Len(c)
    BY <1>1, <1>2, <1>4
  <2>2. v[Len(w) + 1] = Cell("line", i)
    BY <1>2, <1>4, <2>1
  <2> QED
    BY <2>1, <2>2 DEF HasLine, IsLine, Cell
<1>7. \A j \in q + 1 .. Len(s) + 1 : HasLine(v, j)
  <2>1. \A j \in q + 1 .. Len(s) + 1 : j = i \/ j \in q + 1 .. Len(s)
    BY <1>1
  <2> QED
    BY <1>5, <1>6, <2>1
<1>8. ASSUME NEW k \in 1 .. Len(v), IsLine(v[k])
      PROVE  q < v[k].of /\ \A j \in q + 1 .. v[k].of : HasLine(v, j)
  <2>1. CASE k \in 1 .. Len(w)
    <3>1. v[k] = w[k]
      BY <1>4, <2>1
    <3> QED
      BY <1>5, <1>8, <2>1, <3>1 DEF LinesAbove
  <2>2. CASE k \notin 1 .. Len(w)
    <3>1. k - Len(w) \in 1 .. Len(c) /\ Len(w) + (k - Len(w)) = k
      BY <1>1, <1>2, <1>4, <2>2
    <3>2. v[k] = c[k - Len(w)]
      BY <1>4, <3>1
    <3>3. v[k].of = i
      <4>1. CASE k - Len(w) = 1
        BY <1>2, <3>2, <4>1 DEF Cell
      <4>2. CASE k - Len(w) \in 2 .. Len(c)
        BY <1>2, <3>2, <4>2
      <4> QED
        BY <3>1, <4>1, <4>2
    <3> QED
      BY <1>1, <1>7, <3>3
  <2> QED
    BY <2>1, <2>2
<1> QED
  BY <1>5, <1>7, <1>8 DEF LinesAbove

-----------------------------------------------------------------------------
(* What others do to what the reading task has in hand                     *)

Reads == [pc : {"idle", "line", "parse", "payload", "skip", "call"},
          got : Seq(CellType), frame : 0 .. Frames, line : Frame,
          need : Nat]

LEMMA HandGrown ==
  ASSUME NEW s \in Seq(Frame), Len(s) < Frames, NEW f \in Frame, NEW r \in Reads,
         NEW v \in Wires, NEW w \in Wires, Grown(v, w, Cells(f, Len(s) + 1)),
         HandOf(r, w, TRUE, s)
  PROVE  HandOf(r, v, TRUE, Append(s, f))
<1> DEFINE c == Cells(f, Len(s) + 1)
           t == Append(s, f)
           h == Held(r)
<1>1. c \in Wires /\ Len(c) \in Nat
  <2>1. Len(s) + 1 \in 1 .. Frames
    BY InboundAssumption
  <2>2. c \in Wires
    BY <2>1, CellsFacts DEF Wires
  <2> QED
    BY <2>2 DEF Wires
<1>2. Len(t) = Len(s) + 1 /\ \A j \in 1 .. Len(s) : t[j] = s[j]
  OBVIOUS
<1>3. Grown(v, w, c)
  OBVIOUS
<1> HIDE DEF c, t
<1>4. ASSUME r.pc = "line" PROVE LineSoFar(r.got, v, TRUE)
  <2>1. LineSoFar(r.got, w, TRUE)
    BY <1>4 DEF HandOf
  <2>2. w # <<>> => v # <<>> /\ v[1] = w[1]
    <3>1. Len(w) \in Nat /\ Len(v) = Len(w) + Len(c) /\ \A m \in 1 .. Len(w) : v[m] = w[m]
      <4>1. Len(w) \in Nat
        BY DEF Wires
      <4> QED
        BY ONLY <1>3, <4>1 DEF Grown
    <3>2. w # <<>> => Len(w) >= 1
      BY DEF Wires
    <3>3. w # <<>> => Len(v) >= 1 /\ 1 \in 1 .. Len(w)
      BY <1>1, <3>1, <3>2
    <3> QED
      BY <3>1, <3>3
  <2> QED
    BY <2>1, <2>2 DEF LineSoFar
<1>5. ASSUME Holds(r)
      PROVE  h \in 1 .. Len(s) /\ h \in 1 .. Len(t) /\ t[h] = s[h] /\ Cells(s[h], h) \in Wires
  <2>1. h \in 1 .. Len(s)
    BY <1>5 DEF HandOf
  <2>2. Len(s) <= Frames
    BY InboundAssumption
  <2> QED
    BY <1>2, <2>1, <2>2, SentCells
<1>6. ASSUME InBody(r) PROVE BodyOK(r, t[r.frame])
  <2>1. Holds(r) /\ h = r.frame
    BY <1>6 DEF Holds, InBody, Held
  <2> QED
    BY <1>5, <1>6, <2>1 DEF HandOf
<1>7. ASSUME Holds(r), r.pc # "call"
      PROVE  /\ Position(r, t[h]) \in Nat
             /\ GoesOn(v, TRUE, Cells(t[h], h), 0, Position(r, t[h]))
  <2>1. Position(r, s[h]) \in Nat /\ GoesOn(w, TRUE, Cells(s[h], h), 0, Position(r, s[h]))
    BY <1>7 DEF HandOf
  <2>2. 0 \in Nat /\ 0 <= Len(w)
    BY DEF Wires
  <2>3. GoesOn(v, TRUE, Cells(s[h], h), 0, Position(r, s[h]))
    BY <1>1, <1>3, <1>5, <1>7, <2>1, <2>2, GoesOnGrown
  <2> QED
    BY <1>5, <1>7, <2>1, <2>3
<1>8. HandOf(r, v, TRUE, t)
  BY <1>4, <1>5, <1>6, <1>7 DEF HandOf
<1> QED
  BY <1>8 DEF t

LEMMA HandCut ==
  ASSUME NEW s \in Seq(Frame), Len(s) <= Frames, NEW r \in Reads, NEW up,
         NEW v \in Wires, NEW w \in Wires, Cut(v, w), HandOf(r, w, up, s)
  PROVE  HandOf(r, v, FALSE, s)
<1>1. ASSUME r.pc = "line" PROVE LineSoFar(r.got, v, FALSE)
  <2>1. LineSoFar(r.got, w, up)
    BY <1>1 DEF HandOf
  <2>2. v # <<>> => w # <<>> /\ v[1] = w[1]
    <3>1. v # <<>> => Len(v) >= 1 /\ Len(w) >= 1 /\ 1 \in 1 .. Len(v)
      BY DEF Wires, Cut
    <3> QED
      BY <3>1 DEF Cut
  <2> QED
    BY <2>1, <2>2 DEF LineSoFar
<1>2. ASSUME Holds(r), r.pc # "call"
      PROVE  GoesOn(v, FALSE, Cells(s[Held(r)], Held(r)), 0, Position(r, s[Held(r)]))
  <2>1. Position(r, s[Held(r)]) \in Nat
        /\ GoesOn(w, up, Cells(s[Held(r)], Held(r)), 0, Position(r, s[Held(r)]))
    BY <1>2 DEF HandOf
  <2>2. Cells(s[Held(r)], Held(r)) \in Wires
    BY <1>2, SentCells DEF HandOf
  <2> QED
    BY <2>1, <2>2, GoesOnCut
<1> QED
  BY <1>1, <1>2 DEF HandOf

\* The first n cells of what follows are those of the frame, and none is a line.
LEMMA NextCells ==
  ASSUME NEW w \in Wires, NEW up, NEW f \in Frame, NEW i \in 1 .. Frames, f.kind \in Message,
         NEW p \in Nat, p >= 1, GoesOn(w, up, Cells(f, i), 0, p),
         NEW n \in Nat, n <= Len(w), p + n <= Len(f.body) + 3
  PROVE  \A m \in 1 .. n : w[m] = Cells(f, i)[p + m] /\ ~IsLine(w[m])
<1>1. ASSUME NEW m \in 1 .. n PROVE w[m] = Cells(f, i)[p + m] /\ ~IsLine(w[m])
  <2>1. Len(Cells(f, i)) = Len(f.body) + 3
    BY CellsFacts
  <2>2. Len(w) \in Nat /\ Len(f.body) \in Nat
    <3>1. f.body \in Seq(Bytes)
      BY FrameFacts
    <3> QED
      BY <3>1 DEF Wires
  <2>3. m \in 1 .. Len(w) - 0 /\ p + m <= Len(Cells(f, i)) /\ p + m \in 2 .. Len(Cells(f, i))
        /\ 0 + m = m
    BY <2>1, <2>2
  <2>4. w[m] = Cells(f, i)[p + m]
    BY <2>3 DEF GoesOn
  <2>5. Cells(f, i)[p + m].kind # "line"
    BY <2>3, CellsFacts
  <2> QED
    BY <2>4, <2>5 DEF IsLine
<1> QED
  BY <1>1

-----------------------------------------------------------------------------
(* What callbacks have been given                                          *)

LEMMA DeliveredGrows ==
  ASSUME NEW s, NEW t, NEW ds \in Seq(Calls),
         NEW d \in Int, NEW e \in Int, d <= e, DeliveredFrom(ds, s, d),
         \A j \in 1 .. d : t[j] = s[j]
  PROVE  DeliveredFrom(ds, t, e)
<1>1. ASSUME NEW k \in 1 .. Len(ds)
      PROVE  /\ ds[k].frame \in 1 .. e
             /\ ds[k].bytes = SubSeq(Cells(t[ds[k].frame], ds[k].frame), 2,
                                     Len(t[ds[k].frame].body) + 1)
             /\ ds[k].head = t[ds[k].frame].head
  <2>1. ds[k].frame \in 1 .. d
    BY DEF DeliveredFrom
  <2>2. t[ds[k].frame] = s[ds[k].frame] /\ ds[k].frame \in 1 .. e
    BY <2>1
  <2> QED
    BY <2>2 DEF DeliveredFrom
<1> QED
  BY <1>1 DEF DeliveredFrom

LEMMA DeliveredNext ==
  ASSUME NEW s, NEW d \in Nat,
         NEW ds \in Seq(Calls),
         DeliveredFrom(ds, s, d),
         NEW x \in Calls,
         x.frame = d + 1, x.head = s[d + 1].head,
         x.bytes = SubSeq(Cells(s[d + 1], d + 1), 2, Len(s[d + 1].body) + 1)
  PROVE  DeliveredFrom(Append(ds, x), s, d + 1)
<1> DEFINE es == Append(ds, x)
           n == Len(ds)
<1>1. \A a \in 1 .. d : a \in 1 .. d + 1 /\ a < d + 1
  <2>1. d \in Nat
    OBVIOUS
  <2> QED
    BY ONLY <2>1
<1>2. /\ n \in Nat /\ Len(es) = n + 1 /\ es[n + 1] = x
      /\ \A k \in 1 .. n : es[k] = ds[k]
  OBVIOUS
<1> HIDE DEF es
<1>3. n \in Nat /\ Len(es) = n + 1
  BY <1>2
<1> HIDE DEF n
<1>4. \A k \in 1 .. Len(es) : k = n + 1 \/ k \in 1 .. n
  BY ONLY <1>3
<1>5. \A k \in 1 .. Len(es) - 1 :
        k \in 1 .. n /\ (k = n \/ (k \in 1 .. n - 1 /\ k + 1 \in 1 .. n))
  BY ONLY <1>3
<1>6. \A k \in 1 .. n : /\ ds[k].frame \in 1 .. d
                        /\ ds[k].bytes = SubSeq(Cells(s[ds[k].frame], ds[k].frame), 2,
                                                Len(s[ds[k].frame].body) + 1)
                        /\ ds[k].head = s[ds[k].frame].head
  BY DEF DeliveredFrom, n
<1>7. ASSUME NEW k \in 1 .. Len(es)
      PROVE  /\ es[k].frame \in 1 .. d + 1
             /\ es[k].bytes = SubSeq(Cells(s[es[k].frame], es[k].frame), 2,
                                     Len(s[es[k].frame].body) + 1)
             /\ es[k].head = s[es[k].frame].head
  <2>1. CASE k = n + 1
    <3>1. es[k] = x
      BY <1>2, <2>1
    <3> QED
      BY <3>1
  <2>2. CASE k \in 1 .. n
    <3>1. es[k] = ds[k]
      BY <1>2, <2>2
    <3>2. ds[k].frame \in 1 .. d
      BY ONLY <1>6, <2>2, Zenon
    <3>3. /\ ds[k].bytes = SubSeq(Cells(s[ds[k].frame], ds[k].frame), 2,
                                  Len(s[ds[k].frame].body) + 1)
          /\ ds[k].head = s[ds[k].frame].head
      BY ONLY <1>6, <2>2, Zenon
    <3>4. ds[k].frame \in 1 .. d + 1
      BY ONLY <1>1, <3>2, Zenon
    <3> QED
      BY ONLY <3>1, <3>3, <3>4, Zenon
  <2>3. k = n + 1 \/ k \in 1 .. n
    BY ONLY <1>4, k \in 1 .. Len(es), Zenon
  <2> QED
    BY <2>1, <2>2, <2>3
<1>8. ASSUME NEW k \in 1 .. Len(es) - 1 PROVE es[k].frame < es[k + 1].frame
  <2>0. k \in 1 .. n /\ (k = n \/ (k \in 1 .. n - 1 /\ k + 1 \in 1 .. n))
    BY ONLY <1>5, k \in 1 .. Len(es) - 1, Zenon
  <2>1. CASE k = n
    <3>1. es[k + 1] = x /\ es[k] = ds[k]
      BY <1>2, <2>0, <2>1
    <3>2. ds[k].frame \in 1 .. d
      BY ONLY <1>6, <2>0, Zenon
    <3>3. x.frame = d + 1
      OBVIOUS
    <3>4. ds[k].frame < x.frame
      BY ONLY <1>1, <3>2, <3>3, Zenon
    <3> QED
      BY ONLY <3>1, <3>4, Zenon
  <2>2. CASE k \in 1 .. n - 1 /\ k + 1 \in 1 .. n
    <3>1. k + 1 \in 1 .. n
      BY <2>2
    <3>2. es[k] = ds[k] /\ es[k + 1] = ds[k + 1]
      BY ONLY <1>2, <2>0, <3>1, Zenon
    <3>3. ds[k].frame < ds[k + 1].frame
      BY <2>2 DEF DeliveredFrom, n
    <3> QED
      BY ONLY <3>2, <3>3, Zenon
  <2> QED
    BY ONLY <2>0, <2>1, <2>2, Zenon
<1>9. DeliveredFrom(es, s, d + 1)
  BY <1>7, <1>8 DEF DeliveredFrom
<1> QED
  BY <1>9 DEF es

LEMMA PingsFacts ==
  ASSUME NEW s \in Seq(Frame), NEW d \in Nat
  PROVE  /\ IsFiniteSet(PingsUpTo(s, d)) /\ Cardinality(PingsUpTo(s, d)) \in Nat
         /\ PingsUpTo(s, d + 1) = PingsUpTo(s, d) \cup
              (IF s[d + 1].kind = "PING" THEN {d + 1} ELSE {})
         /\ Cardinality(PingsUpTo(s, d + 1))
              <= Cardinality(PingsUpTo(s, d)) + (IF s[d + 1].kind = "PING" THEN 1 ELSE 0)
<1>1. IsFiniteSet(PingsUpTo(s, d))
  <2>1. IsFiniteSet(1 .. d)
    BY FS_Interval
  <2>2. PingsUpTo(s, d) \subseteq 1 .. d
    BY DEF PingsUpTo
  <2> QED
    BY <2>1, <2>2, FS_Subset
<1>2. PingsUpTo(s, d + 1) = PingsUpTo(s, d) \cup
        (IF s[d + 1].kind = "PING" THEN {d + 1} ELSE {})
  <2>1. 1 .. d + 1 = (1 .. d) \cup {d + 1}
    OBVIOUS
  <2> QED
    BY <2>1 DEF PingsUpTo
<1>3. Cardinality(PingsUpTo(s, d)) \in Nat
  BY <1>1, FS_CardinalityType
<1>4. CASE s[d + 1].kind = "PING"
  <2>1. d + 1 \notin PingsUpTo(s, d)
    BY DEF PingsUpTo
  <2>2. Cardinality(PingsUpTo(s, d) \cup {d + 1}) = Cardinality(PingsUpTo(s, d)) + 1
    BY <1>1, <2>1, FS_AddElement
  <2>3. PingsUpTo(s, d + 1) = PingsUpTo(s, d) \cup {d + 1}
    BY <1>2, <1>4
  <2>4. Cardinality(PingsUpTo(s, d + 1)) = Cardinality(PingsUpTo(s, d)) + 1
    BY <2>2, <2>3
  <2>5. Cardinality(PingsUpTo(s, d + 1)) <= Cardinality(PingsUpTo(s, d)) + 1
    <3> HIDE DEF PingsUpTo
    <3> QED
      BY <1>3, <2>4
  <2> QED
    BY <1>1, <1>2, <1>3, <1>4, <2>5
<1>5. CASE s[d + 1].kind # "PING"
  <2>1. PingsUpTo(s, d + 1) = PingsUpTo(s, d)
    BY <1>2, <1>5
  <2>2. Cardinality(PingsUpTo(s, d + 1)) <= Cardinality(PingsUpTo(s, d)) + 0
    BY ONLY <1>3, <2>1
  <2> QED
    BY <1>1, <1>2, <1>3, <1>5, <2>2
<1> QED
  BY <1>4, <1>5

LEMMA PingsSame ==
  ASSUME NEW s, NEW t, NEW d, \A j \in 1 .. d : t[j] = s[j]
  PROVE  PingsUpTo(t, d) = PingsUpTo(s, d)
BY DEF PingsUpTo

-----------------------------------------------------------------------------
(* The steps: what many of them share                                      *)

LEMMA TypeFacts ==
  ASSUME TypeOK
  PROVE  /\ sent \in Seq(Frame) /\ Len(sent) <= Frames /\ Len(sent) \in Nat
         /\ wire \in Wires /\ Len(wire) \in Nat
         /\ clear \in 0 .. Len(wire)
         /\ conn \in [open : BOOLEAN, connected : BOOLEAN, attached : BOOLEAN,
                      transport : BOOLEAN, tls : BOOLEAN]
         /\ rd \in Reads
         /\ delivered \in Seq(Calls)
         /\ pongs \in Nat
         /\ \A i \in 1 .. Len(sent) : sent[i] \in Frame /\ i \in 1 .. Frames
<1>1. sent \in Seq(Frame) /\ wire \in Wires
  BY DEF TypeOK, Wires
<1>2. Len(sent) \in Nat /\ Len(wire) \in Nat
  BY <1>1 DEF Wires
<1>3. Len(sent) <= Frames /\ Frames \in Nat
  BY InboundAssumption DEF TypeOK
<1>4. \A i \in 1 .. Len(sent) : sent[i] \in Frame /\ i \in 1 .. Frames
  BY <1>1, <1>2, <1>3
<1> QED
  BY <1>1, <1>2, <1>3, <1>4 DEF TypeOK, Reads, Calls

\* Nothing that counts for the frames up to d has changed.
LEMMA BehindKept ==
  ASSUME TypeOK, NEW d \in 0 .. Len(sent), Behind(d),
         delivered' = delivered, pongs' = pongs,
         \A j \in 1 .. Len(sent) : sent'[j] = sent[j],
         conn'.connected => conn.connected,
         \A i \in owed' : i <= d => i \in owed
  PROVE  Behind(d)'
<1>1. \A j \in 1 .. d : sent'[j] = sent[j]
  BY TypeFacts
<1>2. DeliveredFrom(delivered, sent', d)
  <2>1. DeliveredFrom(delivered, sent, d) /\ d \in Int /\ d <= d
    BY DEF Behind
  <2> QED
    BY <1>1, <2>1, TypeFacts, DeliveredGrows
<1>3. PingsUpTo(sent', d) = PingsUpTo(sent, d)
  BY <1>1, PingsSame
<1>4. Given' = Given
  BY DEF Given
<1>5. ASSUME NEW i \in owed', i <= d PROVE i \in owed /\ sent'[i] = sent[i]
  <2>1. i \in owed /\ i \in 1 .. Frames
    BY <1>5 DEF TypeOK
  <2>2. i \in 1 .. d
    BY <1>5, <2>1, InboundAssumption
  <2> QED
    BY <1>1, <2>1, <2>2
<1> QED
  BY <1>2, <1>3, <1>4, <1>5 DEF Behind

\* One frame more is done with.
LEMMA BehindNext ==
  ASSUME TypeOK, NEW d \in Nat, d + 1 <= Len(sent), Behind(d),
         sent' = sent, conn' = conn, owed' = owed,
         DeliveredFrom(delivered', sent, d + 1), Given \subseteq Given',
         pongs' \in Nat, pongs' <= d + 1,
         pongs' = pongs + (IF sent[d + 1].kind = "PING" THEN 1 ELSE 0),
         MaxArgs >= 5 /\ conn.connected /\ d + 1 \in owed
           /\ sent[d + 1].kind \in Message /\ ToDeliver(sent[d + 1]) => d + 1 \in Given'
  PROVE  Behind(d + 1)'
<1>1. ASSUME MaxArgs >= 5, conn.connected, NEW i \in owed, i <= d + 1,
             sent[i].kind \in Message, ToDeliver(sent[i])
      PROVE  i \in Given'
  <2>1. i \in 1 .. Frames
    BY DEF TypeOK
  <2>2. CASE i <= d
    BY <1>1, <2>2 DEF Behind
  <2>3. CASE ~(i <= d)
    <3>1. i = d + 1
      BY <1>1, <2>1, <2>3, InboundAssumption
    <3> QED
      BY <1>1, <3>1
  <2> QED
    BY <2>2, <2>3
<1>2. MaxArgs >= 5 /\ conn.connected => pongs' >= Cardinality(PingsUpTo(sent, d + 1))
  <2> DEFINE a == Cardinality(PingsUpTo(sent, d))
             b == Cardinality(PingsUpTo(sent, d + 1))
             e == IF sent[d + 1].kind = "PING" THEN 1 ELSE 0
  <2>1. a \in Nat /\ b \in Nat /\ b <= a + e
    <3>1. d + 1 \in Nat
      OBVIOUS
    <3> QED
      BY <3>1, TypeFacts, PingsFacts
  <2>2. MaxArgs >= 5 /\ conn.connected => pongs >= a
    BY DEF Behind
  <2>3. e \in Nat /\ pongs \in Nat /\ pongs' = pongs + e
    BY TypeFacts
  <2> HIDE DEF a, b, e
  <2>4. MaxArgs >= 5 /\ conn.connected => pongs' >= b
    BY <2>1, <2>2, <2>3
  <2> QED
    BY <2>4 DEF b
<1> QED
  BY <1>1, <1>2 DEF Behind

LEMMA TakeFacts ==
  ASSUME TypeOK, NEW k \in Nat, TakeCells(k)
  PROVE  /\ Taken(wire', wire, k) /\ wire' \in Wires
         /\ k <= Len(wire) /\ clear' \in 0 .. Len(wire')
<1>1. k \in 0 .. Len(wire) /\ wire' = SubSeq(wire, k + 1, Len(wire)) /\ wire \in Wires
      /\ Len(wire) \in Nat
  BY TypeFacts DEF TakeCells
<1>2. wire' \in Wires /\ Len(wire') = Len(wire) - k
      /\ \A m \in 1 .. Len(wire') : wire'[m] = wire[k + m]
  BY <1>1 DEF Wires
<1>3. clear \in 0 .. Len(wire)
  BY TypeFacts
<1>4. clear' \in 0 .. Len(wire')
  <2>1. CASE conn.tls /\ k > clear
    BY <1>1, <1>2, <2>1 DEF TakeCells
  <2>2. CASE conn.tls /\ ~(k > clear)
    BY <1>1, <1>2, <1>3, <2>2 DEF TakeCells
  <2>3. CASE ~conn.tls
    BY <1>1, <1>2, <2>3 DEF TakeCells
  <2> QED
    BY <2>1, <2>2, <2>3
<1> QED
  BY <1>1, <1>2, <1>4 DEF Taken

LEMMA DisconnectFacts ==
  ASSUME Aligned, Disconnect, UNCHANGED <<sent, subs, delivered, pongs, owed>>
  PROVE  /\ wire' \in Seq(CellType) /\ clear' \in 0 .. Len(wire')
         /\ conn' \in [open : BOOLEAN, connected : BOOLEAN, attached : BOOLEAN,
                       transport : BOOLEAN, tls : BOOLEAN]
         /\ conn'.open = FALSE
         /\ Cut(wire', wire)
         /\ GoodWire(wire', conn'.open, sent') /\ OwedOK'
         /\ \A n \in Nat : Ahead(n) => Ahead(n)'
         /\ \A d, e \in 0 .. Len(sent) : d <= e /\ Behind(d) => Behind(e)'
<1> USE DEF Aligned
<1>1. wire' = <<>> /\ clear' = 0 /\ conn' = Hung
  BY DEF Disconnect
<1>2. /\ conn' \in [open : BOOLEAN, connected : BOOLEAN, attached : BOOLEAN,
                    transport : BOOLEAN, tls : BOOLEAN]
      /\ conn'.open = FALSE /\ conn'.connected = FALSE
  BY <1>1, TypeFacts DEF Hung
<1>3. wire' \in Wires /\ Len(wire') = 0 /\ Cut(wire', wire)
  BY <1>1, TypeFacts DEF Wires, Cut
<1>4. GoodWire(wire', conn'.open, sent')
  BY <1>1, <1>2, <1>3 DEF GoodWire
<1>5. OwedOK'
  BY DEF OwedOK
<1>6. ASSUME NEW n \in Nat, Ahead(n) PROVE Ahead(n)'
  BY <1>2, <1>3 DEF Ahead, LinesAbove
<1>7. ASSUME NEW d \in 0 .. Len(sent), NEW e \in 0 .. Len(sent), d <= e, Behind(d)
      PROVE  Behind(e)'
  <2>1. DeliveredFrom(delivered, sent, e)
    <3>1. DeliveredFrom(delivered, sent, d) /\ d \in Int /\ e \in Int /\ d <= e
          /\ \A j \in 1 .. d : sent[j] = sent[j]
      BY <1>7, TypeFacts DEF Behind
    <3>2. delivered \in Seq(Calls)
      BY TypeFacts
    <3> QED
      BY <3>1, <3>2, DeliveredGrows
  <2>2. pongs <= e
    BY <1>7, TypeFacts DEF Behind
  <2> QED
    BY <1>2, <2>1, <2>2 DEF Behind
<1> QED
  BY <1>1, <1>2, <1>3, <1>4, <1>5, <1>6, <1>7 DEF Wires

-----------------------------------------------------------------------------
(* The server, the network and the other tasks                             *)

LEMMA SendKeeps == ASSUME Aligned, TypeOK', ServerSends PROVE Aligned'
<1> USE DEF Aligned
<1>1. PICK f \in Frame :
        /\ sent' = Append(sent, f)
        /\ wire' = wire \o Cells(f, Len(sent) + 1)
        /\ owed' = IF f.kind \in Message /\ subs[f.sid] # "live"
                     THEN owed ELSE owed \cup {Len(sent) + 1}
  BY DEF ServerSends
<1>2. /\ conn.open = TRUE /\ Len(sent) < Frames
      /\ UNCHANGED <<clear, conn, subs, rd, delivered, pongs>>
  BY TypeFacts DEF ServerSends
<1> DEFINE i == Len(sent) + 1
           c == Cells(f, i)
<1>3. i \in 1 .. Frames /\ i \in Nat /\ Len(sent) \in Nat
  BY <1>2, TypeFacts, InboundAssumption
<1>4. c \in Wires
  BY <1>3, CellsFacts DEF Wires
<1>5. wire' \in Wires /\ Grown(wire', wire, c) /\ Len(wire) \in Nat /\ Len(wire') >= Len(wire)
      /\ Len(wire') \in Nat
  <2>1. wire \in Seq(CellType) /\ c \in Seq(CellType) /\ wire' = wire \o c
    BY <1>1, <1>4, TypeFacts DEF Wires
  <2>2. /\ wire' \in Seq(CellType) /\ Len(wire') = Len(wire) + Len(c)
        /\ Len(wire) \in Nat /\ Len(c) \in Nat
        /\ \A k \in 1 .. Len(wire) : wire'[k] = wire[k]
        /\ \A k \in 1 .. Len(c) : wire'[Len(wire) + k] = c[k]
    BY ONLY <2>1, ConcatFacts
  <2>3. Len(wire') >= Len(wire) /\ Len(wire') \in Nat
    BY <2>2
  <2> QED
    BY <2>2, <2>3 DEF Wires, Grown
<1>6. /\ sent' \in Seq(Frame) /\ Len(sent') = i /\ sent'[i] = f
      /\ \A j \in 1 .. Len(sent) : sent'[j] = sent[j]
  BY <1>1, TypeFacts
<1>7. owed' \subseteq owed \cup {i}
  BY <1>1
<1>8. TypeOK'
  OBVIOUS
<1>9. GoodWire(wire', conn'.open, sent')
  <2>1. GoodWire(wire', TRUE, Append(sent, f))
    <3>1. GoodWire(wire, TRUE, sent)
      BY <1>2
    <3>2. Grown(wire', wire, Cells(f, Len(sent) + 1))
      BY <1>5
    <3> QED
      BY <1>2, <1>5, <3>1, <3>2, TypeFacts, GoodGrown
  <2> QED
    BY <1>1, <1>2, <2>1
<1>10. HandOf(rd', wire', conn'.open, sent')
  <2>1. HandOf(rd, wire, TRUE, sent)
    BY <1>2
  <2>2. Grown(wire', wire, Cells(f, Len(sent) + 1))
    BY <1>5
  <2>3. HandOf(rd, wire', TRUE, Append(sent, f))
    BY <1>2, <1>5, <2>1, <2>2, TypeFacts, HandGrown
  <2> QED
    BY <1>1, <1>2, <2>3
<1>11. OwedOK'
  <2>1. ASSUME NEW j \in owed'
        PROVE  j \in 1 .. Len(sent') /\ (sent'[j].kind \in Message => subs'[sent'[j].sid] = "live")
    <3>1. CASE j \in owed
      <4>1. j \in 1 .. Len(sent) /\ (sent[j].kind \in Message => subs[sent[j].sid] = "live")
        BY <3>1 DEF OwedOK
      <4> QED
        BY <1>2, <1>3, <1>6, <4>1
    <3>2. CASE j \notin owed
      <4>1. j = i /\ ~(f.kind \in Message /\ subs[f.sid] # "live")
        BY <1>1, <2>1, <3>2
      <4> QED
        BY <1>2, <1>3, <1>6, <4>1
    <3> QED
      BY <3>1, <3>2
  <2> QED
    BY <2>1 DEF OwedOK
<1>12. PICK n \in 0 .. Len(sent), d \in 0 .. Len(sent) : ReadUpTo(n, d)
  OBVIOUS
<1>13. Ahead(n)'
  <2>1. /\ LinesAbove(wire, n) /\ \A j \in n + 1 .. Len(sent) : HasLine(wire, j)
        /\ conn.connected => \A j \in owed : j > n => HasLine(wire, j)
    BY <1>2, <1>12 DEF ReadUpTo, Ahead
  <2>2. /\ LinesAbove(wire', n)
        /\ \A j : HasLine(wire, j) => HasLine(wire', j)
        /\ \A j \in n + 1 .. Len(sent) + 1 : HasLine(wire', j)
    <3>1. GoodWire(wire, TRUE, sent)
      BY <1>2
    <3>2. Grown(wire', wire, Cells(f, Len(sent) + 1))
      BY <1>5
    <3> QED
      BY <1>2, <1>5, <2>1, <3>1, <3>2, TypeFacts, GrownLines
  <2>3. ASSUME conn'.connected, NEW j \in owed', j > n PROVE HasLine(wire', j)
    <3>1. CASE j \in owed
      BY <1>2, <2>1, <2>2, <2>3, <3>1
    <3>2. CASE j = i
      BY <1>3, <2>2, <3>2
    <3> QED
      BY <1>7, <3>1, <3>2
  <2> QED
    BY <1>6, <2>2, <2>3 DEF Ahead
<1>14. Behind(d)'
  <2>1. \A j \in owed' : j <= d => j \in owed
    BY <1>3, <1>7
  <2> QED
    BY <1>2, <1>6, <1>12, <2>1, BehindKept DEF ReadUpTo
<1>15. ReadUpTo(n, d)' /\ n \in 0 .. Len(sent') /\ d \in 0 .. Len(sent')
  BY <1>2, <1>3, <1>6, <1>12, <1>13, <1>14 DEF ReadUpTo
<1> QED
  BY <1>8, <1>9, <1>10, <1>11, <1>15

LEMMA BreakKeeps == ASSUME Aligned, TypeOK', LinkBreaks PROVE Aligned'
<1> USE DEF Aligned
<1>1. /\ conn' = [conn EXCEPT !.open = FALSE]
      /\ UNCHANGED <<sent, clear, subs, rd, delivered, pongs>>
  BY DEF LinkBreaks
<1>2. PICK k \in clear .. Len(wire) :
        /\ wire' = SubSeq(wire, 1, k)
        /\ owed' = owed \ {wire[j].of : j \in k + 1 .. Len(wire)}
  BY DEF LinkBreaks
<1>3. /\ k \in 0 .. Len(wire) /\ clear <= k /\ Len(wire) \in Nat
      /\ wire' \in Wires /\ Len(wire') = k /\ Cut(wire', wire)
  <2>1. k \in 0 .. Len(wire) /\ clear <= k /\ Len(wire) \in Nat /\ wire \in Wires
    BY <1>2, TypeFacts
  <2>2. /\ wire' \in Wires /\ Len(wire') = k
        /\ \A m \in 1 .. Len(wire') : wire'[m] = wire[m]
    BY <1>2, <2>1 DEF Wires
  <2> QED
    BY <2>1, <2>2 DEF Cut
<1>4. /\ conn' \in [open : BOOLEAN, connected : BOOLEAN, attached : BOOLEAN,
                    transport : BOOLEAN, tls : BOOLEAN]
      /\ conn'.open = FALSE /\ conn'.connected = conn.connected
  BY <1>1, TypeFacts
<1>5. TypeOK'
  OBVIOUS
<1>6. GoodWire(wire', conn'.open, sent')
  <2>1. GoodWire(wire', FALSE, sent)
    BY <1>3, TypeFacts, GoodCut
  <2> QED
    BY <1>1, <1>4, <2>1
<1>7. HandOf(rd', wire', conn'.open, sent')
  <2>1. HandOf(rd, wire', FALSE, sent)
    BY <1>3, TypeFacts, HandCut
  <2> QED
    BY <1>1, <1>4, <2>1
<1>8. OwedOK'
  BY <1>1, <1>2 DEF OwedOK
<1>9. PICK n \in 0 .. Len(sent), d \in 0 .. Len(sent) : ReadUpTo(n, d)
  OBVIOUS
<1>10. Ahead(n)'
  <2>1. /\ LinesAbove(wire, n)
        /\ conn.connected => \A j \in owed : j > n => HasLine(wire, j)
    BY <1>9 DEF ReadUpTo, Ahead
  <2>2. LinesAbove(wire', n)
    BY <1>3, <2>1, TypeFacts, CutLines
  <2>3. ASSUME conn'.connected, NEW j \in owed', j > n PROVE HasLine(wire', j)
    <3>1. j \in owed /\ \A m \in k + 1 .. Len(wire) : wire[m].of # j
      BY <1>2
    <3>2. HasLine(wire, j)
      BY <1>4, <2>1, <2>3, <3>1
    <3> QED
      BY <1>3, <3>1, <3>2, TypeFacts, CutKeeps
  <2> QED
    BY <1>4, <2>2, <2>3 DEF Ahead
<1>11. Behind(d)'
  <2>1. owed' \subseteq owed
    BY <1>2
  <2> QED
    BY <1>1, <1>4, <1>9, <2>1, BehindKept DEF ReadUpTo
<1>12. ReadUpTo(n, d)' /\ n \in 0 .. Len(sent') /\ d \in 0 .. Len(sent')
  BY <1>1, <1>9, <1>10, <1>11 DEF ReadUpTo
<1> QED
  BY <1>5, <1>6, <1>7, <1>8, <1>12

LEMMA ResubscribeKeeps == ASSUME Aligned, TypeOK', Resubscribe PROVE Aligned'
<1> USE DEF Aligned
<1>1. UNCHANGED <<sent, wire, clear, conn, rd, delivered, pongs>>
  BY DEF Resubscribe
<1>2. PICK sid \in Sid, s \in {"none", "live", "marked"} :
        /\ subs' = [subs EXCEPT ![sid] = s]
        /\ owed' = {i \in owed : sent[i].kind \in Message => sent[i].sid # sid}
  BY DEF Resubscribe
<1>3. TypeOK'
  OBVIOUS
<1>4. GoodWire(wire', conn'.open, sent') /\ HandOf(rd', wire', conn'.open, sent')
  BY <1>1
<1>5. OwedOK'
  <2>1. subs \in [Sid -> {"none", "live", "marked"}]
    BY DEF TypeOK
  <2>2. ASSUME NEW i \in owed'
        PROVE  i \in 1 .. Len(sent) /\ (sent[i].kind \in Message => subs'[sent[i].sid] = "live")
    <3>1. i \in owed /\ (sent[i].kind \in Message => sent[i].sid # sid)
      BY <1>2
    <3>2. i \in 1 .. Len(sent) /\ (sent[i].kind \in Message => subs[sent[i].sid] = "live")
      BY <3>1 DEF OwedOK
    <3>3. sent[i].kind \in Message => sent[i].sid \in Sid
      BY <3>2, TypeFacts, FrameFacts
    <3> QED
      BY <1>2, <2>1, <3>1, <3>2, <3>3
  <2> QED
    BY <1>1, <2>2 DEF OwedOK
<1>6. PICK n \in 0 .. Len(sent), d \in 0 .. Len(sent) : ReadUpTo(n, d)
  OBVIOUS
<1>7. owed' \subseteq owed
  BY <1>2
<1>8. Ahead(n)'
  BY <1>1, <1>6, <1>7 DEF ReadUpTo, Ahead
<1>9. Behind(d)'
  BY <1>1, <1>6, <1>7, BehindKept DEF ReadUpTo
<1>10. ReadUpTo(n, d)' /\ n \in 0 .. Len(sent') /\ d \in 0 .. Len(sent')
  BY <1>1, <1>6, <1>8, <1>9 DEF ReadUpTo
<1> QED
  BY <1>3, <1>4, <1>5, <1>10

\* disconnect(): what is in hand is kept, or given up.
LEMMA DisconnectKeeps ==
  ASSUME Aligned, TypeOK', Disconnect, UNCHANGED <<sent, subs, delivered, pongs, owed>>,
         rd' \in Reads, HandOf(rd', wire', conn'.open, sent'),
         Holds(rd') => Holds(rd) /\ Held(rd') = Held(rd)
  PROVE  Aligned'
<1> USE DEF Aligned
<1>1. UNCHANGED <<sent, subs, delivered, pongs, owed>>
  OBVIOUS
<1>2. /\ wire' \in Seq(CellType) /\ clear' \in 0 .. Len(wire')
      /\ conn' \in [open : BOOLEAN, connected : BOOLEAN, attached : BOOLEAN,
                    transport : BOOLEAN, tls : BOOLEAN]
      /\ GoodWire(wire', conn'.open, sent') /\ OwedOK'
      /\ \A n \in Nat : Ahead(n) => Ahead(n)'
      /\ \A d, e \in 0 .. Len(sent) : d <= e /\ Behind(d) => Behind(e)'
  BY DisconnectFacts
<1>3. TypeOK'
  OBVIOUS
<1>4. PICK n \in 0 .. Len(sent), d \in 0 .. Len(sent) : ReadUpTo(n, d)
  OBVIOUS
<1>5. PICK e \in 0 .. Len(sent) : e = (IF Holds(rd') THEN n - 1 ELSE n) /\ d <= e
  <2>1. n \in Nat /\ Len(sent) \in Nat /\ (Holds(rd) => n >= 1 /\ d = n - 1)
        /\ (~Holds(rd) => d = n)
    BY <1>4, TypeFacts DEF ReadUpTo, HandOf
  <2>2. CASE Holds(rd')
    BY <1>4, <2>1, <2>2
  <2>3. CASE ~Holds(rd')
    BY <1>4, <2>1, <2>3
  <2> QED
    BY <2>2, <2>3
<1>6. Ahead(n)' /\ Behind(e)'
  <2>1. n \in Nat
    BY TypeFacts
  <2> QED
    BY <1>2, <1>4, <1>5, <2>1 DEF ReadUpTo
<1>7. ReadUpTo(n, e)' /\ n \in 0 .. Len(sent') /\ e \in 0 .. Len(sent')
  BY <1>1, <1>4, <1>5, <1>6 DEF ReadUpTo
<1> QED
  BY <1>2, <1>3, <1>7

LEMMA OtherDisconnectsKeeps ==
  ASSUME Aligned, TypeOK', Disconnect, UNCHANGED <<sent, subs, rd, delivered, pongs, owed>>
  PROVE  Aligned'
<1>1. rd' = rd /\ sent' = sent /\ rd \in Reads
  BY TypeFacts DEF Aligned
<1>2. conn'.open = FALSE /\ Cut(wire', wire) /\ wire' \in Wires
  BY DisconnectFacts DEF Wires
<1>3. HandOf(rd, wire', FALSE, sent)
  BY <1>2, TypeFacts, HandCut DEF Aligned
<1> QED
  BY <1>1, <1>2, <1>3, DisconnectKeeps

-----------------------------------------------------------------------------
(* The reading task: lines                                                 *)

LEMMA PollKeeps == ASSUME Aligned, TypeOK', Poll PROVE Aligned'
<1> USE DEF Aligned
<1>1. /\ rd.pc = "idle" /\ rd' = [rd EXCEPT !.pc = "line", !.got = <<>>]
      /\ UNCHANGED <<sent, wire, clear, conn, subs, delivered, pongs, owed>>
  BY DEF Poll
<1>2. rd' \in Reads /\ rd'.pc = "line" /\ rd'.got = <<>>
  <2>1. rd \in Reads /\ <<>> \in Seq(CellType)
    BY TypeFacts
  <2> QED
    BY <1>1, <2>1 DEF Reads
<1>3. ~Holds(rd) /\ ~Holds(rd')
  BY <1>1, <1>2 DEF Holds, AtControl, InBody
<1>4. TypeOK'
  OBVIOUS
<1>5. HandOf(rd', wire', conn'.open, sent')
  BY <1>2, <1>3 DEF HandOf, LineSoFar, Holds
<1>6. PICK n \in 0 .. Len(sent), d \in 0 .. Len(sent) : ReadUpTo(n, d)
  OBVIOUS
<1>7. Ahead(n)' /\ OwedOK'
  BY <1>1, <1>6 DEF ReadUpTo, Ahead, OwedOK
<1>8. Behind(d)'
  BY <1>1, <1>6, BehindKept DEF ReadUpTo
<1>9. ReadUpTo(n, d)' /\ n \in 0 .. Len(sent') /\ d \in 0 .. Len(sent')
  BY <1>1, <1>3, <1>6, <1>7, <1>8 DEF ReadUpTo
<1> QED
  BY <1>1, <1>4, <1>5, <1>7, <1>9

\* The line of the next frame is taken: it is in hand now.
LEMMA LineReadKeeps ==
  ASSUME Aligned, TypeOK', rd.pc = "line", LineCell, IsLine(wire[1])
  PROVE  Aligned'
<1> USE DEF Aligned
<1> DEFINE c == wire[1]
<1>1. /\ wire # <<>> /\ TakeCells(1) /\ Head(wire) = c
      /\ UNCHANGED <<sent, conn, subs, delivered, pongs, owed>>
  BY TypeFacts DEF LineCell, Wires
<1>2. /\ Taken(wire', wire, 1) /\ wire' \in Wires /\ 1 <= Len(wire)
      /\ clear' \in 0 .. Len(wire')
  BY <1>1, TakeFacts
<1>3. 1 \in 1 .. Len(wire) /\ c \in CellType /\ c.kind = "line"
  BY <1>2, TypeFacts DEF IsLine, Wires
<1>4. rd.got = <<>>
  BY <1>1 DEF HandOf, LineSoFar
<1>5. rd' = [rd EXCEPT !.pc = "parse", !.got = <<c>>]
  <2>1. rd' = [rd EXCEPT !.pc = "parse", !.got = Append(@, c)]
    BY <1>1, <1>3 DEF LineCell
  <2>2. Append(rd.got, c) = <<c>>
    BY <1>4
  <2> QED
    BY <2>1, <2>2
<1>6. /\ rd' \in Reads /\ rd'.pc = "parse" /\ rd'.got = <<c>>
      /\ Len(rd'.got) = 1 /\ rd'.got[1] = c
  <2>1. <<c>> \in Seq(CellType) /\ Len(<<c>>) = 1 /\ <<c>>[1] = c
    BY <1>3
  <2> QED
    BY <1>5, <2>1, TypeFacts DEF Reads
<1>7. Holds(rd') /\ Held(rd') = c.of /\ ~InBody(rd') /\ ~Holds(rd)
  BY <1>6 DEF Holds, AtControl, InBody, Held
<1>8. TypeOK'
  OBVIOUS
<1>9. GoodWire(wire', conn'.open, sent')
  BY <1>1, <1>2, TypeFacts, GoodTaken
<1>10. PICK n \in 0 .. Len(sent), d \in 0 .. Len(sent) : ReadUpTo(n, d)
  OBVIOUS
<1>11. d = n /\ Ahead(n) /\ Behind(n) /\ n \in Nat
  BY <1>7, <1>10, TypeFacts DEF ReadUpTo
<1>12. /\ c.of = n + 1 /\ n + 1 <= Len(sent)
       /\ LinesAbove(wire', n + 1)
       /\ \A j \in Nat : j > n + 1 /\ HasLine(wire, j) => HasLine(wire', j)
  <2>1. LinesAbove(wire, n)
    BY <1>11 DEF Ahead
  <2> QED
    BY <1>2, <1>11, <2>1, TypeFacts, LineTake
<1>13. HandOf(rd', wire', conn'.open, sent')
  <2> DEFINE cells == Cells(sent[c.of], c.of)
  <2>1. c.of \in 1 .. Len(sent) /\ GoesOn(wire, conn.open, cells, 1, 1)
    BY <1>3 DEF GoodWire
  <2>2. cells \in Wires
    BY <2>1, TypeFacts, SentCells
  <2>3. GoesOn(wire', conn.open, cells, 0, 1)
    <3>1. 1 + 0 = 1 /\ 0 \in Nat /\ 1 \in Nat
      OBVIOUS
    <3> QED
      BY <1>2, <2>1, <2>2, <3>1, TypeFacts, GoesOnTaken
  <2>4. Position(rd', sent[c.of]) = 1
    BY <1>6 DEF Position
  <2> QED
    BY <1>1, <1>6, <1>7, <2>1, <2>3, <2>4 DEF HandOf
<1>14. Ahead(n + 1)'
  <2>1. ASSUME conn'.open, NEW j \in (n + 1) + 1 .. Len(sent) PROVE HasLine(wire', j)
    <3>1. j \in n + 1 .. Len(sent) /\ j \in Nat /\ j > n + 1
      BY <1>11
    <3>2. HasLine(wire, j)
      BY <1>1, <1>11, <2>1, <3>1 DEF Ahead
    <3> QED
      BY <1>12, <3>1, <3>2
  <2>2. ASSUME conn'.connected, NEW j \in owed, j > n + 1 PROVE HasLine(wire', j)
    <3>1. j \in Nat /\ j > n
      BY <1>11, <2>2 DEF OwedOK
    <3>2. HasLine(wire, j)
      BY <1>1, <1>11, <2>2, <3>1 DEF Ahead
    <3> QED
      BY <1>12, <2>2, <3>1, <3>2
  <2> QED
    BY <1>1, <1>12, <2>1, <2>2 DEF Ahead
<1>15. Behind(n)'
  BY <1>1, <1>10, <1>11, BehindKept
<1>16. ReadUpTo(n + 1, n)' /\ n + 1 \in 0 .. Len(sent') /\ n \in 0 .. Len(sent')
  <2>1. n + 1 \in 0 .. Len(sent') /\ n \in 0 .. Len(sent') /\ (n + 1) - 1 = n
    BY <1>1, <1>11, <1>12, TypeFacts
  <2> QED
    BY <1>7, <1>12, <1>14, <1>15, <2>1 DEF ReadUpTo
<1>17. OwedOK'
  BY <1>1 DEF OwedOK
<1> QED
  BY <1>8, <1>9, <1>13, <1>16, <1>17

\* A cell that is no line: nothing is read up to but what has been.
LEMMA QuietKeeps ==
  ASSUME Aligned, TypeOK', NEW k \in Nat, TakeCells(k), \A m \in 1 .. k : ~IsLine(wire[m]),
         UNCHANGED <<sent, conn, subs, delivered, pongs, owed>>,
         rd' \in Reads, Holds(rd') <=> Holds(rd), Holds(rd) => Held(rd') = Held(rd),
         HandOf(rd', wire', conn'.open, sent')
  PROVE  Aligned'
<1> USE DEF Aligned
<1>1. UNCHANGED <<sent, conn, subs, delivered, pongs, owed>>
  OBVIOUS
<1>2. /\ Taken(wire', wire, k) /\ wire' \in Wires
      /\ clear' \in 0 .. Len(wire')
  BY TakeFacts
<1>3. TypeOK'
  OBVIOUS
<1>4. GoodWire(wire', conn'.open, sent')
  BY <1>1, <1>2, TypeFacts, GoodTaken
<1>5. OwedOK'
  BY <1>1 DEF OwedOK
<1>6. PICK n \in 0 .. Len(sent), d \in 0 .. Len(sent) : ReadUpTo(n, d)
  OBVIOUS
<1>7. Ahead(n)'
  <2>1. /\ \A j : HasLine(wire, j) => HasLine(wire', j)
        /\ \A q \in Nat : LinesAbove(wire, q) => LinesAbove(wire', q)
    BY <1>2, TypeFacts, QuietTake
  <2>2. n \in Nat
    BY TypeFacts
  <2> QED
    BY <1>1, <1>6, <2>1, <2>2 DEF ReadUpTo, Ahead
<1>8. Behind(d)'
  BY <1>1, <1>6, BehindKept DEF ReadUpTo
<1>9. ReadUpTo(n, d)' /\ n \in 0 .. Len(sent') /\ d \in 0 .. Len(sent')
  BY <1>1, <1>6, <1>7, <1>8 DEF ReadUpTo
<1> QED
  BY <1>3, <1>4, <1>5, <1>9

LEMMA OtherCellKeeps ==
  ASSUME Aligned, TypeOK', rd.pc = "line", LineCell, ~IsLine(wire[1])
  PROVE  Aligned'
<1> USE DEF Aligned
<1> DEFINE c == wire[1]
<1>1. /\ wire # <<>> /\ TakeCells(1) /\ Head(wire) = c
      /\ UNCHANGED <<sent, conn, subs, delivered, pongs, owed>>
  BY TypeFacts DEF LineCell, Wires
<1>2. /\ Taken(wire', wire, 1) /\ wire' \in Wires /\ 1 <= Len(wire) /\ Len(wire) \in Nat
  BY <1>1, TypeFacts, TakeFacts
<1>3. 1 \in 1 .. Len(wire) /\ c \in CellType /\ c.kind # "line"
  BY <1>2, TypeFacts DEF IsLine, Wires
<1>4. c.kind \in {"chr", "nl", "text", "cr", "lf"}
  BY <1>3 DEF CellType
<1>5. rd.got \in Seq(CellType) /\ \A k \in 1 .. Len(rd.got) : rd.got[k].kind = "chr"
  BY TypeFacts DEF HandOf, LineSoFar, Reads
<1>6. /\ c.kind = "cr" => rd' = rd
      /\ c.kind \in {"nl", "lf"} => rd' = [rd EXCEPT !.pc = "parse"]
      /\ c.kind = "text" => rd' = [rd EXCEPT !.pc = "parse", !.got = Append(@, c)]
      /\ c.kind = "chr" => rd' = [rd EXCEPT !.got = Append(@, c)]
  BY <1>1 DEF LineCell
<1>7. /\ Append(rd.got, c) \in Seq(CellType)
      /\ \A k \in 1 .. Len(Append(rd.got, c)) :
           Append(rd.got, c)[k].kind = "chr" \/ Append(rd.got, c)[k] = c
  BY <1>3, <1>5
<1>8. /\ rd' \in Reads /\ rd'.pc \in {"line", "parse"}
      /\ rd'.pc = "line" => c.kind \in {"cr", "chr"}
      /\ \A k \in 1 .. Len(rd'.got) :
           rd'.got[k].kind = "chr" \/ (rd'.pc = "parse" /\ rd'.got[k].kind = "text")
  <2>1. CASE c.kind = "cr"
    BY <1>5, <1>6, <2>1, TypeFacts
  <2>2. CASE c.kind \in {"nl", "lf"}
    BY <1>5, <1>6, <2>2, TypeFacts DEF Reads
  <2>3. CASE c.kind = "chr"
    BY <1>6, <1>7, <2>3, TypeFacts DEF Reads
  <2>4. CASE c.kind = "text"
    <3>1. /\ rd' \in Reads /\ rd'.pc = "parse" /\ rd'.got = Append(rd.got, c)
      BY <1>6, <1>7, <2>4, TypeFacts DEF Reads
    <3> QED
      BY <1>7, <2>4, <3>1
  <2> QED
    BY <1>4, <2>1, <2>2, <2>3, <2>4
<1>9. ~Holds(rd') /\ ~Holds(rd)
  BY <1>8 DEF Holds, AtControl, InBody, IsLine
<1>10. ASSUME rd'.pc = "line" PROVE LineSoFar(rd'.got, wire', conn.open)
  <2>1. c.kind \notin {"lf", "line"}
    BY <1>8, <1>10
  <2>2. conn.open => wire' # <<>>
    <3>1. conn.open => wire[Len(wire)].kind \in {"lf", "line"}
      BY <1>1 DEF GoodWire
    <3>2. conn.open => Len(wire) # 1
      BY <2>1, <3>1
    <3>3. conn.open => Len(wire') # 0
      BY <1>2, <3>2 DEF Taken
    <3> QED
      BY <3>3
  <2>3. wire' # <<>> => ~IsLine(wire'[1])
    <3>1. wire' # <<>> => Len(wire') >= 1
      BY <1>2 DEF Wires
    <3>2. wire' # <<>> => 2 \in 1 .. Len(wire) /\ wire'[1] = wire[2]
      <4>1. wire' # <<>> => 1 \in 1 .. Len(wire')
        BY <3>1
      <4> QED
        BY <1>2, <3>1, <4>1 DEF Taken
    <3>3. wire' # <<>> /\ IsLine(wire[2]) => wire[2 - 1].kind \in {"lf", "line"}
      BY <3>2 DEF GoodWire
    <3>4. wire[2 - 1] = c
      OBVIOUS
    <3> QED
      BY <2>1, <3>2, <3>3, <3>4
  <2>4. \A m \in 1 .. Len(rd'.got) : rd'.got[m].kind = "chr"
    BY <1>8, <1>10
  <2> QED
    BY <2>2, <2>3, <2>4 DEF LineSoFar
<1>11. HandOf(rd', wire', conn'.open, sent')
  BY <1>1, <1>9, <1>10 DEF HandOf, Holds
<1>12. \A m \in 1 .. 1 : ~IsLine(wire[m])
  OBVIOUS
<1> QED
  BY <1>1, <1>8, <1>9, <1>11, <1>12, QuietKeeps

LEMMA LineLostKeeps == ASSUME Aligned, TypeOK', rd.pc = "line", LineLost PROVE Aligned'
<1> USE DEF Aligned
<1>1. /\ Disconnect /\ UNCHANGED <<sent, subs, delivered, pongs, owed>>
      /\ rd' = [rd EXCEPT !.pc = "parse", !.got = <<>>]
  BY DEF LineLost
<1>2. rd' \in Reads /\ rd'.pc = "parse" /\ rd'.got = <<>>
  <2>1. rd \in Reads /\ <<>> \in Seq(CellType)
    BY TypeFacts
  <2> QED
    BY <1>1, <2>1 DEF Reads
<1>3. ~Holds(rd) /\ ~Holds(rd')
  BY <1>2 DEF Holds, AtControl, InBody
<1>4. HandOf(rd', wire', conn'.open, sent')
  BY <1>2, <1>3 DEF HandOf, Holds
<1> QED
  BY <1>1, <1>2, <1>3, <1>4, DisconnectKeeps

-----------------------------------------------------------------------------
(* The reading task: payloads                                              *)

\* What is known of the message whose payload is read.
LEMMA InHandFacts ==
  ASSUME Aligned, InBody(rd)
  PROVE  /\ rd.frame \in 1 .. Len(sent) /\ rd.frame \in 1 .. Frames
         /\ sent[rd.frame] \in Frame /\ BodyOK(rd, sent[rd.frame])
         /\ Holds(rd) /\ Held(rd) = rd.frame
         /\ Len(sent[rd.frame].body) \in Nat
         /\ Cells(sent[rd.frame], rd.frame) \in Wires
         /\ rd.got \in Seq(CellType) /\ Len(rd.got) \in Nat /\ rd.need \in Nat
<1>1. Holds(rd) /\ Held(rd) = rd.frame
  BY DEF Holds, Held, InBody
<1>2. rd.frame \in 1 .. Len(sent) /\ BodyOK(rd, sent[rd.frame])
  BY <1>1 DEF Aligned, HandOf
<1>3. rd.frame \in 1 .. Frames /\ sent[rd.frame] \in Frame
      /\ Cells(sent[rd.frame], rd.frame) \in Wires
  BY <1>2, TypeFacts, SentCells DEF Aligned
<1>4. Len(sent[rd.frame].body) \in Nat
  BY <1>3, FrameFacts
<1>5. rd.got \in Seq(CellType) /\ Len(rd.got) \in Nat /\ rd.need \in Nat
  BY TypeFacts DEF Reads, Aligned
<1> QED
  BY <1>1, <1>2, <1>3, <1>4, <1>5

LEMMA JoinedCells ==
  ASSUME NEW s \in Seq(CellType), NEW t \in Seq(CellType), NEW g, g = s \o t
  PROVE  /\ g \in Seq(CellType) /\ Len(g) = Len(s) + Len(t)
         /\ \A m \in 1 .. Len(s) : g[m] = s[m]
         /\ \A m \in 1 .. Len(t) : g[Len(s) + m] = t[m]
BY ConcatFacts

\* Where an index lies that is past the first a of a + k.
LEMMA PastFirst ==
  ASSUME NEW a \in Nat, NEW k \in Nat, NEW m \in 1 .. a + k, m \notin 1 .. a
  PROVE  m - a \in 1 .. k /\ a + (m - a) = m /\ (a + 1) + (m - a) = m + 1
<1>1. m > a /\ m <= a + k /\ m \in Nat
  OBVIOUS
<1> QED
  BY ONLY <1>1, a \in Nat, k \in Nat

LEMMA PayloadCellsKeeps ==
  ASSUME Aligned, TypeOK', rd.pc = "payload", PayloadCells
  PROVE  Aligned'
<1> DEFINE i == rd.frame
           f == sent[rd.frame]
           p == Len(rd.got) + 1
<1>0. InBody(rd)
  BY DEF InBody
<1>1. PICK k \in Nat : /\ k <= rd.need /\ k <= Len(wire) /\ TakeCells(k)
                       /\ rd' = [rd EXCEPT !.got = @ \o SubSeq(wire, 1, k), !.need = @ - k]
  <2>1. rd.need \in Nat /\ Len(wire) \in Nat
    BY <1>0, InHandFacts, TypeFacts DEF Aligned
  <2> DEFINE k0 == IF rd.need < Len(wire) THEN rd.need ELSE Len(wire)
  <2>2. k0 \in Nat /\ k0 <= rd.need /\ k0 <= Len(wire)
    BY <2>1
  <2>3. TakeCells(k0) /\ rd' = [rd EXCEPT !.got = @ \o SubSeq(wire, 1, k0), !.need = @ - k0]
    BY DEF PayloadCells
  <2> HIDE DEF k0
  <2> QED
    BY <2>2, <2>3
<1>2. UNCHANGED <<sent, conn, subs, delivered, pongs, owed>>
  BY DEF PayloadCells
<1>3. /\ i \in 1 .. Len(sent) /\ i \in 1 .. Frames /\ f \in Frame /\ Len(f.body) \in Nat
      /\ Cells(f, i) \in Wires /\ Holds(rd) /\ Held(rd) = i
      /\ rd.line = f /\ f.kind \in Message /\ Accepts(f)
      /\ \A m \in 1 .. Len(rd.got) : rd.got[m] = Cells(f, i)[m + 1]
      /\ Len(rd.got) + rd.need = Len(f.body)
      /\ rd.got \in Seq(CellType) /\ Len(rd.got) \in Nat /\ rd.need \in Nat
  BY <1>0, InHandFacts DEF BodyOK
<1>4. p \in Nat /\ GoesOn(wire, conn.open, Cells(f, i), 0, p)
  <2>1. Position(rd, f) = p
    BY DEF Position
  <2> QED
    BY <1>3, <2>1 DEF Aligned, HandOf
<1>5. \A m \in 1 .. k : wire[m] = Cells(f, i)[p + m] /\ ~IsLine(wire[m])
  <2>0. /\ k \in Nat /\ k <= rd.need /\ Len(rd.got) + rd.need = Len(f.body)
        /\ Len(rd.got) \in Nat /\ rd.need \in Nat /\ Len(f.body) \in Nat
    BY <1>1, <1>3
  <2>1. p >= 1 /\ p + k <= Len(f.body) + 3
    BY ONLY <2>0
  <2>2. wire \in Wires
    BY TypeFacts DEF Aligned
  <2> QED
    BY <1>1, <1>3, <1>4, <2>1, <2>2, NextCells
<1>6. /\ Taken(wire', wire, k) /\ wire' \in Wires
  BY <1>1, TakeFacts DEF Aligned
<1> DEFINE t == SubSeq(wire, 1, k)
           g == rd.got \o t
<1>7. t \in Seq(CellType) /\ Len(t) = k /\ \A m \in 1 .. k : t[m] = wire[m]
  <2>1. wire \in Seq(CellType) /\ Len(wire) \in Nat
    BY TypeFacts DEF Aligned, Wires
  <2> QED
    BY <1>1, <2>1
<1> HIDE DEF t
<1>9. rd' = [rd EXCEPT !.got = g, !.need = @ - k]
  BY <1>1 DEF t
<1>16. g = rd.got \o t
  OBVIOUS
<1> HIDE DEF g
<1>8. /\ g \in Seq(CellType) /\ Len(g) = Len(rd.got) + k
      /\ \A m \in 1 .. Len(rd.got) : g[m] = rd.got[m]
      /\ \A m \in 1 .. k : g[Len(rd.got) + m] = t[m]
  <2> DEFINE s == rd.got
  <2>1. s \in Seq(CellType) /\ t \in Seq(CellType) /\ g = s \o t
    BY <1>3, <1>7, <1>16
  <2>3. Len(t) = k
    BY <1>7
  <2> HIDE DEF s
  <2>2. /\ g \in Seq(CellType) /\ Len(g) = Len(s) + Len(t)
        /\ \A m \in 1 .. Len(s) : g[m] = s[m]
        /\ \A m \in 1 .. Len(t) : g[Len(s) + m] = t[m]
    BY ONLY <2>1, JoinedCells
  <2> QED
    BY <2>2, <2>3 DEF s
<1>10. /\ rd' \in Reads /\ rd'.pc = "payload" /\ rd'.got = g /\ rd'.frame = i
       /\ rd'.need = rd.need - k /\ rd'.line = rd.line
  <2>1. rd.need - k \in Nat /\ rd \in Reads
    BY <1>1, <1>3, TypeFacts DEF Aligned
  <2> QED
    BY <1>8, <1>9, <2>1 DEF Reads
<1>11. InBody(rd') /\ Holds(rd') /\ Held(rd') = i
  BY <1>10 DEF Holds, Held, InBody
<1>12. BodyOK(rd', f)
  <2>1. ASSUME NEW m \in 1 .. Len(g) PROVE g[m] = Cells(f, i)[m + 1]
    <3>1. CASE m \in 1 .. Len(rd.got)
      BY <1>3, <1>8, <3>1
    <3>2. CASE m \notin 1 .. Len(rd.got)
      <4>0. /\ m \in 1 .. Len(rd.got) + k /\ m \notin 1 .. Len(rd.got)
            /\ Len(rd.got) \in Nat /\ k \in Nat
        BY <1>3, <1>8, <3>2
      <4>1. m - Len(rd.got) \in 1 .. k /\ Len(rd.got) + (m - Len(rd.got)) = m
            /\ (Len(rd.got) + 1) + (m - Len(rd.got)) = m + 1
        BY ONLY <4>0, PastFirst
      <4>2. g[m] = t[m - Len(rd.got)]
        BY <1>8, <4>1
      <4> QED
        BY <1>5, <1>7, <4>1, <4>2
    <3> QED
      BY <3>1, <3>2
  <2>2. Len(g) + (rd.need - k) = Len(f.body)
    BY <1>1, <1>3, <1>8
  <2>3. rd'.line = f /\ f.kind \in Message /\ Accepts(f)
    BY <1>3, <1>10
  <2>4. \A m \in 1 .. Len(rd'.got) : rd'.got[m] = Cells(f, rd'.frame)[m + 1]
    BY <1>10, <2>1
  <2>5. Len(rd'.got) + (IF rd'.pc = "payload" THEN rd'.need ELSE 0) = Len(f.body)
    BY <1>10, <2>2
  <2>6. rd'.pc # "skip"
    BY <1>10
  <2> QED
    BY ONLY <2>3, <2>4, <2>5, <2>6 DEF BodyOK
<1>13. GoesOn(wire', conn.open, Cells(f, i), 0, p + k)
  <2>1. 0 \in Nat /\ wire \in Wires
    BY TypeFacts DEF Aligned
  <2> QED
    BY <1>3, <1>4, <1>6, <2>1, GoesOnTaken
<1>14. Position(rd', f) = p + k /\ p + k \in Nat
  <2>1. Len(g) + 1 = p + k
    BY <1>3, <1>8
  <2> QED
    BY <1>1, <1>4, <1>10, <2>1 DEF Position
<1>15. HandOf(rd', wire', conn'.open, sent')
  <2>1. rd'.pc # "line" /\ sent' = sent /\ conn' = conn
    BY <1>2, <1>10
  <2> QED
    BY <1>3, <1>10, <1>11, <1>12, <1>13, <1>14, <2>1 DEF HandOf
<1> QED
  BY <1>1, <1>2, <1>3, <1>5, <1>10, <1>11, <1>15, QuietKeeps

LEMMA PayloadLostKeeps == ASSUME Aligned, TypeOK', PayloadLost PROVE Aligned'
<1>1. Disconnect /\ UNCHANGED <<sent, subs, delivered, pongs, owed>> /\ rd' = Idle
  BY DEF PayloadLost
<1>2. rd' \in Reads /\ rd'.pc = "idle"
  <2>1. <<>> \in Seq(CellType) /\ 0 \in 0 .. Frames /\ NoLine \in Frame
    BY InboundAssumption, NoLineFrame
  <2> QED
    BY <1>1, <2>1 DEF Reads, Idle
<1>3. ~Holds(rd')
  BY <1>2 DEF Holds, AtControl, InBody
<1>4. HandOf(rd', wire', conn'.open, sent')
  BY <1>2, <1>3 DEF HandOf, Holds
<1> QED
  BY <1>1, <1>2, <1>3, <1>4, DisconnectKeeps

\* Nothing on the wire has changed, and the same frame is in hand.
LEMMA StepKeeps ==
  ASSUME Aligned, TypeOK', UNCHANGED <<sent, wire, clear, subs, delivered, pongs, owed>>,
         conn' \in [open : BOOLEAN, connected : BOOLEAN, attached : BOOLEAN,
                    transport : BOOLEAN, tls : BOOLEAN],
         conn'.open = conn.open, conn'.connected = conn.connected,
         rd' \in Reads, Holds(rd') <=> Holds(rd), Holds(rd) => Held(rd') = Held(rd),
         HandOf(rd', wire', conn'.open, sent')
  PROVE  Aligned'
<1> USE DEF Aligned
<1>1. UNCHANGED <<sent, wire, clear, subs, delivered, pongs, owed>>
  OBVIOUS
<1>2. TypeOK'
  OBVIOUS
<1>3. GoodWire(wire', conn'.open, sent')
  BY <1>1
<1>4. OwedOK'
  BY <1>1 DEF OwedOK
<1>5. PICK n \in 0 .. Len(sent), d \in 0 .. Len(sent) : ReadUpTo(n, d)
  OBVIOUS
<1>6. Ahead(n)'
  BY <1>1, <1>5 DEF ReadUpTo, Ahead
<1>7. Behind(d)'
  BY <1>1, <1>5, BehindKept DEF ReadUpTo
<1>8. ReadUpTo(n, d)' /\ n \in 0 .. Len(sent') /\ d \in 0 .. Len(sent')
  BY <1>1, <1>5, <1>6, <1>7 DEF ReadUpTo
<1> QED
  BY <1>2, <1>3, <1>4, <1>8

LEMMA PayloadReadKeeps ==
  ASSUME Aligned, TypeOK', rd.pc = "payload", PayloadRead
  PROVE  Aligned'
<1> DEFINE i == rd.frame
           f == sent[rd.frame]
<1>1. /\ rd.need = 0 /\ rd' = [rd EXCEPT !.pc = "skip", !.need = 2]
      /\ UNCHANGED <<sent, wire, clear, conn, subs, delivered, pongs, owed>>
  BY DEF PayloadRead
<1>2. InBody(rd)
  BY DEF InBody
<1>3. /\ i \in 1 .. Len(sent) /\ Holds(rd) /\ Held(rd) = i /\ BodyOK(rd, f)
      /\ Len(f.body) \in Nat /\ Len(rd.got) \in Nat
  BY <1>2, InHandFacts
<1>4. /\ rd' \in Reads /\ rd'.pc = "skip" /\ rd'.got = rd.got /\ rd'.frame = i /\ rd'.need = 2
      /\ rd'.line = rd.line
  BY <1>1, TypeFacts DEF Reads, Aligned
<1>5. InBody(rd') /\ Holds(rd') /\ Held(rd') = i
  BY <1>4 DEF Holds, Held, InBody
<1>6. Len(rd.got) = Len(f.body)
  BY <1>1, <1>3 DEF BodyOK
<1>7. BodyOK(rd', f)
  BY <1>3, <1>4, <1>6 DEF BodyOK
<1>8. Position(rd', f) = Len(rd.got) + 1 /\ Position(rd, f) = Len(rd.got) + 1
  <2>1. Len(f.body) + 3 - 2 = Len(rd.got) + 1
    BY <1>3, <1>6
  <2> QED
    BY <1>4, <2>1 DEF Position
<1>9. HandOf(rd', wire', conn'.open, sent')
  <2>1. Position(rd, f) \in Nat /\ GoesOn(wire, conn.open, Cells(f, i), 0, Position(rd, f))
    BY <1>3 DEF Aligned, HandOf
  <2>2. rd'.pc # "line" /\ sent' = sent /\ wire' = wire /\ conn' = conn
    BY <1>1, <1>4
  <2> QED
    BY <1>3, <1>4, <1>5, <1>7, <1>8, <2>1, <2>2 DEF HandOf
<1>10. conn' = conn /\ conn \in [open : BOOLEAN, connected : BOOLEAN, attached : BOOLEAN,
                                 transport : BOOLEAN, tls : BOOLEAN]
  BY <1>1, TypeFacts DEF Aligned
<1> QED
  BY <1>1, <1>3, <1>4, <1>5, <1>9, <1>10, StepKeeps

LEMMA SkipCellsKeeps ==
  ASSUME Aligned, TypeOK', rd.pc = "skip", SkipCells
  PROVE  Aligned'
<1> DEFINE i == rd.frame
           f == sent[rd.frame]
           p == Len(f.body) + 3 - rd.need
<1>0. InBody(rd)
  BY DEF InBody
<1>1. PICK k \in Nat :
        /\ k <= rd.need /\ k <= Len(wire) /\ TakeCells(k)
        /\ rd' = [rd EXCEPT !.pc = IF rd.need = k THEN "call" ELSE "skip", !.need = @ - k]
  <2>1. rd.need \in Nat /\ Len(wire) \in Nat
    BY <1>0, InHandFacts, TypeFacts DEF Aligned
  <2> DEFINE k0 == IF rd.need < Len(wire) THEN rd.need ELSE Len(wire)
  <2>2. k0 \in Nat /\ k0 <= rd.need /\ k0 <= Len(wire)
    BY <2>1
  <2>3. TakeCells(k0) /\ rd' = [rd EXCEPT !.pc = IF rd.need = k0 THEN "call" ELSE "skip", !.need = @ - k0]
    BY DEF SkipCells
  <2> HIDE DEF k0
  <2> QED
    BY <2>2, <2>3
<1>2. UNCHANGED <<sent, conn, subs, delivered, pongs, owed>>
  BY DEF SkipCells
<1>3. /\ i \in 1 .. Len(sent) /\ i \in 1 .. Frames /\ f \in Frame /\ Len(f.body) \in Nat
      /\ Cells(f, i) \in Wires /\ Holds(rd) /\ Held(rd) = i /\ f.kind \in Message
      /\ BodyOK(rd, f) /\ rd.need \in 1 .. 2 /\ Len(rd.got) \in Nat
  BY <1>0, InHandFacts DEF BodyOK
<1>4. p \in Nat /\ p >= 1 /\ GoesOn(wire, conn.open, Cells(f, i), 0, p)
  <2>1. Position(rd, f) = p
    BY DEF Position
  <2>3. rd.need \in 1 .. 2 /\ Len(f.body) \in Nat
    BY <1>3
  <2>2. Len(f.body) + 3 - rd.need \in Nat /\ Len(f.body) + 3 - rd.need >= 1
    BY ONLY <2>3
  <2> QED
    BY <1>3, <2>1, <2>2 DEF Aligned, HandOf
<1>5. \A m \in 1 .. k : ~IsLine(wire[m])
  <2>0. k \in Nat /\ k <= rd.need /\ rd.need \in Nat /\ Len(f.body) \in Nat
    BY <1>1, <1>3
  <2>1. p + k <= Len(f.body) + 3
    BY ONLY <2>0
  <2>2. wire \in Wires
    BY TypeFacts DEF Aligned
  <2> QED
    BY <1>1, <1>3, <1>4, <2>1, <2>2, NextCells
<1>6. Taken(wire', wire, k) /\ wire' \in Wires
  BY <1>1, TakeFacts DEF Aligned
<1>7. /\ rd' \in Reads /\ rd'.pc = (IF rd.need = k THEN "call" ELSE "skip")
      /\ rd'.got = rd.got /\ rd'.frame = i /\ rd'.need = rd.need - k /\ rd'.line = rd.line
  <2>1. rd.need - k \in Nat /\ rd \in Reads
    BY <1>1, <1>3, TypeFacts DEF Aligned
  <2> QED
    BY <1>1, <2>1 DEF Reads
<1>8. InBody(rd') /\ Holds(rd') /\ Held(rd') = i /\ rd'.pc \in {"skip", "call"}
  BY <1>7 DEF Holds, Held, InBody
<1>9. BodyOK(rd', f)
  <2>1. rd'.pc = "skip" => rd'.need \in 1 .. 2
    BY <1>1, <1>3, <1>7
  <2> QED
    BY <1>3, <1>7, <1>8, <2>1 DEF BodyOK
<1>10. GoesOn(wire', conn.open, Cells(f, i), 0, p + k)
  <2>1. 0 \in Nat /\ wire \in Wires
    BY TypeFacts DEF Aligned
  <2> QED
    BY <1>3, <1>4, <1>6, <2>1, GoesOnTaken
<1>11. rd'.pc # "call" => Position(rd', f) = p + k /\ p + k \in Nat
  <2>0. k \in Nat /\ rd.need \in Int /\ Len(f.body) \in Nat /\ p \in Nat
    BY <1>1, <1>3, <1>4
  <2>1. Len(f.body) + 3 - (rd.need - k) = p + k /\ p + k \in Nat
    <3> DEFINE L == Len(f.body)
               x == rd.need
    <3>1. k \in Nat /\ x \in Int /\ L \in Nat /\ L + 3 - x \in Nat
      BY <2>0
    <3> HIDE DEF L, x
    <3>2. L + 3 - (x - k) = (L + 3 - x) + k /\ (L + 3 - x) + k \in Nat
      BY ONLY <3>1
    <3> QED
      BY <3>2 DEF L, x
  <2> QED
    BY <1>7, <1>8, <2>1 DEF Position
<1>12. HandOf(rd', wire', conn'.open, sent')
  <2>1. rd'.pc # "line" /\ sent' = sent /\ conn' = conn
    BY <1>2, <1>8
  <2> QED
    BY <1>3, <1>7, <1>8, <1>9, <1>10, <1>11, <2>1 DEF HandOf
<1> QED
  BY <1>1, <1>2, <1>3, <1>5, <1>7, <1>8, <1>12, QuietKeeps

\* The end of the stream in skip_bytes(): the message is delivered all the same.
LEMMA SkipLostFacts ==
  ASSUME Aligned, rd.pc = "skip", SkipLost, sent' = sent
  PROVE  /\ rd' \in Reads /\ HandOf(rd', wire', conn'.open, sent')
         /\ Holds(rd') /\ Holds(rd) /\ Held(rd') = Held(rd)
<1>0. InBody(rd)
  BY DEF InBody
<1>1. rd' = [rd EXCEPT !.pc = "call", !.need = 0]
  BY DEF SkipLost
<1>2. /\ rd.frame \in 1 .. Len(sent) /\ Holds(rd) /\ Held(rd) = rd.frame
      /\ BodyOK(rd, sent[rd.frame])
  BY <1>0, InHandFacts
<1>3. /\ rd' \in Reads /\ rd'.pc = "call" /\ rd'.got = rd.got /\ rd'.frame = rd.frame
      /\ rd'.line = rd.line
  BY <1>1, TypeFacts DEF Reads, Aligned
<1>4. Holds(rd') /\ Held(rd') = rd.frame
  BY <1>3 DEF Holds, Held, InBody
<1>5. BodyOK(rd', sent[rd.frame])
  BY <1>2, <1>3 DEF BodyOK
<1> QED
  BY <1>2, <1>3, <1>4, <1>5 DEF HandOf

LEMMA SkipKeeps ==
  ASSUME Aligned, TypeOK', OwnSkipBytes \/ TcpSkipBytes
  PROVE  Aligned'
<1>0. rd.pc = "skip"
  BY DEF OwnSkipBytes, TcpSkipBytes
<1>1. CASE SkipCells
  BY <1>0, <1>1, SkipCellsKeeps
<1>2. CASE SkipLost /\ Disconnect /\ UNCHANGED <<sent, subs, delivered, pongs, owed>>
  BY <1>0, <1>2, SkipLostFacts, DisconnectKeeps
<1>3. CASE /\ SkipLost
           /\ conn' = [conn EXCEPT !.attached = FALSE]
           /\ UNCHANGED <<sent, wire, clear, subs, delivered, pongs, owed>>
  <2>1. /\ conn' \in [open : BOOLEAN, connected : BOOLEAN, attached : BOOLEAN,
                      transport : BOOLEAN, tls : BOOLEAN]
        /\ conn'.open = conn.open /\ conn'.connected = conn.connected
    BY <1>3, TypeFacts DEF Aligned
  <2> QED
    BY <1>0, <1>3, <2>1, SkipLostFacts, StepKeeps
<1> QED
  BY <1>1, <1>2, <1>3 DEF OwnSkipBytes, TcpSkipBytes

-----------------------------------------------------------------------------
(* recv(): the line has been read, the message has been read               *)

LEMMA IdleFacts ==
  ASSUME rd' = Idle
  PROVE  rd' \in Reads /\ ~Holds(rd') /\ \A w, up, s : HandOf(rd', w, up, s)
<1>1. rd' \in Reads /\ rd'.pc = "idle"
  <2>1. <<>> \in Seq(CellType) /\ 0 \in 0 .. Frames /\ NoLine \in Frame
    BY InboundAssumption, NoLineFrame
  <2> QED
    BY <2>1 DEF Reads, Idle
<1>2. ~Holds(rd')
  BY <1>1 DEF Holds, AtControl, InBody
<1> QED
  BY <1>1, <1>2 DEF HandOf, Holds

\* The frame in hand is done with.
LEMMA DoneKeeps ==
  ASSUME Aligned, TypeOK', Holds(rd), rd' = Idle,
         UNCHANGED <<sent, wire, clear, conn, subs, owed>>,
         NEW n \in 0 .. Len(sent), NEW d \in 0 .. Len(sent), ReadUpTo(n, d),
         Behind(n)'
  PROVE  Aligned'
<1> USE DEF Aligned
<1>1. UNCHANGED <<sent, wire, clear, conn, subs, owed>>
  OBVIOUS
<1>2. rd' \in Reads /\ ~Holds(rd') /\ HandOf(rd', wire', conn'.open, sent')
  BY IdleFacts
<1>3. TypeOK'
  OBVIOUS
<1>4. GoodWire(wire', conn'.open, sent') /\ OwedOK'
  BY <1>1 DEF OwedOK
<1>5. Ahead(n)'
  BY <1>1 DEF ReadUpTo, Ahead
<1>6. ReadUpTo(n, n)' /\ n \in 0 .. Len(sent')
  BY <1>1, <1>2, <1>5 DEF ReadUpTo
<1> QED
  BY <1>2, <1>3, <1>4, <1>6

LEMMA DeliverKeeps == ASSUME Aligned, TypeOK', Deliver PROVE Aligned'
<1> DEFINE i == rd.frame
           f == sent[rd.frame]
           x == [frame |-> i, bytes |-> rd.got,
                 head |-> IF f.kind = "HMSG" THEN HeaderSize(f) ELSE 0,
                 stray |-> misread # 0]
<1>0. InBody(rd)
  BY DEF Deliver, InBody
<1>21. rd.line = f
  BY <1>0, InHandFacts DEF BodyOK
<1>1. /\ rd.pc = "call" /\ rd' = Idle
      /\ UNCHANGED <<sent, wire, clear, conn, subs, pongs, owed>>
      /\ delivered' = IF subs[f.sid] = "live" THEN Append(delivered, x) ELSE delivered
  BY <1>21 DEF Deliver
<1>2. InBody(rd)
  BY <1>1 DEF InBody
<1>3. /\ i \in 1 .. Len(sent) /\ i \in 1 .. Frames /\ f \in Frame /\ Holds(rd) /\ Held(rd) = i
      /\ f.kind \in Message /\ Accepts(f) /\ Len(rd.got) = Len(f.body)
      /\ \A m \in 1 .. Len(rd.got) : rd.got[m] = Cells(f, i)[m + 1]
      /\ rd.got \in Seq(CellType) /\ Len(f.body) \in Nat
  <2>1. BodyOK(rd, f) /\ Len(rd.got) \in Nat
    BY <1>2, InHandFacts
  <2> QED
    BY <1>1, <1>2, <2>1, InHandFacts DEF BodyOK
<1>4. PICK n \in 0 .. Len(sent), d \in 0 .. Len(sent) : ReadUpTo(n, d)
  BY DEF Aligned
<1>5. i = n /\ n = d + 1 /\ d \in Nat /\ Behind(d)
  BY <1>3, <1>4, TypeFacts DEF ReadUpTo, Aligned
<1>6. x.head = f.head /\ x.head \in Nat
  BY <1>3, AcceptsFacts, FrameFacts DEF Message
<1>7. rd.got = SubSeq(Cells(f, i), 2, Len(f.body) + 1)
  <2> DEFINE c == Cells(f, i)
             L == Len(f.body)
             u == SubSeq(c, 2, L + 1)
  <2>1. c \in Seq(CellType) /\ Len(c) = L + 3 /\ L \in Nat
    BY <1>3, CellsFacts
  <2> HIDE DEF c
  <2>2. u \in Seq(CellType) /\ Len(u) = L /\ \A m \in 1 .. L : u[m] = c[m + 1]
    <3> HIDE DEF L
    <3>1. u \in Seq(CellType)
      BY <2>1
    <3>2. Len(u) = L
      BY <2>1
    <3>3. ASSUME NEW m \in 1 .. L PROVE u[m] = c[m + 1]
      <4>1. u[m] = c[2 + m - 1]
        BY <2>1
      <4>2. 2 + m - 1 = m + 1
        OBVIOUS
      <4> QED
        BY <4>1, <4>2
    <3> QED
      BY <3>1, <3>2, <3>3
  <2>3. \A m \in 1 .. L : rd.got[m] = c[m + 1]
    BY <1>3 DEF c
  <2>4. rd.got = u
    <3> HIDE DEF u, L
    <3> DEFINE t == rd.got
    <3>1. /\ t \in Seq(CellType) /\ Len(t) = L /\ u \in Seq(CellType) /\ Len(u) = L
          /\ \A m \in 1 .. L : t[m] = u[m]
      BY <1>3, <2>2, <2>3 DEF L
    <3> HIDE DEF t
    <3>2. t = u
      BY ONLY <3>1
    <3> QED
      BY <3>2 DEF t
  <2> QED
    BY <2>4 DEF c
<1>8. x \in Calls
  BY <1>3, <1>6 DEF Calls
<1>9. /\ x.frame = d + 1 /\ x.head = sent[d + 1].head
      /\ x.bytes = SubSeq(Cells(sent[d + 1], d + 1), 2, Len(sent[d + 1].body) + 1)
  BY <1>5, <1>6, <1>7
<1> DEFINE ds == Append(delivered, x)
<1> HIDE DEF x
<1>10. /\ delivered \in Seq(Calls)
       /\ DeliveredFrom(delivered, sent, d)
  BY <1>5, TypeFacts DEF Behind, Aligned
<1>11. /\ DeliveredFrom(ds, sent, d + 1)
       /\ ds \in Seq(Calls)
  <2>1. DeliveredFrom(ds, sent, d + 1)
    BY <1>5, <1>8, <1>9, <1>10, DeliveredNext
  <2>2. ds \in Seq(Calls)
    BY <1>8, <1>10
  <2> QED
    BY <2>1, <2>2
<1>12. /\ {delivered[k].frame : k \in 1 .. Len(delivered)} \subseteq {ds[k].frame : k \in 1 .. Len(ds)}
       /\ i \in {ds[k].frame : k \in 1 .. Len(ds)}
  <2>1. /\ Len(ds) = Len(delivered) + 1 /\ ds[Len(delivered) + 1] = x
        /\ Len(delivered) \in Nat /\ \A k \in 1 .. Len(delivered) : ds[k] = delivered[k]
    BY <1>10
  <2>2. x.frame = i
    BY DEF x
  <2> HIDE DEF ds
  <2>3. Len(delivered) + 1 \in 1 .. Len(ds) /\ 1 .. Len(delivered) \subseteq 1 .. Len(ds)
    BY <2>1
  <2>4. i \in {ds[k].frame : k \in 1 .. Len(ds)}
    BY <2>1, <2>2, <2>3
  <2>5. ASSUME NEW k \in 1 .. Len(delivered)
        PROVE  delivered[k].frame \in {ds[j].frame : j \in 1 .. Len(ds)}
    BY <2>1, <2>3
  <2> QED
    BY <2>4, <2>5
<1> HIDE DEF ds
<1>13. delivered' = IF subs[f.sid] = "live" THEN ds ELSE delivered
  BY <1>1 DEF ds
<1>14. DeliveredFrom(delivered', sent, d + 1)
  <2>1. DeliveredFrom(delivered, sent, d + 1)
    <3>1. d \in Int /\ d + 1 \in Int /\ d <= d + 1 /\ \A j \in 1 .. d : sent[j] = sent[j]
      BY <1>5
    <3> QED
      BY <1>10, <3>1, DeliveredGrows
  <2> QED
    BY <1>11, <1>13, <2>1
<1>15. Given \subseteq Given' /\ (subs[f.sid] = "live" => i \in Given')
  BY <1>12, <1>13 DEF Given
<1>16. i \in owed => subs[f.sid] = "live"
  BY <1>3 DEF Aligned, OwedOK
<1>17. sent[d + 1].kind # "PING" /\ sent[d + 1] = f /\ d + 1 = i
  BY <1>3, <1>5 DEF Message
<1>18. Behind(d + 1)'
  <2>1. TypeOK /\ d + 1 <= Len(sent) /\ sent' = sent /\ conn' = conn /\ owed' = owed
    BY <1>1, <1>3, <1>5 DEF Aligned
  <2>2. pongs' \in Nat /\ pongs' <= d + 1 /\ pongs' = pongs + 0
    BY <1>1, <1>5, TypeFacts DEF Behind, Aligned
  <2>3. pongs' = pongs + (IF sent[d + 1].kind = "PING" THEN 1 ELSE 0)
    BY <1>17, <2>2
  <2>4. d + 1 \in owed => d + 1 \in Given'
    BY <1>15, <1>16, <1>17
  <2> QED
    BY <1>5, <1>14, <1>15, <2>1, <2>2, <2>3, <2>4, BehindNext
<1>19. Behind(n)'
  <2>1. n = d + 1
    BY <1>5
  <2> QED
    BY <1>18, <2>1
<1> QED
  BY <1>1, <1>3, <1>4, <1>19, DoneKeeps

\* The line is not followed by a payload that is read, and ends the frame.
LEMMA IgnoredKeeps ==
  ASSUME Aligned, TypeOK', AtControl(rd), rd' = Idle,
         UNCHANGED <<sent, wire, clear, conn, subs, delivered, owed>>,
         NEW n, n = rd.got[1].of,
         pongs' = pongs + (IF sent[n].kind = "PING" THEN 1 ELSE 0),
         sent[n].kind \in Message => ~(subs[sent[n].sid] # "none" /\ Accepts(sent[n]))
  PROVE  Aligned'
<1>1. Holds(rd) /\ Held(rd) = n
  BY DEF Holds, Held, AtControl
<1>2. PICK m \in 0 .. Len(sent), d \in 0 .. Len(sent) : ReadUpTo(m, d)
  BY DEF Aligned
<1>3. n \in 1 .. Len(sent) /\ m = n /\ n = d + 1 /\ d \in Nat /\ Behind(d)
  BY <1>1, <1>2, TypeFacts DEF Aligned, HandOf, ReadUpTo
<1>4. sent[n] \in Frame /\ n \in 1 .. Frames
  BY <1>3, TypeFacts DEF Aligned
<1>5. ASSUME MaxArgs >= 5, n \in owed, sent[n].kind \in Message, ToDeliver(sent[n])
      PROVE  FALSE
  <2>1. subs[sent[n].sid] = "live"
    BY <1>5 DEF Aligned, OwedOK
  <2>2. Accepts(sent[n])
    BY <1>4, <1>5, WithinAccepted DEF ToDeliver
  <2> QED
    BY <1>5, <2>1, <2>2
<1>6. DeliveredFrom(delivered, sent, d + 1)
  <2>1. /\ delivered \in Seq(Calls)
        /\ DeliveredFrom(delivered, sent, d)
    BY <1>3, TypeFacts DEF Behind, Aligned
  <2>2. d \in Int /\ d + 1 \in Int /\ d <= d + 1 /\ \A j \in 1 .. d : sent[j] = sent[j]
    BY <1>3
  <2> QED
    BY <2>1, <2>2, DeliveredGrows
<1>7. pongs' \in Nat /\ pongs' <= d + 1
  <2>1. pongs \in Nat /\ pongs <= d
    BY <1>3, TypeFacts DEF Behind, Aligned
  <2> QED
    BY <1>3, <2>1
<1>8. Behind(d + 1)'
  <2>1. TypeOK /\ d + 1 <= Len(sent) /\ sent' = sent /\ conn' = conn /\ owed' = owed
    BY <1>3 DEF Aligned
  <2>2. Given \subseteq Given'
    BY DEF Given
  <2>3. delivered' = delivered
    OBVIOUS
  <2>4. pongs' = pongs + (IF sent[d + 1].kind = "PING" THEN 1 ELSE 0)
    BY <1>3
  <2> QED
    BY <1>3, <1>5, <1>6, <1>7, <2>1, <2>2, <2>3, <2>4, BehindNext
<1>9. Behind(m)'
  <2>1. m = d + 1
    BY <1>3
  <2> QED
    BY <1>8, <2>1
<1> QED
  BY <1>1, <1>2, <1>9, DoneKeeps

\* The payload is going to be read.
LEMMA AcceptedKeeps ==
  ASSUME Aligned, TypeOK', AtControl(rd),
         UNCHANGED <<sent, wire, clear, conn, subs, delivered, pongs, owed>>,
         NEW n, n = rd.got[1].of, sent[n].kind \in Message, Accepts(sent[n]),
         rd' = [pc |-> "payload", got |-> <<>>, frame |-> n, line |-> sent[n],
                need |-> ReadSize(sent[n])]
  PROVE  Aligned'
<1>1. Holds(rd) /\ Held(rd) = n /\ rd.pc = "parse"
  BY DEF Holds, Held, AtControl
<1>2. /\ n \in 1 .. Len(sent) /\ Position(rd, sent[n]) \in Nat
      /\ GoesOn(wire, conn.open, Cells(sent[n], n), 0, Position(rd, sent[n]))
  BY <1>1 DEF Aligned, HandOf
<1>3. sent[n] \in Frame /\ n \in 1 .. Frames
  BY <1>2, TypeFacts DEF Aligned
<1>4. ReadSize(sent[n]) = Len(sent[n].body) /\ Len(sent[n].body) \in Nat
  BY <1>3, AcceptsFacts, FrameFacts
<1>5. /\ rd' \in Reads /\ rd'.pc = "payload" /\ rd'.got = <<>> /\ rd'.frame = n
      /\ rd'.need = Len(sent[n].body) /\ Len(rd'.got) = 0 /\ rd'.line = sent[n]
  <2>1. <<>> \in Seq(CellType) /\ Len(<<>>) = 0 /\ n \in 0 .. Frames
    BY <1>3, InboundAssumption
  <2> QED
    BY <1>3, <1>4, <2>1 DEF Reads
<1>6. Holds(rd') /\ Held(rd') = n /\ InBody(rd')
  BY <1>5 DEF Holds, Held, InBody
<1>7. BodyOK(rd', sent[n])
  BY <1>4, <1>5 DEF BodyOK
<1>8. Position(rd', sent[n]) = 1 /\ Position(rd, sent[n]) = 1
  BY <1>1, <1>5 DEF Position
<1>9. HandOf(rd', wire', conn'.open, sent')
  <2>1. rd'.pc # "line" /\ sent' = sent /\ wire' = wire /\ conn' = conn
    BY <1>5
  <2> QED
    BY <1>2, <1>5, <1>6, <1>7, <1>8, <2>1 DEF HandOf
<1>10. conn' = conn /\ conn \in [open : BOOLEAN, connected : BOOLEAN, attached : BOOLEAN,
                                 transport : BOOLEAN, tls : BOOLEAN]
  BY TypeFacts DEF Aligned
<1> QED
  BY <1>1, <1>5, <1>6, <1>9, <1>10, StepKeeps

\* A line of a payload is taken for a control line.
Misreading == rd.pc = "parse" /\ IsControl /\ rd.got[1].kind = "text"

LEMMA ParseKeeps ==
  ASSUME Aligned, TypeOK', Parse, ~Misreading
  PROVE  Aligned'
<1> DEFINE n == rd.got[1].of
<1>1. rd.pc = "parse" /\ UNCHANGED <<sent, subs, delivered, owed>>
  BY DEF Parse
<1>2. IsControl <=> AtControl(rd)
  BY <1>1 DEF IsControl, AtControl, IsLine, Misreading
<1>8. IsControl => Said = {sent[n]}
  BY <1>2 DEF Said, AtControl, IsLine
<1>3. CASE ~IsControl /\ Ignored
  <2>1. rd' = Idle /\ UNCHANGED <<sent, wire, clear, conn, subs, delivered, pongs, owed>>
    BY <1>1, <1>3 DEF Ignored
  <2>2. ~Holds(rd)
    BY <1>1, <1>2, <1>3 DEF Holds, InBody
  <2>3. rd' \in Reads /\ ~Holds(rd') /\ HandOf(rd', wire', conn'.open, sent')
    BY <2>1, IdleFacts
  <2>4. conn' = conn /\ conn \in [open : BOOLEAN, connected : BOOLEAN, attached : BOOLEAN,
                                  transport : BOOLEAN, tls : BOOLEAN]
    BY <2>1, TypeFacts DEF Aligned
  <2> QED
    BY <2>1, <2>2, <2>3, <2>4, StepKeeps
<1>4. CASE IsControl /\ sent[n].kind \in Message /\ RecvMessage(sent[n])
  <2>1. sent[n].kind \in Message /\ sent[n].kind # "PING"
    BY <1>4 DEF Message
  <2>2. pongs' = pongs /\ UNCHANGED <<wire, clear, conn>>
    BY <1>4 DEF RecvMessage, Ignored
  <2>3. CASE subs[sent[n].sid] # "none" /\ Accepts(sent[n])
    <3>1. rd' = [pc |-> "payload", got |-> <<>>, frame |-> n, line |-> sent[n],
                 need |-> ReadSize(sent[n])]
      BY <1>4, <2>3 DEF RecvMessage
    <3> QED
      BY <1>1, <1>2, <1>4, <2>1, <2>2, <2>3, <3>1, AcceptedKeeps
  <2>4. CASE ~(subs[sent[n].sid] # "none" /\ Accepts(sent[n]))
    <3>1. rd' = Idle
      BY <1>4, <2>4 DEF RecvMessage, Ignored
    <3>2. pongs' = pongs + (IF sent[n].kind = "PING" THEN 1 ELSE 0)
      BY <2>1, <2>2, TypeFacts DEF Aligned
    <3> QED
      BY <1>1, <1>2, <1>4, <2>2, <2>4, <3>1, <3>2, IgnoredKeeps
  <2> QED
    BY <2>3, <2>4
<1>5. CASE IsControl /\ sent[n].kind = "PING" /\ RecvPing
  <2>1. sent[n].kind = "PING" /\ rd' = Idle /\ sent[n].kind \notin Message
    BY <1>5 DEF RecvPing, Message
  <2>2. CASE pongs' = pongs + 1 /\ UNCHANGED <<wire, clear, conn>>
    <3>1. pongs' = pongs + (IF sent[n].kind = "PING" THEN 1 ELSE 0)
      BY <2>1, <2>2
    <3> QED
      BY <1>1, <1>2, <1>5, <2>1, <2>2, <3>1, IgnoredKeeps
  <2>3. CASE Disconnect /\ UNCHANGED pongs
    BY <1>1, <2>1, <2>3, IdleFacts, DisconnectKeeps
  <2> QED
    BY <1>5, <2>2, <2>3 DEF RecvPing
<1>6. CASE IsControl /\ sent[n].kind = "-ERR" /\ RecvErr
  <2>1. rd' = Idle /\ Disconnect /\ pongs' = pongs
    BY <1>6 DEF RecvErr
  <2> QED
    BY <1>1, <2>1, IdleFacts, DisconnectKeeps
<1>7. CASE IsControl /\ sent[n].kind = "+OK" /\ Ignored
  <2>1. /\ sent[n].kind # "PING" /\ sent[n].kind \notin Message
        /\ rd' = Idle /\ UNCHANGED <<wire, clear, conn, pongs>>
    BY <1>7 DEF Ignored, Message
  <2>2. pongs' = pongs + (IF sent[n].kind = "PING" THEN 1 ELSE 0)
    BY <2>1, TypeFacts DEF Aligned
  <2> QED
    BY <1>1, <1>2, <1>7, <2>1, <2>2, IgnoredKeeps
<1> QED
  <2>1. \/ ~IsControl /\ Ignored
        \/ /\ IsControl
           /\ \E f \in Said :
                \/ f.kind \in Message /\ RecvMessage(f)
                \/ f.kind = "PING" /\ RecvPing
                \/ f.kind = "-ERR" /\ RecvErr
                \/ f.kind = "+OK" /\ Ignored
    BY DEF Parse
  <2>2. IsControl => \/ sent[n].kind \in Message /\ RecvMessage(sent[n])
                     \/ sent[n].kind = "PING" /\ RecvPing
                     \/ sent[n].kind = "-ERR" /\ RecvErr
                     \/ sent[n].kind = "+OK" /\ Ignored
    BY <1>3, <1>8, <2>1
  <2> QED
    BY <1>3, <1>4, <1>5, <1>6, <1>7, <2>1, <2>2

-----------------------------------------------------------------------------
(* Types, whatever has been taken for a control line                       *)

\* What recv() reads it has accepted.
LineOK ==
  InBody(rd) => rd.frame \in 1 .. Frames /\ rd.line.kind \in Message /\ Accepts(rd.line)

\* The cells of frames that have been sent; all that travels, and is in hand, are.
SentCell ==
  [kind : {"line", "chr", "nl", "text", "cr", "lf"}, of : 1 .. Len(sent)]

TypeInv == TypeOK /\ LineOK /\ wire \in Seq(SentCell) /\ rd.got \in Seq(SentCell)

LEMMA SeqOf ==
  ASSUME NEW A, NEW B, NEW s \in Seq(A), \A m \in 1 .. Len(s) : s[m] \in B
  PROVE  s \in Seq(B)
OBVIOUS

LEMMA SentCells2 == ASSUME TypeOK PROVE SentCell \subseteq CellType
<1>1. 1 .. Len(sent) \subseteq 1 .. Frames
  BY TypeFacts, InboundAssumption
<1> QED
  BY <1>1 DEF SentCell, CellType

Links == [open : BOOLEAN, connected : BOOLEAN, attached : BOOLEAN,
          transport : BOOLEAN, tls : BOOLEAN]

\* What the type invariant is made of, as the steps disturb it.
LEMMA TypeMade ==
  ASSUME TypeInv, wire' \in Seq(SentCell), clear' \in 0 .. Len(wire'), conn' \in Links,
         rd' \in Reads, rd'.got \in Seq(SentCell),
         InBody(rd') => /\ rd'.frame \in 1 .. Frames
                        /\ rd'.line.kind \in Message /\ Accepts(rd'.line),
         sent' = sent, subs' = subs, owed' = owed,
         delivered' \in Seq(Calls), pongs' \in Nat, misread' \in 0 .. Frames
  PROVE  TypeInv'
<1>1. SentCell' = SentCell
  BY DEF SentCell
<1>2. SentCell \subseteq CellType
  BY SentCells2 DEF TypeInv
<1>3. wire' \in Seq(CellType)
  BY <1>2
<1>4. TypeOK'
  BY <1>3 DEF TypeInv, TypeOK, Reads, Links, Calls
<1> QED
  BY <1>1, <1>4 DEF TypeInv, LineOK

\* What is left when cells are taken, and what has been taken.
LEMMA TakeTypes ==
  ASSUME TypeInv, NEW k \in Nat, TakeCells(k)
  PROVE  /\ wire' \in Seq(SentCell) /\ clear' \in 0 .. Len(wire')
         /\ SubSeq(wire, 1, k) \in Seq(SentCell)
<1>1. wire \in Seq(SentCell) /\ k <= Len(wire) /\ wire' = SubSeq(wire, k + 1, Len(wire))
  BY DEF TypeInv, TakeCells
<1>2. clear' \in 0 .. Len(wire')
  BY TakeFacts DEF TypeInv
<1>3. wire' \in Seq(SentCell)
  BY <1>1
<1>4. SubSeq(wire, 1, k) \in Seq(SentCell)
  BY <1>1
<1> QED
  BY <1>2, <1>3, <1>4

LEMMA HungTypes ==
  ASSUME TypeInv, Disconnect
  PROVE  wire' \in Seq(SentCell) /\ clear' \in 0 .. Len(wire') /\ conn' \in Links
<1>1. wire' = <<>> /\ clear' = 0 /\ conn' = Hung
  BY DEF Disconnect
<1>2. conn \in Links
  BY DEF TypeInv, TypeOK, Links
<1>3. Hung \in Links
  BY <1>2 DEF Hung, Links
<1>4. <<>> \in Seq(SentCell) /\ Len(<<>>) = 0
  OBVIOUS
<1>5. clear' \in 0 .. Len(wire')
  BY <1>1, <1>4
<1> QED
  BY <1>1, <1>3, <1>4, <1>5

\* Where neither the line nor its frame changes, nor whether it is read.
LEMMA SameLine ==
  ASSUME TypeInv, rd'.line = rd.line, rd'.frame = rd.frame, InBody(rd') => InBody(rd)
  PROVE  InBody(rd') => /\ rd'.frame \in 1 .. Frames
                        /\ rd'.line.kind \in Message /\ Accepts(rd'.line)
BY DEF TypeInv, LineOK

LEMMA EnvironmentTypes == ASSUME TypeInv, Environment PROVE TypeInv'
<1> USE DEF TypeInv
<1>0. /\ sent \in Seq(Frame) /\ wire \in Seq(SentCell) /\ rd.got \in Seq(SentCell)
      /\ Len(sent) \in Nat /\ Len(wire) \in Nat
      /\ clear \in 0 .. Len(wire) /\ conn \in Links
  BY TypeFacts DEF Links
<1>1. CASE ServerSends
  <2>1. PICK f \in Frame :
          /\ sent' = Append(sent, f)
          /\ wire' = wire \o Cells(f, Len(sent) + 1)
          /\ owed' = IF f.kind \in Message /\ subs[f.sid] # "live"
                       THEN owed ELSE owed \cup {Len(sent) + 1}
    BY <1>1 DEF ServerSends
  <2>2. /\ Len(sent) < Frames
        /\ UNCHANGED <<clear, conn, subs, rd, delivered, pongs, misread>>
    BY <1>1 DEF ServerSends
  <2>3. Len(sent) + 1 \in 1 .. Frames
    BY <1>0, <2>2, InboundAssumption
  <2> DEFINE c == Cells(f, Len(sent) + 1)
  <2> DEFINE S == SentCell'
  <2>10. S = [kind : {"line", "chr", "nl", "text", "cr", "lf"}, of : 1 .. Len(sent) + 1]
    <3>1. Len(sent') = Len(sent) + 1
      BY <1>0, <2>1
    <3> QED
      BY <3>1 DEF SentCell
  <2>11. SentCell \subseteq S
    <3>1. 1 .. Len(sent) \subseteq 1 .. Len(sent) + 1
      BY <1>0
    <3> QED
      BY <2>10, <3>1 DEF SentCell
  <2>12. c \in Seq(S)
    <3>1. /\ c \in Seq(CellType) /\ c[1] = Cell("line", Len(sent) + 1)
          /\ \A m \in 2 .. Len(c) : c[m].of = Len(sent) + 1
      BY <2>3, CellsFacts
    <3> HIDE DEF c
    <3>2. ASSUME NEW m \in 1 .. Len(c) PROVE c[m] \in S
      <4>1. c[m] \in CellType /\ c[m].of = Len(sent) + 1
        <5>1. m = 1 \/ m \in 2 .. Len(c)
          BY <3>1
        <5> QED
          BY <3>1, <5>1 DEF Cell
      <4>2. Len(sent) + 1 \in 1 .. Len(sent) + 1
        BY <1>0
      <4> QED
        BY <2>10, <4>1, <4>2 DEF CellType
    <3> HIDE DEF S
    <3> QED
      BY <3>1, <3>2, SeqOf
  <2>4. c \in Seq(S) /\ wire \in Seq(S) /\ wire' = wire \o c
    <3> HIDE DEF S
    <3>1. wire \in Seq(S)
      BY <1>0, <2>11
    <3> QED
      BY <2>1, <2>12, <3>1
  <2> HIDE DEF c, S
  <2>5. wire' \in Seq(S) /\ Len(wire') = Len(wire) + Len(c) /\ Len(c) \in Nat
    BY ONLY <2>4, ConcatFacts
  <2>13. rd'.got \in Seq(S)
    BY <1>0, <2>2, <2>11
  <2>6. clear' \in 0 .. Len(wire')
    BY <1>0, <2>2, <2>5
  <2>7. sent' \in Seq(Frame) /\ Len(sent') <= Frames
    BY <1>0, <2>1, <2>3
  <2>8. owed' \subseteq 1 .. Frames
    BY <2>1, <2>3 DEF TypeOK
  <2>9. LineOK'
    BY <2>2 DEF LineOK
  <2>14. wire' \in Seq(CellType)
    <3>1. 1 .. Len(sent) + 1 \subseteq 1 .. Frames
      <4>1. Len(sent) + 1 <= Frames /\ Frames \in Nat /\ Len(sent) \in Nat
        BY <1>0, <2>3, InboundAssumption
      <4> QED
        BY ONLY <4>1
    <3>2. S \subseteq CellType
      BY <2>10, <3>1 DEF CellType
    <3> QED
      BY <2>5, <3>2
  <2>15. TypeOK'
    BY <2>2, <2>6, <2>7, <2>8, <2>14 DEF TypeOK
  <2> QED
    BY <2>5, <2>9, <2>13, <2>15 DEF S
<1>2. CASE LinkBreaks
  <2>1. /\ conn' = [conn EXCEPT !.open = FALSE]
        /\ UNCHANGED <<sent, clear, subs, rd, delivered, pongs, misread>>
    BY <1>2 DEF LinkBreaks
  <2>2. PICK k \in clear .. Len(wire) :
          /\ wire' = SubSeq(wire, 1, k)
          /\ owed' = owed \ {wire[j].of : j \in k + 1 .. Len(wire)}
    BY <1>2 DEF LinkBreaks
  <2>3. k \in 0 .. Len(wire) /\ clear <= k
    BY <1>0, <2>2
  <2>4. wire' \in Seq(SentCell) /\ Len(wire') = k
    BY <1>0, <2>2, <2>3
  <2>5. clear' \in 0 .. Len(wire')
    BY <1>0, <2>1, <2>3, <2>4
  <2>6. conn' \in Links /\ owed' \subseteq owed
    BY <1>0, <2>1, <2>2 DEF Links
  <2>7. LineOK'
    BY <2>1 DEF LineOK
  <2>8. wire' \in Seq(CellType) /\ SentCell' = SentCell
    <3>1. SentCell \subseteq CellType /\ SentCell' = SentCell
      BY <2>1, SentCells2 DEF SentCell
    <3> QED
      BY <2>4, <3>1
  <2>9. TypeOK'
    BY <2>1, <2>5, <2>6, <2>8 DEF TypeOK, Links
  <2> QED
    BY <1>0, <2>1, <2>4, <2>7, <2>8, <2>9
<1>3. CASE Resubscribe
  <2>1. UNCHANGED <<sent, wire, clear, conn, rd, delivered, pongs, misread>>
    BY <1>3 DEF Resubscribe
  <2>2. PICK sid \in Sid, s \in {"none", "live", "marked"} :
          /\ subs' = [subs EXCEPT ![sid] = s]
          /\ owed' = {i \in owed : sent[i].kind \in Message => sent[i].sid # sid}
    BY <1>3 DEF Resubscribe
  <2>3. LineOK'
    BY <2>1 DEF LineOK
  <2>4. TypeOK' /\ SentCell' = SentCell
    BY <2>1, <2>2 DEF TypeOK, SentCell
  <2> QED
    BY <1>0, <2>1, <2>3, <2>4
<1>4. CASE OtherDisconnects
  <2>1. /\ wire' \in Seq(SentCell) /\ clear' \in 0 .. Len(wire') /\ conn' \in Links
        /\ UNCHANGED <<sent, subs, rd, delivered, pongs, owed, misread>>
    BY <1>4, HungTypes DEF OtherDisconnects
  <2>2. LineOK'
    BY <2>1 DEF LineOK
  <2>3. wire' \in Seq(CellType) /\ SentCell' = SentCell
    <3>1. SentCell \subseteq CellType /\ SentCell' = SentCell
      BY <2>1, SentCells2 DEF SentCell
    <3> QED
      BY <2>1, <3>1
  <2>4. TypeOK'
    BY <2>1, <2>3 DEF TypeOK, Links
  <2> QED
    BY <1>0, <2>1, <2>2, <2>3, <2>4
<1> QED
  BY <1>1, <1>2, <1>3, <1>4 DEF Environment

LEMMA ReadTypes ==
  ASSUME TypeInv, Poll \/ ProcessDrop \/ OwnReadLine \/ TcpReadLine \/ OwnReadBytes
                  \/ TcpReadBytes \/ OwnSkipBytes \/ TcpSkipBytes
  PROVE  TypeInv'
<1>0. /\ wire \in Seq(SentCell) /\ Len(wire) \in Nat /\ clear \in 0 .. Len(wire)
      /\ conn \in Links /\ rd \in Reads /\ rd.got \in Seq(SentCell) /\ rd.need \in Nat
      /\ delivered \in Seq(Calls) /\ pongs \in Nat /\ misread \in 0 .. Frames
  BY TypeFacts DEF TypeInv, TypeOK, Links, Reads, Calls
<1>01. /\ <<>> \in Seq(SentCell) /\ Seq(SentCell) \subseteq Seq(CellType)
       /\ SentCell \subseteq CellType
  BY SentCells2 DEF TypeInv
<1>1. CASE Poll
  <2>1. /\ rd' = [rd EXCEPT !.pc = "line", !.got = <<>>]
        /\ UNCHANGED <<sent, wire, clear, conn, subs, delivered, pongs, owed, misread>>
    BY <1>1 DEF Poll
  <2>2. rd' \in Reads /\ ~InBody(rd') /\ rd'.got \in Seq(SentCell)
    BY <1>0, <1>01, <2>1 DEF Reads, InBody
  <2> QED
    BY <1>0, <2>1, <2>2, TypeMade
<1>2. CASE ProcessDrop
  <2>1. /\ wire' \in Seq(SentCell) /\ clear' \in 0 .. Len(wire') /\ conn' \in Links
        /\ UNCHANGED <<sent, subs, rd, delivered, pongs, owed, misread>>
    BY <1>2, HungTypes DEF ProcessDrop
  <2> QED
    BY <1>0, <2>1, SameLine, TypeMade
<1>3. CASE LineCell /\ rd.pc = "line"
  <2> DEFINE c == Head(wire)
  <2>1. /\ wire' \in Seq(SentCell) /\ clear' \in 0 .. Len(wire')
        /\ UNCHANGED <<sent, conn, subs, delivered, pongs, owed, misread>>
    <3>1. TakeCells(1) /\ 1 \in Nat
      BY <1>3 DEF LineCell
    <3> QED
      BY <1>3, <3>1, TakeTypes DEF LineCell
  <2>2. c \in SentCell
    BY <1>0, <1>3 DEF LineCell
  <2> HIDE DEF c
  <2>3. Append(rd.got, c) \in Seq(SentCell) /\ Append(rd.got, c) \in Seq(CellType)
    BY <1>0, <1>01, <2>2
  <2>4. \/ rd' = rd \/ rd' = [rd EXCEPT !.pc = "parse"]
        \/ rd' = [rd EXCEPT !.pc = "parse", !.got = Append(@, c)]
        \/ rd' = [rd EXCEPT !.got = Append(@, c)]
    BY <1>3, <2>2 DEF LineCell, SentCell, c
  <2>5. rd' \in Reads /\ ~InBody(rd') /\ rd'.got \in Seq(SentCell)
    BY <1>0, <1>3, <2>3, <2>4 DEF Reads, InBody
  <2> QED
    BY <1>0, <2>1, <2>5, TypeMade
<1>4. CASE LineLost /\ rd.pc = "line"
  <2>1. /\ wire' \in Seq(SentCell) /\ clear' \in 0 .. Len(wire') /\ conn' \in Links
        /\ rd' = [rd EXCEPT !.pc = "parse", !.got = <<>>]
        /\ UNCHANGED <<sent, subs, delivered, pongs, owed, misread>>
    BY <1>4, HungTypes DEF LineLost
  <2>2. rd' \in Reads /\ ~InBody(rd') /\ rd'.got \in Seq(SentCell)
    BY <1>0, <1>01, <2>1 DEF Reads, InBody
  <2> QED
    BY <1>0, <2>1, <2>2, TypeMade
<1>5. CASE PayloadCells /\ rd.pc = "payload"
  <2> DEFINE k == IF rd.need < Len(wire) THEN rd.need ELSE Len(wire)
             t == SubSeq(wire, 1, k)
  <2>1. k \in Nat /\ k <= rd.need /\ k <= Len(wire)
    BY <1>0
  <2>2. /\ TakeCells(k) /\ rd' = [rd EXCEPT !.got = @ \o t, !.need = @ - k]
        /\ UNCHANGED <<sent, conn, subs, delivered, pongs, owed, misread>>
    BY <1>5 DEF PayloadCells
  <2> HIDE DEF k
  <2>6. wire' \in Seq(SentCell) /\ clear' \in 0 .. Len(wire') /\ t \in Seq(SentCell)
    BY <2>1, <2>2, TakeTypes
  <2> HIDE DEF t
  <2>4. /\ rd.got \o t \in Seq(SentCell) /\ rd.got \o t \in Seq(CellType)
        /\ rd.need - k \in Nat
    <3>1. rd.got \o t \in Seq(SentCell)
      <4> DEFINE g == rd.got
                 u == g \o t
      <4>1. g \in Seq(SentCell) /\ t \in Seq(SentCell) /\ u = g \o t
        BY <1>0, <2>6
      <4> HIDE DEF g, u
      <4>2. u \in Seq(SentCell)
        BY ONLY <4>1, ConcatFacts
      <4> QED
        BY <4>2 DEF g, u
    <3>2. rd.got \o t \in Seq(CellType)
      BY ONLY <1>01, <3>1
    <3>3. rd.need - k \in Nat
      BY <1>0, <2>1
    <3> QED
      BY <3>1, <3>2, <3>3
  <2>5. /\ rd' \in Reads /\ rd'.line = rd.line /\ rd'.frame = rd.frame /\ InBody(rd)
        /\ rd'.got \in Seq(SentCell)
    BY <1>0, <1>5, <2>2, <2>4 DEF Reads, InBody
  <2> QED
    BY <1>0, <2>2, <2>5, <2>6, SameLine, TypeMade
<1>6. CASE PayloadLost
  <2>1. /\ wire' \in Seq(SentCell) /\ clear' \in 0 .. Len(wire') /\ conn' \in Links /\ rd' = Idle
        /\ UNCHANGED <<sent, subs, delivered, pongs, owed, misread>>
    BY <1>6, HungTypes DEF PayloadLost
  <2>2. rd' \in Reads /\ ~InBody(rd') /\ rd'.got \in Seq(SentCell)
    BY <1>01, <2>1, IdleFacts DEF Idle, InBody
  <2> QED
    BY <1>0, <2>1, <2>2, TypeMade
<1>7. CASE PayloadRead /\ rd.pc = "payload"
  <2>1. /\ rd' = [rd EXCEPT !.pc = "skip", !.need = 2]
        /\ UNCHANGED <<sent, wire, clear, conn, subs, delivered, pongs, owed, misread>>
    BY <1>7 DEF PayloadRead
  <2>2. /\ rd' \in Reads /\ rd'.line = rd.line /\ rd'.frame = rd.frame /\ InBody(rd)
        /\ rd'.got \in Seq(SentCell)
    BY <1>0, <1>7, <2>1 DEF Reads, InBody
  <2> QED
    BY <1>0, <2>1, <2>2, SameLine, TypeMade
<1>8. CASE SkipCells /\ rd.pc = "skip"
  <2> DEFINE k == IF rd.need < Len(wire) THEN rd.need ELSE Len(wire)
  <2>1. k \in Nat /\ k <= rd.need /\ k <= Len(wire)
    BY <1>0
  <2>2. /\ TakeCells(k)
        /\ rd' = [rd EXCEPT !.pc = IF rd.need = k THEN "call" ELSE "skip", !.need = @ - k]
        /\ UNCHANGED <<sent, conn, subs, delivered, pongs, owed, misread>>
    BY <1>8 DEF SkipCells
  <2> HIDE DEF k
  <2>3. rd.need - k \in Nat
    BY <1>0, <2>1
  <2>4. /\ rd' \in Reads /\ rd'.line = rd.line /\ rd'.frame = rd.frame /\ InBody(rd)
        /\ rd'.got \in Seq(SentCell)
    BY <1>0, <1>8, <2>2, <2>3 DEF Reads, InBody
  <2>5. wire' \in Seq(SentCell) /\ clear' \in 0 .. Len(wire')
    BY <2>1, <2>2, TakeTypes
  <2> QED
    BY <1>0, <2>2, <2>4, <2>5, SameLine, TypeMade
<1>9. ASSUME SkipLost, rd.pc = "skip"
      PROVE  /\ rd' \in Reads /\ rd'.line = rd.line /\ rd'.frame = rd.frame /\ InBody(rd)
             /\ rd'.got \in Seq(SentCell)
  BY <1>0, <1>9 DEF SkipLost, Reads, InBody
<1>10. CASE /\ SkipLost /\ rd.pc = "skip"
            /\ Disconnect /\ UNCHANGED <<sent, subs, delivered, pongs, owed, misread>>
  <2>1. wire' \in Seq(SentCell) /\ clear' \in 0 .. Len(wire') /\ conn' \in Links
    BY <1>10, HungTypes
  <2> QED
    BY <1>0, <1>9, <1>10, <2>1, SameLine, TypeMade
<1>11. CASE /\ SkipLost /\ rd.pc = "skip"
            /\ conn' = [conn EXCEPT !.attached = FALSE]
            /\ UNCHANGED <<sent, wire, clear, subs, delivered, pongs, owed, misread>>
  <2>1. conn' \in Links
    BY <1>0, <1>11 DEF Links
  <2> QED
    BY <1>0, <1>9, <1>11, <2>1, SameLine, TypeMade
<1> QED
  BY <1>1, <1>2, <1>3, <1>4, <1>5, <1>6, <1>7, <1>8, <1>10, <1>11
  DEF OwnReadLine, TcpReadLine, OwnReadBytes, TcpReadBytes, OwnSkipBytes, TcpSkipBytes

LEMMA RecvTypes == ASSUME TypeInv, Parse \/ Deliver PROVE TypeInv'
<1>0. /\ wire \in Seq(SentCell) /\ clear \in 0 .. Len(wire) /\ conn \in Links
      /\ rd \in Reads /\ rd.got \in Seq(SentCell) /\ rd.got \in Seq(CellType)
      /\ rd.line \in Frame
      /\ delivered \in Seq(Calls) /\ pongs \in Nat /\ misread \in 0 .. Frames
      /\ \A i \in 1 .. Len(sent) : sent[i] \in Frame
  BY TypeFacts DEF TypeInv, TypeOK, Links, Reads, Calls
<1>01. <<>> \in Seq(SentCell)
  OBVIOUS
<1>1. CASE Parse
  <2>1. rd.pc = "parse" /\ UNCHANGED <<sent, subs, delivered, owed>>
    BY <1>1 DEF Parse
  <2>2. IsControl => rd.got[1].of \in 1 .. Frames /\ rd.got[1].of \in 1 .. Len(sent)
    <3>1. IsControl => rd.got[1] \in CellType /\ rd.got[1] \in SentCell
      BY <1>0 DEF IsControl
    <3> QED
      BY <3>1 DEF CellType, SentCell
  <2>3. misread' \in 0 .. Frames
    <3>1. 1 .. Frames \subseteq 0 .. Frames
      BY InboundAssumption
    <3> QED
      BY <1>0, <1>1, <2>2, <3>1 DEF Parse
  <2>4. ASSUME Ignored PROVE TypeInv'
    <3>1. rd' = Idle /\ rd' \in Reads /\ UNCHANGED <<wire, clear, conn, pongs>>
      BY <2>4, IdleFacts DEF Ignored
    <3>2. ~InBody(rd') /\ rd'.got \in Seq(SentCell)
      BY <1>01, <3>1 DEF Idle, InBody
    <3> QED
      BY <1>0, <2>1, <2>3, <3>1, <3>2, TypeMade
  <2>5. ASSUME NEW f \in Frame, f.kind \in Message, IsControl, RecvMessage(f) PROVE TypeInv'
    <3>1. CASE subs[f.sid] # "none" /\ Accepts(f)
      <4>1. /\ rd' = [pc |-> "payload", got |-> <<>>, frame |-> rd.got[1].of, line |-> f,
                      need |-> ReadSize(f)]
            /\ UNCHANGED <<wire, clear, conn, pongs>>
        BY <2>5, <3>1 DEF RecvMessage
      <4>2. ReadSize(f) \in Nat
        BY <2>5, <3>1, AcceptsFacts, FrameFacts
      <4>3. /\ rd' \in Reads /\ rd'.frame \in 1 .. Frames /\ rd'.line = f
            /\ rd'.got \in Seq(SentCell)
        <5>1. <<>> \in Seq(CellType) /\ 1 .. Frames \subseteq 0 .. Frames
          BY InboundAssumption
        <5> QED
          BY <1>01, <2>2, <2>5, <4>1, <4>2, <5>1 DEF Reads
      <4> QED
        BY <1>0, <2>1, <2>3, <2>5, <3>1, <4>1, <4>3, TypeMade
    <3>2. CASE ~(subs[f.sid] # "none" /\ Accepts(f))
      BY <2>4, <2>5, <3>2 DEF RecvMessage
    <3> QED
      BY <3>1, <3>2
  <2>6. ASSUME RecvPing \/ RecvErr PROVE TypeInv'
    <3>1. rd' = Idle /\ rd' \in Reads
      BY <2>6, IdleFacts DEF RecvPing, RecvErr
    <3>2. ~InBody(rd') /\ rd'.got \in Seq(SentCell)
      BY <1>01, <3>1 DEF Idle, InBody
    <3>3. wire' \in Seq(SentCell) /\ clear' \in 0 .. Len(wire') /\ conn' \in Links /\ pongs' \in Nat
      <4>1. CASE Disconnect /\ UNCHANGED pongs
        BY <1>0, <4>1, HungTypes
      <4>2. CASE pongs' = pongs + 1 /\ UNCHANGED <<wire, clear, conn>>
        BY <1>0, <4>2
      <4> QED
        BY <2>6, <4>1, <4>2 DEF RecvPing, RecvErr
    <3> QED
      BY <1>0, <2>1, <2>3, <3>1, <3>2, <3>3, TypeMade
  <2>7. IsControl => Said \subseteq Frame
    BY <1>0, <2>2, SpeltAssumption DEF Said
  <2> QED
    BY <1>1, <2>4, <2>5, <2>6, <2>7 DEF Parse
<1>2. CASE Deliver
  <2> DEFINE f == rd.line
             x == [frame |-> rd.frame, bytes |-> rd.got,
                   head |-> IF f.kind = "HMSG" THEN HeaderSize(f) ELSE 0,
                   stray |-> misread # 0]
  <2>1. /\ rd.pc = "call" /\ rd' = Idle /\ rd' \in Reads
        /\ delivered' = IF subs[f.sid] = "live" THEN Append(delivered, x) ELSE delivered
        /\ UNCHANGED <<sent, wire, clear, conn, subs, pongs, owed, misread>>
    BY <1>2, IdleFacts DEF Deliver
  <2>2. rd.frame \in 1 .. Frames /\ f.kind \in Message /\ Accepts(f)
    BY <2>1 DEF TypeInv, LineOK, InBody
  <2>3. f.kind = "HMSG" => HeaderSize(f) \in Nat
    BY <1>0, <2>2, AcceptsFacts, FrameFacts
  <2>4. x \in Calls
    BY <1>0, <2>2, <2>3 DEF Calls
  <2> HIDE DEF x
  <2>5. delivered' \in Seq(Calls)
    BY <1>0, <2>1, <2>4
  <2>6. ~InBody(rd') /\ rd'.got \in Seq(SentCell)
    BY <1>01, <2>1 DEF Idle, InBody
  <2> QED
    BY <1>0, <2>1, <2>5, <2>6, TypeMade
<1> QED
  BY <1>1, <1>2

-----------------------------------------------------------------------------
(* The payloads that are read as lines                                     *)

\* A cell of a message; and one of a message that need not be delivered.
FromMessage(c, s) == c.of \in 1 .. Len(s) /\ s[c.of].kind \in Message
Spare(i, s, o) == MaxArgs >= 5 => ~(i \in o /\ ToDeliver(s[i]))
Loose(c, s, o) == FromMessage(c, s) /\ Spare(c.of, s, o)

\* A cell that is no line belongs to a message, and follows a cell of it, not its
\* last one.
Runs(w, s) ==
  \A k \in 1 .. Len(w) :
    ~IsLine(w[k]) =>
      /\ FromMessage(w[k], s)
      /\ k > 1 => w[k - 1].of = w[k].of /\ w[k - 1].kind # "lf"

\* What is left of a payload on the wire, and of a line of it in hand.
Amid(w) == w # <<>> /\ ~IsLine(w[1])

LeftOnWire(w, r, s, o) ==
  Amid(w) =>
    /\ r.pc # "call"
    /\ AtControl(r) => w[1].of = Held(r)
    /\ ~Holds(r) => Spare(w[1].of, s, o)

LeftInHand(r, s, o) ==
  r.pc \in {"line", "parse"} /\ ~AtControl(r) =>
    \A k \in 1 .. Len(r.got) : Loose(r.got[k], s, o)

Stray(w, r, s, o) == Runs(w, s) /\ LeftOnWire(w, r, s, o) /\ LeftInHand(r, s, o)
StrayInv == Stray(wire, rd, sent, owed)

\* What has been sent stays sent, and is owed only if it has been.
SentStays ==
  /\ Len(sent') >= Len(sent)
  /\ \A i \in 1 .. Len(sent) : sent'[i] = sent[i] /\ (i \in owed' => i \in owed)

LEMMA SentStaysAlways == ASSUME TypeOK, [Next]_vars PROVE SentStays
<1>0. sent \in Seq(Frame) /\ Len(sent) \in Nat
  BY TypeFacts
<1>1. CASE ServerSends
  <2>1. PICK f \in Frame : sent' = Append(sent, f)
    BY <1>1 DEF ServerSends
  <2>2. owed' \subseteq owed \cup {Len(sent) + 1}
    BY <1>1 DEF ServerSends
  <2>3. Len(sent') = Len(sent) + 1 /\ \A i \in 1 .. Len(sent) : sent'[i] = sent[i]
    BY <1>0, <2>1
  <2>4. \A i \in 1 .. Len(sent) : i # Len(sent) + 1
    BY <1>0
  <2> QED
    BY <1>0, <2>2, <2>3, <2>4 DEF SentStays
<1>2. CASE sent' = sent /\ owed' \subseteq owed
  BY <1>0, <1>2 DEF SentStays
<1>3. CASE LinkBreaks \/ Resubscribe
  BY <1>2, <1>3 DEF LinkBreaks, Resubscribe
<1>4. CASE OtherDisconnects \/ Poll \/ ProcessDrop \/ Parse \/ Deliver
  BY <1>2, <1>4 DEF OtherDisconnects, Poll, ProcessDrop, Parse, Deliver
<1>5. CASE OwnReadLine \/ TcpReadLine
  BY <1>2, <1>5 DEF OwnReadLine, TcpReadLine, LineCell, LineLost
<1>6. CASE OwnReadBytes \/ TcpReadBytes
  BY <1>2, <1>6 DEF OwnReadBytes, TcpReadBytes, PayloadCells, PayloadLost, PayloadRead
<1>7. CASE OwnSkipBytes \/ TcpSkipBytes
  BY <1>2, <1>7 DEF OwnSkipBytes, TcpSkipBytes, SkipCells
<1>8. CASE UNCHANGED vars
  BY <1>2, <1>8 DEF vars
<1> QED
  BY <1>1, <1>3, <1>4, <1>5, <1>6, <1>7, <1>8 DEF Next, Environment, Reader

LEMMA FirstCell ==
  ASSUME NEW w \in Wires, NEW s, Runs(w, s), Amid(w)
  PROVE  FromMessage(w[1], s)
<1>1. 1 \in 1 .. Len(w)
  BY DEF Wires, Amid
<1> QED
  BY <1>1 DEF Runs, Amid

LEMMA LooseKept ==
  ASSUME TypeOK, SentStays, NEW c
  PROVE  /\ FromMessage(c, sent) => FromMessage(c, sent')
         /\ Loose(c, sent, owed) => Loose(c, sent', owed')
<1>1. Len(sent) \in Nat /\ Len(sent') >= Len(sent)
  BY TypeFacts DEF SentStays
<1>2. FromMessage(c, sent) => FromMessage(c, sent')
  <2>1. 1 .. Len(sent) \subseteq 1 .. Len(sent')
    BY <1>1
  <2> QED
    BY <2>1 DEF FromMessage, SentStays
<1> QED
  BY <1>2 DEF Loose, FromMessage, Spare, SentStays

\* What has been sent since and what is no longer owed makes no difference.
LEMMA StrayKept ==
  ASSUME TypeOK, SentStays, NEW w \in Wires, NEW r, Stray(w, r, sent, owed)
  PROVE  Stray(w, r, sent', owed')
<1>1. Runs(w, sent')
  BY LooseKept DEF Stray, Runs
<1>2. LeftOnWire(w, r, sent', owed')
  <2>1. ASSUME Amid(w) PROVE Spare(w[1].of, sent, owed) => Spare(w[1].of, sent', owed')
    <3>1. FromMessage(w[1], sent)
      BY <2>1, FirstCell DEF Stray
    <3> QED
      BY <3>1, LooseKept DEF Loose
  <2> QED
    BY <2>1 DEF Stray, LeftOnWire
<1>3. LeftInHand(r, sent', owed')
  BY LooseKept DEF Stray, LeftInHand
<1> QED
  BY <1>1, <1>2, <1>3 DEF Stray

LEMMA StrayCut ==
  ASSUME NEW v \in Wires, NEW w \in Wires, Cut(v, w), NEW r, NEW s, NEW o, Stray(w, r, s, o)
  PROVE  Stray(v, r, s, o)
<1>1. ASSUME NEW k \in 1 .. Len(v)
      PROVE  k \in 1 .. Len(w) /\ v[k] = w[k] /\ (k > 1 => v[k - 1] = w[k - 1])
  <2>1. Len(v) \in Nat /\ Len(w) \in Nat /\ Len(v) <= Len(w)
    BY DEF Cut, Wires
  <2>2. k \in 1 .. Len(w) /\ (k > 1 => k - 1 \in 1 .. Len(v))
    BY <2>1
  <2> QED
    BY <2>2 DEF Cut
<1>2. Runs(v, s)
  BY <1>1 DEF Stray, Runs
<1>3. Amid(v) => Amid(w) /\ v[1] = w[1]
  <2>1. v # <<>> => 1 \in 1 .. Len(v)
    BY DEF Wires
  <2>2. v # <<>> => 1 \in 1 .. Len(w) /\ v[1] = w[1]
    BY <1>1, <2>1
  <2> QED
    BY <2>2 DEF Amid
<1> QED
  BY <1>2, <1>3 DEF Stray, LeftOnWire

LEMMA RunsTaken ==
  ASSUME NEW v \in Wires, NEW w \in Wires, NEW n \in Nat, Taken(v, w, n), NEW s, Runs(w, s)
  PROVE  Runs(v, s)
<1>1. /\ Len(v) = Len(w) - n /\ Len(w) \in Nat /\ Len(v) \in Nat
      /\ \A m \in 1 .. Len(v) : v[m] = w[n + m]
  BY DEF Taken, Wires
<1>2. ASSUME NEW m \in 1 .. Len(v), ~IsLine(v[m])
      PROVE  /\ FromMessage(v[m], s)
             /\ m > 1 => v[m - 1].of = v[m].of /\ v[m - 1].kind # "lf"
  <2>1. n + m \in 1 .. Len(w) /\ v[m] = w[n + m]
    BY <1>1
  <2>2. m > 1 => m - 1 \in 1 .. Len(v) /\ n + (m - 1) = (n + m) - 1 /\ n + m > 1
    BY <1>1
  <2>3. m > 1 => v[m - 1] = w[(n + m) - 1]
    BY <1>1, <2>2
  <2> QED
    BY <1>2, <2>1, <2>2, <2>3 DEF Runs
<1> QED
  BY <1>2 DEF Runs

\* The reading task starts or ends a line, or goes on with the message in hand.
LEMMA StrayHand ==
  ASSUME NEW w, NEW r, NEW q, NEW s, NEW o, Stray(w, r, s, o),
         q.pc \in {"line", "parse"} => q.got = <<>>,
         q.pc = "call" => ~Amid(w),
         Holds(q) \/ ~Holds(r) \/ (Amid(w) => Spare(w[1].of, s, o))
  PROVE  Stray(w, q, s, o)
<1>1. ~AtControl(q)
  BY DEF AtControl
<1>2. LeftOnWire(w, q, s, o)
  BY <1>1 DEF Stray, LeftOnWire
<1>3. LeftInHand(q, s, o)
  BY DEF LeftInHand
<1> QED
  BY <1>2, <1>3 DEF Stray

LEMMA StrayHung ==
  ASSUME NEW q, NEW s, NEW o, q.pc \in {"line", "parse"} => q.got = <<>>
  PROVE  Stray(<<>>, q, s, o)
BY DEF Stray, Runs, LeftOnWire, LeftInHand, Amid

LEMMA StrayWire == ASSUME TypeOK PROVE wire \in Wires /\ <<>> \in Wires
BY TypeFacts DEF Wires

LEMMA StraySend == ASSUME TypeInv, StrayInv, SentStays, ServerSends PROVE StrayInv'
<1>1. PICK f \in Frame :
        sent' = Append(sent, f) /\ wire' = wire \o Cells(f, Len(sent) + 1)
  BY DEF ServerSends
<1>2. Len(sent) < Frames /\ rd' = rd
  BY DEF ServerSends
<1> DEFINE i == Len(sent) + 1
           c == Cells(f, i)
<1>3. /\ sent \in Seq(Frame) /\ Len(sent) \in Nat /\ wire \in Wires /\ Len(wire) \in Nat
      /\ TypeOK
  BY TypeFacts DEF TypeInv
<1>4. i \in 1 .. Frames
  BY <1>2, <1>3, InboundAssumption
<1>5. Len(sent') = i /\ sent'[i] = f /\ i \in 1 .. Len(sent')
  BY <1>1, <1>3
<1>6. /\ c \in Seq(CellType) /\ IsLine(c[1]) /\ c[1].of = i /\ Len(c) >= 1
      /\ \A m \in 2 .. Len(c) : c[m].of = i /\ f.kind \in Message /\ c[m - 1].kind # "lf"
  <2>1. /\ c \in Seq(CellType)
        /\ Len(c) = IF f.kind \in Message THEN Len(f.body) + 3 ELSE 1
        /\ c[1] = Cell("line", i)
        /\ \A m \in 2 .. Len(c) : c[m].of = i
        /\ f.kind \in Message =>
              /\ \A m \in 1 .. Len(f.body) : c[m + 1] = Cell(f.body[m], i)
              /\ c[Len(f.body) + 2] = Cell("cr", i)
    BY <1>4, CellsFacts
  <2>2. f.body \in Seq(Bytes) /\ Len(f.body) \in Nat
    BY FrameFacts
  <2> HIDE DEF c, i
  <2>3. ASSUME NEW m \in 2 .. Len(c) PROVE f.kind \in Message /\ c[m - 1].kind # "lf"
    <3>1. f.kind \in Message /\ Len(c) = Len(f.body) + 3
      BY <2>1, <2>3
    <3>2. CASE m - 1 = 1
      BY <2>1, <3>2 DEF Cell
    <3>3. CASE m - 1 \in 2 .. Len(f.body) + 1
      <4>1. m - 2 \in 1 .. Len(f.body) /\ (m - 2) + 1 = m - 1
        BY <2>2, <3>3
      <4>2. c[m - 1] = Cell(f.body[m - 2], i) /\ f.body[m - 2] \in Bytes
        BY <2>1, <2>2, <3>1, <4>1
      <4> QED
        BY <3>1, <4>2 DEF Cell, Bytes
    <3>4. CASE m - 1 = Len(f.body) + 2
      BY <2>1, <3>1, <3>4 DEF Cell
    <3> QED
      BY <2>2, <2>3, <3>1, <3>2, <3>3, <3>4
  <2>4. IsLine(c[1]) /\ c[1].of = i /\ Len(c) >= 1
    BY <2>1, <2>2 DEF IsLine, Cell
  <2> QED
    BY <2>1, <2>3, <2>4
<1>7. wire' = wire \o c /\ wire \in Seq(CellType)
  BY <1>1, <1>3 DEF Wires
<1> HIDE DEF c, i
<1>8. /\ Len(wire') = Len(wire) + Len(c) /\ Len(c) \in Nat
      /\ \A k \in 1 .. Len(wire) : wire'[k] = wire[k]
      /\ \A k \in 1 .. Len(c) : wire'[Len(wire) + k] = c[k]
  BY ONLY <1>6, <1>7, ConcatFacts
<1>9. Runs(wire', sent')
  <2>1. ASSUME NEW k \in 1 .. Len(wire'), ~IsLine(wire'[k])
        PROVE  /\ FromMessage(wire'[k], sent')
               /\ k > 1 => wire'[k - 1].of = wire'[k].of /\ wire'[k - 1].kind # "lf"
    <3>1. CASE k \in 1 .. Len(wire)
      <4>1. wire'[k] = wire[k] /\ (k > 1 => wire'[k - 1] = wire[k - 1])
        BY <1>3, <1>8, <3>1
      <4>2. /\ FromMessage(wire[k], sent)
            /\ k > 1 => wire[k - 1].of = wire[k].of /\ wire[k - 1].kind # "lf"
        BY <2>1, <3>1, <4>1 DEF StrayInv, Stray, Runs
      <4>3. FromMessage(wire[k], sent')
        BY <1>3, <4>2, LooseKept
      <4> QED
        BY <4>1, <4>2, <4>3
    <3>2. CASE k \notin 1 .. Len(wire)
      <4> DEFINE m == k - Len(wire)
      <4>1. m \in 1 .. Len(c) /\ Len(wire) + m = k
        BY <1>3, <1>8, <3>2
      <4>2. wire'[k] = c[m]
        BY <1>8, <4>1
      <4>3. m \in 2 .. Len(c)
        <5>1. m # 1
          BY <1>6, <2>1, <4>2
        <5>2. m \in 1 .. Len(c) => m = 1 \/ m \in 2 .. Len(c)
          BY <1>8
        <5> QED
          BY <4>1, <5>1, <5>2
      <4>4. m - 1 \in 1 .. Len(c) /\ Len(wire) + (m - 1) = k - 1
        BY <1>3, <1>8, <4>3
      <4>5. wire'[k - 1] = c[m - 1]
        BY <1>8, <4>4
      <4>6. c[m].of = i /\ f.kind \in Message /\ c[m - 1].kind # "lf"
        BY <1>6, <4>3
      <4>7. c[m - 1].of = i
        <5>1. m - 1 = 1 \/ m - 1 \in 2 .. Len(c)
          BY <1>8, <4>3
        <5> QED
          BY <1>6, <5>1
      <4> QED
        BY <1>5, <4>2, <4>5, <4>6, <4>7 DEF FromMessage
    <3> QED
      BY <3>1, <3>2
  <2> QED
    BY <2>1 DEF Runs
<1>10. Amid(wire') => Amid(wire) /\ wire'[1] = wire[1]
  <2>1. CASE wire = <<>>
    <3>1. Len(wire) = 0
      BY <2>1
    <3>2. 1 \in 1 .. Len(c) /\ Len(wire) + 1 = 1
      BY <1>6, <1>8, <3>1
    <3>3. wire'[1] = c[1]
      BY <1>8, <3>2
    <3> QED
      BY <1>6, <3>3 DEF Amid
  <2>2. CASE wire # <<>>
    <3>1. 1 \in 1 .. Len(wire)
      BY <1>3, <2>2 DEF Wires
    <3> QED
      BY <1>8, <2>2, <3>1 DEF Amid
  <2> QED
    BY <2>1, <2>2
<1>11. LeftOnWire(wire, rd, sent', owed') /\ LeftInHand(rd, sent', owed')
  BY <1>3, StrayKept DEF StrayInv, Stray
<1>12. LeftOnWire(wire', rd, sent', owed')
  BY <1>10, <1>11 DEF LeftOnWire
<1> QED
  BY <1>2, <1>9, <1>11, <1>12 DEF StrayInv, Stray

LEMMA StrayOthers ==
  ASSUME TypeInv, StrayInv, SentStays, Environment \/ ProcessDrop \/ UNCHANGED vars
  PROVE  StrayInv'
<1>0. TypeOK /\ wire \in Wires /\ Len(wire) \in Nat /\ <<>> \in Wires
  BY TypeFacts, StrayWire DEF TypeInv
<1>1. CASE ServerSends
  BY <1>1, StraySend
<1>2. ASSUME NEW v \in Wires, Cut(v, wire), wire' = v, rd' = rd PROVE StrayInv'
  <2>1. Stray(v, rd, sent, owed)
    BY <1>0, <1>2, StrayCut DEF StrayInv
  <2>2. Stray(v, rd, sent', owed')
    BY <1>0, <2>1, StrayKept
  <2> QED
    BY <1>2, <2>2 DEF StrayInv
<1>3. CASE LinkBreaks
  <2>1. PICK k \in clear .. Len(wire) : wire' = SubSeq(wire, 1, k)
    BY <1>3 DEF LinkBreaks
  <2>2. k \in 0 .. Len(wire)
    BY <1>0, <2>1, TypeFacts
  <2>3. wire' \in Wires /\ Cut(wire', wire)
    BY <1>0, <2>1, <2>2 DEF Wires, Cut
  <2>4. rd' = rd
    BY <1>3 DEF LinkBreaks
  <2> QED
    BY <1>2, <2>3, <2>4
<1>4. CASE OtherDisconnects \/ ProcessDrop
  <2>1. wire' = <<>> /\ rd' = rd
    BY <1>4 DEF OtherDisconnects, ProcessDrop, Disconnect
  <2>2. Cut(<<>>, wire)
    BY <1>0 DEF Cut
  <2> QED
    BY <1>0, <1>2, <2>1, <2>2
<1>5. CASE Resubscribe \/ UNCHANGED vars
  <2>1. wire' = wire /\ rd' = rd
    BY <1>5 DEF Resubscribe, vars
  <2>2. Cut(wire, wire)
    BY <1>0 DEF Cut
  <2> QED
    BY <1>0, <1>2, <2>1, <2>2
<1> QED
  BY <1>1, <1>3, <1>4, <1>5 DEF Environment

\* A line is started, read or given up.
LEMMA StrayLine ==
  ASSUME Aligned, TypeInv, StrayInv, Poll \/ OwnReadLine \/ TcpReadLine
  PROVE  StrayInv'
<1>0. TypeOK /\ wire \in Wires /\ Len(wire) \in Nat /\ rd \in Reads /\ rd.got \in Seq(CellType)
  BY TypeFacts, StrayWire DEF TypeInv, Reads
<1>1. sent' = sent /\ owed' = owed
  BY DEF Poll, OwnReadLine, TcpReadLine, LineCell, LineLost
<1>2. CASE Poll
  <2>1. rd.pc = "idle" /\ wire' = wire /\ rd' = [rd EXCEPT !.pc = "line", !.got = <<>>]
    BY <1>2 DEF Poll
  <2>2. rd'.pc = "line" /\ rd'.got = <<>>
    BY <1>0, <2>1 DEF Reads
  <2>3. ~Holds(rd)
    BY <2>1 DEF Holds, AtControl, InBody
  <2>4. Stray(wire, rd', sent, owed)
    BY <2>2, <2>3, StrayHand DEF StrayInv
  <2> QED
    BY <1>1, <2>1, <2>4 DEF StrayInv
<1>3. CASE LineLost
  <2>1. wire' = <<>> /\ rd' = [rd EXCEPT !.pc = "parse", !.got = <<>>]
    BY <1>3 DEF LineLost, Disconnect
  <2>2. rd'.got = <<>>
    BY <1>0, <2>1 DEF Reads
  <2>3. Stray(<<>>, rd', sent, owed)
    BY <2>2, StrayHung
  <2> QED
    BY <1>1, <2>1, <2>3 DEF StrayInv
<1>4. CASE LineCell /\ rd.pc = "line"
  <2> DEFINE c == wire[1]
  <2>1. wire # <<>> /\ TakeCells(1) /\ Head(wire) = c
    BY <1>0, <1>4 DEF LineCell, Wires
  <2>2. Taken(wire', wire, 1) /\ wire' \in Wires /\ 1 <= Len(wire)
    BY <1>0, <2>1, TakeFacts
  <2>3. 1 \in 1 .. Len(wire) /\ c \in CellType
    BY <1>0, <2>2 DEF Wires
  <2>4. Runs(wire', sent)
    BY <1>0, <2>2, RunsTaken DEF StrayInv, Stray
  <2>5. Amid(wire') => wire'[1].of = c.of
    <3>1. wire' # <<>> => Len(wire') >= 1
      BY <2>2 DEF Wires
    <3>2. wire' # <<>> => 2 \in 1 .. Len(wire) /\ wire'[1] = wire[2]
      <4>1. wire' # <<>> => 1 \in 1 .. Len(wire') /\ Len(wire) >= 2
        BY <1>0, <2>2, <3>1 DEF Taken
      <4> QED
        BY <1>0, <2>2, <4>1 DEF Taken
    <3>3. Amid(wire') => wire[2 - 1].of = wire[2].of
      BY <3>2 DEF StrayInv, Stray, Runs, Amid
    <3>4. wire[2 - 1] = c
      OBVIOUS
    <3> QED
      BY <3>2, <3>3, <3>4 DEF Amid
  <2>6. CASE IsLine(c)
    <3>1. rd' = [rd EXCEPT !.pc = "parse", !.got = Append(@, c)]
      BY <1>4, <2>1, <2>6 DEF LineCell, IsLine
    <3>2. rd'.pc = "parse" /\ rd'.got = Append(rd.got, c)
      BY <1>0, <3>1 DEF Reads
    <3>3. rd.got = <<>>
      BY <1>4, <2>1, <2>6 DEF Aligned, HandOf, LineSoFar
    <3>4. rd'.got = <<c>> /\ Len(<<c>>) = 1 /\ <<c>>[1] = c
      BY <3>2, <3>3
    <3>5. AtControl(rd') /\ Held(rd') = c.of
      BY <2>6, <3>2, <3>4 DEF AtControl, Held
    <3>6. LeftOnWire(wire', rd', sent, owed) /\ LeftInHand(rd', sent, owed)
      BY <2>5, <3>2, <3>5 DEF LeftOnWire, LeftInHand, Holds
    <3> QED
      BY <1>1, <2>4, <3>6 DEF StrayInv, Stray
  <2>7. CASE ~IsLine(c)
    <3>1. Amid(wire) /\ ~Holds(rd) /\ ~AtControl(rd)
      BY <1>4, <2>1, <2>7 DEF Amid, Holds, AtControl, InBody
    <3>2. Loose(c, sent, owed)
      BY <1>0, <3>1, FirstCell DEF StrayInv, Stray, LeftOnWire, Loose
    <3>3. \A k \in 1 .. Len(rd.got) : Loose(rd.got[k], sent, owed)
      BY <1>4, <3>1 DEF StrayInv, Stray, LeftInHand
    <3>4. c.kind \in {"chr", "nl", "text", "cr", "lf"}
      BY <2>3, <2>7 DEF CellType, IsLine
    <3>5. /\ c.kind = "cr" => rd' = rd
          /\ c.kind \in {"nl", "lf"} => rd' = [rd EXCEPT !.pc = "parse"]
          /\ c.kind = "text" => rd' = [rd EXCEPT !.pc = "parse", !.got = Append(@, c)]
          /\ c.kind = "chr" => rd' = [rd EXCEPT !.got = Append(@, c)]
      BY <1>4, <2>1 DEF LineCell
    <3>6. /\ rd'.pc \in {"line", "parse"}
          /\ rd'.got = rd.got \/ rd'.got = Append(rd.got, c)
      BY <1>0, <1>4, <3>4, <3>5 DEF Reads
    <3>7. \A k \in 1 .. Len(rd'.got) : Loose(rd'.got[k], sent, owed)
      <4>1. CASE rd'.got = rd.got
        BY <3>3, <4>1
      <4>2. CASE rd'.got = Append(rd.got, c)
        <5>1. \A k \in 1 .. Len(rd'.got) :
                (k \in 1 .. Len(rd.got) /\ rd'.got[k] = rd.got[k]) \/ rd'.got[k] = c
          BY <1>0, <2>3, <4>2
        <5> QED
          BY <3>2, <3>3, <5>1
      <4> QED
        BY <3>6, <4>1, <4>2
    <3>8. Amid(wire') => Spare(wire'[1].of, sent, owed)
      BY <2>5, <3>2 DEF Loose
    <3>9. ~AtControl(rd')
      <4>1. \A k \in 1 .. Len(rd.got) : rd.got[k].kind = "chr"
        BY <1>4 DEF Aligned, HandOf, LineSoFar
      <4>2. ASSUME Len(rd'.got) = 1, IsLine(rd'.got[1]) PROVE FALSE
        <5>1. CASE rd'.got = rd.got
          BY <4>1, <4>2, <5>1 DEF IsLine
        <5>2. CASE rd'.got = Append(rd.got, c)
          <6>1. \A k \in 1 .. Len(rd'.got) :
                  (k \in 1 .. Len(rd.got) /\ rd'.got[k] = rd.got[k]) \/ rd'.got[k] = c
            BY <1>0, <2>3, <5>2
          <6>2. 1 \in 1 .. Len(rd'.got)
            BY <4>2
          <6> QED
            BY <2>7, <4>1, <4>2, <6>1, <6>2 DEF IsLine
        <5> QED
          BY <3>6, <5>1, <5>2
      <4> QED
        BY <4>2 DEF AtControl
    <3>10. LeftOnWire(wire', rd', sent, owed) /\ LeftInHand(rd', sent, owed)
      BY <3>6, <3>7, <3>8, <3>9 DEF LeftOnWire, LeftInHand
    <3> QED
      BY <1>1, <2>4, <3>10 DEF StrayInv, Stray
  <2> QED
    BY <2>6, <2>7
<1> QED
  BY <1>2, <1>3, <1>4 DEF OwnReadLine, TcpReadLine

\* A payload, and what follows it, is read, or the connection is lost meanwhile.
LEMMA StrayBytes ==
  ASSUME Aligned, TypeInv, StrayInv,
         OwnReadBytes \/ TcpReadBytes \/ OwnSkipBytes \/ TcpSkipBytes
  PROVE  StrayInv'
<1>0. /\ TypeOK /\ wire \in Wires /\ Len(wire) \in Nat /\ rd \in Reads
      /\ rd.pc \in {"payload", "skip"} /\ rd.need \in Nat
  BY TypeFacts, StrayWire
  DEF TypeInv, Reads, OwnReadBytes, TcpReadBytes, OwnSkipBytes, TcpSkipBytes
<1>1. sent' = sent /\ owed' = owed
  BY DEF OwnReadBytes, TcpReadBytes, OwnSkipBytes, TcpSkipBytes, PayloadCells, PayloadLost,
         PayloadRead, SkipCells
<1>2. ASSUME NEW k \in Nat, TakeCells(k), rd'.pc \in {"payload", "skip", "call"},
             rd'.pc = "call" => ~Amid(wire')
      PROVE  StrayInv'
  <2>1. Taken(wire', wire, k) /\ wire' \in Wires
    BY <1>0, <1>2, TakeFacts
  <2>2. Runs(wire', sent)
    BY <1>0, <1>2, <2>1, RunsTaken DEF StrayInv, Stray
  <2>3. LeftOnWire(wire', rd', sent, owed) /\ LeftInHand(rd', sent, owed)
    BY <1>2 DEF LeftOnWire, LeftInHand, Holds, AtControl, InBody
  <2> QED
    BY <1>1, <2>2, <2>3 DEF StrayInv, Stray
<1>3. ASSUME wire' = <<>>, rd'.pc \notin {"line", "parse"} PROVE StrayInv'
  BY <1>1, <1>3, StrayHung DEF StrayInv
<1>4. CASE PayloadCells /\ rd.pc = "payload"
  <2> DEFINE k == IF rd.need < Len(wire) THEN rd.need ELSE Len(wire)
  <2>1. k \in Nat
    BY <1>0
  <2>2. TakeCells(k) /\ rd' = [rd EXCEPT !.got = @ \o SubSeq(wire, 1, k), !.need = @ - k]
    BY <1>4 DEF PayloadCells
  <2> HIDE DEF k
  <2>3. rd'.pc = "payload"
    BY <1>0, <1>4, <2>2 DEF Reads
  <2> QED
    BY <1>2, <2>1, <2>2, <2>3
<1>5. CASE PayloadLost
  BY <1>3, <1>5 DEF PayloadLost, Disconnect, Idle
<1>6. CASE PayloadRead
  <2>1. rd' = [rd EXCEPT !.pc = "skip", !.need = 2] /\ wire' = wire
    BY <1>6 DEF PayloadRead
  <2>2. rd'.pc = "skip"
    BY <1>0, <2>1 DEF Reads
  <2>3. Stray(wire, rd', sent, owed)
    BY <2>2, StrayHand DEF StrayInv, Holds, InBody
  <2> QED
    BY <1>1, <2>1, <2>3 DEF StrayInv
<1>7. CASE SkipCells /\ rd.pc = "skip"
  <2> DEFINE k == IF rd.need < Len(wire) THEN rd.need ELSE Len(wire)
             f == sent[rd.frame]
             p == Len(f.body) + 3 - rd.need
             cells == Cells(f, rd.frame)
  <2>1. k \in Nat /\ k <= Len(wire)
    BY <1>0
  <2>2. TakeCells(k) /\ rd' = [rd EXCEPT !.pc = IF rd.need = k THEN "call" ELSE "skip", !.need = @ - k]
    BY <1>7 DEF SkipCells
  <2>3. rd'.pc = IF rd.need = k THEN "call" ELSE "skip"
    BY <1>0, <2>2 DEF Reads
  <2>4. ASSUME rd.need = k PROVE ~Amid(wire')
    <3>0. InBody(rd)
      BY <1>7 DEF InBody
    <3>1. /\ rd.frame \in 1 .. Len(sent) /\ rd.frame \in 1 .. Frames /\ f \in Frame
          /\ Len(f.body) \in Nat /\ Holds(rd) /\ Held(rd) = rd.frame
          /\ f.kind \in Message /\ rd.need \in 1 .. 2
      BY <1>7, <3>0, InHandFacts DEF BodyOK
    <3>2. Position(rd, f) = p /\ GoesOn(wire, conn.open, cells, 0, Position(rd, f))
      BY <1>7, <3>1 DEF Position, Aligned, HandOf
    <3>3. /\ Len(cells) = Len(f.body) + 3
          /\ cells[Len(f.body) + 3] = Cell("lf", rd.frame)
      BY <3>1, CellsFacts
    <3> HIDE DEF k, cells, f
    <3>4. k \in 1 .. Len(wire) /\ k >= 1 /\ p + k = Len(f.body) + 3
      <4>1. p = Len(f.body) + 3 - rd.need
        OBVIOUS
      <4> HIDE DEF p
      <4>2. p + k = Len(f.body) + 3
        BY ONLY <2>4, <3>1, <4>1
      <4> QED
        BY <1>0, <2>1, <2>4, <3>1, <4>2
    <3>5. wire[k].kind = "lf"
      <4>1. wire[k] = cells[p + k]
        BY <3>2, <3>3, <3>4 DEF GoesOn
      <4> QED
        BY <3>3, <3>4, <4>1 DEF Cell
    <3>6. Taken(wire', wire, k) /\ wire' \in Wires
      BY <1>0, <2>1, <2>2, TakeFacts
    <3>7. wire' # <<>> => k + 1 \in 1 .. Len(wire) /\ wire'[1] = wire[k + 1]
      <4>1. wire' # <<>> => Len(wire') >= 1
        BY <3>6 DEF Wires
      <4>2. Len(wire') = Len(wire) - k
        BY <3>6 DEF Taken
      <4>3. wire' # <<>> => 1 \in 1 .. Len(wire') /\ k + 1 \in 1 .. Len(wire)
        BY <1>0, <2>1, <4>1, <4>2
      <4> QED
        BY <3>6, <4>3 DEF Taken
    <3>8. ASSUME wire' # <<>>, ~IsLine(wire[k + 1]) PROVE FALSE
      <4>1. k + 1 \in 1 .. Len(wire) /\ k + 1 > 1 /\ (k + 1) - 1 = k
        BY <2>1, <3>4, <3>7, <3>8
      <4>2. wire[(k + 1) - 1].kind # "lf"
        BY <3>8, <4>1 DEF StrayInv, Stray, Runs
      <4> QED
        BY <3>5, <4>1, <4>2
    <3> QED
      BY <3>7, <3>8 DEF Amid
  <2> HIDE DEF k
  <2> QED
    BY <1>2, <2>1, <2>2, <2>3, <2>4
<1>8. CASE SkipLost /\ (Disconnect \/ wire' = wire)
  <2>1. wire = <<>> /\ rd' = [rd EXCEPT !.pc = "call", !.need = 0]
    BY <1>8 DEF SkipLost, EndOfStream
  <2>2. rd'.pc = "call" /\ wire' = <<>>
    BY <1>0, <1>8, <2>1 DEF Reads, Disconnect
  <2> QED
    BY <1>3, <2>2
<1> QED
  BY <1>4, <1>5, <1>6, <1>7, <1>8
  DEF OwnReadBytes, TcpReadBytes, OwnSkipBytes, TcpSkipBytes

\* The line has been read, the message has been read.
LEMMA StrayRecv ==
  ASSUME Aligned, TypeInv, StrayInv, Parse \/ Deliver, ~Misreading
  PROVE  StrayInv'
<1> DEFINE n == rd.got[1].of
<1>0. TypeOK /\ wire \in Wires /\ sent' = sent /\ owed' = owed
  BY StrayWire DEF TypeInv, Parse, Deliver
<1>1. ASSUME rd' = Idle, wire' = wire, ~Holds(rd) \/ (Amid(wire) => Spare(wire[1].of, sent, owed))
      PROVE  StrayInv'
  <2>1. Stray(wire, rd', sent, owed)
    BY <1>1, StrayHand DEF StrayInv, Idle
  <2> QED
    BY <1>0, <1>1, <2>1 DEF StrayInv
<1>2. ASSUME rd' = Idle, Disconnect PROVE StrayInv'
  <2>1. Stray(<<>>, rd', sent, owed)
    BY <1>2, StrayHung DEF Idle
  <2> QED
    BY <1>0, <1>2, <2>1 DEF StrayInv, Disconnect
<1>3. CASE Deliver
  <2>1. rd.pc = "call" /\ rd' = Idle /\ wire' = wire
    BY <1>3 DEF Deliver
  <2>2. ~Amid(wire)
    BY <2>1 DEF StrayInv, Stray, LeftOnWire
  <2> QED
    BY <1>1, <2>1, <2>2
<1>4. CASE Parse /\ ~IsControl
  <2>1. rd' = Idle /\ wire' = wire /\ rd.pc = "parse"
    BY <1>4 DEF Parse, Ignored
  <2>2. ~Holds(rd)
    BY <1>4, <2>1 DEF Holds, AtControl, InBody, IsControl, IsLine
  <2> QED
    BY <1>1, <2>1, <2>2
<1>5. CASE Parse /\ IsControl
  <2> DEFINE f == sent[n]
  <2>1. AtControl(rd) /\ Said = {f} /\ Held(rd) = n
    BY <1>5 DEF Parse, AtControl, IsControl, IsLine, Misreading, Said, Held
  <2>2. \/ f.kind \in Message /\ RecvMessage(f)
        \/ f.kind = "PING" /\ RecvPing
        \/ f.kind = "-ERR" /\ RecvErr
        \/ f.kind = "+OK" /\ Ignored
    BY <1>5, <2>1 DEF Parse
  <2>3. Amid(wire) => wire[1].of = n /\ FromMessage(wire[1], sent)
    BY <1>0, <2>1, FirstCell DEF StrayInv, Stray, LeftOnWire
  <2>4. CASE f.kind \in Message /\ RecvMessage(f) /\ subs[f.sid] # "none" /\ Accepts(f)
    <3>1. rd'.pc = "payload" /\ wire' = wire
      BY <2>4 DEF RecvMessage
    <3>2. Stray(wire, rd', sent, owed)
      BY <3>1, StrayHand DEF StrayInv, Holds, InBody
    <3> QED
      BY <1>0, <3>1, <3>2 DEF StrayInv
  <2>5. CASE f.kind \in Message /\ RecvMessage(f) /\ ~(subs[f.sid] # "none" /\ Accepts(f))
    <3>1. rd' = Idle /\ wire' = wire
      BY <2>5 DEF RecvMessage, Ignored
    <3>2. n \in 1 .. Len(sent) /\ f \in Frame
      <4>1. n \in 1 .. Len(sent)
        BY <2>1 DEF Aligned, HandOf, Holds
      <4> QED
        BY <1>0, <4>1, TypeFacts
    <3>3. Spare(n, sent, owed)
      <4> SUFFICES ASSUME MaxArgs >= 5, n \in owed, ToDeliver(f) PROVE FALSE
        BY DEF Spare
      <4>1. subs[f.sid] = "live"
        BY <2>5 DEF Aligned, OwedOK
      <4>2. Accepts(f)
        BY <2>5, <3>2, WithinAccepted DEF ToDeliver
      <4> QED
        BY <2>5, <4>1, <4>2
    <3> QED
      BY <1>1, <2>3, <3>1, <3>3
  <2>6. CASE f.kind \in {"PING", "+OK"} /\ rd' = Idle /\ wire' = wire
    <3>1. ~Amid(wire)
      BY <2>3, <2>6 DEF FromMessage, Message
    <3> QED
      BY <1>1, <2>6, <3>1
  <2>7. CASE rd' = Idle /\ Disconnect
    BY <1>2, <2>7
  <2> QED
    BY <2>2, <2>4, <2>5, <2>6, <2>7 DEF RecvPing, RecvErr, Ignored
<1> QED
  BY <1>3, <1>4, <1>5

LEMMA StrayKeeps ==
  ASSUME Aligned, TypeInv, StrayInv, [Next]_vars, Parse => ~Misreading
  PROVE  StrayInv'
<1>1. SentStays
  BY SentStaysAlways DEF TypeInv
<1>2. CASE Environment \/ ProcessDrop \/ UNCHANGED vars
  BY <1>1, <1>2, StrayOthers
<1>3. CASE Poll \/ OwnReadLine \/ TcpReadLine
  BY <1>3, StrayLine
<1>4. CASE OwnReadBytes \/ TcpReadBytes \/ OwnSkipBytes \/ TcpSkipBytes
  BY <1>4, StrayBytes
<1>5. CASE Parse \/ Deliver
  <2>1. ~Misreading
    BY <1>5 DEF Deliver, Misreading
  <2> QED
    BY <1>5, <2>1, StrayRecv
<1> QED
  BY <1>2, <1>3, <1>4, <1>5 DEF Next, Reader

-----------------------------------------------------------------------------
(* Before recv() takes a line of a payload for a control line, and after   *)

Strayed ==
  /\ misread \in 1 .. Len(sent) /\ sent[misread].kind \in Message
  /\ Spare(misread, sent, owed)
  /\ DeliveredIntact
  /\ \A k \in 1 .. Len(delivered) :
       ~delivered[k].stray => delivered[k].frame \in 1 .. Len(sent)

InboundInv ==
  /\ TypeInv
  /\ misread = 0 => Aligned /\ StrayInv
  /\ misread # 0 => Strayed

LEMMA InitHolds == Init => InboundInv
<1> SUFFICES ASSUME Init PROVE InboundInv
  OBVIOUS
<1>1. /\ sent = <<>> /\ wire = <<>> /\ clear = 0 /\ rd = Idle
      /\ delivered = <<>> /\ pongs = 0 /\ owed = {} /\ misread = 0
      /\ conn \in [open : {TRUE}, connected : {TRUE}, attached : {TRUE},
                   transport : BOOLEAN, tls : BOOLEAN]
      /\ subs \in [Sid -> {"none", "live"}]
  BY DEF Init
<1>2. Frames \in Nat /\ 0 \in 0 .. Frames
  BY InboundAssumption
<1>3. rd \in Reads /\ rd.pc = "idle" /\ rd.got = <<>>
  BY <1>1, <1>2, NoLineFrame DEF Reads, Idle
<1>4. TypeOK
  <2>1. subs \in [Sid -> {"none", "live", "marked"}]
    BY <1>1
  <2>2. conn \in [open : BOOLEAN, connected : BOOLEAN, attached : BOOLEAN,
                  transport : BOOLEAN, tls : BOOLEAN]
    BY <1>1
  <2> QED
    BY <1>1, <1>2, <1>3, <2>1, <2>2 DEF TypeOK, Reads
<1>5. ~Holds(rd) /\ ~InBody(rd)
  BY <1>3 DEF Holds, AtControl, InBody
<1>6. GoodWire(wire, conn.open, sent)
  BY <1>1 DEF GoodWire
<1>7. HandOf(rd, wire, conn.open, sent)
  BY <1>3, <1>5 DEF HandOf, Holds
<1>8. OwedOK
  BY <1>1 DEF OwedOK
<1>9. Ahead(0)
  BY <1>1 DEF Ahead, LinesAbove
<1>10. Behind(0)
  <2>1. PingsUpTo(sent, 0) = {}
    BY DEF PingsUpTo
  <2>2. Cardinality(PingsUpTo(sent, 0)) = 0
    BY <2>1, FS_EmptySet
  <2>3. DeliveredFrom(delivered, sent, 0)
    BY <1>1 DEF DeliveredFrom
  <2> QED
    BY <1>1, <2>2, <2>3 DEF Behind
<1>11. ReadUpTo(0, 0) /\ 0 \in 0 .. Len(sent)
  BY <1>1, <1>5, <1>9, <1>10 DEF ReadUpTo
<1>12. Aligned
  BY <1>4, <1>6, <1>7, <1>8, <1>11 DEF Aligned
<1>13. TypeInv
  BY <1>1, <1>3, <1>4, <1>5 DEF TypeInv, LineOK
<1>14. StrayInv
  BY <1>1, <1>3, StrayHung DEF StrayInv
<1> QED
  BY <1>1, <1>12, <1>13, <1>14 DEF InboundInv

LEMMA TypesKept == ASSUME TypeInv, [Next]_vars PROVE TypeInv'
<1>1. CASE UNCHANGED vars
  <2>1. /\ conn \in Links /\ rd \in Reads /\ delivered \in Seq(Calls)
    BY DEF TypeInv, TypeOK, Links, Reads, Calls
  <2> QED
    BY <1>1, <2>1, TypeMade DEF vars, TypeInv, TypeOK, LineOK
<1> QED
  BY <1>1, EnvironmentTypes, ReadTypes, RecvTypes DEF Next, Reader

\* As long as no line of a payload is taken for a control line.
LEMMA AlignedKept ==
  ASSUME Aligned, TypeOK', [Next]_vars, Parse => ~Misreading
  PROVE  Aligned'
<1>1. CASE ServerSends
  BY <1>1, SendKeeps
<1>2. CASE LinkBreaks
  BY <1>2, BreakKeeps
<1>3. CASE Resubscribe
  BY <1>3, ResubscribeKeeps
<1>4. CASE OtherDisconnects
  BY <1>4, OtherDisconnectsKeeps DEF OtherDisconnects
<1>5. CASE Poll
  BY <1>5, PollKeeps
<1>6. CASE ProcessDrop
  BY <1>6, OtherDisconnectsKeeps DEF ProcessDrop
<1>7. CASE OwnReadLine \/ TcpReadLine
  BY <1>7, LineReadKeeps, OtherCellKeeps, LineLostKeeps DEF OwnReadLine, TcpReadLine
<1>8. CASE Parse
  BY <1>8, ParseKeeps
<1>9. CASE OwnReadBytes \/ TcpReadBytes
  BY <1>9, PayloadCellsKeeps, PayloadLostKeeps, PayloadReadKeeps DEF OwnReadBytes, TcpReadBytes
<1>10. CASE OwnSkipBytes \/ TcpSkipBytes
  BY <1>10, SkipKeeps
<1>11. CASE Deliver
  BY <1>11, DeliverKeeps
<1>12. CASE UNCHANGED vars
  <2>1. UNCHANGED <<sent, wire, clear, conn, subs, rd, delivered, pongs, owed>>
    BY <1>12 DEF vars
  <2>2. /\ conn \in [open : BOOLEAN, connected : BOOLEAN, attached : BOOLEAN,
                     transport : BOOLEAN, tls : BOOLEAN]
        /\ rd \in Reads /\ HandOf(rd, wire, conn.open, sent)
    BY TypeFacts DEF Aligned
  <2> QED
    BY <2>1, <2>2, StepKeeps
<1> QED
  BY <1>1, <1>2, <1>3, <1>4, <1>5, <1>6, <1>7, <1>8, <1>9, <1>10, <1>11, <1>12
  DEF Next, Environment, Reader

\* Which frame it was does not change, and it was one only if a line was misread.
LEMMA MisreadStays ==
  ASSUME [Next]_vars, misread # 0 \/ ~(Parse /\ Misreading)
  PROVE  misread' = misread
<1>1. CASE Parse
  BY <1>1 DEF Parse, Misreading
<1>2. CASE Environment \/ Poll \/ ProcessDrop \/ Deliver \/ UNCHANGED vars
  BY <1>2 DEF Environment, ServerSends, LinkBreaks, Resubscribe, OtherDisconnects, Poll,
              ProcessDrop, Deliver, vars
<1>3. CASE OwnReadLine \/ TcpReadLine
  BY <1>3 DEF OwnReadLine, TcpReadLine, LineCell, LineLost
<1>4. CASE OwnReadBytes \/ TcpReadBytes
  BY <1>4 DEF OwnReadBytes, TcpReadBytes, PayloadCells, PayloadLost, PayloadRead
<1>5. CASE OwnSkipBytes \/ TcpSkipBytes
  BY <1>5 DEF OwnSkipBytes, TcpSkipBytes, SkipCells
<1> QED
  BY <1>1, <1>2, <1>3, <1>4, <1>5 DEF Next, Reader

LEMMA AlignedIntact ==
  ASSUME Aligned
  PROVE  /\ DeliveredIntact
         /\ \A k \in 1 .. Len(delivered) : delivered[k].frame \in 1 .. Len(sent)
<1>1. PICK n \in 0 .. Len(sent), d \in 0 .. Len(sent) : ReadUpTo(n, d)
  BY DEF Aligned
<1>2. DeliveredFrom(delivered, sent, d)
  BY <1>1 DEF ReadUpTo, Behind
<1>3. 1 .. d \subseteq 1 .. Len(sent)
  BY TypeFacts DEF Aligned
<1> QED
  BY <1>2, <1>3 DEF DeliveredIntact, DeliveredFrom

\* The step that takes a line of a payload for a control line.
LEMMA Misreads ==
  ASSUME Aligned, TypeInv, StrayInv, misread = 0, Parse, Misreading
  PROVE  Strayed' /\ misread' # 0
<1> DEFINE n == rd.got[1].of
<1>1. UNCHANGED <<sent, delivered, owed>> /\ misread' = n
  BY DEF Parse, Misreading
<1>2. ~AtControl(rd) /\ 1 \in 1 .. Len(rd.got)
  BY DEF AtControl, IsLine, Misreading, IsControl
<1>3. Loose(rd.got[1], sent, owed)
  BY <1>2 DEF StrayInv, Stray, LeftInHand, Misreading
<1>4. n \in 1 .. Len(sent) /\ sent[n].kind \in Message /\ Spare(n, sent, owed)
  BY <1>3 DEF Loose, FromMessage
<1>5. /\ DeliveredIntact'
      /\ \A k \in 1 .. Len(delivered') : delivered'[k].frame \in 1 .. Len(sent')
  BY <1>1, AlignedIntact DEF DeliveredIntact
<1> QED
  BY <1>1, <1>4, <1>5 DEF Strayed

\* From then on what is delivered is marked.
LEMMA StrayedKept ==
  ASSUME TypeInv, misread # 0, Strayed, [Next]_vars
  PROVE  Strayed' /\ misread' # 0
<1>1. misread' = misread
  BY MisreadStays
<1>2. SentStays /\ TypeOK
  BY SentStaysAlways DEF TypeInv
<1>3. /\ misread \in 1 .. Len(sent') /\ sent'[misread].kind \in Message
      /\ Spare(misread, sent', owed')
  BY <1>2, LooseKept DEF Strayed, SentStays, Spare, FromMessage
<1>4. /\ Len(delivered) \in Nat /\ Len(delivered') \in Nat /\ Len(delivered') >= Len(delivered)
      /\ \A k \in 1 .. Len(delivered) : delivered'[k] = delivered[k]
      /\ \A k \in 1 .. Len(delivered') : k \in 1 .. Len(delivered) \/ delivered'[k].stray
  <2>1. delivered \in Seq(Calls)
    BY <1>2, TypeFacts
  <2>2. CASE delivered' = delivered
    BY <2>1, <2>2
  <2>3. CASE Deliver
    <3>1. CASE delivered' # delivered
      <4> DEFINE x == [frame |-> rd.frame, bytes |-> rd.got,
                       head |-> IF rd.line.kind = "HMSG" THEN HeaderSize(rd.line) ELSE 0,
                       stray |-> misread # 0]
      <4>1. delivered' = Append(delivered, x) /\ x.stray
        BY <2>3, <3>1 DEF Deliver
      <4> HIDE DEF x
      <4> QED
        BY <2>1, <4>1
    <3> QED
      BY <2>2, <3>1
  <2>4. CASE Environment \/ Poll \/ ProcessDrop \/ Parse \/ UNCHANGED vars
    <3>1. delivered' = delivered
      BY <2>4 DEF Environment, ServerSends, LinkBreaks, Resubscribe, OtherDisconnects, Poll,
                  ProcessDrop, Parse, vars
    <3> QED
      BY <2>2, <3>1
  <2>5. CASE \/ OwnReadLine \/ TcpReadLine \/ OwnReadBytes \/ TcpReadBytes
             \/ OwnSkipBytes \/ TcpSkipBytes
    <3>1. delivered' = delivered
      BY <2>5 DEF OwnReadLine, TcpReadLine, LineCell, LineLost, OwnReadBytes, TcpReadBytes,
                  PayloadCells, PayloadLost, PayloadRead, OwnSkipBytes, TcpSkipBytes, SkipCells
    <3> QED
      BY <2>2, <3>1
  <2> QED
    BY <2>3, <2>4, <2>5 DEF Next, Reader
<1>5. \A k \in 1 .. Len(delivered) :
        ~delivered[k].stray =>
          /\ delivered[k].frame \in 1 .. Len(sent')
          /\ sent'[delivered[k].frame] = sent[delivered[k].frame]
  <2>1. 1 .. Len(sent) \subseteq 1 .. Len(sent')
    BY <1>2, TypeFacts DEF SentStays
  <2> QED
    BY <1>2, <2>1 DEF Strayed, SentStays
<1>6. DeliveredIntact'
  <2>1. ASSUME NEW k \in 1 .. Len(delivered'), ~delivered'[k].stray
        PROVE  LET d == delivered'[k]
                   f == sent'[d.frame] IN
                 d.bytes = SubSeq(Cells(f, d.frame), 2, Len(f.body) + 1) /\ d.head = f.head
    <3>1. k \in 1 .. Len(delivered) /\ delivered'[k] = delivered[k]
      BY <1>4, <2>1
    <3>2. sent'[delivered[k].frame] = sent[delivered[k].frame]
      BY <1>5, <2>1, <3>1
    <3>3. LET d == delivered[k]
              f == sent[d.frame] IN
            d.bytes = SubSeq(Cells(f, d.frame), 2, Len(f.body) + 1) /\ d.head = f.head
      BY <2>1, <3>1 DEF Strayed, DeliveredIntact
    <3> QED
      BY <3>1, <3>2, <3>3
  <2>2. ASSUME NEW k \in 1 .. Len(delivered') - 1, ~delivered'[k + 1].stray
        PROVE  delivered'[k].frame < delivered'[k + 1].frame
    <3>1. k + 1 \in 1 .. Len(delivered')
      BY <1>4
    <3>2. k + 1 \in 1 .. Len(delivered)
      BY <1>4, <2>2, <3>1
    <3>3. k \in 1 .. Len(delivered) /\ k \in 1 .. Len(delivered) - 1
      BY <1>4, <3>2
    <3>4. delivered'[k] = delivered[k] /\ delivered'[k + 1] = delivered[k + 1]
      BY <1>4, <3>2, <3>3
    <3> QED
      BY <2>2, <3>3, <3>4 DEF Strayed, DeliveredIntact
  <2> QED
    BY <2>1, <2>2 DEF DeliveredIntact
<1>7. \A k \in 1 .. Len(delivered') :
        ~delivered'[k].stray => delivered'[k].frame \in 1 .. Len(sent')
  BY <1>4, <1>5
<1> QED
  BY <1>1, <1>3, <1>6, <1>7 DEF Strayed

LEMMA NextKeeps == InboundInv /\ [Next]_vars => InboundInv'
<1> SUFFICES ASSUME InboundInv, [Next]_vars PROVE InboundInv'
  OBVIOUS
<1>1. TypeInv /\ TypeInv' /\ TypeOK'
  BY TypesKept DEF InboundInv, TypeInv
<1>2. CASE misread # 0
  BY <1>1, <1>2, StrayedKept DEF InboundInv
<1>3. CASE misread = 0 /\ Parse /\ Misreading
  BY <1>1, <1>3, Misreads DEF InboundInv
<1>4. CASE misread = 0 /\ ~(Parse /\ Misreading)
  <2>1. misread' = 0 /\ Aligned /\ StrayInv
    BY <1>4, MisreadStays DEF InboundInv
  <2>2. Aligned' /\ StrayInv'
    BY <1>1, <1>4, <2>1, AlignedKept, StrayKeeps
  <2> QED
    BY <1>1, <2>1, <2>2 DEF InboundInv
<1> QED
  BY <1>2, <1>3, <1>4

-----------------------------------------------------------------------------
(* The theorems                                                            *)

\* The inductive invariant holds at every step of every run.
THEOREM ReadingAlways == Spec => []InboundInv
<1>1. Init => InboundInv
  BY InitHolds
<1>2. InboundInv /\ [Next]_vars => InboundInv'
  BY NextKeeps
<1> QED
  BY <1>1, <1>2, PTL DEF Spec

\* The variables of the reading side keep their types, whatever has been taken for a
\* control line: no count of a payload goes negative, and what recv() reads, waits
\* for and gives to a callback belongs to frames that have been sent.
THEOREM TypeCorrect == Spec => []TypeOK
<1>1. InboundInv => TypeOK
  BY DEF InboundInv, TypeInv
<1> QED
  BY <1>1, ReadingAlways, PTL

\* Until recv() takes a line of a payload for a control line it gives a callback the
\* payload of its message whole, with nothing of another frame in it, and gives
\* messages in the order in which they were sent.
THEOREM IntactAlways == Spec => []DeliveredIntact
<1>1. InboundInv => DeliveredIntact
  BY AlignedIntact DEF InboundInv, Strayed
<1> QED
  BY <1>1, ReadingAlways, PTL

\* While the connection lasts and no line of an ignored payload reads like a control
\* line, recv() loses no message and no PING, whatever it has ignored before; and the
\* only payloads it ever takes lines of are those of messages it was free to ignore.
\* The room for words in argv is five at least: a MSG with a reply has as many.
THEOREM NothingElseLostAlways == MaxArgs >= 5 /\ Spec => []NothingElseLost
<1>1. ASSUME MaxArgs >= 5, Aligned, conn.connected, rd.pc = "idle",
             NEW i \in Consumed, Due(i)
      PROVE  Answered(i)
  <2>0. i \in owed /\ WithinLimits(sent[i]) /\ ~(sent[i].kind = "HMSG" /\ sent[i].reply)
    BY <1>1 DEF Due
  <2>1. PICK n \in 0 .. Len(sent), d \in 0 .. Len(sent) : ReadUpTo(n, d)
    BY <1>1 DEF Aligned
  <2>2. d = n /\ Ahead(n) /\ Behind(n)
    BY <1>1, <2>1 DEF ReadUpTo, Holds, AtControl, InBody
  <2>3. i \in owed /\ i \in 1 .. Len(sent) /\ \A k \in 1 .. Len(wire) : wire[k].of > i
    BY <1>1, <2>0 DEF Consumed
  <2>4. i <= n
    <3>1. i > n => HasLine(wire, i)
      BY <1>1, <2>2, <2>3 DEF Ahead
    <3>2. ~HasLine(wire, i)
      BY <2>3 DEF HasLine
    <3> QED
      BY <2>1, <2>3, <3>1, <3>2
  <2>5. CASE sent[i].kind \in Message
    BY <1>1, <2>0, <2>2, <2>3, <2>4, <2>5 DEF Behind, ToDeliver, Answered
  <2>6. CASE sent[i].kind \notin Message
    <3> DEFINE P == {j \in 1 .. i : sent[j].kind = "PING"}
    <3>1. P \subseteq PingsUpTo(sent, n)
      BY <2>3, <2>4 DEF PingsUpTo
    <3>2. IsFiniteSet(PingsUpTo(sent, n)) /\ Cardinality(PingsUpTo(sent, n)) \in Nat
      <4>1. n \in Nat /\ sent \in Seq(Frame)
        BY <1>1, TypeFacts DEF Aligned
      <4> QED
        BY <4>1, PingsFacts
    <3>3. Cardinality(P) <= Cardinality(PingsUpTo(sent, n)) /\ Cardinality(P) \in Nat
      BY <3>1, <3>2, FS_Subset, FS_CardinalityType
    <3>4. pongs >= Cardinality(PingsUpTo(sent, n)) /\ pongs \in Nat
      BY <1>1, <2>2, TypeFacts DEF Behind, Aligned
    <3> HIDE DEF P
    <3>5. pongs >= Cardinality(P)
      BY <3>2, <3>3, <3>4
    <3> QED
      BY <2>6, <3>5 DEF Answered, P
  <2> QED
    BY <2>5, <2>6
<1>2. ASSUME MaxArgs >= 5, Strayed PROVE sent[misread].kind \in Message /\ ~Due(misread)
  BY <1>2 DEF Strayed, Spare, ToDeliver, Due
<1>3. ASSUME MaxArgs >= 5 PROVE InboundInv => NothingElseLost
  BY <1>1, <1>2, <1>3 DEF NothingElseLost, InboundInv
<1>4. CASE MaxArgs >= 5
  <2>1. InboundInv => NothingElseLost
    BY <1>3, <1>4
  <2> QED
    BY <2>1, ReadingAlways, PTL
<1> QED
  BY <1>4

=============================================================================
