------------------------------ MODULE Inbound -------------------------------
(***************************************************************************)
(* How class NATS reads what the server sends: recv() with the functions   *)
(* it reads lines and payloads with, over the client's own socket or over  *)
(* a TcpTransport, each in plain or under TLS.                             *)
(*                                                                         *)
(* One connection, one task that calls process(); other tasks subscribe,   *)
(* unsubscribe and disconnect between the steps.  What travels are cells:  *)
(* a control line with its CR LF is one cell, a character, a line feed     *)
(* inside a payload, CR and LF after the payload are one each, and so is a *)
(* line of a payload that spells a control line; a cell names the frame it *)
(* belongs to.                                                             *)
(***************************************************************************)
EXTENDS Integers, Sequences, FiniteSets

CONSTANTS
  Sid,             \* the slots of the subscription table
  Body,            \* bound: payloads, headers included, as sequences of "chr", "nl" and
                   \* "text", a line of it that reads like one of the server's
  Spelt,           \* bound: what such a line can say, as the frame it would announce
  Heads,           \* bound: sizes of headers
  Frames,          \* bound: how many frames the server sends
  MaxArgs,         \* NATS_MAX_ARGV
  MaxLine,         \* NATS_MAX_LINE_SIZE
  MaxPayload,      \* NATS_MAX_PAYLOAD_SIZE
  MaxHeader        \* NATS_MAX_HEADER_LEN

ASSUME InboundAssumption ==
  /\ Sid \subseteq Nat /\ Heads \subseteq Nat
  /\ Body \subseteq Seq({"chr", "nl", "text"})
  /\ {Frames, MaxArgs, MaxLine, MaxPayload, MaxHeader} \subseteq Nat

VARIABLES
  sent,            \* the frames the server has sent
  wire,            \* the cells that have been sent and not been read
  clear,           \* under TLS: how many of them have been decrypted already
  conn,            \* the link, and what the client takes it for
  subs,            \* the slots: no subscription, one, or one marked for deletion
  rd,              \* the task in recv()
  delivered,       \* what callbacks have been given, in order
  pongs,           \* how many PONGs have been sent
  owed,            \* the frames whose subscription has been there since
  misread          \* the first whose payload was taken for a control line, or 0

vars == <<sent, wire, clear, conn, subs, rd, delivered, pongs, owed, misread>>

-----------------------------------------------------------------------------
(* the protocol                                                            *)

Message == {"MSG", "HMSG"}
Control == {"PING", "+OK", "-ERR"}

Frame ==
  [kind : Control, sid : {0}, reply : {FALSE}, head : {0}, body : {<<>>}]
  \cup [kind : {"MSG"}, sid : Sid, reply : BOOLEAN, head : {0}, body : Body]
  \cup {f \in [kind : {"HMSG"}, sid : Sid, reply : BOOLEAN, head : Heads, body : Body] :
          f.head <= Len(f.body)}

ASSUME SpeltAssumption == Spelt \subseteq Frame

Cell(kind, i) == [kind |-> kind, of |-> i]

\* The cells of frame i.
Cells(f, i) ==
  <<Cell("line", i)>>
  \o IF f.kind \in Message
       THEN [k \in 1 .. Len(f.body) |-> Cell(f.body[k], i)] \o <<Cell("cr", i), Cell("lf", i)>>
       ELSE <<>>

NotANumber == -1

\* The words of its control line.
Words(f) ==
  IF f.kind \in Control
    THEN <<f.kind>>
    ELSE <<f.kind, "subject", f.sid>>
         \o (IF f.reply THEN <<NotANumber>> ELSE <<>>)
         \o (IF f.kind = "HMSG" THEN <<f.head>> ELSE <<>>)
         \o <<Len(f.body)>>

\* argv and argc, as strtok() fills them.
Argv(f) == SubSeq(Words(f), 1, IF Len(Words(f)) < MaxArgs THEN Len(Words(f)) ELSE MaxArgs)
Argc(f) == Len(Argv(f))

\* Where recv() looks for the sizes.
PayloadSize(f) == Argv(f)[IF Argc(f) = 5 THEN 5 ELSE 4]
HeaderSize(f) == Argv(f)[IF Argc(f) = 6 THEN 5 ELSE 4]
TotalSize(f) == Argv(f)[IF Argc(f) = 6 THEN 6 ELSE 5]

\* The early returns on what the line says.
AcceptsMsgBelow(f) ==                    \* mutant: the limit itself is too long
  Argc(f) \in {4, 5} /\ PayloadSize(f) >= 0 /\ PayloadSize(f) < MaxPayload

AcceptsMsg(f) ==
  /\ Argc(f) \in {4, 5}
  /\ PayloadSize(f) >= 0 /\ PayloadSize(f) <= MaxPayload

AcceptsHmsgUnsigned(f) ==                \* mutant: the header size is not tested
  Argc(f) \in {5, 6} /\ TotalSize(f) <= MaxPayload + MaxHeader

AcceptsHmsg(f) ==
  /\ Argc(f) \in {5, 6}
  /\ HeaderSize(f) >= 0 /\ HeaderSize(f) <= MaxHeader
  /\ TotalSize(f) >= HeaderSize(f) /\ TotalSize(f) <= MaxPayload + MaxHeader

Accepts(f) == IF f.kind = "MSG" THEN AcceptsMsg(f) ELSE AcceptsHmsg(f)

\* What is read of the payload.
ReadSizeOfData(f) ==                     \* mutant: without the headers
  IF f.kind = "MSG" THEN PayloadSize(f) ELSE TotalSize(f) - HeaderSize(f)

ReadSize(f) == IF f.kind = "MSG" THEN PayloadSize(f) ELSE TotalSize(f)

-----------------------------------------------------------------------------
(* State                                                                   *)

\* got: the characters of the line, or the bytes of the payload, so far;
\* frame: where the line came from that was read last, line: what it says;
\* need: bytes still to be read.
NoLine == [kind |-> "+OK", sid |-> 0, reply |-> FALSE, head |-> 0, body |-> <<>>]
Idle == [pc |-> "idle", got |-> <<>>, frame |-> 0, line |-> NoLine, need |-> 0]

CellType == [kind : {"line", "chr", "nl", "text", "cr", "lf"}, of : 1 .. Frames]

TypeOK ==
  /\ sent \in Seq(Frame) /\ Len(sent) <= Frames
  /\ wire \in Seq(CellType)
  /\ clear \in 0 .. Len(wire)
  /\ conn \in [open : BOOLEAN, connected : BOOLEAN, attached : BOOLEAN,
               transport : BOOLEAN, tls : BOOLEAN]
  /\ subs \in [Sid -> {"none", "live", "marked"}]
  /\ rd \in [pc : {"idle", "line", "parse", "payload", "skip", "call"},
             got : Seq(CellType), frame : 0 .. Frames, line : Frame, need : Nat]
  /\ delivered \in Seq([frame : 1 .. Frames, head : Nat, bytes : Seq(CellType),
                        stray : BOOLEAN])
  /\ pongs \in Nat
  /\ owed \subseteq 1 .. Frames
  /\ misread \in 0 .. Frames

\* Connected, with a subscription or without one.
Init ==
  /\ sent = <<>> /\ wire = <<>> /\ clear = 0
  /\ conn \in [open : {TRUE}, connected : {TRUE}, attached : {TRUE},
               transport : BOOLEAN, tls : BOOLEAN]
  /\ subs \in [Sid -> {"none", "live"}]
  /\ rd = Idle
  /\ delivered = <<>> /\ pongs = 0 /\ owed = {} /\ misread = 0

-----------------------------------------------------------------------------
(* the server, the network and the other tasks                             *)

\* It answers subscriptions that it still believes in, live or not.
ServerSends ==
  /\ conn.open /\ Len(sent) < Frames
  /\ \E f \in Frame :
       /\ sent' = Append(sent, f)
       /\ wire' = wire \o Cells(f, Len(sent) + 1)
       /\ owed' = IF f.kind \in Message /\ subs[f.sid] # "live"
                    THEN owed ELSE owed \cup {Len(sent) + 1}
  /\ UNCHANGED <<clear, conn, subs, rd, delivered, pongs, misread>>

\* The link goes down: what has been decrypted is there, the rest may be lost.
LinkBreaks ==
  /\ conn.open
  /\ conn' = [conn EXCEPT !.open = FALSE]
  /\ \E k \in clear .. Len(wire) :
       /\ wire' = SubSeq(wire, 1, k)
       /\ owed' = owed \ {wire[j].of : j \in k + 1 .. Len(wire)}
  /\ UNCHANGED <<sent, clear, subs, rd, delivered, pongs, misread>>

\* subscribe(), unsubscribe(), and what marks a subscription for deletion.
Resubscribe ==
  /\ \E sid \in Sid, s \in {"none", "live", "marked"} :
       /\ s # subs[sid]
       /\ s = "marked" => subs[sid] = "live"
       /\ s = "live" => subs[sid] = "none"
       /\ subs' = [subs EXCEPT ![sid] = s]
       /\ owed' = {i \in owed : sent[i].kind \in Message => sent[i].sid # sid}
  /\ UNCHANGED <<sent, wire, clear, conn, rd, delivered, pongs, misread>>

Hung == [conn EXCEPT !.connected = FALSE, !.attached = FALSE, !.open = FALSE]

\* disconnect(): nothing to do when it is not connected any more.
Disconnect ==
  /\ conn' = Hung
  /\ wire' = <<>> /\ clear' = 0

\* The task that reads over a TcpTransport holds its io_mutex meanwhile, and the
\* rest of disconnect() waits. Over the own socket nothing waits: under TLS that
\* frees the context the reader uses, which is left out.
Reading == rd.pc \in {"line", "payload", "skip"}

OtherDisconnects ==
  /\ conn.connected
  /\ conn.transport \/ conn.tls => ~Reading
  /\ Disconnect
  /\ UNCHANGED <<sent, subs, rd, delivered, pongs, owed, misread>>

-----------------------------------------------------------------------------
(* reading                                                                 *)

\* k cells are taken; under TLS that may decrypt the record that holds them.
TakeCells(k) ==
  /\ k <= Len(wire)
  /\ wire' = SubSeq(wire, k + 1, Len(wire))
  /\ IF conn.tls /\ k > clear
       THEN \E more \in 0 .. Len(wire) - k : clear' = more
       ELSE clear' = IF conn.tls THEN clear - k ELSE 0

\* recv() or ssl_read() fail: the peer has closed, or there is no socket.
EndOfStream == wire = <<>> /\ ~conn.open

\* select() looks at the socket, not at what has been decrypted.
HasData == conn.attached /\ (Len(wire) > clear \/ ~conn.open)

\* process() and flush()
Poll ==
  /\ rd.pc = "idle"
  /\ IF conn.transport THEN conn.attached ELSE conn.connected
  /\ HasData
  /\ rd' = [rd EXCEPT !.pc = "line", !.got = <<>>]
  /\ UNCHANGED <<sent, wire, clear, conn, subs, delivered, pongs, owed, misread>>

ProcessIgnoresDrop == UNCHANGED vars     \* mutant

\* process(): the transport has dropped unexpectedly.
ProcessDrop ==
  /\ rd.pc = "idle"
  /\ conn.transport /\ ~conn.attached /\ conn.connected
  /\ Disconnect
  /\ UNCHANGED <<sent, subs, rd, delivered, pongs, owed, misread>>

\* A control line alone has room, behind other characters it is like them.
LineTooLong ==
  /\ wire # <<>> /\ Len(rd.got) + 1 >= MaxLine
  /\ \/ Head(wire).kind = "chr"
     \/ Head(wire).kind = "text" /\ rd.got # <<>>

\* One round of the loop of read_line() and client_readline(): a carriage return
\* is skipped, a line feed ends the line.
LineCell ==
  /\ wire # <<>> /\ ~LineTooLong
  /\ TakeCells(1)
  /\ LET c == Head(wire) IN
       rd' = CASE c.kind = "cr" -> rd
               [] c.kind \in {"nl", "lf"} -> [rd EXCEPT !.pc = "parse"]
               [] c.kind \in {"line", "text"} -> [rd EXCEPT !.pc = "parse", !.got = Append(@, c)]
               [] c.kind = "chr" -> [rd EXCEPT !.got = Append(@, c)]
  /\ UNCHANGED <<sent, conn, subs, delivered, pongs, owed, misread>>

\* The line comes out empty, and the client is disconnected.
LineLost ==
  /\ EndOfStream \/ LineTooLong
  /\ Disconnect
  /\ rd' = [rd EXCEPT !.pc = "parse", !.got = <<>>]
  /\ UNCHANGED <<sent, subs, delivered, pongs, owed, misread>>

OwnReadLine == rd.pc = "line" /\ ~conn.transport /\ (LineCell \/ LineLost)

TcpReadLine == rd.pc = "line" /\ conn.transport /\ (LineCell \/ LineLost)

\* One round of the loop of read_bytes(): as many bytes as there are.
PayloadCells ==
  /\ rd.need > 0 /\ wire # <<>>
  /\ LET k == IF rd.need < Len(wire) THEN rd.need ELSE Len(wire) IN
       /\ TakeCells(k)
       /\ rd' = [rd EXCEPT !.got = @ \o SubSeq(wire, 1, k), !.need = @ - k]
  /\ UNCHANGED <<sent, conn, subs, delivered, pongs, owed, misread>>

\* client_read_bytes() returns NULL after disconnect(): the peer has closed, or
\* there is no memory for the payload.
PayloadLost ==
  /\ rd.need > 0 /\ (EndOfStream \/ rd.got = <<>>)
  /\ Disconnect
  /\ rd' = Idle
  /\ UNCHANGED <<sent, subs, delivered, pongs, owed, misread>>

PayloadRead ==
  /\ rd.need = 0
  /\ rd' = [rd EXCEPT !.pc = "skip", !.need = 2]
  /\ UNCHANGED <<sent, wire, clear, conn, subs, delivered, pongs, owed, misread>>

OwnReadBytes ==
  rd.pc = "payload" /\ ~conn.transport /\ (PayloadCells \/ PayloadLost \/ PayloadRead)

TcpReadBytes ==
  rd.pc = "payload" /\ conn.transport /\ (PayloadCells \/ PayloadLost \/ PayloadRead)

\* One round of the loop of skip_bytes().
SkipCells ==
  /\ wire # <<>>
  /\ LET k == IF rd.need < Len(wire) THEN rd.need ELSE Len(wire) IN
       /\ TakeCells(k)
       /\ rd' = [rd EXCEPT !.pc = IF rd.need = k THEN "call" ELSE "skip", !.need = @ - k]
  /\ UNCHANGED <<sent, conn, subs, delivered, pongs, owed, misread>>

\* The message has been read: it is delivered although the link is down.
SkipLost == EndOfStream /\ rd' = [rd EXCEPT !.pc = "call", !.need = 0]

OwnSkipBytes ==
  /\ rd.pc = "skip" /\ ~conn.transport
  /\ \/ SkipCells
     \/ SkipLost /\ Disconnect /\ UNCHANGED <<sent, subs, delivered, pongs, owed, misread>>

\* TcpTransport::skip_bytes() closes the transport, class NATS does not notice.
TcpSkipBytes ==
  /\ rd.pc = "skip" /\ conn.transport
  /\ \/ SkipCells
     \/ /\ SkipLost
        /\ conn' = [conn EXCEPT !.attached = FALSE]
        /\ UNCHANGED <<sent, wire, clear, subs, delivered, pongs, owed, misread>>

-----------------------------------------------------------------------------
(* recv()                                                                  *)

\* A line that is a control line, or reads like one; anything else is ignored.
IsControl == Len(rd.got) = 1 /\ rd.got[1].kind \in {"line", "text"}

\* What it says.
Said == IF rd.got[1].kind = "line" THEN {sent[rd.got[1].of]} ELSE Spelt

Ignored == rd' = Idle /\ UNCHANGED <<wire, clear, conn, pongs>>

\* MSG and HMSG: the payload is read if the line is right and the slot is taken.
RecvMessage(f) ==
  IF subs[f.sid] # "none" /\ Accepts(f)
    THEN /\ rd' = [pc |-> "payload", got |-> <<>>, frame |-> rd.got[1].of, line |-> f,
                   need |-> ReadSize(f)]
         /\ UNCHANGED <<wire, clear, conn, pongs>>
    ELSE Ignored

\* On a link that is down send() may fail, and disconnects.
RecvPing ==
  /\ rd' = Idle
  /\ \/ conn.attached /\ pongs' = pongs + 1 /\ UNCHANGED <<wire, clear, conn>>
     \/ ~conn.open /\ Disconnect /\ UNCHANGED pongs

RecvErr == Disconnect /\ rd' = Idle /\ UNCHANGED pongs

Parse ==
  /\ rd.pc = "parse"
  /\ \/ ~IsControl /\ Ignored /\ UNCHANGED misread
     \/ /\ IsControl
        /\ \E f \in Said :
             \/ f.kind \in Message /\ RecvMessage(f)
             \/ f.kind = "PING" /\ RecvPing
             \/ f.kind = "-ERR" /\ RecvErr
             \/ f.kind = "+OK" /\ Ignored
        /\ misread' = IF rd.got[1].kind = "text" /\ misread = 0
                        THEN rd.got[1].of ELSE misread
  /\ UNCHANGED <<sent, subs, delivered, owed>>

\* The second look at the slot, and the callback.
Deliver ==
  /\ rd.pc = "call"
  /\ LET f == rd.line IN
       delivered' = IF subs[f.sid] = "live"
                      THEN Append(delivered, [frame |-> rd.frame, bytes |-> rd.got,
                                              head |-> IF f.kind = "HMSG" THEN HeaderSize(f) ELSE 0,
                                              stray |-> misread # 0])
                      ELSE delivered
  /\ rd' = Idle
  /\ UNCHANGED <<sent, wire, clear, conn, subs, pongs, owed, misread>>

-----------------------------------------------------------------------------

Environment == ServerSends \/ LinkBreaks \/ Resubscribe \/ OtherDisconnects

Reader ==
  \/ Poll \/ ProcessDrop
  \/ OwnReadLine \/ TcpReadLine
  \/ Parse
  \/ OwnReadBytes \/ TcpReadBytes
  \/ OwnSkipBytes \/ TcpSkipBytes
  \/ Deliver

Next == Environment \/ Reader

\* The application calls process() again and again.
Spec == Init /\ [][Next]_vars /\ WF_vars(Reader)

-----------------------------------------------------------------------------
(* Properties                                                              *)

\* What a callback gets is the whole payload of its message and nothing else, with
\* the headers cut off where they end, and messages come in the order in which
\* they were sent, each at most once: recv() counts bytes, not lines, so what a
\* payload that is read looks like makes no difference, and characters of one that
\* is ignored never get into another. It holds of every callback before recv()
\* takes a line of an ignored payload for a control line; from then on bytes that
\* no server meant as a message can be delivered.
DeliveredIntact ==
  /\ \A k \in 1 .. Len(delivered) :
       LET d == delivered[k]
           f == sent[d.frame] IN
         ~d.stray => /\ d.bytes = SubSeq(Cells(f, d.frame), 2, Len(f.body) + 1)
                     /\ d.head = f.head
  /\ \A k \in 1 .. Len(delivered) - 1 :
       ~delivered[k + 1].stray => delivered[k].frame < delivered[k + 1].frame

\* The frames of which nothing is left to read.
Consumed == {i \in 1 .. Len(sent) : \A k \in 1 .. Len(wire) : wire[k].of > i}
Given == {delivered[k].frame : k \in 1 .. Len(delivered)}
Answered(i) ==
  IF sent[i].kind \in Message
    THEN i \in Given
    ELSE sent[i].kind = "PING" =>
           pongs >= Cardinality({j \in 1 .. i : sent[j].kind = "PING"})

WithinLimits(f) ==
  /\ f.head <= MaxHeader
  /\ f.kind = "MSG" => Len(f.body) <= MaxPayload
  /\ f.kind = "HMSG" => Len(f.body) <= MaxPayload + MaxHeader

\* recv() has no reason to ignore it while its subscription is there.
Due(i) ==
  i \in owed /\ WithinLimits(sent[i]) /\ ~(sent[i].kind = "HMSG" /\ sent[i].reply)

\* While the connection lasts no message is lost that has a subscription and keeps
\* to the limits, and every PING is answered: a message that recv() ignores without
\* reading its payload (a freed id, a size over the limit, HMSG with a reply) does
\* not take the next one with it, until a line of such a payload spells a control
\* line. That is the only way in which the framing goes wrong: no line of a message
\* that recv() was to deliver is ever taken for one.
NothingElseLost ==
  /\ misread # 0 => sent[misread].kind \in Message /\ ~Due(misread)
  /\ misread = 0 /\ conn.connected /\ rd.pc = "idle" =>
       \A i \in Consumed : Due(i) => Answered(i)

\* Refuted: an ignored payload that says MSG, PING or -ERR is taken at its word.
NeverMisread == misread = 0

\* The second part without the exception.
EveryMessageDelivered ==
  misread = 0 /\ conn.connected /\ rd.pc = "idle" =>
    \A i \in Consumed \cap owed : WithinLimits(sent[i]) => Answered(i)

\* A link that has gone down is noticed, whichever function meets the end.
DropNoticed == ~conn.open ~> ~conn.connected
=============================================================================
