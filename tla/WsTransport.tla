----------------------------- MODULE WsTransport ----------------------------
(***************************************************************************)
(* class WebSocketTransport (ws_transport.h) over its RingBuffer.  One     *)
(* task of the application calls connect(), disconnect(), send_data(),     *)
(* has_data_available() and the three read functions in the order in which *)
(* class NATS calls them; the task of esp_websocket_client calls the event *)
(* handlers.  The steps are cut where the other task may come between.     *)
(*                                                                         *)
(* The server sends the bytes 1, 2, 3, ...; every LineLength-th is a line  *)
(* feed.  esp_websocket_client is external: it connects or fails, reports  *)
(* an error before or instead of nothing, always reports the end of a      *)
(* connection once, and stop() waits for the handler that is running.      *)
(***************************************************************************)
EXTENDS RingBuffer

CONSTANTS
  Bytes,           \* bound: what the server sends
  Connects,        \* bound: how often the application connects
  LineLength,      \* bytes of a line, its line feed included
  LineLimit,       \* NATS_MAX_LINE_SIZE
  MaxFrame,        \* bound: bytes of a frame
  MaxRead          \* bound: bytes of a payload

ASSUME WsAssumption ==
  /\ Byte = 1 .. Bytes
  /\ {Bytes, Connects, LineLength, LineLimit, MaxFrame, MaxRead} \subseteq Nat

NULL == 0

VARIABLES
  api,             \* the members of the object
  smutex,          \* state_mutex: "free", or "ws" while handle_data() runs
  esp,             \* the WebSocket client and its task
  app,             \* the task of the application
  next,            \* the next byte the server sends
  allocated,       \* the ring buffers that exist
  made             \* how many were made

own == <<api, smutex, esp, app, next, allocated, made>>
vars == <<ring, own>>

Phases == {"none", "starting", "open", "failing", "over"}
Events == {"none", "connected", "error", "disconnected", "signal",
           "data", "enter", "store", "give"}
Reading == {"look", "wait", "copy", "copying"}
Connecting == {"await", "check", "mark", "stop", "abandon"}
Disconnecting == {"close", "join", "delete"}
Pcs == {"idle", "got"} \cup Reading \cup Connecting \cup Disconnecting

NewEsp == [phase |-> "none", ev |-> "none", frame |-> <<>>, was_open |-> FALSE]

\* need: characters of the line so far, or bytes still to be read.
\* failed: why connect() gives up; doomed: buffer_to_delete.
Idle == [pc |-> "idle", op |-> "line", need |-> 0, up |-> FALSE,
         failed |-> "no", doomed |-> NULL]

ApiRecord == [state : {"DISCONNECTED", "CONNECTING", "CONNECTED", "ERROR"},
              ws_connected : BOOLEAN, connect_result : BOOLEAN,
              connect_sem : BOOLEAN, client : BOOLEAN, rx : 0 .. Connects]

EspRecord == [phase : Phases, ev : Events, frame : Seq(Byte), was_open : BOOLEAN]

AppRecord == [pc : Pcs, op : {"line", "bytes", "skip"}, need : Nat, up : BOOLEAN,
              failed : {"no", "timeout", "refused"}, doomed : 0 .. Connects]

TypeOK ==
  /\ RingTypeOK
  /\ api \in ApiRecord /\ smutex \in {"free", "ws"}
  /\ esp \in EspRecord /\ app \in AppRecord
  /\ next \in 1 .. Bytes + 1
  /\ made \in 0 .. Connects /\ allocated \subseteq 1 .. made

IsConnected == api.state = "CONNECTED" /\ api.ws_connected /\ api.client
Readable == IsConnected /\ api.rx # NULL

\* What the next step of the task, and of the handler, is.
Goto(pc) == app' = [app EXCEPT !.pc = pc]
Event(ev) == esp' = [esp EXCEPT !.ev = ev]

GiveUp(why) == app' = [app EXCEPT !.pc = "stop", !.failed = why]

Init ==
  /\ slots = [i \in Index |-> 0] /\ head = 0 /\ tail = 0
  /\ holder = "none" /\ data = <<>> /\ want = 0 /\ read = <<>>
  /\ token = FALSE
  /\ api = [state |-> "DISCONNECTED", ws_connected |-> FALSE,
            connect_result |-> FALSE, connect_sem |-> FALSE,
            client |-> FALSE, rx |-> NULL]
  /\ smutex = "free" /\ esp = NewEsp /\ app = Idle
  /\ next = 1 /\ allocated = {} /\ made = 0

-----------------------------------------------------------------------------
(* connect()                                                               *)

ResetUndrained(a, buffer) ==             \* mutant: connect_sem is not drained
  [a EXCEPT !.state = "CONNECTING", !.rx = buffer, !.client = TRUE,
            !.ws_connected = FALSE, !.connect_result = FALSE]

\* The members connect() resets before it starts the client.
Reset(a, buffer) ==
  [a EXCEPT !.state = "CONNECTING", !.rx = buffer, !.client = TRUE,
            !.connect_sem = FALSE, !.ws_connected = FALSE,
            !.connect_result = FALSE]

\* From the ring buffer to esp_websocket_client_start().
ConnectStart ==
  /\ app.pc = "idle" /\ ~app.up
  /\ made < Connects
  /\ made' = made + 1
  /\ allocated' = allocated \cup {made + 1}
  /\ Construct
  /\ api' = Reset(api, made + 1)
  /\ esp' = [NewEsp EXCEPT !.phase = "starting"]
  /\ app' = [app EXCEPT !.pc = "await", !.failed = "no"]
  /\ UNCHANGED <<smutex, next>>

\* The client cannot be made or registered with, or, with the members reset,
\* not be started; the new buffer is deleted again.
ConnectInitFails ==
  /\ app.pc = "idle" /\ ~app.up
  /\ Construct
  /\ \E a \in {api, Reset(api, NULL)} :
       api' = [a EXCEPT !.state = "ERROR", !.client = FALSE, !.rx = NULL]
  /\ UNCHANGED <<smutex, esp, app, next, allocated, made>>

\* xSemaphoreTake(connect_sem, 30 s), signalled or timed out.
ConnectAwait ==
  /\ app.pc = "await"
  /\ \/ /\ api.connect_sem
        /\ api' = [api EXCEPT !.connect_sem = FALSE]
        /\ Goto("check")
     \/ /\ ~api.connect_sem
        /\ GiveUp("timeout")
        /\ UNCHANGED api
  /\ UNCHANGED <<ring, smutex, esp, next, allocated, made>>

ConnectCheck ==
  /\ app.pc = "check"
  /\ IF api.connect_result /\ api.ws_connected THEN Goto("mark") ELSE GiveUp("refused")
  /\ UNCHANGED <<ring, api, smutex, esp, next, allocated, made>>

\* What a handler has set state to meanwhile is overwritten.
ConnectMark ==
  /\ app.pc = "mark"
  /\ api' = [api EXCEPT !.state = "CONNECTED"]
  /\ app' = [app EXCEPT !.pc = "idle", !.up = TRUE]
  /\ UNCHANGED <<ring, smutex, esp, next, allocated, made>>

\* esp_websocket_client_stop() and _destroy(): waits for the handler.
Joined == esp.ev = "none" /\ esp' = NewEsp

ConnectStop ==
  /\ app.pc = "stop"
  /\ Joined
  /\ Goto("abandon")
  /\ UNCHANGED <<ring, api, smutex, next, allocated, made>>

ConnectAbandon ==
  /\ app.pc = "abandon"
  /\ allocated' = allocated \ {api.rx}
  /\ api' = [api EXCEPT !.client = FALSE, !.rx = NULL, !.state = "ERROR"]
  /\ Goto("idle")
  /\ UNCHANGED <<ring, smutex, esp, next, made>>

-----------------------------------------------------------------------------
(* disconnect()                                                            *)

\* Called by class NATS (send_data() failed, no answer, the application's
\* wish, not connected any more), after which it is not connected.
DisconnectCalled ==
  /\ app.pc = "idle" /\ app.up
  /\ app' = [app EXCEPT !.pc = "close", !.up = FALSE]
  /\ UNCHANGED <<ring, api, smutex, esp, next, allocated, made>>

\* The critical section.
DisconnectClose ==
  /\ app.pc = "close"
  /\ smutex = "free"
  /\ api' = [api EXCEPT !.ws_connected = FALSE, !.client = FALSE, !.rx = NULL]
  /\ app' = [app EXCEPT !.pc = IF api.client THEN "join" ELSE "delete",
                        !.doomed = api.rx]
  /\ UNCHANGED <<ring, smutex, esp, next, allocated, made>>

DisconnectJoin ==
  /\ app.pc = "join"
  /\ Joined
  /\ Goto("delete")
  /\ UNCHANGED <<ring, api, smutex, next, allocated, made>>

DisconnectDelete ==
  /\ app.pc = "delete"
  /\ allocated' = allocated \ {app.doomed}
  /\ api' = [api EXCEPT !.state = "DISCONNECTED"]
  /\ app' = [app EXCEPT !.pc = "idle", !.doomed = NULL]
  /\ UNCHANGED <<ring, smutex, esp, next, made>>

-----------------------------------------------------------------------------
(* has_data_available(), read_line(), read_bytes(), skip_bytes()           *)

StartReading(op, n) ==
  app' = [app EXCEPT !.pc = "look", !.op = op, !.need = n]

\* process() asks without a time-out, flush() and the handshake with one: then
\* the signal counts as data, wherever the bytes it stands for are by now.
HasData ==
  /\ app.pc = "idle" /\ app.up
  /\ Readable
  /\ \/ Sees(TRUE) /\ UNCHANGED ring
     \/ Sees(FALSE) /\ TakeToken
  /\ StartReading("line", 0)
  /\ UNCHANGED <<api, smutex, esp, next, allocated, made>>

Look ==
  /\ app.pc = "look"
  /\ \E some \in BOOLEAN :
       /\ Sees(some)
       /\ Goto(IF some THEN "copy" ELSE "wait")
  /\ UNCHANGED <<ring, api, smutex, esp, next, allocated, made>>

WaitForever ==                           \* mutant: nobody asks for the link
  /\ app.pc = "wait"
  /\ \/ /\ Sees(TRUE)
        /\ Goto("copy")
        /\ UNCHANGED ring
     \/ /\ Sees(FALSE)
        /\ TakeToken
        /\ Goto("copy")
     \/ /\ Sees(FALSE) /\ ~token
        /\ Goto("look")
        /\ UNCHANGED ring
  /\ UNCHANGED <<api, smutex, esp, next, allocated, made>>

\* wait_for_data(5000)
Wait ==
  /\ app.pc = "wait"
  /\ \/ /\ Sees(TRUE)
        /\ Goto("copy")
        /\ UNCHANGED ring
     \/ /\ Sees(FALSE)
        /\ TakeToken
        /\ Goto("copy")
     \/ /\ Sees(FALSE) /\ ~token
        /\ Goto(IF api.ws_connected THEN "look" ELSE "close")
        /\ UNCHANGED ring
  /\ UNCHANGED <<api, smutex, esp, next, allocated, made>>

CopyBegin ==
  /\ app.pc = "copy"
  /\ ReadBegin(IF app.op = "line" THEN 1 ELSE app.need)
  /\ Goto("copying")
  /\ UNCHANGED <<api, smutex, esp, next, allocated, made>>

CopyByte ==
  /\ app.pc = "copying"
  /\ Copy
  /\ UNCHANGED own

LineFeed(b) == b % LineLength = 0

Continue(pc, n) == app' = [app EXCEPT !.pc = pc, !.need = n]

\* What follows when read() has returned: a line or a payload is complete, the
\* line is too long, the link is gone, or there is more to wait for.
AfterCopy ==
  \/ /\ read = <<>>
     /\ Goto(IF api.ws_connected THEN "look" ELSE "close")
  \/ /\ read # <<>> /\ app.op # "line"
     /\ Continue(IF Len(read) = app.need THEN "got" ELSE "look", app.need - Len(read))
  \/ /\ read # <<>> /\ app.op = "line"
     /\ LineFeed(read[1])
     /\ Goto("got")
  \/ /\ read # <<>> /\ app.op = "line"
     /\ ~LineFeed(read[1])
     /\ Continue(IF app.need + 1 >= LineLimit THEN "close" ELSE "look", app.need + 1)

CopyEnd ==
  /\ app.pc = "copying"
  /\ ReadEnd
  /\ AfterCopy
  /\ UNCHANGED <<api, smutex, esp, next, allocated, made>>

\* In recv(): after the line of a message its payload, then CR LF.  Where the
\* link is down by then the functions return at once.
ReadOn ==
  /\ app.pc = "got"
  /\ \/ app.op = "line" /\ Readable /\ \E n \in 1 .. MaxRead : StartReading("bytes", n)
     \/ app.op = "bytes" /\ Readable /\ StartReading("skip", 2)
     \/ (app.op = "bytes" => ~Readable) /\ Goto("idle")
  /\ UNCHANGED <<ring, api, smutex, esp, next, allocated, made>>

-----------------------------------------------------------------------------
(* the event handlers                                                      *)

\* External: what the task of the client has to report.
EspReports(phases, after, event) ==
  /\ esp.phase \in phases /\ esp.ev = "none"
  /\ esp' = [esp EXCEPT !.phase = after, !.ev = event,
                        !.was_open = @ \/ after = "open"]
  /\ UNCHANGED <<ring, api, smutex, app, next, allocated, made>>

EspConnects == EspReports({"starting"}, "open", "connected")
EspFails == EspReports({"starting", "open"}, "failing", "error")
EspCloses == EspReports({"starting", "open", "failing"}, "over", "disconnected")

EspReceives ==
  /\ esp.phase = "open" /\ esp.ev = "none"
  /\ \E n \in 1 .. MaxFrame :
       /\ next + n <= Bytes + 1
       /\ next' = next + n
       /\ esp' = [esp EXCEPT !.ev = "data",
                             !.frame = [i \in 1 .. n |-> next + i - 1]]
  /\ UNCHANGED <<ring, api, smutex, app, allocated, made>>

HandleConnected ==
  /\ esp.ev = "connected" /\ smutex = "free"
  /\ api' = [api EXCEPT !.ws_connected = TRUE, !.connect_result = TRUE]
  /\ Event("signal")
  /\ UNCHANGED <<ring, smutex, app, next, allocated, made>>

HandleDisconnectedState ==               \* mutant: ws_connected is left alone
  /\ esp.ev = "disconnected" /\ smutex = "free"
  /\ api' = [api EXCEPT !.state = "DISCONNECTED"]
  /\ Event("signal")
  /\ UNCHANGED <<ring, smutex, app, next, allocated, made>>

HandleDisconnected ==
  /\ esp.ev = "disconnected" /\ smutex = "free"
  /\ api' = [api EXCEPT !.ws_connected = FALSE, !.state = "DISCONNECTED"]
  /\ Event("signal")
  /\ UNCHANGED <<ring, smutex, app, next, allocated, made>>

HandleError ==
  /\ esp.ev = "error"
  /\ api' = [api EXCEPT !.state = "ERROR"]
  /\ Event("signal")
  /\ UNCHANGED <<ring, smutex, app, next, allocated, made>>

GiveConnectSem ==
  /\ esp.ev = "signal"
  /\ api' = [api EXCEPT !.connect_sem = TRUE]
  /\ Event("none")
  /\ UNCHANGED <<ring, smutex, app, next, allocated, made>>

HandleDataUnlocked ==                    \* mutant: without state_mutex
  /\ esp.ev = "data"
  /\ Event(IF api.rx = NULL THEN "none" ELSE "enter")
  /\ UNCHANGED <<ring, api, smutex, app, next, allocated, made>>

HandleData ==
  /\ esp.ev = "data" /\ smutex = "free"
  /\ smutex' = IF api.rx = NULL THEN "free" ELSE "ws"
  /\ Event(IF api.rx = NULL THEN "none" ELSE "enter")
  /\ UNCHANGED <<ring, api, app, next, allocated, made>>

DataStep(event, action, then) ==
  /\ esp.ev = event
  /\ action
  /\ Event(then)
  /\ UNCHANGED <<api, app, next, allocated, made>>

DataEnter == DataStep("enter", WriteBegin(esp.frame), "store") /\ UNCHANGED smutex
DataStore == DataStep("store", DropOldest \/ Store, "store") /\ UNCHANGED smutex
DataEnd == DataStep("store", WriteEnd, "give") /\ UNCHANGED smutex
DataSignal == DataStep("give", Signal, "none") /\ smutex' = "free"

-----------------------------------------------------------------------------

Wish == ConnectStart \/ ConnectInitFails \/ DisconnectCalled

AppStep ==
  \/ ConnectAwait \/ ConnectCheck \/ ConnectMark \/ ConnectStop \/ ConnectAbandon
  \/ DisconnectClose \/ DisconnectJoin \/ DisconnectDelete
  \/ Look \/ Wait \/ CopyBegin \/ CopyByte \/ CopyEnd \/ ReadOn

EspEvent == EspConnects \/ EspFails \/ EspReceives

Handler ==
  \/ HandleConnected \/ HandleDisconnected \/ HandleError \/ GiveConnectSem
  \/ HandleData \/ DataEnter \/ DataStore \/ DataEnd \/ DataSignal

Next == Wish \/ AppStep \/ HasData \/ EspEvent \/ EspCloses \/ Handler

\* Tasks run; a client that has reported an error reports the end as well.
Fairness ==
  /\ WF_vars(AppStep)
  /\ WF_vars(Handler)
  /\ WF_vars(esp.phase = "failing" /\ EspCloses)

Spec == Init /\ [][Next]_vars /\ Fairness

-----------------------------------------------------------------------------
(* Properties                                                              *)

\* What passes through the buffer arrives in the order in which it was sent;
\* only the oldest bytes are lost, and only when the buffer is full, however
\* write(), read() and a new connection interleave.
FifoSpec == Fifo!FifoSpec

\* The event handler and the read functions never use a ring buffer that
\* disconnect() has taken away, and none is lost without being deleted
\* (handle_data() and disconnect() meet under state_mutex only).
BuffersSound ==
  /\ app.pc \in Reading => api.rx # NULL
  /\ esp.ev \in {"enter", "store", "give"} => api.rx # NULL
  /\ allocated = {api.rx, app.doomed} \ {NULL}

\* connect() succeeds only when the client it started has connected, and it
\* takes nothing but an answer of that client for a refusal: a signal left over
\* from an attempt that timed out or a link that dropped is not one.
ConnectHonest ==
  /\ app.pc = "mark" => esp.was_open
  /\ app.pc = "stop" /\ app.failed = "refused" => esp.phase \in {"failing", "over"}

\* When the WebSocket has ended, is_connected() becomes false, even where
\* connect() overwrites the state the handler has set.
DropNoticed == (esp.phase = "over") ~> ~IsConnected

MustReturn ==
  \/ app.pc \in Connecting \cup Disconnecting
  \/ app.pc \in Reading \cup {"got"} /\ esp.phase = "over"

\* connect() and disconnect() return, and so does a read function that waits for
\* bytes when the WebSocket has ended.
CallsReturn == MustReturn ~> app.pc = "idle"
=============================================================================
