------------------------- MODULE WsTransportProofs --------------------------
(***************************************************************************)
(* Proofs about the WebSocket transport, for every capacity of its ring    *)
(* buffer, every line length, every frame and every number of connections. *)
(***************************************************************************)
EXTENDS WsTransport, RingBufferProofs

-----------------------------------------------------------------------------
(* The inductive invariant                                                 *)

DataEvents == {"enter", "store", "give"}

\* What read() has still to copy, it has been asked for.
Counted == app.pc = "copying" /\ app.op # "line" => Len(read) + want = app.need

\* Who has the client and the ring buffer: connect() makes both, disconnect()
\* takes both away under state_mutex, and the handlers run while there is a
\* client only.
Owned ==
  /\ ~app.up /\ app.pc \notin Connecting \cup Disconnecting => ~api.client
  /\ api.client => api.rx # NULL
  /\ ~api.client => app.pc \notin Reading \cup Connecting
  /\ ~api.client => api.rx = NULL
  /\ ~api.client /\ app.pc # "join" => esp = NewEsp
  /\ app.pc = "abandon" => esp = NewEsp
  /\ app.pc \in {"join", "delete"} => ~api.client
  /\ app.doomed # NULL => app.pc \in {"join", "delete"}

\* handle_data() runs with state_mutex, so the buffer it found is still there.
Guarded == esp.ev \in DataEvents => smutex = "ws" /\ api.rx # NULL

\* A signal that connect() can see comes from a handler of its own client.
Answered == esp.phase \in {"failing", "over"} \/ (api.connect_result /\ api.ws_connected)

Signalled ==
  /\ app.pc \in {"await", "check"} /\ api.ws_connected => esp.was_open
  /\ esp.ev = "connected" => esp.was_open
  /\ esp.ev \in {"error", "disconnected"} => esp.phase \in {"failing", "over"}
  /\ app.pc = "await" /\ (api.connect_sem \/ esp.ev = "signal") => Answered
  /\ app.pc = "check" => Answered

OwnTypeOK ==
  /\ api \in ApiRecord /\ smutex \in {"free", "ws"}
  /\ esp \in EspRecord /\ app \in AppRecord
  /\ next \in 1 .. Bytes + 1
  /\ made \in 0 .. Connects /\ allocated \subseteq 1 .. made

Rest == Counted /\ Owned /\ Guarded /\ Signalled /\ BuffersSound /\ ConnectHonest

Inv == RingTypeOK /\ OwnTypeOK /\ Rest

LEMMA TypeParts == TypeOK <=> RingTypeOK /\ OwnTypeOK
BY DEF TypeOK, OwnTypeOK

-----------------------------------------------------------------------------
(* Types                                                                   *)

LEMMA PcFacts ==
  {"idle", "got", "look", "wait", "copy", "copying", "await", "check", "mark",
   "stop", "abandon", "close", "join", "delete"} \subseteq Pcs
BY DEF Pcs, Reading, Connecting, Disconnecting

LEMMA GotoTypes ==
  ASSUME app \in AppRecord, NEW pc \in Pcs, Goto(pc)
  PROVE  app' \in AppRecord
BY DEF AppRecord, Goto

LEMMA GiveUpTypes ==
  ASSUME app \in AppRecord, NEW why \in {"timeout", "refused"}, GiveUp(why)
  PROVE  app' \in AppRecord
<1> DEFINE pc == "stop"
<1>1. pc \in Pcs
  BY PcFacts
<1>2. app' = [app EXCEPT !.pc = pc, !.failed = why]
  BY DEF GiveUp
<1> HIDE DEF pc
<1> QED BY <1>1, <1>2 DEF AppRecord

LEMMA ContinueTypes ==
  ASSUME app \in AppRecord, NEW pc \in Pcs, NEW n \in Nat, Continue(pc, n)
  PROVE  app' \in AppRecord
BY DEF AppRecord, Continue

LEMMA StartTypes ==
  ASSUME app \in AppRecord, NEW op \in {"line", "bytes", "skip"}, NEW n \in Nat,
         StartReading(op, n)
  PROVE  app' \in AppRecord
<1> DEFINE pc == "look"
<1>1. pc \in Pcs
  BY PcFacts
<1>2. app' = [app EXCEPT !.pc = pc, !.op = op, !.need = n]
  BY DEF StartReading
<1> HIDE DEF pc
<1> QED BY <1>1, <1>2 DEF AppRecord

LEMMA AppFieldTypes ==
  ASSUME app \in AppRecord, NEW pc \in Pcs, NEW up \in BOOLEAN,
         NEW doomed \in 0 .. Connects, NEW failed \in {"no", "timeout", "refused"}
  PROVE  /\ [app EXCEPT !.pc = pc, !.failed = failed] \in AppRecord
         /\ [app EXCEPT !.pc = pc, !.up = up] \in AppRecord
         /\ [app EXCEPT !.pc = pc, !.doomed = doomed] \in AppRecord
BY DEF AppRecord

LEMMA AppTypes ==
  ASSUME Inv, Next PROVE app' \in AppRecord
<1> USE PcFacts
<1>1. app \in AppRecord /\ api \in ApiRecord
  BY DEF Inv, OwnTypeOK
<1>2. /\ Len(read) \in Nat /\ 0 \in 0 .. Connects
      /\ api.rx \in 0 .. Connects /\ app.need \in Nat
  BY <1>1, LenProperties, WsAssumption DEF Inv, RingTypeOK, ApiRecord, AppRecord
<1>3. CASE ConnectStart
  BY <1>1, <1>3, AppFieldTypes, <1>2 DEF ConnectStart
<1>4. CASE ConnectAwait
  BY <1>1, <1>4, GotoTypes, GiveUpTypes DEF ConnectAwait
<1>5. CASE ConnectCheck
  BY <1>1, <1>5, GotoTypes, GiveUpTypes DEF ConnectCheck
<1>6. CASE ConnectMark
  BY <1>1, <1>2, <1>6, AppFieldTypes DEF ConnectMark
<1>7. CASE ConnectStop \/ ConnectAbandon \/ DisconnectJoin
  BY <1>1, <1>7, GotoTypes DEF ConnectStop, ConnectAbandon, DisconnectJoin
<1>8. CASE DisconnectCalled
  BY <1>1, <1>2, <1>8, AppFieldTypes DEF DisconnectCalled
<1>9. CASE DisconnectClose
  <2> DEFINE pc == IF api.client THEN "join" ELSE "delete"
  <2>1. pc \in Pcs
    OBVIOUS
  <2>2. app' = [app EXCEPT !.pc = pc, !.doomed = api.rx]
    BY <1>9 DEF DisconnectClose
  <2> HIDE DEF pc
  <2> QED BY <1>1, <1>2, <2>1, <2>2, AppFieldTypes
<1>10. CASE DisconnectDelete
  BY <1>1, <1>2, <1>10, AppFieldTypes DEF DisconnectDelete, NULL
<1>11. CASE HasData
  BY <1>1, <1>11, StartTypes DEF HasData
<1>12. CASE Look
  <2> PICK some \in BOOLEAN : Goto(IF some THEN "copy" ELSE "wait")
    BY <1>12 DEF Look
  <2> QED BY <1>1, GotoTypes
<1>13. CASE Wait
  BY <1>1, <1>13, GotoTypes DEF Wait
<1>14. CASE CopyBegin
  BY <1>1, <1>14, GotoTypes DEF CopyBegin
<1>15. CASE CopyEnd
  <2>1. app.pc = "copying" /\ AfterCopy
    BY <1>15 DEF CopyEnd
  <2>2. CASE Goto(IF api.ws_connected THEN "look" ELSE "close") \/ Goto("got")
    BY <1>1, <2>2, GotoTypes
  <2>3. CASE /\ app.op # "line"
             /\ Continue(IF Len(read) = app.need THEN "got" ELSE "look",
                         app.need - Len(read))
    <3>1. app.need - Len(read) \in Nat
      <4>1. Len(read) + want = app.need /\ want \in Nat
        BY <2>1, <2>3 DEF Inv, Rest, Counted, RingTypeOK
      <4> QED BY <1>2, <4>1
    <3> QED BY <1>1, <2>3, <3>1, ContinueTypes
  <2>4. CASE Continue(IF app.need + 1 >= LineLimit THEN "close" ELSE "look",
                      app.need + 1)
    <3>1. app.need + 1 \in Nat
      BY <1>2
    <3> QED BY <1>1, <2>4, <3>1, ContinueTypes
  <2> QED BY <2>1, <2>2, <2>3, <2>4 DEF AfterCopy
<1>16. CASE ReadOn
  <2>1. CASE \E n \in 1 .. MaxRead : StartReading("bytes", n)
    BY <1>1, <2>1, StartTypes, WsAssumption
  <2>2. CASE StartReading("skip", 2)
    BY <1>1, <2>2, StartTypes
  <2>3. CASE Goto("idle")
    BY <1>1, <2>3, GotoTypes
  <2> QED BY <1>16, <2>1, <2>2, <2>3 DEF ReadOn
<1>17. CASE ConnectInitFails \/ CopyByte \/ EspEvent \/ EspCloses \/ Handler
  BY <1>1, <1>17
  DEF ConnectInitFails, CopyByte, own, EspEvent, EspConnects, EspFails, EspReceives,
      EspCloses, EspReports, Handler, HandleConnected, HandleDisconnected, HandleError,
      GiveConnectSem, HandleData, DataEnter, DataStore, DataEnd, DataSignal, DataStep
<1> QED
  BY <1>3, <1>4, <1>5, <1>6, <1>7, <1>8, <1>9, <1>10, <1>11, <1>12, <1>13, <1>14,
     <1>15, <1>16, <1>17 DEF Next, Wish, AppStep

LEMMA EspTypes ==
  ASSUME Inv, Next PROVE esp' \in EspRecord
<1>1. esp \in EspRecord
  BY DEF Inv, OwnTypeOK
<1>2. NewEsp \in EspRecord /\ [NewEsp EXCEPT !.phase = "starting"] \in EspRecord
  <2>1. <<>> \in Seq(Byte)
    BY EmptySeq
  <2> QED BY <2>1 DEF NewEsp, EspRecord, Phases, Events
<1>3. ASSUME NEW ev \in Events, Event(ev) PROVE esp' \in EspRecord
  BY <1>1, <1>3 DEF Event, EspRecord
<1>4. ASSUME NEW phases, NEW after \in Phases, NEW ev \in Events,
             EspReports(phases, after, ev)
      PROVE  esp' \in EspRecord
  <2> DEFINE open == after = "open"
             was == esp.was_open \/ open
  <2>1. esp' = [esp EXCEPT !.phase = after, !.ev = ev, !.was_open = was]
    BY <1>4 DEF EspReports
  <2>2. was \in BOOLEAN
    OBVIOUS
  <2> HIDE DEF was
  <2> QED BY <1>1, <2>1, <2>2 DEF EspRecord
<1>5. \A ev \in {"none", "connected", "error", "disconnected", "signal", "data",
                 "enter", "store", "give"} : ev \in Events
  BY DEF Events
<1>6. CASE ConnectStart \/ ConnectStop \/ DisconnectJoin
  BY <1>2, <1>6 DEF ConnectStart, ConnectStop, DisconnectJoin, Joined
<1>7. CASE EspConnects \/ EspFails \/ EspCloses
  <2>1. {"open", "failing", "over"} \subseteq Phases
    BY DEF Phases
  <2> QED BY <1>4, <1>5, <1>7, <2>1 DEF EspConnects, EspFails, EspCloses
<1>8. CASE EspReceives
  <2> PICK n \in 1 .. MaxFrame :
        /\ next + n <= Bytes + 1
        /\ esp' = [esp EXCEPT !.ev = "data",
                              !.frame = [i \in 1 .. n |-> next + i - 1]]
    BY <1>8 DEF EspReceives
  <2> DEFINE f == [i \in 1 .. n |-> next + i - 1]
             ev == "data"
  <2>1. f \in Seq(Byte)
    <3>1. \A i \in 1 .. n : next + i - 1 \in Byte
      BY WsAssumption DEF Inv, OwnTypeOK
    <3>2. n \in Nat /\ f \in [1 .. n -> Byte]
      BY <3>1, WsAssumption
    <3> QED BY <3>2
  <2>2. ev \in Events
    BY DEF Events
  <2>3. esp' = [esp EXCEPT !.ev = ev, !.frame = f]
    OBVIOUS
  <2> HIDE DEF f, ev
  <2> QED BY <1>1, <2>1, <2>2, <2>3 DEF EspRecord
<1>9. CASE Handler
  <2>1. CASE HandleConnected \/ HandleDisconnected \/ HandleError \/ GiveConnectSem
    BY <1>3, <1>5, <2>1
    DEF HandleConnected, HandleDisconnected, HandleError, GiveConnectSem
  <2>2. CASE HandleData
    BY <1>3, <1>5, <2>2 DEF HandleData
  <2>3. CASE DataEnter \/ DataStore \/ DataEnd \/ DataSignal
    BY <1>3, <1>5, <2>3 DEF DataEnter, DataStore, DataEnd, DataSignal, DataStep
  <2> QED BY <1>9, <2>1, <2>2, <2>3 DEF Handler
<1>10. CASE UNCHANGED esp
  BY <1>1, <1>10
<1>11. \/ ConnectStart \/ ConnectStop \/ DisconnectJoin
       \/ EspConnects \/ EspFails \/ EspCloses \/ EspReceives \/ Handler
       \/ UNCHANGED esp
  <2>1. CASE Wish \/ HasData
    BY <2>1 DEF Wish, HasData, ConnectInitFails, DisconnectCalled
  <2>2. CASE AppStep
    BY <2>2 DEF AppStep, ConnectAwait, ConnectCheck, ConnectMark, ConnectAbandon,
       DisconnectClose, DisconnectDelete, Look, Wait, CopyBegin, CopyByte, own,
       CopyEnd, ReadOn
  <2> QED BY <2>1, <2>2 DEF Next, EspEvent
<1> QED BY <1>6, <1>7, <1>8, <1>9, <1>10, <1>11

LEMMA ApiTypes ==
  ASSUME Inv, Next PROVE api' \in ApiRecord /\ smutex' \in {"free", "ws"}
<1>1. api \in ApiRecord /\ smutex \in {"free", "ws"}
  BY DEF Inv, OwnTypeOK
<1>2. 0 \in 0 .. Connects
  BY WsAssumption
<1>3. CASE ConnectStart
  <2>1. made + 1 \in 0 .. Connects
    BY <1>3, WsAssumption DEF ConnectStart, Inv, OwnTypeOK
  <2> QED BY <1>1, <1>3, <2>1 DEF ConnectStart, Reset, ApiRecord
<1>4. CASE ConnectInitFails
  <2> PICK a \in {api, Reset(api, NULL)} :
             api' = [a EXCEPT !.state = "ERROR", !.client = FALSE, !.rx = NULL]
    BY <1>4 DEF ConnectInitFails
  <2>1. Reset(api, NULL) \in ApiRecord
    BY <1>1, <1>2 DEF Reset, ApiRecord, NULL
  <2>2. a \in ApiRecord
    BY <1>1, <2>1
  <2>3. smutex' = smutex
    BY <1>4 DEF ConnectInitFails
  <2> QED BY <1>1, <1>2, <2>2, <2>3 DEF ApiRecord, NULL
<1>5. CASE ConnectAwait \/ ConnectMark \/ ConnectAbandon
  BY <1>1, <1>2, <1>5 DEF ConnectAwait, ConnectMark, ConnectAbandon, ApiRecord, NULL
<1>6. CASE DisconnectClose \/ DisconnectDelete
  BY <1>1, <1>2, <1>6 DEF DisconnectClose, DisconnectDelete, ApiRecord, NULL
<1>7. CASE HandleConnected \/ HandleDisconnected \/ HandleError \/ GiveConnectSem
  BY <1>1, <1>7
  DEF HandleConnected, HandleDisconnected, HandleError, GiveConnectSem, ApiRecord
<1>8. CASE HandleData
  BY <1>1, <1>8 DEF HandleData
<1>9. CASE DataEnter \/ DataStore \/ DataEnd \/ DataSignal
  BY <1>1, <1>9 DEF DataEnter, DataStore, DataEnd, DataSignal, DataStep
<1>10. CASE UNCHANGED <<api, smutex>>
  BY <1>1, <1>10
<1>11. \/ ConnectStart \/ ConnectInitFails
       \/ ConnectAwait \/ ConnectMark \/ ConnectAbandon
       \/ DisconnectClose \/ DisconnectDelete \/ Handler
       \/ UNCHANGED <<api, smutex>>
  <2>1. CASE Wish \/ HasData
    BY <2>1 DEF Wish, HasData, DisconnectCalled
  <2>2. CASE AppStep
    BY <2>2 DEF AppStep, ConnectCheck, ConnectStop, DisconnectJoin, Look, Wait,
       CopyBegin, CopyByte, own, CopyEnd, ReadOn
  <2>3. CASE EspEvent \/ EspCloses
    BY <2>3 DEF EspEvent, EspCloses, EspConnects, EspFails, EspReceives, EspReports
  <2> QED BY <2>1, <2>2, <2>3 DEF Next
<1> QED
  BY <1>3, <1>4, <1>5, <1>6, <1>7, <1>8, <1>9, <1>10, <1>11 DEF Handler

LEMMA BufferTypes ==
  ASSUME Inv, Next
  PROVE  /\ next' \in 1 .. Bytes + 1
         /\ made' \in 0 .. Connects /\ allocated' \subseteq 1 .. made'
<1>1. /\ next \in 1 .. Bytes + 1
      /\ made \in 0 .. Connects /\ allocated \subseteq 1 .. made
  BY DEF Inv, OwnTypeOK
<1>2. CASE ConnectStart
  BY <1>1, <1>2, WsAssumption DEF ConnectStart
<1>3. CASE ConnectAbandon \/ DisconnectDelete
  BY <1>1, <1>3 DEF ConnectAbandon, DisconnectDelete
<1>4. CASE EspReceives
  BY <1>1, <1>4, WsAssumption DEF EspReceives
<1>5. CASE UNCHANGED <<next, made, allocated>>
  BY <1>1, <1>5
<1>6. \/ ConnectStart \/ ConnectAbandon \/ DisconnectDelete \/ EspReceives
      \/ UNCHANGED <<next, made, allocated>>
  <2>1. CASE Wish \/ HasData
    BY <2>1 DEF Wish, HasData, ConnectInitFails, DisconnectCalled
  <2>2. CASE AppStep
    BY <2>2 DEF AppStep, ConnectAwait, ConnectCheck, ConnectMark, ConnectStop,
       DisconnectClose, DisconnectJoin, Look, Wait, CopyBegin, CopyByte, own, CopyEnd,
       ReadOn
  <2>3. CASE EspEvent \/ EspCloses
    BY <2>3 DEF EspEvent, EspCloses, EspConnects, EspFails, EspReports
  <2>4. CASE Handler
    BY <2>4 DEF Handler, HandleConnected, HandleDisconnected, HandleError,
       GiveConnectSem, HandleData, DataEnter, DataStore, DataEnd, DataSignal, DataStep
  <2> QED BY <2>1, <2>2, <2>3, <2>4 DEF Next
<1> QED BY <1>2, <1>3, <1>4, <1>5, <1>6

\* What the steps do to the ring buffer are its own steps.
LEMMA RingSteps ==
  ASSUME Inv, Next PROVE RingStep \/ UNCHANGED ring
<1>1. CASE ConnectStart \/ ConnectInitFails
  BY <1>1 DEF ConnectStart, ConnectInitFails, RingStep
<1>2. CASE HasData \/ Wait
  BY <1>2 DEF HasData, Wait, RingStep
<1>3. CASE CopyBegin
  <2>1. (IF app.op = "line" THEN 1 ELSE app.need) \in Nat
    BY DEF Inv, OwnTypeOK, AppRecord
  <2> QED BY <1>3, <2>1 DEF CopyBegin, RingStep
<1>4. CASE CopyByte \/ CopyEnd
  BY <1>4 DEF CopyByte, CopyEnd, RingStep
<1>5. CASE DataEnter
  <2>1. esp.frame \in Seq(Byte)
    BY DEF Inv, OwnTypeOK, EspRecord
  <2> QED BY <1>5, <2>1 DEF DataEnter, DataStep, RingStep
<1>6. CASE DataStore \/ DataEnd \/ DataSignal
  BY <1>6 DEF DataStore, DataEnd, DataSignal, DataStep, RingStep
<1>7. CASE Wish
  BY <1>1, <1>7 DEF Wish, DisconnectCalled
<1>8. CASE AppStep
  BY <1>2, <1>3, <1>4, <1>8 DEF AppStep, ConnectAwait, ConnectCheck, ConnectMark,
     ConnectStop, ConnectAbandon, DisconnectClose, DisconnectJoin, DisconnectDelete,
     Look, ReadOn
<1>9. CASE EspEvent \/ EspCloses
  BY <1>9 DEF EspEvent, EspCloses, EspConnects, EspFails, EspReceives, EspReports
<1>10. CASE Handler
  BY <1>5, <1>6, <1>10 DEF Handler, HandleConnected, HandleDisconnected, HandleError,
     GiveConnectSem, HandleData
<1> QED BY <1>2, <1>7, <1>8, <1>9, <1>10 DEF Next

-----------------------------------------------------------------------------
(* Who has the buffers, and who has answered: one lemma for each action    *)

LEMMA ConnectStartKeeps ==
  ASSUME Inv, ConnectStart PROVE Rest'
<1> USE WsAssumption DEF Inv, Rest, ApiRecord, EspRecord, AppRecord, ConnectStart,
    Construct, Reset, NewEsp
<1>1. Counted'
  BY DEF Counted, OwnTypeOK, RingTypeOK
<1>2. Owned'
  BY DEF Owned, OwnTypeOK, NULL, Reading, Connecting, Disconnecting, NewEsp
<1>3. Guarded'
  BY DEF Guarded, OwnTypeOK, DataEvents, NULL, Owned, NewEsp
<1>4. Signalled'
  BY DEF Signalled, OwnTypeOK, Answered, Owned, NewEsp
<1>5. BuffersSound'
  BY DEF BuffersSound, OwnTypeOK, Owned, NULL, Reading, Connecting, Disconnecting,
     Guarded, DataEvents, NewEsp
<1>6. ConnectHonest'
  BY DEF ConnectHonest, Signalled, Answered, OwnTypeOK, Owned, NewEsp
<1> QED BY <1>1, <1>2, <1>3, <1>4, <1>5, <1>6

LEMMA ConnectInitFailsKeeps ==
  ASSUME Inv, ConnectInitFails PROVE Rest'
<1> USE DEF Inv, Rest, ApiRecord, EspRecord, AppRecord, ConnectInitFails, Construct,
    Reset
<1>1. Counted'
  BY DEF Counted, OwnTypeOK, RingTypeOK
<1>2. Owned'
  BY DEF Owned, OwnTypeOK, NULL, Reading, Connecting, Disconnecting, NewEsp
<1>3. Guarded'
  BY DEF Guarded, OwnTypeOK, DataEvents, NULL, Owned, NewEsp, Connecting,
     Disconnecting
<1>4. Signalled'
  BY DEF Signalled, OwnTypeOK, Answered, Owned, NewEsp
<1>5. BuffersSound'
  BY DEF BuffersSound, OwnTypeOK, Owned, NULL, Reading, Connecting, Disconnecting,
     Guarded, DataEvents, NewEsp
<1>6. ConnectHonest'
  BY DEF ConnectHonest, Signalled, Answered, OwnTypeOK, Owned, NewEsp
<1> QED BY <1>1, <1>2, <1>3, <1>4, <1>5, <1>6

LEMMA ConnectAwaitKeeps ==
  ASSUME Inv, ConnectAwait PROVE Rest'
<1> USE DEF Inv, Rest, ApiRecord, EspRecord, AppRecord, Goto, GiveUp, ring,
    ConnectAwait
<1>1. Counted'
  BY DEF Counted, OwnTypeOK, RingTypeOK
<1>2. Owned'
  BY DEF Owned, OwnTypeOK, NULL, Reading, Connecting, Disconnecting, NewEsp
<1>3. Guarded'
  BY DEF Guarded, OwnTypeOK, DataEvents, NULL, Owned, NewEsp
<1>4. Signalled'
  BY DEF Signalled, OwnTypeOK, Answered, Owned, NewEsp
<1>5. BuffersSound'
  BY DEF BuffersSound, OwnTypeOK, Owned, NULL, Reading, Connecting, Disconnecting,
     Guarded, DataEvents, NewEsp
<1>6. ConnectHonest'
  BY DEF ConnectHonest, Signalled, Answered, OwnTypeOK, Owned, NewEsp
<1> QED BY <1>1, <1>2, <1>3, <1>4, <1>5, <1>6

LEMMA ConnectCheckKeeps ==
  ASSUME Inv, ConnectCheck PROVE Rest'
<1> USE DEF Inv, Rest, ApiRecord, EspRecord, AppRecord, Goto, GiveUp, ring,
    ConnectCheck
<1>1. Counted'
  BY DEF Counted, OwnTypeOK, RingTypeOK
<1>2. Owned'
  BY DEF Owned, OwnTypeOK, NULL, Reading, Connecting, Disconnecting, NewEsp
<1>3. Guarded'
  BY DEF Guarded, OwnTypeOK, DataEvents, NULL, Owned, NewEsp
<1>4. Signalled'
  BY DEF Signalled, OwnTypeOK, Answered, Owned, NewEsp
<1>5. BuffersSound'
  BY DEF BuffersSound, OwnTypeOK, Owned, NULL, Reading, Connecting, Disconnecting,
     Guarded, DataEvents, NewEsp
<1>6. ConnectHonest'
  BY DEF ConnectHonest, Signalled, Answered, OwnTypeOK, Owned, NewEsp
<1> QED BY <1>1, <1>2, <1>3, <1>4, <1>5, <1>6

LEMMA ConnectMarkKeeps ==
  ASSUME Inv, ConnectMark PROVE Rest'
<1> USE DEF Inv, Rest, ApiRecord, EspRecord, AppRecord, ring, ConnectMark
<1>1. Counted'
  BY DEF Counted, OwnTypeOK, RingTypeOK
<1>2. Owned'
  BY DEF Owned, OwnTypeOK, NULL, Reading, Connecting, Disconnecting, NewEsp
<1>3. Guarded'
  BY DEF Guarded, OwnTypeOK, DataEvents, NULL, Owned, NewEsp
<1>4. Signalled'
  BY DEF Signalled, OwnTypeOK, Answered, Owned, NewEsp
<1>5. BuffersSound'
  BY DEF BuffersSound, OwnTypeOK, Owned, NULL, Reading, Connecting, Disconnecting,
     Guarded, DataEvents, NewEsp
<1>6. ConnectHonest'
  BY DEF ConnectHonest, Signalled, Answered, OwnTypeOK, Owned, NewEsp
<1> QED BY <1>1, <1>2, <1>3, <1>4, <1>5, <1>6

LEMMA ConnectStopKeeps ==
  ASSUME Inv, ConnectStop PROVE Rest'
<1> USE DEF Inv, Rest, ApiRecord, EspRecord, AppRecord, Goto, ring, ConnectStop,
    Joined, NewEsp
<1>1. Counted'
  BY DEF Counted, OwnTypeOK, RingTypeOK
<1>2. Owned'
  BY DEF Owned, OwnTypeOK, NULL, Reading, Connecting, Disconnecting, NewEsp
<1>3. Guarded'
  BY DEF Guarded, OwnTypeOK, DataEvents, NULL, Owned, NewEsp
<1>4. Signalled'
  BY DEF Signalled, OwnTypeOK, Answered, Owned, NewEsp
<1>5. BuffersSound'
  BY DEF BuffersSound, OwnTypeOK, Owned, NULL, Reading, Connecting, Disconnecting,
     Guarded, DataEvents, NewEsp
<1>6. ConnectHonest'
  BY DEF ConnectHonest, Signalled, Answered, OwnTypeOK, Owned, NewEsp
<1> QED BY <1>1, <1>2, <1>3, <1>4, <1>5, <1>6

LEMMA ConnectAbandonKeeps ==
  ASSUME Inv, ConnectAbandon PROVE Rest'
<1> USE DEF Inv, Rest, ApiRecord, EspRecord, AppRecord, Goto, ring, ConnectAbandon
<1>1. Counted'
  BY DEF Counted, OwnTypeOK, RingTypeOK
<1>2. Owned'
  BY DEF Owned, OwnTypeOK, NULL, Reading, Connecting, Disconnecting, NewEsp
<1>3. Guarded'
  BY DEF Guarded, OwnTypeOK, DataEvents, NULL, Owned, NewEsp
<1>4. Signalled'
  BY DEF Signalled, OwnTypeOK, Answered, Owned, NewEsp
<1>5. BuffersSound'
  BY DEF BuffersSound, OwnTypeOK, Owned, NULL, Reading, Connecting, Disconnecting,
     Guarded, DataEvents, NewEsp
<1>6. ConnectHonest'
  BY DEF ConnectHonest, Signalled, Answered, OwnTypeOK, Owned, NewEsp
<1> QED BY <1>1, <1>2, <1>3, <1>4, <1>5, <1>6

LEMMA DisconnectCalledKeeps ==
  ASSUME Inv, DisconnectCalled PROVE Rest'
<1> USE DEF Inv, Rest, ApiRecord, EspRecord, AppRecord, ring, DisconnectCalled
<1>1. Counted'
  BY DEF Counted, OwnTypeOK, RingTypeOK
<1>2. Owned'
  BY DEF Owned, OwnTypeOK, NULL, Reading, Connecting, Disconnecting, NewEsp
<1>3. Guarded'
  BY DEF Guarded, OwnTypeOK, DataEvents, NULL, Owned, NewEsp
<1>4. Signalled'
  BY DEF Signalled, OwnTypeOK, Answered, Owned, NewEsp
<1>5. BuffersSound'
  BY DEF BuffersSound, OwnTypeOK, Owned, NULL, Reading, Connecting, Disconnecting,
     Guarded, DataEvents, NewEsp
<1>6. ConnectHonest'
  BY DEF ConnectHonest, Signalled, Answered, OwnTypeOK, Owned, NewEsp
<1> QED BY <1>1, <1>2, <1>3, <1>4, <1>5, <1>6

LEMMA DisconnectCloseKeeps ==
  ASSUME Inv, DisconnectClose PROVE Rest'
<1> USE DEF Inv, Rest, ApiRecord, EspRecord, AppRecord, ring, DisconnectClose
<1>1. Counted'
  BY DEF Counted, OwnTypeOK, RingTypeOK
<1>2. Owned'
  BY DEF Owned, OwnTypeOK, NULL, Reading, Connecting, Disconnecting, NewEsp
<1>3. Guarded'
  BY DEF Guarded, OwnTypeOK, DataEvents, NULL, Owned, NewEsp
<1>4. Signalled'
  BY DEF Signalled, OwnTypeOK, Answered, Owned, NewEsp
<1>5. BuffersSound'
  BY DEF BuffersSound, OwnTypeOK, Owned, NULL, Reading, Connecting, Disconnecting,
     Guarded, DataEvents, NewEsp
<1>6. ConnectHonest'
  BY DEF ConnectHonest, Signalled, Answered, OwnTypeOK, Owned, NewEsp
<1> QED BY <1>1, <1>2, <1>3, <1>4, <1>5, <1>6

LEMMA DisconnectJoinKeeps ==
  ASSUME Inv, DisconnectJoin PROVE Rest'
<1> USE DEF Inv, Rest, ApiRecord, EspRecord, AppRecord, Goto, ring, DisconnectJoin,
    Joined, NewEsp
<1>1. Counted'
  BY DEF Counted, OwnTypeOK, RingTypeOK
<1>2. Owned'
  BY DEF Owned, OwnTypeOK, NULL, Reading, Connecting, Disconnecting, NewEsp
<1>3. Guarded'
  BY DEF Guarded, OwnTypeOK, DataEvents, NULL, Owned, NewEsp
<1>4. Signalled'
  BY DEF Signalled, OwnTypeOK, Answered, Owned, NewEsp
<1>5. BuffersSound'
  BY DEF BuffersSound, OwnTypeOK, Owned, NULL, Reading, Connecting, Disconnecting,
     Guarded, DataEvents, NewEsp
<1>6. ConnectHonest'
  BY DEF ConnectHonest, Signalled, Answered, OwnTypeOK, Owned, NewEsp
<1> QED BY <1>1, <1>2, <1>3, <1>4, <1>5, <1>6

LEMMA DisconnectDeleteKeeps ==
  ASSUME Inv, DisconnectDelete PROVE Rest'
<1> USE DEF Inv, Rest, ApiRecord, EspRecord, AppRecord, ring, DisconnectDelete
<1>1. Counted'
  BY DEF Counted, OwnTypeOK, RingTypeOK
<1>2. Owned'
  BY DEF Owned, OwnTypeOK, NULL, Reading, Connecting, Disconnecting, NewEsp
<1>3. Guarded'
  BY DEF Guarded, OwnTypeOK, DataEvents, NULL, Owned, NewEsp
<1>4. Signalled'
  BY DEF Signalled, OwnTypeOK, Answered, Owned, NewEsp
<1>5. BuffersSound'
  BY DEF BuffersSound, OwnTypeOK, Owned, NULL, Reading, Connecting, Disconnecting,
     Guarded, DataEvents, NewEsp
<1>6. ConnectHonest'
  BY DEF ConnectHonest, Signalled, Answered, OwnTypeOK, Owned, NewEsp
<1> QED BY <1>1, <1>2, <1>3, <1>4, <1>5, <1>6

LEMMA HasDataKeeps ==
  ASSUME Inv, HasData PROVE Rest'
<1> USE DEF Inv, Rest, ApiRecord, EspRecord, AppRecord, ring, HasData, StartReading,
    Readable, IsConnected, TakeToken
<1>1. Counted'
  BY DEF Counted, OwnTypeOK, RingTypeOK
<1>2. Owned'
  BY DEF Owned, OwnTypeOK, NULL, Reading, Connecting, Disconnecting, NewEsp
<1>3. Guarded'
  BY DEF Guarded, OwnTypeOK, DataEvents, NULL, Owned, NewEsp
<1>4. Signalled'
  BY DEF Signalled, OwnTypeOK, Answered, Owned, NewEsp
<1>5. BuffersSound'
  BY DEF BuffersSound, OwnTypeOK, Owned, NULL, Reading, Connecting, Disconnecting,
     Guarded, DataEvents, NewEsp
<1>6. ConnectHonest'
  BY DEF ConnectHonest, Signalled, Answered, OwnTypeOK, Owned, NewEsp
<1> QED BY <1>1, <1>2, <1>3, <1>4, <1>5, <1>6

LEMMA LookKeeps ==
  ASSUME Inv, Look PROVE Rest'
<1> USE DEF Inv, Rest, ApiRecord, EspRecord, AppRecord, Goto, ring, Look
<1>1. Counted'
  BY DEF Counted, OwnTypeOK, RingTypeOK
<1>2. Owned'
  BY DEF Owned, OwnTypeOK, NULL, Reading, Connecting, Disconnecting, NewEsp
<1>3. Guarded'
  BY DEF Guarded, OwnTypeOK, DataEvents, NULL, Owned, NewEsp
<1>4. Signalled'
  BY DEF Signalled, OwnTypeOK, Answered, Owned, NewEsp
<1>5. BuffersSound'
  BY DEF BuffersSound, OwnTypeOK, Owned, NULL, Reading, Connecting, Disconnecting,
     Guarded, DataEvents, NewEsp
<1>6. ConnectHonest'
  BY DEF ConnectHonest, Signalled, Answered, OwnTypeOK, Owned, NewEsp
<1> QED BY <1>1, <1>2, <1>3, <1>4, <1>5, <1>6

LEMMA WaitKeeps ==
  ASSUME Inv, Wait PROVE Rest'
<1> USE DEF Inv, Rest, ApiRecord, EspRecord, AppRecord, Goto, ring, Wait, TakeToken
<1>1. Counted'
  BY DEF Counted, OwnTypeOK, RingTypeOK
<1>2. Owned'
  BY DEF Owned, OwnTypeOK, NULL, Reading, Connecting, Disconnecting, NewEsp
<1>3. Guarded'
  BY DEF Guarded, OwnTypeOK, DataEvents, NULL, Owned, NewEsp
<1>4. Signalled'
  BY DEF Signalled, OwnTypeOK, Answered, Owned, NewEsp
<1>5. BuffersSound'
  BY DEF BuffersSound, OwnTypeOK, Owned, NULL, Reading, Connecting, Disconnecting,
     Guarded, DataEvents, NewEsp
<1>6. ConnectHonest'
  BY DEF ConnectHonest, Signalled, Answered, OwnTypeOK, Owned, NewEsp
<1> QED BY <1>1, <1>2, <1>3, <1>4, <1>5, <1>6

LEMMA CopyBeginKeeps ==
  ASSUME Inv, CopyBegin PROVE Rest'
<1> USE DEF Inv, Rest, ApiRecord, EspRecord, AppRecord, Goto, CopyBegin, ReadBegin
<1>1. Counted'
  BY DEF Counted, OwnTypeOK, RingTypeOK
<1>2. Owned'
  BY DEF Owned, OwnTypeOK, NULL, Reading, Connecting, Disconnecting, NewEsp
<1>3. Guarded'
  BY DEF Guarded, OwnTypeOK, DataEvents, NULL, Owned, NewEsp
<1>4. Signalled'
  BY DEF Signalled, OwnTypeOK, Answered, Owned, NewEsp
<1>5. BuffersSound'
  BY DEF BuffersSound, OwnTypeOK, Owned, NULL, Reading, Connecting, Disconnecting,
     Guarded, DataEvents, NewEsp
<1>6. ConnectHonest'
  BY DEF ConnectHonest, Signalled, Answered, OwnTypeOK, Owned, NewEsp
<1> QED BY <1>1, <1>2, <1>3, <1>4, <1>5, <1>6

LEMMA CopyByteKeeps ==
  ASSUME Inv, CopyByte PROVE Rest'
<1> USE DEF Inv, Rest, ApiRecord, EspRecord, AppRecord, CopyByte, Copy, own
<1>1. Counted'
  BY DEF Counted, OwnTypeOK, RingTypeOK
<1>2. Owned'
  BY DEF Owned, OwnTypeOK, NULL, Reading, Connecting, Disconnecting, NewEsp
<1>3. Guarded'
  BY DEF Guarded, OwnTypeOK, DataEvents, NULL, Owned, NewEsp
<1>4. Signalled'
  BY DEF Signalled, OwnTypeOK, Answered, Owned, NewEsp
<1>5. BuffersSound'
  BY DEF BuffersSound, OwnTypeOK, Owned, NULL, Reading, Connecting, Disconnecting,
     Guarded, DataEvents, NewEsp
<1>6. ConnectHonest'
  BY DEF ConnectHonest, Signalled, Answered, OwnTypeOK, Owned, NewEsp
<1> QED BY <1>1, <1>2, <1>3, <1>4, <1>5, <1>6

LEMMA CopyEndKeeps ==
  ASSUME Inv, CopyEnd PROVE Rest'
<1> USE DEF Inv, Rest, ApiRecord, EspRecord, AppRecord, Goto, Continue, CopyEnd,
    ReadEnd, AfterCopy
<1>1. Counted'
  BY DEF Counted, OwnTypeOK, RingTypeOK
<1>2. Owned'
  BY DEF Owned, OwnTypeOK, NULL, Reading, Connecting, Disconnecting, NewEsp
<1>3. Guarded'
  BY DEF Guarded, OwnTypeOK, DataEvents, NULL, Owned, NewEsp
<1>4. Signalled'
  BY DEF Signalled, OwnTypeOK, Answered, Owned, NewEsp
<1>5. BuffersSound'
  BY DEF BuffersSound, OwnTypeOK, Owned, NULL, Reading, Connecting, Disconnecting,
     Guarded, DataEvents, NewEsp
<1>6. ConnectHonest'
  BY DEF ConnectHonest, Signalled, Answered, OwnTypeOK, Owned, NewEsp
<1> QED BY <1>1, <1>2, <1>3, <1>4, <1>5, <1>6

LEMMA ReadOnKeeps ==
  ASSUME Inv, ReadOn PROVE Rest'
<1> USE DEF Inv, Rest, ApiRecord, EspRecord, AppRecord, Goto, ring, ReadOn,
    StartReading, Readable, IsConnected
<1>1. Counted'
  BY DEF Counted, OwnTypeOK, RingTypeOK
<1>2. Owned'
  <2>1. api' = api /\ esp' = esp /\ app.pc = "got"
    OBVIOUS
  <2>2. /\ app'.up = app.up /\ app'.doomed = app.doomed
        /\ app'.pc = "idle" \/ (app'.pc = "look" /\ api.client)
    BY DEF OwnTypeOK
  <2>3. app.doomed = NULL
    BY <2>1 DEF Owned
  <2>4. ~app'.up => ~api.client
    BY <2>1, <2>2 DEF Owned, Connecting, Disconnecting
  <2> QED BY <2>1, <2>2, <2>3, <2>4 DEF Owned, Reading, Connecting
<1>3. Guarded'
  BY DEF Guarded, OwnTypeOK, DataEvents, NULL, Owned, NewEsp
<1>4. Signalled'
  BY DEF Signalled, OwnTypeOK, Answered, Owned, NewEsp
<1>5. BuffersSound'
  BY DEF BuffersSound, OwnTypeOK, Owned, NULL, Reading, Connecting, Disconnecting,
     Guarded, DataEvents, NewEsp
<1>6. ConnectHonest'
  BY DEF ConnectHonest, Signalled, Answered, OwnTypeOK, Owned, NewEsp
<1> QED BY <1>1, <1>2, <1>3, <1>4, <1>5, <1>6

LEMMA EspConnectsKeeps ==
  ASSUME Inv, EspConnects PROVE Rest'
<1> USE DEF Inv, Rest, ApiRecord, EspRecord, AppRecord, ring, EspConnects, EspReports
<1>1. Counted'
  BY DEF Counted, OwnTypeOK, RingTypeOK
<1>2. Owned'
  BY DEF Owned, OwnTypeOK, NULL, Reading, Connecting, Disconnecting, NewEsp
<1>3. Guarded'
  BY DEF Guarded, OwnTypeOK, DataEvents, NULL, Owned, NewEsp
<1>4. Signalled'
  BY DEF Signalled, OwnTypeOK, Answered, Owned, NewEsp
<1>5. BuffersSound'
  BY DEF BuffersSound, OwnTypeOK, Owned, NULL, Reading, Connecting, Disconnecting,
     Guarded, DataEvents, NewEsp
<1>6. ConnectHonest'
  BY DEF ConnectHonest, Signalled, Answered, OwnTypeOK, Owned, NewEsp
<1> QED BY <1>1, <1>2, <1>3, <1>4, <1>5, <1>6

LEMMA EspFailsKeeps ==
  ASSUME Inv, EspFails PROVE Rest'
<1> USE DEF Inv, Rest, ApiRecord, EspRecord, AppRecord, ring, EspFails, EspReports
<1>1. Counted'
  BY DEF Counted, OwnTypeOK, RingTypeOK
<1>2. Owned'
  BY DEF Owned, OwnTypeOK, NULL, Reading, Connecting, Disconnecting, NewEsp
<1>3. Guarded'
  BY DEF Guarded, OwnTypeOK, DataEvents, NULL, Owned, NewEsp
<1>4. Signalled'
  BY DEF Signalled, OwnTypeOK, Answered, Owned, NewEsp
<1>5. BuffersSound'
  BY DEF BuffersSound, OwnTypeOK, Owned, NULL, Reading, Connecting, Disconnecting,
     Guarded, DataEvents, NewEsp
<1>6. ConnectHonest'
  BY DEF ConnectHonest, Signalled, Answered, OwnTypeOK, Owned, NewEsp
<1> QED BY <1>1, <1>2, <1>3, <1>4, <1>5, <1>6

LEMMA EspClosesKeeps ==
  ASSUME Inv, EspCloses PROVE Rest'
<1> USE DEF Inv, Rest, ApiRecord, EspRecord, AppRecord, ring, EspCloses, EspReports
<1>1. Counted'
  BY DEF Counted, OwnTypeOK, RingTypeOK
<1>2. Owned'
  BY DEF Owned, OwnTypeOK, NULL, Reading, Connecting, Disconnecting, NewEsp
<1>3. Guarded'
  BY DEF Guarded, OwnTypeOK, DataEvents, NULL, Owned, NewEsp
<1>4. Signalled'
  BY DEF Signalled, OwnTypeOK, Answered, Owned, NewEsp
<1>5. BuffersSound'
  BY DEF BuffersSound, OwnTypeOK, Owned, NULL, Reading, Connecting, Disconnecting,
     Guarded, DataEvents, NewEsp
<1>6. ConnectHonest'
  BY DEF ConnectHonest, Signalled, Answered, OwnTypeOK, Owned, NewEsp
<1> QED BY <1>1, <1>2, <1>3, <1>4, <1>5, <1>6

LEMMA EspReceivesKeeps ==
  ASSUME Inv, EspReceives PROVE Rest'
<1> USE DEF Inv, Rest, ApiRecord, EspRecord, AppRecord, ring, EspReceives
<1>1. Counted'
  BY DEF Counted, OwnTypeOK, RingTypeOK
<1>2. Owned'
  BY DEF Owned, OwnTypeOK, NULL, Reading, Connecting, Disconnecting, NewEsp
<1>3. Guarded'
  BY DEF Guarded, OwnTypeOK, DataEvents, NULL, Owned, NewEsp
<1>4. Signalled'
  BY DEF Signalled, OwnTypeOK, Answered, Owned, NewEsp
<1>5. BuffersSound'
  BY DEF BuffersSound, OwnTypeOK, Owned, NULL, Reading, Connecting, Disconnecting,
     Guarded, DataEvents, NewEsp
<1>6. ConnectHonest'
  BY DEF ConnectHonest, Signalled, Answered, OwnTypeOK, Owned, NewEsp
<1> QED BY <1>1, <1>2, <1>3, <1>4, <1>5, <1>6

LEMMA HandleConnectedKeeps ==
  ASSUME Inv, HandleConnected PROVE Rest'
<1> USE DEF Inv, Rest, ApiRecord, EspRecord, AppRecord, Event, ring, HandleConnected
<1>1. Counted'
  BY DEF Counted, OwnTypeOK, RingTypeOK
<1>2. Owned'
  BY DEF Owned, OwnTypeOK, NULL, Reading, Connecting, Disconnecting, NewEsp
<1>3. Guarded'
  BY DEF Guarded, OwnTypeOK, DataEvents, NULL, Owned, NewEsp
<1>4. Signalled'
  BY DEF Signalled, OwnTypeOK, Answered, Owned, NewEsp
<1>5. BuffersSound'
  BY DEF BuffersSound, OwnTypeOK, Owned, NULL, Reading, Connecting, Disconnecting,
     Guarded, DataEvents, NewEsp
<1>6. ConnectHonest'
  BY DEF ConnectHonest, Signalled, Answered, OwnTypeOK, Owned, NewEsp
<1> QED BY <1>1, <1>2, <1>3, <1>4, <1>5, <1>6

LEMMA HandleDisconnectedKeeps ==
  ASSUME Inv, HandleDisconnected PROVE Rest'
<1> USE DEF Inv, Rest, ApiRecord, EspRecord, AppRecord, Event, ring,
    HandleDisconnected
<1>1. Counted'
  BY DEF Counted, OwnTypeOK, RingTypeOK
<1>2. Owned'
  BY DEF Owned, OwnTypeOK, NULL, Reading, Connecting, Disconnecting, NewEsp
<1>3. Guarded'
  BY DEF Guarded, OwnTypeOK, DataEvents, NULL, Owned, NewEsp
<1>4. Signalled'
  BY DEF Signalled, OwnTypeOK, Answered, Owned, NewEsp
<1>5. BuffersSound'
  BY DEF BuffersSound, OwnTypeOK, Owned, NULL, Reading, Connecting, Disconnecting,
     Guarded, DataEvents, NewEsp
<1>6. ConnectHonest'
  BY DEF ConnectHonest, Signalled, Answered, OwnTypeOK, Owned, NewEsp
<1> QED BY <1>1, <1>2, <1>3, <1>4, <1>5, <1>6

LEMMA HandleErrorKeeps ==
  ASSUME Inv, HandleError PROVE Rest'
<1> USE DEF Inv, Rest, ApiRecord, EspRecord, AppRecord, Event, ring, HandleError
<1>1. Counted'
  BY DEF Counted, OwnTypeOK, RingTypeOK
<1>2. Owned'
  BY DEF Owned, OwnTypeOK, NULL, Reading, Connecting, Disconnecting, NewEsp
<1>3. Guarded'
  BY DEF Guarded, OwnTypeOK, DataEvents, NULL, Owned, NewEsp
<1>4. Signalled'
  BY DEF Signalled, OwnTypeOK, Answered, Owned, NewEsp
<1>5. BuffersSound'
  BY DEF BuffersSound, OwnTypeOK, Owned, NULL, Reading, Connecting, Disconnecting,
     Guarded, DataEvents, NewEsp
<1>6. ConnectHonest'
  BY DEF ConnectHonest, Signalled, Answered, OwnTypeOK, Owned, NewEsp
<1> QED BY <1>1, <1>2, <1>3, <1>4, <1>5, <1>6

LEMMA GiveConnectSemKeeps ==
  ASSUME Inv, GiveConnectSem PROVE Rest'
<1> USE DEF Inv, Rest, ApiRecord, EspRecord, AppRecord, Event, ring, GiveConnectSem
<1>1. Counted'
  BY DEF Counted, OwnTypeOK, RingTypeOK
<1>2. Owned'
  BY DEF Owned, OwnTypeOK, NULL, Reading, Connecting, Disconnecting, NewEsp
<1>3. Guarded'
  BY DEF Guarded, OwnTypeOK, DataEvents, NULL, Owned, NewEsp
<1>4. Signalled'
  BY DEF Signalled, OwnTypeOK, Answered, Owned, NewEsp
<1>5. BuffersSound'
  BY DEF BuffersSound, OwnTypeOK, Owned, NULL, Reading, Connecting, Disconnecting,
     Guarded, DataEvents, NewEsp
<1>6. ConnectHonest'
  BY DEF ConnectHonest, Signalled, Answered, OwnTypeOK, Owned, NewEsp
<1> QED BY <1>1, <1>2, <1>3, <1>4, <1>5, <1>6

LEMMA HandleDataKeeps ==
  ASSUME Inv, HandleData PROVE Rest'
<1> USE DEF Inv, Rest, ApiRecord, EspRecord, AppRecord, Event, ring, HandleData
<1>1. Counted'
  BY DEF Counted, OwnTypeOK, RingTypeOK
<1>2. Owned'
  BY DEF Owned, OwnTypeOK, NULL, Reading, Connecting, Disconnecting, NewEsp
<1>3. Guarded'
  BY DEF Guarded, OwnTypeOK, DataEvents, NULL, Owned, NewEsp
<1>4. Signalled'
  BY DEF Signalled, OwnTypeOK, Answered, Owned, NewEsp
<1>5. BuffersSound'
  BY DEF BuffersSound, OwnTypeOK, Owned, NULL, Reading, Connecting, Disconnecting,
     Guarded, DataEvents, NewEsp
<1>6. ConnectHonest'
  BY DEF ConnectHonest, Signalled, Answered, OwnTypeOK, Owned, NewEsp
<1> QED BY <1>1, <1>2, <1>3, <1>4, <1>5, <1>6

LEMMA DataEnterKeeps ==
  ASSUME Inv, DataEnter PROVE Rest'
<1> USE DEF Inv, Rest, ApiRecord, EspRecord, AppRecord, Event, DataEnter, DataStep,
    WriteBegin
<1>1. Counted'
  BY DEF Counted, OwnTypeOK, RingTypeOK
<1>2. Owned'
  BY DEF Owned, OwnTypeOK, NULL, Reading, Connecting, Disconnecting, NewEsp
<1>3. Guarded'
  BY DEF Guarded, OwnTypeOK, DataEvents, NULL, Owned, NewEsp
<1>4. Signalled'
  BY DEF Signalled, OwnTypeOK, Answered, Owned, NewEsp
<1>5. BuffersSound'
  BY DEF BuffersSound, OwnTypeOK, Owned, NULL, Reading, Connecting, Disconnecting,
     Guarded, DataEvents, NewEsp
<1>6. ConnectHonest'
  BY DEF ConnectHonest, Signalled, Answered, OwnTypeOK, Owned, NewEsp
<1> QED BY <1>1, <1>2, <1>3, <1>4, <1>5, <1>6

LEMMA DataStoreKeeps ==
  ASSUME Inv, DataStore PROVE Rest'
<1> USE DEF Inv, Rest, ApiRecord, EspRecord, AppRecord, Event, DataStore, DataStep,
    DropOldest, Store
<1>1. Counted'
  BY DEF Counted, OwnTypeOK, RingTypeOK
<1>2. Owned'
  BY DEF Owned, OwnTypeOK, NULL, Reading, Connecting, Disconnecting, NewEsp
<1>3. Guarded'
  BY DEF Guarded, OwnTypeOK, DataEvents, NULL, Owned, NewEsp
<1>4. Signalled'
  BY DEF Signalled, OwnTypeOK, Answered, Owned, NewEsp
<1>5. BuffersSound'
  BY DEF BuffersSound, OwnTypeOK, Owned, NULL, Reading, Connecting, Disconnecting,
     Guarded, DataEvents, NewEsp
<1>6. ConnectHonest'
  BY DEF ConnectHonest, Signalled, Answered, OwnTypeOK, Owned, NewEsp
<1> QED BY <1>1, <1>2, <1>3, <1>4, <1>5, <1>6

LEMMA DataEndKeeps ==
  ASSUME Inv, DataEnd PROVE Rest'
<1> USE DEF Inv, Rest, ApiRecord, EspRecord, AppRecord, Event, DataEnd, DataStep,
    WriteEnd
<1>1. Counted'
  BY DEF Counted, OwnTypeOK, RingTypeOK
<1>2. Owned'
  BY DEF Owned, OwnTypeOK, NULL, Reading, Connecting, Disconnecting, NewEsp
<1>3. Guarded'
  BY DEF Guarded, OwnTypeOK, DataEvents, NULL, Owned, NewEsp
<1>4. Signalled'
  BY DEF Signalled, OwnTypeOK, Answered, Owned, NewEsp
<1>5. BuffersSound'
  BY DEF BuffersSound, OwnTypeOK, Owned, NULL, Reading, Connecting, Disconnecting,
     Guarded, DataEvents, NewEsp
<1>6. ConnectHonest'
  BY DEF ConnectHonest, Signalled, Answered, OwnTypeOK, Owned, NewEsp
<1> QED BY <1>1, <1>2, <1>3, <1>4, <1>5, <1>6

LEMMA DataSignalKeeps ==
  ASSUME Inv, DataSignal PROVE Rest'
<1> USE DEF Inv, Rest, ApiRecord, EspRecord, AppRecord, Event, DataSignal, DataStep,
    Signal
<1>1. Counted'
  BY DEF Counted, OwnTypeOK, RingTypeOK
<1>2. Owned'
  BY DEF Owned, OwnTypeOK, NULL, Reading, Connecting, Disconnecting, NewEsp
<1>3. Guarded'
  BY DEF Guarded, OwnTypeOK, DataEvents, NULL, Owned, NewEsp
<1>4. Signalled'
  BY DEF Signalled, OwnTypeOK, Answered, Owned, NewEsp
<1>5. BuffersSound'
  BY DEF BuffersSound, OwnTypeOK, Owned, NULL, Reading, Connecting, Disconnecting,
     Guarded, DataEvents, NewEsp
<1>6. ConnectHonest'
  BY DEF ConnectHonest, Signalled, Answered, OwnTypeOK, Owned, NewEsp
<1> QED BY <1>1, <1>2, <1>3, <1>4, <1>5, <1>6

-----------------------------------------------------------------------------
(* The theorems                                                            *)

LEMMA InitInv == Init => Inv
<1> SUFFICES ASSUME Init PROVE Inv
  OBVIOUS
<1>1. 0 \in Index /\ <<>> \in Seq(Byte) /\ <<>> \in Seq(Byte \cup {0})
  BY CapacityAssumption, EmptySeq DEF Index
<1>2. RingTypeOK
  BY <1>1 DEF Init, RingTypeOK
<1>3. api \in ApiRecord /\ smutex \in {"free", "ws"}
  BY WsAssumption DEF Init, ApiRecord, NULL
<1>4. esp \in EspRecord
  BY <1>1 DEF Init, EspRecord, NewEsp, Phases, Events
<1>5. app \in AppRecord
  BY WsAssumption DEF Init, AppRecord, Idle, Pcs, NULL
<1>6. next \in 1 .. Bytes + 1 /\ made \in 0 .. Connects /\ allocated \subseteq 1 .. made
  BY WsAssumption DEF Init
<1>7. Rest
  BY DEF Init, Rest, Counted, Owned, Guarded, Signalled, Answered, BuffersSound,
     ConnectHonest, Idle, NewEsp, NULL, Reading, Connecting, Disconnecting, DataEvents
<1> QED BY <1>2, <1>3, <1>4, <1>5, <1>6, <1>7 DEF Inv, OwnTypeOK

LEMMA RestNext ==
  ASSUME Inv, Next PROVE Rest'
<1>1. CASE ConnectStart
  BY <1>1, ConnectStartKeeps
<1>2. CASE ConnectInitFails
  BY <1>2, ConnectInitFailsKeeps
<1>3. CASE ConnectAwait
  BY <1>3, ConnectAwaitKeeps
<1>4. CASE ConnectCheck
  BY <1>4, ConnectCheckKeeps
<1>5. CASE ConnectMark
  BY <1>5, ConnectMarkKeeps
<1>6. CASE ConnectStop
  BY <1>6, ConnectStopKeeps
<1>7. CASE ConnectAbandon
  BY <1>7, ConnectAbandonKeeps
<1>8. CASE DisconnectCalled
  BY <1>8, DisconnectCalledKeeps
<1>9. CASE DisconnectClose
  BY <1>9, DisconnectCloseKeeps
<1>10. CASE DisconnectJoin
  BY <1>10, DisconnectJoinKeeps
<1>11. CASE DisconnectDelete
  BY <1>11, DisconnectDeleteKeeps
<1>12. CASE HasData
  BY <1>12, HasDataKeeps
<1>13. CASE Look
  BY <1>13, LookKeeps
<1>14. CASE Wait
  BY <1>14, WaitKeeps
<1>15. CASE CopyBegin
  BY <1>15, CopyBeginKeeps
<1>16. CASE CopyByte
  BY <1>16, CopyByteKeeps
<1>17. CASE CopyEnd
  BY <1>17, CopyEndKeeps
<1>18. CASE ReadOn
  BY <1>18, ReadOnKeeps
<1>19. CASE EspConnects
  BY <1>19, EspConnectsKeeps
<1>20. CASE EspFails
  BY <1>20, EspFailsKeeps
<1>21. CASE EspCloses
  BY <1>21, EspClosesKeeps
<1>22. CASE EspReceives
  BY <1>22, EspReceivesKeeps
<1>23. CASE HandleConnected
  BY <1>23, HandleConnectedKeeps
<1>24. CASE HandleDisconnected
  BY <1>24, HandleDisconnectedKeeps
<1>25. CASE HandleError
  BY <1>25, HandleErrorKeeps
<1>26. CASE GiveConnectSem
  BY <1>26, GiveConnectSemKeeps
<1>27. CASE HandleData
  BY <1>27, HandleDataKeeps
<1>28. CASE DataEnter
  BY <1>28, DataEnterKeeps
<1>29. CASE DataStore
  BY <1>29, DataStoreKeeps
<1>30. CASE DataEnd
  BY <1>30, DataEndKeeps
<1>31. CASE DataSignal
  BY <1>31, DataSignalKeeps
<1> QED
  BY <1>1, <1>2, <1>3, <1>4, <1>5, <1>6, <1>7, <1>8, <1>9, <1>10, <1>11, <1>12,
     <1>13, <1>14, <1>15, <1>16, <1>17, <1>18, <1>19, <1>20, <1>21, <1>22,
     <1>23, <1>24, <1>25, <1>26, <1>27, <1>28, <1>29, <1>30, <1>31
  DEF Next, Wish, AppStep, EspEvent, Handler

LEMMA NextInv == Inv /\ [Next]_vars => Inv'
<1> SUFFICES ASSUME Inv, [Next]_vars PROVE Inv'
  OBVIOUS
<1>1. CASE Next
  <2>1. RingTypeOK'
    <3>1. CASE RingStep
      BY <3>1, RingTypes DEF Inv
    <3>2. CASE UNCHANGED ring
      BY <3>2 DEF Inv, RingTypeOK, ring
    <3> QED BY <1>1, <3>1, <3>2, RingSteps
  <2>2. OwnTypeOK'
    BY <1>1, AppTypes, EspTypes, ApiTypes, BufferTypes DEF OwnTypeOK
  <2> QED BY <1>1, <2>1, <2>2, RestNext DEF Inv
<1>2. CASE UNCHANGED vars
  BY <1>2 DEF vars, own, ring, Inv, RingTypeOK, OwnTypeOK, Rest, Counted, Owned, Guarded,
     Signalled, Answered, BuffersSound, ConnectHonest
<1> QED BY <1>1, <1>2

\* The inductive invariant of the bridge holds in every run.
THEOREM Invariance == Spec => []Inv
BY InitInv, NextInv, PTL DEF Spec

\* The indices of the ring buffer stay in it, and its state and the members of
\* the transport keep their types, for every capacity.
THEOREM TypeCorrect == Spec => []TypeOK
<1>1. Inv => TypeOK
  BY TypeParts DEF Inv
<1> QED BY <1>1, Invariance, PTL

\* Neither the event handler nor a read function ever uses a ring buffer that
\* disconnect() has taken away, and every ring buffer is deleted by someone.
THEOREM BuffersAlwaysSound == Spec => []BuffersSound
<1>1. Inv => BuffersSound
  BY DEF Inv, Rest
<1> QED BY <1>1, Invariance, PTL

\* connect() takes only its own client's answer for an answer.
THEOREM ConnectAlwaysHonest == Spec => []ConnectHonest
<1>1. Inv => ConnectHonest
  BY DEF Inv, Rest
<1> QED BY <1>1, Invariance, PTL

\* The transport's buffer implements the queue that loses only the oldest
\* bytes, and only when it is full, for every capacity and any interleaving.
THEOREM ImplementsFifo == Spec => FifoSpec
<1>1. Init => Fifo!Empty
  <2> SUFFICES ASSUME Init PROVE Contents = <<>> /\ read = <<>>
    BY DEF Fifo!Empty
  <2>1. head = 0 /\ tail = 0 /\ read = <<>>
    BY DEF Init
  <2> QED BY <2>1, ContentsStored, EmptyFacts
<1>2. Inv /\ [Next]_vars => [Fifo!Step]_(Fifo!fifo)
  <2> SUFFICES ASSUME Inv, [Next]_vars PROVE [Fifo!Step]_(Fifo!fifo)
    OBVIOUS
  <2>1. RingTypeOK
    BY DEF Inv
  <2>2. CASE RingStep
    BY <2>1, <2>2, RingImplements
  <2>3. CASE UNCHANGED ring
    <3>1. UNCHANGED <<slots, head, tail, read>>
      BY <2>3 DEF ring
    <3> QED BY <3>1, RingStutters DEF Fifo!fifo
  <2>4. RingStep \/ UNCHANGED ring
    <3>1. CASE Next
      BY <3>1, RingSteps
    <3>2. CASE UNCHANGED vars
      BY <3>2 DEF vars
    <3> QED BY <3>1, <3>2
  <2> QED BY <2>2, <2>3, <2>4
<1> QED BY <1>1, <1>2, Invariance, PTL DEF Spec, FifoSpec, Fifo!FifoSpec
=============================================================================
