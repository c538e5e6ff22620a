---------------------------- MODULE MCWsTransport ---------------------------
(* A ring buffer that holds two bytes of the six a server sends.           *)
EXTENDS WsTransport

MCByte == 1 .. Bytes
=============================================================================
