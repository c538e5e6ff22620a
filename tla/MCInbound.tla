----------------------------- MODULE MCInbound ------------------------------
(* A payload that is empty, one that spells a control line, and one that is   *)
(* too long both for a payload and for a line; for the headers with a reply   *)
(* an empty line is enough.  What is spelt is a message of one line, a PING   *)
(* or an error.                                                               *)
EXTENDS Inbound

MCBody == {<<>>, <<"text">>, <<"chr", "chr">>}
MCEmptyLine == {<<"nl">>}
MCSpelt ==
  {f \in Frame : /\ f.kind \in {"MSG", "PING", "-ERR"}
                 /\ f.kind = "MSG" => ~f.reply /\ Len(f.body) = 1}
=============================================================================
