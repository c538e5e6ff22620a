---------------------------- MODULE MCOutbound ----------------------------
(* Small instances of Outbound for TLC. *)
EXTENDS Outbound

CONSTANTS main, other

OneTask == {{main}}
TwoTasks == {{main, other}}

TextOnly == <<"text", "text">>
Mixed == <<"text", "headers">>
MixedBinary == <<"text", "binary", "text">>
ThreeAndBinary == <<"text", "text", "binary", "text">>
=============================================================================
