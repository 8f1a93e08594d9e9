----------------------------- MODULE MCConsole -----------------------------
(* A screen of two rows of four columns; a key echoes one or two          *)
(* characters, a control character among them.  Traces: names of files     *)
(* that are padded and one that is too long to be padded; a cursor on the  *)
(* screen near its right edge.                                             *)
EXTENDS Scrn

MCText == {"a", "nl", "tab", "cr"}
MCPrintable == {"a", "k", " "}
MCEchoes == {<<"k">>, <<"nl">>, <<"back">>, <<"k", "tab">>}
MCNames == {10, 25}
=============================================================================
