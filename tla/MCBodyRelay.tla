----------------------------- MODULE MCBodyRelay -----------------------------
(* Bodies through a buffer of two bytes, captures of nothing, a part and all;  *)
(* known lengths shorter and longer than what is sent. The messages: one       *)
(* without chunks and with a character of two bytes in its extension, one      *)
(* chunk with a line feed in its data, one with an extension that is not text, *)
(* and two chunks with bare line feeds and an extension whose data looks like  *)
(* a size: fourteen bytes, all of which may be sent and captured.              *)
EXTENDS Preview

MCLengths == {0, 2, 4}
MCMaxima == {0, 7, 20}
MCMessages ==
  {[chunks |-> <<>>, eol |-> <<CR, LF>>, extension |-> <<Semicolon, 195, 169>>],
   [chunks |-> <<<<120, LF>>>>, eol |-> <<CR, LF>>, extension |-> <<>>],
   [chunks |-> <<<<120>>>>, eol |-> <<LF>>, extension |-> <<Semicolon, 195>>],
   [chunks |-> <<<<Digit(1)>>, <<120>>>>, eol |-> <<LF>>, extension |-> <<Semicolon>>]}
=============================================================================
