----------------------------- MODULE MCInterface ------------------------------
(* The details of an entry of host 1 scroll in the first tab, all others fit;  *)
(* the child writes two lines.                                                 *)
EXTENDS Interface

Limits == [p \in Hosts \X (0 .. NumTabs - 1) |-> IF p = <<1, 0>> THEN 2 ELSE 0]
AllTexts == Texts
LogSizes == [t \in LogTabs |-> IF t = "process" THEN 2 ELSE 0]
=============================================================================
