----------------------------- MODULE MCWindows -----------------------------
(* A dialog with the button Enter stands for and an edit control.           *)
EXTENDS Windows

MCTemplate == <<[id |-> 1, class |-> "button"], [id |-> 5, class |-> "edit"]>>
=============================================================================
