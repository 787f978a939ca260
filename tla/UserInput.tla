------------------------------ MODULE UserInput ------------------------------
(* What the user does: with the mouse, of which DirectInput tells the guest, *)
(* and with the controls of a dialog. One event of the host goes to both, by *)
(* the handlers that pump_sdl_events calls one after the other.              *)
EXTENDS Input, Controls

UserInit == InputInit /\ ControlsInit

UserNext ==
    \/ InputNext /\ UNCHANGED controlVars
    \/ ControlsNext /\ UNCHANGED inputVars

UserSpec == UserInit /\ [][UserNext]_<<inputVars, controlVars>>

-----------------------------------------------------------------------------
(* What the user does is counted once and read as it was entered: the motion *)
(* and the buttons of the mouse in what DirectInput hands out, a click in the *)
(* mark of a check box, a text from the control it was typed in.             *)
InputIsCounted == InputAddsUp /\ EveryClickCounts /\ ReadsItsText
=============================================================================
