------------------------------- MODULE Controls -------------------------------
(* The controls of a dialog: text and check marks, which the user changes    *)
(* through the events pump_sdl_events handles and the program through the    *)
(* message functions of user32. All of it is one host thread; a handler or   *)
(* an event is one step. (Windows has the queue, the dialogs and the buttons *)
(* that post WM_COMMAND.)                                                    *)
EXTENDS Naturals, Sequences

CONSTANTS
    Edit, Box,         \* the controls: edit, check box
    Character,
    MaxTitle,          \* bound: characters of a text
    MaxClicks,         \* bound: clicks on a check box
    Lengths            \* nMaxCount of the calls that read a text

ASSUME ControlsAssumption ==
    /\ Edit \cap Box = {}
    /\ MaxTitle \in Nat /\ MaxClicks \in Nat /\ Lengths \subseteq Nat

VARIABLES
    tracked,    \* the controls wm._windows has; wm.children keeps them all
    title, check_state,
    typing,     \* _focused_hwnd, or NoControl
    clicks,     \* clicks on a box, after as many as its mark when the program last set it
    read        \* the text the program has just read: [of, length, text], or NothingRead

controlVars == <<tracked, title, check_state, typing, clicks, read>>

Control == Edit \cup Box
NoControl == "none"
NothingRead == [of |-> NoControl, length |-> 0, text |-> <<>>]
BST_CHECKED == 1
Titles == UNION {[1 .. n -> Character] : n \in 0 .. MaxTitle}
Admin == <<"a", "d", "m", "i", "n">>

ControlsInit ==
    /\ tracked = Control /\ typing = NoControl /\ read = NothingRead
    /\ title = [c \in Control |-> <<>>] /\ check_state = [c \in Control |-> 0]
    /\ clicks = [c \in Control |-> 0]

(* check_state ^= 1 *)
Toggled(state) == IF state % 2 = 0 THEN state + 1 ELSE state - 1

(* _handle_mouse_click, and click_control, on a control that is there.       *)
Click(c) ==
    /\ c \in tracked /\ (c \in Box => clicks[c] < MaxClicks)
    /\ typing' = IF c \in Edit THEN c ELSE typing
    /\ check_state' = IF c \in Box THEN [check_state EXCEPT ![c] = Toggled(@)] ELSE check_state
    /\ clicks' = IF c \in Box THEN [clicks EXCEPT ![c] = @ + 1] ELSE clicks
    /\ read' = NothingRead /\ UNCHANGED <<tracked, title>>

(* SDL_TEXTINPUT, Backspace and Delete: the text of the control that has the  *)
(* focus, whatever its class.                                                *)
Edited(t) ==
    /\ typing # NoControl
    /\ title' = [title EXCEPT ![typing] = t]
    /\ read' = NothingRead /\ UNCHANGED <<tracked, check_state, typing, clicks>>

TypeCharacter(ch) == typing # NoControl /\ Len(title[typing]) < MaxTitle /\ Edited(Append(title[typing], ch))
Backspace == typing # NoControl /\ title[typing] # <<>> /\ Edited(SubSeq(title[typing], 1, Len(title[typing]) - 1))
Delete == typing # NoControl /\ Edited(<<>>)

(* SetDlgItemTextA, SetDlgItemInt, WM_SETTEXT: a control that was destroyed   *)
(* still has its id in the dialog, and nothing is set.                       *)
SetDlgItemText(c, t) ==
    /\ title' = IF c \in tracked THEN [title EXCEPT ![c] = t] ELSE title
    /\ read' = NothingRead /\ UNCHANGED <<tracked, check_state, typing, clicks>>

(* CheckDlgButton, BM_SETCHECK *)
CheckDlgButton(c, state) ==
    /\ c \in tracked
    /\ check_state' = [check_state EXCEPT ![c] = state]
    /\ clicks' = [clicks EXCEPT ![c] = state]
    /\ read' = NothingRead /\ UNCHANGED <<tracked, title, typing>>

Cut(text, n) == IF n = 0 THEN <<>> ELSE SubSeq(text, 1, IF Len(text) < n THEN Len(text) ELSE n - 1)

GetWindowText(c) == IF c \in tracked THEN title[c] ELSE <<>>

(* GetDlgItemTextA, GetWindowTextA *)
GetDlgItemText(c, n) ==
    /\ read' = [of |-> c, length |-> n,
                text |-> Cut(IF GetWindowText(c) = <<>> THEN Admin ELSE GetWindowText(c), n)]
    /\ UNCHANGED <<tracked, title, check_state, typing, clicks>>

(* WM_GETTEXT *)
GetTextMessage(c, n) ==
    /\ read' = [of |-> c, length |-> n, text |-> Cut(GetWindowText(c), n)]
    /\ UNCHANGED <<tracked, title, check_state, typing, clicks>>

FocusControl(c) ==
    /\ c \in tracked /\ typing' = c
    /\ read' = NothingRead /\ UNCHANGED <<tracked, title, check_state, clicks>>

(* destroy_window of one control *)
DestroyControl(c) ==
    /\ c \in tracked /\ tracked' = tracked \ {c}
    /\ typing' = IF typing = c THEN NoControl ELSE typing
    /\ read' = NothingRead /\ UNCHANGED <<title, check_state, clicks>>

ControlsNext ==
    \/ \E c \in Control :
         \/ Click(c) \/ FocusControl(c) \/ DestroyControl(c)
         \/ \E t \in Titles : SetDlgItemText(c, t)
         \/ \E n \in Lengths : GetDlgItemText(c, n) \/ GetTextMessage(c, n)
    \/ \E b \in Box, state \in {0, BST_CHECKED} : CheckDlgButton(b, state)
    \/ \E ch \in Character : TypeCharacter(ch)
    \/ Backspace \/ Delete

-----------------------------------------------------------------------------
(* A click on a check box is one turn of it, whatever is typed, set, read or  *)
(* destroyed in between: a program that reads the mark has missed no click.   *)
EveryClickCounts == \A b \in Box : check_state[b] = clicks[b] % 2

(* A text the program has just read is that of the control it named, cut to  *)
(* its buffer, by whichever function and whatever has the focus. (A text that *)
(* is empty, or a control that is gone, reads as "admin".)                   *)
ReadsItsText ==
    read.of \in tracked /\ title[read.of] # <<>> => read.text = Cut(title[read.of], read.length)
=============================================================================
