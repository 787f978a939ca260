------------------------------- MODULE Windows -------------------------------
(***************************************************************************)
(* WindowManager (tew/api/window_manager.py) and the message functions of  *)
(* tew/api/user32_handlers.py: the one message queue of the process, those *)
(* who post to it (the guest, SDL, the network), the loops that empty it,  *)
(* and the guest procedures the messages end in.                           *)
(*                                                                         *)
(* One guest thread uses windows, as the manager expects.  `stack` is its  *)
(* stack of activations, some of guest code and some of Python: the main   *)
(* program, window procedures entered by DispatchMessage (guest code that  *)
(* returns by itself), the loop of DialogBox (Python), and the calls of    *)
(* dialog procedures and hooks that Python makes and waits for, which have *)
(* a budget of steps and are abandoned when it is used up.                 *)
(***************************************************************************)
EXTENDS Integers, Sequences, SequencesExt, FiniteSets, Selection

CONSTANTS
    Template,    \* the controls of a dialog template: a sequence of [id, class]
    MaxHwnd,     \* bound on window handles
    MaxActs,     \* bound on messages posted and hooks installed, together
    MaxEvents,   \* bound on the SDL events one pump finds
    MaxDepth     \* bound on activations

Classes == {"window", "dialog", "button", "edit"}

ASSUME TemplateAssumption ==
    /\ Template \in Seq([id : Nat, class : Classes \ {"window", "dialog"}])
    /\ \A i, j \in DOMAIN Template : Template[i].id = Template[j].id => i = j
ASSUME BoundsAssumption ==
    /\ MaxHwnd \in Nat /\ MaxActs \in Nat
    /\ MaxEvents \in Nat /\ MaxDepth \in Nat \ {0}

VARIABLES
    windows,    \* _windows: the live windows by handle
    nextHwnd,   \* _next_hwnd
    sdl,        \* the windows _sdl_window_id_to_hwnd maps an SDL window to
    queue,      \* _message_queue
    posted,     \* messages posted so far
    focus,      \* _focused_hwnd
    stack,      \* activations, innermost last
    pending,    \* pending_dispatch of the thread
    hooks,      \* _winhook_chains
    nextHook,   \* _next_hhook
    phase       \* "running", "fatal" (fatal_halt), or "astray"

vars == <<windows, nextHwnd, sdl, queue, posted, focus, stack, pending, hooks,
          nextHook, phase>>

HookKinds == {"get", "key"}   \* WH_GETMESSAGE, WH_KEYBOARD

(* A message carries the number of its posting.                            *)
Messages == [hwnd : 1 .. MaxHwnd, msg : {"INIT", "COMMAND", "KEY", "OTHER"},
             n : 1 .. MaxActs]
NoMessage == [hwnd |-> 0, msg |-> "NONE", n |-> 0]

(***************************************************************************)
(* An activation: `of` is the window or hook it is for; `held` the message *)
(* in the MSG structure of its guest code; `via`, for a hook, the chain    *)
(* that called it first or "next" for CallNextHookEx.                      *)
(***************************************************************************)
Activation ==
    [kind : {"main", "dispatch", "modal", "proc", "init", "hook"}, of : Nat,
     held : Messages \union {NoMessage}, via : {"none", "get", "key", "next"}]

Entry(kind, of, via) == [kind |-> kind, of |-> of, held |-> NoMessage, via |-> via]

\* WindowEntry, with what the message functions read of it.
WindowEntry ==
    [class : Classes, parent : 0 .. MaxHwnd, proc : BOOLEAN,
     controls : Seq(1 .. MaxHwnd), done : BOOLEAN]

Live == DOMAIN windows

Top == stack[Len(stack)]

TypeOK ==
    /\ Live \subseteq 1 .. nextHwnd - 1
    /\ \A h \in Live : windows[h] \in WindowEntry
    /\ nextHwnd \in 1 .. MaxHwnd + 1
    /\ sdl \subseteq 1 .. MaxHwnd
    /\ queue \in Seq(Messages)
    /\ posted \in 0 .. MaxActs
    /\ focus \in 0 .. MaxHwnd
    /\ stack \in Seq(Activation) /\ stack # << >>
    /\ pending \in Seq([depth : Nat, hwnd : 1 .. MaxHwnd])
    /\ hooks \in [HookKinds -> Seq(1 .. MaxActs)]
    /\ nextHook \in 1 .. MaxActs + 1
    /\ phase \in {"running", "fatal", "astray"}

Init ==
    /\ windows = << >>
    /\ nextHwnd = 1
    /\ sdl = {}
    /\ queue = << >>
    /\ posted = 0
    /\ focus = 0
    /\ stack = <<Entry("main", 0, "none")>>
    /\ pending = << >>
    /\ hooks = [k \in HookKinds |-> << >>]
    /\ nextHook = 1
    /\ phase = "running"

(* Guest code runs: the innermost activation is not Python's dialog loop.  *)
Guest == phase = "running" /\ Top.kind # "modal"

(* The bound on messages and hooks. *)
Within(messages, hook) == messages + hook - 1 <= MaxActs

(* An activation begins. *)
Enter(s, a) == Len(s) < MaxDepth /\ stack' = Append(s, a)

-----------------------------------------------------------------------------
(* Posting.  An inbox is what a pump of SDL events changes.                *)

Inbox == [queue |-> queue, posted |-> posted, focus |-> focus]

\* _message_queue.append
Queued(in, h, msg) ==
    [in EXCEPT !.queue = Append(@, [hwnd |-> h, msg |-> msg, n |-> in.posted + 1]),
               !.posted = @ + 1]

Receive(in) ==
    /\ Within(in.posted, nextHook)
    /\ queue' = in.queue
    /\ posted' = in.posted
    /\ focus' = in.focus

Parent(h) == IF h \in Live THEN windows[h].parent ELSE 0

\* Live controls of a dialog, in the order of its template.
Controls(h) ==
    IF h \in Live THEN Kept(windows[h].controls, Live) ELSE << >>

\* Close button, motion, button up: one message to the window concerned.
Pointed(in, on) == IF on \in sdl THEN Queued(in, on, "OTHER") ELSE in

\* Focus gained or lost: WM_SETFOCUS or WM_KILLFOCUS, and WM_ACTIVATE.
FocusChanged(in, on) == Pointed(Pointed(in, on), on)

\* Button down: WM_LBUTTONDOWN, then a button that is hit sends WM_COMMAND to
\* its dialog and an edit control gets the focus.
Pressed(in, on, hit) ==
    LET down == Pointed(in, on)
    IN  IF on \notin sdl \/ hit = 0 THEN down
        ELSE CASE windows[hit].class = "button" -> Queued(down, on, "COMMAND")
               [] windows[hit].class = "edit"   -> [down EXCEPT !.focus = hit]
               [] OTHER -> down

\* _cycle_focus: the edit control after h in its dialog, cyclically.
NextEdit(h) ==
    LET edits == Kept(Controls(Parent(h)), {c \in Live : windows[c].class = "edit"})
        i == CHOOSE i \in DOMAIN edits : edits[i] = h
    IN  IF Len(edits) <= 1 THEN h
        ELSE IF ~Contains(edits, h) THEN edits[1]
        ELSE edits[(i % Len(edits)) + 1]

\* The identifiers of the buttons Enter and Escape stand for.
ButtonOf(key) == IF key = "enter" THEN 1 ELSE 2

\* The dialog has a control registered under an identifier.  (A child window
\* made later may be registered in a control's place, which changes nothing.)
HasControl(h, id) ==
    /\ h \in Live
    /\ windows[h].class = "dialog"
    /\ \E i \in DOMAIN Template : Template[i].id = id

\* A key: without a focused control it goes to the SDL window's own window;
\* Enter and Escape press a button of the control's dialog, Tab moves on.
Keyed(in, on, key) ==
    LET f == in.focus
        pressed == IF /\ key \in {"enter", "escape"}
                      /\ HasControl(Parent(f), ButtonOf(key))
                   THEN Queued(in, Parent(f), "COMMAND")
                   ELSE in
        moved == IF key = "tab" THEN [in EXCEPT !.focus = NextEdit(f)] ELSE pressed
    IN  IF f = 0 THEN IF on \in sdl THEN Queued(in, on, "KEY") ELSE in
        ELSE Queued(moved, f, "KEY")

\* _handle_sdl_event: the inboxes one event can make of an inbox.  The event
\* may be about a window that is gone.
Handled(in) ==
    UNION {{Pointed(in, on), FocusChanged(in, on)}
             \union {Pressed(in, on, hit) : hit \in {0} \union ToSet(Controls(on))}
             \union {Keyed(in, on, key) : key \in {"enter", "escape", "tab", "other"}}
           : on \in 1 .. nextHwnd - 1}

\* pump_sdl_events, up to a quit event or until there is no more.
Pumped ==
    LET after[k \in 0 .. MaxEvents] ==
            IF k = 0 THEN {Inbox}
            ELSE after[k - 1] \union UNION {Handled(in) : in \in after[k - 1]}
    IN  {in \in after[MaxEvents] : Within(in.posted, nextHook)}

-----------------------------------------------------------------------------
(* Windows come and go.                                                    *)

\* What create_window records of a window.
NewWindow(parent) ==
    [class |-> "window", parent |-> parent, proc |-> TRUE, controls |-> << >>, done |-> FALSE]

\* create_window, for a visible window of a registered class: it gets an SDL
\* window if it has no parent.
CreateWindow(parent) ==
    LET h == nextHwnd
    IN  /\ Guest
        /\ h <= MaxHwnd
        /\ Receive(Queued(Queued(Inbox, h, "OTHER"), h, "OTHER"))
        /\ nextHwnd' = h + 1
        /\ windows' = [w \in Live \union {h} |-> IF w = h THEN NewWindow(parent) ELSE windows[w]]
        /\ sdl' = IF parent = 0 THEN sdl \union {h} ELSE sdl
        /\ UNCHANGED <<stack, pending, hooks, nextHook, phase>>

\* The handles of the controls of dialog h.
ControlHandles(h) == [i \in DOMAIN Template |-> h + i]

\* create_dialog, all but WM_INITDIALOG: the dialog, its controls, and the
\* focus on the first edit control.
MakeDialog(parent) ==
    LET h == nextHwnd
        edits == {i \in DOMAIN Template : Template[i].class = "edit"}
        control(c) == [class |-> Template[c - h].class, parent |-> h,
                       proc |-> FALSE, controls |-> << >>, done |-> FALSE]
        dialog == [class |-> "dialog", parent |-> parent, proc |-> TRUE,
                   controls |-> ControlHandles(h), done |-> FALSE]
    IN  /\ h + Len(Template) <= MaxHwnd
        /\ nextHwnd' = h + Len(Template) + 1
        /\ windows' = [w \in Live \union (h .. h + Len(Template)) |->
                         IF w = h THEN dialog ELSE IF w > h THEN control(w) ELSE windows[w]]
        /\ sdl' = sdl \union {h}
        /\ focus' = IF edits = {} THEN focus
                     ELSE h + CHOOSE i \in edits : \A j \in edits : i <= j

\* The message create_dialog posts.
InitMessage == [hwnd |-> nextHwnd, msg |-> "INIT", n |-> posted + 1]

\* A creation that SDL refuses uses a handle up and ends the program.
CreationFails ==
    /\ Guest
    /\ nextHwnd <= MaxHwnd
    /\ nextHwnd' = nextHwnd + 1
    /\ phase' = "fatal"
    /\ UNCHANGED <<windows, sdl, queue, posted, focus, stack, pending, hooks, nextHook>>

\* destroy_window: the controls of children_list go with the window.  (They
\* have none of their own.)  Child windows of CreateWindow are not in the list,
\* and messages stay in the queue.  f is the focused control.
Destroyed(h, f) ==
    LET gone == {h} \union ToSet(Controls(h))
    IN  /\ windows' = [w \in Live \ gone |-> windows[w]]
        /\ sdl' = sdl \ gone
        /\ focus' = IF f \in gone THEN 0 ELSE f

DestroyWindow(h) ==
    /\ Guest
    /\ Destroyed(h, focus)
    /\ UNCHANGED <<nextHwnd, queue, posted, stack, pending, hooks, nextHook, phase>>

SetFocus(h) ==
    /\ Guest
    /\ focus' = h
    /\ UNCHANGED <<windows, nextHwnd, sdl, queue, posted, stack, pending, hooks,
                   nextHook, phase>>

EndDialog(h) ==
    /\ Guest
    /\ windows[h].class = "dialog"
    /\ windows' = [windows EXCEPT ![h].done = TRUE]
    /\ UNCHANGED <<nextHwnd, sdl, queue, posted, focus, stack, pending, hooks,
                   nextHook, phase>>

-----------------------------------------------------------------------------
(* Messages are taken and dispatched.                                      *)

\* PostMessage, or Kernel._deliver for WSAAsyncSelect: unknown windows are
\* refused.
PostMessage(h) ==
    /\ Guest
    /\ Receive(Queued(Inbox, h, "OTHER"))
    /\ UNCHANGED <<windows, nextHwnd, sdl, stack, pending, hooks, nextHook, phase>>

\* The activation with another message in its MSG structure.
Holding(s, m) == [s EXCEPT ![Len(s)].held = m]

\* _dispatch_winhooks: of some kinds, those whose hooks see the message.
HooksFor(m, kinds) ==
    {k \in kinds : hooks[k] # << >> /\ (k = "key" => m.msg = "KEY")}

\* The call of the newest hook of one kind, WH_GETMESSAGE before WH_KEYBOARD.
HookCall(kinds) ==
    LET k == IF "get" \in kinds THEN "get" ELSE "key"
    IN  IF kinds = {} THEN << >> ELSE <<Entry("hook", Head(hooks[k]), k)>>

\* GetMessage, or PeekMessage, finds a message: it is written for the guest,
\* then the hooks see it.  (GetMessage sleeps and tries again, and PeekMessage
\* returns FALSE, when there is none.)
TakeMessage ==
    /\ Guest
    /\ \E in \in Pumped :
        /\ in.queue # << >>
        /\ Receive([in EXCEPT !.queue = Tail(@)])
        /\ LET m == Head(in.queue)
               calls == HookCall(HooksFor(m, HookKinds))
           IN  /\ Len(stack) + Len(calls) <= MaxDepth
               /\ stack' = Holding(stack, m) \o calls
    /\ UNCHANGED <<windows, nextHwnd, sdl, pending, hooks, nextHook, phase>>

\* The pump meets SDL_QUIT: the guest is given WM_QUIT, which is for no window.
TakeQuit ==
    /\ Guest
    /\ \E in \in Pumped : Receive(in)
    /\ stack' = Holding(stack, NoMessage)
    /\ UNCHANGED <<windows, nextHwnd, sdl, pending, hooks, nextHook, phase>>

\* DispatchMessage of the message held: its window's procedure is entered, and
\* what ESP must be afterwards is remembered.
DispatchMessage ==
    LET h == Top.held.hwnd
    IN  /\ Guest
        /\ Top.held # NoMessage
        /\ IF h \in Live /\ windows[h].proc
           THEN /\ Enter(Holding(stack, NoMessage), Entry("dispatch", h, "none"))
                /\ pending' = Append(pending, [depth |-> Len(stack), hwnd |-> h])
           ELSE /\ stack' = Holding(stack, NoMessage)
                /\ UNCHANGED pending
        /\ UNCHANGED <<windows, nextHwnd, sdl, queue, posted, focus, hooks, nextHook, phase>>

\* _dispatch_return: ESP becomes what the latest pending dispatch remembered.
\* If that is not the one returning the guest continues on a wrong stack.
DispatchReturn ==
    /\ Guest
    /\ Top.kind = "dispatch"
    /\ pending' = Front(pending)
    /\ IF Last(pending).depth = Len(stack) - 1
       THEN stack' = Front(stack) /\ UNCHANGED phase
       ELSE phase' = "astray" /\ UNCHANGED stack
    /\ UNCHANGED <<windows, nextHwnd, sdl, queue, posted, focus, hooks, nextHook>>

-----------------------------------------------------------------------------
(* Dialogs.                                                                *)

\* Mutants of Drained: the messages saved are put back last first; they are not
\* put back; WM_INITDIALOG is left to the guest's own loop.
Drained_Reversed(q, h) ==
    LET k == CHOOSE k \in DOMAIN q : q[k].msg = "INIT" /\ q[k].hwnd = h
    IN  SubSeq(q, k + 1, Len(q))
        \o Reverse(Kept(SubSeq(q, 1, k - 1), {m \in ToSet(q) : m.hwnd \in Live}))
Drained_Forgets(q, h) ==
    LET k == CHOOSE k \in DOMAIN q : q[k].msg = "INIT" /\ q[k].hwnd = h
    IN  SubSeq(q, k + 1, Len(q))

\* CreateDialogParam looks for WM_INITDIALOG in the queue: it takes out what
\* is before it and puts back, behind the rest, what is for live windows.
Drained(q, h) ==
    LET k == CHOOSE k \in DOMAIN q : q[k].msg = "INIT" /\ q[k].hwnd = h
        saved == Kept(SubSeq(q, 1, k - 1), {m \in ToSet(q) : m.hwnd \in Live})
    IN  SubSeq(q, k + 1, Len(q)) \o saved

\* A modeless dialog: WM_INITDIALOG is delivered before the function returns.
CreateDialog(parent) ==
    /\ Guest
    /\ Within(posted + 1, nextHook)
    /\ MakeDialog(parent)
    /\ queue' = Drained(Append(queue, InitMessage), nextHwnd)
    /\ posted' = posted + 1
    /\ Enter(stack, Entry("init", nextHwnd, "none"))
    /\ UNCHANGED <<pending, hooks, nextHook, phase>>

\* DialogBoxParam up to its loop.  (The bound leaves room for one call.)
DialogBox(parent) ==
    /\ Guest
    /\ Within(posted + 1, nextHook) /\ Len(stack) + 2 <= MaxDepth
    /\ MakeDialog(parent)
    /\ queue' = Append(queue, InitMessage)
    /\ posted' = posted + 1
    /\ Enter(stack, Entry("modal", nextHwnd, "none"))
    /\ UNCHANGED <<pending, hooks, nextHook, phase>>

\* The loop ends: the dialog is destroyed if it still exists.
LoopEnds(d, f) ==
    /\ stack' = Front(stack)
    /\ IF d \in Live THEN Destroyed(d, f)
       ELSE focus' = f /\ UNCHANGED <<windows, sdl>>

\* The loop takes one message: its own dialog's procedure is called with it, a
\* message for another window is dropped.
LoopTakes(d, in) ==
    LET m == Head(in.queue)
    IN  /\ in.queue # << >>
        /\ Receive([in EXCEPT !.queue = Tail(@)])
        /\ IF m.hwnd = d THEN Enter(stack, Entry("proc", d, "none"))
           ELSE UNCHANGED stack
        /\ UNCHANGED <<windows, sdl>>

\* What the dialog's own loop needs to run.
InLoop == phase = "running" /\ Top.kind = "modal"

\* Mutant of ModalEnds: the loop looks at its dialog only after a message.
ModalEnds_OnMessage ==
    /\ InLoop
    /\ queue # << >>
    /\ Top.of \in Live => windows[Top.of].done
    /\ LoopEnds(Top.of, focus)
    /\ UNCHANGED <<nextHwnd, queue, posted, pending, hooks, nextHook, phase>>

\* The top of the loop: the dialog is gone or done.
ModalEnds ==
    /\ InLoop
    /\ Top.of \in Live => windows[Top.of].done
    /\ LoopEnds(Top.of, focus)
    /\ UNCHANGED <<nextHwnd, queue, posted, pending, hooks, nextHook, phase>>

\* A turn of the loop: SDL is pumped and either quits, which ends the dialog,
\* or a message is taken.  (Without one the loop sleeps and turns again.)
ModalTurn ==
    LET d == Top.of
    IN  /\ InLoop
        /\ d \in Live /\ ~windows[d].done
        /\ \E in \in Pumped :
            \/ LoopTakes(d, in)
            \/ /\ LoopEnds(d, in.focus)
               /\ queue' = in.queue /\ posted' = in.posted
        /\ UNCHANGED <<nextHwnd, pending, hooks, nextHook, phase>>

\* The innermost call made by Python ends (_invoke_emulated_proc): it returns,
\* or its steps are used up and it is abandoned with the dispatches begun in
\* it, which stay pending.  After a WH_GETMESSAGE hook comes WH_KEYBOARD's.
EndCall(j) ==
    /\ phase = "running"
    /\ j \in DOMAIN stack
    /\ stack[j].kind \in {"proc", "init", "hook"}
    /\ \A i \in j + 1 .. Len(stack) : stack[i].kind = "dispatch"
    /\ stack' = SubSeq(stack, 1, j - 1)
                \o (IF stack[j].via = "get"
                    THEN HookCall(HooksFor(stack[j - 1].held, {"key"}))
                    ELSE << >>)
    /\ UNCHANGED <<windows, nextHwnd, sdl, queue, posted, focus, pending, hooks,
                   nextHook, phase>>

-----------------------------------------------------------------------------
(* Hooks.                                                                  *)

\* SetWindowsHookEx: the newest is first.
SetHook(k) ==
    /\ Guest
    /\ Within(posted, nextHook + 1)
    /\ hooks' = [hooks EXCEPT ![k] = <<nextHook>> \o @]
    /\ nextHook' = nextHook + 1
    /\ UNCHANGED <<windows, nextHwnd, sdl, queue, posted, focus, stack, pending, phase>>

\* UnhookWindowsHookEx
Unhook(k, hook) ==
    /\ Guest
    /\ hooks' = [hooks EXCEPT ![k] = Kept(@, ToSet(@) \ {hook})]
    /\ UNCHANGED <<windows, nextHwnd, sdl, queue, posted, focus, stack, pending,
                   nextHook, phase>>

\* CallNextHookEx from a hook: the one after it in its chain.  (It does
\* nothing if there is none, or the hook has been removed.)
CallNextHook(k) ==
    /\ Guest
    /\ Top.kind = "hook"
    /\ \E i \in 1 .. Len(hooks[k]) - 1 :
        /\ hooks[k][i] = Top.of
        /\ Enter(stack, Entry("hook", hooks[k][i + 1], "next"))
    /\ UNCHANGED <<windows, nextHwnd, sdl, queue, posted, focus, pending, hooks,
                   nextHook, phase>>

-----------------------------------------------------------------------------
Next ==
    \/ \E parent \in {0} \union Live :
        \/ CreateWindow(parent)
        \/ CreateDialog(parent)
        \/ DialogBox(parent)
    \/ \E h \in Live : DestroyWindow(h) \/ SetFocus(h) \/ EndDialog(h) \/ PostMessage(h)
    \/ CreationFails
    \/ TakeMessage \/ TakeQuit \/ DispatchMessage \/ DispatchReturn
    \/ ModalEnds \/ ModalTurn
    \/ \E j \in DOMAIN stack : EndCall(j)
    \/ \E k \in HookKinds :
        SetHook(k) \/ CallNextHook(k) \/ \E hook \in ToSet(hooks[k]) : Unhook(k, hook)

(* A dialog loop looks at its dialog again and again, and a call has a budget *)
(* that every return to it uses up, so the calls at each depth end.  Nothing  *)
(* makes the guest act, or events arrive.                                     *)
Fairness == WF_vars(ModalEnds) /\ \A j \in 2 .. MaxDepth : SF_vars(EndCall(j))

Spec == Init /\ [][Next]_vars /\ Fairness
-----------------------------------------------------------------------------
(* Properties.                                                             *)

(* Messages wait in the order they were posted in: not even CreateDialog,   *)
(* which takes messages out and puts them back, reorders them.              *)
QueueInOrder ==
    \A i, j \in DOMAIN queue : i < j => queue[i].n < queue[j].n

(* A dialog's procedure hears of WM_INITDIALOG before anything else: while it *)
(* waits, the dialog's own loop is what runs, and nothing for the dialog is   *)
(* before it in the queue.                                                    *)
InitFirst ==
    \A i \in DOMAIN queue :
        phase = "running" /\ queue[i].msg = "INIT" /\ queue[i].hwnd \in Live
        => /\ Top.kind = "modal" /\ Top.of = queue[i].hwnd
           /\ \A j \in 1 .. i - 1 : queue[j].hwnd # queue[i].hwnd

(* The order of messages: by when they were posted, but WM_INITDIALOG first. *)
MessagesInOrder == QueueInOrder /\ InitFirst

(* A message for a live window leaves the queue only into the hands of the    *)
(* guest or of its dialog's procedure, or because a dialog loop is in charge  *)
(* and the message is for another window.                                     *)
NothingLost ==
    [][ \A m \in ToSet(queue) :
            \/ m \in ToSet(queue')
            \/ m.hwnd \notin Live
            \/ Len(stack') >= Len(stack) /\ stack'[Len(stack)].held = m
            \/ Top.kind = "modal" /\ Top.of # m.hwnd
            \/ Top.kind = "modal" /\ stack' = Append(stack, Entry("proc", m.hwnd, "none"))
      ]_vars

(* A dispatch that returns restores the stack it was begun on, whatever its   *)
(* procedure did with it: "the expected ESP is kept per thread as a stack"    *)
(* (user32_handlers.py:1389).                                                 *)
ReturnsToItsCaller == phase # "astray"

\* The innermost dialog loop is over as soon as it runs: its dialog is done or gone.
Ending(d) ==
    /\ phase = "running"
    /\ d \in Live => windows[d].done
    /\ \E i \in DOMAIN stack :
        /\ stack[i].kind = "modal" /\ stack[i].of = d
        /\ \A j \in i + 1 .. Len(stack) : stack[j].kind # "modal"

(* A dialog that EndDialog was called for, or that was destroyed, ends, unless *)
(* another dialog is opened first: whatever calls are in progress above its    *)
(* loop, none runs forever.                                                    *)
DialogEnds == \A d \in 1 .. MaxHwnd : Ending(d) ~> ~Ending(d)
=============================================================================
