-------------------------------- MODULE Input --------------------------------
(* DirectInput's mouse: the host's events move a position and buttons, queue *)
(* one entry per change and signal every event a device registered; the      *)
(* guest reads the queue (GetDeviceData) or the state (GetDeviceState).      *)
EXTENDS Integers, Sequences, SequencesExt

CONSTANTS
    Coordinate,    \* logical coordinates of one axis
    Button,        \* the mouse's: left, right and middle
    Device,        \* device objects
    InputEvent,    \* events a guest registers
    MaxInputQueue  \* bound: entries of the queue

VARIABLES
    mouse,       \* [pos, buttons, polled]: _mouse_pos, _mouse_buttons, _last_polled_pos
    inputQueue,  \* _mouse_dod_queue
    registered,  \* _registered_events: device -> event, or "none"
    signaled,    \* the events that are signalled
    drained,     \* [pos, buttons] as replayed from the entries taken so far
    consumer     \* a guest thread: "working", "drained" since it woke, or "waiting"

inputVars == <<mouse, inputQueue, registered, signaled, drained, consumer>>

Axis == {"x", "y"}

ASSUME InputAssumption == Coordinate \subseteq Int /\ Button \cap Axis = {} /\ MaxInputQueue \in Nat

Up == [b \in Button |-> FALSE]

InputInit ==
    /\ mouse = [pos |-> [a \in Axis |-> 0], buttons |-> Up, polled |-> [a \in Axis |-> 0]]
    /\ inputQueue = <<>>
    /\ registered = [d \in Device |-> "none"] /\ signaled = {}
    /\ drained = [pos |-> [a \in Axis |-> 0], buttons |-> Up]
    /\ consumer = "working"

Registered == {registered[d] : d \in Device} \ {"none"}

(* _signal_registered_events *)
Announce == signaled' = signaled \cup Registered

Move(a, to) == IF to[a] = mouse.pos[a] THEN <<>> ELSE <<<<a, to[a] - mouse.pos[a]>>>>
Moves(to) == Move("x", to) \o Move("y", to)

(* An event that moves nothing or repeats a button's state is dropped. *)
NotifyMotion(to) ==
    /\ Len(inputQueue) + 2 <= MaxInputQueue /\ to # mouse.pos
    /\ mouse' = [mouse EXCEPT !.pos = to]
    /\ inputQueue' = inputQueue \o Moves(to)
    /\ Announce
    /\ UNCHANGED <<registered, drained, consumer>>

NotifyButton(b) ==
    /\ Len(inputQueue) < MaxInputQueue
    /\ mouse' = [mouse EXCEPT !.buttons[b] = ~@]
    /\ inputQueue' = Append(inputQueue, <<b, ~mouse.buttons[b]>>)
    /\ Announce
    /\ UNCHANGED <<registered, drained, consumer>>

Replayed(at, e) ==
    IF e[1] \in Axis THEN [at EXCEPT !.pos[e[1]] = @ + e[2]]
                     ELSE [at EXCEPT !.buttons[e[1]] = e[2]]

(* Mutant: a peek takes the entries as well. *)
Taken_Peek(n, peek) == SubSeq(inputQueue, n + 1, Len(inputQueue))

Taken(n, peek) == IF peek THEN inputQueue ELSE SubSeq(inputQueue, n + 1, Len(inputQueue))

(* GetDeviceData for n entries; a peek leaves them. *)
GetDeviceData(n, peek) ==
    /\ consumer # "waiting" /\ n <= Len(inputQueue)
    /\ inputQueue' = Taken(n, peek)
    /\ drained' = IF peek THEN drained ELSE FoldLeft(Replayed, drained, SubSeq(inputQueue, 1, n))
    /\ consumer' = IF ~peek /\ n = Len(inputQueue) THEN "drained" ELSE consumer
    /\ UNCHANGED <<mouse, registered, signaled>>

(* GetDeviceState returns the motion since it was last called. *)
GetDeviceState ==
    /\ consumer # "waiting"
    /\ mouse' = [mouse EXCEPT !.polled = mouse.pos]
    /\ UNCHANGED <<inputQueue, registered, signaled, drained, consumer>>

(* The guest's event; none means that the device is polled. A guest that has *)
(* registered one looks at the queue before it waits.                        *)
SetEventNotification(d, e) ==
    /\ consumer # "waiting"
    /\ registered' = [registered EXCEPT ![d] = e]
    /\ consumer' = "working"
    /\ UNCHANGED <<mouse, inputQueue, signaled, drained>>

(* The thread waits for a registered event (an auto-reset one) after it has  *)
(* emptied the queue.                                                        *)
WaitForInput(e) ==
    /\ consumer = "drained" /\ e \in Registered
    /\ IF e \in signaled THEN signaled' = signaled \ {e} /\ consumer' = "working"
                         ELSE consumer' = "waiting" /\ UNCHANGED signaled
    /\ UNCHANGED <<mouse, inputQueue, registered, drained>>

Woken(e) ==
    /\ consumer = "waiting" /\ e \in signaled
    /\ signaled' = signaled \ {e} /\ consumer' = "working"
    /\ UNCHANGED <<mouse, inputQueue, registered, drained>>

InputNext ==
    \/ \E to \in [Axis -> Coordinate] : NotifyMotion(to)
    \/ \E b \in Button : NotifyButton(b)
    \/ \E n \in 0..MaxInputQueue, peek \in BOOLEAN : GetDeviceData(n, peek)
    \/ GetDeviceState
    \/ \E d \in Device, e \in InputEvent \cup {"none"} : SetEventNotification(d, e)
    \/ \E e \in InputEvent : WaitForInput(e) \/ Woken(e)

---------------------------------------------------------------------------
(* Replaying the entries a guest took and those still queued leads to the    *)
(* mouse as it is: whatever mixture of peeks, partial reads and polls, no    *)
(* motion or click is lost or counted twice.                                 *)
InputAddsUp == FoldLeft(Replayed, drained, inputQueue) = [pos |-> mouse.pos, buttons |-> mouse.buttons]

=============================================================================
