------------------------------- MODULE MainLoop -------------------------------
(* The main loop of run_exe: batches of guest instructions, and between them *)
(* the commands an operator leaves in trigger files, the exceptions of the   *)
(* guest, breakpoints and the watchpoint, the next thread and the heartbeat. *)
(* The loop is one host thread; the operator writes the files at any time,   *)
(* and reading one and removing it are two steps. How a batch or a nested    *)
(* call of the guest ends is its own affair: any outcome may come of it.     *)
EXTENDS Integers

CONSTANTS
    Interval,      \* _TIMER_HEARTBEAT_INTERVAL
    Limit,         \* MAX_STEPS
    StepCounts,    \* what is written to the step trigger
    Breakpoint,    \* addresses breakpoints are set at, at most the 8 the CPU has room for
    MaxCommands    \* bound: commands an operator writes

ASSUME LoopAssumption == Interval \in Nat \ {0} /\ Limit \in Nat /\ StepCounts \subseteq Nat

VARIABLES
    at,            \* where the loop is
    stop,          \* why the last cpu.run ended, if it ended early
    sticky,        \* cpu._py_faulted
    steps,         \* step_count
    batch,         \* steps of the latest batch, or Unset
    countdown,     \* _heartbeat_countdown
    paused,        \* _tew_paused
    pauseFile, stepFile,  \* the trigger files, or NoFile
    line,          \* what was read from one
    commands,      \* commands written so far
    handlers,      \* _bp_handlers
    armed,         \* the CPU's table of breakpoints
    declined,      \* breakpoints whose handler returned False
    guest,         \* what the guest and its operator do: see MainLoopInit
    status         \* the exit status, or Unset

control  == <<at, stop, sticky>>
counters == <<steps, batch, countdown>>
files    == <<pauseFile, stepFile, commands>>
points   == <<handlers, armed, declined>>
loopVars == <<control, counters, files, points, paused, line, guest, status>>

Unset == -1
NoFile == "none"
Halts == {"fault", "opcode", "break", "watch", "hlt"}

(* guest.patient: the operator waits until a file is gone before writing the *)
(* next command; guest.debugged: there are breakpoints; guest.timers: timers *)
(* call functions of the guest.                                              *)
MainLoopInit ==
    /\ at = "top" /\ stop = "none" /\ sticky = FALSE
    /\ steps = 0 /\ batch = Unset /\ countdown = Interval
    /\ pauseFile = NoFile /\ stepFile = Unset /\ commands = 0
    /\ guest \in [patient : BOOLEAN, debugged : BOOLEAN, timers : BOOLEAN]
    /\ handlers = {} /\ armed = {} /\ declined = {}
    /\ paused = FALSE /\ line = NoFile /\ status = Unset

Least(a, b) == IF a < b THEN a ELSE b

(* _steps_left *)
StepsLeft(n) == Least(n, Limit - steps)

Ends(s) == at' = "over" /\ status' = s

(* os._exit *)
ExitStatus == IF sticky \/ stop \in {"fault", "opcode"} THEN 1 ELSE 0

(* cpu.run: it goes to the end of its steps or stops early.                  *)
RunGuest == stop' \in {"none"} \cup (Halts \ (IF armed = {} THEN {"break"} ELSE {}))

(* A FatalHaltError of any cpu.run leaves the loop. *)
FatallyHalted ==
    /\ at \in {"stepping", "run", "checks", "break", "heartbeat", "region"}
    /\ stop' = "hlt" /\ \E raised \in BOOLEAN : sticky' = (sticky \/ raised) /\ Ends(IF sticky' THEN 1 ELSE 0)
    /\ UNCHANGED <<counters, files, points, paused, line, guest>>

---------------------------------------------------------------------------
(* The loop's condition. *)
NextTurn ==
    /\ at = "top"
    /\ IF stop = "none" /\ steps < Limit THEN at' = "pausing" /\ UNCHANGED status ELSE Ends(ExitStatus)
    /\ UNCHANGED <<stop, sticky, counters, files, points, paused, line, guest>>

(* The pause trigger, if there is one, is read ...                           *)
ReadPause ==
    /\ at = "pausing"
    /\ IF pauseFile = NoFile THEN at' = "stepTrigger" /\ UNCHANGED line
       ELSE at' = "pauseRead" /\ line' = pauseFile
    /\ UNCHANGED <<stop, sticky, counters, files, points, paused, guest, status>>

(* Mutant: either command turns the pause on or off. *)
Obeyed_Toggles(c) == IF c \in {"pause", "resume"} THEN ~paused ELSE paused
Obeyed(c) == IF c \in {"pause", "resume"} THEN c = "pause" ELSE paused

(* ... and removed, whatever is in it now.                                   *)
RemovePause ==
    /\ at = "pauseRead" /\ at' = "stepTrigger" /\ pauseFile' = NoFile
    /\ paused' = Obeyed(line)
    /\ UNCHANGED <<stop, sticky, counters, stepFile, commands, points, line, guest, status>>

(* The step trigger, looked at in a pause only. *)
ReadStep ==
    /\ at = "stepTrigger"
    /\ IF paused /\ stepFile # Unset THEN at' = "stepping" ELSE at' = "run"
    /\ UNCHANGED <<stop, sticky, counters, files, points, paused, line, guest, status>>

Step ==
    /\ at = "stepping" /\ at' = "run" /\ stepFile' = Unset
    /\ steps' = steps + StepsLeft(stepFile)
    /\ IF stepFile = 0 THEN UNCHANGED stop ELSE RunGuest
    /\ UNCHANGED <<sticky, batch, countdown, pauseFile, commands, points, paused, line, guest, status>>

(* A batch, or the idle wait of a pause.                                     *)
RunBatch ==
    /\ at = "run" /\ at' = "checks"
    /\ IF paused THEN UNCHANGED <<stop, steps, batch>>
       ELSE batch' = StepsLeft(Interval) /\ steps' = steps + batch' /\ RunGuest
    /\ UNCHANGED <<sticky, countdown, files, points, paused, line, guest, status>>

(* A fault is offered to the handlers of the guest (see Exceptions); an      *)
(* opcode the CPU does not have is not.                                      *)
CheckFault ==
    /\ at = "checks"
    /\ \/ /\ stop \notin {"fault", "opcode"} /\ at' = "break" /\ UNCHANGED <<stop, sticky, status>>
       \/ stop = "fault" /\ stop' = "none" /\ sticky' = FALSE /\ at' = "break" /\ UNCHANGED status
       \/ stop \in {"fault", "opcode"} /\ stop' = "hlt" /\ sticky' = TRUE /\ Ends(1)
    /\ UNCHANGED <<counters, files, points, paused, line, guest>>

(* Mutant: it is not asked whether there is still a handler. *)
ArmedAfter_Handled(b, keep, unregistered) ==
    IF keep THEN (armed \ unregistered) \cup {b} ELSE armed \ (unregistered \cup {b})

ArmedAfter(b, keep, unregistered) ==
    IF keep /\ b \notin unregistered THEN armed \ unregistered ELSE armed \ (unregistered \cup {b})

(* _dispatch_breakpoint: the handler may decline to see more of it, and may  *)
(* unregister some; then the instruction is run with the breakpoint cleared. *)
DispatchBreakpoint ==
    /\ at = "break" /\ at' = "preempt"
    /\ IF stop # "break" \/ handlers = {} THEN UNCHANGED <<points, stop>>
       ELSE \E b \in armed, keep \in BOOLEAN, unregistered \in SUBSET handlers :
              /\ handlers' = handlers \ unregistered
              /\ armed' = ArmedAfter(b, keep, unregistered)
              /\ declined' = (declined \cup (IF keep THEN {} ELSE {b})) \ unregistered
              /\ stop' \in {"none", "fault", "opcode", "watch", "hlt"}
    /\ UNCHANGED <<sticky, counters, files, paused, line, guest, status>>

(* The watchpoint is set again, and the CPU goes on. Then preempt_slice: if  *)
(* another thread is loaded, what stopped the last one is forgotten.         *)
Preempt ==
    /\ at = "preempt" /\ at' = "heartbeat"
    /\ stop' \in {IF stop = "watch" THEN "none" ELSE stop, "none"}
    /\ UNCHANGED <<sticky, counters, files, points, paused, line, guest, status>>

(* _run_timer_heartbeat, and EIP is looked at. A pause counts the batch that *)
(* was run before it once more; before the first there is none, a NameError. *)
TimerHeartbeat ==
    /\ at = "heartbeat"
    /\ IF batch = Unset THEN Ends(1) /\ UNCHANGED <<countdown, stop>>
       ELSE LET due == countdown - batch <= 0
            IN /\ countdown' = IF due THEN Interval ELSE countdown - batch
               /\ IF due /\ guest.timers THEN stop' \in {stop, "fault"} ELSE UNCHANGED stop
               /\ at' = "region" /\ UNCHANGED status
    /\ UNCHANGED <<sticky, steps, batch, files, points, paused, line, guest>>

(* EIP outside of all code is an access violation: handled, or the end.      *)
CheckRegion ==
    /\ at = "region"
    /\ \/ at' = "top" /\ stop' \in {stop, "none"} /\ UNCHANGED status
       \/ stop' = "hlt" /\ Ends(IF sticky THEN 1 ELSE 0)
    /\ UNCHANGED <<sticky, counters, files, points, paused, line, guest>>

LoopSteps ==
    \/ NextTurn \/ ReadPause \/ RemovePause \/ ReadStep \/ Step \/ RunBatch
    \/ CheckFault \/ DispatchBreakpoint \/ Preempt \/ TimerHeartbeat \/ CheckRegion \/ FatallyHalted

---------------------------------------------------------------------------
(* register_breakpoint *)
RegisterBreakpoint(b) ==
    /\ guest.debugged /\ at = "top"
    /\ handlers' = handlers \cup {b} /\ armed' = armed \cup {b} /\ declined' = declined \ {b}
    /\ UNCHANGED <<control, counters, files, paused, line, guest, status>>

(* The operator *)
WritePause(c) ==
    /\ commands < MaxCommands /\ at # "over"
    /\ guest.patient => pauseFile = NoFile
    /\ pauseFile' = c /\ commands' = commands + 1
    /\ UNCHANGED <<control, counters, stepFile, points, paused, line, guest, status>>

WriteStep(n) ==
    /\ commands < MaxCommands /\ at # "over"
    /\ stepFile' = n /\ commands' = commands + 1
    /\ UNCHANGED <<control, counters, pauseFile, points, paused, line, guest, status>>

MainLoopNext ==
    \/ LoopSteps
    \/ \E b \in Breakpoint : RegisterBreakpoint(b)
    \/ \E c \in {"pause", "resume", "else"} : WritePause(c)
    \/ \E n \in StepCounts : WriteStep(n)

MainLoopSpec == MainLoopInit /\ [][MainLoopNext]_loopVars

---------------------------------------------------------------------------
(* _dispatch_breakpoint: a breakpoint that was resumed fires again, one that *)
(* its handler has done with never does, and the CPU stops at none that has  *)
(* no handler, for nobody would let it go on: the CPU's table and the        *)
(* handlers agree whatever a handler does.                                   *)
BreakpointsAgree == armed = handlers \ declined

(* run_exe.py: "Pause/step: write "pause"/"resume" to the pause trigger". An *)
(* operator who waits for the file to be gone is obeyed, or the run is over. *)
PauseIsObeyed ==
    \A c \in {"pause", "resume"} :
        (guest.patient /\ pauseFile = c) ~>
            (\/ pauseFile = NoFile /\ (paused <=> c = "pause")
             \/ at = "over")

=============================================================================
