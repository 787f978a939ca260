------------------------------ MODULE Automation ------------------------------
(* The input run_exe injects by itself, once per turn of the main loop: the  *)
(* chain of baked-in clicks, of which some wait for a text in a log file and *)
(* the others for a time, the clicks asked for in a trigger file, and the    *)
(* double click. A turn takes any time: its guest steps may block.           *)
(* Times are what is left until, or has passed since, the instant compared.  *)
EXTENDS Integers, Sequences, SequencesExt

CONSTANTS
    AutoSteps,     \* the chain: a sequence of "file" and "delay"
    Needle,        \* the text of a trigger, as a sequence of letters
    Letter,
    Premove, Hold, Gap, Delay, Retry,  \* TEW_CLICK_*_SEC, TEW_DBLCLICK_*_SEC
    Repeat,        \* TEW_DBLCLICK_REPEAT
    Turns,         \* what a turn may take
    MaxFile        \* bound: letters of a log file

(* FileTextTrigger raises ValueError for an empty text.                      *)
ASSUME AutomationAssumption == Needle \in Seq(Letter) /\ Needle # <<>>

VARIABLES
    logFile,       \* content of the log file
    before,        \* how much of it was there when the program started
    replaced,      \* it has been rewritten since
    trigger,       \* the FileTextTrigger of each step: [fired, offset, carry]
    chain,         \* [step, due, premoved, down, up, since]
    request,       \* TEW_MANUAL_CLICK_TRIGGER: the file's content, or None
    manual,        \* [step, since] of the click it asked for
    double,        \* [attempt, step, since, due]
    button         \* the last button event pushed: "up" or "down"

autoVars == <<logFile, before, replaced, trigger, chain, request, manual, double, button>>

None == "none"
Never == -1
Request == {"click", "MOVE", "DOWN", "UP", "unreadable"}

(* inputs: "chain", "manual" or "double", whichever the environment asks for *)
AutoInit(inputs) ==
    /\ logFile \in {<<>>, <<Head(Needle)>>, Needle} /\ before = Len(logFile) /\ replaced = FALSE
    /\ trigger = [i \in DOMAIN AutoSteps |-> [fired |-> FALSE, offset |-> before, carry |-> <<>>]]
    /\ chain = [step |-> IF inputs = "chain" THEN 1 ELSE Len(AutoSteps) + 1, due |-> Never,
                premoved |-> FALSE, down |-> FALSE, up |-> FALSE, since |-> 0]
    /\ request = None /\ manual = [step |-> 0, since |-> 0]
    /\ double = [attempt |-> IF inputs = "double" THEN 0 ELSE Repeat,
                 step |-> 0, since |-> 0, due |-> Delay]
    /\ button = "up"

Later(x, dt) == IF x = Never THEN Never ELSE IF x > dt THEN x - dt ELSE 0
Since(x, dt) == IF x + dt > Delay THEN Delay ELSE x + dt
ChainOver == chain.step > Len(AutoSteps)
HasText(s, t) == \E i \in 0..(Len(s) - Len(t)) : SubSeq(s, i + 1, i + Len(t)) = t
LastN(s, n) == IF Len(s) <= n THEN s ELSE SubSeq(s, Len(s) - n + 1, Len(s))

---------------------------------------------------------------------------
(* FileTextTrigger.poll *)
(* Mutant: what was read before is forgotten. *)
Polled_NoCarry(tr) ==
    LET from == IF Len(logFile) < tr.offset THEN 0 ELSE tr.offset
        data == SubSeq(logFile, from + 1, Len(logFile))
    IN IF HasText(data, Needle) THEN [tr EXCEPT !.fired = TRUE, !.offset = Len(logFile)]
       ELSE [tr EXCEPT !.offset = Len(logFile)]

Polled(tr) ==
    LET shrunk == Len(logFile) < tr.offset
        from == IF shrunk THEN 0 ELSE tr.offset
        data == (IF shrunk THEN <<>> ELSE tr.carry) \o SubSeq(logFile, from + 1, Len(logFile))
    IN IF from = Len(logFile) THEN [tr EXCEPT !.offset = from, !.carry = IF shrunk THEN <<>> ELSE @]
       ELSE IF HasText(data, Needle) THEN [tr EXCEPT !.fired = TRUE, !.offset = Len(logFile)]
       ELSE [tr EXCEPT !.offset = Len(logFile), !.carry = LastN(data, Len(Needle) - 1)]

AtFileStep == ~ChainOver /\ AutoSteps[chain.step] = "file" /\ ~trigger[chain.step].fired
PollTrigger == trigger' = IF AtFileStep THEN [trigger EXCEPT ![chain.step] = Polled(@)] ELSE trigger

(* The click falls due Delay after the text has appeared. *)
Scheduled(c, dt) ==
    [c EXCEPT !.due = IF AtFileStep /\ trigger'[c.step].fired THEN Delay ELSE Later(@, dt),
              !.since = Since(@, dt)]

(* _arm_next_auto_click and the flags *)
Rearmed(c) ==
    LET next == c.step + 1   over == next > Len(AutoSteps)
    IN [c EXCEPT !.step = next, !.premoved = over, !.down = over, !.up = over,
                 !.due = IF ~over /\ AutoSteps[next] = "delay" THEN Delay ELSE Never]

(* The three checks of one turn: the pointer moves, the button goes down, or *)
(* it comes up and the next step is armed.                                   *)
Hovers(c) == c.due # Never /\ ~c.premoved /\ c.due <= Premove
Presses(c) == c.due = 0 /\ ~c.down
Releases(c) == ~Presses(c) /\ c.down /\ ~c.up /\ c.since >= Hold

ChainEvents(c) == (IF Hovers(c) THEN <<"move">> ELSE <<>>)
                  \o (IF Presses(c) THEN <<"down">> ELSE IF Releases(c) THEN <<"up">> ELSE <<>>)
ChainNext(c) ==
    LET moved == [c EXCEPT !.premoved = @ \/ Hovers(c)]
    IN IF Presses(c) THEN [moved EXCEPT !.down = TRUE, !.since = 0]
       ELSE IF Releases(c) THEN Rearmed(moved) ELSE moved

(* The trigger file is read when no click of it is under way.                *)
ReadsRequest == manual.step = 0 /\ request # None
ManualDue(dt, wait) == Since(manual.since, dt) >= wait
ManualEvents(dt) ==
    IF ReadsRequest
    THEN CASE request \in {"click", "MOVE"} -> <<"move">> [] request = "DOWN" -> <<"down">>
           [] request = "UP" -> <<"up">> [] OTHER -> <<>>
    ELSE CASE manual.step = 1 /\ ManualDue(dt, Premove) -> <<"down">>
           [] manual.step = 2 /\ ManualDue(dt, Hold) -> <<"up">>
           [] OTHER -> <<>>
ManualNext(dt) ==
    /\ request' = IF ReadsRequest THEN None ELSE request
    /\ manual' = IF ReadsRequest THEN [step |-> IF request = "click" THEN 1 ELSE 0, since |-> 0]
                 ELSE IF ManualEvents(dt) # <<>> THEN [step |-> (manual.step + 1) % 3, since |-> 0]
                 ELSE [manual EXCEPT !.since = Since(@, dt)]

(* The double click: down, up, down, up, and again until Repeat. *)
DoubleWait == CASE double.step = 0 -> 0 [] double.step = 2 -> Gap [] OTHER -> Hold
DoubleActs(dt) ==
    /\ double.attempt < Repeat
    /\ IF double.step = 0 THEN Later(double.due, dt) = 0 ELSE Since(double.since, dt) >= DoubleWait
DoubleEvents(dt) == IF ~DoubleActs(dt) THEN <<>> ELSE IF double.step % 2 = 0 THEN <<"down">> ELSE <<"up">>
DoubleNext(dt) ==
    double' = IF ~DoubleActs(dt) THEN [double EXCEPT !.since = Since(@, dt), !.due = Later(@, dt)]
              ELSE IF double.step < 3 THEN [double EXCEPT !.step = @ + 1, !.since = 0, !.due = Later(@, dt)]
              ELSE [attempt |-> double.attempt + 1, step |-> 0, since |-> 0,
                    due |-> Later(double.due, dt) + Retry]

(* One turn of the main loop that took dt. *)
AfterEvents(events) ==
    LET last == SelectLastInSeq(events, LAMBDA e : e # "move")
    IN IF last = 0 THEN button ELSE events[last]

Turn(dt) ==
    /\ PollTrigger
    /\ LET c == Scheduled(chain, dt)
       IN /\ chain' = ChainNext(c)
          /\ button' = AfterEvents(ChainEvents(c) \o ManualEvents(dt) \o DoubleEvents(dt))
    /\ ManualNext(dt) /\ DoubleNext(dt)
    /\ UNCHANGED <<logFile, before, replaced>>

---------------------------------------------------------------------------
(* The guest appends to its log, or starts it anew. *)
Log(letter) ==
    /\ Len(logFile) < MaxFile /\ logFile' = Append(logFile, letter)
    /\ UNCHANGED <<before, replaced, trigger, chain, request, manual, double, button>>

Rewrite ==
    /\ ~replaced /\ logFile' = <<>> /\ replaced' = TRUE
    /\ UNCHANGED <<before, trigger, chain, request, manual, double, button>>

AskFor(what) ==
    /\ request = None /\ request' = what
    /\ UNCHANGED <<logFile, before, replaced, trigger, chain, manual, double, button>>

SomeTurn == \E dt \in Turns : Turn(dt)

AutoNext(inputs) ==
    \/ SomeTurn
    \/ inputs = "chain" /\ (Rewrite \/ \E letter \in Letter : Log(letter))
    \/ inputs = "manual" /\ \E what \in Request : AskFor(what)

AutoSpec(inputs) == AutoInit(inputs) /\ [][AutoNext(inputs)]_autoVars

---------------------------------------------------------------------------
(* file_trigger.py: only what is appended after the start counts, and a text *)
(* that a read splits is still found: a trigger that has read all of a file  *)
(* that only grew has fired exactly if the text is in what was added.        *)
TextIsNoticed ==
    \A i \in DOMAIN trigger :
        ~replaced /\ trigger[i].offset = Len(logFile) =>
            trigger[i].fired = HasText(SubSeq(logFile, before + 1, Len(logFile)), Needle)

=============================================================================
