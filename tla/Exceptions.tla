------------------------------ MODULE Exceptions ------------------------------
(* Structured exceptions (seh.py). A fault the main loop finds, or a         *)
(* RaiseException of the guest, is offered to the handlers of the chain at   *)
(* FS:[0], innermost first. Handlers are guest code that the dispatcher calls*)
(* and waits for: one returns a disposition, faults itself, runs too long,   *)
(* raises an exception of its own, or calls RtlUnwind, which calls the       *)
(* handlers of the frames it leaves, and goes on in its __except block       *)
(* without ever returning. Frames of the chain are numbered from the outer-  *)
(* most: `head` stands for FS:[0], and the next record of k is k - 1.        *)
(* Handlers add no frame of their own and do not block.                      *)
EXTENDS Integers, Sequences, SequencesExt

CONSTANTS MaxFrames, MaxRaises \* bounds: frames of a chain, exceptions raised in a handler

VARIABLES
    head,        \* FS:[0]; 0 ends the chain
    acts,        \* calls of the host in progress, outermost first:
                 \*   [call |-> "dispatch", next, first, from, outer]
                 \*   [call |-> "unwind", next, first, target, called]
                 \*   [call |-> "handler", frame, why, landed]
    seh,         \* cpu._seh_dispatching, _seh_original_frame
    halted, faulted, fatal,
    raises,      \* exceptions raised since the program last ran: _STEP_LIMIT ends them
    over,        \* the main loop has ended
    hasty        \* code of an __except block may fault before it is noticed there

sehVars == <<head, acts, seh, halted, faulted, fatal, raises, over, hasty>>

NoDispatch == [dispatching |-> FALSE, frame |-> 0]
Top == Last(acts)
Below == Front(acts)
Calling(c) == acts # <<>> /\ Top.call = c

SehInit ==
    /\ head = 0 /\ acts = <<>> /\ seh = NoDispatch
    /\ halted = FALSE /\ faulted = FALSE /\ fatal = FALSE /\ over = FALSE /\ raises = 0
    /\ hasty \in BOOLEAN

(* Code of the program runs: at the bottom, or in the call of a handler that *)
(* has left for its __except block.                                          *)
InProgram == ~over /\ ~halted /\ (acts = <<>> \/ (Calling("handler") /\ Top.landed /\ hasty))
InHandler == ~over /\ ~halted /\ Calling("handler") /\ ~Top.landed
InSearch == InHandler /\ Top.why = "search"

---------------------------------------------------------------------------
(* A handler among the calls runs in a cpu.run of the RaiseException or      *)
(* RtlUnwind that called it, itself a callback of the CPU.                   *)
InCallback(calls) ==
    \E i \in 2..Len(calls) :
        calls[i].call = "handler" /\ (calls[i-1].call = "dispatch" => calls[i-1].from = "raise")

(* Every cpu.run of the calls raises FatalHaltError. A callback must not let *)
(* it out: handle_exception takes it for an error of the callback.           *)
FatalHalt(calls) ==
    /\ acts' = <<>> /\ over' = TRUE /\ halted' = TRUE /\ fatal' = TRUE
    /\ seh' = NoDispatch
    /\ faulted' = (faulted \/ InCallback(calls))

Handler(f, why) == [call |-> "handler", frame |-> f, why |-> why, landed |-> FALSE]

(* _invoke_handler up to its first cpu.run *)
Invoke(f, why) == acts' = Append(acts, Handler(f, why)) /\ halted' = FALSE /\ faulted' = FALSE

(* dispatch_exception *)
Dispatch(from) ==
    /\ acts' = Append(acts, [call |-> "dispatch", next |-> head, first |-> head, from |-> from, outer |-> seh])
    /\ seh' = [dispatching |-> TRUE, frame |-> head]

AfterDispatch(d) == d.outer

(* The handler that called is left for good when its call has landed in an   *)
(* __except block.                                                           *)
Abandoned(calls) == IF calls = <<>> THEN calls ELSE [calls EXCEPT ![Len(calls)].landed = TRUE]

(* A dispatch d over the calls `under` ends: somebody took the exception.    *)
Handled(d, under, landed) ==
    /\ acts' = IF landed THEN Abandoned(under) ELSE under
    /\ seh' = AfterDispatch(d)
    /\ faulted' = IF d.from = "loop" THEN FALSE ELSE faulted
    /\ halted' = FALSE
    /\ UNCHANGED <<head, fatal, over>>

(* ... or nobody did. *)
Unhandled(d) ==
    IF d.from = "loop"
    THEN /\ acts' = <<>> /\ seh' = AfterDispatch(d) /\ over' = TRUE
         /\ faulted' = TRUE /\ halted' = TRUE /\ UNCHANGED <<head, fatal>>
    ELSE FatalHalt(Below) /\ UNCHANGED head

---------------------------------------------------------------------------
(* The program. Entering and leaving a __try block changes the chain.        *)
EnterTry == acts = <<>> /\ InProgram /\ head < MaxFrames /\ head' = head + 1
            /\ UNCHANGED <<acts, seh, halted, faulted, fatal, over>>
LeaveTry == acts = <<>> /\ InProgram /\ head > 0 /\ head' = head - 1
            /\ UNCHANGED <<acts, seh, halted, faulted, fatal, over>>

(* ExitProcess *)
Exit == (InProgram \/ InHandler) /\ FatalHalt(acts) /\ UNCHANGED head

(* The main loop finds the CPU faulted. *)
Fault ==
    /\ acts = <<>> /\ InProgram
    /\ faulted' = TRUE /\ halted' = TRUE /\ Dispatch("loop")
    /\ UNCHANGED <<head, fatal, over>>

(* Code of the program or of a handler raises an exception: it calls         *)
(* RaiseException, or runs into the INT 3 of an assertion.                   *)
Raise ==
    /\ InProgram \/ InHandler
    /\ acts # <<>> => raises < MaxRaises
    /\ Dispatch("raise") /\ UNCHANGED <<head, halted, faulted, fatal, over>>
RaiseException == Raise
Int3 == Raise

---------------------------------------------------------------------------
(* _dispatch_exception: the next handler of the chain *)
Ask ==
    /\ ~over /\ Calling("dispatch") /\ Top.next # 0
    /\ Invoke(Top.next, "search") /\ UNCHANGED <<head, seh, fatal, over>>

Exhausted == ~over /\ Calling("dispatch") /\ Top.next = 0 /\ Unhandled(Top)

(* ExceptionContinueExecution *)
Continue == InSearch /\ Handled(Last(Below), Front(Below), FALSE)

(* Mutant: a handler that fails is asked again. *)
Declined_Again(d) == d

(* The handler declined, or crashed: the next one.                           *)
Declined(d) == [d EXCEPT !.next = @ - 1]

Search ==
    /\ InSearch /\ acts' = Append(Front(Below), Declined(Last(Below)))
    /\ halted' = FALSE /\ UNCHANGED <<head, seh, faulted, fatal, over>>

(* SehHandlerEscaped with a fault: of the handler, or of the __except block  *)
(* it has just gone to. In an unwind the frame is left all the same.         *)
Left(u) == [u EXCEPT !.next = @ - 1]
Crash ==
    /\ InHandler \/ (InProgram /\ Calling("handler"))
    /\ IF Top.why = "search"
       THEN acts' = Append(Front(Below), Declined(Last(Below))) /\ UNCHANGED head
       ELSE acts' = Append(Front(Below), Left(Last(Below))) /\ head' = Last(Below).next - 1
    /\ UNCHANGED <<seh, halted, faulted, fatal, over>>

(* SehHandlerTimeout after _STEP_LIMIT steps: a fatal halt *)
Timeout ==
    /\ InHandler
    /\ IF Top.why = "search" /\ Last(Below).from = "loop"
       THEN /\ acts' = <<>> /\ seh' = AfterDispatch(Last(Below)) /\ over' = TRUE
            /\ faulted' = TRUE /\ halted' = TRUE /\ fatal' = TRUE /\ UNCHANGED head
       ELSE FatalHalt(Below) /\ UNCHANGED head

---------------------------------------------------------------------------
(* RtlUnwind(target): the head of the chain is not called. *)
RtlUnwind(target) ==
    LET start == IF head \in {0, target} THEN head ELSE head - 1
    IN /\ acts' = Append(acts, [call |-> "unwind", next |-> start, first |-> head,
                                target |-> target, called |-> {}])
       /\ head' = start
       /\ UNCHANGED <<seh, halted, faulted, fatal, over>>

(* A handler takes the exception: it unwinds to its own frame.               *)
Take == InSearch /\ RtlUnwind(Top.frame)

(* longjmp through frames of the program *)
Jump == acts = <<>> /\ InProgram /\ \E f \in 1..head : RtlUnwind(f)

UnwindFrame ==
    /\ ~over /\ Calling("unwind") /\ Top.next \notin {0, Top.target}
    /\ acts' = Append([acts EXCEPT ![Len(acts)].called = @ \cup {Top.next}], Handler(Top.next, "unwind"))
    /\ halted' = FALSE /\ UNCHANGED <<head, seh, faulted, fatal, over>>

(* Mutant: the frame stays on the chain. *)
Popped_Kept(u) == head
Popped(u) == u.next - 1

(* The handler of a frame that is left returns. *)
Finally ==
    /\ InHandler /\ Top.why = "unwind"
    /\ acts' = Append(Front(Below), Left(Last(Below))) /\ head' = Popped(Last(Below))
    /\ halted' = FALSE /\ UNCHANGED <<seh, faulted, fatal, over>>

(* The CPU goes on at TargetIp, for a handler in its __except block. *)
Unwound ==
    /\ ~over /\ Calling("unwind") /\ Top.next \in {0, Top.target}
    /\ acts' = IF Below = <<>> THEN <<>> ELSE [Below EXCEPT ![Len(Below)].landed = TRUE]
    /\ UNCHANGED <<head, seh, halted, faulted, fatal, over>>

(* _invoke_handler sees EIP far from the handler: SehHandlerEscaped. For a   *)
(* handler called to unwind that is unexpected, and the unwind goes on.      *)
Noticed ==
    /\ ~over /\ Calling("handler") /\ Top.landed
    /\ IF Top.why = "search" THEN Handled(Last(Below), Front(Below), TRUE)
       ELSE /\ acts' = Append(Front(Below), Left(Last(Below))) /\ head' = Popped(Last(Below))
            /\ halted' = FALSE /\ UNCHANGED <<seh, faulted, fatal, over>>

HandlerEnds == Continue \/ Search \/ Crash \/ Timeout \/ Take \/ Finally \/ Noticed

Counted ==
    raises' = IF acts' = <<>> THEN 0
              ELSE IF acts # <<>> /\ Len(acts') > Len(acts) /\ Last(acts').call = "dispatch"
              THEN raises + 1 ELSE raises

SehNext ==
    /\ \/ EnterTry \/ LeaveTry \/ Exit \/ Fault \/ RaiseException \/ Int3 \/ Jump
       \/ Ask \/ Exhausted \/ UnwindFrame \/ Unwound
       \/ HandlerEnds
    /\ Counted /\ UNCHANGED hasty

SehSpec == SehInit /\ [][SehNext]_sehVars

(* A handler that neither returns nor leaves is stopped by the step limit.   *)
SehSteps ==
    /\ Ask \/ Exhausted \/ UnwindFrame \/ Unwound \/ HandlerEnds
    /\ Counted /\ UNCHANGED hasty

---------------------------------------------------------------------------

(* An unwind that is done has called the handler of every frame it left but  *)
(* the one at the head, and the chain begins with its target.                *)
FinallyRuns ==
    Calling("unwind") /\ Top.next \in {0, Top.target} /\ Top.target < Top.first =>
        Top.called = (Top.target + 1)..(Top.first - 1) /\ head = Top.target

(* Every dispatch ends, and with it every call it made. *)
DispatchEnds == Calling("dispatch") ~> acts = <<>>
===============================================================================
