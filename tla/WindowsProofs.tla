----------------------------- MODULE WindowsProofs -----------------------------
(***************************************************************************)
(* The message queue, for any template, number of windows, messages and    *)
(* events, and any depth of calls: messages stay in the order they were    *)
(* posted in, a dialog's procedure hears of WM_INITDIALOG first, and no    *)
(* message is lost.                                                        *)
(*                                                                         *)
(* What makes the first two inductive is that nothing in the queue is for  *)
(* a handle not given out yet, so that the WM_INITDIALOG CreateDialog      *)
(* looks for is the last message; and that a WM_INITDIALOG waits for a     *)
(* live window only while the loop of its dialog, which is not done, is    *)
(* the innermost activation.                                               *)
(***************************************************************************)
EXTENDS Windows, DataLemmas

Increasing(q) == \A i, j \in DOMAIN q : i < j => q[i].n < q[j].n

WindowsKnown ==
    /\ nextHwnd \in 1 .. MaxHwnd + 1
    /\ Live \subseteq 1 .. nextHwnd - 1
    /\ \A h \in Live : windows[h] \in WindowEntry
    /\ sdl \subseteq 1 .. MaxHwnd

QueueTidy ==
    /\ queue \in Seq(Messages)
    /\ posted \in 0 .. MaxActs
    /\ focus \in 0 .. nextHwnd - 1
    /\ Increasing(queue)
    /\ \A i \in DOMAIN queue : queue[i].n <= posted /\ queue[i].hwnd < nextHwnd

StackTidy ==
    /\ stack \in Seq(Activation) /\ stack # << >> /\ stack[1].kind = "main"
    /\ pending \in Seq([depth : Nat, hwnd : 1 .. MaxHwnd])
    /\ hooks \in [HookKinds -> Seq(1 .. MaxActs)]
    /\ nextHook \in 1 .. MaxActs + 1
    /\ phase \in {"running", "fatal", "astray"}

\* The message at i of q is the WM_INITDIALOG of one of the windows in live.
IsInit(q, i, live) == q[i].msg = "INIT" /\ q[i].hwnd \in live

InitsTidy ==
    \A i \in DOMAIN queue :
        phase = "running" /\ IsInit(queue, i, Live)
        => /\ Top.kind = "modal" /\ Top.of = queue[i].hwnd
           /\ ~ windows[queue[i].hwnd].done
           /\ \A j \in 1 .. i - 1 : queue[j].hwnd # queue[i].hwnd

WindowsInv == WindowsKnown /\ QueueTidy /\ StackTidy /\ InitsTidy

\* The invariant contains the type invariant and the order of messages.
LEMMA WindowsInvImplies == WindowsInv => TypeOK /\ MessagesInOrder
<1> SUFFICES ASSUME WindowsInv PROVE TypeOK /\ MessagesInOrder
  OBVIOUS
<1>1. TypeOK
  <2>1. focus \in 0 .. MaxHwnd
    BY BoundsAssumption DEF WindowsInv, QueueTidy, WindowsKnown
  <2> QED BY <2>1 DEF WindowsInv, WindowsKnown, QueueTidy, StackTidy, TypeOK
<1>2. QueueInOrder
  BY DEF WindowsInv, QueueTidy, Increasing, QueueInOrder
<1>3. InitFirst
  BY DEF WindowsInv, InitsTidy, IsInit, InitFirst
<1> QED BY <1>1, <1>2, <1>3 DEF MessagesInOrder

\* It holds when the program starts.
LEMMA WindowsStart == Init => WindowsInv
<1> SUFFICES ASSUME Init PROVE WindowsInv
  OBVIOUS
<1>1. WindowsKnown
  BY BoundsAssumption DEF Init, WindowsKnown, Live
<1>2. QueueTidy
  BY BoundsAssumption DEF Init, QueueTidy, Increasing
<1>3. StackTidy
  <2>1. Entry("main", 0, "none") \in Activation
    BY DEF Entry, Activation, NoMessage
  <2>2. Entry("main", 0, "none").kind = "main"
    BY DEF Entry
  <2> HIDE DEF Entry
  <2>3. stack \in Seq(Activation) /\ stack # << >> /\ stack[1].kind = "main"
    BY <2>1, <2>2 DEF Init
  <2> QED BY <2>3, BoundsAssumption DEF Init, StackTidy
<1>4. InitsTidy
  BY DEF Init, InitsTidy
<1> QED BY <1>1, <1>2, <1>3, <1>4 DEF WindowsInv

-----------------------------------------------------------------------------
(* What a pump of SDL events makes of the queue: it only appends, no        *)
(* WM_INITDIALOG, and only for handles given out.                           *)

Posting == [hwnd : 1 .. MaxHwnd, msg : {"INIT", "COMMAND", "KEY", "OTHER"}, n : Nat \ {0}]

\* An inbox that came of the present one when `next` is the next handle.
Good(in, next) ==
    /\ in = [queue |-> in.queue, posted |-> in.posted, focus |-> in.focus]
    /\ in.queue \in Seq(Posting) /\ in.posted \in Nat /\ in.focus \in 0 .. next - 1
    /\ Len(queue) <= Len(in.queue)
    /\ \A i \in 1 .. Len(queue) : in.queue[i] = queue[i]
    /\ Increasing(in.queue)
    /\ \A i \in 1 .. Len(in.queue) : in.queue[i].n <= in.posted /\ in.queue[i].hwnd < next
    /\ \A i \in Len(queue) + 1 .. Len(in.queue) : in.queue[i].msg # "INIT"

\* Nothing has been pumped yet.
LEMMA InboxGood ==
    ASSUME QueueTidy, NEW next \in Nat, nextHwnd \in Nat, nextHwnd <= next
    PROVE  Good(Inbox, next)
<1>1. Messages \subseteq Posting
  BY BoundsAssumption DEF Messages, Posting
<1>2. queue \in Seq(Posting)
  BY <1>1 DEF QueueTidy
<1>3. posted \in Nat /\ focus \in 0 .. next - 1 /\ Increasing(queue)
  BY BoundsAssumption DEF QueueTidy
<1>4. \A i \in 1 .. Len(queue) : queue[i].n <= posted /\ queue[i].hwnd < next
  <2>0. \A i \in 1 .. Len(queue) : queue[i] \in Posting
    BY <1>2
  <2>1. \A i \in 1 .. Len(queue) : queue[i].hwnd \in Nat
    BY <2>0 DEF Posting
  <2> QED BY <2>1 DEF QueueTidy
<1> QED BY <1>2, <1>3, <1>4 DEF Good, Inbox

\* One more message.
LEMMA QueuedGood ==
    ASSUME QueueTidy, NEW in, NEW next \in 1 .. MaxHwnd + 1, Good(in, next),
           NEW h \in 1 .. next - 1, NEW msg \in {"COMMAND", "KEY", "OTHER"}
    PROVE  Good(Queued(in, h, msg), next)
<1> DEFINE m == [hwnd |-> h, msg |-> msg, n |-> in.posted + 1]
           q == Append(in.queue, m)
<1>1. Queued(in, h, msg) = [queue |-> q, posted |-> in.posted + 1, focus |-> in.focus]
  <2>1. PICK a, b, c : in = [queue |-> a, posted |-> b, focus |-> c]
    BY DEF Good
  <2>2. in.queue = a /\ in.posted = b /\ in.focus = c
    BY <2>1
  <2> DEFINE x == Append(a, [hwnd |-> h, msg |-> msg, n |-> b + 1])
             y == b + 1
  <2>3. Queued(in, h, msg) = [in EXCEPT !.queue = x, !.posted = y]
    BY <2>2 DEF Queued
  <2>4. [in EXCEPT !.queue = x, !.posted = y] = [queue |-> x, posted |-> y, focus |-> c]
    <3> HIDE DEF x, y
    <3>1. [in EXCEPT !.queue = x] = [queue |-> x, posted |-> b, focus |-> c]
      BY <2>1
    <3>2. [[queue |-> x, posted |-> b, focus |-> c] EXCEPT !.posted = y]
             = [queue |-> x, posted |-> y, focus |-> c]
      OBVIOUS
    <3> QED BY <3>1, <3>2
  <2>5. Queued(in, h, msg) = [queue |-> x, posted |-> y, focus |-> c]
    BY <2>3, <2>4
  <2> QED BY <2>2, <2>5
<1>2. m \in Posting /\ m.n = in.posted + 1 /\ m.hwnd = h /\ m.msg # "INIT"
  BY BoundsAssumption DEF Posting, Good
<1>3. in.queue \in Seq(Posting) /\ in.posted \in Nat /\ Len(queue) \in Nat
  BY DEF Good, QueueTidy
<1> HIDE DEF m
<1>4. /\ q \in Seq(Posting) /\ Len(q) = Len(in.queue) + 1 /\ Len(in.queue) \in Nat
      /\ \A i \in 1 .. Len(in.queue) : q[i] = in.queue[i]
      /\ q[Len(in.queue) + 1] = m
  BY <1>2, <1>3
<1> HIDE DEF q
<1>5. \A i \in 1 .. Len(in.queue) : /\ in.queue[i].n \in Nat /\ in.queue[i].n <= in.posted
                                   /\ in.queue[i].hwnd \in Nat /\ in.queue[i].hwnd < next
  <2>1. \A i \in 1 .. Len(in.queue) : in.queue[i] \in Posting
    BY <1>3
  <2> QED BY <2>1 DEF Good, Posting
<1>6. \A i \in 1 .. Len(q) : i = Len(in.queue) + 1 \/ i \in 1 .. Len(in.queue)
  BY <1>4
<1>7. Increasing(q)
  <2>1. DOMAIN q = 1 .. Len(q) /\ DOMAIN in.queue = 1 .. Len(in.queue)
    BY <1>3, <1>4
  <2>2. \A i, j \in 1 .. Len(in.queue) : i < j => in.queue[i].n < in.queue[j].n
    BY <2>1 DEF Good, Increasing
  <2> SUFFICES ASSUME NEW i \in 1 .. Len(q), NEW j \in 1 .. Len(q), i < j
               PROVE  q[i].n < q[j].n
    BY <2>1 DEF Increasing
  <2>3. i \in 1 .. Len(in.queue) /\ q[i] = in.queue[i]
    <3>1. i \in 1 .. Len(in.queue)
      BY <1>4
    <3> QED BY <3>1, <1>4
  <2>4. CASE j \in 1 .. Len(in.queue)
    <3>1. q[j] = in.queue[j]
      BY <1>4, <2>4
    <3> QED BY <2>2, <2>3, <2>4, <3>1
  <2>5. CASE j = Len(in.queue) + 1
    <3>1. q[j].n = in.posted + 1
      BY <1>2, <1>4, <2>5
    <3>2. q[i].n \in Nat /\ q[i].n <= in.posted
      BY <1>5, <2>3
    <3>3. in.posted \in Nat
      BY <1>3
    <3> QED BY <3>1, <3>2, <3>3
  <2> QED BY <2>4, <2>5, <1>6
<1>8. \A i \in 1 .. Len(q) : q[i].n <= in.posted + 1 /\ q[i].hwnd < next
  <2> SUFFICES ASSUME NEW i \in 1 .. Len(q) PROVE q[i].n <= in.posted + 1 /\ q[i].hwnd < next
    OBVIOUS
  <2>1. CASE i \in 1 .. Len(in.queue)
    <3>1. q[i] = in.queue[i]
      BY <2>1, <1>4
    <3>2. in.queue[i].n \in Nat /\ in.queue[i].n <= in.posted /\ in.queue[i].hwnd < next
      BY <2>1, <1>5
    <3> QED BY <3>1, <3>2, <1>3
  <2>2. CASE i = Len(in.queue) + 1
    <3>1. q[i] = m
      BY <2>2, <1>4
    <3> QED BY <3>1, <1>2, <1>3
  <2> QED BY <2>1, <2>2, <1>6
<1>9. Len(queue) <= Len(q) /\ \A i \in 1 .. Len(queue) : q[i] = queue[i]
  BY <1>3, <1>4 DEF Good
<1>10. \A i \in Len(queue) + 1 .. Len(q) : q[i].msg # "INIT"
  <2> SUFFICES ASSUME NEW i \in Len(queue) + 1 .. Len(q) PROVE q[i].msg # "INIT"
    OBVIOUS
  <2>1. CASE i = Len(in.queue) + 1
    BY <2>1, <1>2, <1>4
  <2>2. CASE i \in Len(queue) + 1 .. Len(in.queue)
    <3>1. i \in 1 .. Len(in.queue)
      BY <2>2, <1>3
    <3> QED BY <2>2, <3>1, <1>4 DEF Good
  <2> QED BY <2>1, <2>2, <1>3, <1>4
<1>11. in.focus \in 0 .. next - 1
  BY DEF Good
<1> QED BY <1>1, <1>3, <1>4, <1>7, <1>8, <1>9, <1>10, <1>11 DEF Good

\* The focus moves.
LEMMA FocusGood ==
    ASSUME NEW in, NEW next, Good(in, next), NEW f \in 0 .. next - 1
    PROVE  Good([in EXCEPT !.focus = f], next)
<1>1. [in EXCEPT !.focus = f] = [queue |-> in.queue, posted |-> in.posted, focus |-> f]
  BY DEF Good
<1> QED BY <1>1 DEF Good

\* The controls of a window are live.
LEMMA ControlsLive ==
    ASSUME WindowsKnown, NEW h
    PROVE  Controls(h) \in Seq(1 .. MaxHwnd) /\ Range(Controls(h)) \subseteq Live
<1>1. CASE h \in Live
  <2>1. windows[h].controls \in Seq(1 .. MaxHwnd)
    BY <1>1 DEF WindowsKnown, WindowEntry
  <2>2. Controls(h) = Kept(windows[h].controls, Live)
    BY <1>1 DEF Controls
  <2>3. /\ Kept(windows[h].controls, Live) \in Seq(1 .. MaxHwnd)
        /\ Range(Kept(windows[h].controls, Live)) = Range(windows[h].controls) \cap Live
    BY <2>1, KeptRange
  <2> QED BY <2>2, <2>3
<1>2. CASE h \notin Live
  BY <1>2 DEF Controls, Range
<1> QED BY <1>1, <1>2

\* Tab moves the focus to a live control, or not at all.
LEMMA NextEditGiven ==
    ASSUME WindowsKnown, NEW h \in 0 .. nextHwnd - 1
    PROVE  NextEdit(h) \in 0 .. nextHwnd - 1
<1> DEFINE s == Controls(Parent(h))
           edits == Kept(s, {c \in Live : windows[c].class = "edit"})
           i == CHOOSE i \in DOMAIN edits : edits[i] = h
<1>1. s \in Seq(1 .. MaxHwnd) /\ Range(s) \subseteq Live
  BY ControlsLive
<1>2. edits \in Seq(1 .. MaxHwnd) /\ Range(edits) \subseteq Live
  <2> HIDE DEF s
  <2>1. /\ edits \in Seq(1 .. MaxHwnd)
        /\ Range(edits) = Range(s) \cap {c \in Live : windows[c].class = "edit"}
    BY <1>1, KeptRange
  <2> QED BY <1>1, <2>1
<1>3. NextEdit(h) = IF Len(edits) <= 1 THEN h
                    ELSE IF ~ Contains(edits, h) THEN edits[1]
                    ELSE edits[(i % Len(edits)) + 1]
  BY DEF NextEdit
<1> HIDE DEF edits
<1>4. \A x \in 1 .. Len(edits) : edits[x] \in 0 .. nextHwnd - 1
  <2>1. \A x \in 1 .. Len(edits) : edits[x] \in Live
    BY <1>2 DEF Range
  <2>2. Live \subseteq 0 .. nextHwnd - 1
    BY DEF WindowsKnown
  <2> QED BY <2>1, <2>2
<1>5. CASE Len(edits) <= 1
  BY <1>3, <1>5
<1>6. CASE Len(edits) > 1 /\ ~ Contains(edits, h)
  BY <1>2, <1>3, <1>4, <1>6
<1>7. CASE Len(edits) > 1 /\ Contains(edits, h)
  <2>1. \E x \in DOMAIN edits : edits[x] = h
    BY <1>2, <1>7 DEF Contains
  <2>2. i \in DOMAIN edits
    BY <2>1
  <2>3. Len(edits) \in Nat /\ i \in 1 .. Len(edits)
    BY <1>2, <2>2
  <2> HIDE DEF i
  <2>4. (i % Len(edits)) + 1 \in 1 .. Len(edits)
    BY <2>3, <1>7
  <2> QED BY <1>3, <1>4, <1>7, <2>4
<1>8. Len(edits) \in Nat
  BY <1>2
<1> QED BY <1>5, <1>6, <1>7, <1>8

\* One event: the queue grows by messages for handles given out.
LEMMA HandledGood ==
    ASSUME WindowsKnown, QueueTidy, NEW in, Good(in, nextHwnd), NEW out \in Handled(in)
    PROVE  Good(out, nextHwnd)
<1>0. /\ nextHwnd \in 1 .. MaxHwnd + 1 /\ nextHwnd \in Nat
      /\ Live \subseteq 1 .. nextHwnd - 1
  BY BoundsAssumption DEF WindowsKnown
<1>1. PICK on \in 1 .. nextHwnd - 1 :
         \/ out = Pointed(in, on)
         \/ out = FocusChanged(in, on)
         \/ \E hit \in {0} \union ToSet(Controls(on)) : out = Pressed(in, on, hit)
         \/ \E key \in {"enter", "escape", "tab", "other"} : out = Keyed(in, on, key)
  BY DEF Handled
<1>2. \A one : Good(one, nextHwnd) => Good(Pointed(one, on), nextHwnd)
  BY <1>0, QueuedGood DEF Pointed
<1>3. Good(Pointed(in, on), nextHwnd) /\ Good(FocusChanged(in, on), nextHwnd)
  BY <1>2 DEF FocusChanged
<1>4. ASSUME NEW hit \in {0} \union ToSet(Controls(on))
      PROVE  Good(Pressed(in, on, hit), nextHwnd)
  <2>1. Good(Queued(Pointed(in, on), on, "COMMAND"), nextHwnd)
    BY <1>0, <1>3, QueuedGood
  <2>2. hit # 0 => hit \in 0 .. nextHwnd - 1
    <3>1. hit # 0 => hit \in Range(Controls(on))
      BY DEF ToSet, Range
    <3> QED BY <3>1, <1>0, ControlsLive
  <2>3. hit # 0 => Good([Pointed(in, on) EXCEPT !.focus = hit], nextHwnd)
    BY <1>3, <2>2, FocusGood
  <2> QED BY <1>3, <2>1, <2>3 DEF Pressed
<1>5. ASSUME NEW key \in {"enter", "escape", "tab", "other"}
      PROVE  Good(Keyed(in, on, key), nextHwnd)
  <2> DEFINE f == in.focus
             pressed == IF /\ key \in {"enter", "escape"}
                           /\ HasControl(Parent(f), ButtonOf(key))
                        THEN Queued(in, Parent(f), "COMMAND")
                        ELSE in
             moved == IF key = "tab" THEN [in EXCEPT !.focus = NextEdit(f)] ELSE pressed
  <2>1. f \in 0 .. nextHwnd - 1
    BY DEF Good
  <2>2. Good(pressed, nextHwnd)
    <3>1. CASE HasControl(Parent(f), ButtonOf(key))
      <4>1. Parent(f) \in 1 .. nextHwnd - 1
        BY <1>0, <3>1 DEF HasControl
      <4> QED BY <1>0, <4>1, QueuedGood
    <3> QED BY <3>1
  <2>3. Good([in EXCEPT !.focus = NextEdit(f)], nextHwnd)
    BY <2>1, NextEditGiven, FocusGood
  <2>4. Good(moved, nextHwnd)
    BY <2>2, <2>3
  <2>5. Keyed(in, on, key) = IF f = 0 THEN IF on \in sdl THEN Queued(in, on, "KEY") ELSE in
                             ELSE Queued(moved, f, "KEY")
    BY DEF Keyed
  <2>6. Good(Queued(in, on, "KEY"), nextHwnd)
    BY <1>0, QueuedGood
  <2> HIDE DEF moved, f
  <2>7. f # 0 => f \in 1 .. nextHwnd - 1
    BY <2>1, <1>0
  <2>8. f # 0 => Good(Queued(moved, f, "KEY"), nextHwnd)
    BY <1>0, <2>4, <2>7, QueuedGood
  <2> QED BY <2>5, <2>6, <2>8
<1> QED BY <1>1, <1>3, <1>4, <1>5

\* Every event of a pump, however many there are.
LEMMA PumpedGood ==
    ASSUME WindowsKnown, QueueTidy, NEW in \in Pumped
    PROVE  Good(in, nextHwnd) /\ in.posted + nextHook - 1 <= MaxActs
<1> DEFINE More(g, k) == IF k = 0 THEN {Inbox}
                         ELSE g[k - 1] \union UNION {Handled(one) : one \in g[k - 1]}
           Defines(g, n) == g = [k \in 0 .. n |-> More(g, k)]
           S == {n \in Nat : \E g : Defines(g, n)}
           after == CHOOSE g : Defines(g, MaxEvents)
<1>1. 0 \in S
  <2> DEFINE g == [k \in 0 .. 0 |-> {Inbox}]
  <2>1. \A k \in 0 .. 0 : g[k] = More(g, k)
    OBVIOUS
  <2>2. Defines(g, 0)
    BY <2>1
  <2> QED BY <2>2
<1>2. ASSUME NEW n \in S PROVE n + 1 \in S
  <2>1. PICK g : Defines(g, n)
    OBVIOUS
  <2> DEFINE h == [k \in 0 .. n + 1 |-> IF k = n + 1
                                        THEN g[n] \union UNION {Handled(one) : one \in g[n]}
                                        ELSE g[k]]
  <2>2. \A k \in 0 .. n : g[k] = More(g, k) /\ h[k] = g[k]
    <3>1. \A k \in 0 .. n : k \in 0 .. n + 1 /\ k # n + 1
      OBVIOUS
    <3>2. \A k \in 0 .. n : h[k] = g[k]
      BY <3>1
    <3> HIDE DEF More
    <3>3. \A k \in 0 .. n : g[k] = More(g, k)
      BY <2>1
    <3> QED BY <3>2, <3>3
  <2>3. ASSUME NEW k \in 0 .. n + 1 PROVE h[k] = More(h, k)
    <3>1. CASE k = n + 1
      <4>1. n \in 0 .. n /\ n + 1 \in 0 .. n + 1 /\ n + 1 # 0 /\ (n + 1) - 1 = n
        OBVIOUS
      <4>2. h[n + 1] = g[n] \union UNION {Handled(one) : one \in g[n]} /\ h[n] = g[n]
        BY <2>2, <4>1
      <4>3. More(h, n + 1) = h[n] \union UNION {Handled(one) : one \in h[n]}
        BY <4>1
      <4> HIDE DEF h, More
      <4> QED BY <3>1, <4>2, <4>3
    <3>2. CASE k = 0
      <4>1. 0 \in 0 .. n
        OBVIOUS
      <4>2. h[0] = g[0] /\ g[0] = More(g, 0)
        <5> HIDE DEF h, More
        <5> QED BY <2>2, <4>1
      <4> HIDE DEF h
      <4> QED BY <3>2, <4>2
    <3>3. CASE k \in 1 .. n
      <4>1. k - 1 \in 0 .. n /\ k \in 0 .. n /\ k # 0
        BY <3>3
      <4>2. h[k - 1] = g[k - 1] /\ h[k] = More(g, k)
        BY <2>2, <4>1
      <4> QED BY <4>1, <4>2
    <3> QED BY <3>1, <3>2, <3>3
  <2>4. h = [k \in 0 .. n + 1 |-> h[k]]
    OBVIOUS
  <2> HIDE DEF h, More
  <2>5. Defines(h, n + 1)
    BY <2>3, <2>4
  <2> QED BY <2>5
<1>3. MaxEvents \in S /\ MaxEvents \in Nat
  <2> HIDE DEF S
  <2>1. S \subseteq Nat
    BY DEF S
  <2>2. S = Nat
    BY <1>1, <1>2, <2>1, Induction
  <2> QED BY <2>2, BoundsAssumption
<1>4. Defines(after, MaxEvents)
  BY <1>3
<1>5. Pumped = {one \in after[MaxEvents] : Within(one.posted, nextHook)}
  BY DEF Pumped
<1> HIDE DEF after
<1>6. \A k \in 0 .. MaxEvents : after[k] = More(after, k)
  <2> HIDE DEF More
  <2> QED BY <1>4
<1> DEFINE T == {n \in Nat : n <= MaxEvents => \A one \in after[n] : Good(one, nextHwnd)}
<1>7. 0 \in T
  <2>1. Good(Inbox, nextHwnd)
    BY InboxGood, BoundsAssumption DEF WindowsKnown
  <2>2. after[0] = {Inbox}
    <3>1. 0 \in 0 .. MaxEvents
      BY <1>3
    <3>2. after[0] = More(after, 0)
      <4> HIDE DEF More
      <4> QED BY <1>6, <3>1
    <3> QED BY <3>2
  <2> QED BY <2>1, <2>2
<1>8. ASSUME NEW n \in T PROVE n + 1 \in T
  <2> SUFFICES ASSUME n + 1 <= MaxEvents, NEW one \in after[n + 1] PROVE Good(one, nextHwnd)
    OBVIOUS
  <2>1. n + 1 \in 0 .. MaxEvents /\ n + 1 # 0 /\ (n + 1) - 1 = n
    BY <1>3
  <2>2. after[n + 1] = after[n] \union UNION {Handled(before) : before \in after[n]}
    BY <1>6, <2>1
  <2>3. \A before \in after[n] : Good(before, nextHwnd)
    BY <1>3
  <2> QED BY <2>2, <2>3, HandledGood
<1>9. MaxEvents \in T
  <2> HIDE DEF T
  <2>1. T \subseteq Nat
    BY DEF T
  <2>2. T = Nat
    BY <1>7, <1>8, <2>1, Induction
  <2> QED BY <2>2, <1>3
<1> QED BY <1>3, <1>5, <1>9 DEF Within

-----------------------------------------------------------------------------
(* The queue after a step.                                                  *)

\* No WM_INITDIALOG comes into the queue but what was there.
InitsRemain == \A i \in DOMAIN queue' : queue'[i].msg = "INIT" => queue'[i] \in Range(queue)

\* What is received is tidy, and what was there is still there but its head.
LEMMA Received ==
    ASSUME WindowsKnown, StackTidy, QueueTidy, NEW next \in nextHwnd .. MaxHwnd + 1, NEW in,
           Good(in, next), nextHwnd' = next, in.posted + nextHook - 1 <= MaxActs,
           posted' = in.posted, focus' = in.focus,
           queue' = in.queue \/ (in.queue # << >> /\ queue' = Tail(in.queue))
    PROVE  /\ QueueTidy' /\ InitsRemain
           /\ \A m \in Range(queue) : m \in Range(queue') \/ (m = Head(in.queue) /\ queue' # in.queue)
<1> DEFINE q == in.queue
           p == in.posted
<1>1. /\ q \in Seq(Posting) /\ p \in Nat /\ Len(queue) <= Len(q)
      /\ \A i \in 1 .. Len(queue) : q[i] = queue[i]
      /\ Increasing(q)
      /\ \A i \in 1 .. Len(q) : q[i].n <= p /\ q[i].hwnd < next
      /\ \A i \in Len(queue) + 1 .. Len(q) : q[i].msg # "INIT"
      /\ focus' \in 0 .. next - 1 /\ posted' = p /\ nextHook \in Nat \ {0} /\ p \in 0 .. MaxActs
      /\ Len(queue) \in Nat
  <2>1. /\ q \in Seq(Posting) /\ p \in Nat /\ Len(queue) <= Len(q)
        /\ \A i \in 1 .. Len(queue) : q[i] = queue[i]
        /\ Increasing(q)
        /\ \A i \in 1 .. Len(q) : q[i].n <= p /\ q[i].hwnd < next
        /\ \A i \in Len(queue) + 1 .. Len(q) : q[i].msg # "INIT"
        /\ in.focus \in 0 .. next - 1
    BY DEF Good
  <2>2. nextHook \in Nat \ {0} /\ Len(queue) \in Nat
    BY BoundsAssumption DEF StackTidy, QueueTidy
  <2>3. posted' = p /\ focus' \in 0 .. next - 1
    BY <2>1
  <2>4. p \in 0 .. MaxActs
    BY <2>1, <2>2, BoundsAssumption
  <2> HIDE DEF q, p
  <2> QED BY <2>1, <2>2, <2>3, <2>4
<1>2. queue' = q \/ (q # << >> /\ queue' = Tail(q))
  OBVIOUS
<1> HIDE DEF q, p
<1>3. \A i \in 1 .. Len(q) : q[i] \in Messages
  <2> SUFFICES ASSUME NEW i \in 1 .. Len(q) PROVE q[i] \in Messages
    OBVIOUS
  <2>1. q[i] \in Posting /\ q[i].n <= p
    BY <1>1
  <2>2. q[i].n \in 1 .. MaxActs
    <3>1. q[i].n \in Nat \ {0}
      BY <2>1 DEF Posting
    <3> QED BY <1>1, <2>1, <3>1, BoundsAssumption
  <2> QED BY <2>1, <2>2 DEF Posting, Messages
<1>4. q \in Seq(Messages)
  BY <1>1, <1>3
<1>5. \A i \in 1 .. Len(q) : q[i].msg = "INIT" => q[i] \in Range(queue)
  <2> SUFFICES ASSUME NEW i \in 1 .. Len(q), q[i].msg = "INIT" PROVE q[i] \in Range(queue)
    OBVIOUS
  <2>1. i \in 1 .. Len(queue)
    BY <1>1
  <2> QED BY <1>1, <2>1 DEF Range, QueueTidy
<1>6. \A m \in Range(queue) : \E i \in 1 .. Len(q) : q[i] = m
  BY <1>1 DEF Range, QueueTidy
<1>7. CASE queue' = q
  <2>1. QueueTidy'
    BY <1>1, <1>4, <1>7 DEF QueueTidy, Increasing
  <2>2. InitsRemain
    BY <1>1, <1>5, <1>7 DEF InitsRemain
  <2>3. \A m \in Range(queue) : m \in Range(queue')
    <3>1. DOMAIN q = 1 .. Len(q)
      BY <1>4
    <3> QED BY <1>6, <1>7, <3>1 DEF Range
  <2> QED BY <2>1, <2>2, <2>3
<1>8. CASE q # << >> /\ queue' = Tail(q)
  <2>1. /\ Tail(q) \in Seq(Messages) /\ Len(Tail(q)) = Len(q) - 1
        /\ \A i \in 1 .. Len(q) - 1 : Tail(q)[i] = q[i + 1]
        /\ Head(q) = q[1] /\ Len(q) \in Nat \ {0}
    BY <1>4, <1>8
  <2>2. Increasing(Tail(q))
    <3> SUFFICES ASSUME NEW i \in 1 .. Len(q) - 1, NEW j \in 1 .. Len(q) - 1, i < j
                 PROVE  Tail(q)[i].n < Tail(q)[j].n
      BY <2>1 DEF Increasing
    <3>1. i + 1 \in 1 .. Len(q) /\ j + 1 \in 1 .. Len(q) /\ i + 1 < j + 1
      BY <2>1
    <3>2. q[i + 1].n < q[j + 1].n
      <4>1. DOMAIN q = 1 .. Len(q) /\ Increasing(q)
        BY <1>1, <1>4
      <4> QED BY <3>1, <4>1 DEF Increasing
    <3> QED BY <2>1, <3>2
  <2>3. \A i \in 1 .. Len(q) - 1 : Tail(q)[i].n <= p /\ Tail(q)[i].hwnd < next
    BY <1>1, <2>1
  <2>4. QueueTidy'
    BY <1>1, <1>8, <2>1, <2>2, <2>3 DEF QueueTidy
  <2>5. InitsRemain
    BY <1>5, <1>8, <2>1 DEF InitsRemain
  <2>6. ASSUME NEW m \in Range(queue) PROVE m \in Range(queue') \/ m = Head(q)
    <3>1. PICK i \in 1 .. Len(q) : q[i] = m
      BY <1>6
    <3>2. CASE i = 1
      BY <2>1, <3>1, <3>2
    <3>3. CASE i # 1
      <4>1. i - 1 \in 1 .. Len(q) - 1 /\ (i - 1) + 1 = i
        BY <2>1, <3>3
      <4> QED BY <1>8, <2>1, <3>1, <4>1 DEF Range
    <3> QED BY <3>2, <3>3
  <2>7. queue' # q
    <3>1. Len(Tail(q)) # Len(q)
      <4>1. \A n \in Nat \ {0} : n - 1 # n
        OBVIOUS
      <4>2. Len(q) \in Nat \ {0} /\ Len(Tail(q)) = Len(q) - 1
        BY <2>1
      <4> QED BY <4>1, <4>2, Zenon
    <3> QED BY <1>8, <3>1
  <2> QED BY <2>4, <2>5, <2>6, <2>7 DEF q
<1> QED BY <1>2, <1>7, <1>8

\* What CreateDialog keeps of the queue: the messages for live windows.
LEMMA DrainedIs ==
    ASSUME WindowsKnown, QueueTidy, posted + 1 <= MaxActs, nextHwnd <= MaxHwnd
    PROVE  Drained(Append(queue, InitMessage), nextHwnd)
             = Kept(queue, {m \in ToSet(Append(queue, InitMessage)) : m.hwnd \in Live})
<1> DEFINE q == Append(queue, InitMessage)
           n == Len(queue)
           k == CHOOSE k \in DOMAIN q : q[k].msg = "INIT" /\ q[k].hwnd = nextHwnd
           keep == {m \in ToSet(q) : m.hwnd \in Live}
<1>0. InitMessage.msg = "INIT" /\ InitMessage.hwnd = nextHwnd /\ nextHwnd \in Nat /\ posted \in Nat
  BY BoundsAssumption DEF InitMessage, WindowsKnown, QueueTidy
<1>1. InitMessage \in Messages
  BY <1>0, BoundsAssumption DEF InitMessage, Messages, WindowsKnown, QueueTidy
<1>2. queue \in Seq(Messages) /\ n \in Nat
  BY DEF QueueTidy
<1>3. /\ q \in Seq(Messages) /\ Len(q) = n + 1 /\ DOMAIN q = 1 .. n + 1
      /\ \A i \in 1 .. n : q[i] = queue[i]
      /\ q[n + 1] = InitMessage
  BY <1>1, <1>2
<1>4. \A i \in 1 .. n : q[i].hwnd # nextHwnd
  <2>1. \A i \in 1 .. n : queue[i].hwnd < nextHwnd /\ queue[i] \in Messages
    BY <1>2 DEF QueueTidy
  <2>2. \A i \in 1 .. n : queue[i].hwnd \in Nat
    BY <2>1, BoundsAssumption DEF Messages
  <2> QED BY <1>0, <1>3, <2>1, <2>2
<1> HIDE DEF q
<1>5. k = n + 1
  <2>1. n + 1 \in DOMAIN q /\ q[n + 1].msg = "INIT" /\ q[n + 1].hwnd = nextHwnd
    BY <1>0, <1>2, <1>3
  <2>2. k \in DOMAIN q /\ q[k].hwnd = nextHwnd
    BY <2>1
  <2> HIDE DEF k
  <2>3. k \in 1 .. n \/ k = n + 1
    BY <1>2, <1>3, <2>2
  <2> QED BY <1>4, <2>2, <2>3
<1>6. Drained(q, nextHwnd) = SubSeq(q, k + 1, Len(q)) \o Kept(SubSeq(q, 1, k - 1), keep)
  BY DEF Drained
<1> HIDE DEF k
<1>7. SubSeq(q, k + 1, Len(q)) = << >>
  BY <1>2, <1>3, <1>5
<1>8. SubSeq(q, 1, k - 1) = queue
  <2>1. k - 1 = n
    BY <1>2, <1>5
  <2>2. SubSeq(q, 1, n) \in Seq(Messages) /\ Len(SubSeq(q, 1, n)) = n
    BY <1>2, <1>3
  <2>3. \A i \in 1 .. n : SubSeq(q, 1, n)[i] = queue[i]
    BY <1>2, <1>3
  <2> QED BY <1>2, <2>1, <2>2, <2>3
<1> HIDE DEF keep
<1>9. Kept(queue, keep) \in Seq(Messages)
  BY <1>2, KeptElements
<1>10. << >> \o Kept(queue, keep) = Kept(queue, keep)
  BY <1>9
<1> QED BY <1>6, <1>7, <1>8, <1>10 DEF q, keep

\* The rest stays in order.
LEMMA KeptIncreases ==
    ASSUME QueueTidy, NEW keep
    PROVE  Kept(queue, keep) \in Seq(Messages) /\ Increasing(Kept(queue, keep))
<1> DEFINE r == Kept(queue, keep)
<1>1. r \in Seq(Messages) /\ \E g : Selects(g, queue, Len(queue), keep, r)
  BY KeptElements DEF QueueTidy
<1> HIDE DEF r
<1>2. PICK g : Selects(g, queue, Len(queue), keep, r)
  BY <1>1
<1>3. \A i, j \in 1 .. Len(r) : i < j => r[i].n < r[j].n
  <2> SUFFICES ASSUME NEW i \in 1 .. Len(r), NEW j \in 1 .. Len(r), i < j
               PROVE  r[i].n < r[j].n
    OBVIOUS
  <2>1. /\ g[i] \in 1 .. Len(queue) /\ g[j] \in 1 .. Len(queue) /\ g[i] < g[j]
        /\ r[i] = queue[g[i]] /\ r[j] = queue[g[j]]
    BY <1>2 DEF Selects
  <2>2. DOMAIN queue = 1 .. Len(queue)
    BY DEF QueueTidy
  <2> QED BY <2>1, <2>2 DEF QueueTidy, Increasing
<1>4. Increasing(r)
  BY <1>1, <1>3 DEF Increasing
<1> QED BY <1>1, <1>4 DEF r

-----------------------------------------------------------------------------
(* The stack after a step.                                                  *)

Kinds == {"main", "dispatch", "modal", "proc", "init", "hook"}

\* An activation begun.
LEMMA EntryIs ==
    ASSUME NEW kind \in Kinds, NEW of \in Nat, NEW via \in {"none", "get", "key", "next"}
    PROVE  /\ Entry(kind, of, via) \in Activation
           /\ Entry(kind, of, via).kind = kind /\ Entry(kind, of, via).of = of
BY DEF Entry, Activation, Kinds

\* One more on the stack.
LEMMA Pushed ==
    ASSUME StackTidy, NEW a \in Activation, stack' = Append(stack, a)
    PROVE  /\ stack' \in Seq(Activation) /\ stack' # << >> /\ stack'[1].kind = "main"
           /\ Len(stack') = Len(stack) + 1 /\ Top' = a
<1>1. stack \in Seq(Activation) /\ Len(stack) \in Nat \ {0} /\ stack[1].kind = "main"
  BY DEF StackTidy
<1>2. Append(stack, a)[Len(stack) + 1] = a /\ Append(stack, a)[1] = stack[1]
  BY <1>1
<1> QED BY <1>1, <1>2 DEF Top

\* One less: the main program stays at the bottom.
LEMMA PoppedTo ==
    ASSUME StackTidy, NEW n \in 1 .. Len(stack)
    PROVE  /\ SubSeq(stack, 1, n) \in Seq(Activation) /\ Len(SubSeq(stack, 1, n)) = n
           /\ SubSeq(stack, 1, n)[1].kind = "main"
<1>1. stack \in Seq(Activation) /\ Len(stack) \in Nat \ {0} /\ stack[1].kind = "main"
  BY DEF StackTidy
<1> QED BY <1>1

\* The innermost activation ends.
LEMMA FrontTidy ==
    ASSUME StackTidy, Top.kind # "main"
    PROVE  Front(stack) \in Seq(Activation) /\ Front(stack) # << >> /\ Front(stack)[1].kind = "main"
<1>1. stack \in Seq(Activation) /\ Len(stack) \in Nat \ {0} /\ stack[1].kind = "main"
  BY DEF StackTidy
<1>2. Len(stack) - 1 \in 1 .. Len(stack)
  BY <1>1 DEF Top
<1> DEFINE s == SubSeq(stack, 1, Len(stack) - 1)
<1>3. s \in Seq(Activation) /\ Len(s) = Len(stack) - 1 /\ s[1].kind = "main"
  BY <1>2, PoppedTo
<1>4. Front(stack) = s
  BY DEF Front
<1> HIDE DEF s
<1>5. s # << >>
  BY <1>1, <1>2, <1>3
<1> QED BY <1>3, <1>4, <1>5

\* Another message in the innermost activation's MSG.
LEMMA HeldTidy ==
    ASSUME StackTidy, NEW m \in Messages \cup {NoMessage}
    PROVE  /\ Holding(stack, m) \in Seq(Activation) /\ Len(Holding(stack, m)) = Len(stack)
           /\ Holding(stack, m)[1].kind = "main"
           /\ Holding(stack, m)[Len(stack)].held = m
<1> DEFINE n == Len(stack)
           s == Holding(stack, m)
<1>1. stack \in Seq(Activation) /\ n \in Nat \ {0} /\ stack[1].kind = "main"
  BY DEF StackTidy
<1>2. ASSUME NEW a \in Activation
      PROVE  [a EXCEPT !.held = m] \in Activation /\ [a EXCEPT !.held = m].kind = a.kind
                                              /\ [a EXCEPT !.held = m].held = m
  BY DEF Activation
<1>3. s = [i \in 1 .. n |-> IF i = n THEN [stack[n] EXCEPT !.held = m] ELSE stack[i]]
  BY <1>1 DEF Holding
<1>4. \A i \in 1 .. n : stack[i] \in Activation
  BY <1>1
<1>5. \A i \in 1 .. n : s[i] \in Activation /\ s[i].kind = stack[i].kind
  BY <1>1, <1>2, <1>3, <1>4
<1>6. s[n].held = m
  BY <1>1, <1>2, <1>3, <1>4
<1>7. s \in [1 .. n -> Activation]
  <2> HIDE DEF s
  <2> QED BY <1>3, <1>5
<1> HIDE DEF s
<1>8. s \in Seq(Activation) /\ Len(s) = n
  BY <1>1, <1>7
<1> QED BY <1>1, <1>5, <1>6, <1>8 DEF s

\* The call of a hook.
LEMMA HookCallTidy ==
    ASSUME StackTidy, NEW kinds \in SUBSET HookKinds, \A k \in kinds : hooks[k] # << >>
    PROVE  HookCall(kinds) \in Seq(Activation)
<1> DEFINE k == IF "get" \in kinds THEN "get" ELSE "key"
<1>1. CASE kinds = {}
  BY <1>1 DEF HookCall
<1>2. CASE kinds # {}
  <2>1. k \in kinds /\ k \in {"get", "key"}
    BY <1>2 DEF HookKinds
  <2>2. hooks[k] \in Seq(1 .. MaxActs) /\ hooks[k] # << >>
    BY <2>1 DEF StackTidy, HookKinds
  <2> HIDE DEF k
  <2>3. Head(hooks[k]) \in Nat
    BY <2>2, BoundsAssumption
  <2>4. Entry("hook", Head(hooks[k]), k) \in Activation
    BY <2>1, <2>3, EntryIs DEF Kinds
  <2>5. HookCall(kinds) = <<Entry("hook", Head(hooks[k]), k)>>
    BY <1>2 DEF HookCall, k
  <2> QED BY <2>4, <2>5
<1> QED BY <1>1, <1>2

\* Two pieces of stack on top of each other.
LEMMA Stacked ==
    ASSUME NEW s \in Seq(Activation), Len(s) > 0, s[1].kind = "main", NEW r \in Seq(Activation)
    PROVE  /\ s \o r \in Seq(Activation) /\ s \o r # << >> /\ (s \o r)[1].kind = "main"
           /\ Len(s \o r) >= Len(s) /\ \A i \in 1 .. Len(s) : (s \o r)[i] = s[i]
<1>1. Len(s) \in Nat \ {0} /\ Len(r) \in Nat
  OBVIOUS
<1>2. s \o r \in Seq(Activation) /\ Len(s \o r) = Len(s) + Len(r)
  OBVIOUS
<1>3. \A i \in 1 .. Len(s) : (s \o r)[i] = s[i]
  BY <1>1
<1> QED BY <1>1, <1>2, <1>3

-----------------------------------------------------------------------------
(* The windows after a step.                                                *)

\* A dialog is made: it and its controls are the new handles.
LEMMA DialogMade ==
    ASSUME WindowsKnown, focus \in 0 .. nextHwnd - 1, NEW parent \in {0} \union Live,
           MakeDialog(parent)
    PROVE  /\ WindowsKnown' /\ focus' \in 0 .. nextHwnd' - 1
           /\ nextHwnd \in 1 .. MaxHwnd /\ nextHwnd' \in nextHwnd + 1 .. MaxHwnd + 1
           /\ Live' = Live \union (nextHwnd .. nextHwnd + Len(Template))
           /\ ~ windows'[nextHwnd].done
<1> DEFINE h == nextHwnd
           n == Len(Template)
           edits == {i \in DOMAIN Template : Template[i].class = "edit"}
           control(c) == [class |-> Template[c - h].class, parent |-> h,
                          proc |-> FALSE, controls |-> << >>, done |-> FALSE]
           dialog == [class |-> "dialog", parent |-> parent, proc |-> TRUE,
                      controls |-> ControlHandles(h), done |-> FALSE]
           made == [w \in Live \union (h .. h + n) |->
                       IF w = h THEN dialog ELSE IF w > h THEN control(w) ELSE windows[w]]
<1>1. /\ h \in Nat \ {0} /\ MaxHwnd \in Nat /\ Live \subseteq 1 .. h - 1
      /\ n \in Nat /\ DOMAIN Template = 1 .. n
      /\ \A i \in 1 .. n : Template[i].class \in Classes
  <2>1. h \in Nat \ {0} /\ MaxHwnd \in Nat /\ Live \subseteq 1 .. h - 1
    BY BoundsAssumption DEF WindowsKnown
  <2>2. n \in Nat /\ DOMAIN Template = 1 .. n
    BY TemplateAssumption
  <2> DEFINE R == [id : Nat, class : Classes \ {"window", "dialog"}]
  <2>3. \A i \in 1 .. n : Template[i] \in R
    <3>1. Template \in Seq(R)
      BY TemplateAssumption
    <3> HIDE DEF R
    <3> QED BY <3>1
  <2>4. \A i \in 1 .. n : Template[i].class \in Classes
    BY <2>3
  <2> QED BY <2>1, <2>2, <2>4
<1>2. /\ h + n <= MaxHwnd /\ nextHwnd' = h + n + 1 /\ sdl' = sdl \union {h}
      /\ focus' = IF edits = {} THEN focus
                  ELSE h + CHOOSE i \in edits : \A j \in edits : i <= j
      /\ windows' = made
  BY DEF MakeDialog
<1>3. ControlHandles(h) \in Seq(1 .. MaxHwnd)
  <2>1. ControlHandles(h) \in [1 .. n -> 1 .. MaxHwnd]
    BY <1>1, <1>2 DEF ControlHandles
  <2> QED BY <1>1, <2>1
<1>4. dialog \in WindowEntry /\ ~ dialog.done
  <2>1. parent \in 0 .. MaxHwnd
    BY <1>1, <1>2
  <2>2. "dialog" \in Classes /\ TRUE \in BOOLEAN /\ FALSE \in BOOLEAN
    BY DEF Classes
  <2> QED BY <1>3, <2>1, <2>2 DEF WindowEntry
<1>5. \A c \in h + 1 .. h + n : control(c) \in WindowEntry
  <2> SUFFICES ASSUME NEW c \in h + 1 .. h + n PROVE control(c) \in WindowEntry
    OBVIOUS
  <2>1. c - h \in 1 .. n
    BY <1>1
  <2>2. Template[c - h].class \in Classes /\ h \in 0 .. MaxHwnd /\ FALSE \in BOOLEAN
    BY <1>1, <1>2, <2>1
  <2>3. << >> \in Seq(1 .. MaxHwnd)
    OBVIOUS
  <2> QED BY <2>2, <2>3 DEF WindowEntry
<1>6. Live' = Live \union (h .. h + n) /\ windows'[h] = dialog
  <2> HIDE DEF dialog, control
  <2>1. DOMAIN made = Live \union (h .. h + n) /\ made[h] = dialog
    BY <1>1
  <2> QED BY <1>2, <2>1 DEF Live
<1>7. \A w \in Live' : windows'[w] \in WindowEntry
  <2> SUFFICES ASSUME NEW w \in Live' PROVE windows'[w] \in WindowEntry
    OBVIOUS
  <2>1. windows'[w] = IF w = h THEN dialog ELSE IF w > h THEN control(w) ELSE windows[w]
    BY <1>2, <1>6
  <2> HIDE DEF dialog, control
  <2>2. CASE w \in Live
    <3>1. w # h /\ ~ (w > h) /\ windows[w] \in WindowEntry
      BY <1>1, <2>2 DEF WindowsKnown
    <3> QED BY <2>1, <3>1
  <2>3. CASE w = h
    BY <1>4, <2>1, <2>3
  <2>4. CASE w \in h + 1 .. h + n
    <3>1. w # h /\ w > h
      BY <1>1, <2>4
    <3> QED BY <1>5, <2>1, <2>4, <3>1
  <2>5. w \in Live \/ w \in h .. h + n
    BY <1>6
  <2>6. w \in h .. h + n => w = h \/ w \in h + 1 .. h + n
    BY <1>1
  <2> QED BY <2>2, <2>3, <2>4, <2>5, <2>6
<1>8. nextHwnd' \in 1 .. MaxHwnd + 1 /\ Live' \subseteq 1 .. nextHwnd' - 1 /\ sdl' \subseteq 1 .. MaxHwnd
  <2>1. nextHwnd' \in 1 .. MaxHwnd + 1
    BY <1>1, <1>2
  <2>2. Live' \subseteq 1 .. h + n
    <3> SUFFICES ASSUME NEW w \in Live' PROVE w \in 1 .. h + n
      OBVIOUS
    <3>1. w \in 1 .. h - 1 \/ w \in h .. h + n
      BY <1>1, <1>6
    <3> QED BY <1>1, <3>1
  <2>3. h + n = nextHwnd' - 1
    BY <1>1, <1>2
  <2>4. sdl' \subseteq 1 .. MaxHwnd
    BY <1>1, <1>2 DEF WindowsKnown
  <2> QED BY <2>1, <2>2, <2>3, <2>4
<1>9. WindowsKnown'
  BY <1>7, <1>8 DEF WindowsKnown
<1>10. focus' \in 0 .. nextHwnd' - 1
  <2>1. CASE edits = {}
    BY <1>1, <1>2, <2>1
  <2>2. CASE edits # {}
    <3>1. edits \subseteq Nat
      BY <1>1
    <3> HIDE DEF edits
    <3>2. \E i \in edits : \A j \in edits : i <= j
      BY <2>2, <3>1, LeastElement
    <3>3. (CHOOSE i \in edits : \A j \in edits : i <= j) \in 1 .. n
      <4>1. (CHOOSE i \in edits : \A j \in edits : i <= j) \in edits
        BY <3>2
      <4> QED BY <1>1, <4>1 DEF edits
    <3> QED BY <1>1, <1>2, <2>2, <3>3
  <2> QED BY <2>1, <2>2
<1> QED BY <1>1, <1>2, <1>4, <1>6, <1>9, <1>10

\* A window goes: it and its controls are gone, and nothing else is.
LEMMA DestroyedIs ==
    ASSUME WindowsKnown, NEW h, NEW f \in 0 .. nextHwnd - 1, nextHwnd' = nextHwnd, Destroyed(h, f)
    PROVE  /\ WindowsKnown' /\ focus' \in 0 .. nextHwnd' - 1
           /\ Live' \subseteq Live /\ h \notin Live'
           /\ \A w \in Live' : windows'[w] = windows[w]
<1> DEFINE gone == {h} \union ToSet(Controls(h))
<1>1. /\ windows' = [w \in Live \ gone |-> windows[w]]
      /\ sdl' = sdl \ gone /\ focus' = IF f \in gone THEN 0 ELSE f
  BY DEF Destroyed
<1>2. h \in gone
  OBVIOUS
<1> HIDE DEF gone
<1>3. Live' = Live \ gone
  BY <1>1 DEF Live
<1>4. \A w \in Live' : windows'[w] = windows[w]
  BY <1>1, <1>3
<1>5. focus' \in 0 .. nextHwnd' - 1
  BY <1>1, BoundsAssumption DEF WindowsKnown
<1>6. WindowsKnown'
  BY <1>1, <1>3, <1>4 DEF WindowsKnown
<1> QED BY <1>2, <1>3, <1>4, <1>5, <1>6

\* A dialog loop ends, with its dialog.
LEMMA LoopEndsIs ==
    ASSUME WindowsKnown, NEW d, NEW f \in 0 .. nextHwnd - 1, nextHwnd' = nextHwnd, LoopEnds(d, f)
    PROVE  /\ WindowsKnown' /\ focus' \in 0 .. nextHwnd' - 1
           /\ Live' \subseteq Live /\ d \notin Live'
           /\ \A w \in Live' : windows'[w] = windows[w]
<1>1. CASE d \in Live
  BY <1>1, DestroyedIs DEF LoopEnds
<1>2. CASE d \notin Live
  BY <1>2 DEF LoopEnds, WindowsKnown, Live
<1> QED BY <1>1, <1>2

\* A window made by CreateWindow.
LEMMA WindowMade ==
    ASSUME WindowsKnown, NEW parent \in {0} \union Live, nextHwnd <= MaxHwnd,
           nextHwnd' = nextHwnd + 1,
           windows' = [w \in Live \union {nextHwnd} |->
                          IF w = nextHwnd THEN NewWindow(parent) ELSE windows[w]],
           sdl' \subseteq sdl \union {nextHwnd}
    PROVE  WindowsKnown' /\ Live' = Live \union {nextHwnd}
<1> DEFINE h == nextHwnd
<1>1. h \in Nat \ {0} /\ MaxHwnd \in Nat /\ Live \subseteq 1 .. h - 1 /\ h \in 1 .. MaxHwnd
  BY BoundsAssumption DEF WindowsKnown
<1>2. NewWindow(parent) \in WindowEntry
  <2>1. parent \in 0 .. MaxHwnd /\ "window" \in Classes /\ TRUE \in BOOLEAN /\ FALSE \in BOOLEAN
        /\ << >> \in Seq(1 .. MaxHwnd)
    BY <1>1 DEF Classes
  <2> QED BY <2>1 DEF NewWindow, WindowEntry
<1>3. Live' = Live \union {h}
  BY DEF Live
<1>4. \A w \in Live' : windows'[w] \in WindowEntry
  BY <1>2, <1>3 DEF WindowsKnown
<1>5. nextHwnd' \in 1 .. MaxHwnd + 1 /\ Live' \subseteq 1 .. nextHwnd' - 1 /\ sdl' \subseteq 1 .. MaxHwnd
  BY <1>1, <1>3 DEF WindowsKnown
<1> QED BY <1>3, <1>4, <1>5 DEF WindowsKnown

-----------------------------------------------------------------------------
(* Where the WM_INITDIALOGs are after a step.                               *)

NoInits == \A i \in DOMAIN queue : ~ IsInit(queue, i, Live)

\* While Python's loop is not innermost, none waits for a live window.
LEMMA NoneWaits ==
    ASSUME InitsTidy, phase = "running", Top.kind # "modal"
    PROVE  NoInits
BY DEF InitsTidy, NoInits

\* And then none waits after a step that neither posts one nor gives its
\* window's handle out again.
LEMMA NoneNew ==
    ASSUME WindowsKnown, QueueTidy, InitsRemain,
           \A w \in Live' : w \in Live \/ w >= nextHwnd,
           \A i \in DOMAIN queue : IsInit(queue, i, Live) => queue[i].hwnd \notin Live'
    PROVE  InitsTidy'
<1> SUFFICES ASSUME NEW i \in DOMAIN queue', IsInit(queue', i, Live') PROVE FALSE
  BY DEF InitsTidy
<1>1. queue'[i].msg = "INIT" /\ queue'[i].hwnd \in Live'
  BY DEF IsInit
<1>2. PICK k \in DOMAIN queue : queue[k] = queue'[i]
  BY <1>1 DEF InitsRemain, Range
<1>3. queue[k] \in Messages /\ queue[k].hwnd < nextHwnd
  BY DEF QueueTidy
<1>4. queue[k].hwnd \in Nat /\ nextHwnd \in Nat
  BY <1>3, BoundsAssumption DEF Messages, WindowsKnown
<1>5. queue[k].hwnd \in Live
  BY <1>1, <1>2, <1>3, <1>4
<1> QED BY <1>1, <1>2, <1>5 DEF IsInit

\* The queue is left alone.
LEMMA QueueStays ==
    ASSUME QueueTidy, nextHwnd' = nextHwnd, queue' = queue, posted' = posted,
           focus' \in 0 .. nextHwnd - 1
    PROVE  QueueTidy' /\ InitsRemain
<1>1. QueueTidy'
  BY DEF QueueTidy, Increasing
<1>2. InitsRemain
  BY DEF InitsRemain, Range
<1> QED BY <1>1, <1>2

\* The windows are left alone.
LEMMA WindowsStay ==
    ASSUME WindowsKnown, windows' = windows, nextHwnd' = nextHwnd, sdl' = sdl
    PROVE  WindowsKnown' /\ Live' = Live
BY DEF WindowsKnown, Live

\* A step of guest code that makes no dialog.
Harmless ==
    /\ WindowsKnown' /\ QueueTidy' /\ StackTidy' /\ InitsRemain
    /\ \A w \in Live' : w \in Live \/ w >= nextHwnd

\* A harmless step taken while no WM_INITDIALOG waits keeps the invariant.
LEMMA HarmlessKeeps ==
    ASSUME WindowsInv, NoInits, Harmless
    PROVE  WindowsInv'
<1>1. InitsTidy'
  BY NoneNew DEF WindowsInv, NoInits, Harmless
<1> QED BY <1>1 DEF WindowsInv, Harmless

\* A new window has messages of its own only, after all others.
LEMMA CreateWindowStep ==
    ASSUME WindowsInv, NEW parent \in {0} \union Live, CreateWindow(parent)
    PROVE  Harmless
<1> DEFINE h == nextHwnd
           in == Queued(Queued(Inbox, h, "OTHER"), h, "OTHER")
<1>1. WindowsKnown /\ QueueTidy /\ StackTidy
  BY DEF WindowsInv
<1>2. /\ h \in 1 .. MaxHwnd /\ h \in Nat /\ nextHwnd' = h + 1 /\ h + 1 \in 1 .. MaxHwnd + 1
      /\ h + 1 \in nextHwnd .. MaxHwnd + 1 /\ h \in 1 .. (h + 1) - 1
  BY <1>1, BoundsAssumption DEF CreateWindow, WindowsKnown
<1>3. Good(Inbox, h + 1)
  BY <1>1, <1>2, InboxGood
<1>4. Good(Queued(Inbox, h, "OTHER"), h + 1)
  BY <1>1, <1>2, <1>3, QueuedGood
<1>5. Good(in, h + 1)
  BY <1>1, <1>2, <1>4, QueuedGood
<1>6. /\ in.posted + nextHook - 1 <= MaxActs
      /\ posted' = in.posted /\ focus' = in.focus /\ queue' = in.queue
  BY DEF CreateWindow, Receive, Within
<1> HIDE DEF in
<1>7. QueueTidy' /\ InitsRemain
  BY <1>1, <1>2, <1>5, <1>6, Received
<1>8. /\ windows' = [w \in Live \union {h} |-> IF w = h THEN NewWindow(parent) ELSE windows[w]]
      /\ sdl' \subseteq sdl \union {h}
  BY DEF CreateWindow
<1>9. WindowsKnown' /\ Live' = Live \union {h}
  BY <1>1, <1>2, <1>8, WindowMade
<1>10. StackTidy'
  BY <1>1 DEF StackTidy, CreateWindow
<1> QED BY <1>2, <1>7, <1>9, <1>10 DEF Harmless

\* A modeless dialog takes its own WM_INITDIALOG, the last, out of the queue again.
LEMMA CreateDialogStep ==
    ASSUME WindowsInv, NEW parent \in {0} \union Live, CreateDialog(parent)
    PROVE  /\ Harmless
           /\ \A m \in Range(queue) : m.hwnd \in Live => m \in Range(queue')
<1> DEFINE r == Kept(queue, {m \in ToSet(Append(queue, InitMessage)) : m.hwnd \in Live})
<1>1. WindowsKnown /\ QueueTidy /\ StackTidy
  BY DEF WindowsInv
<1>2. /\ WindowsKnown' /\ focus' \in 0 .. nextHwnd' - 1
      /\ nextHwnd \in 1 .. MaxHwnd /\ nextHwnd' \in nextHwnd + 1 .. MaxHwnd + 1
      /\ Live' = Live \union (nextHwnd .. nextHwnd + Len(Template))
  BY <1>1, DialogMade DEF CreateDialog, QueueTidy
<1>3. posted + 1 \in 0 .. MaxActs /\ posted' = posted + 1
  <2>1. posted \in 0 .. MaxActs /\ nextHook \in 1 .. MaxActs + 1
    BY <1>1 DEF QueueTidy, StackTidy
  <2>2. posted' = posted + 1 /\ Within(posted + 1, nextHook)
    BY DEF CreateDialog
  <2> QED BY <2>1, <2>2, BoundsAssumption DEF Within
<1>4. queue' = r
  BY <1>1, <1>2, <1>3, DrainedIs DEF CreateDialog
<1>5. /\ r \in Seq(Messages) /\ Increasing(r)
      /\ Range(r) = Range(queue) \cap {m \in ToSet(Append(queue, InitMessage)) : m.hwnd \in Live}
  BY <1>1, KeptIncreases, KeptRange DEF QueueTidy
<1> HIDE DEF r
<1>6. \A i \in DOMAIN r : r[i].n <= posted' /\ r[i].hwnd < nextHwnd'
  <2> SUFFICES ASSUME NEW i \in DOMAIN r PROVE r[i].n <= posted' /\ r[i].hwnd < nextHwnd'
    OBVIOUS
  <2>1. PICK k \in DOMAIN queue : queue[k] = r[i]
    BY <1>5 DEF Range
  <2>2. queue[k].n <= posted /\ queue[k].hwnd < nextHwnd /\ queue[k] \in Messages
    BY <1>1 DEF QueueTidy
  <2>3. queue[k].n \in Nat /\ queue[k].hwnd \in Nat
    BY <2>2, BoundsAssumption DEF Messages
  <2>4. nextHwnd \in Nat /\ nextHwnd' \in Nat /\ nextHwnd < nextHwnd' /\ posted \in Nat
    BY <1>1, <1>2, BoundsAssumption DEF QueueTidy
  <2> QED BY <1>3, <2>1, <2>2, <2>3, <2>4
<1>7. QueueTidy'
  BY <1>2, <1>3, <1>4, <1>5, <1>6 DEF QueueTidy, Increasing
<1>8. InitsRemain
  BY <1>4, <1>5 DEF InitsRemain, Range
<1>9. StackTidy'
  <2>1. Entry("init", nextHwnd, "none") \in Activation
    BY <1>2, EntryIs, BoundsAssumption DEF Kinds
  <2>2. stack' = Append(stack, Entry("init", nextHwnd, "none"))
    BY DEF CreateDialog, Enter
  <2>3. stack' \in Seq(Activation) /\ stack' # << >> /\ stack'[1].kind = "main"
    BY <1>1, <2>1, <2>2, Pushed
  <2> QED BY <1>1, <2>3 DEF StackTidy, CreateDialog
<1>10. \A w \in Live' : w \in Live \/ w >= nextHwnd
  BY <1>2, BoundsAssumption
<1>11. ASSUME NEW m \in Range(queue), m.hwnd \in Live PROVE m \in Range(queue')
  <2>1. m \in ToSet(Append(queue, InitMessage))
    <3>1. PICK i \in 1 .. Len(queue) : queue[i] = m
      BY <1>1, <1>11 DEF Range, QueueTidy
    <3>2. Append(queue, InitMessage)[i] = m /\ i \in DOMAIN Append(queue, InitMessage)
      BY <1>1, <3>1 DEF QueueTidy
    <3> QED BY <3>2 DEF ToSet
  <2> QED BY <1>4, <1>5, <1>11, <2>1
<1> QED BY <1>2, <1>7, <1>8, <1>9, <1>10, <1>11 DEF Harmless

\* The actions that leave the queue and the windows, or the stack, alone.
LEMMA OtherGuestStep ==
    ASSUME WindowsInv,
           \/ \E h \in Live : DestroyWindow(h) \/ SetFocus(h) \/ EndDialog(h) \/ PostMessage(h)
           \/ CreationFails
    PROVE  Harmless
<1>1. WindowsKnown /\ QueueTidy /\ StackTidy
  BY DEF WindowsInv
<1>2. focus \in 0 .. nextHwnd - 1 /\ nextHwnd \in Nat
  BY <1>1, BoundsAssumption DEF QueueTidy, WindowsKnown
<1>3. ASSUME NEW h \in Live, DestroyWindow(h) PROVE Harmless
  <2>1. nextHwnd' = nextHwnd /\ Destroyed(h, focus) /\ queue' = queue /\ posted' = posted
    BY <1>3 DEF DestroyWindow
  <2>2. WindowsKnown' /\ focus' \in 0 .. nextHwnd' - 1 /\ Live' \subseteq Live
    BY <1>1, <1>2, <2>1, DestroyedIs
  <2>3. QueueTidy' /\ InitsRemain
    BY <1>1, <2>1, <2>2, QueueStays
  <2>4. StackTidy'
    BY <1>1, <1>3 DEF StackTidy, DestroyWindow
  <2> QED BY <2>2, <2>3, <2>4 DEF Harmless
<1>4. ASSUME NEW h \in Live, SetFocus(h) PROVE Harmless
  <2>1. WindowsKnown' /\ Live' = Live
    BY <1>1, <1>4, WindowsStay DEF SetFocus
  <2>2. focus' \in 0 .. nextHwnd - 1
    BY <1>1, <1>4 DEF SetFocus, WindowsKnown
  <2>3. QueueTidy' /\ InitsRemain
    BY <1>1, <1>4, <2>2, QueueStays DEF SetFocus
  <2>4. StackTidy'
    BY <1>1, <1>4 DEF StackTidy, SetFocus
  <2> QED BY <2>1, <2>3, <2>4 DEF Harmless
<1>5. ASSUME NEW h \in Live, EndDialog(h) PROVE Harmless
  <2>1. /\ windows' = [windows EXCEPT ![h].done = TRUE] /\ nextHwnd' = nextHwnd /\ sdl' = sdl
        /\ queue' = queue /\ posted' = posted /\ focus' = focus
    BY <1>5 DEF EndDialog
  <2>2. Live' = Live
    BY <2>1 DEF Live
  <2>3. \A e \in WindowEntry : [e EXCEPT !.done = TRUE] \in WindowEntry
    BY DEF WindowEntry
  <2>4. \A w \in Live : windows'[w] = IF w = h THEN [windows[h] EXCEPT !.done = TRUE] ELSE windows[w]
    BY <2>1 DEF Live
  <2>5. \A w \in Live : windows[w] \in WindowEntry
    BY <1>1 DEF WindowsKnown
  <2>6. \A w \in Live : windows'[w] \in WindowEntry
    BY <2>3, <2>4, <2>5
  <2>7. WindowsKnown'
    BY <1>1, <2>1, <2>2, <2>6 DEF WindowsKnown
  <2>8. QueueTidy' /\ InitsRemain
    BY <1>1, <1>2, <2>1, QueueStays
  <2>9. StackTidy'
    BY <1>1, <1>5 DEF StackTidy, EndDialog
  <2> QED BY <2>2, <2>7, <2>8, <2>9 DEF Harmless
<1>6. ASSUME NEW h \in Live, PostMessage(h) PROVE Harmless
  <2> DEFINE in == Queued(Inbox, h, "OTHER")
  <2>1. nextHwnd \in 1 .. MaxHwnd + 1 /\ nextHwnd \in nextHwnd .. MaxHwnd + 1 /\ h \in 1 .. nextHwnd - 1
    BY <1>1, <1>2 DEF WindowsKnown
  <2>2. Good(Inbox, nextHwnd)
    BY <1>1, <1>2, InboxGood
  <2>3. Good(in, nextHwnd)
    BY <1>1, <2>1, <2>2, QueuedGood
  <2>4. /\ in.posted + nextHook - 1 <= MaxActs /\ nextHwnd' = nextHwnd
        /\ posted' = in.posted /\ focus' = in.focus /\ queue' = in.queue
    BY <1>6 DEF PostMessage, Receive, Within
  <2> HIDE DEF in
  <2>5. QueueTidy' /\ InitsRemain
    BY <1>1, <2>1, <2>3, <2>4, Received
  <2>6. WindowsKnown' /\ Live' = Live
    BY <1>1, <1>6, WindowsStay DEF PostMessage
  <2>7. StackTidy'
    BY <1>1, <1>6 DEF StackTidy, PostMessage
  <2> QED BY <2>5, <2>6, <2>7 DEF Harmless
<1>7. ASSUME CreationFails PROVE Harmless
  <2>1. /\ nextHwnd <= MaxHwnd /\ nextHwnd' = nextHwnd + 1 /\ windows' = windows /\ sdl' = sdl
        /\ queue' = queue /\ posted' = posted /\ focus' = focus
    BY <1>7 DEF CreationFails
  <2>2. WindowsKnown' /\ Live' = Live
    <3>1. nextHwnd' \in 1 .. MaxHwnd + 1 /\ Live' = Live
      BY <1>1, <1>2, <2>1, BoundsAssumption DEF WindowsKnown, Live
    <3>2. Live' \subseteq 1 .. nextHwnd' - 1
      BY <1>1, <1>2, <2>1, <3>1 DEF WindowsKnown
    <3> QED BY <1>1, <2>1, <3>1, <3>2 DEF WindowsKnown
  <2>3. QueueTidy'
    <3>1. focus' \in 0 .. nextHwnd' - 1
      BY <1>2, <2>1
    <3>2. \A i \in DOMAIN queue : queue[i].n <= posted /\ queue[i].hwnd < nextHwnd'
      <4> SUFFICES ASSUME NEW i \in DOMAIN queue
                   PROVE  queue[i].n <= posted /\ queue[i].hwnd < nextHwnd'
        OBVIOUS
      <4>1. queue[i] \in Messages /\ queue[i].n <= posted /\ queue[i].hwnd < nextHwnd
        BY <1>1 DEF QueueTidy
      <4>2. queue[i].hwnd \in Nat
        BY <4>1, BoundsAssumption DEF Messages
      <4> QED BY <1>2, <2>1, <4>1, <4>2
    <3> QED BY <1>1, <2>1, <3>1, <3>2 DEF QueueTidy, Increasing
  <2>4. InitsRemain
    BY <2>1 DEF InitsRemain, Range
  <2>5. StackTidy'
    BY <1>1, <1>7 DEF StackTidy, CreationFails
  <2> QED BY <2>2, <2>3, <2>4, <2>5 DEF Harmless
<1> QED BY <1>3, <1>4, <1>5, <1>6, <1>7

\* GetMessage: what is given to the guest, and what waits.
LEMMA TakeMessageStep ==
    ASSUME WindowsInv, TakeMessage
    PROVE  /\ Harmless
           /\ \A m \in Range(queue) :
                 m \in Range(queue') \/ (Len(stack') >= Len(stack) /\ stack'[Len(stack)].held = m)
<1>1. WindowsKnown /\ QueueTidy /\ StackTidy
  BY DEF WindowsInv
<1>2. nextHwnd \in nextHwnd .. MaxHwnd + 1 /\ nextHwnd' = nextHwnd
  BY <1>1, BoundsAssumption DEF TakeMessage, WindowsKnown
<1>3. PICK in \in Pumped :
        /\ in.queue # << >>
        /\ Receive([in EXCEPT !.queue = Tail(@)])
        /\ stack' = Holding(stack, Head(in.queue)) \o HookCall(HooksFor(Head(in.queue), HookKinds))
  BY DEF TakeMessage
<1> DEFINE m == Head(in.queue)
           calls == HookCall(HooksFor(m, HookKinds))
<1>4. Good(in, nextHwnd) /\ in.posted + nextHook - 1 <= MaxActs
  BY <1>1, PumpedGood
<1>5. /\ [in EXCEPT !.queue = Tail(@)].queue = Tail(in.queue)
      /\ [in EXCEPT !.queue = Tail(@)].posted = in.posted
      /\ [in EXCEPT !.queue = Tail(@)].focus = in.focus
  BY <1>4 DEF Good
<1>6. queue' = Tail(in.queue) /\ posted' = in.posted /\ focus' = in.focus
  BY <1>3, <1>5 DEF Receive
<1>7. /\ QueueTidy' /\ InitsRemain
      /\ \A one \in Range(queue) : one \in Range(queue') \/ one = m
  BY <1>1, <1>2, <1>3, <1>4, <1>6, Received
<1>8. m \in Messages
  <2>1. /\ in.queue \in Seq(Posting) /\ Len(in.queue) \in Nat \ {0} /\ m = in.queue[1]
        /\ in.queue[1].n <= in.posted
    BY <1>3, <1>4 DEF Good
  <2>2. in.posted \in Nat /\ nextHook \in Nat \ {0} /\ MaxActs \in Nat
    <3>1. in.posted \in Nat
      BY <1>4 DEF Good
    <3>2. nextHook \in 1 .. MaxActs + 1
      BY <1>1 DEF StackTidy
    <3> QED BY <3>1, <3>2, BoundsAssumption
  <2>3. m \in Posting /\ m.n \in Nat \ {0}
    <3>1. in.queue[1] \in Posting
      BY <2>1
    <3> HIDE DEF m
    <3>2. m \in Posting
      BY <2>1, <3>1
    <3> QED BY <3>2 DEF Posting
  <2> HIDE DEF m
  <2>4. m.n \in 1 .. MaxActs
    BY <1>4, <2>1, <2>2, <2>3
  <2> QED BY <2>3, <2>4 DEF Posting, Messages
<1> HIDE DEF m
<1>9. calls \in Seq(Activation)
  <2>1. HooksFor(m, HookKinds) \in SUBSET HookKinds
        /\ \A k \in HooksFor(m, HookKinds) : hooks[k] # << >>
    BY DEF HooksFor
  <2> QED BY <1>1, <2>1, HookCallTidy
<1> HIDE DEF calls
<1>10. /\ Holding(stack, m) \in Seq(Activation) /\ Len(Holding(stack, m)) = Len(stack)
       /\ Holding(stack, m)[1].kind = "main" /\ Holding(stack, m)[Len(stack)].held = m
  BY <1>1, <1>8, HeldTidy
<1>11. Len(stack) \in Nat \ {0} /\ stack' = Holding(stack, m) \o calls
  BY <1>1, <1>3 DEF StackTidy, m, calls
<1>12. /\ stack' \in Seq(Activation) /\ stack' # << >> /\ stack'[1].kind = "main"
       /\ Len(stack') >= Len(stack) /\ stack'[Len(stack)].held = m
  BY <1>9, <1>10, <1>11, Stacked
<1>13. StackTidy'
  BY <1>1, <1>12 DEF StackTidy, TakeMessage
<1>14. WindowsKnown' /\ Live' = Live
  BY <1>1, WindowsStay DEF TakeMessage
<1> QED BY <1>7, <1>12, <1>13, <1>14 DEF Harmless

\* The other actions of guest code, and the end of a call Python made.
LEMMA OtherStackStep ==
    ASSUME WindowsInv,
           \/ TakeQuit \/ DispatchMessage \/ DispatchReturn
           \/ \E k \in HookKinds :
                SetHook(k) \/ CallNextHook(k) \/ \E hook \in ToSet(hooks[k]) : Unhook(k, hook)
           \/ \E j \in DOMAIN stack : EndCall(j)
    PROVE  /\ Harmless /\ Top.kind # "modal" /\ phase = "running"
           /\ \A m \in Range(queue) : m \in Range(queue')
<1>1. WindowsKnown /\ QueueTidy /\ StackTidy
  BY DEF WindowsInv
<1>2. focus \in 0 .. nextHwnd - 1 /\ nextHwnd \in Nat
  BY <1>1, BoundsAssumption DEF QueueTidy, WindowsKnown
<1>3. Len(stack) \in Nat \ {0} /\ stack \in Seq(Activation) /\ stack[1].kind = "main"
  BY <1>1 DEF StackTidy
<1>4. ASSUME windows' = windows, nextHwnd' = nextHwnd, sdl' = sdl, StackTidy',
             queue' = queue, posted' = posted, focus' = focus
      PROVE  Harmless /\ \A m \in Range(queue) : m \in Range(queue')
  <2>1. WindowsKnown' /\ Live' = Live
    BY <1>1, <1>4, WindowsStay
  <2>2. QueueTidy' /\ InitsRemain
    BY <1>1, <1>2, <1>4, QueueStays
  <2> QED BY <1>4, <2>1, <2>2 DEF Harmless
<1>5. CASE TakeQuit
  <2>1. PICK in \in Pumped : Receive(in)
    BY <1>5 DEF TakeQuit
  <2>2. Good(in, nextHwnd) /\ in.posted + nextHook - 1 <= MaxActs
    BY <1>1, PumpedGood
  <2>3. nextHwnd \in nextHwnd .. MaxHwnd + 1 /\ nextHwnd' = nextHwnd
    BY <1>1, <1>2, <1>5, BoundsAssumption DEF TakeQuit, WindowsKnown
  <2>4. /\ QueueTidy' /\ InitsRemain
        /\ \A one \in Range(queue) : one \in Range(queue')
    BY <1>1, <2>1, <2>2, <2>3, Received DEF Receive
  <2>5. WindowsKnown' /\ Live' = Live
    BY <1>1, <1>5, WindowsStay DEF TakeQuit
  <2>6. /\ stack' \in Seq(Activation) /\ Len(stack') = Len(stack) /\ stack'[1].kind = "main"
    BY <1>1, <1>5, HeldTidy DEF TakeQuit
  <2>7. StackTidy'
    BY <1>1, <1>3, <1>5, <2>6 DEF StackTidy, TakeQuit
  <2> QED BY <1>5, <2>4, <2>5, <2>7 DEF Harmless, TakeQuit, Guest
<1>6. CASE DispatchMessage
  <2> DEFINE h == Top.held.hwnd
             s == Holding(stack, NoMessage)
             a == Entry("dispatch", h, "none")
  <2>1. s \in Seq(Activation) /\ Len(s) = Len(stack) /\ s[1].kind = "main"
    BY <1>1, HeldTidy
  <2>2. \/ /\ h \in Live
           /\ stack' = Append(s, a) /\ pending' = Append(pending, [depth |-> Len(stack), hwnd |-> h])
        \/ stack' = s /\ pending' = pending
    BY <1>6 DEF DispatchMessage, Enter
  <2> HIDE DEF s
  <2>3. CASE stack' = s /\ pending' = pending
    <3>1. StackTidy'
      BY <1>1, <1>3, <1>6, <2>1, <2>3 DEF StackTidy, DispatchMessage
    <3> QED BY <1>4, <1>6, <3>1 DEF DispatchMessage, Guest
  <2>4. CASE /\ h \in Live /\ stack' = Append(s, a)
             /\ pending' = Append(pending, [depth |-> Len(stack), hwnd |-> h])
    <3>1. h \in 1 .. MaxHwnd /\ h \in Nat
      <4>1. h \in Live
        BY <2>4
      <4> HIDE DEF h
      <4> QED BY <1>1, <1>2, <4>1, BoundsAssumption DEF WindowsKnown
    <3>2. a \in Activation
      BY <3>1, EntryIs DEF Kinds
    <3> HIDE DEF a, h
    <3>3. stack' \in Seq(Activation) /\ stack' # << >> /\ stack'[1].kind = "main"
      <4>1. Append(s, a)[1] = s[1] /\ Append(s, a) # << >> /\ Append(s, a) \in Seq(Activation)
        BY <1>3, <2>1, <3>2
      <4> QED BY <2>1, <2>4, <4>1
    <3>4. pending' \in Seq([depth : Nat, hwnd : 1 .. MaxHwnd])
      <4>1. [depth |-> Len(stack), hwnd |-> h] \in [depth : Nat, hwnd : 1 .. MaxHwnd]
        BY <1>3, <3>1
      <4> QED BY <1>1, <2>4, <4>1 DEF StackTidy
    <3>5. StackTidy'
      BY <1>1, <1>6, <3>3, <3>4 DEF StackTidy, DispatchMessage
    <3> QED BY <1>4, <1>6, <3>5 DEF DispatchMessage, Guest
  <2> QED BY <2>2, <2>3, <2>4
<1>7. CASE DispatchReturn
  <2>1. Front(stack) \in Seq(Activation) /\ Front(stack) # << >> /\ Front(stack)[1].kind = "main"
    BY <1>1, <1>7, FrontTidy DEF DispatchReturn
  <2>2. stack' = stack \/ stack' = Front(stack)
    BY <1>7 DEF DispatchReturn
  <2>3. stack' \in Seq(Activation) /\ stack' # << >> /\ stack'[1].kind = "main"
    BY <1>1, <2>1, <2>2 DEF StackTidy
  <2>4. pending' \in Seq([depth : Nat, hwnd : 1 .. MaxHwnd])
    <3> DEFINE P == [depth : Nat, hwnd : 1 .. MaxHwnd]
    <3>1. pending \in Seq(P) /\ pending' = SubSeq(pending, 1, Len(pending) - 1)
      BY <1>1, <1>7 DEF StackTidy, DispatchReturn, Front
    <3> HIDE DEF P
    <3>2. \A i \in 1 .. Len(pending) - 1 : pending[i] \in P
      BY <3>1
    <3>3. SubSeq(pending, 1, Len(pending) - 1) \in Seq(P)
      BY <3>1, <3>2
    <3> QED BY <3>1, <3>3 DEF P
  <2>5. phase' \in {"running", "fatal", "astray"}
    BY <1>1, <1>7 DEF StackTidy, DispatchReturn
  <2>6. StackTidy'
    BY <1>1, <1>7, <2>3, <2>4, <2>5 DEF StackTidy, DispatchReturn
  <2> QED BY <1>4, <1>7, <2>6 DEF DispatchReturn, Guest
<1>8. ASSUME NEW k \in HookKinds, SetHook(k)
      PROVE  Harmless /\ \A m \in Range(queue) : m \in Range(queue')
  <2>1. nextHook \in 1 .. MaxActs /\ nextHook' = nextHook + 1
    BY <1>1, <1>8, BoundsAssumption DEF SetHook, Within, StackTidy, QueueTidy
  <2>2. hooks \in [HookKinds -> Seq(1 .. MaxActs)]
    BY <1>1 DEF StackTidy
  <2>3. <<nextHook>> \o hooks[k] \in Seq(1 .. MaxActs)
    <3>1. <<nextHook>> \in Seq(1 .. MaxActs) /\ hooks[k] \in Seq(1 .. MaxActs)
      BY <2>1, <2>2
    <3> QED BY <3>1
  <2>4. hooks' \in [HookKinds -> Seq(1 .. MaxActs)]
    BY <1>8, <2>2, <2>3 DEF SetHook
  <2>5. StackTidy'
    BY <1>1, <1>8, <2>1, <2>4, BoundsAssumption DEF StackTidy, SetHook
  <2> QED BY <1>4, <1>8, <2>5 DEF SetHook
<1>9. ASSUME NEW k \in HookKinds, CallNextHook(k)
      PROVE  Harmless /\ \A m \in Range(queue) : m \in Range(queue')
  <2>1. PICK i \in 1 .. Len(hooks[k]) - 1 : Enter(stack, Entry("hook", hooks[k][i + 1], "next"))
    BY <1>9 DEF CallNextHook
  <2>2. hooks[k][i + 1] \in Nat
    <3>1. hooks[k] \in Seq(1 .. MaxActs)
      BY <1>1 DEF StackTidy
    <3>2. i + 1 \in 1 .. Len(hooks[k])
      BY <3>1
    <3> QED BY <3>1, <3>2, BoundsAssumption
  <2>3. Entry("hook", hooks[k][i + 1], "next") \in Activation
    BY <2>2, EntryIs DEF Kinds
  <2>4. stack' \in Seq(Activation) /\ stack' # << >> /\ stack'[1].kind = "main"
    BY <1>1, <2>1, <2>3, Pushed DEF Enter
  <2>5. StackTidy'
    BY <1>1, <1>9, <2>4 DEF StackTidy, CallNextHook
  <2> QED BY <1>4, <1>9, <2>5 DEF CallNextHook
<1>10. ASSUME NEW k \in HookKinds, NEW hook \in ToSet(hooks[k]), Unhook(k, hook)
       PROVE  Harmless /\ \A m \in Range(queue) : m \in Range(queue')
  <2>1. hooks \in [HookKinds -> Seq(1 .. MaxActs)]
    BY <1>1 DEF StackTidy
  <2>2. Kept(hooks[k], ToSet(hooks[k]) \ {hook}) \in Seq(1 .. MaxActs)
    BY <2>1, KeptElements
  <2>3. hooks' \in [HookKinds -> Seq(1 .. MaxActs)]
    BY <1>10, <2>1, <2>2 DEF Unhook
  <2>4. StackTidy'
    <3>1. UNCHANGED <<stack, pending, nextHook, phase>>
      BY <1>10 DEF Unhook
    <3> QED BY <1>1, <2>3, <3>1 DEF StackTidy
  <2> QED BY <1>4, <1>10, <2>4 DEF Unhook
<1>11. ASSUME NEW j \in DOMAIN stack, EndCall(j)
       PROVE  /\ Harmless /\ \A m \in Range(queue) : m \in Range(queue')
              /\ Top.kind # "modal" /\ phase = "running"
  <2> DEFINE calls == IF stack[j].via = "get"
                      THEN HookCall(HooksFor(stack[j - 1].held, {"key"}))
                      ELSE << >>
  <2>1. /\ phase = "running" /\ stack[j].kind \in {"proc", "init", "hook"}
        /\ \A i \in j + 1 .. Len(stack) : stack[i].kind = "dispatch"
        /\ stack' = SubSeq(stack, 1, j - 1) \o calls
    BY <1>11 DEF EndCall
  <2>2. j \in 1 .. Len(stack) /\ j # 1
    BY <1>3, <2>1
  <2>3. Top.kind # "modal"
    <3>1. CASE j = Len(stack)
      BY <2>1, <3>1 DEF Top
    <3>2. CASE j # Len(stack)
      <4>1. Len(stack) \in j + 1 .. Len(stack)
        BY <1>3, <2>2, <3>2
      <4> QED BY <2>1, <4>1 DEF Top
    <3> QED BY <3>1, <3>2
  <2>4. calls \in Seq(Activation)
    <3>1. HooksFor(stack[j - 1].held, {"key"}) \in SUBSET HookKinds
          /\ \A k \in HooksFor(stack[j - 1].held, {"key"}) : hooks[k] # << >>
      BY DEF HooksFor, HookKinds
    <3> QED BY <1>1, <3>1, HookCallTidy
  <2> HIDE DEF calls
  <2>5. j - 1 \in 1 .. Len(stack)
    BY <1>3, <2>2
  <2>6. /\ SubSeq(stack, 1, j - 1) \in Seq(Activation) /\ Len(SubSeq(stack, 1, j - 1)) = j - 1
        /\ SubSeq(stack, 1, j - 1)[1].kind = "main"
    BY <1>1, <2>5, PoppedTo
  <2>7. stack' \in Seq(Activation) /\ stack' # << >> /\ stack'[1].kind = "main"
    <3> DEFINE s == SubSeq(stack, 1, j - 1)
    <3>1. s \in Seq(Activation) /\ Len(s) > 0 /\ s[1].kind = "main" /\ stack' = s \o calls
      <4>1. s \in Seq(Activation) /\ Len(s) = j - 1 /\ s[1].kind = "main"
        BY <2>6
      <4>2. stack' = s \o calls
        BY <2>1 DEF calls
      <4> HIDE DEF s
      <4>3. Len(s) > 0
        BY <1>3, <2>2, <4>1
      <4> QED BY <4>1, <4>2, <4>3
    <3> HIDE DEF s
    <3> QED BY <2>4, <3>1, Stacked
  <2>8. StackTidy'
    BY <1>1, <1>11, <2>7 DEF StackTidy, EndCall
  <2> QED BY <1>4, <1>11, <2>1, <2>3, <2>8 DEF EndCall
<1>12. ASSUME NEW k \in HookKinds,
              SetHook(k) \/ CallNextHook(k) \/ \E hook \in ToSet(hooks[k]) : Unhook(k, hook)
       PROVE  Top.kind # "modal" /\ phase = "running"
  BY <1>12 DEF SetHook, CallNextHook, Unhook, Guest
<1> QED BY <1>5, <1>6, <1>7, <1>8, <1>9, <1>10, <1>11, <1>12

-----------------------------------------------------------------------------
(* The steps of dialogs.                                                    *)

\* DialogBox posts WM_INITDIALOG for a new handle and its loop begins.
LEMMA DialogBoxStep ==
    ASSUME WindowsInv, NEW parent \in {0} \union Live, DialogBox(parent)
    PROVE  WindowsInv' /\ \A m \in Range(queue) : m \in Range(queue')
<1> DEFINE n == Len(queue)
           q == Append(queue, InitMessage)
<1>1. WindowsKnown /\ QueueTidy /\ StackTidy
  BY DEF WindowsInv
<1>2. /\ WindowsKnown' /\ focus' \in 0 .. nextHwnd' - 1
      /\ nextHwnd \in 1 .. MaxHwnd /\ nextHwnd' \in nextHwnd + 1 .. MaxHwnd + 1
      /\ Live' = Live \union (nextHwnd .. nextHwnd + Len(Template))
      /\ ~ windows'[nextHwnd].done
  BY <1>1, DialogMade DEF DialogBox, QueueTidy
<1>3. posted + 1 \in 1 .. MaxActs /\ posted' = posted + 1 /\ posted \in Nat
  <2>1. posted \in 0 .. MaxActs /\ nextHook \in 1 .. MaxActs + 1
    BY <1>1 DEF QueueTidy, StackTidy
  <2>2. posted' = posted + 1 /\ Within(posted + 1, nextHook)
    BY DEF DialogBox
  <2> QED BY <2>1, <2>2, BoundsAssumption DEF Within
<1>4. InitMessage \in Messages
  BY <1>2, <1>3 DEF InitMessage, Messages
<1>5. InitMessage.hwnd = nextHwnd /\ InitMessage.n = posted + 1
  BY DEF InitMessage
<1>6. queue \in Seq(Messages) /\ n \in Nat /\ queue' = q
  BY <1>1 DEF QueueTidy, DialogBox
<1>7. /\ q \in Seq(Messages) /\ Len(q) = n + 1 /\ DOMAIN q = 1 .. n + 1 /\ DOMAIN queue = 1 .. n
      /\ \A i \in 1 .. n : q[i] = queue[i]
      /\ q[n + 1] = InitMessage
      /\ \A i \in 1 .. n + 1 : i \in 1 .. n \/ i = n + 1
  BY <1>4, <1>6
<1>8. nextHwnd \in Nat /\ nextHwnd' \in Nat /\ nextHwnd < nextHwnd'
  BY <1>2, BoundsAssumption
<1>9. \A i \in 1 .. n : /\ queue[i].n \in Nat /\ queue[i].hwnd \in Nat
                        /\ queue[i].n <= posted /\ queue[i].hwnd < nextHwnd
  <2>1. \A i \in 1 .. n : queue[i] \in Messages
    BY <1>6
  <2> QED BY <1>1, <1>7, <2>1, BoundsAssumption DEF QueueTidy, Messages
<1> HIDE DEF q
<1>10. Increasing(q)
  <2> SUFFICES ASSUME NEW i \in 1 .. n + 1, NEW j \in 1 .. n + 1, i < j PROVE q[i].n < q[j].n
    BY <1>7 DEF Increasing
  <2>1. i \in 1 .. n
    BY <1>6
  <2>2. CASE j \in 1 .. n
    BY <1>1, <1>7, <2>1, <2>2 DEF QueueTidy, Increasing
  <2>3. CASE j = n + 1
    BY <1>3, <1>5, <1>7, <1>9, <2>1, <2>3
  <2> QED BY <1>7, <2>2, <2>3
<1>11. \A i \in 1 .. n + 1 : q[i].n <= posted + 1 /\ q[i].hwnd < nextHwnd'
  <2> SUFFICES ASSUME NEW i \in 1 .. n + 1
               PROVE  q[i].n <= posted + 1 /\ q[i].hwnd < nextHwnd'
    OBVIOUS
  <2>1. CASE i \in 1 .. n
    BY <1>3, <1>7, <1>8, <1>9, <2>1
  <2>2. CASE i = n + 1
    BY <1>3, <1>5, <1>7, <1>8, <2>2
  <2> QED BY <1>7, <2>1, <2>2
<1>12. QueueTidy'
  <2>1. posted' \in 0 .. MaxActs
    BY <1>3
  <2> QED BY <1>2, <1>3, <1>6, <1>7, <1>10, <1>11, <2>1 DEF QueueTidy
<1> DEFINE a == Entry("modal", nextHwnd, "none")
<1>13. a \in Activation /\ a.kind = "modal" /\ a.of = nextHwnd
  BY <1>8, EntryIs DEF Kinds
<1>14. /\ stack' \in Seq(Activation) /\ stack' # << >> /\ stack'[1].kind = "main" /\ Top' = a
  <2>1. stack' = Append(stack, a)
    BY DEF DialogBox, Enter
  <2> HIDE DEF a
  <2> QED BY <1>1, <1>13, <2>1, Pushed
<1>15. StackTidy'
  BY <1>1, <1>14 DEF StackTidy, DialogBox
<1>16. NoInits
  BY NoneWaits DEF WindowsInv, DialogBox, Guest
<1> HIDE DEF a
<1>17. InitsTidy'
  <2> SUFFICES ASSUME NEW i \in DOMAIN queue', IsInit(queue', i, Live')
               PROVE  /\ Top'.kind = "modal" /\ Top'.of = queue'[i].hwnd
                      /\ ~ windows'[queue'[i].hwnd].done
                      /\ \A j \in 1 .. i - 1 : queue'[j].hwnd # queue'[i].hwnd
    BY DEF InitsTidy
  <2>1. CASE i \in 1 .. n
    <3>1. queue[i].msg = "INIT" /\ queue[i].hwnd \in Live'
      BY <1>6, <1>7, <2>1 DEF IsInit
    <3>2. queue[i].hwnd \in Live
      BY <1>2, <1>8, <1>9, <2>1, <3>1
    <3> QED BY <1>7, <1>16, <2>1, <3>1, <3>2 DEF NoInits, IsInit
  <2>2. CASE i = n + 1
    <3>1. queue'[i].hwnd = nextHwnd
      BY <1>5, <1>6, <1>7, <2>2
    <3>2. \A j \in 1 .. i - 1 : queue'[j].hwnd # nextHwnd
      <4> SUFFICES ASSUME NEW j \in 1 .. i - 1 PROVE queue'[j].hwnd # nextHwnd
        OBVIOUS
      <4>1. j \in 1 .. n
        BY <1>6, <2>2
      <4> QED BY <1>6, <1>7, <1>8, <1>9, <4>1
    <3> QED BY <1>2, <1>13, <1>14, <3>1, <3>2
  <2> QED BY <1>6, <1>7, <2>1, <2>2
<1>18. \A m \in Range(queue) : m \in Range(queue')
  <2> SUFFICES ASSUME NEW i \in 1 .. n PROVE queue[i] \in Range(queue')
    BY <1>7 DEF Range
  <2>1. i \in DOMAIN q /\ q[i] = queue[i]
    BY <1>6, <1>7
  <2> QED BY <1>6, <2>1 DEF Range
<1> QED BY <1>2, <1>12, <1>15, <1>17, <1>18 DEF WindowsInv

\* A loop that ends, at its top or because SDL quit, leaves no WM_INITDIALOG
\* for a live window: the only ones there are are its own dialog's.
LEMMA LoopOver ==
    ASSUME WindowsInv, InLoop, NEW f \in 0 .. nextHwnd - 1, LoopEnds(Top.of, f),
           nextHwnd' = nextHwnd, QueueTidy', InitsRemain,
           pending' = pending, hooks' = hooks, nextHook' = nextHook, phase' = phase
    PROVE  WindowsInv'
<1>1. WindowsKnown /\ QueueTidy /\ StackTidy /\ InitsTidy
  BY DEF WindowsInv
<1>2. /\ WindowsKnown' /\ Live' \subseteq Live /\ Top.of \notin Live'
  BY <1>1, LoopEndsIs
<1>3. StackTidy'
  <2>1. Front(stack) \in Seq(Activation) /\ Front(stack) # << >> /\ Front(stack)[1].kind = "main"
    BY <1>1, FrontTidy DEF InLoop
  <2> QED BY <1>1, <2>1 DEF StackTidy, LoopEnds
<1>4. \A i \in DOMAIN queue : IsInit(queue, i, Live) => queue[i].hwnd \notin Live'
  BY <1>1, <1>2 DEF InitsTidy, InLoop
<1>5. InitsTidy'
  BY <1>1, <1>2, <1>4, NoneNew
<1> QED BY <1>2, <1>3, <1>5 DEF WindowsInv

\* The loop takes the message at the head: a WM_INITDIALOG that still waits is
\* its own dialog's, and was not the head.
LEMMA LoopTakesStep ==
    ASSUME WindowsInv, InLoop, Top.of \in Live, ~ windows[Top.of].done, NEW in \in Pumped,
           LoopTakes(Top.of, in), nextHwnd' = nextHwnd,
           pending' = pending, hooks' = hooks, nextHook' = nextHook, phase' = phase
    PROVE  /\ WindowsInv'
           /\ \A m \in Range(queue) :
                 \/ m \in Range(queue')
                 \/ m.hwnd # Top.of
                 \/ stack' = Append(stack, Entry("proc", m.hwnd, "none"))
<1> DEFINE d == Top.of
           m == Head(in.queue)
<1>1. WindowsKnown /\ QueueTidy /\ StackTidy /\ InitsTidy
  BY DEF WindowsInv
<1>2. nextHwnd \in nextHwnd .. MaxHwnd + 1 /\ nextHwnd \in Nat /\ d \in Nat
  <2>1. nextHwnd \in nextHwnd .. MaxHwnd + 1 /\ nextHwnd \in Nat /\ Live \subseteq 1 .. nextHwnd - 1
    BY <1>1, BoundsAssumption DEF WindowsKnown
  <2>2. d \in Live
    OBVIOUS
  <2> HIDE DEF d
  <2> QED BY <2>1, <2>2
<1>3. Good(in, nextHwnd) /\ in.posted + nextHook - 1 <= MaxActs
  BY <1>1, PumpedGood
<1>4. /\ [in EXCEPT !.queue = Tail(@)].queue = Tail(in.queue)
      /\ [in EXCEPT !.queue = Tail(@)].posted = in.posted
      /\ [in EXCEPT !.queue = Tail(@)].focus = in.focus
  BY <1>3 DEF Good
<1>5. /\ in.queue # << >> /\ windows' = windows /\ sdl' = sdl
      /\ queue' = Tail(in.queue) /\ posted' = in.posted /\ focus' = in.focus
      /\ IF m.hwnd = d THEN stack' = Append(stack, Entry("proc", d, "none")) ELSE stack' = stack
  BY <1>4 DEF LoopTakes, Receive, Enter
<1>6. /\ QueueTidy' /\ InitsRemain
      /\ \A one \in Range(queue) : one \in Range(queue') \/ one = m
  BY <1>1, <1>2, <1>3, <1>5, Received
<1>7. WindowsKnown' /\ Live' = Live
  BY <1>1, <1>5, WindowsStay
<1>8. StackTidy'
  <2>1. Entry("proc", d, "none") \in Activation
    BY <1>2, EntryIs DEF Kinds
  <2>2. stack' \in Seq(Activation) /\ stack' # << >> /\ stack'[1].kind = "main"
    BY <1>1, <1>5, <2>1, Pushed DEF StackTidy
  <2> QED BY <1>1, <2>2 DEF StackTidy
<1>9. /\ in.queue \in Seq(Posting) /\ Len(in.queue) \in Nat \ {0}
      /\ Len(queue) \in Nat /\ queue \in Seq(Messages) /\ Len(queue) <= Len(in.queue)
      /\ \A i \in 1 .. Len(queue) : in.queue[i] = queue[i]
      /\ \A i \in Len(queue) + 1 .. Len(in.queue) : in.queue[i].msg # "INIT"
      /\ m = in.queue[1]
  BY <1>1, <1>3, <1>5 DEF Good, QueueTidy
<1>10. /\ Len(queue') = Len(in.queue) - 1 /\ DOMAIN queue' = 1 .. Len(in.queue) - 1
       /\ \A i \in 1 .. Len(in.queue) - 1 : queue'[i] = in.queue[i + 1]
  BY <1>5, <1>9
<1> HIDE DEF m
<1>11. InitsTidy'
  <2> SUFFICES ASSUME NEW i \in DOMAIN queue', IsInit(queue', i, Live')
               PROVE  /\ Top'.kind = "modal" /\ Top'.of = queue'[i].hwnd
                      /\ ~ windows'[queue'[i].hwnd].done
                      /\ \A j \in 1 .. i - 1 : queue'[j].hwnd # queue'[i].hwnd
    BY DEF InitsTidy
  <2>1. i \in 1 .. Len(in.queue) - 1 /\ queue'[i] = in.queue[i + 1] /\ i + 1 \in 1 .. Len(in.queue)
    BY <1>9, <1>10
  <2>2. i + 1 \in 1 .. Len(queue) /\ queue'[i] = queue[i + 1]
    <3>1. in.queue[i + 1].msg = "INIT"
      BY <2>1 DEF IsInit
    <3>2. i + 1 \notin Len(queue) + 1 .. Len(in.queue)
      BY <1>9, <3>1
    <3>3. i + 1 \in 1 .. Len(queue)
      BY <1>9, <2>1, <3>2
    <3> QED BY <1>9, <2>1, <3>3
  <2>3. i + 1 \in DOMAIN queue /\ IsInit(queue, i + 1, Live)
    BY <1>7, <1>9, <2>2 DEF IsInit
  <2>4. /\ Top.of = queue'[i].hwnd /\ ~ windows[queue'[i].hwnd].done
        /\ \A j \in 1 .. (i + 1) - 1 : queue[j].hwnd # queue'[i].hwnd
    BY <1>1, <2>2, <2>3 DEF InitsTidy, InLoop
  <2>5. m.hwnd # d
    <3>1. 1 \in 1 .. (i + 1) - 1 /\ 1 \in 1 .. Len(queue)
      BY <1>9, <2>1, <2>2
    <3> QED BY <1>9, <2>4, <3>1
  <2>6. stack' = stack /\ Top' = Top
    BY <1>5, <2>5 DEF Top
  <2>7. ASSUME NEW j \in 1 .. i - 1 PROVE queue'[j].hwnd # queue'[i].hwnd
    <3>1. /\ j + 1 \in 1 .. (i + 1) - 1 /\ j + 1 \in 1 .. Len(queue)
          /\ j \in 1 .. Len(in.queue) - 1
      BY <1>9, <2>1, <2>2
    <3> QED BY <1>9, <1>10, <2>4, <3>1
  <2> QED BY <1>5, <2>4, <2>6, <2>7 DEF InLoop
<1>12. WindowsInv'
  BY <1>6, <1>7, <1>8, <1>11 DEF WindowsInv
<1>13. ASSUME NEW one \in Range(queue), one.hwnd = d
       PROVE  one \in Range(queue') \/ stack' = Append(stack, Entry("proc", one.hwnd, "none"))
  BY <1>5, <1>6, <1>13
<1> QED BY <1>12, <1>13

-----------------------------------------------------------------------------
(* The theorems.                                                            *)

\* A turn of a dialog's loop.
LEMMA ModalStep ==
    ASSUME WindowsInv, ModalEnds \/ ModalTurn
    PROVE  /\ WindowsInv' /\ Top.kind = "modal"
           /\ \A m \in Range(queue) :
                 \/ m \in Range(queue')
                 \/ m.hwnd # Top.of
                 \/ stack' = Append(stack, Entry("proc", m.hwnd, "none"))
<1>1. WindowsKnown /\ QueueTidy /\ StackTidy
  BY DEF WindowsInv
<1>2. focus \in 0 .. nextHwnd - 1 /\ nextHwnd \in Nat
  BY <1>1, BoundsAssumption DEF QueueTidy, WindowsKnown
<1>3. InLoop /\ nextHwnd' = nextHwnd
      /\ pending' = pending /\ hooks' = hooks /\ nextHook' = nextHook /\ phase' = phase
  BY DEF ModalEnds, ModalTurn
<1>4. CASE ModalEnds
  <2>1. LoopEnds(Top.of, focus) /\ queue' = queue /\ posted' = posted
    BY <1>4 DEF ModalEnds
  <2>2. focus' \in 0 .. nextHwnd' - 1
    BY <1>1, <1>2, <1>3, <2>1, LoopEndsIs
  <2>3. QueueTidy' /\ InitsRemain
    BY <1>1, <1>3, <2>1, <2>2, QueueStays
  <2> QED BY <1>2, <1>3, <2>1, <2>3, LoopOver DEF InLoop
<1>5. CASE ModalTurn
  <2>1. /\ Top.of \in Live /\ ~ windows[Top.of].done
        /\ \E in \in Pumped :
              \/ LoopTakes(Top.of, in)
              \/ LoopEnds(Top.of, in.focus) /\ queue' = in.queue /\ posted' = in.posted
    BY <1>5 DEF ModalTurn
  <2>2. PICK in \in Pumped :
              \/ LoopTakes(Top.of, in)
              \/ LoopEnds(Top.of, in.focus) /\ queue' = in.queue /\ posted' = in.posted
    BY <2>1
  <2>3. CASE LoopTakes(Top.of, in)
    BY <1>3, <2>1, <2>3, LoopTakesStep DEF InLoop
  <2>4. CASE LoopEnds(Top.of, in.focus) /\ queue' = in.queue /\ posted' = in.posted
    <3>1. Good(in, nextHwnd) /\ in.posted + nextHook - 1 <= MaxActs
      BY <1>1, PumpedGood
    <3>2. /\ in.queue = in.queue /\ in.posted \in Nat /\ in.focus \in 0 .. nextHwnd - 1
          /\ in.queue \in Seq(Posting)
      BY <3>1 DEF Good
    <3>3. focus' \in 0 .. nextHwnd - 1
      BY <1>1, <1>3, <2>4, <3>2, LoopEndsIs
    <3>4. Good([in EXCEPT !.focus = focus'], nextHwnd)
      BY <3>1, <3>3, FocusGood
    <3> DEFINE left == [in EXCEPT !.focus = focus']
    <3>5. left.queue = in.queue /\ left.posted = in.posted /\ left.focus = focus'
      BY <3>1 DEF Good
    <3> HIDE DEF left
    <3>6. nextHwnd \in nextHwnd .. MaxHwnd + 1
      BY <1>1, <1>2, BoundsAssumption DEF WindowsKnown
    <3>7. /\ QueueTidy' /\ InitsRemain
          /\ \A m \in Range(queue) : m \in Range(queue')
      <4>1. Good(left, nextHwnd)
        BY <3>4 DEF left
      <4>2. /\ left.posted + nextHook - 1 <= MaxActs /\ posted' = left.posted
            /\ focus' = left.focus /\ queue' = left.queue
        BY <2>4, <3>1, <3>5
      <4> QED BY <1>1, <1>3, <3>6, <4>1, <4>2, Received
    <3> QED BY <1>3, <2>4, <3>2, <3>7, LoopOver DEF InLoop
  <2> QED BY <2>2, <2>3, <2>4
<1> QED BY <1>4, <1>5

\* What NothingLost asks of a message.
IsKept(m) ==
    \/ m \in ToSet(queue')
    \/ m.hwnd \notin Live
    \/ Len(stack') >= Len(stack) /\ stack'[Len(stack)].held = m
    \/ Top.kind = "modal" /\ Top.of # m.hwnd
    \/ Top.kind = "modal" /\ stack' = Append(stack, Entry("proc", m.hwnd, "none"))

\* Every action keeps the invariant and loses no message.
LEMMA WindowsNext ==
    ASSUME WindowsInv, Next
    PROVE  WindowsInv' /\ \A m \in ToSet(queue) : IsKept(m)
<1>0. /\ ToSet(queue) = Range(queue) /\ ToSet(queue') = Range(queue')
      /\ WindowsKnown /\ QueueTidy /\ StackTidy /\ InitsTidy
  BY DEF ToSet, Range, WindowsInv
<1>1. ASSUME NEW parent \in {0} \union Live, CreateWindow(parent)
      PROVE  WindowsInv' /\ \A m \in ToSet(queue) : IsKept(m)
  <2>1. NoInits
    BY <1>0, <1>1, NoneWaits DEF CreateWindow, Guest
  <2>2. Good(Inbox, nextHwnd + 1) /\ WindowsInv'
    <3>1. nextHwnd \in Nat /\ nextHwnd + 1 \in Nat /\ nextHwnd <= nextHwnd + 1
      BY <1>0, BoundsAssumption DEF WindowsKnown
    <3>2. Good(Inbox, nextHwnd + 1)
      BY <1>0, <3>1, InboxGood
    <3> QED BY <1>1, <2>1, <3>2, CreateWindowStep, HarmlessKeeps
  <2>3. queue' = Append(Append(queue, [hwnd |-> nextHwnd, msg |-> "OTHER", n |-> posted + 1]),
                        [hwnd |-> nextHwnd, msg |-> "OTHER", n |-> posted + 1 + 1])
    BY <1>1 DEF CreateWindow, Receive, Queued, Inbox
  <2>4. \A i \in DOMAIN queue : i \in DOMAIN queue' /\ queue'[i] = queue[i]
    <3>1. \A s : \A x, y : s \in Seq(Messages) =>
             \A i \in DOMAIN s : /\ i \in DOMAIN Append(Append(s, x), y)
                                 /\ Append(Append(s, x), y)[i] = s[i]
      OBVIOUS
    <3>2. queue \in Seq(Messages)
      BY <1>0 DEF QueueTidy
    <3> QED BY <2>3, <3>1, <3>2
  <2> QED BY <2>2, <2>4 DEF ToSet, IsKept
<1>2. ASSUME NEW parent \in {0} \union Live, CreateDialog(parent)
      PROVE  WindowsInv' /\ \A m \in ToSet(queue) : IsKept(m)
  <2>1. NoInits
    BY <1>0, <1>2, NoneWaits DEF CreateDialog, Guest
  <2> QED BY <1>0, <1>2, <2>1, CreateDialogStep, HarmlessKeeps DEF IsKept
<1>3. ASSUME NEW parent \in {0} \union Live, DialogBox(parent)
      PROVE  WindowsInv' /\ \A m \in ToSet(queue) : IsKept(m)
  BY <1>0, <1>3, DialogBoxStep DEF IsKept
<1>4. ASSUME \/ \E h \in Live : DestroyWindow(h) \/ SetFocus(h) \/ EndDialog(h) \/ PostMessage(h)
             \/ CreationFails
      PROVE  WindowsInv' /\ \A m \in ToSet(queue) : IsKept(m)
  <2>1. NoInits
    BY <1>0, <1>4, NoneWaits DEF DestroyWindow, SetFocus, EndDialog, PostMessage, CreationFails, Guest
  <2>2. WindowsInv'
    BY <1>4, <2>1, OtherGuestStep, HarmlessKeeps
  <2>3. queue' = queue \/ \E h \in Live : PostMessage(h)
    BY <1>4 DEF DestroyWindow, SetFocus, EndDialog, CreationFails
  <2>4. CASE \E h \in Live : PostMessage(h)
    <3>1. PICK h : queue' = Append(queue, [hwnd |-> h, msg |-> "OTHER", n |-> posted + 1])
      BY <2>4 DEF PostMessage, Receive, Queued, Inbox
    <3>2. queue \in Seq(Messages)
      BY <1>0 DEF QueueTidy
    <3>3. \A i \in DOMAIN queue : i \in DOMAIN queue' /\ queue'[i] = queue[i]
      BY <3>1, <3>2
    <3> QED BY <2>2, <3>3 DEF ToSet, IsKept
  <2> QED BY <2>2, <2>3, <2>4 DEF IsKept
<1>5. ASSUME TakeMessage PROVE WindowsInv' /\ \A m \in ToSet(queue) : IsKept(m)
  <2>1. NoInits
    BY <1>0, <1>5, NoneWaits DEF TakeMessage, Guest
  <2> QED BY <1>0, <1>5, <2>1, TakeMessageStep, HarmlessKeeps DEF IsKept
<1>6. ASSUME \/ TakeQuit \/ DispatchMessage \/ DispatchReturn
             \/ \E k \in HookKinds :
                  SetHook(k) \/ CallNextHook(k) \/ \E hook \in ToSet(hooks[k]) : Unhook(k, hook)
             \/ \E j \in DOMAIN stack : EndCall(j)
      PROVE  WindowsInv' /\ \A m \in ToSet(queue) : IsKept(m)
  <2>1. /\ Harmless /\ Top.kind # "modal" /\ phase = "running"
        /\ \A m \in Range(queue) : m \in Range(queue')
    BY <1>6, OtherStackStep
  <2>2. NoInits
    BY <1>0, <2>1, NoneWaits
  <2> QED BY <1>0, <2>1, <2>2, HarmlessKeeps DEF IsKept
<1>7. ASSUME ModalEnds \/ ModalTurn PROVE WindowsInv' /\ \A m \in ToSet(queue) : IsKept(m)
  BY <1>0, <1>7, ModalStep DEF IsKept
<1> QED BY <1>1, <1>2, <1>3, <1>4, <1>5, <1>6, <1>7 DEF Next

\* The invariant holds of every behaviour.
LEMMA WindowsAlways == Spec => []WindowsInv
<1>1. WindowsInv /\ UNCHANGED vars => WindowsInv'
  BY DEF WindowsInv, WindowsKnown, QueueTidy, StackTidy, InitsTidy, IsInit, Increasing, Live, Top, vars
<1>2. WindowsInv /\ [Next]_vars => WindowsInv'
  BY <1>1, WindowsNext
<1> QED BY <1>2, WindowsStart, PTL DEF Spec

\* The tables of windows, messages, activations and hooks keep their shape, for
\* every template and every bound (window_manager.py, user32_handlers.py).
THEOREM WindowsTypeCorrect == Spec => []TypeOK
BY WindowsAlways, WindowsInvImplies, PTL

\* Messages wait in the order they were posted in, through the loops of dialogs
\* and CreateDialog's search of the queue, and a dialog's procedure hears of
\* WM_INITDIALOG before anything else (user32_handlers.py, window_manager.py).
THEOREM OrderKept == Spec => []MessagesInOrder
BY WindowsAlways, WindowsInvImplies, PTL

\* A message for a live window leaves the queue only into the hands of the guest
\* or its dialog's procedure, or dropped by the loop of another dialog.
THEOREM NoMessageLost == Spec => NothingLost
<1>1. WindowsInv /\ [Next]_vars => [\A m \in ToSet(queue) : IsKept(m)]_vars
  BY WindowsNext
<1>2. (\A m \in ToSet(queue) : IsKept(m)) <=>
         \A m \in ToSet(queue) :
            \/ m \in ToSet(queue')
            \/ m.hwnd \notin Live
            \/ Len(stack') >= Len(stack) /\ stack'[Len(stack)].held = m
            \/ Top.kind = "modal" /\ Top.of # m.hwnd
            \/ Top.kind = "modal" /\ stack' = Append(stack, Entry("proc", m.hwnd, "none"))
  BY DEF IsKept
<1> QED BY <1>1, <1>2, WindowsAlways, PTL DEF Spec, NothingLost
=============================================================================
