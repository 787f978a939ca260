------------------------------ MODULE WinInet -------------------------------
(***************************************************************************)
(* The HTTP handles of tew/api/wininet_handlers.py: sessions, connections  *)
(* and requests in one table.  A request is sent and answered within one   *)
(* call; its answer is read piece by piece afterwards, and it can be sent  *)
(* again.  An answer is here its number and the length of its body.        *)
(***************************************************************************)
EXTENDS Integers, FiniteSetsExt, Functions

CONSTANTS
    InetHandle,    \* handles, in the order they are given: 1..n
    MaxAnswers,    \* bound: requests the server sees
    MaxBody        \* bound: the length of a body

ASSUME InetAssumption == MaxAnswers \in Nat /\ MaxBody \in Nat

VARIABLES
    handle_map,    \* [handle |-> session, connection or request]
    inet_next,     \* _next_handle
    answers,       \* not code: how many requests the server has seen
    inet_raised    \* an exception that is no OSError left a handler

inetVars == <<handle_map, inet_next, answers, inet_raised>>

Session == [kind |-> "session"]
Connection == [kind |-> "connection"]

\* status_code and the body, each with the answer it came from; 0 is none.
Fresh == [kind |-> "request", status |-> 0, body |-> 0, len |-> 0, read_pos |-> 0,
          ok |-> FALSE]   \* not code: what the last send returned

InetInit ==
    /\ handle_map = [h \in {} |-> Session]
    /\ inet_next = 1 /\ answers = 0 /\ inet_raised = FALSE

IsA(h, kind) == h \in DOMAIN handle_map /\ handle_map[h].kind = kind

Alloc(obj) ==
    /\ inet_next \in InetHandle
    /\ handle_map' = [h \in DOMAIN handle_map \cup {inet_next} |->
                        IF h = inet_next THEN obj ELSE handle_map[h]]
    /\ inet_next' = inet_next + 1

\* The handle of the session is not looked at.
InternetOpen    == Alloc(Session) /\ UNCHANGED <<answers, inet_raised>>
InternetConnect == Alloc(Connection) /\ UNCHANGED <<answers, inet_raised>>

HttpOpenRequest(h) ==
    /\ IsA(h, "connection")
    /\ Alloc(Fresh)
    /\ UNCHANGED <<answers, inet_raised>>

\* Mutant of Rewound: what was read of the last answer stays read.
Rewound_Keeps(req) == req

Rewound(req) == [req EXCEPT !.read_pos = 0]

Answer == answers + 1

\* _send_http: no connection; the body breaks off after the status was stored;
\* or an answer.
Outcomes(req) ==
    {[req EXCEPT !.ok = FALSE], [req EXCEPT !.status = Answer, !.ok = FALSE]}
    \cup {[req EXCEPT !.status = Answer, !.body = Answer, !.len = n, !.ok = TRUE] : n \in 0..MaxBody}

HttpSendRequest(h) ==
    /\ IsA(h, "request") /\ answers < MaxAnswers
    /\ answers' = Answer
    /\ \E req \in Outcomes(Rewound(handle_map[h])) :
         handle_map' = [handle_map EXCEPT ![h] = req]
    /\ UNCHANGED <<inet_next, inet_raised>>

\* A malformed answer is an HTTPException, which nobody catches.
Malformed ==
    /\ answers < MaxAnswers
    /\ answers' = Answer /\ inet_raised' = TRUE
    /\ UNCHANGED <<handle_map, inet_next>>

\* Connect, open and send in one; the handle exists only with an answer.
InternetOpenUrl ==
    /\ answers < MaxAnswers
    /\ answers' = Answer
    /\ \/ \E req \in Outcomes(Fresh) : req.ok /\ Alloc(req)
       \/ UNCHANGED <<handle_map, inet_next>>
    /\ UNCHANGED inet_raised

\* Nothing keeps the count from going below zero: see ReadsOneAnswer.
InternetReadFile(h, n) ==
    /\ IsA(h, "request")
    /\ LET req == handle_map[h]
       IN  handle_map' = [handle_map EXCEPT ![h].read_pos = @ + Min({n, req.len - @})]
    /\ UNCHANGED <<inet_next, answers, inet_raised>>

InternetCloseHandle(h) ==
    /\ h \in DOMAIN handle_map
    /\ handle_map' = Restrict(handle_map, DOMAIN handle_map \ {h})
    /\ UNCHANGED <<inet_next, answers, inet_raised>>

InetNext ==
    /\ ~ inet_raised
    /\ \/ InternetOpen \/ InternetConnect \/ Malformed \/ InternetOpenUrl
       \/ \E h \in InetHandle :
            \/ HttpOpenRequest(h) \/ HttpSendRequest(h) \/ InternetCloseHandle(h)
            \/ \E n \in 1..MaxBody : InternetReadFile(h, n)

InetSpec == InetInit /\ [][InetNext]_inetVars
-----------------------------------------------------------------------------
\* While the last send of a request succeeded, its status and what is read of
\* it are of one answer, and no read leaves the body, however often the request
\* was sent before and with whatever failures (HttpSendRequestA, _send_http).
ReadsOneAnswer ==
    \A h \in DOMAIN handle_map :
        LET req == handle_map[h]
        IN  req.kind = "request" =>
              /\ req.read_pos \in 0..req.len
              /\ req.ok => req.status = req.body
=============================================================================
