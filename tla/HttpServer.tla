------------------------------ MODULE HttpServer ------------------------------
(***************************************************************************)
(* Which requests get to the control window: serve and handle of           *)
(* recovery/src/gui/mod.rs with the parser of gui/http.rs.  The acceptor   *)
(* counts the requests under way and drops what is over the limit; each    *)
(* request is a thread, which reads the head, decides from it alone, and   *)
(* only then reads a body.  What the api does is left to the module that   *)
(* composes this one with the window (Admitted, Answered).                 *)
(***************************************************************************)
EXTENDS Naturals

CONSTANTS
  Conns,            \* the sockets
  MaxConnections,   \* 32
  MaxHead           \* the pieces a head may come in; bytes in the code

VARIABLES
  live,   \* the count of requests under way
  conn    \* conn[c]: how far the request on socket c is

httpvars == <<live, conn>>

\* A head that is one, or not: too long, too many lines, a length stated that
\* the route does not accept; or one that is still coming.  The rest is what the
\* checks look at.
Requests ==
  [head : {"whole", "bad", "coming"}, host : BOOLEAN,
   origin : {"none", "ours", "other"}, route : {"icon", "page", "api", "other"},
   token : BOOLEAN, body : {"whole", "short"}]

NoConn == [at |-> "none"]

Holding == {c \in Conns : conn[c].at \in {"head", "body", "api", "done"}}

HttpInit == live = 0 /\ conn = [c \in Conns |-> NoConn]

Connect(c, r) ==
  /\ conn[c] = NoConn
  /\ conn' = [conn EXCEPT ![c] = [at |-> "backlog", req |-> r, sent |-> 0]]
  /\ UNCHANGED live

\* Over the limit a socket is closed without an answer.
Drop(c) ==
  /\ conn[c].at = "backlog" /\ live >= MaxConnections
  /\ conn' = [conn EXCEPT ![c] = NoConn]
  /\ UNCHANGED live

Accept(c) ==
  /\ conn[c].at = "backlog" /\ live < MaxConnections
  /\ live' = live + 1
  /\ conn' = [conn EXCEPT ![c].at = "head"]

\* Mistake: the count is left as it was when there was to be a thread.
NoThreadCounted(c) ==
  /\ conn[c].at = "backlog" /\ live < MaxConnections
  /\ live' = live + 1
  /\ conn' = [conn EXCEPT ![c] = NoConn]

\* The thread cannot be started: counted and given back at once.
NoThread(c) ==
  /\ conn[c].at = "backlog" /\ live < MaxConnections
  /\ conn' = [conn EXCEPT ![c] = NoConn]
  /\ UNCHANGED live

\* What handle makes of a head: the refusals, in order, and where the body is
\* asked for.
Verdict(r) ==
  CASE r.head # "whole" -> "400"
    [] r.head = "whole" /\ (~r.host \/ r.origin = "other") -> "403"
    [] r.head = "whole" /\ r.host /\ r.origin # "other" ->
         CASE r.route = "icon" -> "204"
           [] r.route = "page" -> IF r.token THEN "200" ELSE "403"
           [] r.route = "api" -> IF r.token THEN "body" ELSE "403"
           [] OTHER -> "404"

\* A caller sends a piece of its head, and the thread waits for the next.
Trickle(c) ==
  /\ conn[c].at = "head" /\ conn[c].req.head = "coming" /\ conn[c].sent < MaxHead
  /\ conn' = [conn EXCEPT ![c].sent = @ + 1]
  /\ UNCHANGED live

\* The head is there, or the read timed out, or the caller is gone, or it sent
\* more than a head may be.
Decide(c) ==
  /\ conn[c].at = "head"
  /\ conn' = [conn EXCEPT ![c].at = IF Verdict(conn[c].req) = "body" THEN "body" ELSE "done"]
  /\ UNCHANGED live

\* As many bytes as the head stated, or a 400.
ReadBody(c) ==
  /\ conn[c].at = "body"
  /\ conn' = [conn EXCEPT ![c].at = IF conn[c].req.body = "whole" THEN "api" ELSE "done"]
  /\ UNCHANGED live

\* The api has dealt with the request.
Admitted(c) == conn[c].at = "api"
Answered(c) == conn' = [conn EXCEPT ![c].at = "done"] /\ UNCHANGED live

\* Mistake: only a request that was served gives its slot back.
EndServed(c) ==
  /\ conn[c].at = "done"
  /\ live' = IF Verdict(conn[c].req) = "403" THEN live ELSE live - 1
  /\ conn' = [conn EXCEPT ![c] = NoConn]

\* handle returned: the slot is given back.
End(c) ==
  /\ conn[c].at = "done"
  /\ live' = live - 1
  /\ conn' = [conn EXCEPT ![c] = NoConn]

\* A request thread goes on with its own socket.
Thread(c) == Decide(c) \/ ReadBody(c) \/ End(c)
===============================================================================
