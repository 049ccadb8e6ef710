---------------------------- MODULE McpTransport ----------------------------
(***************************************************************************)
(* StdioMcpTransport: a child process asked one request at a time over its *)
(* standard input and output.                                              *)
(*                                                                         *)
(* A session is a record of the child process, the number of the last      *)
(* request, the requests the child has read and the lines it has written:  *)
(*   process   "none" (not started), "running", "exited", "reaped"         *)
(*   received  requests the child may answer, [id, of]                     *)
(*   inbox     lines not yet read by the transport, in order               *)
(*   full      whether its input pipe is full                              *)
(* A line is [kind, id, of, body]; of is what the answered request asked.  *)
(***************************************************************************)
EXTENDS Integers, Sequences

NoSession ==
  [process |-> "none", sequence |-> 0, received |-> {}, inbox |-> <<>>, full |-> FALSE]

(* Popen.                                                                  *)
Started == [NoSession EXCEPT !.process = "running"]

(* close: the group is ended and the child reaped, its pipes are closed;   *)
(* nothing can be asked after it, so that its number does not matter.      *)
Closed(s) == IF s.process = "none" THEN s ELSE [NoSession EXCEPT !.process = "reaped"]

(* Mutation: every request has the number of the first.                    *)
NextId_Reused(s) == 1

NextId(s) == s.sequence + 1

(* request, until the answer is waited for; the child must be running.     *)
Asked(s, of) ==
  [s EXCEPT !.sequence = NextId(s),
            !.received = @ \union {[id |-> NextId(s), of |-> of]}]

CanAsk(s) == s.process = "running"

(* _send has no deadline: it waits for as long as the child leaves the     *)
(* pipe full.  The end of the child ends the wait with an error, of which  *)
(* the caller is told as of a closed session.                              *)
Blocked(s) == CanAsk(s) /\ s.full

(* The line answers the request that waits.                                *)
Meets(s, line) == line.kind = "answer" /\ line.id = s.sequence

(* Lines of the child's own: notifications are skipped, its requests are   *)
(* refused by _send, which fails when it has exited in the meantime.       *)
Skipped(s, line) == line.kind = "notice" \/ (line.kind = "ask" /\ CanAsk(s))

(* The code of the error that ends the session at this line.               *)
LineError(line) == CASE line.kind = "huge" -> "MCP_RESPONSE_TOO_LARGE"
                     [] line.kind = "ask" -> "MCP_CLOSED"
                     [] OTHER -> "MCP_PROTOCOL_ERROR"
-----------------------------------------------------------------------------
(* The child, at its worst: it answers what it was asked, in any order,    *)
(* more than once or never, says things of its own, may exit and may leave *)
(* its input unread, which the refusals of its own requests fill up.       *)

Line(kind, request, body) ==
  [kind |-> kind, id |-> request.id, of |-> request.of, body |-> body]

Wrote(s, line) == [s EXCEPT !.inbox = Append(@, line)]
Answered(s, request, body) ==
  [Wrote(s, Line("answer", request, body)) EXCEPT !.received = @ \ {request}]
Exited(s) == [s EXCEPT !.process = "exited"]
Unread(s) == [s EXCEPT !.full = TRUE]
Drained(s) == [s EXCEPT !.full = FALSE]
=============================================================================
