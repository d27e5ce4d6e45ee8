-------------------------- MODULE GameSocketServer --------------------------
(***************************************************************************)
(* The sessions of the game socket server (GameSocketServer/src/session.cpp*)
(* and server.cpp): how a session cuts HTTP requests out of the byte       *)
(* stream of its socket and answers them.                                  *)
(*                                                                         *)
(* One thread runs io_context::run, so every handler is one step.  A       *)
(* session has one outstanding operation, a read or a write, and is        *)
(* destroyed, its socket with it, by a handler that starts no other.       *)
(*                                                                         *)
(* Bytes are abstracted to three kinds: "length", the line with the        *)
(* Content-Length of a request; "blank", the empty line after its header;  *)
(* and "body".  A line that arrives in two pieces is not found by either   *)
(* read, so a cut inside of a line and one before it are the same.         *)
(***************************************************************************)
EXTENDS Integers, Sequences, FiniteSets

CONSTANTS
    Sessions,     \* connections
    Lengths,      \* lengths of the bodies that clients send
    NotANumber,   \* a Content-Length that stoul throws at
    MaxRequests,  \* bound: requests on one connection
    BufferSize    \* of buffer_, 8192 there

ASSUME FramingAssumption ==
    /\ Lengths \subseteq Nat \ {0}
    /\ NotANumber \notin Nat
    /\ MaxRequests \in Nat /\ BufferSize \in Nat \ {0}

VARIABLES
    patient,      \* the sessions whose client waits for an answer before it
                  \* sends the next request
    whole,        \* the sessions of which no read ends inside of a header
    running,      \* io_context::run has not been left
    phase,        \* of a session: "new", none yet; the operation outstanding:
                  \* "header", "body", "write"; "gone", destroyed
    wire,         \* what the client has sent and no read has returned yet
    left,         \* the sessions whose client has closed its side
    remaining,    \* remaining_length of the outstanding read_body
    message,      \* message_
    bodies,       \* the lengths of the requests sent so far
    replies       \* the answers: the number of the request, or Invalid

\* What a client and its network are like does not change.
habits == <<patient, whole>>
vars == <<habits, running, phase, wire, left, remaining, message, bodies, replies>>

Items == [kind : {"length", "blank", "body"}, req : 1 .. MaxRequests,
          len : Lengths \cup {NotANumber}]
Item(kind, k, n) == [kind |-> kind, req |-> k, len |-> n]
\* The body of request k, with a Content-Length of n.
Body(k, n) == [i \in 1 .. (IF n = NotANumber THEN 1 ELSE n) |-> Item("body", k, n)]
\* Request k as it is sent: its header, of two lines, and its body.
Request(k, n) == <<Item("length", k, n), Item("blank", k, n)>> \o Body(k, n)
\* The answer "Invalid request format".
Invalid == 0

Init ==
    /\ patient \in SUBSET Sessions /\ whole \in SUBSET Sessions
    /\ running = TRUE
    /\ phase = [s \in Sessions |-> "new"]
    /\ wire = [s \in Sessions |-> <<>>]
    /\ left = {}
    /\ remaining = [s \in Sessions |-> 0]
    /\ message = [s \in Sessions |-> <<>>]
    /\ bodies = [s \in Sessions |-> <<>>]
    /\ replies = [s \in Sessions |-> <<>>]
-----------------------------------------------------------------------------
(***************************************************************************)
(* Clients, and the network.                                               *)
(***************************************************************************)
ClientIsThere(s) == running /\ phase[s] \in {"header", "body", "write"} /\ s \notin left

SendRequest(s, n) ==
    /\ ClientIsThere(s)
    /\ Len(bodies[s]) < MaxRequests
    /\ s \in patient => Len(replies[s]) = Len(bodies[s])
    /\ wire' = [wire EXCEPT ![s] = @ \o Request(Len(bodies[s]) + 1, n)]
    /\ bodies' = [bodies EXCEPT ![s] = Append(@, n)]
    /\ UNCHANGED <<habits, running, phase, left, remaining, message, replies>>

Leave(s) ==
    /\ ClientIsThere(s)
    /\ left' = left \cup {s}
    /\ UNCHANGED <<habits, running, phase, wire, remaining, message, bodies, replies>>

\* What a read of the session may return: a part of what was sent, up to the
\* size of buffer_.
Chunks(s) ==
    {SubSeq(wire[s], 1, m) : m \in
        {m \in 1 .. Len(wire[s]) :
            /\ m <= BufferSize
            /\ s \notin whole \/ m = Len(wire[s]) \/ wire[s][m + 1].kind # "blank"}}

\* The first item of a kind, as std::string::find.
First(c, kind) ==
    LET found == {i \in DOMAIN c : c[i].kind = kind}
    IN  IF found = {} THEN 0 ELSE CHOOSE i \in found : \A j \in found : i <= j
-----------------------------------------------------------------------------
(***************************************************************************)
(* The server.                                                             *)
(***************************************************************************)

\* Server::do_accept
Accept(s) ==
    /\ running /\ phase[s] = "new"
    /\ phase' = [phase EXCEPT ![s] = "header"]
    /\ UNCHANGED <<habits, running, wire, left, remaining, message, bodies, replies>>

\* process_request: data is parsed as JSON, which succeeds on exactly the body
\* of a request, and answered.
Answer(s, data) ==
    IF \E k \in DOMAIN bodies[s] : data = Body(k, bodies[s][k])
    THEN data[1].req
    ELSE Invalid
ProcessRequest(s, data) ==
    /\ replies' = [replies EXCEPT ![s] = Append(@, Answer(s, data))]
    /\ phase' = [phase EXCEPT ![s] = "write"]

ContentLength(c) == IF First(c, "length") = 0 THEN 0 ELSE c[First(c, "length")].len
AfterBlank(c) == SubSeq(c, First(c, "blank") + 1, Len(c))
Consume(s, c) == wire' = [wire EXCEPT ![s] = SubSeq(@, Len(c) + 1, Len(@))]

\* Mutant: a complete body is taken for an incomplete one.
ReadHeaderOffByOne(s, c) ==
    /\ running /\ phase[s] = "header"
    /\ Consume(s, c)
    /\ ContentLength(c) # NotANumber
    /\ LET part == AfterBlank(c)
           n == ContentLength(c)
       IN  \/ /\ First(c, "blank") = 0
              /\ phase' = [phase EXCEPT ![s] = "gone"]
              /\ UNCHANGED <<habits, remaining, message, replies>>
           \/ /\ First(c, "blank") # 0 /\ Len(part) > n
              /\ ProcessRequest(s, SubSeq(part, 1, n))
              /\ UNCHANGED <<habits, remaining, message>>
           \/ /\ First(c, "blank") # 0 /\ Len(part) <= n
              /\ phase' = [phase EXCEPT ![s] = "body"]
              /\ message' = [message EXCEPT ![s] = part]
              /\ remaining' = [remaining EXCEPT ![s] = n - Len(part)]
              /\ UNCHANGED replies
    /\ UNCHANGED <<habits, running, left, bodies>>

\* Mutant: an incomplete body is answered as it is.
ReadHeaderWhole(s, c) ==
    /\ running /\ phase[s] = "header"
    /\ Consume(s, c)
    /\ ContentLength(c) # NotANumber
    /\ First(c, "blank") # 0
    /\ ProcessRequest(s, AfterBlank(c))
    /\ UNCHANGED <<habits, running, left, bodies, remaining, message>>

\* read_header: a chunk without an empty line starts no other operation; what
\* follows the body in the chunk is dropped.
ReadHeader(s, c) ==
    /\ running /\ phase[s] = "header"
    /\ Consume(s, c)
    /\ ContentLength(c) # NotANumber
    /\ LET part == AfterBlank(c)
           n == ContentLength(c)
       IN  \/ /\ First(c, "blank") = 0
              /\ phase' = [phase EXCEPT ![s] = "gone"]
              /\ UNCHANGED <<habits, remaining, message, replies>>
           \/ /\ First(c, "blank") # 0 /\ Len(part) >= n
              /\ ProcessRequest(s, SubSeq(part, 1, n))
              /\ UNCHANGED <<habits, remaining, message>>
           \/ /\ First(c, "blank") # 0 /\ Len(part) < n
              /\ phase' = [phase EXCEPT ![s] = "body"]
              /\ message' = [message EXCEPT ![s] = part]
              /\ remaining' = [remaining EXCEPT ![s] = n - Len(part)]
              /\ UNCHANGED replies
    /\ UNCHANGED <<habits, running, left, bodies>>

\* stoul throws out of the handler and of io_context::run; main returns 1.
ReadHeaderThrows(s, c) ==
    /\ running /\ phase[s] = "header"
    /\ ContentLength(c) = NotANumber
    /\ running' = FALSE
    /\ phase' = [q \in Sessions |-> "gone"]
    /\ Consume(s, c)
    /\ UNCHANGED <<habits, left, remaining, message, bodies, replies>>

\* Mutant: read_body goes on with the length it began with.
ReadBodyAgain(s, c) ==
    /\ running /\ phase[s] = "body"
    /\ Consume(s, c)
    /\ message' = [message EXCEPT ![s] = @ \o c]
    /\ IF Len(c) >= remaining[s]
       THEN ProcessRequest(s, message'[s])
       ELSE UNCHANGED <<habits, phase, replies>>
    /\ UNCHANGED <<habits, running, left, bodies, remaining>>

\* read_body: all of the chunk is appended, what follows the body included.
ReadBody(s, c) ==
    /\ running /\ phase[s] = "body"
    /\ Consume(s, c)
    /\ message' = [message EXCEPT ![s] = @ \o c]
    /\ IF Len(c) >= remaining[s]
       THEN ProcessRequest(s, message'[s]) /\ UNCHANGED remaining
       ELSE /\ remaining' = [remaining EXCEPT ![s] = @ - Len(c)]
            /\ UNCHANGED <<habits, phase, replies>>
    /\ UNCHANGED <<habits, running, left, bodies>>

\* write_response has written everything: the next request.
WriteDone(s) ==
    /\ running /\ phase[s] = "write"
    /\ phase' = [phase EXCEPT ![s] = "header"]
    /\ UNCHANGED <<habits, running, wire, left, remaining, message, bodies, replies>>

\* A read finds the end of the stream, or a write its peer gone: handle_error.
OperationFails(s) ==
    /\ running /\ s \in left
    /\ \/ phase[s] \in {"header", "body"} /\ wire[s] = <<>>
       \/ phase[s] = "write"
    /\ phase' = [phase EXCEPT ![s] = "gone"]
    /\ UNCHANGED <<habits, running, wire, left, remaining, message, bodies, replies>>

\* signal_handler: stop() closes the acceptor and exit() ends the process.  So
\* does an exception of Session's constructor, which asks for the address of a
\* client that may be gone already.
Shutdown ==
    /\ running
    /\ running' = FALSE
    /\ phase' = [s \in Sessions |-> "gone"]
    /\ UNCHANGED <<habits, wire, left, remaining, message, bodies, replies>>
-----------------------------------------------------------------------------
Read(s) == \E c \in Chunks(s) : ReadHeader(s, c) \/ ReadHeaderThrows(s, c) \/ ReadBody(s, c)

Next ==
    \/ \E s \in Sessions, n \in Lengths \cup {NotANumber} : SendRequest(s, n)
    \/ \E s \in Sessions : Leave(s) \/ Accept(s) \/ Read(s) \/ WriteDone(s) \/ OperationFails(s)
    \/ Shutdown

Spec == Init /\ [][Next]_vars

\* What was sent arrives and answers are written; nobody has to send, to leave
\* or to stop the server.
Fairness == \A s \in Sessions : WF_vars(Read(s)) /\ WF_vars(WriteDone(s))

FairSpec == Spec /\ Fairness
-----------------------------------------------------------------------------
(***************************************************************************)
(* Properties.                                                             *)
(***************************************************************************)
\* Every variable holds values of its type, and read_body is only outstanding
\* with something left to read.
TypeOK ==
    /\ patient \subseteq Sessions /\ whole \subseteq Sessions
    /\ running \in BOOLEAN /\ left \subseteq Sessions
    /\ phase \in [Sessions -> {"new", "header", "body", "write", "gone"}]
    /\ remaining \in [Sessions -> Nat]
    /\ wire \in [Sessions -> Seq(Items)] /\ message \in [Sessions -> Seq(Items)]
    /\ bodies \in [Sessions -> Seq(Lengths \cup {NotANumber})]
    /\ replies \in [Sessions -> Seq(0 .. MaxRequests)]
    /\ \A s \in Sessions :
         /\ Len(bodies[s]) <= MaxRequests
         /\ phase[s] = "body" => remaining[s] > 0

\* No session answers more requests than its client sent, and a client that
\* waits for its answers gets the answer to each request, in order, however the
\* network cuts the stream into reads.
AnswersMatch ==
    \A s \in Sessions :
        /\ Len(replies[s]) <= Len(bodies[s])
        /\ s \in patient => \A k \in DOMAIN replies[s] : replies[s][k] = k

\* The requests of a client that waits for its answers, and whose headers
\* arrive whole, are answered as long as the client and the server stay.
RequestIsAnswered ==
    \A s \in Sessions, k \in 1 .. MaxRequests :
        (s \in patient \cap whole /\ Len(bodies[s]) >= k) ~>
            (Len(replies[s]) >= k \/ s \in left \/ ~ running)
=============================================================================
