------------------------------- MODULE Server -------------------------------
(* How mbbd takes connections (mbbserver.c) and answers one over HTTP        *)
(* (mbbthreadhttp.c, http.c, and the lists of tags of xmltag.c).             *)
(*                                                                         *)
(* The main thread passes a connection to a new thread in one static block,  *)
(* tp, whose mutex it locks and the new thread unlocks once it has read the  *)
(* socket.  The thread reads tp->http later, after that.  A connection over  *)
(* HTTP carries one request, which names a method in its URL or carries a    *)
(* batch of requests in its body.  What a connection over XML does is        *)
(* Client's.                                                               *)
EXTENDS Naturals, Sequences, FiniteSets, SequencesExt

CONSTANTS
  Xml, Http,  \* connections that arrive at the XML and at the HTTP port
  Batches,    \* bodies: requests in their order, 0 for one without a name
  None

ASSUME BatchesAssumption == Batches \subseteq Seq(Nat) /\ <<>> \notin Batches
ASSUME ConnsAssumption == IsFiniteSet(Xml \cup Http) /\ Xml \cap Http = {}
ASSUME NoneAssumption == None \notin {"xml", "http"}

Conns == Xml \cup Http
Threads == 1 .. Cardinality(Conns)

VARIABLES
  queue,    \* SUBSET Conns: in the queues of the two listening sockets
  main,     \* "poll", "start", "stopped": the main thread
  mutex,    \* tp.mutex is locked
  tp,       \* [sock |-> , http |-> ]: the parameter block
  closed,   \* SUBSET Conns
  arrived,  \* sequence of the connections taken, in that order
  pc,       \* [Threads -> ...]
  sock,     \* [Threads -> Conns \cup {None}]
  type,     \* [Threads -> {"xml", "http", None}]: ss.type
  req,      \* [Threads -> request \cup {None}]: HttpRequest and root_tag
  todo,     \* [Threads -> Seq(Nat)]: requests of the batch still to call
  ans,      \* [Threads -> Seq(Nat)]: childs "response" of the answer
  sent      \* [Threads -> sequence of answers written to the socket]

serverVars == <<queue, main, mutex, tp, closed, arrived>>
httpVars == <<req, todo, ans, sent>>
vars == <<serverVars, pc, sock, type, httpVars>>

Kind(c) == IF c \in Http THEN "http" ELSE "xml"

Init ==
  /\ queue = Conns
  /\ main = "poll"
  /\ mutex = FALSE
  /\ tp = [sock |-> None, http |-> "xml"]
  /\ closed = {}
  /\ arrived = <<>>
  /\ pc = [t \in Threads |-> "none"]
  /\ sock = [t \in Threads |-> None]
  /\ type = [t \in Threads |-> None]
  /\ req = [t \in Threads |-> None]
  /\ todo = [t \in Threads |-> <<>>]
  /\ ans = [t \in Threads |-> <<>>]
  /\ sent = [t \in Threads |-> <<>>]

-----------------------------------------------------------------------------
(* The main thread: poll_accept and start_thread.                            *)

Accept(c) ==
  /\ main = "poll"
  /\ c \in queue
  /\ queue' = queue \ {c}
  /\ arrived' = Append(arrived, c)
  /\ main' = "start"
  /\ UNCHANGED <<mutex, tp, closed, pc, sock, type, httpVars>>

\* poll or accept fails and mbbd stops taking connections.
AcceptFails ==
  /\ main = "poll"
  /\ main' = "stopped"
  /\ closed' = closed \cup queue
  /\ queue' = {}
  /\ UNCHANGED <<mutex, tp, arrived, pc, sock, type, httpVars>>

\* Mutant: the main thread does not wait for the thread before.
MutexFreeAnyway == TRUE

MutexFree == ~ mutex

StartThread ==
  /\ main = "start"
  /\ MutexFree
  /\ mutex' = TRUE
  /\ tp' = [sock |-> Last(arrived), http |-> Kind(Last(arrived))]
  /\ pc' = [pc EXCEPT ![Len(arrived)] = "created"]
  /\ main' = "poll"
  /\ UNCHANGED <<queue, closed, arrived, sock, type, httpVars>>

\* Mutant: the mutex is forgotten when g_thread_create fails.
StartThreadFailsLocked ==
  /\ main = "start"
  /\ MutexFree
  /\ mutex' = TRUE
  /\ tp' = [sock |-> Last(arrived), http |-> Kind(Last(arrived))]
  /\ closed' = closed \cup {Last(arrived)}
  /\ main' = "poll"
  /\ UNCHANGED <<queue, arrived, pc, sock, type, httpVars>>

\* g_thread_create fails: the connection is closed, tp is free again.
StartThreadFails ==
  /\ main = "start"
  /\ MutexFree
  /\ tp' = [sock |-> Last(arrived), http |-> Kind(Last(arrived))]
  /\ closed' = closed \cup {Last(arrived)}
  /\ main' = "poll"
  /\ UNCHANGED <<queue, mutex, arrived, pc, sock, type, httpVars>>

-----------------------------------------------------------------------------
(* mbb_thread_client.                                                      *)

TakeSocket(t) ==
  /\ pc[t] = "created"
  /\ sock' = [sock EXCEPT ![t] = tp.sock]
  /\ mutex' = FALSE
  /\ pc' = [pc EXCEPT ![t] = "session"]
  /\ UNCHANGED <<queue, main, tp, closed, arrived, type, httpVars>>

\* mbb_session_new: tp->http is read from a block that is another's by now.
SessionNew(t) ==
  /\ pc[t] = "session"
  /\ type' = [type EXCEPT ![t] = tp.http]
  /\ pc' = [pc EXCEPT ![t] = "serve"]
  /\ UNCHANGED <<serverVars, sock, httpVars>>

\* It is read again to choose the protocol.
Serve(t) ==
  /\ pc[t] = "serve"
  /\ pc' = [pc EXCEPT ![t] = tp.http]
  /\ UNCHANGED <<serverVars, sock, type, httpVars>>

\* close or fclose, mbb_session_quit.
End(t) ==
  /\ pc' = [pc EXCEPT ![t] = "ended"]
  /\ closed' = closed \cup {sock[t]}
  /\ UNCHANGED <<queue, main, mutex, tp, arrived, sock, type>>

XmlEnd(t) ==
  /\ pc[t] = "xml"
  /\ End(t)
  /\ UNCHANGED httpVars

\* fdopen fails: the thread ends with nothing said, and the socket stays open.
FdopenFails(t) ==
  /\ pc[t] = "http"
  /\ req[t] = None
  /\ pc' = [pc EXCEPT ![t] = "ended"]
  /\ UNCHANGED <<serverVars, sock, type, httpVars>>

-----------------------------------------------------------------------------
(* Lists of tags with the same name: xml_tag_add_child puts a tag second,    *)
(* xml_tag_reorder takes the tags from the third on and puts each second.    *)

AddChild(list, tag) == IF list = <<>> THEN <<tag>> ELSE <<Head(list), tag>> \o Tail(list)

\* One tag after another.
AddChildren(list, tags) ==
  LET added[i \in 0 .. Len(tags)] == IF i = 0 THEN list ELSE AddChild(added[i - 1], tags[i])
  IN added[Len(tags)]

\* Mutant: the list is left as it is.
ReorderNot(list) == list

Reorder(list) ==
  IF Len(list) < 3 THEN list ELSE AddChildren(SubSeq(list, 1, 2), SubSeq(list, 3, Len(list)))

\* The parser's tag of a body: its childs "request".
Parsed(batch) == AddChildren(<<>>, batch)

-----------------------------------------------------------------------------
(* http_client_loop.  push_http_xml_msg writes one answer.                   *)

Push(t, what, parts) == sent' = [sent EXCEPT ![t] = Append(@, [what |-> what, parts |-> parts])]

\* An error is answered and ends the loop.
PushError(t) ==
  /\ Push(t, "error", <<>>)
  /\ End(t)
  /\ UNCHANGED <<req, todo, ans>>

\* http_request_new and parse_url: a method may be named in the URL.
RequestLine(t, post, named) ==
  /\ pc[t] = "http"
  /\ req[t] = None
  /\ req' = [req EXCEPT ![t] =
       [post |-> post, named |-> named, auth |-> None, length |-> None, body |-> None, complete |-> FALSE]]
  /\ UNCHANGED <<serverVars, pc, sock, type, todo, ans, sent>>

\* A request line or a header that cannot be read.
InvalidLine(t) ==
  /\ pc[t] = "http"
  /\ PushError(t)

\* http_request_add_header: the last header of a name counts.
Header(t, field, value) ==
  /\ pc[t] = "http"
  /\ req[t] # None
  /\ req' = [req EXCEPT ![t][field] = value]
  /\ UNCHANGED <<serverVars, pc, sock, type, todo, ans, sent>>

\* getline fails: the client has gone, nothing is answered.
Eof(t) ==
  /\ pc[t] = "http"
  /\ End(t)
  /\ UNCHANGED httpVars

\* The empty line.  process_http_body: a POST needs a length and that much of a
\* body; process_http: the headers must authorize the session, the body must
\* be XML.  Any of these ends with an error.
EmptyLine(t) ==
  /\ pc[t] = "http"
  /\ req[t] # None
  /\ ~ req[t].complete
  /\ req' = [req EXCEPT ![t].complete = TRUE]
  /\ IF req[t].post /\ req[t].length # "good"
     THEN /\ Push(t, "error", <<>>)
          /\ End(t)
     ELSE /\ pc' = [pc EXCEPT ![t] = "body"]
          /\ UNCHANGED <<serverVars, sock, type, sent>>
  /\ UNCHANGED <<todo, ans>>

\* The body is short, nobody is authorized, or the body is no XML.
Unauthorized(t) ==
  /\ pc[t] = "body"
  /\ PushError(t)

\* process_tag keeps a tag "request" of the body; without a body, or with one
\* that ends within the tag, there is none.
Authorized(t, body) ==
  /\ pc[t] = "body"
  /\ req[t].auth = "good"
  /\ body # None => req[t].post
  /\ req' = [req EXCEPT ![t].body = body]
  /\ todo' = [todo EXCEPT ![t] = IF body = None THEN <<>> ELSE Reorder(Parsed(body))]
  /\ pc' = [pc EXCEPT ![t] = "call"]
  /\ UNCHANGED <<serverVars, sock, type, ans, sent>>

\* process_request of a method named in the URL.
CallNamed(t) ==
  /\ pc[t] = "call"
  /\ req[t].named
  /\ Push(t, "response", <<>>)
  /\ End(t)
  /\ UNCHANGED <<req, todo, ans>>

\* A request of the batch: one without a name is passed over, the answer of the
\* others is added to the answer.
CallNext(t) ==
  /\ pc[t] = "call"
  /\ ~ req[t].named
  /\ todo[t] # <<>>
  /\ todo' = [todo EXCEPT ![t] = Tail(@)]
  /\ ans' = [ans EXCEPT ![t] = IF Head(todo[t]) = 0 THEN @ ELSE AddChild(@, Head(todo[t]))]
  /\ UNCHANGED <<serverVars, pc, sock, type, req, sent>>

CallDone(t) ==
  /\ pc[t] = "call"
  /\ ~ req[t].named
  /\ req[t].body # None
  /\ todo[t] = <<>>
  /\ Push(t, "batch", Reorder(ans[t]))
  /\ End(t)
  /\ UNCHANGED <<req, todo, ans>>

\* No method in the URL and no tag: xml_tag_get_child(NULL, ...), and the
\* daemon falls.
Fall(t) ==
  /\ pc[t] = "call"
  /\ ~ req[t].named
  /\ req[t].body = None
  /\ pc' = [pc EXCEPT ![t] = "fault"]
  /\ UNCHANGED <<serverVars, sock, type, httpVars>>

-----------------------------------------------------------------------------
MainSteps == (\E c \in Conns : Accept(c)) \/ StartThread \/ StartThreadFails

ThreadSteps(t) == TakeSocket(t) \/ SessionNew(t) \/ Serve(t)

\* What a client may send or not, and what need not happen.
ClientSteps(t) ==
  \/ \E post, named \in BOOLEAN : RequestLine(t, post, named)
  \/ \E field \in {"auth", "length"}, value \in {"good", "bad"} : Header(t, field, value)
  \/ InvalidLine(t) \/ Eof(t) \/ EmptyLine(t) \/ XmlEnd(t) \/ FdopenFails(t)

RequestSteps(t) ==
  \/ \E body \in Batches \cup {None} : Authorized(t, body)
  \/ Unauthorized(t) \/ CallNamed(t) \/ CallNext(t) \/ CallDone(t) \/ Fall(t)

Alive == \A t \in Threads : pc[t] # "fault"

Next ==
  /\ Alive
  /\ \/ MainSteps \/ AcceptFails
     \/ \E t \in Threads : ThreadSteps(t) \/ ClientSteps(t) \/ RequestSteps(t)

\* The main thread and a new thread are scheduled.  Clients owe nothing.
Fairness ==
  /\ WF_vars(Alive /\ MainSteps)
  /\ \A t \in Threads : WF_vars(Alive /\ ThreadSteps(t)) /\ WF_vars(Alive /\ RequestSteps(t))

Spec == Init /\ [][Next]_vars /\ Fairness

-----------------------------------------------------------------------------
(* Properties.                                                             *)

Before(c, d) == \E i, j \in 1 .. Len(arrived) : i < j /\ arrived[i] = c /\ arrived[j] = d

\* A connection that was taken from its port has one thread or was closed, and
\* never two threads, whatever the main thread does before the new thread runs
\* (start_thread, mbb_thread_client).  It is served over the protocol of its
\* port unless a connection of the other port was taken after it.
HandedOver ==
  /\ \A s, t \in Threads : s # t /\ sock[s] = sock[t] => sock[s] = None
  /\ ~ mutex /\ main # "start" =>
       \A i \in 1 .. Len(arrived) :
         arrived[i] \in closed \/ \E t \in Threads : sock[t] = arrived[i]
  /\ \A t \in Threads : \A p \in {type[t], pc[t]} \cap {"xml", "http"} :
       p # Kind(sock[t]) => \E d \in Conns : Kind(d) = p /\ Before(sock[t], d)

\* The requests of a batch that have a name, in their order.
Named(batch) ==
  LET named[i \in 0 .. Len(batch)] ==
        IF i = 0 THEN <<>>
        ELSE IF batch[i] # 0 THEN Append(named[i - 1], batch[i]) ELSE named[i - 1]
  IN named[Len(batch)]

\* A connection gets at most one answer, and one whose request was complete gets
\* exactly one before it is closed, with one part for each named request of the
\* batch in the order of the batch (http_client_loop, process_request,
\* xml_tag_add_child, xml_tag_reorder).
AnsweredInOrder ==
  \A t \in Threads :
    /\ Len(sent[t]) <= 1
    /\ pc[t] = "ended" /\ req[t] # None /\ req[t].complete => Len(sent[t]) = 1
    /\ \A i \in 1 .. Len(sent[t]) :
         sent[t][i].what = "batch" => sent[t][i].parts = Named(req[t].body)

\* Every connection that waits at a port is given to a thread or closed, even
\* when threads cannot be created, as long as mbbd runs: the mutex of tp is
\* always unlocked again.
Served ==
  \A c \in Conns : c \in queue ~> c \in closed \/ (\E t \in Threads : sock[t] = c) \/ ~ Alive
=============================================================================
