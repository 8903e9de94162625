---------------------------- MODULE ServerProofs ----------------------------
(***************************************************************************)
(* Proofs about Server: the hand-over of connections through tp, the number *)
(* of answers and the order of what they hold, for every set of connections *)
(* and of batches.                                                          *)
(***************************************************************************)
EXTENDS Server, FiniteSetTheorems, SequenceTheorems, NaturalsInduction, WellFoundedInduction, TLAPS

(* The inductive invariant, in parts.                                      *)

PC == {"none", "created", "session", "serve", "xml", "http", "body", "call", "ended", "fault"}

Request == [post : BOOLEAN, named : BOOLEAN, auth : {None, "good", "bad"},
            length : {None, "good", "bad"}, body : Batches \cup {None}, complete : BOOLEAN]

TypeInv ==
  /\ queue \subseteq Conns
  /\ main \in {"poll", "start", "stopped"}
  /\ mutex \in BOOLEAN
  /\ tp \in [sock : Conns \cup {None}, http : {"xml", "http"}]
  /\ arrived \in Seq(Conns)
  /\ pc \in [Threads -> PC]
  /\ sock \in [Threads -> Conns \cup {None}]
  /\ type \in [Threads -> {"xml", "http", None}]

\* A connection is taken once, and there is a thread for each.
ArrivedInv ==
  /\ Len(arrived) + Cardinality(queue) <= Cardinality(Conns)
  /\ \A i \in 1 .. Len(arrived) : arrived[i] \notin queue
  /\ \A i, j \in 1 .. Len(arrived) : arrived[i] = arrived[j] => i = j

\* Thread t is the one of the t-th connection, from its creation on; the last
\* connection waits for its thread while the main thread is at "start".
OwnerInv ==
  /\ main = "start" => Len(arrived) > 0 /\ pc[Len(arrived)] = "none"
  /\ \A t \in Threads :
       /\ pc[t] # "none" => t <= Len(arrived)
       /\ pc[t] \in {"none", "created"} => sock[t] = None /\ type[t] = None
       /\ pc[t] \notin {"none", "created"} => sock[t] = arrived[t]
  /\ \A i \in 1 .. Len(arrived) :
       \/ arrived[i] \in closed
       \/ pc[i] # "none"
       \/ i = Len(arrived) /\ main = "start"

\* The mutex is locked on behalf of the one thread that has yet to read tp.sock.
MutexInv ==
  /\ \A t \in Threads : pc[t] = "created" => mutex /\ tp.sock = arrived[t]
  /\ mutex => \E t \in Threads : pc[t] = "created"

\* tp holds what a connection put there, and no thread's connection is a later one.
BlockInv ==
  \/ \A t \in Threads : pc[t] = "none"
  \/ \E j \in 1 .. Len(arrived) :
       /\ tp.http = Kind(arrived[j])
       /\ \A t \in Threads : pc[t] # "none" => t <= j

\* A protocol that is not the port's is that of a later connection.
ProtocolInv ==
  \A t \in Threads : \A p \in {type[t], pc[t]} \cap {"xml", "http"} :
    /\ t <= Len(arrived)
    /\ p # Kind(arrived[t]) => \E j \in 1 .. Len(arrived) : t < j /\ Kind(arrived[j]) = p

IInv == TypeInv /\ ArrivedInv /\ OwnerInv /\ MutexInv /\ BlockInv /\ ProtocolInv

\* What is known of the request of a thread and of its answer.
RequestInv ==
  /\ pc \in [Threads -> PC]
  /\ req \in [Threads -> Request \cup {None}]
  /\ sent = [t \in Threads |-> sent[t]]
  /\ \A t \in Threads :
       /\ pc[t] \in {"none", "created", "session", "serve", "xml"} => req[t] = None
       /\ pc[t] = "http" /\ req[t] # None => ~ req[t].complete
       /\ pc[t] = "body" => req[t] \in Request
       /\ pc[t] # "ended" => sent[t] = <<>>

\* A connection gets at most one answer, and one whose request was complete
\* gets exactly one before it is closed.
OneAnswer ==
  \A t \in Threads :
    /\ Len(sent[t]) <= 1
    /\ pc[t] = "ended" /\ req[t] # None /\ req[t].complete => Len(sent[t]) = 1

-----------------------------------------------------------------------------
LEMMA ConnsFinite == IsFiniteSet(Conns) /\ Cardinality(Conns) \in Nat
  BY ConnsAssumption, FS_CardinalityType DEF Conns

\* What a client sends, and what becomes of its request, concerns its own thread only.
LEMMA HttpStep ==
  ASSUME pc \in [Threads -> PC], NEW t \in Threads, ClientSteps(t) \/ RequestSteps(t)
  PROVE  /\ UNCHANGED <<queue, main, mutex, tp, arrived, sock, type>>
         /\ closed \subseteq closed'
         /\ pc' \in [Threads -> PC]
         /\ \A u \in Threads : u # t => pc'[u] = pc[u]
         /\ pc[t] \in {"xml", "http", "body", "call"}
         /\ pc'[t] \in {pc[t], "body", "call", "ended", "fault"}
<1> USE DEF PC, serverVars
<1>1. CASE \E post, named \in BOOLEAN : RequestLine(t, post, named)
  BY <1>1 DEF RequestLine
<1>2. CASE \E field \in {"auth", "length"}, value \in {"good", "bad"} : Header(t, field, value)
  BY <1>2 DEF Header
<1>3. CASE InvalidLine(t) \/ Unauthorized(t)
  BY <1>3 DEF InvalidLine, Unauthorized, PushError, End
<1>4. CASE Eof(t) \/ XmlEnd(t) \/ FdopenFails(t)
  BY <1>4 DEF Eof, XmlEnd, FdopenFails, End
<1>5. CASE EmptyLine(t)
  BY <1>5 DEF EmptyLine, End
<1>6. CASE \E body \in Batches \cup {None} : Authorized(t, body)
  BY <1>6 DEF Authorized
<1>7. CASE CallNamed(t) \/ CallDone(t)
  BY <1>7 DEF CallNamed, CallDone, End
<1>8. CASE CallNext(t)
  BY <1>8 DEF CallNext
<1>9. CASE Fall(t)
  BY <1>9 DEF Fall
<1>q. QED
  BY <1>1, <1>2, <1>3, <1>4, <1>5, <1>6, <1>7, <1>8, <1>9 DEF ClientSteps, RequestSteps

LEMMA HttpKeeps ==
  ASSUME IInv, NEW t \in Threads, ClientSteps(t) \/ RequestSteps(t)
  PROVE  IInv'
<1> USE DEF IInv, TypeInv
<1>1. /\ UNCHANGED <<queue, main, mutex, tp, arrived, sock, type>>
      /\ closed \subseteq closed'
      /\ pc' \in [Threads -> PC]
      /\ \A u \in Threads : u # t => pc'[u] = pc[u]
      /\ pc[t] \in {"xml", "http", "body", "call"}
      /\ pc'[t] \in {pc[t], "body", "call", "ended", "fault"}
  BY HttpStep
<1>2. \A u \in Threads : (pc'[u] = "none" <=> pc[u] = "none") /\ (pc'[u] = "created" <=> pc[u] = "created")
  BY <1>1
<1>3. TypeInv'
  BY <1>1
<1>4. ArrivedInv'
  BY <1>1 DEF ArrivedInv
<1>5. OwnerInv'
  <2>1. t <= Len(arrived) /\ 1 .. Len(arrived) \subseteq Threads
    BY <1>1, ConnsFinite, FS_Subset, FS_CardinalityType DEF OwnerInv, ArrivedInv, Threads
  <2>q. QED
    BY <1>1, <1>2, <2>1 DEF OwnerInv
<1>6. MutexInv'
  BY <1>1, <1>2 DEF MutexInv
<1>7. BlockInv'
  BY <1>1, <1>2 DEF BlockInv
<1>8. ProtocolInv'
  BY <1>1 DEF ProtocolInv
<1>q. QED
  BY <1>3, <1>4, <1>5, <1>6, <1>7, <1>8

-----------------------------------------------------------------------------
(* The main thread and the new threads.                                    *)

LEMMA InThreads ==
  ASSUME IInv
  PROVE  /\ Len(arrived) \in Nat
         /\ 1 .. Len(arrived) \subseteq Threads
         /\ Cardinality(queue) \in Nat
         /\ IsFiniteSet(queue)
<1> USE DEF IInv, TypeInv
<1>1. IsFiniteSet(queue) /\ Cardinality(queue) \in Nat
  BY ConnsFinite, FS_Subset, FS_CardinalityType
<1>q. QED
  BY <1>1, ConnsFinite DEF ArrivedInv, Threads

LEMMA AcceptKeeps == ASSUME IInv, NEW c \in Conns, Accept(c) PROVE IInv'
<1> USE DEF IInv, TypeInv
<1>1. /\ Len(arrived) \in Nat
      /\ 1 .. Len(arrived) \subseteq Threads
      /\ IsFiniteSet(queue) /\ Cardinality(queue) \in Nat
  BY InThreads
<1>2. c \in queue /\ queue' = queue \ {c} /\ main = "poll" /\ main' = "start"
      /\ UNCHANGED <<mutex, tp, closed, pc, sock, type>>
  BY DEF Accept
<1>3. /\ arrived' \in Seq(Conns)
      /\ Len(arrived') = Len(arrived) + 1
      /\ \A i \in 1 .. Len(arrived) : arrived'[i] = arrived[i]
      /\ arrived'[Len(arrived) + 1] = c
  BY DEF Accept
<1>4. Cardinality(queue') = Cardinality(queue) - 1
  BY <1>1, <1>2, FS_RemoveElement
<1>5. 1 .. Len(arrived') = 1 .. Len(arrived) \cup {Len(arrived) + 1}
  BY <1>1, <1>3
<1>6. TypeInv'
  BY <1>2, <1>3
<1>7. ArrivedInv'
  <2>1. Len(arrived') + Cardinality(queue') <= Cardinality(Conns)
    BY <1>1, <1>3, <1>4, ConnsFinite DEF ArrivedInv
  <2>2. \A i \in 1 .. Len(arrived') : arrived'[i] \notin queue'
    BY <1>2, <1>3, <1>5 DEF ArrivedInv
  <2>3. \A i, j \in 1 .. Len(arrived') : arrived'[i] = arrived'[j] => i = j
    BY <1>2, <1>3, <1>5 DEF ArrivedInv
  <2>q. QED
    BY <2>1, <2>2, <2>3 DEF ArrivedInv
<1>8. OwnerInv'
  <2>1. Len(arrived') \in Threads
    <3>1. Len(arrived') + Cardinality(queue') <= Cardinality(Conns) /\ Cardinality(queue') \in Nat
      BY <1>2, <1>4, <1>7, <1>6, ConnsFinite, FS_Subset, FS_CardinalityType DEF ArrivedInv
    <3>q. QED
      BY <3>1, <1>1, <1>3, ConnsFinite DEF Threads
  <2>2. pc[Len(arrived')] = "none"
    BY <2>1, <1>1, <1>3 DEF OwnerInv
  <2>3. \A t \in Threads : t \in Nat
    BY DEF Threads
  <2>4. \A t \in Threads : pc'[t] \notin {"none", "created"} => sock'[t] = arrived'[t]
    BY <1>1, <1>2, <1>3, <2>3 DEF OwnerInv, Threads
  <2>5. \A t \in Threads : pc'[t] # "none" => t <= Len(arrived')
    BY <1>1, <1>2, <1>3, <2>3 DEF OwnerInv
  <2>6. \A i \in 1 .. Len(arrived') :
          arrived'[i] \in closed' \/ pc'[i] # "none" \/ (i = Len(arrived') /\ main' = "start")
    BY <1>2, <1>3, <1>5 DEF OwnerInv
  <2>q. QED
    BY <1>1, <1>2, <1>3, <2>2, <2>4, <2>5, <2>6 DEF OwnerInv
<1>9. MutexInv'
  <2>1. \A t \in Threads : pc[t] = "created" => t \in 1 .. Len(arrived)
    BY <1>1 DEF OwnerInv, Threads
  <2>q. QED
    BY <1>2, <1>3, <2>1 DEF MutexInv
<1>10. BlockInv'
  BY <1>2, <1>3, <1>5 DEF BlockInv
<1>11. ProtocolInv'
  <2> SUFFICES ASSUME NEW t \in Threads, NEW p \in {type[t], pc[t]} \cap {"xml", "http"}
               PROVE  /\ t <= Len(arrived')
                      /\ p # Kind(arrived'[t])
                           => \E j \in 1 .. Len(arrived') : t < j /\ Kind(arrived'[j]) = p
    BY <1>2 DEF ProtocolInv
  <2>1. t \in 1 .. Len(arrived)
    BY <1>1 DEF ProtocolInv, Threads
  <2>2. arrived'[t] = arrived[t]
    BY <1>3, <2>1
  <2>q. QED
    BY <1>1, <1>3, <1>5, <2>1, <2>2 DEF ProtocolInv, Kind
<1>q. QED
  BY <1>6, <1>7, <1>8, <1>9, <1>10, <1>11

LEMMA AcceptFailsKeeps == ASSUME IInv, AcceptFails PROVE IInv'
<1> USE DEF IInv, TypeInv
<1>1. /\ main = "poll" /\ main' = "stopped" /\ queue' = {} /\ closed \subseteq closed'
      /\ UNCHANGED <<mutex, tp, arrived, pc, sock, type>>
  BY DEF AcceptFails
<1>2. TypeInv'
  BY <1>1
<1>3. ArrivedInv'
  <2>1. Cardinality(queue') = 0
    BY <1>1, FS_EmptySet
  <2>2. Len(arrived) \in Nat /\ Cardinality(queue) \in Nat
    BY InThreads
  <2>3. Len(arrived') + Cardinality(queue') <= Cardinality(Conns)
    BY <1>1, <2>1, <2>2, ConnsFinite DEF ArrivedInv
  <2>q. QED
    BY <1>1, <2>3 DEF ArrivedInv
<1>4. OwnerInv'
  BY <1>1 DEF OwnerInv
<1>5. MutexInv' /\ BlockInv' /\ ProtocolInv'
  BY <1>1 DEF MutexInv, BlockInv, ProtocolInv
<1>q. QED
  BY <1>2, <1>3, <1>4, <1>5

LEMMA StartThreadKeeps == ASSUME IInv, StartThread PROVE IInv'
<1> USE DEF IInv, TypeInv
<1> DEFINE n == Len(arrived)
<1>1. n \in Nat /\ n \in 1 .. n /\ n \in Threads /\ pc[n] = "none" /\ 1 .. n \subseteq Threads
  BY InThreads DEF StartThread, OwnerInv
<1>2. /\ ~ mutex /\ mutex' = TRUE /\ main' = "poll"
      /\ tp' = [sock |-> arrived[n], http |-> Kind(arrived[n])]
      /\ pc' = [pc EXCEPT ![n] = "created"]
      /\ UNCHANGED <<queue, closed, arrived, sock, type>>
  BY DEF StartThread, MutexFree, Last
<1>3. arrived[n] \in Conns /\ Kind(arrived[n]) \in {"xml", "http"}
  BY <1>1 DEF Kind
<1>4. \A t \in Threads : pc[t] # "created"
  BY <1>2 DEF MutexInv
<1>5. TypeInv'
  BY <1>1, <1>2, <1>3 DEF PC
<1>6. ArrivedInv'
  BY <1>2 DEF ArrivedInv
<1>7. OwnerInv'
  BY <1>1, <1>2 DEF OwnerInv
<1>8. MutexInv'
  BY <1>1, <1>2, <1>4 DEF MutexInv
<1>9. BlockInv'
  <2>1. \A t \in Threads : pc'[t] # "none" => t <= n
    BY <1>1, <1>2 DEF OwnerInv
  <2>q. QED
    BY <1>1, <1>2, <2>1 DEF BlockInv
<1>10. ProtocolInv'
  BY <1>1, <1>2 DEF ProtocolInv
<1>q. QED
  BY <1>5, <1>6, <1>7, <1>8, <1>9, <1>10

LEMMA StartThreadFailsKeeps == ASSUME IInv, StartThreadFails PROVE IInv'
<1> USE DEF IInv, TypeInv
<1> DEFINE n == Len(arrived)
<1>1. n \in Nat /\ n \in 1 .. n /\ n \in Threads /\ pc[n] = "none" /\ 1 .. n \subseteq Threads
  BY InThreads DEF StartThreadFails, OwnerInv
<1>2. /\ ~ mutex /\ main' = "poll"
      /\ tp' = [sock |-> arrived[n], http |-> Kind(arrived[n])]
      /\ closed' = closed \cup {arrived[n]}
      /\ UNCHANGED <<queue, mutex, arrived, pc, sock, type>>
  BY DEF StartThreadFails, MutexFree, Last
<1>3. arrived[n] \in Conns /\ Kind(arrived[n]) \in {"xml", "http"}
  BY <1>1 DEF Kind
<1>4. \A t \in Threads : pc[t] # "created"
  BY <1>2 DEF MutexInv
<1>5. TypeInv'
  BY <1>2, <1>3
<1>6. ArrivedInv'
  BY <1>2 DEF ArrivedInv
<1>7. OwnerInv'
  BY <1>1, <1>2 DEF OwnerInv
<1>8. MutexInv'
  BY <1>2, <1>4 DEF MutexInv
<1>9. BlockInv'
  <2>1. \A t \in Threads : pc'[t] # "none" => t <= n
    BY <1>1, <1>2 DEF OwnerInv
  <2>q. QED
    BY <1>1, <1>2, <2>1 DEF BlockInv
<1>10. ProtocolInv'
  BY <1>2 DEF ProtocolInv
<1>q. QED
  BY <1>5, <1>6, <1>7, <1>8, <1>9, <1>10

LEMMA TakeSocketKeeps == ASSUME IInv, NEW t \in Threads, TakeSocket(t) PROVE IInv'
<1> USE DEF IInv, TypeInv
<1>1. /\ pc[t] = "created" /\ mutex' = FALSE
      /\ sock' = [sock EXCEPT ![t] = tp.sock]
      /\ pc' = [pc EXCEPT ![t] = "session"]
      /\ UNCHANGED <<queue, main, tp, closed, arrived, type>>
  BY DEF TakeSocket
<1>2. t \in 1 .. Len(arrived) /\ tp.sock = arrived[t] /\ 1 .. Len(arrived) \subseteq Threads
  BY <1>1, InThreads DEF MutexInv, OwnerInv, Threads
<1>3. \A u \in Threads : u # t => pc[u] # "created"
  <2> SUFFICES ASSUME NEW u \in Threads, pc[u] = "created" PROVE u = t
    OBVIOUS
  <2>1. u \in 1 .. Len(arrived) /\ arrived[u] = arrived[t]
    BY <1>2, InThreads DEF MutexInv, OwnerInv, Threads
  <2>q. QED
    BY <1>2, <2>1 DEF ArrivedInv
<1>4. TypeInv'
  BY <1>1 DEF PC
<1>5. ArrivedInv'
  BY <1>1 DEF ArrivedInv
<1>6. OwnerInv'
  BY <1>1, <1>2 DEF OwnerInv
<1>7. MutexInv'
  BY <1>1, <1>3 DEF MutexInv
<1>8. BlockInv'
  BY <1>1 DEF BlockInv
<1>9. ProtocolInv'
  BY <1>1 DEF ProtocolInv
<1>q. QED
  BY <1>4, <1>5, <1>6, <1>7, <1>8, <1>9

\* What a thread reads from tp.http is its port's protocol or a later connection's.
LEMMA ReadsHttp ==
  ASSUME IInv, NEW t \in Threads, pc[t] # "none"
  PROVE  /\ t \in 1 .. Len(arrived)
         /\ tp.http # Kind(arrived[t])
              => \E j \in 1 .. Len(arrived) : t < j /\ Kind(arrived[j]) = tp.http
<1> USE DEF IInv, TypeInv
<1>1. t \in 1 .. Len(arrived)
  BY InThreads DEF OwnerInv, Threads
<1>2. PICK j \in 1 .. Len(arrived) : tp.http = Kind(arrived[j]) /\ t <= j
  BY DEF BlockInv
<1>3. tp.http # Kind(arrived[t]) => t < j
  BY <1>1, <1>2
<1>q. QED
  BY <1>1, <1>2, <1>3

LEMMA SessionNewKeeps == ASSUME IInv, NEW t \in Threads, SessionNew(t) PROVE IInv'
<1> USE DEF IInv, TypeInv
<1>1. /\ pc[t] = "session" /\ pc' = [pc EXCEPT ![t] = "serve"]
      /\ type' = [type EXCEPT ![t] = tp.http]
      /\ UNCHANGED <<queue, main, mutex, tp, closed, arrived, sock>>
  BY DEF SessionNew, serverVars
<1>2. TypeInv'
  BY <1>1 DEF PC
<1>3. ArrivedInv'
  BY <1>1 DEF ArrivedInv
<1>4. OwnerInv'
  BY <1>1, InThreads DEF OwnerInv
<1>5. MutexInv' /\ BlockInv'
  BY <1>1 DEF MutexInv, BlockInv
<1>6. ProtocolInv'
  BY <1>1, ReadsHttp DEF ProtocolInv
<1>q. QED
  BY <1>2, <1>3, <1>4, <1>5, <1>6

LEMMA ServeKeeps == ASSUME IInv, NEW t \in Threads, Serve(t) PROVE IInv'
<1> USE DEF IInv, TypeInv
<1>1. /\ pc[t] = "serve" /\ pc' = [pc EXCEPT ![t] = tp.http]
      /\ UNCHANGED <<queue, main, mutex, tp, closed, arrived, sock, type>>
  BY DEF Serve, serverVars
<1>2. TypeInv' /\ tp.http \in {"xml", "http"}
  BY <1>1 DEF PC
<1>3. ArrivedInv'
  BY <1>1 DEF ArrivedInv
<1>4. OwnerInv'
  BY <1>1, <1>2, InThreads DEF OwnerInv
<1>5. MutexInv' /\ BlockInv'
  BY <1>1, <1>2 DEF MutexInv, BlockInv
<1>6. ProtocolInv'
  BY <1>1, ReadsHttp DEF ProtocolInv
<1>q. QED
  BY <1>2, <1>3, <1>4, <1>5, <1>6

-----------------------------------------------------------------------------
LEMMA IInvInit == Init => IInv
<1> SUFFICES ASSUME Init PROVE IInv
  OBVIOUS
<1> USE DEF Init
<1>1. TypeInv
  <2>1. tp \in [sock : Conns \cup {None}, http : {"xml", "http"}]
    OBVIOUS
  <2>2. arrived \in Seq(Conns)
    OBVIOUS
  <2>4. mutex \in BOOLEAN
    BY Zenon
  <2>3. pc \in [Threads -> PC] /\ sock \in [Threads -> Conns \cup {None}]
        /\ type \in [Threads -> {"xml", "http", None}]
    BY DEF PC
  <2>q. QED
    BY <2>1, <2>2, <2>3, <2>4 DEF TypeInv
<1>2. ArrivedInv
  BY ConnsFinite DEF ArrivedInv
<1>3. OwnerInv
  BY DEF OwnerInv
<1>4. MutexInv /\ BlockInv
  BY DEF MutexInv, BlockInv
<1>5. ProtocolInv
  BY NoneAssumption DEF ProtocolInv
<1>q. QED
  BY <1>1, <1>2, <1>3, <1>4, <1>5 DEF IInv

LEMMA IInvStep == IInv /\ [Next]_vars => IInv'
<1> SUFFICES ASSUME IInv, [Next]_vars PROVE IInv'
  OBVIOUS
<1>1. CASE UNCHANGED vars
  BY <1>1 DEF IInv, TypeInv, ArrivedInv, OwnerInv, MutexInv, BlockInv, ProtocolInv, vars, serverVars
<1>2. CASE Next
  BY <1>2, AcceptKeeps, AcceptFailsKeeps, StartThreadKeeps, StartThreadFailsKeeps,
     TakeSocketKeeps, SessionNewKeeps, ServeKeeps, HttpKeeps
  DEF Next, MainSteps, ThreadSteps
<1>q. QED
  BY <1>1, <1>2

LEMMA IInvHolds == Spec => []IInv
  BY IInvInit, IInvStep, PTL DEF Spec

\* Every connection taken from a port goes to exactly one thread or is closed, and
\* is served over another port's protocol only when a connection of that port came
\* after it (start_thread, mbb_thread_client).
THEOREM ServerHandedOver == Spec => []HandedOver
<1>1. IInv => HandedOver
  <2> SUFFICES ASSUME IInv PROVE HandedOver
    OBVIOUS
  <2> USE DEF IInv, TypeInv
  <2>1. \A t \in Threads : sock[t] # None => t \in 1 .. Len(arrived) /\ sock[t] = arrived[t]
    BY InThreads DEF OwnerInv, Threads
  <2>2. \A s, t \in Threads : s # t /\ sock[s] = sock[t] => sock[s] = None
    BY <2>1 DEF ArrivedInv
  <2>3. ASSUME ~ mutex, main # "start", NEW i \in 1 .. Len(arrived)
        PROVE  arrived[i] \in closed \/ \E t \in Threads : sock[t] = arrived[i]
    <3>1. i \in Threads
      BY InThreads
    <3>2. pc[i] # "created"
      BY <2>3, <3>1 DEF MutexInv
    <3>q. QED
      BY <2>3, <3>1, <3>2 DEF OwnerInv
  <2>4. ASSUME NEW t \in Threads, NEW p \in {type[t], pc[t]} \cap {"xml", "http"}, p # Kind(sock[t])
        PROVE  \E d \in Conns : Kind(d) = p /\ Before(sock[t], d)
    <3>1. t \in 1 .. Len(arrived) /\ sock[t] = arrived[t]
      BY InThreads, NoneAssumption DEF OwnerInv, ProtocolInv, Threads
    <3>2. PICK j \in 1 .. Len(arrived) : t < j /\ Kind(arrived[j]) = p
      BY <2>4, <3>1 DEF ProtocolInv
    <3>3. arrived[j] \in Conns /\ Before(sock[t], arrived[j])
      BY <3>1, <3>2 DEF Before
    <3>q. QED
      BY <3>2, <3>3
  <2>q. QED
    BY <2>2, <2>3, <2>4 DEF HandedOver
<1>q. QED
  BY IInvHolds, <1>1, PTL

-----------------------------------------------------------------------------
(* The number of answers.                                                  *)

LEMMA LenOne == ASSUME NEW x PROVE Len(Append(<<>>, x)) = 1
<1>1. <<>> \in Seq({x}) /\ x \in {x}
  OBVIOUS
<1>q. QED
  BY <1>1

AnswerInv == RequestInv /\ OneAnswer

\* One answer is written and the connection closed.
LEMMA PushEnds ==
  ASSUME AnswerInv, NEW t \in Threads, NEW what, NEW parts,
         Push(t, what, parts), End(t), pc[t] \in {"http", "body", "call"},
         req' \in [Threads -> Request \cup {None}],
         \A u \in Threads : u # t => req'[u] = req[u]
  PROVE  AnswerInv'
<1> USE DEF AnswerInv, RequestInv, PC
<1>1. sent[t] = <<>> /\ sent' = [sent EXCEPT ![t] = Append(sent[t], [what |-> what, parts |-> parts])]
      /\ pc' = [pc EXCEPT ![t] = "ended"]
  BY DEF Push, End
<1>2. Len(sent'[t]) = 1 /\ \A u \in Threads : u # t => sent'[u] = sent[u]
  BY <1>1, LenOne
<1>3. sent' = [u \in Threads |-> sent'[u]]
  BY <1>1
<1>4. RequestInv'
  BY <1>1, <1>2, <1>3
<1>5. OneAnswer'
  BY <1>1, <1>2 DEF OneAnswer
<1>q. QED
  BY <1>4, <1>5

LEMMA AnswerStep == IInv /\ AnswerInv /\ [Next]_vars => AnswerInv'
<1> SUFFICES ASSUME IInv, AnswerInv, [Next]_vars PROVE AnswerInv'
  OBVIOUS
<1> USE DEF AnswerInv, RequestInv, OneAnswer, PC, serverVars, httpVars
<1>1. ASSUME NEW c \in Conns, Accept(c) PROVE AnswerInv'
  BY <1>1 DEF Accept
<1>2. CASE AcceptFails
  BY <1>2 DEF AcceptFails
<1>3. CASE StartThread
  <2>1. Len(arrived) \in Threads /\ pc[Len(arrived)] = "none"
    BY <1>3, InThreads DEF StartThread, IInv, OwnerInv
  <2>2. sent[Len(arrived)] = <<>> /\ req[Len(arrived)] = None
    BY <2>1
  <2>q. QED
    BY <1>3, <2>1, <2>2 DEF StartThread
<1>4. CASE StartThreadFails
  BY <1>4 DEF StartThreadFails
<1>5. ASSUME NEW t \in Threads, TakeSocket(t) PROVE AnswerInv'
  BY <1>5 DEF TakeSocket
<1>6. ASSUME NEW t \in Threads, SessionNew(t) PROVE AnswerInv'
  BY <1>6 DEF SessionNew
<1>7. ASSUME NEW t \in Threads, Serve(t) PROVE AnswerInv'
  <2>1. tp.http \in {"xml", "http"}
    BY DEF IInv, TypeInv
  <2>q. QED
    BY <1>7, <2>1 DEF Serve
<1>8. ASSUME NEW t \in Threads, NEW post \in BOOLEAN, NEW named \in BOOLEAN, RequestLine(t, post, named)
      PROVE  AnswerInv'
  BY <1>8 DEF RequestLine, Request
<1>9. ASSUME NEW t \in Threads, NEW field \in {"auth", "length"}, NEW value \in {"good", "bad"},
             Header(t, field, value)
      PROVE  AnswerInv'
  <2>1. pc[t] = "http" /\ req[t] \in Request /\ ~ req[t].complete
        /\ req' = [req EXCEPT ![t] = [req[t] EXCEPT ![field] = value]]
    BY <1>9 DEF Header
  <2>2. [req[t] EXCEPT ![field] = value] \in Request /\ ~ [req[t] EXCEPT ![field] = value].complete
    BY <2>1 DEF Request
  <2>q. QED
    BY <1>9, <2>1, <2>2 DEF Header
<1>10. ASSUME NEW t \in Threads, InvalidLine(t) PROVE AnswerInv'
  BY <1>10, PushEnds DEF InvalidLine, PushError
<1>11. ASSUME NEW t \in Threads, Eof(t) PROVE AnswerInv'
  BY <1>11 DEF Eof, End
<1>12. ASSUME NEW t \in Threads, EmptyLine(t) PROVE AnswerInv'
  <2>1. req[t] \in Request /\ req' = [req EXCEPT ![t].complete = TRUE]
    BY <1>12 DEF EmptyLine
  <2>2. req' \in [Threads -> Request \cup {None}] /\ req'[t] \in Request
    BY <2>1 DEF Request
  <2>3. \A u \in Threads : u # t => req'[u] = req[u]
    BY <2>1
  <2>4. CASE req[t].post /\ req[t].length # "good"
    BY <1>12, <2>2, <2>3, <2>4, PushEnds DEF EmptyLine
  <2>5. CASE ~ (req[t].post /\ req[t].length # "good")
    <3>1. pc[t] = "http" /\ pc' = [pc EXCEPT ![t] = "body"] /\ UNCHANGED sent
      BY <1>12, <2>5 DEF EmptyLine
    <3>q. QED
      BY <2>2, <2>3, <3>1
  <2>q. QED
    BY <2>4, <2>5
<1>13. ASSUME NEW t \in Threads, XmlEnd(t) \/ FdopenFails(t) PROVE AnswerInv'
  BY <1>13 DEF XmlEnd, FdopenFails, End
<1>14. ASSUME NEW t \in Threads, NEW body \in Batches \cup {None}, Authorized(t, body) PROVE AnswerInv'
  <2>1. req[t] \in Request /\ req' = [req EXCEPT ![t].body = body] /\ pc[t] = "body"
        /\ pc' = [pc EXCEPT ![t] = "call"] /\ UNCHANGED sent
    BY <1>14 DEF Authorized
  <2>2. req' \in [Threads -> Request \cup {None}] /\ req'[t] \in Request
    BY <2>1 DEF Request
  <2>3. \A u \in Threads : u # t => req'[u] = req[u]
    BY <2>1
  <2>q. QED
    BY <2>1, <2>2, <2>3
<1>15. ASSUME NEW t \in Threads, Unauthorized(t) PROVE AnswerInv'
  BY <1>15, PushEnds DEF Unauthorized, PushError
<1>16. ASSUME NEW t \in Threads, CallNamed(t) PROVE AnswerInv'
  BY <1>16, PushEnds DEF CallNamed
<1>17. ASSUME NEW t \in Threads, CallNext(t) PROVE AnswerInv'
  BY <1>17 DEF CallNext
<1>18. ASSUME NEW t \in Threads, CallDone(t) PROVE AnswerInv'
  BY <1>18, PushEnds DEF CallDone
<1>19. ASSUME NEW t \in Threads, Fall(t) PROVE AnswerInv'
  BY <1>19 DEF Fall
<1>20. CASE UNCHANGED vars
  BY <1>20 DEF vars
<1>q. QED
  BY <1>1, <1>2, <1>3, <1>4, <1>5, <1>6, <1>7, <1>8, <1>9, <1>10, <1>11, <1>12, <1>13, <1>14,
     <1>15, <1>16, <1>17, <1>18, <1>19, <1>20
  DEF Next, MainSteps, ThreadSteps, ClientSteps, RequestSteps

-----------------------------------------------------------------------------
(* Lists of tags.                                                          *)

\* A set of natural numbers that is not empty has a least element.
LEMMA Least ==
  ASSUME NEW T, T \subseteq Nat, T # {}
  PROVE  \E n \in T : \A m \in T : n <= m
<1> DEFINE R == {ss \in Nat \X Nat : ss[1] < ss[2]}
<1>1. IsWellFoundedOn(R, Nat)
  BY NatLessThanWellFounded, Zenon DEF OpToRel
<1>2. \A i, j \in Nat : i < j => <<i, j>> \in R
  OBVIOUS
<1> HIDE DEF R
<1>3. PICK n \in T : \A m \in T : ~ (<<m, n>> \in R)
  BY <1>1, WFMin
<1>4. n \in Nat /\ \A m \in T : m \in Nat /\ ~ (m < n)
  BY <1>2, <1>3
<1>5. \A m \in T : n <= m
  BY <1>4
<1>q. QED
  BY <1>5

AddedBy(list, tags, n, f) ==
  f = [i \in 0 .. n |-> IF i = 0 THEN list ELSE AddChild(f[i - 1], tags[i])]

LEMMA AddedSteps ==
  ASSUME NEW list, NEW tags, NEW n \in Nat, NEW f, AddedBy(list, tags, n, f)
  PROVE  f[0] = list /\ \A m \in 0 .. n : m < n => f[m + 1] = AddChild(f[m], tags[m + 1])
<1>1. \A i \in 0 .. n : f[i] = IF i = 0 THEN list ELSE AddChild(f[i - 1], tags[i])
  BY ONLY AddedBy(list, tags, n, f), Zenon DEF AddedBy
<1>2. \A m \in 0 .. n : m < n => m + 1 \in 0 .. n /\ m + 1 # 0 /\ (m + 1) - 1 = m
  OBVIOUS
<1>3. 0 \in 0 .. n
  OBVIOUS
<1>q. QED
  BY <1>1, <1>2, <1>3, Zenon

\* There is such a function.
LEMMA AddedExists ==
  ASSUME NEW list, NEW tags, NEW n \in Nat
  PROVE  \E f : AddedBy(list, tags, n, f)
<1> DEFINE T == {k \in Nat : ~ \E f : AddedBy(list, tags, k, f)}
<1>1. SUFFICES ASSUME T # {} PROVE FALSE
  OBVIOUS
<1>2. T \subseteq Nat
  OBVIOUS
<1>3. PICK k \in T : \A m \in T : k <= m
  <2> HIDE DEF T
  <2>q. QED
    BY <1>1, <1>2, Least
<1>4. k # 0
  <2>1. AddedBy(list, tags, 0, [i \in 0 .. 0 |-> list])
    BY DEF AddedBy
  <2>q. QED
    BY <1>3, <2>1
<1>5. PICK m \in Nat : k = m + 1
  BY <1>3, <1>4
<1>6. PICK f : AddedBy(list, tags, m, f)
  BY <1>3, <1>5
<1>7. f[0] = list /\ \A i \in 0 .. m : i < m => f[i + 1] = AddChild(f[i], tags[i + 1])
  BY <1>6, AddedSteps
<1> DEFINE g == [i \in 0 .. k |-> IF i <= m THEN f[i] ELSE AddChild(f[m], tags[k])]
<1>8. g[0] = list
  BY <1>5, <1>7
<1>9. ASSUME NEW i \in 0 .. k, i # 0 PROVE g[i] = AddChild(g[i - 1], tags[i])
  <2>1. PICK j \in 0 .. m : i = j + 1 /\ i - 1 = j
    BY <1>5, <1>9
  <2>2. g[i - 1] = f[j]
    BY <1>5, <2>1
  <2>3. CASE j < m
    BY <1>5, <1>7, <2>1, <2>2, <2>3
  <2>4. CASE j = m
    BY <1>5, <2>1, <2>2, <2>4
  <2>q. QED
    BY <2>1, <2>3, <2>4
<1>10. g = [i \in 0 .. k |-> g[i]]
  OBVIOUS
<1>11. AddedBy(list, tags, k, g)
  <2> HIDE DEF g
  <2>q. QED
    BY <1>8, <1>9, <1>10 DEF AddedBy
<1>q. QED
  BY <1>3, <1>11

LEMMA AddChildrenSteps ==
  ASSUME NEW list, NEW tags, Len(tags) \in Nat
  PROVE  \E f : /\ AddChildren(list, tags) = f[Len(tags)]
                /\ f[0] = list
                /\ \A m \in 0 .. Len(tags) : m < Len(tags) => f[m + 1] = AddChild(f[m], tags[m + 1])
<1>1. AddChildren(list, tags) = (CHOOSE f : AddedBy(list, tags, Len(tags), f))[Len(tags)]
  BY DEF AddChildren, AddedBy
<1>2. PICK f : f = CHOOSE g : AddedBy(list, tags, Len(tags), g)
  OBVIOUS
<1>3. AddedBy(list, tags, Len(tags), f)
  BY <1>2, AddedExists
<1>4. f[0] = list /\ \A m \in 0 .. Len(tags) : m < Len(tags) => f[m + 1] = AddChild(f[m], tags[m + 1])
  BY <1>3, AddedSteps
<1>q. QED
  BY <1>1, <1>2, <1>4

LEMMA AddChildIs ==
  ASSUME NEW list \in Seq(Nat), NEW x \in Nat
  PROVE  /\ AddChild(list, x) \in Seq(Nat)
         /\ Len(AddChild(list, x)) = Len(list) + 1
         /\ Len(list) = 0 => AddChild(list, x)[1] = x
         /\ Len(list) > 0 => AddChild(list, x)[1] = list[1] /\ AddChild(list, x)[2] = x
         /\ \A p \in 2 .. Len(list) : AddChild(list, x)[p + 1] = list[p]
<1>n. PICK n \in Nat : n = Len(list)
  OBVIOUS
<1>d. PICK new : new = AddChild(list, x)
  OBVIOUS
<1>1. CASE list = <<>>
  BY <1>1 DEF AddChild
<1>2. CASE list # <<>>
  <2>1. PICK h : h = Head(list) /\ h = list[1] /\ h \in Nat
    BY <1>2
  <2>2. PICK t : t = Tail(list) /\ t \in Seq(Nat)
    <3>1. Tail(list) \in Seq(Nat)
      BY <1>2
    <3>q. QED
      BY <3>1
  <2>3. n > 0 /\ Len(t) = n - 1 /\ \A p \in 1 .. n - 1 : t[p] = list[p + 1]
    BY <1>2, <1>n, <2>2
  <2>4. PICK u : u = <<h, x>> /\ u \in Seq(Nat) /\ Len(u) = 2 /\ u[1] = h /\ u[2] = x
    <3>1. <<h, x>> \in Seq(Nat) /\ Len(<<h, x>>) = 2 /\ <<h, x>>[1] = h /\ <<h, x>>[2] = x
      BY <2>1
    <3>q. QED
      BY <3>1
  <2>5. new = u \o t
    BY <1>2, <1>d, <2>1, <2>2, <2>4 DEF AddChild
  <2>6. new \in Seq(Nat) /\ Len(new) = n + 1 /\ new[1] = h /\ new[2] = x
    <3>1. u \o t \in Seq(Nat) /\ Len(u \o t) = 2 + (n - 1) /\ (u \o t)[1] = u[1] /\ (u \o t)[2] = u[2]
      BY <2>2, <2>3, <2>4
    <3>q. QED
      BY <2>4, <2>5, <3>1
  <2>7. ASSUME NEW p \in 2 .. n PROVE new[p + 1] = list[p]
    <3>1. PICK q \in 1 .. n - 1 : q = p - 1 /\ q + 1 = p /\ p + 1 = q + 2
      OBVIOUS
    <3>2. new[q + 2] = t[q]
      BY <2>3, <2>4, <2>5
    <3>q. QED
      BY <2>3, <3>1, <3>2
  <2>q. QED
    BY <1>n, <1>d, <2>1, <2>3, <2>6, <2>7
<1>q. QED
  BY <1>1, <1>2

\* c is the list that the first m tags of s leave in an empty list: the first, then the
\* others from the last to the second.
Turned(c, s, m) ==
  /\ c \in Seq(Nat)
  /\ Len(c) = m
  /\ m > 0 => c[1] = s[1]
  /\ \A i, p \in 2 .. m : i + p = m + 2 => c[p] = s[i]

LEMMA TurnedStep ==
  ASSUME NEW s \in Seq(Nat), NEW m \in Nat, m < Len(s), NEW c, Turned(c, s, m)
  PROVE  Turned(AddChild(c, s[m + 1]), s, m + 1)
<1>d. PICK d : d = AddChild(c, s[m + 1])
  OBVIOUS
<1>1. PICK x \in Nat : x = s[m + 1]
  OBVIOUS
<1>2. c \in Seq(Nat) /\ Len(c) = m
  BY DEF Turned
<1>3. /\ d \in Seq(Nat)
      /\ Len(d) = m + 1
      /\ m = 0 => d[1] = x
      /\ m > 0 => d[1] = c[1] /\ d[2] = x
      /\ \A p \in 2 .. m : d[p + 1] = c[p]
  <2>1. m = Len(c) /\ d = AddChild(c, x)
    BY <1>1, <1>2, <1>d
  <2>2. /\ AddChild(c, x) \in Seq(Nat)
        /\ Len(AddChild(c, x)) = Len(c) + 1
        /\ Len(c) = 0 => AddChild(c, x)[1] = x
        /\ Len(c) > 0 => AddChild(c, x)[1] = c[1] /\ AddChild(c, x)[2] = x
        /\ \A p \in 2 .. Len(c) : AddChild(c, x)[p + 1] = c[p]
    BY ONLY <1>2, x \in Nat, AddChildIs
  <2>q. QED
    BY <2>1, <2>2
<1>4. d[1] = s[1]
  BY <1>1, <1>3 DEF Turned
<1>5. ASSUME NEW i \in 2 .. m + 1, NEW p \in 2 .. m + 1, i + p = (m + 1) + 2 PROVE d[p] = s[i]
  <2>1. CASE p = 2
    BY <1>1, <1>3, <1>5, <2>1
  <2>2. CASE p # 2
    <3>1. PICK q \in 2 .. m : p = q + 1 /\ i \in 2 .. m /\ i + q = m + 2
      BY <1>5, <2>2
    <3>q. QED
      BY <1>3, <3>1 DEF Turned
  <2>q. QED
    BY <2>1, <2>2
<1>q. QED
  BY <1>d, <1>3, <1>4, <1>5 DEF Turned

LEMMA ParsedTurned == ASSUME NEW s \in Seq(Nat) PROVE Turned(Parsed(s), s, Len(s))
<1>1. PICK n \in Nat : n = Len(s)
  OBVIOUS
<1>2. PICK f : /\ Parsed(s) = f[n] /\ f[0] = <<>>
               /\ \A m \in 0 .. n : m < n => f[m + 1] = AddChild(f[m], s[m + 1])
  BY <1>1, AddChildrenSteps DEF Parsed
<1> DEFINE T == {m \in 0 .. n : ~ Turned(f[m], s, m)}
<1>3. SUFFICES ASSUME T # {} PROVE FALSE
  BY <1>1, <1>2
<1>4. T \subseteq Nat
  OBVIOUS
<1>5. PICK k \in T : \A m \in T : k <= m
  <2> HIDE DEF T
  <2>q. QED
    BY <1>3, <1>4, Least
<1>6. Turned(f[0], s, 0)
  BY <1>2 DEF Turned
<1>7. PICK m \in 0 .. n : k = m + 1 /\ m < n
  BY <1>5, <1>6
<1>8. Turned(f[m], s, m)
  BY <1>5, <1>7
<1>9. Turned(f[m + 1], s, m + 1)
  BY <1>1, <1>2, <1>7, <1>8, TurnedStep
<1>q. QED
  BY <1>5, <1>7, <1>9

\* c is what the first m tags of s leave behind two others.
Between(c, list, s, m) ==
  /\ c \in Seq(Nat)
  /\ Len(c) = m + 2
  /\ c[1] = list[1]
  /\ c[m + 2] = list[2]
  /\ \A i \in 1 .. m, p \in 2 .. m + 1 : i + p = m + 2 => c[p] = s[i]

LEMMA BetweenStep ==
  ASSUME NEW list, NEW s \in Seq(Nat), NEW m \in Nat, m < Len(s),
         NEW c, Between(c, list, s, m)
  PROVE  Between(AddChild(c, s[m + 1]), list, s, m + 1)
<1>d. PICK d : d = AddChild(c, s[m + 1])
  OBVIOUS
<1>1. PICK x \in Nat : x = s[m + 1]
  OBVIOUS
<1>2. c \in Seq(Nat) /\ Len(c) = m + 2
  BY DEF Between
<1>3. /\ d \in Seq(Nat)
      /\ Len(d) = (m + 2) + 1
      /\ d[1] = c[1] /\ d[2] = x
      /\ \A p \in 2 .. m + 2 : d[p + 1] = c[p]
  <2>1. PICK n \in Nat : n = m + 2 /\ n > 0
    OBVIOUS
  <2>2. n = Len(c) /\ d = AddChild(c, x)
    BY <1>1, <1>2, <1>d, <2>1
  <2>3. /\ d \in Seq(Nat)
        /\ Len(d) = n + 1
        /\ n > 0 => d[1] = c[1] /\ d[2] = x
        /\ \A p \in 2 .. n : d[p + 1] = c[p]
    BY ONLY <1>2, <2>2, x \in Nat, n \in Nat, AddChildIs
  <2>q. QED
    BY <2>1, <2>3
<1>4. d[1] = list[1] /\ d[(m + 1) + 2] = list[2]
  <2>1. m + 2 \in 2 .. m + 2 /\ (m + 2) + 1 = (m + 1) + 2
    OBVIOUS
  <2>q. QED
    BY <1>3, <2>1 DEF Between
<1>5. ASSUME NEW i \in 1 .. m + 1, NEW p \in 2 .. (m + 1) + 1, i + p = (m + 1) + 2 PROVE d[p] = s[i]
  <2>1. CASE p = 2
    BY <1>1, <1>3, <1>5, <2>1
  <2>2. CASE p # 2
    <3>1. PICK q \in 2 .. m + 1 : p = q + 1 /\ i \in 1 .. m /\ i + q = m + 2
      BY <1>5, <2>2
    <3>2. d[q + 1] = c[q]
      <4>1. q \in 2 .. m + 2
        OBVIOUS
      <4>q. QED
        BY <1>3, <4>1
    <3>3. c[q] = s[i]
      BY <3>1 DEF Between
    <3>q. QED
      BY <3>1, <3>2, <3>3
  <2>q. QED
    BY <2>1, <2>2
<1>q. QED
  BY <1>d, <1>3, <1>4, <1>5 DEF Between

\* xml_tag_reorder undoes what xml_tag_add_child has done to the order.
LEMMA ReorderTurned ==
  ASSUME NEW s \in Seq(Nat), NEW c, Turned(c, s, Len(s))
  PROVE  Reorder(c) = s
<1>1. PICK n \in Nat : n = Len(s)
  OBVIOUS
<1>2. c \in Seq(Nat) /\ Len(c) = n /\ (n > 0 => c[1] = s[1])
      /\ \A i, p \in 2 .. n : i + p = n + 2 => c[p] = s[i]
  BY <1>1 DEF Turned
<1>3. CASE n < 3
  <2>1. ASSUME NEW p \in 1 .. n PROVE c[p] = s[p]
    BY <1>2, <1>3
  <2>2. c = s
    BY <1>1, <1>2, <2>1
  <2>q. QED
    BY <1>2, <1>3, <2>2 DEF Reorder
<1>4. CASE n >= 3
  <2>1. PICK list : /\ list = SubSeq(c, 1, 2) /\ list \in Seq(Nat) /\ Len(list) = 2
                    /\ list[1] = c[1] /\ list[2] = c[2]
    <3>1. SubSeq(c, 1, 2) \in Seq(Nat) /\ Len(SubSeq(c, 1, 2)) = 2
          /\ SubSeq(c, 1, 2)[1] = c[1] /\ SubSeq(c, 1, 2)[2] = c[2]
      BY <1>2, <1>4
    <3>q. QED
      BY <3>1
  <2>2. PICK t : /\ t = SubSeq(c, 3, n) /\ t \in Seq(Nat) /\ Len(t) = n - 2
                 /\ \A i \in 1 .. n - 2 : t[i] = c[i + 2]
    <3>1. SubSeq(c, 3, n) \in Seq(Nat) /\ Len(SubSeq(c, 3, n)) = n - 2
          /\ \A i \in 1 .. n - 2 : SubSeq(c, 3, n)[i] = c[i + 2]
      BY <1>2, <1>4
    <3>q. QED
      BY <3>1
  <2>3. PICK k \in Nat : k = n - 2 /\ n = k + 2
    BY <1>4
  <2>4. PICK f : /\ AddChildren(list, t) = f[k] /\ f[0] = list
                 /\ \A m \in 0 .. k : m < k => f[m + 1] = AddChild(f[m], t[m + 1])
    <3>1. Len(t) = k /\ Len(t) \in Nat
      BY <2>2, <2>3
    <3>2. \E f : /\ AddChildren(list, t) = f[Len(t)]
                 /\ f[0] = list
                 /\ \A m \in 0 .. Len(t) : m < Len(t) => f[m + 1] = AddChild(f[m], t[m + 1])
      BY ONLY <3>1, AddChildrenSteps
    <3>q. QED
      BY <3>1, <3>2
  <2> DEFINE T == {m \in 0 .. k : ~ Between(f[m], list, t, m)}
  <2>5. T = {}
    <3>1. SUFFICES ASSUME T # {} PROVE FALSE
      OBVIOUS
    <3>2. T \subseteq Nat
      OBVIOUS
    <3>3. PICK j \in T : \A m \in T : j <= m
      <4> HIDE DEF T
      <4>q. QED
        BY <3>1, <3>2, Least
    <3>4. Between(f[0], list, t, 0)
      BY <2>1, <2>4 DEF Between
    <3>5. PICK m \in 0 .. k : j = m + 1 /\ m < k
      BY <3>3, <3>4
    <3>6. Between(f[m], list, t, m)
      BY <3>3, <3>5
    <3>7. Between(f[m + 1], list, t, m + 1)
      <4>1. m \in Nat /\ m < Len(t) /\ f[m + 1] = AddChild(f[m], t[m + 1])
        BY <2>2, <2>3, <2>4, <3>5
      <4>2. Between(AddChild(f[m], t[m + 1]), list, t, m + 1)
        BY ONLY <4>1, <3>6, <2>2, BetweenStep
      <4>q. QED
        BY ONLY <4>1, <4>2
    <3>q. QED
      BY <3>3, <3>5, <3>7
  <2>6. PICK d : d = AddChildren(list, t) /\ Between(d, list, t, k)
    <3>1. k \in 0 .. k
      BY <2>3
    <3>2. Between(f[k], list, t, k)
      BY <2>5, <3>1
    <3>q. QED
      BY ONLY <2>4, <3>2
  <2>7. Reorder(c) = d
    BY <1>2, <1>4, <2>1, <2>2, <2>6 DEF Reorder
  <2>8. ASSUME NEW p \in 1 .. n PROVE d[p] = s[p]
    <3>1. CASE p = 1
      BY <1>2, <2>1, <2>6, <3>1 DEF Between
    <3>2. CASE p = n
      BY <1>2, <1>4, <2>1, <2>3, <2>6, <3>2 DEF Between
    <3>3. CASE p # 1 /\ p # n
      <4>1. PICK i \in 1 .. k : i + p = k + 2 /\ p \in 2 .. k + 1
        BY <2>3, <3>3
      <4>2. d[p] = t[i]
        BY <2>6, <4>1 DEF Between
      <4>3. t[i] = c[i + 2]
        BY <2>2, <2>3, <4>1
      <4>4. PICK q \in 2 .. n : q = i + 2 /\ p + q = n + 2 /\ p \in 2 .. n
        BY <2>3, <4>1
      <4>q. QED
        BY <1>2, <4>2, <4>3, <4>4
    <3>q. QED
      BY <3>1, <3>2, <3>3
  <2>9. d \in Seq(Nat) /\ Len(d) = n
    BY <2>3, <2>6 DEF Between
  <2>10. d = s
    BY ONLY <1>1, <2>8, <2>9, s \in Seq(Nat)
  <2>q. QED
    BY <2>7, <2>10
<1>q. QED
  BY <1>3, <1>4

\* f[k] is what the first k requests of a batch have for answers.
NamedBy(b, n, f) ==
  f = [i \in 0 .. n |->
         IF i = 0 THEN <<>> ELSE IF b[i] # 0 THEN Append(f[i - 1], b[i]) ELSE f[i - 1]]

NamedOf(b) == CHOOSE f : NamedBy(b, Len(b), f)

LEMMA NamedSteps ==
  ASSUME NEW b, NEW n \in Nat, NEW f, NamedBy(b, n, f)
  PROVE  /\ f[0] = <<>>
         /\ \A m \in 0 .. n :
              m < n => f[m + 1] = IF b[m + 1] # 0 THEN Append(f[m], b[m + 1]) ELSE f[m]
<1>1. \A i \in 0 .. n :
        f[i] = IF i = 0 THEN <<>> ELSE IF b[i] # 0 THEN Append(f[i - 1], b[i]) ELSE f[i - 1]
  BY ONLY NamedBy(b, n, f), Zenon DEF NamedBy
<1>2. \A m \in 0 .. n : m < n => m + 1 \in 0 .. n /\ m + 1 # 0 /\ (m + 1) - 1 = m
  OBVIOUS
<1>3. 0 \in 0 .. n
  OBVIOUS
<1>q. QED
  BY <1>1, <1>2, <1>3, Zenon

LEMMA NamedExists ==
  ASSUME NEW b, NEW n \in Nat
  PROVE  \E f : NamedBy(b, n, f)
<1> DEFINE T == {k \in Nat : ~ \E f : NamedBy(b, k, f)}
<1>1. SUFFICES ASSUME T # {} PROVE FALSE
  OBVIOUS
<1>2. T \subseteq Nat
  OBVIOUS
<1>3. PICK k \in T : \A m \in T : k <= m
  <2> HIDE DEF T
  <2>q. QED
    BY <1>1, <1>2, Least
<1>4. k # 0
  <2>1. NamedBy(b, 0, [i \in 0 .. 0 |-> <<>>])
    BY DEF NamedBy
  <2>q. QED
    BY <1>3, <2>1
<1>5. PICK m \in Nat : k = m + 1
  BY <1>3, <1>4
<1>6. PICK f : NamedBy(b, m, f)
  BY <1>3, <1>5
<1>7. /\ f[0] = <<>>
      /\ \A i \in 0 .. m : i < m => f[i + 1] = IF b[i + 1] # 0 THEN Append(f[i], b[i + 1]) ELSE f[i]
  BY <1>6, NamedSteps
<1> DEFINE g == [i \in 0 .. k |->
                   IF i <= m THEN f[i] ELSE IF b[k] # 0 THEN Append(f[m], b[k]) ELSE f[m]]
<1>8. g[0] = <<>>
  BY <1>5, <1>7
<1>9. ASSUME NEW i \in 0 .. k, i # 0
      PROVE  g[i] = IF b[i] # 0 THEN Append(g[i - 1], b[i]) ELSE g[i - 1]
  <2>1. PICK j \in 0 .. m : i = j + 1 /\ i - 1 = j
    BY <1>5, <1>9
  <2>2. g[i - 1] = f[j]
    BY <1>5, <2>1
  <2>3. CASE j < m
    BY <1>5, <1>7, <2>1, <2>2, <2>3
  <2>4. CASE j = m
    BY <1>5, <2>1, <2>2, <2>4
  <2>q. QED
    BY <2>1, <2>3, <2>4
<1>10. g = [i \in 0 .. k |-> g[i]]
  OBVIOUS
<1>11. NamedBy(b, k, g)
  <2> HIDE DEF g
  <2>q. QED
    BY <1>8, <1>9, <1>10 DEF NamedBy
<1>q. QED
  BY <1>3, <1>11

LEMMA NamedOfSteps ==
  ASSUME NEW b \in Seq(Nat)
  PROVE  /\ Named(b) = NamedOf(b)[Len(b)]
         /\ NamedOf(b)[0] = <<>>
         /\ \A m \in 0 .. Len(b) : m < Len(b) =>
              NamedOf(b)[m + 1] = IF b[m + 1] # 0 THEN Append(NamedOf(b)[m], b[m + 1]) ELSE NamedOf(b)[m]
         /\ \A m \in 0 .. Len(b) : NamedOf(b)[m] \in Seq(Nat)
<1>1. Named(b) = (CHOOSE f : NamedBy(b, Len(b), f))[Len(b)]
  BY DEF Named, NamedBy
<1>2. PICK f : f = NamedOf(b)
  OBVIOUS
<1>n. PICK n \in Nat : n = Len(b)
  OBVIOUS
<1>3. NamedBy(b, n, f)
  <2>1. \E g : NamedBy(b, n, g)
    BY NamedExists
  <2>2. f = CHOOSE g : NamedBy(b, n, g)
    BY <1>2, <1>n DEF NamedOf
  <2>q. QED
    BY <2>1, <2>2
<1>4. /\ f[0] = <<>>
      /\ \A m \in 0 .. n : m < n => f[m + 1] = IF b[m + 1] # 0 THEN Append(f[m], b[m + 1]) ELSE f[m]
  BY ONLY <1>3, n \in Nat, NamedSteps
<1> DEFINE T == {m \in 0 .. n : ~ f[m] \in Seq(Nat)}
<1>5. T = {}
  <2>1. SUFFICES ASSUME T # {} PROVE FALSE
    OBVIOUS
  <2>2. T \subseteq Nat
    OBVIOUS
  <2>3. PICK k \in T : \A m \in T : k <= m
    <3> HIDE DEF T
    <3>q. QED
      BY <2>1, <2>2, Least
  <2>4. PICK m \in 0 .. n : k = m + 1 /\ m < n
    <3>1. f[0] \in Seq(Nat) /\ k \in 0 .. n /\ ~ f[k] \in Seq(Nat)
      BY <1>4, <2>3
    <3>2. k # 0
      BY <3>1
    <3>q. QED
      BY <3>1, <3>2
  <2>5. f[m] \in Seq(Nat) /\ b[m + 1] \in Nat
    BY <1>n, <2>3, <2>4
  <2>6. f[m + 1] \in Seq(Nat)
    <3>1. f[m + 1] = IF b[m + 1] # 0 THEN Append(f[m], b[m + 1]) ELSE f[m]
      BY <1>4, <2>4
    <3>2. Append(f[m], b[m + 1]) \in Seq(Nat)
      BY <2>5
    <3>q. QED
      BY <2>5, <3>1, <3>2
  <2>q. QED
    BY <2>3, <2>4, <2>6
<1>6. \A m \in 0 .. n : f[m] \in Seq(Nat)
  BY <1>5
<1>q. QED
  BY <1>1, <1>2, <1>n, <1>4, <1>6 DEF NamedOf

\* One more answer.
LEMMA TurnedAppend ==
  ASSUME NEW s \in Seq(Nat), NEW c, Turned(c, s, Len(s)), NEW x \in Nat
  PROVE  Turned(AddChild(c, x), Append(s, x), Len(Append(s, x)))
<1>1. PICK n \in Nat : n = Len(s)
  OBVIOUS
<1>2. PICK r : r = Append(s, x)
  OBVIOUS
<1>3. r \in Seq(Nat) /\ Len(r) = n + 1 /\ r[n + 1] = x /\ \A i \in 1 .. n : r[i] = s[i]
  BY <1>1, <1>2
<1>4. Turned(c, r, n)
  BY <1>1, <1>3 DEF Turned
<1>5. Turned(AddChild(c, r[n + 1]), r, n + 1)
  <2>1. r \in Seq(Nat) /\ n \in Nat /\ n < Len(r)
    BY <1>3
  <2>q. QED
    BY ONLY <2>1, <1>4, TurnedStep
<1>q. QED
  BY <1>2, <1>3, <1>5

LEMMA RestOf ==
  ASSUME NEW b \in Seq(Nat), NEW k \in 0 .. Len(b)
  PROVE  /\ SubSeq(b, k + 1, Len(b)) = <<>> => k = Len(b)
         /\ SubSeq(b, k + 1, Len(b)) # <<>> =>
              /\ k < Len(b)
              /\ Head(SubSeq(b, k + 1, Len(b))) = b[k + 1]
              /\ Tail(SubSeq(b, k + 1, Len(b))) = SubSeq(b, (k + 1) + 1, Len(b))
<1>1. CASE k = Len(b)
  <2>1. SubSeq(b, k + 1, Len(b)) = <<>>
    BY <1>1, SubSeqEmpty
  <2>q. QED
    BY <1>1, <2>1
<1>2. CASE k < Len(b)
  <2>1. PICK m \in 1 .. Len(b) : m = k + 1 /\ Len(b) \in m .. Len(b)
    BY <1>2
  <2>2. /\ Head(SubSeq(b, m, Len(b))) = b[m]
        /\ Tail(SubSeq(b, m, Len(b))) = SubSeq(b, m + 1, Len(b))
    BY <2>1, HeadTailOfSubSeq
  <2>3. SubSeq(b, m, Len(b)) # <<>>
    <3>1. \A i \in m .. Len(b) : b[i] \in Nat
      BY <2>1
    <3>2. Len(SubSeq(b, m, Len(b))) = IF m <= Len(b) THEN Len(b) - m + 1 ELSE 0
      BY <3>1, SubSeqProperties
    <3>3. Len(SubSeq(b, m, Len(b))) # 0
      BY <2>1, <3>2
    <3>4. Len(<<>>) = 0
      OBVIOUS
    <3>q. QED
      BY ONLY <3>3, <3>4, Zenon
  <2>q. QED
    BY <1>2, <2>1, <2>2, <2>3
<1>q. QED
  BY <1>1, <1>2

-----------------------------------------------------------------------------
(* The invariant: an answer grows with the requests that have been called.   *)

\* The first k requests of the batch were called, in their order.
Called(t, k) ==
  LET body == req[t].body
  IN /\ todo[t] = SubSeq(body, k + 1, Len(body))
     /\ Turned(ans[t], NamedOf(body)[k], Len(NamedOf(body)[k]))

BatchInv ==
  /\ todo = [t \in Threads |-> todo[t]]
  /\ ans = [t \in Threads |-> ans[t]]
  /\ \A t \in Threads :
       /\ pc[t] \notin {"call", "ended", "fault"} => ans[t] = <<>>
       /\ pc[t] = "call" => req[t] \in Request
       /\ pc[t] = "call" /\ req[t].body # None =>
            \E k \in 0 .. Len(req[t].body) : Called(t, k)

\* What a batch is answered with.
PartsInOrder(answers, request) ==
  \A i \in 1 .. Len(answers) : answers[i].what = "batch" => answers[i].parts = Named(request.body)

InOrder == \A t \in Threads : PartsInOrder(sent[t], req[t])

\* A step in which no thread gets on with a batch.
LEMMA BatchFrame ==
  ASSUME BatchInv, InOrder, UNCHANGED <<todo, ans>>,
         \A t \in Threads :
           \/ pc'[t] = pc[t] /\ req'[t] = req[t] /\ sent'[t] = sent[t]
           \/ /\ \/ pc'[t] \in {"ended", "fault"}
                 \/ pc[t] \notin {"call", "ended", "fault"} /\ pc'[t] # "call"
              /\ PartsInOrder(sent'[t], req'[t])
  PROVE  BatchInv' /\ InOrder'
<1>1. ASSUME NEW t \in Threads, req'[t] = req[t], NEW k PROVE Called(t, k)' = Called(t, k)
  BY <1>1 DEF Called
<1>2. BatchInv'
  BY <1>1 DEF BatchInv
<1>3. InOrder'
  BY DEF InOrder, PartsInOrder
<1>q. QED
  BY <1>2, <1>3

LEMMA NoParts ==
  ASSUME NEW what, what # "batch", NEW parts, NEW request
  PROVE  /\ PartsInOrder(<<>>, request)
         /\ PartsInOrder(Append(<<>>, [what |-> what, parts |-> parts]), request)
<1>1. PICK x : x = [what |-> what, parts |-> parts]
  OBVIOUS
<1>2. Len(Append(<<>>, x)) = 1 /\ Append(<<>>, x)[1] = x
  <2>1. <<>> \in Seq({x}) /\ x \in {x}
    OBVIOUS
  <2>q. QED
    BY <2>1
<1>q. QED
  BY <1>1, <1>2 DEF PartsInOrder

\* The batch is parsed, and turned into its order.
LEMMA AuthorizedBatch ==
  ASSUME IInv, AnswerInv, BatchInv, InOrder, NEW t \in Threads, NEW body \in Batches \cup {None},
         Authorized(t, body)
  PROVE  BatchInv' /\ InOrder'
<1>1. /\ pc[t] = "body" /\ pc' = [pc EXCEPT ![t] = "call"]
      /\ req[t] \in Request /\ req' = [req EXCEPT ![t] = [req[t] EXCEPT !.body = body]]
      /\ todo' = [todo EXCEPT ![t] = IF body = None THEN <<>> ELSE Reorder(Parsed(body))]
      /\ UNCHANGED <<ans, sent>>
  BY DEF Authorized, AnswerInv, RequestInv
<1>2. /\ req \in [Threads -> Request \cup {None}] /\ pc \in [Threads -> PC]
      /\ ans[t] = <<>> /\ sent[t] = <<>>
  BY <1>1 DEF AnswerInv, RequestInv, BatchInv
<1>3. req'[t] \in Request /\ req'[t].body = body
  BY <1>1, <1>2 DEF Request
<1>4. body # None => Called(t, 0)'
  <2> SUFFICES ASSUME body # None PROVE Called(t, 0)'
    OBVIOUS
  <2>1. body \in Seq(Nat)
    BY BatchesAssumption
  <2>2. Reorder(Parsed(body)) = body
    BY <2>1, ParsedTurned, ReorderTurned
  <2>3. todo'[t] = body
    BY <1>1, <2>2 DEF BatchInv
  <2>4. SubSeq(body, 0 + 1, Len(body)) = body
    BY <2>1, SubSeqFull
  <2>5. NamedOf(body)[0] = <<>>
    BY <2>1, NamedOfSteps
  <2>6. Turned(<<>>, <<>>, Len(<<>>))
    BY DEF Turned
  <2>7. ans'[t] = <<>>
    BY <1>1, <1>2
  <2>q. QED
    BY <1>3, <2>3, <2>4, <2>5, <2>6, <2>7 DEF Called
<1>5. ASSUME NEW u \in Threads, u # t, NEW k PROVE Called(u, k)' = Called(u, k)
  BY <1>1, <1>5 DEF Called
<1>6. body # None => \E k \in 0 .. Len(req'[t].body) : Called(t, k)'
  <2> SUFFICES ASSUME body # None PROVE \E k \in 0 .. Len(req'[t].body) : Called(t, k)'
    OBVIOUS
  <2>1. body \in Seq(Nat) /\ 0 \in 0 .. Len(body)
    BY BatchesAssumption
  <2>q. QED
    BY <1>3, <1>4, <2>1
<1>7. BatchInv'
  BY <1>1, <1>2, <1>3, <1>5, <1>6 DEF BatchInv
<1>8. InOrder'
  BY <1>1, <1>2, NoParts DEF InOrder, PartsInOrder
<1>q. QED
  BY <1>7, <1>8

LEMMA CallNextBatch ==
  ASSUME IInv, AnswerInv, BatchInv, InOrder, NEW t \in Threads, CallNext(t)
  PROVE  BatchInv' /\ InOrder'
<1>1. /\ pc[t] = "call" /\ todo[t] # <<>> /\ UNCHANGED <<pc, req, sent>>
      /\ todo' = [todo EXCEPT ![t] = Tail(todo[t])]
      /\ ans' = [ans EXCEPT ![t] = IF Head(todo[t]) = 0 THEN ans[t] ELSE AddChild(ans[t], Head(todo[t]))]
  BY DEF CallNext, serverVars
<1>2. /\ todo'[t] = Tail(todo[t])
      /\ ans'[t] = IF Head(todo[t]) = 0 THEN ans[t] ELSE AddChild(ans[t], Head(todo[t]))
      /\ todo' = [u \in Threads |-> todo'[u]]
      /\ ans' = [u \in Threads |-> ans'[u]]
      /\ \A u \in Threads : u # t => todo'[u] = todo[u] /\ ans'[u] = ans[u]
  BY <1>1 DEF BatchInv
<1>3. ASSUME NEW u \in Threads, u # t, NEW k PROVE Called(u, k)' = Called(u, k)
  BY <1>1, <1>2, <1>3 DEF Called
<1>4. ASSUME req[t].body # None
      PROVE  \E k \in 0 .. Len(req[t].body) : Called(t, k)'
  <2>1. PICK k \in 0 .. Len(req[t].body) : Called(t, k)
    BY <1>1, <1>4 DEF BatchInv
  <2>2. PICK b : b = req[t].body
    OBVIOUS
  <2>3. b \in Seq(Nat) /\ k \in 0 .. Len(b)
    BY <1>1, <1>4, <2>1, <2>2, BatchesAssumption DEF BatchInv, Request
  <2>4. k < Len(b) /\ Head(todo[t]) = b[k + 1] /\ Tail(todo[t]) = SubSeq(b, (k + 1) + 1, Len(b))
    BY <1>1, <2>1, <2>2, <2>3, RestOf DEF Called
  <2>5. PICK s : s = NamedOf(b)[k]
    OBVIOUS
  <2>6. /\ s \in Seq(Nat)
        /\ NamedOf(b)[k + 1] = IF b[k + 1] # 0 THEN Append(s, b[k + 1]) ELSE s
    BY <2>3, <2>4, <2>5, NamedOfSteps
  <2>7. Turned(ans[t], s, Len(s))
    BY <2>1, <2>2, <2>5 DEF Called
  <2>8. Turned(ans'[t], NamedOf(b)[k + 1], Len(NamedOf(b)[k + 1]))
    <3>1. CASE b[k + 1] = 0
      BY <1>2, <2>4, <2>6, <2>7, <3>1
    <3>2. CASE b[k + 1] # 0
      <4>1. b[k + 1] \in Nat
        BY <2>3, <2>4
      <4>2. Turned(AddChild(ans[t], b[k + 1]), Append(s, b[k + 1]), Len(Append(s, b[k + 1])))
        BY <2>6, <2>7, <4>1, TurnedAppend
      <4>q. QED
        BY <1>2, <2>4, <2>6, <3>2, <4>2
    <3>q. QED
      BY <3>1, <3>2
  <2>9. Called(t, k + 1)'
    BY <1>1, <1>2, <2>2, <2>4, <2>8 DEF Called
  <2>q. QED
    BY <2>2, <2>3, <2>4, <2>9
<1>5. BatchInv'
  BY <1>1, <1>2, <1>3, <1>4 DEF BatchInv
<1>6. InOrder'
  BY <1>1 DEF InOrder, PartsInOrder
<1>q. QED
  BY <1>5, <1>6

\* The whole batch is answered.
LEMMA CallDoneParts ==
  ASSUME AnswerInv, BatchInv, NEW t \in Threads, CallDone(t)
  PROVE  PartsInOrder(sent'[t], req'[t])
<1>1. /\ pc[t] = "call" /\ todo[t] = <<>> /\ req[t].body # None
      /\ sent' = [sent EXCEPT ![t] = Append(sent[t], [what |-> "batch", parts |-> Reorder(ans[t])])]
      /\ UNCHANGED req
  BY DEF CallDone, Push
<1>2. sent[t] = <<>> /\ sent = [u \in Threads |-> sent[u]] /\ req[t] \in Request
  BY <1>1 DEF AnswerInv, RequestInv, BatchInv
<1>3. PICK b : b = req[t].body
  OBVIOUS
<1>4. b \in Seq(Nat)
  BY <1>1, <1>2, <1>3, BatchesAssumption DEF Request
<1>5. PICK k \in 0 .. Len(b) : Called(t, k)
  BY <1>1, <1>3 DEF BatchInv
<1>6. k = Len(b)
  BY <1>1, <1>3, <1>4, <1>5, RestOf DEF Called
<1>7. NamedOf(b)[k] \in Seq(Nat) /\ Named(b) = NamedOf(b)[k]
  BY <1>4, <1>5, <1>6, NamedOfSteps
<1>8. Turned(ans[t], NamedOf(b)[k], Len(NamedOf(b)[k]))
  BY <1>3, <1>5 DEF Called
<1>9. Reorder(ans[t]) = Named(b)
  BY <1>7, <1>8, ReorderTurned
<1>10. PICK x : x = [what |-> "batch", parts |-> Reorder(ans[t])]
  OBVIOUS
<1>11. Len(Append(<<>>, x)) = 1 /\ Append(<<>>, x)[1] = x
  <2>1. <<>> \in Seq({x}) /\ x \in {x}
    OBVIOUS
  <2>q. QED
    BY <2>1
<1>12. sent'[t] = Append(<<>>, x) /\ req'[t].body = b
  BY <1>1, <1>2, <1>3, <1>10
<1>q. QED
  BY <1>9, <1>10, <1>11, <1>12 DEF PartsInOrder

LEMMA BatchStep == IInv /\ AnswerInv /\ BatchInv /\ InOrder /\ [Next]_vars => BatchInv' /\ InOrder'
<1> SUFFICES ASSUME IInv, AnswerInv, BatchInv, InOrder, [Next]_vars PROVE BatchInv' /\ InOrder'
  OBVIOUS
<1>0. /\ pc \in [Threads -> PC] /\ req \in [Threads -> Request \cup {None}]
      /\ sent = [t \in Threads |-> sent[t]]
      /\ \A t \in Threads : pc[t] # "ended" => sent[t] = <<>>
      /\ \A request : PartsInOrder(<<>>, request)
  BY DEF AnswerInv, RequestInv, PartsInOrder
<1> USE DEF serverVars, httpVars
<1>1. ASSUME NEW c \in Conns, Accept(c) PROVE BatchInv' /\ InOrder'
  BY <1>1, BatchFrame DEF Accept
<1>2. CASE AcceptFails
  BY <1>2, BatchFrame DEF AcceptFails
<1>3. CASE StartThread
  <2>1. Len(arrived) \in Threads /\ pc[Len(arrived)] = "none"
    BY <1>3, InThreads DEF StartThread, IInv, OwnerInv
  <2>2. UNCHANGED <<todo, ans, req, sent>> /\ pc' = [pc EXCEPT ![Len(arrived)] = "created"]
    BY <1>3 DEF StartThread
  <2>q. QED
    BY <1>0, <2>1, <2>2, BatchFrame
<1>4. CASE StartThreadFails
  BY <1>4, BatchFrame DEF StartThreadFails
<1>5. ASSUME NEW t \in Threads, TakeSocket(t) PROVE BatchInv' /\ InOrder'
  BY <1>0, <1>5, BatchFrame DEF TakeSocket
<1>6. ASSUME NEW t \in Threads, SessionNew(t) PROVE BatchInv' /\ InOrder'
  BY <1>0, <1>6, BatchFrame DEF SessionNew
<1>7. ASSUME NEW t \in Threads, Serve(t) PROVE BatchInv' /\ InOrder'
  <2>1. tp.http \in {"xml", "http"}
    BY DEF IInv, TypeInv
  <2>q. QED
    BY <1>0, <1>7, <2>1, BatchFrame DEF Serve
<1>8. ASSUME NEW t \in Threads, NEW post \in BOOLEAN, NEW named \in BOOLEAN, RequestLine(t, post, named)
      PROVE  BatchInv' /\ InOrder'
  BY <1>0, <1>8, BatchFrame DEF RequestLine
<1>9. ASSUME NEW t \in Threads, NEW field \in {"auth", "length"}, NEW value \in {"good", "bad"},
             Header(t, field, value)
      PROVE  BatchInv' /\ InOrder'
  <2>1. pc[t] = "http" /\ UNCHANGED <<todo, ans, sent, pc>> /\ \A u \in Threads : u # t => req'[u] = req[u]
    BY <1>0, <1>9 DEF Header
  <2>q. QED
    BY <1>0, <2>1, BatchFrame
<1>10. ASSUME NEW t \in Threads, PushError(t), pc[t] \in {"http", "body"} PROVE BatchInv' /\ InOrder'
  <2>1. /\ UNCHANGED <<req, todo, ans>> /\ pc' = [pc EXCEPT ![t] = "ended"]
        /\ sent' = [sent EXCEPT ![t] = Append(sent[t], [what |-> "error", parts |-> <<>>])]
    BY <1>10 DEF PushError, Push, End
  <2>2. PartsInOrder(sent'[t], req'[t])
    BY <1>0, <1>10, <2>1, NoParts
  <2>q. QED
    BY <1>0, <2>1, <2>2, BatchFrame
<1>11. ASSUME NEW t \in Threads, Eof(t) PROVE BatchInv' /\ InOrder'
  BY <1>0, <1>11, BatchFrame DEF Eof, End
<1>12. ASSUME NEW t \in Threads, EmptyLine(t) PROVE BatchInv' /\ InOrder'
  <2>1. /\ pc[t] = "http" /\ UNCHANGED <<todo, ans>> /\ \A u \in Threads : u # t => req'[u] = req[u]
    BY <1>0, <1>12 DEF EmptyLine
  <2>2. CASE req[t].post /\ req[t].length # "good"
    <3>1. /\ pc' = [pc EXCEPT ![t] = "ended"]
          /\ sent' = [sent EXCEPT ![t] = Append(sent[t], [what |-> "error", parts |-> <<>>])]
      BY <1>12, <2>2 DEF EmptyLine, Push, End
    <3>2. PartsInOrder(sent'[t], req'[t])
      BY <1>0, <2>1, <3>1, NoParts
    <3>q. QED
      BY <1>0, <2>1, <3>1, <3>2, BatchFrame
  <2>3. CASE ~ (req[t].post /\ req[t].length # "good")
    <3>1. pc' = [pc EXCEPT ![t] = "body"] /\ UNCHANGED sent
      BY <1>12, <2>3 DEF EmptyLine
    <3>q. QED
      BY <1>0, <2>1, <3>1, BatchFrame
  <2>q. QED
    BY <2>2, <2>3
<1>13. ASSUME NEW t \in Threads, XmlEnd(t) \/ FdopenFails(t) PROVE BatchInv' /\ InOrder'
  BY <1>0, <1>13, BatchFrame DEF XmlEnd, FdopenFails, End
<1>14. ASSUME NEW t \in Threads, CallNamed(t) PROVE BatchInv' /\ InOrder'
  <2>1. /\ UNCHANGED <<req, todo, ans>> /\ pc' = [pc EXCEPT ![t] = "ended"] /\ pc[t] = "call"
        /\ sent' = [sent EXCEPT ![t] = Append(sent[t], [what |-> "response", parts |-> <<>>])]
    BY <1>14 DEF CallNamed, Push, End
  <2>2. PartsInOrder(sent'[t], req'[t])
    BY <1>0, <2>1, NoParts
  <2>q. QED
    BY <1>0, <2>1, <2>2, BatchFrame
<1>15. ASSUME NEW t \in Threads, CallDone(t) PROVE BatchInv' /\ InOrder'
  <2>1. /\ UNCHANGED <<req, todo, ans>> /\ pc' = [pc EXCEPT ![t] = "ended"] /\ pc[t] = "call"
        /\ \A u \in Threads : u # t => sent'[u] = sent[u]
    BY <1>0, <1>15 DEF CallDone, Push, End
  <2>2. PartsInOrder(sent'[t], req'[t])
    BY <1>15, CallDoneParts
  <2>q. QED
    BY <1>0, <2>1, <2>2, BatchFrame
<1>16. ASSUME NEW t \in Threads, Fall(t) PROVE BatchInv' /\ InOrder'
  <2>1. pc' = [pc EXCEPT ![t] = "fault"] /\ pc[t] = "call" /\ UNCHANGED <<req, todo, ans, sent>>
    BY <1>16 DEF Fall
  <2>q. QED
    BY <1>0, <2>1, BatchFrame
<1>17. CASE UNCHANGED vars
  BY <1>17, BatchFrame DEF vars
<1>q. QED
  BY <1>1, <1>2, <1>3, <1>4, <1>5, <1>6, <1>7, <1>8, <1>9, <1>10, <1>11, <1>12, <1>13, <1>14,
     <1>15, <1>16, <1>17, AuthorizedBatch, CallNextBatch
  DEF Next, MainSteps, ThreadSteps, ClientSteps, RequestSteps, InvalidLine, Unauthorized

\* A connection over HTTP is answered at most once, always when its request was complete,
\* and the answer to a batch has one part for each request with a name, in the order of
\* the batch, however long it is: what xml_tag_add_child turns round when the body is
\* parsed, and again when the answer is made, xml_tag_reorder turns back
\* (http_client_loop, process_request).
THEOREM ServerAnsweredInOrder == Spec => []AnsweredInOrder
<1>1. Init => AnswerInv /\ BatchInv /\ InOrder
  <2> SUFFICES ASSUME Init PROVE AnswerInv /\ BatchInv /\ InOrder
    OBVIOUS
  <2>1. AnswerInv
    BY DEF Init, AnswerInv, RequestInv, OneAnswer, PC
  <2>2. BatchInv
    BY DEF Init, BatchInv
  <2>3. InOrder
    BY DEF Init, InOrder, PartsInOrder
  <2>q. QED
    BY <2>1, <2>2, <2>3
<1>2. AnswerInv /\ InOrder => AnsweredInOrder
  BY DEF AnswerInv, OneAnswer, InOrder, PartsInOrder, AnsweredInOrder
<1>q. QED
  BY <1>1, <1>2, IInvHolds, AnswerStep, BatchStep, PTL DEF Spec
=============================================================================
