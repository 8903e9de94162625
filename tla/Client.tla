------------------------------- MODULE Client -------------------------------
(***************************************************************************)
(* XML client threads of the daemon: the session table (mbbd/mbbsession.c), *)
(* the poll loop of a connection (mbbthreadxml.c) with its message queue    *)
(* (mbbmsgqueue.c) and signaller (signaller.c), and the log subscriptions   *)
(* through which one client's requests put messages in the queues of the    *)
(* others (mbblog.c).                                                      *)
(*                                                                         *)
(* Every thread serves one connection and runs, inside its loop, the        *)
(* requests its client sends: subscribe to the log, unsubscribe, kill a     *)
(* session, or any other method.  Three reader-writer locks are involved,   *)
(* those of the session table, of the thread table and of the log table.    *)
(* No thread holds two of them, and who is inside one as a reader shows in  *)
(* the program counters; a writer's section is a single step.               *)
(***************************************************************************)
EXTENDS Naturals, Sequences, FiniteSets

CONSTANTS
  Threads,      \* client threads; a thread's identity is its sid
  MaxRequests,  \* bound: requests the clients send
  Methods       \* bound: which of AllMethods the clients call

AllMethods == {"subscribe", "unsubscribe", "kill", "other"}

ASSUME MaxRequestsAssumption == MaxRequests \in Nat
ASSUME MethodsAssumption == Methods \subseteq AllMethods

VARIABLES
  pc,          \* [Threads -> PC]
  sessions,    \* sids in the session table
  threads,     \* sids in the thread table (mbb_thread_raise looks here)
  subscribed,  \* sids in the log table
  mem,         \* [Threads -> "none" | "live" | "freed"]: queue and signaller
  queue,       \* [Threads -> Seq(Message)]: te->msg_queue
  blocked,     \* [Threads -> BOOLEAN]: te->signaller->blocked
  killed,      \* [Threads -> BOOLEAN]: te->ss.killed
  killMsg,     \* [Threads -> Nat]: te->ss.kill_msg, the kill that made it; 0 is NULL
  freed,       \* [Threads -> SUBSET (Nat \X Nat)]: <<m, k>>, kill k has freed message m
  nth,         \* [Threads -> Nat]: which kill of its target a killer is making
  held,        \* [Threads -> Nat]: the kill message a loop has the address of
  sendOnly,    \* [Threads -> BOOLEAN]: send_only of xml_client_loop
  events,      \* [Threads -> SUBSET {"in", "out"}]: pfd.events, then pfd.revents
  target,      \* [Threads -> Threads]: the session a kill request names
  todo,        \* [Threads -> SUBSET Threads]: log subscribers still to be served
  after,       \* [Threads -> AfterLog]: where a thread goes on after its log message
  missed,      \* [Threads -> BOOLEAN]: a signal came after the loop's look, before its sleep
  sent,        \* 0..MaxRequests: requests the clients have sent
  kills,       \* [Threads -> Nat]: history, how often a session was marked
  fault,       \* [Threads -> SUBSET Faults]: history, what happened to its kill message
  late,        \* [Threads -> 0..2]: history, reads once only sending was left
  broken       \* [Threads -> BOOLEAN]: history, the loop ended on EOF or an error

vars == <<pc, sessions, threads, subscribed, mem, queue, blocked, killed, killMsg,
          freed, nth, held, kills, fault, sendOnly, events, target, todo, after, missed,
          sent, late, broken>>

tables == <<sessions, threads, subscribed>>
msgs == <<killMsg, freed, nth, held, kills, fault>>
kill == <<killed, msgs>>
hist == <<sent, late, broken>>

Message == {"kill", "log", "response"}

\* What may happen to a kill message: freed a second time, read after it was freed.
Faults == {"freedtwice", "readfreed"}

PC == {"none", "new", "insert", "top", "pushkill", "unblock", "prepoll", "asleep",
       "interrupted", "read", "exec", "killfind", "killmark", "killtest",
       "killfree", "killset", "raisefind", "raise", "logfind", "log", "respond",
       "write", "remove", "unregister", "free", "quit", "gone", "invalid"}

AfterLog == {"insert", "exec", "respond", "invalid", "quit"}

\* The kill messages.
MsgTypeOK ==
  /\ killMsg \in [Threads -> Nat]
  /\ freed \in [Threads -> SUBSET (Nat \X Nat)]
  /\ nth \in [Threads -> Nat]
  /\ held \in [Threads -> Nat]
  /\ kills \in [Threads -> Nat]
  /\ fault \in [Threads -> SUBSET Faults]

TypeOK ==
  /\ pc \in [Threads -> PC]
  /\ sessions \subseteq Threads
  /\ threads \subseteq Threads
  /\ subscribed \subseteq Threads
  /\ mem \in [Threads -> {"none", "live", "freed"}]
  /\ queue \in [Threads -> Seq(Message)]
  /\ blocked \in [Threads -> BOOLEAN]
  /\ killed \in [Threads -> BOOLEAN]
  /\ sendOnly \in [Threads -> BOOLEAN]
  /\ events \in [Threads -> SUBSET {"in", "out"}]
  /\ target \in [Threads -> Threads]
  /\ todo \in [Threads -> SUBSET Threads]
  /\ after \in [Threads -> AfterLog]
  /\ missed \in [Threads -> BOOLEAN]
  /\ MsgTypeOK
  /\ sent \in 0 .. MaxRequests
  /\ late \in [Threads -> 0 .. 2]
  /\ broken \in [Threads -> BOOLEAN]

Init ==
  /\ pc = [t \in Threads |-> "none"]
  /\ sessions = {} /\ threads = {} /\ subscribed = {}
  /\ mem = [t \in Threads |-> "none"]
  /\ queue = [t \in Threads |-> <<>>]
  /\ blocked = [t \in Threads |-> FALSE]
  /\ killed = [t \in Threads |-> FALSE]
  /\ killMsg = [t \in Threads |-> 0]
  /\ freed = [t \in Threads |-> {}]
  /\ nth = [t \in Threads |-> 0]
  /\ held = [t \in Threads |-> 0]
  /\ kills = [t \in Threads |-> 0]
  /\ fault = [t \in Threads |-> {}]
  /\ sendOnly = [t \in Threads |-> FALSE]
  /\ events = [t \in Threads |-> {}]
  /\ target = [t \in Threads |-> t]
  /\ todo = [t \in Threads |-> {}]
  /\ after = [t \in Threads |-> "insert"]
  /\ missed = [t \in Threads |-> FALSE]
  /\ sent = 0
  /\ late = [t \in Threads |-> 0]
  /\ broken = [t \in Threads |-> FALSE]

Goto(t, to) == pc' = [pc EXCEPT ![t] = to]
Push(t, m) == queue' = [queue EXCEPT ![t] = Append(@, m)]

\* mbb_log, then the step named next.
LogThen(t, next) ==
  /\ Goto(t, "logfind")
  /\ after' = [after EXCEPT ![t] = next]

\* Some thread reads a table, or waits to write it; readers give way to writers.
At(labels) == \E t \in Threads : pc[t] \in labels

MayReadSessions == ~At({"new", "quit"})
MayWriteSessions == ~At({"killmark", "killtest", "killfree", "killset"})
MayReadThreads == ~At({"insert", "remove"})
MayWriteThreads == ~At({"raise"})
MayReadLog == ~At({"unregister"})
MayWriteLog == ~At({"log"})

-----------------------------------------------------------------------------
(* A connection begins: mbb_thread_client and mbb_thread_xml_client.       *)

Connect(t) ==
  /\ pc[t] = "none"
  /\ Goto(t, "new")
  /\ UNCHANGED <<tables, mem, queue, blocked, kill, sendOnly, events, target, todo, after, missed, hist>>

SessionNew(t) ==
  /\ pc[t] = "new"
  /\ MayWriteSessions
  /\ sessions' = sessions \cup {t}
  /\ LogThen(t, "insert")
  /\ UNCHANGED <<threads, subscribed, mem, queue, blocked, kill, sendOnly, events, target, todo, missed, hist>>

\* The queue and the signaller are made, blocked, before others can find them.
ThreadInsert(t) ==
  /\ pc[t] = "insert"
  /\ MayWriteThreads
  /\ mem' = [mem EXCEPT ![t] = "live"]
  /\ blocked' = [blocked EXCEPT ![t] = TRUE]
  /\ threads' = threads \cup {t}
  /\ Goto(t, "top")
  /\ UNCHANGED <<sessions, subscribed, queue, kill, sendOnly, events, target, todo, after, missed, hist>>

-----------------------------------------------------------------------------
(* The loop, xml_client_loop.                                              *)

\* A kill is noticed once.
Notices(t) == killed[t] /\ ~sendOnly[t]

\* Mutant: input is polled for even when only sending is left.
WantsAnyInput(t) == TRUE

\* POLLIN, as long as the loop does more than send.
WantsInput(t) == ~sendOnly[t]

\* Mutant: POLLOUT is asked for only at the end.
WantsOutputLast(t) == sendOnly[t] /\ queue'[t] # <<>>

\* POLLOUT, when something is queued.
WantsOutput(t) == queue'[t] # <<>>

\* Mutant: only sending is left, and the loop does not send.
LeavesAtOnce(t) == sendOnly[t]

\* Everything is sent and there will be nothing more.
Leaves(t) == sendOnly[t] /\ queue'[t] = <<>>

\* The look at the queue: choose the events, or leave.
LookAtQueue(t) ==
  /\ events' = [events EXCEPT ![t] = (IF WantsInput(t) THEN {"in"} ELSE {})
                                      \cup (IF WantsOutput(t) THEN {"out"} ELSE {})]
  /\ Goto(t, IF Leaves(t) THEN "remove" ELSE "unblock")

\* The top of the loop up to signaller_unblock.
LoopTop(t) ==
  /\ pc[t] = "top"
  /\ ~Notices(t)
  /\ UNCHANGED queue
  /\ LookAtQueue(t)
  /\ UNCHANGED <<tables, mem, blocked, kill, sendOnly, target, todo, after, missed, hist>>

\* The same for a killed session: ss.kill_msg is an argument of push_kill_message ...
NoticeKill(t) ==
  /\ pc[t] = "top"
  /\ Notices(t)
  /\ held' = [held EXCEPT ![t] = killMsg[t]]
  /\ Goto(t, "pushkill")
  /\ UNCHANGED <<tables, mem, queue, blocked, killed, killMsg, freed, nth, kills, fault, sendOnly,
                 events, target, todo, after, missed, hist>>

\* Message m of session u has been freed.
IsFreed(u, m) == \E p \in freed[u] : p[1] = m

\* ... which reads it, with no lock held, and queues <kill/>; no more reading.
PushKill(t) ==
  /\ pc[t] = "pushkill"
  /\ fault' = [fault EXCEPT ![t] = @ \cup (IF IsFreed(t, held[t]) THEN {"readfreed"} ELSE {})]
  /\ held' = [held EXCEPT ![t] = 0]
  /\ Push(t, "kill")
  /\ sendOnly' = [sendOnly EXCEPT ![t] = TRUE]
  /\ LookAtQueue(t)
  /\ UNCHANGED <<tables, mem, blocked, killed, killMsg, freed, nth, kills, target, todo, after,
                 missed, hist>>

\* signaller_unblock: from here on a raise sends the signal.
Unblock(t) ==
  /\ pc[t] = "unblock"
  /\ blocked' = [blocked EXCEPT ![t] = FALSE]
  /\ Goto(t, "prepoll")
  /\ UNCHANGED <<tables, mem, queue, kill, sendOnly, events, target, todo, after, missed, hist>>

\* poll(): a signal that comes before the call sleeps interrupts nothing.
EnterPoll(t) ==
  /\ pc[t] = "prepoll"
  /\ Goto(t, "asleep")
  /\ UNCHANGED <<tables, mem, queue, blocked, kill, sendOnly, events, target, todo, after, missed, hist>>

\* Outside world: input (or the end of it) arrives, the socket is writable.
\* signaller_block follows at once.
PollReturns(t) ==
  /\ pc[t] = "asleep"
  /\ \E rev \in SUBSET events[t] \ {{}} :
       /\ events' = [events EXCEPT ![t] = rev]
       /\ Goto(t, IF "in" \in rev THEN "read" ELSE "write")
       /\ late' = [late EXCEPT ![t] = IF "in" \in rev /\ sendOnly[t] /\ @ < 2 THEN @ + 1 ELSE @]
  /\ blocked' = [blocked EXCEPT ![t] = TRUE]
  /\ missed' = [missed EXCEPT ![t] = FALSE]
  /\ UNCHANGED <<tables, mem, queue, kill, sendOnly, target, todo, after, sent, broken>>

\* EINTR: block the signaller, back to the top.
PollInterrupted(t) ==
  /\ pc[t] = "interrupted"
  /\ blocked' = [blocked EXCEPT ![t] = TRUE]
  /\ events' = [events EXCEPT ![t] = {}]
  /\ missed' = [missed EXCEPT ![t] = FALSE]
  /\ Goto(t, "top")
  /\ UNCHANGED <<tables, mem, queue, kill, sendOnly, target, todo, after, hist>>

\* Where the loop goes on after its input was dealt with.
AfterRead(t) == IF "out" \in events[t] THEN "write" ELSE "top"

\* read() gives nothing more: end of file or an error.
ReadEnds(t) ==
  /\ pc[t] = "read"
  /\ broken' = [broken EXCEPT ![t] = TRUE]
  /\ Goto(t, "remove")
  /\ UNCHANGED <<tables, mem, queue, blocked, kill, sendOnly, events, target, todo, after, missed, sent, late>>

\* Part of a document: the parser wants more.
ReadPart(t) ==
  /\ pc[t] = "read"
  /\ Goto(t, AfterRead(t))
  /\ UNCHANGED <<tables, mem, queue, blocked, kill, sendOnly, events, target, todo, after, missed, hist>>

\* Not XML: log it ...
ReadInvalid(t) ==
  /\ pc[t] = "read"
  /\ LogThen(t, "invalid")
  /\ UNCHANGED <<tables, mem, queue, blocked, kill, sendOnly, events, target, todo, missed, hist>>

\* ... and answer, then only send; "continue" skips POLLOUT.
AnswerInvalid(t) ==
  /\ pc[t] = "invalid"
  /\ Push(t, "response")
  /\ sendOnly' = [sendOnly EXCEPT ![t] = TRUE]
  /\ events' = [events EXCEPT ![t] = {}]
  /\ Goto(t, "top")
  /\ UNCHANGED <<tables, mem, blocked, kill, target, todo, after, missed, hist>>

\* A document that process_xml answers by itself: a failed authentication, a
\* request before authentication, an unknown query.
ReadRefused(t) ==
  /\ pc[t] = "read"
  /\ sent < MaxRequests
  /\ sent' = sent + 1
  /\ Push(t, "response")
  /\ Goto(t, AfterRead(t))
  /\ UNCHANGED <<tables, mem, blocked, kill, sendOnly, events, target, todo, after, missed, late, broken>>

\* A document that asks for a method.
ReadRequest(t) ==
  /\ pc[t] = "read"
  /\ sent < MaxRequests
  /\ sent' = sent + 1
  /\ LogThen(t, "exec")
  /\ UNCHANGED <<tables, mem, queue, blocked, kill, sendOnly, events, target, todo, missed, late, broken>>

\* mbb_msg_queue_pop: the head is written, all of it or a part.
WriteAll(t) ==
  /\ pc[t] = "write"
  /\ queue[t] # <<>>
  /\ queue' = [queue EXCEPT ![t] = Tail(@)]
  /\ events' = [events EXCEPT ![t] = {}]
  /\ Goto(t, "top")
  /\ UNCHANGED <<tables, mem, blocked, kill, sendOnly, target, todo, after, missed, hist>>

WritePart(t) ==
  /\ pc[t] = "write"
  /\ events' = [events EXCEPT ![t] = {}]
  /\ Goto(t, "top")
  /\ UNCHANGED <<tables, mem, queue, blocked, kill, sendOnly, target, todo, after, missed, hist>>

WriteFails(t) ==
  /\ pc[t] = "write"
  /\ broken' = [broken EXCEPT ![t] = TRUE]
  /\ Goto(t, "remove")
  /\ UNCHANGED <<tables, mem, queue, blocked, kill, sendOnly, events, target, todo, after, missed, sent, late>>

-----------------------------------------------------------------------------
(* Requests.  Each begins with "call ..." in the log (mbb_func_call) and    *)
(* ends with its own answer.                                               *)

\* log_register, or log levels set to something: enter the log table.
Subscribe(t) ==
  /\ pc[t] = "exec" /\ "subscribe" \in Methods
  /\ MayWriteLog
  /\ subscribed' = subscribed \cup {t}
  /\ Goto(t, "respond")
  /\ UNCHANGED <<sessions, threads, mem, queue, blocked, kill, sendOnly, events, target, todo, after, missed, hist>>

\* log_unregister, or no level left.
Unsubscribe(t) ==
  /\ pc[t] = "exec" /\ "unsubscribe" \in Methods
  /\ MayWriteLog
  /\ subscribed' = subscribed \ {t}
  /\ Goto(t, "respond")
  /\ UNCHANGED <<sessions, threads, mem, queue, blocked, kill, sendOnly, events, target, todo, after, missed, hist>>

\* A method that has nothing to do with sessions, or a call that is missed.
OtherMethod(t) ==
  /\ pc[t] = "exec" /\ "other" \in Methods
  /\ Goto(t, "respond")
  /\ UNCHANGED <<tables, mem, queue, blocked, kill, sendOnly, events, target, todo, after, missed, hist>>

\* A method that fails: mbb_func_call logs it.
MethodFails(t) ==
  /\ pc[t] = "exec" /\ "other" \in Methods
  /\ LogThen(t, "respond")
  /\ UNCHANGED <<tables, mem, queue, blocked, kill, sendOnly, events, target, todo, missed, hist>>

KillSession(t) ==
  /\ pc[t] = "exec" /\ "kill" \in Methods
  /\ \E u \in Threads : target' = [target EXCEPT ![t] = u]
  /\ Goto(t, "killfind")
  /\ UNCHANGED <<tables, mem, queue, blocked, kill, sendOnly, events, todo, after, missed, hist>>

\* kill_session returns; at says where the other threads are.
KillDone(t, at) ==
  /\ pc' = [at EXCEPT ![t] = "respond"]
  /\ target' = [target EXCEPT ![t] = t]

\* kill_session under the session lock: look the sid up (an unknown session
\* makes the method fail) ...
KillFind(t) ==
  /\ pc[t] = "killfind"
  /\ MayReadSessions
  /\ IF target[t] \in sessions
       THEN Goto(t, "killmark") /\ UNCHANGED <<target, after>>
       ELSE LogThen(t, "respond") /\ target' = [target EXCEPT ![t] = t]
  /\ UNCHANGED <<tables, mem, queue, blocked, kill, sendOnly, events, todo, missed, hist>>

\* ... and mark it.  The rest is the message that says who killed it: only the
\* reader lock is held, which other killers of the same session hold too, and the
\* session itself takes no lock to read it.
KillMark(t) ==
  /\ pc[t] = "killmark"
  /\ killed' = [killed EXCEPT ![target[t]] = TRUE]
  /\ kills' = [kills EXCEPT ![target[t]] = @ + 1]
  /\ nth' = [nth EXCEPT ![t] = kills[target[t]] + 1]
  /\ Goto(t, "killtest")
  /\ UNCHANGED <<tables, mem, queue, blocked, killMsg, freed, held, fault, sendOnly, events, target,
                 todo, after, missed, hist>>

\* if (ss->kill_msg != NULL)
KillTest(t) ==
  /\ pc[t] = "killtest"
  /\ Goto(t, IF killMsg[target[t]] = 0 THEN "killset" ELSE "killfree")
  /\ UNCHANGED <<tables, mem, queue, blocked, kill, sendOnly, events, target, todo, after, missed, hist>>

\* g_free(ss->kill_msg): whichever message is there by now.
KillFree(t) ==
  /\ pc[t] = "killfree"
  /\ LET u == target[t]
         m == killMsg[u]
     IN  /\ fault' = [fault EXCEPT ![u] = @ \cup (IF IsFreed(u, m) THEN {"freedtwice"} ELSE {})]
         /\ freed' = [freed EXCEPT ![u] = @ \cup {<<m, nth[t]>>}]
  /\ Goto(t, "killset")
  /\ UNCHANGED <<tables, mem, queue, blocked, killed, killMsg, nth, held, kills, sendOnly, events,
                 target, todo, after, missed, hist>>

\* ss->kill_msg = g_strdup_printf(...), and the lock is let go.
KillSet(t) ==
  /\ pc[t] = "killset"
  /\ killMsg' = [killMsg EXCEPT ![target[t]] = nth[t]]
  /\ nth' = [nth EXCEPT ![t] = 0]
  /\ Goto(t, "raisefind")
  /\ UNCHANGED <<tables, mem, queue, blocked, killed, freed, held, kills, fault, sendOnly, events,
                 target, todo, after, missed, hist>>

\* mbb_thread_raise under the thread lock: find the thread ...
RaiseFind(t) ==
  /\ pc[t] = "raisefind"
  /\ MayReadThreads
  /\ IF target[t] \in threads
       THEN Goto(t, "raise") /\ UNCHANGED target
       ELSE KillDone(t, pc)
  /\ UNCHANGED <<tables, mem, queue, blocked, kill, sendOnly, events, todo, after, missed, hist>>

\* Mutant: the signaller is still blocked while the thread sleeps.
RaisedNobody(u) == pc[u]

\* Where signaller_raise leaves u: only a thread asleep in poll notices.
Raised(u) == IF ~blocked[u] /\ pc[u] = "asleep" THEN "interrupted" ELSE pc[u]

\* The signal of a raise that comes after u has looked and before it sleeps: not
\* sent, or sent for nothing.
Misses(u) == missed' = [missed EXCEPT ![u] = @ \/ pc[u] \in {"unblock", "prepoll"}]

\* ... and signal it.
Raise(t) ==
  /\ pc[t] = "raise"
  /\ KillDone(t, [pc EXCEPT ![target[t]] = Raised(target[t])])
  /\ Misses(target[t])
  /\ UNCHANGED <<tables, mem, queue, blocked, kill, sendOnly, events, todo, after, hist>>

\* mbb_log_push_all under the log lock.  A subscriber does not get its own
\* messages (no level "self").
LogFind(t) ==
  /\ pc[t] = "logfind"
  /\ MayReadLog
  /\ todo' = [todo EXCEPT ![t] = subscribed \ {t}]
  /\ Goto(t, "log")
  /\ UNCHANGED <<tables, mem, queue, blocked, kill, sendOnly, events, target, after, missed, hist>>

\* mbb_log_push: a message in the subscriber's queue, then signaller_raise.
LogPush(t) ==
  /\ pc[t] = "log"
  /\ \E u \in todo[t] :
       /\ Push(u, "log")
       /\ todo' = [todo EXCEPT ![t] = @ \ {u}]
       /\ pc' = [pc EXCEPT ![u] = Raised(u)]
       /\ Misses(u)
  /\ UNCHANGED <<tables, mem, blocked, kill, sendOnly, events, target, after, hist>>

\* The message is out.
LogEnd(t) ==
  /\ pc[t] = "log"
  /\ todo[t] = {}
  /\ Goto(t, after[t])
  /\ after' = [after EXCEPT ![t] = "insert"]
  /\ UNCHANGED <<tables, mem, queue, blocked, kill, sendOnly, events, target, todo, missed, hist>>

\* The answer goes to the thread's own queue.
Respond(t) ==
  /\ pc[t] = "respond"
  /\ Push(t, "response")
  /\ Goto(t, AfterRead(t))
  /\ UNCHANGED <<tables, mem, blocked, kill, sendOnly, events, target, todo, after, missed, hist>>

-----------------------------------------------------------------------------
(* The end of a connection: out of every table before anything is freed.   *)
(* What a step frees, or takes out of scope, is put back to its first value. *)

ThreadRemove(t) ==
  /\ pc[t] = "remove"
  /\ MayWriteThreads
  /\ threads' = threads \ {t}
  /\ sendOnly' = [sendOnly EXCEPT ![t] = FALSE]
  /\ events' = [events EXCEPT ![t] = {}]
  /\ Goto(t, "unregister")
  /\ UNCHANGED <<sessions, subscribed, mem, queue, blocked, kill, target, todo, after, missed, hist>>

\* Mutant: mbb_log_unregister is forgotten.
LogUnregisterForgotten(t) ==
  /\ pc[t] = "unregister"
  /\ Goto(t, "free")
  /\ UNCHANGED <<tables, mem, queue, blocked, kill, sendOnly, events, target, todo, after, missed, hist>>

LogUnregister(t) ==
  /\ pc[t] = "unregister"
  /\ MayWriteLog
  /\ subscribed' = subscribed \ {t}
  /\ Goto(t, "free")
  /\ UNCHANGED <<sessions, threads, mem, queue, blocked, kill, sendOnly, events, target, todo, after, missed, hist>>

FreeQueue(t) ==
  /\ pc[t] = "free"
  /\ mem' = [mem EXCEPT ![t] = "freed"]
  /\ queue' = [queue EXCEPT ![t] = <<>>]
  /\ blocked' = [blocked EXCEPT ![t] = FALSE]
  /\ LogThen(t, "quit")
  /\ UNCHANGED <<tables, kill, sendOnly, events, target, todo, missed, hist>>

SessionQuit(t) ==
  /\ pc[t] = "quit"
  /\ MayWriteSessions
  /\ sessions' = sessions \ {t}
  /\ killed' = [killed EXCEPT ![t] = FALSE]
  /\ killMsg' = [killMsg EXCEPT ![t] = 0]
  /\ freed' = [freed EXCEPT ![t] = {}]
  /\ kills' = [kills EXCEPT ![t] = 0]
  /\ fault' = [fault EXCEPT ![t] = {}]
  /\ late' = [late EXCEPT ![t] = 0]
  /\ broken' = [broken EXCEPT ![t] = FALSE]
  /\ Goto(t, "gone")
  /\ UNCHANGED <<threads, subscribed, mem, queue, blocked, nth, held, sendOnly, events, target, todo,
                 after, missed, sent>>

-----------------------------------------------------------------------------
(* The steps a thread takes by itself; Connect and PollReturns are the      *)
(* client's doing.                                                         *)
ThreadStep(t) ==
  \/ SessionNew(t) \/ ThreadInsert(t) \/ LoopTop(t) \/ NoticeKill(t) \/ PushKill(t)
  \/ Unblock(t) \/ EnterPoll(t) \/ PollInterrupted(t)
  \/ ReadEnds(t) \/ ReadPart(t) \/ ReadInvalid(t) \/ AnswerInvalid(t) \/ ReadRefused(t) \/ ReadRequest(t)
  \/ WriteAll(t) \/ WritePart(t) \/ WriteFails(t)
  \/ Subscribe(t) \/ Unsubscribe(t) \/ OtherMethod(t) \/ MethodFails(t)
  \/ KillSession(t) \/ KillFind(t) \/ KillMark(t) \/ KillTest(t) \/ KillFree(t) \/ KillSet(t)
  \/ RaiseFind(t) \/ Raise(t)
  \/ LogFind(t) \/ LogPush(t) \/ LogEnd(t) \/ Respond(t)
  \/ ThreadRemove(t) \/ LogUnregister(t) \/ FreeQueue(t) \/ SessionQuit(t)

Finished == \A t \in Threads : pc[t] = "gone"

Next ==
  \/ \E t \in Threads : Connect(t) \/ PollReturns(t) \/ ThreadStep(t)
  \/ Finished /\ UNCHANGED vars

Spec == Init /\ [][Next]_vars

(***************************************************************************)
(* Fairness.  Threads are scheduled, and nothing more: a client may stay    *)
(* silent, or stop reading, for ever, so that poll never returns by itself. *)
(***************************************************************************)
Fairness == \A t \in Threads : WF_vars(ThreadStep(t))

FairSpec == Spec /\ Fairness

-----------------------------------------------------------------------------
(* Properties.                                                             *)

\* Nobody uses what another thread has freed: a raised signaller, a queue a log
\* message is pushed to, a session being killed (mbb_thread_raise, mbb_log_push
\* and kill_session against the end of mbb_thread_xml_client and mbb_session_quit).
\* The message of a kill is the exception, and only for a session that is killed
\* more than once: the loop reads it freed only if a second kill has come, it is
\* freed twice only if a third has, and mbb_session_quit never frees it again.
NoFreedUse ==
  \A t \in Threads :
    /\ pc[t] = "raise" => mem[target[t]] = "live"
    /\ pc[t] = "log" => \A u \in todo[t] : mem[u] = "live"
    /\ pc[t] \in {"killmark", "killtest", "killfree", "killset"} => target[t] \in sessions
    /\ "readfreed" \in fault[t] => kills[t] >= 2
    /\ "freedtwice" \in fault[t] => kills[t] >= 3
    /\ pc[t] = "quit" /\ MayWriteSessions => ~IsFreed(t, killMsg[t])

\* A session the daemon ends by itself has been sent all its answers and its
\* kill message; only log messages that came in too late are dropped.
NothingUnsent ==
  \A t \in Threads :
    pc[t] \in {"remove", "unregister", "free"} /\ ~broken[t]
      => \A i \in 1 .. Len(queue[t]) : queue[t][i] = "log"

\* After its kill message is queued a session reads at most once more, so no
\* stream of requests keeps it alive (xml_client_loop computes pfd.events before
\* it looks at killed).
OneReadAfterKill == \A t \in Threads : late[t] <= 1

\* A killed session notices: it queues its kill message and reads no more, or it
\* has ended by itself, whatever its client does or does not do.  The one way to
\* miss the kill is a signal that comes after the loop has looked at killed and
\* before poll sleeps; such a session sleeps on until something else wakes it.
KillNoticed ==
  \A t \in Threads : killed[t] ~> (sendOnly[t] \/ pc[t] \in {"remove", "gone"} \/ missed[t])

\* A message queued for a client is sent, its connection ends, or the thread
\* sleeps in a poll that will return as soon as the client takes more; with the
\* same exception for a log message (mbb_log_push and xml_client_loop).
QueueWatched ==
  \A t \in Threads :
    queue[t] # <<>> ~> (queue[t] = <<>> \/ missed[t]
                         \/ (pc[t] = "asleep" /\ "out" \in events[t]))
=============================================================================
