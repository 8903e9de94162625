---------------------------- MODULE ClientProofs ----------------------------
(***************************************************************************)
(* Proofs about Client: its safety properties hold for every set of client *)
(* threads and every number of requests.                                   *)
(***************************************************************************)
EXTENDS Client, TLAPS

(* The inductive invariant, in parts.                                      *)

LoopPC == {"top", "pushkill", "unblock", "prepoll", "asleep", "interrupted", "read", "exec",
           "killfind", "killmark", "killtest", "killfree", "killset", "raisefind", "raise",
           "respond", "write", "invalid"}

\* t is inside xml_client_loop, the log messages of its requests included.
InLoop(t) ==
  \/ pc[t] \in LoopPC
  \/ pc[t] \in {"logfind", "log"} /\ after[t] \in {"exec", "respond", "invalid"}

\* t has left the thread table and has not yet left the session table.
Ending(t) ==
  \/ pc[t] \in {"unregister", "free", "quit"}
  \/ pc[t] \in {"logfind", "log"} /\ after[t] = "quit"

\* What a thread's place in its life says of the tables and of its memory.
TablesInv ==
  \A t \in Threads :
    /\ t \in threads <=> InLoop(t) \/ pc[t] = "remove"
    /\ t \in sessions <=> pc[t] \notin {"none", "new", "gone"}
    /\ t \in subscribed => InLoop(t) \/ pc[t] \in {"remove", "unregister"}
    /\ mem[t] = "live" <=> InLoop(t) \/ pc[t] \in {"remove", "unregister", "free"}

\* Places in kill_session after the session is marked.
Killing == {"killtest", "killfree", "killset"}

\* A reader's find stays in its table for as long as the lock is held.
HoldersInv ==
  \A t \in Threads :
    /\ pc[t] = "raise" => target[t] \in threads
    /\ pc[t] = "log" => todo[t] \subseteq subscribed
    /\ pc[t] \in {"killmark"} \cup Killing => target[t] \in sessions

\* A kill has its number, no message has that number before the kill makes it, and
\* a kill frees at most one message, never its own.
KillerOK(t) ==
  /\ nth[t] \in 1 .. kills[target[t]]
  /\ nth[t] # killMsg[target[t]]
  /\ \A p \in freed[target[t]] : p[1] # nth[t]
  /\ pc[t] # "killset" => \A p \in freed[target[t]] : p[2] # nth[t]
  /\ pc[t] = "killfree" => killMsg[target[t]] # 0

KillersInv == \A t \in Threads : pc[t] \in Killing => KillerOK(t)

\* Two kills of a session have two numbers.
DistinctInv ==
  \A t, u \in Threads :
    pc[t] \in Killing /\ pc[u] \in Killing /\ target[u] = target[t] /\ u # t => nth[u] # nth[t]

\* The messages a session has had, and what may have happened to them.
MessageOK(u) ==
  /\ killMsg[u] <= kills[u]
  /\ \A p \in freed[u] : p[1] \in 1 .. kills[u] /\ p[2] \in 1 .. kills[u] /\ p[1] # p[2]
  /\ "readfreed" \in fault[u] => kills[u] >= 2
  /\ "freedtwice" \in fault[u] => kills[u] >= 3

MessagesInv == \A u \in Threads : MessageOK(u)

\* A message that is freed and not yet replaced has a killer about to replace it.
ReplacedInv ==
  \A u \in Threads :
    IsFreed(u, killMsg[u]) => \E t \in Threads : pc[t] = "killset" /\ target[t] = u

\* A session that has read once more is one that only sends, and polls for
\* nothing else.
LateInv ==
  \A t \in Threads :
    /\ late[t] <= 1
    /\ late[t] = 1 => \/ (InLoop(t) \/ pc[t] = "remove") /\ sendOnly[t]
                      \/ Ending(t)
    /\ late[t] = 1 /\ pc[t] \in {"unblock", "prepoll", "asleep"} => "in" \notin events[t]

KillInv == KillersInv /\ DistinctInv /\ MessagesInv /\ ReplacedInv

IInv == TypeOK /\ TablesInv /\ HoldersInv /\ NothingUnsent /\ LateInv /\ KillInv

-----------------------------------------------------------------------------

LEMMA MsgTypeStep == TypeOK /\ [Next]_vars => MsgTypeOK'
<1> SUFFICES ASSUME TypeOK, [Next]_vars PROVE MsgTypeOK'
  OBVIOUS
<1>t. MsgTypeOK /\ pc \in [Threads -> PC] /\ target \in [Threads -> Threads]
  BY DEF TypeOK
<1>1. ASSUME NEW t \in Threads, Connect(t) PROVE MsgTypeOK'
  BY <1>1, <1>t DEF Connect, kill, msgs, MsgTypeOK
<1>2. ASSUME NEW t \in Threads, PollReturns(t) PROVE MsgTypeOK'
  BY <1>2, <1>t DEF PollReturns, kill, msgs, MsgTypeOK
<1>3. ASSUME NEW t \in Threads, SessionNew(t) PROVE MsgTypeOK'
  BY <1>3, <1>t DEF SessionNew, kill, msgs, MsgTypeOK
<1>4. ASSUME NEW t \in Threads, ThreadInsert(t) PROVE MsgTypeOK'
  BY <1>4, <1>t DEF ThreadInsert, kill, msgs, MsgTypeOK
<1>5. ASSUME NEW t \in Threads, LoopTop(t) PROVE MsgTypeOK'
  BY <1>5, <1>t DEF LoopTop, kill, msgs, MsgTypeOK
<1>7. ASSUME NEW t \in Threads, Unblock(t) PROVE MsgTypeOK'
  BY <1>7, <1>t DEF Unblock, kill, msgs, MsgTypeOK
<1>8. ASSUME NEW t \in Threads, EnterPoll(t) PROVE MsgTypeOK'
  BY <1>8, <1>t DEF EnterPoll, kill, msgs, MsgTypeOK
<1>9. ASSUME NEW t \in Threads, PollInterrupted(t) PROVE MsgTypeOK'
  BY <1>9, <1>t DEF PollInterrupted, kill, msgs, MsgTypeOK
<1>10. ASSUME NEW t \in Threads, ReadEnds(t) PROVE MsgTypeOK'
  BY <1>10, <1>t DEF ReadEnds, kill, msgs, MsgTypeOK
<1>11. ASSUME NEW t \in Threads, ReadPart(t) PROVE MsgTypeOK'
  BY <1>11, <1>t DEF ReadPart, kill, msgs, MsgTypeOK
<1>12. ASSUME NEW t \in Threads, ReadInvalid(t) PROVE MsgTypeOK'
  BY <1>12, <1>t DEF ReadInvalid, kill, msgs, MsgTypeOK
<1>13. ASSUME NEW t \in Threads, AnswerInvalid(t) PROVE MsgTypeOK'
  BY <1>13, <1>t DEF AnswerInvalid, kill, msgs, MsgTypeOK
<1>14. ASSUME NEW t \in Threads, ReadRefused(t) PROVE MsgTypeOK'
  BY <1>14, <1>t DEF ReadRefused, kill, msgs, MsgTypeOK
<1>15. ASSUME NEW t \in Threads, ReadRequest(t) PROVE MsgTypeOK'
  BY <1>15, <1>t DEF ReadRequest, kill, msgs, MsgTypeOK
<1>16. ASSUME NEW t \in Threads, WriteAll(t) PROVE MsgTypeOK'
  BY <1>16, <1>t DEF WriteAll, kill, msgs, MsgTypeOK
<1>17. ASSUME NEW t \in Threads, WritePart(t) PROVE MsgTypeOK'
  BY <1>17, <1>t DEF WritePart, kill, msgs, MsgTypeOK
<1>18. ASSUME NEW t \in Threads, WriteFails(t) PROVE MsgTypeOK'
  BY <1>18, <1>t DEF WriteFails, kill, msgs, MsgTypeOK
<1>19. ASSUME NEW t \in Threads, Subscribe(t) PROVE MsgTypeOK'
  BY <1>19, <1>t DEF Subscribe, kill, msgs, MsgTypeOK
<1>20. ASSUME NEW t \in Threads, Unsubscribe(t) PROVE MsgTypeOK'
  BY <1>20, <1>t DEF Unsubscribe, kill, msgs, MsgTypeOK
<1>21. ASSUME NEW t \in Threads, OtherMethod(t) PROVE MsgTypeOK'
  BY <1>21, <1>t DEF OtherMethod, kill, msgs, MsgTypeOK
<1>22. ASSUME NEW t \in Threads, MethodFails(t) PROVE MsgTypeOK'
  BY <1>22, <1>t DEF MethodFails, kill, msgs, MsgTypeOK
<1>23. ASSUME NEW t \in Threads, KillSession(t) PROVE MsgTypeOK'
  BY <1>23, <1>t DEF KillSession, kill, msgs, MsgTypeOK
<1>24. ASSUME NEW t \in Threads, KillFind(t) PROVE MsgTypeOK'
  BY <1>24, <1>t DEF KillFind, kill, msgs, MsgTypeOK
<1>25. ASSUME NEW t \in Threads, RaiseFind(t) PROVE MsgTypeOK'
  BY <1>25, <1>t DEF RaiseFind, kill, msgs, MsgTypeOK
<1>26. ASSUME NEW t \in Threads, Raise(t) PROVE MsgTypeOK'
  BY <1>26, <1>t DEF Raise, kill, msgs, MsgTypeOK
<1>27. ASSUME NEW t \in Threads, LogFind(t) PROVE MsgTypeOK'
  BY <1>27, <1>t DEF LogFind, kill, msgs, MsgTypeOK
<1>28. ASSUME NEW t \in Threads, LogPush(t) PROVE MsgTypeOK'
  BY <1>28, <1>t DEF LogPush, kill, msgs, MsgTypeOK
<1>29. ASSUME NEW t \in Threads, LogEnd(t) PROVE MsgTypeOK'
  BY <1>29, <1>t DEF LogEnd, kill, msgs, MsgTypeOK
<1>30. ASSUME NEW t \in Threads, Respond(t) PROVE MsgTypeOK'
  BY <1>30, <1>t DEF Respond, kill, msgs, MsgTypeOK
<1>31. ASSUME NEW t \in Threads, ThreadRemove(t) PROVE MsgTypeOK'
  BY <1>31, <1>t DEF ThreadRemove, kill, msgs, MsgTypeOK
<1>32. ASSUME NEW t \in Threads, LogUnregister(t) PROVE MsgTypeOK'
  BY <1>32, <1>t DEF LogUnregister, kill, msgs, MsgTypeOK
<1>33. ASSUME NEW t \in Threads, FreeQueue(t) PROVE MsgTypeOK'
  BY <1>33, <1>t DEF FreeQueue, kill, msgs, MsgTypeOK
<1>n. ASSUME NEW t \in Threads, NoticeKill(t) PROVE MsgTypeOK'
  BY <1>n, <1>t DEF NoticeKill, kill, msgs, MsgTypeOK
<1>m. ASSUME NEW t \in Threads, KillMark(t) PROVE MsgTypeOK'
  BY <1>m, <1>t DEF KillMark, kill, msgs, MsgTypeOK
<1>e. ASSUME NEW t \in Threads, KillTest(t) PROVE MsgTypeOK'
  BY <1>e, <1>t DEF KillTest, kill, msgs, MsgTypeOK
<1>s. ASSUME NEW t \in Threads, KillSet(t) PROVE MsgTypeOK'
  BY <1>s, <1>t DEF KillSet, kill, msgs, MsgTypeOK
<1>o. ASSUME NEW t \in Threads, SessionQuit(t) PROVE MsgTypeOK'
  BY <1>o, <1>t DEF SessionQuit, kill, msgs, MsgTypeOK
<1>f. ASSUME NEW t \in Threads, KillFree(t) PROVE MsgTypeOK'
  <2>1. target[t] \in Threads /\ <<killMsg[target[t]], nth[t]>> \in Nat \X Nat
    BY <1>t DEF MsgTypeOK
  <2>2. freed' \in [Threads -> SUBSET (Nat \X Nat)]
    BY <1>f, <1>t, <2>1 DEF KillFree, MsgTypeOK
  <2>3. fault' \in [Threads -> SUBSET Faults]
    BY <1>f, <1>t, <2>1 DEF KillFree, MsgTypeOK, Faults
  <2>q. QED
    BY <1>f, <1>t, <2>2, <2>3 DEF KillFree, MsgTypeOK
<1>p. ASSUME NEW t \in Threads, PushKill(t) PROVE MsgTypeOK'
  <2>1. fault' \in [Threads -> SUBSET Faults]
    BY <1>p, <1>t DEF PushKill, MsgTypeOK, Faults
  <2>q. QED
    BY <1>p, <1>t, <2>1 DEF PushKill, MsgTypeOK
<1>u. CASE UNCHANGED vars
  BY <1>u, <1>t DEF vars, MsgTypeOK
<1>q. QED
  BY <1>1, <1>2, <1>3, <1>4, <1>5, <1>7, <1>8, <1>9, <1>10, <1>11, <1>12, <1>13, <1>14, <1>15, <1>16, <1>17, <1>18, <1>19, <1>20, <1>21, <1>22, <1>23, <1>24, <1>25, <1>26, <1>27, <1>28, <1>29, <1>30, <1>31, <1>32, <1>33, <1>n, <1>m, <1>e, <1>s, <1>o,
     <1>f, <1>p, <1>u DEF Next, ThreadStep

LEMMA TypeStep == TypeOK /\ [Next]_vars => TypeOK'
<1> SUFFICES ASSUME TypeOK, [Next]_vars PROVE TypeOK'
  OBVIOUS
<1>m. MsgTypeOK'
  BY MsgTypeStep
<1> USE <1>m DEF TypeOK, PC, AfterLog, Message, kill
<1>1. ASSUME NEW t \in Threads, Connect(t) PROVE TypeOK'
  BY <1>1 DEF Connect, Goto, tables, hist
<1>2. ASSUME NEW t \in Threads, PollReturns(t) PROVE TypeOK'
  <2>1. PICK rev \in SUBSET events[t] \ {{}} :
          /\ events' = [events EXCEPT ![t] = rev]
          /\ Goto(t, IF "in" \in rev THEN "read" ELSE "write")
          /\ late' = [late EXCEPT ![t] = IF "in" \in rev /\ sendOnly[t] /\ @ < 2 THEN @ + 1 ELSE @]
    BY <1>2 DEF PollReturns
  <2>2. late[t] \in 0 .. 2 /\ (late[t] < 2 => late[t] + 1 \in 0 .. 2)
    OBVIOUS
  <2>3. late' \in [Threads -> 0 .. 2]
    BY <2>1, <2>2
  <2>4. events' \in [Threads -> SUBSET {"in", "out"}]
    BY <2>1
  <2>5. pc' \in [Threads -> PC]
    BY <2>1 DEF Goto
  <2>q. QED
    BY <1>2, <2>3, <2>4, <2>5 DEF PollReturns, tables
<1>3. ASSUME NEW t \in Threads, SessionNew(t) PROVE TypeOK'
  BY <1>3 DEF SessionNew, MayWriteSessions, At, LogThen, Goto, hist
<1>4. ASSUME NEW t \in Threads, ThreadInsert(t) PROVE TypeOK'
  BY <1>4 DEF ThreadInsert, MayWriteThreads, At, Goto, hist
<1>5. ASSUME NEW t \in Threads, LoopTop(t) PROVE TypeOK'
  BY <1>5 DEF LoopTop, LookAtQueue, Goto, tables, hist
<1>6. ASSUME NEW t \in Threads, Unblock(t) PROVE TypeOK'
  BY <1>6 DEF Unblock, Goto, tables, hist
<1>7. ASSUME NEW t \in Threads, EnterPoll(t) PROVE TypeOK'
  BY <1>7 DEF EnterPoll, Goto, tables, hist
<1>8. ASSUME NEW t \in Threads, PollInterrupted(t) PROVE TypeOK'
  BY <1>8 DEF PollInterrupted, Goto, tables, hist
<1>9. ASSUME NEW t \in Threads, ReadEnds(t) PROVE TypeOK'
  BY <1>9 DEF ReadEnds, Goto, tables
<1>10. ASSUME NEW t \in Threads, ReadPart(t) PROVE TypeOK'
  BY <1>10 DEF ReadPart, Goto, AfterRead, tables, hist
<1>11. ASSUME NEW t \in Threads, ReadInvalid(t) PROVE TypeOK'
  BY <1>11 DEF ReadInvalid, LogThen, Goto, tables, hist
<1>12. ASSUME NEW t \in Threads, AnswerInvalid(t) PROVE TypeOK'
  BY <1>12 DEF AnswerInvalid, Push, Goto, tables, hist
<1>13. ASSUME NEW t \in Threads, ReadRefused(t) PROVE TypeOK'
  BY <1>13, MaxRequestsAssumption DEF ReadRefused, Push, Goto, AfterRead, tables
<1>14. ASSUME NEW t \in Threads, ReadRequest(t) PROVE TypeOK'
  BY <1>14, MaxRequestsAssumption DEF ReadRequest, LogThen, Goto, tables
<1>15. ASSUME NEW t \in Threads, WriteAll(t) PROVE TypeOK'
  BY <1>15 DEF WriteAll, Goto, tables, hist
<1>16. ASSUME NEW t \in Threads, WritePart(t) PROVE TypeOK'
  BY <1>16 DEF WritePart, Goto, tables, hist
<1>17. ASSUME NEW t \in Threads, WriteFails(t) PROVE TypeOK'
  BY <1>17 DEF WriteFails, Goto, tables
<1>18. ASSUME NEW t \in Threads, Subscribe(t) PROVE TypeOK'
  BY <1>18 DEF Subscribe, MayWriteLog, At, Goto, hist
<1>19. ASSUME NEW t \in Threads, Unsubscribe(t) PROVE TypeOK'
  BY <1>19 DEF Unsubscribe, MayWriteLog, At, Goto, hist
<1>20. ASSUME NEW t \in Threads, OtherMethod(t) PROVE TypeOK'
  BY <1>20 DEF OtherMethod, Goto, tables, hist
<1>21. ASSUME NEW t \in Threads, MethodFails(t) PROVE TypeOK'
  BY <1>21 DEF MethodFails, LogThen, Goto, tables, hist
<1>22. ASSUME NEW t \in Threads, KillSession(t) PROVE TypeOK'
  BY <1>22 DEF KillSession, Goto, tables, hist
<1>23. ASSUME NEW t \in Threads, KillFind(t) PROVE TypeOK'
  <2>1. CASE target[t] \in sessions
    BY <1>23, <2>1 DEF KillFind, Goto, tables, hist
  <2>2. CASE target[t] \notin sessions
    <3>1. pc' = [pc EXCEPT ![t] = "logfind"] /\ after' = [after EXCEPT ![t] = "respond"]
          /\ target' = [target EXCEPT ![t] = t]
      BY <1>23, <2>2 DEF KillFind, LogThen, Goto
    <3>2. pc' \in [Threads -> PC] /\ after' \in [Threads -> AfterLog] /\ target' \in [Threads -> Threads]
      BY <3>1
    <3>q. QED
      BY <1>23, <3>2 DEF KillFind, tables, hist
  <2>q. QED
    BY <2>1, <2>2
<1>24. ASSUME NEW t \in Threads, KillMark(t) PROVE TypeOK'
  BY <1>24 DEF KillMark, Goto, tables, hist
<1>25. ASSUME NEW t \in Threads, RaiseFind(t) PROVE TypeOK'
  <2>1. CASE target[t] \in threads
    BY <1>25, <2>1 DEF RaiseFind, Goto, tables, hist
  <2>2. CASE target[t] \notin threads
    <3>1. pc' = [pc EXCEPT ![t] = "respond"] /\ target' = [target EXCEPT ![t] = t]
      BY <1>25, <2>2 DEF RaiseFind, KillDone
    <3>2. pc' \in [Threads -> PC] /\ target' \in [Threads -> Threads]
      BY <3>1
    <3>q. QED
      BY <1>25, <3>2 DEF RaiseFind, tables, hist
  <2>q. QED
    BY <2>1, <2>2
<1>26. ASSUME NEW t \in Threads, Raise(t) PROVE TypeOK'
  BY <1>26 DEF Raise, KillDone, Raised, Misses, tables, hist
<1>27. ASSUME NEW t \in Threads, LogFind(t) PROVE TypeOK'
  BY <1>27 DEF LogFind, Goto, tables, hist
<1>28. ASSUME NEW t \in Threads, LogPush(t) PROVE TypeOK'
  BY <1>28 DEF LogPush, Push, Raised, Misses, tables, hist
<1>29. ASSUME NEW t \in Threads, LogEnd(t) PROVE TypeOK'
  BY <1>29 DEF LogEnd, Goto, tables, hist
<1>30. ASSUME NEW t \in Threads, Respond(t) PROVE TypeOK'
  BY <1>30 DEF Respond, Push, Goto, AfterRead, tables, hist
<1>31. ASSUME NEW t \in Threads, ThreadRemove(t) PROVE TypeOK'
  BY <1>31 DEF ThreadRemove, MayWriteThreads, At, Goto, hist
<1>32. ASSUME NEW t \in Threads, LogUnregister(t) PROVE TypeOK'
  BY <1>32 DEF LogUnregister, MayWriteLog, At, Goto, hist
<1>33. ASSUME NEW t \in Threads, FreeQueue(t) PROVE TypeOK'
  BY <1>33 DEF FreeQueue, LogThen, Goto, tables, hist
<1>34. ASSUME NEW t \in Threads, SessionQuit(t) PROVE TypeOK'
  BY <1>34 DEF SessionQuit, MayWriteSessions, At, Goto
<1>36. ASSUME NEW t \in Threads, NoticeKill(t) PROVE TypeOK'
  BY <1>36 DEF NoticeKill, Goto, tables, hist
<1>37. ASSUME NEW t \in Threads, PushKill(t) PROVE TypeOK'
  <2>0. Append(queue[t], "kill") \in Seq(Message)
    BY "kill" \in Message, queue[t] \in Seq(Message)
  <2>1. queue' \in [Threads -> Seq(Message)]
    BY <1>37, <2>0 DEF PushKill, Push
  <2>2. events' \in [Threads -> SUBSET {"in", "out"}]
    BY <1>37 DEF PushKill, LookAtQueue
  <2>3. pc' \in [Threads -> PC]
    BY <1>37 DEF PushKill, LookAtQueue, Goto
  <2>4. sendOnly' \in [Threads -> BOOLEAN]
    BY <1>37 DEF PushKill
  <2>q. QED
    BY <1>37, <2>1, <2>2, <2>3, <2>4 DEF PushKill, tables, hist
<1>38. ASSUME NEW t \in Threads, KillTest(t) PROVE TypeOK'
  BY <1>38 DEF KillTest, Goto, tables, hist
<1>39. ASSUME NEW t \in Threads, KillFree(t) PROVE TypeOK'
  BY <1>39 DEF KillFree, Goto, tables, hist
<1>40. ASSUME NEW t \in Threads, KillSet(t) PROVE TypeOK'
  BY <1>40 DEF KillSet, Goto, tables, hist
<1>35. CASE UNCHANGED vars
  BY <1>35 DEF vars
<1>q. QED
  BY <1>1, <1>2, <1>3, <1>4, <1>5, <1>6, <1>7, <1>8, <1>9, <1>10, <1>11, <1>12, <1>13, <1>14, <1>15, <1>16, <1>17, <1>18, <1>19, <1>20, <1>21, <1>22, <1>23, <1>24, <1>25, <1>26, <1>27, <1>28, <1>29, <1>30, <1>31, <1>32, <1>33, <1>34, <1>35, <1>36, <1>37, <1>38, <1>39, <1>40 DEF Next, ThreadStep

\* A step that moves no thread into the loop, out of it or along its end.
LEMMA TablesFrame ==
  ASSUME TablesInv, UNCHANGED <<threads, sessions, subscribed, mem>>,
         NEW Ends, Ends = {"none", "new", "remove", "unregister", "free", "gone"},
         \A u \in Threads : /\ InLoop(u)' <=> InLoop(u)
                            /\ pc'[u] = pc[u] \/ (pc[u] \notin Ends /\ pc'[u] \notin Ends)
  PROVE  TablesInv'
<1> SUFFICES ASSUME NEW u \in Threads
             PROVE  /\ u \in threads' <=> InLoop(u)' \/ pc'[u] = "remove"
                    /\ u \in sessions' <=> pc'[u] \notin {"none", "new", "gone"}
                    /\ u \in subscribed' => InLoop(u)' \/ pc'[u] \in {"remove", "unregister"}
                    /\ mem'[u] = "live" <=> InLoop(u)' \/ pc'[u] \in {"remove", "unregister", "free"}
  BY DEF TablesInv
<1>1. \A p \in Ends : pc'[u] = p <=> pc[u] = p
  OBVIOUS
<1>q. QED
  BY <1>1 DEF TablesInv

LEMMA UnsentFrame ==
  ASSUME NothingUnsent, UNCHANGED <<queue, broken>>,
         \A u \in Threads : pc'[u] \in {"remove", "unregister", "free"} => pc'[u] = pc[u]
  PROVE  NothingUnsent'
  BY DEF NothingUnsent

LEMMA TablesStep == IInv /\ [Next]_vars => TablesInv'
<1> SUFFICES ASSUME IInv, [Next]_vars PROVE TablesInv'
  OBVIOUS
<1> USE DEF IInv, TypeOK, TablesInv, InLoop, LoopPC, PC, AfterLog, kill
<1>1. ASSUME NEW t \in Threads, Connect(t) PROVE TablesInv'
  BY <1>1 DEF Connect, Goto, tables, hist
<1>2. ASSUME NEW t \in Threads, PollReturns(t) PROVE TablesInv'
  BY <1>2 DEF PollReturns, Goto, tables
<1>3. ASSUME NEW t \in Threads, SessionNew(t) PROVE TablesInv'
  BY <1>3 DEF SessionNew, MayWriteSessions, At, LogThen, Goto, hist
<1>4. ASSUME NEW t \in Threads, ThreadInsert(t) PROVE TablesInv'
  BY <1>4 DEF ThreadInsert, MayWriteThreads, At, Goto, hist
<1>5. ASSUME NEW t \in Threads, LoopTop(t) PROVE TablesInv'
  BY <1>5 DEF LoopTop, LookAtQueue, Goto, WantsInput, Leaves, tables, hist
<1>6. ASSUME NEW t \in Threads, Unblock(t) PROVE TablesInv'
  BY <1>6 DEF Unblock, Goto, tables, hist
<1>7. ASSUME NEW t \in Threads, EnterPoll(t) PROVE TablesInv'
  BY <1>7 DEF EnterPoll, Goto, tables, hist
<1>8. ASSUME NEW t \in Threads, PollInterrupted(t) PROVE TablesInv'
  BY <1>8 DEF PollInterrupted, Goto, tables, hist
<1>9. ASSUME NEW t \in Threads, ReadEnds(t) PROVE TablesInv'
  BY <1>9 DEF ReadEnds, Goto, tables
<1>10. ASSUME NEW t \in Threads, ReadPart(t) PROVE TablesInv'
  BY <1>10 DEF ReadPart, Goto, AfterRead, tables, hist
<1>11. ASSUME NEW t \in Threads, ReadInvalid(t) PROVE TablesInv'
  BY <1>11 DEF ReadInvalid, LogThen, Goto, tables, hist
<1>12. ASSUME NEW t \in Threads, AnswerInvalid(t) PROVE TablesInv'
  BY <1>12 DEF AnswerInvalid, Push, Goto, tables, hist
<1>13. ASSUME NEW t \in Threads, ReadRefused(t) PROVE TablesInv'
  BY <1>13 DEF ReadRefused, Push, Goto, AfterRead, tables
<1>14. ASSUME NEW t \in Threads, ReadRequest(t) PROVE TablesInv'
  BY <1>14 DEF ReadRequest, LogThen, Goto, tables
<1>15. ASSUME NEW t \in Threads, WriteAll(t) PROVE TablesInv'
  BY <1>15 DEF WriteAll, Goto, tables, hist
<1>16. ASSUME NEW t \in Threads, WritePart(t) PROVE TablesInv'
  BY <1>16 DEF WritePart, Goto, tables, hist
<1>17. ASSUME NEW t \in Threads, WriteFails(t) PROVE TablesInv'
  BY <1>17 DEF WriteFails, Goto, tables
<1>18. ASSUME NEW t \in Threads, Subscribe(t) PROVE TablesInv'
  BY <1>18 DEF Subscribe, MayWriteLog, At, Goto, hist
<1>19. ASSUME NEW t \in Threads, Unsubscribe(t) PROVE TablesInv'
  BY <1>19 DEF Unsubscribe, MayWriteLog, At, Goto, hist
<1>20. ASSUME NEW t \in Threads, OtherMethod(t) PROVE TablesInv'
  BY <1>20 DEF OtherMethod, Goto, tables, hist
<1>21. ASSUME NEW t \in Threads, MethodFails(t) PROVE TablesInv'
  BY <1>21 DEF MethodFails, LogThen, Goto, tables, hist
<1>22. ASSUME NEW t \in Threads, KillSession(t) PROVE TablesInv'
  BY <1>22 DEF KillSession, Goto, tables, hist
<1>23. ASSUME NEW t \in Threads, KillFind(t) PROVE TablesInv'
  <2>1. \A u \in Threads : u # t => pc'[u] = pc[u] /\ after'[u] = after[u]
    BY <1>23 DEF KillFind, LogThen, Goto
  <2>2. pc[t] = "killfind" /\ (pc'[t] = "killmark" \/ (pc'[t] = "logfind" /\ after'[t] = "respond"))
    BY <1>23 DEF KillFind, LogThen, Goto
  <2>3. UNCHANGED <<threads, sessions, subscribed, mem>>
    BY <1>23 DEF KillFind, tables
  <2>4. \A u \in Threads : InLoop(u)' <=> InLoop(u)
    BY ONLY <2>1, <2>2 DEF InLoop, LoopPC
  <2>q. QED
    BY <2>1, <2>2, <2>3, <2>4, TablesFrame DEF IInv
<1>24. ASSUME NEW t \in Threads, KillMark(t) PROVE TablesInv'
  BY <1>24 DEF KillMark, Goto, tables, hist
<1>25. ASSUME NEW t \in Threads, RaiseFind(t) PROVE TablesInv'
  <2>1. \A u \in Threads : u # t => pc'[u] = pc[u]
    BY <1>25 DEF RaiseFind, KillDone, Goto
  <2>2. pc[t] = "raisefind" /\ pc'[t] \in {"raise", "respond"}
    BY <1>25 DEF RaiseFind, KillDone, Goto
  <2>3. UNCHANGED <<threads, sessions, subscribed, mem, after>>
    BY <1>25 DEF RaiseFind, tables
  <2>4. \A u \in Threads : InLoop(u)' <=> InLoop(u)
    BY ONLY <2>1, <2>2, <2>3 DEF InLoop, LoopPC
  <2>q. QED
    BY <2>1, <2>2, <2>3, <2>4, TablesFrame DEF IInv
<1>26. ASSUME NEW t \in Threads, Raise(t) PROVE TablesInv'
  <2>1. pc' = [[pc EXCEPT ![target[t]] = Raised(target[t])] EXCEPT ![t] = "respond"]
    BY <1>26 DEF Raise, KillDone
  <2>2. \A u \in Threads : u # t => pc'[u] = pc[u] \/ (pc[u] = "asleep" /\ pc'[u] = "interrupted")
    BY <2>1 DEF Raised
  <2>3. pc[t] = "raise" /\ pc'[t] = "respond"
    BY <1>26, <2>1 DEF Raise
  <2>4. UNCHANGED <<threads, sessions, subscribed, mem, after>>
    BY <1>26 DEF Raise, tables
  <2>5. \A u \in Threads : InLoop(u)' <=> InLoop(u)
    BY ONLY <2>2, <2>3, <2>4 DEF InLoop, LoopPC
  <2>q. QED
    BY <2>2, <2>3, <2>4, <2>5, TablesFrame DEF IInv
<1>27. ASSUME NEW t \in Threads, LogFind(t) PROVE TablesInv'
  BY <1>27 DEF LogFind, Goto, tables, hist
<1>28. ASSUME NEW t \in Threads, LogPush(t) PROVE TablesInv'
  BY <1>28 DEF LogPush, Push, Raised, Misses, tables, hist
<1>29. ASSUME NEW t \in Threads, LogEnd(t) PROVE TablesInv'
  <2>1. pc[t] = "log" /\ pc' = [pc EXCEPT ![t] = after[t]] /\ after' = [after EXCEPT ![t] = "insert"]
        /\ UNCHANGED <<threads, sessions, subscribed, mem>>
    BY <1>29 DEF LogEnd, Goto, tables
  <2>2. \A u \in Threads : u # t => pc'[u] = pc[u] /\ after'[u] = after[u]
    BY <2>1
  <2>3. pc'[t] = after[t] /\ after[t] \in {"insert", "exec", "respond", "invalid", "quit"}
    BY <2>1
  <2>4. \A u \in Threads : InLoop(u)' <=> InLoop(u)
    BY ONLY <2>1, <2>2, <2>3 DEF InLoop, LoopPC
  <2>q. QED
    BY <2>1, <2>2, <2>3, <2>4, TablesFrame DEF IInv
<1>30. ASSUME NEW t \in Threads, Respond(t) PROVE TablesInv'
  BY <1>30 DEF Respond, Push, Goto, AfterRead, tables, hist
<1>31. ASSUME NEW t \in Threads, ThreadRemove(t) PROVE TablesInv'
  BY <1>31 DEF ThreadRemove, MayWriteThreads, At, Goto, hist
<1>32. ASSUME NEW t \in Threads, LogUnregister(t) PROVE TablesInv'
  BY <1>32 DEF LogUnregister, MayWriteLog, At, Goto, hist
<1>33. ASSUME NEW t \in Threads, FreeQueue(t) PROVE TablesInv'
  BY <1>33 DEF FreeQueue, LogThen, Goto, tables, hist
<1>34. ASSUME NEW t \in Threads, SessionQuit(t) PROVE TablesInv'
  BY <1>34 DEF SessionQuit, MayWriteSessions, At, Goto
<1>36. ASSUME NEW t \in Threads, NoticeKill(t) PROVE TablesInv'
  BY <1>36 DEF NoticeKill, Goto, tables, hist
<1>37. ASSUME NEW t \in Threads, PushKill(t) PROVE TablesInv'
  BY <1>37 DEF PushKill, Push, LookAtQueue, Goto, WantsInput, Leaves, tables, hist
<1>38. ASSUME NEW t \in Threads, KillTest(t) PROVE TablesInv'
  BY <1>38 DEF KillTest, Goto, tables, hist
<1>39. ASSUME NEW t \in Threads, KillFree(t) PROVE TablesInv'
  BY <1>39 DEF KillFree, Goto, tables, hist
<1>40. ASSUME NEW t \in Threads, KillSet(t) PROVE TablesInv'
  BY <1>40 DEF KillSet, Goto, tables, hist
<1>35. CASE UNCHANGED vars
  BY <1>35 DEF vars
<1>q. QED
  BY <1>1, <1>2, <1>3, <1>4, <1>5, <1>6, <1>7, <1>8, <1>9, <1>10, <1>11, <1>12, <1>13, <1>14, <1>15, <1>16, <1>17, <1>18, <1>19, <1>20, <1>21, <1>22, <1>23, <1>24, <1>25, <1>26, <1>27, <1>28, <1>29, <1>30, <1>31, <1>32, <1>33, <1>34, <1>35, <1>36, <1>37, <1>38, <1>39, <1>40 DEF Next, ThreadStep

LEMMA HoldersStep == IInv /\ [Next]_vars => HoldersInv'
<1> SUFFICES ASSUME IInv, [Next]_vars PROVE HoldersInv'
  OBVIOUS
<1> USE DEF IInv, TypeOK, HoldersInv, Killing, kill
<1>1. ASSUME NEW t \in Threads, Connect(t) PROVE HoldersInv'
  BY <1>1 DEF Connect, Goto, tables, hist
<1>2. ASSUME NEW t \in Threads, PollReturns(t) PROVE HoldersInv'
  BY <1>2 DEF PollReturns, Goto, tables
<1>3. ASSUME NEW t \in Threads, SessionNew(t) PROVE HoldersInv'
  BY <1>3 DEF SessionNew, MayWriteSessions, At, LogThen, Goto, hist
<1>4. ASSUME NEW t \in Threads, ThreadInsert(t) PROVE HoldersInv'
  BY <1>4 DEF ThreadInsert, MayWriteThreads, At, Goto, hist
<1>5. ASSUME NEW t \in Threads, LoopTop(t) PROVE HoldersInv'
  BY <1>5 DEF LoopTop, LookAtQueue, Goto, WantsInput, Leaves, tables, hist
<1>6. ASSUME NEW t \in Threads, Unblock(t) PROVE HoldersInv'
  BY <1>6 DEF Unblock, Goto, tables, hist
<1>7. ASSUME NEW t \in Threads, EnterPoll(t) PROVE HoldersInv'
  BY <1>7 DEF EnterPoll, Goto, tables, hist
<1>8. ASSUME NEW t \in Threads, PollInterrupted(t) PROVE HoldersInv'
  BY <1>8 DEF PollInterrupted, Goto, tables, hist
<1>9. ASSUME NEW t \in Threads, ReadEnds(t) PROVE HoldersInv'
  BY <1>9 DEF ReadEnds, Goto, tables
<1>10. ASSUME NEW t \in Threads, ReadPart(t) PROVE HoldersInv'
  BY <1>10 DEF ReadPart, Goto, AfterRead, tables, hist
<1>11. ASSUME NEW t \in Threads, ReadInvalid(t) PROVE HoldersInv'
  BY <1>11 DEF ReadInvalid, LogThen, Goto, tables, hist
<1>12. ASSUME NEW t \in Threads, AnswerInvalid(t) PROVE HoldersInv'
  BY <1>12 DEF AnswerInvalid, Push, Goto, tables, hist
<1>13. ASSUME NEW t \in Threads, ReadRefused(t) PROVE HoldersInv'
  BY <1>13 DEF ReadRefused, Push, Goto, AfterRead, tables
<1>14. ASSUME NEW t \in Threads, ReadRequest(t) PROVE HoldersInv'
  BY <1>14 DEF ReadRequest, LogThen, Goto, tables
<1>15. ASSUME NEW t \in Threads, WriteAll(t) PROVE HoldersInv'
  BY <1>15 DEF WriteAll, Goto, tables, hist
<1>16. ASSUME NEW t \in Threads, WritePart(t) PROVE HoldersInv'
  BY <1>16 DEF WritePart, Goto, tables, hist
<1>17. ASSUME NEW t \in Threads, WriteFails(t) PROVE HoldersInv'
  BY <1>17 DEF WriteFails, Goto, tables
<1>18. ASSUME NEW t \in Threads, Subscribe(t) PROVE HoldersInv'
  BY <1>18 DEF Subscribe, MayWriteLog, At, Goto, hist
<1>19. ASSUME NEW t \in Threads, Unsubscribe(t) PROVE HoldersInv'
  BY <1>19 DEF Unsubscribe, MayWriteLog, At, Goto, hist
<1>20. ASSUME NEW t \in Threads, OtherMethod(t) PROVE HoldersInv'
  BY <1>20 DEF OtherMethod, Goto, tables, hist
<1>21. ASSUME NEW t \in Threads, MethodFails(t) PROVE HoldersInv'
  BY <1>21 DEF MethodFails, LogThen, Goto, tables, hist
<1>22. ASSUME NEW t \in Threads, KillSession(t) PROVE HoldersInv'
  BY <1>22 DEF KillSession, Goto, tables, hist
<1>23. ASSUME NEW t \in Threads, KillFind(t) PROVE HoldersInv'
  BY <1>23 DEF KillFind, LogThen, Goto, tables, hist
<1>24. ASSUME NEW t \in Threads, KillMark(t) PROVE HoldersInv'
  BY <1>24 DEF KillMark, Goto, tables, hist
<1>25. ASSUME NEW t \in Threads, RaiseFind(t) PROVE HoldersInv'
  BY <1>25 DEF RaiseFind, KillDone, Goto, tables, hist
<1>26. ASSUME NEW t \in Threads, Raise(t) PROVE HoldersInv'
  BY <1>26 DEF Raise, KillDone, Raised, Misses, tables, hist
<1>27. ASSUME NEW t \in Threads, LogFind(t) PROVE HoldersInv'
  BY <1>27 DEF LogFind, Goto, tables, hist
<1>28. ASSUME NEW t \in Threads, LogPush(t) PROVE HoldersInv'
  BY <1>28 DEF LogPush, Push, Raised, Misses, tables, hist
<1>29. ASSUME NEW t \in Threads, LogEnd(t) PROVE HoldersInv'
  BY <1>29 DEF LogEnd, Goto, tables, hist, AfterLog
<1>30. ASSUME NEW t \in Threads, Respond(t) PROVE HoldersInv'
  BY <1>30 DEF Respond, Push, Goto, AfterRead, tables, hist
<1>31. ASSUME NEW t \in Threads, ThreadRemove(t) PROVE HoldersInv'
  BY <1>31 DEF ThreadRemove, MayWriteThreads, At, Goto, hist
<1>32. ASSUME NEW t \in Threads, LogUnregister(t) PROVE HoldersInv'
  BY <1>32 DEF LogUnregister, MayWriteLog, At, Goto, hist
<1>33. ASSUME NEW t \in Threads, FreeQueue(t) PROVE HoldersInv'
  BY <1>33 DEF FreeQueue, LogThen, Goto, tables, hist
<1>34. ASSUME NEW t \in Threads, SessionQuit(t) PROVE HoldersInv'
  BY <1>34 DEF SessionQuit, MayWriteSessions, At, Goto
<1>36. ASSUME NEW t \in Threads, NoticeKill(t) PROVE HoldersInv'
  BY <1>36 DEF NoticeKill, Goto, tables, hist
<1>37. ASSUME NEW t \in Threads, PushKill(t) PROVE HoldersInv'
  BY <1>37 DEF PushKill, Push, LookAtQueue, Goto, WantsInput, Leaves, tables, hist
<1>38. ASSUME NEW t \in Threads, KillTest(t) PROVE HoldersInv'
  BY <1>38 DEF KillTest, Goto, tables, hist
<1>39. ASSUME NEW t \in Threads, KillFree(t) PROVE HoldersInv'
  BY <1>39 DEF KillFree, Goto, tables, hist
<1>40. ASSUME NEW t \in Threads, KillSet(t) PROVE HoldersInv'
  BY <1>40 DEF KillSet, Goto, tables, hist
<1>35. CASE UNCHANGED vars
  BY <1>35 DEF vars
<1>q. QED
  BY <1>1, <1>2, <1>3, <1>4, <1>5, <1>6, <1>7, <1>8, <1>9, <1>10, <1>11, <1>12, <1>13, <1>14, <1>15, <1>16, <1>17, <1>18, <1>19, <1>20, <1>21, <1>22, <1>23, <1>24, <1>25, <1>26, <1>27, <1>28, <1>29, <1>30, <1>31, <1>32, <1>33, <1>34, <1>35, <1>36, <1>37, <1>38, <1>39, <1>40 DEF Next, ThreadStep

LEMMA UnsentStep == IInv /\ [Next]_vars => NothingUnsent'
<1> SUFFICES ASSUME IInv, [Next]_vars PROVE NothingUnsent'
  OBVIOUS
<1> USE DEF IInv, TypeOK, NothingUnsent, Message, kill
<1>1. ASSUME NEW t \in Threads, Connect(t) PROVE NothingUnsent'
  BY <1>1 DEF Connect, Goto, tables, hist
<1>2. ASSUME NEW t \in Threads, PollReturns(t) PROVE NothingUnsent'
  BY <1>2 DEF PollReturns, Goto, tables
<1>3. ASSUME NEW t \in Threads, SessionNew(t) PROVE NothingUnsent'
  BY <1>3 DEF SessionNew, MayWriteSessions, At, LogThen, Goto, hist
<1>4. ASSUME NEW t \in Threads, ThreadInsert(t) PROVE NothingUnsent'
  BY <1>4 DEF ThreadInsert, MayWriteThreads, At, Goto, hist
<1>5. ASSUME NEW t \in Threads, LoopTop(t) PROVE NothingUnsent'
  BY <1>5 DEF LoopTop, LookAtQueue, Goto, WantsInput, Leaves, tables, hist
<1>6. ASSUME NEW t \in Threads, Unblock(t) PROVE NothingUnsent'
  BY <1>6 DEF Unblock, Goto, tables, hist
<1>7. ASSUME NEW t \in Threads, EnterPoll(t) PROVE NothingUnsent'
  BY <1>7 DEF EnterPoll, Goto, tables, hist
<1>8. ASSUME NEW t \in Threads, PollInterrupted(t) PROVE NothingUnsent'
  BY <1>8 DEF PollInterrupted, Goto, tables, hist
<1>9. ASSUME NEW t \in Threads, ReadEnds(t) PROVE NothingUnsent'
  BY <1>9 DEF ReadEnds, Goto, tables
<1>10. ASSUME NEW t \in Threads, ReadPart(t) PROVE NothingUnsent'
  BY <1>10 DEF ReadPart, Goto, AfterRead, tables, hist
<1>11. ASSUME NEW t \in Threads, ReadInvalid(t) PROVE NothingUnsent'
  BY <1>11 DEF ReadInvalid, LogThen, Goto, tables, hist
<1>12. ASSUME NEW t \in Threads, AnswerInvalid(t) PROVE NothingUnsent'
  BY <1>12 DEF AnswerInvalid, Push, Goto, tables, hist
<1>13. ASSUME NEW t \in Threads, ReadRefused(t) PROVE NothingUnsent'
  BY <1>13 DEF ReadRefused, Push, Goto, AfterRead, tables
<1>14. ASSUME NEW t \in Threads, ReadRequest(t) PROVE NothingUnsent'
  BY <1>14 DEF ReadRequest, LogThen, Goto, tables
<1>15. ASSUME NEW t \in Threads, WriteAll(t) PROVE NothingUnsent'
  BY <1>15 DEF WriteAll, Goto, tables, hist
<1>16. ASSUME NEW t \in Threads, WritePart(t) PROVE NothingUnsent'
  BY <1>16 DEF WritePart, Goto, tables, hist
<1>17. ASSUME NEW t \in Threads, WriteFails(t) PROVE NothingUnsent'
  BY <1>17 DEF WriteFails, Goto, tables
<1>18. ASSUME NEW t \in Threads, Subscribe(t) PROVE NothingUnsent'
  BY <1>18 DEF Subscribe, MayWriteLog, At, Goto, hist
<1>19. ASSUME NEW t \in Threads, Unsubscribe(t) PROVE NothingUnsent'
  BY <1>19 DEF Unsubscribe, MayWriteLog, At, Goto, hist
<1>20. ASSUME NEW t \in Threads, OtherMethod(t) PROVE NothingUnsent'
  BY <1>20 DEF OtherMethod, Goto, tables, hist
<1>21. ASSUME NEW t \in Threads, MethodFails(t) PROVE NothingUnsent'
  BY <1>21 DEF MethodFails, LogThen, Goto, tables, hist
<1>22. ASSUME NEW t \in Threads, KillSession(t) PROVE NothingUnsent'
  BY <1>22 DEF KillSession, Goto, tables, hist
<1>23. ASSUME NEW t \in Threads, KillFind(t) PROVE NothingUnsent'
  <2>1. UNCHANGED <<queue, broken>>
    BY <1>23 DEF KillFind, hist
  <2>2. \A u \in Threads : pc'[u] \in {"remove", "unregister", "free"} => pc'[u] = pc[u]
    BY <1>23 DEF KillFind, LogThen, Goto
  <2>q. QED
    BY <2>1, <2>2, UnsentFrame
<1>24. ASSUME NEW t \in Threads, KillMark(t) PROVE NothingUnsent'
  BY <1>24 DEF KillMark, Goto, tables, hist
<1>25. ASSUME NEW t \in Threads, RaiseFind(t) PROVE NothingUnsent'
  <2>1. UNCHANGED <<queue, broken>>
    BY <1>25 DEF RaiseFind, hist
  <2>2. \A u \in Threads : pc'[u] \in {"remove", "unregister", "free"} => pc'[u] = pc[u]
    BY <1>25 DEF RaiseFind, KillDone, Goto
  <2>q. QED
    BY <2>1, <2>2, UnsentFrame
<1>26. ASSUME NEW t \in Threads, Raise(t) PROVE NothingUnsent'
  BY <1>26 DEF Raise, KillDone, Raised, Misses, tables, hist
<1>27. ASSUME NEW t \in Threads, LogFind(t) PROVE NothingUnsent'
  BY <1>27 DEF LogFind, Goto, tables, hist
<1>28. ASSUME NEW t \in Threads, LogPush(t) PROVE NothingUnsent'
  BY <1>28 DEF LogPush, Push, Raised, Misses, tables, hist
<1>29. ASSUME NEW t \in Threads, LogEnd(t) PROVE NothingUnsent'
  BY <1>29 DEF LogEnd, Goto, tables, hist, AfterLog
<1>30. ASSUME NEW t \in Threads, Respond(t) PROVE NothingUnsent'
  BY <1>30 DEF Respond, Push, Goto, AfterRead, tables, hist
<1>31. ASSUME NEW t \in Threads, ThreadRemove(t) PROVE NothingUnsent'
  BY <1>31 DEF ThreadRemove, MayWriteThreads, At, Goto, hist
<1>32. ASSUME NEW t \in Threads, LogUnregister(t) PROVE NothingUnsent'
  BY <1>32 DEF LogUnregister, MayWriteLog, At, Goto, hist
<1>33. ASSUME NEW t \in Threads, FreeQueue(t) PROVE NothingUnsent'
  BY <1>33 DEF FreeQueue, LogThen, Goto, tables, hist
<1>34. ASSUME NEW t \in Threads, SessionQuit(t) PROVE NothingUnsent'
  BY <1>34 DEF SessionQuit, MayWriteSessions, At, Goto
<1>36. ASSUME NEW t \in Threads, NoticeKill(t) PROVE NothingUnsent'
  BY <1>36 DEF NoticeKill, Goto, tables, hist
<1>37. ASSUME NEW t \in Threads, PushKill(t) PROVE NothingUnsent'
  <2>1. queue' = [queue EXCEPT ![t] = Append(queue[t], "kill")]
    BY <1>37 DEF PushKill, Push
  <2>2. Append(queue[t], "kill") # <<>>
    <3>1. queue[t] \in Seq(Message) /\ "kill" \in Message
      OBVIOUS
    <3>2. Len(Append(queue[t], "kill")) = Len(queue[t]) + 1 /\ Len(queue[t]) \in Nat
      BY ONLY <3>1
    <3>3. Len(<<>>) = 0
      OBVIOUS
    <3>q. QED
      BY ONLY <3>2, <3>3
  <2>3. queue'[t] # <<>>
    BY <2>1, <2>2
  <2>4. pc' = [pc EXCEPT ![t] = "unblock"] /\ broken' = broken
    BY <1>37, <2>3 DEF PushKill, LookAtQueue, Leaves, Goto, hist
  <2>q. QED
    BY <2>1, <2>4
<1>38. ASSUME NEW t \in Threads, KillTest(t) PROVE NothingUnsent'
  BY <1>38 DEF KillTest, Goto, tables, hist
<1>39. ASSUME NEW t \in Threads, KillFree(t) PROVE NothingUnsent'
  BY <1>39 DEF KillFree, Goto, tables, hist
<1>40. ASSUME NEW t \in Threads, KillSet(t) PROVE NothingUnsent'
  BY <1>40 DEF KillSet, Goto, tables, hist
<1>35. CASE UNCHANGED vars
  BY <1>35 DEF vars
<1>q. QED
  BY <1>1, <1>2, <1>3, <1>4, <1>5, <1>6, <1>7, <1>8, <1>9, <1>10, <1>11, <1>12, <1>13, <1>14, <1>15, <1>16, <1>17, <1>18, <1>19, <1>20, <1>21, <1>22, <1>23, <1>24, <1>25, <1>26, <1>27, <1>28, <1>29, <1>30, <1>31, <1>32, <1>33, <1>34, <1>35, <1>36, <1>37, <1>38, <1>39, <1>40 DEF Next, ThreadStep

LEMMA LateStep == IInv /\ [Next]_vars => LateInv'
<1> SUFFICES ASSUME IInv, [Next]_vars PROVE LateInv'
  OBVIOUS
<1> USE DEF IInv, TypeOK, LateInv, InLoop, LoopPC, Ending, kill
<1>1. ASSUME NEW t \in Threads, Connect(t) PROVE LateInv'
  BY <1>1 DEF Connect, Goto, tables, hist
<1>2. ASSUME NEW t \in Threads, PollReturns(t) PROVE LateInv'
  <2>1. PICK rev \in SUBSET events[t] \ {{}} :
          /\ events' = [events EXCEPT ![t] = rev]
          /\ Goto(t, IF "in" \in rev THEN "read" ELSE "write")
          /\ late' = [late EXCEPT ![t] = IF "in" \in rev /\ sendOnly[t] /\ @ < 2 THEN @ + 1 ELSE @]
    BY <1>2 DEF PollReturns
  <2>2. late[t] \in 0 .. 2 /\ (late[t] < 2 => late[t] + 1 \in 0 .. 2)
    OBVIOUS
  <2>3. late[t] = 1 => "in" \notin rev
    BY <1>2 DEF PollReturns
  <2>4. late'[t] \in {0, 1} /\ (late'[t] = 1 /\ late[t] # 1 => sendOnly[t])
    BY <2>1, <2>2, <2>3
  <2>5. pc[t] = "asleep" /\ pc'[t] \in {"read", "write"} /\ sendOnly' = sendOnly /\ after' = after
    BY <1>2, <2>1 DEF PollReturns, Goto
  <2>6. \A u \in Threads : u # t => pc'[u] = pc[u] /\ late'[u] = late[u] /\ events'[u] = events[u]
    BY <2>1 DEF Goto
  <2>q. QED
    <3>1. SUFFICES ASSUME NEW u \in Threads
                   PROVE (/\ late[u] <= 1
                          /\ late[u] = 1 => \/ (InLoop(u) \/ pc[u] = "remove") /\ sendOnly[u]
                                            \/ Ending(u)
                          /\ late[u] = 1 /\ pc[u] \in {"unblock", "prepoll", "asleep"} => "in" \notin events[u])'
      BY DEF LateInv
    <3>2. CASE u = t
      <4>1. late[t] = 1 => sendOnly[t]
        BY <2>5
      <4>2. InLoop(t)' /\ (late'[t] = 1 => sendOnly'[t]) /\ pc'[t] \notin {"unblock", "prepoll", "asleep"}
        BY <2>4, <2>5, <4>1
      <4>3. late'[t] <= 1
        BY <2>4
      <4>q. QED
        BY <4>2, <4>3, <3>2
    <3>3. CASE u # t
      BY <2>5, <2>6, <3>3
    <3>q. QED
      BY <3>2, <3>3
<1>3. ASSUME NEW t \in Threads, SessionNew(t) PROVE LateInv'
  BY <1>3 DEF SessionNew, MayWriteSessions, At, LogThen, Goto, hist
<1>4. ASSUME NEW t \in Threads, ThreadInsert(t) PROVE LateInv'
  BY <1>4 DEF ThreadInsert, MayWriteThreads, At, Goto, hist
<1>5. ASSUME NEW t \in Threads, LoopTop(t) PROVE LateInv'
  BY <1>5 DEF LoopTop, LookAtQueue, Goto, WantsInput, Leaves, tables, hist
<1>6. ASSUME NEW t \in Threads, Unblock(t) PROVE LateInv'
  BY <1>6 DEF Unblock, Goto, tables, hist
<1>7. ASSUME NEW t \in Threads, EnterPoll(t) PROVE LateInv'
  BY <1>7 DEF EnterPoll, Goto, tables, hist
<1>8. ASSUME NEW t \in Threads, PollInterrupted(t) PROVE LateInv'
  BY <1>8 DEF PollInterrupted, Goto, tables, hist
<1>9. ASSUME NEW t \in Threads, ReadEnds(t) PROVE LateInv'
  BY <1>9 DEF ReadEnds, Goto, tables
<1>10. ASSUME NEW t \in Threads, ReadPart(t) PROVE LateInv'
  BY <1>10 DEF ReadPart, Goto, AfterRead, tables, hist
<1>11. ASSUME NEW t \in Threads, ReadInvalid(t) PROVE LateInv'
  BY <1>11 DEF ReadInvalid, LogThen, Goto, tables, hist
<1>12. ASSUME NEW t \in Threads, AnswerInvalid(t) PROVE LateInv'
  BY <1>12 DEF AnswerInvalid, Push, Goto, tables, hist
<1>13. ASSUME NEW t \in Threads, ReadRefused(t) PROVE LateInv'
  BY <1>13 DEF ReadRefused, Push, Goto, AfterRead, tables
<1>14. ASSUME NEW t \in Threads, ReadRequest(t) PROVE LateInv'
  BY <1>14 DEF ReadRequest, LogThen, Goto, tables
<1>15. ASSUME NEW t \in Threads, WriteAll(t) PROVE LateInv'
  BY <1>15 DEF WriteAll, Goto, tables, hist
<1>16. ASSUME NEW t \in Threads, WritePart(t) PROVE LateInv'
  BY <1>16 DEF WritePart, Goto, tables, hist
<1>17. ASSUME NEW t \in Threads, WriteFails(t) PROVE LateInv'
  BY <1>17 DEF WriteFails, Goto, tables
<1>18. ASSUME NEW t \in Threads, Subscribe(t) PROVE LateInv'
  BY <1>18 DEF Subscribe, MayWriteLog, At, Goto, hist
<1>19. ASSUME NEW t \in Threads, Unsubscribe(t) PROVE LateInv'
  BY <1>19 DEF Unsubscribe, MayWriteLog, At, Goto, hist
<1>20. ASSUME NEW t \in Threads, OtherMethod(t) PROVE LateInv'
  BY <1>20 DEF OtherMethod, Goto, tables, hist
<1>21. ASSUME NEW t \in Threads, MethodFails(t) PROVE LateInv'
  BY <1>21 DEF MethodFails, LogThen, Goto, tables, hist
<1>22. ASSUME NEW t \in Threads, KillSession(t) PROVE LateInv'
  BY <1>22 DEF KillSession, Goto, tables, hist
<1>23. ASSUME NEW t \in Threads, KillFind(t) PROVE LateInv'
  <2>1. CASE target[t] \in sessions
    BY <1>23, <2>1 DEF KillFind, LogThen, Goto, tables, hist
  <2>2. CASE ~ (target[t] \in sessions)
    BY <1>23, <2>2 DEF KillFind, LogThen, Goto, tables, hist
  <2>q. QED
    BY <2>1, <2>2
<1>24. ASSUME NEW t \in Threads, KillMark(t) PROVE LateInv'
  BY <1>24 DEF KillMark, Goto, tables, hist
<1>25. ASSUME NEW t \in Threads, RaiseFind(t) PROVE LateInv'
  BY <1>25 DEF RaiseFind, KillDone, Goto, tables, hist
<1>26. ASSUME NEW t \in Threads, Raise(t) PROVE LateInv'
  BY <1>26 DEF Raise, KillDone, Raised, Misses, tables, hist
<1>27. ASSUME NEW t \in Threads, LogFind(t) PROVE LateInv'
  BY <1>27 DEF LogFind, Goto, tables, hist
<1>28. ASSUME NEW t \in Threads, LogPush(t) PROVE LateInv'
  BY <1>28 DEF LogPush, Push, Raised, Misses, tables, hist
<1>29. ASSUME NEW t \in Threads, LogEnd(t) PROVE LateInv'
  BY <1>29 DEF LogEnd, Goto, tables, hist
<1>30. ASSUME NEW t \in Threads, Respond(t) PROVE LateInv'
  BY <1>30 DEF Respond, Push, Goto, AfterRead, tables, hist
<1>31. ASSUME NEW t \in Threads, ThreadRemove(t) PROVE LateInv'
  BY <1>31 DEF ThreadRemove, MayWriteThreads, At, Goto, hist
<1>32. ASSUME NEW t \in Threads, LogUnregister(t) PROVE LateInv'
  BY <1>32 DEF LogUnregister, MayWriteLog, At, Goto, hist
<1>33. ASSUME NEW t \in Threads, FreeQueue(t) PROVE LateInv'
  BY <1>33 DEF FreeQueue, LogThen, Goto, tables, hist
<1>34. ASSUME NEW t \in Threads, SessionQuit(t) PROVE LateInv'
  BY <1>34 DEF SessionQuit, MayWriteSessions, At, Goto
<1>36. ASSUME NEW t \in Threads, NoticeKill(t) PROVE LateInv'
  BY <1>36 DEF NoticeKill, Goto, tables, hist
<1>37. ASSUME NEW t \in Threads, PushKill(t) PROVE LateInv'
  BY <1>37 DEF PushKill, Push, LookAtQueue, Goto, WantsInput, Leaves, tables, hist
<1>38. ASSUME NEW t \in Threads, KillTest(t) PROVE LateInv'
  BY <1>38 DEF KillTest, Goto, tables, hist
<1>39. ASSUME NEW t \in Threads, KillFree(t) PROVE LateInv'
  BY <1>39 DEF KillFree, Goto, tables, hist
<1>40. ASSUME NEW t \in Threads, KillSet(t) PROVE LateInv'
  BY <1>40 DEF KillSet, Goto, tables, hist
<1>35. CASE UNCHANGED vars
  BY <1>35 DEF vars
<1>q. QED
  BY <1>1, <1>2, <1>3, <1>4, <1>5, <1>6, <1>7, <1>8, <1>9, <1>10, <1>11, <1>12, <1>13, <1>14, <1>15, <1>16, <1>17, <1>18, <1>19, <1>20, <1>21, <1>22, <1>23, <1>24, <1>25, <1>26, <1>27, <1>28, <1>29, <1>30, <1>31, <1>32, <1>33, <1>34, <1>35, <1>36, <1>37, <1>38, <1>39, <1>40 DEF Next, ThreadStep

\* A step that leaves the kill messages and those who are at them alone.
LEMMA KillFrame ==
  ASSUME KillInv, UNCHANGED <<killMsg, freed, kills, fault>>,
         \A t \in Threads : pc[t] \in Killing \/ pc'[t] \in Killing
                             => pc'[t] = pc[t] /\ target'[t] = target[t] /\ nth'[t] = nth[t]
  PROVE  KillInv'
<1>1. \A t \in Threads : pc'[t] \in Killing => pc[t] \in Killing
  OBVIOUS
<1>2. KillersInv'
  BY <1>1 DEF KillInv, KillersInv, KillerOK
<1>5. DistinctInv'
  BY <1>1 DEF KillInv, DistinctInv
<1>3. MessagesInv'
  BY DEF KillInv, MessagesInv, MessageOK
<1>4. ReplacedInv'
  BY DEF KillInv, ReplacedInv, IsFreed, Killing
<1>q. QED
  BY <1>2, <1>3, <1>4, <1>5 DEF KillInv

LEMMA KillStep == IInv /\ [Next]_vars => KillInv'
<1> SUFFICES ASSUME IInv, [Next]_vars PROVE KillInv'
  OBVIOUS
<1>t. TypeOK /\ KillInv
  BY DEF IInv
<1>1. ASSUME NEW t \in Threads, Connect(t) PROVE KillInv'
  <2>1. UNCHANGED <<killMsg, freed, kills, fault, nth>>
    BY <1>1 DEF Connect, kill, msgs
  <2>2. \A u \in Threads : pc[u] \in Killing \/ pc'[u] \in Killing
                            => pc'[u] = pc[u] /\ target'[u] = target[u]
    BY <1>1, <1>t DEF Connect, Goto, Killing, TypeOK
  <2>q. QED
    BY <1>t, <2>1, <2>2, KillFrame
<1>2. ASSUME NEW t \in Threads, PollReturns(t) PROVE KillInv'
  <2>1. UNCHANGED <<killMsg, freed, kills, fault, nth>>
    BY <1>2 DEF PollReturns, kill, msgs
  <2>2. \A u \in Threads : pc[u] \in Killing \/ pc'[u] \in Killing
                            => pc'[u] = pc[u] /\ target'[u] = target[u]
    BY <1>2, <1>t DEF PollReturns, Goto, Killing, TypeOK
  <2>q. QED
    BY <1>t, <2>1, <2>2, KillFrame
<1>3. ASSUME NEW t \in Threads, SessionNew(t) PROVE KillInv'
  <2>1. UNCHANGED <<killMsg, freed, kills, fault, nth>>
    BY <1>3 DEF SessionNew, kill, msgs
  <2>2. \A u \in Threads : pc[u] \in Killing \/ pc'[u] \in Killing
                            => pc'[u] = pc[u] /\ target'[u] = target[u]
    BY <1>3, <1>t DEF SessionNew, LogThen, Goto, Killing, TypeOK
  <2>q. QED
    BY <1>t, <2>1, <2>2, KillFrame
<1>4. ASSUME NEW t \in Threads, ThreadInsert(t) PROVE KillInv'
  <2>1. UNCHANGED <<killMsg, freed, kills, fault, nth>>
    BY <1>4 DEF ThreadInsert, kill, msgs
  <2>2. \A u \in Threads : pc[u] \in Killing \/ pc'[u] \in Killing
                            => pc'[u] = pc[u] /\ target'[u] = target[u]
    BY <1>4, <1>t DEF ThreadInsert, Goto, Killing, TypeOK
  <2>q. QED
    BY <1>t, <2>1, <2>2, KillFrame
<1>5. ASSUME NEW t \in Threads, LoopTop(t) PROVE KillInv'
  <2>1. UNCHANGED <<killMsg, freed, kills, fault, nth>>
    BY <1>5 DEF LoopTop, kill, msgs
  <2>2. \A u \in Threads : pc[u] \in Killing \/ pc'[u] \in Killing
                            => pc'[u] = pc[u] /\ target'[u] = target[u]
    BY <1>5, <1>t DEF LoopTop, LookAtQueue, Goto, Killing, TypeOK
  <2>q. QED
    BY <1>t, <2>1, <2>2, KillFrame
<1>6. ASSUME NEW t \in Threads, NoticeKill(t) PROVE KillInv'
  <2>1. UNCHANGED <<killMsg, freed, kills, fault, nth>>
    BY <1>6 DEF NoticeKill, kill, msgs
  <2>2. \A u \in Threads : pc[u] \in Killing \/ pc'[u] \in Killing
                            => pc'[u] = pc[u] /\ target'[u] = target[u]
    BY <1>6, <1>t DEF NoticeKill, Goto, Killing, TypeOK
  <2>q. QED
    BY <1>t, <2>1, <2>2, KillFrame
<1>7. ASSUME NEW t \in Threads, Unblock(t) PROVE KillInv'
  <2>1. UNCHANGED <<killMsg, freed, kills, fault, nth>>
    BY <1>7 DEF Unblock, kill, msgs
  <2>2. \A u \in Threads : pc[u] \in Killing \/ pc'[u] \in Killing
                            => pc'[u] = pc[u] /\ target'[u] = target[u]
    BY <1>7, <1>t DEF Unblock, Goto, Killing, TypeOK
  <2>q. QED
    BY <1>t, <2>1, <2>2, KillFrame
<1>8. ASSUME NEW t \in Threads, EnterPoll(t) PROVE KillInv'
  <2>1. UNCHANGED <<killMsg, freed, kills, fault, nth>>
    BY <1>8 DEF EnterPoll, kill, msgs
  <2>2. \A u \in Threads : pc[u] \in Killing \/ pc'[u] \in Killing
                            => pc'[u] = pc[u] /\ target'[u] = target[u]
    BY <1>8, <1>t DEF EnterPoll, Goto, Killing, TypeOK
  <2>q. QED
    BY <1>t, <2>1, <2>2, KillFrame
<1>9. ASSUME NEW t \in Threads, PollInterrupted(t) PROVE KillInv'
  <2>1. UNCHANGED <<killMsg, freed, kills, fault, nth>>
    BY <1>9 DEF PollInterrupted, kill, msgs
  <2>2. \A u \in Threads : pc[u] \in Killing \/ pc'[u] \in Killing
                            => pc'[u] = pc[u] /\ target'[u] = target[u]
    BY <1>9, <1>t DEF PollInterrupted, Goto, Killing, TypeOK
  <2>q. QED
    BY <1>t, <2>1, <2>2, KillFrame
<1>10. ASSUME NEW t \in Threads, ReadEnds(t) PROVE KillInv'
  <2>1. UNCHANGED <<killMsg, freed, kills, fault, nth>>
    BY <1>10 DEF ReadEnds, kill, msgs
  <2>2. \A u \in Threads : pc[u] \in Killing \/ pc'[u] \in Killing
                            => pc'[u] = pc[u] /\ target'[u] = target[u]
    BY <1>10, <1>t DEF ReadEnds, Goto, Killing, TypeOK
  <2>q. QED
    BY <1>t, <2>1, <2>2, KillFrame
<1>11. ASSUME NEW t \in Threads, ReadPart(t) PROVE KillInv'
  <2>1. UNCHANGED <<killMsg, freed, kills, fault, nth>>
    BY <1>11 DEF ReadPart, kill, msgs
  <2>2. \A u \in Threads : pc[u] \in Killing \/ pc'[u] \in Killing
                            => pc'[u] = pc[u] /\ target'[u] = target[u]
    BY <1>11, <1>t DEF ReadPart, AfterRead, Goto, Killing, TypeOK
  <2>q. QED
    BY <1>t, <2>1, <2>2, KillFrame
<1>12. ASSUME NEW t \in Threads, ReadInvalid(t) PROVE KillInv'
  <2>1. UNCHANGED <<killMsg, freed, kills, fault, nth>>
    BY <1>12 DEF ReadInvalid, kill, msgs
  <2>2. \A u \in Threads : pc[u] \in Killing \/ pc'[u] \in Killing
                            => pc'[u] = pc[u] /\ target'[u] = target[u]
    BY <1>12, <1>t DEF ReadInvalid, LogThen, Goto, Killing, TypeOK
  <2>q. QED
    BY <1>t, <2>1, <2>2, KillFrame
<1>13. ASSUME NEW t \in Threads, AnswerInvalid(t) PROVE KillInv'
  <2>1. UNCHANGED <<killMsg, freed, kills, fault, nth>>
    BY <1>13 DEF AnswerInvalid, kill, msgs
  <2>2. \A u \in Threads : pc[u] \in Killing \/ pc'[u] \in Killing
                            => pc'[u] = pc[u] /\ target'[u] = target[u]
    BY <1>13, <1>t DEF AnswerInvalid, Goto, Killing, TypeOK
  <2>q. QED
    BY <1>t, <2>1, <2>2, KillFrame
<1>14. ASSUME NEW t \in Threads, ReadRefused(t) PROVE KillInv'
  <2>1. UNCHANGED <<killMsg, freed, kills, fault, nth>>
    BY <1>14 DEF ReadRefused, kill, msgs
  <2>2. \A u \in Threads : pc[u] \in Killing \/ pc'[u] \in Killing
                            => pc'[u] = pc[u] /\ target'[u] = target[u]
    BY <1>14, <1>t DEF ReadRefused, AfterRead, Goto, Killing, TypeOK
  <2>q. QED
    BY <1>t, <2>1, <2>2, KillFrame
<1>15. ASSUME NEW t \in Threads, ReadRequest(t) PROVE KillInv'
  <2>1. UNCHANGED <<killMsg, freed, kills, fault, nth>>
    BY <1>15 DEF ReadRequest, kill, msgs
  <2>2. \A u \in Threads : pc[u] \in Killing \/ pc'[u] \in Killing
                            => pc'[u] = pc[u] /\ target'[u] = target[u]
    BY <1>15, <1>t DEF ReadRequest, LogThen, Goto, Killing, TypeOK
  <2>q. QED
    BY <1>t, <2>1, <2>2, KillFrame
<1>16. ASSUME NEW t \in Threads, WriteAll(t) PROVE KillInv'
  <2>1. UNCHANGED <<killMsg, freed, kills, fault, nth>>
    BY <1>16 DEF WriteAll, kill, msgs
  <2>2. \A u \in Threads : pc[u] \in Killing \/ pc'[u] \in Killing
                            => pc'[u] = pc[u] /\ target'[u] = target[u]
    BY <1>16, <1>t DEF WriteAll, Goto, Killing, TypeOK
  <2>q. QED
    BY <1>t, <2>1, <2>2, KillFrame
<1>17. ASSUME NEW t \in Threads, WritePart(t) PROVE KillInv'
  <2>1. UNCHANGED <<killMsg, freed, kills, fault, nth>>
    BY <1>17 DEF WritePart, kill, msgs
  <2>2. \A u \in Threads : pc[u] \in Killing \/ pc'[u] \in Killing
                            => pc'[u] = pc[u] /\ target'[u] = target[u]
    BY <1>17, <1>t DEF WritePart, Goto, Killing, TypeOK
  <2>q. QED
    BY <1>t, <2>1, <2>2, KillFrame
<1>18. ASSUME NEW t \in Threads, WriteFails(t) PROVE KillInv'
  <2>1. UNCHANGED <<killMsg, freed, kills, fault, nth>>
    BY <1>18 DEF WriteFails, kill, msgs
  <2>2. \A u \in Threads : pc[u] \in Killing \/ pc'[u] \in Killing
                            => pc'[u] = pc[u] /\ target'[u] = target[u]
    BY <1>18, <1>t DEF WriteFails, Goto, Killing, TypeOK
  <2>q. QED
    BY <1>t, <2>1, <2>2, KillFrame
<1>19. ASSUME NEW t \in Threads, Subscribe(t) PROVE KillInv'
  <2>1. UNCHANGED <<killMsg, freed, kills, fault, nth>>
    BY <1>19 DEF Subscribe, kill, msgs
  <2>2. \A u \in Threads : pc[u] \in Killing \/ pc'[u] \in Killing
                            => pc'[u] = pc[u] /\ target'[u] = target[u]
    BY <1>19, <1>t DEF Subscribe, Goto, Killing, TypeOK
  <2>q. QED
    BY <1>t, <2>1, <2>2, KillFrame
<1>20. ASSUME NEW t \in Threads, Unsubscribe(t) PROVE KillInv'
  <2>1. UNCHANGED <<killMsg, freed, kills, fault, nth>>
    BY <1>20 DEF Unsubscribe, kill, msgs
  <2>2. \A u \in Threads : pc[u] \in Killing \/ pc'[u] \in Killing
                            => pc'[u] = pc[u] /\ target'[u] = target[u]
    BY <1>20, <1>t DEF Unsubscribe, Goto, Killing, TypeOK
  <2>q. QED
    BY <1>t, <2>1, <2>2, KillFrame
<1>21. ASSUME NEW t \in Threads, OtherMethod(t) PROVE KillInv'
  <2>1. UNCHANGED <<killMsg, freed, kills, fault, nth>>
    BY <1>21 DEF OtherMethod, kill, msgs
  <2>2. \A u \in Threads : pc[u] \in Killing \/ pc'[u] \in Killing
                            => pc'[u] = pc[u] /\ target'[u] = target[u]
    BY <1>21, <1>t DEF OtherMethod, Goto, Killing, TypeOK
  <2>q. QED
    BY <1>t, <2>1, <2>2, KillFrame
<1>22. ASSUME NEW t \in Threads, MethodFails(t) PROVE KillInv'
  <2>1. UNCHANGED <<killMsg, freed, kills, fault, nth>>
    BY <1>22 DEF MethodFails, kill, msgs
  <2>2. \A u \in Threads : pc[u] \in Killing \/ pc'[u] \in Killing
                            => pc'[u] = pc[u] /\ target'[u] = target[u]
    BY <1>22, <1>t DEF MethodFails, LogThen, Goto, Killing, TypeOK
  <2>q. QED
    BY <1>t, <2>1, <2>2, KillFrame
<1>23. ASSUME NEW t \in Threads, KillSession(t) PROVE KillInv'
  <2>1. UNCHANGED <<killMsg, freed, kills, fault, nth>>
    BY <1>23 DEF KillSession, kill, msgs
  <2>2. \A u \in Threads : pc[u] \in Killing \/ pc'[u] \in Killing
                            => pc'[u] = pc[u] /\ target'[u] = target[u]
    BY <1>23, <1>t DEF KillSession, Goto, Killing, TypeOK
  <2>q. QED
    BY <1>t, <2>1, <2>2, KillFrame
<1>24. ASSUME NEW t \in Threads, KillFind(t) PROVE KillInv'
  <2>1. UNCHANGED <<killMsg, freed, kills, fault, nth>>
    BY <1>24 DEF KillFind, kill, msgs
  <2>2. \A u \in Threads : pc[u] \in Killing \/ pc'[u] \in Killing
                            => pc'[u] = pc[u] /\ target'[u] = target[u]
    BY <1>24, <1>t DEF KillFind, LogThen, Goto, Killing, TypeOK
  <2>q. QED
    BY <1>t, <2>1, <2>2, KillFrame
<1>25. ASSUME NEW t \in Threads, RaiseFind(t) PROVE KillInv'
  <2>1. UNCHANGED <<killMsg, freed, kills, fault, nth>>
    BY <1>25 DEF RaiseFind, kill, msgs
  <2>2. \A u \in Threads : pc[u] \in Killing \/ pc'[u] \in Killing
                            => pc'[u] = pc[u] /\ target'[u] = target[u]
    BY <1>25, <1>t DEF RaiseFind, KillDone, Goto, Killing, TypeOK
  <2>q. QED
    BY <1>t, <2>1, <2>2, KillFrame
<1>26. ASSUME NEW t \in Threads, Raise(t) PROVE KillInv'
  <2>1. UNCHANGED <<killMsg, freed, kills, fault, nth>>
    BY <1>26 DEF Raise, kill, msgs
  <2>2. \A u \in Threads : pc[u] \in Killing \/ pc'[u] \in Killing
                            => pc'[u] = pc[u] /\ target'[u] = target[u]
    BY <1>26, <1>t DEF Raise, KillDone, Raised, Killing, TypeOK
  <2>q. QED
    BY <1>t, <2>1, <2>2, KillFrame
<1>27. ASSUME NEW t \in Threads, LogFind(t) PROVE KillInv'
  <2>1. UNCHANGED <<killMsg, freed, kills, fault, nth>>
    BY <1>27 DEF LogFind, kill, msgs
  <2>2. \A u \in Threads : pc[u] \in Killing \/ pc'[u] \in Killing
                            => pc'[u] = pc[u] /\ target'[u] = target[u]
    BY <1>27, <1>t DEF LogFind, Goto, Killing, TypeOK
  <2>q. QED
    BY <1>t, <2>1, <2>2, KillFrame
<1>28. ASSUME NEW t \in Threads, LogPush(t) PROVE KillInv'
  <2>1. UNCHANGED <<killMsg, freed, kills, fault, nth>>
    BY <1>28 DEF LogPush, kill, msgs
  <2>2. \A u \in Threads : pc[u] \in Killing \/ pc'[u] \in Killing
                            => pc'[u] = pc[u] /\ target'[u] = target[u]
    BY <1>28, <1>t DEF LogPush, Raised, Killing, TypeOK
  <2>q. QED
    BY <1>t, <2>1, <2>2, KillFrame
<1>29. ASSUME NEW t \in Threads, LogEnd(t) PROVE KillInv'
  <2>1. UNCHANGED <<killMsg, freed, kills, fault, nth>>
    BY <1>29 DEF LogEnd, kill, msgs
  <2>2. \A u \in Threads : pc[u] \in Killing \/ pc'[u] \in Killing
                            => pc'[u] = pc[u] /\ target'[u] = target[u]
    BY <1>29, <1>t DEF LogEnd, AfterLog, Goto, Killing, TypeOK
  <2>q. QED
    BY <1>t, <2>1, <2>2, KillFrame
<1>30. ASSUME NEW t \in Threads, Respond(t) PROVE KillInv'
  <2>1. UNCHANGED <<killMsg, freed, kills, fault, nth>>
    BY <1>30 DEF Respond, kill, msgs
  <2>2. \A u \in Threads : pc[u] \in Killing \/ pc'[u] \in Killing
                            => pc'[u] = pc[u] /\ target'[u] = target[u]
    BY <1>30, <1>t DEF Respond, AfterRead, Goto, Killing, TypeOK
  <2>q. QED
    BY <1>t, <2>1, <2>2, KillFrame
<1>31. ASSUME NEW t \in Threads, ThreadRemove(t) PROVE KillInv'
  <2>1. UNCHANGED <<killMsg, freed, kills, fault, nth>>
    BY <1>31 DEF ThreadRemove, kill, msgs
  <2>2. \A u \in Threads : pc[u] \in Killing \/ pc'[u] \in Killing
                            => pc'[u] = pc[u] /\ target'[u] = target[u]
    BY <1>31, <1>t DEF ThreadRemove, Goto, Killing, TypeOK
  <2>q. QED
    BY <1>t, <2>1, <2>2, KillFrame
<1>32. ASSUME NEW t \in Threads, LogUnregister(t) PROVE KillInv'
  <2>1. UNCHANGED <<killMsg, freed, kills, fault, nth>>
    BY <1>32 DEF LogUnregister, kill, msgs
  <2>2. \A u \in Threads : pc[u] \in Killing \/ pc'[u] \in Killing
                            => pc'[u] = pc[u] /\ target'[u] = target[u]
    BY <1>32, <1>t DEF LogUnregister, Goto, Killing, TypeOK
  <2>q. QED
    BY <1>t, <2>1, <2>2, KillFrame
<1>33. ASSUME NEW t \in Threads, FreeQueue(t) PROVE KillInv'
  <2>1. UNCHANGED <<killMsg, freed, kills, fault, nth>>
    BY <1>33 DEF FreeQueue, kill, msgs
  <2>2. \A u \in Threads : pc[u] \in Killing \/ pc'[u] \in Killing
                            => pc'[u] = pc[u] /\ target'[u] = target[u]
    BY <1>33, <1>t DEF FreeQueue, LogThen, Goto, Killing, TypeOK
  <2>q. QED
    BY <1>t, <2>1, <2>2, KillFrame
<1>c. /\ \A u \in Threads : kills[u] \in Nat /\ killMsg[u] \in Nat /\ nth[u] \in Nat /\ target[u] \in Threads
      /\ \A u \in Threads : \A p \in freed[u] : p[1] \in Nat /\ p[2] \in Nat
  BY <1>t DEF TypeOK, MsgTypeOK
<1>i. KillersInv /\ DistinctInv /\ MessagesInv /\ ReplacedInv
  BY <1>t DEF KillInv
<1>m. ASSUME NEW t \in Threads, KillMark(t) PROVE KillInv'
  <2>1. pc[t] = "killmark" /\ pc'[t] = "killtest" /\ (\A u \in Threads : u # t => pc'[u] = pc[u])
    BY <1>m, <1>t DEF KillMark, Goto, TypeOK, MsgTypeOK
  <2>2. UNCHANGED <<target, killMsg, freed, fault>>
    BY <1>m, <1>t DEF KillMark, Goto, TypeOK, MsgTypeOK
  <2>3. kills'[target[t]] = kills[target[t]] + 1 /\ (\A u \in Threads : u # target[t] => kills'[u] = kills[u])
    BY <1>m, <1>t DEF KillMark, Goto, TypeOK, MsgTypeOK
  <2>4. nth'[t] = kills[target[t]] + 1 /\ (\A u \in Threads : u # t => nth'[u] = nth[u])
    BY <1>m, <1>t DEF KillMark, Goto, TypeOK, MsgTypeOK
  <2>a. KillersInv'
    <3> SUFFICES ASSUME NEW a \in Threads, pc'[a] \in Killing PROVE KillerOK(a)'
      BY DEF KillersInv
    <3>0. target[a] \in Threads /\ target[t] \in Threads /\ MessageOK(target[a])
      BY <1>c, <1>i DEF MessagesInv
    <3>1. CASE a = t
      BY ONLY <1>c, <2>1, <2>2, <2>3, <2>4, <3>0, <3>1, a \in Threads DEF KillerOK, MessageOK
    <3>2. CASE a # t
      <4>1. pc[a] \in Killing /\ KillerOK(a) /\ pc'[a] = pc[a] /\ nth'[a] = nth[a] /\ target'[a] = target[a]
        BY <1>i, <2>1, <2>2, <2>3, <2>4, <3>2 DEF KillersInv
      <4>q. QED
        BY ONLY <1>c, <2>2, <2>3, <3>0, <4>1, a \in Threads DEF KillerOK
    <3>q. QED
      BY <3>1, <3>2
  <2>b. DistinctInv'
    BY ONLY <1>c, <1>i, <2>1, <2>2, <2>3, <2>4, t \in Threads DEF DistinctInv, KillersInv, KillerOK, Killing
  <2>c. MessagesInv'
    <3> SUFFICES ASSUME NEW u \in Threads PROVE MessageOK(u)'
      BY DEF MessagesInv
    <3>0. MessageOK(u) /\ u \in Threads /\ target[t] \in Threads
      BY <1>i, <1>c DEF MessagesInv
    <3>1. CASE u = target[t]
      BY ONLY <1>c, <3>0, <3>1, <2>2, <2>3 DEF MessageOK, IsFreed
    <3>2. CASE u # target[t]
      BY ONLY <1>c, <3>0, <3>2, <2>2, <2>3 DEF MessageOK
    <3>q. QED
      BY <3>1, <3>2
  <2>d. ReplacedInv'
    BY ONLY <1>c, <1>i, <2>1, <2>2, <2>3, <2>4, t \in Threads DEF ReplacedInv, KillersInv, KillerOK, IsFreed, Killing
  <2>q. QED
    BY <2>a, <2>b, <2>c, <2>d DEF KillInv
<1>e. ASSUME NEW t \in Threads, KillTest(t) PROVE KillInv'
  <2>1. pc[t] = "killtest" /\ pc'[t] = (IF killMsg[target[t]] = 0 THEN "killset" ELSE "killfree") /\ (\A u \in Threads : u # t => pc'[u] = pc[u])
    BY <1>e, <1>t DEF KillTest, Goto, kill, msgs, TypeOK, MsgTypeOK
  <2>2. UNCHANGED <<target, killMsg, freed, fault, kills, nth>>
    BY <1>e, <1>t DEF KillTest, Goto, kill, msgs, TypeOK, MsgTypeOK
  <2>a. KillersInv'
    BY ONLY <1>c, <1>i, <2>1, <2>2, t \in Threads DEF KillersInv, KillerOK, MessagesInv, MessageOK, DistinctInv, Killing
  <2>b. DistinctInv'
    BY ONLY <1>c, <1>i, <2>1, <2>2, t \in Threads DEF DistinctInv, KillersInv, KillerOK, Killing
  <2>c. MessagesInv'
    BY ONLY <1>c, <1>i, <2>1, <2>2, t \in Threads DEF MessagesInv, MessageOK, KillersInv, KillerOK, IsFreed, Killing
  <2>d. ReplacedInv'
    BY ONLY <1>c, <1>i, <2>1, <2>2, t \in Threads DEF ReplacedInv, KillersInv, KillerOK, IsFreed, Killing
  <2>q. QED
    BY <2>a, <2>b, <2>c, <2>d DEF KillInv
<1>f. ASSUME NEW t \in Threads, KillFree(t) PROVE KillInv'
  <2>1. pc[t] = "killfree" /\ pc'[t] = "killset" /\ (\A u \in Threads : u # t => pc'[u] = pc[u])
    BY <1>f, <1>t DEF KillFree, Goto, TypeOK, MsgTypeOK
  <2>2. UNCHANGED <<target, killMsg, kills, nth>>
    BY <1>f, <1>t DEF KillFree, Goto, TypeOK, MsgTypeOK
  <2>3. freed'[target[t]] = freed[target[t]] \cup {<<killMsg[target[t]], nth[t]>>} /\ (\A u \in Threads : u # target[t] => freed'[u] = freed[u])
    BY <1>f, <1>t DEF KillFree, Goto, TypeOK, MsgTypeOK
  <2>4. fault'[target[t]] = fault[target[t]] \cup (IF IsFreed(target[t], killMsg[target[t]]) THEN {"freedtwice"} ELSE {}) /\ (\A u \in Threads : u # target[t] => fault'[u] = fault[u])
    BY <1>f, <1>t DEF KillFree, Goto, TypeOK, MsgTypeOK
  <2>x. KillerOK(t)
    BY <1>i, <2>1 DEF KillersInv, Killing
  <2>a. KillersInv'
    <3> SUFFICES ASSUME NEW a \in Threads, pc'[a] \in Killing PROVE KillerOK(a)'
      BY DEF KillersInv
    <3>0. target[a] \in Threads /\ target[t] \in Threads /\ MessageOK(target[a])
      BY <1>c, <1>i DEF MessagesInv
    <3>1. CASE a = t
      <4>1. pc'[a] = "killset" /\ nth'[a] = nth[t] /\ target'[a] = target[t]
        BY <2>1, <2>2, <3>1
      <4>2. \A p \in freed'[target[t]] : p \in freed[target[t]] \/ p = <<killMsg[target[t]], nth[t]>>
        BY <2>3
      <4>q. QED
        BY ONLY <2>x, <2>2, <3>0, <4>1, <4>2 DEF KillerOK
    <3>2. CASE a # t
      <4>1. pc[a] \in Killing /\ KillerOK(a) /\ pc'[a] = pc[a] /\ nth'[a] = nth[a] /\ target'[a] = target[a]
        BY <1>i, <2>1, <2>2, <2>3, <2>4, <3>2 DEF KillersInv
      <4>2. target[a] = target[t] => nth[a] # nth[t] /\ nth[a] # killMsg[target[t]]
        BY <1>i, <2>1, <3>2, <4>1 DEF DistinctInv, Killing, KillerOK
      <4>3. \A p \in freed'[target[a]] : \/ p \in freed[target[a]]
                                          \/ (target[a] = target[t] /\ p = <<killMsg[target[t]], nth[t]>>)
        BY <2>3, <3>0
      <4>q. QED
        BY ONLY <2>2, <3>0, <4>1, <4>2, <4>3 DEF KillerOK
    <3>q. QED
      BY <3>1, <3>2
  <2>b. DistinctInv'
    BY ONLY <1>c, <1>i, <2>1, <2>2, <2>3, <2>4, t \in Threads DEF DistinctInv, KillersInv, KillerOK, Killing
  <2>c. MessagesInv'
    <3> SUFFICES ASSUME NEW u \in Threads PROVE MessageOK(u)'
      BY DEF MessagesInv
    <3>0. MessageOK(u) /\ u \in Threads /\ target[t] \in Threads
      BY <1>i, <1>c DEF MessagesInv
    <3>1. CASE u = target[t]
      BY ONLY <1>c, <3>0, <3>1, <2>2, <2>3, <2>4, <2>x, <2>1 DEF MessageOK, IsFreed, KillerOK
    <3>2. CASE u # target[t]
      BY ONLY <1>c, <3>0, <3>2, <2>2, <2>3, <2>4 DEF MessageOK
    <3>q. QED
      BY <3>1, <3>2
  <2>d. ReplacedInv'
    BY ONLY <1>c, <1>i, <2>1, <2>2, <2>3, <2>4, t \in Threads DEF ReplacedInv, KillersInv, KillerOK, IsFreed, Killing
  <2>q. QED
    BY <2>a, <2>b, <2>c, <2>d DEF KillInv
<1>s. ASSUME NEW t \in Threads, KillSet(t) PROVE KillInv'
  <2>1. pc[t] = "killset" /\ pc'[t] = "raisefind" /\ (\A u \in Threads : u # t => pc'[u] = pc[u])
    BY <1>s, <1>t DEF KillSet, Goto, TypeOK, MsgTypeOK
  <2>2. UNCHANGED <<target, freed, kills, fault>>
    BY <1>s, <1>t DEF KillSet, Goto, TypeOK, MsgTypeOK
  <2>3. killMsg'[target[t]] = nth[t] /\ (\A u \in Threads : u # target[t] => killMsg'[u] = killMsg[u])
    BY <1>s, <1>t DEF KillSet, Goto, TypeOK, MsgTypeOK
  <2>4. nth'[t] = 0 /\ (\A u \in Threads : u # t => nth'[u] = nth[u])
    BY <1>s, <1>t DEF KillSet, Goto, TypeOK, MsgTypeOK
  <2>x. KillerOK(t)
    BY <1>i, <2>1 DEF KillersInv, Killing
  <2>a. KillersInv'
    <3> SUFFICES ASSUME NEW a \in Threads, pc'[a] \in Killing PROVE KillerOK(a)'
      BY DEF KillersInv
    <3>0. target[a] \in Threads /\ target[t] \in Threads /\ MessageOK(target[a])
      BY <1>c, <1>i DEF MessagesInv
    <3>1. CASE a = t
      BY <2>1, <3>1 DEF Killing
    <3>2. CASE a # t
      <4>1. pc[a] \in Killing /\ KillerOK(a) /\ pc'[a] = pc[a] /\ nth'[a] = nth[a] /\ target'[a] = target[a]
        BY <1>i, <2>1, <2>2, <2>3, <2>4, <3>2 DEF KillersInv
      <4>2. target[a] = target[t] => nth[a] # nth[t]
        BY <1>i, <2>1, <3>2, <4>1 DEF DistinctInv, Killing
      <4>q. QED
        BY ONLY <1>c, <2>x, <2>1, <2>2, <2>3, <3>0, <4>1, <4>2, a \in Threads DEF KillerOK
    <3>q. QED
      BY <3>1, <3>2
  <2>b. DistinctInv'
    BY <1>i, <2>1, <2>2, <2>4 DEF DistinctInv, Killing
  <2>c. MessagesInv'
    <3> SUFFICES ASSUME NEW u \in Threads PROVE MessageOK(u)'
      BY DEF MessagesInv
    <3>0. MessageOK(u) /\ u \in Threads /\ target[t] \in Threads
      BY <1>i, <1>c DEF MessagesInv
    <3>1. CASE u = target[t]
      BY ONLY <1>c, <3>0, <3>1, <2>2, <2>3, <2>x, <2>1 DEF MessageOK, IsFreed, KillerOK
    <3>2. CASE u # target[t]
      BY ONLY <1>c, <3>0, <3>2, <2>2, <2>3 DEF MessageOK
    <3>q. QED
      BY <3>1, <3>2
  <2>d. ReplacedInv'
    <3> SUFFICES ASSUME NEW u \in Threads, IsFreed(u, killMsg[u])'
                 PROVE  \E a \in Threads : pc'[a] = "killset" /\ target'[a] = u
      BY DEF ReplacedInv
    <3>1. u # target[t]
      BY <1>c, <2>2, <2>3, <2>x DEF IsFreed, KillerOK
    <3>2. IsFreed(u, killMsg[u])
      BY <2>2, <2>3, <3>1 DEF IsFreed
    <3>3. PICK a \in Threads : pc[a] = "killset" /\ target[a] = u
      BY <1>i, <3>2 DEF ReplacedInv
    <3>q. QED
      BY <2>1, <2>2, <3>1, <3>3
  <2>q. QED
    BY <2>a, <2>b, <2>c, <2>d DEF KillInv
<1>p. ASSUME NEW t \in Threads, PushKill(t) PROVE KillInv'
  <2>1. pc[t] = "pushkill" /\ pc'[t] \in {"remove", "unblock"} /\ (\A u \in Threads : u # t => pc'[u] = pc[u])
    BY <1>p, <1>t DEF PushKill, LookAtQueue, Goto, TypeOK, MsgTypeOK
  <2>2. UNCHANGED <<target, freed, kills, killMsg, nth>>
    BY <1>p, <1>t DEF PushKill, LookAtQueue, Goto, TypeOK, MsgTypeOK
  <2>3. fault'[t] = fault[t] \cup (IF IsFreed(t, held[t]) THEN {"readfreed"} ELSE {}) /\ (\A u \in Threads : u # t => fault'[u] = fault[u])
    BY <1>p, <1>t DEF PushKill, LookAtQueue, Goto, TypeOK, MsgTypeOK
  <2>a. KillersInv'
    BY ONLY <1>c, <1>i, <2>1, <2>2, <2>3, t \in Threads DEF KillersInv, KillerOK, MessagesInv, MessageOK, DistinctInv, Killing
  <2>b. DistinctInv'
    BY ONLY <1>c, <1>i, <2>1, <2>2, <2>3, t \in Threads DEF DistinctInv, KillersInv, KillerOK, Killing
  <2>c. MessagesInv'
    <3> SUFFICES ASSUME NEW u \in Threads PROVE MessageOK(u)'
      BY DEF MessagesInv
    <3>0. MessageOK(u) /\ u \in Threads /\ t \in Threads
      BY <1>i, <1>c DEF MessagesInv
    <3>1. CASE u = t
      BY ONLY <1>c, <3>0, <3>1, <2>2, <2>3 DEF MessageOK, IsFreed
    <3>2. CASE u # t
      BY ONLY <1>c, <3>0, <3>2, <2>2, <2>3 DEF MessageOK
    <3>q. QED
      BY <3>1, <3>2
  <2>d. ReplacedInv'
    BY ONLY <1>i, <2>1, <2>2 DEF ReplacedInv, IsFreed
  <2>q. QED
    BY <2>a, <2>b, <2>c, <2>d DEF KillInv
<1>o. ASSUME NEW t \in Threads, SessionQuit(t) PROVE KillInv'
  <2>1. pc[t] = "quit" /\ pc'[t] = "gone" /\ (\A u \in Threads : u # t => pc'[u] = pc[u]) /\ (\A u \in Threads : pc[u] \notin Killing)
    BY <1>o, <1>t DEF SessionQuit, MayWriteSessions, At, Goto, Killing, TypeOK, MsgTypeOK
  <2>2. UNCHANGED <<target, nth>>
    BY <1>o, <1>t DEF SessionQuit, MayWriteSessions, At, Goto, Killing, TypeOK, MsgTypeOK
  <2>3. killMsg'[t] = 0 /\ (\A u \in Threads : u # t => killMsg'[u] = killMsg[u])
    BY <1>o, <1>t DEF SessionQuit, MayWriteSessions, At, Goto, Killing, TypeOK, MsgTypeOK
  <2>4. freed'[t] = {} /\ (\A u \in Threads : u # t => freed'[u] = freed[u])
    BY <1>o, <1>t DEF SessionQuit, MayWriteSessions, At, Goto, Killing, TypeOK, MsgTypeOK
  <2>5. kills'[t] = 0 /\ (\A u \in Threads : u # t => kills'[u] = kills[u])
    BY <1>o, <1>t DEF SessionQuit, MayWriteSessions, At, Goto, Killing, TypeOK, MsgTypeOK
  <2>6. fault'[t] = {} /\ (\A u \in Threads : u # t => fault'[u] = fault[u])
    BY <1>o, <1>t DEF SessionQuit, MayWriteSessions, At, Goto, Killing, TypeOK, MsgTypeOK
  <2>a. KillersInv'
    BY ONLY <1>c, <1>i, <2>1, <2>2, <2>3, <2>4, <2>5, <2>6, t \in Threads DEF KillersInv, KillerOK, MessagesInv, MessageOK, DistinctInv, Killing
  <2>b. DistinctInv'
    BY ONLY <1>c, <1>i, <2>1, <2>2, <2>3, <2>4, <2>5, <2>6, t \in Threads DEF DistinctInv, KillersInv, KillerOK, Killing
  <2>c. MessagesInv'
    <3> SUFFICES ASSUME NEW u \in Threads PROVE MessageOK(u)'
      BY DEF MessagesInv
    <3>0. MessageOK(u) /\ u \in Threads /\ t \in Threads
      BY <1>i, <1>c DEF MessagesInv
    <3>1. CASE u = t
      BY ONLY <1>c, <3>0, <3>1, <2>3, <2>4, <2>5, <2>6 DEF MessageOK, IsFreed
    <3>2. CASE u # t
      BY ONLY <1>c, <3>0, <3>2, <2>3, <2>4, <2>5, <2>6 DEF MessageOK
    <3>q. QED
      BY <3>1, <3>2
  <2>d. ReplacedInv'
    BY ONLY <1>c, <1>i, <2>1, <2>2, <2>3, <2>4, <2>5, <2>6, t \in Threads DEF ReplacedInv, KillersInv, KillerOK, IsFreed, Killing
  <2>q. QED
    BY <2>a, <2>b, <2>c, <2>d DEF KillInv
<1>u. CASE UNCHANGED vars
  BY <1>u, <1>t, KillFrame DEF vars
<1>q. QED
  BY <1>1, <1>2, <1>3, <1>4, <1>5, <1>6, <1>7, <1>8, <1>9, <1>10, <1>11, <1>12, <1>13, <1>14, <1>15, <1>16, <1>17, <1>18, <1>19, <1>20, <1>21, <1>22, <1>23, <1>24, <1>25, <1>26, <1>27, <1>28, <1>29, <1>30, <1>31, <1>32, <1>33,
     <1>m, <1>e, <1>f, <1>s, <1>p, <1>o, <1>u DEF Next, ThreadStep

LEMMA IInvInit == Init => IInv
  BY MaxRequestsAssumption
  DEF Init, IInv, TypeOK, TablesInv, HoldersInv, NothingUnsent, LateInv, InLoop, LoopPC,
      Ending, PC, AfterLog, KillInv, KillersInv, DistinctInv, MessagesInv, MessageOK, ReplacedInv, Killing,
      IsFreed, Faults, MsgTypeOK

LEMMA IInvHolds == Spec => []IInv
<1>1. IInv /\ [Next]_vars => IInv'
  BY TypeStep, TablesStep, HoldersStep, UnsentStep, LateStep, KillStep DEF IInv
<1>q. QED
  BY IInvInit, <1>1, PTL DEF Spec

-----------------------------------------------------------------------------
\* Every variable of the client threads keeps its type.
THEOREM ClientTypeOK == Spec => []TypeOK
<1>1. IInv => TypeOK
  BY DEF IInv
<1>q. QED
  BY IInvHolds, <1>1, PTL

\* No client thread raises a signaller, pushes to a queue or marks a session that
\* its owner has freed (mbb_thread_raise, mbb_log_push); the message of a kill is
\* read freed only after a second kill of the session, freed twice only after a
\* third, and never by mbb_session_quit (kill_session, push_kill_message).
THEOREM ClientNoFreedUse == Spec => []NoFreedUse
<1>1. IInv => NoFreedUse
  BY DEF IInv, TypeOK, TablesInv, HoldersInv, Killing, KillInv, MessagesInv, MessageOK,
         ReplacedInv, MayWriteSessions, At, NoFreedUse
<1>q. QED
  BY IInvHolds, <1>1, PTL

\* A session that xml_client_loop ends by itself has sent every answer and its
\* kill message.
THEOREM ClientNothingUnsent == Spec => []NothingUnsent
<1>1. IInv => NothingUnsent
  BY DEF IInv
<1>q. QED
  BY IInvHolds, <1>1, PTL

\* A killed session reads at most once more (xml_client_loop).
THEOREM ClientOneReadAfterKill == Spec => []OneReadAfterKill
<1>1. IInv => OneReadAfterKill
  BY DEF IInv, LateInv, OneReadAfterKill
<1>q. QED
  BY IInvHolds, <1>1, PTL
=============================================================================
