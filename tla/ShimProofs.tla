----------------------------- MODULE ShimProofs -----------------------------
(***************************************************************************)
(* Theorems about Shim, for every set of connections, processes, routes    *)
(* and methods, for every allow-list and accept timeout.                   *)
(***************************************************************************)
EXTENDS Shim, TLAPS

\* Descriptors of different kinds of processes, or of different processes,
\* are different: what the bookkeeping of lfd and cfd rests on.
LEMMA HolderFacts ==
  /\ \A p, c : Caller(p) # Child(c) /\ Caller(p) # Grand(c)
  /\ \A c, d : Child(c) # Grand(d)
  /\ \A p, q : Caller(p) = Caller(q) => p = q
  /\ \A c, d : Child(c) = Child(d) => c = d
  /\ \A c, d : Grand(c) = Grand(d) => c = d
BY DEF Caller, Child, Grand

\* The processes of the model are the holders of descriptors.
LEMMA HolderTypes ==
  /\ \A p \in Procs : Caller(p) \in Holders
  /\ \A c \in Conns : Child(c) \in Holders /\ Grand(c) \in Holders
BY DEF Holders
-----------------------------------------------------------------------------
(* Types.  A bound on tries is not inductive without the phase in which it *)
(* is counted: the last look leaves the peek.                              *)

TriesBound ==
  \A c \in Conns :
    grand[c] \in {"none", "start", "accept", "peek"} => tries[c] < PeekTries

\* The caller forks once, so a grandchild is made once, without an alarm.
ForkOnce ==
  \A c \in Conns :
    /\ call[c] \in {"idle", "listening"} => child[c] = "none"
    /\ child[c] # "gone" => grand[c] = "none"
    /\ grand[c] \in {"none", "start"} => alarm[c] = "off"

TypeInv == TypeOK /\ TriesBound /\ ForkOnce

\* Every step of the shim keeps the types.
LEMMA TypeStep == TypeInv /\ [Next]_vars => TypeInv'
<1> USE ConnAssumption, TimeAssumption, HolderTypes
    DEF TypeInv, TypeOK, TriesBound, ForkOnce, CallStates, ChildStates, GrandStates, Ended,
       ConnStates, Sent, Answers, Heard
<1>1. ASSUME TypeInv, [Next]_vars PROVE TypeInv'
  <2> USE <1>1
  <2>1. ASSUME NEW c \in Conns, Listen(c) PROVE TypeInv'
    BY <2>1 DEF Listen
  <2>2. ASSUME NEW c \in Conns, ListenFails(c) PROVE TypeInv'
    BY <2>2 DEF ListenFails
  <2>3. ASSUME NEW c \in Conns, Fork(c) PROVE TypeInv'
    BY <2>3 DEF Fork, Copied, Closed
  <2>4. ASSUME NEW c \in Conns, ForkFails(c) PROVE TypeInv'
    BY <2>4 DEF ForkFails
  <2>5. ASSUME NEW c \in Conns, CloseListen(c) PROVE TypeInv'
    BY <2>5 DEF CloseListen
  <2>6. ASSUME NEW c \in Conns, Connect(c) \/ ConnectEarly(c) PROVE TypeInv'
    <3>1. /\ call[c] = "waiting"
          /\ call' \in {[call EXCEPT ![c] = "connected"], [call EXCEPT ![c] = "failed"]}
          /\ conn' \in {[conn EXCEPT ![c] = "queued"], conn}
          /\ UNCHANGED <<alive, route, child, grand, alarm, tries, lfd, cfd, wire,
                         req, shut, unread, answer, heard>>
      BY <2>6 DEF Connect, ConnectEarly, Redirect
    <3>2. QED
      BY <3>1
  <2>7. ASSUME NEW c \in Conns, ChildForks(c) PROVE TypeInv'
    BY <2>7 DEF ChildForks, Copied, Closed
  <2>8. ASSUME NEW c \in Conns, ChildForkFails(c) PROVE TypeInv'
    BY <2>8 DEF ChildForkFails, Orphaned, Closed
  <2>9. ASSUME NEW c \in Conns, StartAlarm(c) PROVE TypeInv'
    BY <2>9 DEF StartAlarm
  <2>10. ASSUME NEW c \in Conns, Accept(c) PROVE TypeInv'
    BY <2>10 DEF Accept
  <2>11. ASSUME NEW c \in Conns, AcceptFails(c) PROVE TypeInv'
    BY <2>11 DEF AcceptFails, GrandEnds, Orphaned, Closed
  <2>12. ASSUME NEW c \in Conns, PeekEof(c) PROVE TypeInv'
    BY <2>12 DEF PeekEof, Decide
  <2>13. ASSUME NEW c \in Conns, PeekPartial(c) PROVE TypeInv'
    BY <2>13 DEF PeekPartial, Decide
  <2>14. ASSUME NEW c \in Conns, PeekLine(c) PROVE TypeInv'
    BY <2>14 DEF PeekLine, Decide
  <2>15. ASSUME NEW c \in Conns, RejectWrite(c) PROVE TypeInv'
    BY <2>15 DEF RejectWrite
  <2>16. ASSUME NEW c \in Conns, RejectShut(c) PROVE TypeInv'
    BY <2>16 DEF RejectShut
  <2>17. ASSUME NEW c \in Conns, DrainRead(c) PROVE TypeInv'
    BY <2>17 DEF DrainRead
  <2>18. ASSUME NEW c \in Conns, DrainEof(c) PROVE TypeInv'
    BY <2>18 DEF DrainEof, GrandEnds, Orphaned, Closed
  <2>19. ASSUME NEW c \in Conns, Exec(c) PROVE TypeInv'
    BY <2>19 DEF Exec, Closed
  <2>20. ASSUME NEW c \in Conns, AlarmFires(c) PROVE TypeInv'
    BY <2>20 DEF AlarmFires, GrandEnds, Orphaned, Closed
  <2>21. ASSUME NEW c \in Conns, HandlerAnswers(c) PROVE TypeInv'
    BY <2>21 DEF HandlerAnswers
  <2>22. ASSUME NEW c \in Conns, HandlerExits(c) PROVE TypeInv'
    BY <2>22 DEF HandlerExits, GrandEnds, Orphaned, Closed
  <2>23. ASSUME NEW c \in Conns, StreamBreaks(c) PROVE TypeInv'
    BY <2>23 DEF StreamBreaks, GrandEnds, Orphaned, Closed
  <2>24. ASSUME NEW c \in Conns, SendPartial(c) PROVE TypeInv'
    BY <2>24 DEF SendPartial, SendMore, CanUse
  <2>25. ASSUME NEW c \in Conns, SendLine(c) PROVE TypeInv'
    BY <2>25 DEF SendLine, SendMore, CanUse
  <2>26. ASSUME NEW c \in Conns, SendRest(c) PROVE TypeInv'
    BY <2>26 DEF SendRest, SendMore, CanUse
  <2>27. ASSUME NEW c \in Conns, ClientShuts(c) PROVE TypeInv'
    BY <2>27 DEF ClientShuts, CanUse
  <2>28. ASSUME NEW c \in Conns, Read(c) PROVE TypeInv'
    BY <2>28 DEF Read, CanUse
  <2>29. ASSUME NEW c \in Conns, ClientCloses(c) PROVE TypeInv'
    BY <2>29 DEF ClientCloses, CanUse
  <2>30. ASSUME NEW p \in Procs, CallerDies(p) PROVE TypeInv'
    BY <2>30 DEF CallerDies, Orphaned, Closed
  <2>31. CASE UNCHANGED vars
    BY <2>31 DEF vars
  <2>32. QED
    BY <2>1, <2>2, <2>3, <2>4, <2>5, <2>6, <2>7, <2>8, <2>9, <2>10, <2>11, <2>12, <2>13, <2>14,
       <2>15, <2>16, <2>17, <2>18, <2>19, <2>20, <2>21, <2>22, <2>23, <2>24, <2>25, <2>26, <2>27,
       <2>28, <2>29, <2>30, <2>31
    DEF Next, CallerStep, ChildStep, GateStep, HandlerStep, ClientStep
<1>2. QED
  BY <1>1

\* So they are kept for ever.
LEMMA TypeInvariant == Spec => []TypeInv
<1>1. Init => TypeInv
  BY TimeAssumption DEF Init, TypeInv, TypeOK, TriesBound, ForkOnce, CallStates, ChildStates,
     GrandStates, Ended, ConnStates, Sent, Answers, Heard
<1>2. QED
  BY <1>1, TypeStep, PTL DEF Spec

\* The state of the shim always has its type: no process goes on after its
\* end, no wait is counted beyond its limit.
THEOREM TypeCorrect == Spec => []TypeOK
BY TypeInvariant, PTL DEF TypeInv
-----------------------------------------------------------------------------
(* The method gate.                                                        *)

\* What GateSound needs of the step before exec: an admitted request is out
\* and allowed already, and a line that is out does not change any more.
GateKept ==
  \A c \in Conns :
    grand[c] \in {"admit", "handler", "exited"} /\ Gated(route[c]) =>
      /\ wire[c] \in {"line", "full"}
      /\ req[c] \in RouteMethods[route[c]]

\* No step lets a refused request through.
LEMMA GateStepKeeps == TypeInv /\ GateKept /\ [Next]_vars => GateKept'
<1> USE ConnAssumption DEF TypeInv, TypeOK, GateKept
<1>1. ASSUME TypeInv, GateKept, [Next]_vars PROVE GateKept'
  <2> USE <1>1
  <2>1. ASSUME NEW c \in Conns, Listen(c) PROVE GateKept'
    BY <2>1 DEF Listen
  <2>2. ASSUME NEW c \in Conns, ListenFails(c) PROVE GateKept'
    BY <2>2 DEF ListenFails
  <2>3. ASSUME NEW c \in Conns, Fork(c) PROVE GateKept'
    BY <2>3 DEF Fork, Copied, Closed
  <2>4. ASSUME NEW c \in Conns, ForkFails(c) PROVE GateKept'
    BY <2>4 DEF ForkFails
  <2>5. ASSUME NEW c \in Conns, CloseListen(c) PROVE GateKept'
    BY <2>5 DEF CloseListen
  <2>6. ASSUME NEW c \in Conns, Connect(c) \/ ConnectEarly(c) PROVE GateKept'
    <3>1. /\ call[c] = "waiting"
          /\ call' \in {[call EXCEPT ![c] = "connected"], [call EXCEPT ![c] = "failed"]}
          /\ conn' \in {[conn EXCEPT ![c] = "queued"], conn}
          /\ UNCHANGED <<alive, route, child, grand, alarm, tries, lfd, cfd, wire,
                         req, shut, unread, answer, heard>>
      BY <2>6 DEF Connect, ConnectEarly, Redirect
    <3>2. QED
      BY <3>1
  <2>7. ASSUME NEW c \in Conns, ChildForks(c) PROVE GateKept'
    BY <2>7 DEF ChildForks, Copied, Closed
  <2>8. ASSUME NEW c \in Conns, ChildForkFails(c) PROVE GateKept'
    BY <2>8 DEF ChildForkFails, Orphaned, Closed
  <2>9. ASSUME NEW c \in Conns, StartAlarm(c) PROVE GateKept'
    BY <2>9 DEF StartAlarm
  <2>10. ASSUME NEW c \in Conns, Accept(c) PROVE GateKept'
    BY <2>10 DEF Accept
  <2>11. ASSUME NEW c \in Conns, AcceptFails(c) PROVE GateKept'
    BY <2>11 DEF AcceptFails, GrandEnds, Orphaned, Closed
  <2>12. ASSUME NEW c \in Conns, PeekEof(c) PROVE GateKept'
    BY <2>12 DEF PeekEof, Decide
  <2>13. ASSUME NEW c \in Conns, PeekPartial(c) PROVE GateKept'
    BY <2>13 DEF PeekPartial, Decide
  <2>14. ASSUME NEW c \in Conns, PeekLine(c) PROVE GateKept'
    BY <2>14 DEF PeekLine, Decide, method_allowed
  <2>15. ASSUME NEW c \in Conns, RejectWrite(c) PROVE GateKept'
    BY <2>15 DEF RejectWrite
  <2>16. ASSUME NEW c \in Conns, RejectShut(c) PROVE GateKept'
    BY <2>16 DEF RejectShut
  <2>17. ASSUME NEW c \in Conns, DrainRead(c) PROVE GateKept'
    BY <2>17 DEF DrainRead
  <2>18. ASSUME NEW c \in Conns, DrainEof(c) PROVE GateKept'
    BY <2>18 DEF DrainEof, GrandEnds, Orphaned, Closed
  <2>19. ASSUME NEW c \in Conns, Exec(c) PROVE GateKept'
    BY <2>19 DEF Exec, Closed
  <2>20. ASSUME NEW c \in Conns, AlarmFires(c) PROVE GateKept'
    BY <2>20 DEF AlarmFires, GrandEnds, Orphaned, Closed
  <2>21. ASSUME NEW c \in Conns, HandlerAnswers(c) PROVE GateKept'
    BY <2>21 DEF HandlerAnswers
  <2>22. ASSUME NEW c \in Conns, HandlerExits(c) PROVE GateKept'
    BY <2>22 DEF HandlerExits, GrandEnds, Orphaned, Closed
  <2>23. ASSUME NEW c \in Conns, StreamBreaks(c) PROVE GateKept'
    BY <2>23 DEF StreamBreaks, GrandEnds, Orphaned, Closed
  <2>24. ASSUME NEW c \in Conns, SendPartial(c) PROVE GateKept'
    BY <2>24 DEF SendPartial, SendMore, CanUse
  <2>25. ASSUME NEW c \in Conns, SendLine(c) PROVE GateKept'
    BY <2>25 DEF SendLine, SendMore, CanUse
  <2>26. ASSUME NEW c \in Conns, SendRest(c) PROVE GateKept'
    BY <2>26 DEF SendRest, SendMore, CanUse
  <2>27. ASSUME NEW c \in Conns, ClientShuts(c) PROVE GateKept'
    BY <2>27 DEF ClientShuts, CanUse
  <2>28. ASSUME NEW c \in Conns, Read(c) PROVE GateKept'
    BY <2>28 DEF Read, CanUse
  <2>29. ASSUME NEW c \in Conns, ClientCloses(c) PROVE GateKept'
    BY <2>29 DEF ClientCloses, CanUse
  <2>30. ASSUME NEW p \in Procs, CallerDies(p) PROVE GateKept'
    BY <2>30 DEF CallerDies, Orphaned, Closed
  <2>31. CASE UNCHANGED vars
    BY <2>31 DEF vars
  <2>32. QED
    BY <2>1, <2>2, <2>3, <2>4, <2>5, <2>6, <2>7, <2>8, <2>9, <2>10, <2>11, <2>12, <2>13, <2>14,
       <2>15, <2>16, <2>17, <2>18, <2>19, <2>20, <2>21, <2>22, <2>23, <2>24, <2>25, <2>26, <2>27,
       <2>28, <2>29, <2>30, <2>31
    DEF Next, CallerStep, ChildStep, GateStep, HandlerStep, ClientStep
<1>2. QED
  BY <1>1

\* A handler runs on a gated route only for a request whose line has arrived
\* and whose method the allow-list names.
THEOREM GateIsSound == Spec => []GateSound
<1>1. Init => GateKept
  BY DEF Init, GateKept
<1>2. GateKept => GateSound
  BY DEF GateKept, GateSound
<1>3. QED
  BY <1>1, <1>2, TypeInvariant, GateStepKeeps, PTL DEF Spec
-----------------------------------------------------------------------------
(* The accept alarm.                                                       *)

\* No step leaves an alarm in a handler.
LEMMA UntimedStep == TypeInv /\ HandlerUntimed /\ [Next]_vars => HandlerUntimed'
<1> USE ConnAssumption DEF TypeInv, TypeOK, HandlerUntimed
<1>1. ASSUME TypeInv, HandlerUntimed, [Next]_vars PROVE HandlerUntimed'
  <2> USE <1>1
  <2>1. ASSUME NEW c \in Conns, Listen(c) PROVE HandlerUntimed'
    BY <2>1 DEF Listen
  <2>2. ASSUME NEW c \in Conns, ListenFails(c) PROVE HandlerUntimed'
    BY <2>2 DEF ListenFails
  <2>3. ASSUME NEW c \in Conns, Fork(c) PROVE HandlerUntimed'
    BY <2>3 DEF Fork, Copied, Closed
  <2>4. ASSUME NEW c \in Conns, ForkFails(c) PROVE HandlerUntimed'
    BY <2>4 DEF ForkFails
  <2>5. ASSUME NEW c \in Conns, CloseListen(c) PROVE HandlerUntimed'
    BY <2>5 DEF CloseListen
  <2>6. ASSUME NEW c \in Conns, Connect(c) \/ ConnectEarly(c) PROVE HandlerUntimed'
    <3>1. /\ call[c] = "waiting"
          /\ call' \in {[call EXCEPT ![c] = "connected"], [call EXCEPT ![c] = "failed"]}
          /\ conn' \in {[conn EXCEPT ![c] = "queued"], conn}
          /\ UNCHANGED <<alive, route, child, grand, alarm, tries, lfd, cfd, wire,
                         req, shut, unread, answer, heard>>
      BY <2>6 DEF Connect, ConnectEarly, Redirect
    <3>2. QED
      BY <3>1
  <2>7. ASSUME NEW c \in Conns, ChildForks(c) PROVE HandlerUntimed'
    BY <2>7 DEF ChildForks, Copied, Closed
  <2>8. ASSUME NEW c \in Conns, ChildForkFails(c) PROVE HandlerUntimed'
    BY <2>8 DEF ChildForkFails, Orphaned, Closed
  <2>9. ASSUME NEW c \in Conns, StartAlarm(c) PROVE HandlerUntimed'
    BY <2>9 DEF StartAlarm
  <2>10. ASSUME NEW c \in Conns, Accept(c) PROVE HandlerUntimed'
    BY <2>10 DEF Accept
  <2>11. ASSUME NEW c \in Conns, AcceptFails(c) PROVE HandlerUntimed'
    BY <2>11 DEF AcceptFails, GrandEnds, Orphaned, Closed
  <2>12. ASSUME NEW c \in Conns, PeekEof(c) PROVE HandlerUntimed'
    BY <2>12 DEF PeekEof, Decide
  <2>13. ASSUME NEW c \in Conns, PeekPartial(c) PROVE HandlerUntimed'
    BY <2>13 DEF PeekPartial, Decide
  <2>14. ASSUME NEW c \in Conns, PeekLine(c) PROVE HandlerUntimed'
    BY <2>14 DEF PeekLine, Decide
  <2>15. ASSUME NEW c \in Conns, RejectWrite(c) PROVE HandlerUntimed'
    BY <2>15 DEF RejectWrite
  <2>16. ASSUME NEW c \in Conns, RejectShut(c) PROVE HandlerUntimed'
    BY <2>16 DEF RejectShut
  <2>17. ASSUME NEW c \in Conns, DrainRead(c) PROVE HandlerUntimed'
    BY <2>17 DEF DrainRead
  <2>18. ASSUME NEW c \in Conns, DrainEof(c) PROVE HandlerUntimed'
    BY <2>18 DEF DrainEof, GrandEnds, Orphaned, Closed
  <2>19. ASSUME NEW c \in Conns, Exec(c) PROVE HandlerUntimed'
    BY <2>19 DEF Exec, Closed
  <2>20. ASSUME NEW c \in Conns, AlarmFires(c) PROVE HandlerUntimed'
    BY <2>20 DEF AlarmFires, GrandEnds, Orphaned, Closed
  <2>21. ASSUME NEW c \in Conns, HandlerAnswers(c) PROVE HandlerUntimed'
    BY <2>21 DEF HandlerAnswers
  <2>22. ASSUME NEW c \in Conns, HandlerExits(c) PROVE HandlerUntimed'
    BY <2>22 DEF HandlerExits, GrandEnds, Orphaned, Closed
  <2>23. ASSUME NEW c \in Conns, StreamBreaks(c) PROVE HandlerUntimed'
    BY <2>23 DEF StreamBreaks, GrandEnds, Orphaned, Closed
  <2>24. ASSUME NEW c \in Conns, SendPartial(c) PROVE HandlerUntimed'
    BY <2>24 DEF SendPartial, SendMore, CanUse
  <2>25. ASSUME NEW c \in Conns, SendLine(c) PROVE HandlerUntimed'
    BY <2>25 DEF SendLine, SendMore, CanUse
  <2>26. ASSUME NEW c \in Conns, SendRest(c) PROVE HandlerUntimed'
    BY <2>26 DEF SendRest, SendMore, CanUse
  <2>27. ASSUME NEW c \in Conns, ClientShuts(c) PROVE HandlerUntimed'
    BY <2>27 DEF ClientShuts, CanUse
  <2>28. ASSUME NEW c \in Conns, Read(c) PROVE HandlerUntimed'
    BY <2>28 DEF Read, CanUse
  <2>29. ASSUME NEW c \in Conns, ClientCloses(c) PROVE HandlerUntimed'
    BY <2>29 DEF ClientCloses, CanUse
  <2>30. ASSUME NEW p \in Procs, CallerDies(p) PROVE HandlerUntimed'
    BY <2>30 DEF CallerDies, Orphaned, Closed
  <2>31. CASE UNCHANGED vars
    BY <2>31 DEF vars
  <2>32. QED
    BY <2>1, <2>2, <2>3, <2>4, <2>5, <2>6, <2>7, <2>8, <2>9, <2>10, <2>11, <2>12, <2>13, <2>14,
       <2>15, <2>16, <2>17, <2>18, <2>19, <2>20, <2>21, <2>22, <2>23, <2>24, <2>25, <2>26, <2>27,
       <2>28, <2>29, <2>30, <2>31
    DEF Next, CallerStep, ChildStep, GateStep, HandlerStep, ClientStep
<1>2. QED
  BY <1>1

\* No alarm of the shim is pending in a handler.
THEOREM HandlerIsUntimed == Spec => []HandlerUntimed
<1>1. Init => HandlerUntimed
  BY DEF Init, HandlerUntimed
<1>2. QED
  BY <1>1, TypeInvariant, UntimedStep, PTL DEF Spec
-----------------------------------------------------------------------------
(* Who holds a listening socket.                                           *)

\* A listening descriptor belongs to the caller until it is closed there, or
\* to a forked process of the same caller that has not ended; the grandchild
\* of the call itself has it only until accept().
ListenHolders ==
  \A c \in Conns : \A h \in lfd[c] :
    \/ h = Caller(ProcOf[c]) /\ call[c] \in {"listening", "forked"}
    \/ \E d \in Conns : h = Child(d) /\ ProcOf[d] = ProcOf[c] /\ child[d] = "running"
    \/ \E d \in Conns : /\ h = Grand(d) /\ ProcOf[d] = ProcOf[c]
                        /\ d = c => grand[d] \in {"start", "accept"}

\* A connection waits only on a socket somebody still holds.
QueueHeld ==
  \A c \in Conns :
    conn[c] = "queued" =>
      /\ lfd[c] # {}
      /\ call[c] \in {"connected", "closed"}

\* A queued connection keeps somebody to accept it.
LEMMA QueueStep == TypeInv /\ QueueHeld /\ [Next]_vars => QueueHeld'
<1> USE ConnAssumption, HolderFacts DEF TypeInv, TypeOK, ForkOnce, QueueHeld
<1>1. ASSUME TypeInv, QueueHeld, [Next]_vars PROVE QueueHeld'
  <2> USE <1>1
  <2>1. ASSUME NEW c \in Conns, Listen(c) PROVE QueueHeld'
    BY <2>1 DEF Listen
  <2>2. ASSUME NEW c \in Conns, ListenFails(c) PROVE QueueHeld'
    BY <2>2 DEF ListenFails
  <2>3. ASSUME NEW c \in Conns, Fork(c) PROVE QueueHeld'
    BY <2>3 DEF Fork, Copied, Closed
  <2>4. ASSUME NEW c \in Conns, ForkFails(c) PROVE QueueHeld'
    BY <2>4 DEF ForkFails
  <2>5. ASSUME NEW c \in Conns, CloseListen(c) PROVE QueueHeld'
    BY <2>5 DEF CloseListen
  <2>6. ASSUME NEW c \in Conns, Connect(c) \/ ConnectEarly(c) PROVE QueueHeld'
    <3>1. /\ call[c] = "waiting"
          /\ \/ lfd[c] # {} /\ call' = [call EXCEPT ![c] = "connected"]
             \/ conn' = conn /\ call' = [call EXCEPT ![c] = "failed"]
          /\ conn' \in {[conn EXCEPT ![c] = "queued"], conn}
          /\ UNCHANGED <<child, lfd>>
      BY <2>6 DEF Connect, ConnectEarly, Redirect
    <3>2. QED
      BY <3>1
  <2>7. ASSUME NEW c \in Conns, ChildForks(c) PROVE QueueHeld'
    <3>1. ASSUME NEW d \in Conns, conn'[d] = "queued" PROVE lfd'[d] # {}
      <4>1. PICK h : h \in lfd[d]
        BY <2>7, <3>1 DEF ChildForks
      <4>2. CASE h = Child(c)
        BY <2>7, <4>1, <4>2 DEF ChildForks, Copied, Closed
      <4>3. CASE h # Child(c)
        BY <2>7, <4>1, <4>3 DEF ChildForks, Copied, Closed
      <4>4. QED
        BY <4>2, <4>3
    <3>2. QED
      BY <2>7, <3>1 DEF ChildForks
  <2>8. ASSUME NEW c \in Conns, ChildForkFails(c) PROVE QueueHeld'
    BY <2>8 DEF ChildForkFails, Orphaned, Closed
  <2>9. ASSUME NEW c \in Conns, StartAlarm(c) PROVE QueueHeld'
    BY <2>9 DEF StartAlarm
  <2>10. ASSUME NEW c \in Conns, Accept(c) PROVE QueueHeld'
    BY <2>10 DEF Accept
  <2>11. ASSUME NEW c \in Conns, AcceptFails(c) PROVE QueueHeld'
    BY <2>11 DEF AcceptFails, GrandEnds, Orphaned, Closed
  <2>12. ASSUME NEW c \in Conns, PeekEof(c) PROVE QueueHeld'
    BY <2>12 DEF PeekEof, Decide
  <2>13. ASSUME NEW c \in Conns, PeekPartial(c) PROVE QueueHeld'
    BY <2>13 DEF PeekPartial, Decide
  <2>14. ASSUME NEW c \in Conns, PeekLine(c) PROVE QueueHeld'
    BY <2>14 DEF PeekLine, Decide
  <2>15. ASSUME NEW c \in Conns, RejectWrite(c) PROVE QueueHeld'
    BY <2>15 DEF RejectWrite
  <2>16. ASSUME NEW c \in Conns, RejectShut(c) PROVE QueueHeld'
    BY <2>16 DEF RejectShut
  <2>17. ASSUME NEW c \in Conns, DrainRead(c) PROVE QueueHeld'
    BY <2>17 DEF DrainRead
  <2>18. ASSUME NEW c \in Conns, DrainEof(c) PROVE QueueHeld'
    BY <2>18 DEF DrainEof, GrandEnds, Orphaned, Closed
  <2>19. ASSUME NEW c \in Conns, Exec(c) PROVE QueueHeld'
    BY <2>19 DEF Exec, Closed
  <2>20. ASSUME NEW c \in Conns, AlarmFires(c) PROVE QueueHeld'
    BY <2>20 DEF AlarmFires, GrandEnds, Orphaned, Closed
  <2>21. ASSUME NEW c \in Conns, HandlerAnswers(c) PROVE QueueHeld'
    BY <2>21 DEF HandlerAnswers
  <2>22. ASSUME NEW c \in Conns, HandlerExits(c) PROVE QueueHeld'
    BY <2>22 DEF HandlerExits, GrandEnds, Orphaned, Closed
  <2>23. ASSUME NEW c \in Conns, StreamBreaks(c) PROVE QueueHeld'
    BY <2>23 DEF StreamBreaks, GrandEnds, Orphaned, Closed
  <2>24. ASSUME NEW c \in Conns, SendPartial(c) PROVE QueueHeld'
    BY <2>24 DEF SendPartial, SendMore, CanUse
  <2>25. ASSUME NEW c \in Conns, SendLine(c) PROVE QueueHeld'
    BY <2>25 DEF SendLine, SendMore, CanUse
  <2>26. ASSUME NEW c \in Conns, SendRest(c) PROVE QueueHeld'
    BY <2>26 DEF SendRest, SendMore, CanUse
  <2>27. ASSUME NEW c \in Conns, ClientShuts(c) PROVE QueueHeld'
    BY <2>27 DEF ClientShuts, CanUse
  <2>28. ASSUME NEW c \in Conns, Read(c) PROVE QueueHeld'
    BY <2>28 DEF Read, CanUse
  <2>29. ASSUME NEW c \in Conns, ClientCloses(c) PROVE QueueHeld'
    BY <2>29 DEF ClientCloses, CanUse
  <2>30. ASSUME NEW p \in Procs, CallerDies(p) PROVE QueueHeld'
    BY <2>30 DEF CallerDies, Orphaned, Closed
  <2>31. CASE UNCHANGED vars
    BY <2>31 DEF vars
  <2>32. QED
    BY <2>1, <2>2, <2>3, <2>4, <2>5, <2>6, <2>7, <2>8, <2>9, <2>10, <2>11, <2>12, <2>13, <2>14,
       <2>15, <2>16, <2>17, <2>18, <2>19, <2>20, <2>21, <2>22, <2>23, <2>24, <2>25, <2>26, <2>27,
       <2>28, <2>29, <2>30, <2>31
    DEF Next, CallerStep, ChildStep, GateStep, HandlerStep, ClientStep
<1>2. QED
  BY <1>1

\* A listening socket is held by the processes that were forked with it.
LEMMA HoldersStep == TypeInv /\ ListenHolders /\ [Next]_vars => ListenHolders'
<1> USE ConnAssumption, HolderFacts DEF TypeInv, TypeOK, ForkOnce, ListenHolders
<1>1. ASSUME TypeInv, ListenHolders, [Next]_vars PROVE ListenHolders'
  <2> USE <1>1
  <2>1. ASSUME NEW c \in Conns, Listen(c) PROVE ListenHolders'
    BY <2>1 DEF Listen
  <2>2. ASSUME NEW c \in Conns, ListenFails(c) PROVE ListenHolders'
    BY <2>2 DEF ListenFails
  <2>3. ASSUME NEW c \in Conns, Fork(c) PROVE ListenHolders'
    BY <2>3 DEF Fork, Copied, Closed
  <2>4. ASSUME NEW c \in Conns, ForkFails(c) PROVE ListenHolders'
    BY <2>4 DEF ForkFails
  <2>5. ASSUME NEW c \in Conns, CloseListen(c) PROVE ListenHolders'
    BY <2>5 DEF CloseListen
  <2>6. ASSUME NEW c \in Conns, Connect(c) \/ ConnectEarly(c) PROVE ListenHolders'
    <3>1. /\ call[c] = "waiting"
          /\ call' \in {[call EXCEPT ![c] = "connected"], [call EXCEPT ![c] = "failed"]}
          /\ conn' \in {[conn EXCEPT ![c] = "queued"], conn}
          /\ UNCHANGED <<alive, route, child, grand, alarm, tries, lfd, cfd, wire,
                         req, shut, unread, answer, heard>>
      BY <2>6 DEF Connect, ConnectEarly, Redirect
    <3>2. QED
      BY <3>1
  <2>7. ASSUME NEW c \in Conns, ChildForks(c) PROVE ListenHolders'
    BY <2>7 DEF ChildForks, Copied, Closed
  <2>8. ASSUME NEW c \in Conns, ChildForkFails(c) PROVE ListenHolders'
    BY <2>8 DEF ChildForkFails, Orphaned, Closed
  <2>9. ASSUME NEW c \in Conns, StartAlarm(c) PROVE ListenHolders'
    BY <2>9 DEF StartAlarm
  <2>10. ASSUME NEW c \in Conns, Accept(c) PROVE ListenHolders'
    BY <2>10 DEF Accept
  <2>11. ASSUME NEW c \in Conns, AcceptFails(c) PROVE ListenHolders'
    BY <2>11 DEF AcceptFails, GrandEnds, Orphaned, Closed
  <2>12. ASSUME NEW c \in Conns, PeekEof(c) PROVE ListenHolders'
    BY <2>12 DEF PeekEof, Decide
  <2>13. ASSUME NEW c \in Conns, PeekPartial(c) PROVE ListenHolders'
    BY <2>13 DEF PeekPartial, Decide
  <2>14. ASSUME NEW c \in Conns, PeekLine(c) PROVE ListenHolders'
    BY <2>14 DEF PeekLine, Decide
  <2>15. ASSUME NEW c \in Conns, RejectWrite(c) PROVE ListenHolders'
    BY <2>15 DEF RejectWrite
  <2>16. ASSUME NEW c \in Conns, RejectShut(c) PROVE ListenHolders'
    BY <2>16 DEF RejectShut
  <2>17. ASSUME NEW c \in Conns, DrainRead(c) PROVE ListenHolders'
    BY <2>17 DEF DrainRead
  <2>18. ASSUME NEW c \in Conns, DrainEof(c) PROVE ListenHolders'
    BY <2>18 DEF DrainEof, GrandEnds, Orphaned, Closed
  <2>19. ASSUME NEW c \in Conns, Exec(c) PROVE ListenHolders'
    BY <2>19 DEF Exec, Closed
  <2>20. ASSUME NEW c \in Conns, AlarmFires(c) PROVE ListenHolders'
    BY <2>20 DEF AlarmFires, GrandEnds, Orphaned, Closed
  <2>21. ASSUME NEW c \in Conns, HandlerAnswers(c) PROVE ListenHolders'
    BY <2>21 DEF HandlerAnswers
  <2>22. ASSUME NEW c \in Conns, HandlerExits(c) PROVE ListenHolders'
    BY <2>22 DEF HandlerExits, GrandEnds, Orphaned, Closed
  <2>23. ASSUME NEW c \in Conns, StreamBreaks(c) PROVE ListenHolders'
    BY <2>23 DEF StreamBreaks, GrandEnds, Orphaned, Closed
  <2>24. ASSUME NEW c \in Conns, SendPartial(c) PROVE ListenHolders'
    BY <2>24 DEF SendPartial, SendMore, CanUse
  <2>25. ASSUME NEW c \in Conns, SendLine(c) PROVE ListenHolders'
    BY <2>25 DEF SendLine, SendMore, CanUse
  <2>26. ASSUME NEW c \in Conns, SendRest(c) PROVE ListenHolders'
    BY <2>26 DEF SendRest, SendMore, CanUse
  <2>27. ASSUME NEW c \in Conns, ClientShuts(c) PROVE ListenHolders'
    BY <2>27 DEF ClientShuts, CanUse
  <2>28. ASSUME NEW c \in Conns, Read(c) PROVE ListenHolders'
    BY <2>28 DEF Read, CanUse
  <2>29. ASSUME NEW c \in Conns, ClientCloses(c) PROVE ListenHolders'
    BY <2>29 DEF ClientCloses, CanUse
  <2>30. ASSUME NEW p \in Procs, CallerDies(p) PROVE ListenHolders'
    BY <2>30 DEF CallerDies, Orphaned, Closed
  <2>31. CASE UNCHANGED vars
    BY <2>31 DEF vars
  <2>32. QED
    BY <2>1, <2>2, <2>3, <2>4, <2>5, <2>6, <2>7, <2>8, <2>9, <2>10, <2>11, <2>12, <2>13, <2>14,
       <2>15, <2>16, <2>17, <2>18, <2>19, <2>20, <2>21, <2>22, <2>23, <2>24, <2>25, <2>26, <2>27,
       <2>28, <2>29, <2>30, <2>31
    DEF Next, CallerStep, ChildStep, GateStep, HandlerStep, ClientStep
<1>2. QED
  BY <1>1
-----------------------------------------------------------------------------
\* A queued connection always has an acceptor on the way, or a stray copy of
\* its listening socket in a process another thread of its caller forked.
THEOREM QueueHasAcceptor == Spec => []QueuedHasAcceptor
<1>1. Init => QueueHeld /\ ListenHolders
  BY DEF Init, QueueHeld, ListenHolders
<1>2. ASSUME QueueHeld, ListenHolders, NEW c \in Conns, conn[c] = "queued"
      PROVE  \/ child[c] = "running" \/ grand[c] \in {"start", "accept"}
             \/ \E d \in Conns \ {c} : /\ ProcOf[d] = ProcOf[c]
                                     /\ lfd[c] \cap {Child(d), Grand(d)} # {}
  <2>1. call[c] \in {"connected", "closed"}
    BY <1>2 DEF QueueHeld
  <2>2. PICK h : h \in lfd[c]
    BY <1>2 DEF QueueHeld
  <2>3. PICK d \in Conns :
          \/ h = Child(d) /\ ProcOf[d] = ProcOf[c] /\ child[d] = "running"
          \/ /\ h = Grand(d) /\ ProcOf[d] = ProcOf[c]
             /\ d = c => grand[d] \in {"start", "accept"}
    BY <1>2, <2>1, <2>2 DEF ListenHolders
  <2>4. CASE d = c
    BY <2>1, <2>3, <2>4
  <2>5. CASE d # c
    BY <2>2, <2>3, <2>5
  <2>6. QED
    BY <2>4, <2>5
<1>3. QueueHeld /\ ListenHolders => QueuedHasAcceptor
  BY <1>2 DEF QueuedHasAcceptor
<1>4. QED
  BY <1>1, <1>3, TypeInvariant, QueueStep, HoldersStep, PTL DEF Spec
-----------------------------------------------------------------------------
(* The promise of Interception.                                            *)

\* How the phases of the serving side, the call and the connection fit: a
\* connection exists from connect() on, the gate and the handler work on an
\* open one, the drain on one that is shut for writing.
LinkPhase ==
  \A c \in Conns :
    /\ conn[c] # "none" <=> call[c] \in {"connected", "closed"}
    /\ grand[c] \in {"peek", "admit", "say405", "say400", "said", "handler"} =>
         conn[c] = "open"
    /\ grand[c] = "drain" => conn[c] = "halfclosed"

\* Who has answered in which phase, and that a client hears something only
\* after an answer or the end of its connection.
AnswerPhase ==
  \A c \in Conns :
    /\ grand[c] \in {"none", "start", "accept", "peek", "admit", "say405", "say400"} =>
         answer[c] = "none"
    /\ grand[c] \in {"handler", "exited"} => answer[c] \in {"none", "handler"}
    /\ grand[c] \in {"peek", "say405", "say400"} => Gated(route[c])
    /\ heard[c] # "nothing" => answer[c] # "none" \/ Over[c]

PromiseInv == TypeInv /\ GateKept /\ HandlerUntimed /\ LinkPhase /\ AnswerPhase

\* Every step keeps the phases in line with the connections.
LEMMA LinkStep == TypeInv /\ HandlerUntimed /\ LinkPhase /\ [Next]_vars => LinkPhase'
<1> USE ConnAssumption DEF TypeInv, TypeOK, ForkOnce, HandlerUntimed, LinkPhase
<1>1. ASSUME TypeInv, HandlerUntimed, LinkPhase, [Next]_vars PROVE LinkPhase'
  <2> USE <1>1
  <2>1. ASSUME NEW c \in Conns, Listen(c) PROVE LinkPhase'
    BY <2>1 DEF Listen
  <2>2. ASSUME NEW c \in Conns, ListenFails(c) PROVE LinkPhase'
    BY <2>2 DEF ListenFails
  <2>3. ASSUME NEW c \in Conns, Fork(c) PROVE LinkPhase'
    BY <2>3 DEF Fork, Copied, Closed
  <2>4. ASSUME NEW c \in Conns, ForkFails(c) PROVE LinkPhase'
    BY <2>4 DEF ForkFails
  <2>5. ASSUME NEW c \in Conns, CloseListen(c) PROVE LinkPhase'
    BY <2>5 DEF CloseListen
  <2>6. ASSUME NEW c \in Conns, Connect(c) \/ ConnectEarly(c) PROVE LinkPhase'
    <3>1. /\ call[c] = "waiting"
          /\ \/ /\ call' = [call EXCEPT ![c] = "connected"]
                /\ conn' = [conn EXCEPT ![c] = "queued"]
             \/ /\ call' = [call EXCEPT ![c] = "failed"]
                /\ conn' = conn
          /\ UNCHANGED <<route, grand, wire, req, answer, heard>>
      BY <2>6 DEF Connect, ConnectEarly, Redirect
    <3>2. QED
      BY <3>1
  <2>7. ASSUME NEW c \in Conns, ChildForks(c) PROVE LinkPhase'
    BY <2>7 DEF ChildForks, Copied, Closed
  <2>8. ASSUME NEW c \in Conns, ChildForkFails(c) PROVE LinkPhase'
    BY <2>8 DEF ChildForkFails, Orphaned, Closed
  <2>9. ASSUME NEW c \in Conns, StartAlarm(c) PROVE LinkPhase'
    BY <2>9 DEF StartAlarm
  <2>10. ASSUME NEW c \in Conns, Accept(c) PROVE LinkPhase'
    BY <2>10 DEF Accept
  <2>11. ASSUME NEW c \in Conns, AcceptFails(c) PROVE LinkPhase'
    BY <2>11 DEF AcceptFails, GrandEnds, Orphaned, Closed
  <2>12. ASSUME NEW c \in Conns, PeekEof(c) PROVE LinkPhase'
    BY <2>12 DEF PeekEof, Decide
  <2>13. ASSUME NEW c \in Conns, PeekPartial(c) PROVE LinkPhase'
    BY <2>13 DEF PeekPartial, Decide
  <2>14. ASSUME NEW c \in Conns, PeekLine(c) PROVE LinkPhase'
    BY <2>14 DEF PeekLine, Decide, method_allowed
  <2>15. ASSUME NEW c \in Conns, RejectWrite(c) PROVE LinkPhase'
    BY <2>15 DEF RejectWrite
  <2>16. ASSUME NEW c \in Conns, RejectShut(c) PROVE LinkPhase'
    BY <2>16 DEF RejectShut
  <2>17. ASSUME NEW c \in Conns, DrainRead(c) PROVE LinkPhase'
    BY <2>17 DEF DrainRead
  <2>18. ASSUME NEW c \in Conns, DrainEof(c) PROVE LinkPhase'
    BY <2>18 DEF DrainEof, GrandEnds, Orphaned, Closed
  <2>19. ASSUME NEW c \in Conns, Exec(c) PROVE LinkPhase'
    BY <2>19 DEF Exec, Closed
  <2>20. ASSUME NEW c \in Conns, AlarmFires(c) PROVE LinkPhase'
    BY <2>20 DEF AlarmFires, GrandEnds, Orphaned, Closed
  <2>21. ASSUME NEW c \in Conns, HandlerAnswers(c) PROVE LinkPhase'
    BY <2>21 DEF HandlerAnswers
  <2>22. ASSUME NEW c \in Conns, HandlerExits(c) PROVE LinkPhase'
    BY <2>22 DEF HandlerExits, GrandEnds, Orphaned, Closed
  <2>23. ASSUME NEW c \in Conns, StreamBreaks(c) PROVE LinkPhase'
    BY <2>23 DEF StreamBreaks, GrandEnds, Orphaned, Closed
  <2>24. ASSUME NEW c \in Conns, SendPartial(c) PROVE LinkPhase'
    BY <2>24 DEF SendPartial, SendMore, CanUse
  <2>25. ASSUME NEW c \in Conns, SendLine(c) PROVE LinkPhase'
    BY <2>25 DEF SendLine, SendMore, CanUse
  <2>26. ASSUME NEW c \in Conns, SendRest(c) PROVE LinkPhase'
    BY <2>26 DEF SendRest, SendMore, CanUse
  <2>27. ASSUME NEW c \in Conns, ClientShuts(c) PROVE LinkPhase'
    BY <2>27 DEF ClientShuts, CanUse
  <2>28. ASSUME NEW c \in Conns, Read(c) PROVE LinkPhase'
    BY <2>28 DEF Read, CanUse
  <2>29. ASSUME NEW c \in Conns, ClientCloses(c) PROVE LinkPhase'
    BY <2>29 DEF ClientCloses, CanUse
  <2>30. ASSUME NEW p \in Procs, CallerDies(p) PROVE LinkPhase'
    BY <2>30 DEF CallerDies, Orphaned, Closed
  <2>31. CASE UNCHANGED vars
    BY <2>31 DEF vars
  <2>32. QED
    BY <2>1, <2>2, <2>3, <2>4, <2>5, <2>6, <2>7, <2>8, <2>9, <2>10, <2>11, <2>12, <2>13, <2>14,
       <2>15, <2>16, <2>17, <2>18, <2>19, <2>20, <2>21, <2>22, <2>23, <2>24, <2>25, <2>26, <2>27,
       <2>28, <2>29, <2>30, <2>31
    DEF Next, CallerStep, ChildStep, GateStep, HandlerStep, ClientStep
<1>2. QED
  BY <1>1

\* Every step keeps the answers in line with the phases.
LEMMA AnswerStep ==
  TypeInv /\ HandlerUntimed /\ LinkPhase /\ AnswerPhase /\ [Next]_vars => AnswerPhase'
<1> USE ConnAssumption DEF TypeInv, TypeOK, ForkOnce, HandlerUntimed, LinkPhase, AnswerPhase, Over
<1>1. ASSUME TypeInv, HandlerUntimed, LinkPhase, AnswerPhase, [Next]_vars PROVE AnswerPhase'
  <2> USE <1>1
  <2>1. ASSUME NEW c \in Conns, Listen(c) PROVE AnswerPhase'
    BY <2>1 DEF Listen
  <2>2. ASSUME NEW c \in Conns, ListenFails(c) PROVE AnswerPhase'
    BY <2>2 DEF ListenFails
  <2>3. ASSUME NEW c \in Conns, Fork(c) PROVE AnswerPhase'
    BY <2>3 DEF Fork, Copied, Closed
  <2>4. ASSUME NEW c \in Conns, ForkFails(c) PROVE AnswerPhase'
    BY <2>4 DEF ForkFails
  <2>5. ASSUME NEW c \in Conns, CloseListen(c) PROVE AnswerPhase'
    BY <2>5 DEF CloseListen
  <2>6. ASSUME NEW c \in Conns, Connect(c) \/ ConnectEarly(c) PROVE AnswerPhase'
    <3>1. /\ call[c] = "waiting"
          /\ \/ /\ call' = [call EXCEPT ![c] = "connected"]
                /\ conn' = [conn EXCEPT ![c] = "queued"]
             \/ /\ call' = [call EXCEPT ![c] = "failed"]
                /\ conn' = conn
          /\ UNCHANGED <<route, grand, wire, req, answer, heard>>
      BY <2>6 DEF Connect, ConnectEarly, Redirect
    <3>2. QED
      BY <3>1
  <2>7. ASSUME NEW c \in Conns, ChildForks(c) PROVE AnswerPhase'
    BY <2>7 DEF ChildForks, Copied, Closed
  <2>8. ASSUME NEW c \in Conns, ChildForkFails(c) PROVE AnswerPhase'
    BY <2>8 DEF ChildForkFails, Orphaned, Closed
  <2>9. ASSUME NEW c \in Conns, StartAlarm(c) PROVE AnswerPhase'
    BY <2>9 DEF StartAlarm
  <2>10. ASSUME NEW c \in Conns, Accept(c) PROVE AnswerPhase'
    BY <2>10 DEF Accept
  <2>11. ASSUME NEW c \in Conns, AcceptFails(c) PROVE AnswerPhase'
    BY <2>11 DEF AcceptFails, GrandEnds, Orphaned, Closed
  <2>12. ASSUME NEW c \in Conns, PeekEof(c) PROVE AnswerPhase'
    BY <2>12 DEF PeekEof, Decide
  <2>13. ASSUME NEW c \in Conns, PeekPartial(c) PROVE AnswerPhase'
    BY <2>13 DEF PeekPartial, Decide
  <2>14. ASSUME NEW c \in Conns, PeekLine(c) PROVE AnswerPhase'
    BY <2>14 DEF PeekLine, Decide, method_allowed
  <2>15. ASSUME NEW c \in Conns, RejectWrite(c) PROVE AnswerPhase'
    BY <2>15 DEF RejectWrite
  <2>16. ASSUME NEW c \in Conns, RejectShut(c) PROVE AnswerPhase'
    BY <2>16 DEF RejectShut
  <2>17. ASSUME NEW c \in Conns, DrainRead(c) PROVE AnswerPhase'
    BY <2>17 DEF DrainRead
  <2>18. ASSUME NEW c \in Conns, DrainEof(c) PROVE AnswerPhase'
    BY <2>18 DEF DrainEof, GrandEnds, Orphaned, Closed
  <2>19. ASSUME NEW c \in Conns, Exec(c) PROVE AnswerPhase'
    BY <2>19 DEF Exec, Closed
  <2>20. ASSUME NEW c \in Conns, AlarmFires(c) PROVE AnswerPhase'
    BY <2>20 DEF AlarmFires, GrandEnds, Orphaned, Closed
  <2>21. ASSUME NEW c \in Conns, HandlerAnswers(c) PROVE AnswerPhase'
    BY <2>21 DEF HandlerAnswers
  <2>22. ASSUME NEW c \in Conns, HandlerExits(c) PROVE AnswerPhase'
    BY <2>22 DEF HandlerExits, GrandEnds, Orphaned, Closed
  <2>23. ASSUME NEW c \in Conns, StreamBreaks(c) PROVE AnswerPhase'
    BY <2>23 DEF StreamBreaks, GrandEnds, Orphaned, Closed
  <2>24. ASSUME NEW c \in Conns, SendPartial(c) PROVE AnswerPhase'
    BY <2>24 DEF SendPartial, SendMore, CanUse
  <2>25. ASSUME NEW c \in Conns, SendLine(c) PROVE AnswerPhase'
    BY <2>25 DEF SendLine, SendMore, CanUse
  <2>26. ASSUME NEW c \in Conns, SendRest(c) PROVE AnswerPhase'
    BY <2>26 DEF SendRest, SendMore, CanUse
  <2>27. ASSUME NEW c \in Conns, ClientShuts(c) PROVE AnswerPhase'
    BY <2>27 DEF ClientShuts, CanUse
  <2>28. ASSUME NEW c \in Conns, Read(c) PROVE AnswerPhase'
    BY <2>28 DEF Read, CanUse
  <2>29. ASSUME NEW c \in Conns, ClientCloses(c) PROVE AnswerPhase'
    BY <2>29 DEF ClientCloses, CanUse
  <2>30. ASSUME NEW p \in Procs, CallerDies(p) PROVE AnswerPhase'
    BY <2>30 DEF CallerDies, Orphaned, Closed
  <2>31. CASE UNCHANGED vars
    BY <2>31 DEF vars
  <2>32. QED
    BY <2>1, <2>2, <2>3, <2>4, <2>5, <2>6, <2>7, <2>8, <2>9, <2>10, <2>11, <2>12, <2>13, <2>14,
       <2>15, <2>16, <2>17, <2>18, <2>19, <2>20, <2>21, <2>22, <2>23, <2>24, <2>25, <2>26, <2>27,
       <2>28, <2>29, <2>30, <2>31
    DEF Next, CallerStep, ChildStep, GateStep, HandlerStep, ClientStep
<1>2. QED
  BY <1>1


-----------------------------------------------------------------------------
\* The mapping, connection by connection.
LEMMA Mapping ==
  ASSUME NEW c \in Conns
  PROVE  /\ Link[c] = IF conn[c] # "none" THEN "attached"
                      ELSE IF call[c] = "failed" THEN "refused" ELSE "none"
         /\ Over[c] = (conn[c] \in {"finished", "reset"})
         /\ Requested[c] = IF wire[c] \in {"line", "full"} THEN req[c] ELSE "unsaid"
         /\ Verdict[c] = IF grand[c] \in {"handler", "exited"} THEN "handler"
                         ELSE IF grand[c] = "say405" THEN "405"
                         ELSE IF grand[c] = "say400" THEN "400"
                         ELSE answer[c]
BY DEF Link, Over, Requested, Verdict

\* The mapped variables are functions on the connections, before and after.
LEMMA Total ==
  /\ Link = [d \in Conns |-> Link[d]]           /\ Link' = [d \in Conns |-> Link'[d]]
  /\ Over = [d \in Conns |-> Over[d]]           /\ Over' = [d \in Conns |-> Over'[d]]
  /\ Requested = [d \in Conns |-> Requested[d]] /\ Requested' = [d \in Conns |-> Requested'[d]]
  /\ Verdict = [d \in Conns |-> Verdict[d]]     /\ Verdict' = [d \in Conns |-> Verdict'[d]]
<1>1. Link = [d \in Conns |-> Link[d]] /\ Link' = [d \in Conns |-> Link'[d]]
  BY DEF Link
<1>2. Over = [d \in Conns |-> Over[d]] /\ Over' = [d \in Conns |-> Over'[d]]
  BY DEF Over
<1>3. Requested = [d \in Conns |-> Requested[d]] /\ Requested' = [d \in Conns |-> Requested'[d]]
  BY DEF Requested
<1>4. Verdict = [d \in Conns |-> Verdict[d]] /\ Verdict' = [d \in Conns |-> Verdict'[d]]
  BY DEF Verdict
<1>5. QED
  BY <1>1, <1>2, <1>3, <1>4

\* Equality of mapped variables, connection by connection.
LEMMA Pointwise ==
  /\ (\A d \in Conns : Link'[d] = Link[d]) => Link' = Link
  /\ (\A d \in Conns : Over'[d] = Over[d]) => Over' = Over
  /\ (\A d \in Conns : Requested'[d] = Requested[d]) => Requested' = Requested
  /\ (\A d \in Conns : Verdict'[d] = Verdict[d]) => Verdict' = Verdict
BY Total, Zenon

\* A change of one connection.
LEMMA Updated ==
  ASSUME NEW c \in Conns, NEW f, NEW g,
         f = [d \in Conns |-> f[d]], g = [d \in Conns |-> g[d]],
         \A d \in Conns : d # c => g[d] = f[d]
  PROVE  g = [f EXCEPT ![c] = g[c]]
<1> DEFINE h == [f EXCEPT ![c] = g[c]]
<1>1. h = [d \in Conns |-> h[d]] /\ \A d \in Conns : h[d] = g[d]
  OBVIOUS
<1>2. QED
  BY <1>1, Zenon

\* A step that changes nothing Interception sees.
LEMMA Unseen ==
  ASSUME UNCHANGED <<route, heard>>,
         \A d \in Conns :
           /\ Link'[d] = Link[d] /\ Over'[d] = Over[d]
           /\ Requested'[d] = Requested[d] /\ Verdict'[d] = Verdict[d]
  PROVE  UNCHANGED Promise!vars
BY Pointwise DEF Promise!vars

\* A step of the kernel that ends connections: those it ends had been
\* attached, and the only verdict it takes back is one of the gate that its
\* client has not heard.
LEMMA EndsSome ==
  ASSUME UNCHANGED <<route, heard>>,
         \A d \in Conns :
           /\ conn[d] # "none" <=> conn'[d] # "none"
           /\ call[d] = "failed" <=> call'[d] = "failed"
           /\ Requested[d] = Requested'[d]
           /\ Over[d] => Over'[d]
           /\ Over'[d] /\ ~Over[d] => conn[d] # "none"
           /\ \/ Verdict'[d] = Verdict[d]
              \/ /\ Over'[d] /\ ~Over[d]
                 /\ Verdict[d] \in {"405", "400"} /\ heard[d] = "nothing"
                 /\ Verdict'[d] = "none"
  PROVE  \E S \in SUBSET Conns : Promise!End(S)
<1> DEFINE S    == {d \in Conns : Over'[d] /\ ~Over[d]}
           lost == {d \in Conns : Verdict'[d] # Verdict[d]}
<1>1. Link' = Link
  BY DEF Link
<1>2. Requested' = Requested
  BY DEF Requested
<1>3. \A d \in S : Link[d] = "attached" /\ ~Over[d]
  BY Mapping
<1>4. Over' = [d \in Conns |-> Over[d] \/ d \in S]
  <2>1. \A d \in Conns : Over'[d] = (Over[d] \/ d \in S)
    <3>1. \A d \in Conns : Over[d] \in BOOLEAN /\ Over'[d] \in BOOLEAN
      BY DEF Over
    <3>2. QED
      BY <3>1
  <2>2. QED
    BY <2>1, Total, Zenon
<1>5. lost \in SUBSET {d \in S : Verdict[d] \in {"405", "400"} /\ heard[d] = "nothing"}
  OBVIOUS
<1>6. Verdict' = [d \in Conns |-> IF d \in lost THEN "none" ELSE Verdict[d]]
  <2>1. \A d \in Conns : Verdict'[d] = IF d \in lost THEN "none" ELSE Verdict[d]
    OBVIOUS
  <2>2. QED
    BY <2>1, Total, Zenon
<1>7. Promise!End(S)
  <2> HIDE DEF S, lost
  <2> QED
    BY <1>1, <1>2, <1>3, <1>4, <1>5, <1>6 DEF Promise!End
<1>8. QED
  BY <1>7

\* The end of a grandchild or a handler is such a step.
LEMMA GrandEndsSome ==
  ASSUME PromiseInv, NEW c \in Conns, NEW how \in Ended, GrandEnds(c, how),
         grand[c] \notin Ended,
         how = "exited" <=> grand[c] = "handler",
         UNCHANGED <<call, route, wire, req, answer, heard>>
  PROVE  \E S \in SUBSET Conns : Promise!End(S)
<1> USE DEF PromiseInv, TypeInv, TypeOK
<1>1. \A d \in Conns :
        /\ conn'[d] \in {conn[d], "reset", "finished"}
        /\ conn'[d] # conn[d] => conn[d] \in {"queued", "open", "halfclosed"}
        /\ d = c /\ conn[d] = "open" => conn'[d] \in {"reset", "finished"}
  BY DEF GrandEnds, Orphaned, Closed
<1>2. /\ grand' = [grand EXCEPT ![c] = how]
      /\ how \in {"exited", "rejected", "failed", "killed"}
      /\ grand[c] \notin {"exited", "rejected", "failed", "killed"}
  BY DEF GrandEnds, Ended
<1>3. \A d \in Conns :
        /\ conn[d] # "none" <=> conn'[d] # "none"
        /\ Over[d] => Over'[d]
        /\ Over'[d] /\ ~Over[d] => conn[d] # "none"
  BY <1>1 DEF Over
<1>4. \A d \in Conns : Requested'[d] = Requested[d]
  BY DEF Requested
<1>5. ASSUME NEW d \in Conns
      PROVE  \/ Verdict'[d] = Verdict[d]
             \/ /\ Over'[d] /\ ~Over[d]
                /\ Verdict[d] \in {"405", "400"} /\ heard[d] = "nothing"
                /\ Verdict'[d] = "none"
  <2>1. CASE d = c /\ grand[c] \in {"say405", "say400"}
    BY <1>1, <1>2, <2>1 DEF LinkPhase, AnswerPhase, Over, Verdict
  <2>2. CASE d # c \/ grand[c] \notin {"say405", "say400"}
    BY <1>2, <2>2 DEF Verdict
  <2>3. QED
    BY <2>1, <2>2
<1>6. QED
  BY <1>3, <1>4, <1>5, EndsSome

\* The visible steps of one connection.
LEMMA Settles ==
  ASSUME NEW c \in Conns, Link[c] = "none",
         \A d \in Conns : d # c => Link'[d] = Link[d],
         UNCHANGED <<Over, route, Requested, Verdict, heard>>
  PROVE  Promise!Settle(c, Link'[c])
<1>1. Link' = [Link EXCEPT ![c] = Link'[c]]
  BY Total, Updated
<1>2. QED
  BY <1>1 DEF Promise!Settle

\* A first line that is read is a step of the promise.
LEMMA Says ==
  ASSUME NEW c \in Conns, Link[c] = "attached", Requested[c] = "unsaid",
         Requested'[c] \in Methods \cup {Junk},
         \A d \in Conns : d # c => Requested'[d] = Requested[d],
         UNCHANGED <<Link, Over, route, Verdict, heard>>
  PROVE  Promise!Say(c)
<1>1. Requested' = [Requested EXCEPT ![c] = Requested'[c]]
  BY Total, Updated
<1>2. QED
  BY <1>1 DEF Promise!Say

\* So is a verdict.
LEMMA Judges ==
  ASSUME NEW c \in Conns, Link[c] = "attached", ~Over[c], Verdict[c] = "none",
         Verdict'[c] \in Promise!Verdicts(c),
         \A d \in Conns : d # c => Verdict'[d] = Verdict[d],
         UNCHANGED <<Link, Over, route, Requested, heard>>
  PROVE  Promise!Judge(c)
<1>1. Verdict' = [Verdict EXCEPT ![c] = Verdict'[c]]
  BY Total, Updated
<1>2. QED
  BY <1>1 DEF Promise!Judge

\* Every step of the shim is a step of Interception or one it does not see.
LEMMA PromiseStep == PromiseInv /\ [Next]_vars => [Promise!Next]_(Promise!vars)
<1> USE ConnAssumption, RouteAssumption, MethodAssumption
    DEF PromiseInv, TypeInv, TypeOK, ForkOnce, LinkPhase, AnswerPhase
<1> DEFINE Goal == Promise!Next \/ UNCHANGED Promise!vars
<1>1. ASSUME PromiseInv, [Next]_vars PROVE Goal
  <2> USE <1>1
  <2>1. ASSUME NEW c \in Conns, Listen(c) PROVE Goal
    BY <2>1, Unseen DEF Listen, Link, Over, Requested, Verdict
  <2>2. ASSUME NEW c \in Conns, ListenFails(c) PROVE Goal
    <3>1. /\ Link[c] = "none" /\ Link'[c] = "refused"
          /\ \A d \in Conns : d # c => Link'[d] = Link[d]
      BY <2>2 DEF ListenFails, Link
    <3>2. UNCHANGED <<Over, route, Requested, Verdict, heard>>
      BY <2>2 DEF ListenFails, Over, Requested, Verdict
    <3>3. QED
      BY <3>1, <3>2, Settles DEF Promise!Next
  <2>3. ASSUME NEW c \in Conns, Fork(c) PROVE Goal
    BY <2>3, Unseen DEF Fork, Copied, Closed, Link, Over, Requested, Verdict
  <2>4. ASSUME NEW c \in Conns, ForkFails(c) PROVE Goal
    <3>1. /\ Link[c] = "none" /\ Link'[c] = "refused"
          /\ \A d \in Conns : d # c => Link'[d] = Link[d]
      BY <2>4 DEF ForkFails, Link
    <3>2. UNCHANGED <<Over, route, Requested, Verdict, heard>>
      BY <2>4 DEF ForkFails, Over, Requested, Verdict
    <3>3. QED
      BY <3>1, <3>2, Settles DEF Promise!Next
  <2>5. ASSUME NEW c \in Conns, CloseListen(c) PROVE Goal
    BY <2>5, Unseen DEF CloseListen, Link, Over, Requested, Verdict
  <2>6. ASSUME NEW c \in Conns, Connect(c) \/ ConnectEarly(c) PROVE Goal
    <3>1. /\ Link[c] = "none" /\ Link'[c] \in {"attached", "refused"}
          /\ \A d \in Conns : d # c => Link'[d] = Link[d]
      BY <2>6 DEF Connect, ConnectEarly, Redirect, Link
    <3>2. UNCHANGED <<route, Requested, Verdict, heard>>
      BY <2>6 DEF Connect, ConnectEarly, Redirect, Requested, Verdict
    <3>3. UNCHANGED Over
      BY <2>6, Pointwise DEF Connect, ConnectEarly, Redirect, Over
    <3>4. QED
      BY <3>1, <3>2, <3>3, Settles DEF Promise!Next
  <2>7. ASSUME NEW c \in Conns, ChildForks(c) PROVE Goal
    BY <2>7, Unseen DEF ChildForks, Copied, Closed, Link, Over, Requested, Verdict
  <2>8. ASSUME NEW c \in Conns, ChildForkFails(c) PROVE Goal
    BY <2>8, EndsSome DEF ChildForkFails, Orphaned, Closed, Over, Requested, Verdict, Promise!Next
  <2>9. ASSUME NEW c \in Conns, StartAlarm(c) PROVE Goal
    BY <2>9, Unseen DEF StartAlarm, Link, Over, Requested, Verdict
  <2>10. ASSUME NEW c \in Conns, Accept(c) PROVE Goal
    BY <2>10, Unseen DEF Accept, Link, Over, Requested, Verdict
  <2>11. ASSUME NEW c \in Conns, AcceptFails(c) PROVE Goal
    BY <2>11, GrandEndsSome DEF AcceptFails, Ended, HandlerUntimed, Promise!Next
  <2>12. ASSUME NEW c \in Conns, PeekEof(c) PROVE Goal
    <3>1. /\ Link[c] = "attached" /\ ~Over[c]
          /\ Verdict[c] = "none" /\ Verdict'[c] = "400"
          /\ \A d \in Conns : d # c => Verdict'[d] = Verdict[d]
      BY <2>12 DEF PeekEof, Decide, Link, Over, Verdict
    <3>2. "400" \in Promise!Verdicts(c)
      BY <2>12 DEF PeekEof, Decide, Requested, Promise!Verdicts, Gated, GateKept
    <3>3. UNCHANGED <<Link, Over, route, Requested, heard>>
      BY <2>12 DEF PeekEof, Decide, Link, Over, Requested
    <3>4. QED
      BY <3>1, <3>2, <3>3, Judges DEF Promise!Next
  <2>13. ASSUME NEW c \in Conns, PeekPartial(c) PROVE Goal
    <3>1. /\ Link[c] = "attached" /\ ~Over[c] /\ Verdict[c] = "none"
          /\ \A d \in Conns : d # c => Verdict'[d] = Verdict[d]
      BY <2>13 DEF PeekPartial, Decide, Link, Over, Verdict
    <3>2. Verdict'[c] = "none" \/ Verdict'[c] \in Promise!Verdicts(c)
      BY <2>13 DEF PeekPartial, Decide, Requested, Verdict, Promise!Verdicts, Gated, GateKept
    <3>3. UNCHANGED <<Link, Over, route, Requested, heard>>
      BY <2>13 DEF PeekPartial, Decide, Link, Over, Requested
    <3>4. CASE Verdict'[c] = "none"
      BY <3>1, <3>3, <3>4, Unseen
    <3>5. QED
      BY <3>1, <3>2, <3>3, <3>4, Judges DEF Promise!Next
  <2>14. ASSUME NEW c \in Conns, PeekLine(c) PROVE Goal
    <3>1. /\ Link[c] = "attached" /\ ~Over[c] /\ Verdict[c] = "none"
          /\ \A d \in Conns : d # c => Verdict'[d] = Verdict[d]
      BY <2>14 DEF PeekLine, Decide, method_allowed, Link, Over, Verdict
    <3>2. Verdict'[c] = "none" \/ Verdict'[c] \in Promise!Verdicts(c)
      BY <2>14 DEF PeekLine, Decide, method_allowed, Requested, Verdict, Promise!Verdicts, Gated,
         GateKept
    <3>3. UNCHANGED <<Link, Over, route, Requested, heard>>
      BY <2>14 DEF PeekLine, Decide, method_allowed, Link, Over, Requested
    <3>4. CASE Verdict'[c] = "none"
      BY <3>1, <3>3, <3>4, Unseen
    <3>5. QED
      BY <3>1, <3>2, <3>3, <3>4, Judges DEF Promise!Next
  <2>15. ASSUME NEW c \in Conns, RejectWrite(c) PROVE Goal
    BY <2>15, Unseen DEF RejectWrite, Link, Over, Requested, Verdict
  <2>16. ASSUME NEW c \in Conns, RejectShut(c) PROVE Goal
    BY <2>16, Unseen DEF RejectShut, Link, Over, Requested, Verdict
  <2>17. ASSUME NEW c \in Conns, DrainRead(c) PROVE Goal
    BY <2>17, Unseen DEF DrainRead, Link, Over, Requested, Verdict
  <2>18. ASSUME NEW c \in Conns, DrainEof(c) PROVE Goal
    BY <2>18, GrandEndsSome DEF DrainEof, Ended, HandlerUntimed, Promise!Next
  <2>19. ASSUME NEW c \in Conns, Exec(c) PROVE Goal
    <3>1. /\ Link[c] = "attached" /\ ~Over[c]
          /\ Verdict[c] = "none" /\ Verdict'[c] = "handler"
          /\ \A d \in Conns : d # c => Verdict'[d] = Verdict[d]
      BY <2>19 DEF Exec, Closed, Link, Over, Verdict
    <3>2. "handler" \in Promise!Verdicts(c)
      BY <2>19 DEF Exec, Closed, Requested, Promise!Verdicts, Gated, GateKept
    <3>3. UNCHANGED <<Link, Over, route, Requested, heard>>
      BY <2>19 DEF Exec, Closed, Link, Over, Requested
    <3>4. QED
      BY <3>1, <3>2, <3>3, Judges DEF Promise!Next
  <2>20. ASSUME NEW c \in Conns, AlarmFires(c) PROVE Goal
    BY <2>20, GrandEndsSome DEF AlarmFires, Ended, HandlerUntimed, Promise!Next
  <2>21. ASSUME NEW c \in Conns, HandlerAnswers(c) PROVE Goal
    BY <2>21, Unseen DEF HandlerAnswers, Link, Over, Requested, Verdict
  <2>22. ASSUME NEW c \in Conns, HandlerExits(c) PROVE Goal
    BY <2>22, GrandEndsSome DEF HandlerExits, Ended, HandlerUntimed, Promise!Next
  <2>23. ASSUME NEW c \in Conns, StreamBreaks(c) PROVE Goal
    BY <2>23, GrandEndsSome DEF StreamBreaks, Ended, HandlerUntimed, Promise!Next
  <2>24. ASSUME NEW c \in Conns, SendPartial(c) PROVE Goal
    BY <2>24, Unseen DEF SendPartial, SendMore, CanUse, Link, Over, Requested, Verdict
  <2>25. ASSUME NEW c \in Conns, SendLine(c) PROVE Goal
    <3>1. /\ Link[c] = "attached" /\ Requested[c] = "unsaid"
          /\ Requested'[c] \in Methods \cup {Junk}
          /\ \A d \in Conns : d # c => Requested'[d] = Requested[d]
      BY <2>25 DEF SendLine, SendMore, CanUse, Link, Requested
    <3>2. UNCHANGED <<route, Verdict, heard>>
      BY <2>25 DEF SendLine, SendMore, CanUse, Verdict
    <3>3. UNCHANGED <<Link, Over>>
      BY <2>25, Pointwise DEF SendLine, SendMore, CanUse, Link, Over
    <3>4. QED
      BY <3>1, <3>2, <3>3, Says DEF Promise!Next
  <2>26. ASSUME NEW c \in Conns, SendRest(c) PROVE Goal
    BY <2>26, Unseen DEF SendRest, SendMore, CanUse, Link, Over, Requested, Verdict
  <2>27. ASSUME NEW c \in Conns, ClientShuts(c) PROVE Goal
    BY <2>27, Unseen DEF ClientShuts, CanUse, Link, Over, Requested, Verdict
  <2>28. ASSUME NEW c \in Conns, Read(c) PROVE Goal
    <3>1. Link[c] = "attached" /\ heard[c] = "nothing"
      BY <2>28 DEF Read, CanUse, Link
    <3>2. PICK h \in {"handler", "405", "400", "eof", "reset"} :
            /\ \/ h = Verdict[c]
               \/ h = "eof" /\ Over[c] /\ Verdict[c] \in {"none", "handler"}
               \/ h = "reset" /\ Over[c]
            /\ heard' = [heard EXCEPT ![c] = h]
      BY <2>28 DEF Read, CanUse, Over, Verdict, Answers, GrandStates, Ended
    <3>3. UNCHANGED <<Link, Over, route, Requested, Verdict>>
      BY <2>28 DEF Read, CanUse, Link, Over, Requested, Verdict
    <3>4. Promise!Hear(c)
      BY <3>1, <3>2, <3>3 DEF Promise!Hear
    <3>5. QED
      BY <3>4 DEF Promise!Next
  <2>29. ASSUME NEW c \in Conns, ClientCloses(c) PROVE Goal
    BY <2>29, Unseen DEF ClientCloses, CanUse, Link, Over, Requested, Verdict
  <2>30. ASSUME NEW p \in Procs, CallerDies(p) PROVE Goal
    BY <2>30, EndsSome DEF CallerDies, Orphaned, Closed, Over, Requested, Verdict, Promise!Next
  <2>31. CASE UNCHANGED vars
    BY <2>31, Unseen DEF vars, Link, Over, Requested, Verdict
  <2>32. QED
    BY <2>1, <2>2, <2>3, <2>4, <2>5, <2>6, <2>7, <2>8, <2>9, <2>10, <2>11, <2>12, <2>13, <2>14,
       <2>15, <2>16, <2>17, <2>18, <2>19, <2>20, <2>21, <2>22, <2>23, <2>24, <2>25, <2>26, <2>27,
       <2>28, <2>29, <2>30, <2>31
    DEF Next, CallerStep, ChildStep, GateStep, HandlerStep, ClientStep
<1>2. QED
  BY <1>1

\* The shim implements Interception: connect() is refused or attached once,
\* an attached connection gets one verdict, made for the request it carries,
\* and its client hears that verdict or the end of the connection.
THEOREM ShimKeepsPromise == Spec => KeepsPromise
<1>1. Init => PromiseInv /\ Promise!Init
  <2> SUFFICES ASSUME Init PROVE PromiseInv /\ Promise!Init
    OBVIOUS
  <2>1. TypeInv
    BY TimeAssumption DEF Init, TypeInv, TypeOK, TriesBound, ForkOnce, CallStates, ChildStates,
       GrandStates, Ended, ConnStates, Sent, Answers, Heard
  <2>2. GateKept /\ HandlerUntimed /\ LinkPhase /\ AnswerPhase
    BY DEF Init, GateKept, HandlerUntimed, LinkPhase, AnswerPhase
  <2>3. Promise!Init
    <3>1. \A c \in Conns : /\ Link[c] = "none" /\ ~Over[c] /\ Over[c] \in BOOLEAN
                          /\ Requested[c] = "unsaid" /\ Verdict[c] = "none"
      <4>1. \A c \in Conns : /\ conn[c] = "none" /\ call[c] = "idle" /\ wire[c] = "nothing"
                            /\ grand[c] = "none" /\ answer[c] = "none"
        BY DEF Init
      <4>2. \A c \in Conns : Over[c] \in BOOLEAN
        BY DEF Over
      <4>3. \A c \in Conns : ~Over[c]
        BY <4>1 DEF Over
      <4>4. QED
        BY <4>1, <4>2, <4>3 DEF Link, Requested, Verdict
    <3>2. /\ Link = [c \in Conns |-> "none"] /\ Over = [c \in Conns |-> FALSE]
          /\ Requested = [c \in Conns |-> "unsaid"] /\ Verdict = [c \in Conns |-> "none"]
      BY <3>1, Total, Zenon
    <3>3. route \in [Conns -> Routes] /\ heard = [c \in Conns |-> "nothing"]
      BY DEF Init
    <3>4. QED
      BY <3>2, <3>3, Zenon DEF Promise!Init
  <2>4. QED
    BY <2>1, <2>2, <2>3 DEF PromiseInv
<1>2. PromiseInv /\ [Next]_vars => PromiseInv'
  BY TypeStep, GateStepKeeps, UntimedStep, LinkStep, AnswerStep DEF PromiseInv
<1>3. QED
  BY <1>1, <1>2, PromiseStep, PTL DEF Spec, KeepsPromise, Promise!Spec
=============================================================================
