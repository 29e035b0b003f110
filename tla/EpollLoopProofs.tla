-------------------------- MODULE EpollLoopProofs ---------------------------
(***************************************************************************)
(* EpollLoop for any number of fds, connections, posting threads and       *)
(* tasks: no event reaches a connection it is not for, and no task is      *)
(* lost, repeated or overtaken or left without a wake-up.                  *)
(*                                                                         *)
(* The sockets and the task queue are two halves that share only the       *)
(* position of the loop's thread: every action changes at most one of      *)
(* them, so the invariant is proved in two halves, SocketInv and TaskInv.  *)
(***************************************************************************)
EXTENDS EpollLoop, SequenceTheorems, TLAPS

Sources == Fds \cup {"wake", "listen", "timer"}

Events == [source : Sources, conn : Nat \cup {None}]

Tasks == Posters \X Nat

SocketTypes ==
  /\ loop \in LoopStates
  /\ running \in BOOLEAN
  /\ batch \subseteq Events
  /\ conn \in [Fds -> Nat \cup {None}]
  /\ input \in [Fds -> {"quiet", "data", "hangup"}]
  /\ backlog \in Nat /\ conns \in Nat /\ backlog + conns <= MaxConns
  /\ timer \in BOOLEAN
  /\ watcher \in {"polling", "signalled", "done"}
  /\ \A fd \in Fds : conn[fd] = None => input[fd] = "quiet"

TaskTypes ==
  /\ wake \in BOOLEAN
  /\ pending \in Seq(Tasks) /\ tasks \in Seq(Tasks)
  /\ pushed \in Seq(Tasks) /\ ran \in Seq(Tasks)
  /\ poster \in [Posters -> {"idle", "pushed"}]
  /\ posts \in [Posters -> 0..MaxPosts]

SocketInv == SocketTypes /\ EventsAreCurrent /\ EventsHaveOwners /\ BatchIsUsedUp

TaskInv == TaskTypes /\ TasksOnceInOrder /\ NoLostWakeUp /\ TasksAreLocal

\* The invariant is its socket half and its task half.
LEMMA TwoHalves == LoopIInv <=> SocketInv /\ TaskInv
BY DEF LoopIInv, TypeOK, SocketInv, SocketTypes, TaskInv, TaskTypes, Events, Sources, Tasks

-----------------------------------------------------------------------------
(* The task half *)

\* A step that leaves the queues alone and does not leave or enter the places
\* at which on_wake has still to take the queue or runs tasks.
LEMMA TasksUntouched ==
  ASSUME TaskInv, UNCHANGED taskVars, UNCHANGED postVars,
         loop # "swap", loop # "tasks" \/ loop' = "tasks"
  PROVE  TaskInv'
BY DEF TaskInv, TaskTypes, TasksOnceInOrder, NoLostWakeUp, TasksAreLocal, taskVars, postVars

\* Reading the eventfd leads to the place where the queue is taken.
LEMMA DrainKeepsTasks ==
  ASSUME TaskInv, Drain("wake", "swap"), UNCHANGED postVars
  PROVE  TaskInv'
BY DEF TaskInv, TaskTypes, TasksOnceInOrder, NoLostWakeUp, TasksAreLocal, Drain, postVars

\* on_wake takes the queue when its own is empty: nothing changes places.
LEMMA SwapKeepsTasks ==
  ASSUME TaskInv, Swap("swap", "tasks"), UNCHANGED postVars
  PROVE  TaskInv'
<1>1. tasks = <<>> /\ tasks' = pending /\ pending' = <<>> /\ ran' = ran /\ pushed' = pushed
  BY DEF TaskInv, TasksAreLocal, Swap
<1>2. TaskTypes'
  BY <1>1 DEF TaskInv, TaskTypes, Swap, postVars
<1>3. ran \in Seq(Tasks) /\ pending \in Seq(Tasks)
  BY DEF TaskInv, TaskTypes
<1>4. ran \o <<>> = ran
  BY <1>3, ConcatEmptySeq
<1>5. (ran \o pending) \o <<>> = ran \o pending
  BY <1>3, ConcatEmptySeq, ConcatProperties
<1>6. TasksOnceInOrder'
  BY <1>1, <1>4, <1>5 DEF TaskInv, TasksOnceInOrder
<1>7. NoLostWakeUp' /\ TasksAreLocal'
  BY <1>1 DEF NoLostWakeUp, TasksAreLocal, Swap
<1> QED
  BY <1>2, <1>6, <1>7 DEF TaskInv

\* A task that ran is the first of those that had been taken.
LEMMA RunTaskKeepsTasks ==
  ASSUME TaskInv, RunTask, UNCHANGED postVars
  PROVE  TaskInv'
<1>1. tasks \in Seq(Tasks) /\ ran \in Seq(Tasks) /\ pending \in Seq(Tasks)
  BY DEF TaskInv, TaskTypes
<1>2. CASE tasks = <<>>
  BY <1>2 DEF RunTask, TaskInv, TaskTypes, TasksOnceInOrder, NoLostWakeUp, TasksAreLocal, postVars
<1>3. CASE tasks # <<>>
  <2>1. Head(tasks) \in Tasks /\ Tail(tasks) \in Seq(Tasks)
    BY <1>1, <1>3
  <2>2. ran' = Append(ran, Head(tasks)) /\ tasks' = Tail(tasks) /\ loop' = loop
        /\ UNCHANGED <<wake, pending, pushed>>
    BY <1>3 DEF RunTask
  <2>3. TaskTypes'
    BY <1>1, <2>1, <2>2 DEF TaskInv, TaskTypes, postVars
  <2>4. <<Head(tasks)>> \in Seq(Tasks)
    BY <2>1
  <2>5. Append(ran, Head(tasks)) = ran \o <<Head(tasks)>>
    BY <1>1, <2>1, AppendIsConcat
  <2>6. (ran \o <<Head(tasks)>>) \o Tail(tasks) = ran \o (<<Head(tasks)>> \o Tail(tasks))
    BY <1>1, <2>1, <2>4, ConcatAssociative
  <2>7. <<Head(tasks)>> \o Tail(tasks) = tasks
    BY <1>1, <1>3
  <2>8. ran' \o tasks' = ran \o tasks
    BY <2>2, <2>5, <2>6, <2>7
  <2>9. TasksOnceInOrder'
    BY <2>2, <2>8 DEF TaskInv, TasksOnceInOrder
  <2>10. NoLostWakeUp' /\ TasksAreLocal'
    BY <2>2 DEF TaskInv, NoLostWakeUp, TasksAreLocal, RunTask, postVars
  <2> QED
    BY <2>3, <2>9, <2>10 DEF TaskInv
<1> QED
  BY <1>2, <1>3

\* A pushed task has a poster that is about to write the eventfd.
LEMMA PostPushKeepsTasks ==
  ASSUME TaskInv, NEW p \in Posters, PostPush(p)
  PROVE  TaskInv'
<1> DEFINE t == <<p, posts[p] + 1>>
<1>1. posts[p] \in Nat /\ posts[p] + 1 \in 0..MaxPosts /\ MaxPosts \in Nat
  BY LoopAssumption DEF TaskInv, TaskTypes, PostPush
<1>2. t \in Tasks /\ <<t>> \in Seq(Tasks)
  BY <1>1 DEF Tasks
<1>3. pending' = Append(pending, t) /\ pushed' = Append(pushed, t)
      /\ UNCHANGED <<wake, tasks, ran, loop>>
  BY DEF PostPush, loopVars
<1>4. tasks \in Seq(Tasks) /\ ran \in Seq(Tasks) /\ pending \in Seq(Tasks)
      /\ pushed \in Seq(Tasks) /\ ran \o tasks \in Seq(Tasks)
  BY ConcatProperties DEF TaskInv, TaskTypes
<1> HIDE DEF t
<1>5. TaskTypes'
  <2>1. posts' \in [Posters -> 0..MaxPosts] /\ poster' \in [Posters -> {"idle", "pushed"}]
    BY <1>1 DEF PostPush, TaskInv, TaskTypes
  <2> QED
    BY <1>2, <1>3, <1>4, <2>1 DEF TaskInv, TaskTypes
<1>6. pending' = pending \o <<t>> /\ pushed' = pushed \o <<t>>
  BY <1>2, <1>3, <1>4, AppendIsConcat
<1>7. ((ran \o tasks) \o pending) \o <<t>> = (ran \o tasks) \o (pending \o <<t>>)
  BY <1>2, <1>4, ConcatAssociative
<1>8. TasksOnceInOrder'
  BY <1>3, <1>6, <1>7 DEF TaskInv, TasksOnceInOrder
<1>9. NoLostWakeUp'
  <2>1. poster'[p] = "pushed"
    BY DEF PostPush, TaskInv, TaskTypes
  <2> QED
    BY <2>1 DEF NoLostWakeUp
<1>10. TasksAreLocal'
  BY <1>3 DEF TaskInv, TasksAreLocal
<1> QED
  BY <1>5, <1>8, <1>9, <1>10 DEF TaskInv

\* The write leaves the eventfd readable.
LEMMA PostWriteKeepsTasks ==
  ASSUME TaskInv, NEW p \in Posters, PostWrite(p)
  PROVE  TaskInv'
<1>1. UNCHANGED <<loop, pending, tasks, pushed, ran, posts>> /\ wake' = TRUE
      /\ poster' = [poster EXCEPT ![p] = "idle"]
  BY DEF PostWrite, loopVars
<1> QED
  BY <1>1 DEF TaskInv, TaskTypes, TasksOnceInOrder, NoLostWakeUp, TasksAreLocal

-----------------------------------------------------------------------------
(* The socket half *)

\* A step of the loop's thread that leaves the sockets alone and keeps, takes
\* from or has used up the batch.
LEMMA SocketsUntouched ==
  ASSUME SocketInv, UNCHANGED sockVars, batch' \subseteq batch,
         loop' \in LoopStates, running' \in BOOLEAN,
         watcher' \in {"polling", "signalled", "done"},
         BatchIsUsedUp'
  PROVE  SocketInv'
BY DEF SocketInv, SocketTypes, EventsAreCurrent, EventsHaveOwners, sockVars

\* epoll_wait reports connections that are there.
LEMMA WaitKeepsSockets ==
  ASSUME SocketInv, EpollWait
  PROVE  SocketInv'
<1>1. UNCHANGED sockVars /\ running' = running /\ watcher' = watcher /\ loop' = "batch"
      /\ batch' = {Event(s) : s \in Ready}
  BY DEF EpollWait
<1>2. ASSUME NEW s \in Ready
      PROVE  /\ Event(s) \in Events
             /\ Event(s).source \in Fds => /\ conn[Event(s).source] = Event(s).conn
                                            /\ Event(s).conn # None
  <2>1. (s \in Fds /\ conn[s] # None) \/ s \in {"wake", "listen", "timer"}
    BY Zenon DEF Ready
  <2>2. conn \in [Fds -> Nat \cup {None}]
    BY DEF SocketInv, SocketTypes
  <2> QED
    BY <2>1, <2>2, LoopAssumption DEF Event, Events, Sources
<1>3. SocketTypes'
  BY <1>1, <1>2 DEF SocketInv, SocketTypes, sockVars, LoopStates
<1>4. EventsAreCurrent' /\ EventsHaveOwners'
  BY <1>1, <1>2 DEF EventsAreCurrent, EventsHaveOwners, sockVars
<1> QED
  BY <1>1, <1>3, <1>4 DEF SocketInv, BatchIsUsedUp

\* accept reuses the number of a closed fd only, and no event is left for one.
LEMMA AcceptKeepsSockets ==
  ASSUME SocketInv, NEW fd \in Fds, AcceptOne(fd)
  PROVE  SocketInv'
<1>1. UNCHANGED loopVars /\ UNCHANGED timer /\ UNCHANGED watcher /\ loop = "accept"
  BY DEF AcceptOne
<1>2. SocketTypes'
  BY <1>1, LoopAssumption DEF AcceptOne, SocketInv, SocketTypes, loopVars
<1>3. \A ev \in batch : ev.source \in Fds => ev.source # fd
  BY DEF AcceptOne, SocketInv, EventsAreCurrent, EventsHaveOwners
<1>4. \A other \in Fds : other # fd => conn'[other] = conn[other]
  BY DEF AcceptOne, SocketInv, SocketTypes
<1>5. EventsAreCurrent' /\ EventsHaveOwners'
  BY <1>1, <1>3, <1>4 DEF SocketInv, EventsAreCurrent, EventsHaveOwners, loopVars
<1> QED
  BY <1>1, <1>2, <1>5 DEF SocketInv, BatchIsUsedUp, loopVars

\* on_read closes no fd but the one whose event it has taken, and there is no
\* second event for it.
LEMMA ReadKeepsSockets ==
  ASSUME SocketInv, NEW ev \in batch, on_read(ev)
  PROVE  SocketInv'
<1> DEFINE fd == ev.source
<1>1. /\ batch' = batch \ {ev} /\ loop' = loop /\ loop = "batch" /\ fd \in Fds
      /\ UNCHANGED <<running, backlog, conns, timer, watcher>>
  BY DEF on_read, Take
<1>2. /\ conn' = conn \/ conn' = [conn EXCEPT ![fd] = None]
      /\ conn' # conn => input' = [input EXCEPT ![fd] = "quiet"]
      /\ input' = input \/ input' = [input EXCEPT ![fd] = "quiet"]
  BY DEF on_read, close_client
<1>3. SocketTypes'
  BY <1>1, <1>2 DEF SocketInv, SocketTypes
<1>4. ASSUME NEW other \in batch, other # ev, other.source \in Fds
      PROVE  other.source # fd
  <2>1. other \in Events /\ ev \in Events
    BY DEF SocketInv, SocketTypes
  <2>2. other.conn = conn[other.source] /\ ev.conn = conn[fd]
    BY <1>1, <1>4 DEF SocketInv, EventsAreCurrent
  <2> QED
    BY <1>4, <2>1, <2>2 DEF Events
<1>5. EventsAreCurrent' /\ EventsHaveOwners'
  BY <1>1, <1>2, <1>4 DEF SocketInv, SocketTypes, EventsAreCurrent, EventsHaveOwners
<1> QED
  BY <1>1, <1>3, <1>5 DEF SocketInv, BatchIsUsedUp

\* The maintenance timer shuts connections down and closes none.
LEMMA TimerKeepsSockets ==
  ASSUME SocketInv, NEW ev \in batch, NEW fds \in SUBSET Fds, DispatchTimer(ev, fds)
  PROVE  SocketInv'
<1>1. /\ batch' = batch \ {ev} /\ loop' = loop /\ loop = "batch" /\ timer' = FALSE
      /\ UNCHANGED <<running, conn, backlog, conns, watcher>>
      /\ \A fd \in fds : conn[fd] # None
      /\ input' = [fd \in Fds |-> IF fd \in fds THEN "hangup" ELSE input[fd]]
  BY DEF DispatchTimer, Take, request_close
<1>2. SocketTypes'
  BY <1>1 DEF SocketInv, SocketTypes
<1>3. EventsAreCurrent' /\ EventsHaveOwners'
  BY <1>1 DEF SocketInv, EventsAreCurrent, EventsHaveOwners
<1> QED
  BY <1>1, <1>2, <1>3 DEF SocketInv, BatchIsUsedUp

\* Peers and the clock make fds ready and change no connection.
LEMMA EnvironmentKeepsSockets ==
  ASSUME SocketInv,
         \/ Connect
         \/ \E fd \in Fds, what \in {"data", "hangup"} : PeerSends(fd, what)
         \/ TimerFires
  PROVE  SocketInv'
<1>1. UNCHANGED <<loopVars, conn, conns, watcher>>
  BY DEF Connect, PeerSends, TimerFires
<1>2. SocketTypes'
  <2>1. CASE Connect
    BY <1>1, <2>1, LoopAssumption DEF Connect, SocketInv, SocketTypes, loopVars
  <2>2. ASSUME NEW fd \in Fds, NEW what \in {"data", "hangup"}, PeerSends(fd, what)
        PROVE  SocketTypes'
    BY <1>1, <2>2 DEF PeerSends, SocketInv, SocketTypes, loopVars
  <2>3. CASE TimerFires
    BY <1>1, <2>3 DEF TimerFires, SocketInv, SocketTypes, loopVars
  <2> QED
    BY <2>1, <2>2, <2>3
<1> QED
  BY <1>1, <1>2 DEF SocketInv, EventsAreCurrent, EventsHaveOwners, BatchIsUsedUp, loopVars

\* TcpServer::stop runs when the loop has left its batch behind.
LEMMA EndKeepsSockets ==
  ASSUME SocketInv, MainEnds
  PROVE  SocketInv'
<1>1. batch = {} /\ batch' = {} /\ loop' = "ended" /\ UNCHANGED <<running, backlog, conns, timer, watcher>>
  BY DEF MainEnds, SocketInv, BatchIsUsedUp
<1>2. SocketTypes'
  BY <1>1 DEF MainEnds, SocketInv, SocketTypes, LoopStates
<1> QED
  BY <1>1, <1>2 DEF SocketInv, EventsAreCurrent, EventsHaveOwners, BatchIsUsedUp

-----------------------------------------------------------------------------
(* The two together *)

\* The loop starts with no connection and no task.
LEMMA InitLoopIInv == Init => LoopIInv
<1> SUFFICES ASSUME Init PROVE SocketInv /\ TaskInv
  BY TwoHalves
<1>1. SocketInv
  <2>1. running \in BOOLEAN /\ timer \in BOOLEAN
    BY DEF Init
  <2>2. conn \in [Fds -> Nat \cup {None}] /\ input \in [Fds -> {"quiet", "data", "hangup"}]
    BY DEF Init
  <2>3. backlog \in Nat /\ conns \in Nat /\ backlog + conns <= MaxConns
    BY LoopAssumption DEF Init
  <2>4. \A fd \in Fds : conn[fd] = None => input[fd] = "quiet"
    BY DEF Init
  <2>5. /\ loop \in LoopStates /\ watcher \in {"polling", "signalled", "done"} /\ batch = {}
    BY DEF Init, LoopStates
  <2> QED
    BY <2>1, <2>2, <2>3, <2>4, <2>5 DEF SocketInv, SocketTypes, EventsAreCurrent,
       EventsHaveOwners, BatchIsUsedUp
<1>2. TaskTypes
  <2>1. wake \in BOOLEAN
    BY DEF Init
  <2>2. poster \in [Posters -> {"idle", "pushed"}] /\ posts \in [Posters -> 0..MaxPosts]
    BY LoopAssumption DEF Init
  <2>3. /\ pending \in Seq(Tasks) /\ tasks \in Seq(Tasks)
        /\ pushed \in Seq(Tasks) /\ ran \in Seq(Tasks)
    BY DEF Init
  <2> QED
    BY <2>1, <2>2, <2>3 DEF TaskTypes
<1>3. TasksOnceInOrder /\ NoLostWakeUp /\ TasksAreLocal
  BY DEF Init, TasksOnceInOrder, NoLostWakeUp, TasksAreLocal
<1> QED
  BY <1>1, <1>2, <1>3 DEF TaskInv

\* One step for each action; those that touch one half only leave the other to
\* its lemma.
LEMMA NextLoopIInv == LoopIInv /\ [Next]_vars => LoopIInv'
<1> SUFFICES ASSUME SocketInv, TaskInv, [Next]_vars PROVE SocketInv' /\ TaskInv'
  BY TwoHalves DEF LoopIInv, TypeOK, SocketInv, SocketTypes, TaskInv, TaskTypes, Events,
     Sources, Tasks
<1>0. /\ loop \in LoopStates /\ running \in BOOLEAN
      /\ watcher \in {"polling", "signalled", "done"} /\ BatchIsUsedUp
  BY DEF SocketInv, SocketTypes
<1>1. CASE Run
  BY <1>0, <1>1, SocketsUntouched, TasksUntouched DEF Run, LoopStates, BatchIsUsedUp
<1>2. CASE CheckRunning
  BY <1>0, <1>2, SocketsUntouched, TasksUntouched DEF CheckRunning, LoopStates, BatchIsUsedUp
<1>3. CASE EpollTimesOut
  BY <1>0, <1>3, SocketsUntouched, TasksUntouched DEF EpollTimesOut, LoopStates, BatchIsUsedUp
<1>4. CASE EpollWait
  <2>1. UNCHANGED taskVars /\ UNCHANGED postVars /\ loop = "waiting"
    BY <1>4 DEF EpollWait
  <2> QED
    BY <1>4, <2>1, WaitKeepsSockets, TasksUntouched
<1>5. CASE EpollFails
  BY <1>0, <1>5, SocketsUntouched, TasksUntouched DEF EpollFails, LoopStates, BatchIsUsedUp
<1>6. CASE BatchEnds
  BY <1>0, <1>6, SocketsUntouched, TasksUntouched DEF BatchEnds, LoopStates, BatchIsUsedUp
<1>7. CASE Dispatch
  <2> PICK ev \in batch : \/ DispatchWake(ev)
                         \/ DispatchListen(ev)
                         \/ on_read(ev)
                         \/ \E fds \in SUBSET Fds : DispatchTimer(ev, fds)
    BY <1>7 DEF Dispatch
  <2>1. CASE DispatchWake(ev)
    BY <1>0, <2>1, SocketsUntouched, TasksUntouched DEF DispatchWake, Take, LoopStates, BatchIsUsedUp
  <2>2. CASE DispatchListen(ev)
    BY <1>0, <2>2, SocketsUntouched, TasksUntouched DEF DispatchListen, Take, LoopStates, BatchIsUsedUp
  <2>3. CASE on_read(ev)
    <3>1. UNCHANGED taskVars /\ UNCHANGED postVars /\ loop = "batch" /\ loop' = loop
      BY <2>3 DEF on_read, Take
    <3> QED
      BY <2>3, <3>1, ReadKeepsSockets, TasksUntouched
  <2>4. ASSUME NEW fds \in SUBSET Fds, DispatchTimer(ev, fds)
        PROVE  SocketInv' /\ TaskInv'
    <3>1. UNCHANGED taskVars /\ UNCHANGED postVars /\ loop = "batch" /\ loop' = loop
      BY <2>4 DEF DispatchTimer, Take
    <3> QED
      BY <2>4, <3>1, TimerKeepsSockets, TasksUntouched
  <2> QED
    BY <2>1, <2>2, <2>3, <2>4
<1>8. CASE on_wake
  <2>1. UNCHANGED <<sockVars, postVars, watcher>>
    BY <1>8 DEF on_wake
  <2>2. batch' = batch /\ running' = running /\ loop' \in {"swap", "tasks", "batch"}
    BY <1>8 DEF on_wake, Drain, Swap, RunTask
  <2>3. SocketInv'
    BY <1>0, <2>1, <2>2, SocketsUntouched DEF LoopStates, BatchIsUsedUp
  <2>4. TaskInv'
    BY <1>8, <2>1, DrainKeepsTasks, SwapKeepsTasks, RunTaskKeepsTasks DEF on_wake
  <2> QED
    BY <2>3, <2>4
<1>9. ASSUME NEW fd \in Fds, AcceptOne(fd)
      PROVE  SocketInv' /\ TaskInv'
  <2>1. UNCHANGED taskVars /\ UNCHANGED postVars /\ loop = "accept" /\ loop' = loop
    BY <1>9 DEF AcceptOne, loopVars
  <2> QED
    BY <1>9, <2>1, AcceptKeepsSockets, TasksUntouched
<1>10. CASE AcceptEnds
  BY <1>0, <1>10, SocketsUntouched, TasksUntouched DEF AcceptEnds, LoopStates, BatchIsUsedUp
<1>11. CASE MainEnds
  <2>1. UNCHANGED taskVars /\ UNCHANGED postVars /\ loop = "left"
    BY <1>11 DEF MainEnds
  <2> QED
    BY <1>11, <2>1, EndKeepsSockets, TasksUntouched
<1>12. ASSUME NEW p \in Posters, PostPush(p) \/ PostWrite(p)
       PROVE  SocketInv' /\ TaskInv'
  <2>1. UNCHANGED <<loopVars, sockVars, watcher>>
    BY <1>12 DEF PostPush, PostWrite
  <2>2. SocketInv'
    BY <1>0, <2>1, SocketsUntouched DEF loopVars, BatchIsUsedUp
  <2> QED
    BY <1>12, <2>2, PostPushKeepsTasks, PostWriteKeepsTasks
<1>13. ASSUME \/ Connect
              \/ \E fd \in Fds, what \in {"data", "hangup"} : PeerSends(fd, what)
              \/ TimerFires
       PROVE  SocketInv' /\ TaskInv'
  <2>1. UNCHANGED <<loopVars, taskVars, postVars>>
    BY <1>13 DEF Connect, PeerSends, TimerFires
  <2>2. TaskInv'
    BY <2>1 DEF TaskInv, TaskTypes, TasksOnceInOrder, NoLostWakeUp, TasksAreLocal,
       loopVars, taskVars, postVars
  <2> QED
    BY <1>13, <2>2, EnvironmentKeepsSockets
<1>14. CASE Signal \/ WatcherStops
  <2>1. /\ UNCHANGED <<batch, sockVars, taskVars, postVars>>
        /\ loop' = loop \/ (loop = "waiting" /\ loop' = "check")
    BY <1>14 DEF Signal, WatcherStops
  <2>2. running' \in BOOLEAN /\ watcher' \in {"polling", "signalled", "done"}
    BY <1>0, <1>14 DEF Signal, WatcherStops
  <2>3. SocketInv'
    BY <1>0, <2>1, <2>2, SocketsUntouched DEF LoopStates, BatchIsUsedUp
  <2>4. TaskInv'
    BY <2>1 DEF TaskInv, TaskTypes, TasksOnceInOrder, NoLostWakeUp, TasksAreLocal,
       taskVars, postVars
  <2> QED
    BY <2>3, <2>4
<1>15. CASE UNCHANGED vars
  <2>1. UNCHANGED <<loopVars, sockVars, taskVars, postVars, watcher>>
    BY <1>15 DEF vars
  <2>2. SocketInv'
    BY <1>0, <2>1, SocketsUntouched DEF loopVars, BatchIsUsedUp
  <2>3. TaskInv'
    BY <2>1 DEF TaskInv, TaskTypes, TasksOnceInOrder, NoLostWakeUp, TasksAreLocal,
       loopVars, taskVars, postVars
  <2> QED
    BY <2>2, <2>3
<1> QED
  BY <1>1, <1>2, <1>3, <1>4, <1>5, <1>6, <1>7, <1>8, <1>9, <1>10, <1>11, <1>12, <1>13,
     <1>14, <1>15 DEF Next, LoopThread

\* The inductive invariant holds in every behaviour.
LEMMA LoopInvariant == Spec => []LoopIInv
BY InitLoopIInv, NextLoopIInv, PTL DEF Spec

\* Every variable keeps its type, and an fd that has left callbacks_ is closed.
THEOREM LoopTypeCorrect == Spec => []TypeOK
<1>1. LoopIInv => TypeOK
  BY DEF LoopIInv
<1> QED
  BY <1>1, LoopInvariant, PTL

\* However often fd numbers are reused, the event that run() dispatches is for
\* the connection its callback serves.
THEOREM EventsAlwaysCurrent == Spec => []EventsAreCurrent
<1>1. LoopIInv => EventsAreCurrent
  BY DEF LoopIInv
<1> QED
  BY <1>1, LoopInvariant, PTL

\* Whatever number of threads post, on_wake runs their tasks once and in the
\* order they entered pending_.
THEOREM TasksAlwaysOnceInOrder == Spec => []TasksOnceInOrder
<1>1. LoopIInv => TasksOnceInOrder
  BY DEF LoopIInv
<1> QED
  BY <1>1, LoopInvariant, PTL

\* Draining the eventfd before the queue is taken loses no wake-up.
THEOREM NeverLostWakeUp == Spec => []NoLostWakeUp
<1>1. LoopIInv => NoLostWakeUp
  BY DEF LoopIInv
<1> QED
  BY <1>1, LoopInvariant, PTL
=============================================================================
