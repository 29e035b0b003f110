-------------------------- MODULE DoipServerProofs --------------------------
(***************************************************************************)
(* For any number of sockets and testers: the routing table, the           *)
(* connections and the channels agree, max_open_sockets is kept, an fd is  *)
(* handed out again without residue, and every variable keeps its type.    *)
(***************************************************************************)
EXTENDS DoipServer, FiniteSetTheorems, TLAPS

Routed == {a \in Testers : addressToFd[a] # NoFd}

\* The number of routed testers does not grow when none is added to them.
LEMMA FewerRouted ==
  ASSUME CapacityRespected, Routed' \subseteq Routed
  PROVE  CapacityRespected'
<1>1. IsFiniteSet(Routed)
  BY DoipAssumption, FS_Subset, Routed \subseteq Testers DEF Routed
<1>2. IsFiniteSet(Routed') /\ Cardinality(Routed') <= Cardinality(Routed)
  BY <1>1, FS_Subset
<1>3. Cardinality(Routed) \in Nat /\ Cardinality(Routed') \in Nat
  BY <1>1, <1>2, FS_CardinalityType
<1> QED
  BY <1>2, <1>3, DoipAssumption DEF CapacityRespected, active_count, Routed

\* erase_client clears both maps, the channel and the connection of the fd.
LEMMA EraseKeepsRoutes ==
  ASSUME NEW fd \in Fds, Tables, RoutingConsistent, CapacityRespected, erase_client(fd)
  PROVE  RoutingConsistent' /\ CapacityRespected'
<1> USE DoipAssumption
<1>1. RoutingConsistent'
  BY DEF Tables, RoutingConsistent, erase_client, deactivate
<1>2. Routed' \subseteq Routed
  BY DEF Tables, Routed, erase_client, deactivate
<1> QED
  BY <1>1, <1>2, FewerRouted

\* A frame that activates nothing at most creates the connection.
LEMMA KnownKeepsRoutes ==
  ASSUME NEW fd \in Fds, Tables, RoutingConsistent, CapacityRespected,
         state' = Known(fd), UNCHANGED <<tester, routeVars>>
  PROVE  RoutingConsistent' /\ CapacityRespected'
<1>1. \A f \in Fds : state'[f] = "active" <=> state[f] = "active"
  BY DEF Tables, Known
<1>2. RoutingConsistent'
  BY <1>1 DEF RoutingConsistent, routeVars
<1>3. CapacityRespected'
  BY DEF CapacityRespected, active_count, routeVars
<1> QED
  BY <1>2, <1>3

\* What the refusals leave: a connection that is routed activates its own
\* address again; one that is not takes an address nobody has.
LEMMA Unrefused ==
  ASSUME NEW fd \in Fds, NEW frame, frame.address \in Testers,
         Tables, RoutingConsistent, ~Refused(fd, frame)
  PROVE  \/ fdToAddress[fd] = frame.address /\ addressToFd[frame.address] = fd
         \/ /\ fdToAddress[fd] = NoAddress /\ addressToFd[frame.address] = NoFd
            /\ ~at_capacity
  BY DoipAssumption DEF Tables, RoutingConsistent, Refused

\* handle_routing_activation keeps the maps inverse to each other and stays
\* within max_open_sockets.
LEMMA ActivateKeepsRoutes ==
  ASSUME NEW fd \in Fds, NEW frame, frame.address \in Testers,
         Tables, RoutingConsistent, CapacityRespected,
         ~Refused(fd, frame), activate(fd, frame.address),
         state' = [state EXCEPT ![fd] = "active"],
         tester' = [tester EXCEPT ![fd] = frame.address],
         channels' = [channels EXCEPT ![fd] = frame.address]
  PROVE  RoutingConsistent' /\ CapacityRespected'
<1> USE DoipAssumption
<1> DEFINE address == frame.address
<1>1. CASE fdToAddress[fd] = address /\ addressToFd[address] = fd
  <2>1. addressToFd' = addressToFd /\ fdToAddress' = fdToAddress
    BY <1>1 DEF Tables, activate
  <2>2. state[fd] = "active" /\ tester[fd] = address /\ channels[fd] = address
    BY <1>1 DEF Tables, RoutingConsistent
  <2>3. state' = state /\ tester' = tester /\ channels' = channels
    BY <2>2 DEF Tables
  <2> QED
    BY <2>1, <2>3 DEF RoutingConsistent, CapacityRespected, active_count
<1>2. CASE fdToAddress[fd] = NoAddress /\ addressToFd[address] = NoFd /\ ~at_capacity
  <2>1. /\ addressToFd' = [a \in Testers |-> IF a = address THEN fd ELSE addressToFd[a]]
        /\ fdToAddress' = [f \in Fds |-> IF f = fd THEN address ELSE fdToAddress[f]]
    <3>1. \A a \in Testers : a # fdToAddress[fd]
      BY <1>2
    <3>2. \A f \in Fds : f # addressToFd[address]
      BY <1>2
    <3> QED
      BY <3>1, <3>2 DEF activate
  <2>2. \A f \in Fds : fdToAddress[f] # address
    BY <1>2 DEF RoutingConsistent
  <2>3. \A a \in Testers : addressToFd[a] # fd
    BY <1>2 DEF RoutingConsistent
  <2>4. RoutingConsistent'
    BY <2>1, <2>2, <2>3 DEF Tables, RoutingConsistent
  <2>5. Routed' = Routed \cup {address} /\ address \notin Routed
    BY <1>2, <2>1 DEF Tables, Routed
  <2>6. IsFiniteSet(Routed)
    BY FS_Subset, Routed \subseteq Testers DEF Routed
  <2>7. Cardinality(Routed') = Cardinality(Routed) + 1
    BY <2>5, <2>6, FS_AddElement
  <2>8. Cardinality(Routed) \in Nat
    BY <2>6, FS_CardinalityType
  <2>9. Cardinality(Routed) < MaxOpenSockets
    BY <1>2, <2>8 DEF at_capacity, active_count, Routed
  <2>10. CapacityRespected'
    BY <2>7, <2>8, <2>9 DEF CapacityRespected, active_count, Routed
  <2> QED
    BY <2>4, <2>10
<1> QED
  BY <1>1, <1>2, Unrefused

-----------------------------------------------------------------------------
\* Closing a connection leaves nothing of it.
LEMMA CloseKeeps ==
  ASSUME NEW fd \in Fds, DoipIInv, close_client(fd)
  PROVE  DoipIInv'
<1> USE DoipAssumption DEF DoipIInv
<1>1. erase_client(fd)
  BY DEF close_client
<1>2. RoutingConsistent' /\ CapacityRespected'
  BY <1>1, EraseKeepsRoutes
<1>3. Tables'
  BY DEF Tables, close_client, erase_client, deactivate
<1>4. NoResidue'
  BY DEF Tables, NoResidue, close_client, erase_client, deactivate
<1> QED
  BY <1>2, <1>3, <1>4

\* A frame is taken from a socket that is not free.
LEMMA FrameKeepsResidue ==
  ASSUME NEW fd \in Fds, Tables, NoResidue, NEW frame, NextFrame(fd, frame),
         socket' \in {socket, [socket EXCEPT ![fd] = "shut"]},
         \A f \in Fds \ {fd} : /\ state'[f] = state[f] /\ timers'[f] = timers[f]
                               /\ f \in garbled' => f \in garbled
                               /\ fdToAddress[f] = NoAddress => fdToAddress'[f] = NoAddress
                               /\ channels'[f] = channels[f]
  PROVE  NoResidue'
<1> USE DoipAssumption
<1>1. socket[fd] # "free"
  BY DEF NextFrame, NoResidue, Tables
<1>2. socket'[fd] # "free" /\ \A f \in Fds \ {fd} : socket'[f] = socket[f]
  BY <1>1 DEF Tables
<1>3. \A f \in Fds \ {fd} : inbox'[f] = inbox[f] /\ reading' # f
  BY DEF NextFrame, Tables
<1> QED
  BY <1>2, <1>3 DEF NoResidue

\* Every frame handler keeps the invariant.
LEMMA FrameKeeps ==
  ASSUME NEW fd \in Fds, NEW frame \in Frames, DoipIInv, OnFrame(fd, frame)
  PROVE  DoipIInv'
<1> USE DoipAssumption DEF DoipIInv
<1>1. ASSUME NextFrame(fd, frame), state' = Known(fd), UNCHANGED <<tester, routeVars>>,
             socket' \in {socket, [socket EXCEPT ![fd] = "shut"]},
             DOMAIN timers' = Fds, \A f \in Fds \ {fd} : timers'[f] = timers[f],
             garbled' \subseteq garbled \cup {fd}
      PROVE  DoipIInv'
  <2>1. RoutingConsistent' /\ CapacityRespected'
    BY <1>1, KnownKeepsRoutes
  <2>2. Tables'
    BY <1>1 DEF Tables, Known, NextFrame, routeVars
  <2>3. \A f \in Fds \ {fd} : state'[f] = state[f]
    BY <1>1 DEF Tables, Known
  <2>4. NoResidue'
    BY <1>1, <2>3, FrameKeepsResidue DEF routeVars
  <2> QED
    BY <2>1, <2>2, <2>4
<1>2. CASE OnBadHeader(fd, frame)
  BY <1>1, <1>2 DEF OnBadHeader, request_close, Tables
<1>3. CASE OnPlainFrame(fd, frame)
  BY <1>1, <1>3 DEF OnPlainFrame, Tables
<1>4. CASE handle_alive_check(fd, frame)
  BY <1>1, <1>4 DEF handle_alive_check, Tables
<1>5. CASE RefuseActivation(fd, frame)
  BY <1>1, <1>5 DEF RefuseActivation, request_close, Tables
<1>6. CASE ActivateRouting(fd, frame)
  <2>1. frame.address \in Testers
    BY <1>6 DEF Frames, Plain, ActivateRouting, Of, FrameTypes
  <2>2. RoutingConsistent' /\ CapacityRespected'
    BY <1>6, <2>1, ActivateKeepsRoutes DEF ActivateRouting
  <2>3. Tables'
    BY <1>6, <2>1 DEF Tables, ActivateRouting, activate, NextFrame
  <2>4. NoResidue'
    <3>1. \A f \in Fds \ {fd} :
            /\ state'[f] = state[f] /\ timers'[f] = timers[f]
            /\ f \in garbled' => f \in garbled
            /\ fdToAddress[f] = NoAddress => fdToAddress'[f] = NoAddress
            /\ channels'[f] = channels[f]
      BY <1>6 DEF Tables, ActivateRouting, activate
    <3> QED
      BY <1>6, <3>1, FrameKeepsResidue DEF ActivateRouting
  <2> QED
    BY <2>2, <2>3, <2>4
<1> QED
  BY <1>2, <1>3, <1>4, <1>5, <1>6 DEF OnFrame

\* A step that leaves connections and routes alone, and takes no fd back.
LEMMA OthersKeep ==
  ASSUME DoipIInv, UNCHANGED <<state, tester, garbled, routeVars>>, Tables', NoResidue'
  PROVE  DoipIInv'
  BY DEF DoipIInv, RoutingConsistent, CapacityRespected, active_count, routeVars

\* Only a connection has a deadline.
LEMMA FreeHasNoTimer ==
  ASSUME NoResidue, NEW fd \in Fds, socket[fd] = "free"
  PROVE  /\ ~TimedOut(fd) /\ ~Silent(fd)
         /\ \A timer \in Timers : timers[fd][timer] # "armed"
<1>1. state[fd] = "none" /\ timers[fd] = Off
  BY DEF NoResidue
<1>2. ~TimedOut(fd) /\ ~Silent(fd)
  BY <1>1 DEF TimedOut, Silent
<1>3. \A timer \in Timers : Off[timer] = "off"
  BY DEF Timers, Off
<1> QED
  BY <1>1, <1>2, <1>3

-----------------------------------------------------------------------------
\* Before the first accept every table is empty.
LEMMA InitHolds == Init => DoipIInv
<1> SUFFICES ASSUME Init PROVE DoipIInv
  OBVIOUS
<1> USE DoipAssumption DEF Init
<1>1. Tables
  BY DEF Tables
<1>2. RoutingConsistent
  BY DEF RoutingConsistent
<1>3. NoResidue
  BY DEF NoResidue
<1>4. Routed = {}
  BY DEF Routed
<1>5. CapacityRespected
  <2>1. Cardinality(Routed) = 0
    BY <1>4, FS_EmptySet
  <2>2. active_count = Cardinality(Routed)
    BY DEF active_count, Routed
  <2> QED
    BY <2>1, <2>2 DEF CapacityRespected
<1> QED
  BY <1>1, <1>2, <1>3, <1>5 DEF DoipIInv

\* Every callback keeps the tables consistent.
LEMMA StepHolds == DoipIInv /\ [Next]_vars => DoipIInv'
<1> SUFFICES ASSUME DoipIInv, [Next]_vars PROVE DoipIInv'
  OBVIOUS
<1> USE DoipAssumption
<1>1. CASE maintain_connections
  <2>1. Tables'
    BY <1>1 DEF DoipIInv, Tables, maintain_connections, routeVars
  <2>2. \A fd \in Fds : socket'[fd] = "free" =>
          socket[fd] = "free" /\ timers'[fd] = timers[fd]
    BY <1>1, FreeHasNoTimer DEF DoipIInv, maintain_connections
  <2>3. NoResidue'
    BY <1>1, <2>2 DEF DoipIInv, NoResidue, maintain_connections, routeVars
  <2> QED
    BY <1>1, <2>1, <2>3, OthersKeep DEF maintain_connections
<1>2. ASSUME NEW fd \in Fds, on_accept(fd) PROVE DoipIInv'
  <2>1. Tables' /\ NoResidue'
    BY <1>2 DEF DoipIInv, Tables, NoResidue, on_accept, connVars, routeVars
  <2> QED
    BY <1>2, <2>1, OthersKeep DEF on_accept, connVars
<1>3. ASSUME NEW fd \in Fds, OnHangUp(fd) PROVE DoipIInv'
  BY <1>3, CloseKeeps DEF OnHangUp
<1>4. ASSUME NEW fd \in Fds, ReadEnds(fd) PROVE DoipIInv'
  <2>1. CASE close_client(fd)
    BY <2>1, CloseKeeps
  <2>2. CASE reading' = NoFd /\ UNCHANGED <<socket, inbox, connVars, routeVars>>
    <3>1. Tables' /\ NoResidue'
      BY <2>2 DEF DoipIInv, Tables, NoResidue, connVars, routeVars
    <3> QED
      BY <2>2, <3>1, OthersKeep DEF connVars
  <2> QED
    BY <1>4, <2>1, <2>2 DEF ReadEnds
<1>5. ASSUME NEW fd \in Fds, NEW frame \in Frames, OnFrame(fd, frame) PROVE DoipIInv'
  BY <1>5, FrameKeeps
<1>6. ASSUME NEW fd \in Fds, NEW frame \in Frames, SendFrame(fd, frame) PROVE DoipIInv'
  <2>1. Tables' /\ NoResidue'
    BY <1>6 DEF DoipIInv, Tables, NoResidue, SendFrame, connVars, routeVars
  <2> QED
    BY <1>6, <2>1, OthersKeep DEF SendFrame, connVars
<1>7. ASSUME NEW fd \in Fds, HangUp(fd) PROVE DoipIInv'
  <2>1. Tables' /\ NoResidue'
    BY <1>7 DEF DoipIInv, Tables, NoResidue, HangUp, connVars, routeVars
  <2> QED
    BY <1>7, <2>1, OthersKeep DEF HangUp, connVars
<1>8. ASSUME NEW fd \in Fds, NEW timer \in Timers, Expire(fd, timer) PROVE DoipIInv'
  <2>1. Tables'
    BY <1>8 DEF DoipIInv, Tables, Expire, routeVars
  <2>2. \A f \in Fds : socket[f] = "free" => timers'[f] = timers[f]
    BY <1>8, FreeHasNoTimer DEF DoipIInv, Tables, Expire
  <2>3. NoResidue'
    BY <1>8, <2>2 DEF DoipIInv, NoResidue, Expire, routeVars
  <2> QED
    BY <1>8, <2>1, <2>3, OthersKeep DEF Expire
<1>9. CASE UNCHANGED vars
  <2>1. Tables' /\ NoResidue'
    BY <1>9 DEF DoipIInv, Tables, NoResidue, vars
  <2> QED
    BY <1>9, <2>1, OthersKeep DEF vars, routeVars
<1> QED
  BY <1>1, <1>2, <1>3, <1>4, <1>5, <1>6, <1>7, <1>8, <1>9 DEF Next, Serve

\* The invariant the three theorems below rest on.
LEMMA InductiveInvariant == Spec => []DoipIInv
  BY InitHolds, StepHolds, PTL DEF Spec

\* DoipServer and DoipRoutingTable: a routed tester has exactly one
\* connection, and both maps, the connection and its channel name the same
\* pair, for every number of sockets and testers.
THEOREM RoutingAlwaysConsistent == Spec => []RoutingConsistent
<1>1. DoipIInv => RoutingConsistent
  BY DEF DoipIInv
<1> QED
  BY <1>1, InductiveInvariant, PTL

\* handle_routing_activation never routes more testers than
\* max_open_sockets, for every value of it.
THEOREM CapacityAlwaysRespected == Spec => []CapacityRespected
<1>1. DoipIInv => CapacityRespected
  BY DEF DoipIInv
<1> QED
  BY <1>1, InductiveInvariant, PTL

\* TcpServer::close_client and erase_client together forget everything of a
\* connection before its fd can be handed out again.
THEOREM NeverResidue == Spec => []NoResidue
<1>1. DoipIInv => NoResidue
  BY DEF DoipIInv
<1> QED
  BY <1>1, InductiveInvariant, PTL

-----------------------------------------------------------------------------
(* Type correctness, with the pending alive checks *)

Deadline3 == [initial : Deadlines, general : Deadlines, alive : Deadlines]

\* An alive check is pending only on a connection that is routed.
AliveRouted == \A fd \in Fds : timers[fd].alive # "off" => state[fd] = "active"

\* What TypeOK says beyond Tables.
Queues ==
  /\ inbox \in [Fds -> Seq(Frames)]
  /\ garbled \subseteq Fds
  /\ accepts \in 0..MaxAccepts /\ frames \in 0..MaxFrames

DeadlinesOK == timers \in [Fds -> Deadline3] /\ AliveRouted

\* TypeOK is these parts.
LEMMA TypeParts == TypeOK <=> Tables /\ Queues /\ DeadlinesOK
<1>1. TypeOK => Tables
  BY DEF TypeOK, Tables
<1> QED
  BY <1>1 DEF TypeOK, Tables, Queues, DeadlinesOK, AliveRouted, Deadline3

\* Arming and clearing keep three deadlines, and only arm_alive_check makes the
\* alive check pending.
LEMMA ArmTyped ==
  ASSUME NEW t \in Deadline3
  PROVE  /\ arm_initial_inactivity(t) \in Deadline3
         /\ arm_initial_inactivity(t).alive = t.alive
         /\ arm_general_inactivity(t) \in Deadline3
         /\ arm_general_inactivity(t).alive = t.alive
         /\ arm_alive_check(t) \in Deadline3
         /\ clear_alive_check(t) \in Deadline3
         /\ clear_alive_check(t).alive = "off"
BY DEF Deadline3, Deadlines, arm_initial_inactivity, arm_general_inactivity,
       arm_alive_check, clear_alive_check

\* The timers of a connection that does not exist are off.
LEMMA OffTyped == Off \in Deadline3 /\ Off.alive = "off"
BY DEF Off, Deadline3, Deadlines

\* touch at the start of on_data.
LEMMA TouchedTyped ==
  ASSUME NEW fd \in Fds, Tables, DeadlinesOK
  PROVE  /\ Touched(fd) \in Deadline3
         /\ Touched(fd).alive # "off" => state[fd] = "active"
<1>1. timers[fd] \in Deadline3 /\ (timers[fd].alive # "off" => state[fd] = "active")
  BY DEF DeadlinesOK, AliveRouted
<1>2. CASE state[fd] = "none"
  <2>1. Touched(fd) = arm_initial_inactivity(Off)
    BY <1>2 DEF Touched
  <2> QED
    BY <2>1, OffTyped, ArmTyped
<1>3. CASE state[fd] = "active"
  <2>1. Touched(fd) = arm_general_inactivity(timers[fd])
    BY <1>3 DEF Touched
  <2> QED
    BY <1>1, <1>3, <2>1, ArmTyped
<1>4. CASE state[fd] \notin {"none", "active"}
  <2>1. Touched(fd) = timers[fd]
    BY <1>4 DEF Touched
  <2> QED
    BY <1>1, <2>1
<1> QED
  BY <1>2, <1>3, <1>4

\* The deadlines of one connection change, and no other connection does.
LEMMA OneDeadline ==
  ASSUME NEW fd \in Fds, DeadlinesOK, NEW t \in Deadline3,
         timers' = [timers EXCEPT ![fd] = t],
         \A f \in Fds \ {fd} : state'[f] = state[f],
         t.alive # "off" => state'[fd] = "active"
  PROVE  DeadlinesOK'
BY DEF DeadlinesOK, AliveRouted

\* Taking a frame leaves frames.
LEMMA NextFrameTyped ==
  ASSUME NEW fd \in Fds, NEW frame, Queues, NextFrame(fd, frame),
         garbled' \subseteq garbled \cup {fd}
  PROVE  Queues'
<1>1. inbox[fd] \in Seq(Frames) /\ inbox[fd] # <<>>
  BY DEF Queues, NextFrame
<1>2. Tail(inbox[fd]) \in Seq(Frames)
  BY <1>1
<1> QED
  BY <1>2 DEF Queues, NextFrame

\* Every frame handler.
LEMMA FrameTyped ==
  ASSUME NEW fd \in Fds, NEW frame \in Frames, Tables, Queues, DeadlinesOK,
         OnFrame(fd, frame)
  PROVE  Queues' /\ DeadlinesOK'
<1>1. Queues'
  BY NextFrameTyped DEF OnFrame, OnBadHeader, OnPlainFrame, handle_alive_check,
                        RefuseActivation, ActivateRouting
<1>2. ASSUME state' = Known(fd)
      PROVE  /\ \A f \in Fds \ {fd} : state'[f] = state[f]
             /\ state[fd] = "active" => state'[fd] = "active"
  BY <1>2 DEF Known, Tables
<1>3. CASE OnBadHeader(fd, frame) \/ OnPlainFrame(fd, frame) \/ RefuseActivation(fd, frame)
  <2> DEFINE t == Touched(fd)
  <2>1. state' = Known(fd) /\ timers' = [timers EXCEPT ![fd] = t]
    BY <1>3 DEF OnBadHeader, OnPlainFrame, RefuseActivation
  <2>2. t \in Deadline3 /\ (t.alive # "off" => state[fd] = "active")
    BY TouchedTyped
  <2> HIDE DEF t
  <2>3. t.alive # "off" => state'[fd] = "active"
    BY <1>2, <2>1, <2>2
  <2>4. \A f \in Fds \ {fd} : state'[f] = state[f]
    BY <1>2, <2>1
  <2> QED
    BY <1>1, <2>1, <2>2, <2>3, <2>4, OneDeadline
<1>4. CASE handle_alive_check(fd, frame)
  <2> DEFINE t == arm_general_inactivity(clear_alive_check(Touched(fd)))
  <2>1. t \in Deadline3 /\ t.alive = "off"
    BY TouchedTyped, ArmTyped
  <2>2. state' = Known(fd) /\ timers' = [timers EXCEPT ![fd] = t]
    BY <1>4 DEF handle_alive_check
  <2> HIDE DEF t
  <2>3. \A f \in Fds \ {fd} : state'[f] = state[f]
    BY <1>2, <2>2
  <2> QED
    BY <1>1, <2>1, <2>2, <2>3, OneDeadline
<1>5. CASE ActivateRouting(fd, frame)
  <2> DEFINE t == arm_general_inactivity(Touched(fd))
  <2>1. t \in Deadline3
    BY TouchedTyped, ArmTyped
  <2>2. /\ timers' = [timers EXCEPT ![fd] = t]
        /\ state'[fd] = "active" /\ \A f \in Fds \ {fd} : state'[f] = state[f]
    BY <1>5 DEF ActivateRouting, Tables
  <2> HIDE DEF t
  <2> QED
    BY <1>1, <2>1, <2>2, OneDeadline
<1> QED
  BY <1>1, <1>3, <1>4, <1>5 DEF OnFrame

\* Closing a connection switches its timers off.
LEMMA CloseTyped ==
  ASSUME NEW fd \in Fds, Tables, Queues, DeadlinesOK, close_client(fd),
         UNCHANGED <<accepts, frames>>
  PROVE  Queues' /\ DeadlinesOK'
<1>1. Queues'
  BY DEF Queues, close_client, erase_client
<1>2. /\ timers' = [timers EXCEPT ![fd] = Off]
      /\ \A f \in Fds \ {fd} : state'[f] = state[f]
  BY DEF close_client, erase_client, Tables
<1>3. DeadlinesOK'
  BY <1>2, OffTyped, OneDeadline
<1> QED
  BY <1>1, <1>3

\* maintain_connections makes the alive check pending on routed connections only.
LEMMA MaintainTyped ==
  ASSUME Queues, DeadlinesOK, maintain_connections
  PROVE  Queues' /\ DeadlinesOK'
<1>1. Queues'
  BY DEF Queues, maintain_connections
<1>2. ASSUME NEW fd \in Fds
      PROVE  /\ timers'[fd] \in Deadline3
             /\ timers'[fd].alive # "off" => state[fd] = "active"
  <2>1. timers[fd] \in Deadline3 /\ (timers[fd].alive # "off" => state[fd] = "active")
    BY DEF DeadlinesOK, AliveRouted
  <2>2. timers'[fd] = IF Silent(fd) THEN arm_alive_check(timers[fd]) ELSE timers[fd]
    BY DEF maintain_connections
  <2> QED
    BY <2>1, <2>2, ArmTyped DEF Silent
<1>3. timers' \in [Fds -> Deadline3]
  <2>1. timers' = [fd \in Fds |-> timers'[fd]]
    BY DEF maintain_connections
  <2> QED
    BY <1>2, <2>1
<1>4. state' = state
  BY DEF maintain_connections
<1> QED
  BY <1>1, <1>2, <1>3, <1>4 DEF DeadlinesOK, AliveRouted

\* A deadline that passes was armed.
LEMMA ExpireTyped ==
  ASSUME NEW fd \in Fds, NEW timer \in Timers, Queues, DeadlinesOK, Expire(fd, timer)
  PROVE  Queues' /\ DeadlinesOK'
<1> DEFINE t == [timers[fd] EXCEPT ![timer] = "expired"]
<1>1. Queues' /\ state' = state /\ timers' = [timers EXCEPT ![fd] = t]
  BY DEF Queues, Expire
<1>2. timers[fd] \in Deadline3 /\ timers[fd][timer] = "armed"
      /\ (timers[fd].alive # "off" => state[fd] = "active")
  BY DEF DeadlinesOK, AliveRouted, Expire
<1>3. t \in Deadline3 /\ (t.alive # "off" => timers[fd].alive # "off")
  BY <1>2 DEF Timers, Deadline3, Deadlines
<1> HIDE DEF t
<1>4. DeadlinesOK'
  BY <1>1, <1>2, <1>3, OneDeadline
<1> QED
  BY <1>1, <1>4

\* Every callback keeps queues and deadlines well formed.
LEMMA TypeStep ==
  ASSUME Tables, Queues, DeadlinesOK, [Next]_vars
  PROVE  Queues' /\ DeadlinesOK'
<1>1. CASE maintain_connections
  BY <1>1, MaintainTyped
<1>2. ASSUME NEW fd \in Fds, on_accept(fd) PROVE Queues' /\ DeadlinesOK'
  BY <1>2, DoipAssumption DEF on_accept, Queues, DeadlinesOK, AliveRouted, connVars
<1>3. ASSUME NEW fd \in Fds, Serve(fd) PROVE Queues' /\ DeadlinesOK'
  <2>1. CASE OnHangUp(fd)
    BY <2>1, CloseTyped DEF OnHangUp
  <2>2. CASE ReadEnds(fd)
    <3>1. CASE close_client(fd)
      BY <2>2, <3>1, CloseTyped DEF ReadEnds
    <3>2. CASE UNCHANGED <<inbox, connVars>>
      BY <2>2, <3>2 DEF ReadEnds, Queues, DeadlinesOK, AliveRouted, connVars
    <3> QED
      BY <2>2, <3>1, <3>2 DEF ReadEnds
  <2> QED
    BY <1>3, <2>1, <2>2, FrameTyped DEF Serve
<1>4. ASSUME NEW fd \in Fds, NEW frame \in Frames, SendFrame(fd, frame)
      PROVE  Queues' /\ DeadlinesOK'
  <2>1. Append(inbox[fd], frame) \in Seq(Frames)
    BY DEF Queues
  <2> QED
    BY <1>4, <2>1, DoipAssumption
       DEF SendFrame, Queues, DeadlinesOK, AliveRouted, connVars
<1>5. ASSUME NEW fd \in Fds, HangUp(fd) PROVE Queues' /\ DeadlinesOK'
  BY <1>5 DEF HangUp, Queues, DeadlinesOK, AliveRouted, connVars
<1>6. CASE UNCHANGED vars
  BY <1>6 DEF vars, Queues, DeadlinesOK, AliveRouted
<1> QED
  BY <1>1, <1>2, <1>3, <1>4, <1>5, <1>6, ExpireTyped DEF Next

\* Every variable of the DoIP server keeps its type, and maintain_connections
\* and the handlers leave an alive check pending on routed connections only,
\* over every close, refusal and reuse of an fd.
THEOREM DoipTypeCorrect == Spec => []TypeOK
<1>1. Init => Queues /\ DeadlinesOK
  BY OffTyped, DoipAssumption DEF Init, Queues, DeadlinesOK, AliveRouted
<1>2. DoipIInv /\ Queues /\ DeadlinesOK /\ [Next]_vars => Queues' /\ DeadlinesOK'
  BY TypeStep DEF DoipIInv
<1>3. DoipIInv /\ Queues /\ DeadlinesOK => TypeOK
  BY TypeParts DEF DoipIInv
<1> QED
  BY <1>1, <1>2, <1>3, InductiveInvariant, PTL DEF Spec
=============================================================================
