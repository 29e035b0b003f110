----------------------------- MODULE DoipServer -----------------------------
(***************************************************************************)
(* doip::DoipServer on the TcpServer and the EpollLoop: the connections,   *)
(* the routing table and the three inactivity timers of the TCP side.      *)
(*                                                                         *)
(* One thread runs the loop, so callbacks do not overlap; inside on_read   *)
(* it takes one frame after the other while peers go on sending, hanging   *)
(* up, and time passes.  A frame is reduced to what its handler decides    *)
(* on; the answers are left out (send_frame changes no state, and what UDS *)
(* does with a diagnostic message is another component).  A timer is a     *)
(* deadline that has passed or has not.  The UDP side keeps no state.      *)
(***************************************************************************)
EXTENDS Naturals, Sequences, FiniteSets

CONSTANTS
  Fds,              \* file descriptors the kernel hands out
  Testers,          \* tester logical addresses
  NoFd, NoAddress,  \* "no entry" in the two maps of the routing table
  MaxOpenSockets,   \* identity_.max_open_sockets
  MaxAccepts,       \* bound on the number of accepted connections
  MaxFrames         \* bound on the number of frames peers send

ASSUME DoipAssumption ==
  /\ NoFd \notin Fds
  /\ NoAddress \notin Testers
  /\ IsFiniteSet(Testers)
  /\ MaxOpenSockets \in Nat /\ MaxAccepts \in Nat /\ MaxFrames \in Nat

VARIABLES
  socket,       \* "free", "open", or "shut" by either side and not yet closed
  inbox,        \* frames received and not yet read
  reading,      \* the fd whose on_read is running
  state,        \* connections_: "none" when there is no entry for the fd
  tester,       \* tester_address_ of the connection
  garbled,      \* the connections whose rx_ starts with a bad header
  timers,       \* the deadlines of the connection
  addressToFd,  \* address_to_fd_
  fdToAddress,  \* fd_to_address_
  channels,     \* channels_: the tester a channel was made for
  accepts,      \* number of accepted connections (bound only)
  frames        \* number of frames sent (bound only)

vars == <<socket, inbox, reading, state, tester, garbled, timers, addressToFd,
          fdToAddress, channels, accepts, frames>>

connVars == <<state, tester, garbled, timers>>

routeVars == <<addressToFd, fdToAddress, channels>>

-----------------------------------------------------------------------------
(* Frames *)

FrameTypes == {"bad_header", "no_reaction", "alive_check_request"}

Plain(type) == [type |-> type, address |-> NoAddress, activation |-> 0]

\* "no_reaction" stands for every frame that is only answered or ignored:
\* identification, entity status, power mode, diagnostic messages, frames of
\* a wrong length or an unknown type (the alive check response 0x0008 is one),
\* and the first part of a longer frame.
\* Activation type 0 is the supported one.
Frames ==
  {Plain(type) : type \in FrameTypes} \cup
  [type : {"routing_activation"}, address : Testers, activation : {0, 1}]

-----------------------------------------------------------------------------
(* DoipRoutingTable *)

active_count == Cardinality({a \in Testers : addressToFd[a] # NoFd})

\* mutant: one socket too many
at_capacity_Above == active_count > MaxOpenSockets

at_capacity == active_count >= MaxOpenSockets

\* mutant: the entry of the address stays
deactivate_OneMap(fd) ==
  /\ UNCHANGED addressToFd
  /\ fdToAddress' = [f \in Fds |-> IF f = fd THEN NoAddress ELSE fdToAddress[f]]

deactivate(fd) ==
  /\ addressToFd' = [a \in Testers |-> IF a = fdToAddress[fd] THEN NoFd ELSE addressToFd[a]]
  /\ fdToAddress' = [f \in Fds |-> IF f = fd THEN NoAddress ELSE fdToAddress[f]]

\* Both old entries of the fd and of the address go, then the pair is added.
activate(fd, address) ==
  /\ addressToFd' = [a \in Testers |-> IF a = address THEN fd
                                       ELSE IF a = fdToAddress[fd] THEN NoFd
                                       ELSE addressToFd[a]]
  /\ fdToAddress' = [f \in Fds |-> IF f = fd THEN address
                                   ELSE IF f = addressToFd[address] THEN NoAddress
                                   ELSE fdToAddress[f]]

-----------------------------------------------------------------------------
(* DoipConnection: the three deadlines *)

Off == [initial |-> "off", general |-> "off", alive |-> "off"]

arm_initial_inactivity(t) == [t EXCEPT !.initial = "armed"]

arm_general_inactivity(t) == [t EXCEPT !.general = "armed"]

\* alive_pending_ is "armed" until alive_timeout, then "expired".
arm_alive_check(t) == [t EXCEPT !.alive = "armed", !.general = "armed"]

clear_alive_check(t) == [t EXCEPT !.alive = "off"]

\* try_emplace, arm_initial_inactivity and touch at the start of on_data.
Touched(fd) ==
  CASE state[fd] = "none" -> arm_initial_inactivity(Off)
    [] state[fd] = "active" -> arm_general_inactivity(timers[fd])
    [] OTHER -> timers[fd]

Known(fd) == [state EXCEPT ![fd] = IF state[fd] = "none" THEN "initialized" ELSE state[fd]]

-----------------------------------------------------------------------------
(* TcpServer and erase_client *)

erase_client(fd) ==
  /\ deactivate(fd)
  /\ channels' = [channels EXCEPT ![fd] = NoAddress]
  /\ state' = [state EXCEPT ![fd] = "none"]
  /\ tester' = [tester EXCEPT ![fd] = NoAddress]
  /\ garbled' = garbled \ {fd}
  /\ timers' = [timers EXCEPT ![fd] = Off]

\* mutant: the disconnect handler is not called
close_client_NoHandler(fd) ==
  /\ socket' = [socket EXCEPT ![fd] = "free"]
  /\ inbox' = [inbox EXCEPT ![fd] = <<>>]
  /\ reading' = NoFd
  /\ UNCHANGED <<connVars, routeVars>>

close_client(fd) ==
  /\ socket' = [socket EXCEPT ![fd] = "free"]
  /\ inbox' = [inbox EXCEPT ![fd] = <<>>]
  /\ reading' = NoFd
  /\ erase_client(fd)

\* Shut down in both directions; the entry stays until the loop sees it.
request_close(fd) == socket' = [socket EXCEPT ![fd] = "shut"]

on_accept(fd) ==
  /\ reading = NoFd
  /\ socket[fd] = "free"
  /\ accepts < MaxAccepts
  /\ accepts' = accepts + 1
  /\ socket' = [socket EXCEPT ![fd] = "open"]
  /\ UNCHANGED <<inbox, reading, connVars, routeVars, frames>>

\* on_read called with EPOLLRDHUP, EPOLLHUP or EPOLLERR: what is still in the
\* socket is not read.
OnHangUp(fd) ==
  /\ reading = NoFd
  /\ socket[fd] = "shut"
  /\ close_client(fd)
  /\ UNCHANGED <<accepts, frames>>

\* recv returns 0 on a socket that was shut down, and EAGAIN otherwise.
ReadEnds(fd) ==
  /\ reading = fd
  /\ inbox[fd] = <<>>
  /\ \/ /\ socket[fd] = "shut"
        /\ close_client(fd)
     \/ /\ socket[fd] = "open"
        /\ reading' = NoFd
        /\ UNCHANGED <<socket, inbox, connVars, routeVars>>
  /\ UNCHANGED <<accepts, frames>>

-----------------------------------------------------------------------------
(* on_data and the handlers *)

\* The next frame of the connection: on_read starts with an open socket and
\* goes on, even after a handler asked for the close, until recv has no more.
NextFrame(fd, frame) ==
  /\ \/ reading = NoFd /\ socket[fd] = "open"
     \/ reading = fd
  /\ reading' = fd
  /\ inbox[fd] # <<>>
  /\ frame = Head(inbox[fd])
  /\ inbox' = [inbox EXCEPT ![fd] = Tail(inbox[fd])]
  /\ UNCHANGED <<accepts, frames>>

Of(type, frame) == frame.type = type

\* A bad header is answered, the close requested, and rx_ keeps it: whatever
\* comes behind it is never looked at.
OnBadHeader(fd, frame) ==
  /\ NextFrame(fd, frame)
  /\ fd \in garbled \/ Of("bad_header", frame)
  /\ garbled' = garbled \cup {fd}
  /\ state' = Known(fd)
  /\ timers' = [timers EXCEPT ![fd] = Touched(fd)]
  /\ request_close(fd)
  /\ UNCHANGED <<tester, routeVars>>

\* dispatch, for a frame that changes nothing but the timers.
OnPlainFrame(fd, frame) ==
  /\ NextFrame(fd, frame)
  /\ fd \notin garbled
  /\ Of("no_reaction", frame)
  /\ state' = Known(fd)
  /\ timers' = [timers EXCEPT ![fd] = Touched(fd)]
  /\ UNCHANGED <<socket, tester, garbled, routeVars>>

handle_alive_check(fd, frame) ==
  /\ NextFrame(fd, frame)
  /\ fd \notin garbled
  /\ Of("alive_check_request", frame)
  /\ state' = Known(fd)
  /\ timers' = [timers EXCEPT ![fd] = arm_general_inactivity(clear_alive_check(Touched(fd)))]
  /\ UNCHANGED <<socket, tester, garbled, routeVars>>

\* The four refusals of handle_routing_activation, in their order.
Refused(fd, frame) ==
  \/ state[fd] = "active" /\ tester[fd] # frame.address
  \/ addressToFd[frame.address] \notin {NoFd, fd}
  \/ state[fd] # "active" /\ at_capacity
  \/ frame.activation # 0

RefuseActivation(fd, frame) ==
  /\ NextFrame(fd, frame)
  /\ fd \notin garbled
  /\ Of("routing_activation", frame)
  /\ Refused(fd, frame)
  /\ request_close(fd)
  /\ state' = Known(fd)
  /\ timers' = [timers EXCEPT ![fd] = Touched(fd)]
  /\ UNCHANGED <<tester, garbled, routeVars>>

ActivateRouting(fd, frame) ==
  /\ NextFrame(fd, frame)
  /\ fd \notin garbled
  /\ Of("routing_activation", frame)
  /\ ~Refused(fd, frame)
  /\ activate(fd, frame.address)
  /\ state' = [state EXCEPT ![fd] = "active"]
  /\ tester' = [tester EXCEPT ![fd] = frame.address]
  /\ channels' = [channels EXCEPT ![fd] = frame.address]
  /\ timers' = [timers EXCEPT ![fd] = arm_general_inactivity(Touched(fd))]
  /\ UNCHANGED <<socket, garbled>>

OnFrame(fd, frame) ==
  \/ OnBadHeader(fd, frame)
  \/ OnPlainFrame(fd, frame)
  \/ handle_alive_check(fd, frame)
  \/ RefuseActivation(fd, frame)
  \/ ActivateRouting(fd, frame)

-----------------------------------------------------------------------------
(* maintain_connections, once a second *)

\* mutant: a tester that does not answer the alive check is never given up
TimedOut_InitialOnly(fd) ==
  state[fd] = "initialized" /\ timers[fd].initial = "expired"

TimedOut(fd) ==
  \/ state[fd] = "initialized" /\ timers[fd].initial = "expired"
  \/ state[fd] = "active" /\ timers[fd].alive = "expired"

\* mutant: routing_active() is not asked
Silent_AnyState(fd) ==
  state[fd] # "none" /\ timers[fd].general = "expired" /\ timers[fd].alive = "off"

Silent(fd) ==
  state[fd] = "active" /\ timers[fd].general = "expired" /\ timers[fd].alive = "off"

maintain_connections ==
  /\ reading = NoFd
  /\ \E fd \in Fds : Silent(fd) \/ (TimedOut(fd) /\ socket[fd] = "open")
  /\ socket' = [fd \in Fds |-> IF TimedOut(fd) THEN "shut" ELSE socket[fd]]
  /\ timers' = [fd \in Fds |-> IF Silent(fd) THEN arm_alive_check(timers[fd]) ELSE timers[fd]]
  /\ UNCHANGED <<inbox, reading, state, tester, garbled, routeVars, accepts, frames>>

-----------------------------------------------------------------------------
(* Peers and time *)

SendFrame(fd, frame) ==
  /\ socket[fd] # "free"
  /\ frames < MaxFrames
  /\ frames' = frames + 1
  /\ inbox' = [inbox EXCEPT ![fd] = Append(inbox[fd], frame)]
  /\ UNCHANGED <<socket, reading, connVars, routeVars, accepts>>

HangUp(fd) ==
  /\ socket[fd] = "open"
  /\ socket' = [socket EXCEPT ![fd] = "shut"]
  /\ UNCHANGED <<inbox, reading, connVars, routeVars, accepts, frames>>

Timers == {"initial", "general", "alive"}

Expire(fd, timer) ==
  /\ timers[fd][timer] = "armed"
  /\ timers' = [timers EXCEPT ![fd][timer] = "expired"]
  /\ UNCHANGED <<socket, inbox, reading, state, tester, garbled, routeVars,
                 accepts, frames>>

-----------------------------------------------------------------------------
Init ==
  /\ socket = [fd \in Fds |-> "free"]
  /\ inbox = [fd \in Fds |-> <<>>]
  /\ reading = NoFd
  /\ state = [fd \in Fds |-> "none"]
  /\ tester = [fd \in Fds |-> NoAddress]
  /\ garbled = {}
  /\ timers = [fd \in Fds |-> Off]
  /\ addressToFd = [a \in Testers |-> NoFd]
  /\ fdToAddress = [fd \in Fds |-> NoAddress]
  /\ channels = [fd \in Fds |-> NoAddress]
  /\ accepts = 0
  /\ frames = 0

\* What the loop does for one fd.
Serve(fd) ==
  \/ OnHangUp(fd)
  \/ ReadEnds(fd)
  \/ \E frame \in Frames : OnFrame(fd, frame)

Next ==
  \/ maintain_connections
  \/ \E fd \in Fds :
       \/ on_accept(fd)
       \/ Serve(fd)
       \/ \E frame \in Frames : SendFrame(fd, frame)
       \/ HangUp(fd)
       \/ \E timer \in Timers : Expire(fd, timer)

\* epoll is level triggered and the loop calls back every ready fd of a batch,
\* the maintenance timer fires every second, and time passes.  No peer has to
\* do anything.
Fairness ==
  /\ WF_vars(maintain_connections)
  /\ \A fd \in Fds :
       /\ WF_vars(Serve(fd))
       /\ \A timer \in Timers : WF_vars(Expire(fd, timer))

Spec == Init /\ [][Next]_vars

FairSpec == Spec /\ Fairness

-----------------------------------------------------------------------------
Deadlines == {"off", "armed", "expired"}

\* Every variable keeps its type, and an alive check is pending only on a
\* connection that is routed.
TypeOK ==
  /\ socket \in [Fds -> {"free", "open", "shut"}]
  /\ inbox \in [Fds -> Seq(Frames)]
  /\ reading \in Fds \cup {NoFd}
  /\ state \in [Fds -> {"none", "initialized", "active"}]
  /\ tester \in [Fds -> Testers \cup {NoAddress}]
  /\ garbled \subseteq Fds
  /\ timers \in [Fds -> [initial : Deadlines, general : Deadlines, alive : Deadlines]]
  /\ addressToFd \in [Testers -> Fds \cup {NoFd}]
  /\ fdToAddress \in [Fds -> Testers \cup {NoAddress}]
  /\ channels \in [Fds -> Testers \cup {NoAddress}]
  /\ accepts \in 0..MaxAccepts /\ frames \in 0..MaxFrames
  /\ \A fd \in Fds : timers[fd].alive # "off" => state[fd] = "active"

\* A connection that is routed is the only one of its tester, and the two maps
\* of the routing table, the connection and its channel agree on who that is,
\* over every activation, refusal, time-out and close.
RoutingConsistent ==
  /\ \A fd \in Fds : fdToAddress[fd] # NoAddress => addressToFd[fdToAddress[fd]] = fd
  /\ \A a \in Testers : addressToFd[a] # NoFd => fdToAddress[addressToFd[a]] = a
  /\ \A fd \in Fds : state[fd] = "active" <=> fdToAddress[fd] # NoAddress
  /\ \A fd \in Fds : tester[fd] = fdToAddress[fd] /\ channels[fd] = fdToAddress[fd]

\* Never more testers routed than max_open_sockets.
CapacityRespected == active_count <= MaxOpenSockets

\* When an fd number is handed out again nothing of the connection that had it
\* before is left: no entry, no timer, no bytes, no route.
NoResidue ==
  \A fd \in Fds :
    socket[fd] = "free" =>
      /\ state[fd] = "none" /\ timers[fd] = Off /\ inbox[fd] = <<>>
      /\ fd \notin garbled /\ fdToAddress[fd] = NoAddress /\ channels[fd] = NoAddress
      /\ reading # fd

\* A tester that falls silent is closed in the end, whatever it sent before:
\* not activated by the initial timer, activated by the alive check.  (Peers
\* send finitely many frames here, so every one falls silent.)
SilentIsClosed == \A fd \in Fds : (state[fd] # "none") ~> (state[fd] = "none")

-----------------------------------------------------------------------------
(* The inductive invariant behind the three *)

\* The connections and the routing table are maps over fds and addresses.
Tables ==
  /\ socket \in [Fds -> {"free", "open", "shut"}]
  /\ DOMAIN inbox = Fds /\ DOMAIN timers = Fds
  /\ reading \in Fds \cup {NoFd}
  /\ state \in [Fds -> {"none", "initialized", "active"}]
  /\ tester \in [Fds -> Testers \cup {NoAddress}]
  /\ addressToFd \in [Testers -> Fds \cup {NoFd}]
  /\ fdToAddress \in [Fds -> Testers \cup {NoAddress}]
  /\ channels \in [Fds -> Testers \cup {NoAddress}]

DoipIInv == Tables /\ RoutingConsistent /\ CapacityRespected /\ NoResidue

=============================================================================
