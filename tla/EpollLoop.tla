----------------------------- MODULE EpollLoop ------------------------------
(***************************************************************************)
(* net::EpollLoop with the listener, the client sockets of TcpServer and   *)
(* the main function around it: the thread that runs the loop, the threads *)
(* that post tasks to it, and the watcher that stops it after a signal.    *)
(*                                                                         *)
(* epoll reports fds, not connections, and the number of a closed fd is    *)
(* handed out again at the next accept.  Each accepted connection has a    *)
(* number of its own here, so that an event can be told from an event for  *)
(* the next owner of its fd.  What a callback does with the bytes it reads *)
(* is DoipServer's.                                                        *)
(***************************************************************************)
EXTENDS Naturals, Sequences, FiniteSets, SequencesExt

CONSTANTS
  Fds,          \* numbers the kernel can give to client sockets
  Posters,      \* threads that call post
  None,         \* no connection
  EpollFaults,  \* whether epoll_wait may fail for good
  MaxConns,     \* bound on the number of connections peers open
  MaxPosts      \* bound on the number of tasks a thread posts

ASSUME LoopAssumption ==
  /\ MaxConns \in Nat /\ MaxPosts \in Nat
  /\ None \notin Nat
  /\ EpollFaults \in BOOLEAN
  /\ Fds \cap {"wake", "listen", "timer"} = {}

VARIABLES
  loop,      \* where the thread in run() is
  running,   \* running_
  batch,     \* the events of the last epoll_wait that are not dispatched yet
  conn,      \* the connection callbacks_ and clients_ have for an fd
  input,     \* what an fd is ready for: "quiet", "data" or "hangup"
  backlog,   \* connections that wait for accept
  conns,     \* number of connections accepted so far
  timer,     \* whether the maintenance timer has fired
  wake,      \* whether the eventfd is readable
  pending,   \* pending_
  tasks,     \* the local queue of on_wake
  poster,    \* where a posting thread is
  posts,     \* number of tasks a thread has begun to post
  pushed,    \* history: all tasks in the order they entered pending_
  ran,       \* history: all tasks in the order they ran
  watcher    \* the watcher thread: "polling", "signalled" or "done"

loopVars == <<loop, running, batch>>
sockVars == <<conn, input, backlog, conns, timer>>
taskVars == <<wake, pending, tasks, pushed, ran>>
postVars == <<poster, posts>>
vars == <<loopVars, sockVars, taskVars, postVars, watcher>>

-----------------------------------------------------------------------------
(* What epoll_wait reports *)

Event(source) == [source |-> source, conn |-> IF source \in Fds THEN conn[source] ELSE None]

\* Level triggered: a source is reported for as long as it is ready.
Ready ==
  {fd \in Fds : conn[fd] # None /\ input[fd] # "quiet"} \cup
  {s \in {"wake"} : wake} \cup {s \in {"timer"} : timer} \cup {s \in {"listen"} : backlog > 0}

-----------------------------------------------------------------------------
(* run and stop *)

Run ==
  /\ loop = "new"
  /\ running' = TRUE
  /\ loop' = "check"
  /\ UNCHANGED <<batch, sockVars, taskVars, postVars, watcher>>

\* mutant: running_ is asked for when a batch is empty only
CheckRunning_WhenIdle ==
  /\ loop = "check"
  /\ loop' = IF running \/ Ready # {} THEN "waiting" ELSE "left"
  /\ UNCHANGED <<running, batch, sockVars, taskVars, postVars, watcher>>

CheckRunning ==
  /\ loop = "check"
  /\ loop' = IF running THEN "waiting" ELSE "left"
  /\ UNCHANGED <<running, batch, sockVars, taskVars, postVars, watcher>>

\* The 500 ms are over and nothing was ready.
EpollTimesOut ==
  /\ loop = "waiting"
  /\ Ready = {}
  /\ loop' = "check"
  /\ UNCHANGED <<running, batch, sockVars, taskVars, postVars, watcher>>

EpollWait ==
  /\ loop = "waiting"
  /\ Ready # {}
  /\ batch' = {Event(s) : s \in Ready}
  /\ loop' = "batch"
  /\ UNCHANGED <<running, sockVars, taskVars, postVars, watcher>>

EpollFails ==
  /\ EpollFaults
  /\ loop = "waiting"
  /\ loop' = "left"
  /\ UNCHANGED <<running, batch, sockVars, taskVars, postVars, watcher>>

\* The next event of the batch, in the order the kernel listed them.
Take(ev) ==
  /\ loop = "batch"
  /\ ev \in batch
  /\ batch' = batch \ {ev}

BatchEnds ==
  /\ loop = "batch"
  /\ batch = {}
  /\ loop' = "check"
  /\ UNCHANGED <<running, batch, sockVars, taskVars, postVars, watcher>>

-----------------------------------------------------------------------------
(* on_wake and post *)

Drain(from, to) ==
  /\ loop = from
  /\ loop' = to
  /\ wake' = FALSE
  /\ UNCHANGED <<running, batch, pending, tasks, pushed, ran>>

Swap(from, to) ==
  /\ loop = from
  /\ loop' = to
  /\ tasks' = pending
  /\ pending' = <<>>
  /\ UNCHANGED <<running, batch, wake, pushed, ran>>

\* mutant: the queue is copied instead of swapped
Swap_Copies(from, to) ==
  /\ loop = from
  /\ loop' = to
  /\ tasks' = pending
  /\ UNCHANGED <<running, batch, wake, pending, pushed, ran>>

RunTask ==
  /\ loop = "tasks"
  /\ IF tasks = <<>>
       THEN loop' = "batch" /\ UNCHANGED <<tasks, ran>>
       ELSE /\ ran' = Append(ran, Head(tasks))
            /\ tasks' = Tail(tasks)
            /\ UNCHANGED loop
  /\ UNCHANGED <<running, batch, wake, pending, pushed>>

\* mutant: the tasks are taken first and the eventfd is drained afterwards
on_wake_SwapFirst ==
  /\ Swap("wake", "swap") \/ Drain("swap", "tasks") \/ RunTask
  /\ UNCHANGED <<sockVars, postVars, watcher>>

\* mutant: the tasks stay in pending_
on_wake_Copies ==
  /\ Drain("wake", "swap") \/ Swap_Copies("swap", "tasks") \/ RunTask
  /\ UNCHANGED <<sockVars, postVars, watcher>>

\* The eventfd is read until it is empty, then pending_ is taken under
\* post_mutex_, then the tasks run, without the mutex, in their order.
on_wake ==
  /\ Drain("wake", "swap") \/ Swap("swap", "tasks") \/ RunTask
  /\ UNCHANGED <<sockVars, postVars, watcher>>

DispatchWake(ev) ==
  /\ Take(ev)
  /\ ev.source = "wake"
  /\ loop' = "wake"
  /\ UNCHANGED <<running, sockVars, taskVars, postVars, watcher>>

\* post, first half: the task enters pending_ under post_mutex_ ...
PostPush(p) ==
  /\ poster[p] = "idle"
  /\ posts[p] < MaxPosts
  /\ posts' = [posts EXCEPT ![p] = @ + 1]
  /\ poster' = [poster EXCEPT ![p] = "pushed"]
  /\ pending' = Append(pending, <<p, posts[p] + 1>>)
  /\ pushed' = Append(pushed, <<p, posts[p] + 1>>)
  /\ UNCHANGED <<loopVars, sockVars, wake, tasks, ran, watcher>>

\* ... and second half: the eventfd is written.
PostWrite(p) ==
  /\ poster[p] = "pushed"
  /\ poster' = [poster EXCEPT ![p] = "idle"]
  /\ wake' = TRUE
  /\ UNCHANGED <<loopVars, sockVars, pending, tasks, pushed, ran, posts, watcher>>

-----------------------------------------------------------------------------
(* TcpServer on the loop *)

DispatchListen(ev) ==
  /\ Take(ev)
  /\ ev.source = "listen"
  /\ loop' = "accept"
  /\ UNCHANGED <<running, sockVars, taskVars, postVars, watcher>>

\* on_accept, one connection: any free number may be the new fd.
AcceptOne(fd) ==
  /\ loop = "accept"
  /\ backlog > 0
  /\ conn[fd] = None
  /\ backlog' = backlog - 1
  /\ conns' = conns + 1
  /\ conn' = [conn EXCEPT ![fd] = conns + 1]
  /\ input' = [input EXCEPT ![fd] = "quiet"]
  /\ UNCHANGED <<loopVars, timer, taskVars, postVars, watcher>>

\* accept has no more (EAGAIN) or no fd left for it (EMFILE).
AcceptEnds ==
  /\ loop = "accept"
  /\ backlog = 0 \/ \A fd \in Fds : conn[fd] # None
  /\ loop' = "batch"
  /\ UNCHANGED <<running, batch, sockVars, taskVars, postVars, watcher>>

\* mutant: the fd leaves clients_ and callbacks_ and is not closed
close_client_LeftOpen(fd) ==
  /\ conn' = [conn EXCEPT ![fd] = None]
  /\ UNCHANGED input

\* del, close and the erase from clients_.
close_client(fd) ==
  /\ conn' = [conn EXCEPT ![fd] = None]
  /\ input' = [input EXCEPT ![fd] = "quiet"]

\* The callback of a client socket: on_read closes it after a hang-up, and
\* reads everything otherwise.  An fd that has no callback any more is skipped.
on_read(ev) ==
  /\ Take(ev)
  /\ ev.source \in Fds
  /\ IF conn[ev.source] = None THEN UNCHANGED <<conn, input>>
     ELSE IF input[ev.source] = "hangup" THEN close_client(ev.source)
     ELSE input' = [input EXCEPT ![ev.source] = "quiet"] /\ UNCHANGED conn
  /\ UNCHANGED <<loop, running, backlog, conns, timer, taskVars, postVars, watcher>>

\* mutant: the connection is closed in place, not shut down
request_close_Closes(fds) ==
  /\ conn' = [fd \in Fds |-> IF fd \in fds THEN None ELSE conn[fd]]
  /\ input' = [fd \in Fds |-> IF fd \in fds THEN "quiet" ELSE input[fd]]

\* ::shutdown(fd, SHUT_RDWR): the close is left to the fd's own callback.
request_close(fds) ==
  /\ input' = [fd \in Fds |-> IF fd \in fds THEN "hangup" ELSE input[fd]]
  /\ UNCHANGED conn

\* maintain_connections: the connections that timed out are asked to close.
DispatchTimer(ev, fds) ==
  /\ Take(ev)
  /\ ev.source = "timer"
  /\ timer' = FALSE
  /\ \A fd \in fds : conn[fd] # None
  /\ request_close(fds)
  /\ UNCHANGED <<loop, running, backlog, conns, taskVars, postVars, watcher>>

-----------------------------------------------------------------------------
(* Peers, the clock and the signal *)

Connect ==
  /\ conns + backlog < MaxConns
  /\ backlog' = backlog + 1
  /\ UNCHANGED <<loopVars, conn, input, conns, timer, taskVars, postVars, watcher>>

PeerSends(fd, what) ==
  /\ conn[fd] # None
  /\ input[fd] # "hangup"
  /\ input' = [input EXCEPT ![fd] = what]
  /\ UNCHANGED <<loopVars, conn, backlog, conns, timer, taskVars, postVars, watcher>>

TimerFires ==
  /\ ~timer
  /\ timer' = TRUE
  /\ UNCHANGED <<loopVars, conn, input, backlog, conns, taskVars, postVars, watcher>>

\* on_signal, on any thread: in epoll_wait it ends the call with EINTR.
Signal ==
  /\ watcher = "polling"
  /\ watcher' = "signalled"
  /\ UNCHANGED loop \/ (loop = "waiting" /\ loop' = "check")
  /\ UNCHANGED <<running, batch, sockVars, taskVars, postVars>>

\* The watcher sees g_running within 100 ms and calls stop.
WatcherStops ==
  /\ watcher = "signalled"
  /\ watcher' = "done"
  /\ running' = FALSE
  /\ UNCHANGED <<loop, batch, sockVars, taskVars, postVars>>

\* main joins the watcher and TcpServer::stop closes what is open.
MainEnds ==
  /\ loop = "left"
  /\ watcher = "done"
  /\ loop' = "ended"
  /\ conn' = [fd \in Fds |-> None]
  /\ input' = [fd \in Fds |-> "quiet"]
  /\ UNCHANGED <<running, batch, backlog, conns, timer, taskVars, postVars, watcher>>

-----------------------------------------------------------------------------
Init ==
  /\ loop = "new" /\ running = FALSE /\ batch = {}
  /\ conn = [fd \in Fds |-> None]
  /\ input = [fd \in Fds |-> "quiet"]
  /\ backlog = 0 /\ conns = 0 /\ timer = FALSE
  /\ wake = FALSE /\ pending = <<>> /\ tasks = <<>> /\ pushed = <<>> /\ ran = <<>>
  /\ poster = [p \in Posters |-> "idle"]
  /\ posts = [p \in Posters |-> 0]
  /\ watcher = "polling"

Dispatch ==
  \E ev \in batch :
    \/ DispatchWake(ev)
    \/ DispatchListen(ev)
    \/ on_read(ev)
    \/ \E fds \in SUBSET Fds : DispatchTimer(ev, fds)

\* The thread in run().
LoopThread ==
  \/ Run \/ CheckRunning \/ EpollWait \/ EpollTimesOut \/ EpollFails
  \/ Dispatch \/ BatchEnds \/ on_wake
  \/ (\E fd \in Fds : AcceptOne(fd)) \/ AcceptEnds
  \/ MainEnds

Next ==
  \/ LoopThread
  \/ \E p \in Posters : PostPush(p) \/ PostWrite(p)
  \/ Connect
  \/ \E fd \in Fds, what \in {"data", "hangup"} : PeerSends(fd, what)
  \/ TimerFires
  \/ Signal \/ WatcherStops

Spec == Init /\ [][Next]_vars

\* The threads are scheduled and epoll_wait reports what is ready.  Nobody has
\* to connect, send, post or send a signal.
Fairness ==
  /\ WF_vars(LoopThread)
  /\ WF_vars(WatcherStops)
  /\ \A p \in Posters : WF_vars(PostWrite(p))

FairSpec == Spec /\ Fairness

-----------------------------------------------------------------------------
LoopStates == {"new", "check", "waiting", "batch", "wake", "swap", "tasks", "accept", "left", "ended"}

\* Every variable keeps its type, and an fd without a callback has nothing to
\* report: it was closed.
TypeOK ==
  /\ loop \in LoopStates
  /\ running \in BOOLEAN
  /\ batch \subseteq [source : Fds \cup {"wake", "listen", "timer"}, conn : Nat \cup {None}]
  /\ conn \in [Fds -> Nat \cup {None}]
  /\ input \in [Fds -> {"quiet", "data", "hangup"}]
  /\ backlog \in Nat /\ conns \in Nat /\ backlog + conns <= MaxConns
  /\ timer \in BOOLEAN /\ wake \in BOOLEAN
  /\ pending \in Seq(Posters \X Nat) /\ tasks \in Seq(Posters \X Nat)
  /\ pushed \in Seq(Posters \X Nat) /\ ran \in Seq(Posters \X Nat)
  /\ poster \in [Posters -> {"idle", "pushed"}]
  /\ posts \in [Posters -> 0..MaxPosts]
  /\ watcher \in {"polling", "signalled", "done"}
  /\ \A fd \in Fds : conn[fd] = None => input[fd] = "quiet"

\* Between the return of epoll_wait and the callback, no other callback of the
\* batch closes the fd and lets a later accept reuse its number: the callback
\* that an event finds in callbacks_ is the one of the connection it is for.
EventsAreCurrent ==
  \A ev \in batch : ev.source \in Fds => conn[ev.source] = ev.conn

\* Every task runs once and in the order post was called, across the swaps of
\* the queue and the posts that race with them.
TasksOnceInOrder == ran \o tasks \o pending = pushed

\* No lost wake-up: a task that waits in pending_ has a readable eventfd, or
\* its poster has still to write, or on_wake has still to take the queue.
NoLostWakeUp ==
  pending # <<>> => wake \/ loop = "swap" \/ \E p \in Posters : poster[p] = "pushed"

\* The parts that make the invariants inductive: an event is for a connection,
\* events are left over only while run() goes through them, and on_wake leaves
\* its local queue empty.
EventsHaveOwners == \A ev \in batch : ev.source \in Fds => ev.conn # None

BatchIsUsedUp == loop \notin {"batch", "wake", "swap", "tasks", "accept"} => batch = {}

TasksAreLocal == loop # "tasks" => tasks = <<>>

LoopIInv ==
  /\ TypeOK /\ EventsAreCurrent /\ TasksOnceInOrder /\ NoLostWakeUp
  /\ EventsHaveOwners /\ BatchIsUsedUp /\ TasksAreLocal

\* A posted task runs in the end, unless the loop is stopped.
PostedRuns ==
  \A p \in Posters, n \in 1..MaxPosts :
    (<<p, n>> \in ToSet(pushed)) ~> (<<p, n>> \in ToSet(ran) \/ loop \in {"left", "ended"})

\* Once stop has been called on a loop that runs, the process comes down,
\* whatever peers, timers and posters keep doing.
StopEndsLoop == (watcher = "done" /\ ~running /\ loop # "new") ~> (loop = "ended")

\* apps/doip_server/main.cpp:75,81: "Ctrl-C to stop"; the watcher "负责停止事件循环":
\* after a signal the process ends.
SignalEnds == (watcher = "signalled") ~> (loop = "ended")
=============================================================================
