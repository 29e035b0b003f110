----------------------------- MODULE UdsServer -----------------------------
(***************************************************************************)
(* The request path of the UDS server behind DoIP: Indicate and            *)
(* HandleMessage on the event loop's thread (doip_server.cpp calls one     *)
(* after the other, whatever the first returns), the jobs of the thread    *)
(* pool that take requests from waitQueue_, the request context with its   *)
(* P2 timer, DiagnosticSessionControl (0x10) and the S3 timer that ends a  *)
(* session (server_impl.cpp, request_context.cpp, service_x10.cpp,         *)
(* session_manager.cpp, timer.cpp).                                        *)
(*                                                                         *)
(* Two steps of the code are undefined behaviour: popping an empty         *)
(* waitQueue_, which ends the process here, and a P2 job that runs after   *)
(* its request context was freed, which ends it or goes unnoticed.         *)
(* SetSession and _changeState have no lock either: two calls of the first *)
(* at a time may mix what they assign (ConfirmMeetsS3), and a cancellation *)
(* that falls into the second may be overwritten (Overwritten).            *)
(*                                                                         *)
(* Left out: the priority of the session's owner, as every DoIP request    *)
(* has priority 0 and replaces nobody.                                     *)
(***************************************************************************)
EXTENDS Naturals, Sequences, FiniteSets

CONSTANTS
    Clients,      \* source addresses of testers
    Threads,      \* threads of the pool: 10 in the code
    Sessions,     \* session ids that testers ask for
    None,         \* no client, no request
    MaxRequests,  \* bound: requests that arrive
    MaxS3Jobs,    \* bound: S3 timeouts waiting for a thread
    MaxTimeouts   \* bound: P2 fires only while fewer requests missed it or were cancelled

Default == "default"

ASSUME ServerAssumption ==
    /\ Clients # {} /\ None \notin Clients
    /\ IsFiniteSet(Threads)
    /\ Sessions \cap {"tester present", "other"} = {}
    /\ MaxRequests \in Nat /\ MaxS3Jobs \in Nat /\ MaxTimeouts \in Nat

VARIABLES
    loop,      \* the event loop's thread inside Indicate and HandleMessage
    reqs,      \* the requests that became contexts, in the order they arrived
    queue,     \* waitQueue_: indices into reqs
    jobs,      \* jobs submitted to the pool by HandleMessage
    worker,    \* the pool's threads
    table,     \* clients in requestContextTable_
    cstate,    \* clientRequestContextStateTable_
    session,   \* SessionManager: current session and the client it belongs to
    wanted,    \* ServiceX10::newSessionId_, one for all requests
    s3,        \* the S3 timer is armed
    s3jobs,    \* S3 timeouts submitted to the pool
    arrived,   \* requests that arrived so far
    up         \* the process runs

vars == <<loop, reqs, queue, jobs, worker, table, cstate, session, wanted, s3, s3jobs,
          arrived, up>>

Ops == {"tester present", "other"} \cup Sessions

IdleLoop == [pc |-> "idle", client |-> None, op |-> "other", refused |-> FALSE]
IdleThread == [pc |-> "idle", req |-> 0, positive |-> FALSE]
Idle(w) == worker[w].pc = "idle"

Init ==
    /\ loop = IdleLoop
    /\ reqs = <<>>
    /\ queue = <<>>
    /\ jobs = 0
    /\ worker = [w \in Threads |-> IdleThread]
    /\ table = {}
    /\ cstate = [c \in Clients |-> "none"]
    /\ session = [id |-> Default, client |-> None]
    /\ wanted = Default
    /\ s3 = FALSE
    /\ s3jobs = 0
    /\ arrived = 0
    /\ up = TRUE

----------------------------------------------------------------------------
(* The event loop's thread.                                                *)

\* A diagnostic message; Indicate begins by stopping the S3 timer.
Arrive(c, op) ==
    /\ up /\ loop.pc = "idle"
    /\ arrived < MaxRequests
    /\ arrived' = arrived + 1
    /\ loop' = [IdleLoop EXCEPT !.client = c, !.op = op,
                   !.pc = IF op = "tester present" THEN "present" ELSE "indicate"]
    /\ s3' = FALSE
    /\ UNCHANGED <<reqs, queue, jobs, worker, table, cstate, session, wanted, s3jobs, up>>

\* mutant: the S3 timer is not started again
TesterPresent_NoStart ==
    /\ up /\ loop.pc = "present"
    /\ loop' = IdleLoop
    /\ UNCHANGED <<reqs, queue, jobs, worker, table, cstate, session, wanted, s3, s3jobs,
                   arrived, up>>

\* TesterPresent is answered on this thread and starts the timer again, unless
\* a request of the client is waiting for its answer.
TesterPresent ==
    /\ up /\ loop.pc = "present"
    /\ s3' = (s3 \/ cstate[loop.client] # "request")
    /\ loop' = IdleLoop
    /\ UNCHANGED <<reqs, queue, jobs, worker, table, cstate, session, wanted, s3jobs,
                   arrived, up>>

\* Indicate refuses a client that waits for an answer and, as every DoIP request
\* has priority 0, a client other than the owner of a non-default session.
Refused(c) ==
    \/ cstate[c] = "request"
    \/ session.id # Default /\ session.client # c

Indicate ==
    /\ up /\ loop.pc = "indicate"
    /\ loop' = [loop EXCEPT !.pc = "handle", !.refused = Refused(loop.client)]
    /\ UNCHANGED <<reqs, queue, jobs, worker, table, cstate, session, wanted, s3, s3jobs,
                   arrived, up>>

HandleMessage ==
    /\ up /\ loop.pc = "handle"
    /\ reqs' = Append(reqs, [client |-> loop.client, op |-> loop.op,
                             state |-> "init", p2 |-> "off"])
    /\ queue' = Append(queue, Len(reqs'))
    /\ jobs' = jobs + 1
    /\ loop' = IdleLoop
    /\ UNCHANGED <<worker, table, cstate, session, wanted, s3, s3jobs, arrived, up>>

----------------------------------------------------------------------------
(* The job that HandleMessage submits.                                     *)

At(w, pc) == up /\ worker[w].pc = pc
Goto(w, pc) == worker' = [worker EXCEPT ![w].pc = pc]
ClientOf(w) == reqs[worker[w].req].client

\* mutant: a cancellation is not written to the client's table
ChangeState_Local(r, state, p2) ==
    LET q == reqs[r]
        canceled == q.state = "canceled"
    IN  /\ reqs' = [reqs EXCEPT ![r].state = IF canceled THEN @ ELSE state, ![r].p2 = p2]
        /\ cstate' = IF canceled \/ state = "canceled" THEN cstate
                     ELSE [cstate EXCEPT ![q.client] = state]

\* A context keeps the state kCanceled for good; another change is written to
\* the table of its client.
ChangeState(r, state, p2) ==
    LET q == reqs[r]
        canceled == q.state = "canceled"
    IN  /\ reqs' = [reqs EXCEPT ![r].state = IF canceled THEN @ ELSE state, ![r].p2 = p2]
        /\ cstate' = IF canceled THEN cstate ELSE [cstate EXCEPT ![q.client] = state]

\* The front of the queue is read, not yet removed, and the lock released.
ReadFront(w) ==
    worker' = [worker EXCEPT ![w] =
                 IF queue = <<>> THEN IdleThread
                 ELSE [pc |-> "check", req |-> Head(queue), positive |-> FALSE]]

TakeJob(w) ==
    /\ At(w, "idle") /\ jobs > 0
    /\ jobs' = jobs - 1
    /\ ReadFront(w)
    /\ UNCHANGED <<loop, reqs, queue, table, cstate, session, wanted, s3, s3jobs, arrived, up>>

Again(w) ==
    /\ At(w, "loop")
    /\ ReadFront(w)
    /\ UNCHANGED <<loop, reqs, queue, jobs, table, cstate, session, wanted, s3, s3jobs,
                   arrived, up>>

\* mutant: the context table is not asked
Check_Unlocked(w) ==
    /\ At(w, "check")
    /\ Goto(w, "pop")
    /\ table' = table \cup {ClientOf(w)}
    /\ UNCHANGED <<loop, reqs, queue, jobs, cstate, session, wanted, s3, s3jobs, arrived, up>>

\* Under requestContextLock_: a client that has a request leaves the job.
Check(w) ==
    /\ At(w, "check")
    /\ IF ClientOf(w) \in table
       THEN worker' = [worker EXCEPT ![w] = IdleThread] /\ UNCHANGED table
       ELSE Goto(w, "pop") /\ table' = table \cup {ClientOf(w)}
    /\ UNCHANGED <<loop, reqs, queue, jobs, cstate, session, wanted, s3, s3jobs, arrived, up>>

\* The front is removed, which need not be the request that was read, and the
\* S3 timer is stopped.
Pop(w) ==
    /\ At(w, "pop")
    /\ IF queue = <<>>
       THEN up' = FALSE /\ UNCHANGED <<queue, worker, s3>>
       ELSE /\ queue' = Tail(queue)
            /\ s3' = FALSE
            /\ Goto(w, "begin")
            /\ UNCHANGED up
    /\ UNCHANGED <<loop, reqs, jobs, table, cstate, session, wanted, s3jobs, arrived>>

\* StartP2ServerTimer.
Begin(w) ==
    /\ At(w, "begin")
    /\ ChangeState(worker[w].req, "request", "armed")
    /\ Goto(w, "process")
    /\ UNCHANGED <<loop, queue, jobs, table, session, wanted, s3, s3jobs, arrived, up>>

\* The session ids a session may be changed to: the default session only from
\* itself, another one from the default session and from itself.
Permitted(id) == session.id \in {Default, id}

\* The validators and the service's Process up to its answer.
Process(w) ==
    /\ At(w, "process")
    /\ LET op == reqs[worker[w].req].op
           change == op # "other" /\ Permitted(op)
       IN  /\ worker' = [worker EXCEPT ![w].pc = "respond", ![w].positive = change]
           /\ wanted' = IF change THEN op ELSE wanted
    /\ UNCHANGED <<loop, reqs, queue, jobs, table, cstate, session, s3, s3jobs, arrived, up>>

\* RequestContext::Respond: nothing is sent for a cancelled request, and a
\* suppressed or cancelled positive answer does not change the session.  A
\* negative answer to a functional address is suppressed by a cancellation.
Respond(w) ==
    /\ At(w, "respond")
    /\ LET r == worker[w].req
           canceled == reqs[r].state = "canceled"
       IN  \E suppressed \in BOOLEAN :
             /\ ChangeState(r, IF suppressed /\ ~worker[w].positive THEN "canceled" ELSE "confirm",
                            IF ~canceled /\ reqs[r].p2 = "armed" THEN "off" ELSE reqs[r].p2)
             /\ Goto(w, IF worker[w].positive /\ ~canceled /\ ~suppressed THEN "confirm"
                        ELSE "finish")
    /\ UNCHANGED <<loop, queue, jobs, table, session, wanted, s3, s3jobs, arrived, up>>

\* SessionManager::SetSession: the session, and then its owner.
SessionOf(id, c) == [id |-> id, client |-> IF id = Default THEN None ELSE c]

\* ServiceX10::Confirm calls it with the id of whichever request was processed
\* last.
Confirm(w) ==
    /\ At(w, "confirm")
    /\ session' = SessionOf(wanted, ClientOf(w))
    /\ Goto(w, "finish")
    /\ UNCHANGED <<loop, reqs, queue, jobs, table, cstate, wanted, s3, s3jobs, arrived, up>>

\* A context lives while the queue or a thread refers to it.
HeldBy(r, threads) ==
    \/ \E i \in DOMAIN queue : queue[i] = r
    \/ \E w \in threads : worker[w].req = r

\* The context is freed with its last reference, unless a P2 job, which does not
\* count as one, is waiting.
Freed == [client |-> None, op |-> "other", state |-> "end", p2 |-> "off"]

\* mutant: the context is freed while others refer to it
Release_Always(w) ==
    LET r == worker[w].req
    IN  /\ reqs' = [reqs EXCEPT ![r] = Freed]
        /\ cstate' = [cstate EXCEPT ![reqs[r].client] = "end"]

Release(w) ==
    LET r == worker[w].req
    IN  IF HeldBy(r, Threads \ {w}) \/ reqs[r].p2 = "queued"
        THEN ChangeState(r, "end", reqs[r].p2)
        ELSE /\ reqs' = [reqs EXCEPT ![r] = Freed]
             /\ cstate' = IF reqs[r].state = "canceled" THEN cstate
                          ELSE [cstate EXCEPT ![reqs[r].client] = "end"]

\* mutant: the timer is started by requests of the session's owner only
StartS3_OfOwner(w) == s3' = (s3 \/ session.client = ClientOf(w))

\* In a session other than the default one the timer starts again.
StartS3(w) == s3' = (s3 \/ session.id # Default)

\* mutant: a job handles one request
Finish_Once(w) ==
    /\ At(w, "finish")
    /\ StartS3(w)
    /\ Release(w)
    /\ table' = table \ {ClientOf(w)}
    /\ worker' = [worker EXCEPT ![w] = IdleThread]
    /\ UNCHANGED <<loop, queue, jobs, session, wanted, s3jobs, arrived, up>>

\* The end of a request: the context leaves the table, and the job looks at the
\* queue again.
Finish(w) ==
    /\ At(w, "finish")
    /\ StartS3(w)
    /\ Release(w)
    /\ table' = table \ {ClientOf(w)}
    /\ worker' = [worker EXCEPT ![w] = [pc |-> "loop", req |-> 0, positive |-> FALSE]]
    /\ UNCHANGED <<loop, queue, jobs, session, wanted, s3jobs, arrived, up>>

----------------------------------------------------------------------------
(* Timers.  Their callbacks submit jobs to the same pool.                  *)

Missed == {r \in DOMAIN reqs : reqs[r].p2 = "queued" \/ reqs[r].state = "canceled"}

P2Fire(r) ==
    /\ up /\ reqs[r].p2 = "armed"
    /\ Cardinality(Missed) < MaxTimeouts
    /\ reqs' = [reqs EXCEPT ![r].p2 = "queued"]
    /\ UNCHANGED <<loop, queue, jobs, worker, table, cstate, session, wanted, s3, s3jobs,
                   arrived, up>>

\* A thread is about to change the state of the request and may have looked at
\* it already: it overwrites a cancellation.
Overwritten(r) ==
    /\ reqs[r].state # "canceled"
    /\ \E w \in Threads : worker[w].req = r /\ worker[w].pc \in {"begin", "respond", "finish"}

\* No response-pending answers are configured: the first timeout is answered
\* with GeneralReject and cancels the request.
P2Timeout(r) ==
    /\ up /\ reqs[r].p2 = "queued"
    /\ \E w \in Threads : Idle(w)
    /\ \/ ChangeState(r, "canceled", "off")
       \/ /\ Overwritten(r)
          /\ reqs' = [reqs EXCEPT ![r].p2 = "off"]
          /\ UNCHANGED cstate
    /\ up' \in {TRUE, HeldBy(r, Threads)}
    /\ UNCHANGED <<loop, queue, jobs, worker, table, session, wanted, s3, s3jobs, arrived>>

S3Fire ==
    /\ up /\ s3 /\ s3jobs < MaxS3Jobs
    /\ s3' = FALSE
    /\ s3jobs' = s3jobs + 1
    /\ UNCHANGED <<loop, reqs, queue, jobs, worker, table, cstate, session, wanted, arrived, up>>

S3Timeout ==
    /\ up /\ s3jobs > 0
    /\ \E w \in Threads : Idle(w)
    /\ s3jobs' = s3jobs - 1
    /\ session' = SessionOf(Default, None)
    /\ UNCHANGED <<loop, reqs, queue, jobs, worker, table, cstate, wanted, s3, arrived, up>>

\* Confirm and the S3 job are in SetSession at the same time: the session is the
\* one's and the owner the other's.  Without a mix it is one after the other.
ConfirmMeetsS3(w) ==
    /\ At(w, "confirm") /\ s3jobs > 0
    /\ \E v \in Threads : Idle(v)
    /\ LET new == SessionOf(wanted, ClientOf(w))
           reset == SessionOf(Default, None)
       IN  session' \in {[new EXCEPT !.client = reset.client],
                         [reset EXCEPT !.client = new.client]}
    /\ Goto(w, "finish")
    /\ s3jobs' = s3jobs - 1
    /\ UNCHANGED <<loop, reqs, queue, jobs, table, cstate, wanted, s3, arrived, up>>

----------------------------------------------------------------------------

Job(w) ==
    \/ TakeJob(w) \/ Again(w) \/ Check(w) \/ Pop(w) \/ Begin(w)
    \/ Process(w) \/ Respond(w) \/ Confirm(w) \/ Finish(w)

LoopStep == TesterPresent \/ Indicate \/ HandleMessage

Next ==
    \/ \E c \in Clients, op \in Ops : Arrive(c, op)
    \/ LoopStep
    \/ \E w \in Threads : Job(w)
    \/ \E r \in DOMAIN reqs : P2Fire(r) \/ P2Timeout(r)
    \/ S3Fire
    \/ S3Timeout
    \/ \E w \in Threads : ConfirmMeetsS3(w)

Spec == Init /\ [][Next]_vars

\* The loop's thread and the pool's threads run, and an armed timer fires.
FairSpec ==
    /\ Spec
    /\ WF_vars(LoopStep)
    /\ \A w \in Threads : WF_vars(Job(w))
    /\ WF_vars(S3Fire)
    /\ WF_vars(S3Timeout)

----------------------------------------------------------------------------
(* Properties.                                                             *)

PCs == {"idle", "loop", "check", "pop", "begin", "process", "respond", "confirm", "finish"}

\* The threads that hold an entry of requestContextTable_.
Holding == {w \in Threads : worker[w].pc \notin {"idle", "loop", "check"}}

States == {"request", "confirm", "end", "canceled"}

LoopOK ==
    /\ loop \in [pc : {"idle", "present", "indicate", "handle"},
                 client : Clients \cup {None}, op : Ops, refused : BOOLEAN]
    /\ loop.pc # "idle" => loop.client # None
    /\ loop.pc \in {"indicate", "handle"} => loop.op # "tester present"

Contexts == [client : Clients \cup {None}, op : Ops \ {"tester present"},
             state : States \cup {"init"}, p2 : {"off", "armed", "queued"}]

Alive(r) == r \in DOMAIN reqs /\ reqs[r].client # None

ContextsOK ==
    /\ reqs \in Seq(Contexts)
    /\ \A r \in DOMAIN reqs : reqs[r].p2 # "off" => reqs[r].client # None
    /\ queue \in Seq(Nat)
    /\ \A i \in DOMAIN queue : Alive(queue[i])
    /\ cstate \in [Clients -> States \cup {"none"}]

ThreadsOK ==
    /\ worker \in [Threads -> [pc : PCs, req : Nat, positive : BOOLEAN]]
    /\ \A w \in Threads : worker[w].pc \notin {"idle", "loop"} => Alive(worker[w].req)
    /\ table \subseteq Clients
    /\ jobs \in Nat

SessionOK ==
    /\ session \in [id : Sessions \cup {Default}, client : Clients \cup {None}]
    /\ wanted \in Sessions \cup {Default}
    /\ s3 \in BOOLEAN /\ s3jobs \in Nat

\* The variables keep their types, and no thread and no entry of waitQueue_
\* refers to a request context that was freed.
TypeOK == LoopOK /\ ContextsOK /\ ThreadsOK /\ SessionOK /\ arrived \in Nat /\ up \in BOOLEAN

\* Two threads of the pool never work for the same client at a time, although
\* each takes its request without the lock of the queue; the table holds the
\* clients being worked for and no others.
OneThreadPerClient ==
    /\ \A v, w \in Holding : ClientOf(v) = ClientOf(w) => v = w
    /\ table = {ClientOf(w) : w \in Holding}

\* A request is not left in the queue with nobody to take it: a job that gives
\* up because its client is busy leaves it to the job that works for the client.
QueueIsServed ==
    (up /\ queue # <<>>) => \/ jobs > 0
                            \/ \E w \in Threads : ~Idle(w)

\* When nothing is in progress, a session other than the default one has its S3
\* timer armed or its timeout waiting to run: no order of requests, answers,
\* TesterPresent messages and timeouts leaves a session that nothing will end.
SessionIsTimed ==
    (/\ up /\ session.id # Default
     /\ loop.pc = "idle" /\ jobs = 0 /\ queue = <<>>
     /\ \A w \in Threads : Idle(w))
        => s3 \/ s3jobs > 0

\* When the testers fall silent the server returns to the default session, the
\* only way there is from another one.
SessionEnds == <>[](up => session.id = Default)

\* A request that Indicate refused is ignored: it is not queued for a thread.
RefusedIsIgnored == [][Len(queue') > Len(queue) => ~loop.refused]_vars

\* A thread works on a request of the client that was not cancelled.
WorkedOn(c) ==
    \E w \in Threads : /\ worker[w].pc \in {"process", "respond"}
                       /\ ClientOf(w) = c
                       /\ reqs[worker[w].req].state # "canceled"

\* A client that Indicate refuses because it waits for an answer has a thread
\* working for it: no cancellation, suppressed answer or second job for the
\* same request locks the client out.
RequestIsWorkedOn == \A c \in Clients : cstate[c] = "request" => WorkedOn(c)

\* What will start the S3 timer of a session that has none: the message on the
\* event loop's thread, a queued request, or a thread that works for a client.
SessionIsWatched ==
    (up /\ session.id # Default) =>
        s3 \/ s3jobs > 0 \/ loop.pc # "idle" \/ queue # <<>> \/ Holding # {}

\* The invariant behind OneThreadPerClient and QueueIsServed is inductive as it
\* stands; the two parts of SessionIInv are what SessionIsTimed needs besides.
ServerIInv == TypeOK /\ OneThreadPerClient /\ QueueIsServed

SessionIInv == RequestIsWorkedOn /\ SessionIsWatched

=============================================================================
