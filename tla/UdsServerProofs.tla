-------------------------- MODULE UdsServerProofs ---------------------------
(***************************************************************************)
(* UdsServer for any number of testers and threads: no two threads of the  *)
(* pool work for one client, no request is left in waitQueue_ with nobody  *)
(* to take it, no client is refused for ever because of a request nobody   *)
(* works on, and every session has something that will end it.             *)
(*                                                                         *)
(* The invariant is about who holds which context.  Most steps change      *)
(* neither the clients of the contexts nor what the threads hold; the      *)
(* lemmas HoldersKept and QueueKept say so once, and TakeJob, Check, Pop   *)
(* and Finish are argued on their own.                                     *)
(***************************************************************************)
EXTENDS UdsServer, TLAPS

Records == [pc : PCs, req : Nat, positive : BOOLEAN]

\* Alive, after the step, for a value of before it.
AliveThen(r) == r \in DOMAIN reqs' /\ reqs'[r].client # None

-----------------------------------------------------------------------------
(* What the building blocks of the actions change *)

\* ChangeState on a live context: it stays one, and no client changes.
LEMMA ChangeStateKeeps ==
  ASSUME ContextsOK, NEW r \in DOMAIN reqs, reqs[r].client # None,
         NEW st \in States, NEW p2 \in {"off", "armed", "queued"},
         ChangeState(r, st, p2)
  PROVE  /\ reqs' \in Seq(Contexts)
         /\ DOMAIN reqs' = DOMAIN reqs
         /\ \A i \in DOMAIN reqs : reqs'[i].client = reqs[i].client
         /\ \A i \in DOMAIN reqs : reqs'[i].p2 # "off" => reqs'[i].client # None
         /\ cstate' \in [Clients -> States \cup {"none"}]
<1> DEFINE st2 == IF reqs[r].state = "canceled" THEN reqs[r].state ELSE st
           ctx == [reqs[r] EXCEPT !.state = st2, !.p2 = p2]
<1>1. reqs \in Seq(Contexts) /\ reqs[r] \in Contexts
  BY DEF ContextsOK
<1>2. reqs' = [reqs EXCEPT ![r] = ctx]
  BY <1>1 DEF ChangeState, Contexts
<1>3. ctx \in Contexts /\ ctx.client = reqs[r].client
  BY <1>1 DEF Contexts
<1> HIDE DEF ctx
<1>4. reqs' \in Seq(Contexts) /\ DOMAIN reqs' = DOMAIN reqs
  BY <1>1, <1>2, <1>3
<1>5. \A i \in DOMAIN reqs : reqs'[i] = IF i = r THEN ctx ELSE reqs[i]
  BY <1>1, <1>2
<1>6. reqs[r].client \in Clients
  BY <1>1 DEF Contexts
<1>7. cstate' \in [Clients -> States \cup {"none"}]
  BY <1>6 DEF ChangeState, ContextsOK
<1>8. \A i \in DOMAIN reqs : reqs'[i].client = reqs[i].client
  BY <1>3, <1>5
<1>9. \A i \in DOMAIN reqs : reqs'[i].p2 # "off" => reqs'[i].client # None
  BY <1>3, <1>5 DEF ContextsOK
<1> QED
  BY <1>4, <1>7, <1>8, <1>9

\* A thread goes to another place and keeps its context.
LEMMA GotoKeeps ==
  ASSUME ThreadsOK, NEW w \in Threads, NEW pc \in PCs, Goto(w, pc)
  PROVE  /\ worker' \in [Threads -> Records]
         /\ worker'[w].pc = pc
         /\ \A v \in Threads : worker'[v].req = worker[v].req
         /\ \A v \in Threads \ {w} : worker'[v] = worker[v]
BY DEF Goto, ThreadsOK, Records

-----------------------------------------------------------------------------
(* Frames *)

\* The same threads hold the same contexts.
LEMMA HoldersKept ==
  ASSUME ThreadsOK, OneThreadPerClient, worker' \in [Threads -> Records], table' = table,
         DOMAIN reqs \subseteq DOMAIN reqs',
         \A i \in DOMAIN reqs : reqs'[i].client = reqs[i].client,
         \A w \in Threads : /\ w \in Holding' <=> w \in Holding
                            /\ w \in Holding => worker'[w].req = worker[w].req
  PROVE  OneThreadPerClient'
<1>1. Holding' = Holding
  BY DEF Holding
<1>2. \A w \in Holding : w \in Threads /\ worker[w].req \in DOMAIN reqs
  BY DEF Holding, ThreadsOK, Alive
<1>3. \A w \in Holding : ClientOf(w)' = ClientOf(w)
  BY <1>2 DEF ClientOf
<1>4. \A v, w \in Holding' : ClientOf(v)' = ClientOf(w)' => v = w
  BY <1>1, <1>3 DEF OneThreadPerClient
<1>5. table' = {ClientOf(w)' : w \in Holding'}
  BY <1>1, <1>3 DEF OneThreadPerClient
<1> QED
  BY <1>4, <1>5 DEF OneThreadPerClient

\* Contexts stay alive, so what refers to them stays right.
LEMMA AliveKept ==
  ASSUME DOMAIN reqs \subseteq DOMAIN reqs',
         \A i \in DOMAIN reqs : reqs'[i].client = reqs[i].client,
         NEW r, Alive(r)
  PROVE  AliveThen(r)
BY DEF Alive, AliveThen

\* The queue stays served when no thread gives up.
LEMMA QueueKept ==
  ASSUME QueueIsServed, up' => up, queue' = queue, jobs' = jobs,
         \A w \in Threads : ~Idle(w) => ~Idle(w)'
  PROVE  QueueIsServed'
BY DEF QueueIsServed

\* A step of the loop's thread or of a timer that leaves queue, threads and
\* contexts alone.
LEMMA QuietStep ==
  ASSUME ServerIInv, UNCHANGED <<reqs, queue, jobs, worker, table, cstate, up>>,
         LoopOK', SessionOK', arrived' \in Nat
  PROVE  ServerIInv'
<1>1. ContextsOK' /\ ThreadsOK'
  BY DEF ServerIInv, TypeOK, ContextsOK, ThreadsOK, Alive
<1>2. OneThreadPerClient' /\ QueueIsServed'
  BY DEF ServerIInv, OneThreadPerClient, QueueIsServed, Holding, ClientOf, Idle
<1> QED
  BY <1>1, <1>2 DEF ServerIInv, TypeOK

Working == {"begin", "process", "respond", "confirm", "finish"}

\* A thread that holds a context goes on with it.
LEMMA WorkStep ==
  ASSUME ServerIInv, NEW w \in Threads,
         worker[w].pc \in Working, worker'[w].pc \in Working,
         worker' \in [Threads -> Records],
         \A v \in Threads : worker'[v].req = worker[v].req,
         \A v \in Threads \ {w} : worker'[v] = worker[v],
         reqs' \in Seq(Contexts), DOMAIN reqs' = DOMAIN reqs,
         \A i \in DOMAIN reqs : reqs'[i].client = reqs[i].client,
         \A i \in DOMAIN reqs : reqs'[i].p2 # "off" => reqs'[i].client # None,
         cstate' \in [Clients -> States \cup {"none"}],
         UNCHANGED <<loop, queue, jobs, table, arrived, up>>,
         SessionOK'
  PROVE  ServerIInv'
<1>1. LoopOK /\ ContextsOK /\ ThreadsOK
  BY DEF ServerIInv, TypeOK
<1>2. ContextsOK'
  BY <1>1, AliveKept DEF ContextsOK, Alive, AliveThen
<1>3. ASSUME NEW v \in Threads, worker'[v].pc \notin {"idle", "loop"}
      PROVE  AliveThen(worker'[v].req)
  <2>1. worker[v].pc \notin {"idle", "loop"}
    BY <1>3 DEF Working
  <2>2. Alive(worker[v].req) /\ worker'[v].req = worker[v].req
    BY <1>1, <2>1 DEF ThreadsOK
  <2> QED
    BY <2>2 DEF Alive, AliveThen
<1>4. ThreadsOK'
  BY <1>1, <1>3 DEF ThreadsOK, Records, Alive, AliveThen
<1>5. \A v \in Threads : (v \in Holding' <=> v \in Holding) /\ (~Idle(v) => ~Idle(v)')
  BY DEF Holding, Working, Idle
<1>6. OneThreadPerClient'
  BY <1>1, <1>5, HoldersKept DEF ServerIInv
<1>7. QueueIsServed'
  BY <1>5, QueueKept DEF ServerIInv
<1>8. LoopOK' /\ arrived' \in Nat /\ up' \in BOOLEAN
  BY DEF ServerIInv, TypeOK, LoopOK
<1> QED
  BY <1>2, <1>4, <1>6, <1>7, <1>8 DEF ServerIInv, TypeOK

-----------------------------------------------------------------------------
(* The event loop's thread *)

\* The server starts without requests.
LEMMA InitHolds == Init => ServerIInv
<1> SUFFICES ASSUME Init PROVE ServerIInv
  OBVIOUS
<1>1. LoopOK
  BY DEF Init, LoopOK, IdleLoop, Ops
<1>2. ContextsOK
  BY DEF Init, ContextsOK
<1>3. ThreadsOK
  BY DEF Init, ThreadsOK, IdleThread, PCs
<1>4. SessionOK /\ arrived \in Nat /\ up \in BOOLEAN
  BY DEF Init, SessionOK
<1>5. Holding = {} /\ table = {} /\ queue = <<>>
  BY DEF Init, Holding, IdleThread
<1> QED
  BY <1>1, <1>2, <1>3, <1>4, <1>5 DEF ServerIInv, TypeOK, OneThreadPerClient, QueueIsServed

\* A message that arrives is only seen by the event loop.
LEMMA ArriveKeeps ==
  ASSUME ServerIInv, NEW c \in Clients, NEW op \in Ops, Arrive(c, op)
  PROVE  ServerIInv'
<1>1. loop' = [pc |-> IF op = "tester present" THEN "present" ELSE "indicate",
               client |-> c, op |-> op, refused |-> FALSE]
  BY DEF Arrive, IdleLoop
<1>2. LoopOK'
  BY <1>1, ServerAssumption DEF LoopOK
<1>3. s3' = FALSE /\ UNCHANGED <<session, wanted, s3jobs>> /\ arrived' \in Nat
  BY DEF Arrive, ServerIInv, TypeOK
<1>4. SessionOK'
  BY <1>3 DEF ServerIInv, TypeOK, SessionOK
<1> QED
  BY <1>2, <1>3, <1>4, QuietStep DEF Arrive

\* The event loop waiting for a message is well formed.
LEMMA IdleLoopOK == ASSUME loop' = IdleLoop PROVE LoopOK'
BY DEF LoopOK, IdleLoop, Ops

\* TesterPresent is answered without a context.
LEMMA TesterPresentKeeps ==
  ASSUME ServerIInv, TesterPresent
  PROVE  ServerIInv'
<1>1. LoopOK'
  BY IdleLoopOK DEF TesterPresent
<1>2. s3' \in BOOLEAN
  BY DEF TesterPresent
<1>3. SessionOK' /\ arrived' \in Nat
  BY <1>2 DEF TesterPresent, ServerIInv, TypeOK, SessionOK
<1> QED
  BY <1>1, <1>3, QuietStep DEF TesterPresent

\* Indicate decides and creates nothing.
LEMMA IndicateKeeps ==
  ASSUME ServerIInv, Indicate
  PROVE  ServerIInv'
<1>1. Refused(loop.client) \in BOOLEAN
  BY DEF Refused
<1>2. LoopOK'
  BY <1>1 DEF Indicate, ServerIInv, TypeOK, LoopOK
<1>3. SessionOK' /\ arrived' \in Nat
  BY DEF Indicate, ServerIInv, TypeOK, SessionOK
<1> QED
  BY <1>2, <1>3, QuietStep DEF Indicate

\* A new request comes with a job of the pool.
LEMMA HandleMessageKeeps ==
  ASSUME ServerIInv, HandleMessage
  PROVE  ServerIInv'
<1> DEFINE ctx == [client |-> loop.client, op |-> loop.op, state |-> "init", p2 |-> "off"]
           n == Len(reqs)
<1>1. LoopOK /\ ContextsOK /\ ThreadsOK
  BY DEF ServerIInv, TypeOK
<1>2. ctx \in Contexts /\ ctx.client # None /\ ctx.p2 = "off"
  BY <1>1 DEF HandleMessage, LoopOK, Contexts
<1>3. reqs' = Append(reqs, ctx) /\ queue' = Append(queue, Len(reqs')) /\ jobs' = jobs + 1
  BY DEF HandleMessage
<1> HIDE DEF ctx
<1>4. reqs \in Seq(Contexts) /\ n \in Nat /\ DOMAIN reqs = 1 .. n
  BY <1>1 DEF ContextsOK
<1>5. /\ reqs' \in Seq(Contexts) /\ Len(reqs') = n + 1 /\ DOMAIN reqs' = 1 .. n + 1
      /\ \A i \in DOMAIN reqs : reqs'[i] = reqs[i]
      /\ reqs'[n + 1] = ctx
  BY <1>2, <1>3, <1>4
<1>6. DOMAIN reqs \subseteq DOMAIN reqs' /\ \A i \in DOMAIN reqs : reqs'[i].client = reqs[i].client
  BY <1>4, <1>5
<1>7. AliveThen(n + 1)
  BY <1>2, <1>4, <1>5 DEF AliveThen
<1>8. ContextsOK'
  <2>1. queue \in Seq(Nat) /\ queue' = Append(queue, n + 1) /\ n + 1 \in Nat
    BY <1>1, <1>3, <1>4, <1>5 DEF ContextsOK
  <2>2. queue' \in Seq(Nat)
    BY <2>1
  <2>3. ASSUME NEW i \in DOMAIN queue' PROVE AliveThen(queue'[i])
    <3>1. CASE i \in DOMAIN queue
      <4>1. queue'[i] = queue[i] /\ Alive(queue[i])
        BY <1>1, <2>1, <3>1 DEF ContextsOK
      <4> QED
        BY <1>6, <4>1 DEF Alive, AliveThen
    <3>2. CASE i \notin DOMAIN queue
      <4>1. queue'[i] = n + 1
        BY <2>1, <2>3, <3>2
      <4> QED
        BY <1>7, <4>1
    <3> QED
      BY <3>1, <3>2
  <2>4. \A i \in DOMAIN reqs' : reqs'[i].p2 # "off" => reqs'[i].client # None
    BY <1>1, <1>2, <1>4, <1>5 DEF ContextsOK
  <2>5. cstate' \in [Clients -> States \cup {"none"}]
    BY <1>1 DEF ContextsOK, HandleMessage
  <2> QED
    BY <1>5, <2>2, <2>3, <2>4, <2>5 DEF ContextsOK, Alive, AliveThen
<1>9. ThreadsOK'
  BY <1>1, <1>3, <1>6 DEF ThreadsOK, HandleMessage, Alive
<1>10. OneThreadPerClient'
  <2>1. worker' = worker /\ table' = table /\ worker \in [Threads -> Records]
    BY <1>1 DEF HandleMessage, ThreadsOK, Records
  <2>2. Holding' = Holding
    BY <2>1 DEF Holding
  <2> QED
    BY <1>1, <1>6, <2>1, <2>2, HoldersKept DEF ServerIInv
<1>11. QueueIsServed'
  BY <1>1, <1>3 DEF QueueIsServed, ThreadsOK
<1>12. LoopOK' /\ SessionOK' /\ arrived' \in Nat /\ up' \in BOOLEAN
  BY IdleLoopOK DEF HandleMessage, ServerIInv, TypeOK, SessionOK
<1> QED
  BY <1>8, <1>9, <1>10, <1>11, <1>12 DEF ServerIInv, TypeOK

-----------------------------------------------------------------------------
(* The jobs of the pool *)

\* Reading the front of waitQueue_ removes nothing from it.
LEMMA ReadFrontKeeps ==
  ASSUME ServerIInv, NEW w \in Threads, worker[w].pc \in {"idle", "loop"}, ReadFront(w),
         jobs' \in Nat,
         UNCHANGED <<loop, reqs, queue, table, cstate, session, wanted, s3, s3jobs, arrived, up>>
  PROVE  ServerIInv'
<1>1. ContextsOK /\ ThreadsOK /\ worker \in [Threads -> Records]
  BY DEF ServerIInv, TypeOK, ThreadsOK, Records
<1>2. LoopOK' /\ ContextsOK' /\ SessionOK' /\ arrived' \in Nat /\ up' \in BOOLEAN
  BY DEF ServerIInv, TypeOK, LoopOK, ContextsOK, SessionOK, Alive
<1>3. \A v \in Threads \ {w} : worker'[v] = worker[v]
  BY <1>1 DEF ReadFront
<1>4. CASE queue = <<>>
  <2>1. worker'[w] = IdleThread /\ worker' \in [Threads -> Records]
    BY <1>1, <1>4 DEF ReadFront, IdleThread, Records, PCs
  <2>2. ThreadsOK'
    BY <1>1, <1>3, <2>1 DEF ThreadsOK, IdleThread, Records, Alive
  <2>3. \A v \in Threads : (v \in Holding' <=> v \in Holding) /\ (v \in Holding => v # w)
    BY <1>3, <2>1 DEF Holding, IdleThread
  <2>4. OneThreadPerClient'
    BY <1>1, <1>3, <2>1, <2>3, HoldersKept DEF ServerIInv
  <2>5. QueueIsServed'
    BY <1>4 DEF QueueIsServed
  <2> QED
    BY <1>2, <2>2, <2>4, <2>5 DEF ServerIInv, TypeOK
<1>5. CASE queue # <<>>
  <2>1. Head(queue) \in Nat /\ Alive(Head(queue))
    BY <1>1, <1>5 DEF ContextsOK
  <2>2. /\ worker'[w] = [pc |-> "check", req |-> Head(queue), positive |-> FALSE]
        /\ worker' \in [Threads -> Records]
    BY <1>1, <1>5, <2>1 DEF ReadFront, Records, PCs
  <2>3. ThreadsOK'
    BY <1>1, <1>3, <2>1, <2>2 DEF ThreadsOK, Records, Alive
  <2>4. \A v \in Threads : (v \in Holding' <=> v \in Holding) /\ (v \in Holding => v # w)
    BY <1>3, <2>2 DEF Holding
  <2>5. OneThreadPerClient'
    BY <1>1, <1>3, <2>2, <2>4, HoldersKept DEF ServerIInv
  <2>6. ~Idle(w)'
    BY <2>2 DEF Idle
  <2>7. QueueIsServed'
    BY <2>6 DEF QueueIsServed
  <2> QED
    BY <1>2, <2>3, <2>5, <2>7 DEF ServerIInv, TypeOK
<1> QED
  BY <1>4, <1>5

\* A thread that takes a job serves the queue in its place.
LEMMA TakeJobKeeps ==
  ASSUME ServerIInv, NEW w \in Threads, TakeJob(w) \/ Again(w)
  PROVE  ServerIInv'
<1>1. jobs' \in Nat
  BY DEF TakeJob, Again, ServerIInv, TypeOK, ThreadsOK
<1> QED
  BY <1>1, ReadFrontKeeps DEF TakeJob, Again, At

\* The job that finds its client busy leaves the queue to the thread that holds
\* the client; the other one becomes that thread.
LEMMA CheckKeeps ==
  ASSUME ServerIInv, NEW w \in Threads, Check(w)
  PROVE  ServerIInv'
<1>1. ThreadsOK /\ worker \in [Threads -> Records] /\ worker[w].pc = "check" /\ Alive(worker[w].req)
  BY DEF ServerIInv, TypeOK, ThreadsOK, Records, Check, At
<1>2. UNCHANGED <<loop, reqs, queue, jobs, cstate, session, wanted, s3, s3jobs, arrived, up>>
  BY DEF Check
<1>3. LoopOK' /\ ContextsOK' /\ SessionOK' /\ arrived' \in Nat /\ up' \in BOOLEAN
  BY <1>2 DEF ServerIInv, TypeOK, LoopOK, ContextsOK, SessionOK, Alive
<1>4. w \notin Holding
  BY <1>1 DEF Holding
<1>5. CASE ClientOf(w) \in table
  <2>1. worker' = [worker EXCEPT ![w] = IdleThread] /\ table' = table
    BY <1>5 DEF Check
  <2>2. /\ worker' \in [Threads -> Records] /\ worker'[w] = IdleThread
        /\ \A v \in Threads \ {w} : worker'[v] = worker[v]
    BY <1>1, <2>1 DEF IdleThread, Records, PCs
  <2>3. ThreadsOK'
    BY <1>1, <1>2, <2>1, <2>2 DEF ThreadsOK, IdleThread, Records, Alive
  <2>4. \A v \in Threads : v \in Holding' <=> v \in Holding
    BY <1>4, <2>2 DEF Holding, IdleThread
  <2>5. OneThreadPerClient'
    BY <1>1, <1>2, <1>4, <2>1, <2>2, <2>4, HoldersKept DEF ServerIInv
  <2>6. PICK v \in Holding : v \in Threads /\ v # w
    BY <1>4, <1>5 DEF ServerIInv, OneThreadPerClient, Holding
  <2>7. ~Idle(v)'
    BY <2>2, <2>6 DEF Holding, Idle
  <2>8. QueueIsServed'
    BY <2>6, <2>7 DEF QueueIsServed
  <2> QED
    BY <1>3, <2>3, <2>5, <2>8 DEF ServerIInv, TypeOK
<1>6. CASE ClientOf(w) \notin table
  <2>1. Goto(w, "pop") /\ table' = table \cup {ClientOf(w)}
    BY <1>6 DEF Check
  <2>2. /\ worker' \in [Threads -> Records] /\ worker'[w].pc = "pop"
        /\ \A v \in Threads : worker'[v].req = worker[v].req
        /\ \A v \in Threads \ {w} : worker'[v] = worker[v]
    BY <1>1, <2>1, GotoKeeps DEF PCs
  <2>3. ClientOf(w) \in Clients
    <3>1. reqs[worker[w].req] \in Contexts
      BY <1>1 DEF ServerIInv, TypeOK, ContextsOK, Alive
    <3> QED
      BY <1>1, <3>1 DEF ClientOf, Alive, Contexts
  <2>4. ThreadsOK'
    BY <1>1, <1>2, <2>1, <2>2, <2>3 DEF ThreadsOK, Records, Alive
  <2>5. Holding' = Holding \cup {w}
    BY <2>2 DEF Holding
  <2>6. \A v \in Threads : ClientOf(v)' = ClientOf(v)
    BY <1>2, <2>2 DEF ClientOf
  <2>7. Holding \subseteq Threads
    BY DEF Holding
  <2>8. OneThreadPerClient'
    BY <1>6, <2>1, <2>5, <2>6, <2>7 DEF ServerIInv, OneThreadPerClient
  <2>9. ~Idle(w)'
    BY <2>2 DEF Idle
  <2>10. QueueIsServed'
    BY <2>9 DEF QueueIsServed
  <2> QED
    BY <1>3, <2>4, <2>8, <2>10 DEF ServerIInv, TypeOK
<1> QED
  BY <1>5, <1>6

\* The entry that is removed need not be the one that was read.
LEMMA PopKeeps ==
  ASSUME ServerIInv, NEW w \in Threads, Pop(w)
  PROVE  ServerIInv'
<1>1. ContextsOK /\ ThreadsOK /\ worker \in [Threads -> Records] /\ worker[w].pc = "pop"
  BY DEF ServerIInv, TypeOK, ThreadsOK, Records, Pop, At
<1>2. UNCHANGED <<loop, reqs, jobs, table, cstate, session, wanted, s3jobs, arrived>>
  BY DEF Pop
<1>3. CASE queue = <<>>
  <2>1. up' = FALSE /\ UNCHANGED <<queue, worker, s3>>
    BY <1>3 DEF Pop
  <2>2. LoopOK' /\ SessionOK' /\ arrived' \in Nat /\ up' \in BOOLEAN
    BY <1>2, <2>1 DEF ServerIInv, TypeOK, LoopOK, SessionOK
  <2>3. ContextsOK' /\ ThreadsOK'
    BY <1>1, <1>2, <2>1 DEF ContextsOK, ThreadsOK, Alive
  <2>4. OneThreadPerClient' /\ QueueIsServed'
    BY <1>2, <2>1 DEF ServerIInv, OneThreadPerClient, QueueIsServed, Holding, ClientOf
  <2> QED
    BY <2>2, <2>3, <2>4 DEF ServerIInv, TypeOK
<1>4. CASE queue # <<>>
  <2>1. queue' = Tail(queue) /\ s3' = FALSE /\ Goto(w, "begin") /\ up' = up
    BY <1>4 DEF Pop
  <2>2. /\ worker' \in [Threads -> Records] /\ worker'[w].pc = "begin"
        /\ \A v \in Threads : worker'[v].req = worker[v].req
        /\ \A v \in Threads \ {w} : worker'[v] = worker[v]
    BY <1>1, <2>1, GotoKeeps DEF PCs
  <2>3. queue' \in Seq(Nat) /\ \A i \in DOMAIN queue' : queue'[i] = queue[i + 1] /\ i + 1 \in DOMAIN queue
    BY <1>1, <1>4, <2>1 DEF ContextsOK
  <2>4. ContextsOK'
    BY <1>1, <1>2, <2>3 DEF ContextsOK, Alive
  <2>5. ThreadsOK'
    BY <1>1, <1>2, <2>2 DEF ThreadsOK, Records, Alive
  <2>6. \A v \in Threads : v \in Holding' <=> v \in Holding
    BY <1>1, <2>2 DEF Holding
  <2>7. OneThreadPerClient'
    BY <1>1, <1>2, <2>2, <2>6, HoldersKept DEF ServerIInv
  <2>8. ~Idle(w)'
    BY <2>2 DEF Idle
  <2>9. QueueIsServed'
    BY <2>8 DEF QueueIsServed
  <2>10. LoopOK' /\ SessionOK' /\ arrived' \in Nat /\ up' \in BOOLEAN
    BY <1>2, <2>1 DEF ServerIInv, TypeOK, LoopOK, SessionOK
  <2> QED
    BY <2>4, <2>5, <2>7, <2>9, <2>10 DEF ServerIInv, TypeOK
<1> QED
  BY <1>3, <1>4

\* The start of a request changes its state and arms its timer.
LEMMA BeginKeeps ==
  ASSUME ServerIInv, NEW w \in Threads, Begin(w)
  PROVE  ServerIInv'
<1>1. ContextsOK /\ ThreadsOK /\ worker[w].pc = "begin" /\ Alive(worker[w].req)
  BY DEF ServerIInv, TypeOK, ThreadsOK, Begin, At
<1>2. ChangeState(worker[w].req, "request", "armed") /\ Goto(w, "process")
  BY DEF Begin
<1>3. SessionOK'
  BY DEF Begin, ServerIInv, TypeOK, SessionOK
<1>4. UNCHANGED <<loop, queue, jobs, table, arrived, up>>
  BY DEF Begin
<1>5. "process" \in PCs /\ "request" \in States
  BY DEF PCs, States
<1>6. /\ worker' \in [Threads -> Records] /\ worker'[w].pc = "process"
      /\ \A v \in Threads : worker'[v].req = worker[v].req
      /\ \A v \in Threads \ {w} : worker'[v] = worker[v]
  BY <1>1, <1>2, <1>5, GotoKeeps
<1>7. /\ reqs' \in Seq(Contexts) /\ DOMAIN reqs' = DOMAIN reqs
      /\ \A i \in DOMAIN reqs : reqs'[i].client = reqs[i].client
      /\ \A i \in DOMAIN reqs : reqs'[i].p2 # "off" => reqs'[i].client # None
      /\ cstate' \in [Clients -> States \cup {"none"}]
  BY <1>1, <1>2, <1>5, ChangeStateKeeps DEF Alive
<1> QED
  BY <1>1, <1>3, <1>4, <1>6, <1>7, WorkStep DEF Working

\* The handler of a service changes no context.
LEMMA ProcessKeeps ==
  ASSUME ServerIInv, NEW w \in Threads, Process(w)
  PROVE  ServerIInv'
<1> DEFINE op == reqs[worker[w].req].op
           change == op # "other" /\ Permitted(op)
<1>1. ContextsOK /\ ThreadsOK /\ worker[w].pc = "process" /\ Alive(worker[w].req)
  BY DEF ServerIInv, TypeOK, ThreadsOK, Process, At
<1>2. worker' = [worker EXCEPT ![w].pc = "respond", ![w].positive = change]
  BY DEF Process
<1>3. change \in BOOLEAN /\ (change => op \in Sessions)
  <2>1. reqs[worker[w].req] \in Contexts
    BY <1>1 DEF ContextsOK, Alive
  <2> QED
    BY <2>1 DEF Contexts, Ops
<1>4. wanted' = (IF change THEN op ELSE wanted) /\ UNCHANGED <<session, s3, s3jobs>>
  BY DEF Process
<1> HIDE DEF change, op
<1>5. /\ worker' \in [Threads -> Records] /\ worker'[w].pc = "respond"
      /\ \A v \in Threads : worker'[v].req = worker[v].req
      /\ \A v \in Threads \ {w} : worker'[v] = worker[v]
  BY <1>1, <1>2, <1>3 DEF ThreadsOK, Records, PCs
<1>6. SessionOK'
  BY <1>3, <1>4 DEF ServerIInv, TypeOK, SessionOK
<1>7. UNCHANGED <<loop, queue, jobs, table, arrived, up, reqs, cstate>>
  BY DEF Process
<1> QED
  BY <1>1, <1>5, <1>6, <1>7, WorkStep DEF Working, ContextsOK

\* An answer changes the state of the request and its timer only.
LEMMA RespondKeeps ==
  ASSUME ServerIInv, NEW w \in Threads, Respond(w)
  PROVE  ServerIInv'
<1> DEFINE r == worker[w].req
<1>1. ContextsOK /\ ThreadsOK /\ worker[w].pc = "respond" /\ Alive(r)
  BY DEF ServerIInv, TypeOK, ThreadsOK, Respond, At
<1>2. PICK p2 \in {"off", reqs[r].p2}, st \in {"canceled", "confirm"} : ChangeState(r, st, p2)
  BY DEF Respond
<1>3. PICK pc \in {"confirm", "finish"} : Goto(w, pc)
  BY DEF Respond
<1>4. SessionOK'
  BY DEF Respond, ServerIInv, TypeOK, SessionOK
<1>5. UNCHANGED <<loop, queue, jobs, table, arrived, up>>
  BY DEF Respond
<1>6. pc \in PCs /\ st \in States
  BY DEF PCs, States
<1>7. p2 \in {"off", "armed", "queued"}
  <2>1. reqs[r] \in Contexts
    BY <1>1 DEF ContextsOK, Alive
  <2> QED
    BY <2>1 DEF Contexts
<1>8. /\ worker' \in [Threads -> Records] /\ worker'[w].pc = pc
      /\ \A v \in Threads : worker'[v].req = worker[v].req
      /\ \A v \in Threads \ {w} : worker'[v] = worker[v]
  BY <1>1, <1>3, <1>6, GotoKeeps
<1>9. /\ reqs' \in Seq(Contexts) /\ DOMAIN reqs' = DOMAIN reqs
      /\ \A i \in DOMAIN reqs : reqs'[i].client = reqs[i].client
      /\ \A i \in DOMAIN reqs : reqs'[i].p2 # "off" => reqs'[i].client # None
      /\ cstate' \in [Clients -> States \cup {"none"}]
  BY <1>1, <1>2, <1>6, <1>7, ChangeStateKeeps DEF Alive
<1> QED
  BY <1>1, <1>4, <1>5, <1>8, <1>9, WorkStep DEF Working

\* Confirm changes the session only, also when it meets the S3 job.
LEMMA ConfirmKeeps ==
  ASSUME ServerIInv, NEW w \in Threads, Confirm(w) \/ ConfirmMeetsS3(w)
  PROVE  ServerIInv'
<1>1. ContextsOK /\ ThreadsOK /\ SessionOK /\ worker[w].pc = "confirm" /\ Alive(worker[w].req)
  BY DEF ServerIInv, TypeOK, ThreadsOK, Confirm, ConfirmMeetsS3, At
<1>2. ClientOf(w) \in Clients /\ None \notin Clients
  <2>1. reqs[worker[w].req] \in Contexts
    BY <1>1 DEF ContextsOK, Alive
  <2> QED
    BY <1>1, <2>1, ServerAssumption DEF ClientOf, Alive, Contexts
<1>3. /\ session' \in [id : {wanted, Default}, client : {ClientOf(w), None}]
      /\ s3jobs' \in Nat /\ UNCHANGED <<wanted, s3>>
  BY <1>1 DEF Confirm, ConfirmMeetsS3, SessionOf, SessionOK
<1>4. SessionOK'
  BY <1>1, <1>2, <1>3 DEF SessionOK
<1>5. /\ worker' \in [Threads -> Records] /\ worker'[w].pc = "finish"
      /\ \A v \in Threads : worker'[v].req = worker[v].req
      /\ \A v \in Threads \ {w} : worker'[v] = worker[v]
  BY <1>1, GotoKeeps DEF Confirm, ConfirmMeetsS3, PCs
<1>6. UNCHANGED <<loop, queue, jobs, table, arrived, up, reqs, cstate>>
  BY DEF Confirm, ConfirmMeetsS3
<1> QED
  BY <1>1, <1>4, <1>5, <1>6, WorkStep DEF Working, ContextsOK

\* Release, either way: what others refer to keeps its client.
LEMMA ReleaseKeeps ==
  ASSUME ContextsOK, ThreadsOK, NEW w \in Threads, Alive(worker[w].req), Release(w)
  PROVE  /\ reqs' \in Seq(Contexts) /\ DOMAIN reqs' = DOMAIN reqs
         /\ \A i \in DOMAIN reqs : reqs'[i].p2 # "off" => reqs'[i].client # None
         /\ cstate' \in [Clients -> States \cup {"none"}]
         /\ \A i \in DOMAIN reqs : HeldBy(i, Threads \ {w}) => reqs'[i].client = reqs[i].client
<1> DEFINE r == worker[w].req
<1>1. r \in DOMAIN reqs /\ reqs[r] \in Contexts /\ reqs[r].client # None /\ reqs \in Seq(Contexts)
  BY DEF Alive, ContextsOK
<1>2. "end" \in States /\ reqs[r].p2 \in {"off", "armed", "queued"} /\ reqs[r].client \in Clients
  BY <1>1 DEF States, Contexts
<1> HIDE DEF r
<1>3. CASE HeldBy(r, Threads \ {w}) \/ reqs[r].p2 = "queued"
  <2>1. ChangeState(r, "end", reqs[r].p2)
    BY <1>3 DEF Release, r
  <2> QED
    BY <1>1, <1>2, <2>1, ChangeStateKeeps
<1>4. CASE ~(HeldBy(r, Threads \ {w}) \/ reqs[r].p2 = "queued")
  <2>1. /\ reqs' = [reqs EXCEPT ![r] = Freed]
        /\ cstate' = IF reqs[r].state = "canceled" THEN cstate
                     ELSE [cstate EXCEPT ![reqs[r].client] = "end"]
    BY <1>4 DEF Release, r
  <2>2. Freed \in Contexts /\ Freed.p2 = "off"
    BY DEF Freed, Contexts, Ops, States
  <2>3. reqs' \in Seq(Contexts) /\ DOMAIN reqs' = DOMAIN reqs
    BY <1>1, <2>1, <2>2
  <2>4. \A i \in DOMAIN reqs : reqs'[i] = IF i = r THEN Freed ELSE reqs[i]
    BY <1>1, <2>1
  <2>5. cstate' \in [Clients -> States \cup {"none"}]
    BY <1>2, <2>1 DEF ContextsOK
  <2>6. \A i \in DOMAIN reqs : reqs'[i].p2 # "off" => reqs'[i].client # None
    BY <2>2, <2>4 DEF ContextsOK
  <2>7. \A i \in DOMAIN reqs : HeldBy(i, Threads \ {w}) => i # r
    BY <1>4
  <2> QED
    BY <2>3, <2>4, <2>5, <2>6, <2>7
<1> QED
  BY <1>3, <1>4

\* A thread that ends a request looks at the queue again.
LEMMA FinishKeeps ==
  ASSUME ServerIInv, NEW w \in Threads, Finish(w)
  PROVE  ServerIInv'
<1>1. ContextsOK /\ ThreadsOK /\ worker \in [Threads -> Records]
      /\ worker[w].pc = "finish" /\ Alive(worker[w].req)
  BY DEF ServerIInv, TypeOK, ThreadsOK, Records, Finish, At
<1>2. /\ reqs' \in Seq(Contexts) /\ DOMAIN reqs' = DOMAIN reqs
      /\ \A i \in DOMAIN reqs : reqs'[i].p2 # "off" => reqs'[i].client # None
      /\ cstate' \in [Clients -> States \cup {"none"}]
      /\ \A i \in DOMAIN reqs : HeldBy(i, Threads \ {w}) => reqs'[i].client = reqs[i].client
  BY <1>1, ReleaseKeeps DEF Finish
<1>3. worker' = [worker EXCEPT ![w] = [pc |-> "loop", req |-> 0, positive |-> FALSE]]
  BY DEF Finish
<1>4. /\ worker' \in [Threads -> Records] /\ worker'[w].pc = "loop"
      /\ \A v \in Threads \ {w} : worker'[v] = worker[v]
  BY <1>1, <1>3 DEF Records, PCs
<1>5. table' = table \ {ClientOf(w)} /\ UNCHANGED <<loop, queue, jobs, session, wanted, s3jobs, arrived, up>>
  BY DEF Finish
<1>6. \A i \in DOMAIN queue : AliveThen(queue[i])
  BY <1>1, <1>2 DEF ContextsOK, Alive, AliveThen, HeldBy
<1>7. ContextsOK'
  BY <1>1, <1>2, <1>5, <1>6 DEF ContextsOK, Alive, AliveThen
<1>8. ASSUME NEW v \in Threads \ {w}, worker[v].pc \notin {"idle", "loop"}
      PROVE  AliveThen(worker[v].req) /\ reqs'[worker[v].req].client = reqs[worker[v].req].client
  <2>1. Alive(worker[v].req) /\ HeldBy(worker[v].req, Threads \ {w})
    BY <1>1, <1>8 DEF ThreadsOK, HeldBy
  <2> QED
    BY <1>2, <2>1 DEF Alive, AliveThen
<1>9. ThreadsOK'
  <2>1. \A v \in Threads : worker'[v].pc \notin {"idle", "loop"} => AliveThen(worker'[v].req)
    BY <1>4, <1>8
  <2> QED
    BY <1>1, <1>4, <1>5, <2>1 DEF ThreadsOK, Records, Alive, AliveThen
<1>10. OneThreadPerClient'
  <2>1. w \in Holding /\ Holding' = Holding \ {w} /\ Holding \subseteq Threads
    BY <1>1, <1>4 DEF Holding
  <2>2. \A v \in Holding' : ClientOf(v)' = ClientOf(v)
    BY <1>4, <1>8, <2>1 DEF ClientOf, Holding
  <2> QED
    BY <1>5, <2>1, <2>2 DEF ServerIInv, OneThreadPerClient
<1>11. QueueIsServed'
  <2>1. ~Idle(w)'
    BY <1>4 DEF Idle
  <2> QED
    BY <2>1 DEF QueueIsServed
<1>12. s3' \in BOOLEAN
  BY DEF Finish, StartS3
<1>13. LoopOK' /\ SessionOK' /\ arrived' \in Nat /\ up' \in BOOLEAN
  BY <1>5, <1>12 DEF ServerIInv, TypeOK, LoopOK, SessionOK
<1> QED
  BY <1>7, <1>9, <1>10, <1>11, <1>13 DEF ServerIInv, TypeOK

-----------------------------------------------------------------------------
(* Timers *)

\* A step of the P2 timer: contexts change their state, nothing else moves.
LEMMA P2Step ==
  ASSUME ServerIInv,
         reqs' \in Seq(Contexts), DOMAIN reqs' = DOMAIN reqs,
         \A i \in DOMAIN reqs : reqs'[i].client = reqs[i].client,
         \A i \in DOMAIN reqs : reqs'[i].p2 # "off" => reqs'[i].client # None,
         cstate' \in [Clients -> States \cup {"none"}],
         UNCHANGED <<loop, queue, jobs, worker, table, session, wanted, s3, s3jobs, arrived>>,
         up' \in BOOLEAN, up' => up
  PROVE  ServerIInv'
<1>1. ContextsOK /\ ThreadsOK /\ worker' \in [Threads -> Records]
  BY DEF ServerIInv, TypeOK, ThreadsOK, Records
<1>2. LoopOK' /\ SessionOK' /\ arrived' \in Nat
  BY DEF ServerIInv, TypeOK, LoopOK, SessionOK
<1>3. ContextsOK' /\ ThreadsOK'
  BY <1>1 DEF ContextsOK, ThreadsOK, Alive
<1>4. Holding' = Holding
  BY DEF Holding
<1>5. OneThreadPerClient'
  BY <1>1, <1>4, HoldersKept DEF ServerIInv
<1>6. QueueIsServed'
  BY QueueKept DEF ServerIInv, Idle
<1> QED
  BY <1>2, <1>3, <1>5, <1>6 DEF ServerIInv, TypeOK

\* A P2 timer that fires leaves a job behind.
LEMMA P2FireKeeps ==
  ASSUME ServerIInv, NEW r \in DOMAIN reqs, P2Fire(r)
  PROVE  ServerIInv'
<1> DEFINE ctx == [reqs[r] EXCEPT !.p2 = "queued"]
<1>1. ContextsOK /\ reqs \in Seq(Contexts) /\ reqs[r] \in Contexts /\ reqs[r].p2 = "armed"
  BY DEF ServerIInv, TypeOK, ContextsOK, P2Fire
<1>2. ctx \in Contexts /\ ctx.client = reqs[r].client /\ ctx.client # None
  BY <1>1 DEF Contexts, ContextsOK
<1>3. reqs' = [reqs EXCEPT ![r] = ctx]
  BY DEF P2Fire
<1> HIDE DEF ctx
<1>4. reqs' \in Seq(Contexts) /\ DOMAIN reqs' = DOMAIN reqs
  BY <1>1, <1>2, <1>3
<1>5. \A i \in DOMAIN reqs : reqs'[i] = IF i = r THEN ctx ELSE reqs[i]
  BY <1>1, <1>3
<1>6. /\ \A i \in DOMAIN reqs : reqs'[i].client = reqs[i].client
      /\ \A i \in DOMAIN reqs : reqs'[i].p2 # "off" => reqs'[i].client # None
  BY <1>1, <1>2, <1>5 DEF ContextsOK
<1>7. cstate' \in [Clients -> States \cup {"none"}] /\ up' \in BOOLEAN /\ up' = up
  BY DEF P2Fire, ServerIInv, TypeOK, ContextsOK
<1> QED
  BY <1>4, <1>6, <1>7, P2Step DEF P2Fire

\* A cancellation that is overwritten leaves every state as it was.
LEMMA TimerOff ==
  ASSUME ContextsOK, NEW r \in DOMAIN reqs, reqs' = [reqs EXCEPT ![r].p2 = "off"]
  PROVE  /\ reqs' \in Seq(Contexts) /\ DOMAIN reqs' = DOMAIN reqs
         /\ \A i \in DOMAIN reqs : reqs'[i].client = reqs[i].client
         /\ \A i \in DOMAIN reqs : reqs'[i].state = reqs[i].state
         /\ \A i \in DOMAIN reqs : reqs'[i].p2 # "off" => reqs'[i].client # None
<1> DEFINE ctx == [reqs[r] EXCEPT !.p2 = "off"]
<1>1. reqs \in Seq(Contexts) /\ reqs[r] \in Contexts
  BY DEF ContextsOK
<1>2. ctx \in Contexts /\ ctx.client = reqs[r].client /\ ctx.state = reqs[r].state /\ ctx.p2 = "off"
  BY <1>1 DEF Contexts
<1>3. reqs' = [reqs EXCEPT ![r] = ctx]
  OBVIOUS
<1> HIDE DEF ctx
<1>4. reqs' \in Seq(Contexts) /\ DOMAIN reqs' = DOMAIN reqs
  BY <1>1, <1>2, <1>3
<1>5. \A i \in DOMAIN reqs : reqs'[i] = IF i = r THEN ctx ELSE reqs[i]
  BY <1>1, <1>3
<1> QED
  BY <1>2, <1>4, <1>5 DEF ContextsOK

\* A P2 job changes the state of its request, or ends the process.
LEMMA P2TimeoutKeeps ==
  ASSUME ServerIInv, NEW r \in DOMAIN reqs, P2Timeout(r)
  PROVE  ServerIInv'
<1>1. ContextsOK /\ reqs[r].client # None /\ "canceled" \in States /\ up
  BY DEF ServerIInv, TypeOK, ContextsOK, P2Timeout, States
<1>2. /\ reqs' \in Seq(Contexts) /\ DOMAIN reqs' = DOMAIN reqs
      /\ \A i \in DOMAIN reqs : reqs'[i].client = reqs[i].client
      /\ \A i \in DOMAIN reqs : reqs'[i].p2 # "off" => reqs'[i].client # None
      /\ cstate' \in [Clients -> States \cup {"none"}]
  <2>1. CASE ChangeState(r, "canceled", "off")
    BY <1>1, <2>1, ChangeStateKeeps
  <2>2. CASE reqs' = [reqs EXCEPT ![r].p2 = "off"] /\ UNCHANGED cstate
    BY <1>1, <2>2, TimerOff DEF ContextsOK
  <2> QED
    BY <2>1, <2>2 DEF P2Timeout
<1>3. HeldBy(r, Threads) \in BOOLEAN
  BY DEF HeldBy
<1>4. up' \in BOOLEAN
  BY <1>3 DEF P2Timeout
<1> QED
  BY <1>1, <1>2, <1>4, P2Step DEF P2Timeout

\* The S3 timer touches no request.
LEMMA S3Keeps ==
  ASSUME ServerIInv, S3Fire \/ S3Timeout
  PROVE  ServerIInv'
<1>1. CASE S3Fire
  <2>1. s3' = FALSE /\ s3jobs' \in Nat /\ UNCHANGED <<session, wanted>>
    BY <1>1 DEF S3Fire, ServerIInv, TypeOK, SessionOK
  <2>2. SessionOK' /\ LoopOK' /\ arrived' \in Nat
    BY <1>1, <2>1 DEF S3Fire, ServerIInv, TypeOK, SessionOK, LoopOK
  <2> QED
    BY <1>1, <2>2, QuietStep DEF S3Fire
<1>2. CASE S3Timeout
  <2>1. session' = [id |-> Default, client |-> None] /\ s3jobs' \in Nat /\ UNCHANGED <<s3, wanted>>
    BY <1>2 DEF S3Timeout, SessionOf, ServerIInv, TypeOK, SessionOK
  <2>2. LoopOK' /\ arrived' \in Nat
    BY <1>2 DEF S3Timeout, ServerIInv, TypeOK, LoopOK
  <2>3. session' \in [id : Sessions \cup {Default}, client : Clients \cup {None}]
        /\ session'.id = Default /\ session'.client = None
    BY <2>1
  <2>4. SessionOK'
    BY <2>1, <2>3 DEF ServerIInv, TypeOK, SessionOK
  <2> QED
    BY <1>2, <2>2, <2>4, QuietStep DEF S3Timeout
<1> QED
  BY <1>1, <1>2

-----------------------------------------------------------------------------
(* The theorems *)

\* Every step keeps the invariant.
LEMMA StepKeeps == ServerIInv /\ [Next]_vars => ServerIInv'
<1> SUFFICES ASSUME ServerIInv, [Next]_vars PROVE ServerIInv'
  OBVIOUS
<1>1. ASSUME NEW c \in Clients, NEW op \in Ops, Arrive(c, op) PROVE ServerIInv'
  BY <1>1, ArriveKeeps
<1>2. CASE LoopStep
  BY <1>2, TesterPresentKeeps, IndicateKeeps, HandleMessageKeeps DEF LoopStep
<1>3. ASSUME NEW w \in Threads, Job(w) PROVE ServerIInv'
  BY <1>3, TakeJobKeeps, CheckKeeps, PopKeeps, BeginKeeps, ProcessKeeps, RespondKeeps,
     ConfirmKeeps, FinishKeeps DEF Job
<1>7. ASSUME NEW w \in Threads, ConfirmMeetsS3(w) PROVE ServerIInv'
  BY <1>7, ConfirmKeeps
<1>4. ASSUME NEW r \in DOMAIN reqs, P2Fire(r) \/ P2Timeout(r) PROVE ServerIInv'
  BY <1>4, P2FireKeeps, P2TimeoutKeeps
<1>5. CASE S3Fire \/ S3Timeout
  BY <1>5, S3Keeps
<1>6. CASE UNCHANGED vars
  <2>1. UNCHANGED <<loop, session, wanted, s3, s3jobs, arrived>>
    BY <1>6 DEF vars
  <2>2. LoopOK' /\ SessionOK' /\ arrived' \in Nat
    BY <2>1 DEF ServerIInv, TypeOK, LoopOK, SessionOK
  <2> QED
    BY <1>6, <2>2, QuietStep DEF vars
<1> QED
  BY <1>1, <1>2, <1>3, <1>4, <1>5, <1>6, <1>7 DEF Next

\* The inductive invariant holds in every behaviour.
LEMMA IInvAlways == Spec => []ServerIInv
BY InitHolds, StepKeeps, PTL DEF Spec

\* The state of the server keeps its types, and no thread of the pool and no
\* entry of waitQueue_ refers to a freed request context.
THEOREM ServerTypeCorrect == Spec => []TypeOK
<1>1. ServerIInv => TypeOK
  BY DEF ServerIInv
<1> QED
  BY <1>1, IInvAlways, PTL

\* requestContextTable_ keeps two threads from working for one client.
THEOREM OneThreadAlways == Spec => []OneThreadPerClient
<1>1. ServerIInv => OneThreadPerClient
  BY DEF ServerIInv
<1> QED
  BY <1>1, IInvAlways, PTL

\* A job that gives up never leaves waitQueue_ to nobody.
THEOREM QueueAlwaysServed == Spec => []QueueIsServed
<1>1. ServerIInv => QueueIsServed
  BY DEF ServerIInv
<1> QED
  BY <1>1, IInvAlways, PTL

-----------------------------------------------------------------------------
(* The S3 timer *)

Answering == {"process", "respond"}

\* A step that leaves the clients' states alone and takes no thread away from
\* the request it answers.
LEMMA RequestsKept ==
  ASSUME ThreadsOK, RequestIsWorkedOn, cstate' = cstate,
         \A w \in Threads : worker[w].pc \in Answering =>
           worker'[w].pc \in Answering /\ worker'[w].req = worker[w].req,
         \A i \in DOMAIN reqs : /\ reqs'[i].client = reqs[i].client
                                /\ reqs'[i].state = reqs[i].state
  PROVE  RequestIsWorkedOn'
<1> SUFFICES ASSUME NEW c \in Clients, cstate'[c] = "request" PROVE WorkedOn(c)'
  BY DEF RequestIsWorkedOn
<1>1. PICK w \in Threads : /\ worker[w].pc \in Answering
                           /\ ClientOf(w) = c
                           /\ reqs[worker[w].req].state # "canceled"
  BY DEF RequestIsWorkedOn, WorkedOn, Answering
<1>2. worker[w].req \in DOMAIN reqs
  BY <1>1 DEF ThreadsOK, Alive, Answering
<1> QED
  BY <1>1, <1>2 DEF WorkedOn, ClientOf, Answering

\* The thread that answers a client is the only one that works for it.
LEMMA OnlyAnswerer ==
  ASSUME ServerIInv, RequestIsWorkedOn, NEW w \in Holding,
         cstate[ClientOf(w)] = "request", ClientOf(w) \in Clients
  PROVE  worker[w].pc \in Answering /\ reqs[worker[w].req].state # "canceled"
<1>1. PICK v \in Threads : /\ worker[v].pc \in Answering
                           /\ ClientOf(v) = ClientOf(w)
                           /\ reqs[worker[v].req].state # "canceled"
  BY DEF RequestIsWorkedOn, WorkedOn, Answering
<1>2. v \in Holding
  BY <1>1 DEF Holding, Answering
<1>3. v = w
  BY <1>1, <1>2 DEF ServerIInv, OneThreadPerClient
<1> QED
  BY <1>1, <1>3

\* What ChangeState does to the states: the context's and its client's.
LEMMA ChangeStateStates ==
  ASSUME ContextsOK, NEW r \in DOMAIN reqs, reqs[r].client # None,
         NEW st \in States, NEW p2, ChangeState(r, st, p2)
  PROVE  LET c == reqs[r].client
         IN /\ c \in Clients
            /\ \A d \in Clients \ {c} : cstate'[d] = cstate[d]
            /\ \A i \in DOMAIN reqs : reqs'[i].client = reqs[i].client
            /\ \A i \in DOMAIN reqs \ {r} : reqs'[i].state = reqs[i].state
            /\ reqs[r].state = "canceled" =>
                 reqs'[r].state = "canceled" /\ cstate' = cstate
            /\ reqs[r].state # "canceled" =>
                 reqs'[r].state = st /\ cstate'[c] = st
<1>1. reqs \in Seq(Contexts) /\ reqs[r] \in Contexts
  BY DEF ContextsOK
<1>2. reqs[r].client \in Clients /\ cstate \in [Clients -> States \cup {"none"}]
  BY <1>1 DEF Contexts, ContextsOK
<1>3. CASE reqs[r].state = "canceled"
  BY <1>1, <1>2, <1>3 DEF ChangeState, Contexts
<1>4. CASE reqs[r].state # "canceled"
  BY <1>1, <1>2, <1>4 DEF ChangeState, Contexts
<1> QED
  BY <1>3, <1>4

\* Other clients keep the thread that answers them, whatever happens to the
\* contexts of one client.
LEMMA OthersWorkedOn ==
  ASSUME ServerIInv, RequestIsWorkedOn, NEW c,
         \A d \in Clients \ {c} : cstate'[d] = cstate[d],
         \A i \in DOMAIN reqs : reqs[i].client # c =>
            reqs'[i].client = reqs[i].client /\ reqs'[i].state = reqs[i].state,
         \A v \in Threads : v \in Holding /\ ClientOf(v) # c => worker'[v] = worker[v],
         NEW d \in Clients \ {c}, cstate'[d] = "request"
  PROVE  WorkedOn(d)'
<1>1. PICK v \in Threads : /\ worker[v].pc \in Answering
                           /\ ClientOf(v) = d
                           /\ reqs[worker[v].req].state # "canceled"
  BY DEF RequestIsWorkedOn, WorkedOn, Answering
<1>2. v \in Holding /\ worker[v].req \in DOMAIN reqs
  BY <1>1 DEF Holding, Answering, ServerIInv, TypeOK, ThreadsOK, Alive
<1>3. worker'[v] = worker[v] /\ reqs[worker[v].req].client # c
  BY <1>1, <1>2 DEF ClientOf
<1> QED
  BY <1>1, <1>2, <1>3 DEF WorkedOn, ClientOf, Answering

\* A client enters the state "request" with a thread that works for it.
LEMMA BeginAnswers ==
  ASSUME ServerIInv, RequestIsWorkedOn, NEW w \in Threads, Begin(w)
  PROVE  RequestIsWorkedOn'
<1> DEFINE r == worker[w].req
           c == reqs[r].client
<1>1. ContextsOK /\ ThreadsOK /\ worker[w].pc = "begin" /\ r \in DOMAIN reqs /\ c # None
  BY DEF ServerIInv, TypeOK, ThreadsOK, Begin, At, Alive
<1>2. ChangeState(r, "request", "armed") /\ Goto(w, "process") /\ "request" \in States
  BY DEF Begin, States
<1>3. /\ worker'[w].pc = "process"
      /\ \A v \in Threads : worker'[v].req = worker[v].req
      /\ \A v \in Threads \ {w} : worker'[v] = worker[v]
  BY <1>1, <1>2, GotoKeeps DEF PCs
<1> HIDE DEF r
<1>4. /\ c \in Clients
      /\ \A d \in Clients \ {c} : cstate'[d] = cstate[d]
      /\ \A i \in DOMAIN reqs : reqs'[i].client = reqs[i].client
      /\ \A i \in DOMAIN reqs \ {r} : reqs'[i].state = reqs[i].state
      /\ reqs[r].state = "canceled" => cstate' = cstate
      /\ reqs[r].state # "canceled" => reqs'[r].state = "request"
  BY <1>1, <1>2, ChangeStateStates
<1>5. w \in Holding /\ ClientOf(w) = c
  BY <1>1 DEF Holding, ClientOf, r
<1>6. ASSUME NEW d \in Clients, d = c, cstate'[d] = "request" PROVE WorkedOn(d)'
  <2>1. reqs[r].state # "canceled"
    <3>1. SUFFICES ASSUME reqs[r].state = "canceled" PROVE FALSE
      OBVIOUS
    <3>2. cstate[ClientOf(w)] = "request" /\ ClientOf(w) \in Clients
      BY <1>4, <1>5, <1>6, <3>1
    <3>3. worker[w].pc \in Answering
      BY <1>5, <3>2, OnlyAnswerer
    <3> QED
      BY <1>1, <3>3 DEF Answering
  <2>2. reqs'[worker'[w].req].client = d /\ reqs'[worker'[w].req].state # "canceled"
    BY <1>1, <1>3, <1>4, <1>6, <2>1 DEF r
  <2> QED
    BY <1>3, <2>2 DEF WorkedOn, ClientOf
<1>7. ASSUME NEW d \in Clients \ {c}, cstate'[d] = "request" PROVE WorkedOn(d)'
  <2>1. \A i \in DOMAIN reqs : reqs[i].client # c =>
          reqs'[i].client = reqs[i].client /\ reqs'[i].state = reqs[i].state
    BY <1>4
  <2>2. \A v \in Threads : v \in Holding /\ ClientOf(v) # c => worker'[v] = worker[v]
    BY <1>3, <1>5
  <2> HIDE DEF c
  <2> QED
    BY <1>4, <1>7, <2>1, <2>2, OthersWorkedOn
<1> QED
  BY <1>6, <1>7 DEF RequestIsWorkedOn

\* Respond takes the client out of the state, or the request was cancelled and
\* the client was out of it already.
LEMMA RespondAnswers ==
  ASSUME ServerIInv, RequestIsWorkedOn, NEW w \in Threads, Respond(w)
  PROVE  RequestIsWorkedOn'
<1> DEFINE r == worker[w].req
           c == reqs[r].client
<1>1. ContextsOK /\ ThreadsOK /\ worker[w].pc = "respond" /\ r \in DOMAIN reqs /\ c # None
  BY DEF ServerIInv, TypeOK, ThreadsOK, Respond, At, Alive
<1>2. PICK p2 \in {"off", reqs[r].p2}, st \in {"canceled", "confirm"} : ChangeState(r, st, p2)
  BY DEF Respond
<1>3. PICK pc \in {"confirm", "finish"} : Goto(w, pc)
  BY DEF Respond
<1>4. st \in States /\ pc \in PCs
  BY DEF States, PCs
<1>5. \A v \in Threads \ {w} : worker'[v] = worker[v]
  BY <1>1, <1>3, <1>4, GotoKeeps
<1> HIDE DEF r
<1>6. /\ c \in Clients
      /\ \A d \in Clients \ {c} : cstate'[d] = cstate[d]
      /\ \A i \in DOMAIN reqs : reqs'[i].client = reqs[i].client
      /\ \A i \in DOMAIN reqs \ {r} : reqs'[i].state = reqs[i].state
      /\ reqs[r].state = "canceled" => cstate' = cstate
      /\ reqs[r].state # "canceled" => cstate'[c] = st
  BY <1>1, <1>2, <1>4, ChangeStateStates
<1>7. w \in Holding /\ ClientOf(w) = c
  BY <1>1 DEF Holding, ClientOf, r
<1>8. cstate'[c] # "request"
  <2>1. CASE reqs[r].state = "canceled"
    <3>1. cstate[c] # "request"
      BY <1>6, <1>7, <2>1, OnlyAnswerer DEF r
    <3> QED
      BY <1>6, <2>1, <3>1
  <2>2. CASE reqs[r].state # "canceled"
    BY <1>6, <2>2
  <2> QED
    BY <2>1, <2>2
<1>9. ASSUME NEW d \in Clients \ {c}, cstate'[d] = "request" PROVE WorkedOn(d)'
  <2>1. \A i \in DOMAIN reqs : reqs[i].client # c =>
          reqs'[i].client = reqs[i].client /\ reqs'[i].state = reqs[i].state
    BY <1>6
  <2>2. \A v \in Threads : v \in Holding /\ ClientOf(v) # c => worker'[v] = worker[v]
    BY <1>5, <1>7
  <2> HIDE DEF c
  <2> QED
    BY <1>6, <1>9, <2>1, <2>2, OthersWorkedOn
<1> QED
  BY <1>8, <1>9 DEF RequestIsWorkedOn

\* The same for the end of a request and for its cancellation by P2.
LEMMA FinishAnswers ==
  ASSUME ServerIInv, RequestIsWorkedOn, NEW w \in Threads, Finish(w)
  PROVE  RequestIsWorkedOn'
<1> DEFINE r == worker[w].req
           c == reqs[r].client
<1>1. ContextsOK /\ ThreadsOK /\ worker[w].pc = "finish" /\ r \in DOMAIN reqs /\ c # None
  BY DEF ServerIInv, TypeOK, ThreadsOK, Finish, At, Alive
<1>2. \A v \in Threads \ {w} : worker'[v] = worker[v]
  BY <1>1 DEF Finish, ThreadsOK
<1>3. Release(w) /\ "end" \in States
  BY DEF Finish, States
<1>4. w \in Holding /\ ClientOf(w) = c
  BY <1>1 DEF Holding, ClientOf
<1>5. reqs \in Seq(Contexts) /\ cstate \in [Clients -> States \cup {"none"}] /\ c \in Clients
  <2>1. reqs[r] \in Contexts
    BY <1>1 DEF ContextsOK
  <2> QED
    BY <1>1, <2>1 DEF ContextsOK, Contexts
<1> HIDE DEF r
<1>6. /\ \A d \in Clients \ {c} : cstate'[d] = cstate[d]
      /\ \A i \in DOMAIN reqs \ {r} :
           reqs'[i].client = reqs[i].client /\ reqs'[i].state = reqs[i].state
      /\ reqs[r].state = "canceled" => cstate' = cstate
      /\ reqs[r].state # "canceled" => cstate'[c] = "end"
  <2>1. CASE HeldBy(r, Threads \ {w}) \/ reqs[r].p2 = "queued"
    <3>1. ChangeState(r, "end", reqs[r].p2)
      BY <1>3, <2>1 DEF Release, r
    <3> QED
      BY <1>1, <1>3, <3>1, ChangeStateStates
  <2>2. CASE ~(HeldBy(r, Threads \ {w}) \/ reqs[r].p2 = "queued")
    <3>1. /\ reqs' = [reqs EXCEPT ![r] = Freed]
          /\ cstate' = IF reqs[r].state = "canceled" THEN cstate
                       ELSE [cstate EXCEPT ![c] = "end"]
      BY <1>3, <2>2 DEF Release, r
    <3> QED
      BY <1>5, <3>1
  <2> QED
    BY <2>1, <2>2
<1>7. cstate'[c] # "request"
  <2>1. cstate[c] # "request"
    BY <1>1, <1>4, <1>5, OnlyAnswerer DEF Answering
  <2> QED
    BY <1>6, <2>1
<1>8. ASSUME NEW d \in Clients \ {c}, cstate'[d] = "request" PROVE WorkedOn(d)'
  <2>1. \A i \in DOMAIN reqs : reqs[i].client # c =>
          reqs'[i].client = reqs[i].client /\ reqs'[i].state = reqs[i].state
    BY <1>6
  <2>2. \A v \in Threads : v \in Holding /\ ClientOf(v) # c => worker'[v] = worker[v]
    BY <1>2, <1>4
  <2> HIDE DEF c
  <2> QED
    BY <1>6, <1>8, <2>1, <2>2, OthersWorkedOn
<1> QED
  BY <1>7, <1>8 DEF RequestIsWorkedOn

\* A request that is cancelled is not one its client waits for, and one whose
\* cancellation is overwritten goes on.
LEMMA P2TimeoutAnswers ==
  ASSUME ServerIInv, RequestIsWorkedOn, NEW r \in DOMAIN reqs, P2Timeout(r)
  PROVE  RequestIsWorkedOn'
<1>0. CASE reqs' = [reqs EXCEPT ![r].p2 = "off"] /\ UNCHANGED cstate
  <2>1. ContextsOK /\ ThreadsOK /\ worker' = worker
    BY DEF ServerIInv, TypeOK, P2Timeout
  <2>2. \A i \in DOMAIN reqs : /\ reqs'[i].client = reqs[i].client
                               /\ reqs'[i].state = reqs[i].state
    BY <1>0, <2>1, TimerOff
  <2> QED
    BY <1>0, <2>1, <2>2, RequestsKept
<1> SUFFICES ASSUME ChangeState(r, "canceled", "off") PROVE RequestIsWorkedOn'
  BY <1>0 DEF P2Timeout
<1> DEFINE c == reqs[r].client
<1>1. ContextsOK /\ ThreadsOK /\ c # None /\ "canceled" \in States
  BY DEF ServerIInv, TypeOK, ContextsOK, P2Timeout, States
<1>2. ChangeState(r, "canceled", "off") /\ worker' = worker
  BY DEF P2Timeout
<1>3. /\ c \in Clients
      /\ \A d \in Clients \ {c} : cstate'[d] = cstate[d]
      /\ \A i \in DOMAIN reqs : reqs'[i].client = reqs[i].client
      /\ \A i \in DOMAIN reqs \ {r} : reqs'[i].state = reqs[i].state
      /\ reqs[r].state = "canceled" => reqs'[r].state = "canceled" /\ cstate' = cstate
      /\ reqs[r].state # "canceled" => cstate'[c] = "canceled"
  BY <1>1, <1>2, ChangeStateStates
<1>4. CASE reqs[r].state = "canceled"
  <2>1. \A i \in DOMAIN reqs : /\ reqs'[i].client = reqs[i].client
                               /\ reqs'[i].state = reqs[i].state
    BY <1>3, <1>4
  <2> QED
    BY <1>1, <1>2, <1>3, <1>4, <2>1, RequestsKept
<1>5. CASE reqs[r].state # "canceled"
  <2>1. ASSUME NEW d \in Clients \ {c}, cstate'[d] = "request" PROVE WorkedOn(d)'
    <3>1. \A i \in DOMAIN reqs : reqs[i].client # c =>
            reqs'[i].client = reqs[i].client /\ reqs'[i].state = reqs[i].state
      BY <1>3
    <3>2. \A v \in Threads : v \in Holding /\ ClientOf(v) # c => worker'[v] = worker[v]
      BY <1>2
    <3> HIDE DEF c
    <3> QED
      BY <1>3, <2>1, <3>1, <3>2, OthersWorkedOn
  <2> QED
    BY <1>3, <1>5, <2>1 DEF RequestIsWorkedOn
<1> QED
  BY <1>4, <1>5

\* The steps that touch neither a client's state nor a request being answered.
LEMMA OthersAnswer ==
  ASSUME ServerIInv, RequestIsWorkedOn,
         \/ \E c \in Clients, op \in Ops : Arrive(c, op)
         \/ LoopStep \/ S3Fire \/ S3Timeout \/ UNCHANGED vars
         \/ \E w \in Threads : TakeJob(w) \/ Again(w) \/ Check(w) \/ Pop(w)
                               \/ Process(w) \/ Confirm(w) \/ ConfirmMeetsS3(w)
         \/ \E r \in DOMAIN reqs : P2Fire(r)
  PROVE  RequestIsWorkedOn'
<1>1. ContextsOK /\ ThreadsOK
  BY DEF ServerIInv, TypeOK
<1>2. cstate' = cstate
  BY DEF Arrive, LoopStep, TesterPresent, Indicate, HandleMessage, S3Fire, S3Timeout,
         TakeJob, Again, Check, Pop, Process, Confirm, ConfirmMeetsS3, P2Fire, vars
<1>3. \A i \in DOMAIN reqs : /\ reqs'[i].client = reqs[i].client
                             /\ reqs'[i].state = reqs[i].state
  <2>1. CASE reqs' = reqs
    BY <2>1
  <2>2. CASE HandleMessage
    BY <1>1, <2>2 DEF HandleMessage, ContextsOK
  <2>3. CASE \E r \in DOMAIN reqs : P2Fire(r)
    <3>1. PICK r \in DOMAIN reqs : reqs' = [reqs EXCEPT ![r].p2 = "queued"]
      BY <2>3 DEF P2Fire
    <3>2. reqs \in Seq(Contexts) /\ reqs[r] \in Contexts
      BY <1>1 DEF ContextsOK
    <3>3. reqs'[r] = [reqs[r] EXCEPT !.p2 = "queued"]
          /\ \A i \in DOMAIN reqs \ {r} : reqs'[i] = reqs[i]
      BY <3>1, <3>2
    <3>4. reqs'[r].client = reqs[r].client /\ reqs'[r].state = reqs[r].state
      BY <3>2, <3>3 DEF Contexts
    <3> QED
      BY <3>3, <3>4
  <2> QED
    BY <2>1, <2>2, <2>3
       DEF Arrive, LoopStep, TesterPresent, Indicate, S3Fire, S3Timeout,
           TakeJob, Again, Check, Pop, Process, Confirm, ConfirmMeetsS3, vars
<1>4. \A w \in Threads : worker[w].pc \in Answering =>
        worker'[w].pc \in Answering /\ worker'[w].req = worker[w].req
  <2>1. CASE worker' = worker
    BY <2>1
  <2>2. ASSUME NEW w \in Threads,
               TakeJob(w) \/ Again(w) \/ Check(w) \/ Pop(w) \/ Confirm(w) \/ ConfirmMeetsS3(w)
        PROVE  worker[w].pc \notin Answering /\ \A v \in Threads \ {w} : worker'[v] = worker[v]
    BY <1>1, <2>2 DEF TakeJob, Again, Check, Pop, Confirm, ConfirmMeetsS3, At, Goto,
                      ReadFront, ThreadsOK, Answering
  <2>3. ASSUME NEW w \in Threads, Process(w)
        PROVE  /\ worker'[w].pc = "respond" /\ worker'[w].req = worker[w].req
               /\ \A v \in Threads \ {w} : worker'[v] = worker[v]
    BY <1>1, <2>3 DEF Process, ThreadsOK
  <2> QED
    BY <2>1, <2>2, <2>3
       DEF Arrive, LoopStep, TesterPresent, Indicate, HandleMessage, S3Fire, S3Timeout,
           P2Fire, vars, Answering
<1> QED
  BY <1>1, <1>2, <1>3, <1>4, RequestsKept

\* No step leaves a client waiting for an answer nobody works on.
LEMMA AnsweredNext ==
  ASSUME ServerIInv, RequestIsWorkedOn, [Next]_vars
  PROVE  RequestIsWorkedOn'
<1>1. ASSUME NEW w \in Threads, Job(w) PROVE RequestIsWorkedOn'
  BY <1>1, OthersAnswer, BeginAnswers, RespondAnswers, FinishAnswers DEF Job
<1>2. ASSUME NEW r \in DOMAIN reqs, P2Fire(r) \/ P2Timeout(r) PROVE RequestIsWorkedOn'
  BY <1>2, OthersAnswer, P2TimeoutAnswers
<1> QED
  BY <1>1, <1>2, OthersAnswer DEF Next

\* A thread that goes on inside its request still holds it.
LEMMA StillHolding ==
  ASSUME NEW w \in Threads, worker'[w].pc \notin {"idle", "loop", "check"}
  PROVE  Holding' # {}
BY DEF Holding

\* A session without a timer is never left to nobody: who stops the timer is a
\* message or a request on its way to the step that starts it, and TesterPresent
\* leaves it off only for a client that a thread is answering.
LEMMA WatchedNext ==
  ASSUME ServerIInv, SessionIInv, [Next]_vars
  PROVE  SessionIsWatched'
<1> USE DEF SessionIsWatched
<1>1. TypeOK /\ ThreadsOK /\ ContextsOK /\ SessionIsWatched /\ RequestIsWorkedOn
  BY DEF ServerIInv, TypeOK, SessionIInv
<1>2. ASSUME NEW c \in Clients, NEW op \in Ops, Arrive(c, op) PROVE SessionIsWatched'
  BY <1>2 DEF Arrive, IdleLoop
<1>3. CASE TesterPresent
  <2>1. loop.client \in Clients
    BY <1>1, <1>3 DEF TypeOK, LoopOK, TesterPresent
  <2>2. CASE cstate[loop.client] = "request"
    <3>1. PICK w \in Threads : worker[w].pc \in {"process", "respond"}
      BY <1>1, <2>1, <2>2 DEF RequestIsWorkedOn, WorkedOn
    <3>2. worker' = worker
      BY <1>3 DEF TesterPresent
    <3> QED
      BY <3>1, <3>2, StillHolding
  <2> QED
    BY <1>3, <2>2 DEF TesterPresent
<1>4. CASE Indicate
  BY <1>1, <1>4 DEF Indicate, TypeOK, LoopOK
<1>5. CASE HandleMessage
  <2>1. queue \in Seq(Nat) /\ queue' = Append(queue, Len(reqs'))
    BY <1>1, <1>5 DEF HandleMessage, ContextsOK
  <2>2. Len(queue') = Len(queue) + 1 /\ Len(queue) \in Nat
    BY <2>1
  <2>3. queue' # <<>>
    BY <2>2
  <2> QED
    BY <2>3
<1>6. ASSUME NEW w \in Threads, TakeJob(w) \/ Again(w) PROVE SessionIsWatched'
  <2>1. Holding' = Holding
    BY <1>1, <1>6 DEF TakeJob, Again, At, ReadFront, IdleThread, Holding, ThreadsOK
  <2> QED
    BY <1>1, <1>6, <2>1 DEF TakeJob, Again
<1>7. ASSUME NEW w \in Threads, Check(w) PROVE SessionIsWatched'
  <2>1. Holding \subseteq Holding'
    BY <1>1, <1>7 DEF Check, At, Goto, IdleThread, Holding, ThreadsOK
  <2> QED
    BY <1>1, <1>7, <2>1 DEF Check
<1>8. ASSUME NEW w \in Threads, Pop(w) PROVE SessionIsWatched'
  <2>1. ~up' \/ worker'[w].pc = "begin"
    BY <1>1, <1>8 DEF Pop, Goto, ThreadsOK
  <2> QED
    BY <2>1, StillHolding
<1>9. ASSUME NEW w \in Threads,
             Begin(w) \/ Process(w) \/ Respond(w) \/ Confirm(w) \/ ConfirmMeetsS3(w)
      PROVE  SessionIsWatched'
  <2>1. worker'[w].pc \in {"process", "respond", "confirm", "finish"}
    BY <1>1, <1>9 DEF Begin, Process, Respond, Confirm, ConfirmMeetsS3, Goto, ThreadsOK
  <2> QED
    BY <2>1, StillHolding
<1>10. ASSUME NEW w \in Threads, Finish(w) PROVE SessionIsWatched'
  BY <1>10 DEF Finish, StartS3
<1>11. ASSUME NEW r \in DOMAIN reqs, P2Fire(r) \/ P2Timeout(r) PROVE SessionIsWatched'
  <2>1. UNCHANGED <<loop, queue, worker, session, s3, s3jobs>> /\ (up' => up)
    BY <1>11 DEF P2Fire, P2Timeout
  <2> QED
    BY <1>1, <2>1 DEF Holding
<1>12. CASE S3Fire
  BY <1>1, <1>12 DEF S3Fire, TypeOK, SessionOK
<1>13. CASE S3Timeout
  BY <1>13 DEF S3Timeout, SessionOf
<1>14. CASE UNCHANGED vars
  BY <1>1, <1>14 DEF vars, Holding
<1> QED
  BY <1>2, <1>3, <1>4, <1>5, <1>6, <1>7, <1>8, <1>9, <1>10, <1>11, <1>12, <1>13, <1>14
     DEF Next, LoopStep, Job

\* The parts about sessions hold in every behaviour.
LEMMA SessionIInvAlways == Spec => []SessionIInv
<1>1. Init => SessionIInv
  BY DEF Init, SessionIInv, RequestIsWorkedOn, SessionIsWatched
<1>2. ServerIInv /\ SessionIInv /\ [Next]_vars => SessionIInv'
  BY AnsweredNext, WatchedNext DEF SessionIInv
<1> QED
  BY <1>1, <1>2, IInvAlways, PTL DEF Spec

\* A client that Indicate refuses as waiting for its answer has a thread that
\* will answer it.
THEOREM RequestAlwaysWorkedOn == Spec => []RequestIsWorkedOn
<1>1. SessionIInv => RequestIsWorkedOn
  BY DEF SessionIInv
<1> QED
  BY <1>1, SessionIInvAlways, PTL

\* When nothing is in progress, a session other than the default one has its S3
\* timer armed or the timeout waiting for a thread.
THEOREM SessionAlwaysTimed == Spec => []SessionIsTimed
<1>1. SessionIInv => SessionIsTimed
  BY DEF SessionIInv, SessionIsWatched, SessionIsTimed, Holding, Idle
<1> QED
  BY <1>1, SessionIInvAlways, PTL
=============================================================================
