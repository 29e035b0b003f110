------------------------------- MODULE ComRpc -------------------------------
(***************************************************************************)
(* The request side of com: VsomeipBindHandle::SendRequest and             *)
(* SendRequestAsync against a service that VsomeipBindSkeleton offers.     *)
(*                                                                         *)
(* vsomeip (third_party) keeps one handler per method in a client, puts a  *)
(* response together with a copy of the handler registered at that moment  *)
(* into the queue of its dispatcher, and drops a response for which no     *)
(* handler is registered.  Nothing in a response is matched with the       *)
(* request: whose answer a caller gets is decided by the handler slot.     *)
(* Requests are numbered here; payloads are reduced to that number.        *)
(***************************************************************************)
EXTENDS Naturals, Sequences, FiniteSets

CONSTANTS
  Threads,    \* number of client threads that share one BindHandle
  Methods,    \* method ids of the service
  None,       \* no call
  MaxCalls,   \* bound on the number of calls
  MaxOffers   \* bound on how often the service is offered

ASSUME ComAssumption ==
  /\ Threads \in Nat /\ MaxCalls \in Nat /\ MaxOffers \in Nat
  /\ None \notin Nat /\ None \notin Methods

VARIABLES
  offered,    \* offered_ of the skeleton
  offers,     \* number of offers so far (bound only)
  available,  \* is_available at the client, which lags behind offered
  issued,     \* number of calls begun
  method, kind,  \* of each call
  phase,      \* where each call is
  done,       \* State::done of each synchronous call
  got,        \* State::data and success, or the value of the promise
  result,     \* what the call returned or the future holds
  slot,       \* the handler registered for a method: the call it belongs to
  requests,   \* requests whose answer has not reached the client yet
  queue,      \* the dispatcher's queue of handlers with their responses
  active,     \* the handler the dispatcher runs: <<>> or one queue entry
  step,       \* where that handler is
  shared      \* history: calls that met another open call of their method

callVars == <<issued, method, kind>>
netVars == <<offered, offers, available>>
dispVars == <<queue, active, step>>
vars == <<netVars, callVars, phase, done, got, result, slot, requests,
          dispVars, shared>>

Calls == 1..MaxCalls

\* What SendRequest returns: an error code, or the payload that answers a call.
Fails(code) == [code |-> code, call |-> None]

Value(c) == [code |-> "value", call |-> c]

Answers == [call : Calls, type : {"response", "error"}]

Entries == [handler : Calls, answer : Answers]

ActiveEntries == {active[i] : i \in DOMAIN active}

QueuedEntries == {queue[i] : i \in DOMAIN queue}

AllEntries == QueuedEntries \cup ActiveEntries

-----------------------------------------------------------------------------
(* The skeleton and the service *)

Offer ==
  /\ ~offered
  /\ offers < MaxOffers
  /\ offered' = TRUE
  /\ offers' = offers + 1
  /\ UNCHANGED <<available, callVars, phase, done, got, result, slot, requests,
                 dispVars, shared>>

\* StopOffer leaves the requests that arrived to their handlers; the end of the
\* service's process loses them.
ServiceGoes ==
  /\ offered
  /\ offered' = FALSE
  /\ UNCHANGED requests \/ requests' = {}
  /\ UNCHANGED <<offers, available, callVars, phase, done, got, result, slot,
                 dispVars, shared>>

\* Service discovery tells the client.
AvailabilityChanges ==
  /\ available # offered
  /\ available' = offered
  /\ UNCHANGED <<offered, offers, callVars, phase, done, got, result, slot, requests, dispVars, shared>>

-----------------------------------------------------------------------------
(* SendRequest and SendRequestAsync *)

\* A thread is inside SendRequest until it returns, and inside
\* SendRequestAsync until the request is sent.
ThreadFree == Cardinality({c \in Calls : phase[c] \in {"registered", "waiting"}}) < Threads

\* Open calls of a method: their answer may still reach the client.
Open(m) ==
  {d \in Calls : method[d] = m /\
     \/ phase[d] = "registered"
     \/ phase[d] \in {"waiting", "pending"} /\ result[d].code = "none"
     \/ d \in requests
     \/ \E e \in AllEntries : e.answer.call = d}

\* Nothing is registered or sent: IsValid() is false, or it was true and no
\* message or payload could be created.
RequestRefused ==
  LET c == issued + 1
      code == IF available THEN "kInternalError" ELSE "kInvalidHandle" IN
  /\ issued < MaxCalls
  /\ ThreadFree
  /\ issued' = c
  /\ phase' = [phase EXCEPT ![c] = "returned"]
  /\ result' = [result EXCEPT ![c] = Fails(code)]
  /\ UNCHANGED <<netVars, method, kind, done, got, slot, requests, dispVars, shared>>

\* register_message_handler: an older handler of the method is replaced.
Register(m, k) ==
  LET c == issued + 1 IN
  /\ available
  /\ issued < MaxCalls
  /\ ThreadFree
  /\ issued' = c
  /\ method' = [method EXCEPT ![c] = m]
  /\ kind' = [kind EXCEPT ![c] = k]
  /\ phase' = [phase EXCEPT ![c] = "registered"]
  /\ slot' = [slot EXCEPT ![m] = c]
  /\ shared' = IF Open(m) = {} THEN shared ELSE shared \cup Open(m) \cup {c}
  /\ UNCHANGED <<netVars, done, got, result, requests, dispVars>>

\* vsomeipApp_->send: to a service that has gone it goes nowhere.
Send(c) ==
  /\ phase[c] = "registered"
  /\ phase' = [phase EXCEPT ![c] = IF kind[c] = "sync" THEN "waiting" ELSE "pending"]
  /\ requests' = IF offered THEN requests \cup {c} ELSE requests
  /\ UNCHANGED <<netVars, callVars, done, got, result, slot, dispVars, shared>>

\* mutant: all handlers of the service are unregistered
Unregister_Service(m) == slot' = [n \in Methods |-> None]

\* unregister_message_handler, whoever registered the handler.
Unregister(m) == slot' = [slot EXCEPT ![m] = None]

\* mutant: wait instead of wait_for
TimeOut_Never(c) == FALSE /\ UNCHANGED vars

\* wait_for ends without done: the handler goes, the caller gets kTimeout.
TimeOut(c) ==
  /\ phase[c] = "waiting"
  /\ ~done[c]
  /\ Unregister(method[c])
  /\ phase' = [phase EXCEPT ![c] = "returned"]
  /\ result' = [result EXCEPT ![c] = Fails("kTimeout")]
  /\ UNCHANGED <<netVars, callVars, done, got, requests, dispVars, shared>>

\* mutant: the wait has no predicate, a spurious wake-up ends it
Return_Spurious(c) ==
  /\ phase[c] = "waiting"
  /\ phase' = [phase EXCEPT ![c] = "returned"]
  /\ result' = [result EXCEPT ![c] = got[c]]
  /\ UNCHANGED <<netVars, callVars, done, got, slot, requests, dispVars, shared>>

Return(c) ==
  /\ phase[c] = "waiting"
  /\ done[c]
  /\ phase' = [phase EXCEPT ![c] = "returned"]
  /\ result' = [result EXCEPT ![c] = got[c]]
  /\ UNCHANGED <<netVars, callVars, done, got, slot, requests, dispVars, shared>>

-----------------------------------------------------------------------------
(* vsomeip's dispatcher and the two handlers *)

\* mutant: some handler of the service is found
HandlerOf_Any(answer) ==
  IF \E m \in Methods : slot[m] # None
    THEN slot[CHOOSE m \in Methods : slot[m] # None] ELSE None

HandlerOf(answer) == slot[method[answer.call]]

\* The handler of RegisterMethodHandler runs in the service, or vsomeip answers
\* with an error of its own, and the answer reaches the client: there it is
\* queued with the handler of its method, or dropped.
Respond(answer) ==
  /\ answer.call \in requests
  /\ requests' = requests \ {answer.call}
  /\ queue' = IF HandlerOf(answer) = None THEN queue
              ELSE Append(queue, [handler |-> HandlerOf(answer), answer |-> answer])
  /\ UNCHANGED <<netVars, callVars, phase, done, got, result, slot, active, step, shared>>

\* The handler starts: it unregisters the handler of its method.
Invoke ==
  /\ active = <<>>
  /\ queue # <<>>
  /\ active' = <<Head(queue)>>
  /\ queue' = Tail(queue)
  /\ step' = "assign"
  /\ Unregister(method[Head(queue).handler])
  /\ UNCHANGED <<netVars, callVars, phase, done, got, result, requests, shared>>

ValueOf(answer) == IF answer.type = "response" THEN Value(answer.call)
                   ELSE Fails("kCommunicationError")

\* state->data and success, without the mutex ...
Assign ==
  /\ active # <<>>
  /\ step = "assign"
  /\ kind[active[1].handler] = "sync"
  /\ got' = [got EXCEPT ![active[1].handler] =
               IF active[1].answer.type = "error" /\ @.code = "value" THEN @
               ELSE ValueOf(active[1].answer)]
  /\ step' = "signal"
  /\ UNCHANGED <<netVars, callVars, phase, done, result, slot, requests, queue,
                 active, shared>>

\* ... then done under the mutex, and notify_one.
SignalDone ==
  /\ active # <<>>
  /\ step = "signal"
  /\ done' = [done EXCEPT ![active[1].handler] = TRUE]
  /\ active' = <<>>
  /\ step' = "idle"
  /\ UNCHANGED <<netVars, callVars, phase, got, result, slot, requests, queue, shared>>

\* The promise is settled; a second value throws, and vsomeip catches it.
Settle ==
  /\ active # <<>>
  /\ step = "assign"
  /\ kind[active[1].handler] = "async"
  /\ result' = [result EXCEPT ![active[1].handler] =
                  IF @.code = "none" THEN ValueOf(active[1].answer) ELSE @]
  /\ active' = <<>>
  /\ step' = "idle"
  /\ UNCHANGED <<netVars, callVars, phase, done, got, slot, requests, queue, shared>>

-----------------------------------------------------------------------------
Init ==
  /\ offered = FALSE /\ offers = 0 /\ available = FALSE
  /\ issued = 0
  /\ method = [c \in Calls |-> None]
  /\ kind = [c \in Calls |-> None]
  /\ phase = [c \in Calls |-> "none"]
  /\ done = [c \in Calls |-> FALSE]
  /\ got = [c \in Calls |-> Fails("none")]
  /\ result = [c \in Calls |-> Fails("none")]
  /\ slot = [m \in Methods |-> None]
  /\ requests = {}
  /\ queue = <<>> /\ active = <<>> /\ step = "idle"
  /\ shared = {}

Dispatcher == Invoke \/ Assign \/ SignalDone \/ Settle

Caller(c) == Send(c) \/ TimeOut(c) \/ Return(c)

Next ==
  \/ Offer \/ ServiceGoes \/ AvailabilityChanges
  \/ \E answer \in Answers : Respond(answer)
  \/ RequestRefused
  \/ \E m \in Methods, k \in {"sync", "async"} : Register(m, k)
  \/ \E c \in Calls : Caller(c)
  \/ Dispatcher

Spec == Init /\ [][Next]_vars

\* The calling threads run, and time passes.  The service, the network and
\* vsomeip's dispatcher owe nothing.
Fairness == WF_vars(\E c \in Calls : Caller(c))

FairSpec == Spec /\ Fairness

-----------------------------------------------------------------------------
Results ==
  {Value(c) : c \in Calls} \cup
  {Fails(code) : code \in {"none", "kInvalidHandle", "kInternalError", "kTimeout",
                          "kCommunicationError"}}

\* Every variable keeps its type, and a call that has returned says how it ended.
TypeOK ==
  /\ offered \in BOOLEAN /\ available \in BOOLEAN /\ offers \in 0..MaxOffers
  /\ issued \in 0..MaxCalls
  /\ method \in [Calls -> Methods \cup {None}]
  /\ kind \in [Calls -> {"sync", "async", None}]
  /\ phase \in [Calls -> {"none", "registered", "waiting", "pending", "returned"}]
  /\ done \in [Calls -> BOOLEAN]
  /\ got \in [Calls -> Results] /\ result \in [Calls -> Results]
  /\ slot \in [Methods -> Calls \cup {None}]
  /\ requests \subseteq Calls
  /\ queue \in Seq(Entries)
  /\ active = <<>> \/ (active \in Seq(Entries) /\ Len(active) = 1)
  /\ step \in {"idle", "assign", "signal"}
  /\ shared \subseteq Calls
  /\ \A c \in Calls : phase[c] = "returned" => result[c].code # "none"

\* Calls that share a method mix up their answers, and nothing else does: what
\* a call returns answers a request of its own method, and answers its own
\* request unless another call of that method was open at the same time, one
\* that had timed out included.
OwnAnswer ==
  \A c \in Calls :
    result[c].code = "value" =>
      /\ method[result[c].call] = method[c]
      /\ c \notin shared => result[c].call = c

\* A call that has its method to itself cannot miss its answer: until it has
\* returned, its handler is registered, queued, running, or has run.  The
\* time-outs and answers of other methods do not take it away.
HandlerInPlace ==
  \A c \in Calls :
    (/\ phase[c] \in {"registered", "waiting", "pending"}
     /\ result[c].code = "none" /\ c \notin shared) =>
      \/ slot[method[c]] = c
      \/ \E e \in AllEntries : e.handler = c
      \/ done[c]

\* The parts that make OwnAnswer and HandlerInPlace inductive, beginning with:
\* a call that still has to learn how it ends.
Live(c) ==
  \/ phase[c] = "registered"
  \/ phase[c] \in {"waiting", "pending"} /\ result[c].code = "none"

\* Calls are numbered in the order they begin, and nothing knows of a later one.
CallsInOrder ==
  /\ \A c \in Calls : c > issued => phase[c] = "none" /\ got[c].code = "none" /\ result[c].code = "none"
  /\ \A d \in requests : d <= issued /\ method[d] \in Methods
  /\ \A m \in Methods : slot[m] # None => slot[m] <= issued /\ method[slot[m]] = m
  /\ \A e \in AllEntries :
       /\ e.handler <= issued /\ e.answer.call <= issued
       /\ method[e.handler] \in Methods /\ method[e.answer.call] = method[e.handler]
  /\ \A c \in Calls : got[c].code = "value" => got[c].call <= issued
  /\ \A c \in Calls : result[c].code = "value" => result[c].call <= issued

\* Where a call can be, by its kind; a synchronous one has no result before it
\* returns.
KindFollows ==
  \A c \in Calls :
    /\ phase[c] \in {"registered", "waiting", "pending"} => method[c] \in Methods
    /\ phase[c] = "registered" => kind[c] = "async" \/ (kind[c] = "sync" /\ result[c].code = "none")
    /\ phase[c] = "waiting" => kind[c] = "sync" /\ result[c].code = "none"
    /\ phase[c] = "pending" => kind[c] = "async"

\* done is set after the data.
DoneHasData ==
  /\ active = <<>> <=> step = "idle"
  /\ step = "signal" => got[active[1].handler].code # "none"
  /\ \A c \in Calls : done[c] => got[c].code # "none"

\* A live call is shared when anything else of its method is about: another
\* live call, the handler of another call, or a queued or running handler.
CompanyIsShared ==
  \A c \in Calls : (Live(c) /\ c \notin shared) =>
    /\ \A d \in Calls : (Live(d) /\ method[d] = method[c]) => d = c
    /\ slot[method[c]] \in {None, c}
    /\ \A e \in AllEntries : method[e.handler] = method[c] => e.handler = c

\* A handler that is not shared meets its own answer only.
HandlersMeetOwn ==
  /\ \A m \in Methods : (slot[m] # None /\ slot[m] \notin shared) =>
       \A d \in Calls : (method[d] = m /\ (phase[d] = "registered" \/ d \in requests)) => d = slot[m]
  /\ \A e \in AllEntries : e.handler \notin shared => e.answer.call = e.handler
  /\ \A c \in Calls : got[c].code = "value" =>
       /\ method[got[c].call] = method[c]
       /\ c \notin shared => got[c].call = c

ComIInv ==
  /\ TypeOK /\ CallsInOrder /\ KindFollows /\ DoneHasData
  /\ CompanyIsShared /\ HandlersMeetOwn /\ OwnAnswer /\ HandlerInPlace

\* A synchronous call returns, whatever becomes of the service.
SyncReturns ==
  \A c \in Calls : (phase[c] = "waiting") ~> (phase[c] = "returned")
=============================================================================
