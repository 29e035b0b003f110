---------------------------- MODULE ComRpcProofs ----------------------------
(***************************************************************************)
(* Proofs about ComRpc, for any number of threads, calls and methods: the  *)
(* types, OwnAnswer and HandlerInPlace.                                    *)
(*                                                                         *)
(* Calls of one method share a handler slot, and nothing in a response     *)
(* says whose it is.  What saves a call that has its method to itself is   *)
(* that everything of its method that is about when it begins, or begins   *)
(* while it is live, makes it shared (CompanyIsShared, HandlersMeetOwn).   *)
(***************************************************************************)
EXTENDS ComRpc, TLAPS

\* What Value and Fails make, and what results are made of.
LEMMA ResultFacts ==
  /\ \A c \in Calls : Value(c) \in Results /\ Value(c).code = "value" /\ Value(c).call = c
  /\ \A code \in {"none", "kInvalidHandle", "kInternalError", "kTimeout", "kCommunicationError"} :
       Fails(code) \in Results /\ Fails(code).code = code
  /\ \A r \in Results : r.code = "value" => r.call \in Calls
BY DEF Results, Value, Fails

\* A handler gives a call a value or an error, never nothing.
LEMMA ValueOfFacts ==
  ASSUME NEW a \in Answers
  PROVE  /\ ValueOf(a) \in Results
         /\ ValueOf(a).code # "none"
         /\ ValueOf(a).code = "value" => ValueOf(a).call = a.call
<1>1. a.call \in Calls
  BY DEF Answers
<1> QED BY <1>1, ResultFacts DEF ValueOf

\* Queued and running handlers stay what they are when neither moves.
LEMMA EntriesSame ==
  ASSUME UNCHANGED <<queue, active>>
  PROVE  AllEntries' = AllEntries
BY DEF AllEntries, QueuedEntries, ActiveEntries

\* A response that is queued is one entry more.
LEMMA EntriesAppend ==
  ASSUME queue \in Seq(Entries), NEW e \in Entries,
         queue' = Append(queue, e), UNCHANGED active
  PROVE  AllEntries' = AllEntries \cup {e}
<1>1. QueuedEntries' = QueuedEntries \cup {e}
  BY DEF QueuedEntries
<1>2. ActiveEntries' = ActiveEntries
  BY DEF ActiveEntries
<1> QED BY <1>1, <1>2 DEF AllEntries

\* The dispatcher takes a handler from the queue and forgets none.
LEMMA EntriesInvoke ==
  ASSUME queue \in Seq(Entries), queue # <<>>, active = <<>>,
         queue' = Tail(queue), active' = <<Head(queue)>>
  PROVE  /\ Head(queue) \in Entries
         /\ Head(queue) \in AllEntries
         /\ AllEntries' = AllEntries
<1>1. Head(queue) \in Entries /\ Head(queue) \in QueuedEntries
  BY DEF QueuedEntries
<1>2. ActiveEntries = {} /\ ActiveEntries' = {Head(queue)}
  BY DEF ActiveEntries
<1>3. QueuedEntries = QueuedEntries' \cup {Head(queue)}
  <2>1. \A i \in DOMAIN queue : i = 1 \/ (i - 1 \in DOMAIN queue' /\ queue'[i - 1] = queue[i])
    OBVIOUS
  <2>2. \A i \in DOMAIN queue' : i + 1 \in DOMAIN queue /\ queue[i + 1] = queue'[i]
    OBVIOUS
  <2>3. Head(queue) = queue[1] /\ 1 \in DOMAIN queue
    OBVIOUS
  <2>4. ASSUME NEW e \in QueuedEntries PROVE e \in QueuedEntries' \cup {Head(queue)}
    <3>1. PICK i \in DOMAIN queue : e = queue[i]
      BY DEF QueuedEntries
    <3>2. CASE i = 1
      BY <3>1, <3>2, <2>3
    <3>3. CASE i # 1
      <4>1. i - 1 \in DOMAIN queue' /\ queue'[i - 1] = e
        BY <3>1, <3>3, <2>1
      <4> QED BY <4>1 DEF QueuedEntries
    <3> QED BY <3>2, <3>3
  <2>5. ASSUME NEW e \in QueuedEntries' PROVE e \in QueuedEntries
    <3>1. PICK i \in DOMAIN queue' : e = queue'[i]
      BY <2>5 DEF QueuedEntries
    <3>2. i + 1 \in DOMAIN queue /\ queue[i + 1] = e
      BY <3>1, <2>2
    <3> QED BY <3>2 DEF QueuedEntries
  <2> QED BY <2>4, <2>5, <1>1
<1> QED BY <1>1, <1>2, <1>3 DEF AllEntries

\* The handler that runs is one of the entries, and the only one that goes
\* when it ends.
LEMMA EntriesActive ==
  ASSUME TypeOK, active # <<>>
  PROVE  /\ active[1] \in Entries
         /\ active[1] \in AllEntries
         /\ (active' = <<>> /\ UNCHANGED queue) => AllEntries = AllEntries' \cup {active[1]}
<1>1. active \in Seq(Entries) /\ Len(active) = 1
  BY DEF TypeOK
<1>2. active[1] \in Entries /\ ActiveEntries = {active[1]}
  BY <1>1 DEF ActiveEntries
<1>3. active' = <<>> => ActiveEntries' = {}
  BY DEF ActiveEntries
<1>4. UNCHANGED queue => QueuedEntries' = QueuedEntries
  BY DEF QueuedEntries
<1> QED BY <1>2, <1>3, <1>4 DEF AllEntries

\* Entries name calls.
LEMMA EntryFacts ==
  ASSUME TypeOK
  PROVE  \A e \in AllEntries : e \in Entries /\ e.handler \in Calls /\ e.answer \in Answers /\ e.answer.call \in Calls
<1>1. \A e \in QueuedEntries : e \in Entries
  BY DEF TypeOK, QueuedEntries
<1>2. \A e \in ActiveEntries : e \in Entries
  BY DEF TypeOK, ActiveEntries
<1> QED BY <1>1, <1>2 DEF AllEntries, Entries, Answers

\* Before the first call there is nothing to confuse.
LEMMA InitEstablishes == Init => ComIInv
<1> SUFFICES ASSUME Init PROVE ComIInv
  OBVIOUS
<1> USE DEF Init
<1>1. AllEntries = {}
  BY DEF AllEntries, QueuedEntries, ActiveEntries
<1>2. Fails("none") \in Results /\ Fails("none").code = "none"
  BY ResultFacts
<1>3. TypeOK
  <2>1. offers \in 0..MaxOffers /\ issued \in 0..MaxCalls
    BY ComAssumption
  <2>2. /\ phase \in [Calls -> {"none", "registered", "waiting", "pending", "returned"}]
        /\ \A c \in Calls : phase[c] # "returned"
        /\ method \in [Calls -> Methods \cup {None}]
        /\ kind \in [Calls -> {"sync", "async", None}]
        /\ slot \in [Methods -> Calls \cup {None}]
    OBVIOUS
  <2>3. got \in [Calls -> Results] /\ result \in [Calls -> Results]
    BY <1>2
  <2>4. done \in [Calls -> BOOLEAN] /\ offered \in BOOLEAN /\ available \in BOOLEAN
    OBVIOUS
  <2>5. queue \in Seq(Entries) /\ requests \subseteq Calls /\ shared \subseteq Calls
    OBVIOUS
  <2> QED BY <2>1, <2>2, <2>3, <2>4, <2>5 DEF TypeOK
<1>4. CallsInOrder /\ KindFollows /\ DoneHasData
  BY <1>1, <1>2, ComAssumption DEF CallsInOrder, KindFollows, DoneHasData, Calls
<1>5. CompanyIsShared /\ HandlersMeetOwn /\ OwnAnswer /\ HandlerInPlace
  BY <1>1, <1>2 DEF CompanyIsShared, HandlersMeetOwn, OwnAnswer, HandlerInPlace, Live
<1> QED BY <1>3, <1>4, <1>5 DEF ComIInv

\* The service comes and goes: calls and handlers stay, requests may be lost.
LEMMA ServicePreserves ==
  ASSUME ComIInv, Offer \/ ServiceGoes \/ AvailabilityChanges
  PROVE  ComIInv'
<1> USE DEF ComIInv
<1>1. /\ UNCHANGED <<callVars, phase, done, got, result, slot, dispVars, shared>>
      /\ requests' \subseteq requests
      /\ offered' \in BOOLEAN /\ available' \in BOOLEAN /\ offers' \in 0..MaxOffers
  <2>1. CASE Offer
    BY <2>1, ComAssumption DEF Offer, TypeOK
  <2>2. CASE ServiceGoes
    BY <2>2 DEF ServiceGoes, TypeOK
  <2>3. CASE AvailabilityChanges
    BY <2>3 DEF AvailabilityChanges, TypeOK
  <2> QED BY <2>1, <2>2, <2>3
<1> USE <1>1 DEF callVars, dispVars
<1>2. AllEntries' = AllEntries
  BY EntriesSame
<1>3. TypeOK'
  BY DEF TypeOK
<1>4. CallsInOrder' /\ KindFollows' /\ DoneHasData'
  BY <1>2 DEF CallsInOrder, KindFollows, DoneHasData
<1>5. CompanyIsShared' /\ HandlersMeetOwn'
  BY <1>2 DEF CompanyIsShared, HandlersMeetOwn, Live
<1>6. OwnAnswer' /\ HandlerInPlace'
  BY <1>2 DEF OwnAnswer, HandlerInPlace
<1> QED BY <1>3, <1>4, <1>5, <1>6

\* Everything that names a call names one of Calls.
LEMMA NamesCalls ==
  ASSUME TypeOK
  PROVE  /\ requests \subseteq Calls
         /\ \A m \in Methods : slot[m] # None => slot[m] \in Calls
         /\ \A d \in Calls : result[d].code = "value" => result[d].call \in Calls
         /\ \A d \in Calls : got[d].code = "value" => got[d].call \in Calls
<1>1. requests \subseteq Calls /\ \A m \in Methods : slot[m] # None => slot[m] \in Calls
  BY DEF TypeOK
<1>2. \A d \in Calls : result[d].code = "value" => result[d].call \in Calls
  BY ResultFacts DEF TypeOK
<1>3. \A d \in Calls : got[d].code = "value" => got[d].call \in Calls
  BY ResultFacts DEF TypeOK
<1> QED BY <1>1, <1>2, <1>3

\* The next call is later than all that began.
LEMMA NextCall ==
  ASSUME issued \in Nat, issued' = issued + 1
  PROVE  /\ \A d \in Calls : d <= issued => d <= issued' /\ d # issued'
         /\ \A d \in Calls : d > issued' => d > issued /\ d # issued'
BY DEF Calls

\* A refused call returns at once and touches nothing of the others.
LEMMA RefusedPreserves ==
  ASSUME ComIInv, RequestRefused
  PROVE  ComIInv'
<1> USE DEF ComIInv
<1> DEFINE c == issued + 1
           code == IF available THEN "kInternalError" ELSE "kInvalidHandle"
<1>1. /\ c \in Calls /\ issued' = c /\ issued \in Nat /\ issued' \in 0..MaxCalls
      /\ UNCHANGED <<netVars, method, kind, done, got, slot, requests, dispVars, shared>>
  BY ComAssumption DEF RequestRefused, TypeOK, Calls
<1>2. /\ phase' = [phase EXCEPT ![c] = "returned"]
      /\ result' = [result EXCEPT ![c] = Fails(code)]
  BY DEF RequestRefused
<1>3. /\ Fails(code) \in Results /\ Fails(code).code = code
      /\ code \notin {"none", "value"}
  BY ResultFacts
<1> HIDE DEF c, code
<1>4. /\ phase'[c] = "returned" /\ result'[c].code \notin {"none", "value"}
      /\ \A d \in Calls : d # c => phase'[d] = phase[d] /\ result'[d] = result[d]
  BY <1>1, <1>2, <1>3 DEF TypeOK
<1>5. AllEntries' = AllEntries
  BY <1>1, EntriesSame DEF dispVars
<1>6. TypeOK'
  BY <1>1, <1>2, <1>3, <1>4 DEF TypeOK, netVars, dispVars
<1>7. CallsInOrder'
  <2>1. \A d \in Calls : d > issued' => d > issued /\ d # c
    BY <1>1, NextCall DEF c
  <2>2. /\ \A d \in Calls : d <= issued => d <= issued'
        /\ requests \subseteq Calls /\ \A m \in Methods : slot[m] # None => slot[m] \in Calls
        /\ \A d \in Calls : result[d].code = "value" => result[d].call \in Calls
        /\ \A d \in Calls : got[d].code = "value" => got[d].call \in Calls
    BY <1>1, NextCall, NamesCalls DEF c
  <2>3. \A d \in Calls : d > issued' => phase'[d] = "none" /\ got'[d].code = "none" /\ result'[d].code = "none"
    BY <1>1, <1>4, <2>1 DEF CallsInOrder
  <2>4. \A d \in requests' : d <= issued' /\ method'[d] \in Methods
    BY <1>1, <2>2 DEF CallsInOrder
  <2>5. \A m \in Methods : slot'[m] # None => slot'[m] <= issued' /\ method'[slot'[m]] = m
    BY <1>1, <2>2 DEF CallsInOrder
  <2>6. \A e \in AllEntries' :
          /\ e.handler <= issued' /\ e.answer.call <= issued'
          /\ method'[e.handler] \in Methods /\ method'[e.answer.call] = method'[e.handler]
    BY <1>1, <1>5, <2>2, EntryFacts DEF CallsInOrder
  <2>7. \A d \in Calls : got'[d].code = "value" => got'[d].call <= issued'
    BY <1>1, <2>2 DEF CallsInOrder
  <2>8. \A d \in Calls : result'[d].code = "value" => result'[d].call <= issued'
    BY <1>4, <2>2 DEF CallsInOrder
  <2> QED BY <2>3, <2>4, <2>5, <2>6, <2>7, <2>8 DEF CallsInOrder
<1>8. KindFollows' /\ DoneHasData'
  BY <1>1, <1>4 DEF KindFollows, DoneHasData, dispVars
<1>9. \A d \in Calls : Live(d)' => Live(d) /\ d # c
  BY <1>4 DEF Live
<1>10. CompanyIsShared'
  BY <1>1, <1>5, <1>9 DEF CompanyIsShared
<1>11. HandlersMeetOwn'
  <2>1. \A d \in Calls : phase'[d] = "registered" => phase[d] = "registered"
    BY <1>4
  <2>2. UNCHANGED <<slot, shared, method, requests, got, AllEntries>>
    BY <1>1, <1>5
  <2> QED
    BY <2>1, <2>2 DEF HandlersMeetOwn
<1>12. OwnAnswer' /\ HandlerInPlace'
  BY <1>1, <1>4, <1>5 DEF OwnAnswer, HandlerInPlace
<1> QED BY <1>6, <1>7, <1>8, <1>10, <1>11, <1>12

\* A call that begins takes the slot of its method; it and every open call of
\* that method are shared from now on.
LEMMA RegisterPreserves ==
  ASSUME ComIInv, NEW m \in Methods, NEW k \in {"sync", "async"}, Register(m, k)
  PROVE  ComIInv'
<1> USE DEF ComIInv
<1> DEFINE c == issued + 1
<1>1. /\ c \in Calls /\ issued' = c /\ issued \in Nat /\ issued' \in 0..MaxCalls
      /\ UNCHANGED <<netVars, done, got, result, requests, dispVars>>
      /\ method' = [method EXCEPT ![c] = m]
      /\ kind' = [kind EXCEPT ![c] = k]
      /\ phase' = [phase EXCEPT ![c] = "registered"]
      /\ slot' = [slot EXCEPT ![m] = c]
      /\ shared' = IF Open(m) = {} THEN shared ELSE shared \cup Open(m) \cup {c}
  BY ComAssumption DEF Register, TypeOK, Calls
<1>2. /\ \A d \in Calls : d <= issued => d <= issued' /\ d # c
      /\ \A d \in Calls : d > issued' => d > issued /\ d # c
      /\ c > issued /\ c <= issued'
  BY <1>1, NextCall DEF c
<1> HIDE DEF c
<1>3. /\ method'[c] = m /\ kind'[c] = k /\ phase'[c] = "registered"
      /\ \A d \in Calls : d # c => method'[d] = method[d] /\ kind'[d] = kind[d] /\ phase'[d] = phase[d]
  BY <1>1 DEF TypeOK
<1>4. slot'[m] = c /\ \A n \in Methods : n # m => slot'[n] = slot[n]
  BY <1>1 DEF TypeOK
<1>5. AllEntries' = AllEntries
  BY <1>1, EntriesSame DEF dispVars
<1>6. /\ phase[c] = "none" /\ got[c].code = "none" /\ result[c].code = "none" /\ c \notin requests
      /\ \A e \in AllEntries : e.handler # c /\ e.answer.call # c
      /\ \A d \in Calls : got[d].code = "value" => got[d].call # c
      /\ \A d \in Calls : result[d].code = "value" => result[d].call # c
  <2>1. phase[c] = "none" /\ got[c].code = "none" /\ result[c].code = "none"
    BY <1>1, <1>2 DEF CallsInOrder
  <2>2. \A e \in AllEntries : e.handler # c /\ e.answer.call # c
    BY <1>2, EntryFacts DEF CallsInOrder
  <2>3. c \notin requests
    BY <1>2, NamesCalls DEF CallsInOrder
  <2>4. \A d \in Calls : got[d].code = "value" => got[d].call # c
    BY <1>2, NamesCalls DEF CallsInOrder
  <2>5. \A d \in Calls : result[d].code = "value" => result[d].call # c
    BY <1>2, NamesCalls DEF CallsInOrder
  <2> QED BY <2>1, <2>2, <2>3, <2>4, <2>5
<1>7. /\ Open(m) \subseteq Calls /\ shared \subseteq shared' /\ Open(m) \subseteq shared'
      /\ Open(m) # {} => c \in shared'
  BY <1>1 DEF Open
<1>8. \A d \in Calls : (d # c /\ Live(d)') => Live(d)
  BY <1>1, <1>3 DEF Live
<1>9. \A d \in Calls : (method[d] = m /\ (Live(d) \/ d \in requests)) => d \in Open(m)
  BY DEF Open, Live
<1>10. \A e \in AllEntries : method[e.handler] = m => e.answer.call \in Open(m)
  BY EntryFacts DEF Open, CallsInOrder
<1> HIDE DEF ComIInv
<1>11. TypeOK'
  <2>1. shared' \subseteq Calls
    BY <1>1, <1>7 DEF ComIInv, TypeOK
  <2>2. /\ method' \in [Calls -> Methods \cup {None}] /\ kind' \in [Calls -> {"sync", "async", None}]
        /\ phase' \in [Calls -> {"none", "registered", "waiting", "pending", "returned"}]
        /\ slot' \in [Methods -> Calls \cup {None}]
    BY <1>1 DEF ComIInv, TypeOK
  <2>3. \A d \in Calls : phase'[d] = "returned" => result'[d].code # "none"
    BY <1>1, <1>3 DEF ComIInv, TypeOK
  <2> QED BY <1>1, <2>1, <2>2, <2>3 DEF ComIInv, TypeOK, netVars, dispVars
<1>12. CallsInOrder'
  <2> USE DEF ComIInv
  <2>1. \A d \in Calls : d > issued' => phase'[d] = "none" /\ got'[d].code = "none" /\ result'[d].code = "none"
    BY <1>1, <1>2, <1>3 DEF CallsInOrder
  <2>2. \A d \in requests' : d <= issued' /\ method'[d] \in Methods
    BY <1>1, <1>2, <1>3, <1>6, NamesCalls DEF CallsInOrder
  <2>3. \A n \in Methods : slot'[n] # None => slot'[n] <= issued' /\ method'[slot'[n]] = n
    <3> SUFFICES ASSUME NEW n \in Methods, slot'[n] # None
                 PROVE  slot'[n] <= issued' /\ method'[slot'[n]] = n
      OBVIOUS
    <3>1. CASE n = m
      BY <3>1, <1>2, <1>3, <1>4
    <3>2. CASE n # m
      <4>1. slot'[n] = slot[n] /\ slot[n] \in Calls /\ slot[n] <= issued /\ method[slot[n]] = n
        BY <3>2, <1>4, NamesCalls DEF CallsInOrder
      <4> QED BY <4>1, <1>2, <1>3
    <3> QED BY <3>1, <3>2
  <2>4. \A e \in AllEntries' :
          /\ e.handler <= issued' /\ e.answer.call <= issued'
          /\ method'[e.handler] \in Methods /\ method'[e.answer.call] = method'[e.handler]
    <3> SUFFICES ASSUME NEW e \in AllEntries
                 PROVE  /\ e.handler <= issued' /\ e.answer.call <= issued'
                        /\ method'[e.handler] \in Methods /\ method'[e.answer.call] = method'[e.handler]
      BY <1>5
    <3>1. /\ e.handler \in Calls /\ e.handler <= issued /\ e.handler # c
          /\ e.answer.call \in Calls /\ e.answer.call <= issued /\ e.answer.call # c
      BY <1>6, EntryFacts DEF CallsInOrder
    <3>2. method[e.handler] \in Methods /\ method[e.answer.call] = method[e.handler]
      BY DEF CallsInOrder
    <3> QED BY <3>1, <3>2, <1>2, <1>3
  <2>5. \A d \in Calls : got'[d].code = "value" => got'[d].call <= issued'
    BY <1>1, <1>2, NamesCalls DEF CallsInOrder
  <2>6. \A d \in Calls : result'[d].code = "value" => result'[d].call <= issued'
    BY <1>1, <1>2, NamesCalls DEF CallsInOrder
  <2> QED BY <2>1, <2>2, <2>3, <2>4, <2>5, <2>6 DEF CallsInOrder
<1>13. KindFollows' /\ DoneHasData'
  BY <1>1, <1>3, <1>6 DEF ComIInv, KindFollows, DoneHasData, dispVars
<1>14. CompanyIsShared'
  <2> SUFFICES ASSUME NEW a \in Calls, Live(a)', a \notin shared'
               PROVE  /\ \A d \in Calls : (Live(d)' /\ method'[d] = method'[a]) => d = a
                      /\ slot'[method'[a]] \in {None, a}
                      /\ \A e \in AllEntries' : method'[e.handler] = method'[a] => e.handler = a
    BY DEF CompanyIsShared
  <2>1. CASE a = c
    <3>1. Open(m) = {}
      BY <2>1, <1>7
    <3>2. \A d \in Calls : (Live(d)' /\ method'[d] = m) => d = a
      BY <3>1, <2>1, <1>3, <1>8, <1>9
    <3>3. \A e \in AllEntries' : method'[e.handler] # m
      BY <3>1, <1>3, <1>5, <1>6, <1>10, EntryFacts DEF ComIInv
    <3> QED BY <3>2, <3>3, <2>1, <1>3, <1>4
  <2>2. CASE a # c
    <3>1. Live(a) /\ a \notin shared /\ method'[a] = method[a] /\ method[a] # m
      BY <2>2, <1>3, <1>7, <1>8, <1>9
    <3>2. method[a] \in Methods
      BY <3>1 DEF ComIInv, KindFollows, Live
    <3>3. /\ \A d \in Calls : (Live(d) /\ method[d] = method[a]) => d = a
          /\ slot[method[a]] \in {None, a}
          /\ \A e \in AllEntries : method[e.handler] = method[a] => e.handler = a
      BY <3>1 DEF ComIInv, CompanyIsShared
    <3>4. \A d \in Calls : (Live(d)' /\ method'[d] = method'[a]) => d = a
      BY <3>1, <3>3, <1>3, <1>8
    <3>5. \A e \in AllEntries' : method'[e.handler] = method'[a] => e.handler = a
      BY <3>1, <3>3, <1>3, <1>5, <1>6, EntryFacts DEF ComIInv
    <3> QED BY <3>1, <3>2, <3>3, <3>4, <3>5, <1>4
  <2> QED BY <2>1, <2>2
<1>15. HandlersMeetOwn'
  <2>1. \A n \in Methods : (slot'[n] # None /\ slot'[n] \notin shared') =>
          \A d \in Calls : (method'[d] = n /\ (phase'[d] = "registered" \/ d \in requests')) => d = slot'[n]
    <3> SUFFICES ASSUME NEW n \in Methods, slot'[n] # None, slot'[n] \notin shared', NEW d \in Calls,
                        method'[d] = n, phase'[d] = "registered" \/ d \in requests'
                 PROVE  d = slot'[n]
      OBVIOUS
    <3>1. CASE n = m
      <4>1. d # c => d \in Open(m)
        BY <3>1, <1>1, <1>3, <1>9 DEF Live
      <4> QED BY <4>1, <3>1, <1>4, <1>7
    <3>2. CASE n # m
      BY <3>2, <1>1, <1>3, <1>4, <1>7 DEF ComIInv, HandlersMeetOwn
    <3> QED BY <3>1, <3>2
  <2>2. \A e \in AllEntries' : e.handler \notin shared' => e.answer.call = e.handler
    BY <1>5, <1>7 DEF ComIInv, HandlersMeetOwn
  <2>3. \A d \in Calls : got'[d].code = "value" =>
          method'[got'[d].call] = method'[d] /\ (d \notin shared' => got'[d].call = d)
    BY <1>1, <1>3, <1>6, <1>7, NamesCalls DEF ComIInv, HandlersMeetOwn
  <2> QED BY <2>1, <2>2, <2>3 DEF HandlersMeetOwn
<1>16. OwnAnswer'
  BY <1>1, <1>3, <1>6, <1>7, NamesCalls DEF ComIInv, OwnAnswer
<1>17. HandlerInPlace'
  <2> SUFFICES ASSUME NEW a \in Calls, phase'[a] \in {"registered", "waiting", "pending"},
                      result'[a].code = "none", a \notin shared'
               PROVE  slot'[method'[a]] = a \/ (\E e \in AllEntries' : e.handler = a) \/ done'[a]
    BY DEF HandlerInPlace
  <2>1. CASE a = c
    BY <2>1, <1>3, <1>4
  <2>2. CASE a # c
    <3>1. Live(a) /\ a \notin shared /\ method'[a] = method[a] /\ method[a] # m /\ method[a] \in Methods
      BY <2>2, <1>1, <1>3, <1>7, <1>9 DEF Live, ComIInv, KindFollows
    <3> QED BY <3>1, <2>2, <1>1, <1>3, <1>4, <1>5 DEF ComIInv, HandlerInPlace
  <2> QED BY <2>1, <2>2
<1> QED BY <1>11, <1>12, <1>13, <1>14, <1>15, <1>16, <1>17 DEF ComIInv

\* The request leaves: the call stays live, its answer may now come.
LEMMA SendPreserves ==
  ASSUME ComIInv, NEW c \in Calls, Send(c)
  PROVE  ComIInv'
<1> USE DEF ComIInv
<1>1. /\ phase[c] = "registered"
      /\ phase' = [phase EXCEPT ![c] = IF kind[c] = "sync" THEN "waiting" ELSE "pending"]
      /\ requests' \subseteq requests \cup {c}
      /\ UNCHANGED <<netVars, callVars, done, got, result, slot, dispVars, shared>>
  BY DEF Send
<1>2. /\ phase'[c] = IF kind[c] = "sync" THEN "waiting" ELSE "pending"
      /\ \A d \in Calls : d # c => phase'[d] = phase[d]
  BY <1>1 DEF TypeOK
<1>3. AllEntries' = AllEntries
  BY <1>1, EntriesSame DEF dispVars
<1>4. c <= issued /\ method[c] \in Methods /\ kind[c] \in {"sync", "async"}
      /\ (kind[c] = "sync" => result[c].code = "none")
  <2>1. c <= issued
    BY <1>1 DEF CallsInOrder, TypeOK, Calls
  <2> QED BY <2>1, <1>1 DEF KindFollows
<1>5. TypeOK'
  BY <1>1, <1>2 DEF TypeOK, netVars, callVars, dispVars
<1>6. CallsInOrder'
  BY <1>1, <1>2, <1>3, <1>4 DEF CallsInOrder, callVars
<1>7. KindFollows' /\ DoneHasData'
  BY <1>1, <1>2, <1>4 DEF KindFollows, DoneHasData, callVars, dispVars
<1>8. \A d \in Calls : Live(d)' => Live(d)
  BY <1>1, <1>2 DEF Live
<1>9. CompanyIsShared'
  BY <1>1, <1>3, <1>8 DEF CompanyIsShared, callVars
<1>10. HandlersMeetOwn'
  <2>1. \A d \in Calls : (phase'[d] = "registered" \/ d \in requests') => (phase[d] = "registered" \/ d \in requests)
    BY <1>1, <1>2
  <2> QED BY <1>1, <1>3, <2>1 DEF HandlersMeetOwn, callVars
<1>11. OwnAnswer'
  BY <1>1 DEF OwnAnswer, callVars
<1>12. HandlerInPlace'
  BY <1>1, <1>2, <1>3 DEF HandlerInPlace, callVars
<1> QED BY <1>5, <1>6, <1>7, <1>9, <1>10, <1>11, <1>12

\* A call gives up and takes the handler of its method away; no live call of
\* that method relies on it without being shared.
LEMMA TimeOutPreserves ==
  ASSUME ComIInv, NEW c \in Calls, TimeOut(c)
  PROVE  ComIInv'
<1> USE DEF ComIInv
<1> DEFINE m == method[c]
<1>1. /\ phase[c] = "waiting"
      /\ phase' = [phase EXCEPT ![c] = "returned"]
      /\ result' = [result EXCEPT ![c] = Fails("kTimeout")]
      /\ slot' = [slot EXCEPT ![m] = None]
      /\ UNCHANGED <<netVars, callVars, done, got, requests, dispVars, shared>>
  BY DEF TimeOut, Unregister
<1>2. Fails("kTimeout") \in Results /\ Fails("kTimeout").code = "kTimeout"
  BY ResultFacts
<1>3. /\ phase'[c] = "returned" /\ result'[c].code = "kTimeout"
      /\ \A d \in Calls : d # c => phase'[d] = phase[d] /\ result'[d] = result[d]
  BY <1>1, <1>2 DEF TypeOK
<1>4. m \in Methods /\ Live(c) /\ c <= issued
  <2>1. c <= issued
    BY <1>1 DEF CallsInOrder, TypeOK, Calls
  <2> QED BY <2>1, <1>1 DEF KindFollows, Live
<1>5. slot'[m] = None /\ \A n \in Methods : n # m => slot'[n] = slot[n]
  BY <1>1, <1>4 DEF TypeOK
<1>6. AllEntries' = AllEntries
  BY <1>1, EntriesSame DEF dispVars
<1>7. TypeOK'
  BY <1>1, <1>2, <1>3, <1>4 DEF TypeOK, netVars, callVars, dispVars
<1>8. CallsInOrder'
  BY <1>1, <1>3, <1>4, <1>5, <1>6 DEF CallsInOrder, callVars
<1>9. KindFollows' /\ DoneHasData'
  BY <1>1, <1>3 DEF KindFollows, DoneHasData, callVars, dispVars
<1>10. \A d \in Calls : Live(d)' => Live(d) /\ d # c
  BY <1>3 DEF Live
<1>11. \A d \in Calls : Live(d) => method[d] \in Methods
  BY DEF Live, KindFollows
<1>12. CompanyIsShared'
  BY <1>1, <1>5, <1>6, <1>10, <1>11 DEF CompanyIsShared, callVars
<1>13. HandlersMeetOwn'
  BY <1>1, <1>3, <1>5, <1>6 DEF HandlersMeetOwn, callVars
<1>14. OwnAnswer'
  BY <1>1, <1>3 DEF OwnAnswer, callVars
<1>15. HandlerInPlace'
  <2> SUFFICES ASSUME NEW a \in Calls, phase'[a] \in {"registered", "waiting", "pending"},
                      result'[a].code = "none", a \notin shared'
               PROVE  slot'[method'[a]] = a \/ (\E e \in AllEntries' : e.handler = a) \/ done'[a]
    BY DEF HandlerInPlace
  <2>1. a # c /\ Live(a) /\ a \notin shared /\ method'[a] = method[a]
    BY <1>1, <1>3 DEF Live, callVars
  <2>2. method[a] # m
    BY <2>1, <1>4 DEF CompanyIsShared
  <2> QED BY <2>1, <2>2, <1>1, <1>3, <1>5, <1>6, <1>11 DEF HandlerInPlace
<1> QED BY <1>7, <1>8, <1>9, <1>12, <1>13, <1>14, <1>15

\* A call returns what its handler left for it.
LEMMA ReturnPreserves ==
  ASSUME ComIInv, NEW c \in Calls, Return(c)
  PROVE  ComIInv'
<1> USE DEF ComIInv
<1>1. /\ phase[c] = "waiting" /\ done[c]
      /\ phase' = [phase EXCEPT ![c] = "returned"]
      /\ result' = [result EXCEPT ![c] = got[c]]
      /\ UNCHANGED <<netVars, callVars, done, got, slot, requests, dispVars, shared>>
  BY DEF Return
<1>2. got[c] \in Results /\ got[c].code # "none"
  BY <1>1 DEF TypeOK, DoneHasData
<1>3. /\ phase'[c] = "returned" /\ result'[c] = got[c]
      /\ \A d \in Calls : d # c => phase'[d] = phase[d] /\ result'[d] = result[d]
  BY <1>1 DEF TypeOK
<1>4. AllEntries' = AllEntries
  BY <1>1, EntriesSame DEF dispVars
<1>5. c <= issued
  BY <1>1 DEF CallsInOrder, TypeOK, Calls
<1>6. TypeOK'
  BY <1>1, <1>2, <1>3 DEF TypeOK, netVars, callVars, dispVars
<1>7. CallsInOrder'
  BY <1>1, <1>3, <1>4, <1>5 DEF CallsInOrder, callVars
<1>8. KindFollows' /\ DoneHasData'
  BY <1>1, <1>3 DEF KindFollows, DoneHasData, callVars, dispVars
<1>9. \A d \in Calls : Live(d)' => Live(d)
  BY <1>3 DEF Live
<1>10. CompanyIsShared'
  BY <1>1, <1>4, <1>9 DEF CompanyIsShared, callVars
<1>11. HandlersMeetOwn'
  BY <1>1, <1>3, <1>4 DEF HandlersMeetOwn, callVars
<1>12. OwnAnswer'
  BY <1>1, <1>3 DEF OwnAnswer, HandlersMeetOwn, callVars
<1>13. HandlerInPlace'
  BY <1>1, <1>3, <1>4 DEF HandlerInPlace, callVars
<1> QED BY <1>6, <1>7, <1>8, <1>10, <1>11, <1>12, <1>13

\* An answer arrives and is queued with the handler of its method, or dropped.
LEMMA RespondPreserves ==
  ASSUME ComIInv, NEW answer \in Answers, Respond(answer)
  PROVE  ComIInv'
<1> USE DEF ComIInv
<1> DEFINE h == HandlerOf(answer)
           e == [handler |-> h, answer |-> answer]
           d == answer.call
<1>1. /\ d \in requests /\ requests' = requests \ {d}
      /\ queue' = IF h = None THEN queue ELSE Append(queue, e)
      /\ UNCHANGED <<netVars, callVars, phase, done, got, result, slot, active, step, shared>>
  BY DEF Respond
<1>2. d \in Calls /\ d <= issued /\ method[d] \in Methods /\ h = slot[method[d]]
  BY <1>1, NamesCalls DEF CallsInOrder, HandlerOf
<1>3. h # None => /\ h \in Calls /\ h <= issued /\ method[h] = method[d] /\ e \in Entries
                  /\ e.handler = h /\ e.answer = answer
                  /\ h \notin shared => d = h
  <2> SUFFICES ASSUME h # None PROVE /\ h \in Calls /\ h <= issued /\ method[h] = method[d] /\ e \in Entries
                                     /\ e.handler = h /\ e.answer = answer
                                     /\ h \notin shared => d = h
    OBVIOUS
  <2>1. h \in Calls /\ h <= issued /\ method[h] = method[d]
    BY <1>2, NamesCalls DEF CallsInOrder
  <2>2. h \notin shared => d = h
    BY <1>1, <1>2 DEF HandlersMeetOwn
  <2> HIDE DEF h, d
  <2>3. e \in Entries /\ e.handler = h /\ e.answer = answer
    BY <2>1 DEF Entries
  <2> QED BY <2>1, <2>2, <2>3
<1> HIDE DEF h, e
<1>4. queue' \in Seq(Entries) /\ AllEntries' = IF h = None THEN AllEntries ELSE AllEntries \cup {e}
  <2>1. CASE h = None
    BY <2>1, <1>1, EntriesSame DEF TypeOK
  <2>2. CASE h # None
    <3>1. queue \in Seq(Entries) /\ e \in Entries /\ queue' = Append(queue, e) /\ UNCHANGED active
      BY <2>2, <1>1, <1>3 DEF TypeOK
    <3>2. queue' \in Seq(Entries)
      BY <3>1
    <3> QED BY <3>1, <3>2, <2>2, EntriesAppend
  <2> QED BY <2>1, <2>2
<1>5. TypeOK'
  BY <1>1, <1>4 DEF TypeOK, netVars, callVars
<1>6. CallsInOrder'
  <2>1. \A f \in AllEntries' :
          /\ f.handler <= issued /\ f.answer.call <= issued
          /\ method[f.handler] \in Methods /\ method[f.answer.call] = method[f.handler]
    BY <1>2, <1>3, <1>4 DEF CallsInOrder
  <2> QED BY <1>1, <2>1 DEF CallsInOrder, callVars
<1>7. KindFollows' /\ DoneHasData'
  BY <1>1 DEF KindFollows, DoneHasData, callVars
<1>8. \A a \in Calls : Live(a)' = Live(a)
  BY <1>1 DEF Live
<1>9. CompanyIsShared'
  <2> SUFFICES ASSUME NEW a \in Calls, Live(a)', a \notin shared'
               PROVE  /\ \A b \in Calls : (Live(b)' /\ method'[b] = method'[a]) => b = a
                      /\ slot'[method'[a]] \in {None, a}
                      /\ \A f \in AllEntries' : method'[f.handler] = method'[a] => f.handler = a
    BY DEF CompanyIsShared
  <2>1. Live(a) /\ a \notin shared
    BY <1>1, <1>8
  <2>2. /\ \A b \in Calls : (Live(b) /\ method[b] = method[a]) => b = a
        /\ slot[method[a]] \in {None, a}
        /\ \A f \in AllEntries : method[f.handler] = method[a] => f.handler = a
    BY <2>1 DEF CompanyIsShared
  <2>3. (h # None /\ method[h] = method[a]) => h = a
    BY <2>2, <1>2, <1>3
  <2> QED BY <2>2, <2>3, <1>1, <1>3, <1>4, <1>8 DEF callVars
<1>10. HandlersMeetOwn'
  <2>1. \A f \in AllEntries' : f.handler \notin shared => f.answer.call = f.handler
    BY <1>3, <1>4 DEF HandlersMeetOwn
  <2>2. \A b \in requests' : b \in requests
    BY <1>1
  <2> QED BY <1>1, <2>1, <2>2 DEF HandlersMeetOwn, callVars
<1>11. OwnAnswer'
  BY <1>1 DEF OwnAnswer, callVars
<1>12. HandlerInPlace'
  <2>1. AllEntries \subseteq AllEntries'
    BY <1>4
  <2> QED BY <1>1, <2>1 DEF HandlerInPlace, callVars
<1> QED BY <1>5, <1>6, <1>7, <1>9, <1>10, <1>11, <1>12

\* A handler starts and takes the handler of its method away: a live call of
\* that method other than its own is shared.
LEMMA InvokePreserves ==
  ASSUME ComIInv, Invoke
  PROVE  ComIInv'
<1> USE DEF ComIInv
<1> DEFINE e == Head(queue)
           m == method[e.handler]
<1>1. /\ active = <<>> /\ queue # <<>> /\ active' = <<e>> /\ queue' = Tail(queue)
      /\ step' = "assign" /\ slot' = [slot EXCEPT ![m] = None]
      /\ UNCHANGED <<netVars, callVars, phase, done, got, result, requests, shared>>
  BY DEF Invoke, Unregister
<1>2. e \in Entries /\ e \in AllEntries /\ AllEntries' = AllEntries
  BY <1>1, EntriesInvoke DEF TypeOK
<1>3. e.handler \in Calls /\ m \in Methods
  BY <1>2, EntryFacts DEF CallsInOrder
<1>4. queue' \in Seq(Entries) /\ active' \in Seq(Entries) /\ Len(active') = 1 /\ active' # <<>>
  BY <1>1, <1>2 DEF TypeOK
<1> HIDE DEF e, m
<1>5. slot'[m] = None /\ \A n \in Methods : n # m => slot'[n] = slot[n]
  BY <1>1, <1>3 DEF TypeOK
<1>6. TypeOK'
  BY <1>1, <1>3, <1>4 DEF TypeOK, netVars, callVars
<1>7. CallsInOrder'
  BY <1>1, <1>2, <1>5 DEF CallsInOrder, callVars
<1>8. KindFollows' /\ DoneHasData'
  BY <1>1, <1>4 DEF KindFollows, DoneHasData, callVars
<1>9. \A a \in Calls : (Live(a)' = Live(a)) /\ (Live(a) => method[a] \in Methods)
  BY <1>1 DEF Live, KindFollows
<1>10. CompanyIsShared'
  BY <1>1, <1>2, <1>5, <1>9 DEF CompanyIsShared, callVars
<1>11. HandlersMeetOwn'
  BY <1>1, <1>2, <1>5 DEF HandlersMeetOwn, callVars
<1>12. OwnAnswer'
  BY <1>1 DEF OwnAnswer, callVars
<1>13. HandlerInPlace'
  <2> SUFFICES ASSUME NEW a \in Calls, phase'[a] \in {"registered", "waiting", "pending"},
                      result'[a].code = "none", a \notin shared'
               PROVE  slot'[method'[a]] = a \/ (\E f \in AllEntries' : f.handler = a) \/ done'[a]
    BY DEF HandlerInPlace
  <2>1. Live(a) /\ a \notin shared /\ method'[a] = method[a] /\ method[a] \in Methods
    BY <1>1, <1>9 DEF Live, callVars
  <2>2. CASE method[a] = m
    <3>1. e.handler = a
      BY <2>1, <2>2, <1>2 DEF CompanyIsShared, m
    <3> QED BY <3>1, <1>2
  <2>3. CASE method[a] # m
    BY <2>1, <2>3, <1>1, <1>2, <1>5 DEF HandlerInPlace
  <2> QED BY <2>2, <2>3
<1> QED BY <1>6, <1>7, <1>8, <1>10, <1>11, <1>12, <1>13

\* The handler of a synchronous call leaves the data ...
LEMMA AssignPreserves ==
  ASSUME ComIInv, Assign
  PROVE  ComIInv'
<1> USE DEF ComIInv
<1> DEFINE e == active[1]
           h == e.handler
           new == IF e.answer.type = "error" /\ got[h].code = "value" THEN got[h] ELSE ValueOf(e.answer)
<1>1. /\ active # <<>> /\ step = "assign" /\ step' = "signal"
      /\ got' = [got EXCEPT ![h] = new]
      /\ UNCHANGED <<netVars, callVars, phase, done, result, slot, requests, queue, active, shared>>
  BY DEF Assign
<1>2. e \in AllEntries /\ h \in Calls /\ e.answer \in Answers /\ AllEntries' = AllEntries
  BY <1>1, EntriesActive, EntryFacts, EntriesSame
<1>3. /\ new \in Results /\ new.code # "none"
      /\ new.code = "value" => new = got[h] \/ new.call = e.answer.call
  BY <1>2, ValueOfFacts DEF TypeOK
<1>4. /\ e.answer.call <= issued /\ h <= issued /\ method[e.answer.call] = method[h]
      /\ h \notin shared => e.answer.call = h
  BY <1>2 DEF CallsInOrder, HandlersMeetOwn
<1>5. active'[1].handler = h
  BY <1>1
<1> HIDE DEF e, h, new
<1>6. got'[h] = new /\ \A a \in Calls : a # h => got'[a] = got[a]
  BY <1>1, <1>2 DEF TypeOK
<1>7. TypeOK'
  BY <1>1, <1>2, <1>3 DEF TypeOK, netVars, callVars
<1>8. CallsInOrder'
  <2>1. \A a \in Calls : got'[a].code = "value" => got'[a].call <= issued
    BY <1>2, <1>3, <1>4, <1>6 DEF CallsInOrder
  <2>2. \A a \in Calls : a > issued => got'[a].code = "none"
    <3>1. \A a \in Calls : a > issued => a # h
      BY <1>2, <1>4 DEF Calls, TypeOK
    <3> QED BY <3>1, <1>6 DEF CallsInOrder
  <2> QED BY <2>1, <2>2, <1>1, <1>2 DEF CallsInOrder, callVars
<1>9. KindFollows' /\ DoneHasData'
  BY <1>1, <1>2, <1>3, <1>5, <1>6 DEF KindFollows, DoneHasData, callVars
<1>10. \A a \in Calls : Live(a)' = Live(a)
  BY <1>1 DEF Live
<1>11. CompanyIsShared'
  BY <1>1, <1>2, <1>10 DEF CompanyIsShared, callVars
<1>12. HandlersMeetOwn'
  <2>1. \A a \in Calls : got'[a].code = "value" =>
          method[got'[a].call] = method[a] /\ (a \notin shared => got'[a].call = a)
    BY <1>2, <1>3, <1>4, <1>6 DEF HandlersMeetOwn
  <2> QED BY <2>1, <1>1, <1>2 DEF HandlersMeetOwn, callVars
<1>13. OwnAnswer' /\ HandlerInPlace'
  BY <1>1, <1>2 DEF OwnAnswer, HandlerInPlace, callVars
<1> QED BY <1>7, <1>8, <1>9, <1>11, <1>12, <1>13

\* ... and then says that it is there.
LEMMA SignalDonePreserves ==
  ASSUME ComIInv, SignalDone
  PROVE  ComIInv'
<1> USE DEF ComIInv
<1> DEFINE h == active[1].handler
<1>1. /\ active # <<>> /\ step = "signal" /\ step' = "idle" /\ active' = <<>>
      /\ done' = [done EXCEPT ![h] = TRUE]
      /\ UNCHANGED <<netVars, callVars, phase, got, result, slot, requests, queue, shared>>
  BY DEF SignalDone
<1>2. active[1] \in AllEntries /\ h \in Calls /\ AllEntries = AllEntries' \cup {active[1]}
  BY <1>1, EntriesActive, EntryFacts
<1>3. got[h].code # "none"
  BY <1>1 DEF DoneHasData
<1>4. \A f \in AllEntries : f \in AllEntries' \/ f.handler = h
  BY <1>2
<1>5. AllEntries' \subseteq AllEntries
  BY <1>2
<1> HIDE DEF h
<1>6. done'[h] /\ \A a \in Calls : a # h => done'[a] = done[a]
  BY <1>1, <1>2 DEF TypeOK
<1>7. TypeOK'
  BY <1>1, <1>2 DEF TypeOK, netVars, callVars
<1>8. CallsInOrder'
  BY <1>1, <1>5 DEF CallsInOrder, callVars
<1>9. KindFollows' /\ DoneHasData'
  BY <1>1, <1>3, <1>6 DEF KindFollows, DoneHasData, callVars
<1>10. \A a \in Calls : Live(a)' = Live(a)
  BY <1>1 DEF Live
<1>11. CompanyIsShared'
  BY <1>1, <1>5, <1>10 DEF CompanyIsShared, callVars
<1>12. HandlersMeetOwn'
  BY <1>1, <1>5 DEF HandlersMeetOwn, callVars
<1>13. OwnAnswer'
  BY <1>1 DEF OwnAnswer, callVars
<1>14. HandlerInPlace'
  BY <1>1, <1>4, <1>6 DEF HandlerInPlace, callVars
<1> QED BY <1>7, <1>8, <1>9, <1>11, <1>12, <1>13, <1>14

\* The promise of an asynchronous call is settled once.
LEMMA SettlePreserves ==
  ASSUME ComIInv, Settle
  PROVE  ComIInv'
<1> USE DEF ComIInv
<1> DEFINE e == active[1]
           h == e.handler
           new == IF result[h].code = "none" THEN ValueOf(e.answer) ELSE result[h]
<1>1. /\ active # <<>> /\ step = "assign" /\ step' = "idle" /\ active' = <<>> /\ kind[h] = "async"
      /\ result' = [result EXCEPT ![h] = new]
      /\ UNCHANGED <<netVars, callVars, phase, done, got, slot, requests, queue, shared>>
  BY DEF Settle
<1>2. e \in AllEntries /\ h \in Calls /\ e.answer \in Answers /\ AllEntries = AllEntries' \cup {e}
  BY <1>1, EntriesActive, EntryFacts
<1>3. /\ new \in Results /\ new.code # "none"
      /\ new.code = "value" => new = result[h] \/ new.call = e.answer.call
  BY <1>2, ValueOfFacts DEF TypeOK
<1>4. /\ e.answer.call <= issued /\ h <= issued /\ method[e.answer.call] = method[h]
      /\ h \notin shared => e.answer.call = h
  BY <1>2 DEF CallsInOrder, HandlersMeetOwn
<1>5. \A f \in AllEntries : f \in AllEntries' \/ f.handler = h
  BY <1>2
<1>6. AllEntries' \subseteq AllEntries
  BY <1>2
<1> HIDE DEF e, h, new
<1>7. result'[h] = new /\ \A a \in Calls : a # h => result'[a] = result[a]
  BY <1>1, <1>2 DEF TypeOK
<1>8. TypeOK'
  <2>1. \A a \in Calls : phase'[a] = "returned" => result'[a].code # "none"
    BY <1>1, <1>3, <1>7 DEF TypeOK
  <2> QED BY <2>1, <1>1, <1>2, <1>3 DEF TypeOK, netVars, callVars
<1>9. CallsInOrder'
  <2>1. \A a \in Calls : result'[a].code = "value" => result'[a].call <= issued
    BY <1>2, <1>3, <1>4, <1>7 DEF CallsInOrder
  <2>2. \A a \in Calls : a > issued => result'[a].code = "none"
    <3>1. \A a \in Calls : a > issued => a # h
      BY <1>2, <1>4 DEF Calls, TypeOK
    <3> QED BY <3>1, <1>7 DEF CallsInOrder
  <2> QED BY <2>1, <2>2, <1>1, <1>6 DEF CallsInOrder, callVars
<1>10. KindFollows' /\ DoneHasData'
  <2>1. "async" # "sync"
    OBVIOUS
  <2>2. KindFollows'
    BY <2>1, <1>1, <1>2, <1>7 DEF KindFollows, callVars
  <2> QED BY <2>2, <1>1 DEF DoneHasData, callVars
<1>11. \A a \in Calls : Live(a)' => Live(a)
  BY <1>1, <1>3, <1>7 DEF Live
<1>12. CompanyIsShared'
  BY <1>1, <1>6, <1>11 DEF CompanyIsShared, callVars
<1>13. HandlersMeetOwn'
  BY <1>1, <1>6 DEF HandlersMeetOwn, callVars
<1>14. OwnAnswer'
  BY <1>1, <1>2, <1>3, <1>4, <1>7 DEF OwnAnswer, callVars
<1>15. HandlerInPlace'
  BY <1>1, <1>3, <1>5, <1>7 DEF HandlerInPlace, callVars
<1> QED BY <1>8, <1>9, <1>10, <1>12, <1>13, <1>14, <1>15

\* Every step of the callers, the network, the service and the dispatcher.
LEMMA StepPreserves == ComIInv /\ [Next]_vars => ComIInv'
<1> SUFFICES ASSUME ComIInv, [Next]_vars PROVE ComIInv'
  OBVIOUS
<1>1. CASE Offer \/ ServiceGoes \/ AvailabilityChanges
  BY <1>1, ServicePreserves
<1>2. CASE RequestRefused
  BY <1>2, RefusedPreserves
<1>3. ASSUME NEW answer \in Answers, Respond(answer) PROVE ComIInv'
  BY <1>3, RespondPreserves
<1>4. ASSUME NEW m \in Methods, NEW k \in {"sync", "async"}, Register(m, k) PROVE ComIInv'
  BY <1>4, RegisterPreserves
<1>5. ASSUME NEW c \in Calls, Caller(c) PROVE ComIInv'
  BY <1>5, SendPreserves, TimeOutPreserves, ReturnPreserves DEF Caller
<1>6. CASE Dispatcher
  BY <1>6, InvokePreserves, AssignPreserves, SignalDonePreserves, SettlePreserves DEF Dispatcher
<1>7. CASE UNCHANGED vars
  <2> USE <1>7 DEF vars, netVars, callVars, dispVars
  <2>1. AllEntries' = AllEntries
    BY EntriesSame
  <2>2. TypeOK'
    BY DEF ComIInv, TypeOK
  <2>3. CallsInOrder' /\ KindFollows' /\ DoneHasData'
    BY <2>1 DEF ComIInv, CallsInOrder, KindFollows, DoneHasData
  <2>4. CompanyIsShared' /\ HandlersMeetOwn'
    BY <2>1 DEF ComIInv, CompanyIsShared, HandlersMeetOwn, Live
  <2>5. OwnAnswer' /\ HandlerInPlace'
    BY <2>1 DEF ComIInv, OwnAnswer, HandlerInPlace
  <2> QED BY <2>2, <2>3, <2>4, <2>5 DEF ComIInv
<1> QED BY <1>1, <1>2, <1>3, <1>4, <1>5, <1>6, <1>7 DEF Next

\* The inductive invariant holds in every behaviour.
LEMMA ComIInvAlways == Spec => []ComIInv
BY InitEstablishes, StepPreserves, PTL DEF Spec

\* The state of SendRequest and SendRequestAsync keeps its types, and a call
\* that has returned says how it ended.
THEOREM ComTypeCorrect == Spec => []TypeOK
<1>1. ComIInv => TypeOK
  BY DEF ComIInv
<1> QED BY <1>1, ComIInvAlways, PTL

\* With one handler slot per method and responses that name no request, a call
\* gets an answer of its own method, and its own answer unless calls of that
\* method overlap.
THEOREM AnswerAlwaysOwn == Spec => []OwnAnswer
<1>1. ComIInv => OwnAnswer
  BY DEF ComIInv
<1> QED BY <1>1, ComIInvAlways, PTL

\* Nobody unregisters the handler of a call that has its method to itself.
THEOREM HandlerAlwaysInPlace == Spec => []HandlerInPlace
<1>1. ComIInv => HandlerInPlace
  BY DEF ComIInv
<1> QED BY <1>1, ComIInvAlways, PTL
=============================================================================
