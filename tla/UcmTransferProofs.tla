------------------------- MODULE UcmTransferProofs --------------------------
(***************************************************************************)
(* For every set of clients, every package size and disk, and any number   *)
(* of lost answers and restarts: the persisted state of an open transfer   *)
(* is never stale, and the image an update installs from is not rewritten  *)
(* under it unless a transfer was resumed from disk.                       *)
(***************************************************************************)
EXTENDS UcmTransfer, TLAPS

\* An answer that arrives leaves a well-formed client.
LEMMA AnswerArrives ==
  ASSUME UcmIInv, NEW c \in Clients, NEW next \in ClientStates, HoldsId(next),
         Answer(c, next)
  PROVE  client' \in [Clients -> ClientStates] /\ \A d \in Clients : HoldsId(client'[d])
<1>1. client \in [Clients -> ClientStates] /\ \A d \in Clients : HoldsId(client[d])
  BY DEF UcmIInv, IdsGiven
<1> QED BY <1>1 DEF Answer

\* So does the state a client is in after it gave up.
LEMMA FailedTyped ==
  ASSUME NEW e \in Errors
  PROVE  Failed(e) \in ClientStates /\ HoldsId(Failed(e))
BY DEF Failed, ClientStates, HoldsId, Idle

\* Whatever a client is answered, or not, it keeps a well-formed state.
LEMMA AnswerTyped ==
  ASSUME UcmIInv, NEW c \in Clients, NEW next \in ClientStates, HoldsId(next),
         Answer(c, next) \/ NoAnswer(c)
  PROVE  client' \in [Clients -> ClientStates] /\ \A d \in Clients : HoldsId(client'[d])
<1>1. client \in [Clients -> ClientStates] /\ \A d \in Clients : HoldsId(client[d])
  BY DEF UcmIInv, IdsGiven
<1>2. "kOperationNotPermitted" \in Errors
  BY DEF Errors
<1>3. Answer(c, next) \/ Answer(c, Failed("kOperationNotPermitted")) \/ client' = client
  BY DEF NoAnswer
<1>4. CASE client' = client
  BY <1>1, <1>4
<1> QED BY <1>2, <1>3, <1>4, AnswerArrives, FailedTyped

\* An error answer leaves a well-formed client.
LEMMA FailTyped ==
  ASSUME UcmIInv, NEW c \in Clients, NEW e \in Errors, Fail(c, e)
  PROVE  client' \in [Clients -> ClientStates] /\ \A d \in Clients : HoldsId(client'[d])
<1>1. Answer(c, Failed(e)) \/ NoAnswer(c)
  BY DEF Fail
<1> QED BY <1>1, AnswerTyped, FailedTyped

\* A client that moves on with its transfer keeps its id.
LEMMA MoveTyped ==
  ASSUME NEW r \in ClientStates, r.id \in Ids, NEW k \in Nat,
         NEW st \in {"data", "exit"}
  PROVE  /\ [r EXCEPT !.next = k, !.step = st] \in ClientStates
         /\ HoldsId([r EXCEPT !.next = k, !.step = st])
<1>1. [r EXCEPT !.next = k] \in ClientStates /\ [r EXCEPT !.next = k].id = r.id
  BY DEF ClientStates
<1> QED BY <1>1 DEF ClientStates, HoldsId

\* The errors of the three checks are UcmErrc values, and passing the last
\* one means that the session is open.
LEMMA ErrorCodes ==
  ASSUME NEW id
  PROVE  /\ \A n : BlockError(id, n) \in {"kSuccess", "kIncorrectBlock", "kIncorrectSize"}
         /\ ExitError(id) \in Errors \cup {"kSuccess"}
         /\ PackageError(id) \in Errors \cup {"kSuccess"}
         /\ PackageError(id) = "kSuccess" => sessions[id] # None
<1>1. \A n : BlockError(id, n) \in {"kSuccess", "kIncorrectBlock", "kIncorrectSize"}
  BY DEF BlockError
<1>2. ExitError(id) \in Errors \cup {"kSuccess"}
  BY DEF ExitError, Errors
<1>3. PackageError(id) \in Errors \cup {"kSuccess"}
  BY DEF PackageError, Errors
<1>4. PackageError(id) = "kSuccess" => sessions[id] # None
  BY DEF PackageError
<1> QED BY <1>1, <1>2, <1>3, <1>4

\* The first id lies below any bound on the ids given out.
LEMMA OneIsFirst ==
  ASSUME NEW s \in Nat, NEW n \in Nat, n = 1
  PROVE  n \in 1..(s + 1)
OBVIOUS

\* A restart empties sessions_ and leaves nothing to overwrite.
LEMMA RestartKeeps ==
  ASSUME UcmIInv, Restart, starts' \in 0..MaxStarts,
         DOMAIN meta' = Ids, DOMAIN img' = Ids
  PROVE  UcmIInv'
<1>1. IdsGiven'
  <2>1. nextId' = 1 /\ client' = client /\ starts \in Nat /\ MaxStarts \in Nat
    BY UcmAssumption DEF UcmIInv, IdsGiven, Restart
  <2>2. client' \in [Clients -> ClientStates] /\ \A c \in Clients : HoldsId(client'[c])
    BY <2>1 DEF UcmIInv, IdsGiven
  <2>3. starts' \in Nat /\ nextId' \in Nat /\ nextId' = 1
    BY <2>1
  <2>4. nextId' \in 1..(starts' + 1)
    BY <2>3, OneIsFirst
  <2> QED BY <2>2, <2>4 DEF IdsGiven
<1>2. Tables'
  BY DEF UcmIInv, Tables, Restart
<1>3. DiskFollowsMemory' /\ ImageOwned'
  BY DEF Restart, DiskFollowsMemory, ImageOwned
<1> QED BY <1>1, <1>2, <1>3 DEF UcmIInv

\* The four parts are preserved by every step.
LEMMA StepKeeps ==
  ASSUME UcmIInv, [Next]_vars
  PROVE  UcmIInv'
<1> USE UcmAssumption
<1>0. CASE UNCHANGED vars
  BY <1>0 DEF vars, UcmIInv, IdsGiven, Tables, DiskFollowsMemory, ImageOwned
<1>1. CASE RestartIdle
  <2>1. starts' \in 0..MaxStarts /\ DOMAIN meta' = Ids /\ DOMAIN img' = Ids
    BY <1>1 DEF RestartIdle, UcmIInv, IdsGiven, Tables
  <2> QED BY <1>1, <2>1, RestartKeeps DEF RestartIdle
<1>2. CASE OtaSettles
  BY <1>2 DEF OtaSettles, UcmIInv, IdsGiven, Tables, DiskFollowsMemory, ImageOwned
<1>3. ASSUME NEW c \in Clients, TransferStart(c) PROVE UcmIInv'
  <2>1. starts' \in 0..MaxStarts /\ starts' = starts + 1 /\ nextId \in Ids
    BY <1>3 DEF TransferStart, UcmIInv, IdsGiven, Ids
  <2>2. CASE /\ Fail(c, "kInsufficientMemory")
             /\ UNCHANGED <<sessions, nextId, meta, img, ota, resumed>>
    <3>1. IdsGiven'
      BY <2>1, <2>2, FailTyped DEF UcmIInv, IdsGiven, Errors
    <3> QED BY <2>2, <3>1 DEF UcmIInv, Tables, DiskFollowsMemory, ImageOwned
  <2>3. CASE /\ Fail(c, "kInsufficientMemory") /\ TakeId
             /\ UNCHANGED <<sessions, meta, img, ota, resumed>>
    <3>1. IdsGiven'
      BY <2>1, <2>3, FailTyped DEF UcmIInv, IdsGiven, Errors, TakeId
    <3> QED BY <2>1, <2>3, <3>1 DEF UcmIInv, IdsGiven, Tables, DiskFollowsMemory, ImageOwned, TakeId, Ids
  <2>4. CASE /\ TakeId
             /\ sessions' = [sessions EXCEPT ![nextId] = Session(Size[c], 0)]
             /\ SaveSession(nextId, Session(Size[c], 0))
             /\ Answer(c, [Idle EXCEPT !.step = "data", !.id = nextId]) \/ NoAnswer(c)
             /\ UNCHANGED <<img, ota, resumed>>
    <3> DEFINE next == [Idle EXCEPT !.step = "data", !.id = nextId]
    <3>1. next \in ClientStates /\ HoldsId(next)
      BY <2>1 DEF ClientStates, HoldsId, Idle
    <3>2. Answer(c, next) \/ NoAnswer(c)
      BY <2>4
    <3> HIDE DEF next
    <3>3. IdsGiven'
      BY <2>1, <2>4, <3>1, <3>2, AnswerTyped DEF UcmIInv, IdsGiven, TakeId
    <3>4. Tables' /\ DiskFollowsMemory'
      BY <2>1, <2>4 DEF UcmIInv, Tables, DiskFollowsMemory, SaveSession
    <3>5. ImageOwned'
      BY <2>1, <2>4 DEF UcmIInv, IdsGiven, Tables, ImageOwned, TakeId, Ids
    <3> QED BY <3>3, <3>4, <3>5 DEF UcmIInv
  <2> QED BY <1>3, <2>2, <2>3, <2>4 DEF TransferStart
<1>4. ASSUME NEW c \in Clients, TransferStartStopped(c) PROVE UcmIInv'
  <2>1. Restart /\ starts' \in 0..MaxStarts /\ DOMAIN meta' = Ids /\ DOMAIN img' = Ids
    BY <1>4 DEF TransferStartStopped, UcmIInv, IdsGiven, Tables
  <2> QED BY <2>1, RestartKeeps
<1>5. ASSUME NEW c \in Clients, TransferData(c) PROVE UcmIInv'
  <2> DEFINE id == client[c].id
             n == client[c].next
  <2>1. /\ id \in Ids /\ n \in Nat /\ client[c] \in ClientStates
        /\ UNCHANGED <<nextId, img, ota, starts>>
    BY <1>5 DEF TransferData, UcmIInv, IdsGiven, HoldsId, At, ClientStates
  <2>2. CASE Fail(c, "kInvalidTransferId") /\ UNCHANGED <<sessions, meta, resumed>>
    <3>1. IdsGiven'
      BY <2>1, <2>2, FailTyped DEF UcmIInv, IdsGiven, Errors
    <3> QED BY <2>1, <2>2, <3>1 DEF UcmIInv, Tables, DiskFollowsMemory, ImageOwned
  <2>3. CASE /\ \E e \in Errors : Fail(c, e)
             /\ LoadSession(id) /\ UNCHANGED meta
    <3>1. IdsGiven'
      BY <2>1, <2>3, FailTyped DEF UcmIInv, IdsGiven
    <3>2. Tables' /\ DiskFollowsMemory'
      BY <2>1, <2>3 DEF UcmIInv, Tables, DiskFollowsMemory, LoadSession, Found
    <3>3. ImageOwned'
      BY <2>1, <2>3 DEF UcmIInv, Tables, ImageOwned, LoadSession, Found, Resume
    <3> QED BY <3>1, <3>2, <3>3 DEF UcmIInv
  <2>4. CASE /\ sessions' = [sessions EXCEPT ![id] = Advanced(id)]
             /\ Resume(id)
             /\ SaveSession(id, Advanced(id))
             /\ Answer(c, AfterBlock(c, n)) \/ NoAnswer(c)
    <3>1. AfterBlock(c, n) \in ClientStates /\ HoldsId(AfterBlock(c, n))
      <4>1. PICK st \in {"exit", "data"} :
              AfterBlock(c, n) = [client[c] EXCEPT !.next = n + 1, !.step = st]
        BY DEF AfterBlock
      <4>2. n + 1 \in Nat
        BY <2>1
      <4>3. client[c] \in ClientStates /\ client[c].id \in Ids
        BY <2>1
      <4> HIDE DEF n, id
      <4> DEFINE k == n + 1
      <4>4. k \in Nat /\ AfterBlock(c, n) = [client[c] EXCEPT !.next = k, !.step = st]
        BY <4>1, <4>2
      <4> HIDE DEF k
      <4>5. st \in {"data", "exit"}
        BY <4>1
      <4>6. /\ [client[c] EXCEPT !.next = k, !.step = st] \in ClientStates
            /\ HoldsId([client[c] EXCEPT !.next = k, !.step = st])
        BY ONLY <4>3, <4>4, <4>5, MoveTyped, Zenon
      <4> QED BY <4>4, <4>6, Zenon
    <3>2. IdsGiven'
      BY <2>1, <2>4, <3>1, AnswerTyped DEF UcmIInv, IdsGiven
    <3>3. Tables' /\ DiskFollowsMemory'
      BY <2>1, <2>4 DEF UcmIInv, Tables, DiskFollowsMemory, SaveSession
    <3>4. ImageOwned'
      BY <2>1, <2>4 DEF UcmIInv, Tables, ImageOwned, Resume
    <3> QED BY <3>2, <3>3, <3>4 DEF UcmIInv
  <2>5. BlockError(id, n) # "kSuccess" => BlockError(id, n) \in Errors
    BY ErrorCodes DEF Errors
  <2>6. "kInsufficientMemory" \in Errors
    BY DEF Errors
  <2> QED BY <1>5, <2>2, <2>3, <2>4, <2>5, <2>6 DEF TransferData
<1>6. ASSUME NEW c \in Clients, TransferDataStopped(c) PROVE UcmIInv'
  <2>1. Restart /\ starts' \in 0..MaxStarts /\ DOMAIN meta' = Ids /\ DOMAIN img' = Ids
    BY <1>6 DEF TransferDataStopped, UcmIInv, IdsGiven, Tables
  <2> QED BY <2>1, RestartKeeps
<1>7. ASSUME NEW c \in Clients, TransferExit(c) PROVE UcmIInv'
  <2>1. UNCHANGED <<sessions, nextId, meta, img, ota, starts, resumed>>
    BY <1>7 DEF TransferExit
  <2>2. IdsGiven'
    <3> DEFINE next == [client[c] EXCEPT !.step = "process"]
    <3>1. next \in ClientStates /\ HoldsId(next)
      BY <1>7 DEF TransferExit, At, UcmIInv, IdsGiven, ClientStates, HoldsId
    <3>2. Answer(c, next) \/ \E e \in Errors : Fail(c, e)
      BY <1>7, ErrorCodes DEF TransferExit
    <3> HIDE DEF next
    <3>3. client' \in [Clients -> ClientStates] /\ \A d \in Clients : HoldsId(client'[d])
      BY <3>1, <3>2, AnswerTyped, FailTyped
    <3> QED BY <2>1, <3>3 DEF UcmIInv, IdsGiven
  <2> QED BY <2>1, <2>2 DEF UcmIInv, Tables, DiskFollowsMemory, ImageOwned
<1>8. ASSUME NEW c \in Clients, DeleteTransfer(c) PROVE UcmIInv'
  <2> DEFINE id == client[c].id
  <2>1. id \in Ids /\ UNCHANGED <<nextId, img, ota, starts, resumed>>
    BY <1>8 DEF DeleteTransfer, UcmIInv, IdsGiven, HoldsId
  <2>2. IdsGiven'
    <3>1. Idle \in ClientStates /\ HoldsId(Idle)
      BY DEF Idle, ClientStates, HoldsId
    <3>2. Answer(c, Idle) \/ NoAnswer(c) \/ Fail(c, "kInvalidTransferId")
      BY <1>8 DEF DeleteTransfer
    <3>3. "kInvalidTransferId" \in Errors
      BY DEF Errors
    <3>4. client' \in [Clients -> ClientStates] /\ \A d \in Clients : HoldsId(client'[d])
      BY <3>1, <3>2, <3>3, AnswerTyped, FailTyped
    <3> QED BY <2>1, <3>4 DEF UcmIInv, IdsGiven
  <2>3. \/ UNCHANGED <<sessions, meta>>
        \/ /\ sessions' = [sessions EXCEPT ![id] = None]
           /\ meta' = [meta EXCEPT ![id] = None]
    BY <1>8 DEF DeleteTransfer, RemoveSessionFiles
  <2>4. Tables' /\ DiskFollowsMemory'
    BY <2>1, <2>3 DEF UcmIInv, Tables, DiskFollowsMemory
  <2>5. ImageOwned'
    BY <2>1, <2>3 DEF UcmIInv, Tables, ImageOwned
  <2> QED BY <2>2, <2>4, <2>5 DEF UcmIInv
<1>9. ASSUME NEW c \in Clients, DeleteTransferStopped(c) PROVE UcmIInv'
  <2>1. Restart /\ starts' \in 0..MaxStarts /\ DOMAIN meta' = Ids /\ DOMAIN img' = Ids
    BY <1>9 DEF DeleteTransferStopped, UcmIInv, IdsGiven, Tables
  <2> QED BY <2>1, RestartKeeps
<1>10. ASSUME NEW c \in Clients, ProcessSwPackage(c) PROVE UcmIInv'
  <2> DEFINE id == client[c].id
             next == [client[c] EXCEPT !.step = "done"]
  <2>1. id \in Ids /\ client[c] \in ClientStates /\ UNCHANGED <<nextId, starts, resumed>>
    BY <1>10 DEF ProcessSwPackage, UcmIInv, IdsGiven, HoldsId, At
  <2>2. PackageError(id) = "kSuccess" => sessions[id] # None
    BY ErrorCodes
  <2>3. IdsGiven'
    <3>1. next \in ClientStates /\ HoldsId(next)
      BY <2>1 DEF ClientStates, HoldsId
    <3>2. "kInsufficientMemory" \in Errors /\ "kServiceBusy" \in Errors
      BY DEF Errors
    <3>3. PackageError(id) # "kSuccess" => PackageError(id) \in Errors
      BY ErrorCodes
    <3>4. Answer(c, next) \/ NoAnswer(c) \/ \E e \in Errors : Fail(c, e)
      BY <1>10, <3>2, <3>3 DEF ProcessSwPackage
    <3> HIDE DEF next
    <3>5. client' \in [Clients -> ClientStates] /\ \A d \in Clients : HoldsId(client'[d])
      BY <3>1, <3>4, AnswerTyped, FailTyped
    <3> QED BY <2>1, <3>5 DEF UcmIInv, IdsGiven
  <2>4. \/ UNCHANGED <<sessions, meta, img, ota>>
        \/ /\ sessions[id] # None
           /\ \E image : img' = [img EXCEPT ![id] = image]
           /\ UNCHANGED <<sessions, meta, ota>>
        \/ /\ sessions[id] # None
           /\ \E image :
                /\ img' = [img EXCEPT ![id] = image]
                /\ ota' = [id |-> id, image |-> image, version |-> Manifest(zip[id])]
           /\ sessions' = [sessions EXCEPT ![id] = None]
           /\ meta' = [meta EXCEPT ![id] = None]
    BY <1>10, <2>2 DEF ProcessSwPackage, RemoveSessionFiles
  <2>5. Tables' /\ DiskFollowsMemory'
    BY <2>1, <2>4 DEF UcmIInv, Tables, DiskFollowsMemory
  <2>6. ImageOwned'
    BY <2>1, <2>4 DEF UcmIInv, Tables, ImageOwned
  <2> QED BY <2>3, <2>5, <2>6 DEF UcmIInv
<1>11. ASSUME NEW c \in Clients, ProcessStopped(c) PROVE UcmIInv'
  <2>1. Restart /\ starts' \in 0..MaxStarts /\ DOMAIN meta' = Ids /\ DOMAIN img' = Ids
    BY <1>11 DEF ProcessStopped, UcmIInv, IdsGiven, Tables
  <2> QED BY <2>1, RestartKeeps
<1>12. ASSUME NEW c \in Clients, RunAgain(c) PROVE UcmIInv'
  <2>1. Idle \in ClientStates /\ HoldsId(Idle) /\ Answer(c, Idle)
    BY <1>12 DEF Idle, ClientStates, HoldsId, RunAgain, Answer
  <2>2. UNCHANGED <<sessions, nextId, meta, img, ota, starts, resumed>>
    BY <1>12 DEF RunAgain
  <2>3. IdsGiven'
    BY <2>1, <2>2, AnswerTyped DEF UcmIInv, IdsGiven
  <2> QED BY <2>2, <2>3 DEF UcmIInv, Tables, DiskFollowsMemory, ImageOwned
<1> QED
  BY <1>0, <1>1, <1>2, <1>3, <1>4, <1>5, <1>6, <1>7, <1>8, <1>9, <1>10, <1>11, <1>12
  DEF Next, Service

\* The inductive invariant holds in every behaviour of the service.
LEMMA UcmInvariant == Spec => []UcmIInv
<1>1. Init => UcmIInv
  <2> SUFFICES ASSUME Init PROVE UcmIInv
    OBVIOUS
  <2>1. IdsGiven
    BY UcmAssumption DEF Init, IdsGiven, Idle, ClientStates, HoldsId
  <2> QED BY <2>1 DEF Init, UcmIInv, Tables, DiskFollowsMemory, ImageOwned
<1>2. UcmIInv /\ [Next]_vars => UcmIInv'
  BY StepKeeps
<1> QED BY <1>1, <1>2, PTL DEF Spec

\* Between two methods the .meta of an open transfer holds what sessions_
\* holds, for any number of clients, lost answers and restarts: SaveSession
\* runs in every method that changes a session, and LoadSession reads it back.
THEOREM MetaNeverStale == Spec => []DiskFollowsMemory
<1>1. UcmIInv => DiskFollowsMemory
  BY DEF UcmIInv
<1> QED BY <1>1, UcmInvariant, PTL

\* As long as no transfer was resumed from disk, no ProcessSwPackage rewrites
\* the .img the OTA manager installs from: every open transfer was given its
\* id by this process, and next_id_ only grows.
THEOREM ImageNeverRewritten == Spec => []ImageKeptUnlessResumed
<1>1. UcmIInv => ImageKeptUnlessResumed
  BY DEF UcmIInv, ImageOwned, ImageKeptUnlessResumed, ImageKept
<1> QED BY <1>1, UcmInvariant, PTL
=============================================================================
