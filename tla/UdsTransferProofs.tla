------------------------- MODULE UdsTransferProofs --------------------------
(***************************************************************************)
(* UdsTransfer for every modulus of the block counter, every set of        *)
(* services and every bound: the application is given a gapless stream, an *)
(* accepted exit is whole, and an upload repeats the right data.           *)
(*                                                                         *)
(* The counter of the server and the length of the stream move together    *)
(* modulo Modulus (CounterFollows), so the arithmetic of the wrap comes    *)
(* first.  Then one lemma per step of a handler: it clears, keeps or       *)
(* advances the transfer.  After a session change has met a handler the    *)
(* invariant says nothing until the next transfer is opened, and then      *)
(* ClosedIsCleared tells whether that one is stale.                        *)
(***************************************************************************)
EXTENDS UdsTransfer, TLAPS

Ops == {"none", "open", "refused", "delete", "transfer", "exit"}

Results == {"none", "positive", "negative", "cancelled", "suppressed"}

Ats == {"none", "opening", "checked", "repeat", "pass", "called", "moved", "exit"}

AnsType ==
  [op : Ops, res : Results, block : Blocks, data : Seq(1 .. MaxBlocks),
   kind : Services \cup {"unknown"}]

AppType == [expected : Blocks, bad : BOOLEAN, stream : Seq(Blocks), late : Nat]

InfoType == [counter : Blocks, previous : Blocks \cup {-1}, record : Seq(1 .. MaxBlocks)]

TesterType == [next : Blocks, acks : Nat, stale : BOOLEAN]

HandlerType ==
  [at : Ats, block : Blocks, kind : Services \cup {"unknown"}, counter : Blocks]

\* A handler that has read the kind of its transfer knows it.
KindKnown ==
  handler.at \in {"opening", "repeat", "pass", "called", "moved"} => handler.kind # "unknown"

-----------------------------------------------------------------------------
(* The wrap of the counter *)

\* A remainder is determined by any representation with a small rest.
LEMMA ModRest ==
  ASSUME NEW q \in Int, NEW s \in 0 .. Modulus - 1
  PROVE  (Modulus * q + s) % Modulus = s
BY TransferAssumption, SMT

\* Counting and wrapping commute.
LEMMA ModSucc ==
  ASSUME NEW n \in Nat
  PROVE  /\ n % Modulus \in Blocks
         /\ ((n % Modulus) + 1) % Modulus = (n + 1) % Modulus
<1> DEFINE q == n \div Modulus
           r == n % Modulus
<1>1. q \in Int /\ r \in 0 .. Modulus - 1 /\ n = Modulus * q + r /\ Modulus \in Nat /\ Modulus > 1
  BY TransferAssumption, SMT
<1> HIDE DEF q, r
<1>2. CASE r = Modulus - 1
  <2>1. n + 1 = Modulus * (q + 1) + 0
    BY <1>1, <1>2, SMT
  <2>2. r + 1 = Modulus * 1 + 0
    BY <1>1, <1>2, SMT
  <2>3. (n + 1) % Modulus = 0 /\ (r + 1) % Modulus = 0
    BY <1>1, <2>1, <2>2, ModRest
  <2> QED
    BY <1>1, <2>3 DEF r, Blocks
<1>3. CASE r # Modulus - 1
  <2>1. r + 1 \in 0 .. Modulus - 1
    BY <1>1, <1>3, SMT
  <2>2. n + 1 = Modulus * q + (r + 1) /\ r + 1 = Modulus * 0 + (r + 1)
    BY <1>1, SMT
  <2>3. (n + 1) % Modulus = r + 1 /\ (r + 1) % Modulus = r + 1
    BY <1>1, <2>1, <2>2, ModRest
  <2> QED
    BY <1>1, <2>3 DEF r, Blocks
<1> QED
  BY <1>2, <1>3

\* Two blocks in a row never have the same number.
LEMMA ModMoves ==
  ASSUME NEW r \in Blocks
  PROVE  /\ (r + 1) % Modulus \in Blocks
         /\ (r + 1) % Modulus # r
         /\ 0 \in Blocks /\ 1 \in Blocks /\ 1 % Modulus = 1
<1>1. Modulus \in Nat /\ Modulus > 1 /\ r \in 0 .. Modulus - 1
  BY TransferAssumption DEF Blocks
<1>2. 1 % Modulus = 1
  BY <1>1, SMT
<1>3. CASE r = Modulus - 1
  BY <1>1, <1>2, <1>3, SMT DEF Blocks
<1>4. CASE r # Modulus - 1
  BY <1>1, <1>2, <1>4, SMT DEF Blocks
<1> QED
  BY <1>3, <1>4

-----------------------------------------------------------------------------
(* Types *)

\* TypeOK by its parts.
LEMMA TypeParts ==
  TypeOK <=> /\ type \in Services \cup {"unknown"}
             /\ state \in {"idle", "request", "transfer", "exit"}
             /\ info \in InfoType
             /\ app \in AppType /\ Len(app.stream) <= MaxBlocks
             /\ tester \in TesterType
             /\ ans \in AnsType
             /\ handler \in HandlerType /\ KindKnown
             /\ change \in [clearing : BOOLEAN, met : BOOLEAN]
BY Zenon DEF TypeOK, InfoType, AppType, TesterType, AnsType, Ops, Results, HandlerType, Ats, KindKnown

\* The same of the next state.
LEMMA TypePartsNext ==
  TypeOK' <=> /\ type' \in Services \cup {"unknown"}
              /\ state' \in {"idle", "request", "transfer", "exit"}
              /\ info' \in InfoType
              /\ app' \in AppType /\ Len(app'.stream) <= MaxBlocks
              /\ tester' \in TesterType
              /\ ans' \in AnsType
              /\ handler' \in HandlerType /\ KindKnown'
              /\ change' \in [clearing : BOOLEAN, met : BOOLEAN]
BY Zenon DEF TypeOK, InfoType, AppType, TesterType, AnsType, Ops, Results, HandlerType, Ats, KindKnown

\* The constants, the cleared transfer, and the values of nothing.
LEMMA CommonFacts ==
  /\ Modulus \in Nat /\ Modulus > 1 /\ MaxBlocks \in Nat
  /\ 0 \in Blocks /\ 1 \in Blocks /\ 1 % Modulus = 1
  /\ Cleared \in InfoType /\ Cleared.previous = 0 /\ Cleared.counter = 1
  /\ NoAnswer \in AnsType /\ NoAnswer.op = "none"
  /\ NoHandler \in HandlerType /\ NoHandler.at = "none"
<1>1. 0 \in Blocks
  BY TransferAssumption DEF Blocks
<1>2. 1 \in Blocks /\ 1 % Modulus = 1
  BY <1>1, ModMoves
<1>3. NoAnswer \in AnsType /\ NoAnswer.op = "none"
  BY <1>1 DEF NoAnswer, AnsType, Ops, Results
<1>4. NoHandler \in HandlerType /\ NoHandler.at = "none"
  BY <1>1 DEF NoHandler, HandlerType, Ats
<1>5. Cleared \in InfoType /\ Cleared.previous = 0 /\ Cleared.counter = 1
  BY <1>1, <1>2 DEF Cleared, InfoType
<1> QED
  BY <1>1, <1>2, <1>3, <1>4, <1>5, TransferAssumption

\* A positive answer or a cancellation has its type.
LEMMA AnswerType ==
  ASSUME NEW op \in Ops, NEW cancelled \in BOOLEAN, NEW block \in Blocks,
         NEW data \in Seq(1 .. MaxBlocks), NEW kind \in Services \cup {"unknown"},
         Answer(op, cancelled, block, data, kind)
  PROVE  /\ ans' \in AnsType
         /\ ans'.op = op /\ ans'.block = block /\ ans'.data = data /\ ans'.kind = kind
         /\ ans'.res = "positive" => ~cancelled
BY DEF Answer, AnsType, Results

-----------------------------------------------------------------------------
(* Steps that pass nothing on *)

\* A handler ends, or a request is refused at once: the transfer is kept or
\* cleared, and the application is given nothing.
LEMMA PassiveStep ==
  ASSUME TransferIInv,
         app' \in AppType, app'.stream = app.stream, app'.late = app.late,
         tester' = tester, change' = change,
         UNCHANGED <<type, state, info>> \/ clear,
         ans' \in AnsType,
         handler.at \in {"none", "checked", "repeat", "pass", "exit"},
         handler' \in HandlerType, handler'.at = "none",
         ExitIsWhole', UploadRepeatsData'
  PROVE  TransferIInv'
<1>1. TypeOK'
  <2>1. KindKnown'
    BY DEF KindKnown
  <2> QED
    BY <2>1, TypeParts, TypePartsNext, CommonFacts DEF TransferIInv, clear
<1>2. StreamInOrder' /\ LateIsMet' /\ OpeningIsEmpty' /\ HandlerFollows'
  BY DEF TransferIInv, StreamInOrder, LateIsMet, OpeningIsEmpty, HandlerFollows
<1>3. CASE UNCHANGED <<type, state, info>>
  <2>1. Accounted' = Accounted /\ (Settled' => Settled) /\ Open' = Open
    BY <1>3 DEF Accounted, Settled, Open
  <2>2. CounterFollows' /\ TesterFollows' /\ RecordIsLast'
    BY <1>3, <2>1 DEF TransferIInv, CounterFollows, TesterFollows, RecordIsLast
  <2>3. ClosedIsCleared'
    BY <1>3, <2>1 DEF TransferIInv, ClosedIsCleared
  <2> QED
    BY <1>1, <1>2, <2>2, <2>3 DEF TransferIInv
<1>4. CASE clear
  <2>1. ~Open' /\ ~Settled' /\ info'.previous = 0
    BY <1>4, CommonFacts DEF clear, Open, Settled
  <2> QED
    BY <1>1, <1>2, <2>1
    DEF TransferIInv, CounterFollows, TesterFollows, RecordIsLast, ClosedIsCleared
<1> QED
  BY <1>3, <1>4

\* A negative answer, whatever the request was.
LEMMA NegativeStep ==
  ASSUME TransferIInv,
         NEW op \in Ops, NEW block \in Blocks, NEW kind \in Services \cup {"unknown"},
         RespondNegative(op, block, kind),
         app' \in AppType, app'.stream = app.stream, app'.late = app.late,
         tester' = tester, change' = change,
         handler.at \in {"none", "checked", "repeat", "pass", "exit"},
         handler' \in HandlerType, handler'.at = "none"
  PROVE  TransferIInv'
<1>1. PICK res \in {"negative", "cancelled", "suppressed"} :
        /\ ans' = [NoAnswer EXCEPT !.op = op, !.res = res, !.block = block, !.kind = kind]
        /\ UNCHANGED <<type, state, info>> \/ clear
  BY DEF RespondNegative
<1>2. ans' = [op |-> op, res |-> res, block |-> block, data |-> <<>>, kind |-> kind]
  BY <1>1 DEF NoAnswer
<1>3. ans' \in AnsType
  BY <1>2 DEF Results, AnsType
<1>4. ans'.res # "positive"
  BY <1>1, <1>2
<1>5. ExitIsWhole' /\ UploadRepeatsData'
  BY <1>4 DEF ExitIsWhole, UploadRepeatsData
<1> QED
  BY <1>1, <1>3, <1>5, PassiveStep

\* A request that is refused before a handler has read anything.
LEMMA RefusedStep ==
  ASSUME TransferIInv, Idle,
         NEW op \in Ops, NEW block \in Blocks, NEW kind \in Services \cup {"unknown"},
         RespondNegative(op, block, kind),
         UNCHANGED <<app, tester, handler, change>>
  PROVE  TransferIInv'
<1>1. app \in AppType /\ handler \in HandlerType
  BY TypeParts DEF TransferIInv
<1> QED
  BY <1>1, NegativeStep DEF Idle

-----------------------------------------------------------------------------
(* Opening a transfer *)

\* The manager starts without a transfer.
LEMMA InitHolds == Init => TransferIInv
<1> SUFFICES ASSUME Init PROVE TransferIInv
  OBVIOUS
<1>1. info = [counter |-> 1, previous |-> -1, record |-> <<>>] /\ info \in InfoType
  BY CommonFacts DEF Init, Cleared, InfoType
<1>2. app = [expected |-> 0, bad |-> FALSE, stream |-> <<>>, late |-> 0] /\ app \in AppType
  BY CommonFacts DEF Init, AppType
<1>3. handler.at = "none" /\ ans.op = "none" /\ ~Open /\ ~Settled
  BY CommonFacts DEF Init, Open, Settled
<1>4. TypeOK
  BY <1>1, <1>2, <1>3, TypeParts, CommonFacts DEF Init, TesterType, KindKnown
<1>5. Len(app.stream) = 0 /\ app.late = 0
  BY <1>2
<1> QED
  BY <1>1, <1>2, <1>3, <1>4, <1>5
  DEF TransferIInv, StreamInOrder, ExitIsWhole, UploadRepeatsData, CounterFollows,
      TesterFollows, HandlerFollows, OpeningIsEmpty, LateIsMet, ClosedIsCleared, RecordIsLast

\* A request that is granted waits to be opened.
LEMMA RequestKeeps ==
  ASSUME TransferIInv, NEW kind \in Kinds, Request(kind)
  PROVE  TransferIInv'
<1>1. PICK ok \in BOOLEAN, cancelled \in BOOLEAN :
        /\ AppRequest(ok)
        /\ ok => /\ Starts("opening", 0, kind)
                 /\ Answer("open", cancelled, 0, <<>>, kind)
                 /\ IF cancelled THEN clear ELSE UNCHANGED <<type, state, info>>
                 /\ tester' = [next |-> 1, acks |-> 0, stale |-> FALSE]
        /\ ~ok => Idle /\ RespondNegative("open", 0, kind) /\ UNCHANGED <<tester, handler, change>>
  BY DEF Request
<1>2. kind \in Services /\ kind # "unknown"
  BY DEF Request, Kinds, Writes, Reads
<1>3. /\ app \in AppType /\ handler \in HandlerType /\ info \in InfoType
      /\ change \in [clearing : BOOLEAN, met : BOOLEAN]
  BY TypeParts DEF TransferIInv
<1>4. CASE ~ok
  <2>1. app' = [app EXCEPT !.bad = Adapter]
    BY <1>1, <1>4 DEF AppRequest
  <2>2. app' \in AppType /\ app'.stream = app.stream /\ app'.late = app.late
    BY <1>3, <2>1, TransferAssumption DEF AppType
  <2> QED
    BY <1>1, <1>2, <1>3, <1>4, <2>2, CommonFacts, NegativeStep DEF Ops, Idle
<1>5. CASE ok
  <2>1. app' = [expected |-> 0, bad |-> FALSE, stream |-> <<>>, late |-> 0]
    BY <1>1, <1>5 DEF AppRequest
  <2>2. /\ handler' = [at |-> "opening", block |-> 0, kind |-> kind, counter |-> 0]
        /\ change' = [change EXCEPT !.met = @ \/ change.clearing]
    BY <1>1, <1>5 DEF Starts, NoHandler
  <2>3. ans' \in AnsType /\ ans'.op = "open"
    <3>1. <<>> \in Seq(1 .. MaxBlocks)
      OBVIOUS
    <3> QED
      BY <1>1, <1>2, <1>5, <3>1, CommonFacts, AnswerType DEF Ops
  <2>4. TypeOK'
    <3>1. app' \in AppType /\ Len(app'.stream) <= MaxBlocks
      BY <2>1, CommonFacts DEF AppType
    <3>2. handler' \in HandlerType /\ KindKnown'
      BY <1>2, <2>2, CommonFacts DEF HandlerType, Ats, KindKnown
    <3>3. tester' \in TesterType
      <4>1. tester' = [next |-> 1, acks |-> 0, stale |-> FALSE]
        BY <1>1, <1>5
      <4> QED
        BY <4>1, CommonFacts DEF TesterType
    <3>4. change' \in [clearing : BOOLEAN, met : BOOLEAN]
      BY <1>3, <2>2, Zenon
    <3> QED
      BY <1>1, <1>5, <2>3, <3>1, <3>2, <3>3, <3>4, CommonFacts, TypeParts, TypePartsNext
      DEF TransferIInv, clear
  <2>5. /\ app'.stream = <<>> /\ Len(app'.stream) = 0 /\ app'.late = 0
        /\ handler'.at = "opening" /\ ~Settled'
    BY <2>1, <2>2 DEF Settled
  <2>6. ~change'.met => ~change.met /\ ~change.clearing /\ ~change'.clearing
    BY <1>3, <2>2
  <2>7. ClosedIsCleared'
    BY <1>1, <1>5, <2>6, CommonFacts DEF TransferIInv, ClosedIsCleared, clear, Open
  <2> QED
    BY <1>1, <1>5, <2>3, <2>4, <2>5, <2>6, <2>7
    DEF TransferIInv, StreamInOrder, ExitIsWhole, UploadRepeatsData, CounterFollows,
        TesterFollows, HandlerFollows, OpeningIsEmpty, LateIsMet, RecordIsLast
<1> QED
  BY <1>4, <1>5

\* A transfer is opened at its first block.
LEMMA OpensKeeps ==
  ASSUME TransferIInv, Opens
  PROVE  TransferIInv'
<1>1. /\ info \in InfoType /\ app \in AppType /\ tester \in TesterType /\ handler \in HandlerType
      /\ handler.kind # "unknown" /\ change \in [clearing : BOOLEAN, met : BOOLEAN]
  BY TypeParts DEF TransferIInv, KindKnown, Opens
<1>2. /\ app.stream = <<>> /\ ans.op = "open" /\ app.late = 0 /\ Len(app.stream) = 0
      /\ tester = [next |-> 1, acks |-> 0, stale |-> FALSE]
  BY <1>1 DEF TransferIInv, OpeningIsEmpty, LateIsMet, Opens, AppType
<1>3. /\ info' \in InfoType /\ info'.counter = 1 /\ info'.previous = info.previous
  BY <1>1, CommonFacts DEF Opens, Opened, InfoType
<1>4. handler' \in HandlerType /\ handler'.at = "none" /\ app' = app /\ ans' = ans
  BY CommonFacts DEF Opens
<1>5. /\ change' \in [clearing : BOOLEAN, met : BOOLEAN]
      /\ change'.met = change.clearing /\ change'.clearing = change.clearing
  BY <1>1 DEF Opens
<1>6. /\ tester' \in TesterType /\ tester'.next = 1 /\ tester'.acks = 0
      /\ tester'.stale <=> info.previous = 1 /\ (Open \/ change.met)
  <2>1. tester' = [tester EXCEPT !.stale = info.previous = 1 /\ (Open \/ change.met)]
    BY DEF Opens
  <2>2. (info.previous = 1 /\ (Open \/ change.met)) \in BOOLEAN
    OBVIOUS
  <2> HIDE DEF Open
  <2> QED
    BY <1>1, <1>2, <2>1, <2>2 DEF TesterType
<1>7. TypeOK'
  <2>1. type' \in Services \cup {"unknown"} /\ state' = "request"
    BY <1>1 DEF Opens, HandlerType
  <2>2. KindKnown' /\ Len(app'.stream) <= MaxBlocks /\ ans' \in AnsType
    BY <1>4, TypeParts DEF TransferIInv, KindKnown
  <2> QED
    BY <1>1, <1>3, <1>4, <1>5, <1>6, <2>1, <2>2, TypePartsNext
<1>8. Open' /\ Accounted' = 0
  BY <1>1, <1>2, <1>4 DEF Opens, Open, Accounted
<1>9. CounterFollows' /\ RecordIsLast'
  BY <1>3, <1>8, CommonFacts DEF CounterFollows, RecordIsLast
<1>10. TesterFollows'
  <2> SUFFICES ASSUME Settled', ~tester'.stale PROVE info.previous # 1
    BY <1>2, <1>3, <1>4, <1>6, <1>8 DEF TesterFollows
  <2>1. ~change.clearing
    BY <1>5 DEF Settled
  <2>2. CASE Open \/ change.met
    BY <1>6, <2>2
  <2>3. CASE ~Open /\ ~change.met
    BY <2>3 DEF TransferIInv, ClosedIsCleared
  <2> QED
    BY <2>2, <2>3
<1> QED
  BY <1>2, <1>4, <1>5, <1>7, <1>8, <1>9, <1>10
  DEF TransferIInv, StreamInOrder, ExitIsWhole, UploadRepeatsData, HandlerFollows,
      OpeningIsEmpty, LateIsMet, ClosedIsCleared

\* Deleting a file passes no block on.
LEMMA DeleteKeeps ==
  ASSUME TransferIInv, _deleteFile
  PROVE  TransferIInv'
<1>1. app \in AppType /\ handler \in HandlerType /\ Idle /\ UNCHANGED <<app, tester, handler, change>>
  BY TypeParts DEF _deleteFile, TransferIInv
<1>2. CASE RespondNegative("delete", 0, "unknown")
  BY <1>1, <1>2, CommonFacts, RefusedStep DEF Ops
<1>3. ASSUME NEW cancelled \in BOOLEAN, Answer("delete", cancelled, 0, <<>>, "unknown"),
             UNCHANGED <<type, state, info>> \/ clear
      PROVE  TransferIInv'
  <2>1. <<>> \in Seq(1 .. MaxBlocks)
    OBVIOUS
  <2>2. ans' \in AnsType /\ ans'.op = "delete"
    BY <1>3, <2>1, CommonFacts, AnswerType DEF Ops
  <2>3. ExitIsWhole' /\ UploadRepeatsData'
    BY <2>2 DEF ExitIsWhole, UploadRepeatsData
  <2> QED
    BY <1>1, <1>3, <2>2, <2>3, PassiveStep DEF Idle
<1> QED
  BY <1>2, <1>3 DEF _deleteFile

-----------------------------------------------------------------------------
(* TransferData *)

\* A block or an exit passes the checks of its handler.
LEMMA CheckKeeps ==
  ASSUME TransferIInv, Open, ans' = NoAnswer, UNCHANGED <<type, state, info, app, tester>>,
         NEW at \in {"checked", "exit"}, NEW block \in Blocks, Starts(at, block, "unknown"),
         at = "checked" => block \in {info.counter, info.previous}
  PROVE  TransferIInv'
<1>1. /\ handler.at = "none" /\ change \in [clearing : BOOLEAN, met : BOOLEAN]
      /\ handler' = [at |-> at, block |-> block, kind |-> "unknown", counter |-> 0]
      /\ change' = [change EXCEPT !.met = @ \/ change.clearing]
  BY TypeParts DEF Starts, Idle, NoHandler, TransferIInv
<1>2. handler' \in HandlerType /\ KindKnown' /\ handler'.at = at /\ handler'.block = block
  BY <1>1, CommonFacts DEF HandlerType, Ats, KindKnown
<1>3. /\ change' \in [clearing : BOOLEAN, met : BOOLEAN]
      /\ ~change'.met => ~change.met /\ ~change.clearing /\ ~change'.clearing
      /\ change.met => change'.met
  <2>1. change' \in [clearing : BOOLEAN, met : BOOLEAN]
    BY <1>1, Zenon
  <2> QED
    BY <1>1, <2>1
<1>4. TypeOK'
  BY <1>2, <1>3, CommonFacts, TypeParts, TypePartsNext DEF TransferIInv
<1>5. Open' /\ Accounted' = Accounted /\ (Settled' => Settled)
  BY <1>1, <1>2, <1>3 DEF Open, Accounted, Settled
<1>6. ans'.op = "none"
  BY CommonFacts
<1>7. CounterFollows' /\ RecordIsLast' /\ TesterFollows'
  BY <1>1, <1>2, <1>5 DEF TransferIInv, CounterFollows, RecordIsLast, TesterFollows
<1>8. HandlerFollows'
  BY <1>2, <1>3, <1>5 DEF HandlerFollows
<1> QED
  BY <1>2, <1>3, <1>4, <1>5, <1>6, <1>7, <1>8
  DEF TransferIInv, StreamInOrder, ExitIsWhole, UploadRepeatsData, OpeningIsEmpty, LateIsMet,
      ClosedIsCleared

\* The handler of a block finds its branch, or none.
LEMMA BranchKeeps ==
  ASSUME TransferIInv, TransferBranch
  PROVE  TransferIInv'
<1>1. /\ handler \in HandlerType /\ app \in AppType /\ ans \in AnsType
      /\ type \in Services \cup {"unknown"} /\ handler.at = "checked" /\ ans.op = "none"
      /\ UNCHANGED <<type, state, info, app, tester, ans, change>>
  BY TypeParts DEF TransferIInv, TransferBranch, OpeningIsEmpty
<1>2. CASE type = "unknown"
  <2>1. handler' \in HandlerType /\ handler'.at = "none"
    BY <1>2, CommonFacts DEF TransferBranch
  <2>2. ExitIsWhole' /\ UploadRepeatsData'
    BY <1>1 DEF ExitIsWhole, UploadRepeatsData
  <2> QED
    BY <1>1, <2>1, <2>2, PassiveStep
<1>3. CASE type # "unknown"
  <2>1. /\ handler' \in HandlerType /\ handler'.kind = type /\ handler'.block = handler.block
        /\ handler'.at = IF handler.block = info.previous THEN "repeat" ELSE "pass"
    BY <1>1, <1>3 DEF TransferBranch, HandlerType, Ats
  <2>2. TypeOK'
    BY <1>1, <1>3, <2>1, TypeParts, TypePartsNext DEF TransferIInv, KindKnown
  <2>3. Open' = Open /\ Accounted' = Accounted /\ (Settled' => Settled)
    BY <1>1, <2>1 DEF Open, Accounted, Settled
  <2>4. ~change.met => /\ Open /\ ~change.clearing
                       /\ handler.block \in {info.counter, info.previous}
    BY <1>1 DEF TransferIInv, HandlerFollows
  <2>5. HandlerFollows'
    BY <1>1, <2>1, <2>3, <2>4 DEF HandlerFollows
  <2>6. CounterFollows' /\ RecordIsLast'
    BY <1>1, <2>1, <2>3 DEF TransferIInv, CounterFollows, RecordIsLast
  <2>7. TesterFollows'
    <3> SUFFICES ASSUME Settled' PROVE TesterFollows'
      BY DEF TesterFollows
    <3>1. CASE tester.stale
      BY <1>1, <2>1, <2>3, <2>4, <3>1 DEF TransferIInv, TesterFollows, Settled
    <3>2. CASE ~tester.stale
      BY <1>1, <2>1, <2>3, <3>2 DEF TransferIInv, TesterFollows
    <3> QED
      BY <3>1, <3>2
  <2> QED
    BY <1>1, <2>1, <2>2, <2>3, <2>5, <2>6, <2>7
    DEF TransferIInv, StreamInOrder, ExitIsWhole, UploadRepeatsData, OpeningIsEmpty, LateIsMet,
        ClosedIsCleared
<1> QED
  BY <1>2, <1>3

\* What the tester counts has its type, and a stale transfer stays one.
LEMMA CountedType ==
  ASSUME tester \in TesterType, NEW cancelled \in BOOLEAN, NEW block \in Blocks,
         Counted(cancelled, block)
  PROVE  /\ tester' \in TesterType
         /\ tester'.stale = tester.stale
         /\ ~cancelled /\ block = tester.next =>
               tester'.acks = tester.acks + 1 /\ tester'.next = (tester.next + 1) % Modulus
         /\ ~(~cancelled /\ block = tester.next) => tester' = tester
<1>1. (tester.next + 1) % Modulus \in Blocks /\ tester.acks + 1 \in Nat
  BY ModMoves DEF TesterType
<1>2. CASE ~cancelled /\ block = tester.next
  <2>1. tester' = [tester EXCEPT !.next = (@ + 1) % Modulus, !.acks = @ + 1]
    BY <1>2 DEF Counted
  <2> QED
    BY <1>1, <1>2, <2>1 DEF TesterType
<1>3. CASE ~(~cancelled /\ block = tester.next)
  BY <1>3 DEF Counted
<1> QED
  BY <1>2, <1>3

\* A repeated block passes nothing on.
LEMMA RepeatKeeps ==
  ASSUME TransferIInv, TransferRepeat
  PROVE  TransferIInv'
<1> DEFINE data == IF SendsData THEN info.record ELSE <<>>
<1>1. PICK cancelled \in BOOLEAN :
        /\ Answer("transfer", cancelled, handler.block, data, handler.kind)
        /\ IF cancelled THEN clear ELSE UNCHANGED <<type, state, info>>
        /\ Counted(cancelled, handler.block)
  BY DEF TransferRepeat
<1>2. /\ info \in InfoType /\ app \in AppType /\ tester \in TesterType /\ handler \in HandlerType
      /\ handler.at = "repeat" /\ app' = app /\ change' = change
      /\ handler' \in HandlerType /\ handler'.at = "none"
  BY TypeParts, CommonFacts DEF TransferIInv, TransferRepeat, Ends
<1>3. data \in Seq(1 .. MaxBlocks)
  <2>1. info.record \in Seq(1 .. MaxBlocks) /\ <<>> \in Seq(1 .. MaxBlocks)
    BY <1>2 DEF InfoType
  <2> QED
    BY <2>1
<1>4. handler.kind = "upload" => data = info.record
  BY DEF SendsData
<1> HIDE DEF data
<1>5. /\ ans' \in AnsType /\ ans'.op = "transfer" /\ ans'.block = handler.block
      /\ ans'.data = data /\ ans'.kind = handler.kind
  BY <1>1, <1>2, <1>3, AnswerType DEF Ops, HandlerType
<1>6. ExitIsWhole'
  BY <1>5 DEF ExitIsWhole
<1>7. ~change.met => /\ Open /\ ~change.clearing /\ Settled
                     /\ handler.block = info.previous /\ handler.kind = type
  BY <1>2 DEF TransferIInv, HandlerFollows, Settled
<1>8. Accounted = Len(app.stream)
  BY <1>2 DEF Accounted, AppType
<1>9. /\ tester' \in TesterType /\ tester'.stale = tester.stale
      /\ ~cancelled /\ handler.block = tester.next =>
           tester'.acks = tester.acks + 1 /\ tester'.next = (tester.next + 1) % Modulus
      /\ ~(~cancelled /\ handler.block = tester.next) => tester' = tester
  BY <1>1, <1>2, CountedType DEF HandlerType
<1>10. UploadRepeatsData'
  <2> SUFFICES ASSUME ans'.kind = "upload", ~change.met
               PROVE  IF app.stream = <<>>
                      THEN tester.stale \/ ans'.block # 1
                      ELSE ans'.data = <<Len(app.stream)>> /\ ans'.block = Len(app.stream) % Modulus
    BY <1>2, <1>9 DEF UploadRepeatsData
  <2>1. CASE app.stream = <<>>
    <3> SUFFICES ASSUME ~tester.stale PROVE info.previous # 1
      BY <1>5, <1>7, <2>1
    <3>1. info.counter = 1
      BY <1>7, <1>8, <2>1, CommonFacts DEF TransferIInv, CounterFollows
    <3> QED
      BY <1>2, <1>7, <3>1 DEF TransferIInv, TesterFollows
  <2>2. CASE app.stream # <<>>
    <3>1. Accounted > 0
      BY <1>2, <1>8, <2>2 DEF AppType
    <3> QED
      BY <1>2, <1>4, <1>5, <1>7, <1>8, <2>2, <3>1 DEF TransferIInv, RecordIsLast
  <2> QED
    BY <2>1, <2>2
<1>11. CASE tester' = tester
  BY <1>1, <1>2, <1>5, <1>6, <1>10, <1>11, PassiveStep
<1>12. CASE tester' # tester
  <2>1. ~cancelled /\ handler.block = tester.next /\ UNCHANGED <<type, state, info>>
    BY <1>1, <1>9, <1>12
  <2>2. TypeOK'
    BY <1>2, <1>5, <1>9, <2>1, TypeParts, TypePartsNext DEF TransferIInv, KindKnown
  <2>3. Open' = Open /\ Accounted' = Accounted /\ (Settled' => Settled)
    BY <1>2, <2>1 DEF Open, Accounted, Settled
  <2>4. CounterFollows' /\ RecordIsLast'
    BY <1>2, <2>1, <2>3 DEF TransferIInv, CounterFollows, RecordIsLast
  <2>5. TesterFollows'
    <3> SUFFICES ASSUME Settled PROVE TesterFollows'
      BY <2>3 DEF TesterFollows
    <3>1. handler.block = info.previous
      BY <1>7 DEF Settled
    <3>2. tester.stale
      BY <1>2, <2>1, <3>1 DEF TransferIInv, TesterFollows
    <3>3. /\ info.previous = 1 /\ info.counter = 1 /\ app.stream = <<>> /\ tester.acks = 0
      BY <2>1, <3>1, <3>2 DEF TransferIInv, TesterFollows
    <3>4. tester'.acks = 1 /\ tester'.next # 1
      BY <1>9, <2>1, <3>1, <3>3, CommonFacts, ModMoves
    <3> QED
      BY <1>2, <1>9, <2>1, <3>2, <3>3, <3>4 DEF TesterFollows
  <2> QED
    BY <1>2, <1>6, <1>10, <2>1, <2>2, <2>3, <2>4, <2>5
    DEF TransferIInv, StreamInOrder, HandlerFollows, OpeningIsEmpty, LateIsMet, ClosedIsCleared
<1> QED
  BY <1>11, <1>12

\* A block that the application accepts continues the stream.
LEMMA PassKeeps ==
  ASSUME TransferIInv, TransferPass
  PROVE  TransferIInv'
<1>1. PICK ok \in BOOLEAN :
        /\ AppData(handler.block, ok)
        /\ ok => /\ handler' = [handler EXCEPT !.at = "called", !.counter = info.counter]
                 /\ UNCHANGED <<type, state, info, ans, change>>
        /\ ~ok => RespondNegative("transfer", handler.block, handler.kind) /\ Ends
  BY DEF TransferPass
<1>2. /\ info \in InfoType /\ app \in AppType /\ handler \in HandlerType /\ ans \in AnsType
      /\ change \in [clearing : BOOLEAN, met : BOOLEAN]
      /\ handler.at = "pass" /\ tester' = tester /\ ans.op = "none" /\ handler.kind # "unknown"
  BY TypeParts DEF TransferIInv, TransferPass, OpeningIsEmpty, KindKnown
<1>3. CASE ~ok
  <2>1. app' = [app EXCEPT !.bad = @ \/ (Adapter /\ AppTakes(handler.block))]
    BY <1>1, <1>3 DEF AppData
  <2>2. (app.bad \/ (Adapter /\ AppTakes(handler.block))) \in BOOLEAN
    OBVIOUS
  <2>3. app' \in AppType /\ app'.stream = app.stream /\ app'.late = app.late
    BY <1>2, <2>1, <2>2 DEF AppType
  <2>4. /\ handler' \in HandlerType /\ handler'.at = "none" /\ change' = change
        /\ handler.block \in Blocks /\ handler.kind \in Services \cup {"unknown"}
    BY <1>1, <1>2, <1>3, CommonFacts DEF Ends, HandlerType
  <2> QED
    BY <1>1, <1>2, <1>3, <2>3, <2>4, NegativeStep DEF Ops
<1>4. CASE ok
  <2> DEFINE n == Len(app.stream)
  <2>1. /\ app' = [app EXCEPT !.expected = (@ + 1) % Modulus, !.stream = Append(@, handler.block),
                              !.late = @ + (IF change.met THEN 1 ELSE 0)]
        /\ n < MaxBlocks
    BY <1>1, <1>4 DEF AppData
  <2>2. (app.expected + 1) % Modulus \in Blocks /\ Append(app.stream, handler.block) \in Seq(Blocks)
    BY <1>2, ModMoves DEF AppType, HandlerType
  <2>3. /\ app' \in AppType /\ app'.stream = Append(app.stream, handler.block)
        /\ app'.late = app.late + (IF change.met THEN 1 ELSE 0)
    <3> DEFINE late == app.late + (IF change.met THEN 1 ELSE 0)
    <3>1. late \in Nat
      BY <1>2 DEF AppType
    <3>2. app' = [app EXCEPT !.expected = (@ + 1) % Modulus, !.stream = Append(@, handler.block),
                             !.late = late]
      BY <1>2, <2>1 DEF AppType
    <3> HIDE DEF late
    <3>3. app' \in AppType /\ app'.stream = Append(app.stream, handler.block) /\ app'.late = late
      BY <1>2, <2>2, <3>1, <3>2 DEF AppType
    <3> QED
      BY <3>3 DEF late
  <2>4. /\ n \in Nat /\ Len(app'.stream) = n + 1 /\ app'.stream[n + 1] = handler.block
        /\ app'.stream # <<>> /\ \A i \in 1 .. n : app'.stream[i] = app.stream[i]
    BY <1>2, <2>3 DEF AppType, HandlerType
  <2>5. /\ handler' \in HandlerType /\ handler'.at = "called" /\ handler'.block = handler.block
        /\ handler'.kind = handler.kind /\ handler'.counter = info.counter
    BY <1>1, <1>2, <1>4 DEF HandlerType, Ats, InfoType
  <2>6. UNCHANGED <<type, state, info, ans, change, tester>>
    BY <1>1, <1>2, <1>4
  <2>7. TypeOK'
    BY <1>2, <2>1, <2>3, <2>4, <2>5, <2>6, CommonFacts, TypeParts, TypePartsNext
    DEF TransferIInv, KindKnown
  <2>8. Open' = Open /\ Accounted' = Accounted /\ Accounted = n /\ (Settled' => Settled)
    BY <1>2, <2>4, <2>5, <2>6 DEF Open, Accounted, Settled
  <2>9. ~change.met => /\ Open /\ ~change.clearing /\ Settled /\ app.late = 0
                       /\ handler.block = info.counter /\ handler.kind = type
    BY <1>2 DEF TransferIInv, HandlerFollows, Settled, LateIsMet, AppType
  <2>10. LateIsMet'
    BY <1>2, <2>3, <2>4, <2>5, <2>6 DEF TransferIInv, LateIsMet, AppType
  <2>11. StreamInOrder'
    <3>1. CASE change.met
      <4>1. Len(app'.stream) - app'.late = n - app.late /\ app.late \in Nat
        BY <1>2, <2>3, <2>4, <3>1 DEF AppType
      <4> QED
        BY <2>4, <4>1 DEF TransferIInv, StreamInOrder
    <3>2. CASE ~change.met
      <4>1. app.late = 0 /\ app'.late = 0 /\ Len(app'.stream) - app'.late = n + 1
        BY <2>3, <2>4, <2>9, <3>2
      <4>2. app'.stream[n + 1] = (n + 1) % Modulus
        BY <2>4, <2>8, <2>9, <3>2 DEF TransferIInv, CounterFollows
      <4>3. \A i \in 1 .. n : app.stream[i] = i % Modulus
        BY <2>4, <4>1 DEF TransferIInv, StreamInOrder
      <4>4. ASSUME NEW i \in 1 .. n + 1 PROVE app'.stream[i] = i % Modulus
        <5>1. CASE i = n + 1
          BY <4>2, <5>1
        <5>2. CASE i # n + 1
          <6>1. i \in 1 .. n
            BY <2>4, <5>2
          <6> QED
            BY <2>4, <4>3, <6>1
        <5> QED
          BY <5>1, <5>2
      <4> QED
        BY <4>1, <4>4 DEF StreamInOrder
    <3> QED
      BY <3>1, <3>2
  <2>12. CounterFollows' /\ RecordIsLast'
    BY <1>2, <2>5, <2>6, <2>8 DEF TransferIInv, CounterFollows, RecordIsLast
  <2>13. TesterFollows'
    BY <1>2, <2>5, <2>6, <2>8 DEF TransferIInv, TesterFollows
  <2>14. HandlerFollows'
    BY <2>5, <2>6, <2>8, <2>9 DEF HandlerFollows
  <2>15. ClosedIsCleared' /\ ExitIsWhole' /\ UploadRepeatsData' /\ OpeningIsEmpty'
    BY <1>2, <2>5, <2>6, <2>8
    DEF TransferIInv, ClosedIsCleared, ExitIsWhole, UploadRepeatsData, OpeningIsEmpty
  <2> QED
    BY <2>7, <2>10, <2>11, <2>12, <2>13, <2>14, <2>15 DEF TransferIInv
<1> QED
  BY <1>3, <1>4

\* The counter of the block becomes the previous one.
LEMMA MoveKeeps ==
  ASSUME TransferIInv, TransferMove
  PROVE  TransferIInv'
<1>1. /\ info \in InfoType /\ app \in AppType /\ handler \in HandlerType
      /\ handler.at = "called" /\ ans.op = "none" /\ handler.kind # "unknown"
      /\ UNCHANGED <<type, state, app, tester, ans, change>>
  BY TypeParts DEF TransferIInv, TransferMove, OpeningIsEmpty, KindKnown
<1>2. PICK counter \in {handler.counter, info.counter} : info' = [info EXCEPT !.previous = counter]
  BY DEF TransferMove
<1>3. /\ info' \in InfoType /\ info'.previous = counter /\ info'.counter = info.counter
      /\ info'.record = info.record
  BY <1>1, <1>2 DEF InfoType, HandlerType
<1>4. /\ handler' \in HandlerType /\ handler'.at = "moved" /\ handler'.block = handler.block
      /\ handler'.kind = handler.kind
  BY <1>1, CommonFacts DEF TransferMove, HandlerType, Ats
<1>5. TypeOK'
  BY <1>1, <1>3, <1>4, TypeParts, TypePartsNext DEF TransferIInv, KindKnown
<1>6. Open' = Open /\ Accounted' = Accounted /\ (Settled' => Settled)
  BY <1>1, <1>4 DEF Open, Accounted, Settled
<1>7. ~change.met => /\ Open /\ ~change.clearing /\ handler.counter = info.counter
                     /\ handler.block = info.counter /\ handler.kind = type
  BY <1>1 DEF TransferIInv, HandlerFollows
<1>8. CounterFollows' /\ RecordIsLast'
  BY <1>1, <1>3, <1>4, <1>6 DEF TransferIInv, CounterFollows, RecordIsLast
<1>9. TesterFollows'
  <2> SUFFICES ASSUME Settled PROVE TesterFollows'
    BY <1>6 DEF TesterFollows
  <2>1. ~tester.stale /\ tester.acks = Accounted /\ tester.next = info.counter
    BY <1>1 DEF TransferIInv, TesterFollows
  <2>2. info'.previous = info'.counter
    BY <1>2, <1>3, <1>7 DEF Settled
  <2> QED
    BY <1>1, <1>3, <1>4, <1>6, <2>1, <2>2 DEF TesterFollows
<1>10. HandlerFollows' /\ ClosedIsCleared'
  BY <1>1, <1>3, <1>4, <1>6, <1>7 DEF HandlerFollows, ClosedIsCleared
<1> QED
  BY <1>1, <1>4, <1>5, <1>8, <1>9, <1>10
  DEF TransferIInv, StreamInOrder, ExitIsWhole, UploadRepeatsData, OpeningIsEmpty, LateIsMet

\* The counter moves on and the block is answered.
LEMMA DoneKeeps ==
  ASSUME TransferIInv, TransferDone
  PROVE  TransferIInv'
<1> DEFINE n == Len(app.stream)
           data == IF SendsData THEN <<n>> ELSE <<>>
<1>1. PICK cancelled \in BOOLEAN :
        /\ Answer("transfer", cancelled, handler.block, data, handler.kind)
        /\ IF cancelled
           THEN clear
           ELSE info' = Advanced(info, data) /\ UNCHANGED <<type, state>>
        /\ Counted(cancelled, handler.block)
  BY DEF TransferDone
<1>2. /\ info \in InfoType /\ app \in AppType /\ tester \in TesterType /\ handler \in HandlerType
      /\ handler.at = "moved" /\ app' = app /\ change' = change
      /\ handler' \in HandlerType /\ handler'.at = "none" /\ handler.kind # "unknown"
  BY TypeParts, CommonFacts DEF TransferIInv, TransferDone, Ends, KindKnown
<1>3. n \in 1 .. MaxBlocks /\ app.stream # <<>>
  <2>1. app.stream # <<>> /\ n <= MaxBlocks
    BY <1>2, TypeParts DEF TransferIInv, LateIsMet
  <2> QED
    BY <1>2, <2>1, CommonFacts DEF AppType
<1>4. data \in Seq(1 .. MaxBlocks)
  <2>1. <<n>> \in Seq(1 .. MaxBlocks) /\ <<>> \in Seq(1 .. MaxBlocks)
    BY <1>3
  <2> QED
    BY <2>1
<1>5. handler.kind = "upload" => data = <<n>>
  BY DEF SendsData
<1> HIDE DEF data
<1>6. /\ ans' \in AnsType /\ ans'.op = "transfer" /\ ans'.block = handler.block
      /\ ans'.data = data /\ ans'.kind = handler.kind
  BY <1>1, <1>2, <1>4, AnswerType DEF Ops, HandlerType
<1>7. ~change.met => /\ Open /\ ~change.clearing /\ Settled
                     /\ handler.block = info.counter /\ handler.kind = type
  BY <1>2 DEF TransferIInv, HandlerFollows, Settled
<1>8. Accounted = n - 1 /\ Accounted' = n /\ (n - 1) + 1 = n
  BY <1>2, <1>3 DEF Accounted
<1>9. ~change.met => handler.block = n % Modulus
  BY <1>7, <1>8 DEF TransferIInv, CounterFollows
<1>10. ExitIsWhole' /\ UploadRepeatsData'
  BY <1>2, <1>3, <1>5, <1>6, <1>9 DEF ExitIsWhole, UploadRepeatsData
<1>11. /\ tester' \in TesterType /\ tester'.stale = tester.stale
       /\ ~cancelled /\ handler.block = tester.next =>
            tester'.acks = tester.acks + 1 /\ tester'.next = (tester.next + 1) % Modulus
  BY <1>1, <1>2, CountedType DEF HandlerType
<1>12. StreamInOrder' /\ HandlerFollows' /\ OpeningIsEmpty' /\ LateIsMet'
  BY <1>2 DEF TransferIInv, StreamInOrder, HandlerFollows, OpeningIsEmpty, LateIsMet
<1>13. CASE cancelled
  <2>1. clear
    BY <1>1, <1>13
  <2>2. TypeOK'
    BY <1>2, <1>6, <1>11, <2>1, CommonFacts, TypeParts, TypePartsNext
    DEF TransferIInv, clear, KindKnown
  <2>3. ~Open' /\ ~Settled' /\ info'.previous = 0
    BY <2>1, CommonFacts DEF clear, Open, Settled
  <2> QED
    BY <1>10, <1>12, <2>2, <2>3
    DEF TransferIInv, CounterFollows, TesterFollows, RecordIsLast, ClosedIsCleared
<1>14. CASE ~cancelled
  <2>1. info' = [info EXCEPT !.counter = (@ + 1) % Modulus, !.record = Kept(@, data)]
        /\ type' = type /\ state' = state
    BY <1>1, <1>14 DEF Advanced
  <2>2. (info.counter + 1) % Modulus \in Blocks /\ (info.counter + 1) % Modulus # info.counter
    BY <1>2, ModMoves DEF InfoType
  <2>3. Kept(info.record, data) \in Seq(1 .. MaxBlocks)
    <3>1. info.record \in Seq(1 .. MaxBlocks)
      BY <1>2 DEF InfoType
    <3>2. info.record \o data \in Seq(1 .. MaxBlocks)
      BY <1>4, <3>1
    <3> QED
      BY <1>4, <3>1, <3>2 DEF Kept
  <2>4. /\ info' \in InfoType /\ info'.previous = info.previous
        /\ info'.counter = (info.counter + 1) % Modulus
        /\ info'.record = Kept(info.record, data)
    BY <1>2, <2>1, <2>2, <2>3 DEF InfoType
  <2>5. TypeOK'
    BY <1>2, <1>6, <1>11, <2>1, <2>4, TypeParts, TypePartsNext DEF TransferIInv, KindKnown
  <2>6. Open' = Open /\ (Settled' => Settled)
    BY <1>2, <2>1 DEF Open, Settled
  <2>7. ClosedIsCleared'
    BY <1>2, <1>7, <2>6 DEF ClosedIsCleared
  <2>8. Settled => /\ ~tester.stale /\ tester.acks = n - 1 /\ tester.next = info.counter
                   /\ info.previous = info.counter /\ info.counter = n % Modulus
                   /\ handler.block = info.counter /\ handler.kind = type
    BY <1>2, <1>7, <1>8, <1>9 DEF TransferIInv, TesterFollows, Settled
  <2>9. CounterFollows'
    <3> SUFFICES ASSUME Settled PROVE info'.counter = (n + 1) % Modulus
      BY <1>8, <2>6 DEF CounterFollows
    <3>1. ((n % Modulus) + 1) % Modulus = (n + 1) % Modulus
      BY <1>3, ModSucc
    <3> QED
      BY <2>4, <2>8, <3>1
  <2>10. TesterFollows'
    <3> SUFFICES ASSUME Settled
                 PROVE  /\ ~tester'.stale /\ tester'.acks = n
                        /\ tester'.next = info'.counter /\ info'.previous # info'.counter
      BY <1>2, <1>8, <2>6 DEF TesterFollows
    <3> QED
      BY <1>8, <1>11, <1>14, <2>2, <2>4, <2>8
  <2>11. RecordIsLast'
    <3> SUFFICES ASSUME Settled, type = "upload"
                 PROVE  info'.record = <<n>> /\ info'.previous = n % Modulus
      BY <1>8, <2>1, <2>6 DEF RecordIsLast
    <3> QED
      BY <1>5, <2>4, <2>8 DEF Kept
  <2> QED
    BY <1>10, <1>12, <2>5, <2>7, <2>9, <2>10, <2>11 DEF TransferIInv
<1> QED
  BY <1>13, <1>14

-----------------------------------------------------------------------------
(* The end of a transfer *)

\* An accepted exit closes the transfer.
LEMMA ExitKeeps ==
  ASSUME TransferIInv, TransferExit
  PROVE  TransferIInv'
<1>1. PICK ok \in BOOLEAN, cancelled \in BOOLEAN :
        /\ IF type = "unknown" THEN ~ok /\ UNCHANGED app ELSE AppExit(ok)
        /\ ok => /\ Answer("exit", cancelled, 0, <<>>, type)
                 /\ type' = "unknown"
                 /\ state' = IF cancelled THEN "idle" ELSE "exit"
                 /\ info' = Cleared
        /\ ~ok => RespondNegative("exit", 0, type)
  BY DEF TransferExit
<1>2. /\ app \in AppType /\ handler \in HandlerType /\ type \in Services \cup {"unknown"}
      /\ handler.at = "exit" /\ tester' = tester /\ change' = change
      /\ handler' \in HandlerType /\ handler'.at = "none"
  BY TypeParts, CommonFacts DEF TransferIInv, TransferExit, Ends
<1>3. app' \in AppType /\ app'.stream = app.stream /\ app'.late = app.late
  BY <1>1, <1>2, CommonFacts DEF AppExit, AppType
<1>4. CASE ~ok
  BY <1>1, <1>2, <1>3, <1>4, CommonFacts, NegativeStep DEF Ops
<1>5. CASE ok
  <2>1. <<>> \in Seq(1 .. MaxBlocks)
    OBVIOUS
  <2>2. ans' \in AnsType /\ ans'.op = "exit"
    BY <1>1, <1>2, <1>5, <2>1, CommonFacts, AnswerType DEF Ops
  <2>3. TypeOK'
    BY <1>1, <1>2, <1>3, <1>5, <2>2, CommonFacts, TypeParts, TypePartsNext DEF TransferIInv, KindKnown
  <2>4. ~Open' /\ ~Settled' /\ info'.previous = 0
    BY <1>1, <1>5, CommonFacts DEF Open, Settled
  <2>5. ExitIsWhole'
    <3> SUFFICES ASSUME ~change.met
                 PROVE  \/ tester.acks = Len(app.stream)
                        \/ tester.stale /\ tester.acks = 1 /\ app.stream = <<>>
      BY <1>2, <1>3 DEF ExitIsWhole
    <3>1. Settled /\ Accounted = Len(app.stream)
      BY <1>2 DEF TransferIInv, HandlerFollows, Settled, Accounted, AppType
    <3> QED
      BY <3>1 DEF TransferIInv, TesterFollows
  <2>6. UploadRepeatsData'
    BY <2>2 DEF UploadRepeatsData
  <2> QED
    BY <1>2, <1>3, <2>2, <2>3, <2>4, <2>5, <2>6
    DEF TransferIInv, StreamInOrder, CounterFollows, TesterFollows, HandlerFollows,
        OpeningIsEmpty, LateIsMet, ClosedIsCleared, RecordIsLast
<1> QED
  BY <1>4, <1>5

\* A change of session clears the counters.
LEMMA ClearInfoKeeps ==
  ASSUME TransferIInv, ClearInfo
  PROVE  TransferIInv'
<1>1. /\ change \in [clearing : BOOLEAN, met : BOOLEAN] /\ info' = Cleared
      /\ change' = [clearing |-> TRUE, met |-> change.met \/ handler.at # "none"]
      /\ UNCHANGED <<type, state, app, tester, ans, handler>>
  BY TypeParts DEF TransferIInv, ClearInfo, Idle
<1>2. /\ change' \in [clearing : BOOLEAN, met : BOOLEAN] /\ change'.clearing
      /\ ~change'.met => ~change.met /\ handler.at = "none"
      /\ change.met => change'.met
  BY <1>1
<1>3. TypeOK'
  BY <1>1, <1>2, CommonFacts, TypeParts, TypePartsNext DEF TransferIInv, KindKnown
<1>4. ~Settled' /\ info'.previous = 0
  BY <1>1, <1>2, CommonFacts DEF Settled
<1> QED
  BY <1>1, <1>2, <1>3, <1>4
  DEF TransferIInv, StreamInOrder, ExitIsWhole, UploadRepeatsData, CounterFollows,
      TesterFollows, HandlerFollows, OpeningIsEmpty, LateIsMet, ClosedIsCleared, RecordIsLast

\* A change of session closes the transfer.
LEMMA ClearStateKeeps ==
  ASSUME TransferIInv, ClearState
  PROVE  TransferIInv'
<1>1. /\ change \in [clearing : BOOLEAN, met : BOOLEAN] /\ change.clearing /\ type' = "unknown"
      /\ state' = "idle" /\ change' = [clearing |-> FALSE, met |-> change.met \/ handler.at # "none"]
      /\ UNCHANGED <<info, app, tester, ans, handler>>
  BY TypeParts DEF TransferIInv, ClearState, Idle
<1>2. /\ change' \in [clearing : BOOLEAN, met : BOOLEAN] /\ ~change'.clearing
      /\ ~change'.met => ~change.met /\ handler.at = "none"
      /\ change.met => change'.met
  BY <1>1
<1>3. TypeOK'
  BY <1>1, <1>2, TypeParts, TypePartsNext DEF TransferIInv, KindKnown
<1>4. ~Settled' /\ ~Open'
  BY <1>1 DEF Settled, Open
<1>5. ~change'.met => info.previous \in {-1, 0}
  BY <1>1, <1>2 DEF TransferIInv, ClosedIsCleared
<1> QED
  BY <1>1, <1>2, <1>3, <1>4, <1>5
  DEF TransferIInv, StreamInOrder, ExitIsWhole, UploadRepeatsData, CounterFollows,
      TesterFollows, HandlerFollows, OpeningIsEmpty, LateIsMet, ClosedIsCleared, RecordIsLast

\* Every step keeps the invariant.
LEMMA StepKeeps == TransferIInv /\ [Next]_vars => TransferIInv'
<1> SUFFICES ASSUME TransferIInv, [Next]_vars PROVE TransferIInv'
  OBVIOUS
<1>1. type \in Services \cup {"unknown"}
  BY TypeParts DEF TransferIInv
<1>2. ASSUME NEW kind \in Kinds, Request(kind) PROVE TransferIInv'
  BY <1>2, RequestKeeps
<1>3. CASE Opens
  BY <1>3, OpensKeeps
<1>4. CASE Refuse
  BY <1>4, CommonFacts, RefusedStep DEF Refuse, Ops
<1>5. CASE _transfer
  <2>1. ASSUME NEW block \in Blocks, TransferCheck(block) PROVE TransferIInv'
    BY <2>1, CheckKeeps DEF TransferCheck
  <2>2. ASSUME NEW block \in Blocks, TransferRefused(block) PROVE TransferIInv'
    BY <1>1, <2>2, RefusedStep DEF TransferRefused, Ops
  <2> QED
    BY <1>5, <2>1, <2>2, BranchKeeps, RepeatKeeps, PassKeeps, MoveKeeps, DoneKeeps DEF _transfer
<1>6. CASE _transferExit
  <2>1. CASE ExitCheck
    BY <2>1, CommonFacts, CheckKeeps DEF ExitCheck
  <2>2. CASE ExitRefused
    BY <1>1, <2>2, CommonFacts, RefusedStep DEF ExitRefused, Ops
  <2> QED
    BY <1>6, <2>1, <2>2, ExitKeeps DEF _transferExit
<1>7. CASE SessionChange
  BY <1>7, ClearInfoKeeps, ClearStateKeeps DEF SessionChange
<1>8. CASE UNCHANGED vars
  BY <1>8 DEF vars, TransferIInv, TypeOK, StreamInOrder, ExitIsWhole, UploadRepeatsData,
              CounterFollows, TesterFollows, HandlerFollows, OpeningIsEmpty, LateIsMet,
              ClosedIsCleared, RecordIsLast, Open, Settled, Accounted
<1>9. CASE _requestDownload \/ _requestUpload
  BY <1>2, <1>9 DEF _requestDownload, _requestUpload, Kinds
<1>10. CASE _requestFileTransfer
  BY <1>2, <1>10, DeleteKeeps DEF _requestFileTransfer, _addFile, _replaceFile, _readFile,
                                  _readDir, _resumeFile, Kinds, Writes, Reads
<1> QED
  BY <1>3, <1>4, <1>5, <1>6, <1>7, <1>8, <1>9, <1>10 DEF Next

-----------------------------------------------------------------------------
(* The theorems *)

\* The inductive invariant holds in every behaviour.
LEMMA IInvAlways == Spec => []TransferIInv
BY InitHolds, StepKeeps, PTL DEF Spec

\* TransferManager's state keeps its types, for every modulus of the counter.
THEOREM TransferTypeCorrect == Spec => []TypeOK
<1>1. TransferIInv => TypeOK
  BY DEF TransferIInv
<1> QED
  BY <1>1, IInvAlways, PTL

\* DownloadData, UploadData, Read and Write are called with the block numbers
\* 1, 2, 3, ... modulo Modulus, whatever the tester sends and whatever fails,
\* up to a call from a handler that a session change has met.
THEOREM StreamAlwaysInOrder == Spec => []StreamInOrder
<1>1. TransferIInv => StreamInOrder
  BY DEF TransferIInv
<1> QED
  BY <1>1, IInvAlways, PTL

\* An accepted RequestTransferExit, unless a session change met a handler of its
\* transfer: the tester and the application agree on the number of blocks, or
\* the transfer was stale and its one block is lost.
THEOREM ExitAlwaysWhole == Spec => []ExitIsWhole
<1>1. TransferIInv => ExitIsWhole
  BY DEF TransferIInv
<1> QED
  BY <1>1, IInvAlways, PTL

\* A repeated block of an upload is answered with the data it had.
THEOREM UploadAlwaysRepeats == Spec => []UploadRepeatsData
<1>1. TransferIInv => UploadRepeatsData
  BY DEF TransferIInv
<1> QED
  BY <1>1, IInvAlways, PTL
=============================================================================
