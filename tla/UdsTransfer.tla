---------------------------- MODULE UdsTransfer ----------------------------
(***************************************************************************)
(* The transfer services of the UDS server: RequestDownload (0x34),        *)
(* RequestUpload (0x35), RequestFileTransfer (0x38), TransferData (0x36)   *)
(* and RequestTransferExit (0x37), as handled by TransferManager           *)
(* (transfer_manager.cpp), with the application behind it.                 *)
(*                                                                         *)
(* The server runs one handler per tester at a time.  A session change     *)
(* clears the transfer on the thread of the S3 job, without a lock, so it  *)
(* may fall into a handler: a handler is split where it reads or writes    *)
(* what the clear assigns, and the clear between its two halves.  A        *)
(* handler that only refuses is one action.                                *)
(*                                                                         *)
(* What a handler meets is chosen: the result of the application call,     *)
(* whether the P2 or P4 timer cancelled the request before its answer      *)
(* (RequestContext::_timeout), and, for a request with a functional        *)
(* address, whether the negative answer is suppressed (the byte that       *)
(* decides is read past the end of the message, so both happen).           *)
(*                                                                         *)
(* Left out: the sizes counted in transferInfo_ and the exit type that a   *)
(* file transfer derives from them, which only the application sees.       *)
(*                                                                         *)
(* With Adapter the application is diag/capi_download_adapter.cpp, the one *)
(* the diagnostic server registers; without it, any implementation of the  *)
(* download, upload and file interfaces.                                   *)
(***************************************************************************)
EXTENDS Integers, Sequences

CONSTANTS
    Modulus,      \* values of the block sequence counter: 256, a uint8
    Services,     \* the kinds of transfer that are configured
    Adapter,      \* the application is the download adapter
    Faults,       \* files may fail to open, writes may fail
    Functional,   \* requests may use a functional address
    MaxBlocks     \* bound: blocks accepted in one transfer, and kept in a record

Writes == {"addFile", "replaceFile", "resumeFile"}
Reads  == {"readFile", "readDir"}
Kinds  == {"download", "upload"} \cup Writes \cup Reads

ASSUME TransferAssumption ==
    /\ Modulus \in Nat /\ Modulus > 1
    /\ Services \subseteq Kinds
    /\ {Adapter, Faults, Functional} \subseteq BOOLEAN
    /\ Adapter => Services = {"download"}
    /\ MaxBlocks \in Nat

VARIABLES
    type,      \* requestServerType_ with modeOfOperation_
    state,     \* state_
    info,      \* transferInfo_
    app,       \* the application: what it accepted since its last request
    tester,    \* what the tester has been told in this transfer
    ans,       \* the answer to the last request, none while one is handled
    handler,   \* the handler that is running, and what it has read
    change     \* a session change that is clearing; has one met a handler
               \* since the transfer was opened

vars == <<type, state, info, app, tester, ans, handler, change>>

Blocks == 0 .. Modulus - 1

Open == type # "unknown" /\ state \in {"request", "transfer"}

Cleared == [counter |-> 1, previous |-> 0, record |-> <<>>]

NoHandler == [at |-> "none", block |-> 0, kind |-> "unknown", counter |-> 0]

Idle == handler.at = "none"

NoAnswer == [op |-> "none", res |-> "none", block |-> 0, data |-> <<>>, kind |-> "unknown"]

Init ==
    /\ type = "unknown"
    /\ state = "idle"
    /\ info = [Cleared EXCEPT !.previous = -1]
    /\ app = [expected |-> 0, bad |-> FALSE, stream |-> <<>>, late |-> 0]
    /\ tester = [next |-> 1, acks |-> 0, stale |-> FALSE]
    /\ ans = NoAnswer
    /\ handler = NoHandler
    /\ change = [clearing |-> FALSE, met |-> FALSE]

----------------------------------------------------------------------------
(* Answers.                                                                *)

clear ==
    /\ type' = "unknown"
    /\ state' = "idle"
    /\ info' = Cleared

\* RequestContext::Respond with a negative answer, and the Confirm it ends in.
\* A suppressed answer is confirmed with a status that clears nothing.
RespondNegative(op, block, kind) ==
    \E res \in {"negative", "cancelled"} \cup (IF Functional THEN {"suppressed"} ELSE {}) :
        /\ ans' = [NoAnswer EXCEPT !.op = op, !.res = res, !.block = block, !.kind = kind]
        /\ IF res = "suppressed" THEN UNCHANGED <<type, state, info>> ELSE clear

Answer(op, cancelled, block, data, kind) ==
    ans' = [op |-> op, res |-> IF cancelled THEN "cancelled" ELSE "positive",
            block |-> block, data |-> data, kind |-> kind]

\* A handler starts: one that starts during a session change has met it.
Starts(at, block, kind) ==
    /\ Idle
    /\ handler' = [NoHandler EXCEPT !.at = at, !.block = block, !.kind = kind]
    /\ change' = [change EXCEPT !.met = @ \/ change.clearing]

Ends == handler' = NoHandler /\ UNCHANGED change

----------------------------------------------------------------------------
(* The application.                                                        *)

\* The application's answer to a request.  The adapter fails if the file does
\* not open, and expects block 0 first.
AppRequest(ok) ==
    /\ Adapter => (ok \/ Faults)
    /\ app' = IF ok
              THEN [expected |-> 0, bad |-> FALSE, stream |-> <<>>, late |-> 0]
              ELSE [app EXCEPT !.bad = Adapter]

\* The application's answer to a block.  The adapter refuses a block that is
\* not the one it expects and any block after a failed write.  A block is late
\* when a session change has met a handler of this transfer before.
AppTakes(block) == Adapter => ~app.bad /\ block = app.expected

AppData(block, ok) ==
    /\ ok => AppTakes(block) /\ Len(app.stream) < MaxBlocks /\ Len(info.record) < MaxBlocks
    /\ (Adapter /\ ~ok) => (Faults \/ ~AppTakes(block))
    /\ app' = IF ok
              THEN [app EXCEPT !.expected = (@ + 1) % Modulus, !.stream = Append(@, block),
                               !.late = @ + (IF change.met THEN 1 ELSE 0)]
              ELSE [app EXCEPT !.bad = @ \/ (Adapter /\ AppTakes(block))]

\* The adapter closes the file and accepts.
AppExit(ok) ==
    /\ Adapter => ok
    /\ app' = [app EXCEPT !.expected = IF Adapter THEN 0 ELSE @]

----------------------------------------------------------------------------
(* Requests that open a transfer.                                          *)

\* mutant: the block counter is not reset
Opened_KeepsCounter(i) == i

\* The fields of transferInfo_ that a request sets, after its answer: the
\* previous counter and the record keep what the last transfer left.
Opened(i) == [i EXCEPT !.counter = 1]

\* What the seven handlers below have in common: the application is asked and
\* the answer is sent, and only then the transfer is opened, even if the answer
\* was a cancellation that has just cleared it.
Request(kind) ==
    kind \in Services /\ \E ok, cancelled \in BOOLEAN :
        /\ AppRequest(ok)
        /\ IF ok
           THEN /\ Starts("opening", 0, kind)
                /\ Answer("open", cancelled, 0, <<>>, kind)
                /\ IF cancelled THEN clear ELSE UNCHANGED <<type, state, info>>
                /\ tester' = [next |-> 1, acks |-> 0, stale |-> FALSE]
           ELSE /\ Idle /\ ~cancelled
                /\ RespondNegative("open", 0, kind)
                /\ UNCHANGED <<tester, handler, change>>

\* The transfer is opened.  A session change between the assignments leaves the
\* type unknown, which closes the transfer as one after them does.  The transfer
\* is stale if its first block will be taken for a repetition: one that was open
\* had just accepted block 1, or a session change that met a handler left it.
Opens ==
    /\ handler.at = "opening"
    /\ info' = Opened(info)
    /\ type' = handler.kind
    /\ state' = "request"
    /\ tester' = [tester EXCEPT !.stale = info.previous = 1 /\ (Open \/ change.met)]
    /\ handler' = NoHandler
    /\ change' = [change EXCEPT !.met = change.clearing]
    /\ UNCHANGED <<app, ans>>

_requestDownload == Request("download")
_requestUpload == Request("upload")
_addFile == Request("addFile")
_replaceFile == Request("replaceFile")
_readFile == Request("readFile")
_readDir == Request("readDir")
_resumeFile == Request("resumeFile")

\* A request of any of the services that fails a check of its length, format,
\* session or condition before the application is called.
Refuse ==
    /\ Idle
    /\ RespondNegative("refused", 0, "unknown")
    /\ UNCHANGED <<app, tester, handler, change>>

\* Opens nothing.
_deleteFile ==
    /\ Idle
    /\ Services \cap (Writes \cup Reads) # {}
    /\ \/ RespondNegative("delete", 0, "unknown")
       \/ /\ Answer("delete", FALSE, 0, <<>>, "unknown")
          /\ UNCHANGED <<type, state, info>>
       \/ /\ Answer("delete", TRUE, 0, <<>>, "unknown")
          /\ clear
    /\ UNCHANGED <<app, tester, handler, change>>

----------------------------------------------------------------------------
(* TransferData and RequestTransferExit.                                   *)

\* The tester counts a block as transferred when the number it has to send
\* next is answered positively.
Counted(cancelled, block) ==
    tester' = IF ~cancelled /\ block = tester.next
              THEN [tester EXCEPT !.next = (@ + 1) % Modulus, !.acks = @ + 1]
              ELSE tester

\* The checks of _transfer: the block is the next one or the one before.
TransferCheck(block) ==
    /\ Open
    /\ block \in {info.counter, info.previous}
    /\ Starts("checked", block, "unknown")
    /\ ans' = NoAnswer
    /\ UNCHANGED <<type, state, info, app, tester>>

\* Out of sequence (0x24), or a block that is neither the next nor the last (0x73).
TransferRefused(block) ==
    /\ Idle
    /\ Open => block \notin {info.counter, info.previous}
    /\ RespondNegative("transfer", block, type)
    /\ UNCHANGED <<app, tester, handler, change>>

\* The branch for the kind of transfer, and its test for a repetition.  If the
\* type is unknown by now no branch is taken and the request is not answered.
TransferBranch ==
    /\ handler.at = "checked"
    /\ handler' = IF type = "unknown" THEN NoHandler
                  ELSE [handler EXCEPT !.kind = type,
                                       !.at = IF handler.block = info.previous
                                              THEN "repeat" ELSE "pass"]
    /\ UNCHANGED <<type, state, info, app, tester, ans, change>>

SendsData == handler.kind \in Reads \cup {"upload"}

\* The answer to the block before: nothing is passed on.  A read answers with
\* the record kept from the block before.
TransferRepeat ==
    /\ handler.at = "repeat"
    /\ \E cancelled \in BOOLEAN :
          /\ Answer("transfer", cancelled, handler.block,
                    IF SendsData THEN info.record ELSE <<>>, handler.kind)
          /\ IF cancelled THEN clear ELSE UNCHANGED <<type, state, info>>
          /\ Counted(cancelled, handler.block)
    /\ Ends
    /\ UNCHANGED app

\* DownloadData, UploadData, Read or Write of the application.
TransferPass ==
    /\ handler.at = "pass"
    /\ \E ok \in BOOLEAN :
          /\ AppData(handler.block, ok)
          /\ IF ok
             THEN /\ handler' = [handler EXCEPT !.at = "called", !.counter = info.counter]
                  /\ UNCHANGED <<type, state, info, ans, change>>
             ELSE RespondNegative("transfer", handler.block, handler.kind) /\ Ends
    /\ UNCHANGED tester

\* The counter becomes the previous one: it is read before or after a session
\* change that clears it.
TransferMove ==
    /\ handler.at = "called"
    /\ \E counter \in {handler.counter, info.counter} :
          info' = [info EXCEPT !.previous = counter]
    /\ handler' = [handler EXCEPT !.at = "moved", !.counter = 0]
    /\ UNCHANGED <<type, state, app, tester, ans, change>>

\* mutant: the first record is kept
Kept_First(record, data) == IF record = <<>> THEN data ELSE record

\* The record a read keeps for a repetition: an upload keeps the block, a file
\* read adds it to the ones before.
Kept(record, data) ==
    IF handler.kind = "upload" THEN data
    ELSE IF handler.kind \in Reads THEN record \o data
    ELSE record

\* mutant: the counter is wider than a byte
Advanced_NoWrap(i, data) == [i EXCEPT !.counter = @ + 1, !.record = Kept(@, data)]

\* The counter and the record after a block that the application accepted.
Advanced(i, data) == [i EXCEPT !.counter = (@ + 1) % Modulus, !.record = Kept(@, data)]

\* The counter moves on and the block is answered.
TransferDone ==
    /\ handler.at = "moved"
    /\ LET data == IF SendsData THEN <<Len(app.stream)>> ELSE <<>>
       IN  \E cancelled \in BOOLEAN :
              /\ Answer("transfer", cancelled, handler.block, data, handler.kind)
              /\ IF cancelled
                 THEN clear
                 ELSE info' = Advanced(info, data) /\ UNCHANGED <<type, state>>
              /\ Counted(cancelled, handler.block)
    /\ Ends
    /\ UNCHANGED app

_transfer ==
    \/ \E block \in Blocks : TransferCheck(block) \/ TransferRefused(block)
    \/ TransferBranch
    \/ TransferRepeat
    \/ TransferPass
    \/ TransferMove
    \/ TransferDone

\* The check of RequestTransferExit.
ExitCheck ==
    /\ Open
    /\ Starts("exit", 0, "unknown")
    /\ ans' = NoAnswer
    /\ UNCHANGED <<type, state, info, app, tester>>

ExitRefused ==
    /\ Idle
    /\ ~Open
    /\ RespondNegative("exit", 0, type)
    /\ UNCHANGED <<app, tester, handler, change>>

\* The application is told of the exit, and the state is cleared before the
\* answer.  If the type is unknown by now nobody is told, and the result that
\* nobody set is an error.
TransferExit ==
    /\ handler.at = "exit"
    /\ \E ok, cancelled \in BOOLEAN :
          /\ IF type = "unknown" THEN ~ok /\ UNCHANGED app ELSE AppExit(ok)
          /\ IF ok
             THEN /\ Answer("exit", cancelled, 0, <<>>, type)
                  /\ type' = "unknown"
                  /\ state' = IF cancelled THEN "idle" ELSE "exit"
                  /\ info' = Cleared
             ELSE ~cancelled /\ RespondNegative("exit", 0, type)
    /\ Ends
    /\ UNCHANGED tester

_transferExit == ExitCheck \/ TransferExit \/ ExitRefused

----------------------------------------------------------------------------
(* The callbacks of a session or security level change: _clearTransferInfo *)
(* on a thread that is not the handler's.                                  *)

\* mutant: the block counters survive a session change
ClearInfo_Kept ==
    /\ ~change.clearing
    /\ change' = [clearing |-> TRUE, met |-> change.met \/ ~Idle]
    /\ UNCHANGED <<type, state, info, app, tester, ans, handler>>

ClearInfo ==
    /\ ~change.clearing
    /\ info' = Cleared
    /\ change' = [clearing |-> TRUE, met |-> change.met \/ ~Idle]
    /\ UNCHANGED <<type, state, app, tester, ans, handler>>

ClearState ==
    /\ change.clearing
    /\ type' = "unknown"
    /\ state' = "idle"
    /\ change' = [clearing |-> FALSE, met |-> change.met \/ ~Idle]
    /\ UNCHANGED <<info, app, tester, ans, handler>>

SessionChange == ClearInfo \/ ClearState

_requestFileTransfer ==
    _addFile \/ _deleteFile \/ _replaceFile \/ _readFile \/ _readDir \/ _resumeFile

Next ==
    \/ _requestDownload
    \/ _requestUpload
    \/ _requestFileTransfer
    \/ Opens
    \/ Refuse
    \/ _transfer
    \/ _transferExit
    \/ SessionChange

Spec == Init /\ [][Next]_vars

----------------------------------------------------------------------------
(* Properties.                                                             *)

\* The state stays in its types, and a transfer is open only for a service
\* that is configured.
TypeOK ==
    /\ type \in Services \cup {"unknown"}
    /\ state \in {"idle", "request", "transfer", "exit"}
    /\ info \in [counter : Blocks, previous : Blocks \cup {-1}, record : Seq(1 .. MaxBlocks)]
    /\ app \in [expected : Blocks, bad : BOOLEAN, stream : Seq(Blocks), late : Nat]
    /\ Len(app.stream) <= MaxBlocks
    /\ tester \in [next : Blocks, acks : Nat, stale : BOOLEAN]
    /\ ans \in [op : {"none", "open", "refused", "delete", "transfer", "exit"},
                res : {"none", "positive", "negative", "cancelled", "suppressed"},
                block : Blocks, data : Seq(1 .. MaxBlocks), kind : Services \cup {"unknown"}]
    /\ handler \in [at : {"none", "opening", "checked", "repeat", "pass", "called", "moved", "exit"},
                    block : Blocks, kind : Services \cup {"unknown"}, counter : Blocks]
    /\ handler.at \in {"opening", "repeat", "pass", "called", "moved"} => handler.kind # "unknown"
    /\ change \in [clearing : BOOLEAN, met : BOOLEAN]

\* The blocks an application accepts between two requests carry the numbers 1,
\* 2, 3, ... without a gap or a repetition, through the wrap of the counter,
\* whatever numbers the tester sends, whichever answers fail and wherever a
\* session change falls.  The exception is a late block, accepted from a handler
\* that was running when a session change cleared the counters under it.
StreamInOrder == \A i \in 1 .. Len(app.stream) - app.late : app.stream[i] = i % Modulus

\* A positive answer to RequestTransferExit means that the application accepted
\* exactly the blocks whose numbers the tester was told, one by one, had been
\* taken, unless a session change met a handler of this transfer.  There is one
\* exception, a stale transfer: opened over one that had just accepted block 1, or
\* after a session change met the handler of block 1, it finds its own first
\* block in previousblockSequenceCounter.  It loses that block, can take no
\* other, and still ends well.
ExitIsWhole ==
    (ans.op = "exit" /\ ans.res = "positive" /\ ~change.met) =>
        \/ tester.acks = Len(app.stream)
        \/ tester.stale /\ tester.acks = 1 /\ app.stream = <<>>

\* A block of an upload that is asked for again is answered with the data of
\* the first time, not with another block's, unless a session change met a
\* handler of this transfer.  Before its first block a transfer may answer the
\* number that the one before left behind, which is 1 only in a stale transfer.
UploadRepeatsData ==
    (ans.op = "transfer" /\ ans.res = "positive" /\ ans.kind = "upload" /\ ~change.met) =>
        IF app.stream = <<>>
        THEN tester.stale \/ ans.block # 1
        ELSE ans.data = <<Len(app.stream)>> /\ ans.block = Len(app.stream) % Modulus

\* The tester's first block has number 1 (tools/uds_download_client.py): it is
\* answered positively when the file takes it.
FirstBlockAccepted ==
    ~(ans.op = "transfer" /\ ans.block = 1 /\ ans.kind = "download" /\ ans.res = "negative"
        /\ tester.next = 1 /\ ~app.bad)

----------------------------------------------------------------------------
(* The inductive invariant behind the three.  All of it is about a         *)
(* transfer whose handlers have met no session change.                     *)

\* The blocks the application accepted that the counters account for.
Accounted == Len(app.stream) - (IF handler.at \in {"called", "moved"} THEN 1 ELSE 0)

\* A transfer is open, and neither a request nor a session change is replacing it.
Settled == Open /\ ~change.met /\ ~change.clearing /\ handler.at # "opening"

\* While a transfer is open the next counter continues what was accepted.
CounterFollows == Settled => info.counter = (Accounted + 1) % Modulus

\* The tester and the server count alike, and the block that is next is not
\* taken for a repetition; a stale transfer takes nothing else.
TesterFollows ==
    Settled =>
        IF tester.stale
        THEN /\ info.previous = 1 /\ info.counter = 1
             /\ app.stream = <<>> /\ tester.acks \in {0, 1}
             /\ tester.acks = 1 => tester.next # 1
             /\ handler.at \notin {"pass", "called", "moved"}
        ELSE /\ tester.acks = Accounted
             /\ tester.next = info.counter
             /\ info.previous = info.counter <=> handler.at = "moved"

\* What a handler has read still holds.
HandlerFollows ==
    ~change.met =>
        /\ handler.at # "none" => ~change.clearing
        /\ handler.at \notin {"none", "opening"} => Open
        /\ handler.at = "checked" => handler.block \in {info.counter, info.previous}
        /\ handler.at = "repeat" => handler.block = info.previous
        /\ handler.at \in {"pass", "called", "moved"} => handler.block = info.counter
        /\ handler.at = "called" => handler.counter = info.counter
        /\ handler.at \in {"repeat", "pass", "called", "moved"} => handler.kind = type

\* A request starts with an empty stream, and no other handler has answered yet.
OpeningIsEmpty ==
    IF handler.at = "opening"
    THEN /\ app.stream = <<>> /\ ans.op = "open"
         /\ tester = [next |-> 1, acks |-> 0, stale |-> FALSE]
    ELSE handler.at # "none" => ans.op = "none"

\* Blocks are late only after a session change has met a handler.
LateIsMet ==
    /\ app.late <= Len(app.stream)
    /\ app.late > 0 => change.met
    /\ handler.at \in {"called", "moved"} => app.stream # <<>>

\* A closed transfer leaves no block number behind.
ClosedIsCleared == ~change.met /\ (~Open \/ change.clearing) => info.previous \in {-1, 0}

\* The record kept by an upload is the last block the application gave.
RecordIsLast ==
    (Settled /\ type = "upload" /\ Accounted > 0 /\ handler.at # "moved") =>
        /\ info.record = <<Accounted>>
        /\ info.previous = Accounted % Modulus

TransferIInv ==
    /\ TypeOK /\ StreamInOrder /\ ExitIsWhole /\ UploadRepeatsData
    /\ CounterFollows /\ TesterFollows /\ HandlerFollows /\ OpeningIsEmpty
    /\ LateIsMet /\ ClosedIsCleared /\ RecordIsLast

=============================================================================
