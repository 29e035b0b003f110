---------------------------- MODULE UcmTransfer -----------------------------
(***************************************************************************)
(* ota::UcmService: the transfer sessions, their files, and the hand-over  *)
(* of a package to the OTA manager, with the clients that drive them       *)
(* (ucm_client and UpdateAgent).                                           *)
(*                                                                         *)
(* Methods run one at a time, as long as none takes longer than the 100 ms *)
(* after which vsomeip starts another dispatcher thread.  What interferes  *)
(* with a method is the loss of its answer (the proxy gives up after five  *)
(* seconds) and a restart of the process in the middle of it, which leaves *)
(* its files half way.  Sizes are counted in blocks; a block is the client *)
(* it comes from and its number, so a package is the sequence of its       *)
(* blocks, and block 1 carries the manifest.                               *)
(***************************************************************************)
EXTENDS Naturals, Sequences, FiniteSets

CONSTANTS
  Clients,       \* clients; each sends one package
  Size,          \* number of blocks of each client's package
  Deps,          \* the set of versions its manifest depends on
  Deployed,      \* current_version() when the service is first started
  Capacity,      \* blocks the file system of transfer_dir_ can hold
  Faults,        \* the file operations that may fail
  None, Torn,    \* no such file, session or update; a half-written .meta
  MaxStarts,     \* bound on the number of TransferStart calls
  MaxRestarts    \* bound on the number of restarts of the service

ASSUME UcmAssumption ==
  /\ Size \in [Clients -> Nat \ {0}]
  /\ Deployed \notin Clients
  /\ None \notin Seq(Clients \X Nat)
  /\ None \notin [expected_bytes : Nat, received_bytes : Nat, expected_block : Nat]
  /\ DOMAIN Deps = Clients
  /\ Faults \subseteq {"statvfs", "create", "open", "meta", "img", "digest"}
  /\ Capacity \in Nat /\ MaxStarts \in Nat /\ MaxRestarts \in Nat

VARIABLES
  sessions,   \* sessions_: a Session or None for each transfer id
  nextId,     \* next_id_
  zip,        \* <id>.zip: the blocks written, or None
  meta,       \* <id>.meta: a Session, Torn or None
  img,        \* <id>.zip.img: the blocks written, or None
  ota,        \* the update the OTA manager runs, or None
  version,    \* VersionManager::current_version()
  client,     \* what each client is doing
  starts,     \* number of TransferStart calls (bound only)
  restarts,   \* number of restarts
  resumed     \* history: the transfers loaded from disk since the restart

vars == <<sessions, nextId, zip, meta, img, ota, version, client, starts,
          restarts, resumed>>

Ids == 1..MaxStarts

\* The package of a client.  A package is named after its client, and so is
\* the version it carries.
Package(c) == [n \in 1..Size[c] |-> <<c, n>>]

Session(expected, received) ==
  [expected_bytes |-> expected, received_bytes |-> received,
   expected_block |-> received + 1]

\* mutant: the state of the transfer is not persisted
SaveSession_Skipped(id, s) == UNCHANGED meta

\* Nobody looks at the stream: a .meta that cannot be opened stays as it was,
\* one that cannot be written is left torn.
SaveSession(id, s) ==
  \/ meta' = [meta EXCEPT ![id] = s]
  \/ "meta" \in Faults /\ meta' \in {meta, [meta EXCEPT ![id] = Torn]}

\* mutant: next_id_ is not incremented
TakeId_Same == UNCHANGED nextId

TakeId == nextId' = nextId + 1

-----------------------------------------------------------------------------
(* Files *)

Blocks(file) == IF file = None THEN 0 ELSE Len(file)

\* The blocks of the file system that the files take.
BlocksIn(files) == UNION {{id} \X (1..Blocks(files[id])) : id \in Ids}

\* f_bavail * f_frsize
Available == LET used == Cardinality(BlocksIn(zip)) + Cardinality(BlocksIn(img))
             IN IF used > Capacity THEN 0 ELSE Capacity - used

\* A stream that runs into a full disk keeps what fitted; nobody looks at it.
Fitting(blocks, room) == SubSeq(blocks, 1, IF Len(blocks) > room THEN room ELSE Len(blocks))

-----------------------------------------------------------------------------
(* Answers and restarts *)

\* The answer reaches the client, or the client waits for it in vain.
Answer(c, next) == client' = [client EXCEPT ![c] = next]

Errors == {"kInvalidTransferId", "kInvalidPackageManifest", "kAuthenticationFailed",
           "kInsufficientMemory", "kOperationNotPermitted", "kServiceBusy",
           "kIncompatiblePackageVersion", "kMissingDependencies",
           "kIncorrectBlock", "kIncorrectSize", "kInsufficientData"}

Idle == [step |-> "start", id |-> 0, next |-> 1, errc |-> "kSuccess"]

Failed(errc) == [Idle EXCEPT !.step = "failed", !.errc = errc]

\* A proxy that waited five seconds reports kOperationNotPermitted, and
\* ucm_client gives up; a client that resumes sends its request again.
NoAnswer(c) == Answer(c, Failed("kOperationNotPermitted")) \/ client' = client

\* On an error the client gives up, as ucm_client and UpdateAgent do.
Fail(c, errc) == Answer(c, Failed(errc)) \/ NoAnswer(c)

At(c, step) == client[c].step = step

\* The process ends and starts again: sessions_ is empty, next_id_ is 1, the
\* OTA manager is idle, the files and the persisted version stay.
Restart ==
  /\ restarts < MaxRestarts
  /\ restarts' = restarts + 1
  /\ sessions' = [id \in Ids |-> None]
  /\ nextId' = 1
  /\ ota' = None
  /\ resumed' = {}
  /\ UNCHANGED <<version, client>>

\* A restart between two methods.
RestartIdle ==
  /\ Restart
  /\ UNCHANGED <<zip, meta, img, starts>>

-----------------------------------------------------------------------------
(* TransferStart *)

\* Free space is only looked at when statvfs succeeds.
Admitted(c) == Size[c] <= Available \/ "statvfs" \in Faults

TransferStart(c) ==
  /\ At(c, "start")
  /\ starts < MaxStarts
  /\ starts' = starts + 1
  /\ \/ /\ Size[c] > Available
        /\ Fail(c, "kInsufficientMemory")
        /\ UNCHANGED <<sessions, nextId, zip, meta>>
     \/ /\ Admitted(c)
        /\ "create" \in Faults
        /\ TakeId
        /\ Fail(c, "kInsufficientMemory")
        /\ UNCHANGED <<sessions, zip, meta>>
     \/ /\ Admitted(c)
        /\ TakeId
        /\ zip' = [zip EXCEPT ![nextId] = <<>>]
        /\ sessions' = [sessions EXCEPT ![nextId] = Session(Size[c], 0)]
        /\ SaveSession(nextId, Session(Size[c], 0))
        /\ \/ Answer(c, [Idle EXCEPT !.step = "data", !.id = nextId])
           \/ NoAnswer(c)
  /\ UNCHANGED <<img, ota, version, restarts, resumed>>

\* Stopped after the new .zip was truncated, before the .meta was rewritten,
\* or while it was.
TransferStartStopped(c) ==
  /\ At(c, "start")
  /\ starts < MaxStarts
  /\ starts' = starts + 1
  /\ Admitted(c)
  /\ Restart
  /\ zip' = [zip EXCEPT ![nextId] = <<>>]
  /\ meta' \in {meta, [meta EXCEPT ![nextId] = Torn]}
  /\ UNCHANGED img

-----------------------------------------------------------------------------
(* TransferData *)

\* sessions_.find, or LoadSession when the id is not in memory.
Found(id) == IF sessions[id] # None THEN sessions[id] ELSE meta[id]

Resume(id) == resumed' = IF sessions[id] = None THEN resumed \cup {id} ELSE resumed

LoadSession(id) ==
  /\ sessions' = [sessions EXCEPT ![id] = Found(id)]
  /\ Resume(id)

\* The session after one more block.
Advanced(id) == Session(Found(id).expected_bytes, Found(id).received_bytes + 1)

\* mutant: the size is compared before the block is counted
BlockError_Size(id, n) ==
  CASE n # Found(id).expected_block -> "kIncorrectBlock"
    [] n = Found(id).expected_block /\ Found(id).received_bytes > Found(id).expected_bytes
         -> "kIncorrectSize"
    [] OTHER -> "kSuccess"

BlockError(id, n) ==
  CASE n # Found(id).expected_block -> "kIncorrectBlock"
    [] n = Found(id).expected_block /\ Found(id).received_bytes + 1 > Found(id).expected_bytes
         -> "kIncorrectSize"
    [] OTHER -> "kSuccess"

\* The stream is opened for appending, so a missing .zip is created.  A block
\* that does not fit is lost without notice.
Appended(id, block) ==
  LET old == IF zip[id] = None THEN <<>> ELSE zip[id]
  IN [zip EXCEPT ![id] = old \o Fitting(<<block>>, Available)]

\* The step of a client after block n.
AfterBlock(c, n) ==
  [client[c] EXCEPT !.next = n + 1,
                    !.step = IF n = Size[c] THEN "exit" ELSE "data"]

TransferData(c) ==
  LET id == client[c].id
      n == client[c].next
  IN /\ At(c, "data")
     /\ \/ /\ Found(id) \in {None, Torn}
           /\ Fail(c, "kInvalidTransferId")
           /\ UNCHANGED <<sessions, zip, meta, resumed>>
        \/ /\ Found(id) \notin {None, Torn}
           /\ BlockError(id, n) # "kSuccess"
           /\ LoadSession(id)
           /\ Fail(c, BlockError(id, n))
           /\ UNCHANGED <<zip, meta>>
        \/ /\ Found(id) \notin {None, Torn}
           /\ BlockError(id, n) = "kSuccess"
           /\ "open" \in Faults
           /\ LoadSession(id)
           /\ Fail(c, "kInsufficientMemory")
           /\ UNCHANGED <<zip, meta>>
        \/ /\ Found(id) \notin {None, Torn}
           /\ BlockError(id, n) = "kSuccess"
           /\ zip' = Appended(id, <<c, n>>)
           /\ sessions' = [sessions EXCEPT ![id] = Advanced(id)]
           /\ Resume(id)
           /\ SaveSession(id, Advanced(id))
           /\ Answer(c, AfterBlock(c, n)) \/ NoAnswer(c)
     /\ UNCHANGED <<nextId, img, ota, version, starts, restarts>>

\* Stopped after the block was appended, before or while SaveSession ran.
TransferDataStopped(c) ==
  LET id == client[c].id
      n == client[c].next
  IN /\ At(c, "data")
     /\ Found(id) \notin {None, Torn}
     /\ BlockError(id, n) = "kSuccess"
     /\ Restart
     /\ zip' = Appended(id, <<c, n>>)
     /\ meta' \in {meta, [meta EXCEPT ![id] = Torn]}
     /\ UNCHANGED <<img, starts>>

-----------------------------------------------------------------------------
(* TransferExit, DeleteTransfer, Cancel *)

ExitError(id) ==
  CASE sessions[id] = None -> "kInvalidTransferId"
    [] sessions[id] # None /\ sessions[id].received_bytes = 0 -> "kOperationNotPermitted"
    [] sessions[id] # None /\ sessions[id].received_bytes \notin {0, sessions[id].expected_bytes}
         -> "kInsufficientData"
    [] OTHER -> "kSuccess"

\* A query: it changes nothing in the service.
TransferExit(c) ==
  /\ At(c, "exit")
  /\ IF ExitError(client[c].id) = "kSuccess"
       THEN Answer(c, [client[c] EXCEPT !.step = "process"])
       ELSE Fail(c, ExitError(client[c].id))
  /\ UNCHANGED <<sessions, nextId, zip, meta, img, ota, version, starts, restarts, resumed>>

RemoveSessionFiles(id) ==
  /\ zip' = [zip EXCEPT ![id] = None]
  /\ meta' = [meta EXCEPT ![id] = None]

\* DeleteTransfer and Cancel, at any point of the transfer.
DeleteTransfer(c) ==
  LET id == client[c].id
  IN /\ client[c].step \in {"data", "exit", "process"}
     /\ IF sessions[id] = None
          THEN Fail(c, "kInvalidTransferId") /\ UNCHANGED <<sessions, zip, meta>>
          ELSE /\ sessions' = [sessions EXCEPT ![id] = None]
               /\ RemoveSessionFiles(id)
               /\ Answer(c, Idle) \/ NoAnswer(c)
     /\ UNCHANGED <<nextId, img, ota, version, starts, restarts, resumed>>

\* Stopped between the two unlinks.
DeleteTransferStopped(c) ==
  LET id == client[c].id
  IN /\ client[c].step \in {"data", "exit", "process"}
     /\ sessions[id] # None
     /\ Restart
     /\ zip' = [zip EXCEPT ![id] = None]
     /\ UNCHANGED <<meta, img, starts>>

-----------------------------------------------------------------------------
(* ProcessSwPackage *)

\* UnpackPackage succeeds when the file starts with a manifest.
Unpacks(file) == file # None /\ file # <<>> /\ \E c \in Clients : file[1] = <<c, 1>>

Manifest(file) == file[1][1]

\* mutant: the signature is not compared
Authentic_Skipped(file) == TRUE

\* HMAC over the payload: the file is the package the manifest was made for.
Authentic(file) == file = Package(Manifest(file))

PackageError(id) ==
  CASE sessions[id] = None -> "kInvalidTransferId"
    [] sessions[id] # None /\ ~Unpacks(zip[id]) -> "kInvalidPackageManifest"
    [] sessions[id] # None /\ Unpacks(zip[id]) ->
         IF ~Authentic(zip[id]) THEN "kAuthenticationFailed"
         ELSE IF Manifest(zip[id]) = version THEN "kIncompatiblePackageVersion"
         ELSE IF \E d \in Deps[Manifest(zip[id])] : d # version THEN "kMissingDependencies"
         ELSE "kSuccess"

\* What the .img holds once the stream is closed: as much of the payload as
\* fits, or, when it cannot be opened, what it held before.
Written(id) ==
  LET room == Available + Blocks(img[id])
  IN {Fitting(zip[id], room)} \cup (IF "img" \in Faults THEN {img[id]} ELSE {})

\* The .img is written before start_update is asked, and the digest is taken
\* of what it holds then; without a file there is no digest.  A busy OTA
\* manager makes start_update return false.
ProcessSwPackage(c) ==
  LET id == client[c].id
  IN /\ At(c, "process")
     /\ \/ /\ PackageError(id) # "kSuccess"
           /\ Fail(c, PackageError(id))
           /\ UNCHANGED <<sessions, zip, meta, img, ota>>
        \/ /\ PackageError(id) = "kSuccess"
           /\ \E image \in Written(id) :
                /\ image = None \/ "digest" \in Faults
                /\ img' = [img EXCEPT ![id] = image]
           /\ Fail(c, "kInsufficientMemory")
           /\ UNCHANGED <<sessions, zip, meta, ota>>
        \/ /\ PackageError(id) = "kSuccess"
           /\ ota # None
           /\ \E image \in Written(id) \ {None} : img' = [img EXCEPT ![id] = image]
           /\ Fail(c, "kServiceBusy")
           /\ UNCHANGED <<sessions, zip, meta, ota>>
        \/ /\ PackageError(id) = "kSuccess"
           /\ ota = None
           /\ \E image \in Written(id) \ {None} :
                /\ img' = [img EXCEPT ![id] = image]
                /\ ota' = [id |-> id, image |-> image, version |-> Manifest(zip[id])]
           /\ sessions' = [sessions EXCEPT ![id] = None]
           /\ RemoveSessionFiles(id)
           /\ Answer(c, [client[c] EXCEPT !.step = "done"]) \/ NoAnswer(c)
     /\ UNCHANGED <<nextId, version, starts, restarts, resumed>>

\* Stopped while the .img was written, or after the update was started and
\* the .zip removed.
ProcessStopped(c) ==
  LET id == client[c].id
  IN /\ At(c, "process")
     /\ PackageError(id) = "kSuccess"
     /\ Restart
     /\ \E image \in Written(id) \ {None} :
          \/ /\ \E n \in 0..Len(image) : img' = [img EXCEPT ![id] = SubSeq(image, 1, n)]
             /\ UNCHANGED zip
          \/ /\ ota = None
             /\ img' = [img EXCEPT ![id] = image]
             /\ zip' = [zip EXCEPT ![id] = None]
     /\ UNCHANGED <<meta, starts>>

-----------------------------------------------------------------------------
(* The OTA manager, as OtaManager describes it: an update it accepted ends, *)
(* and a confirmed one changes the current version.                         *)
OtaSettles ==
  /\ ota # None
  /\ ota' = None
  /\ version' \in {version, ota.version}
  /\ UNCHANGED <<sessions, nextId, zip, meta, img, client, starts, restarts, resumed>>

\* A client that ended is run again.
RunAgain(c) ==
  /\ client[c].step \in {"failed", "done"}
  /\ client' = [client EXCEPT ![c] = Idle]
  /\ UNCHANGED <<sessions, nextId, zip, meta, img, ota, version, starts, restarts, resumed>>

-----------------------------------------------------------------------------
Init ==
  /\ sessions = [id \in Ids |-> None]
  /\ nextId = 1
  /\ zip = [id \in Ids |-> None]
  /\ meta = [id \in Ids |-> None]
  /\ img = [id \in Ids |-> None]
  /\ ota = None
  /\ version = Deployed
  /\ client = [c \in Clients |-> Idle]
  /\ starts = 0
  /\ restarts = 0
  /\ resumed = {}

Service(c) ==
  \/ TransferStart(c) \/ TransferStartStopped(c)
  \/ TransferData(c) \/ TransferDataStopped(c)
  \/ TransferExit(c)
  \/ DeleteTransfer(c) \/ DeleteTransferStopped(c)
  \/ ProcessSwPackage(c) \/ ProcessStopped(c)

Next == RestartIdle \/ OtaSettles \/ \E c \in Clients : Service(c) \/ RunAgain(c)

Spec == Init /\ [][Next]_vars

-----------------------------------------------------------------------------
ClientStates ==
  [step : {"start", "data", "exit", "process", "done", "failed"},
   id : Ids \cup {0}, next : Nat, errc : Errors \cup {"kSuccess"}]

Sessions == UNION {{Session(Size[c], r) : r \in 0..Size[c]} : c \in Clients}

Files == Seq(Clients \X Nat) \cup {None}

\* Every variable keeps its type; no session ever counts more blocks than its
\* TransferStart announced, whoever sends them.
TypeOK ==
  /\ sessions \in [Ids -> Sessions \cup {None}]
  /\ meta \in [Ids -> Sessions \cup {None, Torn}]
  /\ zip \in [Ids -> Files]
  /\ img \in [Ids -> Files]
  /\ nextId \in 1..(MaxStarts + 1)
  /\ ota \in [id : Ids, image : Seq(Clients \X Nat), version : Clients] \cup {None}
  /\ version \in Clients \cup {Deployed}
  /\ client \in [Clients -> ClientStates]
  /\ starts \in 0..MaxStarts /\ restarts \in 0..MaxRestarts
  /\ resumed \subseteq Ids

\* The disk has room for the .zip and the .img of every transfer, for each
\* package it can hold at all, with one block to spare for each restart, and
\* statvfs tells how much.
RoomFor(blocks) ==
  /\ \A c \in Clients : Size[c] <= Capacity => Size[c] + MaxRestarts <= blocks
  /\ 2 * (MaxStarts * blocks) <= Capacity

AmpleDisk == "statvfs" \notin Faults /\ \E blocks \in 0..Capacity : RoomFor(blocks)

\* What a session remembers and what its .meta holds agree between any two
\* methods, as long as .meta files can be written: a restart there loses
\* nothing of an open transfer.
DiskFollowsMemory ==
  "meta" \notin Faults => \A id \in Ids : sessions[id] # None => meta[id] = sessions[id]

\* What the OTA manager is given is a whole package as its client built it,
\* under the version of its manifest, whatever answers were lost and however
\* restarts mixed the transfers: ProcessSwPackage checks the signature of
\* the bytes it hands over.
HandedIsSent ==
  ota # None => ota.image = Package(ota.version)

\* A transfer that TransferExit accepted holds exactly the client's package,
\* however often blocks were sent again because an answer was lost.
ExitMeansWhole ==
  \A c \in Clients :
    At(c, "process") /\ sessions[client[c].id] # None
      => zip[client[c].id] = Package(c)

\* The same as long as the service was not restarted: a lost answer, a block sent
\* again, a transfer started again or a failing file do not spoil it.
WholeUnlessRestarted == restarts = 0 => ExitMeansWhole

\* The .img given to the OTA manager stays what it was while the update runs
\* ("kept for OtaManager").
ImageKept == ota # None => img[ota.id] = ota.image

\* The same, as long as no transfer was resumed from disk since the service
\* started: then next_id_ is above every open transfer.
ImageKeptUnlessResumed == resumed = {} => ImageKept

-----------------------------------------------------------------------------
(* The inductive invariant behind ImageKeptUnlessResumed *)

HoldsId(state) == state.step \in {"data", "exit", "process"} => state.id \in Ids

\* A client that is past TransferStart has an id that was given out.
IdsGiven ==
  /\ starts \in 0..MaxStarts
  /\ nextId \in 1..(starts + 1)
  /\ client \in [Clients -> ClientStates]
  /\ \A c \in Clients : HoldsId(client[c])

\* sessions_ and the files are maps over the ids.
Tables ==
  /\ DOMAIN sessions = Ids
  /\ DOMAIN meta = Ids
  /\ DOMAIN img = Ids

\* Without a resumed transfer, every open transfer and the one being installed
\* have an id below next_id_, and the one being installed is not open.
ImageOwned ==
  resumed = {} =>
    /\ \A id \in Ids : sessions[id] # None => id < nextId
    /\ ota # None =>
         /\ ota.id \in Ids
         /\ ota.id < nextId
         /\ sessions[ota.id] = None
         /\ img[ota.id] = ota.image

UcmIInv == IdsGiven /\ Tables /\ DiskFollowsMemory /\ ImageOwned

-----------------------------------------------------------------------------
(* The inductive invariant behind HandedIsSent and WholeUnlessRestarted *)

\* No session is built from a .meta that was left behind.
MetaCurrent == "meta" \notin Faults \/ restarts = 0

\* Neither file of a transfer is longer than this many blocks, and the .zip of
\* one that can go on has at most one block more than it counts for each
\* restart: the one that was appended and not counted.
FilesWithin(id, blocks) ==
  /\ Blocks(zip[id]) <= blocks /\ Blocks(img[id]) <= blocks
  /\ Found(id) \notin {None, Torn} =>
       /\ Found(id).expected_bytes + MaxRestarts <= blocks
       /\ Blocks(zip[id]) <= Found(id).received_bytes + restarts

\* A disk with room enough for such files keeps to it.
DiskFits ==
  "statvfs" \notin Faults /\ MetaCurrent =>
    \A blocks \in 0..Capacity : RoomFor(blocks) => \A id \in Ids : FilesWithin(id, blocks)

\* Until the first restart no .meta outlives its session, so none is loaded.
NothingLoaded ==
  restarts = 0 => resumed = {} /\ \A id \in Ids : sessions[id] = None => meta[id] = None

Holding(c) == client[c].step \in {"data", "exit", "process"}

\* A transfer has one client, and its .zip is what that client sent, as far as
\* the session counts it.
Owned(c) ==
  /\ client[c].id < nextId
  /\ \A d \in Clients : Holding(d) /\ client[d].id = client[c].id => d = c
  /\ sessions[client[c].id] # None =>
       /\ sessions[client[c].id].expected_bytes = Size[c]
       /\ zip[client[c].id] =
            SubSeq(Package(c), 1, sessions[client[c].id].received_bytes)
       /\ At(c, "process") => sessions[client[c].id].received_bytes = Size[c]

\* That is so until the first restart.
TransfersOwned ==
  restarts = 0 /\ AmpleDisk => \A c \in Clients : Holding(c) => Owned(c)

TransferIInv == DiskFits /\ NothingLoaded /\ TransfersOwned
=============================================================================
