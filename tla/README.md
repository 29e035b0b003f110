# Verification of the RK3568 automotive platform

TLA+ specifications of the platform's own logic (OTA update, UCM package
transfer, DoIP server, event loop, SOME/IP requests) and of the part of the
UDS server its diagnostic program runs, the TLC configurations that check them
on small instances and TLAPS proofs for every instance. Paths are relative to
the repository; `PROJECT.json` maps every definition to the lines it models.

## 1. The system

| Component | State | Operations | Interacts with |
|---|---|---|---|
| OTA manager (`src/ota/ota_manager`) | progress, worker thread, mutex | `start_update`, `switch_and_reboot`, `report_boot_result`, `rollback`, worker `run_update` | slot manager, boot controller, version manager, verify strategy; called by vehicle status, UCM, UDS routine |
| Mock A/B back end (`slot_manager`, `boot_controller`) | slot files, `current_`, `last_good_`, boot files | write inactive, activate, roll back, mark | OTA manager |
| LinuxAb back end | partitions, `rkboot_control` | the same interface | OTA manager |
| Version manager | current, target, history, three files | `set_current`, `set_target`, `record`, `load` | OTA manager, UCM, vehicle status |
| UCM service (`ucm_service`) | sessions, `next_id_`, `.zip`/`.meta`/`.img` files | `TransferStart/Data/Exit`, `DeleteTransfer`, `Cancel`, `ProcessSwPackage`, `Activate`, `Finish`, `Rollback`, queries | clients over SOME/IP, OTA manager |
| UCM clients (`ucm_client`, `UpdateAgent`) | position in the transfer | the block loop | UCM service |
| Vehicle status service | active update id | `GetStatus`, `StartUpdate`, `GetProgress`, `Rollback`, event | OTA manager, SOME/IP |
| Communication layer (`src/com`) | pending requests, handlers, offers | request, async request, subscribe, offer, notify | vsomeip |
| DoIP server (`src/doip`) | connections, routing table, channels, timers | frame handlers, `maintain_connections`, `erase_client` | TCP server, UDS server |
| TCP server, event loop (`src/net`) | clients, callbacks, posted tasks, `running_` | accept, read, close, run, stop, post | DoIP server; posting threads, watcher thread of the programs |
| UDS server core (`isoft-uds`: `server_impl`, request contexts, session manager) | wait queue, context table, session, P2 and S3 timers | `Indicate`, `HandleMessage`, pool jobs, 0x10, 0x3E, time-outs | DoIP server (loop thread), thread pool, services |
| UDS transfer manager | kind of transfer, block counters, record | 0x34, 0x35, 0x36, 0x37, 0x38, session change | UDS server core, download adapter |
| UDS adapters (`src/diag`) | download file, block counter | download, routine 0x1100 | UDS server, OTA manager |

What is hard here: `OtaManager` is called from several threads, installs
without its lock and joins a thread under it; every file operation may fail
half way; the UCM process may stop between two writes and answers may be lost;
DoIP reuses fds at once, keeps two inverse maps and three timers per
connection; epoll names fds and not connections; a SOME/IP client keeps one
handler per method while calls, answers and time-outs overlap; UDS requests are
read and removed from their queue under two separate locks, by threads that
timers cancel. Sections 3 and 4 say what makes each component correct;
`PROJECT.json` lists the hazards line by line.

## 2. Modules

| Module | Models |
|---|---|
| `ABUpdate` | abstract: what an A/B update promises about the device |
| `OtaManager`, `OtaManagerProofs` | OTA manager threads, mock A/B back end, version manager in memory, digest check; proofs, including that it implements `ABUpdate` |
| `UcmTransfer`, `UcmTransferProofs`, `UcmFilesProofs` | UCM service with its files, clients, lost answers, restarts; proofs about ids and `.meta` files, and about what the files hold |
| `DoipServer`, `DoipServerProofs` | DoIP server: what its callbacks keep per connection |
| `EpollLoop`, `EpollLoopProofs` | event loop and TCP server below it, posting threads, watcher |
| `ComRpc`, `ComRpcProofs` | requests of the communication layer over vsomeip |
| `UdsServer`, `UdsServerProofs` | request path and sessions of the UDS server behind DoIP |
| `UdsTransfer`, `UdsTransferProofs` | transfer manager with the application behind it |
| `MCOtaManager`, `MCUcmTransfer` | instances for TLC; the other modules need none |

### OtaManager

A method body under `progress_mutex_` is one action, since nothing interleaves
with it. `start_update` is not atomic and is split where the code lets others
in: `StartUpdate` (the check under the lock), `JoinReturns` (after the join
that holds the lock), `Spawn` (the assignment of `worker_` after unlocking; on a
joinable thread it terminates the process). The worker has one action per
`set_progress` and one per file operation of the install, so that API threads
interleave with each. An image is what the device can tell about it: factory,
matching its digest, not matching, without a digest, torn, short, missing.
`Faults` names the operations that may fail. A failure that the code notices
leaves a torn image and ends in Failed. The fault `"short"` is the failure it
does not notice: `write_image_to_inactive` tests the stream only after an
insertion that a full disk cut short without an error bit, `write_text` tests it
before anything is flushed, `copy_file` tests `bad()` only. The call then reports
success and leaves a short image, an empty version file, or a short staged copy,
which a digest check catches if there is a digest. The files of the boot
controller and the slot numbers on disk are never read back and are not
modelled, only that writing them may fail. `notified` is the last progress given to the
callback; `origin` is a history variable. `progress.detail` is
left out, because no decision depends on it. The device and the process do not
restart: `MockBootController::reboot` only writes a file, and the services
never read the slot files back.

### UcmTransfer

One action per method, plus one `...Stopped` action per method that writes
files, which ends it half way and restarts the service. Methods are taken to
run one at a time. This holds while none takes longer than 100 ms, after which
vsomeip starts another dispatcher; overlapping methods are in the plan. A block
is a client and a number, a package the sequence of its blocks, and the
signature holds when the file is the package its first block announces. A
lost answer leaves the client where it is, to send again, or makes it give up
with `kOperationNotPermitted` as the proxy does. Sizes and disk space are counted
in blocks; `.meta` files are too small to count. `OtaSettles` stands for the OTA manager, which
`OtaManager` describes. `resumed` is a history variable.

### DoipServer

The loop thread runs one callback at a time; `reading` is the fd whose
`on_read` has taken some frames and not yet all of them, so that peers and time
act between two frames. A frame is its handler's decision. A deadline is off,
armed or expired: any expiry that the durations would order is allowed in any
order. Answers change no state and are left out, so is what UDS does with a
diagnostic message. A peer may send, hang up or stay silent.

### EpollLoop

`epoll_wait` reports fd numbers, and the number of a closed fd is given to the
next connection. Every accepted connection has a number of its own in the
model, and an event carries the connection it was reported for, so that
`EventsAreCurrent` can say whether the callback found under the fd is that
connection's. The batch is a set: its events are dispatched in any order, and
peers, posters, the timer and the watcher act between two of them. Sources are
level triggered. `on_wake` and `post` are split where the code holds no lock
(eventfd, then queue; queue, then eventfd). No program of the repository calls
`post` yet; its promise is checked because the class offers it. `ran` and
`pushed` are history variables. The closing of a timed-out connection is a
`shutdown`, after which the fd's own callback closes it; a mutant that closes in
place shows why this matters.

### ComRpc

vsomeip (`third_party/vsomeip`, `application_impl`) has one handler slot per
method in a client; an answer is queued together with the handler that is
registered when it arrives, and dropped if there is none. Nothing matches an
answer with its request. Requests are numbered, and an answer's payload is the number it answers.
`SendRequest` is split at its calls into vsomeip and its wait; the handler at
the assignment of the data and the setting of `done`. The service
comes and goes, and a client may still believe it available. `shared` is a
history variable: calls that met another open call of their method.

### UdsServer

The event loop's thread goes through `Indicate` and `HandleMessage`, each pool
thread through the steps of a job between its locks: read the front of
`waitQueue_`, look into the context table, pop, start P2, process, answer,
confirm, finish. Steps between which nobody can look are merged (the end of a
request; the pop and the stop of S3). All DoIP requests have priority 0. Two
steps are undefined in C++ and are choices here: popping an empty queue ends
the process, a P2 job whose context was freed ends it or goes unnoticed.
Two more are unlocked assignments, modelled by what a race can leave behind:
`SetSession` assigns session and owner, so a Confirm that meets the S3 job may
leave one's session with the other's owner (`ConfirmMeetsS3`); `_changeState`
tests and then assigns, so a cancellation by P2 may be overwritten by the thread
that answers (`Overwritten`). What `Indicate` may read between the two
assignments of a single call is left out: it decides only a refusal that
`handle_diag_message` ignores. So is the owner's priority
(`nonDefaultPriority_`), as it replaces nobody when all priorities are 0.
A session is the default one or belongs to a tester; services
other than 0x10 and 0x3E are a request that is answered.

### UdsTransfer

For one tester, whose requests the server handles one at a time
(`OneThreadPerClient`). The callback of a session change runs on another thread,
the S3 job's, without a lock, so handlers are split where they read or write
what it clears: TransferData into its checks, the branch with the test for a
repetition, the call of the application, the update of the previous counter, and
the update of the counter with the answer; the requests that open a transfer
into the answer and the opening after it; RequestTransferExit into its check and
the rest. The clear itself is two steps, the counters and then the state.
`change.met` says that a session change has met a handler of the present
transfer. What a handler meets otherwise is chosen: the application's answer, a
cancellation by P2 before the answer, a negative answer suppressed for a
functional address. With `Adapter` the application is `capi_download_adapter`;
without, any implementation of the interfaces. The counter is taken modulo
`Modulus`. `tester` and `app.stream` are history: what the tester has been told,
and what the application took; `app.late` counts the blocks it took from handlers
after one was met. The sizes kept in `transferInfo_` and the exit type of a file
transfer are left out: only the application sees them.

## 3. Runs

Each passing run finishes within about two and a half minutes and reaches from
some thousand to about three million states.

| Run | Checks | Shows |
|---|---|---|
| `ota_safety` | `TypeOK`, `BootTargetComplete`, `ReadyMeansInstalled`, `SuccessVersionMatches`, `HistoryIsChain`, `SubscriberUpToDate`, `RunningSlotUntouched`, `TrialIsReversible`, `ImplementsABUpdate`, `InstallSettles` | two API threads, `auto_apply`, all faults, three updates: but for writes cut short unnoticed the device stays bootable and tells the truth, and no failure or interference leaves an update busy for ever |
| `ucm_restart` | `TypeOK`, `HandedIsSent`, `DiskFollowsMemory`, `ImageKeptUnlessResumed`, `WholeUnlessRestarted` | three clients, lost answers, failing files, two restarts anywhere: only whole packages are handed on, `.meta` follows memory, and resending is safe until the service restarts |
| `doip_server` | `TypeOK`, `RoutingConsistent`, `CapacityRespected`, `NoResidue`, `SilentIsClosed` | two sockets and testers, capacity one, reuse of fds: the tables agree, and a connection that falls silent is closed |
| `epoll_loop` | `TypeOK`, `EventsAreCurrent`, `TasksOnceInOrder`, `NoLostWakeUp`, `PostedRuns`, `StopEndsLoop` | no event reaches another connection, no task or wake-up is lost, a running loop can be stopped |
| `com_rpc` | `TypeOK`, `OwnAnswer`, `HandlerInPlace`, `SyncReturns` | calls of different methods never disturb one another; a call that has its method to itself gets its own answer; a synchronous call returns |
| `uds_server` | `TypeOK`, `OneThreadPerClient`, `QueueIsServed`, `RequestIsWorkedOn`, `SessionIsTimed`, `SessionEnds` | despite the split locks no two threads work for a tester and no request is forgotten; a tester that is refused as busy has a thread working for it; every session is timed and ends |
| `uds_transfer` | `TypeOK`, `StreamInOrder`, `ExitIsWhole`, `UploadRepeatsData` | session changes anywhere inside a handler: the application takes the blocks in order and once, an accepted exit means a whole transfer; what a session change that met a handler can spoil is stated |

Runs that end in a counterexample, each against a sentence of the repository
quoted in the findings of `PROJECT.json`:

| Run | The sentence | What the code does |
|---|---|---|
| `ota_busy_answer` | a repeated `start_update` is answered `kServiceBusy` | called again before the new worker has reached Checking, it joins that worker under the mutex the worker waits for |
| `ucm_resume` | a transfer resumes from its `.meta` | the last block is appended twice and the transfer accepted |
| `loop_stop_lost` | Ctrl-C stops the server | a stop before `run` has begun is overwritten by `running_ = true` |
| `uds_refused` | a request that comes while another is processed is ignored | `handle_diag_message` calls `HandleMessage` whatever `Indicate` returned |
| `uds_first_block` | the download tool numbers its blocks from 1 | the adapter expects 0 and refuses the first block |

**Bounds.** Three updates let a slot be written, confirmed, overwritten and
rolled back; two API threads are enough for one to be inside `start_update`
while another calls any method. Three clients with packages of two blocks, one
block and more than the disk holds, and three starts, give an id to a second
transfer while the first is being installed and let a start be refused; two
restarts let a resumed transfer be interrupted again. The disk of `ucm_restart`
has 24 blocks, room for two files of four blocks for each of three transfers
(`AmpleDisk`, which `MCUcmTransfer` lets TLC evaluate): it holds what is admitted
(see the observations), and a package of 25 blocks is refused. Two sockets with
capacity one reach the limit and the refusal above it, the second accept can
reuse the fd of the first, and three frames cover an activation, the alive
check or a second tester, and a bad header. In `epoll_loop` two connections on
two fds can share a number, one in the batch while the other is accepted; two
posters with a task each race with each other and with `on_wake`. Three calls
let a late answer of one meet the next two. Three UDS requests with two threads
let two jobs read the same front and a third request be popped for it.
Six blocks with a modulus of four go once around the counter; the modulus of
`uds_first_block` is the real one. `MaxTimeouts` limits how many requests miss
P2. What is proved (section 4) holds for all bounds.

**Deadlock checking** is off where the bounds on updates, starts, frames,
calls or requests let a run end with nothing left to do, or where a stopped
process really stops; `uds_transfer` and `uds_first_block`, in which a tester
can always send, keep it on.

**Fairness.** OTA: the worker thread and a thread inside `start_update` keep
running (weak fairness); nobody has to call a method. DoIP: epoll is level
triggered and every ready fd of a batch is served, the maintenance timer fires
every second, and deadlines pass; nothing is assumed of peers. `SilentIsClosed` starts from a
connection that has sent something, because only then does the server know it
and arm a timer. Event loop: the thread in `run`, the watcher once signalled,
and a poster between its push and its write keep running. Communication: the
calling threads run and `wait_for` ends; nothing is assumed of the service, the
network or vsomeip's dispatcher. UDS: the loop thread and the pool threads run,
an armed S3 timer fires and its job gets a thread; P2 need not fire.
UCM and the transfer manager have safety properties only.

No run uses symmetry: the large ones check liveness as well.

**Observations without a run of their own.**

- OTA: two concurrent `start_update` calls can both get past the join and both
  assign `worker_`; the second assignment ends in `std::terminate` (the vehicle
  status service serialises its calls, the UCM service does not). A manual
  `rollback` after a second install goes to the slot just overwritten, since
  `last_good_` names a slot and not its content (`TrialIsReversible` is about
  the automatic one). `switch_and_reboot` sets Rebooting and `start_update`
  resets to Idle without `set_progress_locked`, so the callback sees neither;
  `SubscriberUpToDate` says for which states it is right. A disk that fills up
  is not noticed by all writes (`slot_manager.cpp:69-73`, `:111-118`,
  `ota_manager.cpp:204-210`): a short image is installed, reported ReadyToSwitch
  and booted, and a Success may stand beside an empty version file. A digest
  catches a short staged copy and not a short slot, which nobody digests. The
  properties except exactly these files, and only if `"short"` is in `Faults`.
- UCM: nobody looks at the stream after a write, so on a full disk a truncated
  `.img` can be digested and installed; two transfers admitted against the same
  free space get there. After a restart ids begin at 1 again and a resumed
  transfer can rewrite the `.img` being installed. The dependency "1.0.0" that
  every client puts into its package is not met on a device where no version
  was ever recorded.
- DoIP: the alive check response 0x0008 has no case in `dispatch`; it is NACKed
  and the tester is timed out although it answered.
- Communication: a handler that is queued twice runs twice, and the answer of a
  call that timed out is taken for that of the next call of its method
  (`OwnAnswer` says how far this goes). The promise of an asynchronous call
  stays open if its answer is lost. `SubscribeEvent` returns silently while
  the service is unavailable, so the subscription is never made.
- UDS server: two jobs can read the same front of `waitQueue_`; the request is
  handled twice, another one dropped, or an empty queue popped. `newSessionId_` is
  one field, so a Confirm may set the session another tester asked for. An S3
  job that waits behind requests resets a session entered after it fired. A
  Confirm that meets the S3 job can leave a session without an owner, in which
  `Indicate` refuses everybody until the session ends. The
  suppression of a negative answer is decided by a byte behind the message
  (`body[5]`).
- UDS transfer: a RequestDownload cancelled by P2 opens its transfer after the
  clear. `previousblockSequenceCounter` survives the opening of a transfer over
  another one that took block 1, and makes the new first block a repetition
  (`tester.stale`). The S3 job has the same effect when it clears between the
  application call and the counter updates (`transfer_manager.cpp:527` and
  `:531`): the handler writes 1 into the cleared field, the next transfer's block
  1 is acknowledged and not passed on, and a transfer of one block ends well. A
  clear between the check of the number and the branch (`:510` and `:517`) lets
  the handler pass on a block of a transfer that no longer exists, or, if the
  type is gone too, leaves the request without an answer. After a clear it is 0, so a block 0 is acknowledged and not
  written. The record of ReadFile grows with every block. `exitType` is
  inverted between `transfer_manager.cpp:673-676` and `file_transfer.h:67-68`.
  The manager has neither lock nor owner: two testers would share one transfer.

## 4. Proofs

Checked by TLAPS for every value of the constants that satisfies the named
assumptions (`ConstantsAssumption`, `UcmAssumption`, `DoipAssumption`,
`LoopAssumption`, `ComAssumption`, `TransferAssumption`, `ServerAssumption`: markers
differ from real values, bounds are naturals, testers and threads are finite in
number, the counter has at least two values).

- **OtaManager.** `IInv` adds to the types what the properties silently rely
  on: the state follows the worker's step (`ProgressFollowsWorker`; this is why
  no method acts during an install), what has been written at each step
  (`InstallProtocol`), what a trial boot came from (`TrialProtocol`), and that a
  joining thread holds the mutex (`JoinProtocol`), and that a staged copy is short
  only where writes can be cut short (`StagedProtocol`). From it: `TypeCorrect`,
  `BootTargetAlwaysComplete`, `ReadyAlwaysInstalled`, `SuccessAlwaysMatches`,
  the action properties `RunningSlotNeverWritten` and `TrialAlwaysReversible`,
  and the refinement `OtaImplementsABUpdate`, one case per action. Where `Faults`
  contains `"short"` these admit an image or a version file cut short unnoticed;
  `WholeUnlessCutShort` states the first three without the exception where it
  does not.
  `SubscriberAlwaysUpToDate` follows the calls of `set_progress_locked`.
  `HistoryAlwaysChain` is inductive once the last success before a place in the
  history is known to depend on the records before it only
  (`LastSuccessLocal`; that there is a last one is `LastExists`, by
  well-foundedness): a record is appended with the old `current_` as its start,
  and becomes the last success exactly when `current_` moves to its end.
- **UcmTransfer, ids and `.meta`.** `UcmIInv`: ids are given out in order
  (`IdsGiven`), the tables are total, `.meta` follows memory, and without a
  resumed transfer every open id and the id being installed are below `next_id_`
  and differ (`ImageOwned`). From it: `MetaNeverStale`, `ImageNeverRewritten`.
- **UcmTransfer, files.** `UcmTypeCorrect` holds on any disk. The other two
  theorems are false on a full one, where a block or the end of an `.img` is lost
  unnoticed, so they assume `AmpleDisk`: there is a file size that every
  admissible package keeps to with one block to spare per restart, twice
  `MaxStarts` such files fit, and `statvfs` works. `TransferIInv` has three
  parts. No file outgrows that size (`DiskFits`): a `.zip` has at most one block
  more than its session counts for each restart, the one appended and not yet
  saved, and `RoomLeft` turns this into free blocks by counting pairs of an id
  and a block number. Until the first restart no `.meta` outlives its session
  (`NothingLoaded`), and an id has one client whose blocks are the file
  (`TransfersOwned`). From it: `HandedAlwaysSent`, for any number of restarts,
  if `.meta` and `.img` files can be written (with a `.meta` left behind a
  transfer may grow by more than a block per restart, and an `.img` that cannot
  be opened keeps an older package), and `WholeUntilRestart`, whichever files
  fail. `ucm_resume` shows that the latter ends with the first restart.
- **DoipServer.** `DoipIInv`: the tables are total, the routing is consistent,
  capacity is kept, free fds are clean. The refusals leave exactly two cases
  (lemma `Unrefused`): a connection activates its own address again, or a fresh
  pair below capacity. From it: `RoutingAlwaysConsistent`,
  `CapacityAlwaysRespected`, `NeverResidue` and, with the deadlines beside it,
  `DoipTypeCorrect`: an alive check is pending on routed connections only.
- **EpollLoop.** `LoopIInv` falls into a socket and a task half. An fd whose
  event is still in the batch cannot be closed by another callback and so
  cannot be reused, because an event has an owner (`EventsHaveOwners`) and
  events outlive no pass (`BatchIsUsedUp`). The tasks that ran, the local ones
  and the pending ones are together what was pushed, which needs the local
  queue to be empty at the swap (`TasksAreLocal`). From it: `LoopTypeCorrect`,
  `EventsAlwaysCurrent`, `TasksAlwaysOnceInOrder`, `NeverLostWakeUp`.
- **ComRpc.** `ComIInv`: nothing names a call that has not begun
  (`CallsInOrder`), a synchronous call has no result before it returns
  (`KindFollows`), `done` is set after the data (`DoneHasData`). The heart are
  two parts: a live call is shared as soon as another live call, another
  call's handler or a queued handler of its method is about
  (`CompanyIsShared`), and a handler that is not shared meets its own answer
  only (`HandlersMeetOwn`). `OwnAnswer` alone says nothing of what is still in
  the queue, hence both. From it: `ComTypeCorrect`, `AnswerAlwaysOwn`,
  `HandlerAlwaysInPlace`.
- **UdsServer.** `ServerIInv` is inductive as it stands: a thread
  that holds an entry of the context table is the only one of its client, and a
  job that gives up does so because another thread, which will look at the queue
  again, works for that client. From it: `ServerTypeCorrect`,
  `OneThreadAlways`, `QueueAlwaysServed`. Sessions need more (`SessionIInv`):
  `SessionIsWatched` (a session without a timer has a message, a queued request
  or a thread that will start it) and, because a TesterPresent leaves the timer
  off for a client whose request is being handled, `RequestIsWorkedOn`: such a
  client has a thread that works for it. From it: `RequestAlwaysWorkedOn`, `SessionAlwaysTimed`.
- **UdsTransfer.** `TransferIInv` is about transfers whose handlers met no
  session change: while one is open the counter follows the blocks accounted for
  (`CounterFollows`), tester and server count alike and the next block is no
  repetition (`TesterFollows`), what a handler has read still holds
  (`HandlerFollows`), a request starts with an empty stream (`OpeningIsEmpty`), a
  closed transfer leaves nothing (`ClosedIsCleared`), the record is the last block
  (`RecordIsLast`). `LateIsMet` ties late blocks to a session change that met a
  handler. From it:
  `TransferTypeCorrect`, `StreamAlwaysInOrder`, `ExitAlwaysWhole`,
  `UploadAlwaysRepeats`.

Only model-checked: liveness (`InstallSettles`, `SilentIsClosed`, `PostedRuns`,
`StopEndsLoop`, `SyncReturns`, `SessionEnds`), which is out of the prover's
reach. Every invariant and every action property of a passing run is a theorem.

## 5. Not modelled

UDP discovery, the HTTP download, configuration, logging and byte encodings
(I/O without decisions that matter here); hashes and signatures (by their
outcome only). Of vsomeip only the handler table and the dispatcher appear, in `ComRpc`. Of the
vendored CAPI stack the request path, the sessions and the transfer manager are
modelled, because the diagnostic program runs them. The rest, most of
the repository's lines (its own DoIP server, fault memory, events, event
responses, authentication, and the container, serialization and compatibility
libraries), is not configured by the repository's programs or has no
state worth a model.

## 6. Plan

In this order:

1. `OtaRoutine`: routine 0x1100 with its payload file, polling loop and
   detached reboot thread on `OtaManager`; a Start that no other Start
   overlaps returns and answers for its own update.
2. `DiagChannel`: UDS answers from pool threads on reused fds, composing
   `DoipServer` and `UdsServer`.
3. `ComRpc`: events and subscriptions.
4. `VersionStore`: the three files of `VersionManager` with a stop inside `save`.
5. `VehicleStatus`: update ids, progress and the event, on `OtaManager`.
6. `UcmStack`: `UcmTransfer` with the real `OtaManager` and the polling thread
   of `ucm_service`; overlapping UCM methods.
7. `LinuxAb`: partitions and `rkboot_control`, as a second back end under
   `ABUpdate`.

Proofs to follow go with these modules; a candidate on the present ones is
`HandedIsSent` for `.meta` files that cannot be written, which needs another
bound on the growth of a `.zip`.
