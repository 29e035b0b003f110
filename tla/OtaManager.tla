----------------------------- MODULE OtaManager -----------------------------
(***************************************************************************)
(* ota::OtaManager with the mock A/B back end (MockSlotManager,            *)
(* MockBootController) and the in-memory part of VersionManager.           *)
(*                                                                         *)
(* Several API threads (SOME/IP dispatchers, the polling thread of         *)
(* apps/ucm_service, the detached reboot thread of the UDS routine) call   *)
(* the public methods; one worker thread runs run_update.  Every method    *)
(* body under progress_mutex_ is one step, because nothing can interleave  *)
(* with it, except start_update: it joins the old worker while holding the *)
(* mutex, and it assigns worker_ after releasing it.                       *)
(*                                                                         *)
(* current_slot, last_good_slot and the files of the boot controller       *)
(* (next_slot, boot_attempted, boot_result, boot_error) are written and    *)
(* never read back by the services; of their writes only the reported      *)
(* failures, which change what the methods do, are modelled.               *)
(*                                                                         *)
(* A write that fails is not always noticed.  When the disk fills up, the  *)
(* insertion of a stream buffer that got some characters out sets no error *)
(* bit, and write_text asks the stream before anything was flushed.  The   *)
(* fault "short" stands for these: the call reports success and the file   *)
(* is left cut short.                                                      *)
(***************************************************************************)
EXTENDS Naturals, Sequences

CONSTANTS
  Callers,     \* API threads
  Versions,    \* version strings a package can carry
  Factory,     \* the version running before the first update
  NoOne,       \* "nobody holds progress_mutex_"
  AutoApply,   \* auto_apply_ of the constructor
  Faults,      \* the operations that may fail (a subset of Operations)
  MaxUpdates   \* bound on the number of accepted start_update calls

\* "short" is a write cut short unnoticed; the others are reported failures.
Operations == {"open", "copy", "digest", "truncate", "image", "version",
               "next_slot", "activate", "reboot", "mark", "rollback", "short"}

ASSUME ConstantsAssumption ==
  /\ NoOne \notin Callers
  /\ Factory \notin Versions
  /\ AutoApply \in BOOLEAN
  /\ Faults \subseteq Operations
  /\ MaxUpdates \in Nat

VARIABLES
  progress,   \* progress_: state and percent
  notified,   \* the last Progress handed to progress_cb_
  mutex,      \* holder of progress_mutex_ across steps
  pc,         \* where each API thread is inside start_update
  request,    \* arguments an API thread carries through start_update
  worker,     \* worker_: step of run_update, its job and target slot
  slots,      \* rootfs.img and version file of each slot
  current,    \* current_ of the slot manager
  lastGood,   \* last_good_ of the slot manager
  versions,   \* current_, target_ and history_ of the version manager
  updates,    \* number of accepted start_update calls (bound only)
  process,    \* "running", or "terminated" by std::terminate
  origin      \* history: slot and content the last switch came from

vars == <<progress, notified, mutex, pc, request, worker, slots, current,
          lastGood, versions, updates, process, origin>>

slotVars == <<slots, current, lastGood, versions, origin>>

Slots == {"A", "B"}

\* ota::State (BootVerify is declared but never assigned)
States == {"Idle", "Checking", "Downloading", "Verifying", "Installing",
           "ReadyToSwitch", "Rebooting", "Success", "Failed", "Rollback"}

Progress == [state : States, percent : 0..100]

Digests == {"match", "mismatch", "unchecked"}

\* The arguments of start_update: how the image relates to the digest the
\* caller expects ("unchecked" is an empty digest), and the target version.
Jobs == [digest : Digests, ver : Versions]

AllVersions == Versions \cup {Factory}

\* The job inside run_update: a staged copy cut short has no digest to name it.
StagedJobs == [digest : Digests \cup {"short"}, ver : AllVersions]

\* An image is "torn" while it is written and after a write that was reported
\* as failed, "short" when the write was cut and reported as done.
Contents == [image : {"factory", "missing", "torn", "short"} \cup Digests,
             version : AllVersions \cup {"missing", "empty"}]

\* A slot directory holding a whole image that passed the check asked for.
Complete(c) == c.image \in {"factory", "match", "unchecked"}

\* The same, as far as the code can tell: on a disk that may fill up, an image
\* cut short unnoticed passes too.
Bootable(c) == Complete(c) \/ ("short" \in Faults /\ c.image = "short")

\* A version file holds v, as far as the code can tell.
Records(file, v) == file = v \/ ("short" \in Faults /\ file = "empty")

Restartable == {"Idle", "Failed", "Success", "Rollback"}

WorkerSteps == {"none", "start", "open", "copy", "verify", "write", "writing",
                "writever", "failinst", "target", "ready", "apply", "return", "done"}

NoJob == [digest |-> "unchecked", ver |-> Factory]

\* A default-constructed std::thread.
NoWorker == [step |-> "none", job |-> NoJob, slot |-> "B"]

Joinable == worker.step # "none"

\* mutant: the other slot is computed as the next letter
inactive_slot_Next == IF current = "A" THEN "B" ELSE "C"

inactive_slot == IF current = "A" THEN "B" ELSE "A"

is_inactive_valid ==
  /\ slots[inactive_slot].image # "missing"
  /\ slots[inactive_slot].version # "missing"

\* write_text when it returns true: what the file holds afterwards.
write_text(value) == {value} \cup {x \in {"empty"} : "short" \in Faults}

-----------------------------------------------------------------------------
(* progress *)

set_progress_locked(state, percent) ==
  /\ progress' = [state |-> state, percent |-> percent]
  /\ notified' = progress'

Free == mutex = NoOne /\ process = "running"

-----------------------------------------------------------------------------
(* start_update *)

\* progress_ = Progress{}: assigned directly, so no callback.
ResetProgress ==
  /\ progress' = [state |-> "Idle", percent |-> 0]
  /\ UNCHANGED notified

\* Lock, check the state and join.  A worker that has returned is joined at
\* once; otherwise the thread blocks in join() and keeps the mutex.
StartUpdate(c, job) ==
  /\ Free
  /\ pc[c] = "ready"
  /\ progress.state \in Restartable
  /\ updates < MaxUpdates
  /\ updates' = updates + 1
  /\ request' = [request EXCEPT ![c] = job]
  /\ \/ /\ worker.step \in {"none", "done"}
        /\ worker' = NoWorker
        /\ ResetProgress
        /\ pc' = [pc EXCEPT ![c] = "spawn"]
        /\ UNCHANGED mutex
     \/ /\ worker.step \notin {"none", "done"}
        /\ mutex' = c
        /\ pc' = [pc EXCEPT ![c] = "join"]
        /\ UNCHANGED <<worker, progress, notified>>
  /\ UNCHANGED <<slotVars, process>>

\* The early return: another update is under way.
StartUpdateBusy(c) ==
  /\ Free
  /\ pc[c] = "ready"
  /\ progress.state \notin Restartable
  /\ UNCHANGED vars

JoinReturns(c) ==
  /\ process = "running"
  /\ pc[c] = "join"
  /\ worker.step = "done"
  /\ worker' = NoWorker
  /\ ResetProgress
  /\ mutex' = NoOne
  /\ pc' = [pc EXCEPT ![c] = "spawn"]
  /\ UNCHANGED <<request, slotVars, updates, process>>

\* worker_ = std::thread(...), outside the mutex.  Assigning to a joinable
\* std::thread calls std::terminate.
Spawn(c) ==
  /\ process = "running"
  /\ pc[c] = "spawn"
  /\ pc' = [pc EXCEPT ![c] = "ready"]
  /\ IF Joinable
       THEN process' = "terminated" /\ UNCHANGED worker
       ELSE /\ worker' = [worker EXCEPT !.step = "start", !.job = request[c]]
            /\ UNCHANGED process
  /\ request' = [request EXCEPT ![c] = NoJob]
  /\ UNCHANGED <<progress, notified, mutex, slotVars, updates>>

-----------------------------------------------------------------------------
(* switch_and_reboot, report_boot_result, rollback: whole bodies locked *)

\* mutant: current_ assigned before last_good_ is taken from it
FlipSlots_Swapped ==
  /\ current' = inactive_slot
  /\ lastGood' = inactive_slot
  /\ origin' = [slot |-> current, content |-> slots[current]]

\* last_good_ and current_ change before the two files are written.
FlipSlots ==
  /\ lastGood' = current
  /\ current' = inactive_slot
  /\ origin' = [slot |-> current, content |-> slots[current]]

\* mutant: the failure is assigned without the callback
SwitchFails_Silent ==
  progress' = [progress EXCEPT !.state = "Failed"] /\ UNCHANGED notified

SwitchFails == set_progress_locked("Failed", progress.percent)

\* The body once the state is ReadyToSwitch.  Three early returns: the boot
\* controller refuses, the slot cannot be activated (found invalid before the
\* flip, or a file write failed after it), the reboot command fails.
SwitchBody ==
  \/ /\ "next_slot" \in Faults
     /\ SwitchFails
     /\ UNCHANGED <<current, lastGood, origin>>
  \/ /\ ~is_inactive_valid
     /\ SwitchFails
     /\ UNCHANGED <<current, lastGood, origin>>
  \/ /\ is_inactive_valid
     /\ Faults \cap {"activate", "reboot"} # {}
     /\ FlipSlots
     /\ SwitchFails
  \/ /\ is_inactive_valid
     /\ FlipSlots
     /\ progress' = [state |-> "Rebooting", percent |-> 100]
     /\ UNCHANGED notified

switch_and_reboot ==
  /\ Free
  /\ IF progress.state = "ReadyToSwitch"
       THEN SwitchBody
       ELSE UNCHANGED <<progress, notified, current, lastGood, origin>>
  /\ UNCHANGED <<slots, versions>>

SwitchAndReboot(c) ==
  /\ pc[c] = "ready"
  /\ switch_and_reboot
  /\ UNCHANGED <<mutex, pc, request, worker, updates, process>>

\* current_ is assigned before the file is written.
rollback_to_last_good == current' = lastGood

\* mutant: the record is taken after current_ was replaced
Record_Late(result) ==
  Append(versions.history,
         [from |-> versions.target, to |-> versions.target, result |-> result])

Record(result) ==
  Append(versions.history,
         [from |-> versions.current, to |-> versions.target, result |-> result])

\* mutant: set_current(to) forgotten
BootSucceeded_NoSetCurrent ==
  /\ versions' = [versions EXCEPT !.history = Record("SUCCESS")]
  /\ set_progress_locked("Success", 100)

BootSucceeded ==
  \/ /\ "mark" \in Faults
     /\ set_progress_locked("Failed", 100)
     /\ UNCHANGED versions
  \/ /\ versions' = [versions EXCEPT !.history = Record("SUCCESS"),
                                     !.current = versions.target]
     /\ set_progress_locked("Success", 100)

BootFailed ==
  \/ /\ "mark" \in Faults
     /\ set_progress_locked("Failed", 100)
     /\ UNCHANGED <<current, versions>>
  \/ /\ "rollback" \in Faults
     /\ rollback_to_last_good
     /\ set_progress_locked("Failed", 100)
     /\ UNCHANGED versions
  \/ /\ rollback_to_last_good
     /\ versions' = [versions EXCEPT !.history = Record("ROLLBACK")]
     /\ set_progress_locked("Rollback", 100)

\* A call in any other state returns false and changes nothing.
ReportBootResult(c, success) ==
  /\ Free
  /\ pc[c] = "ready"
  /\ progress.state = "Rebooting"
  /\ \/ success /\ BootSucceeded /\ UNCHANGED current
     \/ ~success /\ BootFailed
  /\ UNCHANGED <<mutex, pc, request, worker, slots, lastGood, updates,
                 process, origin>>

\* mutant: rollback accepted while an image is being installed
Rollback_AnyTime(c) ==
  /\ Free
  /\ pc[c] = "ready"
  /\ progress.state \in {"Installing", "ReadyToSwitch", "Rebooting"}
  /\ rollback_to_last_good
  /\ set_progress_locked("Rollback", 100)
  /\ UNCHANGED <<mutex, pc, request, worker, slots, lastGood, versions,
                 updates, process, origin>>

Rollback(c) ==
  /\ Free
  /\ pc[c] = "ready"
  /\ progress.state \in {"ReadyToSwitch", "Rebooting"}
  /\ rollback_to_last_good
  /\ \/ "rollback" \in Faults /\ set_progress_locked("Failed", progress.percent)
     \/ set_progress_locked("Rollback", 100)
  /\ UNCHANGED <<mutex, pc, request, worker, slots, lastGood, versions,
                 updates, process, origin>>

-----------------------------------------------------------------------------
(* run_update: the worker thread *)

WorkerAt(step) == process = "running" /\ worker.step = step

WorkerGoes(step) == worker' = [worker EXCEPT !.step = step]

WorkerFails(percent) ==
  /\ set_progress_locked("Failed", percent)
  /\ WorkerGoes("return")

workerLocal == <<mutex, pc, request, updates, process>>

Checking ==
  /\ Free /\ WorkerAt("start")
  /\ set_progress_locked("Checking", 1)
  /\ WorkerGoes("open")
  /\ UNCHANGED <<workerLocal, slotVars>>

\* The source image is opened; the outcome is reported with the next
\* set_progress, which takes the mutex.
OpenSource ==
  /\ Free /\ WorkerAt("open")
  /\ \/ "open" \in Faults /\ WorkerFails(0)
     \/ set_progress_locked("Downloading", 15) /\ WorkerGoes("copy")
  /\ UNCHANGED <<workerLocal, slotVars>>

\* What is known of the staged copy when it lacks the end of the image.
Shortened(digest) == IF digest = "unchecked" THEN "short" ELSE "mismatch"

\* Only badbit is tested after the copy, so a short one goes on to verify.
copy_file ==
  /\ Free /\ WorkerAt("copy")
  /\ \/ "copy" \in Faults /\ WorkerFails(15)
     \/ set_progress_locked("Verifying", 55) /\ WorkerGoes("verify")
     \/ /\ "short" \in Faults
        /\ set_progress_locked("Verifying", 55)
        /\ worker' = [worker EXCEPT !.step = "verify", !.job.digest = Shortened(@)]
  /\ UNCHANGED <<workerLocal, slotVars>>

\* mutant: the result of verify is ignored
verify_Ignored ==
  /\ Free /\ WorkerAt("verify")
  /\ set_progress_locked("Installing", 75)
  /\ WorkerGoes("write")
  /\ UNCHANGED <<workerLocal, slotVars>>

\* VerifyStrategy::verify: an unreadable file fails, an empty expected digest
\* is accepted, otherwise the digests must agree.
verify ==
  /\ Free /\ WorkerAt("verify")
  /\ \/ /\ "digest" \in Faults \/ worker.job.digest = "mismatch"
        /\ WorkerFails(55)
     \/ /\ worker.job.digest # "mismatch"
        /\ set_progress_locked("Installing", 75)
        /\ WorkerGoes("write")
  /\ UNCHANGED <<workerLocal, slotVars>>

InstallVars == <<workerLocal, progress, notified, current, lastGood, origin>>

\* write_image_to_inactive, without the mutex: the target slot is read once,
\* then rootfs.img is truncated, filled, and the version file written.
TruncateImage ==
  /\ WorkerAt("write")
  /\ \/ /\ "truncate" \in Faults
        /\ WorkerGoes("failinst")
        /\ UNCHANGED slots
     \/ /\ worker' = [worker EXCEPT !.step = "writing", !.slot = inactive_slot]
        /\ slots' = [slots EXCEPT ![inactive_slot].image = "torn"]
  /\ UNCHANGED <<InstallVars, versions>>

\* The insertion fails and is noticed, or puts the staged copy into the slot,
\* whole or, on a full disk, without its end.
WriteImage ==
  /\ WorkerAt("writing")
  /\ \/ "image" \in Faults /\ WorkerGoes("failinst") /\ UNCHANGED slots
     \/ /\ \E image \in {worker.job.digest, "short"} :
              /\ image = "short" => "short" \in Faults
              /\ slots' = [slots EXCEPT ![worker.slot].image = image]
        /\ WorkerGoes("writever")
  /\ UNCHANGED <<InstallVars, versions>>

WriteVersion ==
  /\ WorkerAt("writever")
  /\ \/ "version" \in Faults /\ WorkerGoes("failinst") /\ UNCHANGED slots
     \/ /\ \E text \in write_text(worker.job.ver) :
              slots' = [slots EXCEPT ![worker.slot].version = text]
        /\ WorkerGoes("target")
  /\ UNCHANGED <<InstallVars, versions>>

\* mutant: run_update returns on a failed install without reporting it
InstallFailed_Silent ==
  /\ Free /\ WorkerAt("failinst")
  /\ WorkerGoes("return")
  /\ UNCHANGED <<workerLocal, slotVars, progress, notified>>

InstallFailed ==
  /\ Free /\ WorkerAt("failinst")
  /\ WorkerFails(75)
  /\ UNCHANGED <<workerLocal, slotVars>>

\* mutant: the target is recorded only for the first update
set_target_Once ==
  /\ WorkerAt("target")
  /\ versions' = [versions EXCEPT
                    !.target = IF @ = Factory THEN worker.job.ver ELSE @]
  /\ WorkerGoes("ready")
  /\ UNCHANGED <<InstallVars, slots>>

set_target ==
  /\ WorkerAt("target")
  /\ versions' = [versions EXCEPT !.target = worker.job.ver]
  /\ WorkerGoes("ready")
  /\ UNCHANGED <<InstallVars, slots>>

ReadyToSwitch ==
  /\ Free /\ WorkerAt("ready")
  /\ set_progress_locked("ReadyToSwitch", 90)
  /\ WorkerGoes(IF AutoApply THEN "apply" ELSE "return")
  /\ UNCHANGED <<workerLocal, slotVars>>

Apply ==
  /\ WorkerAt("apply")
  /\ switch_and_reboot
  /\ WorkerGoes("return")
  /\ UNCHANGED workerLocal

\* The thread function has released the mutex for the last time and returns.
WorkerExits ==
  /\ WorkerAt("return")
  /\ WorkerGoes("done")
  /\ UNCHANGED <<workerLocal, slotVars, progress, notified>>

Worker ==
  \/ Checking \/ OpenSource \/ copy_file \/ verify
  \/ TruncateImage \/ WriteImage \/ WriteVersion \/ InstallFailed
  \/ set_target \/ ReadyToSwitch \/ Apply \/ WorkerExits

-----------------------------------------------------------------------------
Init ==
  /\ progress = [state |-> "Idle", percent |-> 0]
  /\ notified = progress
  /\ mutex = NoOne
  /\ pc = [c \in Callers |-> "ready"]
  /\ request = [c \in Callers |-> NoJob]
  /\ worker = NoWorker
  /\ slots = [s \in Slots |->
                IF s = "A" THEN [image |-> "factory", version |-> Factory]
                           ELSE [image |-> "missing", version |-> "missing"]]
  /\ current = "A"
  /\ lastGood = "A"
  /\ versions = [current |-> Factory, target |-> Factory, history |-> <<>>]
  /\ updates = 0
  /\ process = "running"
  /\ origin = [slot |-> "A", content |-> slots["A"]]

Call(c) ==
  \/ \E job \in Jobs : StartUpdate(c, job)
  \/ StartUpdateBusy(c)
  \/ JoinReturns(c)
  \/ Spawn(c)
  \/ SwitchAndReboot(c)
  \/ \E success \in BOOLEAN : ReportBootResult(c, success)
  \/ Rollback(c)

Next == Worker \/ \E c \in Callers : Call(c)

\* A started thread runs: the worker, and a thread inside start_update.  No
\* thread has to call a method.
Fairness ==
  /\ WF_vars(Worker)
  /\ \A c \in Callers : WF_vars(JoinReturns(c) \/ Spawn(c))

Spec == Init /\ [][Next]_vars

FairSpec == Spec /\ Fairness

-----------------------------------------------------------------------------
ProgressTypeOK == progress \in Progress /\ notified \in Progress

ThreadTypeOK ==
  /\ mutex \in Callers \cup {NoOne}
  /\ pc \in [Callers -> {"ready", "join", "spawn"}]
  /\ request \in [Callers -> Jobs \cup {NoJob}]
  /\ worker \in [step : WorkerSteps, job : StagedJobs, slot : Slots]
  /\ updates \in 0..MaxUpdates
  /\ process \in {"running", "terminated"}

DeviceTypeOK ==
  /\ slots \in [Slots -> Contents]
  /\ current \in Slots
  /\ lastGood \in Slots
  /\ origin \in [slot : Slots, content : Contents]

VersionTypeOK ==
  versions \in [current : AllVersions, target : AllVersions,
                history : Seq([from : AllVersions, to : AllVersions,
                               result : {"SUCCESS", "ROLLBACK"}])]

\* Every variable keeps its type: the states of ota_types.h, the two slots,
\* well-formed version records.
TypeOK == ProgressTypeOK /\ ThreadTypeOK /\ DeviceTypeOK /\ VersionTypeOK

\* Whichever operation fails and whoever interleaves, the slot the device would
\* boot (current_) holds a whole image, and never one whose digest was asked for
\* and did not match: run_update verifies before it installs, installs only
\* into the inactive slot, and only a finished install can be switched to.  The
\* one exception is the code's: on a disk that may fill up ("short" \in Faults)
\* the image may be one that was cut short by a write nothing reported.
BootTargetComplete == Bootable(slots[current])

\* In ReadyToSwitch the inactive slot holds the image of the version recorded
\* as target: run_update publishes the state after set_target.  On a disk that
\* may fill up the image may be short and the version file empty.
ReadyMeansInstalled ==
  progress.state = "ReadyToSwitch" =>
    /\ Bootable(slots[inactive_slot])
    /\ Records(slots[inactive_slot].version, versions.target)

\* When an update is reported as Success, the version reported by
\* VersionManager is the one in the version file of the slot that runs, unless
\* a full disk left that file empty.
SuccessVersionMatches ==
  progress.state = "Success" => Records(slots[current].version, versions.current)

\* The version the last SUCCESS record among the first n led to.
LastSuccess(h, n) ==
  LET past == {i \in 1..n : h[i].result = "SUCCESS"}
  IN IF past = {} THEN Factory
     ELSE h[CHOOSE i \in past : \A j \in past : j <= i].to

\* version_history.log is a chain: every record starts from the version the
\* last SUCCESS record led to, and that version is current_ now.
HistoryIsChain ==
  LET h == versions.history
  IN /\ \A i \in 1..Len(h) : h[i].from = LastSuccess(h, i - 1)
     /\ versions.current = LastSuccess(h, Len(h))

-----------------------------------------------------------------------------
(* The inductive invariant behind the safety properties *)

\* progress_ and the worker move together: between Checking and Installing
\* only the worker changes the state, because every API method is rejected.
ProgressFollowsWorker ==
  /\ worker.step \in {"none", "start"} => progress.state = "Idle"
  /\ worker.step = "open" => progress.state = "Checking"
  /\ worker.step = "copy" => progress.state = "Downloading"
  /\ worker.step = "verify" => progress.state = "Verifying"
  /\ worker.step \in {"write", "writing", "writever", "failinst", "target", "ready"}
       => progress.state = "Installing"
  /\ worker.step \in {"apply", "return", "done"}
       => progress.state \in {"ReadyToSwitch", "Rebooting", "Success",
                              "Failed", "Rollback"}

\* What the worker has done to the slot it writes.
InstallProtocol ==
  /\ worker.step \in {"write", "writing", "writever", "target", "ready"}
       => worker.job.digest # "mismatch"
  /\ worker.step \in {"writing", "writever", "target", "ready"}
       => worker.slot = inactive_slot
  /\ worker.step \in {"writever", "target", "ready"}
       => Bootable(slots[inactive_slot])
  /\ worker.step \in {"target", "ready"}
       => Records(slots[inactive_slot].version, worker.job.ver)
  /\ worker.step = "ready" => versions.target = worker.job.ver

\* A trial boot runs the installed target and can go back.
TrialProtocol ==
  progress.state = "Rebooting" =>
    /\ lastGood # current
    /\ Records(slots[current].version, versions.target)
    /\ Bootable(slots[lastGood])
    /\ origin = [slot |-> lastGood, content |-> slots[lastGood]]

\* A thread blocked in join() holds the mutex, in a state it found restartable.
JoinProtocol ==
  \A c \in Callers :
    pc[c] = "join" => mutex = c /\ progress.state \in Restartable

\* A staged copy is short only where a write can be cut unnoticed.
StagedProtocol == worker.job.digest = "short" => "short" \in Faults

IInv ==
  /\ TypeOK
  /\ JoinProtocol
  /\ StagedProtocol
  /\ ProgressFollowsWorker
  /\ InstallProtocol
  /\ ReadyMeansInstalled
  /\ TrialProtocol
  /\ BootTargetComplete
  /\ SuccessVersionMatches

-----------------------------------------------------------------------------
\* A subscriber of the progress callback has the true state, except right
\* after progress_ is reset by start_update and while the device reboots.
SubscriberUpToDate ==
  progress.state \notin {"Idle", "Rebooting"} => notified = progress

\* The slot that runs is never written, at any point of the unlocked install:
\* no method may move current_ while the worker is inside
\* write_image_to_inactive.
RunningSlotUntouched == [][slots'[current] = slots[current]]_vars

\* When a trial boot is given up, by report_boot_result(false) or by a manual
\* rollback, the device returns to the slot it switched from and that slot
\* still has the content it ran with.
TrialIsReversible ==
  [][progress.state = "Rebooting" /\ progress'.state = "Rollback"
       => current' = origin.slot /\ slots'[current'] = origin.content]_vars

\* The phase of ABUpdate an ota::State stands for.
Phase ==
  CASE progress.state = "Installing" -> "installing"
    [] progress.state = "ReadyToSwitch" -> "installed"
    [] progress.state = "Rebooting" -> "trial"
    [] OTHER -> "stable"

\* What ABUpdate lets a device boot: on a disk that may fill up this includes
\* the images cut short unnoticed, otherwise it is the whole ones.
BootableContents == {c \in Contents : Bootable(c)}

AB == INSTANCE ABUpdate WITH Whole <- BootableContents, phase <- Phase,
                             active <- current, content <- slots

\* Every step of the threads is a step of ABUpdate or leaves the device alone:
\* no interleaving of the API methods with the unlocked install does anything
\* else to the slots.
ImplementsABUpdate == AB!Spec

Busy == {"Checking", "Downloading", "Verifying", "Installing"}

\* An update whose worker has reached Checking leaves the busy states, however
\* the API threads interfere, unless the process was terminated.
InstallSettles ==
  (progress.state \in Busy) ~> (progress.state \notin Busy \/ process = "terminated")

\* docs/ucm_ota.md, error 6: a repeated start_update is answered (kServiceBusy).
\* A thread that entered start_update comes out of it.
StartUpdateReturns ==
  \A c \in Callers : (pc[c] = "join") ~> (pc[c] = "ready" \/ process = "terminated")
=============================================================================
