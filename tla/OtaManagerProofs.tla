-------------------------- MODULE OtaManagerProofs --------------------------
(***************************************************************************)
(* Proofs about OtaManager, for every set of API threads and versions,     *)
(* every set of failing operations, with and without auto_apply, with and  *)
(* without writes that are cut short unnoticed.                            *)
(***************************************************************************)
EXTENDS OtaManager, WellFoundedInduction, TLAPS

\* The other slot is a slot, and not the one that runs.
LEMMA InactiveDiffers ==
  ASSUME current \in Slots
  PROVE  inactive_slot \in Slots /\ inactive_slot # current
BY DEF Slots, inactive_slot

-----------------------------------------------------------------------------
(* Type correctness, one lemma per group of actions *)

\* The state the constructors leave is well typed.
LEMMA TypeInit == Init => TypeOK
<1> SUFFICES ASSUME Init PROVE TypeOK
  OBVIOUS
<1>1. ProgressTypeOK
  BY DEF Init, ProgressTypeOK, Progress, States
<1>2. ThreadTypeOK
  BY ConstantsAssumption
     DEF Init, ThreadTypeOK, NoJob, NoWorker, WorkerSteps, Slots, StagedJobs,
         Digests, AllVersions
<1>3. slots \in [Slots -> Contents]
  BY DEF Init, Slots, Contents, AllVersions
<1>4. DeviceTypeOK
  BY <1>3 DEF Init, DeviceTypeOK, Slots
<1>5. VersionTypeOK
  BY DEF Init, VersionTypeOK, AllVersions
<1> QED
  BY <1>1, <1>2, <1>4, <1>5 DEF TypeOK

\* The four parts of start_update keep the types.
LEMMA TypeStart ==
  ASSUME TypeOK, NEW c \in Callers,
         \/ \E job \in Jobs : StartUpdate(c, job)
         \/ StartUpdateBusy(c) \/ JoinReturns(c) \/ Spawn(c)
  PROVE  TypeOK'
<1>1. ProgressTypeOK'
  BY DEF TypeOK, ProgressTypeOK, StartUpdate, StartUpdateBusy, JoinReturns,
         Spawn, ResetProgress, Progress, States, vars
<1>2. ThreadTypeOK'
  <2> USE DEF TypeOK, ThreadTypeOK
  <2>1. NoWorker \in [step : WorkerSteps, job : StagedJobs, slot : Slots]
    BY DEF NoWorker, NoJob, WorkerSteps, Slots, StagedJobs, Digests, AllVersions
  <2>2. ASSUME NEW job \in Jobs, StartUpdate(c, job)
        PROVE  ThreadTypeOK'
    <3>1. updates' \in 0..MaxUpdates
      BY <2>2, ConstantsAssumption DEF StartUpdate
    <3>2. request' \in [Callers -> Jobs \cup {NoJob}]
      BY <2>2 DEF StartUpdate
    <3> QED
      BY <2>1, <2>2, <3>1, <3>2 DEF StartUpdate
  <2>3. CASE StartUpdateBusy(c)
    BY <2>3 DEF StartUpdateBusy, vars
  <2>4. CASE JoinReturns(c)
    BY <2>1, <2>4 DEF JoinReturns
  <2>5. CASE Spawn(c)
    <3>1. "start" \in WorkerSteps
      BY DEF WorkerSteps
    <3>4. request[c] \in StagedJobs
      BY DEF Jobs, NoJob, StagedJobs, Digests, AllVersions
    <3>2. worker' \in [step : WorkerSteps, job : StagedJobs, slot : Slots]
      BY <2>5, <3>1, <3>4 DEF Spawn
    <3>3. request' \in [Callers -> Jobs \cup {NoJob}]
      BY <2>5 DEF Spawn
    <3> QED
      BY <2>5, <3>2, <3>3 DEF Spawn
  <2> QED
    BY <2>2, <2>3, <2>4, <2>5
<1>3. DeviceTypeOK' /\ VersionTypeOK'
  BY DEF TypeOK, DeviceTypeOK, VersionTypeOK, StartUpdate, StartUpdateBusy,
         JoinReturns, Spawn, vars, slotVars
<1> QED
  BY <1>1, <1>2, <1>3 DEF TypeOK

\* switch_and_reboot keeps the types of what it changes, whoever calls it.
LEMMA TypeSwitch ==
  ASSUME TypeOK, switch_and_reboot
  PROVE  ProgressTypeOK' /\ DeviceTypeOK' /\ VersionTypeOK'
<1>1. ProgressTypeOK'
  BY DEF TypeOK, ProgressTypeOK, switch_and_reboot, SwitchBody, SwitchFails,
         set_progress_locked, Progress, States
<1>2. current' \in Slots /\ lastGood' \in Slots
  BY InactiveDiffers
     DEF TypeOK, DeviceTypeOK, switch_and_reboot, SwitchBody, FlipSlots
<1>3. origin' \in [slot : Slots, content : Contents]
  BY DEF TypeOK, DeviceTypeOK, switch_and_reboot, SwitchBody, FlipSlots
<1>4. UNCHANGED <<slots, versions>>
  BY DEF switch_and_reboot
<1> QED
  BY <1>1, <1>2, <1>3, <1>4 DEF TypeOK, DeviceTypeOK, VersionTypeOK

\* report_boot_result keeps the types, whichever way it ends.
LEMMA TypeReport ==
  ASSUME TypeOK, NEW c \in Callers, NEW success \in BOOLEAN,
         ReportBootResult(c, success)
  PROVE  TypeOK'
<1>1. ProgressTypeOK'
  BY DEF TypeOK, ProgressTypeOK, ReportBootResult, BootSucceeded, BootFailed,
         set_progress_locked, Progress, States
<1>2. ThreadTypeOK'
  BY DEF TypeOK, ThreadTypeOK, ReportBootResult
<1>3. DeviceTypeOK'
  BY DEF TypeOK, DeviceTypeOK, ReportBootResult, BootSucceeded, BootFailed,
         rollback_to_last_good
<1>4. VersionTypeOK'
  <2> DEFINE Entry == [from : AllVersions, to : AllVersions,
                       result : {"SUCCESS", "ROLLBACK"}]
             VersionState == [current : AllVersions, target : AllVersions,
                              history : Seq(Entry)]
  <2>1. versions \in VersionState
    BY DEF TypeOK, VersionTypeOK
  <2>2. Record("SUCCESS") \in Seq(Entry) /\ Record("ROLLBACK") \in Seq(Entry)
    BY <2>1 DEF Record
  <2>3. \/ versions' = versions
        \/ versions' = [versions EXCEPT !.history = Record("SUCCESS"),
                                        !.current = versions.target]
        \/ versions' = [versions EXCEPT !.history = Record("ROLLBACK")]
    BY DEF ReportBootResult, BootSucceeded, BootFailed
  <2> HIDE DEF Entry
  <2>4. versions' \in VersionState
    BY <2>1, <2>2, <2>3
  <2> QED
    BY <2>4 DEF VersionTypeOK, Entry
<1> QED
  BY <1>1, <1>2, <1>3, <1>4 DEF TypeOK

\* A slot stays well formed when one of its two files is replaced.
LEMMA SlotWritten ==
  ASSUME slots \in [Slots -> Contents], NEW s \in Slots
  PROVE  /\ \A i \in {"torn", "short"} \cup Digests :
              [slots EXCEPT ![s].image = i] \in [Slots -> Contents]
         /\ \A v \in AllVersions \cup {"empty"} :
              [slots EXCEPT ![s].version = v] \in [Slots -> Contents]
BY DEF Contents

\* Every step of run_update keeps the types.
LEMMA TypeWorker ==
  ASSUME TypeOK, Worker
  PROVE  TypeOK'
<1> USE DEF TypeOK, WorkerGoes, workerLocal
<1>1. ASSUME Checking \/ OpenSource \/ copy_file \/ verify \/ InstallFailed
             \/ ReadyToSwitch
      PROVE  TypeOK'
  <2> USE <1>1 DEF Checking, OpenSource, copy_file, verify, InstallFailed,
                   ReadyToSwitch, WorkerFails
  <2>1. ProgressTypeOK'
    BY DEF ProgressTypeOK, set_progress_locked, Progress, States
  <2>2. ThreadTypeOK'
    <3>1. Shortened(worker.job.digest) \in Digests \cup {"short"}
      BY DEF Shortened, Digests
    <3>2. worker' \in [step : WorkerSteps, job : StagedJobs, slot : Slots]
      <4>1. CASE worker' = [worker EXCEPT !.step = "verify",
                                          !.job.digest = Shortened(@)]
        <5>1. [worker.job EXCEPT !.digest = Shortened(@)] \in StagedJobs
          BY <3>1 DEF ThreadTypeOK, StagedJobs
        <5> QED
          BY <4>1, <5>1 DEF ThreadTypeOK, WorkerSteps
      <4>2. CASE \E step \in WorkerSteps : worker' = [worker EXCEPT !.step = step]
        BY <4>2 DEF ThreadTypeOK
      <4> QED
        BY <4>1, <4>2 DEF WorkerSteps
    <3> QED
      BY <3>2 DEF ThreadTypeOK
  <2>3. DeviceTypeOK' /\ VersionTypeOK'
    BY DEF DeviceTypeOK, VersionTypeOK, slotVars
  <2> QED
    BY <2>1, <2>2, <2>3
<1>2. ASSUME TruncateImage \/ WriteImage \/ WriteVersion
      PROVE  TypeOK'
  <2> USE <1>2 DEF TruncateImage, WriteImage, WriteVersion, InstallVars
  <2>1. ThreadTypeOK'
    <3>1. {"failinst", "writing", "writever", "target"} \subseteq WorkerSteps
      BY DEF WorkerSteps
    <3>2. inactive_slot \in Slots
      BY InactiveDiffers DEF DeviceTypeOK
    <3> QED
      BY <3>1, <3>2 DEF ThreadTypeOK
  <2>2. DeviceTypeOK'
    <3>1. /\ worker.job.digest \in Digests \cup {"short"}
          /\ worker.job.ver \in AllVersions
          /\ write_text(worker.job.ver) \subseteq AllVersions \cup {"empty"}
      BY DEF ThreadTypeOK, StagedJobs, write_text
    <3>2. worker.slot \in Slots /\ inactive_slot \in Slots
      BY InactiveDiffers DEF ThreadTypeOK, DeviceTypeOK
    <3>3. \/ slots' = slots
          \/ \E s \in Slots, i \in {"torn", "short"} \cup Digests :
               slots' = [slots EXCEPT ![s].image = i]
          \/ \E s \in Slots, v \in AllVersions \cup {"empty"} :
               slots' = [slots EXCEPT ![s].version = v]
      <4>1. CASE TruncateImage
        BY <3>2, <4>1
      <4>2. CASE WriteImage
        BY <3>1, <3>2, <4>2
      <4>3. CASE WriteVersion
        BY <3>1, <3>2, <4>3
      <4> QED
        BY <4>1, <4>2, <4>3
    <3>4. slots' \in [Slots -> Contents]
      <4>1. slots \in [Slots -> Contents]
        BY DEF DeviceTypeOK
      <4>2. CASE slots' = slots
        BY <4>1, <4>2
      <4>3. ASSUME NEW s \in Slots, NEW i \in {"torn", "short"} \cup Digests,
                   slots' = [slots EXCEPT ![s].image = i]
            PROVE  slots' \in [Slots -> Contents]
        BY <4>1, <4>3, SlotWritten
      <4>4. ASSUME NEW s \in Slots, NEW v \in AllVersions \cup {"empty"},
                   slots' = [slots EXCEPT ![s].version = v]
            PROVE  slots' \in [Slots -> Contents]
        BY <4>1, <4>4, SlotWritten
      <4> QED
        BY <3>3, <4>2, <4>3, <4>4
    <3> QED
      BY <3>4 DEF DeviceTypeOK
  <2>3. ProgressTypeOK' /\ VersionTypeOK'
    BY DEF ProgressTypeOK, VersionTypeOK
  <2> QED
    BY <2>1, <2>2, <2>3
<1>3. CASE set_target
  <2> USE <1>3 DEF set_target, InstallVars
  <2>1. worker.job.ver \in AllVersions
    BY DEF ThreadTypeOK, StagedJobs
  <2>2. VersionTypeOK'
    BY <2>1 DEF VersionTypeOK
  <2>3. ThreadTypeOK'
    BY DEF ThreadTypeOK, WorkerSteps
  <2> QED
    BY <2>2, <2>3 DEF ProgressTypeOK, DeviceTypeOK
<1>4. CASE Apply
  <2>1. ThreadTypeOK'
    BY <1>4 DEF Apply, ThreadTypeOK, WorkerSteps
  <2> QED
    BY <1>4, <2>1, TypeSwitch DEF Apply
<1>5. CASE WorkerExits
  BY <1>5 DEF WorkerExits, ThreadTypeOK, WorkerSteps, ProgressTypeOK,
              DeviceTypeOK, VersionTypeOK, slotVars
<1> QED
  BY <1>1, <1>2, <1>3, <1>4, <1>5 DEF Worker

\* So does every step of the specification.
LEMMA TypeNext == TypeOK /\ [Next]_vars => TypeOK'
<1> SUFFICES ASSUME TypeOK, [Next]_vars PROVE TypeOK'
  OBVIOUS
<1>1. CASE Worker
  BY <1>1, TypeWorker
<1>2. ASSUME NEW c \in Callers, Call(c) PROVE TypeOK'
  <2>1. CASE SwitchAndReboot(c)
    BY <2>1, TypeSwitch DEF SwitchAndReboot, TypeOK, ThreadTypeOK
  <2>2. CASE Rollback(c)
    <3>1. ProgressTypeOK'
      BY <2>2 DEF Rollback, set_progress_locked, TypeOK, ProgressTypeOK,
                  Progress, States
    <3> QED
      BY <2>2, <3>1 DEF Rollback, rollback_to_last_good, TypeOK, ThreadTypeOK,
                        DeviceTypeOK, VersionTypeOK
  <2> QED
    BY <1>2, <2>1, <2>2, TypeStart, TypeReport DEF Call
<1>3. CASE UNCHANGED vars
  BY <1>3 DEF vars, TypeOK, ProgressTypeOK, ThreadTypeOK, DeviceTypeOK,
              VersionTypeOK
<1> QED
  BY <1>1, <1>2, <1>3 DEF Next

\* Every variable keeps its type in every behaviour of the manager: no method
\* and no worker step leaves the enumerations of ota_types.h or the two slots.
THEOREM TypeCorrect == Spec => []TypeOK
BY TypeInit, TypeNext, PTL DEF Spec

-----------------------------------------------------------------------------
(* The progress callback *)

\* Every assignment to progress_ other than the reset of start_update and the
\* announcement of the reboot goes through set_progress_locked.
LEMMA ProgressAnnounced ==
  ASSUME SubscriberUpToDate, [Next]_vars
  PROVE  SubscriberUpToDate'
<1> USE DEF SubscriberUpToDate
<1>1. CASE Worker
  <2>1. CASE Checking \/ OpenSource \/ copy_file \/ verify \/ InstallFailed
             \/ ReadyToSwitch
    BY <2>1 DEF Checking, OpenSource, copy_file, verify, InstallFailed,
                ReadyToSwitch, WorkerFails, set_progress_locked
  <2>2. CASE TruncateImage \/ WriteImage \/ WriteVersion \/ set_target \/ WorkerExits
    BY <2>2 DEF TruncateImage, WriteImage, WriteVersion, set_target, WorkerExits,
                InstallVars
  <2>3. CASE Apply
    BY <2>3 DEF Apply, switch_and_reboot, SwitchBody, SwitchFails,
                set_progress_locked
  <2> QED
    BY <1>1, <2>1, <2>2, <2>3 DEF Worker
<1>2. ASSUME NEW c \in Callers, Call(c) PROVE SubscriberUpToDate'
  <2>1. CASE \E job \in Jobs : StartUpdate(c, job)
    BY <2>1 DEF StartUpdate, ResetProgress
  <2>2. CASE StartUpdateBusy(c) \/ JoinReturns(c) \/ Spawn(c)
    BY <2>2 DEF StartUpdateBusy, JoinReturns, Spawn, ResetProgress, vars
  <2>3. CASE SwitchAndReboot(c)
    BY <2>3 DEF SwitchAndReboot, switch_and_reboot, SwitchBody, SwitchFails,
                set_progress_locked
  <2>4. CASE \E success \in BOOLEAN : ReportBootResult(c, success)
    BY <2>4 DEF ReportBootResult, BootSucceeded, BootFailed, set_progress_locked
  <2>5. CASE Rollback(c)
    BY <2>5 DEF Rollback, set_progress_locked
  <2> QED
    BY <1>2, <2>1, <2>2, <2>3, <2>4, <2>5 DEF Call
<1>3. CASE UNCHANGED vars
  BY <1>3 DEF vars
<1> QED
  BY <1>1, <1>2, <1>3 DEF Next

\* A subscriber has the true state and percentage whenever the state is neither
\* the one start_update resets to nor the one a reboot is announced in: no
\* early return of the three locked methods or of run_update forgets to report.
THEOREM SubscriberAlwaysUpToDate == Spec => []SubscriberUpToDate
<1>1. Init => SubscriberUpToDate
  BY DEF Init, SubscriberUpToDate
<1>2. SubscriberUpToDate /\ [Next]_vars => SubscriberUpToDate'
  BY ProgressAnnounced
<1> QED
  BY <1>1, <1>2, PTL DEF Spec

-----------------------------------------------------------------------------
(* The version history *)

\* A set of positions that is not empty has a last one.
LEMMA LastExists ==
  ASSUME NEW n \in Nat, NEW P \in SUBSET (1..n), P # {}
  PROVE  \E i \in P : \A j \in P : j <= i
<1> DEFINE D == {n - i : i \in P}
<1>0. \A i \in P : i \in Int /\ 1 <= i /\ i <= n
  OBVIOUS
<1>1. D \subseteq Nat /\ D # {}
  <2>1. \A i \in P : n - i \in Nat
    BY <1>0
  <2>2. D \subseteq Nat
    BY <2>1
  <2>3. PICK i : i \in P
    OBVIOUS
  <2>4. n - i \in D
    BY <2>3
  <2> QED
    BY <2>2, <2>4
<1>2. PICK d \in D : \A e \in D : ~ (<<e, d>> \in OpToRel(<, Nat))
  BY <1>1, NatLessThanWellFounded, WFMin
<1>3. \A e \in D : ~ (e < d)
  BY <1>1, <1>2 DEF OpToRel
<1>4. PICK i \in P : d = n - i
  OBVIOUS
<1>5. ASSUME NEW j \in P PROVE j <= i
  <2>1. n - j \in D
    OBVIOUS
  <2>2. ~ (n - j < n - i)
    BY <1>3, <1>4, <2>1
  <2> QED
    BY <1>0, <2>2
<1> QED
  BY <1>5

\* The last success among the first n records depends on those records only.
LEMMA LastSuccessLocal ==
  ASSUME NEW n \in Nat, NEW g, NEW h, \A i \in 1..n : g[i] = h[i]
  PROVE  LastSuccess(g, n) = LastSuccess(h, n)
<1> DEFINE P == {i \in 1..n : h[i].result = "SUCCESS"}
           m == CHOOSE i \in P : \A j \in P : j <= i
<1>1. {i \in 1..n : g[i].result = "SUCCESS"} = P
  OBVIOUS
<1>2. CASE P = {}
  BY <1>1, <1>2 DEF LastSuccess
<1>3. CASE P # {}
  <2>1. \E i \in P : \A j \in P : j <= i
    BY <1>3, LastExists
  <2>2. m \in P
    BY <2>1
  <2>3. g[m].to = h[m].to
    BY <2>2
  <2>4. LastSuccess(g, n) = g[m].to /\ LastSuccess(h, n) = h[m].to
    BY <1>1, <1>3 DEF LastSuccess
  <2> QED
    BY <2>3, <2>4
<1> QED
  BY <1>2, <1>3

\* One more record: a SUCCESS is the last success, anything else leaves it.
LEMMA LastSuccessStep ==
  ASSUME NEW n \in Nat, NEW h
  PROVE  LastSuccess(h, n + 1) =
           IF h[n + 1].result = "SUCCESS" THEN h[n + 1].to ELSE LastSuccess(h, n)
<1> DEFINE P == {i \in 1..n : h[i].result = "SUCCESS"}
           Q == {i \in 1..(n + 1) : h[i].result = "SUCCESS"}
           V(S) == IF S = {} THEN Factory
                   ELSE h[CHOOSE i \in S : \A j \in S : j <= i].to
<1>0. LastSuccess(h, n) = V(P) /\ LastSuccess(h, n + 1) = V(Q)
  BY Zenon DEF LastSuccess
<1>1. CASE h[n + 1].result = "SUCCESS"
  <2>1. n + 1 \in Q /\ \A j \in Q : j <= n + 1
    BY <1>1
  <2>2. (CHOOSE i \in Q : \A j \in Q : j <= i) = n + 1
    <3> DEFINE m == CHOOSE i \in Q : \A j \in Q : j <= i
    <3>1. m \in Q /\ \A j \in Q : j <= m
      BY <2>1
    <3> QED
      BY <2>1, <3>1
  <2> QED
    BY <1>0, <1>1, <2>1, <2>2
<1>2. CASE h[n + 1].result # "SUCCESS"
  <2>1. Q = P
    BY <1>2
  <2> HIDE DEF P, Q, V
  <2> QED
    BY <1>0, <1>2, <2>1, Zenon
<1> QED
  BY <1>1, <1>2

\* Appending a record that starts from the current version keeps the chain,
\* when the current version moves on exactly if the record is a SUCCESS.
LEMMA ChainGrows ==
  ASSUME NEW E, NEW h \in Seq(E), NEW cur, NEW e \in E, NEW cur2,
         \A i \in 1..Len(h) : h[i].from = LastSuccess(h, i - 1),
         cur = LastSuccess(h, Len(h)),
         e.from = cur,
         cur2 = IF e.result = "SUCCESS" THEN e.to ELSE cur
  PROVE  /\ \A i \in 1..Len(Append(h, e)) :
              Append(h, e)[i].from = LastSuccess(Append(h, e), i - 1)
         /\ cur2 = LastSuccess(Append(h, e), Len(Append(h, e)))
<1> DEFINE g == Append(h, e)
           n == Len(h)
<1>1. /\ n \in Nat /\ Len(g) = n + 1 /\ g[n + 1] = e
      /\ \A i \in 1..n : g[i] = h[i]
  OBVIOUS
<1> HIDE DEF g
<1>2. \A k \in 0..n : LastSuccess(g, k) = LastSuccess(h, k)
  <2> TAKE k \in 0..n
  <2>1. k \in Nat /\ \A i \in 1..k : g[i] = h[i]
    BY <1>1
  <2> QED
    BY <2>1, LastSuccessLocal
<1>3. LastSuccess(g, n + 1) = IF e.result = "SUCCESS" THEN e.to ELSE LastSuccess(g, n)
  BY <1>1, LastSuccessStep
<1>4. cur2 = LastSuccess(g, n + 1)
  BY <1>1, <1>2, <1>3
<1>5. ASSUME NEW i \in 1..(n + 1) PROVE g[i].from = LastSuccess(g, i - 1)
  <2>1. CASE i = n + 1
    BY <1>1, <1>2, <2>1
  <2>2. CASE i # n + 1
    <3>1. i \in 1..n /\ i - 1 \in 0..n
      BY <1>1, <2>2
    <3> QED
      BY <1>1, <1>2, <3>1
  <2> QED
    BY <2>1, <2>2
<1> QED
  BY <1>1, <1>4, <1>5 DEF g

\* Only report_boot_result adds a record, and only set_target and it change the
\* version manager at all.
LEMMA ChainNext ==
  ASSUME TypeOK, HistoryIsChain, [Next]_vars
  PROVE  HistoryIsChain'
<1>1. ASSUME versions'.current = versions.current,
             versions'.history = versions.history
      PROVE  HistoryIsChain'
  BY <1>1, Zenon DEF HistoryIsChain
<1>2. CASE UNCHANGED versions
  BY <1>1, <1>2
<1>3. CASE set_target
  BY <1>1, <1>3 DEF set_target, TypeOK, VersionTypeOK
<1>4. ASSUME NEW c \in Callers, NEW success \in BOOLEAN, ReportBootResult(c, success)
      PROVE  HistoryIsChain'
  <2> DEFINE Entry == [from : AllVersions, to : AllVersions,
                       result : {"SUCCESS", "ROLLBACK"}]
             e(r) == [from |-> versions.current, to |-> versions.target, result |-> r]
  <2>1. versions.history \in Seq(Entry) /\ e("SUCCESS") \in Entry /\ e("ROLLBACK") \in Entry
    BY DEF TypeOK, VersionTypeOK
  <2>2. \/ UNCHANGED versions
        \/ /\ versions'.history = Append(versions.history, e("SUCCESS"))
           /\ versions'.current = versions.target
        \/ /\ versions'.history = Append(versions.history, e("ROLLBACK"))
           /\ versions'.current = versions.current
    BY <1>4 DEF ReportBootResult, BootSucceeded, BootFailed, Record, TypeOK, VersionTypeOK
  <2>3. ASSUME NEW r \in {"SUCCESS", "ROLLBACK"},
               versions'.history = Append(versions.history, e(r)),
               versions'.current = IF r = "SUCCESS" THEN versions.target
                                                    ELSE versions.current
        PROVE  HistoryIsChain'
    <3> DEFINE h == versions.history
               rec == e(r)
    <3>1. /\ h \in Seq(Entry) /\ rec \in Entry
          /\ \A i \in 1..Len(h) : h[i].from = LastSuccess(h, i - 1)
          /\ versions.current = LastSuccess(h, Len(h))
          /\ rec.from = versions.current
          /\ versions'.current = IF rec.result = "SUCCESS" THEN rec.to ELSE versions.current
      BY <2>1, <2>3 DEF HistoryIsChain
    <3>2. versions'.history = Append(h, rec)
      BY <2>3
    <3> HIDE DEF h, rec, Entry
    <3>3. /\ \A i \in 1..Len(Append(h, rec)) :
               Append(h, rec)[i].from = LastSuccess(Append(h, rec), i - 1)
          /\ versions'.current = LastSuccess(Append(h, rec), Len(Append(h, rec)))
      BY <3>1, ChainGrows
    <3> QED
      BY <3>2, <3>3, Zenon DEF HistoryIsChain
  <2> QED
    BY <1>2, <2>2, <2>3
<1> QED
  BY <1>2, <1>3, <1>4
     DEF Next, Worker, Call, StartUpdate, StartUpdateBusy, JoinReturns, Spawn,
         SwitchAndReboot, switch_and_reboot, Rollback, Checking, OpenSource,
         copy_file, verify, TruncateImage, WriteImage, WriteVersion,
         InstallFailed, ReadyToSwitch, Apply, WorkerExits, slotVars, vars

\* version_history.log is a chain in every behaviour: each record starts from
\* the version the last SUCCESS led to, failed trials and rollbacks in between
\* do not break it, and current_ is where it ends.
THEOREM HistoryAlwaysChain == Spec => []HistoryIsChain
<1>1. Init => HistoryIsChain
  BY DEF Init, HistoryIsChain, LastSuccess
<1>2. TypeOK /\ HistoryIsChain /\ [Next]_vars => HistoryIsChain'
  BY ChainNext
<1> QED
  BY <1>1, <1>2, TypeCorrect, PTL DEF Spec

-----------------------------------------------------------------------------
(* The inductive invariant *)

\* A thread in join() keeps the mutex, and nobody else changes progress_
\* while it does.
LEMMA JoinNext ==
  ASSUME TypeOK, JoinProtocol, [Next]_vars
  PROVE  JoinProtocol'
<1> USE DEF JoinProtocol, TypeOK, ThreadTypeOK
<1>1. CASE Worker
  <2>1. UNCHANGED <<pc, mutex>> /\ (UNCHANGED progress \/ mutex = NoOne)
    BY <1>1 DEF Worker, Checking, OpenSource, copy_file, verify, TruncateImage,
                WriteImage, WriteVersion, InstallFailed, set_target,
                ReadyToSwitch, Apply, WorkerExits, switch_and_reboot, Free, workerLocal,
                InstallVars
  <2> QED
    BY <2>1, ConstantsAssumption
<1>2. ASSUME NEW c \in Callers, Call(c) PROVE JoinProtocol'
  <2>1. ASSUME NEW job \in Jobs, StartUpdate(c, job) PROVE JoinProtocol'
    BY <2>1, ConstantsAssumption DEF StartUpdate, Free
  <2>2. CASE StartUpdateBusy(c)
    BY <2>2 DEF StartUpdateBusy, vars
  <2>3. CASE JoinReturns(c)
    BY <2>3 DEF JoinReturns
  <2>4. CASE Spawn(c)
    BY <2>4 DEF Spawn
  <2>5. ASSUME Free, UNCHANGED <<pc, mutex>> PROVE JoinProtocol'
    BY <2>5, ConstantsAssumption DEF Free
  <2> QED
    BY <1>2, <2>1, <2>2, <2>3, <2>4, <2>5
       DEF Call, SwitchAndReboot, switch_and_reboot, ReportBootResult, Rollback
<1>3. CASE UNCHANGED vars
  BY <1>3 DEF vars
<1> QED
  BY <1>1, <1>2, <1>3 DEF Next

\* Only copy_file marks a job as short, and only on a disk that may fill up.
LEMMA StagedNext ==
  ASSUME TypeOK, StagedProtocol, [Next]_vars
  PROVE  StagedProtocol'
<1> USE DEF StagedProtocol, TypeOK, ThreadTypeOK
<1>1. CASE copy_file
  <2>1. worker'.job = worker.job \/ "short" \in Faults
    BY <1>1 DEF copy_file, WorkerFails, WorkerGoes
  <2> QED
    BY <2>1
<1>2. CASE Worker /\ ~copy_file
  <2>1. worker'.job = worker.job
    BY <1>2 DEF Worker, Checking, OpenSource, verify, TruncateImage, WriteImage,
                WriteVersion, InstallFailed, set_target, ReadyToSwitch, Apply,
                WorkerExits, WorkerFails, WorkerGoes
  <2> QED
    BY <2>1
<1>3. ASSUME NEW c \in Callers, Spawn(c) PROVE StagedProtocol'
  <2>1. request[c].digest # "short"
    BY DEF Jobs, NoJob, Digests
  <2>2. worker'.job = worker.job \/ worker'.job = request[c]
    BY <1>3 DEF Spawn
  <2> QED
    BY <2>1, <2>2
<1>4. CASE worker' = NoWorker
  BY <1>4 DEF NoWorker, NoJob
<1>5. CASE worker' = worker
  BY <1>5
<1> QED
  BY <1>1, <1>2, <1>3, <1>4, <1>5
     DEF Next, Call, StartUpdate, StartUpdateBusy, JoinReturns, SwitchAndReboot,
         ReportBootResult, Rollback, vars

\* The inductive invariant holds initially.
LEMMA IInvInit == Init => IInv
BY TypeInit, ConstantsAssumption
   DEF Init, IInv, JoinProtocol, StagedProtocol, ProgressFollowsWorker, InstallProtocol, ReadyMeansInstalled,
       TrialProtocol, BootTargetComplete, SuccessVersionMatches, NoWorker, NoJob,
       Bootable, Complete, Slots

\* start_update preserves it: it touches no slot, and a new worker starts
\* from Idle.
LEMMA IInvStart ==
  ASSUME IInv, JoinProtocol', StagedProtocol', NEW c \in Callers,
         \/ \E job \in Jobs : StartUpdate(c, job)
         \/ StartUpdateBusy(c) \/ JoinReturns(c) \/ Spawn(c)
  PROVE  IInv'
<1>1. TypeOK'
  BY TypeStart DEF IInv
<1>2. /\ UNCHANGED slotVars
      /\ \/ UNCHANGED <<worker, progress>>
         \/ worker'.step = "none" /\ progress'.state = "Idle"
         \/ worker.step = "none" /\ worker'.step = "start" /\ UNCHANGED progress
  <2> USE DEF ResetProgress, NoWorker, slotVars
  <2>1. ASSUME NEW job \in Jobs, StartUpdate(c, job)
        PROVE  \/ UNCHANGED <<worker, progress>>
               \/ worker'.step = "none" /\ progress'.state = "Idle"
    BY <2>1 DEF StartUpdate
  <2>2. CASE Spawn(c)
    <3>1. worker' = worker \/ (worker.step = "none" /\ worker'.step = "start")
      BY <2>2 DEF Spawn, Joinable, IInv, TypeOK, ThreadTypeOK
    <3> QED
      BY <2>2, <3>1 DEF Spawn
  <2> QED
    BY <2>1, <2>2 DEF StartUpdate, StartUpdateBusy, JoinReturns, vars
<1> QED
  BY <1>1, <1>2
     DEF IInv, ProgressFollowsWorker, InstallProtocol, ReadyMeansInstalled,
         TrialProtocol, BootTargetComplete, SuccessVersionMatches, slotVars,
         inactive_slot

\* switch_and_reboot, called by an API thread or by the worker itself.
LEMMA IInvSwitch ==
  ASSUME IInv, JoinProtocol', StagedProtocol', TypeOK', switch_and_reboot,
         \/ UNCHANGED worker
         \/ worker.step = "apply" /\ worker' = [worker EXCEPT !.step = "return"]
  PROVE  IInv'
<1>1. CASE progress.state # "ReadyToSwitch"
  BY <1>1 DEF switch_and_reboot, IInv, TypeOK, ThreadTypeOK,
     ProgressFollowsWorker, InstallProtocol, ReadyMeansInstalled,
     TrialProtocol, BootTargetComplete, SuccessVersionMatches, inactive_slot
<1>2. CASE progress.state = "ReadyToSwitch"
  <2>1. worker.step \in {"apply", "return", "done"} /\ worker'.step \in {"apply", "return", "done"}
    BY <1>2 DEF IInv, TypeOK, ThreadTypeOK, WorkerSteps, ProgressFollowsWorker
  <2>2. progress'.state \in {"Failed", "Rebooting"}
    BY <1>2 DEF switch_and_reboot, SwitchBody, SwitchFails, set_progress_locked
  <2>3. Bootable(slots[current]) /\ Bootable(slots[inactive_slot])
    BY <1>2 DEF IInv, BootTargetComplete, ReadyMeansInstalled
  <2>4. UNCHANGED <<slots, versions>> /\ current' \in {current, inactive_slot}
    BY <1>2 DEF switch_and_reboot, SwitchBody, FlipSlots
  <2>5. progress'.state = "Rebooting" =>
           /\ current' = inactive_slot /\ lastGood' = current
           /\ origin' = [slot |-> current, content |-> slots[current]]
    BY <1>2 DEF switch_and_reboot, SwitchBody, SwitchFails, FlipSlots,
                set_progress_locked
  <2>6. inactive_slot # current /\ Records(slots[inactive_slot].version, versions.target)
    BY <1>2, InactiveDiffers
       DEF IInv, TypeOK, DeviceTypeOK, ReadyMeansInstalled
  <2>7. BootTargetComplete'
    BY <2>3, <2>4 DEF BootTargetComplete, Bootable, Complete
  <2>8. TrialProtocol'
    BY <2>3, <2>4, <2>5, <2>6 DEF TrialProtocol, Bootable, Complete, Records
  <2> QED
    BY <2>1, <2>2, <2>7, <2>8
       DEF IInv, ProgressFollowsWorker, InstallProtocol, ReadyMeansInstalled,
           SuccessVersionMatches
<1> QED
  BY <1>1, <1>2

\* report_boot_result preserves it: it is accepted in a trial boot only.
LEMMA IInvReport ==
  ASSUME IInv, JoinProtocol', StagedProtocol', NEW c \in Callers, NEW success \in BOOLEAN,
         ReportBootResult(c, success)
  PROVE  IInv'
<1>1. TypeOK'
  BY TypeReport DEF IInv
<1>2. /\ worker.step \in {"apply", "return", "done"} /\ UNCHANGED <<worker, slots>>
      /\ Bootable(slots[lastGood]) /\ Bootable(slots[current])
      /\ Records(slots[current].version, versions.target)
  BY DEF ReportBootResult, IInv, ProgressFollowsWorker, TrialProtocol,
         BootTargetComplete, TypeOK, ThreadTypeOK, WorkerSteps
<1>3. /\ progress'.state \in {"Success", "Failed", "Rollback"}
      /\ current' \in {current, lastGood}
      /\ progress'.state = "Success" =>
           current' = current /\ versions'.current = versions.target
  <2>1. CASE BootSucceeded /\ UNCHANGED current
    <3>1. progress'.state \in {"Success", "Failed"}
      BY <2>1 DEF BootSucceeded, set_progress_locked
    <3>2. [versions EXCEPT !.history = Record("SUCCESS"),
                           !.current = versions.target].current = versions.target
      BY DEF IInv, TypeOK, VersionTypeOK
    <3>3. progress'.state = "Success" =>
            versions' = [versions EXCEPT !.history = Record("SUCCESS"),
                                         !.current = versions.target]
      BY <2>1 DEF BootSucceeded, set_progress_locked
    <3> QED
      BY <2>1, <3>1, <3>2, <3>3
  <2>2. CASE BootFailed
    BY <2>2 DEF BootFailed, rollback_to_last_good, set_progress_locked
  <2> QED
    BY <2>1, <2>2 DEF ReportBootResult
<1> QED
  BY <1>1, <1>2, <1>3
     DEF IInv, ProgressFollowsWorker, InstallProtocol, ReadyMeansInstalled,
         TrialProtocol, BootTargetComplete, SuccessVersionMatches, Bootable,
         Complete, Records

\* rollback preserves it: it is rejected while the worker writes a slot.
LEMMA IInvRollback ==
  ASSUME IInv, JoinProtocol', StagedProtocol', TypeOK', NEW c \in Callers, Rollback(c)
  PROVE  IInv'
<1>1. worker.step \in {"apply", "return", "done"} /\ UNCHANGED <<worker, slots>>
  BY DEF Rollback, IInv, ProgressFollowsWorker, TypeOK, ThreadTypeOK, WorkerSteps
<1>2. Bootable(slots[lastGood])
  <2>1. CASE progress.state = "Rebooting"
    BY <2>1 DEF IInv, TrialProtocol
  <2>2. CASE progress.state = "ReadyToSwitch"
    <3>1. lastGood \in {current, inactive_slot}
      BY DEF IInv, TypeOK, DeviceTypeOK, Slots, inactive_slot
    <3> QED
      BY <2>2, <3>1 DEF IInv, BootTargetComplete, ReadyMeansInstalled
  <2> QED
    BY <2>1, <2>2 DEF Rollback
<1>3. progress'.state \in {"Failed", "Rollback"} /\ current' = lastGood
  BY DEF Rollback, rollback_to_last_good, set_progress_locked
<1> QED
  BY <1>1, <1>2, <1>3
     DEF IInv, ProgressFollowsWorker, InstallProtocol, ReadyMeansInstalled,
         TrialProtocol, BootTargetComplete, SuccessVersionMatches, Bootable,
         Complete, Records

\* Every step of run_update preserves it.
LEMMA IInvWorker ==
  ASSUME IInv, JoinProtocol', StagedProtocol', Worker
  PROVE  IInv'
<1>1. TypeOK'
  BY TypeWorker DEF IInv
<1> USE DEF WorkerAt, WorkerGoes
<1>2. ASSUME Checking \/ OpenSource \/ copy_file \/ verify \/ InstallFailed
      PROVE  IInv'
  <2>0. ASSUME copy_file
        PROVE  \/ worker'.step = "return" /\ progress'.state = "Failed"
               \/ worker'.step = "verify" /\ progress'.state = "Verifying"
    <3>1. /\ [worker EXCEPT !.step = "verify",
                            !.job.digest = Shortened(@)].step = "verify"
          /\ [worker EXCEPT !.step = "verify"].step = "verify"
          /\ [worker EXCEPT !.step = "return"].step = "return"
      BY DEF IInv, TypeOK, ThreadTypeOK
    <3>2. CASE WorkerFails(15)
      BY <3>1, <3>2 DEF WorkerFails, set_progress_locked
    <3>3. CASE set_progress_locked("Verifying", 55) /\ WorkerGoes("verify")
      BY <3>1, <3>3 DEF set_progress_locked
    <3>4. CASE /\ set_progress_locked("Verifying", 55)
               /\ worker' = [worker EXCEPT !.step = "verify",
                                           !.job.digest = Shortened(@)]
      BY <3>1, <3>4 DEF set_progress_locked
    <3> QED
      BY <2>0, <3>2, <3>3, <3>4 DEF copy_file
  <2> USE <1>2 DEF Checking, OpenSource, copy_file, verify, InstallFailed,
                   WorkerFails, set_progress_locked
  <2>1. UNCHANGED slotVars
    OBVIOUS
  <2>2. ProgressFollowsWorker' /\ InstallProtocol'
    <3>1. CASE copy_file
      BY <2>0, <3>1 DEF ProgressFollowsWorker, InstallProtocol
    <3>2. CASE ~copy_file
      BY <3>2 DEF IInv, TypeOK, ThreadTypeOK, ProgressFollowsWorker, InstallProtocol
    <3> QED
      BY <3>1, <3>2
  <2>3. progress'.state \notin {"ReadyToSwitch", "Rebooting", "Success"}
    OBVIOUS
  <2> QED
    BY <1>1, <2>1, <2>2, <2>3
       DEF IInv, ReadyMeansInstalled, TrialProtocol, BootTargetComplete,
           SuccessVersionMatches, slotVars
<1>3. ASSUME TruncateImage \/ WriteImage \/ WriteVersion \/ set_target
      PROVE  IInv'
  <2>1. /\ progress.state = "Installing"
        /\ UNCHANGED <<progress, current, lastGood, origin>>
    BY <1>3 DEF TruncateImage, WriteImage, WriteVersion, set_target,
                InstallVars, IInv, ProgressFollowsWorker
  <2>2. inactive_slot # current /\ inactive_slot' = inactive_slot
    BY <2>1, InactiveDiffers DEF IInv, TypeOK, DeviceTypeOK, inactive_slot
  <2>3. worker'.step \in {"failinst", "writing", "writever", "target", "ready"}
    BY <1>3 DEF TruncateImage, WriteImage, WriteVersion, set_target, IInv,
                TypeOK, ThreadTypeOK
  <2>4. slots'[current] = slots[current]
    BY <1>3, <2>2 DEF TruncateImage, WriteImage, WriteVersion, set_target, IInv,
                TypeOK, DeviceTypeOK, InstallProtocol
  <2>5. InstallProtocol'
    <3> USE <2>2 DEF InstallProtocol, IInv, TypeOK, ThreadTypeOK
    <3>1. CASE TruncateImage
      BY <3>1 DEF TruncateImage
    <3>2. CASE WriteImage
      <4>1. worker.step = "writing"
        BY <3>2 DEF WriteImage
      <4>2. CASE worker'.step = "failinst"
        BY <4>2
      <4>3. CASE worker'.step = "writever"
        <5>1. \/ slots'[inactive_slot].image = worker.job.digest
              \/ "short" \in Faults /\ slots'[inactive_slot].image = "short"
          BY <3>2, <4>1, <4>3 DEF WriteImage, DeviceTypeOK, Contents
        <5>2. Bootable(slots'[inactive_slot])
          BY <4>1, <5>1 DEF Bootable, Complete, StagedProtocol, StagedJobs, Digests
        <5> QED
          BY <3>2, <4>1, <4>3, <5>2 DEF WriteImage, Bootable, Complete
      <4> QED
        BY <3>2, <4>2, <4>3 DEF WriteImage
    <3>3. CASE WriteVersion
      <4>1. worker.step = "writever"
        BY <3>3 DEF WriteVersion
      <4>2. CASE worker'.step = "failinst"
        BY <4>2
      <4>3. CASE worker'.step = "target"
        <5>1. /\ slots'[inactive_slot].image = slots[inactive_slot].image
              /\ Records(slots'[inactive_slot].version, worker.job.ver)
          BY <3>3, <4>1, <4>3 DEF WriteVersion, DeviceTypeOK, Contents,
                                  write_text, Records
        <5> QED
          BY <3>3, <4>1, <4>3, <5>1 DEF WriteVersion, Bootable, Complete, Records
      <4> QED
        BY <3>3, <4>2, <4>3 DEF WriteVersion
    <3>4. CASE set_target
      <4>1. versions'.target = worker.job.ver
        BY <3>4 DEF set_target, VersionTypeOK
      <4> QED
        BY <3>4, <4>1 DEF set_target
    <3> QED
      BY <1>3, <3>1, <3>2, <3>3, <3>4
  <2> QED
    BY <1>1, <2>1, <2>3, <2>4, <2>5
       DEF IInv, ProgressFollowsWorker, ReadyMeansInstalled, TrialProtocol,
           BootTargetComplete, SuccessVersionMatches, Bootable,
         Complete, Records
<1>4. CASE ReadyToSwitch
  <2> USE <1>4 DEF ReadyToSwitch, set_progress_locked
  <2>1. UNCHANGED slotVars /\ progress'.state = "ReadyToSwitch"
    OBVIOUS
  <2>2. worker'.step \in {"apply", "return", "done"}
    BY DEF IInv, TypeOK, ThreadTypeOK
  <2>3. /\ Bootable(slots[inactive_slot])
        /\ Records(slots[inactive_slot].version, versions.target)
    BY DEF IInv, InstallProtocol
  <2> QED
    BY <1>1, <2>1, <2>2, <2>3
       DEF IInv, ProgressFollowsWorker, InstallProtocol, ReadyMeansInstalled,
           TrialProtocol, BootTargetComplete, SuccessVersionMatches, slotVars,
           inactive_slot
<1>5. CASE Apply
  BY <1>1, <1>5, IInvSwitch DEF Apply
<1>6. CASE WorkerExits
  <2>1. /\ UNCHANGED <<slotVars, progress>>
        /\ worker.step = "return" /\ worker'.step = "done"
    BY <1>6 DEF WorkerExits, IInv, TypeOK, ThreadTypeOK
  <2> QED
    BY <1>1, <2>1
       DEF IInv, ProgressFollowsWorker, InstallProtocol, ReadyMeansInstalled,
           TrialProtocol, BootTargetComplete, SuccessVersionMatches, slotVars,
           inactive_slot
<1> QED
  BY <1>2, <1>3, <1>4, <1>5, <1>6 DEF Worker

\* Every step preserves the inductive invariant.
LEMMA IInvNext == IInv /\ [Next]_vars => IInv'
<1> SUFFICES ASSUME IInv, [Next]_vars PROVE IInv'
  OBVIOUS
<1>1. TypeOK' /\ JoinProtocol' /\ StagedProtocol'
  BY TypeNext, JoinNext, StagedNext DEF IInv
<1>2. CASE Worker
  BY <1>1, <1>2, IInvWorker
<1>3. ASSUME NEW c \in Callers, Call(c) PROVE IInv'
  <2>1. CASE SwitchAndReboot(c)
    BY <1>1, <2>1, IInvSwitch DEF SwitchAndReboot
  <2> QED
    BY <1>1, <1>3, <2>1, IInvStart, IInvReport, IInvRollback DEF Call
<1>4. CASE UNCHANGED vars
  BY <1>1, <1>4
     DEF vars, IInv, ProgressFollowsWorker, InstallProtocol,
         ReadyMeansInstalled, TrialProtocol, BootTargetComplete,
         SuccessVersionMatches, inactive_slot
<1> QED
  BY <1>2, <1>3, <1>4 DEF Next

\* The inductive invariant holds in every behaviour.
LEMMA IInvAlways == Spec => []IInv
BY IInvInit, IInvNext, PTL DEF Spec

\* The slot the device would boot always holds a whole image whose digest, when
\* one was asked for, matched, or one cut short by a write that nothing reported
\* ("short" \in Faults): for any number of API threads and any set of failures.
THEOREM BootTargetAlwaysComplete == Spec => []BootTargetComplete
<1>1. IInv => BootTargetComplete
  BY DEF IInv
<1> QED
  BY <1>1, IInvAlways, PTL

\* ReadyToSwitch is only ever shown when the inactive slot holds the image of
\* the target version, up to what a write cut short unnoticed has lost.
THEOREM ReadyAlwaysInstalled == Spec => []ReadyMeansInstalled
<1>1. IInv => ReadyMeansInstalled
  BY DEF IInv
<1> QED
  BY <1>1, IInvAlways, PTL

\* A reported Success names the version in the slot that runs, unless a full
\* disk left the version file empty.
THEOREM SuccessAlwaysMatches == Spec => []SuccessVersionMatches
<1>1. IInv => SuccessVersionMatches
  BY DEF IInv
<1> QED
  BY <1>1, IInvAlways, PTL

\* On a disk that never fills up unnoticed, and whatever else fails: what boots
\* is whole, what is ready is whole and carries the target version, and a
\* reported Success names the version that runs.
THEOREM WholeUnlessCutShort ==
  ASSUME "short" \notin Faults
  PROVE  Spec => [](/\ Complete(slots[current])
                    /\ progress.state = "ReadyToSwitch" =>
                         /\ Complete(slots[inactive_slot])
                         /\ slots[inactive_slot].version = versions.target
                    /\ progress.state = "Success" =>
                         slots[current].version = versions.current)
<1>1. IInv => /\ Complete(slots[current])
              /\ progress.state = "ReadyToSwitch" =>
                   /\ Complete(slots[inactive_slot])
                   /\ slots[inactive_slot].version = versions.target
              /\ progress.state = "Success" =>
                   slots[current].version = versions.current
  BY DEF IInv, BootTargetComplete, ReadyMeansInstalled, SuccessVersionMatches,
         Bootable, Records
<1> QED
  BY <1>1, IInvAlways, PTL

-----------------------------------------------------------------------------
(* Action properties and the implementation of ABUpdate *)

\* A step that writes a slot is a step of the worker inside
\* write_image_to_inactive; it changes the inactive slot only.
LEMMA SlotWrites ==
  ASSUME IInv, [Next]_vars, slots' # slots
  PROVE  /\ progress.state = "Installing" /\ UNCHANGED <<progress, current>>
         /\ \E content \in Contents :
              slots' = [slots EXCEPT ![inactive_slot] = content]
<1>1. TypeOK'
  BY TypeNext DEF IInv
<1>2. TruncateImage \/ WriteImage \/ WriteVersion
  BY DEF Next, Worker, Call, StartUpdate, StartUpdateBusy, JoinReturns, Spawn,
         SwitchAndReboot, switch_and_reboot, ReportBootResult, Rollback,
         Checking, OpenSource, copy_file, verify, InstallFailed, set_target,
         ReadyToSwitch, Apply, WorkerExits, slotVars, vars
<1>3. progress.state = "Installing" /\ UNCHANGED <<progress, current>>
  BY <1>2 DEF TruncateImage, WriteImage, WriteVersion, InstallVars, WorkerAt,
              IInv, ProgressFollowsWorker
<1>4. inactive_slot \in Slots
  BY InactiveDiffers DEF IInv, TypeOK, DeviceTypeOK
<1>5. \E f \in {"image", "version"}, x \in {"torn"} \cup Digests
                                   \cup AllVersions \cup {"short", "empty"} :
         slots' = [slots EXCEPT ![inactive_slot] = [@ EXCEPT ![f] = x]]
  <2>1. /\ worker.job.digest \in Digests \cup {"short"}
        /\ worker.job.ver \in AllVersions
        /\ write_text(worker.job.ver) \subseteq AllVersions \cup {"empty"}
    BY DEF IInv, TypeOK, ThreadTypeOK, StagedJobs, write_text
  <2>2. CASE TruncateImage
    BY <2>2 DEF TruncateImage
  <2>3. CASE WriteImage
    BY <2>1, <2>3 DEF WriteImage, WorkerAt, IInv, InstallProtocol
  <2>4. CASE WriteVersion
    BY <2>1, <2>4 DEF WriteVersion, WorkerAt, IInv, InstallProtocol
  <2> QED
    BY <1>2, <2>2, <2>3, <2>4
<1>6. slots' = [slots EXCEPT ![inactive_slot] = slots'[inactive_slot]]
  BY <1>4, <1>5 DEF IInv, TypeOK, DeviceTypeOK
<1>7. slots'[inactive_slot] \in Contents
  BY <1>1, <1>4 DEF TypeOK, DeviceTypeOK
<1> QED
  BY <1>3, <1>6, <1>7

\* The slot that runs is never written: no interleaving of the API methods with
\* the unlocked write_image_to_inactive moves current_ under the worker.
THEOREM RunningSlotNeverWritten == Spec => RunningSlotUntouched
<1>1. IInv /\ [Next]_vars => [slots'[current] = slots[current]]_vars
  <2> SUFFICES ASSUME IInv, [Next]_vars, slots' # slots
               PROVE  slots'[current] = slots[current]
    OBVIOUS
  <2> QED
    BY SlotWrites, InactiveDiffers DEF IInv, TypeOK, DeviceTypeOK
<1> QED
  BY <1>1, IInvAlways, PTL DEF Spec, RunningSlotUntouched

\* A trial boot that is given up returns to the slot and the content the device
\* ran before the switch, whether the boot failed or the user rolled back.
THEOREM TrialAlwaysReversible == Spec => TrialIsReversible
<1>1. ASSUME IInv, [Next]_vars, progress.state = "Rebooting",
             progress'.state = "Rollback"
      PROVE  current' = origin.slot /\ slots'[current'] = origin.content
  <2>1. slots' = slots
    BY <1>1, SlotWrites
  <2>2. origin.slot = lastGood /\ origin.content = slots[lastGood]
    BY <1>1 DEF IInv, TrialProtocol
  <2>3. current' = lastGood
    <3>1. CASE Worker
      BY <1>1, <3>1
         DEF Worker, Checking, OpenSource, copy_file, verify, TruncateImage,
             WriteImage, WriteVersion, InstallFailed, set_target, ReadyToSwitch,
             Apply, WorkerExits, WorkerAt, switch_and_reboot, InstallVars, IInv,
             ProgressFollowsWorker
    <3>2. ASSUME NEW c \in Callers, Call(c) PROVE current' = lastGood
      <4>1. CASE \E success \in BOOLEAN : ReportBootResult(c, success)
        BY <1>1, <4>1
           DEF ReportBootResult, BootSucceeded, BootFailed,
               set_progress_locked, rollback_to_last_good
      <4>2. CASE Rollback(c)
        BY <4>2 DEF Rollback, rollback_to_last_good
      <4> QED
        BY <1>1, <3>2, <4>1, <4>2
           DEF Call, StartUpdate, StartUpdateBusy, JoinReturns, Spawn,
               ResetProgress, SwitchAndReboot, switch_and_reboot, vars
    <3> QED
      BY <1>1, <3>1, <3>2 DEF Next, vars
  <2> QED
    BY <2>1, <2>2, <2>3
<1>2. IInv /\ [Next]_vars =>
        [progress.state = "Rebooting" /\ progress'.state = "Rollback"
           => current' = origin.slot /\ slots'[current'] = origin.content]_vars
  BY <1>1
<1> QED
  BY <1>2, IInvAlways, PTL DEF Spec, TrialIsReversible

\* What one step may do to the phase of ABUpdate and to current_.
PhaseStep(from, to, slotsAllowed) ==
  Phase = from /\ Phase' = to /\ current' \in slotsAllowed

\* Outside the three states of an update under way the phase is stable.
LEMMA PhaseStable ==
  ASSUME progress.state \notin {"Installing", "ReadyToSwitch", "Rebooting"}
  PROVE  Phase = "stable"
BY DEF Phase

\* A worker step that writes no slot is a phase step of ABUpdate.
LEMMA WorkerPhase ==
  ASSUME IInv, IInv', Worker, UNCHANGED slots
  PROVE  \/ PhaseStep(Phase, Phase, {current})
         \/ PhaseStep("stable", "installing", {current})
         \/ PhaseStep("installing", "stable", {current})
         \/ PhaseStep("installing", "installed", {current}) /\ ReadyMeansInstalled'
         \/ PhaseStep("installed", "trial", {inactive_slot})
         \/ PhaseStep("installed", "stable", Slots)
<1> USE DEF PhaseStep, Phase, WorkerAt, set_progress_locked, slotVars
<1>1. CASE Checking \/ OpenSource \/ copy_file \/ verify \/ InstallFailed
  BY <1>1 DEF Checking, OpenSource, copy_file, verify, InstallFailed,
              WorkerFails, IInv, ProgressFollowsWorker
<1>2. CASE TruncateImage \/ WriteImage \/ WriteVersion \/ set_target
  BY <1>2 DEF TruncateImage, WriteImage, WriteVersion, set_target, InstallVars
<1>3. CASE ReadyToSwitch
  BY <1>3 DEF ReadyToSwitch, IInv, ProgressFollowsWorker
<1>4. CASE Apply
  BY <1>4 DEF Apply, switch_and_reboot, SwitchBody, SwitchFails, FlipSlots,
              IInv, TypeOK, DeviceTypeOK
<1>5. CASE WorkerExits
  BY <1>5 DEF WorkerExits
<1> QED
  BY <1>1, <1>2, <1>3, <1>4, <1>5 DEF Worker

\* A method call is a phase step of ABUpdate.
LEMMA CallPhase ==
  ASSUME IInv, TypeOK', NEW c \in Callers, Call(c)
  PROVE  \/ PhaseStep(Phase, Phase, {current})
         \/ PhaseStep("installed", "trial", {inactive_slot})
         \/ PhaseStep("installed", "stable", Slots)
         \/ PhaseStep("trial", "stable", Slots)
<1> USE DEF PhaseStep, Phase, set_progress_locked, slotVars
<1>1. CASE \E job \in Jobs : StartUpdate(c, job)
  BY <1>1 DEF StartUpdate, ResetProgress, Restartable
<1>2. CASE JoinReturns(c)
  <2>1. progress.state \notin {"Installing", "ReadyToSwitch", "Rebooting"}
    BY <1>2 DEF JoinReturns, IInv, JoinProtocol, Restartable
  <2> QED
    BY <1>2, <2>1 DEF JoinReturns, ResetProgress
<1>3. CASE StartUpdateBusy(c) \/ Spawn(c)
  BY <1>3 DEF StartUpdateBusy, Spawn, vars
<1>4. CASE SwitchAndReboot(c)
  BY <1>4 DEF SwitchAndReboot, switch_and_reboot, SwitchBody, SwitchFails,
              FlipSlots, TypeOK, DeviceTypeOK
<1>5. CASE \E success \in BOOLEAN : ReportBootResult(c, success)
  BY <1>5 DEF ReportBootResult, BootSucceeded, BootFailed, TypeOK, DeviceTypeOK
<1>6. CASE Rollback(c)
  BY <1>6 DEF Rollback, TypeOK, DeviceTypeOK
<1> QED
  BY <1>1, <1>2, <1>3, <1>4, <1>5, <1>6 DEF Call

\* The initial states map to initial states of ABUpdate.
LEMMA ABInit == Init => AB!Init
<1> SUFFICES ASSUME Init PROVE AB!Init
  OBVIOUS
<1>1. IInv
  BY IInvInit
<1>2. Phase = "stable"
  BY PhaseStable DEF Init
<1> QED
  BY <1>1, <1>2
     DEF AB!Init, IInv, TypeOK, DeviceTypeOK, BootTargetComplete, BootableContents

\* Every step maps to a step of ABUpdate or to a stutter.
LEMMA ABNext ==
  ASSUME IInv, IInv', [Next]_vars
  PROVE  [AB!Next]_(AB!vars)
<1> USE DEF AB!Next, AB!vars
<1>1. inactive_slot \in Slots /\ inactive_slot # current
  BY InactiveDiffers DEF IInv, TypeOK, DeviceTypeOK
<1>2. CASE slots' # slots
  <2>1. AB!Write
    BY <1>1, <1>2, SlotWrites DEF AB!Write, Phase
  <2> QED
    BY <2>1
<1>3. CASE slots' = slots
  <2>1. CASE PhaseStep(Phase, Phase, {current})
    BY <1>3, <2>1 DEF PhaseStep
  <2>2. CASE PhaseStep("stable", "installing", {current})
    BY <1>3, <2>2 DEF PhaseStep, AB!Begin
  <2>3. CASE PhaseStep("installing", "stable", {current})
    BY <1>3, <2>3 DEF PhaseStep, AB!Abort
  <2>4. CASE PhaseStep("installing", "installed", {current}) /\ ReadyMeansInstalled'
    <3>1. progress'.state = "ReadyToSwitch"
      BY <2>4 DEF PhaseStep, Phase
    <3>2. Bootable(slots[current]) /\ Bootable(slots[inactive_slot])
      BY <1>3, <2>4, <3>1
         DEF PhaseStep, ReadyMeansInstalled, IInv, BootTargetComplete,
             inactive_slot, Bootable, Complete
    <3>3. \A s \in Slots : slots[s] \in BootableContents
      BY <3>2 DEF BootableContents, IInv, TypeOK, DeviceTypeOK, Slots, inactive_slot
    <3>4. AB!Finish
      BY <1>3, <2>4, <3>3 DEF PhaseStep, AB!Finish
    <3> QED
      BY <3>4
  <2>5. CASE PhaseStep("installed", "trial", {inactive_slot})
    BY <1>1, <1>3, <2>5 DEF PhaseStep, AB!Switch
  <2>6. CASE PhaseStep("installed", "stable", Slots)
    BY <1>3, <2>6 DEF PhaseStep, AB!Discard
  <2>7. CASE PhaseStep("trial", "stable", Slots)
    BY <1>3, <2>7 DEF PhaseStep, AB!Confirm, AB!Revert
  <2>8. CASE Worker
    BY <1>3, <2>1, <2>2, <2>3, <2>4, <2>5, <2>6, <2>8, WorkerPhase
  <2>9. ASSUME NEW c \in Callers, Call(c) PROVE [AB!Next]_(AB!vars)
    BY <2>1, <2>5, <2>6, <2>7, <2>9, CallPhase DEF IInv
  <2>10. CASE UNCHANGED vars
    BY <2>10 DEF vars, Phase
  <2> QED
    BY <2>8, <2>9, <2>10 DEF Next
<1> QED
  BY <1>2, <1>3

\* The threads of OtaManager implement the abstract A/B update: every step
\* either is one of its steps or leaves phase, current_ and the slots alone.
\* What counts as bootable is BootableContents: the whole images, and on a disk
\* that may fill up those cut short unnoticed.
THEOREM OtaImplementsABUpdate == Spec => ImplementsABUpdate
<1>1. IInv /\ IInv' /\ [Next]_vars => [AB!Next]_(AB!vars)
  BY ABNext
<1> QED
  BY <1>1, ABInit, IInvAlways, PTL DEF Spec, ImplementsABUpdate, AB!Spec
=============================================================================
