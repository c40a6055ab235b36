-------------------------- MODULE DevUpdater_proofs --------------------------
(***************************************************************************)
(* Theorems about DevUpdater, for any releases, broken releases, bookings  *)
(* and numbers of faults.                                                  *)
(***************************************************************************)
EXTENDS DevUpdater, TLAPS

-----------------------------------------------------------------------------
(* The invariant                                                           *)

\* Before the first change; before the commit; after it; and once an exception was caught.
Looking   == {"download", "prior", "check", "publish journal"}
Deploying == {"stop", "snapshot", "copy", "config", "up", "live", "publish current"}
Settling  == {"retain", "remove previous", "rename", "unlink journal"}
Going     == {"caught"} \cup RollbackSteps

\* Where the data may be another generation's.
Replacing == {"copy", "config", "up", "live", "publish current", "caught", "copy back", "stop again", "restore"}

\* The files of the accepted release, but for what a recovery without a journal has torn.
Ours(fs) == IF unguarded THEN \A f \in Files : fs[f] \in {accepted, Torn} ELSE Generation(fs, accepted)

\* What is installed is the accepted generation, or nothing.
Intact ==
  /\ disk.current = accepted
  /\ IF accepted = 0 THEN NothingThere /\ disk.running = 0 /\ disk.data = NoData
     ELSE Whole(disk.data) /\ Ours(disk.files) /\ (~unguarded => disk.running = accepted)

\* A copy that is complete.
Complete(copy) ==
  copy.there => copy.data.whole /\ copy.data.by = copy.current /\ (~unguarded => Generation(copy.files, copy.current))

KeepsFiles == disk.work.there /\ Ours(disk.work.files) /\ disk.work.current = accepted
KeepsData  == disk.work.there /\ Whole(disk.work.data) /\ disk.running # accepted

ProcessInv ==
  /\ u.pc \in {"idle", "download", "prior"} => u.old = 0
  /\ u.pc \in {"idle", "download", "prior", "check"} => ~u.started /\ ~u.ready /\ ~u.committed
  /\ u.pc \in {"check", "publish journal"} \cup Deploying \cup Going => u.old = accepted
  /\ u.pc \in {"publish journal"} \cup Deploying \cup Going => u.started /\ ~u.committed /\ u.release > u.old
  /\ u.pc \in {"publish journal", "stop", "snapshot"} => ~u.ready
  /\ u.pc \in {"copy", "config", "up", "live", "publish current"} => (u.ready <=> accepted # 0)
  /\ u.pc \in {"up", "live", "publish current"} => u.activated
  /\ u.pc \in Settling => u.committed /\ u.release = accepted
  /\ u.pc \in {"stop", "snapshot", "copy back", "stop again", "restore", "current back", "up again", "live again"} => accepted # 0
  /\ u.pc \in {"down", "remove volume", "remove files"} => accepted = 0
  /\ u.pc = "restore" => u.ready
  /\ u.ready /\ u.pc \in Going => accepted # 0

JournalInv ==
  /\ u.pc \in Looking => ~disk.journal
  /\ u.pc \in Deploying \cup Settling => disk.journal
  /\ u.ready /\ u.pc \in Going => disk.journal

\* Without a journal everything is in place; with one it is in place or kept.
RestInv ==
  /\ u.pc \in {"idle", "finally", "caught"} \cup Looking /\ ~disk.journal => Intact
  /\ u.pc \in {"idle", "finally"} /\ disk.journal /\ accepted # 0 /\ ~bared =>
       /\ Whole(disk.data) \/ (KeepsData /\ (u.pc = "idle" \/ u.retained))
       /\ Ours(disk.files) \/ (disk.work.there /\ Ours(disk.work.files) /\ (u.pc = "idle" \/ u.retained))

\* From the copy of the files on they are kept, and the data from the snapshot on.
KeepInv ==
  /\ u.pc \in Looking => disk.work.there
  /\ u.pc \in {"check", "publish journal"} \cup Deploying \cup Going /\ accepted # 0 => KeepsFiles
  /\ u.pc \in Deploying \cup Going /\ accepted # 0 =>
       IF u.ready /\ u.pc \in Replacing THEN KeepsData ELSE u.pc \notin {"live", "publish current"} /\ Whole(disk.data)

DeployInv ==
  /\ u.pc \in Deploying \ {"publish current"} => disk.current = accepted
  /\ u.pc = "snapshot" => disk.running = 0
  /\ u.pc \in {"copy", "config", "up"} =>
       IF accepted = 0 THEN disk.running = 0 /\ disk.data = NoData ELSE Whole(disk.data)
  /\ u.pc \in Deploying \cup {"caught"} /\ accepted = 0 /\ ~u.activated => disk.running = 0
  /\ u.pc \in {"config", "up", "live", "publish current"} => Generation(disk.files, u.release)
  /\ u.pc \in {"live", "publish current"} =>
       disk.running = u.release /\ disk.data.by = u.release /\ (u.release \notin Broken => disk.data.whole)
  /\ u.pc = "publish current" => u.release \notin Broken

\* What a recovery without a journal leaves at least.
Unmoved ==
  /\ disk.current = accepted
  /\ IF accepted = 0 THEN NothingThere /\ disk.running = 0 /\ disk.data = NoData
     ELSE \A f \in Files : disk.files[f] \in {accepted, Torn}

BackInv ==
  /\ u.pc \in RollbackSteps /\ ~disk.journal => Unmoved
  /\ u.pc \in {"stop again", "restore", "current back", "up again", "live again"} => Ours(disk.files)
  /\ u.pc \in {"up again", "live again"} => disk.current = accepted
  /\ u.pc = "live again" => disk.running = accepted
  /\ u.pc \in {"remove volume", "remove files"} => disk.running = 0
  /\ u.pc = "remove files" => disk.data = NoData
  /\ u.pc = "recovered" => Intact

SettleInv ==
  /\ u.pc \in Settling => Intact /\ accepted # 0
  /\ u.pc \in {"retain", "remove previous", "rename"} => disk.work.there /\ Complete(disk.work)

PreviousInv ==
  u.pc \in Looking \cup Deploying \cup Going \cup {"retain", "remove previous", "unlink journal"} \/ ~disk.journal =>
    Complete(disk.previous)

UpdaterInv ==
  /\ TypeOK /\ accepted \notin Broken
  /\ ProcessInv /\ JournalInv /\ RestInv /\ KeepInv /\ DeployInv /\ BackInv /\ SettleInv /\ PreviousInv

-----------------------------------------------------------------------------
(* Types *)

LEMMA Parts ==
  ASSUME disk \in Disk
  PROVE  /\ disk.files \in Written /\ disk.current \in Name /\ disk.journal \in BOOLEAN /\ disk.work \in Directory
         /\ disk.previous \in Directory /\ disk.data \in Data /\ disk.running \in Name
         /\ disk.data.whole \in BOOLEAN /\ disk.data.by \in Name /\ disk.data.holds \subseteq Bookings
         /\ disk.work.there \in BOOLEAN /\ disk.work.files \in Written /\ disk.work.current \in Name /\ disk.work.data \in Data
         /\ disk.previous.there \in BOOLEAN
BY DEF Disk, Directory, Data

LEMMA Nothings == NoData \in Data /\ NoDirectory \in Directory /\ Idle \in Process /\ NoDisk \in Disk /\ 0 \in Name
<1>1. 0 \in Name
  BY UpdaterAssumption DEF Name
<1>2. [f \in Files |-> 0] \in Written
  BY <1>1 DEF Written
<1>3. NoData \in Data
  BY <1>1 DEF NoData, Data
<1>4. NoDirectory \in Directory
  BY <1>1, <1>2, <1>3 DEF NoDirectory, Directory
<1>5. Idle \in Process
  BY <1>1 DEF Idle, Process
<1>6. NoDisk \in Disk
  BY <1>1, <1>2, <1>3, <1>4 DEF NoDisk, Disk
<1> QED
  BY <1>1, <1>3, <1>4, <1>5, <1>6

\* A step that stays among the disks and the processes keeps the types.
LEMMA StepTyped ==
  ASSUME NEW STATE step, NEW STATE then, NEW STATE done, NEW STATE half,
         then \in Process, done \in SUBSET Disk, half \in SUBSET Disk, TypeOK, Step(step, then, done, half)
  PROVE  TypeOK'
<1>1. disk' \in Disk
  BY DEF TypeOK, Step
<1>2. u' \in Process
  BY Nothings DEF TypeOK, Step, Raises, To, Process
<1>3. unguarded' \in BOOLEAN /\ faults' \in 0..MaxFaults
  <2>1. unguarded' = unguarded \/ EndsUnguarded
    BY DEF Step
  <2>2. unguarded' \in BOOLEAN
    BY <2>1 DEF TypeOK, EndsUnguarded
  <2>3. faults' = faults \/ (faults < MaxFaults /\ faults' = faults + 1)
    BY DEF Step, Fault
  <2>4. faults' \in 0..MaxFaults
    BY <2>3, UpdaterAssumption DEF TypeOK
  <2> QED BY <2>2, <2>4
<1>4. accepted' \in Name /\ promised' \subseteq Bookings
  BY Parts DEF TypeOK, Step, Process
<1> QED
  BY <1>1, <1>2, <1>3, <1>4 DEF TypeOK, Step

LEMMA FilesTyped ==
  ASSUME TypeOK
  PROVE  /\ \A to \in Written : Copied(to) \subseteq Disk
         /\ \A to \in Written : \A order : Copying(to, order) \subseteq Disk
         /\ u.release \in Name /\ OfRelease \in Written
         /\ \A S : Without(S) \in Written
<1>1. \A to \in Written : Copied(to) \subseteq Disk
  BY DEF TypeOK, Copied, Disk
<1>2. ASSUME NEW to \in Written, NEW order PROVE Copying(to, order) \subseteq Disk
  <2> DEFINE new(g) == [f \in Files |-> IF order[f] < order[g] THEN to[f] ELSE IF f = g THEN Torn ELSE disk.files[f]]
  <2>1. ASSUME NEW g \in Files PROVE new(g) \in Written
    BY Parts DEF TypeOK, Written
  <2>2. \A g \in Files : [disk EXCEPT !.files = new(g)] \in Disk
    <3> HIDE DEF new
    <3> QED BY <2>1 DEF TypeOK, Disk
  <2>3. Copying(to, order) = {[disk EXCEPT !.files = new(g)] : g \in Files}
    BY DEF Copying, TypeOK, Disk
  <2> QED BY <2>2, <2>3
<1>3. u.release \in Name /\ OfRelease \in Written
  BY DEF TypeOK, Process, OfRelease, Written
<1>4. \A S : Without(S) \in Written
  BY Nothings, Parts DEF TypeOK, Without, Written
<1> QED
  BY <1>1, <1>2, <1>3, <1>4

LEMMA StartsTyped == ASSUME TypeOK PROVE Started \subseteq Disk /\ Starting \subseteq Disk /\ Stopped \subseteq Disk
<1>1. Startable => disk.files["release.env"] \in Name
  BY Parts DEF TypeOK, Startable, Readable, Written, Files
<1>2. disk.files["release.env"] \in Name => Migrated \subseteq Data
  BY Parts DEF TypeOK, Migrated, Damaged, Data
<1>3. Started \subseteq Disk /\ Starting \subseteq Disk
  <2> HIDE DEF Migrated
  <2> QED BY <1>1, <1>2, Nothings DEF TypeOK, Started, Starting, Disk
<1>4. Stopped \subseteq Disk
  BY Nothings DEF TypeOK, Stopped, Disk
<1> QED
  BY <1>3, <1>4

LEMMA ExecuteTyped == TypeOK /\ Execute => TypeOK'
<1> SUFFICES ASSUME TypeOK, Execute PROVE TypeOK'
  OBVIOUS
<1> USE Nothings, Parts, FilesTyped
<1>1. CASE Poll
  <2>1. [NoDirectory EXCEPT !.there = TRUE] \in Directory
    BY DEF Directory, NoDirectory
  <2>2. disk' \in Disk
    BY <1>1, <2>1 DEF Poll, TypeOK, Disk
  <2> QED BY <1>1, <2>2 DEF Poll, TypeOK, To, Process, Steps
<1>2. CASE Download
  <2> DEFINE then == IF published = 0 THEN To("finally") ELSE [u EXCEPT !.pc = "prior", !.release = published]
  <2>1. then \in Process /\ {disk} \in SUBSET Disk /\ {} \in SUBSET Disk
    BY DEF TypeOK, To, Process, Steps
  <2>2. Step("download", then, {disk}, {})
    BY <1>2 DEF Download, Passes
  <2> QED BY <2>1, <2>2, StepTyped
<1>3. CASE PriorState
  <2> DEFINE then == IF Installed THEN [u EXCEPT !.pc = "check", !.old = disk.current]
                     ELSE IF NothingThere /\ disk.running = 0 /\ disk.data.by = 0 THEN To("check") ELSE To("finally")
  <2>1. Installed => disk.files \in Written /\ disk.current \in Name
    BY DEF TypeOK
  <2>2. Kept \in Disk
    BY <2>1 DEF TypeOK, Kept, Disk, Directory
  <2>3. then \in Process
    BY DEF TypeOK, To, Process, Steps
  <2>4. Step("prior", then, {Kept}, {})
    BY <1>3 DEF PriorState
  <2> QED BY <2>2, <2>3, <2>4, StepTyped
<1>4. CASE Check
  <2> DEFINE then == IF Newer(u.release, u.old) THEN [u EXCEPT !.pc = "publish journal", !.started = TRUE] ELSE To("finally")
  <2>1. then \in Process
    BY DEF TypeOK, To, Process, Steps
  <2>2. Step("check", then, {disk}, {}) /\ {disk} \in SUBSET Disk
    BY <1>4 DEF Check, Passes, TypeOK
  <2> QED BY <2>1, <2>2, StepTyped
<1> QED BY <1>1, <1>2, <1>3, <1>4 DEF Execute

LEMMA ToTyped == ASSUME TypeOK, NEW step \in {"idle", "caught", "finally"} \cup Steps PROVE To(step) \in Process
BY DEF TypeOK, To, Process

LEMMA DeployTyped == TypeOK /\ Deploy => TypeOK'
<1> SUFFICES ASSUME TypeOK, Deploy PROVE TypeOK'
  OBVIOUS
<1> USE Nothings, Parts, FilesTyped, StartsTyped
<1>0. \A step \in Steps \cup {"finally"} : To(step) \in Process
  BY ToTyped
<1>1. disk \in Disk /\ u \in Process /\ {disk} \in SUBSET Disk /\ {} \in SUBSET Disk
  BY DEF TypeOK
<1>2. CASE PublishJournal
  <2>1. To(IF u.old # 0 THEN "stop" ELSE "copy") \in Process
    BY <1>0 DEF Steps
  <2>2. {[disk EXCEPT !.journal = TRUE]} \in SUBSET Disk
    BY <1>1 DEF Disk
  <2> QED BY <1>1, <1>2, <2>1, <2>2, StepTyped DEF PublishJournal
<1>3. CASE Stop
  <2>1. To("snapshot") \in Process
    BY <1>0 DEF Steps
  <2> QED BY <1>3, <2>1, StepTyped DEF Stop
<1>4. CASE Snapshot
  <2>1. Damaged(disk.data) \in Data
    BY <1>1 DEF Damaged, Data
  <2>2. \A d \in Data : [disk.work EXCEPT !.data = d] \in Directory
    BY <1>1 DEF Directory
  <2>3. \A w \in Directory : [disk EXCEPT !.work = w] \in Disk
    BY <1>1 DEF Disk
  <2>4. \A d \in Data : Archived(d) \in SUBSET Disk
    BY <2>2, <2>3 DEF Archived
  <2>5. [u EXCEPT !.pc = "copy", !.ready = TRUE] \in Process
    BY <1>1 DEF Process, Steps
  <2>6. Archived(disk.data) \in SUBSET Disk /\ Archived(Damaged(disk.data)) \in SUBSET Disk
    BY <1>1, <2>1, <2>4
  <2> QED BY <1>4, <2>5, <2>6, StepTyped DEF Snapshot
<1>5. CASE Copy
  <2>1. To("config") \in Process
    BY <1>0 DEF Steps
  <2> QED BY <1>5, <2>1, StepTyped DEF Copy
<1>6. CASE Config
  <2>1. [u EXCEPT !.pc = "up", !.activated = TRUE] \in Process
    BY <1>1 DEF Process, Steps
  <2>2. (IF Readable THEN {disk} ELSE {}) \in SUBSET Disk
    BY <1>1
  <2> QED BY <1>6, <1>1, <2>1, <2>2, StepTyped DEF Config
<1>7. CASE Up
  <2>1. To("live") \in Process
    BY <1>0 DEF Steps
  <2> QED BY <1>7, <2>1, StepTyped DEF Up
<1>8. CASE Live
  <2>1. To("publish current") \in Process /\ (IF Serves THEN {disk} ELSE {}) \in SUBSET Disk
    BY <1>0, <1>1 DEF Steps
  <2> QED BY <1>8, <1>1, <2>1, StepTyped DEF Live
<1>9. CASE PublishCurrent
  <2>1. [u EXCEPT !.pc = IF u.old # 0 THEN "retain" ELSE "unlink journal", !.committed = TRUE] \in Process
    BY <1>1 DEF Process, Steps
  <2>2. {[disk EXCEPT !.current = u.release]} \in SUBSET Disk
    BY <1>1 DEF Disk, Process
  <2> QED BY <1>9, <1>1, <2>1, <2>2, StepTyped DEF PublishCurrent
<1>10. CASE Retain
  <2>1. [u EXCEPT !.pc = "remove previous", !.retained = TRUE] \in Process
    BY <1>1 DEF Process, Steps
  <2> QED BY <1>10, <1>1, <2>1, StepTyped DEF Retain, Passes
<1>11. CASE RemovePrevious
  <2>1. To("rename") \in Process
    BY <1>0 DEF Steps
  <2>2. [disk.previous EXCEPT !.data = NoData] \in Directory
    BY <1>1 DEF Directory
  <2>3. {[disk EXCEPT !.previous = NoDirectory]} \in SUBSET Disk
    BY <1>1 DEF Disk
  <2>4. {[disk EXCEPT !.previous = [@ EXCEPT !.data = NoData]]} \in SUBSET Disk
    BY <1>1, <2>2 DEF Disk
  <2> QED BY <1>11, <1>1, <2>1, <2>3, <2>4, StepTyped DEF RemovePrevious
<1>12. CASE Rename
  <2>1. To("unlink journal") \in Process
    BY <1>0 DEF Steps
  <2>2. {[disk EXCEPT !.previous = disk.work, !.work = NoDirectory]} \in SUBSET Disk
    BY <1>1 DEF Disk
  <2> QED BY <1>12, <1>1, <2>1, <2>2, StepTyped DEF Rename
<1>13. CASE UnlinkJournal
  <2>1. To("finally") \in Process
    BY <1>0
  <2>2. Unlinked \in SUBSET Disk
    BY <1>1 DEF Unlinked, Disk
  <2> QED BY <1>13, <1>1, <2>1, <2>2, StepTyped DEF UnlinkJournal
<1> QED
  BY <1>2, <1>3, <1>4, <1>5, <1>6, <1>7, <1>8, <1>9, <1>10, <1>11, <1>12, <1>13 DEF Deploy

LEMMA RollbackTyped == TypeOK /\ Rollback => TypeOK'
<1> SUFFICES ASSUME TypeOK, Rollback PROVE TypeOK'
  OBVIOUS
<1> USE Nothings, Parts, FilesTyped, StartsTyped
<1>0. \A step \in Steps \cup {"finally"} : To(step) \in Process
  BY ToTyped
<1>1. disk \in Disk /\ u \in Process /\ {disk} \in SUBSET Disk /\ {} \in SUBSET Disk
  BY DEF TypeOK
<1>2. CASE Catch
  <2>1. u' \in Process
    <3>1. u' = Idle \/ \E step \in {"finally", "copy back", "down", "remove volume"} : u' = To(step)
      BY <1>2 DEF Catch
    <3> QED BY <1>0, <3>1 DEF Steps, RollbackSteps
  <2>2. faults' \in 0..MaxFaults
    <3>1. faults' = faults \/ (faults < MaxFaults /\ faults' = faults + 1)
      BY <1>2 DEF Catch, Fault
    <3> QED BY <3>1, UpdaterAssumption DEF TypeOK
  <2>3. bared' \in BOOLEAN
    BY <1>2 DEF Catch, TypeOK
  <2> QED BY <1>2, <2>1, <2>2, <2>3 DEF Catch, TypeOK
<1>3. CASE CopyBack
  <2>1. To("stop again") \in Process
    BY <1>0 DEF Steps, RollbackSteps
  <2>2. /\ Copied(disk.work.files) \in SUBSET Disk
        /\ Copying(disk.work.files, BackOrder) \in SUBSET Disk
    BY <1>1
  <2>3. Step("copy back", To("stop again"), Copied(disk.work.files), Copying(disk.work.files, BackOrder))
    BY <1>3 DEF CopyBack
  <2> HIDE DEF BackOrder, Copied, Copying
  <2> HIDE FilesTyped
  <2> QED BY <2>1, <2>2, <2>3, StepTyped
<1>4. CASE StopAgain
  <2>1. To(IF u.ready THEN "restore" ELSE "current back") \in Process
    BY <1>0 DEF Steps, RollbackSteps
  <2>2. Step("stop again", To(IF u.ready THEN "restore" ELSE "current back"), Stopped, {})
    BY <1>4 DEF StopAgain
  <2> QED BY <1>1, <2>1, <2>2, StepTyped
<1>5. CASE Restore
  <2>1. To("current back") \in Process
    BY <1>0 DEF Steps, RollbackSteps
  <2>2. disk.work.data \in Data /\ Damaged(disk.work.data) \in Data
    BY <1>1 DEF Damaged, Data
  <2>3. \A d \in Data : {[disk EXCEPT !.data = d]} \in SUBSET Disk
    BY <1>1 DEF Disk
  <2> QED BY <1>5, <2>1, <2>2, <2>3, StepTyped DEF Restore, Unpacked
<1>6. CASE CurrentBack
  <2>1. To("up again") \in Process
    BY <1>0 DEF Steps, RollbackSteps
  <2>2. {[disk EXCEPT !.current = disk.work.current]} \in SUBSET Disk
    BY <1>1 DEF Disk
  <2> QED BY <1>1, <1>6, <2>1, <2>2, StepTyped DEF CurrentBack
<1>7. CASE UpAgain
  <2>1. To("live again") \in Process
    BY <1>0 DEF Steps, RollbackSteps
  <2> QED BY <1>7, <2>1, StepTyped DEF UpAgain
<1>8. CASE LiveAgain
  <2>1. To("recovered") \in Process /\ (IF Serves THEN {disk} ELSE {}) \in SUBSET Disk
    BY <1>0, <1>1 DEF Steps, RollbackSteps
  <2> QED BY <1>1, <1>8, <2>1, StepTyped DEF LiveAgain
<1>9. CASE Down
  <2>1. To("remove volume") \in Process
    BY <1>0 DEF Steps, RollbackSteps
  <2> QED BY <1>1, <1>9, <2>1, StepTyped DEF Down
<1>10. CASE RemoveVolume
  <2>1. To("remove files") \in Process
    BY <1>0 DEF Steps, RollbackSteps
  <2>2. {[disk EXCEPT !.data = NoData]} \in SUBSET Disk
    BY <1>1 DEF Disk
  <2> QED BY <1>1, <1>10, <2>1, <2>2, StepTyped DEF RemoveVolume
<1>11. CASE RemoveFiles
  <2>1. To("recovered") \in Process
    BY <1>0 DEF Steps, RollbackSteps
  <2>2. {[disk EXCEPT !.files = Without(Files), !.current = 0]} \in SUBSET Disk
    <3>1. \A fs \in Written : [disk EXCEPT !.files = fs, !.current = 0] \in Disk
      BY <1>1 DEF Disk
    <3> QED BY <3>1
  <2>3. {[disk EXCEPT !.files = Without(S)] : S \in SUBSET Files} \in SUBSET Disk
    BY <1>1 DEF Disk
  <2> QED BY <1>11, <2>1, <2>2, <2>3, StepTyped DEF RemoveFiles
<1>12. CASE Recovered
  <2>1. To("finally") \in Process
    BY <1>0
  <2>2. Unlinked \in SUBSET Disk
    BY <1>1 DEF Unlinked, Disk
  <2> QED BY <1>1, <1>12, <2>1, <2>2, StepTyped DEF Recovered
<1> QED
  BY <1>2, <1>3, <1>4, <1>5, <1>6, <1>7, <1>8, <1>9, <1>10, <1>11, <1>12 DEF Rollback

LEMMA FailsTyped == TypeOK /\ Fails => TypeOK'
<1> SUFFICES ASSUME TypeOK, Fails PROVE TypeOK'
  OBVIOUS
<1>1. u' \in Process
  BY Nothings DEF TypeOK, Fails, Raises, To, Process
<1>2. unguarded' \in BOOLEAN
  <2>1. EndsUnguarded
    BY DEF Fails
  <2> QED BY <2>1 DEF TypeOK, EndsUnguarded
<1> QED
  BY <1>1, <1>2 DEF TypeOK, Fails

LEMMA FinishTyped == TypeOK /\ Finish => TypeOK'
<1> SUFFICES ASSUME TypeOK, Finish PROVE TypeOK'
  OBVIOUS
<1>1. disk' = disk \/ disk' = [disk EXCEPT !.work = NoDirectory]
  BY DEF Finish
<1>2. disk' \in Disk
  BY <1>1, Nothings DEF TypeOK, Disk
<1> QED
  BY <1>2, Nothings DEF TypeOK, Finish

LEMMA BookTyped == TypeOK /\ Book => TypeOK'
<1> SUFFICES ASSUME TypeOK, Book PROVE TypeOK'
  OBVIOUS
<1>1. made + 1 \in Bookings /\ made' \in 0..MaxBookings
  BY UpdaterAssumption DEF TypeOK, Book, Bookings
<1>2. [disk.data EXCEPT !.holds = @ \cup {made + 1}] \in Data
  BY <1>1, Parts DEF TypeOK, Data
<1>3. disk' \in Disk
  BY <1>2 DEF TypeOK, Book, Disk
<1>4. promised' \subseteq Bookings
  BY <1>1 DEF TypeOK, Book
<1> QED
  BY <1>1, <1>3, <1>4 DEF TypeOK, Book

LEMMA NextTyped == TypeOK /\ [Next]_vars => TypeOK'
<1> SUFFICES ASSUME TypeOK, [Next]_vars PROVE TypeOK'
  OBVIOUS
<1>1. ASSUME NEW r \in Releases, Publish(r) PROVE TypeOK'
  BY <1>1, UpdaterAssumption DEF TypeOK, Publish, Releases, Name
<1>2. CASE UNCHANGED vars
  BY <1>2 DEF TypeOK, vars
<1> QED
  BY <1>1, <1>2, ExecuteTyped, DeployTyped, RollbackTyped, FailsTyped, FinishTyped, BookTyped DEF Next, Updater

-----------------------------------------------------------------------------
(* How a step that is not done leaves things                               *)

\* What is installed stays.
SameInstalled ==
  disk'.files = disk.files /\ disk'.current = disk.current /\ disk'.data = disk.data /\ disk'.running = disk.running

History == accepted' = accepted /\ promised' = promised /\ bared' = bared

\* The conjuncts of UpdaterInv that speak of steps, in a state without any.
AtRest == ProcessInv /\ JournalInv /\ KeepInv /\ DeployInv /\ BackInv /\ SettleInv

LEMMA RestLemma == u'.pc = "finally" \/ u' = Idle => AtRest'
<1>1. ASSUME u'.pc \in {"idle", "finally"}
      PROVE  u'.pc \notin {"prior", "check"} \cup Looking \cup Deploying \cup Settling \cup Going
  BY <1>1 DEF Looking, Deploying, Settling, Going, RollbackSteps
<1>2. ASSUME u'.pc \in {"idle", "finally"}
      PROVE  (JournalInv /\ KeepInv /\ DeployInv /\ BackInv /\ SettleInv)'
  BY <1>1, <1>2 DEF JournalInv, KeepInv, DeployInv, BackInv, SettleInv, Looking, Deploying, Settling, Going, RollbackSteps
<1>3. ASSUME u' = Idle \/ u'.pc = "finally" PROVE ProcessInv' /\ u'.pc \in {"idle", "finally"}
  <2>1. \/ u'.pc = "finally"
        \/ u'.pc = "idle" /\ u'.old = 0 /\ ~u'.started /\ ~u'.ready /\ ~u'.committed
    BY <1>3 DEF Idle
  <2> QED BY <2>1 DEF ProcessInv, Looking, Deploying, Settling, Going, RollbackSteps
<1> QED
  BY <1>2, <1>3 DEF AtRest

\* Before the first change nothing is lost.
LEMMA LookingEnds ==
  ASSUME UpdaterInv, TypeOK', u.pc \in {"idle", "download", "prior", "check"}, u' \in {To("finally"), Idle},
         History, unguarded' = unguarded, SameInstalled, disk'.journal = disk.journal, disk'.previous = disk.previous,
         ~disk.journal
  PROVE  UpdaterInv'
<1>1. u'.pc = "finally" \/ u' = Idle
  BY DEF UpdaterInv, TypeOK, To, Process
<1>2. AtRest'
  BY <1>1, RestLemma
<1>3. Intact
  BY DEF UpdaterInv, RestInv, Looking
<1>4. Intact'
  BY <1>3 DEF History, SameInstalled, Intact, NothingThere, Whole, Ours, Generation
<1>5. RestInv'
  BY <1>1, <1>4 DEF RestInv
<1>6. PreviousInv'
  BY DEF UpdaterInv, PreviousInv, Complete, Generation
<1> QED
  BY <1>2, <1>5, <1>6 DEF UpdaterInv, AtRest, History

\* An exception before the commit is caught, with a generation to go back to.
LEMMA DeployEnds ==
  ASSUME UpdaterInv, TypeOK', u.pc \in {"publish journal"} \cup Deploying, u' \in {To("caught"), Idle},
         History, unguarded' = unguarded,
         disk'.journal \/ (Intact' /\ ~u.ready),
         accepted # 0 => KeepsFiles' /\ (IF u.ready THEN KeepsData' ELSE Whole(disk'.data)),
         accepted = 0 /\ ~u.activated => disk'.running = 0,
         Complete(disk.previous)'
  PROVE  UpdaterInv'
<1>1. u' = To("caught") \/ u' = Idle
  OBVIOUS
<1>2. CASE u' = Idle
  <2>1. AtRest' /\ u'.pc = "idle"
    BY <1>2, RestLemma DEF Idle
  <2>2. Whole(disk'.data) => Whole(disk.data)'
    BY DEF History, Whole
  <2>3. Intact' /\ accepted # 0 => Whole(disk.data)' /\ Ours(disk.files)'
    BY DEF Intact, History
  <2>4. RestInv'
    BY <2>1, <2>2, <2>3 DEF RestInv, KeepsFiles, History
  <2> QED BY <2>1, <2>4 DEF UpdaterInv, AtRest, PreviousInv, History
<1>3. CASE u' = To("caught")
  <2>1. /\ u'.pc = "caught" /\ u'.release = u.release /\ u'.old = u.old /\ u'.started = u.started
        /\ u'.activated = u.activated /\ u'.ready = u.ready /\ u'.committed = u.committed
    BY <1>3 DEF UpdaterInv, TypeOK, To, Process
  <2>2. u.old = accepted /\ u.started /\ ~u.committed /\ u.release > u.old /\ (u.ready => accepted # 0)
    BY DEF UpdaterInv, ProcessInv, Deploying
  <2>3. ProcessInv'
    BY <2>1, <2>2 DEF ProcessInv, Going, Deploying, Settling, RollbackSteps, History
  <2>4. JournalInv'
    BY <2>1 DEF JournalInv, Looking, Going, Deploying, Settling, RollbackSteps
  <2>5. RestInv'
    BY <2>1 DEF RestInv
  <2>6. KeepInv'
    <3>1. Whole(disk'.data) => Whole(disk.data)'
      BY DEF History, Whole
    <3> QED BY <2>1, <3>1 DEF KeepInv, Replacing, Looking, History
  <2>7. DeployInv'
    BY <2>1 DEF DeployInv, Deploying, History
  <2>8. BackInv' /\ SettleInv'
    BY <2>1 DEF BackInv, SettleInv, RollbackSteps, Settling
  <2>9. PreviousInv'
    BY DEF PreviousInv
  <2> QED BY <2>3, <2>4, <2>5, <2>6, <2>7, <2>8, <2>9 DEF UpdaterInv, History
<1> QED BY <1>1, <1>2, <1>3

\* A recovery that ends half way has its directory kept.
LEMMA BackEnds ==
  ASSUME UpdaterInv, TypeOK', u.pc \in RollbackSteps, u' \in {[u EXCEPT !.pc = "finally", !.retained = TRUE], Idle},
         History,
         disk'.journal \/ Intact',
         accepted # 0 => KeepsFiles' /\ (Whole(disk.data)' \/ KeepsData'),
         Complete(disk.previous)'
  PROVE  UpdaterInv'
<1>1. u' = Idle \/ (u'.pc = "finally" /\ u'.retained)
  BY DEF UpdaterInv, TypeOK, Process
<1>2. AtRest' /\ u'.pc \in {"idle", "finally"} /\ (u'.pc = "idle" \/ u'.retained)
  BY <1>1, RestLemma DEF Idle
<1>3. RestInv'
  BY <1>2 DEF RestInv, KeepsFiles, History, Looking
<1>4. PreviousInv'
  BY DEF PreviousInv
<1> QED BY <1>2, <1>3, <1>4 DEF UpdaterInv, AtRest, History

\* After the commit everything is in place.
LEMMA SettlingEnds ==
  ASSUME UpdaterInv, TypeOK', u' \in {To("finally"), Idle}, accepted' \notin Broken,
         Intact', disk'.journal \/ Complete(disk.previous)'
  PROVE  UpdaterInv'
<1>1. u'.pc = "finally" \/ u' = Idle
  BY DEF UpdaterInv, TypeOK, To, Process
<1>2. AtRest' /\ u'.pc \in {"idle", "finally"}
  BY <1>1, RestLemma DEF Idle
<1>3. RestInv'
  BY <1>2 DEF RestInv, Intact
<1>4. PreviousInv'
  BY <1>2 DEF PreviousInv, Looking, Going, Deploying, RollbackSteps
<1> QED BY <1>2, <1>3, <1>4 DEF UpdaterInv, AtRest

-----------------------------------------------------------------------------
(* The ways in which a step ends                                           *)

LEMMA LookingOutcome ==
  ASSUME NEW STATE step, NEW STATE then, NEW STATE done, NEW STATE half,
         UpdaterInv, step \in {"download", "prior", "check"}, ~then.committed, Step(step, then, done, half)
  PROVE  /\ u.pc = step /\ ~disk.journal /\ Intact /\ History /\ unguarded' = unguarded
         /\ \/ disk' \in done /\ u' = then
            \/ disk' \in done \cup half \cup {disk} /\ u' \in {To("finally"), Idle}
<1>1. u.pc = step /\ ~u.started /\ ~u.committed /\ u.pc \notin RollbackSteps
  BY DEF UpdaterInv, ProcessInv, Step, RollbackSteps
<1>2. ~disk.journal /\ Intact
  BY <1>1 DEF UpdaterInv, JournalInv, RestInv, Looking
<1>3. Raises = To("finally")
  BY <1>1 DEF Raises
<1>4. ~u'.committed
  BY <1>1, <1>3 DEF Step, To, Idle, UpdaterInv, TypeOK, Process
<1>5. History
  BY <1>4 DEF Step, History
<1>6. unguarded' = unguarded
  BY <1>1 DEF Step, EndsUnguarded, UpdaterInv, TypeOK
<1> QED
  BY <1>1, <1>2, <1>3, <1>5, <1>6 DEF Step

LEMMA DeployOutcome ==
  ASSUME NEW STATE step, NEW STATE then, NEW STATE done, NEW STATE half,
         UpdaterInv, u.pc \in {"publish journal"} \cup Deploying, ~then.committed, Step(step, then, done, half)
  PROVE  /\ u.pc = step /\ History /\ unguarded' = unguarded
         /\ \/ disk' \in done /\ u' = then
            \/ disk' \in done \cup half \cup {disk} /\ u' \in {To("caught"), Idle}
<1>1. u.pc = step /\ u.started /\ ~u.committed /\ u.pc \notin RollbackSteps
  BY DEF UpdaterInv, ProcessInv, Step, RollbackSteps, Deploying
<1>2. Raises = To("caught")
  BY <1>1 DEF Raises
<1>3. ~To("caught").committed /\ ~Idle.committed
  BY <1>1 DEF To, Idle, UpdaterInv, TypeOK, Process
<1>4. ~u'.committed
  BY <1>2, <1>3 DEF Step
<1>5. History
  BY <1>4 DEF Step, History
<1>6. unguarded' = unguarded
  BY <1>1 DEF Step, EndsUnguarded, UpdaterInv, TypeOK
<1> QED
  BY <1>1, <1>2, <1>5, <1>6 DEF Step

LEMMA BackOutcome ==
  ASSUME NEW STATE step, NEW STATE then, NEW STATE done, NEW STATE half,
         UpdaterInv, u.pc \in RollbackSteps, ~then.committed, Step(step, then, done, half)
  PROVE  /\ u.pc = step /\ History
         /\ \/ disk' \in done /\ u' = then /\ unguarded' = unguarded
            \/ /\ disk' \in done \cup half \cup {disk} /\ u' \in {[u EXCEPT !.pc = "finally", !.retained = TRUE], Idle}
               /\ unguarded' = IF disk.journal THEN unguarded ELSE TRUE
<1>1. u.pc = step /\ ~u.committed /\ u.pc \in RollbackSteps
  BY DEF UpdaterInv, ProcessInv, Step, Going
<1>2. Raises = [u EXCEPT !.pc = "finally", !.retained = TRUE]
  BY <1>1 DEF Raises
<1>3. ~Raises.committed /\ ~Idle.committed
  BY <1>1, <1>2 DEF Idle, UpdaterInv, TypeOK, Process
<1>4. ~u'.committed
  BY <1>3 DEF Step
<1>5. History
  BY <1>4 DEF Step, History
<1>6. EndsUnguarded => unguarded' = IF disk.journal THEN unguarded ELSE TRUE
  BY <1>1 DEF EndsUnguarded, UpdaterInv, TypeOK
<1> QED
  BY <1>1, <1>2, <1>5, <1>6 DEF Step

LEMMA SettlingOutcome ==
  ASSUME NEW STATE step, NEW STATE then, NEW STATE done, NEW STATE half,
         UpdaterInv, u.pc \in Settling, then.committed, Step(step, then, done, half)
  PROVE  /\ u.pc = step /\ History /\ unguarded' = unguarded /\ u.committed /\ u.release = accepted
         /\ \/ disk' \in done /\ u' = then
            \/ disk' \in done \cup half \cup {disk} /\ u' \in {To("finally"), Idle}
<1>1. u.pc = step /\ u.committed /\ u.release = accepted /\ u.pc \notin RollbackSteps
  BY DEF UpdaterInv, ProcessInv, Step, Settling, RollbackSteps
<1>2. Raises = To("finally")
  BY <1>1 DEF Raises
<1>3. History
  BY <1>1 DEF Step, History
<1>4. unguarded' = unguarded
  BY <1>1 DEF Step, EndsUnguarded, UpdaterInv, TypeOK
<1> QED
  BY <1>1, <1>2, <1>3, <1>4 DEF Step

-----------------------------------------------------------------------------
(* Before the first change                                                 *)

LEMMA IntactLemma ==
  ASSUME Intact, SameInstalled, History, unguarded' = unguarded
  PROVE  Intact'
BY DEF Intact, SameInstalled, History, NothingThere, Whole, Ours, Generation

LEMMA LookingStays ==
  ASSUME UpdaterInv, TypeOK', Intact, SameInstalled, History, unguarded' = unguarded,
         ~disk'.journal, disk'.previous = disk.previous, disk'.work.there, ~disk.journal,
         u'.pc \in {"download", "prior"}, ~u'.started, ~u'.ready, ~u'.committed, u'.old = 0
  PROVE  UpdaterInv'
<1>1. Intact'
  BY IntactLemma
<1>2. ProcessInv' /\ JournalInv' /\ RestInv' /\ KeepInv'
  BY <1>1 DEF ProcessInv, JournalInv, RestInv, KeepInv, Looking, Deploying, Settling, Going, RollbackSteps
<1>3. DeployInv' /\ BackInv' /\ SettleInv'
  BY DEF DeployInv, BackInv, SettleInv, Deploying, Settling, RollbackSteps
<1>4. PreviousInv'
  BY DEF UpdaterInv, PreviousInv, Complete, Generation
<1> QED
  BY <1>2, <1>3, <1>4 DEF UpdaterInv, History

LEMMA PollStep == UpdaterInv /\ TypeOK' /\ Poll => UpdaterInv'
<1> SUFFICES ASSUME UpdaterInv, TypeOK', Poll PROVE UpdaterInv'
  OBVIOUS
<1>1. Intact /\ ~disk.journal
  BY DEF Poll, UpdaterInv, RestInv
<1>2. History /\ unguarded' = unguarded
  BY DEF Poll, History
<1>3. /\ SameInstalled /\ disk'.journal = disk.journal /\ disk'.previous = disk.previous
      /\ disk'.work = [NoDirectory EXCEPT !.there = TRUE]
  BY DEF Poll, SameInstalled, UpdaterInv, TypeOK, Disk
<1>4. disk'.work.there
  BY <1>3 DEF NoDirectory
<1>5. ~u.started /\ ~u.ready /\ ~u.committed /\ u.old = 0
  BY DEF Poll, UpdaterInv, ProcessInv
<1>6. u'.pc = "download" /\ ~u'.started /\ ~u'.ready /\ ~u'.committed /\ u'.old = 0
  BY <1>5 DEF Poll, To, UpdaterInv, TypeOK, Process
<1> QED
  BY <1>1, <1>2, <1>3, <1>4, <1>6, LookingStays

LEMMA DownloadStep == UpdaterInv /\ TypeOK' /\ Download => UpdaterInv'
<1> SUFFICES ASSUME UpdaterInv, TypeOK', Download PROVE UpdaterInv'
  OBVIOUS
<1> DEFINE then == IF published = 0 THEN To("finally") ELSE [u EXCEPT !.pc = "prior", !.release = published]
<1>1. Step("download", then, {disk}, {})
  BY DEF Download, Passes
<1>2. u.pc = "download"
  BY <1>1 DEF Step
<1>3. ~u.started /\ ~u.ready /\ ~u.committed /\ u.old = 0 /\ disk.work.there
  BY <1>2 DEF UpdaterInv, ProcessInv, KeepInv, Looking
<1>4. ~then.committed
  BY <1>3 DEF To, UpdaterInv, TypeOK, Process
<1> HIDE DEF then
<1>5. /\ ~disk.journal /\ Intact /\ History /\ unguarded' = unguarded /\ disk' = disk
      /\ u' = then \/ u' \in {To("finally"), Idle}
  BY <1>1, <1>4, LookingOutcome
<1>6. SameInstalled
  BY <1>5 DEF SameInstalled
<1>7. CASE u' \in {To("finally"), Idle}
  BY <1>2, <1>5, <1>6, <1>7, LookingEnds
<1>8. CASE u' = [u EXCEPT !.pc = "prior", !.release = published]
  <2>1. u'.pc = "prior" /\ ~u'.started /\ ~u'.ready /\ ~u'.committed /\ u'.old = 0
    BY <1>3, <1>8 DEF UpdaterInv, TypeOK, Process
  <2> QED BY <1>3, <1>5, <1>6, <2>1, LookingStays
<1> QED
  BY <1>5, <1>7, <1>8 DEF then

\* Before the journal is published: the files and the state that are there are kept.
LEMMA ReadyToDeploy ==
  ASSUME UpdaterInv, TypeOK', Intact, SameInstalled, History, unguarded' = unguarded,
         ~disk'.journal, disk'.previous = disk.previous, disk'.work.there, ~disk.journal,
         accepted # 0 => KeepsFiles',
         u'.pc \in {"check", "publish journal"}, ~u'.ready, ~u'.committed, u'.old = accepted,
         IF u'.pc = "check" THEN ~u'.started ELSE u'.started /\ u'.release > u'.old
  PROVE  UpdaterInv'
<1>1. Intact' /\ accepted' = accepted
  BY IntactLemma DEF History
<1>2. ProcessInv' /\ JournalInv' /\ RestInv' /\ KeepInv'
  BY <1>1 DEF ProcessInv, JournalInv, RestInv, KeepInv, Looking, Deploying, Settling, Going, RollbackSteps
<1>3. DeployInv' /\ BackInv' /\ SettleInv'
  BY DEF DeployInv, BackInv, SettleInv, Deploying, Settling, RollbackSteps
<1>4. PreviousInv'
  BY DEF UpdaterInv, PreviousInv, Complete, Generation
<1> QED
  BY <1>1, <1>2, <1>3, <1>4 DEF UpdaterInv

LEMMA PriorStateStep == UpdaterInv /\ TypeOK' /\ PriorState => UpdaterInv'
<1> SUFFICES ASSUME UpdaterInv, TypeOK', PriorState PROVE UpdaterInv'
  OBVIOUS
<1> DEFINE then == IF Installed THEN [u EXCEPT !.pc = "check", !.old = disk.current]
                   ELSE IF NothingThere /\ disk.running = 0 /\ disk.data.by = 0 THEN To("check") ELSE To("finally")
<1>1. Step("prior", then, {Kept}, {})
  BY DEF PriorState
<1>2. u.pc = "prior"
  BY <1>1 DEF Step
<1>3. ~u.started /\ ~u.ready /\ ~u.committed /\ u.old = 0 /\ disk.work.there
  BY <1>2 DEF UpdaterInv, ProcessInv, KeepInv, Looking
<1>4. ~then.committed
  BY <1>3 DEF To, UpdaterInv, TypeOK, Process
<1>5. /\ ~disk.journal /\ Intact /\ History /\ unguarded' = unguarded /\ disk' \in {Kept, disk}
      /\ (disk' = Kept /\ u' = then) \/ u' \in {To("finally"), Idle}
  <2> HIDE DEF then
  <2> QED BY <1>1, <1>4, LookingOutcome
<1>6. disk.work \in Directory
  BY Parts DEF UpdaterInv, TypeOK
<1>7. /\ SameInstalled /\ disk'.journal = disk.journal /\ disk'.previous = disk.previous /\ disk'.work.there
      /\ disk' = Kept /\ Installed => disk'.work.files = disk.files /\ disk'.work.current = disk.current
  <2>1. CASE disk' = disk /\ ~(disk' = Kept /\ Installed)
    BY <1>3, <2>1 DEF SameInstalled
  <2>2. CASE Installed /\ disk' = [disk EXCEPT !.work = [disk.work EXCEPT !.files = disk.files, !.current = disk.current]]
    <3>1. /\ SameInstalled /\ disk'.journal = disk.journal /\ disk'.previous = disk.previous
          /\ disk'.work = [disk.work EXCEPT !.files = disk.files, !.current = disk.current]
      BY <2>2 DEF SameInstalled, UpdaterInv, TypeOK, Disk
    <3>2. disk'.work.there = disk.work.there /\ disk'.work.files = disk.files /\ disk'.work.current = disk.current
      BY <1>6, <3>1 DEF Directory
    <3> QED BY <1>3, <3>1, <3>2
  <2> QED BY <1>5, <2>1, <2>2 DEF Kept
<1>8. CASE u' \in {To("finally"), Idle}
  BY <1>2, <1>5, <1>7, <1>8, LookingEnds
<1>9. CASE disk' = Kept /\ u' = then /\ u' # To("finally")
  <2>1. /\ u'.pc = "check" /\ ~u'.started /\ ~u'.ready /\ ~u'.committed
        /\ u'.old = IF Installed THEN disk.current ELSE 0
    BY <1>3, <1>9 DEF To, UpdaterInv, TypeOK, Process
  <2>2. ~Installed => disk.current = 0
    BY <1>9 DEF NothingThere
  <2>3. disk.current = accepted
    BY <1>5 DEF Intact
  <2>4. accepted # 0 => KeepsFiles'
    BY <1>5, <1>7, <1>9, <2>2, <2>3 DEF KeepsFiles, Intact, Ours, Generation, History
  <2> QED BY <1>5, <1>7, <2>1, <2>2, <2>3, <2>4, ReadyToDeploy
<1> QED
  BY <1>5, <1>8, <1>9

LEMMA CheckStep == UpdaterInv /\ TypeOK' /\ Check => UpdaterInv'
<1> SUFFICES ASSUME UpdaterInv, TypeOK', Check PROVE UpdaterInv'
  OBVIOUS
<1> DEFINE then == IF Newer(u.release, u.old) THEN [u EXCEPT !.pc = "publish journal", !.started = TRUE] ELSE To("finally")
<1>1. Step("check", then, {disk}, {})
  BY DEF Check, Passes
<1>2. u.pc = "check"
  BY <1>1 DEF Step
<1>3. ~u.started /\ ~u.ready /\ ~u.committed /\ u.old = accepted /\ disk.work.there /\ (accepted # 0 => KeepsFiles)
  BY <1>2 DEF UpdaterInv, ProcessInv, KeepInv, Looking
<1>4. ~then.committed
  BY <1>3 DEF To, UpdaterInv, TypeOK, Process
<1>5. /\ ~disk.journal /\ Intact /\ History /\ unguarded' = unguarded /\ disk' = disk
      /\ u' = then \/ u' \in {To("finally"), Idle}
  <2> HIDE DEF then
  <2> QED BY <1>1, <1>4, LookingOutcome
<1>6. SameInstalled
  BY <1>5 DEF SameInstalled
<1>7. CASE u' \in {To("finally"), Idle}
  BY <1>2, <1>5, <1>6, <1>7, LookingEnds
<1>8. CASE Newer(u.release, u.old) /\ u' = [u EXCEPT !.pc = "publish journal", !.started = TRUE]
  <2>1. /\ u'.pc = "publish journal" /\ u'.started /\ ~u'.ready /\ ~u'.committed /\ u'.old = accepted
        /\ u'.release > u'.old
    BY <1>3, <1>8 DEF UpdaterInv, TypeOK, Process, Newer
  <2>2. accepted # 0 => KeepsFiles'
    BY <1>3, <1>5 DEF KeepsFiles, Ours, Generation, History
  <2> QED BY <1>3, <1>5, <1>6, <2>1, <2>2, ReadyToDeploy
<1> QED
  BY <1>5, <1>7, <1>8

-----------------------------------------------------------------------------
(* Deployment                                                              *)

LEMMA DeployGoes ==
  ASSUME UpdaterInv, TypeOK', u'.pc \in Deploying, History, unguarded' = unguarded,
         disk'.journal, disk'.previous = disk.previous, Complete(disk.previous), ProcessInv', KeepInv', DeployInv'
  PROVE  UpdaterInv'
<1>1. JournalInv' /\ RestInv' /\ BackInv' /\ SettleInv'
  BY DEF JournalInv, RestInv, BackInv, SettleInv, Deploying, Looking, Settling, Going, RollbackSteps
<1>2. PreviousInv'
  BY DEF PreviousInv, Complete, Generation
<1> QED
  BY <1>1, <1>2 DEF UpdaterInv, History

LEMMA PublishJournalStep == UpdaterInv /\ TypeOK' /\ PublishJournal => UpdaterInv'
<1> SUFFICES ASSUME UpdaterInv, TypeOK', PublishJournal PROVE UpdaterInv'
  OBVIOUS
<1> DEFINE then == To(IF u.old # 0 THEN "stop" ELSE "copy")
           new  == [disk EXCEPT !.journal = TRUE]
<1>1. Step("publish journal", then, {new}, {})
  BY DEF PublishJournal
<1>2. u.pc = "publish journal"
  BY <1>1 DEF Step
<1>3. /\ u.started /\ ~u.ready /\ ~u.committed /\ u.old = accepted /\ u.release > u.old /\ ~disk.journal
      /\ accepted # 0 => KeepsFiles
  BY <1>2 DEF UpdaterInv, ProcessInv, JournalInv, KeepInv, Looking
<1>4. Intact /\ Complete(disk.previous)
  BY <1>2, <1>3 DEF UpdaterInv, RestInv, PreviousInv, Looking
<1>5. ~then.committed
  BY <1>3 DEF To, UpdaterInv, TypeOK, Process
<1>6. /\ History /\ unguarded' = unguarded /\ disk' \in {new, disk}
      /\ (disk' = new /\ u' = then) \/ u' \in {To("caught"), Idle}
  <2> HIDE DEF then, new
  <2>1. /\ History /\ unguarded' = unguarded
        /\ \/ disk' \in {new} /\ u' = then
           \/ disk' \in {new} \cup {} \cup {disk} /\ u' \in {To("caught"), Idle}
    BY <1>1, <1>2, <1>5, DeployOutcome
  <2> QED BY <2>1
<1>7. /\ SameInstalled /\ disk'.work = disk.work /\ disk'.previous = disk.previous
      /\ disk' = new => disk'.journal
  BY <1>6 DEF SameInstalled, UpdaterInv, TypeOK, Disk
<1>8. Intact' /\ Complete(disk.previous)' /\ (accepted # 0 => KeepsFiles' /\ Whole(disk.data)')
  <2>1. Intact' /\ accepted' = accepted
    BY <1>4, <1>6, <1>7, IntactLemma DEF History
  <2> QED BY <1>3, <1>4, <1>6, <1>7, <2>1 DEF Complete, Generation, KeepsFiles, Ours, Intact
<1>9. CASE u' \in {To("caught"), Idle}
  <2>1. accepted = 0 => disk'.running = 0
    BY <1>6, <1>8 DEF Intact, History
  <2>2. Whole(disk.data)' => Whole(disk'.data)
    BY <1>6 DEF Whole, History
  <2> QED BY <1>2, <1>3, <1>6, <1>8, <1>9, <2>1, <2>2, DeployEnds
<1>10. CASE disk' = new /\ u' = then
  <2>1. /\ u'.pc = (IF accepted # 0 THEN "stop" ELSE "copy")
        /\ u'.started /\ ~u'.ready /\ ~u'.committed /\ u'.old = accepted /\ u'.release > u'.old
    BY <1>3, <1>10 DEF To, UpdaterInv, TypeOK, Process
  <2>2. ProcessInv'
    BY <1>6, <2>1 DEF ProcessInv, Going, Deploying, Settling, RollbackSteps, History
  <2>3. KeepInv'
    BY <1>6, <1>8, <2>1 DEF KeepInv, History, Looking, Replacing
  <2>4. DeployInv'
    BY <1>6, <1>8, <2>1 DEF DeployInv, Intact, History, Deploying
  <2> QED BY <1>4, <1>6, <1>7, <1>10, <2>1, <2>2, <2>3, <2>4, DeployGoes DEF Deploying
<1> QED
  BY <1>6, <1>9, <1>10

\* What holds in every step of a deployment.
LEMMA InDeploy ==
  ASSUME UpdaterInv, u.pc \in Deploying
  PROVE  /\ u.started /\ ~u.committed /\ u.old = accepted /\ u.release > u.old /\ disk.journal /\ Complete(disk.previous)
         /\ accepted # 0 => KeepsFiles
BY DEF UpdaterInv, ProcessInv, JournalInv, KeepInv, PreviousInv, Deploying

LEMMA StopStep == UpdaterInv /\ TypeOK' /\ Stop => UpdaterInv'
<1> SUFFICES ASSUME UpdaterInv, TypeOK', Stop PROVE UpdaterInv'
  OBVIOUS
<1>1. Step("stop", To("snapshot"), Stopped, {})
  BY DEF Stop
<1>2. u.pc = "stop"
  BY <1>1 DEF Step
<1>3. /\ u.started /\ ~u.committed /\ u.old = accepted /\ u.release > u.old /\ disk.journal /\ Complete(disk.previous)
      /\ KeepsFiles /\ accepted # 0 /\ ~u.ready /\ Whole(disk.data) /\ disk.current = accepted
  BY <1>2, InDeploy DEF UpdaterInv, ProcessInv, KeepInv, DeployInv, Deploying
<1>4. ~To("snapshot").committed
  BY <1>3 DEF To, UpdaterInv, TypeOK, Process
<1>5. /\ History /\ unguarded' = unguarded /\ disk' \in Stopped \cup {disk}
      /\ (disk' \in Stopped /\ u' = To("snapshot")) \/ u' \in {To("caught"), Idle}
  BY <1>1, <1>2, <1>4, DeployOutcome DEF Deploying
<1>6. /\ disk'.files = disk.files /\ disk'.current = disk.current /\ disk'.data = disk.data /\ disk'.work = disk.work
      /\ disk'.previous = disk.previous /\ disk'.journal = disk.journal
      /\ disk' \in Stopped => disk'.running = 0
  BY <1>5 DEF Stopped, UpdaterInv, TypeOK, Disk
<1>7. KeepsFiles' /\ Whole(disk.data)' /\ Whole(disk'.data) /\ Complete(disk.previous)'
  BY <1>3, <1>5, <1>6 DEF KeepsFiles, Whole, Complete, Ours, Generation, History
<1>8. CASE u' \in {To("caught"), Idle}
  BY <1>2, <1>3, <1>5, <1>6, <1>7, <1>8, DeployEnds DEF Deploying
<1>9. CASE disk' \in Stopped /\ u' = To("snapshot")
  <2>1. /\ u'.pc = "snapshot" /\ u'.started /\ ~u'.ready /\ ~u'.committed /\ u'.old = accepted /\ u'.release > u'.old
    BY <1>3, <1>9 DEF To, UpdaterInv, TypeOK, Process
  <2>2. ProcessInv'
    BY <1>3, <1>5, <2>1 DEF ProcessInv, Going, Deploying, Settling, RollbackSteps, History
  <2>3. KeepInv'
    BY <1>5, <1>7, <2>1 DEF KeepInv, History, Looking, Replacing
  <2>4. DeployInv'
    BY <1>3, <1>5, <1>6, <1>9, <2>1 DEF DeployInv, History, Deploying
  <2> QED BY <1>3, <1>5, <1>6, <2>1, <2>2, <2>3, <2>4, DeployGoes DEF Deploying
<1> QED
  BY <1>5, <1>8, <1>9

LEMMA SnapshotStep == UpdaterInv /\ TypeOK' /\ Snapshot => UpdaterInv'
<1> SUFFICES ASSUME UpdaterInv, TypeOK', Snapshot PROVE UpdaterInv'
  OBVIOUS
<1> DEFINE then == [u EXCEPT !.pc = "copy", !.ready = TRUE]
<1>1. Step("snapshot", then, Archived(disk.data), Archived(Damaged(disk.data)))
  BY DEF Snapshot
<1>2. u.pc = "snapshot"
  BY <1>1 DEF Step
<1>3. /\ u.started /\ ~u.committed /\ u.old = accepted /\ u.release > u.old /\ disk.journal /\ Complete(disk.previous)
      /\ KeepsFiles /\ accepted # 0 /\ ~u.ready /\ Whole(disk.data) /\ disk.current = accepted /\ disk.running = 0
  BY <1>2, InDeploy DEF UpdaterInv, ProcessInv, KeepInv, DeployInv, Deploying
<1>4. ~then.committed
  BY <1>3 DEF UpdaterInv, TypeOK, Process
<1>5. /\ History /\ unguarded' = unguarded
      /\ disk' \in Archived(disk.data) \cup Archived(Damaged(disk.data)) \cup {disk}
      /\ (disk' \in Archived(disk.data) /\ u' = then) \/ u' \in {To("caught"), Idle}
  <2> HIDE DEF then
  <2> QED BY <1>1, <1>2, <1>4, DeployOutcome DEF Deploying
<1>6. /\ SameInstalled /\ disk'.previous = disk.previous /\ disk'.journal = disk.journal
      /\ disk'.work.there = disk.work.there /\ disk'.work.files = disk.work.files /\ disk'.work.current = disk.work.current
      /\ disk' \in Archived(disk.data) => disk'.work.data = disk.data
  <2>1. CASE disk' = disk /\ disk' \notin Archived(disk.data)
    BY <2>1 DEF SameInstalled
  <2>2. ASSUME NEW d \in {disk.data, Damaged(disk.data)}, disk' \in Archived(d)
        PROVE  /\ SameInstalled /\ disk'.previous = disk.previous /\ disk'.journal = disk.journal
               /\ disk'.work.there = disk.work.there /\ disk'.work.files = disk.work.files
               /\ disk'.work.current = disk.work.current /\ disk'.work.data = d
    <3>1. disk' = [disk EXCEPT !.work = [disk.work EXCEPT !.data = d]]
      BY <2>2 DEF Archived
    <3>2. /\ SameInstalled /\ disk'.previous = disk.previous /\ disk'.journal = disk.journal
          /\ disk'.work = [disk.work EXCEPT !.data = d]
      BY <3>1 DEF SameInstalled, UpdaterInv, TypeOK, Disk
    <3> QED BY <3>2, Parts DEF UpdaterInv, TypeOK, Directory
  <2> QED BY <1>5, <2>1, <2>2
<1>7. KeepsFiles' /\ Whole(disk.data)' /\ Whole(disk'.data) /\ Complete(disk.previous)'
  BY <1>3, <1>5, <1>6 DEF SameInstalled, KeepsFiles, Whole, Complete, Ours, Generation, History
<1>8. CASE u' \in {To("caught"), Idle}
  BY <1>2, <1>3, <1>5, <1>6, <1>7, <1>8, DeployEnds DEF Deploying
<1>9. CASE disk' \in Archived(disk.data) /\ u' = then
  <2>1. /\ u'.pc = "copy" /\ u'.started /\ u'.ready /\ ~u'.committed /\ u'.old = accepted /\ u'.release > u'.old
    BY <1>3, <1>9 DEF UpdaterInv, TypeOK, Process
  <2>2. ProcessInv'
    BY <1>3, <1>5, <2>1 DEF ProcessInv, Going, Deploying, Settling, RollbackSteps, History
  <2>3. KeepsData'
    BY <1>3, <1>5, <1>6, <1>7, <1>9 DEF KeepsData, KeepsFiles, Whole, History, SameInstalled
  <2>4. KeepInv'
    BY <1>5, <1>7, <2>1, <2>3 DEF KeepInv, History, Looking, Replacing
  <2>5. DeployInv'
    BY <1>3, <1>5, <1>6, <1>7, <2>1 DEF DeployInv, History, Deploying, SameInstalled
  <2> QED BY <1>3, <1>5, <1>6, <2>1, <2>2, <2>4, <2>5, DeployGoes DEF Deploying
<1> QED
  BY <1>5, <1>8, <1>9

\* What holds from the copy of the files to the commit.
LEMMA InReplacing ==
  ASSUME UpdaterInv, u.pc \in {"copy", "config", "up", "live", "publish current"}
  PROVE  /\ u.started /\ ~u.committed /\ u.old = accepted /\ u.release > u.old /\ disk.journal /\ Complete(disk.previous)
         /\ (u.ready <=> accepted # 0) /\ u.pc \in Deploying
         /\ accepted # 0 => KeepsFiles /\ KeepsData
         /\ accepted = 0 /\ ~u.activated => disk.running = 0
<1>1. u.pc \in Deploying /\ u.pc \in Replacing
  BY DEF Deploying, Replacing
<1>2. u.ready <=> accepted # 0
  BY DEF UpdaterInv, ProcessInv
<1> QED BY <1>1, <1>2, InDeploy DEF UpdaterInv, KeepInv, DeployInv

\* A failure after the files began to be replaced, whatever became of files, data and containers.
LEMMA ReplacingEnds ==
  ASSUME UpdaterInv, TypeOK', u.pc \in {"copy", "config", "up", "live", "publish current"}, u' \in {To("caught"), Idle},
         History, unguarded' = unguarded, disk'.journal = disk.journal, disk'.work = disk.work, disk'.previous = disk.previous,
         accepted # 0 => disk'.running # accepted,
         accepted = 0 /\ ~u.activated => disk'.running = 0
  PROVE  UpdaterInv'
<1>1. KeepsFiles /\ KeepsData /\ accepted # 0 => KeepsFiles' /\ KeepsData'
  BY DEF KeepsFiles, KeepsData, Ours, Generation, Whole, History
<1>2. Complete(disk.previous) => Complete(disk.previous)'
  BY DEF Complete, Generation
<1> QED
  BY <1>1, <1>2, InReplacing, DeployEnds

LEMMA CopyStep == UpdaterInv /\ TypeOK' /\ Copy => UpdaterInv'
<1> SUFFICES ASSUME UpdaterInv, TypeOK', Copy PROVE UpdaterInv'
  OBVIOUS
<1>1. Step("copy", To("config"), Copied(OfRelease), Copying(OfRelease, DeployOrder))
  BY DEF Copy
<1>2. u.pc = "copy"
  BY <1>1 DEF Step
<1>3. /\ u.started /\ ~u.committed /\ u.old = accepted /\ u.release > u.old /\ disk.journal /\ Complete(disk.previous)
      /\ (u.ready <=> accepted # 0) /\ u.pc \in Deploying
      /\ accepted # 0 => KeepsFiles /\ KeepsData
      /\ accepted = 0 /\ ~u.activated => disk.running = 0
  BY <1>2, InReplacing
<1>4. ~To("config").committed
  BY <1>3 DEF To, UpdaterInv, TypeOK, Process
<1>5. /\ History /\ unguarded' = unguarded
      /\ \/ disk' \in Copied(OfRelease) /\ u' = To("config")
         \/ /\ disk' \in Copied(OfRelease) \cup Copying(OfRelease, DeployOrder) \cup {disk}
            /\ u' \in {To("caught"), Idle}
  BY <1>1, <1>3, <1>4, DeployOutcome
<1>6. /\ disk'.current = disk.current /\ disk'.data = disk.data /\ disk'.running = disk.running
      /\ disk'.work = disk.work /\ disk'.previous = disk.previous /\ disk'.journal = disk.journal
      /\ disk' \in Copied(OfRelease) => disk'.files = OfRelease
  BY <1>5 DEF Copied, Copying, UpdaterInv, TypeOK, Disk
<1>7. CASE u' \in {To("caught"), Idle}
  BY <1>2, <1>3, <1>5, <1>6, <1>7, ReplacingEnds DEF KeepsData
<1>8. CASE disk' \in Copied(OfRelease) /\ u' = To("config")
  <2>1. /\ u'.pc = "config" /\ u'.started /\ u'.ready = u.ready /\ ~u'.committed /\ u'.old = accepted
        /\ u'.release = u.release /\ u'.activated = u.activated
    BY <1>3, <1>8 DEF To, UpdaterInv, TypeOK, Process
  <2>2. ProcessInv'
    BY <1>3, <1>5, <2>1 DEF ProcessInv, Going, Deploying, Settling, RollbackSteps, History
  <2>3. KeepInv'
    BY <1>3, <1>5, <1>6, <2>1 DEF KeepInv, History, Looking, Replacing, KeepsFiles, KeepsData, Ours, Generation, Whole
  <2>4. disk.current = accepted /\ IF accepted = 0 THEN disk.running = 0 /\ disk.data = NoData ELSE Whole(disk.data)
    BY <1>2, <1>3 DEF UpdaterInv, DeployInv
  <2>5. Generation(disk.files, u.release)'
    BY <1>6, <1>8, <2>1 DEF Generation, OfRelease
  <2>6. DeployInv'
    BY <1>5, <1>6, <2>1, <2>4, <2>5 DEF DeployInv, History, Whole
  <2> QED BY <1>3, <1>5, <1>6, <2>1, <2>2, <2>3, <2>6, DeployGoes DEF Deploying
<1> QED
  BY <1>5, <1>7, <1>8

LEMMA ConfigStep == UpdaterInv /\ TypeOK' /\ Config => UpdaterInv'
<1> SUFFICES ASSUME UpdaterInv, TypeOK', Config PROVE UpdaterInv'
  OBVIOUS
<1> DEFINE then == [u EXCEPT !.pc = "up", !.activated = TRUE]
           done == IF Readable THEN {disk} ELSE {}
<1>1. Step("config", then, done, {})
  BY DEF Config
<1>2. u.pc = "config"
  BY <1>1 DEF Step
<1>3. /\ u.started /\ ~u.committed /\ u.old = accepted /\ u.release > u.old /\ disk.journal /\ Complete(disk.previous)
      /\ (u.ready <=> accepted # 0) /\ u.pc \in Deploying
      /\ accepted # 0 => KeepsFiles /\ KeepsData
      /\ accepted = 0 /\ ~u.activated => disk.running = 0
  BY <1>2, InReplacing
<1>4. ~then.committed
  BY <1>3 DEF UpdaterInv, TypeOK, Process
<1>5. /\ History /\ unguarded' = unguarded
      /\ \/ disk' \in done /\ u' = then
         \/ disk' \in done \cup {} \cup {disk} /\ u' \in {To("caught"), Idle}
  <2> HIDE DEF then, done
  <2> QED BY <1>1, <1>3, <1>4, DeployOutcome
<1>6. disk' = disk
  BY <1>5
<1>7. CASE u' \in {To("caught"), Idle}
  BY <1>2, <1>3, <1>5, <1>6, <1>7, ReplacingEnds DEF KeepsData
<1>8. CASE u' = then
  <2>1. /\ u'.pc = "up" /\ u'.started /\ u'.ready = u.ready /\ ~u'.committed /\ u'.old = accepted
        /\ u'.release = u.release /\ u'.activated
    BY <1>3, <1>8 DEF UpdaterInv, TypeOK, Process
  <2>2. ProcessInv'
    BY <1>3, <1>5, <2>1 DEF ProcessInv, Going, Deploying, Settling, RollbackSteps, History
  <2>3. KeepInv'
    BY <1>3, <1>5, <1>6, <2>1 DEF KeepInv, History, Looking, Replacing, KeepsFiles, KeepsData, Ours, Generation, Whole
  <2>4. /\ disk.current = accepted /\ Generation(disk.files, u.release)
        /\ IF accepted = 0 THEN disk.running = 0 /\ disk.data = NoData ELSE Whole(disk.data)
    BY <1>2, <1>3 DEF UpdaterInv, DeployInv
  <2>5. DeployInv'
    BY <1>5, <1>6, <2>1, <2>4 DEF DeployInv, History, Whole, Generation
  <2> QED BY <1>3, <1>5, <1>6, <2>1, <2>2, <2>3, <2>5, DeployGoes DEF Deploying
<1> QED
  BY <1>5, <1>7, <1>8

LEMMA Starts ==
  ASSUME TypeOK, disk' \in Started \cup Starting
  PROVE  /\ disk'.files = disk.files /\ disk'.current = disk.current /\ disk'.work = disk.work
         /\ disk'.previous = disk.previous /\ disk'.journal = disk.journal
         /\ disk'.running \in {disk.files["release.env"], 0} /\ disk'.data \in Migrated
         /\ disk' \in Started => disk'.running = disk.files["release.env"]
<1>1. PICK d \in Migrated, r \in {disk.files["release.env"], 0} :
         /\ disk' = [disk EXCEPT !.running = r, !.data = d]
         /\ disk' \in Started => r = disk.files["release.env"]
  <2>1. CASE disk' \in Started
    <3> HIDE DEF Migrated
    <3> QED BY <2>1 DEF Started
  <2>2. CASE disk' \in Starting /\ disk' \notin Started
    <3> HIDE DEF Migrated
    <3> QED BY <2>2 DEF Starting
  <2> QED BY <2>1, <2>2
<1> QED
  BY <1>1 DEF TypeOK, Disk

\* The database after a start: by the schema of the release whose files are there, whole if it was and
\* the release is not broken; a fresh one is whole.
LEMMA Migration ==
  ASSUME TypeOK, NEW d \in Migrated
  PROVE  /\ d.by = disk.files["release.env"] /\ d.holds = disk.data.holds
         /\ disk.files["release.env"] \notin Broken /\ (disk.data.whole \/ disk.data.by = 0) => d.whole
<1> DEFINE new == [disk.data EXCEPT !.by = disk.files["release.env"], !.whole = disk.data.whole \/ disk.data.by = 0]
<1>1. disk.data \in Data
  BY Parts DEF TypeOK
<1>2. d = new \/ (disk.files["release.env"] \in Broken /\ d = Damaged(new))
  BY DEF Migrated
<1>3. /\ new.by = disk.files["release.env"] /\ new.holds = disk.data.holds /\ new.whole = (disk.data.whole \/ disk.data.by = 0)
      /\ Damaged(new).by = new.by /\ Damaged(new).holds = new.holds
  BY <1>1 DEF Data, Damaged
<1> QED
  BY <1>2, <1>3

LEMMA UpStep == UpdaterInv /\ TypeOK' /\ Up => UpdaterInv'
<1> SUFFICES ASSUME UpdaterInv, TypeOK', Up PROVE UpdaterInv'
  OBVIOUS
<1>1. Step("up", To("live"), Started, Starting)
  BY DEF Up
<1>2. u.pc = "up"
  BY <1>1 DEF Step
<1>3. /\ u.started /\ ~u.committed /\ u.old = accepted /\ u.release > u.old /\ disk.journal /\ Complete(disk.previous)
      /\ (u.ready <=> accepted # 0) /\ u.pc \in Deploying
      /\ accepted # 0 => KeepsFiles /\ KeepsData
      /\ accepted = 0 /\ ~u.activated => disk.running = 0
  BY <1>2, InReplacing
<1>4. ~To("live").committed
  BY <1>3 DEF To, UpdaterInv, TypeOK, Process
<1>5. /\ History /\ unguarded' = unguarded
      /\ \/ disk' \in Started /\ u' = To("live")
         \/ disk' \in Started \cup Starting \cup {disk} /\ u' \in {To("caught"), Idle}
  BY <1>1, <1>3, <1>4, DeployOutcome
<1>6. /\ u.activated /\ disk.current = accepted /\ Generation(disk.files, u.release)
      /\ IF accepted = 0 THEN disk.running = 0 /\ disk.data = NoData ELSE Whole(disk.data)
  <2>1. u.activated
    BY <1>2 DEF UpdaterInv, ProcessInv
  <2>2. u.pc \in {"up", "copy"} /\ u.pc \in Deploying \ {"publish current"}
    BY <1>2 DEF Deploying
  <2> QED BY <1>2, <2>1, <2>2 DEF UpdaterInv, DeployInv
<1>7. disk.files["release.env"] = u.release /\ u.release > accepted /\ accepted \in Nat /\ u.release \in Nat
  BY <1>3, <1>6 DEF Generation, Files, UpdaterInv, TypeOK, Process, Name
<1>8. CASE u' \in {To("caught"), Idle}
  <2>1. /\ disk'.work = disk.work /\ disk'.previous = disk.previous /\ disk'.journal = disk.journal
        /\ disk'.running \in {u.release, 0, disk.running}
    BY <1>5, <1>7, Starts DEF UpdaterInv
  <2>2. accepted # 0 => disk'.running # accepted
    BY <1>3, <1>7, <2>1 DEF KeepsData
  <2> QED BY <1>2, <1>5, <1>6, <1>8, <2>1, <2>2, ReplacingEnds
<1>9. CASE disk' \in Started /\ u' = To("live")
  <2>1. /\ u'.pc = "live" /\ u'.started /\ u'.ready = u.ready /\ ~u'.committed /\ u'.old = accepted
        /\ u'.release = u.release /\ u'.activated
    BY <1>3, <1>6, <1>9 DEF To, UpdaterInv, TypeOK, Process
  <2>2. /\ disk'.files = disk.files /\ disk'.current = disk.current /\ disk'.work = disk.work
        /\ disk'.previous = disk.previous /\ disk'.journal = disk.journal
        /\ disk'.running = u.release /\ disk'.data \in Migrated
    BY <1>7, <1>9, Starts DEF UpdaterInv
  <2>3. disk.data.whole \/ disk.data.by = 0
    BY <1>6 DEF Whole, NoData
  <2>4. disk'.data.by = u.release /\ (u.release \notin Broken => disk'.data.whole)
    BY <1>7, <2>2, <2>3, Migration DEF UpdaterInv
  <2>5. ProcessInv'
    BY <1>3, <1>5, <2>1 DEF ProcessInv, Going, Deploying, Settling, RollbackSteps, History
  <2>6. KeepInv'
    <3>1. accepted # 0 => KeepsFiles' /\ KeepsData'
      BY <1>3, <1>5, <1>7, <2>2 DEF KeepsFiles, KeepsData, Ours, Generation, Whole, History
    <3> QED BY <1>3, <1>5, <2>1, <3>1 DEF KeepInv, History, Looking, Replacing
  <2>7. DeployInv'
    BY <1>5, <1>6, <2>1, <2>2, <2>4 DEF DeployInv, History, Generation
  <2> QED BY <1>3, <1>5, <2>1, <2>2, <2>5, <2>6, <2>7, DeployGoes DEF Deploying
<1> QED
  BY <1>5, <1>8, <1>9

LEMMA LiveStep == UpdaterInv /\ TypeOK' /\ Live => UpdaterInv'
<1> SUFFICES ASSUME UpdaterInv, TypeOK', Live PROVE UpdaterInv'
  OBVIOUS
<1> DEFINE done == IF Serves THEN {disk} ELSE {}
<1>1. Step("live", To("publish current"), done, {})
  BY DEF Live
<1>2. u.pc = "live"
  BY <1>1 DEF Step
<1>3. /\ u.started /\ ~u.committed /\ u.old = accepted /\ u.release > u.old /\ disk.journal /\ Complete(disk.previous)
      /\ (u.ready <=> accepted # 0) /\ u.pc \in Deploying
      /\ accepted # 0 => KeepsFiles /\ KeepsData
      /\ accepted = 0 /\ ~u.activated => disk.running = 0
  BY <1>2, InReplacing
<1>4. ~To("publish current").committed
  BY <1>3 DEF To, UpdaterInv, TypeOK, Process
<1>5. /\ History /\ unguarded' = unguarded
      /\ \/ disk' \in done /\ u' = To("publish current")
         \/ disk' \in done \cup {} \cup {disk} /\ u' \in {To("caught"), Idle}
  <2> HIDE DEF done
  <2> QED BY <1>1, <1>3, <1>4, DeployOutcome
<1>6. disk' = disk
  BY <1>5
<1>7. CASE u' \in {To("caught"), Idle}
  BY <1>2, <1>3, <1>5, <1>6, <1>7, ReplacingEnds DEF KeepsData
<1>8. CASE Serves /\ u' = To("publish current")
  <2>1. /\ u'.pc = "publish current" /\ u'.started /\ u'.ready = u.ready /\ ~u'.committed /\ u'.old = accepted
        /\ u'.release = u.release /\ u'.activated = u.activated
    BY <1>3, <1>8 DEF To, UpdaterInv, TypeOK, Process
  <2>2. /\ u.activated /\ Generation(disk.files, u.release) /\ disk.running = u.release /\ disk.data.by = u.release
        /\ (u.release \notin Broken => disk.data.whole) /\ u.release \notin Broken
    BY <1>2, <1>8 DEF UpdaterInv, ProcessInv, DeployInv, Serves
  <2>3. ProcessInv'
    BY <1>3, <1>5, <2>1, <2>2 DEF ProcessInv, Going, Deploying, Settling, RollbackSteps, History
  <2>4. KeepInv'
    BY <1>3, <1>5, <1>6, <2>1 DEF KeepInv, History, Looking, Replacing, KeepsFiles, KeepsData, Ours, Generation, Whole
  <2>5. DeployInv'
    BY <1>5, <1>6, <2>1, <2>2 DEF DeployInv, History, Generation
  <2> QED BY <1>3, <1>5, <1>6, <2>1, <2>3, <2>4, <2>5, DeployGoes DEF Deploying
<1> QED
  BY <1>5, <1>7, <1>8

\* After the commit what is installed is the release.
LEMMA SettlingGoes ==
  ASSUME UpdaterInv, TypeOK', u'.pc \in Settling, u'.committed, u'.release = accepted', accepted' \notin Broken,
         disk'.journal, Intact', accepted' # 0,
         u'.pc = "unlink journal" \/ (disk'.work.there /\ Complete(disk.work)'),
         u'.pc = "rename" \/ Complete(disk.previous)'
  PROVE  UpdaterInv'
<1>1. ProcessInv' /\ JournalInv'
  BY DEF ProcessInv, JournalInv, Settling, Looking, Deploying, Going, RollbackSteps
<1>2. RestInv' /\ KeepInv' /\ DeployInv' /\ BackInv'
  BY DEF RestInv, KeepInv, DeployInv, BackInv, Settling, Looking, Deploying, Going, RollbackSteps
<1>3. SettleInv' /\ PreviousInv'
  BY DEF SettleInv, PreviousInv, Settling, Looking, Deploying, Going, RollbackSteps
<1> QED
  BY <1>1, <1>2, <1>3 DEF UpdaterInv

LEMMA PublishCurrentStep == UpdaterInv /\ TypeOK' /\ PublishCurrent => UpdaterInv'
<1> SUFFICES ASSUME UpdaterInv, TypeOK', PublishCurrent PROVE UpdaterInv'
  OBVIOUS
<1> DEFINE then == [u EXCEPT !.pc = IF u.old # 0 THEN "retain" ELSE "unlink journal", !.committed = TRUE]
           new  == [disk EXCEPT !.current = u.release]
<1>1. Step("publish current", then, {new}, {})
  BY DEF PublishCurrent
<1>2. u.pc = "publish current"
  BY <1>1 DEF Step
<1>3. /\ u.started /\ ~u.committed /\ u.old = accepted /\ u.release > u.old /\ disk.journal /\ Complete(disk.previous)
      /\ (u.ready <=> accepted # 0) /\ u.pc \in Deploying
      /\ accepted # 0 => KeepsFiles /\ KeepsData
      /\ accepted = 0 /\ ~u.activated => disk.running = 0
  BY <1>2, InReplacing
<1>4. Raises = To("caught") /\ ~To("caught").committed /\ ~Idle.committed
  BY <1>2, <1>3 DEF Raises, To, Idle, RollbackSteps, UpdaterInv, TypeOK, Process
<1>5. new.files = disk.files /\ new.data = disk.data /\ new.running = disk.running /\ new.work = disk.work
      /\ new.previous = disk.previous /\ new.journal = disk.journal /\ new.current = u.release
  BY DEF UpdaterInv, TypeOK, Disk
<1>6. /\ disk'.files = disk.files /\ disk'.data = disk.data /\ disk'.running = disk.running /\ disk'.work = disk.work
      /\ disk'.previous = disk.previous /\ disk'.journal = disk.journal
  <2>1. disk' \in {new, disk}
    BY <1>1 DEF Step
  <2> HIDE DEF new
  <2> QED BY <1>5, <2>1
<1>7. unguarded' = unguarded
  <2>1. u.pc \notin RollbackSteps
    BY <1>2 DEF RollbackSteps
  <2>2. EndsUnguarded => unguarded' = unguarded
    BY <2>1 DEF EndsUnguarded, UpdaterInv, TypeOK
  <2>3. unguarded' = unguarded \/ EndsUnguarded
    <3> HIDE DEF then, new
    <3> QED BY <1>1 DEF Step
  <2> QED BY <2>2, <2>3
<1>8. CASE u' \in {To("caught"), Idle}
  <2>1. History
    BY <1>1, <1>4, <1>8 DEF Step, History
  <2>2. u.activated
    BY <1>2 DEF UpdaterInv, ProcessInv
  <2> QED BY <1>2, <1>3, <1>6, <1>7, <1>8, <2>1, <2>2, ReplacingEnds DEF KeepsData
<1>9. CASE disk' = new /\ u' = then
  <2>1. /\ u'.pc = (IF u.old # 0 THEN "retain" ELSE "unlink journal") /\ u'.committed /\ u'.release = u.release
    BY <1>9 DEF UpdaterInv, TypeOK, Process
  <2>2. accepted' = u.release /\ promised' = disk.data.holds /\ disk'.current = u.release
    BY <1>1, <1>3, <1>5, <1>9, <2>1 DEF Step
  <2>3. /\ Generation(disk.files, u.release) /\ disk.running = u.release /\ disk.data.by = u.release
        /\ disk.data.whole /\ u.release \notin Broken
    BY <1>2 DEF UpdaterInv, DeployInv
  <2>4. accepted' # 0
    BY <1>3, <2>2 DEF UpdaterInv, TypeOK, Name
  <2>5. Intact'
    BY <1>6, <2>2, <2>3, <2>4 DEF Intact, Whole, Ours, Generation
  <2>6. accepted # 0 => disk'.work.there /\ Complete(disk.work)'
    BY <1>3, <1>6, <1>7 DEF KeepsFiles, KeepsData, Ours, Complete, Whole, Generation
  <2>7. Complete(disk.previous)'
    BY <1>3, <1>6, <1>7 DEF Complete, Generation
  <2> QED
    BY <1>3, <1>6, <2>1, <2>2, <2>3, <2>4, <2>5, <2>6, <2>7, SettlingGoes DEF Settling
<1> QED
  BY <1>1, <1>4, <1>8, <1>9 DEF Step

-----------------------------------------------------------------------------
(* After the commit                                                        *)

LEMMA InSettling ==
  ASSUME UpdaterInv, u.pc \in Settling
  PROVE  /\ u.committed /\ u.release = accepted /\ accepted # 0 /\ accepted \notin Broken /\ disk.journal /\ Intact
         /\ u.pc \in {"retain", "remove previous", "rename"} => disk.work.there /\ Complete(disk.work)
         /\ u.pc # "rename" => Complete(disk.previous)
<1>1. u.committed /\ u.release = accepted
  BY DEF UpdaterInv, ProcessInv
<1>2. disk.journal /\ accepted # 0 /\ accepted \notin Broken /\ Intact
  BY DEF UpdaterInv, JournalInv, SettleInv
<1>3. u.pc \in {"retain", "remove previous", "rename"} => disk.work.there /\ Complete(disk.work)
  BY DEF UpdaterInv, SettleInv
<1>4. u.pc # "rename" => Complete(disk.previous)
  BY DEF UpdaterInv, PreviousInv, Settling
<1> QED BY <1>1, <1>2, <1>3, <1>4

LEMMA RetainStep == UpdaterInv /\ TypeOK' /\ Retain => UpdaterInv'
<1> SUFFICES ASSUME UpdaterInv, TypeOK', Retain PROVE UpdaterInv'
  OBVIOUS
<1> DEFINE then == [u EXCEPT !.pc = "remove previous", !.retained = TRUE]
<1>1. Step("retain", then, {disk}, {})
  BY DEF Retain, Passes
<1>2. u.pc = "retain" /\ u.pc \in Settling
  BY <1>1 DEF Step, Settling
<1>3. /\ u.committed /\ u.release = accepted /\ accepted # 0 /\ accepted \notin Broken /\ disk.journal /\ Intact
      /\ disk.work.there /\ Complete(disk.work) /\ Complete(disk.previous)
  BY <1>2, InSettling
<1>4. then.committed
  BY <1>3 DEF UpdaterInv, TypeOK, Process
<1>5. /\ History /\ unguarded' = unguarded /\ disk' = disk
      /\ u' = then \/ u' \in {To("finally"), Idle}
  <2> HIDE DEF then
  <2>1. /\ History /\ unguarded' = unguarded
        /\ \/ disk' \in {disk} /\ u' = then
           \/ disk' \in {disk} \cup {} \cup {disk} /\ u' \in {To("finally"), Idle}
    BY <1>1, <1>2, <1>4, SettlingOutcome
  <2> QED BY <2>1
<1>6. Intact' /\ Complete(disk.work)' /\ Complete(disk.previous)' /\ accepted' = accepted
  BY <1>3, <1>5, IntactLemma DEF SameInstalled, Complete, Generation, History
<1>7. CASE u' \in {To("finally"), Idle}
  BY <1>3, <1>6, <1>7, SettlingEnds
<1>8. CASE u' = then
  <2>1. u'.pc = "remove previous" /\ u'.committed /\ u'.release = accepted
    BY <1>3, <1>8 DEF UpdaterInv, TypeOK, Process
  <2> QED BY <1>3, <1>5, <1>6, <2>1, SettlingGoes DEF Settling
<1> QED
  BY <1>5, <1>7, <1>8

LEMMA RemovePreviousStep == UpdaterInv /\ TypeOK' /\ RemovePrevious => UpdaterInv'
<1> SUFFICES ASSUME UpdaterInv, TypeOK', RemovePrevious PROVE UpdaterInv'
  OBVIOUS
<1> DEFINE done == {[disk EXCEPT !.previous = NoDirectory]}
           half == {[disk EXCEPT !.previous = [disk.previous EXCEPT !.data = NoData]]}
<1>1. Step("remove previous", To("rename"), done, half)
  BY DEF RemovePrevious
<1>2. u.pc = "remove previous" /\ u.pc \in Settling
  BY <1>1 DEF Step, Settling
<1>3. /\ u.committed /\ u.release = accepted /\ accepted # 0 /\ accepted \notin Broken /\ disk.journal /\ Intact
      /\ disk.work.there /\ Complete(disk.work)
  BY <1>2, InSettling
<1>4. To("rename").committed
  BY <1>3 DEF To, UpdaterInv, TypeOK, Process
<1>5. /\ History /\ unguarded' = unguarded
      /\ \/ disk' \in done /\ u' = To("rename")
         \/ disk' \in done \cup half \cup {disk} /\ u' \in {To("finally"), Idle}
  <2> HIDE DEF done, half
  <2> QED BY <1>1, <1>2, <1>4, SettlingOutcome
<1>6. SameInstalled /\ disk'.work = disk.work /\ disk'.journal = disk.journal
  BY <1>5 DEF SameInstalled, UpdaterInv, TypeOK, Disk
<1>7. Intact' /\ Complete(disk.work)' /\ accepted' = accepted
  BY <1>3, <1>5, <1>6, IntactLemma DEF Complete, Generation, History
<1>8. CASE u' \in {To("finally"), Idle}
  BY <1>3, <1>6, <1>7, <1>8, SettlingEnds
<1>9. CASE u' = To("rename")
  <2>1. u'.pc = "rename" /\ u'.committed /\ u'.release = accepted
    BY <1>3, <1>9 DEF To, UpdaterInv, TypeOK, Process
  <2> QED BY <1>3, <1>6, <1>7, <2>1, SettlingGoes DEF Settling
<1> QED
  BY <1>5, <1>8, <1>9

LEMMA RenameStep == UpdaterInv /\ TypeOK' /\ Rename => UpdaterInv'
<1> SUFFICES ASSUME UpdaterInv, TypeOK', Rename PROVE UpdaterInv'
  OBVIOUS
<1> DEFINE new == [disk EXCEPT !.previous = disk.work, !.work = NoDirectory]
<1>1. Step("rename", To("unlink journal"), {new}, {})
  BY DEF Rename
<1>2. u.pc = "rename" /\ u.pc \in Settling
  BY <1>1 DEF Step, Settling
<1>3. /\ u.committed /\ u.release = accepted /\ accepted # 0 /\ accepted \notin Broken /\ disk.journal /\ Intact
      /\ disk.work.there /\ Complete(disk.work)
  BY <1>2, InSettling
<1>4. To("unlink journal").committed
  BY <1>3 DEF To, UpdaterInv, TypeOK, Process
<1>5. /\ History /\ unguarded' = unguarded
      /\ \/ disk' \in {new} /\ u' = To("unlink journal")
         \/ disk' \in {new} \cup {} \cup {disk} /\ u' \in {To("finally"), Idle}
  <2> HIDE DEF new
  <2> QED BY <1>1, <1>2, <1>4, SettlingOutcome
<1>6. SameInstalled /\ disk'.journal = disk.journal /\ (disk' = new => disk'.previous = disk.work)
  BY <1>5 DEF SameInstalled, UpdaterInv, TypeOK, Disk
<1>7. Intact' /\ accepted' = accepted
  BY <1>3, <1>5, <1>6, IntactLemma DEF History
<1>8. CASE u' \in {To("finally"), Idle}
  BY <1>3, <1>6, <1>7, <1>8, SettlingEnds
<1>9. CASE disk' = new /\ u' = To("unlink journal")
  <2>1. u'.pc = "unlink journal" /\ u'.committed /\ u'.release = accepted
    BY <1>3, <1>9 DEF To, UpdaterInv, TypeOK, Process
  <2>2. Complete(disk.previous)'
    BY <1>3, <1>5, <1>6, <1>9 DEF Complete, Generation
  <2> QED BY <1>3, <1>6, <1>7, <2>1, <2>2, SettlingGoes DEF Settling
<1> QED
  BY <1>5, <1>8, <1>9

LEMMA UnlinkJournalStep == UpdaterInv /\ TypeOK' /\ UnlinkJournal => UpdaterInv'
<1> SUFFICES ASSUME UpdaterInv, TypeOK', UnlinkJournal PROVE UpdaterInv'
  OBVIOUS
<1>1. Step("unlink journal", To("finally"), Unlinked, {})
  BY DEF UnlinkJournal
<1>2. u.pc = "unlink journal" /\ u.pc \in Settling
  BY <1>1 DEF Step, Settling
<1>3. /\ u.committed /\ u.release = accepted /\ accepted # 0 /\ accepted \notin Broken /\ Intact /\ Complete(disk.previous)
  BY <1>2, InSettling
<1>4. To("finally").committed
  BY <1>3 DEF To, UpdaterInv, TypeOK, Process
<1>5. /\ History /\ unguarded' = unguarded /\ u' \in {To("finally"), Idle} /\ disk' \in Unlinked \cup {disk}
  <2>1. /\ History /\ unguarded' = unguarded
        /\ \/ disk' \in Unlinked /\ u' = To("finally")
           \/ disk' \in Unlinked \cup {} \cup {disk} /\ u' \in {To("finally"), Idle}
    BY <1>1, <1>2, <1>4, SettlingOutcome
  <2> QED BY <2>1
<1>6. SameInstalled /\ disk'.previous = disk.previous
  BY <1>5 DEF Unlinked, SameInstalled, UpdaterInv, TypeOK, Disk
<1>7. Intact' /\ Complete(disk.previous)' /\ accepted' = accepted
  BY <1>3, <1>5, <1>6, IntactLemma DEF Complete, Generation, History
<1> QED
  BY <1>3, <1>5, <1>7, SettlingEnds

-----------------------------------------------------------------------------
(* Recovery                                                                *)

\* What holds in every step of a recovery.
LEMMA InBack ==
  ASSUME UpdaterInv, u.pc \in RollbackSteps
  PROVE  /\ u.started /\ ~u.committed /\ u.old = accepted /\ u.release > u.old /\ Complete(disk.previous)
         /\ u.ready => accepted # 0 /\ disk.journal
         /\ ~disk.journal => Unmoved
         /\ accepted # 0 => KeepsFiles
         /\ accepted # 0 => IF u.ready /\ u.pc \in Replacing THEN KeepsData ELSE Whole(disk.data)
<1>1. u.pc \in Going
  BY DEF Going
<1>2. u.started /\ ~u.committed /\ u.old = accepted /\ u.release > u.old /\ (u.ready => accepted # 0)
  BY <1>1 DEF UpdaterInv, ProcessInv
<1>3. Complete(disk.previous) /\ (u.ready => disk.journal)
  BY <1>1 DEF UpdaterInv, JournalInv, PreviousInv
<1>4. ~disk.journal => Unmoved
  BY DEF UpdaterInv, BackInv
<1>5. /\ accepted # 0 => KeepsFiles
      /\ accepted # 0 => IF u.ready /\ u.pc \in Replacing THEN KeepsData ELSE Whole(disk.data)
  BY <1>1 DEF UpdaterInv, KeepInv
<1> QED BY <1>2, <1>3, <1>4, <1>5

\* A step of a recovery that is done.
LEMMA BackGoes ==
  ASSUME UpdaterInv, TypeOK', u.pc \in RollbackSteps, u'.pc \in RollbackSteps, History, unguarded' = unguarded,
         u'.release = u.release, u'.old = u.old, u'.started = u.started, u'.ready = u.ready, u'.committed = u.committed,
         disk'.journal = disk.journal, disk'.previous = disk.previous, disk'.work = disk.work,
         u'.pc \in {"stop again", "restore", "current back", "up again", "live again"} => accepted # 0,
         u'.pc \in {"down", "remove volume", "remove files"} => accepted = 0,
         u'.pc = "restore" => u.ready,
         accepted # 0 => IF u.ready /\ u'.pc \in Replacing THEN KeepsData' ELSE Whole(disk.data)',
         u'.pc # "copy back", BackInv'
  PROVE  UpdaterInv'
<1>1. /\ u.started /\ ~u.committed /\ u.old = accepted /\ u.release > u.old /\ Complete(disk.previous)
      /\ u.ready => accepted # 0 /\ disk.journal
      /\ accepted # 0 => KeepsFiles
  BY InBack
<1>2. /\ u'.pc \in Going
      /\ u'.pc \notin Looking \cup Deploying \cup Settling \cup {"idle", "finally", "caught"}
  BY DEF Going, RollbackSteps, Looking, Deploying, Settling
<1>3. ProcessInv'
  BY <1>1, <1>2 DEF ProcessInv, Looking, Deploying, Settling, History
<1>4. JournalInv' /\ RestInv' /\ DeployInv' /\ SettleInv'
  BY <1>1, <1>2 DEF JournalInv, RestInv, DeployInv, SettleInv, Looking, Deploying, Settling
<1>5. accepted # 0 => KeepsFiles'
  BY <1>1 DEF KeepsFiles, Ours, Generation, History
<1>6. KeepInv'
  BY <1>2, <1>5 DEF KeepInv, History, Looking, Deploying
<1>7. PreviousInv'
  BY <1>1 DEF PreviousInv, Complete, Generation
<1> QED
  BY <1>3, <1>4, <1>6, <1>7 DEF UpdaterInv, History

\* A step of a recovery that fails or is cut short.
LEMMA BackFails ==
  ASSUME UpdaterInv, TypeOK', u.pc \in RollbackSteps, u' \in {[u EXCEPT !.pc = "finally", !.retained = TRUE], Idle},
         History, unguarded' = IF disk.journal THEN unguarded ELSE TRUE,
         disk'.journal = disk.journal, disk'.previous = disk.previous, disk'.work = disk.work,
         accepted # 0 => Whole(disk'.data) \/ (disk.work.there /\ Whole(disk.work.data) /\ disk'.running # accepted),
         ~disk.journal => Unmoved' /\ (accepted # 0 => Whole(disk'.data))
  PROVE  UpdaterInv'
<1>1. /\ Complete(disk.previous)
      /\ accepted # 0 => KeepsFiles
  BY InBack
<1>2. Complete(disk.previous)'
  BY <1>1 DEF Complete, Generation
<1>3. accepted # 0 => KeepsFiles'
  BY <1>1 DEF KeepsFiles, Ours, Generation, History
<1>4. accepted # 0 => Whole(disk.data)' \/ KeepsData'
  BY DEF Whole, KeepsData, History
<1>5. ~disk.journal => Intact'
  BY DEF Unmoved, Intact, Ours, Whole, History
<1> QED
  BY <1>2, <1>3, <1>4, <1>5, BackEnds

LEMMA CopyBackStep == UpdaterInv /\ TypeOK' /\ CopyBack => UpdaterInv'
<1> SUFFICES ASSUME UpdaterInv, TypeOK', CopyBack PROVE UpdaterInv'
  OBVIOUS
<1> DEFINE done == Copied(disk.work.files)
           half == Copying(disk.work.files, BackOrder)
<1>1. Step("copy back", To("stop again"), done, half)
  BY DEF CopyBack
<1>2. u.pc = "copy back" /\ u.pc \in RollbackSteps /\ u.pc \in Replacing
  BY <1>1 DEF Step, RollbackSteps, Replacing
<1>3. accepted # 0 /\ ~u.committed
  BY <1>2, InBack DEF UpdaterInv, ProcessInv
<1>4. /\ ~disk.journal => Unmoved
      /\ KeepsFiles
      /\ IF u.ready THEN KeepsData ELSE Whole(disk.data)
      /\ ~disk.journal => ~u.ready
  BY <1>2, <1>3, InBack
<1>5. ~To("stop again").committed
  BY <1>3 DEF To, UpdaterInv, TypeOK, Process
<1>6. /\ History
      /\ \/ disk' \in done /\ u' = To("stop again") /\ unguarded' = unguarded
         \/ /\ disk' \in done \cup half \cup {disk} /\ u' \in {[u EXCEPT !.pc = "finally", !.retained = TRUE], Idle}
            /\ unguarded' = IF disk.journal THEN unguarded ELSE TRUE
  <2> HIDE DEF done, half
  <2> QED BY <1>1, <1>2, <1>5, BackOutcome
<1>7. /\ disk'.current = disk.current /\ disk'.data = disk.data /\ disk'.running = disk.running
      /\ disk'.work = disk.work /\ disk'.previous = disk.previous /\ disk'.journal = disk.journal
      /\ disk' \in done => disk'.files = disk.work.files
      /\ \A f \in Files : disk'.files[f] \in {disk.work.files[f], disk.files[f], Torn}
  <2>1. \/ disk' = disk /\ disk' \notin done
        \/ disk' = [disk EXCEPT !.files = disk.work.files]
        \/ /\ disk' \notin done
           /\ \E g \in Files :
                disk' = [disk EXCEPT !.files = [f \in Files |->
                           IF BackOrder[f] < BackOrder[g] THEN disk.work.files[f] ELSE IF f = g THEN Torn ELSE disk.files[f]]]
    <3> HIDE DEF BackOrder
    <3> QED BY <1>6 DEF Copied, Copying
  <2>2. CASE disk' = disk /\ disk' \notin done
    BY <2>2
  <2>3. CASE disk' = [disk EXCEPT !.files = disk.work.files]
    BY <2>3 DEF UpdaterInv, TypeOK, Disk
  <2>4. ASSUME NEW g \in Files, disk' \notin done,
               disk' = [disk EXCEPT !.files = [f \in Files |->
                           IF BackOrder[f] < BackOrder[g] THEN disk.work.files[f] ELSE IF f = g THEN Torn ELSE disk.files[f]]]
        PROVE  /\ disk'.current = disk.current /\ disk'.data = disk.data /\ disk'.running = disk.running
               /\ disk'.work = disk.work /\ disk'.previous = disk.previous /\ disk'.journal = disk.journal
               /\ \A f \in Files : disk'.files[f] \in {disk.work.files[f], disk.files[f], Torn}
    <3> HIDE DEF BackOrder
    <3> QED BY <2>4 DEF UpdaterInv, TypeOK, Disk
  <2> QED BY <2>1, <2>2, <2>3, <2>4
<1>8. CASE u' \in {[u EXCEPT !.pc = "finally", !.retained = TRUE], Idle} /\ unguarded' = IF disk.journal THEN unguarded ELSE TRUE
  <2>1. Whole(disk'.data) \/ (disk.work.there /\ Whole(disk.work.data) /\ disk'.running # accepted)
    BY <1>4, <1>7 DEF KeepsData
  <2>2. ~disk.journal => Unmoved' /\ Whole(disk'.data)
    BY <1>3, <1>4, <1>6, <1>7 DEF Unmoved, KeepsFiles, Ours, Generation, History
  <2> QED BY <1>2, <1>6, <1>7, <1>8, <2>1, <2>2, BackFails
<1>9. CASE disk' \in done /\ u' = To("stop again") /\ unguarded' = unguarded
  <2>1. /\ u'.pc = "stop again" /\ u'.release = u.release /\ u'.old = u.old /\ u'.started = u.started
        /\ u'.ready = u.ready /\ u'.committed = u.committed
    BY <1>9 DEF To, UpdaterInv, TypeOK, Process
  <2>2. IF u.ready THEN KeepsData' ELSE Whole(disk.data)'
    <3>1. disk'.data = disk.data /\ disk'.running = disk.running /\ disk'.work = disk.work
      BY <1>7
    <3>2. (KeepsData => KeepsData') /\ (Whole(disk.data) => Whole(disk.data)')
      BY <1>6, <3>1 DEF KeepsData, Whole, History
    <3> QED BY <1>4, <3>2
  <2>3. Ours(disk.files)' /\ (~disk'.journal => Unmoved')
    BY <1>3, <1>4, <1>6, <1>7, <1>9 DEF Unmoved, KeepsFiles, Ours, Generation, History
  <2>4. BackInv'
    BY <2>1, <2>3 DEF BackInv
  <2> HIDE DEF done
  <2> QED BY <1>2, <1>3, <1>6, <1>7, <1>9, <2>1, <2>2, <2>4, BackGoes DEF RollbackSteps, Replacing
<1> QED
  BY <1>6, <1>8, <1>9

LEMMA StopAgainStep == UpdaterInv /\ TypeOK' /\ StopAgain => UpdaterInv'
<1> SUFFICES ASSUME UpdaterInv, TypeOK', StopAgain PROVE UpdaterInv'
  OBVIOUS
<1> DEFINE then == To(IF u.ready THEN "restore" ELSE "current back")
<1>1. Step("stop again", then, Stopped, {})
  BY DEF StopAgain
<1>2. u.pc = "stop again" /\ u.pc \in RollbackSteps /\ u.pc \in Replacing
  BY <1>1 DEF Step, RollbackSteps, Replacing
<1>3. accepted # 0 /\ ~u.committed /\ Ours(disk.files)
  BY <1>2, InBack DEF UpdaterInv, ProcessInv, BackInv
<1>4. /\ ~disk.journal => Unmoved
      /\ KeepsFiles
      /\ IF u.ready THEN KeepsData ELSE Whole(disk.data)
      /\ ~disk.journal => ~u.ready
  BY <1>2, <1>3, InBack
<1>5. ~then.committed
  BY <1>3 DEF To, UpdaterInv, TypeOK, Process
<1>6. /\ History
      /\ \/ disk' \in Stopped /\ u' = then /\ unguarded' = unguarded
         \/ /\ disk' \in Stopped \cup {} \cup {disk} /\ u' \in {[u EXCEPT !.pc = "finally", !.retained = TRUE], Idle}
            /\ unguarded' = IF disk.journal THEN unguarded ELSE TRUE
  <2> HIDE DEF then
  <2> QED BY <1>1, <1>2, <1>5, BackOutcome
<1>7. /\ disk'.files = disk.files /\ disk'.current = disk.current /\ disk'.data = disk.data
      /\ disk'.running \in {disk.running, 0}
      /\ disk'.work = disk.work /\ disk'.previous = disk.previous /\ disk'.journal = disk.journal
  <2>1. disk' \in Stopped \cup {disk}
    BY <1>6
  <2> QED BY <2>1 DEF Stopped, UpdaterInv, TypeOK, Disk
<1>8. ~disk.journal => Unmoved' /\ Whole(disk'.data)
  BY <1>3, <1>4, <1>6, <1>7 DEF Unmoved, History
<1>9. CASE u' \in {[u EXCEPT !.pc = "finally", !.retained = TRUE], Idle} /\ unguarded' = IF disk.journal THEN unguarded ELSE TRUE
  <2>1. Whole(disk'.data) \/ (disk.work.there /\ Whole(disk.work.data) /\ disk'.running # accepted)
    BY <1>3, <1>4, <1>7 DEF KeepsData
  <2> QED BY <1>2, <1>6, <1>7, <1>8, <1>9, <2>1, BackFails
<1>10. CASE u' = then /\ unguarded' = unguarded
  <2>1. /\ u'.pc = (IF u.ready THEN "restore" ELSE "current back")
        /\ u'.release = u.release /\ u'.old = u.old /\ u'.started = u.started
        /\ u'.ready = u.ready /\ u'.committed = u.committed
    BY <1>10 DEF To, UpdaterInv, TypeOK, Process
  <2>2. IF u.ready THEN KeepsData' ELSE Whole(disk.data)'
    <3>1. disk'.data = disk.data /\ disk'.running \in {disk.running, 0} /\ disk'.work = disk.work
      BY <1>7
    <3>2. (KeepsData => KeepsData') /\ (Whole(disk.data) => Whole(disk.data)')
      BY <1>3, <1>6, <3>1 DEF KeepsData, Whole, History
    <3> QED BY <1>4, <3>2
  <2>3. Ours(disk.files)'
    BY <1>3, <1>6, <1>7, <1>10 DEF Ours, Generation, History
  <2>4. BackInv'
    BY <1>7, <1>8, <2>1, <2>3 DEF BackInv
  <2> HIDE DEF then
  <2> QED BY <1>2, <1>3, <1>6, <1>7, <1>10, <2>1, <2>2, <2>4, BackGoes DEF RollbackSteps, Replacing
<1> QED
  BY <1>6, <1>9, <1>10

LEMMA RestoreStep == UpdaterInv /\ TypeOK' /\ Restore => UpdaterInv'
<1> SUFFICES ASSUME UpdaterInv, TypeOK', Restore PROVE UpdaterInv'
  OBVIOUS
<1> DEFINE done == {[disk EXCEPT !.data = disk.work.data]}
           half == {[disk EXCEPT !.data = Damaged(disk.work.data)]}
<1>1. Step("restore", To("current back"), done, half)
  BY DEF Restore, Unpacked
<1>2. u.pc = "restore" /\ u.pc \in RollbackSteps /\ u.pc \in Replacing
  BY <1>1 DEF Step, RollbackSteps, Replacing
<1>3. u.ready
  BY <1>2 DEF UpdaterInv, ProcessInv
<1>4. accepted # 0 /\ ~u.committed /\ disk.journal /\ KeepsData /\ Ours(disk.files)
  BY <1>2, <1>3, InBack DEF UpdaterInv, BackInv
<1>5. ~To("current back").committed
  BY <1>4 DEF To, UpdaterInv, TypeOK, Process
<1>6. /\ History
      /\ \/ disk' \in done /\ u' = To("current back") /\ unguarded' = unguarded
         \/ /\ disk' \in done \cup half \cup {disk} /\ u' \in {[u EXCEPT !.pc = "finally", !.retained = TRUE], Idle}
            /\ unguarded' = IF disk.journal THEN unguarded ELSE TRUE
  <2> HIDE DEF done, half
  <2> QED BY <1>1, <1>2, <1>5, BackOutcome
<1>7. /\ disk'.files = disk.files /\ disk'.current = disk.current /\ disk'.running = disk.running
      /\ disk'.work = disk.work /\ disk'.previous = disk.previous /\ disk'.journal = disk.journal
      /\ disk' \in done => disk'.data = disk.work.data
  BY <1>6 DEF UpdaterInv, TypeOK, Disk
<1>8. CASE u' \in {[u EXCEPT !.pc = "finally", !.retained = TRUE], Idle} /\ unguarded' = IF disk.journal THEN unguarded ELSE TRUE
  BY <1>2, <1>4, <1>6, <1>7, <1>8, BackFails DEF KeepsData
<1>9. CASE disk' \in done /\ u' = To("current back") /\ unguarded' = unguarded
  <2>1. /\ u'.pc = "current back"
        /\ u'.release = u.release /\ u'.old = u.old /\ u'.started = u.started
        /\ u'.ready = u.ready /\ u'.committed = u.committed
    BY <1>9 DEF To, UpdaterInv, TypeOK, Process
  <2>2. Whole(disk.data)'
    BY <1>4, <1>6, <1>7, <1>9 DEF KeepsData, Whole, History
  <2>3. Ours(disk.files)'
    BY <1>4, <1>6, <1>7, <1>9 DEF Ours, Generation, History
  <2>4. BackInv'
    BY <1>4, <1>7, <2>1, <2>3 DEF BackInv
  <2> HIDE DEF done
  <2> QED BY <1>2, <1>4, <1>6, <1>7, <1>9, <2>1, <2>2, <2>4, BackGoes DEF RollbackSteps, Replacing
<1> QED
  BY <1>6, <1>8, <1>9

LEMMA CurrentBackStep == UpdaterInv /\ TypeOK' /\ CurrentBack => UpdaterInv'
<1> SUFFICES ASSUME UpdaterInv, TypeOK', CurrentBack PROVE UpdaterInv'
  OBVIOUS
<1> DEFINE new == [disk EXCEPT !.current = disk.work.current]
<1>1. Step("current back", To("up again"), {new}, {})
  BY DEF CurrentBack
<1>2. u.pc = "current back" /\ u.pc \in RollbackSteps /\ u.pc \notin Replacing
  BY <1>1 DEF Step, RollbackSteps, Replacing
<1>3. accepted # 0 /\ ~u.committed /\ Ours(disk.files)
  BY <1>2, InBack DEF UpdaterInv, ProcessInv, BackInv
<1>4. /\ ~disk.journal => Unmoved
      /\ KeepsFiles /\ Whole(disk.data)
  BY <1>2, <1>3, InBack
<1>5. ~To("up again").committed
  BY <1>3 DEF To, UpdaterInv, TypeOK, Process
<1>6. /\ History
      /\ \/ disk' \in {new} /\ u' = To("up again") /\ unguarded' = unguarded
         \/ /\ disk' \in {new} \cup {} \cup {disk} /\ u' \in {[u EXCEPT !.pc = "finally", !.retained = TRUE], Idle}
            /\ unguarded' = IF disk.journal THEN unguarded ELSE TRUE
  <2> HIDE DEF new
  <2> QED BY <1>1, <1>2, <1>5, BackOutcome
<1>7. /\ disk'.files = disk.files /\ disk'.data = disk.data /\ disk'.running = disk.running
      /\ disk'.current \in {accepted, disk.current}
      /\ disk'.work = disk.work /\ disk'.previous = disk.previous /\ disk'.journal = disk.journal
      /\ disk' = new => disk'.current = accepted
  <2>1. /\ new.files = disk.files /\ new.data = disk.data /\ new.running = disk.running /\ new.current = accepted
        /\ new.work = disk.work /\ new.previous = disk.previous /\ new.journal = disk.journal
    BY <1>4 DEF KeepsFiles, UpdaterInv, TypeOK, Disk
  <2>2. disk' \in {new, disk}
    BY <1>6
  <2> HIDE DEF new
  <2> QED BY <2>1, <2>2
<1>8. ~disk.journal => Unmoved' /\ Whole(disk'.data)
  BY <1>3, <1>4, <1>6, <1>7 DEF Unmoved, History
<1>9. CASE u' \in {[u EXCEPT !.pc = "finally", !.retained = TRUE], Idle} /\ unguarded' = IF disk.journal THEN unguarded ELSE TRUE
  BY <1>2, <1>4, <1>6, <1>7, <1>8, <1>9, BackFails
<1>10. CASE disk' = new /\ u' = To("up again") /\ unguarded' = unguarded
  <2>1. /\ u'.pc = "up again"
        /\ u'.release = u.release /\ u'.old = u.old /\ u'.started = u.started
        /\ u'.ready = u.ready /\ u'.committed = u.committed
    BY <1>10 DEF To, UpdaterInv, TypeOK, Process
  <2>2. Whole(disk.data)'
    BY <1>4, <1>6, <1>7 DEF Whole, History
  <2>3. Ours(disk.files)'
    BY <1>3, <1>6, <1>7, <1>10 DEF Ours, Generation, History
  <2>4. BackInv'
    <3> HIDE DEF new
    <3> QED BY <1>6, <1>7, <1>8, <1>10, <2>1, <2>3 DEF BackInv, History
  <2> HIDE DEF new
  <2> QED BY <1>2, <1>3, <1>6, <1>7, <1>10, <2>1, <2>2, <2>4, BackGoes DEF RollbackSteps, Replacing
<1> QED
  BY <1>6, <1>9, <1>10

\* The accepted release's files start the accepted release.
LEMMA Restarts ==
  ASSUME UpdaterInv, accepted # 0, Ours(disk.files), Whole(disk.data), disk' \in Started \cup Starting, History
  PROVE  /\ Whole(disk'.data) /\ (disk' \in Started => disk'.running = accepted)
<1>1. disk.files["release.env"] = accepted /\ accepted \notin Broken
  <2>1. disk.files["release.env"] # Torn
    BY DEF Started, Starting, Startable, Readable
  <2> QED BY <2>1 DEF Ours, Generation, Files, UpdaterInv
<1>2. disk'.data \in Migrated /\ (disk' \in Started => disk'.running = accepted)
  BY <1>1, Starts DEF UpdaterInv
<1>3. disk'.data.by = accepted /\ disk'.data.holds = disk.data.holds /\ disk'.data.whole
  BY <1>1, <1>2, Migration DEF UpdaterInv, Whole
<1> QED
  BY <1>2, <1>3 DEF Whole

LEMMA UpAgainStep == UpdaterInv /\ TypeOK' /\ UpAgain => UpdaterInv'
<1> SUFFICES ASSUME UpdaterInv, TypeOK', UpAgain PROVE UpdaterInv'
  OBVIOUS
<1>1. Step("up again", To("live again"), Started, Starting)
  BY DEF UpAgain
<1>2. u.pc = "up again" /\ u.pc \in RollbackSteps /\ u.pc \notin Replacing
  BY <1>1 DEF Step, RollbackSteps, Replacing
<1>3. accepted # 0 /\ ~u.committed /\ Ours(disk.files) /\ disk.current = accepted
  BY <1>2, InBack DEF UpdaterInv, ProcessInv, BackInv
<1>4. /\ ~disk.journal => Unmoved
      /\ KeepsFiles /\ Whole(disk.data)
  BY <1>2, <1>3, InBack
<1>5. ~To("live again").committed
  BY <1>3 DEF To, UpdaterInv, TypeOK, Process
<1>6. /\ History
      /\ \/ disk' \in Started /\ u' = To("live again") /\ unguarded' = unguarded
         \/ /\ disk' \in Started \cup Starting \cup {disk} /\ u' \in {[u EXCEPT !.pc = "finally", !.retained = TRUE], Idle}
            /\ unguarded' = IF disk.journal THEN unguarded ELSE TRUE
  BY <1>1, <1>2, <1>5, BackOutcome
<1>7. /\ disk'.files = disk.files /\ disk'.current = disk.current
      /\ disk'.work = disk.work /\ disk'.previous = disk.previous /\ disk'.journal = disk.journal
  BY <1>6, Starts DEF UpdaterInv
<1>8. Whole(disk'.data) /\ (disk' \in Started => disk'.running = accepted)
  <2>1. CASE disk' \in Started \cup Starting
    BY <1>3, <1>4, <1>6, <2>1, Restarts
  <2>2. CASE disk' = disk /\ disk' \notin Started
    BY <1>4, <2>2
  <2> QED BY <1>6, <2>1, <2>2
<1>9. ~disk.journal => Unmoved'
  BY <1>3, <1>4, <1>6, <1>7 DEF Unmoved, History
<1>10. CASE u' \in {[u EXCEPT !.pc = "finally", !.retained = TRUE], Idle} /\ unguarded' = IF disk.journal THEN unguarded ELSE TRUE
  BY <1>2, <1>6, <1>7, <1>8, <1>9, <1>10, BackFails
<1>11. CASE disk' \in Started /\ u' = To("live again") /\ unguarded' = unguarded
  <2>1. /\ u'.pc = "live again"
        /\ u'.release = u.release /\ u'.old = u.old /\ u'.started = u.started
        /\ u'.ready = u.ready /\ u'.committed = u.committed
    BY <1>11 DEF To, UpdaterInv, TypeOK, Process
  <2>2. Whole(disk.data)'
    BY <1>6, <1>8 DEF Whole, History
  <2>3. Ours(disk.files)'
    BY <1>3, <1>6, <1>7, <1>11 DEF Ours, Generation, History
  <2>4. BackInv'
    BY <1>3, <1>6, <1>7, <1>8, <1>9, <1>11, <2>1, <2>3 DEF BackInv, History
  <2> QED BY <1>2, <1>3, <1>6, <1>7, <1>11, <2>1, <2>2, <2>4, BackGoes DEF RollbackSteps, Replacing
<1> QED
  BY <1>6, <1>10, <1>11

LEMMA LiveAgainStep == UpdaterInv /\ TypeOK' /\ LiveAgain => UpdaterInv'
<1> SUFFICES ASSUME UpdaterInv, TypeOK', LiveAgain PROVE UpdaterInv'
  OBVIOUS
<1> DEFINE done == IF Serves THEN {disk} ELSE {}
<1>1. Step("live again", To("recovered"), done, {})
  BY DEF LiveAgain
<1>2. u.pc = "live again" /\ u.pc \in RollbackSteps /\ u.pc \notin Replacing
  BY <1>1 DEF Step, RollbackSteps, Replacing
<1>3. accepted # 0 /\ ~u.committed /\ Ours(disk.files) /\ disk.current = accepted /\ disk.running = accepted
  BY <1>2, InBack DEF UpdaterInv, ProcessInv, BackInv
<1>4. /\ ~disk.journal => Unmoved
      /\ KeepsFiles /\ Whole(disk.data)
  BY <1>2, <1>3, InBack
<1>5. ~To("recovered").committed
  BY <1>3 DEF To, UpdaterInv, TypeOK, Process
<1>6. /\ History
      /\ \/ disk' \in done /\ u' = To("recovered") /\ unguarded' = unguarded
         \/ /\ disk' \in done \cup {} \cup {disk} /\ u' \in {[u EXCEPT !.pc = "finally", !.retained = TRUE], Idle}
            /\ unguarded' = IF disk.journal THEN unguarded ELSE TRUE
  <2> HIDE DEF done
  <2> QED BY <1>1, <1>2, <1>5, BackOutcome
<1>7. disk' = disk
  BY <1>6
<1>8. ~disk.journal => Unmoved'
  BY <1>4, <1>6, <1>7 DEF Unmoved, NothingThere, History
<1>9. CASE u' \in {[u EXCEPT !.pc = "finally", !.retained = TRUE], Idle} /\ unguarded' = IF disk.journal THEN unguarded ELSE TRUE
  BY <1>2, <1>4, <1>6, <1>7, <1>8, <1>9, BackFails
<1>10. CASE u' = To("recovered") /\ unguarded' = unguarded
  <2>1. /\ u'.pc = "recovered"
        /\ u'.release = u.release /\ u'.old = u.old /\ u'.started = u.started
        /\ u'.ready = u.ready /\ u'.committed = u.committed
    BY <1>10 DEF To, UpdaterInv, TypeOK, Process
  <2>2. Whole(disk.data)'
    BY <1>4, <1>6, <1>7 DEF Whole, History
  <2>3. Intact'
    BY <1>3, <1>6, <1>7, <1>10, <2>2 DEF Intact, Ours, Generation, History
  <2>4. BackInv'
    BY <1>7, <1>8, <2>1, <2>3 DEF BackInv
  <2> QED BY <1>2, <1>6, <1>7, <1>10, <2>1, <2>2, <2>4, BackGoes DEF RollbackSteps, Replacing
<1> QED
  BY <1>6, <1>9, <1>10

\* A recovery of a first release, which leaves nothing, fails.
LEMMA FirstFails ==
  ASSUME UpdaterInv, TypeOK', u.pc \in RollbackSteps, u' \in {[u EXCEPT !.pc = "finally", !.retained = TRUE], Idle},
         History, unguarded' = IF disk.journal THEN unguarded ELSE TRUE, accepted = 0,
         disk'.journal = disk.journal, disk'.previous = disk.previous, disk'.work = disk.work,
         ~disk.journal => Unmoved'
  PROVE  UpdaterInv'
BY BackFails

LEMMA DownStep == UpdaterInv /\ TypeOK' /\ Down => UpdaterInv'
<1> SUFFICES ASSUME UpdaterInv, TypeOK', Down PROVE UpdaterInv'
  OBVIOUS
<1>1. Step("down", To("remove volume"), Stopped, {})
  BY DEF Down
<1>2. u.pc = "down" /\ u.pc \in RollbackSteps
  BY <1>1 DEF Step, RollbackSteps
<1>3. accepted = 0 /\ ~u.committed /\ (~disk.journal => Unmoved)
  BY <1>2, InBack DEF UpdaterInv, ProcessInv
<1>4. ~To("remove volume").committed
  BY <1>3 DEF To, UpdaterInv, TypeOK, Process
<1>5. /\ History
      /\ \/ disk' \in Stopped /\ u' = To("remove volume") /\ unguarded' = unguarded
         \/ /\ disk' \in Stopped \cup {} \cup {disk} /\ u' \in {[u EXCEPT !.pc = "finally", !.retained = TRUE], Idle}
            /\ unguarded' = IF disk.journal THEN unguarded ELSE TRUE
  BY <1>1, <1>2, <1>4, BackOutcome
<1>6. /\ disk'.files = disk.files /\ disk'.current = disk.current /\ disk'.data = disk.data
      /\ disk'.running \in {disk.running, 0} /\ (disk' \in Stopped => disk'.running = 0)
      /\ disk'.work = disk.work /\ disk'.previous = disk.previous /\ disk'.journal = disk.journal
  <2>1. disk' \in Stopped \/ (disk' = disk /\ disk' \notin Stopped)
    BY <1>5
  <2>2. CASE disk' \in Stopped
    BY <2>2 DEF Stopped, UpdaterInv, TypeOK, Disk
  <2>3. CASE disk' = disk /\ disk' \notin Stopped
    BY <2>3
  <2> QED BY <2>1, <2>2, <2>3
<1>7. ~disk.journal => Unmoved'
  BY <1>3, <1>5, <1>6 DEF Unmoved, NothingThere, History
<1>8. CASE u' \in {[u EXCEPT !.pc = "finally", !.retained = TRUE], Idle} /\ unguarded' = IF disk.journal THEN unguarded ELSE TRUE
  BY <1>2, <1>3, <1>5, <1>6, <1>7, <1>8, FirstFails
<1>9. CASE disk' \in Stopped /\ u' = To("remove volume") /\ unguarded' = unguarded
  <2>1. /\ u'.pc = "remove volume"
        /\ u'.release = u.release /\ u'.old = u.old /\ u'.started = u.started
        /\ u'.ready = u.ready /\ u'.committed = u.committed
    BY <1>9 DEF To, UpdaterInv, TypeOK, Process
  <2>2. BackInv'
    BY <1>6, <1>7, <1>9, <2>1 DEF BackInv
  <2> QED BY <1>2, <1>3, <1>5, <1>6, <1>9, <2>1, <2>2, BackGoes DEF RollbackSteps
<1> QED
  BY <1>5, <1>8, <1>9

LEMMA RemoveVolumeStep == UpdaterInv /\ TypeOK' /\ RemoveVolume => UpdaterInv'
<1> SUFFICES ASSUME UpdaterInv, TypeOK', RemoveVolume PROVE UpdaterInv'
  OBVIOUS
<1> DEFINE new == [disk EXCEPT !.data = NoData]
<1>1. Step("remove volume", To("remove files"), {new}, {})
  BY DEF RemoveVolume
<1>2. u.pc = "remove volume" /\ u.pc \in RollbackSteps
  BY <1>1 DEF Step, RollbackSteps
<1>3. accepted = 0 /\ ~u.committed /\ (~disk.journal => Unmoved) /\ disk.running = 0
  BY <1>2, InBack DEF UpdaterInv, ProcessInv, BackInv
<1>4. ~To("remove files").committed
  BY <1>3 DEF To, UpdaterInv, TypeOK, Process
<1>5. /\ History
      /\ \/ disk' \in {new} /\ u' = To("remove files") /\ unguarded' = unguarded
         \/ /\ disk' \in {new} \cup {} \cup {disk} /\ u' \in {[u EXCEPT !.pc = "finally", !.retained = TRUE], Idle}
            /\ unguarded' = IF disk.journal THEN unguarded ELSE TRUE
  <2> HIDE DEF new
  <2> QED BY <1>1, <1>2, <1>4, BackOutcome
<1>6. /\ disk'.files = disk.files /\ disk'.current = disk.current /\ disk'.running = disk.running
      /\ disk'.data \in {disk.data, NoData} /\ (disk' = new => disk'.data = NoData)
      /\ disk'.work = disk.work /\ disk'.previous = disk.previous /\ disk'.journal = disk.journal
  BY <1>5 DEF UpdaterInv, TypeOK, Disk
<1>7. ~disk.journal => Unmoved'
  BY <1>3, <1>5, <1>6 DEF Unmoved, NothingThere, History
<1>8. CASE u' \in {[u EXCEPT !.pc = "finally", !.retained = TRUE], Idle} /\ unguarded' = IF disk.journal THEN unguarded ELSE TRUE
  BY <1>2, <1>3, <1>5, <1>6, <1>7, <1>8, FirstFails
<1>9. CASE disk' = new /\ u' = To("remove files") /\ unguarded' = unguarded
  <2>1. /\ u'.pc = "remove files"
        /\ u'.release = u.release /\ u'.old = u.old /\ u'.started = u.started
        /\ u'.ready = u.ready /\ u'.committed = u.committed
    BY <1>9 DEF To, UpdaterInv, TypeOK, Process
  <2>2. BackInv'
    BY <1>3, <1>6, <1>7, <1>9, <2>1 DEF BackInv
  <2> QED BY <1>2, <1>3, <1>5, <1>6, <1>9, <2>1, <2>2, BackGoes DEF RollbackSteps
<1> QED
  BY <1>5, <1>8, <1>9

LEMMA RemoveFilesStep == UpdaterInv /\ TypeOK' /\ RemoveFiles => UpdaterInv'
<1> SUFFICES ASSUME UpdaterInv, TypeOK', RemoveFiles PROVE UpdaterInv'
  OBVIOUS
<1> DEFINE new  == [disk EXCEPT !.files = Without(Files), !.current = 0]
           half == {[disk EXCEPT !.files = Without(S)] : S \in SUBSET Files}
<1>1. Step("remove files", To("recovered"), {new}, half)
  BY DEF RemoveFiles
<1>2. u.pc = "remove files" /\ u.pc \in RollbackSteps
  BY <1>1 DEF Step, RollbackSteps
<1>3. accepted = 0 /\ ~u.committed /\ (~disk.journal => Unmoved) /\ disk.running = 0 /\ disk.data = NoData
  BY <1>2, InBack DEF UpdaterInv, ProcessInv, BackInv
<1>4. ~To("recovered").committed
  BY <1>3 DEF To, UpdaterInv, TypeOK, Process
<1>5. /\ History
      /\ \/ disk' \in {new} /\ u' = To("recovered") /\ unguarded' = unguarded
         \/ /\ disk' \in {new} \cup half \cup {disk} /\ u' \in {[u EXCEPT !.pc = "finally", !.retained = TRUE], Idle}
            /\ unguarded' = IF disk.journal THEN unguarded ELSE TRUE
  <2> HIDE DEF new, half
  <2> QED BY <1>1, <1>2, <1>4, BackOutcome
<1>6. /\ disk'.data = disk.data /\ disk'.running = disk.running /\ disk'.current \in {disk.current, 0}
      /\ disk'.work = disk.work /\ disk'.previous = disk.previous /\ disk'.journal = disk.journal
      /\ \A f \in Files : disk'.files[f] \in {disk.files[f], 0}
      /\ disk' = new => disk'.current = 0 /\ \A f \in Files : disk'.files[f] = 0
  <2>1. PICK S \in SUBSET Files : disk' = disk \/ disk' = [disk EXCEPT !.files = Without(S)] \/ disk' = new
    BY <1>5
  <2>2. \A T : \A f \in Files : Without(T)[f] = IF f \in T THEN 0 ELSE disk.files[f]
    BY DEF Without
  <2>3. /\ new.data = disk.data /\ new.running = disk.running /\ new.current = 0
        /\ new.work = disk.work /\ new.previous = disk.previous /\ new.journal = disk.journal
        /\ \A f \in Files : new.files[f] = 0
    <3>1. ASSUME NEW fs
          PROVE  LET d == [disk EXCEPT !.files = fs, !.current = 0] IN
                 /\ d.data = disk.data /\ d.running = disk.running /\ d.current = 0 /\ d.files = fs
                 /\ d.work = disk.work /\ d.previous = disk.previous /\ d.journal = disk.journal
      BY DEF UpdaterInv, TypeOK, Disk
    <3> QED BY <2>2, <3>1
  <2>4. CASE disk' = disk /\ disk' # new
    BY <2>4
  <2>5. CASE disk' = [disk EXCEPT !.files = Without(S)] /\ disk' # new
    <3>1. /\ disk'.data = disk.data /\ disk'.running = disk.running /\ disk'.current = disk.current
          /\ disk'.work = disk.work /\ disk'.previous = disk.previous /\ disk'.journal = disk.journal
          /\ disk'.files = Without(S)
      BY <2>5 DEF UpdaterInv, TypeOK, Disk
    <3> QED BY <2>2, <2>5, <3>1
  <2> HIDE DEF new
  <2> QED BY <2>1, <2>3, <2>4, <2>5
<1>7. ~disk.journal => Unmoved'
  BY <1>3, <1>5, <1>6 DEF Unmoved, NothingThere, History
<1>8. CASE u' \in {[u EXCEPT !.pc = "finally", !.retained = TRUE], Idle} /\ unguarded' = IF disk.journal THEN unguarded ELSE TRUE
  BY <1>2, <1>3, <1>5, <1>6, <1>7, <1>8, FirstFails
<1>9. CASE disk' = new /\ u' = To("recovered") /\ unguarded' = unguarded
  <2>1. /\ u'.pc = "recovered"
        /\ u'.release = u.release /\ u'.old = u.old /\ u'.started = u.started
        /\ u'.ready = u.ready /\ u'.committed = u.committed
    BY <1>9 DEF To, UpdaterInv, TypeOK, Process
  <2>2. Intact'
    BY <1>3, <1>5, <1>6, <1>9 DEF Intact, NothingThere, History
  <2>3. BackInv'
    BY <1>6, <1>7, <1>9, <2>1, <2>2 DEF BackInv
  <2> HIDE DEF new
  <2> QED BY <1>2, <1>3, <1>5, <1>6, <1>9, <2>1, <2>3, BackGoes DEF RollbackSteps
<1> QED
  BY <1>5, <1>8, <1>9

LEMMA RecoveredStep == UpdaterInv /\ TypeOK' /\ Recovered => UpdaterInv'
<1> SUFFICES ASSUME UpdaterInv, TypeOK', Recovered PROVE UpdaterInv'
  OBVIOUS
<1>1. Step("recovered", To("finally"), Unlinked, {})
  BY DEF Recovered
<1>2. u.pc = "recovered" /\ u.pc \in RollbackSteps
  BY <1>1 DEF Step, RollbackSteps
<1>3. /\ ~u.committed /\ Intact /\ Complete(disk.previous) /\ accepted \notin Broken
      /\ accepted # 0 => KeepsFiles
  BY <1>2, InBack DEF UpdaterInv, BackInv
<1>4. ~To("finally").committed
  BY <1>3 DEF To, UpdaterInv, TypeOK, Process
<1>5. /\ History
      /\ \/ disk' \in Unlinked /\ u' = To("finally") /\ unguarded' = unguarded
         \/ /\ disk' \in Unlinked \cup {} \cup {disk} /\ u' \in {[u EXCEPT !.pc = "finally", !.retained = TRUE], Idle}
            /\ unguarded' = IF disk.journal THEN unguarded ELSE TRUE
  BY <1>1, <1>2, <1>4, BackOutcome
<1>6. SameInstalled /\ disk'.previous = disk.previous /\ disk'.work = disk.work
  <2>1. disk' \in Unlinked \cup {disk}
    BY <1>5
  <2> QED BY <2>1 DEF Unlinked, SameInstalled, UpdaterInv, TypeOK, Disk
<1>7. Intact' /\ Complete(disk.previous)' /\ accepted' = accepted /\ (accepted # 0 => KeepsFiles')
  <2>1. unguarded' = unguarded \/ unguarded' = TRUE
    BY <1>5
  <2>2. Intact'
    BY <1>3, <1>5, <1>6, <2>1 DEF Intact, SameInstalled, History, NothingThere, Whole, Ours, Generation
  <2>3. Complete(disk.previous)' /\ accepted' = accepted
    BY <1>3, <1>5, <1>6, <2>1 DEF Complete, Generation, History
  <2>4. accepted # 0 => KeepsFiles'
    BY <1>3, <1>5, <1>6, <2>1 DEF KeepsFiles, Ours, Generation, History
  <2> QED BY <2>2, <2>3, <2>4
<1>8. CASE u' = To("finally")
  BY <1>3, <1>7, <1>8, SettlingEnds
<1>9. CASE u' \in {[u EXCEPT !.pc = "finally", !.retained = TRUE], Idle}
  BY <1>2, <1>5, <1>7, <1>9, BackEnds DEF Intact
<1> QED
  BY <1>5, <1>8, <1>9

-----------------------------------------------------------------------------
(* Exceptions, the end of an execution, and the others                     *)

LEMMA CatchStep == UpdaterInv /\ TypeOK' /\ Catch => UpdaterInv'
<1> SUFFICES ASSUME UpdaterInv, TypeOK', Catch PROVE UpdaterInv'
  OBVIOUS
<1>1. u.pc = "caught" /\ disk' = disk /\ accepted' = accepted /\ promised' = promised /\ unguarded' = unguarded
  BY DEF Catch
<1>2. /\ u.started /\ ~u.committed /\ u.old = accepted /\ u.release > u.old /\ Complete(disk.previous)
      /\ u.ready => accepted # 0 /\ disk.journal
      /\ accepted # 0 => KeepsFiles
      /\ accepted # 0 => IF u.ready THEN KeepsData ELSE Whole(disk.data)
      /\ ~disk.journal => Intact
      /\ accepted = 0 /\ ~u.activated => disk.running = 0
  <2>1. u.pc \in Going /\ u.pc \in Replacing /\ u.pc \in Deploying \cup {"caught"}
    BY <1>1 DEF Going, Replacing
  <2>2. u.started /\ ~u.committed /\ u.old = accepted /\ u.release > u.old /\ (u.ready => accepted # 0)
    BY <2>1 DEF UpdaterInv, ProcessInv
  <2>3. Complete(disk.previous) /\ (u.ready => disk.journal) /\ (~disk.journal => Intact)
    BY <1>1, <2>1 DEF UpdaterInv, PreviousInv, JournalInv, RestInv
  <2>4. /\ accepted # 0 => KeepsFiles
        /\ accepted # 0 => IF u.ready THEN KeepsData ELSE Whole(disk.data)
    BY <2>1 DEF UpdaterInv, KeepInv
  <2>5. accepted = 0 /\ ~u.activated => disk.running = 0
    BY <2>1 DEF UpdaterInv, DeployInv
  <2> QED BY <2>2, <2>3, <2>4, <2>5
<1>3. /\ Complete(disk.previous)'
      /\ accepted # 0 => KeepsFiles'
      /\ accepted # 0 => IF u.ready THEN KeepsData' ELSE Whole(disk.data)'
      /\ ~disk'.journal => Intact'
  <2>1. Complete(disk.previous)' /\ (accepted # 0 => KeepsFiles')
    BY <1>1, <1>2 DEF Complete, Generation, KeepsFiles, Ours
  <2>2. (KeepsData => KeepsData') /\ (Whole(disk.data) => Whole(disk.data)')
    BY <1>1 DEF KeepsData, Whole
  <2>3. Intact => Intact'
    BY <1>1 DEF Intact, NothingThere, Whole, Ours, Generation
  <2> QED BY <1>1, <1>2, <2>1, <2>2, <2>3
<1>4. accepted' \notin Broken
  BY <1>1 DEF UpdaterInv
<1>5. CASE u' = To("finally") /\ bared' = TRUE
  <2>1. u'.pc = "finally"
    BY <1>5 DEF To, UpdaterInv, TypeOK, Process
  <2>2. AtRest'
    BY <2>1, RestLemma
  <2>3. RestInv' /\ PreviousInv'
    BY <1>3, <1>5, <2>1 DEF RestInv, PreviousInv
  <2> QED BY <1>4, <2>2, <2>3 DEF UpdaterInv, AtRest
<1>6. CASE u' = Idle /\ bared' = bared
  <2>1. AtRest' /\ u'.pc = "idle"
    BY <1>6, RestLemma DEF Idle
  <2>2. RestInv'
    BY <1>1, <1>3, <2>1 DEF RestInv, KeepsFiles
  <2>3. PreviousInv'
    BY <1>3 DEF PreviousInv
  <2> QED BY <1>4, <2>1, <2>2, <2>3 DEF UpdaterInv, AtRest
<1>7. CASE u' = To(IF u.old # 0 THEN "copy back" ELSE IF u.activated THEN "down" ELSE "remove volume")
  <2>1. /\ u'.pc = (IF accepted # 0 THEN "copy back" ELSE IF u.activated THEN "down" ELSE "remove volume")
        /\ u'.release = u.release /\ u'.old = u.old /\ u'.started = u.started
        /\ u'.ready = u.ready /\ u'.committed = u.committed
    BY <1>2, <1>7 DEF To, UpdaterInv, TypeOK, Process
  <2>2. /\ u'.pc \in {"copy back", "down", "remove volume"} /\ u'.pc \in Going
        /\ u'.pc \notin Looking \cup Deploying \cup Settling \cup {"idle", "finally", "caught"}
    BY <2>1 DEF Going, RollbackSteps, Looking, Deploying, Settling
  <2>3. ProcessInv'
    BY <1>1, <1>2, <2>1, <2>2 DEF ProcessInv, Looking, Deploying, Settling
  <2>4. JournalInv' /\ RestInv' /\ DeployInv' /\ SettleInv'
    BY <1>1, <1>2, <2>1, <2>2 DEF JournalInv, RestInv, DeployInv, SettleInv, Looking, Deploying, Settling
  <2>5. KeepInv'
    BY <1>1, <1>3, <2>1, <2>2 DEF KeepInv, Looking, Deploying, Replacing
  <2>6. ~disk'.journal => Unmoved'
    BY <1>3 DEF Intact, Unmoved, Ours, Generation
  <2>7. BackInv'
    BY <1>1, <1>2, <2>1, <2>6 DEF BackInv
  <2>8. PreviousInv'
    BY <1>3 DEF PreviousInv
  <2> QED BY <1>4, <2>3, <2>4, <2>5, <2>7, <2>8 DEF UpdaterInv
<1> QED
  BY <1>5, <1>6, <1>7 DEF Catch

LEMMA FailsStep == UpdaterInv /\ TypeOK' /\ Fails => UpdaterInv'
<1> SUFFICES ASSUME UpdaterInv, TypeOK', Fails PROVE UpdaterInv'
  OBVIOUS
<1>1. disk' = disk /\ History /\ u' = Raises /\ EndsUnguarded
  BY DEF Fails, History
<1>2. u.pc \in {"stop", "config", "up", "live"} \/ u.pc \in {"stop again", "down", "up again", "live again"}
  BY DEF Fails
<1>3. CASE u.pc \in {"stop", "config", "up", "live"}
  <2>1. u.pc \in Deploying /\ u.pc \notin RollbackSteps
    BY <1>3 DEF Deploying, RollbackSteps
  <2>2. /\ u.started /\ ~u.committed /\ disk.journal /\ Complete(disk.previous)
        /\ accepted # 0 => KeepsFiles
    BY <2>1, InDeploy
  <2>3. u' = To("caught")
    BY <1>1, <2>1, <2>2 DEF Raises
  <2>4. unguarded' = unguarded
    BY <1>1, <2>1 DEF EndsUnguarded, UpdaterInv, TypeOK
  <2>5. CASE u.pc = "stop"
    <3>1. accepted # 0 /\ ~u.ready /\ Whole(disk.data)
      BY <2>5 DEF UpdaterInv, ProcessInv, KeepInv, Deploying
    <3>2. KeepsFiles' /\ Complete(disk.previous)'
      BY <1>1, <2>2, <2>4, <3>1 DEF KeepsFiles, Ours, Generation, Complete, History
    <3> QED BY <1>1, <2>1, <2>2, <2>3, <2>4, <3>1, <3>2, DeployEnds
  <2>6. CASE u.pc \in {"config", "up", "live"}
    BY <1>1, <2>3, <2>4, <2>6, InReplacing, ReplacingEnds DEF KeepsData
  <2> QED BY <1>3, <2>5, <2>6
<1>4. CASE u.pc \in {"stop again", "down", "up again", "live again"}
  <2>1. u.pc \in RollbackSteps
    BY <1>4 DEF RollbackSteps
  <2>2. u' = [u EXCEPT !.pc = "finally", !.retained = TRUE]
    BY <1>1, <2>1 DEF Raises
  <2>3. unguarded' = IF disk.journal THEN unguarded ELSE TRUE
    BY <1>1, <2>1 DEF EndsUnguarded, UpdaterInv, TypeOK
  <2>4. /\ ~disk.journal => Unmoved /\ ~u.ready
        /\ accepted # 0 => Whole(disk.data) \/ KeepsData
        /\ accepted # 0 /\ ~u.ready => Whole(disk.data)
    BY <2>1, InBack
  <2>5. ~disk.journal => Unmoved'
    BY <1>1, <2>4 DEF Unmoved, NothingThere, History
  <2> QED BY <1>1, <2>1, <2>2, <2>3, <2>4, <2>5, BackFails DEF KeepsData
<1> QED
  BY <1>2, <1>3, <1>4

LEMMA FinishStep == UpdaterInv /\ TypeOK' /\ Finish => UpdaterInv'
<1> SUFFICES ASSUME UpdaterInv, TypeOK', Finish PROVE UpdaterInv'
  OBVIOUS
<1>1. u.pc = "finally" /\ u' = Idle /\ History /\ unguarded' = unguarded
  BY DEF Finish, History
<1>2. /\ SameInstalled /\ disk'.journal = disk.journal /\ disk'.previous = disk.previous
      /\ u.retained => disk' = disk
  BY DEF Finish, SameInstalled, UpdaterInv, TypeOK, Disk
<1>3. AtRest' /\ u'.pc = "idle"
  BY <1>1, RestLemma DEF Idle
<1>4. CASE ~disk.journal
  <2>1. Intact /\ Complete(disk.previous)
    BY <1>1, <1>4 DEF UpdaterInv, RestInv, PreviousInv
  <2>2. Intact' /\ Complete(disk.previous)'
    BY <1>1, <1>2, <2>1, IntactLemma DEF Complete, Generation
  <2>3. RestInv' /\ PreviousInv'
    BY <1>2, <1>4, <2>2 DEF RestInv, PreviousInv
  <2> QED BY <1>1, <1>3, <2>3 DEF UpdaterInv, AtRest, History
<1>5. CASE disk.journal
  <2>1. accepted # 0 /\ ~bared =>
          /\ Whole(disk.data) \/ (KeepsData /\ u.retained)
          /\ Ours(disk.files) \/ (disk.work.there /\ Ours(disk.work.files) /\ u.retained)
    BY <1>1, <1>5 DEF UpdaterInv, RestInv
  <2>2. /\ Whole(disk.data) => Whole(disk.data)'
        /\ Ours(disk.files) => Ours(disk.files)'
    BY <1>1, <1>2 DEF SameInstalled, Whole, Ours, Generation, History
  <2>3. u.retained => (KeepsData => KeepsData') /\ (Ours(disk.work.files) => Ours(disk.work.files)') /\ disk'.work = disk.work
    BY <1>1, <1>2 DEF KeepsData, Whole, Ours, Generation, History
  <2>4. RestInv'
    BY <1>1, <1>2, <1>3, <1>5, <2>1, <2>2, <2>3 DEF RestInv, History, Looking
  <2>5. PreviousInv'
    BY <1>2, <1>3, <1>5 DEF PreviousInv, Looking, Deploying, Going, RollbackSteps
  <2> QED BY <1>1, <1>3, <2>4, <2>5 DEF UpdaterInv, AtRest, History
<1> QED
  BY <1>4, <1>5

\* A manifest that is published changes nothing that the updater has.
LEMMA OthersLemma ==
  ASSUME UpdaterInv, TypeOK', UNCHANGED <<disk, u, accepted, promised, unguarded, bared>>
  PROVE  UpdaterInv'
<1> USE DEF Intact, Whole, Ours, Generation, Complete, KeepsFiles, KeepsData, Unmoved, NothingThere
<1>1. ProcessInv' /\ JournalInv'
  BY DEF UpdaterInv, ProcessInv, JournalInv
<1>2. RestInv'
  BY DEF UpdaterInv, RestInv
<1>3. KeepInv'
  BY DEF UpdaterInv, KeepInv
<1>4. DeployInv'
  BY DEF UpdaterInv, DeployInv
<1>5. BackInv' /\ SettleInv' /\ PreviousInv'
  BY DEF UpdaterInv, BackInv, SettleInv, PreviousInv
<1> QED BY <1>1, <1>2, <1>3, <1>4, <1>5 DEF UpdaterInv

LEMMA BookStep == UpdaterInv /\ TypeOK' /\ Book => UpdaterInv'
<1> SUFFICES ASSUME UpdaterInv, TypeOK', Book PROVE UpdaterInv'
  OBVIOUS
<1>1. u' = u /\ accepted' = accepted /\ unguarded' = unguarded /\ bared' = bared
  BY DEF Book
<1>2. disk.running # 0 /\ disk.data.whole /\ disk.data # NoData
  BY DEF Book, NoData
<1>3. disk.data \in Data
  BY Parts DEF UpdaterInv, TypeOK
<1>4. /\ disk'.files = disk.files /\ disk'.current = disk.current /\ disk'.journal = disk.journal /\ disk'.work = disk.work
      /\ disk'.previous = disk.previous /\ disk'.running = disk.running
      /\ disk'.data = [disk.data EXCEPT !.holds = @ \cup {made + 1}]
  BY DEF Book, UpdaterInv, TypeOK, Disk
<1>5. /\ disk'.data.whole = disk.data.whole /\ disk'.data.by = disk.data.by
      /\ disk'.data.holds = disk.data.holds \cup {made + 1}
  BY <1>3, <1>4 DEF Data
<1>6. promised' = IF disk.running = accepted THEN promised \cup {made + 1} ELSE promised
  BY DEF Book
<1>7. /\ Whole(disk.data) => Whole(disk.data)'
      /\ KeepsData => KeepsData'
      /\ KeepsFiles => KeepsFiles'
      /\ Ours(disk.files) => Ours(disk.files)'
      /\ Ours(disk.work.files) => Ours(disk.work.files)'
  BY <1>1, <1>4, <1>5, <1>6 DEF Whole, KeepsData, KeepsFiles, Ours, Generation
<1>8. Intact => Intact'
  BY <1>1, <1>2, <1>4, <1>7 DEF Intact
<1>9. Unmoved => Unmoved'
  BY <1>1, <1>2, <1>4 DEF Unmoved
<1>10. /\ Complete(disk.work) => Complete(disk.work)'
       /\ Complete(disk.previous) => Complete(disk.previous)'
  BY <1>1, <1>4 DEF Complete, Generation
<1>11. ProcessInv' /\ JournalInv'
  BY <1>1, <1>4 DEF UpdaterInv, ProcessInv, JournalInv
<1>12. RestInv'
  BY <1>1, <1>4, <1>7, <1>8 DEF UpdaterInv, RestInv
<1>13. KeepInv'
  BY <1>1, <1>4, <1>7 DEF UpdaterInv, KeepInv
<1>14. DeployInv'
  BY <1>1, <1>2, <1>4, <1>5, <1>7 DEF UpdaterInv, DeployInv, Generation
<1>15. BackInv'
  BY <1>1, <1>2, <1>4, <1>7, <1>8, <1>9 DEF UpdaterInv, BackInv
<1>16. SettleInv' /\ PreviousInv'
  BY <1>1, <1>4, <1>8, <1>10 DEF UpdaterInv, SettleInv, PreviousInv
<1> QED
  BY <1>1, <1>11, <1>12, <1>13, <1>14, <1>15, <1>16 DEF UpdaterInv

-----------------------------------------------------------------------------
(* The theorems                                                            *)

LEMMA InitLemma == Init => UpdaterInv
<1> SUFFICES ASSUME Init PROVE UpdaterInv
  OBVIOUS
<1>1. TypeOK
  <2>1. published \in Name /\ accepted \in Name /\ disk \in Disk /\ u \in Process
    BY Nothings DEF Init
  <2>2. made \in 0..MaxBookings /\ faults \in 0..MaxFaults /\ promised \subseteq Bookings
    BY UpdaterAssumption DEF Init
  <2>3. unguarded \in BOOLEAN /\ bared \in BOOLEAN
    BY DEF Init
  <2> QED BY <2>1, <2>2, <2>3 DEF TypeOK
<1>2. /\ u.pc = "idle" /\ u.old = 0 /\ ~u.started /\ ~u.ready /\ ~u.committed
      /\ accepted = 0 /\ ~disk.journal /\ ~disk.previous.there
      /\ disk.current = 0 /\ (\A f \in Files : disk.files[f] = 0) /\ disk.running = 0 /\ disk.data = NoData
  BY DEF Init, Idle, NoDisk, NoDirectory
<1>3. accepted \notin Broken
  BY <1>2, UpdaterAssumption DEF Releases
<1>4. ProcessInv /\ JournalInv /\ KeepInv /\ DeployInv /\ BackInv /\ SettleInv
  BY <1>2 DEF ProcessInv, JournalInv, KeepInv, DeployInv, BackInv, SettleInv, Looking, Deploying, Settling, Going,
              RollbackSteps
<1>5. RestInv
  BY <1>2 DEF RestInv, Intact, NothingThere
<1>6. PreviousInv
  BY <1>2 DEF PreviousInv, Complete
<1> QED
  BY <1>1, <1>3, <1>4, <1>5, <1>6 DEF UpdaterInv

LEMMA NextLemma == UpdaterInv /\ [Next]_vars => UpdaterInv'
<1> SUFFICES ASSUME UpdaterInv, [Next]_vars PROVE UpdaterInv'
  OBVIOUS
<1>1. TypeOK'
  BY NextTyped DEF UpdaterInv
<1>2. CASE Execute
  BY <1>1, <1>2, PollStep, DownloadStep, PriorStateStep, CheckStep DEF Execute
<1>3. CASE Deploy
  BY <1>1, <1>3, PublishJournalStep, StopStep, SnapshotStep, CopyStep, ConfigStep, UpStep, LiveStep, PublishCurrentStep,
     RetainStep, RemovePreviousStep, RenameStep, UnlinkJournalStep DEF Deploy
<1>4. CASE Rollback
  BY <1>1, <1>4, CatchStep, CopyBackStep, StopAgainStep, RestoreStep, CurrentBackStep, UpAgainStep, LiveAgainStep,
     DownStep, RemoveVolumeStep, RemoveFilesStep, RecoveredStep DEF Rollback
<1>5. CASE Fails \/ Finish \/ Book
  BY <1>1, <1>5, FailsStep, FinishStep, BookStep
<1>6. CASE (\E r \in Releases : Publish(r)) \/ UNCHANGED vars
  <2>1. UNCHANGED <<disk, u, accepted, promised, unguarded, bared>>
    BY <1>6 DEF Publish, vars
  <2> QED BY <1>1, <2>1, OthersLemma
<1> QED
  BY <1>2, <1>3, <1>4, <1>5, <1>6 DEF Next, Updater

\* The invariant of the updater (execute, deploy and rollback of update-release.py): what each step
\* may rely on, what is in place and what is kept.
THEOREM Invariance == Spec => []UpdaterInv
<1>1. Init => UpdaterInv
  BY InitLemma
<1>2. UpdaterInv /\ [Next]_vars => UpdaterInv'
  BY NextLemma
<1> QED
  BY <1>1, <1>2, PTL DEF Spec

\* Every variable of the updater keeps its type.
THEOREM TypeCorrect == Spec => []TypeOK
<1>1. UpdaterInv => TypeOK
  BY DEF UpdaterInv
<1> QED
  BY <1>1, Invariance, PTL

LEMMA InvSettled == UpdaterInv => SettledIsWhole
<1> SUFFICES ASSUME UpdaterInv, u.pc = "idle", ~disk.journal, ~unguarded
             PROVE  IF accepted = 0 THEN NothingThere /\ disk.running = 0 /\ disk.data = NoData
                    ELSE /\ Whole(disk.data) /\ disk.current = accepted /\ disk.running = accepted
                         /\ Generation(disk.files, accepted)
                         /\ disk.previous.there =>
                              /\ disk.previous.data.whole /\ disk.previous.data.by = disk.previous.current
                              /\ Generation(disk.previous.files, disk.previous.current)
  BY DEF SettledIsWhole
<1>1. Intact /\ Complete(disk.previous)
  BY DEF UpdaterInv, RestInv, PreviousInv
<1>2. CASE accepted = 0
  BY <1>1, <1>2 DEF Intact
<1>3. CASE accepted # 0
  <2>1. Whole(disk.data) /\ disk.current = accepted /\ disk.running = accepted /\ Generation(disk.files, accepted)
    BY <1>1, <1>3 DEF Intact, Ours
  <2> QED BY <1>1, <1>3, <2>1 DEF Complete
<1> QED
  BY <1>2, <1>3

\* Whatever fails, and wherever the updater is killed: between two executions without a journal one
\* verified generation is installed, with every booking made with it and a complete copy of the
\* generation before; or nothing is (execute and its journal, server/dev/update-release.py).
THEOREM AlwaysSettled == Spec => []SettledIsWhole
<1>1. UpdaterInv => SettledIsWhole
  BY InvSettled
<1> QED
  BY <1>1, Invariance, PTL

LEMMA InvRecoverable == UpdaterInv => Recoverable
<1> SUFFICES ASSUME UpdaterInv, accepted # 0, ~bared
             PROVE  /\ Whole(disk.data) \/ (disk.work.there /\ Whole(disk.work.data))
                    /\ \/ Generation(disk.files, accepted)
                       \/ disk.work.there /\ Generation(disk.work.files, accepted)
                       \/ unguarded
  BY DEF Recoverable
<1>1. u.pc \in {"idle", "finally"} \cup Looking \cup Deploying \cup Settling \cup Going
  BY DEF UpdaterInv, TypeOK, Process, Steps, Looking, Deploying, Settling, Going
<1>2. /\ Intact => Whole(disk.data) /\ Ours(disk.files)
      /\ KeepsData => disk.work.there /\ Whole(disk.work.data)
      /\ KeepsFiles => disk.work.there /\ Ours(disk.work.files)
      /\ \A fs : Ours(fs) => Generation(fs, accepted) \/ unguarded
  BY DEF Intact, KeepsData, KeepsFiles, Ours
<1>3. /\ Whole(disk.data) \/ KeepsData
      /\ Ours(disk.files) \/ (disk.work.there /\ Ours(disk.work.files))
  <2>1. CASE u.pc \in Looking
    BY <1>2, <2>1 DEF UpdaterInv, JournalInv, RestInv
  <2>2. CASE u.pc \in Deploying \cup Going
    BY <1>2, <2>2 DEF UpdaterInv, KeepInv
  <2>3. CASE u.pc \in Settling
    BY <1>2, <2>3 DEF UpdaterInv, SettleInv
  <2>4. CASE u.pc \in {"idle", "finally"}
    BY <1>2, <2>4 DEF UpdaterInv, RestInv
  <2> QED BY <1>1, <2>1, <2>2, <2>3, <2>4
<1> QED
  BY <1>2, <1>3

\* Wherever the updater is ended, the accepted release's database with every booking made with it, and
\* its files, are in place or in the directory that is kept (deploy, rollback and execute's last lines,
\* server/dev/update-release.py); Recoverable names the two exceptions.
THEOREM AlwaysRecoverable == Spec => []Recoverable
<1>1. UpdaterInv => Recoverable
  BY InvRecoverable
<1> QED
  BY <1>1, Invariance, PTL
=============================================================================
