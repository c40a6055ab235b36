----------------------------- MODULE DevUpdater -----------------------------
(***************************************************************************)
(* The development updater (server/dev/update-release.py): a timer starts  *)
(* it, it takes the published release, keeps a copy of the generation that *)
(* serves, replaces it, and rolls back when a step fails or a signal       *)
(* arrives.  A kill or a reboot ends it between or within two steps.       *)
(*                                                                         *)
(* A release is its number, (runId, runAttempt); a file or the database is *)
(* the release it was written by.  update.lock keeps a second updater out, *)
(* so that there is one.  Candidates leave no state and are left out.      *)
(***************************************************************************)
EXTENDS Naturals

CONSTANTS
  MaxRelease,   \* bound: releases
  Broken,       \* releases that pass the candidate test and fail the live one
  Torn,         \* the content of a file that was not written to its end
  MaxBookings,  \* bound: bookings of customers
  MaxFaults     \* bound: failed commands, signals and kills

Releases == 1..MaxRelease

ASSUME UpdaterAssumption ==
  /\ MaxRelease \in Nat /\ MaxBookings \in Nat /\ MaxFaults \in Nat
  /\ Broken \subseteq Releases /\ Torn \notin Nat

VARIABLES
  published,  \* the manifest that can be downloaded, 0: none
  disk,       \* what outlives the updater
  u,          \* the updater's process
  accepted,   \* history: the release that was committed last
  promised,   \* history: bookings made with the accepted release
  made,       \* bookings made so far
  unguarded,  \* history: a recovery ended half way before the journal was published
  bared,      \* history: a second signal had the recovery files deleted
  faults      \* faults so far

vars == <<published, disk, u, accepted, promised, made, unguarded, bared, faults>>

Files    == {"compose.yaml", "Caddyfile.local", "release.env"}
Name     == 0..MaxRelease
Bookings == 1..MaxBookings
Written  == [Files -> Name \cup {Torn}]

Data   == [whole : BOOLEAN, by : Name, holds : SUBSET Bookings]
NoData == [whole |-> FALSE, by |-> 0, holds |-> {}]
Damaged(d) == [d EXCEPT !.whole = FALSE]

\* A check.* directory or previous: copies of the files, of current.json, and the archive.
Directory   == [there : BOOLEAN, files : Written, current : Name, data : Data]
NoDirectory == [there |-> FALSE, files |-> [f \in Files |-> 0], current |-> 0, data |-> NoData]

\* journal: transaction.json is there; work: the directory of the last check; data: the volume;
\* running: the release whose containers run.
Disk == [files : Written, current : Name, journal : BOOLEAN, work : Directory, previous : Directory,
         data : Data, running : Name]
NoDisk == [files |-> [f \in Files |-> 0], current |-> 0, journal |-> FALSE, work |-> NoDirectory,
           previous |-> NoDirectory, data |-> NoData, running |-> 0]

RollbackSteps == {"copy back", "stop again", "restore", "current back", "up again", "live again",
                  "down", "remove volume", "remove files", "recovered"}
Steps == {"download", "prior", "check", "publish journal", "stop", "snapshot", "copy", "config", "up", "live",
          "publish current", "retain", "remove previous", "rename", "unlink journal"} \cup RollbackSteps

Process == [pc : {"idle", "caught", "finally"} \cup Steps, release : Name, old : Name, started : BOOLEAN,
            activated : BOOLEAN, ready : BOOLEAN, committed : BOOLEAN, retained : BOOLEAN]
Idle == [pc |-> "idle", release |-> 0, old |-> 0, started |-> FALSE, activated |-> FALSE, ready |-> FALSE,
         committed |-> FALSE, retained |-> FALSE]

Init ==
  /\ published = 0 /\ disk = NoDisk /\ u = Idle
  /\ accepted = 0 /\ promised = {} /\ made = 0 /\ unguarded = FALSE /\ bared = FALSE /\ faults = 0

To(step) == [u EXCEPT !.pc = step]

Fault == faults < MaxFaults /\ faults' = faults + 1

-----------------------------------------------------------------------------
(* How a step ends: it is done, or a command fails or a signal arrives, or *)
(* the process is killed; the disk is then as it was, or half or all of    *)
(* the step is done.                                                       *)

\* Mutant: the directory is not kept for a recovery that failed.
RaisesAlike ==
  IF u.started /\ ~u.committed /\ u.pc \notin RollbackSteps THEN To("caught") ELSE To("finally")

\* The exception: deploy's is caught, rollback's has the directory kept.
Raises ==
  IF u.pc \in RollbackSteps THEN [u EXCEPT !.pc = "finally", !.retained = TRUE]
  ELSE IF u.started /\ ~u.committed THEN To("caught") ELSE To("finally")

EndsUnguarded == unguarded' = (unguarded \/ (u.pc \in RollbackSteps /\ ~disk.journal))

Step(step, then, done, half) ==
  /\ u.pc = step
  /\ \/ disk' \in done /\ u' = then /\ UNCHANGED <<unguarded, faults>>
     \/ disk' \in done \cup half \cup {disk} /\ u' \in {Raises, Idle} /\ EndsUnguarded /\ Fault
  /\ accepted' = IF u'.committed THEN u.release ELSE accepted
  /\ promised' = IF u'.committed /\ ~u.committed THEN disk.data.holds ELSE promised
  /\ UNCHANGED <<published, made, bared>>

\* Steps that leave the disk alone.
Passes(step, then) == Step(step, then, {disk}, {})

\* What compose reads before it does anything, and what the containers need besides.
Readable  == {disk.files["compose.yaml"], disk.files["release.env"]} \cap {0, Torn} = {}
Startable == Readable /\ disk.files["Caddyfile.local"] \notin {0, Torn}
Serves    == disk.running \notin Broken \cup {0}

\* What fails although nothing happens to it: compose without its files, a live check of a
\* release that is broken or does not run.
Fails ==
  /\ \/ u.pc \in {"stop", "stop again", "down", "config"} /\ ~Readable
     \/ u.pc \in {"up", "up again"} /\ ~Startable
     \/ u.pc \in {"live", "live again"} /\ ~Serves
  /\ u' = Raises
  /\ EndsUnguarded
  /\ UNCHANGED <<published, disk, accepted, promised, made, bared, faults>>

\* Files are copied in order: those before g are new, g is torn, the rest is old.
Copied(to) == {[disk EXCEPT !.files = to]}
Copying(to, order) ==
  {[disk EXCEPT !.files = [f \in Files |-> IF order[f] < order[g] THEN to[f] ELSE IF f = g THEN Torn ELSE @[f]]] : g \in Files}

-----------------------------------------------------------------------------
(* execute, up to the first change                                         *)

Poll ==
  /\ u.pc = "idle" /\ ~disk.journal
  /\ disk' = [disk EXCEPT !.work = [NoDirectory EXCEPT !.there = TRUE]]
  /\ u' = To("download")
  /\ UNCHANGED <<published, accepted, promised, made, unguarded, bared, faults>>

Download == Passes("download", IF published = 0 THEN To("finally") ELSE [u EXCEPT !.pc = "prior", !.release = published])

Installed    == disk.current # 0 /\ \A f \in Files : disk.files[f] # 0
NothingThere == disk.current = 0 /\ \A f \in Files : disk.files[f] = 0

\* prior_state: everything is there and is kept, or nothing is.
Kept == IF Installed THEN [disk EXCEPT !.work = [@ EXCEPT !.files = disk.files, !.current = disk.current]] ELSE disk

PriorState ==
  Step("prior",
       IF Installed THEN [u EXCEPT !.pc = "check", !.old = disk.current]
       ELSE IF NothingThere /\ disk.running = 0 /\ disk.data.by = 0 THEN To("check") ELSE To("finally"),
       {Kept}, {})

\* Mutant: the release that is installed is deployed again.
NotOlder(release, old) == release >= old

Newer(release, old) == release > old

\* The images and the candidate; deploy begins by setting started.
Check == Passes("check", IF Newer(u.release, u.old) THEN [u EXCEPT !.pc = "publish journal", !.started = TRUE] ELSE To("finally"))

-----------------------------------------------------------------------------
(* deploy                                                                  *)

PublishJournal == Step("publish journal", To(IF u.old # 0 THEN "stop" ELSE "copy"), {[disk EXCEPT !.journal = TRUE]}, {})

Stopped == IF Readable THEN {[disk EXCEPT !.running = 0]} ELSE {}

Stop == Step("stop", To("snapshot"), Stopped, {})

Archived(data) == {[disk EXCEPT !.work = [@ EXCEPT !.data = data]]}

Snapshot == Step("snapshot", [u EXCEPT !.pc = "copy", !.ready = TRUE], Archived(disk.data), Archived(Damaged(disk.data)))

DeployOrder == [f \in Files |-> CASE f = "compose.yaml" -> 1 [] f = "Caddyfile.local" -> 2 [] f = "release.env" -> 3]
OfRelease == [f \in Files |-> u.release]

Copy == Step("copy", To("config"), Copied(OfRelease), Copying(OfRelease, DeployOrder))

Config == Step("config", [u EXCEPT !.pc = "up", !.activated = TRUE], IF Readable THEN {disk} ELSE {}, {})

\* The containers of release.env start and bring the database to their schema, a broken release's
\* perhaps badly; a fresh volume is made where there is none.
Migrated == LET new == [disk.data EXCEPT !.by = disk.files["release.env"], !.whole = @ \/ disk.data.by = 0]
            IN {new} \cup (IF disk.files["release.env"] \in Broken THEN {Damaged(new)} ELSE {})
Started  == IF Startable THEN {[disk EXCEPT !.running = disk.files["release.env"], !.data = d] : d \in Migrated} ELSE {}
Starting == IF Startable THEN {[disk EXCEPT !.running = 0, !.data = d] : d \in Migrated} ELSE {}

Up   == Step("up", To("live"), Started, Starting)
Live == Step("live", To("publish current"), IF Serves THEN {disk} ELSE {}, {})

\* committed is set when current.json is the release's.
PublishCurrent ==
  Step("publish current", [u EXCEPT !.pc = IF u.old # 0 THEN "retain" ELSE "unlink journal", !.committed = TRUE],
       {[disk EXCEPT !.current = u.release]}, {})

Retain == Passes("retain", [u EXCEPT !.pc = "remove previous", !.retained = TRUE])

RemovePrevious ==
  Step("remove previous", To("rename"), {[disk EXCEPT !.previous = NoDirectory]},
       {[disk EXCEPT !.previous = [@ EXCEPT !.data = NoData]]})

Rename == Step("rename", To("unlink journal"), {[disk EXCEPT !.previous = disk.work, !.work = NoDirectory]}, {})

Unlinked == {[disk EXCEPT !.journal = FALSE]}

UnlinkJournal == Step("unlink journal", To("finally"), Unlinked, {})

-----------------------------------------------------------------------------
(* rollback                                                                *)

\* From here on signals are ignored; a second one before that has the directory deleted.
Catch ==
  /\ u.pc = "caught"
  /\ \/ /\ u' = To(IF u.old # 0 THEN "copy back" ELSE IF u.activated THEN "down" ELSE "remove volume")
        /\ UNCHANGED <<bared, faults>>
     \/ u' = To("finally") /\ bared' = TRUE /\ Fault
     \/ u' = Idle /\ Fault /\ UNCHANGED bared
  /\ UNCHANGED <<published, disk, accepted, promised, made, unguarded>>

BackOrder == [f \in Files |-> CASE f = "compose.yaml" -> 1 [] f = "release.env" -> 2 [] f = "Caddyfile.local" -> 3]

CopyBack  == Step("copy back", To("stop again"), Copied(disk.work.files), Copying(disk.work.files, BackOrder))
StopAgain == Step("stop again", To(IF u.ready THEN "restore" ELSE "current back"), Stopped, {})

\* Mutant: the archive is unpacked over what the new release left.
UnpackedOver(archive) == [disk.data EXCEPT !.holds = archive.holds]

\* The volume is emptied and the archive unpacked.
Unpacked(archive) == archive

Restore ==
  Step("restore", To("current back"), {[disk EXCEPT !.data = Unpacked(disk.work.data)]},
       {[disk EXCEPT !.data = Damaged(disk.work.data)]})

CurrentBack == Step("current back", To("up again"), {[disk EXCEPT !.current = disk.work.current]}, {})

UpAgain   == Step("up again", To("live again"), Started, Starting)
LiveAgain == Step("live again", To("recovered"), IF Serves THEN {disk} ELSE {}, {})

\* A first release leaves nothing behind.
Down         == Step("down", To("remove volume"), Stopped, {})
RemoveVolume == Step("remove volume", To("remove files"), {[disk EXCEPT !.data = NoData]}, {})

Without(S) == [f \in Files |-> IF f \in S THEN 0 ELSE disk.files[f]]

RemoveFiles ==
  Step("remove files", To("recovered"), {[disk EXCEPT !.files = Without(Files), !.current = 0]},
       {[disk EXCEPT !.files = Without(S)] : S \in SUBSET Files})

Recovered == Step("recovered", To("finally"), Unlinked, {})

\* execute's last lines: the directory goes unless it is needed.
Finish ==
  /\ u.pc = "finally"
  /\ disk' = IF u.retained THEN disk ELSE [disk EXCEPT !.work = NoDirectory]
  /\ u' = Idle
  /\ UNCHANGED <<published, accepted, promised, made, unguarded, bared, faults>>

-----------------------------------------------------------------------------
(* The workflow that publishes, and the customers                          *)

\* Workflow runs may end out of order.
Publish(r) ==
  /\ published' = r /\ r # published
  /\ UNCHANGED <<disk, u, accepted, promised, made, unguarded, bared, faults>>

Book ==
  /\ disk.running # 0 /\ disk.data.whole /\ made < MaxBookings
  /\ made' = made + 1
  /\ disk' = [disk EXCEPT !.data = [disk.data EXCEPT !.holds = @ \cup {made + 1}]]
  /\ promised' = IF disk.running = accepted THEN promised \cup {made + 1} ELSE promised
  /\ UNCHANGED <<published, u, accepted, unguarded, bared, faults>>

Execute  == Poll \/ Download \/ PriorState \/ Check
Deploy   == \/ PublishJournal \/ Stop \/ Snapshot \/ Copy \/ Config \/ Up \/ Live \/ PublishCurrent
            \/ Retain \/ RemovePrevious \/ Rename \/ UnlinkJournal
Rollback == \/ Catch \/ CopyBack \/ StopAgain \/ Restore \/ CurrentBack \/ UpAgain \/ LiveAgain
            \/ Down \/ RemoveVolume \/ RemoveFiles \/ Recovered
Updater  == Execute \/ Deploy \/ Rollback \/ Fails \/ Finish

Next == Updater \/ (\E r \in Releases : Publish(r)) \/ Book

Spec == Init /\ [][Next]_vars

\* The timer starts the updater again 60 seconds after it ended, and every command has a time limit.
FairSpec == Spec /\ WF_vars(Updater)

-----------------------------------------------------------------------------
(* Properties                                                              *)

\* Every variable keeps its type.
TypeOK ==
  /\ published \in Name /\ disk \in Disk /\ u \in Process
  /\ accepted \in Name /\ promised \subseteq Bookings /\ made \in 0..MaxBookings
  /\ unguarded \in BOOLEAN /\ bared \in BOOLEAN /\ faults \in 0..MaxFaults

Whole(d) == d.whole /\ d.by = accepted /\ promised \subseteq d.holds
Generation(fs, r) == \A f \in Files : fs[f] = r

\* Between two polls, unless the journal asks for an inspection, what is installed is one
\* generation, verified, with every booking that was made with it, and the copy of the one before
\* is complete; or nothing is (server/dev/README.md, "Verification and recovery").  The exception:
\* a recovery that failed or was killed before the journal was published.
SettledIsWhole ==
  u.pc = "idle" /\ ~disk.journal /\ ~unguarded =>
    IF accepted = 0 THEN NothingThere /\ disk.running = 0 /\ disk.data = NoData
    ELSE /\ Whole(disk.data) /\ disk.current = accepted /\ disk.running = accepted /\ Generation(disk.files, accepted)
         /\ disk.previous.there => /\ disk.previous.data.whole /\ disk.previous.data.by = disk.previous.current
                                   /\ Generation(disk.previous.files, disk.previous.current)

\* Wherever the updater is ended, the database of the accepted release with every booking made
\* with it, and its files, are in place or in the directory that the updater keeps.  The exceptions:
\* a second signal before the first has closed the door to signals, which has that directory deleted,
\* and, for the files, a recovery that ended half way before the journal was published.
Recoverable ==
  accepted # 0 /\ ~bared =>
    /\ Whole(disk.data) \/ (disk.work.there /\ Whole(disk.work.data))
    /\ Generation(disk.files, accepted) \/ (disk.work.there /\ Generation(disk.work.files, accepted)) \/ unguarded

\* A release that stays published, and is not broken, comes to run in the end, unless a newer one does
\* or the updater stops for an inspection: failures, signals and releases that had to be rolled back
\* do not keep it out.
NewestArrives ==
  \A r \in Releases \ Broken :
    <>[](published = r) => \/ <>[](disk.current >= r /\ disk.running = disk.current)
                           \/ <>[](disk.journal)
                           \/ <>unguarded
=============================================================================
