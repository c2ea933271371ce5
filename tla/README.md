# Verification of enshctl

`enshctl` is PID 1 of a container that runs the Enshrouded dedicated server under Wine. It
installs and updates the game, starts it, watches its output, backs its saves up, and, with *Auto
Pause*, stops the whole Wine process tree with `SIGSTOP` while nobody plays and wakes it when a
client's packet arrives. This directory holds TLA+ models of it, the TLC configurations that check
them, and proofs about them that TLAPS checks.

Paths below are relative to the repository; `enshctl/` stands for `src/enshctl/`.

## The system

| Part | State it keeps | Operations | Talks to |
|---|---|---|---|
| Auto Pause controller (`enshctl/lifecycle/autopause.py`) | `_state`, `_lock`, `_latch`, `_run_disabled`, the save signature and activity generation of an attempt | loop of `_handle_disabled`, `_handle_request`, `_tick`; `_attempt_pause`, `_resume`; `stop` and `resume_for_shutdown` from the main thread | all of the next six |
| Pause gate (`lifecycle/pause_gate.py`) | `_active`, `_quiet` under one condition | `acquire`, `release`, `try_quiet`, `resume`, `wait_until_running` | scheduler, reporter, resource poller |
| Wine tree (`lifecycle/server.py`) | the kernel's process states, re-read from `/proc` | `wine_tree`, `suspend_all`, `resume_all`, `signal_game` | the game |
| Wake sources (`lifecycle/wake.py`) | sockets, queue baseline, the active source | `arm`, `wait`, `close`, `ignore_source_endpoints` | clients |
| Control files (`lifecycle/control.py`, `commands/autopause.py`) | `disabled`, `paused`, `request`, `status.json` | atomic writes, `consume_request`, `live_status`; the CLI's request and poll | operator |
| Presence tracker (`presence.py`, `lifecycle/players.py`) | roster, name queue, pending join, Session block, activity generation, degraded | `observe` a line, `expire`, `snapshot`, `reset` | stdout reader, controller, reporter |
| Save signatures (`lifecycle/saves.py`) | none | newest `*.ksd` with size and mtime | the game's saves |
| Lifecycle (`lifecycle/runtime.py`, `lifecycle/io.py`) | the exit request, stop and shutdown events, `_finished` | `run`, `_wait_for_exit`, `request_shutdown`, `exit_server` | every thread, backups, PID file |
| Backup child (`backup/*.py`, `commands/backup.py`) | `.lock`, archives by category | `run_request`: lock, plan, create, retention | saves, disk |
| Restore, prune, verify (`restore.py`, `commands/*.py`) | PID file, `.lock`, temporary directory | extract, swap, delete | backups, saves |
| Retention and schedule (`retention.py`, `scheduling.py`) | none | buckets to keep; cron to seconds | backups |
| Installation (`download/*.py`, `manifests.py`, `keys.py`, `hub.py`, `install.py`, `mods.py`) | one directory per manifest with its `.installed` marker, the game tree, the latest manifest's record, `depot.keys`, persisted files | download flow with fallbacks, tree rebuild | DepotDownloader (`vendor/DepotDownloader`), Steam, ManifestHub |
| Configuration (`config.py`, `settings.py`) | the server config, JSON that is read and rewritten at each start | validation, generation | environment |

How they interact. The process has a main thread (lifecycle), a stdout reader that feeds the
tracker, the controller thread, and three background threads behind the gate. Threads share the
tracker (its own lock), the gate (its condition), the controller's `_lock`, which only the
suspension, the resumes and the latch take, `stop_event`, and the files under
`/data/config/autopause`, which other processes (the CLI) write without a lock. Several fields of
the controller (`_state`, `_run_disabled`) are written without the lock. Backups, restores and
prunes are processes of their own that meet at `.lock`, the PID file and the directory of archives. An
`install` command may download beside the start of the server, in the same directories, without a lock.

What is hard here, with the lines where it bites, is the list `hazards` of `PROJECT.json`:
a shutdown that races a pause; a join that times out; finally clauses that read a state another
thread has just overwritten; a suspension, rollback or resume that fails half-way; evidence, saves
and markers that change between a check and its use; events consumed before they are acted on;
CLI requests replaced, expired or refused late; crashes between the steps of a backup, a restore, a
download or the building of a tree; a signal at any step of the lifecycle.

What makes each part correct:

- gate: admission and quiet windows exclude each other, the counter counts, nobody stays blocked;
- controller: no process is stopped when SIGINT is sent, no work runs on a frozen tree, a window,
  wake source and marker exist exactly as long as the pause, an active controller has an awake tree,
  a packet or the disabled marker ends a pause, a shutdown ends;
- wine tree: a successful `suspend_all` stopped everything that matches, a failed one left nothing
  stopped, no process is orphaned by drift;
- control files: a request is executed at most once, and not if its command had given up before the
  controller looked at the clock; the CLI reports what happened to its own;
- presence: who is in the roster is what the log says up to the caps, a queued handle is in the
  roster and unnamed, degraded means full;
- lifecycle: one exit, in order, with the right trigger, that comes to its end; the PID file is there
  while the game may run, from `write_pid()` on;
- backups: one writer at a time, no error leaves a cut-off archive, retention never deletes the newest
  archive or the one being written, an exit backup is the world as the game left it;
- installation: the marker means an install with the server's binary, the tree the server runs in is
  composed of this version, these mods and the persisted files, no start overwrites an edited persisted
  file, and a failed start does not keep later ones from running. (Each has exceptions, listed below.)

## The modules

| Module | Models | Composed with |
|---|---|---|
| `PauseGate` | the gate's four methods and the three kinds of threads that use it | instantiated by `AutoPause`, extended by `Lifecycle` |
| `QuietWindow` | what Auto Pause promises the rest of the program, nothing of how | refined by `AutoPause` |
| `Evidence` | what the controller may conclude from the game's output, and how that may move | extended by `AutoPause`, refined by `Presence` |
| `AutoPause`, `MCAutoPause` | the controller thread, the main thread's exit, the operator's markers, the game, packets | `PauseGate`, `Evidence`, `QuietWindow` |
| `Presence`, `MCPresence` | `PresenceTracker`: roster, queue, pending join, Session block | `Evidence` |
| `AtomicWrite`, `MCAtomicWrite` | `_atomic_write()` down to names and inodes | none |
| `OperatorRequests`, `MCOperatorRequests` | a command's request and poll, and the controller that reads, removes, acts and answers | none |
| `WineTree`, `MCWineTree` | `suspend_all()` and `resume_all()` process by process | none; `AutoPause` has their outcomes |
| `Lifecycle` | `run()`, the signal handler, the exit, the server's two processes, the PID file, the background threads, the container's restarts | extends `PauseGate` |
| `Retention` | which backups the `BACKUP_KEEP_*` rules delete | extended by `BackupStore` |
| `BackupStore`, `MCBackupStore` | backup children, prune and restore over one directory, one lock and the saves of a running game | `Retention` |
| `Install`, `MCInstall` | from a VERSION to a game tree and its server config: keys, resolution, download, marker, tree; two processes, DepotDownloader included | none |
| `*Proofs` | the theorems about the module of that name, in `LifecycleProofs` those about `PauseGate` too | |

How state and actions correspond to the code:

- **PauseGate.** `active` and `quiet` are the fields; `job[w]` is where a thread is between two
  calls. Every method runs under one condition, so each is one action: `Acquire`, `Refuse` (a round
  is skipped, or the poller blocks), `WakeUp`, `Release`, `Quit` (the loop sees the stop event).
- **AutoPause.** `ctl` is the controller's control point, one per stretch of code between two
  interactions with others; `main` is the exit's. `state`, `runDisabled`, `latch`, `lock` are the
  fields of those names. Each action is named for the code it stands for (`HandleDisabled`,
  `FirstProbe`, `Restat`, `TakeLock`, `FinalCheck`, `SignalTree`, `VerifyTree`, `Pause`, ...); the
  finally clauses of `_attempt_pause()` are `Unarm` and `Unquiet`, exceptions are `Raise` and
  what follows it. `tree` is the Wine tree as a whole, `save` the newest save relative to the
  signature recorded last, the generation of the tracker is "moved since the window opened".
- **Evidence.** Six bits, the ones `_veto_reason()` reads. Its actions are the classes of lines that
  move them in one way.
- **Presence.** `players`, `block` and `pending` group the fields of the tracker; one action per
  kind of line, each through `observe()`, which expires first as the code does. `game` is a history
  of what the log said, for the properties. Times are ages that stop at their threshold. The kinds of
  lines, the players and the two caps are those of one of the `Games`, chosen at the start. A removal
  from a roster or a queue (`Without`) says of each position that stays how many of them there are up to
  it, and the code's loops for a first match are `FirstOf`: definitions without recursion, so that the
  proofs can reason about every sequence, not only about the short ones of a run.
- **AtomicWrite.** `Open` creates or truncates the temporary file, `Write` fills the inode behind
  the handle, `Replace` renames, `Unlink` is `_remove()`; `Die` is a kill at any point.
- **OperatorRequests.** `at`/`report`/`wait` are the command, `file`/`age` the request file, `status`
  the two fields of `status.json`, `ctl`/`read`/`last` the controller. `ReadClock` is the time
  `_handle_request()` passes to `consume_request()`, which decides whether a request has expired;
  `ReadRequest` and `RemoveRequest` are the two halves of that method; `Accept`, `Act`, `Answer` the three
  assignments and writes of `_handle_request()`.
- **WineTree.** `state[p]` is the letter in `/proc/<pid>/stat`, `told[p]` what the last signal asks;
  `Deliver` makes it so later, `Spawn` and `Exit` change the set of processes at any time. `List`
  and `Read` are the scan, one process at a time; `pc`, `job` and `todo` are the position in the
  two functions.
- **Lifecycle.** `main` is where `run()`, `_wait_for_exit()`, `_finish()` or `exit_server()` is. The two
  looks at the request around the log line, and the assignment after them, are three actions (`Wait`,
  `Look`, `RecordCrash`), and so are an exception, the look for a request in the except clause and the
  assignment after it (`Raise`, `Caught`, `RecordFailure`); `Signal` is the whole handler, possible
  between any two. `wrapper` is the process `Popen` started, `game` the one behind it, which may come
  late, even after the wrapper has ended or was killed, ignore SIGINT or outlive the wrapper.
  `StopServer`, `Stopped` and `ForceKill` are `_stop_server()`, which may find no game to signal
  (`missed`), may raise, and kills after the timeout what it finds by then; `TriggeredBackup`,
  `CleanupWine`, `ClearPid` are the steps after it, each of which may fail and is logged.
  `Kill` ends every process, `NewLife` starts the container again, and the PID file is still there.
- **Retention.** A backup is its time; the newest-first list the code walks by index is a set, and "the
  first n" is "fewer than n are newer". `Key` is the bucket of a rule, `Heads` the newest of each
  bucket, `KeepLast` and `KeepBucket` the two functions with their different ideas of a negative number.
- **BackupStore.** `proc[p].pc` is where a child (`lock`, `plan`, `copy`, `retain`, `unlink`), a prune
  (`retain`, `unlink`) or a restore (`confirm`, `prepare`, `extract`, `clear`) is; `idle` stands for no
  such process. `Lock`, `Poll`, `Skip` are the acquisition with its attempts; `Begin` opens the archive
  under the name of the current second, `Add` puts one file into it, `Finish` closes it, `Fail` is the
  finally clause that removes it, or cannot. Retention happens in three moments: `Scan` lists and
  decides, `Unlink` deletes one, both without the lock in the command. `Select`, `Confirm`, `Prepare`,
  `Extract`, `Clear`, `Move`, `RestoreEnds` are the restore. `Kill` ends any process at any point and
  releases its lock; `left` is a history of the cut-off archives that a kill or a failed unlink leaves.
- **Install.** `Prepare` fetches keys and manifest files; `ResolveGiven`, `ResolveBuild`,
  `ResolveLatest`, `ResolveCached` and `Record` are `manifests.py`, where a build has no recorded
  manifest to fall back on; `Skip`, `Discover`, `Inspect`, `Mark`, `Seal` are the download flow around
  the downloads. `Fetch`, `Validate`, `Replace`, `Recreate`, `Fill` are DepotDownloader on one depot, in
  whatever order the listing has, translated from its vendored source: it allocates the files that are
  missing, validates those it finds, and replaces one that does not match by moving it to its staging
  directory and making a new one. `depot[m]` says how much of each depot is there: of the default one
  whether the binary is, whole (`full`), as a file (`most`), in the staging directory (`moved`) or not
  (`cut`). DepotDownloader runs as another user, which cannot write what `Seal` has made read-only
  (`FetchRefused`). `torn` is a history of the installs whose binary was moved away by one process when
  the other had marked it or was about to. `Wipe`, `Links`, `Overlay`, `Seed`, `Seeded`, `PersistLink`
  build the tree, `tree` is what each path links to, `saved` what became of a persisted file (`Seed`
  creates it, `Seeded` completes it, `Edit` is the operator or the game); `Configure` reads and truncates
  the server config and `Run` writes it and starts the server. `start` and `command` are the two
  processes; `Publish`, `GoOffline`, `ChangeMods` the world.
- **MC modules.** `MCAutoPause` gives a `VIEW`: a variable the controller will write before it reads it
  is left out of the comparison of states at that point (`ctl` decides which), since no action and no
  property of the run reads it there. It is used for safety only. `MCPresence` lists three games,
  `MCBackupStore` one category and two rules, `MCInstall` two manifests, four settings and what each
  process asks for; the others declare symmetry sets.

### What the runs check

| Run | Instance | Shows |
|---|---|---|
| `pause` | one background thread, forced pauses and resumes; suspension, resume, controller, stream, roster and game may fail | both parts of the proofs' inductive invariant; no SIGINT to a stopped tree, no work on one, no leaked window; gate, marker, wake source and status agree; `QuietWindow` is implemented |
| `pause_live` | reset requests; suspension, rollback and marker may fail | packets and the disabled marker end a pause, windows and shutdowns end |
| `lifecycle` | three threads, one of which blocks; three faults, two starts | the PID file tells the truth, the first event decides but at two places, the exit backup is the right one and waits for the wrapper, every exit ends and every thread returns |
| `presence` | three players on a queue of two; two on a roster of one; Session blocks over their cap | names reach their own player through overflow, repeats, expiry and resets, an unnamed handle leaves, no machine is hidden, `Evidence` is implemented |
| `atomic_write` | three processes, two mortal, five inodes | readers see whole texts, writers never fail |
| `requests` | three commands, lives of two ticks | reports are true, no request acts twice, none is taken whose command had given up when the controller looked at the clock |
| `wine_tree` | the game and two services, three scans, two polls | what the calls return is true; every end but a suspension leaves all asked to run |
| `store` | an exit and a manual child, a prune and a restore, one file, two seconds, two versions of the world, one wait for the lock | who works holds the lock; writers keep their file, cut-off archives are explained, the exit backup is exact, archives survive, children end |
| `install` | two manifests of two depots, one persisted file, one mod, one fault, four settings; the latest is started, the older one may be installed beside it, by its ID or as a build | marked means that the binary is there, the tree is composed and edited files are kept, with the exceptions below; a server started again and again runs, unless it is stuck in one of three ways |

`pause_save`, `requests_refusal` and `wine_drift` are counterexamples, below.

Bounds. Each thread of the gate counts for one, so three (one that blocks) show every interaction
with the window and with the stop; that they exclude each other for any number is proved. Auto Pause has
one controller and one main thread whatever the constants; a worker more adds admissions only. The
faults of the controller are spread over two runs because the rollback's is a divergence of its own
(below). The tracker's bounds are each met with one handle more than the bound. Inodes are enough when
each writer has one open while the target and a stale temporary file hold others. A request can be
replaced before and after it is read, hence three commands, and a life of two ticks lets one expire before,
between and after the controller's look at the clock and its read. One scan more than the two that must agree
allows an unstable tree, one poll more a late signal. Two starts let a container find what a killed one
left, and three faults let a step of the exit fail after a wrapper died and a start raised. In the store,
two seconds give an older and a newer archive as well as two backups of one second, and two children
with a prune and a restore are every pair the lock and the directory can meet in; a category more only
repeats them, retention being per category. Two manifests are the one that is running and another; one
fault at any step is followed by starts without one, which `StartsAgain` is about; two depots allow a
download that is complete for the binary and not for the rest, and the one fault is also the kill that
leaves a file half replaced, or a config cut off. What is proved does not depend on these.

### Where the code and its specification differ

Three runs show it:

- `pause_save`: the last look at the save comes before the lock, the vetoes and the scan of the
  tree (up to seconds); a save that begins in between is frozen half-way.
- `requests_refusal`: the CLI exits with 0 on `pending`, which the controller writes before it
  decides; a refusal then goes unreported.
- `wine_drift`: `suspend_all()` looks outside its tree for stopped processes only. A service born
  between the last scan and the SIGSTOP of its parent keeps running, and the call succeeds. The
  check it does make can find nothing as long as only this program sends SIGSTOP: what a signal
  stopped was in the tree. TLC finds no state of `wine_tree` in which it fires.

The others are an exception in a property, an assumption of a run or a theorem, or outside the models.

Pause and control files:

- A rollback of `suspend_all()` that fails is ignored, and the controller says `active` over stopped
  processes: with `"rollback"` among the `Faults` of `pause`, `PauseIsConsistent` does not hold. The
  next pause or shutdown resumes them, a resume request is answered `applied` and does not.
- The wake event is consumed before `_resume()` is tried (autopause.py:274): if that fails, only a
  further packet, a request or the shutdown tries again. `WakeResumes` is checked without that fault.
- The temporary name of `_atomic_write()` holds the PID only, and after a join that timed out the main
  thread and the controller may write `status.json` together: with one name for all writers,
  `AtomicWrite` violates `ReadersSeeWhole`. That is why the theorems assume `DistinctNames`.
- `consume_request()` unlinks after reading, also when it found nothing: in `OperatorRequests` a
  request written in between is removed unread, and its command times out. `AtMostOnce` and
  `ReportIsTrue` hold all the same.
- Whether a request has expired is decided by the time at which the controller looked at the clock
  (autopause.py:279), before it reads the file. A command that gives up after that reports a timeout, and
  its request is acted on all the same: `GivenUpIsNotTaken` is about the commands that gave up before.
- Saves that keep changing while they settle restart the wait without a deadline (autopause.py:471).
  The window stays open as long; `SF(Settle)` excludes a game that saves without a pause.
- `stop()` closes the wake source from the main thread while the controller may be waiting on its
  socket (wake.py:267); what `select` then does is the operating system's matter and not in the model.

Lifecycle:

- A signal after the last look at the request and before the assignment is overwritten by the crash: in
  `_wait_for_exit()` (runtime.py:240 to 243), and in the except clause of `run()`, which reads the
  request, makes its own and assigns it (runtime.py:194 to 197). `FirstRequestStands` has these two
  exceptions; the exit then takes the backup and the exit code of a crash, or of a failed start.
- The exit waits for runuser, the wrapper. When the signal comes before wine has started the game,
  `signal_game()` finds none (server.py:131 to 136), the wrapper alone is signalled and killed
  (runtime.py:66 to 81), and a wine that lives on may still start the game, beside the exit backup. When
  `_stop_server()` raises, the exit goes on beside the server. `ExitBackup` has these exceptions, and the
  backup that `ExitBackupIsExact` of `BackupStore` is about is one whose game has ended.
- The PID file outlives a killed container, and the restore guard looks only whether it exists: it
  refuses until the next ordered exit. Before `write_pid()` the game may already run, and the guard
  lets a restore pass. `PidFileTells` is about what one life wrote.

Backups:

- A restore clears the saves item by item and then moves the new ones in; a failure in between removes
  what was extracted too (restore.py:114). The docstring calls it an atomic swap, a later requirement of
  `openspec/specs/backup-restore/spec.md` concedes that the saves may be modified in part. What
  holds is `ArchivesSurvive`: the archive is still there, and the command can be run again.
- The guard of a restore is read before the prompt and before the lock (commands/restore.py:102): a
  server that started meanwhile has its saves replaced under it. Only the exit backup is safe
  (`ExitBackupIsExact`), because it takes the lock after the server has ended, as long as it has.
- `prune` takes no lock and counts cut-off archives like whole ones: with "keep the last 1" it may
  keep a cut-off one and delete the last whole one. `ArchivesSurvive` has that exception.
- An archive that was cut off at the boundary of a member reads as complete, and is restored as such;
  `Readable` in `BackupStore` includes it.
- Two backups of a category in one second have one name (core.py:115): the second writes over the
  first. The names carry local time, so the hour that is repeated in autumn also repeats names.
- `BACKUP_KEEP_LAST` below -1 keeps none (retention.py:49), where the other rules read any negative number
  as "all". With -2 and no other rule, retention deletes even the archive that was just written. The
  assumption on `Config.last` excludes it.

Installation:

- A listing that is partial downloads fewer depots, and the tree is marked as installed all the same
  (flow.py:217). What `MarkerMeansPlayable` promises is the binary, as the code checks.
- The start and the `install` command share the directories without a lock. Each looks for the binary before
  it marks (flow.py:223 to 227), but the other's DepotDownloader may be replacing it: between the move to
  the staging directory and the new file (ContentDownloader.cs:1099 to 1103) there is none, and a kill
  there leaves it so. The install is then marked without a binary, every later start skips the download,
  and the server is started on a tree without it. `MarkerMeansPlayable` and `ComposedTree` have that
  exception (`torn`), which a forced download of an install that was killed between its marker and its
  `chmod` can meet too. With one process at a time, and none forced, the binary is there whenever the marker is.
- `FORCE_INSTALL` on a marked install fails every start: the marker was followed by `chmod -R a-w`
  (io.py:57), and DepotDownloader, which runs as the user `steam`, opens its `depot.config` in that
  directory for writing. `README.md:111` says 'Force re-download even if already installed'. `Workable`,
  the assumption of `StartsAgain`, excludes the setting.
- The server config is rewritten in place (config.py:356). One that a kill or a full disk cut off is not
  JSON, and ends every later start (config.py:208) until the operator removes it. In the same way a start
  with no config reads the example of the game (config.py:212), which may be incomplete in an install that was
  marked with its default depot in part. `StartsAgain` has both exceptions (`Stuck`).
- A VERSION that is not the latest, without credentials or a manifest file, asks for a QR code to be scanned:
  the download then needs a person. `Workable` excludes it.
- A persisted file whose seeding was cut off (mods.py:157) is kept by every later start, like one that was
  edited; `PersistKept` is about the latter.
- The listing's timeouts are not caught where its failures are (depotdownloader.py:62): the start ends.
- The latest manifest is recorded before it is downloaded, by a write that is not atomic
  (manifests.py:39). A later start without the network may rely on it and fail until it is back.

Scheduling (not modelled): a slot of `*/n` less than a minute away is taken late (scheduling.py:40).

### Fairness

- The controller and the main thread are weakly fair: they are threads that only wait with a
  timeout or for a lock whose holder moves on.
- `SF(Settle /\ ctl' = "arm")`: the game saves every few minutes and a save settles in seconds, so a
  controller that keeps looking meets a settled save. A game that saves without a pause is excluded.
- `Lifecycle`: the main thread, which waits with timeouts only and kills what does not end; a thread's
  unit of work ends, and a thread whose loop may end ends (the steps of `Background` that finish or
  leave). Nothing is assumed of the game, the wrapper or the signals.
- The tracker: time passes, and the reporter and the controller call `expire()` periodically.
- `BackupStore`: a child's process is scheduled (`WF(ChildStep(c))`). The others are not fair: a restore
  may hold the lock for ever, which is what `ChildrenEnd` is about.
- `Install`: a container that ended is started again (its restart policy), what it does goes on, a server
  that was started on a tree without its binary ends, and the network comes back in the end. Failures need
  no fairness: they are bounded.
- The faults, the operator, the game and packets are never fair.

## The proofs

TLAPS checks these for every value of the constants that satisfies the named assumptions.

- **`AutoPauseProofs`** (finitely many threads, any faults and requests): `TypeOK`, `IInv`,
  `AwakeAtSigint`, `FrozenHasNoWork`, `NoLeakedWindow`, `PauseIsConsistent`, and that `AutoPause`
  implements `QuietWindow`. The inductive invariant `IInv` has two parts, and one lemma per group of
  actions for each.

  `LockInv` says who holds the lock, what the latch forbids and where the controller may be while the tree
  is stopped. The core is `LatchStopsSuspension`: the latch is set under the lock, and `FinalCheck`
  reads it under the lock, so after it no suspension begins; with `StoppedIsPaused` and
  `AttemptIsAwake` that is enough for a main thread whose join timed out. `WindowIsHeld` and
  `StoppedIsGuarded` carry the quiet window, with "or latched" where the shutdown has sealed the gate:
  the finally clause can read a `_state` the main thread has overwritten and open the gate on a stopped
  tree, harmless only because nothing is admitted after the stop event.

  `PausedInv` says what `PauseIsConsistent` says at the four points of the loop for every point of the
  controller: what state it has there (`PauseIsKnown`), that a wake source armed for an attempt stays armed
  to its end (`ArmedToPause`), that a pause holds its window, tree and source until its own resume
  (`PauseIsHeld`), and which handlers may leave a marker or a stopped process behind (`MarkerTells`,
  `FrozenIsPaused`). A controller that disabled itself needs a conjunct of its own (`RunDisabledIsOver`): it
  keeps handling requests, and must not meet a pause again. `NoLeakedWindow` then holds whatever fails.
  `PauseIsConsistent` is proved for every set of faults without `"files"` and `"rollback"`: a paused marker
  that cannot be removed outlives its pause, and a suspension that cannot be undone leaves stopped
  processes behind an active controller. Both are what the code does, and the run leaves both out. What the
  property says of a paused controller (its tree, window and source) needs neither assumption.
- **`PresenceProofs`** (any handles, machines, caps, timeouts and games): `TypeOK`, the caps (`Capped`),
  `PairingSound`, `NamesFollowLogins`, `SessionHidesNobody`, `NamedStay`, and that `Presence` implements
  `Evidence`. The first part is about sequences: `Without` keeps the order, the members and the injectivity
  of what stays, in every combination with `Append`, `SubSeq` and `Head` the tracker uses, by counting
  positions (`RankType`, `RankGrows`). The invariant `IInv` is a conjunction over the three records:
  `Sound(players)` is the roster, the caps and the queue, one lemma per method (`AddSound`, `AttachSound`,
  `ForgetSound`, ...) since every line is a composition of them behind an expiry; `BlockSound` says that an
  open block that nothing has marked as malformed has exactly the rows the game listed since its first line,
  which a row beyond the cap would break without the mark; `Ordered` that, while the log is orderly, the
  queue is the logins that wait, in their order, and every name is its handle's. For the refinement, a degraded tracker must count as present
  (`FullMeansPresent`): the roster is full while it lasts, so a cap of at least one has somebody in it.
- **`AtomicWriteProofs`** (`DistinctNames`: no two writers share a temporary name, as separate
  processes in one PID namespace): `ReadersSeeWhole`, `NobodyRaises`. The invariant: whoever is
  past `Open` owns the inode its name refers to, and the target's inode is nobody's.
- **`OperatorRequestsProofs`** (the time to live is at most the timeout, both are 5 s in the code):
  `ReportIsTrue`, `AtMostOnce`, `GivenUpIsNotTaken`. A request that reached its limit when the controller
  looked at the clock is not taken; one that was a tick younger is acted on although its command reports
  a timeout before the action comes. The invariant relates a command's wait to the age of its request,
  and the answers to the history.
- **`WineTreeProofs`** (any set of services, any number of attempts): `TypeOK`, `SuspendedIsStopped`,
  `AskedToRun`, `NobodyLeftStopped`, `GameFirst`. The invariant says, at each point of the call, where
  a live process that was asked to stop can be found (`StopsKnown`): a rollback scans anew, so what it
  must reach is first "anywhere", then in the list or already read, then still to be signalled.
- **`LifecycleProofs`** (any finite set of threads, any settings, any number of faults and starts). First
  the gate by itself: `TypeOK`, `CountsHolders`, `QuietExcludesWork` of `PauseGate`, from the invariant
  that `active` is the number of threads at work; the lemmas say how a cardinality moves with an
  admission and a release. Then the container: the types, `PidFileTells`, `FirstRequestStands`,
  `ExitBackup`, and that the gate excludes work from the window in this composition too, where a kill
  takes every thread out of the gate. `LifeInv` says what a point of the exit implies: from `_finish()`
  on the request exists and is the one worked on, from the backup on the wrapper is gone unless the stop
  failed, a game that runs then without its wrapper took a fault or was not there to be signalled, and
  the PID file that was written is there.
- **`BackupStoreProofs`** (any files, categories, children and calendar, any setting with
  `BACKUP_KEEP_LAST` at least -1): the types, `HoldersHaveTheLock`, `WriterKeepsItsFile`,
  `PartialIsExplained`, `ExitBackupIsExact`, `ArchivesSurvive`. The lemma about retention is
  `DoomedHasNewer`: whatever the rules, the buckets and their counts, what is deleted has a newer backup,
  since each rule that is on keeps the newest. The clock does not go back, so an archive that is being
  written is the newest of its category (`WriterIsNewest`), and what a retention decided on earlier stays
  older than something (`DoomedAreOld`): a list that is stale when it is used deletes nothing that
  matters. The lock gives one writer, and the exit backup begins when the game has ended and copies
  saves that nobody else can change.
- **`InstallProofs`** (any manifests, depots, paths, settings; the binary is no persisted file, the
  config is none of the game's paths): the types, `MarkerMeansPlayable`, `ComposedTree`, `PersistKept`.
  The invariant says at each point of a process what it knows of its install: who is about to mark one
  has just seen its binary, or the install is torn (`Markable`); who builds a tree has a marked one
  (`Startable`); a process that moves the binary of an install away either tears it or does it before
  anybody else has looked for it. `Linked` is what each stage has linked so far, whatever the wipe left
  over, `Seeding` that a file being seeded is not one that was edited.

Every invariant and every action property of the passing runs is proved, under the assumptions named above.
Model-checked only is everything
about liveness, which is out of the prover's reach: `WakeResumes`, `ShutdownEnds`, `WindowEnds`,
`DisableResumes`, `ExitEnds`, `BackgroundEnds`, `UnnamedLeaves`, `ChildrenEnd`, `StartsAgain`. The refinements
are proved for what their abstract specifications say, which is safety.

## What is left out

Of what is modelled:

- Auto Pause: disabled by configuration, or without a query endpoint: the controller is not built or
  refuses every pause. The idle clock and the answers of A2S are choices; the main thread's write of
  `status.json` between two assignments of `_handle_request()`, which needs an attempt that outlasts
  the join, and a failing unlink of the request file.
- Wine tree: PIDs reused within a call, and processes that other programs stop.
- Lifecycle: exit codes, the order in which threads are started, and the frozen tree, of which only
  the quiet window is there (`AutoPause` has the rest).
- Backups: which compressor runs, `verify` (it reads and prints), the dry run, the selection in the
  restore's text interface, the check of an archive's members, the space guard's numbers (a choice).
- Installation: a `make_readonly()` that fails, directories and nested paths among the persisted
  files, the DLL overrides, what a manifest, a key file or the server config contains; of DepotDownloader
  its protocol with Steam and the files other than the binary one by one.

Not modelled, and why:

- The wake sources' packet and queue halves (which one is armed, its fallback, a queue that shrinks and
  grows below its baseline, wake.py:187): the frame classification is byte parsing, and the queue a
  number of the kernel that is compared once; `AutoPause` has one source that is closed, armed or hit.
- `parse_cron()` and what the configuration says (`config.py`, `settings.py`): values read once at the
  start; unit tests reach all of it. The file the server config is written to is in `Install`.
- The game-log tail: it prints; and the log's text, of which `Presence` has the classes.
- Wine, Steam and ManifestHub: other programs, present as what `enshctl` sees of them.
- `AutoPause` with `Presence` as one system, which a reset request between the look at the roster and
  `tracker.reset()` (autopause.py:298) would take: together they exceed what TLC explores. `Presence`
  implements `Evidence`, which `AutoPause` is built on, so each is checked against the same interface;
  a join in those microseconds is then forgotten with the reset until the player's next line.
- `AutoPause` with `WineTree` and with `OperatorRequests`: the outcomes that the detailed modules show are
  the ones `AutoPause` chooses from.
- The container image and its deployment files.
