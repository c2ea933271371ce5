---------------------------- MODULE BackupStore -----------------------------
(***************************************************************************)
(* The backup directory and the saves, and the processes that share them:  *)
(* the backup children (enshctl/backup/run.py, backup/core.py), the prune  *)
(* command (commands/prune.py, retention.py), the restore command          *)
(* (commands/restore.py, restore.py) and the game server, whose PID file   *)
(* the restore looks at.  The lock file is held by the children and by the *)
(* restore, and by nobody who prunes by hand.                              *)
(*                                                                         *)
(* A backup is named by its category and the second it was started in; its *)
(* archive is cut off ("partial") until its writer closes it.              *)
(***************************************************************************)
EXTENDS Retention, Sequences

CONSTANTS Files,      (* the save files                                     *)
          Categories, (* CATEGORIES: some of live, cold and emergency, in   *)
                      (* the order they are gone through                    *)
          Children,   (* the backup children there may be at once: some of  *)
                      (* "scheduled", "exit" and "manual"                   *)
          Config,     (* the BACKUP_KEEP_* settings                         *)
          WaitPolls,  (* attempts of a child that waits for the lock        *)
          MaxTime,    (* bound: seconds of the clock                        *)
          MaxWorld    (* bound: saves the game makes                        *)

Category == {Categories[i] : i \in DOMAIN Categories}

ASSUME StoreAssumption ==
  /\ Categories \in Seq({"live", "cold", "emergency"}) /\ Categories # <<>>
  /\ Children \subseteq {"scheduled", "exit", "manual"}
  /\ Config \in Configs /\ Config.last >= -1
  /\ WaitPolls \in Nat /\ MaxTime \in Nat /\ MaxWorld \in Nat

Time == 0 .. MaxTime
Procs == Children \cup {"prune", "restore"}

Gone == -1
Contents == [Files -> Gone .. MaxWorld]
Nothing == [f \in Files |-> Gone]

Archives == [state : {"absent", "partial", "whole"}, data : Contents]
Absent == [state |-> "absent", data |-> Nothing]
Opened == [state |-> "partial", data |-> Nothing]

VARIABLES
  now,        (* the second the local clock shows; it does not go back      *)
  game,       (* "down", "launched" before its PID file, "up", "ended", and *)
              (* "closing" from the exit backup on                          *)
  world,      (* the save the game made last, or is making                  *)
  saves,      (* the saves directory: the save each file is of              *)
  store,      (* the backup directory                                       *)
  lock,       (* who holds the lock file, or "free"                         *)
  proc,       (* the processes: where each is, the category and the time of *)
              (* its archive, the attempts it has left, the files it has to *)
              (* add or clear, what its retention is about to unlink, and   *)
              (* the categories a prune has not looked at                   *)
  tmp,        (* the restore's temporary directory                          *)
  left        (* partial archives whose writer died or could not unlink it  *)

vars == <<now, game, world, saves, store, lock, proc, tmp, left>>

Idle == [pc |-> "idle", cat |-> Head(Categories), at |-> 0, polls |-> 0, todo |-> {},
         doomed |-> {}, queue |-> <<>>]

At(p, loc) == proc[p].pc = loc
Goto(p, loc) == proc' = [proc EXCEPT ![p].pc = loc]

Present(k) == {t \in Time : store[k][t].state # "absent"}
HasWhole(k) == \E t \in Time : store[k][t].state = "whole"
PidFile == game \in {"up", "ended", "closing"}

Init ==
  /\ now = 0 /\ game = "down" /\ world = 0
  /\ saves = [f \in Files |-> 0]
  /\ store = [k \in Category |-> [t \in Time |-> Absent]]
  /\ lock = "free"
  /\ proc = [p \in Procs |-> Idle]
  /\ tmp = Nothing
  /\ left = {}

-----------------------------------------------------------------------------
(* The server, as its saves and its PID file show it, and the clock. *)

Tick ==
  /\ now < MaxTime
  /\ now' = now + 1
  /\ UNCHANGED <<game, world, saves, lock, proc, tmp, store, left>>

GameGoes(from, to) ==
  /\ game = from
  /\ game' = to
  /\ UNCHANGED <<now, world, saves, lock, proc, tmp, store, left>>

StartGame == GameGoes("down", "launched")
WritePid == GameGoes("launched", "up")
GameEnds == GameGoes("up", "ended")

\* The exit without a backup, or after it.
ClearPid ==
  /\ "exit" \in Children => At("exit", "idle")
  /\ GameGoes("ended", "down") \/ GameGoes("closing", "down")

\* The game begins a save, and writes its files one by one.
BeginSave ==
  /\ game \in {"launched", "up"}
  /\ world < MaxWorld
  /\ world' = world + 1
  /\ UNCHANGED <<now, game, saves, lock, proc, tmp, store, left>>

WriteSave(f) ==
  /\ game \in {"launched", "up"}
  /\ saves[f] # world
  /\ saves' = [saves EXCEPT ![f] = world]
  /\ UNCHANGED <<now, game, world, lock, proc, tmp, store, left>>

-----------------------------------------------------------------------------
(* A backup child. *)

\* The category of its trigger (a manual backup names its own), and whether
\* it may wait for the lock.
Requests(c) ==
  CASE c = "scheduled" -> (Category \cap {"live"}) \X {FALSE}
    [] c = "exit" -> (Category \cap {"cold", "emergency"}) \X {TRUE}
    [] c = "manual" -> Category \X BOOLEAN

Spawn(c, k, wait) ==
  /\ At(c, "idle")
  /\ <<k, wait>> \in Requests(c)
  /\ c = "scheduled" => game = "up"
  /\ c = "exit" => game = "ended"
  /\ game' = IF c = "exit" THEN "closing" ELSE game
  /\ proc' = [proc EXCEPT ![c] =
       [Idle EXCEPT !.pc = "lock", !.cat = k, !.polls = IF wait THEN WaitPolls ELSE 0]]
  /\ UNCHANGED <<now, world, saves, lock, tmp, store, left>>

Release(p) ==
  /\ lock' = "free"
  /\ proc' = [proc EXCEPT ![p] = Idle]

\* Mutant: the child goes on without the lock.
LockIgnored(c) ==
  /\ At(c, "lock")
  /\ lock' = IF lock = "free" THEN c ELSE lock
  /\ Goto(c, "plan")
  /\ UNCHANGED <<now, game, world, saves, tmp, store, left>>

\* acquire_lock(blocking=False) succeeds, at once or at a later attempt.
Lock(c) ==
  /\ At(c, "lock")
  /\ lock = "free"
  /\ lock' = c
  /\ Goto(c, "plan")
  /\ UNCHANGED <<now, game, world, saves, tmp, store, left>>

\* Mutant: the attempts are not counted.
PollForEver(c) ==
  /\ At(c, "lock")
  /\ lock # "free"
  /\ proc[c].polls = 0
  /\ proc' = [proc EXCEPT ![c] = Idle]
  /\ UNCHANGED <<now, game, world, saves, lock, tmp, store, left>>

\* It fails: one attempt less, and without any left the child ends LOCK_HELD.
Poll(c) ==
  /\ At(c, "lock")
  /\ lock # "free"
  /\ proc' = [proc EXCEPT ![c] =
       IF @.polls = 0 THEN Idle ELSE [@ EXCEPT !.polls = proc[c].polls - 1]]
  /\ UNCHANGED <<now, game, world, saves, lock, tmp, store, left>>

\* No save, a full disk or a directory that cannot be made: no archive, and
\* no retention.
Skip(c) ==
  /\ At(c, "plan")
  /\ Release(c)
  /\ UNCHANGED <<now, game, world, saves, tmp, store, left>>

\* backup_needed().
Needed == saves # Nothing

\* compress() opens the archive of this second, over one that has the name.
Begin(c) ==
  /\ At(c, "plan")
  /\ Needed
  /\ store' = [store EXCEPT ![proc[c].cat][now] = Opened]
  /\ left' = left \ {<<proc[c].cat, now>>}
  /\ proc' = [proc EXCEPT ![c].pc = "copy", ![c].at = now,
                          ![c].todo = {f \in Files : saves[f] # Gone}]
  /\ UNCHANGED <<now, game, world, saves, lock, tmp>>

\* One file is read as it is, and added to the archive.
Add(c, f) ==
  /\ At(c, "copy")
  /\ f \in proc[c].todo
  /\ saves[f] # Gone
  /\ store' = [store EXCEPT ![proc[c].cat][proc[c].at].data[f] = saves[f]]
  /\ proc' = [proc EXCEPT ![c].todo = @ \ {f}]
  /\ UNCHANGED <<now, game, world, saves, lock, tmp, left>>

\* The archive is closed.
Finish(c) ==
  /\ At(c, "copy")
  /\ proc[c].todo = {}
  /\ store' = [store EXCEPT ![proc[c].cat][proc[c].at].state = "whole"]
  /\ Goto(c, "retain")
  /\ UNCHANGED <<now, game, world, saves, lock, tmp, left>>

\* Mutants: an error that is no archive error leaves the file behind, and one
\* that is lets retention run.
FailUncleaned(c) ==
  /\ At(c, "copy")
  /\ Release(c)
  /\ UNCHANGED <<now, game, world, saves, tmp, store, left>>

FailThenRetain(c) ==
  /\ At(c, "copy")
  /\ left' = left \cup {<<proc[c].cat, proc[c].at>>}
  /\ Goto(c, "retain")
  /\ UNCHANGED <<now, game, world, saves, store, lock, tmp>>

\* It cannot be: the finally clause unlinks it, and ignores that it cannot.
Fail(c) ==
  /\ At(c, "copy")
  /\ \/ /\ store' = [store EXCEPT ![proc[c].cat][proc[c].at] = Absent]
        /\ UNCHANGED left
     \/ /\ left' = left \cup {<<proc[c].cat, proc[c].at>>}
        /\ UNCHANGED store
  /\ Release(c)
  /\ UNCHANGED <<now, game, world, saves, tmp>>

-----------------------------------------------------------------------------
(* Retention, by the child that holds the lock and by a prune that does not. *)

\* prune_category() lists the category, whatever its archives are worth.
Scan(p) ==
  /\ At(p, "retain")
  /\ proc' = [proc EXCEPT ![p].pc = "unlink", ![p].doomed = Doomed(Present(proc[p].cat), Config)]
  /\ UNCHANGED <<now, game, world, saves, lock, tmp, store, left>>

\* A file that another retention unlinks while it is listed is an error.
ScanFails(p) ==
  /\ At(p, "retain")
  /\ \E q \in Procs \ {p} : proc[q].cat = proc[p].cat /\ proc[q].doomed # {}
  /\ proc' = [proc EXCEPT ![p] = Idle]
  /\ lock' = IF lock = p THEN "free" ELSE lock
  /\ UNCHANGED <<now, game, world, saves, tmp, store, left>>

\* path.unlink(), newest first; that it fails is logged.
Unlink(p, t) ==
  /\ At(p, "unlink")
  /\ t \in proc[p].doomed /\ Newer(proc[p].doomed, t) = {}
  /\ \/ /\ store' = [store EXCEPT ![proc[p].cat][t] = Absent]
        /\ left' = left \ {<<proc[p].cat, t>>}
     \/ UNCHANGED <<store, left>>
  /\ proc' = [proc EXCEPT ![p].doomed = @ \ {t}]
  /\ UNCHANGED <<now, game, world, saves, lock, tmp>>

\* The child releases the lock, in a finally clause.
ChildEnds(c) ==
  /\ At(c, "unlink")
  /\ proc[c].doomed = {}
  /\ Release(c)
  /\ UNCHANGED <<now, game, world, saves, tmp, store, left>>

\* enforce() goes through the categories.
PruneBegins ==
  /\ At("prune", "idle")
  /\ proc' = [proc EXCEPT !["prune"] =
       [Idle EXCEPT !.pc = "retain", !.cat = Head(Categories), !.queue = Tail(Categories)]]
  /\ UNCHANGED <<now, game, world, saves, lock, tmp, store, left>>

PruneGoesOn ==
  LET queue == proc["prune"].queue
  IN /\ At("prune", "unlink")
     /\ proc["prune"].doomed = {}
     /\ proc' = [proc EXCEPT !["prune"] =
          IF queue = <<>> THEN Idle
          ELSE [Idle EXCEPT !.pc = "retain", !.cat = Head(queue), !.queue = Tail(queue)]]
     /\ UNCHANGED <<now, game, world, saves, lock, tmp, store, left>>

-----------------------------------------------------------------------------
(* The restore command. *)

\* A backup is selected, and the PID file looked for, before the prompt.
Select(k, t) ==
  /\ At("restore", "idle")
  /\ t \in Present(k)
  /\ ~PidFile
  /\ proc' = [proc EXCEPT !["restore"] = [Idle EXCEPT !.pc = "confirm", !.cat = k, !.at = t]]
  /\ UNCHANGED <<now, game, world, saves, lock, tmp, store, left>>

\* Declined, the file is gone, or the lock is held.
Cancel ==
  /\ At("restore", "confirm")
  /\ proc' = [proc EXCEPT !["restore"] = Idle]
  /\ UNCHANGED <<now, game, world, saves, lock, tmp, store, left>>

\* Mutant: the restore does not take the lock.
ConfirmUnlocked ==
  /\ At("restore", "confirm")
  /\ proc["restore"].at \in Present(proc["restore"].cat)
  /\ lock' = IF lock = "free" THEN "restore" ELSE lock
  /\ Goto("restore", "prepare")
  /\ UNCHANGED <<now, game, world, saves, tmp, store, left>>

\* Confirmed, and the lock is free.
Confirm ==
  /\ At("restore", "confirm")
  /\ proc["restore"].at \in Present(proc["restore"].cat)
  /\ lock = "free"
  /\ lock' = "restore"
  /\ Goto("restore", "prepare")
  /\ UNCHANGED <<now, game, world, saves, tmp, store, left>>

Prepare ==
  /\ At("restore", "prepare")
  /\ tmp' = Nothing
  /\ Goto("restore", "extract")
  /\ UNCHANGED <<now, game, world, saves, lock, store, left>>

\* What decompress() reads: an archive cut off at the head of a member reads
\* like one that ends there.
Readable(a) == {a.data : state \in {a.state} \ {"absent"}}

\* The archive is extracted and the space suffices.
Extract ==
  LET source == store[proc["restore"].cat][proc["restore"].at]
  IN /\ At("restore", "extract")
     /\ tmp' \in Readable(source)
     /\ proc' = [proc EXCEPT !["restore"].pc = "clear",
                             !["restore"].todo = {f \in Files : saves[f] # Gone}]
     /\ UNCHANGED <<now, game, world, saves, lock, store, left>>

Clear(f) ==
  /\ At("restore", "clear")
  /\ f \in proc["restore"].todo
  /\ saves' = [saves EXCEPT ![f] = Gone]
  /\ proc' = [proc EXCEPT !["restore"].todo = @ \ {f}]
  /\ UNCHANGED <<now, game, world, lock, tmp, store, left>>

\* shutil.move(), file by file, once the directory is cleared.
Move(f) ==
  /\ At("restore", "clear")
  /\ proc["restore"].todo = {}
  /\ tmp[f] # Gone
  /\ saves' = [saves EXCEPT ![f] = tmp[f]]
  /\ tmp' = [tmp EXCEPT ![f] = Gone]
  /\ UNCHANGED <<now, game, world, lock, proc, store, left>>

\* The end, and every error after the lock: the temporary directory goes.
RestoreEnds ==
  /\ proc["restore"].pc \in {"prepare", "extract", "clear"}
  /\ tmp' = Nothing
  /\ Release("restore")
  /\ UNCHANGED <<now, game, world, saves, store, left>>

-----------------------------------------------------------------------------
\* A process is killed: the kernel releases its lock, and its files stay.
Kill(p) ==
  /\ ~At(p, "idle")
  /\ lock' = IF lock = p THEN "free" ELSE lock
  /\ left' = IF At(p, "copy") THEN left \cup {<<proc[p].cat, proc[p].at>>} ELSE left
  /\ proc' = [proc EXCEPT ![p] = Idle]
  /\ UNCHANGED <<now, game, world, saves, store, tmp>>

ChildStep(c) ==
  \/ Lock(c) \/ Poll(c) \/ Skip(c) \/ Begin(c) \/ Finish(c) \/ Fail(c)
  \/ \E f \in Files : Add(c, f)
  \/ Scan(c) \/ ScanFails(c) \/ ChildEnds(c)
  \/ \E t \in Time : Unlink(c, t)

Server ==
  \/ StartGame \/ WritePid \/ GameEnds \/ ClearPid \/ BeginSave
  \/ \E f \in Files : WriteSave(f)

Prune ==
  \/ PruneBegins \/ PruneGoesOn \/ Scan("prune") \/ ScanFails("prune")
  \/ \E t \in Time : Unlink("prune", t)

Restore ==
  \/ \E k \in Category, t \in Time : Select(k, t)
  \/ Cancel \/ Confirm \/ Prepare \/ Extract \/ RestoreEnds
  \/ \E f \in Files : Clear(f) \/ Move(f)

Next ==
  \/ Tick \/ Server \/ Prune \/ Restore
  \/ \E c \in Children :
       ChildStep(c) \/ \E k \in Category, wait \in BOOLEAN : Spawn(c, k, wait)
  \/ \E p \in Procs : Kill(p)

Spec == Init /\ [][Next]_vars

\* A child's process is scheduled; nothing is assumed of the others.
Fairness == \A c \in Children : WF_vars(ChildStep(c))

FairSpec == Spec /\ Fairness

-----------------------------------------------------------------------------
(* What a run may rely on. *)

Locs == {"idle", "lock", "plan", "copy", "retain", "unlink", "confirm", "prepare",
         "extract", "clear"}

TypeOK ==
  /\ now \in Time /\ world \in 0 .. MaxWorld
  /\ game \in {"down", "launched", "up", "ended", "closing"}
  /\ saves \in Contents /\ tmp \in Contents
  /\ store \in [Category -> [Time -> Archives]]
  /\ lock \in Procs \cup {"free"}
  /\ \A p \in Procs :
       /\ proc[p].pc \in Locs /\ proc[p].cat \in Category /\ proc[p].at \in Time
       /\ proc[p].polls \in 0 .. WaitPolls
       /\ proc[p].todo \subseteq Files /\ proc[p].doomed \subseteq Time
  /\ left \subseteq Category \X Time

\* Whoever writes an archive, prunes after one or swaps the saves holds the
\* lock, through failures, kills and waits.
Holding(p) ==
  \/ p \in Children /\ proc[p].pc \in {"plan", "copy", "retain", "unlink"}
  \/ p = "restore" /\ proc[p].pc \in {"prepare", "extract", "clear"}

HoldersHaveTheLock == \A p \in Procs : Holding(p) <=> lock = p

\* The archive a child is writing is there until it is done: neither its own
\* failures nor the retention of another process takes its file away.
WriterKeepsItsFile ==
  \A c \in Children : At(c, "copy") => proc[c].at \in Present(proc[c].cat)

\* A cut-off archive in the directory is being written, or was left by a child
\* that was killed or could not unlink it (the finally clause of
\* create_backup()); no other path of an error leaves one.
PartialIsExplained ==
  \A k \in Category, t \in Time : store[k][t].state = "partial" =>
    \/ <<k, t>> \in left
    \/ \E c \in Children : At(c, "copy") /\ proc[c].cat = k /\ proc[c].at = t

\* The backup of an ordered exit is the world as the game left it: the game has
\* ended, and a restore that passed its guard before the start is kept out.
ExitBackupIsExact ==
  "exit" \in Children =>
    (At("exit", "retain") =>
       store[proc["exit"].cat][proc["exit"].at] = [state |-> "whole", data |-> saves])

\* No archive that matters goes, unless the prune command (which takes no lock,
\* and may count cut-off archives or one that is being written) removes it, or a
\* second backup of one second is written over it: a category that has a whole
\* archive keeps one, and a restore at work keeps its source, so that a swap that
\* fails can be repeated.
PruneRemoves(k) ==
  At("prune", "unlink") /\ proc["prune"].cat = k /\ proc'["prune"] # proc["prune"]
Overwrites(k) ==
  \E c \in Children : /\ At(c, "plan") /\ proc[c].cat = k /\ now \in Present(k)
                       /\ proc'[c].pc = "copy"
Source(k, t) == Holding("restore") /\ proc["restore"].cat = k /\ proc["restore"].at = t
ArchivesSurvive ==
  [][\A k \in Category :
       /\ HasWhole(k) /\ ~HasWhole(k)' => PruneRemoves(k) \/ Overwrites(k)
       /\ \A t \in Present(k) : Source(k, t) /\ store'[k][t] # store[k][t] => PruneRemoves(k)]_vars

\* A child always ends, whoever holds the lock and for how long: an exit is
\* not held up by a restore that hangs.
ChildrenEnd == \A c \in Children : ~At(c, "idle") ~> At(c, "idle")
=============================================================================
