------------------------- MODULE BackupStoreProofs --------------------------
(* What the backup directory, the lock and the saves are to each other, for *)
(* every set of children, categories and files and every setting of         *)
(* retention that the settings mean.                                        *)
EXTENDS BackupStore, FiniteSetTheorems, TLAPS

-----------------------------------------------------------------------------
(* Retention. *)

\* Retention never deletes the newest backup: each rule that is on keeps it.
LEMMA DoomedHasNewer ==
  ASSUME NEW S, S \subseteq Int, NEW d \in Doomed(S, Config)
  PROVE  \E u \in S : u > d
<1> SUFFICES ASSUME Newer(S, d) = {} PROVE FALSE
  BY DEF Newer
<1>1. Config \in Configs /\ Config.last \in Int /\ Config.last >= -1
  BY StoreAssumption DEF Configs
<1>2. PICK r \in Rules \cup {"last"} : Config[r] # 0
  BY DEF Doomed, Configured
<1>3. d \in S /\ d \notin Kept(S, Config)
  BY <1>2 DEF Doomed, Configured
<1>4. CASE r = "last"
  <2>1. Cardinality(Newer(S, d)) = 0
    BY FS_EmptySet
  <2>2. d \in KeepLast(S, Config.last)
    BY <1>1, <1>2, <1>3, <1>4, <2>1 DEF KeepLast, Newest
  <2> QED BY <1>3, <2>2 DEF Kept
<1>5. CASE r \in Rules
  <2>1. d \in Heads(S, r)
    BY <1>3 DEF Heads
  <2>2. Newer(Heads(S, r), d) = {}
    BY DEF Heads, Newer
  <2>3. Cardinality(Newer(Heads(S, r), d)) = 0
    BY <2>2, FS_EmptySet
  <2>4. Config[r] \in Int
    BY <1>1 DEF Configs
  <2>5. d \in KeepBucket(S, r, Config[r])
    BY <1>2, <2>1, <2>3, <2>4 DEF KeepBucket, Newest
  <2> QED BY <1>3, <1>5, <2>5 DEF Kept
<1> QED BY <1>2, <1>4, <1>5

-----------------------------------------------------------------------------
(* The inductive invariant, in parts. *)

Process == [pc : Locs, cat : Category, at : Time, polls : 0 .. WaitPolls,
            todo : SUBSET Files, doomed : SUBSET Time, queue : Seq(Category)]

ProcTypes == proc \in [Procs -> Process] /\ lock \in Procs \cup {"free"}

DataTypes ==
  /\ now \in Time /\ world \in 0 .. MaxWorld
  /\ saves \in Contents /\ tmp \in Contents
  /\ store \in [Category -> [Time -> Archives]]
  /\ left \subseteq Category \X Time

GameTypes == game \in {"down", "launched", "up", "ended", "closing"}

Types == ProcTypes /\ DataTypes /\ GameTypes

LEMMA Constants ==
  /\ Head(Categories) \in Category /\ Tail(Categories) \in Seq(Category)
  /\ Nothing \in Contents /\ "free" \notin Procs /\ Children \subseteq Procs
  /\ Time \subseteq Nat /\ 0 \in Time /\ Idle \in Process /\ WaitPolls \in Nat
<1>1. Categories \in Seq(Category) /\ Categories # <<>>
  BY StoreAssumption DEF Category
<1>2. Nothing \in Contents
  BY StoreAssumption DEF Nothing, Contents, Gone
<1>3. "free" \notin Procs /\ Children \subseteq Procs
  BY StoreAssumption DEF Procs
<1>4. Time \subseteq Nat /\ 0 \in Time /\ WaitPolls \in Nat
  BY StoreAssumption DEF Time
<1>5. Head(Categories) \in Category /\ Tail(Categories) \in Seq(Category)
  BY <1>1
<1>6. Idle \in Process
  BY <1>4, <1>5 DEF Idle, Process, Locs
<1> QED BY <1>2, <1>3, <1>4, <1>5, <1>6

LEMMA TimesAreInts == \A t \in Time : t \in Int
  BY StoreAssumption DEF Time

LEMMA GotoTypes ==
  ASSUME ProcTypes, NEW p \in Procs, NEW loc \in Locs, Goto(p, loc)
  PROVE  proc' \in [Procs -> Process]
<1>1. [proc[p] EXCEPT !.pc = loc] \in Process
  BY DEF ProcTypes, Process
<1> QED BY <1>1 DEF Goto, ProcTypes

LEMMA ProcTypesStep ==
  ASSUME ProcTypes, DataTypes, [Next]_vars
  PROVE  ProcTypes'
<1> USE Constants DEF ProcTypes, At, Release
<1>1. ASSUME NEW c \in Children, Lock(c) \/ Finish(c)
      PROVE  ProcTypes'
  <2>1. Goto(c, "plan") \/ Goto(c, "retain")
    BY <1>1 DEF Lock, Finish
  <2>2. proc' \in [Procs -> Process]
    BY <2>1, GotoTypes DEF Locs
  <2> QED BY <1>1, <2>2 DEF Lock, Finish
<1>2. ASSUME NEW c \in Children, Poll(c)
      PROVE  ProcTypes'
  <2>1. proc[c].polls # 0 => [proc[c] EXCEPT !.polls = proc[c].polls - 1] \in Process
    <3>1. proc[c] \in Process /\ proc[c].polls \in 0 .. WaitPolls
      BY DEF Process
    <3>2. proc[c].polls # 0 => proc[c].polls - 1 \in 0 .. WaitPolls
      BY <3>1
    <3> QED BY <3>1, <3>2 DEF Process
  <2> QED BY <1>2, <2>1 DEF Poll
<1>3. ASSUME NEW c \in Children, Skip(c) \/ Fail(c) \/ ChildEnds(c)
      PROVE  ProcTypes'
  BY <1>3 DEF Skip, Fail, ChildEnds
<1>4. ASSUME NEW c \in Children, Begin(c)
      PROVE  ProcTypes'
  BY <1>4 DEF Begin, Process, Locs, DataTypes
<1>5. ASSUME NEW c \in Children, NEW g \in Files, Add(c, g)
      PROVE  ProcTypes'
  BY <1>5 DEF Add, Process
<1>6. ASSUME NEW c \in Children, NEW k \in Category, NEW wait \in BOOLEAN, Spawn(c, k, wait)
      PROVE  ProcTypes'
  <2>1. (IF wait THEN WaitPolls ELSE 0) \in 0 .. WaitPolls
    OBVIOUS
  <2>2. [Idle EXCEPT !.pc = "lock", !.cat = k, !.polls = IF wait THEN WaitPolls ELSE 0] \in Process
    BY <2>1 DEF Process, Locs
  <2> QED BY <1>6, <2>2 DEF Spawn
<1>7. ASSUME NEW p \in Procs, Scan(p)
      PROVE  ProcTypes'
  <2>1. Doomed(Present(proc[p].cat), Config) \in SUBSET Time
    BY DEF Doomed, Present
  <2> QED BY <1>7, <2>1 DEF Scan, Process, Locs
<1>8. ASSUME NEW p \in Procs, ScanFails(p) \/ Kill(p)
      PROVE  ProcTypes'
  BY <1>8 DEF ScanFails, Kill
<1>9. ASSUME NEW p \in Procs, NEW t \in Time, Unlink(p, t)
      PROVE  ProcTypes'
  BY <1>9 DEF Unlink, Process
<1>10. ASSUME PruneBegins \/ PruneGoesOn
       PROVE  ProcTypes'
  <2>1. "prune" \in Procs
    BY DEF Procs
  <2>2. ASSUME NEW k \in Category, NEW q \in Seq(Category)
        PROVE  [Idle EXCEPT !.pc = "retain", !.cat = k, !.queue = q] \in Process
    BY DEF Process, Locs
  <2>3. proc["prune"].queue \in Seq(Category)
    BY <2>1 DEF Process
  <2>4. proc["prune"].queue # <<>> =>
          Head(proc["prune"].queue) \in Category /\ Tail(proc["prune"].queue) \in Seq(Category)
    BY <2>3
  <2>5. CASE PruneBegins
    BY <2>1, <2>2, <2>5 DEF PruneBegins
  <2>6. CASE PruneGoesOn
    BY <2>1, <2>2, <2>4, <2>6 DEF PruneGoesOn
  <2> QED BY <1>10, <2>5, <2>6
<1>11. ASSUME NEW k \in Category, NEW t \in Time, Select(k, t)
       PROVE  ProcTypes'
  BY <1>11 DEF Select, Process, Locs
<1>12. ASSUME Cancel \/ RestoreEnds \/ Confirm \/ Prepare
       PROVE  ProcTypes'
  <2>1. "restore" \in Procs
    BY DEF Procs
  <2>2. CASE Cancel \/ RestoreEnds
    BY <2>1, <2>2 DEF Cancel, RestoreEnds
  <2>3. CASE Confirm \/ Prepare
    <3>1. Goto("restore", "prepare") \/ Goto("restore", "extract")
      BY <2>3 DEF Confirm, Prepare
    <3>2. proc' \in [Procs -> Process]
      BY <2>1, <3>1, GotoTypes DEF Locs
    <3> QED BY <2>1, <2>3, <3>2 DEF Confirm, Prepare
  <2> QED BY <1>12, <2>2, <2>3
<1>13. ASSUME Extract
       PROVE  ProcTypes'
  <2>1. "restore" \in Procs /\ {g \in Files : saves[g] # Gone} \in SUBSET Files
    BY DEF Procs
  <2> QED BY <1>13, <2>1 DEF Extract, Process, Locs
<1>14. ASSUME NEW g \in Files, Clear(g) \/ Move(g)
       PROVE  ProcTypes'
  <2>1. "restore" \in Procs
    BY DEF Procs
  <2>2. CASE Clear(g)
    BY <2>1, <2>2 DEF Clear, Process
  <2> QED BY <1>14, <2>2 DEF Move
<1>15. ASSUME Tick \/ Server \/ UNCHANGED vars
       PROVE  ProcTypes'
  BY <1>15 DEF Tick, Server, StartGame, WritePid, GameEnds, GameGoes, ClearPid, BeginSave,
     WriteSave, vars
<1>16. Children \subseteq Procs /\ "prune" \in Procs
  BY DEF Procs
<1> QED BY <1>1, <1>2, <1>3, <1>4, <1>5, <1>6, <1>7, <1>8, <1>9, <1>10, <1>11, <1>12, <1>13,
           <1>14, <1>15, <1>16 DEF Next, Prune, Restore, ChildStep

LEMMA StoreUpdate ==
  ASSUME DataTypes, NEW k \in Category, NEW t \in Time, NEW a \in Archives,
         store' = [store EXCEPT ![k][t] = a]
  PROVE  store' \in [Category -> [Time -> Archives]]
<1>1. [store[k] EXCEPT ![t] = a] \in [Time -> Archives]
  BY DEF DataTypes
<1> QED BY <1>1 DEF DataTypes

LEMMA DataTypesStep ==
  ASSUME ProcTypes, DataTypes, [Next]_vars
  PROVE  DataTypes'
<1> USE Constants DEF DataTypes
<1>1. ASSUME NEW p \in Procs, ScanFails(p) \/ Scan(p) \/ Kill(p)
      PROVE  DataTypes'
  <2>1. proc[p] \in Process
    BY DEF ProcTypes
  <2> QED BY <1>1, <2>1 DEF ScanFails, Scan, Kill, Process
<1>2. ASSUME NEW c \in Children, Lock(c) \/ Poll(c) \/ Skip(c) \/ ChildEnds(c)
      PROVE  DataTypes'
  BY <1>2 DEF Lock, Poll, Skip, ChildEnds
<1>3. ASSUME NEW c \in Children, Begin(c)
      PROVE  DataTypes'
  <2>1. proc[c] \in Process /\ Opened \in Archives
    BY DEF ProcTypes, Opened, Archives
  <2> QED BY <1>3, <2>1 DEF Begin, Process
<1>4. ASSUME NEW c \in Children, NEW g \in Files, Add(c, g)
      PROVE  DataTypes'
  <2> DEFINE old == store[proc[c].cat][proc[c].at]
             new == [old EXCEPT !.data[g] = saves[g]]
  <2>1. proc[c].cat \in Category /\ proc[c].at \in Time
    BY DEF ProcTypes, Process
  <2>2. old \in Archives
    BY <2>1
  <2>3. new \in Archives
    BY <2>2 DEF Archives, Contents
  <2>4. store' = [store EXCEPT ![proc[c].cat][proc[c].at] = new]
    BY <1>4 DEF Add
  <2> HIDE DEF new
  <2>5. store' \in [Category -> [Time -> Archives]]
    BY <2>1, <2>3, <2>4, StoreUpdate
  <2> QED BY <1>4, <2>5 DEF Add
<1>5. ASSUME NEW c \in Children, Finish(c)
      PROVE  DataTypes'
  <2> DEFINE old == store[proc[c].cat][proc[c].at]
             new == [old EXCEPT !.state = "whole"]
  <2>1. proc[c].cat \in Category /\ proc[c].at \in Time
    BY DEF ProcTypes, Process
  <2>2. old \in Archives
    BY <2>1
  <2>3. new \in Archives
    BY <2>2 DEF Archives
  <2>4. store' = [store EXCEPT ![proc[c].cat][proc[c].at] = new]
    BY <1>5 DEF Finish
  <2> HIDE DEF new
  <2>5. store' \in [Category -> [Time -> Archives]]
    BY <2>1, <2>3, <2>4, StoreUpdate
  <2> QED BY <1>5, <2>5 DEF Finish
<1>6. ASSUME NEW c \in Children, Fail(c)
      PROVE  DataTypes'
  <2>1. proc[c].cat \in Category /\ proc[c].at \in Time /\ Absent \in Archives
    BY DEF ProcTypes, Process, Absent, Archives
  <2> QED BY <1>6, <2>1 DEF Fail
<1>7. ASSUME NEW p \in Procs, NEW t \in Time, Unlink(p, t)
      PROVE  DataTypes'
  <2>1. proc[p].cat \in Category /\ Absent \in Archives
    BY DEF ProcTypes, Process, Absent, Archives
  <2>2. CASE UNCHANGED store
    BY <1>7, <2>2 DEF Unlink
  <2>3. CASE store' = [store EXCEPT ![proc[p].cat][t] = Absent]
    <3>1. store' \in [Category -> [Time -> Archives]]
      BY <2>1, <2>3, StoreUpdate
    <3> QED BY <1>7, <3>1 DEF Unlink
  <2> QED BY <1>7, <2>2, <2>3 DEF Unlink
<1>8. ASSUME NEW c \in Children, NEW k \in Category, NEW wait \in BOOLEAN, Spawn(c, k, wait)
      PROVE  DataTypes'
  BY <1>8 DEF Spawn
<1>9. ASSUME PruneBegins \/ PruneGoesOn
      PROVE  DataTypes'
  BY <1>9 DEF PruneBegins, PruneGoesOn
<1>10. ASSUME NEW k \in Category, NEW t \in Time, Select(k, t)
       PROVE  DataTypes'
  BY <1>10 DEF Select
<1>11. ASSUME Cancel \/ RestoreEnds \/ Confirm \/ Prepare
       PROVE  DataTypes'
  BY <1>11 DEF Cancel, RestoreEnds, Confirm, Prepare
<1>12. ASSUME Extract
       PROVE  DataTypes'
  <2> DEFINE source == store[proc["restore"].cat][proc["restore"].at]
  <2>1. proc["restore"] \in Process
    BY DEF Procs, ProcTypes
  <2>2. source \in Archives
    BY <2>1 DEF Process
  <2>3. tmp' = source.data
    BY <1>12 DEF Extract, Readable
  <2> QED BY <1>12, <2>2, <2>3 DEF Extract, Archives
<1>13. ASSUME NEW g \in Files, Clear(g) \/ Move(g)
       PROVE  DataTypes'
  <2>1. Gone \in Gone .. MaxWorld
    BY StoreAssumption DEF Gone
  <2> QED BY <1>13, <2>1 DEF Clear, Move, Contents
<1>14. ASSUME Tick
       PROVE  DataTypes'
  BY <1>14, StoreAssumption DEF Tick, Time
<1>15. ASSUME StartGame \/ WritePid \/ GameEnds \/ ClearPid \/ UNCHANGED vars
       PROVE  DataTypes'
  BY <1>15 DEF StartGame, WritePid, GameEnds, GameGoes, ClearPid, vars
<1>16. ASSUME BeginSave
       PROVE  DataTypes'
  BY <1>16, StoreAssumption DEF BeginSave
<1>17. ASSUME NEW g \in Files, WriteSave(g)
       PROVE  DataTypes'
  <2>1. world \in Gone .. MaxWorld
    BY StoreAssumption DEF Gone
  <2> QED BY <1>17, <2>1 DEF WriteSave, Contents
<1>18. Children \subseteq Procs /\ "prune" \in Procs
  BY DEF Procs
<1> QED BY <1>1, <1>2, <1>3, <1>4, <1>5, <1>6, <1>7, <1>8, <1>9, <1>10, <1>11, <1>12, <1>13,
           <1>14, <1>15, <1>16, <1>17, <1>18 DEF Next, Prune, Restore, ChildStep, Server

LEMMA GameTypesStep == ASSUME GameTypes, [Next]_vars PROVE GameTypes'
<1> USE DEF GameTypes
<1>1. ASSUME NEW c \in Children, ChildStep(c)
      PROVE  UNCHANGED game
  BY <1>1 DEF ChildStep, Lock, Poll, Skip, Begin, Finish, Fail, Add, Scan, ScanFails, ChildEnds, Unlink
<1>2. ASSUME Prune \/ Restore
      PROVE  UNCHANGED game
  BY <1>2 DEF Prune, PruneBegins, PruneGoesOn, Scan, ScanFails, Unlink, Restore, Select, Cancel,
     Confirm, Prepare, Extract, RestoreEnds, Clear, Move
<1>3. ASSUME NEW p \in Procs, Kill(p)
      PROVE  UNCHANGED game
  BY <1>3 DEF Kill
<1>4. CASE Server \/ Tick \/ UNCHANGED vars
  BY <1>4 DEF Server, StartGame, WritePid, GameEnds, GameGoes, ClearPid, BeginSave, WriteSave, Tick, vars
<1>5. ASSUME NEW c \in Children, NEW k \in Category, NEW wait \in BOOLEAN, Spawn(c, k, wait)
      PROVE  GameTypes'
  BY <1>5 DEF Spawn
<1> QED BY <1>1, <1>2, <1>3, <1>4, <1>5 DEF Next

-----------------------------------------------------------------------------
(* The lock. *)

\* A step of p alone: p holds the lock after it, having had it or found it
\* free, or p does not, and the lock is not p's.
LEMMA OneMoves ==
  ASSUME HoldersHaveTheLock, "free" \notin Procs, NEW p \in Procs,
         \A q \in Procs \ {p} : proc'[q] = proc[q],
         \/ Holding(p)' /\ lock \in {p, "free"} /\ lock' = p
         \/ ~Holding(p)' /\ lock' = IF lock = p THEN "free" ELSE lock
  PROVE  HoldersHaveTheLock'
  BY DEF HoldersHaveTheLock, Holding

LEMMA LockStep ==
  ASSUME ProcTypes, HoldersHaveTheLock, [Next]_vars
  PROVE  HoldersHaveTheLock'
<1> USE Constants DEF ProcTypes, At, Goto, Release
<1>1. ASSUME NEW c \in Children, Lock(c)
      PROVE  HoldersHaveTheLock'
  BY <1>1, OneMoves DEF Lock, Holding
<1>2. ASSUME NEW c \in Children, Begin(c) \/ Finish(c) \/ Scan(c) \/ \E g \in Files : Add(c, g)
      PROVE  HoldersHaveTheLock'
  <2>1. Holding(c) /\ Holding(c)'
    <3>1. CASE Begin(c)
      BY <3>1 DEF Begin, Holding
    <3>2. CASE Finish(c)
      BY <3>2 DEF Finish, Holding
    <3>3. CASE Scan(c)
      BY <3>3 DEF Scan, Holding
    <3>4. CASE \E g \in Files : Add(c, g)
      BY <3>4 DEF Add, Holding
    <3> QED BY <1>2, <3>1, <3>2, <3>3, <3>4
  <2>2. (\A q \in Procs \ {c} : proc'[q] = proc[q]) /\ lock' = lock
    BY <1>2 DEF Begin, Finish, Scan, Add
  <2> QED BY <2>1, <2>2, OneMoves DEF HoldersHaveTheLock
<1>3. ASSUME NEW c \in Children, Skip(c) \/ Fail(c) \/ ChildEnds(c)
      PROVE  HoldersHaveTheLock'
  <2>1. Holding(c) /\ ~Holding(c)'
    BY <1>3 DEF Skip, Fail, ChildEnds, Holding, Idle
  <2>2. (\A q \in Procs \ {c} : proc'[q] = proc[q]) /\ lock' = "free"
    BY <1>3 DEF Skip, Fail, ChildEnds
  <2> QED BY <2>1, <2>2, OneMoves DEF HoldersHaveTheLock
<1>4. ASSUME NEW c \in Children, NEW t \in Time, Unlink(c, t)
      PROVE  HoldersHaveTheLock'
  <2>1. Holding(c) /\ Holding(c)'
    BY <1>4 DEF Unlink, Holding
  <2>2. (\A q \in Procs \ {c} : proc'[q] = proc[q]) /\ lock' = lock
    BY <1>4 DEF Unlink
  <2> QED BY <2>1, <2>2, OneMoves DEF HoldersHaveTheLock
<1>5. ASSUME NEW c \in Children, Poll(c) \/ \E k \in Category, wait \in BOOLEAN : Spawn(c, k, wait)
      PROVE  HoldersHaveTheLock'
  <2>1. ~Holding(c) /\ ~Holding(c)'
    <3>1. c # "restore"
      BY StoreAssumption
    <3>2. CASE Poll(c)
      BY <3>1, <3>2 DEF Poll, Holding, Idle, Process
    <3>3. CASE \E k \in Category, wait \in BOOLEAN : Spawn(c, k, wait)
      BY <3>1, <3>3 DEF Spawn, Holding, Idle
    <3> QED BY <1>5, <3>2, <3>3
  <2>2. (\A q \in Procs \ {c} : proc'[q] = proc[q]) /\ lock' = lock
    BY <1>5 DEF Poll, Spawn
  <2> QED BY <2>1, <2>2, OneMoves DEF HoldersHaveTheLock
<1>6. ASSUME NEW p \in Procs, ScanFails(p) \/ Kill(p)
      PROVE  HoldersHaveTheLock'
  <2>1. ~Holding(p)'
    BY <1>6 DEF ScanFails, Kill, Holding, Idle
  <2> QED BY <1>6, <2>1, OneMoves DEF ScanFails, Kill
<1>7. ASSUME PruneBegins \/ PruneGoesOn \/ Scan("prune") \/ \E t \in Time : Unlink("prune", t)
      PROVE  HoldersHaveTheLock'
  <2>1. "prune" \in Procs /\ ~Holding("prune") /\ ~Holding("prune")'
    BY StoreAssumption DEF Procs, Holding
  <2>2. (\A q \in Procs \ {"prune"} : proc'[q] = proc[q]) /\ lock' = lock
    BY <1>7 DEF PruneBegins, PruneGoesOn, Scan, Unlink
  <2> QED BY <2>1, <2>2, OneMoves DEF HoldersHaveTheLock
<1>8. "restore" \in Procs /\ "prune" \in Procs /\ "restore" \notin Children
  BY StoreAssumption DEF Procs
<1>9. ASSUME Cancel \/ \E k \in Category, t \in Time : Select(k, t)
      PROVE  HoldersHaveTheLock'
  <2>1. ~Holding("restore") /\ ~Holding("restore")'
    <3>1. CASE Cancel
      BY <1>8, <3>1 DEF Cancel, Holding, Idle
    <3>2. CASE \E k \in Category, t \in Time : Select(k, t)
      BY <1>8, <3>2 DEF Select, Holding, Idle
    <3> QED BY <1>9, <3>1, <3>2
  <2>2. (\A q \in Procs \ {"restore"} : proc'[q] = proc[q]) /\ lock' = lock
    BY <1>9 DEF Cancel, Select
  <2> QED BY <1>8, <2>1, <2>2, OneMoves DEF HoldersHaveTheLock
<1>10. CASE Confirm
  BY <1>8, <1>10, OneMoves DEF Confirm, Holding
<1>11. ASSUME Prepare \/ Extract \/ \E g \in Files : Clear(g) \/ Move(g)
       PROVE  HoldersHaveTheLock'
  <2>1. Holding("restore") /\ Holding("restore")'
    <3>1. CASE Prepare
      BY <1>8, <3>1 DEF Prepare, Holding
    <3>2. CASE Extract
      BY <1>8, <3>2 DEF Extract, Holding
    <3>3. CASE \E g \in Files : Clear(g)
      BY <1>8, <3>3 DEF Clear, Holding
    <3>4. CASE \E g \in Files : Move(g)
      BY <1>8, <3>4 DEF Move, Holding
    <3> QED BY <1>11, <3>1, <3>2, <3>3, <3>4
  <2>2. (\A q \in Procs \ {"restore"} : proc'[q] = proc[q]) /\ lock' = lock
    BY <1>11 DEF Prepare, Extract, Clear, Move
  <2> QED BY <1>8, <2>1, <2>2, OneMoves DEF HoldersHaveTheLock
<1>12. CASE RestoreEnds
  <2>1. Holding("restore") /\ ~Holding("restore")'
    BY <1>8, <1>12 DEF RestoreEnds, Holding, Idle
  <2> QED BY <1>8, <1>12, <2>1, OneMoves DEF RestoreEnds, HoldersHaveTheLock
<1>13. CASE Tick \/ Server \/ UNCHANGED vars
  <2>1. UNCHANGED <<proc, lock>>
    BY <1>13 DEF Tick, Server, StartGame, WritePid, GameEnds, GameGoes, ClearPid, BeginSave,
       WriteSave, vars
  <2> QED BY <2>1 DEF HoldersHaveTheLock, Holding
<1> QED BY <1>1, <1>2, <1>3, <1>4, <1>5, <1>6, <1>7, <1>8, <1>9, <1>10, <1>11, <1>12, <1>13
        DEF Next, Prune, Restore, ChildStep

-----------------------------------------------------------------------------
(* What a step may do to what retention is about to unlink, to the archives *)
(* that are there, to an archive that is being written and to the saves.    *)

Writing(p) == proc[p].pc \in {"copy", "retain", "unlink"}

\* Each step of the system is a step of one of its actors.
LEMMA Steps ==
  ASSUME [Next]_vars
  PROVE  \/ \E c \in Children : ChildStep(c)
         \/ \E c \in Children, k \in Category, wait \in BOOLEAN : Spawn(c, k, wait)
         \/ Prune \/ Restore \/ Tick \/ Server \/ UNCHANGED vars
         \/ \E p \in Procs : Kill(p)
  BY DEF Next

\* A process only takes away from what it is about to unlink, within a category.
Shrinks(p) == /\ proc'[p].doomed \subseteq proc[p].doomed
              /\ proc'[p].doomed # {} => proc'[p].cat = proc[p].cat

LEMMA DoomedMoves ==
  ASSUME ProcTypes, [Next]_vars, NEW p \in Procs, ~Scan(p)
  PROVE  Shrinks(p)
<1> USE Constants DEF Shrinks, ProcTypes, Process, Idle
<1>1. ASSUME NEW c \in Children, ChildStep(c)
      PROVE  Shrinks(p)
  <2>1. CASE Lock(c) \/ Finish(c)
    <3>1. CASE Lock(c)
      BY <3>1 DEF Lock, Goto
    <3>2. CASE Finish(c)
      BY <3>2 DEF Finish, Goto
    <3> QED BY <2>1, <3>1, <3>2
  <2>2. CASE Poll(c)
    BY <2>2 DEF Poll
  <2>3. CASE Skip(c) \/ Fail(c) \/ ChildEnds(c) \/ ScanFails(c)
    BY <2>3 DEF Skip, Fail, ChildEnds, ScanFails, Release
  <2>4. CASE Begin(c)
    BY <2>4 DEF Begin
  <2>5. CASE \E g \in Files : Add(c, g)
    BY <2>5 DEF Add
  <2>6. CASE Scan(c)
    BY <2>6 DEF Scan
  <2>7. CASE \E t \in Time : Unlink(c, t)
    BY <2>7 DEF Unlink
  <2> QED BY <1>1, <2>1, <2>2, <2>3, <2>4, <2>5, <2>6, <2>7 DEF ChildStep
<1>2. ASSUME NEW c \in Children, NEW k \in Category, NEW wait \in BOOLEAN, Spawn(c, k, wait)
      PROVE  Shrinks(p)
  BY <1>2 DEF Spawn
<1>3. CASE Prune
  <2>1. CASE PruneBegins \/ PruneGoesOn
    <3>1. CASE PruneBegins
      BY <3>1 DEF PruneBegins
    <3>2. CASE PruneGoesOn
      BY <3>2 DEF PruneGoesOn
    <3> QED BY <2>1, <3>1, <3>2
  <2>2. CASE Scan("prune")
    BY <2>2 DEF Scan
  <2>3. CASE ScanFails("prune")
    BY <2>3 DEF ScanFails
  <2>4. CASE \E t \in Time : Unlink("prune", t)
    BY <2>4 DEF Unlink
  <2> QED BY <1>3, <2>1, <2>2, <2>3, <2>4 DEF Prune
<1>4. CASE Restore
  <2>1. CASE \E k \in Category, t \in Time : Select(k, t)
    BY <2>1 DEF Select
  <2>2. CASE Cancel \/ RestoreEnds
    <3>1. CASE Cancel
      BY <3>1 DEF Cancel, Release
    <3>2. CASE RestoreEnds
      BY <3>2 DEF RestoreEnds, Release
    <3> QED BY <2>2, <3>1, <3>2
  <2>3. CASE Confirm \/ Prepare
    <3>1. CASE Confirm
      BY <3>1 DEF Confirm, Goto
    <3>2. CASE Prepare
      BY <3>2 DEF Prepare, Goto
    <3> QED BY <2>3, <3>1, <3>2
  <2>4. CASE Extract
    BY <2>4 DEF Extract
  <2>5. CASE \E g \in Files : Clear(g)
    BY <2>5 DEF Clear
  <2>6. CASE \E g \in Files : Move(g)
    BY <2>6 DEF Move
  <2> QED BY <1>4, <2>1, <2>2, <2>3, <2>4, <2>5, <2>6 DEF Restore
<1>5. CASE \E q \in Procs : Kill(q)
  BY <1>5 DEF Kill
<1>6. CASE Tick \/ Server \/ UNCHANGED vars
  BY <1>6 DEF Tick, Server, StartGame, WritePid, GameEnds, GameGoes, ClearPid, BeginSave,
     WriteSave, vars
<1> HIDE DEF Shrinks, ProcTypes, Process, Idle
<1> QED BY <1>1, <1>2, <1>3, <1>4, <1>5, <1>6, Steps

\* Only a child that writes changes an archive, and only a retention takes away
\* one that nobody writes.
LEMMA StoreMovers ==
  ASSUME [Next]_vars
  PROVE  \/ UNCHANGED store
         \/ \E c \in Children : Begin(c) \/ Finish(c) \/ Fail(c) \/ \E g \in Files : Add(c, g)
         \/ \E p \in Children \cup {"prune"}, t \in Time : Unlink(p, t)
<1>1. ASSUME NEW c \in Children, NEW k \in Category, NEW wait \in BOOLEAN, Spawn(c, k, wait)
      PROVE  UNCHANGED store
  BY <1>1 DEF Spawn
<1>2. ASSUME NEW p \in Procs, Kill(p) \/ Scan(p) \/ ScanFails(p)
      PROVE  UNCHANGED store
  BY <1>2 DEF Kill, Scan, ScanFails
<1>3. ASSUME NEW c \in Children, Lock(c) \/ Poll(c) \/ Skip(c) \/ ChildEnds(c)
      PROVE  UNCHANGED store
  BY <1>3 DEF Lock, Poll, Skip, ChildEnds
<1>4. ASSUME PruneBegins \/ PruneGoesOn \/ Restore
      PROVE  UNCHANGED store
  BY <1>4 DEF PruneBegins, PruneGoesOn, Restore, Select, Cancel, Confirm, Prepare, Extract,
     RestoreEnds, Clear, Move
<1>5. ASSUME Tick \/ Server \/ UNCHANGED vars
      PROVE  UNCHANGED store
  BY <1>5 DEF Tick, Server, StartGame, WritePid, GameEnds, GameGoes, ClearPid, BeginSave,
     WriteSave, vars
<1>6. "prune" \in Procs /\ Children \subseteq Procs
  BY DEF Procs
<1> QED BY <1>1, <1>2, <1>3, <1>4, <1>5, <1>6, Steps DEF ChildStep, Prune

LEMMA StoreMoves ==
  ASSUME [Next]_vars
  PROVE  \/ UNCHANGED store
         \/ \E c \in Children : Begin(c) \/ Finish(c) \/ Fail(c) \/ \E g \in Files : Add(c, g)
         \/ \E p \in Procs, t \in Time : Unlink(p, t)
<1>1. Children \cup {"prune"} \subseteq Procs
  BY DEF Procs
<1> QED BY <1>1, StoreMovers

\* A child that is writing after a step was left alone by it, or made it.
LEMMA WriterMoves ==
  ASSUME ProcTypes, [Next]_vars, NEW c \in Children, Writing(c)'
  PROVE  \/ proc'[c] = proc[c]
         \/ Begin(c) \/ Finish(c) \/ Scan(c)
         \/ (\E g \in Files : Add(c, g)) \/ (\E t \in Time : Unlink(c, t))
<1> USE Constants DEF ProcTypes, Writing
<1>1. c # "prune" /\ c # "restore" /\ c \in Procs
  BY StoreAssumption
<1>2. ASSUME NEW d \in Children, ChildStep(d), d # c
      PROVE  proc'[c] = proc[c]
  BY <1>2, <1>1 DEF ChildStep, Lock, Poll, Skip, Begin, Finish, Fail, Add, Scan, ScanFails, ChildEnds,
     Unlink, Goto, Release
<1>3. CASE Lock(c)
  BY <1>1, <1>3 DEF Lock, Goto
<1>4. CASE Poll(c)
  BY <1>1, <1>4 DEF Poll, At, Idle
<1>5. CASE Skip(c) \/ Fail(c) \/ ChildEnds(c) \/ ScanFails(c)
  <2>1. proc'[c] = Idle
    BY <1>1, <1>5 DEF Skip, Fail, ChildEnds, ScanFails, Release
  <2> QED BY <2>1 DEF Idle
<1>6. ASSUME NEW d \in Children, NEW k \in Category, NEW wait \in BOOLEAN, Spawn(d, k, wait)
      PROVE  proc'[c] = proc[c]
  <2>1. d # c
    BY <1>1, <1>6 DEF Spawn, Idle
  <2> QED BY <1>6, <2>1 DEF Spawn
<1>7. CASE Prune \/ Restore
  <2>1. CASE PruneBegins \/ PruneGoesOn \/ Scan("prune") \/ ScanFails("prune")
    BY <1>1, <2>1 DEF PruneBegins, PruneGoesOn, Scan, ScanFails
  <2>2. CASE \E t \in Time : Unlink("prune", t)
    BY <1>1, <2>2 DEF Unlink
  <2>3. CASE Restore
    BY <1>1, <2>3 DEF Restore, Select, Cancel, Confirm, Prepare, Extract, RestoreEnds, Clear, Move,
       Goto, Release
  <2> QED BY <1>7, <2>1, <2>2, <2>3 DEF Prune
<1>8. ASSUME NEW p \in Procs, Kill(p)
      PROVE  proc'[c] = proc[c]
  <2>1. p # c
    BY <1>1, <1>8 DEF Kill, Idle
  <2> QED BY <1>8, <2>1 DEF Kill
<1>9. CASE Tick \/ Server \/ UNCHANGED vars
  BY <1>9 DEF Tick, Server, StartGame, WritePid, GameEnds, GameGoes, ClearPid, BeginSave,
     WriteSave, vars
<1>10. CASE ChildStep(c)
  BY <1>3, <1>4, <1>5, <1>10 DEF ChildStep
<1> QED BY <1>2, <1>6, <1>7, <1>8, <1>9, <1>10, Steps

\* It was writing that archive already, unless it has just begun.
LEMMA WriterStays ==
  ASSUME ProcTypes, [Next]_vars, NEW c \in Children, Writing(c)', ~Begin(c)
  PROVE  Writing(c) /\ proc'[c].cat = proc[c].cat /\ proc'[c].at = proc[c].at
<1>1. c \in Procs /\ proc[c] \in Process
  BY Constants DEF ProcTypes
<1> USE <1>1 DEF Writing, At, ProcTypes, Process
<1>2. CASE Finish(c)
  BY <1>2 DEF Finish, Goto
<1>3. CASE Scan(c)
  BY <1>3 DEF Scan
<1>4. CASE \E g \in Files : Add(c, g)
  BY <1>4 DEF Add
<1>5. CASE \E t \in Time : Unlink(c, t)
  BY <1>5 DEF Unlink
<1>6. CASE proc'[c] = proc[c]
  BY <1>6
<1> QED BY <1>2, <1>3, <1>4, <1>5, <1>6, WriterMoves

\* The saves change by the game while it runs and by a restore that has the lock.
LEMMA SavesMoves ==
  ASSUME [Next]_vars
  PROVE  UNCHANGED saves \/ game \in {"launched", "up"} \/ Holding("restore")
<1>1. ASSUME NEW c \in Children, ChildStep(c) \/ \E k \in Category, wait \in BOOLEAN : Spawn(c, k, wait)
      PROVE  UNCHANGED saves
  BY <1>1 DEF ChildStep, Lock, Poll, Skip, Begin, Finish, Fail, Add, Scan, ScanFails, ChildEnds,
     Unlink, Spawn
<1>2. CASE Prune \/ (\E p \in Procs : Kill(p)) \/ Tick \/ UNCHANGED vars
  BY <1>2 DEF Prune, PruneBegins, PruneGoesOn, Scan, ScanFails, Unlink, Kill, Tick, vars
<1>3. CASE Restore
  BY <1>3 DEF Restore, Select, Cancel, Confirm, Prepare, Extract, RestoreEnds, Clear, Move,
     Holding, At
<1>4. CASE Server
  BY <1>4 DEF Server, StartGame, WritePid, GameEnds, GameGoes, ClearPid, BeginSave, WriteSave
<1> QED BY <1>1, <1>2, <1>3, <1>4, Steps

LEMMA NowMoves ==
  ASSUME DataTypes, [Next]_vars
  PROVE  now' >= now
<1> USE Constants DEF DataTypes
<1>1. ASSUME NEW c \in Children, ChildStep(c) \/ \E k \in Category, wait \in BOOLEAN : Spawn(c, k, wait)
      PROVE  UNCHANGED now
  BY <1>1 DEF ChildStep, Lock, Poll, Skip, Begin, Finish, Fail, Add, Scan, ScanFails, ChildEnds,
     Unlink, Spawn
<1>2. CASE Prune \/ (\E p \in Procs : Kill(p)) \/ Server \/ UNCHANGED vars
  <2>1. UNCHANGED now
    BY <1>2 DEF Prune, PruneBegins, PruneGoesOn, Scan, ScanFails, Unlink, Kill, vars, Server,
       StartGame, WritePid, GameEnds, GameGoes, ClearPid, BeginSave, WriteSave
  <2> QED BY <2>1
<1>3. CASE Restore
  <2>1. UNCHANGED now
    BY <1>3 DEF Restore, Select, Cancel, Confirm, Prepare, Extract, RestoreEnds, Clear, Move
  <2> QED BY <2>1
<1>4. CASE Tick
  BY <1>4 DEF Tick
<1> QED BY <1>1, <1>2, <1>3, <1>4, Steps

-----------------------------------------------------------------------------
(* Archives and what retention is about to unlink. *)

StoreIsPast == \A k \in Category, t \in Time : store[k][t].state # "absent" => t <= now

DoomedAreOld == \A p \in Procs : \A t \in proc[p].doomed : t < now

\* Until it releases the lock, a child's archive is there, nothing in its
\* category is newer, and nobody is about to unlink it.
OwnArchive(c) ==
  store[proc[c].cat][proc[c].at].state = IF proc[c].pc = "copy" THEN "partial" ELSE "whole"
OwnIsNewest(c) == \A t \in Time : store[proc[c].cat][t].state # "absent" => t <= proc[c].at
OwnIsSpared(c) ==
  \A p \in Procs : proc[p].cat = proc[c].cat => \A t \in proc[p].doomed : t < proc[c].at

WriterIsNewest ==
  \A c \in Children : Writing(c) => OwnArchive(c) /\ OwnIsNewest(c) /\ OwnIsSpared(c)

StoreInv == StoreIsPast /\ DoomedAreOld /\ WriterIsNewest

\* An archive that is there was there, or is begun now.
LEMMA PresentMoves ==
  ASSUME ProcTypes, DataTypes, WriterIsNewest, [Next]_vars,
         NEW k \in Category, NEW t \in Time, store'[k][t].state # "absent"
  PROVE  store[k][t].state # "absent" \/ (t = now /\ \E c \in Children : Begin(c) /\ proc[c].cat = k)
<1> USE Constants
<1>1. ASSUME NEW c \in Children, Begin(c)
      PROVE  store[k][t].state # "absent" \/ (t = now /\ proc[c].cat = k)
  BY <1>1 DEF Begin, DataTypes
<1>2. ASSUME NEW c \in Children, Finish(c)
      PROVE  store[k][t].state # "absent"
  <2>1. OwnArchive(c) /\ proc[c].pc = "copy"
    BY <1>2 DEF WriterIsNewest, Writing, Finish, At
  <2> QED BY <1>2, <2>1 DEF Finish, OwnArchive, DataTypes
<1>3. ASSUME NEW c \in Children, Fail(c)
      PROVE  store[k][t].state # "absent"
  BY <1>3 DEF Fail, DataTypes, Absent
<1>4. ASSUME NEW c \in Children, NEW g \in Files, Add(c, g)
      PROVE  store[k][t].state # "absent"
  <2>1. proc[c].cat \in Category /\ proc[c].at \in Time
    BY DEF ProcTypes, Process
  <2>2. store[proc[c].cat][proc[c].at] \in Archives
    BY <2>1 DEF DataTypes
  <2> QED BY <1>4, <2>1, <2>2 DEF Add, DataTypes, Archives
<1>5. ASSUME NEW p \in Procs, NEW u \in Time, Unlink(p, u)
      PROVE  store[k][t].state # "absent"
  <2>1. proc[p].cat \in Category
    BY DEF ProcTypes, Process
  <2> QED BY <1>5, <2>1 DEF Unlink, DataTypes, Absent
<1> QED BY <1>1, <1>2, <1>3, <1>4, <1>5, StoreMoves

LEMMA StoreIsPastStep ==
  ASSUME ProcTypes, DataTypes, StoreIsPast, WriterIsNewest, [Next]_vars
  PROVE  StoreIsPast'
<1> SUFFICES ASSUME NEW k \in Category, NEW t \in Time, store'[k][t].state # "absent"
             PROVE  t <= now'
  BY DEF StoreIsPast
<1>1. t <= now
  BY PresentMoves, TimesAreInts DEF StoreIsPast, DataTypes
<1>2. now \in Time /\ now' \in Time
  BY DataTypesStep DEF DataTypes
<1>3. now' >= now
  BY NowMoves
<1> QED BY <1>1, <1>2, <1>3, TimesAreInts

\* What a scan marks is older than something that is there.
LEMMA ScanMarksOld ==
  ASSUME ProcTypes, DataTypes, NEW p \in Procs, Scan(p)
  PROVE  /\ proc'[p].cat = proc[p].cat
         /\ \A d \in proc'[p].doomed : \E u \in Present(proc[p].cat) : d < u
<1>1. proc'[p].cat = proc[p].cat /\ proc'[p].doomed = Doomed(Present(proc[p].cat), Config)
  BY DEF Scan, ProcTypes, Process
<1>2. Present(proc[p].cat) \subseteq Int
  BY TimesAreInts DEF Present
<1>3. ASSUME NEW d \in Doomed(Present(proc[p].cat), Config)
      PROVE  \E u \in Present(proc[p].cat) : d < u
  <2>1. \E u \in Present(proc[p].cat) : u > d
    BY <1>2, DoomedHasNewer
  <2>2. d \in Int
    BY <1>2 DEF Doomed
  <2> QED BY <1>2, <2>1, <2>2
<1> QED BY <1>1, <1>3

LEMMA DoomedAreOldStep ==
  ASSUME ProcTypes, DataTypes, StoreIsPast, DoomedAreOld, [Next]_vars
  PROVE  DoomedAreOld'
<1> SUFFICES ASSUME NEW p \in Procs, NEW t \in proc'[p].doomed
             PROVE  t < now'
  BY DEF DoomedAreOld
<1>1. now' >= now /\ now \in Int /\ now' \in Int
  <2>1. now \in Time /\ now' \in Time
    BY DataTypesStep DEF DataTypes
  <2> QED BY <2>1, NowMoves, TimesAreInts
<1>2. t \in Int
  <2>1. proc'[p] \in Process
    BY ProcTypesStep DEF ProcTypes
  <2> QED BY <2>1, TimesAreInts DEF Process
<1>3. CASE ~Scan(p)
  BY <1>1, <1>2, <1>3, DoomedMoves DEF DoomedAreOld, Shrinks
<1>4. CASE Scan(p)
  <2>1. PICK u \in Present(proc[p].cat) : t < u
    BY <1>4, ScanMarksOld
  <2>2. u <= now /\ u \in Int
    <3>1. proc[p].cat \in Category
      BY DEF ProcTypes, Process
    <3> QED BY <3>1, TimesAreInts DEF StoreIsPast, Present
  <2> QED BY <1>1, <1>2, <2>1, <2>2
<1> QED BY <1>3, <1>4

\* The lock lets one process at a time write.
LEMMA OneWriter ==
  ASSUME HoldersHaveTheLock, NEW p \in Procs, NEW q \in Procs, Holding(p), Holding(q)
  PROVE  p = q
  BY DEF HoldersHaveTheLock

\* A writer of whom nobody else takes the lock keeps its archive: first what
\* is in it, then that it is the newest, then that nobody is about to unlink it.
LEMMA OwnArchiveStep ==
  ASSUME ProcTypes, DataTypes, HoldersHaveTheLock, WriterIsNewest, [Next]_vars,
         NEW c \in Children, Writing(c)'
  PROVE  OwnArchive(c)'
<1>1. c \in Procs /\ proc[c].cat \in Category /\ proc[c].at \in Time
  BY Constants DEF ProcTypes, Process
<1>2. CASE Begin(c)
  <2>1. proc'[c].pc = "copy" /\ proc'[c].cat = proc[c].cat /\ proc'[c].at = now
    BY <1>1, <1>2 DEF Begin, ProcTypes, Process
  <2>2. store'[proc[c].cat][now] = Opened
    BY <1>1, <1>2 DEF Begin, DataTypes
  <2> QED BY <2>1, <2>2 DEF OwnArchive, Opened
<1>3. CASE Finish(c)
  <2>1. proc'[c].pc = "retain" /\ proc'[c].cat = proc[c].cat /\ proc'[c].at = proc[c].at
    BY <1>1, <1>3 DEF Finish, Goto, ProcTypes, Process
  <2>2. store[proc[c].cat][proc[c].at] \in Archives
    BY <1>1 DEF DataTypes
  <2>3. store'[proc[c].cat][proc[c].at].state = "whole"
    BY <1>1, <1>3, <2>2 DEF Finish, DataTypes, Archives
  <2> QED BY <2>1, <2>3 DEF OwnArchive
<1>4. CASE \E g \in Files : Add(c, g)
  <2>1. proc'[c].pc = "copy" /\ proc[c].pc = "copy"
        /\ proc'[c].cat = proc[c].cat /\ proc'[c].at = proc[c].at
    BY <1>1, <1>4 DEF Add, At, ProcTypes, Process
  <2>2. store[proc[c].cat][proc[c].at] \in Archives
    BY <1>1 DEF DataTypes
  <2>3. store'[proc[c].cat][proc[c].at].state = store[proc[c].cat][proc[c].at].state
    BY <1>1, <1>4, <2>2 DEF Add, DataTypes, Archives
  <2> QED BY <2>1, <2>3 DEF OwnArchive, WriterIsNewest, Writing
<1>5. CASE ~Begin(c) /\ ~Finish(c) /\ ~\E g \in Files : Add(c, g)
  <2>1. /\ Writing(c)
        /\ proc'[c].cat = proc[c].cat /\ proc'[c].at = proc[c].at
        /\ proc'[c].pc = "copy" <=> proc[c].pc = "copy"
    <3>1. CASE Scan(c)
      BY <1>1, <3>1 DEF Scan, At, Writing, ProcTypes, Process
    <3>2. CASE \E t \in Time : Unlink(c, t)
      BY <1>1, <3>2 DEF Unlink, At, Writing, ProcTypes, Process
    <3>3. CASE proc'[c] = proc[c]
      BY <3>3 DEF Writing
    <3> QED BY <1>5, <3>1, <3>2, <3>3, WriterMoves
  <2>2. store'[proc[c].cat][proc[c].at] = store[proc[c].cat][proc[c].at]
    <3>1. ASSUME NEW d \in Children, Begin(d) \/ Finish(d) \/ Fail(d) \/ \E g \in Files : Add(d, g)
          PROVE  FALSE
      <4>1. Holding(d) /\ Holding(c)
        BY <2>1, <3>1 DEF Begin, Finish, Fail, Add, At, Holding, Writing
      <4>2. c = d /\ Fail(c)
        BY <1>1, <1>5, <3>1, <4>1, OneWriter, Constants
      <4>3. proc'[c].pc = "idle"
        BY <1>1, <4>2 DEF Fail, Release, Idle, ProcTypes
      <4> QED BY <4>3 DEF Writing
    <3>2. ASSUME NEW p \in Procs, NEW t \in Time, Unlink(p, t)
          PROVE  store'[proc[c].cat][proc[c].at] = store[proc[c].cat][proc[c].at]
      <4>1. proc[p].cat = proc[c].cat => t < proc[c].at
        BY <2>1, <3>2 DEF Unlink, WriterIsNewest, OwnIsSpared
      <4>2. <<proc[p].cat, t>> # <<proc[c].cat, proc[c].at>>
        BY <1>1, <4>1, TimesAreInts
      <4>3. proc[p].cat \in Category
        BY DEF ProcTypes, Process
      <4> QED BY <1>1, <3>2, <4>2, <4>3 DEF Unlink, DataTypes
    <3> QED BY <3>1, <3>2, StoreMoves
  <2> QED BY <2>1, <2>2 DEF OwnArchive, WriterIsNewest
<1> QED BY <1>2, <1>3, <1>4, <1>5

LEMMA OwnIsNewestStep ==
  ASSUME ProcTypes, DataTypes, HoldersHaveTheLock, StoreIsPast, WriterIsNewest, [Next]_vars,
         NEW c \in Children, Writing(c)'
  PROVE  OwnIsNewest(c)'
<1>1. c \in Procs /\ proc[c].cat \in Category
  BY Constants DEF ProcTypes, Process
<1>2. CASE Begin(c)
  <2>1. proc'[c].cat = proc[c].cat /\ proc'[c].at = now
    BY <1>1, <1>2 DEF Begin, ProcTypes, Process
  <2>2. ASSUME NEW t \in Time, store'[proc[c].cat][t].state # "absent"
        PROVE  t <= now
    BY <1>1, <2>2, PresentMoves, TimesAreInts DEF StoreIsPast
  <2> QED BY <2>1, <2>2 DEF OwnIsNewest
<1>3. CASE ~Begin(c)
  <2>1. Writing(c) /\ proc'[c].cat = proc[c].cat /\ proc'[c].at = proc[c].at
    BY <1>3, WriterStays
  <2>2. ASSUME NEW d \in Children, Begin(d)
        PROVE  FALSE
    <3>1. Holding(d) /\ Holding(c)
      BY <2>1, <2>2 DEF Begin, At, Holding, Writing
    <3> QED BY <1>1, <1>3, <2>2, <3>1, OneWriter, Constants
  <2>3. ASSUME NEW t \in Time, store'[proc[c].cat][t].state # "absent"
        PROVE  t <= proc[c].at
    BY <1>1, <2>1, <2>2, <2>3, PresentMoves DEF WriterIsNewest, OwnIsNewest
  <2> QED BY <2>1, <2>3 DEF OwnIsNewest
<1> QED BY <1>2, <1>3

LEMMA OwnIsSparedStep ==
  ASSUME ProcTypes, DataTypes, DoomedAreOld, WriterIsNewest, [Next]_vars,
         NEW c \in Children, Writing(c)'
  PROVE  OwnIsSpared(c)'
<1>1. c \in Procs /\ proc[c].cat \in Category /\ proc[c].at \in Time
  BY Constants DEF ProcTypes, Process
<1> SUFFICES ASSUME NEW p \in Procs, proc'[p].cat = proc'[c].cat, NEW t \in proc'[p].doomed
             PROVE  t < proc'[c].at
  BY DEF OwnIsSpared
<1>2. CASE Begin(c)
  <2>1. proc'[c].at = now /\ proc'[p].doomed = proc[p].doomed
    BY <1>1, <1>2 DEF Begin, ProcTypes, Process
  <2> QED BY <2>1 DEF DoomedAreOld
<1>3. CASE ~Begin(c)
  <2>1. Writing(c) /\ proc'[c].cat = proc[c].cat /\ proc'[c].at = proc[c].at
    BY <1>3, WriterStays
  <2>2. CASE ~Scan(p)
    <3>1. proc'[p].doomed \subseteq proc[p].doomed /\ proc'[p].cat = proc[p].cat
      BY <2>2, DoomedMoves DEF Shrinks
    <3> QED BY <2>1, <3>1 DEF WriterIsNewest, OwnIsSpared
  <2>3. CASE Scan(p)
    <3>1. proc[p].cat = proc[c].cat
      BY <2>1, <2>3, ScanMarksOld
    <3>2. PICK u \in Present(proc[c].cat) : t < u
      BY <2>3, <3>1, ScanMarksOld
    <3>3. u \in Time /\ u <= proc[c].at
      BY <2>1, <3>2 DEF WriterIsNewest, OwnIsNewest, Present
    <3>4. t \in Time
      BY ProcTypesStep DEF ProcTypes, Process
    <3> QED BY <1>1, <2>1, <3>2, <3>3, <3>4, TimesAreInts
  <2> QED BY <2>2, <2>3
<1> QED BY <1>2, <1>3

-----------------------------------------------------------------------------
(* Cut-off archives. *)

\* <<k, t>> is being written, or was left behind.
Explained(k, t) ==
  \/ <<k, t>> \in left
  \/ \E c \in Children : At(c, "copy") /\ proc[c].cat = k /\ proc[c].at = t

\* A child that stops writing finishes the archive, removes it or leaves it
\* behind.
LEMMA WriterLeaves ==
  ASSUME ProcTypes, DataTypes, [Next]_vars,
         NEW c \in Children, At(c, "copy"), ~At(c, "copy")'
  PROVE  \/ Finish(c) \/ Fail(c) \/ (Kill(c) /\ <<proc[c].cat, proc[c].at>> \in left')
<1>1. c # "prune" /\ c # "restore" /\ c \in Procs
  BY StoreAssumption, Constants
<1>2. ASSUME NEW d \in Children, d # c, ChildStep(d)
      PROVE  proc'[c] = proc[c]
  BY <1>1, <1>2 DEF ChildStep, Lock, Poll, Skip, Begin, Finish, Fail, Add, Scan, ScanFails, ChildEnds,
     Unlink, Goto, Release, ProcTypes
<1>3. ASSUME ChildStep(c)
      PROVE  Finish(c) \/ Fail(c)
  <2>1. CASE \E g \in Files : Add(c, g)
    BY <1>1, <2>1 DEF Add, At, ProcTypes, Process
  <2>2. CASE ~\E g \in Files : Add(c, g)
    BY <1>3, <2>2 DEF ChildStep, At, Lock, Poll, Skip, Begin, Scan, ScanFails, ChildEnds, Unlink
  <2> QED BY <2>1, <2>2
<1>4. ASSUME NEW d \in Children, NEW k \in Category, NEW wait \in BOOLEAN, Spawn(d, k, wait)
      PROVE  proc'[c] = proc[c]
  BY <1>1, <1>4 DEF Spawn, At, ProcTypes
<1>5. CASE Prune
  BY <1>1, <1>5 DEF Prune, PruneBegins, PruneGoesOn, Scan, ScanFails, Unlink, At, ProcTypes
<1>6. CASE Restore
  BY <1>1, <1>6 DEF Restore, Select, Cancel, Confirm, Prepare, Extract, RestoreEnds, Clear, Move,
     Goto, Release, At, ProcTypes
<1>7. ASSUME NEW p \in Procs, p # c, Kill(p)
      PROVE  proc'[c] = proc[c]
  BY <1>1, <1>7 DEF Kill, ProcTypes
<1>8. CASE Kill(c)
  BY <1>8 DEF Kill
<1>9. CASE Tick \/ Server \/ UNCHANGED vars
  BY <1>9 DEF Tick, Server, StartGame, WritePid, GameEnds, GameGoes, ClearPid, BeginSave,
     WriteSave, vars, At
<1> QED BY <1>2, <1>3, <1>4, <1>5, <1>6, <1>7, <1>8, <1>9, Steps DEF At

\* A name leaves the set of those left behind with its archive, or is written anew.
LEMMA LeftMoves ==
  ASSUME ProcTypes, DataTypes, [Next]_vars,
         NEW k \in Category, NEW t \in Time, <<k, t>> \in left, <<k, t>> \notin left'
  PROVE  store'[k][t].state = "absent" \/ \E c \in Children : Begin(c) /\ proc[c].cat = k /\ now = t
<1>1. ASSUME NEW c \in Children, ChildStep(c), ~\E u \in Time : Unlink(c, u)
      PROVE  \E d \in Children : Begin(d) /\ proc[d].cat = k /\ now = t
  BY <1>1 DEF ChildStep, Lock, Poll, Skip, Begin, Finish, Fail, Add, Scan, ScanFails, ChildEnds
<1>2. ASSUME NEW p \in Procs, NEW u \in Time, Unlink(p, u)
      PROVE  store'[k][t].state = "absent"
  <2>1. proc[p].cat = k /\ u = t
    BY <1>2 DEF Unlink
  <2> QED BY <1>2, <2>1 DEF Unlink, DataTypes, Absent
<1>3. ASSUME NEW c \in Children, NEW j \in Category, NEW wait \in BOOLEAN, Spawn(c, j, wait)
      PROVE  FALSE
  BY <1>3 DEF Spawn
<1>4. CASE PruneBegins \/ PruneGoesOn \/ Scan("prune") \/ ScanFails("prune")
  BY <1>4 DEF PruneBegins, PruneGoesOn, Scan, ScanFails
<1>5. CASE Restore
  BY <1>5 DEF Restore, Select, Cancel, Confirm, Prepare, Extract, RestoreEnds, Clear, Move
<1>6. CASE (\E p \in Procs : Kill(p)) \/ Tick \/ Server \/ UNCHANGED vars
  BY <1>6 DEF Kill, Tick, Server, StartGame, WritePid, GameEnds, GameGoes, ClearPid, BeginSave,
     WriteSave, vars
<1>7. "prune" \in Procs /\ Children \subseteq Procs
  BY DEF Procs
<1> QED BY <1>1, <1>2, <1>3, <1>4, <1>5, <1>6, <1>7, Steps DEF Prune

\* An archive becomes a cut-off one only when it is begun.
LEMMA PartialMoves ==
  ASSUME ProcTypes, DataTypes, [Next]_vars,
         NEW k \in Category, NEW t \in Time, store'[k][t].state = "partial"
  PROVE  \/ store[k][t].state = "partial"
         \/ \E c \in Children : Begin(c) /\ proc[c].cat = k /\ now = t
<1> USE Constants
<1>1. ASSUME NEW c \in Children, Begin(c)
      PROVE  store[k][t].state = "partial" \/ (now = t /\ proc[c].cat = k)
  BY <1>1 DEF Begin, DataTypes
<1>2. ASSUME NEW c \in Children, Finish(c)
      PROVE  store[k][t].state = "partial"
  <2>1. proc[c].cat \in Category /\ proc[c].at \in Time
    BY DEF ProcTypes, Process
  <2>2. store[proc[c].cat][proc[c].at] \in Archives
    BY <2>1 DEF DataTypes
  <2> QED BY <1>2, <2>1, <2>2 DEF Finish, DataTypes, Archives
<1>3. ASSUME NEW c \in Children, Fail(c)
      PROVE  store[k][t].state = "partial"
  BY <1>3 DEF Fail, DataTypes, Absent
<1>4. ASSUME NEW c \in Children, NEW g \in Files, Add(c, g)
      PROVE  store[k][t].state = "partial"
  <2>1. proc[c].cat \in Category /\ proc[c].at \in Time
    BY DEF ProcTypes, Process
  <2>2. store[proc[c].cat][proc[c].at] \in Archives
    BY <2>1 DEF DataTypes
  <2> QED BY <1>4, <2>1, <2>2 DEF Add, DataTypes, Archives
<1>5. ASSUME NEW p \in Procs, NEW u \in Time, Unlink(p, u)
      PROVE  store[k][t].state = "partial"
  <2>1. proc[p].cat \in Category
    BY DEF ProcTypes, Process
  <2>2. CASE store' = [store EXCEPT ![proc[p].cat][u] = Absent]
    BY <2>1, <2>2 DEF DataTypes, Absent
  <2> QED BY <1>5, <2>2 DEF Unlink
<1> QED BY <1>1, <1>2, <1>3, <1>4, <1>5, StoreMoves

LEMMA PartialStep ==
  ASSUME ProcTypes, DataTypes, PartialIsExplained, [Next]_vars
  PROVE  PartialIsExplained'
<1> SUFFICES ASSUME NEW k \in Category, NEW t \in Time, store'[k][t].state = "partial"
             PROVE  Explained(k, t)'
  BY DEF PartialIsExplained, Explained
<1>1. ASSUME NEW c \in Children, Begin(c), proc[c].cat = k, now = t
      PROVE  Explained(k, t)'
  <2>1. c \in Procs
    BY Constants
  <2> QED BY <1>1, <2>1 DEF Begin, Explained, At, ProcTypes, Process
<1>2. CASE ~\E c \in Children : Begin(c) /\ proc[c].cat = k /\ now = t
  <2>1. store[k][t].state = "partial"
    BY <1>2, PartialMoves
  <2>2. CASE <<k, t>> \in left
    <3>1. <<k, t>> \in left'
      BY <1>2, <2>2, LeftMoves
    <3> QED BY <3>1 DEF Explained
  <2>3. ASSUME NEW c \in Children, At(c, "copy"), proc[c].cat = k, proc[c].at = t
        PROVE  Explained(k, t)'
    <3>1. CASE At(c, "copy")'
      <4>1. Writing(c)' /\ ~Begin(c)
        BY <2>3, <3>1 DEF At, Writing, Begin
      <4> QED BY <2>3, <3>1, <4>1, WriterStays DEF Explained
    <3>2. CASE Finish(c)
      <4>1. store[k][t] \in Archives
        BY DEF DataTypes
      <4> QED BY <2>3, <3>2, <4>1 DEF Finish, DataTypes, Archives
    <3>3. CASE Fail(c)
      BY <2>3, <3>3 DEF Fail, DataTypes, Absent, Explained
    <3>4. CASE <<proc[c].cat, proc[c].at>> \in left'
      BY <2>3, <3>4 DEF Explained
    <3> QED BY <2>3, <3>1, <3>2, <3>3, <3>4, WriterLeaves
  <2> QED BY <2>1, <2>2, <2>3 DEF PartialIsExplained
<1> QED BY <1>1, <1>2

-----------------------------------------------------------------------------
(* The exit backup. *)

ExitIsClosing == "exit" \in Children /\ ~At("exit", "idle") => game = "closing"

Copied(f) == store[proc["exit"].cat][proc["exit"].at].data[f] = saves[f]

\* What is not yet to be read was read as it still is.
ExitCopies ==
  "exit" \in Children =>
    /\ At("exit", "copy") => \A f \in Files : f \in proc["exit"].todo \/ Copied(f)
    /\ At("exit", "retain") => \A f \in Files : Copied(f)

LEMMA ExitIsClosingStep ==
  ASSUME ProcTypes, ExitIsClosing, [Next]_vars
  PROVE  ExitIsClosing'
<1> SUFFICES ASSUME "exit" \in Children PROVE ~At("exit", "idle")' => game' = "closing"
  BY DEF ExitIsClosing
<1> USE Constants DEF ExitIsClosing, At, ProcTypes, Process
<1>1. ASSUME NEW c \in Children, ChildStep(c)
      PROVE  UNCHANGED game /\ (c # "exit" => proc'["exit"] = proc["exit"]) /\ proc[c].pc # "idle"
  BY <1>1 DEF ChildStep, Lock, Poll, Skip, Begin, Finish, Fail, Add, Scan, ScanFails, ChildEnds,
     Unlink, Goto, Release
<1>2. ASSUME NEW c \in Children, NEW k \in Category, NEW wait \in BOOLEAN, Spawn(c, k, wait)
      PROVE  ~At("exit", "idle")' => game' = "closing"
  BY <1>2 DEF Spawn
<1>3. CASE Prune
  BY <1>3, StoreAssumption DEF Prune, PruneBegins, PruneGoesOn, Scan, ScanFails, Unlink
<1>4. CASE Restore
  BY <1>4, StoreAssumption DEF Restore, Select, Cancel, Confirm, Prepare, Extract, RestoreEnds,
     Clear, Move, Goto, Release
<1>5. ASSUME NEW p \in Procs, Kill(p)
      PROVE  ~At("exit", "idle")' => game' = "closing"
  BY <1>5 DEF Kill, Idle
<1>6. CASE Tick \/ Server \/ UNCHANGED vars
  BY <1>6 DEF Tick, Server, StartGame, WritePid, GameEnds, GameGoes, ClearPid, BeginSave,
     WriteSave, vars
<1>7. ASSUME NEW c \in Children, ChildStep(c)
      PROVE  ~At("exit", "idle")' => game' = "closing"
  BY <1>1, <1>7
<1> QED BY <1>2, <1>3, <1>4, <1>5, <1>6, <1>7, Steps

\* While the exit backup has the lock, nobody changes the saves.
LEMMA SavesStand ==
  ASSUME HoldersHaveTheLock, ExitIsClosing, [Next]_vars, "exit" \in Children,
         proc["exit"].pc \in {"plan", "copy", "retain"}
  PROVE  UNCHANGED saves
<1>1. game = "closing"
  BY DEF ExitIsClosing, At
<1>2. Holding("exit") /\ "exit" \in Procs /\ "restore" \in Procs /\ "exit" # "restore"
  BY DEF Holding, Procs
<1>3. ~Holding("restore")
  BY <1>2, OneWriter
<1> QED BY <1>1, <1>3, SavesMoves

\* An archive's content changes only at the hands of the child that writes it.
LEMMA OwnDataStands ==
  ASSUME ProcTypes, DataTypes, HoldersHaveTheLock, WriterIsNewest, [Next]_vars,
         NEW c \in Children, Writing(c), Writing(c)', ~\E g \in Files : Add(c, g)
  PROVE  store'[proc[c].cat][proc[c].at].data = store[proc[c].cat][proc[c].at].data
<1>1. c \in Procs /\ proc[c].cat \in Category /\ proc[c].at \in Time
  BY Constants DEF ProcTypes, Process
<1>2. ASSUME NEW d \in Children, Begin(d) \/ Fail(d) \/ \E g \in Files : Add(d, g)
      PROVE  FALSE
  <2>1. Holding(d) /\ Holding(c) /\ d \in Procs
    BY <1>2, Constants DEF Begin, Fail, Add, At, Holding, Writing
  <2>2. c = d
    BY <1>1, <2>1, OneWriter
  <2>3. CASE Fail(c)
    BY <1>1, <2>3 DEF Fail, Release, Idle, ProcTypes, Writing
  <2> QED BY <1>2, <2>2, <2>3 DEF Begin, At, Writing
<1>3. ASSUME NEW d \in Children, Finish(d)
      PROVE  store'[proc[c].cat][proc[c].at].data = store[proc[c].cat][proc[c].at].data
  <2>1. d \in Procs /\ proc[d].cat \in Category /\ proc[d].at \in Time
    BY Constants DEF ProcTypes, Process
  <2>2. store[proc[d].cat][proc[d].at] \in Archives
    BY <2>1 DEF DataTypes
  <2> QED BY <1>1, <1>3, <2>1, <2>2 DEF Finish, DataTypes, Archives
<1>4. ASSUME NEW p \in Procs, NEW t \in Time, Unlink(p, t)
      PROVE  store'[proc[c].cat][proc[c].at] = store[proc[c].cat][proc[c].at]
  <2>1. proc[p].cat = proc[c].cat => t < proc[c].at
    BY <1>4 DEF Unlink, WriterIsNewest, OwnIsSpared
  <2>2. <<proc[p].cat, t>> # <<proc[c].cat, proc[c].at>>
    BY <1>1, <2>1, TimesAreInts
  <2>3. proc[p].cat \in Category
    BY DEF ProcTypes, Process
  <2> QED BY <1>1, <1>4, <2>2, <2>3 DEF Unlink, DataTypes
<1> QED BY <1>2, <1>3, <1>4, StoreMoves

LEMMA ExitCopiesStep ==
  ASSUME ProcTypes, DataTypes, HoldersHaveTheLock, WriterIsNewest, ExitIsClosing, ExitCopies,
         [Next]_vars
  PROVE  ExitCopies'
<1> SUFFICES ASSUME "exit" \in Children, proc'["exit"].pc \in {"copy", "retain"},
                    NEW f \in Files,
                    ~(At("exit", "copy")' /\ f \in proc'["exit"].todo)
             PROVE  Copied(f)'
  BY DEF ExitCopies, At
<1> DEFINE e == proc["exit"]
<1>1. "exit" \in Procs /\ e \in Process /\ e.cat \in Category /\ e.at \in Time
  BY DEF Procs, ProcTypes, Process
<1>2. Writing("exit")'
  BY DEF Writing
<1>3. CASE Begin("exit")
  <2>1. saves' = saves
    BY <1>3 DEF Begin
  <2>2. proc'["exit"].cat = e.cat /\ proc'["exit"].at = now
        /\ proc'["exit"].todo = {g \in Files : saves[g] # Gone} /\ proc'["exit"].pc = "copy"
    BY <1>1, <1>3 DEF Begin, ProcTypes, Process
  <2>3. saves[f] = Gone
    BY <2>2 DEF At
  <2>4. store'[e.cat][now].data[f] = Gone
    BY <1>1, <1>3 DEF Begin, DataTypes, Opened, Nothing
  <2> QED BY <2>1, <2>2, <2>3, <2>4 DEF Copied
<1>4. ASSUME ~Begin("exit")
      PROVE  Copied(f)'
  <2>1. Writing("exit") /\ proc'["exit"].cat = e.cat /\ proc'["exit"].at = e.at
    BY <1>2, <1>4, WriterStays
  <2>2. ASSUME NEW g \in Files, Add("exit", g)
        PROVE  Copied(f)'
    <3>1. proc'["exit"].pc = "copy" /\ proc'["exit"].todo = e.todo \ {g} /\ e.pc = "copy"
      BY <1>1, <2>2 DEF Add, At, ProcTypes, Process
    <3>2. saves' = saves
      BY <2>2 DEF Add
    <3>3. store[e.cat][e.at] \in Archives
      BY <1>1 DEF DataTypes
    <3>4. store'[e.cat][e.at].data = [store[e.cat][e.at].data EXCEPT ![g] = saves[g]]
      BY <1>1, <2>2, <3>3 DEF Add, DataTypes, Archives
    <3>5. CASE f = g
      BY <2>1, <3>2, <3>3, <3>4, <3>5 DEF Copied, Archives, Contents
    <3>6. CASE f # g
      <4>1. Copied(f)
        BY <3>1, <3>6 DEF ExitCopies, At
      <4> QED BY <2>1, <3>2, <3>3, <3>4, <3>6, <4>1 DEF Copied, Archives, Contents
    <3> QED BY <3>5, <3>6
  <2>3. ASSUME ~\E g \in Files : Add("exit", g)
        PROVE  Copied(f)'
    <3>1. /\ e.pc \in {"copy", "retain"}
          /\ e.pc = "copy" => f \notin e.todo
      <4>1. CASE Finish("exit")
        BY <1>1, <4>1 DEF Finish, At, Goto, ProcTypes, Process
      <4>2. CASE Scan("exit")
        BY <1>1, <4>2 DEF Scan, At, ProcTypes, Process
      <4>3. CASE \E t \in Time : Unlink("exit", t)
        BY <1>1, <4>3 DEF Unlink, At, ProcTypes, Process
      <4>4. CASE proc'["exit"] = proc["exit"]
        BY <4>4 DEF At
      <4> QED BY <1>2, <1>4, <2>3, <4>1, <4>2, <4>3, <4>4, WriterMoves
    <3>2. Copied(f)
      BY <3>1 DEF ExitCopies, At
    <3>3. saves' = saves
      BY <3>1, SavesStand
    <3>4. store'[e.cat][e.at].data = store[e.cat][e.at].data
      BY <1>2, <2>1, <2>3, OwnDataStands
    <3> QED BY <2>1, <3>2, <3>3, <3>4 DEF Copied
  <2> QED BY <2>2, <2>3
<1> QED BY <1>3, <1>4

-----------------------------------------------------------------------------
(* The invariant, and what follows from it. *)

IInv == Types /\ HoldersHaveTheLock /\ StoreInv /\ PartialIsExplained /\ ExitIsClosing /\ ExitCopies

LEMMA InitIInv == Init => IInv
<1> SUFFICES ASSUME Init PROVE IInv
  OBVIOUS
<1> USE Constants
<1>1. \A p \in Procs : proc[p] = Idle
  BY DEF Init
<1>2. Types
  <2>1. Absent \in Archives
    BY DEF Absent, Archives
  <2>2. saves \in Contents /\ world \in 0 .. MaxWorld
    BY StoreAssumption DEF Init, Contents, Gone
  <2> QED BY <2>1, <2>2 DEF Init, Types, ProcTypes, DataTypes, GameTypes
<1>3. HoldersHaveTheLock
  BY <1>1 DEF Init, HoldersHaveTheLock, Holding, Idle
<1>4. StoreIsPast /\ PartialIsExplained
  BY DEF Init, StoreIsPast, PartialIsExplained, Absent
<1>5. DoomedAreOld /\ WriterIsNewest
  BY <1>1 DEF DoomedAreOld, WriterIsNewest, Writing, Idle
<1>6. ExitIsClosing /\ ExitCopies
  BY <1>1 DEF ExitIsClosing, ExitCopies, At, Idle
<1> QED BY <1>2, <1>3, <1>4, <1>5, <1>6 DEF IInv, StoreInv

LEMMA StepIInv ==
  ASSUME IInv, [Next]_vars
  PROVE  IInv'
<1> USE DEF IInv, Types, StoreInv
<1>1. Types'
  BY ProcTypesStep, DataTypesStep, GameTypesStep
<1>2. HoldersHaveTheLock'
  BY LockStep
<1>3. StoreIsPast' /\ DoomedAreOld'
  BY StoreIsPastStep, DoomedAreOldStep
<1>4. WriterIsNewest'
  <2> SUFFICES ASSUME NEW c \in Children, Writing(c)'
               PROVE  OwnArchive(c)' /\ OwnIsNewest(c)' /\ OwnIsSpared(c)'
    BY DEF WriterIsNewest
  <2> QED BY OwnArchiveStep, OwnIsNewestStep, OwnIsSparedStep
<1>5. PartialIsExplained'
  BY PartialStep
<1>6. ExitIsClosing'
  BY ExitIsClosingStep
<1>7. ExitCopies'
  BY ExitCopiesStep
<1> QED BY <1>1, <1>2, <1>3, <1>4, <1>5, <1>6, <1>7

\* The inductive invariant holds of the backup directory, whoever shares it.
THEOREM StoreInvariant == Spec => []IInv
<1>1. Init => IInv
  BY InitIInv
<1>2. IInv /\ [Next]_vars => IInv'
  BY StepIInv
<1> QED BY <1>1, <1>2, PTL DEF Spec

\* Every file, archive and process is one that the code has a name for: no
\* child waits beyond its attempts, and no name lies beyond the clock's.
THEOREM StoreTypeCorrect == Spec => []TypeOK
<1>1. IInv => TypeOK
  BY DEF IInv, Types, ProcTypes, DataTypes, GameTypes, TypeOK, Process
<1> QED BY <1>1, StoreInvariant, PTL

\* acquire_lock() and the finally clauses: a backup, a child's retention or a
\* restore is at work exactly while its process holds the lock.
THEOREM LockIsHeld == Spec => []HoldersHaveTheLock
<1>1. IInv => HoldersHaveTheLock
  BY DEF IInv
<1> QED BY <1>1, StoreInvariant, PTL

\* The archive a child is writing stays in the directory, whatever the prune
\* command and the settings of retention are: it is the newest of its category.
THEOREM WriterKeeps == Spec => []WriterKeepsItsFile
<1>1. ASSUME IInv, NEW c \in Children, At(c, "copy")
      PROVE  proc[c].at \in Present(proc[c].cat)
  <2>1. Writing(c) /\ OwnArchive(c)
    BY <1>1 DEF IInv, StoreInv, WriterIsNewest, Writing, At
  <2>2. c \in Procs /\ proc[c].at \in Time
    BY <1>1, Constants DEF IInv, Types, ProcTypes, Process
  <2> QED BY <1>1, <2>1, <2>2 DEF OwnArchive, At, Present
<1>2. IInv => WriterKeepsItsFile
  BY <1>1 DEF WriterKeepsItsFile
<1> QED BY <1>2, StoreInvariant, PTL

\* create_backup() leaves a cut-off archive only by being killed or by failing
\* to unlink it.
THEOREM PartialsExplained == Spec => []PartialIsExplained
<1>1. IInv => PartialIsExplained
  BY DEF IInv
<1> QED BY <1>1, StoreInvariant, PTL

\* The backup that ends an ordered exit holds the saves as they are, file for
\* file: neither the game nor a restore wrote while it was taken.
THEOREM ExitBackupExact == Spec => []ExitBackupIsExact
<1>1. ASSUME IInv, "exit" \in Children, At("exit", "retain")
      PROVE  store[proc["exit"].cat][proc["exit"].at] = [state |-> "whole", data |-> saves]
  <2> DEFINE a == store[proc["exit"].cat][proc["exit"].at]
  <2>1. "exit" \in Procs /\ a \in Archives /\ saves \in Contents
    BY <1>1 DEF Procs, IInv, Types, ProcTypes, DataTypes, Process
  <2>2. a.state = "whole"
    BY <1>1 DEF IInv, StoreInv, WriterIsNewest, Writing, OwnArchive, At
  <2>3. \A f \in Files : a.data[f] = saves[f]
    BY <1>1 DEF IInv, ExitCopies, Copied
  <2>4. a.data = saves
    BY <2>1, <2>3 DEF Archives, Contents
  <2> QED BY <2>1, <2>2, <2>4 DEF Archives
<1>2. IInv => ExitBackupIsExact
  BY <1>1 DEF ExitBackupIsExact
<1> QED BY <1>2, StoreInvariant, PTL

\* A category loses its last whole archive to the prune command or to a second
\* backup of the same second, and to nothing else.
LEMMA WholeSurvives ==
  ASSUME IInv, [Next]_vars, NEW k \in Category, HasWhole(k), ~HasWhole(k)'
  PROVE  PruneRemoves(k) \/ Overwrites(k)
<1> USE DEF IInv, Types, StoreInv
<1>1. PICK t \in Time : store[k][t].state = "whole"
  BY DEF HasWhole
<1>2. \A u \in Time : store'[k][u].state # "whole"
  BY DEF HasWhole
<1>3. ASSUME NEW c \in Children
      PROVE  c \in Procs /\ proc[c].cat \in Category /\ proc[c].at \in Time
             /\ store[proc[c].cat][proc[c].at] \in Archives
  <2>1. c \in Procs /\ proc[c].cat \in Category /\ proc[c].at \in Time
    BY Constants DEF ProcTypes, Process
  <2> QED BY <2>1 DEF DataTypes
<1>4. ASSUME NEW c \in Children, Begin(c)
      PROVE  Overwrites(k)
  <2>1. proc[c].cat = k /\ now = t
    BY <1>1, <1>2, <1>4 DEF Begin, DataTypes
  <2>2. proc'[c].pc = "copy"
    BY <1>3, <1>4 DEF Begin, ProcTypes, Process
  <2> QED BY <1>1, <1>4, <2>1, <2>2 DEF Begin, Overwrites, Present
<1>5. ASSUME NEW c \in Children, Finish(c)
      PROVE  FALSE
  BY <1>1, <1>2, <1>3, <1>5 DEF Finish, DataTypes, Archives
<1>6. ASSUME NEW c \in Children, Fail(c)
      PROVE  FALSE
  <2>1. store[proc[c].cat][proc[c].at].state = "partial"
    BY <1>6 DEF Fail, At, WriterIsNewest, Writing, OwnArchive
  <2> QED BY <1>1, <1>2, <1>6, <2>1 DEF Fail, DataTypes
<1>7. ASSUME NEW c \in Children, NEW g \in Files, Add(c, g)
      PROVE  FALSE
  BY <1>1, <1>2, <1>3, <1>7 DEF Add, DataTypes, Archives
<1>8. ASSUME NEW c \in Children, NEW u \in Time, Unlink(c, u)
      PROVE  FALSE
  <2>1. Writing(c) /\ proc[c].pc = "unlink" /\ u \in proc[c].doomed
    BY <1>8 DEF Unlink, At, Writing
  <2>2. store[proc[c].cat][proc[c].at].state = "whole" /\ u < proc[c].at
    BY <1>3, <2>1 DEF WriterIsNewest, OwnArchive, OwnIsSpared
  <2>3. proc[c].cat = k
    BY <1>1, <1>2, <1>8 DEF Unlink, DataTypes
  <2>4. u # proc[c].at
    BY <1>3, <2>2, TimesAreInts
  <2>5. store'[k][proc[c].at] = store[k][proc[c].at]
    BY <1>3, <1>8, <2>3, <2>4 DEF Unlink, DataTypes
  <2> QED BY <1>2, <1>3, <2>2, <2>3, <2>5
<1>9. ASSUME NEW u \in Time, Unlink("prune", u)
      PROVE  PruneRemoves(k)
  <2>1. proc["prune"].cat = k
    BY <1>1, <1>2, <1>9 DEF Unlink, DataTypes
  <2>2. proc'["prune"] # proc["prune"]
    BY <1>9 DEF Unlink, ProcTypes, Process, Procs
  <2> QED BY <1>9, <2>1, <2>2 DEF Unlink, PruneRemoves
<1> QED BY <1>1, <1>2, <1>4, <1>5, <1>6, <1>7, <1>8, <1>9, StoreMovers

\* Nobody but the prune command changes the archive that a restore reads.
LEMMA SourceSurvives ==
  ASSUME IInv, [Next]_vars, NEW k \in Category, NEW t \in Time,
         Source(k, t), store'[k][t] # store[k][t]
  PROVE  PruneRemoves(k)
<1> USE DEF IInv, Types
<1>1. Holding("restore") /\ "restore" \in Procs /\ "restore" \notin Children
  BY StoreAssumption DEF Source, Procs
<1>2. ASSUME NEW c \in Children
      PROVE  ~Holding(c)
  BY <1>1, OneWriter, Constants
<1>3. ASSUME NEW c \in Children,
             Begin(c) \/ Finish(c) \/ Fail(c) \/ (\E g \in Files : Add(c, g)) \/ \E u \in Time : Unlink(c, u)
      PROVE  FALSE
  BY <1>2, <1>3 DEF Begin, Finish, Fail, Add, Unlink, At, Holding
<1>4. ASSUME NEW u \in Time, Unlink("prune", u)
      PROVE  PruneRemoves(k)
  <2>1. proc["prune"].cat = k
    BY <1>4 DEF Unlink, DataTypes
  <2>2. proc'["prune"] # proc["prune"]
    BY <1>4 DEF Unlink, ProcTypes, Process, Procs
  <2> QED BY <1>4, <2>1, <2>2 DEF Unlink, PruneRemoves
<1> QED BY <1>3, <1>4, StoreMovers

\* No archive that matters goes but by the prune command or a backup of the
\* same second: a category that can be restored stays so, and a restore at work
\* keeps its source.
THEOREM ArchivesStay == Spec => ArchivesSurvive
<1>1. ASSUME IInv, [Next]_vars, NEW k \in Category
      PROVE  /\ HasWhole(k) /\ ~HasWhole(k)' => PruneRemoves(k) \/ Overwrites(k)
             /\ \A t \in Present(k) :
                  Source(k, t) /\ store'[k][t] # store[k][t] => PruneRemoves(k)
  <2>1. HasWhole(k) /\ ~HasWhole(k)' => PruneRemoves(k) \/ Overwrites(k)
    BY <1>1, WholeSurvives
  <2>2. ASSUME NEW t \in Present(k), Source(k, t), store'[k][t] # store[k][t]
        PROVE  PruneRemoves(k)
    BY <1>1, <2>2, SourceSurvives DEF Present
  <2> QED BY <2>1, <2>2
<1>2. IInv /\ [Next]_vars =>
        [\A k \in Category :
           /\ HasWhole(k) /\ ~HasWhole(k)' => PruneRemoves(k) \/ Overwrites(k)
           /\ \A t \in Present(k) :
                Source(k, t) /\ store'[k][t] # store[k][t] => PruneRemoves(k)]_vars
  BY <1>1
<1> QED BY <1>2, StoreInvariant, PTL DEF Spec, ArchivesSurvive
=============================================================================
