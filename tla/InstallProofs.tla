---------------------------- MODULE InstallProofs ----------------------------
(* What an install, its marker and the game tree are to each other, for     *)
(* every set of manifests, depots, paths, settings and processes.           *)
EXTENDS Install, TLAPS

-----------------------------------------------------------------------------
(* The types. *)

Process == [pc : Locations, version : Version, m : Manifests \cup {None},
            todo : SUBSET (Depots \cup Persist), now : SUBSET (Depots \cup Persist)]

Early == {"idle", "prepare", "resolve"}

ManifestIsKnown == \A p \in Procs : proc[p].m = None => proc[p].pc \in Early

ProcTypes == proc \in [Procs -> Process] /\ ManifestIsKnown

Statuses == {"cut", "most", "moved", "full"}

InstallTypes ==
  /\ depot \in [Manifests -> [Depots -> Statuses]]
  /\ marker \subseteq Manifests /\ readonly \subseteq Manifests /\ torn \subseteq Manifests

GameTypes ==
  /\ tree \in [Names -> Link]
  /\ saved \in [Persist -> {"none", "cut", "seed", "edited"}]
  /\ config \in {"none", "cut", "whole"}

SourceTypes == newest \in Manifests /\ cache \in Manifests \cup {None}

\* The rest of what TypeOK says.
WorldTypes ==
  /\ env \in Envs /\ online \in BOOLEAN /\ keys \in BOOLEAN
  /\ mods \subseteq ModNames /\ faults \in 0 .. MaxFaults

Types == ProcTypes /\ InstallTypes /\ GameTypes /\ SourceTypes

LEMMA Constants ==
  /\ None \notin Manifests /\ Idle \in Process /\ "start" \in Procs
  /\ Default \in Depots /\ Exe \in Holds[Default] /\ Exe \in GamePaths
  /\ \A p \in Procs : \A v \in Versions[p] : v \in Version
<1>1. Idle \in Process
  BY DEF Idle, Latest, Version, Process, Locations
<1>2. None \notin Manifests /\ \A p \in Procs : Versions[p] \subseteq Version
  BY InstallAssumption DEF None
<1>3. Default \in Depots /\ Exe \in Holds[Default]
  BY InstallAssumption
<1>4. Exe \in GamePaths
  BY <1>3 DEF GamePaths
<1> QED BY <1>1, <1>2, <1>3, <1>4 DEF Procs

\* A step of an install, or its failure, or its beginning.
Acts(p) == InstallStep(p) \/ Failure(p) \/ \E v \in Versions[p] : Begin(p, v)

\* A step of the start command once its install is there.
Starts == TreeStep \/ TreeFails \/ ServerEnds

\* A step of the world around the processes.
Turns == Publish \/ GoOffline \/ GoOnline \/ ChangeMods \/ \E n \in Persist : Edit(n)

\* Each step of the system is a step of one of its actors.
LEMMA Steps ==
  ASSUME [Next]_vars
  PROVE  (\E p \in Procs : Acts(p)) \/ Starts \/ Turns \/ UNCHANGED vars
  BY DEF Next, Acts, Starts, Turns

\* What each actor leaves alone.
LEMMA ActsFrame ==
  ASSUME NEW p \in Procs, Acts(p)
  PROVE  UNCHANGED <<world, game>>
<1>1. ASSUME Resolve(p) \/ Download(p)
      PROVE  UNCHANGED <<world, game>>
  BY <1>1 DEF Resolve, ResolveGiven, ResolveBuild, ResolveLatest, Record, ResolveCached,
     Download, Fetch, Validate, Replace, Recreate, Fill, world
<1>2. ASSUME \/ Prepare(p) \/ Skip(p) \/ Discover(p) \/ FetchRefused(p)
             \/ Inspect(p) \/ Mark(p) \/ Seal(p)
      PROVE  UNCHANGED <<world, game>>
  BY <1>2 DEF Prepare, Skip, Discover, FetchRefused, Inspect, Mark, Seal
<1>3. ASSUME Failure(p) \/ \E v \in Versions[p] : Begin(p, v)
      PROVE  UNCHANGED <<world, game>>
  BY <1>3 DEF Failure, PrepareFails, CheckFails, FetchFails, Kill, Begin
<1> QED BY <1>1, <1>2, <1>3 DEF Acts, InstallStep

LEMMA StartsFrame ==
  ASSUME Starts
  PROVE  UNCHANGED <<world, sources, installs>>
  BY DEF Starts, TreeStep, Wipe, Links, Overlay, Composed, Configure, Run, Seed, Seeded,
     PersistLink, TreeFails, ServerEnds

LEMMA TurnsFrame ==
  ASSUME Turns \/ UNCHANGED vars
  PROVE  UNCHANGED <<proc, installs, sources, tree, config>>
  BY DEF Turns, Publish, GoOffline, GoOnline, ChangeMods, Edit, vars, game

\* A process that moves on keeps its types, and its manifest unless it has one now.
LEMMA MovesOn ==
  ASSUME ProcTypes, NEW p \in Procs, NEW q \in Process, proc' = [proc EXCEPT ![p] = q],
         q.m = None => q.pc \in Early
  PROVE  ProcTypes'
  BY DEF ProcTypes, ManifestIsKnown

LEMMA Goes ==
  ASSUME ProcTypes, NEW p \in Procs, NEW loc \in Locations, Goto(p, loc),
         proc[p].m = None => loc \in Early
  PROVE  ProcTypes'
<1>1. proc[p] \in Process
  BY DEF ProcTypes
<1>2. [proc[p] EXCEPT !.pc = loc] \in Process
  BY <1>1 DEF Process
<1>3. proc' = [proc EXCEPT ![p] = [proc[p] EXCEPT !.pc = loc]]
  BY DEF Goto
<1>4. [proc[p] EXCEPT !.pc = loc].m = proc[p].m /\ [proc[p] EXCEPT !.pc = loc].pc = loc
  BY <1>1 DEF Process
<1> QED BY <1>2, <1>3, <1>4, MovesOn

LEMMA Stops ==
  ASSUME ProcTypes, NEW p \in Procs, Stop(p)
  PROVE  ProcTypes'
<1>1. Idle \in Process /\ Idle.pc \in Early
  BY Constants DEF Idle, Early
<1> QED BY <1>1, MovesOn DEF Stop

\* The steps of a process that is past the resolution: it moves or stops, or
\* has something else to do.
LEMMA Works ==
  ASSUME ProcTypes, NEW p \in Procs, proc[p].pc \notin Early,
         Stop(p) \/ \E loc \in Locations : Goto(p, loc)
  PROVE  ProcTypes'
<1>1. proc[p].m # None
  BY DEF ProcTypes, ManifestIsKnown
<1> QED BY <1>1, Goes, Stops

LEMMA NewWork ==
  ASSUME ProcTypes, NEW p \in Procs, proc[p].pc \notin Early, NEW loc \in Locations,
         NEW S \in SUBSET (Depots \cup Persist), NEW T \in SUBSET (Depots \cup Persist),
         proc' = [proc EXCEPT ![p] = [proc[p] EXCEPT !.pc = loc, !.todo = S, !.now = T]]
  PROVE  ProcTypes'
<1> DEFINE q == [proc[p] EXCEPT !.pc = loc, !.todo = S, !.now = T]
<1>1. proc[p] \in Process /\ proc[p].m # None
  BY DEF ProcTypes, ManifestIsKnown
<1>2. q \in Process /\ q.m # None
  BY <1>1 DEF Process
<1> QED BY <1>2, MovesOn

LEMMA InstallStepTypes ==
  ASSUME Types, NEW p \in Procs, InstallStep(p)
  PROVE  ProcTypes'
<1> USE Constants DEF Types
<1>1. proc[p] \in Process /\ (proc[p].m = None => proc[p].pc \in Early)
  BY DEF ProcTypes, ManifestIsKnown
<1>2. CASE Prepare(p)
  BY <1>2, Goes DEF Prepare, Locations, Early
<1>3. ASSUME NEW id \in Manifests, NEW loc \in {"check", "record"},
             proc' = [proc EXCEPT ![p].pc = loc, ![p].m = id]
      PROVE  ProcTypes'
  <2> DEFINE q == [proc[p] EXCEPT !.pc = loc, !.m = id]
  <2>1. q \in Process /\ q.m # None
    BY <1>1 DEF Process, Locations
  <2>2. proc' = [proc EXCEPT ![p] = q]
    BY <1>3
  <2> QED BY <2>1, <2>2, MovesOn
<1>4. CASE ResolveGiven(p)
  <2>1. proc[p].version \in Version /\ proc[p].version.kind = "id"
    BY <1>1, <1>4 DEF Process, ResolveGiven
  <2>2. proc[p].version.m \in Manifests
    BY <2>1 DEF Version
  <2> QED BY <1>3, <1>4, <2>2 DEF ResolveGiven
<1>5. CASE ResolveBuild(p)
  <2>1. proc[p].version.m \in Manifests \cup {None}
    BY <1>1 DEF Process, Version
  <2>2. CASE ~online \/ proc[p].version.m = None
    BY <1>5, <2>2, Stops DEF ResolveBuild
  <2>3. CASE ~(~online \/ proc[p].version.m = None)
    <3>1. proc' = [proc EXCEPT ![p].pc = "check", ![p].m = proc[p].version.m]
      BY <1>5, <2>3 DEF ResolveBuild
    <3> QED BY <1>3, <2>1, <2>3, <3>1
  <2> QED BY <2>2, <2>3
<1>6. CASE ResolveLatest(p)
  BY <1>3, <1>6 DEF ResolveLatest, SourceTypes
<1>7. CASE ResolveCached(p)
  <2>1. CASE cache = None
    BY <1>7, <2>1, Stops DEF ResolveCached
  <2>2. CASE cache # None
    BY <1>3, <1>7, <2>2 DEF ResolveCached, SourceTypes
  <2> QED BY <2>1, <2>2
<1>8. ASSUME proc[p].pc \notin Early,
             Stop(p) \/ \E loc \in Locations : Goto(p, loc)
      PROVE  ProcTypes'
  BY <1>8, Works
<1>9. CASE \/ Record(p) \/ Skip(p) \/ FetchRefused(p) \/ Inspect(p) \/ Mark(p) \/ Seal(p)
           \/ Replace(p) \/ Recreate(p)
  <2>1. proc[p].pc \notin Early
    BY <1>9 DEF Record, Skip, FetchRefused, Fetching, Inspect, Mark, Seal, Replace,
                Recreate, Writes, At, Early
  <2>2. Stop(p) \/ \E loc \in Locations : Goto(p, loc)
    BY <1>9 DEF Record, Skip, FetchRefused, Inspect, Mark, Seal, Replace, Recreate, Locations
  <2> QED BY <1>8, <2>1, <2>2
<1>10. CASE Discover(p) \/ Fetch(p) \/ Validate(p) \/ Fill(p)
  <2>1. proc[p].pc \notin Early
    BY <1>10 DEF Discover, Fetch, Validate, Fill, Writes, At, Early
  <2>2. "fetch" \in Locations /\ "fill" \in Locations /\ "replace" \in Locations
    BY DEF Locations
  <2>3. /\ proc[p].pc \in Locations /\ proc[p].todo \in SUBSET (Depots \cup Persist)
        /\ proc[p].now \in SUBSET (Depots \cup Persist)
    BY <1>1 DEF Process
  <2>4. CASE Discover(p)
    <3>1. PICK S \in SUBSET Depots : proc' = [proc EXCEPT ![p].pc = "fetch", ![p].todo = S]
      BY <2>4 DEF Discover
    <3>2. proc' = [proc EXCEPT ![p] = [proc[p] EXCEPT !.pc = "fetch", !.todo = S, !.now = proc[p].now]]
      BY <1>1, <3>1 DEF Process
    <3> QED BY <2>1, <2>2, <2>3, <3>2, NewWork
  <2>5. CASE Fetch(p)
    <3>1. PICK d \in proc[p].todo :
             \/ proc' = [proc EXCEPT ![p].todo = @ \ {d}]
             \/ proc' = [proc EXCEPT ![p].pc = "fill", ![p].now = {d}]
      BY <2>5 DEF Fetch
    <3>2. CASE proc' = [proc EXCEPT ![p].todo = @ \ {d}]
      <4>1. proc' = [proc EXCEPT ![p] =
                      [proc[p] EXCEPT !.pc = proc[p].pc, !.todo = proc[p].todo \ {d}, !.now = proc[p].now]]
        BY <1>1, <3>2 DEF Process
      <4> QED BY <2>1, <2>3, <4>1, NewWork
    <3>3. CASE proc' = [proc EXCEPT ![p].pc = "fill", ![p].now = {d}]
      <4>1. proc' = [proc EXCEPT ![p] = [proc[p] EXCEPT !.pc = "fill", !.todo = proc[p].todo, !.now = {d}]]
        BY <1>1, <3>3 DEF Process
      <4>2. {d} \in SUBSET (Depots \cup Persist)
        BY <2>3, <3>1
      <4> QED BY <2>1, <2>2, <2>3, <4>1, <4>2, NewWork
    <3> QED BY <3>1, <3>2, <3>3
  <2>6. CASE Validate(p)
    <3>1. proc' = [proc EXCEPT ![p] =
                    [proc[p] EXCEPT !.pc = "replace", !.todo = proc[p].todo, !.now = {Default}]]
      BY <1>1, <2>6 DEF Validate, Process
    <3>2. {Default} \in SUBSET (Depots \cup Persist)
      OBVIOUS
    <3> QED BY <2>1, <2>2, <2>3, <3>1, <3>2, NewWork
  <2>7. CASE Fill(p)
    <3>1. PICK d \in proc[p].now :
             proc' = [proc EXCEPT ![p].pc = "fetch", ![p].todo = @ \ {d}, ![p].now = {}]
      BY <2>7 DEF Fill
    <3>2. proc' = [proc EXCEPT ![p] = [proc[p] EXCEPT !.pc = "fetch",
                                                      !.todo = proc[p].todo \ {d}, !.now = {}]]
      BY <3>1
    <3>3. proc[p].todo \ {d} \in SUBSET (Depots \cup Persist) /\ {} \in SUBSET (Depots \cup Persist)
      BY <2>3
    <3> QED BY <2>1, <2>2, <3>2, <3>3, NewWork
  <2> QED BY <1>10, <2>4, <2>5, <2>6, <2>7
<1> QED BY <1>2, <1>4, <1>5, <1>6, <1>7, <1>9, <1>10 DEF InstallStep, Resolve, Download

LEMMA StartsTypes ==
  ASSUME ProcTypes, Starts
  PROVE  ProcTypes'
<1> USE Constants
<1>1. proc["start"] \in Process
  BY DEF ProcTypes
<1>2. CASE Wipe \/ Links \/ Composed \/ Configure \/ Run \/ TreeFails \/ ServerEnds
  <2>1. proc["start"].pc \notin Early
    BY <1>2 DEF Wipe, Links, Composed, Configure, Run, TreeFails, ServerEnds, At, Early
  <2>2. Stop("start") \/ \E loc \in Locations : Goto("start", loc)
    BY <1>2 DEF Wipe, Links, Composed, Configure, Run, TreeFails, ServerEnds, Locations
  <2> QED BY <2>1, <2>2, Works
<1>3. "persist" \in Locations /\ "copy" \in Locations
  BY DEF Locations
<1>4. /\ proc["start"].pc \in Locations /\ proc["start"].todo \in SUBSET (Depots \cup Persist)
      /\ proc["start"].now \in SUBSET (Depots \cup Persist)
  BY <1>1 DEF Process
<1>5. CASE Overlay
  <2>1. proc' = [proc EXCEPT !["start"] =
                  [proc["start"] EXCEPT !.pc = "persist", !.todo = Persist, !.now = proc["start"].now]]
    BY <1>1, <1>5 DEF Overlay, Process
  <2>2. proc["start"].pc \notin Early
    BY <1>5 DEF Overlay, At, Early
  <2> QED BY <1>3, <1>4, <2>1, <2>2, NewWork
<1>6. ASSUME NEW n \in Persist, Seed(n) \/ Seeded(n)
      PROVE  ProcTypes'
  <2>1. PICK loc \in {"copy", "persist"}, S \in SUBSET Persist :
          proc' = [proc EXCEPT !["start"].pc = loc, !["start"].now = S]
    BY <1>6 DEF Seed, Seeded
  <2>2. proc' = [proc EXCEPT !["start"] =
                  [proc["start"] EXCEPT !.pc = loc, !.todo = proc["start"].todo, !.now = S]]
    BY <1>1, <2>1 DEF Process
  <2>3. proc["start"].pc \notin Early
    BY <1>6 DEF Seed, Seeded, ToPersist, At, Early
  <2>4. loc \in Locations /\ S \in SUBSET (Depots \cup Persist)
    BY <1>3
  <2> QED BY <1>4, <2>2, <2>3, <2>4, NewWork
<1>7. ASSUME NEW n \in Persist, PersistLink(n)
      PROVE  ProcTypes'
  <2>1. proc' = [proc EXCEPT !["start"] = [proc["start"] EXCEPT !.pc = proc["start"].pc,
                  !.todo = proc["start"].todo \ {n}, !.now = proc["start"].now]]
    BY <1>1, <1>7 DEF PersistLink, Process
  <2>2. proc["start"].pc \notin Early
    BY <1>7 DEF PersistLink, ToPersist, At, Early
  <2> QED BY <1>4, <2>1, <2>2, NewWork
<1> QED BY <1>2, <1>5, <1>6, <1>7 DEF Starts, TreeStep

LEMMA ProcTypesStep ==
  ASSUME Types, [Next]_vars
  PROVE  ProcTypes'
<1> USE DEF Types
<1>1. ASSUME NEW p \in Procs, NEW v \in Versions[p], Begin(p, v)
      PROVE  ProcTypes'
  <2> DEFINE q == [Idle EXCEPT !.pc = "prepare", !.version = v]
  <2>1. q \in Process /\ q.pc \in Early
    BY Constants DEF Idle, Process, Locations, Early
  <2>2. proc' = [proc EXCEPT ![p] = q]
    BY <1>1 DEF Begin
  <2> QED BY <2>1, <2>2, MovesOn
<1>2. ASSUME NEW p \in Procs, Failure(p)
      PROVE  ProcTypes'
  <2>1. Stop(p)
    BY <1>2 DEF Failure, PrepareFails, CheckFails, FetchFails, Kill
  <2> QED BY <2>1, Stops
<1>3. CASE Turns \/ UNCHANGED vars
  BY <1>3, TurnsFrame DEF ProcTypes, ManifestIsKnown
<1> QED BY <1>1, <1>2, <1>3, InstallStepTypes, StartsTypes, Steps DEF Acts

\* The installs change by a download, the marker and the modes at the end of one.
Installs(p) == Download(p) \/ Mark(p) \/ Seal(p)

LEMMA InstallsMove ==
  ASSUME [Next]_vars
  PROVE  UNCHANGED installs \/ \E p \in Procs : Installs(p)
<1>1. ASSUME NEW p \in Procs, InstallStep(p)
      PROVE  UNCHANGED installs \/ Installs(p)
  BY <1>1 DEF InstallStep, Installs, Prepare, Resolve, ResolveGiven, ResolveBuild, ResolveLatest, Record,
     ResolveCached, Skip, Discover, FetchRefused, Inspect
<1>2. ASSUME NEW p \in Procs, Failure(p) \/ \E v \in Versions[p] : Begin(p, v)
      PROVE  UNCHANGED installs
  BY <1>2 DEF Failure, PrepareFails, CheckFails, FetchFails, Kill, Begin
<1> QED BY <1>1, <1>2, StartsFrame, TurnsFrame, Steps DEF Acts

LEMMA HasManifest ==
  ASSUME ProcTypes, NEW p \in Procs, Installs(p)
  PROVE  proc[p].m \in Manifests
<1>1. proc[p] \in Process /\ (proc[p].m = None => proc[p].pc \in Early)
  BY DEF ProcTypes, ManifestIsKnown
<1>2. proc[p].pc \notin Early
  BY DEF Installs, Download, Fetch, Validate, Replace, Recreate, Fill, Mark, Seal, Writes, At, Early
<1> QED BY <1>1, <1>2 DEF Process

\* What a step of a download does to the depots.
LEMMA Downloaded ==
  ASSUME Types, NEW p \in Procs, Download(p)
  PROVE  \/ UNCHANGED depot
         \/ \E d \in proc[p].todo : Becomes(p, d, IF d = Default THEN "most" ELSE "cut")
         \/ Replace(p) /\ Becomes(p, Default, "moved")
         \/ Becomes(p, Default, "most")
         \/ \E d \in proc[p].now :
              Becomes(p, d, IF depot[proc[p].m][d] = "moved" THEN "moved" ELSE "full")
<1>1. CASE Fetch(p)
  BY <1>1 DEF Fetch
<1>2. CASE Validate(p)
  BY <1>2 DEF Validate, installs
<1>3. CASE Replace(p)
  BY <1>3 DEF Replace
<1>4. CASE Recreate(p)
  BY <1>4 DEF Recreate
<1>5. CASE Fill(p)
  BY <1>5 DEF Fill
<1> QED BY <1>1, <1>2, <1>3, <1>4, <1>5 DEF Download

\* A depot that gets a status, and every other one as it was.
LEMMA Became ==
  ASSUME InstallTypes, NEW p \in Procs, proc[p].m \in Manifests, NEW d, NEW s \in Statuses, Becomes(p, d, s)
  PROVE  /\ depot' \in [Manifests -> [Depots -> Statuses]]
         /\ \A m \in Manifests : \A e \in Depots :
              depot'[m][e] = IF m = proc[p].m /\ e = d THEN s ELSE depot[m][e]
<1> DEFINE own == [depot[proc[p].m] EXCEPT ![d] = s]
<1>1. depot \in [Manifests -> [Depots -> Statuses]] /\ depot[proc[p].m] \in [Depots -> Statuses]
  BY DEF InstallTypes
<1>2. own \in [Depots -> Statuses] /\ \A e \in Depots : own[e] = IF e = d THEN s ELSE depot[proc[p].m][e]
  BY <1>1
<1>3. depot' = [depot EXCEPT ![proc[p].m] = own]
  BY DEF Becomes
<1> QED BY <1>1, <1>2, <1>3

LEMMA InstallTypesStep ==
  ASSUME Types, [Next]_vars
  PROVE  InstallTypes'
<1> USE DEF Types
<1>1. ASSUME NEW p \in Procs, Download(p)
      PROVE  InstallTypes'
  <2>1. proc[p].m \in Manifests
    BY <1>1, HasManifest DEF Installs
  <2>2. depot' \in [Manifests -> [Depots -> Statuses]]
    <3>1. ASSUME NEW d, NEW s \in Statuses, Becomes(p, d, s)
          PROVE  depot' \in [Manifests -> [Depots -> Statuses]]
      BY <2>1, <3>1, Became
    <3> QED BY <1>1, <3>1, Downloaded DEF Statuses, InstallTypes
  <2>3. marker' = marker /\ readonly' = readonly
    BY <1>1 DEF Download, Fetch, Validate, Replace, Recreate, Fill, installs
  <2>4. torn' \subseteq torn \cup {proc[p].m}
    BY <1>1 DEF Download, Fetch, Validate, Replace, Recreate, Fill, installs
  <2> QED BY <2>1, <2>2, <2>3, <2>4 DEF InstallTypes
<1>2. ASSUME NEW p \in Procs, Mark(p) \/ Seal(p)
      PROVE  InstallTypes'
  <2>1. proc[p].m \in Manifests
    BY <1>2, HasManifest DEF Installs
  <2> QED BY <1>2, <2>1 DEF Mark, Seal, InstallTypes
<1>3. CASE UNCHANGED installs
  BY <1>3 DEF installs, InstallTypes
<1> QED BY <1>1, <1>2, <1>3, InstallsMove DEF Installs

LEMMA SourceTypesStep ==
  ASSUME Types, [Next]_vars
  PROVE  SourceTypes'
<1> USE DEF Types, SourceTypes
<1>1. ASSUME NEW p \in Procs, Acts(p)
      PROVE  SourceTypes'
  <2>1. newest' = newest
    BY <1>1, ActsFrame DEF world
  <2>2. cache' \in Manifests \cup {None}
    <3>1. CASE Record(p)
      BY <3>1 DEF Record, ProcTypes, Process
    <3>2. CASE ResolveLatest(p)
      BY <3>2 DEF ResolveLatest
    <3>3. ASSUME ~Record(p), ~ResolveLatest(p), InstallStep(p)
          PROVE  UNCHANGED cache
      BY <3>3 DEF InstallStep, Prepare, Resolve, ResolveGiven, ResolveBuild, ResolveCached, Skip, Discover,
         Download, Fetch, Validate, Replace, Recreate, Fill, FetchRefused, Inspect, Mark, Seal, sources
    <3>4. ASSUME Failure(p) \/ \E v \in Versions[p] : Begin(p, v)
          PROVE  UNCHANGED cache
      BY <3>4 DEF Failure, PrepareFails, CheckFails, FetchFails, Kill, Begin, sources
    <3> QED BY <1>1, <3>1, <3>2, <3>3, <3>4 DEF Acts
  <2> QED BY <2>1, <2>2
<1>2. CASE Starts
  BY <1>2, StartsFrame DEF world, sources
<1>3. CASE Turns \/ UNCHANGED vars
  <2>1. newest' \in Manifests
    BY <1>3 DEF Turns, Publish, GoOffline, GoOnline, ChangeMods, Edit, vars, world
  <2> QED BY <1>3, <2>1, TurnsFrame DEF sources
<1> QED BY <1>1, <1>2, <1>3, Steps

LEMMA GameTypesStep ==
  ASSUME Types, mods \subseteq ModNames, [Next]_vars
  PROVE  GameTypes'
<1> USE DEF Types, GameTypes
<1>1. Empty \in Link /\ Mod \in Link /\ Saved \in Link /\ ConfigLink \in Link
  BY DEF Link
<1>2. ASSUME NEW p \in Procs, Acts(p)
      PROVE  UNCHANGED <<tree, saved, config>>
  BY <1>2, ActsFrame DEF game
<1>3. CASE Wipe
  BY <1>1, <1>3 DEF Wipe
<1>4. CASE Links
  <2>1. M \in Manifests
    BY <1>4, Constants DEF Links, At, M, ProcTypes, ManifestIsKnown, Process, Early
  <2>2. <<"manifest", M>> \in Link
    BY <2>1 DEF Link
  <2> QED BY <1>4, <2>2 DEF Links
<1>5. CASE Overlay
  <2>1. \A n \in Names : (CASE n = Config -> ConfigLink [] n \in mods -> Mod [] OTHER -> tree[n]) \in Link
    BY <1>1
  <2> QED BY <1>5, <2>1 DEF Overlay
<1>6. ASSUME NEW n \in Persist, Seed(n) \/ Seeded(n)
      PROVE  GameTypes'
  BY <1>6 DEF Seed, Seeded
<1>7. ASSUME NEW n \in Persist, PersistLink(n)
      PROVE  GameTypes'
  BY <1>1, <1>7 DEF PersistLink
<1>8. CASE Composed \/ TreeFails \/ ServerEnds
  BY <1>8 DEF Composed, TreeFails, ServerEnds, game
<1>9. CASE Configure \/ Run
  BY <1>9 DEF Configure, Run
<1>10. ASSUME NEW n \in Persist, Edit(n)
      PROVE  GameTypes'
  BY <1>10 DEF Edit
<1>11. CASE Publish \/ GoOffline \/ GoOnline \/ ChangeMods \/ UNCHANGED vars
  BY <1>11 DEF Publish, GoOffline, GoOnline, ChangeMods, vars, game
<1> QED BY <1>2, <1>3, <1>4, <1>5, <1>6, <1>7, <1>8, <1>9, <1>10, <1>11, Steps DEF Starts, TreeStep, Turns

\* Only the operator, between two starts, changes the mod overlay.
LEMMA ModsMove ==
  ASSUME [Next]_vars
  PROVE  UNCHANGED mods \/ ChangeMods
<1>1. ASSUME NEW p \in Procs, Acts(p)
      PROVE  UNCHANGED mods
  BY <1>1, ActsFrame DEF world
<1>2. CASE Starts
  BY <1>2, StartsFrame DEF world
<1>3. CASE Turns \/ UNCHANGED vars
  BY <1>3 DEF Turns, Publish, GoOffline, GoOnline, Edit, vars, world
<1> QED BY <1>1, <1>2, <1>3, Steps

LEMMA WorldTypesStep ==
  ASSUME WorldTypes, [Next]_vars
  PROVE  WorldTypes'
<1>1. mods' \subseteq ModNames
  BY ModsMove DEF WorldTypes, ChangeMods
<1>2. ASSUME (\E p \in Procs : Acts(p)) \/ Starts
      PROVE  UNCHANGED world
  BY <1>2, ActsFrame, StartsFrame
<1>3. env' \in Envs
  <2>1. CASE UNCHANGED world
    BY <2>1 DEF world, WorldTypes
  <2>2. CASE Turns \/ UNCHANGED vars
    BY <2>2 DEF Turns, Publish, GoOffline, GoOnline, ChangeMods, Edit, vars, world, WorldTypes
  <2> QED BY <1>2, <2>1, <2>2, Steps
<1>4. online' \in BOOLEAN
  <2>1. CASE UNCHANGED world
    BY <2>1 DEF world, WorldTypes
  <2>2. CASE (\E n \in Persist : Edit(n)) \/ UNCHANGED vars
    <3>1. UNCHANGED world
      BY <2>2 DEF Edit, vars
    <3> QED BY <2>1, <3>1
  <2>3. CASE Publish \/ ChangeMods
    BY <2>3 DEF Publish, ChangeMods, WorldTypes
  <2>4. CASE GoOffline \/ GoOnline
    BY <2>4 DEF GoOffline, GoOnline
  <2> QED BY <1>2, <2>1, <2>2, <2>3, <2>4, Steps DEF Turns
<1>5. keys' \in BOOLEAN
  <2>1. ASSUME UNCHANGED sources
        PROVE  keys' \in BOOLEAN
    BY <2>1 DEF sources, WorldTypes
  <2>2. ASSUME NEW p \in Procs, Prepare(p) \/ PrepareFails(p)
        PROVE  keys' \in BOOLEAN
    BY <2>2 DEF Prepare, PrepareFails, WorldTypes
  <2>3. ASSUME NEW p \in Procs, ResolveLatest(p) \/ Record(p)
        PROVE  keys' \in BOOLEAN
    BY <2>3 DEF ResolveLatest, Record, WorldTypes
  <2>4. ASSUME NEW p \in Procs, ~Prepare(p), ~PrepareFails(p), ~ResolveLatest(p), ~Record(p), Acts(p)
        PROVE  UNCHANGED sources
    <3>1. CASE InstallStep(p)
      BY <2>4, <3>1 DEF InstallStep, Resolve, ResolveGiven, ResolveBuild, ResolveCached, Skip, Discover,
         Download, Fetch, Validate, Replace, Recreate, Fill, FetchRefused, Inspect, Mark, Seal
    <3>2. CASE Failure(p) \/ \E v \in Versions[p] : Begin(p, v)
      BY <2>4, <3>2 DEF Failure, CheckFails, FetchFails, Kill, Begin
    <3> QED BY <2>4, <3>1, <3>2 DEF Acts
  <2> QED BY <2>1, <2>2, <2>3, <2>4, StartsFrame, TurnsFrame, Steps
<1>6. faults' \in 0 .. MaxFaults
  <2>1. UNCHANGED faults \/ Fault
    <3>1. ASSUME NEW p \in Procs, InstallStep(p)
          PROVE  UNCHANGED faults \/ Fault
      BY <3>1 DEF InstallStep, Prepare, Resolve, ResolveGiven, ResolveBuild, ResolveLatest, Record,
         ResolveCached, Skip, Discover, Download, Fetch, Validate, Replace, Recreate, Fill, FetchRefused,
         Inspect, Mark, Seal
    <3>2. ASSUME NEW p \in Procs, Failure(p) \/ \E v \in Versions[p] : Begin(p, v)
          PROVE  UNCHANGED faults \/ Fault
      BY <3>2 DEF Failure, PrepareFails, CheckFails, FetchFails, Kill, Begin
    <3>3. CASE Starts
      BY <3>3 DEF Starts, TreeStep, Wipe, Links, Overlay, Composed, Configure, Run, Seed, Seeded,
         PersistLink, TreeFails, ServerEnds
    <3>4. CASE Turns \/ UNCHANGED vars
      BY <3>4 DEF Turns, Publish, GoOffline, GoOnline, ChangeMods, Edit, vars
    <3> QED BY <3>1, <3>2, <3>3, <3>4, Steps DEF Acts
  <2> QED BY <2>1, InstallAssumption DEF Fault, WorldTypes
<1> QED BY <1>1, <1>3, <1>4, <1>5, <1>6 DEF WorldTypes

-----------------------------------------------------------------------------
(* Installs and their markers. *)

\* An install that has its binary, or is known to have lost it.
Playable(m) == m \in torn \/ HasExe(m)

\* Who writes a marker has seen the binary, which is there unless another
\* process moved it away after that.
Markable == \A p \in Procs : At(p, "mark") => Playable(proc[p].m)

\* Only the replacement of an old file takes away a binary, and is recorded if
\* the install has the marker, or another process is at writing it.
LEMMA BinaryStays ==
  ASSUME Types, [Next]_vars, NEW m \in Manifests, HasExe(m)
  PROVE  HasExe(m)' \/ \E p \in Procs : Replace(p) /\ proc[p].m = m /\ (Marked(p) => m \in torn')
<1> USE DEF Types
<1>1. CASE UNCHANGED depot
  BY <1>1 DEF HasExe
<1>2. ASSUME NEW p \in Procs, Download(p), proc[p].m = m
      PROVE  HasExe(m)' \/ (Replace(p) /\ (Marked(p) => m \in torn'))
  <2>1. ASSUME NEW d, NEW s \in {"most", "full"}, Becomes(p, d, s)
        PROVE  HasExe(m)'
    <3>1. depot'[m][Default] = IF d = Default THEN s ELSE depot[m][Default]
      BY <1>2, <2>1, Became, Constants DEF Statuses
    <3> QED BY <3>1 DEF HasExe
  <2>2. ASSUME NEW d, d # Default, NEW s \in Statuses, Becomes(p, d, s)
        PROVE  HasExe(m)'
    <3>1. depot'[m][Default] = depot[m][Default]
      BY <1>2, <2>2, Became, Constants
    <3> QED BY <3>1 DEF HasExe
  <2>3. ASSUME NEW d, Becomes(p, d, IF d = Default THEN "most" ELSE "cut")
        PROVE  HasExe(m)'
    <3>1. CASE d = Default
      BY <2>1, <2>3, <3>1
    <3>2. CASE d # Default
      BY <2>2, <2>3, <3>2 DEF Statuses
    <3> QED BY <3>1, <3>2
  <2>4. ASSUME NEW d, Becomes(p, d, IF depot[proc[p].m][d] = "moved" THEN "moved" ELSE "full")
        PROVE  HasExe(m)'
    <3>1. CASE depot[proc[p].m][d] = "moved"
      <4>1. d # Default
        BY <1>2, <3>1 DEF HasExe
      <4> QED BY <2>2, <2>4, <3>1, <4>1 DEF Statuses
    <3>2. CASE depot[proc[p].m][d] # "moved"
      BY <2>1, <2>4, <3>2
    <3> QED BY <3>1, <3>2
  <2>5. CASE Replace(p)
    <3>1. depot[proc[p].m][Default] # "moved"
      BY <1>2 DEF HasExe
    <3>2. Marked(p) => m \in torn'
      BY <1>2, <2>5, <3>1 DEF Replace
    <3> QED BY <2>5, <3>2
  <2>6. CASE UNCHANGED depot
    BY <2>6 DEF HasExe
  <2>7. Becomes(p, Default, "most") => HasExe(m)'
    BY <2>1
  <2> QED BY <1>2, <2>3, <2>4, <2>5, <2>6, <2>7, Downloaded
<1>3. ASSUME NEW p \in Procs, Download(p), proc[p].m # m
      PROVE  HasExe(m)'
  <2>1. proc[p].m \in Manifests
    BY <1>3, HasManifest DEF Installs
  <2>2. ASSUME NEW d, NEW s \in Statuses, Becomes(p, d, s)
        PROVE  HasExe(m)'
    <3>1. depot'[m][Default] = depot[m][Default]
      BY <1>3, <2>1, <2>2, Became, Constants
    <3> QED BY <3>1 DEF HasExe
  <2>3. \A d : Becomes(p, d, IF d = Default THEN "most" ELSE "cut") => HasExe(m)'
    BY <2>2 DEF Statuses
  <2>4. \A d : Becomes(p, d, IF depot[proc[p].m][d] = "moved" THEN "moved" ELSE "full") => HasExe(m)'
    BY <2>2 DEF Statuses
  <2>5. (Becomes(p, Default, "moved") => HasExe(m)') /\ (Becomes(p, Default, "most") => HasExe(m)')
    BY <2>2 DEF Statuses
  <2>6. UNCHANGED depot => HasExe(m)'
    BY <1>3 DEF HasExe
  <2> QED BY <1>3, <2>3, <2>4, <2>5, <2>6, Downloaded
<1>4. ASSUME NEW p \in Procs, Mark(p) \/ Seal(p)
      PROVE  UNCHANGED depot
  BY <1>4 DEF Mark, Seal
<1> QED BY <1>1, <1>2, <1>3, <1>4, InstallsMove DEF installs, Installs

\* What is torn stays so.
LEMMA TornStays ==
  ASSUME [Next]_vars
  PROVE  torn \subseteq torn' /\ marker \subseteq marker'
<1>1. ASSUME NEW p \in Procs, Installs(p)
      PROVE  torn \subseteq torn' /\ marker \subseteq marker'
  <2>1. CASE Replace(p)
    BY <2>1 DEF Replace
  <2>2. CASE Fetch(p) \/ Validate(p) \/ Recreate(p) \/ Fill(p)
    BY <2>2 DEF Fetch, Validate, Recreate, Fill, installs
  <2>3. CASE Mark(p) \/ Seal(p)
    BY <2>3 DEF Mark, Seal
  <2> QED BY <1>1, <2>1, <2>2, <2>3 DEF Installs, Download
<1> QED BY <1>1, InstallsMove DEF installs

LEMMA MarkerStep ==
  ASSUME Types, Markable, MarkerMeansPlayable, [Next]_vars
  PROVE  MarkerMeansPlayable'
<1> SUFFICES ASSUME NEW m \in marker', m \notin torn' PROVE HasExe(m)'
  BY DEF MarkerMeansPlayable
<1>1. m \in Manifests /\ m \notin torn
  BY InstallTypesStep, TornStays DEF InstallTypes
<1>2. CASE m \in marker
  <2>1. HasExe(m)
    BY <1>1, <1>2 DEF MarkerMeansPlayable
  <2>2. ASSUME NEW p \in Procs, proc[p].m = m
        PROVE  Marked(p)
    BY <1>2, <2>2 DEF Marked
  <2> QED BY <1>1, <2>1, <2>2, BinaryStays
<1>3. CASE m \notin marker
  <2>1. PICK p \in Procs : Mark(p) /\ proc[p].m = m
    <3>1. ASSUME NEW p \in Procs, Download(p) \/ Seal(p)
          PROVE  marker' = marker
      BY <3>1 DEF Download, Fetch, Validate, Replace, Recreate, Fill, Seal, installs
    <3>2. \E p \in Procs : Mark(p)
      BY <1>3, <3>1, InstallsMove DEF Installs, installs
    <3> QED BY <1>3, <3>2 DEF Mark
  <2>2. HasExe(m)
    BY <1>1, <2>1 DEF Mark, Markable, Playable
  <2> QED BY <2>1, <2>2 DEF Mark, HasExe
<1> QED BY <1>2, <1>3

\* Each process moves itself alone.
LEMMA ActsAlone ==
  ASSUME ProcTypes, NEW p \in Procs, NEW q \in Procs, q # p, Acts(q)
  PROVE  proc'[p] = proc[p]
<1> USE DEF ProcTypes
<1>1. CASE Resolve(q)
  BY <1>1 DEF Resolve, ResolveGiven, ResolveBuild, ResolveLatest, Record, ResolveCached, Goto, Stop
<1>2. CASE Download(q)
  <2>1. CASE Fetch(q)
    BY <2>1 DEF Fetch
  <2>2. CASE Validate(q) \/ Replace(q) \/ Recreate(q)
    BY <2>2 DEF Validate, Replace, Recreate, Goto, Stop
  <2>3. CASE Fill(q)
    BY <2>3 DEF Fill
  <2> QED BY <1>2, <2>1, <2>2, <2>3 DEF Download
<1>3. CASE Prepare(q) \/ Skip(q) \/ FetchRefused(q) \/ Inspect(q) \/ Mark(q) \/ Seal(q)
  BY <1>3 DEF Prepare, Skip, FetchRefused, Inspect, Mark, Seal, Goto, Stop
<1>4. CASE Discover(q)
  BY <1>4 DEF Discover
<1>5. CASE Failure(q)
  BY <1>5 DEF Failure, PrepareFails, CheckFails, FetchFails, Kill, Stop
<1>6. CASE \E v \in Versions[q] : Begin(q, v)
  BY <1>6 DEF Begin
<1> QED BY <1>1, <1>2, <1>3, <1>4, <1>5, <1>6 DEF Acts, InstallStep

LEMMA StartsAlone ==
  ASSUME ProcTypes, NEW p \in Procs, p # "start", Starts
  PROVE  proc'[p] = proc[p]
<1> USE DEF ProcTypes
<1>1. CASE Wipe \/ Links \/ Composed \/ Configure \/ Run \/ TreeFails \/ ServerEnds
  BY <1>1 DEF Wipe, Links, Composed, Configure, Run, TreeFails, ServerEnds, Goto, Stop
<1>2. CASE Overlay
  BY <1>2 DEF Overlay
<1>3. ASSUME NEW n \in Persist, Seed(n) \/ Seeded(n) \/ PersistLink(n)
      PROVE  proc'[p] = proc[p]
  BY <1>3 DEF Seed, Seeded, PersistLink
<1> QED BY <1>1, <1>2, <1>3 DEF Starts, TreeStep

\* A process that is at writing a marker has just seen the binary, or waits there.
LEMMA AtMark ==
  ASSUME ProcTypes, [Next]_vars, NEW p \in Procs, At(p, "mark")'
  PROVE  \/ Inspect(p) /\ HasExe(proc[p].m) /\ proc'[p].m = proc[p].m
         \/ proc'[p] = proc[p]
<1> USE DEF At
<1>1. proc[p] \in Process
  BY DEF ProcTypes
<1>2. ASSUME NEW q \in Procs, q # p, Acts(q)
      PROVE  proc'[p] = proc[p]
  BY <1>2, ActsAlone
<1>3. CASE Starts
  <2>1. CASE p # "start"
    BY <1>3, <2>1, StartsAlone
  <2>2. CASE p = "start"
    <3>1. proc'["start"].pc # "mark"
      <4>1. CASE Wipe \/ Links \/ Composed \/ Configure \/ Run \/ TreeFails \/ ServerEnds
        BY <1>1, <2>2, <4>1 DEF Wipe, Links, Composed, Configure, Run, TreeFails, ServerEnds, Goto,
           Stop, Idle, Process, ProcTypes
      <4>2. CASE Overlay
        BY <1>1, <2>2, <4>2 DEF Overlay, Process, ProcTypes
      <4>3. ASSUME NEW n \in Persist, Seed(n) \/ Seeded(n)
            PROVE  proc'["start"].pc # "mark"
        <5>1. CASE Seed(n)
          BY <1>1, <2>2, <5>1 DEF Seed, Process, ProcTypes
        <5>2. CASE Seeded(n)
          BY <1>1, <2>2, <5>2 DEF Seeded, Process, ProcTypes
        <5> QED BY <4>3, <5>1, <5>2
      <4>4. ASSUME NEW n \in Persist, PersistLink(n)
            PROVE  proc'["start"].pc # "mark"
        BY <1>1, <2>2, <4>4 DEF PersistLink, ToPersist, Process, ProcTypes
      <4> QED BY <1>3, <4>1, <4>2, <4>3, <4>4 DEF Starts, TreeStep
    <3> QED BY <2>2, <3>1
  <2> QED BY <2>1, <2>2
<1>4. CASE Turns \/ UNCHANGED vars
  BY <1>4, TurnsFrame
<1>5. CASE Acts(p)
  <2>1. CASE Inspect(p)
    BY <1>1, <2>1 DEF Inspect, Goto, Stop, Idle, Process, ProcTypes
  <2>2. CASE Failure(p) \/ \E v \in Versions[p] : Begin(p, v)
    <3>1. CASE Failure(p)
      BY <3>1 DEF Failure, PrepareFails, CheckFails, FetchFails, Kill, Stop, Idle, ProcTypes
    <3>2. CASE \E v \in Versions[p] : Begin(p, v)
      BY <3>2 DEF Begin, Idle, ProcTypes
    <3> QED BY <2>2, <3>1, <3>2
  <2>3. CASE Prepare(p) \/ Resolve(p) \/ Skip(p) \/ Discover(p) \/ FetchRefused(p) \/ Mark(p) \/ Seal(p)
    BY <1>1, <2>3 DEF Prepare, Resolve, ResolveGiven, ResolveBuild, ResolveLatest, Record,
       ResolveCached, Skip, Discover, FetchRefused, Mark, Seal, Goto, Stop, Idle, Process, ProcTypes
  <2>4. CASE Download(p)
    <3>1. CASE Fetch(p)
      <4>1. PICK d : \/ proc' = [proc EXCEPT ![p].todo = @ \ {d}]
                     \/ proc' = [proc EXCEPT ![p].pc = "fill", ![p].now = {d}]
        BY <3>1 DEF Fetch
      <4>2. proc[p].pc = "fetch"
        BY <3>1 DEF Fetch, Writes
      <4> QED BY <1>1, <4>1, <4>2 DEF Process, ProcTypes
    <3>2. CASE Validate(p)
      BY <1>1, <3>2 DEF Validate, Process, ProcTypes
    <3>3. CASE Replace(p) \/ Recreate(p)
      BY <1>1, <3>3 DEF Replace, Recreate, Goto, Stop, Idle, Process, ProcTypes
    <3>4. CASE Fill(p)
      <4>1. PICK d : proc' = [proc EXCEPT ![p].pc = "fetch", ![p].todo = @ \ {d}, ![p].now = {}]
        BY <3>4 DEF Fill
      <4> QED BY <1>1, <4>1 DEF Process, ProcTypes
    <3> QED BY <2>4, <3>1, <3>2, <3>3, <3>4 DEF Download
  <2> QED BY <1>5, <2>1, <2>2, <2>3, <2>4 DEF Acts, InstallStep
<1> QED BY <1>2, <1>3, <1>4, <1>5, Steps

LEMMA MarkableStep ==
  ASSUME Types, Markable, [Next]_vars
  PROVE  Markable'
<1> SUFFICES ASSUME NEW p \in Procs, At(p, "mark")' PROVE Playable(proc[p].m)'
  BY DEF Markable
<1> DEFINE m == proc[p].m
<1>1. m \in Manifests /\ proc'[p].m = m
  <2>1. Inspect(p) \/ proc[p].pc = "mark"
    BY AtMark DEF Types, At
  <2>2. proc[p] \in Process /\ proc[p].pc \notin Early
    BY <2>1 DEF Inspect, At, Early, Types, ProcTypes
  <2> QED BY <2>2, AtMark DEF Types, ProcTypes, ManifestIsKnown, Process
<1>2. CASE m \in torn
  BY <1>1, <1>2, TornStays DEF Playable
<1>3. CASE HasExe(m)
  <2>1. ASSUME NEW q \in Procs, Replace(q), proc[q].m = m
        PROVE  Marked(q)
    <3>1. proc[p].pc = "mark" /\ q # p
      <4>1. q # p
        <5>1. CASE q = p
          <6>1. proc[p].pc = "replace"
            BY <2>1, <5>1 DEF Replace, Writes, At
          <6>2. ~Inspect(p)
            BY <6>1 DEF Inspect, At
          <6>3. proc'[p].pc = "replace"
            BY <6>1, <6>2, AtMark DEF Types
          <6> QED BY <6>3 DEF At
        <5> QED BY <5>1
      <4>2. ~Inspect(p)
        <5>1. Inspect(p) => proc'[q] = proc[q]
          BY <4>1 DEF Inspect, Goto, Stop, Types, ProcTypes
        <5>2. proc'[q] # proc[q]
          <6>1. proc[q] \in Process /\ proc[q].pc = "replace"
            BY <2>1 DEF Types, ProcTypes, Replace, Writes, At
          <6>2. proc'[q].pc \in {"idle", "recreate"}
            BY <2>1, <6>1 DEF Replace, Goto, Stop, Idle, Types, ProcTypes, Process
          <6> QED BY <6>1, <6>2
        <5> QED BY <5>1, <5>2
      <4> QED BY <4>1, <4>2, AtMark DEF Types, At
    <3> QED BY <2>1, <3>1 DEF Marked, At
  <2>2. HasExe(m)' \/ m \in torn'
    BY <1>1, <1>3, <2>1, BinaryStays
  <2> QED BY <1>1, <2>2 DEF Playable, HasExe
<1>4. m \in torn \/ HasExe(m)
  BY AtMark DEF Types, Markable, Playable, At
<1> QED BY <1>2, <1>3, <1>4

-----------------------------------------------------------------------------
(* The game tree. *)

Made == {"wipe", "link", "overlay", "persist", "copy", "configure", "write", "running"}

\* Who has written the marker, or found it, goes on with a marked install.
Startable == proc["start"].pc \in Made \cup {"seal"} => M \in marker

\* What is linked at each stage; the files in todo are not looked at yet.
Linked ==
  /\ At("start", "overlay") => M \in torn \/ tree[Exe] = <<"manifest", M>>
  /\ proc["start"].pc \in {"persist", "copy", "configure", "write", "running"} =>
       /\ Exe \in mods => tree[Exe] = Mod
       /\ Exe \notin mods /\ M \notin torn => tree[Exe] = <<"manifest", M>>
       /\ \A n \in mods \ Persist : tree[n] = Mod
       /\ \A n \in Persist \ proc["start"].todo : tree[n] \in {Empty, Saved}
       /\ tree[Config] = ConfigLink
  /\ proc["start"].pc \in {"configure", "write", "running"} => proc["start"].todo = {}

\* The file being seeded was never edited.
Seeding == At("start", "copy") => \A n \in proc["start"].now : saved[n] # "edited"

Downloading == Early \cup {"record", "check", "mark"} \cup Fetching

\* What the start command does in a step: nothing, an end, or one of its steps.
LEMMA StartMoves ==
  ASSUME ProcTypes, [Next]_vars
  PROVE  \/ proc'["start"] = proc["start"] /\ UNCHANGED tree
         \/ proc'["start"].pc \in Downloading
         \/ Skip("start") \/ Mark("start") \/ Seal("start") \/ TreeStep
<1> USE Constants DEF ProcTypes
<1>1. proc["start"] \in Process
  OBVIOUS
<1>2. ASSUME NEW p \in Procs, p # "start", Acts(p)
      PROVE  proc'["start"] = proc["start"] /\ UNCHANGED tree
  BY <1>2, ActsAlone, ActsFrame DEF game
<1>3. ASSUME Stop("start")
      PROVE  proc'["start"].pc \in Downloading
  BY <1>3 DEF Stop, Idle, Downloading, Early
<1>4. CASE Failure("start") \/ TreeFails \/ ServerEnds \/ FetchRefused("start")
  <2>1. Stop("start")
    BY <1>4 DEF Failure, PrepareFails, CheckFails, FetchFails, Kill, TreeFails, ServerEnds, FetchRefused
  <2> QED BY <1>3, <2>1
<1>5. CASE \E v \in Versions["start"] : Begin("start", v)
  BY <1>5 DEF Begin, Idle, Downloading, Early
<1>6. CASE /\ InstallStep("start")
           /\ ~FetchRefused("start") /\ ~Skip("start") /\ ~Mark("start") /\ ~Seal("start")
  <2>1. CASE Prepare("start") \/ Record("start")
    BY <1>1, <2>1 DEF Prepare, Record, Goto, Process, Downloading, Early
  <2>2. CASE ResolveGiven("start") \/ ResolveLatest("start")
    BY <1>1, <2>2 DEF ResolveGiven, ResolveLatest, Process, Downloading
  <2>3. CASE ResolveCached("start") \/ ResolveBuild("start")
    <3>1. Stop("start") \/ \E id : proc' = [proc EXCEPT !["start"].pc = "check", !["start"].m = id]
      BY <2>3 DEF ResolveCached, ResolveBuild
    <3> QED BY <1>1, <1>3, <3>1 DEF Process, Downloading
  <2>4. CASE Discover("start")
    BY <1>1, <2>4 DEF Discover, Process, Downloading, Fetching
  <2>5. CASE Fetch("start")
    <3>1. proc["start"].pc = "fetch"
      BY <2>5 DEF Fetch, Writes, At
    <3>2. \E d : \/ proc' = [proc EXCEPT !["start"].todo = @ \ {d}]
                 \/ proc' = [proc EXCEPT !["start"].pc = "fill", !["start"].now = {d}]
      BY <2>5 DEF Fetch
    <3>3. proc'["start"].pc \in {"fetch", "fill"}
      BY <1>1, <3>1, <3>2 DEF Process
    <3> QED BY <3>3 DEF Downloading, Fetching
  <2>6. CASE Validate("start")
    BY <1>1, <2>6 DEF Validate, Process, Downloading, Fetching
  <2>7. CASE Replace("start") \/ Recreate("start") \/ Inspect("start")
    <3>1. Stop("start") \/ \E loc \in {"recreate", "fill", "mark"} : Goto("start", loc)
      BY <2>7 DEF Replace, Recreate, Inspect
    <3> QED BY <1>1, <1>3, <3>1 DEF Goto, Process, Downloading, Fetching
  <2>8. CASE Fill("start")
    <3>1. PICK d : proc' = [proc EXCEPT !["start"].pc = "fetch",
                                        !["start"].todo = @ \ {d}, !["start"].now = {}]
      BY <2>8 DEF Fill
    <3> QED BY <1>1, <3>1 DEF Process, Downloading, Fetching
  <2> QED BY <1>6, <2>1, <2>2, <2>3, <2>4, <2>5, <2>6, <2>7, <2>8 DEF InstallStep, Resolve, Download
<1>7. CASE Turns \/ UNCHANGED vars
  BY <1>7, TurnsFrame
<1> QED BY <1>2, <1>4, <1>5, <1>6, <1>7, Steps DEF Acts, Starts

\* A step of the tree keeps the manifest, unless it is the end of the start.
LEMMA TreeKeeps ==
  ASSUME ProcTypes, TreeStep
  PROVE  proc["start"].pc \in Made /\ (M' = M \/ proc'["start"].pc = "idle")
<1> USE Constants DEF ProcTypes
<1>1. proc["start"] \in Process
  OBVIOUS
<1>2. CASE Wipe \/ Links \/ Composed \/ Configure \/ Run
  <2>1. proc["start"].pc \in Made
    BY <1>2 DEF Wipe, Links, Composed, Configure, Run, At, Made
  <2>2. Stop("start") \/ \E loc \in Made : Goto("start", loc)
    BY <1>2 DEF Wipe, Links, Composed, Configure, Run, Made
  <2> QED BY <1>1, <2>1, <2>2 DEF Goto, Stop, Idle, M, Process
<1>3. CASE Overlay
  BY <1>1, <1>3 DEF Overlay, At, Made, M, Process
<1>4. ASSUME NEW n \in Persist, Seed(n)
      PROVE  proc["start"].pc \in Made /\ M' = M
  BY <1>1, <1>4 DEF Seed, ToPersist, At, Made, M, Process
<1>5. ASSUME NEW n \in Persist, Seeded(n)
      PROVE  proc["start"].pc \in Made /\ M' = M
  BY <1>1, <1>5 DEF Seeded, At, Made, M, Process
<1>6. ASSUME NEW n \in Persist, PersistLink(n)
      PROVE  proc["start"].pc \in Made /\ M' = M
  BY <1>1, <1>6 DEF PersistLink, ToPersist, At, Made, M, Process
<1> QED BY <1>2, <1>3, <1>4, <1>5, <1>6 DEF TreeStep

LEMMA StartableStep ==
  ASSUME Types, Startable, [Next]_vars
  PROVE  Startable'
<1> SUFFICES ASSUME proc'["start"].pc \in Made \cup {"seal"} PROVE M' \in marker'
  BY DEF Startable
<1> USE Constants DEF Types, ProcTypes
<1>1. proc["start"] \in Process
  OBVIOUS
<1>2. marker \subseteq marker'
  BY TornStays
<1>3. CASE proc'["start"] = proc["start"]
  BY <1>2, <1>3 DEF Startable, M
<1>4. CASE Skip("start")
  BY <1>1, <1>2, <1>4 DEF Skip, ToInstall, Goto, M, Process
<1>5. CASE Mark("start")
  BY <1>1, <1>5 DEF Mark, Goto, M, Process
<1>6. CASE Seal("start")
  BY <1>1, <1>2, <1>6 DEF Seal, At, Goto, M, Process, Startable
<1>7. CASE TreeStep
  <2>1. M' = M /\ M \in marker
    BY <1>7, TreeKeeps DEF Made, Startable
  <2> QED BY <1>2, <2>1
<1>8. proc'["start"].pc \notin Downloading
  BY DEF Made, Downloading, Early, Fetching
<1> QED BY <1>3, <1>4, <1>5, <1>6, <1>7, <1>8, StartMoves

LEMMA LinkedStep ==
  ASSUME Types, MarkerMeansPlayable, Startable, Linked, mods \subseteq ModNames, [Next]_vars
  PROVE  Linked'
<1> USE Constants DEF Types, ProcTypes, GameTypes, At
<1>1. proc["start"] \in Process /\ torn \subseteq torn'
  BY TornStays
<1>2. CASE proc'["start"] = proc["start"] /\ UNCHANGED tree
  <2>1. proc["start"].pc # "idle" => UNCHANGED mods
    BY ModsMove DEF ChangeMods
  <2> QED BY <1>1, <1>2, <2>1 DEF Linked, M
<1>3. CASE proc'["start"].pc \in Downloading \cup {"seal", "wipe", "link"}
  BY <1>3 DEF Linked, Downloading, Early, Fetching
<1>4. CASE Skip("start") \/ Mark("start") \/ Seal("start")
  <2>1. proc'["start"].pc \in {"idle", "wipe", "seal"}
    BY <1>1, <1>4 DEF Skip, Mark, Seal, Goto, Stop, Idle, Process
  <2> QED BY <1>3, <2>1 DEF Downloading, Early
<1>5. CASE Wipe
  <2>1. proc'["start"].pc = "link"
    BY <1>1, <1>5 DEF Wipe, Goto, Process
  <2> QED BY <1>3, <2>1
<1>6. ASSUME Stop("start")
      PROVE  Linked'
  BY <1>3, <1>6 DEF Stop, Idle, Downloading, Early
<1>7. CASE Links
  <2>1. PICK listed \in Listings(M) :
          IF \E n \in listed : tree[n] # Empty
            THEN Stop("start")
            ELSE /\ tree' = [n \in Names |-> IF n \in listed THEN <<"manifest", M>> ELSE tree[n]]
                 /\ Goto("start", "overlay")
    BY <1>7 DEF Links
  <2>2. CASE Goto("start", "overlay") /\
             tree' = [n \in Names |-> IF n \in listed THEN <<"manifest", M>> ELSE tree[n]]
    <3>1. proc'["start"].pc = "overlay" /\ M' = M
      BY <1>1, <2>2 DEF Goto, M, Process
    <3>2. M \in torn \/ HasExe(M)
      BY <1>7 DEF Links, Startable, Made, MarkerMeansPlayable
    <3>3. HasExe(M) => Exe \in listed /\ Exe \in Names
      BY <2>1 DEF Listings, Names
    <3>4. HasExe(M) => tree'[Exe] = <<"manifest", M>>
      BY <2>2, <3>3
    <3> QED BY <1>1, <3>1, <3>2, <3>4 DEF Linked
  <2> QED BY <1>6, <2>1, <2>2
<1>8. CASE Overlay
  <2>1. /\ proc["start"].pc = "overlay"
        /\ proc'["start"].pc = "persist" /\ proc'["start"].todo = Persist
        /\ M' = M /\ mods' = mods
    BY <1>1, <1>8 DEF Overlay, M, Process, world
  <2>2. Exe # Config /\ Config \notin mods /\ Exe \in Names /\ Config \in Names /\ mods \subseteq Names
    BY InstallAssumption DEF Names
  <2>3. /\ Exe \in mods => tree'[Exe] = Mod
        /\ Exe \notin mods /\ M \notin torn => tree'[Exe] = <<"manifest", M>>
    BY <1>8, <2>1, <2>2 DEF Overlay, Linked
  <2>4. (\A n \in mods : tree'[n] = Mod) /\ tree'[Config] = ConfigLink
    BY <1>8, <2>2 DEF Overlay
  <2> QED BY <1>1, <2>1, <2>3, <2>4 DEF Linked
<1>9. ASSUME proc["start"].pc \in {"persist", "copy", "configure", "write"},
             proc'["start"].pc \in {"persist", "copy", "configure", "write", "running"},
             proc'["start"].todo = proc["start"].todo, M' = M, UNCHANGED <<tree, mods>>,
             proc'["start"].pc \in {"configure", "write", "running"} => proc["start"].todo = {}
      PROVE  Linked'
  BY <1>1, <1>9 DEF Linked
<1>10. ASSUME NEW n \in Persist, Seed(n) \/ Seeded(n)
       PROVE  Linked'
  <2>1. /\ proc["start"].pc \in {"persist", "copy"} /\ proc'["start"].pc \in {"persist", "copy"}
        /\ proc'["start"].todo = proc["start"].todo /\ M' = M
    <3>1. CASE Seed(n)
      BY <1>1, <3>1 DEF Seed, ToPersist, M, Process
    <3>2. CASE Seeded(n)
      BY <1>1, <3>2 DEF Seeded, M, Process
    <3> QED BY <1>10, <3>1, <3>2
  <2>2. UNCHANGED <<tree, mods>>
    BY <1>10 DEF Seed, Seeded, world
  <2> QED BY <1>9, <2>1, <2>2
<1>11. ASSUME NEW n \in Persist, PersistLink(n)
       PROVE  Linked'
  <2>1. /\ proc["start"].pc = "persist" /\ proc'["start"].pc = "persist"
        /\ proc'["start"].todo = proc["start"].todo \ {n} /\ M' = M /\ mods' = mods
    BY <1>1, <1>11 DEF PersistLink, ToPersist, M, Process, world
  <2>2. n \in Names /\ n # Exe /\ n # Config /\ n \notin mods \ Persist
    BY InstallAssumption DEF Names
  <2>3. \A o \in Names \ {n} : tree'[o] = tree[o]
    BY <1>11 DEF PersistLink
  <2>4. tree'[n] \in {Empty, Saved}
    BY <1>11, <2>2 DEF PersistLink
  <2>5. Exe \in Names /\ Config \in Names /\ mods \subseteq Names /\ Persist \subseteq Names
    BY DEF Names
  <2>6. \A o \in Persist \ proc'["start"].todo : tree'[o] \in {Empty, Saved}
    BY <2>1, <2>3, <2>4, <2>5 DEF Linked
  <2>7. tree'[Exe] = tree[Exe] /\ tree'[Config] = tree[Config] /\ \A o \in mods \ Persist : tree'[o] = tree[o]
    BY <2>2, <2>3, <2>5
  <2> QED BY <1>1, <2>1, <2>6, <2>7 DEF Linked
<1>12. CASE Composed
  <2>1. /\ proc["start"].pc = "persist" /\ proc["start"].todo = {}
        /\ proc'["start"].pc = "configure" /\ proc'["start"].todo = {} /\ M' = M
    BY <1>1, <1>12 DEF Composed, Goto, M, Process
  <2>2. UNCHANGED <<tree, mods>>
    BY <1>12 DEF Composed, game, world
  <2> QED BY <1>9, <2>1, <2>2
<1>13. CASE Configure \/ Run
  <2>1. Stop("start") \/ \E loc \in {"write", "running"} : Goto("start", loc)
    BY <1>13 DEF Configure, Run
  <2>2. ASSUME NEW loc \in {"write", "running"}, Goto("start", loc)
        PROVE  Linked'
    <3>1. proc["start"].pc \in {"configure", "write"} /\ UNCHANGED <<tree, mods>>
      BY <1>13 DEF Configure, Run, world
    <3>2. proc'["start"].pc = loc /\ proc'["start"].todo = proc["start"].todo /\ M' = M
      BY <1>1, <2>2 DEF Goto, M, Process
    <3>3. proc["start"].todo = {}
      BY <3>1 DEF Linked
    <3> QED BY <1>9, <3>1, <3>2, <3>3
  <2> QED BY <1>6, <2>1, <2>2
<1> QED BY <1>2, <1>3, <1>4, <1>5, <1>7, <1>8, <1>10, <1>11, <1>12, <1>13, StartMoves DEF TreeStep

-----------------------------------------------------------------------------
(* The persisted files. *)

LEMMA SavedMoves ==
  ASSUME [Next]_vars
  PROVE  UNCHANGED saved \/ \E n \in Persist : Edit(n) \/ Seed(n) \/ Seeded(n)
<1>1. ASSUME NEW p \in Procs, Acts(p)
      PROVE  UNCHANGED saved
  BY <1>1, ActsFrame DEF game
<1>2. CASE \/ Wipe \/ Links \/ Overlay \/ Composed \/ Configure \/ Run
           \/ (\E n \in Persist : PersistLink(n)) \/ TreeFails \/ ServerEnds
  BY <1>2 DEF Wipe, Links, Overlay, Composed, Configure, Run, PersistLink, TreeFails, ServerEnds, game
<1>3. CASE Publish \/ GoOffline \/ GoOnline \/ ChangeMods \/ UNCHANGED vars
  BY <1>3 DEF Publish, GoOffline, GoOnline, ChangeMods, vars, game
<1> QED BY <1>1, <1>2, <1>3, Steps DEF Starts, TreeStep, Turns

LEMMA EditedStays ==
  ASSUME Types, Seeding, [Next]_vars, NEW n \in Persist, saved[n] = "edited"
  PROVE  saved'[n] = "edited"
<1> USE DEF Types, GameTypes
<1>1. ASSUME NEW o \in Persist, Edit(o) \/ Seed(o)
      PROVE  saved'[n] = "edited"
  BY <1>1 DEF Edit, Seed
<1>2. ASSUME NEW o \in Persist, Seeded(o)
      PROVE  saved'[n] = "edited"
  <2>1. o # n
    BY <1>2 DEF Seeded, Seeding
  <2> QED BY <1>2, <2>1 DEF Seeded
<1> QED BY <1>1, <1>2, SavedMoves

LEMMA SeedingStep ==
  ASSUME Types, Seeding, [Next]_vars
  PROVE  Seeding'
<1> USE Constants DEF Types, ProcTypes, GameTypes, At
<1>1. proc["start"] \in Process
  OBVIOUS
<1>2. CASE proc'["start"].pc # "copy"
  BY <1>2 DEF Seeding
<1>3. CASE proc'["start"] = proc["start"]
  <2>1. proc["start"].pc = "copy" => UNCHANGED saved
    <3>1. ASSUME NEW n \in Persist, Edit(n) \/ Seed(n) \/ Seeded(n)
          PROVE  proc["start"].pc # "copy"
      <4>1. CASE Edit(n)
        BY <4>1 DEF Edit
      <4>2. CASE Seed(n)
        BY <4>2 DEF Seed, ToPersist
      <4>3. CASE Seeded(n)
        BY <1>1, <1>3, <4>3 DEF Seeded, Process
      <4> QED BY <3>1, <4>1, <4>2, <4>3
    <3> QED BY <3>1, SavedMoves
  <2> QED BY <1>3, <2>1 DEF Seeding
<1>4. ASSUME NEW n \in Persist, Seed(n)
      PROVE  Seeding'
  <2>1. proc'["start"].now = {n} /\ saved'[n] = "cut"
    BY <1>1, <1>4 DEF Seed, Process
  <2> QED BY <2>1 DEF Seeding
<1>5. CASE Skip("start") \/ Mark("start") \/ Seal("start")
  BY <1>1, <1>2, <1>5 DEF Skip, Mark, Seal, Goto, Stop, Idle, Process
<1>6. CASE Wipe \/ Links \/ Composed \/ Configure \/ Run
  <2>1. Stop("start") \/ \E loc \in {"link", "overlay", "configure", "write", "running"} : Goto("start", loc)
    BY <1>6 DEF Wipe, Links, Composed, Configure, Run
  <2>2. proc'["start"].pc # "copy"
    BY <1>1, <2>1 DEF Goto, Stop, Idle, Process
  <2> QED BY <1>2, <2>2
<1>7. CASE Overlay
  BY <1>1, <1>2, <1>7 DEF Overlay, Process
<1>8. ASSUME NEW n \in Persist, Seeded(n) \/ PersistLink(n)
      PROVE  Seeding'
  <2>1. proc'["start"].pc = "persist"
    BY <1>1, <1>8 DEF Seeded, PersistLink, ToPersist, Process
  <2> QED BY <1>2, <2>1
<1>9. proc'["start"].pc \in Downloading => Seeding'
  BY <1>2 DEF Downloading, Early, Fetching
<1> QED BY <1>3, <1>4, <1>5, <1>6, <1>7, <1>8, <1>9, StartMoves DEF TreeStep

-----------------------------------------------------------------------------
(* The invariant, and what follows from it. *)

IInv == Types /\ WorldTypes /\ Markable /\ MarkerMeansPlayable /\ Startable /\ Linked /\ Seeding

LEMMA InitIInv == Init => IInv
<1> SUFFICES ASSUME Init PROVE IInv
  OBVIOUS
<1>1. proc \in [Procs -> Process] /\ \A p \in Procs : proc[p] = Idle
  BY Constants DEF Init
<1>2. ManifestIsKnown /\ Startable /\ Linked /\ Seeding /\ Markable
  BY <1>1, Constants DEF ManifestIsKnown, Startable, Linked, Seeding, Markable, At, Made, Idle, Early
<1>3. InstallTypes /\ GameTypes /\ SourceTypes
  BY DEF Init, InstallTypes, GameTypes, SourceTypes, Link, Statuses
<1>4. WorldTypes
  <2>1. env \in Envs /\ mods \subseteq ModNames /\ faults \in 0 .. MaxFaults
    BY InstallAssumption DEF Init
  <2>2. online \in BOOLEAN
    BY DEF Init
  <2>3. keys \in BOOLEAN
    BY InstallAssumption DEF Init
  <2> QED BY <2>1, <2>2, <2>3 DEF WorldTypes
<1>5. MarkerMeansPlayable
  BY DEF Init, MarkerMeansPlayable
<1> QED BY <1>1, <1>2, <1>3, <1>4, <1>5 DEF IInv, Types, ProcTypes

LEMMA StepIInv ==
  ASSUME IInv, [Next]_vars
  PROVE  IInv'
<1> USE DEF IInv
<1>1. Types'
  BY ProcTypesStep, InstallTypesStep, GameTypesStep, SourceTypesStep DEF Types, WorldTypes
<1>2. WorldTypes'
  BY WorldTypesStep
<1>3. Markable'
  BY MarkableStep
<1>4. MarkerMeansPlayable'
  BY MarkerStep
<1>5. Startable'
  BY StartableStep
<1>6. Linked'
  BY LinkedStep DEF WorldTypes
<1>7. Seeding'
  BY SeedingStep
<1> QED BY <1>1, <1>2, <1>3, <1>4, <1>5, <1>6, <1>7

\* The inductive invariant holds of every run of starts and installs: who marks
\* an install has just seen its binary, who makes a tree has a marked one, and
\* the tree at each stage is that of the install and the mods.
THEOREM InstallInvariant == Spec => []IInv
<1>1. Init => IInv
  BY InitIInv
<1>2. IInv /\ [Next]_vars => IInv'
  BY StepIInv
<1> QED BY <1>1, <1>2, PTL DEF Spec

\* Whatever VERSION is asked for and whichever source answers, what is past the
\* resolution has a manifest, and the tree links to nothing unknown.
THEOREM InstallTypeCorrect == Spec => []TypeOK
<1>1. IInv => TypeOK
  <2> SUFFICES ASSUME IInv PROVE TypeOK
    OBVIOUS
  <2>1. \A p \in Procs : proc[p].m = None => proc[p].pc \in {"idle", "prepare", "resolve"}
    BY DEF IInv, Types, ProcTypes, ManifestIsKnown, Early
  <2>2. proc \in [Procs -> Process]
    BY DEF IInv, Types, ProcTypes
  <2> QED BY <2>1, <2>2 DEF IInv, Types, WorldTypes, InstallTypes, GameTypes, SourceTypes, TypeOK, Process,
             Statuses
<1> QED BY <1>1, InstallInvariant, PTL

\* download_version(): whatever was cut off, killed or retried, an install with
\* .installed has the server's binary, unless a download beside the one that
\* wrote .installed, or a forced one before the install was sealed, moved the
\* binary away after it had been looked for.
THEOREM MarkedIsPlayable == Spec => []MarkerMeansPlayable
<1>1. IInv => MarkerMeansPlayable
  BY DEF IInv
<1> QED BY <1>1, InstallInvariant, PTL

\* build_game_tree(): a server that runs has the binary of its version or a
\* mod's, unless the install was torn, every mod, and its own config and
\* persisted files, whatever tree an earlier start left.
THEOREM TreeIsComposed == Spec => []ComposedTree
<1>1. IInv => ComposedTree
  <2> SUFFICES ASSUME IInv, At("start", "running") PROVE ComposedTree
    BY DEF ComposedTree
  <2>1. Linked /\ proc["start"].pc = "running" /\ proc["start"].todo = {}
    BY DEF IInv, Linked, At
  <2> QED BY <2>1 DEF Linked, ComposedTree
<1> QED BY <1>1, InstallInvariant, PTL

\* What was written into a persisted file is never overwritten by the seed, in
\* any step of any start.
THEOREM PersistedStays == Spec => PersistKept
<1>1. IInv /\ [Next]_vars => [\A n \in Persist : saved[n] = "edited" => saved'[n] = "edited"]_vars
  BY EditedStays DEF IInv
<1> QED BY <1>1, InstallInvariant, PTL DEF Spec, PersistKept
=============================================================================
