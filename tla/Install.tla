------------------------------ MODULE Install -------------------------------
(***************************************************************************)
(* From a VERSION to a game tree: the manifest files and depot keys        *)
(* (keys.py, hub.py), the resolution of the version (manifests.py), the    *)
(* download (download/flow.py, depotdownloader.py), the symlink tree the   *)
(* server runs in (mods.py) and the server config (config.py), by the start *)
(* command and by an install command run beside it.  The two share the     *)
(* manifests directory without a lock, and the next start finds whatever a *)
(* failure or a kill left.                                                 *)
(***************************************************************************)
EXTENDS Naturals, FiniteSets

CONSTANTS
  Manifests,    (* manifest IDs: later ones are newer                         *)
  Holds,        (* the depots of the app, and the paths each brings           *)
  Default,      (* DEPOT_ID                                                   *)
  Exe,          (* the server's binary, in the default depot                  *)
  Versions,     (* what each process may be asked for                         *)
  Envs,         (* the settings: credentials and FORCE_INSTALL; the operator's *)
                (* own manifest files, and whether depot.keys is there        *)
  Support,      (* the downloader knows -manifestfile and -depotkeys          *)
  ModNames,     (* paths a mod may bring                                      *)
  Persist,      (* PERSIST_FILES: no directory in them                        *)
  Config,       (* the path of the server config                              *)
  MaxFaults     (* bound: failures and kills                                  *)

Procs == {"start", "command"}
None == 0

\* A VERSION: the latest manifest, the ID of one, or a build, which the listing
\* may not know (None).
Version == [kind : {"id"}, m : Manifests]
             \cup [kind : {"latest", "build"}, m : Manifests \cup {None}]
Latest == [kind |-> "latest", m |-> None]

Depots == DOMAIN Holds
GamePaths == UNION {Holds[d] : d \in Depots}
Names == GamePaths \cup ModNames \cup Persist \cup {Config}

ASSUME InstallAssumption ==
  /\ Manifests \subseteq Nat \ {0}
  /\ Default \in Depots /\ Exe \in Holds[Default]
  /\ Versions \in [Procs -> SUBSET Version]
  /\ Envs \subseteq [token : BOOLEAN, url : BOOLEAN, repo : BOOLEAN, user : BOOLEAN,
                     force : BOOLEAN, files : SUBSET Manifests, keys : BOOLEAN]
  /\ Support \in BOOLEAN
  /\ Config \notin GamePaths \cup ModNames \cup Persist /\ Exe \notin Persist
  /\ MaxFaults \in Nat

VARIABLES
  env,      (* the settings                                                   *)
  newest,   (* the manifest Steam lists as the newest                         *)
  online,   (* Steam and the other sources answer                             *)
  cache,    (* the latest-manifest control file; None: absent or empty        *)
  keys,     (* depot.keys is there                                            *)
  depot,    (* manifest installs: of each depot "cut" (a part without the     *)
            (* binary, or nothing), "most" or "full"; "moved": its binary is  *)
            (* in the staging directory                                       *)
  marker,   (* the installs that carry .installed                             *)
  readonly, (* the installs that nobody but root may write                    *)
  torn,     (* history: installs whose binary was moved away when they had    *)
            (* the marker, or were about to get it                            *)
  mods,     (* the paths in the mod overlay                                   *)
  tree,     (* the game tree: what each path links to                         *)
  saved,    (* the persisted files: "none", "cut", "seed" or "edited"         *)
  config,   (* the server config: "none", "cut" off or "whole"                *)
  proc,     (* where each process is, its VERSION, its manifest, the depots   *)
            (* or persisted files it has yet to do, and the one it is at now  *)
  faults    (* failures and kills so far                                      *)

world == <<env, newest, online, mods>>
sources == <<cache, keys>>
installs == <<depot, marker, readonly, torn>>
game == <<tree, saved, config>>
vars == <<world, sources, installs, game, proc, faults>>

Empty == <<"none", None>>
Mod == <<"mod", None>>
Saved == <<"persist", None>>
ConfigLink == <<"config", None>>
Link == {Empty, Mod, Saved, ConfigLink} \cup ({"manifest"} \X Manifests)

Idle == [pc |-> "idle", version |-> Latest, m |-> None,
         todo |-> {}, now |-> {}]

At(p, loc) == proc[p].pc = loc
Goto(p, loc) == proc' = [proc EXCEPT ![p].pc = loc]
Stop(p) == proc' = [proc EXCEPT ![p] = Idle]

\* Something fails: a bounded number of times.
Fault == faults < MaxFaults /\ faults' = faults + 1

Init ==
  /\ env \in Envs /\ newest \in Manifests /\ online = TRUE
  /\ cache = None /\ keys = env.keys
  /\ depot = [m \in Manifests |-> [d \in Depots |-> "cut"]]
  /\ marker = {} /\ readonly = {} /\ torn = {} /\ mods = {}
  /\ tree = [n \in Names |-> Empty]
  /\ saved = [n \in Persist |-> "none"] /\ config = "none"
  /\ proc = [p \in Procs |-> Idle]
  /\ faults = 0

-----------------------------------------------------------------------------
(* The world: Steam, the network, the operator and the game. *)

Publish ==
  /\ newest' \in {m \in Manifests : m > newest}
  /\ UNCHANGED <<env, online, mods, sources, installs, game, proc, faults>>

GoOffline ==
  /\ online /\ online' = FALSE
  /\ Fault
  /\ UNCHANGED <<env, newest, mods, sources, installs, game, proc>>

GoOnline ==
  /\ ~online /\ online' = TRUE
  /\ UNCHANGED <<env, newest, mods, sources, installs, game, proc, faults>>

\* The mod overlay is changed between two starts.
ChangeMods ==
  /\ At("start", "idle")
  /\ \E n \in ModNames : mods' = (mods \cup {n}) \ (mods \cap {n})
  /\ UNCHANGED <<env, newest, online, sources, installs, game, proc, faults>>

\* The game, or its operator, writes a persisted file.
Edit(n) ==
  /\ At("start", "running") /\ tree[n] = Saved
  /\ saved' = [saved EXCEPT ![n] = "edited"]
  /\ UNCHANGED <<world, sources, installs, tree, config, proc, faults>>

\* The server ends, and the container with it.
ServerEnds ==
  /\ At("start", "running") /\ Stop("start")
  /\ UNCHANGED <<world, sources, installs, game, faults>>

\* A process is killed wherever it is.
Kill(p) ==
  /\ proc[p].pc \notin {"idle", "running"}
  /\ Fault /\ Stop(p)
  /\ UNCHANGED <<world, sources, installs, game>>

-----------------------------------------------------------------------------
(* Manifest files, depot keys and the version. *)

Begin(p, v) ==
  /\ At(p, "idle")
  /\ proc' = [proc EXCEPT ![p] = [Idle EXCEPT !.pc = "prepare", !.version = v]]
  /\ UNCHANGED <<world, sources, installs, game, faults>>

\* prepare_manifests() does nothing without a token or a repository, nor for a
\* downloader that does not know manifest files.
Prepares == (env.token \/ env.repo) /\ Support
BadToken == env.token /\ ~env.url

\* The keys are fetched unless they are there.  The manifest files that are
\* fetched with them are left out: with the keys there, they refuse nothing.
Prepare(p) ==
  /\ At(p, "prepare") /\ ~BadToken
  /\ Prepares => keys \/ online
  /\ keys' = (keys \/ Prepares)
  /\ Goto(p, "resolve")
  /\ UNCHANGED <<world, cache, installs, game, faults>>

\* A token without its URL, keys that cannot be had, or a listing that hangs:
\* its timeout is not caught.
PrepareFails(p) ==
  /\ At(p, "prepare")
  /\ \/ (BadToken \/ (Prepares /\ ~keys /\ ~online)) /\ UNCHANGED <<keys, faults>>
     \/ /\ ~BadToken /\ Prepares /\ env.token /\ (keys \/ online)
        /\ Fault /\ keys' = TRUE
  /\ Stop(p)
  /\ UNCHANGED <<world, cache, installs, game>>

\* An ID is taken as it is.
ResolveGiven(p) ==
  /\ At(p, "resolve") /\ proc[p].version.kind = "id"
  /\ proc' = [proc EXCEPT ![p].pc = "check", ![p].m = proc[p].version.m]
  /\ UNCHANGED <<world, sources, installs, game, faults>>

\* A build is looked up in the listing, and only there: no recorded manifest
\* takes its place.  A number the listing does not have is taken as an ID, and
\* so is from here on the manifest that was found.
ResolveBuild(p) ==
  /\ At(p, "resolve") /\ proc[p].version.kind = "build"
  /\ IF ~online \/ proc[p].version.m = None
       THEN Stop(p)
       ELSE proc' = [proc EXCEPT ![p].pc = "check", ![p].m = proc[p].version.m,
                                 ![p].version = [kind |-> "id", m |-> proc[p].version.m]]
  /\ UNCHANGED <<world, sources, installs, game, faults>>

\* The latest is looked up, and recorded unless it is already: the control file
\* is truncated, then written.
ResolveLatest(p) ==
  /\ At(p, "resolve") /\ proc[p].version.kind = "latest"
  /\ online
  /\ cache' = IF cache = newest THEN cache ELSE None
  /\ proc' = [proc EXCEPT ![p].pc = "record", ![p].m = newest]
  /\ UNCHANGED <<world, keys, installs, game, faults>>

Record(p) ==
  /\ At(p, "record")
  /\ cache' = proc[p].m
  /\ Goto(p, "check")
  /\ UNCHANGED <<world, keys, installs, game, faults>>

\* The listing fails or is empty: the recorded manifest, if there is one.
ResolveCached(p) ==
  /\ At(p, "resolve") /\ proc[p].version.kind = "latest"
  /\ ~online
  /\ IF cache = None THEN Stop(p)
     ELSE proc' = [proc EXCEPT ![p].pc = "check", ![p].m = cache]
  /\ UNCHANGED <<world, sources, installs, game, faults>>

-----------------------------------------------------------------------------
(* download_version(). *)

ToInstall(p) == env.force \/ proc[p].m \notin marker

\* The marker is there and the install is not forced: nothing is downloaded.
Skip(p) ==
  /\ At(p, "check") /\ ~ToInstall(p)
  /\ IF p = "start" THEN Goto(p, "wipe") ELSE Stop(p)
  /\ UNCHANGED <<world, sources, installs, game, faults>>

\* _select_strategy(): with a manifest file and no login, only the file will do.
Refused(m) == m \in env.files /\ ~env.user /\ ~(keys /\ Support)

HasExe(m) == depot[m][Default] \in {"most", "full"}

\* Mutant: an install that has the binary, but no marker, is refused.
FreshOnly(p) ==
  /\ At(p, "check") /\ ToInstall(p)
  /\ ~HasExe(proc[p].m)
  /\ proc' = [proc EXCEPT ![p].pc = "fetch", ![p].todo = Depots]
  /\ UNCHANGED <<world, sources, installs, game, faults>>

\* The way to log in, and the depots to fetch: all of them, less
\* when some listing gives nothing, the default when none does.
Discover(p) ==
  /\ At(p, "check") /\ ToInstall(p)
  /\ ~Refused(proc[p].m)
  /\ \E found \in (SUBSET Depots) \ {{}} :
       /\ \/ online /\ found = Depots /\ UNCHANGED faults
          \/ ~online /\ found = {Default} /\ UNCHANGED faults
          \/ found # Depots /\ Fault
       /\ proc' = [proc EXCEPT ![p].pc = "fetch", ![p].todo = found]
  /\ UNCHANGED <<world, sources, installs, game>>

\* No way to log in, no space, no directory, or a listing that hangs.
CheckFails(p) ==
  /\ At(p, "check") /\ ToInstall(p)
  /\ \/ Refused(proc[p].m) /\ UNCHANGED faults
     \/ Fault
  /\ Stop(p)
  /\ UNCHANGED <<world, sources, installs, game>>

\* DepotDownloader, one depot after the other, in the order of the listing.  It
\* runs as another user, which cannot write a read-only install.
Writes(p, loc) == At(p, loc) /\ online /\ proc[p].m \notin readonly

\* A depot of the install gets another status.
Becomes(p, d, status) == depot' = [depot EXCEPT ![proc[p].m][d] = status]

\* A depot that is whole is passed over; the files that another lacks are
\* pre-allocated, and those it has are validated where they are ...
Fetch(p) ==
  /\ Writes(p, "fetch")
  /\ \E d \in proc[p].todo :
       IF depot[proc[p].m][d] = "full"
         THEN proc' = [proc EXCEPT ![p].todo = @ \ {d}] /\ UNCHANGED depot
         ELSE /\ Becomes(p, d, IF d = Default THEN "most" ELSE "cut")
              /\ proc' = [proc EXCEPT ![p].pc = "fill", ![p].now = {d}]
  /\ UNCHANGED <<world, sources, marker, readonly, torn, game, faults>>

\* ... or, when what was fetched is known, they are replaced.
Validate(p) ==
  /\ Writes(p, "fetch")
  /\ Default \in proc[p].todo /\ depot[proc[p].m][Default] = "most"
  /\ proc' = [proc EXCEPT ![p].pc = "replace", ![p].now = {Default}]
  /\ UNCHANGED <<world, sources, installs, game, faults>>

\* An install that has its marker, or that another is about to mark.
Marked(p) ==
  \/ proc[p].m \in marker
  \/ \E q \in Procs \ {p} : At(q, "mark") /\ proc[q].m = proc[p].m

\* The old file is moved to the staging directory: it must be there ...
Replace(p) ==
  /\ Writes(p, "replace")
  /\ IF depot[proc[p].m][Default] = "moved"
       THEN Stop(p) /\ UNCHANGED <<depot, torn>>
       ELSE /\ Becomes(p, Default, "moved") /\ Goto(p, "recreate")
            /\ torn' = IF Marked(p) THEN torn \cup {proc[p].m} ELSE torn
  /\ UNCHANGED <<world, sources, marker, readonly, game, faults>>

\* ... and a new one is made from it, unless the other process, which deletes
\* what it finds in the staging directory, has pre-allocated one.
Recreate(p) ==
  /\ Writes(p, "recreate")
  /\ IF depot[proc[p].m][Default] = "moved"
       THEN Becomes(p, Default, "most") /\ Goto(p, "fill")
       ELSE Stop(p) /\ UNCHANGED depot
  /\ UNCHANGED <<world, sources, marker, readonly, torn, game, faults>>

\* The chunks are fetched.  A file that is open is written wherever it is.
Fill(p) ==
  /\ Writes(p, "fill")
  /\ \E d \in proc[p].now :
       /\ Becomes(p, d, IF depot[proc[p].m][d] = "moved" THEN "moved" ELSE "full")
       /\ proc' = [proc EXCEPT ![p].pc = "fetch", ![p].todo = @ \ {d}, ![p].now = {}]
  /\ UNCHANGED <<world, sources, marker, readonly, torn, game, faults>>

Fetching == {"fetch", "replace", "recreate", "fill"}

\* The login of a version that is not the latest and has no manifest file: a QR
\* code for a person to scan.
Interactive(p) ==
  /\ proc[p].version.kind # "latest" /\ ~env.user
  /\ proc[p].m \notin env.files /\ ~(env.token /\ env.url /\ Support)

\* DepotDownloader fails in a read-only install ...
FetchRefused(p) ==
  /\ proc[p].pc \in Fetching /\ proc[p].todo # {}
  /\ proc[p].m \in readonly
  /\ Stop(p)
  /\ UNCHANGED <<world, sources, installs, game, faults>>

\* ... or it exits with an error, or hangs until its timeout.
FetchFails(p) ==
  /\ proc[p].pc \in Fetching /\ proc[p].todo # {}
  /\ \/ (~online \/ Interactive(p)) /\ UNCHANGED faults
     \/ At(p, "fill") /\ (\E d \in proc[p].now : depot[proc[p].m][d] = "moved") /\ UNCHANGED faults
     \/ Fault
  /\ Stop(p)
  /\ UNCHANGED <<world, sources, installs, game>>

\* Mutant: the marker is written, whether the binary is there or not.
InspectLater(p) ==
  /\ At(p, "fetch") /\ proc[p].todo = {}
  /\ Goto(p, "mark")
  /\ UNCHANGED <<world, sources, installs, game, faults>>

\* Everything was fetched: the binary is looked for ...
Inspect(p) ==
  /\ At(p, "fetch") /\ proc[p].todo = {}
  /\ IF HasExe(proc[p].m) THEN Goto(p, "mark") ELSE Stop(p)
  /\ UNCHANGED <<world, sources, installs, game, faults>>

\* ... the marker is written ...
Mark(p) ==
  /\ At(p, "mark")
  /\ marker' = marker \cup {proc[p].m}
  /\ Goto(p, "seal")
  /\ UNCHANGED <<world, sources, depot, readonly, torn, game, faults>>

\* ... and the install is made read-only.
Seal(p) ==
  /\ At(p, "seal")
  /\ readonly' = readonly \cup {proc[p].m}
  /\ IF p = "start" THEN Goto(p, "wipe") ELSE Stop(p)
  /\ UNCHANGED <<world, sources, depot, marker, torn, game, faults>>

-----------------------------------------------------------------------------
(* build_game_tree(). *)

M == proc["start"].m

\* The paths a listing of an install may show.
Listings(m) ==
  LET whole == UNION {Holds[d] : d \in {d \in Depots : depot[m][d] = "full"}}
      part == UNION {Holds[d] : d \in {d \in Depots : depot[m][d] # "full"}}
  IN {whole \cup some \cup (IF HasExe(m) THEN {Exe} ELSE {}) : some \in SUBSET (part \ {Exe})}

\* The old tree is removed; what cannot be removed is left.
Wipe ==
  /\ At("start", "wipe")
  /\ \/ tree' = [n \in Names |-> Empty] /\ UNCHANGED faults
     \/ /\ Fault
        /\ \E left \in SUBSET Names :
             tree' = [n \in Names |-> IF n \in left THEN tree[n] ELSE Empty]
  /\ Goto("start", "link")
  /\ UNCHANGED <<world, sources, installs, saved, config>>

\* Mutant: a path that is there already is left as it is.
LinkMissing ==
  /\ At("start", "link")
  /\ \E listed \in Listings(M) :
       tree' = [n \in Names |-> IF n \in listed /\ tree[n] = Empty
                                 THEN <<"manifest", M>> ELSE tree[n]]
  /\ Goto("start", "overlay")
  /\ UNCHANGED <<world, sources, installs, saved, config, faults>>

\* A link for every file of the install: none of them may be there already.
Links ==
  /\ At("start", "link")
  /\ \E listed \in Listings(M) :
       IF \E n \in listed : tree[n] # Empty
         THEN Stop("start") /\ UNCHANGED tree
         ELSE /\ tree' = [n \in Names |-> IF n \in listed THEN <<"manifest", M>> ELSE tree[n]]
              /\ Goto("start", "overlay")
  /\ UNCHANGED <<world, sources, installs, saved, config, faults>>

\* Mods take the place of what is there, and the server config is linked.
Overlay ==
  /\ At("start", "overlay")
  /\ tree' = [n \in Names |-> CASE n = Config -> ConfigLink
                                [] n \in mods -> Mod
                                [] OTHER -> tree[n]]
  /\ proc' = [proc EXCEPT !["start"].pc = "persist", !["start"].todo = Persist]
  /\ UNCHANGED <<world, sources, installs, saved, config, faults>>

\* Whether the install has the file a persisted one is seeded from: a depot that
\* is not whole may have it.
Sources(n) ==
  LET whole == \E d \in Depots : n \in Holds[d] /\ depot[M][d] = "full"
  IN {has \in BOOLEAN : /\ has => \E d \in Depots : n \in Holds[d]
                        /\ whole \/ tree[n] = <<"manifest", M>> => has}

ToPersist(n) == At("start", "persist") /\ n \in proc["start"].todo

\* Mutant: the file is seeded on every start.
SeedAgain(n) ==
  /\ ToPersist(n) /\ TRUE \in Sources(n)
  /\ saved[n] # "cut"
  /\ saved' = [saved EXCEPT ![n] = "cut"]
  /\ proc' = [proc EXCEPT !["start"].pc = "copy", !["start"].now = {n}]
  /\ UNCHANGED <<world, sources, installs, tree, config, faults>>

\* A persisted file that is not there yet is copied from the install ...
Seed(n) ==
  /\ ToPersist(n) /\ TRUE \in Sources(n)
  /\ saved[n] = "none"
  /\ saved' = [saved EXCEPT ![n] = "cut"]
  /\ proc' = [proc EXCEPT !["start"].pc = "copy", !["start"].now = {n}]
  /\ UNCHANGED <<world, sources, installs, tree, config, faults>>

Seeded(n) ==
  /\ At("start", "copy") /\ proc["start"].now = {n}
  /\ saved' = [saved EXCEPT ![n] = "seed"]
  /\ proc' = [proc EXCEPT !["start"].pc = "persist", !["start"].now = {}]
  /\ UNCHANGED <<world, sources, installs, tree, config, faults>>

\* ... and linked, unless neither the install nor the tree has such a file.
PersistLink(n) ==
  /\ ToPersist(n)
  /\ \E has \in Sources(n) :
       /\ has => saved[n] # "none"
       /\ tree' = [tree EXCEPT ![n] = IF has \/ @ # Empty THEN Saved ELSE @]
  /\ proc' = [proc EXCEPT !["start"].todo = @ \ {n}]
  /\ UNCHANGED <<world, sources, installs, saved, config, faults>>

\* An OSError in the making of the tree or of the config ends the start.
TreeFails ==
  /\ proc["start"].pc \in {"link", "overlay", "persist", "copy", "configure", "write"}
  /\ Fault /\ Stop("start")
  /\ UNCHANGED <<world, sources, installs, game>>

\* The tree is made: the server's config comes next.
Composed ==
  /\ At("start", "persist") /\ proc["start"].todo = {}
  /\ Goto("start", "configure")
  /\ UNCHANGED <<world, sources, installs, game, faults>>

\* write_generated_config(): the config is read, and truncated.  JSON that is
\* cut off raises; without a config the game's example of one is read, which a
\* depot that is not whole may have in part.
Configure ==
  /\ At("start", "configure")
  /\ \/ /\ \/ config = "cut"
           \/ config = "none" /\ depot[M][Default] # "full"
        /\ Stop("start") /\ UNCHANGED config
     \/ config # "cut" /\ config' = "cut" /\ Goto("start", "write")
  /\ UNCHANGED <<world, sources, installs, tree, saved, faults>>

\* It is written: the server is started.
Run ==
  /\ At("start", "write")
  /\ config' = "whole"
  /\ Goto("start", "running")
  /\ UNCHANGED <<world, sources, installs, tree, saved, faults>>

TreeStep ==
  Wipe \/ Links \/ Overlay \/ Composed \/ Configure \/ Run
    \/ \E n \in Persist : Seed(n) \/ Seeded(n) \/ PersistLink(n)

Resolve(p) ==
  ResolveGiven(p) \/ ResolveBuild(p) \/ ResolveLatest(p) \/ Record(p) \/ ResolveCached(p)

Download(p) == Fetch(p) \/ Validate(p) \/ Replace(p) \/ Recreate(p) \/ Fill(p)

\* The steps that lead to the end of an install.
InstallStep(p) ==
  \/ Prepare(p) \/ Resolve(p) \/ Skip(p) \/ Discover(p)
  \/ Download(p) \/ FetchRefused(p) \/ Inspect(p) \/ Mark(p) \/ Seal(p)

Failure(p) == PrepareFails(p) \/ CheckFails(p) \/ FetchFails(p) \/ Kill(p)

Next ==
  \/ \E p \in Procs : \/ \E v \in Versions[p] : Begin(p, v)
                      \/ InstallStep(p) \/ Failure(p)
  \/ TreeStep \/ TreeFails
  \/ Publish \/ GoOffline \/ GoOnline \/ ChangeMods \/ ServerEnds
  \/ \E n \in Persist : Edit(n)

\* A container that ended is started again, a start goes on, and a server without
\* its binary ends: one process, which is at one of these steps at a time.  The
\* network comes back.  Failures and kills need no fairness: they are bounded.
Scheduled ==
  \/ \E v \in Versions["start"] : Begin("start", v)
  \/ InstallStep("start") \/ TreeStep
  \/ tree[Exe] = Empty /\ ServerEnds

Fairness == WF_vars(Scheduled) /\ WF_vars(GoOnline)

Spec == Init /\ [][Next]_vars
FairSpec == Spec /\ Fairness

-----------------------------------------------------------------------------
(* Properties. *)

Locations == {"idle", "prepare", "resolve", "record", "check", "fetch", "replace",
              "recreate", "fill", "mark", "seal", "wipe", "link", "overlay",
              "persist", "copy", "configure", "write", "running"}

\* The variables have their types; past the resolution a manifest is known
\* (manifests.py).
TypeOK ==
  /\ env \in Envs /\ newest \in Manifests /\ online \in BOOLEAN
  /\ cache \in Manifests \cup {None} /\ keys \in BOOLEAN
  /\ depot \in [Manifests -> [Depots -> {"cut", "most", "moved", "full"}]]
  /\ marker \subseteq Manifests /\ readonly \subseteq Manifests /\ torn \subseteq Manifests
  /\ mods \subseteq ModNames
  /\ tree \in [Names -> Link]
  /\ saved \in [Persist -> {"none", "cut", "seed", "edited"}]
  /\ config \in {"none", "cut", "whole"}
  /\ proc \in [Procs -> [pc : Locations, version : Version,
                         m : Manifests \cup {None},
                         todo : SUBSET (Depots \cup Persist),
                         now : SUBSET (Depots \cup Persist)]]
  /\ \A p \in Procs : proc[p].m = None => proc[p].pc \in {"idle", "prepare", "resolve"}
  /\ faults \in 0..MaxFaults

\* An install that carries the marker has the server's binary, whatever was cut
\* off, killed or downloaded again and whichever depots were discovered, unless
\* a download that ran beside the one that marked it, or a forced one before it
\* was sealed, moved the binary away (flow.py, ContentDownloader.cs).
MarkerMeansPlayable == \A m \in marker \ torn : HasExe(m)

\* When the server runs, the binary it runs is that of the install of its
\* VERSION, or a mod's, unless that install was torn; every mod shadows the
\* install; the config is the persisted one, and so is every persisted file the
\* tree has: whatever an earlier tree of another manifest left behind (mods.py).
ComposedTree ==
  At("start", "running") =>
    /\ Exe \in mods => tree[Exe] = Mod
    /\ Exe \notin mods /\ M \notin torn => tree[Exe] = <<"manifest", M>>
    /\ \A n \in mods \ Persist : tree[n] = Mod
    /\ \A n \in Persist : tree[n] \in {Empty, Saved}
    /\ tree[Config] = ConfigLink

\* What the operator, or the game, wrote into a persisted file outlives every
\* start, failed start, kill and change of manifest (mods.py).
PersistKept == [][\A n \in Persist : saved[n] = "edited" => saved'[n] = "edited"]_vars

\* The settings allow a download that nobody has to attend.
Workable == ~env.force /\ ~BadToken /\ (env.user \/ (env.token /\ Support))

\* What ends every later start, or lets it run without a binary: a config that
\* was cut off, an install that was marked with its default depot in part when
\* there is no config yet, and a marked install that has lost its binary.
Stuck ==
  \/ config = "cut"
  \/ config = "none" /\ \E m \in marker : depot[m][Default] # "full"
  \/ \E m \in marker : ~HasExe(m)

\* When no install command runs beside it any more, the server is started again
\* and again with its binary, whatever was cut off or killed, unless it was one
\* of those (flow.py, mods.py, config.py).
StartsAgain ==
  Workable /\ <>[]At("command", "idle") =>
    \/ []<>(At("start", "running") /\ tree[Exe] # Empty)
    \/ <>[]Stuck
=============================================================================
