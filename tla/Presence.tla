------------------------------- MODULE Presence -------------------------------
(***************************************************************************)
(* PresenceTracker (enshctl/presence.py): the roster of connected players, *)
(* the queue of handles that wait for their name, the pending join, the    *)
(* Session block, and the game's lines that move them.                     *)
(*                                                                         *)
(* A line is what its pattern extracts.  A player's name is his handle, so *)
(* that a name in the wrong place shows.  Clock readings are ages in ticks *)
(* that stop at their threshold.  Warnings are left out; _cap_warned is    *)
(* set and reset together with _degraded.                                  *)
(***************************************************************************)
EXTENDS Integers, FiniteSets, Sequences, SequencesExt

CONSTANTS
  Handles, None,           \* the handles of connections, and no name
  MAX_SESSION_MACHINES,
  Machines,                \* the indices a Session block may list; 0 is the host
  Grace,                   \* UNNAMED_HANDLE_GRACE
  JoinWindow,              \* PENDING_JOIN_WINDOW
  BlockTimeout,            \* SESSION_BLOCK_TIMEOUT, and the age a block is fresh to
  Games                    \* what a game may print, with the caps it meets

ASSUME PresenceAssumption ==
  /\ None \notin Handles /\ Machines \subseteq Nat
  /\ {MAX_SESSION_MACHINES, Grace, JoinWindow, BlockTimeout} \subseteq Nat \ {0}
  /\ Games \subseteq [kinds : SUBSET {"players", "joins", "session"},
                       handles : SUBSET Handles,
                       MAX_HANDLES : Nat \ {0}, MAX_PENDING_NAMES : Nat \ {0}]

VARIABLES
  players,   \* _players, _pending_names, _queue_warned, _degraded
  block,     \* the Session block being read and the last complete one
  pending,   \* ticks left of the pending join
  ready, stream,
  activity,  \* _activity_generation moved since the controller recorded it
  game,      \* history: what the game printed, as the game means it
  world      \* the member of Games that runs

vars == <<players, block, pending, ready, stream, activity, game, world>>

Kinds == world.kinds
MAX_HANDLES == world.MAX_HANDLES
MAX_PENDING_NAMES == world.MAX_PENDING_NAMES

Init ==
  /\ world \in Games
  /\ players = [roster |-> <<>>, queue |-> <<>>, name |-> [h \in Handles |-> None],
                age |-> [h \in Handles |-> 0], leaving |-> {}, warned |-> {},
                degraded |-> FALSE]
  /\ block = [open |-> FALSE, age |-> 0, rows |-> {}, bad |-> FALSE, overdue |-> FALSE,
              machines |-> {}, complete |-> FALSE, old |-> 0, malformed |-> FALSE]
  /\ pending = 0
  /\ ready = FALSE /\ stream = TRUE /\ activity = FALSE
  /\ game = [logins |-> <<>>, online |-> {}, orderly |-> TRUE, listed |-> {}, reported |-> {}]

-----------------------------------------------------------------------------
(* The roster. *)

\* How many of the positions K there are up to i.
Rank(K, i) == Cardinality({k \in K : k <= i})

\* The sequence s without the members of S, in its order.
Without(s, S) ==
  LET K == {i \in DOMAIN s : s[i] \notin S}
  IN [j \in 1 .. Cardinality(K) |-> s[CHOOSE i \in K : Rank(K, i) = j]]

\* The first of s that is in S.
FirstOf(s, S) == s[Min({i \in DOMAIN s : s[i] \in S})]

Unnamed(p) == {h \in ToSet(p.roster) : p.name[h] = None}

\* Mutant: a removal that leaves the queue alone.
ForgetUnpaired(p, S) ==
  [p EXCEPT !.roster = Without(@, S),
            !.name = [h \in Handles |-> IF h \in S THEN None ELSE @[h]],
            !.age = [h \in Handles |-> IF h \in S THEN 0 ELSE @[h]],
            !.leaving = @ \ S, !.degraded = @ /\ S = {}]

\* Removal of the handles S with _discard_pairing() and _reset_cap_warning().
Forget(p, S) ==
  [p EXCEPT !.roster = Without(@, S), !.queue = Without(@, S),
            !.name = [h \in Handles |-> IF h \in S THEN None ELSE @[h]],
            !.age = [h \in Handles |-> IF h \in S THEN 0 ELSE @[h]],
            !.leaving = @ \ S, !.warned = @ \ S,
            !.degraded = @ /\ S = {}]

\* Mutants: who waits for his name does not expire, or the named expire as well.
StaleUnqueued(p) == {h \in Unnamed(p) \ ToSet(p.queue) : p.age[h] >= Grace}

StaleNamed(p) ==
  {h \in ToSet(p.roster) : p.age[h] >= Grace \/ p.name[h] \notin {h, None}}

\* _expire_unnamed()
Stale(p) == {h \in Unnamed(p) : p.age[h] >= Grace}

ExpireUnnamed(p) == IF Stale(p) = {} THEN p ELSE Forget(p, Stale(p))

\* _enqueue_name(): a handle waits for one name, in one place.
EnqueueName(p, h) ==
  IF p.name[h] # None \/ h \in ToSet(p.queue) THEN p
  ELSE IF Len(p.queue) >= MAX_PENDING_NAMES THEN [p EXCEPT !.warned = @ \cup {h}]
  ELSE [p EXCEPT !.warned = @ \ {h}, !.queue = Append(@, h)]

\* _add_handle(); the name and the age of a handle outside the roster are reset
AddHandle(p, h) ==
  IF h \in ToSet(p.roster) THEN EnqueueName(p, h)
  ELSE IF Len(p.roster) >= MAX_HANDLES THEN [p EXCEPT !.degraded = TRUE]
  ELSE EnqueueName([p EXCEPT !.roster = Append(@, h)], h)

\* Mutant: the name goes to whoever was queued last.
AttachNameLast(p, n) ==
  LET h == p.queue[Len(p.queue)]
  IN IF p.queue = <<>> THEN p
     ELSE [p EXCEPT !.name[h] = n, !.queue = Without(@, {h}), !.warned = @ \ {h}]

\* _attach_name(): to the first of the queue that still waits, else to the
\* oldest unnamed handle.
AttachName(p, n) ==
  LET waits == {i \in DOMAIN p.queue : p.queue[i] \in Unnamed(p)}
      rest == IF waits = {} THEN <<>> ELSE SubSeq(p.queue, Min(waits) + 1, Len(p.queue))
      h == FirstOf(IF waits = {} THEN p.roster ELSE p.queue, Unnamed(p))
  IN IF Unnamed(p) = {} THEN [p EXCEPT !.queue = <<>>]
     ELSE [p EXCEPT !.name[h] = n, !.queue = Without(rest, {h}), !.warned = @ \ {h}]

\* _mark_leaving(): the first of the roster with that name that is not leaving
MarkLeaving(p, n) ==
  LET named == {h \in ToSet(p.roster) \ p.leaving : p.name[h] = n}
  IN IF named = {} THEN p ELSE [p EXCEPT !.leaving = @ \cup {FirstOf(p.roster, named)}]

-----------------------------------------------------------------------------
(* The Session block. *)

\* _expire_session()
ExpireSession(b) ==
  IF b.open /\ ~b.overdue /\ b.age >= BlockTimeout
  THEN [b EXCEPT !.malformed = TRUE, !.overdue = TRUE] ELSE b

StartBlock(b) ==
  [b EXCEPT !.malformed = @ \/ b.open, !.open = TRUE, !.age = 0, !.rows = {},
            !.bad = FALSE, !.overdue = FALSE]

CloseBlock(b) ==
  IF ~b.open THEN b
  ELSE [b EXCEPT !.malformed = b.bad \/ b.age >= BlockTimeout \/ 0 \notin b.rows,
                 !.machines = b.rows, !.complete = TRUE, !.old = 0,
                 !.open = FALSE, !.age = 0, !.rows = {}, !.bad = FALSE]

\* Mutant: rows beyond the cap are dropped silently.
MachineRowDropped(b, i) ==
  IF ~b.open \/ i \in b.rows \/ Cardinality(b.rows) >= MAX_SESSION_MACHINES THEN b
  ELSE [b EXCEPT !.rows = @ \cup {i}]

\* A row of a machine; one too many marks the block, and is not kept.
MachineRow(b, i) ==
  IF ~b.open \/ i \in b.rows THEN b
  ELSE IF Cardinality(b.rows) >= MAX_SESSION_MACHINES THEN [b EXCEPT !.bad = TRUE]
  ELSE [b EXCEPT !.rows = @ \cup {i}]

\* A line that begins like a row and is none.
BadRow(b) == [b EXCEPT !.bad = @ \/ b.open]

HasRemote(S) == \E i \in S : i > 0

-----------------------------------------------------------------------------
(* observe(): what is overdue expires first, then the line is applied. *)

Expired == ExpireUnnamed(players)

\* The game as it sees itself after what has just expired; its order is kept
\* for as long as it is one.
Disturbed == [game EXCEPT !.orderly = @ /\ Stale(players) = {}]

Noted(g) == IF g.orderly THEN g ELSE [g EXCEPT !.logins = <<>>, !.online = {}]

\* A line that matches for its players and leaves the Session block alone.
PlayerLine(p, join, g) ==
  /\ stream
  /\ players' = p /\ block' = ExpireSession(block)
  /\ pending' = join
  /\ activity' = TRUE
  /\ game' = Noted(g)
  /\ UNCHANGED <<ready, stream, world>>

\* "Remote player added" or "Machine logged in" of handle h
PlayerAdded(h) ==
  /\ "players" \in Kinds
  /\ LET p == AddHandle(Expired, h)
     IN PlayerLine(p, 0,
          [Disturbed EXCEPT !.online = @ \cup {h},
                            !.logins = IF h \in game.online THEN @ ELSE Append(@, h),
                            !.orderly = @ /\ (p.name[h] = None => h \in ToSet(p.queue))])

\* "Player <n> logged in": in order, it is the next of those who logged in
PlayerNamed(n) ==
  /\ "players" \in Kinds
  /\ PlayerLine(AttachName(Expired, n), 0,
       [Disturbed EXCEPT !.logins = Without(@, {n}),
                         !.orderly = @ /\ game.logins # <<>> /\ n = Head(game.logins)])

\* "Remove Entity for Player <n>"
EntityRemoved(n) ==
  /\ "players" \in Kinds
  /\ PlayerLine(MarkLeaving(Expired, n), pending, Disturbed)

\* "Player removed" of handle h
PlayerRemoved(h) ==
  /\ "players" \in Kinds
  /\ PlayerLine(Forget(Expired, {h} \cap ToSet(Expired.roster)), pending,
       [Disturbed EXCEPT !.online = @ \ {h}, !.logins = Without(@, {h})])

\* "Session accepted" or "authenticated": somebody is about to join
JoinAnnounced ==
  /\ "joins" \in Kinds
  /\ PlayerLine(Expired, JoinWindow, Disturbed)

\* The world is up, or switches to its run state once more.
RunMarker ==
  /\ stream
  /\ ready' = TRUE /\ activity' = TRUE
  /\ players' = Expired /\ block' = ExpireSession(block)
  /\ game' = Noted(Disturbed)
  /\ UNCHANGED <<pending, stream, world>>

\* A line of the Session block that becomes b; the game remembers g.
SessionLine(b, g) ==
  /\ stream /\ "session" \in Kinds
  /\ players' = Expired
  /\ block' = b
  /\ game' = Noted([g EXCEPT !.orderly = @ /\ Stale(players) = {}])
  /\ UNCHANGED <<pending, ready, stream, world>>

BlockStarts ==
  /\ SessionLine(StartBlock(ExpireSession(block)), [game EXCEPT !.listed = {}])
  /\ UNCHANGED activity

RowListed(i) ==
  /\ SessionLine(MachineRow(ExpireSession(block), i), [game EXCEPT !.listed = @ \cup {i}])
  /\ UNCHANGED activity

BadRowListed ==
  /\ SessionLine(BadRow(ExpireSession(block)), game)
  /\ UNCHANGED activity

\* Mutant: a block with a remote machine in it is no activity.
BlockEndsQuietly ==
  /\ SessionLine(CloseBlock(ExpireSession(block)),
       IF block.open THEN [game EXCEPT !.reported = game.listed] ELSE game)
  /\ UNCHANGED activity

BlockEnds ==
  /\ SessionLine(CloseBlock(ExpireSession(block)),
       IF block.open THEN [game EXCEPT !.reported = game.listed] ELSE game)
  /\ activity' = (activity \/ (block.open /\ HasRemote(block.rows)))

\* expire() of the controller or the reporter
Expire ==
  /\ players' = Expired /\ block' = ExpireSession(block)
  /\ game' = Noted(Disturbed)
  /\ UNCHANGED <<pending, ready, stream, activity, world>>

\* reset() on the operator's request
Reset ==
  /\ players' = Forget(players, Handles)
  /\ block' = [block EXCEPT !.open = FALSE, !.age = 0, !.rows = {}, !.bad = FALSE,
                            !.overdue = FALSE, !.machines = {}, !.complete = FALSE,
                            !.old = 0, !.malformed = FALSE]
  /\ pending' = 0
  /\ game' = Noted([game EXCEPT !.orderly = FALSE])
  /\ UNCHANGED <<ready, stream, activity, world>>

\* The controller records the activity generation as its window opens.
Record ==
  /\ activity' = FALSE
  /\ UNCHANGED <<players, block, pending, ready, stream, game, world>>

StreamEnds ==
  /\ stream /\ stream' = FALSE
  /\ UNCHANGED <<players, block, pending, ready, activity, game, world>>

Older(age, limit) == IF age < limit THEN age + 1 ELSE age

\* Time passes for whoever's age is looked at.
Tick ==
  /\ players' = [players EXCEPT !.age =
                   [h \in Handles |-> IF h \in Unnamed(players) THEN Older(@[h], Grace) ELSE 0]]
  /\ block' = [block EXCEPT !.age = IF block.open THEN Older(@, BlockTimeout) ELSE 0,
                            !.old = IF block.complete THEN Older(@, BlockTimeout + 1) ELSE 0]
  /\ pending' = IF pending > 0 THEN pending - 1 ELSE 0
  /\ UNCHANGED <<ready, stream, activity, game, world>>

Line ==
  \/ \E h \in world.handles : PlayerAdded(h) \/ PlayerNamed(h) \/ EntityRemoved(h) \/ PlayerRemoved(h)
  \/ JoinAnnounced \/ RunMarker
  \/ BlockStarts \/ BadRowListed \/ BlockEnds \/ \E i \in Machines : RowListed(i)

Next == Line \/ Expire \/ Reset \/ Record \/ StreamEnds \/ Tick

Spec == Init /\ [][Next]_vars

\* Time passes, and the controller's loop calls expire() in every turn.
FairSpec == Spec /\ WF_vars(Tick) /\ WF_vars(Expire)

-----------------------------------------------------------------------------
PlayersType ==
  [roster : Seq(Handles), queue : Seq(Handles), name : [Handles -> Handles \cup {None}],
   age : [Handles -> 0 .. Grace], leaving : SUBSET Handles, warned : SUBSET Handles,
   degraded : BOOLEAN]

BlockType ==
  [open : BOOLEAN, age : 0 .. BlockTimeout, rows : SUBSET Machines, bad : BOOLEAN,
   overdue : BOOLEAN, machines : SUBSET Machines, complete : BOOLEAN,
   old : 0 .. BlockTimeout + 1, malformed : BOOLEAN]

GameType ==
  [logins : Seq(Handles), online : SUBSET Handles, orderly : BOOLEAN,
   listed : SUBSET Machines, reported : SUBSET Machines]

TypeOK ==
  /\ players \in PlayersType /\ block \in BlockType /\ game \in GameType
  /\ pending \in 0 .. JoinWindow
  /\ ready \in BOOLEAN /\ stream \in BOOLEAN /\ activity \in BOOLEAN
  /\ world \in Games

\* The caps hold: no handle is there twice, nor more of them or of the machines
\* of a block than there may be.
Capped ==
  /\ IsInjective(players.roster) /\ Len(players.roster) <= MAX_HANDLES
  /\ Cardinality(block.rows) <= MAX_SESSION_MACHINES

\* Who waits for a name is in the roster, has none yet, and waits once: no
\* name is lost on a handle that left, expired or was named meanwhile, and
\* neither the queue nor the set of handles warned about grows without end.  And
\* the veto of a degraded tracker lasts no longer than a rejection matters: the
\* roster is full, whichever way a place becomes free.
PairingSound ==
  /\ ToSet(players.queue) \subseteq Unnamed(players)
  /\ IsInjective(players.queue) /\ Len(players.queue) <= MAX_PENDING_NAMES
  /\ players.warned \subseteq Unnamed(players) \ ToSet(players.queue)
  /\ players.degraded => Len(players.roster) = MAX_HANDLES

\* While the game names its players in the order of their logins, nobody
\* expires and nothing overflows, every name is attached to its own handle,
\* through any mix of repeated lines, leaves and returns.
NamesFollowLogins ==
  game.orderly =>
    /\ \A h \in ToSet(players.roster) : players.name[h] \in {h, None}
    /\ players.queue = game.logins

\* What a block that is not malformed reports is what the game listed in it,
\* also at the cap on machines: no remote machine is hidden from the veto.
SessionHidesNobody ==
  block.complete /\ ~block.malformed => block.machines = game.reported

\* A named player keeps his place and his name until his own removal line or
\* an operator's reset: names never expire and are never attached twice.
NamedStay ==
  [][\A h \in ToSet(players.roster) \ Unnamed(players) :
       \/ h \in ToSet(players'.roster) /\ players'.name[h] = players.name[h]
       \/ PlayerRemoved(h) \/ Reset]_vars

\* A handle that gets no name does not keep the server awake for ever, once the
\* game has stopped to announce it.
UnnamedLeaves ==
  \A h \in Handles :
    <>[][~PlayerAdded(h)]_vars => []<>(h \notin Unnamed(players))

\* The tracker gives the controller what Evidence promises.
Seen ==
  INSTANCE Evidence WITH
    Faults <- {"stream", "cap"},
    degraded <- players.degraded,
    present <- players.roster # <<>> \/ pending > 0 \/ HasRemote(block.machines),
    session <- /\ block.complete /\ ~block.malformed /\ block.old <= BlockTimeout
               /\ block.machines = {0}
ImplementsEvidence == Seen!EvidenceSpec
=============================================================================
