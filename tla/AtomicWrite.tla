----------------------------- MODULE AtomicWrite -----------------------------
(* ControlFiles._atomic_write() (enshctl/lifecycle/control.py) by several     *)
(* writers of one file: write_text() of a temporary file, chown, replace().   *)
(* A name is a directory entry for an inode, which an open handle outlives.   *)
(* A writer that dies leaves its temporary file for the next one of its name. *)
EXTENDS FiniteSets

CONSTANTS
  Writers, Inodes, None,
  Temporary,         \* the name of a writer's temporary file, from its PID
  Mortal             \* the writers that may be killed

ASSUME WriterAssumption ==
  /\ None \notin Inodes \cup Writers
  /\ Mortal \subseteq Writers
  /\ DOMAIN Temporary = Writers

Names == {Temporary[w] : w \in Writers}

VARIABLES
  at,       \* where each writer is: "idle", "open", "written" or "raised"
  handle,   \* the inode a writer has open
  temp,     \* the inode of each temporary name
  target,   \* the inode of request or status.json
  content   \* of each inode: the text of a writer, or None: part of one

vars == <<at, handle, temp, target, content>>

Init ==
  /\ at = [w \in Writers |-> "idle"]
  /\ handle = [w \in Writers |-> None]
  /\ temp = [n \in Names |-> None]
  /\ target = None
  /\ content = [i \in Inodes |-> None]

\* No name and no handle refers to the inode.
Free(i) ==
  /\ i # target
  /\ \A n \in Names : temp[n] # i
  /\ \A w \in Writers : handle[w] # i

\* write_text() opens the temporary file: it truncates the one that is there.
Open(w) ==
  /\ at[w] = "idle" /\ at' = [at EXCEPT ![w] = "open"]
  /\ \E i \in Inodes :
       /\ i = temp[Temporary[w]] \/ (temp[Temporary[w]] = None /\ Free(i))
       /\ handle' = [handle EXCEPT ![w] = i]
       /\ temp' = [temp EXCEPT ![Temporary[w]] = i]
       /\ content' = [content EXCEPT ![i] = None]
  /\ UNCHANGED target

\* ... and writes from its start: over a longer text the end of that one stays.
Write(w) ==
  /\ at[w] = "open" /\ at' = [at EXCEPT ![w] = "written"]
  /\ \E text \in IF content[handle[w]] = None THEN {w} ELSE {w, None} :
       content' = [content EXCEPT ![handle[w]] = text]
  /\ handle' = [handle EXCEPT ![w] = None]
  /\ UNCHANGED <<temp, target>>

\* Mutant: the file replaces the old one before it is written.
ReplaceFirst(w) ==
  /\ at[w] \in {"open", "written"} /\ temp[Temporary[w]] # None
  /\ target' = temp[Temporary[w]]
  /\ temp' = [temp EXCEPT ![Temporary[w]] = None]
  /\ at' = [at EXCEPT ![w] = IF @ = "open" THEN @ ELSE "idle"]
  /\ UNCHANGED <<handle, content>>

\* replace(), and FileNotFoundError when another has moved the file away
Replace(w) ==
  /\ at[w] = "written"
  /\ \/ /\ temp[Temporary[w]] = None
        /\ at' = [at EXCEPT ![w] = "raised"]
        /\ UNCHANGED <<target, temp>>
     \/ /\ temp[Temporary[w]] # None
        /\ target' = temp[Temporary[w]]
        /\ temp' = [temp EXCEPT ![Temporary[w]] = None]
        /\ at' = [at EXCEPT ![w] = "idle"]
  /\ UNCHANGED <<handle, content>>

\* Mutant: temporary files are swept away as well.
UnlinkAll ==
  /\ target # None /\ target' = None
  /\ temp' = [n \in Names |-> None]
  /\ UNCHANGED <<at, handle, content>>

\* unlink() of the file by its reader or at the start of the container
Unlink ==
  /\ target # None /\ target' = None
  /\ UNCHANGED <<at, handle, temp, content>>

\* The process of a writer is killed; the next one may have its PID.
Die(w) ==
  /\ w \in Mortal /\ at[w] \in {"open", "written"}
  /\ at' = [at EXCEPT ![w] = "idle"]
  /\ handle' = [handle EXCEPT ![w] = None]
  /\ UNCHANGED <<temp, target, content>>

Next ==
  \/ \E w \in Writers : Open(w) \/ Write(w) \/ Replace(w) \/ Die(w)
  \/ Unlink

Spec == Init /\ [][Next]_vars

-----------------------------------------------------------------------------
TypeOK ==
  /\ at \in [Writers -> {"idle", "open", "written", "raised"}]
  /\ handle \in [Writers -> Inodes \cup {None}]
  /\ temp \in [Names -> Inodes \cup {None}]
  /\ target \in Inodes \cup {None}
  /\ content \in [Inodes -> Writers \cup {None}]

\* Whoever reads the file reads the whole text of one writer, whatever writers
\* are in the middle of and wherever one died.
ReadersSeeWhole == target # None => content[target] # None

\* A text that was written is published, or its writer was killed: nobody else
\* moves it away.
NobodyRaises == \A w \in Writers : at[w] # "raised"

\* Temporary names tell writers apart.
DistinctNames == \A v, w \in Writers : Temporary[v] = Temporary[w] => v = w
=============================================================================
