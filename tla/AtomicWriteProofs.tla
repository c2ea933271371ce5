-------------------------- MODULE AtomicWriteProofs --------------------------
(* Writers whose temporary names differ publish whole files only, whatever    *)
(* writers there are and wherever one is killed.                              *)
EXTENDS AtomicWrite, TLAPS

\* A temporary name belongs to its one writer: while he has the file open it is
\* his, and what he has written is whole until he moves it.
OwnsHisFile ==
  \A w \in Writers :
    /\ at[w] = "open" => /\ handle[w] # None /\ temp[Temporary[w]] = handle[w]
                         /\ content[handle[w]] = None
    /\ at[w] # "open" => handle[w] = None
    /\ at[w] = "written" => /\ temp[Temporary[w]] # None
                            /\ content[temp[Temporary[w]]] # None

\* No inode has two names, nor a temporary name and the file's.
OneName ==
  \A m \in Names : temp[m] # None =>
    /\ temp[m] # target
    /\ \A n \in Names : temp[n] = temp[m] => n = m

IInv == TypeOK /\ OwnsHisFile /\ OneName /\ ReadersSeeWhole /\ NobodyRaises

-----------------------------------------------------------------------------
\* Nobody has written anything yet.
LEMMA InitIInv == Init => IInv
  BY DEF Init, IInv, TypeOK, OwnsHisFile, OneName, ReadersSeeWhole, NobodyRaises, Names

\* The writer's own file is truncated, or a free inode: neither the file nor
\* another writer's.
LEMMA OpenIInv ==
  ASSUME DistinctNames, IInv, NEW w \in Writers, Open(w) PROVE IInv'
<1> USE WriterAssumption
<1>1. PICK i \in Inodes :
        /\ i = temp[Temporary[w]] \/ (temp[Temporary[w]] = None /\ Free(i))
        /\ handle' = [handle EXCEPT ![w] = i]
        /\ temp' = [temp EXCEPT ![Temporary[w]] = i]
        /\ content' = [content EXCEPT ![i] = None]
  BY DEF Open
<1>2. Temporary[w] \in Names /\ at[w] = "idle" /\ target' = target
      /\ at' = [at EXCEPT ![w] = "open"]
  BY DEF Open, Names
<1>3. i # target /\ i # None /\ \A n \in Names : temp[n] = i => n = Temporary[w]
  BY <1>1, <1>2 DEF IInv, OneName, Free
<1>4. TypeOK'
  BY <1>1, <1>2 DEF IInv, TypeOK
<1>5. OwnsHisFile'
  <2> SUFFICES ASSUME NEW v \in Writers
               PROVE /\ at'[v] = "open" => /\ handle'[v] # None /\ temp'[Temporary[v]] = handle'[v]
                                            /\ content'[handle'[v]] = None
                     /\ at'[v] # "open" => handle'[v] = None
                     /\ at'[v] = "written" => /\ temp'[Temporary[v]] # None
                                              /\ content'[temp'[Temporary[v]]] # None
    BY DEF OwnsHisFile
  <2>1. CASE v = w
    BY <1>1, <1>2, <1>3, <2>1 DEF IInv, TypeOK
  <2>2. CASE v # w
    <3>1. Temporary[v] # Temporary[w] /\ Temporary[v] \in Names
      BY <2>2 DEF DistinctNames, Names
    <3>2. at'[v] = at[v] /\ handle'[v] = handle[v] /\ temp'[Temporary[v]] = temp[Temporary[v]]
      BY <1>1, <1>2, <2>2, <3>1 DEF IInv, TypeOK
    <3>3. temp[Temporary[v]] # i
      BY <1>3, <3>1
    <3> QED
      BY <1>1, <3>1, <3>2, <3>3 DEF IInv, TypeOK, OwnsHisFile
  <2> QED BY <2>1, <2>2
<1>6. OneName'
  BY <1>1, <1>2, <1>3 DEF IInv, TypeOK, OneName
<1>7. ReadersSeeWhole'
  BY <1>1, <1>2, <1>3 DEF IInv, TypeOK, ReadersSeeWhole
<1>8. NobodyRaises'
  BY <1>2 DEF IInv, TypeOK, NobodyRaises
<1> QED BY <1>4, <1>5, <1>6, <1>7, <1>8 DEF IInv

\* He writes over a file that only he has a name for, and that is empty.
LEMMA WriteIInv ==
  ASSUME DistinctNames, IInv, NEW w \in Writers, Write(w) PROVE IInv'
<1> USE WriterAssumption
<1>1. /\ Temporary[w] \in Names /\ at[w] = "open" /\ UNCHANGED <<temp, target>>
      /\ at' = [at EXCEPT ![w] = "written"] /\ handle' = [handle EXCEPT ![w] = None]
  BY DEF Write, Names
<1>2. /\ handle[w] \in Inodes /\ temp[Temporary[w]] = handle[w] /\ handle[w] # target
      /\ content[handle[w]] = None
  BY <1>1 DEF IInv, TypeOK, OwnsHisFile, OneName
<1>3. content' = [content EXCEPT ![handle[w]] = w]
  BY <1>2 DEF Write
<1>4. TypeOK' /\ OneName' /\ ReadersSeeWhole' /\ NobodyRaises'
  BY <1>1, <1>2, <1>3 DEF IInv, TypeOK, OneName, ReadersSeeWhole, NobodyRaises
<1>5. OwnsHisFile'
  <2> SUFFICES ASSUME NEW v \in Writers
               PROVE /\ at'[v] = "open" => /\ handle'[v] # None /\ temp'[Temporary[v]] = handle'[v]
                                            /\ content'[handle'[v]] = None
                     /\ at'[v] # "open" => handle'[v] = None
                     /\ at'[v] = "written" => /\ temp'[Temporary[v]] # None
                                              /\ content'[temp'[Temporary[v]]] # None
    BY DEF OwnsHisFile
  <2>1. CASE v = w
    BY <1>1, <1>2, <1>3, <2>1 DEF IInv, TypeOK
  <2>2. CASE v # w
    <3>1. Temporary[v] # Temporary[w] /\ Temporary[v] \in Names
      BY <2>2 DEF DistinctNames, Names
    <3>2. temp[Temporary[v]] # None => temp[Temporary[v]] # handle[w]
      BY <1>1, <1>2, <3>1 DEF IInv, OneName
    <3> QED
      BY <1>1, <1>2, <1>3, <2>2, <3>1, <3>2 DEF IInv, TypeOK, OwnsHisFile
  <2> QED BY <2>1, <2>2
<1> QED BY <1>4, <1>5 DEF IInv

\* What he moves into place is whole, and nobody has moved it before.
LEMMA ReplaceIInv ==
  ASSUME DistinctNames, IInv, NEW w \in Writers, Replace(w) PROVE IInv'
<1> USE WriterAssumption
<1>1. /\ Temporary[w] \in Names /\ at[w] = "written" /\ UNCHANGED <<handle, content>>
      /\ temp[Temporary[w]] # None /\ content[temp[Temporary[w]]] # None
  BY DEF Replace, Names, IInv, OwnsHisFile
<1>2. /\ target' = temp[Temporary[w]]
      /\ temp' = [temp EXCEPT ![Temporary[w]] = None]
      /\ at' = [at EXCEPT ![w] = "idle"]
  BY <1>1 DEF Replace
<1>3. TypeOK' /\ OneName' /\ ReadersSeeWhole' /\ NobodyRaises'
  BY <1>1, <1>2 DEF IInv, TypeOK, OneName, ReadersSeeWhole, NobodyRaises
<1>4. OwnsHisFile'
  BY <1>1, <1>2 DEF IInv, TypeOK, OwnsHisFile, DistinctNames, Names
<1> QED BY <1>3, <1>4 DEF IInv

\* A killed writer leaves his file to the next one of his name.
LEMMA DieIInv ==
  ASSUME DistinctNames, IInv, NEW w \in Writers, Die(w) PROVE IInv'
  BY WriterAssumption DEF Die, IInv, TypeOK, OwnsHisFile, OneName, ReadersSeeWhole, NobodyRaises

LEMMA UnlinkIInv == ASSUME IInv, Unlink PROVE IInv'
  BY WriterAssumption DEF Unlink, IInv, TypeOK, OwnsHisFile, OneName, ReadersSeeWhole, NobodyRaises

LEMMA StutterIInv == ASSUME IInv, UNCHANGED vars PROVE IInv'
  BY DEF vars, IInv, TypeOK, OwnsHisFile, OneName, ReadersSeeWhole, NobodyRaises

LEMMA NextIInv == ASSUME DistinctNames, IInv, [Next]_vars PROVE IInv'
  BY OpenIInv, WriteIInv, ReplaceIInv, DieIInv, UnlinkIInv, StutterIInv DEF Next

-----------------------------------------------------------------------------
\* The invariant of writers whose names differ.
THEOREM WritersInvariant == ASSUME DistinctNames PROVE Spec => []IInv
<1>1. IInv /\ [Next]_vars => IInv'
  BY NextIInv
<1> QED BY InitIInv, <1>1, PTL DEF Spec

\* _atomic_write() is atomic: the request file and status.json are whole at any
\* moment, for any number of processes and wherever one of them is killed.
THEOREM AtomicForReaders == ASSUME DistinctNames PROVE Spec => []ReadersSeeWhole
<1>1. IInv => ReadersSeeWhole
  BY DEF IInv
<1> QED BY WritersInvariant, <1>1, PTL

\* _atomic_write() never misses the file it has just written.
THEOREM WritersSucceed == ASSUME DistinctNames PROVE Spec => []NobodyRaises
<1>1. IInv => NobodyRaises
  BY DEF IInv
<1> QED BY WritersInvariant, <1>1, PTL
=============================================================================
