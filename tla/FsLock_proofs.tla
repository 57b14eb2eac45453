--------------------------- MODULE FsLock_proofs ---------------------------
(***************************************************************************)
(* Proofs about module FsLock, for any number of VCPUs, VFDs, files and    *)
(* descriptors of the host: type correctness; no descriptor of the host is *)
(* open that no VFD needs; and, as long as no process is killed while it   *)
(* waits, no VFD in use lacks its own, and the lock, as far as it goes:    *)
(* writers that do not wait exclude each other.                            *)
(***************************************************************************)
EXTENDS FsLock, FiniteSetTheorems, WellFoundedInduction, TLAPS

Process == [used : BOOLEAN, iowait : {"no", "file", "other"},
            iowait_id : Fds]
Entry == [flag : Flags, ino : Inodes \cup {None}, fd : HostFds \cup {NoFd}]
Table == [Fds -> Entry]
Opened == [HostFds -> Inodes \cup {None, Console}]

\* TypeOK in two parts
Typed ==
  /\ proc \in [Vcpus -> Process] /\ fsdata \in [Vcpus -> Table]
  /\ waitfile \in [Vcpus -> Paths \cup {None}]
  /\ inode \in [Paths -> Inodes \cup {None}]
  /\ opened \in Opened
  /\ unbroken \in [Vcpus -> SUBSET Fds]

WaitsForPath == \A c \in Vcpus : proc[c].iowait = "file" => waitfile[c] \in Paths

-----------------------------------------------------------------------------
(* Types *)

\* A set of natural numbers that is not empty has a least member.
LEMMA Least ==
  ASSUME NEW S \in SUBSET Nat, S # {}
  PROVE  Min(S) \in S
<1>1. IsWellFoundedOn(OpToRel(<, Nat), Nat)
  BY NatLessThanWellFounded
<1>2. PICK x \in S : \A y \in S : ~ (<<y, x>> \in OpToRel(<, Nat))
  BY <1>1, WFMin
<1>3. \A y \in S : ~ (y < x)
  BY <1>2 DEF OpToRel
<1>4. \A y \in S : x <= y
  BY <1>3
<1> QED BY <1>4 DEF Min

\* open(2) returns a descriptor that is free, or an error.
LEMMA LowestFdType == LowestFd \in HostFds \cup {NoFd}
<1> DEFINE free == {d \in HostFds : opened[d] = None}
<1>1. CASE free = {}
  BY <1>1 DEF LowestFd
<1>2. CASE free # {}
  <2>1. free \in SUBSET Nat
    BY FsLockAssumption DEF HostFds
  <2>2. Min(free) \in free
    BY <1>2, <2>1, Least
  <2>3. LowestFd = Min(free)
    BY <1>2 DEF LowestFd
  <2> QED BY <2>2, <2>3
<1> QED BY <1>1, <1>2

\* A VFD that is to be used is free.
LEMMA FirstFree ==
  ASSUME NEW c \in Vcpus, Free(c) # {}
  PROVE  Min(Free(c)) \in Fds /\ fsdata[c][Min(Free(c))].flag = {}
<1>1. Free(c) \in SUBSET Nat
  BY FsLockAssumption DEF Free, Fds
<1>2. Min(Free(c)) \in Free(c)
  BY <1>1, Least
<1> QED BY <1>2 DEF Free

LEMMA FlagTypes ==
  /\ {} \in Flags
  /\ \A m \in Modes : {"used", m} \in Flags
  /\ \A m \in Modes \cap Locking : {m} \in Flags
BY DEF Flags

LEMMA ClosedType ==
  ASSUME NEW ds
  PROVE  opened \in Opened => HostClose(ds) \in Opened
BY DEF HostClose, Opened

LEMMA VacantType == Vacant \in Process
BY FsLockAssumption DEF Vacant, Process, Fds

LEMMA ClosedEntryType == \A e \in Entry : ClosedEntry(e) \in Entry
BY FlagTypes DEF ClosedEntry, Entry

LEMMA DieType ==
  ASSUME Typed, NEW c \in Vcpus, NEW entries \in Table, Die(c, entries),
         inode' = inode
  PROVE  Typed'
<1> DEFINE swept == [j \in Fds |-> IF j \in Closing(entries)
                                   THEN ClosedEntry(entries[j]) ELSE entries[j]]
<1>1. swept \in Table
  BY ClosedEntryType DEF Table
<1>2. proc' \in [Vcpus -> Process]
  BY VacantType DEF Typed, Die
<1>3. fsdata' \in [Vcpus -> Table]
  <2> HIDE DEF swept
  <2>1. fsdata' = [fsdata EXCEPT ![c] = swept]
    BY DEF Die, swept
  <2> QED BY <1>1, <2>1 DEF Typed
<1>4. opened' \in Opened
  BY ClosedType DEF Typed, Die
<1>5. unbroken' \in [Vcpus -> SUBSET Fds] /\ waitfile' \in [Vcpus -> Paths \cup {None}]
  BY DEF Typed, Die
<1> QED BY <1>2, <1>3, <1>4, <1>5 DEF Typed

LEMMA RaiseType ==
  ASSUME Typed, NEW c \in Vcpus, NEW entries \in Table, Raise(c, entries),
         inode' = inode
  PROVE  Typed'
<1>1. CASE Die(c, entries)
  BY <1>1, DieType
<1>2. CASE /\ fsdata' = [fsdata EXCEPT ![c] = entries]
           /\ UNCHANGED <<proc, waitfile, opened, unbroken>>
  <2>1. fsdata' \in [Vcpus -> Table]
    BY <1>2 DEF Typed
  <2> QED BY <1>2, <2>1 DEF Typed
<1> QED BY <1>1, <1>2 DEF Raise

\* The entry of one VFD changes.
LEMMA EntryType ==
  ASSUME Typed, NEW c \in Vcpus, NEW j \in Fds, NEW e \in Entry
  PROVE  /\ [fsdata[c] EXCEPT ![j] = e] \in Table
         /\ [fsdata EXCEPT ![c][j] = e] \in [Vcpus -> Table]
BY DEF Typed, Table

LEMMA GrantedType ==
  ASSUME Typed, NEW c \in Vcpus, NEW j \in Fds, NEW flag \in Flags,
         NEW ino \in Inodes \cup {None}, NEW p \in Paths, Granted(c, j, flag, ino, p)
  PROVE  /\ fsdata' \in [Vcpus -> Table] /\ unbroken' \in [Vcpus -> SUBSET Fds]
         /\ opened' \in Opened
<1>1. [flag |-> flag, ino |-> ino, fd |-> LowestFd] \in Entry
  BY LowestFdType DEF Entry
<1>2. opened' \in Opened
  BY DEF Typed, Granted, Opened
<1> QED BY <1>1, <1>2, EntryType DEF Typed, Granted

LEMMA ProcessSteps ==
  ASSUME Typed, NEW c \in Vcpus,
         Load(c) \/ End(c) \/ OtherWait(c) \/ OtherReady(c) \/ Refused(c)
  PROVE  Typed'
<1>0. proc[c] \in Process /\ fsdata[c] \in Table
  BY DEF Typed
<1>1. CASE Load(c)
  <2>1. proc' \in [Vcpus -> Process]
    BY <1>0, <1>1 DEF Typed, Load, Process
  <2> QED BY <1>1, <2>1 DEF Load, Typed
<1>3. CASE End(c)
  BY <1>0, <1>3, DieType DEF Typed, End
<1>4. CASE OtherWait(c)
  <2>1. proc' \in [Vcpus -> Process] /\ unbroken' \in [Vcpus -> SUBSET Fds]
    BY <1>0, <1>4 DEF Typed, OtherWait, Process
  <2> QED BY <1>4, <2>1 DEF OtherWait, Typed
<1>5. CASE OtherReady(c)
  <2>1. proc' \in [Vcpus -> Process]
    BY <1>0, <1>5 DEF Typed, OtherReady, Process
  <2> QED BY <1>5, <2>1 DEF OtherReady, Typed
<1>6. CASE Refused(c)
  BY <1>0, <1>6, RaiseType DEF Typed, Refused
<1> QED BY <1>1, <1>3, <1>4, <1>5, <1>6

LEMMA OpenType ==
  ASSUME Typed, NEW c \in Vcpus, NEW p \in Paths, NEW mode \in Modes,
         NEW nonblock \in BOOLEAN, Open(c, p, mode, nonblock)
  PROVE  Typed'
<1> DEFINE j == Min(Free(c))
           e == [fsdata[c][j] EXCEPT !.flag = {"used", mode}, !.ino = inode[p]]
           failed == [fsdata[c] EXCEPT ![j].fd = NoFd]
<1>1. j \in Fds
  BY FirstFree DEF Open
<1>2. fsdata[c][j] \in Entry /\ proc[c] \in Process /\ {"used", mode} \in Flags
  BY <1>1, FlagTypes DEF Typed, Table
<1>3. inode[p] \in Inodes \cup {None}
  BY DEF Typed
<1>4. e \in Entry /\ failed \in Table
  <2>1. e \in Entry /\ [fsdata[c][j] EXCEPT !.fd = NoFd] \in Entry
    BY <1>2, <1>3 DEF Entry
  <2>2. failed = [fsdata[c] EXCEPT ![j] = [fsdata[c][j] EXCEPT !.fd = NoFd]]
    OBVIOUS
  <2> HIDE DEF j, failed
  <2> QED BY <1>1, <2>1, <2>2, EntryType
<1>5. inode' = inode
  BY DEF Open
<1> HIDE DEF failed
<1>6. CASE UNCHANGED <<proc, fsdata, waitfile, opened, unbroken>>
  BY <1>5, <1>6 DEF Typed
<1>7. CASE /\ fsdata' = [fsdata EXCEPT ![c][j].flag = {"used", mode}, ![c][j].ino = inode[p]]
           /\ proc' = [proc EXCEPT ![c].iowait = "file", ![c].iowait_id = j]
           /\ waitfile' = [waitfile EXCEPT ![c] = p]
           /\ unbroken' = [unbroken EXCEPT ![c] = {}]
           /\ UNCHANGED opened
  <2>1. fsdata' = [fsdata EXCEPT ![c][j] = e]
    BY <1>1, <1>7 DEF Typed, Table
  <2>2. proc' \in [Vcpus -> Process]
    BY <1>1, <1>2, <1>7 DEF Typed, Process
  <2>3. waitfile' \in [Vcpus -> Paths \cup {None}] /\ unbroken' \in [Vcpus -> SUBSET Fds]
    BY <1>7 DEF Typed
  <2> HIDE DEF j, e
  <2>4. fsdata' \in [Vcpus -> Table]
    BY <1>1, <1>4, <2>1, EntryType
  <2> QED BY <1>5, <1>7, <2>2, <2>3, <2>4 DEF Typed
<1>8. CASE Granted(c, j, {"used", mode}, inode[p], p) /\ UNCHANGED <<proc, waitfile>>
  <2> HIDE DEF j
  <2>1. /\ fsdata' \in [Vcpus -> Table] /\ unbroken' \in [Vcpus -> SUBSET Fds]
        /\ opened' \in Opened
    BY <1>1, <1>2, <1>3, <1>8, GrantedType
  <2> QED BY <1>5, <1>8, <2>1 DEF Typed
<1>9. CASE Raise(c, failed)
  BY <1>4, <1>5, <1>9, RaiseType
<1> QED BY <1>6, <1>7, <1>8, <1>9 DEF Open, failed

LEMMA PollType ==
  ASSUME Typed, WaitsForPath, NEW c \in Vcpus, Poll(c)
  PROVE  Typed'
<1> DEFINE j == proc[c].iowait_id
           entry == fsdata[c][j]
           failed == [fsdata[c] EXCEPT ![j].flag = {}, ![j].fd = NoFd]
<1>1. proc[c] \in Process /\ j \in Fds /\ entry \in Entry /\ inode' = inode
  BY DEF Typed, Process, Table, Poll
<1>2. entry.flag \in Flags /\ entry.ino \in Inodes \cup {None}
  BY <1>1 DEF Entry
<1>5. waitfile[c] \in Paths
  BY DEF Poll, WaitsForPath
<1>3. CASE /\ HostFd(waitfile[c]) # NoFd
           /\ Granted(c, j, entry.flag, entry.ino, waitfile[c])
           /\ proc' = [proc EXCEPT ![c].iowait = "no", ![c].iowait_id = 0]
           /\ waitfile' = [waitfile EXCEPT ![c] = None]
  <2>1. /\ fsdata' \in [Vcpus -> Table] /\ unbroken' \in [Vcpus -> SUBSET Fds]
        /\ opened' \in Opened
    <3> HIDE DEF entry, j
    <3> QED BY <1>1, <1>2, <1>3, <1>5, GrantedType
  <2>2. 0 \in Fds
    BY FsLockAssumption DEF Fds
  <2>3. proc' \in [Vcpus -> Process] /\ waitfile' \in [Vcpus -> Paths \cup {None}]
    BY <1>1, <1>3, <2>2 DEF Typed, Process
  <2> QED BY <1>1, <2>1, <2>3 DEF Typed
<1>4. CASE Raise(c, failed)
  <2>1. failed \in Table
    BY <1>1, FlagTypes DEF Typed, Table, Entry
  <2> HIDE DEF failed
  <2> QED BY <1>1, <1>4, <2>1, RaiseType DEF Typed
<1> QED BY <1>3, <1>4 DEF Poll

LEMMA FileStepsType ==
  ASSUME Typed, NEW c \in Vcpus,
         \/ \E p \in Paths, mode \in Modes \cap Locking : Create(c, p, mode)
         \/ \E j \in Fds : Close(c, j)
         \/ \E p \in Paths : Delete(c, p)
         \/ \E p, q \in Paths : Rename(c, p, q)
  PROVE  Typed'
<1>1. ASSUME NEW p \in Paths, NEW mode \in Modes \cap Locking, Create(c, p, mode)
      PROVE  Typed'
  <2> DEFINE j == Min(Free(c))
  <2>1. j \in Fds
    BY <1>1, FirstFree DEF Typed, Create
  <2>2. ASSUME NEW ino \in Inodes,
               inode' = [inode EXCEPT ![p] = ino],
               opened' = [opened EXCEPT ![LowestFd] = ino],
               fsdata' = [fsdata EXCEPT ![c][j] =
                           [flag |-> {mode}, ino |-> ino, fd |-> LowestFd]],
               UNCHANGED <<proc, waitfile, unbroken>>
        PROVE  Typed'
    <3>1. [flag |-> {mode}, ino |-> ino, fd |-> LowestFd] \in Entry
      BY LowestFdType, FlagTypes DEF Entry
    <3> HIDE DEF j
    <3>2. fsdata' \in [Vcpus -> Table]
      BY <2>1, <2>2, <3>1, EntryType
    <3>3. opened' \in Opened /\ inode' \in [Paths -> Inodes \cup {None}]
      BY <2>2 DEF Typed, Opened
    <3> QED BY <2>1, <2>2, <3>2, <3>3 DEF Typed
  <2>3. CASE Raise(c, [fsdata[c] EXCEPT ![j].fd = NoFd]) /\ UNCHANGED inode
    <3>1. [fsdata[c] EXCEPT ![j].fd = NoFd] \in Table
      <4>1. fsdata[c] \in Table /\ fsdata[c][j] \in Entry
        BY <2>1 DEF Typed, Table
      <4> HIDE DEF j
      <4> QED BY <2>1, <4>1 DEF Table, Entry
    <3> HIDE DEF j
    <3> QED BY <2>1, <2>3, <3>1, RaiseType
  <2> QED BY <1>1, <2>2, <2>3 DEF Create
<1>2. ASSUME NEW j \in Fds, Close(c, j)
      PROVE  Typed'
  <2>1. ClosedEntry(fsdata[c][j]) \in Entry
    BY ClosedEntryType DEF Typed, Table
  <2>2. fsdata' \in [Vcpus -> Table]
    BY <1>2, <2>1, EntryType DEF Close
  <2>3. opened' \in Opened /\ unbroken' \in [Vcpus -> SUBSET Fds]
    BY <1>2, ClosedType DEF Typed, Close
  <2> QED BY <1>2, <2>2, <2>3 DEF Typed, Close
<1>3. ASSUME NEW p \in Paths, Delete(c, p) \/ \E q \in Paths : Rename(c, p, q)
      PROVE  Typed'
  BY <1>3 DEF Typed, Delete, Rename
<1> QED BY <1>1, <1>2, <1>3

\* A process waits for the file it opened last.
LEMMA WaitsForPathStep ==
  ASSUME Typed, WaitsForPath, [Next]_vars
  PROVE  WaitsForPath'
<1> DEFINE OneWaits(c) ==
             /\ \A h \in Vcpus \ {c} : proc'[h] = proc[h] /\ waitfile'[h] = waitfile[h]
             /\ \/ proc'[c].iowait # "file" \/ waitfile'[c] \in Paths
                \/ proc'[c].iowait = proc[c].iowait /\ waitfile'[c] = waitfile[c]
<1>0. ASSUME NEW c \in Vcpus, OneWaits(c) PROVE WaitsForPath'
  BY <1>0 DEF WaitsForPath
<1>1. ASSUME NEW c \in Vcpus, NEW entries, Raise(c, entries) \/ Die(c, entries)
      PROVE  OneWaits(c)
  BY <1>1 DEF Raise, Die, Typed, Process, Vacant
<1>2. ASSUME NEW c \in Vcpus, Load(c) \/ OtherWait(c) \/ OtherReady(c)
      PROVE  OneWaits(c)
  BY <1>2 DEF Load, OtherWait, OtherReady, Typed, Process
<1>3. ASSUME NEW c \in Vcpus, Poll(c) PROVE OneWaits(c)
  <2>1. CASE /\ proc' = [proc EXCEPT ![c].iowait = "no", ![c].iowait_id = 0]
             /\ waitfile' = [waitfile EXCEPT ![c] = None]
    BY <2>1 DEF Typed, Process
  <2> QED BY <1>1, <1>3, <2>1 DEF Poll
<1>4. ASSUME NEW c \in Vcpus, NEW p \in Paths, NEW mode \in Modes,
             NEW nonblock \in BOOLEAN, Open(c, p, mode, nonblock)
      PROVE  OneWaits(c)
  <2>1. CASE UNCHANGED <<proc, waitfile>>
    BY <2>1
  <2>2. CASE /\ proc' = [proc EXCEPT ![c].iowait = "file", ![c].iowait_id = Min(Free(c))]
             /\ waitfile' = [waitfile EXCEPT ![c] = p]
    BY <2>2 DEF Typed
  <2> QED BY <1>1, <1>4, <2>1, <2>2 DEF Open
<1>5. ASSUME NEW c \in Vcpus, NEW p \in Paths, NEW mode \in Modes \cap Locking,
             Create(c, p, mode)
      PROVE  OneWaits(c)
  <2>1. CASE UNCHANGED <<proc, waitfile>>
    BY <2>1
  <2> QED BY <1>1, <1>5, <2>1 DEF Create
<1>6. ASSUME NEW c \in Vcpus, End(c) \/ Refused(c) PROVE OneWaits(c)
  BY <1>1, <1>6 DEF End, Refused
<1> HIDE DEF OneWaits
<1>7. CASE UNCHANGED <<proc, waitfile>>
  BY <1>7 DEF WaitsForPath
<1> QED BY <1>0, <1>2, <1>3, <1>4, <1>5, <1>6, <1>7 DEF Next, Close, Delete, Rename, vars

LEMMA TypeSplit == TypeOK <=> Typed /\ WaitsForPath
BY DEF TypeOK, Typed, WaitsForPath, Process, Entry, Table, Opened

LEMMA TypeInit == Init => TypeOK
<1> SUFFICES ASSUME Init PROVE TypeOK
  OBVIOUS
<1>1. proc \in [Vcpus -> Process]
  BY VacantType DEF Init
<1>2. fsdata \in [Vcpus -> Table]
  <2>1. 0 \in HostFds
    BY FsLockAssumption DEF HostFds
  <2>2. [flag |-> {}, ino |-> None, fd |-> 0] \in Entry
    BY <2>1, FlagTypes DEF Entry
  <2> QED BY <2>2 DEF Init, Table
<1>3. Typed
  BY <1>1, <1>2 DEF Init, Typed, Opened
<1>4. WaitsForPath
  BY DEF Init, Vacant, WaitsForPath
<1> QED BY <1>3, <1>4, TypeSplit

LEMMA TypePreserved == TypeOK /\ [Next]_vars => TypeOK'
<1> SUFFICES ASSUME Typed, WaitsForPath, [Next]_vars PROVE Typed'
  <2>1. TypeOK => Typed /\ WaitsForPath
    BY TypeSplit
  <2>2. Typed' /\ WaitsForPath' => TypeOK'
    BY DEF TypeOK, Typed, WaitsForPath, Process, Entry, Table, Opened
  <2> QED BY <2>1, <2>2, WaitsForPathStep
<1>1. ASSUME NEW c \in Vcpus,
             \/ Load(c) \/ End(c) \/ OtherWait(c) \/ OtherReady(c)
             \/ Refused(c)
      PROVE  Typed'
  BY <1>1, ProcessSteps
<1>2. ASSUME NEW c \in Vcpus, Poll(c) PROVE Typed'
  BY <1>2, PollType
<1>3. ASSUME NEW c \in Vcpus, NEW p \in Paths, NEW mode \in Modes,
             NEW nonblock \in BOOLEAN, Open(c, p, mode, nonblock)
      PROVE  Typed'
  BY <1>3, OpenType
<1>4. ASSUME NEW c \in Vcpus,
             \/ \E p \in Paths, mode \in Modes \cap Locking : Create(c, p, mode)
             \/ \E j \in Fds : Close(c, j)
             \/ \E p \in Paths : Delete(c, p)
             \/ \E p, q \in Paths : Rename(c, p, q)
      PROVE  Typed'
  BY <1>4, FileStepsType
<1>5. CASE UNCHANGED vars
  BY <1>5 DEF vars, Typed
<1> QED BY <1>1, <1>2, <1>3, <1>4, <1>5 DEF Next

\* Processes, VFDs, paths and descriptors keep their types (fs.c:40-75,
\* 277-576); a process waits for a file it has named.
THEOREM TypeCorrect == Spec => []TypeOK
BY TypeInit, TypePreserved, PTL DEF Spec

-----------------------------------------------------------------------------
(* The lock *)

\* The VFD that a process waits for is marked as one, unless it has failed.
Marked(p, entries) ==
  p.iowait = "file" =>
    entries[p.iowait_id].flag = {} \/ "used" \in entries[p.iowait_id].flag

\* A VFD that has been held without a wait holds the lock.
Kept ==
  \A c \in Vcpus :
    /\ Marked(proc[c], fsdata[c])
    /\ proc[c].iowait # "no" => unbroken[c] = {}
    /\ \A j \in unbroken[c] :
         "used" \in fsdata[c][j].flag /\ fsdata[c][j].flag \cap Locking # {}

\* The inodes that were looked up for them are different ones.
NotedApart ==
  \A c, h \in Vcpus : c # h =>
    \A j \in unbroken[c], k \in unbroken[h] : fsdata[c][j].ino # fsdata[h][k].ino

LockInv == Kept /\ NotedApart

\* What is held was held before, or was opened as it had been looked up.
Honest ==
  \A h \in Vcpus : \A j \in unbroken'[h] :
    \/ j \in unbroken[h] /\ fsdata'[h][j] = fsdata[h][j]
    \/ opened'[fsdata'[h][j].fd] = fsdata'[h][j].ino

LockStep == LockInv' /\ Honest

\* What another process holds keeps a writer off the file.
LEMMA KeptLocks ==
  ASSUME Typed, Kept, NEW h \in Vcpus, NEW j \in unbroken[h]
  PROVE  Locked(fsdata[h][j].ino)
<1>1. j \in Fds /\ proc[h].iowait = "no"
  BY DEF Typed, Kept
<1>2. "used" \in fsdata[h][j].flag /\ fsdata[h][j].flag \cap Locking # {}
  BY DEF Kept
<1> QED BY <1>1, <1>2 DEF Locked, HoldsLock

\* A step in which one process at most loses what it holds
LEMMA Losing ==
  ASSUME LockInv, NEW c \in Vcpus,
         \A h \in Vcpus \ {c} :
           proc'[h] = proc[h] /\ fsdata'[h] = fsdata[h] /\ unbroken'[h] = unbroken[h],
         unbroken'[c] \subseteq unbroken[c],
         proc'[c].iowait # "no" => unbroken'[c] = {},
         Marked(proc'[c], fsdata'[c]),
         \A j \in unbroken'[c] : fsdata'[c][j] = fsdata[c][j]
  PROVE  LockStep
<1>1. \A h \in Vcpus : unbroken'[h] \subseteq unbroken[h]
  OBVIOUS
<1>2. \A h \in Vcpus : \A j \in unbroken'[h] : fsdata'[h][j] = fsdata[h][j]
  OBVIOUS
<1>3. Kept'
  BY <1>1, <1>2 DEF LockInv, Kept
<1>4. NotedApart'
  BY <1>1, <1>2 DEF LockInv, NotedApart
<1> QED BY <1>2, <1>3, <1>4 DEF LockInv, LockStep, Honest

\* A step in which a process that does not wait is granted a VFD
LEMMA Granting ==
  ASSUME Typed, LockInv, NEW c \in Vcpus, NEW j \in Fds, NEW flag \in Flags, NEW ino, NEW p,
         Granted(c, j, flag, ino, p), LowestFd # NoFd,
         "used" \in flag,
         flag \cap Locking # {} => ~ Locked(ino),
         j \notin unbroken[c],
         proc'[c].iowait = "no",
         \A h \in Vcpus \ {c} : proc'[h] = proc[h]
  PROVE  LockStep
<1>1. \A h \in Vcpus \ {c} : fsdata'[h] = fsdata[h] /\ unbroken'[h] = unbroken[h]
  BY DEF Granted, Typed
<1>2. /\ fsdata'[c][j].flag = flag /\ fsdata'[c][j].ino = ino
      /\ \A k \in Fds \ {j} : fsdata'[c][k] = fsdata[c][k]
  BY DEF Granted, Typed, Table
<1>3. /\ unbroken'[c] \subseteq unbroken[c] \cup {j}
      /\ j \in unbroken'[c] => flag \cap Locking # {}
      /\ unbroken[c] \subseteq Fds \ {j}
  BY DEF Granted, Typed
<1>4. Kept'
  <2>1. \A k \in unbroken'[c] :
          "used" \in fsdata'[c][k].flag /\ fsdata'[c][k].flag \cap Locking # {}
    BY <1>2, <1>3 DEF LockInv, Kept
  <2>2. \A h \in Vcpus : Marked(proc'[h], fsdata'[h])
    BY <1>1 DEF LockInv, Kept, Marked
  <2> QED BY <1>1, <2>1, <2>2 DEF LockInv, Kept
<1>5. ASSUME NEW h \in Vcpus \ {c}, NEW k \in unbroken'[h], NEW i \in unbroken'[c]
      PROVE  fsdata'[c][i].ino # fsdata'[h][k].ino
  <2>1. k \in unbroken[h] /\ fsdata'[h][k] = fsdata[h][k]
    BY <1>1
  <2>2. CASE i = j
    <3>1. ~ Locked(ino)
      BY <1>3, <2>2
    <3>2. Locked(fsdata[h][k].ino)
      BY <2>1, KeptLocks DEF LockInv
    <3> QED BY <1>2, <2>1, <2>2, <3>1, <3>2
  <2>3. CASE i # j
    <3>1. i \in unbroken[c] /\ fsdata'[c][i] = fsdata[c][i]
      BY <1>2, <1>3, <2>3
    <3> QED BY <2>1, <3>1 DEF LockInv, NotedApart
  <2> QED BY <2>2, <2>3
<1>6. ASSUME NEW h \in Vcpus \ {c}, NEW g \in Vcpus \ {c, h},
             NEW k \in unbroken'[h], NEW i \in unbroken'[g]
      PROVE  fsdata'[g][i].ino # fsdata'[h][k].ino
  BY <1>1 DEF LockInv, NotedApart
<1>7. NotedApart'
  BY <1>5, <1>6 DEF NotedApart
<1>8. Honest
  <2>1. ASSUME j \in unbroken'[c]
        PROVE  opened'[fsdata'[c][j].fd] = fsdata'[c][j].ino
    <3>1. LowestFd \in HostFds /\ fsdata'[c][j].fd = LowestFd /\ inode[p] = ino
      BY <1>3, <2>1, LowestFdType DEF Granted, Typed, Table
    <3> QED BY <1>2, <3>1 DEF Granted, Typed, Opened
  <2> QED BY <1>1, <1>2, <1>3, <2>1 DEF Honest
<1> QED BY <1>4, <1>7, <1>8 DEF LockInv, LockStep

\* An exception takes nothing from a process that survives it, and everything
\* from one that does not.
LEMMA Raising ==
  ASSUME Typed, LockInv, NEW c \in Vcpus, NEW entries,
         Raise(c, entries) \/ Die(c, entries),
         Marked(proc[c], entries),
         \A j \in unbroken[c] : entries[j] = fsdata[c][j]
  PROVE  LockStep
<1>1. CASE Die(c, entries)
  <2>1. \A h \in Vcpus \ {c} :
          proc'[h] = proc[h] /\ fsdata'[h] = fsdata[h] /\ unbroken'[h] = unbroken[h]
    BY <1>1 DEF Die, Typed
  <2>2. unbroken'[c] = {} /\ Marked(proc'[c], fsdata'[c])
    BY <1>1 DEF Die, Typed, Vacant, Marked
  <2> QED BY <2>1, <2>2, Losing
<1>2. CASE fsdata' = [fsdata EXCEPT ![c] = entries] /\ UNCHANGED <<proc, unbroken>>
  <2>1. \A h \in Vcpus \ {c} :
          proc'[h] = proc[h] /\ fsdata'[h] = fsdata[h] /\ unbroken'[h] = unbroken[h]
    BY <1>2 DEF Typed
  <2>2. /\ proc'[c].iowait = proc[c].iowait /\ proc'[c].iowait_id = proc[c].iowait_id
        /\ fsdata'[c] = entries /\ unbroken'[c] = unbroken[c]
    BY <1>2 DEF Typed, Process
  <2>3. Marked(proc'[c], fsdata'[c])
    BY <2>2 DEF Marked
  <2> QED BY <2>1, <2>2, <2>3, Losing DEF LockInv, Kept
<1> QED BY <1>1, <1>2 DEF Raise

\* The VFD that is to be used is not held.
LEMMA FreeNotKept ==
  ASSUME Typed, Kept, NEW c \in Vcpus, Free(c) # {}
  PROVE  Min(Free(c)) \notin unbroken[c]
BY FirstFree DEF Kept

LEMMA ProcessStepsLock ==
  ASSUME Typed, LockInv, NEW c \in Vcpus,
         Load(c) \/ End(c) \/ OtherWait(c) \/ OtherReady(c) \/ Refused(c)
  PROVE  LockStep
<1>1. CASE End(c) \/ Refused(c)
  BY <1>1, Raising DEF End, Refused, LockInv, Kept
<1>2. CASE Load(c) \/ OtherWait(c) \/ OtherReady(c)
  <2>1. \A h \in Vcpus \ {c} :
          proc'[h] = proc[h] /\ fsdata'[h] = fsdata[h] /\ unbroken'[h] = unbroken[h]
    BY <1>2 DEF Typed, Load, OtherWait, OtherReady
  <2>2. /\ unbroken'[c] \subseteq unbroken[c] /\ fsdata'[c] = fsdata[c]
        /\ proc'[c].iowait # "no" => unbroken'[c] = {}
        /\ Marked(proc'[c], fsdata'[c])
    <3>1. CASE Load(c)
      <4>1. /\ proc'[c].iowait = proc[c].iowait /\ proc'[c].iowait_id = proc[c].iowait_id
            /\ fsdata' = fsdata /\ unbroken' = unbroken
        BY <3>1 DEF Typed, Process, Load
      <4>2. Marked(proc[c], fsdata[c]) /\ (proc[c].iowait # "no" => unbroken[c] = {})
        BY DEF LockInv, Kept
      <4> QED BY <4>1, <4>2 DEF Marked
    <3>2. CASE OtherWait(c)
      BY <3>2 DEF Typed, Process, OtherWait, Marked
    <3>3. CASE OtherReady(c)
      BY <3>3 DEF Typed, Process, OtherReady, Marked
    <3> QED BY <1>2, <3>1, <3>2, <3>3
  <2> QED BY <2>1, <2>2, Losing
<1> QED BY <1>1, <1>2

LEMMA OpenLock ==
  ASSUME Typed, LockInv, NEW c \in Vcpus, NEW p \in Paths, NEW mode \in Modes,
         NEW nonblock \in BOOLEAN, Open(c, p, mode, nonblock)
  PROVE  LockStep
<1> DEFINE j == Min(Free(c))
           failed == [fsdata[c] EXCEPT ![j].fd = NoFd]
<1>1. j \in Fds /\ j \notin unbroken[c]
  BY FirstFree, FreeNotKept DEF Open, LockInv
<1>2. proc[c].iowait = "no" /\ {"used", mode} \in Flags
  BY FlagTypes DEF Open, Runs
<1>3. \A k \in unbroken[c] : failed[k] = fsdata[c][k]
  BY <1>1 DEF Typed, Table
<1> HIDE DEF failed
<1>4. CASE UNCHANGED <<proc, fsdata, waitfile, opened, unbroken>>
  BY <1>2, <1>4, Losing DEF Marked
<1>5. CASE /\ fsdata' = [fsdata EXCEPT ![c][j].flag = {"used", mode}, ![c][j].ino = inode[p]]
           /\ proc' = [proc EXCEPT ![c].iowait = "file", ![c].iowait_id = j]
           /\ unbroken' = [unbroken EXCEPT ![c] = {}]
  <2>1. "used" \in fsdata'[c][j].flag /\ proc'[c].iowait_id = j
    BY <1>1, <1>5 DEF Typed, Table, Entry, Process
  <2>2. Marked(proc'[c], fsdata'[c])
    BY <2>1 DEF Marked
  <2> QED BY <1>5, <2>2, Losing DEF Typed
<1>6. CASE /\ ~ MustWait(p, mode) /\ LowestFd # NoFd
           /\ Granted(c, j, {"used", mode}, inode[p], p) /\ UNCHANGED proc
  <2>1. {"used", mode} \cap Locking # {} => ~ Locked(inode[p])
    BY <1>6 DEF MustWait, Locking
  <2> HIDE DEF j
  <2> QED BY <1>1, <1>2, <1>6, <2>1, Granting
<1>7. CASE Raise(c, failed)
  <2>1. Marked(proc[c], failed)
    BY <1>2 DEF Marked
  <2> QED BY <1>3, <1>7, <2>1, Raising
<1> QED BY <1>4, <1>5, <1>6, <1>7 DEF Open, failed

LEMMA PollLock ==
  ASSUME Typed, LockInv, NEW c \in Vcpus, Poll(c)
  PROVE  LockStep
<1> DEFINE j == proc[c].iowait_id
           entry == fsdata[c][j]
<1>1. unbroken[c] = {} /\ j \in Fds /\ entry.flag \in Flags /\ ~ Locked(entry.ino)
  BY DEF Poll, LockInv, Kept, Typed, Process, Table, Entry
<1>4. entry.flag # {} => "used" \in entry.flag
  BY DEF Poll, LockInv, Kept, Marked
<1>2. ASSUME entry.flag # {}, HostFd(waitfile[c]) # NoFd,
             Granted(c, j, entry.flag, entry.ino, waitfile[c]),
             proc' = [proc EXCEPT ![c].iowait = "no", ![c].iowait_id = 0]
      PROVE  LockStep
  <2>1. proc'[c].iowait = "no" /\ \A h \in Vcpus \ {c} : proc'[h] = proc[h]
    BY <1>2 DEF Typed, Process
  <2>2. LowestFd # NoFd
    BY <1>2 DEF HostFd
  <2> HIDE DEF j, entry
  <2>3. j \notin unbroken[c]
    BY <1>1
  <2> QED BY <1>1, <1>2, <1>4, <2>1, <2>2, <2>3, Granting
<1>3. CASE Raise(c, [fsdata[c] EXCEPT ![j].flag = {}, ![j].fd = NoFd])
  <2> DEFINE failed == [fsdata[c] EXCEPT ![j].flag = {}, ![j].fd = NoFd]
  <2>1. \A k \in unbroken[c] : failed[k] = fsdata[c][k]
    BY <1>1
  <2>2. Marked(proc[c], failed)
    <3>1. failed[j].flag = {}
      BY <1>1 DEF Typed, Table, Entry
    <3> HIDE DEF failed
    <3> QED BY <3>1 DEF Marked
  <2> HIDE DEF failed
  <2> QED BY <1>3, <2>1, <2>2, Raising DEF failed
<1> QED BY <1>2, <1>3 DEF Poll

LEMMA FileStepsLock ==
  ASSUME Typed, LockInv, NEW c \in Vcpus,
         \/ \E p \in Paths, mode \in Modes \cap Locking : Create(c, p, mode)
         \/ \E j \in Fds : Close(c, j)
         \/ \E p \in Paths : Delete(c, p)
         \/ \E p, q \in Paths : Rename(c, p, q)
  PROVE  LockStep
<1>1. ASSUME NEW p \in Paths, NEW mode \in Modes \cap Locking, Create(c, p, mode)
      PROVE  LockStep
  <2> DEFINE j == Min(Free(c))
  <2>1. j \in Fds /\ j \notin unbroken[c] /\ proc[c].iowait = "no"
    BY <1>1, FirstFree, FreeNotKept DEF Create, LockInv, Runs
  <2>2. ASSUME NEW e, fsdata' = [fsdata EXCEPT ![c][j] = e], UNCHANGED <<proc, unbroken>>
        PROVE  LockStep
    <3> HIDE DEF j
    <3>1. \A k \in unbroken[c] : fsdata'[c][k] = fsdata[c][k]
      BY <2>1, <2>2 DEF Typed, Table
    <3> QED BY <2>1, <2>2, <3>1, Losing DEF Typed, Marked
  <2>3. CASE Raise(c, [fsdata[c] EXCEPT ![j].fd = NoFd])
    <3>1. \A k \in unbroken[c] : [fsdata[c] EXCEPT ![j].fd = NoFd][k] = fsdata[c][k]
      BY <2>1 DEF Typed, Table
    <3>2. Marked(proc[c], [fsdata[c] EXCEPT ![j].fd = NoFd])
      BY <2>1 DEF Marked
    <3> HIDE DEF j
    <3> QED BY <2>3, <3>1, <3>2, Raising
  <2> QED BY <1>1, <2>2, <2>3 DEF Create
<1>2. ASSUME NEW j \in Fds, Close(c, j)
      PROVE  LockStep
  <2>1. \A k \in unbroken'[c] : fsdata'[c][k] = fsdata[c][k]
    BY <1>2 DEF Close, Typed, Table
  <2>2. unbroken'[c] \subseteq unbroken[c] /\ proc'[c].iowait = "no"
    BY <1>2 DEF Close, Runs, Typed
  <2>3. \A h \in Vcpus \ {c} :
          proc'[h] = proc[h] /\ fsdata'[h] = fsdata[h] /\ unbroken'[h] = unbroken[h]
    BY <1>2 DEF Close, Typed
  <2> QED BY <2>1, <2>2, <2>3, Losing DEF Marked
<1>3. ASSUME NEW p \in Paths, Delete(c, p) \/ \E q \in Paths : Rename(c, p, q)
      PROVE  LockStep
  BY <1>3 DEF Delete, Rename, LockInv, Kept, NotedApart, LockStep, Honest
<1> QED BY <1>1, <1>2, <1>3

LEMMA LockPreserved ==
  ASSUME Typed, LockInv, [Next]_vars
  PROVE  LockStep
<1>1. ASSUME NEW c \in Vcpus,
             \/ Load(c) \/ End(c) \/ OtherWait(c) \/ OtherReady(c)
             \/ Refused(c)
      PROVE  LockStep
  BY <1>1, ProcessStepsLock
<1>2. ASSUME NEW c \in Vcpus, Poll(c) PROVE LockStep
  BY <1>2, PollLock
<1>3. ASSUME NEW c \in Vcpus, NEW p \in Paths, NEW mode \in Modes,
             NEW nonblock \in BOOLEAN, Open(c, p, mode, nonblock)
      PROVE  LockStep
  BY <1>3, OpenLock
<1>4. ASSUME NEW c \in Vcpus,
             \/ \E p \in Paths, mode \in Modes \cap Locking : Create(c, p, mode)
             \/ \E j \in Fds : Close(c, j)
             \/ \E p \in Paths : Delete(c, p)
             \/ \E p, q \in Paths : Rename(c, p, q)
      PROVE  LockStep
  BY <1>4, FileStepsLock
<1>5. CASE UNCHANGED vars
  BY <1>5 DEF vars, LockInv, Kept, NotedApart, LockStep, Honest
<1> QED BY <1>1, <1>2, <1>3, <1>4, <1>5 DEF Next

-----------------------------------------------------------------------------
(* The descriptors of the host *)

\* The VFDs of VCPU c that are taken and not waited for: open, or created
HeldOf(c) == {j \in Fds : fsdata[c][j].flag # {} /\ ~ Pending(c, j)}

\* Who waits or has a VFD in use is alive.
Lives(c) ==
  /\ proc[c].iowait # "no" => proc[c].used
  /\ \A j \in Fds : "used" \in fsdata[c][j].flag => proc[c].used
  /\ Marked(proc[c], fsdata[c])

HeldInUse ==
  \A d \in HostFds \ {0} : opened[d] # None =>
    \E c \in Vcpus : \E j \in HeldOf(c) : fsdata[c][j].fd = d

InUseInv == (\A c \in Vcpus : Lives(c)) /\ HeldInUse

Backed ==
  \A c \in Vcpus : \A j \in HeldOf(c) :
    fsdata[c][j].fd \in HostFds \ {0} /\ opened[fsdata[c][j].fd] # None

Apart ==
  \A c, h \in Vcpus : \A j \in HeldOf(c), k \in HeldOf(h) :
    fsdata[c][j].fd = fsdata[h][k].fd => h = c /\ k = j

OwnedInv == opened[0] = Console /\ Backed /\ Apart

\* A step changes the processes and VFDs of no VCPU but c.
OnlyOf(c) == \A h \in Vcpus \ {c} : proc'[h] = proc[h] /\ fsdata'[h] = fsdata[h]

\* The step closes the descriptors of the VFDs that c does not hold any more.
Loses(c) ==
  /\ OnlyOf(c)
  /\ HeldOf(c)' \subseteq HeldOf(c)
  /\ \A j \in HeldOf(c)' : fsdata'[c][j].fd = fsdata[c][j].fd
  /\ \A d \in HostFds : opened'[d] \in {opened[d], None}
  /\ \A j \in HeldOf(c) \ HeldOf(c)' : opened'[fsdata[c][j].fd] = None \/ fsdata[c][j].fd = NoFd

\* It closes no other.
Careful(c) ==
  \A d \in HostFds : opened'[d] # opened[d] =>
    \E j \in HeldOf(c) \ HeldOf(c)' : fsdata[c][j].fd = d

\* The step opens VFD j of c on the host's lowest descriptor.
Gains(c, j) ==
  /\ OnlyOf(c)
  /\ j \notin HeldOf(c) /\ HeldOf(c)' = HeldOf(c) \cup {j}
  /\ \A k \in HeldOf(c) : fsdata'[c][k].fd = fsdata[c][k].fd
  /\ LowestFd # NoFd /\ fsdata'[c][j].fd = LowestFd
  /\ \E x \in Inodes : opened' = [opened EXCEPT ![LowestFd] = x]

Effect(c) ==
  /\ Lives(c)'
  /\ \/ Loses(c) /\ (KillsWaiters \/ Careful(c))
     \/ \E j \in Fds : Gains(c, j)

LEMMA LowestIsFree ==
  ASSUME LowestFd # NoFd
  PROVE  LowestFd \in HostFds /\ opened[LowestFd] = None
<1> DEFINE free == {d \in HostFds : opened[d] = None}
<1>1. free # {} /\ LowestFd = Min(free)
  BY DEF LowestFd
<1>2. free \in SUBSET Nat
  BY FsLockAssumption DEF HostFds
<1>3. Min(free) \in free
  BY <1>1, <1>2, Least
<1> QED BY <1>1, <1>3

LEMMA OthersLive ==
  ASSUME NEW c \in Vcpus, OnlyOf(c), NEW h \in Vcpus \ {c}
  PROVE  HeldOf(h)' = HeldOf(h) /\ (Lives(h) => Lives(h)')
BY DEF OnlyOf, HeldOf, Pending, Lives, Marked

\* No step loses a descriptor.
LEMMA InUseStep ==
  ASSUME Typed, InUseInv, NEW c \in Vcpus, Effect(c)
  PROVE  InUseInv'
<1>1. OnlyOf(c) /\ Lives(c)'
  BY DEF Effect, Loses, Gains
<1>2. \A h \in Vcpus : Lives(h)'
  BY <1>1, OthersLive DEF InUseInv
<1>3. ASSUME NEW d \in HostFds \ {0}, opened'[d] # None
      PROVE  \E h \in Vcpus : \E k \in HeldOf(h)' : fsdata'[h][k].fd = d
  <2>1. ASSUME NEW h \in Vcpus \ {c}, NEW k \in HeldOf(h), fsdata[h][k].fd = d
        PROVE  k \in HeldOf(h)' /\ fsdata'[h][k].fd = d
    BY <1>1, <2>1, OthersLive DEF OnlyOf
  <2>2. CASE Loses(c)
    <3>1. opened[d] # None
      BY <1>3, <2>2 DEF Loses
    <3>2. PICK h \in Vcpus : \E k \in HeldOf(h) : fsdata[h][k].fd = d
      BY <3>1 DEF InUseInv, HeldInUse
    <3>3. PICK k \in HeldOf(h) : fsdata[h][k].fd = d
      BY <3>2
    <3>4. CASE h = c
      <4>1. d # NoFd
        BY DEF HostFds, NoFd
      <4>2. k \in HeldOf(c)'
        BY <1>3, <2>2, <3>3, <3>4, <4>1 DEF Loses
      <4> QED BY <2>2, <3>3, <3>4, <4>2 DEF Loses
    <3> QED BY <2>1, <3>3, <3>4
  <2>3. ASSUME NEW j \in Fds, Gains(c, j)
        PROVE  \E h \in Vcpus : \E k \in HeldOf(h)' : fsdata'[h][k].fd = d
    <3>1. CASE d = LowestFd
      BY <2>3, <3>1 DEF Gains
    <3>2. CASE d # LowestFd
      <4>1. opened[d] # None
        BY <1>3, <2>3, <3>2, LowestIsFree DEF Gains, Typed, Opened
      <4>2. PICK h \in Vcpus : \E k \in HeldOf(h) : fsdata[h][k].fd = d
        BY <4>1 DEF InUseInv, HeldInUse
      <4>3. PICK k \in HeldOf(h) : fsdata[h][k].fd = d
        BY <4>2
      <4>4. CASE h = c
        BY <2>3, <4>3, <4>4 DEF Gains
      <4> QED BY <2>1, <4>3, <4>4
    <3> QED BY <3>1, <3>2
  <2> QED BY <2>2, <2>3 DEF Effect
<1> QED BY <1>2, <1>3 DEF InUseInv, HeldInUse

\* What the descriptor of a VFD refers to does not change while it is held.
LEMMA HeldStays ==
  ASSUME Typed, OwnedInv, ~ KillsWaiters, NEW c \in Vcpus, Effect(c),
         NEW h \in Vcpus, NEW k \in HeldOf(h), k \in HeldOf(h)'
  PROVE  opened'[fsdata[h][k].fd] = opened[fsdata[h][k].fd]
<1> DEFINE d == fsdata[h][k].fd
<1>1. d \in HostFds /\ opened[d] # None
  BY DEF OwnedInv, Backed
<1>2. CASE Loses(c) /\ Careful(c)
  <2>1. ASSUME NEW j \in HeldOf(c) \ HeldOf(c)', fsdata[c][j].fd = d PROVE FALSE
    BY <2>1 DEF OwnedInv, Apart
  <2> QED BY <1>1, <1>2, <2>1 DEF Careful
<1>3. ASSUME NEW j \in Fds, Gains(c, j) PROVE opened'[d] = opened[d]
  <2>1. d # LowestFd
    BY <1>1, <1>3, LowestIsFree DEF Gains
  <2> QED BY <1>1, <1>3, <2>1 DEF Gains, Typed, Opened
<1> QED BY <1>2, <1>3 DEF Effect

\* As long as only descriptors of VFDs are closed, every one is its VFD's own.
LEMMA OwnedStep ==
  ASSUME Typed, OwnedInv, ~ KillsWaiters, NEW c \in Vcpus, Effect(c)
  PROVE  OwnedInv'
<1>1. \A h \in Vcpus \ {c} : HeldOf(h)' = HeldOf(h) /\ fsdata'[h] = fsdata[h]
  BY OthersLive DEF Effect, Loses, Gains, OnlyOf
<1>2. CASE Loses(c) /\ Careful(c)
  <2>1. \A h \in Vcpus : \A k \in HeldOf(h)' : k \in HeldOf(h) /\ fsdata'[h][k].fd = fsdata[h][k].fd
    BY <1>1, <1>2 DEF Loses
  <2>2. Apart'
    BY <2>1 DEF OwnedInv, Apart
  <2>3. opened'[0] = Console
    <3>1. 0 \in HostFds
      BY FsLockAssumption DEF HostFds
    <3> QED BY <1>2, <3>1 DEF Careful, OwnedInv, Backed
  <2>4. ASSUME NEW h \in Vcpus, NEW k \in HeldOf(h)'
        PROVE  opened'[fsdata[h][k].fd] = opened[fsdata[h][k].fd]
    <3>1. k \in HeldOf(h)
      BY <2>1
    <3> QED BY <3>1, <2>4, HeldStays
  <2>5. Backed'
    BY <2>1, <2>4 DEF OwnedInv, Backed
  <2> QED BY <2>2, <2>3, <2>5 DEF OwnedInv
<1>3. ASSUME NEW j \in Fds, Gains(c, j)
      PROVE  OwnedInv'
  <2>1. LowestFd \in HostFds \ {0} /\ opened[LowestFd] = None
    <3>1. LowestFd \in HostFds /\ opened[LowestFd] = None
      BY <1>3, LowestIsFree DEF Gains
    <3>2. opened[0] # None
      BY DEF OwnedInv, Console, None
    <3> QED BY <3>1, <3>2
  <2>2. PICK x \in Inodes : opened' = [opened EXCEPT ![LowestFd] = x]
    BY <1>3 DEF Gains
  <2>3. \A d \in HostFds : opened'[d] = IF d = LowestFd THEN x ELSE opened[d]
    BY <2>2 DEF Typed, Opened
  <2>4. opened'[0] = Console
    BY <2>1, <2>3, FsLockAssumption DEF OwnedInv, HostFds
  <2>5. \A h \in Vcpus : \A k \in HeldOf(h)' :
          \/ h = c /\ k = j /\ fsdata'[h][k].fd = LowestFd
          \/ k \in HeldOf(h) /\ fsdata'[h][k].fd = fsdata[h][k].fd
    BY <1>1, <1>3 DEF Gains
  <2>6. \A h \in Vcpus : \A k \in HeldOf(h) : fsdata[h][k].fd # LowestFd
    BY <2>1 DEF OwnedInv, Backed
  <2>7. Apart'
    BY <2>5, <2>6 DEF OwnedInv, Apart
  <2>8. Backed'
    BY <2>1, <2>3, <2>5, FsLockAssumption DEF OwnedInv, Backed
  <2> QED BY <2>4, <2>7, <2>8 DEF OwnedInv
<1> QED BY <1>2, <1>3 DEF Effect

\* The VFDs as an exception finds them: those held are untouched, and none
\* has been marked.
Spares(c, entries) ==
  /\ \A j \in HeldOf(c) : entries[j] = fsdata[c][j]
  /\ \A j \in Fds : entries[j].flag # {} => entries[j].flag = fsdata[c][j].flag

LEMMA DieEffect ==
  ASSUME Typed, NEW c \in Vcpus, Lives(c), NEW entries \in Table, Die(c, entries),
         Spares(c, entries), KillsWaiters \/ Closing(entries) \subseteq HeldOf(c)
  PROVE  Effect(c)
<1> DEFINE swept == [j \in Fds |-> IF j \in Closing(entries)
                                   THEN ClosedEntry(entries[j]) ELSE entries[j]]
<1>1. proc'[c] = Vacant /\ OnlyOf(c) /\ fsdata'[c] = swept
  BY DEF Die, OnlyOf, Typed
<1>2. \A j \in Fds : j \in Closing(entries) <=> "used" \in entries[j].flag
  BY DEF Closing
<1>3. \A j \in Fds :
        IF j \in Closing(entries) THEN fsdata'[c][j].flag = {} ELSE fsdata'[c][j] = entries[j]
  BY <1>1 DEF Table, Entry, ClosedEntry
<1> HIDE DEF swept
<1>4. ASSUME NEW j \in HeldOf(c)'
      PROVE  j \in HeldOf(c) /\ j \notin Closing(entries) /\ fsdata'[c][j] = fsdata[c][j]
  <2>1. j \in Fds /\ fsdata'[c][j].flag # {}
    BY DEF HeldOf
  <2>2. j \notin Closing(entries) /\ fsdata'[c][j] = entries[j] /\ "used" \notin entries[j].flag
    BY <1>2, <1>3, <2>1
  <2>3. fsdata[c][j].flag # {} /\ "used" \notin fsdata[c][j].flag
    BY <2>1, <2>2 DEF Spares
  <2>4. j \in HeldOf(c)
    BY <2>1, <2>3 DEF HeldOf, Pending, Lives, Marked
  <2> QED BY <2>2, <2>4 DEF Spares
<1>5. \A j \in HeldOf(c) \ HeldOf(c)' : j \in Closing(entries)
  <2> SUFFICES ASSUME NEW j \in HeldOf(c), j \notin Closing(entries) PROVE j \in HeldOf(c)'
    OBVIOUS
  <2>1. j \in Fds /\ fsdata'[c][j].flag # {}
    BY <1>3 DEF HeldOf, Spares
  <2> QED BY <1>1, <2>1 DEF HeldOf, Pending, Vacant
<1>6. \A d \in HostFds :
        opened'[d] = IF \E j \in Closing(entries) : entries[j].fd = d THEN None ELSE opened[d]
  BY DEF Die, HostClose
<1>7. Lives(c)'
  BY <1>1, <1>2, <1>3 DEF Lives, Marked, Vacant
<1>8. Loses(c)
  <2>1. ASSUME NEW j \in HeldOf(c) \ HeldOf(c)'
        PROVE  opened'[fsdata[c][j].fd] = None \/ fsdata[c][j].fd = NoFd
    <3>1. j \in Closing(entries) /\ entries[j] = fsdata[c][j]
      BY <1>5 DEF Spares
    <3>2. fsdata[c][j].fd \in HostFds \cup {NoFd}
      BY DEF Typed, Table, Entry, HeldOf
    <3> QED BY <1>6, <3>1, <3>2
  <2> QED BY <1>1, <1>4, <1>6, <2>1 DEF Loses
<1>9. Closing(entries) \subseteq HeldOf(c) => Careful(c)
  <2> SUFFICES ASSUME Closing(entries) \subseteq HeldOf(c) PROVE Careful(c)
    OBVIOUS
  <2>1. ASSUME NEW d \in HostFds, opened'[d] # opened[d]
        PROVE  \E j \in HeldOf(c) \ HeldOf(c)' : fsdata[c][j].fd = d
    <3>1. PICK j \in Closing(entries) : entries[j].fd = d
      BY <1>6, <2>1
    <3>2. j \in HeldOf(c) /\ j \notin HeldOf(c)'
      BY <1>4, <3>1
    <3> QED BY <3>1, <3>2 DEF Spares
  <2> QED BY <2>1 DEF Careful
<1> QED BY <1>7, <1>8, <1>9 DEF Effect

\* A step in which the VFDs that are held stay as they are
LEMMA StillEffect ==
  ASSUME NEW c \in Vcpus, OnlyOf(c), Lives(c)', opened' = opened,
         HeldOf(c)' = HeldOf(c),
         \A j \in HeldOf(c) : fsdata'[c][j].fd = fsdata[c][j].fd
  PROVE  Effect(c)
BY DEF Effect, Loses, Careful

LEMMA RaiseEffect ==
  ASSUME Typed, NEW c \in Vcpus, Lives(c), NEW entries \in Table, Raise(c, entries),
         Spares(c, entries), Closing(entries) \subseteq HeldOf(c)
  PROVE  Effect(c)
<1>1. CASE Die(c, entries)
  BY <1>1, DieEffect
<1>2. CASE fsdata' = [fsdata EXCEPT ![c] = entries] /\ UNCHANGED <<proc, opened>>
  <2>1. OnlyOf(c) /\ fsdata'[c] = entries
    BY <1>2 DEF OnlyOf, Typed
  <2>2. /\ proc'[c].iowait = proc[c].iowait /\ proc'[c].iowait_id = proc[c].iowait_id
        /\ proc'[c].used = proc[c].used
    BY <1>2 DEF Typed, Process
  <2>3. HeldOf(c)' = HeldOf(c)
    BY <2>1, <2>2 DEF HeldOf, Pending, Spares
  <2>4. Lives(c)'
    <3>1. \A j \in Fds : entries[j].flag = {} \/ entries[j].flag = fsdata[c][j].flag
      BY DEF Spares
    <3>2. proc[c].iowait_id \in Fds
      BY DEF Typed, Process
    <3> QED BY <2>1, <2>2, <3>1, <3>2 DEF Lives, Marked
  <2> QED BY <1>2, <2>1, <2>3, <2>4, StillEffect DEF Spares
<1> QED BY <1>1, <1>2 DEF Raise

\* A process that does not wait loses its VFDs, or an exception finds them as
\* they are.
LEMMA ProcessStepsEffect ==
  ASSUME Typed, NEW c \in Vcpus, Lives(c),
         Load(c) \/ End(c) \/ OtherWait(c) \/ OtherReady(c) \/ Refused(c)
  PROVE  Effect(c)
<1>0. /\ fsdata[c] \in Table /\ Spares(c, fsdata[c])
      /\ Runs(c) => Closing(fsdata[c]) \subseteq HeldOf(c)
  BY DEF Typed, Spares, HeldOf, Closing, Pending, Runs
<1>1. CASE End(c)
  BY <1>0, <1>1, DieEffect DEF End
<1>2. CASE Refused(c)
  BY <1>0, <1>2, RaiseEffect DEF Refused
<1>3. CASE Load(c) \/ OtherWait(c) \/ OtherReady(c)
  <2>1. OnlyOf(c) /\ fsdata' = fsdata /\ opened' = opened
    BY <1>3 DEF OnlyOf, Typed, Load, OtherWait, OtherReady
  <2>2. /\ proc'[c].used
        /\ \/ proc'[c].iowait = proc[c].iowait /\ proc'[c].iowait_id = proc[c].iowait_id
           \/ proc'[c].iowait # "file" /\ proc[c].iowait # "file"
    BY <1>3 DEF Typed, Process, Load, OtherWait, OtherReady, Runs, Lives
  <2>3. \A j \in Fds : Pending(c, j)' <=> Pending(c, j)
    BY <2>2 DEF Pending
  <2>4. Lives(c)'
    BY <2>1, <2>2 DEF Lives, Marked
  <2>5. HeldOf(c)' = HeldOf(c)
    BY <2>1, <2>3 DEF HeldOf
  <2> QED BY <2>1, <2>4, <2>5, StillEffect
<1> QED BY <1>1, <1>2, <1>3

\* A process that does not wait opens a VFD that is free.
LEMMA GrantEffect ==
  ASSUME Typed, NEW c \in Vcpus, Lives(c), NEW j \in Fds, NEW flag, NEW ino,
         j \notin HeldOf(c), flag # {}, LowestFd # NoFd,
         fsdata' = [fsdata EXCEPT ![c][j] = [flag |-> flag, ino |-> ino, fd |-> LowestFd]],
         \E x \in Inodes : opened' = [opened EXCEPT ![LowestFd] = x],
         \A h \in Vcpus \ {c} : proc'[h] = proc[h],
         proc'[c].used, proc'[c].iowait = "no",
         \A k \in Fds \ {j} : ~ Pending(c, k)
  PROVE  Effect(c)
<1>1. /\ fsdata'[c][j].flag = flag /\ fsdata'[c][j].fd = LowestFd
      /\ \A k \in Fds \ {j} : fsdata'[c][k] = fsdata[c][k]
  BY DEF Typed, Table
<1>2. OnlyOf(c)
  BY DEF OnlyOf, Typed
<1>3. HeldOf(c)' = HeldOf(c) \cup {j}
  BY <1>1 DEF HeldOf, Pending
<1>4. Lives(c)'
  BY DEF Lives, Marked
<1>5. \A k \in HeldOf(c) : fsdata'[c][k].fd = fsdata[c][k].fd
  BY <1>1 DEF HeldOf
<1> QED BY <1>1, <1>2, <1>3, <1>4, <1>5 DEF Effect, Gains

LEMMA OpenEffect ==
  ASSUME Typed, NEW c \in Vcpus, Lives(c), NEW p \in Paths, NEW mode \in Modes,
         NEW nonblock \in BOOLEAN, Open(c, p, mode, nonblock)
  PROVE  Effect(c)
<1> DEFINE j == Min(Free(c))
           failed == [fsdata[c] EXCEPT ![j].fd = NoFd]
<1>1. j \in Fds /\ fsdata[c][j].flag = {} /\ j \notin HeldOf(c)
  BY FirstFree DEF Open, HeldOf
<1>2. /\ proc[c] \in Process /\ fsdata[c] \in Table /\ fsdata[c][j] \in Entry
      /\ proc[c].used /\ proc[c].iowait = "no" /\ inode[p] \in Inodes
      /\ \A k \in Fds : ~ Pending(c, k)
  BY <1>1 DEF Typed, Table, Open, Runs, Pending
<1>3. /\ failed \in Table /\ failed[j].flag = {}
      /\ \A k \in Fds \ {j} : failed[k] = fsdata[c][k]
  BY <1>1, <1>2 DEF Table, Entry
<1> HIDE DEF failed
<1>5. ASSUME UNCHANGED <<proc, fsdata, waitfile, opened, unbroken>>
      PROVE  Effect(c)
  BY <1>5, StillEffect DEF OnlyOf, HeldOf, Pending, Lives, Marked
<1>6. ASSUME fsdata' = [fsdata EXCEPT ![c][j].flag = {"used", mode}, ![c][j].ino = inode[p]],
             proc' = [proc EXCEPT ![c].iowait = "file", ![c].iowait_id = j],
             UNCHANGED opened
      PROVE  Effect(c)
  <2>1. OnlyOf(c) /\ opened' = opened
    BY <1>6 DEF OnlyOf, Typed
  <2>2. proc'[c].iowait = "file" /\ proc'[c].iowait_id = j /\ proc'[c].used
    BY <1>2, <1>6 DEF Typed, Process
  <2>3. /\ \A k \in Fds \ {j} : fsdata'[c][k] = fsdata[c][k]
        /\ fsdata'[c][j].flag = {"used", mode}
    BY <1>1, <1>6 DEF Typed, Table, Entry
  <2>4. HeldOf(c)' = HeldOf(c)
    BY <1>1, <1>2, <2>2, <2>3 DEF HeldOf, Pending
  <2>5. Lives(c)'
    BY <2>2, <2>3 DEF Lives, Marked
  <2> QED BY <1>1, <2>1, <2>3, <2>4, <2>5, StillEffect DEF HeldOf
<1>7. ASSUME Granted(c, j, {"used", mode}, inode[p], p), LowestFd # NoFd, UNCHANGED proc
      PROVE  Effect(c)
  <2> HIDE DEF j
  <2> QED BY <1>1, <1>2, <1>7, GrantEffect DEF Granted
<1>8. ASSUME Raise(c, failed) PROVE Effect(c)
  <2>1. Spares(c, failed) /\ Closing(failed) \subseteq HeldOf(c)
    BY <1>1, <1>2, <1>3 DEF Spares, Closing, HeldOf
  <2> QED BY <1>3, <1>8, <2>1, RaiseEffect
<1> QED BY <1>5, <1>6, <1>7, <1>8 DEF Open, failed

LEMMA PollEffect ==
  ASSUME Typed, WaitsForPath, NEW c \in Vcpus, Lives(c), Poll(c)
  PROVE  Effect(c)
<1> DEFINE j == proc[c].iowait_id
           entry == fsdata[c][j]
           failed == [fsdata[c] EXCEPT ![j].flag = {}, ![j].fd = NoFd]
<1>1. /\ proc[c] \in Process /\ j \in Fds /\ fsdata[c] \in Table /\ entry \in Entry
      /\ proc[c].iowait = "file" /\ proc[c].used /\ waitfile[c] \in Paths
  BY DEF Typed, Process, Table, Poll, Lives, WaitsForPath
<1>2. j \notin HeldOf(c) /\ \A k \in Fds \ {j} : ~ Pending(c, k)
  BY <1>1 DEF HeldOf, Pending
<1>3. ASSUME entry.flag # {}, HostFd(waitfile[c]) # NoFd,
             Granted(c, j, entry.flag, entry.ino, waitfile[c]),
             proc' = [proc EXCEPT ![c].iowait = "no", ![c].iowait_id = 0]
      PROVE  Effect(c)
  <2>1. inode[waitfile[c]] \in Inodes /\ LowestFd # NoFd
    BY <1>1, <1>3 DEF HostFd, Typed
  <2>2. /\ \A h \in Vcpus \ {c} : proc'[h] = proc[h]
        /\ proc'[c].used /\ proc'[c].iowait = "no"
    BY <1>1, <1>3 DEF Typed, Process
  <2> HIDE DEF j
  <2> QED BY <1>1, <1>2, <1>3, <2>1, <2>2, GrantEffect DEF Granted
<1>4. ASSUME Raise(c, failed) PROVE Effect(c)
  <2>1. /\ failed \in Table /\ failed[j].flag = {}
        /\ \A k \in Fds \ {j} : failed[k] = fsdata[c][k]
    BY <1>1, FlagTypes DEF Table, Entry
  <2> HIDE DEF failed
  <2>2. Spares(c, failed) /\ Closing(failed) \subseteq HeldOf(c)
    BY <1>2, <2>1 DEF Spares, Closing, HeldOf
  <2> QED BY <1>4, <2>1, <2>2, RaiseEffect
<1> QED BY <1>3, <1>4 DEF Poll

LEMMA FileStepsEffect ==
  ASSUME Typed, NEW c \in Vcpus, Lives(c),
         \/ \E p \in Paths, mode \in Modes \cap Locking : Create(c, p, mode)
         \/ \E j \in Fds : Close(c, j)
         \/ \E p \in Paths : Delete(c, p)
         \/ \E p, q \in Paths : Rename(c, p, q)
  PROVE  Effect(c)
<1>1. ASSUME NEW p \in Paths, NEW mode \in Modes \cap Locking, Create(c, p, mode)
      PROVE  Effect(c)
  <2> DEFINE j == Min(Free(c))
             failed == [fsdata[c] EXCEPT ![j].fd = NoFd]
  <2>1. j \in Fds /\ fsdata[c][j].flag = {} /\ j \notin HeldOf(c)
    BY <1>1, FirstFree DEF Create, HeldOf
  <2>2. /\ proc[c].used /\ proc[c].iowait = "no" /\ fsdata[c] \in Table
        /\ fsdata[c][j] \in Entry /\ \A k \in Fds : ~ Pending(c, k)
    BY <1>1, <2>1 DEF Typed, Table, Create, Runs, Pending
  <2>3. ASSUME NEW ino \in Inodes, LowestFd # NoFd,
               opened' = [opened EXCEPT ![LowestFd] = ino],
               fsdata' = [fsdata EXCEPT ![c][j] =
                           [flag |-> {mode}, ino |-> ino, fd |-> LowestFd]],
               UNCHANGED proc
        PROVE  Effect(c)
    <3> HIDE DEF j
    <3> QED BY <2>1, <2>2, <2>3, GrantEffect
  <2>4. ASSUME Raise(c, failed) PROVE Effect(c)
    <3>1. /\ failed \in Table /\ failed[j].flag = {}
          /\ \A k \in Fds \ {j} : failed[k] = fsdata[c][k]
      BY <2>1, <2>2 DEF Table, Entry
    <3> HIDE DEF failed
    <3>2. Spares(c, failed) /\ Closing(failed) \subseteq HeldOf(c)
      BY <2>1, <2>2, <3>1 DEF Spares, Closing, HeldOf
    <3> QED BY <2>4, <3>1, <3>2, RaiseEffect
  <2> QED BY <1>1, <2>3, <2>4 DEF Create
<1>2. ASSUME NEW j \in Fds, Close(c, j)
      PROVE  Effect(c)
  <2>1. /\ proc' = proc /\ Runs(c) /\ fsdata[c][j] \in Entry /\ "used" \in fsdata[c][j].flag
        /\ \A k \in Fds : ~ Pending(c, k)
    BY <1>2 DEF Close, Typed, Table, Runs, Pending
  <2>2. /\ OnlyOf(c) /\ fsdata'[c][j].flag = {}
        /\ \A k \in Fds \ {j} : fsdata'[c][k] = fsdata[c][k]
    BY <1>2, <2>1 DEF Close, ClosedEntry, OnlyOf, Typed, Table, Entry
  <2>3. j \in HeldOf(c) /\ HeldOf(c)' = HeldOf(c) \ {j}
    BY <2>1, <2>2 DEF HeldOf, Pending
  <2>4. Lives(c)'
    BY <2>1, <2>2 DEF Lives, Marked, Runs
  <2>5. \A d \in HostFds : opened'[d] = IF d = fsdata[c][j].fd THEN None ELSE opened[d]
    BY <1>2 DEF Close, HostClose
  <2>6. fsdata[c][j].fd \in HostFds \cup {NoFd}
    BY <2>1 DEF Entry
  <2>7. Loses(c) /\ Careful(c)
    BY <2>2, <2>3, <2>5, <2>6 DEF Loses, Careful, HeldOf
  <2> QED BY <2>4, <2>7 DEF Effect
<1>3. ASSUME NEW p \in Paths, Delete(c, p) \/ \E q \in Paths : Rename(c, p, q)
      PROVE  Effect(c)
  <2>1. UNCHANGED <<proc, fsdata, opened>>
    BY <1>3 DEF Delete, Rename
  <2> QED BY <2>1, StillEffect DEF OnlyOf, HeldOf, Pending, Lives, Marked
<1> QED BY <1>1, <1>2, <1>3

LEMMA StepHasEffect ==
  ASSUME TypeOK, InUseInv, Next
  PROVE  \E c \in Vcpus : Effect(c)
<1>0. Typed /\ WaitsForPath /\ \A c \in Vcpus : Lives(c)
  BY TypeSplit DEF InUseInv
<1>1. ASSUME NEW c \in Vcpus,
             \/ Load(c) \/ End(c) \/ OtherWait(c) \/ OtherReady(c)
             \/ Refused(c)
      PROVE  Effect(c)
  BY <1>0, <1>1, ProcessStepsEffect
<1>2. ASSUME NEW c \in Vcpus, Poll(c) PROVE Effect(c)
  BY <1>0, <1>2, PollEffect
<1>3. ASSUME NEW c \in Vcpus, NEW p \in Paths, NEW mode \in Modes,
             NEW nonblock \in BOOLEAN, Open(c, p, mode, nonblock)
      PROVE  Effect(c)
  BY <1>0, <1>3, OpenEffect
<1>4. ASSUME NEW c \in Vcpus,
             \/ \E p \in Paths, mode \in Modes \cap Locking : Create(c, p, mode)
             \/ \E j \in Fds : Close(c, j)
             \/ \E p \in Paths : Delete(c, p)
             \/ \E p, q \in Paths : Rename(c, p, q)
      PROVE  Effect(c)
  BY <1>0, <1>4, FileStepsEffect
<1> QED BY <1>1, <1>2, <1>3, <1>4 DEF Next

LEMMA InUsePreserved == TypeOK /\ InUseInv /\ [Next]_vars => InUseInv'
<1>1. CASE UNCHANGED vars
  BY <1>1 DEF vars, InUseInv, HeldInUse, Lives, Marked, HeldOf, Pending
<1> QED BY <1>1, StepHasEffect, InUseStep, TypeSplit

LEMMA InUseInit == Init => InUseInv
BY DEF Init, Vacant, InUseInv, Lives, Marked, HeldInUse

\* An entry that is held is open in a live process, or was created.
LEMMA HeldKinds ==
  ASSUME Typed, NEW c \in Vcpus, Lives(c), NEW j \in HeldOf(c)
  PROVE  \/ IsOpen(c, j) /\ proc[c].used
         \/ \E m \in Locking : fsdata[c][j].flag = {m}
<1>1. j \in Fds /\ fsdata[c][j].flag \in Flags /\ fsdata[c][j].flag # {} /\ ~ Pending(c, j)
  BY DEF HeldOf, Typed, Table, Entry
<1>2. CASE "used" \in fsdata[c][j].flag
  BY <1>1, <1>2 DEF IsOpen, Lives
<1>3. CASE "used" \notin fsdata[c][j].flag
  BY <1>1, <1>3 DEF Flags
<1> QED BY <1>2, <1>3

\* Descriptors of the host are never lost: each belongs to a VFD that a live
\* process has open, or to a file that was created and cannot be given back
\* (fs.c:517,525-547,985-990).  This also holds when the console kills
\* processes that wait.
THEOREM NoDescriptorIsLost == Spec => []DescriptorsAreInUse
<1>1. TypeOK /\ InUseInv => DescriptorsAreInUse
  <2> SUFFICES ASSUME TypeOK, InUseInv, NEW d \in HostFds \ {0}, opened[d] # None
               PROVE  \E c \in Vcpus, j \in Fds :
                        /\ fsdata[c][j].fd = d
                        /\ \/ IsOpen(c, j) /\ proc[c].used
                           \/ \E m \in Locking : fsdata[c][j].flag = {m}
    BY DEF DescriptorsAreInUse
  <2>1. PICK c \in Vcpus : \E j \in HeldOf(c) : fsdata[c][j].fd = d
    BY DEF InUseInv, HeldInUse
  <2>2. PICK j \in HeldOf(c) : fsdata[c][j].fd = d
    BY <2>1
  <2>3. j \in Fds
    BY DEF HeldOf
  <2> QED BY <2>2, <2>3, HeldKinds, TypeSplit DEF InUseInv
<1> QED BY <1>1, InUseInit, InUsePreserved, TypeInit, TypePreserved, PTL DEF Spec

LEMMA OwnedPreserved ==
  ~ KillsWaiters /\ TypeOK /\ InUseInv /\ OwnedInv /\ [Next]_vars => OwnedInv'
<1>1. CASE UNCHANGED vars
  BY <1>1 DEF vars, OwnedInv, Backed, Apart, HeldOf, Pending
<1> QED BY <1>1, StepHasEffect, OwnedStep, TypeSplit

LEMMA OwnedInit == Init => OwnedInv
<1> SUFFICES ASSUME Init PROVE OwnedInv
  OBVIOUS
<1>1. 0 \in HostFds
  BY FsLockAssumption DEF HostFds
<1>2. opened[0] = Console
  BY <1>1 DEF Init
<1>3. \A c \in Vcpus : HeldOf(c) = {}
  BY DEF Init, HeldOf
<1> QED BY <1>2, <1>3 DEF OwnedInv, Backed, Apart

\* As long as no process is killed while it waits, every VFD that is open has
\* a descriptor of the host to itself, which refers to a file, and the kernel
\* keeps its console (fs.c:535-540,985-988).
THEOREM DescriptorsStayOwned ==
  ASSUME ~ KillsWaiters
  PROVE  Spec => []DescriptorsAreOwned
<1>1. OwnedInv => DescriptorsAreOwned
  <2>1. \A c \in Vcpus, j \in Fds : IsOpen(c, j) => j \in HeldOf(c)
    BY DEF IsOpen, HeldOf
  <2> QED BY <2>1 DEF OwnedInv, Backed, Apart, DescriptorsAreOwned
<1> QED BY <1>1, OwnedInit, InUseInit, InUsePreserved, OwnedPreserved, TypeInit,
           TypePreserved, PTL DEF Spec

-----------------------------------------------------------------------------
(* Writers exclude each other. *)

\* The descriptor of what is held without a wait refers to the inode that was
\* looked up.
AsNoted ==
  \A c \in Vcpus : \A j \in unbroken[c] : opened[fsdata[c][j].fd] = fsdata[c][j].ino

LEMMA KeptIsHeld ==
  ASSUME LockInv, Typed, NEW c \in Vcpus
  PROVE  unbroken[c] \subseteq HeldOf(c)
BY DEF LockInv, Kept, Typed, HeldOf, Pending

LEMMA AsNotedPreserved ==
  ~ KillsWaiters /\ TypeOK /\ LockInv /\ InUseInv /\ OwnedInv /\ AsNoted /\ [Next]_vars
    => AsNoted'
<1> SUFFICES ASSUME ~ KillsWaiters, TypeOK, LockInv, InUseInv, OwnedInv, AsNoted, [Next]_vars
             PROVE  AsNoted'
  OBVIOUS
<1>1. CASE UNCHANGED vars
  BY <1>1 DEF vars, AsNoted
<1>2. CASE Next
  <2>1. PICK c \in Vcpus : Effect(c)
    BY <1>2, StepHasEffect
  <2>2. Typed /\ Typed' /\ Honest /\ LockInv'
    <3>1. TypeOK'
      BY TypePreserved
    <3>2. Typed /\ Typed'
      BY <3>1, TypeSplit DEF TypeOK, Typed, Process, Entry, Table, Opened
    <3> QED BY <3>2, LockPreserved DEF LockStep
  <2>3. ASSUME NEW h \in Vcpus, NEW j \in unbroken[h], j \in unbroken'[h],
               fsdata'[h][j] = fsdata[h][j]
        PROVE  opened'[fsdata'[h][j].fd] = fsdata'[h][j].ino
    <3>1. j \in HeldOf(h)
      BY <2>2, KeptIsHeld
    <3>2. j \in HeldOf(h)'
      BY <2>2, <2>3 DEF LockInv, Kept, Typed, HeldOf, Pending
    <3>3. opened'[fsdata[h][j].fd] = opened[fsdata[h][j].fd]
      BY <2>1, <2>2, <3>1, <3>2, HeldStays
    <3> QED BY <2>3, <3>3 DEF AsNoted
  <2> QED BY <2>2, <2>3 DEF Honest, AsNoted
<1> QED BY <1>1, <1>2

\* Of two processes that have a file open for writing, one has waited for
\* something since, or was given another file than the one it had waited for,
\* whatever is opened, created, removed, renamed or refused in between, as
\* long as no process is killed while it waits (fs.c:277-300,421-447).
THEOREM LockExcludes ==
  ASSUME ~ KillsWaiters
  PROVE  Spec => []WritersExclude
<1>1. Init => LockInv /\ AsNoted
  BY DEF Init, LockInv, Kept, NotedApart, Marked, Vacant, AsNoted
<1>2. TypeOK /\ LockInv /\ [Next]_vars => LockInv'
  BY LockPreserved, TypeSplit DEF LockStep
<1>3. LockInv /\ AsNoted => WritersExclude
  BY DEF LockInv, NotedApart, AsNoted, WritersExclude
<1> QED BY <1>1, <1>2, <1>3, AsNotedPreserved, OwnedInit, InUseInit, InUsePreserved,
           OwnedPreserved, TypeInit, TypePreserved, PTL DEF Spec
=============================================================================
