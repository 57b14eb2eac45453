------------------------------- MODULE FsLock -------------------------------
(***************************************************************************)
(* The file descriptors of the filesystem module (modules/fs.c): opening,  *)
(* creating, closing and removing files, the lock that writers of a file   *)
(* wait for, and the host's descriptors underneath.                        *)
(*                                                                         *)
(* A syscall is one step: the kernel is a single thread.  What is read and *)
(* written is left out.  The exceptions that every syscall may raise are   *)
(* Refused; whether the process handles an exception or dies of it is left *)
(* open each time (see Vcpu).                                              *)
(***************************************************************************)
EXTENDS Integers, FiniteSets, FiniteSetsExt

CONSTANTS
  Vcpus,         \* 0 .. MAX_VCPUS - 1
  MaxFsFd,       \* MAX_FS_FD
  Paths,
  Inodes,
  Modes,         \* the modes files are opened in
  MaxHostFd,     \* the last descriptor the host gives to the kernel
  OtherWaits,    \* bound: VCPUs whose processes wait for other modules' I/O
  KillsWaiters   \* whether the console kills processes that wait

Fds == 0 .. MaxFsFd - 1
HostFds == 0 .. MaxHostFd
NoFd == -1
None == "none"
Console == "console"    \* what the kernel's own descriptor 0 refers to

ASSUME FsLockAssumption ==
  /\ Modes \subseteq {"read", "write", "append"}
  /\ MaxFsFd \in Nat \ {0} /\ MaxHostFd \in Nat
  /\ None \notin Inodes /\ Console \notin Inodes
  /\ OtherWaits \subseteq Vcpus /\ KillsWaiters \in BOOLEAN

VARIABLES
  proc,        \* per VCPU: its process
  fsdata,      \* per VCPU and VFD.  (The ino of one that is given back is not
               \* read before it is written, and is None here.)
  waitfile,    \* per VCPU: the path it waits for.  (Every open writes it; who
               \* does not wait never reads it, and it is None here.)
  inode,       \* host: the inode of a path
  opened,      \* host: what the kernel's descriptors refer to
  unbroken     \* history: VFDs opened for writing, on the file that was asked
               \* for, by processes that have not waited for anything since

vars == <<proc, fsdata, waitfile, inode, opened, unbroken>>

-----------------------------------------------------------------------------
Vacant == [used |-> FALSE, iowait |-> "no", iowait_id |-> 0]

Locking == {"write", "append"}

Init ==
  /\ proc = [c \in Vcpus |-> Vacant]
  /\ fsdata = [c \in Vcpus |-> [j \in Fds |-> [flag |-> {}, ino |-> None, fd |-> 0]]]
  /\ waitfile = [c \in Vcpus |-> None]
  /\ inode \in [Paths -> Inodes \cup {None}]
  /\ \A p, q \in Paths : p # q /\ inode[p] = inode[q] => inode[p] = None
  /\ opened = [d \in HostFds |-> IF d = 0 THEN Console ELSE None]
  /\ unbroken = [c \in Vcpus |-> {}]

Runs(c) == proc[c].used /\ proc[c].iowait = "no"

Free(c) == {j \in Fds : fsdata[c][j].flag = {}}

\* Mutant of HoldsLock: processes that wait lock their files, too.
HoldsWaiting(c, ino) ==
  \E j \in Fds : /\ "used" \in fsdata[c][j].flag
                 /\ fsdata[c][j].flag \cap Locking # {}
                 /\ fsdata[c][j].ino = ino

\* Mutant of HoldsLock: the first VFD does not count.
HoldsLater(c, ino) ==
  \E j \in Fds \ {0} : /\ "used" \in fsdata[c][j].flag
                       /\ fsdata[c][j].flag \cap Locking # {}
                       /\ fsdata[c][j].ino = ino
                       /\ proc[c].iowait = "no"

\* VCPU c keeps writers off the file: not while it waits itself.
HoldsLock(c, ino) ==
  \E j \in Fds : /\ "used" \in fsdata[c][j].flag
                 /\ fsdata[c][j].flag \cap Locking # {}
                 /\ fsdata[c][j].ino = ino
                 /\ proc[c].iowait = "no"

Locked(ino) == \E h \in Vcpus : HoldsLock(h, ino)

\* open(2): the lowest free descriptor, or an error
LowestFd ==
  LET free == {d \in HostFds : opened[d] = None} IN IF free = {} THEN NoFd ELSE Min(free)

HostFd(p) == IF inode[p] = None THEN NoFd ELSE LowestFd

\* close(2), of any descriptors, open or not
HostClose(ds) == [d \in HostFds |-> IF d \in ds THEN None ELSE opened[d]]

\* syscall_task_cleanup
Closing(entries) == {j \in Fds : "used" \in entries[j].flag}

\* Mutant of ClosedEntry: the VFD is not given back.
StillUsed(entry) == entry

ClosedEntry(entry) == [entry EXCEPT !.flag = {}, !.ino = None]

\* The process of c is destroyed, entries being its VFDs.
Die(c, entries) ==
  /\ proc' = [proc EXCEPT ![c] = Vacant]
  /\ fsdata' = [fsdata EXCEPT ![c] =
       [j \in Fds |-> IF j \in Closing(entries) THEN ClosedEntry(entries[j])
                      ELSE entries[j]]]
  /\ opened' = HostClose({entries[j].fd : j \in Closing(entries)})
  /\ waitfile' = [waitfile EXCEPT ![c] = None]
  /\ unbroken' = [unbroken EXCEPT ![c] = {}]

\* non_fatal: a handler is called, as often as there are exceptions, or c dies.
Raise(c, entries) ==
  \/ /\ fsdata' = [fsdata EXCEPT ![c] = entries]
     /\ UNCHANGED <<proc, waitfile, opened, unbroken>>
  \/ Die(c, entries)

-----------------------------------------------------------------------------
(* Processes *)

Load(c) ==
  /\ ~ proc[c].used
  /\ proc' = [proc EXCEPT ![c].used = TRUE]
  /\ UNCHANGED <<fsdata, waitfile, inode, opened, unbroken>>

\* HALT, an OS signal, or the console
End(c) ==
  /\ proc[c].used /\ (KillsWaiters \/ Runs(c))
  /\ Die(c, fsdata[c])
  /\ UNCHANGED inode

\* I/O of another module
OtherWait(c) ==
  /\ c \in OtherWaits /\ Runs(c)
  /\ proc' = [proc EXCEPT ![c].iowait = "other"]
  /\ unbroken' = [unbroken EXCEPT ![c] = {}]
  /\ UNCHANGED <<fsdata, waitfile, inode, opened>>

OtherReady(c) ==
  /\ proc[c].iowait = "other"
  /\ proc' = [proc EXCEPT ![c].iowait = "no"]
  /\ UNCHANGED <<fsdata, waitfile, inode, opened, unbroken>>

-----------------------------------------------------------------------------
(* Syscalls *)

\* A syscall is refused before it has changed anything: memory or path that
\* cannot be accessed, wrong mode, no free VFD, VFD that is not open, ...
Refused(c) ==
  /\ Runs(c)
  /\ Raise(c, fsdata[c])
  /\ UNCHANGED inode

\* VFD j of c is open now, on the host's lowest descriptor; a writer holds the
\* lock of inode ino, whatever file it is that path p leads to.
Granted(c, j, flag, ino, p) ==
  /\ fsdata' = [fsdata EXCEPT ![c][j] = [flag |-> flag, ino |-> ino, fd |-> LowestFd]]
  /\ opened' = [opened EXCEPT ![LowestFd] = inode[p]]
  /\ unbroken' = [unbroken EXCEPT ![c] =
       @ \cup {k \in {j} : flag \cap Locking # {} /\ inode[p] = ino}]

MustWait(p, mode) == mode \in Locking /\ Locked(inode[p])

\* FS_OPEN_FILE of a file that exists, with a free VFD
Open(c, p, mode, nonblock) ==
  /\ Runs(c) /\ inode[p] # None /\ Free(c) # {}
  /\ UNCHANGED inode
  /\ LET j == Min(Free(c)) IN
     \/ /\ MustWait(p, mode) /\ nonblock
        /\ UNCHANGED <<proc, fsdata, waitfile, opened, unbroken>>
     \/ /\ MustWait(p, mode) /\ ~ nonblock
        /\ fsdata' = [fsdata EXCEPT ![c][j].flag = {"used", mode},
                                ![c][j].ino = inode[p]]
        /\ proc' = [proc EXCEPT ![c].iowait = "file", ![c].iowait_id = j]
        /\ waitfile' = [waitfile EXCEPT ![c] = p]
        /\ unbroken' = [unbroken EXCEPT ![c] = {}]
        /\ UNCHANGED opened
     \/ /\ ~ MustWait(p, mode) /\ LowestFd # NoFd
        /\ Granted(c, j, {"used", mode}, inode[p], p)
        /\ UNCHANGED <<proc, waitfile>>
     \/ /\ ~ MustWait(p, mode) /\ LowestFd = NoFd
        /\ Raise(c, [fsdata[c] EXCEPT ![j].fd = NoFd])

\* wait_for_write_access, called in every cycle.  An error does not end the
\* wait: there will be no mode then, and the error comes again, for ever if
\* it is handled.
Poll(c) ==
  LET j == proc[c].iowait_id
      entry == fsdata[c][j]
      p == waitfile[c]
      opens == entry.flag # {} /\ HostFd(p) # NoFd
  IN
  /\ proc[c].iowait = "file"
  /\ ~ Locked(entry.ino)
  /\ \/ /\ opens
        /\ Granted(c, j, entry.flag, entry.ino, p)
        /\ proc' = [proc EXCEPT ![c].iowait = "no", ![c].iowait_id = 0]
        /\ waitfile' = [waitfile EXCEPT ![c] = None]
     \/ /\ ~ opens
        /\ Raise(c, [fsdata[c] EXCEPT ![j].flag = {}, ![j].fd = NoFd])
  /\ UNCHANGED inode

\* FS_CREATE_FILE: the file must not exist.  Bound: an inode is left.
Create(c, p, mode) ==
  /\ Runs(c) /\ Free(c) # {}
  /\ LET j == Min(Free(c)) IN
     \/ /\ inode[p] = None /\ LowestFd # NoFd
        /\ \E ino \in Inodes :
             /\ \A q \in Paths : inode[q] # ino
             /\ \A d \in HostFds : opened[d] # ino
             /\ inode' = [inode EXCEPT ![p] = ino]
             /\ opened' = [opened EXCEPT ![LowestFd] = ino]
             /\ fsdata' = [fsdata EXCEPT ![c][j] =
                             [flag |-> {mode}, ino |-> ino, fd |-> LowestFd]]
        /\ UNCHANGED <<proc, waitfile, unbroken>>
     \/ /\ inode[p] # None \/ LowestFd = NoFd
        /\ Raise(c, [fsdata[c] EXCEPT ![j].fd = NoFd])
        /\ UNCHANGED inode

\* Mutant of Close: the host's descriptor stays open.
CloseVfdOnly(c, j) ==
  /\ Runs(c) /\ "used" \in fsdata[c][j].flag
  /\ fsdata' = [fsdata EXCEPT ![c][j] = ClosedEntry(@)]
  /\ unbroken' = [unbroken EXCEPT ![c] = @ \ {j}]
  /\ UNCHANGED <<proc, waitfile, inode, opened>>

\* FS_CLOSE_FILE
Close(c, j) ==
  /\ Runs(c) /\ "used" \in fsdata[c][j].flag
  /\ opened' = HostClose({fsdata[c][j].fd})
  /\ fsdata' = [fsdata EXCEPT ![c][j] = ClosedEntry(@)]
  /\ unbroken' = [unbroken EXCEPT ![c] = @ \ {j}]
  /\ UNCHANGED <<proc, waitfile, inode>>

\* FS_DELETE
Delete(c, p) ==
  /\ Runs(c) /\ inode[p] # None
  /\ inode' = [inode EXCEPT ![p] = None]
  /\ UNCHANGED <<proc, fsdata, waitfile, opened, unbroken>>

\* FS_RENAME
Rename(c, p, q) ==
  /\ Runs(c) /\ inode[p] # None /\ inode[q] = None
  /\ inode' = [inode EXCEPT ![p] = None, ![q] = inode[p]]
  /\ UNCHANGED <<proc, fsdata, waitfile, opened, unbroken>>

-----------------------------------------------------------------------------
Next ==
  \E c \in Vcpus :
    \/ Load(c) \/ End(c) \/ OtherWait(c) \/ OtherReady(c)
    \/ Refused(c) \/ Poll(c)
    \/ \E p \in Paths, mode \in Modes, nonblock \in BOOLEAN : Open(c, p, mode, nonblock)
    \/ \E p \in Paths, mode \in Modes \cap Locking : Create(c, p, mode)
    \/ \E j \in Fds : Close(c, j)
    \/ \E p \in Paths : Delete(c, p)
    \/ \E p, q \in Paths : Rename(c, p, q)

Spec == Init /\ [][Next]_vars

\* task_cycle polls every process that waits in every cycle (see Scheduler).
FairSpec == Spec /\ \A c \in Vcpus : WF_vars(Poll(c))

-----------------------------------------------------------------------------
Flags == {{}} \cup {{"used", m} : m \in Modes} \cup {{m} : m \in Locking}

TypeOK ==
  /\ proc \in [Vcpus -> [used : BOOLEAN, iowait : {"no", "file", "other"},
                         iowait_id : Fds]]
  /\ fsdata \in [Vcpus -> [Fds -> [flag : Flags, ino : Inodes \cup {None},
                                   fd : HostFds \cup {NoFd}]]]
  /\ waitfile \in [Vcpus -> Paths \cup {None}]
  /\ inode \in [Paths -> Inodes \cup {None}]
  /\ opened \in [HostFds -> Inodes \cup {None, Console}]
  /\ unbroken \in [Vcpus -> SUBSET Fds]
  /\ \A c \in Vcpus : proc[c].iowait = "file" => waitfile[c] \in Paths

\* Of two processes that write to a file, one has waited for something since
\* it opened it, for the lock is held by processes that do not wait; or it was
\* given access to a file put in the place of the one it had waited for.  What
\* is compared is what their descriptors refer to (fs.c:277-300,421-447).
WritersExclude ==
  \A c, h \in Vcpus : c # h =>
    \A j \in unbroken[c], k \in unbroken[h] :
      opened[fsdata[c][j].fd] # opened[fsdata[h][k].fd]

Pending(c, j) == proc[c].iowait = "file" /\ proc[c].iowait_id = j
IsOpen(c, j) == "used" \in fsdata[c][j].flag /\ ~ Pending(c, j)
Writes(c, j) == IsOpen(c, j) /\ fsdata[c][j].flag \cap Locking # {}

\* Every open VFD has a descriptor of the host of its own, which refers to a
\* file, and the kernel keeps its console (fs.c:535-540,985-988).
DescriptorsAreOwned ==
  /\ opened[0] = Console
  /\ \A c \in Vcpus, j \in Fds : IsOpen(c, j) =>
       /\ fsdata[c][j].fd \in HostFds \ {0} /\ opened[fsdata[c][j].fd] # None
       /\ \A h \in Vcpus, k \in Fds :
            IsOpen(h, k) /\ fsdata[h][k].fd = fsdata[c][j].fd => h = c /\ k = j

\* No descriptor of the host is lost: each is held by one VFD in use of a live
\* process, or by a VFD of a file that was created, which no process can give
\* back (fs.c:517,525-547,985-990).
DescriptorsAreInUse ==
  \A d \in HostFds \ {0} : opened[d] # None =>
    \E c \in Vcpus, j \in Fds :
      /\ fsdata[c][j].fd = d
      /\ \/ IsOpen(c, j) /\ proc[c].used
         \/ \E m \in Locking : fsdata[c][j].flag = {m}

\* A process does not wait for ever for a file that nobody else has open for
\* writing: it goes on, dies, or there is an error and its VFD is taken from
\* it.  (If it handles that, the wait does not end: the error comes again in
\* every cycle, fs.c:277-313, bcode.c:172-178,527.)
FreedFileIsGranted ==
  \A c \in Vcpus : []<>(
    LET entry == fsdata[c][proc[c].iowait_id] IN
    \/ proc[c].iowait # "file"
    \/ entry.flag = {}
    \/ \E h \in Vcpus \ {c}, j \in Fds :
         Writes(h, j) /\ fsdata[h][j].ino = entry.ino)

-----------------------------------------------------------------------------
(* What the documentation says *)

\* 01312-fs-module:21-24 a process that opens a file for writing while
\* another process writes to it waits "until it receives access".
OneWriter ==
  \A c, h \in Vcpus, j, k \in Fds :
    c # h /\ Writes(c, j) /\ Writes(h, k) => opened[fsdata[c][j].fd] # opened[fsdata[h][k].fd]
=============================================================================
