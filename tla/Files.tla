-------------------------------- MODULE Files --------------------------------
(***************************************************************************)
(* The POSIX side of the HAL: the pool of file descriptors, the lists of   *)
(* devices and file systems that open() searches, the exclusive lock of a  *)
(* device, the redirection of the standard streams at boot, and the host   *)
(* file system driver (altera_hostfs.c).                                   *)
(*                                                                         *)
(* The BSP is single threaded and no interrupt handler makes one of these  *)
(* calls, so a call is one action, with what its driver does included.     *)
(* What a driver answers is nondeterministic over what it can answer.  A   *)
(* name is a sequence of path components.                                  *)
(***************************************************************************)
EXTENDS Integers, Sequences, SequencesExt

CONSTANTS
  MaxFd,      \* ALT_MAX_FD, 32 in system.h
  Names,      \* names the program opens,
  OpenFlags,  \* with these flags: any bits, those of the HAL included
  SetNonblock,\* what it sets O_NONBLOCK to with fcntl()
  Handles,    \* handles the debugger gives out for files of the host
  NoHandle,
  NoDev       \* the null device pointer

Devs == {"null", "console", "hostfs"}
Fds == 0 .. MaxFd - 1
Stdio == 0 .. 2

\* The functions a driver registers in its alt_dev.
Driver == [null    |-> {"write"},
           console |-> {"close", "read", "write", "ioctl"},
           hostfs  |-> {"open", "close", "read", "write", "lseek", "fstat"}]

Path == [null    |-> <<"dev", "null">>,
         console |-> <<"dev", "jtag_uart">>,
         hostfs  |-> <<"mnt", "host">>]

\* fd_flags: O_ACCMODE, O_NONBLOCK, ALT_FD_EXCL and ALT_FD_DEV.
Flags == [mode : {"r", "w", "rw"}, nonblock : BOOLEAN,
          excl : BOOLEAN, isdev : BOOLEAN]
NoFlags == [mode |-> "r", nonblock |-> FALSE, excl |-> FALSE, isdev |-> FALSE]

ASSUME FilesAssumption ==
  /\ MaxFd \in Nat /\ MaxFd > 3
  /\ NoHandle \notin Handles
  /\ NoDev \notin {"null", "console", "hostfs"}
  /\ OpenFlags \subseteq Flags /\ SetNonblock \subseteq BOOLEAN

Entry == [dev : Devs \cup {NoDev}, priv : Handles \cup {NoHandle}, flags : Flags]

VARIABLES
  devs, mounts,   \* alt_dev_list and alt_fs_list: the registered ones
  fds,            \* alt_fd_list
  maxFd,          \* alt_max_fd
  hostOpen,       \* handles the host has open (external)
  phase,          \* "init" (alt_sys_init), the stream being redirected, "main"
  ret             \* the last call ("open", "close" or another) and its error

vars == <<devs, mounts, fds, maxFd, hostOpen, phase, ret>>

Returned(call, err) == ret' = [call |-> call, err |-> err]

TypeOK ==
  /\ devs \subseteq Devs /\ mounts \subseteq Devs
  /\ fds \in [Fds -> Entry]
  /\ maxFd \in -1 .. MaxFd - 1
  /\ hostOpen \subseteq Handles
  /\ phase \in {"init", "stdout", "stdin", "stderr", "main"}

Init ==
  /\ devs = {"null"} /\ mounts = {}
  /\ fds = [i \in Fds |-> [dev |-> IF i \in Stdio THEN "null" ELSE NoDev,
                           priv |-> NoHandle, flags |-> NoFlags]]
  /\ maxFd = -1
  /\ hostOpen = {}
  /\ phase = "init"
  /\ ret = [call |-> "other", err |-> "ok"]

-----------------------------------------------------------------------------
\* Devices and file systems.  Their names differ, so that the order of the
\* lists does not matter.

RegisterConsole ==
  /\ phase = "init" /\ "console" \notin devs
  /\ devs' = devs \cup {"console"}
  /\ UNCHANGED <<mounts, fds, maxFd, hostOpen, phase, ret>>

RegisterHostFs ==
  /\ phase = "init" /\ "console" \in devs
  /\ mounts' = mounts \cup {"hostfs"}
  /\ phase' = "stdout"
  /\ UNCHANGED <<devs, fds, maxFd, hostOpen, ret>>

\* A device is found under its own name, a file system under every name that
\* its mount point is a prefix of, cut at a '/' or at the end of the name.
FindDev(name)  == {d \in devs : Path[d] = name}
FindFile(name) == {d \in mounts : IsPrefix(Path[d], name)}

-----------------------------------------------------------------------------
\* The pool of descriptors.

Free(table) == {i \in Fds : table[i].dev = NoDev}

ReleaseFd(table, i) ==
  IF i > 2 THEN [table EXCEPT ![i].flags = NoFlags, ![i].dev = NoDev] ELSE table

\* Mutant: the loop of open() ends like that of alt_fd_lock().
FileLockedShort(table, max, i) ==
  \E j \in Fds : /\ j < max /\ j # i
                 /\ table[j].dev = table[i].dev /\ table[j].flags.excl

\* Somebody else has locked the device of descriptor i.
FileLocked(table, max, i) ==
  \E j \in Fds : /\ j <= max /\ j # i
                 /\ table[j].dev = table[i].dev /\ table[j].flags.excl

\* flags & ~ALT_FD_FLAGS_MASK
UserFlags(flags) == [flags EXCEPT !.excl = FALSE, !.isdev = FALSE]

\* Mutant: a failed open() keeps its descriptor.
OpenFailedLeak(table, max, i, err) ==
  [fds |-> table, max |-> max, host |-> hostOpen, fd |-> -1, err |-> err]

OpenFailed(table, max, i, err) ==
  [fds |-> ReleaseFd(table, i), max |-> max, host |-> hostOpen, fd |-> -1, err |-> err]

\* alt_hostfs_open: the host gives a handle or an error.  The name is cut
\* behind the mount point's '/', so for the bare mount point the host is asked
\* for what follows the name in memory: it answers one or the other.
HostFsOpen(table, max, i) ==
  {OpenFailed(table, max, i, "EHOST")} \cup
  {[fds |-> [table EXCEPT ![i].priv = h], max |-> max,
    host |-> hostOpen \cup {h}, fd |-> i, err |-> "ok"] : h \in Handles \ hostOpen}

\* Mutant: the number of entries instead of the highest one.
HighWaterCount(i) == i + 1

HighWater(i) == IF i > maxFd THEN i ELSE maxFd

\* alt_get_fd takes the lowest free entry i, open() fills it in as "table".
Allocated(d, isafs, flags, i) ==
  LET table == [fds EXCEPT ![i] = [dev |-> d, priv |-> fds[i].priv,
                                   flags |-> [UserFlags(flags) EXCEPT !.isdev = ~isafs]]]
      max == HighWater(i)
  IN  IF ~isafs /\ FileLocked(table, max, i) THEN {OpenFailed(table, max, i, "EACCES")}
      ELSE IF "open" \in Driver[d] THEN HostFsOpen(table, max, i)
      ELSE {[fds |-> table, max |-> max, host |-> hostOpen, fd |-> i, err |-> "ok"]}

\* No entry was taken.
Refused(err) == [fds |-> fds, max |-> maxFd, host |-> hostOpen, fd |-> -1, err |-> err]

\* What a call of open() can lead to: a device of that name is preferred to a
\* file system, and the lowest free entry is taken.
OpenOutcomes(name, flags) ==
  LET isafs == FindDev(name) = {}
      found == IF isafs THEN FindFile(name) ELSE FindDev(name)
      lowest == {i \in Free(fds) : \A j \in Free(fds) : i <= j}
  IN  IF found = {} THEN {Refused("ENODEV")}
      ELSE IF lowest = {} THEN {Refused("EMFILE")}
      ELSE Allocated(CHOOSE d \in found : TRUE, isafs, flags, CHOOSE i \in lowest : TRUE)

-----------------------------------------------------------------------------
\* alt_io_redirect: stdout, stdin and stderr in this order.  The stream takes
\* over the entry that open() filled in, which is released without a close().

Stream == [stdout |-> 1, stdin |-> 0, stderr |-> 2]
After  == [stdout |-> "stdin", stdin |-> "stderr", stderr |-> "main"]
StreamMode == [stdout |-> "w", stdin |-> "r", stderr |-> "w"]

Redirect ==
  /\ phase \in DOMAIN Stream
  /\ \E o \in OpenOutcomes(Path["console"], [NoFlags EXCEPT !.mode = StreamMode[phase]]) :
       /\ fds' = IF o.err = "ok"
                 THEN ReleaseFd([o.fds EXCEPT ![Stream[phase]] = o.fds[o.fd]], o.fd)
                 ELSE o.fds
       /\ maxFd' = o.max
       /\ hostOpen' = o.host
  /\ phase' = After[phase]
  /\ UNCHANGED <<devs, mounts, ret>>

-----------------------------------------------------------------------------
\* The calls of the program.  It calls them with a descriptor it has open, or
\* with the -1 of a failed open(): nothing checks that an entry is in use, and
\* with a free one the calls follow a null pointer.

Running == phase = "main"

Open(name, flags) ==
  /\ Running
  /\ \E o \in OpenOutcomes(name, flags) :
       /\ fds' = o.fds
       /\ maxFd' = o.max
       /\ hostOpen' = o.host
       /\ Returned("open", o.err)
  /\ UNCHANGED <<devs, mounts, phase>>

\* A negative descriptor is refused by every call.
BadFd ==
  /\ Running
  /\ Returned("other", "EBADFD")
  /\ UNCHANGED <<devs, mounts, fds, maxFd, hostOpen, phase>>

InUse(i) == Running /\ fds[i].dev # NoDev

\* alt_hostfs_close, and the close of the JTAG UART, which in non-blocking mode
\* does not wait for its transmit buffer.
CloseAnswers(i) ==
  IF fds[i].dev = "hostfs" THEN {"ok", "EHOST"}
  ELSE IF fds[i].dev = "console" /\ fds[i].flags.nonblock THEN {"ok", "EWOULDBLOCK"}
  ELSE {"ok"}

\* What the host has open then.  If it answers an error, the file may be open still.
HostAfterClose(i, err) ==
  IF fds[i].dev # "hostfs" THEN {hostOpen}
  ELSE {hostOpen \ {fds[i].priv}} \cup (IF err = "EHOST" THEN {hostOpen} ELSE {})

\* Mutant: the entry is kept if the driver answers an error.
CloseKept(i) ==
  /\ InUse(i)
  /\ \E err \in CloseAnswers(i) :
       /\ Returned("close", err)
       /\ hostOpen' \in HostAfterClose(i, err)
       /\ fds' = IF err = "ok" THEN ReleaseFd(fds, i) ELSE fds
  /\ UNCHANGED <<devs, mounts, maxFd, phase>>

\* Mutant: the driver's answer is not reported.
CloseQuiet(i) ==
  /\ InUse(i)
  /\ fds' = ReleaseFd(fds, i)
  /\ \E err \in CloseAnswers(i) : hostOpen' \in HostAfterClose(i, err)
  /\ Returned("close", "ok")
  /\ UNCHANGED <<devs, mounts, maxFd, phase>>

\* The entry is released, and a handle forgotten, whatever the driver answers.
Close(i) ==
  /\ InUse(i)
  /\ fds' = ReleaseFd(fds, i)
  /\ \E err \in CloseAnswers(i) :
       /\ Returned("close", err)
       /\ hostOpen' \in HostAfterClose(i, err)
  /\ UNCHANGED <<devs, mounts, maxFd, phase>>

\* Mutant: only the descriptors above the one to be locked are looked at.
FdLockAbove(i) ==
  IF \E j \in Fds : j > i /\ j < maxFd /\ fds[j].dev = fds[i].dev
  THEN /\ Returned("other", "EACCES")
       /\ UNCHANGED fds
  ELSE /\ Returned("other", "ok")
       /\ fds' = [fds EXCEPT ![i].flags.excl = TRUE]

FdLock(i) ==
  IF \E j \in Fds : j < maxFd /\ j # i /\ fds[j].dev = fds[i].dev
  THEN /\ Returned("other", "EACCES")
       /\ UNCHANGED fds
  ELSE /\ Returned("other", "ok")
       /\ fds' = [fds EXCEPT ![i].flags.excl = TRUE]

FdUnlock(i) ==
  /\ Returned("other", "ok")
  /\ fds' = [fds EXCEPT ![i].flags.excl = FALSE]

\* TIOCEXCL and TIOCNXCL of a device are handled here, all else by the driver.
Ioctl(i, req) ==
  /\ InUse(i)
  /\ IF fds[i].flags.isdev /\ req = "TIOCEXCL" THEN FdLock(i)
     ELSE IF fds[i].flags.isdev /\ req = "TIOCNXCL" THEN FdUnlock(i)
     ELSE /\ IF "ioctl" \in Driver[fds[i].dev]
             THEN \E err \in {"ok", "ENOTTY"} : Returned("other", err)
             ELSE Returned("other", "ENOTTY")
          /\ UNCHANGED fds
  /\ UNCHANGED <<devs, mounts, maxFd, hostOpen, phase>>

\* F_SETFL; F_GETFL reads fd_flags.
Fcntl(i, nonblock) ==
  /\ InUse(i)
  /\ fds' = [fds EXCEPT ![i].flags.nonblock = nonblock]
  /\ Returned("other", "ok")
  /\ UNCHANGED <<devs, mounts, maxFd, hostOpen, phase>>

\* A call that goes to the driver's function, if there is one and the mode of
\* the descriptor allows it, and changes nothing here.
Vectored(call, i, allowed, refusal, answers) ==
  /\ InUse(i)
  /\ \E err \in IF allowed /\ call \in Driver[fds[i].dev] THEN answers ELSE {refusal} :
       Returned("other", err)
  /\ UNCHANGED <<devs, mounts, fds, maxFd, hostOpen, phase>>

IoAnswers(i) == {"ok", "EHOST"} \cup IF fds[i].flags.nonblock THEN {"EWOULDBLOCK"} ELSE {}

Read(i)  == Vectored("read", i, fds[i].flags.mode # "w", "EACCES", IoAnswers(i))
Write(i) == Vectored("write", i, fds[i].flags.mode # "r", "EACCES", IoAnswers(i))
Lseek(i) == Vectored("lseek", i, TRUE, "ENOTSUP", {"ok", "EHOST"})
Fstat(i) == Vectored("fstat", i, TRUE, "ok", {"ok", "EHOST"})

\* Without an fstat the driver is a terminal.  With one the answer is read from
\* the structure even if the call failed and left it uninitialized.
Isatty(i) ==
  /\ InUse(i)
  /\ \E err \in IF "fstat" \in Driver[fds[i].dev] THEN {"yes", "no"} ELSE {"yes"} :
       Returned("other", err)
  /\ UNCHANGED <<devs, mounts, fds, maxFd, hostOpen, phase>>

-----------------------------------------------------------------------------
Next ==
  \/ RegisterConsole \/ RegisterHostFs \/ Redirect
  \/ \E name \in Names, flags \in OpenFlags : Open(name, flags)
  \/ BadFd
  \/ \E i \in Fds :
       \/ Close(i)
       \/ \E req \in {"TIOCEXCL", "TIOCNXCL", "other"} : Ioctl(i, req)
       \/ \E nonblock \in SetNonblock : Fcntl(i, nonblock)
       \/ Read(i) \/ Write(i) \/ Lseek(i) \/ Fstat(i) \/ Isatty(i)

Spec == Init /\ [][Next]_vars

-----------------------------------------------------------------------------
\* Two descriptors never both hold the exclusive lock of a device, over all
\* orders of opens, locks, unlocks and closes (alt_fd_lock.c:61).
OneLockHolder ==
  \A i, j \in Fds :
    /\ fds[i].flags.excl /\ fds[j].flags.excl
    /\ fds[i].dev = fds[j].dev
    => i = j

\* The lock is exclusive: while one descriptor holds it no other descriptor
\* refers to the device.  This is what the comment of alt_fd_lock() says
\* (alt_fd_lock.c:43).
LockIsExclusive ==
  \A i, j \in Fds : fds[i].flags.excl /\ fds[j].dev = fds[i].dev => i = j

\* Each descriptor of a host file has a file of its own that the host still has open:
\* no call reaches the host with the handle of a file that was closed, and no two
\* descriptors with the same, over all orders of opens and closes, the failing ones
\* included (alt_open.c:161, alt_close.c:88).
HandlesOwned ==
  \A i \in Fds : fds[i].dev = "hostfs" =>
    /\ fds[i].priv \in hostOpen
    /\ \A j \in Fds : fds[j].dev = "hostfs" /\ fds[j].priv = fds[i].priv => i = j

\* Files that the host has open and no descriptor belongs to: nobody can close them.
Orphans == hostOpen \ {fds[i].priv : i \in {j \in Fds : fds[j].dev = "hostfs"}}

\* A file of the host is lost only by a close() that reports the host's error
\* (alt_close.c:88): the entry is released all the same.  Neither a failed open() nor
\* the redirection of the streams, which releases an entry without a close(), loses one.
LossReported ==
  [][Orphans' \subseteq Orphans \/ ret' = [call |-> "close", err |-> "EHOST"]]_vars

\* While a descriptor holds the lock of a device, no open() makes another one
\* refer to it (alt_open.c:79).
LockRespected ==
  [][\A i, j \in Fds :
       /\ fds[i].flags.excl
       /\ fds[j].dev # fds[i].dev
       => fds'[j].dev # fds[i].dev]_vars

\* A failed open() leaves the pool as it was: the entry it took is free again,
\* with no flag set, and the three streams never become free (alt_open.c:161).
PoolKept ==
  [][/\ ret'.call = "open" /\ ret'.err # "ok" => \A i \in Fds : fds'[i] = fds[i]
     /\ \A i \in Stdio : fds'[i].dev # NoDev]_vars
=============================================================================
