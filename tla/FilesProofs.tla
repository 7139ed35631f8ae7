----------------------------- MODULE FilesProofs -----------------------------
(***************************************************************************)
(* Proofs about Files.tla, for every size of the pool, every set of names, *)
(* flags and handles.                                                      *)
(***************************************************************************)
EXTENDS Files, TLAPS

\* What is registered where, and which entries are marked as devices: the lock
\* is a matter of devices alone.
Kinds ==
  /\ devs \subseteq {"null", "console"} /\ mounts \subseteq {"hostfs"}
  /\ \A i \in Fds : /\ fds[i].dev = "hostfs" => ~fds[i].flags.isdev
                    /\ fds[i].flags.excl => fds[i].flags.isdev

\* Entries that are in use lie below the high water mark, the streams once
\* they have been redirected; the streams are never free, and a free entry has
\* no flag set.
Pool ==
  /\ \A i \in Fds : i > 2 /\ fds[i].dev # NoDev => i <= maxFd
  /\ \A i \in Stdio : fds[i].flags.isdev => maxFd >= 3
  /\ \A i \in Stdio : fds[i].dev # NoDev
  /\ \A i \in Fds : fds[i].dev = NoDev => fds[i].flags = NoFlags

\* The loop of alt_fd_lock() overlooks the highest descriptor only, so that a
\* descriptor the holder shares its device with lies above the holder.
LockOrder ==
  /\ phase # "main" => \A i \in Fds : ~fds[i].flags.excl
  /\ \A i, j \in Fds : fds[i].flags.excl /\ fds[j].dev = fds[i].dev => i <= j

IInv == TypeOK /\ Kinds /\ Pool /\ LockOrder

\* The invariant holds before the first call,
LEMMA InitIInv == Init => IInv
<1>. SUFFICES ASSUME Init PROVE IInv
  OBVIOUS
<1>1. \A i \in Fds : /\ fds[i] \in Entry
                     /\ fds[i].flags = NoFlags
                     /\ fds[i].dev = IF i \in Stdio THEN "null" ELSE NoDev
  BY DEF Init, Entry, Flags, NoFlags, Devs
<1>2. TypeOK
  BY <1>1, FilesAssumption DEF Init, TypeOK, Devs, Fds
<1>3. Kinds
  BY <1>1, FilesAssumption DEF Init, Kinds, NoFlags
<1>4. Pool
  BY <1>1, FilesAssumption DEF Pool, NoFlags, Fds, Stdio
<1>5. LockOrder
  BY <1>1 DEF LockOrder, NoFlags
<1>. QED BY <1>2, <1>3, <1>4, <1>5 DEF IInv

\* What a successful open() leaves: entry i, which was free, refers to a device
\* that nobody has locked.
OpenedAt(o, i) ==
  /\ fds[i].dev = NoDev
  /\ o.fds[i] \in Entry
  /\ o.fds[i].dev # NoDev
  /\ ~o.fds[i].flags.excl
  /\ o.fds[i].dev = "hostfs" => ~o.fds[i].flags.isdev
  /\ \A j \in Fds : fds[j].flags.excl => fds[j].dev # o.fds[i].dev
  /\ o.fds = [fds EXCEPT ![i] = o.fds[i]]
  /\ o.max \in -1 .. MaxFd - 1 /\ o.max >= maxFd /\ o.max >= i
  /\ o.host \subseteq Handles
  /\ i > 2
  /\ IF o.fds[i].dev = "hostfs"
     THEN o.fds[i].priv \notin hostOpen /\ o.host = hostOpen \cup {o.fds[i].priv}
     ELSE o.host = hostOpen

OpenRefused(o) ==
  /\ o.fds = fds
  /\ o.max \in -1 .. MaxFd - 1 /\ o.max >= maxFd
  /\ o.host = hostOpen

\* open() either succeeds with one entry or leaves the pool as it was.
LEMMA OpenEffect ==
  ASSUME IInv, NEW name, NEW flags \in Flags, NEW o \in OpenOutcomes(name, flags)
  PROVE  \/ o.err = "ok" /\ o.fd \in Fds /\ OpenedAt(o, o.fd)
         \/ o.err # "ok" /\ OpenRefused(o)
<1>1. CASE o = Refused("ENODEV") \/ o = Refused("EMFILE")
  BY <1>1 DEF Refused, OpenRefused, IInv, TypeOK
<1>2. CASE ~(o = Refused("ENODEV") \/ o = Refused("EMFILE"))
  <2>1. PICK d \in Devs, isafs \in BOOLEAN, i \in Free(fds) :
          /\ o \in Allocated(d, isafs, flags, i)
          /\ isafs <=> d = "hostfs"
    <3> DEFINE isafs == FindDev(name) = {}
               found == IF isafs THEN FindFile(name) ELSE FindDev(name)
               lowest == {i \in Free(fds) : \A j \in Free(fds) : i <= j}
               d == CHOOSE d \in found : TRUE
               i == CHOOSE i \in lowest : TRUE
    <3>1. found # {} /\ lowest # {} /\ o \in Allocated(d, isafs, flags, i)
      BY <1>2 DEF OpenOutcomes
    <3>2. d \in found /\ i \in lowest
      BY <3>1
    <3>3. found \subseteq Devs /\ (isafs <=> d = "hostfs")
      BY <3>2 DEF FindDev, FindFile, IInv, Kinds, Devs
    <3> HIDE DEF d, i, isafs, found
    <3>4. isafs \in BOOLEAN
      BY DEF isafs
    <3>. QED BY <3>1, <3>2, <3>3, <3>4
  <2> DEFINE fl == [UserFlags(flags) EXCEPT !.isdev = ~isafs]
             e == [dev |-> d, priv |-> fds[i].priv, flags |-> fl]
             table == [fds EXCEPT ![i] = e]
  <2>2. i \in Fds /\ fds[i].dev = NoDev /\ i > 2 /\ i \in Int /\ maxFd \in Int
    BY FilesAssumption DEF Free, IInv, Pool, Stdio, TypeOK, Fds
  <2>3. fds[i] \in Entry /\ fl \in Flags /\ ~fl.excl /\ fl.isdev = ~isafs /\ e \in Entry
    BY <2>2 DEF IInv, TypeOK, UserFlags, Flags, Entry
  <2>5. ReleaseFd(table, i) = fds
    <3>1. fds[i] = [dev |-> NoDev, priv |-> fds[i].priv, flags |-> NoFlags]
      BY <2>2, <2>3 DEF IInv, Pool, Entry
    <3>2. [[table EXCEPT ![i].flags = NoFlags] EXCEPT ![i].dev = NoDev] = [table EXCEPT ![i] = fds[i]]
      BY <2>2, <3>1 DEF IInv, TypeOK
    <3>. QED BY <2>2, <3>1, <3>2 DEF ReleaseFd, IInv, TypeOK
  <2>6. /\ HighWater(i) \in -1 .. MaxFd - 1
        /\ HighWater(i) >= maxFd /\ HighWater(i) >= i
    BY <2>2, FilesAssumption DEF HighWater, IInv, TypeOK, Fds
  <2> HIDE DEF table, e, fl
  <2>7. CASE o.err # "ok" /\ \E err : o = OpenFailed(table, HighWater(i), i, err)
    BY <2>5, <2>6, <2>7 DEF OpenFailed, OpenRefused
  <2>8. CASE /\ \A j \in Fds : fds[j].flags.excl => fds[j].dev # d
             /\ \/ d # "hostfs" /\ o = [fds |-> table, max |-> HighWater(i), host |-> hostOpen,
                                        fd |-> i, err |-> "ok"]
                \/ /\ d = "hostfs"
                   /\ \E h \in Handles \ hostOpen :
                        o = [fds |-> [table EXCEPT ![i].priv = h], max |-> HighWater(i),
                             host |-> hostOpen \cup {h}, fd |-> i, err |-> "ok"]
    <3>1. table \in [Fds -> Entry] /\ table[i] = e /\ table = [fds EXCEPT ![i] = e]
      BY <2>2, <2>3 DEF table, IInv, TypeOK
    <3>2. e.dev = d /\ e.flags = fl /\ d # NoDev
      BY FilesAssumption DEF e, Devs
    <3>3. CASE d # "hostfs" /\ o = [fds |-> table, max |-> HighWater(i), host |-> hostOpen,
                                   fd |-> i, err |-> "ok"]
      BY <2>1, <2>2, <2>3, <2>6, <2>8, <3>1, <3>2, <3>3 DEF OpenedAt, IInv, TypeOK
    <3>4. ASSUME d = "hostfs", NEW h \in Handles \ hostOpen,
                 o = [fds |-> [table EXCEPT ![i].priv = h], max |-> HighWater(i),
                      host |-> hostOpen \cup {h}, fd |-> i, err |-> "ok"]
          PROVE  OpenedAt(o, o.fd) /\ o.fd \in Fds
      <4>1. o.fds[i] = [e EXCEPT !.priv = h] /\ o.fd = i
        BY <2>2, <3>1, <3>4
      <4>2. /\ o.fds[i] \in Entry /\ o.fds[i].dev = d /\ o.fds[i].flags = fl
            /\ o.fds[i].priv = h /\ o.host = hostOpen \cup {h}
        BY <2>3, <3>2, <4>1, <3>4 DEF Entry
      <4>3. o.fds = [fds EXCEPT ![i] = o.fds[i]]
        BY <2>2, <3>1, <3>4, <4>1 DEF IInv, TypeOK
      <4>. QED BY <2>1, <2>2, <2>3, <2>6, <2>8, <3>2, <3>4, <4>1, <4>2, <4>3, ZenonT(30) DEF OpenedAt, IInv, TypeOK
    <3>. QED BY <2>2, <2>8, <3>3, <3>4
  <2>9. ~isafs /\ ~FileLocked(table, HighWater(i), i) =>
          \A j \in Fds : fds[j].flags.excl => fds[j].dev # d
    <3>1. SUFFICES ASSUME NEW j \in Fds, fds[j].flags.excl, fds[j].dev = d
                   PROVE  FileLocked(table, HighWater(i), i)
      OBVIOUS
    <3>2. j # i /\ d # NoDev
      BY <2>2, <3>1, FilesAssumption DEF Devs
    <3>3. j <= HighWater(i)
      BY <2>2, <2>6, <3>1, <3>2, FilesAssumption DEF IInv, Pool, Kinds, Stdio, TypeOK, Fds
    <3>4. table[i].dev = d /\ table[j] = fds[j]
      BY <2>2, <3>2 DEF table, e, IInv, TypeOK
    <3>. QED BY <3>1, <3>2, <3>3, <3>4 DEF FileLocked
  <2>10. isafs => \A j \in Fds : fds[j].flags.excl => fds[j].dev # d
    BY <2>1 DEF IInv, Kinds
  <2>11. CASE ~isafs /\ FileLocked(table, HighWater(i), i)
    <3>1. o = OpenFailed(table, HighWater(i), i, "EACCES")
      BY <2>1, <2>11 DEF Allocated, fl, e, table
    <3>. QED BY <2>7, <3>1 DEF OpenFailed
  <2>12. CASE ~(~isafs /\ FileLocked(table, HighWater(i), i)) /\ "open" \in Driver[d]
    <3>1. o \in HostFsOpen(table, HighWater(i), i)
      BY <2>1, <2>12 DEF Allocated, fl, e, table
    <3>2. d = "hostfs"
      BY <2>1, <2>12 DEF Driver, Devs
    <3>. QED BY <2>7, <2>8, <2>9, <2>10, <2>12, <3>1, <3>2 DEF HostFsOpen, OpenFailed
  <2>13. CASE ~(~isafs /\ FileLocked(table, HighWater(i), i)) /\ "open" \notin Driver[d]
    <3>1. o = [fds |-> table, max |-> HighWater(i), host |-> hostOpen, fd |-> i, err |-> "ok"]
      BY <2>1, <2>13 DEF Allocated, fl, e, table
    <3>2. d # "hostfs"
      BY <2>13 DEF Driver
    <3>. QED BY <2>8, <2>9, <2>10, <2>13, <3>1, <3>2
  <2>. QED BY <2>11, <2>12, <2>13
<1>. QED BY <1>1, <1>2

\* A step that changes at most entry i keeps the invariant if the new entry is
\* sound by itself, and, where a lock is concerned, next to the others.
LEMMA OneEntryIInv ==
  ASSUME IInv, NEW i \in Fds,
         devs' \subseteq {"null", "console"}, mounts' \subseteq {"hostfs"},
         phase' \in {"init", "stdout", "stdin", "stderr", "main"},
         phase = "main" => phase' = "main",
         hostOpen' \subseteq Handles,
         maxFd' \in -1 .. MaxFd - 1, maxFd' >= maxFd,
         fds' = [fds EXCEPT ![i] = fds'[i]], fds'[i] \in Entry,
         fds'[i].dev = "hostfs" => ~fds'[i].flags.isdev,
         fds'[i].flags.excl => fds'[i].flags.isdev /\ phase' = "main",
         i > 2 /\ fds'[i].dev # NoDev => i <= maxFd',
         i \in Stdio => fds'[i].dev # NoDev /\ (fds'[i].flags.isdev => maxFd' >= 3),
         fds'[i].dev = NoDev => fds'[i].flags = NoFlags,
         fds'[i].flags.excl => \A j \in Fds : fds[j].dev = fds'[i].dev => i <= j,
         \A j \in Fds : j # i /\ fds[j].flags.excl /\ fds[j].dev = fds'[i].dev => j <= i
  PROVE  IInv'
<1>1. \A j \in Fds : j # i => fds'[j] = fds[j]
  BY DEF IInv, TypeOK
<1>2. TypeOK'
  BY DEF IInv, TypeOK, Devs
<1>3. Kinds'
  BY <1>1 DEF IInv, Kinds
<1>4. \A j \in Fds : j \in Int
  BY FilesAssumption DEF Fds
<1>5. maxFd \in Int /\ maxFd' \in Int
  BY FilesAssumption DEF IInv, TypeOK
<1>6. Stdio \subseteq Fds
  BY FilesAssumption DEF Stdio, Fds
<1>7. Pool'
  <2>1. \A j \in Fds : j > 2 /\ fds'[j].dev # NoDev => j <= maxFd'
    BY <1>1, <1>4, <1>5 DEF IInv, Pool
  <2>2. \A j \in Stdio : fds'[j].flags.isdev => maxFd' >= 3
    BY <1>1, <1>5, <1>6 DEF IInv, Pool
  <2>3. \A j \in Stdio : fds'[j].dev # NoDev
    BY <1>1, <1>6 DEF IInv, Pool
  <2>4. \A j \in Fds : fds'[j].dev = NoDev => fds'[j].flags = NoFlags
    BY <1>1 DEF IInv, Pool
  <2>. QED BY <2>1, <2>2, <2>3, <2>4 DEF Pool
<1>8. LockOrder'
  <2>1. phase' # "main" => \A j \in Fds : ~fds'[j].flags.excl
    BY <1>1 DEF IInv, LockOrder
  <2>2. ASSUME NEW k \in Fds, NEW j \in Fds, fds'[k].flags.excl, fds'[j].dev = fds'[k].dev
        PROVE  k <= j
    BY <1>1, <1>4, <2>2 DEF IInv, LockOrder
  <2>. QED BY <2>1, <2>2 DEF LockOrder
<1>. QED BY <1>2, <1>3, <1>7, <1>8 DEF IInv

\* The same for a step that leaves the entries alone.
LEMMA SameEntriesIInv ==
  ASSUME IInv, fds' = fds,
         devs' \subseteq {"null", "console"}, mounts' \subseteq {"hostfs"},
         phase' \in {"init", "stdout", "stdin", "stderr", "main"},
         phase = "main" => phase' = "main",
         hostOpen' \subseteq Handles,
         maxFd' \in -1 .. MaxFd - 1, maxFd' >= maxFd
  PROVE  IInv'
<1>1. maxFd \in Int /\ maxFd' \in Int /\ \A j \in Fds : j \in Int
  BY FilesAssumption DEF IInv, TypeOK, Fds
<1>2. Stdio \subseteq Fds /\ \A j \in Stdio : j \in Int
  BY FilesAssumption DEF Stdio, Fds
<1>3. TypeOK' /\ Kinds' /\ LockOrder'
  BY DEF IInv, TypeOK, Devs, Kinds, LockOrder
<1>4. Pool'
  BY <1>1, <1>2 DEF IInv, Pool
<1>. QED BY <1>3, <1>4 DEF IInv

\* open() keeps it,
LEMMA OpenIInv ==
  ASSUME IInv, NEW name, NEW flags \in Flags, Open(name, flags)
  PROVE  IInv'
<1>1. PICK o \in OpenOutcomes(name, flags) :
        fds' = o.fds /\ maxFd' = o.max /\ hostOpen' = o.host
  BY DEF Open
<1>2. UNCHANGED <<devs, mounts, phase>> /\ phase = "main"
  BY DEF Open, Running
<1>3. devs' \subseteq {"null", "console"} /\ mounts' \subseteq {"hostfs"} /\ phase' = "main"
  BY <1>2 DEF IInv, Kinds
<1>4. CASE OpenRefused(o)
  <2>1. hostOpen' \subseteq Handles
    BY <1>1, <1>4 DEF OpenRefused, IInv, TypeOK
  <2>. QED BY <1>1, <1>3, <1>4, <2>1, SameEntriesIInv DEF OpenRefused
<1>5. ASSUME o.fd \in Fds, OpenedAt(o, o.fd)
      PROVE  IInv'
  <2> DEFINE i == o.fd
  <2>1. /\ fds' = [fds EXCEPT ![i] = fds'[i]] /\ fds'[i] \in Entry
        /\ fds'[i].dev # NoDev /\ ~fds'[i].flags.excl
        /\ fds'[i].dev = "hostfs" => ~fds'[i].flags.isdev
        /\ maxFd' \in -1 .. MaxFd - 1 /\ maxFd' >= maxFd /\ maxFd' >= i
        /\ hostOpen' \subseteq Handles /\ i > 2
        /\ \A j \in Fds : fds[j].flags.excl => fds[j].dev # fds'[i].dev
    BY <1>1, <1>5 DEF OpenedAt
  <2>2. i \notin Stdio /\ i \in Fds /\ i <= maxFd'
    BY <1>5, <2>1, FilesAssumption DEF Stdio, Fds
  <2> HIDE DEF i
  <2>. QED BY <1>3, <2>1, <2>2, OneEntryIInv
<1>. QED BY <1>1, <1>4, <1>5, OpenEffect

\* a redirection keeps it,
LEMMA RedirectIInv ==
  ASSUME IInv, Redirect
  PROVE  IInv'
<1> DEFINE flags == [NoFlags EXCEPT !.mode = StreamMode[phase]]
           s == Stream[phase]
<1>1. phase \in DOMAIN Stream /\ s \in Stdio /\ phase' = After[phase]
  BY DEF Redirect, Stream, Stdio
<1>2. flags \in Flags
  <2>1. StreamMode[phase] \in {"r", "w"}
    BY <1>1 DEF StreamMode, Stream
  <2>. QED BY <2>1 DEF NoFlags, Flags
<1>3. PICK o \in OpenOutcomes(Path["console"], flags) :
        /\ fds' = IF o.err = "ok"
                  THEN ReleaseFd([o.fds EXCEPT ![s] = o.fds[o.fd]], o.fd)
                  ELSE o.fds
        /\ maxFd' = o.max /\ hostOpen' = o.host
  BY DEF Redirect
<1>4. /\ devs' \subseteq {"null", "console"} /\ mounts' \subseteq {"hostfs"}
      /\ phase' \in {"init", "stdout", "stdin", "stderr", "main"} /\ phase # "main"
  BY <1>1 DEF Redirect, IInv, Kinds, After, Stream
<1> HIDE DEF flags, s
<1>5. CASE o.err # "ok" /\ OpenRefused(o)
  <2>1. hostOpen' \subseteq Handles /\ fds' = fds
    BY <1>3, <1>5 DEF OpenRefused, IInv, TypeOK
  <2>. QED BY <1>3, <1>4, <1>5, <2>1, SameEntriesIInv DEF OpenRefused
<1>6. ASSUME o.err = "ok", o.fd \in Fds, OpenedAt(o, o.fd)
      PROVE  IInv'
  <2> DEFINE i == o.fd
             e == o.fds[i]
  <2>1. /\ e \in Entry /\ e.dev # NoDev /\ ~e.flags.excl
        /\ e.dev = "hostfs" => ~e.flags.isdev
        /\ o.fds = [fds EXCEPT ![i] = e]
        /\ maxFd' \in -1 .. MaxFd - 1 /\ maxFd' >= maxFd /\ maxFd' >= i
        /\ hostOpen' \subseteq Handles /\ i > 2 /\ i \in Fds
    BY <1>3, <1>6 DEF OpenedAt
  <2> HIDE DEF i, e
  <2>2. Stdio \subseteq Fds /\ s \in Fds /\ i \in Int /\ s # i /\ s \in Int
    BY <1>1, <2>1, FilesAssumption DEF Stdio, Fds
  <2> DEFINE free == [dev |-> NoDev, priv |-> e.priv, flags |-> NoFlags]
  <2>3. free \in Entry
    BY <2>1 DEF Entry, NoFlags, Flags
  <2>4. fds' = [[fds EXCEPT ![i] = free] EXCEPT ![s] = e]
    <3>1. fds' = ReleaseFd([[fds EXCEPT ![i] = e] EXCEPT ![s] = e], i)
      BY <1>3, <1>6, <2>1 DEF i, e
    <3>2. e = [dev |-> e.dev, priv |-> e.priv, flags |-> e.flags]
      BY <2>1 DEF Entry
    <3>. QED BY <2>1, <2>2, <3>1, <3>2 DEF ReleaseFd, IInv, TypeOK
  <2>5. /\ fds' \in [Fds -> Entry] /\ fds'[s] = e /\ fds'[i] = free
        /\ \A j \in Fds \ {s, i} : fds'[j] = fds[j]
    BY <2>1, <2>2, <2>3, <2>4 DEF IInv, TypeOK
  <2>6. \A j \in Fds : ~fds'[j].flags.excl
    BY <1>4, <2>1, <2>5 DEF IInv, LockOrder, NoFlags
  <2>7. TypeOK'
    BY <1>4, <2>1, <2>5 DEF TypeOK, Devs
  <2>8. Kinds'
    BY <1>4, <2>1, <2>5, <2>6, FilesAssumption DEF Kinds, IInv
  <2>9. Pool'
    <3>1. maxFd \in Int /\ maxFd' \in Int /\ maxFd' >= 3 /\ \A j \in Fds : j \in Int
      BY <2>1, <2>2, FilesAssumption DEF IInv, TypeOK, Fds
    <3>2. \A j \in Fds : j > 2 /\ fds'[j].dev # NoDev => j <= maxFd'
      BY <1>1, <2>1, <2>2, <2>5, <3>1 DEF IInv, Pool, Stdio
    <3>3. \A j \in Stdio : j # i
      BY <2>1, <2>2 DEF Stdio
    <3>4. \A j \in Stdio : fds'[j].dev # NoDev
      BY <2>1, <2>2, <2>5, <3>3 DEF IInv, Pool
    <3>5. \A j \in Fds : fds'[j].dev = NoDev => fds'[j].flags = NoFlags
      BY <2>1, <2>5 DEF IInv, Pool
    <3>. QED BY <3>1, <3>2, <3>4, <3>5 DEF Pool
  <2>10. LockOrder'
    BY <2>6 DEF LockOrder
  <2>. QED BY <2>7, <2>8, <2>9, <2>10 DEF IInv
<1>. QED BY <1>2, <1>3, <1>5, <1>6, OpenEffect

\* close() keeps it,
LEMMA CloseIInv ==
  ASSUME IInv, NEW i \in Fds, Close(i)
  PROVE  IInv'
<1>1. /\ phase' = "main" /\ phase = "main" /\ maxFd' = maxFd /\ fds' = ReleaseFd(fds, i)
      /\ devs' \subseteq {"null", "console"} /\ mounts' \subseteq {"hostfs"}
      /\ hostOpen' \subseteq Handles
  <2>1. PICK err \in CloseAnswers(i) : hostOpen' \in HostAfterClose(i, err)
    BY DEF Close
  <2>2. hostOpen' \subseteq hostOpen
    BY <2>1 DEF HostAfterClose
  <2>. QED BY <2>2 DEF Close, InUse, Running, IInv, Kinds, TypeOK
<1>2. maxFd \in Int /\ maxFd \in -1 .. MaxFd - 1 /\ maxFd >= maxFd
  BY FilesAssumption DEF IInv, TypeOK
<1>3. CASE ~(i > 2)
  BY <1>1, <1>2, <1>3, SameEntriesIInv DEF ReleaseFd
<1>4. CASE i > 2
  <2>1. fds[i] \in Entry /\ fds' = [[fds EXCEPT ![i].flags = NoFlags] EXCEPT ![i].dev = NoDev]
    BY <1>1, <1>4 DEF ReleaseFd, IInv, TypeOK
  <2>2. fds'[i] = [dev |-> NoDev, priv |-> fds[i].priv, flags |-> NoFlags]
    BY <2>1 DEF Entry, IInv, TypeOK
  <2>3. fds' = [fds EXCEPT ![i] = fds'[i]]
    BY <2>1 DEF IInv, TypeOK
  <2>4. fds'[i] \in Entry /\ fds'[i].dev = NoDev /\ fds'[i].flags = NoFlags /\ ~fds'[i].flags.excl
    <3>1. NoFlags \in Flags /\ ~NoFlags.excl
      BY DEF NoFlags, Flags
    <3>2. fds[i].priv \in Handles \cup {NoHandle}
      BY <2>1 DEF Entry
    <3>. QED BY <2>2, <3>1, <3>2 DEF Entry
  <2>5. i \notin Stdio
    BY <1>4 DEF Stdio
  <2>6. \A j \in Fds : fds[j].flags.excl => fds[j].dev # NoDev
    BY DEF IInv, Pool, NoFlags
  <2>. QED BY <1>1, <1>2, <2>3, <2>4, <2>5, <2>6, FilesAssumption, OneEntryIInv
<1>. QED BY <1>3, <1>4

\* What is left changes at most the flags of one entry that is in use.
LEMMA FlagsIInv ==
  ASSUME IInv, NEW i \in Fds, NEW fl \in Flags, InUse(i),
         UNCHANGED <<devs, mounts, maxFd, hostOpen, phase>>,
         fds' = [fds EXCEPT ![i].flags = fl],
         fl.isdev = fds[i].flags.isdev,
         fl.excl => fl.isdev /\ \A j \in Fds : fds[j].dev = fds[i].dev => i <= j
  PROVE  IInv'
<1>1. fds[i] \in Entry /\ fds[i].dev # NoDev /\ phase = "main"
  BY DEF IInv, TypeOK, InUse, Running
<1>2. fds'[i] = [dev |-> fds[i].dev, priv |-> fds[i].priv, flags |-> fl]
  BY <1>1 DEF IInv, TypeOK, Entry
<1>3. fds'[i] \in Entry /\ fds' = [fds EXCEPT ![i] = fds'[i]]
  BY <1>1, <1>2 DEF IInv, TypeOK, Entry
<1>4. /\ devs' \subseteq {"null", "console"} /\ mounts' \subseteq {"hostfs"} /\ phase' = "main"
      /\ hostOpen' \subseteq Handles /\ maxFd' \in -1 .. MaxFd - 1 /\ maxFd' >= maxFd
  BY <1>1, FilesAssumption DEF IInv, Kinds, TypeOK
<1>5. /\ fds'[i].dev = "hostfs" => ~fds'[i].flags.isdev
      /\ i > 2 /\ fds'[i].dev # NoDev => i <= maxFd'
      /\ i \in Stdio => fds'[i].dev # NoDev /\ (fds'[i].flags.isdev => maxFd' >= 3)
  BY <1>1, <1>2 DEF IInv, Kinds, Pool
<1>6. \A j \in Fds : j # i /\ fds[j].flags.excl /\ fds[j].dev = fds'[i].dev => j <= i
  BY <1>2 DEF IInv, LockOrder
<1>7. /\ fds'[i].flags.excl => fds'[i].flags.isdev /\ phase' = "main"
      /\ fds'[i].dev = NoDev => fds'[i].flags = NoFlags
      /\ fds'[i].flags.excl => \A j \in Fds : fds[j].dev = fds'[i].dev => i <= j
  BY <1>1, <1>2, <1>4
<1>8. phase' \in {"init", "stdout", "stdin", "stderr", "main"}
  BY <1>4
<1>. QED BY <1>1, <1>3, <1>4, <1>5, <1>6, <1>7, <1>8, OneEntryIInv

\* so does a lock,
LEMMA LockIInv ==
  ASSUME IInv, NEW i \in Fds, InUse(i), fds[i].flags.isdev, FdLock(i),
         UNCHANGED <<devs, mounts, maxFd, hostOpen, phase>>
  PROVE  IInv'
<1>1. /\ fds[i] \in Entry /\ fds[i].flags \in Flags /\ fds[i].dev # NoDev /\ i \in Int
      /\ maxFd \in Int /\ maxFd \in -1 .. MaxFd - 1 /\ maxFd >= maxFd
  BY FilesAssumption DEF IInv, TypeOK, Entry, Fds, InUse
<1>2. CASE fds' = fds
  BY <1>1, <1>2, SameEntriesIInv DEF IInv, Kinds, TypeOK
<1>3. CASE /\ \A j \in Fds : j < maxFd /\ j # i => fds[j].dev # fds[i].dev
           /\ fds' = [fds EXCEPT ![i].flags.excl = TRUE]
  <2> DEFINE fl == [fds[i].flags EXCEPT !.excl = TRUE]
  <2>1. fl \in Flags /\ fl.isdev = fds[i].flags.isdev /\ fl.excl /\ fl.isdev
    BY <1>1 DEF Flags
  <2>2. fds' = [fds EXCEPT ![i].flags = fl]
    BY <1>1, <1>3
  <2>3. \A j \in Fds : fds[j].dev = fds[i].dev => i <= j
    <3>1. i <= maxFd
      BY <1>1, FilesAssumption DEF IInv, Pool, Stdio, Fds
    <3>. QED BY <1>1, <1>3, <3>1 DEF Fds
  <2> HIDE DEF fl
  <2>. QED BY <2>1, <2>2, <2>3, FlagsIInv
<1>. QED BY <1>2, <1>3 DEF FdLock

\* its release,
LEMMA UnlockIInv ==
  ASSUME IInv, NEW i \in Fds, InUse(i), FdUnlock(i),
         UNCHANGED <<devs, mounts, maxFd, hostOpen, phase>>
  PROVE  IInv'
<1> DEFINE fl == [fds[i].flags EXCEPT !.excl = FALSE]
<1>1. fds[i].flags \in Flags
  BY DEF IInv, TypeOK, Entry
<1>2. fl \in Flags /\ fl.isdev = fds[i].flags.isdev /\ ~fl.excl
  BY <1>1 DEF Flags
<1>3. fds' = [fds EXCEPT ![i].flags = fl]
  BY <1>1 DEF FdUnlock
<1> HIDE DEF fl
<1>. QED BY <1>2, <1>3, FlagsIInv

\* and fcntl().
LEMMA FcntlIInv ==
  ASSUME IInv, NEW i \in Fds, NEW nonblock \in BOOLEAN, Fcntl(i, nonblock)
  PROVE  IInv'
<1> DEFINE fl == [fds[i].flags EXCEPT !.nonblock = nonblock]
<1>1. fds[i].flags \in Flags /\ InUse(i) /\ UNCHANGED <<devs, mounts, maxFd, hostOpen, phase>>
  BY DEF IInv, TypeOK, Entry, Fcntl
<1>2. fl \in Flags /\ fl.isdev = fds[i].flags.isdev /\ fl.excl = fds[i].flags.excl
  BY <1>1 DEF Flags
<1>3. fds' = [fds EXCEPT ![i].flags = fl]
  BY <1>1 DEF Fcntl
<1>4. fl.excl => fl.isdev /\ \A j \in Fds : fds[j].dev = fds[i].dev => i <= j
  BY <1>2 DEF IInv, Kinds, LockOrder
<1> HIDE DEF fl
<1>. QED BY <1>1, <1>2, <1>3, <1>4, FlagsIInv

\* Every step keeps the invariant,
LEMMA NextIInv == IInv /\ [Next]_vars => IInv'
<1>. SUFFICES ASSUME IInv, [Next]_vars PROVE IInv'
  OBVIOUS
<1>0. /\ maxFd \in -1 .. MaxFd - 1 /\ maxFd >= maxFd /\ hostOpen \subseteq Handles
      /\ devs \subseteq {"null", "console"} /\ mounts \subseteq {"hostfs"}
      /\ phase \in {"init", "stdout", "stdin", "stderr", "main"}
  BY FilesAssumption DEF IInv, TypeOK, Kinds
<1>1. CASE UNCHANGED <<devs, mounts, fds, maxFd, hostOpen, phase>>
  BY <1>0, <1>1, SameEntriesIInv
<1>2. CASE RegisterConsole
  BY <1>0, <1>2, SameEntriesIInv DEF RegisterConsole
<1>3. CASE RegisterHostFs
  BY <1>0, <1>3, SameEntriesIInv DEF RegisterHostFs
<1>4. CASE Redirect
  BY <1>4, RedirectIInv
<1>5. ASSUME NEW name \in Names, NEW flags \in OpenFlags, Open(name, flags) PROVE IInv'
  BY <1>5, OpenIInv, FilesAssumption
<1>6. ASSUME NEW i \in Fds, Close(i) PROVE IInv'
  BY <1>6, CloseIInv
<1>7. ASSUME NEW i \in Fds, NEW req, Ioctl(i, req) PROVE IInv'
  <2>1. CASE fds[i].flags.isdev /\ FdLock(i)
    BY <1>7, <2>1, LockIInv DEF Ioctl
  <2>2. CASE FdUnlock(i)
    BY <1>7, <2>2, UnlockIInv DEF Ioctl
  <2>3. CASE fds' = fds
    BY <1>1, <1>7, <2>3 DEF Ioctl
  <2>. QED BY <1>7, <2>1, <2>2, <2>3 DEF Ioctl
<1>8. ASSUME NEW i \in Fds, NEW nonblock \in SetNonblock, Fcntl(i, nonblock) PROVE IInv'
  BY <1>8, FcntlIInv, FilesAssumption
<1>9. ASSUME NEW i \in Fds, Read(i) \/ Write(i) \/ Lseek(i) \/ Fstat(i) \/ Isatty(i)
      PROVE  IInv'
  BY <1>1, <1>9 DEF Read, Write, Lseek, Fstat, Isatty, Vectored
<1>10. CASE BadFd \/ UNCHANGED vars
  BY <1>1, <1>10 DEF BadFd, vars
<1>. QED BY <1>2, <1>3, <1>4, <1>5, <1>6, <1>7, <1>8, <1>9, <1>10 DEF Next

\* It always holds, for any devices and descriptors: what the theorems below rest on.
THEOREM Invariance == Spec => []IInv
BY InitIInv, NextIInv, PTL DEF Spec

\* The variables keep their types.
THEOREM TypeCorrect == Spec => []TypeOK
BY Invariance, PTL DEF IInv

\* Two descriptors never both hold the lock of a device, although the loop of
\* alt_fd_lock() leaves the highest descriptor out: the one that is left out
\* lies above the holder, and the loop sees the holder when it asks in turn.
THEOREM LockHolderUnique == Spec => []OneLockHolder
<1>1. IInv => OneLockHolder
  <2>1. SUFFICES ASSUME IInv, NEW i \in Fds, NEW j \in Fds,
                        fds[i].flags.excl, fds[j].flags.excl, fds[i].dev = fds[j].dev
                 PROVE  i = j
    BY DEF OneLockHolder
  <2>2. i <= j /\ j <= i /\ i \in Int /\ j \in Int
    BY <2>1, FilesAssumption DEF IInv, LockOrder, Fds
  <2>. QED BY <2>2
<1>. QED BY <1>1, Invariance, PTL

-----------------------------------------------------------------------------
\* What the calls do to the devices of the entries.

\* ioctl() and fcntl() leave the devices of the descriptors alone,
LEMMA FlagStepsKeepDevices ==
  ASSUME IInv, NEW i \in Fds, NEW req, NEW nonblock, Ioctl(i, req) \/ Fcntl(i, nonblock)
  PROVE  \A j \in Fds : fds'[j].dev = fds[j].dev
<1>1. fds \in [Fds -> Entry]
  BY DEF IInv, TypeOK
<1>2. CASE fds' = fds
  BY <1>2
<1>3. CASE \E b : fds' = [fds EXCEPT ![i].flags.excl = b]
  BY <1>1, <1>3 DEF Entry
<1>4. CASE fds' = [fds EXCEPT ![i].flags.nonblock = nonblock]
  BY <1>1, <1>4 DEF Entry
<1>. QED BY <1>2, <1>3, <1>4 DEF Ioctl, Fcntl, FdLock, FdUnlock

\* close() gives a descriptor no other device,
LEMMA CloseFrees ==
  ASSUME IInv, NEW i \in Fds, Close(i)
  PROVE  \A j \in Fds : fds'[j].dev = fds[j].dev \/ fds'[j].dev = NoDev
BY DEF IInv, TypeOK, Entry, Close, ReleaseFd

\* and open() gives none a device that is locked.
LEMMA OpenTakesUnlocked ==
  ASSUME IInv, NEW name, NEW flags \in Flags, Open(name, flags), NEW j \in Fds
  PROVE  \/ fds'[j].dev = fds[j].dev
         \/ \A i \in Fds : fds[i].flags.excl => fds[i].dev # fds'[j].dev
<1>1. PICK o \in OpenOutcomes(name, flags) : fds' = o.fds
  BY DEF Open
<1>2. CASE OpenRefused(o)
  BY <1>1, <1>2 DEF OpenRefused
<1>3. CASE o.fd \in Fds /\ OpenedAt(o, o.fd)
  BY <1>1, <1>3 DEF OpenedAt, IInv, TypeOK
<1>. QED BY <1>2, <1>3, OpenEffect

\* No step, and no open() in particular, makes another descriptor refer to a
\* device while its lock is held.
THEOREM LocksRespected == Spec => LockRespected
<1> DEFINE Kept == \A i, j \in Fds :
                     /\ fds[i].flags.excl
                     /\ fds[j].dev # fds[i].dev
                     => fds'[j].dev # fds[i].dev
<1>1. ASSUME IInv, Next PROVE Kept
  <2>0. \A i \in Fds : fds[i].flags.excl => fds[i].dev # NoDev
    BY <1>1 DEF IInv, Pool, NoFlags
  <2>1. CASE UNCHANGED fds
    BY <2>1
  <2>2. CASE Redirect
    BY <1>1, <2>2 DEF Redirect, Stream, IInv, LockOrder
  <2>3. ASSUME NEW name \in Names, NEW flags \in OpenFlags, Open(name, flags) PROVE Kept
    BY <1>1, <2>3, OpenTakesUnlocked, FilesAssumption
  <2>4. ASSUME NEW i \in Fds, Close(i) PROVE Kept
    BY <1>1, <2>0, <2>4, CloseFrees
  <2>5. ASSUME NEW i \in Fds, NEW req, Ioctl(i, req) PROVE Kept
    BY <1>1, <2>5, FlagStepsKeepDevices
  <2>6. ASSUME NEW i \in Fds, NEW nonblock, Fcntl(i, nonblock) PROVE Kept
    BY <1>1, <2>6, FlagStepsKeepDevices
  <2>7. ASSUME NEW i \in Fds, Read(i) \/ Write(i) \/ Lseek(i) \/ Fstat(i) \/ Isatty(i)
        PROVE  UNCHANGED fds
    BY <2>7 DEF Read, Write, Lseek, Fstat, Isatty, Vectored
  <2>8. RegisterConsole \/ RegisterHostFs \/ BadFd => UNCHANGED fds
    BY DEF RegisterConsole, RegisterHostFs, BadFd
  <2>. QED BY <1>1, <2>1, <2>2, <2>3, <2>4, <2>5, <2>6, <2>7, <2>8 DEF Next
<1>2. IInv /\ [Next]_vars => [Kept]_vars
  BY <1>1
<1>. QED BY <1>2, Invariance, PTL DEF Spec, LockRespected

\* The calls have not begun before main().
BootQuiet == phase # "main" => ret.call = "other"

\* Before main() no call of the program returns.
LEMMA BootQuietInv == Spec => []BootQuiet
<1>1. Init => BootQuiet
  BY DEF Init, BootQuiet
<1>2. BootQuiet /\ [Next]_vars => BootQuiet'
  <2>. SUFFICES ASSUME BootQuiet, [Next]_vars, phase' # "main" PROVE ret'.call = "other"
    BY DEF BootQuiet
  <2>1. CASE UNCHANGED <<ret, phase>>
    BY <2>1 DEF BootQuiet
  <2>2. CASE RegisterConsole \/ RegisterHostFs \/ Redirect
    BY <2>2 DEF BootQuiet, RegisterConsole, RegisterHostFs, Redirect, Stream
  <2>3. CASE phase' = phase /\ Running
    BY <2>3 DEF Running
  <2>4. ASSUME NEW name, NEW flags, Open(name, flags) PROVE phase' = phase /\ Running
    BY <2>4 DEF Open
  <2>5. ASSUME NEW i \in Fds, NEW req, NEW nonblock,
               \/ Close(i) \/ Ioctl(i, req) \/ Fcntl(i, nonblock)
               \/ Read(i) \/ Write(i) \/ Lseek(i) \/ Fstat(i) \/ Isatty(i)
        PROVE  phase' = phase /\ Running
    BY <2>5 DEF Close, Ioctl, Fcntl, Read, Write, Lseek, Fstat, Isatty, Vectored, InUse
  <2>6. BadFd => phase' = phase /\ Running
    BY DEF BadFd
  <2>. QED BY <2>1, <2>2, <2>3, <2>4, <2>5, <2>6 DEF Next, vars
<1>. QED BY <1>1, <1>2, PTL DEF Spec

\* A failed open() gives its entry back as it was, and the streams stay open.
THEOREM PoolIsKept == Spec => PoolKept
<1> DEFINE Kept == /\ ret'.call = "open" /\ ret'.err # "ok" => \A i \in Fds : fds'[i] = fds[i]
                   /\ \A i \in Stdio : fds'[i].dev # NoDev
<1>1. ASSUME IInv, BootQuiet, Next PROVE Kept
  <2>1. IInv'
    BY <1>1, NextIInv
  <2>2. \A i \in Stdio : fds'[i].dev # NoDev
    BY <2>1 DEF IInv, Pool
  <2>3. CASE ret'.call = "other" \/ ret'.call = "close" \/ UNCHANGED fds
    BY <2>2, <2>3
  <2>4. ASSUME NEW name \in Names, NEW flags \in OpenFlags, Open(name, flags) PROVE Kept
    <3>1. PICK o \in OpenOutcomes(name, flags) :
            fds' = o.fds /\ ret' = [call |-> "open", err |-> o.err]
      BY <2>4 DEF Open, Returned
    <3>2. o.err = "ok" \/ OpenRefused(o)
      BY <1>1, OpenEffect, FilesAssumption
    <3>. QED BY <2>2, <3>1, <3>2 DEF OpenRefused
  <2>5. CASE Redirect
    BY <1>1, <2>3, <2>5 DEF Redirect, BootQuiet, Stream
  <2>6. ASSUME NEW i \in Fds, NEW req, NEW nonblock,
               \/ Close(i) \/ Ioctl(i, req) \/ Fcntl(i, nonblock)
               \/ Read(i) \/ Write(i) \/ Lseek(i) \/ Fstat(i) \/ Isatty(i)
        PROVE  ret'.call = "other" \/ ret'.call = "close"
    BY <2>6 DEF Close, Ioctl, Fcntl, FdLock, FdUnlock, Read, Write, Lseek, Fstat, Isatty,
                Vectored, Returned
  <2>7. RegisterConsole \/ RegisterHostFs \/ BadFd => UNCHANGED fds
    BY DEF RegisterConsole, RegisterHostFs, BadFd
  <2>. QED BY <1>1, <2>3, <2>4, <2>5, <2>6, <2>7 DEF Next
<1>2. IInv /\ BootQuiet /\ [Next]_vars => [Kept]_vars
  BY <1>1
<1>. QED BY <1>2, Invariance, BootQuietInv, PTL DEF Spec, PoolKept

-----------------------------------------------------------------------------
\* The handles of the host.

\* The file of a descriptor is open and its own.  The standard streams never belong to
\* a file of the host, since the console has been there before they are redirected: to
\* take over an entry, or to free one, does not lose a file.
Owned ==
  /\ \A i \in Fds : fds[i].dev = "hostfs" => fds[i].priv \in hostOpen
  /\ \A i, j \in Fds :
       fds[i].dev = "hostfs" /\ fds[j].dev = "hostfs" /\ fds[i].priv = fds[j].priv => i = j
  /\ \A i \in Stdio : fds[i].dev # "hostfs"
  /\ phase # "init" => "console" \in devs

\* A file that a step leaves without a descriptor had none before.
Referred == {fds[i].priv : i \in {j \in Fds : fds[j].dev = "hostfs"}}
NothingLost == hostOpen' \subseteq Referred' \cup (hostOpen \ Referred)
CloseRefused == ret' = [call |-> "close", err |-> "EHOST"]

\* Before the first call no descriptor has a handle.
LEMMA InitOwned == Init => Owned
<1> SUFFICES ASSUME Init PROVE Owned
  OBVIOUS
<1>1. \A i \in Fds : fds[i].dev # "hostfs"
  BY FilesAssumption DEF Init
<1>2. Stdio \subseteq Fds
  BY FilesAssumption DEF Stdio, Fds
<1>. QED BY <1>1, <1>2 DEF Init, Owned

\* A step that touches neither devices nor handles of the entries.
LEMMA SameOwned ==
  ASSUME Owned, hostOpen' = hostOpen,
         \A i \in Fds : fds'[i].dev = fds[i].dev /\ fds'[i].priv = fds[i].priv,
         phase' # "init" => "console" \in devs'
  PROVE  Owned' /\ NothingLost
<1>1. Stdio \subseteq Fds
  BY FilesAssumption DEF Stdio, Fds
<1>2. NothingLost
  <2>1. Referred' = Referred
    BY DEF Referred
  <2>. QED BY <2>1 DEF NothingLost
<1>. QED BY <1>1, <1>2 DEF Owned

\* open() takes an entry that no file of the host had, and gives it a handle that
\* nobody had.
LEMMA OpenOwned ==
  ASSUME IInv, Owned, NEW name, NEW flags \in Flags, Open(name, flags)
  PROVE  Owned' /\ NothingLost
<1>1. PICK o \in OpenOutcomes(name, flags) : fds' = o.fds /\ hostOpen' = o.host
  BY DEF Open
<1>2. UNCHANGED <<devs, phase>>
  BY DEF Open
<1>3. CASE OpenRefused(o)
  BY <1>1, <1>2, <1>3, SameOwned DEF OpenRefused, Owned
<1>4. ASSUME o.fd \in Fds, OpenedAt(o, o.fd)
      PROVE  Owned' /\ NothingLost
  <2> DEFINE i == o.fd
  <2>1. /\ i \in Fds /\ i > 2 /\ fds[i].dev = NoDev
        /\ \A j \in Fds : j # i => fds'[j] = fds[j]
        /\ IF fds'[i].dev = "hostfs"
           THEN fds'[i].priv \notin hostOpen /\ hostOpen' = hostOpen \cup {fds'[i].priv}
           ELSE hostOpen' = hostOpen
    BY <1>1, <1>4 DEF OpenedAt, IInv, TypeOK
  <2> HIDE DEF i
  <2>2. Stdio \subseteq Fds /\ \A j \in Stdio : j # i
    BY <2>1, FilesAssumption DEF Stdio, Fds
  <2>3. fds[i].dev # "hostfs"
    BY <2>1, FilesAssumption
  <2>4. \A j \in Fds : fds'[j].dev = "hostfs" => fds'[j].priv \in hostOpen'
    BY <2>1 DEF Owned
  <2>5. NothingLost
    <3>1. ASSUME NEW h \in Referred
          PROVE  h \in Referred'
      <4>1. PICK j \in Fds : fds[j].dev = "hostfs" /\ fds[j].priv = h
        BY DEF Referred
      <4>. QED BY <4>1, <2>1, <2>3 DEF Referred
    <3>2. \A h \in hostOpen' : h \in hostOpen \/ h \in Referred'
      BY <2>1 DEF Referred
    <3>. QED BY <3>1, <3>2 DEF NothingLost
  <2>6. ASSUME NEW j \in Fds, NEW k \in Fds, fds'[j].dev = "hostfs", fds'[k].dev = "hostfs",
               fds'[j].priv = fds'[k].priv
        PROVE  j = k
    BY <2>1, <2>6 DEF Owned
  <2>7. \A j \in Stdio : fds'[j].dev # "hostfs"
    BY <2>1, <2>2 DEF Owned
  <2>8. phase' # "init" => "console" \in devs'
    BY <1>2 DEF Owned
  <2>. QED BY <2>4, <2>5, <2>6, <2>7, <2>8 DEF Owned
<1>. QED BY <1>1, <1>3, <1>4, OpenEffect

\* Under its name the console is found as a device, so that the entry that is
\* filled in is not one of a file.
LEMMA ConsoleIsNoFile ==
  ASSUME IInv, Owned, phase # "init", NEW flags \in Flags,
         NEW o \in OpenOutcomes(Path["console"], flags), o.fd \in Fds, OpenedAt(o, o.fd)
  PROVE  o.fds[o.fd].dev # "hostfs"
<1> DEFINE found == FindDev(Path["console"])
           d == CHOOSE x \in found : TRUE
           lowest == {i \in Free(fds) : \A j \in Free(fds) : i <= j}
           i == CHOOSE x \in lowest : TRUE
<1>1. "console" \in found /\ found # {}
  BY DEF FindDev, Owned
<1>2. d \in found /\ d \in devs
  BY <1>1 DEF FindDev
<1>3. d # "hostfs" /\ "open" \notin Driver[d]
  <2>. HIDE DEF d
  <2>1. d \in {"null", "console"}
    BY <1>2 DEF IInv, Kinds
  <2>. QED BY <2>1 DEF Driver
<1>4. lowest # {} /\ o \in Allocated(d, FALSE, flags, i)
  <2>1. -1 \notin Fds
    BY FilesAssumption DEF Fds
  <2>2. o # Refused("EMFILE") /\ o # Refused("ENODEV")
    BY <2>1 DEF Refused
  <2>. QED BY <1>1, <2>2 DEF OpenOutcomes
<1>5. i \in lowest /\ i \in Fds
  BY <1>4 DEF Free
<1> HIDE DEF d, i, found, lowest
<1> DEFINE e == [dev |-> d, priv |-> fds[i].priv, flags |-> [UserFlags(flags) EXCEPT !.isdev = ~FALSE]]
           table == [fds EXCEPT ![i] = e]
<1>6. \/ o = OpenFailed(table, HighWater(i), i, "EACCES")
      \/ o = [fds |-> table, max |-> HighWater(i), host |-> hostOpen, fd |-> i, err |-> "ok"]
  BY <1>3, <1>4 DEF Allocated
<1> HIDE DEF e
<1>7. o.fd # -1
  BY FilesAssumption DEF Fds
<1>8. o.fds = table /\ o.fd = i
  <2>. HIDE DEF table
  <2>. QED BY <1>6, <1>7 DEF OpenFailed
<1>9. table[i] = e
  BY <1>5 DEF IInv, TypeOK
<1>10. e.dev = d
  BY DEF e
<1> HIDE DEF table
<1>. QED BY <1>3, <1>8, <1>9, <1>10

\* A redirection hands the handle of the new descriptor on to the standard one.
LEMMA RedirectOwned ==
  ASSUME IInv, Owned, Redirect
  PROVE  Owned' /\ NothingLost
<1> DEFINE flags == [NoFlags EXCEPT !.mode = StreamMode[phase]]
           s == Stream[phase]
<1>1. phase \in DOMAIN Stream /\ s \in Stdio /\ phase # "init" /\ UNCHANGED devs
  BY DEF Redirect, Stream, Stdio
<1>2. flags \in Flags
  <2>1. StreamMode[phase] \in {"r", "w"}
    BY <1>1 DEF StreamMode, Stream
  <2>. QED BY <2>1 DEF NoFlags, Flags
<1>3. PICK o \in OpenOutcomes(Path["console"], flags) :
        /\ fds' = IF o.err = "ok"
                  THEN ReleaseFd([o.fds EXCEPT ![s] = o.fds[o.fd]], o.fd)
                  ELSE o.fds
        /\ hostOpen' = o.host
  BY DEF Redirect
<1> HIDE DEF flags, s
<1>4. CASE o.err # "ok" /\ OpenRefused(o)
  BY <1>1, <1>3, <1>4, SameOwned DEF OpenRefused, Owned
<1>5. ASSUME o.err = "ok", o.fd \in Fds, OpenedAt(o, o.fd)
      PROVE  Owned' /\ NothingLost
  <2> DEFINE i == o.fd
             e == o.fds[i]
  <2>1. e.dev # "hostfs"
    BY <1>1, <1>2, <1>5, ConsoleIsNoFile
  <2>2. /\ i \in Fds /\ i > 2 /\ fds[i].dev = NoDev /\ e \in Entry
        /\ o.fds = [fds EXCEPT ![i] = e] /\ hostOpen' = hostOpen
    BY <1>3, <1>5, <2>1 DEF OpenedAt
  <2>3. fds' = ReleaseFd([[fds EXCEPT ![i] = e] EXCEPT ![s] = e], i)
    BY <1>3, <1>5, <2>2
  <2> HIDE DEF i, e
  <2>4. Stdio \subseteq Fds /\ s \in Fds /\ s # i
    BY <1>1, <2>2, FilesAssumption DEF Stdio, Fds
  <2>5. /\ fds'[i].dev = NoDev /\ fds'[s] = e
        /\ \A j \in Fds \ {s, i} : fds'[j] = fds[j]
    BY <2>2, <2>3, <2>4 DEF ReleaseFd, IInv, TypeOK, Entry
  <2>6. fds[s].dev # "hostfs" /\ fds[i].dev # "hostfs"
        /\ fds'[s].dev # "hostfs" /\ fds'[i].dev # "hostfs"
    BY <1>1, <2>1, <2>2, <2>5, FilesAssumption DEF Owned
  <2>7. \A j \in Fds : \/ fds'[j] = fds[j]
                       \/ fds[j].dev # "hostfs" /\ fds'[j].dev # "hostfs"
    BY <2>5, <2>6
  <2>8. "console" \in devs'
    BY <1>1 DEF Owned
  <2>9. NothingLost
    <3>1. ASSUME NEW h \in Referred
          PROVE  h \in Referred'
      <4>1. PICK j \in Fds : fds[j].dev = "hostfs" /\ fds[j].priv = h
        BY DEF Referred
      <4>. QED BY <4>1, <2>7 DEF Referred
    <3>. QED BY <3>1, <2>2 DEF NothingLost
  <2>10. \A j \in Fds : fds'[j].dev = "hostfs" => fds'[j].priv \in hostOpen'
    BY <2>2, <2>7 DEF Owned
  <2>11. ASSUME NEW j \in Fds, NEW k \in Fds, fds'[j].dev = "hostfs", fds'[k].dev = "hostfs",
                fds'[j].priv = fds'[k].priv
         PROVE  j = k
    BY <2>7, <2>11 DEF Owned
  <2>12. \A j \in Stdio : fds'[j].dev # "hostfs"
    BY <2>4, <2>7 DEF Owned
  <2>. QED BY <2>8, <2>9, <2>10, <2>11, <2>12 DEF Owned
<1>. QED BY <1>2, <1>3, <1>4, <1>5, OpenEffect

\* close() of a file frees its entry and forgets its handle, which no other entry has;
\* the host has closed the file or has answered an error.
LEMMA CloseOwned ==
  ASSUME IInv, Owned, NEW i \in Fds, Close(i)
  PROVE  Owned' /\ (NothingLost \/ CloseRefused)
<1>1. PICK err \in CloseAnswers(i) :
        ret' = [call |-> "close", err |-> err] /\ hostOpen' \in HostAfterClose(i, err)
  BY DEF Close, Returned
<1>2. UNCHANGED <<devs, phase>> /\ fds' = ReleaseFd(fds, i) /\ i \in Int
  BY FilesAssumption DEF Close, Fds
<1>3. CASE ~(i > 2)
  <2>1. fds[i].dev # "hostfs"
    BY <1>2, <1>3, FilesAssumption DEF Owned, Stdio, Fds
  <2>2. hostOpen' = hostOpen
    BY <1>1, <2>1 DEF HostAfterClose
  <2>. QED BY <1>2, <1>3, <2>2, SameOwned DEF ReleaseFd, Owned
<1>4. CASE i > 2
  <2>1. fds'[i].dev = NoDev /\ \A j \in Fds : j # i => fds'[j] = fds[j]
    BY <1>2, <1>4 DEF ReleaseFd, IInv, TypeOK, Entry
  <2>2. fds'[i].dev # "hostfs"
    BY <2>1, FilesAssumption
  <2>3. /\ hostOpen' \subseteq hostOpen
        /\ fds[i].dev # "hostfs" => hostOpen' = hostOpen
        /\ \A h \in hostOpen \ hostOpen' : h = fds[i].priv
        /\ err # "EHOST" /\ fds[i].dev = "hostfs" => fds[i].priv \notin hostOpen'
    BY <1>1 DEF HostAfterClose
  <2>4. \A j \in Fds : fds'[j].dev = "hostfs" => fds'[j].priv \in hostOpen'
    <3>1. ASSUME NEW j \in Fds, fds'[j].dev = "hostfs"
          PROVE  fds'[j].priv \in hostOpen'
      <4>1. j # i /\ fds'[j] = fds[j]
        BY <2>1, <2>2, <3>1
      <4>. QED BY <2>3, <3>1, <4>1 DEF Owned
    <3>. QED BY <3>1
  <2>5. ASSUME NEW j \in Fds, NEW k \in Fds, fds'[j].dev = "hostfs", fds'[k].dev = "hostfs",
               fds'[j].priv = fds'[k].priv
        PROVE  j = k
    BY <2>1, <2>2, <2>5 DEF Owned
  <2>6. \A j \in Stdio : fds'[j].dev # "hostfs"
    <3>1. Stdio \subseteq Fds
      BY FilesAssumption DEF Stdio, Fds
    <3>. QED BY <2>1, <2>2, <3>1 DEF Owned
  <2>7. phase' # "init" => "console" \in devs'
    BY <1>2 DEF Owned
  <2>8. CASE err = "EHOST"
    BY <1>1, <2>4, <2>5, <2>6, <2>7, <2>8 DEF Owned, CloseRefused
  <2>9. CASE err # "EHOST"
    <3>1. ASSUME NEW h \in hostOpen', h \in Referred
          PROVE  h \in Referred'
      <4>1. PICK j \in Fds : fds[j].dev = "hostfs" /\ fds[j].priv = h
        BY <3>1 DEF Referred
      <4>2. j # i
        BY <2>3, <2>9, <3>1, <4>1
      <4>. QED BY <2>1, <4>1, <4>2 DEF Referred
    <3>2. NothingLost
      BY <2>3, <3>1 DEF NothingLost
    <3>. QED BY <2>4, <2>5, <2>6, <2>7, <3>2 DEF Owned
  <2>. QED BY <2>8, <2>9
<1>. QED BY <1>3, <1>4

\* The calls that change flags keep the handles too.
LEMMA FlagStepsKeepHandles ==
  ASSUME IInv, NEW i \in Fds, NEW req, NEW nonblock, Ioctl(i, req) \/ Fcntl(i, nonblock)
  PROVE  \A j \in Fds : fds'[j].priv = fds[j].priv
<1>1. fds \in [Fds -> Entry]
  BY DEF IInv, TypeOK
<1>2. CASE fds' = fds
  BY <1>2
<1>3. CASE \E b : fds' = [fds EXCEPT ![i].flags.excl = b]
  BY <1>1, <1>3 DEF Entry
<1>4. CASE fds' = [fds EXCEPT ![i].flags.nonblock = nonblock]
  BY <1>1, <1>4 DEF Entry
<1>. QED BY <1>2, <1>3, <1>4 DEF Ioctl, Fcntl, FdLock, FdUnlock

\* Every step keeps the handles owned, and loses a file only if it reports it.
LEMMA NextOwned == IInv /\ Owned /\ [Next]_vars => Owned' /\ (NothingLost \/ CloseRefused)
<1> DEFINE Kept == Owned' /\ (NothingLost \/ CloseRefused)
<1>. SUFFICES ASSUME IInv, Owned, [Next]_vars PROVE Kept
  OBVIOUS
<1>1. CASE UNCHANGED <<devs, fds, hostOpen, phase>>
  BY <1>1, SameOwned DEF Owned
<1>2. CASE RegisterConsole \/ RegisterHostFs
  BY <1>2, SameOwned DEF RegisterConsole, RegisterHostFs, Owned
<1>3. CASE Redirect
  BY <1>3, RedirectOwned
<1>4. ASSUME NEW name \in Names, NEW flags \in OpenFlags, Open(name, flags) PROVE Kept
  BY <1>4, OpenOwned, FilesAssumption
<1>5. ASSUME NEW i \in Fds, Close(i) PROVE Kept
  BY <1>5, CloseOwned
<1>6. ASSUME NEW i \in Fds, NEW req, NEW nonblock, Ioctl(i, req) \/ Fcntl(i, nonblock)
      PROVE  Kept
  <2>1. UNCHANGED <<devs, hostOpen, phase>>
    BY <1>6 DEF Ioctl, Fcntl
  <2>. QED BY <1>6, <2>1, FlagStepsKeepDevices, FlagStepsKeepHandles, SameOwned DEF Owned
<1>7. ASSUME NEW i \in Fds, Read(i) \/ Write(i) \/ Lseek(i) \/ Fstat(i) \/ Isatty(i)
      PROVE  Kept
  BY <1>1, <1>7 DEF Read, Write, Lseek, Fstat, Isatty, Vectored
<1>8. CASE BadFd \/ UNCHANGED vars
  BY <1>1, <1>8 DEF BadFd, vars
<1>. QED BY <1>2, <1>3, <1>4, <1>5, <1>6, <1>7, <1>8 DEF Next

\* For every size of the pool and any files of the host, each descriptor of a file of
\* the host has one of its own that the host has open, over all orders of opens and
\* closes, the failing ones included: no call uses a file after it was closed.
THEOREM HandlesAreOwned == Spec => []HandlesOwned
<1>1. Spec => []Owned
  BY InitOwned, NextOwned, Invariance, PTL DEF Spec
<1>2. Owned => HandlesOwned
  BY DEF Owned, HandlesOwned
<1>. QED BY <1>1, <1>2, PTL

\* For every size of the pool and any files of the host, a file that the host has open
\* loses its descriptor only by a close() that returns the host's error.
THEOREM LossIsReported == Spec => LossReported
<1> DEFINE Step == Orphans' \subseteq Orphans \/ ret' = [call |-> "close", err |-> "EHOST"]
<1>1. Spec => []Owned
  BY InitOwned, NextOwned, Invariance, PTL DEF Spec
<1>2. NothingLost => Orphans' \subseteq Orphans
  BY DEF NothingLost, Orphans, Referred
<1>3. IInv /\ Owned /\ [Next]_vars => [Step]_vars
  BY <1>2, NextOwned DEF CloseRefused
<1>. QED BY <1>1, <1>3, Invariance, PTL DEF Spec, LossReported
=============================================================================
