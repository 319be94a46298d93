------------------------- MODULE SocketListerProofs -------------------------
(***************************************************************************)
(* Proofs about module SocketLister, for any number of processes,          *)
(* descriptors and connections and any number of changes under the scan.   *)
(***************************************************************************)
EXTENDS SocketLister, TLAPS

\* A program that is about to start satisfies the invariant.
LEMMA InitInv ==
    ASSUME Init
    PROVE  ScanInv
<1>1. TypeOK
    <2>1. fds \in [Pids -> [Slots -> Contents]] BY ListerAssumption DEF Init
    <2>2. /\ changes \in 0 .. MaxChanges /\ held \subseteq Pids \X Sockets
          /\ steady \subseteq Pids \X Slots /\ lingering \subseteq Sockets
        BY ListerAssumption DEF Init, HeldIn
    <2>3. /\ at \in {"tcp", "done"} /\ ptr \in Pids \cup {0} /\ ended \in BOOLEAN
        BY DEF Init
    <2>. QED BY <2>1, <2>2, <2>3 DEF Init, TypeOK
<1>2. OwnerHeld BY DEF Init, OwnerHeld
<1>3. ScanOK BY DEF Init, ScanOK, Scanned
<1>4. SeenOK BY DEF Init, SeenOK
<1>5. CrashNeedsCause BY DEF Init, CrashNeedsCause
<1>. QED BY <1>1, <1>2, <1>3, <1>4, <1>5 DEF ScanInv

-----------------------------------------------------------------------------
(* The processes *)

\* A change of the descriptors, seen from the program.
LEMMA BecomeInv ==
    ASSUME ScanInv, NEW f \in [Pids -> [Slots -> Contents]], Become(f), Running,
           cmd' \in [Pids -> Cmds \cup {Gone}],
           UNCHANGED <<scan, at, todo, entries, out>>, ended' \in BOOLEAN,
           \A p \in Pids : cmd'[p] = Gone => \A s \in Slots : f[p][s] = Closed,
           ended' \/ (~ended /\ Live \subseteq Live')
    PROVE  ScanInv'
<1>1. TypeOK' 
    <2>1. lingering' \subseteq Sockets BY DEF ScanInv, TypeOK, Become
    <2>2. changes' \in 0 .. MaxChanges
        BY ListerAssumption DEF ScanInv, TypeOK, Become, Running
    <2>3. held' \subseteq Pids \X Sockets /\ steady' \subseteq Pids \X Slots /\ fds' = f
        BY DEF ScanInv, TypeOK, Become, HeldIn
    <2>. QED BY <2>1, <2>2, <2>3 DEF ScanInv, TypeOK, scan
<1>2. held \subseteq held' BY DEF Become
<1>3. OwnerHeld' BY <1>2 DEF ScanInv, OwnerHeld, scan
<1>4. ScanOK'
    <2>1. \A x \in steady' : x \in steady /\ fds'[x[1]][x[2]] = fds[x[1]][x[2]] BY DEF Become
    <2>2. \A p, s : Ahead(p, s)' <=> Ahead(p, s) BY DEF Ahead, scan
    <2>3. Scanned' <=> Scanned BY DEF Scanned, scan
    <2>4. \A x \in steady' : cmd'[x[1]] \in Private => cmd[x[1]] \in Private BY DEF Become
    <2>5. at' = "links" => \A x \in steady' : x[1] = ptr' => cmd'[ptr'] \notin Private
        BY <2>1, <2>4 DEF ScanInv, ScanOK, scan
    <2>. QED BY <2>1, <2>2, <2>3, <2>5 DEF ScanInv, ScanOK, scan
<1>5. SeenOK'
    <2>1. HeldIn(fds)' \subseteq held' /\ fds' = f BY DEF Become, HeldIn, Holders
    <2>. QED BY <2>1 DEF ScanInv, SeenOK, scan
<1>6. CrashNeedsCause' BY DEF CrashNeedsCause, Running
<1>. QED BY <1>1, <1>3, <1>4, <1>5, <1>6 DEF ScanInv

\* Whatever a process does under the scan keeps the invariant.
LEMMA ProcessesInv ==
    ASSUME ScanInv, Processes
    PROVE  ScanInv'
<1>0. TypeOK /\ \A p \in Pids : cmd[p] = Gone => \A s \in Slots : fds[p][s] = Closed
    BY DEF ScanInv, SeenOK
<1>1. ASSUME NEW p \in Pids, NEW s \in Slots, Close(p, s) PROVE ScanInv'
    <2>. DEFINE f == [fds EXCEPT ![p][s] = Closed]
    <2>1. f \in [Pids -> [Slots -> Contents]] BY <1>0 DEF TypeOK, Contents
    <2>2. \A q \in Pids : cmd'[q] = Gone => \A t \in Slots : f[q][t] = Closed
        BY <1>0, <1>1 DEF TypeOK, Close
    <2>3. Live' = Live /\ cmd' = cmd /\ ended' = ended BY <1>1 DEF Live, Close
    <2>5. Become(f) /\ Running /\ UNCHANGED <<scan, at, todo, entries, out>>
        BY <1>1 DEF Close
    <2>6. ended \in BOOLEAN /\ cmd' \in [Pids -> Cmds \cup {Gone}] BY <1>0, <2>3 DEF TypeOK
    <2>. HIDE DEF f
    <2>. QED BY <2>1, <2>2, <2>3, <2>5, <2>6, BecomeInv
<1>2. ASSUME NEW p \in Pids, NEW s \in Slots, NEW q \in Pids, NEW t \in Slots, Pass(p, s, q, t)
      PROVE  ScanInv'
    <2>. DEFINE f == [fds EXCEPT ![q][t] = fds[p][s]]
    <2>1. f \in [Pids -> [Slots -> Contents]] BY <1>0 DEF TypeOK, Contents
    <2>2. \A k \in Pids : cmd'[k] = Gone => \A u \in Slots : f[k][u] = Closed
        BY <1>0, <1>2 DEF TypeOK, Pass, Live
    <2>3. Live' = Live /\ cmd' = cmd /\ ended' = ended BY <1>2 DEF Live, Pass
    <2>5. Become(f) /\ Running /\ UNCHANGED <<scan, at, todo, entries, out>>
        BY <1>2 DEF Pass
    <2>6. ended \in BOOLEAN /\ cmd' \in [Pids -> Cmds \cup {Gone}] BY <1>0, <2>3 DEF TypeOK
    <2>. HIDE DEF f
    <2>. QED BY <2>1, <2>2, <2>3, <2>5, <2>6, BecomeInv
<1>3. ASSUME NEW p \in Pids, NEW q \in Pids, Fork(p, q) PROVE ScanInv'
    <2>. DEFINE f == [fds EXCEPT ![q] = fds[p]]
    <2>1. f \in [Pids -> [Slots -> Contents]] BY <1>0 DEF TypeOK
    <2>2. cmd' \in [Pids -> Cmds \cup {Gone}] BY <1>0, <1>3 DEF TypeOK, Fork
    <2>3. \A k \in Pids : cmd'[k] = Gone => \A u \in Slots : f[k][u] = Closed
        BY <1>0, <1>3 DEF TypeOK, Fork, Live
    <2>4. Live \subseteq Live' /\ ended' = ended BY <1>0, <1>3 DEF Live, Fork, TypeOK
    <2>5. Become(f) /\ Running /\ UNCHANGED <<scan, at, todo, entries, out>>
        BY <1>3 DEF Fork
    <2>6. ended \in BOOLEAN /\ cmd' \in [Pids -> Cmds \cup {Gone}] BY <1>0, <2>2 DEF TypeOK
    <2>. HIDE DEF f
    <2>. QED BY <2>1, <2>2, <2>3, <2>4, <2>5, <2>6, BecomeInv
<1>4. ASSUME NEW p \in Pids, NEW c \in Cmds, Exec(p, c) PROVE ScanInv'
    <2>1. cmd' \in [Pids -> Cmds \cup {Gone}] BY <1>0, <1>4 DEF TypeOK, Exec
    <2>2. \A k \in Pids : cmd'[k] = Gone => \A u \in Slots : fds[k][u] = Closed
        BY <1>0, <1>4, ListerAssumption DEF TypeOK, Exec, Live
    <2>3. Live \subseteq Live' /\ ended' = ended
        BY <1>0, <1>4, ListerAssumption DEF Live, Exec, TypeOK
    <2>. QED BY <2>1, <2>2, <2>3, <1>0, <1>4, BecomeInv DEF Exec, TypeOK
<1>5. ASSUME NEW p \in Pids, Exit(p) PROVE ScanInv'
    <2>. DEFINE f == [fds EXCEPT ![p] = [s \in Slots |-> Closed]]
    <2>1. f \in [Pids -> [Slots -> Contents]] BY <1>0 DEF TypeOK, Contents
    <2>2. cmd' \in [Pids -> Cmds \cup {Gone}] BY <1>0, <1>5 DEF TypeOK, Exit
    <2>3. \A k \in Pids : cmd'[k] = Gone => \A u \in Slots : f[k][u] = Closed
        BY <1>0, <1>5 DEF TypeOK, Exit
    <2>. QED BY <2>1, <2>2, <2>3, <1>5, BecomeInv DEF Exit
<1>. QED BY <1>1, <1>2, <1>3, <1>4, <1>5 DEF Processes

-----------------------------------------------------------------------------
(* The program *)

\* The program dies.
LEMMA CrashInv ==
    ASSUME ScanInv, Crash,
           \/ ended \/ rows # found \/ ~({"tcp", "tcp6", "udp", "udp6"} \subseteq tables)
           \/ \E p \in Live : cmd[p] \in Private
           \/ \E r \in entries : pid[r] \in Live /\ Oversized(r, pid[r]),
           "?" \notin options
    PROVE  ScanInv'
<1>1. /\ at' = "crashed" /\ UNCHANGED <<procs, scan, todo, entries, out>> BY DEF Crash
<1>2. TypeOK' BY <1>1 DEF ScanInv, TypeOK, procs, scan
<1>3. OwnerHeld' BY <1>1 DEF ScanInv, OwnerHeld, procs, scan
<1>4. ScanOK' BY <1>1 DEF ScanInv, ScanOK, Ahead, Scanned, procs, scan
<1>5. SeenOK' BY <1>1 DEF ScanInv, SeenOK, Live, HeldIn, Holders, procs, scan
<1>6. CrashNeedsCause'
    <2>1. /\ Live' = Live /\ cmd' = cmd /\ pid' = pid /\ entries' = entries
          /\ ended' = ended /\ rows' = rows /\ found' = found /\ tables' = tables
        BY <1>1 DEF procs, scan, Live
    <2>. QED BY <2>1 DEF CrashNeedsCause, Oversized
<1>. QED BY <1>2, <1>3, <1>4, <1>5, <1>6 DEF ScanInv

\* Reading a table, or dying of a missing one.
LEMMA ParseInv ==
    ASSUME ScanInv, parse_protocol
    PROVE  ScanInv'
<1>1. at \in {"tcp", "tcp6", "udp", "udp6"} BY DEF parse_protocol, After
<1>2. "?" \notin options BY <1>1 DEF ScanInv, ScanOK
<1>3. CASE at \notin tables BY <1>1, <1>2, <1>3, CrashInv DEF parse_protocol
<1>4. CASE at \in tables
    <2>. DEFINE shown == {r \in Sockets : Proto[r] = at}
                owned == {r \in shown : Holders(fds, r) # {}}
    <2>1. /\ rows' = rows \cup owned \cup (shown \cap lingering)
          /\ inodes' = inodes \cup owned
          /\ at' = After[at]
          /\ UNCHANGED <<procs, tables, options, proc_dir, ptr, fd_dir, buffer, pid, found, stale,
                         todo, entries, out>>
        BY <1>4 DEF parse_protocol
    <2>2. at' \in {"tcp6", "udp", "udp6", "opendir"} BY <1>1, <2>1 DEF After
    <2>. HIDE DEF shown, owned
    <2>3. owned \subseteq Sockets /\ shown \subseteq Sockets BY DEF owned, shown
    <2>4. TypeOK' BY <2>1, <2>2, <2>3 DEF ScanInv, TypeOK, procs
    <2>5. OwnerHeld' BY <2>1 DEF ScanInv, OwnerHeld, procs
    <2>6. ScanOK' BY <1>2, <2>1, <2>2 DEF ScanOK, Ahead, Scanned, procs
    <2>7. SeenOK' BY <1>1, <2>1, <2>2 DEF ScanInv, SeenOK, Live, HeldIn, Holders, procs
    <2>8. CrashNeedsCause' BY <2>2 DEF CrashNeedsCause
    <2>. QED BY <2>4, <2>5, <2>6, <2>7, <2>8 DEF ScanInv
<1>. QED BY <1>3, <1>4

\* A descriptor that refers to a socket belongs to a process that is there.
LEMMA HolderLives ==
    ASSUME ScanInv, NEW x \in steady, fds[x[1]][x[2]] \in inodes
    PROVE  /\ x[1] \in Pids /\ x[2] \in Slots /\ x = <<x[1], x[2]>>
           /\ fds[x[1]][x[2]] # Closed /\ x[1] \in Live
<1>1. x[1] \in Pids /\ x[2] \in Slots /\ x = <<x[1], x[2]>> BY DEF ScanInv, TypeOK
<1>2. fds[x[1]][x[2]] \in Sockets BY DEF ScanInv, TypeOK
<1>3. fds[x[1]][x[2]] # Closed BY <1>2, ListerAssumption
<1>. QED BY <1>1, <1>3 DEF ScanInv, SeenOK, Live

\* Listing /proc: every process that is there lies ahead.
LEMMA ReadProcInv ==
    ASSUME ScanInv, ReadProc
    PROVE  ScanInv'
<1>1. /\ at = "opendir" /\ at' = "procs" /\ proc_dir' = Live
      /\ UNCHANGED <<procs, tables, options, ptr, fd_dir, buffer, rows, inodes, pid, found, stale,
                     todo, entries, out>>
    BY DEF ReadProc
<1>2. TypeOK' BY <1>1 DEF ScanInv, TypeOK, procs, Live
<1>3. OwnerHeld' BY <1>1 DEF ScanInv, OwnerHeld, procs
<1>4. ScanOK'
    BY <1>1, HolderLives DEF ScanInv, ScanOK, Ahead, Scanned, procs
<1>5. SeenOK' BY <1>1 DEF ScanInv, SeenOK, Live, HeldIn, Holders, procs
<1>6. CrashNeedsCause' BY <1>1 DEF CrashNeedsCause
<1>. QED BY <1>2, <1>3, <1>4, <1>5, <1>6 DEF ScanInv

\* Opening the fd directory of the next process, or dying because it has ended.
LEMMA OpenFdsInv ==
    ASSUME ScanInv, OpenFds
    PROVE  ScanInv'
<1>1. PICK p \in Lowest(proc_dir) :
          IF p \notin Live \/ cmd[p] \in Private THEN Crash
          ELSE /\ proc_dir' = proc_dir \ {p}
               /\ ptr' = p
               /\ fd_dir' = {s \in Slots : fds[p][s] # Closed}
               /\ at' = "links"
               /\ UNCHANGED <<procs, tables, options, buffer, rows, inodes, pid, found, stale,
                              todo, entries, out>>
    BY DEF OpenFds
<1>2. at = "procs" /\ "?" \notin options BY DEF OpenFds, ScanInv, ScanOK
<1>3. p \in proc_dir /\ p \in Pids BY DEF Lowest, ScanInv, TypeOK
<1>4. CASE p \notin Live \/ cmd[p] \in Private
    <2>1. ended \/ \E q \in Live : cmd[q] \in Private BY <1>3, <1>4 DEF ScanInv, SeenOK
    <2>. QED BY <1>1, <1>2, <1>4, <2>1, CrashInv
<1>5. CASE p \in Live /\ cmd[p] \notin Private
    <2>1. /\ proc_dir' = proc_dir \ {p} /\ ptr' = p /\ at' = "links"
          /\ fd_dir' = {s \in Slots : fds[p][s] # Closed}
          /\ UNCHANGED <<procs, tables, options, buffer, rows, inodes, pid, found, stale,
                         todo, entries, out>>
        BY <1>1, <1>5
    <2>2. TypeOK' BY <1>3, <2>1 DEF ScanInv, TypeOK, procs
    <2>3. OwnerHeld' BY <2>1 DEF ScanInv, OwnerHeld, procs
    <2>4. ScanOK'
        <3>1. ASSUME NEW x \in steady, fds[x[1]][x[2]] \in inodes, fds[x[1]][x[2]] \notin found
              PROVE  x[1] \in proc_dir' \/ (x[1] = ptr' /\ x[2] \in fd_dir')
            <4>1. x[1] \in proc_dir BY <3>1, <1>2 DEF ScanInv, ScanOK, Ahead
            <4>. QED BY <4>1, <3>1, <2>1, HolderLives
        <3>. QED BY <3>1, <1>2, <1>5, <2>1 DEF ScanOK, Ahead, Scanned, procs
    <2>5. SeenOK' BY <1>3, <1>5, <2>1 DEF ScanInv, SeenOK, Live, HeldIn, Holders, procs
    <2>6. CrashNeedsCause' BY <2>1 DEF CrashNeedsCause
    <2>. QED BY <2>2, <2>3, <2>4, <2>5, <2>6 DEF ScanInv
<1>. QED BY <1>4, <1>5

\* Reading a link, of a descriptor that may be closed by now.
LEMMA ReadLinkInv ==
    ASSUME ScanInv, ReadLink
    PROVE  ScanInv'
<1>0. PICK s \in Lowest(fd_dir) : \E b \in LinkText(s) :
          /\ fd_dir' = fd_dir \ {s} /\ buffer' = b /\ pid' = Assign(b)
          /\ found' = found \cup ({b} \cap inodes)
          /\ stale' = IF Readable(ptr, s) THEN stale \ {b} ELSE stale \cup {b}
    BY DEF ReadLink
<1>1. PICK b \in LinkText(s) :
          /\ fd_dir' = fd_dir \ {s} /\ buffer' = b /\ pid' = Assign(b)
          /\ found' = found \cup ({b} \cap inodes)
          /\ stale' = IF Readable(ptr, s) THEN stale \ {b} ELSE stale \cup {b}
    BY <1>0
<1>2. /\ at = "links" /\ ptr \in Pids
      /\ UNCHANGED <<procs, tables, options, proc_dir, ptr, rows, inodes, at, todo, entries, out>>
    BY DEF ReadLink, ScanInv, SeenOK
<1>3. s \in fd_dir /\ s \in Slots BY DEF Lowest, ScanInv, TypeOK
<1>4. b \in Contents \cup {Junk} BY <1>2, <1>3 DEF LinkText, ScanInv, TypeOK
<1>5. /\ pid' \in [Sockets -> Pids \cup {0}]
      /\ \A r \in Sockets : pid'[r] = IF r = b /\ r \in inodes THEN ptr ELSE pid[r]
    BY <1>1, <1>2 DEF Assign, ScanInv, TypeOK
<1>6. TypeOK'
    <2>1. stale' \subseteq Contents \cup {Junk} BY <1>1, <1>4 DEF ScanInv, TypeOK
    <2>2. found' \subseteq inodes' BY <1>1, <1>2 DEF ScanInv, TypeOK
    <2>. QED BY <2>1, <2>2, <1>1, <1>2, <1>4, <1>5 DEF ScanInv, TypeOK, procs
<1>7. Readable(ptr, s) => b = fds[ptr][s] BY <1>1 DEF LinkText
<1>8. found \subseteq Sockets /\ inodes \subseteq Sockets BY DEF ScanInv, TypeOK
<1>9. OwnerHeld'
    <2>. SUFFICES ASSUME NEW r \in found', r \notin stale'
                  PROVE  <<pid'[r], r>> \in held
        BY <1>2 DEF OwnerHeld, procs
    <2>1. r \in Sockets BY <1>1, <1>8
    <2>2. CASE r = b
        <3>1. r \in inodes BY <2>2, <1>1 DEF ScanInv, TypeOK
        <3>2. fds[ptr][s] = r BY <2>2, <1>1, <1>7
        <3>3. <<ptr, r>> \in HeldIn(fds) BY <2>1, <3>2, <1>2, <1>3 DEF HeldIn, Holders
        <3>4. pid'[r] = ptr BY <2>1, <2>2, <3>1, <1>5
        <3>. QED BY <3>3, <3>4 DEF ScanInv, SeenOK
    <2>3. CASE r # b
        <3>1. r \in found /\ r \notin stale BY <2>3, <1>1
        <3>2. pid'[r] = pid[r] BY <2>1, <2>3, <1>5
        <3>. QED BY <3>1, <3>2 DEF ScanInv, OwnerHeld
    <2>. QED BY <2>2, <2>3
<1>10. ScanOK'
    <2>0. "?" \notin options BY <1>2 DEF ScanInv, ScanOK
    <2>1. ASSUME NEW x \in steady, fds[x[1]][x[2]] \in inodes, fds[x[1]][x[2]] \notin found'
          PROVE  x[1] \in proc_dir \/ (x[1] = ptr /\ x[2] \in fd_dir')
        <3>1. fds[x[1]][x[2]] \notin found BY <2>1, <1>1
        <3>2. x[1] \in proc_dir \/ (x[1] = ptr /\ x[2] \in fd_dir)
            BY <3>1, <2>0, <2>1, <1>2 DEF ScanInv, ScanOK, Ahead
        <3>3. ASSUME x[1] = ptr, x[2] = s PROVE FALSE
            <4>1. cmd[ptr] \notin Private BY <3>3, <1>2 DEF ScanInv, ScanOK
            <4>2. Readable(ptr, s) BY <3>3, <4>1, <2>1, HolderLives DEF Readable
            <4>. QED BY <4>2, <3>3, <2>1, <1>1, <1>7
        <3>. QED BY <3>2, <3>3, <1>1
    <2>2. \A x \in steady : x[1] = ptr => cmd[ptr] \notin Private BY <1>2 DEF ScanInv, ScanOK
    <2>. QED BY <2>0, <2>1, <2>2, <1>2 DEF ScanOK, Ahead, Scanned, procs
<1>11. SeenOK'
    <2>1. ended \/ ptr \in Live BY <1>2 DEF ScanInv, SeenOK
    <2>2. ended \/ \A r \in found' : pid'[r] \in Live
        <3>. SUFFICES ASSUME ~ended, NEW r \in found' PROVE pid'[r] \in Live OBVIOUS
        <3>1. r \in Sockets BY <1>1, <1>8
        <3>2. CASE r = b /\ r \in inodes BY <3>1, <3>2, <2>1, <1>5
        <3>3. CASE ~(r = b /\ r \in inodes)
            <4>1. r \in found /\ pid'[r] = pid[r] BY <3>1, <3>3, <1>1, <1>5
            <4>. QED BY <4>1 DEF ScanInv, SeenOK
        <3>. QED BY <3>2, <3>3
    <2>. QED BY <2>2, <1>2 DEF ScanInv, SeenOK, Live, HeldIn, Holders, procs
<1>12. CrashNeedsCause' BY <1>2 DEF CrashNeedsCause
<1>. QED BY <1>6, <1>9, <1>10, <1>11, <1>12 DEF ScanInv

\* A step that moves on and changes rows still to do, rows that pass or lines.
LEMMA MoveInv ==
    ASSUME ScanInv, UNCHANGED <<procs, scan>>, "?" \notin options,
           \/ at' = at
           \/ at = "links" /\ at' = "procs" /\ fd_dir = {}
           \/ at = "procs" /\ at' = "filter" /\ proc_dir = {}
           \/ at \in {"filter", "print"} /\ at' \in {"print", "done"},
           at # "crashed",
           todo' \subseteq rows, entries' \subseteq rows,
           at' = "print" => todo' \subseteq entries',
           out' \subseteq [row : Sockets, pid : Pids, cmd : Cmds \cup {Junk}]
    PROVE  ScanInv'
<1>1. TypeOK' BY DEF ScanInv, TypeOK, procs, scan
<1>2. OwnerHeld' BY DEF ScanInv, OwnerHeld, procs, scan
<1>3. ScanOK'
    <2>1. Scanned' => proc_dir = {} BY DEF ScanInv, ScanOK, Scanned, scan
    <2>2. \A p, s : Ahead(p, s) => Ahead(p, s)' BY DEF Ahead, scan
    <2>. QED BY <2>1, <2>2 DEF ScanInv, ScanOK, procs, scan
<1>4. SeenOK' BY DEF ScanInv, SeenOK, Live, HeldIn, Holders, procs, scan
<1>5. CrashNeedsCause' BY DEF CrashNeedsCause
<1>. QED BY <1>1, <1>2, <1>3, <1>4, <1>5 DEF ScanInv

\* The ends of the loops.
LEMMA EndInv ==
    ASSUME ScanInv, EndFds \/ EndProcs \/ EndFilter \/ EndPrint
    PROVE  ScanInv'
<1>1. todo \subseteq rows /\ entries \subseteq rows /\ out \subseteq [row : Sockets, pid : Pids, cmd : Cmds \cup {Junk}]
    BY DEF ScanInv, TypeOK
<1>2. ("?" \in options => at = "done") BY DEF ScanInv, ScanOK
<1>3. CASE EndFds BY <1>1, <1>2, <1>3, MoveInv DEF EndFds
<1>4. CASE EndProcs BY <1>1, <1>2, <1>4, MoveInv DEF EndProcs
<1>5. CASE EndFilter BY <1>1, <1>2, <1>5, MoveInv DEF EndFilter
<1>6. CASE EndPrint BY <1>1, <1>2, <1>6, MoveInv DEF EndPrint
<1>. QED BY <1>3, <1>4, <1>5, <1>6

\* A row whose owner is gone is a cause to die.
LEMMA RowCause ==
    ASSUME ScanInv, NEW r \in rows, pid[r] \notin Live
    PROVE  ended \/ rows # found
BY DEF ScanInv, SeenOK

\* Reading the command line of an owner, to filter.
LEMMA FilterInv ==
    ASSUME ScanInv, Filter
    PROVE  ScanInv'
<1>1. PICK r \in Due :
          IF pid[r] \notin Live THEN Crash
          ELSE /\ todo' = todo \ {r}
               /\ entries' = IF cmd[pid[r]] \in Matching THEN entries \cup {r} ELSE entries
               /\ UNCHANGED <<procs, scan, at, out>>
    BY DEF Filter
<1>2. at = "filter" /\ "?" \notin options BY DEF Filter, ScanInv, ScanOK
<1>3. r \in rows BY DEF Due, ScanInv, TypeOK
<1>4. CASE pid[r] \notin Live BY <1>1, <1>2, <1>3, <1>4, RowCause, CrashInv
<1>5. CASE pid[r] \in Live
    <2>1. todo' \subseteq rows /\ entries' \subseteq rows BY <1>1, <1>3, <1>5 DEF ScanInv, TypeOK
    <2>2. UNCHANGED <<procs, scan, at, out>> BY <1>1, <1>5
    <2>3. out' \subseteq [row : Sockets, pid : Pids, cmd : Cmds \cup {Junk}] BY <2>2 DEF ScanInv, TypeOK
    <2>. QED BY <2>1, <2>2, <2>3, <1>2, MoveInv
<1>. QED BY <1>4, <1>5

\* Reading it again, to print.
LEMMA PrintInv ==
    ASSUME ScanInv, print_entry
    PROVE  ScanInv'
<1>1. PICK r \in Due :
          IF pid[r] \notin Live THEN Crash
          ELSE \/ Oversized(r, pid[r]) /\ Crash
               \/ /\ todo' = todo \ {r}
                  /\ \E c \in Printed(r, pid[r]) :
                         out' = out \cup {[row |-> r, pid |-> pid[r], cmd |-> c]}
                  /\ UNCHANGED <<procs, scan, at, entries>>
    BY DEF print_entry
<1>2. at = "print" /\ "?" \notin options BY DEF print_entry, ScanInv, ScanOK
<1>3. r \in rows /\ r \in todo BY DEF Due, ScanInv, TypeOK
<1>4. CASE pid[r] \notin Live BY <1>1, <1>2, <1>3, <1>4, RowCause, CrashInv
<1>5. CASE pid[r] \in Live /\ Oversized(r, pid[r]) /\ Crash
    <2>1. r \in entries BY <1>2, <1>3 DEF ScanInv, SeenOK
    <2>. QED BY <1>2, <1>5, <2>1, CrashInv
<1>6. ASSUME pid[r] \in Live, NEW c \in Printed(r, pid[r]), todo' = todo \ {r},
             out' = out \cup {[row |-> r, pid |-> pid[r], cmd |-> c]},
             UNCHANGED <<procs, scan, at, entries>>
      PROVE  ScanInv'
    <2>1. todo' \subseteq rows BY <1>6 DEF ScanInv, TypeOK
    <2>2. r \in Sockets /\ pid[r] \in Pids /\ c \in Cmds \cup {Junk}
        BY <1>3, <1>6 DEF ScanInv, TypeOK, Live, Printed
    <2>3. out' \subseteq [row : Sockets, pid : Pids, cmd : Cmds \cup {Junk}]
        BY <2>2, <1>6 DEF ScanInv, TypeOK
    <2>4. entries' \subseteq rows BY <1>6 DEF ScanInv, TypeOK
    <2>5. todo' \subseteq entries' BY <1>2, <1>6 DEF ScanInv, SeenOK
    <2>. QED BY <2>1, <2>3, <2>4, <2>5, <1>2, <1>6, MoveInv
<1>. QED BY <1>1, <1>4, <1>5, <1>6

\* Every step keeps the invariant.
LEMMA StepInv ==
    ASSUME ScanInv, [Next]_vars
    PROVE  ScanInv'
<1>1. CASE Next
    BY <1>1, ProcessesInv, ParseInv, ReadProcInv, OpenFdsInv, ReadLinkInv, EndInv, FilterInv,
       PrintInv DEF Next
<1>2. CASE UNCHANGED vars
    <2>1. UNCHANGED <<procs, scan, at, todo, entries, out>> BY <1>2 DEF vars
    <2>2. TypeOK' BY <2>1 DEF ScanInv, TypeOK, procs, scan
    <2>3. OwnerHeld' BY <2>1 DEF ScanInv, OwnerHeld, procs, scan
    <2>4. ScanOK' BY <2>1 DEF ScanInv, ScanOK, Ahead, Scanned, procs, scan
    <2>5. SeenOK' BY <2>1 DEF ScanInv, SeenOK, Live, HeldIn, Holders, procs, scan
    <2>6. CrashNeedsCause'
        <3>1. Live' = Live BY <2>1 DEF procs, Live
        <3>. QED BY <2>1, <3>1 DEF ScanInv, CrashNeedsCause, Oversized, procs, scan
    <2>. QED BY <2>2, <2>3, <2>4, <2>5, <2>6 DEF ScanInv
<1>. QED BY <1>1, <1>2

-----------------------------------------------------------------------------
(* While nothing changes *)

\* Before anything is read.
LEMMA InitQuiet ==
    ASSUME Init
    PROVE  QuietOK
<1>. SUFFICES ASSUME Quiet PROVE QuietScan /\ QuietLines BY DEF QuietOK
<1>1. at = "tcp" BY DEF Init, Quiet
<1>2. TablesRead = {} BY <1>1 DEF TablesRead
<1>3. QuietScan BY <1>1, <1>2 DEF Init, QuietScan
<1>4. QuietLines BY <1>1 DEF Init, QuietLines
<1>. QED BY <1>3, <1>4

\* Every step of a process is a change.
LEMMA ProcessesQuiet ==
    ASSUME TypeOK, Processes
    PROVE  QuietOK'
<1>1. ASSUME NEW f, Become(f) PROVE changes' # 0
    BY <1>1, ListerAssumption DEF TypeOK, Become
<1>2. changes' # 0 BY <1>1 DEF Processes, Close, Pass, Fork, Exec, Exit
<1>. QED BY <1>2 DEF QuietOK, Quiet

\* What the program's own steps leave alone.
LEMMA ProcsSame ==
    ASSUME UNCHANGED procs
    PROVE  /\ Live' = Live /\ cmd' = cmd /\ fds' = fds /\ steady' = steady
           /\ changes' = changes /\ lingering' = lingering
           /\ \A r : Holders(fds, r)' = Holders(fds, r)
           /\ \A q, p : Printed(q, p)' = Printed(q, p)
BY DEF procs, Live, Holders, Printed, Oversized

\* A table lists what is held, and nothing else has an inode number.
LEMMA ParseQuiet ==
    ASSUME TypeOK, QuietOK, parse_protocol
    PROVE  QuietOK'
<1>. SUFFICES ASSUME Quiet' PROVE (QuietScan /\ QuietLines)' BY DEF QuietOK
<1>0. at \in {"tcp", "tcp6", "udp", "udp6"} BY DEF parse_protocol, After
<1>1. at \in tables BY DEF parse_protocol, Crash, Quiet
<1>. DEFINE shown == {r \in Sockets : Proto[r] = at}
            owned == {r \in shown : Holders(fds, r) # {}}
<1>2. /\ inodes' = inodes \cup owned
      /\ at' = After[at]
      /\ UNCHANGED <<procs, tables, options, proc_dir, ptr, fd_dir, buffer, pid, found, stale,
                     todo, entries, out>>
    BY <1>1 DEF parse_protocol
<1>3. at' \in {"tcp6", "udp", "udp6", "opendir"} BY <1>0, <1>2 DEF After
<1>4. TablesRead' = TablesRead \cup {at}
    BY <1>0, <1>2 DEF TablesRead, After
<1>5. QuietScan /\ QuietLines BY <1>0, <1>2, <1>3, ProcsSame DEF QuietOK, Quiet
<1>6. QuietScan'
    <2>1. inodes' = {r \in Sockets : Holders(fds, r) # {} /\ Proto[r] \in TablesRead'}
        BY <1>2, <1>4, <1>5 DEF QuietScan
    <2>2. \A p, s : Ahead(p, s)' BY <1>3 DEF Ahead
    <2>. QED BY <1>2, <1>3, <1>5, <2>1, <2>2, ProcsSame DEF QuietScan
<1>7. QuietLines'
    <2>1. out = {} /\ entries = {} BY <1>0, <1>5 DEF QuietLines
    <2>. QED BY <1>2, <1>3, <2>1 DEF QuietLines
<1>. QED BY <1>6, <1>7

\* Listing /proc: every holder lies ahead.
LEMMA ReadProcQuiet ==
    ASSUME ScanInv, QuietOK, ReadProc
    PROVE  QuietOK'
<1>. SUFFICES ASSUME Quiet' PROVE (QuietScan /\ QuietLines)' BY DEF QuietOK
<1>1. /\ at = "opendir" /\ at' = "procs" /\ proc_dir' = Live
      /\ UNCHANGED <<procs, tables, options, ptr, fd_dir, buffer, rows, inodes, pid, found, stale,
                     todo, entries, out>>
    BY DEF ReadProc
<1>2. QuietScan /\ QuietLines BY <1>1, ProcsSame DEF QuietOK, Quiet
<1>3. QuietScan'
    <2>1. TablesRead' = TablesRead BY <1>1 DEF TablesRead
    <2>2. \A p \in Pids, s \in Slots, r \in found : fds[p][s] = r => p \in Live
        BY ListerAssumption DEF ScanInv, TypeOK, SeenOK, Live
    <2>3. \A p \in Pids, s \in Slots, r \in found : fds[p][s] = r => Ahead(p, s)'
        BY <1>1, <2>2 DEF Ahead
    <2>4. /\ inodes' = {r \in Sockets : Holders(fds, r) # {} /\ Proto[r] \in TablesRead}
          /\ steady' = Pids \X Slots
          /\ \A r \in found : pid[r] \in Holders(fds, r)
        BY <1>1, <1>2, ProcsSame DEF QuietScan
    <2>. QED BY <1>1, <2>1, <2>3, <2>4, ProcsSame DEF QuietScan
<1>4. QuietLines' BY <1>1, <1>2 DEF QuietLines
<1>. QED BY <1>3, <1>4

\* The next process is the lowest of the rest, and the highest so far.
LEMMA OpenFdsQuiet ==
    ASSUME ScanInv, QuietOK, OpenFds
    PROVE  QuietOK'
<1>. SUFFICES ASSUME Quiet' PROVE (QuietScan /\ QuietLines)' BY DEF QuietOK
<1>1. PICK p \in Lowest(proc_dir) :
          IF p \notin Live \/ cmd[p] \in Private THEN Crash
          ELSE /\ proc_dir' = proc_dir \ {p}
               /\ ptr' = p
               /\ fd_dir' = {s \in Slots : fds[p][s] # Closed}
               /\ at' = "links"
               /\ UNCHANGED <<procs, tables, options, buffer, rows, inodes, pid, found, stale,
                              todo, entries, out>>
    BY DEF OpenFds
<1>2. p \in Live /\ cmd[p] \notin Private BY <1>1 DEF Crash, Quiet
<1>3. /\ at = "procs" /\ proc_dir' = proc_dir \ {p} /\ ptr' = p /\ at' = "links"
      /\ fd_dir' = {s \in Slots : fds[p][s] # Closed}
      /\ UNCHANGED <<procs, tables, options, buffer, rows, inodes, pid, found, stale,
                     todo, entries, out>>
    BY <1>1, <1>2 DEF OpenFds
<1>4. QuietScan /\ QuietLines /\ "?" \notin options BY <1>3, ProcsSame DEF QuietOK, Quiet
<1>5. p \in proc_dir /\ \A q \in proc_dir : p <= q BY DEF Lowest
<1>6. proc_dir \subseteq Pids /\ Live \subseteq Pids /\ p \in Nat
    BY <1>2, ListerAssumption DEF ScanInv, TypeOK, Live
<1>7. QuietScan'
    <2>1. TablesRead' = TablesRead BY <1>3 DEF TablesRead
    <2>2. \A k \in Live \ proc_dir' : (\A q \in proc_dir' : k <= q) /\ k <= p
        <3>. SUFFICES ASSUME NEW k \in Live, k \notin proc_dir'
                      PROVE  (\A q \in proc_dir' : k <= q) /\ k <= p
            OBVIOUS
        <3>1. CASE k = p BY <3>1, <1>3, <1>5, <1>6
        <3>2. CASE k # p BY <3>2, <1>3, <1>4, <1>5 DEF QuietScan
        <3>. QED BY <3>1, <3>2
    <2>3. \A k \in Pids, s \in Slots, r \in found : fds[k][s] = r /\ Ahead(k, s) => Ahead(k, s)'
        <3>. SUFFICES ASSUME NEW k \in Pids, NEW s \in Slots, fds[k][s] \in found, Ahead(k, s)
                      PROVE  Ahead(k, s)'
            OBVIOUS
        <3>1. k \in proc_dir BY <1>3, <1>4 DEF Ahead
        <3>2. fds[k][s] # Closed BY ListerAssumption DEF ScanInv, TypeOK
        <3>. QED BY <3>1, <3>2, <1>3 DEF Ahead
    <2>4. \A s \in fd_dir' : Readable(ptr, s)' BY <1>2, <1>3, ProcsSame DEF Readable
    <2>5. /\ inodes' = {r \in Sockets : Holders(fds, r) # {} /\ Proto[r] \in TablesRead}
          /\ steady' = Pids \X Slots
          /\ \A r \in found : /\ pid[r] \in Holders(fds, r)
                              /\ \A k \in Pids, s \in Slots :
                                     fds[k][s] = r /\ ~Ahead(k, s)' => k <= pid[r]
        BY <1>3, <1>4, <2>3, ProcsSame DEF QuietScan
    <2>. QED BY <1>3, <2>1, <2>2, <2>4, <2>5, ProcsSame DEF QuietScan
<1>8. QuietLines' BY <1>3, <1>4 DEF QuietLines
<1>. QED BY <1>7, <1>8

\* The link of an open descriptor names what it refers to: its connection is found, and
\* belongs to the process at hand, the highest visited so far.
LEMMA ReadLinkQuiet ==
    ASSUME ScanInv, QuietOK, ReadLink
    PROVE  QuietOK'
<1>. SUFFICES ASSUME Quiet' PROVE (QuietScan /\ QuietLines)' BY DEF QuietOK
<1>1. /\ at = "links" /\ at' = "links"
      /\ UNCHANGED <<procs, tables, options, proc_dir, ptr, rows, inodes, at, todo, entries, out>>
    BY DEF ReadLink
<1>2. QuietScan /\ QuietLines /\ "?" \notin options BY <1>1, ProcsSame DEF QuietOK, Quiet
<1>3. PICK s \in Lowest(fd_dir) : \E b \in LinkText(s) :
          fd_dir' = fd_dir \ {s} /\ pid' = Assign(b) /\ found' = found \cup ({b} \cap inodes)
    BY DEF ReadLink
<1>. DEFINE b == fds[ptr][s]
<1>4. /\ s \in fd_dir /\ s \in Slots /\ ptr \in Pids /\ ptr \in Live
    <2>1. s \in fd_dir /\ s \in Slots BY DEF Lowest, ScanInv, TypeOK
    <2>2. b # Closed BY <1>1, <1>2, <2>1 DEF QuietScan, Readable
    <2>. QED BY <1>1, <2>1, <2>2 DEF ScanInv, SeenOK, Live
<1>5. fd_dir' = fd_dir \ {s} /\ pid' = Assign(b) /\ found' = found \cup ({b} \cap inodes)
    <2>1. Readable(ptr, s) BY <1>1, <1>2, <1>4 DEF QuietScan
    <2>. QED BY <1>3, <2>1 DEF LinkText
<1>6. \A r \in Sockets : pid'[r] = IF r = b /\ r \in inodes THEN ptr ELSE pid[r]
    BY <1>5 DEF Assign, ScanInv, TypeOK
<1>7. QuietScan'
    <2>1. TablesRead' = TablesRead BY <1>1 DEF TablesRead
    <2>2. \A k \in Pids, t \in Slots : ~Ahead(k, t)' => ~Ahead(k, t) \/ (k = ptr /\ t = s)
        BY <1>1, <1>5 DEF Ahead
    <2>3. ASSUME NEW r \in found'
          PROVE  /\ pid'[r] \in Holders(fds, r)
                 /\ \A k \in Pids, t \in Slots : fds[k][t] = r /\ ~Ahead(k, t)' => k <= pid'[r]
        <3>1. r \in Sockets /\ r \in inodes BY <1>5 DEF ScanInv, TypeOK
        <3>2. CASE r = b
            <4>1. pid'[r] = ptr BY <3>1, <3>2, <1>6
            <4>2. ptr \in Holders(fds, r) BY <3>2, <1>4 DEF Holders
            <4>3. ASSUME NEW k \in Pids, NEW t \in Slots, fds[k][t] = r, ~Ahead(k, t)'
                  PROVE  k <= ptr
                <5>1. k \notin proc_dir BY <1>1, <4>3 DEF Ahead
                <5>2. k \in Live
                    BY <3>1, <4>3, ListerAssumption DEF ScanInv, SeenOK, Live
                <5>. QED BY <1>1, <1>2, <5>1, <5>2 DEF QuietScan
            <4>. QED BY <4>1, <4>2, <4>3
        <3>3. CASE r # b
            <4>1. r \in found /\ pid'[r] = pid[r] BY <3>1, <3>3, <1>5, <1>6
            <4>2. \A k \in Pids, t \in Slots : fds[k][t] = r /\ ~Ahead(k, t)' => ~Ahead(k, t)
                BY <2>2, <3>3
            <4>. QED BY <1>2, <4>1, <4>2 DEF QuietScan
        <3>. QED BY <3>2, <3>3
    <2>4. /\ inodes' = {r \in Sockets : Holders(fds, r) # {} /\ Proto[r] \in TablesRead}
          /\ steady' = Pids \X Slots
          /\ \A k \in Live \ proc_dir : (\A q \in proc_dir : k <= q) /\ k <= ptr
          /\ \A t \in fd_dir' : Readable(ptr, t)'
        BY <1>1, <1>2, <1>5, ProcsSame DEF QuietScan, Readable
    <2>. QED BY <1>1, <2>1, <2>3, <2>4, ProcsSame DEF QuietScan
<1>8. QuietLines' BY <1>1, <1>2 DEF QuietLines
<1>. QED BY <1>7, <1>8

\* A step that moves on after the scan of a process, or after the whole scan.
LEMMA MoveQuiet ==
    ASSUME ScanInv, QuietScan, UNCHANGED <<procs, scan>>, "?" \notin options,
           \/ at' = at
           \/ at = "links" /\ at' = "procs" /\ fd_dir = {}
           \/ at = "procs" /\ at' = "filter" /\ proc_dir = {}
           \/ at \in {"filter", "print"} /\ at' \in {"print", "done"}
    PROVE  QuietScan'
<1>1. TablesRead' = TablesRead BY DEF TablesRead
<1>2. \A p \in Pids, s \in Slots : Ahead(p, s) => Ahead(p, s)' BY DEF Ahead, scan
<1>3. UNCHANGED <<proc_dir, ptr, fd_dir, inodes, pid, found>> BY DEF scan
<1>4. /\ inodes' = {r \in Sockets : Holders(fds, r) # {} /\ Proto[r] \in TablesRead'}
      /\ steady' = Pids \X Slots
      /\ \A r \in found : /\ pid[r] \in Holders(fds, r)
                          /\ \A p \in Pids, s \in Slots :
                                 fds[p][s] = r /\ ~Ahead(p, s)' => p <= pid[r]
    BY <1>1, <1>2, <1>3, ProcsSame DEF QuietScan
<1>5. at' \in {"procs", "links"} => at \in {"procs", "links"} /\ (at' = "links" => at = "links")
    OBVIOUS
<1>6. /\ at' \in {"procs", "links"} =>
             \A p \in Live \ proc_dir : (\A q \in proc_dir : p <= q) /\ (at' = "links" => p <= ptr)
      /\ at' = "links" => \A s \in fd_dir : Readable(ptr, s)'
    BY <1>3, <1>5, ProcsSame DEF QuietScan, Readable
<1>. QED BY <1>3, <1>4, <1>6, ProcsSame DEF QuietScan

\* What the program's later steps leave alone.
LEMMA ChoiceSame ==
    ASSUME UNCHANGED <<procs, scan>>
    PROVE  /\ Chosen' = Chosen
           /\ \A R : Passing(R)' = Passing(R)
           /\ \A q, p : Printed(q, p)' = Printed(q, p)
           /\ UNCHANGED <<rows, pid, cmd, options>>
BY DEF procs, scan, Chosen, Shown, Passing, Printed, Oversized

\* The ends of the loops: the rows chosen, those that pass, the lines.
LEMMA EndQuiet ==
    ASSUME ScanInv, QuietOK, EndFds \/ EndProcs \/ EndFilter \/ EndPrint
    PROVE  QuietOK'
<1>. SUFFICES ASSUME Quiet' PROVE (QuietScan /\ QuietLines)' BY DEF QuietOK
<1>1. UNCHANGED <<procs, scan>> BY DEF EndFds, EndProcs, EndFilter, EndPrint
<1>2. QuietScan /\ QuietLines /\ "?" \notin options
    BY <1>1, ProcsSame DEF QuietOK, Quiet, scan, EndFds, EndProcs, EndFilter, EndPrint
<1>3. QuietScan' BY <1>1, <1>2, MoveQuiet DEF EndFds, EndProcs, EndFilter, EndPrint
<1>4. CASE EndFds BY <1>2, <1>3, <1>4 DEF EndFds, QuietLines
<1>5. CASE EndProcs
    <2>1. /\ at' = "filter" /\ todo' = Chosen /\ entries' = {} /\ out' = {}
        BY <1>2, <1>5 DEF EndProcs, QuietLines, Chosen
    <2>2. Passing(Chosen \ Chosen) = {} BY DEF Passing
    <2>. QED BY <1>1, <1>3, <2>1, <2>2, ChoiceSame DEF QuietLines
<1>6. CASE EndFilter
    <2>1. at = "filter" /\ at' = "print" /\ todo = {} /\ todo' = entries /\ entries' = entries /\ out' = {}
        BY <1>2, <1>6 DEF EndFilter, QuietLines
    <2>2. entries = Passing(Chosen \ {}) /\ Chosen \ {} = Chosen BY <1>2, <2>1 DEF QuietLines
    <2>3. entries' = Passing(Chosen)' BY <1>1, <2>1, <2>2, ChoiceSame
    <2>. QED BY <1>3, <2>1, <2>3 DEF QuietLines
<1>7. CASE EndPrint
    <2>1. at = "print" /\ at' = "done" /\ todo = {} /\ UNCHANGED <<todo, entries, out>>
        BY <1>7 DEF EndPrint
    <2>. QED BY <1>1, <1>2, <1>3, <2>1, ChoiceSame DEF QuietLines
<1>. QED BY <1>3, <1>4, <1>5, <1>6, <1>7

\* A row more is decided.
LEMMA FilterQuiet ==
    ASSUME ScanInv, QuietOK, Filter
    PROVE  QuietOK'
<1>. SUFFICES ASSUME Quiet' PROVE (QuietScan /\ QuietLines)' BY DEF QuietOK
<1>1. PICK r \in Due :
          /\ todo' = todo \ {r}
          /\ entries' = IF cmd[pid[r]] \in Matching THEN entries \cup {r} ELSE entries
          /\ UNCHANGED <<procs, scan, at, out>>
    BY DEF Filter, Crash, Quiet
<1>2. at = "filter" /\ at' = "filter" BY <1>1 DEF Filter
<1>3. QuietScan /\ QuietLines /\ "?" \notin options
    BY <1>1, <1>2, ProcsSame DEF QuietOK, Quiet, scan
<1>4. QuietScan' BY <1>1, <1>3, MoveQuiet
<1>5. r \in todo BY DEF Due
<1>6. todo \subseteq Chosen /\ entries = Passing(Chosen \ todo) /\ out = {}
    BY <1>2, <1>3 DEF QuietLines
<1>7. entries' = Passing(Chosen \ todo') BY <1>1, <1>5, <1>6 DEF Passing
<1>8. entries' = Passing(Chosen \ todo)' BY <1>1, <1>7, ChoiceSame
<1>9. todo' \subseteq Chosen' /\ out' = {} BY <1>1, <1>6, ChoiceSame
<1>. QED BY <1>2, <1>4, <1>8, <1>9 DEF QuietLines

\* A line more is printed.
LEMMA PrintQuiet ==
    ASSUME ScanInv, QuietOK, print_entry
    PROVE  QuietOK'
<1>. SUFFICES ASSUME Quiet' PROVE (QuietScan /\ QuietLines)' BY DEF QuietOK
<1>1. PICK r \in Due :
          /\ todo' = todo \ {r}
          /\ \E c \in Printed(r, pid[r]) :
                 out' = out \cup {[row |-> r, pid |-> pid[r], cmd |-> c]}
          /\ UNCHANGED <<procs, scan, at, entries>>
    BY DEF print_entry, Crash, Quiet
<1>2. at = "print" /\ at' = "print" BY <1>1 DEF print_entry
<1>3. QuietScan /\ QuietLines /\ "?" \notin options
    BY <1>1, <1>2, ProcsSame DEF QuietOK, Quiet, scan
<1>4. QuietScan' BY <1>1, <1>3, MoveQuiet
<1>5. r \in todo BY DEF Due
<1>6. /\ todo \subseteq entries /\ entries = Passing(Chosen)
      /\ {<<l.row, l.pid>> : l \in out} = {<<q, pid[q]>> : q \in entries \ todo}
      /\ \A l \in out : l.cmd \in Printed(l.row, l.pid)
    BY <1>2, <1>3 DEF QuietLines
<1>7. PICK c \in Printed(r, pid[r]) : out' = out \cup {[row |-> r, pid |-> pid[r], cmd |-> c]}
    BY <1>1
<1>. DEFINE line == [row |-> r, pid |-> pid[r], cmd |-> c]
<1>8. line.row = r /\ line.pid = pid[r] /\ line.cmd = c /\ out' = out \cup {line} BY <1>7
<1>. HIDE DEF line
<1>9. {<<l.row, l.pid>> : l \in out'} = {<<q, pid[q]>> : q \in entries \ todo'}
    <2>1. entries \ todo' = (entries \ todo) \cup {r} BY <1>1, <1>5, <1>6
    <2>2. {<<l.row, l.pid>> : l \in out'} = {<<l.row, l.pid>> : l \in out} \cup {<<r, pid[r]>>}
        BY <1>8
    <2>3. {<<q, pid[q]>> : q \in entries \ todo'} = {<<q, pid[q]>> : q \in entries \ todo} \cup {<<r, pid[r]>>}
        BY <2>1
    <2>. QED BY <1>6, <2>2, <2>3
<1>10. \A l \in out' : (l.cmd \in Printed(l.row, l.pid))' BY <1>1, <1>6, <1>8, ChoiceSame
<1>11. entries' = Passing(Chosen)' /\ todo' \subseteq entries' BY <1>1, <1>6, ChoiceSame
<1>12. pid' = pid /\ entries' = entries BY <1>1, ChoiceSame
<1>13. {<<l.row, l.pid>> : l \in out'} = {<<q, pid'[q]>> : q \in entries' \ todo'}
    BY <1>9, <1>12
<1>. QED BY <1>2, <1>4, <1>10, <1>11, <1>13 DEF QuietLines

\* Every step of a quiet scan keeps it exact.
LEMMA StepQuiet ==
    ASSUME ScanInv, QuietOK, [Next]_vars
    PROVE  QuietOK'
<1>0. TypeOK BY DEF ScanInv
<1>1. CASE Next
    BY <1>0, <1>1, ProcessesQuiet, ParseQuiet, ReadProcQuiet, OpenFdsQuiet, ReadLinkQuiet,
       EndQuiet, FilterQuiet, PrintQuiet DEF Next
<1>2. CASE UNCHANGED vars
    <2>. SUFFICES ASSUME Quiet' PROVE (QuietScan /\ QuietLines)' BY DEF QuietOK
    <2>1. UNCHANGED <<procs, scan>> /\ UNCHANGED <<at, todo, entries, out>> BY <1>2 DEF vars
    <2>2. QuietScan /\ QuietLines /\ "?" \notin options
        BY <2>1, ProcsSame DEF QuietOK, Quiet, scan
    <2>3. QuietScan' BY <2>1, <2>2, MoveQuiet
    <2>. QED BY <2>1, <2>2, <2>3, ChoiceSame DEF QuietLines
<1>. QED BY <1>1, <1>2

\* After a quiet scan a connection that is held has been found, and its pid is its owner.
LEMMA QuietOwner ==
    ASSUME ScanInv, QuietScan, Scanned, NEW r \in Sockets, Holders(fds, r) # {}
    PROVE  r \in rows /\ r \in found /\ Owner(r) = {pid[r]} /\ pid[r] \in Pids
<1>1. r \in inodes BY ListerAssumption DEF QuietScan, TablesRead, Scanned
<1>2. proc_dir = {} BY DEF ScanInv, ScanOK
<1>3. \A p \in Pids, s \in Slots : ~Ahead(p, s) BY <1>2 DEF Ahead, Scanned
<1>4. PICK p \in Pids, s \in Slots : fds[p][s] = r BY DEF Holders
<1>5. r \in found
    <2>1. <<p, s>> \in steady BY DEF QuietScan
    <2>. QED BY <1>1, <1>3, <1>4, <2>1 DEF ScanInv, ScanOK
<1>6. pid[r] \in Holders(fds, r) /\ \A q \in Holders(fds, r) : q <= pid[r]
    BY <1>3, <1>5 DEF QuietScan, Holders
<1>7. Holders(fds, r) \subseteq Nat BY ListerAssumption DEF Holders
<1>8. \A q \in Owner(r) : q = pid[r] BY <1>6, <1>7 DEF Owner
<1>9. pid[r] \in Owner(r) BY <1>6 DEF Owner
<1>10. r \in rows /\ pid[r] \in Pids BY <1>1, <1>6 DEF ScanInv, TypeOK, Holders
<1>. QED BY <1>5, <1>8, <1>9, <1>10

-----------------------------------------------------------------------------
(* A still system *)

\* All four tables are there, nothing lingers, and nothing has changed; every process may be
\* read, and all that can be printed fits its buffer.
Still == /\ changes = 0 /\ lingering = {}
         /\ {"tcp", "tcp6", "udp", "udp6"} \subseteq tables
         /\ \A p \in Live : cmd[p] \notin Private \cup Long
         /\ \A r \in Wide : Holders(fds, r) = {}

\* On a still system no process has ended, every row has an inode number, and the program
\* lives.
StillOK == Still => ~ended /\ rows \subseteq inodes /\ at # "crashed"

\* On a still system the owner of every row is there when its command line is read.
LEMMA StillOwners ==
    ASSUME ListerInv, Still, StillOK, at \in {"filter", "print"}, NEW r \in rows
    PROVE  pid[r] \in Live /\ ~Oversized(r, pid[r])
<1>1. Scanned BY DEF ListerInv, ScanInv, ScanOK, Scanned
<1>2. ScanInv /\ QuietScan BY <1>1 DEF ListerInv, QuietOK, Quiet, Still, Scanned
<1>3. r \in Sockets /\ Holders(fds, r) # {} BY <1>2 DEF StillOK, QuietScan
<1>4. r \in found BY <1>1, <1>2, <1>3, QuietOwner
<1>5. pid[r] \in Live BY <1>2, <1>4 DEF ScanInv, SeenOK, StillOK
<1>. QED BY <1>3, <1>5 DEF Oversized, Still

\* No step of the program kills it on a still system, and none of a process keeps it still.
LEMMA StepStill ==
    ASSUME ListerInv, StillOK, [Next]_vars
    PROVE  StillOK'
<1>. SUFFICES ASSUME Still' PROVE ~ended' /\ rows' \subseteq inodes' /\ at' # "crashed"
    BY DEF StillOK
<1>0. ScanInv /\ TypeOK BY DEF ListerInv, ScanInv
<1>1. CASE Processes
    <2>1. ASSUME NEW f, Become(f) PROVE changes' # 0
        BY <2>1, <1>0, ListerAssumption DEF TypeOK, Become
    <2>2. changes' # 0 BY <1>1, <2>1 DEF Processes, Close, Pass, Fork, Exec, Exit
    <2>. QED BY <2>2 DEF Still
<1>2. ASSUME UNCHANGED <<procs, tables>>
      PROVE  Still /\ ~ended /\ ended' = ended /\ rows \subseteq inodes /\ at # "crashed"
    BY <1>2, ProcsSame DEF procs, Still, StillOK
<1>3. CASE parse_protocol
    <2>. DEFINE shown == {r \in Sockets : Proto[r] = at}
                owned == {r \in shown : Holders(fds, r) # {}}
    <2>1. UNCHANGED <<procs, tables>> BY <1>3 DEF parse_protocol, Crash, scan
    <2>2. Still /\ at \in {"tcp", "tcp6", "udp", "udp6"} BY <1>2, <1>3, <2>1 DEF parse_protocol, After
    <2>3. at \in tables BY <2>2 DEF Still
    <2>4. /\ rows' = rows \cup owned \cup (shown \cap lingering)
          /\ inodes' = inodes \cup owned
          /\ at' = After[at]
        BY <1>3, <2>3 DEF parse_protocol
    <2>5. at' # "crashed" BY <2>2, <2>4 DEF After
    <2>. HIDE DEF shown, owned
    <2>. QED BY <1>2, <2>1, <2>2, <2>4, <2>5 DEF Still
<1>4. CASE ReadProc BY <1>2, <1>4 DEF ReadProc
<1>5. CASE OpenFds
    <2>1. PICK p \in Lowest(proc_dir) :
              IF p \notin Live \/ cmd[p] \in Private THEN Crash
              ELSE /\ at' = "links"
                   /\ UNCHANGED <<procs, tables, options, buffer, rows, inodes, pid, found, stale,
                                  todo, entries, out>>
        BY <1>5 DEF OpenFds
    <2>2. UNCHANGED <<procs, tables>> BY <2>1 DEF Crash, scan
    <2>3. p \in Live /\ cmd[p] \notin Private BY <1>0, <1>2, <2>2 DEF Lowest, ScanInv, SeenOK, Still
    <2>. QED BY <1>2, <2>1, <2>2, <2>3
<1>6. CASE ReadLink BY <1>2, <1>6 DEF ReadLink
<1>7. CASE EndFds \/ EndProcs \/ EndFilter \/ EndPrint
    BY <1>2, <1>7 DEF EndFds, EndProcs, EndFilter, EndPrint, scan
<1>8. CASE Filter
    <2>1. PICK r \in Due : IF pid[r] \notin Live THEN Crash ELSE UNCHANGED <<procs, scan, at, out>>
        BY <1>8 DEF Filter
    <2>2. UNCHANGED <<procs, tables>> BY <2>1 DEF Crash, scan
    <2>3. r \in rows /\ at = "filter" BY <1>0, <1>8 DEF Due, TypeOK, Filter
    <2>4. pid[r] \in Live BY <1>2, <2>2, <2>3, StillOwners
    <2>. QED BY <1>2, <2>1, <2>2, <2>4 DEF scan
<1>9. CASE print_entry
    <2>1. PICK r \in Due : IF pid[r] \notin Live THEN Crash
                           ELSE \/ Oversized(r, pid[r]) /\ Crash
                                \/ UNCHANGED <<procs, scan, at, entries>>
        BY <1>9 DEF print_entry
    <2>2. UNCHANGED <<procs, tables>> BY <2>1 DEF Crash, scan
    <2>3. r \in rows /\ at = "print" BY <1>0, <1>9 DEF Due, TypeOK, print_entry
    <2>4. pid[r] \in Live /\ ~Oversized(r, pid[r]) BY <1>2, <2>2, <2>3, StillOwners
    <2>. QED BY <1>2, <2>1, <2>2, <2>4 DEF scan
<1>10. CASE UNCHANGED vars BY <1>2, <1>10 DEF vars, scan
<1>. QED BY <1>1, <1>3, <1>4, <1>5, <1>6, <1>7, <1>8, <1>9, <1>10 DEF Next

-----------------------------------------------------------------------------
(* Theorems *)

\* The inductive invariant of the scan, and of a scan under which nothing changes.
THEOREM ListerInvariant == Spec => []ListerInv
<1>1. Init => ListerInv BY InitInv, InitQuiet DEF ListerInv
<1>2. ListerInv /\ [Next]_vars => ListerInv' BY StepInv, StepQuiet DEF ListerInv
<1>. QED BY <1>1, <1>2, PTL DEF Spec

\* An attributed connection was held by its process, for any number of processes and
\* changes, unless a failed readlink went unnoticed.
THEOREM OwnersHeld == Spec => []OwnerHeld
<1>1. ListerInv => OwnerHeld BY DEF ListerInv, ScanInv
<1>. QED BY <1>1, ListerInvariant, PTL

\* What a descriptor refers to throughout is found by the scan.
THEOREM KeptAreFound == Spec => []KeptFound
<1>1. ASSUME ListerInv PROVE KeptFound
    BY <1>1 DEF ListerInv, ScanInv, KeptFound, ScanOK, Scanned, Ahead
<1>. QED BY <1>1, ListerInvariant, PTL

\* The program dies of nothing but the five causes named: a process that ends, a row without
\* an owner, a missing table, a process of another user's (opendir's NULL, main.cpp:90-92), a
\* text past the end of its buffer (hw1_utils.h:56-59, 69-70).
THEOREM CrashesCaused == Spec => []CrashNeedsCause
<1>1. ListerInv => CrashNeedsCause BY DEF ListerInv, ScanInv
<1>. QED BY <1>1, ListerInvariant, PTL

\* On a system where nothing changes the report is exact: a connection is listed if its
\* last holder passes the filter, with that holder's pid and, if it fits, its command line,
\* and not otherwise.
THEOREM QuietReported == Spec => []QuietReport
<1>1. ASSUME ListerInv PROVE QuietReport
    <2>. SUFFICES ASSUME at = "done", "?" \notin options, changes = 0,
                         NEW r \in Sockets, Holders(fds, r) # {}
                  PROVE  /\ {l.pid : l \in Reported(r)} =
                               {q \in Owner(r) : Shown(r) /\ cmd[q] \in Matching}
                         /\ \A l \in Reported(r) : l.cmd \in Printed(r, l.pid)
        BY DEF QuietReport
    <2>1. ScanInv /\ QuietScan /\ QuietLines BY <1>1 DEF ListerInv, QuietOK, Quiet
    <2>2. r \in rows /\ Owner(r) = {pid[r]} BY <2>1, QuietOwner DEF Scanned
    <2>3. /\ {<<l.row, l.pid>> : l \in out} = {<<q, pid[q]>> : q \in Passing(Chosen)}
          /\ \A l \in out : l.cmd \in Printed(l.row, l.pid)
        BY <2>1 DEF QuietLines
    <2>4. r \in Passing(Chosen) <=> Shown(r) /\ cmd[pid[r]] \in Matching
        BY <2>2 DEF Passing, Chosen
    <2>5. ASSUME NEW l \in Reported(r) PROVE l.pid = pid[r] /\ r \in Passing(Chosen)
        <3>1. l \in out /\ l.row = r BY DEF Reported
        <3>2. PICK q \in Passing(Chosen) : <<l.row, l.pid>> = <<q, pid[q]>> BY <2>3, <3>1
        <3>. QED BY <3>1, <3>2
    <2>6. ASSUME r \in Passing(Chosen) PROVE \E l \in Reported(r) : l.pid = pid[r]
        <3>1. PICK l \in out : <<l.row, l.pid>> = <<r, pid[r]>> BY <2>3, <2>6
        <3>. QED BY <3>1 DEF Reported
    <2>7. {l.pid : l \in Reported(r)} = IF r \in Passing(Chosen) THEN {pid[r]} ELSE {}
        BY <2>5, <2>6
    <2>8. \A l \in Reported(r) : l.cmd \in Printed(r, l.pid) BY <2>3 DEF Reported
    <2>. QED BY <2>2, <2>4, <2>7, <2>8
<1>. QED BY <1>1, ListerInvariant, PTL

\* On a system with the four tables where nothing lingers or changes, the program survives
\* every scan, filter and listing, if it may read the descriptors of every process (as root
\* may) and all texts fit the buffers of print_entry.
THEOREM StillSurvives == Spec => [](Still => at # "crashed")
<1>1. Init => StillOK BY DEF Init, StillOK
<1>2. ListerInv /\ StillOK /\ [Next]_vars => StillOK' BY StepStill
<1>3. StillOK => (Still => at # "crashed") BY DEF StillOK
<1>. QED BY <1>1, <1>2, <1>3, ListerInvariant, PTL DEF Spec
=============================================================================
