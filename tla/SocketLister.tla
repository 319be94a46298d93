---------------------------- MODULE SocketLister ----------------------------
(***************************************************************************)
(* hw1: lists the sockets of /proc/net with the processes that hold them.  *)
(* The four tables are read first, then the descriptors of every process,  *)
(* then the command line of every owner found, twice: to filter, and to    *)
(* print.  Meanwhile the processes go on: they close sockets, hand them    *)
(* on, fork, execute other programs and end.                               *)
(***************************************************************************)
EXTENDS Naturals

CONSTANTS
    Pids,           \* process numbers
    Slots,          \* descriptor numbers
    Sockets,        \* sockets, each with its inode number
    Proto,          \* the table a socket is listed in
    Cmds,           \* command lines
    Matching,       \* those the filter argument, which fits its 64 bytes, occurs in
    Private,        \* those of programs whose descriptors only another user may read
    Long,           \* those whose first word does not fit the 32 bytes of program_path
    Wide,           \* sockets an end of which does not fit the 32 bytes it is printed into
    Options,        \* the sets of options the program is called with
    Tables,         \* the sets of tables a system may have
    Starts,         \* the descriptor tables the processes begin with
    Gone, Closed, File, Junk,
    MaxChanges      \* bound: the steps the processes take meanwhile

Contents == Sockets \cup {Closed, File}

ASSUME ListerAssumption ==
    /\ Pids \subseteq Nat \ {0} /\ Slots \subseteq Nat
    /\ Proto \in [Sockets -> {"tcp", "tcp6", "udp", "udp6"}]
    /\ Starts \subseteq [Pids -> [Slots -> Contents]]
    /\ Private \subseteq Cmds /\ Long \subseteq Cmds
    /\ Wide \subseteq {r \in Sockets : Proto[r] \in {"tcp6", "udp6"}}
    /\ MaxChanges \in Nat
    /\ Gone \notin Cmds
    /\ Closed \notin Sockets /\ File \notin Sockets /\ Junk \notin Sockets /\ Closed # File

VARIABLES
    \* The processes: their command lines and descriptors, and the connections that are
    \* listed although nobody holds them (TIME_WAIT).
    cmd, fds, lingering,
    tables,         \* the tables of /proc/net this system has
    \* The program: its step and options; the rest of /proc, the process it is at and the
    \* rest of its fd directory; the rows still to filter or print; the malloc'ed buffer,
    \* which holds the link read last; the rows that pass the filter; the lines printed.
    at, options, proc_dir, ptr, fd_dir, todo, buffer, entries, out,
    \* all_connections: the rows, those with an inode number, and the pid of each.
    rows, inodes, pid,
    \* Ghosts.  found: the rows whose pid has been assigned; stale: the texts that were used
    \* last without having been read; held: who has ever held what; steady: the descriptors
    \* that have not changed, of processes that have not become another user's; ended: a
    \* process has ended.
    found, stale, held, steady, ended, changes

procs == <<cmd, fds, lingering, held, steady, ended, changes>>
scan == <<tables, options, proc_dir, ptr, fd_dir, buffer, rows, inodes, pid, found, stale>>
vars == <<procs, scan, at, todo, entries, out>>

Live == {p \in Pids : cmd[p] # Gone}
Holders(f, r) == {p \in Pids : \E s \in Slots : f[p][s] = r}
HeldIn(f) == {x \in Pids \X Sockets : x[1] \in Holders(f, x[2])}
\* May the program read the link of descriptor s of process p?
Readable(p, s) == fds[p][s] # Closed /\ cmd[p] \notin Private
Lowest(S) == {x \in S : \A y \in S : x <= y}

TypeOK ==
    /\ cmd \in [Pids -> Cmds \cup {Gone}]
    /\ fds \in [Pids -> [Slots -> Contents]]
    /\ lingering \subseteq Sockets
    /\ at \in {"tcp", "tcp6", "udp", "udp6", "opendir", "procs", "links",
               "filter", "print", "done", "crashed"}
    /\ options \in Options /\ tables \in Tables
    /\ proc_dir \subseteq Pids /\ ptr \in Pids \cup {0} /\ fd_dir \subseteq Slots
    /\ todo \subseteq rows /\ entries \subseteq rows
    /\ buffer \in Contents \cup {Junk}
    /\ out \subseteq [row : Sockets, pid : Pids, cmd : Cmds \cup {Junk}]
    /\ rows \subseteq Sockets /\ inodes \subseteq rows /\ found \subseteq inodes
    /\ stale \subseteq Contents \cup {Junk}
    /\ pid \in [Sockets -> Pids \cup {0}]
    /\ held \subseteq Pids \X Sockets /\ steady \subseteq Pids \X Slots
    /\ ended \in BOOLEAN /\ changes \in 0 .. MaxChanges

\* parse_line leaves pid as it finds it on the stack.  An option getopt does not know ends
\* the program.
Init ==
    /\ fds \in Starts
    /\ cmd \in [Pids -> Cmds \cup {Gone}]
    /\ \A p \in Pids : cmd[p] = Gone => \A s \in Slots : fds[p][s] = Closed
    /\ lingering \in SUBSET {r \in Sockets : Holders(fds, r) = {}}
    /\ held = HeldIn(fds) /\ steady = Pids \X Slots /\ ended = FALSE /\ changes = 0
    /\ options \in Options /\ tables \in Tables
    /\ at = IF "?" \in options THEN "done" ELSE "tcp"
    /\ pid \in [Sockets -> Pids \cup {0}]
    /\ rows = {} /\ inodes = {} /\ found = {} /\ entries = {} /\ out = {} /\ todo = {}
    /\ proc_dir = {} /\ ptr = 0 /\ fd_dir = {} /\ buffer = Junk /\ stale = {}

-----------------------------------------------------------------------------
(* The processes *)

Running == at \notin {"done", "crashed"} /\ changes < MaxChanges

\* The descriptors become f; connections that nobody holds any more may linger.
Become(f) ==
    /\ fds' = f
    /\ held' = held \cup HeldIn(f)
    /\ steady' = {x \in steady : /\ f[x[1]][x[2]] = fds[x[1]][x[2]]
                                 /\ cmd'[x[1]] \in Private => cmd[x[1]] \in Private}
    /\ \E L \in SUBSET {r \in Sockets : Holders(f, r) = {} /\ Holders(fds, r) # {}} :
           lingering' = lingering \cup L
    /\ changes' = changes + 1

Close(p, s) ==
    /\ Running /\ fds[p][s] # Closed
    /\ UNCHANGED <<cmd, ended, scan, at, todo, entries, out>>
    /\ Become([fds EXCEPT ![p][s] = Closed])

\* q gets a descriptor of p's (SCM_RIGHTS, pidfd_getfd; dup when it is p itself).
Pass(p, s, q, t) ==
    /\ Running /\ fds[p][s] # Closed /\ q \in Live /\ fds[q][t] = Closed
    /\ UNCHANGED <<cmd, ended, scan, at, todo, entries, out>>
    /\ Become([fds EXCEPT ![q][t] = fds[p][s]])

Fork(p, q) ==
    /\ Running /\ p \in Live /\ q \notin Live
    /\ cmd' = [cmd EXCEPT ![q] = cmd[p]]
    /\ Become([fds EXCEPT ![q] = fds[p]])
    /\ UNCHANGED <<ended, scan, at, todo, entries, out>>

\* The new program may be set-uid.
Exec(p, c) ==
    /\ Running /\ p \in Live
    /\ cmd' = [cmd EXCEPT ![p] = c]
    /\ Become(fds)
    /\ UNCHANGED <<ended, scan, at, todo, entries, out>>

Exit(p) ==
    /\ Running /\ p \in Live
    /\ cmd' = [cmd EXCEPT ![p] = Gone] /\ ended' = TRUE
    /\ Become([fds EXCEPT ![p] = [s \in Slots |-> Closed]])
    /\ UNCHANGED <<scan, at, todo, entries, out>>

Processes ==
    \E p \in Pids :
        \/ \E s \in Slots : Close(p, s) \/ \E q \in Pids, t \in Slots : Pass(p, s, q, t)
        \/ \E q \in Pids : Fork(p, q)
        \/ \E c \in Cmds : Exec(p, c)
        \/ Exit(p)

-----------------------------------------------------------------------------
(* Reading the tables and the descriptors *)

\* A NULL stream or directory is used all the same.
Crash ==
    /\ at' = "crashed"
    /\ UNCHANGED <<procs, scan, todo, entries, out>>

After == [tcp |-> "tcp6", tcp6 |-> "udp", udp |-> "udp6", udp6 |-> "opendir"]

parse_protocol ==
    /\ at \in DOMAIN After
    /\ IF at \notin tables THEN Crash
       ELSE LET shown == {r \in Sockets : Proto[r] = at}
                owned == {r \in shown : Holders(fds, r) # {}}
            IN  /\ rows' = rows \cup owned \cup (shown \cap lingering)
                /\ inodes' = inodes \cup owned
                /\ at' = After[at]
                /\ UNCHANGED <<procs, tables, options, proc_dir, ptr, fd_dir, buffer, pid, found, stale,
                               todo, entries, out>>

\* Mutant: every entry of /proc is taken for a process.
ReadProcAll ==
    /\ at = "opendir"
    /\ proc_dir' = Pids /\ at' = "procs"
    /\ UNCHANGED <<procs, tables, options, ptr, fd_dir, buffer, rows, inodes, pid, found, stale,
                   todo, entries, out>>

ReadProc ==
    /\ at = "opendir"
    /\ proc_dir' = Live /\ at' = "procs"
    /\ UNCHANGED <<procs, tables, options, ptr, fd_dir, buffer, rows, inodes, pid, found, stale,
                   todo, entries, out>>

\* opendir returns NULL for a process that has ended, and for one of another user's.
OpenFds ==
    /\ at = "procs"
    /\ \E p \in Lowest(proc_dir) :
           IF p \notin Live \/ cmd[p] \in Private THEN Crash
           ELSE /\ proc_dir' = proc_dir \ {p}
                /\ ptr' = p
                /\ fd_dir' = {s \in Slots : fds[p][s] # Closed}
                /\ at' = "links"
                /\ UNCHANGED <<procs, tables, options, buffer, rows, inodes, pid, found, stale,
                               todo, entries, out>>

\* The link of descriptor s; if it cannot be read any more, the buffer is what malloc
\* returns: the last text, if nothing has been written over it.
LinkText(s) == IF Readable(ptr, s) THEN {fds[ptr][s]} ELSE {buffer, Junk}

\* Mutant: the first process is kept.
AssignFirst(b) == IF b \in inodes \ found THEN [pid EXCEPT ![b] = ptr] ELSE pid

\* Mutant: every connection matches.
AssignAll(b) == IF b \in inodes THEN [r \in Sockets |-> ptr] ELSE pid

\* The pid of the connection with inode b.
Assign(b) == IF b \in inodes THEN [pid EXCEPT ![b] = ptr] ELSE pid

ReadLink ==
    /\ at = "links"
    /\ \E s \in Lowest(fd_dir) : \E b \in LinkText(s) :
           /\ fd_dir' = fd_dir \ {s}
           /\ buffer' = b
           /\ pid' = Assign(b)
           /\ found' = found \cup ({b} \cap inodes)
           /\ stale' = IF Readable(ptr, s) THEN stale \ {b} ELSE stale \cup {b}
    /\ UNCHANGED <<procs, tables, options, proc_dir, ptr, rows, inodes, at, todo, entries, out>>

\* Mutant: the end of one fd directory ends the scan.
EndFdsStop ==
    /\ at = "links" /\ fd_dir = {}
    /\ at' = "procs" /\ proc_dir' = {}
    /\ UNCHANGED <<procs, tables, options, ptr, fd_dir, buffer, rows, inodes, pid, found, stale,
                   todo, entries, out>>

EndFds ==
    /\ at = "links" /\ fd_dir = {}
    /\ at' = "procs"
    /\ UNCHANGED <<procs, scan, todo, entries, out>>

IsTcp(r) == Proto[r] \in {"tcp", "tcp6"}
Shown(r) == IF IsTcp(r) THEN "tcp" \in options \/ "udp" \notin options
                        ELSE "udp" \in options \/ "tcp" \notin options

EndProcs ==
    /\ at = "procs" /\ proc_dir = {}
    /\ at' = "filter" /\ todo' = {r \in rows : Shown(r)}
    /\ UNCHANGED <<procs, scan, entries, out>>

-----------------------------------------------------------------------------
(* Filtering and printing *)

\* The next row: those of TCP come first.
Due == {r \in todo : IsTcp(r) \/ \A q \in todo : ~IsTcp(q)}

\* The command line of a process that is gone cannot be opened.
Filter ==
    /\ at = "filter"
    /\ \E r \in Due :
           IF pid[r] \notin Live THEN Crash
           ELSE /\ todo' = todo \ {r}
                /\ entries' = IF cmd[pid[r]] \in Matching THEN entries \cup {r} ELSE entries
                /\ UNCHANGED <<procs, scan, at, out>>

EndFilter ==
    /\ at = "filter" /\ todo = {}
    /\ at' = "print" /\ todo' = entries
    /\ UNCHANGED <<procs, scan, entries, out>>

\* Texts that do not fit are written past the end of local_end, remote_end or program_path.
Oversized(q, p) == q \in Wide \/ cmd[p] \in Long

\* The command line that is printed for row q of process p: after an overflow, anything.
Printed(q, p) == {cmd[p]} \cup IF Oversized(q, p) THEN {Junk} ELSE {}

print_entry ==
    /\ at = "print"
    /\ \E r \in Due :
           IF pid[r] \notin Live THEN Crash
           ELSE \/ Oversized(r, pid[r]) /\ Crash
                \/ /\ todo' = todo \ {r}
                   /\ \E c \in Printed(r, pid[r]) :
                          out' = out \cup {[row |-> r, pid |-> pid[r], cmd |-> c]}
                   /\ UNCHANGED <<procs, scan, at, entries>>

EndPrint ==
    /\ at = "print" /\ todo = {}
    /\ at' = "done"
    /\ UNCHANGED <<procs, scan, todo, entries, out>>

Next == \/ Processes
        \/ parse_protocol \/ ReadProc \/ OpenFds \/ ReadLink \/ EndFds \/ EndProcs
        \/ Filter \/ EndFilter \/ print_entry \/ EndPrint

Spec == Init /\ [][Next]_vars

-----------------------------------------------------------------------------
(* Properties *)

Scanned == at \in {"filter", "print", "done"} /\ "?" \notin options

\* The process a connection is attributed to has held it while the program ran, unless the
\* descriptor was closed between readdir and readlink, whose failure goes unnoticed.
OwnerHeld == \A r \in found \ stale : <<pid[r], r>> \in held

\* A listed connection that some descriptor refers to from the beginning to the end is
\* attributed to a process, whatever the other processes do during the scan.
KeptFound == Scanned => \A x \in steady : fds[x[1]][x[2]] \in inodes => fds[x[1]][x[2]] \in found

\* The program dies only if a process ends under it, a connection has no owner, one of
\* the four tables does not exist, a process belongs to another user, or what it prints of
\* a row that has passed the filter does not fit its buffers.
CrashNeedsCause == at = "crashed" =>
    \/ ended \/ rows # found \/ ~({"tcp", "tcp6", "udp", "udp6"} \subseteq tables)
    \/ \E p \in Live : cmd[p] \in Private
    \/ \E r \in entries : pid[r] \in Live /\ Oversized(r, pid[r])

\* When nothing changes meanwhile, every connection that somebody holds is reported if its
\* owner, the holder with the highest pid, passes the filter, and not otherwise; the line
\* shows the owner and, unless its texts do not fit, the owner's command line.
Reported(r) == {l \in out : l.row = r}
Owner(r) == {p \in Holders(fds, r) : \A q \in Holders(fds, r) : q <= p}
QuietReport == at = "done" /\ "?" \notin options /\ changes = 0 =>
    \A r \in Sockets : Holders(fds, r) # {} =>
        /\ {l.pid : l \in Reported(r)} = {q \in Owner(r) : Shown(r) /\ cmd[q] \in Matching}
        /\ \A l \in Reported(r) : l.cmd \in Printed(r, l.pid)

-----------------------------------------------------------------------------
(* The inductive invariant *)

\* What the scan has still to visit, or has found.
Ahead(p, s) == \/ at \in {"tcp", "tcp6", "udp", "udp6", "opendir", "crashed"}
               \/ "?" \in options
               \/ p \in proc_dir
               \/ at = "links" /\ p = ptr /\ s \in fd_dir

ScanOK ==
    /\ \A x \in steady : LET r == fds[x[1]][x[2]]
                          IN  r \in inodes => r \in found \/ Ahead(x[1], x[2])
    /\ Scanned => proc_dir = {}
    /\ "?" \in options => at = "done"
    /\ at = "links" => \A x \in steady : x[1] = ptr => cmd[ptr] \notin Private

\* A process the program has seen is there, or has ended.
SeenOK ==
    /\ \A p \in Pids : cmd[p] = Gone => \A s \in Slots : fds[p][s] = Closed
    /\ ended \/ (proc_dir \subseteq Live /\ (at = "links" => ptr \in Live))
    /\ ended \/ \A r \in found : pid[r] \in Live
    /\ at = "links" => ptr \in Pids
    /\ at = "print" => todo \subseteq entries
    /\ HeldIn(fds) \subseteq held

ScanInv == TypeOK /\ OwnerHeld /\ ScanOK /\ SeenOK /\ CrashNeedsCause

\* While nothing has changed.  The tables read so far list what is held; the processes come
\* in ascending order, each descriptor can be read, and a connection found belongs to the
\* last holder visited; the rows and lines are those of the owners.
Quiet == changes = 0 /\ "?" \notin options /\ at # "crashed"

TablesRead ==
    CASE at = "tcp" -> {} [] at = "tcp6" -> {"tcp"} [] at = "udp" -> {"tcp", "tcp6"}
      [] at = "udp6" -> {"tcp", "tcp6", "udp"} [] OTHER -> {"tcp", "tcp6", "udp", "udp6"}

QuietScan ==
    /\ inodes = {r \in Sockets : Holders(fds, r) # {} /\ Proto[r] \in TablesRead}
    /\ steady = Pids \X Slots
    /\ at \in {"procs", "links"} =>
           \A p \in Live \ proc_dir : /\ \A q \in proc_dir : p <= q
                                      /\ at = "links" => p <= ptr
    /\ at = "links" => \A s \in fd_dir : Readable(ptr, s)
    /\ \A r \in found : /\ pid[r] \in Holders(fds, r)
                        /\ \A p \in Pids, s \in Slots :
                               fds[p][s] = r /\ ~Ahead(p, s) => p <= pid[r]

Chosen == {r \in rows : Shown(r)}
Passing(R) == {r \in R : cmd[pid[r]] \in Matching}

QuietLines ==
    /\ at = "filter" => todo \subseteq Chosen /\ entries = Passing(Chosen \ todo)
    /\ at \in {"print", "done"} => todo \subseteq entries /\ entries = Passing(Chosen)
    /\ at = "done" => todo = {}
    /\ at \notin {"filter", "print", "done"} => entries = {}
    /\ {<<l.row, l.pid>> : l \in out} =
           IF at \in {"print", "done"} THEN {<<r, pid[r]>> : r \in entries \ todo} ELSE {}
    /\ \A l \in out : l.cmd \in Printed(l.row, l.pid)

QuietOK == Quiet => QuietScan /\ QuietLines

ListerInv == ScanInv /\ QuietOK
=============================================================================
