------------------------------- MODULE Fsmon --------------------------------
(***************************************************************************)
(* The file activity monitor of src/hw2/fsmon.c, preloaded into a program  *)
(* with several threads.  Each monitored call does the real one, collects  *)
(* in static buffers what its line will show, opens the log, prints and    *)
(* closes it.  The program may open, close, duplicate and name any         *)
(* descriptor, the ones that happen to be the log's included.              *)
(***************************************************************************)
EXTENDS Naturals, Sequences, FiniteSets, TLC

CONSTANTS
    Threads,    \* the threads of the monitored program
    Fds,        \* the descriptors a process may have
    Names,      \* files and directories
    Kinds,      \* file types get_verbose_stat tells apart
    Texts,      \* lines and formats that end in a newline, without it
    Ops,        \* the monitored functions the program calls
    MaxCalls    \* bound: how many calls it makes

Free == "free"              \* no open file
Log == "log"                \* the file MONITOR_OUTPUT names
Empty == ""                 \* a static buffer never written
Torn == "torn"              \* a buffer two threads wrote at once, or not yet ended
None == "none"              \* nothing to show
NoText == <<0>>             \* no text, or one that is shown where it stands
NoFd == 0                   \* no descriptor, or one that is never open
Std == <<"<STDOUT>", "<STDERR>">>

ASSUME FsmonAssumption ==
    /\ IsFiniteSet(Threads)
    /\ IsFiniteSet(Fds)
    /\ Fds \subseteq Nat \ {NoFd}
    /\ Names \cap {Free, Log, Empty, Torn, None, Std[1], Std[2]} = {}
    /\ Kinds \cap {Empty, Torn, None} = {}
    /\ Texts \subseteq Seq(Nat \ {0})

\* The monitored functions, by what they do to the table and what they show.
PathOps == {"lstat", "stat", "chdir", "chown", "chmod", "remove", "rename", "link",
            "unlink", "readlink", "symlink", "mkdir", "rmdir"}
OpenOps == {"opendir", "creat", "open", "fopen"}
NumberOps == {"write", "dup", "dup2", "close", "pwrite"}
StreamOps == {"fread", "fwrite", "fwrite_unlocked", "fgetc", "fputs_unlocked", "fflush"}
TextOps == {"fgets", "fscanf", "fprintf"}
StatOps == {"__xstat", "__lxstat"}
NamedOps == {"read", "readdir", "closedir", "fclose"} \cup StreamOps \cup TextOps
\* Mutant: fclose is monitored like the rest.
ClosingOpsFclose == {"close", "closedir", "fclose"}

\* The ones whose real call, made first, closes their descriptor.
ClosingOps == {"close", "closedir"}
AllOps == PathOps \cup OpenOps \cup NumberOps \cup StatOps \cup NamedOps

ASSUME OpsAssumption == Ops \subseteq AllOps /\ MaxCalls \in Nat

VARIABLES
    monitor_output,     \* is the environment variable set?
    calls,              \* how many calls have been made
    table,              \* the process's descriptors
    crashed,
    fd_path, filename,  \* static buffers of fd_to_filename
    type, buff,         \* of get_verbose_stat
    buff1, buff2,       \* of convert_to_verbose_newline
    pc, op, fd,         \* each thread's monitored call and its descriptor
    n,                  \* what its readlink found
    fp,                 \* the descriptor of its log stream
    shown,              \* what its line says
    own,                \* ghost: what its line is about
    spoiled,            \* ghost: what other threads have disturbed of it
    clobbered           \* ghost: has the program used a descriptor of the log?

nameBufs == <<fd_path, filename>>
statBufs == <<type, buff>>
textBufs == <<buff1, buff2>>
statics == <<nameBufs, statBufs, textBufs>>
process == <<monitor_output, calls, table, crashed, clobbered>>
vars == <<process, statics, pc, op, fd, n, fp, shown, own, spoiled>>

Nothing == [name |-> None, stat |-> None, text |-> NoText]

TypeOK ==
    /\ calls \in Nat
    /\ monitor_output \in BOOLEAN /\ crashed \in BOOLEAN /\ clobbered \in BOOLEAN
    /\ table \in [Fds -> Names \cup {Free, Log}]
    /\ fd_path \in Fds \cup {NoFd}
    /\ filename \in Names \cup {Log, Empty, Torn, Std[1], Std[2]}
    /\ type \in Kinds \cup {Empty, Torn} /\ buff \in Kinds \cup {Empty, Torn}
    /\ buff1 \in Seq(Nat) /\ buff2 \in Seq(Nat)
    /\ pc \in [Threads -> {"idle", "path", "link", "term", "strncpy", "snprintf", "type",
                           "buff", "close", "fopen", "print", "fclose"}]
    /\ own \in [Threads -> [name : Names \cup {None, Std[1], Std[2]},
                           stat : Kinds \cup {None}, text : Seq(Nat)]]
    /\ shown \in [Threads -> [name : Names \cup {Log, Empty, Torn, None, Std[1], Std[2]},
                             stat : Kinds \cup {Empty, Torn, None}, text : Seq(Nat)]]
    /\ op \in [Threads -> AllOps \cup {None}]
    /\ fd \in [Threads -> Fds \cup {NoFd}]
    /\ n \in [Threads -> Names \cup {Log, None}]
    /\ fp \in [Threads -> Fds \cup {NoFd}]
    /\ spoiled \in [Threads -> SUBSET {"fd", "name", "stat", "text"}]

\* The library is loaded with whatever descriptors the program inherits.
Init ==
    /\ monitor_output \in BOOLEAN
    /\ calls = 0
    /\ table \in [Fds -> Names \cup {Free}]
    /\ crashed = FALSE /\ clobbered = FALSE
    /\ fd_path = NoFd /\ filename = Empty
    /\ type = Empty /\ buff = Empty
    /\ buff1 = <<>> /\ buff2 = <<>>
    /\ pc = [t \in Threads |-> "idle"]
    /\ op = [t \in Threads |-> None]
    /\ fd = [t \in Threads |-> NoFd]
    /\ n = [t \in Threads |-> None]
    /\ fp = [t \in Threads |-> NoFd]
    /\ shown = [t \in Threads |-> Nothing]
    /\ own = [t \in Threads |-> Nothing]
    /\ spoiled = [t \in Threads |-> {}]

-----------------------------------------------------------------------------
(* The kernel's descriptor table. *)

FreeFds == {d \in Fds : table[d] = Free}
Lowest == {d \in FreeFds : \A e \in FreeFds : d <= e}
Mine(d) == table[d] \notin {Free, Log}

\* Calls under way in threads other than t lose the descriptors in D; t's own has lost S.
Repoint(t, S, D) ==
    spoiled' = [u \in Threads |->
        CASE u = t -> S
          [] u # t /\ fd[u] \in D -> spoiled[u] \cup {"fd"}
          [] OTHER -> spoiled[u]]

\* What thread t writes into the static buffers of group g, the others no longer find;
\* when it starts to, it owes nothing to what they wrote before.
Begin(t, g) ==
    spoiled' = [u \in Threads |->
        CASE u = t -> spoiled[u] \ {g}
          [] u # t /\ pc[u] # "idle" -> spoiled[u] \cup {g}
          [] OTHER -> spoiled[u]]
Touch(t, g) ==
    spoiled' = [u \in Threads |->
        IF u = t \/ pc[u] = "idle" THEN spoiled[u] ELSE spoiled[u] \cup {g}]

\* The program's own open, close and dup, as the real function does them.
OpenFile(t) ==
    \/ \E x \in Names, e \in Lowest : table' = [table EXCEPT ![e] = x]
    \/ table' = table
CloseFd(t, d) ==
    /\ table' = [table EXCEPT ![d] = Free]
    /\ clobbered' = (clobbered \/ table[d] = Log)
    /\ Repoint(t, spoiled[t], {d})
DupFd(t, d) ==
    /\ \/ \E e \in Lowest : table[d] # Free /\ table' = [table EXCEPT ![e] = table[d]]
       \/ (table[d] = Free \/ FreeFds = {}) /\ table' = table
    /\ clobbered' = (clobbered \/ table[d] = Log)
    /\ Repoint(t, spoiled[t], {})
Dup2Fd(t, d, e) ==
    /\ table' = IF table[d] = Free THEN table ELSE [table EXCEPT ![e] = table[d]]
    /\ clobbered' = (clobbered \/ table[d] = Log \/ (table[d] # Free /\ table[e] = Log))
    /\ Repoint(t, spoiled[t], IF table[d] = Free THEN {} ELSE {e})

-----------------------------------------------------------------------------
(* A monitored call, up to the line. *)

\* The first thing done with the result: arguments of write_msg, or write_msg itself.
AfterCall(o) == CASE o \in TextOps -> "strncpy"
                  [] o \in NamedOps \ TextOps -> "path"
                  [] o \in StatOps -> "type"
                  [] OTHER -> "fopen"

\* The descriptor whose name the line shows; dirfd of a DIR that closedir has freed
\* is whatever the heap left there.
NamedFd(o, d) == CASE o = "closedir" -> Fds \cup {NoFd}
                   [] o \in NamedOps \ {"closedir"} -> {d}
                   [] OTHER -> {NoFd}

\* What the line of a call of o on descriptor d, showing kind k and text s, is about.
About(o, d, k, s) ==
    [name |-> IF o \in NamedOps /\ d # NoFd
              THEN IF d \in {1, 2} THEN Std[d] ELSE IF Mine(d) THEN table[d] ELSE None
              ELSE None,
     stat |-> k, text |-> s]

\* Functions on a descriptor, a stream or a directory.  Numbers may be wrong;
\* streams and directories are open ones.  fflush alone accepts no stream.
CallOnFd(t, o, d) ==
    /\ o \in NumberOps \cup NamedOps
    /\ o \notin NumberOps \cup {"read"} => Mine(d)
    /\ fd' \in {[fd EXCEPT ![t] = e] : e \in NamedFd(o, d)}
    /\ \E s \in IF o \in TextOps THEN Texts \cup {NoText} ELSE {NoText} :
          own' = [own EXCEPT ![t] = About(o, d, None, s)]
    /\ CASE o \in ClosingOps -> CloseFd(t, d)
         [] o = "dup" -> DupFd(t, d)
         [] o = "dup2" -> \E e \in Fds : Dup2Fd(t, d, e)
         [] OTHER -> UNCHANGED <<table, clobbered>> /\ Repoint(t, spoiled[t], {})

\* fflush(NULL), every stream; the monitor then asks for its name.
CallOnNull(t, o) ==
    /\ o = "fflush"
    /\ fd' = [fd EXCEPT ![t] = NoFd]
    /\ own' = [own EXCEPT ![t] = Nothing]
    /\ UNCHANGED <<table, clobbered>>
    /\ Repoint(t, spoiled[t], {})

\* Functions on a path.
CallOnPath(t, o) ==
    /\ o \in PathOps \cup OpenOps \cup StatOps
    /\ fd' = [fd EXCEPT ![t] = NoFd]
    /\ IF o \in OpenOps THEN OpenFile(t) ELSE table' = table
    /\ \E k \in IF o \in StatOps THEN Kinds \cup {None} ELSE {None} :
          own' = [own EXCEPT ![t] = About(o, NoFd, k, NoText)]
    /\ UNCHANGED clobbered
    /\ Repoint(t, spoiled[t], {})

\* The BEGIN_MON macros: the real function first; fclose alone looks its name up before.
Call(t, o) ==
    /\ ~crashed /\ pc[t] = "idle"
    /\ calls < MaxCalls /\ calls' = calls + 1
    /\ CallOnNull(t, o) \/ CallOnPath(t, o) \/ \E d \in Fds : CallOnFd(t, o, d)
    /\ op' = [op EXCEPT ![t] = o]
    /\ pc' = [pc EXCEPT ![t] = AfterCall(o)]
    /\ UNCHANGED <<monitor_output, crashed, statics, n, fp, shown>>

\* readdir at the end of the directory writes no line; nothing else changes.
EndOfDirectory(t) ==
    /\ ~crashed /\ pc[t] = "path" /\ op[t] = "readdir"
    /\ pc' = [pc EXCEPT ![t] = "idle"]
    /\ op' = [op EXCEPT ![t] = None]
    /\ fd' = [fd EXCEPT ![t] = NoFd]
    /\ own' = [own EXCEPT ![t] = Nothing]
    /\ spoiled' = [spoiled EXCEPT ![t] = {}]
    /\ UNCHANGED <<process, statics, n, fp, shown>>

-----------------------------------------------------------------------------
(* What the line will show. *)

At(t, p) == ~crashed /\ pc[t] = p

\* Thread t goes on to p; nothing of its call changes.
Goto(t, p) ==
    /\ pc' = [pc EXCEPT ![t] = p]
    /\ UNCHANGED <<op, fd, own, fp, shown>>

AfterName(o) == IF o = "fclose" THEN "close" ELSE "fopen"

\* fd_to_filename: the standard streams have names of their own,
\* the others a path under /proc/self/fd.
FormatStd(t) ==
    /\ At(t, "path") /\ fd[t] \in {1, 2}
    /\ filename' = Std[fd[t]]
    /\ Begin(t, "name")
    /\ Goto(t, AfterName(op[t]))
    /\ UNCHANGED <<process, fd_path, statBufs, textBufs, n>>
FormatPath(t) ==
    /\ At(t, "path") /\ fd[t] \notin {1, 2} /\ ~(op[t] = "fflush" /\ fd[t] = NoFd)
    /\ fd_path' = fd[t]
    /\ Begin(t, "name")
    /\ Goto(t, "link")
    /\ UNCHANGED <<process, filename, statBufs, textBufs, n>>
\* get_file_name(NULL)
NullStream(t) ==
    /\ At(t, "path") /\ op[t] = "fflush" /\ fd[t] = NoFd
    /\ crashed' = TRUE
    /\ UNCHANGED <<monitor_output, calls, table, clobbered, statics, pc, op, fd, n, fp, shown, own, spoiled>>

\* readlink fills the buffer without ending it, or fails and leaves it as it was.
ReadLink(t) ==
    /\ At(t, "link")
    /\ LET found == fd_path # NoFd /\ table[fd_path] # Free
       IN  /\ n' = [n EXCEPT ![t] = IF found THEN table[fd_path] ELSE None]
           /\ filename' = IF found THEN Torn ELSE filename
    /\ Touch(t, "name")
    /\ Goto(t, "term")
    /\ UNCHANGED <<process, fd_path, statBufs, textBufs>>

\* Mutant: the name is not ended.
EndNameUnended(t) ==
    /\ At(t, "term")
    /\ n' = [n EXCEPT ![t] = None]
    /\ Touch(t, "name")
    /\ Goto(t, AfterName(op[t]))
    /\ UNCHANGED <<process, nameBufs, statBufs, textBufs>>

\* filename[n] = 0; after a failure the byte lies before the buffer.
EndName(t) ==
    /\ At(t, "term")
    /\ filename' \in IF n[t] = None THEN {filename}
                     ELSE IF "name" \in spoiled[t] THEN {n[t], filename, Torn} ELSE {n[t]}
    /\ n' = [n EXCEPT ![t] = None]
    /\ Touch(t, "name")
    /\ Goto(t, AfterName(op[t]))
    /\ UNCHANGED <<process, fd_path, statBufs, textBufs>>

\* Mutant: what strncpy leaves in buff1, one byte short.
StrncpyShort(s) == SubSeq(s, 1, Len(s) - 1) \o SubSeq(buff1, Len(s), Len(buff1))

Strncpy(s) == s \o SubSeq(buff1, Len(s) + 1, Len(buff1))

\* convert_to_verbose_newline: strncpy writes no terminator, so what a longer text
\* left in buff1 stays behind a shorter one.
CopyText(t) ==
    /\ At(t, "strncpy")
    /\ LET s == own[t].text
       IN  IF s = NoText
           THEN UNCHANGED <<buff1, spoiled>> /\ Goto(t, "path")
           ELSE /\ buff1' = Strncpy(s)
                /\ Begin(t, "text")
                /\ Goto(t, "snprintf")
    /\ UNCHANGED <<process, nameBufs, statBufs, buff2, n>>
AddNewline(t) ==
    /\ At(t, "snprintf")
    /\ buff2' = buff1
    /\ Touch(t, "text")
    /\ Goto(t, "path")
    /\ UNCHANGED <<process, nameBufs, statBufs, buff1, n>>

\* What thread t reads from a static buffer that holds x: x, or a mixture if another
\* thread has been writing it.
Seen(t, g, x) == IF g \in spoiled[t] THEN {x, Torn} ELSE {x}

\* get_verbose_stat; the struct of a call that failed holds anything.
StatType(t) ==
    /\ At(t, "type")
    /\ type' \in IF own[t].stat = None THEN Kinds ELSE {own[t].stat}
    /\ Begin(t, "stat")
    /\ Goto(t, "buff")
    /\ UNCHANGED <<process, nameBufs, buff, textBufs, n>>
StatBuff(t) ==
    /\ At(t, "buff")
    /\ buff' \in Seen(t, "stat", type)
    /\ Touch(t, "stat")
    /\ Goto(t, "fopen")
    /\ UNCHANGED <<process, nameBufs, type, textBufs, n>>

\* fclose's real call, once its stream has been named.
CloseStream(t) ==
    /\ At(t, "close")
    /\ CloseFd(t, fd[t])
    /\ Goto(t, "fopen")
    /\ UNCHANGED <<monitor_output, calls, crashed, statics, n>>

-----------------------------------------------------------------------------
(* write_msg *)

\* fopen takes a descriptor; a log that cannot be opened is written to all the same.
OpenLog(t) ==
    /\ At(t, "fopen") /\ monitor_output
    /\ \/ /\ \E d \in Lowest : /\ fp' = [fp EXCEPT ![t] = d]
                                /\ table' = [table EXCEPT ![d] = Log]
          /\ pc' = [pc EXCEPT ![t] = "print"]
          /\ UNCHANGED crashed
       \/ /\ FreeFds = {}
          /\ crashed' = TRUE
          /\ UNCHANGED <<fp, table, pc>>
    /\ UNCHANGED <<monitor_output, calls, clobbered, statics, op, fd, n, shown, own, spoiled>>
UseStderr(t) ==
    /\ At(t, "fopen") /\ ~monitor_output
    /\ Goto(t, "print")
    /\ UNCHANGED <<process, statics, n, spoiled>>

\* vfprintf reads the static buffers only now.
PrintLine(t) ==
    /\ At(t, "print")
    /\ \E x \in IF op[t] \in NamedOps THEN Seen(t, "name", filename) ELSE {None},
          y \in IF op[t] \in StatOps THEN Seen(t, "stat", buff) ELSE {None},
          z \in IF own[t].text # NoText THEN {buff2} ELSE {NoText} :
          shown' = [shown EXCEPT ![t] = [name |-> x, stat |-> y, text |-> z]]
    /\ pc' = [pc EXCEPT ![t] = "fclose"]
    /\ UNCHANGED <<process, statics, op, fd, n, fp, own, spoiled>>

\* Mutants: the log stays open; the caller's stream is closed for it.
ClosedLeak(t) == {}
ClosedCallers(t) == {fd[t]} \ {NoFd}

\* The log is closed by the number it was opened with, and the call returns.
Closed(t) == {fp[t]} \ {NoFd}
CloseLog(t) ==
    /\ At(t, "fclose")
    /\ table' = [d \in Fds |-> IF d \in Closed(t) THEN Free ELSE table[d]]
    /\ pc' = [pc EXCEPT ![t] = "idle"]
    /\ op' = [op EXCEPT ![t] = None]
    /\ fd' = [fd EXCEPT ![t] = NoFd]
    /\ fp' = [fp EXCEPT ![t] = NoFd]
    /\ shown' = [shown EXCEPT ![t] = Nothing]
    /\ own' = [own EXCEPT ![t] = Nothing]
    /\ Repoint(t, {}, Closed(t))
    /\ UNCHANGED <<monitor_output, calls, crashed, clobbered, statics, n>>

-----------------------------------------------------------------------------
Next == \E t \in Threads :
    \/ \E o \in Ops : Call(t, o)
    \/ EndOfDirectory(t)
    \/ FormatStd(t) \/ FormatPath(t) \/ NullStream(t) \/ ReadLink(t) \/ EndName(t)
    \/ CopyText(t) \/ AddNewline(t) \/ StatType(t) \/ StatBuff(t)
    \/ CloseStream(t)
    \/ OpenLog(t) \/ UseStderr(t) \/ PrintLine(t) \/ CloseLog(t)

Spec == Init /\ [][Next]_vars

-----------------------------------------------------------------------------
(* Properties *)

\* Every line names what its call was about - the file behind the descriptor, the type
\* of the file - unless another thread has meanwhile used the same static buffers or
\* given the descriptor away, and except for closedir, which looks the descriptor up
\* after closing it.  In particular fclose names the file although it is closed by then.
LineTrue == \A t \in Threads : pc[t] = "fclose" /\ op[t] # "closedir" =>
    /\ own[t].name # None /\ spoiled[t] \cap {"name", "fd"} = {} => shown[t].name = own[t].name
    /\ own[t].stat # None /\ "stat" \notin spoiled[t] => shown[t].stat = own[t].stat

\* A text shown by fgets, fscanf or fprintf begins with the caller's text, undisturbed
\* calls of other threads provided; what follows may be the rest of an earlier one.
Begins(x, s) == Len(s) <= Len(x) /\ \A i \in 1 .. Len(s) : x[i] = s[i]
TextBegins == \A t \in Threads : pc[t] = "fclose" /\ "text" \notin spoiled[t] =>
    Begins(shown[t].text, own[t].text)

\* The log's descriptors are those of the threads that are between write_msg's fopen and
\* its fclose, one each: none leaks, whatever the calls return.
Writing == {t \in Threads : pc[t] \in {"print", "fclose"}}
LogHeld == ~clobbered =>
    /\ {d \in Fds : table[d] = Log} = {fp[t] : t \in Writing} \ {NoFd}
    /\ \A t, u \in Writing : fp[t] = fp[u] => t = u \/ fp[t] = NoFd

\* A process with a descriptor to spare for every thread is never killed by its monitor
\* for want of one; flushing all streams at once is the other way to die.
Used == {d \in Fds : Mine(d)}
CrashNeedsFull == crashed /\ ~clobbered =>
    \/ \E t \in Threads : op[t] = "fflush" /\ fd[t] = NoFd
    \/ Cardinality(Used) + Cardinality(Threads) > Cardinality(Fds)

\* The program's own descriptors change only as they would without the monitor: by one
\* open, close or dup at a time, at the moment of the real call and at no other, and a new
\* one is the lowest that is free.  The log shows through in one way: a number that another
\* thread's log has at that moment is passed over.  A program that has itself closed or
\* duplicated a descriptor of another thread's log (clobbered) is not spoken of: there the
\* monitor may close a file of the program's.
AppTable == [d \in Fds |-> IF table[d] = Log THEN Free ELSE table[d]]
LogFds == {d \in Fds : table[d] = Log}
Plain == INSTANCE Descriptors WITH table <- AppTable
RealCall == \E t \in Threads : pc[t] \in {"idle", "close"} /\ pc'[t] # pc[t]
Transparent == [][clobbered' \/ (RealCall /\ Plain!Next(LogFds))]_AppTable

-----------------------------------------------------------------------------
(* The inductive invariant: at every step of a call, what the next step will read. *)

\* Only some functions come by each step.
PhasesOf(t) ==
    /\ pc[t] \in {"path", "link", "term", "strncpy", "snprintf", "close"} => op[t] \in NamedOps
    /\ pc[t] = "close" => op[t] = "fclose"
    /\ op[t] = "fclose" => fd[t] # NoFd
    /\ pc[t] \in {"type", "buff"} => op[t] \in StatOps
    /\ pc[t] = "snprintf" => own[t].text # NoText
    /\ own[t].name # None => op[t] \in NamedOps
    /\ own[t].stat # None => op[t] \in StatOps
    /\ own[t].text # NoText => op[t] \in TextOps
    /\ fp[t] # NoFd => pc[t] \in {"print", "fclose"}
Phases == \A t \in Threads : PhasesOf(t)

\* The descriptor still leads to what the call was about.
FdLeads(t) == fd[t] # NoFd /\ own[t].name = IF fd[t] \in {1, 2} THEN Std[fd[t]] ELSE table[fd[t]]

NameSafe(t) == own[t].name # None /\ op[t] # "closedir" /\ "fd" \notin spoiled[t] =>
    /\ pc[t] \in {"strncpy", "snprintf", "path"} => FdLeads(t)
    /\ "name" \notin spoiled[t] =>
          /\ pc[t] = "link" => FdLeads(t) /\ fd_path = fd[t] /\ fd[t] \notin {1, 2}
          /\ pc[t] = "term" => n[t] = own[t].name
          /\ pc[t] \in {"close", "fopen", "print"} => filename = own[t].name
          /\ pc[t] = "fclose" => shown[t].name = own[t].name

StatSafe(t) == own[t].stat # None /\ "stat" \notin spoiled[t] =>
    /\ pc[t] = "buff" => type = own[t].stat
    /\ pc[t] \in {"fopen", "print"} => buff = own[t].stat
    /\ pc[t] = "fclose" => shown[t].stat = own[t].stat

TextSafe(t) == "text" \notin spoiled[t] =>
    /\ pc[t] = "snprintf" => Begins(buff1, own[t].text)
    /\ pc[t] \in {"path", "link", "term", "fopen", "print"} /\ own[t].text # NoText
          => Begins(buff2, own[t].text)
    /\ pc[t] = "fclose" => Begins(shown[t].text, own[t].text)

FsmonInv ==
    /\ TypeOK /\ Phases
    /\ \A t \in Threads : NameSafe(t) /\ StatSafe(t) /\ TextSafe(t)
    /\ LogHeld /\ CrashNeedsFull

\* closedir's line names the directory: "the dir name should be retreived before closed".
ClosedirNamed == \A t \in Threads :
    pc[t] = "fclose" /\ op[t] = "closedir" => shown[t].name = own[t].name
=============================================================================
