---------------------------- MODULE FsmonProofs -----------------------------
(***************************************************************************)
(* Proofs about module Fsmon, for any number of threads, descriptors,      *)
(* files and calls.                                                        *)
(***************************************************************************)
EXTENDS Fsmon, FiniteSetTheorems, SequenceTheorems, TLAPS

OwnType == [name : Names \cup {None, Std[1], Std[2]}, stat : Kinds \cup {None}, text : Seq(Nat)]

ShownType == [name : Names \cup {Log, Empty, Torn, None, Std[1], Std[2]},
              stat : Kinds \cup {Empty, Torn, None}, text : Seq(Nat)]

\* What the real call of thread t may do to the table and to the calls of the others.
TableStep(t) ==
    /\ table' \in [Fds -> Names \cup {Free, Log}]
    /\ clobbered' \in BOOLEAN
    /\ spoiled' \in [Threads -> SUBSET {"fd", "name", "stat", "text"}]
    /\ \A u \in Threads : spoiled[u] \subseteq spoiled'[u]
    /\ \A u \in Threads, d \in Fds :
          u # t /\ fd[u] = d /\ Mine(d) /\ "fd" \notin spoiled'[u] => table'[d] = table[d]
    /\ ~clobbered' => /\ ~clobbered
                      /\ \A d \in Fds : table'[d] = Log <=> table[d] = Log

LEMMA CloseFdStep ==
    ASSUME TypeOK, NEW t \in Threads, NEW d \in Fds, CloseFd(t, d)
    PROVE  TableStep(t)
BY FsmonAssumption DEF TypeOK, CloseFd, Repoint, TableStep, Mine, Free, Log

LEMMA DupFdStep ==
    ASSUME TypeOK, NEW t \in Threads, NEW d \in Fds, DupFd(t, d)
    PROVE  TableStep(t)
<1>1. CASE table' = table
    BY <1>1 DEF TypeOK, DupFd, Repoint, TableStep
<1>2. ASSUME NEW e \in Fds, table[e] = Free, table' = [table EXCEPT ![e] = table[d]]
      PROVE  TableStep(t)
    BY <1>2, FsmonAssumption DEF TypeOK, DupFd, Repoint, TableStep, Mine, Free, Log
<1>. QED BY <1>1, <1>2 DEF DupFd, Lowest, FreeFds

LEMMA Dup2FdStep ==
    ASSUME TypeOK, NEW t \in Threads, NEW d \in Fds, NEW e \in Fds, Dup2Fd(t, d, e)
    PROVE  TableStep(t)
<1>1. CASE table[d] = Free
    BY <1>1, FsmonAssumption DEF TypeOK, Dup2Fd, Repoint, TableStep, Mine, Free, Log
<1>2. CASE table[d] # Free
    BY <1>2, FsmonAssumption DEF TypeOK, Dup2Fd, Repoint, TableStep, Mine, Free, Log
<1>. QED BY <1>1, <1>2

LEMMA SameTableStep ==
    ASSUME TypeOK, NEW t \in Threads, UNCHANGED <<table, clobbered>>, Repoint(t, spoiled[t], {})
    PROVE  TableStep(t)
BY FsmonAssumption DEF TypeOK, Repoint, TableStep

LEMMA OpenFileStep ==
    ASSUME TypeOK, NEW t \in Threads, OpenFile(t), UNCHANGED clobbered, Repoint(t, spoiled[t], {})
    PROVE  TableStep(t)
<1>1. CASE table' = table
    BY <1>1, SameTableStep
<1>2. ASSUME NEW x \in Names, NEW e \in Fds, table[e] = Free, table' = [table EXCEPT ![e] = x]
      PROVE  TableStep(t)
    <2>1. x # Log /\ x # Free BY FsmonAssumption
    <2>. QED BY <1>2, <2>1, FsmonAssumption DEF TypeOK, Repoint, TableStep, Mine, Free, Log
<1>. QED BY <1>1, <1>2 DEF OpenFile, Lowest, FreeFds

\* What a call is about, when it has just been made.
CallMade(t, o) ==
    /\ TableStep(t)
    /\ fd' \in [Threads -> Fds \cup {NoFd}]
    /\ own' \in [Threads -> OwnType]
    /\ \A u \in Threads : u # t => fd'[u] = fd[u] /\ own'[u] = own[u]
    /\ o = "fclose" => fd'[t] \in Fds
    /\ own'[t].stat # None => o \in StatOps
    /\ own'[t].text # NoText => o \in TextOps
    /\ own'[t].name # None => o \in NamedOps
    /\ own'[t].name # None /\ o # "closedir" =>
          /\ fd'[t] \in Fds
          /\ own'[t].name = IF fd'[t] \in {1, 2} THEN Std[fd'[t]] ELSE table'[fd'[t]]

LEMMA AboutIs ==
    ASSUME TypeOK, NEW o \in Ops, NEW d \in Fds \cup {NoFd}, NEW k \in Kinds \cup {None},
           NEW s \in Seq(Nat)
    PROVE  /\ About(o, d, k, s) \in OwnType
           /\ About(o, d, k, s).stat = k /\ About(o, d, k, s).text = s
           /\ About(o, d, k, s).name # None => o \in NamedOps /\ d \in Fds
           /\ About(o, d, k, s).name # None => About(o, d, k, s).name =
                 IF d \in {1, 2} THEN Std[d] ELSE table[d]
BY FsmonAssumption DEF TypeOK, OwnType, About, Mine, None, NoFd, Std, Free, Log

LEMMA CallOnFdMade ==
    ASSUME TypeOK, NEW t \in Threads, NEW o \in Ops, NEW d \in Fds, CallOnFd(t, o, d)
    PROVE  CallMade(t, o)
<1>. USE FsmonAssumption, OpsAssumption
<1>1. TableStep(t)
    <2>1. CASE o \in ClosingOps BY <2>1, CloseFdStep DEF CallOnFd, ClosingOps
    <2>2. CASE o = "dup" BY <2>2, DupFdStep DEF CallOnFd, ClosingOps
    <2>3. CASE o = "dup2" BY <2>3, Dup2FdStep DEF CallOnFd, ClosingOps
    <2>4. CASE o \notin ClosingOps \cup {"dup", "dup2"}
        BY <2>4, SameTableStep DEF CallOnFd, ClosingOps
    <2>. QED BY <2>1, <2>2, <2>3, <2>4
<1>2. PICK s \in IF o \in TextOps THEN Texts \cup {NoText} ELSE {NoText} :
          own' = [own EXCEPT ![t] = About(o, d, None, s)]
    BY DEF CallOnFd
<1>3. s \in Seq(Nat) /\ (s # NoText => o \in TextOps)
    <2>1. NoText \in Seq(Nat) BY DEF NoText
    <2>2. Texts \subseteq Seq(Nat) OBVIOUS
    <2>. QED BY <2>1, <2>2
<1>4. PICK e \in NamedFd(o, d) : fd' = [fd EXCEPT ![t] = e]
    BY DEF CallOnFd
<1>5. e \in Fds \cup {NoFd} /\ (o \in NamedOps /\ o # "closedir" => e = d)
    BY DEF NamedFd
<1>6. o \in NamedOps /\ o # "closedir" => table' = table
    BY DEF CallOnFd, NamedOps, ClosingOps, StreamOps, TextOps
<1>7. /\ own' \in [Threads -> OwnType]
      /\ \A u \in Threads : u # t => own'[u] = own[u]
      /\ own'[t] = About(o, d, None, s)
    <2>1. About(o, d, None, s) \in OwnType BY <1>3, AboutIs
    <2>. QED BY <1>2, <2>1 DEF TypeOK, OwnType
<1>8. /\ fd' \in [Threads -> Fds \cup {NoFd}]
      /\ \A u \in Threads : u # t => fd'[u] = fd[u]
      /\ fd'[t] = e
    BY <1>4, <1>5 DEF TypeOK
<1>9. /\ own'[t].stat = None /\ own'[t].text = s
      /\ own'[t].name # None => o \in NamedOps /\ own'[t].name = IF d \in {1, 2} THEN Std[d] ELSE table[d]
    BY <1>7, <1>3, AboutIs
<1>10. o = "fclose" => e = d
    BY <1>5 DEF NamedOps
<1>. QED BY <1>1, <1>3, <1>5, <1>6, <1>7, <1>8, <1>9, <1>10 DEF CallMade

LEMMA CallOnPathMade ==
    ASSUME TypeOK, NEW t \in Threads, NEW o \in Ops, CallOnPath(t, o)
    PROVE  CallMade(t, o)
<1>. USE FsmonAssumption, OpsAssumption
<1>1. TableStep(t)
    <2>1. CASE o \in OpenOps BY <2>1, OpenFileStep DEF CallOnPath
    <2>2. CASE o \notin OpenOps BY <2>2, SameTableStep DEF CallOnPath
    <2>. QED BY <2>1, <2>2
<1>2. PICK k \in IF o \in StatOps THEN Kinds \cup {None} ELSE {None} :
          own' = [own EXCEPT ![t] = About(o, NoFd, k, NoText)]
    BY DEF CallOnPath
<1>3. k \in Kinds \cup {None} /\ (k # None => o \in StatOps) /\ NoText \in Seq(Nat)
    BY DEF NoText
<1>4. /\ own' \in [Threads -> OwnType]
      /\ \A u \in Threads : u # t => own'[u] = own[u]
      /\ own'[t] = About(o, NoFd, k, NoText)
    <2>1. About(o, NoFd, k, NoText) \in OwnType BY <1>3, AboutIs
    <2>. QED BY <1>2, <2>1 DEF TypeOK, OwnType
<1>5. /\ own'[t].stat = k /\ own'[t].text = NoText
      /\ own'[t].name # None => NoFd \in Fds
    <2>1. /\ About(o, NoFd, k, NoText).stat = k /\ About(o, NoFd, k, NoText).text = NoText
          /\ About(o, NoFd, k, NoText).name = None
        BY DEF About
    <2>. QED BY <2>1, <1>4
<1>6. NoFd \notin Fds OBVIOUS
<1>7. fd' \in [Threads -> Fds \cup {NoFd}] /\ \A u \in Threads : u # t => fd'[u] = fd[u]
    BY DEF TypeOK, CallOnPath
<1>8. o # "fclose" BY DEF CallOnPath, PathOps, OpenOps, StatOps
<1>. QED BY <1>1, <1>3, <1>4, <1>5, <1>6, <1>7, <1>8 DEF CallMade

LEMMA CallOnNullMade ==
    ASSUME TypeOK, NEW t \in Threads, NEW o \in Ops, CallOnNull(t, o)
    PROVE  CallMade(t, o)
<1>1. TableStep(t) BY SameTableStep DEF CallOnNull
<1>2. Nothing \in OwnType BY DEF Nothing, OwnType, NoText
<1>3. /\ own' \in [Threads -> OwnType]
      /\ \A u \in Threads : u # t => own'[u] = own[u]
      /\ own'[t] = Nothing
    BY <1>2 DEF CallOnNull, TypeOK, OwnType
<1>4. fd' \in [Threads -> Fds \cup {NoFd}] /\ \A u \in Threads : u # t => fd'[u] = fd[u]
    BY DEF TypeOK, CallOnNull
<1>5. own'[t].name = None /\ own'[t].stat = None /\ own'[t].text = NoText
    BY <1>3 DEF Nothing
<1>6. o # "fclose" BY DEF CallOnNull
<1>. QED BY <1>1, <1>3, <1>4, <1>5, <1>6 DEF CallMade

LEMMA CallIsMade ==
    ASSUME TypeOK, NEW t \in Threads, NEW o \in Ops, Call(t, o)
    PROVE  CallMade(t, o)
BY CallOnFdMade, CallOnPathMade, CallOnNullMade DEF Call
\* strncpy leaves the text at the front of the buffer, whatever was there before.
LEMMA StrncpyIs ==
    ASSUME TypeOK, NEW t \in Threads
    PROVE  Strncpy(own[t].text) \in Seq(Nat) /\ Begins(Strncpy(own[t].text), own[t].text)
<1>1. own[t].text \in Seq(Nat) BY DEF TypeOK
<1>2. SubSeq(buff1, Len(own[t].text) + 1, Len(buff1)) \in Seq(Nat) BY <1>1 DEF TypeOK
<1>3. ASSUME NEW s \in Seq(Nat), NEW r \in Seq(Nat)
      PROVE  s \o r \in Seq(Nat) /\ Begins(s \o r, s)
    BY DEF Begins
<1>. QED BY <1>1, <1>2, <1>3 DEF Strncpy

\* Every step keeps the types.
LEMMA TypeNext ==
    ASSUME TypeOK, [Next]_vars
    PROVE  TypeOK'
<1>. USE FsmonAssumption DEF TypeOK, process, statics, nameBufs, statBufs, textBufs
<1>1. ASSUME NEW t \in Threads, NEW o \in Ops, Call(t, o) PROVE TypeOK'
    <2>1. CallMade(t, o) BY <1>1, CallIsMade
    <2>2. AfterCall(o) \in {"strncpy", "path", "type", "fopen"} BY DEF AfterCall
    <2>3. op' \in [Threads -> AllOps \cup {None}] BY <1>1, OpsAssumption DEF Call
    <2>4. pc' \in [Threads -> {"idle", "path", "link", "term", "strncpy", "snprintf", "type",
                               "buff", "close", "fopen", "print", "fclose"}]
        BY <1>1, <2>2 DEF Call
    <2>5. UNCHANGED <<monitor_output, crashed, statics, n, fp, shown>> /\ calls' \in Nat
        BY <1>1 DEF Call
    <2>6. /\ table' \in [Fds -> Names \cup {Free, Log}] /\ clobbered' \in BOOLEAN
          /\ spoiled' \in [Threads -> SUBSET {"fd", "name", "stat", "text"}]
          /\ fd' \in [Threads -> Fds \cup {NoFd}] /\ own' \in [Threads -> OwnType]
        BY <2>1 DEF CallMade, TableStep
    <2>. QED BY <2>3, <2>4, <2>5, <2>6 DEF OwnType
<1>2. ASSUME NEW t \in Threads, EndOfDirectory(t) PROVE TypeOK'
    <2>1. Nothing \in OwnType BY DEF Nothing, OwnType, NoText
    <2>. QED BY <1>2, <2>1 DEF EndOfDirectory, OwnType
<1>3. ASSUME NEW t \in Threads, FormatStd(t) PROVE TypeOK'
    BY <1>3 DEF FormatStd, At, Goto, Begin, AfterName
<1>4. ASSUME NEW t \in Threads, FormatPath(t) PROVE TypeOK'
    BY <1>4 DEF FormatPath, At, Goto, Begin
<1>5. ASSUME NEW t \in Threads, NullStream(t) PROVE TypeOK'
    BY <1>5 DEF NullStream, At
<1>6. ASSUME NEW t \in Threads, ReadLink(t) PROVE TypeOK'
    BY <1>6 DEF ReadLink, At, Goto, Touch
<1>7. ASSUME NEW t \in Threads, EndName(t) PROVE TypeOK'
    BY <1>7 DEF EndName, At, Goto, Touch, AfterName
<1>8. ASSUME NEW t \in Threads, CopyText(t) PROVE TypeOK'
    <2>1. CASE own[t].text = NoText
        BY <1>8, <2>1 DEF CopyText, At, Goto
    <2>2. CASE own[t].text # NoText
        <3>1. Strncpy(own[t].text) \in Seq(Nat)
            BY StrncpyIs
        <3>2. /\ buff1' \in Seq(Nat)
              /\ UNCHANGED <<process, nameBufs, statBufs, buff2, n, op, fd, own, fp, shown>>
              /\ pc' = [pc EXCEPT ![t] = "snprintf"] /\ Begin(t, "text")
            BY <1>8, <2>2, <3>1 DEF CopyText, Goto
        <3>. QED BY <3>2 DEF Begin
    <2>. QED BY <2>1, <2>2
<1>9. ASSUME NEW t \in Threads, AddNewline(t) PROVE TypeOK'
    BY <1>9 DEF AddNewline, At, Goto, Touch
<1>10. ASSUME NEW t \in Threads, StatType(t) PROVE TypeOK'
    BY <1>10 DEF StatType, At, Goto, Begin
<1>11. ASSUME NEW t \in Threads, StatBuff(t) PROVE TypeOK'
    BY <1>11 DEF StatBuff, At, Goto, Touch, Seen
<1>12. ASSUME NEW t \in Threads, CloseStream(t) PROVE TypeOK'
    <2>1. CASE fd[t] \in Fds
        BY <1>12, <2>1, CloseFdStep DEF CloseStream, At, Goto, TableStep
    <2>2. CASE fd[t] = NoFd
        BY <1>12, <2>2 DEF CloseStream, At, Goto, CloseFd, Repoint
    <2>. QED BY <2>1, <2>2
<1>13. ASSUME NEW t \in Threads, OpenLog(t) PROVE TypeOK'
    <2>1. CASE UNCHANGED <<fp, table, pc>>
        BY <1>13, <2>1 DEF OpenLog
    <2>2. ASSUME NEW d \in Fds, fp' = [fp EXCEPT ![t] = d], table' = [table EXCEPT ![d] = Log],
                 pc' = [pc EXCEPT ![t] = "print"], UNCHANGED crashed
          PROVE  TypeOK'
        BY <1>13, <2>2 DEF OpenLog
    <2>. QED BY <1>13, <2>1, <2>2 DEF OpenLog, Lowest, FreeFds
<1>14. ASSUME NEW t \in Threads, UseStderr(t) PROVE TypeOK'
    BY <1>14 DEF UseStderr, At, Goto
<1>15. ASSUME NEW t \in Threads, PrintLine(t) PROVE TypeOK'
    <2>1. PICK x \in IF op[t] \in NamedOps THEN Seen(t, "name", filename) ELSE {None},
                   y \in IF op[t] \in StatOps THEN Seen(t, "stat", buff) ELSE {None},
                   z \in IF own[t].text # NoText THEN {buff2} ELSE {NoText} :
                  shown' = [shown EXCEPT ![t] = [name |-> x, stat |-> y, text |-> z]]
        BY <1>15 DEF PrintLine
    <2>2. x \in Names \cup {Log, Empty, Torn, None, Std[1], Std[2]} BY DEF Seen
    <2>3. y \in Kinds \cup {Empty, Torn, None} BY DEF Seen
    <2>4. NoText \in Seq(Nat) BY DEF NoText
    <2>6. z \in Seq(Nat) BY <2>4
    <2>5. shown' \in [Threads -> ShownType] BY <2>1, <2>2, <2>3, <2>6 DEF ShownType
    <2>. QED BY <1>15, <2>5 DEF PrintLine, At, ShownType
<1>16. ASSUME NEW t \in Threads, CloseLog(t) PROVE TypeOK'
    <2>1. Nothing \in OwnType /\ Nothing \in ShownType BY DEF Nothing, OwnType, NoText, ShownType
    <2>2. own' \in [Threads -> OwnType] /\ shown' \in [Threads -> ShownType]
        BY <1>16, <2>1 DEF CloseLog, OwnType, ShownType
    <2>. QED BY <1>16, <2>2 DEF CloseLog, At, Closed, Repoint, OwnType, ShownType
<1>17. CASE UNCHANGED vars
    BY <1>17 DEF vars, process, statics, nameBufs, statBufs, textBufs
<1>. QED BY <1>1, <1>2, <1>3, <1>4, <1>5, <1>6, <1>7, <1>8, <1>9, <1>10, <1>11, <1>12, <1>13, <1>14, <1>15, <1>16, <1>17 DEF Next
\* Every step keeps the phases apart.
LEMMA PhasesNext ==
    ASSUME TypeOK, Phases, [Next]_vars
    PROVE  Phases'
<1>. USE FsmonAssumption DEF TypeOK, Phases, PhasesOf, process, statics, nameBufs, statBufs, textBufs
<1>1. ASSUME NEW t \in Threads, NEW o \in Ops, Call(t, o) PROVE Phases'
    <2>1. CallMade(t, o) BY <1>1, CallIsMade
    <2>2. /\ AfterCall(o) \in {"strncpy", "path", "type", "fopen"}
          /\ AfterCall(o) = "strncpy" => o \in TextOps
          /\ AfterCall(o) = "path" => o \in NamedOps
          /\ AfterCall(o) = "type" => o \in StatOps
        BY DEF AfterCall
    <2>3. TextOps \subseteq NamedOps BY DEF NamedOps
    <2>4. /\ pc' = [pc EXCEPT ![t] = AfterCall(o)] /\ op' = [op EXCEPT ![t] = o]
          /\ fp' = fp /\ fp[t] = NoFd
        BY <1>1 DEF Call
    <2>5. /\ \A u \in Threads : u # t => fd'[u] = fd[u] /\ own'[u] = own[u]
          /\ o = "fclose" => fd'[t] # NoFd
          /\ own'[t].stat # None => o \in StatOps
          /\ own'[t].text # NoText => o \in TextOps
          /\ own'[t].name # None => o \in NamedOps
        BY <2>1 DEF CallMade
    <2>6. ASSUME NEW u \in Threads, u # t
          PROVE  /\ pc'[u] = pc[u] /\ op'[u] = op[u] /\ fd'[u] = fd[u]
                 /\ own'[u] = own[u] /\ fp'[u] = fp[u]
        BY <2>4, <2>5, <2>6
    <2>7. pc'[t] = AfterCall(o) /\ op'[t] = o /\ fp'[t] = NoFd BY <2>4
    <2>8. ASSUME NEW u \in Threads PROVE PhasesOf(u)'
        <3>1. CASE u = t BY <3>1, <2>2, <2>3, <2>5, <2>7 DEF PhasesOf
        <3>2. CASE u # t BY <3>2, <2>6 DEF PhasesOf
        <3>. QED BY <3>1, <3>2
    <2>. QED BY <2>8 DEF PhasesOf
<1>2. ASSUME NEW t \in Threads, EndOfDirectory(t) PROVE Phases'
    BY <1>2 DEF EndOfDirectory, Nothing, None
<1>3. ASSUME NEW t \in Threads, FormatStd(t) PROVE Phases'
    <2>1. AfterName(op[t]) \in {"close", "fopen"} /\ (AfterName(op[t]) = "close" => op[t] = "fclose")
        BY DEF AfterName
    <2>2. fp[t] = NoFd /\ op[t] \in NamedOps /\ Goto(t, AfterName(op[t])) BY <1>3 DEF FormatStd, At
    <2>. QED BY <2>1, <2>2 DEF Goto
<1>4. ASSUME NEW t \in Threads, FormatPath(t) PROVE Phases'
    BY <1>4 DEF FormatPath, At, Goto
<1>5. ASSUME NEW t \in Threads, NullStream(t) PROVE Phases'
    BY <1>5 DEF NullStream, At
<1>6. ASSUME NEW t \in Threads, ReadLink(t) PROVE Phases'
    BY <1>6 DEF ReadLink, At, Goto
<1>7. ASSUME NEW t \in Threads, EndName(t) PROVE Phases'
    <2>1. AfterName(op[t]) \in {"close", "fopen"} /\ (AfterName(op[t]) = "close" => op[t] = "fclose")
        BY DEF AfterName
    <2>2. fp[t] = NoFd /\ op[t] \in NamedOps /\ Goto(t, AfterName(op[t])) BY <1>7 DEF EndName, At
    <2>. QED BY <2>1, <2>2 DEF Goto
<1>8. ASSUME NEW t \in Threads, CopyText(t) PROVE Phases'
    <2>1. fp[t] = NoFd /\ op[t] \in NamedOps BY <1>8 DEF CopyText, At
    <2>2. CASE own[t].text = NoText
        <3>1. Goto(t, "path") BY <1>8, <2>2 DEF CopyText
        <3>. QED BY <3>1, <2>1 DEF Goto
    <2>3. CASE own[t].text # NoText
        <3>1. Goto(t, "snprintf") BY <1>8, <2>3 DEF CopyText
        <3>. QED BY <3>1, <2>1, <2>3 DEF Goto
    <2>. QED BY <2>2, <2>3
<1>9. ASSUME NEW t \in Threads, AddNewline(t) PROVE Phases'
    BY <1>9 DEF AddNewline, At, Goto, Touch
<1>10. ASSUME NEW t \in Threads, StatType(t) PROVE Phases'
    BY <1>10 DEF StatType, At, Goto, Begin
<1>11. ASSUME NEW t \in Threads, StatBuff(t) PROVE Phases'
    BY <1>11 DEF StatBuff, At, Goto, Touch, Seen
<1>12. ASSUME NEW t \in Threads, CloseStream(t) PROVE Phases'
    BY <1>12 DEF CloseStream, At, Goto
<1>13. ASSUME NEW t \in Threads, OpenLog(t) PROVE Phases'
    BY <1>13 DEF OpenLog, At, Lowest, FreeFds
<1>14. ASSUME NEW t \in Threads, UseStderr(t) PROVE Phases'
    BY <1>14 DEF UseStderr, At, Goto
<1>15. ASSUME NEW t \in Threads, PrintLine(t) PROVE Phases'
    BY <1>15 DEF PrintLine, At
<1>16. ASSUME NEW t \in Threads, CloseLog(t) PROVE Phases'
    BY <1>16 DEF CloseLog, At, Nothing, None
<1>17. CASE UNCHANGED vars
    BY <1>17 DEF vars, process, statics, nameBufs, statBufs, textBufs
<1>. QED BY <1>1, <1>2, <1>3, <1>4, <1>5, <1>6, <1>7, <1>8, <1>9, <1>10, <1>11, <1>12, <1>13, <1>14, <1>15, <1>16, <1>17 DEF Next
\* A call is never about a free descriptor or the log.
LEMMA OwnReal ==
    ASSUME TypeOK, NEW u \in Threads, own[u].name # None
    PROVE  own[u].name \notin {Free, Log}
BY FsmonAssumption DEF TypeOK, Std, Free, Log

\* A descriptor that nobody gives away goes on leading to the same file.
LEMMA FdLeadsOn ==
    ASSUME TypeOK, NEW u \in Threads, own[u].name # None, FdLeads(u),
           fd'[u] = fd[u], own'[u] = own[u],
           fd[u] \in Fds /\ Mine(fd[u]) => table'[fd[u]] = table[fd[u]]
    PROVE  FdLeads(u)'
BY OwnReal DEF TypeOK, FdLeads, Mine

\* What names the file survives every step.
LEMMA NameNext ==
    ASSUME TypeOK, Phases, NEW u \in Threads, NameSafe(u), [Next]_vars
    PROVE  NameSafe(u)'
<1>. USE FsmonAssumption DEF TypeOK, Phases, PhasesOf, NameSafe, FdLeads, process, statics, nameBufs, statBufs, textBufs
<1>1. ASSUME NEW t \in Threads, NEW o \in Ops, Call(t, o) PROVE NameSafe(u)'
    <2>1. CallMade(t, o) BY <1>1, CallIsMade
    <2>2. CASE u = t
        BY <1>1, <2>1, <2>2 DEF Call, CallMade, AfterCall
    <2>3. CASE u # t
        <3>1. /\ fd'[u] = fd[u] /\ own'[u] = own[u] /\ op'[u] = op[u] /\ pc'[u] = pc[u]
              /\ UNCHANGED <<fd_path, filename, n, shown>>
              /\ spoiled[u] \subseteq spoiled'[u]
            BY <1>1, <2>1, <2>3 DEF Call, CallMade, TableStep
        <3>2. own[u].name # None /\ FdLeads(u) /\ "fd" \notin spoiled'[u] => FdLeads(u)'
            <4>1. "fd" \notin spoiled'[u] /\ fd[u] \in Fds /\ Mine(fd[u])
                     => table'[fd[u]] = table[fd[u]]
                BY <2>1, <2>3 DEF CallMade, TableStep
            <4>. HIDE DEF FdLeads, TypeOK
            <4>. QED BY <4>1, <3>1, FdLeadsOn
        <3>. HIDE DEF FdLeads
        <3>. QED BY <3>1, <3>2
    <2>. QED BY <2>2, <2>3
<1>2. ASSUME NEW t \in Threads, EndOfDirectory(t) PROVE NameSafe(u)'
    BY <1>2 DEF EndOfDirectory, Nothing
<1>3. ASSUME NEW t \in Threads, FormatStd(t) PROVE NameSafe(u)'
    BY <1>3 DEF FormatStd, At, Goto, Begin, AfterName
<1>4. ASSUME NEW t \in Threads, FormatPath(t) PROVE NameSafe(u)'
    BY <1>4 DEF FormatPath, At, Goto, Begin
<1>5. ASSUME NEW t \in Threads, NullStream(t) PROVE NameSafe(u)'
    BY <1>5 DEF NullStream, At
<1>6. ASSUME NEW t \in Threads, ReadLink(t) PROVE NameSafe(u)'
    <2>1. CASE u = t
        BY <1>6, <2>1, OwnReal DEF ReadLink, At, Goto, Touch
    <2>2. CASE u # t
        BY <1>6, <2>2 DEF ReadLink, At, Goto, Touch
    <2>. QED BY <2>1, <2>2
<1>7. ASSUME NEW t \in Threads, EndName(t) PROVE NameSafe(u)'
    BY <1>7 DEF EndName, At, Goto, Touch, AfterName
<1>8. ASSUME NEW t \in Threads, CopyText(t) PROVE NameSafe(u)'
    <2>1. CASE own[t].text = NoText
        BY <1>8, <2>1 DEF CopyText, At, Goto
    <2>2. CASE own[t].text # NoText
        <3>1. /\ UNCHANGED <<table, fd_path, filename, n, fd, own, op, shown>> /\ Begin(t, "text")
              /\ pc[t] = "strncpy" /\ pc' = [pc EXCEPT ![t] = "snprintf"]
            BY <1>8, <2>2 DEF CopyText, At, Goto
        <3>. QED BY <3>1 DEF Begin
    <2>. QED BY <2>1, <2>2
<1>9. ASSUME NEW t \in Threads, AddNewline(t) PROVE NameSafe(u)'
    BY <1>9 DEF AddNewline, At, Goto, Touch
<1>10. ASSUME NEW t \in Threads, StatType(t) PROVE NameSafe(u)'
    BY <1>10 DEF StatType, At, Goto, Begin
<1>11. ASSUME NEW t \in Threads, StatBuff(t) PROVE NameSafe(u)'
    BY <1>11 DEF StatBuff, At, Goto, Touch, NamedOps, StatOps, TextOps, StreamOps, PathOps, OpenOps, NumberOps
<1>12. ASSUME NEW t \in Threads, CloseStream(t) PROVE NameSafe(u)'
    <2>1. CASE u = t
        BY <1>12, <2>1 DEF CloseStream, At, Goto, CloseFd, Repoint
    <2>2. CASE u # t
        <3>1. TableStep(t) /\ UNCHANGED <<fd_path, filename, n, shown, fd, own, op>> /\ pc'[u] = pc[u]
            BY <1>12, <2>2, CloseFdStep DEF CloseStream, At, Goto
        <3>2. own[u].name # None /\ FdLeads(u) /\ "fd" \notin spoiled'[u] => FdLeads(u)'
            <4>. HIDE DEF FdLeads, TypeOK
            <4>. QED BY <3>1, <2>2, FdLeadsOn DEF TableStep
        <3>. HIDE DEF FdLeads
        <3>. QED BY <3>1, <3>2 DEF TableStep
    <2>. QED BY <2>1, <2>2
<1>13. ASSUME NEW t \in Threads, OpenLog(t) PROVE NameSafe(u)'
    <2>1. /\ UNCHANGED <<fd_path, filename, n, shown, fd, own, op, spoiled>>
          /\ pc'[u] = pc[u] \/ (pc[u] = "fopen" /\ pc'[u] = "print")
        BY <1>13 DEF OpenLog, At
    <2>2. own[u].name # None /\ FdLeads(u) => FdLeads(u)'
        <3>1. \A d \in Fds : Mine(d) => table'[d] = table[d]
            BY <1>13 DEF OpenLog, Lowest, FreeFds, Mine
        <3>. HIDE DEF FdLeads, TypeOK
        <3>. QED BY <2>1, <3>1, FdLeadsOn
    <2>. HIDE DEF FdLeads
    <2>. QED BY <2>1, <2>2
<1>14. ASSUME NEW t \in Threads, UseStderr(t) PROVE NameSafe(u)'
    BY <1>14 DEF UseStderr, At, Goto
<1>15. ASSUME NEW t \in Threads, PrintLine(t) PROVE NameSafe(u)'
    <2>1. /\ UNCHANGED <<fd_path, filename, n, table, fd, own, op, spoiled>>
          /\ u # t => pc'[u] = pc[u] /\ shown'[u] = shown[u]
          /\ u = t => pc[u] = "print" /\ pc'[u] = "fclose"
        BY <1>15 DEF PrintLine, At
    <2>2. u = t /\ op[t] \in NamedOps /\ "name" \notin spoiled[t] => shown'[u].name = filename
        <3>1. PICK x \in IF op[t] \in NamedOps THEN Seen(t, "name", filename) ELSE {None},
                   y \in IF op[t] \in StatOps THEN Seen(t, "stat", buff) ELSE {None},
                   z \in IF own[t].text # NoText THEN {buff2} ELSE {NoText} :
                  shown' = [shown EXCEPT ![t] = [name |-> x, stat |-> y, text |-> z]]
            BY <1>15 DEF PrintLine
        <3>. QED BY <3>1 DEF Seen
    <2>. QED BY <2>1, <2>2
<1>16. ASSUME NEW t \in Threads, CloseLog(t) PROVE NameSafe(u)'
    BY <1>16 DEF CloseLog, At, Nothing, Closed, Repoint
<1>17. CASE UNCHANGED vars
    BY <1>17 DEF vars, process, statics, nameBufs, statBufs, textBufs
<1>. QED BY <1>1, <1>2, <1>3, <1>4, <1>5, <1>6, <1>7, <1>8, <1>9, <1>10, <1>11, <1>12, <1>13, <1>14, <1>15, <1>16, <1>17 DEF Next

\* What shows the file's type survives every step.
LEMMA StatNext ==
    ASSUME TypeOK, Phases, NEW u \in Threads, StatSafe(u), [Next]_vars
    PROVE  StatSafe(u)'
<1>. USE FsmonAssumption DEF TypeOK, Phases, PhasesOf, StatSafe, process, statics, nameBufs, statBufs, textBufs
<1>1. ASSUME NEW t \in Threads, NEW o \in Ops, Call(t, o) PROVE StatSafe(u)'
    <2>1. CallMade(t, o) BY <1>1, CallIsMade
    <2>2. CASE u = t
        BY <1>1, <2>1, <2>2 DEF Call, CallMade, AfterCall, NamedOps, StatOps, TextOps, StreamOps, PathOps, OpenOps, NumberOps
    <2>3. CASE u # t
        BY <1>1, <2>1, <2>3 DEF Call, CallMade, TableStep
    <2>. QED BY <2>2, <2>3
<1>2. ASSUME NEW t \in Threads, EndOfDirectory(t) PROVE StatSafe(u)'
    BY <1>2 DEF EndOfDirectory, Nothing
<1>3. ASSUME NEW t \in Threads, FormatStd(t) PROVE StatSafe(u)'
    BY <1>3 DEF FormatStd, At, Goto, Begin, AfterName, NamedOps, StatOps, TextOps, StreamOps, PathOps, OpenOps, NumberOps
<1>4. ASSUME NEW t \in Threads, FormatPath(t) PROVE StatSafe(u)'
    BY <1>4 DEF FormatPath, At, Goto, Begin
<1>5. ASSUME NEW t \in Threads, NullStream(t) PROVE StatSafe(u)'
    BY <1>5 DEF NullStream, At
<1>6. ASSUME NEW t \in Threads, ReadLink(t) PROVE StatSafe(u)'
    BY <1>6 DEF ReadLink, At, Goto, Touch
<1>7. ASSUME NEW t \in Threads, EndName(t) PROVE StatSafe(u)'
    BY <1>7 DEF EndName, At, Goto, Touch, AfterName, NamedOps, StatOps, TextOps, StreamOps, PathOps, OpenOps, NumberOps
<1>8. ASSUME NEW t \in Threads, CopyText(t) PROVE StatSafe(u)'
    <2>1. CASE own[t].text = NoText
        BY <1>8, <2>1 DEF CopyText, At, Goto
    <2>2. CASE own[t].text # NoText
        <3>1. /\ UNCHANGED <<type, buff, own, op, shown>> /\ Begin(t, "text")
              /\ pc[t] = "strncpy" /\ pc' = [pc EXCEPT ![t] = "snprintf"]
            BY <1>8, <2>2 DEF CopyText, At, Goto
        <3>. QED BY <3>1 DEF Begin
    <2>. QED BY <2>1, <2>2
<1>9. ASSUME NEW t \in Threads, AddNewline(t) PROVE StatSafe(u)'
    BY <1>9 DEF AddNewline, At, Goto, Touch
<1>10. ASSUME NEW t \in Threads, StatType(t) PROVE StatSafe(u)'
    BY <1>10 DEF StatType, At, Goto, Begin
<1>11. ASSUME NEW t \in Threads, StatBuff(t) PROVE StatSafe(u)'
    BY <1>11 DEF StatBuff, At, Goto, Touch, Seen
<1>12. ASSUME NEW t \in Threads, CloseStream(t) PROVE StatSafe(u)'
    BY <1>12 DEF CloseStream, At, Goto, CloseFd, Repoint, NamedOps, StatOps, TextOps, StreamOps, PathOps, OpenOps, NumberOps
<1>13. ASSUME NEW t \in Threads, OpenLog(t) PROVE StatSafe(u)'
    BY <1>13 DEF OpenLog, At, Lowest, FreeFds
<1>14. ASSUME NEW t \in Threads, UseStderr(t) PROVE StatSafe(u)'
    BY <1>14 DEF UseStderr, At, Goto
<1>15. ASSUME NEW t \in Threads, PrintLine(t) PROVE StatSafe(u)'
    <2>1. /\ UNCHANGED <<type, buff, own, op, spoiled>>
          /\ u # t => pc'[u] = pc[u] /\ shown'[u] = shown[u]
          /\ u = t => pc[u] = "print" /\ pc'[u] = "fclose"
        BY <1>15 DEF PrintLine, At
    <2>2. u = t /\ op[t] \in StatOps /\ "stat" \notin spoiled[t] => shown'[u].stat = buff
        <3>1. PICK x \in IF op[t] \in NamedOps THEN Seen(t, "name", filename) ELSE {None},
                   y \in IF op[t] \in StatOps THEN Seen(t, "stat", buff) ELSE {None},
                   z \in IF own[t].text # NoText THEN {buff2} ELSE {NoText} :
                  shown' = [shown EXCEPT ![t] = [name |-> x, stat |-> y, text |-> z]]
            BY <1>15 DEF PrintLine
        <3>. QED BY <3>1 DEF Seen
    <2>. QED BY <2>1, <2>2
<1>16. ASSUME NEW t \in Threads, CloseLog(t) PROVE StatSafe(u)'
    BY <1>16 DEF CloseLog, At, Nothing, Closed, Repoint
<1>17. CASE UNCHANGED vars
    BY <1>17 DEF vars, process, statics, nameBufs, statBufs, textBufs
<1>. QED BY <1>1, <1>2, <1>3, <1>4, <1>5, <1>6, <1>7, <1>8, <1>9, <1>10, <1>11, <1>12, <1>13, <1>14, <1>15, <1>16, <1>17 DEF Next
\* What shows the caller's text survives every step.
LEMMA TextNext ==
    ASSUME TypeOK, Phases, NEW u \in Threads, TextSafe(u), [Next]_vars
    PROVE  TextSafe(u)'
<1>. USE FsmonAssumption DEF TypeOK, Phases, PhasesOf, TextSafe, process, statics, nameBufs, statBufs, textBufs
<1>1. ASSUME NEW t \in Threads, NEW o \in Ops, Call(t, o) PROVE TextSafe(u)'
    <2>1. CallMade(t, o) BY <1>1, CallIsMade
    <2>2. CASE u = t
        BY <1>1, <2>1, <2>2 DEF Call, CallMade, AfterCall
    <2>3. CASE u # t
        BY <1>1, <2>1, <2>3 DEF Call, CallMade, TableStep
    <2>. QED BY <2>2, <2>3
<1>2. ASSUME NEW t \in Threads, EndOfDirectory(t) PROVE TextSafe(u)'
    BY <1>2 DEF EndOfDirectory, Nothing
<1>3. ASSUME NEW t \in Threads, FormatStd(t) PROVE TextSafe(u)'
    BY <1>3 DEF FormatStd, At, Goto, Begin, AfterName
<1>4. ASSUME NEW t \in Threads, FormatPath(t) PROVE TextSafe(u)'
    BY <1>4 DEF FormatPath, At, Goto, Begin
<1>5. ASSUME NEW t \in Threads, NullStream(t) PROVE TextSafe(u)'
    BY <1>5 DEF NullStream, At
<1>6. ASSUME NEW t \in Threads, ReadLink(t) PROVE TextSafe(u)'
    BY <1>6 DEF ReadLink, At, Goto, Touch
<1>7. ASSUME NEW t \in Threads, EndName(t) PROVE TextSafe(u)'
    BY <1>7 DEF EndName, At, Goto, Touch, AfterName
<1>8. ASSUME NEW t \in Threads, CopyText(t) PROVE TextSafe(u)'
    <2>1. CASE own[t].text = NoText
        BY <1>8, <2>1 DEF CopyText, At, Goto
    <2>2. CASE own[t].text # NoText
        <3>1. /\ UNCHANGED <<buff2, own, op, shown>> /\ Begin(t, "text") /\ buff1' = Strncpy(own[t].text)
              /\ pc[t] = "strncpy" /\ pc' = [pc EXCEPT ![t] = "snprintf"]
            BY <1>8, <2>2 DEF CopyText, At, Goto
        <3>2. Begins(Strncpy(own[t].text), own[t].text) BY StrncpyIs
        <3>. QED BY <3>1, <3>2 DEF Begin
    <2>. QED BY <2>1, <2>2
<1>9. ASSUME NEW t \in Threads, AddNewline(t) PROVE TextSafe(u)'
    BY <1>9 DEF AddNewline, At, Goto, Touch
<1>10. ASSUME NEW t \in Threads, StatType(t) PROVE TextSafe(u)'
    BY <1>10 DEF StatType, At, Goto, Begin
<1>11. ASSUME NEW t \in Threads, StatBuff(t) PROVE TextSafe(u)'
    BY <1>11 DEF StatBuff, At, Goto, Touch, NamedOps, StatOps, TextOps, StreamOps, PathOps, OpenOps, NumberOps
<1>12. ASSUME NEW t \in Threads, CloseStream(t) PROVE TextSafe(u)'
    BY <1>12 DEF CloseStream, At, Goto, CloseFd, Repoint, NamedOps, StatOps, TextOps, StreamOps, PathOps, OpenOps, NumberOps
<1>13. ASSUME NEW t \in Threads, OpenLog(t) PROVE TextSafe(u)'
    BY <1>13 DEF OpenLog, At, Lowest, FreeFds
<1>14. ASSUME NEW t \in Threads, UseStderr(t) PROVE TextSafe(u)'
    BY <1>14 DEF UseStderr, At, Goto
<1>15. ASSUME NEW t \in Threads, PrintLine(t) PROVE TextSafe(u)'
    <2>1. /\ UNCHANGED <<buff1, buff2, own, op, spoiled>>
          /\ u # t => pc'[u] = pc[u] /\ shown'[u] = shown[u]
          /\ u = t => pc[u] = "print" /\ pc'[u] = "fclose"
        BY <1>15 DEF PrintLine, At
    <2>2. shown'[t].text = IF own[t].text # NoText THEN buff2 ELSE NoText
        <3>1. PICK x \in IF op[t] \in NamedOps THEN Seen(t, "name", filename) ELSE {None},
                   y \in IF op[t] \in StatOps THEN Seen(t, "stat", buff) ELSE {None},
                   z \in IF own[t].text # NoText THEN {buff2} ELSE {NoText} :
                  shown' = [shown EXCEPT ![t] = [name |-> x, stat |-> y, text |-> z]]
            BY <1>15 DEF PrintLine
        <3>. QED BY <3>1
    <2>3. Begins(NoText, NoText) BY DEF Begins, NoText
    <2>. QED BY <2>1, <2>2, <2>3
<1>16. ASSUME NEW t \in Threads, CloseLog(t) PROVE TextSafe(u)'
    BY <1>16 DEF CloseLog, At, Nothing, Closed, Repoint
<1>17. CASE UNCHANGED vars
    BY <1>17 DEF vars, process, statics, nameBufs, statBufs, textBufs
<1>. QED BY <1>1, <1>2, <1>3, <1>4, <1>5, <1>6, <1>7, <1>8, <1>9, <1>10, <1>11, <1>12, <1>13, <1>14, <1>15, <1>16, <1>17 DEF Next

\* LogHeld, descriptor by descriptor.
LogAt == ~clobbered =>
    /\ \A t \in Threads : fp[t] # NoFd => table[fp[t]] = Log
    /\ \A d \in Fds : table[d] = Log => \E t \in Threads : fp[t] = d
    /\ \A t, u \in Threads : fp[t] = fp[u] => t = u \/ fp[t] = NoFd

LEMMA LogAtHeld == TypeOK /\ Phases => (LogAt <=> LogHeld)
<1>. SUFFICES ASSUME TypeOK, Phases PROVE LogAt <=> LogHeld
    OBVIOUS
<1>1. \A t \in Threads : t \in Writing \/ fp[t] = NoFd BY DEF Phases, PhasesOf, Writing
<1>2. Writing \subseteq Threads /\ NoFd \notin Fds BY FsmonAssumption DEF Writing
<1>3. ASSUME LogHeld, ~clobbered PROVE LogAt
    BY <1>1, <1>2, <1>3 DEF LogAt, LogHeld, TypeOK
<1>4. ASSUME LogAt, ~clobbered PROVE LogHeld
    <2>1. ASSUME NEW d \in Fds, table[d] = Log PROVE d \in {fp[t] : t \in Writing} \ {NoFd}
        BY <2>1, <1>1, <1>2, <1>4 DEF LogAt
    <2>2. ASSUME NEW t \in Writing, fp[t] # NoFd PROVE fp[t] \in Fds /\ table[fp[t]] = Log
        BY <2>2, <1>2, <1>4 DEF LogAt, TypeOK
    <2>. QED BY <2>1, <2>2, <1>2, <1>4 DEF LogAt, LogHeld
<1>. QED BY <1>3, <1>4 DEF LogAt, LogHeld

\* Every step keeps count of the log's descriptors.
LEMMA LogNext ==
    ASSUME TypeOK, Phases, LogAt, [Next]_vars
    PROVE  LogAt'
<1>. USE FsmonAssumption DEF TypeOK, LogAt, process, statics, nameBufs, statBufs, textBufs
<1>1. ASSUME NEW t \in Threads, NEW o \in Ops, Call(t, o) PROVE LogAt'
    <2>1. CallMade(t, o) /\ fp' = fp BY <1>1, CallIsMade DEF Call
    <2>. QED BY <2>1 DEF CallMade, TableStep
<1>2. ASSUME NEW t \in Threads, EndOfDirectory(t) PROVE LogAt'
    BY <1>2 DEF EndOfDirectory
<1>3. ASSUME NEW t \in Threads, FormatStd(t) PROVE LogAt'
    BY <1>3 DEF FormatStd, At, Goto, Begin
<1>4. ASSUME NEW t \in Threads, FormatPath(t) PROVE LogAt'
    BY <1>4 DEF FormatPath, At, Goto, Begin
<1>5. ASSUME NEW t \in Threads, NullStream(t) PROVE LogAt'
    BY <1>5 DEF NullStream, At
<1>6. ASSUME NEW t \in Threads, ReadLink(t) PROVE LogAt'
    BY <1>6 DEF ReadLink, At, Goto, Touch
<1>7. ASSUME NEW t \in Threads, EndName(t) PROVE LogAt'
    BY <1>7 DEF EndName, At, Goto, Touch
<1>8. ASSUME NEW t \in Threads, CopyText(t) PROVE LogAt'
    BY <1>8 DEF CopyText, At, Goto, Begin
<1>9. ASSUME NEW t \in Threads, AddNewline(t) PROVE LogAt'
    BY <1>9 DEF AddNewline, At, Goto, Touch
<1>10. ASSUME NEW t \in Threads, StatType(t) PROVE LogAt'
    BY <1>10 DEF StatType, At, Goto, Begin
<1>11. ASSUME NEW t \in Threads, StatBuff(t) PROVE LogAt'
    BY <1>11 DEF StatBuff, At, Goto, Touch, Seen
<1>12. ASSUME NEW t \in Threads, CloseStream(t) PROVE LogAt'
    <2>1. fd[t] \in Fds /\ fp' = fp BY <1>12 DEF CloseStream, At, Goto, Phases, PhasesOf
    <2>2. TableStep(t) BY <1>12, <2>1, CloseFdStep DEF CloseStream
    <2>. QED BY <2>1, <2>2 DEF TableStep
<1>13. ASSUME NEW t \in Threads, OpenLog(t) PROVE LogAt'
    <2>1. fp[t] = NoFd BY <1>13 DEF OpenLog, At, Phases, PhasesOf
    <2>2. CASE UNCHANGED <<fp, table, pc>>
        BY <1>13, <2>2 DEF OpenLog
    <2>3. ASSUME NEW d \in Fds, table[d] = Free, fp' = [fp EXCEPT ![t] = d], table' = [table EXCEPT ![d] = Log]
          PROVE  LogAt'
        BY <1>13, <2>1, <2>3 DEF OpenLog, Free, Log
    <2>. QED BY <1>13, <2>2, <2>3 DEF OpenLog, Lowest, FreeFds
<1>14. ASSUME NEW t \in Threads, UseStderr(t) PROVE LogAt'
    BY <1>14 DEF UseStderr, At, Goto
<1>15. ASSUME NEW t \in Threads, PrintLine(t) PROVE LogAt'
    BY <1>15 DEF PrintLine, At, Seen
<1>16. ASSUME NEW t \in Threads, CloseLog(t) PROVE LogAt'
    <2>1. CASE clobbered BY <1>16, <2>1 DEF CloseLog
    <2>2. CASE ~clobbered
        BY <1>16, <2>2 DEF CloseLog, Closed, Free, Log
    <2>. QED BY <2>1, <2>2
<1>17. CASE UNCHANGED vars
    BY <1>17 DEF vars, process, statics, nameBufs, statBufs, textBufs
<1>. QED BY <1>1, <1>2, <1>3, <1>4, <1>5, <1>6, <1>7, <1>8, <1>9, <1>10, <1>11, <1>12, <1>13, <1>14, <1>15, <1>16, <1>17 DEF Next
\* When a thread finds no free descriptor, the program's own and one for each of the
\* other threads are all there are.
LEMMA FullTable ==
    ASSUME TypeOK, LogAt, ~clobbered, FreeFds = {}, NEW t \in Threads, fp[t] = NoFd
    PROVE  Cardinality(Used) + Cardinality(Threads) > Cardinality(Fds)
<1>. DEFINE logs == {d \in Fds : table[d] = Log}
            others == Threads \ {t}
            holder == [d \in logs |-> CHOOSE u \in Threads : fp[u] = d]
<1>1. Fds = Used \cup logs BY DEF FreeFds, Used, Mine
<1>2. IsFiniteSet(Used) /\ IsFiniteSet(logs) /\ IsFiniteSet(others)
    BY FsmonAssumption, FS_Subset DEF Used
<1>3. Cardinality(others) = Cardinality(Threads) - 1
    BY FsmonAssumption, FS_RemoveElement
<1>4. Cardinality(logs) <= Cardinality(others)
    <2>1. \A d \in logs : holder[d] \in Threads /\ fp[holder[d]] = d
        BY DEF LogAt
    <2>2. \A d \in logs : d # NoFd BY FsmonAssumption
    <2>. HIDE DEF holder
    <2>3. holder \in [logs -> others] BY <2>1, <2>2 DEF holder
    <2>4. holder \in Injection(logs, others) BY <2>1, <2>3 DEF Injection, IsInjective
    <2>. HIDE DEF logs, others
    <2>. QED BY <2>4, <1>2, FS_Injection
<1>5. Cardinality(Used \cup logs) = Cardinality(Used) + Cardinality(logs) - Cardinality(Used \cap logs)
    BY <1>2, FS_Union
<1>6. IsFiniteSet(Used \cap logs)
    BY <1>2, FS_Subset
<1>. HIDE DEF logs, others
<1>7. Cardinality(Used) \in Nat /\ Cardinality(logs) \in Nat /\ Cardinality(Used \cap logs) \in Nat
      /\ Cardinality(Threads) \in Nat /\ Cardinality(others) \in Nat
    BY <1>2, <1>6, FS_CardinalityType, FsmonAssumption
<1>8. Cardinality(Fds) = Cardinality(Used) + Cardinality(logs) - Cardinality(Used \cap logs)
    BY <1>1, <1>5
<1>. QED BY <1>3, <1>4, <1>7, <1>8

\* A process that dies leaves everything as it was.
LEMMA CrashNext ==
    ASSUME TypeOK, Phases, LogAt, CrashNeedsFull, [Next]_vars
    PROVE  CrashNeedsFull'
<1>1. CASE crashed
    <2>1. UNCHANGED vars
        BY <1>1 DEF Next, Call, EndOfDirectory, FormatStd, FormatPath, NullStream, ReadLink, EndName,
            CopyText, AddNewline, StatType, StatBuff, CloseStream, OpenLog, UseStderr, PrintLine,
            CloseLog, At
    <2>. QED BY <2>1 DEF CrashNeedsFull, Used, Mine, vars, process
<1>2. ASSUME NEW t \in Threads, NullStream(t) PROVE CrashNeedsFull'
    BY <1>2 DEF NullStream, At, CrashNeedsFull
<1>3. ASSUME NEW t \in Threads, OpenLog(t), ~crashed, crashed', ~clobbered' PROVE CrashNeedsFull'
    <2>1. FreeFds = {} /\ UNCHANGED <<table, clobbered>> /\ pc[t] = "fopen"
        BY <1>3 DEF OpenLog, At
    <2>2. fp[t] = NoFd BY <2>1 DEF Phases, PhasesOf
    <2>3. Used' = Used BY <2>1 DEF Used, Mine
    <2>4. Cardinality(Used) + Cardinality(Threads) > Cardinality(Fds)
        BY <1>3, <2>1, <2>2, FullTable
    <2>. QED BY <2>3, <2>4 DEF CrashNeedsFull
<1>4. ASSUME ~crashed, crashed'
      PROVE  \E t \in Threads : NullStream(t) \/ OpenLog(t)
    BY <1>4 DEF Next, Call, EndOfDirectory, FormatStd, FormatPath, ReadLink, EndName,
        CopyText, AddNewline, StatType, StatBuff, CloseStream, UseStderr, PrintLine, CloseLog,
        vars, process
<1>. QED BY <1>1, <1>2, <1>3, <1>4 DEF CrashNeedsFull

LEMMA InitInv ==
    ASSUME Init
    PROVE  FsmonInv
<1>. USE FsmonAssumption
<1>1. NoText \in Seq(Nat) BY DEF NoText
<1>2. TypeOK
    <2>1. Nothing \in OwnType /\ Nothing \in ShownType
        BY <1>1 DEF Nothing, OwnType, ShownType
    <2>2. own \in [Threads -> OwnType] /\ shown \in [Threads -> ShownType]
        BY <2>1 DEF Init
    <2>3. table \in [Fds -> Names \cup {Free, Log}] BY DEF Init
    <2>4. <<>> \in Seq(Nat) OBVIOUS
    <2>. QED BY <2>2, <2>3, <2>4 DEF Init, TypeOK, OwnType, ShownType
<1>3. Phases
    BY DEF Init, Phases, PhasesOf, Nothing, None
<1>4. \A t \in Threads : NameSafe(t) /\ StatSafe(t) /\ TextSafe(t)
    BY DEF Init, NameSafe, StatSafe, TextSafe, Nothing
<1>5. LogAt
    <2>1. \A d \in Fds : table[d] # Log BY DEF Init, Free, Log
    <2>. QED BY <2>1 DEF Init, LogAt
<1>6. LogHeld BY <1>2, <1>3, <1>5, LogAtHeld
<1>7. CrashNeedsFull BY DEF Init, CrashNeedsFull
<1>. QED BY <1>2, <1>3, <1>4, <1>6, <1>7 DEF FsmonInv

LEMMA StepInv ==
    ASSUME FsmonInv, [Next]_vars
    PROVE  FsmonInv'
<1>. USE DEF FsmonInv
<1>1. LogAt BY LogAtHeld
<1>2. TypeOK' BY TypeNext
<1>3. Phases' BY PhasesNext
<1>4. ASSUME NEW u \in Threads PROVE NameSafe(u)' BY NameNext
<1>5. ASSUME NEW u \in Threads PROVE StatSafe(u)' BY StatNext
<1>6. ASSUME NEW u \in Threads PROVE TextSafe(u)' BY TextNext
<1>7. LogAt' BY <1>1, LogNext
<1>8. LogHeld'
    <2>1. (TypeOK /\ Phases => (LogAt <=> LogHeld))' BY LogAtHeld, PTL
    <2>. QED BY <1>2, <1>3, <1>7, <2>1
<1>9. CrashNeedsFull' BY <1>1, CrashNext
<1>. QED BY <1>2, <1>3, <1>4, <1>5, <1>6, <1>8, <1>9

\* The invariant of the monitor, for any program: at every step of every call the buffers
\* hold what the call is about unless another thread has disturbed them, the log's
\* descriptors are accounted for, and the process dies only for the two reasons named.
THEOREM FsmonInvariant == Spec => []FsmonInv
<1>1. Init => FsmonInv BY InitInv
<1>2. FsmonInv /\ [Next]_vars => FsmonInv' BY StepInv
<1>. QED BY <1>1, <1>2, PTL DEF Spec

\* Every line names what its call was about (write_msg's arguments), fclose's included.
THEOREM LinesTrue == Spec => []LineTrue
<1>1. FsmonInv => LineTrue
    BY DEF FsmonInv, LineTrue, NameSafe, StatSafe
<1>. QED BY <1>1, FsmonInvariant, PTL

\* A text shown begins with the caller's (convert_to_verbose_newline).
THEOREM TextsBegin == Spec => []TextBegins
<1>1. FsmonInv => TextBegins
    BY DEF FsmonInv, TextBegins, TextSafe
<1>. QED BY <1>1, FsmonInvariant, PTL

\* write_msg leaks no descriptor of the log.
THEOREM LogNeverLeaks == Spec => []LogHeld
<1>. QED BY FsmonInvariant, PTL DEF FsmonInv

\* With a descriptor to spare for each thread write_msg's fopen always succeeds.
THEOREM CrashOnlyFull == Spec => []CrashNeedsFull
<1>. QED BY FsmonInvariant, PTL DEF FsmonInv

\* The program's own close, dup and open, seen without the log's descriptors.
LEMMA AppTableIs ==
    ASSUME TypeOK
    PROVE  /\ \A d \in Fds : AppTable[d] = Free <=> table[d] \in {Free, Log}
           /\ \A d \in Fds : table[d] # Log => AppTable[d] = table[d]
           /\ Plain!Available(LogFds) = FreeFds
           /\ Plain!LowestOf(LogFds) = Lowest
<1>1. \A d \in Fds : AppTable[d] = IF table[d] = Log THEN Free ELSE table[d] BY DEF AppTable
<1>2. Log # Free BY DEF Log, Free
<1>3. \A d \in Fds : AppTable[d] = Free <=> table[d] \in {Free, Log} BY <1>1
<1>4. Plain!Available(LogFds) = FreeFds BY <1>2, <1>3 DEF Plain!Available, LogFds, FreeFds
<1>5. Plain!LowestOf(LogFds) = Lowest BY <1>4 DEF Plain!LowestOf, Lowest
<1>. QED BY <1>1, <1>3, <1>4, <1>5

LEMMA AppTableStep ==
    ASSUME TypeOK, NEW d \in Fds, NEW x, x # Log, table[d] # Log, table' = [table EXCEPT ![d] = x]
    PROVE  AppTable' = [AppTable EXCEPT ![d] = x]
BY DEF TypeOK, AppTable

LEMMA PlainClose ==
    ASSUME TypeOK, NEW t \in Threads, NEW d \in Fds, CloseFd(t, d), ~clobbered'
    PROVE  Plain!Next(LogFds)
<1>1. table[d] # Log /\ Free # Log BY DEF CloseFd, Free, Log
<1>2. AppTable' = [AppTable EXCEPT ![d] = Free] BY <1>1, AppTableStep DEF CloseFd
<1>. QED BY <1>2 DEF Plain!Next, Plain!Close

LEMMA PlainDup ==
    ASSUME TypeOK, NEW t \in Threads, NEW d \in Fds, DupFd(t, d), ~clobbered'
    PROVE  Plain!Next(LogFds)
<1>1. table[d] # Log BY DEF DupFd
<1>2. AppTable[d] = table[d] /\ (table[d] = Free <=> AppTable[d] = Free) BY <1>1, AppTableIs
<1>3. CASE table[d] = Free \/ FreeFds = {}
    <2>1. table' = table BY <1>3 DEF DupFd, Lowest
    <2>2. AppTable' = AppTable BY <2>1 DEF AppTable
    <2>. QED BY <2>2, <1>2, <1>3, AppTableIs DEF Plain!Next, Plain!Dup
<1>4. CASE ~(table[d] = Free \/ FreeFds = {})
    <2>1. PICK e \in Lowest : table' = [table EXCEPT ![e] = table[d]] BY <1>4 DEF DupFd
    <2>2. e \in Fds /\ table[e] # Log BY DEF Lowest, FreeFds, Free, Log
    <2>3. AppTable' = [AppTable EXCEPT ![e] = AppTable[d]]
        BY <1>1, <1>2, <2>1, <2>2, AppTableStep
    <2>4. Plain!Dup(d, LogFds) BY <1>2, <1>4, <2>3, AppTableIs DEF Plain!Dup
    <2>. QED BY <2>4 DEF Plain!Next
<1>. QED BY <1>3, <1>4

LEMMA PlainDup2 ==
    ASSUME TypeOK, NEW t \in Threads, NEW d \in Fds, NEW e \in Fds, Dup2Fd(t, d, e), ~clobbered'
    PROVE  Plain!Next(LogFds)
<1>1. table[d] # Log BY DEF Dup2Fd
<1>2. AppTable[d] = table[d] BY <1>1, AppTableIs
<1>3. CASE table[d] = Free
    <2>1. AppTable' = AppTable BY <1>3 DEF AppTable, Dup2Fd
    <2>. QED BY <2>1, <1>2, <1>3 DEF Plain!Next, Plain!Dup2
<1>4. CASE table[d] # Free
    <2>1. table[e] # Log /\ table' = [table EXCEPT ![e] = table[d]] BY <1>4 DEF Dup2Fd
    <2>2. AppTable' = [AppTable EXCEPT ![e] = AppTable[d]] BY <1>1, <1>2, <2>1, AppTableStep
    <2>. QED BY <2>2, <1>2, <1>4 DEF Plain!Next, Plain!Dup2
<1>. QED BY <1>3, <1>4

LEMMA PlainOpen ==
    ASSUME TypeOK, NEW x \in Names, NEW e \in Lowest, table' = [table EXCEPT ![e] = x]
    PROVE  Plain!Next(LogFds)
<1>1. x # Log BY FsmonAssumption
<1>2. e \in Fds /\ table[e] # Log BY DEF Lowest, FreeFds, Free, Log
<1>3. AppTable' = [AppTable EXCEPT ![e] = x] BY <1>1, <1>2, AppTableStep
<1>. QED BY <1>3, AppTableIs DEF Plain!Next, Plain!Open

LEMMA PlainCall ==
    ASSUME TypeOK, NEW t \in Threads, NEW o \in Ops, Call(t, o), ~clobbered'
    PROVE  UNCHANGED AppTable \/ Plain!Next(LogFds)
<1>0. ASSUME table' = table PROVE UNCHANGED AppTable BY <1>0 DEF AppTable
<1>1. CASE CallOnNull(t, o) BY <1>0, <1>1 DEF CallOnNull
<1>2. CASE CallOnPath(t, o)
    BY <1>0, <1>2, PlainOpen DEF CallOnPath, OpenFile
<1>3. ASSUME NEW d \in Fds, CallOnFd(t, o, d) PROVE UNCHANGED AppTable \/ Plain!Next(LogFds)
    <2>1. CASE o \in ClosingOps BY <2>1, <1>3, PlainClose DEF CallOnFd, ClosingOps
    <2>2. CASE o = "dup" BY <2>2, <1>3, PlainDup DEF CallOnFd, ClosingOps
    <2>3. CASE o = "dup2" BY <2>3, <1>3, PlainDup2 DEF CallOnFd, ClosingOps
    <2>4. CASE o \notin ClosingOps \cup {"dup", "dup2"}
        BY <2>4, <1>0, <1>3 DEF CallOnFd, ClosingOps
    <2>. QED BY <2>1, <2>2, <2>3, <2>4
<1>. QED BY <1>1, <1>2, <1>3 DEF Call

\* The log's own descriptors come and go unseen.
LEMMA PlainStep ==
    ASSUME FsmonInv, [Next]_vars
    PROVE  [clobbered' \/ (RealCall /\ Plain!Next(LogFds))]_AppTable
<1>. USE DEF FsmonInv
<1>0. ASSUME table' = table PROVE UNCHANGED AppTable BY <1>0 DEF AppTable
<1>1. ASSUME NEW t \in Threads, NEW o \in Ops, Call(t, o), ~clobbered'
      PROVE  UNCHANGED AppTable \/ (RealCall /\ Plain!Next(LogFds))
    <2>1. AfterCall(o) # "idle" BY DEF AfterCall
    <2>2. RealCall BY <1>1, <2>1 DEF Call, RealCall, TypeOK
    <2>. QED BY <1>1, <2>2, PlainCall
<1>2. ASSUME NEW t \in Threads, CloseStream(t), ~clobbered'
      PROVE  UNCHANGED AppTable \/ (RealCall /\ Plain!Next(LogFds))
    <2>1. fd[t] \in Fds /\ CloseFd(t, fd[t]) BY <1>2 DEF CloseStream, At, Phases, PhasesOf, TypeOK
    <2>2. RealCall BY <1>2 DEF CloseStream, At, Goto, RealCall, TypeOK
    <2>. QED BY <1>2, <2>1, <2>2, PlainClose
<1>3. ASSUME NEW t \in Threads, OpenLog(t) PROVE UNCHANGED AppTable
    BY <1>3 DEF OpenLog, Lowest, FreeFds, AppTable, TypeOK
<1>4. ASSUME NEW t \in Threads, CloseLog(t), ~clobbered' PROVE UNCHANGED AppTable
    <2>1. LogAt BY LogAtHeld
    <2>2. fp[t] # NoFd => table[fp[t]] = Log BY <1>4, <2>1 DEF LogAt, CloseLog
    <2>. QED BY <1>4, <2>2 DEF CloseLog, Closed, AppTable, TypeOK
<1>5. ASSUME NEW t \in Threads,
             \/ EndOfDirectory(t) \/ FormatStd(t) \/ FormatPath(t) \/ NullStream(t) \/ ReadLink(t)
             \/ EndName(t) \/ CopyText(t) \/ AddNewline(t) \/ StatType(t) \/ StatBuff(t)
             \/ UseStderr(t) \/ PrintLine(t)
      PROVE  table' = table
    BY <1>5 DEF EndOfDirectory, FormatStd, FormatPath, NullStream, ReadLink, EndName, CopyText,
        AddNewline, StatType, StatBuff, UseStderr, PrintLine, process
<1>6. CASE UNCHANGED vars BY <1>0, <1>6 DEF vars, process
<1>. QED BY <1>0, <1>1, <1>2, <1>3, <1>4, <1>5, <1>6 DEF Next

\* The program's own descriptors change only by its own calls, as without the monitor; a
\* new one is the lowest that is free and not another thread's log.
THEOREM MonitorTransparent == Spec => Transparent
<1>1. FsmonInv /\ [Next]_vars => [clobbered' \/ (RealCall /\ Plain!Next(LogFds))]_AppTable
    BY PlainStep
<1>. QED BY <1>1, FsmonInvariant, PTL DEF Spec, Transparent

\* In a program with one thread nothing disturbs a call: what its own steps do to the
\* descriptors and to the static buffers is not a way out of LineTrue and TextBegins.
Alone == \A s, t \in Threads : s = t
Undisturbed == \A t \in Threads : spoiled[t] = {}

LEMMA AloneStep ==
    ASSUME Alone, TypeOK, Undisturbed, [Next]_vars
    PROVE  Undisturbed'
<1>. USE DEF TypeOK, Undisturbed, Alone
<1>1. ASSUME NEW t \in Threads, NEW S, NEW D, Repoint(t, S, D), S = {} PROVE Undisturbed'
    BY <1>1 DEF Repoint
<1>2. ASSUME NEW t \in Threads, NEW g, Begin(t, g) PROVE Undisturbed'
    BY <1>2 DEF Begin
<1>3. ASSUME NEW t \in Threads, NEW g, Touch(t, g) PROVE Undisturbed'
    BY <1>3 DEF Touch
<1>4. CASE UNCHANGED spoiled
    BY <1>4
<1>5. ASSUME NEW t \in Threads, NEW o \in Ops, Call(t, o) PROVE Undisturbed'
    <2>1. \E D : Repoint(t, spoiled[t], D)
        BY <1>5 DEF Call, CallOnFd, CallOnPath, CallOnNull, CloseFd, DupFd, Dup2Fd
    <2>. QED BY <2>1, <1>1
<1>6. ASSUME NEW t \in Threads, EndOfDirectory(t) PROVE Undisturbed'
    BY <1>6 DEF EndOfDirectory
<1>7. ASSUME NEW t \in Threads, CloseStream(t) PROVE Undisturbed'
    BY <1>7, <1>1 DEF CloseStream, CloseFd
<1>8. ASSUME NEW t \in Threads, CloseLog(t) PROVE Undisturbed'
    BY <1>8, <1>1 DEF CloseLog
<1>9. ASSUME NEW t \in Threads,
             \/ FormatStd(t) \/ FormatPath(t) \/ StatType(t) \/ CopyText(t)
      PROVE  Undisturbed'
    BY <1>9, <1>2, <1>4 DEF FormatStd, FormatPath, StatType, CopyText
<1>10. ASSUME NEW t \in Threads,
              \/ ReadLink(t) \/ EndName(t) \/ AddNewline(t) \/ StatBuff(t)
       PROVE  Undisturbed'
    BY <1>10, <1>3 DEF ReadLink, EndName, AddNewline, StatBuff
<1>11. ASSUME NEW t \in Threads,
              \/ NullStream(t) \/ OpenLog(t) \/ UseStderr(t) \/ PrintLine(t)
       PROVE  Undisturbed'
    BY <1>11, <1>4 DEF NullStream, OpenLog, UseStderr, PrintLine
<1>12. CASE UNCHANGED vars BY <1>12, <1>4 DEF vars
<1>. QED BY <1>5, <1>6, <1>7, <1>8, <1>9, <1>10, <1>11, <1>12 DEF Next

\* Its thread never comes upon a descriptor of the log: none is open when it makes a call.
LEMMA AloneNoLog ==
    ASSUME Alone, FsmonInv, ~clobbered, NEW t \in Threads, pc[t] \notin {"print", "fclose"}
    PROVE  \A d \in Fds : table[d] # Log
<1>1. Writing = {} BY DEF Writing, Alone
<1>. QED BY <1>1 DEF FsmonInv, LogHeld

LEMMA AloneUnclobbered ==
    ASSUME Alone, FsmonInv, ~clobbered, [Next]_vars
    PROVE  ~clobbered'
<1>1. ASSUME NEW t \in Threads, NEW o \in Ops, Call(t, o) PROVE ~clobbered'
    <2>1. \A d \in Fds : table[d] # Log BY <1>1, AloneNoLog DEF Call
    <2>2. CASE CallOnNull(t, o) \/ CallOnPath(t, o) BY <2>2 DEF CallOnNull, CallOnPath
    <2>3. ASSUME NEW d \in Fds, CallOnFd(t, o, d) PROVE ~clobbered'
        <3>1. CASE o \in ClosingOps BY <2>1, <2>3, <3>1 DEF CallOnFd, CloseFd, ClosingOps
        <3>2. CASE o = "dup" BY <2>1, <2>3, <3>2 DEF CallOnFd, DupFd, ClosingOps
        <3>3. CASE o = "dup2" BY <2>1, <2>3, <3>3 DEF CallOnFd, Dup2Fd, ClosingOps
        <3>4. CASE o \notin ClosingOps \cup {"dup", "dup2"}
            BY <2>3, <3>4 DEF CallOnFd, ClosingOps
        <3>. QED BY <3>1, <3>2, <3>3, <3>4
    <2>. QED BY <1>1, <2>2, <2>3 DEF Call
<1>2. ASSUME NEW t \in Threads, CloseStream(t) PROVE ~clobbered'
    <2>1. fd[t] \in Fds BY <1>2 DEF CloseStream, At, FsmonInv, Phases, PhasesOf, TypeOK
    <2>2. \A d \in Fds : table[d] # Log BY <1>2, AloneNoLog DEF CloseStream, At
    <2>. QED BY <1>2, <2>1, <2>2 DEF CloseStream, CloseFd
<1>3. CASE UNCHANGED clobbered BY <1>3
<1>. QED BY <1>1, <1>2, <1>3 DEF Next, EndOfDirectory, FormatStd, FormatPath, NullStream, ReadLink,
        EndName, CopyText, AddNewline, StatType, StatBuff, OpenLog, UseStderr, PrintLine, CloseLog,
        vars, process

\* In a program with one thread the monitor is transparent without exception: every
\* descriptor has the number and the file it would have without it, the log's are never
\* in the way, and no file of the program's is closed for one of them (write_msg,
\* fsmon.c:20-38).
THEOREM AloneTransparent ==
    ASSUME Alone PROVE Spec => [][RealCall /\ Plain!Next({})]_AppTable
<1>1. Init => ~clobbered BY DEF Init
<1>2. FsmonInv /\ ~clobbered /\ [Next]_vars => ~clobbered' BY AloneUnclobbered
<1>3. FsmonInv /\ ~clobbered /\ [Next]_vars => [RealCall /\ Plain!Next({})]_AppTable
    <2>. SUFFICES ASSUME FsmonInv, ~clobbered, [Next]_vars, AppTable' # AppTable
                  PROVE  RealCall /\ Plain!Next({})
        OBVIOUS
    <2>1. RealCall /\ Plain!Next(LogFds) BY PlainStep, AloneUnclobbered
    <2>2. PICK t \in Threads : pc[t] \in {"idle", "close"} BY <2>1 DEF RealCall
    <2>3. LogFds = {} BY <2>2, AloneNoLog DEF LogFds
    <2>. QED BY <2>1, <2>3
<1>. QED BY <1>1, <1>2, <1>3, FsmonInvariant, PTL DEF Spec

\* The static text buffers never hold more than the longest text ever shown.
ShortOf(m) ==
    /\ Len(buff1) <= m /\ Len(buff2) <= m
    /\ \A t \in Threads :
          /\ own[t].text = NoText \/ Len(own[t].text) <= m
          /\ pc[t] = "fclose" /\ own[t].text # NoText => Len(shown[t].text) <= m
Short == \A m \in Nat : (\A s \in Texts : Len(s) <= m) => ShortOf(m)

\* A line of a call without a text shows none.
Blank == \A t \in Threads : pc[t] = "fclose" /\ own[t].text = NoText => shown[t].text = NoText

LEMMA BlankStep ==
    ASSUME TypeOK, Blank, [Next]_vars
    PROVE  Blank'
<1>. USE DEF TypeOK, Blank
<1>0. ASSUME \A u \in Threads : pc'[u] = "fclose" =>
                pc[u] = "fclose" /\ own'[u] = own[u] /\ shown'[u] = shown[u]
      PROVE  Blank'
    BY <1>0
<1>1. ASSUME NEW t \in Threads, NEW o \in Ops, Call(t, o) PROVE Blank'
    <2>1. \A u \in Threads : u # t => own'[u] = own[u] BY <1>1, CallIsMade DEF CallMade
    <2>2. AfterCall(o) # "fclose" BY DEF AfterCall
    <2>. QED BY <1>0, <1>1, <2>1, <2>2 DEF Call
<1>2. ASSUME NEW t \in Threads, PrintLine(t) PROVE Blank'
    <2>1. shown'[t].text = IF own[t].text # NoText THEN buff2 ELSE NoText
        BY <1>2 DEF PrintLine
    <2>2. \A u \in Threads : u # t => shown'[u] = shown[u] /\ pc'[u] = pc[u]
        BY <1>2 DEF PrintLine
    <2>. QED BY <1>2, <2>1, <2>2 DEF PrintLine
<1>3. ASSUME NEW t \in Threads, CloseLog(t) \/ EndOfDirectory(t) PROVE Blank'
    BY <1>0, <1>3 DEF CloseLog, EndOfDirectory
<1>4. ASSUME NEW t \in Threads,
             \/ FormatStd(t) \/ FormatPath(t) \/ NullStream(t) \/ ReadLink(t) \/ EndName(t)
             \/ CopyText(t) \/ AddNewline(t) \/ StatType(t) \/ StatBuff(t) \/ CloseStream(t)
             \/ UseStderr(t) \/ OpenLog(t)
      PROVE  Blank'
    <2>1. UNCHANGED <<own, shown>>
        BY <1>4 DEF FormatStd, FormatPath, NullStream, ReadLink, EndName, CopyText, AddNewline,
            StatType, StatBuff, CloseStream, UseStderr, OpenLog, Goto
    <2>2. \A u \in Threads : pc'[u] = "fclose" => pc[u] = "fclose"
        BY <1>4 DEF FormatStd, FormatPath, NullStream, ReadLink, EndName, CopyText, AddNewline,
            StatType, StatBuff, CloseStream, UseStderr, OpenLog, Goto, AfterName
    <2>. QED BY <1>0, <2>1, <2>2
<1>5. CASE UNCHANGED vars BY <1>0, <1>5 DEF vars
<1>. QED BY <1>1, <1>2, <1>3, <1>4, <1>5 DEF Next

LEMMA ShortStep ==
    ASSUME TypeOK, Phases, [Next]_vars, NEW m \in Nat, \A s \in Texts : Len(s) <= m, ShortOf(m)
    PROVE  ShortOf(m)'
<1>. USE FsmonAssumption DEF TypeOK, process, statics, nameBufs, statBufs, textBufs
<1>0. ASSUME UNCHANGED <<buff1, buff2, own, shown>>,
             \A t \in Threads : pc'[t] = "fclose" => pc[t] = "fclose"
      PROVE  ShortOf(m)'
    BY <1>0 DEF ShortOf
<1>1. ASSUME NEW t \in Threads, NEW o \in Ops, Call(t, o) PROVE ShortOf(m)'
    <2>1. own'[t].text = NoText \/ own'[t].text \in Texts
        <3>1. ASSUME NEW d \in Fds, CallOnFd(t, o, d) PROVE own'[t].text = NoText \/ own'[t].text \in Texts
            <4>1. PICK s \in Texts \cup {NoText} : own' = [own EXCEPT ![t] = About(o, d, None, s)]
                BY <3>1 DEF CallOnFd
            <4>2. About(o, d, None, s).text = s BY DEF About
            <4>. QED BY <4>1, <4>2
        <3>2. CASE CallOnPath(t, o)
            <4>1. PICK k : own' = [own EXCEPT ![t] = About(o, NoFd, k, NoText)]
                BY <3>2 DEF CallOnPath
            <4>2. About(o, NoFd, k, NoText).text = NoText BY DEF About
            <4>. QED BY <4>1, <4>2
        <3>3. CASE CallOnNull(t, o) BY <3>3 DEF CallOnNull, Nothing
        <3>. QED BY <1>1, <3>1, <3>2, <3>3 DEF Call
    <2>2. \A u \in Threads : u # t => own'[u] = own[u]
        BY <1>1, CallIsMade DEF CallMade
    <2>3. UNCHANGED <<buff1, buff2, shown>> BY <1>1 DEF Call
    <2>4. AfterCall(o) # "fclose" BY DEF AfterCall
    <2>5. \A u \in Threads : pc'[u] = "fclose" => u # t /\ pc[u] = "fclose"
        BY <1>1, <2>4 DEF Call
    <2>. QED BY <2>1, <2>2, <2>3, <2>5 DEF ShortOf
<1>2. ASSUME NEW t \in Threads, CopyText(t) PROVE ShortOf(m)'
    <2>1. \A u \in Threads : pc'[u] = "fclose" => pc[u] = "fclose" BY <1>2 DEF CopyText, Goto
    <2>2. UNCHANGED <<buff2, own, shown>> BY <1>2 DEF CopyText, Goto
    <2>3. CASE own[t].text = NoText BY <1>0, <1>2, <2>1, <2>2, <2>3 DEF CopyText
    <2>4. CASE own[t].text # NoText
        <3>1. buff1' = Strncpy(own[t].text) BY <1>2, <2>4 DEF CopyText
        <3>2. Len(own[t].text) <= m /\ own[t].text \in Seq(Nat) BY <2>4 DEF ShortOf
        <3>3. ASSUME NEW s \in Seq(Nat), Len(s) <= m, Len(buff1) <= m PROVE Len(Strncpy(s)) <= m
            <4>. DEFINE r == SubSeq(buff1, Len(s) + 1, Len(buff1))
            <4>1. r \in Seq(Nat) /\ Len(r) = IF Len(s) + 1 <= Len(buff1) THEN Len(buff1) - Len(s) ELSE 0
                BY SubSeqProperties
            <4>2. Len(s \o r) = Len(s) + Len(r) BY <4>1
            <4>. HIDE DEF r
            <4>3. Len(s \o r) <= m BY <3>3, <4>1, <4>2
            <4>. QED BY <4>3 DEF Strncpy, r
        <3>4. Len(buff1') <= m BY <3>1, <3>2, <3>3 DEF ShortOf
        <3>. QED BY <3>4, <2>1, <2>2 DEF ShortOf
    <2>. QED BY <2>3, <2>4
<1>3. ASSUME NEW t \in Threads, AddNewline(t) PROVE ShortOf(m)'
    BY <1>3 DEF AddNewline, Goto, ShortOf
<1>4. ASSUME NEW t \in Threads, PrintLine(t) PROVE ShortOf(m)'
    <2>1. shown'[t].text = IF own[t].text # NoText THEN buff2 ELSE NoText
        BY <1>4 DEF PrintLine
    <2>2. \A u \in Threads : u # t => shown'[u] = shown[u] /\ pc'[u] = pc[u]
        BY <1>4 DEF PrintLine
    <2>3. UNCHANGED <<buff1, buff2, own>> BY <1>4 DEF PrintLine
    <2>. QED BY <2>1, <2>2, <2>3 DEF ShortOf
<1>5. ASSUME NEW t \in Threads, CloseLog(t) \/ EndOfDirectory(t) PROVE ShortOf(m)'
    <2>1. /\ own' = [own EXCEPT ![t] = Nothing] /\ pc' = [pc EXCEPT ![t] = "idle"]
          /\ \A u \in Threads : u # t => shown'[u] = shown[u]
          /\ UNCHANGED <<buff1, buff2>>
        BY <1>5 DEF CloseLog, EndOfDirectory
    <2>2. own'[t].text = NoText BY <2>1 DEF Nothing
    <2>3. \A u \in Threads : u # t => own'[u] = own[u] /\ pc'[u] = pc[u] BY <2>1
    <2>. QED BY <2>1, <2>2, <2>3 DEF ShortOf
<1>6. ASSUME NEW t \in Threads,
             \/ FormatStd(t) \/ FormatPath(t) \/ NullStream(t) \/ ReadLink(t) \/ EndName(t)
             \/ StatType(t) \/ StatBuff(t) \/ CloseStream(t) \/ UseStderr(t)
      PROVE  ShortOf(m)'
    BY <1>0, <1>6 DEF FormatStd, FormatPath, NullStream, ReadLink, EndName, StatType, StatBuff,
        CloseStream, UseStderr, Goto, AfterName
<1>7. ASSUME NEW t \in Threads, OpenLog(t) PROVE ShortOf(m)'
    BY <1>0, <1>7 DEF OpenLog
<1>8. CASE UNCHANGED vars BY <1>0, <1>8 DEF vars
<1>. QED BY <1>1, <1>2, <1>3, <1>4, <1>5, <1>6, <1>7, <1>8 DEF Next

LEMMA ShortInit ==
    ASSUME Init
    PROVE  Short /\ Blank
BY DEF Init, Short, ShortOf, Blank, Nothing

\* What the line of an undisturbed call shows.  The name is that of the file behind the
\* descriptor if one was open (for a closed one, the buffer still shows an earlier name),
\* closedir's excepted; the type is the file's if the call succeeded.  A line without a text
\* shows none; a text is shown from its beginning, and ends where it should if no text of
\* the program is longer (a shorter one is followed by the rest of what buff1 held).
LineExact == \A t \in Threads : pc[t] = "fclose" =>
    /\ own[t].name # None /\ op[t] # "closedir" => shown[t].name = own[t].name
    /\ own[t].stat # None => shown[t].stat = own[t].stat
    /\ own[t].text = NoText => shown[t].text = NoText
    /\ Begins(shown[t].text, own[t].text)
    /\ (\A s \in Texts : Len(s) <= Len(own[t].text)) => shown[t].text = own[t].text

\* In a program with one thread the proviso of LineTrue and TextBegins that no other call
\* has used the buffers always holds: the name of an open descriptor and the type of a file
\* are right on every line, and a text shows at least what the call was given and no more
\* than that unless the program has longer texts (fsmon.c:40-112).
THEOREM AloneExact == ASSUME Alone PROVE Spec => []LineExact
<1>1. Init => Undisturbed /\ Short /\ Blank BY ShortInit DEF Init, Undisturbed
<1>2. FsmonInv /\ Undisturbed /\ [Next]_vars => Undisturbed'
    BY AloneStep DEF FsmonInv
<1>3. FsmonInv /\ Short /\ [Next]_vars => Short'
    BY ShortStep DEF FsmonInv, Short
<1>4. FsmonInv /\ Blank /\ [Next]_vars => Blank'
    BY BlankStep DEF FsmonInv
<1>5. FsmonInv /\ Undisturbed /\ Short /\ Blank => LineExact
    <2>. SUFFICES ASSUME FsmonInv, Undisturbed, Short, Blank, NEW t \in Threads, pc[t] = "fclose"
                  PROVE  /\ own[t].name # None /\ op[t] # "closedir" => shown[t].name = own[t].name
                         /\ own[t].stat # None => shown[t].stat = own[t].stat
                         /\ own[t].text = NoText => shown[t].text = NoText
                         /\ Begins(shown[t].text, own[t].text)
                         /\ (\A s \in Texts : Len(s) <= Len(own[t].text)) =>
                               shown[t].text = own[t].text
        BY DEF LineExact
    <2>1. /\ own[t].name # None /\ op[t] # "closedir" => shown[t].name = own[t].name
          /\ own[t].stat # None => shown[t].stat = own[t].stat
          /\ Begins(shown[t].text, own[t].text)
        BY DEF FsmonInv, Undisturbed, NameSafe, StatSafe, TextSafe
    <2>2. shown[t].text \in Seq(Nat) /\ own[t].text \in Seq(Nat) BY DEF FsmonInv, TypeOK
    <2>3. own[t].text = NoText => shown[t].text = NoText BY DEF Blank
    <2>4. ASSUME \A s \in Texts : Len(s) <= Len(own[t].text), own[t].text # NoText
          PROVE  shown[t].text = own[t].text
        <3>1. Len(own[t].text) \in Nat BY <2>2
        <3>2. Len(shown[t].text) <= Len(own[t].text) BY <2>4, <3>1 DEF Short, ShortOf
        <3>3. Len(shown[t].text) = Len(own[t].text) BY <2>1, <2>2, <3>2 DEF Begins
        <3>. QED BY <2>1, <2>2, <3>3, SeqEqual DEF Begins
    <2>. QED BY <2>1, <2>3, <2>4
<1>. QED BY <1>1, <1>2, <1>3, <1>4, <1>5, FsmonInvariant, PTL DEF Spec
=============================================================================
