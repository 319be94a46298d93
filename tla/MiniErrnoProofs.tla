-------------------------- MODULE MiniErrnoProofs ---------------------------
(***************************************************************************)
(* Proofs about module MiniErrno, for all error numbers and any depth of   *)
(* nested handlers.                                                        *)
(***************************************************************************)
EXTENDS MiniErrno, SequenceTheorems, TLAPS

LEMMA ResultsNat ==
    /\ \A r \in SysResult : r \in Nat
    /\ \A c \in WriteCodes : c \in Nat
    /\ PERRMSG_MAX \in Nat
BY ErrnoAssumption DEF SysResult

\* The innermost context, and what it is to replace it by f.
LEMMA TopIs ==
    ASSUME TypeOK
    PROVE  Depth \in 1 .. MaxDepth /\ Top \in Frame
BY ErrnoAssumption DEF TypeOK, Depth, Top

LEMMA ReplaceIs ==
    ASSUME TypeOK, NEW f \in Frame, Replace(f)
    PROVE  /\ frames' \in Seq(Frame) /\ Depth' = Depth
           /\ frames'[Depth] = f
           /\ \A i \in 1 .. Depth : i # Depth => frames'[i] = frames[i]
BY ErrnoAssumption DEF TypeOK, Replace, Depth

\* A step of the innermost context preserves the invariant if that context keeps its part.
LEMMA ReplaceInv ==
    ASSUME ErrnoInv, NEW f \in Frame, Replace(f), errno' \in SysResult,
           f.saved = Top.saved,
           f.clean /\ f.at # "store" => errno' = f.last,
           Says(f), Prepared(f)
    PROVE  ErrnoInv'
<1>1. /\ frames' \in Seq(Frame) /\ Depth' = Depth
      /\ frames'[Depth] = f
      /\ \A i \in 1 .. Depth : i # Depth => frames'[i] = frames[i]
    BY ReplaceIs DEF ErrnoInv
<1>2. Depth \in 1 .. MaxDepth BY TopIs DEF ErrnoInv
<1>3. TypeOK' BY <1>1, <1>2 DEF TypeOK, Depth
<1>4. ErrnoTellsFate'
    <2>1. ASSUME NEW i \in 1 .. Depth, i # Depth PROVE Seen(i)' = Seen(i)
        <3>1. i + 1 \in 1 .. Depth BY <2>1, <1>2, ErrnoAssumption
        <3>2. frames'[i + 1].saved = frames[i + 1].saved
            BY <3>1, <1>1 DEF Top
        <3>. QED BY <2>1, <3>2, <1>1 DEF Seen
    <2>2. Seen(Depth)' = errno' BY <1>1 DEF Seen
    <2>. QED BY <2>1, <2>2, <1>1, <1>2 DEF ErrnoTellsFate, ErrnoInv
<1>5. \A i \in 1 .. Depth' : Says(frames'[i]) /\ Prepared(frames'[i])
    BY <1>1 DEF ErrnoInv
<1>. QED BY <1>3, <1>4, <1>5 DEF ErrnoInv, Says, Prepared, Towards

\* Contexts built by the wrappers.
LEMMA RunningIs ==
    ASSUME NEW s \in BOOLEAN, NEW e \in SysResult, NEW r \in SysResult
    PROVE  /\ Running(s, e, r) \in Frame
           /\ Running(s, e, r).saved = e /\ Running(s, e, r).last = r
           /\ Says(Running(s, e, r)) /\ Prepared(Running(s, e, r))
BY ErrnoAssumption DEF Running, Frame, SysResult, Silent, Says, Prepared, Towards

LEMMA EnterIs ==
    ASSUME NEW f \in Frame, NEW s \in {"run", "colon", "check", "newline"}, NEW r \in SysResult
    PROVE  /\ Enter(f, s, r) \in Frame
           /\ Enter(f, s, r).at = "clear" /\ Enter(f, s, r).then = s /\ Enter(f, s, r).ret = r
           /\ Enter(f, s, r).saved = f.saved /\ Enter(f, s, r).last = f.last
           /\ Enter(f, s, r).clean = f.clean /\ Enter(f, s, r).said = f.said
           /\ Enter(f, s, r).backup = f.backup /\ Enter(f, s, r).asked = f.asked
           /\ Enter(f, s, r).prefix = f.prefix /\ Enter(f, s, r).sure = f.sure
BY DEF Enter, Frame

LEMMA LeaveIs ==
    ASSUME NEW f \in Frame, Says(f), Prepared(f), f.at \in {"clear", "store"}
    PROVE  /\ Leave(f) \in Frame
           /\ Leave(f).saved = f.saved /\ Leave(f).last = f.ret
           /\ Says(Leave(f)) /\ Prepared(Leave(f))
<1>1. CASE f.then = "run" BY <1>1, RunningIs DEF Leave, Frame
<1>2. CASE f.then # "run"
    <2>. DEFINE g == [f EXCEPT !.at = f.then, !.last = f.ret, !.clean = TRUE]
    <2>1. /\ g \in Frame /\ g.at = f.then /\ g.last = f.ret /\ g.saved = f.saved /\ g.then = f.then
          /\ g.said = f.said /\ g.backup = f.backup /\ g.asked = f.asked /\ g.prefix = f.prefix
          /\ g.sure = f.sure
        BY <1>2 DEF Frame
    <2>2. Leave(f) = g BY <1>2 DEF Leave
    <2>. HIDE DEF g
    <2>3. Says(g) BY <2>1 DEF Says
    <2>4. Prepared(g) BY <2>1, <1>2 DEF Prepared, Towards, Frame
    <2>. QED BY <2>1, <2>2, <2>3, <2>4
<1>. QED BY <1>1, <1>2

\* A perror step that writes keeps its part of the invariant.
LEMMA WriteInv ==
    ASSUME ErrnoInv, NEW f \in Frame, NEW s \in {"run", "colon", "check", "newline"},
           write(f, s), UNCHANGED errno, f.saved = Top.saved,
           f.clean => errno = f.last,
           Says(f),
           s = "colon" \/ s = "check" => f.backup = f.asked /\ f.said = Silent /\ f.prefix
    PROVE  ErrnoInv'
<1>1. PICK r \in {0} \cup WriteCodes : Replace(Enter(f, s, r)) BY DEF write
<1>. DEFINE g == Enter(f, s, r)
<1>2. r \in SysResult /\ r \in {0} \cup WriteCodes
    BY ErrnoAssumption DEF SysResult
<1>3. /\ g \in Frame /\ g.at = "clear" /\ g.then = s /\ g.ret = r /\ g.saved = f.saved
      /\ g.last = f.last /\ g.clean = f.clean /\ g.said = f.said /\ g.backup = f.backup
      /\ g.asked = f.asked /\ g.prefix = f.prefix /\ g.sure = f.sure
    BY <1>2 DEF Enter, Frame
<1>4. Replace(g) BY <1>1
<1>. HIDE DEF g
<1>5. Says(g) BY <1>3 DEF Says
<1>6. Prepared(g) BY <1>2, <1>3 DEF Prepared, Towards
<1>7. errno' \in SysResult BY DEF ErrnoInv, TypeOK
<1>. QED BY <1>3, <1>4, <1>5, <1>6, <1>7, ReplaceInv

\* What the invariant says of the innermost context.
LEMMA TopInv ==
    ASSUME ErrnoInv
    PROVE  /\ Top \in Frame /\ Says(Top) /\ Prepared(Top) /\ errno \in SysResult
           /\ Top.clean /\ Top.at # "store" => errno = Top.last
<1>1. Top \in Frame /\ Depth \in 1 .. MaxDepth BY TopIs DEF ErrnoInv
<1>2. Depth \in 1 .. Depth BY <1>1, ErrnoAssumption
<1>3. Seen(Depth) = errno BY DEF Seen
<1>. QED BY <1>1, <1>2, <1>3 DEF ErrnoInv, ErrnoTellsFate, TypeOK, Top

LEMMA SyscallInv ==
    ASSUME ErrnoInv, Syscall
    PROVE  ErrnoInv'
<1>1. PICK r \in SysResult : Replace(Enter(Top, "run", r)) BY DEF Syscall
<1>. DEFINE g == Enter(Top, "run", r)
<1>2. Top \in Frame BY TopInv
<1>3. /\ g \in Frame /\ g.at = "clear" /\ g.then = "run" /\ g.ret = r /\ g.saved = Top.saved
      /\ g.last = Top.last /\ g.clean = Top.clean /\ g.said = Top.said
    BY <1>2, EnterIs
<1>4. Replace(g) BY <1>1
<1>. HIDE DEF g
<1>5. Top.said = Silent BY TopInv DEF Prepared, Syscall
<1>6. Says(g) BY <1>3, <1>5 DEF Says
<1>7. Prepared(g) BY <1>3 DEF Prepared, Towards
<1>8. errno' = errno /\ Top.at = "run" BY DEF Syscall
<1>9. errno' \in SysResult /\ (g.clean => errno' = g.last) BY <1>3, <1>8, TopInv
<1>. QED BY <1>3, <1>4, <1>6, <1>7, <1>9, ReplaceInv

LEMMA ClearErrnoInv ==
    ASSUME ErrnoInv, ClearErrno
    PROVE  ErrnoInv'
<1>1. Top \in Frame /\ Says(Top) /\ Prepared(Top) /\ Top.at = "clear" BY TopInv DEF ClearErrno
<1>2. errno' = 0 /\ 0 \in SysResult BY DEF ClearErrno, SysResult
<1>3. CASE Top.ret = 0
    <2>1. Replace(Leave(Top)) BY <1>3 DEF ClearErrno
    <2>2. /\ Leave(Top) \in Frame /\ Leave(Top).saved = Top.saved /\ Leave(Top).last = Top.ret
          /\ Says(Leave(Top)) /\ Prepared(Leave(Top))
        BY <1>1, LeaveIs
    <2>. QED BY <2>1, <2>2, <1>2, <1>3, ReplaceInv
<1>4. CASE Top.ret # 0
    <2>. DEFINE g == [Top EXCEPT !.at = "store"]
    <2>1. Replace(g) BY <1>4 DEF ClearErrno
    <2>2. /\ g \in Frame /\ g.at = "store" /\ g.then = Top.then /\ g.ret = Top.ret
          /\ g.saved = Top.saved /\ g.said = Top.said /\ g.backup = Top.backup
          /\ g.asked = Top.asked /\ g.prefix = Top.prefix /\ g.sure = Top.sure
        BY <1>1 DEF Frame
    <2>. HIDE DEF g
    <2>3. Says(g) BY <1>1, <2>2 DEF Says
    <2>4. Prepared(g) BY <1>1, <2>2 DEF Prepared, Towards
    <2>. QED BY <2>1, <2>2, <2>3, <2>4, <1>2, ReplaceInv
<1>. QED BY <1>3, <1>4

LEMMA StoreErrnoInv ==
    ASSUME ErrnoInv, StoreErrno
    PROVE  ErrnoInv'
<1>1. Top \in Frame /\ Says(Top) /\ Prepared(Top) /\ Top.at = "store" BY TopInv DEF StoreErrno
<1>2. errno' = Top.ret /\ Top.ret \in SysResult /\ Replace(Leave(Top))
    BY <1>1 DEF StoreErrno, Frame
<1>3. /\ Leave(Top) \in Frame /\ Leave(Top).saved = Top.saved /\ Leave(Top).last = Top.ret
      /\ Says(Leave(Top)) /\ Prepared(Leave(Top))
    BY <1>1, LeaveIs
<1>. QED BY <1>2, <1>3, ReplaceInv

LEMMA OpenInv ==
    ASSUME ErrnoInv, open
    PROVE  ErrnoInv'
<1>1. PICK r \in SysResult : errno' = r /\ Replace(Running(Top.save, Top.saved, r)) BY DEF open
<1>2. Top.save \in BOOLEAN /\ Top.saved \in SysResult BY TopInv DEF Frame
<1>. QED BY <1>1, <1>2, RunningIs, ReplaceInv

LEMMA PerrorInv ==
    ASSUME ErrnoInv, perror
    PROVE  ErrnoInv'
<1>. DEFINE f == [Top EXCEPT !.backup = errno, !.asked = IF Top.clean THEN Top.last ELSE errno]
            p == [f EXCEPT !.prefix = TRUE]
            c == [f EXCEPT !.at = "check"]
<1>1. /\ Top \in Frame /\ Says(Top) /\ Prepared(Top) /\ Top.at = "run" /\ errno \in SysResult
      /\ Top.clean => errno = Top.last
    BY TopInv DEF perror
<1>2. Top.said = Silent /\ ~Top.prefix BY <1>1 DEF Prepared
<1>3. UNCHANGED errno BY DEF perror
<1>4. CASE write(p, "colon")
    <2>1. /\ p \in Frame /\ p.saved = Top.saved /\ p.clean = Top.clean /\ p.last = Top.last
          /\ p.said = Silent /\ p.prefix /\ p.backup = p.asked
        BY <1>1, <1>2 DEF Frame
    <2>. HIDE DEF p
    <2>2. Says(p) BY <2>1 DEF Says
    <2>. QED BY <1>1, <1>3, <1>4, <2>1, <2>2, WriteInv
<1>5. CASE Replace(c)
    <2>1. /\ c \in Frame /\ c.saved = Top.saved /\ c.clean = Top.clean /\ c.last = Top.last
          /\ c.said = Silent /\ c.at = "check" /\ c.prefix = FALSE /\ c.backup = c.asked
          /\ c.clean => c.asked = c.last
        BY <1>1, <1>2 DEF Frame
    <2>. HIDE DEF c
    <2>2. Says(c) BY <2>1 DEF Says
    <2>3. Prepared(c) BY <2>1 DEF Prepared, Towards
    <2>. QED BY <1>1, <1>3, <1>5, <2>1, <2>2, <2>3, ReplaceInv
<1>. QED BY <1>4, <1>5 DEF perror

LEMMA PerrorColonInv ==
    ASSUME ErrnoInv, PerrorColon
    PROVE  ErrnoInv'
<1>1. /\ Top \in Frame /\ Says(Top) /\ Prepared(Top) /\ Top.at = "colon"
      /\ Top.clean => errno = Top.last
    BY TopInv DEF PerrorColon
<1>2. Top.backup = Top.asked /\ Top.said = Silent /\ Top.prefix
    BY <1>1 DEF Prepared, Towards
<1>. QED BY <1>1, <1>2, WriteInv DEF PerrorColon

LEMMA PerrorMessageInv ==
    ASSUME ErrnoInv, PerrorMessage
    PROVE  ErrnoInv'
<1>. DEFINE u == Top.clean /\ (Top.prefix => Top.last <= PERRMSG_MAX)
            f == [Top EXCEPT !.said = Message, !.sure = u]
<1>1. /\ Top \in Frame /\ Prepared(Top) /\ Top.at = "check" /\ errno \in SysResult
      /\ Top.clean => errno = Top.last
    BY TopInv DEF PerrorMessage
<1>2. Top.backup = Top.asked /\ (~Top.prefix /\ Top.clean => Top.last = Top.asked)
    BY <1>1 DEF Prepared, Towards
<1>3. /\ Top.backup \in SysResult /\ u \in BOOLEAN
      /\ Message \in {Unknown, Wild} \cup SysResult
    BY <1>1 DEF Message, errmsg, Frame
<1>4. /\ f \in Frame /\ f.said = Message /\ f.sure = u /\ f.asked = Top.asked
      /\ f.prefix = Top.prefix /\ f.saved = Top.saved /\ f.clean = Top.clean /\ f.last = Top.last
    BY <1>1, <1>3 DEF Frame
<1>5. write(f, "newline") /\ UNCHANGED errno BY DEF PerrorMessage
<1>6. (u => Top.clean) /\ (u /\ Top.prefix => Top.last <= PERRMSG_MAX) OBVIOUS
<1>. HIDE DEF f, u
<1>7. Says(f)
    <2>1. Message = IF errno > PERRMSG_MAX THEN Unknown ELSE errmsg(f.asked)
        BY <1>2, <1>4 DEF Message
    <2>2. errno \in Nat /\ f.asked \in Nat /\ PERRMSG_MAX \in Nat
        <3>1. f.asked \in SysResult BY <1>2, <1>3, <1>4
        <3>2. errno \in SysResult BY <1>1
        <3>. QED BY <3>1, <3>2, ResultsNat
    <2>3. f.prefix /\ f.sure => errno <= PERRMSG_MAX BY <1>1, <1>4, <1>6
    <2>4. ~f.prefix /\ f.sure => errno = f.asked BY <1>1, <1>2, <1>4, <1>6
    <2>5. f.said = Message BY <1>4
    <2>6. f.sure \in BOOLEAN /\ f.prefix \in BOOLEAN BY <1>4 DEF Frame
    <2>7. CASE errno > PERRMSG_MAX
        <3>1. f.said = Unknown BY <2>1, <2>5, <2>7
        <3>2. Unknown # Wild BY DEF Unknown, Wild
        <3>3. f.sure => ~f.prefix /\ f.asked > PERRMSG_MAX BY <2>2, <2>3, <2>4, <2>6, <2>7
        <3>. QED BY <3>1, <3>2, <3>3, <2>6 DEF Says, RightMessage
    <2>8. CASE ~(errno > PERRMSG_MAX)
        <3>1. f.said = errmsg(f.asked) BY <2>1, <2>5, <2>8
        <3>2. f.asked # Wild BY <2>2 DEF Wild
        <3>3. f.sure /\ ~f.prefix => ~(f.asked > PERRMSG_MAX) BY <2>4, <2>8
        <3>. QED BY <3>1, <3>2, <3>3, <2>6 DEF Says, RightMessage, errmsg
    <2>. QED BY <2>7, <2>8
<1>. QED BY <1>1, <1>4, <1>5, <1>7, WriteInv

LEMMA PerrorNewlineInv ==
    ASSUME ErrnoInv, PerrorNewline
    PROVE  ErrnoInv'
<1>1. /\ Top \in Frame /\ Says(Top) /\ Top.at = "newline" /\ (Top.clean => errno = Top.last)
    BY TopInv DEF PerrorNewline
<1>. QED BY <1>1, WriteInv DEF PerrorNewline

LEMMA DeliverInv ==
    ASSUME ErrnoInv, Deliver
    PROVE  ErrnoInv'
<1>1. PICK s \in BOOLEAN : frames' = Append(frames, Running(s, errno, errno)) BY DEF Deliver
<1>. DEFINE g == Running(s, errno, errno)
<1>2. errno \in SysResult /\ UNCHANGED errno /\ Depth < MaxDepth BY TopInv DEF Deliver
<1>3. g \in Frame /\ g.saved = errno /\ g.last = errno /\ Says(g) /\ Prepared(g)
    BY <1>2, RunningIs
<1>4. frames' = Append(frames, g) BY <1>1
<1>. HIDE DEF g
<1>5. Depth \in 1 .. MaxDepth /\ frames \in Seq(Frame) BY TopIs DEF ErrnoInv, TypeOK
<1>6. /\ frames' \in Seq(Frame) /\ Depth' = Depth + 1 /\ frames'[Depth + 1] = g
      /\ \A i \in 1 .. Depth : frames'[i] = frames[i]
    BY <1>3, <1>4, <1>5 DEF Depth
<1>7. TypeOK' BY <1>2, <1>5, <1>6, ErrnoAssumption DEF TypeOK, Depth
<1>8. ErrnoTellsFate'
    <2>. PICK n \in Nat : n = Depth + 1 BY <1>5, ErrnoAssumption
    <2>1. n = Depth' /\ Seen(n)' = errno /\ frames'[n] = g BY <1>2, <1>6 DEF Seen
    <2>2. ASSUME NEW i \in 1 .. Depth PROVE Seen(i)' = Seen(i)
        <3>1. CASE i = Depth
            <4>1. Seen(i)' = g.saved BY <3>1, <1>5, <1>6, ErrnoAssumption DEF Seen
            <4>. QED BY <4>1, <3>1, <1>3 DEF Seen
        <3>2. CASE i # Depth
            <4>1. i + 1 \in 1 .. Depth BY <3>2, <1>5, ErrnoAssumption
            <4>. QED BY <4>1, <3>2, <1>5, <1>6, ErrnoAssumption DEF Seen
        <3>. QED BY <3>1, <3>2
    <2>3. ASSUME NEW i \in 1 .. Depth'
          PROVE  frames'[i].clean /\ frames'[i].at # "store" => Seen(i)' = frames'[i].last
        <3>1. CASE i = n BY <3>1, <2>1, <1>3
        <3>2. CASE i # n
            <4>1. i \in 1 .. Depth BY <3>2, <2>1, <1>5, <1>6, ErrnoAssumption
            <4>. QED BY <4>1, <2>2, <1>6 DEF ErrnoTellsFate, ErrnoInv
        <3>. QED BY <3>1, <3>2
    <2>. QED BY <2>3 DEF ErrnoTellsFate
<1>9. \A i \in 1 .. Depth' : Says(frames'[i]) /\ Prepared(frames'[i])
    <2>1. \A i \in 1 .. Depth' : i \in 1 .. Depth \/ i = Depth + 1
        BY <1>5, <1>6, ErrnoAssumption
    <2>. QED BY <2>1, <1>3, <1>6 DEF ErrnoInv
<1>. QED BY <1>7, <1>8, <1>9 DEF ErrnoInv, Says, Prepared, Towards

LEMMA HandlerReturnsInv ==
    ASSUME ErrnoInv, HandlerReturns
    PROVE  ErrnoInv'
<1>. PICK n \in Nat : n = Depth - 1 /\ n \in 1 .. MaxDepth
    BY TopIs, ErrnoAssumption DEF ErrnoInv, HandlerReturns
<1>. DEFINE r == SubSeq(frames, 1, n)
            g == [frames[n] EXCEPT !.clean = Top.save /\ frames[n].clean]
<1>1. frames \in Seq(Frame) /\ Len(frames) = n + 1 /\ Depth = n + 1 /\ n + 1 <= MaxDepth
    BY TopIs, ErrnoAssumption DEF ErrnoInv, TypeOK, Depth
<1>2. r \in Seq(Frame) /\ Len(r) = n /\ \A i \in 1 .. n : r[i] = frames[i]
    BY <1>1, SubSeqProperties
<1>3. Top \in Frame /\ Top = frames[n + 1] /\ errno \in SysResult /\ Top.at = "run"
    BY <1>1, TopInv DEF Top, HandlerReturns
<1>4. frames[n] \in Frame /\ n \in 1 .. n BY <1>1
<1>5. frames' = [r EXCEPT ![n] = g]
    <2>1. frames' = [r EXCEPT ![n].clean = Top.save /\ frames[n].clean]
        BY <1>1 DEF HandlerReturns
    <2>. QED BY <2>1, <1>2, <1>4
<1>. HIDE DEF r
<1>6. /\ g \in Frame /\ g.at = frames[n].at /\ g.then = frames[n].then /\ g.ret = frames[n].ret
      /\ g.saved = frames[n].saved /\ g.said = frames[n].said /\ g.backup = frames[n].backup
      /\ g.asked = frames[n].asked /\ g.prefix = frames[n].prefix /\ g.sure = frames[n].sure
      /\ g.last = frames[n].last /\ g.clean = (Top.save /\ frames[n].clean)
    BY <1>3, <1>4 DEF Frame
<1>. HIDE DEF g
<1>7. /\ frames' \in Seq(Frame) /\ Depth' = n /\ frames'[n] = g
      /\ \A i \in 1 .. n : i # n => frames'[i] = frames[i]
    BY <1>2, <1>4, <1>5, <1>6 DEF Depth
<1>8. errno' = IF Top.save THEN Top.saved ELSE errno BY DEF HandlerReturns
<1>9. TypeOK'
    <2>1. Top.saved \in SysResult BY <1>3 DEF Frame
    <2>. QED BY <2>1, <1>3, <1>7, <1>8 DEF TypeOK, Depth
<1>10. ErrnoTellsFate'
    <2>1. ASSUME NEW i \in 1 .. n
          PROVE  frames'[i].clean /\ frames'[i].at # "store" => Seen(i)' = frames'[i].last
        <3>1. Seen(i) = frames[i + 1].saved BY <1>1 DEF Seen
        <3>2. frames[i].clean /\ frames[i].at # "store" => frames[i + 1].saved = frames[i].last
            BY <3>1, <1>1 DEF ErrnoInv, ErrnoTellsFate
        <3>3. CASE i = n
            <4>1. Seen(i)' = errno' BY <3>3, <1>7 DEF Seen
            <4>. QED BY <4>1, <3>2, <3>3, <1>3, <1>6, <1>7, <1>8
        <3>4. CASE i # n
            <4>1. i + 1 \in 1 .. n BY <3>4
            <4>2. frames'[i + 1].saved = frames[i + 1].saved BY <4>1, <1>6, <1>7
            <4>3. Seen(i)' = frames'[i + 1].saved BY <3>4, <1>7 DEF Seen
            <4>. QED BY <4>2, <4>3, <3>2, <3>4, <1>7
        <3>. QED BY <3>3, <3>4
    <2>. QED BY <2>1, <1>7 DEF ErrnoTellsFate
<1>11. Says(g) /\ Prepared(g)
    <2>1. Says(frames[n]) /\ Prepared(frames[n]) BY <1>1 DEF ErrnoInv
    <2>2. Says(g) BY <2>1, <1>6 DEF Says
    <2>3. Prepared(g) BY <2>1, <1>6 DEF Prepared, Towards
    <2>. QED BY <2>2, <2>3
<1>12. \A i \in 1 .. Depth' : Says(frames'[i]) /\ Prepared(frames'[i])
    <2>1. \A i \in 1 .. n : Says(frames[i]) /\ Prepared(frames[i]) BY <1>1 DEF ErrnoInv
    <2>. QED BY <2>1, <1>7, <1>11
<1>. QED BY <1>9, <1>10, <1>12 DEF ErrnoInv, Says, Prepared, Towards

LEMMA InitInv ==
    ASSUME Init
    PROVE  ErrnoInv
<1>. DEFINE g == Running(TRUE, 0, 0)
<1>1. 0 \in SysResult BY DEF SysResult
<1>2. g \in Frame /\ g.last = 0 /\ Says(g) /\ Prepared(g) BY <1>1, RunningIs
<1>3. frames = <<g>> /\ errno = 0 BY DEF Init
<1>. HIDE DEF g
<1>4. Depth = 1 /\ frames[1] = g BY <1>3 DEF Depth
<1>5. TypeOK BY <1>1, <1>2, <1>3, ErrnoAssumption DEF TypeOK
<1>6. ErrnoTellsFate BY <1>2, <1>3, <1>4 DEF ErrnoTellsFate, Seen
<1>. QED BY <1>2, <1>4, <1>5, <1>6 DEF ErrnoInv

LEMMA StepInv ==
    ASSUME ErrnoInv, [Next]_vars
    PROVE  ErrnoInv'
<1>1. CASE Next
    BY <1>1, SyscallInv, ClearErrnoInv, StoreErrnoInv, OpenInv, PerrorInv, PerrorColonInv,
       PerrorMessageInv, PerrorNewlineInv, DeliverInv, HandlerReturnsInv DEF Next
<1>2. CASE UNCHANGED vars
    BY <1>2 DEF vars, ErrnoInv, TypeOK, ErrnoTellsFate, Seen, Depth, Says, Prepared, Towards
<1>. QED BY <1>1, <1>2

\* The inductive invariant of errno and perror holds however calls and handlers are
\* nested.
THEOREM ErrnoInvariant == Spec => []ErrnoInv
<1>1. Init => ErrnoInv BY InitInv
<1>2. ErrnoInv /\ [Next]_vars => ErrnoInv' BY StepInv
<1>. QED BY <1>1, <1>2, PTL DEF Spec

\* errno tells every context how its last call ended, for any error numbers and any depth
\* of handlers (the wrappers' two stores in libmini.c, the single one of open).
THEOREM FateTold == Spec => []ErrnoTellsFate
<1>1. ErrnoInv => ErrnoTellsFate BY DEF ErrnoInv
<1>. QED BY <1>1, ErrnoInvariant, PTL

\* Whatever perror's own writes and the handlers between them do to errno, it never names
\* another error than the one it was called about: it prints that one's message, or
\* "Unknown", and reads past its table (libmini.c:339) only for an error without a message.
THEOREM PerrorRight == Spec => []PerrorSays
<1>1. ErrnoInv => PerrorSays BY DEF ErrnoInv, PerrorSays
<1>. QED BY <1>1, ErrnoInvariant, PTL

\* Every handler that runs saves errno on entry and puts it back.
Courteous == \A i \in 1 .. Depth : frames[i].save

\* Every error of a write to stderr has a message.
WriteErrorsNamed == \A c \in WriteCodes : c <= PERRMSG_MAX

\* Then no context has been misled, and no message was chosen by one that was.
Faithful(f) == f.clean /\ (f.said # Silent /\ (f.prefix => WriteErrorsNamed) => f.sure)
AllFaithful == \A i \in 1 .. Depth : Faithful(frames[i])

LEMMA ReplaceFaithful ==
    ASSUME TypeOK, AllFaithful, NEW f \in Frame, Replace(f), Faithful(f)
    PROVE  AllFaithful'
<1>1. /\ Depth' = Depth /\ frames'[Depth] = f
      /\ \A i \in 1 .. Depth : i # Depth => frames'[i] = frames[i]
    BY ReplaceIs
<1>. QED BY <1>1 DEF AllFaithful

LEMMA EnterFaithful ==
    ASSUME TypeOK, AllFaithful, NEW f \in Frame, Faithful(f),
           NEW s \in {"run", "colon", "check", "newline"}, NEW r \in SysResult,
           Replace(Enter(f, s, r))
    PROVE  AllFaithful'
<1>. DEFINE g == Enter(f, s, r)
<1>1. /\ g \in Frame /\ g.clean = f.clean /\ g.said = f.said /\ g.sure = f.sure
      /\ g.prefix = f.prefix
    BY DEF Enter, Frame
<1>2. Replace(g) OBVIOUS
<1>. HIDE DEF g
<1>3. Faithful(g) BY <1>1 DEF Faithful
<1>. QED BY <1>1, <1>2, <1>3, ReplaceFaithful

LEMMA RunningFaithful ==
    ASSUME TypeOK, AllFaithful, NEW s \in BOOLEAN, NEW e \in SysResult, NEW r \in SysResult,
           Replace(Running(s, e, r))
    PROVE  AllFaithful'
<1>. DEFINE g == Running(s, e, r)
<1>1. g \in Frame BY RunningIs
<1>2. g.clean /\ g.said = Silent BY DEF Running
<1>3. Replace(g) OBVIOUS
<1>. HIDE DEF g
<1>4. Faithful(g) BY <1>2 DEF Faithful
<1>. QED BY <1>1, <1>3, <1>4, ReplaceFaithful

LEMMA LeaveFaithful ==
    ASSUME TypeOK, AllFaithful, NEW f \in Frame, Faithful(f), Says(f), Prepared(f),
           f.at \in {"clear", "store"}, Replace(Leave(f))
    PROVE  AllFaithful'
<1>1. CASE f.then = "run"
    BY <1>1, RunningFaithful DEF Leave, Frame
<1>2. CASE f.then # "run"
    <2>. DEFINE g == [f EXCEPT !.at = f.then, !.last = f.ret, !.clean = TRUE]
    <2>1. Leave(f) = g BY <1>2 DEF Leave
    <2>2. g.clean /\ g.said = f.said /\ g.sure = f.sure /\ g.prefix = f.prefix BY DEF Frame
    <2>3. g \in Frame BY <2>1, LeaveIs
    <2>. HIDE DEF g
    <2>4. Faithful(g) BY <2>2 DEF Faithful
    <2>. QED BY <2>1, <2>3, <2>4, ReplaceFaithful
<1>. QED BY <1>1, <1>2

LEMMA FaithfulStep ==
    ASSUME ErrnoInv, Courteous, AllFaithful, [Next]_vars
    PROVE  AllFaithful'
<1>. USE DEF ErrnoInv
<1>1. /\ Top \in Frame /\ Says(Top) /\ Prepared(Top) /\ errno \in SysResult BY TopInv
<1>2. Depth \in 1 .. Depth /\ Depth \in Nat \ {0} BY TopIs, ErrnoAssumption
<1>3. Faithful(Top) /\ Top.save BY <1>2 DEF AllFaithful, Courteous, Top
<1>4. ASSUME Syscall PROVE AllFaithful'
    BY <1>1, <1>3, <1>4, EnterFaithful DEF Syscall
<1>5. ASSUME ClearErrno PROVE AllFaithful'
    <2>1. CASE Top.ret = 0
        BY <1>1, <1>3, <1>5, <2>1, LeaveFaithful DEF ClearErrno
    <2>2. CASE Top.ret # 0
        <3>. DEFINE g == [Top EXCEPT !.at = "store"]
        <3>1. /\ g \in Frame /\ g.clean = Top.clean /\ g.said = Top.said /\ g.sure = Top.sure
              /\ g.prefix = Top.prefix
            BY <1>1 DEF Frame
        <3>2. Replace(g) BY <1>5, <2>2 DEF ClearErrno
        <3>. HIDE DEF g
        <3>3. Faithful(g) BY <1>3, <3>1 DEF Faithful
        <3>. QED BY <3>1, <3>2, <3>3, ReplaceFaithful
    <2>. QED BY <2>1, <2>2
<1>6. ASSUME StoreErrno PROVE AllFaithful'
    BY <1>1, <1>3, <1>6, LeaveFaithful DEF StoreErrno
<1>7. ASSUME open PROVE AllFaithful'
    BY <1>1, <1>7, RunningFaithful DEF open, Frame
<1>8. ASSUME NEW f \in Frame, NEW s \in {"run", "colon", "check", "newline"}, Faithful(f), write(f, s)
      PROVE  AllFaithful'
    <2>1. PICK r \in {0} \cup WriteCodes : Replace(Enter(f, s, r)) BY <1>8 DEF write
    <2>2. r \in SysResult BY ErrnoAssumption DEF SysResult
    <2>. QED BY <1>8, <2>1, <2>2, EnterFaithful
<1>9. ASSUME perror PROVE AllFaithful'
    <2>. DEFINE f == [Top EXCEPT !.backup = errno, !.asked = IF Top.clean THEN Top.last ELSE errno]
                g == [f EXCEPT !.prefix = TRUE]
                k == [f EXCEPT !.at = "check"]
    <2>1. /\ g \in Frame /\ g.clean = Top.clean /\ g.said = Top.said /\ g.sure = Top.sure
          /\ k \in Frame /\ k.clean = Top.clean /\ k.said = Top.said /\ k.sure = Top.sure
        BY <1>1 DEF Frame
    <2>2. write(g, "colon") \/ Replace(k) BY <1>9 DEF perror
    <2>. HIDE DEF g, k
    <2>3. Top.said = Silent BY <1>1, <1>9 DEF perror, Prepared
    <2>4. Faithful(g) /\ Faithful(k) BY <1>3, <2>1, <2>3 DEF Faithful
    <2>. QED BY <2>1, <2>2, <2>4, <1>8, ReplaceFaithful
<1>10. ASSUME PerrorColon \/ PerrorNewline PROVE AllFaithful'
    BY <1>1, <1>3, <1>8, <1>10 DEF PerrorColon, PerrorNewline
<1>11. ASSUME PerrorMessage PROVE AllFaithful'
    <2>. DEFINE u == Top.clean /\ (Top.prefix => Top.last <= PERRMSG_MAX)
                g == [Top EXCEPT !.said = Message, !.sure = u]
    <2>1. Message \in {Unknown, Wild} \cup SysResult BY <1>1 DEF Message, errmsg, Frame
    <2>2. u \in BOOLEAN BY <1>1 DEF Frame
    <2>3. /\ g \in Frame /\ g.clean = Top.clean /\ g.sure = u /\ g.prefix = Top.prefix
        BY <1>1, <2>1, <2>2 DEF Frame
    <2>4. write(g, "newline") BY <1>11 DEF PerrorMessage
    <2>5. (Top.prefix => WriteErrorsNamed) => u
        <3>1. Top.prefix => Top.last \in {0} \cup WriteCodes BY <1>1, <1>11 DEF PerrorMessage, Prepared
        <3>2. Top.clean BY <1>3 DEF Faithful
        <3>3. Top.prefix /\ WriteErrorsNamed => Top.last <= PERRMSG_MAX
            <4>. SUFFICES ASSUME Top.prefix, WriteErrorsNamed PROVE Top.last <= PERRMSG_MAX
                OBVIOUS
            <4>1. Top.last = 0 \/ Top.last \in WriteCodes BY <3>1
            <4>. QED BY <4>1, ResultsNat DEF WriteErrorsNamed
        <3>. QED BY <3>2, <3>3, Zenon
    <2>. HIDE DEF g
    <2>6. Faithful(g) BY <1>3, <2>3, <2>5 DEF Faithful
    <2>. QED BY <2>3, <2>4, <2>6, <1>8
<1>12. ASSUME Deliver PROVE AllFaithful'
    <2>1. PICK s \in BOOLEAN : frames' = Append(frames, Running(s, errno, errno))
        BY <1>12 DEF Deliver
    <2>. DEFINE g == Running(s, errno, errno)
    <2>2. g.clean /\ g.said = Silent BY DEF Running
    <2>3. g \in Frame BY <1>1, RunningIs
    <2>4. frames' = Append(frames, g) BY <2>1
    <2>. HIDE DEF g
    <2>5. /\ Depth' = Depth + 1 /\ frames'[Depth + 1] = g
          /\ \A i \in 1 .. Depth : frames'[i] = frames[i]
        BY <2>3, <2>4 DEF TypeOK, Depth
    <2>6. \A i \in 1 .. Depth' : i \in 1 .. Depth \/ i = Depth + 1 BY <2>5, <1>2
    <2>7. Faithful(g) BY <2>2 DEF Faithful
    <2>. QED BY <2>5, <2>6, <2>7 DEF AllFaithful
<1>13. ASSUME HandlerReturns PROVE AllFaithful'
    <2>. PICK n \in Nat : n = Depth - 1 /\ n \in 1 .. MaxDepth
        BY <1>13, TopIs, ErrnoAssumption DEF HandlerReturns
    <2>. DEFINE r == SubSeq(frames, 1, n)
                g == [frames[n] EXCEPT !.clean = Top.save /\ frames[n].clean]
    <2>1. frames \in Seq(Frame) /\ Len(frames) = n + 1 /\ Depth = n + 1
        BY TopIs, ErrnoAssumption DEF TypeOK, Depth
    <2>2. r \in Seq(Frame) /\ Len(r) = n /\ \A i \in 1 .. n : r[i] = frames[i]
        BY <2>1, SubSeqProperties
    <2>3. frames[n] \in Frame /\ n \in 1 .. n BY <2>1
    <2>4. frames' = [r EXCEPT ![n] = g]
        <3>1. frames' = [r EXCEPT ![n].clean = Top.save /\ frames[n].clean]
            BY <1>13, <2>1 DEF HandlerReturns
        <3>. QED BY <3>1, <2>2, <2>3
    <2>. HIDE DEF r
    <2>5. /\ g \in Frame /\ g.said = frames[n].said /\ g.sure = frames[n].sure
          /\ g.prefix = frames[n].prefix
          /\ g.clean = (Top.save /\ frames[n].clean)
        BY <1>1, <2>3 DEF Frame
    <2>. HIDE DEF g
    <2>6. /\ Depth' = n /\ frames'[n] = g
          /\ \A i \in 1 .. n : i # n => frames'[i] = frames[i]
        BY <2>2, <2>3, <2>4, <2>5 DEF Depth
    <2>7. \A i \in 1 .. n : Faithful(frames[i]) BY <2>1 DEF AllFaithful
    <2>8. Faithful(g) BY <2>3, <2>5, <2>7, <1>3 DEF Faithful
    <2>. QED BY <2>6, <2>7, <2>8 DEF AllFaithful
<1>14. CASE UNCHANGED vars BY <1>14 DEF vars, AllFaithful, Depth
<1>. QED BY <1>4, <1>5, <1>6, <1>7, <1>9, <1>10, <1>11, <1>12, <1>13, <1>14 DEF Next

\* Among handlers that save errno: it tells every context how its own last call ended,
\* and perror prints the right message of the error before it, or "Unknown" without one.
\* With a prefix this is so only for an error that has a message, and if the writes of the
\* prefix fail with none but such errors; an error without one then sends perror past the
\* end of errmsg[], always.
ExactErrno == \A i \in 1 .. Depth : LET f == frames[i] IN
    /\ f.at # "store" => Seen(i) = f.last
    /\ f.said # Silent /\ ~f.prefix => f.said = RightMessage(f.asked)
    /\ f.said # Silent /\ f.prefix /\ WriteErrorsNamed =>
          f.said = IF f.asked > PERRMSG_MAX THEN Wild ELSE f.asked

\* A handler that saves and restores errno is all it takes to keep interleavings harmless:
\* then no handler between the two stores of a wrapper or between perror's writes
\* (libmini.c) makes errno or a message wrong.  What stays wrong is perror's own: its check
\* of an errno that the prefix's writes have replaced (libmini.c:338).
THEOREM SavingSuffices == Spec /\ []Courteous => []ExactErrno
<1>1. Init => AllFaithful
    <2>1. ASSUME Init PROVE Depth = 1 /\ frames[1].clean /\ frames[1].said = Silent
        BY <2>1 DEF Init, Depth, Running
    <2>. QED BY <2>1 DEF AllFaithful, Faithful
<1>2. ErrnoInv /\ Courteous /\ AllFaithful /\ [Next]_vars => AllFaithful' BY FaithfulStep
<1>3. ErrnoInv /\ AllFaithful => ExactErrno
    <2>. SUFFICES ASSUME ErrnoInv, AllFaithful, NEW i \in 1 .. Depth
                  PROVE  /\ frames[i].at # "store" => Seen(i) = frames[i].last
                         /\ frames[i].said # Silent /\ ~frames[i].prefix =>
                               frames[i].said = RightMessage(frames[i].asked)
                         /\ frames[i].said # Silent /\ frames[i].prefix /\ WriteErrorsNamed =>
                               frames[i].said = IF frames[i].asked > PERRMSG_MAX THEN Wild
                                                ELSE frames[i].asked
        BY DEF ExactErrno
    <2>1. Says(frames[i]) /\ Faithful(frames[i]) BY DEF ErrnoInv, AllFaithful
    <2>2. frames[i].at # "store" => Seen(i) = frames[i].last
        BY <2>1 DEF ErrnoInv, ErrnoTellsFate, Faithful
    <2>. QED BY <2>1, <2>2 DEF Says, Faithful, RightMessage
<1>. QED BY <1>1, <1>2, <1>3, ErrnoInvariant, PTL DEF Spec
=============================================================================
