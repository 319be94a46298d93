----------------------------- MODULE MiniErrno ------------------------------
(***************************************************************************)
(* errno in libmini: every wrapper clears it and then stores the error of  *)
(* its system call, and perror, which is made of wrappers itself, prints   *)
(* the message of the error it found on entry.  Signals interrupt any two  *)
(* of these steps, and a handler calls the library as the program does.    *)
(* A handler is the program's code: it may or may not save errno.          *)
(***************************************************************************)
EXTENDS Integers, Sequences

CONSTANTS
    Codes,          \* the error numbers the kernel may return
    WriteCodes,     \* those of a write to stderr
    PERRMSG_MAX,    \* the last entry of the message table
    MaxDepth        \* bound: the program and the handlers running on top of it

ASSUME ErrnoAssumption ==
    /\ Codes \subseteq Nat \ {0}
    /\ WriteCodes \subseteq Codes
    /\ PERRMSG_MAX \in Nat
    /\ MaxDepth \in Nat \ {0}

\* What a system call returns: success, or an error number with its sign changed.
SysResult == {0} \cup Codes

Silent == -1        \* perror has printed no message yet
Unknown == -2       \* it has printed the string "Unknown"
Wild == -3          \* it has read errmsg[] past its end and printed what it found there

VARIABLES
    errno,
    frames          \* the program's context and those of the handlers above it

vars == <<errno, frames>>

\* at: the next step of the context; ret: the result of its system call; then: the step
\* that called the wrapper; backup, prefix: perror's; said: the message printed.
\* save: does the handler save errno, and saved: its value on entry.
\* Ghosts.  last: the result of the last wrapper that ended; clean: since then, no handler
\* that does not save errno has returned; asked: the error perror was called about; sure:
\* errno, when it was checked, was still that of perror's last write, an error with a
\* message, or, where it had written nothing, the error it was called about.
Frame == [at : {"run", "clear", "store", "colon", "check", "newline"},
          then : {"run", "colon", "check", "newline"},
          ret : SysResult, backup : SysResult, prefix : BOOLEAN,
          said : {Silent, Unknown, Wild} \cup SysResult,
          save : BOOLEAN, saved : SysResult,
          last : SysResult, clean : BOOLEAN, asked : SysResult, sure : BOOLEAN]

\* A context that begins, or goes on outside the library, after result r.
Running(s, e, r) ==
    [at |-> "run", then |-> "run", ret |-> 0, backup |-> 0, prefix |-> FALSE,
     said |-> Silent, save |-> s, saved |-> e, last |-> r, clean |-> TRUE,
     asked |-> 0, sure |-> FALSE]

TypeOK ==
    /\ errno \in SysResult
    /\ frames \in Seq(Frame)
    /\ Len(frames) \in 1 .. MaxDepth

Init ==
    /\ errno = 0
    /\ frames = <<Running(TRUE, 0, 0)>>

Depth == Len(frames)
Top == frames[Depth]
Replace(f) == frames' = [frames EXCEPT ![Depth] = f]

-----------------------------------------------------------------------------
(* Wrappers *)

\* The wrapper called at step s has made its system call, with result r; and it returns.
Enter(f, s, r) == [f EXCEPT !.at = "clear", !.then = s, !.ret = r]
Leave(f) == IF f.then = "run" THEN Running(f.save, f.saved, f.ret)
            ELSE [f EXCEPT !.at = f.then, !.last = f.ret, !.clean = TRUE]

Syscall ==
    /\ Top.at = "run"
    /\ \E r \in SysResult : Replace(Enter(Top, "run", r))
    /\ UNCHANGED errno

\* Mutant: a call that succeeds leaves errno alone.
ClearErrnoNever ==
    /\ Top.at = "clear"
    /\ UNCHANGED errno
    /\ Replace(IF Top.ret = 0 THEN Leave(Top) ELSE [Top EXCEPT !.at = "store"])

\* errno = 0; if(ret < 0) ...
ClearErrno ==
    /\ Top.at = "clear"
    /\ errno' = 0
    /\ Replace(IF Top.ret = 0 THEN Leave(Top) ELSE [Top EXCEPT !.at = "store"])

\* ... errno = -ret
StoreErrno ==
    /\ Top.at = "store"
    /\ errno' = Top.ret
    /\ Replace(Leave(Top))

\* open, in assembly: one store on either path.
open ==
    /\ Top.at = "run"
    /\ \E r \in SysResult : errno' = r /\ Replace(Running(Top.save, Top.saved, r))

-----------------------------------------------------------------------------
(* perror *)

write(f, s) == \E r \in {0} \cup WriteCodes : Replace(Enter(f, s, r))

perror ==
    /\ Top.at = "run"
    /\ LET f == [Top EXCEPT !.backup = errno, !.asked = IF Top.clean THEN Top.last ELSE errno]
       IN  \/ write([f EXCEPT !.prefix = TRUE], "colon")
           \/ Replace([f EXCEPT !.at = "check"])
    /\ UNCHANGED errno

PerrorColon ==
    /\ Top.at = "colon"
    /\ write(Top, "check")
    /\ UNCHANGED errno

\* The message table, which ends at PERRMSG_MAX.
errmsg(e) == IF e > PERRMSG_MAX THEN Wild ELSE e

\* Mutant: the message of the current error.
MessageNow == IF errno > PERRMSG_MAX THEN Unknown ELSE errmsg(errno)

\* The check is of the current errno, the message that of the saved one.
Message == IF errno > PERRMSG_MAX THEN Unknown ELSE errmsg(Top.backup)

PerrorMessage ==
    /\ Top.at = "check"
    /\ write([Top EXCEPT !.said = Message,
                         !.sure = Top.clean /\ (Top.prefix => Top.last <= PERRMSG_MAX)],
             "newline")
    /\ UNCHANGED errno

PerrorNewline ==
    /\ Top.at = "newline"
    /\ write(Top, "run")
    /\ UNCHANGED errno

-----------------------------------------------------------------------------
(* Handlers *)

Deliver ==
    /\ Depth < MaxDepth
    /\ \E s \in BOOLEAN : frames' = Append(frames, Running(s, errno, errno))
    /\ UNCHANGED errno

HandlerReturns ==
    /\ Depth > 1 /\ Top.at = "run"
    /\ errno' = IF Top.save THEN Top.saved ELSE errno
    /\ frames' = [SubSeq(frames, 1, Depth - 1) EXCEPT
                     ![Depth - 1].clean = Top.save /\ frames[Depth - 1].clean]

Next == \/ Syscall \/ ClearErrno \/ StoreErrno \/ open
        \/ perror \/ PerrorColon \/ PerrorMessage \/ PerrorNewline
        \/ Deliver \/ HandlerReturns

Spec == Init /\ [][Next]_vars

-----------------------------------------------------------------------------
(* Properties *)

\* errno as context i left it: the handler above it has put it aside.
Seen(i) == IF i = Depth THEN errno ELSE frames[i + 1].saved

\* Outside the two stores of a wrapper, errno tells every context how its own last call
\* ended, wherever in the library handlers have interrupted it, unless a handler that
\* does not save errno has returned since.
ErrnoTellsFate == \A i \in 1 .. Depth :
    frames[i].clean /\ frames[i].at # "store" => Seen(i) = frames[i].last

\* What perror should print about error e: the table's message, or "Unknown" without one.
RightMessage(e) == IF e > PERRMSG_MAX THEN Unknown ELSE e

\* perror prints the right message of the call before it, although its own writes set
\* errno and handlers run between them, or "Unknown" when one of these left an error
\* without a message in errno.  Past its table it reads only for an error that has no
\* message; undisturbed, it does so exactly when it was given a prefix, whose writes have
\* replaced the errno that it checks: there, it is wrong.
Says(f) == f.said # Silent =>
    /\ f.said \in {RightMessage(f.asked), Unknown, Wild}
    /\ f.said = Wild => f.asked > PERRMSG_MAX
    /\ f.sure /\ f.said # Wild => f.said = RightMessage(f.asked)
    /\ f.sure => (f.said = Wild <=> f.prefix /\ f.asked > PERRMSG_MAX)
PerrorSays == \A i \in 1 .. Depth : Says(frames[i])

\* A context is on its way to step s: there, or in a wrapper called just before it.
Towards(f, s) == f.at = s \/ (f.at \in {"clear", "store"} /\ f.then = s)

\* What perror relies on from step to step: the error is put aside until the message is
\* chosen, and the errno that is checked then is its last write's, or still that error.
Prepared(f) ==
    /\ Towards(f, "colon") \/ Towards(f, "check") => f.backup = f.asked /\ f.said = Silent
    /\ Towards(f, "colon") => f.prefix
    /\ f.at \in {"clear", "store"} /\ f.then = "check" => f.prefix
    /\ f.at \in {"clear", "store"} /\ f.then # "run" => f.ret \in {0} \cup WriteCodes
    /\ f.at = "check" /\ f.prefix => f.last \in {0} \cup WriteCodes
    /\ f.at = "check" /\ ~f.prefix /\ f.clean => f.last = f.asked
    /\ f.at = "run" => f.said = Silent /\ ~f.prefix

\* The inductive invariant.
ErrnoInv == TypeOK /\ ErrnoTellsFate /\ \A i \in 1 .. Depth : Says(frames[i]) /\ Prepared(frames[i])
=============================================================================
