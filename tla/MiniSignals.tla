------------------------------ MODULE MiniSignals ------------------------------
(***************************************************************************)
(* A single-threaded program on libmini (src/hw3): sigaction, signal,      *)
(* sigprocmask, alarm, pause, sleep, setjmp and longjmp, with signals that *)
(* arrive between any two steps and handlers that call the library too.    *)
(*                                                                         *)
(* A flag word is the set of its bits.  The program is arbitrary but for   *)
(* two rules of the C library: setjmp is called outside handlers, and      *)
(* longjmp only once setjmp has returned.                                  *)
(***************************************************************************)
EXTENDS Integers, Sequences, SequencesExt

CONSTANTS
    Signals,       \* the signals of interest
    SIGALRM,       \* the one alarm sends
    Acts,          \* the actions the program passes to sigaction
    HandlerHows,   \* how handlers use sigprocmask
    MaxFrames      \* bound on nested handlers

SA_NOMASK == {3}
SA_ONESHOT == {4}
SA_RESTORER == {26}
SA_NODEFER == {30}
SA_RESETHAND == {31}

Hows == {"SIG_BLOCK", "SIG_UNBLOCK", "SIG_SETMASK"}
Handlers == {"SIG_DFL", "SIG_IGN", "function"}
Action == [sa_handler: Handlers, sa_flags: SUBSET (0..31), sa_mask: SUBSET Signals]
Places == {"program", "pause", "woken", "sleep", "slept", "setjmp", "longjmp", "exited", "killed"}
Ends == {"exited", "killed"}
Frame == [sig: Signals, mask: SUBSET Signals, at: Places \ Ends]

ASSUME SignalsAssumption ==
    /\ SIGALRM \in Signals
    /\ Acts \subseteq Action
    /\ HandlerHows \subseteq Hows
    /\ MaxFrames \in Nat

VARIABLES
    mask,      \* signals blocked
    pending,   \* signals sent and not delivered
    action,    \* what the kernel does with each signal
    timer,     \* an alarm is running
    frames,    \* interrupted contexts, the oldest first
    at,        \* where in the library the running context is
    jb         \* the jump buffer, and whether setjmp has returned from filling it

vars == <<mask, pending, action, timer, frames, at, jb>>
kernelVars == <<mask, pending, action, timer>>

Init ==
    /\ mask = {} /\ pending = {} /\ timer = FALSE
    /\ action = [s \in Signals |-> [sa_handler |-> "SIG_DFL", sa_flags |-> {}, sa_mask |-> {}]]
    /\ frames = <<>> /\ at = "program"
    /\ jb = [valid |-> FALSE, mask |-> {}]

InHandler == frames # <<>>
-----------------------------------------------------------------------------
(* The kernel.                                                              *)

rt_sigprocmask(how, set) ==
    mask' = CASE how = "SIG_BLOCK" -> mask \union set
              [] how = "SIG_UNBLOCK" -> mask \ set
              [] how = "SIG_SETMASK" -> set

\* Installing SIG_IGN discards what is pending.
rt_sigaction(s, kact) ==
    /\ action' = [action EXCEPT ![s] = kact]
    /\ pending' = IF kact.sa_handler = "SIG_IGN" THEN pending \ {s} ELSE pending

\* An ignored signal is kept only if it is blocked.
Send(s) ==
    pending' = IF action[s].sa_handler = "SIG_IGN" /\ s \notin mask
               THEN pending ELSE pending \union {s}

Kill == at' = "killed" /\ UNCHANGED <<mask, action, timer, frames, jb>>

\* A handler interrupts pause and sleep for good.
Interrupted(p) == CASE p = "pause" -> "woken" [] p = "sleep" -> "slept" [] OTHER -> p

Caught(s) ==
    /\ Len(frames) < MaxFrames
    /\ frames' = Append(frames, [sig |-> s, mask |-> mask, at |-> Interrupted(at)])
    /\ at' = "program"
    /\ mask' = mask \union action[s].sa_mask
                    \union (IF SA_NODEFER \subseteq action[s].sa_flags THEN {} ELSE {s})
    /\ action' = IF SA_RESETHAND \subseteq action[s].sa_flags
                 THEN [action EXCEPT ![s].sa_handler = "SIG_DFL"] ELSE action
    /\ UNCHANGED <<timer, jb>>

Alive == at \notin Ends

\* Without SA_RESTORER the kernel cannot build the frame and kills the process.
Deliver(s) ==
    /\ Alive /\ s \in pending \ mask
    /\ pending' = pending \ {s}
    /\ \/ action[s].sa_handler = "SIG_DFL" /\ Kill
       \/ action[s].sa_handler = "SIG_IGN" /\ UNCHANGED <<mask, action, timer, frames, at, jb>>
       \/ /\ action[s].sa_handler = "function"
          /\ \/ SA_RESTORER \subseteq action[s].sa_flags /\ Caught(s)
             \/ ~(SA_RESTORER \subseteq action[s].sa_flags) /\ Kill

\* Another process sends a signal.
Sent(s) ==
    /\ Alive /\ Send(s)
    /\ UNCHANGED <<mask, action, timer, frames, at, jb>>

TimerFires ==
    /\ Alive /\ timer
    /\ timer' = FALSE /\ Send(SIGALRM)
    /\ UNCHANGED <<mask, action, frames, at, jb>>
-----------------------------------------------------------------------------
(* The library.                                                             *)

Calls == at = "program"

sigprocmask(how, set) ==
    /\ Calls /\ (InHandler => how \in HandlerHows)
    /\ rt_sigprocmask(how, set)
    /\ UNCHANGED <<pending, action, timer, frames, at, jb>>

\* Mutant: the restorer is not set.
KernelActionBare(act) == act

\* SET_SA_RESTORER
KernelAction(act) == [act EXCEPT !.sa_flags = @ \union SA_RESTORER]

sigaction(s, act) ==
    /\ Calls
    /\ rt_sigaction(s, KernelAction(act))
    /\ UNCHANGED <<mask, timer, frames, at, jb>>

\* Mutant: the flags the kernel knows under these names' modern synonyms.
SignalActModern(handler) ==
    [sa_handler |-> handler, sa_flags |-> SA_RESETHAND \union SA_NODEFER, sa_mask |-> {}]

SignalAct(handler) ==
    [sa_handler |-> handler, sa_flags |-> SA_ONESHOT \union SA_NOMASK, sa_mask |-> {}]

signal(s, handler) == sigaction(s, SignalAct(handler))

alarm(on) ==
    /\ Calls
    /\ timer' = on
    /\ UNCHANGED <<mask, pending, action, frames, at, jb>>

pause ==
    /\ Calls
    /\ at' = "pause"
    /\ UNCHANGED <<kernelVars, frames, jb>>

PauseReturns ==
    /\ at = "woken"
    /\ at' = "program"
    /\ UNCHANGED <<kernelVars, frames, jb>>

sleep ==
    /\ Calls
    /\ at' = "sleep"
    /\ UNCHANGED <<kernelVars, frames, jb>>

\* The time is over, or a handler has run and the rest is returned.
SleepReturns ==
    /\ at \in {"sleep", "slept"}
    /\ at' = "program"
    /\ UNCHANGED <<kernelVars, frames, jb>>

\* setjmp saves the registers first, the mask in a second step.
Setjmp ==
    /\ Calls /\ ~InHandler
    /\ at' = "setjmp" /\ jb' = [jb EXCEPT !.valid = FALSE]
    /\ UNCHANGED <<kernelVars, frames>>

SetjmpMask ==
    /\ at = "setjmp"
    /\ at' = "program" /\ jb' = [valid |-> TRUE, mask |-> mask]
    /\ UNCHANGED <<kernelVars, frames>>

\* Mutant: the saved mask is unblocked.
LongjmpUnblocks ==
    /\ Calls /\ jb.valid
    /\ rt_sigprocmask("SIG_UNBLOCK", jb.mask)
    /\ at' = "longjmp"
    /\ UNCHANGED <<pending, action, timer, frames, jb>>

\* longjmp sets the mask first and jumps in a second step ...
Longjmp ==
    /\ Calls /\ jb.valid
    /\ rt_sigprocmask("SIG_BLOCK", jb.mask)
    /\ at' = "longjmp"
    /\ UNCHANGED <<pending, action, timer, frames, jb>>

\* ... which leaves every handler behind.
LongjmpLands ==
    /\ at = "longjmp"
    /\ at' = "program" /\ frames' = <<>>
    /\ UNCHANGED <<kernelVars, jb>>

\* A handler returns to restore_rt, which asks the kernel for the old context.
restore_rt ==
    /\ Calls /\ InHandler
    /\ mask' = Last(frames).mask /\ at' = Last(frames).at
    /\ frames' = Front(frames)
    /\ UNCHANGED <<pending, action, timer, jb>>

Exit ==
    /\ Calls
    /\ at' = "exited"
    /\ UNCHANGED <<kernelVars, frames, jb>>

Over == ~Alive /\ UNCHANGED vars
-----------------------------------------------------------------------------
Program ==
    \/ \E how \in Hows, set \in SUBSET Signals : sigprocmask(how, set)
    \/ \E s \in Signals, act \in Acts : sigaction(s, act)
    \/ \E s \in Signals, h \in Handlers : signal(s, h)
    \/ \E on \in BOOLEAN : alarm(on)
    \/ pause \/ sleep \/ Setjmp \/ Longjmp \/ restore_rt \/ Exit

Library == PauseReturns \/ SleepReturns \/ SetjmpMask \/ LongjmpLands

Kernel == TimerFires \/ \E s \in Signals : Deliver(s) \/ Sent(s)

Next == Program \/ Library \/ Kernel \/ Over

Spec == Init /\ [][Next]_vars
-----------------------------------------------------------------------------
(* Properties.                                                              *)

(* A longjmp lands with every signal blocked that setjmp found blocked,     *)
(* whatever handlers ran between its sigprocmask and its jump, and whatever *)
(* they did to the mask (libmini.c:250).                                    *)
Lands == at = "longjmp" /\ at' = "program" /\ frames' = <<>>
JumpKeepsBlocked == [][Lands => jb.mask \subseteq mask']_vars

(* What a restored mask would be: a longjmp lands with the mask setjmp      *)
(* found.  The code adds the mask to the current one (libmini.c:250).       *)
JumpRestoresMask == [][Lands => mask' = jb.mask]_vars

(* The handlers on the stack are for different signals, unless the program  *)
(* itself asks for SA_NODEFER or unblocks signals in a handler: signal's    *)
(* SA_NOMASK must not reach the kernel as SA_NODEFER (libmini.c:217).       *)
ProgramDefers ==
    /\ \A act \in Acts : ~(SA_NODEFER \subseteq act.sa_flags)
    /\ HandlerHows \subseteq {"SIG_BLOCK"}
NoReentry ==
    ProgramDefers =>
        \A i, j \in 1..Len(frames) : i # j => frames[i].sig # frames[j].sig

(* The inductive invariant: a context that is in longjmp, running or        *)
(* interrupted, has the saved mask blocked and will get it back; no jump is *)
(* under way when setjmp refills the buffer; the signals of all active      *)
(* handlers stay blocked; every function installed comes with a restorer.   *)
TypeOK ==
    /\ mask \in SUBSET Signals /\ pending \in SUBSET Signals
    /\ action \in [Signals -> Action] /\ timer \in BOOLEAN
    /\ frames \in Seq(Frame) /\ at \in Places
    /\ jb \in [valid: BOOLEAN, mask: SUBSET Signals]
JumpInv ==
    /\ at = "longjmp" => jb.mask \subseteq mask
    /\ \A i \in 1..Len(frames) : frames[i].at = "longjmp" => jb.mask \subseteq frames[i].mask
    /\ at = "setjmp" => frames = <<>>
    /\ \A i \in 1..Len(frames) : frames[i].at = "setjmp" => i = 1
NestInv ==
    /\ \A s \in Signals : ~(SA_NODEFER \subseteq action[s].sa_flags)
    /\ \A i \in 1..Len(frames) : frames[i].sig \in mask
    /\ \A j \in 1..Len(frames) : \A i \in 1..(j - 1) :
           frames[i].sig \in frames[j].mask /\ frames[i].sig # frames[j].sig
RestorerInv ==
    \A s \in Signals : action[s].sa_handler = "function" => SA_RESTORER \subseteq action[s].sa_flags
SignalsInv == TypeOK /\ JumpInv /\ (ProgramDefers => NestInv) /\ RestorerInv

(* Only a signal with the default action kills the process: a caught one    *)
(* always finds a restorer to return through (libmini.c:189-200).           *)
DiesByDefault ==
    [][(at # "killed" /\ at' = "killed") =>
        \E s \in Signals : s \in pending \ mask /\ action[s].sa_handler = "SIG_DFL"]_vars
=============================================================================
