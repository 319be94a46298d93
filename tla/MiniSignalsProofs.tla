--------------------------- MODULE MiniSignalsProofs ---------------------------
(***************************************************************************)
(* The invariant of MiniSignals and what follows from it, for every set of *)
(* signals, every program and every order of signals.                      *)
(***************************************************************************)
EXTENDS MiniSignals, SequenceTheorems, TLAPS

(* The three ways to push, pop and keep frames, as facts about sequences.   *)
LEMMA PushFacts ==
    ASSUME NEW q \in Seq(Frame), NEW f \in Frame
    PROVE  /\ Append(q, f) \in Seq(Frame)
           /\ Len(Append(q, f)) = Len(q) + 1
           /\ \A i \in 1..Len(q) : Append(q, f)[i] = q[i]
           /\ Append(q, f)[Len(q) + 1] = f
  OBVIOUS

LEMMA PopFacts ==
    ASSUME NEW q \in Seq(Frame), q # <<>>
    PROVE  /\ Front(q) \in Seq(Frame)
           /\ Len(Front(q)) = Len(q) - 1
           /\ \A i \in 1..(Len(q) - 1) : Front(q)[i] = q[i]
           /\ Last(q) = q[Len(q)] /\ Last(q) \in Frame
           /\ Len(q) \in Nat \ {0}
  <1>1. Len(q) \in Nat \ {0}
    OBVIOUS
  <1>2. /\ SubSeq(q, 1, Len(q) - 1) \in Seq(Frame)
        /\ Len(SubSeq(q, 1, Len(q) - 1)) = Len(q) - 1
        /\ \A i \in 1..(Len(q) - 1) : SubSeq(q, 1, Len(q) - 1)[i] = q[i]
    <2> DEFINE m == Len(q) - 1
    <2>1. m \in Nat /\ \A i \in 1..m : q[i] \in Frame
      BY <1>1
    <2> HIDE DEF m
    <2>2. /\ SubSeq(q, 1, m) \in Seq(Frame)
          /\ Len(SubSeq(q, 1, m)) = IF 1 <= m THEN m - 1 + 1 ELSE 0
          /\ \A i \in 1..(m - 1 + 1) : SubSeq(q, 1, m)[i] = q[1 + i - 1]
      BY <2>1, SubSeqProperties
    <2>3. Len(SubSeq(q, 1, m)) = m /\ \A i \in 1..m : SubSeq(q, 1, m)[i] = q[i]
      <3> DEFINE r == SubSeq(q, 1, m)
      <3>1. /\ Len(r) = IF 1 <= m THEN m - 1 + 1 ELSE 0
            /\ \A i \in 1..(m - 1 + 1) : r[i] = q[1 + i - 1]
        BY <2>2
      <3> HIDE DEF r
      <3>2. Len(r) = m /\ \A i \in 1..m : r[i] = q[i]
        BY <2>1, <3>1
      <3>3. QED
        BY <3>2 DEF r
    <2>4. QED
      BY <2>2, <2>3 DEF m
  <1>3. q[Len(q)] \in Frame
    BY <1>1
  <1>4. QED
    BY <1>1, <1>2, <1>3 DEF Front, Last

(* Steps that leave the frames and the buffer alone.  What each part of the *)
(* invariant needs of them.                                                 *)
LEMMA KeepJump ==
    ASSUME TypeOK, JumpInv, UNCHANGED <<frames, jb>>,
           at' = "longjmp" => jb.mask \subseteq mask',
           at' = "setjmp" => frames = <<>>
    PROVE  JumpInv'
  BY DEF JumpInv

LEMMA KeepNest ==
    ASSUME NestInv, UNCHANGED frames, mask \subseteq mask' \/ frames = <<>>,
           \A s \in Signals : ~(SA_NODEFER \subseteq action'[s].sa_flags), TypeOK
    PROVE  NestInv'
  BY DEF NestInv, TypeOK

LEMMA InitHolds == Init => SignalsInv
  <1> SUFFICES ASSUME Init PROVE SignalsInv
    OBVIOUS
  <1> DEFINE none == [sa_handler |-> "SIG_DFL", sa_flags |-> {}, sa_mask |-> {}]
  <1>0. none \in Action
    BY DEF Action, Handlers
  <1>1. TypeOK
    <2>1. action \in [Signals -> Action]
      BY <1>0 DEF Init
    <2>2. frames \in Seq(Frame)
      BY DEF Init
    <2>3. QED
      BY <2>1, <2>2 DEF Init, TypeOK, Places
  <1>2. JumpInv
    BY DEF Init, JumpInv
  <1>3. NestInv
    BY DEF Init, NestInv, SA_NODEFER
  <1>4. RestorerInv
    BY DEF Init, RestorerInv
  <1>5. QED
    BY <1>1, <1>2, <1>3, <1>4 DEF SignalsInv

(* sigprocmask: in a handler it can only add to the mask if the program     *)
(* defers; it is not called in the middle of a jump.                        *)
LEMMA SigprocmaskKeeps ==
    ASSUME SignalsInv, NEW how \in Hows, NEW set \in SUBSET Signals, sigprocmask(how, set)
    PROVE  SignalsInv'
  <1> USE DEF SignalsInv, sigprocmask, rt_sigprocmask, Calls
  <1>1. TypeOK'
    BY DEF TypeOK, Hows
  <1>2. JumpInv'
    BY KeepJump
  <1>3. ProgramDefers => NestInv'
    <2> SUFFICES ASSUME ProgramDefers PROVE NestInv'
      OBVIOUS
    <2>1. mask \subseteq mask' \/ frames = <<>>
      BY DEF InHandler, ProgramDefers
    <2>2. QED
      BY <2>1, KeepNest DEF NestInv
  <1>4. RestorerInv'
    BY DEF RestorerInv
  <1>5. QED
    BY <1>1, <1>2, <1>3, <1>4 DEF ProgramDefers

(* sigaction, for every action whose flags the program may pass: the        *)
(* restorer bit is added and no other.                                      *)
LEMMA SigactionKeeps ==
    ASSUME SignalsInv, NEW s \in Signals, NEW act \in Action, sigaction(s, act),
           ProgramDefers => ~(SA_NODEFER \subseteq act.sa_flags)
    PROVE  SignalsInv'
  <1> USE DEF SignalsInv, sigaction, rt_sigaction, Calls
  <1>1. KernelAction(act) \in Action /\ SA_RESTORER \subseteq KernelAction(act).sa_flags
    BY DEF KernelAction, Action, SA_RESTORER
  <1>2. ProgramDefers => ~(SA_NODEFER \subseteq KernelAction(act).sa_flags)
    BY DEF KernelAction, Action, SA_RESTORER, SA_NODEFER
  <1>3. \A t \in Signals : action'[t] = IF t = s THEN KernelAction(act) ELSE action[t]
    BY DEF TypeOK
  <1>4. TypeOK'
    BY <1>1 DEF TypeOK
  <1>5. JumpInv'
    BY KeepJump
  <1>6. ProgramDefers => NestInv'
    BY <1>2, <1>3, KeepNest DEF NestInv
  <1>7. RestorerInv'
    BY <1>1, <1>3 DEF RestorerInv
  <1>8. QED
    BY <1>4, <1>5, <1>6, <1>7 DEF ProgramDefers

(* setjmp: the buffer is rewritten only when no context is in longjmp.      *)
LEMMA SetjmpKeeps ==
    ASSUME SignalsInv, Setjmp \/ SetjmpMask
    PROVE  SignalsInv'
  <1> USE DEF SignalsInv, Setjmp, SetjmpMask, Calls, kernelVars
  <1>1. frames = <<>> /\ at # "longjmp" /\ at' # "longjmp"
    BY DEF JumpInv, InHandler
  <1>2. TypeOK'
    <2>1. jb' \in [valid: BOOLEAN, mask: SUBSET Signals]
      <3>1. CASE jb' = [jb EXCEPT !.valid = FALSE]
        BY <3>1 DEF TypeOK
      <3>2. CASE jb' = [valid |-> TRUE, mask |-> mask]
        BY <3>2 DEF TypeOK
      <3>3. QED
        BY <3>1, <3>2
    <2>2. QED
      BY <2>1 DEF TypeOK, Places
  <1>3. JumpInv'
    BY <1>1 DEF JumpInv
  <1>4. QED
    BY <1>2, <1>3 DEF NestInv, RestorerInv, ProgramDefers

(* longjmp: the saved mask is blocked before the jump, and the jump leaves  *)
(* no frame.                                                                *)
LEMMA LongjmpKeeps ==
    ASSUME SignalsInv, Longjmp \/ LongjmpLands
    PROVE  SignalsInv'
  <1>1. CASE Longjmp
    <2> USE <1>1 DEF SignalsInv, Longjmp, rt_sigprocmask, Calls
    <2>1. mask' = mask \union jb.mask /\ at' = "longjmp"
      OBVIOUS
    <2>2. TypeOK'
      BY <2>1 DEF TypeOK, Places
    <2>3. JumpInv'
      BY <2>1, KeepJump
    <2>4. ProgramDefers => NestInv'
      BY <2>1, KeepNest DEF NestInv
    <2>5. QED
      BY <2>2, <2>3, <2>4 DEF RestorerInv, ProgramDefers
  <1>2. CASE LongjmpLands
    <2> USE <1>2 DEF SignalsInv, LongjmpLands, kernelVars
    <2>1. TypeOK'
      BY DEF TypeOK, Places
    <2>2. JumpInv'
      BY DEF JumpInv
    <2>3. ProgramDefers => NestInv'
      BY DEF NestInv
    <2>4. QED
      BY <2>1, <2>2, <2>3 DEF RestorerInv, ProgramDefers
  <1>3. QED
    BY <1>1, <1>2

(* A handler that returns gives back the mask under which it was called.    *)
LEMMA ReturnKeeps ==
    ASSUME SignalsInv, restore_rt
    PROVE  SignalsInv'
  <1> USE DEF SignalsInv, restore_rt, Calls, InHandler
  <1> DEFINE n == Len(frames)
  <1>1. /\ n \in Nat \ {0} /\ Len(frames') = n - 1 /\ frames' \in Seq(Frame)
        /\ \A i \in 1..(n - 1) : frames'[i] = frames[i]
        /\ mask' = frames[n].mask /\ at' = frames[n].at /\ frames[n] \in Frame
    BY PopFacts DEF TypeOK
  <1>2. TypeOK'
    BY <1>1 DEF TypeOK, Frame
  <1>3. JumpInv'
    <2>0. n \in 1..n /\ n \in 1..Len(frames)
      BY <1>1
    <2>1. at' = "longjmp" => jb.mask \subseteq mask'
      BY <1>1, <2>0 DEF JumpInv
    <2>2. at' = "setjmp" => frames' = <<>>
      <3>1. at' = "setjmp" => n = 1
        BY <1>1, <2>0 DEF JumpInv
      <3>2. n = 1 => frames' = <<>>
        BY <1>1
      <3>3. QED
        BY <3>1, <3>2
    <2>3. QED
      BY <1>1, <2>1, <2>2 DEF JumpInv
  <1>4. ProgramDefers => NestInv'
    BY <1>1 DEF NestInv
  <1>5. QED
    BY <1>2, <1>3, <1>4 DEF RestorerInv, ProgramDefers

(* Steps that only move the running context between the program and a       *)
(* blocking call, or out of the program.                                    *)
LEMMA MoveKeeps ==
    ASSUME SignalsInv, UNCHANGED <<mask, action, frames, jb>>,
           pending' \in SUBSET Signals, timer' \in BOOLEAN, at' \in Places,
           at' \in {"longjmp", "setjmp"} => at' = at
    PROVE  SignalsInv'
  <1> USE DEF SignalsInv
  <1>1. TypeOK'
    BY DEF TypeOK
  <1>2. JumpInv'
    BY DEF JumpInv
  <1>3. QED
    BY <1>1, <1>2 DEF NestInv, RestorerInv, ProgramDefers

(* A handler is entered: its signal is blocked for it, and the context it   *)
(* interrupts keeps the mask it had.                                        *)
LEMMA CaughtKeeps ==
    ASSUME SignalsInv, NEW s \in Signals, s \notin mask, Caught(s),
           pending' \in SUBSET Signals, at \in Places \ Ends
    PROVE  SignalsInv'
  <1> USE DEF SignalsInv, Caught
  <1> DEFINE n == Len(frames)
             f == [sig |-> s, mask |-> mask, at |-> Interrupted(at)]
  <1>1. f \in Frame /\ f.sig = s /\ f.mask = mask /\ f.at = Interrupted(at)
    BY DEF TypeOK, Frame, Interrupted, Places, Ends
  <1> HIDE DEF f
  <1>2. /\ n \in Nat /\ Len(frames') = n + 1 /\ frames' \in Seq(Frame)
        /\ \A i \in 1..n : frames'[i] = frames[i]
        /\ frames'[n + 1] = f
    BY <1>1, PushFacts DEF TypeOK, f
  <1>3. \A t \in Signals : /\ action'[t].sa_flags = action[t].sa_flags
                           /\ action'[t].sa_handler = "function" => action[t].sa_handler = "function"
    BY DEF TypeOK, Action
  <1>4. action' \in [Signals -> Action]
    <2>1. [action[s] EXCEPT !.sa_handler = "SIG_DFL"] \in Action
      BY DEF TypeOK, Action, Handlers
    <2>2. action' = action \/ action' = [action EXCEPT ![s] = [action[s] EXCEPT !.sa_handler = "SIG_DFL"]]
      OBVIOUS
    <2>3. QED
      BY <2>1, <2>2 DEF TypeOK
  <1>5. mask' \in SUBSET Signals /\ mask \subseteq mask'
    BY DEF TypeOK, Action
  <1>6. TypeOK'
    BY <1>2, <1>4, <1>5 DEF TypeOK, Places
  <1>7. JumpInv'
    <2>1. Interrupted(at) \in {"longjmp", "setjmp"} => Interrupted(at) = at
      BY DEF Interrupted
    <2>2. \A i \in 1..Len(frames') : frames'[i].at = "longjmp" => jb'.mask \subseteq frames'[i].mask
      BY <1>1, <1>2, <2>1 DEF JumpInv
    <2>3. \A i \in 1..Len(frames') : frames'[i].at = "setjmp" => i = 1
      BY <1>1, <1>2, <2>1 DEF JumpInv, TypeOK
    <2>4. QED
      BY <2>2, <2>3 DEF JumpInv
  <1>8. ProgramDefers => NestInv'
    <2> SUFFICES ASSUME ProgramDefers PROVE NestInv'
      OBVIOUS
    <2>1. s \in mask'
      BY DEF NestInv
    <2>2. \A i \in 1..Len(frames') : frames'[i].sig \in mask'
      BY <1>1, <1>2, <1>5, <2>1 DEF NestInv
    <2>3. \A j \in 1..Len(frames') : \A i \in 1..(j - 1) :
             frames'[i].sig \in frames'[j].mask /\ frames'[i].sig # frames'[j].sig
      BY <1>1, <1>2 DEF NestInv
    <2>4. QED
      BY <1>3, <2>2, <2>3 DEF NestInv
  <1>9. RestorerInv'
    BY <1>3 DEF RestorerInv
  <1>10. QED
    BY <1>6, <1>7, <1>8, <1>9 DEF ProgramDefers

LEMMA DeliverKeeps ==
    ASSUME SignalsInv, NEW s \in Signals, Deliver(s)
    PROVE  SignalsInv'
  <1>1. pending' \in SUBSET Signals /\ s \notin mask /\ at \in Places \ Ends /\ timer \in BOOLEAN
    BY DEF Deliver, Alive, SignalsInv, TypeOK
  <1>2. CASE Caught(s)
    BY <1>1, <1>2, CaughtKeeps
  <1>3. CASE Kill
    BY <1>1, <1>3, MoveKeeps DEF Kill, Places
  <1>4. CASE UNCHANGED <<mask, action, timer, frames, at, jb>>
    BY <1>1, <1>4, MoveKeeps
  <1>5. QED
    BY <1>2, <1>3, <1>4 DEF Deliver

(* Every step keeps the invariant.                                          *)
LEMMA StepKeeps == SignalsInv /\ [Next]_vars => SignalsInv'
  <1> SUFFICES ASSUME SignalsInv, [Next]_vars PROVE SignalsInv'
    OBVIOUS
  <1>t. pending \in SUBSET Signals /\ timer \in BOOLEAN /\ at \in Places
    BY DEF SignalsInv, TypeOK
  <1>1. ASSUME NEW how \in Hows, NEW set \in SUBSET Signals, sigprocmask(how, set)
        PROVE  SignalsInv'
    BY <1>1, SigprocmaskKeeps
  <1>2. ASSUME NEW s \in Signals, NEW act \in Acts, sigaction(s, act)
        PROVE  SignalsInv'
    BY <1>2, SigactionKeeps, SignalsAssumption DEF ProgramDefers
  <1>3. ASSUME NEW s \in Signals, NEW h \in Handlers, signal(s, h)
        PROVE  SignalsInv'
    <2>1. SignalAct(h) \in Action /\ ~(SA_NODEFER \subseteq SignalAct(h).sa_flags)
      BY DEF SignalAct, Action, SA_ONESHOT, SA_NOMASK, SA_NODEFER
    <2>2. QED
      BY <1>3, <2>1, SigactionKeeps DEF signal
  <1>4. ASSUME NEW on \in BOOLEAN, alarm(on)
        PROVE  SignalsInv'
    BY <1>4, <1>t, MoveKeeps DEF alarm
  <1>5. CASE pause \/ sleep \/ Exit \/ PauseReturns \/ SleepReturns
    BY <1>5, <1>t, MoveKeeps DEF pause, sleep, Exit, PauseReturns, SleepReturns, Places, kernelVars
  <1>6. CASE Setjmp \/ SetjmpMask
    BY <1>6, SetjmpKeeps
  <1>7. CASE Longjmp \/ LongjmpLands
    BY <1>7, LongjmpKeeps
  <1>8. CASE restore_rt
    BY <1>8, ReturnKeeps
  <1>9. CASE TimerFires
    BY <1>9, <1>t, MoveKeeps, SignalsAssumption DEF TimerFires, Send
  <1>10. ASSUME NEW s \in Signals, Deliver(s) \/ Sent(s)
         PROVE  SignalsInv'
    <2>1. CASE Sent(s)
      BY <2>1, <1>t, MoveKeeps DEF Sent, Send
    <2>2. QED
      BY <1>10, <2>1, DeliverKeeps
  <1>11. CASE UNCHANGED vars
    BY <1>11, <1>t, MoveKeeps DEF vars
  <1>12. QED
    BY <1>1, <1>2, <1>3, <1>4, <1>5, <1>6, <1>7, <1>8, <1>9, <1>10, <1>11
    DEF Next, Program, Library, Kernel, Over

(* Masks, frames, buffer and installed actions fit together in every        *)
(* reachable state, whatever the program and the order of signals           *)
(* (libmini.c:189-288).                                                     *)
THEOREM SignalsInvariant == Spec => []SignalsInv
  BY InitHolds, StepKeeps, PTL DEF Spec

(* No handler installed through signal, or through sigaction without        *)
(* SA_NODEFER, is entered again before it is left (libmini.c:213-224).      *)
THEOREM HandlersNeverReentered == Spec => []NoReentry
  <1>1. SignalsInv => NoReentry
    <2> SUFFICES ASSUME SignalsInv, ProgramDefers,
                        NEW i \in 1..Len(frames), NEW j \in 1..Len(frames), i # j
                 PROVE  frames[i].sig # frames[j].sig
      BY DEF NoReentry
    <2>1. Len(frames) \in Nat
      BY DEF SignalsInv, TypeOK
    <2>2. i \in 1..(j - 1) \/ j \in 1..(i - 1)
      BY <2>1
    <2>3. QED
      BY <2>2 DEF SignalsInv, NestInv
  <1>2. QED
    BY <1>1, SignalsInvariant, PTL

(* longjmp lands with at least the mask that setjmp saved, in spite of      *)
(* handlers that run in the middle of it (libmini.c:245-269).               *)
THEOREM JumpNeverUnblocks == Spec => JumpKeepsBlocked
  <1>1. SignalsInv /\ [Next]_vars => [Lands => jb.mask \subseteq mask']_vars
    <2> SUFFICES ASSUME SignalsInv, Next, Lands PROVE jb.mask \subseteq mask'
      BY DEF vars
    <2>1. at = "longjmp" /\ at' = "program" /\ frames' = <<>> /\ jb.mask \subseteq mask
      BY DEF Lands, SignalsInv, JumpInv
    <2>2. ASSUME NEW s \in Signals, Deliver(s) PROVE FALSE
      <3>1. ~Caught(s)
        <4> SUFFICES ASSUME Caught(s) PROVE FALSE
          OBVIOUS
        <4>1. PICK f : frames' = Append(frames, f)
          BY DEF Caught
        <4>2. Append(frames, f) # <<>>
          BY DEF SignalsInv, TypeOK
        <4>3. QED
          BY <2>1, <4>1, <4>2
      <3>2. QED
        BY <2>1, <2>2, <3>1 DEF Deliver, Kill
    <2>3. LongjmpLands
      BY <2>1, <2>2 DEF Next, Program, Library, Kernel, Over, sigprocmask, sigaction, signal, alarm,
         pause, sleep, Setjmp, Longjmp, restore_rt, Exit, PauseReturns, SleepReturns, SetjmpMask,
         TimerFires, Sent, Calls, vars
    <2>4. QED
      BY <2>1, <2>3 DEF LongjmpLands, kernelVars
  <1>2. QED
    BY <1>1, SignalsInvariant, PTL DEF Spec, JumpKeepsBlocked

(* A process on libmini is killed by a signal only if that signal has the   *)
(* default action: catching one never kills it (libmini.c:189-211).         *)
THEOREM CaughtNeverKills == Spec => DiesByDefault
  <1> DEFINE Dies == at # "killed" /\ at' = "killed"
             ByDefault == \E s \in Signals : s \in pending \ mask /\ action[s].sa_handler = "SIG_DFL"
  <1>1. SignalsInv /\ [Next]_vars => [Dies => ByDefault]_vars
    <2> SUFFICES ASSUME SignalsInv, Next, at # "killed", at' = "killed" PROVE ByDefault
      BY DEF vars
    <2>1. ~restore_rt
      BY PopFacts DEF restore_rt, InHandler, SignalsInv, TypeOK, Frame, Ends
    <2>2. PICK s \in Signals : Deliver(s)
      BY <2>1 DEF Next, Program, Library, Kernel, Over, sigprocmask, sigaction, signal, alarm,
         pause, sleep, Setjmp, Longjmp, Exit, PauseReturns, SleepReturns, SetjmpMask,
         LongjmpLands, TimerFires, Sent, Alive, Ends, Calls, vars
    <2>3. action[s].sa_handler = "SIG_DFL"
      BY <2>2 DEF Deliver, Caught, SignalsInv, RestorerInv
    <2>4. QED
      BY <2>2, <2>3 DEF Deliver
  <1>2. QED
    BY <1>1, SignalsInvariant, PTL DEF Spec, DiesByDefault
=============================================================================
