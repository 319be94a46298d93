---------------------------- MODULE IdealProofs -----------------------------
(***************************************************************************)
(* The debugger of a careful user implements module IdealDebugger: every   *)
(* step is a step of the ideal debugger or leaves its three variables      *)
(* alone, for every program, every table size and every user.              *)
(***************************************************************************)
EXTENDS CarefulSdbProofs

IdealStep == Ideal!IdealNext \/ UNCHANGED <<UsedAddrs, idealMode, idealAt>>

-----------------------------------------------------------------------------
(* The ideal debugger's variables.                                          *)

(* A point is the address of a slot in use.                                 *)
LEMMA PointsOf ==
  /\ \A p : p \in UsedAddrs <=> \E i \in Slots : Used(i) /\ breaks[i].addr = p
  /\ \A p : p \in UsedAddrs' <=> \E i \in Slots : Used(i)' /\ breaks'[i].addr = p
BY DEF UsedAddrs

(* The points stay as long as no slot is taken, freed or moved.             *)
LEMMA PointsKept ==
  ASSUME \A i \in Slots : (Used(i)' <=> Used(i)) /\ breaks'[i].addr = breaks[i].addr
  PROVE  UsedAddrs' = UsedAddrs
<1>1. \A p : p \in UsedAddrs' <=> p \in UsedAddrs
  BY PointsOf
<1> QED BY <1>1

(* The same slots, the same points.                                         *)
LEMMA SamePoints ==
  ASSUME breaks' = breaks
  PROVE  UsedAddrs' = UsedAddrs
BY PointsKept DEF Used

(* What the mapping makes of a tracee that is gone, stopped and running.    *)
LEMMA ModeFacts ==
  /\ ~Live => idealMode = "off" /\ idealAt = Entry
  /\ ~Live' => idealMode' = "off" /\ idealAt' = Entry
  /\ proc = "stopped" /\ ~event => idealMode = "held" /\ idealAt = rip - base
  /\ proc' = "stopped" /\ ~event' => idealMode' = "held" /\ idealAt' = rip' - base'
  /\ proc = "running" /\ ~event => idealMode = "going" /\ idealAt = rip - base
  /\ proc' = "running" /\ ~event' => idealMode' = "going" /\ idealAt' = rip' - base'
  /\ Live /\ event => idealMode = "going" /\ idealAt = rip - base - 1
  /\ Live' /\ event' => idealMode' = "going" /\ idealAt' = rip' - base' - 1
BY DEF idealMode, idealAt, Live

(* At the prompt and in the loops before PTRACE_CONT nothing is going.      *)
LEMMA NotGoing ==
  ASSUME CarefulInv, pc # "wait"
  PROVE  /\ ~event /\ proc # "running" /\ idealMode # "going"
         /\ Live => proc = "stopped"
<1>1. ~event /\ proc # "running"
  BY DEF CarefulInv, SessionInv
<1> QED BY <1>1 DEF idealMode, Live

-----------------------------------------------------------------------------
(* Kinds of steps.                                                          *)

(* A step that leaves the tracee where it is and the points as they are.    *)
LEMMA Stutters ==
  ASSUME UNCHANGED <<proc, base, rip, event>>, UsedAddrs' = UsedAddrs
  PROVE  IdealStep
<1>1. Live' <=> Live
  BY DEF Live
<1>2. idealMode' = idealMode /\ idealAt' = idealAt
  BY <1>1 DEF idealMode, idealAt
<1> QED BY <1>2 DEF IdealStep

(* A step after which there is no tracee.                                   *)
LEMMA EndsOrStutters ==
  ASSUME ~Live', UsedAddrs' = UsedAddrs
  PROVE  IdealStep
<1>1. idealMode' = "off" /\ idealAt' = Entry
  BY ModeFacts
<1>2. CASE Live
  <2>1. idealMode # "off"
    BY <1>2 DEF idealMode
  <2>2. Ideal!Over
    BY <1>1, <2>1 DEF Ideal!Over, Ideal!TurnOff
  <2> QED BY <2>2 DEF IdealStep, Ideal!IdealNext
<1>3. CASE ~Live
  <2>1. idealMode = "off" /\ idealAt = Entry
    BY <1>3, ModeFacts
  <2> QED BY <1>1, <2>1 DEF IdealStep
<1> QED BY <1>2, <1>3

(* The debugger ends.                                                       *)
LEMMA QuitEnds ==
  ASSUME NEW how, Quit(how)
  PROVE  IdealStep
<1>1. ~Live' /\ breaks' = breaks
  BY DEF Quit, Forget, Live
<1> QED BY <1>1, SamePoints, EndsOrStutters

(* A single step of a stopped tracee: one instruction of the program, or    *)
(* its last.                                                                *)
LEMMA SingleSteps ==
  ASSUME TypeOK, CarefulInv, proc = "stopped", pc # "wait", NEW x \in StepOutcomes, SingleStep(x),
         UNCHANGED <<base, event>>, UsedAddrs' = UsedAddrs
  PROVE  IdealStep
<1>1. rip' = x.rip /\ proc' = IF x.kind = "exit" THEN "reaped" ELSE "stopped"
  BY DEF SingleStep
<1>2. mem[rip - base] # INT3 /\ ~event /\ Live
  BY NotOnTrap DEF Live
<1>3. CASE x.kind = "exit"
  <2>1. ~Live'
    BY <1>1, <1>3 DEF Live
  <2> QED BY <2>1, EndsOrStutters
<1>4. CASE x.kind # "exit"
  <2>1. x.rip - base \in Succ[rip - base]
    BY <1>2, <1>4, NextInsn
  <2>2. /\ idealMode = "held" /\ idealAt = rip - base
        /\ idealMode' = "held" /\ idealAt' = x.rip - base
    BY <1>1, <1>2, <1>4, ModeFacts
  <2>3. Ideal!StepHeld
    BY <2>1, <2>2 DEF Ideal!StepHeld
  <2> QED BY <2>3 DEF IdealStep, Ideal!IdealNext
<1> QED BY <1>3, <1>4

-----------------------------------------------------------------------------
(* The user's commands.                                                     *)

(* load: a program that loads takes tracee and points away.                 *)
LEMMA LoadRefines ==
  ASSUME TypeOK, CarefulInv, CarefulLoad
  PROVE  IdealStep
<1> USE DEF traceeVars, fileVars, viewVars, Prompt
<1>1. CASE LoadProgram
  <2>1. ~Live' /\ pc = "prompt"
    BY <1>1 DEF LoadProgram, Forget, Live
  <2>2. \A i \in Slots : ~Used(i)'
    <3>1. breaks \in [Slots -> Breakpoint]
      BY DEF TypeOK
    <3>2. \A i \in Slots : breaks'[i].is_used = 0
      BY <1>1, <3>1 DEF LoadProgram, Breakpoint
    <3> QED BY <3>2 DEF Used
  <2>3. UsedAddrs' = {}
    BY <2>2, PointsOf
  <2>4. idealMode # "going" /\ idealMode' = "off" /\ idealAt' = Entry
    BY <2>1, NotGoing, ModeFacts
  <2>5. Ideal!Load
    BY <2>3, <2>4 DEF Ideal!Load, Ideal!TurnOff
  <2> QED BY <2>5 DEF IdealStep, Ideal!IdealNext
<1>2. CASE ~LoadProgram
  <2>1. UNCHANGED <<proc, base, rip, event, breaks>>
    BY <1>2 DEF CarefulLoad, LoadUnopened, LoadUnloaded, LoadUnnamed
  <2> QED BY <2>1, SamePoints, Stutters
<1> QED BY <1>1, <1>2

(* A new process is held at its first instruction.                          *)
LEMMA LaunchRefines ==
  ASSUME CarefulInv, pc = "prompt", ForkFails \/ Launch, breaks' = breaks
  PROVE  IdealStep
<1>1. UsedAddrs' = UsedAddrs
  BY SamePoints
<1>2. CASE ~Live'
  BY <1>1, <1>2, EndsOrStutters
<1>3. CASE Live'
  <2>1. PICK b \in Bases : Exec(b)
    BY <1>3 DEF ForkFails, Forget, Launch, ExecFails, Live
  <2>2. proc' = "stopped" /\ base' = b /\ rip' = b + Entry /\ event' = FALSE
    BY <2>1 DEF Exec
  <2>3. rip' - base' = Entry
    <3>1. b \in Nat /\ Entry \in Nat
      BY <2>1, LayoutAssumption, InsnFacts
    <3> QED BY <2>2, <3>1
  <2>4. idealMode # "going" /\ idealMode' = "held" /\ idealAt' = Entry
    BY <2>2, <2>3, NotGoing, ModeFacts
  <2>5. Ideal!Launch
    BY <1>1, <2>4 DEF Ideal!Launch
  <2> QED BY <2>5 DEF IdealStep, Ideal!IdealNext
<1> QED BY <1>2, <1>3

(* start, run and cont; si and set rip.                                     *)
LEMMA SteerRefines ==
  ASSUME TypeOK, CarefulInv,
         \/ Start \/ Run \/ Cont
         \/ \E x \in StepOutcomes : CarefulStep(x)
         \/ \E a \in RipArgs : CarefulSetRip(a)
  PROVE  IdealStep
<1> USE DEF traceeVars, fileVars, viewVars, Prompt
<1>1. CASE Start
  BY <1>1, LaunchRefines DEF Start
<1>2. CASE Run
  <2>1. CASE ForkFails \/ Launch
    BY <1>2, <2>1, LaunchRefines DEF Run
  <2>2. CASE UNCHANGED <<traceeVars, pid>>
    BY <1>2, <2>2, SamePoints, Stutters DEF Run
  <2> QED BY <1>2, <2>1, <2>2 DEF Run
<1>3. CASE Cont
  BY <1>3, SamePoints, Stutters DEF Cont
<1>4. ASSUME NEW x \in StepOutcomes, CarefulStep(x) PROVE IdealStep
  <2>1. /\ pc = "prompt" /\ proc = "stopped" /\ SingleStep(x)
        /\ UNCHANGED <<base, event, breaks>>
    BY <1>4 DEF CarefulStep, Step
  <2> QED BY <2>1, SamePoints, SingleSteps
<1>5. ASSUME NEW a \in RipArgs, CarefulSetRip(a) PROVE IdealStep
  <2>1. /\ pc = "prompt" /\ proc = "stopped" /\ rip' = a /\ a - base \in Insn \ UsedAddrs
        /\ UNCHANGED <<proc, base, event, breaks>>
    BY <1>5 DEF CarefulSetRip, SetRip
  <2>2. ~event /\ UsedAddrs' = UsedAddrs
    BY <2>1, NotGoing, SamePoints
  <2>3. idealMode = "held" /\ idealMode' = "held" /\ idealAt' = a - base
    BY <2>1, <2>2, ModeFacts
  <2>4. Ideal!SetPc
    BY <2>1, <2>2, <2>3 DEF Ideal!SetPc
  <2> QED BY <2>4 DEF IdealStep, Ideal!IdealNext
<1> QED BY <1>1, <1>2, <1>3, <1>4, <1>5

(* break adds the point the user names.                                     *)
LEMMA BreakRefines ==
  ASSUME TypeOK, CarefulInv, NEW a \in BreakArgs, CarefulBreak(a)
  PROVE  IdealStep
<1>1. PICK n \in Slots : FirstFree(n) /\ SetSlot(n, a)
  BY DEF CarefulBreak, Break
<1>2. /\ pc = "prompt" /\ a \notin UsedAddrs /\ ~Used(n)
      /\ UNCHANGED <<proc, base, rip, event>>
  BY <1>1 DEF CarefulBreak, Break, FirstFree, Prompt, traceeVars
<1>3. /\ breaks'[n].is_used = 1 /\ breaks'[n].addr = a
      /\ \A i \in Slots : i # n => breaks'[i] = breaks[i]
  <2>1. breaks \in [Slots -> Breakpoint]
    BY DEF TypeOK
  <2> QED BY <1>1, <2>1 DEF SetSlot, Breakpoint
<1>4. Used(n)' /\ \A i \in Slots : i # n => (Used(i)' <=> Used(i))
  BY <1>3 DEF Used
<1>5. UsedAddrs' = UsedAddrs \cup {a}
  <2>1. \A p : p \in UsedAddrs' <=> p \in UsedAddrs \/ p = a
    BY <1>2, <1>3, <1>4, PointsOf
  <2> QED BY <2>1
<1>6. Live' <=> Live
  BY <1>2 DEF Live
<1>7. idealMode # "going" /\ idealMode' = idealMode /\ idealAt' = idealAt
  BY <1>2, <1>6, NotGoing DEF idealMode, idealAt
<1>8. a \in Insn
  BY PointFacts
<1>9. Ideal!AddPoint
  BY <1>2, <1>5, <1>7, <1>8 DEF Ideal!AddPoint
<1> QED BY <1>9 DEF IdealStep, Ideal!IdealNext

(* delete takes one point away: no other slot has its address.              *)
LEMMA DeleteRefines ==
  ASSUME TypeOK, CarefulInv, NEW n \in Slots, CarefulDelete(n)
  PROVE  IdealStep
<1> DEFINE a == breaks[n].addr
<1>1. /\ pc = "prompt" /\ Used(n)
      /\ UNCHANGED <<proc, base, rip, event>>
      /\ breaks' = [breaks EXCEPT ![n].is_used = 0]
  BY DEF CarefulDelete, Delete, Prompt
<1>2. breaks'[n].is_used = 0 /\ \A i \in Slots : i # n => breaks'[i] = breaks[i]
  <2>1. breaks \in [Slots -> Breakpoint]
    BY DEF TypeOK
  <2> QED BY <1>1, <2>1 DEF Breakpoint
<1>3. ~Used(n)' /\ \A i \in Slots : i # n => (Used(i)' <=> Used(i))
  BY <1>2 DEF Used
<1>4. \A i \in Slots : Used(i) /\ breaks[i].addr = a => i = n
  BY <1>1 DEF CarefulInv, TableInv
<1>5. UsedAddrs' = UsedAddrs \ {a} /\ a \in UsedAddrs
  <2>1. \A p : p \in UsedAddrs' <=> p \in UsedAddrs /\ p # a
    BY <1>1, <1>2, <1>3, <1>4, PointsOf
  <2> QED BY <1>1, <2>1, PointsOf
<1>6. Live' <=> Live
  BY <1>1 DEF Live
<1>7. idealMode # "going" /\ idealMode' = idealMode /\ idealAt' = idealAt
  BY <1>1, <1>6, NotGoing DEF idealMode, idealAt
<1>8. Ideal!RemovePoint
  BY <1>5, <1>7 DEF Ideal!RemovePoint
<1> QED BY <1>8 DEF IdealStep, Ideal!IdealNext

(* disasm up to its loops, vmmap, exit and the commands that only print.    *)
LEMMA LookRefines ==
  ASSUME UserLooks
  PROVE  IdealStep
<1> USE DEF traceeVars, fileVars, viewVars, Prompt
<1>1. ASSUME NEW x, Disasm(x) PROVE IdealStep
  <2>1. CASE DisasmFile(x) \/ DisasmLive(x)
    BY <2>1, SamePoints, Stutters DEF DisasmFile, DisasmLive
  <2>2. CASE DisasmCrash(x)
    BY <2>2, QuitEnds DEF DisasmCrash
  <2> QED BY <1>1, <2>1, <2>2 DEF Disasm
<1>2. CASE VmmapCrash \/ Exit
  BY <1>2, QuitEnds DEF VmmapCrash, Exit
<1>3. ASSUME NEW c \in Commands, Prints(c) PROVE IdealStep
  BY <1>3, SamePoints, Stutters DEF Prints
<1> QED BY <1>1, <1>2, <1>3, OnlyPrints DEF UserLooks, DisasmNext

-----------------------------------------------------------------------------
(* The debugger's loops and the tracee.                                     *)

(* sdb_patch_all_bp: nothing moves but a tracee that stands on a point.     *)
LEMMA PatchRefines ==
  ASSUME TypeOK, CarefulInv, Patch
  PROVE  IdealStep
<1> USE DEF traceeVars, fileVars, viewVars
<1>1. ASSUME pc = "patch", slot < MaxBreak,
             breaks' = breaks \/ \E w : breaks' = [breaks EXCEPT ![slot].original_word = w]
      PROVE  UsedAddrs' = UsedAddrs
  <2>1. slot \in Slots /\ breaks \in [Slots -> Breakpoint]
    BY <1>1, SlotFacts DEF TypeOK
  <2>2. \A i \in Slots : breaks'[i].is_used = breaks[i].is_used /\ breaks'[i].addr = breaks[i].addr
    BY <1>1, <2>1, SaveKeeps
  <2> QED BY <2>2, PointsKept DEF Used
<1>2. ASSUME NEW a, PatchWord(a) \/ PatchFails
      PROVE  breaks' = breaks \/ \E w : breaks' = [breaks EXCEPT ![slot].original_word = w]
  BY <1>2 DEF PatchWord, PatchFails
<1>3. CASE PatchDone \/ PatchUnused
  BY <1>3, SamePoints, Stutters DEF PatchDone, PatchUnused
<1>4. CASE PatchCrash
  BY <1>4, QuitEnds DEF PatchCrash
<1>5. CASE PatchSlot
  <2>1. UsedAddrs' = UsedAddrs
    BY <1>1, <1>2, <1>5 DEF PatchSlot, Patchable
  <2> QED BY <1>5, <2>1, Stutters DEF PatchSlot
<1>6. ASSUME NEW x \in StepOutcomes, PatchStepOff(x) PROVE IdealStep
  <2>1. UsedAddrs' = UsedAddrs
    BY <1>1, <1>2, <1>6 DEF PatchStepOff, Patchable
  <2>2. proc = "stopped" /\ pc # "wait" /\ SingleStep(x) /\ UNCHANGED <<base, event>>
    BY <1>6 DEF PatchStepOff, Patchable
  <2> QED BY <2>1, <2>2, SingleSteps
<1>7. CASE PatchDead
  <2>1. UsedAddrs' = UsedAddrs
    BY <1>1, <1>2, <1>7 DEF PatchDead, Patchable
  <2>2. ~Live'
    BY <1>7 DEF PatchDead, Live
  <2> QED BY <2>1, <2>2, EndsOrStutters
<1> QED BY <1>3, <1>4, <1>5, <1>6, <1>7 DEF Patch

(* PTRACE_CONT: every point is an int3 by then, and the tracee on none.     *)
LEMMA ResumeRefines ==
  ASSUME TypeOK, CarefulInv, Resume
  PROVE  IdealStep
<1>1. /\ pc = "resume" /\ ~event
      /\ proc' = IF proc = "stopped" THEN "running" ELSE proc
      /\ UNCHANGED <<base, rip, event, breaks>>
  BY NotGoing DEF Resume
<1>2. UsedAddrs' = UsedAddrs
  BY <1>1, SamePoints
<1>3. CASE proc # "stopped"
  BY <1>1, <1>2, <1>3, Stutters
<1>4. CASE proc = "stopped"
  <2>1. rip - base \notin UsedAddrs
    <3>1. ASSUME NEW i \in Slots, Used(i), breaks[i].addr = rip - base PROVE FALSE
      <4>1. Trap(i)
        BY <1>1, <1>4, <3>1 DEF CarefulInv, ArmedInv, Live
      <4>2. mem[rip - base] # INT3
        BY <1>1, <1>4, NotOnTrap
      <4> QED BY <3>1, <4>1, <4>2 DEF Trap
    <3> QED BY <3>1, PointsOf
  <2>2. /\ idealMode = "held" /\ idealAt = rip - base
        /\ idealMode' = "going" /\ idealAt' = rip - base
    BY <1>1, <1>4, ModeFacts
  <2>3. Ideal!Go
    BY <1>2, <2>1, <2>2 DEF Ideal!Go
  <2> QED BY <2>3 DEF IdealStep, Ideal!IdealNext
<1> QED BY <1>3, <1>4

(* The waitpid loop: the stop it reports is the one on the point.           *)
LEMMA WaitRefines ==
  ASSUME TypeOK, CarefulInv, Wait
  PROVE  IdealStep
<1>1. ASSUME NEW n \in Slots, WaitHit(n) PROVE IdealStep
  <2> DEFINE a == breaks[n].addr
  <2>1. /\ proc = "stopped" /\ proc' = "stopped" /\ event /\ ~event' /\ Used(n)
        /\ BpAddr(n) = rip - 1 /\ rip' = rip - 1 /\ UNCHANGED <<base, breaks>>
    BY <1>1 DEF WaitHit, FirstHit, Hit
  <2>2. Live /\ UsedAddrs' = UsedAddrs
    BY <2>1, SamePoints DEF Live
  <2>3. a \in Nat /\ base \in Nat /\ rip \in Nat
    BY DEF TypeOK, TraceeTypeOK, Breakpoint
  <2>4. rip - 1 = base + a
    BY <2>1, <2>2, PointAddr DEF CarefulInv
  <2>5. rip - base - 1 = a /\ rip' - base' = a
    BY <2>1, <2>3, <2>4
  <2>6. idealMode = "going" /\ idealAt = a /\ idealMode' = "held" /\ idealAt' = a
    BY <2>1, <2>2, <2>5, ModeFacts
  <2>7. a \in UsedAddrs
    BY <2>1, PointsOf
  <2>8. Ideal!HitPoint
    BY <2>2, <2>6, <2>7 DEF Ideal!HitPoint
  <2> QED BY <2>8 DEF IdealStep, Ideal!IdealNext
<1>2. CASE WaitMiss
  <2>1. event /\ proc = "stopped" /\ \A i \in Slots : ~Hit(i)
    BY <1>2 DEF WaitMiss
  <2>2. PICK i \in Slots : Used(i) /\ base + breaks[i].addr = rip - 1
    BY <2>1 DEF CarefulInv, RipInv
  <2>3. BpAddr(i) = base + breaks[i].addr
    BY <2>1, PointAddr DEF CarefulInv, Live
  <2> QED BY <2>1, <2>2, <2>3 DEF Hit
<1>3. CASE WaitCrash
  BY <1>3, QuitEnds DEF WaitCrash
<1>4. CASE WaitExit \/ WaitGone
  <2>1. ~Live' /\ breaks' = breaks
    BY <1>4 DEF WaitExit, WaitGone, Forget, Live
  <2> QED BY <2>1, SamePoints, EndsOrStutters
<1> QED BY <1>1, <1>2, <1>3, <1>4 DEF Wait

(* A running tracee is on a point exactly when it is on an int3: there it   *)
(* stays on the point, and elsewhere it runs the program.                   *)
LEMMA RunsRefines ==
  ASSUME TypeOK, CarefulInv, Runs \/ Disturbed
  PROVE  IdealStep
<1>1. UsedAddrs' = UsedAddrs
  BY SamePoints DEF Runs, Disturbed, debuggerVars
<1>2. CASE Disturbed
  <2>1. ~Live'
    BY <1>2, CarefulAssumption DEF Disturbed, Signalled, Killed, Live
  <2> QED BY <1>1, <2>1, EndsOrStutters
<1>3. ASSUME NEW x \in Outcomes, Execute(x) PROVE IdealStep
  <2> DEFINE o == rip - base
  <2>1. /\ proc = "running" /\ rip' = x.rip /\ base' = base
        /\ \/ x.kind = "ran" /\ UNCHANGED <<proc, event>>
           \/ x.kind = "exit" /\ proc' = "zombie" /\ UNCHANGED event
           \/ x.kind \in {"trap", "stop"} /\ proc' = "stopped" /\ event' = TRUE
    BY <1>3 DEF Execute
  <2>2. Live /\ pc = "wait" /\ ~event
    BY <2>1 DEF CarefulInv, SessionInv, Live
  <2>3. o \in Insn /\ base \in Nat /\ rip \in Nat
    BY <2>2 DEF CarefulInv, RipInv, TypeOK, TraceeTypeOK
  <2>4. o \in Off /\ o \in Nat
    BY <2>3, InsnFacts
  <2>5. idealMode = "going" /\ idealAt = o
    BY <2>1, <2>2, ModeFacts
  <2>6. CASE mem[o] = INT3
    <3>1. x.kind = "trap" /\ x.rip = rip + 1
      BY <2>4, <2>6 DEF AtInt3, Outcomes
    <3>2. Live' /\ event'
      BY <2>1, <3>1 DEF Live
    <3>3. rip' - base' - 1 = o
      BY <2>1, <2>3, <3>1
    <3>4. idealMode' = "going" /\ idealAt' = o
      BY <3>2, <3>3, ModeFacts
    <3> QED BY <1>1, <2>5, <3>4 DEF IdealStep
  <2>7. CASE mem[o] # INT3
    <3>1. x \in StepOutcomes
      BY <1>3 DEF StepOutcomes
    <3>2. x.kind = "exit" \/ (x.kind = "ran" /\ x.rip - base \in Succ[o])
      BY <2>2, <2>7, <3>1, NextInsn
    <3>3. CASE x.kind = "exit"
      <4>1. ~Live'
        BY <2>1, <3>3 DEF Live
      <4> QED BY <1>1, <4>1, EndsOrStutters
    <3>4. CASE x.kind = "ran" /\ x.rip - base \in Succ[o]
      <4>1. o \notin UsedAddrs
        <5>1. ASSUME NEW i \in Slots, Used(i), breaks[i].addr = o PROVE FALSE
          <6>1. Trap(i)
            BY <2>2, <5>1 DEF CarefulInv, ArmedInv
          <6> QED BY <2>7, <5>1, <6>1 DEF Trap
        <5> QED BY <5>1, PointsOf
      <4>2. idealMode' = "going" /\ idealAt' = x.rip - base
        <5>1. proc' = "running" /\ ~event'
          BY <2>1, <2>2, <3>4
        <5> QED BY <2>1, <5>1, ModeFacts
      <4>3. Ideal!RunOn
        BY <1>1, <2>5, <3>4, <4>1, <4>2 DEF Ideal!RunOn
      <4> QED BY <4>3 DEF IdealStep, Ideal!IdealNext
    <3> QED BY <3>2, <3>3, <3>4
  <2> QED BY <2>6, <2>7
<1> QED BY <1>2, <1>3 DEF Runs

-----------------------------------------------------------------------------
(* The theorem.                                                             *)

(* The debugger implements the ideal one: for every program, table size and *)
(* careful user, a going program never runs the instruction of a breakpoint *)
(* before it has been held there, and a held one leaves a breakpoint only   *)
(* by running the one instruction that carries it.                          *)
THEOREM RefinesIdeal == CarefulSpec => ImplementsIdeal
<1>1. Init => Ideal!IdealInit
  <2> SUFFICES ASSUME Init PROVE Ideal!IdealInit
    OBVIOUS
  <2>1. ~Live
    BY DEF Init, Live
  <2>2. \A i \in Slots : ~Used(i)
    <3>1. breaks = [i \in Slots |-> [is_used |-> 0, addr |-> 0, original_word |-> Failed]]
      BY Zenon DEF Init
    <3> QED BY <3>1 DEF Used
  <2>3. UsedAddrs = {}
    BY <2>2, PointsOf
  <2> QED BY <2>1, <2>3, ModeFacts DEF Ideal!IdealInit
<1>2. ASSUME TypeOK, CarefulInv, [CarefulNext]_vars PROVE [Ideal!IdealNext]_(Ideal!idealVars)
  <2> SUFFICES IdealStep
    BY DEF IdealStep, Ideal!idealVars
  <2>1. CASE UNCHANGED vars
    BY <2>1, SamePoints, Stutters DEF vars, traceeVars
  <2>2. CASE CarefulUser
    BY <1>2, <2>2, LoadRefines, SteerRefines, BreakRefines, DeleteRefines, LookRefines DEF CarefulUser
  <2>3. CASE Debugger
    <3>1. CASE UnpatchSlot \/ UnpatchDone \/ ReadText
      BY <3>1, SamePoints, Stutters DEF UnpatchSlot, UnpatchDone, ReadText, traceeVars
    <3> QED BY <1>2, <2>3, <3>1, PatchRefines, ResumeRefines, WaitRefines DEF Debugger
  <2>4. CASE Runs \/ Disturbed
    BY <1>2, <2>4, RunsRefines
  <2> QED BY <1>2, <2>1, <2>2, <2>3, <2>4 DEF CarefulNext, Over
<1> QED BY <1>1, <1>2, CarefulTypeCorrect, CarefulInvariant, PTL
        DEF CarefulSpec, ImplementsIdeal, Ideal!IdealSpec

(* What the user sees of it.  While the program goes, the breakpoints stay  *)
(* as they are; it does not move past one: it stays there until it is held  *)
(* or gone; and it is held nowhere but on one.                              *)
THEOREM HeldOnlyOnPoints ==
  CarefulSpec =>
    [][idealMode = "going" =>
         /\ UsedAddrs' = UsedAddrs
         /\ idealAt \in UsedAddrs => idealMode' = "off" \/ idealAt' = idealAt
         /\ idealMode' = "held" => idealAt \in UsedAddrs /\ idealAt' = idealAt]_vars
<1>1. [Ideal!IdealNext]_(Ideal!idealVars) =>
        [idealMode = "going" =>
           /\ UsedAddrs' = UsedAddrs
           /\ idealAt \in UsedAddrs => idealMode' = "off" \/ idealAt' = idealAt
           /\ idealMode' = "held" => idealAt \in UsedAddrs /\ idealAt' = idealAt]_vars
  BY DEF Ideal!idealVars, Ideal!IdealNext, Ideal!AddPoint, Ideal!RemovePoint, Ideal!Load,
         Ideal!Launch, Ideal!StepHeld, Ideal!SetPc, Ideal!Go, Ideal!RunOn, Ideal!HitPoint,
         Ideal!Over, Ideal!TurnOff
<1> QED BY <1>1, RefinesIdeal, PTL DEF ImplementsIdeal, Ideal!IdealSpec
=============================================================================
