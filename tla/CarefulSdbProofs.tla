-------------------------- MODULE CarefulSdbProofs --------------------------
(***************************************************************************)
(* Proofs about module CarefulSdb: for every program, every table size and *)
(* every careful user the breakpoints work and leave no trace.             *)
(***************************************************************************)
EXTENDS CarefulSdb, SdbProofs

-----------------------------------------------------------------------------
(* A careful user is a user: what holds for every user holds here.          *)

LEMMA CarefulIsNext == CarefulNext => Next
BY DEF CarefulNext, CarefulUser, CarefulLoad, CarefulStep, CarefulSetRip, CarefulBreak,
       CarefulDelete, Next, UserLoads, UserSteers, UserEdits

(* The types hold for the careful user too.                                 *)
LEMMA CarefulTypeCorrect == CarefulSpec => []TypeOK
<1>1. CarefulSpec => Spec
  BY CarefulIsNext, PTL DEF CarefulSpec, Spec
<1> QED BY <1>1, TypeCorrect, PTL

-----------------------------------------------------------------------------
(* Facts about one state.                                                   *)

(* The assumptions about breakpoints, in the form the proofs use.           *)
LEMMA PointFacts ==
  ASSUME NEW a \in BreakArgs
  PROVE  /\ a \in Nat /\ a \in Insn /\ a \in Off /\ a < TextSize /\ a + WordSize <= TextSize
         /\ \A b \in BreakArgs : a < b => a + WordSize <= b
         /\ \A s \in Succ[a] : s \notin BreakArgs
         /\ \A o \in Insn : o < a => o + Length[o] <= a
BY CarefulAssumption, SdbAssumption, LayoutAssumption DEF Off

(* The assumptions about instructions, likewise.                            *)
LEMMA InsnFacts ==
  ASSUME NEW o \in Insn
  PROVE  /\ o \in Off /\ o \in Nat /\ Length[o] \in Nat
         /\ o + Length[o] <= TextSize /\ TextSize \in Nat
         /\ Succ[o] \subseteq Insn
BY LayoutAssumption DEF Off

(* An offset is what is left of an address without the base.                *)
LEMMA Cancel == \A m, n \in Nat : (m + n) - m = n
OBVIOUS

(* No byte of the program is an int3.                                       *)
LEMMA OffFacts == \A o \in Off : o \in Nat /\ o # INT3
BY LayoutAssumption DEF Off, INT3

(* In a traced program breakpoint i is at base + addr, PIE or not.          *)
LEMMA PointAddr ==
  ASSUME TypeOK, SessionInv, Live, NEW i \in Slots
  PROVE  BpAddr(i) = base + breaks[i].addr /\ (ElfType = 2 => base = 0)
<1>1. path # "" /\ base \in Bases
  BY DEF SessionInv, Live
<1>2. eh.type = ElfType
  <2>1. eh = [state |-> "full", type |-> ElfType]
    BY <1>1 DEF SessionInv
  <2> QED BY <2>1
<1>3. breaks[i].addr \in Nat /\ base \in Nat
  BY DEF TypeOK, TraceeTypeOK, Breakpoint
<1>4. ElfType = 2 => base = 0
  BY <1>1, SdbAssumption
<1>5. CASE ElfType = 3
  BY <1>2, <1>3, <1>4, <1>5 DEF BpAddr, convert_dynamic_addr
<1>6. CASE ElfType = 2
  BY <1>2, <1>3, <1>4, <1>6 DEF BpAddr
<1> QED BY <1>4, <1>5, <1>6, SdbAssumption

(* A used slot holds one of the user's addresses.                           *)
LEMMA UsedPoint ==
  ASSUME TableInv, NEW i \in Slots, Used(i)
  PROVE  breaks[i].addr \in BreakArgs
BY DEF TableInv

(* Past its first byte, the word of a breakpoint is always the program's.   *)
LEMMA WordClean ==
  ASSUME TypeOK, TableInv, TextInv, Live, NEW a \in BreakArgs, NEW o \in Off,
         a < o, o < a + WordSize
  PROVE  mem[o] = o
<1>1. ASSUME NEW i \in Slots, Used(i), breaks[i].addr = o PROVE FALSE
  BY <1>1, UsedPoint, PointFacts, LayoutAssumption DEF Off
<1> QED BY <1>1 DEF TextInv

(* An instruction the tracee stands on, if not a trap, is complete: the     *)
(* tracee does what the program says.                                       *)
LEMMA StandsOnTrack ==
  ASSUME TypeOK, TableInv, TextInv, Live, rip - base \in Insn, mem[rip - base] # INT3
  PROVE  OnTrack /\ ~AtInt3
<1> DEFINE o == rip - base
<1>1. /\ o \in Insn /\ o \in Off /\ o \in Nat /\ Length[o] \in Nat
      /\ o + Length[o] <= TextSize /\ TextSize \in Nat
  BY InsnFacts
<1>2. mem[o] # INT3
  OBVIOUS
<1>3. ASSUME NEW x \in o .. (o + Length[o] - 1) PROVE mem[x] = x
  <2> HIDE DEF o
  <2>1. x \in Off /\ x \in Nat /\ o <= x /\ x < o + Length[o]
    BY <1>1 DEF Off
  <2>2. CASE x = o
    BY <1>2, <2>1, <2>2 DEF TextInv
  <2>3. CASE x # o
    <3>1. ASSUME NEW i \in Slots, Used(i), breaks[i].addr = x PROVE FALSE
      <4>1. x \in BreakArgs
        BY <3>1, UsedPoint
      <4>2. o < x
        BY <1>1, <2>1, <2>3
      <4>3. o + Length[o] <= x
        BY <1>1, <4>1, <4>2, PointFacts
      <4> QED BY <1>1, <2>1, <4>3
    <3> QED BY <2>1, <3>1 DEF TextInv
  <2> QED BY <2>2, <2>3
<1> QED BY <1>1, <1>2, <1>3 DEF OnTrack, AtInt3

(* The word of a breakpoint can be read and written in a stopped tracee.    *)
LEMMA PointAccessible ==
  ASSUME TypeOK, proc = "stopped", NEW a \in BreakArgs
  PROVE  Accessible(base + a)
<1>1. base \in Nat
  BY DEF TypeOK, TraceeTypeOK
<1> QED BY <1>1, PointFacts, LayoutAssumption DEF Accessible, WordMapped

(* Putting back the program's word takes the int3 away and changes nothing  *)
(* else.                                                                    *)
LEMMA RestoreText ==
  ASSUME TypeOK, TableInv, TextInv, proc = "stopped", NEW a \in BreakArgs
  PROVE  Poke(base + a, OrigWord(a)) = [mem EXCEPT ![a] = a]
<1> DEFINE w == OrigWord(a)
<1>1. base \in Nat /\ mem \in [Off -> Byte] /\ Live
  BY DEF TypeOK, TraceeTypeOK, Live
<1>2. a \in Nat /\ a \in Off /\ WordSize \in Nat /\ \A o \in Off : o \in Nat
  BY PointFacts, LayoutAssumption DEF Off
<1>3. ASSUME NEW o \in Off, base + a <= base + o, base + o < base + a + WordSize
      PROVE  w[base + o - (base + a)] = [mem EXCEPT ![a] = a][o]
  <2>1. base + o - (base + a) \in 0 .. WordSize - 1 /\ a + (base + o - (base + a)) = o
    BY <1>1, <1>2, <1>3
  <2>2. w[base + o - (base + a)] = o
    BY <2>1 DEF OrigWord
  <2>3. CASE o = a
    BY <1>1, <2>2, <2>3
  <2>4. CASE o # a
    <3>1. a < o /\ o < a + WordSize
      BY <1>1, <1>2, <1>3, <2>4
    <3>2. mem[o] = o
      BY <1>1, <3>1, WordClean
    <3> QED BY <1>1, <2>2, <2>4, <3>2
  <2> QED BY <2>3, <2>4
<1>4. ASSUME NEW o \in Off, ~(base + a <= base + o /\ base + o < base + a + WordSize)
      PROVE  mem[o] = [mem EXCEPT ![a] = a][o]
  <2>1. o # a
    BY <1>1, <1>2, <1>4, LayoutAssumption
  <2> QED BY <1>1, <2>1
<1>5. Accessible(base + a)
  BY PointAccessible
<1> HIDE DEF w
<1>6. Poke(base + a, w) = [mem EXCEPT ![a] = a]
  BY <1>1, <1>3, <1>4, <1>5 DEF Poke
<1> QED BY <1>6 DEF w

(* The word of an unarmed breakpoint is the program's word.                 *)
LEMMA ReadsProgram ==
  ASSUME TypeOK, TableInv, TextInv, proc = "stopped", NEW a \in BreakArgs, mem[a] # INT3
  PROVE  Peek(base + a) = OrigWord(a)
<1> DEFINE c == base + a
<1>1. base \in Nat /\ Live
  BY DEF TypeOK, TraceeTypeOK, Live
<1>2. a \in Nat /\ a \in Off /\ WordSize \in Nat
  BY PointFacts, LayoutAssumption
<1>3. c - base = a /\ Accessible(c)
  BY <1>1, <1>2, PointAccessible
<1> HIDE DEF c
<1>4. ASSUME NEW k \in 0 .. WordSize - 1 PROVE mem[a + k] = a + k
  <2>1. a + k \in Off /\ a + k < a + WordSize
    BY <1>2, PointFacts, LayoutAssumption DEF Off
  <2>2. CASE k = 0
    BY <1>1, <1>2, <2>2 DEF TextInv
  <2>3. CASE k # 0
    <3>1. a < a + k
      BY <1>2, <2>3
    <3> QED BY <1>1, <2>1, <3>1, WordClean
  <2> QED BY <2>2, <2>3
<1>5. Peek(c) = OrigWord(a)
  BY <1>3, <1>4 DEF Peek, OrigWord
<1> QED BY <1>5 DEF c

-----------------------------------------------------------------------------
(* Facts about one step.                                                    *)

(* Without a tracee only the session and the table count.                   *)
LEMMA DeadInv ==
  ASSUME SessionInv', TableInv', ~Live'
  PROVE  CarefulInv'
BY DEF CarefulInv, SessionInv, TextInv, SavedInv, ArmedInv, RipInv, Live

(* The table is in order as long as no breakpoint is added or moved.        *)
LEMMA TableKept ==
  ASSUME TableInv,
         \A i \in Slots : Used(i)' => Used(i) /\ breaks'[i].addr = breaks[i].addr
  PROVE  TableInv'
BY DEF TableInv

(* The debugger ends.                                                       *)
LEMMA QuitInv ==
  ASSUME CarefulInv, NEW how \in {"exited", "crashed"}, Quit(how)
  PROVE  CarefulInv'
<1>1. ~Live' /\ breaks' = breaks
  BY DEF Quit, Forget, Live
<1>2. SessionInv'
  BY DEF CarefulInv, SessionInv, Quit, Forget, ClearText, Live, fileVars
<1>3. TableInv'
  BY <1>1, TableKept DEF CarefulInv, Used
<1> QED BY <1>1, <1>2, <1>3, DeadInv

(* A command that leaves tracee, text and table alone, or moves the tracee  *)
(* to an instruction without an int3.                                       *)
LEMMA HeldInv ==
  ASSUME CarefulInv, pc \in {"prompt", "unpatch", "read"},
         UNCHANGED <<proc, base, mem, event, path, eh, pid, breaks>>,
         \/ pc' = pc
         \/ pc' \in {"prompt", "unpatch", "read"} /\ pid # NoPid
         \/ pc' = "patch" /\ slot' = 0 /\ pid # NoPid,
         \/ rip' = rip
         \/ /\ rip' - base \in Insn
            /\ \A i \in Slots : Used(i) /\ base + breaks[i].addr = rip' => ~Trap(i)
  PROVE  CarefulInv'
<1>1. SessionInv'
  BY DEF CarefulInv, SessionInv, Live
<1>2. TableInv'
  BY TableKept DEF CarefulInv, Used
<1>3. TextInv'
  BY DEF CarefulInv, TextInv, Live, Used
<1>4. SavedInv'
  BY DEF CarefulInv, SavedInv, Live, Used, OrigWord
<1>5. ArmedInv'
  <2>1. \A i \in Slots : 0 <= i
    BY SizeFacts
  <2> QED BY <2>1 DEF CarefulInv, ArmedInv, Live, Used, Trap
<1>6. RipInv'
  <2>1. ~event /\ proc # "running"
    BY DEF CarefulInv, SessionInv
  <2> QED BY <2>1 DEF CarefulInv, RipInv, Live, Used, Trap
<1> QED BY <1>1, <1>2, <1>3, <1>4, <1>5, <1>6 DEF CarefulInv

(* Where a tracee that stands on no int3 goes next.                         *)
LEMMA NextInsn ==
  ASSUME TypeOK, CarefulInv, Live, ~event, mem[rip - base] # INT3, NEW x \in StepOutcomes
  PROVE  \/ x.kind = "exit"
         \/ /\ x.kind = "ran" /\ x.rip - base \in Succ[rip - base]
            /\ x.rip - base \in Insn /\ base + (x.rip - base) = x.rip
<1>1. rip - base \in Insn /\ base \in Nat
  BY DEF CarefulInv, RipInv, TypeOK, TraceeTypeOK
<1>2. OnTrack /\ ~AtInt3
  BY <1>1, StandsOnTrack DEF CarefulInv
<1>3. Signals = FALSE
  BY CarefulAssumption
<1>4. Succ[rip - base] \subseteq Insn /\ \A o \in Insn : o \in Nat
  BY <1>1, InsnFacts
<1>5. \A s \in Succ[rip - base] : base + s - base = s /\ base + (base + s - base) = base + s
  BY <1>1, <1>4
<1>6. \/ x.kind = "exit"
      \/ \E s \in Succ[rip - base] : x = [kind |-> "ran", rip |-> base + s]
  BY <1>2, <1>3 DEF StepOutcomes, Outcomes
<1>7. ASSUME NEW s \in Succ[rip - base], x = [kind |-> "ran", rip |-> base + s]
      PROVE  x.kind = "ran" /\ x.rip - base = s /\ base + (x.rip - base) = x.rip /\ s \in Insn
  <2>1. x.kind = "ran" /\ x.rip = base + s
    BY <1>7
  <2>2. s \in Nat /\ s \in Insn
    BY <1>4, <1>7
  <2> QED BY <1>1, <2>1, <2>2
<1> QED BY <1>6, <1>7

(* A stopped tracee, before cont resumes it, stands on no int3.             *)
LEMMA NotOnTrap ==
  ASSUME TypeOK, CarefulInv, proc = "stopped", pc # "wait"
  PROVE  mem[rip - base] # INT3 /\ ~event
<1>1. /\ ~event /\ rip - base \in Insn /\ base \in Nat /\ rip \in Nat /\ Live
  BY DEF CarefulInv, SessionInv, RipInv, TypeOK, TraceeTypeOK, Live
<1>2. rip - base \in Off /\ rip - base \in Nat /\ base + (rip - base) = rip
  BY <1>1, InsnFacts
<1>3. ASSUME NEW i \in Slots, Used(i), breaks[i].addr = rip - base
      PROVE  mem[rip - base] # INT3
  BY <1>1, <1>2, <1>3 DEF CarefulInv, RipInv, Trap
<1>4. rip - base # INT3
  BY <1>2 DEF INT3
<1> QED BY <1>1, <1>2, <1>3, <1>4 DEF CarefulInv, TextInv

-----------------------------------------------------------------------------
(* Every step keeps the invariant: the user's commands.                     *)

LEMMA LoadKeeps ==
  ASSUME TypeOK, CarefulInv, CarefulLoad
  PROVE  CarefulInv'
<1> USE DEF traceeVars, fileVars, viewVars, Prompt
<1>1. ASSUME path = "", path' = path, breaks' = breaks, UNCHANGED traceeVars,
             pid' = pid, pc = "prompt", pc' = pc
      PROVE  CarefulInv'
  <2>1. ~Live' /\ SessionInv'
    BY <1>1 DEF CarefulInv, SessionInv, Live
  <2>2. TableInv'
    BY <1>1, TableKept DEF CarefulInv, Used
  <2> QED BY <2>1, <2>2, DeadInv
<1>2. CASE LoadProgram
  <2>1. ~Live' /\ SessionInv'
    BY <1>2 DEF LoadProgram, Forget, ClearText, CarefulInv, SessionInv, Live
  <2>2. \A i \in Slots : ~Used(i)'
    <3>1. breaks \in [Slots -> Breakpoint]
      BY DEF TypeOK
    <3>2. \A i \in Slots : breaks'[i].is_used = 0
      BY <1>2, <3>1 DEF LoadProgram, Breakpoint
    <3> QED BY <3>2 DEF Used
  <2>3. TableInv'
    BY <2>2 DEF TableInv
  <2> QED BY <2>1, <2>3, DeadInv
<1> QED BY <1>1, <1>2 DEF CarefulLoad, LoadUnopened, LoadUnloaded, LoadUnnamed

(* A fresh process has a clean text and stands on its first instruction.    *)
LEMMA LaunchKeeps ==
  ASSUME TypeOK, CarefulInv, pc = "prompt", path # "", ForkFails \/ Launch,
         UNCHANGED <<path, eh, breaks>>
  PROVE  CarefulInv'
<1>1. TableInv'
  BY TableKept DEF CarefulInv, Used
<1>2. CASE ForkFails
  <2>1. ~Live' /\ SessionInv'
    BY <1>2 DEF ForkFails, Forget, ClearText, CarefulInv, SessionInv, Live
  <2> QED BY <1>1, <2>1, DeadInv
<1>3. CASE Launch /\ ExecFails
  <2>1. ~Live' /\ SessionInv'
    BY <1>3, PidFact DEF Launch, ExecFails, ClearText, Enter, CarefulInv, SessionInv, Live
  <2> QED BY <1>1, <2>1, DeadInv
<1>4. ASSUME Launch, NEW b \in Bases, Exec(b)
      PROVE  CarefulInv'
  <2>1. /\ pc' = "patch" /\ slot' = 0 /\ proc' = "stopped" /\ base' = b /\ event' = FALSE
        /\ rip' = b + Entry /\ mem' = [o \in Off |-> o] /\ pid' = Pid
    BY <1>4 DEF Launch, Exec, Enter, Fresh
  <2>2. \A i \in Slots : 0 <= i /\ (Used(i)' <=> Used(i)) /\ breaks'[i] = breaks[i]
    <3>1. \A i \in Slots : 0 <= i
      BY SizeFacts
    <3> QED BY <3>1 DEF Used
  <2>3. \A i \in Slots : Used(i) => breaks[i].addr \in Off /\ ~Trap(i)'
    <3>1. \A i \in Slots : Used(i) => breaks[i].addr \in Off
      BY UsedPoint, PointFacts DEF CarefulInv
    <3>2. \A o \in Off : o # INT3
      BY OffFacts
    <3> QED BY <2>1, <2>2, <3>1, <3>2 DEF Trap
  <2>4. SessionInv'
    BY <1>4, <2>1, PidFact DEF CarefulInv, SessionInv
  <2>5. TextInv'
    BY <2>1 DEF TextInv
  <2>6. SavedInv' /\ ArmedInv'
    BY <2>1, <2>2, <2>3 DEF SavedInv, ArmedInv
  <2>7. RipInv'
    <3>1. rip' - base' = Entry /\ Entry \in Insn
      <4>1. Entry \in Insn /\ b \in Nat
        BY <1>4, LayoutAssumption
      <4>2. Entry \in Nat
        BY <4>1, InsnFacts
      <4>3. (b + Entry) - b = Entry
        BY <4>1, <4>2, Cancel, Zenon
      <4>4. rip' = b + Entry /\ base' = b
        BY <2>1
      <4> QED BY <4>1, <4>3, <4>4
    <3> QED BY <2>1, <2>2, <2>3, <3>1 DEF RipInv
  <2> QED BY <1>1, <2>4, <2>5, <2>6, <2>7 DEF CarefulInv
<1> QED BY <1>2, <1>3, <1>4 DEF Launch

(* start, run and cont; si and set rip of a careful user.                   *)
LEMMA SteerKeeps ==
  ASSUME TypeOK, CarefulInv,
         \/ Start \/ Run \/ Cont
         \/ \E x \in StepOutcomes : CarefulStep(x)
         \/ \E a \in RipArgs : CarefulSetRip(a)
  PROVE  CarefulInv'
<1> USE DEF traceeVars, fileVars, viewVars, Prompt
<1>1. CASE Start
  BY <1>1, LaunchKeeps DEF Start, sdb_is_loaded
<1>2. CASE Run
  <2>1. CASE ForkFails \/ Launch
    BY <1>2, <2>1, LaunchKeeps DEF Run, sdb_is_loaded
  <2>2. CASE sdb_is_running /\ Enter("patch") /\ UNCHANGED <<traceeVars, pid>>
    BY <1>2, <2>2, HeldInv DEF Run, Enter, sdb_is_running
  <2> QED BY <1>2, <2>1, <2>2 DEF Run
<1>3. CASE Cont
  BY <1>3, HeldInv DEF Cont, Enter, sdb_is_running
<1>4. ASSUME NEW x \in StepOutcomes, CarefulStep(x)
      PROVE  CarefulInv'
  <2>1. /\ pc = "prompt" /\ pc' = pc /\ proc = "stopped" /\ rip' = x.rip
        /\ UNCHANGED <<base, mem, event, path, eh, pid, breaks>>
        /\ proc' = IF x.kind = "exit" THEN "reaped" ELSE "stopped"
    BY <1>4 DEF CarefulStep, Step, SingleStep
  <2>2. CASE x.kind = "exit"
    <3>1. SessionInv' /\ ~Live'
      BY <2>1, <2>2 DEF CarefulInv, SessionInv, Live
    <3>2. TableInv'
      BY <2>1, TableKept DEF CarefulInv, Used
    <3> QED BY <3>1, <3>2, DeadInv
  <2>3. CASE x.kind # "exit"
    <3>1. mem[rip - base] # INT3 /\ ~event
      BY <2>1, NotOnTrap
    <3>2. x.rip - base \in Insn /\ base + (x.rip - base) = x.rip
      BY <2>1, <2>3, <3>1, NextInsn DEF Live
    <3>3. x.rip - base \notin UsedAddrs
      BY <1>4, <2>3 DEF CarefulStep
    <3>4. ASSUME NEW i \in Slots, Used(i), base + breaks[i].addr = rip' PROVE FALSE
      <4>1. breaks[i].addr \in Nat /\ base \in Nat
        BY DEF TypeOK, TraceeTypeOK, Breakpoint
      <4>2. breaks[i].addr = x.rip - base
        BY <2>1, <3>4, <4>1
      <4> QED BY <3>3, <3>4, <4>2 DEF UsedAddrs
    <3> QED BY <2>1, <2>3, <3>2, <3>4, HeldInv
  <2> QED BY <2>2, <2>3
<1>5. ASSUME NEW a \in RipArgs, CarefulSetRip(a)
      PROVE  CarefulInv'
  <2>1. /\ pc = "prompt" /\ pc' = pc /\ rip' = a /\ a - base \in Insn /\ a - base \notin UsedAddrs
        /\ UNCHANGED <<proc, base, mem, event, path, eh, pid, breaks>>
    BY <1>5 DEF CarefulSetRip, SetRip
  <2>2. ASSUME NEW i \in Slots, Used(i), base + breaks[i].addr = rip' PROVE FALSE
    <3>1. breaks[i].addr \in Nat /\ base \in Nat
      BY DEF TypeOK, TraceeTypeOK, Breakpoint
    <3>2. breaks[i].addr = a - base
      BY <2>1, <2>2, <3>1
    <3> QED BY <2>1, <2>2, <3>2 DEF UsedAddrs
  <2> QED BY <2>1, <2>2, HeldInv
<1> QED BY <1>1, <1>2, <1>3, <1>4, <1>5

(* break: the new breakpoint is not armed, and the patch loop will reach it *)
(* before the tracee runs.                                                  *)
LEMMA BreakKeeps ==
  ASSUME TypeOK, CarefulInv, NEW a \in BreakArgs, CarefulBreak(a)
  PROVE  CarefulInv'
<1>1. PICK n \in Slots : FirstFree(n) /\ SetSlot(n, a)
  BY DEF CarefulBreak, Break
<1>2. /\ pc = "prompt" /\ a \notin UsedAddrs /\ ~Used(n)
      /\ UNCHANGED <<proc, base, rip, mem, event, path, eh, pid>>
      /\ IF pid # NoPid THEN pc' = "patch" /\ slot' = 0 ELSE pc' = pc
  BY <1>1 DEF CarefulBreak, Break, FirstFree, Prompt, traceeVars, fileVars, sdb_is_running, Enter
<1>3. /\ breaks'[n].is_used = 1 /\ breaks'[n].addr = a
      /\ \A i \in Slots : i # n => breaks'[i] = breaks[i]
  <2>1. breaks \in [Slots -> Breakpoint]
    BY DEF TypeOK
  <2> QED BY <1>1, <2>1 DEF SetSlot, Breakpoint
<1>4. /\ Used(n)'
      /\ \A i \in Slots : i # n => (Used(i)' <=> Used(i)) /\ (Trap(i)' <=> Trap(i))
  BY <1>2, <1>3 DEF Used, Trap
<1>5. \A i \in Slots : Used(i) => i # n /\ breaks[i].addr # a
  BY <1>2 DEF UsedAddrs
<1>6. TableInv'
  BY <1>3, <1>4, <1>5 DEF CarefulInv, TableInv
<1>7. SessionInv'
  BY <1>2 DEF CarefulInv, SessionInv, Live
<1>8. CASE ~Live
  <2>1. ~Live'
    BY <1>2, <1>8 DEF Live
  <2> QED BY <1>6, <1>7, <2>1, DeadInv
<1>9. CASE Live
  <2>1. pc' = "patch" /\ slot' = 0 /\ \A i \in Slots : 0 <= i
    BY <1>2, <1>9, SizeFacts DEF CarefulInv, SessionInv, Live
  <2>2. mem[a] = a /\ a # INT3
    <3>1. a \in Off
      BY PointFacts
    <3> QED BY <1>5, <1>9, <3>1, OffFacts DEF CarefulInv, TextInv
  <2>3. ~Trap(n)'
    BY <1>2, <1>3, <2>2 DEF Trap
  <2>4. TextInv'
    <3>1. ASSUME NEW o \in Off PROVE mem'[o] = o \/ (mem'[o] = INT3 /\ \E i \in Slots : Used(i)' /\ breaks'[i].addr = o)
      <4>1. CASE mem[o] = o
        BY <1>2, <4>1
      <4>2. CASE mem[o] # o
        <5>1. PICK i \in Slots : mem[o] = INT3 /\ Used(i) /\ breaks[i].addr = o
          BY <1>9, <4>2 DEF CarefulInv, TextInv
        <5> QED BY <1>2, <1>3, <1>4, <1>5, <5>1
      <4> QED BY <4>1, <4>2
    <3> QED BY <3>1 DEF TextInv
  <2>5. SavedInv'
    <3>1. ASSUME NEW i \in Slots, Used(i)', i # n
          PROVE  breaks'[i].original_word = OrigWord(breaks'[i].addr)
      BY <1>2, <1>3, <1>4, <1>9, <3>1 DEF CarefulInv, SavedInv
    <3> QED BY <2>1, <2>3, <3>1 DEF SavedInv, OrigWord
  <2>6. ArmedInv'
    BY <2>1 DEF ArmedInv
  <2>7. RipInv'
    <3>1. proc = "stopped" /\ ~event
      BY <1>2, <1>9 DEF CarefulInv, SessionInv, Live
    <3>2. rip' - base' \in Insn
      BY <1>2, <1>9, <3>1 DEF CarefulInv, RipInv
    <3>3. \A i \in Slots : Used(i)' /\ base' + breaks'[i].addr = rip' => ~Trap(i)'
      BY <1>2, <1>3, <1>4, <2>3, <3>1 DEF CarefulInv, RipInv
    <3> QED BY <1>2, <2>1, <3>1, <3>2, <3>3 DEF RipInv
  <2> QED BY <1>6, <1>7, <2>4, <2>5, <2>6, <2>7 DEF CarefulInv
<1> QED BY <1>8, <1>9

(* Taking away the int3 of one breakpoint while the tracee is held.         *)
LEMMA DisarmFacts ==
  ASSUME TypeOK, CarefulInv, Live, NEW n \in Slots, Used(n),
         mem' = [mem EXCEPT ![breaks[n].addr] = breaks[n].addr]
  PROVE  /\ mem'[breaks[n].addr] = breaks[n].addr /\ breaks[n].addr # INT3
         /\ \A o \in Off : o # breaks[n].addr => mem'[o] = mem[o]
         /\ \A i \in Slots : Used(i) /\ i # n =>
              breaks[i].addr # breaks[n].addr /\ mem'[breaks[i].addr] = mem[breaks[i].addr]
         /\ \A o \in Off : mem'[o] = o
              \/ (mem'[o] = INT3 /\ \E i \in Slots : i # n /\ Used(i) /\ breaks[i].addr = o)
<1>1. \A i \in Slots : Used(i) => breaks[i].addr \in Off
  BY UsedPoint, PointFacts DEF CarefulInv
<1>2. mem \in [Off -> Byte]
  BY DEF TypeOK, TraceeTypeOK
<1>3. mem'[breaks[n].addr] = breaks[n].addr /\ breaks[n].addr # INT3
  BY <1>1, <1>2, OffFacts
<1>4. \A o \in Off : o # breaks[n].addr => mem'[o] = mem[o]
  BY <1>2
<1>5. \A i \in Slots : Used(i) /\ i # n => breaks[i].addr # breaks[n].addr
  BY DEF CarefulInv, TableInv
<1>6. ASSUME NEW o \in Off
      PROVE  mem'[o] = o
              \/ (mem'[o] = INT3 /\ \E i \in Slots : i # n /\ Used(i) /\ breaks[i].addr = o)
  <2>1. CASE o = breaks[n].addr
    BY <1>3, <2>1
  <2>2. CASE o # breaks[n].addr
    BY <1>4, <2>2 DEF CarefulInv, TextInv
  <2> QED BY <2>1, <2>2
<1> QED BY <1>1, <1>3, <1>4, <1>5, <1>6

(* delete: the saved word is the program's, so no int3 is left behind.      *)
LEMMA DeleteKeeps ==
  ASSUME TypeOK, CarefulInv, NEW n \in Slots, CarefulDelete(n)
  PROVE  CarefulInv'
<1> DEFINE a == breaks[n].addr
<1>1. /\ pc = "prompt" /\ Used(n)
      /\ UNCHANGED <<proc, base, rip, event, pc, path, eh, pid>>
      /\ breaks' = [breaks EXCEPT ![n].is_used = 0]
      /\ mem' = IF Peek(a)[0] = INT3 THEN Poke(a, breaks[n].original_word) ELSE mem
  BY DEF CarefulDelete, Delete, Prompt, fileVars
<1>2. /\ breaks'[n].is_used = 0
      /\ \A i \in Slots : i # n => breaks'[i] = breaks[i]
  <2>1. breaks \in [Slots -> Breakpoint]
    BY DEF TypeOK
  <2> QED BY <1>1, <2>1 DEF Breakpoint
<1>3. ~Used(n)' /\ \A i \in Slots : i # n => (Used(i)' <=> Used(i))
  BY <1>2 DEF Used
<1>4. TableInv'
  BY <1>2, <1>3, TableKept DEF CarefulInv
<1>5. SessionInv'
  BY <1>1 DEF CarefulInv, SessionInv, Live
<1>6. CASE ~Live
  <2>1. ~Live'
    BY <1>1, <1>6 DEF Live
  <2> QED BY <1>4, <1>5, <2>1, DeadInv
<1>7. CASE Live
  <2>1. proc = "stopped" /\ ~event
    BY <1>1, <1>7 DEF CarefulInv, SessionInv, Live
  <2>2. a \in BreakArgs /\ a \in Nat /\ a \in Off
    BY <1>1, UsedPoint, PointFacts DEF CarefulInv
  <2>3. base = 0 /\ base + a = a /\ a - base = a
    BY <1>7, <2>2, PointAddr DEF CarefulDelete, CarefulInv
  <2>4. Accessible(a)
    BY <2>1, <2>2, <2>3, PointAccessible
  <2>5. Peek(a)[0] = mem[a]
    BY <2>2, <2>3, <2>4, PeekFirst
  <2>6. breaks[n].original_word = OrigWord(a)
    BY <1>1, <1>7 DEF CarefulInv, SavedInv
  <2>7. mem' = [mem EXCEPT ![a] = a]
    <3>1. mem \in [Off -> Byte]
      BY DEF TypeOK, TraceeTypeOK
    <3>2. CASE mem[a] = INT3
      BY <1>1, <2>1, <2>2, <2>3, <2>5, <2>6, <3>2, RestoreText DEF CarefulInv
    <3>3. CASE mem[a] # INT3
      <4>1. mem[a] = a /\ mem' = mem
        BY <1>1, <1>7, <2>2, <2>5, <3>3 DEF CarefulInv, TextInv
      <4> QED BY <2>2, <3>1, <4>1
    <3> QED BY <3>2, <3>3
  <2> HIDE DEF a
  <2>8. /\ \A i \in Slots : Used(i) /\ i # n => mem'[breaks[i].addr] = mem[breaks[i].addr]
        /\ \A o \in Off : mem'[o] = o
             \/ (mem'[o] = INT3 /\ \E i \in Slots : i # n /\ Used(i) /\ breaks[i].addr = o)
    BY <1>1, <1>7, <2>7, DisarmFacts DEF a
  <2>9. TextInv'
    BY <1>2, <1>3, <2>8 DEF TextInv
  <2>10. SavedInv'
    BY <1>1, <1>2, <1>3, <1>7 DEF CarefulInv, SavedInv, OrigWord
  <2>11. ArmedInv'
    BY <1>1 DEF ArmedInv
  <2>12. RipInv'
    <3>1. rip' - base' \in Insn
      BY <1>1, <1>7, <2>1 DEF CarefulInv, RipInv
    <3>2. \A i \in Slots : Used(i)' /\ base' + breaks'[i].addr = rip' => ~Trap(i)'
      BY <1>1, <1>2, <1>3, <2>1, <2>8 DEF CarefulInv, RipInv, Trap
    <3> QED BY <1>1, <2>1, <3>1, <3>2 DEF RipInv
  <2> QED BY <1>4, <1>5, <2>9, <2>10, <2>11, <2>12 DEF CarefulInv
<1> QED BY <1>6, <1>7

(* disasm up to its loops, vmmap, exit and the commands that only print.    *)
LEMMA LookKeeps ==
  ASSUME TypeOK, CarefulInv, UserLooks
  PROVE  CarefulInv'
<1> USE DEF traceeVars, fileVars, viewVars, Prompt
<1>1. ASSUME NEW x, Disasm(x) PROVE CarefulInv'
  <2>1. CASE DisasmFile(x)
    BY <1>1, <2>1, HeldInv DEF Disasm, DisasmFile
  <2>2. CASE DisasmCrash(x)
    BY <2>2, QuitInv DEF DisasmCrash
  <2>3. CASE DisasmLive(x)
    BY <1>1, <2>3, HeldInv DEF Disasm, DisasmLive, Enter, sdb_is_running
  <2> QED BY <1>1, <2>1, <2>2, <2>3 DEF Disasm
<1>2. CASE VmmapCrash \/ Exit
  BY <1>2, QuitInv DEF VmmapCrash, Exit
<1>3. ASSUME NEW c \in Commands, Prints(c) PROVE CarefulInv'
  <2>1. /\ pc = "prompt" /\ pc' = pc /\ rip' = rip
        /\ UNCHANGED <<proc, base, mem, event, path, eh, pid, breaks>>
    BY <1>3 DEF Prints
  <2> QED BY <2>1, HeldInv
<1> QED BY <1>1, <1>2, <1>3, OnlyPrints DEF UserLooks, DisasmNext

-----------------------------------------------------------------------------
(* Every step keeps the invariant: the loops of the debugger.               *)

(* One turn of sdb_patch_all_bp: the slot it leaves is armed and its saved  *)
(* word is the program's.                                                   *)
LEMMA PatchKeeps ==
  ASSUME TypeOK, CarefulInv, Patchable, proc = "stopped", proc' = "stopped",
         PatchWord(BpAddr(slot)), UNCHANGED <<base, event, path, eh, pid>>,
         rip' - base \in Insn, rip' # BpAddr(slot),
         \A i \in Slots : Used(i) /\ base + breaks[i].addr = rip' => ~Trap(i)
  PROVE  CarefulInv'
<1> DEFINE a == breaks[slot].addr
<1>1. pc = "patch" /\ slot < MaxBreak /\ Used(slot) /\ slot \in 0 .. MaxBreak
  BY DEF Patchable, TypeOK
<1>2. /\ slot \in Slots /\ Live /\ Live'
      /\ \A i \in Slots : i < slot + 1 => i < slot \/ i = slot
  BY <1>1, SlotFacts DEF Live
<1>3. /\ \A i \in Slots : i \in Nat
      /\ base \in Nat /\ mem \in [Off -> Byte] /\ breaks \in [Slots -> Breakpoint]
  BY SizeFacts DEF TypeOK, TraceeTypeOK
<1>4. /\ a \in BreakArgs /\ a \in Nat /\ a \in Off
      /\ \A i \in Slots : Used(i) => breaks[i].addr \in Off /\ breaks[i].addr \in Nat
  BY <1>1, <1>2, UsedPoint, PointFacts DEF CarefulInv
<1>5. BpAddr(slot) = base + a
  BY <1>2, PointAddr DEF CarefulInv
<1>6. Accessible(base + a) /\ Peek(base + a)[0] = mem[a]
  <2>1. Accessible(base + a)
    BY <1>4, PointAccessible
  <2>2. base + a \in Nat /\ (base + a) - base = a
    BY <1>3, <1>4
  <2> QED BY <1>3, <2>1, <2>2, PeekFirst
<1>7. slot' = slot + 1 /\ pc' = "patch"
  BY <1>1, <1>5, <1>6 DEF PatchWord
<1>8. SessionInv'
  BY <1>2, <1>7 DEF CarefulInv, SessionInv, Live, Patchable
<1>9. \A i \in Slots : slot <= i /\ i # slot => slot' <= i
  BY <1>1, <1>3, <1>7
<1>10. ~event'
  BY <1>1 DEF CarefulInv, SessionInv
<1>11. CASE mem[a] = INT3
  <2>1. breaks' = breaks /\ mem' = mem
    BY <1>5, <1>6, <1>11 DEF PatchWord
  <2>2. \A i \in Slots : (Used(i)' <=> Used(i)) /\ (Trap(i)' <=> Trap(i))
    BY <2>1 DEF Used, Trap
  <2>3. TableInv'
    BY <2>1, <2>2, TableKept DEF CarefulInv
  <2>4. TextInv'
    BY <1>2, <2>1, <2>2 DEF CarefulInv, TextInv
  <2>5. SavedInv'
    BY <1>2, <1>7, <1>9, <1>11, <2>1, <2>2 DEF CarefulInv, SavedInv, OrigWord, Trap
  <2>6. ArmedInv'
    BY <1>1, <1>2, <1>7, <1>9, <1>11, <2>1, <2>2 DEF CarefulInv, ArmedInv, Trap
  <2>7. RipInv'
    BY <1>7, <1>10, <2>1, <2>2 DEF RipInv
  <2> QED BY <1>8, <2>3, <2>4, <2>5, <2>6, <2>7 DEF CarefulInv
<1>12. CASE mem[a] # INT3
  <2>1. /\ breaks' = [breaks EXCEPT ![slot].original_word = Peek(base + a)]
        /\ mem' = Poke(base + a, [Peek(base + a) EXCEPT ![0] = INT3])
    BY <1>5, <1>6, <1>12 DEF PatchWord
  <2>2. Peek(base + a) = OrigWord(a)
    BY <1>4, <1>12, ReadsProgram DEF CarefulInv
  <2>3. mem' = [o \in Off |-> IF o = a THEN INT3 ELSE mem[o]]
    <3>1. mem' = [o \in Off |-> IF base + o = base + a THEN INT3 ELSE mem[o]]
      BY <1>3, <1>4, <1>6, <2>1, ArmText
    <3>2. \A o \in Off : base + o = base + a <=> o = a
      BY <1>3, <1>4, OffFacts
    <3> QED BY <3>1, <3>2
  <2>4. /\ \A i \in Slots : breaks'[i].is_used = breaks[i].is_used
                            /\ breaks'[i].addr = breaks[i].addr
        /\ \A i \in Slots : i # slot => breaks'[i].original_word = breaks[i].original_word
        /\ breaks'[slot].original_word = OrigWord(a)
    BY <1>2, <1>3, <2>1, <2>2 DEF Breakpoint
  <2>5. \A i \in Slots : Used(i)' <=> Used(i)
    BY <2>4 DEF Used
  <2>6. \A i \in Slots : Used(i) =>
          /\ i = slot => Trap(i)'
          /\ i # slot => breaks[i].addr # a /\ (Trap(i)' <=> Trap(i))
    BY <1>1, <1>2, <1>4, <2>3, <2>4 DEF CarefulInv, TableInv, Trap
  <2>7. TableInv'
    BY <2>4, <2>5, TableKept DEF CarefulInv
  <2>8. TextInv'
    <3>1. ASSUME NEW o \in Off
          PROVE  mem'[o] = o \/ (mem'[o] = INT3 /\ \E i \in Slots : Used(i) /\ breaks[i].addr = o)
      BY <1>1, <1>2, <2>3 DEF CarefulInv, TextInv
    <3> QED BY <2>4, <2>5, <3>1 DEF TextInv
  <2>9. SavedInv'
    <3>1. ASSUME NEW i \in Slots, Used(i)
          PROVE  \/ breaks'[i].original_word = OrigWord(breaks[i].addr)
                 \/ slot' <= i /\ ~Trap(i)'
      <4>1. CASE i = slot
        BY <2>4, <4>1
      <4>2. CASE i # slot
        BY <1>2, <1>9, <2>4, <2>6, <3>1, <4>2 DEF CarefulInv, SavedInv
      <4> QED BY <4>1, <4>2
    <3> QED BY <1>7, <2>4, <2>5, <3>1 DEF SavedInv, OrigWord
  <2>10. ArmedInv'
    <3>1. ASSUME NEW i \in Slots, Used(i)
          PROVE  Trap(i)' \/ slot' <= i
      BY <1>1, <1>2, <1>9, <2>6, <3>1 DEF CarefulInv, ArmedInv
    <3> QED BY <1>7, <2>5, <3>1 DEF ArmedInv
  <2>11. RipInv'
    <3>1. \A i \in Slots : Used(i) /\ base + breaks[i].addr = rip' => ~Trap(i)'
      BY <1>5, <2>6
    <3> QED BY <1>7, <1>10, <2>4, <2>5, <3>1 DEF RipInv
  <2> QED BY <1>8, <2>7, <2>8, <2>9, <2>10, <2>11 DEF CarefulInv
<1> QED BY <1>11, <1>12

(* A patch that fails because the tracee is gone.                           *)
LEMMA PatchDeadKeeps ==
  ASSUME TypeOK, CarefulInv, pc = "patch", slot < MaxBreak, PatchFails,
         proc' \in {"zombie", "reaped"}, proc # "none",
         UNCHANGED <<base, event, path, eh, pid>>
  PROVE  CarefulInv'
<1>1. slot \in Slots /\ breaks \in [Slots -> Breakpoint]
  BY SlotFacts DEF TypeOK
<1>2. /\ breaks' = [breaks EXCEPT ![slot].original_word = Failed]
      /\ pc' \in {"resume", "prompt"}
  BY DEF PatchFails, PatchReturns
<1>3. TableInv'
  BY <1>1, <1>2, SaveKeeps, TableKept DEF CarefulInv, Used
<1>4. SessionInv' /\ ~Live'
  BY <1>2 DEF CarefulInv, SessionInv, Live
<1> QED BY <1>3, <1>4, DeadInv

(* sdb_patch_all_bp.                                                        *)
LEMMA PatchLoopKeeps ==
  ASSUME TypeOK, CarefulInv, Patch
  PROVE  CarefulInv'
<1> USE DEF traceeVars, fileVars, viewVars
<1>1. ASSUME pc = "patch", UNCHANGED <<traceeVars, path, eh, pid, breaks>>,
             \/ slot = MaxBreak /\ pc' \in {"resume", "prompt"}
             \/ slot < MaxBreak /\ ~Used(slot) /\ slot' = slot + 1 /\ pc' = "patch"
      PROVE  CarefulInv'
  <2>1. \A i \in Slots : (Used(i)' <=> Used(i)) /\ (Trap(i)' <=> Trap(i))
    BY <1>1 DEF Used, Trap
  <2>2. TableInv'
    BY <1>1, <2>1, TableKept DEF CarefulInv
  <2>3. SessionInv'
    BY <1>1 DEF CarefulInv, SessionInv, Live
  <2>4. TextInv'
    BY <1>1, <2>1 DEF CarefulInv, TextInv, Live
  <2>5. \A i \in Slots : Used(i) /\ slot <= i => pc' = "patch" /\ slot' <= i
    <3>1. CASE slot = MaxBreak
      <4>1. \A i \in Slots : i < MaxBreak /\ i \in Nat
        BY SizeFacts
      <4>2. MaxBreak \in Nat
        BY SizeFacts
      <4> QED BY <3>1, <4>1, <4>2
    <3>2. CASE slot # MaxBreak
      <4>1. slot \in 0 .. MaxBreak
        BY DEF TypeOK
      <4>2. slot \in Nat /\ \A i \in Slots : i \in Nat
        BY <4>1, SizeFacts
      <4>3. slot' = slot + 1 /\ pc' = "patch" /\ ~Used(slot)
        BY <1>1, <3>2
      <4>4. ASSUME NEW i \in Slots, Used(i), slot <= i PROVE slot' <= i
        <5>1. i # slot
          BY <4>3, <4>4
        <5> QED BY <4>2, <4>3, <4>4, <5>1
      <4> QED BY <4>3, <4>4
    <3> QED BY <3>1, <3>2
  <2>6. SavedInv'
    BY <1>1, <2>1, <2>5 DEF CarefulInv, SavedInv, Live, OrigWord
  <2>7. ArmedInv'
    BY <1>1, <2>1, <2>5 DEF CarefulInv, ArmedInv, Live
  <2>8. RipInv'
    BY <1>1, <2>1 DEF CarefulInv, RipInv, Live
  <2> QED BY <2>2, <2>3, <2>4, <2>6, <2>7, <2>8 DEF CarefulInv
<1>2. CASE PatchDone
  BY <1>1, <1>2 DEF PatchDone, PatchReturns
<1>3. CASE PatchUnused
  BY <1>1, <1>3 DEF PatchUnused
<1>4. CASE PatchCrash
  BY <1>4, QuitInv DEF PatchCrash
<1>5. CASE PatchSlot
  <2>1. /\ Patchable /\ proc = "stopped" /\ proc' = "stopped" /\ PatchWord(BpAddr(slot))
        /\ UNCHANGED <<base, event, path, eh, pid>> /\ rip' = rip /\ rip # BpAddr(slot)
    BY <1>5 DEF PatchSlot
  <2>2. pc = "patch"
    BY <2>1 DEF Patchable
  <2>3. ~event
    BY <2>2 DEF CarefulInv, SessionInv
  <2>4. rip - base \in Insn /\ \A i \in Slots : Used(i) /\ base + breaks[i].addr = rip => ~Trap(i)
    BY <2>1, <2>2, <2>3 DEF CarefulInv, RipInv, Live
  <2> QED BY <2>1, <2>4, PatchKeeps
<1>6. ASSUME NEW x \in StepOutcomes, PatchStepOff(x) PROVE CarefulInv'
  <2>1. /\ Patchable /\ proc = "stopped" /\ rip = BpAddr(slot) /\ rip' = x.rip
        /\ UNCHANGED <<base, event, path, eh, pid>>
        /\ proc' = IF x.kind = "exit" THEN "reaped" ELSE "stopped"
        /\ IF x.kind = "exit" THEN PatchFails ELSE PatchWord(BpAddr(slot))
    BY <1>6 DEF PatchStepOff, SingleStep
  <2>2. pc = "patch" /\ slot < MaxBreak /\ Used(slot) /\ slot \in Slots /\ Live
    BY <2>1, SlotFacts DEF Patchable, TypeOK, Live
  <2>3. CASE x.kind = "exit"
    BY <2>1, <2>2, <2>3, PatchDeadKeeps
  <2>4. CASE x.kind # "exit"
    <3> DEFINE a == breaks[slot].addr
    <3>1. a \in BreakArgs /\ a \in Nat /\ base \in Nat
      BY <2>2, UsedPoint, PointFacts DEF CarefulInv, TypeOK, TraceeTypeOK
    <3>2. rip = base + a
      BY <2>1, <2>2, PointAddr DEF CarefulInv
    <3>3. rip - base = a
      BY <3>1, <3>2
    <3>4. mem[rip - base] # INT3 /\ ~event
      BY <2>1, <2>2, NotOnTrap
    <3>5. x.rip - base \in Succ[a] /\ x.rip - base \in Insn /\ base + (x.rip - base) = x.rip
      BY <2>2, <2>4, <3>3, <3>4, NextInsn
    <3>6. x.rip - base \notin BreakArgs
      BY <3>1, <3>5, PointFacts
    <3>7. ASSUME NEW i \in Slots, Used(i), base + breaks[i].addr = x.rip PROVE FALSE
      <4>1. breaks[i].addr \in BreakArgs /\ breaks[i].addr \in Nat
        BY <3>7, UsedPoint, PointFacts DEF CarefulInv
      <4>2. x.rip - base = breaks[i].addr
        BY <3>1, <3>7, <4>1
      <4> QED BY <3>6, <4>1, <4>2
    <3>8. x.rip # BpAddr(slot)
      BY <2>1, <2>2, <3>2, <3>7
    <3> QED BY <2>1, <2>4, <3>5, <3>7, <3>8, PatchKeeps
  <2> QED BY <2>3, <2>4
<1>7. CASE PatchDead
  BY <1>7, PatchDeadKeeps DEF PatchDead, Patchable
<1> QED BY <1>2, <1>3, <1>4, <1>5, <1>6, <1>7 DEF Patch

(* A step that takes one int3 away and leaves the tracee stopped: a         *)
(* breakpoint reached in cont, or one turn of sdb_disasm's restoring loop.  *)
LEMMA DisarmKeeps ==
  ASSUME TypeOK, CarefulInv, NEW n \in Slots, Used(n),
         proc = "stopped", proc' = "stopped", ~event',
         pc \in {"wait", "unpatch"}, pc' \in {"prompt", "unpatch"},
         mem' = [mem EXCEPT ![breaks[n].addr] = breaks[n].addr],
         UNCHANGED <<base, path, eh, pid, breaks>>,
         rip' - base \in Insn,
         \A i \in Slots : Used(i) /\ base + breaks[i].addr = rip' => i = n \/ ~Trap(i)
  PROVE  CarefulInv'
<1>1. Live /\ Live'
  BY DEF Live
<1>2. /\ mem'[breaks[n].addr] = breaks[n].addr /\ breaks[n].addr # INT3
      /\ \A i \in Slots : Used(i) /\ i # n => mem'[breaks[i].addr] = mem[breaks[i].addr]
      /\ \A o \in Off : mem'[o] = o
           \/ (mem'[o] = INT3 /\ \E i \in Slots : i # n /\ Used(i) /\ breaks[i].addr = o)
  <2> DEFINE a == breaks[n].addr
  <2>1. mem' = [mem EXCEPT ![a] = a] /\ n \in Slots /\ Used(n)
    OBVIOUS
  <2>2. /\ mem'[a] = a /\ a # INT3
        /\ \A i \in Slots : Used(i) /\ i # n =>
             breaks[i].addr # a /\ mem'[breaks[i].addr] = mem[breaks[i].addr]
        /\ \A o \in Off : mem'[o] = o
             \/ (mem'[o] = INT3 /\ \E i \in Slots : i # n /\ Used(i) /\ breaks[i].addr = o)
    BY <1>1, <2>1, DisarmFacts, Zenon
  <2> QED BY <2>2
<1>3. \A i \in Slots : (Used(i)' <=> Used(i)) /\ breaks'[i] = breaks[i]
  BY DEF Used
<1>4. SessionInv'
  BY <1>1 DEF CarefulInv, SessionInv
<1>5. TableInv'
  BY <1>3, TableKept DEF CarefulInv
<1>6. TextInv'
  BY <1>2, <1>3 DEF TextInv
<1>7. SavedInv'
  BY <1>1, <1>3 DEF CarefulInv, SavedInv, OrigWord
<1>8. ArmedInv'
  BY DEF ArmedInv
<1>9. RipInv'
  <2>1. \A i \in Slots : Used(i) /\ base + breaks[i].addr = rip' => ~Trap(i)'
    BY <1>2, <1>3 DEF Trap
  <2> QED BY <1>3, <2>1 DEF RipInv
<1> QED BY <1>4, <1>5, <1>6, <1>7, <1>8, <1>9 DEF CarefulInv

(* PTRACE_CONT: by then every breakpoint is armed.                          *)
LEMMA ResumeKeeps ==
  ASSUME TypeOK, CarefulInv, Resume
  PROVE  CarefulInv'
<1>1. /\ pc = "resume" /\ pc' = "wait" /\ ~event /\ proc # "running"
      /\ proc' = IF proc = "stopped" THEN "running" ELSE proc
      /\ UNCHANGED <<base, rip, mem, event, path, eh, pid, breaks>>
  BY DEF Resume, fileVars, CarefulInv, SessionInv
<1>2. Live' <=> Live
  BY <1>1 DEF Live
<1>3. \A i \in Slots : (Used(i)' <=> Used(i)) /\ (Trap(i)' <=> Trap(i))
  BY <1>1 DEF Used, Trap
<1>4. SessionInv'
  BY <1>1, <1>2 DEF CarefulInv, SessionInv
<1>5. TableInv'
  BY <1>1, <1>3, TableKept DEF CarefulInv
<1>6. TextInv'
  BY <1>1, <1>2, <1>3 DEF CarefulInv, TextInv
<1>7. SavedInv'
  BY <1>1, <1>2, <1>3 DEF CarefulInv, SavedInv, OrigWord
<1>8. ArmedInv'
  BY <1>1, <1>2, <1>3 DEF CarefulInv, ArmedInv
<1>9. RipInv'
  BY <1>1, <1>2, <1>3 DEF CarefulInv, RipInv
<1> QED BY <1>4, <1>5, <1>6, <1>7, <1>8, <1>9 DEF CarefulInv

(* The waitpid loop: the stop it sees is the trap of a breakpoint, and the  *)
(* saved word puts the program back.                                        *)
LEMMA WaitKeeps ==
  ASSUME TypeOK, CarefulInv, Wait
  PROVE  CarefulInv'
<1> USE DEF fileVars, viewVars
<1>1. ASSUME NEW n \in Slots, WaitHit(n) PROVE CarefulInv'
  <2> DEFINE a == breaks[n].addr
  <2>1. /\ pc = "wait" /\ pc' = "prompt" /\ proc = "stopped" /\ proc' = "stopped" /\ ~event'
        /\ Used(n) /\ BpAddr(n) = rip - 1 /\ rip' = rip - 1
        /\ mem' = Poke(BpAddr(n), breaks[n].original_word)
        /\ UNCHANGED <<base, path, eh, pid, breaks>>
    BY <1>1 DEF WaitHit, FirstHit, Hit
  <2>2. Live
    BY <2>1 DEF Live
  <2>3. a \in BreakArgs /\ a \in Nat /\ a \in Insn /\ base \in Nat
    BY <2>1, UsedPoint, PointFacts DEF CarefulInv, TypeOK, TraceeTypeOK
  <2>4. BpAddr(n) = base + a
    BY <2>2, PointAddr DEF CarefulInv
  <2>5. breaks[n].original_word = OrigWord(a)
    BY <2>1, <2>2 DEF CarefulInv, SavedInv
  <2>6. mem' = [mem EXCEPT ![a] = a]
    BY <2>1, <2>3, <2>4, <2>5, RestoreText DEF CarefulInv
  <2>7. rip' - base = a /\ rip' = base + a
    BY <2>1, <2>3, <2>4
  <2>8. ASSUME NEW i \in Slots, Used(i), base + breaks[i].addr = rip' PROVE i = n
    <3>1. breaks[i].addr \in Nat
      BY <2>8, UsedPoint, PointFacts DEF CarefulInv
    <3>2. breaks[i].addr = a
      BY <2>3, <2>7, <2>8, <3>1
    <3> QED BY <2>1, <2>8, <3>2 DEF CarefulInv, TableInv
  <2> QED BY <2>1, <2>3, <2>6, <2>7, <2>8, DisarmKeeps
<1>2. CASE WaitMiss
  <2>1. event /\ proc = "stopped" /\ \A i \in Slots : ~Hit(i)
    BY <1>2 DEF WaitMiss
  <2>2. PICK i \in Slots : Used(i) /\ base + breaks[i].addr = rip - 1
    BY <2>1 DEF CarefulInv, RipInv
  <2>3. BpAddr(i) = base + breaks[i].addr
    BY <2>1, PointAddr DEF CarefulInv, Live
  <2> QED BY <2>1, <2>2, <2>3 DEF Hit
<1>3. CASE WaitCrash
  BY <1>3, QuitInv DEF WaitCrash
<1>4. CASE WaitExit
  <2>1. SessionInv' /\ ~Live'
    BY <1>4 DEF WaitExit, CarefulInv, SessionInv, Live
  <2>2. TableInv'
    BY <1>4, TableKept DEF WaitExit, CarefulInv, Used
  <2> QED BY <2>1, <2>2, DeadInv
<1>5. CASE WaitGone
  <2>1. SessionInv' /\ ~Live'
    BY <1>5 DEF WaitGone, Forget, ClearText, CarefulInv, SessionInv, Live
  <2>2. TableInv'
    BY <1>5, TableKept DEF WaitGone, CarefulInv, Used
  <2> QED BY <2>1, <2>2, DeadInv
<1> QED BY <1>1, <1>2, <1>3, <1>4, <1>5 DEF Wait

(* The loops of sdb_disasm.  In a PIE the restoring loop writes to file     *)
(* addresses, which are not mapped.                                         *)
LEMMA DisasmLoopKeeps ==
  ASSUME TypeOK, CarefulInv, UnpatchSlot \/ UnpatchDone \/ ReadText
  PROVE  CarefulInv'
<1> USE DEF traceeVars, fileVars, viewVars
<1>1. ASSUME pc \in {"unpatch", "read"} PROVE pid # NoPid /\ ~event
  BY <1>1 DEF CarefulInv, SessionInv
<1>2. CASE UnpatchDone
  BY <1>1, <1>2, HeldInv DEF UnpatchDone
<1>3. CASE ReadText
  BY <1>1, <1>3, HeldInv DEF ReadText, Enter
<1>4. CASE UnpatchSlot
  <2> DEFINE a == breaks[slot].addr
  <2>1. /\ pc = "unpatch" /\ pc' = "unpatch" /\ slot < MaxBreak
        /\ UNCHANGED <<proc, base, rip, event, path, eh, pid, breaks>>
        /\ mem' = IF Used(slot) THEN Poke(a, breaks[slot].original_word) ELSE mem
    BY <1>4 DEF UnpatchSlot
  <2>2. slot \in Slots
    BY <2>1, SlotFacts DEF TypeOK
  <2>3. CASE mem' = mem
    BY <2>1, <2>3, HeldInv
  <2>4. CASE Used(slot) /\ proc = "stopped" /\ ElfType = 2
    <3>1. a \in BreakArgs /\ a \in Nat /\ base \in Nat /\ Live
      BY <2>2, <2>4, UsedPoint, PointFacts DEF CarefulInv, TypeOK, TraceeTypeOK, Live
    <3>2. base = 0
      BY <2>2, <2>4, <3>1, PointAddr DEF CarefulInv
    <3>3. base + a = a
      BY <3>1, <3>2
    <3>4. breaks[slot].original_word = OrigWord(a)
      BY <2>1, <2>2, <2>4, <3>1 DEF CarefulInv, SavedInv
    <3>5. mem' = [mem EXCEPT ![a] = a]
      BY <2>1, <2>4, <3>1, <3>3, <3>4, RestoreText DEF CarefulInv
    <3>6. ~event
      BY <1>1, <2>1
    <3>7. /\ rip - base \in Insn
          /\ \A i \in Slots : Used(i) /\ base + breaks[i].addr = rip => ~Trap(i)
      BY <2>1, <2>4, <3>1, <3>6 DEF CarefulInv, RipInv
    <3> QED BY <2>1, <2>2, <2>4, <3>5, <3>6, <3>7, DisarmKeeps
  <2>5. CASE Used(slot) /\ proc = "stopped" /\ ElfType = 3
    <3>1. a \in BreakArgs /\ a \in Nat /\ a < TextSize
      BY <2>2, <2>5, UsedPoint, PointFacts DEF CarefulInv
    <3>2. base \in Bases
      BY <2>5 DEF CarefulInv, SessionInv, Live
    <3>3. TextSize <= base /\ base \in Nat /\ TextSize \in Nat
      BY <2>5, <3>2, CarefulAssumption, LayoutAssumption
    <3>4. ~(base <= a)
      BY <3>1, <3>3
    <3>5. mem' = mem
      BY <2>1, <2>5, <3>4 DEF Poke, Accessible, WordMapped
    <3> QED BY <2>3, <3>5
  <2>6. CASE ~Used(slot)
    BY <2>1, <2>3, <2>6
  <2>7. CASE proc # "stopped"
    <3>1. mem' = mem
      BY <2>1, <2>7 DEF Poke, Accessible
    <3> QED BY <2>3, <3>1
  <2> QED BY <2>4, <2>5, <2>6, <2>7, SdbAssumption
<1> QED BY <1>2, <1>3, <1>4

(* The tracee by itself: it runs the program's instructions, and the only   *)
(* int3 it meets is that of a breakpoint in use.                            *)
LEMMA RunsKeeps ==
  ASSUME TypeOK, CarefulInv, Runs \/ Disturbed
  PROVE  CarefulInv'
<1> USE DEF debuggerVars, fileVars, viewVars
<1>1. UNCHANGED <<pc, slot, path, eh, pid, breaks>>
  BY DEF Runs, Disturbed
<1>2. \A i \in Slots : (Used(i)' <=> Used(i)) /\ breaks'[i] = breaks[i]
  BY <1>1 DEF Used
<1>3. TableInv'
  BY <1>2, TableKept DEF CarefulInv
<1>4. CASE Disturbed
  <2>1. Killed
    BY <1>4, CarefulAssumption DEF Disturbed, Signalled
  <2>2. SessionInv' /\ ~Live'
    BY <1>1, <2>1 DEF Killed, ClearText, CarefulInv, SessionInv, Live
  <2> QED BY <1>3, <2>2, DeadInv
<1>5. ASSUME NEW x \in Outcomes, Execute(x) PROVE CarefulInv'
  <2> DEFINE o == rip - base
  <2>1. /\ proc = "running" /\ rip' = x.rip /\ UNCHANGED <<base, mem>>
        /\ \/ x.kind = "ran" /\ UNCHANGED <<proc, event>>
           \/ x.kind = "exit" /\ proc' = "zombie" /\ UNCHANGED event
           \/ x.kind \in {"trap", "stop"} /\ proc' = "stopped" /\ event' = TRUE
    BY <1>5 DEF Execute
  <2>2. Live /\ pc = "wait" /\ ~event
    BY <2>1 DEF CarefulInv, SessionInv, Live
  <2>3. o \in Insn /\ base \in Nat /\ rip \in Nat
    BY <2>2 DEF CarefulInv, RipInv, TypeOK, TraceeTypeOK
  <2>4. o \in Off /\ o \in Nat /\ base + o = rip /\ o # INT3
    BY <2>3, InsnFacts, OffFacts
  <2>5. \A i \in Slots : Trap(i)' <=> Trap(i)
    BY <1>2, <2>1 DEF Trap
  <2>6. ASSUME Live', pc' = "wait", event' => proc' = "stopped",
               \/ proc' = "running" /\ ~event' /\ x.rip - base \in Insn
               \/ event' /\ \E i \in Slots : Used(i) /\ base + breaks[i].addr = x.rip - 1
        PROVE  CarefulInv'
    <3>1. SessionInv'
      BY <1>1, <2>1, <2>2, <2>6 DEF CarefulInv, SessionInv
    <3>2. TextInv'
      BY <1>2, <2>1, <2>2 DEF CarefulInv, TextInv
    <3>3. SavedInv'
      BY <1>1, <1>2, <2>2, <2>5 DEF CarefulInv, SavedInv, OrigWord
    <3>4. ArmedInv'
      BY <1>1, <1>2, <2>2, <2>5 DEF CarefulInv, ArmedInv
    <3>5. RipInv'
      BY <1>2, <2>1, <2>6 DEF RipInv
    <3> QED BY <1>3, <3>1, <3>2, <3>3, <3>4, <3>5 DEF CarefulInv
  <2>7. CASE mem[o] = INT3
    <3>1. PICK i \in Slots : Used(i) /\ breaks[i].addr = o
      BY <2>2, <2>4, <2>7 DEF CarefulInv, TextInv
    <3>2. AtInt3
      BY <2>4, <2>7 DEF AtInt3
    <3>3. x.kind = "trap" /\ x.rip = rip + 1
      BY <3>2 DEF Outcomes
    <3>4. base + breaks[i].addr = x.rip - 1
      BY <2>3, <2>4, <3>1, <3>3
    <3>5. proc' = "stopped" /\ event'
      BY <2>1, <3>3
    <3> QED BY <1>1, <2>2, <2>6, <3>1, <3>4, <3>5 DEF Live
  <2>8. CASE mem[o] # INT3
    <3>1. x \in StepOutcomes
      BY <1>5 DEF StepOutcomes
    <3>2. x.kind = "exit" \/ (x.kind = "ran" /\ x.rip - base \in Insn)
      BY <2>2, <2>8, <3>1, NextInsn
    <3>3. CASE x.kind = "exit"
      <4>1. proc' = "zombie" /\ ~event'
        BY <2>1, <2>2, <3>3
      <4>2. SessionInv' /\ ~Live'
        BY <1>1, <2>1, <4>1 DEF CarefulInv, SessionInv, Live
      <4> QED BY <1>3, <4>2, DeadInv
    <3>4. CASE x.kind = "ran" /\ x.rip - base \in Insn
      <4>1. proc' = "running" /\ ~event'
        BY <2>1, <2>2, <3>4
      <4> QED BY <1>1, <2>2, <2>6, <3>4, <4>1 DEF Live
    <3> QED BY <3>2, <3>3, <3>4
  <2> QED BY <2>7, <2>8
<1> QED BY <1>4, <1>5 DEF Runs

-----------------------------------------------------------------------------
(* The theorems.                                                            *)

(* Every careful session, of any program and with any table size, keeps the *)
(* saved words, the armed slots and the position of the tracee consistent.  *)
THEOREM CarefulInvariant == CarefulSpec => []CarefulInv
<1>1. Init => CarefulInv
  <2>1. ASSUME Init PROVE SessionInv /\ ~Live
    <3>1. proc = "none" /\ pid = NoPid /\ path = "" /\ pc = "prompt" /\ ~event
      BY <2>1 DEF Init
    <3> QED BY <3>1 DEF SessionInv, Live
  <2>2. ASSUME Init PROVE TableInv
    <3>1. breaks = [i \in Slots |-> [is_used |-> 0, addr |-> 0, original_word |-> Failed]]
      BY <2>2, Zenon DEF Init
    <3>2. \A i \in Slots : ~Used(i)
      BY <3>1 DEF Used
    <3> QED BY <3>2 DEF TableInv
  <2>3. ASSUME Init PROVE TextInv /\ SavedInv /\ ArmedInv /\ RipInv
    BY <2>1, <2>3 DEF TextInv, SavedInv, ArmedInv, RipInv, SessionInv, Init, Live
  <2> QED BY <2>1, <2>2, <2>3 DEF CarefulInv
<1>2. ASSUME TypeOK, CarefulInv, [CarefulNext]_vars PROVE CarefulInv'
  <2>1. CASE UNCHANGED vars
    <3>1. UNCHANGED <<proc, base, rip, mem, event, pc, slot, path, eh, pid, breaks>>
      BY <2>1 DEF vars, traceeVars, fileVars, viewVars
    <3>2. \A i \in Slots : (Used(i)' <=> Used(i)) /\ (Trap(i)' <=> Trap(i))
      BY <3>1 DEF Used, Trap
    <3>3. (Live' <=> Live) /\ SessionInv'
      BY <1>2, <3>1 DEF Live, CarefulInv, SessionInv
    <3>4. TableInv'
      BY <1>2, <3>1, <3>2, TableKept DEF CarefulInv
    <3>5. TextInv'
      BY <1>2, <3>1, <3>2, <3>3 DEF CarefulInv, TextInv
    <3>6. SavedInv'
      BY <1>2, <3>1, <3>2, <3>3 DEF CarefulInv, SavedInv, OrigWord
    <3>7. ArmedInv'
      BY <1>2, <3>1, <3>2, <3>3 DEF CarefulInv, ArmedInv
    <3>8. RipInv'
      BY <1>2, <3>1, <3>2, <3>3 DEF CarefulInv, RipInv
    <3> QED BY <3>3, <3>4, <3>5, <3>6, <3>7, <3>8 DEF CarefulInv
  <2>2. CASE CarefulUser
    BY <1>2, <2>2, LoadKeeps, SteerKeeps, BreakKeeps, DeleteKeeps, LookKeeps DEF CarefulUser
  <2>3. CASE Debugger
    BY <1>2, <2>3, PatchLoopKeeps, ResumeKeeps, WaitKeeps, DisasmLoopKeeps DEF Debugger
  <2>4. CASE Runs \/ Disturbed
    BY <1>2, <2>4, RunsKeeps
  <2>5. CASE Over
    BY <2>1, <2>5 DEF Over
  <2> QED BY <1>2, <2>1, <2>2, <2>3, <2>4, <2>5 DEF CarefulNext
<1> QED BY <1>1, <1>2, CarefulTypeCorrect, PTL DEF CarefulSpec

(* No breakpoint the debugger sets and takes away changes the program: its  *)
(* text is as loaded, but for an int3 at each breakpoint in use.            *)
THEOREM CodeStaysIntact == CarefulSpec => []CodeIntact
<1>1. ASSUME TypeOK, CarefulInv PROVE CodeIntact
  <2>1. ASSUME Live, NEW o \in Off, NEW i \in Slots, Used(i), breaks[i].addr = o
        PROVE  BpAddr(i) = base + o
    BY <1>1, <2>1, PointAddr DEF CarefulInv
  <2> QED BY <1>1, <2>1 DEF CodeIntact, CarefulInv, TextInv
<1> QED BY <1>1, CarefulTypeCorrect, CarefulInvariant, PTL

(* No running tracee can pass a breakpoint unseen.                          *)
THEOREM NothingUnarmed == CarefulSpec => []AllArmed
<1>1. ASSUME TypeOK, CarefulInv PROVE AllArmed
  <2>1. ASSUME proc = "running", NEW i \in Slots, Used(i) PROVE Armed(i)
    <3>1. Live /\ Trap(i)
      BY <1>1, <2>1 DEF CarefulInv, SessionInv, ArmedInv, Live
    <3>2. breaks[i].addr \in Nat /\ breaks[i].addr \in Off /\ base \in Nat
      BY <1>1, <2>1, UsedPoint, PointFacts DEF CarefulInv, TypeOK, TraceeTypeOK
    <3>3. BpAddr(i) = base + breaks[i].addr
      BY <1>1, <3>1, PointAddr DEF CarefulInv
    <3>4. BpAddr(i) - base = breaks[i].addr
      BY <3>2, <3>3
    <3> QED BY <3>1, <3>2, <3>4 DEF Armed, Trap
  <2> QED BY <2>1 DEF AllArmed
<1> QED BY <1>1, CarefulTypeCorrect, CarefulInvariant, PTL

(* The tracee never leaves the instructions of the program: no trap, single *)
(* step or correction of rip puts it in the middle of one.                  *)
THEOREM StaysOnTrack == CarefulSpec => []TraceeOnTrack
<1>1. CarefulInv => TraceeOnTrack
  BY DEF CarefulInv, RipInv, TraceeOnTrack
<1> QED BY <1>1, CarefulInvariant, PTL

(* The only way to a prompt after cont or run with a tracee alive is the    *)
(* stop that waitpid has just reported.                                     *)
LEMMA PromptAfterHit ==
  ASSUME TypeOK, CarefulInv, CarefulNext,
         pc' = "prompt", command' \in {"cont", "run"}, proc' = "stopped"
  PROVE  (\E i \in Slots : WaitHit(i)) \/ UNCHANGED vars
<1> USE DEF traceeVars, fileVars, viewVars, Prompt
<1>1. /\ pid = NoPid => proc = "none"
      /\ path = "" => pid = NoPid
      /\ proc = "running" => pc = "wait"
  BY PidFact DEF CarefulInv, SessionInv
<1>2. CASE CarefulLoad
  BY <1>2 DEF CarefulLoad, LoadUnopened, LoadUnloaded, LoadUnnamed, LoadProgram
<1>3. CASE Start \/ Run \/ Cont
  BY <1>3 DEF Start, Run, Cont, ForkFails, Forget, Launch, Enter
<1>4. CASE (\E x \in StepOutcomes : CarefulStep(x)) \/ (\E a \in RipArgs : CarefulSetRip(a))
  BY <1>4 DEF CarefulStep, CarefulSetRip, Step, SetRip
<1>5. CASE (\E a \in BreakArgs : CarefulBreak(a)) \/ (\E i \in Slots : CarefulDelete(i))
  BY <1>5 DEF CarefulBreak, CarefulDelete, Break, Delete
<1>6. CASE UserLooks
  <2>1. ASSUME NEW x, Disasm(x) PROVE FALSE
    BY <2>1 DEF Disasm
  <2>2. CASE VmmapCrash \/ Exit \/ Shows
    BY <2>2 DEF VmmapCrash, Exit, Quit, Shows, Get, Getregs, Dump, List, Vmmap, Help, SetOther,
                Prints
  <2>3. ASSUME NEW c \in Commands, Refused(c) PROVE FALSE
    <3>1. c \in {"cont", "run"} /\ proc = "stopped"
      BY <2>3 DEF Refused, Prints
    <3> QED BY <1>1, <2>3, <3>1 DEF Refused, sdb_is_loaded, sdb_is_running
  <2> QED BY <1>6, <2>1, <2>2, <2>3 DEF UserLooks, DisasmNext
<1>7. CASE Patch
  <2>1. ASSUME PatchReturns, command' = command PROVE FALSE
    BY <2>1 DEF PatchReturns
  <2>2. CASE PatchDone \/ PatchUnused \/ PatchCrash \/ PatchDead
    BY <2>1, <2>2 DEF PatchDone, PatchUnused, PatchCrash, PatchDead, Quit, PatchFails, Patchable
  <2>3. ASSUME NEW a, PatchWord(a), command' = command, pc = "patch" PROVE FALSE
    BY <2>1, <2>3 DEF PatchWord, PatchFails
  <2>4. CASE PatchSlot
    BY <2>3, <2>4 DEF PatchSlot, Patchable
  <2>5. ASSUME NEW x \in StepOutcomes, PatchStepOff(x) PROVE FALSE
    BY <2>1, <2>3, <2>5 DEF PatchStepOff, PatchFails, Patchable
  <2> QED BY <1>7, <2>2, <2>4, <2>5 DEF Patch
<1>8. CASE Wait
  BY <1>8 DEF Wait, WaitMiss, WaitCrash, WaitExit, WaitGone, Forget, Quit
<1>9. CASE Resume \/ UnpatchSlot \/ UnpatchDone \/ ReadText
  BY <1>9 DEF Resume, UnpatchSlot, UnpatchDone, ReadText, Enter
<1>10. CASE Runs \/ Disturbed
  BY <1>1, <1>10, CarefulAssumption DEF Runs, Disturbed, Execute, Signalled, Killed, debuggerVars
<1>11. CASE Over
  BY <1>11 DEF Over
<1> QED BY <1>2, <1>3, <1>4, <1>5, <1>6, <1>7, <1>8, <1>9, <1>10, <1>11
        DEF CarefulNext, CarefulUser, Debugger

(* A cont or run of a careful session that comes back with the tracee alive *)
(* has it on a breakpoint in use, before the instruction there, restored.   *)
THEOREM StopsWhereAsked == CarefulSpec => []StopsOnBreakpoint
<1>1. Init => StopsOnBreakpoint
  BY DEF Init, StopsOnBreakpoint
<1>2. ASSUME TypeOK, CarefulInv, StopsOnBreakpoint, [CarefulNext]_vars
      PROVE  StopsOnBreakpoint'
  <2>1. CASE UNCHANGED vars
    BY <1>2, <2>1 DEF vars, traceeVars, fileVars, StopsOnBreakpoint, Used, BpAddr,
                      convert_dynamic_addr, Armed
  <2>2. ASSUME NEW n \in Slots, WaitHit(n) PROVE StopsOnBreakpoint'
    <3> DEFINE a == breaks[n].addr
    <3>1. /\ proc = "stopped" /\ pc = "wait" /\ Used(n) /\ BpAddr(n) = rip - 1 /\ rip' = rip - 1
          /\ mem' = Poke(BpAddr(n), breaks[n].original_word)
          /\ UNCHANGED <<base, eh, breaks>>
      BY <2>2 DEF WaitHit, FirstHit, Hit, fileVars
    <3>2. Live
      BY <3>1 DEF Live
    <3>3. a \in BreakArgs /\ a \in Nat /\ a \in Off /\ base \in Nat
      BY <1>2, <3>1, UsedPoint, PointFacts DEF CarefulInv, TypeOK, TraceeTypeOK
    <3>4. BpAddr(n) = base + a
      BY <1>2, <3>2, PointAddr DEF CarefulInv
    <3>5. breaks[n].original_word = OrigWord(a)
      BY <1>2, <3>1, <3>2 DEF CarefulInv, SavedInv
    <3>6. mem' = [mem EXCEPT ![a] = a]
      BY <1>2, <3>1, <3>3, <3>4, <3>5, RestoreText DEF CarefulInv
    <3>7. Used(n)' /\ BpAddr(n)' = BpAddr(n) /\ BpAddr(n)' = rip'
      BY <3>1 DEF Used, BpAddr, convert_dynamic_addr
    <3>8. mem'[a] = a /\ a # INT3
      BY <1>2, <3>3, <3>6, OffFacts DEF TypeOK, TraceeTypeOK
    <3>9. BpAddr(n)' - base' = a
      BY <3>1, <3>3, <3>4, <3>7
    <3>10. ~Armed(n)'
      BY <3>8, <3>9 DEF Armed
    <3> QED BY <3>7, <3>10 DEF StopsOnBreakpoint
  <2>3. CASE CarefulNext
    <3>1. CASE pc' = "prompt" /\ command' \in {"cont", "run"} /\ proc' = "stopped"
      BY <1>2, <2>1, <2>2, <2>3, <3>1, PromptAfterHit
    <3> QED BY <3>1 DEF StopsOnBreakpoint
  <2> QED BY <1>2, <2>1, <2>3
<1> QED BY <1>1, <1>2, CarefulTypeCorrect, CarefulInvariant, PTL DEF CarefulSpec

-----------------------------------------------------------------------------
(* disasm of a running program.                                             *)

(* Only disasm itself enters or advances its loops, and only the reading    *)
(* loop displays text.                                                      *)
LEMMA OnlyDisasmShows ==
  ASSUME CarefulNext, ~UnpatchSlot, ~UnpatchDone, ~ReadText, TypeOK, CarefulInv
  PROVE  /\ shown' = shown
         /\ pc' # "read" \/ proc' # "stopped" \/ UNCHANGED vars
         /\ pc' # "unpatch" \/ slot' = 0 \/ proc' # "stopped" \/ UNCHANGED vars
<1> USE DEF traceeVars, fileVars, viewVars, Prompt
<1>1. CASE CarefulLoad
  BY <1>1 DEF CarefulLoad, LoadUnopened, LoadUnloaded, LoadUnnamed, LoadProgram
<1>2. CASE Start \/ Run \/ Cont
  BY <1>2 DEF Start, Run, Cont, ForkFails, Launch, Enter
<1>3. CASE (\E x \in StepOutcomes : CarefulStep(x)) \/ (\E a \in RipArgs : CarefulSetRip(a))
  BY <1>3 DEF CarefulStep, CarefulSetRip, Step, SetRip
<1>4. CASE (\E a \in BreakArgs : CarefulBreak(a)) \/ (\E i \in Slots : CarefulDelete(i))
  BY <1>4 DEF CarefulBreak, CarefulDelete, Break, Delete, Enter
<1>5. CASE UserLooks
  <2>1. ASSUME NEW a, Disasm(a)
        PROVE  shown' = shown /\ pc' # "read" /\ (pc' = "unpatch" => slot' = 0)
    BY <2>1 DEF Disasm, DisasmFile, DisasmCrash, DisasmLive, Quit, Enter
  <2>2. CASE VmmapCrash \/ Exit
    BY <2>2 DEF VmmapCrash, Exit, Quit
  <2>3. ASSUME NEW c \in Commands, Prints(c) PROVE shown' = shown /\ pc' = "prompt"
    BY <2>3 DEF Prints
  <2>4. CASE Shows \/ \E c \in Commands : Refused(c)
    BY <2>3, <2>4, OnlyPrints
  <2> QED BY <1>5, <2>1, <2>2, <2>4 DEF UserLooks, DisasmNext
<1>6. CASE Patch
  <2>1. ASSUME NEW a, PatchWord(a), pc = "patch" PROVE pc' \notin {"read", "unpatch"}
    BY <2>1 DEF PatchWord, PatchFails, PatchReturns
  <2>2. CASE PatchDone \/ PatchUnused \/ PatchCrash \/ PatchDead
    BY <2>2 DEF PatchDone, PatchUnused, PatchCrash, PatchDead, Quit, PatchFails, PatchReturns
  <2>3. CASE PatchSlot
    BY <2>1, <2>3 DEF PatchSlot, Patchable
  <2>4. ASSUME NEW x \in StepOutcomes, PatchStepOff(x)
        PROVE  shown' = shown /\ pc' \notin {"read", "unpatch"}
    BY <2>1, <2>4 DEF PatchStepOff, PatchFails, PatchReturns, Patchable
  <2> QED BY <1>6, <2>2, <2>3, <2>4 DEF Patch
<1>7. CASE Resume \/ Wait
  BY <1>7 DEF Resume, Wait, WaitHit, WaitMiss, WaitCrash, WaitExit, WaitGone, Quit
<1>8. CASE Runs \/ Disturbed
  <2>1. shown' = shown /\ pc' = pc
    BY <1>8 DEF Runs, Disturbed, debuggerVars
  <2>2. proc = "running" => pc = "wait"
    BY DEF CarefulInv, SessionInv
  <2> QED BY <1>8, <2>1, <2>2 DEF Runs, Disturbed, Execute, Signalled, Killed
<1>9. CASE Over
  BY <1>9 DEF Over, vars
<1> QED BY <1>1, <1>2, <1>3, <1>4, <1>5, <1>6, <1>7, <1>8, <1>9
        DEF CarefulNext, CarefulUser, Debugger

(* One turn of the restoring loop disarms its slot and arms no other.       *)
LEMMA UnpatchDisarms ==
  ASSUME ElfType = 2, TypeOK, CarefulInv, ViewInv, UnpatchSlot
  PROVE  ViewInv'
<1> DEFINE a == breaks[slot].addr
<1>1. /\ pc = "unpatch" /\ pc' = "unpatch" /\ slot < MaxBreak /\ slot' = slot + 1
      /\ UNCHANGED <<proc, base, breaks, shown>>
      /\ mem' = IF Used(slot) THEN Poke(a, breaks[slot].original_word) ELSE mem
  BY DEF UnpatchSlot, viewVars
<1>2. slot \in Slots /\ slot \in Nat
  <2>1. slot \in Slots
    BY <1>1, SlotFacts DEF TypeOK
  <2> QED BY <2>1 DEF Slots
<1>3. \A i \in Slots : i < slot' => i < slot \/ i = slot
  BY <1>1, <1>2 DEF Slots
<1>4. \A i \in Slots : (Used(i)' <=> Used(i)) /\ breaks'[i] = breaks[i]
  BY <1>1 DEF Used
<1>5. ASSUME proc = "stopped", NEW i \in Slots, Used(i), i < slot' PROVE ~Trap(i)'
  <2>1. CASE ~Used(slot)
    <3>1. i < slot /\ mem' = mem
      BY <1>1, <1>3, <1>5, <2>1
    <3> QED BY <1>1, <1>4, <1>5, <3>1 DEF ViewInv, Trap
  <2>2. CASE Used(slot)
    <3>1. a \in BreakArgs /\ a \in Nat /\ base \in Nat /\ Live
      BY <1>2, <1>5, <2>2, UsedPoint, PointFacts DEF CarefulInv, TypeOK, TraceeTypeOK, Live
    <3>2. base = 0
      BY <1>2, <2>2, <3>1, PointAddr DEF CarefulInv
    <3>3. base + a = a
      BY <3>1, <3>2
    <3>4. breaks[slot].original_word = OrigWord(a)
      BY <1>1, <1>2, <2>2, <3>1 DEF CarefulInv, SavedInv
    <3>5. mem' = [mem EXCEPT ![a] = a]
      BY <1>1, <1>5, <2>2, <3>1, <3>3, <3>4, RestoreText DEF CarefulInv
    <3>6. a \in Off /\ breaks[i].addr \in Off /\ mem \in [Off -> Byte]
      BY <1>2, <1>5, <2>2, UsedPoint, PointFacts DEF CarefulInv, TypeOK, TraceeTypeOK
    <3>7. CASE breaks[i].addr = a
      <4>1. mem'[a] = a /\ a # INT3
        BY <3>5, <3>6, OffFacts
      <4> QED BY <1>4, <3>7, <4>1 DEF Trap
    <3>8. CASE breaks[i].addr # a
      <4>1. i < slot
        BY <1>3, <1>5, <3>8
      <4>2. ~Trap(i)
        BY <1>1, <1>5, <4>1 DEF ViewInv
      <4>3. mem'[breaks[i].addr] = mem[breaks[i].addr]
        BY <3>5, <3>6, <3>8
      <4> QED BY <1>4, <4>2, <4>3 DEF Trap
    <3> QED BY <3>7, <3>8
  <2> QED BY <2>1, <2>2
<1> QED BY <1>1, <1>4, <1>5 DEF ViewInv

(* The text read after the restoring loop is the program's.                 *)
LEMMA ReadsClean ==
  ASSUME TypeOK, CarefulInv, ViewInv, ReadText
  PROVE  ViewInv'
<1> DEFINE seen == Readable(last_disasm_addr)
<1>1. pc = "read" /\ pc' = "patch" /\ shown' = {o \in seen : mem[o] # o}
  BY DEF ReadText, Enter
<1>2. ASSUME NEW o \in seen PROVE mem[o] = o
  <2>1. o \in Off /\ proc = "stopped"
    <3>1. PICK k \in 0 .. DisasmWords - 1 :
             \A j \in 0 .. k : Accessible(last_disasm_addr + j * WordSize)
      BY <1>2 DEF Readable
    <3>2. 0 \in 0 .. k
      BY <3>1, SdbAssumption
    <3>3. Accessible(last_disasm_addr + 0 * WordSize)
      BY <3>1, <3>2
    <3> QED BY <1>2, <3>3 DEF Readable, Accessible
  <2>2. \A i \in Slots : Used(i) => ~Trap(i)
    BY <1>1, <2>1 DEF ViewInv
  <2> QED BY <2>1, <2>2 DEF CarefulInv, TextInv, Trap, Live
<1> QED BY <1>1, <1>2 DEF ViewInv

(* disasm of a statically linked program never shows an int3 in place of    *)
(* the program's byte: the restoring loop and the re-arming one agree on    *)
(* the addresses.  In a PIE they do not: sdb.h:555 uses bp->addr as typed.  *)
THEOREM DisasmIsFaithful ==
  ASSUME ElfType = 2
  PROVE  CarefulSpec => []DisasmShowsProgram
<1>1. Init => ViewInv
  BY DEF Init, ViewInv
<1>2. ASSUME TypeOK, CarefulInv, ViewInv, [CarefulNext]_vars PROVE ViewInv'
  <2>1. CASE UNCHANGED vars
    BY <1>2, <2>1 DEF vars, traceeVars, viewVars, ViewInv, Used, Trap
  <2>2. CASE UnpatchSlot
    BY <1>2, <2>2, UnpatchDisarms
  <2>3. CASE UnpatchDone
    <3>1. /\ pc = "unpatch" /\ slot = MaxBreak /\ pc' = "read"
          /\ UNCHANGED <<proc, mem, breaks, shown>>
      BY <2>3 DEF UnpatchDone, traceeVars, viewVars
    <3>2. \A i \in Slots : i < slot
      BY <3>1, SdbAssumption DEF Slots
    <3> QED BY <1>2, <3>1, <3>2 DEF ViewInv, Used, Trap
  <2>4. CASE ReadText
    BY <1>2, <2>4, ReadsClean
  <2>5. CASE CarefulNext /\ ~UnpatchSlot /\ ~UnpatchDone /\ ~ReadText
    <3>1. \A i \in Slots : ~(i < 0)
      BY SdbAssumption DEF Slots
    <3> QED BY <1>2, <2>1, <2>5, <3>1, OnlyDisasmShows DEF ViewInv
  <2> QED BY <1>2, <2>1, <2>2, <2>3, <2>4, <2>5
<1>3. ViewInv => DisasmShowsProgram
  BY DEF ViewInv, DisasmShowsProgram
<1> QED BY <1>1, <1>2, <1>3, CarefulTypeCorrect, CarefulInvariant, PTL DEF CarefulSpec

-----------------------------------------------------------------------------
(* Where start stops.                                                       *)

(* One of the first n slots has the entry point.                            *)
EntryTaken(n) == \E i \in Slots : i < n /\ Used(i) /\ breaks[i].addr = Entry

(* After execve the tracee is at its entry point until the patch loop has   *)
(* come to a breakpoint there, and then at the next instruction.            *)
StartInv ==
  command = "start" /\ proc = "stopped" =>
    /\ pc \in {"patch", "prompt"}
    /\ IF EntryTaken(IF pc = "patch" THEN slot ELSE MaxBreak)
         THEN rip - base \in Succ[Entry] ELSE rip - base = Entry

(* Only start, the patch loop after it and an end of the tracee concern     *)
(* StartInv.                                                                *)
LEMMA StartOrElse ==
  ASSUME TypeOK, CarefulInv, CarefulNext, ~Start, ~Patch, command' = "start", proc' = "stopped",
         StartInv, RunsOnlyInWait
  PROVE  UNCHANGED vars
<1> USE DEF traceeVars, fileVars, viewVars, Prompt
<1>1. /\ pid = NoPid => proc = "none"
      /\ path = "" => pid = NoPid
      /\ proc = "running" => pc = "wait"
  BY PidFact DEF CarefulInv, SessionInv
<1>2. CASE CarefulLoad
  BY <1>2 DEF CarefulLoad, LoadUnopened, LoadUnloaded, LoadUnnamed, LoadProgram
<1>3. CASE Run \/ Cont
  BY <1>3 DEF Run, Cont
<1>4. CASE (\E x \in StepOutcomes : CarefulStep(x)) \/ (\E a \in RipArgs : CarefulSetRip(a))
  BY <1>4 DEF CarefulStep, CarefulSetRip, Step, SetRip
<1>5. CASE (\E a \in BreakArgs : CarefulBreak(a)) \/ (\E i \in Slots : CarefulDelete(i))
  BY <1>5 DEF CarefulBreak, CarefulDelete, Break, Delete
<1>6. CASE UserLooks
  <2>1. ASSUME NEW x, Disasm(x) PROVE FALSE
    BY <2>1 DEF Disasm
  <2>2. CASE VmmapCrash \/ Exit \/ Shows
    BY <2>2 DEF VmmapCrash, Exit, Quit, Shows, Get, Getregs, Dump, List, Vmmap, Help, SetOther,
                Prints
  <2>3. ASSUME NEW c \in Commands, Refused(c) PROVE FALSE
    <3>1. c = "start" /\ proc = "stopped"
      BY <2>3 DEF Refused, Prints
    <3> QED BY <1>1, <2>3, <3>1 DEF Refused, sdb_is_loaded, sdb_is_running
  <2> QED BY <1>6, <2>1, <2>2, <2>3 DEF UserLooks, DisasmNext
<1>7. CASE Resume \/ Wait \/ UnpatchSlot \/ UnpatchDone \/ ReadText
  <2>1. ASSUME proc = "stopped", command = "start" PROVE pc \in {"patch", "prompt"}
    BY <2>1 DEF StartInv
  <2> QED BY <1>7, <2>1 DEF Resume, Wait, WaitHit, WaitMiss, WaitCrash, WaitExit, WaitGone, Quit,
                            Forget, UnpatchSlot, UnpatchDone, ReadText
<1>8. CASE Runs \/ Disturbed
  <2>1. command = "start" /\ pc' = pc
    BY <1>8 DEF Runs, Disturbed, debuggerVars
  <2>2. proc = "running"
    BY <1>8 DEF Runs, Disturbed, Execute, Signalled, Killed
  <2> QED BY <2>1, <2>2 DEF RunsOnlyInWait
<1>9. CASE Over
  BY <1>9 DEF Over
<1> QED BY <1>2, <1>3, <1>4, <1>5, <1>6, <1>7, <1>8, <1>9 DEF CarefulNext, CarefulUser, Debugger

(* start itself: the tracee is at its entry point, or there is none.        *)
LEMMA StartEnters ==
  ASSUME Start
  PROVE  StartInv'
<1>1. CASE ForkFails
  BY <1>1 DEF ForkFails, Forget, StartInv
<1>2. CASE Launch /\ ExecFails
  BY <1>2 DEF ExecFails, StartInv
<1>3. ASSUME NEW b \in Bases, Launch, Exec(b) PROVE StartInv'
  <2>1. pc' = "patch" /\ slot' = 0 /\ rip' = b + Entry /\ base' = b
    BY <1>3 DEF Launch, Enter, Exec
  <2>2. \A i \in Slots : ~(i < 0)
    BY SizeFacts DEF Slots
  <2>3. ~EntryTaken(slot)'
    BY <2>1, <2>2 DEF EntryTaken
  <2>4. Entry \in Nat /\ b \in Nat
    BY InsnFacts, LayoutAssumption
  <2>5. rip' - base' = Entry
    BY <2>1, <2>4
  <2> QED BY <2>1, <2>3, <2>5 DEF StartInv
<1> QED BY <1>1, <1>2, <1>3 DEF Start, Launch

(* The patch loop steps off a breakpoint on the entry point, and off that   *)
(* one only: no instruction with a breakpoint leads to another.             *)
LEMMA PatchAfterStart ==
  ASSUME TypeOK, CarefulInv, StartInv, Patch
  PROVE  StartInv'
<1> USE DEF traceeVars, fileVars, viewVars
<1> SUFFICES ASSUME command' = "start", proc' = "stopped" PROVE StartInv'
  BY DEF StartInv
<1>1. pc = "patch" /\ slot \in 0 .. MaxBreak /\ MaxBreak \in Nat /\ breaks \in [Slots -> Breakpoint]
  BY SizeFacts DEF Patch, PatchDone, PatchUnused, PatchCrash, PatchSlot, PatchStepOff, PatchDead,
                   Patchable, TypeOK
<1>2. command = "start" /\ proc = "stopped" /\ base' = base
  BY DEF Patch, PatchDone, PatchUnused, PatchCrash, Quit, Forget, PatchSlot, PatchStepOff,
         PatchDead
<1>3. IF EntryTaken(slot) THEN rip - base \in Succ[Entry] ELSE rip - base = Entry
  BY <1>1, <1>2 DEF StartInv
<1>4. CASE PatchDone
  <2>1. pc' = "prompt" /\ slot = MaxBreak /\ rip' = rip /\ breaks' = breaks
    BY <1>2, <1>4 DEF PatchDone, PatchReturns
  <2>2. EntryTaken(MaxBreak)' <=> EntryTaken(slot)
    BY <2>1 DEF EntryTaken, Used
  <2> QED BY <1>2, <1>3, <2>1, <2>2 DEF StartInv
<1>5. CASE PatchUnused
  <2>1. /\ pc' = "patch" /\ slot < MaxBreak /\ slot' = slot + 1 /\ ~Used(slot)
        /\ rip' = rip /\ breaks' = breaks
    BY <1>1, <1>5 DEF PatchUnused
  <2>2. EntryTaken(slot)' <=> EntryTaken(slot)
    BY <1>1, <2>1, SlotFacts DEF EntryTaken, Used, Slots
  <2> QED BY <1>2, <1>3, <2>1, <2>2 DEF StartInv
<1>6. ASSUME Patchable, PatchWord(BpAddr(slot)) \/ PatchFails,
             IF rip = BpAddr(slot) THEN rip' - base \in Succ[rip - base] ELSE rip' = rip,
             PatchFails => ~Accessible(BpAddr(slot))
      PROVE  StartInv'
  <2> DEFINE a == breaks[slot].addr
  <2>1. slot < MaxBreak /\ slot \in Slots /\ Used(slot) /\ Live
    BY <1>1, <1>2, <1>6, SlotFacts DEF Patchable, Live
  <2>2. /\ a \in BreakArgs /\ a \in Nat /\ base \in Nat /\ rip \in Nat /\ BpAddr(slot) = base + a
        /\ Entry \in Nat
    BY <2>1, UsedPoint, PointFacts, PointAddr, InsnFacts, LayoutAssumption
       DEF CarefulInv, TypeOK, TraceeTypeOK
  <2>3. Accessible(BpAddr(slot))
    BY <1>2, <2>2, PointAccessible
  <2>4. /\ pc' = "patch" /\ slot' = slot + 1
        /\ breaks' = breaks \/ \E w : breaks' = [breaks EXCEPT ![slot].original_word = w]
    BY <1>1, <1>6, <2>3 DEF PatchWord
  <2>5. \A i \in Slots : breaks'[i].is_used = breaks[i].is_used /\ breaks'[i].addr = breaks[i].addr
    BY <1>1, <2>1, <2>4, SaveKeeps
  <2>6. EntryTaken(slot)' <=> EntryTaken(slot) \/ a = Entry
    <3>1. \A i \in Slots : i < slot + 1 <=> i < slot \/ i = slot
      BY <1>1, <2>1 DEF Slots
    <3> QED BY <2>1, <2>4, <2>5, <3>1 DEF EntryTaken, Used
  <2>7. CASE rip = BpAddr(slot)
    <3>1. rip - base = a
      BY <2>2, <2>7
    <3>2. ~EntryTaken(slot)
      <4>1. ASSUME EntryTaken(slot) PROVE FALSE
        <5>1. Entry \in BreakArgs
          BY <4>1, UsedPoint DEF EntryTaken, CarefulInv
        <5>2. a \in Succ[Entry]
          BY <1>3, <3>1, <4>1
        <5> QED BY <2>2, <5>1, <5>2, PointFacts
      <4> QED BY <4>1
    <3>3. a = Entry
      BY <1>3, <3>1, <3>2
    <3> QED BY <1>2, <1>6, <2>4, <2>6, <2>7, <3>1, <3>3 DEF StartInv
  <2>8. CASE rip # BpAddr(slot)
    <3>1. rip - base # a
      BY <2>2, <2>8
    <3>2. a = Entry => EntryTaken(slot)
      BY <1>3, <3>1
    <3> QED BY <1>2, <1>3, <1>6, <2>4, <2>6, <2>8, <3>2 DEF StartInv
  <2> QED BY <2>7, <2>8
<1>7. CASE PatchSlot
  <2>1. PatchWord(BpAddr(slot)) /\ rip # BpAddr(slot) /\ rip' = rip /\ Patchable
    BY <1>7 DEF PatchSlot
  <2>2. PatchFails => ~Accessible(BpAddr(slot))
    BY <1>1, <2>1 DEF PatchWord, PatchFails, PatchReturns
  <2> QED BY <1>6, <2>1, <2>2
<1>8. ASSUME NEW x \in StepOutcomes, PatchStepOff(x) PROVE StartInv'
  <2>1. /\ rip' = x.rip /\ x.kind # "exit" /\ Patchable /\ rip = BpAddr(slot)
        /\ PatchWord(BpAddr(slot))
    BY <1>8 DEF PatchStepOff, SingleStep
  <2>2. mem[rip - base] # INT3 /\ ~event /\ Live
    BY <1>1, <1>2, NotOnTrap DEF Live
  <2>3. x.rip - base \in Succ[rip - base]
    BY <2>1, <2>2, NextInsn
  <2>4. PatchFails => ~Accessible(BpAddr(slot))
    BY <1>1, <2>1 DEF PatchWord, PatchFails, PatchReturns
  <2> QED BY <1>6, <2>1, <2>3, <2>4
<1> QED BY <1>2, <1>4, <1>5, <1>7, <1>8 DEF Patch, PatchCrash, Quit, Forget, PatchDead

(* start stops at the first instruction, as main.c:18 says, exactly when    *)
(* that has no breakpoint; if it has one, the tracee has run it, and it     *)
(* alone.                                                                   *)
THEOREM StartStops ==
  CarefulSpec =>
    [](pc = "prompt" /\ command = "start" /\ proc = "stopped" =>
         IF Entry \in UsedAddrs THEN rip - base \in Succ[Entry] ELSE rip = base + Entry)
<1>1. Init => StartInv
  BY DEF Init, StartInv
<1>2. ASSUME TypeOK, CarefulInv, RunsOnlyInWait, StartInv, [CarefulNext]_vars PROVE StartInv'
  <2>1. CASE UNCHANGED vars
    BY <1>2, <2>1 DEF vars, traceeVars, StartInv, EntryTaken, Used
  <2>2. CASE CarefulNext /\ ~Start /\ ~Patch
    <3>1. CASE command' = "start" /\ proc' = "stopped"
      BY <1>2, <2>1, <2>2, <3>1, StartOrElse
    <3> QED BY <3>1 DEF StartInv
  <2> QED BY <1>2, <2>1, <2>2, StartEnters, PatchAfterStart
<1>3. ASSUME TypeOK, CarefulInv, StartInv, pc = "prompt", command = "start", proc = "stopped"
      PROVE  IF Entry \in UsedAddrs THEN rip - base \in Succ[Entry] ELSE rip = base + Entry
  <2>1. \A i \in Slots : i < MaxBreak
    BY SizeFacts DEF Slots
  <2>2. Entry \in UsedAddrs <=> EntryTaken(MaxBreak)
    BY <2>1 DEF UsedAddrs, EntryTaken
  <2>3. rip \in Nat /\ base \in Nat /\ Entry \in Nat
    BY <1>3, InsnFacts, LayoutAssumption DEF TypeOK, TraceeTypeOK
  <2>4. IF EntryTaken(MaxBreak) THEN rip - base \in Succ[Entry] ELSE rip - base = Entry
    BY <1>3 DEF StartInv
  <2> QED BY <2>2, <2>3, <2>4
<1>4. CarefulSpec => []RunsOnlyInWait
  BY CarefulIsNext, TraceeWatched, PTL DEF CarefulSpec, Spec
<1> QED BY <1>1, <1>2, <1>3, <1>4, CarefulTypeCorrect, CarefulInvariant, PTL DEF CarefulSpec
=============================================================================
