----------------------------- MODULE SdbProofs ------------------------------
(***************************************************************************)
(* Proofs about module Sdb: what holds for every program, every user and   *)
(* every size of the breakpoint table.                                     *)
(***************************************************************************)
EXTENDS Sdb, TLAPS

-----------------------------------------------------------------------------
(* The assumptions, in the pieces the provers use.                          *)

LEMMA SizeFacts ==
  /\ MaxBreak \in Nat \ {0}
  /\ 0 \in 0 .. MaxBreak
  /\ BreakArgs \subseteq Nat /\ DisasmArgs \subseteq Nat /\ RipArgs \subseteq Nat
  /\ DisasmWords * WordSize \in Nat
  /\ Commands \subseteq AllCommands
  /\ \A b \in Bases : b \in Nat /\ b + Entry \in Nat
  /\ \A i \in Slots : i \in Nat /\ 0 <= i /\ ~(i < 0) /\ i < MaxBreak
BY SdbAssumption, LayoutAssumption DEF Off, Slots

(* -1 is no process.                                                        *)
LEMMA PidFact == NoPid # Pid
BY DEF NoPid, Pid

(* A loop index below the limit names a slot.                               *)
LEMMA SlotFacts ==
  ASSUME slot \in 0 .. MaxBreak, slot < MaxBreak
  PROVE  /\ slot \in Slots /\ slot + 1 \in 0 .. MaxBreak
         /\ \A i \in Slots : (i < slot + 1 => i < slot \/ i = slot)
                            /\ (~(i < slot) => slot \in 0 .. i)
<1>1. MaxBreak \in Nat
  BY SizeFacts
<1> QED BY <1>1 DEF Slots

-----------------------------------------------------------------------------
(* What PEEKTEXT returns and POKETEXT leaves behind has the right type.     *)

(* A word read from the tracee, or the -1 of a failed read, is a Word.      *)
LEMMA PeekType ==
  ASSUME mem \in [Off -> Byte], base \in Nat, NEW a \in Nat
  PROVE  Peek(a) \in Word
<1>1. CASE Accessible(a)
  <2>1. \A k \in 0 .. WordSize - 1 : a - base + k \in Off
    BY <1>1, LayoutAssumption DEF Accessible, WordMapped, Off
  <2> QED BY <1>1, <2>1 DEF Peek, Word
<1>2. CASE ~Accessible(a)
  BY <1>2 DEF Peek, Failed, Word, Byte
<1> QED BY <1>1, <1>2

(* Writing a Word leaves the text a text.                                   *)
LEMMA PokeType ==
  ASSUME mem \in [Off -> Byte], base \in Nat, NEW a \in Nat, NEW w \in Word
  PROVE  Poke(a, w) \in [Off -> Byte]
<1>1. ASSUME NEW o \in Off, a <= base + o, base + o < a + WordSize
      PROVE  w[base + o - a] \in Byte
  <2>1. base + o - a \in 0 .. WordSize - 1
    BY <1>1, LayoutAssumption DEF Off
  <2> QED BY <2>1 DEF Word
<1> QED BY <1>1 DEF Poke

(* The word that arms a breakpoint is a Word.                               *)
LEMMA TrapWordType ==
  ASSUME NEW w \in Word
  PROVE  [w EXCEPT ![0] = INT3] \in Word
BY DEF Word, Byte

(* Wherever an instruction leads, it leads to an address.                   *)
LEMMA OutcomeType ==
  ASSUME base \in Nat, rip \in Nat, NEW x \in StepOutcomes
  PROVE  x.rip \in Nat
<1>1. \A o \in Insn : \A s \in Succ[o] : base + s \in Nat
  BY LayoutAssumption DEF Off
<1>2. \A o \in Off : base + o \in Nat
  BY LayoutAssumption DEF Off
<1> QED BY <1>1, <1>2 DEF StepOutcomes, Outcomes, OnTrack

(* A breakpoint is at an address.                                           *)
LEMMA BpAddrType ==
  ASSUME breaks \in [Slots -> Breakpoint], base \in Nat, NEW i \in Slots
  PROVE  BpAddr(i) \in Nat
<1>1. breaks[i].addr \in Nat
  BY DEF Breakpoint
<1>2. \A a \in Nat : convert_dynamic_addr(a) \in Nat
  BY LayoutAssumption DEF convert_dynamic_addr
<1> QED BY <1>1, <1>2 DEF BpAddr

-----------------------------------------------------------------------------
(* Type correctness, operation by operation.                                *)

(* sdb_load keeps the types, whether it succeeds or gives up half-way.      *)
LEMMA LoadType ==
  ASSUME TypeOK, UserLoads
  PROVE  TypeOK'
<1> USE DEF TypeOK, TraceeTypeOK, fileVars, viewVars, traceeVars, Prompt, AllCommands
<1>1. CASE LoadUnopened
  BY <1>1 DEF LoadUnopened, NullEh, elf_close
<1>2. ASSUME NEW t \in {2, 3}, LoadUnloaded(t) PROVE TypeOK'
  BY <1>2 DEF LoadUnloaded, elf_close
<1>3. ASSUME NEW t \in {2, 3}, LoadUnnamed(t) PROVE TypeOK'
  BY <1>3 DEF LoadUnnamed
<1>4. CASE LoadProgram
  <2>1. breaks' \in [Slots -> Breakpoint]
    BY <1>4 DEF LoadProgram, Breakpoint
  <2> QED
    BY <1>4, <2>1, SdbAssumption
    DEF LoadProgram, Forget, ClearText, Fresh, Byte, ProcStates, NoPid, Pid
<1> QED BY <1>1, <1>2, <1>3, <1>4 DEF UserLoads

(* The end of the debugger keeps the types.                                 *)
LEMMA QuitType ==
  ASSUME TypeOK, NEW how \in {"exited", "crashed"}, Quit(how), command' \in AllCommands
  PROVE  TypeOK'
BY DEF TypeOK, TraceeTypeOK, Quit, Forget, ClearText, Fresh, Byte, ProcStates,
       fileVars, viewVars, traceeVars

(* start, run, cont, si and set keep the types.                             *)
LEMMA SteerType ==
  ASSUME TypeOK, UserSteers
  PROVE  TypeOK'
<1> USE DEF TypeOK, fileVars, viewVars, traceeVars
<1>1. 0 \in 0 .. MaxBreak
  BY SizeFacts
<1>2. ASSUME ForkFails \/ Launch
      PROVE  TraceeTypeOK' /\ pid' \in {NoPid, Pid} /\ slot' \in 0 .. MaxBreak
             /\ pc' \in {"prompt", "patch", "unpatch", "read", "resume", "wait",
                         "exited", "crashed"}
  <2> USE DEF TraceeTypeOK, ProcStates, Fresh, Byte, ClearText
  <2>1. CASE ForkFails
    BY <2>1 DEF ForkFails, Forget
  <2>2. ASSUME Launch, NEW b \in Bases, Exec(b)
        PROVE  TraceeTypeOK'
    <3>1. b \in Nat /\ b + Entry \in Nat
      BY SizeFacts
    <3> QED BY <2>2, <3>1 DEF Exec
  <2>3. ASSUME Launch, ExecFails
        PROVE  TraceeTypeOK'
    BY <2>3 DEF ExecFails
  <2> QED BY <1>1, <1>2, <2>1, <2>2, <2>3 DEF Launch, Enter
<1>3. CASE Start
  BY <1>2, <1>3 DEF Start, Prompt, AllCommands
<1>4. CASE Run
  BY <1>1, <1>2, <1>4 DEF Run, Prompt, AllCommands, Enter, TraceeTypeOK
<1>5. CASE Cont
  BY <1>1, <1>5 DEF Cont, Prompt, AllCommands, Enter, TraceeTypeOK
<1>6. ASSUME NEW x \in StepOutcomes, Step(x)
      PROVE  TypeOK'
  <2>1. x.rip \in Nat
    BY OutcomeType DEF TraceeTypeOK
  <2> QED BY <1>6, <2>1
          DEF Step, SingleStep, Prompt, AllCommands, TraceeTypeOK, ProcStates
<1>7. ASSUME NEW a \in RipArgs, SetRip(a)
      PROVE  TypeOK'
  BY <1>7, SizeFacts DEF SetRip, Prompt, AllCommands, TraceeTypeOK
<1> QED BY <1>3, <1>4, <1>5, <1>6, <1>7 DEF UserSteers

(* break and delete keep the types, with the table full as well.            *)
LEMMA EditType ==
  ASSUME TypeOK, UserEdits
  PROVE  TypeOK'
<1> USE DEF TypeOK, fileVars, viewVars, traceeVars
<1>1. ASSUME NEW a \in BreakArgs, Break(a)
      PROVE  TypeOK'
  <2>1. a \in Nat
    BY SizeFacts
  <2>2. ASSUME NEW i \in Slots, SetSlot(i, a)
        PROVE  breaks' \in [Slots -> Breakpoint]
    <3>1. [breaks[i] EXCEPT !.is_used = 1, !.addr = a] \in Breakpoint
      BY <2>1 DEF Breakpoint
    <3> QED BY <2>2, <3>1 DEF SetSlot
  <2>3. breaks' \in [Slots -> Breakpoint]
    BY <1>1, <2>2 DEF Break
  <2> QED BY <1>1, <2>3, SizeFacts DEF Break, Prompt, AllCommands, Enter, TraceeTypeOK
<1>2. CASE BreakCrash
  BY <1>2, QuitType DEF BreakCrash, Prompt, AllCommands
<1>3. ASSUME NEW i \in Slots, Delete(i)
      PROVE  TypeOK'
  <2>1. breaks[i].addr \in Nat /\ breaks[i].original_word \in Word
    BY DEF Breakpoint
  <2>2. mem' \in [Off -> Byte]
    BY <1>3, <2>1, PokeType DEF Delete, TraceeTypeOK
  <2>3. breaks' \in [Slots -> Breakpoint]
    BY <1>3 DEF Delete, Breakpoint
  <2> QED BY <1>3, <2>2, <2>3 DEF Delete, Prompt, AllCommands, TraceeTypeOK
<1> QED BY <1>1, <1>2, <1>3 DEF UserEdits

(* The cursor of disasm stays an address.                                   *)
LEMMA AdvanceType ==
  ASSUME NEW a \in Nat, NEW readable, Advance(a, readable)
  PROVE  last_disasm_addr' \in Nat
<1>1. \A d \in Nat : a .. a + d \subseteq Nat
  OBVIOUS
<1> QED BY <1>1, SizeFacts DEF Advance

(* What only prints is one of the commands, and neither a cont of a tracee  *)
(* nor a run of a program.                                                  *)
LEMMA OnlyPrints ==
  ASSUME Shows \/ \E c \in Commands : Refused(c)
  PROVE  \E c \in Commands : Prints(c) /\ (c \in {"cont", "run"} => pid = NoPid \/ path = "")
<1>1. CASE Shows
  <2>1. \A c : Prints(c) => c \in Commands
    BY DEF Prints, Prompt
  <2>2. PICK c \in {"get", "getregs", "dump", "list", "vmmap", "help", "set"} : Prints(c)
    BY <1>1 DEF Shows, Get, Getregs, Dump, List, Vmmap, Help, SetOther
  <2>3. c \in Commands /\ c \notin {"cont", "run"}
    BY <2>1, <2>2
  <2> QED BY <2>2, <2>3
<1>2. CASE \E c \in Commands : Refused(c)
  BY <1>2 DEF Refused, sdb_is_loaded, sdb_is_running
<1> QED BY <1>1, <1>2

(* disasm, vmmap, exit and the commands that only print keep the types.     *)
LEMMA LookType ==
  ASSUME TypeOK, UserLooks
  PROVE  TypeOK'
<1> USE DEF TypeOK, fileVars, viewVars, traceeVars
<1>1. ASSUME NEW a \in Nat, Disasm(a)
      PROVE  TypeOK'
  <2>1. CASE DisasmFile(a)
    <3>1. last_disasm_addr' \in Nat
      BY <2>1, AdvanceType DEF DisasmFile
    <3> QED BY <1>1, <2>1, <3>1 DEF Disasm, DisasmFile, Prompt, AllCommands, TraceeTypeOK
  <2>2. CASE DisasmCrash(a)
    BY <1>1, <2>2, QuitType DEF Disasm, DisasmCrash, Prompt, AllCommands
  <2>3. CASE DisasmLive(a)
    BY <1>1, <2>3, SizeFacts
    DEF Disasm, DisasmLive, Prompt, AllCommands, TraceeTypeOK, Enter
  <2> QED BY <1>1, <2>1, <2>2, <2>3 DEF Disasm
<1>2. \A a \in DisasmArgs : Disasm(a) => TypeOK'
  BY <1>1, SizeFacts
<1>3. DisasmNext => TypeOK'
  BY <1>1 DEF DisasmNext
<1>4. CASE VmmapCrash
  BY <1>4, QuitType DEF VmmapCrash, Prompt, AllCommands
<1>5. ASSUME NEW c \in Commands, Prints(c)
      PROVE  TypeOK'
  BY <1>5, SizeFacts DEF Prints, Prompt, TraceeTypeOK
<1>6. CASE Exit
  BY <1>6, QuitType DEF Exit, Prompt, AllCommands
<1> QED BY <1>2, <1>3, <1>4, <1>5, <1>6, OnlyPrints DEF UserLooks

(* Every PTRACE_POKETEXT of sdb_patch_all_bp, and every word it saves, is   *)
(* well typed.                                                              *)
LEMMA PatchWordType ==
  ASSUME TypeOK, pc = "patch", slot < MaxBreak, NEW a \in Nat, PatchWord(a) \/ PatchFails
  PROVE  /\ mem' \in [Off -> Byte]
         /\ breaks' \in [Slots -> Breakpoint]
         /\ slot' \in 0 .. MaxBreak
         /\ pc' \in {"prompt", "patch", "resume"}
<1> DEFINE w == Peek(a)
<1>1. w \in Word /\ [w EXCEPT ![0] = INT3] \in Word /\ Failed \in Word
  BY PeekType, TrapWordType DEF TypeOK, TraceeTypeOK, Failed, Word, Byte
<1>2. slot \in Slots /\ slot + 1 \in 0 .. MaxBreak /\ 0 \in 0 .. MaxBreak
  BY SlotFacts, SizeFacts DEF TypeOK
<1>3. \A v \in Word : [breaks EXCEPT ![slot].original_word = v] \in [Slots -> Breakpoint]
  <2>1. breaks \in [Slots -> Breakpoint]
    BY DEF TypeOK
  <2> QED BY <1>2, <2>1 DEF Breakpoint
<1>4. Poke(a, [w EXCEPT ![0] = INT3]) \in [Off -> Byte]
  BY <1>1, PokeType DEF TypeOK, TraceeTypeOK
<1>5. CASE PatchFails
  BY <1>1, <1>2, <1>3, <1>5 DEF PatchFails, PatchReturns, TypeOK, TraceeTypeOK
<1>6. CASE PatchWord(a) /\ Accessible(a) /\ w[0] = INT3
  BY <1>2, <1>6 DEF PatchWord, TypeOK, TraceeTypeOK
<1>7. CASE PatchWord(a) /\ Accessible(a) /\ w[0] # INT3
  BY <1>1, <1>2, <1>3, <1>4, <1>7 DEF PatchWord
<1> QED BY <1>5, <1>6, <1>7 DEF PatchWord

(* sdb_patch_all_bp keeps the types.                                        *)
LEMMA PatchType ==
  ASSUME TypeOK, Patch
  PROVE  TypeOK'
<1> USE DEF TypeOK, fileVars, viewVars, traceeVars
<1>1. CASE PatchDone
  BY <1>1, SizeFacts DEF PatchDone, PatchReturns, TraceeTypeOK
<1>2. CASE PatchUnused
  <2>1. slot + 1 \in 0 .. MaxBreak
    BY <1>2, SlotFacts DEF PatchUnused
  <2> QED BY <1>2, <2>1 DEF PatchUnused, TraceeTypeOK
<1>3. CASE PatchCrash
  BY <1>3, QuitType DEF PatchCrash
<1>4. Patchable => slot \in Slots
  BY SlotFacts DEF Patchable
<1>5. CASE PatchSlot
  <2>1. BpAddr(slot) \in Nat
    BY <1>4, <1>5, BpAddrType DEF PatchSlot, TraceeTypeOK
  <2> QED BY <1>5, <2>1, PatchWordType DEF PatchSlot, Patchable, TraceeTypeOK
<1>6. ASSUME NEW x \in StepOutcomes, PatchStepOff(x)
      PROVE  TypeOK'
  <2>1. BpAddr(slot) \in Nat
    BY <1>4, <1>6, BpAddrType DEF PatchStepOff, TraceeTypeOK
  <2>2. x.rip \in Nat
    BY OutcomeType DEF TraceeTypeOK
  <2> QED BY <1>6, <2>1, <2>2, PatchWordType
          DEF PatchStepOff, Patchable, SingleStep, TraceeTypeOK, ProcStates
<1>7. CASE PatchDead
  BY <1>7, PatchWordType DEF PatchDead, Patchable, TraceeTypeOK, ProcStates
<1> QED BY <1>1, <1>2, <1>3, <1>5, <1>6, <1>7 DEF Patch

(* Resuming the tracee and waiting for it keeps the types; in particular    *)
(* regs.rip-- never starts from zero.                                       *)
LEMMA WaitType ==
  ASSUME TypeOK, Resume \/ Wait
  PROVE  TypeOK'
<1> USE DEF TypeOK, fileVars, viewVars, traceeVars
<1>1. CASE Resume
  BY <1>1 DEF Resume, TraceeTypeOK, ProcStates
<1>2. ASSUME NEW i \in Slots, WaitHit(i)
      PROVE  TypeOK'
  <2>1. BpAddr(i) \in Nat
    BY BpAddrType DEF TraceeTypeOK
  <2>2. rip - 1 \in Nat
    BY <1>2, <2>1 DEF WaitHit, FirstHit, Hit
  <2>3. breaks[i].original_word \in Word
    BY DEF Breakpoint
  <2>4. mem' \in [Off -> Byte]
    BY <1>2, <2>1, <2>3, PokeType DEF WaitHit, TraceeTypeOK
  <2> QED BY <1>2, <2>2, <2>4 DEF WaitHit, TraceeTypeOK
<1>3. CASE WaitMiss
  BY <1>3 DEF WaitMiss, TraceeTypeOK
<1>4. CASE WaitCrash
  BY <1>4, QuitType DEF WaitCrash
<1>5. CASE WaitExit
  BY <1>5 DEF WaitExit, TraceeTypeOK, ProcStates
<1>6. CASE WaitGone
  BY <1>6 DEF WaitGone, Forget, ClearText, Fresh, Byte, TraceeTypeOK, ProcStates
<1> QED BY <1>1, <1>2, <1>3, <1>4, <1>5, <1>6 DEF Wait

(* The loops of sdb_disasm keep the types.                                  *)
LEMMA DisasmType ==
  ASSUME TypeOK, UnpatchSlot \/ UnpatchDone \/ ReadText
  PROVE  TypeOK'
<1> USE DEF TypeOK, fileVars, viewVars, traceeVars
<1>1. CASE UnpatchSlot
  <2>1. slot \in Slots /\ slot + 1 \in 0 .. MaxBreak
    BY <1>1, SlotFacts DEF UnpatchSlot
  <2>2. breaks[slot].addr \in Nat /\ breaks[slot].original_word \in Word
    BY <2>1 DEF Breakpoint
  <2>3. mem' \in [Off -> Byte]
    BY <1>1, <2>2, PokeType DEF UnpatchSlot, TraceeTypeOK
  <2> QED BY <1>1, <2>1, <2>3 DEF UnpatchSlot, TraceeTypeOK
<1>2. CASE UnpatchDone
  BY <1>2 DEF UnpatchDone, TraceeTypeOK
<1>3. CASE ReadText
  <2>1. last_disasm_addr' \in Nat
    BY <1>3, AdvanceType DEF ReadText
  <2>2. shown' \subseteq Off
    BY <1>3 DEF ReadText, Readable
  <2> QED BY <1>3, <2>1, <2>2, SizeFacts DEF ReadText, Enter, TraceeTypeOK
<1> QED BY <1>1, <1>2, <1>3

(* What the tracee does by itself keeps the types.                          *)
LEMMA RunsType ==
  ASSUME TypeOK, Runs \/ Disturbed
  PROVE  TypeOK'
<1> USE DEF TypeOK, debuggerVars, fileVars, viewVars
<1>1. ASSUME NEW x \in Outcomes, Execute(x), UNCHANGED debuggerVars
      PROVE  TypeOK'
  <2>1. x.rip \in Nat
    BY OutcomeType DEF StepOutcomes, TraceeTypeOK
  <2>2. event' \in BOOLEAN
    BY <1>1 DEF Execute, TraceeTypeOK
  <2>3. proc' \in ProcStates
    BY <1>1 DEF Execute, TraceeTypeOK, ProcStates
  <2>4. TraceeTypeOK'
    BY <1>1, <2>1, <2>2, <2>3 DEF Execute, TraceeTypeOK
  <2> QED BY <1>1, <2>4
<1>2. CASE Disturbed
  <2>1. CASE Signalled
    BY <1>2, <2>1 DEF Disturbed, Signalled, TraceeTypeOK, ProcStates
  <2>2. CASE Killed
    <3>1. TraceeTypeOK'
      BY <2>2 DEF Killed, ClearText, Fresh, Byte, TraceeTypeOK, ProcStates
    <3> QED BY <1>2, <3>1 DEF Disturbed
  <2> QED BY <1>2, <2>1, <2>2 DEF Disturbed
<1> QED BY <1>1, <1>2 DEF Runs

(* sdb.h's structures hold what their declarations say, for every program,  *)
(* every user and every behaviour of the tracee.                            *)
THEOREM TypeCorrect == Spec => []TypeOK
<1>1. Init => TypeOK
  <2>1. ASSUME Init PROVE breaks \in [Slots -> Breakpoint]
    BY <2>1 DEF Init, Breakpoint, Failed, Word, Byte
  <2>2. ASSUME Init PROVE TraceeTypeOK
    BY <2>2 DEF Init, TraceeTypeOK, ProcStates, Fresh, Byte
  <2>3. NullEh \in [state : {"null", "bare", "full"}, type : {2, 3}]
    BY DEF NullEh
  <2>4. 0 \in 0 .. MaxBreak
    BY SizeFacts
  <2> SUFFICES ASSUME Init PROVE TypeOK
    OBVIOUS
  <2>5. "help" \in AllCommands /\ 0 \in Nat /\ {} \subseteq Off
    BY DEF AllCommands
  <2> QED BY <2>1, <2>2, <2>3, <2>4, <2>5 DEF Init, TypeOK
<1>2. TypeOK /\ [Next]_vars => TypeOK'
  <2> SUFFICES ASSUME TypeOK, [Next]_vars PROVE TypeOK'
    OBVIOUS
  <2>1. CASE UNCHANGED vars
    BY <2>1 DEF vars, traceeVars, fileVars, viewVars, TypeOK, TraceeTypeOK
  <2>2. CASE Over
    BY <2>1, <2>2 DEF Over
  <2> QED BY <2>1, <2>2, LoadType, SteerType, EditType, LookType, PatchType, WaitType,
             DisasmType, RunsType DEF Next, Debugger
<1> QED BY <1>1, <1>2, PTL DEF Spec

-----------------------------------------------------------------------------
(* What arming one breakpoint does to the text and to the others.           *)

(* The first byte of an accessible word is the text's byte at its address.  *)
LEMMA PeekFirst ==
  ASSUME NEW a \in Nat, base \in Nat, Accessible(a)
  PROVE  a - base \in Off /\ Peek(a)[0] = mem[a - base]
<1>1. a - base \in Off /\ 0 \in 0 .. WordSize - 1 /\ a - base + 0 = a - base
  BY LayoutAssumption DEF Accessible, WordMapped, Off
<1> QED BY <1>1 DEF Peek

(* POKETEXT of the word just read, with int3 for its first byte, changes    *)
(* that byte and no other.                                                  *)
LEMMA ArmText ==
  ASSUME mem \in [Off -> Byte], base \in Nat, NEW a \in Nat, Accessible(a)
  PROVE  Poke(a, [Peek(a) EXCEPT ![0] = INT3])
           = [o \in Off |-> IF base + o = a THEN INT3 ELSE mem[o]]
<1> DEFINE w == [Peek(a) EXCEPT ![0] = INT3]
<1>1. \A k \in 0 .. WordSize - 1 : w[k] = IF k = 0 THEN INT3 ELSE mem[a - base + k]
  BY DEF Peek
<1>2. ASSUME NEW o \in Off, a <= base + o, base + o < a + WordSize
      PROVE  w[base + o - a] = IF base + o = a THEN INT3 ELSE mem[o]
  <2>1. /\ base + o - a \in 0 .. WordSize - 1
        /\ a - base + (base + o - a) = o
        /\ base + o - a = 0 <=> base + o = a
    BY <1>2, LayoutAssumption DEF Off
  <2> HIDE DEF w
  <2> QED BY <1>1, <2>1
<1>3. \A o \in Off : ~(a <= base + o /\ base + o < a + WordSize) => base + o # a
  BY LayoutAssumption DEF Off
<1> HIDE DEF w
<1>4. Poke(a, w) = [o \in Off |-> IF base + o = a THEN INT3 ELSE mem[o]]
  BY <1>2, <1>3 DEF Poke
<1> QED BY <1>4 DEF w

(* A step that moves no breakpoint and takes no int3 away leaves a covered  *)
(* breakpoint covered.                                                      *)
LEMMA CoveredKept ==
  ASSUME base' = base, eh' = eh, NEW i \in Slots, Covered(i),
         \A j \in Slots : breaks'[j].is_used = breaks[j].is_used
                          /\ breaks'[j].addr = breaks[j].addr,
         \A o \in Off : mem[o] = INT3 => mem'[o] = INT3
  PROVE  Covered(i)'
<1>1. \A j \in Slots : BpAddr(j)' = BpAddr(j) /\ Used(j)' = Used(j)
  BY DEF BpAddr, convert_dynamic_addr, Used
<1>2. \A j \in 0 .. i : j \in Slots
  BY SizeFacts DEF Slots
<1>3. \A a : WordMapped(a)' = WordMapped(a)
  BY DEF WordMapped
<1> QED BY <1>1, <1>2, <1>3 DEF Covered, Armed

(* Saving a word moves no breakpoint.                                       *)
LEMMA SaveKeeps ==
  ASSUME breaks \in [Slots -> Breakpoint], NEW i \in Slots, NEW v,
         breaks' = [breaks EXCEPT ![i].original_word = v]
  PROVE  \A j \in Slots : breaks'[j].is_used = breaks[j].is_used
                          /\ breaks'[j].addr = breaks[j].addr
BY DEF Breakpoint

(* One turn of sdb_patch_all_bp on a stopped tracee: the slot it leaves     *)
(* behind is covered, and if it gives up all later slots are excused.       *)
LEMMA PatchCovers ==
  ASSUME TypeOK, proc = "stopped", pc = "patch", slot < MaxBreak, Used(slot),
         PatchWord(BpAddr(slot)), base' = base, eh' = eh,
         \A i \in Slots : i < slot => Covered(i)
  PROVE  /\ pc' = "patch" => \A i \in Slots : i < slot' => Covered(i)'
         /\ pc' # "patch" => \A i \in Slots : Covered(i)'
<1> DEFINE a == BpAddr(slot)
<1>1. /\ slot \in Slots
      /\ \A i \in Slots : (i < slot + 1 => i < slot \/ i = slot)
                         /\ (~(i < slot) => slot \in 0 .. i)
  BY SlotFacts DEF TypeOK
<1>2. /\ base \in Nat /\ mem \in [Off -> Byte] /\ breaks \in [Slots -> Breakpoint]
      /\ a \in Nat
  BY <1>1, BpAddrType DEF TypeOK, TraceeTypeOK
<1>3. CASE Accessible(a) /\ Peek(a)[0] = INT3
  <2>1. slot' = slot + 1 /\ pc' = pc /\ breaks' = breaks /\ mem' = mem
    BY <1>3 DEF PatchWord
  <2>2. Covered(slot)
    BY <1>2, <1>3, PeekFirst DEF Covered, Armed
  <2>3. \A i \in Slots : Covered(i) => Covered(i)'
    BY <2>1, CoveredKept
  <2> QED BY <1>1, <2>1, <2>2, <2>3
<1>4. CASE Accessible(a) /\ Peek(a)[0] # INT3
  <2>1. /\ slot' = slot + 1 /\ pc' = pc
        /\ breaks' = [breaks EXCEPT ![slot].original_word = Peek(a)]
        /\ mem' = [o \in Off |-> IF base + o = a THEN INT3 ELSE mem[o]]
    BY <1>2, <1>4, ArmText DEF PatchWord
  <2>2. \A j \in Slots : breaks'[j].is_used = breaks[j].is_used
                         /\ breaks'[j].addr = breaks[j].addr
    BY <1>1, <1>2, <2>1, SaveKeeps
  <2>3. \A o \in Off : mem[o] = INT3 => mem'[o] = INT3
    BY <2>1
  <2>4. \A i \in Slots : Covered(i) => Covered(i)'
    BY <2>2, <2>3, CoveredKept
  <2>5. ASSUME NEW i \in Slots, i = slot PROVE Covered(i)'
    <3>1. BpAddr(i)' = a
      BY <2>2, <2>5 DEF BpAddr, convert_dynamic_addr
    <3>2. a - base \in Off /\ mem'[a - base] = INT3
      BY <1>2, <1>4, <2>1, PeekFirst
    <3> QED BY <3>1, <3>2 DEF Covered, Armed
  <2> QED BY <1>1, <2>1, <2>4, <2>5
<1>5. CASE ~Accessible(a)
  <2>1. breaks' = [breaks EXCEPT ![slot].original_word = Failed] /\ mem' = mem
    BY <1>5 DEF PatchWord, PatchFails
  <2>2. \A j \in Slots : breaks'[j].is_used = breaks[j].is_used
                         /\ breaks'[j].addr = breaks[j].addr
    BY <1>1, <1>2, <2>1, SaveKeeps
  <2>3. \A i \in Slots : Covered(i) => Covered(i)'
    BY <2>1, <2>2, CoveredKept
  <2>4. ~WordMapped(a)
    BY <1>5 DEF Accessible
  <2>5. ASSUME NEW i \in Slots, ~(i < slot) PROVE Covered(i)
    <3>1. slot \in 0 .. i
      BY <1>1, <2>5
    <3> QED BY <2>4, <3>1 DEF Covered
  <2>6. \A i \in Slots : Covered(i)'
    BY <2>3, <2>5
  <2> QED BY <2>6
<1> QED BY <1>3, <1>4, <1>5

(* A step that ends outside the patch and wait loops, or at the start of    *)
(* the patch loop, with the tracee not running.                             *)
LEMMA Outside ==
  ASSUME pc' \in {"prompt", "patch", "unpatch", "read", "exited", "crashed"},
         pc' = "patch" => slot' = 0, proc' # "running",
         ContKnowsDeath', pid' = Pid => path' # ""
  PROVE  AnyUserInv'
<1>1. \A i \in Slots : ~(i < 0)
  BY SizeFacts
<1> QED BY <1>1 DEF AnyUserInv, RunsOnlyInWait, ArmedUnlessUnmapped

(* No command, up to its first wait, disturbs the invariant.                *)
LEMMA UserKeeps ==
  ASSUME TypeOK, AnyUserInv, UserLoads \/ UserSteers \/ UserEdits \/ UserLooks
  PROVE  AnyUserInv'
<1> USE DEF ContKnowsDeath, Prompt, traceeVars, fileVars, viewVars
<1>1. proc = "running" => pc # "prompt"
  BY DEF AnyUserInv, RunsOnlyInWait
<1>2. pid = Pid => path # ""
  BY DEF AnyUserInv
<1>3. \A how \in {"exited", "crashed"} : Quit(how) => AnyUserInv'
  BY PidFact, Outside DEF Quit, Forget
<1>4. CASE UserLoads
  BY <1>1, <1>2, <1>4, PidFact, Outside
  DEF UserLoads, LoadUnopened, LoadUnloaded, LoadUnnamed, LoadProgram, Forget
<1>5. CASE UserSteers
  <2>1. CASE Start \/ Run
    <3>1. path' # "" /\ pc = "prompt"
      <4>1. CASE Start
        BY <4>1 DEF Start, sdb_is_loaded
      <4>2. CASE Run
        BY <4>2 DEF Run, sdb_is_loaded
      <4> QED BY <2>1, <4>1, <4>2
    <3>2. CASE ForkFails
      BY <3>1, <3>2, PidFact, Outside DEF ForkFails, Forget
    <3>3. CASE Launch
      <4>1. pc' = "patch" /\ slot' = 0 /\ proc' # "running"
        BY <3>3 DEF Launch, Enter, Exec, ExecFails
      <4> QED BY <3>1, <4>1, Outside
    <3>4. CASE Enter("patch") /\ UNCHANGED <<traceeVars, pid>>
      BY <1>1, <3>1, <3>4, Outside DEF Enter
    <3> QED BY <2>1, <3>2, <3>3, <3>4 DEF Start, Run
  <2>2. CASE Cont
    BY <1>1, <1>2, <2>2, Outside DEF Cont, Enter
  <2>3. ASSUME NEW x \in StepOutcomes, Step(x) PROVE AnyUserInv'
    BY <1>2, <2>3, Outside DEF Step, SingleStep
  <2>4. ASSUME NEW a \in RipArgs, SetRip(a) PROVE AnyUserInv'
    BY <1>2, <2>4, Outside DEF SetRip
  <2> QED BY <1>5, <2>1, <2>2, <2>3, <2>4 DEF UserSteers
<1>6. CASE UserEdits
  <2>1. ASSUME NEW a \in BreakArgs, Break(a) PROVE AnyUserInv'
    BY <1>1, <1>2, <2>1, Outside DEF Break, Enter
  <2>2. CASE BreakCrash
    BY <1>3, <2>2 DEF BreakCrash
  <2>3. ASSUME NEW i \in Slots, Delete(i) PROVE AnyUserInv'
    BY <1>1, <1>2, <2>3, Outside DEF Delete
  <2> QED BY <1>6, <2>1, <2>2, <2>3 DEF UserEdits
<1>7. CASE UserLooks
  <2>1. ASSUME NEW a, Disasm(a) PROVE AnyUserInv'
    BY <1>1, <1>2, <1>3, <2>1, Outside DEF Disasm, DisasmFile, DisasmCrash, DisasmLive, Enter
  <2>2. CASE VmmapCrash \/ Exit
    BY <1>3, <2>2 DEF VmmapCrash, Exit
  <2>3. ASSUME NEW c \in Commands, Prints(c),
               c \in {"cont", "run"} => pid = NoPid \/ path = ""
        PROVE  AnyUserInv'
    <3>1. /\ pc' = "prompt" /\ proc' = proc /\ proc # "running"
          /\ pid' = pid /\ path' = path /\ command' = c
      BY <1>1, <2>3 DEF Prints
    <3>2. ContKnowsDeath'
      BY <1>2, <2>3, <3>1, PidFact
    <3> QED BY <1>2, <3>1, <3>2, Outside
  <2> QED BY <1>7, <2>1, <2>2, <2>3, OnlyPrints DEF UserLooks, DisasmNext
<1> QED BY <1>4, <1>5, <1>6, <1>7

(* Neither do the loops of the debugger.                                    *)
LEMMA DebuggerKeeps ==
  ASSUME TypeOK, AnyUserInv, Debugger
  PROVE  AnyUserInv'
<1> USE DEF traceeVars, fileVars, viewVars
<1>1. proc = "running" => pc = "wait"
  BY DEF AnyUserInv, RunsOnlyInWait
<1>2. pid = Pid => path # ""
  BY DEF AnyUserInv
<1>3. \A how \in {"exited", "crashed"} : Quit(how) => AnyUserInv'
  BY PidFact, Outside DEF Quit, Forget, ContKnowsDeath
<1>4. CASE PatchDone
  <2>1. CASE command \in {"cont", "run"}
    <3>1. /\ pc' = "resume" /\ proc' = proc /\ proc # "running" /\ command' = command
          /\ pid' = pid /\ path' = path /\ slot = MaxBreak /\ pc = "patch"
      BY <1>1, <1>4, <2>1 DEF PatchDone, PatchReturns
    <3>2. proc = "stopped" => \A i \in Slots : Covered(i)
      BY <3>1, SizeFacts DEF AnyUserInv
    <3>3. \A i \in Slots : Covered(i) => Covered(i)'
      BY <1>4, CoveredKept DEF PatchDone
    <3> QED BY <1>2, <2>1, <3>1, <3>2, <3>3
            DEF AnyUserInv, RunsOnlyInWait, ArmedUnlessUnmapped, ContKnowsDeath
  <2>2. CASE command \notin {"cont", "run"}
    <3>1. /\ pc' = "prompt" /\ proc' = proc /\ proc # "running" /\ command' = command
          /\ pid' = pid /\ path' = path
      BY <1>1, <1>4, <2>2 DEF PatchDone, PatchReturns
    <3> QED BY <1>2, <2>2, <3>1, Outside DEF ContKnowsDeath
  <2> QED BY <2>1, <2>2
<1>5. CASE PatchUnused
  <2>1. /\ pc' = "patch" /\ proc' = proc /\ proc # "running" /\ slot' = slot + 1
        /\ pid' = pid /\ path' = path /\ pc = "patch"
        /\ slot \in 0 .. MaxBreak /\ slot < MaxBreak
    BY <1>1, <1>5 DEF PatchUnused, TypeOK
  <2>2. \A i \in Slots : Covered(i) => Covered(i)'
    BY <1>5, CoveredKept DEF PatchUnused
  <2>3. Covered(slot)
    BY <1>5 DEF PatchUnused, Covered
  <2>4. proc = "stopped" => \A i \in Slots : i < slot => Covered(i)
    BY <2>1 DEF AnyUserInv
  <2>5. proc = "stopped" => \A i \in Slots : i < slot' => Covered(i)'
    BY <2>1, <2>2, <2>3, <2>4, SlotFacts
  <2> QED BY <1>2, <2>1, <2>5
          DEF AnyUserInv, RunsOnlyInWait, ArmedUnlessUnmapped, ContKnowsDeath
<1>6. CASE PatchCrash
  BY <1>3, <1>6 DEF PatchCrash
<1>7. ASSUME Patchable, proc = "stopped", PatchWord(BpAddr(slot)), proc' \in {"stopped", "reaped"},
             base' = base, UNCHANGED <<command, fileVars, pid>>
      PROVE  AnyUserInv'
  <2>1. /\ pc = "patch" /\ slot < MaxBreak /\ Used(slot)
        /\ eh' = eh /\ pid' = pid /\ path' = path /\ command' = command
    BY <1>7 DEF Patchable
  <2>2. \A i \in Slots : i < slot => Covered(i)
    BY <1>7, <2>1 DEF AnyUserInv
  <2>3. /\ pc' = "patch" => \A i \in Slots : i < slot' => Covered(i)'
        /\ pc' # "patch" => \A i \in Slots : Covered(i)'
    BY <1>7, <2>1, <2>2, PatchCovers
  <2>4. \/ pc' = "patch"
        \/ pc' = "resume" /\ command \in {"cont", "run"}
        \/ pc' = "prompt" /\ command \notin {"cont", "run"}
    BY <1>7, <2>1 DEF PatchWord, PatchFails, PatchReturns
  <2> QED BY <1>2, <1>7, <2>1, <2>3, <2>4
          DEF AnyUserInv, RunsOnlyInWait, ArmedUnlessUnmapped, ContKnowsDeath
<1>8. ASSUME PatchFails, proc' \in {"zombie", "reaped"}, UNCHANGED <<command, fileVars, pid>>
      PROVE  AnyUserInv'
  <2>1. \/ pc' = "resume" /\ command' \in {"cont", "run"}
        \/ pc' = "prompt" /\ command' \notin {"cont", "run"}
    BY <1>8 DEF PatchFails, PatchReturns
  <2> QED BY <1>2, <1>8, <2>1
          DEF AnyUserInv, RunsOnlyInWait, ArmedUnlessUnmapped, ContKnowsDeath
<1>9. CASE PatchSlot
  BY <1>7, <1>9 DEF PatchSlot
<1>10. ASSUME NEW x \in StepOutcomes, PatchStepOff(x) PROVE AnyUserInv'
  <2>1. CASE x.kind = "exit"
    BY <1>8, <1>10, <2>1 DEF PatchStepOff, SingleStep
  <2>2. CASE x.kind # "exit"
    BY <1>7, <1>10, <2>2 DEF PatchStepOff, SingleStep
  <2> QED BY <2>1, <2>2
<1>11. CASE PatchDead
  BY <1>8, <1>11 DEF PatchDead
<1>12. CASE Resume
  <2>1. \A i \in Slots : Covered(i) => Covered(i)'
    BY <1>12, CoveredKept DEF Resume
  <2> QED BY <1>1, <1>2, <1>12, <2>1
          DEF Resume, AnyUserInv, RunsOnlyInWait, ArmedUnlessUnmapped, ContKnowsDeath
<1>13. ASSUME NEW i \in Slots, WaitHit(i) PROVE AnyUserInv'
  BY <1>2, <1>13, Outside DEF WaitHit, ContKnowsDeath
<1>14. CASE WaitMiss \/ WaitExit
  BY <1>2, <1>14 DEF WaitMiss, WaitExit, AnyUserInv, RunsOnlyInWait, ArmedUnlessUnmapped,
                     ContKnowsDeath
<1>15. CASE WaitCrash
  BY <1>3, <1>15 DEF WaitCrash
<1>16. CASE WaitGone
  BY <1>16, PidFact, Outside DEF WaitGone, Forget, ContKnowsDeath
<1>17. CASE UnpatchSlot \/ UnpatchDone \/ ReadText
  BY <1>1, <1>2, <1>17, Outside DEF UnpatchSlot, UnpatchDone, ReadText, Enter, ContKnowsDeath
<1> QED BY <1>4, <1>5, <1>6, <1>9, <1>10, <1>11, <1>12, <1>13, <1>14, <1>15, <1>16, <1>17
        DEF Debugger, Patch, Wait

(* Nor does the tracee.                                                     *)
LEMMA TraceeKeeps ==
  ASSUME TypeOK, AnyUserInv, Runs \/ Disturbed
  PROVE  AnyUserInv'
<1> USE DEF debuggerVars, fileVars, viewVars
<1>1. pc' = pc /\ command' = command /\ slot' = slot /\ pid' = pid /\ path' = path
  BY DEF Runs, Disturbed
<1>2. \/ proc = "running" /\ proc' \in {"running", "stopped", "zombie"}
      \/ proc = "stopped" /\ proc' = "zombie"
  BY DEF Runs, Disturbed, Execute, Signalled, Killed, Live
<1>3. proc' # "zombie" => \A i \in Slots : Covered(i) => Covered(i)'
  BY CoveredKept DEF Runs, Disturbed, Execute, Signalled, Killed
<1> QED BY <1>1, <1>2, <1>3
        DEF AnyUserInv, RunsOnlyInWait, ArmedUnlessUnmapped, ContKnowsDeath

(* For every user and every tracee: a running tracee is always being waited *)
(* for, has every breakpoint armed that no unmapped one precedes, and its   *)
(* death is noticed by cont and run.                                        *)
THEOREM AnyUserInvariant == Spec => []AnyUserInv
<1>1. Init => AnyUserInv
  <2> SUFFICES ASSUME Init PROVE AnyUserInv
    OBVIOUS
  <2>1. proc = "none" /\ pc = "prompt" /\ command = "help" /\ pid # Pid
    BY PidFact DEF Init
  <2> QED BY <2>1 DEF AnyUserInv, RunsOnlyInWait, ArmedUnlessUnmapped, ContKnowsDeath
<1>2. TypeOK /\ AnyUserInv /\ [Next]_vars => AnyUserInv'
  <2> SUFFICES ASSUME TypeOK, AnyUserInv, [Next]_vars PROVE AnyUserInv'
    OBVIOUS
  <2>1. CASE UNCHANGED vars
    BY <2>1 DEF vars, traceeVars, fileVars, viewVars, AnyUserInv, RunsOnlyInWait,
                ArmedUnlessUnmapped, ContKnowsDeath, Covered, Armed, Used, BpAddr,
                convert_dynamic_addr, WordMapped
  <2>2. CASE UserLoads \/ UserSteers \/ UserEdits \/ UserLooks
    BY <2>2, UserKeeps
  <2>3. CASE Debugger
    BY <2>3, DebuggerKeeps
  <2>4. CASE Runs \/ Disturbed
    BY <2>4, TraceeKeeps
  <2> QED BY <2>1, <2>2, <2>3, <2>4 DEF Next, Over
<1> QED BY <1>1, <1>2, TypeCorrect, PTL DEF Spec

(* The tracee runs only while cont or run waits for it.                     *)
THEOREM TraceeWatched == Spec => []RunsOnlyInWait
<1>1. AnyUserInv => RunsOnlyInWait
  BY DEF AnyUserInv
<1> QED BY <1>1, AnyUserInvariant, PTL

(* A running tracee has every breakpoint armed that no unmapped one         *)
(* precedes in the table.                                                   *)
THEOREM BreakpointsArmed == Spec => []ArmedUnlessUnmapped
<1>1. AnyUserInv => ArmedUnlessUnmapped
  BY DEF AnyUserInv
<1> QED BY <1>1, AnyUserInvariant, PTL

(* After cont or run, sdb->pid is -1 or a process that still exists.        *)
THEOREM DeathNoticed == Spec => []ContKnowsDeath
<1>1. AnyUserInv => ContKnowsDeath
  BY DEF AnyUserInv
<1> QED BY <1>1, AnyUserInvariant, PTL

(* Whatever loads succeed and fail, a handle with section headers never     *)
(* comes with a string table of a file that has been closed.                *)
THEOREM StrtabNeverDangles == Spec => []StrtabMatchesHandle
<1>1. Init => StrtabMatchesHandle
  BY DEF Init, NullEh, StrtabMatchesHandle
<1>2. StrtabMatchesHandle /\ [Next]_vars => StrtabMatchesHandle'
  <2> SUFFICES ASSUME StrtabMatchesHandle, [Next]_vars PROVE StrtabMatchesHandle'
    OBVIOUS
  <2> USE DEF traceeVars, fileVars, viewVars
  <2>1. CASE UserLoads
    BY <2>1 DEF UserLoads, LoadUnopened, LoadUnloaded, LoadUnnamed, LoadProgram, NullEh,
                StrtabMatchesHandle
  <2>2. CASE UNCHANGED <<eh, strtab>>
    BY <2>2 DEF StrtabMatchesHandle
  <2>3. CASE UNCHANGED vars
    BY <2>2, <2>3 DEF vars
  <2>4. CASE UserSteers \/ UserEdits
    BY <2>2, <2>4 DEF UserSteers, Start, Run, Cont, Step, SetRip, UserEdits, Break, BreakCrash,
                      Delete, Quit
  <2>5. CASE UserLooks
    <3>1. ASSUME NEW x, Disasm(x) PROVE UNCHANGED <<eh, strtab>>
      BY <3>1 DEF Disasm, DisasmFile, DisasmCrash, DisasmLive, Quit
    <3>2. CASE VmmapCrash \/ Exit
      BY <2>2, <3>2 DEF VmmapCrash, Exit, Quit
    <3>3. ASSUME NEW c \in Commands, Prints(c) PROVE UNCHANGED <<eh, strtab>>
      BY <3>3 DEF Prints
    <3> QED BY <2>2, <2>5, <3>1, <3>2, <3>3, OnlyPrints DEF UserLooks, DisasmNext
  <2>6. CASE Debugger
    <3>1. CASE Patch
      BY <2>2, <3>1 DEF Patch, PatchDone, PatchUnused, PatchCrash, PatchSlot, PatchStepOff,
                        PatchDead, Quit
    <3>2. CASE Wait
      BY <2>2, <3>2 DEF Wait, WaitHit, WaitMiss, WaitCrash, WaitExit, WaitGone, Quit
    <3> QED BY <2>2, <2>6, <3>1, <3>2 DEF Debugger, Resume, UnpatchSlot, UnpatchDone, ReadText
  <2>7. CASE Runs \/ Disturbed
    BY <2>2, <2>7 DEF Runs, Disturbed, debuggerVars
  <2> QED BY <2>1, <2>3, <2>4, <2>5, <2>6, <2>7 DEF Next, Over
<1> QED BY <1>1, <1>2, PTL DEF Spec

-----------------------------------------------------------------------------
(* Commands come to an end.                                                 *)

(* The steps a command in progress has still to make, at most: the turns of *)
(* disasm's two loops, of sdb_patch_all_bp, the resume, and the reports of  *)
(* waitpid.                                                                 *)
StepsLeft ==
  CASE pc = "unpatch" -> 7 + MaxBreak + (MaxBreak - slot)
    [] pc = "read"    -> 6 + MaxBreak
    [] pc = "patch"   -> 5 + (MaxBreak - slot)
    [] pc = "resume"  -> 4
    [] pc = "wait"    -> IF proc = "reaped" THEN 1
                         ELSE IF proc = "running" \/ event THEN 3 ELSE 2
    [] OTHER          -> 0

(* What StepsLeft is at each step of the debugger, now and afterwards.      *)
LEMMA StepsLeftValues ==
  ASSUME TypeOK
  PROVE  /\ pc = "unpatch" => StepsLeft = 7 + MaxBreak + (MaxBreak - slot)
         /\ pc = "read" => StepsLeft = 6 + MaxBreak
         /\ pc = "patch" => StepsLeft = 5 + (MaxBreak - slot)
         /\ pc = "resume" => StepsLeft = 4
         /\ pc = "wait" => StepsLeft = IF proc = "reaped" THEN 1
                                       ELSE IF proc = "running" \/ event THEN 3 ELSE 2
         /\ pc \in {"prompt", "exited", "crashed"} => StepsLeft = 0
         /\ StepsLeft \in 0 .. 7 + 2 * MaxBreak
<1>1. MaxBreak \in Nat /\ slot \in 0 .. MaxBreak
  BY SizeFacts DEF TypeOK
<1>2. /\ pc = "unpatch" => StepsLeft = 7 + MaxBreak + (MaxBreak - slot)
      /\ pc = "read" => StepsLeft = 6 + MaxBreak
      /\ pc = "patch" => StepsLeft = 5 + (MaxBreak - slot)
      /\ pc = "resume" => StepsLeft = 4
      /\ pc = "wait" => StepsLeft = IF proc = "reaped" THEN 1
                                    ELSE IF proc = "running" \/ event THEN 3 ELSE 2
      /\ pc \in {"prompt", "exited", "crashed"} => StepsLeft = 0
  BY DEF StepsLeft
<1>3. pc \in {"prompt", "patch", "unpatch", "read", "resume", "wait", "exited", "crashed"}
  BY DEF TypeOK
<1> QED BY <1>1, <1>2, <1>3

(* Every step of a command in progress leaves fewer to make.                *)
LEMMA DebuggerAdvances ==
  ASSUME TypeOK, Debugger
  PROVE  StepsLeft' < StepsLeft
<1> USE DEF traceeVars, fileVars, viewVars
<1>1. MaxBreak \in Nat /\ slot \in 0 .. MaxBreak
  BY SizeFacts DEF TypeOK
<1>2. ASSUME pc' \in {"prompt", "exited", "crashed"} PROVE StepsLeft' = 0
  BY <1>2 DEF StepsLeft
<1>3. ASSUME pc \in {"unpatch", "read", "patch", "resume", "wait"} PROVE StepsLeft > 0
  BY <1>1, <1>3, StepsLeftValues
<1>4. ASSUME pc = "patch", PatchReturns PROVE StepsLeft' < StepsLeft
  <2>1. StepsLeft >= 5
    BY <1>1, <1>4, StepsLeftValues
  <2>2. StepsLeft' \in {0, 4}
    BY <1>4 DEF PatchReturns, StepsLeft
  <2>3. StepsLeft \in Nat
    BY <1>1, StepsLeftValues
  <2> QED BY <2>1, <2>2, <2>3
<1>5. ASSUME pc = "patch", slot' = slot + 1, pc' = pc PROVE StepsLeft' < StepsLeft
  <2>1. StepsLeft = 5 + (MaxBreak - slot)
    BY <1>5, StepsLeftValues
  <2>2. StepsLeft' = 5 + (MaxBreak - slot')
    BY <1>5 DEF StepsLeft
  <2> QED BY <1>1, <1>5, <2>1, <2>2
<1>6. ASSUME NEW a, pc = "patch", PatchWord(a) PROVE StepsLeft' < StepsLeft
  BY <1>4, <1>5, <1>6 DEF PatchWord, PatchFails
<1>7. CASE Patch
  <2>1. CASE PatchDone
    BY <1>4, <2>1 DEF PatchDone
  <2>2. CASE PatchUnused
    BY <1>5, <2>2 DEF PatchUnused
  <2>3. CASE PatchCrash
    BY <1>2, <1>3, <2>3 DEF PatchCrash, Quit
  <2>4. CASE PatchSlot
    BY <1>6, <2>4 DEF PatchSlot, Patchable
  <2>5. ASSUME NEW x \in StepOutcomes, PatchStepOff(x) PROVE StepsLeft' < StepsLeft
    BY <1>4, <1>6, <2>5 DEF PatchStepOff, PatchFails, Patchable
  <2>6. CASE PatchDead
    BY <1>4, <2>6 DEF PatchDead, PatchFails, Patchable
  <2> QED BY <1>7, <2>1, <2>2, <2>3, <2>4, <2>5, <2>6 DEF Patch
<1>8. CASE Resume
  <2>1. StepsLeft = 4
    BY <1>8, StepsLeftValues DEF Resume
  <2>2. StepsLeft' \in {1, 2, 3}
    BY <1>8 DEF Resume, StepsLeft
  <2> QED BY <2>1, <2>2
<1>9. CASE Wait
  <2>1. ASSUME NEW i \in Slots, WaitHit(i) PROVE StepsLeft' < StepsLeft
    BY <1>2, <1>3, <2>1 DEF WaitHit
  <2>2. CASE WaitCrash \/ WaitGone
    BY <1>2, <1>3, <2>2 DEF WaitCrash, WaitGone, Quit
  <2>3. CASE WaitMiss
    <3>1. StepsLeft = 3
      BY <2>3, StepsLeftValues DEF WaitMiss
    <3>2. StepsLeft' = 2
      BY <2>3 DEF WaitMiss, StepsLeft
    <3> QED BY <3>1, <3>2
  <2>4. CASE WaitExit
    <3>1. StepsLeft \in {2, 3}
      BY <2>4, StepsLeftValues DEF WaitExit
    <3>2. StepsLeft' = 1
      BY <2>4 DEF WaitExit, StepsLeft
    <3> QED BY <3>1, <3>2
  <2> QED BY <1>9, <2>1, <2>2, <2>3, <2>4 DEF Wait
<1>10. CASE UnpatchSlot
  <2>1. StepsLeft = 7 + MaxBreak + (MaxBreak - slot) /\ slot' = slot + 1
    BY <1>10, StepsLeftValues DEF UnpatchSlot
  <2>2. StepsLeft' = 7 + MaxBreak + (MaxBreak - slot')
    BY <1>10 DEF UnpatchSlot, StepsLeft
  <2> QED BY <1>1, <2>1, <2>2
<1>11. CASE UnpatchDone
  <2>1. StepsLeft = 7 + MaxBreak + (MaxBreak - slot)
    BY <1>11, StepsLeftValues DEF UnpatchDone
  <2>2. StepsLeft' = 6 + MaxBreak
    BY <1>11 DEF UnpatchDone, StepsLeft
  <2> QED BY <1>1, <2>1, <2>2
<1>12. CASE ReadText
  <2>1. StepsLeft = 6 + MaxBreak
    BY <1>12, StepsLeftValues DEF ReadText
  <2>2. StepsLeft' = 5 + (MaxBreak - 0)
    BY <1>12 DEF ReadText, Enter, StepsLeft
  <2> QED BY <1>1, <2>1, <2>2
<1> QED BY <1>7, <1>8, <1>9, <1>10, <1>11, <1>12 DEF Debugger

(* What the tracee does meanwhile never adds to them.                       *)
LEMMA TraceeAddsNothing ==
  ASSUME TypeOK, Runs \/ Disturbed
  PROVE  StepsLeft' <= StepsLeft
<1>1. pc' = pc /\ slot' = slot
  BY DEF Runs, Disturbed, debuggerVars
<1>2. StepsLeft \in Nat
  BY StepsLeftValues, SizeFacts
<1>3. CASE pc # "wait"
  <2>1. StepsLeft' = StepsLeft
    BY <1>1, <1>3 DEF StepsLeft
  <2> QED BY <1>2, <2>1
<1>4. CASE pc = "wait"
  <2>1. StepsLeft' = IF proc' = "reaped" THEN 1 ELSE IF proc' = "running" \/ event' THEN 3 ELSE 2
    BY <1>1, <1>4 DEF StepsLeft
  <2>2. StepsLeft = IF proc = "reaped" THEN 1 ELSE IF proc = "running" \/ event THEN 3 ELSE 2
    BY <1>4 DEF StepsLeft
  <2>3. CASE Runs \/ (Signalled /\ UNCHANGED debuggerVars)
    <3>1. proc = "running"
      BY <2>3 DEF Runs, Execute, Signalled
    <3>2. StepsLeft = 3 /\ StepsLeft' \in {1, 2, 3}
      BY <2>1, <2>2, <3>1
    <3> QED BY <3>2
  <2>4. CASE Killed /\ UNCHANGED debuggerVars
    <3>1. Live /\ proc' = "zombie" /\ event' = FALSE
      BY <2>4 DEF Killed, ClearText
    <3>2. StepsLeft' = 2 /\ StepsLeft \in {2, 3}
      BY <2>1, <2>2, <3>1 DEF Live
    <3> QED BY <3>2
  <2> QED BY <2>3, <2>4 DEF Disturbed
<1> QED BY <1>3, <1>4

(* The user adds to them only at the prompt.                                *)
LEMMA UserWaits ==
  ASSUME UserLoads \/ UserSteers \/ UserEdits \/ UserLooks
  PROVE  pc = "prompt"
<1> USE DEF Prompt
<1>1. CASE UserLoads
  BY <1>1 DEF UserLoads, LoadUnopened, LoadUnloaded, LoadUnnamed, LoadProgram
<1>2. CASE UserSteers
  BY <1>2 DEF UserSteers, Start, Run, Cont, Step, SetRip
<1>3. CASE UserEdits
  BY <1>3 DEF UserEdits, Break, BreakCrash, Delete
<1>4. CASE UserLooks
  <2>1. ASSUME NEW x, Disasm(x) PROVE pc = "prompt"
    BY <2>1 DEF Disasm
  <2>2. CASE VmmapCrash \/ Exit
    BY <2>2 DEF VmmapCrash, Exit
  <2>3. ASSUME NEW c \in Commands, Prints(c) PROVE pc = "prompt"
    BY <2>3 DEF Prints
  <2> QED BY <1>4, <2>1, <2>2, <2>3, OnlyPrints DEF UserLooks, DisasmNext
<1> QED BY <1>1, <1>2, <1>3, <1>4

(* For every user, program and table size: once typed, a command makes at   *)
(* most 7 + 2 MAX_BREAK steps of its own, whatever traps, dies or is        *)
(* signalled under it.  Only a waitpid with nothing to report can keep it   *)
(* from the prompt.                                                         *)
THEOREM CommandsBounded ==
  Spec => /\ [](StepsLeft \in 0 .. 7 + 2 * MaxBreak)
          /\ [][Debugger => StepsLeft' < StepsLeft]_vars
          /\ [][pc # "prompt" => StepsLeft' <= StepsLeft]_vars
<1>1. TypeOK => StepsLeft \in 0 .. 7 + 2 * MaxBreak
  BY StepsLeftValues
<1>2. TypeOK /\ [Next]_vars => [Debugger => StepsLeft' < StepsLeft]_vars
  BY DebuggerAdvances
<1>3. TypeOK /\ (StepsLeft \in 0 .. 7 + 2 * MaxBreak)' /\ [Next]_vars
        => [pc # "prompt" => StepsLeft' <= StepsLeft]_vars
  <2> SUFFICES ASSUME TypeOK, StepsLeft' \in 0 .. 7 + 2 * MaxBreak, Next, pc # "prompt",
                      ~UNCHANGED vars
               PROVE  StepsLeft' <= StepsLeft
    OBVIOUS
  <2>1. StepsLeft \in Nat
    BY StepsLeftValues, SizeFacts
  <2>2. CASE Debugger
    <3>1. StepsLeft' < StepsLeft
      BY <2>2, DebuggerAdvances
    <3>2. StepsLeft' \in Nat
      BY SizeFacts
    <3> QED BY <2>1, <3>1, <3>2
  <2> QED BY <2>2, TraceeAddsNothing, UserWaits DEF Next, Over
<1> QED BY <1>1, <1>2, <1>3, TypeCorrect, PTL DEF Spec
=============================================================================
