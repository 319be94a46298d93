-------------------------------- MODULE Sdb ---------------------------------
(***************************************************************************)
(* hw4's debugger: the command loop of hw4/main.c and the operations of    *)
(* hw4/sdb.h on one loaded program and one traced process.                 *)
(*                                                                         *)
(* A command is one action when it finishes without resuming the tracee.   *)
(* The loops that talk to the tracee are run step by step through pc:      *)
(*   "prompt"   waiting for the next line;                                 *)
(*   "patch"    sdb_patch_all_bp, at slot;                                 *)
(*   "unpatch"  the restoring loop of sdb_disasm, at slot;                 *)
(*   "read"     the PEEKTEXT loop of sdb_disasm;                           *)
(*   "resume"   the PTRACE_CONT of sdb_cont and sdb_run;                   *)
(*   "wait"     the waitpid loop after it;                                 *)
(*   "exited", "crashed"  the debugger is gone.                            *)
(***************************************************************************)
EXTENDS Tracee

CONSTANTS
    MaxBreak,     \* MAX_BREAK, slots of the breakpoint table
    ElfType,      \* e_type of the program: 2 ET_EXEC, 3 ET_DYN (PIE)
    Commands,     \* commands the user types
    FileKinds,    \* kinds of files the user gives to load
    BreakArgs,    \* addresses the user gives to break,
    DisasmArgs,   \*   to disasm
    RipArgs,      \*   and to set rip
    DisasmWords   \* words in sdb_disasm's buffer (64 / 8)

VARIABLES
    pc,           \* where the debugger is
    command,      \* main's command buffer
    slot,         \* loop index over sdb->breaks
    path,         \* sdb->path, "" when nothing is loaded
    eh,           \* sdb->eh: state of the ELF handle and its type field
    strtab,       \* sdb->strtab
    pid,          \* sdb->pid
    breaks,       \* sdb->breaks
    last_disasm_addr,
    shown         \* offsets at which the last disasm of a running program
                  \*   displayed something else than the program's byte

fileVars == <<path, eh, strtab>>
viewVars == <<last_disasm_addr, shown>>
vars == <<traceeVars, pc, command, slot, fileVars, pid, breaks, viewVars>>

Slots == 0 .. MaxBreak - 1
NoPid == -1
Pid   == 1
NullEh == [state |-> "null", type |-> 2]

AllCommands ==
    {"break", "cont", "delete", "disasm", "dump", "exit", "get", "getregs",
     "help", "list", "load", "run", "vmmap", "set", "si", "start"}

ASSUME SdbAssumption ==
    /\ MaxBreak \in Nat \ {0}
    /\ ElfType \in {2, 3}
    /\ ElfType = 2 => Bases = {0}
    /\ Commands \subseteq AllCommands
    /\ FileKinds \subseteq {"good", "unopened", "unloaded", "unnamed"}
    /\ BreakArgs \subseteq Nat
    /\ DisasmArgs \subseteq Nat
    /\ RipArgs \subseteq Nat
    /\ DisasmWords \in Nat \ {0}

Breakpoint == [is_used : {0, 1}, addr : Nat, original_word : Word]

(* Every variable stays in its type: sdb.h's structures hold what their     *)
(* declarations say, whatever the user types and the tracee does.           *)
TypeOK ==
    /\ TraceeTypeOK
    /\ pc \in {"prompt", "patch", "unpatch", "read", "resume", "wait", "exited", "crashed"}
    /\ command \in AllCommands
    /\ slot \in 0 .. MaxBreak
    /\ path \in {"", "program"}
    /\ eh \in [state : {"null", "bare", "full"}, type : {2, 3}]
    /\ strtab \in {"null", "ok", "dangling"}
    /\ pid \in {NoPid, Pid}
    /\ breaks \in [Slots -> Breakpoint]
    /\ last_disasm_addr \in Nat
    /\ shown \subseteq Off

Init ==
    /\ proc = "none" /\ base = 0 /\ rip = 0 /\ mem = Fresh /\ event = FALSE
    /\ pc = "prompt" /\ command = "help" /\ slot = 0
    /\ path = "" /\ eh = NullEh /\ strtab = "null" /\ pid = NoPid
    /\ breaks = [i \in Slots |-> [is_used |-> 0, addr |-> 0, original_word |-> Failed]]
    /\ last_disasm_addr = 0 /\ shown = {}

-----------------------------------------------------------------------------
(* Helpers.                                                                 *)

sdb_is_loaded  == path # ""
sdb_is_running == pid # NoPid

Used(i) == breaks[i].is_used = 1

\* The start of the program's r-x mapping is added; the code never looks at that
\* mapping's file offset, which is 0 in the programs modelled.  Addresses of a static program are counted from that
\* start already: adding it once more leads out of the text.
convert_dynamic_addr(a) == a + IF ElfType = 3 THEN base ELSE TextSize

\* Where the tracee has breakpoint i.
BpAddr(i) ==
    IF eh.type = 3 THEN convert_dynamic_addr(breaks[i].addr) ELSE breaks[i].addr

\* /proc/<pid>/maps of a process that is gone: fopen returns NULL and getline
\* crashes, or (zombie) the file may also be empty.
MapsMayFail == eh.type = 3 /\ proc \in {"zombie", "reaped"}
MapsMayOpen == ~(eh.type = 3 /\ proc = "reaped")

\* The next line from stdin names command c.
Prompt(c) == pc = "prompt" /\ c \in Commands /\ command' = c

\* The debugger ends; PTRACE_O_EXITKILL takes the tracee along.
Quit(how) ==
    /\ pc' = how /\ pid' = NoPid /\ Forget
    /\ UNCHANGED <<slot, fileVars, breaks, viewVars>>

Enter(loop) == pc' = loop /\ slot' = 0

\* Mutant: resume whatever the command was.
PatchReturnsResuming == pc' = "resume" /\ slot' = 0

\* What follows sdb_patch_all_bp in its caller.
PatchReturns ==
    /\ pc' = IF command \in {"cont", "run"} THEN "resume" ELSE "prompt"
    /\ slot' = 0

-----------------------------------------------------------------------------
(* sdb_load.                                                                *)

\* elf_close frees the string tables sdb->strtab points into.
elf_close == strtab' = IF strtab = "ok" THEN "dangling" ELSE strtab

LoadUnopened ==   \* elf_open fails
    /\ Prompt("load") /\ "unopened" \in FileKinds
    /\ eh' = NullEh /\ elf_close
    /\ UNCHANGED <<traceeVars, pc, slot, path, pid, breaks, viewVars>>

LoadUnloaded(t) ==   \* elf_load_all fails: no program or section headers
    /\ Prompt("load") /\ "unloaded" \in FileKinds
    /\ eh' = [state |-> "bare", type |-> t] /\ elf_close
    /\ UNCHANGED <<traceeVars, pc, slot, path, pid, breaks, viewVars>>

\* Mutant: a search that finds no string table leaves the freed one in place.
LoadUnnamedKeepsStrtab(t) ==
    /\ Prompt("load") /\ "unnamed" \in FileKinds
    /\ eh' = [state |-> "full", type |-> t] /\ elf_close
    /\ UNCHANGED <<traceeVars, pc, slot, path, pid, breaks, viewVars>>

LoadUnnamed(t) ==   \* no section header string table: the search ends in NULL
    /\ Prompt("load") /\ "unnamed" \in FileKinds
    /\ eh' = [state |-> "full", type |-> t] /\ strtab' = "null"
    /\ UNCHANGED <<traceeVars, pc, slot, path, pid, breaks, viewVars>>

LoadProgram ==
    /\ Prompt("load") /\ "good" \in FileKinds
    /\ eh' = [state |-> "full", type |-> ElfType] /\ strtab' = "ok"
    /\ path' = "program"
    /\ pid' = NoPid /\ Forget
    /\ breaks' = [i \in Slots |-> [breaks[i] EXCEPT !.is_used = 0]]
    /\ last_disasm_addr' = 0
    /\ UNCHANGED <<pc, slot, shown>>

-----------------------------------------------------------------------------
(* sdb_patch_all_bp, one slot per step.                                     *)

PatchDone ==
    /\ pc = "patch" /\ slot = MaxBreak
    /\ PatchReturns
    /\ UNCHANGED <<traceeVars, command, fileVars, pid, breaks, viewVars>>

PatchUnused ==
    /\ pc = "patch" /\ slot < MaxBreak /\ ~Used(slot)
    /\ slot' = slot + 1
    /\ UNCHANGED <<traceeVars, pc, command, fileVars, pid, breaks, viewVars>>

PatchCrash ==
    /\ pc = "patch" /\ slot < MaxBreak /\ Used(slot)
    /\ eh.state = "null" \/ MapsMayFail
    /\ Quit("crashed")
    /\ UNCHANGED command

Patchable ==
    pc = "patch" /\ slot < MaxBreak /\ Used(slot) /\ eh.state # "null" /\ MapsMayOpen

\* PEEKTEXT fails, its -1 is saved, POKETEXT fails: leave the whole loop.
PatchFails ==
    /\ breaks' = [breaks EXCEPT ![slot].original_word = Failed]
    /\ PatchReturns
    /\ UNCHANGED mem

\* Mutant: patch without looking for an int3 that is there already.
PatchWordBlind(a) ==
    \/ /\ Accessible(a)
       /\ breaks' = [breaks EXCEPT ![slot].original_word = Peek(a)]
       /\ mem' = Poke(a, [Peek(a) EXCEPT ![0] = INT3])
       /\ slot' = slot + 1
       /\ UNCHANGED pc
    \/ ~Accessible(a) /\ PatchFails

\* Read the word, leave it if it already starts with int3, else save and patch it.
PatchWord(a) ==
    \/ /\ Accessible(a) /\ Peek(a)[0] = INT3
       /\ slot' = slot + 1
       /\ UNCHANGED <<pc, breaks, mem>>
    \/ /\ Accessible(a) /\ Peek(a)[0] # INT3
       /\ breaks' = [breaks EXCEPT ![slot].original_word = Peek(a)]
       /\ mem' = Poke(a, [Peek(a) EXCEPT ![0] = INT3])
       /\ slot' = slot + 1
       /\ UNCHANGED pc
    \/ ~Accessible(a) /\ PatchFails

\* The tracee is elsewhere: no single step.
PatchSlot ==
    /\ Patchable /\ proc = "stopped" /\ rip # BpAddr(slot)
    /\ PatchWord(BpAddr(slot))
    /\ UNCHANGED <<proc, base, rip, event, command, fileVars, pid, viewVars>>

\* Mutant: patch under the tracee, without the single step.
PatchStepOffStays(x) ==
    /\ Patchable /\ proc = "stopped" /\ rip = BpAddr(slot)
    /\ PatchWord(BpAddr(slot))
    /\ UNCHANGED <<proc, base, rip, event, command, fileVars, pid, viewVars>>

\* The tracee stands on the breakpoint: let it run that instruction first.
PatchStepOff(x) ==
    /\ Patchable /\ proc = "stopped" /\ rip = BpAddr(slot)
    /\ SingleStep(x)
    /\ IF x.kind = "exit" THEN PatchFails ELSE PatchWord(BpAddr(slot))
    /\ UNCHANGED <<base, event, command, fileVars, pid, viewVars>>

\* The tracee is dead.  The registers GETREGS failed to fill may equal the
\* address, and then the waitpid of the failed single step reaps it.
PatchDead ==
    /\ Patchable /\ proc \in {"zombie", "reaped"}
    /\ proc' \in {proc, "reaped"}
    /\ PatchFails
    /\ UNCHANGED <<base, rip, event, command, fileVars, pid, viewVars>>

-----------------------------------------------------------------------------
(* sdb_start and sdb_run.                                                   *)

ForkFails ==
    /\ pid' = NoPid /\ Forget
    /\ UNCHANGED <<pc, slot>>

\* The waitpid for the child that has just been forked does not fail.
Launch ==
    /\ pid' = Pid
    /\ (\E b \in Bases : Exec(b)) \/ ExecFails
    /\ Enter("patch")

Start ==
    /\ Prompt("start") /\ sdb_is_loaded
    /\ ForkFails \/ Launch
    /\ UNCHANGED <<fileVars, breaks, viewVars>>

Run ==
    /\ Prompt("run") /\ sdb_is_loaded
    /\ \/ ~sdb_is_running /\ (ForkFails \/ Launch)
       \/ sdb_is_running /\ Enter("patch") /\ UNCHANGED <<traceeVars, pid>>
    /\ UNCHANGED <<fileVars, breaks, viewVars>>

-----------------------------------------------------------------------------
(* sdb_cont, and the end of sdb_run.                                        *)

\* Mutant: continue without sdb_patch_all_bp.
ContUnpatched ==
    /\ Prompt("cont") /\ sdb_is_running
    /\ Enter("resume")
    /\ UNCHANGED <<traceeVars, fileVars, pid, breaks, viewVars>>

Cont ==
    /\ Prompt("cont") /\ sdb_is_running
    /\ Enter("patch")
    /\ UNCHANGED <<traceeVars, fileVars, pid, breaks, viewVars>>

\* Mutant: no waitpid after PTRACE_CONT.
ResumeUnwaited ==
    /\ pc = "resume"
    /\ pc' = "prompt"
    /\ proc' = IF proc = "stopped" THEN "running" ELSE proc
    /\ UNCHANGED <<base, rip, mem, event, command, slot, fileVars, pid, breaks, viewVars>>

Resume ==   \* PTRACE_CONT fails silently when the tracee is not stopped
    /\ pc = "resume"
    /\ pc' = "wait"
    /\ proc' = IF proc = "stopped" THEN "running" ELSE proc
    /\ UNCHANGED <<base, rip, mem, event, command, slot, fileVars, pid, breaks, viewVars>>

\* Breakpoint i is the one the loop finds for a tracee stopped at rip.
Hit(i) == Used(i) /\ BpAddr(i) = rip - 1

FirstHit(i) == Hit(i) /\ \A j \in Slots : j < i => ~Hit(j)

\* Mutant: rip stays behind the int3.
WaitHitUnwound(i) ==
    /\ pc = "wait" /\ proc = "stopped" /\ event
    /\ eh.state # "null" /\ FirstHit(i)
    /\ mem' = Poke(BpAddr(i), breaks[i].original_word)
    /\ event' = FALSE /\ pc' = "prompt"
    /\ UNCHANGED <<proc, base, rip, command, slot, fileVars, pid, breaks, viewVars>>

\* Mutant: the word is not put back.
WaitHitUnrestored(i) ==
    /\ pc = "wait" /\ proc = "stopped" /\ event
    /\ eh.state # "null" /\ FirstHit(i)
    /\ rip' = rip - 1
    /\ event' = FALSE /\ pc' = "prompt"
    /\ UNCHANGED <<proc, base, mem, command, slot, fileVars, pid, breaks, viewVars>>

WaitHit(i) ==
    /\ pc = "wait" /\ proc = "stopped" /\ event
    /\ eh.state # "null" /\ FirstHit(i)
    /\ mem' = Poke(BpAddr(i), breaks[i].original_word)
    /\ rip' = rip - 1
    /\ event' = FALSE /\ pc' = "prompt"
    /\ UNCHANGED <<proc, base, command, slot, fileVars, pid, breaks, viewVars>>

\* Any other stop: back to waitpid, with the tracee still stopped.
WaitMiss ==
    /\ pc = "wait" /\ proc = "stopped" /\ event
    /\ eh.state # "null" /\ \A i \in Slots : ~Hit(i)
    /\ event' = FALSE
    /\ UNCHANGED <<proc, base, rip, mem, pc, command, slot, fileVars, pid, breaks, viewVars>>

WaitCrash ==
    /\ pc = "wait" /\ proc = "stopped" /\ event
    /\ eh.state = "null"
    /\ Quit("crashed")
    /\ UNCHANGED command

WaitExit ==   \* waitpid reports the death, the loop goes round once more
    /\ pc = "wait" /\ proc = "zombie"
    /\ proc' = "reaped"
    /\ UNCHANGED <<base, rip, mem, event, pc, command, slot, fileVars, pid, breaks, viewVars>>

\* Mutants: sdb->pid keeps its value; the loop does not look at waitpid's result.
WaitGoneKeepsPid ==
    /\ pc = "wait" /\ proc = "reaped"
    /\ pc' = "prompt"
    /\ UNCHANGED <<traceeVars, command, slot, fileVars, pid, breaks, viewVars>>

WaitGoneSpins == pc = "wait" /\ proc = "reaped" /\ UNCHANGED vars

WaitGone ==   \* waitpid fails: the loop ends
    /\ pc = "wait" /\ proc = "reaped"
    /\ pid' = NoPid /\ Forget
    /\ pc' = "prompt"
    /\ UNCHANGED <<command, slot, fileVars, breaks, viewVars>>

-----------------------------------------------------------------------------
(* sdb_set_break and sdb_delete.                                            *)

FirstFree(i) == ~Used(i) /\ \A j \in Slots : j < i => Used(j)
TableFull == \A i \in Slots : Used(i)

SetSlot(i, a) == breaks' = [breaks EXCEPT ![i] = [@ EXCEPT !.is_used = 1, !.addr = a]]

\* With the table full bp is uninitialised: the two stores may land anywhere,
\* in a slot too, or crash.
Break(a) ==
    /\ Prompt("break") /\ sdb_is_loaded
    /\ \/ \E i \in Slots : FirstFree(i) /\ SetSlot(i, a)
       \/ TableFull /\ \E i \in Slots : SetSlot(i, a)
       \/ TableFull /\ UNCHANGED breaks
    /\ IF sdb_is_running THEN Enter("patch") ELSE UNCHANGED <<pc, slot>>
    /\ UNCHANGED <<traceeVars, fileVars, pid, viewVars>>

BreakCrash ==
    /\ Prompt("break") /\ sdb_is_loaded /\ TableFull
    /\ Quit("crashed")

\* Mutant: the slot is freed and the text left as it is.
DeleteUnrestored(i) ==
    /\ Prompt("delete") /\ Used(i)
    /\ breaks' = [breaks EXCEPT ![i].is_used = 0]
    /\ UNCHANGED <<traceeVars, pc, slot, fileVars, pid, viewVars>>

\* The address is used as typed, without convert_dynamic_addr.
Delete(i) ==
    /\ Prompt("delete") /\ Used(i)
    /\ mem' = IF Peek(breaks[i].addr)[0] = INT3
                THEN Poke(breaks[i].addr, breaks[i].original_word) ELSE mem
    /\ breaks' = [breaks EXCEPT ![i].is_used = 0]
    /\ UNCHANGED <<proc, base, rip, event, pc, slot, fileVars, pid, viewVars>>

-----------------------------------------------------------------------------
(* sdb_disasm.                                                              *)

\* The instructions displayed move the cursor by their total size; nothing is
\* displayed when no byte could be read.
Advance(a, readable) ==
    last_disasm_addr' \in IF readable THEN a .. a + DisasmWords * WordSize ELSE {a}

\* Not running: the section of the file that holds a.
DisasmFile(a) ==
    /\ eh.state # "null" /\ ~sdb_is_running
    /\ eh.state = "full" /\ a \in Off => sdb_is_loaded
    /\ Advance(a, eh.state = "full" /\ a \in Off)
    /\ UNCHANGED <<traceeVars, pc, slot, fileVars, pid, breaks, shown>>

\* No handle, a handle without section headers, or no file to open.
DisasmCrash(a) ==
    /\ ~sdb_is_running
    /\ eh.state # "full" \/ (a \in Off /\ ~sdb_is_loaded)
    /\ Quit("crashed")

\* Mutant: read the text without the restoring loop.
DisasmLiveUnrestored(a) ==
    /\ sdb_is_running
    /\ last_disasm_addr' = a /\ Enter("read")
    /\ UNCHANGED <<traceeVars, fileVars, pid, breaks, shown>>

DisasmLive(a) ==
    /\ sdb_is_running
    /\ last_disasm_addr' = a /\ Enter("unpatch")
    /\ UNCHANGED <<traceeVars, fileVars, pid, breaks, shown>>

Disasm(a) ==
    Prompt("disasm") /\ (DisasmFile(a) \/ DisasmCrash(a) \/ DisasmLive(a))

\* Without an operand the previous listing is continued.
DisasmNext == last_disasm_addr # 0 /\ Disasm(last_disasm_addr)

\* Mutant: i <= MAX_BREAK.
UnpatchSlotPastEnd ==
    /\ pc = "unpatch" /\ slot <= MaxBreak
    /\ mem' = IF slot \in Slots /\ Used(slot)
                THEN Poke(breaks[slot].addr, breaks[slot].original_word) ELSE mem
    /\ slot' = slot + 1
    /\ UNCHANGED <<proc, base, rip, event, pc, command, fileVars, pid, breaks, viewVars>>

UnpatchSlot ==
    /\ pc = "unpatch" /\ slot < MaxBreak
    /\ mem' = IF Used(slot) THEN Poke(breaks[slot].addr, breaks[slot].original_word) ELSE mem
    /\ slot' = slot + 1
    /\ UNCHANGED <<proc, base, rip, event, pc, command, fileVars, pid, breaks, viewVars>>

UnpatchDone ==
    /\ pc = "unpatch" /\ slot = MaxBreak
    /\ pc' = "read"
    /\ UNCHANGED <<traceeVars, command, slot, fileVars, pid, breaks, viewVars>>

\* Text offsets the PEEKTEXT loop reaches from address a before it fails.
Readable(a) ==
    {o \in Off : \E k \in 0 .. DisasmWords - 1 :
        /\ a + k * WordSize <= base + o
        /\ base + o < a + (k + 1) * WordSize
        /\ \A j \in 0 .. k : Accessible(a + j * WordSize)}

ReadText ==
    /\ pc = "read"
    /\ LET seen == Readable(last_disasm_addr) IN
         /\ shown' = {o \in seen : mem[o] # o}
         /\ Advance(last_disasm_addr, seen # {})
    /\ Enter("patch")
    /\ UNCHANGED <<traceeVars, command, fileVars, pid, breaks>>

-----------------------------------------------------------------------------
(* sdb_step, sdb_set and the commands that only print.                      *)

Step(x) ==   \* an exit the waitpid reports is not looked at
    /\ Prompt("si") /\ sdb_is_running /\ proc = "stopped"
    /\ SingleStep(x)
    /\ UNCHANGED <<base, mem, event, pc, slot, fileVars, pid, breaks, viewVars>>

SetRip(a) ==
    /\ Prompt("set") /\ proc = "stopped"
    /\ rip' = a
    /\ UNCHANGED <<proc, base, mem, event, pc, slot, fileVars, pid, breaks, viewVars>>

\* Not running: the section names are looked up through eh and strtab.
VmmapMayCrash ==
    /\ sdb_is_loaded
    /\ IF sdb_is_running THEN proc \in {"zombie", "reaped"}
                         ELSE eh.state # "full" \/ strtab # "ok"

VmmapMayPrint ==
    ~(sdb_is_loaded /\ IF sdb_is_running THEN proc = "reaped"
                       ELSE eh.state = "null" \/ (eh.state = "full" /\ strtab # "ok"))

VmmapCrash ==
    /\ Prompt("vmmap") /\ VmmapMayCrash
    /\ Quit("crashed")

Prints(c) ==
    /\ Prompt(c)
    /\ UNCHANGED <<traceeVars, pc, slot, fileVars, pid, breaks, viewVars>>

Get      == Prints("get")       \* whether or not a tracee fills the registers
Getregs  == Prints("getregs")
Dump     == Prints("dump")
List     == Prints("list")
Vmmap    == VmmapMayPrint /\ Prints("vmmap")
Help     == Prints("help")
SetOther == Prints("set")       \* another register, or no tracee to set it in

Shows == Get \/ Getregs \/ Dump \/ List \/ Vmmap \/ Help \/ SetOther

\* The early returns of the other commands; a delete finds no such breakpoint.
Refused(c) ==
    /\ \/ c \in {"break", "start", "run"} /\ ~sdb_is_loaded
       \/ c \in {"cont", "si"} /\ ~sdb_is_running
       \/ c = "si" /\ proc # "stopped"
       \/ c = "delete"
       \/ c = "disasm" /\ last_disasm_addr = 0
    /\ Prints(c)

Exit == Prompt("exit") /\ Quit("exited")

\* The debugger is gone.
Over == pc \in {"exited", "crashed"} /\ UNCHANGED vars

-----------------------------------------------------------------------------
UserLoads == LoadUnopened \/ (\E t \in {2, 3} : LoadUnloaded(t) \/ LoadUnnamed(t)) \/ LoadProgram

UserSteers ==
    \/ Start \/ Run \/ Cont
    \/ \E x \in StepOutcomes : Step(x)
    \/ \E a \in RipArgs : SetRip(a)

UserEdits ==
    \/ \E a \in BreakArgs : Break(a)
    \/ BreakCrash
    \/ \E i \in Slots : Delete(i)

UserLooks ==
    \/ \E a \in DisasmArgs : Disasm(a)
    \/ DisasmNext
    \/ VmmapCrash
    \/ Shows
    \/ \E c \in Commands : Refused(c)
    \/ Exit

Patch == PatchDone \/ PatchUnused \/ PatchCrash \/ PatchSlot
         \/ (\E x \in StepOutcomes : PatchStepOff(x)) \/ PatchDead

Wait == (\E i \in Slots : WaitHit(i)) \/ WaitMiss \/ WaitCrash \/ WaitExit \/ WaitGone

\* A command in progress moves on without the user.
Debugger == Patch \/ Resume \/ Wait \/ UnpatchSlot \/ UnpatchDone \/ ReadText

debuggerVars == <<pc, command, slot, fileVars, pid, breaks, viewVars>>

Runs == (\E x \in Outcomes : Execute(x)) /\ UNCHANGED debuggerVars

Disturbed == (Signalled \/ Killed) /\ UNCHANGED debuggerVars

Next == UserLoads \/ UserSteers \/ UserEdits \/ UserLooks \/ Debugger \/ Runs \/ Disturbed \/ Over

Spec == Init /\ [][Next]_vars

-----------------------------------------------------------------------------
(* What the debugger promises.  The first three hold for every user; the    *)
(* others are the debugger's purpose, and hold for the careful user of      *)
(* module CarefulSdb.                                                       *)

(* The tracee runs only while sdb_cont or sdb_run waits for it: no command  *)
(* is ever read, and no ptrace request made, with the tracee running.       *)
RunsOnlyInWait ==
    proc = "running" => pc = "wait" /\ command \in {"cont", "run"}

Armed(i) == BpAddr(i) - base \in Off /\ mem[BpAddr(i) - base] = INT3

Covered(i) ==
    Used(i) => Armed(i) \/ \E j \in 0 .. i : Used(j) /\ ~WordMapped(BpAddr(j))

(* sdb_patch_all_bp misses nothing but what follows a slot it cannot patch: *)
(* when the tracee runs, every breakpoint in use is an int3 in its text,    *)
(* unless the table has an unmapped address at or before its slot.          *)
ArmedUnlessUnmapped == proc = "running" => \A i \in Slots : Covered(i)

(* A death is recognised by cont and run, though start and si overlook it:  *)
(* at the prompt after them sdb->pid is -1 or a process that still exists.  *)
ContKnowsDeath ==
    pc = "prompt" /\ command \in {"cont", "run"} /\ pid = Pid =>
        proc \in {"stopped", "zombie"}

(* The inductive invariant behind these three: how far the patch loop has   *)
(* come, and which commands get past it.                                    *)
AnyUserInv ==
    /\ RunsOnlyInWait /\ ArmedUnlessUnmapped /\ ContKnowsDeath
    /\ pc \in {"resume", "wait"} => command \in {"cont", "run"}
    /\ pid = Pid => path # ""
    /\ proc = "stopped" /\ pc = "patch" => \A i \in Slots : i < slot => Covered(i)
    /\ proc = "stopped" /\ pc = "resume" => \A i \in Slots : Covered(i)

(* sdb_load frees the string tables of the previous file: whatever sequence *)
(* of loads succeeds and fails, a handle with section headers never keeps a *)
(* freed table in sdb->strtab.                                              *)
StrtabMatchesHandle == eh.state = "full" => strtab # "dangling"

(* While the tracee runs every breakpoint in use is armed, if its word is   *)
(* mapped at all.                                                           *)
AllArmed ==
    proc = "running" => \A i \in Slots : Used(i) /\ WordMapped(BpAddr(i)) => Armed(i)

(* The text of the tracee is the program's, but for an int3 at each         *)
(* breakpoint in use: original_word always puts back the right bytes and no *)
(* int3 outlives its breakpoint.                                            *)
CodeIntact ==
    Live => \A o \in Off :
        mem[o] = o \/ (mem[o] = INT3 /\ \E i \in Slots : Used(i) /\ BpAddr(i) = base + o)

(* Except between a trap and the debugger's correction of rip, the tracee   *)
(* stands on an instruction of the program.                                 *)
TraceeOnTrack == Live /\ ~event => rip - base \in Insn

(* A cont or run that returns with the tracee alive has stopped it on a     *)
(* breakpoint in use, before the instruction there, with its text restored. *)
StopsOnBreakpoint ==
    pc = "prompt" /\ command \in {"cont", "run"} /\ proc = "stopped" =>
        \E i \in Slots : Used(i) /\ BpAddr(i) = rip /\ ~Armed(i)

(* disasm of a running program shows the program's bytes, "restore changes  *)
(* caused by break points" (sdb.h:550).                                     *)
DisasmShowsProgram == shown = {}

(* start stops the program "at the first instruction" (main.c:18).          *)
StartStopsAtEntry ==
    pc = "prompt" /\ command = "start" /\ proc = "stopped" => rip = base + Entry

(* A command comes back to the prompt, or the debugger ends.                *)
CommandReturns == pc # "prompt" ~> pc \in {"prompt", "exited", "crashed"}
=============================================================================
