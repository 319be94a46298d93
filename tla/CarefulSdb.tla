----------------------------- MODULE CarefulSdb -----------------------------
(***************************************************************************)
(* The debugger of module Sdb in the hands of a user, and with a program,  *)
(* for which its breakpoints work.  Each restriction below is needed:      *)
(* lifting one breaks a property below; two runs show it for two of them.  *)
(***************************************************************************)
EXTENDS Sdb

ASSUME CarefulAssumption ==
    \* Instructions of the program do not overlap.
    /\ \A o \in Insn : \A p \in Insn : o < p => o + Length[o] <= p
    \* Breakpoints are set on instructions, and their words are mapped
    \* and do not overlap.
    /\ BreakArgs \subseteq Insn
    /\ \A a \in BreakArgs : a + WordSize <= TextSize
    /\ \A a \in BreakArgs : \A b \in BreakArgs : a < b => a + WordSize <= b
    \* No instruction that carries a breakpoint leads to another one.
    /\ \A a \in BreakArgs : Succ[a] \cap BreakArgs = {}
    \* A PIE is loaded above the addresses of its file.
    /\ ElfType = 3 => \A b \in Bases : TextSize <= b
    \* The tracee receives no signals.
    /\ Signals = FALSE

UsedAddrs == {breaks[i].addr : i \in {j \in Slots : Used(j)}}

CarefulLoad ==   \* a file that does not load is only tried before the program
    \/ path = "" /\ (LoadUnopened \/ \E t \in {2, 3} : LoadUnloaded(t) \/ LoadUnnamed(t))
    \/ LoadProgram

CarefulBreak(a) ==   \* one breakpoint per address, as many as there are slots
    a \notin UsedAddrs /\ ~TableFull /\ Break(a)

CarefulDelete(i) ==   \* not in a PIE that is being traced
    (ElfType = 2 \/ ~Live) /\ Delete(i)

CarefulStep(x) ==   \* not onto a breakpoint
    (x.kind = "exit" \/ x.rip - base \notin UsedAddrs) /\ Step(x)

CarefulSetRip(a) ==   \* to an instruction without a breakpoint
    a - base \in Insn \ UsedAddrs /\ SetRip(a)

CarefulUser ==
    \/ CarefulLoad
    \/ Start \/ Run \/ Cont
    \/ \E x \in StepOutcomes : CarefulStep(x)
    \/ \E a \in RipArgs : CarefulSetRip(a)
    \/ \E a \in BreakArgs : CarefulBreak(a)
    \/ \E i \in Slots : CarefulDelete(i)
    \/ UserLooks

CarefulNext == CarefulUser \/ Debugger \/ Runs \/ Disturbed \/ Over

CarefulSpec == Init /\ [][CarefulNext]_vars

\* A command in progress is never abandoned, and the kernel keeps scheduling a
\* running tracee; nobody obliges the user to type, or a signal to arrive.
CarefulFairSpec == CarefulSpec /\ WF_vars(Debugger) /\ WF_vars(Runs)

-----------------------------------------------------------------------------
(* The inductive invariant behind the properties of Sdb.                    *)

OrigWord(a) == [k \in 0 .. WordSize - 1 |-> a + k]

(* sdb->path, eh and pid agree, and only a traced process is in a loop.     *)
SessionInv ==
    /\ path # "" => eh = [state |-> "full", type |-> ElfType]
    /\ pid = NoPid <=> proc = "none"
    /\ pid # NoPid => path # ""
    /\ pc \notin {"prompt", "exited", "crashed"} => pid # NoPid
    /\ proc = "running" => pc = "wait"
    /\ event => pc = "wait" /\ proc = "stopped"
    /\ Live => base \in Bases

(* Breakpoints in use are distinct and were asked for.                      *)
TableInv ==
    /\ \A i \in Slots : Used(i) => breaks[i].addr \in BreakArgs
    /\ \A i, j \in Slots : Used(i) /\ Used(j) /\ breaks[i].addr = breaks[j].addr => i = j

Trap(i) == mem[breaks[i].addr] = INT3

TextInv ==
    Live => \A o \in Off :
        mem[o] = o \/ (mem[o] = INT3 /\ \E i \in Slots : Used(i) /\ breaks[i].addr = o)

(* original_word is the program's word, except in the slots the current     *)
(* patch loop has not reached, which then are not armed either.             *)
SavedInv ==
    Live => \A i \in Slots : Used(i) =>
        \/ breaks[i].original_word = OrigWord(breaks[i].addr)
        \/ pc = "patch" /\ slot <= i /\ ~Trap(i)

ArmedInv ==
    Live => \A i \in Slots : Used(i) =>
        \/ Trap(i)
        \/ pc \in {"prompt", "unpatch", "read"}
        \/ pc = "patch" /\ slot <= i

(* The tracee stands on an instruction, never on an int3 before it resumes; *)
(* a stop that waitpid is about to report is the trap of a breakpoint.      *)
RipInv ==
    /\ Live /\ ~event => rip - base \in Insn
    /\ event => \E i \in Slots : Used(i) /\ base + breaks[i].addr = rip - 1
    /\ proc = "stopped" /\ pc # "wait" =>
         \A i \in Slots : Used(i) /\ base + breaks[i].addr = rip => ~Trap(i)
    /\ proc = "stopped" /\ pc = "wait" => event

CarefulInv == SessionInv /\ TableInv /\ TextInv /\ SavedInv /\ ArmedInv /\ RipInv

(* What disasm of a static program relies on: the restoring loop leaves no  *)
(* int3 behind, and nothing arms a breakpoint again before the text is read.*)
ViewInv ==
    /\ shown = {}
    /\ proc = "stopped" => \A i \in Slots :
           Used(i) /\ (pc = "read" \/ (pc = "unpatch" /\ i < slot)) => ~Trap(i)

-----------------------------------------------------------------------------
(* The debugger seen as module IdealDebugger.  From the trap to the         *)
(* correction of rip the tracee still counts as going, on the point.        *)

idealMode == IF ~Live THEN "off" ELSE IF proc = "running" \/ event THEN "going" ELSE "held"

idealAt == IF ~Live THEN Entry ELSE IF event THEN rip - base - 1 ELSE rip - base

Ideal == INSTANCE IdealDebugger WITH points <- UsedAddrs, mode <- idealMode, at <- idealAt

(* The debugger implements the ideal one: whatever the interleaving of      *)
(* patching, single steps, traps and deaths, a going program never runs the *)
(* instruction of a breakpoint before the user has seen it held there.      *)
ImplementsIdeal == Ideal!IdealSpec
=============================================================================
