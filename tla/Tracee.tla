------------------------------- MODULE Tracee -------------------------------
(***************************************************************************)
(* The traced process of hw4's debugger, as ptrace(2) and waitpid(2) show  *)
(* it.  The kernel and the CPU are not part of the repository: everything  *)
(* here is modelled from the way hw4/sdb.h uses them.                      *)
(*                                                                         *)
(* Text is TextSize bytes, loaded at the run-time address base.  Program   *)
(* bytes are abstracted to their identity: the byte the file holds at      *)
(* offset o is the number o, so mem[o] = o says "unmodified" and a byte    *)
(* written to the wrong place is recognised.  INT3 is the byte 0xcc (the   *)
(* program's own text is assumed not to contain it) and JUNK any byte that *)
(* is neither (an uninitialised word, or the -1 of a failed PEEKTEXT).     *)
(***************************************************************************)
EXTENDS Integers

CONSTANTS
    TextSize,   \* bytes of program text
    WordSize,   \* bytes moved by PEEKTEXT and POKETEXT, sizeof(long)
    Insn,       \* offsets at which an instruction of the program starts
    Length,     \* Length[o]: bytes of the instruction at offset o
    Succ,       \* Succ[o]: offsets the instruction at o may continue at
    Exits,      \* instructions that may end the process
    Entry,      \* offset of the first instruction after execve
    Bases,      \* addresses the kernel may load the text at
    Signals,    \* may other signals than the debugger's SIGTRAP arrive?
    Kills       \* may the process be killed from outside?

VARIABLES
    proc,       \* state of the process sdb->pid names
    base,       \* run-time address of text offset 0
    rip,        \* program counter, a run-time address
    mem,        \* text bytes
    event       \* a stop that waitpid has not reported yet

traceeVars == <<proc, base, rip, mem, event>>

Off  == 0 .. TextSize - 1
INT3 == -1
JUNK == -2
Byte == Off \cup {INT3, JUNK}
Word == [0 .. WordSize - 1 -> Byte]

ASSUME LayoutAssumption ==
    /\ TextSize \in Nat \ {0}
    /\ WordSize \in Nat \ {0}
    /\ Insn \subseteq Off
    /\ Length \in [Insn -> Nat \ {0}]
    /\ \A o \in Insn : o + Length[o] <= TextSize
    /\ Succ \in [Insn -> SUBSET Insn]
    /\ Exits \subseteq Insn
    /\ Entry \in Insn
    /\ Bases \subseteq Nat /\ Bases # {}
    /\ Signals \in BOOLEAN
    /\ Kills \in BOOLEAN

ProcStates == {"none", "stopped", "running", "zombie", "reaped"}

TraceeTypeOK ==
    /\ proc \in ProcStates
    /\ base \in Nat
    /\ rip \in Nat
    /\ mem \in [Off -> Byte]
    /\ event \in BOOLEAN

Fresh  == [o \in Off |-> o]                   \* text as the file holds it
Failed == [k \in 0 .. WordSize - 1 |-> JUNK]  \* PEEKTEXT's -1

Live == proc \in {"stopped", "running"}

-----------------------------------------------------------------------------
(* PTRACE_PEEKTEXT, PTRACE_POKETEXT: they need a stopped tracee and a word  *)
(* that lies in mapped memory as a whole.                                   *)

WordMapped(a) == base <= a /\ a + WordSize <= base + TextSize

Accessible(a) == proc = "stopped" /\ WordMapped(a)

Peek(a) ==
    IF Accessible(a) THEN [k \in 0 .. WordSize - 1 |-> mem[a - base + k]] ELSE Failed

Poke(a, w) ==
    IF Accessible(a)
      THEN [o \in Off |-> IF a <= base + o /\ base + o < a + WordSize
                            THEN w[base + o - a] ELSE mem[o]]
      ELSE mem

-----------------------------------------------------------------------------
(* What the CPU does with one instruction.                                  *)

AtInt3 == rip - base \in Off /\ mem[rip - base] = INT3

\* The instruction at rip is one of the program's, with all its bytes.
OnTrack ==
    /\ rip - base \in Insn
    /\ \A x \in (rip - base) .. (rip - base + Length[rip - base] - 1) : mem[x] = x

\* int3 leaves rip behind itself; an instruction of the program goes where the
\* program says; any other bytes may do anything.
Outcomes ==
    IF AtInt3 THEN {[kind |-> "trap", rip |-> rip + 1]}
    ELSE IF OnTrack
      THEN {[kind |-> "ran", rip |-> base + s] : s \in Succ[rip - base]}
           \cup {[kind |-> "exit", rip |-> rip] : x \in Exits \cap {rip - base}}
      ELSE {[kind |-> "ran", rip |-> base + x] : x \in Off}
           \cup {[kind |-> k, rip |-> rip] : k \in {"stop", "exit"}}

\* A pending signal stops a single step before the instruction runs, and a kill
\* between the request and its waitpid ends it.
StepOutcomes ==
    Outcomes
    \cup (IF Signals THEN {[kind |-> "stop", rip |-> rip]} ELSE {})
    \cup (IF Kills THEN {[kind |-> "exit", rip |-> rip]} ELSE {})

\* PTRACE_SINGLESTEP and the waitpid after it: stopped again, or gone.
SingleStep(x) ==
    /\ x \in StepOutcomes
    /\ rip' = x.rip
    /\ proc' = IF x.kind = "exit" THEN "reaped" ELSE "stopped"

\* A process that is gone has neither registers nor memory.
ClearText == base' = 0 /\ rip' = 0 /\ mem' = Fresh /\ event' = FALSE

\* fork, PTRACE_TRACEME, execve and the waitpid after them: the child stops at
\* its first instruction, or execve fails or a kill comes first and the child is
\* gone.  The program has no interpreter: with ld.so the first stop would lie
\* outside its text.
Exec(b) ==
    /\ b \in Bases
    /\ proc' = "stopped" /\ base' = b /\ rip' = b + Entry /\ mem' = Fresh
    /\ event' = FALSE

ExecFails == proc' = "reaped" /\ ClearText

\* sdb->pid no longer names the process.
Forget == proc' = "none" /\ ClearText

-----------------------------------------------------------------------------
(* What the process does by itself while it runs.                           *)

Execute(x) ==
    /\ proc = "running"
    /\ x \in Outcomes
    /\ rip' = x.rip
    /\ \/ x.kind = "ran" /\ UNCHANGED <<proc, event>>
       \/ x.kind = "exit" /\ proc' = "zombie" /\ UNCHANGED event
       \/ x.kind \in {"trap", "stop"} /\ proc' = "stopped" /\ event' = TRUE
    /\ UNCHANGED <<base, mem>>

Signalled ==
    /\ Signals
    /\ proc = "running"
    /\ proc' = "stopped" /\ event' = TRUE
    /\ UNCHANGED <<base, rip, mem>>

Killed ==
    /\ Kills
    /\ Live
    /\ proc' = "zombie" /\ ClearText
=============================================================================
