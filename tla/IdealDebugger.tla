--------------------------- MODULE IdealDebugger ----------------------------
(***************************************************************************)
(* What a user of hw4's debugger is promised, without int3, saved words,   *)
(* slots or waitpid: a program that is off, held or going, the instruction *)
(* it is at, and a set of points.  A going program never runs the          *)
(* instruction of a point: it is held there first.  A held program leaves  *)
(* a point only by running the one instruction that carries it.            *)
(***************************************************************************)
CONSTANTS Insn, Succ, Entry

VARIABLES
    points,   \* instructions with a breakpoint
    mode,     \* "off", "held" or "going"
    at        \* the next instruction of the program, Entry when it is off

IdealInit == points = {} /\ mode = "off" /\ at = Entry

TurnOff == mode' = "off" /\ at' = Entry

AddPoint ==
    /\ mode # "going"
    /\ \E p \in Insn \ points : points' = points \cup {p}
    /\ UNCHANGED <<mode, at>>

RemovePoint ==
    /\ mode # "going"
    /\ \E p \in points : points' = points \ {p}
    /\ UNCHANGED <<mode, at>>

Load == mode # "going" /\ points' = {} /\ TurnOff

Launch == mode # "going" /\ mode' = "held" /\ at' = Entry /\ UNCHANGED points

\* One instruction of a held program: asked for, or to leave a point.  sdb.h leaves
\* the point as soon as it arms the breakpoints, in cont and run but also in break and
\* disasm, so the ideal debugger does not say which command took the step.
StepHeld ==
    /\ mode = "held"
    /\ at' \in Succ[at]
    /\ UNCHANGED <<points, mode>>

\* The user moves a held program.
SetPc ==
    /\ mode = "held"
    /\ at' \in Insn \ points
    /\ UNCHANGED <<points, mode>>

Go ==
    /\ mode = "held" /\ at \notin points
    /\ mode' = "going"
    /\ UNCHANGED <<points, at>>

RunOn ==
    /\ mode = "going" /\ at \notin points
    /\ at' \in Succ[at]
    /\ UNCHANGED <<points, mode>>

HitPoint ==
    /\ mode = "going" /\ at \in points
    /\ mode' = "held"
    /\ UNCHANGED <<points, at>>

\* It ends, is killed, or the user abandons it.
Over == mode # "off" /\ TurnOff /\ UNCHANGED points

IdealNext ==
    \/ AddPoint \/ RemovePoint \/ Load \/ Launch \/ StepHeld \/ SetPc
    \/ Go \/ RunOn \/ HitPoint \/ Over

idealVars == <<points, mode, at>>

IdealSpec == IdealInit /\ [][IdealNext]_idealVars
=============================================================================
