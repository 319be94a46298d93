# Specifications of the Advanced UNIX Programming homeworks

The repository holds four programs: a lister of sockets (`hw1`), a preloaded
monitor of file activity (`hw2`), a small C library (`hw3`) and a debugger
(`hw4`). This directory specifies all four in TLA+, checks them with TLC on small
instances, and proves their main properties with TLAPS for every program, every
number of threads, processes and slots, and every sequence of commands, calls or
signals.

## 1. Inventory

| Component | State | Operations | What is hard |
|---|---|---|---|
| `hw4/sdb.h`: breakpoints, execution control, disassembly | `SDB`: ELF handle, string table, path, pid, table of `MAX_BREAK` breakpoints with saved words, disassembly cursor | `sdb_load`, `start`, `run`, `cont`, `step`, `set`, `set_break`, `delete`, `disasm`, `dump`, `get`, `getregs`, `list`, `vmmap` | shares the text of another process; saves and restores whole words for one-byte patches; single-steps inside a loop; the tracee traps, exits, is signalled or killed at any time |
| `hw4/main.c`: command loop | line buffer, last command | read a line, dispatch | ignores end of input and blank lines |
| kernel and CPU (external) | text, rip, process state | ptrace, waitpid, execve, signals | requests fail silently on a process that is not stopped |
| `hw4/elftool.c` | handle with lazily loaded tables | `elf_open`, `elf_close`, `elf_load_*` | ownership on error paths, entries never filled in, tables freed that a client still holds |
| `hw3/libmini.c` signals and jumps | signal mask, handlers, jump buffers | `sigaction`, `signal`, `sigprocmask`, `alarm`, `pause`, `setjmp`, `longjmp` | asynchronous handlers; mask restored by `longjmp` with `SIG_BLOCK` |
| `hw3/libmini.c`, `libmini64.asm` wrappers | `errno` | system calls, `perror`, `sleep` | `errno` overwritten between a failure and its report |
| `hw3/start.asm` | none | process start-up | nothing |
| `hw2/fsmon.c` | static name buffers, log file | 37 wrapped libc calls | name looked up after the object is closed; static buffers shared by threads, read when the line is printed; the log needs a descriptor of the program's own table |
| `hw1/main.cpp`, `hw1_utils.h` | list of connections | parse `/proc/net`, scan `/proc/*/fd`, filter, print | every step sees another state of `/proc` |

What makes each correct:

* **sdb.** The text of the tracee is the program's, but for an `int3` at each
  breakpoint in use. A running tracee has every breakpoint armed. It never runs
  from the middle of an instruction. A `cont` that returns has stopped on a
  breakpoint, or the process is gone and the debugger knows. Every command
  returns.
* **elftool.** No sequence of calls and failures uses or frees a block that is
  not held; what a failing call has acquired it gives back; a table once returned
  stays valid until the handle is closed or `elf_load_all` fails; symbols come
  with the string table they link to.
* **libmini.** `longjmp` restores the mask `setjmp` saw; a handler runs with the
  mask `sigaction` asked for. `errno` tells how the caller's own last call ended,
  and `perror` prints that error and no other, although both are made of steps that
  handlers interrupt.
* **fsmon.** A line names the object its call was about; the log's descriptor is
  given back; the program's own descriptors are what they would be without the
  monitor; the monitor does not kill the program.
* **socket lister.** Every connection is attributed to a process that held it, one
  that is held all the time is not missed, and with nothing else going on the
  report is complete and exact.

## 2. Modules

| Module | What it is |
|---|---|
| `Tracee` | the traced process as ptrace and waitpid show it: text, rip, process state, unreported stop. External: modelled from how `sdb.h` uses it |
| `Sdb` | the debugger; EXTENDS `Tracee`. One action per command that does not resume the tracee, one action per turn of each loop that talks to it. Also states every property, and the mutants |
| `CarefulSdb` | `Sdb` with the restrictions on user and program under which breakpoints work, the inductive invariant for them, and the refinement mapping |
| `IdealDebugger` | the abstract specification: a set of points, a program that is off, held or going, and the instruction it is at |
| `MCSdb`, `MCCarefulSdb` | the small programs for TLC |
| `SdbProofs`, `CarefulSdbProofs`, `IdealProofs` | the debugger's theorems: for every user, for careful ones, and the refinement |
| `MiniSignals` | libmini's signals and jumps, with the kernel's signal delivery (external) |
| `MiniErrno` | libmini's wrappers, `errno` and `perror`, with handlers on top of each other that call them too |
| `Fsmon` | the monitor in a program with several threads, and the kernel's descriptor table (external) |
| `Descriptors` | abstract: the descriptor table of a program without a monitor, which changes by one open, close, dup or dup2 at a time, each new descriptor the lowest that is free |
| `ElfTool` | the ELF handle, who owns which resource, and a client that calls in any order |
| `SocketLister` | the scan of `/proc`, and the processes that go on meanwhile (external) |
| `MCMiniSignals`, `MCMiniErrno`, `MCFsmon`, `MCElfTool`, `MCSocketLister` | their instances for TLC |
| `MiniSignalsProofs`, `MiniErrnoProofs`, `FsmonProofs`, `ElfToolProofs`, `SocketListerProofs` | their theorems |

`Tracee` is composed with `Sdb` by EXTENDS, `IdealDebugger` with `CarefulSdb` and
`Descriptors` with `Fsmon` by INSTANCE under a refinement mapping. `Sdb` sees of
`ElfTool` only whether the handle is open, has its headers, and whether the
string table it handed out has been freed; that the tables stay where they are
between `elf_open` and `elf_close` is what `ElfTool` establishes
(`KeptOrDropped`).

### How state and actions correspond to the code

`path`, `eh`, `strtab`, `pid`, `breaks` and `last_disasm_addr` are the fields of
`SDB`; `command` is `main`'s buffer; `slot` is the loop index `i`; `pc` says
which loop the debugger is in. `shown` is a history variable: the offsets at
which the last listing differed from the program.

Bytes are abstracted to identities: offset `o` of the file holds the number `o`,
`INT3` is `0xcc`, `JUNK` is any other byte. So "the right byte is back" is
`mem[o] = o`, and a word saved in one place and written to another is
recognised. A program is a set of instruction starts, their lengths and
successors; an instruction whose bytes are not the program's may do anything.
`WordSize` stands for `sizeof(long)`; the word is longer than an instruction, as
in the code, which is where the overlaps come from.

| Code | Actions |
|---|---|
| `sdb_load` and its early returns | `LoadUnopened`, `LoadUnloaded`, `LoadUnnamed`, `LoadProgram` |
| `sdb_patch_all_bp` | `PatchUnused`, `PatchSlot`, `PatchStepOff`, `PatchDead`, `PatchCrash`, `PatchDone` (one turn each) |
| `sdb_start`, `sdb_run`, `sdb_cont` up to the patch loop | `Start`, `Run`, `Cont` |
| `PTRACE_CONT` | `Resume` |
| the waitpid loop of `sdb_cont` and its copy in `sdb_run` | `WaitHit`, `WaitMiss`, `WaitExit`, `WaitGone`, `WaitCrash` |
| `sdb_set_break`, `sdb_delete` | `Break`, `BreakCrash`, `Delete` |
| `sdb_disasm` | `Disasm`, `DisasmNext`, then `UnpatchSlot`, `UnpatchDone`, `ReadText` and the patch loop |
| `sdb_step`, `sdb_set` | `Step`, `SetRip`, `SetOther` |
| commands that print | `Get`, `Getregs`, `Dump`, `List`, `Vmmap`, `VmmapCrash`, `Help` |
| other early returns | `Refused` |
| the tracee by itself | `Runs` (`Execute`), `Disturbed` (`Signalled`, `Killed`) |

Undefined behaviour is a choice over its outcomes: with a full table the two
stores of `sdb_set_break` may change any slot, nothing, or crash;
`original_word` of a slot never patched is a word of junk; `fopen` of the maps
of a reaped process is a crash, of a zombie perhaps an empty file.

`run` on a running program only prints a message and then goes on as `cont`:
that is what the code does (`sdb.h:422-428`), and so does the model.

A kill may come between any two requests, between `PTRACE_SINGLESTEP` and its
waitpid too (`StepOutcomes`). The waitpid of `sdb_start` is taken not to fail
(`sdb.h:313-316`): it names a child that has just been forked and that nobody
else waits for. A program starts at its entry point and its r-x mapping at offset
0 of its file, which is true of a statically linked one with a single segment;
with an interpreter the first stop lies in `ld.so`, and with several segments
`convert_dynamic_addr`, which parses the offset and does not use it
(`sdb.h:64-67`), is wrong by that offset. Both are assumptions on the program,
not results.

`IdealDebugger` lets a held program run the instruction that carries it off a
point at any time (`StepHeld`). It has to: `sdb.h` takes that step wherever it
arms the breakpoints, in `cont` and `run`, but in `break` and `disasm` too. The
refinement therefore says nothing of which command moves a held program; that
`start` does is shown by `start_entry` and delimited by the theorem `StartStops`.

### libmini

`mask`, `pending`, `action` and `timer` are what the kernel keeps for the
process; `frames` are the contexts that handlers have interrupted, each with the
mask that its return restores; `at` is where in the library the running context
is; `jb` is the jump buffer. A flag word is the set of its bits, so that the
`SA_NOMASK` and `SA_ONESHOT` of `libmini.h:153-154` are bits of their own and not
the kernel's `SA_NODEFER` and `SA_RESETHAND` (`libmini.h:143-145`).

| Code | Actions |
|---|---|
| `sigprocmask`, `sigaction`, `signal`, `alarm` | one each; `KernelAction` is `SET_SA_RESTORER`, `SignalAct` what `signal` fills in |
| `pause`, `sleep` | `pause`, `sleep`, and their returns after a handler or the time |
| `setjmp` | `Setjmp` (registers), `SetjmpMask` |
| `longjmp` | `Longjmp` (mask), `LongjmpLands` (registers) |
| return from a handler | `restore_rt` |
| kernel (external) | `Deliver`, `Sent`, `TimerFires` |

Handlers are programs too: they may call everything but `setjmp`, whose frame
would be gone when it is jumped to. `longjmp` is called once `setjmp` has
returned, from a handler as well.

### errno and perror

`frames` is the stack of contexts: the program's, and one per handler that has
interrupted the one below. A wrapper is the system call (`Syscall`, whose result
is any), the store of 0 (`ClearErrno`) and the store of the error
(`StoreErrno`); `open` is one store on either path, as in the assembly. `perror`
is a step per `write`, each of which goes through the wrapper and so through
`errno` itself. A handler either saves and restores `errno` or does not
(`Frame.save`); the ghosts `last`, `clean`, `asked` and `sure` say what a context
is entitled to find.

`errmsg` ends at `PERRMSG_MAX`: what `perror` reads behind it is `Wild`. Its check
is of the current `errno`, which the writes of a prefix have replaced by then, and
not of the one it was called about (`libmini.c:338-339`). So an error beyond the
table, with a prefix, is looked up past its end, where the code without a prefix
prints "Unknown". `PerrorSays` does not call that right. It says that a message is
always that of the error asked about, "Unknown", or `Wild`; that `Wild` needs an
error without a message; and that, with nothing to disturb the check, it comes
exactly when there is a prefix as well. The errors of a write to stderr are any
(`WriteCodes`): one beyond the table (a disk quota exceeded, say) makes
`perror` print "Unknown" for an error it knows, which `sure` tells apart.

### fsmon

Each thread is at a step `pc` of a monitored call. `Call` is the real function,
done first, as the macros do (`fsmon.c:114-134`); then the arguments of
`write_msg` are computed, right to left as the compiler does: the text
(`CopyText`, `AddNewline`), then the name (`FormatStd` or `FormatPath`,
`ReadLink`, `EndName`), or the type (`StatType`, `StatBuff`); then `OpenLog` or
`UseStderr`, `PrintLine` and `CloseLog`. `fclose` alone names its stream before
it closes it (`CloseStream`). The static buffers are `fd_path`, `filename`,
`type`, `buff`, `buff1` and `buff2`; a text is the sequence of its characters,
because what `strncpy` leaves of an older one is a question of positions. Writing
and reading a buffer that another thread is writing is a data race: the outcome
is either text or a mixture (`Torn`). The ghost `spoiled` says what other threads
have disturbed of a call, and `clobbered` that the program has itself closed or
duplicated a descriptor of the log.

Three things the lines show are not what the call was about, and the properties
say so instead of hiding it: the name of a descriptor that was not open is that of
an earlier call (`fsmon.c:55-56`), a text may be followed by the tail of a longer
one (`fsmon.c:106`), and `closedir`'s name is looked up too late. `Transparent`
compares the table, without the log's descriptors, with `Descriptors`, where a new
descriptor is the lowest free one and a full table is `EMFILE`. While one thread
writes its line, the number of its log is not available to another; that is the
only difference the property allows (`LogFds`), and with one thread there is none
(`AloneTransparent`). From the moment the program itself closes or duplicates a
log's descriptor nothing is claimed: the monitor may then close the program's
file, as the code does.

The monitored functions are grouped by what they do to the table and what their
line shows: `PathOps`, `OpenOps`, `NumberOps`, `StreamOps`, `TextOps`, `StatOps`.

### elftool

A resource (descriptor, `Elf`, malloc'ed block) is a `Block` with its kind, its
section and the number of the call that acquired it; `live` is the set of those
held. A function is an operator from a state to the set of states it may end in,
so that `elf_load_all` is composed of the functions it calls; the set has one
member per place where `malloc`, `open`, `pread` or libelf may fail. A header,
program header or section header that libelf does not find is dereferenced all the
same (`crashed` is "header"; fields `ehdr`, `phdrs`, `shdrs` of a file). Memory that
`malloc` returns and nobody fills in is a choice: entry 0 of the section headers,
and `symtab->strtab` when the search finds nothing.

### Socket lister

`parse_protocol` reads one table, `ReadProc` the process numbers, `OpenFds` and
`ReadLink` go through their descriptors in ascending order, as `/proc` lists
them; `Filter` and `print_entry` read the owner's command line. A directory is
read when it is opened: what the kernel hands out later in pieces is taken as one
answer, the one libc has buffered. Between any two steps the processes close,
pass on, fork, exec and exit (`Processes`), up to `MaxChanges` times.

The directory of a process that belongs to another user (`Private` command lines;
an exec may make a process one) cannot be opened, and like that of a process that
has ended it is then read through NULL (`main.cpp:90-92`): run by an ordinary user
on an ordinary system, the program dies of it. `print_entry` copies both ends of a
connection and the first word of the command line into 32 bytes each
(`hw1_utils.h:56-59`, `69-70`): for `Wide` sockets, which only the IPv6 tables
have, and `Long` command lines the model crashes or prints anything.

### The careful user

`CarefulSdb` restricts `Sdb` to what its breakpoints can bear. Each restriction
answers a hazard of the code:

| Restriction | Code that needs it |
|---|---|
| breakpoints on instruction starts, words mapped | `sdb.h:286`: the loop ends at the first word it cannot write |
| words of breakpoints do not overlap, one breakpoint per address | `sdb.h:279-281`: the saved word holds the neighbour's `int3`, or nothing is saved |
| no instruction with a breakpoint leads to another one | `sdb.h:272-276`: the step off one ends on the `int3` of the other |
| `si` and `set rip` not onto a breakpoint | `sdb.h:692-704`: no restoring, no correction of rip |
| no `delete` while a PIE is traced | `sdb.h:682`: address as typed |
| a PIE is loaded above its file addresses | `sdb.h:555`, `682`: the unconverted address must not be mapped |
| at most `MAX_BREAK` breakpoints | `sdb.h:655-664` |
| files that do not load only before the program | `sdb.h:118-140` |
| no signals to the tracee | `sdb.h:345-384` |

Restrictions that no run lifts are lifted in `any_user`, which checks what holds
without them. What goes wrong then is known: with two breakpoints less than a
word apart the saved word of one holds the `int3` of the other, and deleting both
leaves it in the text; in a PIE `disasm` restores the text at the file's
addresses (`sdb.h:555`) and shows the `int3`; a signal to the tracee is answered with another waitpid and
no `PTRACE_CONT`, and the command never returns; after a load that fails,
`sdb->path` vouches for a handle that is gone and `vmmap`, `disasm` and the patch
loop dereference it.

## 3. Runs

Expected to pass:

| Run | Checks | Instance |
|---|---|---|
| `careful_static` | `CarefulInv`, `CodeIntact`, `AllArmed`, `TraceeOnTrack`, `StopsOnBreakpoint`, `DisasmShowsProgram`, the refinement `ImplementsIdeal`, and `CommandReturns` under fairness | five instructions of one and two bytes that run to an exit, words of three bytes, two slots, two breakpoints, base 0, loads that fail before the program is loaded |
| `careful_pie` | `CarefulInv`, `StopsOnBreakpoint`, `ImplementsIdeal` | the same program with a loop, at base 8 or 16, chosen anew by each `start` |
| `any_user` | `TypeOK`, `AnyUserInv`, `RunsOnlyInWait`, `ArmedUnlessUnmapped`, `ContKnowsDeath`, `StrtabMatchesHandle` | any user, all sixteen commands; a PIE of two instructions in three bytes; breakpoints on the first and on one whose word is not mapped; loads that fail; signals and kills |
| `signals` | `SignalsInv`, `NoReentry`, `JumpKeepsBlocked`, `DiesByDefault` | any program; two signals, handlers installed by `signal`, by `sigaction` plain and one-shot with a full mask; handlers only add to the mask; three frames |
| `errno` | `ErrnoInv`, `ErrnoTellsFate`, `PerrorSays` | error numbers within and beyond the message table, for every call and for the writes of `perror`; the program and one handler on top of it, careful and careless |
| `fsmon` | `FsmonInv`, `LineTrue`, `TextBegins`, `LogHeld`, `CrashNeedsFull`, `Transparent` | two threads, two descriptors (stdout and one more), functions of every group but `closedir`, which `closedir_name` runs and the proofs include, texts of two lengths, three calls |
| `elftool` | `ElfInv`, `MemorySafe`, `OnlyTablesLeak`, `SymbolsRight`, `KeptOrDropped` | four calls on files with tables, without, with a link to a section that is no string table, and truncated ones: without header, without program headers, without section headers |
| `sockets` | `ListerInv`, `OwnerHeld`, `KeptFound`, `CrashNeedsCause`, `QuietReport` | two processes with two descriptors each, a TCP and a UDP6 connection whose ends do not fit their buffers, four starting tables, command lines that match and do not, one too long and one of another user's process, four option sets, with and without the IPv6 tables, two changes meanwhile |

Expected to be violated, each a disagreement between the code and what its help
text, a comment or a test says:

| Run | Property | What happens |
|---|---|---|
| `neighbours` | `TraceeOnTrack` | breakpoints on two consecutive instructions; `cont` from the first ends in the middle of the second |
| `start_entry` | `StartStopsAtEntry` | `start` with a breakpoint on the entry point has run one instruction |
| `jump_mask` | `JumpRestoresMask` | what was blocked after `setjmp` stays blocked after `longjmp`; the test says "The sigmask is preserved" (`hw3/jmp2.c:25`) and looks at a signal blocked before |
| `closedir_name` | `ClosedirNamed` | `closedir` names its directory after it is closed; the comment (`hw2/fsmon.c:136`) says before |

**Bounds.** Two slots show every order of two breakpoints and an unused slot
before, between and after them; a third adds no new pair of overlapping words.
Words of three bytes reach past one instruction of two. Two bases show a stale
base. Two signals show a handler that interrupts another one and a mask that
differs in one signal; three frames are one more than there can be unless a
handler is re-entered, and for `errno` the two contexts are a program and a
handler that interrupts it at every step, which is what a save and a restore
around a call need. Two threads are all a race on a static buffer needs; the
descriptors, stdout and one more, leave the
table with none, one or both to spare; three calls are one that leaves something
behind, one that finds it and one that interferes. Four calls of elftool are
open, a load that fails or not, a second one, and close. Two changes by other
processes can undo each other's effect on one connection. The loop over the table, the word and the
text are parameters of the theorems, so the bounds matter only for what is not proved.

**Fairness.** `WF(Debugger)`: once a command has begun, its loops are ordinary
straight-line code and system calls that return, waitpid excepted, which is
enabled exactly when there is a stop or a death to report. `WF(Runs)`: the
kernel schedules a runnable tracee. Nothing is assumed of the user, of signals or
of kills. Deadlock is checked in the runs of the debugger and of libmini, where
`Over` is the final state or there is none; the other programs end, by finishing,
by crashing or at the bound on the calls.

**Mutants.** Each property of a passing run has a mutated definition beside it,
named after the mistake it makes (`ContUnpatched`, `WaitHitUnwound`,
`PatchWordBlind`, ...), under which TLC finds that property violated.

## 4. Theorems

All are for arbitrary `TextSize`, `WordSize`, program, `MaxBreak`, `Bases` and
arguments that satisfy the named assumptions (`LayoutAssumption`,
`SdbAssumption`, and for careful sessions `CarefulAssumption`).

`SdbProofs`, for every user:

* `TypeCorrect`: `Spec => []TypeOK`.
* `AnyUserInvariant`: `Spec => []AnyUserInv`. `ArmedUnlessUnmapped` is not
  inductive: one has to know what the patch loop has already done. The invariant
  adds that every slot below `slot` is `Covered` during the loop and every slot
  is when it is left towards `PTRACE_CONT`. A slot is covered when it is armed or
  an unmapped one is at or before it, which is what the early return leaves.
* `TraceeWatched`, `BreakpointsArmed`, `DeathNoticed`: its three consequences.
* `StrtabNeverDangles`: `StrtabMatchesHandle`, over every sequence of loads.
* `CommandsBounded`: a command makes at most `7 + 2 * MaxBreak` steps of its own.
  `StepsLeft` counts what the loops have still to do; every step of the debugger
  lowers it, and neither the tracee nor a signal nor a kill raises it. So a
  command can fail to return only by waiting for ever in waitpid; that it does
  not, in a careful session, is `CommandReturns`.

`CarefulSdbProofs`, for every careful session:

* `CarefulInvariant`: `CarefulSpec => []CarefulInv`. `CodeIntact` alone is not
  inductive: restoring a word is right only if the saved word is the program's
  (`SavedInv`), which holds only because the slots the loop has not reached are
  not armed; that a trap is a breakpoint's needs `TextInv` and the position of
  rip (`RipInv`); that a `cont` never resumes on an `int3` needs both. The two
  lemmas about words, `RestoreText` and `ReadsProgram`, are where the distance
  between breakpoints is used.
* `CodeStaysIntact`, `NothingUnarmed`, `StaysOnTrack`: `CodeIntact`, `AllArmed`
  and `TraceeOnTrack` as invariants of careful sessions.
* `StopsWhereAsked`: `StopsOnBreakpoint`. The lemma `PromptAfterHit` shows that of
  all steps only a stop reported by waitpid leads to a prompt after `cont` or
  `run` with the tracee alive; there the invariant gives the restored word.
* `DisasmIsFaithful`: `DisasmShowsProgram`, for statically linked programs
  (`ElfType = 2`). `ViewInv` says that the restoring loop leaves no `int3` at the
  slots it has passed, up to the read. A PIE needs to be left out: the loop
  writes to addresses as they were typed, and `careful_pie` therefore does not
  check the property.
* `StartStops`: after `start` the tracee is at its entry point exactly when that
  has no breakpoint; otherwise it has run the instruction there and no other.
  This is how far the help text, which `start_entry` refutes, is right. `StartInv`
  follows the patch loop: which of the two holds depends on whether a slot below
  `slot` has the entry point.

`IdealProofs`, for every careful session, static or PIE:

* `RefinesIdeal`: `CarefulSpec => ImplementsIdeal`. Each action of `CarefulNext` is
  shown, with `CarefulInv` and `TypeOK`, to be a step of `IdealDebugger` or a
  stutter. From the trap to the correction of rip the program counts as going,
  on the point, so that `WaitHit` is where it is held; the single step of the
  patch loop is the step off a point.
* `HeldOnlyOnPoints`, an action property that follows: while the program goes, the
  points stay as they are, it does not move past one, and it is held nowhere
  else.

`MiniSignalsProofs`, for every set of signals and every program:

* `SignalsInvariant`: `Spec => []SignalsInv`. That a jump lands with the saved
  mask blocked is not inductive: handlers run between longjmp's sigprocmask and
  its jump and change the mask. The invariant says that every interrupted
  context that is in `longjmp` has a frame whose mask contains the saved one
  (`JumpInv`), that `setjmp` refills the buffer only when there is no such
  context, that the signals of all active handlers are blocked, in the running
  context and in every younger frame (`NestInv`), and that every function
  installed comes with a restorer (`RestorerInv`).
* `HandlersNeverReentered`, `JumpNeverUnblocks`, `CaughtNeverKills`: `NoReentry`,
  `JumpKeepsBlocked` and `DiesByDefault`, the last two as action properties.

`MiniErrnoProofs`, for every set of error numbers and every depth of handlers:

* `ErrnoInvariant`, and from it `FateTold` (`ErrnoTellsFate`) and `PerrorRight`
  (`PerrorSays`): nothing that handlers and writes do to `errno` makes `perror` name
  another error, and past its table it reads only for an error without a message. The property is about all contexts at once, so the invariant
  speaks of the `errno` each of them will see (`Seen`): the current one for the
  running context, the value the handler above saved for the others. `Prepared`
  carries what perror relies on from one write to the next.
* `SavingSuffices`: `Spec /\ []Courteous => []ExactErrno`. If every handler that
  runs saves `errno`, no context is ever misled (`AllFaithful`): `errno` is that of
  its own last call; without a prefix `perror` prints the message of the error
  before it, or "Unknown" if that has none; with a prefix whose writes fail with
  errors of the table only (`WriteErrorsNamed`), it prints that message and, for an
  error beyond the table, always what lies behind `errmsg`. So interleavings can be
  made harmless, and the defect that remains is `perror`'s own.

`FsmonProofs`, for any threads, descriptors, files and texts:

* `FsmonInvariant`, and from it `LinesTrue`, `TextsBegin`, `LogNeverLeaks` and
  `CrashOnlyFull`. A line is true at the end because at each step the place where
  the next one will look - descriptor, `/proc` path, buffer - still leads to what
  the call was about, unless `spoiled` says otherwise (`NameSafe`, `StatSafe`,
  `TextSafe`).
* `MonitorTransparent`: until the program uses a log's descriptor itself, every step
  changes the program's part of the table as `Descriptors` allows, at a real call,
  with the lowest number that neither a file nor a log has, or not at all.
* `AloneTransparent`: with one thread there is no proviso: no log is open when a real
  call is made (`AloneNoLog`), so `clobbered` stays false and each new descriptor is
  the one the program would get without the monitor.
* `AloneExact`: with one thread `spoiled` stays empty. The name of an open
  descriptor (`closedir`'s excepted) and the type of a file are right on every line,
  a line without a text shows none, a text is shown from its beginning, and nothing
  follows it if the program has no longer one. That a closed descriptor shows an
  earlier name and a short text the tail of a long one is left open, because the
  code does it.

`ElfToolProofs`, for any files and any number of calls:

* `ElfInvariant`, and from it `NeverMemory`, `LeaksKnown`, `SymbolsFound`. The
  invariant is a predicate on states (`Good`) that each loading function is shown
  to preserve, in the order in which they call each other, so that `elf_load_all`
  follows from its parts. Ownership alone is not inductive: that two fields never
  share a block needs the kinds of their blocks (`Kinds`).
* `PointersKept`: `KeptOrDropped` as an action property: a table goes only by
  `elf_close` or in a failing `elf_load_all`, which takes all of them.

`SocketListerProofs`, for any processes, descriptors and sockets:

* `ListerInvariant`, and from it `OwnersHeld`, `KeptAreFound` and
  `CrashesCaused`. That a connection held throughout is found needs to know what
  the scan has still ahead of it (`Ahead`), for every descriptor that has not
  changed. `CrashesCaused` has five causes: a process that ended, a connection
  without an owner, a missing table, a process of another user's, and a row that
  passed the filter and does not fit the buffers.
* `QuietReported`: `QuietReport`. On a system that stays as it is (`Quiet`), the
  rows are those of the tables read so far, the processes are taken in ascending
  order, so the process a row names is the highest holder among those the scan
  has passed, and what is printed is what passes the filter among the rows done
  (`QuietOK`, part of `ListerInv`).
* `StillSurvives`: with the four tables there, no connection without a holder, no
  process of another user's, texts that fit and nothing changing, the lister never
  dies: none of the reasons `CrashNeedsCause` names arises from the scan itself.

Only model-checked: `CommandReturns`, because the prover does no liveness. Its
safety half is `CommandsBounded`; the rest is that waitpid is answered, from
`WF(Runs)` and a program that ends.

## 5. Not modelled

* Registers other than rip, and the text printed. Setting another register is an
  action that changes nothing.
* A tracee that `load` or `start` abandons while it is alive: the debugger loses
  its pid and nothing the debugger does depends on it again.
* `main`'s line buffer in `hw4`: abbreviations, blank lines (the last command
  again, with whatever the operand buffers hold) and end of input (the last
  command for ever). They only choose which command comes next, and any may.
* How a file is found: `elf_open` opens the path, `execlp` searches `PATH`. That
  `exec` may fail is modelled.
* An `int3` in the program's own text, and self-modifying programs.
* The interpreter of a dynamically linked program, and mappings of the text at
  another offset of the file than 0 (section 2).
* The text of an instruction as `cont`, `run` and `disasm` print it: `bytes_str`
  holds five bytes of an instruction, and a longer one is written past its end
  (`sdb.h:367-372`, `452-457`, `579-584`); the operands are taken from `insn[i]`,
  with `i` the slot and not the instruction (`sdb.h:375`, `460`). Either may end the
  debugger or garble the line after the stop has been dealt with; neither touches
  the tracee.
* A second thread or child of the tracee: the debugger sets no option to follow
  them.
* libmini: a handler that jumps while `setjmp` is still filling the buffer (the
  jump is then to a context made of two calls, and C leaves it undefined);
  `sigpending` (it only reads); calls of `sigaction` with a null action,
  which the code dereferences; `nanosleep`, which calls itself
  (`libmini.c:61`) and has no state to explore; `start.asm` but for the end of the
  process.
* fsmon: arguments and results that a line only repeats, among them the names
  under which `fread` ("pwrite", `fsmon.c:205`) and `symlink` ("syslink",
  `fsmon.c:280`) are logged; the mode that `open` drops (`fsmon.c:154`); texts
  longer than the static buffers, and empty ones, where `format[-1]` is looked at
  (`fsmon.c:105`); the byte before `filename` that a failed readlink clears
  (`fsmon.c:56`); a log file that cannot be opened for another reason than a full
  table, so that `CrashNeedsFull` speaks of full tables and of `fflush(NULL)` only.
* elftool: the fields copied from headers and symbols other than type and link;
  the `errno` of a failure (the `ESRCH` of `elftool.c:230` is overwritten two lines
  below the label it jumps to); `elf_perror`, which prints.
* Socket lister: the formatting of addresses and ports (`hw1_utils.h:13-33`), a
  filter argument longer than its 64 bytes (`main.cpp:71-74`), zombies, whose command
  line is empty, and systems that hide the processes of other users (`hidepid`).
* The test programs and build files: read as statements of what is promised.

## 6. Plan

1. `ElfTool` with the calls of `sdb_load` as its client, so that the states of a
   handle in `Sdb` become a refinement mapping.
2. The addresses of `/proc/net` as they are parsed and printed.
