# A verification model of OC_labs

OC_labs is a collection of small C programs about operating systems: processes
and signals, shared memory, pipes, Unix sockets, a hand-written heap. There is
no common code; what each program has is an order of system calls that has to
be right. This directory holds TLA+ models of these programs, TLC runs that
check them on small instances, and theorems about them that TLAPS proves for
every instance.

    tlc -config sync.cfg SignalSyncMC.tla     # any run of PROJECT.json
    tlapm SignalSyncProofs.tla               # and the other *Proofs.tla

`PROJECT.json` maps every definition to the source lines it models, and lists
the runs, the faulty variants that show each property can fail, the findings,
the hazards and the theorems.

## 1. Inventory

| Part | State | Operations | What is hard | What makes it correct |
|---|---|---|---|---|
| Signal handoff, `6_part/6.1/6.1_2f.c` (`6.1_2.c`) | one shared page; per process the flags `got_sig`, `stop`, `sig_type`, the signal mask, pending signals; `val`, `exp` | fill, scan, `kill`, `sigsuspend`, handler, exit | handlers at any instruction, merged signals, zombies, PIDs that change, a failed fork | exclusive use of the page, no lost wake-up, all numbers in order, both processes end |
| Heap in a file, `4_part/4.3/4.3.c` | list of block headers in a mapping | `init_heap_file`, `my_malloc`, `my_free`, `print_heap`, `wait_for_enter` | splits in long call sequences, `size_t` wrap-around, limits of a split, a failed `mmap` | blocks tile the mapping, blocks in use are disjoint, first fit is complete, walks end |
| Echo server, `6_part/6.3` (`s_f.c`, `c_f.c`, `test.c`) | listening socket and backlog; a connection and a handler process per client; buffers | accept, fork, close, read, write; connect, send, receive; announcement | copies of descriptors in two processes, clients that vanish, zombies, resets | each client gets its own messages back in order, handlers end, no descriptor leaks |
| Redirected pipe, `6_part/6.2/6.2_f.c` (`6.2.c`) | descriptor tables of parent and child, the pipe, a stdio buffer | pipe, fork, dup2, close, printf, scanf, wait | who still holds an end, descriptors 0-2 closed at start, SIGPIPE, a full pipe | a stream in order and with a true end; nobody waits for ever |
| Copy on write, `5_part/5.1/5.1_d.c` (`5.1.c`) | page tables, frames, stdio buffers | print, fork, write, exit, waitpid | who gets the copy of a shared frame, buffers copied by fork, an untested waitpid | isolation of parent and child, reports that show it, each printed as often as it should |
| Raw pipe, `6_part/6.2/6.2_1.c` | as the redirected pipe, and the counters `val` and `expected` | pipe, fork, close, write, read, compare, wait | end of stream, wrap-around, a reader that has gone with SIGPIPE ignored | the same stream; the reader never reports an error |
| Unsynchronised page, `6_part/6.1/6.1_1f.c`, `6.1_1.c` | shared page, `val`, `exp` | store; up to three loads of a slot per pass, or one | a data race by design; nobody learns that the other has gone | what a report, and what silence, says about the page |
| Process lifecycle, `5_part/5.2` | process table, parent links, stdio buffers | fork, exit, wait, sleep, getppid | adoption at any moment, order only by `sleep`, buffers copied by fork, an untested wait | what is said of Papa's end and of adoption is true (the texts beside the PIDs at 5.2_d.c:70 and 5.2_3.c:41/:44 may be wrong); zombies and orphans end with whoever is responsible for them |
| Reversed copy, `3_part/3.1/3.c` | two directories, two open files | opendir, mkdir, readdir, stat, fopen, copy | names that are their own reversal, links, FIFOs, files that change between two calls, untested failures, interruption | sources survive, copies are mirror images, a run does not copy its own copies for ever |
| File commands, `3_part/3.2/main.c` | directories, files, links | one command per name of the program | unchecked failures; other programs on the same files | data are left alone; what is shown is what the path leads to |
| Sort, minimum, maximum, `postgress/test2.c` | an array | passes of three loops | empty input | a sorted permutation; the searches agree with it |
| The rest (`1_part`, `2_part`, 3.3, 4.1, 4.2, 5.3, 7.1, `pipe_size.c`, `postgress/test1.c`) | none or one value | print, link, decode, exec | - | not modelled; the reasons are in `PROJECT.json` |

The programs do not call each other. Inside a program the parts interact
through signals and a shared page (6.1), sockets and inherited descriptors
(6.3), a pipe and inherited descriptors (6.2), a mapped file (4.3), or the
process table (5.2); the programs of `3_part` share the user's files.
The hazards, each with its line and the properties that cover it, are under `hazards` in `PROJECT.json`.

## 2. Plan

1. (done) `SignalSync` with the abstract `Handoff`; proofs.
2. (done) `Heap` with the abstract `Allocator`; proofs; `HeapDemo` for `main()`.
3. (done) `EchoServer`; proofs.
4. (done) `Redirect` with the abstract `Stream`.
5. (done) `CopyOnWrite` with the abstract `PrivateMemory`; proofs.
6. (done) `PipeNumbers` on top of `Redirect`, a second implementation of `Stream`, with
   proofs about both; `SharedRace` and `Family`, with proofs.
7. (done) `FileTree` with `ReverseCopy` and `FileCommands` composed on it; `Sort`; with proofs
   about all of them.
8. (done) Proofs about `HeapDemo`, for inputs of any length.
9. Left of the models: a second server that unlinks the socket of the first.
   Left of the proofs: nothing but liveness (section 5).

## 3. Modules

### SignalSync, Handoff (6.1_2f.c)

`pc[p]` is where writer and reader are. `W_Fill` and `R_Scan` handle one slot
of the page per step, so a handler, a signal or a kill can come between any two
slots. The wait `while (!got_sig && !stop) sigsuspend(&old)` is three steps:
`W_Check`/`R_Check` (the test), `Suspend` (the call takes effect) and `Wake`
(the handlers of all pending signals run, `sigsuspend` returns). SIGUSR1 and
SIGUSR2 are delivered by `Wake` alone, because `mask` blocks them everywhere
else; SIGINT and SIGTERM also by `Interrupt`, at any point, the window between
test and sleep included. A pending signal is a set member: two of a kind merge.

The kernel's part: `Generate` (kill), `ReaderExists` (a zombie can still be
signalled), `UserSignal` (a user's kill or Ctrl-C, taken from the constant
`UserSignals`). `pid = "every"` is the value -1 after a failed fork. The
variable `astray` collects signals the program sends outside the pair; it ends
there. The `errno == ECHILD` of line 213 is never true (`sigsuspend` fails only
with EINTR), so the statement has no action. `cleanup()` only unmaps memory
before the exit and is part of the last steps. `turn` and `seen` are history:
whose turn the signals say it is, and what the reader has read.

`Handoff` is what the exchange promises: a writer changes the page in its turn
and publishes it; the reader takes all of that page, unchanged, and gives it
back.

### Heap, Allocator, HeapDemo (4.3.c)

Addresses are offsets in the mapping; `hdr` maps the address of each header to
its contents. A call of `my_malloc` or `print_heap` enters a walk (`Walk`), and
one step of `Visit` is one pass of the loop: `Found` (with `Split` or `Take`),
`Advance`, `NotFound`, `Printed`, and `Crash` when the pointer is not a header,
which happens only for `MAP_FAILED`. `Plus` and `Minus` count modulo `WORD`,
as `size_t` does. `init_heap_file` may fail in each of its ways. `live` is the
caller's knowledge: the pointers it holds and the sizes it asked for; a caller
frees only pointers it holds, or NULL.

`Allocator` is the promise: blocks in use lie in the arena and are disjoint.
`HeapDemo` runs `main()` on top of `Heap`, with the real sizes (1024, 24, 16),
and with standard input as a finite text. `DemoEnds` speaks of every such text: with a
newline for each wait the program ends, with fewer it asks for ever after the end of the
input, because EOF is not a newline (line 53). Its end state is compared with the
`heap.bin` kept beside the program.

### EchoServer (s_f.c, c_f.c, test.c)

A connection per client; `holders[c]` is the set of processes with the server
end of `c` open, so a connection ends when the set becomes empty, and data left
unread turn the end into a reset. `S_Accept`, `S_Fork`, `S_Close` are the loop
of the parent; `H_Read`, `H_Write`, `H_Close` the handler's. Handlers that have
ended stay zombies (the server never waits), and `MAXPROC` bounds them: `S_Fork`
fails at the bound and goes on like the code. Clients in `Interactive` run
`c_f.c` (the user may quit at any time when `MayQuit`), the others the loop of
`test.c`, and `Announce` is the last line of its `main()`. Messages are shorter
than the buffers, so one `write` and one `read` carry one message. `accept()`
failing (`continue`) changes nothing and is left out.

No client is left out of `AnnouncedTruly` and `AllServed`: one that gets no handler and
less than all its messages back must have found nobody listening, or have been dropped
because handlers, most of them zombies, fill the process table; and every connect()
returns, however many clients wait for the backlog.

### Redirect, Stream (6.2_f.c)

`fd[p][d]` is what descriptor `d` of process `p` refers to. `P_Pipe` takes the
two lowest free descriptors; `OpenSets` says which of 0-2 may be open when the
program starts. `Dup2` copies an entry; with equal arguments it changes nothing.
`P_Write` is one pass of the loop (printf, fflush): it waits when the pipe is
full, dies of SIGPIPE when nobody can read, and goes on when stdout is closed.
`C_Fill` moves what is in the pipe into the child's stdio buffer, `C_Scan` takes
one number from there, `C_Eof` ends. `sleep(1)` changes no state. `Kill` is a
user killing either process, at any point.

`sigpipe = "ignored"` is a program started with SIGPIPE ignored. `NoStdin` is
the case that `pipe()` returned 0: `dup2` changes nothing and the `close` after
it shuts standard input, so the child reads nothing at all. The properties
leave that case out by name.

`PipeNumbers` extends `Redirect` with the loops of 6.2_1.c; `program` says which
of the two programs runs, and pipe(), fork(), the first close() of each process
and wait() are shared actions. The writer of 6.2_1.c breaks off when write()
fails, the reader resynchronises on an unexpected number; `NoErrors` says it
never has to, across the wrap-around of the numbers, and `EveryPassCounts` that no pass of
the writer is made after a write has failed.

`Stream` is the promise of both: numbers arrive in order, and the end is
reported only when nothing can follow.

### CopyOnWrite, PrivateMemory (5.1_d.c)

A page is named after the variable on it, `table` maps the pages of each process
to frames, `content` is the value in a frame. `Store` is the kernel's part of a
write: in place when the frame is the process's own, else into a free frame. What the
program adds, and the properties are about, is which process writes which page when,
what it prints of it and when. A report of `print_ptrs`
is a record of frames and values; it goes to `out` at once on a terminal, to the
process's `buf` otherwise, and `P_Fork` copies the buffer with the rest of the
memory. `Returned` is the return from `fork()`, which writes to the stack, in
most layouts (`calls_near`) to the page of `local_var`. `fate` is the word
the kernel keeps of a process's end: `ExitWord` of the argument of exit(), or one of
`KillWords`. `P_Wait` is `waitpid`, which stores the child's word in `status`, or fails
when SIGCHLD is ignored (`autoreap`) and leaves `status` what it was, any of `Garbage`;
`P_Report` decodes `status` with `WIFEXITED` and `WEXITSTATUS` and prints `code`.
`CodeIsTheChilds` compares the end of that way with its beginning; of a status that was
never set nothing can be said. `env` holds what
the program finds at its start and never changes.

The program's comments on lines 109-111 and 142-143 say of both variables that
their frames stay the same; `DataFrame` states this of `global_var` only. For
`local_var` it is not so when `calls_near`: both processes write to its page as
soon as `fork()` returns, and the parent may be the one that gets the copy.

`PrivateMemory` is what fork promises: a copy, and from then on two memories.

### SharedRace (6.1_1f.c, 6.1_1.c)

`R_Compare`, `R_Print` and `R_Resync` are the three loads of `buf[i]` in one pass
of 6.1_1f.c; the second may be left out by the compiler, so `R_Print` reports
either value. `R_Once` is the pass of 6.1_1.c. `stamp` and `seen` are history:
which store a slot holds and which one the reader compared; they tell a true
round of the writer from one put together of two. `MAXWRITES` bounds the
writer, which in the code goes on for ever.

### Family (5.2_d.c, 5.2_3.c)

What a process does is a list of steps (`zombie`, `orphan`, `three`), and one
action per kind of step runs it: `DoPrint`, `DoPrintPpid`, `DoSleep`, `DoFork`,
`DoWait`, `DoExit`. A sleep may take any time, also none, because nothing but
the length of a sleep is the program's own order. `Ends` is the kernel's part of
an exit: zombie or gone, and the children adopted. `told` is what getppid() has
answered. On lines 41 and 44 of 5.2_3.c Syn names one parent as "living Papa" and
then as its new one; both lines name the same process, Papa or the adopter,
except when Papa ends just between the two. `EndsToldTruly` claims nothing of these texts,
nor of "my original parent" on line 70 of 5.2_d.c: it says that a process is shown
another parent only when its own has ended, and so from then on, and that
Papa has ended when his end is announced after a successful wait().

### FileTree, ReverseCopy, FileCommands (3_part)

`FileTree` is the state they share: `tree[d][n]` is the file behind a name,
`inode` what it is, so that a file may have several names; `Walk` follows
three symbolic links, and takes a longer chain for one that is too long (in the runs
none has more than two). `Init` allows any tree that is one (`TreeOK`); `SomeTree` of
`FilesMC` chooses those of the run. `Fresh` is the file that the next creation takes;
that there is one (`Room`) is a bound of the model. A FIFO makes fopen() wait for somebody who
opens its other end (`Blocks`); nobody does.

`ReverseCopy` takes a directory through `R_Start` (opendir), `R_Mkdir` (which may fail for
any reason; with no directory to read readdir(NULL) is the crash), `R_Readdir` (with
stat), `R_Open` (both fopen(), the second of which empties whatever the path leads to; a
NULL is a crash) or `R_Hang` (one of them waits), `R_Copy` and `R_End`. readdir() returns
names in any order, and may or may not return one that has been created since opendir();
it does not end before every name that has been there all the time (`stayed`). A name that
somebody removes may be returned again when it is back (`Disturbed` takes it out of
`returned`). A directory that is removed and made again is taken for the same one.
`rev()` is given as an involution on names (`RevDir`, `RevName`).

Four histories say what a run may be judged by: `before` (what each source held, until it
or the place of its copy becomes another file), `alone` (nobody else has changed a file),
`fit` (alone, and nothing stands in the way: everything can be opened), `calm` (no copy
has come to lie in the place of a source or of another copy). They are set at `R_Start`
and kept by the program's own steps; others' changes turn them off only where they matter
(`Disturbed`), so `CopiesWell` still speaks of a run that was disturbed, killed or
crashed.

`FileCommands` has one action for each command that changes a file, between any two steps
of the copy. A failing command changes nothing and has no action. A command that only
prints is checked while the copy does not run: it would say the same in between. For a
path that is no link print_symlink_file uses the -1 of readlink() as a length, writes
before its buffer and opens a name that was never set: `NoLink` prints any file, or
nothing.

### Sort (test2.c)

One pass of a loop is one step: `findMax`, `findMin`, `Compare` (the inner loop
of `bubbleSort`), `NextPass`, `Finish`. `from` is history: where in the input each
number was. With N = 0 the searches read a number that is not there.

### MC and proof modules

`SignalSyncMC`, `HeapMC`, `HeapDemoMC`, `PipesMC`, `FilesMC` give values to
constants, `FilesMC` also the initial trees (`MCSpec`).
The theorems are in `SignalSyncProofs`, `HeapProofs` (with `HeapDemo`), `EchoServerProofs`,
`PipeNumbersProofs` (about `Redirect` as well), `CopyOnWriteProofs`, `SharedRaceProofs`,
`FamilyProofs` and `FileAndSortProofs` (the programs of `3_part`, and `Sort`, whose names
`SortInit`, `SortNext`, ... keep the two apart). Definitions marked
"Faulty" (or in the section of faulty variants) are not part of any
specification; they are the likely mistakes that the properties are shown to
catch.

## 4. Runs

Properties in parentheses are the named parts of the one before them. `IInv`,
`Accounted`, `Plumbing`, `ReportsTrue`, `Silence`, `EndsToldTruly` and `CopiesWell`
include the type invariant of their module. All properties of these runs but the liveness
ones (section 5 lists them) are also proved, for all values of the constants, under the
assumptions of section 5.

| Run | Shows | Bounds, and why they are enough |
|---|---|---|
| `sync` | `Exclusion`, `NoLostWakeup`, `SignalsReach` (`ReaderTold`, `StraySignals`), `MismatchOnlyAtWrap`, `HandoffSpec`, `PingPong`, `WriterStops` under SIGINT, SIGTERM, SIGKILL and a failing fork | any number of stops; 3 slots (a first, a middle, a last) and UINT_MAX 3: pages meet the wrap-around at different offsets; SIGCHLD ignored, so that kill() can return -1 |
| `heap_blocks` | `IInv`, `Placement` (`NullOnlyWhenFull`, `FirstFit`, `SizeKept`), `AllocatorSpec`, `WalkEnds` | heap of 12, header 2, slack 1: up to four blocks; requests 0, 1, 4 lie on both sides of a split's limit, WORD - 2 and WORD - 1 wrap around when the header is added |
| `heap_demo` | `EndsAsRecorded`, `DemoEnds` | the program's own sizes; all its inputs of a few characters, with too few newlines and with enough |
| `echo` | `Accounted` (`EndsHeld`, `InFlight`), `ShownTruly` (`EchoInOrder`, `ShownWasEchoed`), `AnnouncedTruly`, `HandlerEnds`, `AllServed` | 3 clients, one of them of the load test, backlog 0, room for 2 handlers, users who quit at any time: a client waits in connect(), and a fork fails because of zombies |
| `pipes` | `Plumbing` (`OneOfEachEnd`), `NumbersArrive` (`AllReceived`, `NoErrors`, `EveryPassCounts`), `StreamSpec`, `BothEnd` (`ChildEnds`, `ParentEnds`), for both programs | 4 numbers in a pipe for 2: it fills up; UINT_MAX 2, so that the numbers wrap around; every set of open descriptors, SIGPIPE ignored or not, either process killed at any point |
| `cow` | `PrivateMemorySpec`, `ReportsTrue` (`ShownIsPrivate`, `DataFrame`), `Printed` (`PrintedOnce`, `ChildFirstInFile`), `CodeIsTheChilds`, `AllEnd` | one run of the program from every environment (terminal or file, with or without the right to see PFNs, SIGCHLD ignored or not), kills at any point; 4 frames are as many as two processes with two pages can use; one signal, with and without core dump; the unset status looks like a kill (7) or like exit(5) (1280) |
| `race` | `Silence` (`SilentRoundIsOnePage`), `EqualMeansOvertaken`, `ComplainsForEver` | 3 slots, numbers 0-5, 9 stores: the writer laps the reader, and the numbers repeat after two rounds, the exception the first property names |
| `sort` | `SortedPermutation` (`Sorted`, `Permuted`), `EndsAgree` | up to 4 numbers of 3 values: equal and unequal ones in every order |
| `family` | `EndsToldTruly` (`CollectedTruly`, `AdoptedForGood`), `Printed` (`LinesOnce`, `OutputOrder`), `ZombieStays`, `NobodyLeft` | the programs as they are, with a terminal or a file, SIGCHLD ignored or not, each process killed at any point |
| `files` | `CopiesWell` (`RunsThrough`, `Mirrored`), `PalindromeLoses`, `RunEnds`, `CatlinkIsCat` | two runs (`MAXRUNS`), so that one finds what an interrupted one has left; one command (`MAXCMDS`) before, between or after; two names that are each other's reversal and a palindrome, likewise for directories (`ab`, `ba`, `.`); the second source is a file, a socket or a FIFO; 6 files are more than are ever created |

Every system here may end, so deadlock is not checked as such; the liveness
properties say where a process must not stay.

Fairness. `FairSpec` says that the scheduler runs a process that can go on and
that the kernel delivers a pending signal; this is weak fairness on each
process and is what Linux does. Users' actions (signals, kills, quitting, the
next call on the heap) are never fair. In `HeapDemo` the program is the only
process. `SharedRace` is fair to the reader alone, which is enough for
`ComplainsForEver`; `Family` is fair to the running processes and to those
outside who collect their children; `FileCommands` to the copying program, not to
the commands, which are finitely many (`MAXCMDS`) because somebody who removes and
restores a file for ever can keep readdir() busy for ever. For `EchoServer` no fairness is given
to a user's Ctrl-C; a client's step is fair because a user who is done closes the
input.

### What the programs do not do

Each of these runs must be violated; it contrasts a comment with the code.
`PROJECT.json` quotes the lines.

| Run | Violated | Because |
|---|---|---|
| `sync_ctrl_c` | `StopEnds` | SIGINT between the test of `stop` and sigsuspend, with nobody left to send a wake-up |
| `sync_zombie` | `WriterFollows` | a dead reader is a zombie for kill(), and ECHILD never comes |

Other properties state exactly what the code does where one might expect more,
and hold: the writer of 6.1_2f.c never stores UINT_MAX and stores 0 twice, so the
reader reports an error there and only there (`MismatchOnlyAtWrap`; the comment on line
168 says that the reader repeats the writer's overflow logic, which is why `findings` in
`PROJECT.json` lists it beside the two runs above); after a
failed fork its kill(-1, ...) goes to every process of the user, and a reader
whose writer is gone signals whoever adopted it (`StraySignals`); a client whose
connection is reset while it reads shows the message it has just sent as the
echo, and nothing worse (`ShownWasEchoed`); a program started without standard
input redirects the pipe onto itself (`OneOfEachEnd`); the zombies of
handlers that have ended keep later clients from being served, and the load test
announces success all the same (`AnnouncedTruly`); main() of 4.3.c asks for ever at the end
of its input (`DemoEnds`); a copy into a directory whose
name is a palindrome destroys files (`PalindromeLoses`); catlink_cmd opens
the text of a link relative to the working directory, and, since it follows one link
less than cat_cmd, may show a file at the end of a chain that is too long for cat_cmd;
`CatlinkIsCat` names the second case since the attempt to prove it without.

## 5. Proofs

`SignalSyncProofs`. `TypeCorrect`, `StraySignalsHolds` and `ReaderToldHolds` need
no assumption beyond those of the constants: whatever signals the user sends.
The last two, together `SignalsReachHolds`, rest on `Targets`: whom each process
would signal next. The other theorems (`Invariance`, `ExclusionHolds`,
`NoLostWakeupHolds`, `MismatchOnlyAtWrapHolds`, `HandoffHolds`) assume
`OnlyStops`: the user sends the pair no SIGUSR1 or SIGUSR2 (with one more SIGUSR1
than the writer sends the reader scans a page that is being filled). They hold for every page size, every UINT_MAX,
every combination of stops and kills, and whether or not fork fails.
`Exclusion` is not inductive: that the writer is filling says nothing about the
reader unless one knows where the signals are. `IInv` adds it: there is one
token, a synchronisation signal pending or noted in `got_sig`, and it is at the
process whose `turn` it is (`OneToken`); a process that waits in its own turn
has it coming (`TokenComing`), from which `NoLostWakeup` follows; the page is
numbered consecutively up to the wrap-around and the reader's `exp` is in step
with the writer's `val` (`Numbering`), from which `MismatchOnlyAtWrap` follows;
and what has been scanned so far is a copy (`CopySoFar`), from which the
refinement of `Handoff` follows.

`HeapProofs`. For every heap size, header size, slack and set of requests below
`WORD` (assumption `HeapAssumption`: the sizes fit in a word together):
`Invariance`, and from it `TilingHolds`, `OwnedHolds`, `NullOnlyWhenFullHolds`,
`FirstFitHolds`, `SizeKeptHolds` (together `PlacementHolds`), `AllocatorHolds`. `NullOnlyWhenFull` is about
one step, but the walk takes many; `NoneBefore` (no block before the cursor
fits) is what it needs, and for that `Tiling`: the order of the list is the
order of the addresses, without gaps.

The same module has `EndsAsRecordedHolds`, about `main()`: whatever the text on standard input, it leaves the
blocks that the recorded `heap.bin` holds. It assumes the program's own sizes
(`ProgramSizes`; the run has them) and a word in which they fit. The
recorded blocks are the last of five states of the list; `DemoInv` gives the one at each
statement (`BlocksAt`) and, during a request, where in it the walk may be and
which block it will take (`WalkAt`). Whether `main()` reaches its end is `DemoEnds`, which
is not proved.

`FileAndSortProofs`, the programs of `3_part`. For any directories, names, links, modes and trees,
any number of runs, commands and files (`FileTreeAssumption`, `ReverseCopyAssumption`: `rev()` is an
involution on names, the names are finite in number and none is empty; `FileCommandsAssumption`). Where a path leads is stated as a function of
`tree` and `inode` (`WalkIn`, `FileAt`), so that it can be compared before and after a
step; a missing directory has no names, so `dirs` does not matter to it.
- `TypeInvariance`. What keeps a tree a tree: creating a file, changing one that is
  there, binding a name. The files that the program has open
  stay files whatever commands run, because no call turns a file into anything else.
- `CopiesWellHolds`. `CopiesWell` speaks of the sources and of the copies that have been
  made; a step needs that the copies still to be made will do no harm. `CalmInv` has two
  parts: copies and sources lie apart (`SepIn`, what `Calm` says as a statement about tree
  and files), and what is known of each source that has been left alone (`Kept`): it is
  still one, it holds what it held, its copy is its mirror image once made, and
  readdir() has to return it before it may end. `FitInv` adds for `RunsThrough` that everything can be
  opened still. The main lemmas are `WriteChanges` and `WriteCreates`: writing the copy of
  one name changes where no other path of the run leads and what it holds (`Writes`),
  whether the file was there or is created, behind a link or not. `RunDisturbed` is the
  step of somebody else: where the histories stay on, it has changed nothing that the
  invariant speaks of.
- `PalindromeLosesHolds`. In a directory that is its own reversal, sources are overwritten,
  so no run there is `calm`. `PalInv` says for each pair of names, as long as the run is
  `alone`, which of the two has been written, from what, and that the other is still what
  it was (`Pair`), and of a palindrome that it is empty once opened. The property assumes
  at the end that the directory is plain; `PlainBack` carries this to the beginning.
- `CatlinkIsCatHolds`. A link followed from its text leads where it leads from its name
  (`TextLeads`), if the chain is not too long; this condition is the one the property names.

`FileAndSortProofs`, the sort. For arrays of every length over any set of integers: `SortInvariance`,
`SortedPermutationHolds`, `EndsAgreeHolds`. `SortInv` says how far the loops have come: the
numbers before `i` are in order and not larger than any after them, and number
`i` is not larger than those it has been compared with (`Sorting`); the searches
have the maximum and minimum of the numbers they have seen (`Searching`).
`EndsAgree` also needs that no number is lost: `from` is injective on a finite set,
and so surjective (`NoneLost`).

`EchoServerProofs`. For any finite set of clients, interactive or not, any number of
requests, any backlog and any room in the process table (`EchoAssumption`).
`Accounted` is not inductive: it says where a client's messages are while the
client is connected, but not that the one the handler or the connection has is the
client's last one, nor what is left after the client. `IInv` has one part for
each client (`ClientInv`), so that a step about one client keeps those of all others
(`Frame`): at most one message is on its way (`Wire`), the counts of client and
handler (`Counts`), and how a connection ends (`Gone`): only one that never had a
handler is reset. With that, `ShownTrulyHolds` follows. `AnnouncedTrulyHolds` also needs to
know why a client has no handler: `Full` says that once a connection has been dropped
without one the process table is full, and stays so because no handler is ever
collected (`FullInvariance`).

`PipeNumbersProofs`. For both programs of 6.2, any count of numbers, any UINT_MAX at which
they start again (`PipeNumbersAssumption`), any capacity of at least one, any
descriptors open at the start, whoever is killed. `NumbersArrive`
needs to know when a child may see the end of the stream, and that depends on who
still has a write end open. `Wiring` says where each process has the two ends,
step by step, as sets of descriptors: `{pipefd[2], STDOUT}` covers both the usual case
and the one in which pipe() returned 1. It does not depend on what is sent, and
gives `PlumbingInvariance`. `Data` is on top of it: what has been sent is the
beginning of the numbers, all of those counted as long as somebody can read them,
and everything when the parent waits; a child exits only at the end of the stream.
`Arrival` and `StreamRefinement` (every step is one of `Stream` or changes nothing that
`Stream` sees) follow. That the reader of 6.2_1.c never reports an error rests on `Counting`: its
`expected` and the writer's `val` are the counts of numbers received and sent, modulo
UINT_MAX + 1. `EveryPassCounts` is an invariant on top of `Data`.

`CopyOnWriteProofs`. For any set of frames, whoever may be killed, in every environment. The invariant has
four layers. `Memory` is about frames only: each process finds in its pages what it
has written itself (`OwnMemory`), whoever got the copy; `StoreEffect` is the
lemma behind it, and `MemoryIsPrivate`, the refinement of `PrivateMemory`, follows. `Endings` follows the word
of the child's end from exit() or the signal to the parent's `status` and `code`, and with the
output layer gives `CodeHolds`: arithmetic on status words (`Words`) is all it knows of
the encoding. The output layer says line by line what the two buffers
and the file hold at each step; from that, `PrintedHolds`. The last layer (`Says`) is about the
reports made so far, in a buffer or in the file: each fits what its process had
written by then, and the frame of global_var in it is related to that in every other
report as the code's comments say. Hence `ReportsHold`.

`SharedRaceProofs`. For every page of at least two numbers, every UINT_MAX such that
the length of the page divides UINT_MAX + 1 (both are powers of two in the code), and
any number of stores: `SharedRaceAssumption`. `Page` ties each slot to the last store
into it (UINT_MAX is never stored); `Round` says that in the middle of a round
without a report the slots passed hold stores that follow each other modulo
UINT_MAX + 1, and that the reader expects the store after the last of them. The
argument needs that a slot tells, except at the end of the page, which store it holds
modulo UINT_MAX + 1: the one number that is stored in place of another, 0 for
UINT_MAX, always goes into the last slot (`LastOfBoth`). Hence `SilenceHolds`; `EqualMeansOvertakenHolds` needs `Compared` only.

`FamilyProofs`. For the three programs, any processes that may be killed. `EndsToldTruly`
is nearly inductive for the processes that run; `IInv` adds zombies to the tree
(`Tree`), when a process exists (`Existing`), and that Papa is gone once Ded's wait()
has returned, whether it collected him or failed (`Waiting`). `TruePrints` and `Zombies`
follow. `Printed` is about lines, and rests on `LInv`, which uses `IInv`: a line on a
terminal, in a buffer or in the file has been said by its speaker, at the one step
of its program that says it, so that the next line said is a new one; a line is
in the file only if its speaker has ended; Papa's first line is the one exception,
because his buffer holds it when he forks (`Forked`), and it is counted by its
carriers that have ended (`DedTwice`). Hence `Prints`.

Checked by TLC only: everything with "~>" or "<>" (`PingPong`, `WriterStops`,
`WalkEnds`, `DemoEnds`, `RunEnds`, `AllServed`, `HandlerEnds`, `ChildEnds`, `ParentEnds`,
`AllEnd`, `ComplainsForEver`, `NobodyLeft`), because liveness under fairness is out of
the prover's reach. The two runs that must be violated show counterexamples of liveness and have no theorem.

## 6. Not modelled

Wording and layout of output; alignment of block headers; real time (`sleep`,
`usleep` only order nothing); errors of `mmap` before the fork in 6.1_2f.c,
which the program does not test and which end it at the first write; pieces of
messages (a short read on a socket) since each message fits in one call; names
and paths longer than the buffers of 3.c; failures of malloc in test2.c.

Two runs of 4.3.c on one `heap.bin`: the list in the file holds addresses of the
process that wrote it, so the second process follows pointers into its own
address space, and the model counts offsets in one mapping. Two echo servers on
one socket path. The programs of the last row of the table in section 1 have no
state to check, or a single fixed sequence of calls (4.2.3.c, 5.3.c).
