# Verification of tdo

`tdo` is a C99 test runner. It reads test definitions
(`test::LIB::SYMBOL [before::LIB::SYMBOL] [after::LIB::SYMBOL] ...`), runs each
test in a process of its own, at most `-j` at a time, captures what it prints,
ends it when it runs past `--timeout`, and writes one result per test in a human
or a JSON layout. This directory holds TLA+ models of it, the TLC configurations
that check them on small instances, and proofs about them for every size.

## Inventory

| Component | Source | State it keeps | Operations |
|---|---|---|---|
| POSIX runner | `src/run.c`, `src/platform/run_posix.c` | the slots (`runs`), the counters `started`, `finished`, `running` and one per outcome, the flags `fork_failed`, `log_setup_failed`, `any_failed` | `tdo_run_all`, `tdo_run_status_init`, `tdo_run_new`, `tdo_run_start_new`, `tdo_run_poll_event`, `tdo_run_poll_exit`, `tdo_log_drain` |
| test child | `src/run.c` (`tdo_run_single`, `tdo_run_fixtures`), the child branch of `tdo_run_start_new` | the step it is in, three pipes | announce a step, load a symbol, call it, announce the end |
| reporting | `src/run.c` | the counters, `success_in_a_row` | `tdo_run_report_status`, `_exit`, `_error` |
| logs and strings | `src/str.c` | bytes, length, capacity | `tdo_string_append`, `tdo_log_reset`, `tdo_log_append` |
| Windows runner | `src/platform/run_windows.c` | the slots, a pipe state machine per log, a completion port and a job | as the POSIX runner |
| arena | `src/arena.c` | a list of nodes, `latest`, `last_allocation` | alloc, resize, state get, set and clear |
| definition parser | `src/test.c` | the arrays of tests, fixtures and libraries | read a line, parse a test, its fixtures and symbols |
| command line | `src/arguments.c` | the options | parse |
| main, output file | `src/main.c`, `src/platform/posix.c` | arenas, input, output, status file, libraries | acquire, run, release |

They interact by plain calls, except at one place: the parent and its children
run concurrently and share nothing but three pipes per child, signals and
`waitpid`. A child announces each step on the status pipe *before* it takes it
(`b_0`, `b_1`, ..., `test`, `a_0`, ..., `finished`) and never says how it ended;
the parent infers that from the last line, the process status and the clock.

What is hard in it:

* concurrency: a child prints, exits, crashes or stops between any two system
  calls of the parent. The parent reads the clock, calls `waitpid`, drains the
  pipes and compares the time in an order that decides the verdict;
* partial failure: `pipe`, `fork`, `poll`, `read` and allocation may fail, and
  the code promises one result per test all the same. Three loops can report
  the tests that never ran;
* counters: `running`, `started` and `finished` are unsigned and changed at
  seven places; the loop ends by them;
* reuse: slots, logs and pids are used again by later tests;
* two exits of the loop: the last result, or under `-x` the first failure.

What makes each component correct:

* POSIX runner: every test gets exactly one result, the one its own process
  earned; at most `-j` children live; none is lost, none is killed after it was
  released, none outlives its limit; the loop ends; `tdo` never aborts;
* child and reporting: the current step in a result is the step the process was
  in; the output in a result is all it printed and nothing else;
* logs and arena: no two live allocations overlap, a log is what was appended;
* Windows runner: the same promises (`TdoRunner`), over completion packets that
  arrive late and in any order;
* parser: every symbol of a test refers to the library named in its line, and
  that library is the one that is loaded;
* command line: an accepted option has the meaning the help text gives it;
* main: what was acquired is released once, and a failure shows in the status.

## Modules

| Module | What it is |
|---|---|
| `TdoChild` | the children: processes, pipes, the code they run, and the clock |
| `TdoStatus` | extends it with the verdict that `run.c` reads off a slot's logs and the process status |
| `TdoLoop` | extends it with what `tdo_run_all` does on both platforms: counters, results, the conditions of the loop |
| `TdoPosix` | extends it to the complete state machine of the POSIX runner |
| `TdoWindows` | extends it to that of the Windows runner: named pipes, the completion port, the job |
| `TdoLoopProperties` | what both runners owe, and the mapping to `TdoRunner` |
| `TdoPosixProperties`, `TdoWindowsProperties` | the types and what concerns one platform |
| `TdoRunner` | the abstract runner: what is promised whatever the platform |
| `TdoLoopProofs` | lemmas for any platform: lines, children, slots, counters, and the steps of `TdoRunner` |
| `TdoPosixProofs` | proofs: the counters and slots of the POSIX runner, its children, that it implements `TdoRunner`, what its results say |
| `TdoWindowsKernelProofs` | lemmas for Windows: the completion queue, what each step leaves alone, the parts of the invariant |
| `TdoWindowsProofs` | extends it: the inductive invariant of the Windows runner and its theorems |
| `TdoArena` | the allocator of `arena.c`, as operators on its record |
| `TdoLog` | strings and logs in an arena they share with tables and reports |
| `TdoTexts` | the abstract logs: texts with no memory behind them |
| `TdoLogProperties` | the memory's invariants, and the mapping to `TdoTexts` |
| `TdoArenaProofs` | lemmas about the allocator, for logs and arrays, and induction |
| `TdoLogProofs` | extends it: proofs about the logs and the step of a report |
| `TdoParse`, `TdoParseProperties` | test definitions, the arrays they are read into, the libraries |
| `TdoParseProofs` | extends both it and `TdoArenaProofs`: the arrays, the tests they hold and the pointers they keep |
| `TdoArguments` | the command line |
| `TdoMain`, `TdoMainProperties` | `main`, which reads the command line first, and the output file |
| `TdoMainProofs` | proofs about `main` and the command line |
| `MCPosix`, `MCWindows`, `MCLog`, `MCParse`, `MCMain` | values of the constants for the runs |

`TdoChild`, `TdoStatus`, `TdoLoop` and a platform form one tower: each extends
the one before, so both platforms share the child, the reporter and the loop as
the C code does. `TdoLog` and `TdoParse` each extend `TdoArena`; `TdoMain` extends
`TdoArguments`. The towers do not share variables: `TdoMain` treats reading and
running the tests as single steps with the outcomes the other models have, and
the runners treat a log as the sequence `TdoTexts` says it is.

### How the models correspond to the code

`TdoChild`. `proc[t]` is the process of test `t`: what `waitpid` would see
(`state`, `reaped`), the step it announced last and the value of the counter
that `tdo_run_fixtures` prints. `pipe[t][k]` is what was written and not read,
for the three pipes of `TdoRun`. The child writes a status line with one flush
shorter than `PIPE_BUF`, so a line is one element. A child's own code may print
up to `MaxChunks` times, exit, crash, stop itself or go on for ever. `overdue`
is the clock: children are started in order with one limit for all, so those past
it are always the tests `1..overdue`. Which time it is matters nowhere else.

`TdoPosix`. `pc` is the place in `tdo_run_all`; the other variables carry the
names of the code. One action is the code between two points at which the
children or the clock can change its course:

| Action | Code |
|---|---|
| `StatusInit` | `tdo_run_status_init`, which may fail |
| `Start` (`StartNew`, `StartFails`) | one turn of the filling loop: `tdo_run_new`, `tdo_run_start_new` with its failures, or the abort when no slot is free |
| `Poll`, `PollFails` | the call of `poll` and the reports of a failing one |
| `SkipEvent`, `DrainEvent`, `DrainFails` | one readable pipe, in the order of the `fds` array |
| `ReadClock` | the clock read once before the slots are inspected |
| `SkipSlot`, `WaitEnd`, `WaitNone` | `tdo_run_poll_exit` for the next slot: `waitpid`, the drains, the verdict |
| `WithinLimit`, `Expire` | the comparison with the limit |
| `Check` | the failed starts, `-x` and the loop condition |

`Release` is what every report of a slot does: the result, the counters, the
closed pipes, the free slot. `StatusVerdict` is `tdo_run_report_status` on a
slot's logs: last line, line before an `e` line, fixture index, process status.
Unless the test finished, the step is assembled in the arena first; if malloc
refuses that (`Granted`), an exit, a signal, a stop or a timeout becomes an error of
its own (`"step"`).
A verdict keeps the outcome, the step and how much output it showed. Messages,
durations and layout are left out. `Faults` says which calls may fail in a run;
a pipe or fork failure is sticky in the code, so it is in the model.

`wrote` and the `late` field of a process are history: no action of the parent
reads them, the properties do.

`TdoWindows`. The kernel is modelled from how the code uses it. `io[s][k]` is
its side of a pipe: connects not yet completed, a pending read, the client and
whether the client's end is open. `iocp` is the completion port, oldest packet
first; `jobExits` are the exits the job has announced. The assumptions: an
operation that succeeds at once posts its packet too; `CancelIoEx` gives each
pending operation one packet and none if nothing is pending; a client that ends
breaks the reads that are pending, and its exit is announced before or after
that; disconnecting a pipe fails a pending read with a code of its own. The
parent opens the clients of the two output pipes before it creates the child. The
status pipe is opened by the child, in its own `main`, and no step of the parent
waits for that: `OpenStatus` may come behind any packet of this slot or another,
behind the limit, or never, if the child is ended before, crashes, or cannot open
the pipe (`EndEarly`). The actions of the parent are one packet each, by what it
says and by the state of its pipe:

| Action | Code |
|---|---|
| `Start` (`StartNew`, `StartFails`) | `tdo_run_new` and `tdo_run_start_new`, with a failure at each of its stages and the cancellations behind it |
| `ExitDequeued`, `UnknownExit` | `tdo_run_handle_exit`, which aborts when no active slot has the id |
| `ConnectedDequeued`, `ListeningDequeued`, `DataDequeued`, `AppendFails`, `EmptyDequeued`, `CancelledDequeued`, `IdleDequeued` | a packet that succeeded, by the state of its pipe |
| `FailedDequeued`, `UnexpectedFailure` | one that failed |
| `WaitTimeout` | no packet for 100 ms: the limits |
| `Check`, `CloseJob` | the end of the loop body, and the job's end |
| `Children`, `Kernel`, `Time` | the children (`OpenStatus`, `Child`), what the kernel does after one ended, the clock |

A slot whose child never opened its status pipe is freed with the connect of that
pipe pending, and the next start in the slot connects the pipe again, with the
same `OVERLAPPED`. `reconnected` is history: it becomes true at that moment. No
action reads it. The model goes on behind it as the code does, and that is where
`windows_twice` finds what goes wrong; almost everything tdo
promises on Windows is claimed and proved up to it, and no further.

`Habits` are things a test's code may do that a run may switch off: print for ever
(`chatter`) and start a process of its own (`spawn`).

When a log cannot grow, the child is terminated before the other two pipes are
cancelled; `AppendFails` is one step, and its exit packet may come in front of
those of the cancels or behind them.

`TdoArena`. A pointer is a node and an offset into its buffer; the first node
lies behind two headers, the others behind one, and alignment is that of the
address. `Alloc`, `Resize`, `StateSet` return the new arena; the operators that
end in `Aborts` are the code's own checks. Sizes are below `SizeMax`, products
are taken modulo `SizeMax + 1` where the code does not check them, and malloc
refuses what exceeds `MallocMax` (`PTRDIFF_MAX`), or anything when not `granted`.

`TdoLog`. The arena of one `tdo_run_all`, in which the parser's arrays are already
(`ParsedArenas`; `Parsed` says how much they may take): three tables (two in the runs), the
logs that grow while children print, and between `tdo_arena_state_get` and
`tdo_arena_state_set` the step of a report. `memory` maps the addresses that
were written to the byte written last; what is given back leaves its domain. A
byte is named by its owner and its place there. `granted` is chosen once for each
append: malloc fails for both of its allocations or for none.

`TdoParse`. A line is a sequence of items, a prefix and a library each; splitting
it into characters, and the symbol's own name, do not matter to the properties.
`blocks` holds the elements at each address an array was ever put, so the copy
an array leaves behind when it moves stays readable, as in the code. A pointer to
a library is a block and a place in it. The string arena and the line buffer are
abstracted to allocations that may fail (`NoMemory`). `-t` is an input of one line.

`TdoArguments` takes one word, or an option and its value, per step. What
`strtoul` and `strtof` make of a word is given by `Jobs` and `Limits`; a word in
neither is one they do not accept whole. A limit is told by its sign only, or nan.

`TdoMain`. `pc` is the place in `main`, by the resource or the label; `held` is
what has to be released. The output file is a sequence of parts, and a report is
written over its start. `"crashed"` is a use of the NULL stream that a failing
`open` leaves in `output`.

Definitions whose comment says "A slip" are not part of the specification. Each
is a plausible mistake in the definition that follows it; with it in place the
property named for it in `PROJECT.json` fails.

## Runs

| Run | Instance | Question |
|---|---|---|
| `posix_results` | 2 tests, 1 slot, the second test with `after, before, before` fixtures, one chunk of output, every way to end, reads may fail, poll may fail for good | is each result right and the only one: outcome, step, output, slot reuse? |
| `posix_parallel` | 3 tests, 2 slots, fairness; children hang or stop, fork and pipe may fail, poll is interrupted | are all tests reported, are children never lost, is a late exit told from a timeout, does the loop implement `TdoRunner` and end, is the limit enforced? |
| `posix_faults` | 3 tests, 2 slots, `-x`; init, pipe, fork, read and allocation fail, poll is interrupted | balanced counters, no stray kill, no abort, nothing started after a failure |
| `windows_reuse` | 3 tests, 2 slots, one of which stays taken while the other is used again; opening a client may fail in the parent, opening the status pipe in the child | up to `reconnected`: exactly one packet to come for every busy pipe, no abort, no child lost, one result each, the counters agree, `TdoRunner` implemented |
| `windows_limit` | 3 tests, 1 slot, fairness; children hang in any step or never open their status pipe, opening a client may fail | up to `reconnected`, does the run end, and the limit every child? |
| `windows_faults` | 2 tests, 1 slot, one chunk of output; every call of the parent fails, children exit or hang at any time, cannot open their status pipe, print for ever, start processes | is each result right, are logs of their own slot only, up to an abort? |
| `log` | 2 logs of up to 4 bytes, chunks of 1 and 3, two tables, a step of two parts; an arena that is new or holds 3 or 9 bytes of the parser; nodes of 8 bytes, alignment 2, odd headers, malloc fails anywhere | are live objects apart, does no check fail, are the logs what was read? |
| `parse` | up to 5 lines of 5 shapes over 4 libraries, the sizes of a 64-bit build, malloc fails anywhere | are the tests those the lines define, with their libraries loaded? |
| `main` | every command line of up to 3 of 18 words and some longer ones; every acquisition may fail; an output file that is absent, empty or longer than the report | do the words mean what they say, is all released, are failures told, is an old file kept? |
| `posix_orphans` | 2 tests, 2 slots, `-x` | violated, see below |
| `parse_libraries` | one test in each of five libraries | violated, see below |
| `windows_twice` | 3 tests, 2 slots; children only hang, no call fails | violated, see below |

Why these sizes: two slots are needed for one slot's report to meet another's
running child, and a third test for a slot to be reused while the other is
occupied. The lists of fixtures mix both kinds in an order they do not run in,
so that counting by kind and counting by place differ. One chunk on one stream
is enough to lose or to misplace output; the streams differ only in their name.
On Windows the second line of a status pipe is written while the packet of the
first waits. `windows_reuse` has the constraint `OneHangs`: test
2 hangs before its first line, so its slot is the one that stays taken, and nothing
is explored behind `reconnected`, where its properties claim nothing. Which test
hangs is a choice among children that are alike; that two slots are both used
again is outside of this run and left to the proofs, which need no such bound.
In `windows_faults` and `windows_limit` one slot is used by two and three tests
without a constraint, `reconnected` or not. A crash of a Windows child is in no
run: it sends the packets an early exit sends, only the result differs, and
`posix_results` checks that. The proofs allow it.
`MaxChunks` caps what a child prints; `overdue` is at most the number of tests.

In `log`, a node of 8 bytes is full after a table and a log, so logs move, nodes
are skipped and the arena grows up to three times; `MallocMax` then stops it.
`MaxLength` caps a log. Two logs suffice for one to lie between the other and the
end of its node, which is when `tdo_arena_resize` has to refuse. In `parse` the
shapes are an empty line, one with a wrong prefix behind a library that is new,
a malformed test, fixtures up to a malformed one, and more fixtures than an array
starts with; five tests make the array of tests move too. `MaxLines` is the
bound. In `main` three words are an option, its value and one more, so every
option meets every other; the longer lines bring all files into one run.
`MaxTests` bounds the tests of an input.

Fairness, POSIX (`FairSpec`): the parent is scheduled (`poll` returns after 100 ms
at the latest), and time passes. Windows: the same, and the kernel finishes what a
process left, that is, closes its ends and announces its exit. Nothing is assumed
of a child: it may hang in any step. `RunEnds` and `Returns` therefore rest on the limit. A
drain is one step in the POSIX model, so a child that prints faster than the
parent reads is outside of it.

Deadlock is checked in the runs of the two runners, where the end of
`tdo_run_all` is a stuttering step. The programs of `log`, `parse` and `main`
stop, so their runs do not check it.

### Disagreements shown by a run

* `posix_orphans`: `-x` leaves the loop although other slots hold running
  children. They are neither killed nor waited for and outlive `tdo`; the help
  text says that execution stops immediately.
* `parse_libraries`: a symbol keeps a pointer into the array of libraries. The
  fifth library makes the array move, because tests were allocated behind it, and
  `main` loads the libraries of the new copy. Every test of the first four
  libraries then fails with "Could not load library". A build of the
  program does this.
* `windows_twice`: a slot is reported while its status pipe still waits for a client
  that will never come, because the limit ended the child before it opened the pipe
  (a crash does the same). The next test in the slot connects the pipe a second time,
  and its client completes both connects. The first packet starts a read, the second
  is taken for the end of the pipe. The failed packet of the read comes when the test
  is already reported and the slot free. Nothing asks whether the slot is active, so
  the test is reported again, `running` and `finished` count it twice, and the loop ends
  without a result for the test in the other slot. If the second packet comes
  while the read is still pending, the disconnect fails that read with a code that is
  not expected, and `tdo` aborts: `NoAbort` without `reconnected` is violated too, with
  two tests in one slot.

### Where the checked configurations stop

The properties hold in the instances above. These are situations of the code in
which one of them does not, left out of the passing runs:

* POSIX, fork or pipe fails while nothing runs and poll fails in the same
  iteration: both loops report the tests left, twice in all (`Faults` with `poll`
  and `fork`; `ReportedAtMostOnce`).
* POSIX, poll fails while a child runs: its slot is dropped without a kill and its
  limit is gone (`poll` with fairness; `LimitIsEnforced`).
* Windows, a log cannot grow after its child's exit was handled: the other pipes
  are marked as being cancelled, nothing reports the slot, the run never ends
  (`memory` with fairness; `Returns`). A pipe that had nothing to cancel then is
  "cancelling" with no packet to come (`memory`; `OnePacketPerPipe`).
* Windows, a child that prints for ever: the limits are looked at only when a
  packet failed or none came (`chatter` with fairness; `LimitKept`).
* Windows, a test that starts a process: its exit is announced with an id no slot
  has, and `tdo` aborts (`spawn`; `NoAbort`).
* Windows, everything behind `reconnected`, but for the properties of
  `windows_faults`.
* `main`: `-f` opens the output file without truncating it, so the end of a longer old
  file stays behind the report (`file` is then the report and a part of the old file).
* `main`: an output file that cannot be opened for another reason than `EEXIST` is
  used all the same, as NULL (`"crashed"`). A status file that cannot be opened, or
  a `-t` that does not parse, ends with status 0 (the exceptions of
  `FailureIsTold`). `--timeout nan` is accepted, and then nothing ever times out.

## Proofs

TLC answers for the instances above; the theorems hold for any number of tests,
slots and nodes, any fixtures, output, fates and faults, any sizes and any command
line. Their only assumptions are the named `ASSUME`s of the modules, and where a
theorem needs more, its own hypothesis says so. Four of the named ones deserve a
word. `LogAssumption` takes reads and parts of at most half the address space: they fill a
buffer in memory, and no object in C is larger. It takes at least one table of
positive size, as `tdo_run_all` has. `ArgumentAssumption` says that a command line
is a sequence of strings none of which is NULL, and that the options, and words like
`-j2` which are none of them, start with a dash. `ArenaAssumption` lets malloc refuse anything beyond
`PTRDIFF_MAX`. `ParseAssumption` says that the first node of the arena was
allocated, so it is not larger than that.

### The counters and the slots on POSIX (`TdoPosixProofs`)

| Theorem | Property |
|---|---|
| `TypeCorrect` | `TypeOK`; `running`, unsigned in the code, never wraps |
| `SlotAlwaysFree` | `NeverAborts`: `tdo_run_new` finds a slot whenever it is called |
| `ReportedOnce` | `ReportedAtMostOnce`, under `NeverBoth` |
| `NothingForgotten` | `NoTestForgotten`: the loop ends with all results, or under `-x` after a failure |
| `AccountsBalanced` | `AccountsBalance`: each counter is the number of results of its outcome |
| `NothingStartedAfterFailure` | `NoStartAfterFailure`, the action property of `-x` |

None is inductive. The types alone do not bound `running` from below: a release
decrements it, and that it was positive follows only from its being the number
of active slots. So the invariant `IInv` relates the counters, the slots and the
results. It has two phases. In `Counting` (the usual one) `running` is the
number of active slots, `finished + running = started`, no two slots hold the
same test, and a test has a result exactly if it was started and no slot holds
it. In `GivenUp` (after a failing poll or after failed starts) every test has a
result, no slot is active, and only the steps to the end of the loop are
possible; `running` may then be wrong, as in the code. `GivingUp` is the lemma
that leads from the first to the second. `NeverBoth` (poll does not fail for
good in a run in which pipe or fork can fail) is needed: without it a test gets two
results, see above. `Accounts` adds that the counters are the numbers of
results, one by one and in sum, which `GivenUp` has too, and `NoMoreStarts` that
a failure under `-x` never leads back to the filling loop.

### The children on POSIX

`NoKillGoesAstray` proves `NoStrayKill`: tdo never signals a process id it has
waited for. Its invariant `Watched` says what the slots know of their
children: a test not yet started has neither process nor pipes (`Unborn`), the child in
a slot was not waited for and was not killed by tdo (`Watchable`), and
while its limit is being compared, a child that ended was late or the clock was
read before (`Timed`). `Timed` is what the order "clock, `waitpid`, compare" is
worth: with the clock read after `waitpid` a child that ended in time could be
seen as late. The steps of the parent are sorted by what they do to a slot (`GivesUp`,
`RestReported`, `SlotsKept`), so that each invariant is shown for four kinds of
step and not for fifteen actions.

### The results on POSIX

| Theorem | Property |
|---|---|
| `LogsStayWithTheirChild` | `LogsBelongToSlot` |
| `VerdictIsTheEnd` | `VerdictMatchesEnd` |
| `StepIsTheEnd` | `StepIsWhereItEnded` |
| `OutputComplete` | `OutputIsComplete`, unless `read` fails |
| `TimeoutsAreReal` | `NoFalseTimeout` |
| `LivingAreWatched` | `AliveIsWatched`, if poll does not fail for good |
| `NobodyLeftRunning` | without `-x` and with the same hypothesis, no child outlives the loop |

The chain from a child to its result has three links. First, what it announces: by
`Named` the step in `proc[t]` is one of the test's steps and, with the counter
of `tdo_run_fixtures`, says how many lines it wrote; they are the first so many of
`AllLines(t)`, the lines of its fixtures in the order of their kinds
(`LinesInOrder`). Second, what the parent reads: by `Own`, the log of a slot
followed by what is still in the pipe is `Written`, everything the child in that slot wrote.
This is the invariant that a slot used again, or a log not reset,
would break, and it does not mention when the parent reads. Third, what is read
off: `StatusVerdict` on the last line of such a prefix finds the step, though
the line holds only a kind and a number and the fixtures of both kinds are
mixed; the place is found by counting, and `TdoLoopProofs` proves that the
count of a kind up to its n-th fixture is n. `Settled` puts them together at the moment of the
report and `Results` keeps it, for a result is never taken back.

That a verdict is right needs `Timed` too: a child that ended in time and is
seen late must not be reported as timed out. `LivingAreWatched` does not hold when
poll fails for good (slots are dropped without a kill), and `NobodyLeftRunning` not under
`-x`: `posix_orphans` is the counterexample.

### The refinement on POSIX

`RunnerImplemented` proves that `Spec` implies `ImplementsRunner`, the specification
of `TdoRunner` under the mapping of `TdoLoopProperties`: a test waits, runs, has
passed or has failed. Every step of the loop begins one test, reports one, gives
up on all that are left, ends the run, or is not seen. The invariant `RInv` is
`IInv` with what the abstract guards ask: no test is in two slots
(`SlotsApart`), a failed test means `any_failed` (`FailureSeen`), and
`NoMoreStarts`. The theorem is about safety; that the run ends is `RunEnds`.

### The Windows runner (`TdoWindowsKernelProofs`, `TdoWindowsProofs`)

| Theorem | Property |
|---|---|
| `TypeCorrect` | `TypeOK` |
| `NeverAborted` | `NoAbort`, unless a test starts a process |
| `OnePacketEach` | `OnePacketPerPipe`, unless memory fails |
| `ReportedOnce` | `OneResultEach` |
| `NothingForgotten` | `NobodyForgotten` |
| `EveryChildWatched` | `NobodyLost` |
| `AccountsBalanced` | `CountersAgree` |
| `NothingStartedAfterFailure` | `NoStartAfterFailure` |
| `RunnerImplemented` | `ActsAsRunner` |

Nothing is assumed of when a child opens its status pipe, or whether it does. The
properties but `NoStartAfterFailure` say `reconnected \/ ...`: they hold of every
behaviour up to the moment at which a pipe is connected that an earlier connect is
pending on, and `windows_twice` shows what comes after it. (A
run in which every child opens its pipe before it ends never gets there; nor does
one with as many slots as tests.) `TypeOK` says it of `running` only.
`NeverAborted` leaves out `spawn` and `OnePacketEach` leaves
out `memory` for the reasons given under "Where the checked configurations
stop"; every other call may fail in every theorem.

The invariant is `reconnected \/ WInv`. What makes it long is that a slot ends only after its
packets have come, so what a slot may do next depends on the queue. `PipeRight`
says for each pipe what is under way: an idle one has no packet; a
waiting one has its connect, pending (the status pipe, until its child opens it) or
done with its packet, a connected one is being read or has one packet,
with no more data than there is in the pipe, or the end of the pipe; a cancelled one has its
last packet, or none where a log could not grow while its child's packets were
all taken (the one case that memory makes). `ExitRight` says that an exit is
announced once, in front of the closing of the handle and *behind* the packets of
connects of the same slot (`Behind`): a child that opens its status pipe is alive, so
that packet comes before its exit. With these two the other way round, a packet of a
pipe could come for a slot already reported. `FreeRight` allows a free slot to have
pipes that are being cancelled only after a failed start, after which nothing is
started any more, and a status pipe with a connect pending that no living child will
complete; as long as `reconnected` is false, a slot that is used again is otherwise
idle. `TestRight` says that a test outside of all slots is not
alive and has no exit to come. The counters are `Counting` of `TdoLoopProofs`, as on
POSIX, until failed starts end the run (`RestFailed`).
`NothingStartedAfterFailure` needs none of this: `NoneFailed` relates the flag of
`-x` to the place in the loop alone, which no packet can disturb. It and
`NothingForgotten` are proved without a Windows run of their own.

The proof goes by what a step touches. A step of a child or the kernel changes the
queue only for the pipes `F` and the tests `E` it names (`QueueStep`), and
`QuietSlots` and `QuietPipe` keep the rest. A step of the parent takes one packet
off and touches one slot; `ParentMoves` reduces all of them to three ways to move the
counters (`Calm`, `Releases`, `Starts`), and `Check` is apart.
Closing the three ends of a child, or cancelling the pipes of a slot, puts up to three
packets on the queue in one step; `TwoRounds` and `Parts` say where they land.

### The allocator and the logs (`TdoArenaProofs`, `TdoLogProofs`)

| Theorem | Property |
|---|---|
| `TypeCorrect` | `TypeOK` |
| `ChecksNeverFail` | `NeverAborts`: no check of `arena.c` or `str.c` fails, wherever malloc does |
| `ObjectsShareNothing` | `BlocksApart`: logs, tables, the step of a report and what the parser left never overlap |
| `TextsImplemented` | `ImplementsTexts`: what memory holds for the logs implements `TdoTexts` |
| `StepAssembled` | `StepIsAssembled`: the step is its parts in order and a NUL |

Between two calls the arena is `ArenaOK`: it allocates from its last node, its
nodes end within what malloc gives, and the last allocation is aligned and in
that node. The last clause is not in any property, and without it `Resize` could not be shown
to extend in place only what is the last. What an object knows of
the others is `Within` (it lies in what its node gave out) and `Apart`. The
lemmas say of each operator what it does to an object *beside* it: `Alloc` gives a
block apart from everything within (`Allocated`), `Resize` leaves an object
where it is or moves it to such a block (`Moved`), `StateSet` gives back what was
allocated since the state was saved and nothing else (`Since`, `Saved`). `LInv` adds that
during a report the saved state lies behind every object but the step, which is
why a report gives back the step alone.

The last two theorems are about the bytes themselves. The invariant `TextRight` says
that byte i of log l is `<<l, i + 1>>`, the (i + 1)st read for it. An append to
another object writes nowhere but in its own room, which lies apart, or at a new
place, which does too (`Kept`); an append to the log itself copies or keeps what was
there and puts the new bytes behind it (`Grew`); both come from the operators alone
(`AppendToBytes`, `StringAppendBytes`). A refused append closes
the log with the text it had. So each text stays, grows by a suffix or becomes empty,
which are the steps of `TdoTexts` (`NextRefines`). `StepRight` is the same for the
step of a report, whose text is a fold over its parts. Folds are
recursive functions: that one exists, and its value at n + 1, are proved by
induction (`Induction`, from the least element every set of numbers has) and
without a theorem that takes an operator.

### The parser (`TdoParseProofs`)

| Theorem | Property |
|---|---|
| `TypeCorrect` | `TypeOK`: no array holds more than its block has room for, no check of the arena fails |
| `TestsAsDefined` | `ParsedAsDefined`: the tests are those the lines define |
| `LibrariesLoaded` | `SymbolsAreLoaded`, if the lines name at most `FirstCapacity` libraries (`Few`) |

Three kinds of arrays grow between each other in one arena. `MemoryInv` says of an array that is
still appended to that its block holds its elements and no more (`Live`), that no two
of them share a block (`Separate`), and that the elements times their size never
exceed what malloc gives: that is why the doubled size, which `tdo_arena_resize` does
not check against overflow as it should, cannot wrap (`ResizeElements`). A new
block gets an address no block had before, because what was given out stays in
front of the last allocation (`Settled`), the only one that is cut back. With that,
`AppendOutcome` says once for all three arrays what `tdo_array_append` leaves.

`TestsAsDefined` is about pointers that outlive a move. Blocks are only ever extended
(`Extended`), a moved array's old block included, so what a pointer leads to keeps its name
(`PointsLater`) and a test keeps its meaning (`MeansLater`). `ParsedInv` says that the
tests in the array mean what the lines *before* this one define, and that the test of this line
means its first k items (`InFixtures`); `DefinedByLine` says which of the ways
a line ends yields that test or none. The definition of the whole input is a
`FlattenSeq`, which grows by one line at a time (`AllDefinedGrows`).

`LibrariesLoaded` needs `Few`, and the code has nothing in its place: `main` loads the
libraries of the array's last block, and a symbol made before the array moved points into
an earlier one. That the array does not move while there are few libraries is a count: its
names are different ones of a set of that size (`Enough`). `parse_libraries` has
one library more, and fails.

### main (`TdoMainProofs`)

`EverythingReleased` (`AllReleased`), `FailuresAreTold` (`FailureIsTold`),
`OldFilesAreKept` (`OldFileIsKept`, an action property) and `TypeCorrect` hold for every
command line. `MInv` says where in `main` each thing may be held and which pointer
says so (`Held`): the chain of labels is right because behind each label
nothing is held that a label before it releases. `Told` says that the status was set
at every place a failure can be in, and `Created` when the output file is one
that tdo made.

`ArgumentsUnderstood` proves `ArgumentsAsGiven`: the parser reads word by word, and
what it makes of a command line it accepts is what the line says as a whole. `Starts`, which says
which words are options and which are their values, is a recursive function;
that it exists is shown by induction on its domain (`StartingExists`, from the
least number of a set). The invariant `AInv` says that the next word is
not a value (`InTurn`) and that, as long as nothing was wrong, `args` is what the words read so far
say (`SoFar`). Each kind of word adds one place behind the
others, so it is the last of its option and changes nothing else (`OneMore`).

### What stays with TLC

* Windows, the contents of results: `VerdictMatchesEnd`, `OutputIsComplete` and
  `LogsBelongToSlot` need the chain of the POSIX results over data packets whose
  bytes are still in the pipe; `WInv` has its first link (`PipeRight`).
* Liveness (`RunEnds`, `LimitIsEnforced`, on Windows `Returns` and `LimitKept`): fairness and ENABLED are out of the
  prover's reach.

## Not modelled, and the plan

Not modelled:

* the human and the JSON layout of a result, escaping, colours, and the
  line breaks `success_in_a_row` decides: no property tells them apart;
* `tdo_log_drain` in single reads, hence a child that prints faster than the
  parent reads;
* descriptors and the process table: a failed start leaves descriptors open, a
  killed child stays a zombie until `tdo` exits;
* `tdo_arena_state_clear` on a whole arena, used for the line buffer only, and
  `tdo_arena_deinit`;
* on Windows, the job's time limit message (nothing sets such a limit) and a failing
  `GetExitCodeProcess`; the job's end of `-x`'s other children is the
  kernel's promise and is taken as such;
* the C library, the dynamic loader, and the test suite under `test/`, which is
  read for what it expects of the program.

Next: what the results of the Windows runner say, along the proof of the POSIX
results.
