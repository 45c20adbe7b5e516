# A verification project for the programs of this repository

The repository is a personal site of study notes. Two bodies of program code in
it are its own: the malloc lab driver under
`src/summary/CSAPP/malloc/malloclab-handout/` (C), and the scripts of the site,
`src/assets/js/main.js` and `util.js` with `breakpoints.min.js`. Some algorithm
notes (`src/summary/ACM/*.md`) hold short C++ listings. The rest is text, images,
styles and third-party JavaScript.

The modules model the malloc lab from the command line to the cycle counter, the
script of the page, and the panel, the placeholder polyfill and `$.prioritize` of
`util.js`.

## Inventory

Paths are relative to the malloc lab directory unless they start with `src/`.

| component | state | operations | correct when |
|---|---|---|---|
| `memlib.c`, `config.h`: simulated heap | `mem_start_brk`, `mem_brk`, `mem_max_addr` | `mem_init`, `mem_reset_brk`, `mem_sbrk`, queries | `mem_brk` stays inside the block and moves down only on reset, also for sizes that overflow an int |
| `mm.c`: naive malloc package | the heap's bytes (a header before each payload) | `mm_init`, `mm_malloc`, `mm_free`, `mm_realloc` | payloads aligned, inside the heap, apart; headers and foreign payloads never written; realloc keeps the data |
| `mdriver.c`: range list | the list `ranges` in `main`, kept across traces | `add_range`, `remove_range`, `clear_ranges` | it is exactly the payloads allocated now |
| `mdriver.c`: `eval_mm_valid` | `trace->blocks`, `trace->block_sizes`, `errors` | one step per request | a bad package is rejected, a good one is not |
| `mdriver.c`: `main`, `eval_mm_util`, `eval_mm_speed` | the trace record, `mm_stats`, sizes in use | the loop over traces, three passes each, the report | passes agree with each other; errors are counted once; the run ends |
| `mdriver.c`: the options of `main`, the team check | `tracedir`, `tracefiles`, flags | one step per option | the files read are those asked for, whatever the order of the options |
| `mdriver.c`: `read_trace`, `free_trace` | the trace record | parse one file | the record says what the file says, malformed files are refused |
| `mdriver.c`: `eval_libc_valid`, `eval_libc_speed` | the trace record, the heap of libc | the same requests on libc | no block is freed twice, a balanced trace can be timed for ever |
| `fcyc.c` | `values`, `samplecount`, `cache_buf`, parameters | `fcyc`, `add_sample`, `has_converged`, `clear`, setters | the K smallest samples in order, the smallest returned, an end |
| `clock.c` | start value of the counter, `cyc_per_tick` | `start_counter`, `get_counter`, `mhz`, `callibrate`, compensated variants | differences right across wraps; interrupts never counted as running time |
| `fsecs.c`, `ftimer.c` | timer start values | `fsecs`, `ftimer_itimer`, `ftimer_gettod` | the time between the readings is measured, and no timer of an earlier measurement strikes |
| `src/assets/js/main.js`, `breakpoints.min.js` | breakpoint states, event handlers, DOM places | media query events, load, scroll | footer and scroll handler match the width |
| `src/assets/js/util.js`: `$.panel` | visibility, scroll position, pending timers, `touchPosX/Y` | toggle, the events that hide, post-hide timer, redirect timer | what is hidden is reset, what is in use is not, and of several links clicked none overrides a later one |
| `src/assets/js/util.js`: `$.placeholder` | values, classes, names and visibility of fields | focus, blur, keypress, submit, reset | a hint is never submitted, an empty password field has its stand-in |
| `src/assets/js/util.js`: `$.prioritize`, `navList` | order of elements, the element remembered | move to the top, and back | elements go back where they were |
| `src/summary/ACM/*.md` | arrays of the listings | union-find, fast power, linear sieve | results equal the definitions |

How they interact. With `-l`, `main` first plays every trace to libc
(`eval_libc_valid`, then `eval_libc_speed` through `fsecs`). Then it reads each
trace again and calls `eval_mm_valid`, `eval_mm_util` and, through `fsecs`,
`eval_mm_speed`. Each of these three resets the heap (`mem_reset_brk`),
initialises the package and plays the requests into `mm.c`, which calls
`mem_sbrk`. The three passes share one heap, one trace record and one range
list; `main` shares the range list and `errors` across traces. `fsecs` measures
by `fcyc`, which takes its samples from `clock.c`, or by `ftimer.c`. There are no
threads, but the clocks run on and the kernel interrupts at any instruction. What
is hard is history: state that outlives the pass or the trace it belongs to,
headers trusted long after they were written, arithmetic at the ends of the heap
and of an int, failures half way, and clocks that are read in two halves or one
after the other.

In the browser scripts the hard part is interleaving: timers that fire after
the state they were set for has changed, handlers registered twice, one gesture
that is two events, and the order of DOM moves. A panel and the form in it
interact through the reset that the panel's timer calls: the polyfill takes its
place, whatever the user is doing in the form. `util.js` comes with the template of
the site: `main.js` calls none of its functions, and the modules follow the
functions, not a use of them.

## Modules

| module | models |
|---|---|
| `Config` | the constants of `config.h` |
| `Memlib` | `memlib.c`. Addresses and ints are taken modulo `WordMod`, the number of values of a 32-bit word in the `-m32` build |
| `MM` | `mm.c` on top of it: `mm_malloc` and `mm_realloc` as functions of the heap, one memory cell per address |
| `MMClient` | any caller of `mm.c` that frees and reallocates only what it holds and writes only inside its payloads; the properties of `mm.c`, for requests whose `newsize` does not wrap (`RequestsFit`) |
| `Allocator` | the abstract contract of a malloc package: what its caller may rely on, with nothing said about headers or `mem_brk` |
| `RangeList` | the range list of `mdriver.c` |
| `EvalValid` | `eval_mm_valid`, one action per kind of request, given the answer of the package |
| `AnyPackage` | `eval_mm_valid` composed with an arbitrary package that may answer anything |
| `Traces` | what a sequence of requests means: which indices are live after a prefix, sizes, and sound traces. No code |
| `MDriver` | `main` with the three passes, composed with `MM` |
| `TraceFile` | `read_trace` on a file of words and numbers |
| `CommandLine` | the options of `main`, the team check, the choice of the trace files |
| `ReadTraces` | both together: `main` from its arguments to a trace record |
| `LibcDriver` | the libc half of `main` with both passes, against any allocator |
| `Main` | both halves of `main` as one program: `LibcDriver`, then `MDriver`, with the same `i`, `errors` and trace files |
| `BestOf` | abstract: a measurement promises the smallest of the samples it took, and why it stopped |
| `KBest` | `fcyc.c`: the sampler, the convergence test, `clear` and the setters |
| `Timers` | `ftimer.c`: calls between two readings of the interval timer or the time of day, with clocks that go on and may be set |
| `Fsecs` | `fsecs.c`: `KBest` or `Timers`, as `config.h` chooses |
| `Clock` | `clock.c`: counters, `mhz`, `callibrate`, compensated counter, with a machine that runs and interrupts in between |
| `Breakpoints` | the event list of `breakpoints.min.js` |
| `Site` | `main.js` on top of it, with the reader and the browser's events |
| `Placeholder` | `$.placeholder` of `util.js`: a form with a text field, a password field and its stand-in, a select and a hidden field |
| `Panel` | `$.panel` of `util.js` on top of it: the events, the timers, and the user |
| `Prioritize` | `$.prioritize` of `util.js` |
| `MC_*` | constants for TLC |
| `*Proofs` | theorems: `MMProofs` about `MMClient`, `AnyPackageProofs` about `AnyPackage`, `MDriverProofs` about `MDriver`, `LibcDriver` and `Main`, `TraceFileProofs` about `TraceFile` and `ReadTraces`, `KBestProofs` about `KBest`, `Timers` and `Fsecs`, `ClockProofs` about `Clock`, `SiteProofs` about `Site`, `UtilProofs` about `Panel`, `Placeholder` and `Prioritize` |

`Memlib` is under everything of the mm side: `MM` adds the package, `RangeList`
and `EvalValid` the checker, and `MDriver` joins the two sides as the program
does; `Main` puts the half on libc before it. The timing side (`KBest`, `Timers`, `Clock`) needs no heap: what it measures is a
function that takes some time. The names of operators are the names in the
source.

Correspondence. One action is one request together with all that the code does
about it before it looks at the next: in `ValidRealloc` the call of
`mm_realloc`, `remove_range`, `add_range`, the comparison of the old data, the
`memset` and the update of the record, or the error return with what has
happened so far. The driver has one thread and nothing else touches its
memory, so nothing can come between. In `TraceFile` an action is one turn of the
reading loop, in `KBest` one sample or one clearing of the cache. In `Clock`
something does come between: there one action is one reading of a clock, and the
machine takes steps before and after each. In `Timers` the
clocks take steps between any two steps of the code. In `Site`, `Panel` and
`Placeholder` an action is one event with all its handlers, as the browser runs
it, or one timer that fires; the event of one handler that calls another
(`reset` from the post-hide timer, `focus` from the stand-in) is part of it. In `Prioritize` it is one
call with all its elements.

Definitions whose name has a suffix, such as `SbrkFails_OffByOne`, are the same
definition with a plausible bug; each property is checked to fail when such a bug
is put in.

What is abstracted: wording and printing, the order of the range list (a set;
`RangesMirrorLive`
compares it with the truth after every removal), the bytes of a header other than
its first (one cell holds the size), floating point (utilization is kept as a
pair of numerator and denominator; the convergence test is done on integers, with
epsilon a fraction), the text of a trace file below the words and numbers that
`fscanf` takes from it, and the numbers 2^32 and 256 (`WordMod`, `CharMod`;
`Word` in `Clock`). `mem_heap_hi` and the other queries are state functions. `mm_init` and `mm_free` do nothing in `mm.c` and
have no action of their own.

What undefined behaviour is modelled as: a request past the end of `ops` in
`read_trace`, which the assertion rejects later if the program gets that far, is
noted and never returned; a number that `fscanf` does not find leaves the
variable as it was, and as any value when it had none.

## Runs

| run | question |
|---|---|
| `mmclient` | Do blocks stay apart, aligned, in the heap, with intact headers, and does every step keep the `Allocator` contract? Around int overflow and the exact end of the heap: does the heap shrink, or a request fail that fits? |
| `anypackage` | What does a verdict of `eval_mm_valid` say about a package? |
| `anypackage_enclosure` | Are accepted payloads disjoint? **Violated** by a payload that encloses another. |
| `anypackage_high_index` | Is a package that does nothing wrong accepted for every index? **Violated** from index 128 on. |
| `mdriver` | Do the passes of the driver agree with each other and with the trace, over every short trace? |
| `tracefile` | Are the files read those that the command line asks for, is what `read_trace` returns what a proper file says, and is every other file refused or turned into something its header agrees with? |
| `main` | With both halves as one program: does a pass over libc ever free a block of an earlier one, and what stays allocated in libc after any number of passes? |
| `fsecs` | Are `values` the K smallest samples after any sequence of samples and parameter changes; does `fcyc` implement `BestOf` and return? Do the timers measure the time between their readings, and does the interval timer kill only a measurement of a day? |
| `clock` | Is a difference of counters exact, does the estimate of `callibrate` cover a tick, is interrupt time ever counted as running time? |
| `site` | Do footer, scroll handlers and background follow the width through any order of resizes, loads and scrolls? |
| `prioritize` | Are moved elements on top, and does the way back restore the order when elements are named by a selector? |
| `panel` | Is a hidden panel reset, and a panel in use spared by the timers of earlier hides? Where is the window sent after several links, and can an earlier link override a later one? Does a form ever submit a hint or lose its password field? |

Bounds and why they are enough.

* `mmclient`: three ids on a heap of 48 bytes. Sizes 8 and 9 take 16 and 24
  bytes, so the heap can be filled exactly and in several ways; with `WordMod`
  256, 113 is the least size whose `newsize` overflows the int, 127 the largest
  int, and 240 the largest `size_t` whose `newsize` does not wrap. Three blocks are enough for two neighbours of one that is reallocated or
  freed.
* `anypackage`: three indices, addresses below, inside (aligned and not) and
  above the heap, sizes that nest (4 in 20), a zero size for the assertion, and
  two traces so that what the first leaves behind meets the second. `CharMod`
  is 6 so that indices 0 to 2 are below its half; `anypackage_high_index` takes
  4 and index 2.
* `mdriver`: all well-formed traces of up to four requests over two indices and
  two sizes, on a heap for four small blocks, so that some traces do not fit.
  Traces of up to three requests are followed by a second trace: one that
  leaves blocks allocated, one that does not fit, one whose size (125 of 127)
  overflows the int of `mm_malloc`, one that fails the assertion in `add_range`,
  one that needs little. `FitsHeap`, by which the verdicts are judged, adds up
  what the blocks of a trace take, with the overflow. `eval_mm_speed` runs once or twice per
  trace (ten times with `gettimeofday`, three to twenty with `fcyc`): every run
  after the first starts from the state the one before has left.
* `tracefile`: files of up to three lines, each a word (`a`, `r`, `f` or bogus)
  with none to two numbers, under headers that announce one or two ids and none
  to three requests: too few and too many lines, and stale numbers from the line
  before, all happen.
  Command lines of up to four options, with two names for `-f` and two directories
  for `-t`, are read with every team and both kinds of `char`; they are varied for
  one of the files, since the text of a file does not depend on them.
* `main`: traces of up to four requests with sizes 0 and 1, followed by a
  balanced one or one that leaves a block, on three blocks of libc (which are
  alike: they are a symmetry set), timed once or twice: leaks of two passes use
  the allocator up. The same traces then go to `mm.c`, or go there at once, as
  without `-l`.
* `fsecs`: K from 1 to 3, `maxsamples` -1, 2 and 4 (less than K, no limit worth
  the name, more), epsilon 0 and 1/2, times 2, 3, 5 and 6, compensated ones -2, 3 and 5, chosen
  so that they converge for one epsilon and not for the other. For the timers two
  calls are measured, a second has 3 microseconds and `MAX_ETIME` is 4 of them, so
  that measurements cross the second and the interval timer ends within the 9
  that a run lasts; the time of day is set once per measurement, by 1 or -2.
* `clock`: both platforms, words of 16 values, start values 0 and 250 so that both halves of the
  counter wrap, `NEVENT` 2, at most one cycle between two steps of a loop, a tick
  every 6 cycles that takes 4, with `RECORDTHRESH` 3 between these two numbers as
  in the code, 40 cycles in all.
* `site`: two parts to a pixel and widths on both sides of both breakpoints,
  exactly on them; three scroll positions.
* `panel`: at most three timers pending; a delay of two units for a panel with two
  links and one that opens a window, so that two redirects and a hide can be due
  in any order; a delay of one for a panel with a form and for panels at the other
  sides. What the window loads may arrive, and replace the page with its timers,
  at any time or never. Fingers move just far enough, too far aside, and in all directions.
* `prioritize`: three of five elements, in every order.

Fairness. `MDriver` has weak fairness of its whole next-state relation: one
process that waits for nothing; `fsecs` calls its
function at most `MaxRuns` times (`MaxRuns` is at least 1, as in all three ways to
measure). `KBest` (checked within `Fsecs`) needs that a measurement that has begun goes on, with
`kbest` at least 1 and a cache block of at least an int: with a smaller one `incr`
in `clear` is 0 and the loop never ends. In `Site` the browser delivers what is
due: script, load event, resize and scroll events, timers; nothing is assumed of
the reader, so `FooterSettles` speaks of behaviours in which the width stays on
one side from some point on. In `Panel` time passes and timers that are due fire,
which any browser does; nothing is assumed of the user, and not that a page that
is loading ever arrives, so `LastLinkWins` speaks of behaviours in which the page
stays and there is a last link. In `Fsecs` only the
measurement by `fcyc` is fair: the interval timer may kill the others. The other specifications are of safety only: their
environments (a client, a package, a machine) owe nothing.

Deadlock checking is on in every run; a program that has exited, or used up its
bound of time, stutters.

## Findings

1. `mdriver.c:409`: the overlap test misses enclosure.
2. `mdriver.c:656`: the data test rejects correct reallocs of indices whose low
   byte is 128 or more, because `char` is signed.
3. `mm.c:66`: every payload has a header, where the comment at the head of the file
   says "A block is pure payload. There are no headers or footers."
   (`mm.c:4-5`). `mm_realloc` depends on the header, so it is the comment that is
   out of date: the model has the header, and `HeadersIntact` (run `mmclient`)
   says that it can be relied on.

Limits met on the way. The properties that are checked name them as conditions, or
the constants keep away from them.

* `memlib.c:62` compares a pointer sum that may have wrapped: in a heap close to
  the end of the address space a large request moves the break down. With
  `mem_start_brk = 160` and a size 100, `HeapNeverShrinks` fails. A 20 MB block near
  the top of a 32-bit space is what `mmap` gives.
* `mm.c:61`: the sum is one of `size_t`, and for a request of 2^32 - 15 bytes or
  more it wraps: `newsize` is 0 or 8, `mem_sbrk` succeeds, and the block handed out
  has not one byte in the heap. `InHeap`, `Disjoint`, `HeadersIntact` and the
  contract of `Allocator` hold for smaller requests only (`RequestsFit`), and
  `HugeRequestsWrap` proves that they cannot hold for these. In the driver sizes are
  ints, and `add_range` asserts that they are positive (`mdriver.c:388`).
* `mm.c:42`: `ALIGN` clears three bits whatever `ALIGNMENT` is; with 4, as the
  comment above it allows, headers get no room.
* `mdriver.c:540`: the index of a free is not in `max_index`, so a trace that
  passes the assertions may free an index beyond the arrays.
* `mdriver.c:524`: a line with a number missing is read with the number of the line
  before. The model does that too, but `ListingsAreDecided` promises something only of
  lines with the numbers their word needs (`IsListing`).
* `fcyc.c:109`: with a cache block smaller than an int `incr` is 0 and `clear` never
  ends. `Fsecs` starts from blocks of at least an int.
* `fcyc.c:97`: with compensation a sample may be negative (the estimate of a
  tick is an upper bound), and then K equal samples do not count as converged;
  the loop goes on to `maxsamples`. `BestOf` promises no more.
* `clock.c:127`: the Alpha counter has a high half of 0 from which it borrows
  when the low half wraps (`Tellable`).
* `clock.c:271` reads `tms_utime` alone. `times` charges a tick that finds the process
  in the kernel to `tms_stime`, and the time of other processes to neither. The
  machine of `Clock` charges every tick of a running process to `utime` and never
  preempts it. On a machine that does otherwise such ticks would not be subtracted,
  and `NeverOvercounts` says nothing about it.
* `clock.c:91-97` say that the counter of Alpha counts the cycles of the process;
  then `mhz`, which sleeps between its two readings, sees next to none of them
  and `fsecs` divides by that.
* `mdriver.c:161` keeps the answer of `getopt` in a `char`: where `char` is
  unsigned the end of the options is taken for an unknown one.
* `ftimer.c:50`: if the time of day is set between the two readings, the time
  measured is off by as much and may be negative.
* `util.js:552`: each element that `$.prioritize` moves remembers the sibling that
  stood before it when its turn came, after earlier elements of the same call
  had been moved away. By selector the way back goes in the reverse order, and
  everything is restored; a jQuery object of two elements keeps its order, and
  they do not come back to their original locations (`util.js:524`).
* `util.js:122`: nothing cancels the post-hide timer, so a panel that is opened
  again within `delay` is reset when it fires. A panel hidden by a link to it
  (`util.js:258`, `util.js:275`) is not reset at all.
* `util.js:172`: the redirect only starts a load, and the page stays, with its other
  timers, until what is loaded replaces it. If two links are clicked one after the
  other and the page of the first arrives before the timer of the second fires, the
  second click is lost. So the last link clicked need not win; what holds is that none clicked
  before overrides it (`LastLinkIsNext`), and that it wins if the page stays
  (`LastLinkWins`).
* `util.js:443`: `submit` takes the name of the stand-in of a password field away,
  by which the other handlers find it. If the page stays, an empty password field
  is hidden on blur or reset and nothing is shown in its place.
* `util.js:477`: there is no attribute `defaultValue`, so the polyfill's reset empties
  the fields, hidden ones too, instead of restoring the values the page came with;
  a select becomes empty unless it has the first option of the document
  (`util.js:460`).
* `util.js:501`: a reset puts the hint into a text field that has the focus, and what
  the user types next is appended to it and submitted.
* `util.js:46`, `util.js:54`: for none or several elements `panel` and `placeholder`
  return a `$this` that has no value yet.
* At a window width between two pixels (980.5px, with zoom) neither `<=medium` nor
  `>medium` is true, and going there and back adds a scroll handler each time.
  `on` runs a handler without noting it, so each handler that is true at the
  start runs twice, and a wide page has two scroll handlers that do the same.

## Proofs

Every invariant and action property that the runs check is proved for all values
of the constants; so are the three refinements
(`Allocator`, `BestOf`, and `read_trace` and `fcyc` inside the programs that call
them). Each theorem has an inductive invariant; the proofs have one step per
action.

### Hypotheses

The assumptions on the constants (`ASSUME` in `Config`, `Memlib`, `MM`, ...) are
those of the modules. What some theorems need beyond them is a hypothesis of
the theorem and not an assumption of a module, so that TLC can run the same
modules without it:

| hypothesis | where | why the code justifies it, and what happens without |
|---|---|---|
| `ALIGNMENT = 8` | `MMProofs`, `MDriverProofs` (mm side) | the value of `config.h`; `ALIGN` rounds down with any other |
| `RoomAbove` | same | no sum of a heap pointer and an int wraps; the heap is 20 MB in a space of 4 GB. Otherwise a large request moves `mem_brk` down |
| `RequestsFit` | `MMProofs` | no request is so large that `newsize` wraps: every int is small enough, and of the values of `size_t` only the last 15 are not. For these the theorems are false (`HugeRequestsWrap`) |
| `LowIndices` | `HonestPackageIsAccepted`, `VerdictOfTrace` | the low byte of every index is below 128; otherwise the data check rejects correct packages (finding 2) |
| `Timing` | `EstimateIsSafe`, `CompensationIsSafe` | a poll of the counter is short beside `THRESHOLD` (1000) and `RECORDTHRESH` (3000), these beside the period of the timer (over a million cycles), and the program ends before 2^64 cycles. Not a hypothesis but part of the machine in `Clock`: it charges every tick to `utime` and does not preempt (see the limits) |
| `WholePixels` | `HandlersDoNotPileUp` | the window is not zoomed; otherwise handlers do pile up (see the limits) |

### The package: `MMProofs`

About `MMClient`: `TypeCorrect`, `BlocksInHeap`, `BlocksDisjoint`, `HeadersKept`,
the action properties `BrkMonotone` and `FailuresAreReal`, and `Implements`, the
refinement of `Allocator`.

No one of the four invariants is inductive. `Disjoint` after
`mm_malloc` needs that held blocks end below `mem_brk` (`InHeap`);
`HeadersIntact` after a caller's write needs `Disjoint`; the copy in
`mm_realloc` stays inside the old payload only because its header is intact; and
aligned payloads need that `mem_brk` itself is a multiple of 8, which no checked
invariant says. `IInv` is their conjunction. The arithmetic is in `AlignUp`,
`HeaderSize` and `NewsizeBounds`; `MallocEffect` and `ReallocEffect` say what one
call does to the heap (`Carves`), and from there on no proof looks inside
`mm_malloc`. For the refinement, each action of `MMClient` implements the action
of the same name of `Allocator`, with the contents of payloads read off the heap.
For `FailuresAreReal` the size that overflows the int is the hard case: `newsize`
is then negative, and the request would not have fitted anyhow.

All of this is for sizes that do not wrap (`RequestsFit`), from 0 to 2^32 - 16,
more than half of which are no ints. `HugeRequestsWrap` is about the others:
`ModWrapped` and `WrappedNewsize` show that `newsize` is then at most 8, and so the
block begins where the heap ends, or behind.

### The checker: `AnyPackageProofs`

About `eval_mm_valid` and a package that may answer anything:
`RangeListIsTheTruth`, `VerdictMissesOnlyEnclosure`, `HonestPackageIsAccepted`, and
`AcceptedDisjointUnlessEnclosed`, which is what remains of the promise that the
run `anypackage_enclosure` refutes. The mirror property alone is not inductive:
`remove_range` takes away every range that begins at the pointer, so the
invariant (`Booked`) also says that no two held payloads begin at the same
address and that the driver's pointer is where the payload begins. A payload
that begins where another one does fails the overlap test; that is the lemma
the rest stands on.

### The driver: `MDriverProofs`

About `MDriver`, the loop over the traces with its three passes over `mm.c`:
`PointersStayFresh`, `JudgedLayoutIsMeasured`, `JudgedPackageNeverFails`,
`TotalCounted`, `VerdictOfTrace`.

The passes have to agree although each starts from an empty heap. The layout of a
trace is what `eval_mm_valid` finds out, and the state does not keep it. The
invariant says that there is one: a sequence `b` of breaks, one per request, such
that each request moves the break as `mm.c` would from there (`Layout`), and that the
blocks in hand are where `b` says (`Holds`). While the trace is judged `b` grows
(`Judging`); afterwards it is fixed and each later pass walks along it
(`Following`), which is why a package that passed once cannot fail later, and why
no pointer of an earlier pass is ever used. A quantifier takes the place of the recursive
definition of the layout, whose values the prover could not compute.

`TotalCounted` and `VerdictOfTrace` are about sums over the blocks of a trace.
A sum over a finite set is defined as a function on its subsets
(`IsSum`, `SumOf`); that there is one, and what it is when an element
is added or changed, is proved by least counterexamples on the cardinality. `UInv` says
that `total_size` is the sum of the sizes in hand and `max_total_size` its peak so
far, and that the peak is below the break; `VInv` adds that the traces judged so
far are valid exactly if they fit (`FitsHeap`) and that `errors` counts the others.

About `Main`: `LibcBlocksAreOwn` and `LibcHeapIsAccountedFor`. `LibcInv` is a
balance: what is allocated is what this pass holds plus, for each trace, the
number of its passes times what one of them leaves. That the blocks in hand are in the
heap and different (`Own`) is what makes a free reduce it by exactly one.
`LibcLeavesNoTrace`: after the half on libc all that is proved of `MDriver`
holds. That half changes `errors` only when it ends the program, and leaves the
heap of `mm.c`, the range list and the statistics alone (`Untested`).

### Reading traces: `TraceFileProofs`

`HeaderHolds` and `ListingsAreDecided` are about `read_trace` alone, `OptionsAreObeyed`
about the options of `main`. The invariants say what `max_index` is the maximum
of and what of `ops` has been stored (`IInv`), and of a proper listing that the
position in the file is between two requests and all before it stand in `ops`
as they were written, also when some were written behind the array
(`ListingInv`). `ProgramReadsAsSpecified` says that `main` with its options and
directories refines `read_trace`; with it the theorems hold in the program
(`ReadTracesHeaderHolds`, `ReadTracesDecidesListings`).

### Timing: `KBestProofs`, `ClockProofs`

`KBestKept`, `BufferMatches` and `Implements`, the refinement of `BestOf`: that the
array is sorted is not enough to be inductive, since the K smallest of a bag
cannot be told from the array alone; the invariant counts, for every value, the
samples that are smaller or equal, and says that the array has as many of them as
fit. The lemmas are about what sifting one sample into a sorted array does to these
counts, and `LoopTest` about what the loop condition says when it is false.
`FsecsUsesFcyc` carries all of it over to `fsecs` (`FsecsKeepsPromise`).
`TimersMeasureCalls` is about the other two builds: the invariant (`TimersInv`) adds up
what is left of the interval timer and what has passed since it was set.

`CounterExact`: the subtraction of two halves with a borrow is the time
that has passed, on i386 for all spans below the square of the word
(`Subtraction`), on Alpha until the word wraps (`SubtractionAlpha`).
`EstimateIsSafe` and `CompensationIsSafe` are about i386. `callibrate` takes a gap
between two polls of the counter for an interrupt if it is long, and reads the
number of ticks with another call, before or after the interrupt that the gap may hold. The
invariant bounds how long ago the last tick was at each step of the loop
(`OneTick`), so that no second one can come in the same gap, and says that a gap
without a whole interrupt in it is too short to be recorded (`Gaps`); the estimate is then a ratio of
gaps that each hold all of their interrupts (`Estimated`), and what the compensated
counter subtracts is at least what interrupts have cost (`Compensated`).

### The page: `SiteProofs`, `UtilProofs`

`FooterIsWhereItBelongs` and `HandlersDoNotPileUp`: between a resize and the poll that
answers it the footer is where the state of the events says, not where the width
does (`FooterPolled`); the number of scroll handlers is bounded by what the two
queries of the background last were (`HandlersBound`).

`SubmissionsSendWhatIsMeant` and `TwinAlwaysStandsIn` need that the class
`polyfill-placeholder` tells the truth about the text field (`Marks`), and that the
stand-in keeps its name until the first submission. `SettledPanelsAreSpared` and `HiddenPanelsAreReset` need
that every pending post-hide timer ends within `delay` (`HideInTime`).
`LastLinkNeverOverridden` needs that redirects fire in the order in which they were
set: one that is due has no other redirect before it (`due`), so the one that fires
is the first of those pending, and the last clicked stays the last
until it is itself what the window loads (`Coming`).

`MovedAreOnTop` and `SelectorRestores` are about one parent with any finite number
of children. The states within a call of `$.prioritize` are the values of a
recursive function on the number of elements that `each` has come to; the prover does not unfold
it, so `PassExists` shows that there is such a function and `Climb` is the
induction on its argument. For the order of the elements an invariant of single
moves suffices (`OnTop`, `SameOrder`). For the way back it does not: each moved
element remembers one neighbour, and that neighbour may itself have moved since. The
invariant says that there is a history, one arrangement per move, in which the
remembered element is the one before (`Chain`); a pass to the top makes it
longer, and a pass back walks down it because a selector finds the elements in the order
of the page, the last that moved first (`BackPassChain`). A jQuery object made once steps
through them in another order, and then there is no such theorem.

### Only model-checked

* Liveness: `Termination`, `MeasurementEnds`, `FooterSettles`, `LastLinkWins`. The
  prover has no rule for `ENABLED`, on which weak fairness rests.
* The two violated properties, which are false.

## Plan

No safety property of the runs is left to prove. What could be proved besides, of
the four liveness properties, is the half that is about steps: a measure that no step
raises and each step of the fair action lowers (the requests and passes left in
`MDriver`, the samples left in `KBest`, the timers pending in `Panel`).

## Not modelled

* The performance formula and the printed tables: formatting and floating point.
* `mem_deinit` (never called), `ovhd` (never called), the exits on failing libc
  `malloc` outside the passes, and `free_trace`, which only frees.
* In `util.js`: `navList`, which builds a string; links in a panel to places in
  the same page, which load nothing; the cancelling of `touchmove` at
  the ends of a panel's scroll range; several panels on one page, which share
  only the events of the body.
* `browser.min.js`, which inspects the user agent; jQuery and poptrox (third party).
* The listings in `src/summary/ACM/*.md`: fragments inside notes that no program of
  the repository runs and that keep no state between calls.
* Pages, notes, styles and images.
