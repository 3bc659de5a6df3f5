# A verification of pantum-open

TLA+ modules, TLC runs and TLAPS proofs about the drivers of the Pantum M6500
in this repository: the SANE backend (`src/src/pantum.c`, `src/src/pantum.h`)
and the CUPS filter (`src/src/rastertopantum.c`). Paths are relative to the
directory that holds `src/` and `tla/`; `src/src/` is the repository's own
`src/`. Every definition is translated from that code; `PROJECT.json` ("map")
gives the lines each definition stands for.

    tlc -workers 2 -config session_faults.cfg ScanSessionMC
    tlapm ScanSessionProofs.tla

## 1. The system

| part | source | state it keeps | operations |
|---|---|---|---|
| **Scan session** | `pantum.c` 500-830, 1540-2090, 2250-2440 | one `Pantum_Handle`: `scanning`, `locked`, `cancelled`, `eof`, `feeding`, `non_blocking`, `has_adf`, `next_row`, the buffered rows | `sane_open/start/read/cancel/close/set_io_mode`; below them `command`, `lock_device`, `check_adf`, `setup_job`, `run_job`, `resume_job`, `pump_frame`, `end_scan`, `flush_input` |
| **Scanner firmware** | not in the repository; `notes/scan-protocol.md` | the lock, the job, the paper in the feeder | answers commands in order, emits the events of a job |
| **Page rows** | `pantum.c` 1250-1500 | `next_row`, the out buffer, margins, threshold | `out_reserve`, `emit_white_rows`, `convert_row`, `handle_data_block` |
| **Device registry and configuration** | `pantum.c` 830-1050, 1850-2060 | ids of `pantum.conf`, device list, pointer array, handle list, interface claims | `sane_init/exit/get_devices/open/close`, `read_config`, `probe_devices` |
| **Options and scan window** | `pantum.c` 1050-1250, 2090-2330 | option values and descriptors, `SANE_Parameters` | `sane_control_option`, `sane_get_parameters`, `compute_window`, `compute_parameters` |
| **Halftone mask, tone curve** | `pantum.c` 300-500 | tables of a handle | `build_dither_mask`, `build_gamma` |
| **CUPS print filter** | `rastertopantum.c` | `job_cancelled`, page counter, exit status, two spool files | `render_page`, `emit_page`, the manual duplex spool and its replay, the trailer |
| Python prototypes, status and dump tools, shims, notes, PPD, packaging | `src/proto`, `src/notes`, `src/ppd`, `src/etc` | none between runs | bench work and data |

How they interact. A SANE frontend calls the backend one entry point at a
time; only `sane_cancel` may come from a signal handler, in the middle of
another call. The backend talks to the scanner over two bulk endpoints
(`EP_OUT`, `EP_IN`); each frame is an `ASP\x01` header, some with a payload
read by a second transfer. Each transfer has a timeout. The device sends what
it wants to when it wants to, replies and page data on the same endpoint. The
registry is shared by all handles: a handle keeps a pointer into the device
list, and the kernel one claim per interface. The filter is a process of its
own: raster in on one side, the printer's stream out on the other, with a
SIGTERM from the scheduler at any moment. It never meets the backend.

What is hard:

- *interleaving*: `sane_cancel` between any two instructions; SIGTERM likewise;
- *failure*: a transfer lost, late, or torn between header and payload; no
  memory at any allocation; a frontend that dies and leaves the scanner locked
  with a job that goes on talking;
- *ordering*: a late reply that carries the name of a newer command; pages of
  an aborted feeder job that arrive in the next one;
- *obligation*: the scanner, once `CMD_LOCK` may have reached it, must get a
  `CMD_UNLOCK` on each of some thirty return paths, and must not get one while
  a job goes on;
- *accounting*: a page has exactly `params.lines` rows whatever blocks come;
- *stale state*: parameters, descriptors and lists used after what they were
  computed from has changed.

`PROJECT.json` ("hazards") lists each at its line with the properties that
would notice it going wrong, or a note on why none does.

## 2. The modules

    AspWire  ->  Scanner  --+
                PageRows  --+->  ScanSession  ->  SessionContract  ->  ScanSessionMC
                                     |                  |
                                     v                  |   SaneContract (INSTANCE)
                            ScanSessionProofs  ->  SessionContractProofs
    Dither  ->  PagePath  ->  PagePathMC, PagePathProofs
    DeviceRegistry  ->  DeviceRegistryProofs
    ScanWindow -> ScanOptions -> ScanParameters  ->  ScanOptionsProofs
                              -> ScanOptionsMC
    PrintJob  ->  PrintJobProofs
    RenderPage  ->  RenderPageMC, RenderPageProofs
    DataInduction  ->  PagePathProofs, RenderPageProofs

(`X -> Y`: Y EXTENDS X. `DataInduction` has lemmas only and models nothing.) Definitions whose comment starts with "Mutant:" are
not used by the specifications; each is a plausible bug in the definition it
precedes, and replacing that definition by it must break the property named in
`PROJECT.json` ("mutants").

### AspWire, Scanner, PageRows, ScanSession

`AspWire` has the two pipes as sequences of frames. A frame keeps the command,
the status word, one argument, the rows of a data block and whether the
payload is well-formed. `Sent`/`SendFails` are the two outcomes of `usb_write`;
`SendFails` may or may not have delivered the command. `Received`, `RecvFails`
and `ReceivedPart` are the outcomes of `recv_frame` and of the read of a
payload: a read broken off within a frame leaves `Garbage` in front of the
pipe, which is what the magic check of `recv_frame` stops at. `CutShort` is
that for any read: `flush_input`'s raw ones, a poll that errs, or a frontend
that dies between header and payload. `map_status` is
the function of that name.

`Scanner` is the environment: the firmware, external to this repository. It
answers commands in order, runs one job, stops talking when the pipe is full,
refuses jobs, jams, and sends every block allowed by `Blocks` (in order, with
gaps, repeated, past the end of the page). After an abort it sends
`EVT_ABORTED` or falls silent for good, as `notes/scan-protocol.md`
(section 10, point 5) saw it do; neither costs a fault.

`PageRows` has the row loops of `emit_white_rows` and `handle_data_block` as
their results.

`ScanSession` is the session layer. Its state is `h` (the handle; `out` counts
buffered rows), `c` (the call in progress: which command, how many retries,
which result so far, and `c.pc`, the USB transfer or the statement it is at)
and `g`, history the properties read. Every action is the code from the end of
one transfer to the start of the next, with all it calls on the way. So the
device may act, `sane_cancel` may strike, the frontend may die (`crash`) and a
fault may happen at each place where they can in the program. The tests of
`h->cancelled` in `sane_start` are cut further (`test`, `clear`), because a
signal between them matters.

| code | action |
|---|---|
| `flush_input`, `probe_adf` | `Flushes`, `probe_adf`, then the command steps with `c.call = "open"` |
| `command`, `check_adf`, `lock_device`, `setup_job` | `command_sends`, `command_acked`, `command_skips`, `command_breaks_off`; failures end in `CommandFailed`, success goes on with `NextCommand` |
| `unlock_device` | operator of that name (the handle's part), `unlock_sends`, `unlock_recv` (the exchange) |
| `end_scan` | operator of that name, `abort_sends`, `drain_frame`, `drain_breaks_off` |
| `sane_start`, `run_job`, `resume_job` | `sane_start`, `start_tests_cancelled`, `resume_job`, `start_busy`, `start_job`, `start_retry` |
| `pump_frame`, `await_first_rows`, `sane_read` | `handle_data_block`, `pump_aborted`, `pump_job_end`, `pump_page_end`, `pump_other`, `pump_breaks_off`, `pump_idle`; `first_rows`, `deliver` end the two loops |

### SaneContract, SessionContract

`SaneContract` is what the entry points promise a frontend, without a transfer,
a command or a frame in it: which calls may be answered how, that a page has as
many rows as its start announced and hands out no more, that a blocking read
never comes back empty-handed, that a read begun after a cancel answers
`CANCELLED` and that only a start takes a cancel back, that every failure gives
the scanner back. Its state is the handle as the frontend sees it (`open`,
`fed`, `blocking`, `cancelled`), the call in progress with its answer, whether
the scanner is held, and the rows still owed. `SessionContract` instantiates it
over `ScanSession` (`open <- h.open`, `reply <- ` the status of a call that is
about to return, `holds <- h.locked \/ h.scanning \/ h.feeding`,
`left <- g.promised - g.given`, ...) and states `KeepsContract == C!Spec`.

### ScanSession, left coarse

Two places are deliberately coarse. `control_option` only changes the source
and the page length, since the session depends on nothing else (the rest is
`ScanOptions`). A retry's pause is not a step of its own.

### Dither, PagePath

`PagePath` follows a page byte by byte, from the data blocks through
`handle_data_block`, `emit_white_rows`, `convert_row` and the out buffer to
what `sane_read` copies out. A sample is the number of its block and its offset
there, so that the result can be compared with the page the blocks describe; a
bilevel dot also carries the threshold it is compared with. `out_reserve` is
modelled with its compaction, its doubling and the `realloc` that may be
refused after `out_cap` was raised; `sane_start`'s share is the threshold, the
white margins and the building of the mask. Row indices are 32-bit
(`% Wrap`). The rows of a loop are listed first and appended one by one: a row
carries its index and whether that has wrapped, and `append_row` passes over
the rows the code's loop would (`Skipped`). The commands and frames around it are `ScanSession`'s; here a
block, a refused block and the end of a page come in any order the device
might send them.

`Dither` is `build_dither_mask`, one action per round of its three loops; a
cell's neighbours are those of the torus, and a tie goes to the first cell in
scan order, as in `dither_extreme`. The energies are exact where the code adds
floats; the pattern of the fixed xorshift seed is any of `Seeds`.

### DeviceRegistry

The globals: `device_list` maps each probed unit to its busy flag,
`device_ptrs` says whether the array of pointers exists, `handle_list` maps
each open handle to its unit, with `live` (its device pointer still points
into the list) and `attached` (its claim has not been lost with the cable).
A rebuild of the list under an open handle is remembered in `dangled`. From
then on `free_handle` writes through a pointer to a freed node, which may be
no entry any more or have become the entry of any unit of the new list
(`Written`): the close of a stale handle may clear anybody's busy flag.
`read_config` chooses the ids from the directories as the code does; the
parsing of a line is abstracted to the set of units the ids match.
`sane_open` is cut where it has probed and looks the name up again.

### ScanWindow, ScanOptions, ScanParameters

`ScanWindow` is the arithmetic, on integers: `mm_to_units`, `compute_window`
axis by axis (`Span`), `compute_parameters`, `setup_job`. A coordinate, a
16.16 fixed-point number of millimetres in the code, counts `Grid` steps per
hundredth of an inch. `ScanOptions` is the option table with
`sane_control_option`: the descriptors' constraints depend on the mode and
the source, `constrain_word` clips ranges, rounds the threshold to its steps
and words to a list, and strings are replaced by freeing first and copying
second, which may fail (`NoMem`), as may the copies `init_options` makes. A
percent of the threshold, 65536 in the code's fixed point, is `Percent`
units. Where the `int` distance of a word to a list entry overflows, any
entry may be the nearest (`snapped`). `ScanParameters` composes the table with a job in outline: when the
parameters are computed, frozen, and used to shape rows.

### PrintJob

One run of the filter. `job` has the raster stream: `pages` whole pages, and
where it `ends` after them. It may end where it should, in lines of the last
page that lie below the page buffer (`tail`), within the header of another page
(`torn`), within the rows of one (`short`), or with a header that is refused
(`bad`). The filter notices the last two; the drain of `render_page`
(`rastertopantum.c:782`) and the loop of `main` (`rastertopantum.c:1011`) take
`tail` and `torn` for the end of the stream, and so does the model. `pc` is the
place in `main`, `out` what stdout carried, chunk by chunk, `acct` the copies
reported by `PAGE:` lines. An interrupted `fflush` may lose any part of what
stdio held (`FlushBreaksOff`).
A SIGTERM comes once, before any step or within any write (it is installed
without `SA_RESTART`); the backend behind stdout may go away for good;
`Faults` says which of files, memory and spool may fail.

### RenderPage

A page of the filter between the raster header and the chunks of its image.
`r` holds the job (options and raster headers), the page in hand with its
layout (`page_layout`: a size from the paper table, the one that is turned a
quarter, or a custom one padded in 32 bits), the row buffer, the grey page of a
quarter turn, the bitmap, the JBIG buffer and the page that was sent last. A
pixel is its place in the raster; a dot is a pixel and the cell of the screen
it is compared with. A row, the quarter turn, a surplus line that is drained, a
piece JBIG delivers and the end of the page are an action each; `left` counts
the lines of the raster nobody has read. Where a drained line cannot be read,
the page goes out all the same and the stream is dead; the blank back of an odd
duplex job (`render_blank_page`) is printed then too. `dot_code` is the
decision of `halftone_row` about one dot. `PrintJob` has the job around it.

## 3. Runs

| run | instance | question and answer |
|---|---|---|
| `session_faults` | flatbed, 2 faults of any kind | Do lock, job, unlock and rows stay in step through every single and double failure, cancel and crash? Yes: `LockMatchesJob`, `FailureReleases`, `UnlockOwed`, `PageWhole`; a start before which no earlier `CMD_START` is about never takes an old acknowledgement for its own (`StartAckIsFresh`); and all the frontend sees of it is what `SaneContract` allows (`KeepsContract`). |
| `session_feeder` | feeder with 0-2 sheets, 3 starts, no faults | With pages held, resumed, cancelled and refused: both pipes are empty after each job (`CleanBoundary`), and the frontend still sees what `SaneContract` allows (`KeepsContract`). |
| `session_live` | flatbed, 1 fault, fair | Every call returns (`CallsReturn`) and a closed handle leaves the scanner unlocked (`ClosedReleases`). |
| `registry` | 2 units, 2 handles, 1 failing allocation | Claims agree with the open handles, cables included (`ClaimsMatchHandles`), and so do busy flags until the list is rebuilt under an open handle (`BusyMatchesHandles`), which never happens until an allocation fails (`NoDangling`). |
| `options_table` | the code's bed and resolutions, a threshold in steps of 3, strings may find no memory | Values obey their descriptors (`InRange`), the window lies in the bed (`WindowInBed`), holds the selection (`WindowCovers`), and falls short of the firmware's minimum only at the edge of the glass (`SmallOnlyAtOrigin`). |
| `parameters` | a feeder, two modes, the mask may find no memory | The rows being read have the parameters the frontend was told (`RowsMatchParams`), and so has the job (`SettingsMatchParams`). |
| `page_path` | pages of 3x2 and 5x4, twelve kinds of block, a 4x4 mask, two pages per handle | What the frontend gets is the page, byte for byte, in every mode, whatever blocks come and memory fails (`StreamIsThePage`); no sample from past its block (`SamplesInBlock`), no byte past the buffer (`WritesFit`). The mask is built (`MaskCompletes`) from true energies (`EnergyIsField`), with every rank once (`RanksNest`) and every threshold equally often (`MaskBalanced`). |
| `render_page` | two papers, rasters smaller and larger than the page, custom sizes to the largest, both turns and depths | Every pixel is in its place on the sheet (`SheetIsPage`), the buffers fit (`RowHolds`), every line of the raster is read once before the next header is looked for (`HeaderInPlace`), no piece of the compressed page is lost (`EntityWhole`), darker is never lighter (`InkFollowsTone`). |
| `print_job` | streams of 0-4 whole pages with any ending, both duplex modes, all faults | Exit status 0 means that the printer got every whole page of the stream and that nothing the filter can see was broken (`JobWhole`); however it fails, what was printed is a beginning of that, and a manual duplex job known to be broken prints no page (`StreamIsPrefix`); the backs meet their fronts (`SheetsPaired`) and a document that was begun is closed (`DocClosed`). |

The runs that end in a violation each check one sentence of a comment against
what the code does; `PROJECT.json` ("findings") quotes both.

| run | what TLC shows |
|---|---|
| `session_stale_ack` | A late reply to an earlier `CMD_LOCK` passes for the answer to a new one, and `check_adf` then reads the real one, one frame behind. |
| `session_phantom_page` | A feeder job that ends while `sane_start` waits for a page gives an all-white page instead of `NO_DOCS`. |
| `print_copies` | The blank back of an odd page count is accounted once and printed `NumCopies` times. |

Three more places where the code and a comment part ways have no run of their
own, because a property states what does hold:

- `pantum.c:2416` says that raising the flag is enough for `sane_read` or
  `sane_close` to tear the job down. A `sane_cancel` between `sane_start`'s
  test of the flag (`pantum.c:2276`) and its reset (`pantum.c:2285`) is
  forgotten. `SaneContract` therefore lets a start, and nothing else, take a
  cancel back (`MayForget`).
- `pantum.h` gives a least window; `compute_window` widens a smaller one only
  while its near edge is away from 0 (`pantum.c:1199`).
  `SmallOnlyAtOrigin` says that this is the only way to fall short.
- The blank back of a sheet that is turned a quarter announces the turned size
  and carries the unturned bitmap (`rastertopantum.c:806`, as the vendor's
  filter does). `RenderPage` follows it; `SheetIsPage` asks of a blank back
  only that it is blank.

Some properties that hold are stated with a condition, because the code fails
them in a corner. Dropping the condition makes TLC show the corner. In these
an allocation fails:

- `NoDangling` holds until an allocation fails. A probe that found a device
  but no memory for the pointer array leaves the list with `device_ptrs` NULL
  (`pantum.c:985`); `sane_open` opens one of its devices, and since
  `probe_devices` keeps the list only for `handle_list && device_ptrs`
  (`pantum.c:931`), the next probe frees it under the handle.
- `BusyMatchesHandles` holds until that has happened. The rebuilt list shows
  the scanner the handle holds as idle (a second `sane_open` is then refused
  by the kernel's claim and not by the flag), and closing the stale handle
  writes to a freed node (`pantum.c:1862`) that may be the entry of another
  handle's scanner by then.
- `InRange` excuses a lost string: `sane_control_option` frees the old one
  before it copies the new one (`pantum.c:2202`), and reports the empty string
  after a failed copy. A lost source counts as the flatbed while the feeder's
  constraints stay, so `WindowCovers` excuses it too.
- `RowsMatchParams` excuses the rows left when `sane_start` finds no memory
  for the halftone mask: by then it has replaced `h->params`
  (`pantum.c:2287`).
- `WritesFit` excuses a buffer whose `realloc` was ever refused: `out_reserve`
  raises `out_cap` first (`pantum.c:1279`). The failed read ends the job, but
  the next start on the same handle trusts the capacity.

In these something else is lost:

- `StartAckIsFresh` speaks of the starts before which neither pipe holds a
  `CMD_START` or an answer to one (`g.alone`). For them it holds with any
  number of faults (section 4). For any start at all it does not: each time a
  start's answer and the answer to the unlock after it both miss their
  timeouts, the two replies stay in the pipe, and the next start on the handle
  takes them for its own and leaves its real ones behind one command further
  on: `LOCK`, `SET_DEFAULTS`, `GET`, `SET`, `START`. Five such starts in a row,
  ten faults, and the sixth takes the fifth's acknowledgement of `CMD_START`
  (TLC shows it with `MaxFaults = 12`, `MaxStarts = 7`, `MaxSkip = 4` and
  without `g.alone`). That contradicts the comment at `pantum.c:699`, and it is
  the weakness of `command`, which knows a reply by its name alone, that
  `session_stale_ack` shows of `CMD_LOCK` after one fault; the finding there
  stands for both.
- `JobWhole` and `StreamIsPrefix` speak of what the filter can know. A raster
  stream that dies in the lines below the page buffer (`rastertopantum.c:782`)
  or within a header (`rastertopantum.c:1011`) is for the filter one that ended
  there: the exit status is 0 and, in manual duplex, the pages before are
  replayed, as a shorter but whole and paired stack with a blank back where
  their number is odd. `KnownBroken` is what remains: a refused header, or rows
  missing from a page buffer.

`PrintJob` says nothing of the exit status of a cancelled job: a SIGTERM that
interrupts a write of the replay, the pause, the trailer or the flush sets
`status = 1` there, one in the page loop does not.

### Bounds

- `MaxFaults` is a budget: a behaviour has at most that many lost, late, torn
  or refused transfers, failed allocations and crashes. One lets every single
  failure strike everywhere; two adds a failure during the recovery from one,
  which no function of the code distinguishes from a third.
- `QMax = 2` frames on `EP_IN`: enough for a stale frame in front of a fresh
  one. It is fewer than the four stale frames that `command` refuses to step
  over in the program; there the bound is `MaxSkip = 2`, so the
  give-up branch is reached all the same.
- `MaxSkip`, `LockTries`, `Attempts` (2 each) and `MaxDrain` stand for 4, 5, 4
  and 4096: the first and the last round of each loop differ, those between do
  what the first does. `MaxDrain` is 8, and 9 in `session_feeder`: as many
  frames as its longest job has (`MaxSheets * (MaxBlocks + 2) + 1`), which is
  what `CleanBoundary` rests on (`DrainOutlasts`).
- `MaxLines = 2`, `MaxBlocks` of 1 or 2, `Blocks` with one in order, one that
  leaves a gap or repeats, and one that runs past the page: rows short, exact
  and too many, by white filling or by data.
- `MaxSheets = 2`, `MaxStarts` of 2 or 3: a page begun anew, a page resumed, an
  empty feeder after it. `MaxStarts` limits the behaviour and is not code.
- `registry`: two of each; a claim or a list is disputed by at most two.
- `page_path`: pages of 3x2 and 5x4 pixels with `Bits = 2`, so that a row
  ends within a byte and on its end; blocks in order, with gaps, overlapping,
  with fewer and more pixels than the page, with strides that do not divide,
  and one that wraps (`Wrap = 8`). The scaled resolutions 20 and 40 give
  margins of one, two and three rows, more than the page has and fewer.
  `FirstCap = 10` makes the buffer grow in the middle of a block. Two pages on
  a handle show what a page leaves to the next.
- the mask: a torus of 4x4 with `Radius = 1` and three seeds; 16 ranks on
  5 thresholds do not divide evenly, as 16384 on 255 do not.
- `render_page`: bytes of 4 dots, a screen of 3 (which no row width is a
  multiple of), rasters of 3 and 9 on pages of 4 and 8; `MaxDots = 16`,
  `Wrap = 64`, and a header of 63 which only the size check stops.
  `FirstCap = BidMax = 3` with pieces of 1 and 3: the buffer grows within the
  page and a chunk ends within, at and after a piece.
- `options_table`: the bed of `pantum.h` (850 x 1169, 1400 in the feeder,
  minimum 15) with corners in, on and outside every edge and a `Grid` of 4,
  so that rounding goes up, down and to the half; resolutions up to a word
  whose distance overflows; thresholds below, above and between two steps.
- `print_job`: four pages are two full sheets; zero, odd and even counts all
  occur, each with every ending.

`CHECK_DEADLOCK FALSE` stands in the configurations of `PrintJob` and
`RenderPage`, whose program ends, and of `PagePath`, which stops when
`MaxPages` were read.

### Fairness

`FairSpec` adds weak fairness of `Backend` (the code of a call in progress)
and of `Device`. C code does not stop between two statements, and every
blocking transfer returns by its timeout at the latest; the firmware goes on
with its queue and its job. Nothing makes the frontend call, the user cancel
or the paper come: those actions are not fair. A transfer that times out on a
quiet device is not a fault and costs nothing, so the calls also return when
the device stays silent for good. `PathSpec` has weak fairness of `build_step`
alone: the rounds of a loop that waits for nothing.

## 4. Proofs

Everything in this section holds for every value of the constants, from the
named assumptions of the modules alone; one theorem and its companion have a
hypothesis besides, `DrainOutlasts`. Every invariant of the passing runs is
stated by a theorem.

**The session** (`ScanSessionProofs`; any number of faults, retries, rows and
starts, any queue length, any blocks):

- `TypeCorrect`: `[]TypeOK`. Inductive as it stands; one step per action. The
  record sets are kept opaque and reached through lemmas on membership and on
  single fields.
- `LockMatchesJobHolds`: `[]LockMatchesJob`. Only true between calls, so not
  inductive. `LockInv` says for each place of `c.pc` what holds on the way:
  where a call waits in a command of `sane_start`, the lock is held and no job
  runs; where it drains, a job runs; where it has reported success, the two
  agree; and `feeding` only goes with a finished page of a running job.
  `OpenInv` adds which calls can be in which place.
- `UnlockOwedHolds`: `[]UnlockOwed`. The wire's side of the same promise:
  the scanner's lock and every `CMD_LOCK` still in the pipe must have a
  `CMD_UNLOCK` behind them once the handle owes none. The inductive
  invariant is `Owing \/ g.lost \/ Settled`, where `Owing` is the handle's
  debt: it is locked, or an unlock is about to be sent. `DebtKept` shows that
  the device never breaks it: it takes from the front of the queue, and what it
  takes a lock with is still followed by the unlock.
- `StartAckIsFreshHolds`: an action property. `AckInv` follows a start that
  found the pipes without a `CMD_START` or an answer to one: until it ends they
  hold none, but for the one it is waiting for, as a request or as an answer
  and never as both (`SingleStart`). A failure of that wait ends the start
  (`Ending`), a retry sends its next `CMD_START` only after the last one was
  answered, and the device adds an answer only for a request it takes.
- `CleanBoundaryHolds` and `AnswerInStepHolds`: without a fault both pipes are
  empty whenever the handle is idle with no job, and the frame in front is the
  answer to the command in progress, wherever the calls were cancelled. `Wire`
  says what the pipes hold at each place of `c.pc`: nothing (`Calm`), the one
  command or its one answer (`Asked`), whole events of the job (`Running`),
  what is left of the job with the abort on its way to the device (`Draining`),
  the unlock (`Unlocking`, `Unlocked`). `Rest` is the tail of a job and `Ahead`
  the frames the device can still send in it; together with those already
  drained they stay within the longest job. That is where `DrainOutlasts`
  comes in: `end_scan` gives up after 4096 frames (`pantum.c:1832`), and a job
  of more would leave the others in the pipe. It is a hypothesis and not an
  assumption of the module, since the code does not see to it.

**The contract** (`SessionContractProofs`):

- `FailureReleasesHolds` and `PageWholeHolds`, from `CallInv`, which joins
  three things no one of which is inductive: `PlaceInv`, where a call can be
  and what it is going on to; `AnswerInv`, what it is about to answer (a status
  is decided together with the fate of the job and returned only after the
  unlock); and `PageInv`, the rows: those handed out and those buffered are
  `next_row`, and `next_row` is the whole page once `eof` is set or the job is
  over. The last is where rows are lost if a path sets `eof` before it fills.
- `ContractKept`: `Spec => KeepsContract`, the refinement. `FreshInv` (a handle
  nobody holds is as `sane_open` makes it) is added, each action is matched
  with the action of `SaneContract` it is or with a stutter, and what the
  contract says of the state after a step is read off the invariant.

**The option table and the window** (`ScanOptionsProofs`, every bed, grid and
set of coordinates):

- `OptionsTypeCorrect` and `WindowInBedHolds` (from `SpanInBed`, the
  arithmetic of one axis, and `UnitsType`, the rounding);
- `ValuesObeyDescriptors`: `[](InRange /\ DescriptorsFollow)`, lost strings
  and overflowing distances included, and the threshold a whole percentage
  whatever is set (`QuantConstrained`). The invariant `TableInv` joins the type,
  `InRange` and `DescriptorsFollow`: a new source changes the constraints, and
  the values set before are clipped in the same step.
- `WindowCoversHolds` and `SmallOnlyAtOriginHolds`, from `SpanCovers`: an axis
  holds both corners if they lie within the bed, which `InRange` says they do.

**The parameters** (`ScanOptionsProofs`): `ParametersTypeCorrect` (no page
without a row or a column, which rests on the window's least width),
`RowsMatchParamsHolds`, `SettingsMatchParamsHolds`.

**The registry** (`DeviceRegistryProofs`, any units and handles, any number of
failed allocations): `RegistryTypeCorrect`, `ClaimsMatchHandlesHolds`,
`BusyMatchesHandlesHolds`, `NoDanglingHolds`. `RegistryInv` adds to the
statement about claims what `sane_exit` leaves behind (`NothingLeft`), that a
busy unit has one owner as long as no list was rebuilt under a handle, and that
every handle's pointer is alive till then, so that closing it clears the right
flag (`BusyOwned`), and when a list may lack its pointer array (`ListKept`): counting owners with
`Cardinality` is not inductive, naming them is.

**The filter's job** (`PrintJobProofs`, any number of pages and copies):
`JobTypeCorrect`, `StreamIsPrefixHolds`, `JobWholeHolds`, `DocClosedHolds`,
`SheetsPairedHolds`. `FilterInv` follows the document through `main`: the pages
read are numbered in order, the two spool files hold the fronts and the backs
of them, the replay has written so much of one and then of the other, and what
stdout carried is that beginning of `Stream`; a torn write ends it. The pairing
of the sheets is then arithmetic on the positions of `Stream`. `BrokenInv` adds
that a stream known to be broken leaves the page loop with a failure or a
cancel (`BrokenStops`), after which no replay begins.

**The filter's page** (`RenderPageProofs`, any paper table, raster, padding,
screen and depth): `RowHoldsAlways`, `SheetIsPageHolds`, `HeaderInPlaceHolds`,
`InkFollowsToneHolds`, `EntityWholeHolds`. `RenderInv` says that the rows taken so far, from the
top or the bottom, are in their places before the quarter turn
(`RowsInPlace`), and that the row buffer is white once the raster is used up
(`RowInHand`) - which the code relies on, since it clears the buffer only once.
`LinesInHand` counts what is unread while rows are read and while the rest is
drained: `cupsHeight - y`, or nothing once `y` is past the raster, so the two
loops must meet at the line where the page buffer ends.
`InBytes` and `HalftoneShows` are the arithmetic of dots in bytes, `LayoutFits`
that of the padding: the bound on sizes in the header check is what keeps it
from wrapping to nothing.

`EntityInv` gives `EntityWhole`: while the pieces come, the JBIG buffer holds
their sum or has failed, and of a page that was sent the header and the chunks
together are as long as the pieces were.

**The image path and the mask** (`PagePathProofs`, any blocks, sizes, memory
failures, mask size and seeds): `PathSound` is the inductive invariant,
`PathInv`, from which `StreamStays`, `SamplesStay`, `WritesStay`, `EnergyStays`,
`RanksStay` and `MaskStays` follow.

- *The mask* (`DitherInv`): the energies stay the sum of the kernel over the
  pattern through every toggle (`FieldAdds`, `ToggleKeeps`); the ranks given so
  far are those above, or below, the counter, each once (`RankedOnce`); and
  dividing `N` ranks on the thresholds gives two thresholds shares that differ
  by at most one (`EqualShares`, arithmetic on quotients, where the solver has
  to be led by hand because the divisor is a constant of the model).
- *The stream* (`Sound`): what waits in the buffer is the page from `got` on,
  and the two together end at `next_row`. A loop of rows keeps that if its rows
  come in the order of the page but for those that are skipped (`Ordered`,
  `StreamAppends`, `LoopKeeps`), which is shown once for white rows and once for
  a block (`BlockOrdered`, with the 32-bit wrap of the row index), with each row
  being the page's (`WhiteRight`, `DataRight`). The page is read off the list
  of blocks, so a block taken later must not change a row already given
  (`BlockSolid`, `BlockTaken`).
- *The buffer* (`ReserveKeeps`, `DoubledFits`): the capacity is at least what is
  in it and what is asked for; a refused `realloc` is the only way for
  capacity and allocation to differ.

**Induction over data** (`DataInduction`). The library's induction theorems
take an operator, which the provers cannot be given. A property of numbers is
therefore the *set* of those that have it, and the well-foundedness of `<`
gives a least number outside (`LeastOf`, `NatInduct`; `SubsetInduct` for finite
sets by their cardinality). A recursive function is a `CHOOSE`, so it has its
equation only where a function with that equation exists: `SumTableHolds` (sums
over a finite set), `SeqSumRuns` (the fold over a sequence) and `Doubling` (the
doubling of a capacity) build one. `ColumnSumSplit` and `SeqSumAppend` are what
the proofs above cite.

Only model-checked: liveness (`CallsReturn`, `ClosedReleases`, `MaskCompletes`),
since the proof system reasons neither about fairness nor about `ENABLED`.

## 5. What is not modelled

- `build_gamma`, the tone curve: floating point, a table applied sample by
  sample. The rounding of `build_dither_mask`'s float energies, for the same
  reason: the model's are exact, so a tie that rounding breaks is not seen.
- `out_reserve`'s compaction in the middle of a buffer is in the model but no
  behaviour reaches it: a block is taken only when the buffer has been read
  out. A failed read that leaves more stale frames than four commands step
  over needs a longer queue than `QMax`.
- JBIG (a library), the encoding of the chunks' items, and the options that
  only choose an item's value (density, tray).
- The text of `pantum.conf` and of option strings, `SANE_INFO` flags, logging.
- `DeviceRegistry` and `ScanSession` are not composed: a session touches no
  global but its own handle, and a second one its own scanner. `PrintJob` and
  `RenderPage` meet in whether a page could be sent, which `PrintJob` leaves
  open.
- That a cancel during the filter's replay stops it: nothing in the repository
  says so. That a raster stream cut at a page boundary, in a header or below a
  page buffer is noticed: the filter takes each for the regular end, and so the
  model does (section 3).
- What `pantum.c` does to freed memory besides the busy flag: `Written` lets
  the node be reused as a list entry and as nothing else.
- Prototypes, decoders, shims, notes, PPD and packaging: no state kept, or no
  code.

## 6. Plan

1. `CallsReturn` by a measure: a number every step of `Backend` lowers, given
   that the device's frames are finite, as an action property. It is the part
   of liveness that needs no fairness.
2. The recovery from a long stale tail: a run with `QMax` above the frames
   `command` steps over, on one start and no data.
